----------------------------- MODULE MCPredictor -----------------------------
(* Six instructions for the targets: two calls, two returns, two branches. *)
EXTENDS Predictor

Kinds == <<"jump", "cond", "link", "jump", "link", "cond">>
Jumps == <<3, 5, 0, 1, 0, 2>>

MCKind == [pc \in 0 .. 5 |-> Kinds[pc + 1]]
MCTarget == [pc \in 0 .. 5 |-> Jumps[pc + 1]]
=============================================================================
