------------------------------- MODULE MCLsq -------------------------------
(* Lsq with a word of two bytes and accesses to one byte or to both.       *)
EXTENDS Lsq

Whole  == [word |-> 1, bytes |-> {0, 1}]
Low    == [word |-> 1, bytes |-> {0}]
Branch == [kind |-> "branch", access |-> NoAccess]

LoadsAndStores(accesses) == [kind : {"load", "store"}, access : accesses]

BytesAndBranches ==
  LoadsAndStores({Whole, Low})
    \cup {Branch, [kind |-> "store", access |-> [Low EXCEPT !.word = 2]]}
Words == LoadsAndStores({Whole})
=============================================================================
