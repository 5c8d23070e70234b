---------------------------- MODULE MCDataCache ----------------------------
(* DataCache with one set and three blocks that compete for its two lines. *)
EXTENDS DataCache

OneSet      == {0}
ThreeBlocks == {0} \X (0 .. 2)
OneBlock    == {<<0, 0>>}
=============================================================================
