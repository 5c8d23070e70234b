------------------------------- MODULE MCRob -------------------------------
(* Rob on a small instance.                                                *)
EXTENDS Rob
=============================================================================
