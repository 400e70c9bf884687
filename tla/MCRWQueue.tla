----------------------------- MODULE MCRWQueue -----------------------------
(* Instances of RWQueue for TLC.                                           *)
EXTENDS RWQueue
=============================================================================
