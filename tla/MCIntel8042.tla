---------------------------- MODULE MCIntel8042 ----------------------------
(* Intel8042 on a small instance; the cfg files give the constants.        *)
EXTENDS Intel8042
=============================================================================
