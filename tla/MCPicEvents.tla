---------------------------- MODULE MCPicEvents ----------------------------
(* The instance of PicEvents for TLC: two events of one handler, each of   *)
(* which may be queued several times; delays of nothing, within a cycle    *)
(* and beyond a tick.                                                      *)
EXTENDS PicEvents

MCEvents == {<<"a", 0>>, <<"a", 1>>}
MCDelays == {0, 1, 5}
=============================================================================
