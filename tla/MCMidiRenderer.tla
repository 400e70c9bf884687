--------------------------- MODULE MCMidiRenderer ---------------------------
(* MidiRenderer on a scaled instance; the cfg files give the constants.    *)
EXTENDS MidiRenderer
=============================================================================
