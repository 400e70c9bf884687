--------------------------- MODULE MCSoundBlaster ---------------------------
(* SoundBlaster on a small instance; the cfg files give the constants.     *)
EXTENDS SoundBlaster
=============================================================================
