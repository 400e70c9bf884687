----------------------------- MODULE MCPic8259 -----------------------------
(* Instances of Pic8259 for TLC: two lines of the primary around the       *)
(* cascade, two of the secondary.                                          *)
EXTENDS Pic8259, TLC

MCLines == (0 :> {1, 2, 3}) @@ (1 :> {0, 1})
MCDeviceIrqs == {<<0, 1>>, <<0, 3>>, <<1, 0>>, <<1, 1>>}

(* Just the cascade, with everything the guest may program.                *)
MCCascade == (0 :> {2}) @@ (1 :> {0})
MCCascadeIrq == {<<1, 0>>}
MCAllModes == Controllers \X {"special", "auto_eoi", "rotate"}
=============================================================================
