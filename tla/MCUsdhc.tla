------------------------------ MODULE MCUsdhc ------------------------------
(* Model-checking instances of Usdhc. *)
EXTENDS Usdhc

\* The boot loader may leave the controller in any configuration ...
AnyCtl == Ctl

\* ... with any of the clocks running, or as after its own use of the device.
AnyClocks == SUBSET CcmClocks

UBootCtl == {[wide |-> TRUE, clk |-> "other", tuned |-> TRUE, msb |-> TRUE]}
UBootClocks == {CcmClocks}
=============================================================================
