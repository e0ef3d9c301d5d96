---------------------------- MODULE MCRpmbNative ----------------------------
(* Model-checking instances of RpmbNative. *)
EXTENDS RpmbNative, TLC

\* The controller as U-Boot leaves it, all clocks running.
UBootCtl == {[wide |-> TRUE, clk |-> "other", tuned |-> TRUE, msb |-> TRUE]}
UBootClocks == {CcmClocks}

\* Requests differ in nothing but their identity.
Symmetry == Permutations(Ids)
=============================================================================
