----------------------------- MODULE MCEvidence -----------------------------
(***************************************************************************)
(* Small instances of Evidence.                                            *)
(***************************************************************************)
EXTENDS Evidence

Ro(n, b) == [size |-> n, bytes |-> b, valid |-> TRUE]
Rw(n, b) == [size |-> n, bytes |-> b, valid |-> FALSE]

\* Code, read-only regions of the same size, one of them present twice, and
\* data that differs from load to load, in several orders.
MCLayouts ==
    {<<Ro(2, 10), Ro(1, 11), Ro(1, 12), Ro(1, 11), Rw(1, 13)>>,
     <<Rw(1, 14), Ro(1, 12), Ro(1, 11), Ro(2, 10), Ro(1, 11)>>}

\* The challenge of the verifier, the longest nonce the PTA names, and lengths that
\* overflow each of the three work buffers in turn.
MCNonceLens   == {32, 64, 150, 165, 220}
MCOutLens     == {320, 1024}
MCVersionLens == {5, 31}
=============================================================================
