------------------------------ MODULE CborHead ------------------------------
(***************************************************************************)
(* The head of a CBOR item (RFC 8949, section 3), read from the input      *)
(* buffer of UsefulBuf: the reference for the heads the encoder writes.    *)
(***************************************************************************)
EXTENDS UsefulBuf

\* The initial byte and the argument behind it, read from an input buffer.
ReadHead(r) ==
    LET first == UsefulInputBuf_GetUint(r, 1)
        info  == first.got % 32
        arg   == IF info \in 24..27
                 THEN UsefulInputBuf_GetUint(first.in, <<1, 2, 4, 8>>[info - 23])
                 ELSE [in |-> first.in, got |-> info]
    IN  [in |-> arg.in, type |-> first.got \div 32, info |-> info, arg |-> arg.got]

\* An argument of n fits into w bytes behind the initial byte, or, with w = 0, into it.
FitsBytes(n, w) ==
    \/ w = 0 /\ n < 24
    \/ w = 1 /\ n < 256
    \/ w = 2 /\ n < 65536
    \/ w = 4 /\ n \div 65536 < 65536
    \/ w = 8
=============================================================================
