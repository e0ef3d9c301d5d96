----------------------------- MODULE CborReader -----------------------------
(***************************************************************************)
(* A reader of CBOR (RFC 8949), written on the input buffer of UsefulBuf:  *)
(* the reference the encoder's output is compared with.                    *)
(***************************************************************************)
EXTENDS CborHead, CborDoc

\* The head that was read is the one of the token; "inside" is the length of the tokens a
\* byte string is to hold.
IsHeadOf(h, t, inside) ==
    /\ ~h.in.err /\ h.type = t.type
    /\ IF t.form = "indefinite" THEN h.info = 31
       ELSE h.info < 28 /\ h.arg = IF t.form = "wrap" THEN inside ELSE t.arg
    /\ h.type = 7 /\ h.info = 24 => h.arg > 31

\* The bytes are the encoding of the tokens, all of them and nothing else.
IsEncoding(bytes, toks) ==
    LET head(at) == ReadHead(UsefulInputBuf_Init(UsefulBufC(SubSeq(bytes, at + 1, Len(bytes)))))
        end[i \in 0..Len(toks)] ==
            IF i = 0 THEN 0
            ELSE LET at == end[i - 1] IN at + head(at).in.cursor + Len(toks[i].b)
    IN  /\ end[Len(toks)] = Len(bytes)
        /\ \A i \in 1..Len(toks) :
             /\ toks[i].form = "wrap" => i + toks[i].arg <= Len(toks)
             /\ IsHeadOf(head(end[i - 1]), toks[i], end[i + toks[i].arg] - end[i])
             /\ SubSeq(bytes, end[i] - Len(toks[i].b) + 1, end[i]) = toks[i].b
=============================================================================
