---------------------------- MODULE MCAlgorithms ----------------------------
(***************************************************************************)
(* The algorithms of the attester that keep no state, on small inputs and  *)
(* on inputs at the ends of the lengths.                                   *)
(***************************************************************************)
EXTENDS Algorithms

-----------------------------------------------------------------------------
(* Inputs *)

\* Arguments at the ends of each head length, client-ids among them.
Arguments == {0, 23, 24, 255, 256, 65535, 65536, 2147483647}

\* The claims of the PTA: the lengths of the code, the ones that vary chosen.
Claims(client, version, nonce) ==
    LET part(v) == [type |-> <<65, 82, 111, 84, 0>>, value |-> Filled(32), version |-> v,
                    signer |-> Filled(32)]
    IN  [profile |-> Filled(24) \o <<0>>, client |-> client, lifecycle |-> 12288,
         implementation |-> Filled(32), instance |-> Filled(33), nonce |-> Filled(nonce),
         components |-> <<part(NULLUsefulBufC), part(UsefulBufC(Filled(version) \o <<0>>))>>]

ClaimsInputs ==
    {[k |-> "claims", of |-> Claims(client, version, nonce)] :
       client \in Arguments, version \in {1, 23, 24, 31}, nonce \in {1, 23, 24, 64, 190, 194, 198, 206}}

\* Payloads at the ends of the length fields and of the buffers.
CoseInputs ==
    {[k |-> "cose", payload |-> Filled(len), signs |-> signs] :
       len \in {1, 23, 24, 255, 256, 435, 436, 437, 491, 492, 493, 512}, signs \in BOOLEAN}

HeadInputs == [k : {"head"}, type : 0..7, n : Arguments, min : {0, 1, 2, 4, 8}]

\* A number put at a position behind some bytes.
NumberInputs ==
    {i \in [k : {"number"}, have : {<<>>, <<1>>, <<1, 0, 1>>}, n : {0, 1, 256, 65537}, w : {1, 2, 4},
            pos : 0..4, cap : {0, 4, 7}] :
       /\ i.n < 256 \/ i.w > 1
       /\ i.n < 65536 \/ i.w > 2}

SmallBytes == {<<>>} \cup UNION {[1..n -> {0, 62, 129, 255}] : n \in 1..4}

Base64Inputs ==
    {[k |-> "base64", in |-> in, outlen |-> base64_enc_len(Len(in)) + spare] :
       in \in SmallBytes \cup {Filled(32)}, spare \in {-1, 0, 19}}

CidInputs ==
    {[k |-> "cid", cid |-> [i \in 1..15 |-> IF i % 4 = 0 THEN high ELSE 8 * i] \o <<crc>>,
      compat |-> compat] : high \in {1, 127}, crc \in {1, 255}, compat \in BOOLEAN}

Lines == {Line("sha256", "file"), Line("sha256", "zero"), Line("sha1", "file")}

\* The list as it is copied, and how much of it was in the PCR when it was quoted.
QuoteInputs ==
    UNION {[k : {"quote"}, log : [1..n -> Lines], quoted : 1..n] : n \in 1..4}

MCInputs ==
    UNION {ClaimsInputs, CoseInputs, HeadInputs, NumberInputs, Base64Inputs, CidInputs, QuoteInputs}

=============================================================================
