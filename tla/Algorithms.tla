----------------------------- MODULE Algorithms -----------------------------
(***************************************************************************)
(* Algorithms of the attester that keep no state, each against a           *)
(* reference: the claims and the signed message it encodes, the heads of   *)
(* the CBOR encoder, its buffers, base64, the card identification number   *)
(* and the verification of an IMA quote.  One step chooses an algorithm    *)
(* and its input.                                                          *)
(***************************************************************************)
EXTENDS Cbor, CborLen, CborReader, Base64, Cid, ImaQuote

CONSTANT Inputs   \* records: the algorithm and its arguments

\* A C string: its only zero is at its end.
CString(sz) == sz \in Seq(Byte) /\ {j \in DOMAIN sz : sz[j] = 0} = {Len(sz)}

\* A component as the PTA describes it: a type of four characters and two hashes.
IsComponent(p) ==
    /\ CString(p.type) /\ Len(p.type) = 5
    /\ p.value \in Seq(Byte) /\ Len(p.value) = 32
    /\ p.signer \in Seq(Byte) /\ Len(p.signer) = 32

\* Of the two components the second has a version.
AreComponents(s) ==
    /\ Len(s) = 2 /\ IsComponent(s[1]) /\ IsComponent(s[2])
    /\ s[1].version.null = TRUE /\ s[2].version.null = FALSE
    /\ CString(s[2].version.bytes) /\ FitsBytes(Len(s[2].version.bytes) - 1, 4)

\* The claims cmd_get_cbor_evidence puts together: the profile is a constant, the client-id
\* has 31 bits and the lifecycle two bytes.
IsClaims(e) ==
    /\ CString(e.profile) /\ Len(e.profile) = 25
    /\ e.client \in Nat /\ FitsBytes(e.client, 4)
    /\ e.lifecycle \in Nat /\ FitsBytes(e.lifecycle, 2) /\ ~FitsBytes(e.lifecycle, 1)
    /\ e.implementation \in Seq(Byte) /\ Len(e.implementation) = 32
    /\ e.instance \in Seq(Byte) /\ Len(e.instance) = 33
    /\ e.nonce \in Seq(Byte) /\ FitsBytes(Len(e.nonce), 4)
    /\ AreComponents(e.components)

\* The limits of the encoder are above what the encodings of the attester need.
ASSUME RoomAssumption ==
    MAX_ARRAY_NESTING >= 3 /\ MAX_ITEMS_IN_ARRAY > 14 /\ MAX_ARRAY_OFFSET > TBS_BUFFER_SIZE

\* What the callers pass: an argument is a uint64_t, a number has the width of its
\* function, buffers hold bytes.  A violation, 64 zeros, is a line of a sha256 list.
ASSUME InputsAssumption ==
    \A i \in Inputs :
      /\ i.k = "claims" => IsClaims(i.of)
      /\ i.k = "cose" =>
           /\ i.payload \in Seq(Byte) /\ FitsBytes(Len(i.payload), 4) /\ i.signs \in BOOLEAN
      /\ i.k = "head" =>
           /\ i.type \in 0..7 /\ i.min \in {0, 1, 2, 4, 8}
           /\ i.n \in Nat /\ Shifted(i.n)[8] = 0
      /\ i.k = "number" =>
           /\ i.have \in Seq(Byte) /\ i.pos \in Nat /\ i.cap \in Nat
           /\ i.n \in Nat /\ i.w \in {1, 2, 4, 8} /\ Shifted(i.n)[i.w] = 0
      /\ i.k = "base64" => i.in \in Seq(Byte) /\ i.outlen \in Int
      /\ i.k = "cid" => i.cid \in [1..CID_SIZE -> Byte] /\ i.compat \in BOOLEAN
      /\ i.k = "quote" =>
           /\ i.log \in Seq([alg : STRING, what : STRING]) /\ i.quoted \in 1..Len(i.log)
           /\ \A j \in 1..Len(i.log) :
                i.log[j].alg # "none" /\ (i.log[j].what = "zero" => i.log[j].alg = "sha256")

VARIABLE input

Init == input = [k |-> "none"]

Next == input.k = "none" /\ input' \in Inputs

Spec == Init /\ [][Next]_input

-----------------------------------------------------------------------------
(* Properties *)

\* Bytes in a buffer, to tell whether they are overwritten.
Filled(n) == [i \in 1..n |-> i % 256]

\* The labels and values of a component, and of the claims, in their order.
ComponentDoc(p) ==
    LET version == IF p.version.null THEN <<>>
                   ELSE <<Int_(4), Text_(UsefulBuf_FromSZ(p.version.bytes))>>
    IN  <<Map_(IF p.version.null THEN 3 ELSE 4)>>
          \o (<<Int_(1), Text_(UsefulBuf_FromSZ(p.type))>> \o <<Int_(2), Bytes_(p.value)>>
                \o version \o <<Int_(5), Bytes_(p.signer)>>)

ClaimsDoc(e) ==
    <<Map_(7)>>
      \o (<<Int_(265), Text_(UsefulBuf_FromSZ(e.profile))>>
            \o <<Int_(2394), Int_(e.client)>>
            \o <<Int_(2395), Int_(e.lifecycle)>>
            \o <<Int_(2396), Bytes_(e.implementation)>>
            \o (<<Int_(2399)>> \o (<<Array_(2)>> \o (ComponentDoc(e.components[1])
                                                     \o ComponentDoc(e.components[2]))))
            \o <<Int_(10), Bytes_(e.nonce)>>
            \o <<Int_(256), Bytes_(e.instance)>>)

\* The claims encode_evidence_to_cbor writes read back as the claims it was given, in the
\* length the buffer calculations rely on, and only a buffer too small gives NULL.
ClaimsReadBack ==
    input.k = "claims" =>
      LET e   == input.of
          out == encode_evidence_to_cbor(e, 512)
          len == PayloadLen(HeadLen(e.client), Len(e.components[2].version.bytes) - 1, Len(e.nonce))
      IN  /\ out.null = (len > 512)
          /\ ~out.null => Len(out.bytes) = len /\ IsEncoding(out.bytes, ClaimsDoc(e))

\* What generate_cose has signed is exactly the Sig_structure of RFC 8152 over the header
\* and payload of its message; it gives NULL if signing fails or a buffer is too small.
CoseCarriesWhatIsSigned ==
    input.k = "cose" =>
      LET signature == IF input.signs THEN UsefulBufC(Filled(64)) ELSE NULLUsefulBufC
          len       == Len(input.payload)
          prot      == encode_protected_parameter(HEADER_BUFFER_SIZE).bytes
          header    == <<Map_(1), Int_(1), Int_(-7)>>
          sigStruct == <<Array_(4), Text_(<<83, 105, 103, 110, 97, 116, 117, 114, 101, 49>>),
                         Bytes_(prot), Bytes_(<<>>), Bytes_(input.payload)>>
          message   == <<Tag_(18), Array_(4), Bytes_(prot), Map_(0), Bytes_(input.payload),
                         Bytes_(signature.bytes)>>
      IN  \A made \in {generate_cose(input.payload, 512, signature)} :
            /\ made.cose.null = (~input.signs \/ TbsLen(len) > 512 \/ CoseLen(len) > 512)
            /\ IsEncoding(prot, header)
            /\ made.tbs.null \/ IsEncoding(made.tbs.bytes, sigStruct)
            /\ made.cose.null \/ IsEncoding(made.cose.bytes, message)

\* A head reads back as its type and argument, and is as short as the argument and the
\* minimum allow.
HeadIsShortest ==
    input.k = "head" =>
      LET out   == QCBOREncode_EncodeHead(input.type, input.min, input.n)
          h     == ReadHead(UsefulInputBuf_Init(UsefulBufC(out)))
          fits  == {w \in {0, 1, 2, 4, 8} : w >= input.min /\ FitsBytes(input.n, w)}
      IN  /\ ~h.in.err /\ UsefulInputBuf_BytesUnconsumed(h.in) = 0
          /\ h.type = input.type /\ h.arg = input.n
          /\ Len(out) = 1 + Min(fits)

\* A number put into an output buffer is found there again, at its place and nothing else
\* moved, or the buffer is left alone with its error set and gives nothing out.
PutIsGot ==
    input.k = "number" =>
      LET start == UsefulOutBuf_AppendUsefulBuf(UsefulOutBuf_Init(FALSE, input.cap), input.have)
          o     == UsefulOutBuf_InsertUint(start, input.n, input.w, input.pos)
          out   == UsefulOutBuf_OutUBuf(o)
          size  == Len(input.have) + input.w
          r     == UsefulInputBuf_GetUint(
                       UsefulInputBuf_Seek(UsefulInputBuf_Init(out), input.pos), input.w)
          rest  == UsefulBuf_Head(out, input.pos).bytes
                       \o UsefulBuf_Tail(out, input.pos + input.w).bytes
          copy(n) == UsefulOutBuf_CopyOut(o, Filled(n))
      IN  IF size > input.cap \/ input.pos > Len(input.have)
          THEN o.err /\ out.null /\ copy(8).ret.null /\ copy(8).dest = Filled(8)
          ELSE /\ ~o.err /\ ~r.in.err /\ r.got = input.n
               /\ UsefulBuf_Compare(rest, input.have) = 0
               /\ copy(size).ret = out /\ copy(size - 1).ret.null
               /\ UsefulBuf_FindBytes(out.bytes, BigEndian(input.n, input.w)) \in 0..input.pos

\* The bits of the bytes, most significant first, in groups of six.
SixBits(in, i) ==
    LET weight == <<128, 64, 32, 16, 8, 4, 2, 1>>
        bit(j) == IF j \div 8 < Len(in) THEN (in[j \div 8 + 1] \div weight[(j % 8) + 1]) % 2 ELSE 0
    IN  32 * bit(6 * i) + 16 * bit(6 * i + 1) + 8 * bit(6 * i + 2)
          + 4 * bit(6 * i + 3) + 2 * bit(6 * i + 4) + bit(6 * i + 5)

\* base64_encode writes what RFC 4648 defines and a NUL, and a buffer that is too small is
\* left alone and told the length that does; a hash fits the 64 characters the PTA has
\* for it with room for the NUL it puts behind.
Base64IsStandard ==
    input.k = "base64" =>
      LET r     == base64_encode(input.in, input.outlen)
          bits  == 8 * Len(input.in)
          chars == (bits + 5) \div 6
          quads == 4 * ((chars + 3) \div 4)
      IN  /\ r.ret = (IF input.outlen > quads THEN 1 ELSE 0)
          /\ r.outlen = quads + 1
          /\ r.ret = 1 =>
               r.out = [i \in 1..(quads + 1) |->
                           IF i <= chars THEN base64_table[SixBits(input.in, i - 1)]
                           ELSE IF i <= quads THEN Pad ELSE Nul]
          /\ Len(input.in) = 32 /\ input.outlen = 64 => r.ret = 1 /\ r.outlen < 64

\* The CID the RPMB key is derived from is the JEDEC one with a zero for the CRC, which the
\* kernel and tee-supplicant present as well; the old layout holds the same bytes.
CidIsJedec ==
    input.k = "cid" =>
      card_identify_cid(ResponseRegisters(input.cid), input.compat) = JedecCid(input.cid, input.compat)

\* A quote verifies exactly if the lines it covers are all sha256, although the list went
\* on growing; the lines reported as covered are the quoted ones, and behind them only
\* lines the recomputation skips.
VerifierCoversQuote ==
    input.k = "quote" =>
      LET pcr     == KernelExtends(SubSeq(input.log, 1, input.quoted))
          covered == host_verify(input.log, pcr)
          skipped == {i \in DOMAIN input.log : input.log[i].alg # "sha256"}
      IN  /\ (covered # 0) = (skipped \cap 1..input.quoted = {})
          /\ covered # 0 =>
               /\ covered >= input.quoted /\ (input.quoted + 1)..covered \subseteq skipped
               /\ simulate_pcr10_until_match(input.log, pcr) = input.quoted
=============================================================================
