-------------------------- MODULE AlgorithmsProofs --------------------------
(***************************************************************************)
(* The algorithms of the attester do what their references say, for every  *)
(* input, and the claims and the message it encodes read back as what they *)
(* were made of, in the length calculated for them.                        *)
(***************************************************************************)
EXTENDS Algorithms, CborProofs

\* An input is chosen once.
Chosen == input = [k |-> "none"] \/ input \in Inputs

LEMMA InputIsChosen == Spec => []Chosen
  <1>1. Init => Chosen
    BY DEF Init, Chosen
  <1>2. Chosen /\ [Next]_input => Chosen'
    BY DEF Next, Chosen
  <1> QED
    BY <1>1, <1>2, PTL DEF Spec

-----------------------------------------------------------------------------
(* The card identification number *)

\* A register of four bytes.
Word(a, b, c, d) == a * 16777216 + b * 65536 + c * 256 + d

\* Three bytes taken off at once.
LEMMA By16777216 ==
  ASSUME NEW q \in Nat, NEW r \in Int, 0 <= r, r < 16777216
  PROVE  (q * 16777216 + r) \div 16777216 = q
  BY SMT

\* The shifts and masks of card_identify take a register apart again.
LEMMA WordBytes ==
  ASSUME NEW a \in Byte, NEW b \in Byte, NEW c \in Byte, NEW d \in Byte
  PROVE  /\ Word(a, b, c, d) \div 16777216 = a
         /\ (Word(a, b, c, d) \div 65536) % 256 = b
         /\ (Word(a, b, c, d) \div 256) % 256 = c
         /\ Word(a, b, c, d) % 256 = d
  <1> DEFINE r == b * 65536 + c * 256 + d
             s == c * 256 + d
             q == a * 256 + b
             p == q * 256 + c
  <1>1. a \in Nat /\ b \in Nat /\ c \in Nat /\ d \in Nat
    BY DEF Byte
  <1>2. b <= 255 /\ c <= 255 /\ d <= 255
    BY DEF Byte
  <1>3. s \in Int /\ 0 <= s /\ s < 65536
    BY <1>1, <1>2, SMT
  <1>4. r \in Int /\ 0 <= r /\ r < 16777216
    BY <1>1, <1>2, SMT
  <1>5. q \in Nat /\ p \in Nat
    BY <1>1, SMT
  <1>6. Word(a, b, c, d) = a * 16777216 + r
    BY <1>1, SMT DEF Word
  <1>7. Word(a, b, c, d) = q * 65536 + s
    BY <1>1, SMT DEF Word
  <1>8. Word(a, b, c, d) = p * 256 + d
    BY <1>1, SMT DEF Word
  <1>9. q % 256 = b /\ p % 256 = c
    BY <1>1, <1>5, By256, SMT
  <1> HIDE DEF r, s, q, p
  <1>10. Word(a, b, c, d) \div 16777216 = a
    BY <1>1, <1>4, <1>6, By16777216, SMT
  <1>11. Word(a, b, c, d) \div 65536 = q
    BY <1>3, <1>5, <1>7, By65536, SMT
  <1>12. Word(a, b, c, d) \div 256 = p /\ Word(a, b, c, d) % 256 = d
    BY <1>5, <1>8, By256, SMT
  <1> QED
    BY <1>9, <1>10, <1>11, <1>12, SMT

\* A card identification number: sixteen bytes, the last one its CRC.
Cids == [1..CID_SIZE -> Byte]

\* What the response registers hold: a zero in front, the CRC gone.
Shown(cid) == <<0>> \o SubSeq(cid, 1, CID_SIZE - 1)

\* There are sixteen of them, all bytes.
LEMMA ShownBytes ==
  ASSUME NEW cid \in Cids
  PROVE  /\ SubSeq(cid, 1, 15) \in Seq(Byte) /\ Len(SubSeq(cid, 1, 15)) = 15
         /\ Shown(cid) = <<0>> \o SubSeq(cid, 1, 15)
         /\ Shown(cid) \in Seq(Byte) /\ Len(Shown(cid)) = 16
         /\ \A j \in 1..16 : Shown(cid)[j] \in Byte
  <1> DEFINE id == SubSeq(cid, 1, 15)
             z  == <<0>>
  <1>1. \A i \in 1..15 : cid[i] \in Byte
    BY DEF Cids, CID_SIZE
  <1>2. id \in Seq(Byte) /\ Len(id) = 15
    BY <1>1, SubSeqProperties
  <1> HIDE DEF id
  <1>3. z \in Seq(Byte) /\ Len(z) = 1
    BY DEF Byte
  <1> HIDE DEF z
  <1>4. z \o id \in Seq(Byte) /\ Len(z \o id) = Len(z) + Len(id)
    BY <1>2, <1>3, ConcatProperties
  <1>5. Shown(cid) = z \o id /\ Len(z \o id) = 16
    BY <1>2, <1>3, <1>4 DEF Shown, CID_SIZE, id, z
  <1>6. \A j \in 1..16 : Shown(cid)[j] \in Byte
    BY <1>4, <1>5, ElementOfSeq
  <1> QED
    BY <1>2, <1>4, <1>5, <1>6 DEF id, z

\* The bytes the driver takes out of the registers are the ones they hold.
LEMMA RawIsShown ==
  ASSUME NEW cid \in Cids
  PROVE  RawCid(ResponseRegisters(cid)) = Shown(cid)
  <1> DEFINE b == Shown(cid)
             resp == ResponseRegisters(cid)
             raw == RawCid(resp)
  <1>1. b \in Seq(Byte) /\ Len(b) = 16 /\ \A j \in 1..16 : b[j] \in Byte
    BY ShownBytes
  <1>2. resp = [k \in 0..3 |-> Word(b[4 * (3 - k) + 1], b[4 * (3 - k) + 2],
                                    b[4 * (3 - k) + 3], b[4 * (3 - k) + 4])]
    BY SMT DEF ResponseRegisters, Shown, Word
  <1> HIDE DEF b, resp
  <1>3. raw = [j \in 1..16 |->
                 LET w == resp[3 - (j - 1) \div 4]
                 IN  CASE j % 4 = 1 -> w \div 16777216
                       [] j % 4 = 2 -> (w \div 65536) % 256
                       [] j % 4 = 3 -> (w \div 256) % 256
                       [] j % 4 = 0 -> w % 256]
    BY SMT DEF RawCid, CID_SIZE
  <1>4. ASSUME NEW q \in 0..3
        PROVE  raw[4 * q + 1] = b[4 * q + 1] /\ raw[4 * q + 2] = b[4 * q + 2]
               /\ raw[4 * q + 3] = b[4 * q + 3] /\ raw[4 * q + 4] = b[4 * q + 4]
    <2> DEFINE w == Word(b[4 * q + 1], b[4 * q + 2], b[4 * q + 3], b[4 * q + 4])
    <2>1. \A i \in 1..4 : 4 * q + i \in 1..16 /\ (4 * q + i - 1) \div 4 = q
      BY SMT
    <2>2. (4 * q + 1) % 4 = 1 /\ (4 * q + 2) % 4 = 2 /\ (4 * q + 3) % 4 = 3 /\ (4 * q + 4) % 4 = 0
      BY SMT
    <2>3. 3 - q \in 0..3 /\ 4 * (3 - (3 - q)) = 4 * q
      BY SMT
    <2>4. resp[3 - q] = w
      BY <1>2, <2>3, SMT
    <2>5. /\ b[4 * q + 1] \in Byte /\ b[4 * q + 2] \in Byte
          /\ b[4 * q + 3] \in Byte /\ b[4 * q + 4] \in Byte
      BY <1>1, <2>1, SMT
    <2>6. /\ w \div 16777216 = b[4 * q + 1] /\ (w \div 65536) % 256 = b[4 * q + 2]
          /\ (w \div 256) % 256 = b[4 * q + 3] /\ w % 256 = b[4 * q + 4]
      BY <2>5, WordBytes, SMT
    <2> HIDE DEF w, raw
    <2>7. raw[4 * q + 1] = w \div 16777216
      BY <1>3, <2>1, <2>2, <2>4, SMT
    <2>8. raw[4 * q + 2] = (w \div 65536) % 256
      BY <1>3, <2>1, <2>2, <2>4, SMT
    <2>9. raw[4 * q + 3] = (w \div 256) % 256
      BY <1>3, <2>1, <2>2, <2>4, SMT
    <2>10. raw[4 * q + 4] = w % 256
      BY <1>3, <2>1, <2>2, <2>4, SMT
    <2> QED
      BY <2>6, <2>7, <2>8, <2>9, <2>10, SMT
  <1>5. \A j \in 1..16 : \E q \in 0..3 : j \in {4 * q + 1, 4 * q + 2, 4 * q + 3, 4 * q + 4}
    <2> SUFFICES ASSUME NEW j \in 1..16
                 PROVE  \E q \in 0..3 : j \in {4 * q + 1, 4 * q + 2, 4 * q + 3, 4 * q + 4}
      OBVIOUS
    <2>1. (j - 1) \div 4 \in 0..3
      BY SMT
    <2>2. j \in {4 * ((j - 1) \div 4) + 1, 4 * ((j - 1) \div 4) + 2,
                 4 * ((j - 1) \div 4) + 3, 4 * ((j - 1) \div 4) + 4}
      BY SMT
    <2> QED
      BY <2>1, <2>2
  <1>6. DOMAIN raw = 1..16
    BY <1>3, SMT
  <1> HIDE DEF raw
  <1>7. \A j \in 1..16 : raw[j] = b[j]
    BY <1>4, <1>5
  <1>8. raw = [j \in 1..16 |-> raw[j]]
    BY <1>3, SMT
  <1>9. b = [j \in 1..16 |-> b[j]]
    BY <1>1, SeqDef, LenProperties
  <1>10. raw = b
    BY <1>7, <1>8, <1>9
  <1> QED
    BY <1>10 DEF raw, resp, b

\* The driver rebuilds the JEDEC card identification number of every card, in the layout
\* it was configured for: the key derived from it is the one the other paths to the
\* device derive (card_identify).
LEMMA CidIsRebuilt ==
  \A cid \in Cids, compat \in BOOLEAN :
     card_identify_cid(ResponseRegisters(cid), compat) = JedecCid(cid, compat)
  <1> SUFFICES ASSUME NEW cid \in Cids, NEW compat \in BOOLEAN
               PROVE  card_identify_cid(ResponseRegisters(cid), compat) = JedecCid(cid, compat)
    OBVIOUS
  <1> DEFINE id == SubSeq(cid, 1, 15)
             b  == Shown(cid)
  <1>1. id \in Seq(Byte) /\ Len(id) = 15 /\ b = <<0>> \o id /\ b \in Seq(Byte) /\ Len(b) = 16
    BY ShownBytes
  <1>2. RawCid(ResponseRegisters(cid)) = b
    BY RawIsShown
  <1> HIDE DEF id, b
  <1>3. SubSeq(b, 2, 16) = id
    <2> DEFINE s == SubSeq(b, 2, 16)
    <2>1. \A i \in 2..16 : b[i] \in Byte
      BY <1>1, ElementOfSeq
    <2>2. s \in Seq(Byte) /\ Len(s) = 15 /\ \A i \in 1..15 : s[i] = b[2 + i - 1]
      BY <2>1, SubSeqProperties
    <2>3. \A i \in 1..15 : b[i + 1] = id[i]
      BY <1>1, ConcatProperties
    <2>4. \A i \in 1..15 : s[i] = id[i]
      BY <2>2, <2>3
    <2> HIDE DEF s
    <2>5. s = id
      BY <1>1, <2>2, <2>4, SeqEqual
    <2> QED
      BY <2>5 DEF s
  <1>4. card_identify_cid(ResponseRegisters(cid), compat)
          = IF compat THEN b ELSE SubSeq(b, 2, 16) \o <<0>>
    BY <1>2 DEF card_identify_cid, CID_SIZE
  <1>5. JedecCid(cid, compat) = IF compat THEN <<0>> \o id ELSE id \o <<0>>
    BY DEF JedecCid, CID_SIZE, id
  <1> QED
    BY <1>1, <1>3, <1>4, <1>5, Zenon

\* The driver rebuilds the card identification number of every card, in either layout:
\* the key the RPMB layer derives from it is the one the other paths to the device derive.
THEOREM CidsAreJedec == Spec => []CidIsJedec
  <1>1. Chosen => CidIsJedec
    <2> SUFFICES ASSUME Chosen, input.k = "cid"
                 PROVE  card_identify_cid(ResponseRegisters(input.cid), input.compat)
                          = JedecCid(input.cid, input.compat)
      BY DEF CidIsJedec
    <2>1. input \in Inputs
      BY DEF Chosen
    <2>2. input.cid \in Cids /\ input.compat \in BOOLEAN
      BY <2>1, InputsAssumption DEF Cids
    <2> QED
      BY <2>2, CidIsRebuilt
  <1> QED
    BY <1>1, InputIsChosen, PTL

-----------------------------------------------------------------------------
(* Heads *)

\* Every head the encoder writes, with any type, minimum length and 64-bit argument, reads
\* back as what was given and is as short as can be (QCBOREncode_EncodeHead).
THEOREM HeadsReadBack == Spec => []HeadIsShortest
  <1>1. Chosen => HeadIsShortest
    <2> SUFFICES ASSUME Chosen, input.k = "head"
                 PROVE  HeadIsShortest
      BY DEF HeadIsShortest
    <2> DEFINE type == input.type
               n    == input.n
               min  == input.min
               out  == QCBOREncode_EncodeHead(type, min, n)
               h    == ReadHead(At(out, 0))
               fits == {w \in {0, 1, 2, 4, 8} : w >= min /\ FitsBytes(n, w)}
    <2>1. input \in Inputs
      BY DEF Chosen
    <2>2. type \in 0..7 /\ min \in {0, 1, 2, 4, 8} /\ n \in Nat /\ IsUint64(n)
      BY <2>1, InputsAssumption DEF IsUint64
    <2>3. UsefulInputBuf_Init(UsefulBufC(out)) = At(out, 0)
      BY DEF UsefulInputBuf_Init, UsefulBufC, At
    <2>4. HeadIsShortest <=> /\ ~h.in.err /\ UsefulInputBuf_BytesUnconsumed(h.in) = 0
                             /\ h.type = type /\ h.arg = n
                             /\ Len(out) = 1 + Min(fits)
      BY <2>3 DEF HeadIsShortest
    <2> HIDE DEF type, n, min
    <2>5. /\ h.in = At(out, Len(out)) /\ h.type = type /\ h.arg = n
          /\ Len(out) = 1 + IF n < 24 /\ min = 0 THEN 0 ELSE HeadWidths[WidthIndex(min, n)]
      <3>1. << >> \in Seq(Byte)
        OBVIOUS
      <3>2. IsRead(type, n, min, out, out \o << >>)
        BY <2>2, <3>1, HeadReads, Zenon
      <3>3. out \in Seq(Byte)
        BY <3>2 DEF IsRead
      <3> HIDE DEF out
      <3>4. out \o << >> = out
        BY <3>3, ConcatEmptySeq
      <3>5. IsRead(type, n, min, out, out)
        BY <3>2, <3>4
      <3> QED
        BY <3>5 DEF IsRead
    <2>6. Min(fits) = IF n < 24 /\ min = 0 THEN 0 ELSE HeadWidths[WidthIndex(min, n)]
      BY <2>2, HeadWidthLeast DEF IsUint64
    <2> HIDE DEF out, h, fits
    <2>7. ~At(out, Len(out)).err /\ UsefulInputBuf_BytesUnconsumed(At(out, Len(out))) = 0
      <3>1. Len(out) \in Nat
        <4>1. WidthIndex(min, n) \in 1..4
          BY <2>2, WidthIndexFacts DEF IsUint64
        <4>2. HeadWidths[WidthIndex(min, n)] \in Nat
          BY <4>1 DEF HeadWidths
        <4> QED
          BY <2>5, <4>2
      <3> QED
        BY <3>1 DEF At, UsefulInputBuf_BytesUnconsumed
    <2> QED
      BY <2>4, <2>5, <2>6, <2>7, Zenon
  <1> QED
    BY <1>1, InputIsChosen, PTL

-----------------------------------------------------------------------------
(* Numbers in buffers *)

\* An output buffer of cap bytes that holds some.
Out(cap, data, err) == [null |-> FALSE, cap |-> cap, data |-> data, err |-> err]

\* Its fields.
LEMMA OutFields ==
  ASSUME NEW cap, NEW data, NEW err
  PROVE  /\ Out(cap, data, err).cap = cap /\ Out(cap, data, err).data = data
         /\ Out(cap, data, err).err = err
  BY DEF Out

\* Its pointer.
LEMMA OutPointer ==
  ASSUME NEW cap, NEW data, NEW err
  PROVE  Out(cap, data, err).null = FALSE
  BY DEF Out

\* Other bytes in it.
LEMMA OutSetData ==
  ASSUME NEW cap, NEW data, NEW err, NEW d
  PROVE  [Out(cap, data, err) EXCEPT !.data = d] = Out(cap, d, err)
  <1> DEFINE f == FALSE
  <1>1. Out(cap, data, err) = [null |-> f, cap |-> cap, data |-> data, err |-> err]
    BY DEF Out
  <1>2. Out(cap, d, err) = [null |-> f, cap |-> cap, data |-> d, err |-> err]
    BY DEF Out
  <1> HIDE DEF f
  <1> QED
    BY <1>1, <1>2

\* Its error.
LEMMA OutSetErr ==
  ASSUME NEW cap, NEW data, NEW err, NEW e
  PROVE  [Out(cap, data, err) EXCEPT !.err = e] = Out(cap, data, e)
  <1> DEFINE f == FALSE
  <1>1. Out(cap, data, err) = [null |-> f, cap |-> cap, data |-> data, err |-> err]
    BY DEF Out
  <1>2. Out(cap, data, e) = [null |-> f, cap |-> cap, data |-> data, err |-> e]
    BY DEF Out
  <1> HIDE DEF f
  <1> QED
    BY <1>1, <1>2

\* What an insertion does to a buffer in use, and to one with an error.
LEMMA Inserts ==
  ASSUME NEW cap \in Nat, NEW data \in Seq(Byte), NEW new \in Seq(Byte), NEW pos \in Nat,
         Len(data) <= cap
  PROVE  /\ UsefulOutBuf_InsertUsefulBuf(Out(cap, data, FALSE), new, pos)
              = IF Len(data) + Len(new) <= cap /\ pos <= Len(data)
                THEN Out(cap, Spliced(data, new, pos), FALSE) ELSE Out(cap, data, TRUE)
         /\ UsefulOutBuf_InsertUsefulBuf(Out(cap, data, TRUE), new, pos) = Out(cap, data, TRUE)
  <1> DEFINE no  == FALSE
             yes == TRUE
             d   == SubSeq(data, 1, pos) \o new \o SubSeq(data, pos + 1, Len(data))
  <1>1. Len(data) \in Nat /\ Len(new) \in Nat
    BY LenProperties
  <1> HIDE DEF no, yes, d
  <1>a. [Out(cap, data, no) EXCEPT !.data = d] = Out(cap, d, no)
    BY OutSetData
  <1>b. [Out(cap, data, no) EXCEPT !.err = yes] = Out(cap, data, yes)
    BY OutSetErr
  <1>c. /\ Out(cap, data, no).data = data /\ Out(cap, data, no).cap = cap
        /\ Out(cap, data, no).err = no /\ Out(cap, data, yes).err = yes
    BY OutFields
  <1> DEFINE o == Out(cap, data, no)
             x == Out(cap, data, yes)
             f == UsefulOutBuf_WillItFit(o, Len(new))
  <1>2. o.data = data /\ o.cap = cap /\ ~o.err /\ x.err
    BY <1>c, Zenon DEF no, yes
  <1>3. [o EXCEPT !.data = d] = Out(cap, d, FALSE) /\ [o EXCEPT !.err = TRUE] = x
    BY <1>a, <1>b, Zenon DEF no, yes
  <1>4. d = Spliced(data, new, pos)
    BY DEF Spliced, d
  <1>5. UsefulOutBuf_InsertUsefulBuf(x, new, pos) = x
    BY <1>2, Zenon DEF UsefulOutBuf_InsertUsefulBuf
  <1>6. UsefulOutBuf_InsertUsefulBuf(o, new, pos)
          = IF Len(data) > cap \/ ~f \/ pos > Len(data)
            THEN [o EXCEPT !.err = TRUE] ELSE [o EXCEPT !.data = d]
    <2> HIDE DEF o, f
    <2> QED
      BY <1>2, Zenon DEF UsefulOutBuf_InsertUsefulBuf, f, d
  <1> HIDE DEF o, d, x
  <1>7. f <=> (Len(data) + Len(new) <= cap)
    BY <1>1, <1>2 DEF UsefulOutBuf_WillItFit, UsefulOutBuf_RoomLeft
  <1> HIDE DEF f
  <1>8. (Len(data) > cap \/ ~f \/ pos > Len(data))
          <=> ~(Len(data) + Len(new) <= cap /\ pos <= Len(data))
    BY <1>1, <1>7
  <1> QED
    BY <1>3, <1>4, <1>5, <1>6, <1>8, Zenon DEF o, x, no, yes

\* Put into nothing, bytes are what there is.
LEMMA SplicedAlone ==
  ASSUME NEW none \in Seq(Byte), Len(none) = 0, NEW new \in Seq(Byte)
  PROVE  Spliced(none, new, 0) = new
  <1> DEFINE d == Spliced(none, new, 0)
             w == Len(new)
  <1>1. 0 \in 0..Len(none) /\ w \in Nat
    BY LenProperties
  <1>2. d \in Seq(Byte) /\ Len(d) = Len(none) + w
    BY <1>1, SplicedType
  <1>3. \A i \in 1..(Len(none) + w) :
           d[i] = IF i <= 0 THEN none[i] ELSE IF i <= 0 + w THEN new[i - 0] ELSE none[i - w]
    BY <1>1, SplicedElements
  <1> HIDE DEF d, w
  <1>4. Len(none) + w = w
    BY <1>1
  <1>5. \A i \in 1..w : ~(i <= 0) /\ i <= 0 + w /\ i - 0 = i
    BY <1>1
  <1>6. Len(d) = Len(new) /\ \A i \in 1..Len(d) : d[i] = new[i]
    BY <1>2, <1>3, <1>4, <1>5 DEF w
  <1>7. d = new
    BY <1>2, <1>6, SeqEqual
  <1> QED
    BY <1>7 DEF d

\* Comparing a buffer with itself.
LEMMA CompareSame ==
  ASSUME NEW s \in Seq(Byte)
  PROVE  UsefulBuf_Compare(s, s) = 0
  <1>1. Len(s) \in Nat
    BY LenProperties
  <1>2. Differences(s, s) = {}
    BY DEF Differences
  <1>3. ~(Len(s) < Len(s)) /\ ~(Len(s) > Len(s))
    BY <1>1
  <1> QED
    BY <1>2, <1>3, Zenon DEF UsefulBuf_Compare

\* A buffer with some bytes in it after a number was put among them.
PutInto(have, n, w, pos, cap) ==
    UsefulOutBuf_InsertUint(
        UsefulOutBuf_AppendUsefulBuf(UsefulOutBuf_Init(FALSE, cap), have), n, w, pos)

\* It holds both if there is room and the position is among them, or has its error set.
PutsOrFails(have, n, w, pos, cap) ==
    IF Len(have) + w > cap \/ pos > Len(have)
    THEN \E data : PutInto(have, n, w, pos, cap) = Out(cap, data, TRUE)
    ELSE PutInto(have, n, w, pos, cap) = Out(cap, Spliced(have, BigEndian(n, w), pos), FALSE)

\* UsefulOutBuf_InsertUint on a buffer that holds something.
LEMMA PutFits ==
  ASSUME NEW have \in Seq(Byte), NEW n \in Nat, NEW w \in {1, 2, 4, 8}, NEW pos \in Nat,
         NEW cap \in Nat
  PROVE  PutsOrFails(have, n, w, pos, cap)
  <1> DEFINE be == BigEndian(n, w)
             none == <<>>
             init == UsefulOutBuf_Init(FALSE, cap)
             start == UsefulOutBuf_AppendUsefulBuf(init, have)
             o == UsefulOutBuf_InsertUint(start, n, w, pos)
             l == Len(have)
  <1>1. be \in Seq(Byte) /\ Len(be) = w /\ l \in Nat /\ w \in Nat
    <2>1. be \in Seq(Byte) /\ l \in Nat
      BY BigEndianType, LenProperties
    <2>2. DOMAIN be = 1..w
      BY DEF BigEndian
    <2> HIDE DEF be
    <2> QED
      BY <2>1, <2>2, LenProperties
  <1>2. init = Out(cap, none, FALSE)
    BY DEF UsefulOutBuf_Init, Out
  <1>3. none \in Seq(Byte) /\ Len(none) = 0 /\ Len(none) <= cap /\ 0 \in Nat
    BY EmptySeq
  <1> HIDE DEF be, none, init
  <1>4. Spliced(none, have, 0) = have
    BY <1>3, SplicedAlone
  <1>5. UsefulOutBuf_GetEndPosition(init) = 0
    <2> DEFINE no == FALSE
    <2>1. init = Out(cap, none, no)
      BY <1>2
    <2> HIDE DEF no
    <2>2. init.data = none
      BY <2>1, OutFields
    <2> QED
      BY <1>3, <2>2 DEF UsefulOutBuf_GetEndPosition
  <1>6. start = IF Len(none) + l <= cap /\ 0 <= Len(none)
                THEN Out(cap, Spliced(none, have, 0), FALSE) ELSE Out(cap, none, TRUE)
    <2>1. start = UsefulOutBuf_InsertUsefulBuf(Out(cap, none, FALSE), have, 0)
      BY <1>2, <1>5, Zenon DEF UsefulOutBuf_AppendUsefulBuf
    <2> HIDE DEF start
    <2> QED
      BY <1>3, <2>1, Inserts, Zenon
  <1>7. (Len(none) + l <= cap /\ 0 <= Len(none)) <=> l <= cap
    BY <1>1, <1>3
  <1>8. start = IF l <= cap THEN Out(cap, have, FALSE) ELSE Out(cap, none, TRUE)
    BY <1>4, <1>6, <1>7, Zenon
  <1>9. o = UsefulOutBuf_InsertUsefulBuf(start, be, pos)
    BY DEF UsefulOutBuf_InsertUint, be
  <1> HIDE DEF start, o
  <1>10. CASE ~(l <= cap)
    <2>1. o = Out(cap, none, TRUE)
      <3>1. start = Out(cap, none, TRUE)
        BY <1>8, <1>10, Zenon
      <3>2. UsefulOutBuf_InsertUsefulBuf(Out(cap, none, TRUE), be, pos) = Out(cap, none, TRUE)
        BY <1>1, <1>3, Inserts, Zenon
      <3> QED
        BY <3>1, <3>2, <1>9, Zenon
    <2>2. l + w > cap
      BY <1>1, <1>10
    <2> QED
      BY <2>1, <2>2, Zenon DEF PutsOrFails, PutInto, o, start, init, be, l
  <1>11. CASE l <= cap
    <2>1. start = Out(cap, have, FALSE)
      BY <1>8, <1>11, Zenon
    <2>2. o = IF l + Len(be) <= cap /\ pos <= l THEN Out(cap, Spliced(have, be, pos), FALSE)
              ELSE Out(cap, have, TRUE)
      BY <1>1, <1>9, <1>11, <2>1, Inserts, Zenon
    <2>3. (l + Len(be) <= cap /\ pos <= l) <=> ~(l + w > cap \/ pos > l)
      BY <1>1
    <2> QED
      BY <2>2, <2>3, Zenon DEF PutsOrFails, PutInto, o, start, init, be, l
  <1> QED
    BY <1>10, <1>11

\* What was put in stands at its place, and the rest around it.
PartsOf(d, have, new, pos, w) ==
    /\ d \in Seq(Byte) /\ Len(d) = Len(have) + w
    /\ SubSeq(d, pos + 1, pos + w) = new
    /\ SubSeq(d, 1, pos) \o SubSeq(d, pos + w + 1, Len(d)) = have

LEMMA SplicedParts ==
  ASSUME NEW have \in Seq(Byte), NEW new \in Seq(Byte), NEW pos \in 0..Len(have), NEW w,
         Len(new) = w
  PROVE  PartsOf(Spliced(have, new, pos), have, new, pos, w)
  <1> DEFINE d == Spliced(have, new, pos)
             l == Len(have)
             k == l - pos
             x == SubSeq(d, 1, pos)
             y == SubSeq(d, pos + w + 1, Len(d))
             z == x \o y
  <1>1. l \in Nat /\ w \in Nat /\ pos \in Nat /\ pos <= l /\ k \in Nat /\ pos + k = l
    BY LenProperties
  <1>2. d \in Seq(Byte) /\ Len(d) = l + w
    BY SplicedType
  <1>3. \A i \in 1..(l + w) :
           d[i] = IF i <= pos THEN have[i] ELSE IF i <= pos + w THEN new[i - pos] ELSE have[i - w]
    BY SplicedElements
  <1> HIDE DEF d, l, k
  <1>4. \A i \in 1..w : d[pos + i] = new[i]
    <2> SUFFICES ASSUME NEW i \in 1..w PROVE d[pos + i] = new[i]
      OBVIOUS
    <2>1. /\ pos + i \in 1..(l + w) /\ ~(pos + i <= pos) /\ pos + i <= pos + w
          /\ (pos + i) - pos = i
      BY <1>1
    <2> QED
      BY <1>3, <2>1
  <1>5. SubSeq(d, pos + 1, pos + w) = new
    <2>1. pos + w <= Len(d)
      BY <1>1, <1>2
    <2> QED
      BY <1>1, <1>2, <1>4, <2>1, StretchIs
  <1>6. x \in Seq(Byte) /\ Len(x) = pos /\ \A i \in 1..pos : x[i] = d[i]
    <2> DEFINE p == 0
               u == SubSeq(d, p + 1, p + pos)
    <2>1. p \in Nat /\ p + pos <= Len(d) /\ pos \in Nat
      BY <1>1, <1>2
    <2>2. p + 1 = 1 /\ p + pos = pos /\ \A i \in 1..pos : p + i = i
      BY <1>1
    <2> HIDE DEF p
    <2>3. u \in Seq(Byte) /\ Len(u) = pos /\ \A i \in 1..pos : u[i] = d[p + i]
      BY <1>2, <2>1, Stretch
    <2>4. u = x
      BY <2>2, Zenon
    <2> HIDE DEF u, x
    <2> QED
      BY <2>2, <2>3, <2>4, Zenon
  <1>7. y \in Seq(Byte) /\ Len(y) = k /\ \A i \in 1..k : y[i] = d[(pos + w) + i]
    <2> DEFINE p == pos + w
               u == SubSeq(d, p + 1, p + k)
    <2>1. p \in Nat /\ p + k <= Len(d) /\ p + k = Len(d)
      BY <1>1, <1>2
    <2>2. u = y
      BY <2>1, Zenon
    <2> HIDE DEF p
    <2>3. u \in Seq(Byte) /\ Len(u) = k /\ \A i \in 1..k : u[i] = d[p + i]
      BY <1>1, <1>2, <2>1, Stretch
    <2> HIDE DEF u, y
    <2> QED
      BY <2>2, <2>3, Zenon DEF p
  <1> HIDE DEF x, y
  <1>8. /\ z \in Seq(Byte) /\ Len(z) = pos + k
        /\ \A i \in 1..(pos + k) : z[i] = IF i <= pos THEN x[i] ELSE y[i - pos]
    <2>1. x \in Seq(Byte) /\ y \in Seq(Byte) /\ Len(x) = pos /\ Len(y) = k
      BY <1>6, <1>7
    <2>2. /\ z \in Seq(Byte) /\ Len(z) = Len(x) + Len(y)
          /\ \A i \in 1..(Len(x) + Len(y)) : z[i] = IF i <= Len(x) THEN x[i] ELSE y[i - Len(x)]
      BY <2>1, ConcatProperties
    <2> HIDE DEF z
    <2> QED
      BY <2>1, <2>2, Zenon
  <1> HIDE DEF z
  <1>9. ASSUME NEW i \in 1..l
        PROVE  z[i] = have[i]
    <2>1. i \in 1..(pos + k)
      BY <1>1
    <2>2. CASE i <= pos
      <3>1. i \in 1..pos /\ i \in 1..(l + w)
        BY <1>1, <2>2
      <3> QED
        BY <1>3, <1>6, <1>8, <2>1, <2>2, <3>1
    <2>3. CASE ~(i <= pos)
      <3> DEFINE j == i - pos
                 m == (pos + w) + j
      <3>1. /\ j \in 1..k /\ m \in 1..(l + w) /\ ~(m <= pos) /\ ~(m <= pos + w) /\ m - w = i
        BY <1>1, <2>3
      <3>2. z[i] = y[j]
        BY <1>8, <2>1, <2>3
      <3> HIDE DEF j
      <3>3. y[j] = d[m]
        BY <1>7, <3>1
      <3> HIDE DEF m
      <3>4. d[m] = have[m - w]
        BY <1>3, <3>1
      <3> QED
        BY <3>1, <3>2, <3>3, <3>4, Zenon
    <2> QED
      BY <2>2, <2>3
  <1>10. z = have
    <2>1. Len(z) = Len(have) /\ \A i \in 1..Len(z) : z[i] = have[i]
      BY <1>1, <1>8, <1>9 DEF l
    <2> QED
      BY <1>8, <2>1, SeqEqual
  <1> QED
    BY <1>2, <1>5, <1>10 DEF PartsOf, z, x, y, d, l

\* Bytes that stand somewhere in others are found there, or earlier.
LEMMA FoundBefore ==
  ASSUME NEW d \in Seq(Byte), NEW f \in Seq(Byte), NEW pos \in Nat, pos + Len(f) <= Len(d),
         SubSeq(d, pos + 1, pos + Len(f)) = f
  PROVE  UsefulBuf_FindBytes(d, f) \in 0..pos
  <1> DEFINE same(p) == UsefulBuf_Compare(SubSeq(d, p + 1, p + Len(f)), f) = 0
             at == {p \in 0..(Len(d) - Len(f)) : same(p)}
             m == Min(at)
  <1>1. Len(d) \in Nat /\ Len(f) \in Nat
    BY LenProperties
  <1>2. same(pos)
    BY CompareSame, Zenon
  <1> HIDE DEF same
  <1>3. pos \in at
    BY <1>1, <1>2
  <1>4. at \in SUBSET Nat /\ at # {} /\ ~(Len(d) < Len(f))
    BY <1>1, <1>3
  <1>5. UsefulBuf_FindBytes(d, f) = m
    BY <1>4, Zenon DEF UsefulBuf_FindBytes, same
  <1> HIDE DEF at
  <1>6. m \in at /\ \A j \in at : m <= j
    BY <1>4, LeastNat
  <1> HIDE DEF m
  <1>7. m \in Nat /\ m <= pos
    BY <1>3, <1>4, <1>6
  <1> QED
    BY <1>5, <1>7

\* A copy into a buffer with just the room is the whole, and there is none with less.
LEMMA CopiesWhole ==
  ASSUME NEW d \in Seq(Byte), NEW n, Len(d) = n, n # 0
  PROVE  /\ UsefulBuf_CopyOffset(Filled(n), 0, d).ret = UsefulBufC(d)
         /\ UsefulBuf_CopyOffset(Filled(n - 1), 0, d).ret = NULLUsefulBufC
  <1> DEFINE b == Filled(n)
             c == Filled(n - 1)
             e == <<>>
             t == SubSeq(b, 1, 0) \o d \o SubSeq(b, 0 + Len(d) + 1, Len(b))
  <1>1. n \in Nat
    BY LenProperties
  <1>2. Len(b) = n /\ Len(c) = n - 1
    BY <1>1 DEF Filled
  <1>3. UsefulBuf_CopyOffset(c, 0, d).ret = NULLUsefulBufC
    <2>1. Len(d) > Len(c) - 0
      BY <1>1, <1>2
    <2> HIDE DEF c
    <2>2. UsefulBuf_CopyOffset(c, 0, d) = [dest |-> c, ret |-> NULLUsefulBufC]
      BY <2>1, Zenon DEF UsefulBuf_CopyOffset
    <2> QED
      BY <2>2
  <1>4. t = d
    <2>1. SubSeq(b, 1, 0) = e
      BY SubSeqEmpty
    <2>2. SubSeq(b, 0 + Len(d) + 1, Len(b)) = e
      <3>1. 0 + Len(d) + 1 \in Int /\ Len(b) \in Int /\ Len(b) < 0 + Len(d) + 1
        BY <1>1, <1>2
      <3> QED
        BY <3>1, SubSeqEmpty
    <2>3. e \o d = d /\ d \o e = d
      BY ConcatEmptySeq
    <2> HIDE DEF e, b
    <2> QED
      BY <2>1, <2>2, <2>3, Zenon
  <1>5. UsefulBuf_CopyOffset(b, 0, d) = [dest |-> t, ret |-> UsefulBufC(SubSeq(t, 1, 0 + Len(d)))]
    <2>1. ~(0 > Len(b)) /\ ~(Len(d) > Len(b) - 0)
      BY <1>1, <1>2
    <2> HIDE DEF b
    <2> QED
      BY <2>1, Zenon DEF UsefulBuf_CopyOffset
  <1>6. SubSeq(d, 1, 0 + Len(d)) = d
    <2>1. 0 + Len(d) = Len(d)
      BY <1>1
    <2> QED
      BY <2>1, SubSeqFull, Zenon
  <1> HIDE DEF t, b
  <1>7. UsefulBuf_CopyOffset(b, 0, d).ret = UsefulBufC(SubSeq(t, 1, 0 + Len(d)))
    BY <1>5
  <1> QED
    BY <1>3, <1>4, <1>6, <1>7, Zenon DEF b

\* What the functions that give out a buffer give out of it.
LEMMA GivesOut ==
  ASSUME NEW cap, NEW data, NEW dest
  PROVE  /\ UsefulOutBuf_OutUBuf(Out(cap, data, TRUE)) = NULLUsefulBufC
         /\ UsefulOutBuf_CopyOut(Out(cap, data, TRUE), dest) = [dest |-> dest, ret |-> NULLUsefulBufC]
         /\ UsefulOutBuf_OutUBuf(Out(cap, data, FALSE)) = UsefulBufC(data)
         /\ UsefulOutBuf_CopyOut(Out(cap, data, FALSE), dest) = UsefulBuf_CopyOffset(dest, 0, data)
  <1> DEFINE no == FALSE
             yes == TRUE
             o == Out(cap, data, no)
             x == Out(cap, data, yes)
  <1> HIDE DEF no, yes
  <1>1. o.data = data /\ o.err = no /\ x.err = yes
    BY OutFields
  <1>2. o.null = FALSE
    BY OutPointer
  <1> HIDE DEF o, x
  <1>3. UsefulOutBuf_OutUBuf(x) = NULLUsefulBufC
    BY <1>1, Zenon DEF UsefulOutBuf_OutUBuf, yes
  <1>4. UsefulOutBuf_OutUBuf(o) = UsefulBufC(data)
    BY <1>1, <1>2, Zenon DEF UsefulOutBuf_OutUBuf, UsefulBufC, no
  <1>5. NULLUsefulBufC.null /\ ~UsefulBufC(data).null /\ UsefulBufC(data).bytes = data
    BY DEF NULLUsefulBufC, UsefulBufC
  <1>6. UsefulOutBuf_CopyOut(x, dest) = [dest |-> dest, ret |-> NULLUsefulBufC]
    BY <1>3, <1>5, Zenon DEF UsefulOutBuf_CopyOut
  <1>7. UsefulOutBuf_CopyOut(o, dest) = UsefulBuf_CopyOffset(dest, 0, data)
    BY <1>4, <1>5, Zenon DEF UsefulOutBuf_CopyOut
  <1> QED
    BY <1>3, <1>4, <1>6, <1>7, Zenon DEF o, x, no, yes

\* A number of any width put at any position of a buffer of any size is found again at its
\* place, with everything around it unmoved, or is refused with the error set and nothing
\* given out (UsefulOutBuf_InsertUsefulBuf, UsefulInputBuf_GetUsefulBuf).
THEOREM NumbersAreKept == Spec => []PutIsGot
  <1>1. Chosen => PutIsGot
    <2> SUFFICES ASSUME Chosen, input.k = "number"
                 PROVE  PutIsGot
      BY DEF PutIsGot
    <2> DEFINE have  == input.have
               n     == input.n
               w     == input.w
               pos   == input.pos
               cap   == input.cap
               start == UsefulOutBuf_AppendUsefulBuf(UsefulOutBuf_Init(FALSE, cap), have)
               o     == UsefulOutBuf_InsertUint(start, n, w, pos)
               out   == UsefulOutBuf_OutUBuf(o)
               size  == Len(have) + w
               r     == UsefulInputBuf_GetUint(UsefulInputBuf_Seek(UsefulInputBuf_Init(out), pos), w)
               rest  == UsefulBuf_Head(out, pos).bytes \o UsefulBuf_Tail(out, pos + w).bytes
               copy(m) == UsefulOutBuf_CopyOut(o, Filled(m))
               d     == Spliced(have, BigEndian(n, w), pos)
    <2>1. input \in Inputs
      BY DEF Chosen
    <2>2. /\ have \in Seq(Byte) /\ pos \in Nat /\ cap \in Nat
          /\ n \in Nat /\ w \in {1, 2, 4, 8} /\ Shifted(n)[w] = 0
      BY <2>1, InputsAssumption
    <2>3. PutIsGot <=>
            IF size > cap \/ pos > Len(have)
            THEN o.err /\ out.null /\ copy(8).ret.null /\ copy(8).dest = Filled(8)
            ELSE /\ ~o.err /\ ~r.in.err /\ r.got = n
                 /\ UsefulBuf_Compare(rest, have) = 0
                 /\ copy(size).ret = out /\ copy(size - 1).ret.null
                 /\ UsefulBuf_FindBytes(out.bytes, BigEndian(n, w)) \in 0..pos
      BY DEF PutIsGot
    <2> HIDE DEF have, n, w, pos, cap
    <2>4. IF size > cap \/ pos > Len(have)
          THEN \E data : o = Out(cap, data, TRUE) ELSE o = Out(cap, d, FALSE)
      <3>1. PutsOrFails(have, n, w, pos, cap)
        BY <2>2, PutFits
      <3>2. PutInto(have, n, w, pos, cap) = o
        BY DEF PutInto
      <3> QED
        BY <3>1, <3>2, Zenon DEF PutsOrFails
    <2>5. Len(have) \in Nat /\ w \in Nat /\ w \in 1..8
      BY <2>2, LenProperties
    <2> HIDE DEF o
    <2>6. CASE size > cap \/ pos > Len(have)
      <3>1. PICK data : o = Out(cap, data, TRUE)
        BY <2>4, <2>6
      <3>2. o.err = TRUE
        BY <3>1 DEF Out
      <3>3. out = NULLUsefulBufC /\ copy(8) = [dest |-> Filled(8), ret |-> NULLUsefulBufC]
        BY <3>1, GivesOut, Zenon
      <3>4. out.null
        BY <3>3 DEF NULLUsefulBufC
      <3> HIDE DEF copy
      <3>5. copy(8).dest = Filled(8) /\ copy(8).ret = NULLUsefulBufC
        BY <3>3
      <3>6. copy(8).ret.null
        BY <3>5 DEF NULLUsefulBufC
      <3> QED
        BY <2>3, <2>6, <3>2, <3>4, <3>5, <3>6, Zenon DEF copy
    <2>7. CASE ~(size > cap \/ pos > Len(have))
      <3> DEFINE be == BigEndian(n, w)
      <3>1. pos \in 0..Len(have)
        BY <2>2, <2>5, <2>7
      <3>2. be \in Seq(Byte) /\ Len(be) = w
        <4>1. be \in Seq(Byte)
          BY <2>2, BigEndianType
        <4>2. DOMAIN be = 1..w
          BY DEF BigEndian
        <4> HIDE DEF be
        <4> QED
          BY <2>5, <4>1, <4>2, LenProperties
      <3>3. /\ d \in Seq(Byte) /\ Len(d) = size
            /\ SubSeq(d, pos + 1, pos + w) = be
            /\ SubSeq(d, 1, pos) \o SubSeq(d, pos + w + 1, Len(d)) = have
        <4>1. PartsOf(d, have, be, pos, w)
          BY <2>2, <3>1, <3>2, SplicedParts
        <4> HIDE DEF be, d
        <4> QED
          BY <4>1 DEF PartsOf
      <3> HIDE DEF d, be
      <3>4. o = Out(cap, d, FALSE)
        BY <2>4, <2>7, Zenon
      <3>5. o.err = FALSE
        BY <3>4 DEF Out
      <3>6. out = UsefulBufC(d) /\ \A m : copy(m) = UsefulBuf_CopyOffset(Filled(m), 0, d)
        BY <3>4, GivesOut, Zenon
      <3> HIDE DEF out, copy
      <3>7. out.bytes = d
        BY <3>6 DEF UsefulBufC
      <3>8. r = [in |-> At(d, pos + w), got |-> n]
        <4>1. UsefulInputBuf_Init(out) = At(d, 0)
          BY <3>7 DEF UsefulInputBuf_Init, At
        <4>2. UsefulInputBuf_Seek(At(d, 0), pos) = At(d, pos)
          <5>1. ~(pos > Len(d))
            BY <2>5, <3>1, <3>3
          <5>2. At(d, 0).len = Len(d)
            BY DEF At
          <5>3. [At(d, 0) EXCEPT !.cursor = pos] = At(d, pos)
            <6> DEFINE no == FALSE
                       l == Len(d)
                       z == 0
            <6>1. At(d, 0) = [bytes |-> d, len |-> l, cursor |-> z, err |-> no]
              BY DEF At
            <6>2. At(d, pos) = [bytes |-> d, len |-> l, cursor |-> pos, err |-> no]
              BY DEF At
            <6> HIDE DEF no, l, z
            <6> QED
              BY <6>1, <6>2, CursorMoves
          <5> QED
            BY <5>1, <5>2, <5>3, Zenon DEF UsefulInputBuf_Seek
        <4> DEFINE q == At(d, pos)
        <4>3. Readable(q, w)
          BY <2>2, <2>5, <3>1, <3>3 DEF Readable, At
        <4>4. q.bytes = d /\ q.cursor = pos /\ [q EXCEPT !.cursor = @ + w] = At(d, pos + w)
          <5> DEFINE m == pos + w
          <5>1. pos \in Nat /\ w \in Nat /\ m = pos + w
            BY <2>2, <2>5
          <5> HIDE DEF m
          <5>2. /\ q.bytes = d /\ q.cursor = pos
                /\ [q EXCEPT !.cursor = @ + w] = At(d, m)
            BY <5>1, AtMoves
          <5> QED
            BY <5>2 DEF m
        <4> HIDE DEF q
        <4>5. SubSeq(q.bytes, q.cursor + 1, q.cursor + w) = BigEndian(n, w)
          BY <3>3, <4>4, Zenon DEF be
        <4>6. UsefulInputBuf_GetUint(q, w) = [in |-> [q EXCEPT !.cursor = @ + w], got |-> n]
          BY <2>2, <2>5, <4>3, <4>5, GetUintReads
        <4>7. r = UsefulInputBuf_GetUint(q, w)
          BY <4>1, <4>2, Zenon DEF q
        <4> QED
          BY <4>4, <4>6, <4>7, Zenon
      <3> HIDE DEF r
      <3>9. r.in.err = FALSE /\ r.got = n
        <4>1. r.in = At(d, pos + w) /\ r.got = n
          BY <3>8
        <4> QED
          BY <4>1 DEF At
      <3>10. rest = have
        <4>1. ~(pos > Len(d)) /\ ~(pos + w > Len(d))
          BY <2>2, <2>5, <3>1, <3>3
        <4>2. UsefulBuf_Head(out, pos).bytes = SubSeq(d, 1, pos)
          <5>1. UsefulBuf_Head(out, pos) = [out EXCEPT !.bytes = SubSeq(d, 1, pos)]
            BY <3>7, <4>1, Zenon DEF UsefulBuf_Head
          <5> DEFINE s == SubSeq(d, 1, pos)
          <5> HIDE DEF s
          <5>2. [out EXCEPT !.bytes = s].bytes = s
            BY <3>6 DEF UsefulBufC
          <5> QED
            BY <5>1, <5>2, Zenon DEF s
        <4>3. UsefulBuf_Tail(out, pos + w).bytes = SubSeq(d, pos + w + 1, Len(d))
          <5>1. UsefulBuf_Tail(out, pos + w) = [out EXCEPT !.bytes = SubSeq(d, pos + w + 1, Len(d))]
            BY <3>7, <4>1, Zenon DEF UsefulBuf_Tail
          <5> DEFINE s == SubSeq(d, pos + w + 1, Len(d))
          <5> HIDE DEF s
          <5>2. [out EXCEPT !.bytes = s].bytes = s
            BY <3>6 DEF UsefulBufC
          <5> QED
            BY <5>1, <5>2, Zenon DEF s
        <4> QED
          BY <3>3, <4>2, <4>3, Zenon
      <3>11. UsefulBuf_Compare(rest, have) = 0
        BY <2>2, <3>10, CompareSame, Zenon
      <3>12. copy(size).ret = out /\ copy(size - 1).ret.null
        <4>1. size # 0
          BY <2>2, <2>5
        <4>2. /\ UsefulBuf_CopyOffset(Filled(size), 0, d).ret = UsefulBufC(d)
              /\ UsefulBuf_CopyOffset(Filled(size - 1), 0, d).ret = NULLUsefulBufC
          BY <3>3, <4>1, CopiesWhole
        <4>3. NULLUsefulBufC.null = TRUE
          BY DEF NULLUsefulBufC
        <4> QED
          BY <3>6, <4>2, <4>3, Zenon
      <3>13. UsefulBuf_FindBytes(out.bytes, be) \in 0..pos
        <4>1. pos + Len(be) <= Len(d)
          BY <2>2, <2>5, <3>1, <3>2, <3>3
        <4>2. SubSeq(d, pos + 1, pos + Len(be)) = be
          BY <3>2, <3>3, Zenon
        <4>3. UsefulBuf_FindBytes(d, be) \in 0..pos
          BY <2>2, <3>2, <3>3, <4>1, <4>2, FoundBefore
        <4> QED
          BY <3>7, <4>3, Zenon
      <3> HIDE DEF rest, size
      <3> QED
        BY <2>3, <2>7, <3>5, <3>9, <3>11, <3>12, <3>13, Zenon DEF be, copy, r, out, rest, size
    <2> QED
      BY <2>6, <2>7
  <1> QED
    BY <1>1, InputIsChosen, PTL

-----------------------------------------------------------------------------
(* Base64 *)

\* A number and its half.
LEMMA Halves ==
  \A x \in Nat : x \div 2 \in Nat /\ x % 2 \in Nat /\ x = 2 * (x \div 2) + (x % 2)
  OBVIOUS

\* Halves of halves.
LEMMA HalfOfHalf ==
  ASSUME NEW x \in Nat
  PROVE  /\ (x \div 2) \div 2 = x \div 4 /\ (x \div 4) \div 2 = x \div 8
         /\ (x \div 8) \div 2 = x \div 16 /\ (x \div 16) \div 2 = x \div 32
         /\ (x \div 32) \div 2 = x \div 64 /\ (x \div 64) \div 2 = x \div 128
  <1>1. (x \div 2) \div 2 = x \div 4
    OBVIOUS
  <1>2. (x \div 4) \div 2 = x \div 8
    OBVIOUS
  <1>3. (x \div 8) \div 2 = x \div 16
    OBVIOUS
  <1>4. (x \div 16) \div 2 = x \div 32
    OBVIOUS
  <1>5. (x \div 32) \div 2 = x \div 64
    OBVIOUS
  <1>6. (x \div 64) \div 2 = x \div 128
    OBVIOUS
  <1> QED
    BY <1>1, <1>2, <1>3, <1>4, <1>5, <1>6

\* The bit of a byte with a weight.
BitOf(b, weight) == (b \div weight) % 2

\* The parts of a byte that the characters are made of, from its bits.
LEMMA ByteBits ==
  ASSUME NEW b \in Byte
  PROVE  /\ \A v \in {1, 2, 4, 8, 16, 32, 64, 128} : BitOf(b, v) \in Nat
         /\ b \div 4 = 32 * BitOf(b, 128) + 16 * BitOf(b, 64) + 8 * BitOf(b, 32)
                        + 4 * BitOf(b, 16) + 2 * BitOf(b, 8) + BitOf(b, 4)
         /\ b \div 16 = 8 * BitOf(b, 128) + 4 * BitOf(b, 64) + 2 * BitOf(b, 32) + BitOf(b, 16)
         /\ b \div 64 = 2 * BitOf(b, 128) + BitOf(b, 64)
         /\ b = 4 * (b \div 4) + 2 * BitOf(b, 2) + BitOf(b, 1)
         /\ b = 16 * (b \div 16) + 8 * BitOf(b, 8) + 4 * BitOf(b, 4) + 2 * BitOf(b, 2) + BitOf(b, 1)
         /\ b = 64 * (b \div 64) + 32 * BitOf(b, 32) + 16 * BitOf(b, 16) + 8 * BitOf(b, 8)
                  + 4 * BitOf(b, 4) + 2 * BitOf(b, 2) + BitOf(b, 1)
  <1> DEFINE h1 == b \div 2
             h2 == b \div 4
             h3 == b \div 8
             h4 == b \div 16
             h5 == b \div 32
             h6 == b \div 64
             h7 == b \div 128
  <1>1. b \in Nat /\ b \div 1 = b
    BY DEF Byte
  <1>2. /\ h1 \in Nat /\ h2 \in Nat /\ h3 \in Nat /\ h4 \in Nat /\ h5 \in Nat
        /\ h6 \in Nat /\ h7 \in Nat
    BY <1>1
  <1>3. h7 \div 2 = 0
    BY DEF Byte
  <1>4. /\ h1 \div 2 = h2 /\ h2 \div 2 = h3 /\ h3 \div 2 = h4 /\ h4 \div 2 = h5
        /\ h5 \div 2 = h6 /\ h6 \div 2 = h7
    BY <1>1, HalfOfHalf
  <1>5. /\ BitOf(b, 1) = b % 2 /\ BitOf(b, 2) = h1 % 2 /\ BitOf(b, 4) = h2 % 2
        /\ BitOf(b, 8) = h3 % 2 /\ BitOf(b, 16) = h4 % 2 /\ BitOf(b, 32) = h5 % 2
        /\ BitOf(b, 64) = h6 % 2 /\ BitOf(b, 128) = h7 % 2
    BY <1>1 DEF BitOf
  <1> DEFINE b0 == b % 2
             b1 == h1 % 2
             b2 == h2 % 2
             b3 == h3 % 2
             b4 == h4 % 2
             b5 == h5 % 2
             b6 == h6 % 2
             b7 == h7 % 2
  <1>6. /\ b0 \in Nat /\ b1 \in Nat /\ b2 \in Nat /\ b3 \in Nat
        /\ b4 \in Nat /\ b5 \in Nat /\ b6 \in Nat /\ b7 \in Nat
    BY <1>1, <1>2, Halves
  <1>7. b = 2 * h1 + b0
    BY <1>1, Halves
  <1> HIDE DEF h1, h2, h3, h4, h5, h6, h7
  <1>8. h1 = 2 * h2 + b1 /\ h2 = 2 * h3 + b2 /\ h3 = 2 * h4 + b3
    BY <1>2, <1>4, Halves
  <1>9. h4 = 2 * h5 + b4 /\ h5 = 2 * h6 + b5 /\ h6 = 2 * h7 + b6 /\ h7 = b7
    BY <1>2, <1>3, <1>4, Halves
  <1> HIDE DEF b0, b1, b2, b3, b4, b5, b6, b7
  <1>10. h6 = 2 * b7 + b6 /\ h4 = 8 * b7 + 4 * b6 + 2 * b5 + b4
    BY <1>6, <1>9
  <1>11. h2 = 32 * b7 + 16 * b6 + 8 * b5 + 4 * b4 + 2 * b3 + b2
    BY <1>6, <1>8, <1>10
  <1>12. b = 4 * h2 + 2 * b1 + b0
    BY <1>1, <1>2, <1>6, <1>7, <1>8
  <1>13. b = 16 * h4 + 8 * b3 + 4 * b2 + 2 * b1 + b0
    BY <1>2, <1>6, <1>8, <1>12
  <1>14. b = 64 * h6 + 32 * b5 + 16 * b4 + 8 * b3 + 4 * b2 + 2 * b1 + b0
    BY <1>2, <1>6, <1>9, <1>13
  <1>15. /\ BitOf(b, 1) = b0 /\ BitOf(b, 2) = b1 /\ BitOf(b, 4) = b2 /\ BitOf(b, 8) = b3
         /\ BitOf(b, 16) = b4 /\ BitOf(b, 32) = b5 /\ BitOf(b, 64) = b6 /\ BitOf(b, 128) = b7
    BY <1>5 DEF b0, b1, b2, b3, b4, b5, b6, b7
  <1>16. b \div 4 = h2 /\ b \div 16 = h4 /\ b \div 64 = h6
    BY DEF h2, h4, h6
  <1>17. \A v \in {1, 2, 4, 8, 16, 32, 64, 128} : BitOf(b, v) \in Nat
    BY <1>6, <1>15
  <1>18. /\ b \div 4 = 32 * BitOf(b, 128) + 16 * BitOf(b, 64) + 8 * BitOf(b, 32)
                        + 4 * BitOf(b, 16) + 2 * BitOf(b, 8) + BitOf(b, 4)
         /\ b = 4 * (b \div 4) + 2 * BitOf(b, 2) + BitOf(b, 1)
    BY <1>11, <1>12, <1>15, <1>16
  <1>19. /\ b \div 16 = 8 * BitOf(b, 128) + 4 * BitOf(b, 64) + 2 * BitOf(b, 32) + BitOf(b, 16)
         /\ b = 16 * (b \div 16) + 8 * BitOf(b, 8) + 4 * BitOf(b, 4) + 2 * BitOf(b, 2) + BitOf(b, 1)
    BY <1>10, <1>13, <1>15, <1>16
  <1>20. /\ b \div 64 = 2 * BitOf(b, 128) + BitOf(b, 64)
         /\ b = 64 * (b \div 64) + 32 * BitOf(b, 32) + 16 * BitOf(b, 16) + 8 * BitOf(b, 8)
                  + 4 * BitOf(b, 4) + 2 * BitOf(b, 2) + BitOf(b, 1)
    BY <1>10, <1>14, <1>15, <1>16
  <1> QED
    BY <1>17, <1>18, <1>19, <1>20

\* The bytes of the input, with zeros behind them.
DataByte(in, k) == IF k < Len(in) THEN in[k + 1] ELSE 0

\* The bits of the input, most significant first.
BitAt(in, j) ==
    IF j \div 8 < Len(in)
    THEN (in[j \div 8 + 1] \div <<128, 64, 32, 16, 8, 4, 2, 1>>[(j % 8) + 1]) % 2 ELSE 0

\* They are bytes.
LEMMA DataIsByte ==
  ASSUME NEW in \in Seq(Byte), NEW k \in Nat
  PROVE  DataByte(in, k) \in Byte
  <1>1. Len(in) \in Nat /\ 0 \in Byte
    BY LenProperties DEF Byte
  <1>2. CASE k < Len(in)
    <2>1. k + 1 \in 1..Len(in)
      BY <1>1, <1>2
    <2>2. in[k + 1] \in Byte
      BY <2>1, ElementOfSeq
    <2> QED
      BY <1>2, <2>2 DEF DataByte
  <1>3. CASE ~(k < Len(in))
    BY <1>1, <1>3 DEF DataByte
  <1> QED
    BY <1>2, <1>3

\* A bit of the input is a bit of the byte it is in.
LEMMA BitAtIs ==
  ASSUME NEW in \in Seq(Byte), NEW k \in Nat, NEW e \in 0..7, NEW weight,
         weight = <<128, 64, 32, 16, 8, 4, 2, 1>>[e + 1]
  PROVE  BitAt(in, 8 * k + e) = BitOf(DataByte(in, k), weight)
  <1> DEFINE j == 8 * k + e
  <1>1. j \div 8 = k /\ j % 8 = e
    OBVIOUS
  <1> HIDE DEF j
  <1>2. BitAt(in, j) = IF k < Len(in) THEN (in[k + 1] \div weight) % 2 ELSE 0
    BY <1>1, Zenon DEF BitAt
  <1>3. (0 \div weight) % 2 = 0
    <2>1. weight \in {128, 64, 32, 16, 8, 4, 2, 1}
      OBVIOUS
    <2> QED
      BY <2>1
  <1>4. k < Len(in) => BitAt(in, j) = BitOf(DataByte(in, k), weight)
    BY <1>2 DEF BitOf, DataByte
  <1>5. ~(k < Len(in)) => BitAt(in, j) = BitOf(DataByte(in, k), weight)
    BY <1>2, <1>3 DEF BitOf, DataByte
  <1> QED
    BY <1>4, <1>5 DEF j

\* The bits of the first character of a group.
LEMMA SixBits0 ==
  ASSUME NEW in \in Seq(Byte), NEW q \in Nat
  PROVE  LET d0 == DataByte(in, 3 * q)
         IN  SixBits(in, 4 * q + 0) = 32 * BitOf(d0, 128) + 16 * BitOf(d0, 64) + 8 * BitOf(d0, 32)
                                     + 4 * BitOf(d0, 16) + 2 * BitOf(d0, 8) + BitOf(d0, 4)
  <1> DEFINE d0 == DataByte(in, 3 * q)
             i == 4 * q + 0
  <1>1. SixBits(in, i) = 32 * BitAt(in, 6 * i) + 16 * BitAt(in, 6 * i + 1) + 8 * BitAt(in, 6 * i + 2)
                         + 4 * BitAt(in, 6 * i + 3) + 2 * BitAt(in, 6 * i + 4) + BitAt(in, 6 * i + 5)
    BY DEF SixBits, BitAt
  <1>2. /\ 6 * i = 8 * (3 * q) + 0 /\ 6 * i + 1 = 8 * (3 * q) + 1
        /\ 6 * i + 2 = 8 * (3 * q) + 2 /\ 6 * i + 3 = 8 * (3 * q) + 3
        /\ 6 * i + 4 = 8 * (3 * q) + 4 /\ 6 * i + 5 = 8 * (3 * q) + 5
    OBVIOUS
  <1>3. 3 * q \in Nat
    OBVIOUS
  <1>4. BitAt(in, 6 * i) = BitOf(d0, 128)
    BY <1>2, <1>3, BitAtIs
  <1>5. BitAt(in, 6 * i + 1) = BitOf(d0, 64)
    BY <1>2, <1>3, BitAtIs
  <1>6. BitAt(in, 6 * i + 2) = BitOf(d0, 32)
    BY <1>2, <1>3, BitAtIs
  <1>7. BitAt(in, 6 * i + 3) = BitOf(d0, 16)
    BY <1>2, <1>3, BitAtIs
  <1>8. BitAt(in, 6 * i + 4) = BitOf(d0, 8)
    BY <1>2, <1>3, BitAtIs
  <1>9. BitAt(in, 6 * i + 5) = BitOf(d0, 4)
    BY <1>2, <1>3, BitAtIs
  <1> HIDE DEF i, d0
  <1> QED
    BY <1>1, <1>4, <1>5, <1>6, <1>7, <1>8, <1>9 DEF i, d0

\* The bits of the second character of a group.
LEMMA SixBits1 ==
  ASSUME NEW in \in Seq(Byte), NEW q \in Nat
  PROVE  LET d0 == DataByte(in, 3 * q)
             d1 == DataByte(in, 3 * q + 1)
         IN  SixBits(in, 4 * q + 1) = 32 * BitOf(d0, 2) + 16 * BitOf(d0, 1) + 8 * BitOf(d1, 128)
                                     + 4 * BitOf(d1, 64) + 2 * BitOf(d1, 32) + BitOf(d1, 16)
  <1> DEFINE d0 == DataByte(in, 3 * q)
             d1 == DataByte(in, 3 * q + 1)
             i == 4 * q + 1
  <1>1. SixBits(in, i) = 32 * BitAt(in, 6 * i) + 16 * BitAt(in, 6 * i + 1) + 8 * BitAt(in, 6 * i + 2)
                         + 4 * BitAt(in, 6 * i + 3) + 2 * BitAt(in, 6 * i + 4) + BitAt(in, 6 * i + 5)
    BY DEF SixBits, BitAt
  <1>2. /\ 6 * i = 8 * (3 * q) + 6 /\ 6 * i + 1 = 8 * (3 * q) + 7
        /\ 6 * i + 2 = 8 * (3 * q + 1) + 0 /\ 6 * i + 3 = 8 * (3 * q + 1) + 1
        /\ 6 * i + 4 = 8 * (3 * q + 1) + 2 /\ 6 * i + 5 = 8 * (3 * q + 1) + 3
    OBVIOUS
  <1>3. 3 * q \in Nat /\ 3 * q + 1 \in Nat
    OBVIOUS
  <1>4. BitAt(in, 6 * i) = BitOf(d0, 2)
    BY <1>2, <1>3, BitAtIs
  <1>5. BitAt(in, 6 * i + 1) = BitOf(d0, 1)
    BY <1>2, <1>3, BitAtIs
  <1>6. BitAt(in, 6 * i + 2) = BitOf(d1, 128)
    BY <1>2, <1>3, BitAtIs
  <1>7. BitAt(in, 6 * i + 3) = BitOf(d1, 64)
    BY <1>2, <1>3, BitAtIs
  <1>8. BitAt(in, 6 * i + 4) = BitOf(d1, 32)
    BY <1>2, <1>3, BitAtIs
  <1>9. BitAt(in, 6 * i + 5) = BitOf(d1, 16)
    BY <1>2, <1>3, BitAtIs
  <1> HIDE DEF i, d0, d1
  <1> QED
    BY <1>1, <1>4, <1>5, <1>6, <1>7, <1>8, <1>9 DEF i, d0, d1

\* The bits of the third character of a group.
LEMMA SixBits2 ==
  ASSUME NEW in \in Seq(Byte), NEW q \in Nat
  PROVE  LET d1 == DataByte(in, 3 * q + 1)
             d2 == DataByte(in, 3 * q + 2)
         IN  SixBits(in, 4 * q + 2) = 32 * BitOf(d1, 8) + 16 * BitOf(d1, 4) + 8 * BitOf(d1, 2)
                                     + 4 * BitOf(d1, 1) + 2 * BitOf(d2, 128) + BitOf(d2, 64)
  <1> DEFINE d1 == DataByte(in, 3 * q + 1)
             d2 == DataByte(in, 3 * q + 2)
             i == 4 * q + 2
  <1>1. SixBits(in, i) = 32 * BitAt(in, 6 * i) + 16 * BitAt(in, 6 * i + 1) + 8 * BitAt(in, 6 * i + 2)
                         + 4 * BitAt(in, 6 * i + 3) + 2 * BitAt(in, 6 * i + 4) + BitAt(in, 6 * i + 5)
    BY DEF SixBits, BitAt
  <1>2. /\ 6 * i = 8 * (3 * q + 1) + 4 /\ 6 * i + 1 = 8 * (3 * q + 1) + 5
        /\ 6 * i + 2 = 8 * (3 * q + 1) + 6 /\ 6 * i + 3 = 8 * (3 * q + 1) + 7
        /\ 6 * i + 4 = 8 * (3 * q + 2) + 0 /\ 6 * i + 5 = 8 * (3 * q + 2) + 1
    OBVIOUS
  <1>3. 3 * q + 1 \in Nat /\ 3 * q + 2 \in Nat
    OBVIOUS
  <1>4. BitAt(in, 6 * i) = BitOf(d1, 8)
    BY <1>2, <1>3, BitAtIs
  <1>5. BitAt(in, 6 * i + 1) = BitOf(d1, 4)
    BY <1>2, <1>3, BitAtIs
  <1>6. BitAt(in, 6 * i + 2) = BitOf(d1, 2)
    BY <1>2, <1>3, BitAtIs
  <1>7. BitAt(in, 6 * i + 3) = BitOf(d1, 1)
    BY <1>2, <1>3, BitAtIs
  <1>8. BitAt(in, 6 * i + 4) = BitOf(d2, 128)
    BY <1>2, <1>3, BitAtIs
  <1>9. BitAt(in, 6 * i + 5) = BitOf(d2, 64)
    BY <1>2, <1>3, BitAtIs
  <1> HIDE DEF i, d1, d2
  <1> QED
    BY <1>1, <1>4, <1>5, <1>6, <1>7, <1>8, <1>9 DEF i, d1, d2

\* The bits of the fourth character of a group.
LEMMA SixBits3 ==
  ASSUME NEW in \in Seq(Byte), NEW q \in Nat
  PROVE  LET d2 == DataByte(in, 3 * q + 2)
         IN  SixBits(in, 4 * q + 3) = 32 * BitOf(d2, 32) + 16 * BitOf(d2, 16) + 8 * BitOf(d2, 8)
                                     + 4 * BitOf(d2, 4) + 2 * BitOf(d2, 2) + BitOf(d2, 1)
  <1> DEFINE d2 == DataByte(in, 3 * q + 2)
             i == 4 * q + 3
  <1>1. SixBits(in, i) = 32 * BitAt(in, 6 * i) + 16 * BitAt(in, 6 * i + 1) + 8 * BitAt(in, 6 * i + 2)
                         + 4 * BitAt(in, 6 * i + 3) + 2 * BitAt(in, 6 * i + 4) + BitAt(in, 6 * i + 5)
    BY DEF SixBits, BitAt
  <1>2. /\ 6 * i = 8 * (3 * q + 2) + 2 /\ 6 * i + 1 = 8 * (3 * q + 2) + 3
        /\ 6 * i + 2 = 8 * (3 * q + 2) + 4 /\ 6 * i + 3 = 8 * (3 * q + 2) + 5
        /\ 6 * i + 4 = 8 * (3 * q + 2) + 6 /\ 6 * i + 5 = 8 * (3 * q + 2) + 7
    OBVIOUS
  <1>3. 3 * q + 2 \in Nat
    OBVIOUS
  <1>4. BitAt(in, 6 * i) = BitOf(d2, 32)
    BY <1>2, <1>3, BitAtIs
  <1>5. BitAt(in, 6 * i + 1) = BitOf(d2, 16)
    BY <1>2, <1>3, BitAtIs
  <1>6. BitAt(in, 6 * i + 2) = BitOf(d2, 8)
    BY <1>2, <1>3, BitAtIs
  <1>7. BitAt(in, 6 * i + 3) = BitOf(d2, 4)
    BY <1>2, <1>3, BitAtIs
  <1>8. BitAt(in, 6 * i + 4) = BitOf(d2, 2)
    BY <1>2, <1>3, BitAtIs
  <1>9. BitAt(in, 6 * i + 5) = BitOf(d2, 1)
    BY <1>2, <1>3, BitAtIs
  <1> HIDE DEF i, d2
  <1> QED
    BY <1>1, <1>4, <1>5, <1>6, <1>7, <1>8, <1>9 DEF i, d2

\* A number of 24 bits put together from its digits of six bits, and taken apart as the
\* encoder does.
PutTogether(n, c0, c1, c2, c3) == n = 262144 * c0 + 4096 * c1 + 64 * c2 + c3
TakenApart(n, c0, c1, c2, c3) ==
    n \div 262144 = c0 /\ (n \div 4096) % 64 = c1 /\ (n \div 64) % 64 = c2 /\ n % 64 = c3

LEMMA SixBitDigits ==
  ASSUME NEW c0 \in 0..63, NEW c1 \in 0..63, NEW c2 \in 0..63, NEW c3 \in 0..63, NEW n,
         PutTogether(n, c0, c1, c2, c3)
  PROVE  TakenApart(n, c0, c1, c2, c3)
  <1>0. n = 262144 * c0 + 4096 * c1 + 64 * c2 + c3
    BY DEF PutTogether
  <1>1. n \div 262144 = c0
    BY <1>0
  <1>2. n \div 4096 = 64 * c0 + c1
    BY <1>0
  <1>3. n \div 64 = 64 * (64 * c0 + c1) + c2
    BY <1>0
  <1>4. n % 64 = c3
    BY <1>0
  <1>5. (64 * c0 + c1) % 64 = c1
    OBVIOUS
  <1>6. (64 * (64 * c0 + c1) + c2) % 64 = c2
    OBVIOUS
  <1> QED
    BY <1>1, <1>2, <1>3, <1>4, <1>5, <1>6 DEF TakenApart

\* The bits of a byte, in the pieces that characters are made of.
Top2(b) == 2 * BitOf(b, 128) + BitOf(b, 64)
Top4(b) == 8 * BitOf(b, 128) + 4 * BitOf(b, 64) + 2 * BitOf(b, 32) + BitOf(b, 16)
Top6(b) == 32 * BitOf(b, 128) + 16 * BitOf(b, 64) + 8 * BitOf(b, 32)
             + 4 * BitOf(b, 16) + 2 * BitOf(b, 8) + BitOf(b, 4)
Low2(b) == 2 * BitOf(b, 2) + BitOf(b, 1)
Low4(b) == 8 * BitOf(b, 8) + 4 * BitOf(b, 4) + 2 * BitOf(b, 2) + BitOf(b, 1)
Low6(b) == 32 * BitOf(b, 32) + 16 * BitOf(b, 16) + 8 * BitOf(b, 8)
             + 4 * BitOf(b, 4) + 2 * BitOf(b, 2) + BitOf(b, 1)

\* A bit is 0 or 1.
LEMMA IsBit ==
  ASSUME NEW b \in Byte, NEW v \in {1, 2, 4, 8, 16, 32, 64, 128}
  PROVE  BitOf(b, v) \in Int /\ 0 <= BitOf(b, v) /\ BitOf(b, v) <= 1
  <1> DEFINE h == b \div v
  <1>1. b \in Nat
    BY DEF Byte
  <1>2. h \in Nat
    BY <1>1
  <1>3. BitOf(b, v) = h % 2
    BY DEF BitOf
  <1> HIDE DEF h
  <1> QED
    BY <1>2, <1>3

\* A byte is its pieces.
LEMMA Pieces ==
  ASSUME NEW b \in Byte
  PROVE  /\ b = 4 * Top6(b) + Low2(b) /\ b = 16 * Top4(b) + Low4(b) /\ b = 64 * Top2(b) + Low6(b)
         /\ Top2(b) \in 0..3 /\ Top4(b) \in 0..15 /\ Top6(b) \in 0..63
         /\ Low2(b) \in 0..3 /\ Low4(b) \in 0..15 /\ Low6(b) \in 0..63
  <1> DEFINE b0 == BitOf(b, 1)
             b1 == BitOf(b, 2)
             b2 == BitOf(b, 4)
             b3 == BitOf(b, 8)
             b4 == BitOf(b, 16)
             b5 == BitOf(b, 32)
             b6 == BitOf(b, 64)
             b7 == BitOf(b, 128)
  <1>1. b \div 4 = Top6(b) /\ b \div 16 = Top4(b) /\ b \div 64 = Top2(b)
    BY ByteBits DEF Top2, Top4, Top6
  <1>2. /\ b0 \in Int /\ 0 <= b0 /\ b0 <= 1 /\ b1 \in Int /\ 0 <= b1 /\ b1 <= 1
        /\ b2 \in Int /\ 0 <= b2 /\ b2 <= 1 /\ b3 \in Int /\ 0 <= b3 /\ b3 <= 1
    BY IsBit
  <1>3. /\ b4 \in Int /\ 0 <= b4 /\ b4 <= 1 /\ b5 \in Int /\ 0 <= b5 /\ b5 <= 1
        /\ b6 \in Int /\ 0 <= b6 /\ b6 <= 1 /\ b7 \in Int /\ 0 <= b7 /\ b7 <= 1
    BY IsBit
  <1>4. /\ Top2(b) = 2 * b7 + b6 /\ Top4(b) = 8 * b7 + 4 * b6 + 2 * b5 + b4
        /\ Top6(b) = 32 * b7 + 16 * b6 + 8 * b5 + 4 * b4 + 2 * b3 + b2
    BY DEF Top2, Top4, Top6
  <1>5. /\ Low2(b) = 2 * b1 + b0 /\ Low4(b) = 8 * b3 + 4 * b2 + 2 * b1 + b0
        /\ Low6(b) = 32 * b5 + 16 * b4 + 8 * b3 + 4 * b2 + 2 * b1 + b0
    BY DEF Low2, Low4, Low6
  <1>6. /\ b = 4 * (b \div 4) + 2 * b1 + b0
        /\ b = 16 * (b \div 16) + 8 * b3 + 4 * b2 + 2 * b1 + b0
        /\ b = 64 * (b \div 64) + 32 * b5 + 16 * b4 + 8 * b3 + 4 * b2 + 2 * b1 + b0
    BY ByteBits
  <1> HIDE DEF b0, b1, b2, b3, b4, b5, b6, b7
  <1>7. /\ Top2(b) \in 0..3 /\ Top4(b) \in 0..15 /\ Top6(b) \in 0..63
    BY <1>2, <1>3, <1>4
  <1>8. /\ Low2(b) \in 0..3 /\ Low4(b) \in 0..15 /\ Low6(b) \in 0..63
    BY <1>2, <1>3, <1>5
  <1>9. b = 4 * Top6(b) + 2 * b1 + b0
    BY <1>1, <1>6, Zenon
  <1>10. b = 16 * Top4(b) + 8 * b3 + 4 * b2 + 2 * b1 + b0
    BY <1>1, <1>6, Zenon
  <1>11. b = 64 * Top2(b) + 32 * b5 + 16 * b4 + 8 * b3 + 4 * b2 + 2 * b1 + b0
    BY <1>1, <1>6, Zenon
  <1>12. b = 4 * Top6(b) + Low2(b)
    BY <1>2, <1>5, <1>7, <1>9
  <1>13. b = 16 * Top4(b) + Low4(b)
    BY <1>2, <1>5, <1>7, <1>10
  <1>14. b = 64 * Top2(b) + Low6(b)
    BY <1>2, <1>3, <1>5, <1>7, <1>11
  <1> QED
    BY <1>7, <1>8, <1>12, <1>13, <1>14

\* The 24 bits of the three bytes at n.
GroupBits(in, n) == DataByte(in, n) * 65536 + DataByte(in, n + 1) * 256 + DataByte(in, n + 2)

\* The four characters of a group are the four groups of six bits of its three bytes.
LEMMA GroupDigits ==
  ASSUME NEW in \in Seq(Byte), NEW q \in Nat
  PROVE  TakenApart(GroupBits(in, 3 * q), SixBits(in, 4 * q + 0), SixBits(in, 4 * q + 1),
                    SixBits(in, 4 * q + 2), SixBits(in, 4 * q + 3))
  <1> DEFINE d0 == DataByte(in, 3 * q)
             d1 == DataByte(in, 3 * q + 1)
             d2 == DataByte(in, 3 * q + 2)
             c0 == SixBits(in, 4 * q + 0)
             c1 == SixBits(in, 4 * q + 1)
             c2 == SixBits(in, 4 * q + 2)
             c3 == SixBits(in, 4 * q + 3)
             n  == GroupBits(in, 3 * q)
  <1>1. d0 \in Byte /\ d1 \in Byte /\ d2 \in Byte
    <2>1. 3 * q \in Nat /\ 3 * q + 1 \in Nat /\ 3 * q + 2 \in Nat
      OBVIOUS
    <2> QED
      BY <2>1, DataIsByte
  <1>2. c0 = Top6(d0)
    BY SixBits0 DEF Top6
  <1>3. c1 = 32 * BitOf(d0, 2) + 16 * BitOf(d0, 1) + 8 * BitOf(d1, 128)
               + 4 * BitOf(d1, 64) + 2 * BitOf(d1, 32) + BitOf(d1, 16)
    BY SixBits1
  <1>4. c2 = 32 * BitOf(d1, 8) + 16 * BitOf(d1, 4) + 8 * BitOf(d1, 2)
               + 4 * BitOf(d1, 1) + 2 * BitOf(d2, 128) + BitOf(d2, 64)
    BY SixBits2
  <1>5. c3 = Low6(d2)
    BY SixBits3 DEF Low6
  <1>6. n = d0 * 65536 + d1 * 256 + d2
    BY DEF GroupBits
  <1> HIDE DEF d0, d1, d2, c0, c1, c2, c3, n
  <1>7. c1 = 16 * Low2(d0) + Top4(d1)
    <2> DEFINE x1 == BitOf(d0, 2)
               x0 == BitOf(d0, 1)
               y7 == BitOf(d1, 128)
               y6 == BitOf(d1, 64)
               y5 == BitOf(d1, 32)
               y4 == BitOf(d1, 16)
    <2>1. x1 \in Int /\ x0 \in Int /\ y7 \in Int /\ y6 \in Int /\ y5 \in Int /\ y4 \in Int
      BY <1>1, IsBit
    <2>2. c1 = 32 * x1 + 16 * x0 + 8 * y7 + 4 * y6 + 2 * y5 + y4
      BY <1>3
    <2>3. Low2(d0) = 2 * x1 + x0 /\ Top4(d1) = 8 * y7 + 4 * y6 + 2 * y5 + y4
      BY DEF Low2, Top4
    <2> HIDE DEF x1, x0, y7, y6, y5, y4
    <2> QED
      BY <2>1, <2>2, <2>3
  <1>8. c2 = 4 * Low4(d1) + Top2(d2)
    <2> DEFINE x3 == BitOf(d1, 8)
               x2 == BitOf(d1, 4)
               x1 == BitOf(d1, 2)
               x0 == BitOf(d1, 1)
               y7 == BitOf(d2, 128)
               y6 == BitOf(d2, 64)
    <2>1. x3 \in Int /\ x2 \in Int /\ x1 \in Int /\ x0 \in Int /\ y7 \in Int /\ y6 \in Int
      BY <1>1, IsBit
    <2>2. c2 = 32 * x3 + 16 * x2 + 8 * x1 + 4 * x0 + 2 * y7 + y6
      BY <1>4
    <2>3. Low4(d1) = 8 * x3 + 4 * x2 + 2 * x1 + x0 /\ Top2(d2) = 2 * y7 + y6
      BY DEF Low4, Top2
    <2> HIDE DEF x3, x2, x1, x0, y7, y6
    <2> QED
      BY <2>1, <2>2, <2>3
  <1> DEFINE l0 == Low2(d0)
             t1 == Top4(d1)
             l1 == Low4(d1)
             t2 == Top2(d2)
  <1>9. d0 = 4 * c0 + l0 /\ l0 \in 0..3 /\ c0 \in 0..63
    BY <1>1, <1>2, Pieces
  <1>10. d1 = 16 * t1 + l1 /\ t1 \in 0..15 /\ l1 \in 0..15
    BY <1>1, Pieces
  <1>11. d2 = 64 * t2 + c3 /\ t2 \in 0..3 /\ c3 \in 0..63
    BY <1>1, <1>5, Pieces
  <1>12. c1 = 16 * l0 + t1 /\ c2 = 4 * l1 + t2
    BY <1>7, <1>8
  <1> HIDE DEF l0, t1, l1, t2
  <1>13. c1 \in 0..63 /\ c2 \in 0..63 /\ PutTogether(n, c0, c1, c2, c3)
    BY <1>6, <1>9, <1>10, <1>11, <1>12 DEF PutTogether
  <1>14. TakenApart(n, c0, c1, c2, c3)
    BY <1>9, <1>11, <1>13, SixBitDigits
  <1> QED
    BY <1>14 DEF c0, c1, c2, c3, n

\* The character at j of what RFC 4648 defines.
Standard(in, j) == IF j < (8 * Len(in) + 5) \div 6 THEN base64_table[SixBits(in, j)] ELSE Pad

\* How many characters there are, and which of a group are not padding.
LEMMA Lengths ==
  ASSUME NEW l \in Nat
  PROVE  LET g == (l + 2) \div 3
             c == (8 * l + 5) \div 6
         IN  /\ g \in Nat /\ c \in Nat /\ 4 * ((c + 3) \div 4) = 4 * g /\ c <= 4 * g
             /\ \A k \in Nat : /\ k < g <=> 3 * k < l
                               /\ 3 * k < l => 4 * k + 1 < c
                               /\ 4 * k + 2 < c <=> 3 * k + 1 < l
                               /\ 4 * k + 3 < c <=> 3 * k + 2 < l
  <1> DEFINE g == (l + 2) \div 3
             c == (8 * l + 5) \div 6
             m == l \div 3
             s == l % 3
  <1>1. m \in Nat /\ s \in 0..2 /\ l = 3 * m + s
    OBVIOUS
  <1> HIDE DEF m, s
  <1>2. s = 0 \/ s = 1 \/ s = 2
    BY <1>1
  <1>3. CASE s = 0
    <2>1. l = 3 * m
      BY <1>1, <1>3
    <2>2. g = m /\ c = 4 * m
      BY <1>1, <2>1
    <2> HIDE DEF g, c
    <2>3. (c + 3) \div 4 = m
      BY <1>1, <2>2
    <2>4. \A k \in Nat : /\ k < g <=> 3 * k < l
                         /\ 3 * k < l => 4 * k + 1 < c
                         /\ 4 * k + 2 < c <=> 3 * k + 1 < l
                         /\ 4 * k + 3 < c <=> 3 * k + 2 < l
      BY <1>1, <2>1, <2>2
    <2>5. g \in Nat /\ c \in Nat /\ 4 * ((c + 3) \div 4) = 4 * g /\ c <= 4 * g
      BY <1>1, <2>2, <2>3
    <2> QED
      BY <2>4, <2>5 DEF g, c
  <1>4. CASE s = 1
    <2>1. l = 3 * m + 1
      BY <1>1, <1>4
    <2>2. g = m + 1 /\ c = 4 * m + 2
      BY <1>1, <2>1
    <2> HIDE DEF g, c
    <2>3. (c + 3) \div 4 = m + 1
      BY <1>1, <2>2
    <2>4. \A k \in Nat : /\ k < g <=> 3 * k < l
                         /\ 3 * k < l => 4 * k + 1 < c
                         /\ 4 * k + 2 < c <=> 3 * k + 1 < l
                         /\ 4 * k + 3 < c <=> 3 * k + 2 < l
      BY <1>1, <2>1, <2>2
    <2>5. g \in Nat /\ c \in Nat /\ 4 * ((c + 3) \div 4) = 4 * g /\ c <= 4 * g
      BY <1>1, <2>2, <2>3
    <2> QED
      BY <2>4, <2>5 DEF g, c
  <1>5. CASE s = 2
    <2>1. l = 3 * m + 2
      BY <1>1, <1>5
    <2>2. g = m + 1 /\ c = 4 * m + 3
      BY <1>1, <2>1
    <2> HIDE DEF g, c
    <2>3. (c + 3) \div 4 = m + 1
      BY <1>1, <2>2
    <2>4. \A k \in Nat : /\ k < g <=> 3 * k < l
                         /\ 3 * k < l => 4 * k + 1 < c
                         /\ 4 * k + 2 < c <=> 3 * k + 1 < l
                         /\ 4 * k + 3 < c <=> 3 * k + 2 < l
      BY <1>1, <2>1, <2>2
    <2>5. g \in Nat /\ c \in Nat /\ 4 * ((c + 3) \div 4) = 4 * g /\ c <= 4 * g
      BY <1>1, <2>2, <2>3
    <2> QED
      BY <2>4, <2>5 DEF g, c
  <1> QED
    BY <1>2, <1>3, <1>4, <1>5

\* A group is encoded as RFC 4648 says.
LEMMA GroupStandard ==
  ASSUME NEW in \in Seq(Byte), NEW q \in Nat, 3 * q < Len(in)
  PROVE  Group(in, 3 * q) = <<Standard(in, 4 * q + 0), Standard(in, 4 * q + 1),
                              Standard(in, 4 * q + 2), Standard(in, 4 * q + 3)>>
  <1> DEFINE n  == 3 * q
             l  == Len(in)
             c  == (8 * l + 5) \div 6
             gb == GroupBits(in, n)
             c0 == SixBits(in, 4 * q + 0)
             c1 == SixBits(in, 4 * q + 1)
             c2 == SixBits(in, 4 * q + 2)
             c3 == SixBits(in, 4 * q + 3)
  <1>1. l \in Nat /\ n \in Nat
    BY LenProperties
  <1>2. /\ DataByte(in, n) = IF n + 0 < Len(in) THEN in[n + 0 + 1] ELSE 0
        /\ DataByte(in, n + 1) = IF n + 1 < Len(in) THEN in[n + 1 + 1] ELSE 0
        /\ DataByte(in, n + 2) = IF n + 2 < Len(in) THEN in[n + 2 + 1] ELSE 0
    <2>1. n + 0 = n
      BY <1>1
    <2> QED
      BY <2>1, Zenon DEF DataByte
  <1>3. TakenApart(gb, c0, c1, c2, c3)
    BY GroupDigits
  <1>4. /\ gb \div 262144 = c0 /\ (gb \div 4096) % 64 = c1
        /\ (gb \div 64) % 64 = c2 /\ gb % 64 = c3
    BY <1>3 DEF TakenApart
  <1>5. /\ 4 * q + 0 < c /\ 4 * q + 1 < c
        /\ 4 * q + 2 < c <=> n + 1 < l
        /\ 4 * q + 3 < c <=> n + 2 < l
    <2>1. /\ c \in Nat /\ 4 * q + 1 < c
          /\ 4 * q + 2 < c <=> n + 1 < l
          /\ 4 * q + 3 < c <=> n + 2 < l
      BY <1>1, Lengths
    <2> HIDE DEF c
    <2> QED
      BY <2>1
  <1>6. /\ Standard(in, 4 * q + 0) = base64_table[c0] /\ Standard(in, 4 * q + 1) = base64_table[c1]
        /\ Standard(in, 4 * q + 2) = IF n + 1 < l THEN base64_table[c2] ELSE Pad
        /\ Standard(in, 4 * q + 3) = IF n + 2 < l THEN base64_table[c3] ELSE Pad
    BY <1>5, Zenon DEF Standard
  <1>7. Group(in, n) = <<base64_table[gb \div 262144], base64_table[(gb \div 4096) % 64],
                         IF n + 1 < l THEN base64_table[(gb \div 64) % 64] ELSE Pad,
                         IF n + 2 < l THEN base64_table[gb % 64] ELSE Pad>>
    BY <1>2 DEF Group, GroupBits
  <1> HIDE DEF gb, c0, c1, c2, c3, n, l
  <1>8. Group(in, n) = <<base64_table[c0], base64_table[c1],
                         IF n + 1 < l THEN base64_table[c2] ELSE Pad,
                         IF n + 2 < l THEN base64_table[c3] ELSE Pad>>
    BY <1>4, <1>7
  <1> QED
    BY <1>6, <1>8 DEF n

\* The first n characters of what RFC 4648 defines.
Characters(in, n) == [j \in 1..n |-> Standard(in, j - 1)]

\* A group more is four characters more.
LEMMA OneGroupMore ==
  ASSUME NEW in \in Seq(Byte), NEW q \in Nat, 3 * q < Len(in)
  PROVE  Characters(in, 4 * q + 4) = Characters(in, 4 * q) \o Group(in, 3 * q)
  <1> DEFINE S == {Standard(in, j) : j \in Nat}
             n == 4 * q
             m == n + 4
             u == Characters(in, n)
             v == Group(in, 3 * q)
             w == Characters(in, m)
  <1>1. n \in Nat /\ m \in Nat
    OBVIOUS
  <1>2. v = <<Standard(in, n + 0), Standard(in, n + 1), Standard(in, n + 2), Standard(in, n + 3)>>
    BY GroupStandard
  <1> HIDE DEF n, m, v
  <1>3. \A k \in Nat : Standard(in, k) \in S
    OBVIOUS
  <1>4. \A j \in 1..n : j - 1 \in Nat
    BY <1>1
  <1>5. \A j \in 1..m : j - 1 \in Nat
    BY <1>1
  <1>6. n + 0 \in Nat /\ n + 1 \in Nat /\ n + 2 \in Nat /\ n + 3 \in Nat
    BY <1>1
  <1> HIDE DEF S
  <1>7. u \in Seq(S) /\ Len(u) = n /\ \A j \in 1..n : u[j] = Standard(in, j - 1)
    BY <1>1, <1>3, <1>4 DEF Characters
  <1>8. w \in Seq(S) /\ Len(w) = m /\ \A j \in 1..m : w[j] = Standard(in, j - 1)
    BY <1>1, <1>3, <1>5 DEF Characters
  <1>9. /\ v \in Seq(S) /\ Len(v) = 4 /\ v[1] = Standard(in, n + 0) /\ v[2] = Standard(in, n + 1)
        /\ v[3] = Standard(in, n + 2) /\ v[4] = Standard(in, n + 3)
    BY <1>2, <1>3, <1>6
  <1> HIDE DEF u, w
  <1> DEFINE z == u \o v
  <1>10. /\ z \in Seq(S) /\ Len(z) = n + 4
         /\ \A j \in 1..(n + 4) : z[j] = IF j <= n THEN u[j] ELSE v[j - n]
    <2> DEFINE four == 4
    <2>1. u \in Seq(S) /\ v \in Seq(S) /\ Len(u) = n /\ Len(v) = four
      BY <1>7, <1>9
    <2> HIDE DEF four
    <2>2. /\ z \in Seq(S) /\ Len(z) = n + four
          /\ \A j \in 1..(n + four) : z[j] = IF j <= n THEN u[j] ELSE v[j - n]
      BY <2>1, Joined
    <2> QED
      BY <2>2 DEF four
  <1> HIDE DEF z
  <1>11. ASSUME NEW j \in 1..m PROVE w[j] = z[j]
    <2>1. j \in 1..(n + 4) /\ j \in Int
      BY <1>1 DEF m
    <2>2. CASE j <= n
      <3>1. j \in 1..n
        BY <2>1, <2>2, <1>1
      <3> QED
        BY <3>1, <2>1, <2>2, <1>7, <1>8, <1>10
    <2>3. CASE ~(j <= n)
      <3>1. z[j] = v[j - n] /\ w[j] = Standard(in, j - 1)
        BY <2>1, <2>3, <1>8, <1>10
      <3>2. j = n + 1 \/ j = n + 2 \/ j = n + 3 \/ j = n + 4
        BY <2>1, <2>3, <1>1
      <3>3. \A k \in Nat : k + 1 - 1 = k + 0 /\ k + 2 - 1 = k + 1 /\ k + 3 - 1 = k + 2
                           /\ k + 4 - 1 = k + 3 /\ k + 1 - k = 1 /\ k + 2 - k = 2
                           /\ k + 3 - k = 3 /\ k + 4 - k = 4
        OBVIOUS
      <3>4. CASE j = n + 1
        BY <3>1, <3>3, <3>4, <1>1, <1>9
      <3>5. CASE j = n + 2
        BY <3>1, <3>3, <3>5, <1>1, <1>9
      <3>6. CASE j = n + 3
        BY <3>1, <3>3, <3>6, <1>1, <1>9
      <3>7. CASE j = n + 4
        BY <3>1, <3>3, <3>7, <1>1, <1>9
      <3> QED
        BY <3>2, <3>4, <3>5, <3>6, <3>7
    <2> QED
      BY <2>2, <2>3
  <1>12. w = z
    <2>1. Len(w) = Len(z) /\ Len(w) = m
      BY <1>8, <1>10 DEF m
    <2>2. \A j \in 1..Len(w) : w[j] = z[j]
      BY <2>1, <1>11
    <2> QED
      BY <2>1, <2>2, <1>8, <1>10, SeqEqual
  <1> QED
    BY <1>12 DEF w, z, u, v, n, m

\* How many groups there are.
GroupCount(in) == (Len(in) + 2) \div 3

\* The equation of the groups that base64_encode puts together.
Groups(in, g, f) ==
    f = [i \in 0..g |-> IF i = 0 THEN <<>> ELSE f[i - 1] \o Group(in, 3 * (i - 1))]

\* There are such groups, and they are the characters RFC 4648 defines.
LEMMA GroupsAre ==
  ASSUME NEW in \in Seq(Byte), NEW g, g = GroupCount(in)
  PROVE  /\ \E f : Groups(in, g, f)
         /\ \A f : Groups(in, g, f) => f[g] = Characters(in, 4 * g)
  <1>1. g \in Nat
    BY LenProperties, Lengths DEF GroupCount
  <1>2. \A k \in Nat : k < g => 3 * k < Len(in)
    BY LenProperties, Lengths DEF GroupCount
  <1>3. Characters(in, 4 * 0) = <<>>
    BY DEF Characters
  <1>4. ASSUME NEW k \in Nat, k < g
        PROVE  Characters(in, 4 * (k + 1)) = Characters(in, 4 * k) \o Group(in, 3 * k)
    <2>1. 3 * k < Len(in)
      BY <1>2, <1>4
    <2>2. 4 * (k + 1) = 4 * k + 4
      OBVIOUS
    <2> QED
      BY <2>1, <2>2, OneGroupMore
  <1>5. \E f : Groups(in, g, f)
    <2> DEFINE w == [i \in 0..g |-> Characters(in, 4 * i)]
    <2>1. ASSUME NEW i \in 0..g
          PROVE  w[i] = IF i = 0 THEN <<>> ELSE w[i - 1] \o Group(in, 3 * (i - 1))
      <3>1. CASE i = 0
        BY <3>1, <1>1, <1>3
      <3>2. CASE i # 0
        <4> DEFINE k == i - 1
        <4>1. k \in Nat /\ k < g /\ k + 1 = i /\ k \in 0..g
          BY <3>2, <1>1
        <4>2. w[i] = Characters(in, 4 * i) /\ w[k] = Characters(in, 4 * k)
          BY <4>1
        <4> HIDE DEF k, w
        <4>3. w[i] = w[k] \o Group(in, 3 * k)
          BY <4>1, <4>2, <1>4
        <4> QED
          BY <4>3, <3>2 DEF k
      <3> QED
        BY <3>1, <3>2
    <2>2. w = [i \in 0..g |-> IF i = 0 THEN <<>> ELSE w[i - 1] \o Group(in, 3 * (i - 1))]
      BY <2>1
    <2> HIDE DEF w
    <2> QED
      BY <2>2 DEF Groups
  <1>6. ASSUME NEW f, Groups(in, g, f)
        PROVE  f[g] = Characters(in, 4 * g)
    <2> DEFINE S == {n \in Nat : n <= g => f[n] = Characters(in, 4 * n)}
    <2>1. \A i \in 0..g : f[i] = IF i = 0 THEN <<>> ELSE f[i - 1] \o Group(in, 3 * (i - 1))
      BY <1>6 DEF Groups
    <2>2. 0 \in S
      <3>1. f[0] = <<>>
        BY <1>1, <2>1
      <3> QED
        BY <3>1, <1>3
    <2>3. ASSUME NEW n \in Nat, n \in S
          PROVE  n + 1 \in S
      <3> SUFFICES ASSUME n + 1 <= g
                   PROVE  f[n + 1] = Characters(in, 4 * (n + 1))
        OBVIOUS
      <3> DEFINE j == n + 1
      <3>1. n < g /\ n <= g /\ j \in 0..g /\ j # 0 /\ j - 1 = n
        BY <1>1
      <3>2. f[n] = Characters(in, 4 * n)
        BY <2>3, <3>1
      <3> HIDE DEF j
      <3>3. f[j] = f[n] \o Group(in, 3 * n)
        BY <2>1, <3>1
      <3> QED
        BY <3>1, <3>2, <3>3, <1>4 DEF j
    <2> HIDE DEF S
    <2>4. Nat \subseteq S
      BY <2>2, <2>3, NatSet
    <2>5. g \in S
      BY <2>4, <1>1
    <2> QED
      BY <2>5, <1>1 DEF S
  <1> QED
    BY <1>5, <1>6

\* What base64_encode returns and writes.
LEMMA EncodeReturns ==
  ASSUME NEW in \in Seq(Byte), NEW outlen \in Int
  PROVE  LET r     == base64_encode(in, outlen)
             quads == 4 * GroupCount(in)
         IN  /\ r.ret = IF outlen < quads + 1 THEN 0 ELSE 1
             /\ r.outlen = quads + 1
             /\ r.ret = 1 => r.out = Append(Characters(in, quads), Nul)
  <1> DEFINE r     == base64_encode(in, outlen)
             g     == GroupCount(in)
             quads == 4 * g
             size  == quads + 1
             f     == CHOOSE h : Groups(in, g, h)
             out   == Append(f[g], Nul)
  <1>1. r = IF outlen < base64_enc_len(Len(in))
            THEN [ret |-> 0, outlen |-> base64_enc_len(Len(in)), out |-> <<>>]
            ELSE [ret |-> 1, outlen |-> Len(out), out |-> out]
    BY Zenon DEF base64_encode, Groups, GroupCount
  <1>2. base64_enc_len(Len(in)) = size
    BY DEF base64_enc_len, GroupCount
  <1>3. g \in Nat
    BY LenProperties, Lengths DEF GroupCount
  <1> HIDE DEF f, g, out, r
  <1>4. Groups(in, g, f)
    BY GroupsAre DEF f, g
  <1>5. f[g] = Characters(in, quads)
    BY <1>4, GroupsAre DEF g
  <1>6. Len(out) = size
    <2> DEFINE S == {Standard(in, j) : j \in Nat} \cup {Nul}
               u == Characters(in, quads)
    <2>1. quads \in Nat
      BY <1>3
    <2> HIDE DEF quads
    <2>2. \A k \in Nat : Standard(in, k) \in S
      OBVIOUS
    <2>3. \A j \in 1..quads : j - 1 \in Nat
      BY <2>1
    <2>4. Nul \in S
      OBVIOUS
    <2> HIDE DEF S
    <2>5. u \in Seq(S) /\ Len(u) = quads
      BY <2>1, <2>2, <2>3 DEF Characters
    <2> HIDE DEF u
    <2>6. Len(Append(u, Nul)) = Len(u) + 1
      BY <2>4, <2>5, AppendProperties, Zenon
    <2> QED
      BY <1>5, <2>5, <2>6 DEF u, out
  <1>7. out = Append(Characters(in, quads), Nul)
    BY <1>5 DEF out
  <1> HIDE DEF size
  <1>8. CASE outlen < size
    <2>1. r = [ret |-> 0, outlen |-> size, out |-> <<>>]
      BY <1>1, <1>2, <1>8
    <2> QED
      BY <2>1, <1>8 DEF r, size, g
  <1>9. CASE ~(outlen < size)
    <2>1. r = [ret |-> 1, outlen |-> size, out |-> out]
      BY <1>1, <1>2, <1>6, <1>9
    <2> QED
      BY <2>1, <1>7, <1>9 DEF r, size, g
  <1> QED
    BY <1>8, <1>9

\* The text of RFC 4648 with its NUL, as Base64IsStandard writes it.
Base64Text(in, chars, quads) ==
  [i \in 1..(quads + 1) |-> IF i <= chars THEN base64_table[SixBits(in, i - 1)]
                            ELSE IF i <= quads THEN Pad ELSE Nul]

\* The characters, the padding and the NUL, one by one.
LEMMA CharactersAndNul ==
  ASSUME NEW in \in Seq(Byte), NEW chars \in Nat, NEW quads \in Nat, chars <= quads,
         chars = (8 * Len(in) + 5) \div 6
  PROVE  Append(Characters(in, quads), Nul) = Base64Text(in, chars, quads)
  <1> DEFINE u    == Characters(in, quads)
             S    == {Standard(in, j) : j \in Nat} \cup {Nul}
             code(i) == base64_table[SixBits(in, i - 1)]
             text == [i \in 1..(quads + 1) |-> IF i <= chars THEN code(i)
                                               ELSE IF i <= quads THEN Pad ELSE Nul]
             z    == Append(u, Nul)
  <1>1. \A i \in 1..quads : i - 1 \in Nat /\ (i - 1 < chars <=> i <= chars)
    OBVIOUS
  <1>2. \A k \in Nat : Standard(in, k) \in S
    OBVIOUS
  <1>3. Nul \in S
    OBVIOUS
  <1> HIDE DEF S
  <1>4. u \in Seq(S) /\ Len(u) = quads /\ \A i \in 1..quads : u[i] = Standard(in, i - 1)
    BY <1>1, <1>2 DEF Characters
  <1>5. \A i \in 1..quads : Standard(in, i - 1) = IF i <= chars THEN code(i) ELSE Pad
    BY <1>1, Zenon DEF Standard
  <1> HIDE DEF u, code
  <1>6. \A i \in 1..quads : text[i] = IF i <= chars THEN code(i) ELSE Pad
    OBVIOUS
  <1>7. text[quads + 1] = Nul
    OBVIOUS
  <1>8. text \in Seq(S) /\ Len(text) = quads + 1
    <2> DEFINE n == quads + 1
               e == [i \in 1..n |-> text[i]]
    <2>1. \A i \in 1..n : i \in 1..quads \/ i = n
      OBVIOUS
    <2>2. n \in Nat /\ text = e
      OBVIOUS
    <2> HIDE DEF n, text
    <2>3. \A i \in 1..quads : text[i] \in S
      <3> SUFFICES ASSUME NEW i \in 1..quads PROVE text[i] \in S
        OBVIOUS
      <3>1. text[i] = Standard(in, i - 1)
        BY <1>5, <1>6, Zenon
      <3> QED
        BY <3>1, <1>1, <1>2
    <2>4. \A i \in 1..n : text[i] \in S
      BY <2>1, <2>3, <1>3, <1>7 DEF n
    <2>5. e \in Seq(S) /\ Len(e) = n
      BY <2>2, <2>4
    <2> HIDE DEF e
    <2> QED
      BY <2>2, <2>5 DEF n
  <1> HIDE DEF text
  <1>9. /\ z \in Seq(S) /\ Len(z) = quads + 1 /\ z[quads + 1] = Nul
        /\ \A i \in 1..quads : z[i] = u[i]
    BY <1>3, <1>4, AppendProperties
  <1> HIDE DEF z
  <1>10. \A i \in 1..(quads + 1) : z[i] = text[i]
    <2> SUFFICES ASSUME NEW i \in 1..(quads + 1) PROVE z[i] = text[i]
      OBVIOUS
    <2>1. CASE i = quads + 1
      BY <2>1, <1>7, <1>9
    <2>2. CASE i # quads + 1
      <3>1. i \in 1..quads
        BY <2>2
      <3> QED
        BY <3>1, <1>4, <1>5, <1>6, <1>9, Zenon
    <2> QED
      BY <2>1, <2>2
  <1>11. z = text
    <2>1. Len(z) = Len(text) /\ \A i \in 1..Len(z) : z[i] = text[i]
      BY <1>8, <1>9, <1>10
    <2> QED
      BY <2>1, <1>8, <1>9, SeqEqual
  <1> QED
    BY <1>11 DEF z, u, text, code, Base64Text

\* What is printed is base64, for every input, and a buffer that is too small is told the
\* length that does.
THEOREM EncodesBase64 == Spec => []Base64IsStandard
  <1>1. Chosen => Base64IsStandard
    <2> SUFFICES ASSUME Chosen, input.k = "base64"
                 PROVE  Base64IsStandard
      BY DEF Base64IsStandard
    <2> DEFINE in     == input.in
               outlen == input.outlen
               r      == base64_encode(in, outlen)
               l      == Len(in)
               g      == GroupCount(in)
               bits   == 8 * l
               chars  == (bits + 5) \div 6
               quads  == 4 * ((chars + 3) \div 4)
               text   == [i \in 1..(quads + 1) |->
                             IF i <= chars THEN base64_table[SixBits(in, i - 1)]
                             ELSE IF i <= quads THEN Pad ELSE Nul]
    <2>1. input \in Inputs
      BY DEF Chosen
    <2>2. in \in Seq(Byte) /\ outlen \in Int
      BY <2>1, InputsAssumption
    <2>3. l \in Nat
      BY <2>2, LenProperties
    <2>4. g \in Nat /\ chars \in Nat /\ quads = 4 * g /\ chars <= quads
      BY <2>3, Lengths DEF GroupCount
    <2>5. l = 32 => quads = 44
      OBVIOUS
    <2>6. /\ r.ret = IF outlen < 4 * g + 1 THEN 0 ELSE 1
          /\ r.outlen = 4 * g + 1
          /\ r.ret = 1 => r.out = Append(Characters(in, 4 * g), Nul)
      BY <2>2, EncodeReturns
    <2>7. Append(Characters(in, quads), Nul) = text
      <3>1. chars = (8 * Len(in) + 5) \div 6
        OBVIOUS
      <3> HIDE DEF l, g, in, chars, quads
      <3>2. quads \in Nat /\ chars \in Nat /\ chars <= quads /\ in \in Seq(Byte)
        BY <2>2, <2>4
      <3>3. Append(Characters(in, quads), Nul) = Base64Text(in, chars, quads)
        BY <3>1, <3>2, CharactersAndNul, Zenon
      <3> QED
        BY <3>3 DEF Base64Text
    <2> HIDE DEF r, g, chars, quads, text, l
    <2>8. r.ret = (IF outlen > quads THEN 1 ELSE 0)
      BY <2>2, <2>4, <2>6
    <2>9. r.outlen = quads + 1
      BY <2>4, <2>6
    <2>10. r.ret = 1 => r.out = text
      BY <2>4, <2>6, <2>7
    <2>11. l = 32 /\ outlen = 64 => r.ret = 1 /\ r.outlen < 64
      BY <2>5, <2>8, <2>9
    <2> QED
      BY <2>8, <2>9, <2>10, <2>11 DEF Base64IsStandard, r, chars, quads, text, l
  <1> QED
    BY <1>1, InputIsChosen, PTL

-----------------------------------------------------------------------------
(* The verification of a quote *)

\* The lines of the list, and those that are not skipped.
Lines == [alg : STRING, what : STRING]
Hashed == {e \in Lines : e.alg = "sha256"}

\* The equation of what iterate_ima_entries has collected after each of n lines.
Collects(log, n, f) ==
    f = [i \in 0..n |-> IF i = 0 THEN <<>>
                        ELSE IF log[i].alg = "sha256" THEN Append(f[i - 1], log[i]) ELSE f[i - 1]]

\* It starts with nothing and takes line by line.
LEMMA CollectsLines ==
  ASSUME NEW log, NEW n \in Nat, NEW f, Collects(log, n, f)
  PROVE  /\ f[0] = <<>>
         /\ \A k \in Nat : k < n => f[k + 1] = IF log[k + 1].alg = "sha256"
                                               THEN Append(f[k], log[k + 1]) ELSE f[k]
  <1>1. \A i \in 0..n : f[i] = IF i = 0 THEN <<>>
                               ELSE IF log[i].alg = "sha256" THEN Append(f[i - 1], log[i])
                               ELSE f[i - 1]
    BY DEF Collects
  <1>2. 0 \in 0..n
    OBVIOUS
  <1>3. f[0] = <<>>
    BY <1>1, <1>2, Zenon
  <1>4. ASSUME NEW k \in Nat, k < n
        PROVE  f[k + 1] = IF log[k + 1].alg = "sha256" THEN Append(f[k], log[k + 1]) ELSE f[k]
    <2> DEFINE i == k + 1
    <2>1. i \in 0..n /\ i # 0 /\ i - 1 = k
      BY <1>4
    <2> HIDE DEF i
    <2>2. f[i] = IF log[i].alg = "sha256" THEN Append(f[k], log[i]) ELSE f[k]
      BY <2>1, <1>1, Zenon
    <2> QED
      BY <2>2 DEF i
  <1> QED
    BY <1>3, <1>4

\* For any number of lines there is what is collected.
LEMMA CollectsSome ==
  ASSUME NEW log
  PROVE  \A n \in Nat : \E f : Collects(log, n, f)
  <1> DEFINE S == {n \in Nat : \E f : Collects(log, n, f)}
  <1>1. 0 \in S
    <2> DEFINE f == [i \in 0..0 |-> <<>>]
    <2>1. f = [i \in 0..0 |-> IF i = 0 THEN <<>>
                              ELSE IF log[i].alg = "sha256" THEN Append(f[i - 1], log[i])
                              ELSE f[i - 1]]
      <3>1. \A i \in 0..0 : i = 0
        OBVIOUS
      <3> QED
        BY <3>1, Zenon
    <2> HIDE DEF f
    <2>2. Collects(log, 0, f)
      BY <2>1 DEF Collects
    <2> QED
      BY <2>2
  <1>2. ASSUME NEW n \in Nat, n \in S PROVE n + 1 \in S
    <2>1. PICK f : Collects(log, n, f)
      BY <1>2
    <2> DEFINE m == n + 1
               step(x, i) == IF log[i].alg = "sha256" THEN Append(x, log[i]) ELSE x
               g == [i \in 0..m |-> IF i = m THEN step(f[n], m) ELSE f[i]]
    <2>2. m \in Nat /\ m # 0 /\ m \in 0..m /\ m - 1 = n /\ n # m /\ n \in 0..m
      OBVIOUS
    <2>3. ASSUME NEW i \in 0..m, i # m
          PROVE  i \in 0..n /\ (i # 0 => i - 1 \in 0..m /\ i - 1 # m)
      BY <2>3
    <2> HIDE DEF m
    <2>4. \A i \in 0..n : f[i] = IF i = 0 THEN <<>> ELSE step(f[i - 1], i)
      BY <2>1 DEF Collects
    <2> HIDE DEF step
    <2>5. ASSUME NEW i \in 0..m
          PROVE  g[i] = IF i = 0 THEN <<>> ELSE step(g[i - 1], i)
      <3>1. CASE i = m
        <4>1. g[m] = step(f[n], m) /\ g[n] = f[n]
          BY <2>2
        <4> QED
          BY <4>1, <3>1, <2>2
      <3>2. CASE i # m
        <4>1. g[i] = f[i] /\ (i # 0 => g[i - 1] = f[i - 1])
          BY <2>3, <3>2
        <4> HIDE DEF g
        <4> QED
          BY <4>1, <2>3, <2>4, <3>2
      <3> QED
        BY <3>1, <3>2
    <2>6. g = [i \in 0..m |-> IF i = 0 THEN <<>> ELSE step(g[i - 1], i)]
      BY <2>5
    <2> HIDE DEF g
    <2>7. Collects(log, m, g)
      BY <2>6 DEF Collects, step
    <2> QED
      BY <2>2, <2>7 DEF m
  <1> HIDE DEF S
  <1>3. Nat \subseteq S
    BY <1>1, <1>2, NatSet
  <1> QED
    BY <1>3 DEF S

\* It depends on the lines collected from only.
LEMMA CollectsSame ==
  ASSUME NEW log, NEW n \in Nat, NEW f, Collects(log, n, f),
         NEW other, NEW m \in Nat, NEW g, Collects(other, m, g),
         NEW k \in Nat, k <= n, k <= m, \A i \in 1..k : log[i] = other[i]
  PROVE  f[k] = g[k]
  <1> DEFINE S == {j \in Nat : j <= k => f[j] = g[j]}
  <1>1. 0 \in S
    <2>1. f[0] = <<>> /\ g[0] = <<>>
      BY CollectsLines
    <2> QED
      BY <2>1
  <1>2. ASSUME NEW j \in Nat, j \in S PROVE j + 1 \in S
    <2> SUFFICES ASSUME j + 1 <= k PROVE f[j + 1] = g[j + 1]
      OBVIOUS
    <2>1. j < n /\ j < m /\ j + 1 \in 1..k /\ j <= k
      OBVIOUS
    <2>2. f[j] = g[j]
      BY <1>2, <2>1
    <2> DEFINE i == j + 1
    <2>3. f[i] = IF log[i].alg = "sha256" THEN Append(f[j], log[i]) ELSE f[j]
      BY <2>1, CollectsLines
    <2>4. g[i] = IF other[i].alg = "sha256" THEN Append(g[j], other[i]) ELSE g[j]
      BY <2>1, CollectsLines
    <2>5. log[i] = other[i]
      BY <2>1
    <2> HIDE DEF i
    <2>6. f[i] = g[i]
      BY <2>2, <2>3, <2>4, <2>5
    <2> QED
      BY <2>6 DEF i
  <1> HIDE DEF S
  <1>3. Nat \subseteq S
    BY <1>1, <1>2, NatSet
  <1>4. k \in S
    BY <1>3
  <1> QED
    BY <1>4 DEF S

\* What is collected from a list: the entries of each of its beginnings.
LEMMA EntriesAre ==
  ASSUME NEW log \in Seq(Lines), NEW f, Collects(log, Len(log), f)
  PROVE  /\ iterate_ima_entries(log) = f[Len(log)]
         /\ \A k \in 0..Len(log) : iterate_ima_entries(SubSeq(log, 1, k)) = f[k]
  <1>1. Len(log) \in Nat
    BY LenProperties
  <1>2. ASSUME NEW s, NEW k \in Nat, k <= Len(log), Len(s) = k, \A i \in 1..k : log[i] = s[i]
        PROVE  iterate_ima_entries(s) = f[k]
    <2> DEFINE g == CHOOSE h : Collects(s, Len(s), h)
    <2>1. iterate_ima_entries(s) = g[Len(s)]
      BY Zenon DEF iterate_ima_entries, Collects
    <2>2. \E h : Collects(s, Len(s), h)
      BY <1>2, CollectsSome
    <2>3. Collects(s, Len(s), g)
      BY <2>2, Zenon
    <2> HIDE DEF g
    <2>4. Collects(s, k, g)
      BY <2>3, <1>2
    <2>5. k <= k
      OBVIOUS
    <2>6. f[k] = g[k]
      BY <2>4, <2>5, <1>1, <1>2, CollectsSame
    <2> QED
      BY <2>1, <2>6, <1>2
  <1>3. iterate_ima_entries(log) = f[Len(log)]
    <2>1. Len(log) <= Len(log)
      BY <1>1
    <2> QED
      BY <2>1, <1>1, <1>2
  <1>4. ASSUME NEW k \in 0..Len(log)
        PROVE  iterate_ima_entries(SubSeq(log, 1, k)) = f[k]
    <2> DEFINE s == SubSeq(log, 0 + 1, 0 + k)
    <2>1. k \in Nat /\ k <= Len(log) /\ 0 + k = k /\ 0 + 1 = 1 /\ 0 \in Nat
      BY <1>1
    <2>2. Len(s) = k /\ \A i \in 1..k : s[i] = log[0 + i]
      BY <2>1, Stretch
    <2>3. \A i \in 1..k : 0 + i = i
      OBVIOUS
    <2>4. s = SubSeq(log, 1, k)
      BY <2>1
    <2> HIDE DEF s
    <2>5. iterate_ima_entries(s) = f[k]
      BY <2>1, <2>2, <2>3, <1>2
    <2> QED
      BY <2>4, <2>5
  <1> QED
    BY <1>3, <1>4

\* What is collected, step by step: sha256 lines, one more for each.
LEMMA Collected ==
  ASSUME NEW log \in Seq(Lines), NEW f, Collects(log, Len(log), f)
  PROVE  /\ \A k \in 0..Len(log) : f[k] \in Seq(Hashed)
         /\ \A k \in Nat : k < Len(log) =>
              IF log[k + 1].alg = "sha256"
              THEN /\ Len(f[k + 1]) = Len(f[k]) + 1 /\ f[k + 1][Len(f[k]) + 1] = log[k + 1]
                   /\ \A i \in 1..Len(f[k]) : f[k + 1][i] = f[k][i]
              ELSE f[k + 1] = f[k]
  <1>1. Len(log) \in Nat
    BY LenProperties
  <1>2. f[0] = <<>>
    BY <1>1, CollectsLines
  <1>3. ASSUME NEW k \in Nat, k < Len(log), f[k] \in Seq(Hashed)
        PROVE  /\ f[k + 1] \in Seq(Hashed)
               /\ IF log[k + 1].alg = "sha256"
                  THEN /\ Len(f[k + 1]) = Len(f[k]) + 1 /\ f[k + 1][Len(f[k]) + 1] = log[k + 1]
                       /\ \A i \in 1..Len(f[k]) : f[k + 1][i] = f[k][i]
                  ELSE f[k + 1] = f[k]
    <2> DEFINE e == log[k + 1]
               u == f[k]
               v == f[k + 1]
    <2>1. v = IF e.alg = "sha256" THEN Append(u, e) ELSE u
      BY <1>1, <1>3, CollectsLines
    <2>2. e \in Lines
      <3>1. k + 1 \in 1..Len(log)
        BY <1>1, <1>3
      <3> QED
        BY <3>1, ElementOfSeq
    <2>3. u \in Seq(Hashed)
      BY <1>3
    <2> HIDE DEF e, u, v
    <2>4. CASE e.alg = "sha256"
      <3>1. e \in Hashed
        BY <2>2, <2>4 DEF Hashed
      <3>2. v = Append(u, e)
        BY <2>1, <2>4
      <3>3. /\ v \in Seq(Hashed) /\ Len(v) = Len(u) + 1 /\ v[Len(u) + 1] = e
            /\ \A i \in 1..Len(u) : v[i] = u[i]
        BY <2>3, <3>1, <3>2, AppendProperties
      <3> QED
        BY <3>3, <2>4 DEF e, u, v
    <2>5. CASE ~(e.alg = "sha256")
      BY <2>1, <2>3, <2>5 DEF e, u, v
    <2> QED
      BY <2>4, <2>5
  <1> DEFINE S == {k \in Nat : k <= Len(log) => f[k] \in Seq(Hashed)}
  <1>4. 0 \in S
    <2>1. f[0] \in Seq(Hashed)
      BY <1>2, EmptySeq
    <2> QED
      BY <2>1
  <1>5. ASSUME NEW k \in Nat, k \in S PROVE k + 1 \in S
    <2> SUFFICES ASSUME k + 1 <= Len(log) PROVE f[k + 1] \in Seq(Hashed)
      OBVIOUS
    <2>1. k < Len(log) /\ k <= Len(log)
      BY <1>1
    <2> QED
      BY <2>1, <1>3, <1>5
  <1> HIDE DEF S
  <1>6. Nat \subseteq S
    BY <1>4, <1>5, NatSet
  <1>7. \A k \in Nat : k <= Len(log) => f[k] \in Seq(Hashed)
    BY <1>6 DEF S
  <1>8. \A k \in 0..Len(log) : f[k] \in Seq(Hashed)
    BY <1>1, <1>7
  <1>9. ASSUME NEW k \in Nat, k < Len(log)
        PROVE  k <= Len(log)
    BY <1>1, <1>9
  <1> QED
    BY <1>3, <1>7, <1>8, <1>9

\* What is collected later starts with what is collected before.
LEMMA ListGrows ==
  ASSUME NEW log \in Seq(Lines), NEW f, Collects(log, Len(log), f),
         NEW k \in Nat, NEW m \in Nat, k <= m, m <= Len(log)
  PROVE  Len(f[k]) <= Len(f[m]) /\ \A i \in 1..Len(f[k]) : f[m][i] = f[k][i]
  <1>1. Len(log) \in Nat
    BY LenProperties
  <1>2. \A j \in Nat : j <= Len(log) => Len(f[j]) \in Nat
    <2> SUFFICES ASSUME NEW j \in Nat, j <= Len(log) PROVE Len(f[j]) \in Nat
      OBVIOUS
    <2>1. f[j] \in Seq(Hashed)
      BY <1>1, Collected
    <2> QED
      BY <2>1, LenProperties
  <1>3. k <= Len(log)
    BY <1>1
  <1> DEFINE l == Len(f[k])
             S == {d \in Nat : k + d <= Len(log) =>
                     l <= Len(f[k + d]) /\ \A i \in 1..l : f[k + d][i] = f[k][i]}
  <1>4. l \in Nat
    BY <1>2, <1>3
  <1> HIDE DEF l
  <1>5. 0 \in S
    <2>1. k + 0 = k
      OBVIOUS
    <2> QED
      BY <2>1, <1>4 DEF l
  <1>6. ASSUME NEW d \in Nat, d \in S PROVE d + 1 \in S
    <2> DEFINE j == k + d
    <2>1. j \in Nat /\ k + (d + 1) = j + 1
      OBVIOUS
    <2> SUFFICES ASSUME j + 1 <= Len(log)
                 PROVE  l <= Len(f[j + 1]) /\ \A i \in 1..l : f[j + 1][i] = f[k][i]
      BY <2>1
    <2>2. j < Len(log) /\ j <= Len(log)
      BY <1>1, <2>1
    <2>3. l <= Len(f[j]) /\ \A i \in 1..l : f[j][i] = f[k][i]
      BY <1>6, <2>2
    <2> HIDE DEF j
    <2>4. Len(f[j]) \in Nat
      BY <1>2, <2>1, <2>2
    <2>5. \A i \in 1..l : i \in 1..Len(f[j])
      BY <1>4, <2>3, <2>4
    <2>6. CASE log[j + 1].alg = "sha256"
      <3>1. /\ Len(f[j + 1]) = Len(f[j]) + 1
            /\ \A i \in 1..Len(f[j]) : f[j + 1][i] = f[j][i]
        BY <2>1, <2>2, <2>6, Collected
      <3>2. l <= Len(f[j + 1])
        BY <3>1, <1>4, <2>3, <2>4
      <3> QED
        BY <3>1, <3>2, <2>3, <2>5
    <2>7. CASE ~(log[j + 1].alg = "sha256")
      <3>1. f[j + 1] = f[j]
        BY <2>1, <2>2, <2>7, Collected
      <3> QED
        BY <3>1, <2>3
    <2> QED
      BY <2>6, <2>7
  <1> HIDE DEF S
  <1>7. Nat \subseteq S
    BY <1>5, <1>6, NatSet
  <1>8. m - k \in S
    BY <1>7
  <1>9. k + (m - k) = m
    OBVIOUS
  <1> QED
    BY <1>8, <1>9 DEF S, l

\* Of lines that are all sha256 all are collected.
LEMMA CollectsAll ==
  ASSUME NEW log \in Seq(Lines), NEW f, Collects(log, Len(log), f),
         NEW q \in Nat, q <= Len(log), \A i \in 1..q : log[i].alg = "sha256"
  PROVE  Len(f[q]) = q /\ \A i \in 1..q : f[q][i] = log[i]
  <1>1. Len(log) \in Nat
    BY LenProperties
  <1> DEFINE S == {k \in Nat : k <= q => Len(f[k]) = k /\ \A i \in 1..k : f[k][i] = log[i]}
  <1>2. 0 \in S
    <2>1. f[0] = <<>>
      BY <1>1, CollectsLines
    <2> QED
      BY <2>1
  <1>3. ASSUME NEW k \in Nat, k \in S PROVE k + 1 \in S
    <2> DEFINE m == k + 1
    <2> SUFFICES ASSUME m <= q
                 PROVE  Len(f[m]) = m /\ \A i \in 1..m : f[m][i] = log[i]
      OBVIOUS
    <2>1. k < Len(log) /\ k <= q /\ m \in 1..q
      BY <1>1
    <2>2. Len(f[k]) = k /\ \A i \in 1..k : f[k][i] = log[i]
      BY <1>3, <2>1
    <2>3. log[m].alg = "sha256"
      BY <2>1
    <2>4. Len(f[m]) = k + 1 /\ f[m][k + 1] = log[m] /\ \A i \in 1..k : f[m][i] = f[k][i]
      BY <2>1, <2>2, <2>3, Collected
    <2>5. \A i \in 1..m : i \in 1..k \/ i = k + 1
      OBVIOUS
    <2> QED
      BY <2>2, <2>4, <2>5
  <1> HIDE DEF S
  <1>4. Nat \subseteq S
    BY <1>2, <1>3, NatSet
  <1>5. q \in S /\ q <= q
    BY <1>4
  <1> QED
    BY <1>5 DEF S

\* A recomputed PCR, from what is collected.
LEMMA Recomputes ==
  ASSUME NEW log \in Seq(Lines), NEW f, Collects(log, Len(log), f), NEW k \in 0..Len(log)
  PROVE  recompute_pcr10(SubSeq(log, 1, k))
           = [i \in 1..Len(f[k]) |-> compute_template_hash(f[k][i])]
  <1>1. iterate_ima_entries(SubSeq(log, 1, k)) = f[k]
    BY EntriesAre
  <1>2. f[k] \in Seq(Hashed)
    BY Collected
  <1>3. DOMAIN f[k] = 1..Len(f[k])
    BY <1>2, LenProperties
  <1> QED
    BY <1>1, <1>3, Zenon DEF recompute_pcr10

\* The PCR of a quote, from the lines it covers.
LEMMA KernelPcr ==
  ASSUME NEW log \in Seq(Lines), NEW q \in Nat, q <= Len(log)
  PROVE  KernelExtends(SubSeq(log, 1, q)) = [i \in 1..q |-> compute_template_hash(log[i])]
  <1> DEFINE s == SubSeq(log, 0 + 1, 0 + q)
  <1>1. 0 + q = q /\ 0 + 1 = 1 /\ 0 \in Nat /\ \A i \in 1..q : 0 + i = i
    OBVIOUS
  <1>2. s \in Seq(Lines) /\ Len(s) = q /\ \A i \in 1..q : s[i] = log[0 + i]
    BY <1>1, Stretch
  <1>3. s = SubSeq(log, 1, q)
    BY <1>1
  <1> HIDE DEF s
  <1>4. DOMAIN s = 1..q /\ \A i \in 1..q : s[i] = log[i]
    BY <1>1, <1>2, LenProperties
  <1>5. KernelExtends(s) = [i \in 1..q |-> compute_template_hash(log[i])]
    BY <1>4 DEF KernelExtends, compute_template_hash
  <1> QED
    BY <1>3, <1>5

\* Lines that are all sha256 are collected as they are.
LEMMA HashedStay ==
  ASSUME NEW e \in Seq(Hashed)
  PROVE  iterate_ima_entries(e) = e
  <1> DEFINE l == Len(e)
  <1>1. e \in Seq(Lines) /\ l \in Nat
    BY LenProperties DEF Hashed
  <1>2. \A i \in 1..l : e[i].alg = "sha256"
    <2> SUFFICES ASSUME NEW i \in 1..l PROVE e[i].alg = "sha256"
      OBVIOUS
    <2>1. e[i] \in Hashed
      BY ElementOfSeq
    <2> QED
      BY <2>1 DEF Hashed
  <1>3. PICK f : Collects(e, l, f)
    BY <1>1, CollectsSome
  <1>4. l <= l /\ l \in 0..l
    BY <1>1
  <1>5. Len(f[l]) = l /\ \A i \in 1..l : f[l][i] = e[i]
    BY <1>1, <1>2, <1>3, <1>4, CollectsAll
  <1>6. f[l] \in Seq(Hashed)
    BY <1>1, <1>3, <1>4, Collected
  <1>7. f[l] = e
    BY <1>5, <1>6, SeqEqual
  <1> QED
    BY <1>1, <1>3, <1>7, EntriesAre

\* A recomputed PCR is the quoted one exactly if it is made of the same template hashes.
LEMMA SamePcr ==
  ASSUME NEW a, NEW b, NEW n \in Nat, NEW q \in Nat,
         [i \in 1..n |-> compute_template_hash(a[i])] = [i \in 1..q |-> compute_template_hash(b[i])]
  PROVE  n = q /\ \A i \in 1..q : compute_template_hash(a[i]) = compute_template_hash(b[i])
  <1> DEFINE x == [i \in 1..n |-> compute_template_hash(a[i])]
             y == [i \in 1..q |-> compute_template_hash(b[i])]
  <1>1. x = y /\ DOMAIN x = 1..n /\ DOMAIN y = 1..q
    BY Zenon
  <1>2. \A i \in 1..n : x[i] = compute_template_hash(a[i])
    OBVIOUS
  <1>3. \A i \in 1..q : y[i] = compute_template_hash(b[i])
    OBVIOUS
  <1> HIDE DEF x, y
  <1>4. 1..n = 1..q
    BY <1>1
  <1>5. n = q
    <2>1. n # 0 => n \in 1..n
      OBVIOUS
    <2>2. q # 0 => q \in 1..q
      OBVIOUS
    <2>3. n <= q
      BY <1>4, <2>1
    <2>4. q <= n
      BY <1>4, <2>2
    <2> QED
      BY <2>3, <2>4
  <1> QED
    BY <1>1, <1>2, <1>3, <1>5

\* The list verifies if it is sha256 as far as the quote goes, and then only skipped lines
\* are covered besides.
LEMMA Covers ==
  ASSUME NEW log \in Seq(Lines), NEW q \in 1..Len(log), \A i \in 1..q : log[i].alg = "sha256"
  PROVE  LET pcr     == KernelExtends(SubSeq(log, 1, q))
             covered == host_verify(log, pcr)
         IN  /\ covered # 0 /\ covered >= q
             /\ \A i \in (q + 1)..covered : i \in DOMAIN log /\ log[i].alg # "sha256"
             /\ simulate_pcr10_until_match(log, pcr) = q
  <1> DEFINE pcr == KernelExtends(SubSeq(log, 1, q))
             l   == Len(log)
             matches == {k \in 0..(l - 1) : recompute_pcr10(SubSeq(log, 1, l - k)) = pcr}
             least == Min(matches)
             c == l - least
  <1>1. l \in Nat /\ q \in Nat /\ q <= l /\ q # 0 /\ q <= q /\ l \in 0..l /\ l <= l
    BY LenProperties
  <1>2. PICK f : Collects(log, l, f)
    BY <1>1, CollectsSome
  <1>3. pcr = [i \in 1..q |-> compute_template_hash(log[i])]
    BY <1>1, KernelPcr
  <1>4. \A k \in 0..l : recompute_pcr10(SubSeq(log, 1, k))
                          = [i \in 1..Len(f[k]) |-> compute_template_hash(f[k][i])]
    BY <1>2, Recomputes
  <1>5. Len(f[q]) = q /\ \A i \in 1..q : f[q][i] = log[i]
    BY <1>1, <1>2, CollectsAll
  <1>6. \A k \in 0..l : f[k] \in Seq(Hashed) /\ Len(f[k]) \in Nat
    BY <1>2, Collected, LenProperties
  <1>7. recompute_pcr10(SubSeq(log, 1, q)) = pcr
    <2>1. [i \in 1..q |-> compute_template_hash(f[q][i])]
            = [i \in 1..q |-> compute_template_hash(log[i])]
      BY <1>5
    <2>2. q \in 0..l
      BY <1>1
    <2> QED
      BY <1>3, <1>4, <1>5, <2>1, <2>2, Zenon
  <1>8. l - q \in matches
    <2>1. l - q \in 0..(l - 1) /\ l - (l - q) = q
      BY <1>1
    <2> QED
      BY <2>1, <1>7
  <1>9. matches \in SUBSET Nat
    BY <1>1
  <1>10. host_verify(log, pcr) = IF matches = {} THEN 0 ELSE c
    BY Zenon DEF host_verify
  <1> HIDE DEF pcr, l
  <1>11. /\ least \in 0..(l - 1) /\ recompute_pcr10(SubSeq(log, 1, c)) = pcr
         /\ \A j \in matches : least <= j
    <2>1. least \in matches /\ \A j \in matches : least <= j
      BY <1>8, <1>9, LeastNat
    <2> QED
      BY <2>1
  <1>12. host_verify(log, pcr) = c
    BY <1>8, <1>10
  <1> HIDE DEF matches, least
  <1>13. c \in Nat /\ c <= l /\ q <= c /\ c # 0
    BY <1>1, <1>8, <1>11
  <1> HIDE DEF c
  <1>14. c \in 0..l /\ c \in 1..l
    BY <1>1, <1>13
  <1>15. Len(f[c]) = q
    <2> DEFINE u == f[c]
               n == Len(u)
    <2>1. [i \in 1..n |-> compute_template_hash(u[i])]
            = [i \in 1..q |-> compute_template_hash(log[i])]
      BY <1>3, <1>4, <1>11, <1>14
    <2>2. n \in Nat
      BY <1>6, <1>14
    <2> HIDE DEF n, u
    <2>3. n = q
      BY <1>1, <2>1, <2>2, SamePcr
    <2> QED
      BY <2>3 DEF n, u
  <1>16. ASSUME NEW i \in (q + 1)..c
         PROVE  i \in DOMAIN log /\ log[i].alg # "sha256"
    <2> DEFINE k == i - 1
    <2>1. k \in Nat /\ k < l /\ q <= k /\ k <= l /\ i = k + 1 /\ i \in Nat /\ i <= c /\ i \in 1..l
      BY <1>1, <1>13
    <2> HIDE DEF k
    <2>2. i \in DOMAIN log
      BY <2>1, LenProperties DEF l
    <2>3. SUFFICES ASSUME log[i].alg = "sha256" PROVE FALSE
      BY <2>2
    <2>4. Len(f[i]) = Len(f[k]) + 1
      BY <1>2, <2>1, <2>3, Collected DEF l
    <2>5. Len(f[q]) <= Len(f[k])
      BY <1>1, <1>2, <2>1, ListGrows DEF l
    <2>6. Len(f[i]) <= Len(f[c])
      BY <1>2, <1>13, <2>1, ListGrows DEF l
    <2>7. Len(f[k]) \in Nat
      BY <1>6, <2>1
    <2> QED
      BY <1>1, <1>5, <1>15, <2>4, <2>5, <2>6, <2>7
  <1>17. simulate_pcr10_until_match(log, pcr) = q
    <2> DEFINE e  == f[l]
               ms == {i \in DOMAIN e : recompute_pcr10(SubSeq(e, 1, i)) = pcr}
    <2>1. simulate_pcr10_until_match(log, pcr) = IF ms = {} THEN 0 ELSE Min(ms)
      <3>1. iterate_ima_entries(log) = e
        BY <1>2, EntriesAre DEF l
      <3> HIDE DEF e
      <3> QED
        BY <3>1, Zenon DEF simulate_pcr10_until_match
    <2>2. e \in Seq(Hashed) /\ Len(e) \in Nat
      BY <1>1, <1>6
    <2>3. q <= Len(e) /\ \A i \in 1..q : e[i] = log[i]
      BY <1>1, <1>2, <1>5, ListGrows DEF l
    <2> HIDE DEF e
    <2>4. DOMAIN e = 1..Len(e)
      BY <2>2, LenProperties
    <2>5. ASSUME NEW i \in 1..Len(e)
          PROVE  recompute_pcr10(SubSeq(e, 1, i)) = [j \in 1..i |-> compute_template_hash(e[j])]
      <3> DEFINE s == SubSeq(e, 0 + 1, 0 + i)
      <3>1. i \in Nat /\ 0 + i <= Len(e) /\ 0 + i = i /\ 0 + 1 = 1 /\ 0 \in Nat
            /\ \A j \in 1..i : 0 + j = j
        BY <2>2
      <3>2. s \in Seq(Hashed) /\ Len(s) = i /\ \A j \in 1..i : s[j] = e[0 + j]
        BY <2>2, <3>1, Stretch
      <3>3. s = SubSeq(e, 1, i)
        BY <3>1
      <3> HIDE DEF s
      <3>4. iterate_ima_entries(s) = s /\ DOMAIN s = 1..i
        BY <3>2, HashedStay, LenProperties
      <3>5. recompute_pcr10(s) = [j \in 1..i |-> compute_template_hash(s[j])]
        BY <3>4, Zenon DEF recompute_pcr10
      <3>6. [j \in 1..i |-> compute_template_hash(s[j])]
              = [j \in 1..i |-> compute_template_hash(e[j])]
        BY <3>1, <3>2
      <3> QED
        BY <3>3, <3>5, <3>6, Zenon
    <2>6. q \in ms
      <3>1. q \in 1..Len(e)
        BY <1>1, <2>2, <2>3
      <3>2. [j \in 1..q |-> compute_template_hash(e[j])] = pcr
        BY <1>3, <2>3
      <3> QED
        BY <2>4, <2>5, <3>1, <3>2
    <2>7. ASSUME NEW i \in ms PROVE i = q
      <3>1. i \in 1..Len(e) /\ recompute_pcr10(SubSeq(e, 1, i)) = pcr
        BY <2>4
      <3>2. i \in Nat
        BY <3>1
      <3>3. [j \in 1..i |-> compute_template_hash(e[j])]
              = [j \in 1..q |-> compute_template_hash(log[j])]
        BY <1>3, <2>5, <3>1
      <3> QED
        BY <1>1, <3>2, <3>3, SamePcr
    <2> HIDE DEF ms
    <2>8. ms \in SUBSET Nat /\ \A j \in ms : q <= j
      BY <1>1, <2>7
    <2>9. Min(ms) = q
      BY <2>6, <2>8, LeastIs
    <2> QED
      BY <2>1, <2>6, <2>9
  <1> QED
    BY <1>12, <1>13, <1>16, <1>17 DEF pcr

\* A list that has a line which is not sha256 among the quoted ones does not verify.
LEMMA CoversNothing ==
  ASSUME NEW log \in Seq(Lines), NEW q \in 1..Len(log),
         NEW j \in 1..q, log[j].alg \notin {"sha256", "none"}, log[j].what # "zero"
  PROVE  host_verify(log, KernelExtends(SubSeq(log, 1, q))) = 0
  <1> DEFINE pcr == KernelExtends(SubSeq(log, 1, q))
             l   == Len(log)
             matches == {k \in 0..(l - 1) : recompute_pcr10(SubSeq(log, 1, l - k)) = pcr}
  <1>1. l \in Nat /\ q \in Nat /\ q <= l
    BY LenProperties
  <1>2. PICK f : Collects(log, l, f)
    BY <1>1, CollectsSome
  <1>3. pcr = [i \in 1..q |-> compute_template_hash(log[i])]
    BY <1>1, KernelPcr
  <1>4. \A k \in 0..l : recompute_pcr10(SubSeq(log, 1, k))
                          = [i \in 1..Len(f[k]) |-> compute_template_hash(f[k][i])]
    BY <1>2, Recomputes
  <1> HIDE DEF pcr
  <1>5. ASSUME NEW k \in 0..(l - 1), recompute_pcr10(SubSeq(log, 1, l - k)) = pcr
        PROVE  FALSE
    <2> DEFINE m == l - k
               u == f[m]
               n == Len(u)
    <2>1. m \in 0..l
      BY <1>1
    <2>2. u \in Seq(Hashed) /\ n \in Nat
      BY <1>2, <2>1, Collected, LenProperties
    <2>3. [i \in 1..n |-> compute_template_hash(u[i])]
            = [i \in 1..q |-> compute_template_hash(log[i])]
      BY <1>3, <1>4, <1>5, <2>1
    <2> HIDE DEF n, u
    <2>4. n = q /\ compute_template_hash(u[j]) = compute_template_hash(log[j])
      BY <1>1, <2>2, <2>3, SamePcr
    <2>5. u[j] \in Hashed
      BY <2>2, <2>4, ElementOfSeq DEF n
    <2>6. compute_template_hash(log[j]) = log[j]
      BY DEF compute_template_hash
    <2>7. compute_template_hash(u[j]) = AllOnes \/ compute_template_hash(u[j]) = u[j]
      BY DEF compute_template_hash
    <2>8. AllOnes.alg = "none" /\ u[j].alg = "sha256"
      BY <2>5 DEF AllOnes, Line, Hashed
    <2> QED
      BY <2>4, <2>6, <2>7, <2>8
  <1>6. matches = {}
    BY <1>5
  <1> HIDE DEF l
  <1>7. host_verify(log, pcr) = IF matches = {} THEN 0 ELSE l - Min(matches)
    BY Zenon DEF host_verify, l
  <1> QED
    BY <1>6, <1>7 DEF pcr

\* For every list and every quote of its beginning the verifier accepts exactly what is
\* sha256, however far the list has grown, and reports what the quote covers.
THEOREM QuotesAreCovered == Spec => []VerifierCoversQuote
  <1>1. Chosen => VerifierCoversQuote
    <2> SUFFICES ASSUME Chosen, input.k = "quote"
                 PROVE  VerifierCoversQuote
      BY DEF VerifierCoversQuote
    <2> DEFINE log     == input.log
               q       == input.quoted
               pcr     == KernelExtends(SubSeq(log, 1, q))
               covered == host_verify(log, pcr)
               skipped == {i \in DOMAIN log : log[i].alg # "sha256"}
    <2>1. input \in Inputs
      BY DEF Chosen
    <2>2. /\ log \in Seq(Lines) /\ q \in 1..Len(log)
          /\ \A j \in 1..Len(log) :
               log[j].alg # "none" /\ (log[j].what = "zero" => log[j].alg = "sha256")
      BY <2>1, InputsAssumption DEF Lines
    <2>3. VerifierCoversQuote <=>
            /\ (covered # 0) = (skipped \cap 1..q = {})
            /\ covered # 0 =>
                 /\ covered >= q /\ (q + 1)..covered \subseteq skipped
                 /\ simulate_pcr10_until_match(log, pcr) = q
      BY Zenon DEF VerifierCoversQuote
    <2> HIDE DEF log, q
    <2>4. DOMAIN log = 1..Len(log) /\ \A j \in 1..q : j \in 1..Len(log)
      BY <2>2, LenProperties
    <2>5. CASE skipped \cap 1..q = {}
      <3>1. \A i \in 1..q : log[i].alg = "sha256"
        BY <2>4, <2>5
      <3>2. /\ covered # 0 /\ covered >= q
            /\ \A i \in (q + 1)..covered : i \in DOMAIN log /\ log[i].alg # "sha256"
            /\ simulate_pcr10_until_match(log, pcr) = q
        BY <2>2, <3>1, Covers
      <3> HIDE DEF covered, pcr
      <3>3. (q + 1)..covered \subseteq skipped
        BY <3>2
      <3> HIDE DEF skipped
      <3> QED
        BY <2>3, <2>5, <3>2, <3>3
    <2>6. CASE skipped \cap 1..q # {}
      <3>1. PICK j \in 1..q : log[j].alg # "sha256"
        BY <2>6
      <3>2. log[j].alg \notin {"sha256", "none"} /\ log[j].what # "zero"
        BY <2>2, <2>4, <3>1
      <3>3. covered = 0
        BY <2>2, <3>2, CoversNothing
      <3> HIDE DEF covered, skipped
      <3> QED
        BY <2>3, <2>6, <3>3
    <2> QED
      BY <2>5, <2>6
  <1> QED
    BY <1>1, InputIsChosen, PTL

-----------------------------------------------------------------------------
(* Tuples put together *)

\* A tuple with an element in front of it.
LEMMA InFront ==
  ASSUME NEW S, NEW x \in S, NEW s \in Seq(S), NEW t \in Seq(S),
         Len(t) = Len(s) + 1, t[1] = x, \A i \in 1..Len(s) : t[i + 1] = s[i]
  PROVE  <<x>> \o s = t
  <1> DEFINE a == <<x>>
             d == a \o s
  <1>1. a \in Seq(S) /\ Len(a) = 1 /\ a[1] = x
    OBVIOUS
  <1> HIDE DEF a
  <1>2. /\ d \in Seq(S) /\ Len(d) = 1 + Len(s) /\ Len(s) \in Nat
        /\ \A i \in 1..(1 + Len(s)) : d[i] = IF i <= 1 THEN a[i] ELSE s[i - 1]
    <2>1. /\ d \in Seq(S) /\ Len(d) = Len(a) + Len(s)
          /\ \A i \in 1..(Len(a) + Len(s)) : d[i] = IF i <= Len(a) THEN a[i] ELSE s[i - Len(a)]
      BY <1>1, ConcatProperties
    <2> HIDE DEF d
    <2> QED
      BY <1>1, <2>1, LenProperties
  <1> HIDE DEF d
  <1>3. ASSUME NEW i \in 1..Len(d)
        PROVE  d[i] = t[i]
    <2>1. CASE i = 1
      BY <1>1, <1>2, <2>1
    <2>2. CASE i # 1
      <3>1. i - 1 \in 1..Len(s) /\ (i - 1) + 1 = i /\ ~(i <= 1) /\ i \in 1..(1 + Len(s))
        BY <1>2, <2>2
      <3>2. d[i] = s[i - 1]
        BY <1>2, <3>1
      <3>3. t[(i - 1) + 1] = s[i - 1]
        BY <3>1
      <3> QED
        BY <3>1, <3>2, <3>3
    <2> QED
      BY <2>1, <2>2
  <1>4. d = t
    BY <1>2, <1>3, SeqEqual
  <1> QED
    BY <1>4 DEF d, a

\* A tuple with an element behind it.
LEMMA Behind ==
  ASSUME NEW S, NEW x \in S, NEW s \in Seq(S), NEW t \in Seq(S),
         Len(t) = Len(s) + 1, t[Len(s) + 1] = x, \A i \in 1..Len(s) : t[i] = s[i]
  PROVE  s \o <<x>> = t
  <1> DEFINE a == <<x>>
             d == s \o a
  <1>1. a \in Seq(S) /\ Len(a) = 1 /\ a[1] = x
    OBVIOUS
  <1> HIDE DEF a
  <1>2. /\ d \in Seq(S) /\ Len(d) = Len(s) + 1 /\ Len(s) \in Nat
        /\ \A i \in 1..(Len(s) + 1) : d[i] = IF i <= Len(s) THEN s[i] ELSE a[i - Len(s)]
    <2>1. /\ d \in Seq(S) /\ Len(d) = Len(s) + Len(a)
          /\ \A i \in 1..(Len(s) + Len(a)) : d[i] = IF i <= Len(s) THEN s[i] ELSE a[i - Len(s)]
      BY <1>1, ConcatProperties
    <2> HIDE DEF d
    <2> QED
      BY <1>1, <2>1, LenProperties
  <1> HIDE DEF d
  <1>3. ASSUME NEW i \in 1..Len(d)
        PROVE  d[i] = t[i]
    <2>1. CASE i = Len(s) + 1
      <3>1. ~(i <= Len(s)) /\ i - Len(s) = 1 /\ i \in 1..(Len(s) + 1)
        BY <1>2, <2>1
      <3> QED
        BY <1>1, <1>2, <2>1, <3>1
    <2>2. CASE i # Len(s) + 1
      <3>1. i \in 1..Len(s) /\ i <= Len(s) /\ i \in 1..(Len(s) + 1)
        BY <1>2, <2>2
      <3> QED
        BY <1>2, <3>1
    <2> QED
      BY <2>1, <2>2
  <1>4. d = t
    BY <1>2, <1>3, SeqEqual
  <1> QED
    BY <1>4 DEF d, a

\* The tuples of a message.
LEMMA OneAndTwo ==
  ASSUME NEW a, NEW b, NEW c
  PROVE  <<a>> \o <<b, c>> = <<a, b, c>>
  <1> DEFINE S == {a, b, c}
             s == <<b, c>>
             t == <<a, b, c>>
  <1>1. a \in S /\ s \in Seq(S) /\ t \in Seq(S)
    OBVIOUS
  <1>2. Len(s) = 2 /\ Len(t) = 2 + 1 /\ t[1] = a
    OBVIOUS
  <1>3. \A i \in 1..2 : t[i + 1] = s[i]
    OBVIOUS
  <1> HIDE DEF S, s, t
  <1>4. Len(t) = Len(s) + 1 /\ \A i \in 1..Len(s) : t[i + 1] = s[i]
    BY <1>2, <1>3
  <1>5. <<a>> \o s = t
    BY <1>1, <1>2, <1>4, InFront, Zenon
  <1> QED
    BY <1>5 DEF s, t

LEMMA OneAndFour ==
  ASSUME NEW a, NEW b, NEW c, NEW d, NEW e
  PROVE  <<a>> \o <<b, c, d, e>> = <<a, b, c, d, e>>
  <1> DEFINE S == {a, b, c, d, e}
             s == <<b, c, d, e>>
             t == <<a, b, c, d, e>>
  <1>1. a \in S /\ s \in Seq(S) /\ t \in Seq(S)
    OBVIOUS
  <1>2. Len(s) = 4 /\ Len(t) = 4 + 1 /\ t[1] = a
    OBVIOUS
  <1>3. \A i \in 1..4 : t[i + 1] = s[i]
    OBVIOUS
  <1> HIDE DEF S, s, t
  <1>4. Len(t) = Len(s) + 1 /\ \A i \in 1..Len(s) : t[i + 1] = s[i]
    BY <1>2, <1>3
  <1>5. <<a>> \o s = t
    BY <1>1, <1>2, <1>4, InFront, Zenon
  <1> QED
    BY <1>5 DEF s, t

LEMMA OneAndFive ==
  ASSUME NEW a, NEW b, NEW c, NEW d, NEW e, NEW f
  PROVE  <<a>> \o <<b, c, d, e, f>> = <<a, b, c, d, e, f>>
  <1> DEFINE S == {a, b, c, d, e, f}
             s == <<b, c, d, e, f>>
             t == <<a, b, c, d, e, f>>
  <1>1. a \in S /\ s \in Seq(S) /\ t \in Seq(S)
    OBVIOUS
  <1>2. Len(s) = 5 /\ Len(t) = 5 + 1 /\ t[1] = a
    OBVIOUS
  <1>3. \A i \in 1..5 : t[i + 1] = s[i]
    OBVIOUS
  <1> HIDE DEF S, s, t
  <1>4. Len(t) = Len(s) + 1 /\ \A i \in 1..Len(s) : t[i + 1] = s[i]
    BY <1>2, <1>3
  <1>5. <<a>> \o s = t
    BY <1>1, <1>2, <1>4, InFront, Zenon
  <1> QED
    BY <1>5 DEF s, t

LEMMA TwoAndOne ==
  ASSUME NEW a, NEW b, NEW c
  PROVE  <<a, b>> \o <<c>> = <<a, b, c>>
  <1> DEFINE S == {a, b, c}
             s == <<a, b>>
             t == <<a, b, c>>
  <1>1. c \in S /\ s \in Seq(S) /\ t \in Seq(S)
    OBVIOUS
  <1>2. Len(s) = 2 /\ Len(t) = 2 + 1 /\ t[2 + 1] = c
    OBVIOUS
  <1>3. \A i \in 1..2 : t[i] = s[i]
    OBVIOUS
  <1> HIDE DEF S, s, t
  <1>4. Len(t) = Len(s) + 1 /\ t[Len(s) + 1] = c /\ \A i \in 1..Len(s) : t[i] = s[i]
    BY <1>2, <1>3
  <1>5. s \o <<c>> = t
    BY <1>1, <1>4, Behind, Zenon
  <1> QED
    BY <1>5 DEF s, t

LEMMA ThreeAndOne ==
  ASSUME NEW a, NEW b, NEW c, NEW d
  PROVE  <<a, b, c>> \o <<d>> = <<a, b, c, d>>
  <1> DEFINE S == {a, b, c, d}
             s == <<a, b, c>>
             t == <<a, b, c, d>>
  <1>1. d \in S /\ s \in Seq(S) /\ t \in Seq(S)
    OBVIOUS
  <1>2. Len(s) = 3 /\ Len(t) = 3 + 1 /\ t[3 + 1] = d
    OBVIOUS
  <1>3. \A i \in 1..3 : t[i] = s[i]
    OBVIOUS
  <1> HIDE DEF S, s, t
  <1>4. Len(t) = Len(s) + 1 /\ t[Len(s) + 1] = d /\ \A i \in 1..Len(s) : t[i] = s[i]
    BY <1>2, <1>3
  <1>5. s \o <<d>> = t
    BY <1>1, <1>4, Behind, Zenon
  <1> QED
    BY <1>5 DEF s, t

\* The context string of a signature.
Ten == <<83, 105, 103, 110, 97, 116, 117, 114, 101, 49>>

LEMMA TenOfEleven ==
  SubSeq(<<83, 105, 103, 110, 97, 116, 117, 114, 101, 49, 0>>, 1, 10) = Ten
  <1> DEFINE S == 0..255
             z == <<83, 105, 103, 110, 97, 116, 117, 114, 101, 49, 0>>
             s == SubSeq(z, 1, 10)
  <1>1. Ten \in Seq(S) /\ Len(Ten) = 10 /\ \A i \in 1..10 : z[i] \in S /\ Ten[i] = z[i]
    BY DEF Ten
  <1> HIDE DEF z, S
  <1>2. /\ s \in Seq(S) /\ Len(s) = 10
        /\ \A i \in 1..10 : s[i] = z[1 + i - 1]
    <2>1. 1 \in Int /\ 10 \in Int /\ 10 - 1 + 1 = 10 /\ 1 <= 10
      OBVIOUS
    <2> QED
      BY <1>1, <2>1, SubSeqProperties
  <1>3. \A i \in 1..10 : 1 + i - 1 = i
    OBVIOUS
  <1> HIDE DEF s
  <1>4. \A i \in 1..Len(s) : s[i] = Ten[i]
    BY <1>1, <1>2, <1>3
  <1>5. s = Ten
    BY <1>1, <1>2, <1>4, SeqEqual
  <1> QED
    BY <1>5 DEF s, z

-----------------------------------------------------------------------------
(* The claims *)

\* The characters of a C string.
LEMMA CStringText ==
  ASSUME NEW sz, CString(sz)
  PROVE  /\ UsefulBuf_FromSZ(sz) \in Seq(Byte) /\ Len(sz) \in Nat \ {0}
         /\ Len(UsefulBuf_FromSZ(sz)) = Len(sz) - 1
         /\ UsefulBuf_FromSZ(sz) = SubSeq(sz, 1, Len(sz) - 1)
  <1> DEFINE S == {j \in DOMAIN sz : sz[j] = 0}
             n == Len(sz)
  <1>1. sz \in Seq(Byte) /\ S = {n} /\ n \in Nat /\ DOMAIN sz = 1..n
    BY LenProperties DEF CString
  <1>2. n \in DOMAIN sz
    BY <1>1
  <1>3. n >= 1
    BY <1>1, <1>2
  <1>4. Min(S) = n
    <2> HIDE DEF S, n
    <2>1. S \in SUBSET Nat /\ n \in S /\ \A j \in S : n <= j
      BY <1>1
    <2> QED
      BY <2>1, LeastIs
  <1>5. UsefulBuf_FromSZ(sz) = SubSeq(sz, 1, n - 1)
    BY <1>4 DEF UsefulBuf_FromSZ
  <1> HIDE DEF S, n
  <1>6. SubSeq(sz, 1, n - 1) \in Seq(Byte) /\ Len(SubSeq(sz, 1, n - 1)) = n - 1
    <2>1. 1 \in Int /\ n - 1 \in Int /\ \A i \in 1..(n - 1) : i \in 1..n
      BY <1>1
    <2>2. \A i \in 1..(n - 1) : sz[i] \in Byte
      BY <1>1, <2>1, ElementOfSeq DEF n
    <2> QED
      BY <1>1, <1>3, <2>1, <2>2, SubSeqProperties DEF n
  <1> QED
    BY <1>1, <1>3, <1>5, <1>6 DEF n

\* Fewer items and levels fit as well.
LEMMA LeftLess ==
  ASSUME NEW c, Good(c), NEW k \in Nat, NEW l \in Nat, Left(c, k, l),
         NEW j \in Nat, NEW i \in Nat, j <= k, i <= l
  PROVE  Left(c, j, i)
  <1>1. Current(c).count \in Nat /\ Len(c.nesting) \in Nat
    BY GoodFields, LimitsAssumption DEF Levels, CountRange
  <1> DEFINE a == Current(c).count
             b == Len(c.nesting)
  <1>2. ASSUME ~c.out.err
        PROVE  a + j < MAX_ITEMS_IN_ARRAY /\ b + i <= MAX_ARRAY_NESTING + 1
    <2>1. a + k < MAX_ITEMS_IN_ARRAY /\ b + l <= MAX_ARRAY_NESTING + 1
      BY <1>2, Zenon DEF Left
    <2>2. a \in Nat /\ b \in Nat
      BY <1>1
    <2> HIDE DEF a, b
    <2> QED
      BY <2>1, <2>2, LimitsAssumption
  <1> QED
    BY <1>2 DEF Left

\* Nothing costs nothing.
LEMMA NothingMade ==
  ASSUME NEW c, Sound(c)
  PROVE  Made(c, c, << >>, 0, 0)
  <1>1. Fair(c) /\ Good(c)
    BY DEF Sound, Fair
  <1>2. Len(c.out.data) \in Nat /\ c.out.cap \in Nat /\ Len(c.out.data) <= c.out.cap
    BY <1>1, GoodFields
  <1>3. Costs(c, c, 0)
    <2> DEFINE a == Len(c.out.data)
               b == c.out.cap
    <2>1. a \in Nat /\ b \in Nat /\ a <= b
      BY <1>2
    <2> HIDE DEF a, b
    <2>2. a + 0 = a /\ ~(a + 0 > b)
      BY <2>1
    <2> QED
      BY <2>2 DEF Costs, a, b
  <1> QED
    BY <1>1, <1>3, NothingWrites DEF Made

\* An item behind other items.
LEMMA ItemAdded ==
  ASSUME NEW c, Sound(c), NEW T, NEW j \in Nat, NEW n \in Nat, NEW d, Made(c, d, T, j, n),
         NEW i, i = j + 1, Left(c, i, 0), NEW e, NEW U, NEW m \in Nat,
         Sound(d) /\ Left(d, 1, 0) => Made(d, e, U, 1, m), NEW s, s = n + m
  PROVE  Made(c, e, T \o U, i, s)
  <1>1. Left(d, 1, 0) /\ Sound(d)
    BY LeftAfter DEF Made
  <1> QED
    BY <1>1, MadeTwice

\* A label.
LEMMA LabelMade ==
  ASSUME NEW c, Sound(c), Left(c, 1, 0), NEW lab \in Nat, FitsBytes(lab, 4)
  PROVE  Made(c, AddLabel(c, NLabel(lab)), <<Int_(lab)>>, 1, HeadLen(lab))
  <1>1. AddLabel(c, NLabel(lab)) = QCBOREncode_AddInt64(c, lab)
    BY DEF AddLabel, NLabel
  <1>2. lab \in Int /\ lab = IF lab < 0 THEN -(lab + 1) ELSE lab
    OBVIOUS
  <1> QED
    BY <1>1, <1>2, IntMade

\* A label and what is behind it.
LEMMA EntryMade ==
  ASSUME NEW c, Sound(c), Left(c, 2, 0), NEW lab \in Nat, FitsBytes(lab, 4), NEW e, NEW U, NEW m \in Nat,
         LET l == AddLabel(c, NLabel(lab)) IN Sound(l) /\ Left(l, 1, 0) => Made(l, e, U, 1, m)
  PROVE  Made(c, e, <<Int_(lab)>> \o U, 2, HeadLen(lab) + m)
  <1> DEFINE l == AddLabel(c, NLabel(lab))
  <1>1. Left(c, 1, 0)
    BY LeftLess DEF Sound, Fair
  <1>2. Made(c, l, <<Int_(lab)>>, 1, HeadLen(lab)) /\ HeadLen(lab) \in Nat
    BY <1>1, LabelMade, HeadCosts
  <1>3. Sound(l) /\ Left(l, 1, 0) => Made(l, e, U, 1, m)
    OBVIOUS
  <1> HIDE DEF l
  <1>4. 2 = 1 + 1
    OBVIOUS
  <1> QED
    BY <1>2, <1>3, <1>4, ItemAdded

\* Entries of a map: a text, bytes or a number with its label.
LEMMA TextEntry ==
  ASSUME NEW c, Sound(c), Left(c, 2, 0), NEW lab \in Nat, FitsBytes(lab, 4), NEW sz, CString(sz),
         FitsBytes(Len(sz) - 1, 4), NEW s, s = HeadLen(lab) + StringLen(Len(sz) - 1)
  PROVE  Made(c, AddSZString(c, NLabel(lab), sz), <<Int_(lab), Text_(UsefulBuf_FromSZ(sz))>>, 2, s)
  <1> DEFINE l == AddLabel(c, NLabel(lab))
             b == UsefulBuf_FromSZ(sz)
             e == AddSZString(c, NLabel(lab), sz)
             U == <<Token(TEXT_STRING, Len(b), b)>>
             m == StringLen(Len(sz) - 1)
  <1>1. b \in Seq(Byte) /\ Len(b) = Len(sz) - 1 /\ Len(b) \in Nat
    BY CStringText
  <1>2. e = QCBOREncode_AddBuffer(l, TEXT_STRING, b)
    BY DEF AddSZString, AddText
  <1>3. U = <<Text_(b)>>
    BY DEF TEXT_STRING, Text_
  <1>4. m \in Nat /\ m = StringLen(Len(b))
    <2>1. HeadLen(Len(b)) \in Nat
      BY <1>1, HeadCosts
    <2> QED
      BY <1>1, <2>1 DEF StringLen
  <1> HIDE DEF e, b, m, l, U
  <1>5. Sound(l) /\ Left(l, 1, 0) => Made(l, e, U, 1, m)
    <2> SUFFICES ASSUME Sound(l), Left(l, 1, 0) PROVE Made(l, e, U, 1, m)
      OBVIOUS
    <2>1. Made(l, QCBOREncode_AddBuffer(l, TEXT_STRING, b), <<Token(TEXT_STRING, Len(b), b)>>, 1, StringLen(Len(b)))
      BY <1>1, StringMade
    <2> QED
      BY <1>2, <1>4, <2>1 DEF U
  <1>6. Made(c, e, <<Int_(lab)>> \o U, 2, HeadLen(lab) + m)
    BY <1>4, <1>5, EntryMade DEF l
  <1>7. <<Int_(lab)>> \o <<Text_(b)>> = <<Int_(lab), Text_(b)>>
    BY OneAndOne
  <1> QED
    BY <1>3, <1>6, <1>7 DEF e, b, m

LEMMA BytesEntry ==
  ASSUME NEW c, Sound(c), Left(c, 2, 0), NEW lab \in Nat, FitsBytes(lab, 4), NEW b \in Seq(Byte),
         FitsBytes(Len(b), 4), NEW s, s = HeadLen(lab) + StringLen(Len(b))
  PROVE  Made(c, AddBytes(c, NLabel(lab), b), <<Int_(lab), Bytes_(b)>>, 2, s)
  <1> DEFINE l == AddLabel(c, NLabel(lab))
             e == AddBytes(c, NLabel(lab), b)
             U == <<Token(BYTE_STRING, Len(b), b)>>
             m == StringLen(Len(b))
  <1>1. e = QCBOREncode_AddBuffer(l, BYTE_STRING, b)
    BY DEF AddBytes
  <1>2. U = <<Bytes_(b)>>
    BY DEF BYTE_STRING, Bytes_
  <1>3. m \in Nat
    <2>1. Len(b) \in Nat /\ HeadLen(Len(b)) \in Nat
      BY LenProperties, HeadCosts
    <2> QED
      BY <2>1 DEF StringLen
  <1> HIDE DEF e, m, l, U
  <1>4. Sound(l) /\ Left(l, 1, 0) => Made(l, e, U, 1, m)
    <2> SUFFICES ASSUME Sound(l), Left(l, 1, 0) PROVE Made(l, e, U, 1, m)
      OBVIOUS
    <2>1. Made(l, QCBOREncode_AddBuffer(l, BYTE_STRING, b), <<Token(BYTE_STRING, Len(b), b)>>, 1, StringLen(Len(b)))
      BY StringMade
    <2> QED
      BY <1>1, <2>1 DEF U, m
  <1>5. Made(c, e, <<Int_(lab)>> \o U, 2, HeadLen(lab) + m)
    BY <1>3, <1>4, EntryMade DEF l
  <1>6. <<Int_(lab)>> \o <<Bytes_(b)>> = <<Int_(lab), Bytes_(b)>>
    BY OneAndOne
  <1> QED
    BY <1>2, <1>5, <1>6 DEF e, m

LEMMA IntEntry ==
  ASSUME NEW c, Sound(c), Left(c, 2, 0), NEW lab \in Nat, FitsBytes(lab, 4), NEW v \in Int,
         NEW n, n = (IF v < 0 THEN -(v + 1) ELSE v), FitsBytes(n, 4), NEW s, s = HeadLen(lab) + HeadLen(n)
  PROVE  Made(c, AddInt64(c, NLabel(lab), v), <<Int_(lab), Int_(v)>>, 2, s)
  <1> DEFINE l == AddLabel(c, NLabel(lab))
             e == AddInt64(c, NLabel(lab), v)
             U == <<Int_(v)>>
             m == HeadLen(n)
  <1>1. e = QCBOREncode_AddInt64(l, v)
    BY DEF AddInt64
  <1>2. m \in Nat
    BY DEF HeadLen
  <1> HIDE DEF e, m, l, U
  <1>3. Sound(l) /\ Left(l, 1, 0) => Made(l, e, U, 1, m)
    <2> SUFFICES ASSUME Sound(l), Left(l, 1, 0) PROVE Made(l, e, U, 1, m)
      OBVIOUS
    <2>1. Made(l, QCBOREncode_AddInt64(l, v), <<Int_(v)>>, 1, HeadLen(n))
      BY IntMade
    <2> QED
      BY <1>1, <2>1 DEF U, m
  <1>4. Made(c, e, <<Int_(lab)>> \o U, 2, HeadLen(lab) + m)
    BY <1>2, <1>3, EntryMade DEF l
  <1>5. <<Int_(lab)>> \o <<Int_(v)>> = <<Int_(lab), Int_(v)>>
    BY OneAndOne
  <1> QED
    BY <1>4, <1>5 DEF e, m, U

\* An entry behind other entries.
LEMMA EntryAdded ==
  ASSUME NEW c, Sound(c), NEW T, NEW j \in Nat, NEW n \in Nat, NEW d, Made(c, d, T, j, n),
         NEW i, i = j + 2, Left(c, i, 0), NEW e, NEW U, NEW m \in Nat,
         Sound(d) /\ Left(d, 2, 0) => Made(d, e, U, 2, m), NEW s, s = n + m
  PROVE  Made(c, e, T \o U, i, s)
  <1>1. Left(d, 2, 0) /\ Sound(d)
    BY LeftAfter DEF Made
  <1> QED
    BY <1>1, MadeTwice

\* The lengths that do not vary.
LEMMA SmallLens ==
  /\ HeadLen(1) = 1 /\ HeadLen(2) = 1 /\ HeadLen(3) = 1 /\ HeadLen(4) = 1 /\ HeadLen(5) = 1 /\ HeadLen(7) = 1
  /\ FitsBytes(1, 4) /\ FitsBytes(2, 4) /\ FitsBytes(3, 4) /\ FitsBytes(4, 4) /\ FitsBytes(5, 4) /\ FitsBytes(7, 4)
  BY SMT DEF HeadLen, FitsBytes

LEMMA StringLens ==
  /\ StringLen(4) = 5 /\ StringLen(24) = 26 /\ StringLen(32) = 34 /\ StringLen(33) = 35
  /\ FitsBytes(4, 4) /\ FitsBytes(24, 4) /\ FitsBytes(32, 4) /\ FitsBytes(33, 4)
  BY SMT DEF StringLen, HeadLen, FitsBytes

\* A component as far as its measurement.
LEMMA ComponentStarts ==
  ASSUME NEW c, Sound(c), Left(c, 1, 1), NEW p, IsComponent(p)
  PROVE  LET o      == OpenMap(c, NoLabel)
             typed  == AddSZString(o, NLabel(PSA_SW_COMPONENT_MEASUREMENT_TYPE), p.type)
             valued == AddBytes(typed, NLabel(PSA_SW_COMPONENT_MEASUREMENT_VALUE), p.value)
         IN  /\ o = QCBOREncode_OpenMapOrArray(c, MAP)
             /\ Sound(o) /\ Left(o, 4, 0) /\ Left(o, 6, 0) /\ Left(o, 8, 0)
             /\ Made(o, valued, <<Int_(1), Text_(UsefulBuf_FromSZ(p.type))>> \o <<Int_(2), Bytes_(p.value)>>, 4, 41)
  <1> DEFINE o      == OpenMap(c, NoLabel)
             typed  == AddSZString(o, NLabel(1), p.type)
             valued == AddBytes(typed, NLabel(2), p.value)
             P1     == <<Int_(1), Text_(UsefulBuf_FromSZ(p.type))>>
             P2     == <<Int_(2), Bytes_(p.value)>>
  <1>1. o = QCBOREncode_OpenMapOrArray(c, MAP)
    BY DEF OpenMap, AddLabel, NoLabel
  <1>2. Sound(o) /\ \A k \in Nat : k < MAX_ITEMS_IN_ARRAY => Left(o, k, 0)
    <2>1. MAP \in Nat /\ 0 \in Nat /\ 0 + 1 = 1
      BY DEF MAP
    <2>2. Left(c, 1, 0 + 1)
      BY <2>1
    <2> QED
      BY <1>1, <2>1, <2>2, OpenSound
  <1>3. Left(o, 2, 0) /\ Left(o, 4, 0) /\ Left(o, 6, 0) /\ Left(o, 8, 0)
    <2>1. 2 < MAX_ITEMS_IN_ARRAY /\ 4 < MAX_ITEMS_IN_ARRAY /\ 6 < MAX_ITEMS_IN_ARRAY /\ 8 < MAX_ITEMS_IN_ARRAY
      BY RoomAssumption, LimitsAssumption
    <2> HIDE DEF o
    <2> QED
      BY <1>2, <2>1
  <1> HIDE DEF o
  <1>4. Made(o, typed, P1, 2, 6)
    <2>1. CString(p.type) /\ Len(p.type) - 1 = 4
      BY DEF IsComponent
    <2>2. 6 = HeadLen(1) + StringLen(Len(p.type) - 1)
      <3>1. StringLen(Len(p.type) - 1) = StringLen(4)
        BY <2>1
      <3>2. StringLen(Len(p.type) - 1) = 5 /\ HeadLen(1) = 1
        BY <3>1, SmallLens, StringLens
      <3> QED
        BY <3>2, SMT
    <2>3. 1 \in Nat /\ FitsBytes(1, 4) /\ FitsBytes(Len(p.type) - 1, 4)
      BY <2>1, SmallLens
    <2> QED
      BY <1>2, <1>3, <2>1, <2>2, <2>3, TextEntry
  <1> HIDE DEF typed
  <1>5. Sound(typed) /\ Left(typed, 2, 0) => Made(typed, valued, P2, 2, 35)
    <2> SUFFICES ASSUME Sound(typed), Left(typed, 2, 0) PROVE Made(typed, valued, P2, 2, 35)
      OBVIOUS
    <2>1. p.value \in Seq(Byte) /\ Len(p.value) = 32
      BY DEF IsComponent
    <2>2. 35 = HeadLen(2) + StringLen(Len(p.value))
      BY <2>1, SmallLens, StringLens, SMT
    <2>3. 2 \in Nat /\ FitsBytes(2, 4) /\ FitsBytes(Len(p.value), 4)
      BY <2>1, SmallLens, StringLens
    <2> QED
      BY <2>1, <2>2, <2>3, BytesEntry
  <1> HIDE DEF valued, P1, P2
  <1>6. Made(o, valued, P1 \o P2, 4, 41)
    <2>1. 2 \in Nat /\ 6 \in Nat /\ 35 \in Nat /\ 4 = 2 + 2 /\ 41 = 6 + 35
      OBVIOUS
    <2> QED
      BY <1>2, <1>3, <1>4, <1>5, <2>1, EntryAdded
  <1> QED
    BY <1>1, <1>2, <1>3, <1>6
       DEF o, typed, valued, P1, P2, PSA_SW_COMPONENT_MEASUREMENT_TYPE, PSA_SW_COMPONENT_MEASUREMENT_VALUE

\* A component from its signer on.
LEMMA ComponentEnds ==
  ASSUME NEW c, Sound(c), Left(c, 1, 1), NEW p, IsComponent(p),
         NEW o, o = QCBOREncode_OpenMapOrArray(c, MAP), Sound(o),
         NEW T, NEW k \in {4, 6}, NEW n \in Nat, NEW d, Made(o, d, T, k, n), Left(o, k + 2, 0)
  PROVE  Made(c, CloseMap(AddBytes(d, NLabel(PSA_SW_COMPONENT_SIGNER_ID), p.signer)),
              <<Map_(IF k = 4 THEN 3 ELSE 4)>> \o (T \o <<Int_(5), Bytes_(p.signer)>>), 1, n + 36)
  <1> DEFINE e == AddBytes(d, NLabel(5), p.signer)
             U == <<Int_(5), Bytes_(p.signer)>>
             h == IF k = 4 THEN 3 ELSE 4
             i == k + 2
  <1>1. Sound(d) /\ Left(d, 2, 0) => Made(d, e, U, 2, 35)
    <2> SUFFICES ASSUME Sound(d), Left(d, 2, 0) PROVE Made(d, e, U, 2, 35)
      OBVIOUS
    <2>1. p.signer \in Seq(Byte) /\ Len(p.signer) = 32
      BY DEF IsComponent
    <2>2. 35 = HeadLen(5) + StringLen(Len(p.signer))
      BY <2>1, SmallLens, StringLens, SMT
    <2>3. 5 \in Nat /\ FitsBytes(5, 4) /\ FitsBytes(Len(p.signer), 4)
      BY <2>1, SmallLens, StringLens
    <2> QED
      BY <2>1, <2>2, <2>3, BytesEntry
  <1> HIDE DEF e, U
  <1>2. k \in Nat /\ i \in Nat /\ i \div 2 = h /\ h \in {3, 4} /\ 35 \in Nat /\ n + 35 = n + 35
    OBVIOUS
  <1>3. Made(o, e, T \o U, i, n + 35)
    BY <1>1, <1>2, EntryAdded
  <1> HIDE DEF h, i
  <1>4. FitsBytes(h, 4) /\ HeadLen(h) = 1
    BY <1>2, SmallLens
  <1>5. MAP \in {ARRAY, MAP} /\ 0 + 1 = 1 /\ n + 35 \in Nat /\ h = (IF MAP = MAP THEN i \div 2 ELSE i)
    BY <1>2
  <1>6. Left(c, 1, 0 + 1)
    BY <1>5
  <1>7. Made(c, QCBOREncode_CloseMapOrArray(e, MAP), <<Token(MAP, h, << >>)>> \o (T \o U), 1, HeadLen(h) + (n + 35))
    <2>1. Made(QCBOREncode_OpenMapOrArray(c, MAP), e, T \o U, i, n + 35)
      BY <1>3
    <2> DEFINE m == n + 35
               V == T \o U
    <2>2. Made(QCBOREncode_OpenMapOrArray(c, MAP), e, V, i, m) /\ m \in Nat
      BY <1>5, <2>1
    <2> HIDE DEF m, V
    <2>3. Made(c, QCBOREncode_CloseMapOrArray(e, MAP), <<Token(MAP, h, << >>)>> \o V, 1, HeadLen(h) + m)
      BY <1>2, <1>4, <1>5, <1>6, <2>2, LevelMade
    <2> QED
      BY <2>3 DEF m, V
  <1>8. HeadLen(h) + (n + 35) = n + 36
    BY <1>4
  <1>9. Token(MAP, h, << >>) = Map_(h)
    BY DEF MAP, Map_
  <1> QED
    BY <1>7, <1>8, <1>9 DEF CloseMap, PSA_SW_COMPONENT_SIGNER_ID, e, U, h

\* A component without a version.
LEMMA PlainComponent ==
  ASSUME NEW c, Sound(c), Left(c, 1, 1), NEW p, IsComponent(p), p.version.null = TRUE
  PROVE  Made(c, AddComponent(c, p), ComponentDoc(p), 1, ComponentLen)
  <1> DEFINE o      == OpenMap(c, NoLabel)
             typed  == AddSZString(o, NLabel(PSA_SW_COMPONENT_MEASUREMENT_TYPE), p.type)
             valued == AddBytes(typed, NLabel(PSA_SW_COMPONENT_MEASUREMENT_VALUE), p.value)
             T      == <<Int_(1), Text_(UsefulBuf_FromSZ(p.type))>> \o <<Int_(2), Bytes_(p.value)>>
             e      == CloseMap(AddBytes(valued, NLabel(PSA_SW_COMPONENT_SIGNER_ID), p.signer))
  <1>1. AddComponent(c, p) = e
    BY DEF AddComponent
  <1>2. ComponentDoc(p) = <<Map_(3)>> \o ((T \o << >>) \o <<Int_(5), Bytes_(p.signer)>>)
    BY DEF ComponentDoc
  <1>3. /\ o = QCBOREncode_OpenMapOrArray(c, MAP) /\ Sound(o) /\ Left(o, 6, 0)
        /\ Made(o, valued, T, 4, 41)
    BY ComponentStarts
  <1> HIDE DEF o, T
  <1>4. Sound(valued)
    BY <1>3 DEF Made
  <1> DEFINE d == valued
  <1> HIDE DEF typed, valued
  <1>5. Made(o, valued, T \o << >>, 4 + 0, 41 + 0)
    <2>1. Made(valued, valued, << >>, 0, 0)
      BY <1>4, NothingMade
    <2>2. 4 \in Nat /\ 0 \in Nat /\ 41 \in Nat
      OBVIOUS
    <2> QED
      BY <1>3, <2>1, <2>2, MadeTwice
  <1>6. /\ 4 + 0 = 4 /\ 41 + 0 = 41 /\ 4 + 2 = 6 /\ 41 + 36 = ComponentLen /\ 4 \in {4, 6}
        /\ 4 \in Nat /\ 0 \in Nat /\ 41 \in Nat /\ (IF 4 = 4 THEN 3 ELSE 4) = 3
    BY StringLens, SMT DEF ComponentLen
  <1>7. Made(o, valued, T \o << >>, 4, 41)
    BY <1>5, <1>6
  <1> DEFINE V == T \o << >>
  <1>8. Made(o, valued, V, 4, 41)
    BY <1>7
  <1> HIDE DEF V
  <1>9. Made(c, CloseMap(AddBytes(valued, NLabel(PSA_SW_COMPONENT_SIGNER_ID), p.signer)),
             <<Map_(IF 4 = 4 THEN 3 ELSE 4)>> \o (V \o <<Int_(5), Bytes_(p.signer)>>), 1, 41 + 36)
    <2>1. Left(o, 4 + 2, 0)
      BY <1>3, <1>6
    <2> QED
      BY <1>3, <1>6, <1>8, <2>1, ComponentEnds
  <1> QED
    BY <1>1, <1>2, <1>6, <1>9 DEF V

\* A component with one.
LEMMA DatedComponent ==
  ASSUME NEW c, Sound(c), Left(c, 1, 1), NEW p, IsComponent(p), p.version.null = FALSE,
         NEW v, v = p.version.bytes, CString(v), FitsBytes(Len(v) - 1, 4)
  PROVE  Made(c, AddComponent(c, p), ComponentDoc(p), 1, ComponentLen + (1 + StringLen(Len(v) - 1)))
  <1> DEFINE o      == OpenMap(c, NoLabel)
             typed  == AddSZString(o, NLabel(PSA_SW_COMPONENT_MEASUREMENT_TYPE), p.type)
             valued == AddBytes(typed, NLabel(PSA_SW_COMPONENT_MEASUREMENT_VALUE), p.value)
             dated  == AddSZString(valued, NLabel(PSA_SW_COMPONENT_VERSION), v)
             T      == <<Int_(1), Text_(UsefulBuf_FromSZ(p.type))>> \o <<Int_(2), Bytes_(p.value)>>
             U      == <<Int_(4), Text_(UsefulBuf_FromSZ(v))>>
             m      == 1 + StringLen(Len(v) - 1)
             e      == CloseMap(AddBytes(dated, NLabel(PSA_SW_COMPONENT_SIGNER_ID), p.signer))
  <1>1. AddComponent(c, p) = e
    BY DEF AddComponent
  <1>2. ComponentDoc(p) = <<Map_(4)>> \o ((T \o U) \o <<Int_(5), Bytes_(p.signer)>>)
    BY DEF ComponentDoc
  <1>3. /\ o = QCBOREncode_OpenMapOrArray(c, MAP) /\ Sound(o) /\ Left(o, 6, 0) /\ Left(o, 8, 0)
        /\ Made(o, valued, T, 4, 41)
    BY ComponentStarts
  <1> HIDE DEF o, T, typed, valued
  <1>4. Sound(valued) /\ Left(valued, 2, 0) => Made(valued, dated, U, 2, m)
    <2> SUFFICES ASSUME Sound(valued), Left(valued, 2, 0) PROVE Made(valued, dated, U, 2, m)
      OBVIOUS
    <2>1. m = HeadLen(4) + StringLen(Len(v) - 1) /\ 4 \in Nat /\ FitsBytes(4, 4)
      BY SmallLens
    <2> HIDE DEF m
    <2>2. Made(valued, AddSZString(valued, NLabel(4), v), U, 2, m)
      BY <2>1, TextEntry
    <2> QED
      BY <2>2 DEF PSA_SW_COMPONENT_VERSION
  <1>5. m \in Nat
    <2>1. Len(v) - 1 \in Nat
      BY CStringText
    <2>2. HeadLen(Len(v) - 1) \in Nat
      BY <2>1, HeadCosts
    <2> QED
      BY <2>1, <2>2 DEF StringLen
  <1> HIDE DEF dated, U, m
  <1>6. Made(o, dated, T \o U, 6, 41 + m)
    <2>1. 4 \in Nat /\ 41 \in Nat /\ 6 = 4 + 2
      OBVIOUS
    <2> QED
      BY <1>3, <1>4, <1>5, <2>1, EntryAdded
  <1>7. 6 + 2 = 8 /\ 6 \in {4, 6} /\ 41 + m \in Nat /\ (41 + m) + 36 = ComponentLen + m
    BY <1>5, StringLens, SMT DEF ComponentLen
  <1>8. Made(c, CloseMap(AddBytes(dated, NLabel(PSA_SW_COMPONENT_SIGNER_ID), p.signer)),
             <<Map_(IF 6 = 4 THEN 3 ELSE 4)>> \o ((T \o U) \o <<Int_(5), Bytes_(p.signer)>>), 1, (41 + m) + 36)
    <2> DEFINE s == 41 + m
               V == T \o U
    <2>1. s \in Nat /\ Made(o, dated, V, 6, s) /\ Left(o, 6 + 2, 0)
      BY <1>3, <1>6, <1>7
    <2> HIDE DEF s, V
    <2>2. Made(c, CloseMap(AddBytes(dated, NLabel(PSA_SW_COMPONENT_SIGNER_ID), p.signer)),
               <<Map_(IF 6 = 4 THEN 3 ELSE 4)>> \o (V \o <<Int_(5), Bytes_(p.signer)>>), 1, s + 36)
      BY <1>3, <1>7, <2>1, ComponentEnds
    <2> QED
      BY <2>2 DEF s, V
  <1>9. (IF 6 = 4 THEN 3 ELSE 4) = 4
    OBVIOUS
  <1> QED
    BY <1>1, <1>2, <1>7, <1>8, <1>9 DEF m

\* The components, one after the other.
LEMMA TwoComponents ==
  ASSUME NEW c, NEW s, Len(s) = 2
  PROVE  AddComponents(c, s) = AddComponent(AddComponent(c, s[1]), s[2])
  <1> DEFINE a    == AddComponent(c, s[1])
             b    == AddComponent(a, s[2])
             w    == [i \in 0..2 |-> IF i = 0 THEN c ELSE IF i = 1 THEN a ELSE b]
             I(f) == f = [i \in 0..2 |-> IF i = 0 THEN c ELSE AddComponent(f[i - 1], s[i])]
             g    == CHOOSE f : I(f)
  <1>1. I(w)
    <2>1. \A i \in 0..2 : (IF i = 0 THEN c ELSE IF i = 1 THEN a ELSE b)
                            = (IF i = 0 THEN c ELSE AddComponent(w[i - 1], s[i]))
      <3> SUFFICES ASSUME NEW i \in 0..2
                   PROVE  (IF i = 0 THEN c ELSE IF i = 1 THEN a ELSE b)
                            = (IF i = 0 THEN c ELSE AddComponent(w[i - 1], s[i]))
        OBVIOUS
      <3>1. w[0] = c /\ w[1] = a
        <4> HIDE DEF a, b
        <4> QED
          OBVIOUS
      <3>2. i \in {0, 1, 2}
        OBVIOUS
      <3> HIDE DEF w
      <3>3. CASE i = 0
        BY <3>3
      <3>4. CASE i = 1
        <4>1. i - 1 = 0 /\ i # 0
          BY <3>4
        <4> QED
          BY <3>1, <3>4, <4>1
      <3>5. CASE i = 2
        <4>1. i - 1 = 1 /\ i # 0 /\ i # 1
          BY <3>5
        <4> QED
          BY <3>1, <3>5, <4>1
      <3> QED
        BY <3>2, <3>3, <3>4, <3>5
    <2> QED
      BY <2>1, Zenon
  <1>2. I(g)
    <2> HIDE DEF I, w
    <2> QED
      BY <1>1
  <1>3. g[2] = b
    <2> HIDE DEF g
    <2>1. \A i \in 0..2 : g[i] = IF i = 0 THEN c ELSE AddComponent(g[i - 1], s[i])
      BY <1>2, Zenon
    <2>2. g[0] = c
      BY <2>1
    <2>3. g[1] = a
      <3>1. 1 \in 0..2 /\ 1 # 0 /\ 1 - 1 = 0
        OBVIOUS
      <3>2. g[1] = AddComponent(g[1 - 1], s[1])
        BY <2>1, <3>1, Zenon
      <3> QED
        BY <2>2, <3>1, <3>2
    <2>4. g[2] = b
      <3>1. 2 \in 0..2 /\ 2 # 0 /\ 2 - 1 = 1
        OBVIOUS
      <3>2. g[2] = AddComponent(g[2 - 1], s[2])
        BY <2>1, <3>1, Zenon
      <3> QED
        BY <2>3, <3>1, <3>2
    <2> QED
      BY <2>4
  <1>4. AddComponents(c, s) = g[2]
    BY DEF AddComponents
  <1> QED
    BY <1>3, <1>4

\* The labels of the claims.
Labels == {PSA_PROFILE_DEFINITION, PSA_CLIENT_ID, PSA_SECURITY_LIFECYCLE, PSA_IMPLEMENTATION_ID,
           PSA_SW_COMPONENTS, PSA_INSTANCE_ID}

LEMMA LabelLens ==
  /\ \A l \in Labels : l \in Nat /\ FitsBytes(l, 4) /\ HeadLen(l) = 3
  /\ PSA_NONCE \in Nat /\ FitsBytes(PSA_NONCE, 4) /\ HeadLen(PSA_NONCE) = 1
  BY SMT DEF Labels, FitsBytes, HeadLen, PSA_PROFILE_DEFINITION, PSA_CLIENT_ID, PSA_SECURITY_LIFECYCLE,
             PSA_IMPLEMENTATION_ID, PSA_SW_COMPONENTS, PSA_INSTANCE_ID, PSA_NONCE

\* The length of the version of the second component.
LEMMA VersionLen ==
  ASSUME NEW s, AreComponents(s)
  PROVE  StringLen(Len(s[2].version.bytes) - 1) \in Nat
  <1> DEFINE b == s[2].version.bytes
             n == Len(b) - 1
  <1>1. CString(b) /\ FitsBytes(n, 4)
    BY DEF AreComponents
  <1> HIDE DEF b
  <1>2. n \in Nat
    BY <1>1, CStringText
  <1> HIDE DEF n
  <1>3. HeadLen(n) \in Nat
    BY <1>1, <1>2, HeadCosts
  <1> QED
    BY <1>2, <1>3 DEF StringLen, n, b

\* The array of the components with its label.
LEMMA ComponentsMade ==
  ASSUME NEW c, Sound(c), Left(c, 2, 2), NEW s, AreComponents(s),
         NEW v, v = StringLen(Len(s[2].version.bytes) - 1)
  PROVE  Made(c, CloseArray(AddComponents(OpenArray(c, NLabel(PSA_SW_COMPONENTS)), s)),
              <<Int_(PSA_SW_COMPONENTS)>> \o (<<Array_(2)>> \o (ComponentDoc(s[1]) \o ComponentDoc(s[2]))),
              2, 4 + ComponentLen + (ComponentLen + (1 + v)))
  <1> DEFINE l == AddLabel(c, NLabel(PSA_SW_COMPONENTS))
             o == OpenArray(c, NLabel(PSA_SW_COMPONENTS))
             a == AddComponent(o, s[1])
             b == AddComponent(a, s[2])
             D1 == ComponentDoc(s[1])
             D2 == ComponentDoc(s[2])
             n1 == ComponentLen
             n2 == ComponentLen + (1 + v)
  <1>1. v \in Nat
    BY VersionLen
  <1>2. n1 \in Nat /\ n2 \in Nat
    BY <1>1, StringLens, SMT DEF ComponentLen
  <1>3. Made(c, l, <<Int_(PSA_SW_COMPONENTS)>>, 1, 3)
    <2>1. PSA_SW_COMPONENTS \in Nat /\ FitsBytes(PSA_SW_COMPONENTS, 4) /\ HeadLen(PSA_SW_COMPONENTS) = 3
      BY LabelLens DEF Labels
    <2>2. Left(c, 1, 0)
      BY LeftLess DEF Sound, Fair
    <2> QED
      BY <2>1, <2>2, LabelMade
  <1>4. Sound(l) /\ Left(l, 1, 2)
    <2>1. 1 \in Nat /\ 2 \in Nat /\ 2 = 1 + 1
      OBVIOUS
    <2> QED
      BY <1>3, <2>1, LeftAfter DEF Made
  <1>5. o = QCBOREncode_OpenMapOrArray(l, ARRAY)
    BY DEF OpenArray
  <1> HIDE DEF l, o
  <1>6. ARRAY \in Nat /\ ARRAY \in {ARRAY, MAP} /\ 1 \in Nat /\ 1 + 1 = 2 /\ 2 \in Nat /\ ARRAY # MAP
    BY DEF ARRAY, MAP
  <1>7. Sound(o) /\ Left(o, 2, 1)
    <2>1. 2 < MAX_ITEMS_IN_ARRAY
      BY RoomAssumption, LimitsAssumption
    <2>2. Left(l, 1, 1 + 1)
      BY <1>4, <1>6
    <2> QED
      BY <1>4, <1>5, <1>6, <2>1, <2>2, OpenSound
  <1>8. Made(o, a, D1, 1, n1)
    <2>1. Left(o, 1, 1)
      <3>1. Good(o)
        BY <1>7 DEF Sound, Fair
      <3>2. 1 \in Nat /\ 2 \in Nat /\ 1 <= 2 /\ 1 <= 1
        OBVIOUS
      <3> QED
        BY <1>7, <3>1, <3>2, LeftLess
    <2> QED
      BY <1>7, <2>1, PlainComponent DEF AreComponents
  <1>9. Sound(a) /\ Left(a, 1, 1)
    BY <1>6, <1>7, <1>8, LeftAfter DEF Made
  <1> HIDE DEF a
  <1>10. Made(a, b, D2, 1, n2)
    BY <1>9, DatedComponent DEF AreComponents
  <1> HIDE DEF b, D1, D2, n1, n2
  <1>11. Made(o, b, D1 \o D2, 1 + 1, n1 + n2)
    BY <1>2, <1>6, <1>7, <1>8, <1>10, MadeTwice
  <1> DEFINE n == n1 + n2
             D == D1 \o D2
  <1>12. n \in Nat /\ Made(QCBOREncode_OpenMapOrArray(l, ARRAY), b, D, 2, n)
    BY <1>2, <1>5, <1>6, <1>11
  <1> HIDE DEF n, D
  <1>13. Made(l, QCBOREncode_CloseMapOrArray(b, ARRAY), <<Token(ARRAY, 2, << >>)>> \o D, 1, HeadLen(2) + n)
    <2>1. 2 = (IF ARRAY = MAP THEN 2 \div 2 ELSE 2) /\ FitsBytes(2, 4) /\ Left(l, 1, 1 + 1)
      BY <1>4, <1>6, SmallLens
    <2> QED
      BY <1>4, <1>6, <1>12, <2>1, LevelMade
  <1> DEFINE q == QCBOREncode_CloseMapOrArray(b, ARRAY)
             m == HeadLen(2) + n
             U == <<Token(ARRAY, 2, << >>)>> \o D
  <1>14. m \in Nat /\ 3 \in Nat /\ Made(l, q, U, 1, m)
    BY <1>12, <1>13, SmallLens
  <1>15. 3 + m = 4 + ComponentLen + (ComponentLen + (1 + v))
    <2>1. ComponentLen = 77
      BY StringLens, SMT DEF ComponentLen
    <2>2. 3 + m = 4 + (77 + (77 + (1 + v)))
      BY <1>1, <2>1, SmallLens, SMT DEF n, n1, n2
    <2> QED
      BY <1>1, <2>1, <2>2, SMT
  <1>16. U = <<Array_(2)>> \o D
    BY DEF ARRAY, Array_
  <1> HIDE DEF q, m, U
  <1> DEFINE P == <<Int_(PSA_SW_COMPONENTS)>>
  <1>17. Made(c, q, P \o U, 1 + 1, 3 + m)
    <2>1. Made(c, l, P, 1, 3)
      BY <1>3
    <2> HIDE DEF P
    <2> QED
      BY <1>6, <1>14, <2>1, MadeTwice
  <1>18. q = CloseArray(AddComponents(o, s))
    BY TwoComponents DEF AreComponents, CloseArray, q, a, b
  <1> QED
    BY <1>6, <1>15, <1>16, <1>17, <1>18 DEF o, D, D1, D2

\* The sizes of the buffers are in the range of the encoder.
LEMMA Caps ==
  /\ 512 \in Nat /\ 512 < MAX_ARRAY_OFFSET /\ IsUint64(512)
  /\ 256 \in Nat /\ 256 < MAX_ARRAY_OFFSET /\ IsUint64(256)
  <1>1. 512 < MAX_ARRAY_OFFSET /\ 256 < MAX_ARRAY_OFFSET
    BY RoomAssumption, LimitsAssumption, SMT DEF TBS_BUFFER_SIZE
  <1>2. 512 \in Small /\ 256 \in Small
    BY SMT DEF Small
  <1> QED
    BY <1>1, <1>2, SmallUint64

\* A level o of an empty encoding c, with room for its items and the levels in it.
Started(c, o) ==
    /\ Sound(c) /\ Left(c, 1, 2 + 1) /\ Sound(o)
    /\ \A k \in 0..14 : \A l \in 0..2 : Left(o, k, l)

LEMMA LevelOpens ==
  ASSUME NEW c, Sound(c), Left(c, 1, 3), NEW type \in {ARRAY, MAP},
         NEW o, o = QCBOREncode_OpenMapOrArray(c, type)
  PROVE  Started(c, o)
  <1>1. 2 \in Nat /\ 2 + 1 = 3 /\ 14 \in Nat /\ 14 < MAX_ITEMS_IN_ARRAY /\ type \in Nat
    BY RoomAssumption, LimitsAssumption DEF ARRAY, MAP
  <1>2. Left(c, 1, 2 + 1)
    BY <1>1
  <1>3. Sound(o) /\ Left(o, 14, 2)
    BY <1>1, <1>2, OpenSound
  <1>4. ASSUME NEW k \in 0..14, NEW l \in 0..2
        PROVE  Left(o, k, l)
    <2>1. k \in Nat /\ k <= 14 /\ l \in Nat /\ l <= 2
      OBVIOUS
    <2>2. Good(o)
      BY <1>3 DEF Sound, Fair
    <2> QED
      BY <1>1, <1>3, <2>1, <2>2, LeftLess
  <1> QED
    BY <1>2, <1>3, <1>4 DEF Started

LEMMA LevelStarts ==
  ASSUME NEW cap \in Nat, cap < MAX_ARRAY_OFFSET, IsUint64(cap), NEW type \in {ARRAY, MAP},
         NEW c, c = QCBOREncode_Init(FALSE, cap), NEW o, o = QCBOREncode_OpenMapOrArray(c, type)
  PROVE  Started(c, o)
  <1>1. 1 \in Nat /\ 1 < MAX_ITEMS_IN_ARRAY /\ 3 \in Nat /\ 3 <= MAX_ARRAY_NESTING
    BY RoomAssumption, LimitsAssumption
  <1>2. Sound(c) /\ Left(c, 1, 3)
    BY <1>1, InitMade
  <1> QED
    BY <1>2, LevelOpens

\* The claims as far as the implementation-id.
LEMMA ClaimsStart ==
  ASSUME NEW e, IsClaims(e), NEW o, Sound(o), \A k \in 0..14 : \A l \in 0..2 : Left(o, k, l)
  PROVE  LET profile == AddSZString(o, NLabel(PSA_PROFILE_DEFINITION), e.profile)
             client  == AddInt64(profile, NLabel(PSA_CLIENT_ID), e.client)
             cycle   == AddInt64(client, NLabel(PSA_SECURITY_LIFECYCLE), e.lifecycle)
             impl    == AddBytes(cycle, NLabel(PSA_IMPLEMENTATION_ID), e.implementation)
         IN  Made(o, impl,
                  <<Int_(PSA_PROFILE_DEFINITION), Text_(UsefulBuf_FromSZ(e.profile))>>
                    \o <<Int_(PSA_CLIENT_ID), Int_(e.client)>>
                    \o <<Int_(PSA_SECURITY_LIFECYCLE), Int_(e.lifecycle)>>
                    \o <<Int_(PSA_IMPLEMENTATION_ID), Bytes_(e.implementation)>>,
                  8, 75 + HeadLen(e.client))
  <1> DEFINE d1 == AddSZString(o, NLabel(PSA_PROFILE_DEFINITION), e.profile)
             d2 == AddInt64(d1, NLabel(PSA_CLIENT_ID), e.client)
             d3 == AddInt64(d2, NLabel(PSA_SECURITY_LIFECYCLE), e.lifecycle)
             d4 == AddBytes(d3, NLabel(PSA_IMPLEMENTATION_ID), e.implementation)
             T1 == <<Int_(PSA_PROFILE_DEFINITION), Text_(UsefulBuf_FromSZ(e.profile))>>
             T2 == <<Int_(PSA_CLIENT_ID), Int_(e.client)>>
             T3 == <<Int_(PSA_SECURITY_LIFECYCLE), Int_(e.lifecycle)>>
             T4 == <<Int_(PSA_IMPLEMENTATION_ID), Bytes_(e.implementation)>>
             h  == HeadLen(e.client)
  <1>1. /\ CString(e.profile) /\ Len(e.profile) = 25
        /\ e.client \in Nat /\ FitsBytes(e.client, 4)
        /\ e.lifecycle \in Nat /\ FitsBytes(e.lifecycle, 2) /\ ~FitsBytes(e.lifecycle, 1)
        /\ e.implementation \in Seq(Byte) /\ Len(e.implementation) = 32
    BY DEF IsClaims
  <1>2. \A l \in Labels : l \in Nat /\ FitsBytes(l, 4) /\ HeadLen(l) = 3
    BY LabelLens
  <1>3. /\ PSA_PROFILE_DEFINITION \in Labels /\ PSA_CLIENT_ID \in Labels
        /\ PSA_SECURITY_LIFECYCLE \in Labels /\ PSA_IMPLEMENTATION_ID \in Labels
    BY DEF Labels
  <1>4. Left(o, 2, 0) /\ Left(o, 4, 0) /\ Left(o, 6, 0) /\ Left(o, 8, 0)
    OBVIOUS
  <1>5. h \in Nat
    BY <1>1, HeadCosts
  <1>6. FitsBytes(e.lifecycle, 4) /\ HeadLen(e.lifecycle) = 3
    <2>1. ASSUME NEW n \in Nat, FitsBytes(n, 2), ~FitsBytes(n, 1)
          PROVE  FitsBytes(n, 4) /\ HeadLen(n) = 3
      BY <2>1, SMT DEF FitsBytes, HeadLen
    <2> QED
      BY <1>1, <2>1
  <1>7. 2 \in Nat /\ 4 = 2 + 2 /\ 6 = 4 + 2 /\ 8 = 6 + 2 /\ 4 \in Nat /\ 6 \in Nat /\ 8 \in Nat
    OBVIOUS
  <1>8. Made(o, d1, T1, 2, 29)
    <2>1. Len(e.profile) - 1 = 24
      BY <1>1
    <2>2. 29 = 3 + StringLen(24)
      BY StringLens, SMT
    <2>3. 29 = HeadLen(PSA_PROFILE_DEFINITION) + StringLen(Len(e.profile) - 1)
      BY <1>2, <1>3, <2>1, <2>2
    <2>4. FitsBytes(Len(e.profile) - 1, 4)
      BY <2>1, StringLens
    <2> QED
      BY <1>1, <1>2, <1>3, <1>4, <2>3, <2>4, TextEntry
  <1> HIDE DEF d1
  <1>9. Sound(d1) /\ Left(d1, 2, 0) => Made(d1, d2, T2, 2, 3 + h)
    <2> SUFFICES ASSUME Sound(d1), Left(d1, 2, 0) PROVE Made(d1, d2, T2, 2, 3 + h)
      OBVIOUS
    <2>1. e.client \in Int /\ e.client = (IF e.client < 0 THEN -(e.client + 1) ELSE e.client)
      BY <1>1
    <2>2. PSA_CLIENT_ID \in Nat /\ FitsBytes(PSA_CLIENT_ID, 4) /\ HeadLen(PSA_CLIENT_ID) = 3
      BY <1>2, <1>3
    <2> DEFINE n == 3 + h
    <2>3. n = HeadLen(PSA_CLIENT_ID) + HeadLen(e.client)
      BY <2>2
    <2> HIDE DEF n
    <2>4. Made(d1, d2, T2, 2, n)
      BY <1>1, <2>1, <2>2, <2>3, IntEntry
    <2> QED
      BY <2>4 DEF n
  <1> HIDE DEF d2
  <1>10. Sound(d2) /\ Left(d2, 2, 0) => Made(d2, d3, T3, 2, 6)
    <2> SUFFICES ASSUME Sound(d2), Left(d2, 2, 0) PROVE Made(d2, d3, T3, 2, 6)
      OBVIOUS
    <2>1. e.lifecycle \in Int /\ e.lifecycle = (IF e.lifecycle < 0 THEN -(e.lifecycle + 1) ELSE e.lifecycle)
      BY <1>1
    <2>2. /\ PSA_SECURITY_LIFECYCLE \in Nat /\ FitsBytes(PSA_SECURITY_LIFECYCLE, 4)
          /\ HeadLen(PSA_SECURITY_LIFECYCLE) = 3
      BY <1>2, <1>3
    <2>3. 6 = HeadLen(PSA_SECURITY_LIFECYCLE) + HeadLen(e.lifecycle)
      BY <1>6, <2>2
    <2> QED
      BY <1>6, <2>1, <2>2, <2>3, IntEntry
  <1> HIDE DEF d3
  <1>11. Sound(d3) /\ Left(d3, 2, 0) => Made(d3, d4, T4, 2, 37)
    <2> SUFFICES ASSUME Sound(d3), Left(d3, 2, 0) PROVE Made(d3, d4, T4, 2, 37)
      OBVIOUS
    <2>1. 37 = HeadLen(PSA_IMPLEMENTATION_ID) + StringLen(Len(e.implementation))
      BY <1>1, <1>2, <1>3, StringLens, SMT
    <2>2. FitsBytes(Len(e.implementation), 4)
      BY <1>1, StringLens
    <2> QED
      BY <1>1, <1>2, <1>3, <2>1, <2>2, BytesEntry
  <1> HIDE DEF d4, T1, T2, T3, T4
  <1> DEFINE n == 3 + h
             s == 29 + n
             u == s + 6
  <1>12. n \in Nat /\ s \in Nat /\ u \in Nat /\ u + 37 = 75 + h /\ 6 \in Nat /\ 37 \in Nat /\ 29 \in Nat
    BY <1>5
  <1>13. Made(o, d2, T1 \o T2, 4, s)
    <2> HIDE DEF h, n
    <2>1. s = 29 + n
      OBVIOUS
    <2> HIDE DEF s
    <2> QED
      BY <1>4, <1>7, <1>8, <1>9, <1>12, <2>1, EntryAdded DEF n
  <1> HIDE DEF s, n
  <1>14. Made(o, d3, T1 \o T2 \o T3, 6, u)
    <2>1. u = s + 6
      OBVIOUS
    <2> DEFINE V == T1 \o T2
    <2> HIDE DEF u, V
    <2>2. Made(o, d2, V, 4, s)
      BY <1>13 DEF V
    <2>3. Made(o, d3, V \o T3, 6, u)
      BY <1>4, <1>7, <1>10, <1>12, <2>1, <2>2, EntryAdded
    <2> QED
      BY <2>3 DEF V
  <1> HIDE DEF u
  <1>15. Made(o, d4, T1 \o T2 \o T3 \o T4, 8, u + 37)
    <2> DEFINE V == T1 \o T2 \o T3
               x == u + 37
    <2>1. x = u + 37
      OBVIOUS
    <2> HIDE DEF V, x
    <2>2. Made(o, d3, V, 6, u)
      BY <1>14 DEF V
    <2>3. Made(o, d4, V \o T4, 8, x)
      BY <1>4, <1>7, <1>11, <1>12, <2>1, <2>2, EntryAdded
    <2> QED
      BY <2>3 DEF V, x
  <1> QED
    BY <1>12, <1>15 DEF d1, d2, d3, d4, T1, T2, T3, T4

\* The claims, from the first to the last, as long as PayloadLen says.
LEMMA ClaimsMade ==
  ASSUME NEW e, IsClaims(e), NEW c, c = QCBOREncode_Init(FALSE, 512)
  PROVE  \E d : /\ encode_evidence_to_cbor(e, 512) = Result(d)
                /\ Made(c, d, ClaimsDoc(e), 1,
                        PayloadLen(HeadLen(e.client), Len(e.components[2].version.bytes) - 1, Len(e.nonce)))
  <1> DEFINE i  == QCBOREncode_Init(FALSE, 512)
             o  == OpenMap(i, NoLabel)
             d1 == AddSZString(o, NLabel(PSA_PROFILE_DEFINITION), e.profile)
             d2 == AddInt64(d1, NLabel(PSA_CLIENT_ID), e.client)
             d3 == AddInt64(d2, NLabel(PSA_SECURITY_LIFECYCLE), e.lifecycle)
             d4 == AddBytes(d3, NLabel(PSA_IMPLEMENTATION_ID), e.implementation)
             d5 == CloseArray(AddComponents(OpenArray(d4, NLabel(PSA_SW_COMPONENTS)), e.components))
             d6 == AddBytes(d5, NLabel(PSA_NONCE), e.nonce)
             d7 == AddBytes(d6, NLabel(PSA_INSTANCE_ID), e.instance)
             d8 == CloseMap(d7)
             T4 == <<Int_(PSA_PROFILE_DEFINITION), Text_(UsefulBuf_FromSZ(e.profile))>>
                     \o <<Int_(PSA_CLIENT_ID), Int_(e.client)>>
                     \o <<Int_(PSA_SECURITY_LIFECYCLE), Int_(e.lifecycle)>>
                     \o <<Int_(PSA_IMPLEMENTATION_ID), Bytes_(e.implementation)>>
             T5 == <<Int_(PSA_SW_COMPONENTS)>>
                     \o (<<Array_(2)>> \o (ComponentDoc(e.components[1]) \o ComponentDoc(e.components[2])))
             T6 == <<Int_(PSA_NONCE), Bytes_(e.nonce)>>
             T7 == <<Int_(PSA_INSTANCE_ID), Bytes_(e.instance)>>
             h  == HeadLen(e.client)
             v  == StringLen(Len(e.components[2].version.bytes) - 1)
             g  == StringLen(Len(e.nonce))
             len == PayloadLen(h, Len(e.components[2].version.bytes) - 1, Len(e.nonce))
  <1>1. encode_evidence_to_cbor(e, 512) = Result(d8)
    BY DEF encode_evidence_to_cbor
  <1>2. ClaimsDoc(e) = <<Map_(7)>> \o (T4 \o T5 \o T6 \o T7)
    BY SMT DEF ClaimsDoc, PSA_PROFILE_DEFINITION, PSA_CLIENT_ID, PSA_SECURITY_LIFECYCLE,
               PSA_IMPLEMENTATION_ID, PSA_SW_COMPONENTS, PSA_NONCE, PSA_INSTANCE_ID
  <1>3. /\ e.client \in Nat /\ FitsBytes(e.client, 4) /\ AreComponents(e.components)
        /\ e.instance \in Seq(Byte) /\ Len(e.instance) = 33
        /\ e.nonce \in Seq(Byte) /\ FitsBytes(Len(e.nonce), 4)
    BY DEF IsClaims
  <1>4. h \in Nat /\ v \in Nat /\ g \in Nat
    <2>1. Len(e.nonce) \in Nat
      BY <1>3, LenProperties
    <2>2. HeadLen(e.client) \in Nat /\ HeadLen(Len(e.nonce)) \in Nat
      BY <1>3, <2>1, HeadCosts
    <2>3. g \in Nat
      BY <2>1, <2>2 DEF StringLen
    <2> QED
      BY <1>3, <2>2, <2>3, VersionLen
  <1>5. len = 1 + (75 + h + (4 + ComponentLen + (ComponentLen + (1 + v))) + (1 + g) + 38) /\ ComponentLen \in Nat
    <2>1. ComponentLen = 77
      BY StringLens, SMT DEF ComponentLen
    <2>2. StringLen(24) = 26 /\ StringLen(32) = 34 /\ StringLen(33) = 35
      BY StringLens
    <2>3. len = 1 + (3 + 26) + (3 + h) + (3 + 3) + (3 + 34) + (3 + 1 + 77 + 77 + 1 + v) + (1 + g) + (3 + 35)
      BY <2>1, <2>2, Zenon DEF PayloadLen
    <2> HIDE DEF len, h, v, g
    <2> QED
      BY <1>4, <2>1, <2>3, SMT
  <1>6. c = i /\ i = QCBOREncode_Init(FALSE, 512) /\ o = QCBOREncode_OpenMapOrArray(i, MAP)
    BY DEF OpenMap, AddLabel, NoLabel
  <1> HIDE DEF i, o
  <1>7. Sound(i) /\ Left(i, 1, 2 + 1) /\ Sound(o) /\ \A k \in 0..14 : \A l \in 0..2 : Left(o, k, l)
    <2> DEFINE cap == 512
    <2>1. /\ MAP \in {ARRAY, MAP} /\ cap \in Nat /\ cap < MAX_ARRAY_OFFSET /\ IsUint64(cap)
          /\ i = QCBOREncode_Init(FALSE, cap)
      BY <1>6, Caps
    <2> HIDE DEF cap
    <2>2. Started(i, o)
      BY <1>6, <2>1, LevelStarts, Zenon
    <2> QED
      BY <2>2 DEF Started
  <1>8. Made(o, d4, T4, 8, 75 + h)
    BY <1>7, ClaimsStart
  <1> HIDE DEF d4, T4, h, v, g, len
  <1> DEFINE s4 == 75 + h
             n5 == 4 + ComponentLen + (ComponentLen + (1 + v))
             s5 == s4 + n5
             n6 == 1 + g
             s6 == s5 + n6
             s7 == s6 + 38
  <1>9. /\ s4 \in Nat /\ n5 \in Nat /\ s5 \in Nat /\ n6 \in Nat /\ s6 \in Nat /\ s7 \in Nat
        /\ len = 1 + s7
    BY <1>4, <1>5
  <1>10. Made(o, d4, T4, 8, s4)
    BY <1>8
  <1>11. Made(d4, d5, T5, 2, n5)
    <2>1. Sound(d4)
      BY <1>8 DEF Made
    <2>2. Left(d4, 2, 2)
      <3>1. 8 \in Nat /\ 2 \in Nat /\ 10 = 8 + 2 /\ Left(o, 10, 2)
        BY <1>7
      <3> HIDE DEF s4
      <3> QED
        BY <1>7, <1>10, <3>1, LeftAfter
    <2> QED
      BY <1>3, <2>1, <2>2, ComponentsMade DEF v
  <1> HIDE DEF d5, T5, s4, n5
  <1>12. 8 \in Nat /\ 10 \in Nat /\ 12 \in Nat /\ 14 \in Nat /\ 10 = 8 + 2 /\ 12 = 10 + 2 /\ 14 = 12 + 2
         /\ Left(o, 10, 0) /\ Left(o, 12, 0) /\ Left(o, 14, 0)
    BY <1>7
  <1>13. Made(o, d5, T4 \o T5, 10, s5)
    <2>1. s5 = s4 + n5
      OBVIOUS
    <2> HIDE DEF s5
    <2> QED
      BY <1>7, <1>9, <1>10, <1>11, <1>12, <2>1, EntryAdded
  <1> HIDE DEF s5
  <1>14. Sound(d5) /\ Left(d5, 2, 0) => Made(d5, d6, T6, 2, n6)
    <2> SUFFICES ASSUME Sound(d5), Left(d5, 2, 0) PROVE Made(d5, d6, T6, 2, n6)
      OBVIOUS
    <2>1. n6 = HeadLen(PSA_NONCE) + StringLen(Len(e.nonce)) /\ PSA_NONCE \in Nat /\ FitsBytes(PSA_NONCE, 4)
      BY LabelLens DEF g
    <2> HIDE DEF n6
    <2> QED
      BY <1>3, <2>1, BytesEntry
  <1> HIDE DEF d6, T6, n6
  <1>15. Made(o, d6, T4 \o T5 \o T6, 12, s6)
    <2>1. s6 = s5 + n6
      OBVIOUS
    <2> DEFINE V == T4 \o T5
    <2> HIDE DEF s6, V
    <2>2. Made(o, d5, V, 10, s5)
      BY <1>13 DEF V
    <2>3. Made(o, d6, V \o T6, 12, s6)
      BY <1>7, <1>9, <1>12, <1>14, <2>1, <2>2, EntryAdded
    <2> QED
      BY <2>3 DEF V
  <1> HIDE DEF s6
  <1>16. Sound(d6) /\ Left(d6, 2, 0) => Made(d6, d7, T7, 2, 38)
    <2> SUFFICES ASSUME Sound(d6), Left(d6, 2, 0) PROVE Made(d6, d7, T7, 2, 38)
      OBVIOUS
    <2>1. /\ PSA_INSTANCE_ID \in Nat /\ FitsBytes(PSA_INSTANCE_ID, 4) /\ HeadLen(PSA_INSTANCE_ID) = 3
          /\ FitsBytes(Len(e.instance), 4)
      BY <1>3, LabelLens, StringLens DEF Labels
    <2>2. 38 = HeadLen(PSA_INSTANCE_ID) + StringLen(Len(e.instance))
      BY <1>3, <2>1, StringLens, SMT
    <2> QED
      BY <1>3, <2>1, <2>2, BytesEntry
  <1> HIDE DEF d7, T7
  <1>17. Made(o, d7, T4 \o T5 \o T6 \o T7, 14, s7)
    <2>1. s7 = s6 + 38 /\ 38 \in Nat
      OBVIOUS
    <2> DEFINE V == T4 \o T5 \o T6
    <2> HIDE DEF s7, V
    <2>2. Made(o, d6, V, 12, s6)
      BY <1>15 DEF V
    <2>3. Made(o, d7, V \o T7, 14, s7)
      BY <1>7, <1>9, <1>12, <1>16, <2>1, <2>2, EntryAdded
    <2> QED
      BY <2>3 DEF V
  <1> DEFINE W == T4 \o T5 \o T6 \o T7
  <1>18. Made(QCBOREncode_OpenMapOrArray(i, MAP), d7, W, 14, s7)
    BY <1>6, <1>17
  <1> HIDE DEF s7, W, d8
  <1>19. Made(i, d8, <<Token(MAP, 7, << >>)>> \o W, 1, HeadLen(7) + s7)
    <2>1. MAP \in {ARRAY, MAP} /\ 2 \in Nat /\ 7 = (IF MAP = MAP THEN 14 \div 2 ELSE 14) /\ FitsBytes(7, 4)
      BY SmallLens
    <2>2. Made(i, QCBOREncode_CloseMapOrArray(d7, MAP), <<Token(MAP, 7, << >>)>> \o W, 1, HeadLen(7) + s7)
      BY <1>7, <1>9, <1>12, <1>18, <2>1, LevelMade
    <2> QED
      BY <2>2 DEF d8, CloseMap
  <1>20. HeadLen(7) + s7 = len
    BY <1>9, SmallLens
  <1>21. <<Token(MAP, 7, << >>)>> \o W = ClaimsDoc(e)
    BY <1>2 DEF MAP, Map_, W
  <1>22. Made(c, d8, ClaimsDoc(e), 1, len)
    BY <1>6, <1>19, <1>20, <1>21
  <1> QED
    BY <1>1, <1>22 DEF len, h

-----------------------------------------------------------------------------
(* The signed message *)

\* With room for a level there is room for an item.
LEMMA RoomForItem ==
  ASSUME NEW c, Sound(c), Left(c, 1, 2)
  PROVE  Left(c, 1, 0)
  <1>1. Good(c)
    BY DEF Sound, Fair
  <1>2. 0 \in Nat /\ 1 \in Nat /\ 2 \in Nat /\ 1 <= 1 /\ 0 <= 2
    OBVIOUS
  <1> QED
    BY <1>1, <1>2, LeftLess

\* An item of an array: bytes or a text.
LEMMA BytesItem ==
  ASSUME NEW b \in Seq(Byte), FitsBytes(Len(b), 4), NEW c, Sound(c), Left(c, 1, 2),
         NEW s, s = StringLen(Len(b))
  PROVE  Made(c, AddBytes(c, NoLabel, b), <<Bytes_(b)>>, 1, s)
  <1>1. AddBytes(c, NoLabel, b) = QCBOREncode_AddBuffer(c, BYTE_STRING, b)
    BY DEF AddBytes, AddLabel, NoLabel
  <1>2. <<Bytes_(b)>> = <<Token(BYTE_STRING, Len(b), b)>>
    BY DEF BYTE_STRING, Bytes_
  <1> QED
    BY <1>1, <1>2, RoomForItem, StringMade

LEMMA TextItem ==
  ASSUME NEW sz, CString(sz), FitsBytes(Len(sz) - 1, 4), NEW c, Sound(c), Left(c, 1, 2),
         NEW s, s = StringLen(Len(sz) - 1)
  PROVE  Made(c, AddSZString(c, NoLabel, sz), <<Text_(UsefulBuf_FromSZ(sz))>>, 1, s)
  <1> DEFINE b == UsefulBuf_FromSZ(sz)
  <1>1. b \in Seq(Byte) /\ Len(b) = Len(sz) - 1
    BY CStringText
  <1>2. AddSZString(c, NoLabel, sz) = QCBOREncode_AddBuffer(c, TEXT_STRING, b)
    BY DEF AddSZString, AddText, AddLabel, NoLabel
  <1>3. <<Text_(b)>> = <<Token(TEXT_STRING, Len(b), b)>>
    BY DEF TEXT_STRING, Text_
  <1> HIDE DEF b
  <1>4. FitsBytes(Len(b), 4) /\ s = StringLen(Len(b))
    BY <1>1
  <1>5. Left(c, 1, 0)
    BY RoomForItem
  <1>6. Made(c, AddSZString(c, NoLabel, sz), <<Text_(b)>>, 1, s)
    BY <1>1, <1>2, <1>3, <1>4, <1>5, StringMade
  <1> QED
    BY <1>6 DEF b

\* The protected header.
LEMMA ProtectedMade ==
  Yields(encode_protected_parameter(HEADER_BUFFER_SIZE), <<Map_(1), Int_(1), Int_(-7)>>, ProtectedLen, 256)
  <1> DEFINE cap == 256
             c == QCBOREncode_Init(FALSE, cap)
             o == OpenMap(c, NoLabel)
             d == AddInt64(o, NLabel(1), -7)
             e == CloseMap(d)
             T == <<Int_(1), Int_(-7)>>
             W == <<Map_(1), Int_(1), Int_(-7)>>
             r == encode_protected_parameter(HEADER_BUFFER_SIZE)
  <1>1. r = QCBOREncode_Finish(e).out
    BY DEF encode_protected_parameter, HEADER_BUFFER_SIZE, COSE_HEADER_PARAM_ALG, COSE_ALGORITHM_ES256, Result
  <1>2. <<Map_(1)>> \o T = W
    BY OneAndTwo
  <1>3. o = QCBOREncode_OpenMapOrArray(c, MAP)
    BY DEF OpenMap, AddLabel, NoLabel
  <1>4. /\ c = QCBOREncode_Init(FALSE, cap) /\ MAP \in {ARRAY, MAP}
        /\ cap \in Nat /\ cap < MAX_ARRAY_OFFSET /\ IsUint64(cap)
    BY Caps
  <1> HIDE DEF cap, c, o, r
  <1>5. Started(c, o)
    BY <1>3, <1>4, LevelStarts, Zenon
  <1>6. Sound(c) /\ Left(c, 1, 2 + 1) /\ Sound(o) /\ Left(o, 2, 0)
    BY <1>5 DEF Started
  <1>7. Made(o, d, T, 2, 2)
    <2> DEFINE x == -7
    <2>1. 6 = (IF x < 0 THEN -(x + 1) ELSE x) /\ x \in Int
      <3>1. ASSUME NEW y \in Int, y > 0
            PROVE  -y \in Int /\ -y < 0 /\ -(-y + 1) = y - 1
        BY <3>1
      <3>2. 7 \in Int /\ 7 > 0 /\ 7 - 1 = 6
        OBVIOUS
      <3> QED
        BY <3>1, <3>2
    <2>2. FitsBytes(6, 4) /\ FitsBytes(1, 4) /\ HeadLen(1) = 1 /\ HeadLen(6) = 1 /\ 1 \in Nat
      BY SMT DEF FitsBytes, HeadLen
    <2>3. 2 = HeadLen(1) + HeadLen(6)
      BY <2>2
    <2>4. d = AddInt64(o, NLabel(1), x) /\ T = <<Int_(1), Int_(x)>>
      OBVIOUS
    <2> HIDE DEF x, d, T
    <2>5. Made(o, AddInt64(o, NLabel(1), x), <<Int_(1), Int_(x)>>, 2, 2)
      BY <1>6, <2>1, <2>2, <2>3, IntEntry
    <2> QED
      BY <2>4, <2>5
  <1> HIDE DEF d, T
  <1>8. Made(c, e, <<Map_(1)>> \o T, 1, 3)
    <2>1. /\ MAP \in {ARRAY, MAP} /\ 2 \in Nat /\ 1 = (IF MAP = MAP THEN 2 \div 2 ELSE 2)
          /\ FitsBytes(1, 4) /\ HeadLen(1) = 1 /\ 1 + 2 = 3
      BY SmallLens
    <2>2. Made(QCBOREncode_OpenMapOrArray(c, MAP), d, T, 2, 2)
      BY <1>3, <1>7
    <2>3. Made(c, QCBOREncode_CloseMapOrArray(d, MAP), <<Token(MAP, 1, << >>)>> \o T, 1, HeadLen(1) + 2)
      BY <1>6, <2>1, <2>2, LevelMade
    <2>4. <<Token(MAP, 1, << >>)>> = <<Map_(1)>>
      BY DEF MAP, Map_
    <2> QED
      BY <2>1, <2>3, <2>4 DEF CloseMap
  <1> HIDE DEF e, W
  <1>9. Made(c, e, W, 1, 3) /\ 1 \in Nat /\ 3 \in Nat
    BY <1>2, <1>8
  <1>10. Yields(QCBOREncode_Finish(e).out, W, 3, cap)
    BY <1>4, <1>9, ResultMade, Zenon
  <1> QED
    BY <1>1, <1>10 DEF W, r, cap, ProtectedLen

\* "Signature1", as a C string and as a text.
LEMMA ContextString ==
  LET z == COSE_SIG_CONTEXT_STRING_SIGNATURE1
  IN  CString(z) /\ Len(z) - 1 = 10 /\ UsefulBuf_FromSZ(z) = Ten
  <1> DEFINE z == COSE_SIG_CONTEXT_STRING_SIGNATURE1
  <1>1. CString(z)
    BY DEF CString, Byte, COSE_SIG_CONTEXT_STRING_SIGNATURE1
  <1>2. Len(z) = 11
    BY DEF COSE_SIG_CONTEXT_STRING_SIGNATURE1
  <1>3. SubSeq(z, 1, 10) = Ten
    BY TenOfEleven DEF COSE_SIG_CONTEXT_STRING_SIGNATURE1
  <1> HIDE DEF z
  <1>4. Len(z) - 1 = 10
    BY <1>2
  <1>5. UsefulBuf_FromSZ(z) = SubSeq(z, 1, Len(z) - 1)
    BY <1>1, CStringText
  <1> QED
    BY <1>1, <1>3, <1>4, <1>5 DEF z

\* The lengths of the items that do not vary.
LEMMA ItemLens ==
  /\ StringLen(0) = 1 /\ StringLen(3) = 4 /\ StringLen(10) = 11 /\ StringLen(64) = 66
  /\ FitsBytes(0, 4) /\ FitsBytes(3, 4) /\ FitsBytes(10, 4) /\ FitsBytes(64, 4) /\ FitsBytes(18, 4)
  /\ HeadLen(0) = 1 /\ HeadLen(4) = 1 /\ HeadLen(18) = 1
  BY SMT DEF StringLen, HeadLen, FitsBytes

\* An array of four items, the cost of each known as far as there is room for it.
LEMMA ArrayOfFour ==
  ASSUME NEW c, NEW o, Started(c, o), o = OpenArray(c, NoLabel),
         NEW t1, NEW t2, NEW t3, NEW t4, NEW n1 \in Nat, NEW n2 \in Nat, NEW n3 \in Nat, NEW n4 \in Nat,
         NEW d1, Sound(o) /\ Left(o, 1, 2) => Made(o, d1, <<t1>>, 1, n1),
         NEW d2, Sound(d1) /\ Left(d1, 1, 2) => Made(d1, d2, <<t2>>, 1, n2),
         NEW d3, Sound(d2) /\ Left(d2, 1, 2) => Made(d2, d3, <<t3>>, 1, n3),
         NEW d4, Sound(d3) /\ Left(d3, 1, 2) => Made(d3, d4, <<t4>>, 1, n4),
         NEW s, s = 1 + (n1 + n2 + n3 + n4)
  PROVE  Made(c, CloseArray(d4), <<Array_(4), t1, t2, t3, t4>>, 1, s)
  <1>1. /\ Sound(c) /\ Left(c, 1, 2 + 1) /\ Sound(o)
        /\ Left(o, 1, 2) /\ Left(o, 2, 2) /\ Left(o, 3, 2) /\ Left(o, 4, 2)
    BY DEF Started
  <1>2. /\ 1 \in Nat /\ 2 \in Nat /\ 3 \in Nat /\ 4 \in Nat
        /\ 2 = 1 + 1 /\ 3 = 2 + 1 /\ 4 = 3 + 1
    OBVIOUS
  <1>3. ASSUME NEW j \in Nat, NEW i, i = j + 1, Left(o, i, 2), NEW T, NEW n \in Nat, NEW d, Made(o, d, T, j, n),
               NEW u, NEW m \in Nat, NEW e, Sound(d) /\ Left(d, 1, 2) => Made(d, e, <<u>>, 1, m),
               NEW l, l = n + m
        PROVE  Made(o, e, T \o <<u>>, i, l)
    <2>1. Sound(d)
      BY <1>3 DEF Made
    <2>2. Left(d, 1, 2)
      BY <1>1, <1>2, <1>3, LeftAfter
    <2>3. Made(d, e, <<u>>, 1, m)
      BY <1>3, <2>1, <2>2
    <2> DEFINE U == <<u>>
    <2> HIDE DEF U
    <2>4. Made(o, e, T \o U, i, l)
      BY <1>1, <1>2, <1>3, <2>3, MadeTwice DEF U
    <2> QED
      BY <2>4 DEF U
  <1>4. Made(o, d1, <<t1>>, 1, n1)
    BY <1>1
  <1> DEFINE s2 == n1 + n2
             s3 == s2 + n3
             s4 == s3 + n4
  <1>5. s2 = n1 + n2 /\ s3 = s2 + n3 /\ s4 = s3 + n4 /\ s2 \in Nat /\ s3 \in Nat /\ s4 \in Nat /\ s = 1 + s4
    OBVIOUS
  <1> HIDE DEF s2, s3, s4
  <1>6. Made(o, d2, <<t1, t2>>, 2, s2)
    <2>1. Made(o, d2, <<t1>> \o <<t2>>, 2, s2)
      BY <1>1, <1>2, <1>3, <1>4, <1>5
    <2> QED
      BY <2>1, OneAndOne
  <1>7. Made(o, d3, <<t1, t2, t3>>, 3, s3)
    <2> DEFINE V == <<t1, t2>>
    <2>1. V \o <<t3>> = <<t1, t2, t3>>
      BY TwoAndOne
    <2>2. Made(o, d2, V, 2, s2)
      BY <1>6
    <2> HIDE DEF V
    <2>3. Made(o, d3, V \o <<t3>>, 3, s3)
      BY <1>1, <1>2, <1>3, <1>5, <2>2
    <2> QED
      BY <2>1, <2>3
  <1>8. Made(o, d4, <<t1, t2, t3, t4>>, 4, s4)
    <2> DEFINE V == <<t1, t2, t3>>
    <2>1. V \o <<t4>> = <<t1, t2, t3, t4>>
      BY ThreeAndOne
    <2>2. Made(o, d3, V, 3, s3)
      BY <1>7
    <2> HIDE DEF V
    <2>3. Made(o, d4, V \o <<t4>>, 4, s4)
      BY <1>1, <1>2, <1>3, <1>5, <2>2
    <2> QED
      BY <2>1, <2>3
  <1> DEFINE T == <<t1, t2, t3, t4>>
  <1>9. <<Array_(4)>> \o T = <<Array_(4), t1, t2, t3, t4>>
    BY OneAndFour
  <1>10. Made(QCBOREncode_OpenMapOrArray(c, ARRAY), d4, T, 4, s4)
    BY <1>8 DEF OpenArray, AddLabel, NoLabel
  <1> HIDE DEF T
  <1>11. /\ ARRAY \in {ARRAY, MAP} /\ 4 = (IF ARRAY = MAP THEN 4 \div 2 ELSE 4)
         /\ FitsBytes(4, 4) /\ HeadLen(4) = 1
    BY ItemLens, SmallLens DEF ARRAY, MAP
  <1>12. Made(c, QCBOREncode_CloseMapOrArray(d4, ARRAY), <<Token(ARRAY, 4, << >>)>> \o T, 1, HeadLen(4) + s4)
    BY <1>1, <1>2, <1>5, <1>10, <1>11, LevelMade
  <1>13. <<Token(ARRAY, 4, << >>)>> = <<Array_(4)>>
    BY DEF ARRAY, Array_
  <1> QED
    BY <1>5, <1>9, <1>11, <1>12, <1>13 DEF CloseArray

\* The bytes to be signed.
LEMMA TbsMade ==
  ASSUME NEW prot \in Seq(Byte), Len(prot) = 3, NEW p \in Seq(Byte), FitsBytes(Len(p), 4)
  PROVE  Yields(create_tbs(prot, << >>, p, 512),
                <<Array_(4), Text_(Ten), Bytes_(prot), Bytes_(<< >>), Bytes_(p)>>, TbsLen(Len(p)), 512)
  <1> DEFINE cap == 512
             c  == QCBOREncode_Init(FALSE, cap)
             o  == OpenArray(c, NoLabel)
             z  == COSE_SIG_CONTEXT_STRING_SIGNATURE1
             d1 == AddSZString(o, NoLabel, z)
             d2 == AddBytes(d1, NoLabel, prot)
             d3 == AddBytes(d2, NoLabel, << >>)
             d4 == AddBytes(d3, NoLabel, p)
             e  == CloseArray(d4)
             r  == create_tbs(prot, << >>, p, 512)
             g  == StringLen(Len(p))
             t1 == Text_(Ten)
             t2 == Bytes_(prot)
             t3 == Bytes_(<< >>)
             t4 == Bytes_(p)
             W  == <<Array_(4), t1, t2, t3, t4>>
             n  == TbsLen(Len(p))
  <1>1. r = QCBOREncode_Finish(e).out
    BY DEF create_tbs, Result
  <1>2. o = QCBOREncode_OpenMapOrArray(c, ARRAY) /\ o = OpenArray(c, NoLabel)
    BY DEF OpenArray, AddLabel, NoLabel
  <1>3. /\ c = QCBOREncode_Init(FALSE, cap) /\ ARRAY \in {ARRAY, MAP}
        /\ cap \in Nat /\ cap < MAX_ARRAY_OFFSET /\ IsUint64(cap)
    BY Caps
  <1>4. g \in Nat
    <2>1. Len(p) \in Nat
      BY LenProperties
    <2>2. HeadLen(Len(p)) \in Nat
      BY <2>1, HeadCosts
    <2> QED
      BY <2>1, <2>2 DEF StringLen
  <1>5. n = 1 + (11 + 4 + 1 + g) /\ n \in Nat /\ 1 \in Nat /\ 4 \in Nat /\ 11 \in Nat
    <2>1. n = 1 + 11 + 4 + 1 + g
      BY ItemLens, Zenon DEF TbsLen, ProtectedLen
    <2> HIDE DEF g, n
    <2> QED
      BY <1>4, <2>1, SMT
  <1> HIDE DEF cap, c, o, r, g, n
  <1>6. Started(c, o)
    BY <1>2, <1>3, LevelStarts, Zenon
  <1>7. Sound(o) /\ Left(o, 1, 2) => Made(o, d1, <<t1>>, 1, 11)
    <2>1. /\ CString(z) /\ Len(z) - 1 = 10 /\ UsefulBuf_FromSZ(z) = Ten
          /\ 11 = StringLen(Len(z) - 1) /\ FitsBytes(Len(z) - 1, 4)
      BY ContextString, ItemLens
    <2> HIDE DEF z
    <2>2. Sound(o) /\ Left(o, 1, 2) => Made(o, d1, <<Text_(UsefulBuf_FromSZ(z))>>, 1, 11)
      BY <2>1, TextItem
    <2> QED
      BY <2>1, <2>2
  <1> HIDE DEF d1
  <1>8. Sound(d1) /\ Left(d1, 1, 2) => Made(d1, d2, <<t2>>, 1, 4)
    <2>1. 4 = StringLen(Len(prot)) /\ FitsBytes(Len(prot), 4)
      BY ItemLens
    <2> QED
      BY <2>1, BytesItem
  <1> HIDE DEF d2
  <1>9. Sound(d2) /\ Left(d2, 1, 2) => Made(d2, d3, <<t3>>, 1, 1)
    <2>1. << >> \in Seq(Byte) /\ 1 = StringLen(Len(<< >>)) /\ FitsBytes(Len(<< >>), 4)
      BY ItemLens
    <2> QED
      BY <2>1, BytesItem
  <1> HIDE DEF d3
  <1>10. Sound(d3) /\ Left(d3, 1, 2) => Made(d3, d4, <<t4>>, 1, g)
    BY BytesItem DEF g
  <1> HIDE DEF d4, t1, t2, t3, t4
  <1>11. Made(c, e, W, 1, n)
    BY <1>2, <1>4, <1>5, <1>6, <1>7, <1>8, <1>9, <1>10, ArrayOfFour
  <1> HIDE DEF e, W
  <1>12. Yields(QCBOREncode_Finish(e).out, W, n, cap)
    BY <1>3, <1>5, <1>11, ResultMade, Zenon
  <1> QED
    BY <1>1, <1>12 DEF cap, W, n, r, t1, t2, t3, t4

\* A map without entries.
LEMMA EmptyMap ==
  ASSUME NEW c, Sound(c), Left(c, 1, 2)
  PROVE  Made(c, CloseMap(OpenMap(c, NoLabel)), <<Map_(0)>>, 1, 1)
  <1> DEFINE m == OpenMap(c, NoLabel)
             E == << >>
             x == Map_(0)
             q == QCBOREncode_CloseMapOrArray(m, MAP)
             P == <<x>> \o E
  <1>1. m = QCBOREncode_OpenMapOrArray(c, MAP)
    BY DEF OpenMap, AddLabel, NoLabel
  <1> HIDE DEF m
  <1>2. /\ MAP \in {ARRAY, MAP} /\ MAP \in Nat /\ 0 \in Nat /\ 1 \in Nat
        /\ 0 = (IF MAP = MAP THEN 0 \div 2 ELSE 0) /\ FitsBytes(0, 4) /\ HeadLen(0) = 1 /\ 1 + 0 = 1
        /\ Left(c, 1, 1 + 1)
    BY ItemLens DEF MAP
  <1>3. Sound(m)
    BY <1>1, <1>2, OpenSound
  <1>4. Made(QCBOREncode_OpenMapOrArray(c, MAP), m, E, 0, 0)
    BY <1>1, <1>3, NothingMade
  <1>5. x = Token(MAP, 0, << >>)
    BY DEF MAP, Map_
  <1> HIDE DEF E
  <1>6. Made(c, q, <<Token(MAP, 0, << >>)>> \o E, 1, HeadLen(0) + 0)
    BY <1>2, <1>4, LevelMade
  <1>7. P = <<x>>
    <2> HIDE DEF x
    <2> QED
      BY DEF E
  <1> HIDE DEF x, P
  <1>8. Made(c, q, P, 1, 1)
    BY <1>2, <1>5, <1>6 DEF P
  <1> QED
    BY <1>7, <1>8 DEF x, CloseMap, m

\* The message: a tag, the header, no further header, the payload and the signature.
LEMMA SignedMade ==
  ASSUME NEW prot \in Seq(Byte), Len(prot) = 3, NEW p \in Seq(Byte), FitsBytes(Len(p), 4),
         NEW sig \in Seq(Byte), Len(sig) = 64
  PROVE  LET t  == QCBOREncode_AddTag(QCBOREncode_Init(FALSE, 512), CBOR_TAG_COSE_SIGN1)
             d1 == AddBytes(OpenArray(t, NoLabel), NoLabel, prot)
             d3 == AddBytes(CloseMap(OpenMap(d1, NoLabel)), NoLabel, p)
             d4 == AddBytes(d3, NoLabel, sig)
         IN  Yields(Result(CloseArray(d4)),
                    <<Tag_(18), Array_(4), Bytes_(prot), Map_(0), Bytes_(p), Bytes_(sig)>>,
                    CoseLen(Len(p)), 512)
  <1> DEFINE cap == 512
             c   == QCBOREncode_Init(FALSE, cap)
             t   == QCBOREncode_AddTag(c, CBOR_TAG_COSE_SIGN1)
             o   == OpenArray(t, NoLabel)
             d1  == AddBytes(o, NoLabel, prot)
             d2  == CloseMap(OpenMap(d1, NoLabel))
             d3  == AddBytes(d2, NoLabel, p)
             d4  == AddBytes(d3, NoLabel, sig)
             e   == CloseArray(d4)
             r   == Result(e)
             g   == StringLen(Len(p))
             f   == StringLen(Len(sig))
             t1  == Bytes_(prot)
             t2  == Map_(0)
             t3  == Bytes_(p)
             t4  == Bytes_(sig)
  <1>1. r = QCBOREncode_Finish(e).out
    BY DEF Result
  <1>2. o = QCBOREncode_OpenMapOrArray(t, ARRAY) /\ o = OpenArray(t, NoLabel)
    BY DEF OpenArray, AddLabel, NoLabel
  <1>3. /\ c = QCBOREncode_Init(FALSE, cap) /\ ARRAY \in {ARRAY, MAP}
        /\ cap \in Nat /\ cap < MAX_ARRAY_OFFSET /\ IsUint64(cap)
    BY Caps
  <1>4. g \in Nat /\ f \in Nat
    <2>1. Len(p) \in Nat
      BY LenProperties
    <2>2. HeadLen(Len(p)) \in Nat
      BY <2>1, HeadCosts
    <2>3. g \in Nat
      BY <2>1, <2>2 DEF StringLen
    <2>4. f = 66
      BY ItemLens
    <2> QED
      BY <2>3, <2>4
  <1>5. CoseLen(Len(p)) = 1 + (1 + (4 + 1 + g + f))
    <2>1. CoseLen(Len(p)) = 1 + 1 + 4 + 1 + g + f
      BY ItemLens, Zenon DEF CoseLen, ProtectedLen
    <2> HIDE DEF g, f
    <2> QED
      BY <1>4, <2>1, SMT
  <1> HIDE DEF cap, c, o, r, g, f
  <1>6. Sound(c) /\ Left(c, 1, 3) /\ 0 \in Nat /\ 1 \in Nat /\ 3 \in Nat /\ 1 = 0 + 1
    <2>1. 1 \in Nat /\ 1 < MAX_ITEMS_IN_ARRAY /\ 3 \in Nat /\ 3 <= MAX_ARRAY_NESTING
      BY RoomAssumption, LimitsAssumption
    <2>2. Sound(c) /\ Left(c, 1, 3)
      BY <1>3, <2>1, InitMade, ZenonT(40)
    <2> QED
      BY <2>1, <2>2
  <1>7. Made(c, t, <<Tag_(18)>>, 0, 1)
    <2>1. 18 \in Nat /\ FitsBytes(18, 4) /\ HeadLen(18) = 1
      BY ItemLens
    <2>2. Made(c, QCBOREncode_AddTag(c, 18), <<Tag_(18)>>, 0, HeadLen(18))
      BY <1>6, <2>1, TagMade
    <2> QED
      BY <2>1, <2>2 DEF CBOR_TAG_COSE_SIGN1
  <1> HIDE DEF t
  <1>8. Started(t, o)
    <2>1. Sound(t) /\ Left(t, 1, 3)
      BY <1>6, <1>7, LeftAfter DEF Made
    <2> QED
      BY <1>2, <1>3, <2>1, LevelOpens
  <1>9. Sound(o) /\ Left(o, 1, 2) => Made(o, d1, <<t1>>, 1, 4)
    <2>1. 4 = StringLen(Len(prot)) /\ FitsBytes(Len(prot), 4)
      BY ItemLens
    <2> QED
      BY <2>1, BytesItem
  <1> HIDE DEF d1
  <1>10. Sound(d1) /\ Left(d1, 1, 2) => Made(d1, d2, <<t2>>, 1, 1)
    BY EmptyMap
  <1> HIDE DEF d2
  <1>11. Sound(d2) /\ Left(d2, 1, 2) => Made(d2, d3, <<t3>>, 1, g)
    BY BytesItem DEF g
  <1> HIDE DEF d3
  <1>12. Sound(d3) /\ Left(d3, 1, 2) => Made(d3, d4, <<t4>>, 1, f)
    <2>1. FitsBytes(Len(sig), 4)
      BY ItemLens
    <2> QED
      BY <2>1, BytesItem DEF f
  <1> HIDE DEF d4, t1, t2, t3, t4
  <1> DEFINE U == <<Array_(4), t1, t2, t3, t4>>
             W == <<Tag_(18), Array_(4), t1, t2, t3, t4>>
             n == 1 + (4 + 1 + g + f)
             l == CoseLen(Len(p))
  <1>13. <<Tag_(18)>> \o U = W
    BY OneAndFive
  <1>14. n = 1 + (4 + 1 + g + f) /\ n \in Nat /\ l = 1 + n /\ l \in Nat /\ 4 \in Nat
    BY <1>4, <1>5, SMT
  <1> HIDE DEF n, l
  <1>15. Made(t, e, U, 1, n)
    BY <1>2, <1>4, <1>6, <1>8, <1>9, <1>10, <1>11, <1>12, <1>14, ArrayOfFour, ZenonT(40)
  <1> HIDE DEF e, U, W
  <1>16. Made(c, e, W, 1, l)
    <2> DEFINE P == <<Tag_(18)>>
    <2>1. Made(c, t, P, 0, 1) /\ P \o U = W
      BY <1>7, <1>13
    <2> HIDE DEF P
    <2>2. Made(c, e, P \o U, 0 + 1, 1 + n)
      BY <1>6, <1>14, <1>15, <2>1, MadeTwice, ZenonT(40)
    <2> QED
      BY <1>6, <1>14, <2>1, <2>2
  <1>17. Yields(QCBOREncode_Finish(e).out, W, l, cap)
    BY <1>3, <1>6, <1>14, <1>16, ResultMade, Zenon
  <1>18. Yields(r, W, l, cap)
    BY <1>1, <1>17
  <1> QED
    BY <1>18 DEF W, l, cap, r, e, d4, d3, d2, d1, o, t, c, t1, t2, t3, t4

\* The bytes of Filled.
LEMMA FilledType ==
  ASSUME NEW n \in Nat
  PROVE  Filled(n) \in Seq(Byte) /\ Len(Filled(n)) = n
  <1>1. \A i \in 1..n : i % 256 \in Byte
    BY DEF Byte
  <1>2. Filled(n) \in [1..n -> Byte]
    BY <1>1 DEF Filled
  <1> QED
    BY <1>2

\* The length of claims is a number.
LEMMA ClaimsLen ==
  ASSUME NEW e, IsClaims(e)
  PROVE  PayloadLen(HeadLen(e.client), Len(e.components[2].version.bytes) - 1, Len(e.nonce)) \in Nat
  <1> DEFINE v == StringLen(Len(e.components[2].version.bytes) - 1)
             g == StringLen(Len(e.nonce))
             h == HeadLen(e.client)
             len == PayloadLen(h, Len(e.components[2].version.bytes) - 1, Len(e.nonce))
  <1>1. e.client \in Nat /\ FitsBytes(e.client, 4) /\ AreComponents(e.components)
        /\ e.nonce \in Seq(Byte) /\ FitsBytes(Len(e.nonce), 4)
    BY DEF IsClaims
  <1>2. Len(e.nonce) \in Nat
    BY <1>1, LenProperties
  <1>3. h \in Nat /\ HeadLen(Len(e.nonce)) \in Nat
    BY <1>1, <1>2, HeadCosts
  <1>4. g \in Nat
    BY <1>2, <1>3 DEF StringLen
  <1>5. v \in Nat
    BY <1>1, VersionLen
  <1>6. ComponentLen = 77
    BY StringLens, SMT DEF ComponentLen
  <1>7. len = 1 + (3 + 26) + (3 + h) + (3 + 3) + (3 + 34) + (3 + 1 + 77 + 77 + 1 + v) + (1 + g) + (3 + 35)
    BY <1>6, StringLens, Zenon DEF PayloadLen
  <1> HIDE DEF len, h, v, g
  <1>8. len \in Nat
    BY <1>3, <1>4, <1>5, <1>7, SMT
  <1> QED
    BY <1>8 DEF len, h

-----------------------------------------------------------------------------
(* The claims and the message read back *)

\* For all claims the PTA puts together, what it writes reads back as them, in the length
\* the calculations of the buffers rely on, and NULL is exactly what does not fit.
THEOREM ClaimsAreReadBack == Spec => []ClaimsReadBack
  <1>1. Chosen => ClaimsReadBack
    <2> SUFFICES ASSUME Chosen, input.k = "claims"
                 PROVE  ClaimsReadBack
      BY DEF ClaimsReadBack
    <2> DEFINE e   == input.of
               out == encode_evidence_to_cbor(e, 512)
               h   == HeadLen(e.client)
               v   == Len(e.components[2].version.bytes) - 1
               g   == Len(e.nonce)
               len == PayloadLen(h, v, g)
               c   == QCBOREncode_Init(FALSE, 512)
    <2>1. IsClaims(e)
      <3>1. input \in Inputs
        BY DEF Chosen
      <3> QED
        BY <3>1, InputsAssumption, Zenon
    <2>2. ClaimsReadBack <=>
            /\ out.null = (len > 512)
            /\ ~out.null => Len(out.bytes) = len /\ IsEncoding(out.bytes, ClaimsDoc(e))
      BY Zenon DEF ClaimsReadBack
    <2>3. c = QCBOREncode_Init(FALSE, 512)
      OBVIOUS
    <2> HIDE DEF e, c
    <2>4. PICK d : out = Result(d) /\ Made(c, d, ClaimsDoc(e), 1, len)
      BY <2>1, <2>3, ClaimsMade
    <2>5. len \in Nat
      BY <2>1, ClaimsLen
    <2> DEFINE cap == 512
    <2>6. /\ c = QCBOREncode_Init(FALSE, cap) /\ cap \in Nat /\ cap < MAX_ARRAY_OFFSET /\ IsUint64(cap)
          /\ 1 \in Nat
      BY <2>3, Caps
    <2> HIDE DEF cap, len, out
    <2>7. Yields(QCBOREncode_Finish(d).out, ClaimsDoc(e), len, cap)
      BY <2>4, <2>5, <2>6, ResultMade, Zenon
    <2>8. Yields(out, ClaimsDoc(e), len, 512)
      BY <2>4, <2>7 DEF Result, cap
    <2> QED
      BY <2>2, <2>8 DEF Yields
  <1> QED
    BY <1>1, InputIsChosen, PTL

\* For every payload, what has been signed is the Sig_structure over the header and payload
\* that are in the message, whatever the signature, and a message missing is one that was
\* not signed or that does not fit.
THEOREM CoseIsWhatIsSigned == Spec => []CoseCarriesWhatIsSigned
  <1>1. Chosen => CoseCarriesWhatIsSigned
    <2> SUFFICES ASSUME Chosen, input.k = "cose"
                 PROVE  CoseCarriesWhatIsSigned
      BY DEF CoseCarriesWhatIsSigned
    <2> DEFINE p    == input.payload
               sig  == IF input.signs THEN UsefulBufC(Filled(64)) ELSE NULLUsefulBufC
               len  == Len(p)
               prot == encode_protected_parameter(HEADER_BUFFER_SIZE).bytes
               made == generate_cose(p, 512, sig)
               header    == <<Map_(1), Int_(1), Int_(-7)>>
               sigStruct == <<Array_(4), Text_(<<83, 105, 103, 110, 97, 116, 117, 114, 101, 49>>),
                              Bytes_(prot), Bytes_(<< >>), Bytes_(p)>>
               message   == <<Tag_(18), Array_(4), Bytes_(prot), Map_(0), Bytes_(p), Bytes_(sig.bytes)>>
               tbs    == create_tbs(prot, << >>, p, 512)
               tagged == QCBOREncode_AddTag(QCBOREncode_Init(FALSE, 512), CBOR_TAG_COSE_SIGN1)
               d1     == AddBytes(OpenArray(tagged, NoLabel), NoLabel, prot)
               d3     == AddBytes(CloseMap(OpenMap(d1, NoLabel)), NoLabel, p)
               d4     == AddBytes(d3, NoLabel, sig.bytes)
               cose   == Result(CloseArray(d4))
    <2>1. p \in Seq(Byte) /\ FitsBytes(Len(p), 4) /\ input.signs \in BOOLEAN
      <3>1. input \in Inputs
        BY DEF Chosen
      <3> QED
        BY <3>1, InputsAssumption, Zenon
    <2> DEFINE Right(m) ==
                 /\ m.cose.null = (~input.signs \/ TbsLen(len) > 512 \/ CoseLen(len) > 512)
                 /\ IsEncoding(prot, header)
                 /\ m.tbs.null \/ IsEncoding(m.tbs.bytes, sigStruct)
                 /\ m.cose.null \/ IsEncoding(m.cose.bytes, message)
    <2>2. Right(made) => CoseCarriesWhatIsSigned
      <3>1. (\A m \in {made} : Right(m)) => CoseCarriesWhatIsSigned
        BY DEF CoseCarriesWhatIsSigned
      <3> HIDE DEF Right, made
      <3> QED
        BY <3>1
    <2>3. encode_protected_parameter(HEADER_BUFFER_SIZE).null = FALSE /\ prot \in Seq(Byte) /\ Len(prot) = 3
          /\ IsEncoding(prot, header)
      <3>1. (3 > 256) = FALSE
        OBVIOUS
      <3>2. encode_protected_parameter(HEADER_BUFFER_SIZE).null = FALSE
        BY <3>1, ProtectedMade DEF Yields, ProtectedLen
      <3> QED
        BY <3>2, ProtectedMade DEF Yields, ProtectedLen
    <2>4. /\ made.tbs = tbs
          /\ made.cose = IF encode_protected_parameter(HEADER_BUFFER_SIZE).null \/ tbs.null \/ sig.null
                         THEN NULLUsefulBufC ELSE cose
      BY DEF generate_cose, NULLUsefulBufC, TBS_BUFFER_SIZE
    <2>5. sig.null = ~input.signs /\ (input.signs => sig.bytes \in Seq(Byte) /\ Len(sig.bytes) = 64)
      <3>1. Filled(64) \in Seq(Byte) /\ Len(Filled(64)) = 64
        BY FilledType
      <3> QED
        BY <2>1, <3>1 DEF UsefulBufC, NULLUsefulBufC
    <2> HIDE DEF p, sig, prot, made, header
    <2>6. Yields(tbs, <<Array_(4), Text_(Ten), Bytes_(prot), Bytes_(<< >>), Bytes_(p)>>, TbsLen(len), 512)
      BY <2>1, <2>3, TbsMade
    <2>7. input.signs => Yields(cose, message, CoseLen(len), 512)
      BY <2>1, <2>3, <2>5, SignedMade, ZenonT(40)
    <2>8. sigStruct = <<Array_(4), Text_(Ten), Bytes_(prot), Bytes_(<< >>), Bytes_(p)>>
      BY DEF Ten
    <2> DEFINE big1 == TbsLen(len) > 512
               big2 == CoseLen(len) > 512
    <2> HIDE DEF tbs, cose, sigStruct, message, len
    <2>9. tbs.null = big1 /\ (~tbs.null => IsEncoding(tbs.bytes, sigStruct))
      BY <2>6, <2>8 DEF Yields
    <2>10. input.signs => cose.null = big2 /\ (~cose.null => IsEncoding(cose.bytes, message))
      BY <2>7 DEF Yields
    <2>11. NULLUsefulBufC.null = TRUE
      BY DEF NULLUsefulBufC
    <2>12. big1 \in BOOLEAN /\ big2 \in BOOLEAN
      OBVIOUS
    <2> HIDE DEF big1, big2
    <2>13. made.cose.null = (~input.signs \/ big1 \/ big2)
      BY <2>1, <2>3, <2>4, <2>5, <2>9, <2>10, <2>11, <2>12
    <2>14. made.cose.null \/ IsEncoding(made.cose.bytes, message)
      BY <2>1, <2>3, <2>4, <2>5, <2>9, <2>10, <2>11, <2>12
    <2>15. Right(made)
      BY <2>3, <2>4, <2>9, <2>13, <2>14 DEF big1, big2, len
    <2> QED
      BY <2>2, <2>15
  <1> QED
    BY <1>1, InputIsChosen, PTL

=============================================================================
