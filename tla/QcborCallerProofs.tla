------------------------- MODULE QcborCallerProofs -------------------------
(***************************************************************************)
(* The safety of the CBOR encoder, for any limits, any sizes of the        *)
(* buffer, any numbers and strings and any sequence of calls.              *)
(***************************************************************************)
EXTENDS QcborCaller, CborProofs

-----------------------------------------------------------------------------
(* A context with its size calculation *)

\* Two contexts of which neither ran out of room and that hold the same.
Same(c, k) ==
    /\ ~c.out.err /\ ~k.out.err
    /\ c.out.data = k.out.data /\ c.nesting = k.nesting /\ c.uError = k.uError

\* While the first has room the second holds the same; once it has none, the second holds
\* more than fits the first, or has run out of room itself.
Agree(c, k) ==
    IF c.out.err THEN k.out.err \/ Len(k.out.data) > c.out.cap ELSE Same(c, k)

Pair(c, k) == Good(c) /\ Good(k) /\ c.out.cap <= k.out.cap /\ Agree(c, k)

\* What is to be shown of a function on both contexts.
LEMMA PairStep ==
  ASSUME NEW c, NEW k, NEW d, NEW l, Pair(c, k), Grows(c, d), Grows(k, l),
         Same(c, k) => Agree(d, l)
  PROVE  Pair(d, l)
  <1>1. Good(d) /\ Good(l) /\ d.out.cap <= l.out.cap
    BY DEF Pair, Grows
  <1>2. CASE ~c.out.err
    BY <1>1, <1>2 DEF Pair, Agree
  <1>3. CASE c.out.err
    <2>1. d.out.err
      BY <1>3 DEF Grows
    <2>2. /\ Len(k.out.data) \in Nat /\ Len(l.out.data) \in Nat /\ c.out.cap \in Nat
          /\ Len(k.out.data) <= Len(l.out.data)
          /\ d.out.cap = c.out.cap
      BY LenProperties DEF Pair, Grows, Good, Contexts, OutBufs
    <2>3. k.out.err \/ Len(k.out.data) > c.out.cap
      BY <1>3 DEF Pair, Agree
    <2>4. l.out.err \/ Len(l.out.data) > d.out.cap
      BY <2>2, <2>3, LeqTransitive, Zenon DEF Grows
    <2> QED
      BY <1>1, <2>1, <2>4 DEF Pair, Agree
  <1> QED
    BY <1>2, <1>3

-----------------------------------------------------------------------------
(* The same calls on a context and on its size calculation *)

\* A function that leaves the output alone.
LEMMA QuietPair ==
  ASSUME NEW c, NEW k, NEW d, NEW l, Pair(c, k), Grows(c, d), Grows(k, l),
         d.out = c.out, l.out = k.out,
         Same(c, k) => d.nesting = l.nesting /\ d.uError = l.uError
  PROVE  Pair(d, l)
  <1>1. Same(c, k) => Agree(d, l)
    BY DEF Same, Agree
  <1> QED
    BY <1>1, PairStep

\* The error of a context.
LEMMA ErrorPair ==
  ASSUME NEW c, NEW k, Pair(c, k), NEW e \in Errors, NEW f \in Errors, Same(c, k) => e = f
  PROVE  Pair(SetError(c, e), SetError(k, f))
  <1>1. Good(c) /\ Good(k)
    BY DEF Pair
  <1>2. /\ Grows(c, SetError(c, e)) /\ SetError(c, e).out = c.out
        /\ SetError(c, e).nesting = c.nesting /\ SetError(c, e).uError = e
    BY <1>1, SetErrorGrows
  <1>3. /\ Grows(k, SetError(k, f)) /\ SetError(k, f).out = k.out
        /\ SetError(k, f).nesting = k.nesting /\ SetError(k, f).uError = f
    BY <1>1, SetErrorGrows
  <1>4. Same(c, k) => c.nesting = k.nesting
    BY DEF Same
  <1> QED
    BY <1>2, <1>3, <1>4, QuietPair

\* Bytes written to both: the first runs out of room no later than the second.
LEMMA WriteAgrees ==
  ASSUME NEW c, NEW k, Pair(c, k), Same(c, k), NEW new \in Seq(Byte), NEW pos \in 0..Len(c.out.data)
  PROVE  Agree(Write(c, new, pos), Write(k, new, pos))
  <1> DEFINE d == Write(c, new, pos)
             l == Write(k, new, pos)
             n == Len(c.out.data) + Len(new)
  <1>1. /\ Good(c) /\ Good(k) /\ c.out.data = k.out.data /\ c.out.cap <= k.out.cap
        /\ ~c.out.err /\ ~k.out.err /\ c.nesting = k.nesting /\ c.uError = k.uError
    BY DEF Pair, Same
  <1>2. /\ c.out.data \in Seq(Byte) /\ Len(c.out.data) \in Nat /\ Len(new) \in Nat
        /\ c.out.cap \in Nat /\ k.out.cap \in Nat
    BY <1>1, GoodFields, LenProperties
  <1>3. /\ Grows(c, d) /\ d.nesting = c.nesting /\ d.uError = c.uError
        /\ ~c.out.err => (d.out.err <=> Len(c.out.data) + Len(new) > c.out.cap)
        /\ ~d.out.err => d.out.data = Spliced(c.out.data, new, pos)
    BY <1>1, WriteGrows
  <1>4. /\ Grows(k, l) /\ l.nesting = k.nesting /\ l.uError = k.uError
        /\ ~k.out.err => (l.out.err <=> Len(k.out.data) + Len(new) > k.out.cap)
        /\ ~l.out.err => l.out.data = Spliced(k.out.data, new, pos)
    BY <1>1, WriteGrows
  <1> HIDE DEF d, l
  <1>5. Len(Spliced(c.out.data, new, pos)) = n
    BY <1>2, SplicedType
  <1>6. CASE n > c.out.cap
    <2>1. d.out.err
      BY <1>1, <1>3, <1>6
    <2>2. ~l.out.err => Len(l.out.data) = n
      BY <1>1, <1>4, <1>5
    <2>3. l.out.err \/ Len(l.out.data) > d.out.cap
      BY <1>3, <1>6, <2>2 DEF Grows
    <2> QED
      BY <2>1, <2>3 DEF Agree, d, l
  <1>7. CASE ~(n > c.out.cap)
    <2>1. ~d.out.err
      BY <1>1, <1>3, <1>7
    <2>2. ~(n > k.out.cap)
      BY <1>1, <1>2, <1>7
    <2>3. ~l.out.err
      BY <1>1, <1>4, <2>2
    <2> QED
      BY <1>1, <1>3, <1>4, <2>1, <2>3 DEF Agree, Same, d, l
  <1> QED
    BY <1>6, <1>7

\* Bytes behind the output.
LEMMA AppendPair ==
  ASSUME NEW c, NEW k, Pair(c, k), NEW new \in Seq(Byte)
  PROVE  Pair([c EXCEPT !.out = UsefulOutBuf_AppendUsefulBuf(@, new)],
              [k EXCEPT !.out = UsefulOutBuf_AppendUsefulBuf(@, new)])
  <1> DEFINE d == Write(c, new, Len(c.out.data))
             l == Write(k, new, Len(k.out.data))
  <1>1. Good(c) /\ Good(k)
    BY DEF Pair
  <1>2. Len(c.out.data) \in 0..Len(c.out.data) /\ Len(k.out.data) \in 0..Len(k.out.data)
    BY <1>1, GoodFields
  <1>3. Grows(c, d) /\ Grows(k, l)
    BY <1>1, <1>2, WriteGrows
  <1>4. ASSUME Same(c, k) PROVE Agree(d, l)
    <2>1. c.out.data = k.out.data
      BY <1>4 DEF Same
    <2> QED
      BY <1>2, <1>4, <2>1, WriteAgrees
  <1>5. Pair(d, l)
    BY <1>3, <1>4, PairStep
  <1> QED
    BY <1>5 DEF Write, UsefulOutBuf_AppendUsefulBuf, UsefulOutBuf_GetEndPosition

\* A head is written to both or sets the error of the smaller buffer.
LEMMA HeadPair ==
  ASSUME NEW c, NEW k, Pair(c, k), NEW type \in Nat, NEW n \in Nat, IsUint64(n)
  PROVE  Pair(AppendCBORHead(c, type, n, 0), AppendCBORHead(k, type, n, 0))
  <1>1. QCBOREncode_EncodeHead(type, 0, n) \in Seq(Byte)
    BY HeadType
  <1> QED
    BY <1>1, AppendPair DEF AppendCBORHead

\* An item is counted in both.
LEMMA IncrementPair ==
  ASSUME NEW c, NEW k, Pair(c, k)
  PROVE  Pair(IncrementMapOrArrayCount(c), IncrementMapOrArrayCount(k))
  <1> DEFINE d == IncrementMapOrArrayCount(c)
             l == IncrementMapOrArrayCount(k)
  <1>1. Good(c) /\ Good(k)
    BY DEF Pair
  <1>2. Grows(c, d) /\ d.out = c.out /\ Grows(k, l) /\ l.out = k.out
    BY <1>1, IncrementGrows
  <1>3. ASSUME Same(c, k) PROVE d.nesting = l.nesting /\ d.uError = l.uError
    <2>1. c.nesting = k.nesting /\ c.uError = k.uError
      BY <1>3 DEF Same
    <2>2. Current(c) = Current(k)
      BY <2>1 DEF Current
    <2>3. CASE c.uError # "SUCCESS"
      BY <2>1, <2>3 DEF IncrementMapOrArrayCount
    <2>4. CASE c.uError = "SUCCESS" /\ 1 >= MAX_ITEMS_IN_ARRAY - Current(c).count
      <3>1. d = SetError(c, "ARRAY_TOO_LONG") /\ l = SetError(k, "ARRAY_TOO_LONG")
        BY <2>1, <2>2, <2>4 DEF IncrementMapOrArrayCount, Nesting_Increment
      <3>2. "ARRAY_TOO_LONG" \in Errors
        BY DEF Errors
      <3>3. /\ SetError(c, "ARRAY_TOO_LONG").nesting = c.nesting
            /\ SetError(c, "ARRAY_TOO_LONG").uError = "ARRAY_TOO_LONG"
            /\ SetError(k, "ARRAY_TOO_LONG").nesting = k.nesting
            /\ SetError(k, "ARRAY_TOO_LONG").uError = "ARRAY_TOO_LONG"
        BY <1>1, <3>2, SetErrorGrows
      <3> QED
        BY <2>1, <3>1, <3>3
    <2>5. CASE c.uError = "SUCCESS" /\ ~(1 >= MAX_ITEMS_IN_ARRAY - Current(c).count)
      <3>1. /\ d = [c EXCEPT !.nesting[Len(c.nesting)].count = @ + 1]
            /\ l = [k EXCEPT !.nesting[Len(k.nesting)].count = @ + 1]
        BY <2>1, <2>2, <2>5 DEF IncrementMapOrArrayCount, Nesting_Increment
      <3>2. c \in Contexts /\ k \in Contexts
        BY <1>1 DEF Good
      <3> QED
        BY <2>1, <3>1, <3>2 DEF Contexts
    <2> QED
      BY <2>3, <2>4, <2>5
  <1> QED
    BY <1>2, <1>3, QuietPair

-----------------------------------------------------------------------------
(* Items *)

\* A head that is an item.
LEMMA ItemPair ==
  ASSUME NEW c, NEW k, Pair(c, k), NEW type \in Nat, NEW n \in Nat, IsUint64(n)
  PROVE  Pair(IncrementMapOrArrayCount(AppendCBORHead(c, type, n, 0)),
              IncrementMapOrArrayCount(AppendCBORHead(k, type, n, 0)))
  <1>1. Pair(AppendCBORHead(c, type, n, 0), AppendCBORHead(k, type, n, 0))
    BY HeadPair
  <1> QED
    BY <1>1, IncrementPair

\* QCBOREncode_AddUInt64 on both contexts.
LEMMA UInt64Pair ==
  ASSUME NEW c, NEW k, Pair(c, k), NEW n \in Nat, IsUint64(n)
  PROVE  Pair(QCBOREncode_AddUInt64(c, n), QCBOREncode_AddUInt64(k, n))
  BY ItemPair DEF QCBOREncode_AddUInt64, POSITIVE_INT

\* QCBOREncode_AddInt64 on both contexts.
LEMMA Int64Pair ==
  ASSUME NEW c, NEW k, Pair(c, k), NEW n \in Int, IsUint64(IF n < 0 THEN -(n + 1) ELSE n)
  PROVE  Pair(QCBOREncode_AddInt64(c, n), QCBOREncode_AddInt64(k, n))
  <1>1. CASE n < 0
    <2>1. -(n + 1) \in Nat /\ IsUint64(-(n + 1))
      BY <1>1
    <2> QED
      BY <1>1, <2>1, ItemPair DEF QCBOREncode_AddInt64, NEGATIVE_INT
  <1>2. CASE ~(n < 0)
    <2>1. n \in Nat /\ IsUint64(n)
      BY <1>2
    <2> QED
      BY <1>2, <2>1, ItemPair DEF QCBOREncode_AddInt64, POSITIVE_INT
  <1> QED
    BY <1>1, <1>2

\* QCBOREncode_AddBuffer on both contexts.
LEMMA BufferPair ==
  ASSUME NEW c, NEW k, Pair(c, k), NEW type \in {BYTE_STRING, TEXT_STRING, RAW, BSTR_LEN_ONLY},
         NEW bytes \in Seq(Byte), IsUint64(Len(bytes))
  PROVE  Pair(QCBOREncode_AddBuffer(c, type, bytes), QCBOREncode_AddBuffer(k, type, bytes))
  <1> DEFINE real == IF type = BSTR_LEN_ONLY THEN BYTE_STRING ELSE type
             Headed(x) == IF type = RAW THEN x ELSE AppendCBORHead(x, real, Len(bytes), 0)
             Filled(x) == IF type = BSTR_LEN_ONLY THEN Headed(x)
                          ELSE [Headed(x) EXCEPT !.out = UsefulOutBuf_AppendUsefulBuf(@, bytes)]
  <1>1. real \in Nat /\ Len(bytes) \in Nat
    BY LenProperties DEF BYTE_STRING, TEXT_STRING, RAW, BSTR_LEN_ONLY
  <1> HIDE DEF real
  <1>2. Pair(Headed(c), Headed(k))
    BY <1>1, HeadPair
  <1> HIDE DEF Headed
  <1>3. Pair(Filled(c), Filled(k))
    BY <1>2, AppendPair
  <1> HIDE DEF Filled
  <1>4. Pair(IncrementMapOrArrayCount(Filled(c)), IncrementMapOrArrayCount(Filled(k)))
    BY <1>3, IncrementPair
  <1> QED
    BY <1>4 DEF QCBOREncode_AddBuffer, Filled, Headed, real

\* QCBOREncode_AddTag on both contexts.
LEMMA TagPair ==
  ASSUME NEW c, NEW k, Pair(c, k), NEW tag \in Small
  PROVE  Pair(QCBOREncode_AddTag(c, tag), QCBOREncode_AddTag(k, tag))
  <1>1. tag \in Nat /\ IsUint64(tag)
    BY SmallUint64
  <1> QED
    BY <1>1, HeadPair DEF QCBOREncode_AddTag, TAG

\* A simple value is refused or written by both, unless the first has no room any more.
LEMMA Type7Pair ==
  ASSUME NEW c, NEW k, Pair(c, k), NEW num \in Small
  PROVE  Pair(QCBOREncode_AddType7(c, 0, num), QCBOREncode_AddType7(k, 0, num))
  <1> DEFINE F(x) == QCBOREncode_AddType7(x, 0, num)
             W(x) == IncrementMapOrArrayCount(AppendCBORHead(x, SIMPLE, num, 0))
             E(x) == SetError(x, "ENCODE_UNSUPPORTED")
  <1>1. num \in Nat /\ IsUint64(num) /\ SIMPLE \in Nat /\ "ENCODE_UNSUPPORTED" \in Errors
    BY SmallUint64 DEF SIMPLE, Errors
  <1>2. ASSUME NEW x, Good(x) PROVE Grows(x, F(x))
    <2>1. Grows(x, E(x))
      BY <1>1, <1>2, SetErrorGrows
    <2> DEFINE y == AppendCBORHead(x, SIMPLE, num, 0)
    <2>2. Grows(x, y)
      BY <1>1, <1>2, HeadGrows
    <2> HIDE DEF y
    <2>5. Good(y)
      BY <2>2 DEF Grows
    <2>3. Grows(y, IncrementMapOrArrayCount(y))
      BY <2>5, IncrementGrows
    <2>4. Grows(x, IncrementMapOrArrayCount(y))
      BY <1>2, <2>2, <2>3, GrowsTransitive
    <2> QED
      BY <2>1, <2>4 DEF QCBOREncode_AddType7, y
  <1>3. Pair(W(c), W(k)) /\ Pair(E(c), E(k))
    BY <1>1, ItemPair, ErrorPair
  <1>4. ASSUME Same(c, k) PROVE Agree(F(c), F(k))
    <2>1. c.uError = k.uError
      BY <1>4 DEF Same
    <2>2. CASE c.uError = "SUCCESS" /\ num \in 24..31
      BY <1>3, <2>1, <2>2 DEF QCBOREncode_AddType7, Pair
    <2>3. CASE ~(c.uError = "SUCCESS" /\ num \in 24..31)
      BY <1>3, <2>1, <2>3 DEF QCBOREncode_AddType7, Pair
    <2> QED
      BY <2>2, <2>3
  <1>5. Good(c) /\ Good(k)
    BY DEF Pair
  <1>6. Grows(c, F(c)) /\ Grows(k, F(k))
    BY <1>2, <1>5
  <1> HIDE DEF F
  <1>7. Pair(F(c), F(k))
    BY <1>4, <1>6, PairStep
  <1> QED
    BY <1>7 DEF F

-----------------------------------------------------------------------------
(* Levels *)

\* The new level starts at the end of both outputs.
LEMMA IncreasePair ==
  ASSUME NEW c, NEW k, Pair(c, k), NEW type \in Nat
  PROVE  Pair(Nesting_Increase(c, type, Len(c.out.data)), Nesting_Increase(k, type, Len(k.out.data)))
  <1> DEFINE F(x) == Nesting_Increase(x, type, Len(x.out.data))
  <1>1. Good(c) /\ Good(k)
    BY DEF Pair
  <1>2. Grows(c, F(c)) /\ F(c).out = c.out /\ Grows(k, F(k)) /\ F(k).out = k.out
    BY <1>1, IncreaseGrows
  <1>3. ASSUME Same(c, k) PROVE F(c).nesting = F(k).nesting /\ F(c).uError = F(k).uError
    <2>1. c.nesting = k.nesting /\ c.out.data = k.out.data /\ c \in Contexts /\ k \in Contexts
      BY <1>1, <1>3 DEF Same, Good
    <2>2. CASE Len(c.nesting) = MAX_ARRAY_NESTING + 1
      <3>1. F(c) = SetError(c, "ARRAY_NESTING_TOO_DEEP") /\ F(k) = SetError(k, "ARRAY_NESTING_TOO_DEEP")
        BY <2>1, <2>2 DEF Nesting_Increase
      <3> QED
        BY <2>1, <3>1 DEF SetError, Contexts
    <2>3. CASE Len(c.nesting) # MAX_ARRAY_NESTING + 1
      <3> DEFINE nest == Append(c.nesting, Nesting_Level(type, Len(c.out.data)))
                 C    == [c EXCEPT !.nesting = nest]
                 K    == [k EXCEPT !.nesting = nest]
      <3>1. F(c) = SetError(C, "SUCCESS") /\ F(k) = SetError(K, "SUCCESS")
        BY <2>1, <2>3 DEF Nesting_Increase
      <3> HIDE DEF nest, F
      <3>2. /\ SetError(C, "SUCCESS").nesting = nest /\ SetError(C, "SUCCESS").uError = "SUCCESS"
            /\ SetError(K, "SUCCESS").nesting = nest /\ SetError(K, "SUCCESS").uError = "SUCCESS"
        BY <2>1 DEF SetError, Contexts
      <3> QED
        BY <3>1, <3>2
    <2> QED
      BY <2>2, <2>3
  <1> HIDE DEF F
  <1>4. Pair(F(c), F(k))
    BY <1>2, <1>3, QuietPair
  <1> QED
    BY <1>4 DEF F

\* QCBOREncode_OpenMapOrArray on both contexts.
LEMMA OpenPair ==
  ASSUME NEW c, NEW k, Pair(c, k), NEW type \in Nat
  PROVE  Pair(QCBOREncode_OpenMapOrArray(c, type), QCBOREncode_OpenMapOrArray(k, type))
  <1> DEFINE F(x) == QCBOREncode_OpenMapOrArray(x, type)
             d == IncrementMapOrArrayCount(c)
             l == IncrementMapOrArrayCount(k)
  <1>1. Good(c) /\ Good(k)
    BY DEF Pair
  <1>2. Grows(c, F(c)) /\ Grows(k, F(k))
    BY <1>1, OpenGrows
  <1>3. Pair(d, l) /\ d.out = c.out /\ l.out = k.out /\ "BUFFER_TOO_LARGE" \in Errors
    BY <1>1, IncrementPair, IncrementGrows DEF Errors
  <1> HIDE DEF d, l
  <1>4. Pair(SetError(d, "BUFFER_TOO_LARGE"), SetError(l, "BUFFER_TOO_LARGE"))
    BY <1>3, ErrorPair
  <1>5. Pair(Nesting_Increase(d, type, Len(c.out.data)), Nesting_Increase(l, type, Len(k.out.data)))
    BY <1>3, IncreasePair
  <1>6. ASSUME Same(c, k) PROVE Agree(F(c), F(k))
    <2>1. c.out.data = k.out.data
      BY <1>6 DEF Same
    <2>2. CASE Len(c.out.data) >= MAX_ARRAY_OFFSET
      <3>1. F(c) = SetError(d, "BUFFER_TOO_LARGE") /\ F(k) = SetError(l, "BUFFER_TOO_LARGE")
        BY <2>1, <2>2 DEF QCBOREncode_OpenMapOrArray, UsefulOutBuf_GetEndPosition, d, l
      <3> QED
        BY <1>4, <3>1 DEF Pair
    <2>3. CASE ~(Len(c.out.data) >= MAX_ARRAY_OFFSET)
      <3>1. /\ F(c) = Nesting_Increase(d, type, Len(c.out.data))
            /\ F(k) = Nesting_Increase(l, type, Len(k.out.data))
        BY <2>1, <2>3 DEF QCBOREncode_OpenMapOrArray, UsefulOutBuf_GetEndPosition, d, l
      <3> QED
        BY <1>5, <3>1 DEF Pair
    <2> QED
      BY <2>2, <2>3
  <1> HIDE DEF F
  <1>7. Pair(F(c), F(k))
    BY <1>2, <1>6, PairStep
  <1> QED
    BY <1>7 DEF F

\* Leaving a level in both contexts.
LEMMA DecreasePair ==
  ASSUME NEW c, NEW k, Pair(c, k)
  PROVE  Pair(Nesting_Decrease(c), Nesting_Decrease(k))
  <1> DEFINE d == Nesting_Decrease(c)
             l == Nesting_Decrease(k)
  <1>1. Good(c) /\ Good(k)
    BY DEF Pair
  <1>2. /\ Grows(c, d) /\ d.out = c.out /\ d.uError = c.uError
        /\ Grows(k, l) /\ l.out = k.out /\ l.uError = k.uError
    BY <1>1, DecreaseGrows
  <1>3. ASSUME Same(c, k) PROVE d.nesting = l.nesting /\ c.uError = k.uError
    <2>1. c.nesting = k.nesting /\ c.uError = k.uError /\ c \in Contexts /\ k \in Contexts
      BY <1>1, <1>3 DEF Same, Good
    <2> QED
      BY <2>1 DEF Nesting_Decrease, Contexts
  <1> HIDE DEF d, l
  <1>4. Pair(d, l)
    BY <1>2, <1>3, QuietPair
  <1> QED
    BY <1>4 DEF d, l

\* It depends on the error and the levels alone.
LEMMA CheckSame ==
  ASSUME NEW c, NEW k, Same(c, k), NEW type
  PROVE  CheckDecreaseNesting(c, type) = CheckDecreaseNesting(k, type)
  BY DEF Same, CheckDecreaseNesting, Nesting_IsInNest, Current

\* InsertCBORHead on both contexts, with the same length while they hold the same.
LEMMA InsertHeadPair ==
  ASSUME NEW c, NEW k, Pair(c, k), NEW type \in Nat,
         NEW len \in Nat, IsUint64(len), NEW other \in Nat, IsUint64(other),
         Same(c, k) => len = other
  PROVE  Pair(InsertCBORHead(c, type, len), InsertCBORHead(k, type, other))
  <1> DEFINE d == InsertCBORHead(c, type, len)
             l == InsertCBORHead(k, type, other)
  <1>1. Good(c) /\ Good(k)
    BY DEF Pair
  <1>2. Grows(c, d) /\ Grows(k, l)
    BY <1>1, InsertHeadGrows
  <1>3. ASSUME Same(c, k) PROVE Agree(d, l)
    <2> DEFINE err  == CheckDecreaseNesting(c, type)
               head == CloseHead(type, len)
               pos  == Current(c).start
    <2>1. /\ err \in Errors /\ err = CheckDecreaseNesting(k, type)
          /\ len = other /\ pos = Current(k).start
      BY <1>1, <1>3, CheckType, CheckSame DEF Same, Current
    <2>2. head \in Seq(Byte)
      BY HeadType DEF CloseHead, BYTE_STRING
    <2>3. pos \in 0..Len(c.out.data)
      BY <1>1, GoodFields DEF Levels
    <2>4. CASE err # "SUCCESS"
      <3>1. d = SetError(c, err) /\ l = SetError(k, err)
        BY <2>1, <2>4 DEF InsertCBORHead
      <3> HIDE DEF err
      <3>2. Pair(SetError(c, err), SetError(k, err))
        BY <2>1, ErrorPair
      <3> QED
        BY <3>1, <3>2 DEF Pair
    <2>5. CASE err = "SUCCESS"
      <3> DEFINE C == Write(c, head, pos)
                 K == Write(k, head, pos)
      <3>1. d = Nesting_Decrease(C) /\ l = Nesting_Decrease(K)
        BY <2>1, <2>5 DEF InsertCBORHead, CloseHead, Write
      <3>2. pos \in 0..Len(k.out.data)
        BY <1>3, <2>3 DEF Same
      <3> HIDE DEF head, pos
      <3>3. Agree(C, K)
        BY <1>3, <2>2, <2>3, WriteAgrees
      <3>4. Grows(c, C) /\ Grows(k, K)
        BY <1>1, <2>2, <2>3, <3>2, WriteGrows
      <3> HIDE DEF C, K
      <3>5. Pair(C, K)
        BY <3>3, <3>4, PairStep
      <3>6. Pair(Nesting_Decrease(C), Nesting_Decrease(K))
        BY <3>5, DecreasePair
      <3> QED
        BY <3>1, <3>6 DEF Pair
    <2> QED
      BY <2>4, <2>5
  <1> HIDE DEF d, l
  <1>4. Pair(d, l)
    BY <1>2, <1>3, PairStep
  <1> QED
    BY <1>4 DEF d, l

-----------------------------------------------------------------------------
(* Closes *)

\* Closing a map or an array.
LEMMA ClosePair ==
  ASSUME NEW c, NEW k, Pair(c, k), NEW type \in Nat
  PROVE  Pair(QCBOREncode_CloseMapOrArray(c, type), QCBOREncode_CloseMapOrArray(k, type))
  <1>1. Good(c) /\ Good(k)
    BY DEF Pair
  <1>2. Same(c, k) => Nesting_GetCount(c) = Nesting_GetCount(k)
    BY DEF Same, Nesting_GetCount, Current
  <1>3. /\ Nesting_GetCount(c) \in Nat /\ IsUint64(Nesting_GetCount(c))
        /\ Nesting_GetCount(k) \in Nat /\ IsUint64(Nesting_GetCount(k))
    BY <1>1, GetCountType
  <1> QED
    BY <1>2, <1>3, InsertHeadPair DEF QCBOREncode_CloseMapOrArray

\* Opening without a length.
LEMMA IndefiniteOpenPair ==
  ASSUME NEW c, NEW k, Pair(c, k), NEW type \in Nat
  PROVE  Pair(QCBOREncode_OpenMapOrArrayIndefiniteLength(c, type),
              QCBOREncode_OpenMapOrArrayIndefiniteLength(k, type))
  <1>1. 0 \in Small
    BY DEF Small
  <1>2. IsUint64(0)
    BY <1>1, SmallUint64
  <1>3. Pair(AppendCBORHead(c, type, 0, 0), AppendCBORHead(k, type, 0, 0))
    BY <1>2, HeadPair
  <1> QED
    BY <1>3, OpenPair DEF QCBOREncode_OpenMapOrArrayIndefiniteLength

\* Closing such a level, which appends a break.
LEMMA IndefiniteClosePair ==
  ASSUME NEW c, NEW k, Pair(c, k), NEW type \in Nat
  PROVE  Pair(QCBOREncode_CloseMapOrArrayIndefiniteLength(c, type),
              QCBOREncode_CloseMapOrArrayIndefiniteLength(k, type))
  <1> DEFINE F(x) == QCBOREncode_CloseMapOrArrayIndefiniteLength(x, type)
             brk  == SIMPLE + INDEFINITE_LEN_TYPE_MODIFIER
             W(x) == AppendCBORHead(x, brk, 31, 0)
  <1>1. brk \in Nat /\ 31 \in Small
    BY DEF SIMPLE, INDEFINITE_LEN_TYPE_MODIFIER, Small
  <1>2. 31 \in Nat /\ IsUint64(31)
    BY <1>1, SmallUint64
  <1>3. Good(c) /\ Good(k)
    BY DEF Pair
  <1>4. ASSUME NEW x, Good(x) PROVE Grows(x, F(x))
    <2> HIDE DEF brk
    <2>1. Grows(x, W(x))
      BY <1>1, <1>2, <1>4, HeadGrows
    <2> HIDE DEF W
    <2>2. Good(W(x))
      BY <2>1 DEF Grows
    <2>3. Grows(W(x), Nesting_Decrease(W(x)))
      BY <2>2, DecreaseGrows
    <2>4. Grows(x, Nesting_Decrease(W(x)))
      BY <1>4, <2>1, <2>3, GrowsTransitive
    <2>5. Grows(x, SetError(x, CheckDecreaseNesting(x, type)))
      BY <1>4, CheckType, SetErrorGrows
    <2> QED
      BY <2>4, <2>5 DEF QCBOREncode_CloseMapOrArrayIndefiniteLength, W, brk
  <1>5. Pair(Nesting_Decrease(W(c)), Nesting_Decrease(W(k)))
    <2> HIDE DEF brk
    <2>1. Pair(W(c), W(k))
      BY <1>1, <1>2, HeadPair
    <2> QED
      BY <2>1, DecreasePair
  <1>6. ASSUME Same(c, k) PROVE Agree(F(c), F(k))
    <2> DEFINE err == CheckDecreaseNesting(c, type)
    <2>1. err \in Errors /\ err = CheckDecreaseNesting(k, type)
      BY <1>3, <1>6, CheckType, CheckSame
    <2>2. CASE err # "SUCCESS"
      <3>1. F(c) = SetError(c, err) /\ F(k) = SetError(k, err)
        BY <2>1, <2>2 DEF QCBOREncode_CloseMapOrArrayIndefiniteLength
      <3> HIDE DEF err
      <3>2. Pair(SetError(c, err), SetError(k, err))
        BY <2>1, ErrorPair
      <3> QED
        BY <3>1, <3>2 DEF Pair
    <2>3. CASE err = "SUCCESS"
      <3>1. F(c) = Nesting_Decrease(W(c)) /\ F(k) = Nesting_Decrease(W(k))
        BY <2>1, <2>3 DEF QCBOREncode_CloseMapOrArrayIndefiniteLength
      <3> QED
        BY <1>5, <3>1 DEF Pair
    <2> QED
      BY <2>2, <2>3
  <1>7. Grows(c, F(c)) /\ Grows(k, F(k))
    BY <1>3, <1>4
  <1> HIDE DEF F
  <1>8. Pair(F(c), F(k))
    BY <1>6, <1>7, PairStep
  <1> QED
    BY <1>8 DEF F

\* Closing a wrap: what it holds is no longer than the buffer.
LEMMA CloseWrapPair ==
  ASSUME NEW c, NEW k, Pair(c, k), NEW includeHead
  PROVE  Pair(QCBOREncode_CloseBstrWrap2(c, includeHead).ctx,
              QCBOREncode_CloseBstrWrap2(k, includeHead).ctx)
  <1> DEFINE N(x) == Len(x.out.data) - Current(x).start
  <1>1. Good(c) /\ Good(k)
    BY DEF Pair
  <1>2. ASSUME NEW x, Good(x) PROVE N(x) \in Nat /\ IsUint64(N(x))
    BY <1>2, LevelLength
  <1>3. Same(c, k) => N(c) = N(k)
    BY DEF Same, Current
  <1>4. N(c) \in Nat /\ IsUint64(N(c)) /\ N(k) \in Nat /\ IsUint64(N(k)) /\ BYTE_STRING \in Nat
    BY <1>1, <1>2 DEF BYTE_STRING
  <1> HIDE DEF N
  <1>5. Pair(InsertCBORHead(c, BYTE_STRING, N(c)), InsertCBORHead(k, BYTE_STRING, N(k)))
    BY <1>3, <1>4, InsertHeadPair
  <1> QED
    BY <1>5 DEF QCBOREncode_CloseBstrWrap2, UsefulOutBuf_GetEndPosition, N

\* Nesting_Decrement on both contexts.
LEMMA DecrementPair ==
  ASSUME NEW c, NEW k, Pair(c, k)
  PROVE  Pair(Nesting_Decrement(c), Nesting_Decrement(k))
  <1> DEFINE d == Nesting_Decrement(c)
             l == Nesting_Decrement(k)
  <1>1. Good(c) /\ Good(k)
    BY DEF Pair
  <1>2. /\ Grows(c, d) /\ d.out = c.out /\ d.uError = c.uError
        /\ d.nesting = [c.nesting EXCEPT ![Len(c.nesting)].count
                            = (Current(c).count - 1) % CountRange]
    BY <1>1, DecrementGrows
  <1>3. /\ Grows(k, l) /\ l.out = k.out /\ l.uError = k.uError
        /\ l.nesting = [k.nesting EXCEPT ![Len(k.nesting)].count
                            = (Current(k).count - 1) % CountRange]
    BY <1>1, DecrementGrows
  <1> HIDE DEF d, l
  <1>4. Same(c, k) => d.nesting = l.nesting /\ d.uError = l.uError
    BY <1>2, <1>3 DEF Same, Current
  <1>5. Pair(d, l)
    BY <1>2, <1>3, <1>4, QuietPair
  <1> QED
    BY <1>5 DEF d, l

\* Cancelling a wrap is refused or done on both.
LEMMA CancelPair ==
  ASSUME NEW c, NEW k, Pair(c, k)
  PROVE  Pair(QCBOREncode_CancelBstrWrap(c), QCBOREncode_CancelBstrWrap(k))
  <1> DEFINE F(x) == QCBOREncode_CancelBstrWrap(x)
             D(x) == Nesting_Decrement(Nesting_Decrease(x))
             E(x) == SetError(x, "CANNOT_CANCEL")
  <1>1. Good(c) /\ Good(k) /\ "CANNOT_CANCEL" \in Errors
    BY DEF Pair, Errors
  <1>2. ASSUME NEW x, Good(x) PROVE Grows(x, F(x))
    <2> DEFINE y == Nesting_Decrease(x)
    <2>1. Grows(x, y)
      BY <1>2, DecreaseGrows
    <2> HIDE DEF y
    <2>2. Good(y)
      BY <2>1 DEF Grows
    <2>3. Grows(y, Nesting_Decrement(y))
      BY <2>2, DecrementGrows
    <2>4. Grows(x, Nesting_Decrement(y))
      BY <1>2, <2>1, <2>3, GrowsTransitive
    <2>5. Grows(x, SetError(x, CheckDecreaseNesting(x, BYTE_STRING)))
      BY <1>2, CheckType, SetErrorGrows
    <2>6. Grows(x, E(x))
      BY <1>1, <1>2, SetErrorGrows
    <2> QED
      BY <2>4, <2>5, <2>6 DEF QCBOREncode_CancelBstrWrap, y
  <1>3. Pair(D(c), D(k))
    BY DecreasePair, DecrementPair
  <1>4. Pair(E(c), E(k))
    BY <1>1, ErrorPair
  <1>5. ASSUME Same(c, k) PROVE Agree(F(c), F(k))
    <2> DEFINE err  == CheckDecreaseNesting(c, BYTE_STRING)
               full == Current(c).start # Len(c.out.data)
    <2>1. err \in Errors /\ err = CheckDecreaseNesting(k, BYTE_STRING)
      BY <1>1, <1>5, CheckType, CheckSame
    <2>2. full <=> Current(k).start # Len(k.out.data)
      BY <1>5 DEF Same, Current
    <2>3. CASE err # "SUCCESS"
      <3>1. F(c) = SetError(c, err) /\ F(k) = SetError(k, err)
        BY <2>1, <2>3 DEF QCBOREncode_CancelBstrWrap
      <3> HIDE DEF err
      <3>2. Pair(SetError(c, err), SetError(k, err))
        BY <2>1, ErrorPair
      <3> QED
        BY <3>1, <3>2 DEF Pair
    <2>4. CASE err = "SUCCESS" /\ full
      <3>1. F(c) = E(c) /\ F(k) = E(k)
        BY <2>1, <2>2, <2>4 DEF QCBOREncode_CancelBstrWrap, UsefulOutBuf_GetEndPosition
      <3> QED
        BY <1>4, <3>1 DEF Pair
    <2>5. CASE err = "SUCCESS" /\ ~full
      <3>1. F(c) = D(c) /\ F(k) = D(k)
        BY <2>1, <2>2, <2>5 DEF QCBOREncode_CancelBstrWrap, UsefulOutBuf_GetEndPosition
      <3> QED
        BY <1>3, <3>1 DEF Pair
    <2> QED
      BY <2>3, <2>4, <2>5
  <1>6. Grows(c, F(c)) /\ Grows(k, F(k))
    BY <1>1, <1>2
  <1> HIDE DEF F
  <1>7. Pair(F(c), F(k))
    BY <1>5, <1>6, PairStep
  <1> QED
    BY <1>7 DEF F

\* Opening a byte string the caller fills is refused inside another one.
LEMMA OpenBytesPair ==
  ASSUME NEW c, NEW k, Pair(c, k)
  PROVE  Pair(QCBOREncode_OpenBytes(c), QCBOREncode_OpenBytes(k))
  <1> DEFINE F(x) == QCBOREncode_OpenBytes(x)
             O(x) == QCBOREncode_OpenMapOrArray(x, OPEN_BSTR)
             E(x) == SetError(x, "OPEN_BYTE_STRING")
  <1>1. Good(c) /\ Good(k) /\ "OPEN_BYTE_STRING" \in Errors /\ OPEN_BSTR \in Nat
    BY DEF Pair, Errors, OPEN_BSTR
  <1>2. ASSUME NEW x, Good(x) PROVE Grows(x, F(x))
    <2>1. Grows(x, O(x)) /\ Grows(x, E(x))
      BY <1>1, <1>2, OpenGrows, SetErrorGrows
    <2> QED
      BY <2>1 DEF QCBOREncode_OpenBytes
  <1>3. Pair(O(c), O(k)) /\ Pair(E(c), E(k))
    BY <1>1, OpenPair, ErrorPair
  <1>4. ASSUME Same(c, k) PROVE Agree(F(c), F(k))
    <2>1. Current(c) = Current(k)
      BY <1>4 DEF Same, Current
    <2>2. CASE Current(c).type = OPEN_BSTR
      BY <1>3, <2>1, <2>2 DEF QCBOREncode_OpenBytes, Pair
    <2>3. CASE Current(c).type # OPEN_BSTR
      BY <1>3, <2>1, <2>3 DEF QCBOREncode_OpenBytes, Pair
    <2> QED
      BY <2>2, <2>3
  <1>5. Grows(c, F(c)) /\ Grows(k, F(k))
    BY <1>1, <1>2
  <1> HIDE DEF F
  <1>6. Pair(F(c), F(k))
    BY <1>4, <1>5, PairStep
  <1> QED
    BY <1>6 DEF F

\* Closing that byte string.
LEMMA CloseBytesPair ==
  ASSUME NEW c, NEW k, Pair(c, k), NEW new \in Seq(Byte), IsUint64(Len(new))
  PROVE  Pair(QCBOREncode_CloseBytes(c, new), QCBOREncode_CloseBytes(k, new))
  <1> DEFINE A(x) == [x EXCEPT !.out = UsefulOutBuf_AppendUsefulBuf(@, new)]
             I(x) == InsertCBORHead(x, OPEN_BSTR, Len(new))
             G(x) == IF x.out.err THEN x ELSE I(x)
             d    == A(c)
             l    == A(k)
  <1>1. Good(c) /\ Good(k) /\ Len(new) \in Nat /\ OPEN_BSTR \in Nat
    BY LenProperties DEF Pair, OPEN_BSTR
  <1>2. ASSUME NEW x, Good(x) PROVE QCBOREncode_CloseBytes(x, new) = G(A(x))
    <2>1. UsefulOutBuf_Advance(x.out, new) = UsefulOutBuf_AppendUsefulBuf(x.out, new)
      BY <1>2, GoodFields, AdvanceAppends
    <2>2. [x EXCEPT !.out = UsefulOutBuf_Advance(@, new)] = A(x)
      BY <2>1
    <2> HIDE DEF A
    <2> QED
      BY <2>2 DEF QCBOREncode_CloseBytes
  <1>3. Pair(d, l)
    BY AppendPair
  <1> HIDE DEF d, l
  <1>4. Good(d) /\ Good(l)
    BY <1>3 DEF Pair
  <1>5. Pair(I(d), I(l))
    BY <1>1, <1>3, InsertHeadPair
  <1>6. Grows(d, I(d)) /\ Grows(l, I(l)) /\ Grows(d, d) /\ Grows(l, l)
    BY <1>1, <1>4, InsertHeadGrows, GrowsReflexive
  <1> HIDE DEF I
  <1>7. Grows(d, G(d)) /\ Grows(l, G(l))
    BY <1>6
  <1>8. Same(d, l) => Agree(G(d), G(l))
    BY <1>5 DEF Same, Pair
  <1> HIDE DEF G
  <1>9. Pair(G(d), G(l))
    BY <1>3, <1>7, <1>8, PairStep
  <1> QED
    BY <1>1, <1>2, <1>9 DEF d, l

\* Asking for the error of a context.
LEMMA ErrorStatePair ==
  ASSUME NEW c, NEW k, Pair(c, k)
  PROVE  Pair(QCBOREncode_GetErrorState(c), QCBOREncode_GetErrorState(k))
  <1> DEFINE F(x) == QCBOREncode_GetErrorState(x)
  <1>1. Good(c) /\ Good(k) /\ "BUFFER_TOO_SMALL" \in Errors
    BY DEF Pair, Errors
  <1>2. ASSUME NEW x, Good(x) PROVE Grows(x, F(x))
    BY <1>1, <1>2, SetErrorGrows, GrowsReflexive DEF QCBOREncode_GetErrorState
  <1>3. Same(c, k) => Agree(F(c), F(k))
    BY DEF QCBOREncode_GetErrorState, Same, Agree
  <1>4. Grows(c, F(c)) /\ Grows(k, F(k))
    BY <1>1, <1>2
  <1> HIDE DEF F
  <1>5. Pair(F(c), F(k))
    BY <1>3, <1>4, PairStep
  <1> QED
    BY <1>5 DEF F

-----------------------------------------------------------------------------
(* Labels and tags *)

\* The characters in front of the zero of a C string are no more than it was made of.
LEMMA FromSZType ==
  ASSUME NEW b \in Seq(Byte), IsUint64(Len(b))
  PROVE  LET s == UsefulBuf_FromSZ(b \o <<0>>)
         IN  s \in Seq(Byte) /\ IsUint64(Len(s))
  <1> DEFINE sz == b \o <<0>>
             S  == {i \in DOMAIN sz : sz[i] = 0}
             m  == Min(S)
             n  == Len(b)
  <1>1. n \in Nat /\ <<0>> \in Seq(Byte) /\ Len(<<0>>) = 1
    BY LenProperties DEF Byte
  <1>2. sz \in Seq(Byte) /\ Len(sz) = n + 1 /\ sz[n + 1] = 0
    BY <1>1, ConcatProperties
  <1> HIDE DEF sz
  <1>3. DOMAIN sz = 1..(n + 1)
    BY <1>2, LenProperties
  <1>4. S \in SUBSET Nat /\ n + 1 \in S
    BY <1>1, <1>2, <1>3
  <1>5. m \in S /\ m <= n + 1
    BY <1>4, LeastNat
  <1>6. m \in 1..(n + 1)
    BY <1>1, <1>3, <1>5
  <1> HIDE DEF m, S
  <1>7. m - 1 \in Nat /\ m - 1 <= n
    BY <1>1, <1>6
  <1>8. \A i \in 1..(m - 1) : sz[i] \in Byte
    <2>1. \A i \in 1..(m - 1) : i \in 1..Len(sz)
      BY <1>1, <1>2, <1>7
    <2> QED
      BY <1>2, <2>1, ElementOfSeq
  <1>9. SubSeq(sz, 1, m - 1) \in Seq(Byte) /\ Len(SubSeq(sz, 1, m - 1)) = m - 1
    BY <1>7, <1>8, SubSeqProperties
  <1>10. IsUint64(m - 1)
    BY <1>1, <1>7, Uint64Below
  <1> QED
    BY <1>9, <1>10 DEF UsefulBuf_FromSZ, m, S, sz

\* The label in front of an item of a map.
LEMMA LabelPair ==
  ASSUME NEW c, NEW k, Pair(c, k), NEW l \in Labels
  PROVE  Pair(AddLabel(c, l), AddLabel(k, l))
  <1>1. CASE l = NoLabel
    BY <1>1 DEF NoLabel, AddLabel
  <1>2. CASE l = SZLabel(<<97, 0>>)
    <2>1. <<97>> \in Seq(Byte) /\ Len(<<97>>) = 1 /\ 1 \in Small
      BY DEF Byte, Small
    <2>2. IsUint64(Len(<<97>>))
      BY <2>1, SmallUint64
    <2>3. <<97, 0>> = <<97>> \o <<0>>
      OBVIOUS
    <2>4. /\ UsefulBuf_FromSZ(<<97, 0>>) \in Seq(Byte)
          /\ IsUint64(Len(UsefulBuf_FromSZ(<<97, 0>>)))
      BY <2>1, <2>2, <2>3, FromSZType
    <2>5. l.k = "sz" /\ l.sz = <<97, 0>>
      BY <1>2 DEF SZLabel
    <2>6. Pair(QCBOREncode_AddBuffer(c, TEXT_STRING, UsefulBuf_FromSZ(<<97, 0>>)),
               QCBOREncode_AddBuffer(k, TEXT_STRING, UsefulBuf_FromSZ(<<97, 0>>)))
      BY <2>4, BufferPair
    <2> QED
      BY <2>5, <2>6 DEF AddLabel
  <1>3. CASE l = NLabel(1)
    <2>1. 1 \in Small /\ 1 \in Int
      BY DEF Small
    <2>2. IsUint64(IF 1 < 0 THEN -(1 + 1) ELSE 1)
      BY <2>1, SmallUint64
    <2>3. l.k = "n" /\ l.n = 1
      BY <1>3 DEF NLabel
    <2>4. Pair(QCBOREncode_AddInt64(c, 1), QCBOREncode_AddInt64(k, 1))
      BY <2>1, <2>2, Int64Pair
    <2> QED
      BY <2>3, <2>4 DEF AddLabel
  <1> QED
    BY <1>1, <1>2, <1>3 DEF Labels

\* The label and the tag in front of an item.
LEMMA PrefixPair ==
  ASSUME NEW c, NEW k, Pair(c, k), NEW l \in Labels, NEW asTag, NEW tag \in Small
  PROVE  Pair(Prefixed(c, l, asTag, tag), Prefixed(k, l, asTag, tag))
  <1>1. Pair(AddLabel(c, l), AddLabel(k, l))
    BY LabelPair
  <1>2. Pair(QCBOREncode_AddTag(AddLabel(c, l), tag), QCBOREncode_AddTag(AddLabel(k, l), tag))
    BY <1>1, TagPair
  <1> QED
    BY <1>1, <1>2 DEF Prefixed

-----------------------------------------------------------------------------
(* The families of functions *)

\* The caller's numbers and strings are such.
LEMMA Arguments ==
  /\ \A n \in Numbers : IsNumber(n)
  /\ \A b \in Strings : IsString(b) /\ IsString(UsefulBuf_FromSZ(b \o <<0>>))
  /\ IsNumber(CommonNumber)
  /\ IsString(CommonString) /\ IsString(UsefulBuf_FromSZ(CommonString \o <<0>>))
  <1>1. \A n \in Numbers : IsNumber(n)
    BY CallerAssumption DEF IsNumber
  <1>2. \A b \in Strings : IsString(b)
    BY CallerAssumption DEF IsString
  <1>3. \A b \in Strings : IsString(UsefulBuf_FromSZ(b \o <<0>>))
    BY <1>2, FromSZType DEF IsString
  <1>4. CommonNumber \in Numbers /\ CommonString \in Strings
    BY CallerAssumption
  <1> QED
    BY <1>1, <1>2, <1>3, <1>4

\* A label, then a number.
LEMMA LabelledInt ==
  ASSUME NEW c, NEW k, Pair(c, k), NEW l \in Labels, NEW n, IsNumber(n)
  PROVE  Pair(QCBOREncode_AddInt64(AddLabel(c, l), n), QCBOREncode_AddInt64(AddLabel(k, l), n))
  <1>1. Pair(AddLabel(c, l), AddLabel(k, l))
    BY LabelPair
  <1> QED
    BY <1>1, Int64Pair DEF IsNumber

\* A label, then a string.
LEMMA LabelledBuffer ==
  ASSUME NEW c, NEW k, Pair(c, k), NEW l \in Labels, NEW type \in BufferTypes,
         NEW b, IsString(b)
  PROVE  Pair(QCBOREncode_AddBuffer(AddLabel(c, l), type, b),
              QCBOREncode_AddBuffer(AddLabel(k, l), type, b))
  <1>1. Pair(AddLabel(c, l), AddLabel(k, l))
    BY LabelPair
  <1> QED
    BY <1>1, BufferPair DEF IsString, BufferTypes

\* A label, then a simple value.
LEMMA LabelledSimple ==
  ASSUME NEW c, NEW k, Pair(c, k), NEW l \in Labels, NEW n \in Small
  PROVE  Pair(AddSimple(c, l, n), AddSimple(k, l, n))
  <1>1. Pair(AddLabel(c, l), AddLabel(k, l))
    BY LabelPair
  <1> QED
    BY <1>1, Type7Pair DEF AddSimple

\* A label and a tag, then a number.
LEMMA PrefixedInt ==
  ASSUME NEW c, NEW k, Pair(c, k), NEW l \in Labels, NEW asTag, NEW tag \in Small,
         NEW n, IsNumber(n)
  PROVE  Pair(QCBOREncode_AddInt64(Prefixed(c, l, asTag, tag), n),
              QCBOREncode_AddInt64(Prefixed(k, l, asTag, tag), n))
  <1>1. Pair(Prefixed(c, l, asTag, tag), Prefixed(k, l, asTag, tag))
    BY PrefixPair
  <1> QED
    BY <1>1, Int64Pair DEF IsNumber

\* A label and a tag, then a string.
LEMMA PrefixedBuffer ==
  ASSUME NEW c, NEW k, Pair(c, k), NEW l \in Labels, NEW asTag, NEW tag \in Small,
         NEW type \in BufferTypes, NEW b, IsString(b)
  PROVE  Pair(QCBOREncode_AddBuffer(Prefixed(c, l, asTag, tag), type, b),
              QCBOREncode_AddBuffer(Prefixed(k, l, asTag, tag), type, b))
  <1>1. Pair(Prefixed(c, l, asTag, tag), Prefixed(k, l, asTag, tag))
    BY PrefixPair
  <1> QED
    BY <1>1, BufferPair DEF IsString, BufferTypes

\* The array of exponent and mantissa.
LEMMA FractionPair ==
  ASSUME NEW c, NEW k, Pair(c, k), NEW big, NEW neg, NEW m, NEW e, IsNumber(e),
         IF big.null THEN IsNumber(m) ELSE IsString(big.bytes)
  PROVE  Pair(QCBOREncode_AddExponentAndMantissa(c, big, neg, m, e),
              QCBOREncode_AddExponentAndMantissa(k, big, neg, m, e))
  <1> DEFINE O(x) == QCBOREncode_AddInt64(QCBOREncode_OpenMapOrArray(x, ARRAY), e)
             M(x) == IF big.null THEN QCBOREncode_AddInt64(x, m)
                     ELSE IF neg THEN AddTNegativeBignum(x, NoLabel, TRUE, big.bytes)
                     ELSE AddTPositiveBignum(x, NoLabel, TRUE, big.bytes)
             d == O(c)
             l == O(k)
  <1>1. ARRAY \in Nat /\ NoLabel \in Labels
    BY DEF ARRAY, Labels
  <1>2. Pair(d, l)
    <2>1. Pair(QCBOREncode_OpenMapOrArray(c, ARRAY), QCBOREncode_OpenMapOrArray(k, ARRAY))
      BY <1>1, OpenPair
    <2> QED
      BY <2>1, Int64Pair DEF IsNumber
  <1> HIDE DEF d, l
  <1>3. Pair(M(d), M(l))
    <2>1. CASE big.null
      <3>1. Pair(QCBOREncode_AddInt64(d, m), QCBOREncode_AddInt64(l, m))
        BY <1>2, <2>1, Int64Pair DEF IsNumber
      <3> QED
        BY <2>1, <3>1
    <2>2. CASE ~big.null
      <3>1. /\ CBOR_TAG_NEG_BIGNUM \in Small /\ CBOR_TAG_POS_BIGNUM \in Small
            /\ BYTE_STRING \in BufferTypes
        BY DEF CBOR_TAG_NEG_BIGNUM, CBOR_TAG_POS_BIGNUM, Small, BufferTypes
      <3>2. Pair(AddTNegativeBignum(d, NoLabel, TRUE, big.bytes),
                 AddTNegativeBignum(l, NoLabel, TRUE, big.bytes))
        BY <1>1, <1>2, <2>2, <3>1, PrefixedBuffer DEF AddTNegativeBignum
      <3>3. Pair(AddTPositiveBignum(d, NoLabel, TRUE, big.bytes),
                 AddTPositiveBignum(l, NoLabel, TRUE, big.bytes))
        BY <1>1, <1>2, <2>2, <3>1, PrefixedBuffer DEF AddTPositiveBignum
      <3> QED
        BY <2>2, <3>2, <3>3
    <2> QED
      BY <2>1, <2>2
  <1> HIDE DEF M
  <1>4. Pair(QCBOREncode_CloseMapOrArray(M(d), ARRAY), QCBOREncode_CloseMapOrArray(M(l), ARRAY))
    BY <1>1, <1>3, ClosePair
  <1> QED
    BY <1>4 DEF QCBOREncode_AddExponentAndMantissa, M, d, l

\* A label and a tag, then such an array.
LEMMA PrefixedFraction ==
  ASSUME NEW c, NEW k, Pair(c, k), NEW l \in Labels, NEW asTag, NEW tag \in Small,
         NEW big, NEW neg, NEW m, NEW e, IsNumber(e),
         IF big.null THEN IsNumber(m) ELSE IsString(big.bytes)
  PROVE  Pair(QCBOREncode_AddExponentAndMantissa(Prefixed(c, l, asTag, tag), big, neg, m, e),
              QCBOREncode_AddExponentAndMantissa(Prefixed(k, l, asTag, tag), big, neg, m, e))
  <1>1. Pair(Prefixed(c, l, asTag, tag), Prefixed(k, l, asTag, tag))
    BY PrefixPair
  <1> QED
    BY <1>1, FractionPair

-----------------------------------------------------------------------------
(* The calls *)

\* What every call does to the counters and the result.
Counts ==
    /\ ~Finished /\ result' = result
    /\ calls < MaxCalls /\ calls' = calls + 1
    /\ \E r \in {0, 1} : rare + r <= MaxRare /\ rare' = rare + r

\* Adding a number.
LEMMA NumberStep ==
  ASSUME Pair(enc, calc), NEW l \in Labels, Number(l)
  PROVE  Pair(enc', calc') /\ Counts
  <1>1. Counts
    BY DEF Number, Add, Call, Counts, Rarely
  <1>2. CASE \E n \in Numbers : enc' = AddInt64(enc, l, n) /\ calc' = AddInt64(calc, l, n)
    BY <1>1, <1>2, Arguments, LabelledInt DEF AddInt64
  <1>3. CASE \E n \in Numbers : n >= 0 /\ enc' = AddUInt64(enc, l, n) /\ calc' = AddUInt64(calc, l, n)
    <2>1. PICK n \in Numbers : n >= 0 /\ enc' = AddUInt64(enc, l, n) /\ calc' = AddUInt64(calc, l, n)
      BY <1>3
    <2>2. n \in Nat /\ IsUint64(n)
      BY <2>1, Arguments DEF IsNumber
    <2>3. Pair(AddLabel(enc, l), AddLabel(calc, l))
      BY LabelPair
    <2> QED
      BY <1>1, <2>1, <2>2, <2>3, UInt64Pair DEF AddUInt64
  <1>4. \/ \E n \in Numbers : enc' = AddInt64(enc, l, n) /\ calc' = AddInt64(calc, l, n)
        \/ \E n \in Numbers : n >= 0 /\ enc' = AddUInt64(enc, l, n) /\ calc' = AddUInt64(calc, l, n)
    BY DEF Number, Add, Call
  <1> QED
    BY <1>1, <1>2, <1>3, <1>4

\* Adding a string.
LEMMA StringStep ==
  ASSUME Pair(enc, calc), NEW l \in Labels, String(l)
  PROVE  Pair(enc', calc') /\ Counts
  <1>1. Counts
    BY DEF String, Add, Call, Counts
  <1>2. PICK b \in Strings :
          \/ enc' = AddBytes(enc, l, b) /\ calc' = AddBytes(calc, l, b)
          \/ enc' = AddText(enc, l, b) /\ calc' = AddText(calc, l, b)
          \/ enc' = AddSZString(enc, l, b \o <<0>>) /\ calc' = AddSZString(calc, l, b \o <<0>>)
    BY DEF String, Add, Call
  <1>3. /\ IsString(b) /\ IsString(UsefulBuf_FromSZ(b \o <<0>>))
        /\ BYTE_STRING \in BufferTypes /\ TEXT_STRING \in BufferTypes
    BY Arguments DEF BufferTypes
  <1>4. Pair(AddBytes(enc, l, b), AddBytes(calc, l, b))
    BY <1>3, LabelledBuffer DEF AddBytes
  <1>5. Pair(AddText(enc, l, b), AddText(calc, l, b))
    BY <1>3, LabelledBuffer DEF AddText
  <1>6. Pair(AddSZString(enc, l, b \o <<0>>), AddSZString(calc, l, b \o <<0>>))
    BY <1>3, LabelledBuffer DEF AddSZString, AddText
  <1> QED
    BY <1>1, <1>2, <1>4, <1>5, <1>6

\* Adding a simple value.
LEMMA SimpleStep ==
  ASSUME Pair(enc, calc), NEW l \in Labels, Simple(l)
  PROVE  Pair(enc', calc') /\ Counts
  <1>1. Counts
    BY DEF Simple, Add, Call, Counts
  <1>2. \E n \in {20, 21, 22, 23, 24, 32} :
          enc' = AddSimple(enc, l, n) /\ calc' = AddSimple(calc, l, n)
    BY DEF Simple, Add, Call, AddBool, AddNULL, AddUndef
  <1>3. {20, 21, 22, 23, 24, 32} \subseteq Small
    BY DEF Small
  <1> QED
    BY <1>1, <1>2, <1>3, LabelledSimple

\* Adding a date.
LEMMA EpochStep ==
  ASSUME Pair(enc, calc), NEW l \in Labels, NEW t \in BOOLEAN, Epoch(l, t)
  PROVE  Pair(enc', calc') /\ Counts
  <1> DEFINE n == CommonNumber
  <1>1. Counts
    BY DEF Epoch, Add, Call, Counts
  <1>2. \/ enc' = AddTDateEpoch(enc, l, t, n) /\ calc' = AddTDateEpoch(calc, l, t, n)
        \/ enc' = AddTDaysEpoch(enc, l, t, n) /\ calc' = AddTDaysEpoch(calc, l, t, n)
    BY DEF Epoch, Add, Call
  <1>3. CBOR_TAG_DATE_EPOCH \in Small /\ CBOR_TAG_DAYS_EPOCH \in Small /\ IsNumber(n)
    BY Arguments DEF CBOR_TAG_DATE_EPOCH, CBOR_TAG_DAYS_EPOCH, Small
  <1>4. Pair(AddTDateEpoch(enc, l, t, n), AddTDateEpoch(calc, l, t, n))
    BY <1>3, PrefixedInt DEF AddTDateEpoch
  <1>5. Pair(AddTDaysEpoch(enc, l, t, n), AddTDaysEpoch(calc, l, t, n))
    BY <1>3, PrefixedInt DEF AddTDaysEpoch
  <1> QED
    BY <1>1, <1>2, <1>4, <1>5

\* Adding tagged bytes.
LEMMA TaggedBytesStep ==
  ASSUME Pair(enc, calc), NEW l \in Labels, NEW t \in BOOLEAN, TaggedBytes(l, t)
  PROVE  Pair(enc', calc') /\ Counts
  <1> DEFINE b == CommonString
  <1>1. Counts
    BY DEF TaggedBytes, Add, Call, Counts
  <1>2. \/ enc' = AddTBinaryUUID(enc, l, t, b) /\ calc' = AddTBinaryUUID(calc, l, t, b)
        \/ enc' = AddTPositiveBignum(enc, l, t, b) /\ calc' = AddTPositiveBignum(calc, l, t, b)
        \/ enc' = AddTNegativeBignum(enc, l, t, b) /\ calc' = AddTNegativeBignum(calc, l, t, b)
        \/ enc' = AddTMIMEData(enc, l, t, b) /\ calc' = AddTMIMEData(calc, l, t, b)
    BY DEF TaggedBytes, Add, Call
  <1>3. /\ CBOR_TAG_BIN_UUID \in Small /\ CBOR_TAG_POS_BIGNUM \in Small
        /\ CBOR_TAG_NEG_BIGNUM \in Small /\ CBOR_TAG_BINARY_MIME \in Small
    BY DEF CBOR_TAG_BIN_UUID, CBOR_TAG_POS_BIGNUM, CBOR_TAG_NEG_BIGNUM, CBOR_TAG_BINARY_MIME, Small
  <1>4. IsString(b) /\ BYTE_STRING \in BufferTypes
    BY Arguments DEF BufferTypes
  <1>5. Pair(AddTBinaryUUID(enc, l, t, b), AddTBinaryUUID(calc, l, t, b))
    BY <1>3, <1>4, PrefixedBuffer DEF AddTBinaryUUID
  <1>6. Pair(AddTPositiveBignum(enc, l, t, b), AddTPositiveBignum(calc, l, t, b))
    BY <1>3, <1>4, PrefixedBuffer DEF AddTPositiveBignum
  <1>7. Pair(AddTNegativeBignum(enc, l, t, b), AddTNegativeBignum(calc, l, t, b))
    BY <1>3, <1>4, PrefixedBuffer DEF AddTNegativeBignum
  <1>8. Pair(AddTMIMEData(enc, l, t, b), AddTMIMEData(calc, l, t, b))
    BY <1>3, <1>4, PrefixedBuffer DEF AddTMIMEData
  <1> QED
    BY <1>1, <1>2, <1>5, <1>6, <1>7, <1>8

\* Adding tagged text.
LEMMA TaggedTextStep ==
  ASSUME Pair(enc, calc), NEW l \in Labels, NEW t \in BOOLEAN, TaggedText(l, t)
  PROVE  Pair(enc', calc') /\ Counts
  <1> DEFINE b == CommonString
             z == CommonString \o <<0>>
  <1>1. Counts
    BY DEF TaggedText, Add, Call, Counts
  <1>2. \/ enc' = AddTURI(enc, l, t, b) /\ calc' = AddTURI(calc, l, t, b)
        \/ enc' = AddTB64Text(enc, l, t, b) /\ calc' = AddTB64Text(calc, l, t, b)
        \/ enc' = AddTB64URLText(enc, l, t, b) /\ calc' = AddTB64URLText(calc, l, t, b)
        \/ enc' = AddTRegex(enc, l, t, b) /\ calc' = AddTRegex(calc, l, t, b)
        \/ enc' = AddTDateString(enc, l, t, z) /\ calc' = AddTDateString(calc, l, t, z)
        \/ enc' = AddTDaysString(enc, l, t, z) /\ calc' = AddTDaysString(calc, l, t, z)
    BY DEF TaggedText, Add, Call
  <1>3. /\ CBOR_TAG_URI \in Small /\ CBOR_TAG_B64 \in Small /\ CBOR_TAG_B64URL \in Small
        /\ CBOR_TAG_REGEX \in Small
    BY DEF CBOR_TAG_URI, CBOR_TAG_B64, CBOR_TAG_B64URL, CBOR_TAG_REGEX, Small
  <1>4. CBOR_TAG_DATE_STRING \in Small /\ CBOR_TAG_DAYS_STRING \in Small
    BY DEF CBOR_TAG_DATE_STRING, CBOR_TAG_DAYS_STRING, Small
  <1>5. IsString(b) /\ IsString(UsefulBuf_FromSZ(z)) /\ TEXT_STRING \in BufferTypes
    BY Arguments DEF BufferTypes
  <1> HIDE DEF b, z
  <1>6. Pair(AddTURI(enc, l, t, b), AddTURI(calc, l, t, b))
    BY <1>3, <1>5, PrefixedBuffer DEF AddTURI
  <1>7. Pair(AddTB64Text(enc, l, t, b), AddTB64Text(calc, l, t, b))
    BY <1>3, <1>5, PrefixedBuffer DEF AddTB64Text
  <1>8. Pair(AddTB64URLText(enc, l, t, b), AddTB64URLText(calc, l, t, b))
    BY <1>3, <1>5, PrefixedBuffer DEF AddTB64URLText
  <1>9. Pair(AddTRegex(enc, l, t, b), AddTRegex(calc, l, t, b))
    BY <1>3, <1>5, PrefixedBuffer DEF AddTRegex
  <1>10. Pair(AddTDateString(enc, l, t, z), AddTDateString(calc, l, t, z))
    BY <1>4, <1>5, PrefixedBuffer DEF AddTDateString
  <1>11. Pair(AddTDaysString(enc, l, t, z), AddTDaysString(calc, l, t, z))
    BY <1>4, <1>5, PrefixedBuffer DEF AddTDaysString
  <1> QED
    BY <1>1, <1>2, <1>6, <1>7, <1>8, <1>9, <1>10, <1>11

\* Adding a fraction or a float.
LEMMA FractionStep ==
  ASSUME Pair(enc, calc), NEW l \in Labels, NEW t \in BOOLEAN, Fraction(l, t)
  PROVE  Pair(enc', calc') /\ Counts
  <1> DEFINE e == CommonNumber
             b == CommonString
  <1>1. Counts
    BY DEF Fraction, Add, Call, Counts
  <1>2. /\ CBOR_TAG_DECIMAL_FRACTION \in Small /\ CBOR_TAG_BIGFLOAT \in Small
        /\ IsNumber(e) /\ IsString(b) /\ \A m \in Numbers : IsNumber(m)
    BY Arguments DEF CBOR_TAG_DECIMAL_FRACTION, CBOR_TAG_BIGFLOAT, Small
  <1>3. /\ NULLUsefulBufC.null = TRUE
        /\ UsefulBufC(b).null = FALSE /\ UsefulBufC(b).bytes = b
    BY DEF NULLUsefulBufC, UsefulBufC
  <1> DEFINE ByInt(m) ==
               \/ enc' = AddTDecimalFraction(enc, l, t, m, e) /\ calc' = AddTDecimalFraction(calc, l, t, m, e)
               \/ enc' = AddTBigFloat(enc, l, t, m, e) /\ calc' = AddTBigFloat(calc, l, t, m, e)
             ByBig(neg) ==
               \/ /\ enc' = AddTDecimalFractionBigNum(enc, l, t, b, neg, e)
                  /\ calc' = AddTDecimalFractionBigNum(calc, l, t, b, neg, e)
               \/ /\ enc' = AddTBigFloatBigNum(enc, l, t, b, neg, e)
                  /\ calc' = AddTBigFloatBigNum(calc, l, t, b, neg, e)
  <1>4. (\E m \in Numbers : ByInt(m)) \/ (\E neg \in BOOLEAN : ByBig(neg))
    BY DEF Fraction, Add, Call
  <1> HIDE DEF e, b
  <1>5. ASSUME NEW m \in Numbers, ByInt(m) PROVE Pair(enc', calc')
    <2>1. Pair(AddTDecimalFraction(enc, l, t, m, e), AddTDecimalFraction(calc, l, t, m, e))
      BY <1>2, <1>3, PrefixedFraction DEF AddTDecimalFraction
    <2>2. Pair(AddTBigFloat(enc, l, t, m, e), AddTBigFloat(calc, l, t, m, e))
      BY <1>2, <1>3, PrefixedFraction DEF AddTBigFloat
    <2> QED
      BY <1>5, <2>1, <2>2
  <1>6. ASSUME NEW neg \in BOOLEAN, ByBig(neg) PROVE Pair(enc', calc')
    <2>1. Pair(AddTDecimalFractionBigNum(enc, l, t, b, neg, e),
               AddTDecimalFractionBigNum(calc, l, t, b, neg, e))
      BY <1>2, <1>3, PrefixedFraction DEF AddTDecimalFractionBigNum
    <2>2. Pair(AddTBigFloatBigNum(enc, l, t, b, neg, e), AddTBigFloatBigNum(calc, l, t, b, neg, e))
      BY <1>2, <1>3, PrefixedFraction DEF AddTBigFloatBigNum
    <2> QED
      BY <1>6, <2>1, <2>2
  <1> HIDE DEF ByInt, ByBig
  <1> QED
    BY <1>1, <1>4, <1>5, <1>6

\* Adding bytes that are encoded already.
LEMMA EncodedStep ==
  ASSUME Pair(enc, calc), NEW l \in Labels, Encoded(l)
  PROVE  Pair(enc', calc') /\ Counts
  <1> DEFINE b == <<129, 1>>
  <1>1. Counts
    BY DEF Encoded, Add, Call, Counts
  <1>2. enc' = AddEncoded(enc, l, b) /\ calc' = AddEncoded(calc, l, b)
    BY DEF Encoded, Add, Call
  <1>3. b \in Seq(Byte) /\ Len(b) = 2 /\ 2 \in Small /\ RAW \in BufferTypes
    BY DEF Byte, Small, BufferTypes
  <1>4. IsString(b)
    BY <1>3, SmallUint64 DEF IsString
  <1> HIDE DEF b
  <1> QED
    BY <1>1, <1>2, <1>3, <1>4, LabelledBuffer DEF AddEncoded

\* Adding a length without its bytes.
LEMMA LenOnlyStep ==
  ASSUME Pair(enc, calc), NEW l \in Labels, LenOnly(l)
  PROVE  Pair(enc', calc') /\ Counts
  <1>1. Counts
    BY DEF LenOnly, Call, Counts
  <1>2. PICK b \in Strings : enc' = AddBytesLenOnly(enc, l, b) /\ calc' = AddBytesLenOnly(calc, l, b)
    BY DEF LenOnly, Call
  <1>3. IsString(b) /\ BSTR_LEN_ONLY \in BufferTypes
    BY Arguments DEF BufferTypes
  <1> QED
    BY <1>1, <1>2, <1>3, LabelledBuffer DEF AddBytesLenOnly

\* Adding any item.
LEMMA ItemStep ==
  ASSUME Pair(enc, calc), Item
  PROVE  Pair(enc', calc') /\ Counts
  <1>1. PICK l \in Labels :
          \/ Number(l) \/ String(l) \/ Simple(l) \/ Encoded(l) \/ LenOnly(l)
          \/ \E t \in BOOLEAN : Epoch(l, t) \/ TaggedBytes(l, t) \/ TaggedText(l, t) \/ Fraction(l, t)
    BY DEF Item
  <1>2. CASE Number(l)
    BY <1>2, NumberStep
  <1>3. CASE String(l)
    BY <1>3, StringStep
  <1>4. CASE Simple(l)
    BY <1>4, SimpleStep
  <1>5. CASE Encoded(l)
    BY <1>5, EncodedStep
  <1>6. CASE LenOnly(l)
    BY <1>6, LenOnlyStep
  <1>7. ASSUME NEW t \in BOOLEAN, Epoch(l, t) PROVE Pair(enc', calc') /\ Counts
    BY <1>7, EpochStep
  <1>8. ASSUME NEW t \in BOOLEAN, TaggedBytes(l, t) PROVE Pair(enc', calc') /\ Counts
    BY <1>8, TaggedBytesStep
  <1>9. ASSUME NEW t \in BOOLEAN, TaggedText(l, t) PROVE Pair(enc', calc') /\ Counts
    BY <1>9, TaggedTextStep
  <1>10. ASSUME NEW t \in BOOLEAN, Fraction(l, t) PROVE Pair(enc', calc') /\ Counts
    BY <1>10, FractionStep
  <1> QED
    BY <1>1, <1>2, <1>3, <1>4, <1>5, <1>6, <1>7, <1>8, <1>9, <1>10

\* Adding a tag.
LEMMA AddTagStep ==
  ASSUME Pair(enc, calc), AddTag
  PROVE  Pair(enc', calc') /\ Counts
  <1>1. Counts
    BY DEF AddTag, Tagged, Add, Call, Counts
  <1>2. enc' = QCBOREncode_AddTag(enc, 18) /\ calc' = QCBOREncode_AddTag(calc, 18)
    BY DEF AddTag, Tagged, Add, Call
  <1>3. 18 \in Small
    BY DEF Small
  <1> QED
    BY <1>1, <1>2, <1>3, TagPair

\* Opening a level.
LEMMA OpenStep ==
  ASSUME Pair(enc, calc), Open
  PROVE  Pair(enc', calc') /\ Counts
  <1>1. Counts
    BY DEF Open, Call, Counts, Rarely
  <1>2. PICK l \in Labels :
          \/ enc' = OpenArray(enc, l) /\ calc' = OpenArray(calc, l)
          \/ enc' = OpenMap(enc, l) /\ calc' = OpenMap(calc, l)
          \/ enc' = BstrWrap(enc, l) /\ calc' = BstrWrap(calc, l)
          \/ /\ enc' = OpenArrayIndefiniteLength(enc, l)
             /\ calc' = OpenArrayIndefiniteLength(calc, l)
          \/ /\ enc' = OpenMapIndefiniteLength(enc, l)
             /\ calc' = OpenMapIndefiniteLength(calc, l)
    BY DEF Open, Call
  <1>3. /\ ARRAY \in Nat /\ MAP \in Nat /\ BYTE_STRING \in Nat
        /\ ARRAY_INDEFINITE_LEN \in Nat /\ MAP_INDEFINITE_LEN \in Nat
    BY DEF ARRAY, MAP, BYTE_STRING, ARRAY_INDEFINITE_LEN, MAP_INDEFINITE_LEN,
           INDEFINITE_LEN_TYPE_MODIFIER
  <1>4. Pair(AddLabel(enc, l), AddLabel(calc, l))
    BY LabelPair
  <1>5. Pair(OpenArray(enc, l), OpenArray(calc, l))
    BY <1>3, <1>4, OpenPair DEF OpenArray
  <1>6. Pair(OpenMap(enc, l), OpenMap(calc, l))
    BY <1>3, <1>4, OpenPair DEF OpenMap
  <1>7. Pair(BstrWrap(enc, l), BstrWrap(calc, l))
    BY <1>3, <1>4, OpenPair DEF BstrWrap
  <1>8. Pair(OpenArrayIndefiniteLength(enc, l), OpenArrayIndefiniteLength(calc, l))
    BY <1>3, <1>4, IndefiniteOpenPair DEF OpenArrayIndefiniteLength
  <1>9. Pair(OpenMapIndefiniteLength(enc, l), OpenMapIndefiniteLength(calc, l))
    BY <1>3, <1>4, IndefiniteOpenPair DEF OpenMapIndefiniteLength
  <1> QED
    BY <1>1, <1>2, <1>5, <1>6, <1>7, <1>8, <1>9

\* Opening a byte string the caller fills.
LEMMA OpenByteStringStep ==
  ASSUME Pair(enc, calc), OpenByteString
  PROVE  Pair(enc', calc') /\ Counts
  <1>1. Counts
    BY DEF OpenByteString, Call, Counts
  <1>2. PICK l \in Labels : enc' = OpenBytes(enc, l) /\ calc' = OpenBytes(calc, l)
    BY DEF OpenByteString, Call
  <1>3. Pair(AddLabel(enc, l), AddLabel(calc, l))
    BY LabelPair
  <1> QED
    BY <1>1, <1>2, <1>3, OpenBytesPair DEF OpenBytes

\* Closing a level.
LEMMA CloseStep ==
  ASSUME Pair(enc, calc), Close
  PROVE  Pair(enc', calc') /\ Counts
  <1>1. Counts
    BY DEF Close, Call, Counts, Rarely
  <1>2. \/ enc' = CloseArray(enc) /\ calc' = CloseArray(calc)
        \/ enc' = CloseMap(enc) /\ calc' = CloseMap(calc)
        \/ enc' = CloseArrayIndefiniteLength(enc) /\ calc' = CloseArrayIndefiniteLength(calc)
        \/ enc' = CloseMapIndefiniteLength(enc) /\ calc' = CloseMapIndefiniteLength(calc)
    BY DEF Close, Call
  <1>3. ARRAY \in Nat /\ MAP \in Nat /\ ARRAY_INDEFINITE_LEN \in Nat /\ MAP_INDEFINITE_LEN \in Nat
    BY DEF ARRAY, MAP, ARRAY_INDEFINITE_LEN, MAP_INDEFINITE_LEN, INDEFINITE_LEN_TYPE_MODIFIER
  <1>4. Pair(CloseArray(enc), CloseArray(calc))
    BY <1>3, ClosePair DEF CloseArray
  <1>5. Pair(CloseMap(enc), CloseMap(calc))
    BY <1>3, ClosePair DEF CloseMap
  <1>6. Pair(CloseArrayIndefiniteLength(enc), CloseArrayIndefiniteLength(calc))
    BY <1>3, IndefiniteClosePair DEF CloseArrayIndefiniteLength
  <1>7. Pair(CloseMapIndefiniteLength(enc), CloseMapIndefiniteLength(calc))
    BY <1>3, IndefiniteClosePair DEF CloseMapIndefiniteLength
  <1> QED
    BY <1>1, <1>2, <1>4, <1>5, <1>6, <1>7

\* Closing a wrap.
LEMMA CloseWrapStep ==
  ASSUME Pair(enc, calc), CloseBstrWrap2
  PROVE  Pair(enc', calc') /\ Counts
  <1>1. Counts
    BY DEF CloseBstrWrap2, Counts, Rarely
  <1>2. \E h \in BOOLEAN : /\ enc' = QCBOREncode_CloseBstrWrap2(enc, h).ctx
                           /\ calc' = QCBOREncode_CloseBstrWrap2(calc, h).ctx
    BY DEF CloseBstrWrap2
  <1> QED
    BY <1>1, <1>2, CloseWrapPair

\* Cancelling a wrap.
LEMMA CancelStep ==
  ASSUME Pair(enc, calc), CancelBstrWrap
  PROVE  Pair(enc', calc') /\ Counts
  <1>1. Counts
    BY DEF CancelBstrWrap, Call, Counts
  <1>2. enc' = QCBOREncode_CancelBstrWrap(enc) /\ calc' = QCBOREncode_CancelBstrWrap(calc)
    BY DEF CancelBstrWrap, Call
  <1> QED
    BY <1>1, <1>2, CancelPair

\* Closing a byte string the caller filled.
LEMMA CloseBytesStep ==
  ASSUME Pair(enc, calc), CloseBytes
  PROVE  Pair(enc', calc') /\ Counts
  <1>1. Counts
    BY DEF CloseBytes, Call, Counts
  <1>2. PICK b \in Strings :
          enc' = QCBOREncode_CloseBytes(enc, b) /\ calc' = QCBOREncode_CloseBytes(calc, b)
    BY DEF CloseBytes, Call
  <1>3. IsString(b)
    BY Arguments
  <1> QED
    BY <1>1, <1>2, <1>3, CloseBytesPair DEF IsString

\* Asking for the error.
LEMMA ErrorStateStep ==
  ASSUME Pair(enc, calc), GetErrorState
  PROVE  Pair(enc', calc') /\ Counts
  <1>1. Counts
    BY DEF GetErrorState, Call, Counts
  <1>2. enc' = QCBOREncode_GetErrorState(enc) /\ calc' = QCBOREncode_GetErrorState(calc)
    BY DEF GetErrorState, Call
  <1> QED
    BY <1>1, <1>2, ErrorStatePair

-----------------------------------------------------------------------------
(* The invariant *)

CountInv == calls \in 0..MaxCalls /\ rare \in 0..MaxRare

\* Both contexts stay what they were when they were finished.
ResultInv ==
    Finished => result = [real |-> QCBOREncode_Finish(enc), size |-> QCBOREncode_FinishGetSize(calc)]

IInv == Pair(enc, calc) /\ CountInv /\ ResultInv

\* The invariant holds of the fresh contexts.
LEMMA InitIInv == Init => IInv
  <1> SUFFICES ASSUME Init PROVE IInv
    OBVIOUS
  <1>1. PICK cap \in Capacities : enc = QCBOREncode_Init(FALSE, cap)
    BY DEF Init
  <1>2. calc = QCBOREncode_Init(TRUE, CalculateSize)
    BY DEF Init
  <1>3. /\ cap \in 0..CalculateSize /\ cap \in Nat /\ CalculateSize \in Nat
        /\ IsUint64(cap) /\ IsUint64(CalculateSize)
    BY CallerAssumption, Uint64Below
  <1>4. Good(enc) /\ Good(calc)
    BY <1>1, <1>2, <1>3, FreshGood
  <1>5. /\ enc.out.cap = cap /\ calc.out.cap = CalculateSize
        /\ enc.out.err = FALSE /\ calc.out.err = FALSE
        /\ enc.out.data = calc.out.data /\ enc.nesting = calc.nesting
        /\ enc.uError = calc.uError
    BY <1>1, <1>2 DEF QCBOREncode_Init, UsefulOutBuf_Init
  <1>6. Pair(enc, calc)
    BY <1>3, <1>4, <1>5 DEF Pair, Agree, Same
  <1>7. CountInv
    BY CallerAssumption DEF Init, CountInv
  <1>8. ResultInv
    BY DEF Init, ResultInv, Finished
  <1> QED
    BY <1>6, <1>7, <1>8 DEF IInv

\* A call counts and leaves the result alone.
LEMMA CountsStep ==
  ASSUME CountInv, Counts
  PROVE  CountInv' /\ ResultInv'
  <1>1. CountInv'
    BY CallerAssumption DEF CountInv, Counts
  <1>2. ResultInv'
    BY DEF Counts, ResultInv, Finished
  <1> QED
    BY <1>1, <1>2

\* Every call keeps the invariant.
LEMMA NextIInv == IInv /\ [Next]_vars => IInv'
  <1> SUFFICES ASSUME IInv, [Next]_vars PROVE IInv'
    OBVIOUS
  <1>1. Pair(enc, calc) /\ CountInv
    BY DEF IInv
  <1>2. ASSUME Pair(enc', calc') /\ Counts PROVE IInv'
    BY <1>1, <1>2, CountsStep DEF IInv
  <1>3. CASE Item
    BY <1>1, <1>2, <1>3, ItemStep
  <1>4. CASE AddTag
    BY <1>1, <1>2, <1>4, AddTagStep
  <1>5. CASE Open
    BY <1>1, <1>2, <1>5, OpenStep
  <1>6. CASE OpenByteString
    BY <1>1, <1>2, <1>6, OpenByteStringStep
  <1>7. CASE Close
    BY <1>1, <1>2, <1>7, CloseStep
  <1>8. CASE CloseBstrWrap2
    BY <1>1, <1>2, <1>8, CloseWrapStep
  <1>9. CASE CancelBstrWrap
    BY <1>1, <1>2, <1>9, CancelStep
  <1>10. CASE CloseBytes
    BY <1>1, <1>2, <1>10, CloseBytesStep
  <1>11. CASE GetErrorState
    BY <1>1, <1>2, <1>11, ErrorStateStep
  <1>12. CASE Finish
    <2>1. /\ enc' = enc /\ calc' = calc /\ calls' = calls /\ rare' = rare
          /\ result' = [real |-> QCBOREncode_Finish(enc), size |-> QCBOREncode_FinishGetSize(calc)]
      BY <1>12 DEF Finish
    <2>2. Pair(enc', calc') /\ CountInv'
      BY <1>1, <2>1 DEF CountInv
    <2>3. ResultInv'
      BY <2>1 DEF ResultInv
    <2> QED
      BY <2>2, <2>3 DEF IInv
  <1>13. CASE UNCHANGED vars
    BY <1>13 DEF IInv, CountInv, ResultInv, Finished, vars
  <1> QED
    BY <1>3, <1>4, <1>5, <1>6, <1>7, <1>8, <1>9, <1>10, <1>11, <1>12, <1>13 DEF Next

\* After any sequence of calls both contexts are good and agree as far as the smaller
\* buffer goes: while it has room they hold the same bytes, levels and error, and once it
\* has none the size calculation has counted more than it could hold.
THEOREM EncoderInvariant == Spec => []IInv
  <1>1. Init => IInv
    BY InitIInv
  <1>2. IInv /\ [Next]_vars => IInv'
    BY NextIInv
  <1> QED
    BY <1>1, <1>2, PTL DEF Spec

\* The output stays inside its buffer, the nesting inside its array and every counter of
\* items inside its 16 bits (UsefulOutBuf_InsertUsefulBuf, Nesting_Increase,
\* Nesting_Increment).
THEOREM EncoderStaysInside == Spec => []TypeOK
  <1>1. ASSUME NEW c, Good(c) PROVE ContextOK(c)
    <2>1. c.uError \in Errors /\ Len(c.out.data) <= c.out.cap /\ c.nesting \in Seq(Levels)
      BY <1>1, GoodFields
    <2>2. \A i \in DOMAIN c.nesting : c.nesting[i] \in Levels
      BY <2>1, LenProperties, ElementOfSeq
    <2>3. \A i \in DOMAIN c.nesting : c.nesting[i].count \in 0..(CountRange - 1)
      BY <2>2 DEF Levels
    <2>4. Len(c.nesting) \in 1..(MAX_ARRAY_NESTING + 1)
      BY <1>1 DEF Good
    <2> QED
      BY <2>1, <2>3, <2>4 DEF ContextOK
  <1>2. IInv => TypeOK
    BY <1>1 DEF IInv, Pair, CountInv, TypeOK
  <1> QED
    BY <1>2, EncoderInvariant, PTL

\* The place an open level remembers is inside the output and behind the place of the
\* level around it, whatever heads were inserted before (InsertCBORHead).
THEOREM LevelsStartInOrder == Spec => []StartsInOrder
  <1>1. ASSUME NEW c, Good(c)
        PROVE  /\ \A i \in DOMAIN c.nesting : c.nesting[i].start <= Len(c.out.data)
               /\ \A i, j \in DOMAIN c.nesting : i <= j => c.nesting[i].start <= c.nesting[j].start
    <2>1. DOMAIN c.nesting = 1..Len(c.nesting)
      BY <1>1, GoodFields, LenProperties
    <2> QED
      BY <1>1, <2>1 DEF Good, Within, Ordered
  <1>2. IInv => StartsInOrder
    BY <1>1 DEF IInv, Pair, StartsInOrder
  <1> QED
    BY <1>2, EncoderInvariant, PTL

\* What finishing a context returns.
LEMMA FinishFacts ==
  ASSUME NEW c, Good(c)
  PROVE  LET f == QCBOREncode_Finish(c)
         IN  /\ f.err = "SUCCESS" <=> ~c.out.err /\ c.uError = "SUCCESS" /\ ~Nesting_IsInNest(c)
             /\ f.err = "SUCCESS" => f.out.bytes = c.out.data
  <1> DEFINE state == QCBOREncode_GetErrorState(c).uError
             err   == IF state = "SUCCESS" /\ Nesting_IsInNest(c)
                      THEN "ARRAY_OR_MAP_STILL_OPEN" ELSE state
             out   == IF err = "SUCCESS" THEN UsefulOutBuf_OutUBuf(c.out) ELSE NULLUsefulBufC
  <1>1. state = IF c.out.err THEN "BUFFER_TOO_SMALL" ELSE c.uError
    <2>1. SetError(c, "BUFFER_TOO_SMALL").uError = "BUFFER_TOO_SMALL"
      BY SetErrorGrows DEF Errors
    <2> QED
      BY <2>1 DEF QCBOREncode_GetErrorState
  <1>2. QCBOREncode_Finish(c) = [err |-> err, out |-> out]
    BY DEF QCBOREncode_Finish
  <1> HIDE DEF state
  <1>3. err = "SUCCESS" <=> ~c.out.err /\ c.uError = "SUCCESS" /\ ~Nesting_IsInNest(c)
    BY <1>1
  <1>4. err = "SUCCESS" => out.bytes = c.out.data
    BY <1>3 DEF UsefulOutBuf_OutUBuf
  <1> HIDE DEF err, out
  <1> QED
    BY <1>2, <1>3, <1>4

\* A size calculation predicts the encoding for every sequence of calls and every size of
\* the buffer: the encoding ends well exactly when the calculation does with a size that
\* fits, and then has that size (QCBOREncode_FinishGetSize).
THEOREM SizeIsPredicted == Spec => []SizeCalcAgrees
  <1>1. IInv => SizeCalcAgrees
    <2> SUFFICES ASSUME IInv, Finished
                 PROVE  /\ (result.real.err = "SUCCESS") =
                             (result.size.err = "SUCCESS" /\ result.size.len <= enc.out.cap)
                        /\ result.real.err = "SUCCESS" =>
                             result.size.len = Len(result.real.out.bytes)
      BY DEF SizeCalcAgrees
    <2> DEFINE f == QCBOREncode_Finish(enc)
               g == QCBOREncode_Finish(calc)
    <2>1. result = [real |-> f, size |-> QCBOREncode_FinishGetSize(calc)]
      BY DEF IInv, ResultInv
    <2>2. Good(enc) /\ Good(calc) /\ Agree(enc, calc)
      BY DEF IInv, Pair
    <2>3. /\ f.err = "SUCCESS" <=> ~enc.out.err /\ enc.uError = "SUCCESS" /\ ~Nesting_IsInNest(enc)
          /\ f.err = "SUCCESS" => f.out.bytes = enc.out.data
      BY <2>2, FinishFacts
    <2>4. /\ g.err = "SUCCESS" <=> ~calc.out.err /\ calc.uError = "SUCCESS" /\ ~Nesting_IsInNest(calc)
          /\ g.err = "SUCCESS" => g.out.bytes = calc.out.data
      BY <2>2, FinishFacts
    <2> HIDE DEF f, g
    <2>5. QCBOREncode_FinishGetSize(calc) = [err |-> g.err, len |-> Len(g.out.bytes)]
      BY DEF QCBOREncode_FinishGetSize, g
    <2>6. result.real = f /\ result.size.err = g.err /\ result.size.len = Len(g.out.bytes)
      BY <2>1, <2>5
    <2>7. /\ Len(enc.out.data) \in Nat /\ Len(calc.out.data) \in Nat /\ enc.out.cap \in Nat
          /\ Len(enc.out.data) <= enc.out.cap
      BY <2>2, GoodFields
    <2>8. CASE ~enc.out.err
      <3>1. /\ ~calc.out.err /\ enc.out.data = calc.out.data
            /\ enc.nesting = calc.nesting /\ enc.uError = calc.uError
        BY <2>2, <2>8 DEF Agree, Same
      <3>2. f.err = "SUCCESS" <=> g.err = "SUCCESS"
        BY <2>3, <2>4, <2>8, <3>1 DEF Nesting_IsInNest
      <3>3. f.err = "SUCCESS" => Len(g.out.bytes) = Len(f.out.bytes) /\ Len(g.out.bytes) <= enc.out.cap
        BY <2>3, <2>4, <2>7, <3>1, <3>2
      <3> QED
        BY <2>6, <3>2, <3>3
    <2>9. CASE enc.out.err
      <3>1. f.err # "SUCCESS"
        BY <2>3, <2>9
      <3>2. ~(g.err = "SUCCESS" /\ Len(g.out.bytes) <= enc.out.cap)
        BY <2>2, <2>4, <2>7, <2>9 DEF Agree
      <3> QED
        BY <2>6, <3>1, <3>2
    <2> QED
      BY <2>8, <2>9
  <1> QED
    BY <1>1, EncoderInvariant, PTL

-----------------------------------------------------------------------------
(* A context and the document it encodes *)

\* The kinds of levels a caller opens, and the one it starts in.
Kinds == {"top", "array", "map", "wrap", "iarray", "imap", "opened"}

\* The levels of documents.
DocLevels == [kind : Kinds, items : Seq(Tokens), num : Nat]

\* The type the encoder keeps for a level.
TypeOf(kind) ==
    CASE kind \in {"top", "array"} -> ARRAY
      [] kind = "map"    -> MAP
      [] kind = "wrap"   -> BYTE_STRING
      [] kind = "iarray" -> ARRAY_INDEFINITE_LEN
      [] kind = "imap"   -> MAP_INDEFINITE_LEN
      [] kind = "opened" -> OPEN_BSTR

\* Where the bytes of a level end: where the next one starts.
EndOf(nest, D, n, i) == IF i < n THEN nest[i + 1].start ELSE Len(D)

\* A level counts its items, the one it is inside among them, and its bytes are those of
\* the caller's items.
LevelHolds(level, want, i, n) ==
    /\ level.type = TypeOf(want.kind)
    /\ level.count = want.num + (IF i < n THEN 1 ELSE 0)
    /\ want.kind = "top" <=> i = 1
    /\ want.kind = "opened" => i = n /\ want.items = << >>

\* The levels of the context are those of the document.
Document(nest, D, d) ==
    /\ d \in Seq(DocLevels) /\ Len(d) = Len(nest) /\ Len(d) >= 1 /\ nest[1].start = 0
    /\ \A i \in 1..Len(d) :
         /\ LevelHolds(nest[i], d[i], i, Len(d))
         /\ Piece(D, nest[i].start, EndOf(nest, D, Len(d), i), d[i].items)

\* A level with more items.
LEMMA MoreType ==
  ASSUME NEW lev \in DocLevels, NEW T \in Seq(Tokens), NEW k \in Nat
  PROVE  LET m == More(lev, T, k)
         IN  m \in DocLevels /\ m.kind = lev.kind /\ m.items = lev.items \o T /\ m.num = lev.num + k
  <1>1. lev.items \in Seq(Tokens) /\ lev.num \in Nat
    BY DEF DocLevels
  <1> DEFINE items == lev.items \o T
             n     == lev.num + k
             up    == [lev EXCEPT !.items = items]
             m     == [up EXCEPT !.num = n]
  <1>2. items \in Seq(Tokens) /\ n \in Nat
    BY <1>1, ConcatProperties
  <1>3. More(lev, T, k) = m
    BY DEF More
  <1> HIDE DEF items, n
  <1>4. up \in DocLevels /\ up.kind = lev.kind /\ up.items = items
    BY <1>2 DEF DocLevels
  <1> HIDE DEF up
  <1>5. m \in DocLevels
    BY <1>2, <1>4 DEF DocLevels
  <1>6. m.kind = up.kind /\ m.items = up.items /\ m.num = n
    BY <1>4 DEF DocLevels
  <1> HIDE DEF m
  <1> QED
    BY <1>3, <1>4, <1>5, <1>6 DEF items, n

\* A level that counts more items.
LEMMA RaisedType ==
  ASSUME NEW x \in AnyLevels, NEW k \in Nat
  PROVE  /\ Raised(x, k) \in AnyLevels /\ Raised(x, k).type = x.type
         /\ Raised(x, k).start = x.start /\ Raised(x, k).count = x.count + k
  <1> DEFINE n == x.count + k
             r == [x EXCEPT !.count = n]
  <1>1. n \in Nat
    BY DEF AnyLevels
  <1>2. Raised(x, k) = r
    BY DEF Raised
  <1> HIDE DEF n
  <1>3. r \in AnyLevels
    BY <1>1 DEF AnyLevels
  <1>4. r.type = x.type /\ r.start = x.start /\ r.count = n
    BY DEF AnyLevels
  <1> HIDE DEF r
  <1> QED
    BY <1>2, <1>3, <1>4 DEF n

\* Items behind the last level.
LEMMA DocumentMore ==
  ASSUME NEW nest \in Seq(AnyLevels), NEW D \in Seq(Byte), NEW d, Document(nest, D, d),
         d[Len(d)].kind # "opened",
         NEW x, NEW T, Encodes(x, T), NEW k \in Nat
  PROVE  Document(Counted(nest, k), D \o x, [d EXCEPT ![Len(d)] = More(@, T, k)])
  <1> DEFINE N     == Len(d)
             lev   == Raised(nest[N], k)
             more  == More(d[N], T, k)
             nest2 == [nest EXCEPT ![N] = lev]
             d2    == [d EXCEPT ![N] = more]
             D2    == D \o x
  <1>1. /\ d \in Seq(DocLevels) /\ Len(nest) = N /\ Len(d) = N /\ N >= 1 /\ N \in Nat
        /\ nest[1].start = 0 /\ N \in 1..N
    BY LenProperties DEF Document
  <1>2. \A i \in 1..N : nest[i] \in AnyLevels /\ d[i] \in DocLevels
    BY <1>1, ElementOfSeq
  <1>3. \A i \in 1..N : LevelHolds(nest[i], d[i], i, N) /\ Piece(D, nest[i].start, EndOf(nest, D, N, i), d[i].items)
    BY DEF Document
  <1>4. x \in Seq(Byte) /\ T \in Seq(Tokens)
    BY DEF Encodes
  <1>5. lev \in AnyLevels /\ lev.type = nest[N].type /\ lev.start = nest[N].start /\ lev.count = nest[N].count + k
    BY <1>1, <1>2, RaisedType
  <1>6. more \in DocLevels /\ more.kind = d[N].kind /\ more.items = d[N].items \o T /\ more.num = d[N].num + k
    BY <1>1, <1>2, <1>4, MoreType
  <1>7. Counted(nest, k) = nest2 /\ [d EXCEPT ![Len(d)] = More(@, T, k)] = d2
    BY <1>1 DEF Counted
  <1>8. d[N].kind # "opened"
    OBVIOUS
  <1> HIDE DEF lev, more, N
  <1>9. Len(nest2) = N /\ \A i \in 1..N : nest2[i] = IF i = N THEN lev ELSE nest[i]
    BY <1>1, <1>5, ExceptSeq
  <1>10. d2 \in Seq(DocLevels) /\ Len(d2) = N /\ \A i \in 1..N : d2[i] = IF i = N THEN more ELSE d[i]
    BY <1>1, <1>6, ExceptSeq
  <1> HIDE DEF nest2, d2
  <1>11. \A i \in 1..N : nest2[i].start = nest[i].start
    BY <1>5, <1>9
  <1>12. D2 \in Seq(Byte)
    BY <1>4, ConcatProperties
  <1>13. ASSUME NEW i \in 1..N
         PROVE  LevelHolds(nest2[i], d2[i], i, N) /\ Piece(D2, nest2[i].start, EndOf(nest2, D2, N, i), d2[i].items)
    <2>1. LevelHolds(nest[i], d[i], i, N) /\ Piece(D, nest[i].start, EndOf(nest, D, N, i), d[i].items)
      BY <1>3
    <2>2. nest[i].start \in Nat
      BY <1>2 DEF AnyLevels
    <2>3. CASE i < N
      <3>1. nest2[i] = nest[i] /\ d2[i] = d[i] /\ i + 1 \in 1..N
        BY <1>1, <1>9, <1>10, <2>3
      <3>2. EndOf(nest2, D2, N, i) = EndOf(nest, D, N, i)
        BY <1>11, <2>3, <3>1 DEF EndOf
      <3> HIDE DEF D2
      <3>3. Piece(D2, nest[i].start, EndOf(nest, D, N, i), d[i].items)
        BY <1>4, <2>1, <2>2, PieceMore DEF D2
      <3> QED
        BY <2>1, <3>1, <3>2, <3>3
    <2>4. CASE i = N
      <3>1. nest2[i] = lev /\ d2[i] = more
        BY <1>9, <1>10, <2>4
      <3>2. EndOf(nest2, D2, N, i) = Len(D2) /\ EndOf(nest, D, N, i) = Len(D)
        BY <1>1, <2>4 DEF EndOf
      <3>3. Piece(D2, nest[N].start, Len(D2), d[N].items \o T)
        BY <1>4, <2>1, <2>2, <2>4, <3>2, PieceEnd
      <3>4. LevelHolds(lev, more, N, N)
        <4>1. d[N].num \in Nat /\ ~(N < N)
          BY <1>1, <1>2 DEF DocLevels
        <4>2. /\ nest[N].type = TypeOf(d[N].kind) /\ nest[N].count = d[N].num + 0
              /\ d[N].kind = "top" <=> N = 1
          BY <2>1, <2>4, <4>1 DEF LevelHolds
        <4> QED
          BY <1>5, <1>6, <1>8, <4>1, <4>2 DEF LevelHolds
      <3> QED
        BY <1>5, <1>6, <2>4, <3>1, <3>2, <3>3, <3>4
    <2> QED
      BY <1>1, <2>3, <2>4
  <1>14. nest2[1].start = 0
    BY <1>1, <1>11
  <1> HIDE DEF D2
  <1>15. Document(nest2, D2, d2)
    BY <1>1, <1>9, <1>10, <1>13, <1>14 DEF Document
  <1> QED
    BY <1>7, <1>15 DEF D2

\* A new level behind it.
LEMMA DocumentOpened ==
  ASSUME NEW nest \in Seq(AnyLevels), NEW D \in Seq(Byte), NEW d, Document(nest, D, d),
         d[Len(d)].kind # "opened", NEW kind \in Kinds, kind # "top"
  PROVE  Document(Append(Counted(nest, 1), Nesting_Level(TypeOf(kind), Len(D))), D, Append(d, NewLevel(kind)))
  <1> DEFINE N     == Len(d)
             one   == 1
             lev   == Raised(nest[N], one)
             new   == Nesting_Level(TypeOf(kind), Len(D))
             want  == NewLevel(kind)
             nest1 == [nest EXCEPT ![N] = lev]
             nest2 == Append(nest1, new)
             d2    == Append(d, want)
  <1>1. /\ d \in Seq(DocLevels) /\ Len(nest) = N /\ Len(d) = N /\ N >= 1 /\ N \in Nat
        /\ nest[1].start = 0 /\ N \in 1..N /\ Len(D) \in Nat
    BY LenProperties DEF Document
  <1>2. \A i \in 1..N : nest[i] \in AnyLevels /\ d[i] \in DocLevels
    BY <1>1, ElementOfSeq
  <1>3. \A i \in 1..N : LevelHolds(nest[i], d[i], i, N) /\ Piece(D, nest[i].start, EndOf(nest, D, N, i), d[i].items)
    BY DEF Document
  <1>4. lev \in AnyLevels /\ lev.type = nest[N].type /\ lev.start = nest[N].start /\ lev.count = nest[N].count + 1
    BY <1>1, <1>2, RaisedType
  <1>5. TypeOf(kind) \in Nat
    BY DEF TypeOf, Kinds, ARRAY, MAP, BYTE_STRING, ARRAY_INDEFINITE_LEN, MAP_INDEFINITE_LEN,
           INDEFINITE_LEN_TYPE_MODIFIER, OPEN_BSTR
  <1>6. new \in AnyLevels /\ new.type = TypeOf(kind) /\ new.count = 0 /\ new.start = Len(D)
    BY <1>1, <1>5 DEF Nesting_Level, AnyLevels
  <1>7. want \in DocLevels /\ want.kind = kind /\ want.items = << >> /\ want.num = 0
    <2>1. << >> \in Seq(Tokens)
      OBVIOUS
    <2> QED
      BY <2>1 DEF NewLevel, DocLevels
  <1>8. Counted(nest, 1) = nest1
    BY <1>1 DEF Counted
  <1>9. d[N].kind # "opened"
    OBVIOUS
  <1> HIDE DEF lev, new, want, N, one
  <1>10. nest1 \in Seq(AnyLevels) /\ Len(nest1) = N /\ \A i \in 1..N : nest1[i] = IF i = N THEN lev ELSE nest[i]
    BY <1>1, <1>4, ExceptSeq
  <1> HIDE DEF nest1
  <1>11. /\ Len(nest2) = N + 1 /\ nest2[N + 1] = new
         /\ \A i \in 1..N : nest2[i] = IF i = N THEN lev ELSE nest[i]
    BY <1>6, <1>10, AppendProperties
  <1>12. d2 \in Seq(DocLevels) /\ Len(d2) = N + 1 /\ d2[N + 1] = want /\ \A i \in 1..N : d2[i] = d[i]
    BY <1>1, <1>7, AppendProperties
  <1> HIDE DEF nest2, d2
  <1> DEFINE M == N + 1
  <1>13. M \in Nat /\ M >= 1 /\ N < M /\ M # 1 /\ \A i \in 1..M : i \in 1..N \/ i = M
    BY <1>1
  <1>14. nest2[M] = new /\ d2[M] = want /\ Len(d2) = M /\ Len(nest2) = M
    BY <1>11, <1>12
  <1>15. \A i \in 1..N : i + 1 = M <=> i = N
    BY <1>1
  <1> HIDE DEF M
  <1>16. \A i \in 1..N : nest2[i].start = nest[i].start
    BY <1>4, <1>11
  <1>17. ASSUME NEW i \in 1..N
         PROVE  LevelHolds(nest2[i], d2[i], i, M) /\ Piece(D, nest2[i].start, EndOf(nest2, D, M, i), d2[i].items)
    <2>1. LevelHolds(nest[i], d[i], i, N) /\ Piece(D, nest[i].start, EndOf(nest, D, N, i), d[i].items)
      BY <1>3
    <2>2. i < M /\ i # M
      BY <1>1, <1>13
    <2>3. CASE i < N
      <3>1. nest2[i] = nest[i] /\ d2[i] = d[i] /\ i + 1 \in 1..N
        BY <1>1, <1>11, <1>12, <2>3
      <3>2. EndOf(nest2, D, M, i) = EndOf(nest, D, N, i)
        BY <1>16, <2>2, <2>3, <3>1 DEF EndOf
      <3>3. i # N
        BY <1>1, <2>3
      <3>4. LevelHolds(nest[i], d[i], i, M)
        BY <2>1, <2>2, <2>3, <3>3 DEF LevelHolds
      <3> QED
        BY <2>1, <3>1, <3>2, <3>4
    <2>4. CASE i = N
      <3>1. nest2[i] = lev /\ d2[i] = d[i]
        BY <1>11, <1>12, <2>4
      <3>2. EndOf(nest2, D, M, i) = Len(D) /\ EndOf(nest, D, N, i) = Len(D)
        BY <1>1, <1>6, <1>14, <1>15, <2>2, <2>4 DEF EndOf
      <3>3. LevelHolds(lev, d[N], N, M)
        <4>1. d[N].num \in Nat /\ ~(N < N) /\ N < M
          BY <1>1, <1>2, <1>13 DEF DocLevels
        <4>2. /\ nest[N].type = TypeOf(d[N].kind) /\ nest[N].count = d[N].num + 0
              /\ d[N].kind = "top" <=> N = 1
          BY <2>1, <2>4, <4>1 DEF LevelHolds
        <4> QED
          BY <1>4, <1>9, <4>1, <4>2 DEF LevelHolds
      <3> QED
        BY <1>4, <2>1, <2>4, <3>1, <3>2, <3>3
    <2> QED
      BY <1>1, <2>3, <2>4
  <1>18. LevelHolds(new, want, M, M) /\ Piece(D, new.start, EndOf(nest2, D, M, M), want.items)
    <2>1. ~(M < M) /\ EndOf(nest2, D, M, M) = Len(D)
      BY <1>13 DEF EndOf
    <2>2. Piece(D, Len(D), Len(D), << >>)
      BY PieceEmpty
    <2>3. LevelHolds(new, want, M, M)
      BY <1>6, <1>7, <1>13, <2>1 DEF LevelHolds
    <2> QED
      BY <1>6, <1>7, <2>1, <2>2, <2>3
  <1>19. nest2[1].start = 0
    BY <1>1, <1>16
  <1>20. Document(nest2, D, d2)
    BY <1>12, <1>13, <1>14, <1>17, <1>18, <1>19 DEF Document
  <1> QED
    BY <1>8, <1>20 DEF nest2, d2, new, want

\* Without the last level, whose bytes became an item of the one around it.
LEMMA DocumentClosed ==
  ASSUME NEW nest \in Seq(AnyLevels), Ordered(nest), NEW D \in Seq(Byte), NEW d, Document(nest, D, d),
         Len(d) > 1, NEW E, NEW W, Encodes(E, W)
  PROVE  Document(SubSeq(nest, 1, Len(nest) - 1), SubSeq(D, 1, nest[Len(nest)].start) \o E,
                  [SubSeq(d, 1, Len(d) - 1) EXCEPT ![Len(d) - 1] = More(@, W, 1)])
  <1> DEFINE N     == Len(d)
             M     == N - 1
             one   == 1
             s     == nest[N].start
             F     == SubSeq(D, 1, s)
             D2    == F \o E
             nest2 == SubSeq(nest, 1, M)
             front == SubSeq(d, 1, M)
             more  == More(d[M], W, one)
             d2    == [front EXCEPT ![M] = more]
  <1>1. /\ d \in Seq(DocLevels) /\ Len(nest) = N /\ Len(d) = N /\ N > 1 /\ N \in Nat
        /\ nest[1].start = 0 /\ N \in 1..N /\ Len(D) \in Nat
    BY LenProperties DEF Document
  <1>2. /\ M \in Nat /\ M >= 1 /\ M \in 1..N /\ M \in 1..M /\ M \in 0..N /\ M < N /\ M + 1 = N
        /\ 1 \in 1..M /\ \A i \in 1..M : i \in 1..N /\ i < N /\ i # N
    BY <1>1
  <1>3. \A i \in 1..N : nest[i] \in AnyLevels /\ d[i] \in DocLevels
    BY <1>1, ElementOfSeq
  <1>4. \A i \in 1..N : LevelHolds(nest[i], d[i], i, N) /\ Piece(D, nest[i].start, EndOf(nest, D, N, i), d[i].items)
    BY DEF Document
  <1>5. \A i, j \in 1..N : i <= j => nest[i].start <= nest[j].start
    BY <1>1 DEF Ordered
  <1>6. E \in Seq(Byte) /\ W \in Seq(Tokens)
    BY DEF Encodes
  <1>7. /\ SubSeq(nest, 1, Len(nest) - 1) = nest2 /\ SubSeq(D, 1, nest[Len(nest)].start) = F
        /\ [SubSeq(d, 1, Len(d) - 1) EXCEPT ![Len(d) - 1] = More(@, W, 1)]
             = [front EXCEPT ![M] = More(front[M], W, 1)]
    BY <1>1
  <1> HIDE DEF N, M
  <1>8. d[M].kind # "opened"
    <2>1. LevelHolds(nest[M], d[M], M, N) /\ M # N
      BY <1>2, <1>4
    <2> QED
      BY <2>1 DEF LevelHolds
  <1>9. s \in Nat /\ s <= Len(D)
    <2>1. s \in Nat
      BY <1>1, <1>3 DEF AnyLevels
    <2>2. Piece(D, s, Len(D), d[N].items)
      <3>1. EndOf(nest, D, N, N) = Len(D)
        BY <1>1 DEF EndOf
      <3> QED
        BY <1>1, <1>4, <3>1
    <2> QED
      BY <2>1, <2>2, PieceTail
  <1>10. \A i \in 1..N : nest[i].start \in Nat /\ nest[i].start <= s
    BY <1>1, <1>3, <1>5 DEF AnyLevels
  <1> HIDE DEF s
  <1>11. F \in Seq(Byte) /\ Len(F) = s
    BY <1>9, FrontOf
  <1>12. Len(nest2) = M /\ \A i \in 1..M : nest2[i] = nest[i]
    BY <1>1, <1>2, FrontOf
  <1>13. front \in Seq(DocLevels) /\ Len(front) = M /\ \A i \in 1..M : front[i] = d[i]
    BY <1>1, <1>2, FrontOf
  <1> HIDE DEF F, nest2, front
  <1>22. one \in Nat /\ one = 1
    OBVIOUS
  <1> HIDE DEF one
  <1>14. more \in DocLevels /\ more.kind = d[M].kind /\ more.items = d[M].items \o W /\ more.num = d[M].num + 1
    BY <1>2, <1>3, <1>6, <1>22, MoreType
  <1>15. front[M] = d[M] /\ More(front[M], W, 1) = more
    BY <1>2, <1>13, <1>22
  <1> HIDE DEF more
  <1>16. d2 \in Seq(DocLevels) /\ Len(d2) = M /\ \A i \in 1..M : d2[i] = IF i = M THEN more ELSE front[i]
    BY <1>2, <1>13, <1>14, ExceptSeq
  <1>17. \A i \in 1..M : d2[i] = IF i = M THEN more ELSE d[i]
    BY <1>13, <1>16
  <1> HIDE DEF d2
  <1>18. D2 \in Seq(Byte)
    BY <1>6, <1>11, ConcatProperties
  <1>19. ASSUME NEW i \in 1..M
         PROVE  LevelHolds(nest2[i], d2[i], i, M) /\ Piece(D2, nest2[i].start, EndOf(nest2, D2, M, i), d2[i].items)
    <2>1. /\ LevelHolds(nest[i], d[i], i, N) /\ Piece(D, nest[i].start, EndOf(nest, D, N, i), d[i].items)
          /\ nest[i].start \in Nat /\ i \in 1..N /\ i < N /\ nest2[i] = nest[i]
      BY <1>2, <1>4, <1>10, <1>12
    <2>2. EndOf(nest, D, N, i) = nest[i + 1].start /\ i + 1 \in 1..N
      BY <1>1, <2>1 DEF EndOf
    <2>3. Piece(F, nest[i].start, nest[i + 1].start, d[i].items)
      <3>1. nest[i + 1].start <= s
        BY <1>10, <2>2
      <3> DEFINE to == nest[i + 1].start
      <3>2. Piece(D, nest[i].start, to, d[i].items) /\ to <= s
        BY <2>1, <2>2, <3>1
      <3> HIDE DEF to
      <3>3. Piece(SubSeq(D, 1, s), nest[i].start, to, d[i].items)
        BY <1>9, <2>1, <3>2, PieceCut
      <3> QED
        BY <3>3 DEF F, to
    <2>4. CASE i < M
      <3>1. d2[i] = d[i] /\ i + 1 \in 1..M
        BY <1>2, <1>17, <2>4
      <3>2. EndOf(nest2, D2, M, i) = nest[i + 1].start
        BY <1>12, <2>4, <3>1 DEF EndOf
      <3> HIDE DEF D2
      <3>3. Piece(D2, nest[i].start, nest[i + 1].start, d[i].items)
        BY <1>6, <1>11, <2>1, <2>3, PieceMore DEF D2
      <3>4. LevelHolds(nest[i], d[i], i, M)
        <4>1. i # M
          BY <1>2, <2>4
        <4> QED
          BY <2>1, <2>4, <4>1 DEF LevelHolds
      <3> QED
        BY <2>1, <3>1, <3>2, <3>3, <3>4
    <2>5. CASE i = M
      <3>1. d2[i] = more /\ nest[i + 1].start = s
        BY <1>2, <1>17, <2>5 DEF s
      <3>2. EndOf(nest2, D2, M, i) = Len(D2)
        BY <1>2, <2>5 DEF EndOf
      <3>3. Piece(F, nest[i].start, Len(F), d[i].items)
        BY <1>11, <2>3, <3>1
      <3>4. Piece(D2, nest[i].start, Len(D2), d[i].items \o W)
        BY <1>6, <1>11, <2>1, <3>3, PieceEnd
      <3>5. LevelHolds(nest[i], more, i, M)
        <4>1. d[i].num \in Nat /\ ~(M < M)
          BY <1>2, <1>3, <2>1 DEF DocLevels
        <4>2. nest[i].type = TypeOf(d[i].kind) /\ nest[i].count = d[i].num + 1 /\ (d[i].kind = "top" <=> i = 1)
          BY <2>1 DEF LevelHolds
        <4> QED
          BY <1>8, <1>14, <2>5, <4>1, <4>2 DEF LevelHolds
      <3> QED
        BY <1>14, <2>1, <2>5, <3>1, <3>2, <3>4, <3>5
    <2> QED
      BY <1>2, <2>4, <2>5
  <1>20. nest2[1].start = 0
    BY <1>1, <1>2, <1>12
  <1> HIDE DEF D2
  <1>21. Document(nest2, D2, d2)
    BY <1>2, <1>12, <1>16, <1>19, <1>20 DEF Document
  <1> QED
    BY <1>7, <1>15, <1>21 DEF D2, d2

\* The remainder of a number that is small already.
LEMMA SmallRemainder == \A a, b \in Nat : a < b => a % b = a
  OBVIOUS

\* A level that is taken back.
LEMMA DocumentCancelled ==
  ASSUME NEW nest \in Seq(Levels), Ordered(nest), NEW D \in Seq(Byte), NEW d, Document(nest, D, d),
         Len(d) > 1, nest[Len(nest)].start = Len(D)
  PROVE  Document(Uncounted(SubSeq(nest, 1, Len(nest) - 1)), D, SubSeq(d, 1, Len(d) - 1))
  <1> DEFINE N     == Len(d)
             M     == N - 1
             front == SubSeq(nest, 1, M)
             n     == nest[M].count - 1
             lev   == [nest[M] EXCEPT !.count = n]
             nest2 == [front EXCEPT ![M] = lev]
             d2    == SubSeq(d, 1, M)
  <1>1. /\ d \in Seq(DocLevels) /\ Len(nest) = N /\ Len(d) = N /\ N > 1 /\ N \in Nat
        /\ nest[1].start = 0 /\ N \in 1..N /\ Len(D) \in Nat
    BY LenProperties DEF Document
  <1>2. /\ M \in Nat /\ M >= 1 /\ M \in 1..N /\ M \in 1..M /\ M \in 0..N /\ M < N /\ M + 1 = N
        /\ 1 \in 1..M /\ \A i \in 1..M : i \in 1..N /\ i < N /\ i # N
    BY <1>1
  <1>3. \A i \in 1..N : nest[i] \in Levels /\ d[i] \in DocLevels
    BY <1>1, ElementOfSeq
  <1>4. \A i \in 1..N : LevelHolds(nest[i], d[i], i, N) /\ Piece(D, nest[i].start, EndOf(nest, D, N, i), d[i].items)
    BY DEF Document
  <1>5. SubSeq(nest, 1, Len(nest) - 1) = front /\ SubSeq(d, 1, Len(d) - 1) = d2 /\ nest[N].start = Len(D)
    BY <1>1
  <1> HIDE DEF N, M
  <1>6. nest[M].count = d[M].num + 1 /\ d[M].kind # "opened"
    <2>1. LevelHolds(nest[M], d[M], M, N) /\ M # N /\ M < N
      BY <1>2, <1>4
    <2> QED
      BY <2>1 DEF LevelHolds
  <1>7. Len(front) = M /\ front \in Seq(Levels) /\ \A i \in 1..M : front[i] = nest[i]
    BY <1>1, <1>2, FrontOf
  <1>8. d2 \in Seq(DocLevels) /\ Len(d2) = M /\ \A i \in 1..M : d2[i] = d[i]
    BY <1>1, <1>2, FrontOf
  <1> HIDE DEF front, d2
  <1>9. n = d[M].num /\ n \in 0..(CountRange - 1) /\ n % CountRange = n
    <2>1. d[M].num \in Nat /\ nest[M].count \in 0..(CountRange - 1)
      BY <1>2, <1>3 DEF DocLevels, Levels
    <2>2. CountRange \in Nat
      BY LimitsAssumption DEF CountRange
    <2>3. n = d[M].num /\ n \in Nat /\ n < CountRange /\ n \in 0..(CountRange - 1)
      <3> DEFINE x == nest[M].count
                 y == d[M].num
                 r == CountRange
      <3>1. x = y + 1 /\ y \in Nat /\ x \in 0..(r - 1) /\ r \in Nat /\ n = x - 1
        BY <1>6, <2>1, <2>2
      <3> HIDE DEF x, y, r, n
      <3>2. n = y /\ n \in Nat /\ n < r /\ n \in 0..(r - 1)
        BY <3>1
      <3> QED
        BY <3>2 DEF y, r
    <2> HIDE DEF n
    <2>4. n % CountRange = n
      BY <2>2, <2>3, SmallRemainder
    <2> QED
      BY <2>3, <2>4
  <1> HIDE DEF n
  <1>10. lev \in Levels /\ lev.type = nest[M].type /\ lev.start = nest[M].start /\ lev.count = n
    BY <1>2, <1>3, <1>9 DEF Levels
  <1>11. Uncounted(front) = nest2
    <2>1. front[M] = nest[M]
      BY <1>2, <1>7
    <2>2. (front[M].count - 1) % CountRange = n
      BY <1>9, <2>1 DEF n
    <2>3. Uncounted(front) = [front EXCEPT ![M] = [front[M] EXCEPT !.count = n]]
      BY <1>7, <2>2 DEF Uncounted
    <2> QED
      BY <2>1, <2>3
  <1> HIDE DEF lev
  <1>12. Len(nest2) = M /\ \A i \in 1..M : nest2[i] = IF i = M THEN lev ELSE front[i]
    BY <1>2, <1>7, <1>10, ExceptSeq
  <1> HIDE DEF nest2
  <1>13. \A i \in 1..M : nest2[i].start = nest[i].start /\ nest2[i].type = nest[i].type
    BY <1>7, <1>10, <1>12
  <1>14. ASSUME NEW i \in 1..M
         PROVE  LevelHolds(nest2[i], d2[i], i, M) /\ Piece(D, nest2[i].start, EndOf(nest2, D, M, i), d2[i].items)
    <2>1. /\ LevelHolds(nest[i], d[i], i, N) /\ Piece(D, nest[i].start, EndOf(nest, D, N, i), d[i].items)
          /\ i \in 1..N /\ i < N /\ d2[i] = d[i]
      BY <1>2, <1>4, <1>8
    <2>2. EndOf(nest, D, N, i) = nest[i + 1].start
      BY <2>1 DEF EndOf
    <2>3. CASE i < M
      <3>1. i + 1 \in 1..M /\ i # M
        BY <1>2, <2>3
      <3>2. EndOf(nest2, D, M, i) = nest[i + 1].start /\ nest2[i] = nest[i]
        BY <1>7, <1>12, <1>13, <2>3, <3>1 DEF EndOf
      <3>3. LevelHolds(nest[i], d[i], i, M)
        BY <2>1, <2>3, <3>1 DEF LevelHolds
      <3> QED
        BY <2>1, <2>2, <3>2, <3>3
    <2>4. CASE i = M
      <3>1. nest2[i] = lev
        BY <1>12, <2>4
      <3>2. EndOf(nest2, D, M, i) = Len(D) /\ nest[i + 1].start = Len(D)
        BY <1>2, <1>5, <2>4 DEF EndOf
      <3>3. LevelHolds(lev, d[i], i, M)
        <4>1. d[i].num \in Nat /\ ~(M < M) /\ d[i].num + 0 = d[i].num
          BY <1>2, <1>3, <2>1 DEF DocLevels
        <4>2. nest[i].type = TypeOf(d[i].kind) /\ (d[i].kind = "top" <=> i = 1)
          BY <2>1 DEF LevelHolds
        <4> QED
          BY <1>6, <1>9, <1>10, <2>4, <4>1, <4>2 DEF LevelHolds
      <3> QED
        BY <1>10, <2>1, <2>2, <2>4, <3>1, <3>2, <3>3
    <2> QED
      BY <1>2, <2>3, <2>4
  <1>15. nest2[1].start = 0
    BY <1>1, <1>2, <1>13
  <1>16. Document(nest2, D, d2)
    BY <1>2, <1>8, <1>12, <1>14, <1>15 DEF Document
  <1> QED
    BY <1>5, <1>11, <1>16

\* The last level, whose bytes go to the end.
LEMMA LastLevel ==
  ASSUME NEW nest \in Seq(AnyLevels), NEW D \in Seq(Byte), NEW d, Document(nest, D, d)
  PROVE  LET last == nest[Len(nest)]
             want == d[Len(d)]
         IN  /\ Len(d) = Len(nest) /\ Len(d) \in Nat /\ want \in DocLevels
             /\ last.start \in 0..Len(D) /\ last.type = TypeOf(want.kind) /\ last.count = want.num
             /\ want.kind = "top" <=> Len(d) = 1
             /\ want.kind = "opened" => want.items = << >>
             /\ Piece(D, last.start, Len(D), want.items)
             /\ Encodes(SubSeq(D, last.start + 1, Len(D)), want.items)
  <1> DEFINE N == Len(d)
  <1>1. /\ d \in Seq(DocLevels) /\ Len(nest) = N /\ Len(d) = N /\ N >= 1 /\ N \in Nat /\ N \in 1..N
        /\ ~(N < N) /\ Len(D) \in Nat
    BY LenProperties DEF Document
  <1>2. nest[N] \in AnyLevels /\ d[N] \in DocLevels
    BY <1>1, ElementOfSeq
  <1>3. LevelHolds(nest[N], d[N], N, N) /\ Piece(D, nest[N].start, EndOf(nest, D, N, N), d[N].items)
    BY <1>1 DEF Document
  <1> HIDE DEF N
  <1>4. Piece(D, nest[N].start, Len(D), d[N].items)
    BY <1>1, <1>3 DEF EndOf
  <1>5. nest[N].start \in Nat
    BY <1>2 DEF AnyLevels
  <1>6. nest[N].start <= Len(D) /\ Encodes(SubSeq(D, nest[N].start + 1, Len(D)), d[N].items)
    BY <1>4, <1>5, PieceTail
  <1>7. nest[N].start \in 0..Len(D)
    BY <1>1, <1>5, <1>6
  <1>8. nest[N].count = d[N].num
    <2>1. d[N].num \in Nat
      BY <1>2 DEF DocLevels
    <2> QED
      BY <1>1, <1>3, <2>1 DEF LevelHolds
  <1>9. /\ nest[N].type = TypeOf(d[N].kind)
        /\ d[N].kind = "top" <=> N = 1
        /\ d[N].kind = "opened" => d[N].items = << >>
    BY <1>3 DEF LevelHolds
  <1> QED
    BY <1>1, <1>2, <1>4, <1>6, <1>7, <1>8, <1>9

\* The type of a level tells its kind, but for the first.
LEMMA KindIs ==
  ASSUME NEW k \in Kinds, NEW l \in Kinds, k # "top", l # "top", TypeOf(k) = TypeOf(l)
  PROVE  k = l
  BY DEF TypeOf, Kinds, ARRAY, MAP, BYTE_STRING, ARRAY_INDEFINITE_LEN, MAP_INDEFINITE_LEN,
         INDEFINITE_LEN_TYPE_MODIFIER, OPEN_BSTR

\* What a context holds, with the bytes that are still to come, is what the caller wants.
Builds(c, owes, d) ==
    /\ Fair(c) /\ owes \in Seq(Byte)
    /\ Clean(c) => Document(c.nesting, c.out.data \o owes, d)

\* The levels of a context.
LEMMA LevelsType ==
  ASSUME NEW c, Fair(c)
  PROVE  /\ c.nesting \in Seq(Levels) /\ c.nesting \in Seq(AnyLevels) /\ Ordered(c.nesting)
         /\ c.out.data \in Seq(Byte) /\ Len(c.nesting) \in Nat /\ Len(c.nesting) >= 1
         /\ c.out.data \o << >> = c.out.data
  <1>1. Good(c)
    BY DEF Fair
  <1>2. c.nesting \in Seq(Levels) /\ c.out.data \in Seq(Byte) /\ Len(c.nesting) \in Nat /\ Len(c.nesting) >= 1
    BY <1>1, GoodFields
  <1>3. Counted(c.nesting, 0) = c.nesting /\ 0 \in Nat
    BY <1>2, CountedTwice
  <1>4. Counted(c.nesting, 0) \in Seq(AnyLevels)
    BY <1>2, <1>3, CountedType
  <1>5. c.out.data \o << >> = c.out.data
    BY <1>2, ConcatEmptySeq
  <1> QED
    BY <1>1, <1>2, <1>3, <1>4, <1>5 DEF Good

\* Items are added.
LEMMA BuildsMore ==
  ASSUME NEW c, NEW d, Builds(c, << >>, d), Clean(c) => d[Len(d)].kind # "opened",
         NEW e, NEW T, NEW k \in Nat, NEW owes \in Seq(Byte), Writes(c, e, T, k, owes)
  PROVE  Builds(e, owes, [d EXCEPT ![Len(d)] = More(@, T, k)])
  <1>1. Fair(c) /\ Fair(e)
    BY DEF Builds, Writes
  <1>2. /\ c.nesting \in Seq(AnyLevels) /\ c.out.data \in Seq(Byte)
        /\ c.out.data \o << >> = c.out.data
    BY <1>1, LevelsType
  <1>3. ASSUME Clean(e) PROVE Document(e.nesting, e.out.data \o owes, [d EXCEPT ![Len(d)] = More(@, T, k)])
    <2>1. Clean(c) /\ e.nesting = Counted(c.nesting, k)
      BY <1>3 DEF Writes
    <2>2. PICK b \in Seq(Byte) : e.out.data = c.out.data \o b /\ Encodes(b \o owes, T)
      BY <1>3 DEF Writes
    <2>3. Document(c.nesting, c.out.data, d) /\ d[Len(d)].kind # "opened"
      BY <1>2, <2>1 DEF Builds
    <2> DEFINE x    == b \o owes
               want == [d EXCEPT ![Len(d)] = More(@, T, k)]
    <2>4. e.out.data \o owes = c.out.data \o x
      <3>1. InTurn(c.out.data, b, owes)
        BY <1>2, JoinedInTurn
      <3> QED
        BY <2>2, <3>1 DEF InTurn
    <2>5. Encodes(x, T)
      BY <2>2
    <2> HIDE DEF x
    <2>6. Document(Counted(c.nesting, k), c.out.data \o x, want)
      BY <1>2, <2>3, <2>5, DocumentMore
    <2> HIDE DEF want
    <2>7. Document(e.nesting, e.out.data \o owes, want)
      BY <2>1, <2>4, <2>6
    <2> QED
      BY <2>7 DEF want
  <1> QED
    BY <1>1, <1>3 DEF Builds

\* A level is opened.
LEMMA BuildsOpened ==
  ASSUME NEW c, NEW d, Builds(c, << >>, d), Clean(c) => d[Len(d)].kind # "opened",
         NEW kind \in Kinds, kind # "top", NEW e, Opens(c, e, TypeOf(kind))
  PROVE  Builds(e, << >>, Append(d, NewLevel(kind)))
  <1>1. Fair(c) /\ Fair(e) /\ << >> \in Seq(Byte)
    BY DEF Builds, Opens
  <1>2. /\ c.nesting \in Seq(AnyLevels) /\ c.out.data \in Seq(Byte)
        /\ c.out.data \o << >> = c.out.data
    BY <1>1, LevelsType
  <1> DEFINE want == Append(d, NewLevel(kind))
             nest == Append(Counted(c.nesting, 1), Nesting_Level(TypeOf(kind), Len(c.out.data)))
  <1>3. ASSUME Clean(e) PROVE Document(e.nesting, e.out.data \o << >>, want)
    <2>1. Clean(c) /\ e.out.data = c.out.data /\ e.nesting = nest
      BY <1>3 DEF Opens
    <2>2. Document(c.nesting, c.out.data, d) /\ d[Len(d)].kind # "opened"
      BY <1>2, <2>1 DEF Builds
    <2>3. Document(nest, c.out.data, want)
      BY <1>2, <2>2, DocumentOpened
    <2> HIDE DEF nest, want
    <2> QED
      BY <1>2, <2>1, <2>3
  <1> QED
    BY <1>1, <1>3 DEF Builds

\* The document without its last level, which became the tokens W.
Without(d, W) == [SubSeq(d, 1, Len(d) - 1) EXCEPT ![Len(d) - 1] = More(@, W, 1)]

\* A level that can be closed is the last one of the document.
LEMMA LevelIs ==
  ASSUME NEW c, NEW owes, NEW d, Builds(c, owes, d), Clean(c), Nesting_IsInNest(c),
         NEW kind \in Kinds, kind # "top", Current(c).type = TypeOf(kind)
  PROVE  Len(d) > 1 /\ d[Len(d)].kind = kind
  <1> DEFINE D == c.out.data \o owes
  <1>1. Fair(c) /\ owes \in Seq(Byte) /\ Document(c.nesting, D, d)
    BY DEF Builds
  <1>2. c.nesting \in Seq(AnyLevels) /\ D \in Seq(Byte)
    BY <1>1, LevelsType, ConcatProperties
  <1> HIDE DEF D
  <1>3. /\ Len(d) = Len(c.nesting) /\ d[Len(d)] \in DocLevels
        /\ c.nesting[Len(c.nesting)].type = TypeOf(d[Len(d)].kind)
        /\ d[Len(d)].kind = "top" <=> Len(d) = 1
    BY <1>1, <1>2, LastLevel
  <1>4. Len(d) > 1 /\ d[Len(d)].kind # "top"
    BY <1>3 DEF Nesting_IsInNest
  <1>5. d[Len(d)].kind \in Kinds /\ TypeOf(d[Len(d)].kind) = TypeOf(kind)
    BY <1>3 DEF DocLevels, Current
  <1> QED
    BY <1>4, <1>5, KindIs

\* A level is closed, and the bytes from its start are those of one item.
LEMMA BuildsClosed ==
  ASSUME NEW c, NEW owes, NEW d, Builds(c, owes, d), NEW kind \in Kinds, kind # "top",
         NEW e, NEW data, Closes(c, e, TypeOf(kind), data), NEW W, NEW E,
         Clean(c) /\ Len(d) > 1 /\ d[Len(d)].kind = kind =>
           /\ data \o owes = SubSeq(c.out.data \o owes, 1, Current(c).start) \o E
           /\ Encodes(E, W)
  PROVE  /\ Builds(e, owes, Without(d, W))
         /\ Clean(e) => Len(d) > 1 /\ d[Len(d)].kind = kind
  <1> DEFINE D == c.out.data \o owes
             s == Current(c).start
  <1>1. Fair(c) /\ Fair(e) /\ owes \in Seq(Byte)
    BY DEF Builds, Closes
  <1>2. c.nesting \in Seq(AnyLevels) /\ Ordered(c.nesting) /\ D \in Seq(Byte)
    BY <1>1, LevelsType, ConcatProperties
  <1>3. ASSUME Clean(e)
        PROVE  /\ Len(d) > 1 /\ d[Len(d)].kind = kind
               /\ Document(e.nesting, e.out.data \o owes, Without(d, W))
    <2>1. /\ Clean(c) /\ Nesting_IsInNest(c) /\ Current(c).type = TypeOf(kind)
          /\ e.nesting = SubSeq(c.nesting, 1, Len(c.nesting) - 1) /\ e.out.data = data
      BY <1>3 DEF Closes
    <2>2. Len(d) > 1 /\ d[Len(d)].kind = kind
      BY <2>1, LevelIs
    <2>3. data \o owes = SubSeq(D, 1, s) \o E /\ Encodes(E, W)
      BY <2>1, <2>2
    <2>4. Document(c.nesting, D, d) /\ s = c.nesting[Len(c.nesting)].start
      BY <2>1 DEF Builds, Current
    <2> HIDE DEF D, s
    <2>5. Document(SubSeq(c.nesting, 1, Len(c.nesting) - 1),
                   SubSeq(D, 1, c.nesting[Len(c.nesting)].start) \o E, Without(d, W))
      BY <1>2, <2>2, <2>3, <2>4, DocumentClosed DEF Without
    <2> QED
      BY <2>1, <2>2, <2>3, <2>4, <2>5
  <1> QED
    BY <1>1, <1>3 DEF Builds

\* What closing a level leaves of the document: the level became an item of the one around.
Closed(e, owes, d, kind, W) ==
    /\ Builds(e, owes, Without(d, W))
    /\ Clean(e) => Len(d) > 1 /\ d[Len(d)].kind = kind

\* The last level of a context that builds a document, as far as it has one.
LastOf(c, D, last) ==
    /\ last \in DocLevels /\ Current(c).start \in 0..Len(D)
    /\ Current(c).count = last.num
    /\ last.kind = "opened" => last.items = << >>
    /\ Piece(D, Current(c).start, Len(D), last.items)
    /\ Encodes(SubSeq(D, Current(c).start + 1, Len(D)), last.items)

\* Its bytes are those of its items.
LEMMA BuildsLast ==
  ASSUME NEW c, NEW owes, NEW d, Builds(c, owes, d), Clean(c)
  PROVE  LastOf(c, c.out.data \o owes, d[Len(d)])
  <1> DEFINE D == c.out.data \o owes
  <1>1. Fair(c) /\ owes \in Seq(Byte) /\ Document(c.nesting, D, d)
    BY DEF Builds
  <1>2. c.nesting \in Seq(AnyLevels) /\ D \in Seq(Byte)
    BY <1>1, LevelsType, ConcatProperties
  <1> HIDE DEF D
  <1>3. LastOf(c, D, d[Len(d)])
    BY <1>1, <1>2, LastLevel DEF LastOf, Current
  <1> QED
    BY <1>3 DEF D

\* QCBOREncode_CloseArray and CloseMap.
LEMMA CountedBuilds ==
  ASSUME NEW c, NEW owes, NEW d, Builds(c, owes, d), NEW kind \in {"array", "map"}
  PROVE  Closed(QCBOREncode_CloseMapOrArray(c, TypeOf(kind)), owes, d, kind, Whole(d[Len(d)]))
  <1> DEFINE type == TypeOf(kind)
             e    == QCBOREncode_CloseMapOrArray(c, type)
             n    == Nesting_GetCount(c)
             head == QCBOREncode_EncodeHead(type, 0, n)
             s    == Current(c).start
             data == Spliced(c.out.data, head, s)
             D    == c.out.data \o owes
             rest == SubSeq(D, s + 1, Len(D))
             E    == head \o rest
             last == d[Len(d)]
             W    == Whole(last)
  <1>1. Fair(c) /\ Good(c) /\ owes \in Seq(Byte)
    BY DEF Builds, Fair
  <1>2. type \in {4, 5} /\ type \in Nat /\ kind \in Kinds /\ kind # "top"
    BY DEF TypeOf, Kinds, ARRAY, MAP
  <1>3. n \in Nat /\ IsUint64(n)
    BY <1>1, GetCountType
  <1>4. c.out.data \in Seq(Byte) /\ s \in 0..Len(c.out.data)
    BY <1>1, GoodFields DEF Levels
  <1>5. head \in Seq(Byte)
    BY <1>2, <1>3, HeadType
  <1> HIDE DEF type
  <1>6. CloseHead(type, n) = head
    BY <1>2 DEF CloseHead, OPEN_BSTR
  <1>7. Closes(c, e, type, data)
    <2> HIDE DEF head
    <2>1. Closes(c, InsertCBORHead(c, type, n), type, Spliced(c.out.data, CloseHead(type, n), Current(c).start))
      <3> HIDE DEF n
      <3> QED
        BY <1>1, <1>2, <1>3, InsertHeadCloses
    <2> QED
      BY <1>6, <2>1 DEF QCBOREncode_CloseMapOrArray
  <1> HIDE DEF e
  <1>8. data \o owes = SubSeq(D, 1, s) \o E
    <2>1. StaysInFront(c.out.data, owes, head, s)
      <3> HIDE DEF head, s
      <3> QED
        BY <1>1, <1>4, <1>5, SplicedOwes
    <2> QED
      BY <2>1 DEF StaysInFront
  <1>9. ASSUME Clean(c), Len(d) > 1, last.kind = kind
        PROVE  Encodes(E, W)
    <2>1. LastOf(c, D, last)
      BY <1>9, BuildsLast
    <2>2. Encodes(rest, last.items) /\ Current(c).count = last.num
      BY <2>1 DEF LastOf
    <2> HIDE DEF rest
    <2>3. Encodes(head \o rest, <<Token(type, n, << >>)>> \o last.items)
      <3> HIDE DEF n
      <3> QED
        BY <1>2, <1>3, <2>2, HeadInFront
    <2>4. (Current(c).type = MAP) <=> type = 5
      <3>1. Document(c.nesting, D, d) /\ Fair(c)
        BY <1>1, <1>9 DEF Builds
      <3>2. c.nesting \in Seq(AnyLevels) /\ D \in Seq(Byte)
        BY <1>1, LevelsType, ConcatProperties
      <3> HIDE DEF D
      <3>3. Current(c).type = TypeOf(last.kind)
        BY <3>1, <3>2, LastLevel DEF Current
      <3> QED
        BY <1>9, <3>3 DEF type, MAP
    <2>5. W = <<Token(type, n, << >>)>> \o last.items
      <3>1. CASE kind = "array"
        <4>1. type = 4 /\ n = last.num
          BY <2>2, <2>4, <3>1 DEF type, TypeOf, ARRAY, Nesting_GetCount
        <4> HIDE DEF n, last
        <4> QED
          BY <1>9, <3>1, <4>1 DEF Whole, Array_
      <3>2. CASE kind = "map"
        <4>1. type = 5 /\ n = last.num \div 2
          BY <2>2, <2>4, <3>2 DEF type, TypeOf, MAP, Nesting_GetCount
        <4> HIDE DEF n, last
        <4> QED
          BY <1>9, <3>2, <4>1 DEF Whole, Map_
      <3> QED
        BY <3>1, <3>2
    <2> QED
      BY <2>3, <2>5
  <1> HIDE DEF data, D, E, W, s, last
  <1>10. Clean(c) /\ Len(d) > 1 /\ last.kind = kind => data \o owes = SubSeq(D, 1, s) \o E /\ Encodes(E, W)
    BY <1>8, <1>9
  <1>11. Closes(c, e, TypeOf(kind), data)
    BY <1>7 DEF type
  <1>12. Builds(e, owes, Without(d, W)) /\ (Clean(e) => Len(d) > 1 /\ d[Len(d)].kind = kind)
    BY <1>2, <1>10, <1>11, BuildsClosed DEF D, s, last
  <1> QED
    BY <1>12 DEF Closed, e, type, W, last

\* QCBOREncode_CloseArrayIndefiniteLength and CloseMapIndefiniteLength.
LEMMA BreakBuilds ==
  ASSUME NEW c, NEW d, Builds(c, << >>, d), NEW kind \in {"iarray", "imap"}
  PROVE  Closed(QCBOREncode_CloseMapOrArrayIndefiniteLength(c, TypeOf(kind)), << >>, d, kind,
                Whole(d[Len(d)]))
  <1> DEFINE e    == QCBOREncode_CloseMapOrArrayIndefiniteLength(c, TypeOf(kind))
             none == << >>
             s    == Current(c).start
             D    == c.out.data
             a    == SubSeq(D, 1, s)
             rest == SubSeq(D, s + 1, Len(D))
             data == D \o Break
             E    == rest \o Break
             last == d[Len(d)]
             W    == Whole(last)
  <1>1. Fair(c) /\ Good(c) /\ none \in Seq(Byte)
    BY DEF Builds, Fair
  <1>2. kind \in Kinds /\ kind # "top"
    BY DEF Kinds
  <1>3. D \in Seq(Byte) /\ D \o none = D /\ s \in 0..Len(D)
    BY <1>1, GoodFields, LevelsType DEF Levels
  <1>4. Break \in Seq(Byte)
    BY IndefiniteAlone DEF Break, SIMPLE
  <1>5. Closes(c, e, TypeOf(kind), data)
    BY <1>1, IndefiniteCloses
  <1> HIDE DEF e
  <1>6. data \o none = a \o E
    <2>1. a \in Seq(Byte) /\ rest \in Seq(Byte) /\ D = a \o rest
      BY <1>3, TwoParts
    <2> HIDE DEF a, rest, D
    <2>2. InTurn(a, rest, Break)
      BY <1>4, <2>1, JoinedInTurn
    <2>3. data \in Seq(Byte)
      BY <1>3, <1>4, ConcatProperties
    <2>4. data = a \o E
      BY <2>1, <2>2 DEF InTurn
    <2>5. data \o none = data
      BY <2>3, ConcatEmptySeq
    <2> QED
      BY <2>4, <2>5
  <1>7. ASSUME Clean(c), Len(d) > 1, last.kind = kind
        PROVE  Encodes(E, W)
    <2>1. LastOf(c, D \o none, last)
      BY <1>7, BuildsLast
    <2>2. Encodes(rest, last.items)
      BY <1>3, <2>1 DEF LastOf
    <2> HIDE DEF rest, last
    <2>3. Encodes(rest \o Break, last.items \o <<Indefinite(7)>>)
      BY <2>2, BreakBehind
    <2>4. W = last.items \o <<Indefinite(7)>>
      BY <1>7 DEF Whole
    <2> QED
      BY <2>3, <2>4
  <1> HIDE DEF data, D, E, W, s, last, none
  <1>8. Clean(c) /\ Len(d) > 1 /\ last.kind = kind =>
          data \o none = SubSeq(D \o none, 1, s) \o E /\ Encodes(E, W)
    BY <1>3, <1>6, <1>7
  <1>9. Builds(c, none, d)
    BY DEF none
  <1>10. Builds(e, none, Without(d, W)) /\ (Clean(e) => Len(d) > 1 /\ d[Len(d)].kind = kind)
    BY <1>2, <1>5, <1>8, <1>9, BuildsClosed DEF D, s, last
  <1> QED
    BY <1>10 DEF Closed, e, W, last, none

\* QCBOREncode_CloseBstrWrap2, and the bytes it hands out.
LEMMA WrapBuilds ==
  ASSUME NEW c, NEW d, Builds(c, << >>, d), NEW includeHead \in BOOLEAN
  PROVE  LET closed == QCBOREncode_CloseBstrWrap2(c, includeHead)
             last   == d[Len(d)]
         IN  /\ Closed(closed.ctx, << >>, d, "wrap", Whole(last))
             /\ ~closed.wrapped.null /\ ~closed.ctx.failed =>
                  Encodes(closed.wrapped.bytes, IF includeHead THEN Whole(last) ELSE last.items)
  <1> DEFINE none   == << >>
             kind   == "wrap"
             closed == QCBOREncode_CloseBstrWrap2(c, includeHead)
             e      == closed.ctx
             D      == c.out.data
             s      == Current(c).start
             n      == Len(D) - s
             head   == QCBOREncode_EncodeHead(BYTE_STRING, 0, n)
             rest   == SubSeq(D, s + 1, Len(D))
             data   == Spliced(D, head, s)
             E      == head \o rest
             last   == d[Len(d)]
             W      == Whole(last)
  <1>1. Fair(c) /\ Good(c) /\ none \in Seq(Byte)
    BY DEF Builds, Fair
  <1>2. kind \in Kinds /\ kind # "top" /\ TypeOf(kind) = BYTE_STRING /\ BYTE_STRING = 2 /\ 2 \in Nat
    BY DEF Kinds, TypeOf, BYTE_STRING
  <1>3. D \in Seq(Byte) /\ D \o none = D /\ s \in 0..Len(D)
    BY <1>1, GoodFields, LevelsType DEF Levels
  <1>4. n \in Nat /\ IsUint64(n)
    BY <1>1, LevelLength
  <1>5. /\ Closes(c, e, BYTE_STRING, data)
        /\ Clean(e) /\ ~closed.wrapped.null => closed.wrapped.bytes = IF includeHead THEN E ELSE rest
        /\ ~closed.wrapped.null => ~e.out.err
    BY <1>1, WrapHands
  <1> HIDE DEF closed
  <1>6. head \in Seq(Byte)
    <2> HIDE DEF n
    <2> QED
      BY <1>2, <1>4, HeadType
  <1>7. Len(rest) = n
    <2>1. s \in Nat /\ s <= Len(D)
      BY <1>3
    <2> QED
      BY <1>3, <2>1, RestType
  <1>8. data \o none = SubSeq(D, 1, s) \o E
    <2> HIDE DEF head, s
    <2>1. data \in Seq(Byte)
      BY <1>3, <1>6, SplicedType
    <2>2. data \o none = data
      BY <2>1, ConcatEmptySeq
    <2>3. data = SubSeq(D, 1, s) \o E
      BY <1>3, <1>6, SplicedHead
    <2> QED
      BY <2>2, <2>3
  <1>9. ASSUME Clean(c), Len(d) > 1, last.kind = kind
        PROVE  Encodes(E, W) /\ Encodes(rest, last.items)
    <2>1. LastOf(c, D \o none, last)
      BY <1>9, BuildsLast
    <2>2. Encodes(rest, last.items)
      BY <1>3, <2>1 DEF LastOf
    <2>3. head = QCBOREncode_EncodeHead(2, 0, Len(rest))
      BY <1>2, <1>7
    <2> HIDE DEF rest, last, head
    <2>4. Encodes(head \o rest, <<Wrap_(Len(last.items))>> \o last.items)
      <3>1. IsUint64(Len(rest))
        BY <1>4, <1>7
      <3> QED
        BY <2>2, <2>3, <3>1, WrapInFront
    <2>5. W = <<Wrap_(Len(last.items))>> \o last.items
      BY <1>9 DEF Whole
    <2> QED
      BY <2>2, <2>4, <2>5
  <1> HIDE DEF data, D, E, W, s, last, none, rest
  <1>10. Clean(c) /\ Len(d) > 1 /\ last.kind = kind =>
          data \o none = SubSeq(D \o none, 1, s) \o E /\ Encodes(E, W)
    BY <1>3, <1>8, <1>9
  <1>11. Builds(c, none, d) /\ Closes(c, e, TypeOf(kind), data)
    BY <1>2, <1>5 DEF none
  <1>12. Builds(e, none, Without(d, W)) /\ (Clean(e) => Len(d) > 1 /\ d[Len(d)].kind = kind)
    BY <1>2, <1>10, <1>11, BuildsClosed DEF D, s, last
  <1>13. ASSUME ~closed.wrapped.null, ~e.failed
         PROVE  Encodes(closed.wrapped.bytes, IF includeHead THEN W ELSE last.items)
    <2>1. Clean(e) /\ closed.wrapped.bytes = IF includeHead THEN E ELSE rest
      BY <1>5, <1>13 DEF Clean
    <2>2. Clean(c) /\ Len(d) > 1 /\ last.kind = kind
      BY <1>5, <1>12, <2>1 DEF Closes, last
    <2> QED
      BY <1>9, <2>1, <2>2
  <1> QED
    BY <1>12, <1>13 DEF Closed, closed, W, last, none

\* QCBOREncode_CloseBytes.
LEMMA BytesBuilds ==
  ASSUME NEW c, NEW d, Builds(c, << >>, d), NEW b \in Seq(Byte), IsUint64(Len(b))
  PROVE  Closed(QCBOREncode_CloseBytes(c, b), << >>, d, "opened", <<Bytes_(b)>>)
  <1> DEFINE none == << >>
             kind == "opened"
             e    == QCBOREncode_CloseBytes(c, b)
             D    == c.out.data
             s    == Current(c).start
             head == QCBOREncode_EncodeHead(2, 0, Len(b))
             data == Spliced(D \o b, head, s)
             E    == head \o b
             last == d[Len(d)]
             W    == <<Bytes_(b)>>
  <1>1. Fair(c) /\ Good(c) /\ none \in Seq(Byte)
    BY DEF Builds, Fair
  <1>2. kind \in Kinds /\ kind # "top" /\ TypeOf(kind) = OPEN_BSTR
    BY DEF Kinds, TypeOf
  <1>3. D \in Seq(Byte) /\ D \o none = D /\ Len(b) \in Nat
    BY <1>1, LevelsType, LenProperties
  <1>4. head \in Seq(Byte)
    <2>1. 2 \in Nat
      OBVIOUS
    <2> QED
      BY <1>3, <2>1, HeadType
  <1>5. CloseHead(OPEN_BSTR, Len(b)) = head
    BY DEF CloseHead, BYTE_STRING
  <1> HIDE DEF head
  <1>6. Closes(c, e, OPEN_BSTR, data)
    BY <1>1, <1>5, BytesCloses
  <1> HIDE DEF e
  <1>7. Encodes(E, W)
    BY StringBehind DEF head
  <1>8. ASSUME Clean(c), Len(d) > 1, last.kind = kind
        PROVE  data \o none = SubSeq(D, 1, s) \o E
    <2>1. LastOf(c, D \o none, last)
      BY <1>8, BuildsLast
    <2>2. s \in Nat /\ Piece(D, s, Len(D), << >>)
      BY <1>3, <1>8, <2>1 DEF LastOf
    <2> HIDE DEF D, s, E
    <2>3. s = Len(D)
      BY <2>2, PieceNothing
    <2>4. data = D \o E
      BY <1>3, <1>4, <2>3, SplicedBetween DEF E
    <2>5. SubSeq(D, 1, s) = D
      <3> DEFINE l == Len(D)
      <3>1. SubSeq(D, 1, l) \in Seq(Byte) /\ Len(SubSeq(D, 1, l)) = l /\ \A i \in 1..l : SubSeq(D, 1, l)[i] = D[i]
        <4>1. l \in 0..Len(D)
          BY <1>3, LenProperties
        <4> QED
          BY <1>3, <4>1, FrontOf
      <3> DEFINE F == SubSeq(D, 1, l)
      <3>2. F \in Seq(Byte) /\ Len(F) = Len(D) /\ \A i \in 1..Len(F) : F[i] = D[i]
        BY <3>1
      <3> HIDE DEF F
      <3>3. F = D
        BY <1>3, <3>2, SeqEqual
      <3> QED
        BY <2>3, <3>3 DEF F
    <2>6. data \in Seq(Byte)
      <3>1. E \in Seq(Byte)
        BY <1>4, ConcatProperties DEF E
      <3> QED
        BY <1>3, <2>4, <3>1, ConcatProperties
    <2>7. data \o none = data
      BY <2>6, ConcatEmptySeq
    <2> QED
      BY <2>4, <2>5, <2>7
  <1> HIDE DEF data, D, E, W, s, last, none
  <1>9. Clean(c) /\ Len(d) > 1 /\ last.kind = kind =>
          data \o none = SubSeq(D \o none, 1, s) \o E /\ Encodes(E, W)
    BY <1>3, <1>7, <1>8
  <1>10. Builds(c, none, d) /\ Closes(c, e, TypeOf(kind), data)
    BY <1>2, <1>6 DEF none
  <1>11. Builds(e, none, Without(d, W)) /\ (Clean(e) => Len(d) > 1 /\ d[Len(d)].kind = kind)
    BY <1>2, <1>9, <1>10, BuildsClosed DEF D, s, last
  <1> QED
    BY <1>11 DEF Closed, e, W, none

\* QCBOREncode_CancelBstrWrap: the level is gone, and it held nothing.
LEMMA CancelBuilds ==
  ASSUME NEW c, NEW d, Builds(c, << >>, d)
  PROVE  LET e == QCBOREncode_CancelBstrWrap(c)
         IN  /\ Builds(e, << >>, SubSeq(d, 1, Len(d) - 1))
             /\ Clean(e) => Len(d) > 1 /\ d[Len(d)].kind = "wrap" /\ d[Len(d)].items = << >>
  <1> DEFINE none == << >>
             kind == "wrap"
             e    == QCBOREncode_CancelBstrWrap(c)
             D    == c.out.data
             last == d[Len(d)]
  <1>1. Fair(c) /\ none \in Seq(Byte)
    BY DEF Builds
  <1>2. kind \in Kinds /\ kind # "top" /\ TypeOf(kind) = BYTE_STRING
    BY DEF Kinds, TypeOf
  <1>3. D \in Seq(Byte) /\ D \o none = D /\ c.nesting \in Seq(Levels) /\ Ordered(c.nesting)
    BY <1>1, LevelsType
  <1>4. Cancels(c, e)
    BY <1>1, WrapCancels
  <1> HIDE DEF e
  <1>5. ASSUME Clean(e)
        PROVE  /\ Len(d) > 1 /\ last.kind = kind /\ last.items = << >>
               /\ Document(e.nesting, e.out.data \o none, SubSeq(d, 1, Len(d) - 1))
    <2>1. /\ Clean(c) /\ Nesting_IsInNest(c) /\ Current(c).type = TypeOf(kind)
          /\ Current(c).start = Len(D) /\ e.out.data = D
          /\ e.nesting = Uncounted(SubSeq(c.nesting, 1, Len(c.nesting) - 1))
      BY <1>2, <1>4, <1>5 DEF Cancels
    <2>2. Len(d) > 1 /\ last.kind = kind
      BY <1>2, <2>1, LevelIs
    <2>3. LastOf(c, D \o none, last)
      BY <2>1, BuildsLast
    <2>4. Piece(D, Current(c).start, Len(D), last.items) /\ Current(c).start \in Nat
      BY <1>3, <2>3 DEF LastOf
    <2>5. last.items = << >>
      <3> HIDE DEF last, D
      <3> QED
        BY <2>1, <2>4, PieceNothing
    <2>6. Document(c.nesting, D, d) /\ c.nesting[Len(c.nesting)].start = Len(D)
      <3>1. Document(c.nesting, D \o none, d)
        BY <2>1 DEF Builds
      <3> QED
        BY <1>3, <2>1, <3>1 DEF Current
    <2> HIDE DEF D
    <2>7. Document(Uncounted(SubSeq(c.nesting, 1, Len(c.nesting) - 1)), D, SubSeq(d, 1, Len(d) - 1))
      BY <1>3, <2>2, <2>6, DocumentCancelled
    <2> QED
      BY <1>3, <2>1, <2>2, <2>5, <2>7
  <1>6. Builds(e, none, SubSeq(d, 1, Len(d) - 1))
    BY <1>1, <1>4, <1>5 DEF Builds, Cancels
  <1> QED
    BY <1>5, <1>6 DEF e, none, last

-----------------------------------------------------------------------------
(* What the calls add *)

\* QCBOREncode_AddBuffer of bytes and of text.
LEMMA BufferWrites ==
  ASSUME NEW c, Fair(c), NEW b, IsString(b)
  PROVE  /\ Writes(c, QCBOREncode_AddBuffer(c, BYTE_STRING, b), <<Bytes_(b)>>, 1, << >>)
         /\ Writes(c, QCBOREncode_AddBuffer(c, TEXT_STRING, b), <<Text_(b)>>, 1, << >>)
  <1>1. b \in Seq(Byte) /\ IsUint64(Len(b))
    BY DEF IsString
  <1>2. Token(BYTE_STRING, Len(b), b) = Bytes_(b) /\ Token(TEXT_STRING, Len(b), b) = Text_(b)
    BY DEF BYTE_STRING, TEXT_STRING, Bytes_, Text_
  <1>3. Writes(c, QCBOREncode_AddBuffer(c, BYTE_STRING, b), <<Token(BYTE_STRING, Len(b), b)>>, 1, << >>)
    BY <1>1, StringWrites
  <1>4. Writes(c, QCBOREncode_AddBuffer(c, TEXT_STRING, b), <<Token(TEXT_STRING, Len(b), b)>>, 1, << >>)
    BY <1>1, StringWrites
  <1> QED
    BY <1>2, <1>3, <1>4

\* A label is an item of its own.
LEMMA LabelWrites ==
  ASSUME NEW c, Fair(c), NEW l \in Labels
  PROVE  /\ Writes(c, AddLabel(c, l), LabelToks(l), Len(LabelToks(l)), << >>)
         /\ Len(LabelToks(l)) \in Nat
  <1>1. CASE l = NoLabel
    <2>1. AddLabel(c, l) = c /\ LabelToks(l) = << >> /\ Len(LabelToks(l)) = 0
      BY <1>1 DEF AddLabel, LabelToks, NoLabel
    <2>2. Writes(c, c, << >>, 0, << >>)
      BY NothingWrites
    <2> QED
      BY <2>1, <2>2
  <1>2. CASE l = SZLabel(<<97, 0>>)
    <2> DEFINE a == <<97>>
               z == <<0>>
               sz == <<97, 0>>
               T == <<Text_(a)>>
    <2>1. a \in Seq(Byte) /\ \A i \in DOMAIN a : a[i] # 0
      BY DEF Byte
    <2>2. IsString(a)
      <3>1. Len(a) = 1 /\ 1 \in Small
        BY DEF Small
      <3> QED
        BY <2>1, <3>1, SmallUint64 DEF IsString
    <2>3. a \o z = sz
      BY OneAndOne
    <2>4. l.k = "sz" /\ l.sz = sz
      BY <1>2 DEF SZLabel
    <2>5. LabelToks(l) = T /\ Len(T) = 1
      BY <2>4 DEF LabelToks
    <2>6. AddLabel(c, l) = QCBOREncode_AddBuffer(c, TEXT_STRING, UsefulBuf_FromSZ(sz))
      BY <2>4 DEF AddLabel
    <2> HIDE DEF a, sz, T
    <2>7. UsefulBuf_FromSZ(sz) = a
      BY <2>1, <2>3, FromSZIs
    <2>8. Writes(c, QCBOREncode_AddBuffer(c, TEXT_STRING, a), T, 1, << >>)
      BY <2>2, BufferWrites DEF T
    <2> QED
      BY <2>5, <2>6, <2>7, <2>8
  <1>3. CASE l = NLabel(1)
    <2> DEFINE T == <<Int_(1)>>
    <2>1. 1 \in Small /\ 1 \in Int
      BY DEF Small
    <2>2. IsUint64(IF 1 < 0 THEN -(1 + 1) ELSE 1)
      BY <2>1, SmallUint64
    <2>3. l.k = "n" /\ l.n = 1
      BY <1>3 DEF NLabel
    <2>4. Writes(c, QCBOREncode_AddInt64(c, 1), <<Int_(1)>>, 1, << >>)
      BY <2>1, <2>2, Int64Writes
    <2>5. AddLabel(c, l) = QCBOREncode_AddInt64(c, 1) /\ LabelToks(l) = T /\ Len(T) = 1
      BY <2>3 DEF AddLabel, LabelToks
    <2> QED
      BY <2>4, <2>5
  <1> QED
    BY <1>1, <1>2, <1>3 DEF Labels

\* What follows a label.
LEMMA LabelledWrites ==
  ASSUME NEW c, Fair(c), NEW l \in Labels, NEW d, NEW T, NEW m \in Nat, NEW owes \in Seq(Byte),
         Writes(AddLabel(c, l), d, T, m, owes), NEW n, n = Len(LabelToks(l)) + m
  PROVE  Writes(c, d, LabelToks(l) \o T, n, owes)
  <1> DEFINE x == AddLabel(c, l)
             L == LabelToks(l)
             k == Len(L)
  <1>1. Writes(c, x, L, k, << >>) /\ k \in Nat /\ n = k + m
    BY LabelWrites
  <1>2. Writes(x, d, T, m, owes)
    OBVIOUS
  <1> HIDE DEF x, L, k
  <1>3. Writes(c, d, L \o T, n, owes)
    BY <1>1, <1>2, WritesTwice
  <1> QED
    BY <1>3 DEF L

\* What follows a tag.
LEMMA TaggedWrites ==
  ASSUME NEW c, Fair(c), NEW l \in Labels, NEW t \in BOOLEAN, NEW tag \in Small, NEW d, NEW T,
         Writes(Prefixed(c, l, t, tag), d, T, 1, << >>)
  PROVE  Writes(AddLabel(c, l), d, TagToks(t, tag) \o T, 1, << >>)
  <1> DEFINE x == AddLabel(c, l)
             y == Prefixed(c, l, t, tag)
             G == TagToks(t, tag)
             none == << >>
  <1>1. Fair(x)
    BY LabelWrites DEF Writes
  <1>2. tag \in Nat /\ IsUint64(tag)
    BY SmallUint64
  <1>3. Writes(x, y, G, 0, none)
    <2> HIDE DEF x
    <2>1. CASE t
      <3>1. Writes(x, QCBOREncode_AddTag(x, tag), <<Tag_(tag)>>, 0, << >>)
        BY <1>1, <1>2, TagWrites
      <3> QED
        BY <2>1, <3>1 DEF Prefixed, TagToks, x
    <2>2. CASE ~t
      <3>1. Writes(x, x, << >>, 0, << >>)
        BY <1>1, NothingWrites
      <3> QED
        BY <2>2, <3>1 DEF Prefixed, TagToks, x
    <2> QED
      BY <2>1, <2>2
  <1>4. Writes(y, d, T, 1, none) /\ none \in Seq(Byte)
    OBVIOUS
  <1> DEFINE one == 1
             nil == 0
  <1>5. one = nil + one /\ one \in Nat /\ nil \in Nat /\ Writes(y, d, T, one, none) /\ Writes(x, y, G, nil, none)
    BY <1>3, <1>4
  <1> HIDE DEF x, y, G, one, nil
  <1>6. Writes(x, d, G \o T, one, none)
    BY <1>1, <1>4, <1>5, WritesTwice DEF none
  <1> QED
    BY <1>6 DEF x, G, one

\* What a call adds to the context is what it adds to the document.
Adds ==
    /\ owed' \in Seq(Byte)
    /\ \E T : \E n \in Nat : Writes(enc, enc', T, n, owed') /\ doc' = Adding(T, n)

\* An item with its label.
LEMMA LabelledAdds ==
  ASSUME Fair(enc), NEW l \in Labels, NEW T, owed' \in Seq(Byte),
         Writes(AddLabel(enc, l), enc', T, 1, owed'), doc' = AddingItem(l, T)
  PROVE  Adds
  <1> DEFINE L == LabelToks(l)
             n == Len(L) + 1
             w == owed'
  <1>1. Len(L) \in Nat
    BY LabelWrites
  <1>2. n \in Nat /\ w \in Seq(Byte) /\ 1 \in Nat /\ n = Len(LabelToks(l)) + 1
    BY <1>1
  <1> HIDE DEF n
  <1>3. Writes(enc, enc', L \o T, n, w)
    BY <1>2, LabelledWrites
  <1>4. doc' = Adding(L \o T, n)
    BY DEF AddingItem, n
  <1> QED
    BY <1>2, <1>3, <1>4 DEF Adds

\* An item with its label and its tag.
LEMMA TaggedAdds ==
  ASSUME Fair(enc), NEW l \in Labels, NEW t \in BOOLEAN, NEW tag \in Small, NEW T,
         owed' = << >>, Writes(Prefixed(enc, l, t, tag), enc', T, 1, << >>),
         doc' = AddingItem(l, TagToks(t, tag) \o T)
  PROVE  Adds
  <1> DEFINE U == TagToks(t, tag) \o T
  <1>1. Writes(AddLabel(enc, l), enc', U, 1, << >>)
    BY TaggedWrites
  <1>2. Writes(AddLabel(enc, l), enc', U, 1, owed') /\ owed' \in Seq(Byte) /\ doc' = AddingItem(l, U)
    BY <1>1
  <1> HIDE DEF U
  <1> QED
    BY <1>2, LabelledAdds

-----------------------------------------------------------------------------
(* The calls that add an item *)

\* A label keeps a context fair.
LEMMA LabelFair ==
  ASSUME NEW c, Fair(c), NEW l \in Labels
  PROVE  Fair(AddLabel(c, l))
  BY LabelWrites DEF Writes

\* So does a tag.
LEMMA PrefixFair ==
  ASSUME NEW c, Fair(c), NEW l \in Labels, NEW t \in BOOLEAN, NEW tag \in Small
  PROVE  Fair(Prefixed(c, l, t, tag))
  <1>1. Fair(AddLabel(c, l)) /\ tag \in Nat /\ IsUint64(tag)
    BY LabelFair, SmallUint64
  <1>2. Fair(QCBOREncode_AddTag(AddLabel(c, l), tag))
    BY <1>1, TagWrites DEF Writes
  <1> QED
    BY <1>1, <1>2 DEF Prefixed

\* A number.
LEMMA NumberAdds ==
  ASSUME Fair(enc), owed = << >>, NEW l \in Labels, Number(l)
  PROVE  Adds
  <1>1. owed' = << >> /\ owed' \in Seq(Byte)
    <2>1. owed' = << >>
      BY DEF Number, Add
    <2> QED
      BY <2>1
  <1>2. Fair(AddLabel(enc, l))
    BY LabelFair
  <1>3. \/ \E n \in Numbers : enc' = AddInt64(enc, l, n) /\ doc' = AddingItem(l, <<Int_(n)>>)
        \/ \E n \in Numbers : n >= 0 /\ enc' = AddUInt64(enc, l, n) /\ doc' = AddingItem(l, <<Int_(n)>>)
    BY DEF Number, Add, Call
  <1>4. CASE \E n \in Numbers : enc' = AddInt64(enc, l, n) /\ doc' = AddingItem(l, <<Int_(n)>>)
    <2>1. PICK n \in Numbers : enc' = AddInt64(enc, l, n) /\ doc' = AddingItem(l, <<Int_(n)>>)
      BY <1>4
    <2>2. n \in Int /\ IsUint64(IF n < 0 THEN -(n + 1) ELSE n)
      BY Arguments DEF IsNumber
    <2>3. Writes(AddLabel(enc, l), enc', <<Int_(n)>>, 1, owed')
      BY <1>1, <1>2, <2>1, <2>2, Int64Writes DEF AddInt64
    <2> QED
      BY <1>1, <2>1, <2>3, LabelledAdds
  <1>5. CASE \E n \in Numbers : n >= 0 /\ enc' = AddUInt64(enc, l, n) /\ doc' = AddingItem(l, <<Int_(n)>>)
    <2>1. PICK n \in Numbers : n >= 0 /\ enc' = AddUInt64(enc, l, n) /\ doc' = AddingItem(l, <<Int_(n)>>)
      BY <1>5
    <2>2. n \in Nat /\ IsUint64(n)
      BY <2>1, Arguments DEF IsNumber
    <2>3. Writes(AddLabel(enc, l), enc', <<Int_(n)>>, 1, owed')
      BY <1>1, <1>2, <2>1, <2>2, UInt64Writes DEF AddUInt64
    <2> QED
      BY <1>1, <2>1, <2>3, LabelledAdds
  <1> QED
    BY <1>3, <1>4, <1>5

\* A string; the C string of one without a zero is the string.
LEMMA StringAdds ==
  ASSUME Fair(enc), owed = << >>, NEW l \in Labels, String(l)
  PROVE  Adds
  <1>1. owed' = << >> /\ owed' \in Seq(Byte)
    <2>1. owed' = << >>
      BY DEF String, Add
    <2> QED
      BY <2>1
  <1>2. Fair(AddLabel(enc, l))
    BY LabelFair
  <1>3. PICK b \in Strings :
          \/ enc' = AddBytes(enc, l, b) /\ doc' = AddingItem(l, <<Bytes_(b)>>)
          \/ enc' = AddText(enc, l, b) /\ doc' = AddingItem(l, <<Text_(b)>>)
          \/ IsCString(b) /\ enc' = AddSZString(enc, l, b \o <<0>>) /\ doc' = AddingItem(l, <<Text_(b)>>)
    BY DEF String, Add, Call
  <1>4. IsString(b)
    BY Arguments
  <1>5. ASSUME IsCString(b) PROVE AddSZString(enc, l, b \o <<0>>) = AddText(enc, l, b)
    <2>1. UsefulBuf_FromSZ(b \o <<0>>) = b
      BY <1>4, <1>5, FromSZIs DEF IsString, IsCString
    <2> QED
      BY <2>1 DEF AddSZString
  <1>6. \/ enc' = AddBytes(enc, l, b) /\ doc' = AddingItem(l, <<Bytes_(b)>>)
        \/ enc' = AddText(enc, l, b) /\ doc' = AddingItem(l, <<Text_(b)>>)
    BY <1>3, <1>5
  <1>7. CASE enc' = AddBytes(enc, l, b) /\ doc' = AddingItem(l, <<Bytes_(b)>>)
    <2>1. Writes(AddLabel(enc, l), enc', <<Bytes_(b)>>, 1, owed')
      BY <1>1, <1>2, <1>4, <1>7, BufferWrites DEF AddBytes
    <2> QED
      BY <1>1, <1>7, <2>1, LabelledAdds
  <1>8. CASE enc' = AddText(enc, l, b) /\ doc' = AddingItem(l, <<Text_(b)>>)
    <2>1. Writes(AddLabel(enc, l), enc', <<Text_(b)>>, 1, owed')
      BY <1>1, <1>2, <1>4, <1>8, BufferWrites DEF AddText
    <2> QED
      BY <1>1, <1>8, <2>1, LabelledAdds
  <1> QED
    BY <1>6, <1>7, <1>8

\* A simple value.
LEMMA SimpleAdds ==
  ASSUME Fair(enc), owed = << >>, NEW l \in Labels, Simple(l)
  PROVE  Adds
  <1>1. owed' = << >> /\ owed' \in Seq(Byte)
    <2>1. owed' = << >>
      BY DEF Simple, Add
    <2> QED
      BY <2>1
  <1>2. Fair(AddLabel(enc, l))
    BY LabelFair
  <1>3. \E n \in {20, 21, 22, 23, 24, 32} :
          enc' = AddSimple(enc, l, n) /\ doc' = AddingItem(l, <<Simple_(n)>>)
    BY DEF Simple, Add, Call, AddBool, AddNULL, AddUndef
  <1>4. {20, 21, 22, 23, 24, 32} \subseteq Small
    BY DEF Small
  <1>5. PICK n \in Small : enc' = AddSimple(enc, l, n) /\ doc' = AddingItem(l, <<Simple_(n)>>)
    BY <1>3, <1>4
  <1>6. n \in Nat /\ IsUint64(n)
    BY SmallUint64
  <1>7. Writes(AddLabel(enc, l), enc', <<Simple_(n)>>, 1, owed')
    BY <1>1, <1>2, <1>5, <1>6, Type7Writes DEF AddSimple
  <1> QED
    BY <1>1, <1>5, <1>7, LabelledAdds

\* A date.
LEMMA EpochAdds ==
  ASSUME Fair(enc), owed = << >>, NEW l \in Labels, NEW t \in BOOLEAN, Epoch(l, t)
  PROVE  Adds
  <1> DEFINE n == CommonNumber
             T == <<Int_(n)>>
  <1>1. owed' = << >>
    BY DEF Epoch, Add
  <1>2. n \in Int /\ IsUint64(IF n < 0 THEN -(n + 1) ELSE n)
    BY Arguments DEF IsNumber
  <1>3. 1 \in Small /\ 100 \in Small
    BY DEF Small
  <1>4. PICK tag \in Small : /\ enc' = QCBOREncode_AddInt64(Prefixed(enc, l, t, tag), n)
                             /\ doc' = AddingItem(l, TagToks(t, tag) \o T)
    BY <1>3 DEF Epoch, Add, Call, AddTDateEpoch, AddTDaysEpoch, CBOR_TAG_DATE_EPOCH, CBOR_TAG_DAYS_EPOCH
  <1>5. Fair(Prefixed(enc, l, t, tag))
    BY PrefixFair
  <1>6. Writes(Prefixed(enc, l, t, tag), enc', T, 1, << >>)
    BY <1>2, <1>4, <1>5, Int64Writes
  <1> HIDE DEF T
  <1> QED
    BY <1>1, <1>4, <1>6, TaggedAdds

\* Tagged bytes.
LEMMA TaggedBytesAdds ==
  ASSUME Fair(enc), owed = << >>, NEW l \in Labels, NEW t \in BOOLEAN, TaggedBytes(l, t)
  PROVE  Adds
  <1> DEFINE b == CommonString
             T == <<Bytes_(b)>>
  <1>1. owed' = << >>
    BY DEF TaggedBytes, Add
  <1>2. IsString(b)
    BY Arguments
  <1>3. 37 \in Small /\ 2 \in Small /\ 3 \in Small /\ 257 \in Small
    BY DEF Small
  <1>4. PICK tag \in Small : /\ enc' = QCBOREncode_AddBuffer(Prefixed(enc, l, t, tag), BYTE_STRING, b)
                             /\ doc' = AddingItem(l, TagToks(t, tag) \o T)
    BY <1>3 DEF TaggedBytes, Add, Call, AddTBinaryUUID, AddTPositiveBignum, AddTNegativeBignum,
                AddTMIMEData, CBOR_TAG_BIN_UUID, CBOR_TAG_POS_BIGNUM, CBOR_TAG_NEG_BIGNUM,
                CBOR_TAG_BINARY_MIME
  <1>5. Fair(Prefixed(enc, l, t, tag))
    BY PrefixFair
  <1>6. Writes(Prefixed(enc, l, t, tag), enc', T, 1, << >>)
    BY <1>2, <1>4, <1>5, BufferWrites
  <1> HIDE DEF T
  <1> QED
    BY <1>1, <1>4, <1>6, TaggedAdds

\* Tagged text.
LEMMA TaggedTextAdds ==
  ASSUME Fair(enc), owed = << >>, NEW l \in Labels, NEW t \in BOOLEAN, TaggedText(l, t)
  PROVE  Adds
  <1> DEFINE b == CommonString
             T == <<Text_(b)>>
  <1>1. owed' = << >>
    BY DEF TaggedText, Add
  <1>2. IsString(b) /\ IsCString(b)
    BY Arguments, CallerAssumption
  <1>3. UsefulBuf_FromSZ(b \o <<0>>) = b
    BY <1>2, FromSZIs DEF IsString, IsCString
  <1>4. 32 \in Small /\ 34 \in Small /\ 33 \in Small /\ 35 \in Small /\ 0 \in Small /\ 1004 \in Small
    BY DEF Small
  <1> DEFINE Tagging(tag) == /\ enc' = QCBOREncode_AddBuffer(Prefixed(enc, l, t, tag), TEXT_STRING, b)
                             /\ doc' = AddingItem(l, TagToks(t, tag) \o T)
  <1>5. \/ Tagging(32) \/ Tagging(34) \/ Tagging(33) \/ Tagging(35) \/ Tagging(0) \/ Tagging(1004)
    BY <1>3 DEF TaggedText, Add, Call, AddTURI, AddTB64Text, AddTB64URLText, AddTRegex,
                AddTDateString, AddTDaysString, CBOR_TAG_URI, CBOR_TAG_B64, CBOR_TAG_B64URL,
                CBOR_TAG_REGEX, CBOR_TAG_DATE_STRING, CBOR_TAG_DAYS_STRING
  <1> HIDE DEF Tagging
  <1>6. PICK tag \in Small : Tagging(tag)
    BY <1>4, <1>5
  <1>7. Fair(Prefixed(enc, l, t, tag))
    BY PrefixFair
  <1>8. Writes(Prefixed(enc, l, t, tag), enc', T, 1, << >>)
    BY <1>2, <1>6, <1>7, BufferWrites DEF Tagging
  <1>9. doc' = AddingItem(l, TagToks(t, tag) \o T)
    BY <1>6 DEF Tagging
  <1> HIDE DEF T
  <1> QED
    BY <1>1, <1>8, <1>9, TaggedAdds

\* The tokens of a fraction, whole.
LEMMA FractionIs ==
  ASSUME NEW e, IsNumber(e), NEW M \in Seq(Tokens)
  PROVE  FractionToks(e, M) = <<Array_(2)>> \o (<<Int_(e)>> \o M)
  <1> DEFINE x == Array_(2)
             y == Int_(e)
             a == <<x>>
             b == <<y>>
  <1>1. x \in Tokens /\ y \in Tokens
    <2>1. x \in Tokens
      BY EmptySeq DEF Array_, Token, Tokens
    <2>2. y \in Tokens
      BY EmptySeq DEF Int_, Token, Tokens, IsNumber
    <2> QED
      BY <2>1, <2>2
  <1>2. <<x, y>> = a \o b
    BY OneAndOne
  <1>3. FractionToks(e, M) = <<x, y>> \o M
    BY DEF FractionToks
  <1> HIDE DEF x, y
  <1>4. a \in Seq(Tokens) /\ b \in Seq(Tokens)
    BY <1>1
  <1> HIDE DEF a, b
  <1>5. InTurn(a, b, M)
    BY <1>4, ConcatAssociative DEF InTurn
  <1> QED
    BY <1>2, <1>3, <1>5 DEF InTurn, a, b, x, y

\* A fraction with its label and its tag.
LEMMA FractionItem ==
  ASSUME Fair(enc), NEW l \in Labels, NEW t \in BOOLEAN, NEW tag \in Small, owed' = << >>,
         NEW big, NEW neg, NEW m, NEW e, IsNumber(e),
         IF big.null THEN IsNumber(m) ELSE IsString(big.bytes),
         NEW M \in Seq(Tokens), M = MantissaToks(big, neg, m),
         enc' = QCBOREncode_AddExponentAndMantissa(Prefixed(enc, l, t, tag), big, neg, m, e),
         doc' = AddingItem(l, TagToks(t, tag) \o FractionToks(e, M))
  PROVE  Adds
  <1> DEFINE T == FractionToks(e, M)
             x == Prefixed(enc, l, t, tag)
  <1>1. Fair(x)
    BY PrefixFair
  <1>2. T = <<Array_(2)>> \o (<<Int_(e)>> \o MantissaToks(big, neg, m))
    BY FractionIs
  <1> HIDE DEF T
  <1>3. Writes(x, enc', T, 1, << >>)
    <2> HIDE DEF x
    <2>1. Writes(x, QCBOREncode_AddExponentAndMantissa(x, big, neg, m, e),
                 <<Array_(2)>> \o (<<Int_(e)>> \o MantissaToks(big, neg, m)), 1, << >>)
      BY <1>1, MantissaWrites
    <2> QED
      BY <1>2, <2>1 DEF x
  <1>4. doc' = AddingItem(l, TagToks(t, tag) \o T)
    BY DEF T
  <1> QED
    BY <1>3, <1>4, TaggedAdds

\* A decimal fraction or a big float.
LEMMA FractionAdds ==
  ASSUME Fair(enc), owed = << >>, NEW l \in Labels, NEW t \in BOOLEAN, Fraction(l, t)
  PROVE  Adds
  <1> DEFINE e == CommonNumber
             b == CommonString
             big(neg) == <<Tag_(IF neg THEN 3 ELSE 2), Bytes_(b)>>
             none == NULLUsefulBufC
             some == UsefulBufC(b)
  <1>1. owed' = << >>
    BY DEF Fraction, Add
  <1>2. IsNumber(e) /\ IsString(b) /\ \A m \in Numbers : IsNumber(m)
    BY Arguments
  <1>3. 4 \in Small /\ 5 \in Small
    BY DEF Small
  <1>4. none.null /\ ~some.null /\ some.bytes = b
    BY DEF NULLUsefulBufC, UsefulBufC
  <1>5. ASSUME NEW m \in Numbers PROVE <<Int_(m)>> = MantissaToks(none, FALSE, m) /\ <<Int_(m)>> \in Seq(Tokens)
    <2>1. Int_(m) \in Tokens
      BY <1>2, EmptySeq DEF Int_, Token, Tokens, IsNumber
    <2> QED
      BY <1>4, <2>1 DEF MantissaToks
  <1>6. ASSUME NEW neg \in BOOLEAN PROVE big(neg) = MantissaToks(some, neg, 0) /\ big(neg) \in Seq(Tokens)
    <2>1. Bytes_(b) \in Tokens
      BY <1>2, LenProperties DEF Bytes_, Token, Tokens, IsString
    <2>2. Tag_(2) \in Tokens /\ Tag_(3) \in Tokens
      BY EmptySeq DEF Tag_, Token, Tokens, TAG
    <2>3. big(neg) \in Seq(Tokens)
      BY <2>1, <2>2
    <2> QED
      BY <1>4, <2>3 DEF MantissaToks, CBOR_TAG_NEG_BIGNUM, CBOR_TAG_POS_BIGNUM
  <1> DEFINE ByInt(m, tag) ==
               /\ enc' = QCBOREncode_AddExponentAndMantissa(Prefixed(enc, l, t, tag), none, FALSE, m, e)
               /\ doc' = AddingItem(l, TagToks(t, tag) \o FractionToks(e, <<Int_(m)>>))
             ByBig(neg, tag) ==
               /\ enc' = QCBOREncode_AddExponentAndMantissa(Prefixed(enc, l, t, tag), some, neg, 0, e)
               /\ doc' = AddingItem(l, TagToks(t, tag) \o FractionToks(e, big(neg)))
  <1>7. \/ \E m \in Numbers : ByInt(m, 4) \/ ByInt(m, 5)
        \/ \E neg \in BOOLEAN : ByBig(neg, 4) \/ ByBig(neg, 5)
    BY DEF Fraction, Add, Call, AddTDecimalFraction, AddTBigFloat, AddTDecimalFractionBigNum,
           AddTBigFloatBigNum, CBOR_TAG_DECIMAL_FRACTION, CBOR_TAG_BIGFLOAT
  <1> HIDE DEF none, some, big
  <1>8. ASSUME NEW m \in Numbers, NEW tag \in Small, ByInt(m, tag) PROVE Adds
    <2> DEFINE M == <<Int_(m)>>
    <2>1. M \in Seq(Tokens) /\ M = MantissaToks(none, FALSE, m) /\ IsNumber(m)
      BY <1>2, <1>5
    <2>2. doc' = AddingItem(l, TagToks(t, tag) \o FractionToks(e, M))
      BY <1>8
    <2> HIDE DEF M
    <2> QED
      BY <1>1, <1>2, <1>4, <1>8, <2>1, <2>2, FractionItem
  <1>9. ASSUME NEW neg \in BOOLEAN, NEW tag \in Small, ByBig(neg, tag) PROVE Adds
    <2>1. big(neg) \in Seq(Tokens) /\ big(neg) = MantissaToks(some, neg, 0) /\ IsString(some.bytes)
      BY <1>2, <1>4, <1>6
    <2> QED
      BY <1>1, <1>2, <1>4, <1>9, <2>1, FractionItem
  <1> HIDE DEF ByInt, ByBig
  <1> QED
    BY <1>3, <1>7, <1>8, <1>9

\* The bytes of an array of the number 1.
LEMMA OneInArray == Encodes(<<129, 1>>, <<Array_(1), Int_(1)>>)
  <1> DEFINE one == QCBOREncode_EncodeHead(0, 0, 1)
             hd  == QCBOREncode_EncodeHead(4, 0, 1)
             t   == Int_(1)
  <1>1. 1 \in Small /\ 1 \in Nat
    BY DEF Small
  <1>2. IsUint64(1)
    BY <1>1, SmallUint64
  <1>3. one = <<1>> /\ hd = <<129>>
    <2>1. (0 * 32 + 1) % 256 = 1 /\ (4 * 32 + 1) % 256 = 129
      OBVIOUS
    <2> QED
      BY <2>1 DEF QCBOREncode_EncodeHead, INDEFINITE_LEN_TYPE_MODIFIER
  <1>4. t = [form |-> "item", type |-> 0, arg |-> 1, b |-> << >>]
    BY DEF Int_, Token
  <1> HIDE DEF t
  <1>5. t \in Tokens /\ t.form = "item" /\ t.type = 0 /\ t.arg = 1 /\ t.b = << >>
    BY <1>4, EmptySeq DEF Tokens
  <1>6. IsHeadFor(QCBOREncode_EncodeHead(t.type, 0, 1), t, 0)
    BY <1>1, <1>2, <1>5, HeadIsFor
  <1>7. IsHeadFor(one, t, 0)
    BY <1>5, <1>6
  <1> HIDE DEF one, hd
  <1>8. Encodes(one \o t.b, <<t>>)
    BY <1>5, <1>7, EncodesOne
  <1>9. one \o t.b = one
    <2>1. <<1>> \in Seq(Byte)
      BY DEF Byte
    <2>2. one \in Seq(Byte)
      BY <1>3, <2>1
    <2> QED
      BY <1>5, <2>2, ConcatEmptySeq
  <1>10. Encodes(one, <<t>>)
    BY <1>8, <1>9
  <1>11. Encodes(hd \o one, <<Token(4, 1, << >>)>> \o <<t>>)
    BY <1>1, <1>2, <1>10, HeadInFront DEF hd
  <1>12. hd \o one = <<129, 1>>
    BY <1>3, OneAndOne
  <1>13. <<Array_(1)>> \o <<t>> = <<Array_(1), t>>
    BY OneAndOne
  <1> QED
    BY <1>11, <1>12, <1>13 DEF Array_, t

\* Bytes that are encoded already.
LEMMA EncodedAdds ==
  ASSUME Fair(enc), owed = << >>, NEW l \in Labels, Encoded(l)
  PROVE  Adds
  <1> DEFINE b == <<129, 1>>
             T == <<Array_(1), Int_(1)>>
  <1>1. owed' = << >>
    BY DEF Encoded, Add
  <1>2. enc' = QCBOREncode_AddBuffer(AddLabel(enc, l), RAW, b) /\ doc' = AddingItem(l, T)
    BY DEF Encoded, Add, Call, AddEncoded
  <1>3. Encodes(b, T)
    BY OneInArray
  <1>4. b \in Seq(Byte)
    BY DEF Byte
  <1>5. Fair(AddLabel(enc, l))
    BY LabelFair
  <1> HIDE DEF b, T
  <1>6. Writes(AddLabel(enc, l), enc', T, 1, << >>)
    BY <1>2, <1>3, <1>4, <1>5, EncodedWrites
  <1>7. owed' \in Seq(Byte) /\ Writes(AddLabel(enc, l), enc', T, 1, owed')
    BY <1>1, <1>6
  <1> QED
    BY <1>2, <1>7, LabelledAdds

\* A length whose bytes the caller hands out itself.
LEMMA LenOnlyAdds ==
  ASSUME Fair(enc), NEW l \in Labels, LenOnly(l)
  PROVE  Adds
  <1>1. PICK b \in Strings : /\ enc' = QCBOREncode_AddBuffer(AddLabel(enc, l), BSTR_LEN_ONLY, b)
                             /\ doc' = AddingItem(l, <<Bytes_(b)>>) /\ owed' = b
    BY DEF LenOnly, Call, AddBytesLenOnly
  <1>2. b \in Seq(Byte) /\ IsUint64(Len(b))
    BY Arguments DEF IsString
  <1>3. Fair(AddLabel(enc, l))
    BY LabelFair
  <1>4. Writes(AddLabel(enc, l), enc', <<Bytes_(b)>>, 1, owed')
    BY <1>1, <1>2, <1>3, LengthWrites
  <1> QED
    BY <1>1, <1>2, <1>4, LabelledAdds

\* Any item.
LEMMA ItemAdds ==
  ASSUME Fair(enc), Item
  PROVE  Adds /\ owed = << >> /\ Level(doc).kind # "opened"
  <1>1. PICK l \in Labels :
          /\ CanAdd(l)
          /\ \/ Number(l) \/ String(l) \/ Simple(l) \/ Encoded(l) \/ LenOnly(l)
             \/ \E t \in BOOLEAN : Epoch(l, t) \/ TaggedBytes(l, t) \/ TaggedText(l, t) \/ Fraction(l, t)
    BY DEF Item
  <1>2. owed = << >> /\ Level(doc).kind # "opened"
    BY <1>1 DEF CanAdd
  <1>3. CASE Number(l)
    BY <1>2, <1>3, NumberAdds
  <1>4. CASE String(l)
    BY <1>2, <1>4, StringAdds
  <1>5. CASE Simple(l)
    BY <1>2, <1>5, SimpleAdds
  <1>6. CASE Encoded(l)
    BY <1>2, <1>6, EncodedAdds
  <1>7. CASE LenOnly(l)
    BY <1>2, <1>7, LenOnlyAdds
  <1>8. ASSUME NEW t \in BOOLEAN, Epoch(l, t) PROVE Adds
    BY <1>2, <1>8, EpochAdds
  <1>9. ASSUME NEW t \in BOOLEAN, TaggedBytes(l, t) PROVE Adds
    BY <1>2, <1>9, TaggedBytesAdds
  <1>10. ASSUME NEW t \in BOOLEAN, TaggedText(l, t) PROVE Adds
    BY <1>2, <1>10, TaggedTextAdds
  <1>11. ASSUME NEW t \in BOOLEAN, Fraction(l, t) PROVE Adds
    BY <1>2, <1>11, FractionAdds
  <1> QED
    BY <1>1, <1>2, <1>3, <1>4, <1>5, <1>6, <1>7, <1>8, <1>9, <1>10, <1>11

\* A tag alone.
LEMMA AddTagAdds ==
  ASSUME Fair(enc), AddTag
  PROVE  Adds /\ owed = << >> /\ Level(doc).kind # "opened"
  <1>1. /\ owed = << >> /\ Level(doc).kind # "opened" /\ owed' = owed
        /\ enc' = QCBOREncode_AddTag(enc, 18) /\ doc' = Adding(<<Tag_(18)>>, 0)
    BY DEF AddTag, Tagged, Call, CanAdd
  <1>2. 18 \in Small
    BY DEF Small
  <1>3. 18 \in Nat /\ IsUint64(18)
    BY <1>2, SmallUint64
  <1>4. Writes(enc, enc', <<Tag_(18)>>, 0, << >>)
    BY <1>1, <1>3, TagWrites
  <1>5. owed' \in Seq(Byte) /\ Writes(enc, enc', <<Tag_(18)>>, 0, owed')
    BY <1>1, <1>4
  <1> QED
    BY <1>1, <1>5 DEF Adds

-----------------------------------------------------------------------------
(* The invariant: the context with the caller's buffer builds its document *)

\* The context holds what the caller asked for.
DocInv == Builds(enc, owed, doc)

\* What was handed out last are the bytes of the tokens that were wrapped.
WrapInv == ~wrapped.buf.null /\ ~enc.failed => Encodes(wrapped.buf.bytes, wrapped.toks)

\* Both, which is inductive.
DInv == DocInv /\ WrapInv

\* Nothing was handed out.
LEMMA NothingHanded ==
  ASSUME wrapped' = NothingWrapped
  PROVE  WrapInv'
  <1>1. wrapped'.buf.null
    BY DEF NothingWrapped, NULLUsefulBufC
  <1> QED
    BY <1>1 DEF WrapInv

\* The last level of a document with more items in it.
LEMMA LevelStays ==
  ASSUME NEW d \in Seq(DocLevels), Len(d) >= 1, NEW T, NEW k
  PROVE  LET m == [d EXCEPT ![Len(d)] = More(@, T, k)]
         IN  Len(m) = Len(d) /\ m[Len(m)].kind = d[Len(d)].kind
  <1> DEFINE n   == Len(d)
             lev == More(d[n], T, k)
             m   == [d EXCEPT ![n] = lev]
  <1>1. n \in Nat /\ DOMAIN d = 1..n /\ n \in 1..n /\ d[n] \in DocLevels
    <2>1. n \in Nat /\ DOMAIN d = 1..n
      BY LenProperties
    <2>2. n \in 1..n
      BY <2>1
    <2> QED
      BY <2>1, <2>2, ElementOfSeq
  <1>2. lev.kind = d[n].kind
    BY <1>1 DEF More, DocLevels
  <1> HIDE DEF lev
  <1>3. m[n] = lev /\ Len(m) = n
    <2>1. DOMAIN m = 1..n /\ m[n] = lev
      BY <1>1
    <2> QED
      BY <1>1, <2>1
  <1> QED
    BY <1>2, <1>3 DEF lev

\* The document of a context that builds one.
LEMMA DocumentType ==
  ASSUME NEW c, NEW owes, NEW d, Builds(c, owes, d), Clean(c)
  PROVE  d \in Seq(DocLevels) /\ Len(d) >= 1 /\ Len(d) = Len(c.nesting)
  BY DEF Builds, Document

\* An added item.
LEMMA AddsKeeps ==
  ASSUME DocInv, Adds, owed = << >>, Level(doc).kind # "opened"
  PROVE  DocInv'
  <1>1. PICK T : \E n \in Nat : Writes(enc, enc', T, n, owed') /\ doc' = Adding(T, n)
    BY DEF Adds
  <1>2. PICK n \in Nat : Writes(enc, enc', T, n, owed') /\ doc' = Adding(T, n)
    BY <1>1
  <1>3. Builds(enc, << >>, doc) /\ doc[Len(doc)].kind # "opened" /\ owed' \in Seq(Byte)
    BY DEF DocInv, Level, Adds
  <1>4. Builds(enc', owed', [doc EXCEPT ![Len(doc)] = More(@, T, n)])
    BY <1>2, <1>3, BuildsMore
  <1> QED
    BY <1>2, <1>4 DEF DocInv, Adding

\* An opened level, behind its label and what is written of it at once.
LEMMA OpensKeeps ==
  ASSUME DocInv, owed = << >>, owed' = << >>, Level(doc).kind # "opened", NEW l \in Labels,
         NEW kind \in Kinds, kind # "top", NEW x,
         Writes(enc, x, LabelToks(l) \o BeginToks(kind), Len(LabelToks(l)), << >>),
         Opens(x, enc', TypeOf(kind)), doc' = Opening(kind, l)
  PROVE  DocInv'
  <1> DEFINE T    == LabelToks(l) \o BeginToks(kind)
             k    == Len(LabelToks(l))
             mid  == [doc EXCEPT ![Len(doc)] = More(@, T, k)]
             none == << >>
  <1>1. Fair(enc)
    BY DEF DocInv, Builds
  <1>2. k \in Nat
    BY <1>1, LabelWrites
  <1>3. Writes(enc, x, T, k, none) /\ none \in Seq(Byte) /\ Builds(enc, none, doc)
    BY DEF DocInv
  <1>4. doc' = Append(mid, NewLevel(kind))
    BY DEF Opening, Adding
  <1>5. doc[Len(doc)].kind # "opened" /\ none = << >>
    BY DEF Level
  <1> HIDE DEF T, k, none
  <1>6. Builds(x, none, mid)
    BY <1>2, <1>3, <1>5, BuildsMore
  <1>7. ASSUME Clean(x) PROVE mid[Len(mid)].kind # "opened"
    <2>1. Clean(enc)
      BY <1>3, <1>7 DEF Writes
    <2>2. doc \in Seq(DocLevels) /\ Len(doc) >= 1
      BY <1>3, <2>1, DocumentType
    <2> QED
      BY <1>5, <2>2, LevelStays
  <1> HIDE DEF mid
  <1>8. Builds(enc', none, Append(mid, NewLevel(kind)))
    BY <1>5, <1>6, <1>7, BuildsOpened
  <1> QED
    BY <1>4, <1>5, <1>8 DEF DocInv

\* A closed level.
LEMMA ClosesKeeps ==
  ASSUME NEW kind, NEW W, Closed(enc', owed, doc, kind, W), owed' = owed, doc' = Closing(kind, W)
  PROVE  DocInv'
  <1>1. Clean(enc') => doc' = Without(doc, W)
    BY DEF Closed, Closing, Matching, Level, Without
  <1> QED
    BY <1>1 DEF DocInv, Closed, Builds

\* The tokens of a label.
LEMMA LabelTokens ==
  ASSUME NEW l \in Labels
  PROVE  LabelToks(l) \in Seq(Tokens) /\ LabelToks(l) \o << >> = LabelToks(l)
  <1> DEFINE text == Text_(<<97>>)
             one  == Int_(1)
  <1>1. text \in Tokens
    <2>1. <<97>> \in Seq(Byte) /\ Len(<<97>>) = 1
      BY DEF Byte
    <2> QED
      BY <2>1 DEF Text_, Token, Tokens
  <1>2. one \in Tokens
    BY EmptySeq DEF Int_, Token, Tokens
  <1>3. LabelToks(l) = << >> \/ LabelToks(l) = <<text>> \/ LabelToks(l) = <<one>>
    BY DEF Labels, NoLabel, SZLabel, NLabel, LabelToks
  <1> HIDE DEF text, one
  <1>4. << >> \in Seq(Tokens) /\ <<text>> \in Seq(Tokens) /\ <<one>> \in Seq(Tokens)
    BY <1>1, <1>2, EmptySeq
  <1>5. LabelToks(l) \in Seq(Tokens)
    BY <1>3, <1>4
  <1> QED
    BY <1>5, ConcatEmptySeq

\* Opening an array, a map or a wrap.
LEMMA CountedOpens ==
  ASSUME DocInv, owed = << >>, owed' = << >>, NEW l \in Labels, Level(doc).kind # "opened",
         NEW kind \in {"array", "map", "wrap"},
         enc' = QCBOREncode_OpenMapOrArray(AddLabel(enc, l), TypeOf(kind)), doc' = Opening(kind, l)
  PROVE  DocInv'
  <1> DEFINE x == AddLabel(enc, l)
             L == LabelToks(l)
             k == Len(LabelToks(l))
  <1>1. Fair(enc)
    BY DEF DocInv, Builds
  <1>2. Writes(enc, x, L, k, << >>) /\ Fair(x)
    BY <1>1, LabelWrites DEF Writes
  <1>3. BeginToks(kind) = << >> /\ kind \in Kinds /\ kind # "top" /\ TypeOf(kind) \in Nat
    BY DEF BeginToks, Kinds, TypeOf, ARRAY, MAP, BYTE_STRING
  <1>4. L \o BeginToks(kind) = L
    BY <1>3, LabelTokens
  <1>5. Opens(x, enc', TypeOf(kind))
    BY <1>2, <1>3, OpenOpens
  <1>6. Writes(enc, x, L \o BeginToks(kind), k, << >>)
    BY <1>2, <1>4
  <1> HIDE DEF x
  <1> QED
    BY <1>3, <1>5, <1>6, OpensKeeps

\* Opening an array or a map without a length.
LEMMA IndefiniteOpens ==
  ASSUME DocInv, owed = << >>, owed' = << >>, NEW l \in Labels, Level(doc).kind # "opened",
         NEW kind \in {"iarray", "imap"},
         enc' = QCBOREncode_OpenMapOrArrayIndefiniteLength(AddLabel(enc, l), TypeOf(kind)),
         doc' = Opening(kind, l)
  PROVE  DocInv'
  <1> DEFINE x    == AddLabel(enc, l)
             y    == AppendCBORHead(x, TypeOf(kind), 0, 0)
             base == IF kind = "iarray" THEN 4 ELSE 5
             B    == <<Indefinite(base)>>
             L    == LabelToks(l)
             k    == Len(LabelToks(l))
             nil  == 0
             none == << >>
  <1>1. Fair(enc) /\ Fair(x)
    BY LabelFair DEF DocInv, Builds
  <1>2. /\ base \in {4, 5} /\ TypeOf(kind) = base + INDEFINITE_LEN_TYPE_MODIFIER
        /\ kind \in Kinds /\ kind # "top" /\ TypeOf(kind) \in Nat
    BY DEF TypeOf, ARRAY_INDEFINITE_LEN, MAP_INDEFINITE_LEN, ARRAY, MAP,
           INDEFINITE_LEN_TYPE_MODIFIER, Kinds
  <1>3. BeginToks(kind) = B
    BY DEF BeginToks
  <1> HIDE DEF base
  <1>4. Writes(x, y, B, nil, none) /\ Fair(y)
    <2> HIDE DEF x
    <2>1. Writes(x, AppendCBORHead(x, base + INDEFINITE_LEN_TYPE_MODIFIER, 0, 0), <<Indefinite(base)>>, 0, << >>)
      BY <1>1, <1>2, BeginWrites
    <2> QED
      BY <1>2, <2>1 DEF Writes
  <1>5. enc' = QCBOREncode_OpenMapOrArray(y, TypeOf(kind))
    BY DEF QCBOREncode_OpenMapOrArrayIndefiniteLength
  <1>6. none \in Seq(Byte) /\ nil \in Nat /\ k \in Nat
    BY <1>1, LabelWrites
  <1>7. k = Len(LabelToks(l)) + nil
    BY <1>6
  <1> HIDE DEF y, B, k, nil, none
  <1>8. Writes(enc, y, L \o B, k, none)
    BY <1>1, <1>4, <1>6, <1>7, LabelledWrites DEF x
  <1>9. Opens(y, enc', TypeOf(kind))
    BY <1>2, <1>4, <1>5, OpenOpens
  <1>10. Writes(enc, y, LabelToks(l) \o BeginToks(kind), Len(LabelToks(l)), << >>)
    BY <1>3, <1>8 DEF k, none
  <1> QED
    BY <1>2, <1>9, <1>10, OpensKeeps

\* Opening a level.
LEMMA OpenKeeps ==
  ASSUME DocInv, Open
  PROVE  DocInv'
  <1>1. PICK l \in Labels :
          /\ owed = << >> /\ owed' = << >> /\ Level(doc).kind # "opened"
          /\ \/ enc' = OpenArray(enc, l) /\ doc' = Opening("array", l)
             \/ enc' = OpenMap(enc, l) /\ doc' = Opening("map", l)
             \/ enc' = BstrWrap(enc, l) /\ doc' = Opening("wrap", l)
             \/ enc' = OpenArrayIndefiniteLength(enc, l) /\ doc' = Opening("iarray", l)
             \/ enc' = OpenMapIndefiniteLength(enc, l) /\ doc' = Opening("imap", l)
    BY DEF Open, Call, CanAdd
  <1>2. CASE enc' = OpenArray(enc, l) /\ doc' = Opening("array", l)
    BY <1>1, <1>2, CountedOpens DEF OpenArray, TypeOf
  <1>3. CASE enc' = OpenMap(enc, l) /\ doc' = Opening("map", l)
    BY <1>1, <1>3, CountedOpens DEF OpenMap, TypeOf
  <1>4. CASE enc' = BstrWrap(enc, l) /\ doc' = Opening("wrap", l)
    BY <1>1, <1>4, CountedOpens DEF BstrWrap, TypeOf
  <1>5. CASE enc' = OpenArrayIndefiniteLength(enc, l) /\ doc' = Opening("iarray", l)
    BY <1>1, <1>5, IndefiniteOpens DEF OpenArrayIndefiniteLength, TypeOf
  <1>6. CASE enc' = OpenMapIndefiniteLength(enc, l) /\ doc' = Opening("imap", l)
    BY <1>1, <1>6, IndefiniteOpens DEF OpenMapIndefiniteLength, TypeOf
  <1> QED
    BY <1>1, <1>2, <1>3, <1>4, <1>5, <1>6

\* Opening a byte string the caller fills; inside another one it is an error.
LEMMA OpenByteStringKeeps ==
  ASSUME DocInv, OpenByteString
  PROVE  DocInv'
  <1>1. PICK l \in Labels :
          /\ CanAdd(l) \/ (Level(doc).kind = "opened" /\ l = NoLabel)
          /\ enc' = QCBOREncode_OpenBytes(AddLabel(enc, l)) /\ doc' = Opening("opened", l)
          /\ owed' = owed
    BY DEF OpenByteString, Call, OpenBytes
  <1> DEFINE x == AddLabel(enc, l)
             L == LabelToks(l)
             k == Len(LabelToks(l))
  <1>2. Fair(enc) /\ owed \in Seq(Byte)
    BY DEF DocInv, Builds
  <1>3. Writes(enc, x, L, k, << >>) /\ Fair(x)
    BY <1>2, LabelWrites DEF Writes
  <1>4. Opens(x, enc', OPEN_BSTR) /\ (Clean(enc') => Current(x).type # OPEN_BSTR)
    <2> HIDE DEF x
    <2> QED
      BY <1>1, <1>3, OpenBytesOpens DEF x
  <1>5. CASE CanAdd(l)
    <2>1. owed = << >> /\ owed' = << >> /\ Level(doc).kind # "opened"
      BY <1>1, <1>5 DEF CanAdd
    <2>2. BeginToks("opened") = << >> /\ "opened" \in Kinds /\ TypeOf("opened") = OPEN_BSTR
      BY DEF BeginToks, Kinds, TypeOf
    <2>3. L \o BeginToks("opened") = L
      BY <2>2, LabelTokens
    <2>4. Writes(enc, x, L \o BeginToks("opened"), k, << >>)
      BY <1>3, <2>3
    <2> HIDE DEF x
    <2> QED
      BY <1>1, <1>4, <2>1, <2>2, <2>4, OpensKeeps
  <1>6. CASE Level(doc).kind = "opened" /\ l = NoLabel
    <2>1. x = enc
      BY <1>6 DEF AddLabel, NoLabel
    <2>2. ~Clean(enc')
      <3> SUFFICES ASSUME Clean(enc') PROVE FALSE
        OBVIOUS
      <3>1. Clean(enc) /\ Current(enc).type # OPEN_BSTR
        BY <1>4, <2>1 DEF Opens
      <3> DEFINE D == enc.out.data \o owed
      <3>2. Document(enc.nesting, D, doc) /\ enc.nesting \in Seq(AnyLevels) /\ D \in Seq(Byte)
        BY <1>2, <3>1, LevelsType, ConcatProperties DEF DocInv, Builds
      <3> HIDE DEF D
      <3>3. Current(enc).type = TypeOf(doc[Len(doc)].kind)
        BY <3>2, LastLevel DEF Current
      <3> QED
        BY <1>6, <3>1, <3>3 DEF Level, TypeOf
    <2>3. Fair(enc')
      BY <1>4 DEF Opens
    <2> QED
      BY <1>1, <1>2, <2>2, <2>3 DEF DocInv, Builds
  <1> QED
    BY <1>1, <1>5, <1>6

\* Closing a level.
LEMMA CloseKeeps ==
  ASSUME DocInv, Close
  PROVE  DocInv'
  <1>1. owed' = owed /\ Builds(enc, owed, doc)
    BY DEF Close, DocInv
  <1>2. \/ enc' = CloseArray(enc) /\ doc' = ClosingLevel("array")
        \/ enc' = CloseMap(enc) /\ doc' = ClosingLevel("map")
        \/ owed = << >> /\ enc' = CloseArrayIndefiniteLength(enc) /\ doc' = ClosingLevel("iarray")
        \/ owed = << >> /\ enc' = CloseMapIndefiniteLength(enc) /\ doc' = ClosingLevel("imap")
    BY DEF Close, Call
  <1> DEFINE W == Whole(doc[Len(doc)])
  <1>3. \A kind : ClosingLevel(kind) = Closing(kind, W)
    BY DEF ClosingLevel, Level
  <1>4. \A kind \in {"array", "map"} : Closed(QCBOREncode_CloseMapOrArray(enc, TypeOf(kind)), owed, doc, kind, W)
    BY <1>1, CountedBuilds
  <1>5. owed = << >> => \A kind \in {"iarray", "imap"} :
          Closed(QCBOREncode_CloseMapOrArrayIndefiniteLength(enc, TypeOf(kind)), owed, doc, kind, W)
    BY <1>1, BreakBuilds
  <1> HIDE DEF W
  <1>6. CASE enc' = CloseArray(enc) /\ doc' = ClosingLevel("array")
    <2>1. Closed(enc', owed, doc, "array", W)
      BY <1>4, <1>6 DEF CloseArray, TypeOf
    <2> QED
      BY <1>1, <1>3, <1>6, <2>1, ClosesKeeps
  <1>7. CASE enc' = CloseMap(enc) /\ doc' = ClosingLevel("map")
    <2>1. Closed(enc', owed, doc, "map", W)
      BY <1>4, <1>7 DEF CloseMap, TypeOf
    <2> QED
      BY <1>1, <1>3, <1>7, <2>1, ClosesKeeps
  <1>8. CASE owed = << >> /\ enc' = CloseArrayIndefiniteLength(enc) /\ doc' = ClosingLevel("iarray")
    <2>1. Closed(enc', owed, doc, "iarray", W)
      BY <1>5, <1>8 DEF CloseArrayIndefiniteLength, TypeOf
    <2> QED
      BY <1>1, <1>3, <1>8, <2>1, ClosesKeeps
  <1>9. CASE owed = << >> /\ enc' = CloseMapIndefiniteLength(enc) /\ doc' = ClosingLevel("imap")
    <2>1. Closed(enc', owed, doc, "imap", W)
      BY <1>5, <1>9 DEF CloseMapIndefiniteLength, TypeOf
    <2> QED
      BY <1>1, <1>3, <1>9, <2>1, ClosesKeeps
  <1> QED
    BY <1>2, <1>6, <1>7, <1>8, <1>9

\* Closing a wrap, and the bytes that are handed out.
LEMMA CloseWrapKeeps ==
  ASSUME DInv, CloseBstrWrap2
  PROVE  DInv'
  <1>1. owed = << >> /\ owed' = << >> /\ Builds(enc, << >>, doc)
    BY DEF CloseBstrWrap2, DInv, DocInv
  <1>2. PICK head \in BOOLEAN :
          /\ enc' = QCBOREncode_CloseBstrWrap2(enc, head).ctx
          /\ wrapped' = [buf  |-> QCBOREncode_CloseBstrWrap2(enc, head).wrapped,
                         toks |-> IF head THEN Whole(Level(doc)) ELSE Level(doc).items]
    BY DEF CloseBstrWrap2
  <1>3. doc' = Closing("wrap", Whole(Level(doc)))
    BY DEF CloseBstrWrap2, ClosingLevel
  <1> DEFINE closed == QCBOREncode_CloseBstrWrap2(enc, head)
             last   == doc[Len(doc)]
  <1>4. /\ Closed(closed.ctx, << >>, doc, "wrap", Whole(last))
        /\ ~closed.wrapped.null /\ ~closed.ctx.failed =>
             Encodes(closed.wrapped.bytes, IF head THEN Whole(last) ELSE last.items)
    BY <1>1, WrapBuilds
  <1> HIDE DEF closed
  <1>5. enc' = closed.ctx /\ wrapped'.buf = closed.wrapped /\ Level(doc) = last
        /\ wrapped'.toks = IF head THEN Whole(Level(doc)) ELSE Level(doc).items
    BY <1>2 DEF closed, Level
  <1> HIDE DEF last
  <1>6. WrapInv'
    BY <1>4, <1>5 DEF WrapInv
  <1>7. Closed(enc', owed, doc, "wrap", Whole(last)) /\ doc' = Closing("wrap", Whole(last)) /\ owed' = owed
    BY <1>1, <1>3, <1>4, <1>5
  <1>8. DocInv'
    BY <1>7, ClosesKeeps
  <1> QED
    BY <1>6, <1>8 DEF DInv

\* Cancelling a wrap.
LEMMA CancelKeeps ==
  ASSUME DocInv, CancelBstrWrap
  PROVE  DocInv'
  <1>1. /\ owed = << >> /\ owed' = << >> /\ enc' = QCBOREncode_CancelBstrWrap(enc)
        /\ doc' = IF Matching("wrap") /\ Level(doc).items = << >>
                  THEN SubSeq(doc, 1, Len(doc) - 1) ELSE doc
    BY DEF CancelBstrWrap, Call
  <1>2. Builds(enc, << >>, doc)
    BY <1>1 DEF DocInv
  <1>3. /\ Builds(enc', << >>, SubSeq(doc, 1, Len(doc) - 1))
        /\ Clean(enc') => Len(doc) > 1 /\ doc[Len(doc)].kind = "wrap" /\ doc[Len(doc)].items = << >>
    BY <1>1, <1>2, CancelBuilds
  <1>4. Clean(enc') => doc' = SubSeq(doc, 1, Len(doc) - 1)
    BY <1>1, <1>3 DEF Matching, Level
  <1> QED
    BY <1>1, <1>3, <1>4 DEF DocInv, Builds

\* Closing a byte string the caller filled.
LEMMA CloseBytesKeeps ==
  ASSUME DocInv, CloseBytes
  PROVE  DocInv'
  <1>1. owed = << >> /\ owed' = owed /\ Builds(enc, << >>, doc)
    BY DEF CloseBytes, DocInv
  <1>2. PICK b \in Strings :
          enc' = QCBOREncode_CloseBytes(enc, b) /\ doc' = Closing("opened", <<Bytes_(b)>>)
    BY DEF CloseBytes, Call
  <1>3. b \in Seq(Byte) /\ IsUint64(Len(b))
    BY Arguments DEF IsString
  <1>4. Closed(QCBOREncode_CloseBytes(enc, b), << >>, doc, "opened", <<Bytes_(b)>>)
    BY <1>1, <1>3, BytesBuilds
  <1>5. Closed(enc', owed, doc, "opened", <<Bytes_(b)>>)
    BY <1>1, <1>2, <1>4
  <1> QED
    BY <1>1, <1>2, <1>5, ClosesKeeps

\* Asking for the error.
LEMMA ErrorStateKeeps ==
  ASSUME DocInv, GetErrorState
  PROVE  DocInv'
  <1>1. doc' = doc /\ owed' = owed /\ enc' = QCBOREncode_GetErrorState(enc)
    BY DEF GetErrorState, Call
  <1>2. Fair(enc) /\ owed \in Seq(Byte)
    BY DEF DocInv, Builds
  <1>3. CASE enc.out.err
    <2>1. "BUFFER_TOO_SMALL" \in Errors /\ enc \in Contexts
      BY <1>2 DEF Errors, Fair, Good
    <2>2. enc' = SetError(enc, "BUFFER_TOO_SMALL")
      BY <1>1, <1>3 DEF QCBOREncode_GetErrorState
    <2>3. Fair(enc')
      BY <1>2, <2>1, <2>2, FailedWrites DEF Writes
    <2>4. ~Clean(enc')
      BY <2>1, <2>2 DEF SetError, Contexts, Clean
    <2> QED
      BY <1>1, <1>2, <2>3, <2>4 DEF DocInv, Builds
  <1>4. CASE ~enc.out.err
    BY <1>1, <1>4 DEF QCBOREncode_GetErrorState, DocInv
  <1> QED
    BY <1>3, <1>4

\* The invariant holds of the fresh context and the document without items.
LEMMA InitDInv == Init => DInv
  <1> SUFFICES ASSUME Init PROVE DInv
    OBVIOUS
  <1>1. PICK cap \in Capacities : enc = QCBOREncode_Init(FALSE, cap)
    BY DEF Init
  <1>2. cap \in Nat /\ IsUint64(cap)
    <2>1. cap \in 0..CalculateSize /\ cap \in Nat /\ CalculateSize \in Nat /\ IsUint64(CalculateSize)
      BY CallerAssumption
    <2> QED
      BY <2>1, Uint64Below
  <1>3. Good(enc)
    BY <1>1, <1>2, FreshGood
  <1> DEFINE lev  == Nesting_Level(ARRAY, 0)
             top  == NewLevel("top")
             none == << >>
  <1>4. /\ enc.uError = "SUCCESS" /\ enc.out.data = none /\ enc.nesting = <<lev>>
        /\ doc = <<top>> /\ owed = none
    BY <1>1 DEF Init, QCBOREncode_Init, UsefulOutBuf_Init
  <1>5. Fair(enc)
    BY <1>3, <1>4 DEF Fair
  <1>6. lev.type = TypeOf("top") /\ lev.count = 0 /\ lev.start = 0
    BY DEF Nesting_Level, TypeOf
  <1>7. top \in DocLevels /\ top.kind = "top" /\ top.items = none /\ top.num = 0
    BY EmptySeq DEF NewLevel, DocLevels, Kinds
  <1> HIDE DEF lev, top
  <1>8. none \in Seq(Byte) /\ Len(none) = 0 /\ none \o none = none
    <2>1. none \in Seq(Byte) /\ Len(none) = 0
      BY EmptySeq
    <2> QED
      BY <2>1, ConcatEmptySeq
  <1> HIDE DEF none
  <1>9. Piece(none, 0, 0, none)
    BY <1>8, PieceEmpty DEF none
  <1>10. Document(<<lev>>, none, <<top>>)
    <2>1. LevelHolds(lev, top, 1, 1)
      BY <1>6, <1>7 DEF LevelHolds
    <2>2. EndOf(<<lev>>, none, 1, 1) = 0
      BY <1>8 DEF EndOf
    <2>3. <<top>> \in Seq(DocLevels)
      BY <1>7
    <2>4. \A i \in 1..Len(<<top>>) :
            /\ LevelHolds(<<lev>>[i], <<top>>[i], i, Len(<<top>>))
            /\ Piece(none, <<lev>>[i].start, EndOf(<<lev>>, none, Len(<<top>>), i), <<top>>[i].items)
      BY <1>6, <1>7, <1>9, <2>1, <2>2
    <2>5. Len(<<top>>) = 1 /\ Len(<<lev>>) = 1 /\ <<lev>>[1] = lev
      OBVIOUS
    <2> DEFINE d    == <<top>>
               nest == <<lev>>
    <2>6. d \in Seq(DocLevels) /\ Len(d) = Len(nest) /\ Len(d) >= 1 /\ nest[1].start = 0
      BY <1>6, <2>3, <2>5
    <2> HIDE DEF d, nest
    <2>7. Document(nest, none, d)
      BY <2>4, <2>6 DEF Document, d, nest
    <2> QED
      BY <2>7 DEF d, nest
  <1>11. DocInv
    BY <1>4, <1>5, <1>8, <1>10 DEF DocInv, Builds
  <1>12. WrapInv
    BY DEF Init, NothingWrapped, NULLUsefulBufC, WrapInv
  <1> QED
    BY <1>11, <1>12 DEF DInv

\* An item hands out nothing.
LEMMA ItemHandsNothing ==
  ASSUME Item
  PROVE  wrapped' = NothingWrapped
  <1>1. PICK l \in Labels :
          \/ Number(l) \/ String(l) \/ Simple(l) \/ Encoded(l) \/ LenOnly(l)
          \/ \E t \in BOOLEAN : Epoch(l, t) \/ TaggedBytes(l, t) \/ TaggedText(l, t) \/ Fraction(l, t)
    BY DEF Item
  <1>2. CASE Number(l)
    BY <1>2 DEF Number, Add, Call
  <1>3. CASE String(l)
    BY <1>3 DEF String, Add, Call
  <1>4. CASE Simple(l)
    BY <1>4 DEF Simple, Add, Call
  <1>5. CASE Encoded(l)
    BY <1>5 DEF Encoded, Add, Call
  <1>6. CASE LenOnly(l)
    BY <1>6 DEF LenOnly, Call
  <1>7. ASSUME NEW t \in BOOLEAN, Epoch(l, t) PROVE wrapped' = NothingWrapped
    BY <1>7 DEF Epoch, Add, Call
  <1>8. ASSUME NEW t \in BOOLEAN, TaggedBytes(l, t) PROVE wrapped' = NothingWrapped
    BY <1>8 DEF TaggedBytes, Add, Call
  <1>9. ASSUME NEW t \in BOOLEAN, TaggedText(l, t) PROVE wrapped' = NothingWrapped
    BY <1>9 DEF TaggedText, Add, Call
  <1>10. ASSUME NEW t \in BOOLEAN, Fraction(l, t) PROVE wrapped' = NothingWrapped
    BY <1>10 DEF Fraction, Add, Call
  <1> QED
    BY <1>1, <1>2, <1>3, <1>4, <1>5, <1>6, <1>7, <1>8, <1>9, <1>10

\* Every call keeps the invariant.
LEMMA NextDInv == DInv /\ [Next]_vars => DInv'
  <1> SUFFICES ASSUME DInv, [Next]_vars PROVE DInv'
    OBVIOUS
  <1>1. DocInv /\ WrapInv /\ Fair(enc)
    BY DEF DInv, DocInv, Builds
  <1>2. ASSUME DocInv', wrapped' = NothingWrapped PROVE DInv'
    BY <1>2, NothingHanded DEF DInv
  <1>3. CASE Item
    <2>1. wrapped' = NothingWrapped
      BY <1>3, ItemHandsNothing
    <2> QED
      BY <1>1, <1>2, <1>3, <2>1, ItemAdds, AddsKeeps
  <1>4. CASE AddTag
    <2>1. wrapped' = NothingWrapped
      BY <1>4 DEF AddTag, Tagged, Call
    <2> QED
      BY <1>1, <1>2, <1>4, <2>1, AddTagAdds, AddsKeeps
  <1>5. CASE Open
    <2>1. wrapped' = NothingWrapped
      BY <1>5 DEF Open, Call
    <2> QED
      BY <1>1, <1>2, <1>5, <2>1, OpenKeeps
  <1>6. CASE OpenByteString
    <2>1. wrapped' = NothingWrapped
      BY <1>6 DEF OpenByteString, Call
    <2> QED
      BY <1>1, <1>2, <1>6, <2>1, OpenByteStringKeeps
  <1>7. CASE Close
    <2>1. wrapped' = NothingWrapped
      BY <1>7 DEF Close, Call
    <2> QED
      BY <1>1, <1>2, <1>7, <2>1, CloseKeeps
  <1>8. CASE CloseBstrWrap2
    BY <1>8, CloseWrapKeeps
  <1>9. CASE CancelBstrWrap
    <2>1. wrapped' = NothingWrapped
      BY <1>9 DEF CancelBstrWrap, Call
    <2> QED
      BY <1>1, <1>2, <1>9, <2>1, CancelKeeps
  <1>10. CASE CloseBytes
    <2>1. wrapped' = NothingWrapped
      BY <1>10 DEF CloseBytes, Call
    <2> QED
      BY <1>1, <1>2, <1>10, <2>1, CloseBytesKeeps
  <1>11. CASE GetErrorState
    <2>1. wrapped' = NothingWrapped
      BY <1>11 DEF GetErrorState, Call
    <2> QED
      BY <1>1, <1>2, <1>11, <2>1, ErrorStateKeeps
  <1>12. CASE Finish
    <2>1. wrapped' = NothingWrapped /\ enc' = enc /\ doc' = doc /\ owed' = owed
      BY <1>12 DEF Finish
    <2> QED
      BY <1>1, <1>2, <2>1 DEF DocInv
  <1>13. CASE UNCHANGED vars
    BY <1>1, <1>13 DEF DInv, DocInv, WrapInv, vars
  <1> QED
    BY <1>3, <1>4, <1>5, <1>6, <1>7, <1>8, <1>9, <1>10, <1>11, <1>12, <1>13 DEF Next

\* After any sequence of calls a context without an error holds the levels the caller has
\* open, each with the count and the place of the caller's, and the bytes between the
\* places are those of the items the caller added (Nesting_Increase, InsertCBORHead).
THEOREM ContextBuildsDoc == Spec => []DInv
  <1>1. Init => DInv
    BY InitDInv
  <1>2. DInv /\ [Next]_vars => DInv'
    BY NextDInv
  <1> QED
    BY <1>1, <1>2, PTL DEF Spec

\* The bytes QCBOREncode_CloseBstrWrap2 hands out read back as the wrapped items, or as the
\* byte string around them.
THEOREM WrappedReadsBack == Spec => []WrappedIsContent
  <1>1. DInv => WrappedIsContent
    BY EncodingIsRead DEF DInv, WrapInv, WrappedIsContent
  <1> QED
    BY <1>1, ContextBuildsDoc, PTL

\* What QCBOREncode_Finish returns without any error on the way, followed by the bytes the
\* caller still owes, reads back as the document the caller built, for any order of the
\* calls, any numbers and strings and any buffer.
THEOREM EncodingReadsBack == Spec => []DecodesToDoc
  <1>1. IInv /\ DInv => DecodesToDoc
    <2> SUFFICES ASSUME IInv, DInv, Finished, result.real.err = "SUCCESS", ~enc.failed
                 PROVE  Len(doc) = 1 /\ IsEncoding(result.real.out.bytes \o owed, doc[1].items)
      BY DEF DecodesToDoc
    <2> DEFINE f == QCBOREncode_Finish(enc)
               D == enc.out.data \o owed
    <2>1. result.real = f
      BY DEF IInv, ResultInv
    <2>2. Fair(enc) /\ Good(enc) /\ owed \in Seq(Byte)
      BY DEF DInv, DocInv, Builds, Fair
    <2>3. ~enc.out.err /\ ~Nesting_IsInNest(enc) /\ f.out.bytes = enc.out.data
      <3>1. /\ f.err = "SUCCESS" <=> ~enc.out.err /\ enc.uError = "SUCCESS" /\ ~Nesting_IsInNest(enc)
            /\ f.err = "SUCCESS" => f.out.bytes = enc.out.data
        BY <2>2, FinishFacts
      <3> HIDE DEF f
      <3> QED
        BY <2>1, <3>1
    <2> HIDE DEF f
    <2>4. Clean(enc) /\ Document(enc.nesting, D, doc)
      BY <2>3 DEF DInv, DocInv, Builds, Clean
    <2>5. Len(doc) = 1 /\ enc.nesting[1].start = 0
      <3> DEFINE n == Len(enc.nesting)
      <3>1. n \in Nat /\ n >= 1
        BY <2>2, LevelsType
      <3>2. ~(n > 1) /\ Len(doc) = n /\ enc.nesting[1].start = 0
        BY <2>3, <2>4 DEF Document, Nesting_IsInNest
      <3> HIDE DEF n
      <3> QED
        BY <3>1, <3>2
    <2>6. D \in Seq(Byte)
      BY <2>2, LevelsType, ConcatProperties
    <2> HIDE DEF D
    <2>7. Piece(D, 0, Len(D), doc[1].items)
      <3>1. 1 \in 1..Len(doc) /\ ~(1 < 1)
        BY <2>5
      <3> QED
        BY <2>4, <2>5, <3>1 DEF Document, EndOf
    <2>8. Encodes(D, doc[1].items)
      <3>1. PICK b \in Seq(Byte) : Encodes(b, doc[1].items) /\ Len(D) = 0 + Len(b) /\ Holds(D, 0, b)
        BY <2>7 DEF Piece
      <3>2. Len(D) = Len(b) /\ \A i \in 1..Len(b) : D[i] = b[i]
        <4>1. Len(b) \in Nat
          BY LenProperties
        <4> QED
          BY <3>1, <4>1 DEF Holds
      <3>3. D = b
        BY <2>6, <3>2, SeqEqual
      <3> QED
        BY <3>1, <3>3
    <2>9. IsEncoding(D, doc[1].items)
      BY <2>8, EncodingIsRead
    <2> QED
      BY <2>1, <2>3, <2>5, <2>9 DEF D
  <1> QED
    BY <1>1, EncoderInvariant, ContextBuildsDoc, PTL
=============================================================================
