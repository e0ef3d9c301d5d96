----------------------------- MODULE CborProofs -----------------------------
(***************************************************************************)
(* Facts about the CBOR encoder that the proofs of its caller and of the   *)
(* algorithms use: its buffers, the heads it writes, what the reader makes *)
(* of them, and what every function of the encoder does to a context.      *)
(***************************************************************************)
EXTENDS QcborInline, CborReader, CborLen, SequenceTheorems, WellFoundedInduction, TLAPS

\* A nonempty set of natural numbers has a least element.
LEMMA LeastNat ==
  ASSUME NEW S \in SUBSET Nat, S # {}
  PROVE  Min(S) \in S /\ \A j \in S : Min(S) <= j
  <1> DEFINE R == OpToRel(<, Nat)
  <1>1. IsWellFoundedOn(R, Nat)
    BY NatLessThanWellFounded
  <1>2. \A i, j \in Nat : i < j => <<i, j>> \in R
    BY DEF OpToRel
  <1> HIDE DEF R
  <1>3. PICK i \in S : \A j \in S : ~(<<j, i>> \in R)
    BY <1>1, WFMin
  <1>4. \A j \in S : i <= j
    <2> SUFFICES ASSUME NEW j \in S PROVE i <= j
      OBVIOUS
    <2>1. i \in Nat /\ j \in Nat /\ ~(<<j, i>> \in R)
      BY <1>3
    <2>2. ~(j < i)
      BY <1>2, <2>1
    <2> QED
      BY <2>1, <2>2
  <1>5. \E x \in S : \A j \in S : x <= j
    BY <1>4
  <1> QED
    BY <1>5 DEF Min

\* An element no other is below is the least.
LEMMA LeastIs ==
  ASSUME NEW S \in SUBSET Nat, NEW m \in S, \A j \in S : m <= j
  PROVE  Min(S) = m
  <1> DEFINE l == Min(S)
  <1>1. l \in S /\ \A j \in S : l <= j
    BY LeastNat
  <1> HIDE DEF l
  <1>2. l \in Nat /\ m \in Nat /\ l <= m /\ m <= l
    BY <1>1
  <1>3. l = m
    BY <1>2
  <1> QED
    BY <1>3 DEF l

\* The shifts of a number satisfy the equation that defines them.
LEMMA ShiftedEquation ==
  ASSUME NEW n \in Nat
  PROVE  Shifted(n) = [k \in 0..8 |-> IF k = 0 THEN n ELSE Shifted(n)[k - 1] \div 256]
  <1> DEFINE s1 == n \div 256
             s2 == s1 \div 256
             s3 == s2 \div 256
             s4 == s3 \div 256
             s5 == s4 \div 256
             s6 == s5 \div 256
             s7 == s6 \div 256
             s8 == s7 \div 256
             w  == [k \in 0..8 |-> IF k = 0 THEN n ELSE IF k = 1 THEN s1 ELSE IF k = 2 THEN s2
                                   ELSE IF k = 3 THEN s3 ELSE IF k = 4 THEN s4
                                   ELSE IF k = 5 THEN s5 ELSE IF k = 6 THEN s6
                                   ELSE IF k = 7 THEN s7 ELSE s8]
  <1> HIDE DEF s1, s2, s3, s4, s5, s6, s7, s8
  <1>1. \A k \in 0..8 : w[k] = IF k = 0 THEN n ELSE w[k - 1] \div 256
    <2> SUFFICES ASSUME NEW k \in 0..8 PROVE w[k] = IF k = 0 THEN n ELSE w[k - 1] \div 256
      OBVIOUS
    <2>1. k \in {0, 1, 2, 3, 4, 5, 6, 7, 8}
      OBVIOUS
    <2>2. /\ w[0] = n /\ w[1] = s1 /\ w[2] = s2 /\ w[3] = s3 /\ w[4] = s4
          /\ w[5] = s5 /\ w[6] = s6 /\ w[7] = s7 /\ w[8] = s8
      OBVIOUS
    <2> HIDE DEF w
    <2> QED
      BY <2>1, <2>2 DEF s1, s2, s3, s4, s5, s6, s7, s8
  <1>2. w = [k \in 0..8 |-> IF k = 0 THEN n ELSE w[k - 1] \div 256]
    BY <1>1
  <1> HIDE DEF w
  <1>3. \E f : f = [k \in 0..8 |-> IF k = 0 THEN n ELSE f[k - 1] \div 256]
    BY <1>2
  <1> QED
    BY <1>3 DEF Shifted

\* What is left is a natural number.
LEMMA Div256Type == \A a \in Nat : a \div 256 \in Nat
  OBVIOUS

\* Each shift is the one before it divided by 256.
LEMMA ShiftedValues ==
  ASSUME NEW n \in Nat
  PROVE  /\ Shifted(n)[0] = n
         /\ \A k \in 1..8 : Shifted(n)[k] = Shifted(n)[k - 1] \div 256
         /\ \A k \in 0..8 : Shifted(n)[k] \in Nat
  <1> DEFINE f == Shifted(n)
  <1>1. f = [k \in 0..8 |-> IF k = 0 THEN n ELSE f[k - 1] \div 256]
    BY ShiftedEquation
  <1> HIDE DEF f
  <1>2. f[0] = n /\ \A k \in 1..8 : f[k] = f[k - 1] \div 256
    BY <1>1
  <1>3. ASSUME NEW k \in 1..8, f[k - 1] \in Nat
        PROVE  f[k] \in Nat
    <2> DEFINE a == f[k - 1]
    <2>1. f[k] = a \div 256
      BY <1>2
    <2>2. a \in Nat
      BY <1>3
    <2> HIDE DEF a
    <2> QED
      BY <2>1, <2>2, Div256Type, Zenon
  <1>4. f[1] \in Nat
    BY <1>2, <1>3
  <1>5. f[2] \in Nat
    BY <1>3, <1>4
  <1>6. f[3] \in Nat
    BY <1>3, <1>5
  <1>7. f[4] \in Nat
    BY <1>3, <1>6
  <1>8. f[5] \in Nat
    BY <1>3, <1>7
  <1>9. f[6] \in Nat
    BY <1>3, <1>8
  <1>10. f[7] \in Nat
    BY <1>3, <1>9
  <1>11. f[8] \in Nat
    BY <1>3, <1>10
  <1>12. \A k \in 0..8 : k \in {0, 1, 2, 3, 4, 5, 6, 7, 8}
    OBVIOUS
  <1>13. \A k \in 0..8 : f[k] \in Nat
    BY <1>2, <1>4, <1>5, <1>6, <1>7, <1>8, <1>9, <1>10, <1>11, <1>12
  <1> QED
    BY <1>2, <1>13 DEF f

\* The bytes of a number are bytes.
LEMMA BigEndianType ==
  ASSUME NEW n \in Nat, NEW w \in {1, 2, 4, 8}
  PROVE  BigEndian(n, w) \in Seq(Byte)
  <1>1. \A i \in 1..w : w - i \in 0..8
    OBVIOUS
  <1>2. \A i \in 1..w : Shifted(n)[w - i] \in Nat
    BY <1>1, ShiftedValues
  <1>3. \A a \in Nat : a % 256 \in 0..255
    OBVIOUS
  <1>4. BigEndian(n, w) \in [1..w -> Byte]
    BY <1>2, <1>3 DEF BigEndian, Byte
  <1> QED
    BY <1>4, SeqDef

\* A head or a string in its place.
Spliced(data, new, pos) == SubSeq(data, 1, pos) \o new \o SubSeq(data, pos + 1, Len(data))

\* It is made of bytes and is longer by what was put in.
LEMMA SplicedType ==
  ASSUME NEW data \in Seq(Byte), NEW new \in Seq(Byte), NEW pos \in 0..Len(data)
  PROVE  /\ Spliced(data, new, pos) \in Seq(Byte)
         /\ Len(Spliced(data, new, pos)) = Len(data) + Len(new)
  <1>1. Len(data) \in Nat /\ Len(new) \in Nat
    BY LenProperties
  <1> DEFINE a == SubSeq(data, 1, pos)
             b == SubSeq(data, pos + 1, Len(data))
  <1>2. a \in Seq(Byte) /\ Len(a) = pos
    <2>1. \A i \in 1..pos : data[i] \in Byte
      BY <1>1, ElementOfSeq
    <2> QED
      BY <1>1, <2>1, SubSeqProperties
  <1>3. b \in Seq(Byte) /\ Len(b) = Len(data) - pos
    <2>1. \A i \in (pos + 1)..Len(data) : data[i] \in Byte
      BY <1>1, ElementOfSeq
    <2>2. pos + 1 \in Int /\ Len(data) \in Int
      BY <1>1
    <2> QED
      BY <1>1, <2>1, <2>2, SubSeqProperties
  <1> HIDE DEF a, b
  <1>4. a \o new \in Seq(Byte) /\ Len(a \o new) = Len(a) + Len(new)
    BY <1>2, ConcatProperties
  <1>5. (a \o new) \o b \in Seq(Byte) /\ Len((a \o new) \o b) = Len(a \o new) + Len(b)
    BY <1>3, <1>4, ConcatProperties
  <1>6. Spliced(data, new, pos) = (a \o new) \o b
    BY DEF Spliced, a, b
  <1>7. Len((a \o new) \o b) = Len(data) + Len(new)
    BY <1>1, <1>2, <1>3, <1>4, <1>5
  <1> QED
    BY <1>5, <1>6, <1>7

\* What stands where in two sequences joined.
LEMMA Joined ==
  ASSUME NEW S, NEW s \in Seq(S), NEW t \in Seq(S), NEW l, NEW m, Len(s) = l, Len(t) = m
  PROVE  /\ s \o t \in Seq(S) /\ Len(s \o t) = l + m
         /\ \A i \in 1..(l + m) : (s \o t)[i] = IF i <= l THEN s[i] ELSE t[i - l]
  BY ConcatProperties, Zenon

\* What stands where in a stretch of n elements.
LEMMA Stretch ==
  ASSUME NEW S, NEW s \in Seq(S), NEW from \in Nat, NEW n \in Nat, from + n <= Len(s)
  PROVE  /\ SubSeq(s, from + 1, from + n) \in Seq(S) /\ Len(SubSeq(s, from + 1, from + n)) = n
         /\ \A i \in 1..n : SubSeq(s, from + 1, from + n)[i] = s[from + i]
  <1> DEFINE p == from + 1
             q == from + n
             u == SubSeq(s, p, q)
  <1>1. p \in Int /\ q \in Int
    OBVIOUS
  <1>2. \A i \in p..q : s[i] \in S
    <2>1. Len(s) \in Nat
      BY LenProperties
    <2>2. \A i \in p..q : i \in 1..Len(s)
      BY <2>1
    <2> QED
      BY <2>2, ElementOfSeq
  <1>3. q - p + 1 = n /\ (p <= q <=> n # 0) /\ \A i \in 1..n : p + i - 1 = from + i
    OBVIOUS
  <1> HIDE DEF p, q
  <1>4. /\ u \in Seq(S) /\ Len(u) = IF p <= q THEN q - p + 1 ELSE 0
        /\ \A i \in 1..(q - p + 1) : u[i] = s[p + i - 1]
    BY <1>1, <1>2, SubSeqProperties
  <1> HIDE DEF u
  <1>5. Len(u) = n
    BY <1>3, <1>4
  <1>6. \A i \in 1..n : u[i] = s[p + i - 1]
    BY <1>3, <1>4, Zenon
  <1>7. \A i \in 1..n : u[i] = s[from + i]
    BY <1>3, <1>6, Zenon
  <1> QED
    BY <1>4, <1>5, <1>7, Zenon DEF u, p, q

\* What stands where in a sequence with something put in.
LEMMA SplicedElements ==
  ASSUME NEW data \in Seq(Byte), NEW new \in Seq(Byte), NEW pos \in 0..Len(data)
  PROVE  \A i \in 1..(Len(data) + Len(new)) :
            Spliced(data, new, pos)[i] = IF i <= pos THEN data[i]
                                         ELSE IF i <= pos + Len(new) THEN new[i - pos]
                                         ELSE data[i - Len(new)]
  <1> DEFINE n == Len(data)
             w == Len(new)
             a == SubSeq(data, 1, pos)
             b == SubSeq(data, pos + 1, n)
             c == a \o new
             d == c \o b
  <1>1. n \in Nat /\ w \in Nat /\ pos \in Nat /\ pos <= n
    BY LenProperties
  <1>2. n - pos \in Nat /\ pos + (n - pos) = n /\ 0 + 1 = 1 /\ 0 + pos = pos
    BY <1>1
  <1>3. a \in Seq(Byte) /\ Len(a) = pos /\ \A i \in 1..pos : a[i] = data[i]
    <2>1. \A i \in 1..pos : 0 + i = i
      BY <1>1
    <2>2. 0 \in Nat /\ 0 + pos <= Len(data)
      BY <1>1 DEF n
    <2> DEFINE z == SubSeq(data, 0 + 1, 0 + pos)
    <2>3. z \in Seq(Byte) /\ Len(z) = pos /\ \A i \in 1..pos : z[i] = data[0 + i]
      BY <1>1, <2>2, Stretch, Zenon
    <2>4. z = a
      BY <1>2, Zenon
    <2> HIDE DEF z, a
    <2> QED
      BY <2>1, <2>3, <2>4, Zenon
  <1>4. b \in Seq(Byte) /\ Len(b) = n - pos /\ \A i \in 1..(n - pos) : b[i] = data[pos + i]
    <2> DEFINE k == n - pos
               z == SubSeq(data, pos + 1, pos + k)
    <2>1. pos \in Nat /\ k \in Nat /\ pos + k <= Len(data)
      BY <1>1
    <2>2. z = b
      BY <1>2, Zenon
    <2> HIDE DEF k
    <2>3. z \in Seq(Byte) /\ Len(z) = k /\ \A i \in 1..k : z[i] = data[pos + i]
      BY <2>1, Stretch
    <2> HIDE DEF z, b
    <2> QED
      BY <2>2, <2>3, Zenon DEF k
  <1> HIDE DEF a, b
  <1>5. /\ c \in Seq(Byte) /\ Len(c) = pos + w
        /\ \A i \in 1..(pos + w) : c[i] = IF i <= pos THEN a[i] ELSE new[i - pos]
    BY <1>3, Joined
  <1> HIDE DEF c
  <1>6. \A i \in 1..((pos + w) + (n - pos)) :
           d[i] = IF i <= pos + w THEN c[i] ELSE b[i - (pos + w)]
    BY <1>4, <1>5, Joined
  <1>7. Spliced(data, new, pos) = d
    BY DEF Spliced, c, a, b, n
  <1> HIDE DEF d, n, w
  <1>8. ASSUME NEW i \in 1..(n + w)
        PROVE  d[i] = IF i <= pos THEN data[i] ELSE IF i <= pos + w THEN new[i - pos] ELSE data[i - w]
    <2>1. i \in 1..((pos + w) + (n - pos))
      BY <1>1
    <2>2. CASE i <= pos
      <3>1. i <= pos + w /\ i \in 1..pos /\ i \in 1..(pos + w)
        BY <1>1, <2>2
      <3> QED
        BY <1>3, <1>5, <1>6, <2>1, <2>2, <3>1
    <2>3. CASE ~(i <= pos) /\ i <= pos + w
      <3>1. i \in 1..(pos + w)
        BY <1>1, <2>3
      <3> QED
        BY <1>5, <1>6, <2>1, <2>3, <3>1
    <2>4. CASE ~(i <= pos) /\ ~(i <= pos + w)
      <3>1. i - (pos + w) \in 1..(n - pos) /\ pos + (i - (pos + w)) = i - w
        BY <1>1, <2>4
      <3>2. d[i] = b[i - (pos + w)]
        BY <1>6, <2>1, <2>4
      <3>3. b[i - (pos + w)] = data[pos + (i - (pos + w))]
        BY <1>4, <3>1
      <3> QED
        BY <2>4, <3>1, <3>2, <3>3
    <2> QED
      BY <2>2, <2>3, <2>4
  <1> QED
    BY <1>7, <1>8 DEF n, w

\* A stretch of a sequence is another one when it has its elements.
LEMMA StretchIs ==
  ASSUME NEW S, NEW s \in Seq(S), NEW t \in Seq(S), NEW from \in Nat, NEW n \in Nat,
         Len(t) = n, from + n <= Len(s), \A i \in 1..n : s[from + i] = t[i]
  PROVE  SubSeq(s, from + 1, from + n) = t
  <1> DEFINE u == SubSeq(s, from + 1, from + n)
  <1>1. u \in Seq(S) /\ Len(u) = n /\ \A i \in 1..n : u[i] = s[from + i]
    BY Stretch
  <1> HIDE DEF u
  <1>2. Len(u) = Len(t) /\ \A i \in 1..Len(u) : u[i] = t[i]
    BY <1>1, Zenon
  <1>3. u = t
    BY <1>1, <1>2, SeqEqual, Zenon
  <1> QED
    BY <1>3 DEF u

\* Induction: a set with 0 and the successors of its elements has every natural number.
LEMMA NatSet ==
  ASSUME NEW S, 0 \in S, \A n \in Nat : n \in S => n + 1 \in S
  PROVE  Nat \subseteq S
  <1> DEFINE rest == {n \in Nat : n \notin S}
  <1> SUFFICES ASSUME rest # {} PROVE FALSE
    OBVIOUS
  <1>1. rest \in SUBSET Nat
    OBVIOUS
  <1> DEFINE m == Min(rest)
  <1>2. m \in rest /\ \A j \in rest : m <= j
    BY <1>1, LeastNat
  <1> HIDE DEF m
  <1>3. m \in Nat /\ m \notin S
    BY <1>2
  <1>4. m # 0
    BY <1>3
  <1>5. m - 1 \in Nat /\ (m - 1) + 1 = m /\ ~(m <= m - 1)
    BY <1>3, <1>4
  <1>6. m - 1 \in S
    BY <1>2, <1>5
  <1>7. (m - 1) + 1 \in S
    BY <1>5, <1>6
  <1> QED
    BY <1>3, <1>5, <1>7

\* A byte taken off and put back.
LEMMA Recombined ==
  ASSUME NEW a \in Nat
  PROVE  (a \div 256) * 256 + (a % 256) = a
  OBVIOUS

\* The numbers GetUint goes through when it reads bytes, from the first to the last.
Gathered(bytes, w) ==
    LET v[i \in 0..w] == IF i = 0 THEN 0 ELSE v[i - 1] * 256 + bytes[i] IN v

\* Reading the bytes of a number gives the number.
LEMMA BigEndianGathered ==
  ASSUME NEW n \in Nat, NEW w \in 1..8, Shifted(n)[w] = 0
  PROVE  Gathered(BigEndian(n, w), w)[w] = n
  <1> DEFINE b == BigEndian(n, w)
             s == Shifted(n)
             f == [i \in 0..w |-> s[w - i]]
             v == Gathered(b, w)
  <1>1. /\ s[0] = n /\ \A k \in 1..8 : s[k] = s[k - 1] \div 256
        /\ \A k \in 0..8 : s[k] \in Nat
    BY ShiftedValues
  <1>2. \A i \in 1..w : b[i] = s[w - i] % 256
    BY DEF BigEndian
  <1>a. s[w] = 0
    OBVIOUS
  <1> HIDE DEF s, b
  <1>3. ASSUME NEW i \in 1..w
        PROVE  s[w - (i - 1)] * 256 + b[i] = s[w - i]
    <2> DEFINE k == w - i
               a == s[k]
    <2>1. k \in 0..8 /\ k + 1 \in 1..8 /\ w - (i - 1) = k + 1 /\ (k + 1) - 1 = k
      OBVIOUS
    <2>2. a \in Nat
      BY <1>1, <2>1
    <2>3. s[k + 1] = s[(k + 1) - 1] \div 256
      BY <1>1, <2>1
    <2>4. b[i] = a % 256
      BY <1>2
    <2>5. s[k + 1] = a \div 256
      BY <2>1, <2>3, Zenon
    <2> HIDE DEF a, k
    <2>6. (a \div 256) * 256 + (a % 256) = a
      BY <2>2, Recombined
    <2>7. s[w - (i - 1)] = a \div 256
      BY <2>1, <2>5, Zenon
    <2> QED
      BY <2>4, <2>6, <2>7 DEF a, k
  <1>4. \A i \in 0..w : f[i] = IF i = 0 THEN 0 ELSE f[i - 1] * 256 + b[i]
    <2> SUFFICES ASSUME NEW i \in 0..w
                 PROVE  f[i] = IF i = 0 THEN 0 ELSE f[i - 1] * 256 + b[i]
      OBVIOUS
    <2>1. CASE i = 0
      BY <1>a, <2>1
    <2>2. CASE i # 0
      <3>1. i \in 1..w /\ i - 1 \in 0..w
        BY <2>2
      <3>2. f[i] = s[w - i] /\ f[i - 1] = s[w - (i - 1)]
        BY <3>1
      <3> HIDE DEF f
      <3> QED
        BY <1>3, <2>2, <3>1, <3>2, Zenon
    <2> QED
      BY <2>1, <2>2
  <1>5. f = [i \in 0..w |-> IF i = 0 THEN 0 ELSE f[i - 1] * 256 + b[i]]
    BY <1>4
  <1>6. f[w] = n
    BY <1>1
  <1> HIDE DEF f
  <1>7. \E g : g = [i \in 0..w |-> IF i = 0 THEN 0 ELSE g[i - 1] * 256 + b[i]]
    BY <1>5
  <1>8. v = [i \in 0..w |-> IF i = 0 THEN 0 ELSE v[i - 1] * 256 + b[i]]
    BY <1>7, Zenon DEF Gathered
  <1> HIDE DEF v
  <1> DEFINE S == {i \in Nat : i <= w => v[i] = f[i]}
  <1>9. 0 \in S
    BY <1>4, <1>8
  <1>10. ASSUME NEW i \in Nat, i \in S
         PROVE  i + 1 \in S
    <2> SUFFICES ASSUME i + 1 <= w PROVE v[i + 1] = f[i + 1]
      OBVIOUS
    <2>1. i + 1 \in 0..w /\ i + 1 # 0 /\ (i + 1) - 1 = i /\ i <= w
      OBVIOUS
    <2>2. v[i] = f[i]
      BY <1>10, <2>1
    <2>3. v[i + 1] = v[(i + 1) - 1] * 256 + b[i + 1]
      BY <1>8, <2>1
    <2>4. f[i + 1] = f[(i + 1) - 1] * 256 + b[i + 1]
      BY <1>4, <2>1
    <2> QED
      BY <2>1, <2>2, <2>3, <2>4
  <1> HIDE DEF S
  <1>11. Nat \subseteq S
    BY <1>9, <1>10, NatSet, Zenon
  <1>12. w \in Nat /\ w <= w
    OBVIOUS
  <1>13. v[w] = f[w]
    BY <1>11, <1>12 DEF S
  <1> QED
    BY <1>6, <1>13 DEF v, b

\* An input buffer, as far as reading depends on it.
Readable(r, w) ==
    /\ r \in [bytes : Seq(Byte), len : Nat, cursor : Nat, err : {FALSE}]
    /\ r.cursor + w <= r.len

\* A buffer with w bytes left gives them out.
LEMMA GetUsefulBufReads ==
  ASSUME NEW r, NEW w \in Nat, Readable(r, w)
  PROVE  UsefulInputBuf_GetUsefulBuf(r, w)
           = [in |-> [r EXCEPT !.cursor = @ + w],
              got |-> UsefulBufC(SubSeq(r.bytes, r.cursor + 1, r.cursor + w))]
  <1>1. ~r.err /\ r.cursor \in Nat /\ r.len \in Nat /\ r.cursor + w <= r.len
    BY DEF Readable
  <1>2. UsefulInputBuf_BytesAvailable(r, w)
    BY <1>1 DEF UsefulInputBuf_BytesAvailable, UsefulInputBuf_BytesUnconsumed
  <1> QED
    BY <1>1, <1>2, Zenon DEF UsefulInputBuf_GetUsefulBuf

\* Where the bytes of a number are next in an input buffer, it is read.
LEMMA GetUintReads ==
  ASSUME NEW n \in Nat, NEW w \in 1..8, Shifted(n)[w] = 0, NEW r, Readable(r, w),
         SubSeq(r.bytes, r.cursor + 1, r.cursor + w) = BigEndian(n, w)
  PROVE  UsefulInputBuf_GetUint(r, w) = [in |-> [r EXCEPT !.cursor = @ + w], got |-> n]
  <1> DEFINE g == UsefulInputBuf_GetUsefulBuf(r, w)
             b == BigEndian(n, w)
  <1>1. UsefulInputBuf_GetUint(r, w)
          = [in |-> g.in, got |-> IF g.got.null THEN 0 ELSE Gathered(g.got.bytes, w)[w]]
    BY DEF UsefulInputBuf_GetUint, Gathered
  <1>a. w \in Nat
    OBVIOUS
  <1>2. g = [in |-> [r EXCEPT !.cursor = @ + w], got |-> UsefulBufC(b)]
    BY <1>a, GetUsefulBufReads, Zenon
  <1>3. Gathered(b, w)[w] = n
    BY BigEndianGathered
  <1> HIDE DEF g, b
  <1>4. g.in = [r EXCEPT !.cursor = @ + w] /\ g.got = UsefulBufC(b)
    BY <1>2
  <1>5. ~g.got.null /\ g.got.bytes = b
    BY <1>4 DEF UsefulBufC
  <1> QED
    BY <1>1, <1>3, <1>4, <1>5, Zenon

-----------------------------------------------------------------------------
(* Heads *)

\* One byte taken off.
LEMMA By256 ==
  ASSUME NEW q \in Nat, NEW r \in Byte
  PROVE  (q * 256 + r) \div 256 = q /\ (q * 256 + r) % 256 = r
  <1>1. r \in Int /\ 0 <= r /\ r <= 255
    BY DEF Byte
  <1>2. (q * 256 + r) \div 256 = q
    BY <1>1, SMT
  <1>3. (q * 256 + r) % 256 = r
    BY <1>1, SMT
  <1> QED
    BY <1>2, <1>3

\* Two bytes taken off at once.
LEMMA By65536 ==
  ASSUME NEW q \in Nat, NEW r \in Int, 0 <= r, r < 65536
  PROVE  (q * 65536 + r) \div 65536 = q
  BY SMT

\* Two bytes taken off one by one.
LEMMA ByTwoBytes ==
  ASSUME NEW n \in Nat
  PROVE  (n \div 256) \div 256 = n \div 65536
  <1> DEFINE a == n \div 256
             r == n % 256
             b == a \div 256
             s == a % 256
  <1>1. a \in Nat /\ r \in Nat /\ r < 256 /\ n = a * 256 + r
    OBVIOUS
  <1>2. b \in Nat /\ s \in Nat /\ s < 256 /\ a = b * 256 + s
    OBVIOUS
  <1> HIDE DEF a, r, b, s
  <1>3. n = b * 65536 + (s * 256 + r)
    BY <1>1, <1>2
  <1>4. s * 256 + r \in Int /\ 0 <= s * 256 + r /\ s * 256 + r < 65536
    BY <1>1, <1>2
  <1>5. (b * 65536 + (s * 256 + r)) \div 65536 = b
    BY <1>2, <1>4, By65536
  <1> QED
    BY <1>3, <1>5 DEF a, b

\* What a power of 256 leaves nothing of is below it.
LEMMA DivZero ==
  \A n \in Nat : /\ (n \div 256 = 0) <=> (n < 256)
                /\ (n \div 65536 = 0) <=> (n < 65536)
  OBVIOUS

\* A width holds an argument if the shifts leave nothing of it.
LEMMA WidthHolds ==
  ASSUME NEW n \in Nat, Shifted(n)[8] = 0, NEW w \in {1, 2, 4, 8}
  PROVE  (Shifted(n)[w] = 0) <=> FitsBytes(n, w)
  <1> DEFINE s == Shifted(n)
  <1>1. /\ s[0] = n /\ \A k \in 1..8 : s[k] = s[k - 1] \div 256
        /\ \A k \in 0..8 : s[k] \in Nat
    BY ShiftedValues
  <1>2. s[8] = 0
    OBVIOUS
  <1> HIDE DEF s
  <1>3. s[1] = n \div 256
    BY <1>1
  <1>4. ASSUME NEW k \in 0..6
        PROVE  s[k + 2] = s[k] \div 65536
    <2>1. k + 1 \in 1..8 /\ k + 2 \in 1..8 /\ k \in 0..8
      OBVIOUS
    <2>2. s[k] \in Nat
      BY <1>1, <2>1
    <2>3. (k + 1) - 1 = k /\ (k + 2) - 1 = k + 1
      OBVIOUS
    <2>4. s[k + 1] = s[k] \div 256 /\ s[k + 2] = s[k + 1] \div 256
      BY <1>1, <2>1, <2>3
    <2> QED
      BY <2>2, <2>4, ByTwoBytes
  <1>5. s[2] = n \div 65536 /\ s[4] = s[2] \div 65536 /\ s[2] \in Nat
    <2>1. 0 \in 0..6 /\ 2 \in 0..6 /\ 0 + 2 = 2 /\ 2 + 2 = 4 /\ 2 \in 0..8
      OBVIOUS
    <2> QED
      BY <1>1, <1>4, <2>1
  <1>6. (s[1] = 0) <=> (n < 256)
    BY <1>3, DivZero
  <1>7. (s[2] = 0) <=> (n < 65536)
    BY <1>5, DivZero
  <1>8. (s[4] = 0) <=> (n \div 65536 < 65536)
    BY <1>5, DivZero
  <1>9. CASE w = 1
    BY <1>6, <1>9 DEF FitsBytes, s
  <1>10. CASE w = 2
    BY <1>7, <1>10 DEF FitsBytes, s
  <1>11. CASE w = 4
    BY <1>8, <1>11 DEF FitsBytes, s
  <1>12. CASE w = 8
    BY <1>2, <1>12 DEF FitsBytes, s
  <1> QED
    BY <1>9, <1>10, <1>11, <1>12

\* The width a head is written with holds the argument, is not below the minimum, and is
\* the first such.
LEMMA WidthIndexFacts ==
  ASSUME NEW n \in Nat, Shifted(n)[8] = 0, NEW min \in {0, 1, 2, 4, 8}
  PROVE  LET i == WidthIndex(min, n) IN
           /\ i \in 1..4 /\ min <= HeadWidths[i] /\ Shifted(n)[HeadWidths[i]] = 0
           /\ \A j \in 1..4 : min <= HeadWidths[j] /\ Shifted(n)[HeadWidths[j]] = 0 => i <= j
  <1> DEFINE S == {i \in 1..4 : min <= HeadWidths[i] /\ Shifted(n)[HeadWidths[i]] = 0}
             i == WidthIndex(min, n)
  <1>1. 4 \in S
    BY DEF HeadWidths
  <1>2. S \in SUBSET Nat
    OBVIOUS
  <1>3. i = Min(S)
    BY DEF WidthIndex
  <1> HIDE DEF i
  <1>4. i \in S /\ \A j \in S : i <= j
    <2> HIDE DEF S
    <2> QED
      BY <1>1, <1>2, <1>3, LeastNat
  <1> QED
    BY <1>4 DEF i

\* The length of a head: as many bytes behind the first as the least width that holds the
\* argument and is not below the minimum.
LEMMA HeadWidthLeast ==
  ASSUME NEW n \in Nat, Shifted(n)[8] = 0, NEW min \in {0, 1, 2, 4, 8}
  PROVE  LET fits == {w \in {0, 1, 2, 4, 8} : w >= min /\ FitsBytes(n, w)} IN
           Min(fits) = IF n < 24 /\ min = 0 THEN 0 ELSE HeadWidths[WidthIndex(min, n)]
  <1> DEFINE fits == {w \in {0, 1, 2, 4, 8} : w >= min /\ FitsBytes(n, w)}
             i == WidthIndex(min, n)
             m == IF n < 24 /\ min = 0 THEN 0 ELSE HeadWidths[i]
  <1>1. /\ i \in 1..4 /\ min <= HeadWidths[i] /\ Shifted(n)[HeadWidths[i]] = 0
        /\ \A j \in 1..4 : min <= HeadWidths[j] /\ Shifted(n)[HeadWidths[j]] = 0 => i <= j
    BY WidthIndexFacts
  <1> HIDE DEF i
  <1>2. \A j \in 1..4 : HeadWidths[j] \in {1, 2, 4, 8}
    BY DEF HeadWidths
  <1>3. \A w \in {1, 2, 4, 8} : \E j \in 1..4 : w = HeadWidths[j]
    BY DEF HeadWidths
  <1>4. \A j, k \in 1..4 : j <= k => HeadWidths[j] <= HeadWidths[k]
    BY DEF HeadWidths
  <1>5. \A w \in {1, 2, 4, 8} : (Shifted(n)[w] = 0) <=> FitsBytes(n, w)
    BY WidthHolds
  <1>6. (n < 24) <=> FitsBytes(n, 0)
    BY DEF FitsBytes
  <1>7. fits \in SUBSET Nat
    OBVIOUS
  <1>8. m \in fits
    <2>1. CASE n < 24 /\ min = 0
      BY <1>6, <2>1
    <2>2. CASE ~(n < 24 /\ min = 0)
      <3>1. m = HeadWidths[i] /\ HeadWidths[i] \in {1, 2, 4, 8}
        BY <1>1, <1>2, <2>2
      <3>2. FitsBytes(n, HeadWidths[i])
        BY <1>1, <1>5, <3>1
      <3> QED
        BY <1>1, <3>1, <3>2
    <2> QED
      BY <2>1, <2>2
  <1>9. ASSUME NEW w \in fits
        PROVE  m <= w
    <2>1. CASE n < 24 /\ min = 0
      BY <2>1
    <2>2. CASE ~(n < 24 /\ min = 0) /\ w = 0
      BY <1>6, <2>2
    <2>3. CASE ~(n < 24 /\ min = 0) /\ w # 0
      <3>1. w \in {1, 2, 4, 8} /\ min <= w /\ FitsBytes(n, w)
        BY <2>3
      <3>2. PICK j \in 1..4 : w = HeadWidths[j]
        BY <1>3, <3>1
      <3>3. i <= j
        BY <1>1, <1>5, <3>1, <3>2
      <3>4. m = HeadWidths[i]
        BY <2>3
      <3> HIDE DEF m
      <3> QED
        BY <1>1, <1>4, <3>2, <3>3, <3>4
    <2> QED
      BY <2>1, <2>2, <2>3
  <1> HIDE DEF fits, m
  <1>10. Min(fits) = m
    BY <1>7, <1>8, <1>9, LeastIs
  <1> QED
    BY <1>10 DEF fits, m, i

\* The state of an input buffer over some bytes.
At(bytes, n) == [bytes |-> bytes, len |-> Len(bytes), cursor |-> n, err |-> FALSE]

\* Moving the cursor of an input buffer.
LEMMA CursorMoves ==
  ASSUME NEW b, NEW l, NEW n, NEW e, NEW m
  PROVE  [[bytes |-> b, len |-> l, cursor |-> n, err |-> e] EXCEPT !.cursor = m]
           = [bytes |-> b, len |-> l, cursor |-> m, err |-> e]
  OBVIOUS

\* Reading moves it behind what is read.
LEMMA AtMoves ==
  ASSUME NEW bytes, NEW n \in Nat, NEW w \in Nat, NEW m, m = n + w
  PROVE  /\ [At(bytes, n) EXCEPT !.cursor = @ + w] = At(bytes, m)
         /\ At(bytes, n).bytes = bytes /\ At(bytes, n).cursor = n
  <1> DEFINE r == At(bytes, n)
  <1>1. r.bytes = bytes /\ r.cursor = n
    BY DEF At
  <1>2. [r EXCEPT !.cursor = m] = At(bytes, m)
    <2> DEFINE l == Len(bytes)
               e == FALSE
    <2>1. r = [bytes |-> bytes, len |-> l, cursor |-> n, err |-> e]
      BY DEF At
    <2>2. At(bytes, m) = [bytes |-> bytes, len |-> l, cursor |-> m, err |-> e]
      BY DEF At
    <2> HIDE DEF r, l, e
    <2>3. [[bytes |-> bytes, len |-> l, cursor |-> n, err |-> e] EXCEPT !.cursor = m]
            = [bytes |-> bytes, len |-> l, cursor |-> m, err |-> e]
      BY CursorMoves
    <2> QED
      BY <2>1, <2>2, <2>3
  <1> HIDE DEF r
  <1>3. r.cursor + w = m
    BY <1>1
  <1> QED
    BY <1>1, <1>2, <1>3, Zenon DEF r

\* A byte is a number of one byte.
LEMMA OneByte ==
  ASSUME NEW b \in Byte
  PROVE  BigEndian(b, 1) = <<b>> /\ Shifted(b)[1] = 0 /\ b \in Nat
  <1>1. b \in Nat /\ b % 256 = b /\ b \div 256 = 0
    BY DEF Byte
  <1>2. Shifted(b)[0] = b /\ Shifted(b)[1] = Shifted(b)[1 - 1] \div 256
    BY <1>1, ShiftedValues
  <1>3. BigEndian(b, 1) = [i \in 1..1 |-> b]
    <2>1. \A i \in 1..1 : 1 - i = 0
      OBVIOUS
    <2>2. \A i \in 1..1 : Shifted(b)[1 - i] % 256 = b
      BY <1>1, <1>2, <2>1
    <2> QED
      BY <2>2 DEF BigEndian
  <1>4. [i \in 1..1 |-> b] = <<b>>
    OBVIOUS
  <1> QED
    BY <1>1, <1>2, <1>3, <1>4

\* The first byte of a buffer is read as it is.
LEMMA FirstByte ==
  ASSUME NEW out \in Seq(Byte), Len(out) >= 1
  PROVE  UsefulInputBuf_GetUint(At(out, 0), 1) = [in |-> At(out, 1), got |-> out[1]]
  <1> DEFINE r == At(out, 0)
             b == out[1]
  <1>1. Len(out) \in Nat
    BY LenProperties
  <1>2. b \in Byte
    BY <1>1, ElementOfSeq
  <1>3. Readable(r, 1)
    BY <1>1 DEF Readable, At
  <1>4. SubSeq(out, 1, 1) = <<b>>
    <2>1. \A i \in 1..1 : out[i] \in Byte
      BY <1>2
    <2> DEFINE t == SubSeq(out, 1, 1)
               z == <<b>>
    <2>2. t \in Seq(Byte) /\ Len(t) = 1 /\ \A i \in 1..1 : t[i] = out[1 + i - 1]
      BY <2>1, SubSeqProperties
    <2>3. z \in Seq(Byte) /\ Len(z) = 1 /\ z[1] = out[1]
      BY <1>2
    <2> HIDE DEF t, z
    <2>4. \A i \in 1..1 : t[i] = z[i]
      BY <2>2, <2>3
    <2>5. t = z
      BY <2>2, <2>3, <2>4, SeqEqual
    <2> QED
      BY <2>5 DEF t, z
  <1>5. r.bytes = out /\ r.cursor = 0 /\ [r EXCEPT !.cursor = @ + 1] = At(out, 1)
    <2>1. 0 \in Nat /\ 1 \in Nat /\ 0 + 1 = 1
      OBVIOUS
    <2> QED
      BY <2>1, AtMoves
  <1>6. SubSeq(r.bytes, r.cursor + 1, r.cursor + 1) = BigEndian(b, 1)
    <2>1. BigEndian(b, 1) = <<b>>
      BY <1>2, OneByte
    <2> HIDE DEF r, b
    <2>2. r.cursor + 1 = 1
      BY <1>5
    <2> QED
      BY <1>4, <1>5, <2>1, <2>2, Zenon
  <1> HIDE DEF r, b
  <1>7. 1 \in 1..8
    OBVIOUS
  <1>8. UsefulInputBuf_GetUint(r, 1) = [in |-> [r EXCEPT !.cursor = @ + 1], got |-> b]
    BY <1>2, <1>3, <1>6, <1>7, OneByte, GetUintReads
  <1> QED
    BY <1>5, <1>8 DEF r, b

\* A byte stands in front of what follows it.
LEMMA OneInFront ==
  ASSUME NEW out \in Seq(Byte), NEW c, Len(out) = 1, out[1] = c, NEW rest \in Seq(Byte)
  PROVE  out \o rest \in Seq(Byte) /\ Len(out \o rest) >= 1 /\ (out \o rest)[1] = c
  <1> DEFINE one == 1
             k   == Len(rest)
             all == out \o rest
  <1>1. k \in Nat
    BY LenProperties
  <1>2. Len(out) = one /\ Len(rest) = k
    OBVIOUS
  <1> HIDE DEF one, k
  <1>3. /\ all \in Seq(Byte) /\ Len(all) = one + k
        /\ \A i \in 1..(one + k) : all[i] = IF i <= one THEN out[i] ELSE rest[i - one]
    BY <1>2, Joined
  <1> HIDE DEF all
  <1>4. Len(all) >= 1 /\ 1 \in 1..(one + k) /\ 1 <= one
    BY <1>1, <1>3 DEF one
  <1>5. all[1] = out[1]
    BY <1>3, <1>4
  <1> QED
    BY <1>3, <1>4, <1>5 DEF all

\* Behind one byte, n is read from w bytes.
IsBehind(n, w, c, out, all) ==
    /\ out \in Seq(Byte) /\ Len(out) = 1 + w
    /\ all \in Seq(Byte) /\ Len(all) >= 1 /\ all[1] = c
    /\ UsefulInputBuf_GetUint(At(all, 1), w) = [in |-> At(all, 1 + w), got |-> n]

\* The bytes of a number behind one byte are read as the number, whatever follows them.
LEMMA NumberBehind ==
  ASSUME NEW c \in Byte, NEW n \in Nat, NEW w \in {1, 2, 4, 8}, Shifted(n)[w] = 0,
         NEW rest \in Seq(Byte)
  PROVE  IsBehind(n, w, c, <<c>> \o BigEndian(n, w), (<<c>> \o BigEndian(n, w)) \o rest)
  <1> DEFINE be  == BigEndian(n, w)
             z   == <<c>>
             out == z \o be
             all == out \o rest
             r   == At(all, 1)
             t   == SubSeq(all, 1 + 1, 1 + w)
             k   == Len(rest)
  <1>1. w \in 1..8 /\ w \in Nat /\ k \in Nat
    BY LenProperties
  <1>2. be \in Seq(Byte) /\ Len(be) = w
    <2>1. be \in Seq(Byte)
      BY BigEndianType
    <2>2. DOMAIN be = 1..w
      BY DEF BigEndian
    <2> HIDE DEF be
    <2> QED
      BY <1>1, <2>1, <2>2, LenProperties
  <1>3. z \in Seq(Byte) /\ Len(z) = 1 /\ z[1] = c
    OBVIOUS
  <1> HIDE DEF be, z, k
  <1>4. /\ out \in Seq(Byte) /\ Len(out) = 1 + w
        /\ \A i \in 1..(1 + w) : out[i] = IF i <= 1 THEN z[i] ELSE be[i - 1]
    <2> DEFINE one == 1
    <2>1. Len(z) = one
      BY <1>3
    <2>3. z \in Seq(Byte) /\ be \in Seq(Byte) /\ Len(be) = w
      BY <1>2, <1>3
    <2> HIDE DEF one
    <2>2. /\ out \in Seq(Byte) /\ Len(out) = one + w
          /\ \A i \in 1..(one + w) : out[i] = IF i <= one THEN z[i] ELSE be[i - one]
      BY <2>1, <2>3, Joined
    <2> QED
      BY <2>2 DEF one
  <1> HIDE DEF out
  <1>5. /\ all \in Seq(Byte) /\ Len(all) = (1 + w) + k
        /\ \A i \in 1..((1 + w) + k) : all[i] = IF i <= 1 + w THEN out[i] ELSE rest[i - (1 + w)]
    <2> DEFINE l == 1 + w
    <2>1. Len(out) = l /\ Len(rest) = k
      BY <1>4 DEF k
    <2>3. out \in Seq(Byte)
      BY <1>4
    <2> HIDE DEF l
    <2>2. /\ all \in Seq(Byte) /\ Len(all) = l + k
          /\ \A i \in 1..(l + k) : all[i] = IF i <= l THEN out[i] ELSE rest[i - l]
      BY <2>1, <2>3, Joined
    <2> QED
      BY <2>2 DEF l
  <1> HIDE DEF all
  <1>6. all[1] = c /\ Len(all) >= 1
    <2>1. 1 \in 1..((1 + w) + k) /\ 1 \in 1..(1 + w) /\ 1 <= 1 + w
      BY <1>1
    <2>2. all[1] = z[1]
      BY <1>4, <1>5, <2>1
    <2> QED
      BY <1>1, <1>3, <1>5, <2>2
  <1>7. \A i \in 1..w : all[1 + i] = be[i]
    <2> SUFFICES ASSUME NEW i \in 1..w PROVE all[1 + i] = be[i]
      OBVIOUS
    <2> DEFINE j == 1 + i
    <2>1. j \in 1..((1 + w) + k) /\ j \in 1..(1 + w) /\ j <= 1 + w /\ ~(j <= 1) /\ j - 1 = i
      BY <1>1
    <2> HIDE DEF j
    <2>2. all[j] = be[i]
      BY <1>4, <1>5, <2>1, Zenon
    <2> QED
      BY <2>2 DEF j
  <1>8. t = be
    <2>1. 1 \in Nat /\ 1 + w <= Len(all)
      BY <1>1, <1>5
    <2> QED
      BY <1>1, <1>2, <1>5, <1>7, <2>1, StretchIs
  <1>9. Readable(r, w) /\ r.bytes = all /\ r.cursor = 1
    BY <1>1, <1>5 DEF Readable, At
  <1>10. [r EXCEPT !.cursor = @ + w] = At(all, 1 + w)
    BY <1>1, AtMoves
  <1>11. SubSeq(r.bytes, r.cursor + 1, r.cursor + w) = BigEndian(n, w)
    BY <1>8, <1>9, Zenon DEF be, t
  <1> HIDE DEF r
  <1>12. UsefulInputBuf_GetUint(r, w) = [in |-> [r EXCEPT !.cursor = @ + w], got |-> n]
    BY <1>1, <1>9, <1>11, GetUintReads
  <1> QED
    BY <1>4, <1>5, <1>6, <1>10, <1>12, Zenon DEF IsBehind, r, all, out, z, be

\* A byte holds a type and what follows it.
IsInitial(c, t, a) == c % 256 = c /\ c \in Byte /\ c \div 32 = t /\ c % 32 = a

\* Type and additional information are the two parts of the initial byte.
LEMMA InitialByte ==
  ASSUME NEW t \in 0..7, NEW a \in 0..31, NEW c, c = t * 32 + a
  PROVE  IsInitial(c, t, a)
  BY DEF Byte, IsInitial

\* At the start of some bytes a head is read, and it is as long as it says.
IsRead(type, n, min, out, all) ==
    LET h == ReadHead(At(all, 0)) IN
      /\ out \in Seq(Byte) /\ Len(out) >= 1 /\ all \in Seq(Byte)
      /\ h.in = At(all, Len(out)) /\ h.type = type /\ h.arg = n
      /\ h.info < 28 /\ (h.info = 24 => min >= 1 \/ n >= 24)
      /\ Len(out) = 1 + IF n < 24 /\ min = 0 THEN 0 ELSE HeadWidths[WidthIndex(min, n)]

\* A head reads back as its type and argument, to its end, whatever follows, and has the
\* bytes its width says.
LEMMA HeadReads ==
  ASSUME NEW type \in 0..7, NEW n \in Nat, IsUint64(n), NEW min \in {0, 1, 2, 4, 8},
         NEW rest \in Seq(Byte)
  PROVE  LET out == QCBOREncode_EncodeHead(type, min, n)
         IN  IsRead(type, n, min, out, out \o rest)
  <1> DEFINE out == QCBOREncode_EncodeHead(type, min, n)
             all == out \o rest
             r == At(all, 0)
             first == UsefulInputBuf_GetUint(r, 1)
             info == first.got % 32
             arg == IF info \in 24..27
                    THEN UsefulInputBuf_GetUint(first.in, <<1, 2, 4, 8>>[info - 23])
                    ELSE [in |-> first.in, got |-> info]
             h == ReadHead(r)
  <1>1. h = [in |-> arg.in, type |-> first.got \div 32, info |-> info, arg |-> arg.got]
    BY DEF ReadHead
  <1>2. ~(type > INDEFINITE_LEN_TYPE_MODIFIER)
    BY DEF INDEFINITE_LEN_TYPE_MODIFIER
  <1> HIDE DEF h
  <1>3. CASE n < 24 /\ min = 0
    <2> DEFINE c == type * 32 + n
    <2>1. n \in 0..31 /\ c = type * 32 + n
      BY <1>3
    <2>3. out = <<c % 256>>
      BY <1>2, <1>3 DEF QCBOREncode_EncodeHead
    <2> HIDE DEF c, out
    <2>2. c % 256 = c /\ c \in Byte /\ c \div 32 = type /\ c % 32 = n
      <3>1. IsInitial(c, type, n)
        BY <2>1, InitialByte
      <3> QED
        BY <3>1 DEF IsInitial
    <2>4. out = <<c>>
      BY <2>2, <2>3, Zenon
    <2>5. out \in Seq(Byte) /\ Len(out) = 1 /\ out[1] = c
      BY <2>2, <2>4
    <2>6. all \in Seq(Byte) /\ Len(all) >= 1 /\ all[1] = c
      BY <2>5, OneInFront
    <2> HIDE DEF all
    <2>7. first = [in |-> At(all, 1), got |-> c]
      BY <2>6, FirstByte
    <2> HIDE DEF first
    <2>8. first.in = At(all, 1) /\ first.got = c /\ info = n
      BY <2>2, <2>7
    <2>9. ~(info \in 24..27)
      BY <1>3, <2>8
    <2> HIDE DEF info
    <2>10. arg.in = At(all, 1) /\ arg.got = n
      BY <2>8, <2>9
    <2> HIDE DEF arg
    <2>11. h.in = At(all, 1) /\ h.type = type /\ h.arg = n /\ h.info = n
      BY <1>1, <2>2, <2>8, <2>10
    <2>12. Len(out) = 1 + 0 /\ Len(out) >= 1
      BY <2>5
    <2>13. h.info < 28 /\ h.info # 24
      BY <1>3, <2>11
    <2> QED
      BY <1>3, <2>5, <2>6, <2>11, <2>12, <2>13, Zenon DEF IsRead, h, r, all, out
  <1>4. CASE ~(n < 24 /\ min = 0)
    <2> DEFINE i == WidthIndex(min, n)
               w == HeadWidths[i]
               a == 23 + i
               c == type * 32 + a
    <2>1. i \in 1..4 /\ Shifted(n)[w] = 0
      BY WidthIndexFacts DEF IsUint64
    <2>2. out = <<(type * 32 + 23 + i) % 256>> \o BigEndian(n, w)
      BY <1>2, <1>4 DEF QCBOREncode_EncodeHead
    <2> HIDE DEF i
    <2>3. w \in {1, 2, 4, 8} /\ w = <<1, 2, 4, 8>>[i]
      BY <2>1 DEF HeadWidths
    <2> HIDE DEF w, out
    <2>4. a \in 0..31 /\ a \in 24..27 /\ a - 23 = i /\ a < 28 /\ c = type * 32 + a
      BY <2>1
    <2>6. type * 32 + 23 + i = c
      BY <2>1
    <2> HIDE DEF a, c
    <2>5. c % 256 = c /\ c \in Byte /\ c \div 32 = type /\ c % 32 = a
      <3>1. IsInitial(c, type, a)
        BY <2>4, InitialByte
      <3> QED
        BY <3>1 DEF IsInitial
    <2>7. out = <<c>> \o BigEndian(n, w)
      BY <2>2, <2>5, <2>6, Zenon
    <2>8. /\ out \in Seq(Byte) /\ Len(out) = 1 + w
          /\ all \in Seq(Byte) /\ Len(all) >= 1 /\ all[1] = c
          /\ UsefulInputBuf_GetUint(At(all, 1), w) = [in |-> At(all, 1 + w), got |-> n]
      <3>1. Shifted(n)[w] = 0 /\ c \in Byte
        BY <2>1, <2>5 DEF w
      <3>2. IsBehind(n, w, c, <<c>> \o BigEndian(n, w), (<<c>> \o BigEndian(n, w)) \o rest)
        BY <2>3, <3>1, NumberBehind, Zenon
      <3>3. IsBehind(n, w, c, out, all)
        BY <2>7, <3>2, Zenon
      <3> QED
        BY <3>3, Zenon DEF IsBehind
    <2> HIDE DEF all
    <2>9. Len(out) >= 1
      BY <2>3, <2>8
    <2>10. first = [in |-> At(all, 1), got |-> c]
      BY <2>8, FirstByte
    <2> HIDE DEF first
    <2>11. first.in = At(all, 1) /\ first.got = c /\ info = a
      BY <2>5, <2>10
    <2> HIDE DEF info
    <2>12. arg = UsefulInputBuf_GetUint(At(all, 1), w)
      BY <2>3, <2>4, <2>11, Zenon
    <2> HIDE DEF arg
    <2>13. arg.in = At(all, 1 + w) /\ arg.got = n
      BY <2>8, <2>12
    <2>14. h.in = At(all, 1 + w) /\ h.type = type /\ h.arg = n /\ h.info = a
      BY <1>1, <2>5, <2>11, <2>13
    <2>15. h.info < 28
      BY <2>4, <2>14
    <2>16. min >= 1 \/ n >= 24
      BY <1>4
    <2> QED
      BY <1>4, <2>8, <2>9, <2>14, <2>15, <2>16, Zenon DEF IsRead, h, r, all, out, w, i
  <1> QED
    BY <1>3, <1>4

-----------------------------------------------------------------------------
(* Numbers of 64 bits, and the heads made of them *)

\* Taking a byte off keeps the order.
LEMMA DivBy256 ==
  ASSUME NEW a \in Nat, NEW b \in Nat, a <= b
  PROVE  a \div 256 \in Nat /\ a \div 256 <= b \div 256
  OBVIOUS

\* What is below a number of 64 bits has 64 bits.
LEMMA Uint64Below ==
  ASSUME NEW m \in Nat, NEW n \in Nat, n <= m, IsUint64(m)
  PROVE  IsUint64(n)
  <1> DEFINE f == Shifted(n)
             g == Shifted(m)
  <1>1. /\ f[0] = n /\ \A k \in 1..8 : f[k] = f[k - 1] \div 256
        /\ \A k \in 0..8 : f[k] \in Nat
    BY ShiftedValues
  <1>2. /\ g[0] = m /\ \A k \in 1..8 : g[k] = g[k - 1] \div 256
        /\ \A k \in 0..8 : g[k] \in Nat
    BY ShiftedValues
  <1>3. g[8] = 0
    BY DEF IsUint64
  <1> HIDE DEF f, g
  <1>4. ASSUME NEW k \in 1..8, f[k - 1] <= g[k - 1]
        PROVE  f[k] <= g[k]
    <2>1. k - 1 \in 0..8
      OBVIOUS
    <2>2. f[k - 1] \in Nat /\ g[k - 1] \in Nat
      BY <1>1, <1>2, <2>1
    <2> QED
      BY <1>1, <1>2, <1>4, <2>2, DivBy256
  <1>5. f[0] <= g[0]
    BY <1>1, <1>2
  <1>6. f[1] <= g[1]
    BY <1>4, <1>5
  <1>7. f[2] <= g[2]
    BY <1>4, <1>6
  <1>8. f[3] <= g[3]
    BY <1>4, <1>7
  <1>9. f[4] <= g[4]
    BY <1>4, <1>8
  <1>10. f[5] <= g[5]
    BY <1>4, <1>9
  <1>11. f[6] <= g[6]
    BY <1>4, <1>10
  <1>12. f[7] <= g[7]
    BY <1>4, <1>11
  <1>13. f[8] <= g[8]
    BY <1>4, <1>12
  <1> QED
    BY <1>1, <1>3, <1>13 DEF f, IsUint64

\* A number that two shifts leave nothing of.
LEMMA ShortUint64 ==
  ASSUME NEW n \in Nat, (n \div 256) \div 256 = 0
  PROVE  IsUint64(n)
  <1> DEFINE g == Shifted(n)
  <1>1. /\ g[0] = n /\ \A k \in 1..8 : g[k] = g[k - 1] \div 256
        /\ \A k \in 0..8 : g[k] \in Nat
    BY ShiftedValues
  <1> HIDE DEF g
  <1>2. g[1] = n \div 256
    BY <1>1
  <1>3. g[2] = 0
    <2>1. g[2] = g[1] \div 256
      BY <1>1
    <2> QED
      BY <1>2, <2>1, Zenon
  <1>4. ASSUME NEW k \in 1..8, g[k - 1] = 0
        PROVE  g[k] = 0
    <2>1. g[k] = g[k - 1] \div 256
      BY <1>1
    <2>2. 0 \div 256 = 0
      OBVIOUS
    <2> QED
      BY <1>4, <2>1, <2>2, Zenon
  <1>5. g[3] = 0
    BY <1>3, <1>4
  <1>6. g[4] = 0
    BY <1>4, <1>5
  <1>7. g[5] = 0
    BY <1>4, <1>6
  <1>8. g[6] = 0
    BY <1>4, <1>7
  <1>9. g[7] = 0
    BY <1>4, <1>8
  <1>10. g[8] = 0
    BY <1>4, <1>9
  <1> QED
    BY <1>10 DEF g, IsUint64

\* The tags, labels and simple values of the interface are small.
Small == {n \in Nat : n < 65536}

\* They fit a head.
LEMMA SmallUint64 ==
  ASSUME NEW n \in Small
  PROVE  n \in Nat /\ IsUint64(n)
  <1>1. n \in Nat /\ n < 65536
    BY DEF Small
  <1>2. \A a \in 0..255 : a \div 256 = 0
    OBVIOUS
  <1>3. \A a \in Nat : a < 65536 => a \div 256 \in 0..255
    OBVIOUS
  <1>4. n \div 256 \in 0..255
    BY <1>1, <1>3
  <1>5. (n \div 256) \div 256 = 0
    BY <1>2, <1>4, Zenon
  <1> QED
    BY <1>1, <1>5, ShortUint64

\* The least of a nonempty set of widths is one of them.
LEMMA WidthIndexType ==
  ASSUME NEW n \in Nat, IsUint64(n)
  PROVE  WidthIndex(0, n) \in 1..4
  <1> DEFINE S == {i \in 1..4 : 0 <= HeadWidths[i] /\ Shifted(n)[HeadWidths[i]] = 0}
  <1>1. 4 \in S
    BY DEF HeadWidths, IsUint64
  <1>2. S \subseteq 1..4
    OBVIOUS
  <1> HIDE DEF S
  <1>3. \E i \in S : \A j \in S : i <= j
    <2>1. CASE 1 \in S
      BY <1>2, <2>1
    <2>2. CASE 1 \notin S /\ 2 \in S
      BY <1>2, <2>2
    <2>3. CASE 1 \notin S /\ 2 \notin S /\ 3 \in S
      BY <1>2, <2>3
    <2>4. CASE 1 \notin S /\ 2 \notin S /\ 3 \notin S
      BY <1>1, <1>2, <2>4
    <2> QED
      BY <2>1, <2>2, <2>3, <2>4
  <1>4. Min(S) \in S
    BY <1>3 DEF Min
  <1> QED
    BY <1>2, <1>4 DEF WidthIndex, S

\* The head of an item is made of bytes.
LEMMA HeadType ==
  ASSUME NEW type \in Nat, NEW n \in Nat, IsUint64(n)
  PROVE  QCBOREncode_EncodeHead(type, 0, n) \in Seq(Byte)
  <1>1. \A a \in Int : <<a % 256>> \in Seq(Byte)
    <2>1. \A a \in Int : a % 256 \in Byte
      BY DEF Byte
    <2> QED
      BY <2>1
  <1>2. CASE type > INDEFINITE_LEN_TYPE_MODIFIER
    BY <1>1, <1>2 DEF QCBOREncode_EncodeHead, INDEFINITE_LEN_TYPE_MODIFIER
  <1>3. CASE ~(type > INDEFINITE_LEN_TYPE_MODIFIER) /\ n < 24
    BY <1>1, <1>3 DEF QCBOREncode_EncodeHead
  <1>4. CASE ~(type > INDEFINITE_LEN_TYPE_MODIFIER) /\ ~(n < 24)
    <2> DEFINE i == WidthIndex(0, n)
    <2>1. i \in 1..4 /\ HeadWidths[i] \in {1, 2, 4, 8}
      BY WidthIndexType DEF HeadWidths
    <2> HIDE DEF i
    <2>2. BigEndian(n, HeadWidths[i]) \in Seq(Byte)
      BY <2>1, BigEndianType
    <2>3. <<(type * 32 + 23 + i) % 256>> \in Seq(Byte)
      BY <1>1, <2>1
    <2>4. QCBOREncode_EncodeHead(type, 0, n)
            = <<(type * 32 + 23 + i) % 256>> \o BigEndian(n, HeadWidths[i])
      BY <1>4 DEF QCBOREncode_EncodeHead, i
    <2> HIDE DEF i
    <2>5. <<(type * 32 + 23 + i) % 256>> \o BigEndian(n, HeadWidths[i]) \in Seq(Byte)
      BY <2>2, <2>3, ConcatProperties, Zenon
    <2> QED
      BY <2>4, <2>5
  <1> QED
    BY <1>2, <1>3, <1>4

-----------------------------------------------------------------------------
(* Contexts *)

OutBufs == [null : BOOLEAN, cap : Nat, data : Seq(Byte), err : BOOLEAN]
Levels == [type : Nat, count : 0..(CountRange - 1), start : Nat]
Contexts == [out : OutBufs, uError : Errors, nesting : Seq(Levels), failed : BOOLEAN]

Ordered(nest) == \A i, j \in 1..Len(nest) : i <= j => nest[i].start <= nest[j].start

Within(nest, n) == \A i \in 1..Len(nest) : nest[i].start <= n

\* What every function keeps of a context.
Good(c) ==
    /\ c \in Contexts
    /\ Len(c.out.data) <= c.out.cap /\ IsUint64(c.out.cap)
    /\ Len(c.nesting) \in 1..(MAX_ARRAY_NESTING + 1)
    /\ Within(c.nesting, Len(c.out.data))
    /\ Ordered(c.nesting)

\* A function may write and set the error of the output, it never takes either back.
Grows(c, d) ==
    /\ Good(d) /\ d.out.cap = c.out.cap
    /\ Len(c.out.data) <= Len(d.out.data)
    /\ c.out.err => d.out.err

\* Transitivity, for lengths.
LEMMA LeqTransitive ==
  \A i, j, n \in Nat : (i <= j /\ j <= n => i <= n) /\ (i > n /\ i <= j => j > n)
  OBVIOUS

\* Writing to an output buffer keeps it inside its size.
LEMMA InsertFacts ==
  ASSUME NEW o \in OutBufs, Len(o.data) <= o.cap, NEW new \in Seq(Byte), NEW pos \in 0..Len(o.data)
  PROVE  LET p == UsefulOutBuf_InsertUsefulBuf(o, new, pos)
         IN  /\ p \in OutBufs /\ p.cap = o.cap /\ Len(p.data) <= p.cap
             /\ Len(o.data) <= Len(p.data) /\ (o.err => p.err)
             /\ ~o.err => (p.err <=> Len(o.data) + Len(new) > o.cap)
             /\ ~p.err => p.data = Spliced(o.data, new, pos)
  <1>1. Len(o.data) \in Nat /\ Len(new) \in Nat /\ o.cap \in Nat /\ o.data \in Seq(Byte)
    BY LenProperties DEF OutBufs
  <1> DEFINE p == UsefulOutBuf_InsertUsefulBuf(o, new, pos)
  <1>2. CASE o.err
    BY <1>1, <1>2 DEF UsefulOutBuf_InsertUsefulBuf
  <1>3. CASE ~o.err /\ Len(o.data) + Len(new) > o.cap
    <2>1. p = [o EXCEPT !.err = TRUE]
      BY <1>1, <1>3 DEF UsefulOutBuf_InsertUsefulBuf, UsefulOutBuf_WillItFit, UsefulOutBuf_RoomLeft
    <2> HIDE DEF p
    <2>2. p \in OutBufs /\ p.cap = o.cap /\ p.data = o.data /\ p.err = TRUE
      BY <2>1 DEF OutBufs
    <2> QED
      BY <1>1, <1>3, <2>2 DEF p
  <1>4. CASE ~o.err /\ ~(Len(o.data) + Len(new) > o.cap)
    <2> DEFINE data == Spliced(o.data, new, pos)
    <2>1. p = [o EXCEPT !.data = data]
      BY <1>1, <1>4
         DEF UsefulOutBuf_InsertUsefulBuf, UsefulOutBuf_WillItFit, UsefulOutBuf_RoomLeft, Spliced
    <2>2. data \in Seq(Byte) /\ Len(data) = Len(o.data) + Len(new)
      BY <1>1, SplicedType
    <2> HIDE DEF p, data
    <2>3. p \in OutBufs /\ p.cap = o.cap /\ p.data = data /\ p.err = o.err
      BY <2>1, <2>2 DEF OutBufs
    <2>4. Len(p.data) <= p.cap /\ Len(o.data) <= Len(p.data)
      BY <1>1, <1>4, <2>2, <2>3
    <2> QED
      BY <1>4, <2>3, <2>4 DEF p, data
  <1> QED
    BY <1>2, <1>3, <1>4

Write(c, new, pos) == [c EXCEPT !.out = UsefulOutBuf_InsertUsefulBuf(@, new, pos)]

\* The parts of a good context, and the level it is in.
LEMMA GoodFields ==
  ASSUME NEW c, Good(c)
  PROVE  /\ c.out \in OutBufs /\ c.out.data \in Seq(Byte) /\ c.out.cap \in Nat
         /\ Len(c.out.data) \in Nat /\ Len(c.out.data) <= c.out.cap
         /\ c.uError \in Errors /\ c.nesting \in Seq(Levels)
         /\ Len(c.nesting) \in Nat /\ Len(c.nesting) >= 1
         /\ Current(c) \in Levels /\ Current(c).start <= Len(c.out.data)
  <1>1. c.out \in OutBufs /\ c.uError \in Errors /\ c.nesting \in Seq(Levels)
    BY DEF Good, Contexts
  <1>2. c.out.data \in Seq(Byte) /\ c.out.cap \in Nat
    BY <1>1 DEF OutBufs
  <1>3. Len(c.out.data) \in Nat /\ Len(c.nesting) \in Nat
    BY <1>1, <1>2, LenProperties
  <1>4. Len(c.nesting) \in 1..Len(c.nesting)
    BY <1>3, LimitsAssumption DEF Good
  <1>5. Current(c) \in Levels /\ Current(c).start <= Len(c.out.data)
    BY <1>1, <1>4, ElementOfSeq DEF Current, Good, Within
  <1> QED
    BY <1>1, <1>2, <1>3, <1>4, <1>5 DEF Good

\* Writing keeps a context good; only what has no room is refused.
LEMMA WriteGrows ==
  ASSUME NEW c, Good(c), NEW new \in Seq(Byte), NEW pos \in 0..Len(c.out.data)
  PROVE  LET d == Write(c, new, pos)
         IN  /\ Grows(c, d) /\ d.nesting = c.nesting /\ d.uError = c.uError
             /\ ~c.out.err => (d.out.err <=> Len(c.out.data) + Len(new) > c.out.cap)
             /\ ~d.out.err => d.out.data = Spliced(c.out.data, new, pos)
  <1> DEFINE d == Write(c, new, pos)
             p == UsefulOutBuf_InsertUsefulBuf(c.out, new, pos)
  <1>1. c.out \in OutBufs /\ Len(c.out.data) <= c.out.cap /\ c.nesting \in Seq(Levels)
    BY GoodFields
  <1>2. /\ p \in OutBufs /\ p.cap = c.out.cap /\ Len(p.data) <= p.cap
        /\ Len(c.out.data) <= Len(p.data) /\ (c.out.err => p.err)
        /\ ~c.out.err => (p.err <=> Len(c.out.data) + Len(new) > c.out.cap)
        /\ ~p.err => p.data = Spliced(c.out.data, new, pos)
    BY <1>1, InsertFacts
  <1>3. d = [c EXCEPT !.out = p]
    BY DEF Write
  <1> HIDE DEF p, d
  <1>4. /\ d \in Contexts /\ d.out = p /\ d.nesting = c.nesting /\ d.uError = c.uError
    BY <1>2, <1>3 DEF Good, Contexts
  <1>5. Len(c.out.data) \in Nat /\ Len(p.data) \in Nat
    BY <1>1, <1>2, LenProperties DEF OutBufs
  <1>6. \A i \in 1..Len(c.nesting) : c.nesting[i].start \in Nat
    <2>1. \A i \in 1..Len(c.nesting) : c.nesting[i] \in Levels
      BY <1>1, ElementOfSeq
    <2> QED
      BY <2>1 DEF Levels
  <1>7. Within(d.nesting, Len(d.out.data))
    <2>1. \A i \in 1..Len(c.nesting) : c.nesting[i].start <= Len(c.out.data)
      BY DEF Good, Within
    <2>2. \A i \in 1..Len(c.nesting) : c.nesting[i].start <= Len(p.data)
      BY <1>2, <1>5, <1>6, <2>1, LeqTransitive, Zenon
    <2> QED
      BY <1>4, <2>2 DEF Within
  <1>8. Good(d)
    BY <1>2, <1>4, <1>7 DEF Good
  <1> QED
    BY <1>2, <1>4, <1>8 DEF Grows, d

\* Setting the error touches nothing else.
LEMMA SetErrorGrows ==
  ASSUME NEW c, Good(c), NEW e \in Errors
  PROVE  LET d == SetError(c, e)
         IN  Grows(c, d) /\ d.out = c.out /\ d.nesting = c.nesting /\ d.uError = e
  <1> DEFINE d == SetError(c, e)
  <1>1. d = [c EXCEPT !.uError = e, !.failed = @ \/ e # "SUCCESS"]
    BY DEF SetError
  <1> HIDE DEF d
  <1>2. d \in Contexts /\ d.out = c.out /\ d.nesting = c.nesting /\ d.uError = e
    BY <1>1 DEF Good, Contexts
  <1>3. Good(d)
    BY <1>2 DEF Good
  <1>4. Len(c.out.data) \in Nat
    BY GoodFields
  <1> QED
    BY <1>2, <1>3, <1>4 DEF Grows, d

\* Another stack of levels.
LEMMA NestingGrows ==
  ASSUME NEW c, Good(c), NEW nest \in Seq(Levels), Len(nest) \in 1..(MAX_ARRAY_NESTING + 1),
         Within(nest, Len(c.out.data)), Ordered(nest)
  PROVE  LET d == [c EXCEPT !.nesting = nest]
         IN  Grows(c, d) /\ d.out = c.out /\ d.nesting = nest /\ d.uError = c.uError
  <1> DEFINE d == [c EXCEPT !.nesting = nest]
  <1>1. d \in Contexts /\ d.out = c.out /\ d.nesting = nest /\ d.uError = c.uError
    BY DEF Good, Contexts
  <1> HIDE DEF d
  <1>2. Good(d)
    BY <1>1 DEF Good
  <1>3. Len(c.out.data) \in Nat
    BY GoodFields
  <1> QED
    BY <1>1, <1>2, <1>3 DEF Grows, d

\* Another count in the current level.
LEMMA CountGrows ==
  ASSUME NEW c, Good(c), NEW v \in 0..(CountRange - 1)
  PROVE  LET d == [c EXCEPT !.nesting[Len(c.nesting)].count = v]
         IN  /\ Grows(c, d) /\ d.out = c.out /\ d.uError = c.uError
             /\ d.nesting = [c.nesting EXCEPT ![Len(c.nesting)].count = v]
  <1> DEFINE n    == Len(c.nesting)
             nest == [c.nesting EXCEPT ![n].count = v]
             d    == [c EXCEPT !.nesting[n].count = v]
             e    == [c.nesting[n] EXCEPT !.count = v]
  <1>1. c.nesting \in Seq(Levels) /\ n \in Nat /\ n \in 1..n /\ c.nesting[n] \in Levels
    BY GoodFields DEF Current
  <1>2. e \in Levels /\ e.start = c.nesting[n].start
    BY <1>1 DEF Levels
  <1>3. nest = [c.nesting EXCEPT ![n] = e]
    BY <1>1
  <1>4. d = [c EXCEPT !.nesting = nest]
    BY <1>1 DEF Good, Contexts
  <1> HIDE DEF e, nest, d, n
  <1>5. /\ nest \in Seq(Levels) /\ Len(nest) = n
        /\ \A j \in 1..n : nest[j] = IF j = n THEN e ELSE c.nesting[j]
    BY <1>1, <1>2, <1>3, ExceptSeq DEF n
  <1>6. \A j \in 1..n : nest[j].start = c.nesting[j].start
    BY <1>2, <1>5
  <1>7. Within(nest, Len(c.out.data)) /\ Ordered(nest)
    BY <1>5, <1>6 DEF Good, Within, Ordered, n
  <1>8. n \in 1..(MAX_ARRAY_NESTING + 1)
    BY DEF Good, n
  <1>9. /\ Grows(c, [c EXCEPT !.nesting = nest]) /\ [c EXCEPT !.nesting = nest].out = c.out
        /\ [c EXCEPT !.nesting = nest].nesting = nest /\ [c EXCEPT !.nesting = nest].uError = c.uError
    BY <1>5, <1>7, <1>8, NestingGrows
  <1> QED
    BY <1>4, <1>9 DEF d, nest, n

\* The items of a level are counted up to the limit.
LEMMA IncrementGrows ==
  ASSUME NEW c, Good(c)
  PROVE  LET d == IncrementMapOrArrayCount(c) IN Grows(c, d) /\ d.out = c.out
  <1>1. Grows(c, c)
    BY GoodFields DEF Grows
  <1>2. "ARRAY_TOO_LONG" \in Errors
    BY DEF Errors
  <1>3. Current(c).count \in 0..(CountRange - 1) /\ MAX_ITEMS_IN_ARRAY \in Nat
    BY GoodFields, LimitsAssumption DEF Levels
  <1>4. CASE 1 >= MAX_ITEMS_IN_ARRAY - Current(c).count
    BY <1>1, <1>2, <1>4, SetErrorGrows DEF IncrementMapOrArrayCount, Nesting_Increment
  <1>5. CASE ~(1 >= MAX_ITEMS_IN_ARRAY - Current(c).count)
    <2> DEFINE v == Current(c).count + 1
    <2>1. v \in 0..(CountRange - 1)
      BY <1>3, <1>5 DEF CountRange
    <2>2. [c EXCEPT !.nesting[Len(c.nesting)].count = @ + 1]
            = [c EXCEPT !.nesting[Len(c.nesting)].count = v]
      BY GoodFields DEF Good, Contexts, Current
    <2> HIDE DEF v
    <2>3. /\ Grows(c, [c EXCEPT !.nesting[Len(c.nesting)].count = v])
          /\ [c EXCEPT !.nesting[Len(c.nesting)].count = v].out = c.out
      BY <2>1, CountGrows
    <2> QED
      BY <1>1, <1>5, <2>2, <2>3 DEF IncrementMapOrArrayCount, Nesting_Increment
  <1> QED
    BY <1>4, <1>5

\* A level is opened at the end of the output.
LEMMA IncreaseGrows ==
  ASSUME NEW c, Good(c), NEW type \in Nat
  PROVE  LET d == Nesting_Increase(c, type, Len(c.out.data)) IN Grows(c, d) /\ d.out = c.out
  <1>1. "ARRAY_NESTING_TOO_DEEP" \in Errors /\ "SUCCESS" \in Errors
    BY DEF Errors
  <1>2. CASE Len(c.nesting) = MAX_ARRAY_NESTING + 1
    BY <1>1, <1>2, SetErrorGrows DEF Nesting_Increase
  <1>3. CASE Len(c.nesting) # MAX_ARRAY_NESTING + 1
    <2> DEFINE lev  == Nesting_Level(type, Len(c.out.data))
               nest == Append(c.nesting, lev)
               d    == [c EXCEPT !.nesting = nest]
               n    == Len(c.nesting)
    <2>1. /\ c.nesting \in Seq(Levels) /\ n \in Nat /\ Len(c.out.data) \in Nat
      BY GoodFields
    <2>2. lev \in Levels /\ lev.start = Len(c.out.data)
      BY <2>1, LimitsAssumption DEF Nesting_Level, Levels, CountRange
    <2> HIDE DEF lev
    <2>3. /\ nest \in Seq(Levels) /\ Len(nest) = n + 1
          /\ \A i \in 1..n : nest[i] = c.nesting[i]
          /\ nest[n + 1] = lev
      BY <2>1, <2>2, AppendProperties
    <2>4. \A i \in 1..n : c.nesting[i].start <= Len(c.out.data)
      BY DEF Good, Within
    <2>5. \A i, j \in 1..n : i <= j => c.nesting[i].start <= c.nesting[j].start
      BY DEF Good, Ordered
    <2> HIDE DEF nest
    <2>6. n + 1 \in 1..(MAX_ARRAY_NESTING + 1)
      BY <1>3, <2>1, LimitsAssumption DEF Good
    <2> HIDE DEF n
    <2>7. Within(nest, Len(c.out.data))
      BY <2>1, <2>2, <2>3, <2>4 DEF Within
    <2>8. Ordered(nest)
      BY <2>1, <2>2, <2>3, <2>4, <2>5 DEF Ordered
    <2>9. Grows(c, d) /\ d.out = c.out
      BY <2>3, <2>6, <2>7, <2>8, NestingGrows
    <2>10. Good(d)
      BY <2>9 DEF Grows
    <2> HIDE DEF d
    <2>11. Grows(d, SetError(d, "SUCCESS")) /\ SetError(d, "SUCCESS").out = d.out
      BY <1>1, <2>10, SetErrorGrows
    <2>12. Nesting_Increase(c, type, Len(c.out.data)) = SetError(d, "SUCCESS")
      BY <1>3 DEF Nesting_Increase, d, nest, lev, n
    <2> QED
      BY <2>9, <2>11, <2>12 DEF Grows
  <1> QED
    BY <1>2, <1>3

\* A level is closed.
LEMMA DecreaseGrows ==
  ASSUME NEW c, Good(c)
  PROVE  LET d == Nesting_Decrease(c)
         IN  Grows(c, d) /\ d.out = c.out /\ d.uError = c.uError
  <1>1. CASE ~(Len(c.nesting) > 1)
    BY <1>1, GoodFields DEF Nesting_Decrease, Grows
  <1>2. CASE Len(c.nesting) > 1
    <2> DEFINE n    == Len(c.nesting)
               nest == SubSeq(c.nesting, 1, n - 1)
    <2>1. c.nesting \in Seq(Levels) /\ n \in Nat /\ n - 1 \in Nat
      BY <1>2, GoodFields
    <2>2. \A i \in 1..(n - 1) : c.nesting[i] \in Levels
      BY <2>1, ElementOfSeq
    <2>3. nest \in Seq(Levels) /\ Len(nest) = n - 1
      BY <1>2, <2>1, <2>2, SubSeqProperties
    <2>4. \A i \in 1..(n - 1) : nest[i] = c.nesting[i]
      BY <2>1, <2>2, SubSeqProperties
    <2> HIDE DEF nest
    <2>5. Within(nest, Len(c.out.data)) /\ Ordered(nest)
      <3>1. \A i \in 1..n : c.nesting[i].start <= Len(c.out.data)
        BY DEF Good, Within
      <3>2. \A i, j \in 1..n : i <= j => c.nesting[i].start <= c.nesting[j].start
        BY DEF Good, Ordered
      <3>3. \A i \in 1..(n - 1) : i \in 1..n
        BY <2>1
      <3> HIDE DEF n
      <3>4. Within(nest, Len(c.out.data))
        BY <2>3, <2>4, <3>1, <3>3, Zenon DEF Within
      <3>5. Ordered(nest)
        <4> SUFFICES ASSUME NEW i \in 1..(n - 1), NEW j \in 1..(n - 1), i <= j
                     PROVE  nest[i].start <= nest[j].start
          BY <2>3 DEF Ordered
        <4>1. c.nesting[i].start <= c.nesting[j].start
          BY <3>2, <3>3
        <4> QED
          BY <2>4, <4>1
      <3> QED
        BY <3>4, <3>5
    <2>6. Len(nest) \in 1..(MAX_ARRAY_NESTING + 1)
      BY <1>2, <2>1, <2>3, LimitsAssumption DEF Good
    <2> DEFINE d == [c EXCEPT !.nesting = nest]
    <2>7. Grows(c, d) /\ d.out = c.out /\ d.uError = c.uError
      BY <2>3, <2>5, <2>6, NestingGrows
    <2> QED
      BY <1>2, <2>7 DEF Nesting_Decrease, nest
  <1> QED
    BY <1>1, <1>2

\* Steps of a function compose.
LEMMA GrowsTransitive ==
  ASSUME NEW c, NEW d, NEW e, Good(c), Grows(c, d), Grows(d, e)
  PROVE  Grows(c, e)
  <1>1. Good(d) /\ Good(e)
    BY DEF Grows
  <1>2. Len(c.out.data) \in Nat /\ Len(d.out.data) \in Nat /\ Len(e.out.data) \in Nat
    BY <1>1, GoodFields
  <1>3. Len(c.out.data) <= Len(d.out.data) /\ Len(d.out.data) <= Len(e.out.data)
    BY DEF Grows
  <1>4. Len(c.out.data) <= Len(e.out.data)
    BY <1>2, <1>3, LeqTransitive, Zenon
  <1>5. e.out.cap = c.out.cap /\ (c.out.err => e.out.err)
    BY Zenon DEF Grows
  <1> QED
    BY <1>1, <1>4, <1>5, Zenon DEF Grows

\* A function may do nothing.
LEMMA GrowsReflexive ==
  ASSUME NEW c, Good(c)
  PROVE  Grows(c, c)
  BY GoodFields DEF Grows

\* Appending is writing at the end.
LEMMA AppendGrows ==
  ASSUME NEW c, Good(c), NEW new \in Seq(Byte)
  PROVE  Grows(c, [c EXCEPT !.out = UsefulOutBuf_AppendUsefulBuf(@, new)])
  <1>1. Len(c.out.data) \in 0..Len(c.out.data)
    BY GoodFields
  <1>2. Grows(c, Write(c, new, Len(c.out.data)))
    BY <1>1, WriteGrows
  <1> QED
    BY <1>2 DEF Write, UsefulOutBuf_AppendUsefulBuf, UsefulOutBuf_GetEndPosition

\* Appending a head keeps a context good.
LEMMA HeadGrows ==
  ASSUME NEW c, Good(c), NEW type \in Nat, NEW n \in Nat, IsUint64(n)
  PROVE  Grows(c, AppendCBORHead(c, type, n, 0))
  <1>1. QCBOREncode_EncodeHead(type, 0, n) \in Seq(Byte)
    BY HeadType
  <1> QED
    BY <1>1, AppendGrows DEF AppendCBORHead

\* Opening a level keeps a context good.
LEMMA OpenGrows ==
  ASSUME NEW c, Good(c), NEW type \in Nat
  PROVE  Grows(c, QCBOREncode_OpenMapOrArray(c, type))
  <1> DEFINE d == IncrementMapOrArrayCount(c)
  <1>1. Grows(c, d) /\ d.out = c.out /\ "BUFFER_TOO_LARGE" \in Errors
    BY IncrementGrows DEF Errors
  <1> HIDE DEF d
  <1>2. Good(d)
    BY <1>1 DEF Grows
  <1>3. Grows(d, SetError(d, "BUFFER_TOO_LARGE"))
    BY <1>1, <1>2, SetErrorGrows
  <1>4. Grows(d, Nesting_Increase(d, type, Len(d.out.data)))
    BY <1>2, IncreaseGrows
  <1>5. /\ Grows(c, SetError(d, "BUFFER_TOO_LARGE"))
        /\ Grows(c, Nesting_Increase(d, type, Len(c.out.data)))
    BY <1>1, <1>3, <1>4, GrowsTransitive
  <1> QED
    BY <1>5 DEF QCBOREncode_OpenMapOrArray, UsefulOutBuf_GetEndPosition, d

\* The check of a close gives an error of the encoder.
LEMMA CheckType ==
  ASSUME NEW c, Good(c), NEW type
  PROVE  CheckDecreaseNesting(c, type) \in Errors
  BY GoodFields DEF CheckDecreaseNesting, Errors

\* The head of what is closed, as bytes.
CloseHead(type, len) ==
    QCBOREncode_EncodeHead(IF type = OPEN_BSTR THEN BYTE_STRING ELSE type, 0, len)

\* The head is inserted where the level started, and the level is closed.
LEMMA InsertHeadGrows ==
  ASSUME NEW c, Good(c), NEW type \in Nat, NEW len \in Nat, IsUint64(len)
  PROVE  Grows(c, InsertCBORHead(c, type, len))
  <1> DEFINE head == CloseHead(type, len)
             d    == Write(c, head, Current(c).start)
             err  == CheckDecreaseNesting(c, type)
  <1>1. head \in Seq(Byte)
    BY HeadType DEF CloseHead, BYTE_STRING
  <1>2. Current(c).start \in 0..Len(c.out.data)
    BY GoodFields DEF Levels
  <1> HIDE DEF head
  <1>3. Grows(c, d)
    BY <1>1, <1>2, WriteGrows
  <1> HIDE DEF d
  <1>4. Good(d)
    BY <1>3 DEF Grows
  <1>5. Grows(d, Nesting_Decrease(d))
    BY <1>4, DecreaseGrows
  <1>6. Grows(c, Nesting_Decrease(d))
    BY <1>3, <1>5, GrowsTransitive
  <1>7. Grows(c, SetError(c, err))
    BY CheckType, SetErrorGrows
  <1> QED
    BY <1>6, <1>7 DEF InsertCBORHead, CloseHead, head, d, Write

\* The number of items of a level is a number a head can hold.
LEMMA GetCountType ==
  ASSUME NEW c, Good(c)
  PROVE  Nesting_GetCount(c) \in Nat /\ IsUint64(Nesting_GetCount(c))
  <1> DEFINE n == Current(c).count
  <1>1. n \in Nat /\ n <= CountRange /\ CountRange \in Nat
    BY GoodFields, LimitsAssumption DEF Levels, CountRange
  <1> HIDE DEF n
  <1>2. n \div 2 \in Nat /\ n \div 2 <= CountRange
    BY <1>1
  <1>3. Nesting_GetCount(c) \in Nat /\ Nesting_GetCount(c) <= CountRange
    BY <1>1, <1>2 DEF Nesting_GetCount, n
  <1>4. IsUint64(CountRange)
    BY LimitsAssumption
  <1> QED
    BY <1>1, <1>3, <1>4, Uint64Below

\* The length of what the current level holds is a number a head can hold.
LEMMA LevelLength ==
  ASSUME NEW c, Good(c)
  PROVE  LET n == Len(c.out.data) - Current(c).start IN n \in Nat /\ IsUint64(n)
  <1> DEFINE n == Len(c.out.data) - Current(c).start
  <1>1. /\ Len(c.out.data) \in Nat /\ Len(c.out.data) <= c.out.cap /\ c.out.cap \in Nat
        /\ Current(c).start \in Nat /\ Current(c).start <= Len(c.out.data)
    BY GoodFields DEF Levels
  <1>2. n \in Nat /\ n <= c.out.cap
    BY <1>1
  <1>3. IsUint64(c.out.cap)
    BY DEF Good
  <1> HIDE DEF n
  <1> QED
    BY <1>1, <1>2, <1>3, Uint64Below DEF n

\* The count of a level wraps around inside its range.
LEMMA DecrementGrows ==
  ASSUME NEW c, Good(c)
  PROVE  LET d == Nesting_Decrement(c)
         IN  /\ Grows(c, d) /\ d.out = c.out /\ d.uError = c.uError
             /\ d.nesting = [c.nesting EXCEPT ![Len(c.nesting)].count
                                = (Current(c).count - 1) % CountRange]
  <1> DEFINE v == (Current(c).count - 1) % CountRange
  <1>1. Current(c).count - 1 \in Int /\ CountRange \in Nat /\ CountRange > 0
    BY GoodFields, LimitsAssumption DEF Levels, CountRange
  <1>2. \A a \in Int, b \in Nat : b > 0 => a % b \in 0..(b - 1)
    OBVIOUS
  <1>3. v \in 0..(CountRange - 1)
    BY <1>1, <1>2
  <1>4. c \in Contexts
    BY DEF Good
  <1>5. Nesting_Decrement(c) = [c EXCEPT !.nesting[Len(c.nesting)].count = v]
    BY <1>4 DEF Nesting_Decrement, Contexts, Current
  <1> HIDE DEF v
  <1> QED
    BY <1>3, <1>5, CountGrows DEF v

\* What the caller wrote by itself is as if it was appended.
LEMMA AdvanceAppends ==
  ASSUME NEW o \in OutBufs, Len(o.data) <= o.cap, NEW new \in Seq(Byte)
  PROVE  UsefulOutBuf_Advance(o, new) = UsefulOutBuf_AppendUsefulBuf(o, new)
  <1> DEFINE n == Len(o.data)
             a == SubSeq(o.data, 1, n)
             b == SubSeq(o.data, n + 1, n)
  <1>1. n \in Nat /\ o.cap \in Nat /\ o.data \in Seq(Byte)
    BY LenProperties DEF OutBufs
  <1>2. a = o.data
    BY <1>1, SubSeqFull
  <1>3. b = << >>
    BY <1>1, SubSeqEmpty
  <1>4. o.data \o new \in Seq(Byte)
    BY <1>1, ConcatProperties
  <1>5. (o.data \o new) \o << >> = o.data \o new
    BY <1>4, ConcatEmptySeq
  <1>6. (a \o new) \o b = o.data \o new
    BY <1>2, <1>3, <1>5
  <1> HIDE DEF a, b
  <1>7. UsefulOutBuf_AppendUsefulBuf(o, new)
          = IF o.err THEN o
            ELSE IF Len(o.data) > o.cap \/ ~UsefulOutBuf_WillItFit(o, Len(new))
                 THEN [o EXCEPT !.err = TRUE]
                 ELSE [o EXCEPT !.data = (a \o new) \o b]
    BY <1>1 DEF UsefulOutBuf_AppendUsefulBuf, UsefulOutBuf_InsertUsefulBuf,
                UsefulOutBuf_GetEndPosition, a, b
  <1> QED
    BY <1>6, <1>7 DEF UsefulOutBuf_Advance

\* A fresh context is good.
LEMMA FreshGood ==
  ASSUME NEW null \in BOOLEAN, NEW cap \in Nat, IsUint64(cap)
  PROVE  Good(QCBOREncode_Init(null, cap))
  <1> DEFINE c   == QCBOREncode_Init(null, cap)
             o   == UsefulOutBuf_Init(null, cap)
             lev == Nesting_Level(ARRAY, 0)
  <1>1. << >> \in Seq(Byte) /\ Len(<< >>) = 0
    BY EmptySeq
  <1>2. o \in OutBufs /\ o.data = << >> /\ o.cap = cap /\ o.err = FALSE
    BY <1>1 DEF UsefulOutBuf_Init, OutBufs
  <1>3. lev \in Levels /\ lev.start = 0
    BY LimitsAssumption DEF Nesting_Level, Levels, ARRAY, CountRange
  <1> HIDE DEF o, lev
  <1>4. <<lev>> \in Seq(Levels) /\ Len(<<lev>>) = 1 /\ <<lev>>[1] = lev
    BY <1>3
  <1>5. c = [out |-> o, uError |-> "SUCCESS", nesting |-> <<lev>>, failed |-> FALSE]
    BY DEF QCBOREncode_Init, o, lev
  <1> HIDE DEF c
  <1>6. /\ c \in Contexts /\ c.out = o /\ c.nesting = <<lev>>
    BY <1>2, <1>4, <1>5 DEF Contexts, Errors
  <1>7. Len(c.out.data) <= c.out.cap /\ IsUint64(c.out.cap)
    BY <1>1, <1>2, <1>6
  <1>8. Len(c.nesting) \in 1..(MAX_ARRAY_NESTING + 1)
    BY <1>4, <1>6, LimitsAssumption
  <1>9. Within(c.nesting, Len(c.out.data))
    BY <1>1, <1>2, <1>3, <1>4, <1>6 DEF Within
  <1>10. Ordered(c.nesting)
    BY <1>3, <1>4, <1>6 DEF Ordered
  <1> QED
    BY <1>6, <1>7, <1>8, <1>9, <1>10 DEF Good, c

\* What the caller passes to the functions.
IsNumber(n) == n \in Int /\ IsUint64(IF n < 0 THEN -(n + 1) ELSE n)
IsString(b) == b \in Seq(Byte) /\ IsUint64(Len(b))

\* The types of QCBOREncode_AddBuffer.
BufferTypes == {BYTE_STRING, TEXT_STRING, RAW, BSTR_LEN_ONLY}

-----------------------------------------------------------------------------
(* What encodes what *)

\* Positions of a sequence hold another one.
Holds(b, from, s) == from + Len(s) <= Len(b) /\ \A j \in 1..Len(s) : b[from + j] = s[j]

\* The tokens of documents.
Tokens == [form : {"item", "indefinite", "wrap"}, type : 0..7, arg : Nat, b : Seq(Byte)]

\* The bytes are read as the head of a token, whatever follows them.
IsHeadFor(hd, t, inside) ==
    /\ hd \in Seq(Byte) /\ Len(hd) >= 1
    /\ \A rest \in Seq(Byte) :
         /\ ReadHead(At(hd \o rest, 0)).in = At(hd \o rest, Len(hd))
         /\ IsHeadOf(ReadHead(At(hd \o rest, 0)), t, inside)

\* The head and the bytes of a token, from one position to another.
TokenAt(b, t, from, to, inside) ==
    \E hd \in Seq(Byte) :
      /\ IsHeadFor(hd, t, inside)
      /\ to = (from + Len(hd)) + Len(t.b)
      /\ Holds(b, from, hd) /\ Holds(b, from + Len(hd), t.b)

\* How many bytes the tokens a byte string wraps take.
Inside(t, p, i) == IF t.form = "wrap" THEN p[i + t.arg] - p[i] ELSE 0

\* The tokens end at the positions of p.
Cuts(b, T, p) ==
    /\ p \in [0..Len(T) -> Nat] /\ p[0] = 0 /\ p[Len(T)] = Len(b)
    /\ \A i \in 1..Len(T) :
         /\ T[i].form = "wrap" => i + T[i].arg <= Len(T)
         /\ TokenAt(b, T[i], p[i - 1], p[i], Inside(T[i], p, i))

\* The bytes are an encoding of the tokens.
Encodes(b, T) ==
    /\ b \in Seq(Byte) /\ T \in Seq(Tokens)
    /\ \E p \in [0..Len(T) -> Nat] : Cuts(b, T, p)

\* What the first of two joined sequences holds is held by both.
LEMMA HoldsLeft ==
  ASSUME NEW a \in Seq(Byte), NEW b \in Seq(Byte), NEW s \in Seq(Byte), NEW from \in Nat,
         Holds(a, from, s)
  PROVE  Holds(a \o b, from, s)
  <1> DEFINE l == Len(a)
             m == Len(b)
             n == Len(s)
             c == a \o b
  <1>1. l \in Nat /\ m \in Nat /\ n \in Nat
    BY LenProperties
  <1>2. c \in Seq(Byte) /\ Len(c) = l + m
        /\ \A i \in 1..(l + m) : c[i] = IF i <= l THEN a[i] ELSE b[i - l]
    BY Joined
  <1>3. from + n <= l /\ \A j \in 1..n : a[from + j] = s[j]
    BY DEF Holds
  <1> HIDE DEF l, m, n, c
  <1>4. \A j \in 1..n : from + j \in 1..(l + m) /\ from + j <= l
    BY <1>1, <1>3
  <1>5. \A j \in 1..n : c[from + j] = s[j]
    BY <1>2, <1>3, <1>4
  <1>6. from + n <= Len(c)
    BY <1>1, <1>2, <1>3
  <1> QED
    BY <1>5, <1>6 DEF Holds, n, c

\* What the second holds is held by both behind the first.
LEMMA HoldsRight ==
  ASSUME NEW a \in Seq(Byte), NEW b \in Seq(Byte), NEW s \in Seq(Byte), NEW from \in Nat,
         Holds(b, from, s)
  PROVE  Holds(a \o b, Len(a) + from, s)
  <1> DEFINE l == Len(a)
             m == Len(b)
             n == Len(s)
             c == a \o b
  <1>1. l \in Nat /\ m \in Nat /\ n \in Nat
    BY LenProperties
  <1>2. c \in Seq(Byte) /\ Len(c) = l + m
        /\ \A i \in 1..(l + m) : c[i] = IF i <= l THEN a[i] ELSE b[i - l]
    BY Joined
  <1>3. from + n <= m /\ \A j \in 1..n : b[from + j] = s[j]
    BY DEF Holds
  <1> HIDE DEF l, m, n, c
  <1>4. \A j \in 1..n : /\ (l + from) + j \in 1..(l + m) /\ ~((l + from) + j <= l)
                        /\ ((l + from) + j) - l = from + j
    BY <1>1, <1>3
  <1>5. \A j \in 1..n : c[(l + from) + j] = s[j]
    BY <1>2, <1>3, <1>4
  <1>6. (l + from) + n <= Len(c)
    BY <1>1, <1>2, <1>3
  <1> QED
    BY <1>5, <1>6 DEF Holds, n, c, l

\* A sequence holds itself.
LEMMA HoldsItself ==
  ASSUME NEW s \in Seq(Byte)
  PROVE  Holds(s, 0, s)
  <1>1. Len(s) \in Nat
    BY LenProperties
  <1>2. 0 + Len(s) <= Len(s) /\ \A j \in 1..Len(s) : 0 + j = j
    BY <1>1
  <1> QED
    BY <1>2 DEF Holds

\* A token stays where it is when bytes are joined behind it.
LEMMA TokenLeft ==
  ASSUME NEW a \in Seq(Byte), NEW b \in Seq(Byte), NEW t \in Tokens, NEW from \in Nat, NEW to,
         NEW inside, TokenAt(a, t, from, to, inside)
  PROVE  TokenAt(a \o b, t, from, to, inside)
  <1>1. PICK hd \in Seq(Byte) :
          /\ IsHeadFor(hd, t, inside)
          /\ to = (from + Len(hd)) + Len(t.b)
          /\ Holds(a, from, hd) /\ Holds(a, from + Len(hd), t.b)
    BY DEF TokenAt
  <1>2. t.b \in Seq(Byte) /\ Len(hd) \in Nat
    BY LenProperties DEF Tokens
  <1>3. from + Len(hd) \in Nat
    BY <1>2
  <1>4. Holds(a \o b, from, hd) /\ Holds(a \o b, from + Len(hd), t.b)
    BY <1>1, <1>2, <1>3, HoldsLeft
  <1> QED
    BY <1>1, <1>4 DEF TokenAt

\* It moves when bytes are joined in front of it.
LEMMA TokenRight ==
  ASSUME NEW a \in Seq(Byte), NEW b \in Seq(Byte), NEW t \in Tokens, NEW from \in Nat, NEW to,
         NEW inside, TokenAt(b, t, from, to, inside)
  PROVE  TokenAt(a \o b, t, Len(a) + from, Len(a) + to, inside)
  <1>1. PICK hd \in Seq(Byte) :
          /\ IsHeadFor(hd, t, inside)
          /\ to = (from + Len(hd)) + Len(t.b)
          /\ Holds(b, from, hd) /\ Holds(b, from + Len(hd), t.b)
    BY DEF TokenAt
  <1>2. t.b \in Seq(Byte) /\ Len(hd) \in Nat /\ Len(a) \in Nat
    BY LenProperties DEF Tokens
  <1>3. from + Len(hd) \in Nat /\ Len(t.b) \in Nat
    BY <1>2, LenProperties
  <1>4. Holds(a \o b, Len(a) + from, hd) /\ Holds(a \o b, Len(a) + (from + Len(hd)), t.b)
    BY <1>1, <1>2, <1>3, HoldsRight
  <1>5. /\ Len(a) + (from + Len(hd)) = (Len(a) + from) + Len(hd)
        /\ Len(a) + to = ((Len(a) + from) + Len(hd)) + Len(t.b)
    <2>1. to = (from + Len(hd)) + Len(t.b)
      BY <1>1
    <2> DEFINE w == Len(a)
               y == Len(hd)
               z == Len(t.b)
    <2>2. w \in Nat /\ y \in Nat /\ z \in Nat
      BY <1>2, <1>3
    <2> HIDE DEF w, y, z
    <2>3. w + (from + y) = (w + from) + y /\ w + ((from + y) + z) = ((w + from) + y) + z
      BY <2>2
    <2> QED
      BY <2>1, <2>3 DEF w, y, z
  <1> QED
    BY <1>1, <1>4, <1>5 DEF TokenAt

\* Nothing is encoded by nothing, and nothing else is.
LEMMA EncodesNothing ==
  /\ Encodes(<< >>, << >>)
  /\ \A b, T : Encodes(b, T) /\ b = << >> => T = << >>
  /\ \A b, T : Encodes(b, T) /\ T = << >> => b = << >>
  <1>1. Encodes(<< >>, << >>)
    <2> DEFINE p == [i \in 0..0 |-> 0]
    <2>1. << >> \in Seq(Byte) /\ << >> \in Seq(Tokens) /\ Len(<< >>) = 0
      BY EmptySeq
    <2>2. p \in [0..Len(<< >>) -> Nat] /\ p[0] = 0 /\ p[Len(<< >>)] = 0
      BY <2>1
    <2>3. \A i \in 1..Len(<< >>) : FALSE
      BY <2>1
    <2> HIDE DEF p
    <2>4. Cuts(<< >>, << >>, p)
      BY <2>1, <2>2, <2>3 DEF Cuts
    <2> QED
      BY <2>1, <2>2, <2>4 DEF Encodes
  <1>2. ASSUME NEW b, NEW T, Encodes(b, T), b = << >>
        PROVE  T = << >>
    <2>1. PICK p \in [0..Len(T) -> Nat] : Cuts(b, T, p)
      BY <1>2 DEF Encodes
    <2>2. T \in Seq(Tokens) /\ Len(T) \in Nat
      BY <1>2, LenProperties DEF Encodes
    <2> SUFFICES ASSUME T # << >> PROVE FALSE
      OBVIOUS
    <2>3. Len(T) # 0
      BY <2>2, EmptySeq
    <2>4. 1 \in 1..Len(T) /\ 1 - 1 = 0 /\ p[0] = 0
      BY <2>1, <2>2, <2>3 DEF Cuts
    <2>5. TokenAt(b, T[1], p[1 - 1], p[1], Inside(T[1], p, 1))
      BY <2>1, <2>4 DEF Cuts
    <2>6. TokenAt(b, T[1], 0, p[1], Inside(T[1], p, 1))
      BY <2>4, <2>5
    <2>7. PICK hd \in Seq(Byte) : IsHeadFor(hd, T[1], Inside(T[1], p, 1)) /\ Holds(b, 0, hd)
      BY <2>6 DEF TokenAt
    <2>8. Len(hd) >= 1 /\ 0 + Len(hd) <= Len(b)
      BY <2>7 DEF IsHeadFor, Holds
    <2>9. Len(b) = 0 /\ Len(hd) \in Nat
      BY <1>2, EmptySeq, LenProperties
    <2> QED
      BY <2>8, <2>9
  <1>3. ASSUME NEW b, NEW T, Encodes(b, T), T = << >>
        PROVE  b = << >>
    <2>1. PICK p \in [0..Len(T) -> Nat] : Cuts(b, T, p)
      BY <1>3 DEF Encodes
    <2>2. Len(T) = 0
      BY <1>3, EmptySeq
    <2>3. p[0] = 0 /\ p[0] = Len(b)
      BY <2>1, <2>2 DEF Cuts
    <2>4. b \in Seq(Byte) /\ Len(b) = 0
      BY <1>3, <2>3 DEF Encodes
    <2> QED
      BY <2>4, EmptySeq
  <1> QED
    BY <1>1, <1>2, <1>3

\* The tokens of two documents, one behind the other, are encoded by the bytes of both.
LEMMA EncodesJoined ==
  ASSUME NEW a, NEW S, Encodes(a, S), NEW b, NEW T, Encodes(b, T)
  PROVE  Encodes(a \o b, S \o T)
  <1> DEFINE l == Len(a)
             m == Len(S)
             n == Len(T)
             c == a \o b
             U == S \o T
  <1>1. a \in Seq(Byte) /\ b \in Seq(Byte) /\ S \in Seq(Tokens) /\ T \in Seq(Tokens)
    BY DEF Encodes
  <1>2. l \in Nat /\ m \in Nat /\ n \in Nat
    BY <1>1, LenProperties
  <1>3. PICK p \in [0..m -> Nat] : Cuts(a, S, p)
    BY DEF Encodes
  <1>4. PICK q \in [0..n -> Nat] : Cuts(b, T, q)
    BY DEF Encodes
  <1>5. /\ p[0] = 0 /\ p[m] = l
        /\ \A i \in 1..m : /\ S[i].form = "wrap" => i + S[i].arg <= m
                           /\ TokenAt(a, S[i], p[i - 1], p[i], Inside(S[i], p, i))
    BY <1>3 DEF Cuts
  <1>6. /\ q[0] = 0 /\ q[n] = Len(b)
        /\ \A i \in 1..n : /\ T[i].form = "wrap" => i + T[i].arg <= n
                           /\ TokenAt(b, T[i], q[i - 1], q[i], Inside(T[i], q, i))
    BY <1>4 DEF Cuts
  <1>7. c \in Seq(Byte) /\ Len(c) = l + Len(b)
    BY <1>1, ConcatProperties
  <1>8. /\ U \in Seq(Tokens) /\ Len(U) = m + n
        /\ \A i \in 1..(m + n) : U[i] = IF i <= m THEN S[i] ELSE T[i - m]
    BY <1>1, Joined
  <1> DEFINE r == [i \in 0..(m + n) |-> IF i <= m THEN p[i] ELSE l + q[i - m]]
  <1> HIDE DEF l, m, n, U, c
  <1>9. \A i \in 0..m : r[i] = p[i]
    BY <1>2
  <1>10. \A i \in 0..n : r[m + i] = l + q[i]
    <2> SUFFICES ASSUME NEW i \in 0..n PROVE r[m + i] = l + q[i]
      OBVIOUS
    <2>1. CASE i = 0
      <3>1. m + i = m /\ m \in 0..(m + n) /\ l + q[0] = l
        BY <1>2, <1>6, <2>1
      <3> QED
        BY <1>5, <1>9, <2>1, <3>1
    <2>2. CASE i # 0
      <3>1. m + i \in 0..(m + n) /\ ~(m + i <= m) /\ (m + i) - m = i
        BY <1>2, <2>2
      <3> DEFINE k == m + i
      <3>2. r[k] = l + q[k - m]
        <4> HIDE DEF k
        <4> QED
          BY <3>1 DEF k
      <3> QED
        BY <3>1, <3>2
    <2> QED
      BY <2>1, <2>2
  <1>11. r \in [0..(m + n) -> Nat]
    <2> SUFFICES ASSUME NEW i \in 0..(m + n)
                 PROVE  (IF i <= m THEN p[i] ELSE l + q[i - m]) \in Nat
      OBVIOUS
    <2>1. CASE i <= m
      <3>1. i \in 0..m
        BY <1>2, <2>1
      <3> QED
        BY <2>1, <3>1
    <2>2. CASE ~(i <= m)
      <3>1. i - m \in 0..n
        BY <1>2, <2>2
      <3>2. q[i - m] \in Nat
        BY <3>1
      <3> QED
        BY <1>2, <2>2, <3>2
    <2> QED
      BY <2>1, <2>2
  <1> HIDE DEF r
  <1>12. ASSUME NEW i \in 1..m
         PROVE  /\ U[i].form = "wrap" => i + U[i].arg <= m + n
                /\ TokenAt(c, U[i], r[i - 1], r[i], Inside(U[i], r, i))
    <2>1. i \in 1..(m + n) /\ i <= m /\ i - 1 \in 0..m /\ i \in 0..m
      BY <1>2
    <2>2. U[i] = S[i] /\ r[i - 1] = p[i - 1] /\ r[i] = p[i] /\ p[i - 1] \in Nat
      BY <1>8, <1>9, <2>1
    <2>3. S[i] \in Tokens /\ S[i].arg \in Nat
      <3>1. S[i] \in Tokens
        BY <1>1, ElementOfSeq DEF m
      <3> QED
        BY <3>1 DEF Tokens
    <2>4. S[i].form = "wrap" => i + S[i].arg <= m
      BY <1>5
    <2>5. S[i].form = "wrap" => i + S[i].arg <= m + n /\ i + S[i].arg \in 0..m
      <3> DEFINE k == S[i].arg
      <3>1. k \in Nat /\ i \in Nat
        BY <1>2, <2>3
      <3> HIDE DEF k
      <3>2. i + k <= m => i + k <= m + n /\ i + k \in 0..m
        BY <1>2, <3>1, SMT
      <3> QED
        BY <2>4, <3>2 DEF k
    <2>6. Inside(S[i], r, i) = Inside(S[i], p, i)
      <3>1. CASE S[i].form = "wrap"
        <4> DEFINE k == i + S[i].arg
        <4>1. k \in 0..m
          BY <2>5, <3>1
        <4> HIDE DEF k
        <4>2. r[k] = p[k]
          BY <1>9, <4>1
        <4> QED
          BY <2>2, <3>1, <4>2 DEF Inside, k
      <3>2. CASE S[i].form # "wrap"
        BY <3>2 DEF Inside
      <3> QED
        BY <3>1, <3>2
    <2>7. TokenAt(c, S[i], p[i - 1], p[i], Inside(S[i], p, i))
      <3>1. TokenAt(a, S[i], p[i - 1], p[i], Inside(S[i], p, i))
        BY <1>5
      <3> QED
        BY <1>1, <2>2, <2>3, <3>1, TokenLeft DEF c
    <2> QED
      BY <2>2, <2>5, <2>6, <2>7
  <1>13. ASSUME NEW j \in 1..n
         PROVE  /\ U[m + j].form = "wrap" => (m + j) + U[m + j].arg <= m + n
                /\ TokenAt(c, U[m + j], r[(m + j) - 1], r[m + j], Inside(U[m + j], r, m + j))
    <2> DEFINE i == m + j
    <2>1. /\ i \in 1..(m + n) /\ ~(i <= m) /\ i - m = j /\ i - 1 = m + (j - 1)
          /\ j - 1 \in 0..n /\ j \in 0..n
      BY <1>2
    <2>2. r[m + (j - 1)] = l + q[j - 1] /\ r[i] = l + q[j]
      BY <1>10, <2>1
    <2> HIDE DEF i
    <2>3. U[i] = T[j] /\ r[i - 1] = l + q[j - 1] /\ q[j - 1] \in Nat /\ q[j] \in Nat
      BY <1>8, <2>1, <2>2
    <2>4. T[j] \in Tokens /\ T[j].arg \in Nat
      <3>1. T[j] \in Tokens
        BY <1>1, ElementOfSeq DEF n
      <3> QED
        BY <3>1 DEF Tokens
    <2>5. T[j].form = "wrap" => j + T[j].arg <= n
      BY <1>6
    <2>6. T[j].form = "wrap" => i + T[j].arg <= m + n
      BY <1>2, <2>4, <2>5 DEF i
    <2>7. Inside(T[j], r, i) = Inside(T[j], q, j)
      <3>1. CASE T[j].form = "wrap"
        <4> DEFINE k == j + T[j].arg
        <4>1. i + T[j].arg = m + k /\ k \in 0..n
          BY <1>2, <2>4, <2>5, <3>1 DEF i
        <4> HIDE DEF k
        <4>2. r[i + T[j].arg] = l + q[k] /\ q[k] \in Nat
          BY <1>10, <4>1
        <4>3. r[i + T[j].arg] - r[i] = q[k] - q[j]
          <5> DEFINE x == q[k]
                     y == q[j]
          <5>1. x \in Nat /\ y \in Nat
            BY <2>3, <4>2
          <5>2. r[i + T[j].arg] = l + x /\ r[i] = l + y
            BY <2>2, <4>2
          <5> HIDE DEF x, y
          <5>3. (l + x) - (l + y) = x - y
            BY <1>2, <5>1
          <5> QED
            BY <5>2, <5>3 DEF x, y
        <4> QED
          BY <3>1, <4>3 DEF Inside, k
      <3>2. CASE T[j].form # "wrap"
        BY <3>2 DEF Inside
      <3> QED
        BY <3>1, <3>2
    <2>8. TokenAt(c, T[j], l + q[j - 1], l + q[j], Inside(T[j], q, j))
      <3>1. TokenAt(b, T[j], q[j - 1], q[j], Inside(T[j], q, j))
        BY <1>6
      <3> QED
        BY <1>1, <2>3, <2>4, <3>1, TokenRight DEF c, l
    <2>9. /\ U[i].form = "wrap" => i + U[i].arg <= m + n
          /\ TokenAt(c, U[i], r[i - 1], r[i], Inside(U[i], r, i))
      BY <2>2, <2>3, <2>6, <2>7, <2>8, Zenon
    <2> QED
      BY <2>9 DEF i
  <1>14. ASSUME NEW i \in 1..(m + n)
         PROVE  /\ U[i].form = "wrap" => i + U[i].arg <= m + n
                /\ TokenAt(c, U[i], r[i - 1], r[i], Inside(U[i], r, i))
    <2>1. CASE i <= m
      <3>1. i \in 1..m
        BY <2>1, <1>2
      <3> QED
        BY <1>12, <3>1
    <2>2. CASE ~(i <= m)
      <3>1. i - m \in 1..n /\ m + (i - m) = i
        BY <2>2, <1>2
      <3> DEFINE j == i - m
      <3> HIDE DEF j
      <3>2. j \in 1..n /\ m + j = i
        BY <3>1 DEF j
      <3> QED
        BY <1>13, <3>2
    <2> QED
      BY <2>1, <2>2
  <1>15. r[0] = 0
    <2>1. 0 \in 0..m
      BY <1>2
    <2> QED
      BY <1>5, <1>9, <2>1
  <1>16. r[m + n] = l + Len(b)
    <2>1. n \in 0..n
      BY <1>2
    <2> QED
      BY <1>6, <1>10, <2>1
  <1>17. Cuts(c, U, r)
    BY <1>7, <1>8, <1>11, <1>14, <1>15, <1>16 DEF Cuts
  <1>18. Encodes(c, U)
    BY <1>7, <1>8, <1>11, <1>17 DEF Encodes
  <1> QED
    BY <1>18 DEF c, U

\* A token in front of the tokens it is alone with, or that it wraps.
LEMMA EncodesBehind ==
  ASSUME NEW b, NEW T, Encodes(b, T), NEW t \in Tokens, NEW hd,
         IsHeadFor(hd, t, IF t.form = "wrap" THEN Len(b) ELSE 0),
         t.form = "wrap" => t.arg = Len(T)
  PROVE  Encodes((hd \o t.b) \o b, <<t>> \o T)
  <1> DEFINE a == hd \o t.b
             l == Len(a)
             n == Len(T)
             c == a \o b
             U == <<t>> \o T
  <1>1. b \in Seq(Byte) /\ T \in Seq(Tokens) /\ hd \in Seq(Byte) /\ t.b \in Seq(Byte)
    BY DEF Encodes, IsHeadFor, Tokens
  <1>2. a \in Seq(Byte) /\ l = Len(hd) + Len(t.b)
    BY <1>1, ConcatProperties
  <1>3. l \in Nat /\ n \in Nat /\ Len(hd) \in Nat /\ Len(b) \in Nat
    BY <1>1, <1>2, LenProperties
  <1>4. PICK q \in [0..n -> Nat] : Cuts(b, T, q)
    BY DEF Encodes
  <1>5. /\ q[0] = 0 /\ q[n] = Len(b)
        /\ \A i \in 1..n : /\ T[i].form = "wrap" => i + T[i].arg <= n
                           /\ TokenAt(b, T[i], q[i - 1], q[i], Inside(T[i], q, i))
    BY <1>4 DEF Cuts
  <1>6. TokenAt(a, t, 0, l, IF t.form = "wrap" THEN Len(b) ELSE 0)
    <2>1. Holds(hd, 0, hd) /\ Holds(t.b, 0, t.b)
      BY <1>1, HoldsItself
    <2>2. Holds(a, 0, hd)
      BY <1>1, <2>1, HoldsLeft
    <2>3. Holds(a, Len(hd) + 0, t.b)
      BY <1>1, <2>1, HoldsRight
    <2>4. Len(hd) + 0 = 0 + Len(hd) /\ l = (0 + Len(hd)) + Len(t.b)
      BY <1>2, <1>3
    <2> HIDE DEF a, l
    <2> QED
      BY <1>1, <2>2, <2>3, <2>4 DEF TokenAt
  <1>7. c \in Seq(Byte) /\ Len(c) = l + Len(b)
    BY <1>1, <1>2, ConcatProperties
  <1>8. /\ U \in Seq(Tokens) /\ Len(U) = 1 + n
        /\ U[1] = t /\ \A i \in 1..n : U[1 + i] = T[i]
    <2> DEFINE o == <<t>>
               k == 1
    <2>1. o \in Seq(Tokens) /\ Len(o) = k /\ o[1] = t /\ Len(T) = n
      OBVIOUS
    <2> HIDE DEF o, k, n
    <2>2. /\ o \o T \in Seq(Tokens) /\ Len(o \o T) = k + n
          /\ \A i \in 1..(k + n) : (o \o T)[i] = IF i <= k THEN o[i] ELSE T[i - k]
      BY <1>1, <2>1, Joined
    <2>3. o \o T = U
      BY DEF o
    <2> HIDE DEF U
    <2>4. /\ U \in Seq(Tokens) /\ Len(U) = 1 + n
          /\ \A i \in 1..(1 + n) : U[i] = IF i <= 1 THEN o[i] ELSE T[i - 1]
      BY <2>2, <2>3 DEF k
    <2>5. 1 \in 1..(1 + n) /\ 1 <= 1
      BY <1>3
    <2>6. U[1] = t
      BY <2>1, <2>4, <2>5
    <2>7. ASSUME NEW i \in 1..n PROVE U[1 + i] = T[i]
      <3> DEFINE j == 1 + i
      <3>1. j \in 1..(1 + n) /\ ~(j <= 1) /\ j - 1 = i
        BY <1>3
      <3> HIDE DEF j
      <3>2. U[j] = T[i]
        BY <2>4, <3>1
      <3> QED
        BY <3>2 DEF j
    <2> QED
      BY <2>4, <2>6, <2>7
  <1> DEFINE r == [i \in 0..(1 + n) |-> IF i = 0 THEN 0 ELSE l + q[i - 1]]
  <1> HIDE DEF l, n, U, c, a
  <1>9. r[0] = 0
    BY <1>3
  <1>10. \A i \in 0..n : r[1 + i] = l + q[i]
    <2> SUFFICES ASSUME NEW i \in 0..n PROVE r[1 + i] = l + q[i]
      OBVIOUS
    <2> DEFINE k == 1 + i
    <2>1. k \in 0..(1 + n) /\ k # 0 /\ k - 1 = i
      BY <1>3
    <2> HIDE DEF k
    <2>2. r[k] = l + q[i]
      BY <2>1
    <2> QED
      BY <2>2 DEF k
  <1>11. r \in [0..(1 + n) -> Nat]
    <2> SUFFICES ASSUME NEW i \in 0..(1 + n)
                 PROVE  (IF i = 0 THEN 0 ELSE l + q[i - 1]) \in Nat
      OBVIOUS
    <2>1. CASE i # 0
      <3>1. i - 1 \in 0..n
        BY <1>3, <2>1
      <3>2. q[i - 1] \in Nat
        BY <3>1
      <3> QED
        BY <1>3, <2>1, <3>2
    <2> QED
      BY <2>1
  <1> HIDE DEF r
  <1>12. /\ U[1].form = "wrap" => 1 + U[1].arg <= 1 + n
         /\ TokenAt(c, U[1], r[0], r[1], Inside(U[1], r, 1))
    <2>1. r[1] = l
      <3>1. r[1 + 0] = l + q[0] /\ 0 \in 0..n
        BY <1>3, <1>10
      <3>2. 1 + 0 = 1 /\ l + q[0] = l
        BY <1>3, <1>5
      <3> QED
        BY <3>1, <3>2
    <2>2. Inside(t, r, 1) = IF t.form = "wrap" THEN Len(b) ELSE 0
      <3>1. CASE t.form = "wrap"
        <4>3. t.arg = n
          BY <3>1 DEF n
        <4>1. r[1 + n] = l + Len(b) /\ t.arg = n
          <5>1. n \in 0..n
            BY <1>3
          <5> QED
            BY <1>5, <1>10, <4>3, <5>1
        <4>2. (l + Len(b)) - l = Len(b)
          BY <1>3
        <4> QED
          BY <2>1, <3>1, <4>1, <4>2 DEF Inside
      <3>2. CASE t.form # "wrap"
        BY <3>2 DEF Inside
      <3> QED
        BY <3>1, <3>2
    <2>3. TokenAt(c, t, 0, l, Inside(t, r, 1))
      <3>1. TokenAt(a, t, 0, l, Inside(t, r, 1))
        BY <1>6, <2>2
      <3>2. 0 \in Nat
        OBVIOUS
      <3> QED
        BY <1>1, <1>2, <3>1, <3>2, TokenLeft DEF c
    <2>4. t.form = "wrap" => 1 + t.arg <= 1 + n
      BY <1>3 DEF n
    <2> QED
      BY <1>8, <1>9, <2>1, <2>3, <2>4
  <1>13. ASSUME NEW j \in 1..n
         PROVE  /\ U[1 + j].form = "wrap" => (1 + j) + U[1 + j].arg <= 1 + n
                /\ TokenAt(c, U[1 + j], r[(1 + j) - 1], r[1 + j], Inside(U[1 + j], r, 1 + j))
    <2> DEFINE i == 1 + j
    <2>1. i - 1 = 1 + (j - 1) /\ j - 1 \in 0..n /\ j \in 0..n
      BY <1>3
    <2>2. r[1 + (j - 1)] = l + q[j - 1] /\ r[i] = l + q[j] /\ U[i] = T[j]
      BY <1>8, <1>10, <2>1
    <2> HIDE DEF i
    <2>3. U[i] = T[j] /\ r[i - 1] = l + q[j - 1] /\ q[j - 1] \in Nat /\ q[j] \in Nat
      BY <2>1, <2>2
    <2>4. T[j] \in Tokens /\ T[j].arg \in Nat
      <3>1. T[j] \in Tokens
        BY <1>1, ElementOfSeq DEF n
      <3> QED
        BY <3>1 DEF Tokens
    <2>5. T[j].form = "wrap" => j + T[j].arg <= n
      BY <1>5
    <2>6. T[j].form = "wrap" => i + T[j].arg <= 1 + n
      BY <1>3, <2>4, <2>5 DEF i
    <2>7. Inside(T[j], r, i) = Inside(T[j], q, j)
      <3>1. CASE T[j].form = "wrap"
        <4> DEFINE k == j + T[j].arg
        <4>1. i + T[j].arg = 1 + k /\ k \in 0..n
          <5> DEFINE g == T[j].arg
          <5>1. g \in Nat /\ j + g <= n
            BY <2>4, <2>5, <3>1
          <5> HIDE DEF g
          <5>2. (1 + j) + g = 1 + (j + g) /\ j + g \in 0..n
            BY <1>3, <5>1
          <5> QED
            BY <5>2 DEF g, i
        <4> HIDE DEF k
        <4>2. r[i + T[j].arg] = l + q[k] /\ q[k] \in Nat
          BY <1>10, <4>1
        <4>3. r[i + T[j].arg] - r[i] = q[k] - q[j]
          <5> DEFINE x == q[k]
                     y == q[j]
          <5>1. x \in Nat /\ y \in Nat
            BY <2>3, <4>2
          <5>2. r[i + T[j].arg] = l + x /\ r[i] = l + y
            BY <2>2, <4>2
          <5> HIDE DEF x, y
          <5>3. (l + x) - (l + y) = x - y
            BY <1>3, <5>1
          <5> QED
            BY <5>2, <5>3 DEF x, y
        <4> QED
          BY <3>1, <4>3 DEF Inside, k
      <3>2. CASE T[j].form # "wrap"
        BY <3>2 DEF Inside
      <3> QED
        BY <3>1, <3>2
    <2>8. TokenAt(c, T[j], l + q[j - 1], l + q[j], Inside(T[j], q, j))
      <3>1. TokenAt(b, T[j], q[j - 1], q[j], Inside(T[j], q, j))
        BY <1>5
      <3> QED
        BY <1>1, <1>2, <2>3, <2>4, <3>1, TokenRight DEF c, l
    <2>9. /\ U[i].form = "wrap" => i + U[i].arg <= 1 + n
          /\ TokenAt(c, U[i], r[i - 1], r[i], Inside(U[i], r, i))
      BY <2>2, <2>3, <2>6, <2>7, <2>8, Zenon
    <2> QED
      BY <2>9 DEF i
  <1>14. ASSUME NEW i \in 1..(1 + n)
         PROVE  /\ U[i].form = "wrap" => i + U[i].arg <= 1 + n
                /\ TokenAt(c, U[i], r[i - 1], r[i], Inside(U[i], r, i))
    <2>1. CASE i = 1
      <3>1. i - 1 = 0
        BY <2>1
      <3> QED
        BY <1>12, <2>1, <3>1
    <2>2. CASE i # 1
      <3> DEFINE j == i - 1
      <3>1. j \in 1..n /\ 1 + j = i
        BY <1>3, <2>2
      <3> HIDE DEF j
      <3> QED
        BY <1>13, <3>1
    <2> QED
      BY <2>1, <2>2
  <1>15. r[1 + n] = l + Len(b)
    <2>1. n \in 0..n
      BY <1>3
    <2> QED
      BY <1>5, <1>10, <2>1
  <1>16. Cuts(c, U, r)
    BY <1>7, <1>8, <1>9, <1>11, <1>14, <1>15 DEF Cuts
  <1>17. Encodes(c, U)
    BY <1>7, <1>8, <1>11, <1>16 DEF Encodes
  <1> QED
    BY <1>17 DEF c, U, a

\* A token alone.
LEMMA EncodesOne ==
  ASSUME NEW t \in Tokens, NEW hd, t.form # "wrap", IsHeadFor(hd, t, 0)
  PROVE  Encodes(hd \o t.b, <<t>>)
  <1>1. Encodes((hd \o t.b) \o << >>, <<t>> \o << >>)
    <2>1. Encodes(<< >>, << >>)
      BY EncodesNothing
    <2>2. IsHeadFor(hd, t, IF t.form = "wrap" THEN Len(<< >>) ELSE 0)
      OBVIOUS
    <2> QED
      BY <2>1, <2>2, EncodesBehind
  <1>2. hd \in Seq(Byte) /\ t.b \in Seq(Byte) /\ <<t>> \in Seq(Tokens)
    BY DEF IsHeadFor, Tokens
  <1>3. hd \o t.b \in Seq(Byte)
    BY <1>2, ConcatProperties
  <1>4. (hd \o t.b) \o << >> = hd \o t.b /\ <<t>> \o << >> = <<t>>
    BY <1>2, <1>3, ConcatEmptySeq
  <1> QED
    BY <1>1, <1>4

\* What is left of a sequence behind a position.
LEMMA RestType ==
  ASSUME NEW b \in Seq(Byte), NEW from \in Nat, from <= Len(b)
  PROVE  LET r == SubSeq(b, from + 1, Len(b))
         IN  r \in Seq(Byte) /\ Len(r) = Len(b) - from /\ \A i \in 1..Len(r) : r[i] = b[from + i]
  <1> DEFINE n == Len(b) - from
             r == SubSeq(b, from + 1, Len(b))
  <1>1. Len(b) \in Nat
    BY LenProperties
  <1>2. n \in Nat /\ from + n = Len(b) /\ from + n <= Len(b)
    BY <1>1
  <1> HIDE DEF n
  <1>3. SubSeq(b, from + 1, from + n) = r
    BY <1>2
  <1>4. r \in Seq(Byte) /\ Len(r) = n /\ \A i \in 1..n : r[i] = b[from + i]
    BY <1>2, <1>3, Stretch
  <1> QED
    BY <1>4 DEF n

\* Where a sequence holds another, the rest of it starts with that one.
LEMMA RestOfHeld ==
  ASSUME NEW b \in Seq(Byte), NEW s \in Seq(Byte), NEW from \in Nat, Holds(b, from, s)
  PROVE  SubSeq(b, from + 1, Len(b)) = s \o SubSeq(b, (from + Len(s)) + 1, Len(b))
  <1> DEFINE n == Len(b)
             k == Len(s)
             u == SubSeq(b, from + 1, n)
             v == SubSeq(b, (from + k) + 1, n)
             w == s \o v
  <1>1. n \in Nat /\ k \in Nat
    BY LenProperties
  <1>2. from + k <= n /\ \A j \in 1..k : b[from + j] = s[j]
    BY DEF Holds
  <1>3. from <= n /\ from + k \in Nat
    BY <1>1, <1>2
  <1>4. u \in Seq(Byte) /\ Len(u) = n - from /\ \A i \in 1..Len(u) : u[i] = b[from + i]
    BY <1>3, RestType
  <1>5. v \in Seq(Byte) /\ Len(v) = n - (from + k) /\ \A i \in 1..Len(v) : v[i] = b[(from + k) + i]
    BY <1>2, <1>3, RestType
  <1> DEFINE m == n - (from + k)
  <1> HIDE DEF u, v
  <1>6. /\ w \in Seq(Byte) /\ Len(w) = k + m
        /\ \A i \in 1..(k + m) : w[i] = IF i <= k THEN s[i] ELSE v[i - k]
    <2>1. Len(s) = k /\ Len(v) = m
      BY <1>5
    <2> HIDE DEF k, m
    <2> QED
      BY <1>5, <2>1, Joined
  <1> HIDE DEF w, n, k
  <1>7. Len(u) = k + m /\ m \in Nat
    BY <1>1, <1>2, <1>4
  <1>8. ASSUME NEW i \in 1..Len(u) PROVE u[i] = w[i]
    <2>1. u[i] = b[from + i] /\ i \in 1..(k + m)
      BY <1>4, <1>7
    <2>2. CASE i <= k
      <3>1. i \in 1..k
        BY <2>2
      <3> QED
        BY <1>2, <1>6, <2>1, <2>2, <3>1
    <2>3. CASE ~(i <= k)
      <3>1. i - k \in 1..m /\ (from + k) + (i - k) = from + i
        BY <1>1, <1>7, <2>1, <2>3
      <3>2. w[i] = v[i - k]
        BY <1>6, <2>1, <2>3
      <3>3. Len(v) = m
        BY <1>5
      <3>4. v[i - k] = b[(from + k) + (i - k)]
        BY <1>5, <3>1, <3>3
      <3> QED
        BY <2>1, <3>1, <3>2, <3>4
    <2> QED
      BY <2>2, <2>3
  <1>9. u = w
    BY <1>4, <1>6, <1>7, <1>8, SeqEqual
  <1> QED
    BY <1>9 DEF u, w, v, n, k

\* What the reader makes of the bytes from a position on.
HeadAt(b, at) == ReadHead(UsefulInputBuf_Init(UsefulBufC(SubSeq(b, at + 1, Len(b)))))

\* The reader finds a token where it is.
LEMMA TokenIsRead ==
  ASSUME NEW b \in Seq(Byte), NEW t \in Tokens, NEW from \in Nat, NEW to, NEW inside,
         TokenAt(b, t, from, to, inside)
  PROVE  /\ to = (from + HeadAt(b, from).in.cursor) + Len(t.b)
         /\ IsHeadOf(HeadAt(b, from), t, inside)
         /\ SubSeq(b, (to - Len(t.b)) + 1, to) = t.b
  <1>1. PICK hd \in Seq(Byte) :
          /\ IsHeadFor(hd, t, inside)
          /\ to = (from + Len(hd)) + Len(t.b)
          /\ Holds(b, from, hd) /\ Holds(b, from + Len(hd), t.b)
    BY DEF TokenAt
  <1> DEFINE at   == from + Len(hd)
             n    == Len(t.b)
             rest == SubSeq(b, at + 1, Len(b))
             all  == hd \o rest
  <1>2. t.b \in Seq(Byte) /\ n \in Nat /\ Len(hd) \in Nat /\ at \in Nat /\ Len(b) \in Nat
    <2>1. t.b \in Seq(Byte)
      BY DEF Tokens
    <2> QED
      BY <2>1, LenProperties
  <1>3. SubSeq(b, from + 1, Len(b)) = all
    BY <1>1, RestOfHeld
  <1>4. rest \in Seq(Byte)
    <2>1. Holds(b, from, hd)
      BY <1>1
    <2>2. at <= Len(b)
      BY <2>1 DEF Holds
    <2> HIDE DEF at
    <2> QED
      BY <1>2, <2>2, RestType
  <1> HIDE DEF rest
  <1>5. HeadAt(b, from) = ReadHead(At(all, 0))
    BY <1>3 DEF HeadAt, UsefulInputBuf_Init, UsefulBufC, At
  <1>6. ReadHead(At(all, 0)).in = At(all, Len(hd)) /\ IsHeadOf(ReadHead(At(all, 0)), t, inside)
    BY <1>1, <1>4 DEF IsHeadFor
  <1>7. HeadAt(b, from).in.cursor = Len(hd)
    BY <1>5, <1>6 DEF At
  <1>8. to = at + n
    BY <1>1
  <1>9. to - n = at
    <2> HIDE DEF at, n
    <2> QED
      BY <1>2, <1>8
  <1>10. SubSeq(b, at + 1, at + n) = t.b
    <2>1. Holds(b, at, t.b)
      BY <1>1
    <2>2. at + n <= Len(b) /\ \A j \in 1..n : b[at + j] = t.b[j]
      BY <2>1 DEF Holds
    <2>3. Len(t.b) = n
      OBVIOUS
    <2> HIDE DEF at, n
    <2> QED
      BY <1>2, <2>2, <2>3, StretchIs
  <1> QED
    BY <1>5, <1>6, <1>7, <1>8, <1>9, <1>10 DEF at, n

\* The reader takes bytes that are cut into tokens for their encoding.
LEMMA EncodingIsRead ==
  ASSUME NEW b, NEW T, Encodes(b, T)
  PROVE  IsEncoding(b, T)
  <1> DEFINE n == Len(T)
             E(f) == [i \in 0..Len(T) |->
                        IF i = 0 THEN 0
                        ELSE (f[i - 1] + HeadAt(b, f[i - 1]).in.cursor) + Len(T[i].b)]
             end == CHOOSE f : f = E(f)
  <1>1. b \in Seq(Byte) /\ T \in Seq(Tokens) /\ n \in Nat
    BY LenProperties DEF Encodes
  <1>2. PICK p \in [0..n -> Nat] : Cuts(b, T, p)
    BY DEF Encodes
  <1>3. /\ p[0] = 0 /\ p[n] = Len(b)
        /\ \A i \in 1..n : /\ T[i].form = "wrap" => i + T[i].arg <= n
                           /\ TokenAt(b, T[i], p[i - 1], p[i], Inside(T[i], p, i))
    BY <1>2 DEF Cuts
  <1>4. IsEncoding(b, T) <=>
          /\ end[Len(T)] = Len(b)
          /\ \A i \in 1..Len(T) :
               /\ T[i].form = "wrap" => i + T[i].arg <= Len(T)
               /\ IsHeadOf(HeadAt(b, end[i - 1]), T[i], end[i + T[i].arg] - end[i])
               /\ SubSeq(b, (end[i] - Len(T[i].b)) + 1, end[i]) = T[i].b
    BY DEF IsEncoding, HeadAt
  <1> HIDE DEF n
  <1>5. ASSUME NEW i \in 1..n
        PROVE  /\ p[i] = (p[i - 1] + HeadAt(b, p[i - 1]).in.cursor) + Len(T[i].b)
               /\ IsHeadOf(HeadAt(b, p[i - 1]), T[i], Inside(T[i], p, i))
               /\ SubSeq(b, (p[i] - Len(T[i].b)) + 1, p[i]) = T[i].b
    <2>1. i - 1 \in 0..n
      BY <1>1
    <2>2. p[i - 1] \in Nat
      BY <2>1
    <2>3. T[i] \in Tokens
      BY <1>1, ElementOfSeq DEF n
    <2>4. TokenAt(b, T[i], p[i - 1], p[i], Inside(T[i], p, i))
      BY <1>3
    <2> QED
      BY <1>1, <2>2, <2>3, <2>4, TokenIsRead
  <1>6. p = E(p)
    <2>1. \A i \in 0..n : i = 0 \/ i \in 1..n
      BY <1>1
    <2>2. \A i \in 0..n : p[i] = IF i = 0 THEN 0
                                ELSE (p[i - 1] + HeadAt(b, p[i - 1]).in.cursor) + Len(T[i].b)
      BY <1>3, <1>5, <2>1
    <2> QED
      BY <2>2 DEF n
  <1>7. ASSUME NEW f, f = E(f)
        PROVE  f = p
    <2> DEFINE S == {i \in Nat : i \in 0..n => f[i] = p[i]}
    <2>1. \A i \in 0..n : f[i] = IF i = 0 THEN 0
                                ELSE (f[i - 1] + HeadAt(b, f[i - 1]).in.cursor) + Len(T[i].b)
      BY <1>7 DEF n
    <2>2. 0 \in S
      <3>1. 0 \in 0..n
        BY <1>1
      <3> QED
        BY <1>3, <2>1, <3>1
    <2>3. ASSUME NEW i \in Nat, i \in S PROVE i + 1 \in S
      <3> DEFINE j == i + 1
      <3>1. j \in Nat /\ j - 1 = i /\ j # 0
        OBVIOUS
      <3> HIDE DEF j
      <3>2. ASSUME j \in 0..n PROVE f[j] = p[j]
        <4>1. i \in 0..n /\ j \in 1..n
          BY <1>1, <3>1, <3>2
        <4>2. f[j - 1] = p[j - 1]
          BY <2>3, <3>1, <4>1
        <4>3. f[j] = (f[j - 1] + HeadAt(b, f[j - 1]).in.cursor) + Len(T[j].b)
          BY <2>1, <3>1, <3>2
        <4>4. p[j] = (p[j - 1] + HeadAt(b, p[j - 1]).in.cursor) + Len(T[j].b)
          BY <1>5, <4>1
        <4> QED
          BY <4>2, <4>3, <4>4
      <3>3. j \in S
        BY <3>1, <3>2
      <3> QED
        BY <3>3 DEF j
    <2> HIDE DEF S
    <2>4. Nat \subseteq S
      BY <2>2, <2>3, NatSet
    <2>5. \A i \in 0..n : f[i] = p[i]
      <3>1. \A i \in 0..n : i \in S
        BY <2>4
      <3> QED
        BY <3>1 DEF S
    <2>6. f = [i \in 0..n |-> f[i]] /\ p = [i \in 0..n |-> p[i]]
      BY <1>7 DEF n
    <2> QED
      BY <2>5, <2>6
  <1> HIDE DEF E
  <1>8. end = p
    BY <1>6, <1>7
  <1> HIDE DEF end
  <1>9. ASSUME NEW i \in 1..n
        PROVE  IsHeadOf(HeadAt(b, p[i - 1]), T[i], p[i + T[i].arg] - p[i])
    <2>1. IsHeadOf(HeadAt(b, p[i - 1]), T[i], Inside(T[i], p, i))
      BY <1>5
    <2> DEFINE h == HeadAt(b, p[i - 1])
               t == T[i]
    <2> HIDE DEF h
    <2>2. CASE t.form = "wrap"
      BY <2>1, <2>2 DEF Inside
    <2>3. CASE t.form # "wrap"
      <3> HIDE DEF t
      <3> QED
        BY <2>1, <2>3 DEF IsHeadOf, h, t
    <2> QED
      BY <2>2, <2>3
  <1> QED
    BY <1>3, <1>4, <1>5, <1>8, <1>9 DEF n

\* The head the encoder writes for a token.
LEMMA HeadIsFor ==
  ASSUME NEW t \in Tokens, t.form # "indefinite", NEW n \in Nat, IsUint64(n), NEW inside,
         n = IF t.form = "wrap" THEN inside ELSE t.arg,
         t.type = 7 => n \notin 24..31
  PROVE  IsHeadFor(QCBOREncode_EncodeHead(t.type, 0, n), t, inside)
  <1> DEFINE hd == QCBOREncode_EncodeHead(t.type, 0, n)
  <1>1. t.type \in 0..7 /\ 0 \in {0, 1, 2, 4, 8}
    BY DEF Tokens
  <1>2. \A rest \in Seq(Byte) : IsRead(t.type, n, 0, hd, hd \o rest)
    BY <1>1, HeadReads
  <1>3. hd \in Seq(Byte) /\ Len(hd) >= 1
    <2>1. << >> \in Seq(Byte)
      OBVIOUS
    <2> QED
      BY <1>2, <2>1 DEF IsRead
  <1> HIDE DEF hd
  <1>4. ASSUME NEW rest \in Seq(Byte)
        PROVE  /\ ReadHead(At(hd \o rest, 0)).in = At(hd \o rest, Len(hd))
               /\ IsHeadOf(ReadHead(At(hd \o rest, 0)), t, inside)
    <2> DEFINE h == ReadHead(At(hd \o rest, 0))
    <2>1. /\ h.in = At(hd \o rest, Len(hd)) /\ h.type = t.type /\ h.arg = n
          /\ h.info < 28 /\ (h.info = 24 => 0 >= 1 \/ n >= 24)
      BY <1>2 DEF IsRead
    <2> HIDE DEF h
    <2>2. ~h.in.err
      BY <2>1 DEF At
    <2>3. h.type = 7 /\ h.info = 24 => h.arg > 31
      BY <2>1
    <2>4. IsHeadOf(h, t, inside)
      BY <2>1, <2>2, <2>3 DEF IsHeadOf
    <2> QED
      BY <2>1, <2>4 DEF h
  <1>5. IsHeadFor(hd, t, inside)
    BY <1>3, <1>4 DEF IsHeadFor
  <1> QED
    BY <1>5 DEF hd

\* The byte it writes for a level without a length, or for the end of one.
LEMMA IndefiniteIsFor ==
  ASSUME NEW type \in {4, 5, 7}, NEW n, NEW inside
  PROVE  IsHeadFor(QCBOREncode_EncodeHead(type + INDEFINITE_LEN_TYPE_MODIFIER, 0, n),
                   Indefinite(type), inside)
  <1> DEFINE c  == type * 32 + 31
             hd == <<c>>
             t  == Indefinite(type)
  <1>1. c % 256 = c /\ c \in Byte /\ c \div 32 = type /\ c % 32 = 31
    <2>1. type \in 0..7 /\ 31 \in 0..31 /\ c = type * 32 + 31
      OBVIOUS
    <2> HIDE DEF c
    <2>2. IsInitial(c, type, 31)
      BY <2>1, InitialByte
    <2> QED
      BY <2>2 DEF IsInitial
  <1>2. QCBOREncode_EncodeHead(type + INDEFINITE_LEN_TYPE_MODIFIER, 0, n) = <<c % 256>>
    <2>1. /\ type + INDEFINITE_LEN_TYPE_MODIFIER > INDEFINITE_LEN_TYPE_MODIFIER
          /\ (type + INDEFINITE_LEN_TYPE_MODIFIER) - INDEFINITE_LEN_TYPE_MODIFIER = type
      BY DEF INDEFINITE_LEN_TYPE_MODIFIER
    <2> QED
      BY <2>1 DEF QCBOREncode_EncodeHead
  <1> HIDE DEF c
  <1>3. hd \in Seq(Byte) /\ Len(hd) = 1 /\ hd[1] = c
    BY <1>1
  <1>4. t.form = "indefinite" /\ t.type = type
    BY DEF Indefinite
  <1> HIDE DEF hd, t
  <1>5. ASSUME NEW rest \in Seq(Byte)
        PROVE  /\ ReadHead(At(hd \o rest, 0)).in = At(hd \o rest, Len(hd))
               /\ IsHeadOf(ReadHead(At(hd \o rest, 0)), t, inside)
    <2> DEFINE all   == hd \o rest
               r     == At(all, 0)
               first == UsefulInputBuf_GetUint(r, 1)
               info  == first.got % 32
               arg   == IF info \in 24..27
                        THEN UsefulInputBuf_GetUint(first.in, <<1, 2, 4, 8>>[info - 23])
                        ELSE [in |-> first.in, got |-> info]
               h     == ReadHead(r)
    <2>1. h = [in |-> arg.in, type |-> first.got \div 32, info |-> info, arg |-> arg.got]
      BY DEF ReadHead
    <2>2. all \in Seq(Byte) /\ Len(all) >= 1 /\ all[1] = c
      BY <1>3, OneInFront
    <2> HIDE DEF h, all
    <2>3. first = [in |-> At(all, 1), got |-> c]
      BY <2>2, FirstByte
    <2> HIDE DEF first
    <2>4. first.in = At(all, 1) /\ first.got = c /\ info = 31
      BY <1>1, <2>3
    <2> HIDE DEF info
    <2>5. arg.in = At(all, 1) /\ arg.got = 31
      BY <2>4
    <2> HIDE DEF arg
    <2>6. h.in = At(all, 1) /\ h.type = type /\ h.info = 31
      BY <1>1, <2>1, <2>4, <2>5
    <2>7. ~h.in.err
      BY <2>6 DEF At
    <2>8. IsHeadOf(h, t, inside)
      BY <1>4, <2>6, <2>7 DEF IsHeadOf
    <2>9. h.in = At(all, Len(hd))
      BY <1>3, <2>6
    <2> QED
      BY <2>8, <2>9 DEF h, r, all
  <1>6. IsHeadFor(hd, t, inside)
    BY <1>3, <1>5 DEF IsHeadFor
  <1>7. QCBOREncode_EncodeHead(type + INDEFINITE_LEN_TYPE_MODIFIER, 0, n) = hd
    BY <1>1, <1>2 DEF hd
  <1> QED
    BY <1>6, <1>7 DEF t

-----------------------------------------------------------------------------
(* What a function writes *)

\* A context that had no error says so.
Fair(c) == Good(c) /\ (~c.failed => c.uError = "SUCCESS")

\* Neither the encoder nor its buffer had an error.
Clean(c) == ~c.failed /\ ~c.out.err

\* A level with k more items.
Raised(level, k) == [level EXCEPT !.count = @ + k]

\* The levels with k more items in the last one.
Counted(nest, k) == [nest EXCEPT ![Len(nest)] = Raised(@, k)]

\* Bytes are written behind the output, unless something goes wrong.
Puts(c, d, b) ==
    /\ Fair(d)
    /\ Clean(d) => Clean(c) /\ d.nesting = c.nesting /\ d.out.data = c.out.data \o b

\* So are tokens, but for the last bytes, and k items are counted.
Writes(c, d, T, k, owes) ==
    /\ Fair(d)
    /\ Clean(d) => /\ Clean(c) /\ d.nesting = Counted(c.nesting, k)
                   /\ \E b \in Seq(Byte) : d.out.data = c.out.data \o b /\ Encodes(b \o owes, T)

\* Putting in at the end.
LEMMA SplicedEnd ==
  ASSUME NEW data \in Seq(Byte), NEW new \in Seq(Byte)
  PROVE  Spliced(data, new, Len(data)) = data \o new
  <1> DEFINE n == Len(data)
             a == SubSeq(data, 1, n)
             b == SubSeq(data, n + 1, n)
  <1>1. n \in Nat
    BY LenProperties
  <1>2. a = data /\ b = << >>
    BY <1>1, SubSeqFull, SubSeqEmpty
  <1>3. data \o new \in Seq(Byte)
    BY ConcatProperties
  <1>4. (data \o new) \o << >> = data \o new
    BY <1>3, ConcatEmptySeq
  <1>5. Spliced(data, new, Len(data)) = (a \o new) \o b
    BY DEF Spliced
  <1> HIDE DEF a, b, n
  <1> QED
    BY <1>2, <1>4, <1>5

\* Three sequences joined from the left or from the right.
InTurn(a, b, c) == (a \o b) \o c = a \o (b \o c)

\* It does not matter which bytes are joined first.
LEMMA JoinedInTurn ==
  ASSUME NEW a \in Seq(Byte), NEW b \in Seq(Byte), NEW c \in Seq(Byte)
  PROVE  InTurn(a, b, c)
  BY ConcatAssociative DEF InTurn

\* Levels, for any count.
AnyLevels == [type : Nat, count : Nat, start : Nat]

\* Counting twice in a level.
LEMMA LevelCounted ==
  ASSUME NEW x \in AnyLevels, NEW k \in Nat, NEW m \in Nat
  PROVE  /\ Raised(x, k) \in AnyLevels /\ Raised(x, 0) = x
         /\ Raised(Raised(x, k), m) = Raised(x, k + m)
  <1> DEFINE v == x.count
             t == x.type
             s == x.start
             R(w) == [type |-> t, count |-> w, start |-> s]
  <1>1. x = R(v) /\ v \in Nat /\ t \in Nat /\ s \in Nat
    BY DEF AnyLevels
  <1> HIDE DEF v, t, s
  <1>2. v + 0 = v /\ (v + k) + m = v + (k + m) /\ v + k \in Nat /\ k + m \in Nat
    BY <1>1
  <1>3. \A w, n : Raised(R(w), n) = R(w + n)
    BY DEF Raised
  <1>4. R(v + k) \in AnyLevels
    BY <1>1, <1>2 DEF AnyLevels
  <1> HIDE DEF R
  <1>5. \A n : Raised(x, n) = R(v + n)
    BY <1>1, <1>3
  <1>6. Raised(Raised(x, k), m) = R((v + k) + m)
    BY <1>3, <1>5
  <1> QED
    BY <1>1, <1>2, <1>4, <1>5, <1>6

\* Counting twice.
LEMMA CountedTwice ==
  ASSUME NEW nest \in Seq(Levels), Len(nest) >= 1
  PROVE  /\ Counted(nest, 0) = nest
         /\ \A k, m \in Nat : Counted(Counted(nest, k), m) = Counted(nest, k + m)
  <1> DEFINE n == Len(nest)
             x == nest[n]
  <1>1. n \in Nat /\ DOMAIN nest = 1..n /\ n \in 1..n
    BY LenProperties
  <1>2. \A i \in 1..n : nest[i] \in AnyLevels
    <2>1. \A i \in 1..n : nest[i] \in Levels
      BY ElementOfSeq
    <2> QED
      BY <2>1, LimitsAssumption DEF Levels, AnyLevels, CountRange
  <1>3. nest \in Seq(AnyLevels)
    <2>1. Levels \subseteq AnyLevels
      BY LimitsAssumption DEF Levels, AnyLevels, CountRange
    <2> QED
      BY <2>1, SeqMonotonic
  <1>4. x \in AnyLevels
    BY <1>1, <1>2
  <1> HIDE DEF n
  <1>5. Counted(nest, 0) = nest
    <2>1. Raised(x, 0) = x
      <3> HIDE DEF x
      <3> QED
        BY <1>4, LevelCounted
    <2>2. Counted(nest, 0) = [nest EXCEPT ![n] = Raised(x, 0)]
      BY DEF Counted, n
    <2> QED
      BY <1>1, <2>1, <2>2
  <1>6. ASSUME NEW k \in Nat, NEW m \in Nat
        PROVE  Counted(Counted(nest, k), m) = Counted(nest, k + m)
    <2> DEFINE y == Raised(x, k)
               z == Raised(y, m)
               c == Counted(nest, k)
    <2>1. c = [nest EXCEPT ![n] = y]
      BY DEF Counted, n
    <2>2. y \in AnyLevels /\ z = Raised(x, k + m)
      <3> HIDE DEF x
      <3> QED
        BY <1>4, LevelCounted
    <2>3. n = Len(nest)
      BY DEF n
    <2>4. Counted(nest, k + m) = [nest EXCEPT ![n] = Raised(x, k + m)]
      BY DEF Counted, n
    <2> HIDE DEF y, c, x
    <2>5. Len(c) = n /\ c[n] = y
      BY <1>1, <1>3, <2>1, <2>2, <2>3, ExceptSeq
    <2>6. Counted(c, m) = [c EXCEPT ![n] = z]
      BY <2>5 DEF Counted
    <2> HIDE DEF z
    <2>7. [c EXCEPT ![n] = z] = [nest EXCEPT ![n] = z]
      BY <1>1, <2>1
    <2>8. Counted(c, m) = Counted(nest, k + m)
      BY <2>2, <2>4, <2>6, <2>7
    <2> QED
      BY <2>8 DEF c
  <1> QED
    BY <1>5, <1>6

\* Appending puts bytes.
LEMMA AppendPuts ==
  ASSUME NEW c, Fair(c), NEW b \in Seq(Byte)
  PROVE  Puts(c, [c EXCEPT !.out = UsefulOutBuf_AppendUsefulBuf(@, b)], b)
  <1> DEFINE n == Len(c.out.data)
             d == Write(c, b, n)
  <1>1. Good(c) /\ c.out.data \in Seq(Byte) /\ n \in 0..n /\ c \in Contexts
    BY GoodFields DEF Fair, Good
  <1>2. /\ Grows(c, d) /\ d.nesting = c.nesting /\ d.uError = c.uError
        /\ ~d.out.err => d.out.data = Spliced(c.out.data, b, n)
    BY <1>1, WriteGrows
  <1>3. d.failed = c.failed
    BY <1>1 DEF Write, Contexts
  <1>4. Spliced(c.out.data, b, n) = c.out.data \o b
    BY <1>1, SplicedEnd
  <1>5. [c EXCEPT !.out = UsefulOutBuf_AppendUsefulBuf(@, b)] = d
    BY DEF Write, UsefulOutBuf_AppendUsefulBuf, UsefulOutBuf_GetEndPosition
  <1> HIDE DEF d, n
  <1>6. Puts(c, d, b)
    BY <1>2, <1>3, <1>4 DEF Puts, Fair, Clean, Grows
  <1> QED
    BY <1>5, <1>6

\* Putting twice.
LEMMA PutsTwice ==
  ASSUME NEW c, NEW d, NEW e, NEW a \in Seq(Byte), NEW b \in Seq(Byte), Fair(c),
         Puts(c, d, a), Puts(d, e, b)
  PROVE  Puts(c, e, a \o b)
  <1>1. c.out.data \in Seq(Byte)
    BY GoodFields DEF Fair
  <1>2. InTurn(c.out.data, a, b)
    BY <1>1, JoinedInTurn
  <1>3. Fair(e)
    BY DEF Puts
  <1>4. ASSUME Clean(e)
        PROVE  Clean(c) /\ e.nesting = c.nesting /\ e.out.data = c.out.data \o (a \o b)
    <2>1. Clean(d) /\ e.nesting = d.nesting /\ e.out.data = d.out.data \o b
      BY <1>4 DEF Puts
    <2>2. Clean(c) /\ d.nesting = c.nesting /\ d.out.data = c.out.data \o a
      BY <2>1 DEF Puts
    <2> QED
      BY <1>2, <2>1, <2>2 DEF InTurn
  <1> QED
    BY <1>3, <1>4 DEF Puts

\* The bytes that were put are those of tokens.
LEMMA PutsWrites ==
  ASSUME NEW c, NEW d, NEW b \in Seq(Byte), Fair(c), Puts(c, d, b), NEW T, NEW owes, Encodes(b \o owes, T)
  PROVE  Writes(c, d, T, 0, owes)
  <1>1. c.nesting \in Seq(Levels) /\ Len(c.nesting) >= 1
    BY GoodFields DEF Fair
  <1>2. Counted(c.nesting, 0) = c.nesting
    BY <1>1, CountedTwice
  <1> QED
    BY <1>2 DEF Puts, Writes

\* An item is counted behind what is written.
LEMMA ItemWrites ==
  ASSUME NEW c, NEW d, NEW T, NEW owes, Fair(c), Writes(c, d, T, 0, owes)
  PROVE  Writes(c, IncrementMapOrArrayCount(d), T, 1, owes)
  <1> DEFINE e == IncrementMapOrArrayCount(d)
  <1>1. Fair(d) /\ Good(d) /\ d \in Contexts
    BY DEF Writes, Fair, Good
  <1>2. Grows(d, e) /\ e.out = d.out
    BY <1>1, IncrementGrows
  <1>3. c.nesting \in Seq(Levels) /\ Len(c.nesting) >= 1
    BY GoodFields DEF Fair
  <1>4. CASE d.uError # "SUCCESS"
    <2>1. e = d
      BY <1>4 DEF IncrementMapOrArrayCount
    <2>2. d.failed
      BY <1>1, <1>4 DEF Fair
    <2> HIDE DEF e
    <2> QED
      BY <1>1, <2>1, <2>2 DEF Writes, Clean, e
  <1>5. CASE d.uError = "SUCCESS" /\ 1 >= MAX_ITEMS_IN_ARRAY - Current(d).count
    <2>1. e = SetError(d, "ARRAY_TOO_LONG")
      BY <1>5 DEF IncrementMapOrArrayCount, Nesting_Increment
    <2>2. e.failed
      BY <1>1, <2>1 DEF SetError, Contexts
    <2> HIDE DEF e
    <2> QED
      BY <1>2, <2>2 DEF Writes, Clean, Fair, Grows, e
  <1>6. CASE d.uError = "SUCCESS" /\ ~(1 >= MAX_ITEMS_IN_ARRAY - Current(d).count)
    <2>1. e = [d EXCEPT !.nesting[Len(d.nesting)].count = @ + 1]
      BY <1>6 DEF IncrementMapOrArrayCount, Nesting_Increment
    <2>2. e.failed = d.failed /\ e.uError = d.uError /\ e.nesting = Counted(d.nesting, 1)
      BY <1>1, <2>1 DEF Counted, Raised, Contexts
    <2> HIDE DEF e
    <2>3. Fair(e)
      BY <1>1, <1>2, <2>2 DEF Fair, Grows
    <2>4. Clean(e) => Clean(d)
      BY <1>2, <2>2 DEF Clean
    <2>5. ASSUME Clean(e)
          PROVE  /\ Clean(c) /\ e.nesting = Counted(c.nesting, 1)
                 /\ \E b \in Seq(Byte) : e.out.data = c.out.data \o b /\ Encodes(b \o owes, T)
      <3>1. /\ Clean(c) /\ d.nesting = Counted(c.nesting, 0)
            /\ \E b \in Seq(Byte) : d.out.data = c.out.data \o b /\ Encodes(b \o owes, T)
        BY <2>4, <2>5 DEF Writes
      <3>2. d.nesting = c.nesting
        BY <1>3, <3>1, CountedTwice
      <3> QED
        BY <1>2, <2>2, <3>1, <3>2
    <2> QED
      BY <2>3, <2>5 DEF Writes, e
  <1> QED
    BY <1>4, <1>5, <1>6

\* A function may do nothing.
LEMMA NothingWrites ==
  ASSUME NEW c, Fair(c)
  PROVE  Writes(c, c, << >>, 0, << >>)
  <1>1. c.nesting \in Seq(Levels) /\ Len(c.nesting) >= 1 /\ c.out.data \in Seq(Byte)
    BY GoodFields DEF Fair
  <1>2. Counted(c.nesting, 0) = c.nesting
    BY <1>1, CountedTwice
  <1>3. c.out.data \o << >> = c.out.data
    BY <1>1, ConcatEmptySeq
  <1>4. << >> \in Seq(Byte) /\ << >> \o << >> = << >>
    <2>1. << >> \in Seq(Byte)
      OBVIOUS
    <2> QED
      BY <2>1, ConcatEmptySeq
  <1>5. Encodes(<< >> \o << >>, << >>)
    BY <1>4, EncodesNothing
  <1> QED
    BY <1>2, <1>3, <1>4, <1>5 DEF Writes

\* Writing twice.
LEMMA WritesTwice ==
  ASSUME NEW c, NEW d, NEW e, Fair(c), NEW S, NEW k \in Nat, Writes(c, d, S, k, << >>),
         NEW T, NEW m \in Nat, NEW owes \in Seq(Byte), Writes(d, e, T, m, owes),
         NEW n, n = k + m
  PROVE  Writes(c, e, S \o T, n, owes)
  <1>1. Fair(e)
    BY DEF Writes
  <1>2. c.out.data \in Seq(Byte) /\ c.nesting \in Seq(Levels) /\ Len(c.nesting) >= 1
    BY GoodFields DEF Fair
  <1>3. ASSUME Clean(e)
        PROVE  /\ Clean(c) /\ e.nesting = Counted(c.nesting, n)
               /\ \E b \in Seq(Byte) : e.out.data = c.out.data \o b /\ Encodes(b \o owes, S \o T)
    <2>1. Clean(d) /\ e.nesting = Counted(d.nesting, m)
      BY <1>3 DEF Writes
    <2>2. PICK b \in Seq(Byte) : e.out.data = d.out.data \o b /\ Encodes(b \o owes, T)
      BY <1>3 DEF Writes
    <2>3. Clean(c) /\ d.nesting = Counted(c.nesting, k)
      BY <2>1 DEF Writes
    <2>4. PICK a \in Seq(Byte) : d.out.data = c.out.data \o a /\ Encodes(a \o << >>, S)
      BY <2>1 DEF Writes
    <2>5. Encodes(a, S)
      BY <2>4, ConcatEmptySeq
    <2>6. Encodes(a \o (b \o owes), S \o T)
      BY <2>2, <2>5, EncodesJoined
    <2>7. InTurn(a, b, owes) /\ InTurn(c.out.data, a, b)
      BY <1>2, JoinedInTurn
    <2>8. a \o b \in Seq(Byte)
      BY ConcatProperties
    <2>9. e.nesting = Counted(c.nesting, n)
      BY <1>2, <2>1, <2>3, CountedTwice
    <2> DEFINE data == c.out.data
    <2>10. Encodes((a \o b) \o owes, S \o T)
      BY <2>6, <2>7 DEF InTurn
    <2>11. e.out.data = data \o (a \o b)
      BY <2>2, <2>4, <2>7 DEF InTurn
    <2> QED
      BY <2>3, <2>8, <2>9, <2>10, <2>11
  <1> QED
    BY <1>1, <1>3 DEF Writes

\* A token of the document, and one of its parts.
LEMMA TokenType ==
  ASSUME NEW type \in 0..7, NEW arg \in Nat, NEW b \in Seq(Byte)
  PROVE  LET t == Token(type, arg, b)
         IN  /\ t \in Tokens /\ t.form = "item" /\ t.type = type /\ t.arg = arg /\ t.b = b
             /\ <<t>> \in Seq(Tokens) /\ Len(<<t>>) = 1
  BY DEF Token, Tokens

\* The head of an item, and the bytes behind it when the function appends them.
LEMMA TokenWrites ==
  ASSUME NEW c, Fair(c), NEW type \in 0..7, NEW arg \in Nat, IsUint64(arg), NEW b \in Seq(Byte),
         type = 7 => arg \notin 24..31
  PROVE  LET d == AppendCBORHead(c, type, arg, 0)
         IN  /\ Writes(c, d, <<Token(type, arg, b)>>, 0, b)
             /\ Writes(c, [d EXCEPT !.out = UsefulOutBuf_AppendUsefulBuf(@, b)],
                       <<Token(type, arg, b)>>, 0, << >>)
  <1> DEFINE t  == Token(type, arg, b)
             hd == QCBOREncode_EncodeHead(type, 0, arg)
             d  == AppendCBORHead(c, type, arg, 0)
             e  == [d EXCEPT !.out = UsefulOutBuf_AppendUsefulBuf(@, b)]
  <1>1. t \in Tokens /\ t.form = "item" /\ t.type = type /\ t.arg = arg /\ t.b = b
    BY TokenType
  <1> HIDE DEF t
  <1>2. IsHeadFor(hd, t, 0)
    <2>1. IsHeadFor(QCBOREncode_EncodeHead(t.type, 0, arg), t, 0)
      BY <1>1, HeadIsFor
    <2> QED
      BY <1>1, <2>1
  <1>3. hd \in Seq(Byte)
    BY <1>2 DEF IsHeadFor
  <1>4. Puts(c, d, hd)
    BY <1>3, AppendPuts DEF AppendCBORHead
  <1>5. Fair(d)
    BY <1>4 DEF Puts
  <1> HIDE DEF d, hd
  <1>6. Puts(d, e, b)
    BY <1>5, AppendPuts
  <1> HIDE DEF e
  <1>7. Encodes(hd \o b, <<t>>)
    BY <1>1, <1>2, EncodesOne
  <1>8. Writes(c, d, <<t>>, 0, b)
    BY <1>3, <1>4, <1>7, PutsWrites
  <1>9. hd \o b \in Seq(Byte) /\ (hd \o b) \o << >> = hd \o b
    BY <1>3, ConcatProperties, ConcatEmptySeq
  <1>10. Puts(c, e, hd \o b)
    BY <1>3, <1>4, <1>6, PutsTwice
  <1>11. Encodes((hd \o b) \o << >>, <<t>>)
    BY <1>7, <1>9
  <1>12. Writes(c, e, <<t>>, 0, << >>)
    BY <1>9, <1>10, <1>11, PutsWrites
  <1> QED
    BY <1>8, <1>12 DEF t, d, e

\* QCBOREncode_AddUInt64 and QCBOREncode_AddInt64.
LEMMA UInt64Writes ==
  ASSUME NEW c, Fair(c), NEW n \in Nat, IsUint64(n)
  PROVE  Writes(c, QCBOREncode_AddUInt64(c, n), <<Int_(n)>>, 1, << >>)
  <1>1. << >> \in Seq(Byte) /\ 0 \in 0..7 /\ 0 # 7
    BY EmptySeq
  <1>2. Writes(c, AppendCBORHead(c, 0, n, 0), <<Token(0, n, << >>)>>, 0, << >>)
    BY <1>1, TokenWrites
  <1>3. ~(n < 0)
    OBVIOUS
  <1>4. Writes(c, IncrementMapOrArrayCount(AppendCBORHead(c, 0, n, 0)), <<Token(0, n, << >>)>>, 1, << >>)
    BY <1>2, ItemWrites
  <1> QED
    BY <1>3, <1>4 DEF QCBOREncode_AddUInt64, Int_, POSITIVE_INT

\* QCBOREncode_AddInt64.
LEMMA Int64Writes ==
  ASSUME NEW c, Fair(c), NEW n \in Int, IsUint64(IF n < 0 THEN -(n + 1) ELSE n)
  PROVE  Writes(c, QCBOREncode_AddInt64(c, n), <<Int_(n)>>, 1, << >>)
  <1>1. CASE n < 0
    <2> DEFINE m == -(n + 1)
    <2>1. m = -1 - n /\ m \in Nat /\ IsUint64(m) /\ << >> \in Seq(Byte) /\ 1 \in 0..7 /\ 1 # 7
      BY <1>1, EmptySeq
    <2> HIDE DEF m
    <2>2. Writes(c, AppendCBORHead(c, 1, m, 0), <<Token(1, m, << >>)>>, 0, << >>)
      BY <2>1, TokenWrites
    <2>3. Writes(c, IncrementMapOrArrayCount(AppendCBORHead(c, 1, m, 0)), <<Token(1, m, << >>)>>, 1, << >>)
      BY <2>2, ItemWrites
    <2>4. Int_(n) = Token(1, m, << >>)
      BY <1>1, <2>1 DEF Int_
    <2>5. QCBOREncode_AddInt64(c, n) = IncrementMapOrArrayCount(AppendCBORHead(c, 1, m, 0))
      BY <1>1 DEF QCBOREncode_AddInt64, NEGATIVE_INT, m
    <2> QED
      BY <2>3, <2>4, <2>5
  <1>2. CASE ~(n < 0)
    <2>1. n \in Nat /\ IsUint64(n)
      BY <1>2
    <2>2. Writes(c, QCBOREncode_AddUInt64(c, n), <<Int_(n)>>, 1, << >>)
      BY <2>1, UInt64Writes
    <2> QED
      BY <1>2, <2>2 DEF QCBOREncode_AddInt64, QCBOREncode_AddUInt64
  <1> QED
    BY <1>1, <1>2

\* QCBOREncode_AddBuffer: a byte or text string, encoded items, and a length alone.
LEMMA StringWrites ==
  ASSUME NEW c, Fair(c), NEW type \in {BYTE_STRING, TEXT_STRING}, NEW b \in Seq(Byte), IsUint64(Len(b))
  PROVE  Writes(c, QCBOREncode_AddBuffer(c, type, b), <<Token(type, Len(b), b)>>, 1, << >>)
  <1>1. type \in 0..7 /\ type # 7 /\ type # RAW /\ type # BSTR_LEN_ONLY
    BY DEF BYTE_STRING, TEXT_STRING, RAW, BSTR_LEN_ONLY
  <1>2. Len(b) \in Nat
    BY LenProperties
  <1> DEFINE n == Len(b)
             d == AppendCBORHead(c, type, n, 0)
             e == [d EXCEPT !.out = UsefulOutBuf_AppendUsefulBuf(@, b)]
  <1>3. QCBOREncode_AddBuffer(c, type, b) = IncrementMapOrArrayCount(e)
    BY <1>1 DEF QCBOREncode_AddBuffer
  <1>4. Writes(c, e, <<Token(type, n, b)>>, 0, << >>)
    BY <1>1, <1>2, TokenWrites
  <1> HIDE DEF e
  <1>5. Writes(c, IncrementMapOrArrayCount(e), <<Token(type, n, b)>>, 1, << >>)
    BY <1>4, ItemWrites
  <1> QED
    BY <1>3, <1>5

\* QCBOREncode_AddBuffer of a length alone.
LEMMA LengthWrites ==
  ASSUME NEW c, Fair(c), NEW b \in Seq(Byte), IsUint64(Len(b))
  PROVE  Writes(c, QCBOREncode_AddBuffer(c, BSTR_LEN_ONLY, b), <<Bytes_(b)>>, 1, b)
  <1>1. BYTE_STRING = 2 /\ BSTR_LEN_ONLY # RAW /\ 2 \in 0..7 /\ 2 # 7
    BY DEF BYTE_STRING, RAW, BSTR_LEN_ONLY
  <1>2. Len(b) \in Nat
    BY LenProperties
  <1> DEFINE n == Len(b)
             d == AppendCBORHead(c, 2, n, 0)
  <1>3. QCBOREncode_AddBuffer(c, BSTR_LEN_ONLY, b) = IncrementMapOrArrayCount(d)
    BY <1>1 DEF QCBOREncode_AddBuffer
  <1>4. Writes(c, d, <<Token(2, n, b)>>, 0, b)
    BY <1>1, <1>2, TokenWrites
  <1> HIDE DEF d
  <1>5. Writes(c, IncrementMapOrArrayCount(d), <<Token(2, n, b)>>, 1, b)
    BY <1>4, ItemWrites
  <1> QED
    BY <1>3, <1>5 DEF Bytes_

\* QCBOREncode_AddBuffer of bytes that are encoded already.
LEMMA EncodedWrites ==
  ASSUME NEW c, Fair(c), NEW b \in Seq(Byte), NEW T, Encodes(b, T)
  PROVE  Writes(c, QCBOREncode_AddBuffer(c, RAW, b), T, 1, << >>)
  <1> DEFINE d == [c EXCEPT !.out = UsefulOutBuf_AppendUsefulBuf(@, b)]
  <1>1. QCBOREncode_AddBuffer(c, RAW, b) = IncrementMapOrArrayCount(d)
    BY DEF QCBOREncode_AddBuffer, RAW, BSTR_LEN_ONLY
  <1>2. Puts(c, d, b)
    BY AppendPuts
  <1> HIDE DEF d
  <1>3. Encodes(b \o << >>, T)
    BY ConcatEmptySeq
  <1>4. Writes(c, d, T, 0, << >>)
    BY <1>2, <1>3, PutsWrites
  <1> QED
    BY <1>1, <1>4, ItemWrites

\* QCBOREncode_AddTag.
LEMMA TagWrites ==
  ASSUME NEW c, Fair(c), NEW tag \in Nat, IsUint64(tag)
  PROVE  Writes(c, QCBOREncode_AddTag(c, tag), <<Tag_(tag)>>, 0, << >>)
  <1>1. << >> \in Seq(Byte) /\ 6 \in 0..7 /\ 6 # 7
    BY EmptySeq
  <1>2. Writes(c, AppendCBORHead(c, 6, tag, 0), <<Token(6, tag, << >>)>>, 0, << >>)
    BY <1>1, TokenWrites
  <1> QED
    BY <1>2 DEF QCBOREncode_AddTag, Tag_, TAG

\* An error that is set.
LEMMA FailedWrites ==
  ASSUME NEW c, Fair(c), NEW err \in Errors, err # "SUCCESS", NEW T, NEW k, NEW owes
  PROVE  Writes(c, SetError(c, err), T, k, owes)
  <1>1. Good(c) /\ c \in Contexts
    BY DEF Fair, Good
  <1>2. SetError(c, err).failed
    BY <1>1 DEF SetError, Contexts
  <1>3. Good(SetError(c, err))
    BY <1>1, SetErrorGrows DEF Grows
  <1> QED
    BY <1>2, <1>3 DEF Writes, Fair, Clean

\* QCBOREncode_AddType7: the reserved simple values set the error.
LEMMA Type7Writes ==
  ASSUME NEW c, Fair(c), NEW num \in Nat, IsUint64(num)
  PROVE  Writes(c, QCBOREncode_AddType7(c, 0, num), <<Simple_(num)>>, 1, << >>)
  <1> DEFINE d == QCBOREncode_AddType7(c, 0, num)
             e == AppendCBORHead(c, 7, num, 0)
  <1>1. CASE c.uError = "SUCCESS" /\ num \in 24..31
    <2>1. d = SetError(c, "ENCODE_UNSUPPORTED") /\ "ENCODE_UNSUPPORTED" \in Errors
      BY <1>1 DEF QCBOREncode_AddType7, Errors
    <2> QED
      BY <2>1, FailedWrites
  <1>2. CASE c.uError = "SUCCESS" /\ num \notin 24..31
    <2>1. d = IncrementMapOrArrayCount(e)
      BY <1>2 DEF QCBOREncode_AddType7, SIMPLE
    <2>2. << >> \in Seq(Byte) /\ 7 \in 0..7
      BY EmptySeq
    <2>3. Writes(c, e, <<Token(7, num, << >>)>>, 0, << >>)
      BY <1>2, <2>2, TokenWrites
    <2> HIDE DEF d, e
    <2> QED
      BY <2>1, <2>3, ItemWrites DEF Simple_, d
  <1>3. CASE c.uError # "SUCCESS"
    <2>1. c.failed /\ Good(c) /\ c \in Contexts
      BY <1>3 DEF Fair, Good
    <2>2. d = IncrementMapOrArrayCount(e)
      BY <1>3 DEF QCBOREncode_AddType7, SIMPLE
    <2>3. Grows(c, e) /\ e.failed
      BY <2>1, HeadGrows DEF AppendCBORHead, Contexts
    <2> HIDE DEF d, e
    <2>4. Grows(e, d) /\ d.failed
      <3>1. Good(e) /\ e \in Contexts
        BY <2>3 DEF Grows, Good
      <3>2. IncrementMapOrArrayCount(e).failed
        BY <2>3, <3>1 DEF IncrementMapOrArrayCount, Nesting_Increment, SetError, Contexts
      <3> QED
        BY <2>2, <3>1, <3>2, IncrementGrows
    <2>5. Fair(d) /\ ~Clean(d)
      BY <2>4 DEF Fair, Grows, Clean
    <2> QED
      BY <2>5 DEF Writes, d
  <1> QED
    BY <1>1, <1>2, <1>3

-----------------------------------------------------------------------------
(* What opening and closing a level does *)

\* A level of the type starts at the end of the output, counted as an item of the one around it.
Opens(c, d, type) ==
    /\ Fair(d)
    /\ Clean(d) => /\ Clean(c) /\ d.out.data = c.out.data
                   /\ d.nesting = Append(Counted(c.nesting, 1), Nesting_Level(type, Len(c.out.data)))

\* The current level, which has the type, is closed and the output becomes the data.
Closes(c, d, type, data) ==
    /\ Fair(d)
    /\ Clean(d) => /\ Clean(c) /\ Nesting_IsInNest(c) /\ Current(c).type = type
                   /\ d.nesting = SubSeq(c.nesting, 1, Len(c.nesting) - 1)
                   /\ d.out.data = data

\* A count of the items that goes well.
LEMMA ItemCounts ==
  ASSUME NEW c, Fair(c)
  PROVE  LET d == IncrementMapOrArrayCount(c)
         IN  /\ Fair(d) /\ d.out = c.out
             /\ ~d.failed => ~c.failed /\ d.nesting = Counted(c.nesting, 1)
  <1> DEFINE d == IncrementMapOrArrayCount(c)
  <1>1. Good(c) /\ c \in Contexts /\ (~c.failed => c.uError = "SUCCESS")
    BY DEF Fair, Good
  <1>2. Good(d) /\ d.out = c.out
    BY <1>1, IncrementGrows DEF Grows
  <1>3. CASE c.uError # "SUCCESS"
    <2>1. d = c
      BY <1>3 DEF IncrementMapOrArrayCount
    <2> HIDE DEF d
    <2>2. c.failed
      BY <1>1, <1>3
    <2> QED
      BY <2>1, <2>2 DEF d
  <1>4. CASE c.uError = "SUCCESS" /\ 1 >= MAX_ITEMS_IN_ARRAY - Current(c).count
    <2>1. d = SetError(c, "ARRAY_TOO_LONG")
      BY <1>4 DEF IncrementMapOrArrayCount, Nesting_Increment
    <2>2. d.failed
      BY <1>1, <2>1 DEF SetError, Contexts
    <2> HIDE DEF d
    <2>3. Fair(d)
      BY <1>2, <2>2 DEF Fair
    <2> QED
      BY <1>2, <2>2, <2>3 DEF d
  <1>5. CASE c.uError = "SUCCESS" /\ ~(1 >= MAX_ITEMS_IN_ARRAY - Current(c).count)
    <2>1. d = [c EXCEPT !.nesting[Len(c.nesting)].count = @ + 1]
      BY <1>5 DEF IncrementMapOrArrayCount, Nesting_Increment
    <2>2. d.failed = c.failed /\ d.uError = c.uError /\ d.nesting = Counted(c.nesting, 1)
      BY <1>1, <2>1 DEF Counted, Raised, Contexts
    <2> HIDE DEF d
    <2>3. Fair(d)
      BY <1>1, <1>2, <2>2 DEF Fair
    <2> QED
      BY <1>2, <2>2, <2>3 DEF d
  <1> QED
    BY <1>3, <1>4, <1>5

\* QCBOREncode_OpenMapOrArray.
LEMMA OpenOpens ==
  ASSUME NEW c, Fair(c), NEW type \in Nat
  PROVE  Opens(c, QCBOREncode_OpenMapOrArray(c, type), type)
  <1> DEFINE d == IncrementMapOrArrayCount(c)
             n == Len(c.out.data)
             e == QCBOREncode_OpenMapOrArray(c, type)
             f == Nesting_Increase(d, type, n)
             lev == Nesting_Level(type, n)
  <1>1. Fair(d) /\ d.out = c.out /\ (~d.failed => ~c.failed /\ d.nesting = Counted(c.nesting, 1))
    BY ItemCounts
  <1> HIDE DEF d
  <1>2. Good(d) /\ d \in Contexts
    BY <1>1 DEF Fair, Good
  <1>3. CASE n >= MAX_ARRAY_OFFSET
    <2>1. e = SetError(d, "BUFFER_TOO_LARGE") /\ "BUFFER_TOO_LARGE" \in Errors
      BY <1>3 DEF QCBOREncode_OpenMapOrArray, UsefulOutBuf_GetEndPosition, d, Errors
    <2> HIDE DEF e
    <2>2. Fair(e)
      BY <1>1, <2>1, FailedWrites DEF Writes
    <2>3. e.failed
      BY <1>2, <2>1 DEF SetError, Contexts
    <2> QED
      BY <2>2, <2>3 DEF Opens, Clean, e
  <1>4. CASE ~(n >= MAX_ARRAY_OFFSET) /\ Len(d.nesting) = MAX_ARRAY_NESTING + 1
    <2>1. e = SetError(d, "ARRAY_NESTING_TOO_DEEP") /\ "ARRAY_NESTING_TOO_DEEP" \in Errors
      BY <1>4 DEF QCBOREncode_OpenMapOrArray, UsefulOutBuf_GetEndPosition, Nesting_Increase, d, Errors
    <2> HIDE DEF e
    <2>2. Fair(e)
      BY <1>1, <2>1, FailedWrites DEF Writes
    <2>3. e.failed
      BY <1>2, <2>1 DEF SetError, Contexts
    <2> QED
      BY <2>2, <2>3 DEF Opens, Clean, e
  <1>5. CASE ~(n >= MAX_ARRAY_OFFSET) /\ Len(d.nesting) # MAX_ARRAY_NESTING + 1
    <2>1. e = f
      BY <1>5 DEF QCBOREncode_OpenMapOrArray, UsefulOutBuf_GetEndPosition, d
    <2>2. f = SetError([d EXCEPT !.nesting = Append(@, lev)], "SUCCESS")
      BY <1>5 DEF Nesting_Increase
    <2>3. Good(f) /\ f.out = d.out
      <3>1. n = Len(d.out.data)
        BY <1>1
      <3> QED
        BY <1>2, <3>1, IncreaseGrows DEF Grows
    <2> HIDE DEF e, lev
    <2>4. f.failed = d.failed /\ f.uError = "SUCCESS" /\ f.nesting = Append(d.nesting, lev)
      BY <1>2, <2>2 DEF SetError, Contexts
    <2> HIDE DEF f
    <2>5. Fair(f)
      BY <2>3, <2>4 DEF Fair
    <2>6. Clean(f) => Clean(c) /\ f.out.data = c.out.data /\ f.nesting = Append(Counted(c.nesting, 1), lev)
      BY <1>1, <2>3, <2>4 DEF Clean
    <2>7. Opens(c, f, type)
      BY <2>5, <2>6 DEF Opens, lev, n
    <2> QED
      BY <2>1, <2>7 DEF e
  <1> QED
    BY <1>3, <1>4, <1>5

\* An error in place of a close.
LEMMA FailedCloses ==
  ASSUME NEW c, Fair(c), NEW err \in Errors, err # "SUCCESS", NEW type, NEW data
  PROVE  Closes(c, SetError(c, err), type, data)
  <1>1. c \in Contexts
    BY DEF Fair, Good
  <1>2. Fair(SetError(c, err))
    BY FailedWrites DEF Writes
  <1>3. SetError(c, err).failed
    BY <1>1 DEF SetError, Contexts
  <1> QED
    BY <1>2, <1>3 DEF Closes, Clean

\* A level is taken off a context that only has more bytes.
LEMMA DecreaseCloses ==
  ASSUME NEW c, NEW d, Fair(c), Good(d), d.nesting = c.nesting, d.uError = c.uError,
         d.failed = c.failed, c.out.err => d.out.err, NEW data, ~d.out.err => d.out.data = data,
         NEW type, CheckDecreaseNesting(c, type) = "SUCCESS"
  PROVE  Closes(c, Nesting_Decrease(d), type, data)
  <1> DEFINE e == Nesting_Decrease(d)
  <1>1. /\ c.uError = "SUCCESS" /\ Nesting_IsInNest(c) /\ Current(c).type = type
    BY GoodFields DEF CheckDecreaseNesting, Fair
  <1>2. Len(d.nesting) > 1 /\ d \in Contexts
    BY <1>1 DEF Nesting_IsInNest, Good
  <1>3. e = [d EXCEPT !.nesting = SubSeq(@, 1, Len(@) - 1)]
    BY <1>2 DEF Nesting_Decrease
  <1>4. Good(e) /\ e.out = d.out
    BY DecreaseGrows DEF Grows
  <1> HIDE DEF e
  <1>5. e.uError = d.uError /\ e.failed = d.failed /\ e.nesting = SubSeq(c.nesting, 1, Len(c.nesting) - 1)
    BY <1>2, <1>3 DEF Contexts
  <1>6. Fair(e)
    BY <1>1, <1>4, <1>5 DEF Fair
  <1>7. Clean(e) => Clean(c) /\ ~d.out.err
    BY <1>4, <1>5 DEF Clean
  <1> QED
    BY <1>1, <1>4, <1>5, <1>6, <1>7 DEF Closes, e

\* InsertCBORHead.
LEMMA InsertHeadCloses ==
  ASSUME NEW c, Fair(c), NEW type \in Nat, NEW len \in Nat, IsUint64(len)
  PROVE  Closes(c, InsertCBORHead(c, type, len), type,
                Spliced(c.out.data, CloseHead(type, len), Current(c).start))
  <1> DEFINE head == CloseHead(type, len)
             pos  == Current(c).start
             d    == Write(c, head, pos)
             err  == CheckDecreaseNesting(c, type)
  <1>1. Good(c) /\ c \in Contexts
    BY DEF Fair, Good
  <1>2. err \in Errors
    BY <1>1, CheckType
  <1>3. CASE err # "SUCCESS"
    <2>1. InsertCBORHead(c, type, len) = SetError(c, err)
      BY <1>3 DEF InsertCBORHead
    <2> HIDE DEF err
    <2> QED
      BY <1>2, <1>3, <2>1, FailedCloses
  <1>4. CASE err = "SUCCESS"
    <2>1. head \in Seq(Byte)
      BY HeadType DEF CloseHead, BYTE_STRING
    <2>2. pos \in 0..Len(c.out.data)
      BY <1>1, GoodFields DEF Levels
    <2>3. InsertCBORHead(c, type, len) = Nesting_Decrease(d)
      BY <1>4 DEF InsertCBORHead, Write, CloseHead
    <2>4. d.failed = c.failed
      BY <1>1 DEF Write, Contexts
    <2> HIDE DEF head, pos
    <2>5. /\ Grows(c, d) /\ d.nesting = c.nesting /\ d.uError = c.uError
          /\ ~d.out.err => d.out.data = Spliced(c.out.data, head, pos)
      BY <1>1, <2>1, <2>2, WriteGrows
    <2> HIDE DEF d
    <2>6. Good(d) /\ (c.out.err => d.out.err)
      BY <2>5 DEF Grows
    <2>7. Closes(c, Nesting_Decrease(d), type, Spliced(c.out.data, head, pos))
      BY <1>4, <2>4, <2>5, <2>6, DecreaseCloses
    <2> QED
      BY <2>3, <2>7 DEF head, pos
  <1> QED
    BY <1>3, <1>4

\* The byte that ends a level without a length.
Break == QCBOREncode_EncodeHead(SIMPLE + INDEFINITE_LEN_TYPE_MODIFIER, 0, 31)

\* QCBOREncode_CloseMapOrArrayIndefiniteLength.
LEMMA IndefiniteCloses ==
  ASSUME NEW c, Fair(c), NEW type
  PROVE  Closes(c, QCBOREncode_CloseMapOrArrayIndefiniteLength(c, type), type, c.out.data \o Break)
  <1> DEFINE brk == Break
             d   == [c EXCEPT !.out = UsefulOutBuf_AppendUsefulBuf(@, brk)]
             err == CheckDecreaseNesting(c, type)
             e   == QCBOREncode_CloseMapOrArrayIndefiniteLength(c, type)
  <1>1. Good(c) /\ c \in Contexts
    BY DEF Fair, Good
  <1>2. err \in Errors
    BY <1>1, CheckType
  <1>3. CASE err # "SUCCESS"
    <2>1. e = SetError(c, err)
      BY <1>3 DEF QCBOREncode_CloseMapOrArrayIndefiniteLength
    <2> HIDE DEF err, e
    <2> QED
      BY <1>2, <1>3, <2>1, FailedCloses DEF e
  <1>4. CASE err = "SUCCESS"
    <2>1. e = Nesting_Decrease(d)
      BY <1>4 DEF QCBOREncode_CloseMapOrArrayIndefiniteLength, AppendCBORHead, Break
    <2>2. brk \in Seq(Byte)
      <3>1. 31 \in Small
        BY DEF Small
      <3>2. 31 \in Nat /\ IsUint64(31)
        BY <3>1, SmallUint64
      <3> QED
        BY <3>2, HeadType DEF Break, SIMPLE, INDEFINITE_LEN_TYPE_MODIFIER
    <2>3. d.failed = c.failed
      BY <1>1 DEF Contexts
    <2>4. d.nesting = c.nesting /\ d.uError = c.uError
      BY <1>1 DEF Contexts
    <2> HIDE DEF brk
    <2> DEFINE n == Len(c.out.data)
    <2>5. d = Write(c, brk, n)
      BY DEF Write, UsefulOutBuf_AppendUsefulBuf, UsefulOutBuf_GetEndPosition
    <2> HIDE DEF d
    <2>6. n \in 0..n /\ c.out.data \in Seq(Byte)
      BY <1>1, GoodFields
    <2>7. Grows(c, d) /\ (~d.out.err => d.out.data = Spliced(c.out.data, brk, n))
      BY <1>1, <2>2, <2>5, <2>6, WriteGrows
    <2>8. Spliced(c.out.data, brk, n) = c.out.data \o brk
      BY <2>2, <2>6, SplicedEnd
    <2>9. Good(d) /\ (c.out.err => d.out.err)
      BY <2>7 DEF Grows
    <2> DEFINE data == c.out.data \o brk
    <2>10. ~d.out.err => d.out.data = data
      BY <2>7, <2>8
    <2> HIDE DEF data
    <2>11. Closes(c, Nesting_Decrease(d), type, data)
      BY <1>4, <2>3, <2>4, <2>9, <2>10, DecreaseCloses
    <2> QED
      BY <2>1, <2>11 DEF data, brk
  <1> QED
    BY <1>3, <1>4

\* QCBOREncode_CloseBytes.
LEMMA BytesCloses ==
  ASSUME NEW c, Fair(c), NEW b \in Seq(Byte), IsUint64(Len(b))
  PROVE  Closes(c, QCBOREncode_CloseBytes(c, b), OPEN_BSTR,
                Spliced(c.out.data \o b, CloseHead(OPEN_BSTR, Len(b)), Current(c).start))
  <1> DEFINE n == Len(b)
             d == [c EXCEPT !.out = UsefulOutBuf_AppendUsefulBuf(@, b)]
             e == QCBOREncode_CloseBytes(c, b)
             f == InsertCBORHead(d, OPEN_BSTR, n)
             head == CloseHead(OPEN_BSTR, n)
  <1>1. c.out \in OutBufs /\ Len(c.out.data) <= c.out.cap /\ n \in Nat /\ OPEN_BSTR \in Nat
    BY GoodFields, LenProperties DEF Fair, OPEN_BSTR
  <1>2. UsefulOutBuf_Advance(c.out, b) = UsefulOutBuf_AppendUsefulBuf(c.out, b)
    BY <1>1, AdvanceAppends
  <1>3. [c EXCEPT !.out = UsefulOutBuf_Advance(@, b)] = d
    BY <1>2
  <1>4. e = IF d.out.err THEN d ELSE f
    BY <1>3 DEF QCBOREncode_CloseBytes
  <1>5. Puts(c, d, b)
    BY AppendPuts
  <1> HIDE DEF d, e
  <1>6. Fair(d)
    BY <1>5 DEF Puts
  <1>7. Closes(d, f, OPEN_BSTR, Spliced(d.out.data, head, Current(d).start))
    BY <1>1, <1>6, InsertHeadCloses
  <1> HIDE DEF f, head
  <1>8. Fair(e)
    BY <1>4, <1>6, <1>7 DEF Closes
  <1>9. ASSUME Clean(e)
        PROVE  /\ Clean(c) /\ Nesting_IsInNest(c) /\ Current(c).type = OPEN_BSTR
               /\ e.nesting = SubSeq(c.nesting, 1, Len(c.nesting) - 1)
               /\ e.out.data = Spliced(c.out.data \o b, head, Current(c).start)
    <2>1. e = f
      BY <1>4, <1>9 DEF Clean
    <2>2. /\ Clean(d) /\ Nesting_IsInNest(d) /\ Current(d).type = OPEN_BSTR
          /\ e.nesting = SubSeq(d.nesting, 1, Len(d.nesting) - 1)
          /\ e.out.data = Spliced(d.out.data, head, Current(d).start)
      BY <1>7, <1>9, <2>1 DEF Closes
    <2>3. Clean(c) /\ d.nesting = c.nesting /\ d.out.data = c.out.data \o b
      BY <1>5, <2>2 DEF Puts
    <2>4. Current(d) = Current(c) /\ (Nesting_IsInNest(d) <=> Nesting_IsInNest(c))
      BY <2>3 DEF Current, Nesting_IsInNest
    <2> QED
      BY <2>2, <2>3, <2>4
  <1> QED
    BY <1>8, <1>9 DEF Closes, e, head

\* One item less in the current level.
Uncounted(nest) == [nest EXCEPT ![Len(nest)].count = (nest[Len(nest)].count - 1) % CountRange]

\* QCBOREncode_CancelBstrWrap: only a wrap that holds nothing is cancelled.
Cancels(c, d) ==
    /\ Fair(d)
    /\ Clean(d) => /\ Clean(c) /\ Nesting_IsInNest(c) /\ Current(c).type = BYTE_STRING
                   /\ Current(c).start = Len(c.out.data)
                   /\ d.nesting = Uncounted(SubSeq(c.nesting, 1, Len(c.nesting) - 1))
                   /\ d.out.data = c.out.data

\* QCBOREncode_CancelBstrWrap.
LEMMA WrapCancels ==
  ASSUME NEW c, Fair(c)
  PROVE  Cancels(c, QCBOREncode_CancelBstrWrap(c))
  <1> DEFINE err == CheckDecreaseNesting(c, BYTE_STRING)
             e   == QCBOREncode_CancelBstrWrap(c)
             d   == Nesting_Decrease(c)
             f   == Nesting_Decrement(d)
  <1>1. Good(c) /\ c \in Contexts
    BY DEF Fair, Good
  <1>2. err \in Errors
    BY <1>1, CheckType
  <1>3. CASE err # "SUCCESS"
    <2>1. e = SetError(c, err)
      BY <1>3 DEF QCBOREncode_CancelBstrWrap
    <2> HIDE DEF err, e
    <2>2. Fair(e)
      BY <1>2, <1>3, <2>1, FailedWrites DEF Writes
    <2>3. e.failed
      BY <1>1, <1>3, <2>1 DEF SetError, Contexts
    <2> QED
      BY <2>2, <2>3 DEF Cancels, Clean, e
  <1>4. CASE err = "SUCCESS" /\ Current(c).start # Len(c.out.data)
    <2>1. e = SetError(c, "CANNOT_CANCEL") /\ "CANNOT_CANCEL" \in Errors
      BY <1>4 DEF QCBOREncode_CancelBstrWrap, UsefulOutBuf_GetEndPosition, Errors
    <2> HIDE DEF e
    <2>2. Fair(e)
      BY <2>1, FailedWrites DEF Writes
    <2>3. e.failed
      BY <1>1, <2>1 DEF SetError, Contexts
    <2> QED
      BY <2>2, <2>3 DEF Cancels, Clean, e
  <1>5. CASE err = "SUCCESS" /\ Current(c).start = Len(c.out.data)
    <2>1. e = f
      BY <1>5 DEF QCBOREncode_CancelBstrWrap, UsefulOutBuf_GetEndPosition
    <2>2. Closes(c, d, BYTE_STRING, c.out.data)
      BY <1>1, <1>5, DecreaseCloses
    <2> HIDE DEF d, e
    <2>3. Fair(d) /\ Good(d) /\ d \in Contexts
      BY <2>2 DEF Closes, Fair, Good
    <2>4. /\ Good(f) /\ f.out = d.out /\ f.uError = d.uError
          /\ f.nesting = [d.nesting EXCEPT ![Len(d.nesting)].count = (Current(d).count - 1) % CountRange]
      BY <2>3, DecrementGrows DEF Grows
    <2>5. f.failed = d.failed
      BY <2>3 DEF Nesting_Decrement, Contexts
    <2> HIDE DEF f
    <2>6. f.nesting = Uncounted(d.nesting)
      BY <2>4 DEF Uncounted, Current
    <2>7. Fair(f)
      BY <2>3, <2>4, <2>5 DEF Fair
    <2>8. ASSUME Clean(f)
          PROVE  /\ Clean(c) /\ Nesting_IsInNest(c) /\ Current(c).type = BYTE_STRING
                 /\ f.nesting = Uncounted(SubSeq(c.nesting, 1, Len(c.nesting) - 1))
                 /\ f.out.data = c.out.data
      <3>1. Clean(d)
        BY <2>4, <2>5, <2>8 DEF Clean
      <3> QED
        BY <2>2, <2>4, <2>6, <3>1 DEF Closes
    <2> QED
      BY <1>5, <2>1, <2>7, <2>8 DEF Cancels, e
  <1> QED
    BY <1>3, <1>4, <1>5

\* QCBOREncode_OpenBytes is refused inside an opened byte string.
LEMMA OpenBytesOpens ==
  ASSUME NEW c, Fair(c)
  PROVE  LET d == QCBOREncode_OpenBytes(c)
         IN  Opens(c, d, OPEN_BSTR) /\ (Clean(d) => Current(c).type # OPEN_BSTR)
  <1> DEFINE d == QCBOREncode_OpenBytes(c)
  <1>1. CASE Current(c).type = OPEN_BSTR
    <2>1. d = SetError(c, "OPEN_BYTE_STRING") /\ "OPEN_BYTE_STRING" \in Errors /\ c \in Contexts
      BY <1>1 DEF QCBOREncode_OpenBytes, Errors, Fair, Good
    <2> HIDE DEF d
    <2>2. Fair(d)
      BY <2>1, FailedWrites DEF Writes
    <2>3. d.failed
      BY <2>1 DEF SetError, Contexts
    <2> QED
      BY <2>2, <2>3 DEF Opens, Clean, d
  <1>2. CASE Current(c).type # OPEN_BSTR
    <2>1. d = QCBOREncode_OpenMapOrArray(c, OPEN_BSTR) /\ OPEN_BSTR \in Nat
      BY <1>2 DEF QCBOREncode_OpenBytes, OPEN_BSTR
    <2> QED
      BY <1>2, <2>1, OpenOpens
  <1> QED
    BY <1>1, <1>2

-----------------------------------------------------------------------------
(* Pieces of the output *)

\* The bytes from one position to another are the encoding of tokens.
Piece(D, from, to, T) ==
    \E b \in Seq(Byte) : Encodes(b, T) /\ to = from + Len(b) /\ Holds(D, from, b)

\* A piece stays when bytes follow.
LEMMA PieceMore ==
  ASSUME NEW D \in Seq(Byte), NEW x \in Seq(Byte), NEW from \in Nat, NEW to, NEW T, Piece(D, from, to, T)
  PROVE  Piece(D \o x, from, to, T)
  <1>1. PICK b \in Seq(Byte) : Encodes(b, T) /\ to = from + Len(b) /\ Holds(D, from, b)
    BY DEF Piece
  <1>2. Holds(D \o x, from, b)
    BY <1>1, HoldsLeft
  <1> QED
    BY <1>1, <1>2 DEF Piece

\* It stays when bytes behind it are cut off.
LEMMA PieceCut ==
  ASSUME NEW D \in Seq(Byte), NEW m \in Nat, m <= Len(D), NEW from \in Nat, NEW to, to <= m,
         NEW T, Piece(D, from, to, T)
  PROVE  Piece(SubSeq(D, 1, m), from, to, T)
  <1> DEFINE E == SubSeq(D, 1, m)
  <1>1. PICK b \in Seq(Byte) : Encodes(b, T) /\ to = from + Len(b) /\ Holds(D, from, b)
    BY DEF Piece
  <1> DEFINE n == Len(b)
  <1>2. n \in Nat /\ Len(D) \in Nat
    BY LenProperties
  <1>3. E \in Seq(Byte) /\ Len(E) = m /\ \A i \in 1..m : E[i] = D[i]
    <2>1. 0 \in Nat /\ 0 + m <= Len(D) /\ 0 + 1 = 1 /\ 0 + m = m
      BY <1>2
    <2>2. \A i \in 1..m : 0 + i = i
      OBVIOUS
    <2>3. /\ SubSeq(D, 0 + 1, 0 + m) \in Seq(Byte) /\ Len(SubSeq(D, 0 + 1, 0 + m)) = m
          /\ \A i \in 1..m : SubSeq(D, 0 + 1, 0 + m)[i] = D[0 + i]
      BY <2>1, Stretch
    <2> QED
      BY <2>1, <2>2, <2>3
  <1> HIDE DEF E
  <1>4. from + n <= m /\ \A j \in 1..n : D[from + j] = b[j]
    BY <1>1 DEF Holds
  <1> HIDE DEF n
  <1>5. \A j \in 1..n : from + j \in 1..m
    BY <1>2, <1>4
  <1>6. \A j \in 1..n : E[from + j] = b[j]
    BY <1>3, <1>4, <1>5
  <1>7. Holds(E, from, b)
    BY <1>3, <1>4, <1>6 DEF Holds, n
  <1> QED
    BY <1>1, <1>7 DEF Piece, E

\* A piece at the end goes on with what is written there.
LEMMA PieceEnd ==
  ASSUME NEW D \in Seq(Byte), NEW from \in Nat, NEW T, Piece(D, from, Len(D), T),
         NEW x \in Seq(Byte), NEW U, Encodes(x, U)
  PROVE  Piece(D \o x, from, Len(D \o x), T \o U)
  <1>1. PICK b \in Seq(Byte) : Encodes(b, T) /\ Len(D) = from + Len(b) /\ Holds(D, from, b)
    BY DEF Piece
  <1> DEFINE l == Len(D)
             m == Len(x)
             n == Len(b)
             E == D \o x
             y == b \o x
  <1>2. l \in Nat /\ m \in Nat /\ n \in Nat
    BY LenProperties
  <1>3. E \in Seq(Byte) /\ Len(E) = l + m
        /\ \A i \in 1..(l + m) : E[i] = IF i <= l THEN D[i] ELSE x[i - l]
    BY Joined
  <1>4. y \in Seq(Byte) /\ Len(y) = n + m
        /\ \A i \in 1..(n + m) : y[i] = IF i <= n THEN b[i] ELSE x[i - n]
    BY Joined
  <1>5. l = from + n /\ \A j \in 1..n : D[from + j] = b[j]
    BY <1>1 DEF Holds
  <1>6. Encodes(y, T \o U)
    BY <1>1, EncodesJoined
  <1> HIDE DEF l, m, n, E, y
  <1>7. Len(E) = from + Len(y)
    BY <1>2, <1>3, <1>4, <1>5
  <1>8. ASSUME NEW j \in 1..(n + m)
        PROVE  E[from + j] = y[j]
    <2>1. from + j \in 1..(l + m)
      BY <1>2, <1>5
    <2>2. CASE j <= n
      <3>1. from + j <= l /\ j \in 1..n
        BY <1>2, <1>5, <2>2
      <3> QED
        BY <1>3, <1>4, <1>5, <2>1, <2>2, <3>1
    <2>3. CASE ~(j <= n)
      <3>1. ~(from + j <= l) /\ (from + j) - l = j - n
        BY <1>2, <1>5, <2>3
      <3> QED
        BY <1>3, <1>4, <2>1, <2>3, <3>1
    <2> QED
      BY <2>2, <2>3
  <1>9. Holds(E, from, y)
    <2>1. from + Len(y) <= Len(E)
      BY <1>2, <1>3, <1>7
    <2> QED
      BY <1>4, <1>8, <2>1 DEF Holds
  <1>10. Piece(E, from, Len(E), T \o U)
    BY <1>4, <1>6, <1>7, <1>9 DEF Piece
  <1> QED
    BY <1>10 DEF E

\* A level that was opened just now holds nothing.
LEMMA PieceEmpty ==
  ASSUME NEW D \in Seq(Byte)
  PROVE  Piece(D, Len(D), Len(D), << >>)
  <1> DEFINE n == Len(D)
  <1>1. n \in Nat /\ << >> \in Seq(Byte) /\ Len(<< >>) = 0
    BY LenProperties, EmptySeq
  <1>2. n + 0 = n /\ n + 0 <= n /\ 1..0 = {}
    BY <1>1
  <1> HIDE DEF n
  <1>3. Holds(D, n, << >>)
    BY <1>1, <1>2 DEF Holds, n
  <1>4. Encodes(<< >>, << >>)
    BY EncodesNothing
  <1>5. Piece(D, n, n, << >>)
    BY <1>1, <1>2, <1>3, <1>4 DEF Piece
  <1> QED
    BY <1>5 DEF n

\* The bytes of a piece at the end.
LEMMA PieceTail ==
  ASSUME NEW D \in Seq(Byte), NEW from \in Nat, NEW T, Piece(D, from, Len(D), T)
  PROVE  /\ Encodes(SubSeq(D, from + 1, Len(D)), T)
         /\ from <= Len(D) /\ Len(SubSeq(D, from + 1, Len(D))) = Len(D) - from
  <1>1. PICK b \in Seq(Byte) : Encodes(b, T) /\ Len(D) = from + Len(b) /\ Holds(D, from, b)
    BY DEF Piece
  <1> DEFINE n == Len(b)
  <1>2. n \in Nat /\ Len(D) \in Nat
    BY LenProperties
  <1>3. Len(D) = from + n /\ from + n <= Len(D) /\ \A j \in 1..n : D[from + j] = b[j]
    BY <1>1 DEF Holds
  <1>4. Len(b) = n
    OBVIOUS
  <1> HIDE DEF n
  <1>5. SubSeq(D, from + 1, from + n) = b
    BY <1>2, <1>3, <1>4, StretchIs
  <1>6. from <= Len(D) /\ n = Len(D) - from
    BY <1>2, <1>3
  <1> QED
    BY <1>1, <1>3, <1>4, <1>5, <1>6

\* A piece has bytes if and only if it has tokens.
LEMMA PieceNothing ==
  ASSUME NEW D, NEW from \in Nat, NEW to, NEW T, Piece(D, from, to, T)
  PROVE  T = << >> <=> to = from
  <1>1. PICK b \in Seq(Byte) : Encodes(b, T) /\ to = from + Len(b)
    BY DEF Piece
  <1>2. Len(b) \in Nat /\ (Len(b) = 0 <=> b = << >>)
    BY LenProperties, EmptySeq
  <1>3. to = from <=> b = << >>
    BY <1>1, <1>2
  <1>4. T = << >> <=> b = << >>
    BY <1>1, EncodesNothing
  <1> QED
    BY <1>3, <1>4

\* The bytes behind the first of two joined sequences.
LEMMA JoinedTail ==
  ASSUME NEW a \in Seq(Byte), NEW b \in Seq(Byte)
  PROVE  SubSeq(a \o b, Len(a) + 1, Len(a \o b)) = b
  <1> DEFINE l == Len(a)
             m == Len(b)
             c == a \o b
  <1>1. l \in Nat /\ m \in Nat
    BY LenProperties
  <1>2. c \in Seq(Byte) /\ Len(c) = l + m
        /\ \A i \in 1..(l + m) : c[i] = IF i <= l THEN a[i] ELSE b[i - l]
    BY Joined
  <1>3. Len(b) = m
    OBVIOUS
  <1> HIDE DEF l, m, c
  <1>4. \A i \in 1..m : c[l + i] = b[i]
    <2>1. \A i \in 1..m : l + i \in 1..(l + m) /\ ~(l + i <= l) /\ (l + i) - l = i
      BY <1>1
    <2> QED
      BY <1>2, <2>1
  <1>5. l + m <= Len(c)
    BY <1>1, <1>2
  <1>6. SubSeq(c, l + 1, l + m) = b
    BY <1>1, <1>2, <1>3, <1>4, <1>5, StretchIs
  <1> QED
    BY <1>2, <1>6 DEF l, c

\* A head put in front of the bytes behind a position.
LEMMA SplicedHead ==
  ASSUME NEW D \in Seq(Byte), NEW head \in Seq(Byte), NEW pos \in 0..Len(D)
  PROVE  LET rest == SubSeq(D, pos + 1, Len(D))
             E    == Spliced(D, head, pos)
         IN  /\ rest \in Seq(Byte) /\ SubSeq(D, 1, pos) \in Seq(Byte)
             /\ E = SubSeq(D, 1, pos) \o (head \o rest)
             /\ SubSeq(E, pos + 1, Len(E)) = head \o rest
             /\ SubSeq(E, (pos + Len(head)) + 1, Len(E)) = rest
  <1> DEFINE rest == SubSeq(D, pos + 1, Len(D))
             a    == SubSeq(D, 1, pos)
             b    == a \o head
             E    == Spliced(D, head, pos)
  <1>1. Len(D) \in Nat /\ Len(head) \in Nat /\ pos \in Nat /\ pos <= Len(D)
    BY LenProperties
  <1>2. rest \in Seq(Byte)
    BY <1>1, RestType
  <1>3. a \in Seq(Byte) /\ Len(a) = pos
    <2>1. 0 \in Nat /\ 0 + pos <= Len(D) /\ 0 + 1 = 1 /\ 0 + pos = pos
      BY <1>1
    <2>2. SubSeq(D, 0 + 1, 0 + pos) \in Seq(Byte) /\ Len(SubSeq(D, 0 + 1, 0 + pos)) = pos
      BY <1>1, <2>1, Stretch
    <2> QED
      BY <2>1, <2>2
  <1>4. E = b \o rest
    BY DEF Spliced
  <1> HIDE DEF E, a, rest
  <1>5. b \in Seq(Byte) /\ Len(b) = pos + Len(head) /\ head \o rest \in Seq(Byte)
    BY <1>2, <1>3, ConcatProperties
  <1>6. InTurn(a, head, rest)
    BY <1>2, <1>3, JoinedInTurn
  <1>7. E = a \o (head \o rest)
    BY <1>4, <1>6 DEF InTurn
  <1>8. SubSeq(E, (pos + Len(head)) + 1, Len(E)) = rest
    <2> HIDE DEF b
    <2> QED
      BY <1>2, <1>4, <1>5, JoinedTail
  <1>9. SubSeq(E, pos + 1, Len(E)) = head \o rest
    BY <1>3, <1>5, <1>7, JoinedTail
  <1> QED
    BY <1>2, <1>3, <1>7, <1>8, <1>9 DEF a, rest, E

-----------------------------------------------------------------------------
(* Heads in front of the tokens of a level *)

\* The head of an array or a map.
LEMMA HeadInFront ==
  ASSUME NEW b, NEW T, Encodes(b, T), NEW type \in {4, 5}, NEW n \in Nat, IsUint64(n)
  PROVE  Encodes(QCBOREncode_EncodeHead(type, 0, n) \o b, <<Token(type, n, << >>)>> \o T)
  <1> DEFINE t  == Token(type, n, << >>)
             hd == QCBOREncode_EncodeHead(type, 0, n)
  <1>1. << >> \in Seq(Byte) /\ type \in 0..7 /\ type # 7
    BY EmptySeq
  <1>2. t \in Tokens /\ t.form = "item" /\ t.type = type /\ t.arg = n /\ t.b = << >>
    BY <1>1 DEF Token, Tokens
  <1> HIDE DEF t
  <1>3. IsHeadFor(hd, t, 0)
    <2>1. IsHeadFor(QCBOREncode_EncodeHead(t.type, 0, n), t, 0)
      BY <1>1, <1>2, HeadIsFor
    <2> QED
      BY <1>2, <2>1
  <1> HIDE DEF hd
  <1>4. hd \in Seq(Byte)
    BY <1>3 DEF IsHeadFor
  <1>5. Encodes((hd \o t.b) \o b, <<t>> \o T)
    BY <1>2, <1>3, EncodesBehind
  <1>6. hd \o t.b = hd
    BY <1>2, <1>4, ConcatEmptySeq
  <1>7. Encodes(hd \o b, <<t>> \o T)
    BY <1>5, <1>6
  <1> QED
    BY <1>7 DEF hd, t

\* The head of a byte string around tokens.
LEMMA WrapInFront ==
  ASSUME NEW b, NEW T, Encodes(b, T), IsUint64(Len(b))
  PROVE  Encodes(QCBOREncode_EncodeHead(2, 0, Len(b)) \o b, <<Wrap_(Len(T))>> \o T)
  <1> DEFINE t  == Wrap_(Len(T))
             n  == Len(b)
             hd == QCBOREncode_EncodeHead(2, 0, n)
  <1>1. << >> \in Seq(Byte) /\ b \in Seq(Byte) /\ T \in Seq(Tokens)
    BY EmptySeq DEF Encodes
  <1>2. n \in Nat /\ Len(T) \in Nat
    BY <1>1, LenProperties
  <1>3. t \in Tokens /\ t.form = "wrap" /\ t.type = 2 /\ t.arg = Len(T) /\ t.b = << >>
    BY <1>1, <1>2 DEF Wrap_, Tokens
  <1> HIDE DEF t
  <1>4. IsHeadFor(hd, t, n)
    <2>0. IsUint64(n)
      OBVIOUS
    <2> HIDE DEF n
    <2>1. /\ t.form # "indefinite" /\ n = IF t.form = "wrap" THEN n ELSE t.arg
          /\ t.type = 7 => n \notin 24..31
      BY <1>3
    <2>2. IsHeadFor(QCBOREncode_EncodeHead(t.type, 0, n), t, n)
      BY <1>2, <1>3, <2>0, <2>1, HeadIsFor
    <2> QED
      BY <1>3, <2>2
  <1> HIDE DEF hd
  <1>5. hd \in Seq(Byte)
    BY <1>4 DEF IsHeadFor
  <1>6. Encodes((hd \o t.b) \o b, <<t>> \o T)
    BY <1>3, <1>4, EncodesBehind
  <1>7. hd \o t.b = hd
    BY <1>3, <1>5, ConcatEmptySeq
  <1>8. Encodes(hd \o b, <<t>> \o T)
    BY <1>6, <1>7
  <1> QED
    BY <1>8 DEF hd, t

\* A byte string the caller put into the output itself.
LEMMA StringBehind ==
  ASSUME NEW b \in Seq(Byte), IsUint64(Len(b))
  PROVE  Encodes(QCBOREncode_EncodeHead(2, 0, Len(b)) \o b, <<Bytes_(b)>>)
  <1> DEFINE n  == Len(b)
             t  == Token(2, n, b)
             hd == QCBOREncode_EncodeHead(2, 0, n)
  <1>1. n \in Nat /\ 2 \in 0..7 /\ 2 # 7
    BY LenProperties
  <1>2. t \in Tokens /\ t.form = "item" /\ t.type = 2 /\ t.arg = n /\ t.b = b
    BY <1>1, TokenType
  <1> HIDE DEF t
  <1>3. IsHeadFor(hd, t, 0)
    <2>0. IsUint64(n)
      OBVIOUS
    <2> HIDE DEF n
    <2>1. IsHeadFor(QCBOREncode_EncodeHead(t.type, 0, n), t, 0)
      BY <1>1, <1>2, <2>0, HeadIsFor
    <2> QED
      BY <1>2, <2>1
  <1> HIDE DEF hd
  <1>4. Encodes(hd \o t.b, <<t>>)
    BY <1>2, <1>3, EncodesOne
  <1> QED
    BY <1>2, <1>4 DEF hd, t, Bytes_

\* The byte that starts a level without a length, or ends it, alone.
LEMMA IndefiniteAlone ==
  ASSUME NEW type \in {4, 5, 7}, NEW n
  PROVE  LET hd == QCBOREncode_EncodeHead(type + INDEFINITE_LEN_TYPE_MODIFIER, 0, n)
         IN  Encodes(hd, <<Indefinite(type)>>) /\ hd \in Seq(Byte)
  <1> DEFINE t  == Indefinite(type)
             hd == QCBOREncode_EncodeHead(type + INDEFINITE_LEN_TYPE_MODIFIER, 0, n)
  <1>1. IsHeadFor(hd, t, 0)
    BY IndefiniteIsFor
  <1>2. t \in Tokens /\ t.form = "indefinite" /\ t.b = << >>
    BY EmptySeq DEF Indefinite, Tokens
  <1> HIDE DEF t, hd
  <1>3. Encodes(hd \o t.b, <<t>>)
    BY <1>1, <1>2, EncodesOne
  <1>4. hd \in Seq(Byte)
    BY <1>1 DEF IsHeadFor
  <1>5. hd \o t.b = hd
    BY <1>2, <1>4, ConcatEmptySeq
  <1> QED
    BY <1>3, <1>4, <1>5 DEF hd, t

\* The break behind the tokens of a level.
LEMMA BreakBehind ==
  ASSUME NEW b, NEW T, Encodes(b, T)
  PROVE  Encodes(b \o Break, T \o <<Indefinite(7)>>)
  <1>1. Encodes(Break, <<Indefinite(7)>>)
    BY IndefiniteAlone DEF Break, SIMPLE
  <1> QED
    BY <1>1, EncodesJoined

\* The start of a level without a length.
LEMMA BeginWrites ==
  ASSUME NEW c, Fair(c), NEW type \in {4, 5}
  PROVE  Writes(c, AppendCBORHead(c, type + INDEFINITE_LEN_TYPE_MODIFIER, 0, 0),
                <<Indefinite(type)>>, 0, << >>)
  <1> DEFINE hd == QCBOREncode_EncodeHead(type + INDEFINITE_LEN_TYPE_MODIFIER, 0, 0)
             d  == AppendCBORHead(c, type + INDEFINITE_LEN_TYPE_MODIFIER, 0, 0)
  <1>1. Encodes(hd, <<Indefinite(type)>>) /\ hd \in Seq(Byte)
    BY IndefiniteAlone
  <1>2. d = [c EXCEPT !.out = UsefulOutBuf_AppendUsefulBuf(@, hd)]
    BY DEF AppendCBORHead
  <1> HIDE DEF hd
  <1>3. Puts(c, d, hd)
    BY <1>1, <1>2, AppendPuts
  <1>4. hd \o << >> = hd
    BY <1>1, ConcatEmptySeq
  <1> HIDE DEF d
  <1>5. Encodes(hd \o << >>, <<Indefinite(type)>>)
    BY <1>1, <1>4
  <1>6. Writes(c, d, <<Indefinite(type)>>, 0, << >>)
    BY <1>1, <1>3, <1>5, PutsWrites
  <1> QED
    BY <1>6 DEF d

-----------------------------------------------------------------------------
(* The array of exponent and mantissa *)

\* The last of the levels and the ones in front of it.
IsOnTop(all, nest, top) ==
    /\ Len(all) = Len(nest) + 1 /\ all[Len(all)] = top
    /\ SubSeq(all, 1, Len(all) - 1) = nest

\* Counting in the last of the levels.
LEMMA AppendCounted ==
  ASSUME NEW nest \in Seq(AnyLevels), NEW lev \in AnyLevels, NEW k \in Nat,
         NEW all, all = Counted(Append(nest, lev), k)
  PROVE  IsOnTop(all, nest, Raised(lev, k))
  <1> DEFINE n   == Len(nest)
             a   == Append(nest, lev)
             x   == Raised(lev, k)
  <1>1. n \in Nat /\ n + 1 \in 1..(n + 1) /\ (n + 1) - 1 = n
    BY LenProperties
  <1>2. a \in Seq(AnyLevels) /\ Len(a) = n + 1 /\ a[n + 1] = lev /\ \A i \in 1..n : a[i] = nest[i]
    BY AppendProperties
  <1>3. x \in AnyLevels
    BY LevelCounted
  <1>4. all = [a EXCEPT ![n + 1] = x]
    <2>1. all = Counted(a, k)
      OBVIOUS
    <2> HIDE DEF a, n
    <2> QED
      BY <1>2, <2>1 DEF Counted
  <1>5. Len(nest) = n
    OBVIOUS
  <1> HIDE DEF a, x, n
  <1>6. /\ all \in Seq(AnyLevels) /\ Len(all) = n + 1
        /\ \A j \in 1..(n + 1) : all[j] = IF j = n + 1 THEN x ELSE a[j]
    BY <1>1, <1>2, <1>3, <1>4, ExceptSeq
  <1>7. all[n + 1] = x
    BY <1>1, <1>6
  <1>8. \A i \in 1..n : all[0 + i] = nest[i]
    <2>1. \A i \in 1..n : 0 + i = i /\ i \in 1..(n + 1) /\ i # n + 1
      BY <1>1
    <2> QED
      BY <1>2, <1>6, <2>1
  <1>9. SubSeq(all, 0 + 1, 0 + n) = nest
    <2>1. 0 \in Nat /\ 0 + n <= Len(all)
      BY <1>1, <1>6
    <2> QED
      BY <1>1, <1>5, <1>6, <1>8, <2>1, StretchIs
  <1>10. 0 + 1 = 1 /\ 0 + n = n
    BY <1>1
  <1> QED
    BY <1>1, <1>5, <1>6, <1>7, <1>9, <1>10 DEF IsOnTop, a, x, n

\* Counting keeps the levels.
LEMMA CountedType ==
  ASSUME NEW nest \in Seq(Levels), Len(nest) >= 1, NEW k \in Nat
  PROVE  Counted(nest, k) \in Seq(AnyLevels) /\ Len(Counted(nest, k)) = Len(nest)
  <1> DEFINE n == Len(nest)
             x == nest[n]
  <1>1. n \in Nat /\ n \in 1..n
    BY LenProperties
  <1>2. Levels \subseteq AnyLevels
    BY LimitsAssumption DEF Levels, AnyLevels, CountRange
  <1>3. nest \in Seq(AnyLevels)
    BY <1>2, SeqMonotonic
  <1>4. x \in AnyLevels
    BY <1>1, <1>3, ElementOfSeq
  <1>5. Counted(nest, k) = [nest EXCEPT ![n] = Raised(x, k)]
    BY DEF Counted
  <1> HIDE DEF x
  <1>6. Raised(x, k) \in AnyLevels
    BY <1>4, LevelCounted
  <1> QED
    BY <1>1, <1>3, <1>5, <1>6, ExceptSeq

\* The bytes in front of the second of two joined sequences.
LEMMA JoinedFront ==
  ASSUME NEW a \in Seq(Byte), NEW b \in Seq(Byte)
  PROVE  SubSeq(a \o b, 1, Len(a)) = a
  <1> DEFINE l == Len(a)
             m == Len(b)
             c == a \o b
  <1>1. l \in Nat /\ m \in Nat
    BY LenProperties
  <1>2. c \in Seq(Byte) /\ Len(c) = l + m
        /\ \A i \in 1..(l + m) : c[i] = IF i <= l THEN a[i] ELSE b[i - l]
    BY Joined
  <1>3. Len(a) = l
    OBVIOUS
  <1> HIDE DEF l, m, c
  <1>4. \A i \in 1..l : c[0 + i] = a[i]
    <2>1. \A i \in 1..l : 0 + i = i /\ i \in 1..(l + m) /\ i <= l
      BY <1>1
    <2> QED
      BY <1>2, <2>1
  <1>5. 0 \in Nat /\ 0 + l <= Len(c) /\ 0 + 1 = 1 /\ 0 + l = l
    BY <1>1, <1>2
  <1>6. SubSeq(c, 0 + 1, 0 + l) = a
    BY <1>1, <1>2, <1>3, <1>4, <1>5, StretchIs
  <1> QED
    BY <1>5, <1>6 DEF l, c

\* A head put between two joined sequences.
LEMMA SplicedBetween ==
  ASSUME NEW a \in Seq(Byte), NEW b \in Seq(Byte), NEW head \in Seq(Byte)
  PROVE  Spliced(a \o b, head, Len(a)) = a \o (head \o b)
  <1> DEFINE D == a \o b
             n == Len(a)
  <1>1. D \in Seq(Byte) /\ n \in 0..Len(D)
    <2>1. Len(a) \in Nat /\ Len(b) \in Nat /\ Len(D) = Len(a) + Len(b) /\ D \in Seq(Byte)
      BY LenProperties, ConcatProperties
    <2> QED
      BY <2>1
  <1>2. SubSeq(D, n + 1, Len(D)) = b
    BY JoinedTail
  <1>3. SubSeq(D, 1, n) = a
    BY JoinedFront
  <1> HIDE DEF D, n
  <1>4. Spliced(D, head, n) = SubSeq(D, 1, n) \o (head \o SubSeq(D, n + 1, Len(D)))
    BY <1>1, SplicedHead
  <1>5. Spliced(D, head, n) = a \o (head \o b)
    BY <1>2, <1>3, <1>4
  <1> QED
    BY <1>5 DEF D, n

\* A level was opened in c, as o says, and filled with k items, as q says.
InLevel(c, o, q, type, k) ==
    /\ Clean(c) /\ Clean(o) /\ o.out.data = c.out.data
    /\ Current(q) = Raised(Nesting_Level(type, Len(c.out.data)), k)
    /\ Nesting_IsInNest(q)
    /\ SubSeq(q.nesting, 1, Len(q.nesting) - 1) = Counted(c.nesting, 1)

\* What is in a level that was opened and filled.
LEMMA LevelFilled ==
  ASSUME NEW c, Fair(c), NEW type \in Nat, NEW o, Opens(c, o, type), NEW T, NEW k \in Nat,
         NEW q, Writes(o, q, T, k, << >>), Clean(q)
  PROVE  InLevel(c, o, q, type, k)
  <1> DEFINE nest == Counted(c.nesting, 1)
             lev  == Nesting_Level(type, Len(c.out.data))
             all  == q.nesting
  <1>1. Clean(o) /\ all = Counted(o.nesting, k)
    BY DEF Writes
  <1>2. Clean(c) /\ o.out.data = c.out.data /\ o.nesting = Append(nest, lev)
    BY <1>1 DEF Opens
  <1>3. c.nesting \in Seq(Levels) /\ Len(c.nesting) >= 1 /\ Len(c.nesting) \in Nat /\ Len(c.out.data) \in Nat
    BY GoodFields DEF Fair
  <1>4. nest \in Seq(AnyLevels) /\ Len(nest) = Len(c.nesting)
    BY <1>3, CountedType
  <1>5. lev \in AnyLevels
    BY <1>3 DEF Nesting_Level, AnyLevels
  <1>6. all = Counted(Append(nest, lev), k)
    BY <1>1, <1>2
  <1> HIDE DEF nest, lev, all
  <1>7. Len(all) = Len(nest) + 1 /\ all[Len(all)] = Raised(lev, k) /\ SubSeq(all, 1, Len(all) - 1) = nest
    <2>1. IsOnTop(all, nest, Raised(lev, k))
      BY <1>4, <1>5, <1>6, AppendCounted
    <2> QED
      BY <2>1 DEF IsOnTop
  <1>8. Len(all) > 1
    BY <1>3, <1>4, <1>7
  <1> QED
    BY <1>1, <1>2, <1>7, <1>8 DEF InLevel, Current, Nesting_IsInNest, all, nest, lev

\* The number of pairs of a map, or of items of an array.
LEMMA LevelCount ==
  ASSUME NEW type \in {ARRAY, MAP}, NEW start \in Nat, NEW k \in Nat, NEW q,
         Current(q) = Raised(Nesting_Level(type, start), k)
  PROVE  /\ Current(q).start = start /\ Current(q).type = type
         /\ Nesting_GetCount(q) = (IF type = MAP THEN k \div 2 ELSE k)
  <1>1. Nesting_Level(type, start) \in AnyLevels
    BY DEF Nesting_Level, AnyLevels, ARRAY, MAP
  <1>2. Current(q).start = start /\ Current(q).type = type /\ Current(q).count = k
    BY <1>1 DEF Raised, AnyLevels, Nesting_Level
  <1> QED
    BY <1>2 DEF Nesting_GetCount

\* A level that is opened, filled and closed.
LEMMA LevelWrites ==
  ASSUME NEW c, Fair(c), NEW type \in {ARRAY, MAP}, NEW o, Opens(c, o, type), NEW T, NEW k \in Nat,
         NEW q, Writes(o, q, T, k, << >>), NEW n, n = IF type = MAP THEN k \div 2 ELSE k
  PROVE  Writes(c, QCBOREncode_CloseMapOrArray(q, type), <<Token(type, n, << >>)>> \o T, 1, << >>)
  <1> DEFINE m    == Nesting_GetCount(q)
             head == CloseHead(type, m)
             pos  == Current(q).start
             r    == QCBOREncode_CloseMapOrArray(q, type)
             D    == c.out.data
             all  == <<Token(type, n, << >>)>> \o T
  <1>1. Fair(q) /\ Good(q) /\ Good(c)
    BY DEF Writes, Fair
  <1>2. m \in Nat /\ IsUint64(m) /\ type \in Nat /\ type \in {4, 5} /\ type # OPEN_BSTR
    BY <1>1, GetCountType DEF ARRAY, MAP, OPEN_BSTR
  <1>3. Closes(q, r, type, Spliced(q.out.data, head, pos))
    BY <1>1, <1>2, InsertHeadCloses DEF QCBOREncode_CloseMapOrArray
  <1>4. D \in Seq(Byte) /\ Len(D) \in Nat
    BY <1>1, GoodFields
  <1> HIDE DEF r, m, head, pos, D
  <1>5. ASSUME Clean(r)
        PROVE  /\ Clean(c) /\ r.nesting = Counted(c.nesting, 1)
               /\ \E b \in Seq(Byte) : r.out.data = D \o b /\ Encodes(b \o << >>, all)
    <2>1. /\ Clean(q) /\ r.nesting = SubSeq(q.nesting, 1, Len(q.nesting) - 1)
          /\ r.out.data = Spliced(q.out.data, head, pos)
      BY <1>3, <1>5 DEF Closes
    <2>2. /\ Clean(c) /\ Clean(o) /\ o.out.data = D /\ pos = Len(D) /\ m = n
          /\ r.nesting = Counted(c.nesting, 1)
      <3>1. InLevel(c, o, q, type, k)
        BY <1>2, <2>1, LevelFilled
      <3>2. Current(q).start = Len(c.out.data) /\ Nesting_GetCount(q) = n
        BY <1>4, <3>1, LevelCount DEF D, InLevel
      <3> QED
        BY <2>1, <3>1, <3>2 DEF D, pos, m, InLevel
    <2>3. PICK x \in Seq(Byte) : q.out.data = o.out.data \o x /\ Encodes(x \o << >>, T)
      BY <2>1 DEF Writes
    <2>4. Encodes(x, T)
      BY <2>3, ConcatEmptySeq
    <2> DEFINE hd == QCBOREncode_EncodeHead(type, 0, m)
               y  == hd \o x
    <2>5. Encodes(y, <<Token(type, m, << >>)>> \o T)
      BY <1>2, <2>4, HeadInFront
    <2>6. head = hd
      BY <1>2 DEF head, CloseHead
    <2>7. hd \in Seq(Byte)
      BY <1>2, HeadType
    <2> HIDE DEF hd
    <2>8. Spliced(D \o x, hd, Len(D)) = D \o y
      BY <1>4, <2>7, SplicedBetween
    <2>9. y \in Seq(Byte)
      BY <2>7, ConcatProperties
    <2> HIDE DEF y
    <2>10. r.out.data = D \o y
      BY <2>1, <2>2, <2>3, <2>6, <2>8
    <2>11. Encodes(y \o << >>, all)
      BY <2>2, <2>5, <2>9, ConcatEmptySeq
    <2> QED
      BY <2>2, <2>9, <2>10, <2>11
  <1>6. Fair(r)
    BY <1>3 DEF Closes
  <1> QED
    BY <1>5, <1>6 DEF Writes, r, D

\* Two sequences of one element.
LEMMA OneAndOne ==
  ASSUME NEW x, NEW y
  PROVE  <<x>> \o <<y>> = <<x, y>>
  <1> DEFINE S == {x, y}
             a == <<x>>
             b == <<y>>
             c == <<x, y>>
             d == a \o b
  <1>1. a \in Seq(S) /\ Len(a) = 1 /\ a[1] = x
    OBVIOUS
  <1>2. b \in Seq(S) /\ Len(b) = 1 /\ b[1] = y
    OBVIOUS
  <1>3. c \in Seq(S) /\ Len(c) = 2 /\ c[1] = x /\ c[2] = y
    OBVIOUS
  <1> HIDE DEF a, b, c, S
  <1>4. /\ d \in Seq(S) /\ Len(d) = Len(a) + Len(b)
        /\ \A i \in 1..(Len(a) + Len(b)) : d[i] = IF i <= Len(a) THEN a[i] ELSE b[i - Len(a)]
    BY <1>1, <1>2, ConcatProperties
  <1>5. Len(d) = 2 /\ d[1] = x /\ d[2] = y
    <2> HIDE DEF d
    <2>1. Len(d) = 2 /\ 1 \in 1..2 /\ 2 \in 1..2 /\ 2 - 1 = 1
      BY <1>1, <1>2, <1>4
    <2> QED
      BY <1>1, <1>2, <1>4, <2>1
  <1>6. d \in Seq(S)
    BY <1>4
  <1> HIDE DEF d
  <1>7. \A i \in 1..Len(d) : d[i] = c[i]
    BY <1>3, <1>5
  <1>8. d = c
    BY <1>3, <1>5, <1>6, <1>7, SeqEqual
  <1> QED
    BY <1>8 DEF a, b, c, d

\* The tokens of the mantissa: a number, or a big number with its tag.
MantissaToks(big, neg, m) ==
    IF big.null THEN <<Int_(m)>>
    ELSE <<Tag_(IF neg THEN CBOR_TAG_NEG_BIGNUM ELSE CBOR_TAG_POS_BIGNUM), Bytes_(big.bytes)>>

\* QCBOREncode_AddExponentAndMantissa.
LEMMA MantissaWrites ==
  ASSUME NEW c, Fair(c), NEW big, NEW neg, NEW m, NEW e, IsNumber(e),
         IF big.null THEN IsNumber(m) ELSE IsString(big.bytes)
  PROVE  Writes(c, QCBOREncode_AddExponentAndMantissa(c, big, neg, m, e),
                <<Array_(2)>> \o (<<Int_(e)>> \o MantissaToks(big, neg, m)), 1, << >>)
  <1> DEFINE o == QCBOREncode_OpenMapOrArray(c, ARRAY)
             p == QCBOREncode_AddInt64(o, e)
             q == IF big.null THEN QCBOREncode_AddInt64(p, m)
                  ELSE IF neg THEN AddTNegativeBignum(p, NoLabel, TRUE, big.bytes)
                  ELSE AddTPositiveBignum(p, NoLabel, TRUE, big.bytes)
             M == MantissaToks(big, neg, m)
             r == QCBOREncode_AddExponentAndMantissa(c, big, neg, m, e)
  <1>1. Opens(c, o, ARRAY)
    BY OpenOpens DEF ARRAY
  <1>2. Fair(o)
    BY <1>1 DEF Opens
  <1>3. r = QCBOREncode_CloseMapOrArray(q, ARRAY)
    BY DEF QCBOREncode_AddExponentAndMantissa
  <1> HIDE DEF o, r
  <1>4. Writes(o, p, <<Int_(e)>>, 1, << >>)
    BY <1>2, Int64Writes DEF IsNumber
  <1>5. Fair(p)
    BY <1>4 DEF Writes
  <1> HIDE DEF p
  <1>6. Writes(p, q, M, 1, << >>)
    <2>1. CASE big.null
      <3>1. q = QCBOREncode_AddInt64(p, m) /\ M = <<Int_(m)>>
        BY <2>1 DEF MantissaToks
      <3>2. Writes(p, QCBOREncode_AddInt64(p, m), <<Int_(m)>>, 1, << >>)
        BY <1>5, <2>1, Int64Writes DEF IsNumber
      <3> QED
        BY <3>1, <3>2
    <2>2. CASE ~big.null
      <3> DEFINE tag == IF neg THEN CBOR_TAG_NEG_BIGNUM ELSE CBOR_TAG_POS_BIGNUM
                 b   == big.bytes
                 u   == QCBOREncode_AddTag(p, tag)
      <3>1. q = QCBOREncode_AddBuffer(u, BYTE_STRING, b)
        BY <2>2 DEF AddTNegativeBignum, AddTPositiveBignum, Prefixed, AddLabel, NoLabel
      <3>2. M = <<Tag_(tag), Bytes_(b)>>
        BY <2>2 DEF MantissaToks
      <3>3. b \in Seq(Byte) /\ IsUint64(Len(b))
        BY <2>2 DEF IsString
      <3>4. tag \in Small
        BY DEF Small, CBOR_TAG_NEG_BIGNUM, CBOR_TAG_POS_BIGNUM
      <3> HIDE DEF tag, b, q, M
      <3>5. Writes(p, u, <<Tag_(tag)>>, 0, << >>)
        BY <1>5, <3>4, SmallUint64, TagWrites
      <3>6. Fair(u)
        BY <3>5 DEF Writes
      <3> HIDE DEF u
      <3>7. Writes(u, q, <<Bytes_(b)>>, 1, << >>)
        <4>1. BYTE_STRING \in {BYTE_STRING, TEXT_STRING} /\ BYTE_STRING = 2
          BY DEF BYTE_STRING
        <4>2. Writes(u, QCBOREncode_AddBuffer(u, BYTE_STRING, b), <<Token(BYTE_STRING, Len(b), b)>>, 1, << >>)
          BY <3>3, <3>6, <4>1, StringWrites
        <4> QED
          BY <3>1, <4>1, <4>2 DEF Bytes_
      <3>8. << >> \in Seq(Byte) /\ 0 \in Nat /\ 1 \in Nat /\ 1 = 0 + 1
        BY EmptySeq
      <3>9. Writes(p, q, <<Tag_(tag)>> \o <<Bytes_(b)>>, 1, << >>)
        BY <1>5, <3>5, <3>7, <3>8, WritesTwice
      <3>10. <<Tag_(tag)>> \o <<Bytes_(b)>> = <<Tag_(tag), Bytes_(b)>>
        BY OneAndOne
      <3> QED
        BY <3>2, <3>9, <3>10
    <2> QED
      BY <2>1, <2>2
  <1> HIDE DEF q, M
  <1>7. << >> \in Seq(Byte) /\ 1 \in Nat /\ 2 = 1 + 1
    BY EmptySeq
  <1>8. Writes(o, q, <<Int_(e)>> \o M, 2, << >>)
    BY <1>2, <1>4, <1>6, <1>7, WritesTwice
  <1>9. Writes(c, QCBOREncode_CloseMapOrArray(q, ARRAY), <<Array_(2)>> \o (<<Int_(e)>> \o M), 1, << >>)
    <2>1. ARRAY \in {ARRAY, MAP} /\ 2 \in Nat /\ ARRAY # MAP /\ ARRAY = 4
      BY DEF ARRAY, MAP
    <2>2. Writes(c, QCBOREncode_CloseMapOrArray(q, ARRAY), <<Token(ARRAY, 2, << >>)>> \o (<<Int_(e)>> \o M), 1, << >>)
      BY <1>1, <1>8, <2>1, LevelWrites
    <2> QED
      BY <2>1, <2>2 DEF Array_
  <1> QED
    BY <1>3, <1>9 DEF r, M

-----------------------------------------------------------------------------
(* C strings *)

\* The characters in front of the zero of a C string are the ones it was made of.
LEMMA FromSZIs ==
  ASSUME NEW b \in Seq(Byte), \A i \in DOMAIN b : b[i] # 0
  PROVE  UsefulBuf_FromSZ(b \o <<0>>) = b
  <1> DEFINE z  == <<0>>
             sz == b \o z
             S  == {i \in DOMAIN sz : sz[i] = 0}
             n  == Len(b)
  <1>1. n \in Nat /\ z \in Seq(Byte) /\ Len(z) = 1 /\ z[1] = 0 /\ DOMAIN b = 1..n
    BY LenProperties DEF Byte
  <1> HIDE DEF z
  <1>2. /\ sz \in Seq(Byte) /\ Len(sz) = n + 1
        /\ \A i \in 1..(n + 1) : sz[i] = IF i <= n THEN b[i] ELSE z[i - n]
    BY <1>1, ConcatProperties
  <1>3. SubSeq(sz, 1, n) = b
    BY <1>1, JoinedFront
  <1> HIDE DEF sz, n
  <1>4. DOMAIN sz = 1..(n + 1)
    BY <1>2, LenProperties
  <1>5. n + 1 \in 1..(n + 1) /\ (n + 1) - n = 1 /\ ~(n + 1 <= n) /\ (n + 1) - 1 = n
    BY <1>1
  <1>6. sz[n + 1] = 0
    BY <1>1, <1>2, <1>5
  <1>7. S \in SUBSET Nat /\ n + 1 \in S
    BY <1>1, <1>4, <1>5, <1>6
  <1>8. \A j \in S : n + 1 <= j
    <2> SUFFICES ASSUME NEW j \in S PROVE n + 1 <= j
      OBVIOUS
    <2>1. j \in 1..(n + 1) /\ sz[j] = 0
      BY <1>4
    <2>2. ASSUME j <= n PROVE FALSE
      BY <1>1, <1>2, <2>1, <2>2
    <2> QED
      BY <1>1, <2>1, <2>2
  <1> HIDE DEF S
  <1> DEFINE m == n + 1
  <1>9. m \in S /\ S \in SUBSET Nat /\ \A j \in S : m <= j
    BY <1>7, <1>8
  <1>10. m - 1 = n
    BY <1>5
  <1> HIDE DEF m
  <1>11. Min(S) = m
    BY <1>9, LeastIs
  <1> QED
    BY <1>3, <1>10, <1>11 DEF UsefulBuf_FromSZ, S, sz, z

-----------------------------------------------------------------------------
(* What closing a level puts in front of it *)

\* The front of a sequence.
LEMMA FrontOf ==
  ASSUME NEW S, NEW s \in Seq(S), NEW m \in 0..Len(s)
  PROVE  /\ SubSeq(s, 1, m) \in Seq(S) /\ Len(SubSeq(s, 1, m)) = m
         /\ \A i \in 1..m : SubSeq(s, 1, m)[i] = s[i]
  <1>1. m \in Nat /\ 0 + m <= Len(s)
    BY LenProperties
  <1>2. /\ SubSeq(s, 0 + 1, 0 + m) \in Seq(S) /\ Len(SubSeq(s, 0 + 1, 0 + m)) = m
        /\ \A i \in 1..m : SubSeq(s, 0 + 1, 0 + m)[i] = s[0 + i]
    BY <1>1, Stretch
  <1>3. 0 + 1 = 1 /\ 0 + m = m /\ \A i \in 1..m : 0 + i = i
    BY <1>1
  <1> QED
    BY <1>2, <1>3

\* A sequence is made of its two parts.
LEMMA TwoParts ==
  ASSUME NEW D \in Seq(Byte), NEW pos \in 0..Len(D)
  PROVE  LET a == SubSeq(D, 1, pos)
             r == SubSeq(D, pos + 1, Len(D))
         IN  a \in Seq(Byte) /\ Len(a) = pos /\ r \in Seq(Byte) /\ D = a \o r
  <1> DEFINE a == SubSeq(D, 1, pos)
             r == SubSeq(D, pos + 1, Len(D))
             l == Len(D) - pos
             E == a \o r
  <1>1. Len(D) \in Nat /\ pos \in Nat /\ pos <= Len(D)
    BY LenProperties
  <1>2. r \in Seq(Byte) /\ Len(r) = l /\ \A i \in 1..Len(r) : r[i] = D[pos + i]
    BY <1>1, RestType
  <1>3. a \in Seq(Byte) /\ Len(a) = pos /\ \A i \in 1..pos : a[i] = D[i]
    BY FrontOf
  <1> HIDE DEF a, r
  <1>4. /\ E \in Seq(Byte) /\ Len(E) = pos + l
        /\ \A i \in 1..(pos + l) : E[i] = IF i <= pos THEN a[i] ELSE r[i - pos]
    BY <1>2, <1>3, Joined
  <1> HIDE DEF E
  <1>5. Len(E) = Len(D)
    BY <1>1, <1>4
  <1>6. \A i \in 1..Len(E) : E[i] = D[i]
    <2> SUFFICES ASSUME NEW i \in 1..Len(E) PROVE E[i] = D[i]
      OBVIOUS
    <2>1. CASE i <= pos
      BY <1>1, <1>3, <1>4, <2>1
    <2>2. CASE ~(i <= pos)
      <3>1. i - pos \in 1..Len(r) /\ pos + (i - pos) = i
        BY <1>1, <1>2, <1>4, <2>2
      <3> QED
        BY <1>2, <1>4, <2>2, <3>1
    <2> QED
      BY <2>1, <2>2
  <1>7. E = D
    BY <1>4, <1>5, <1>6, SeqEqual
  <1> QED
    BY <1>2, <1>3, <1>7 DEF E, a, r

\* What is put in front of the end of some bytes is in front of what follows them, too.
StaysInFront(D, w, head, pos) ==
    LET all == D \o w
    IN  Spliced(D, head, pos) \o w = SubSeq(all, 1, pos) \o (head \o SubSeq(all, pos + 1, Len(all)))

\* Bytes that are still to come stay behind those of the level.
LEMMA SplicedOwes ==
  ASSUME NEW D \in Seq(Byte), NEW w \in Seq(Byte), NEW head \in Seq(Byte), NEW pos \in 0..Len(D)
  PROVE  StaysInFront(D, w, head, pos)
  <1> DEFINE a   == SubSeq(D, 1, pos)
             r   == SubSeq(D, pos + 1, Len(D))
             z   == r \o w
             all == D \o w
  <1>1. a \in Seq(Byte) /\ Len(a) = pos /\ r \in Seq(Byte) /\ D = a \o r
    BY TwoParts
  <1>2. Spliced(D, head, pos) = a \o (head \o r)
    BY SplicedHead
  <1> HIDE DEF a, r
  <1>3. head \o r \in Seq(Byte) /\ z \in Seq(Byte)
    BY <1>1, ConcatProperties
  <1>4. (a \o (head \o r)) \o w = a \o ((head \o r) \o w)
    <2> DEFINE h == head \o r
    <2>1. h \in Seq(Byte)
      BY <1>3
    <2> HIDE DEF h
    <2>2. InTurn(a, h, w)
      BY <1>1, <2>1, JoinedInTurn
    <2> QED
      BY <2>2 DEF InTurn, h
  <1>5. (head \o r) \o w = head \o z
    <2>1. InTurn(head, r, w)
      BY <1>1, JoinedInTurn
    <2> QED
      BY <2>1 DEF InTurn
  <1>6. all = a \o z
    <2>1. InTurn(a, r, w)
      BY <1>1, JoinedInTurn
    <2> QED
      BY <1>1, <2>1 DEF InTurn
  <1> HIDE DEF z, all
  <1>7. SubSeq(a \o z, 1, Len(a)) = a /\ SubSeq(a \o z, Len(a) + 1, Len(a \o z)) = z
    BY <1>1, <1>3, JoinedFront, JoinedTail
  <1>8. SubSeq(all, 1, pos) = a /\ SubSeq(all, pos + 1, Len(all)) = z
    BY <1>1, <1>6, <1>7
  <1> QED
    BY <1>2, <1>4, <1>5, <1>8 DEF all, StaysInFront

\* The bytes QCBOREncode_CloseBstrWrap2 hands out, if it does: the ones of the level, or
\* these and the head in front of them.
LEMMA WrapHands ==
  ASSUME NEW c, Fair(c), NEW includeHead \in BOOLEAN
  PROVE  LET n      == Len(c.out.data) - Current(c).start
             r      == SubSeq(c.out.data, Current(c).start + 1, Len(c.out.data))
             head   == QCBOREncode_EncodeHead(BYTE_STRING, 0, n)
             closed == QCBOREncode_CloseBstrWrap2(c, includeHead)
         IN  /\ Closes(c, closed.ctx, BYTE_STRING, Spliced(c.out.data, head, Current(c).start))
             /\ Clean(closed.ctx) /\ ~closed.wrapped.null =>
                  closed.wrapped.bytes = IF includeHead THEN head \o r ELSE r
             /\ ~closed.wrapped.null => ~closed.ctx.out.err
  <1> DEFINE D      == c.out.data
             start  == Current(c).start
             n      == Len(D) - start
             r      == SubSeq(D, start + 1, Len(D))
             head   == QCBOREncode_EncodeHead(BYTE_STRING, 0, n)
             d      == InsertCBORHead(c, BYTE_STRING, n)
             grown  == Len(d.out.data) - Len(D)
             skip   == IF includeHead THEN start ELSE start + grown
             ub     == UsefulOutBuf_OutUBuf(d.out)
             E      == Spliced(D, head, start)
             closed == QCBOREncode_CloseBstrWrap2(c, includeHead)
  <1>1. Good(c) /\ D \in Seq(Byte) /\ start \in 0..Len(D) /\ Len(D) \in Nat /\ BYTE_STRING \in Nat
    BY GoodFields DEF Fair, Levels, BYTE_STRING
  <1>2. n \in Nat /\ IsUint64(n)
    BY <1>1, LevelLength
  <1>3. closed = [ctx |-> d, wrapped |-> UsefulBuf_Tail(ub, skip)]
    BY DEF QCBOREncode_CloseBstrWrap2, UsefulOutBuf_GetEndPosition
  <1> HIDE DEF closed
  <1>4. closed.ctx = d /\ closed.wrapped = UsefulBuf_Tail(ub, skip)
    BY <1>3
  <1>5. CloseHead(BYTE_STRING, n) = head
    BY DEF CloseHead, BYTE_STRING, OPEN_BSTR
  <1>6. head \in Seq(Byte)
    BY <1>1, <1>2, HeadType
  <1> HIDE DEF head
  <1>7. Closes(c, d, BYTE_STRING, E)
    <2> HIDE DEF n
    <2>1. Closes(c, InsertCBORHead(c, BYTE_STRING, n), BYTE_STRING,
                 Spliced(c.out.data, CloseHead(BYTE_STRING, n), Current(c).start))
      BY <1>1, <1>2, InsertHeadCloses
    <2> QED
      BY <1>5, <2>1
  <1> HIDE DEF d, n
  <1>8. ~closed.wrapped.null => ~d.out.err
    <2> SUFFICES ASSUME d.out.err PROVE closed.wrapped.null
      OBVIOUS
    <2>1. ub = NULLUsefulBufC
      BY DEF UsefulOutBuf_OutUBuf
    <2> HIDE DEF ub, skip
    <2> DEFINE rest == SubSeq(ub.bytes, skip + 1, Len(ub.bytes))
    <2>2. UsefulBuf_Tail(ub, skip) = NULLUsefulBufC \/ UsefulBuf_Tail(ub, skip) = [ub EXCEPT !.bytes = rest]
      BY DEF UsefulBuf_Tail
    <2> HIDE DEF rest
    <2>3. NULLUsefulBufC.null /\ [ub EXCEPT !.bytes = rest].null
      BY <2>1 DEF NULLUsefulBufC
    <2> QED
      BY <1>4, <2>2, <2>3
  <1>9. ASSUME Clean(d), ~closed.wrapped.null
        PROVE  closed.wrapped.bytes = IF includeHead THEN head \o r ELSE r
    <2>1. d.out.data = E /\ ~d.out.err
      BY <1>7, <1>9 DEF Closes, Clean
    <2>2. ub.bytes = E
      BY <2>1 DEF UsefulOutBuf_OutUBuf
    <2>3. /\ SubSeq(E, start + 1, Len(E)) = head \o r
          /\ SubSeq(E, (start + Len(head)) + 1, Len(E)) = r
      BY <1>1, <1>6, SplicedHead
    <2>4. grown = Len(head)
      <3>1. Len(E) = Len(D) + Len(head)
        BY <1>1, <1>6, SplicedType
      <3>2. Len(head) \in Nat
        BY <1>6, LenProperties
      <3> HIDE DEF E, D
      <3> QED
        BY <1>1, <2>1, <3>1, <3>2
    <2> HIDE DEF E, r, ub, grown
    <2>5. closed.wrapped.bytes = SubSeq(E, skip + 1, Len(E))
      <3> HIDE DEF skip
      <3>1. UsefulBuf_Tail(ub, skip) # NULLUsefulBufC
        BY <1>4, <1>9 DEF NULLUsefulBufC
      <3>2. UsefulBuf_Tail(ub, skip) = [ub EXCEPT !.bytes = SubSeq(@, skip + 1, Len(@))]
        BY <3>1 DEF UsefulBuf_Tail
      <3>3. "bytes" \in DOMAIN ub
        BY <2>1 DEF ub, UsefulOutBuf_OutUBuf
      <3> QED
        BY <1>4, <2>2, <3>2, <3>3
    <2>6. CASE includeHead
      BY <2>3, <2>5, <2>6
    <2>7. CASE ~includeHead
      BY <2>3, <2>4, <2>5, <2>7
    <2> QED
      BY <2>6, <2>7
  <1> QED
    BY <1>4, <1>7, <1>8, <1>9 DEF n, head, closed

-----------------------------------------------------------------------------
(* What a function writes as long as there is room *)

\* In a buffer no position of which is out of range only a lack of room was an error.
Sound(c) == Fair(c) /\ c.out.cap < MAX_ARRAY_OFFSET /\ (~c.out.err => ~c.failed)

\* The bytes have been written exactly if they fit.
Costs(c, d, n) ==
    /\ d.out.cap = c.out.cap /\ d.out.null = c.out.null
    /\ d.out.err <=> c.out.err \/ Len(c.out.data) + n > c.out.cap
    /\ ~d.out.err => Len(d.out.data) = Len(c.out.data) + n

\* There are k items and l levels left.
Left(c, k, l) ==
    ~c.out.err => /\ Current(c).count + k < MAX_ITEMS_IN_ARRAY
                  /\ Len(c.nesting) + l <= MAX_ARRAY_NESTING + 1

\* Tokens that are k items and n bytes were written, or there was no room for them.
Made(c, d, T, k, n) == Writes(c, d, T, k, << >>) /\ Costs(c, d, n) /\ Sound(d)

\* Lengths of two writes.
LEMMA CostsTwice ==
  ASSUME NEW c, NEW d, NEW e, Good(c), Good(d), NEW m \in Nat, NEW n \in Nat, Costs(c, d, m), Costs(d, e, n)
  PROVE  Costs(c, e, m + n)
  <1>1. /\ Len(c.out.data) \in Nat /\ c.out.cap \in Nat /\ Len(d.out.data) \in Nat /\ d.out.cap \in Nat
    BY GoodFields
  <1> DEFINE lc  == Len(c.out.data)
             ld  == Len(d.out.data)
             le  == Len(e.out.data)
             cap == c.out.cap
  <1>2. d.out.cap = cap /\ e.out.cap = cap /\ e.out.null = c.out.null
    BY DEF Costs
  <1>3. (d.out.err <=> c.out.err \/ lc + m > cap) /\ (~d.out.err => ld = lc + m)
    BY DEF Costs
  <1>4. (e.out.err <=> d.out.err \/ ld + n > cap) /\ (~e.out.err => le = ld + n)
    BY <1>2 DEF Costs
  <1> HIDE DEF lc, ld, le, cap
  <1>5. lc \in Nat /\ cap \in Nat
    BY <1>1 DEF lc, cap
  <1>6. CASE d.out.err
    <2>1. c.out.err \/ lc + (m + n) > cap
      BY <1>3, <1>5, <1>6
    <2> QED
      BY <1>2, <1>4, <1>6, <2>1 DEF Costs, lc, cap
  <1>7. CASE ~d.out.err
    <2>1. ~c.out.err /\ ld = lc + m
      BY <1>3, <1>7
    <2>2. ld + n = lc + (m + n)
      BY <1>5, <2>1
    <2> QED
      BY <1>2, <1>4, <1>7, <2>1, <2>2 DEF Costs, lc, le, cap
  <1> QED
    BY <1>6, <1>7

\* Bytes put in somewhere.
LEMMA WriteCosts ==
  ASSUME NEW c, Sound(c), NEW b \in Seq(Byte), NEW pos \in 0..Len(c.out.data)
  PROVE  LET d == Write(c, b, pos)
         IN  Costs(c, d, Len(b)) /\ Sound(d) /\ d.nesting = c.nesting /\ d.failed = c.failed
  <1> DEFINE d == Write(c, b, pos)
             o == UsefulOutBuf_InsertUsefulBuf(c.out, b, pos)
  <1>1. Good(c) /\ c \in Contexts /\ c.out \in OutBufs /\ c.out.data \in Seq(Byte)
    BY GoodFields DEF Sound, Fair, Good
  <1>2. /\ Grows(c, d) /\ d.nesting = c.nesting /\ d.uError = c.uError
        /\ ~c.out.err => (d.out.err <=> Len(c.out.data) + Len(b) > c.out.cap)
        /\ ~d.out.err => d.out.data = Spliced(c.out.data, b, pos)
    BY <1>1, WriteGrows
  <1>3. Len(Spliced(c.out.data, b, pos)) = Len(c.out.data) + Len(b)
    BY <1>1, SplicedType
  <1>4. d.failed = c.failed /\ d.out = o
    BY <1>1 DEF Write, Contexts
  <1>5. o.null = c.out.null
    BY <1>1 DEF UsefulOutBuf_InsertUsefulBuf, OutBufs
  <1> HIDE DEF d, o
  <1>6. Costs(c, d, Len(b))
    BY <1>2, <1>3, <1>4, <1>5 DEF Costs, Grows
  <1>7. Sound(d)
    BY <1>2, <1>4 DEF Sound, Fair, Grows
  <1> QED
    BY <1>2, <1>4, <1>6, <1>7 DEF d

\* Bytes put behind the others.
LEMMA AppendCosts ==
  ASSUME NEW c, Sound(c), NEW b \in Seq(Byte)
  PROVE  LET d == [c EXCEPT !.out = UsefulOutBuf_AppendUsefulBuf(@, b)]
         IN  Costs(c, d, Len(b)) /\ Sound(d)
  <1> DEFINE n == Len(c.out.data)
  <1>1. n \in 0..n
    BY GoodFields DEF Sound, Fair
  <1>2. [c EXCEPT !.out = UsefulOutBuf_AppendUsefulBuf(@, b)] = Write(c, b, n)
    BY DEF Write, UsefulOutBuf_AppendUsefulBuf, UsefulOutBuf_GetEndPosition
  <1> HIDE DEF n
  <1> QED
    BY <1>1, <1>2, WriteCosts DEF n

\* Four bytes are not more than eight.
LEMMA FourBytesFit ==
  ASSUME NEW n \in Nat, FitsBytes(n, 4)
  PROVE  IsUint64(n)
  <1> DEFINE g == Shifted(n)
  <1>1. /\ g[0] = n /\ \A k \in 1..8 : g[k] = g[k - 1] \div 256
        /\ \A k \in 0..8 : g[k] \in Nat
    BY ShiftedValues
  <1> HIDE DEF g
  <1>2. g[1] = n \div 256 /\ g[2] = g[1] \div 256 /\ g[3] = g[2] \div 256 /\ g[4] = g[3] \div 256
    BY <1>1
  <1>3. g[2] = n \div 65536
    BY <1>2, ByTwoBytes
  <1>4. g[2] \in Nat /\ g[2] < 65536
    BY <1>1, <1>3 DEF FitsBytes
  <1>5. g[4] = 0
    BY <1>2, <1>4, ByTwoBytes, DivZero
  <1>6. ASSUME NEW k \in 1..8, g[k - 1] = 0
        PROVE  g[k] = 0
    <2>1. g[k] = g[k - 1] \div 256
      BY <1>1
    <2>2. 0 \div 256 = 0
      OBVIOUS
    <2> QED
      BY <1>6, <2>1, <2>2, Zenon
  <1>7. g[5] = 0
    BY <1>5, <1>6
  <1>8. g[6] = 0
    BY <1>6, <1>7
  <1>9. g[7] = 0
    BY <1>6, <1>8
  <1>10. g[8] = 0
    BY <1>6, <1>9
  <1> QED
    BY <1>10 DEF g, IsUint64

\* A head is as long as HeadLen says.
LEMMA HeadCosts ==
  ASSUME NEW type \in 0..7, NEW n \in Nat, FitsBytes(n, 4)
  PROVE  /\ IsUint64(n) /\ QCBOREncode_EncodeHead(type, 0, n) \in Seq(Byte)
         /\ HeadLen(n) \in Nat /\ Len(QCBOREncode_EncodeHead(type, 0, n)) = HeadLen(n)
  <1> DEFINE i == WidthIndex(0, n)
             w == HeadWidths[i]
             h == QCBOREncode_EncodeHead(type, 0, n)
  <1>1. IsUint64(n)
    BY FourBytesFit
  <1>2. h \in Seq(Byte)
    BY <1>1, HeadType
  <1>3. CASE n < 24
    <2>1. h = <<(type * 32 + n) % 256>>
      BY <1>3 DEF QCBOREncode_EncodeHead, INDEFINITE_LEN_TYPE_MODIFIER
    <2> QED
      BY <1>1, <1>2, <1>3, <2>1 DEF HeadLen
  <1>4. CASE ~(n < 24)
    <2>1. /\ i \in 1..4 /\ Shifted(n)[w] = 0
          /\ \A j \in 1..4 : 0 <= HeadWidths[j] /\ Shifted(n)[HeadWidths[j]] = 0 => i <= j
      BY <1>1, WidthIndexFacts DEF IsUint64
    <2>2. h = <<(type * 32 + 23 + i) % 256>> \o BigEndian(n, w)
      BY <1>4 DEF QCBOREncode_EncodeHead, INDEFINITE_LEN_TYPE_MODIFIER
    <2> HIDE DEF i, h
    <2>3. w \in {1, 2, 4, 8}
      BY <2>1 DEF HeadWidths
    <2>4. BigEndian(n, w) \in Seq(Byte) /\ Len(BigEndian(n, w)) = w
      <3> DEFINE s == BigEndian(n, w)
      <3>1. s \in Seq(Byte)
        BY <2>3, BigEndianType
      <3>2. DOMAIN s = 1..w
        BY DEF BigEndian
      <3> HIDE DEF s, w
      <3>3. Len(s) \in Nat /\ DOMAIN s = 1..Len(s)
        BY <3>1, LenProperties
      <3> QED
        BY <2>3, <3>1, <3>2, <3>3 DEF s
    <2>5. Len(h) = 1 + w
      <3>1. (type * 32 + 23 + i) % 256 \in Byte
        BY <2>1 DEF Byte
      <3> DEFINE x == (type * 32 + 23 + i) % 256
      <3> HIDE DEF x, w
      <3>2. <<x>> \in Seq(Byte) /\ Len(<<x>>) = 1
        BY <3>1 DEF x
      <3> QED
        BY <2>2, <2>4, <3>2, ConcatProperties DEF x
    <2>6. \A v \in {1, 2, 4} : (Shifted(n)[v] = 0) <=> FitsBytes(n, v)
      BY <1>1, WidthHolds DEF IsUint64
    <2>7. w = IF n < 256 THEN 1 ELSE IF n < 65536 THEN 2 ELSE 4
      <3>1. \A j \in 1..3 : FitsBytes(n, HeadWidths[j]) => i <= j
        BY <2>1, <2>6 DEF HeadWidths
      <3>2. w # 8 => FitsBytes(n, w)
        BY <2>1, <2>3, <2>6
      <3>3. (FitsBytes(n, 1) <=> n < 256) /\ (FitsBytes(n, 2) <=> n < 65536)
        BY DEF FitsBytes
      <3>4. i <= 3 /\ (n < 256 => i = 1) /\ (n < 65536 => i <= 2)
        BY <2>1, <3>1, <3>3 DEF HeadWidths
      <3>5. n >= 65536 => w # 2 /\ w # 1
        BY <3>2, <3>3
      <3>6. n >= 256 => w # 1
        BY <3>2, <3>3
      <3> HIDE DEF w
      <3>7. w = HeadWidths[i]
        BY DEF w
      <3> QED
        BY <2>1, <3>4, <3>5, <3>6, <3>7 DEF HeadWidths
    <2> HIDE DEF w
    <2> QED
      BY <1>1, <1>2, <1>4, <2>5, <2>7 DEF HeadLen, h
  <1> QED
    BY <1>3, <1>4

\* What is left after a write.
LEMMA LeftAfter ==
  ASSUME NEW c, NEW d, Sound(c), NEW T, NEW j \in Nat, NEW n, Made(c, d, T, j, n),
         NEW k \in Nat, NEW l \in Nat, NEW m, m = j + k, Left(c, m, l)
  PROVE  Left(d, k, l)
  <1>1. Good(c) /\ c.nesting \in Seq(Levels) /\ Len(c.nesting) \in Nat /\ Len(c.nesting) >= 1
    BY GoodFields DEF Sound, Fair
  <1>2. ASSUME ~d.out.err
        PROVE  Current(d).count + k < MAX_ITEMS_IN_ARRAY /\ Len(d.nesting) + l <= MAX_ARRAY_NESTING + 1
    <2>1. ~c.out.err /\ d.nesting = Counted(c.nesting, j)
      BY <1>2 DEF Made, Costs, Sound, Writes, Clean
    <2>2. Current(d).count = Current(c).count + j /\ Len(d.nesting) = Len(c.nesting)
      <3>1. Len(c.nesting) \in DOMAIN c.nesting
        BY <1>1
      <3>2. Current(c) \in AnyLevels
        BY <1>1, GoodFields, LimitsAssumption DEF Levels, AnyLevels, CountRange
      <3>3. Raised(Current(c), j).count = Current(c).count + j
        BY <3>2 DEF Raised, AnyLevels
      <3>4. Len(Counted(c.nesting, j)) = Len(c.nesting)
        BY <1>1, CountedType
      <3>5. Counted(c.nesting, j)[Len(c.nesting)] = Raised(Current(c), j)
        BY <1>1, <3>1 DEF Counted, Current
      <3> QED
        BY <2>1, <3>3, <3>4, <3>5 DEF Current
    <2>3. Current(c).count \in Nat
      BY <1>1, GoodFields, LimitsAssumption DEF Levels, CountRange
    <2> QED
      BY <2>1, <2>2, <2>3, LimitsAssumption DEF Left
  <1> QED
    BY <1>2 DEF Left

\* One write after the other.
LEMMA MadeTwice ==
  ASSUME NEW c, NEW d, NEW e, Sound(c), NEW S, NEW j \in Nat, NEW m \in Nat, Made(c, d, S, j, m),
         NEW T, NEW k \in Nat, NEW n \in Nat, Made(d, e, T, k, n)
  PROVE  Made(c, e, S \o T, j + k, m + n)
  <1>1. Fair(c) /\ Good(c) /\ Good(d)
    BY DEF Sound, Made, Fair
  <1>2. << >> \in Seq(Byte)
    OBVIOUS
  <1>3. Writes(c, e, S \o T, j + k, << >>)
    BY <1>1, <1>2, WritesTwice DEF Made
  <1>4. Costs(c, e, m + n)
    BY <1>1, CostsTwice DEF Made
  <1> QED
    BY <1>3, <1>4 DEF Made

\* An item that was written is counted.
LEMMA ItemMade ==
  ASSUME NEW c, NEW d, Sound(c), NEW T, NEW n \in Nat, Made(c, d, T, 0, n), Left(c, 1, 0)
  PROVE  Made(c, IncrementMapOrArrayCount(d), T, 1, n)
  <1> DEFINE e == IncrementMapOrArrayCount(d)
  <1>1. Fair(c) /\ Fair(d) /\ Good(d) /\ d \in Contexts /\ Sound(d)
    BY DEF Sound, Made, Fair, Good
  <1>2. Writes(c, e, T, 1, << >>)
    BY <1>1, ItemWrites DEF Made
  <1>3. Fair(e) /\ e.out = d.out
    BY <1>1, ItemCounts
  <1>4. Costs(c, e, n)
    BY <1>3 DEF Made, Costs
  <1>5. Left(d, 1, 0)
    BY LeftAfter
  <1>6. ASSUME ~d.out.err
        PROVE  ~e.failed
    <2>1. ~d.failed /\ d.uError = "SUCCESS"
      BY <1>1, <1>6 DEF Sound, Fair
    <2>2. Current(d).count \in Nat
      BY <1>1, GoodFields, LimitsAssumption DEF Levels, CountRange
    <2>3. ~(1 >= MAX_ITEMS_IN_ARRAY - Current(d).count)
      BY <1>5, <1>6, <2>2, LimitsAssumption DEF Left
    <2>4. e = [d EXCEPT !.nesting[Len(d.nesting)].count = @ + 1]
      BY <2>1, <2>3 DEF IncrementMapOrArrayCount, Nesting_Increment
    <2> QED
      BY <1>1, <2>1, <2>4 DEF Contexts
  <1>7. Sound(e)
    BY <1>1, <1>3, <1>6 DEF Sound
  <1> QED
    BY <1>2, <1>4, <1>7 DEF Made

\* A head and the bytes behind it.
LEMMA TokenMade ==
  ASSUME NEW c, Sound(c), NEW type \in 0..7, NEW arg \in Nat, FitsBytes(arg, 4), NEW b \in Seq(Byte),
         type = 7 => arg \notin 24..31
  PROVE  LET d == AppendCBORHead(c, type, arg, 0)
         IN  Made(c, [d EXCEPT !.out = UsefulOutBuf_AppendUsefulBuf(@, b)],
                  <<Token(type, arg, b)>>, 0, HeadLen(arg) + Len(b))
  <1> DEFINE hd == QCBOREncode_EncodeHead(type, 0, arg)
             d  == AppendCBORHead(c, type, arg, 0)
             e  == [d EXCEPT !.out = UsefulOutBuf_AppendUsefulBuf(@, b)]
  <1>1. IsUint64(arg) /\ hd \in Seq(Byte) /\ HeadLen(arg) \in Nat /\ Len(hd) = HeadLen(arg)
    BY HeadCosts
  <1>2. Writes(c, e, <<Token(type, arg, b)>>, 0, << >>)
    BY <1>1, TokenWrites DEF Sound
  <1>3. Costs(c, d, Len(hd)) /\ Sound(d)
    <2>1. d = [c EXCEPT !.out = UsefulOutBuf_AppendUsefulBuf(@, hd)]
      BY DEF AppendCBORHead
    <2> HIDE DEF d, hd
    <2> QED
      BY <1>1, <2>1, AppendCosts
  <1> HIDE DEF d, hd
  <1>4. Costs(d, e, Len(b)) /\ Sound(e)
    BY <1>3, AppendCosts
  <1> HIDE DEF e
  <1>5. Good(c) /\ Good(d) /\ Len(b) \in Nat
    BY <1>3, LenProperties DEF Sound, Fair
  <1>6. Costs(c, e, Len(hd) + Len(b))
    BY <1>1, <1>3, <1>4, <1>5, CostsTwice
  <1> QED
    BY <1>1, <1>2, <1>4, <1>6 DEF Made, d, e

\* QCBOREncode_AddBuffer with a string.
LEMMA StringMade ==
  ASSUME NEW c, Sound(c), Left(c, 1, 0), NEW type \in {BYTE_STRING, TEXT_STRING},
         NEW b \in Seq(Byte), FitsBytes(Len(b), 4)
  PROVE  Made(c, QCBOREncode_AddBuffer(c, type, b), <<Token(type, Len(b), b)>>, 1, StringLen(Len(b)))
  <1> DEFINE d == AppendCBORHead(c, type, Len(b), 0)
             e == [d EXCEPT !.out = UsefulOutBuf_AppendUsefulBuf(@, b)]
             n == HeadLen(Len(b)) + Len(b)
  <1>1. type \in 0..7 /\ type # 7 /\ type \in {2, 3} /\ Len(b) \in Nat
    BY LenProperties DEF BYTE_STRING, TEXT_STRING
  <1>2. HeadLen(Len(b)) \in Nat
    BY <1>1, HeadCosts
  <1>3. Made(c, e, <<Token(type, Len(b), b)>>, 0, n)
    BY <1>1, TokenMade
  <1>4. QCBOREncode_AddBuffer(c, type, b) = IncrementMapOrArrayCount(e)
    BY <1>1 DEF QCBOREncode_AddBuffer, BSTR_LEN_ONLY, RAW
  <1>5. n \in Nat /\ n = StringLen(Len(b))
    BY <1>1, <1>2 DEF StringLen
  <1> HIDE DEF e, n
  <1> QED
    BY <1>3, <1>4, <1>5, ItemMade

\* A head with nothing behind it.
LEMMA HeadMade ==
  ASSUME NEW c, Sound(c), NEW type \in 0..6, NEW arg \in Nat, FitsBytes(arg, 4)
  PROVE  Made(c, AppendCBORHead(c, type, arg, 0), <<Token(type, arg, << >>)>>, 0, HeadLen(arg))
  <1> DEFINE hd == QCBOREncode_EncodeHead(type, 0, arg)
             d  == AppendCBORHead(c, type, arg, 0)
  <1>1. IsUint64(arg) /\ hd \in Seq(Byte) /\ HeadLen(arg) \in Nat /\ Len(hd) = HeadLen(arg)
    BY HeadCosts
  <1>2. << >> \in Seq(Byte) /\ type \in 0..7 /\ type # 7
    OBVIOUS
  <1>3. Writes(c, d, <<Token(type, arg, << >>)>>, 0, << >>)
    BY <1>1, <1>2, TokenWrites DEF Sound
  <1>4. Costs(c, d, Len(hd)) /\ Sound(d)
    <2>1. d = [c EXCEPT !.out = UsefulOutBuf_AppendUsefulBuf(@, hd)]
      BY DEF AppendCBORHead
    <2> HIDE DEF d, hd
    <2> QED
      BY <1>1, <2>1, AppendCosts
  <1> QED
    BY <1>1, <1>3, <1>4 DEF Made

\* QCBOREncode_AddTag.
LEMMA TagMade ==
  ASSUME NEW c, Sound(c), NEW tag \in Nat, FitsBytes(tag, 4)
  PROVE  Made(c, QCBOREncode_AddTag(c, tag), <<Tag_(tag)>>, 0, HeadLen(tag))
  BY HeadMade DEF QCBOREncode_AddTag, TAG, Tag_

\* QCBOREncode_AddInt64; n is the argument of the head.
LEMMA IntMade ==
  ASSUME NEW c, Sound(c), Left(c, 1, 0), NEW v \in Int, NEW n, n = IF v < 0 THEN -(v + 1) ELSE v,
         FitsBytes(n, 4)
  PROVE  Made(c, QCBOREncode_AddInt64(c, v), <<Int_(v)>>, 1, HeadLen(n))
  <1> DEFINE t == IF v < 0 THEN 1 ELSE 0
             d == AppendCBORHead(c, t, n, 0)
  <1>1. n \in Nat /\ t \in 0..6
    OBVIOUS
  <1>2. HeadLen(n) \in Nat
    BY DEF HeadLen
  <1>3. Made(c, d, <<Token(t, n, << >>)>>, 0, HeadLen(n))
    BY <1>1, HeadMade
  <1>4. QCBOREncode_AddInt64(c, v) = IncrementMapOrArrayCount(d)
    BY DEF QCBOREncode_AddInt64, NEGATIVE_INT, POSITIVE_INT
  <1>5. Int_(v) = Token(t, n, << >>)
    <2>1. -1 - v = -(v + 1)
      OBVIOUS
    <2> QED
      BY <2>1 DEF Int_
  <1> HIDE DEF d, t
  <1> QED
    BY <1>2, <1>3, <1>4, <1>5, ItemMade

\* A level that is opened.
LEMMA OpenSound ==
  ASSUME NEW c, Sound(c), NEW l \in Nat, Left(c, 1, l + 1), NEW type \in Nat
  PROVE  LET o == QCBOREncode_OpenMapOrArray(c, type)
         IN  /\ Opens(c, o, type) /\ Sound(o) /\ o.out = c.out
             /\ \A k \in Nat : k < MAX_ITEMS_IN_ARRAY => Left(o, k, l)
  <1> DEFINE d   == IncrementMapOrArrayCount(c)
             n   == Len(c.out.data)
             o   == QCBOREncode_OpenMapOrArray(c, type)
             lev == Nesting_Level(type, n)
  <1>1. Fair(c) /\ Good(c) /\ c \in Contexts /\ n \in Nat /\ n < MAX_ARRAY_OFFSET /\ MAX_ARRAY_OFFSET \in Nat
    BY GoodFields, LimitsAssumption DEF Sound, Fair, Good
  <1>2. Opens(c, o, type)
    BY <1>1, OpenOpens
  <1>3. Fair(d) /\ d.out = c.out /\ (~d.failed => ~c.failed /\ d.nesting = Counted(c.nesting, 1)) /\ d \in Contexts
    BY <1>1, ItemCounts DEF Fair, Good
  <1>4. o = Nesting_Increase(d, type, n)
    BY <1>1 DEF QCBOREncode_OpenMapOrArray, UsefulOutBuf_GetEndPosition
  <1>5. ASSUME ~c.out.err
        PROVE  ~d.failed
    <2>1. ~c.failed /\ c.uError = "SUCCESS"
      BY <1>1, <1>5 DEF Sound, Fair
    <2>2. Current(c).count \in Nat
      BY <1>1, GoodFields, LimitsAssumption DEF Levels, CountRange
    <2>3. ~(1 >= MAX_ITEMS_IN_ARRAY - Current(c).count)
      <3>1. Current(c).count + 1 < MAX_ITEMS_IN_ARRAY
        BY <1>5, Zenon DEF Left
      <3> QED
        BY <2>2, <3>1, LimitsAssumption
    <2>4. d = [c EXCEPT !.nesting[Len(c.nesting)].count = @ + 1]
      BY <2>1, <2>3 DEF IncrementMapOrArrayCount, Nesting_Increment
    <2> QED
      BY <1>1, <2>1, <2>4 DEF Contexts
  <1> HIDE DEF d, o, n
  <1>6. o.out = c.out /\ o.failed \in BOOLEAN
    <2>1. o.out = d.out
      BY <1>3, <1>4 DEF Nesting_Increase, SetError, Contexts
    <2> QED
      BY <1>2, <1>3, <2>1 DEF Opens, Fair, Good, Contexts
  <1>7. ASSUME ~c.out.err
        PROVE  ~o.failed
    <2>1. ~d.failed /\ d.nesting = Counted(c.nesting, 1)
      BY <1>3, <1>5, <1>7
    <2>2. Len(d.nesting) = Len(c.nesting)
      BY <1>1, <2>1, GoodFields, CountedType
    <2>3. Len(d.nesting) # MAX_ARRAY_NESTING + 1
      <3> DEFINE a == Len(c.nesting)
                 b == Len(d.nesting)
      <3>1. a + (l + 1) <= MAX_ARRAY_NESTING + 1
        BY <1>7, Zenon DEF Left
      <3>2. a \in Nat /\ b = a
        BY <1>1, <2>2, GoodFields
      <3> HIDE DEF a, b
      <3>3. b # MAX_ARRAY_NESTING + 1
        BY <3>1, <3>2, LimitsAssumption
      <3> QED
        BY <3>3 DEF b
    <2>4. o = SetError([d EXCEPT !.nesting = Append(@, lev)], "SUCCESS")
      BY <1>4, <2>3 DEF Nesting_Increase
    <2> HIDE DEF lev
    <2> QED
      BY <1>3, <2>1, <2>4 DEF SetError, Contexts
  <1>8. Sound(o)
    BY <1>1, <1>2, <1>6, <1>7 DEF Sound, Opens
  <1>9. ASSUME NEW k \in Nat, k < MAX_ITEMS_IN_ARRAY
        PROVE  Left(o, k, l)
    <2>1. ASSUME ~o.out.err
          PROVE  Current(o).count + k < MAX_ITEMS_IN_ARRAY /\ Len(o.nesting) + l <= MAX_ARRAY_NESTING + 1
      <3> DEFINE N == Counted(c.nesting, 1)
      <3>1. o.nesting = Append(N, lev)
        BY <1>2, <1>6, <1>7, <2>1 DEF Opens, Clean, n
      <3>2. N \in Seq(AnyLevels) /\ Len(N) = Len(c.nesting) /\ Len(c.nesting) \in Nat
        BY <1>1, GoodFields, CountedType
      <3>3. lev \in AnyLevels /\ lev.count = 0
        BY <1>1 DEF Nesting_Level, AnyLevels
      <3> HIDE DEF N, lev
      <3>4. Len(o.nesting) = Len(c.nesting) + 1 /\ o.nesting[Len(c.nesting) + 1] = lev
        BY <3>1, <3>2, <3>3, AppendProperties
      <3>5. ~c.out.err
        BY <1>6, <2>1
      <3>6. Len(c.nesting) + (l + 1) <= MAX_ARRAY_NESTING + 1
        BY <3>5, Zenon DEF Left
      <3> DEFINE a == Len(c.nesting)
                 b == Len(o.nesting)
      <3>7. a + (l + 1) <= MAX_ARRAY_NESTING + 1 /\ a \in Nat /\ b = a + 1
        BY <3>2, <3>4, <3>6
      <3>8. o.nesting[b] = lev
        BY <3>4
      <3> HIDE DEF a, b
      <3>9. b + l <= MAX_ARRAY_NESTING + 1
        BY <3>7, LimitsAssumption
      <3>10. o.nesting[b].count + k < MAX_ITEMS_IN_ARRAY
        BY <1>9, <3>3, <3>8, LimitsAssumption
      <3> QED
        BY <3>9, <3>10 DEF Current, b
    <2> QED
      BY <2>1 DEF Left
  <1> QED
    BY <1>2, <1>6, <1>8, <1>9 DEF o

\* The bytes of such a level.
LEMMA LevelMade ==
  ASSUME NEW c, Sound(c), NEW type \in {ARRAY, MAP},
         NEW l \in Nat, Left(c, 1, l + 1), NEW T, NEW k \in Nat, NEW m \in Nat,
         NEW q, Made(QCBOREncode_OpenMapOrArray(c, type), q, T, k, m),
         NEW n, n = (IF type = MAP THEN k \div 2 ELSE k), FitsBytes(n, 4)
  PROVE  Made(c, QCBOREncode_CloseMapOrArray(q, type), <<Token(type, n, << >>)>> \o T, 1, HeadLen(n) + m)
  <1> DEFINE o    == QCBOREncode_OpenMapOrArray(c, type)
             len  == Nesting_GetCount(q)
             head == CloseHead(type, len)
             pos  == Current(q).start
             d    == Write(q, head, pos)
             r    == QCBOREncode_CloseMapOrArray(q, type)
  <1>1. type \in Nat /\ type \in 0..7 /\ type # OPEN_BSTR
    BY DEF ARRAY, MAP, OPEN_BSTR
  <1>2. Opens(c, o, type) /\ Sound(o) /\ o.out = c.out
    BY <1>1, OpenSound
  <1> HIDE DEF o
  <1>3. Made(o, q, T, k, m)
    BY DEF o
  <1>4. Fair(c) /\ Good(c) /\ Fair(q) /\ Good(q) /\ q \in Contexts /\ Sound(q)
    BY <1>3 DEF Sound, Made, Fair, Good
  <1>5. Writes(c, r, <<Token(type, n, << >>)>> \o T, 1, << >>)
    BY <1>2, <1>3, <1>4, LevelWrites DEF Made
  <1>6. len \in Nat /\ IsUint64(len) /\ head \in Seq(Byte)
    BY <1>1, <1>4, GetCountType, HeadType DEF CloseHead
  <1>7. pos \in 0..Len(q.out.data) /\ pos \in Nat
    BY <1>4, GoodFields DEF Levels
  <1>8. Costs(c, q, m)
    BY <1>2, <1>3 DEF Made, Costs
  <1>9. n \in Nat /\ HeadLen(n) \in Nat
    <2>1. n \in Nat
      OBVIOUS
    <2> QED
      BY <2>1, HeadCosts
  <1>10. ASSUME ~q.out.err
         PROVE  Costs(q, r, HeadLen(n)) /\ Sound(r)
    <2>1. Clean(q)
      BY <1>4, <1>10 DEF Sound, Clean
    <2>2. len = n /\ Nesting_IsInNest(q) /\ Current(q).type = type
      <3>1. Writes(o, q, T, k, << >>)
        BY <1>3 DEF Made
      <3>2. Current(q) = Raised(Nesting_Level(type, Len(c.out.data)), k) /\ Nesting_IsInNest(q)
        <4>1. InLevel(c, o, q, type, k)
          BY <1>1, <1>2, <1>4, <2>1, <3>1, LevelFilled
        <4> QED
          BY <4>1 DEF InLevel
      <3>3. Len(c.out.data) \in Nat
        BY <1>4, GoodFields
      <3> QED
        BY <3>2, <3>3, LevelCount
    <2>3. Len(head) = HeadLen(n)
      <3>1. head = QCBOREncode_EncodeHead(type, 0, n)
        BY <1>1, <2>2 DEF CloseHead
      <3> QED
        BY <1>1, <1>9, <3>1, HeadCosts
    <2>4. q.uError = "SUCCESS"
      BY <1>4, <2>1 DEF Fair, Clean
    <2>5. CheckDecreaseNesting(q, type) = "SUCCESS"
      BY <2>2, <2>4 DEF CheckDecreaseNesting
    <2>6. r = Nesting_Decrease(d)
      BY <2>5 DEF QCBOREncode_CloseMapOrArray, InsertCBORHead, Write, CloseHead
    <2> HIDE DEF head, pos
    <2>7. Costs(q, d, Len(head)) /\ Sound(d)
      BY <1>4, <1>6, <1>7, WriteCosts
    <2>8. d \in Contexts
      BY <2>7 DEF Sound, Fair, Good
    <2> HIDE DEF d
    <2>9. r.out = d.out /\ r.failed = d.failed
      BY <2>6, <2>8 DEF Nesting_Decrease, Contexts
    <2>10. Costs(q, r, HeadLen(n))
      BY <2>3, <2>7, <2>9 DEF Costs
    <2>11. Sound(r)
      BY <1>5, <2>7, <2>9 DEF Sound, Writes
    <2> QED
      BY <2>10, <2>11
  <1>11. ASSUME q.out.err
         PROVE  Costs(q, r, HeadLen(n)) /\ Sound(r)
    <2>1. Grows(q, r)
      BY <1>1, <1>4, <1>6, InsertHeadGrows DEF QCBOREncode_CloseMapOrArray
    <2>2. r.out.null = q.out.null
      <3>1. CASE CheckDecreaseNesting(q, type) # "SUCCESS"
        <4>1. r = SetError(q, CheckDecreaseNesting(q, type))
          BY <3>1 DEF QCBOREncode_CloseMapOrArray, InsertCBORHead
        <4> QED
          BY <1>4, <4>1 DEF SetError, Contexts
      <3>2. CASE CheckDecreaseNesting(q, type) = "SUCCESS"
        <4>1. r = Nesting_Decrease(d)
          BY <3>2 DEF QCBOREncode_CloseMapOrArray, InsertCBORHead, Write, CloseHead
        <4> HIDE DEF head, pos
        <4>2. Sound(d) /\ Costs(q, d, Len(head))
          BY <1>4, <1>6, <1>7, WriteCosts
        <4>3. d \in Contexts /\ d.out.null = q.out.null
          BY <4>2 DEF Sound, Fair, Good, Costs
        <4> HIDE DEF d
        <4> QED
          BY <4>1, <4>3 DEF Nesting_Decrease, Contexts
      <3> QED
        BY <3>1, <3>2
    <2> HIDE DEF r
    <2>3. r.out.err /\ r.out.cap = q.out.cap
      BY <1>11, <2>1 DEF Grows
    <2>4. Costs(q, r, HeadLen(n))
      BY <1>11, <2>2, <2>3 DEF Costs
    <2>5. Sound(r)
      BY <1>4, <1>5, <2>3 DEF Sound, Writes
    <2> QED
      BY <2>4, <2>5
  <1>12. Costs(q, r, HeadLen(n)) /\ Sound(r)
    BY <1>10, <1>11
  <1> HIDE DEF r, len, head, pos, d
  <1>13. Costs(c, r, m + HeadLen(n))
    BY <1>4, <1>8, <1>9, <1>12, CostsTwice
  <1>14. m + HeadLen(n) = HeadLen(n) + m
    BY <1>9
  <1> QED
    BY <1>5, <1>12, <1>13, <1>14 DEF Made, r

\* A fresh context.
LEMMA InitMade ==
  ASSUME NEW cap \in Nat, cap < MAX_ARRAY_OFFSET, IsUint64(cap),
         NEW k \in Nat, k < MAX_ITEMS_IN_ARRAY, NEW l \in Nat, l <= MAX_ARRAY_NESTING,
         NEW c, c = QCBOREncode_Init(FALSE, cap)
  PROVE  Sound(c) /\ Left(c, k, l)
  <1> DEFINE i == QCBOREncode_Init(FALSE, cap)
  <1>1. Good(i)
    BY FreshGood
  <1>2. /\ i.uError = "SUCCESS" /\ i.failed = FALSE /\ i.out.cap = cap
        /\ i.nesting = <<Nesting_Level(ARRAY, 0)>>
    BY DEF QCBOREncode_Init, UsefulOutBuf_Init
  <1>3. c = i
    OBVIOUS
  <1> HIDE DEF i
  <1>4. Sound(i)
    BY <1>1, <1>2 DEF Sound, Fair
  <1>5. Current(i).count = 0 /\ Len(i.nesting) = 1
    BY <1>2 DEF Current, Nesting_Level
  <1>6. Current(i).count + k < MAX_ITEMS_IN_ARRAY /\ Len(i.nesting) + l <= MAX_ARRAY_NESTING + 1
    BY <1>5, LimitsAssumption
  <1> QED
    BY <1>3, <1>4, <1>6 DEF Left

\* What is returned of an encoding of n bytes: NULL exactly if they do not fit.
Yields(r, T, n, cap) ==
    /\ r.null = (n > cap)
    /\ ~r.null => r.bytes \in Seq(Byte) /\ Len(r.bytes) = n /\ IsEncoding(r.bytes, T)

LEMMA ResultMade ==
  ASSUME NEW cap \in Nat, cap < MAX_ARRAY_OFFSET, IsUint64(cap),
         NEW T, NEW k \in Nat, NEW n \in Nat, NEW c, c = QCBOREncode_Init(FALSE, cap),
         NEW d, Made(c, d, T, k, n)
  PROVE  Yields(QCBOREncode_Finish(d).out, T, n, cap)
  <1> DEFINE s == QCBOREncode_GetErrorState(d)
             i == QCBOREncode_Init(FALSE, cap)
  <1>1. Good(i) /\ i.out = UsefulOutBuf_Init(FALSE, cap) /\ i.nesting = <<Nesting_Level(ARRAY, 0)>>
    BY FreshGood DEF QCBOREncode_Init
  <1> HIDE DEF i
  <1>2. i.out.data = << >> /\ i.out.cap = cap /\ i.out.null = FALSE /\ i.out.err = FALSE /\ Len(i.out.data) = 0
    BY <1>1 DEF UsefulOutBuf_Init
  <1>3. Len(i.nesting) = 1 /\ i.nesting \in Seq(Levels)
    BY <1>1, GoodFields
  <1>4. Made(i, d, T, k, n)
    BY DEF i
  <1>5. d.out.null = FALSE /\ (d.out.err <=> n > cap) /\ (~d.out.err => Len(d.out.data) = n)
    <2>1. Costs(i, d, n)
      BY <1>4 DEF Made
    <2>2. d.out.null = FALSE /\ (d.out.err <=> 0 + n > cap) /\ (~d.out.err => Len(d.out.data) = 0 + n)
      BY <1>2, <2>1 DEF Costs
    <2>3. 0 + n = n
      OBVIOUS
    <2> QED
      BY <2>2, <2>3
  <1>6. d \in Contexts /\ Sound(d) /\ Fair(d)
    BY <1>4 DEF Made, Sound, Fair, Good
  <1>7. CASE d.out.err
    <2>1. s = SetError(d, "BUFFER_TOO_SMALL")
      BY <1>7 DEF QCBOREncode_GetErrorState
    <2>2. s.uError = "BUFFER_TOO_SMALL"
      BY <1>6, <2>1 DEF SetError, Contexts
    <2> HIDE DEF s
    <2>3. QCBOREncode_Finish(d).out = NULLUsefulBufC
      BY <2>2 DEF QCBOREncode_Finish, s
    <2>4. (n > cap) = TRUE
      BY <1>5, <1>7
    <2>5. NULLUsefulBufC.null = TRUE
      BY DEF NULLUsefulBufC
    <2> QED
      BY <2>3, <2>4, <2>5, Zenon DEF Yields
  <1>8. CASE ~d.out.err
    <2>1. s = d
      BY <1>8 DEF QCBOREncode_GetErrorState
    <2>2. d.uError = "SUCCESS" /\ Clean(d)
      BY <1>6, <1>8 DEF Sound, Fair, Clean
    <2>3. d.nesting = Counted(i.nesting, k)
      BY <1>4, <2>2 DEF Made, Writes
    <2>4. ~Nesting_IsInNest(d)
      <3>1. Len(Counted(i.nesting, k)) = Len(i.nesting)
        BY <1>3, CountedType
      <3>2. Len(d.nesting) = 1
        BY <1>3, <2>3, <3>1
      <3> QED
        BY <3>2 DEF Nesting_IsInNest
    <2>5. QCBOREncode_Finish(d).out = UsefulOutBuf_OutUBuf(d.out)
      BY <2>1, <2>2, <2>4 DEF QCBOREncode_Finish
    <2>6. PICK b \in Seq(Byte) : d.out.data = i.out.data \o b /\ Encodes(b \o << >>, T)
      BY <1>4, <2>2 DEF Made, Writes
    <2>7. d.out.data = b /\ Encodes(b, T)
      BY <1>2, <2>6, ConcatEmptySeq
    <2>8. IsEncoding(b, T)
      BY <2>7, EncodingIsRead
    <2>9. QCBOREncode_Finish(d).out.null = FALSE /\ QCBOREncode_Finish(d).out.bytes = b
      BY <1>5, <1>8, <2>5, <2>7 DEF UsefulOutBuf_OutUBuf, UsefulBufC
    <2>10. (n > cap) = FALSE
      BY <1>5, <1>8
    <2> QED
      BY <1>5, <1>8, <2>7, <2>8, <2>9, <2>10 DEF Yields
  <1> QED
    BY <1>7, <1>8
=============================================================================
