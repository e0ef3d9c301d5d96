----------------------------- MODULE UsefulBuf -----------------------------
(***************************************************************************)
(* Buffers of the CBOR encoder (qcbor/UsefulBuf.c, UsefulBuf.h): pointer   *)
(* and length pairs, the output buffer that never writes past its end, and *)
(* the input buffer that never reads past its end.                         *)
(*                                                                         *)
(* A buffer is the sequence of its bytes and whether its pointer is NULL.  *)
(* The operators are functions of the structure the code updates.  The     *)
(* magic numbers that guard against uninitialised structures are left out: *)
(* every structure here went through its Init.                             *)
(***************************************************************************)
EXTENDS Integers, Sequences, SequencesExt, FiniteSetsExt

Byte == 0..255

\* The value the search functions return for "nowhere".
SIZE_MAX == -1

NULLUsefulBufC == [null |-> TRUE, bytes |-> <<>>]

UsefulBufC(b) == [null |-> FALSE, bytes |-> b]

UsefulBuf_IsNULLOrEmptyC(ub) == ub.null \/ ub.bytes = <<>>

UsefulBuf_Head(ub, n) ==
    IF n > Len(ub.bytes) THEN NULLUsefulBufC
    ELSE [ub EXCEPT !.bytes = SubSeq(@, 1, n)]

UsefulBuf_Tail(ub, n) ==
    IF n > Len(ub.bytes) THEN NULLUsefulBufC
    ELSE [ub EXCEPT !.bytes = SubSeq(@, n + 1, Len(@))]

\* The destination afterwards, and what is returned.
UsefulBuf_CopyOffset(dest, off, src) ==
    IF off > Len(dest) \/ Len(src) > Len(dest) - off
    THEN [dest |-> dest, ret |-> NULLUsefulBufC]
    ELSE LET d == SubSeq(dest, 1, off) \o src \o SubSeq(dest, off + Len(src) + 1, Len(dest))
         IN  [dest |-> d, ret |-> UsefulBufC(SubSeq(d, 1, off + Len(src)))]

\* Positions, from 0, at which two sequences of the same length differ.
Differences(a, b) == {i \in 0..(Len(a) - 1) : a[i + 1] # b[i + 1]}

\* -1, 0 or 1 for the sign the code returns.
UsefulBuf_Compare(a, b) ==
    LET diff == Differences(a, b)
        i    == Min(diff) + 1
    IN  CASE Len(a) < Len(b) -> -1
          [] Len(a) > Len(b) -> 1
          [] Len(a) = Len(b) /\ diff = {} -> 0
          [] OTHER -> IF a[i] < b[i] THEN -1 ELSE 1

UsefulBuf_IsValue(ub, v) ==
    LET diff == {i \in 0..(Len(ub.bytes) - 1) : ub.bytes[i + 1] # v}
    IN  IF UsefulBuf_IsNULLOrEmptyC(ub) THEN 0
        ELSE IF diff = {} THEN SIZE_MAX ELSE Min(diff)

UsefulBuf_FindBytes(s, f) ==
    LET at == {p \in 0..(Len(s) - Len(f)) :
                  UsefulBuf_Compare(SubSeq(s, p + 1, p + Len(f)), f) = 0}
    IN  IF Len(s) < Len(f) \/ at = {} THEN SIZE_MAX ELSE Min(at)

\* p is the distance of a pointer from the start of the buffer.
UsefulBuf_PointerToOffset(ub, p) ==
    IF ub.null \/ p < 0 \/ p >= Len(ub.bytes) THEN SIZE_MAX ELSE p

\* n >> 8k, for as many bytes as an integer of the code has.
Shifted(n) == LET f[k \in 0..8] == IF k = 0 THEN n ELSE f[k - 1] \div 256 IN f

\* What 64 bits hold, as the code's numbers and sizes have.
IsUint64(n) == Shifted(n)[8] = 0

\* The w bytes of n in network byte order.
BigEndian(n, w) == LET f == Shifted(n) IN [i \in 1..w |-> f[w - i] % 256]

-----------------------------------------------------------------------------
(* UsefulOutBuf *)

UsefulOutBuf_Init(null, cap) == [null |-> null, cap |-> cap, data |-> <<>>, err |-> FALSE]

UsefulOutBuf_GetEndPosition(o) == Len(o.data)

UsefulOutBuf_RoomLeft(o) == o.cap - Len(o.data)

\* A variant for testing the properties: one byte too many fits.
UsefulOutBuf_WillItFit_OffByOne(o, n) == n <= UsefulOutBuf_RoomLeft(o) + 1

\* A variant for testing the properties: the last byte is never used.
UsefulOutBuf_WillItFit_Strict(o, n) == n < UsefulOutBuf_RoomLeft(o)

UsefulOutBuf_WillItFit(o, n) == n <= UsefulOutBuf_RoomLeft(o)

\* Bytes right of the position slide to the right; what does not fit sets the error,
\* which makes every later call do nothing.
UsefulOutBuf_InsertUsefulBuf(o, new, pos) ==
    IF o.err THEN o
    ELSE IF \/ Len(o.data) > o.cap
            \/ ~UsefulOutBuf_WillItFit(o, Len(new))
            \/ pos > Len(o.data)
         THEN [o EXCEPT !.err = TRUE]
         ELSE [o EXCEPT !.data = SubSeq(@, 1, pos) \o new \o SubSeq(@, pos + 1, Len(@))]

UsefulOutBuf_AppendUsefulBuf(o, new) ==
    UsefulOutBuf_InsertUsefulBuf(o, new, UsefulOutBuf_GetEndPosition(o))

\* InsertByte, InsertUint16, 32 and 64: w bytes of a number.
UsefulOutBuf_InsertUint(o, n, w, pos) == UsefulOutBuf_InsertUsefulBuf(o, BigEndian(n, w), pos)

\* AppendByte, AppendUint16, 32 and 64.
UsefulOutBuf_AppendUint(o, n, w) ==
    UsefulOutBuf_InsertUint(o, n, w, UsefulOutBuf_GetEndPosition(o))

\* Where the caller may write by itself: the room, and whether there is a pointer.
UsefulOutBuf_GetOutPlace(o) ==
    [len |-> UsefulOutBuf_RoomLeft(o), null |-> UsefulOutBuf_RoomLeft(o) = 0 \/ o.null]

\* The caller wrote the bytes to the place it was given.
UsefulOutBuf_Advance(o, written) ==
    IF o.err THEN o
    ELSE IF Len(o.data) > o.cap \/ ~UsefulOutBuf_WillItFit(o, Len(written))
         THEN [o EXCEPT !.err = TRUE]
         ELSE [o EXCEPT !.data = @ \o written]

\* With a NULL buffer only the length means anything.
UsefulOutBuf_OutUBuf(o) ==
    IF o.err THEN NULLUsefulBufC ELSE [null |-> o.null, bytes |-> o.data]

UsefulOutBuf_CopyOut(o, dest) ==
    LET out == UsefulOutBuf_OutUBuf(o)
    IN  IF out.null THEN [dest |-> dest, ret |-> NULLUsefulBufC]
        ELSE UsefulBuf_CopyOffset(dest, 0, out.bytes)

-----------------------------------------------------------------------------
(* UsefulInputBuf: an operation gives the structure afterwards and a result *)

UsefulInputBuf_Init(ub) == [bytes |-> ub.bytes, len |-> Len(ub.bytes), cursor |-> 0, err |-> FALSE]

\* A position past the end is an error and leaves the cursor; a good one does not
\* clear an earlier error.
UsefulInputBuf_Seek(r, pos) ==
    IF pos > r.len THEN [r EXCEPT !.err = TRUE] ELSE [r EXCEPT !.cursor = pos]

UsefulInputBuf_BytesUnconsumed(r) == IF r.cursor > r.len THEN 0 ELSE r.len - r.cursor

UsefulInputBuf_BytesAvailable(r, n) == UsefulInputBuf_BytesUnconsumed(r) >= n

UsefulInputBuf_GetUsefulBuf(r, n) ==
    IF r.err \/ ~UsefulInputBuf_BytesAvailable(r, n)
    THEN [in |-> [r EXCEPT !.err = TRUE], got |-> NULLUsefulBufC]
    ELSE [in |-> [r EXCEPT !.cursor = @ + n],
          got |-> UsefulBufC(SubSeq(r.bytes, r.cursor + 1, r.cursor + n))]

\* GetByte, GetUint16, 32 and 64: 0 when nothing is left.
UsefulInputBuf_GetUint(r, w) ==
    LET g == UsefulInputBuf_GetUsefulBuf(r, w)
        v[i \in 0..w] == IF i = 0 THEN 0 ELSE v[i - 1] * 256 + g.got.bytes[i]
    IN  [in |-> g.in, got |-> IF g.got.null THEN 0 ELSE v[w]]

\* Narrows the view of the buffer, or restores it.
UsefulInputBuf_SetBufferLength(r, n) == [r EXCEPT !.len = n]
=============================================================================
