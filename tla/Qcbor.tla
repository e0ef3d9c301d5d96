------------------------------- MODULE Qcbor -------------------------------
(***************************************************************************)
(* The CBOR encoder of the attestation PTA (qcbor/qcbor_encode.c).         *)
(*                                                                         *)
(* An encoder context is a record and every function an operator on it.    *)
(* Floating point is compiled out of this encoder: UsefulBuf.h defines     *)
(* USEFULBUF_DISABLE_ALL_FLOAT.                                            *)
(***************************************************************************)
EXTENDS UsefulBuf

CONSTANTS
    MAX_ARRAY_NESTING,  \* QCBOR_MAX_ARRAY_NESTING
    MAX_ITEMS_IN_ARRAY, \* QCBOR_MAX_ITEMS_IN_ARRAY
    MAX_ARRAY_OFFSET    \* QCBOR_MAX_ARRAY_OFFSET

\* The counter of items is a uint16_t and the limit is two less than its range.
CountRange == MAX_ITEMS_IN_ARRAY + 2

ASSUME LimitsAssumption ==
    /\ MAX_ARRAY_NESTING \in Nat \ {0}
    /\ MAX_ITEMS_IN_ARRAY \in Nat \ {0, 1}
    /\ MAX_ARRAY_OFFSET \in Nat
    /\ IsUint64(CountRange)

POSITIVE_INT == 0
NEGATIVE_INT == 1
BYTE_STRING == 2
TEXT_STRING == 3
ARRAY == 4
MAP == 5
TAG == 6
SIMPLE == 7

\* Types the encoder uses for itself.
RAW == 9
BSTR_LEN_ONLY == 11
OPEN_BSTR == 12
INDEFINITE_LEN_TYPE_MODIFIER == 128

Errors ==
    {"SUCCESS", "BUFFER_TOO_SMALL", "ENCODE_UNSUPPORTED", "BUFFER_TOO_LARGE",
     "ARRAY_NESTING_TOO_DEEP", "CLOSE_MISMATCH", "ARRAY_TOO_LONG", "TOO_MANY_CLOSES",
     "ARRAY_OR_MAP_STILL_OPEN", "OPEN_BYTE_STRING", "CANNOT_CANCEL"}

-----------------------------------------------------------------------------
(* The context: output, error, nesting.  The first level of the nesting is *)
(* the implied array around everything.  "failed" remembers for the        *)
(* properties that an error was ever set; the code has no such field.      *)

Nesting_Level(type, pos) == [type |-> type, count |-> 0, start |-> pos]

QCBOREncode_Init(null, cap) ==
    [out     |-> UsefulOutBuf_Init(null, cap),
     uError  |-> "SUCCESS",
     nesting |-> <<Nesting_Level(ARRAY, 0)>>,
     failed  |-> FALSE]

Current(c) == c.nesting[Len(c.nesting)]

Nesting_IsInNest(c) == Len(c.nesting) > 1

SetError(c, e) == [c EXCEPT !.uError = e, !.failed = @ \/ e # "SUCCESS"]

\* Opens a level, or not when there is none left.  The caller stores what is returned
\* in uError, whatever was there.
Nesting_Increase(c, type, pos) ==
    IF Len(c.nesting) = MAX_ARRAY_NESTING + 1
    THEN SetError(c, "ARRAY_NESTING_TOO_DEEP")
    ELSE SetError([c EXCEPT !.nesting = Append(@, Nesting_Level(type, pos))], "SUCCESS")

Nesting_Decrease(c) ==
    IF Len(c.nesting) > 1 THEN [c EXCEPT !.nesting = SubSeq(@, 1, Len(@) - 1)] ELSE c

Nesting_Increment(c) ==
    IF 1 >= MAX_ITEMS_IN_ARRAY - Current(c).count
    THEN SetError(c, "ARRAY_TOO_LONG")
    ELSE [c EXCEPT !.nesting[Len(c.nesting)].count = @ + 1]

\* A variant for testing the properties: the cancelled string stays counted.
Nesting_Decrement_Kept(c) == c

Nesting_Decrement(c) ==
    [c EXCEPT !.nesting[Len(c.nesting)].count = (@ - 1) % CountRange]

Nesting_GetCount(c) ==
    IF Current(c).type = MAP THEN Current(c).count \div 2 ELSE Current(c).count

IncrementMapOrArrayCount(c) == IF c.uError = "SUCCESS" THEN Nesting_Increment(c) ELSE c

-----------------------------------------------------------------------------
(* Heads *)

\* The bytes the loops write: the first of 1, 2, 4 and 8 that holds the argument and is
\* not below the minimum.
HeadWidths == <<1, 2, 4, 8>>

WidthIndex(minLen, arg) ==
    Min({i \in 1..4 : minLen <= HeadWidths[i] /\ Shifted(arg)[HeadWidths[i]] = 0})

\* A variant for testing the properties: 24 is still put into the initial byte.
QCBOREncode_EncodeHead_Twenty(type, minLen, arg) ==
    IF arg <= 24 /\ type < INDEFINITE_LEN_TYPE_MODIFIER THEN <<(type * 32 + arg) % 256>>
    ELSE LET i == WidthIndex(minLen, arg)
         IN  <<(type * 32 + 23 + i) % 256>> \o BigEndian(arg, HeadWidths[i])

\* The head of an item: the initial byte and the bytes of the argument.
QCBOREncode_EncodeHead(type, minLen, arg) ==
    IF type > INDEFINITE_LEN_TYPE_MODIFIER
    THEN <<((type - INDEFINITE_LEN_TYPE_MODIFIER) * 32 + 31) % 256>>
    ELSE IF arg < 24 /\ minLen = 0
         THEN <<(type * 32 + arg) % 256>>
         ELSE LET i == WidthIndex(minLen, arg)
              IN  <<(type * 32 + 23 + i) % 256>> \o BigEndian(arg, HeadWidths[i])

AppendCBORHead(c, type, arg, minLen) ==
    [c EXCEPT !.out = UsefulOutBuf_AppendUsefulBuf(@, QCBOREncode_EncodeHead(type, minLen, arg))]

\* Why a level may not be closed; an earlier error comes first.
CheckDecreaseNesting(c, type) ==
    IF c.uError # "SUCCESS" THEN c.uError
    ELSE IF ~Nesting_IsInNest(c) THEN "TOO_MANY_CLOSES"
    ELSE IF Current(c).type # type THEN "CLOSE_MISMATCH"
    ELSE "SUCCESS"

\* Puts the head in front of what the level holds and closes the level.
InsertCBORHead(c, type, len) ==
    LET err  == CheckDecreaseNesting(c, type)
        real == IF type = OPEN_BSTR THEN BYTE_STRING ELSE type
        head == QCBOREncode_EncodeHead(real, 0, len)
    IN  IF err # "SUCCESS" THEN SetError(c, err)
        ELSE Nesting_Decrease(
                 [c EXCEPT !.out = UsefulOutBuf_InsertUsefulBuf(@, head, Current(c).start)])

-----------------------------------------------------------------------------
(* Items *)

QCBOREncode_AddUInt64(c, n) ==
    IncrementMapOrArrayCount(AppendCBORHead(c, POSITIVE_INT, n, 0))

QCBOREncode_AddInt64(c, n) ==
    IncrementMapOrArrayCount(
        IF n < 0 THEN AppendCBORHead(c, NEGATIVE_INT, -(n + 1), 0)
        ELSE AppendCBORHead(c, POSITIVE_INT, n, 0))

QCBOREncode_AddBuffer(c, type, bytes) ==
    LET real   == IF type = BSTR_LEN_ONLY THEN BYTE_STRING ELSE type
        headed == IF type = RAW THEN c ELSE AppendCBORHead(c, real, Len(bytes), 0)
    IN  IncrementMapOrArrayCount(
            IF type = BSTR_LEN_ONLY THEN headed
            ELSE [headed EXCEPT !.out = UsefulOutBuf_AppendUsefulBuf(@, bytes)])

QCBOREncode_AddTag(c, tag) == AppendCBORHead(c, TAG, tag, 0)

\* The reserved simple values are refused, and not counted.
QCBOREncode_AddType7(c, minLen, num) ==
    IF c.uError = "SUCCESS" /\ num \in 24..31
    THEN SetError(c, "ENCODE_UNSUPPORTED")
    ELSE IncrementMapOrArrayCount(AppendCBORHead(c, SIMPLE, num, minLen))

\* A variant for testing the properties: the position behind a head of one byte.
QCBOREncode_OpenMapOrArray_Behind(c, type) ==
    LET counted == IncrementMapOrArrayCount(c)
        end     == UsefulOutBuf_GetEndPosition(c.out)
    IN  IF end >= MAX_ARRAY_OFFSET THEN SetError(counted, "BUFFER_TOO_LARGE")
        ELSE Nesting_Increase(counted, type, end + 1)

QCBOREncode_OpenMapOrArray(c, type) ==
    LET counted == IncrementMapOrArrayCount(c)
        end     == UsefulOutBuf_GetEndPosition(c.out)
    IN  IF end >= MAX_ARRAY_OFFSET THEN SetError(counted, "BUFFER_TOO_LARGE")
        ELSE Nesting_Increase(counted, type, end)

QCBOREncode_CloseMapOrArray(c, type) == InsertCBORHead(c, type, Nesting_GetCount(c))

QCBOREncode_OpenMapOrArrayIndefiniteLength(c, type) ==
    QCBOREncode_OpenMapOrArray(AppendCBORHead(c, type, 0, 0), type)

QCBOREncode_CloseMapOrArrayIndefiniteLength(c, type) ==
    LET err == CheckDecreaseNesting(c, type)
    IN  IF err # "SUCCESS" THEN SetError(c, err)
        ELSE Nesting_Decrease(AppendCBORHead(c, SIMPLE + INDEFINITE_LEN_TYPE_MODIFIER, 31, 0))

\* A variant for testing the properties: the head is never skipped.
QCBOREncode_CloseBstrWrap2_Late(c, includeHead) ==
    LET start  == Current(c).start
        len    == UsefulOutBuf_GetEndPosition(c.out) - start
        closed == InsertCBORHead(c, BYTE_STRING, len)
    IN  [ctx     |-> closed,
         wrapped |-> UsefulBuf_Tail(UsefulOutBuf_OutUBuf(closed.out), start)]

\* The context afterwards and the wrapped bytes handed to the caller, with or without
\* the head of the byte string.
QCBOREncode_CloseBstrWrap2(c, includeHead) ==
    LET start  == Current(c).start
        end    == UsefulOutBuf_GetEndPosition(c.out)
        closed == InsertCBORHead(c, BYTE_STRING, end - start)
        grown  == UsefulOutBuf_GetEndPosition(closed.out) - end
        skip   == IF includeHead THEN start ELSE start + grown
    IN  [ctx     |-> closed,
         wrapped |-> UsefulBuf_Tail(UsefulOutBuf_OutUBuf(closed.out), skip)]

QCBOREncode_CancelBstrWrap(c) ==
    LET err == CheckDecreaseNesting(c, BYTE_STRING)
    IN  IF err # "SUCCESS" THEN SetError(c, err)
        ELSE IF Current(c).start # UsefulOutBuf_GetEndPosition(c.out)
        THEN SetError(c, "CANNOT_CANCEL")
        ELSE Nesting_Decrement(Nesting_Decrease(c))

QCBOREncode_OpenBytes(c) ==
    IF Current(c).type = OPEN_BSTR THEN SetError(c, "OPEN_BYTE_STRING")
    ELSE QCBOREncode_OpenMapOrArray(c, OPEN_BSTR)

\* The caller wrote the bytes into the place OpenBytes gave it.
QCBOREncode_CloseBytes(c, written) ==
    LET advanced == [c EXCEPT !.out = UsefulOutBuf_Advance(@, written)]
    IN  IF advanced.out.err THEN advanced
        ELSE InsertCBORHead(advanced, OPEN_BSTR, Len(written))

\* A full buffer hides any other error.
QCBOREncode_GetErrorState(c) == IF c.out.err THEN SetError(c, "BUFFER_TOO_SMALL") ELSE c

QCBOREncode_Finish(c) ==
    LET state == QCBOREncode_GetErrorState(c).uError
        err   == IF state = "SUCCESS" /\ Nesting_IsInNest(c)
                 THEN "ARRAY_OR_MAP_STILL_OPEN" ELSE state
    IN  [err |-> err,
         out |-> IF err = "SUCCESS" THEN UsefulOutBuf_OutUBuf(c.out) ELSE NULLUsefulBufC]

QCBOREncode_FinishGetSize(c) ==
    LET f == QCBOREncode_Finish(c) IN [err |-> f.err, len |-> Len(f.out.bytes)]
=============================================================================
