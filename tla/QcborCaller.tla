---------------------------- MODULE QcborCaller ----------------------------
(***************************************************************************)
(* A caller of the CBOR encoder.                                           *)
(*                                                                         *)
(* The caller makes the same calls on two contexts, one that writes its    *)
(* buffer and one that only computes the size (SizeCalculateUsefulBuf),    *)
(* and then finishes both.  It keeps the rules the encoder cannot check (a *)
(* label in front of each item of a map, an item after each tag, nothing   *)
(* inside an opened byte string) and breaks the ones it can: closes that   *)
(* match no open, levels left open, too many items or levels, a buffer     *)
(* that is too small.                                                      *)
(***************************************************************************)
EXTENDS QcborInline, CborReader

CONSTANTS
    CalculateSize,  \* the size of the buffer of a size calculation
    Capacities,     \* the sizes of the caller's buffer
    Numbers,        \* the integers the caller adds
    Strings,        \* the strings the caller adds
    CommonNumber,   \* the number of the common calls
    CommonString,   \* the string of the functions that add a tag, a C string for some
    MaxCalls,       \* bound on the calls before the contexts are finished
    MaxRare         \* bound on the calls among them that are not the common ones

\* The characters of a C string.
IsCString(b) == \A i \in DOMAIN b : b[i] # 0

ASSUME CallerAssumption ==
    /\ CalculateSize \in Nat /\ Capacities \subseteq 0..CalculateSize
    /\ Numbers \subseteq Int /\ Strings \subseteq Seq(Byte)
    /\ CommonNumber \in Numbers /\ CommonString \in Strings /\ IsCString(CommonString)
    /\ MaxCalls \in Nat /\ MaxRare \in Nat
    /\ \A n \in Numbers : IsUint64(IF n < 0 THEN -(n + 1) ELSE n)
    /\ \A s \in Strings : IsUint64(Len(s))
    /\ IsUint64(CalculateSize)

VARIABLES
    enc,      \* the context with the caller's buffer
    calc,     \* the context of the size calculation
    doc,      \* what the caller asked for: the open levels and the items in each
    owed,     \* bytes the caller has yet to put behind a length it added by itself
    wrapped,  \* what the last call returned as wrapped bytes, and the tokens in them
    calls, rare,
    result    \* what finishing the contexts returned

vars == <<enc, calc, doc, owed, wrapped, calls, rare, result>>

-----------------------------------------------------------------------------
(* What the caller asks for: the stack of the levels it has open, each     *)
(* with the tokens and the number of the items that are complete.          *)

Labels == {NoLabel, SZLabel(<<97, 0>>), NLabel(1)}

LabelToks(l) ==
    CASE l.k = "none" -> <<>>
      [] l.k = "sz"   -> <<Text_(<<97>>)>>
      [] l.k = "n"    -> <<Int_(1)>>

TagToks(asTag, tag) == IF asTag THEN <<Tag_(tag)>> ELSE <<>>

FractionToks(e, mantissa) == <<Array_(2), Int_(e)>> \o mantissa

NewLevel(kind) == [kind |-> kind, items |-> <<>>, num |-> 0]

Level(d) == d[Len(d)]

More(level, toks, n) == [level EXCEPT !.items = @ \o toks, !.num = @ + n]

Adding(toks, n) == [doc EXCEPT ![Len(doc)] = More(@, toks, n)]

\* An item and its label are two items of the level.
AddingItem(l, toks) == Adding(LabelToks(l) \o toks, Len(LabelToks(l)) + 1)

\* What the encoder writes at once when a level is opened.
BeginToks(kind) ==
    CASE kind = "iarray" -> <<Indefinite(4)>>
      [] kind = "imap"   -> <<Indefinite(5)>>
      [] OTHER           -> <<>>

Opening(kind, l) ==
    Append(Adding(LabelToks(l) \o BeginToks(kind), Len(LabelToks(l))), NewLevel(kind))

\* A close that matches no open changes nothing the caller asked for.
Matching(kind) == Len(doc) > 1 /\ Level(doc).kind = kind

Closing(kind, toks) ==
    IF ~Matching(kind) THEN doc
    ELSE [SubSeq(doc, 1, Len(doc) - 1) EXCEPT ![Len(doc) - 1] = More(@, toks, 1)]

\* The tokens of a level that is closed, with the ones around them.
Whole(level) ==
    CASE level.kind = "array" -> <<Array_(level.num)>> \o level.items
      [] level.kind = "map"   -> <<Map_(level.num \div 2)>> \o level.items
      [] level.kind = "wrap"  -> <<Wrap_(Len(level.items))>> \o level.items
      [] OTHER                -> level.items \o <<Indefinite(7)>>

ClosingLevel(kind) == Closing(kind, Whole(Level(doc)))

-----------------------------------------------------------------------------
(* Calls *)

Finished == result.real.err # "none"

NothingWrapped == [buf |-> NULLUsefulBufC, toks |-> <<>>]

\* In front of an item of a map, and only there, the caller puts a label.
CanAdd(l) ==
    /\ owed = <<>>
    /\ Level(doc).kind # "opened"
    /\ (l # NoLabel) = (Level(doc).kind \in {"map", "imap"})

\* The caller does not leave a tag without its item.
CanClose ==
    LET items == Level(doc).items IN items # <<>> => items[Len(items)].type # TAG

Rarely(common) == IF common THEN 0 ELSE 1

\* One call on both contexts.  Common calls are the ones that add the common number, open
\* a level that there is room for, or close the open level; rarely is 1 for the others.
Call(F(_), newDoc, rarely) ==
    /\ ~Finished /\ calls < MaxCalls /\ rare + rarely <= MaxRare
    /\ enc' = F(enc)
    /\ calc' = F(calc)
    /\ doc' = newDoc
    /\ wrapped' = NothingWrapped
    /\ calls' = calls + 1
    /\ rare' = rare + rarely
    /\ UNCHANGED result

Add(F(_), l, toks, rarely) == Call(F, AddingItem(l, toks), rarely) /\ UNCHANGED owed

Number(l) ==
    \/ \E n \in Numbers :
         Add(LAMBDA c : AddInt64(c, l, n), l, <<Int_(n)>>,
             Rarely(n = CommonNumber /\ l.k # "n"))
    \/ \E n \in Numbers :
         n >= 0 /\ Add(LAMBDA c : AddUInt64(c, l, n), l, <<Int_(n)>>, 1)

String(l) ==
    \E b \in Strings :
      \/ Add(LAMBDA c : AddBytes(c, l, b), l, <<Bytes_(b)>>, 1)
      \/ Add(LAMBDA c : AddText(c, l, b), l, <<Text_(b)>>, 1)
      \/ IsCString(b) /\ Add(LAMBDA c : AddSZString(c, l, b \o <<0>>), l, <<Text_(b)>>, 1)

Simple(l) ==
    \/ \E n \in {23, 24, 32} :
         Add(LAMBDA c : AddSimple(c, l, n), l, <<Simple_(n)>>, 1)
    \/ \E b \in BOOLEAN :
         Add(LAMBDA c : AddBool(c, l, b), l, <<Simple_(IF b THEN 21 ELSE 20)>>, 1)
    \/ Add(LAMBDA c : AddNULL(c, l), l, <<Simple_(22)>>, 1)
    \/ Add(LAMBDA c : AddUndef(c, l), l, <<Simple_(23)>>, 1)

Epoch(l, t) ==
    LET n == CommonNumber IN
      \/ Add(LAMBDA c : AddTDateEpoch(c, l, t, n), l, TagToks(t, 1) \o <<Int_(n)>>, 1)
      \/ Add(LAMBDA c : AddTDaysEpoch(c, l, t, n), l, TagToks(t, 100) \o <<Int_(n)>>, 1)

TaggedBytes(l, t) ==
    LET b == CommonString IN
      \/ Add(LAMBDA c : AddTBinaryUUID(c, l, t, b), l, TagToks(t, 37) \o <<Bytes_(b)>>, 1)
      \/ Add(LAMBDA c : AddTPositiveBignum(c, l, t, b), l, TagToks(t, 2) \o <<Bytes_(b)>>, 1)
      \/ Add(LAMBDA c : AddTNegativeBignum(c, l, t, b), l, TagToks(t, 3) \o <<Bytes_(b)>>, 1)
      \/ Add(LAMBDA c : AddTMIMEData(c, l, t, b), l, TagToks(t, 257) \o <<Bytes_(b)>>, 1)

TaggedText(l, t) ==
    LET b == CommonString IN
      \/ Add(LAMBDA c : AddTURI(c, l, t, b), l, TagToks(t, 32) \o <<Text_(b)>>, 1)
      \/ Add(LAMBDA c : AddTB64Text(c, l, t, b), l, TagToks(t, 34) \o <<Text_(b)>>, 1)
      \/ Add(LAMBDA c : AddTB64URLText(c, l, t, b), l, TagToks(t, 33) \o <<Text_(b)>>, 1)
      \/ Add(LAMBDA c : AddTRegex(c, l, t, b), l, TagToks(t, 35) \o <<Text_(b)>>, 1)
      \/ Add(LAMBDA c : AddTDateString(c, l, t, b \o <<0>>), l, TagToks(t, 0) \o <<Text_(b)>>, 1)
      \/ Add(LAMBDA c : AddTDaysString(c, l, t, b \o <<0>>), l, TagToks(t, 1004) \o <<Text_(b)>>, 1)

Fraction(l, t) ==
    \/ \E m \in Numbers :
         LET e == CommonNumber IN
         \/ Add(LAMBDA c : AddTDecimalFraction(c, l, t, m, e),
                l, TagToks(t, 4) \o FractionToks(e, <<Int_(m)>>), 1)
         \/ Add(LAMBDA c : AddTBigFloat(c, l, t, m, e),
                l, TagToks(t, 5) \o FractionToks(e, <<Int_(m)>>), 1)
    \/ \E neg \in BOOLEAN :
         LET e   == CommonNumber
             b   == CommonString
             big == <<Tag_(IF neg THEN 3 ELSE 2), Bytes_(b)>> IN
         \/ Add(LAMBDA c : AddTDecimalFractionBigNum(c, l, t, b, neg, e),
                l, TagToks(t, 4) \o FractionToks(e, big), 1)
         \/ Add(LAMBDA c : AddTBigFloatBigNum(c, l, t, b, neg, e),
                l, TagToks(t, 5) \o FractionToks(e, big), 1)

\* An array of one number, encoded beforehand.
Encoded(l) ==
    Add(LAMBDA c : AddEncoded(c, l, <<129, 1>>),
        l, <<Array_(1), Int_(1)>>, 1)

Tagged ==
    Call(LAMBDA c : QCBOREncode_AddTag(c, 18), Adding(<<Tag_(18)>>, 0), 1) /\ UNCHANGED owed

\* The caller hands out the bytes itself, after all that the encoder makes.
LenOnly(l) ==
    \E b \in Strings :
      /\ \A i \in DOMAIN doc : doc[i].kind \in {"top", "array", "map"}
      /\ Call(LAMBDA c : AddBytesLenOnly(c, l, b), AddingItem(l, <<Bytes_(b)>>), 1)
      /\ owed' = b

Item ==
    \E l \in Labels :
      /\ CanAdd(l)
      /\ \/ Number(l) \/ String(l) \/ Simple(l) \/ Encoded(l) \/ LenOnly(l)
         \/ \E t \in BOOLEAN : Epoch(l, t) \/ TaggedBytes(l, t) \/ TaggedText(l, t) \/ Fraction(l, t)

AddTag == CanAdd(NoLabel) /\ Tagged

Open ==
    \E l \in Labels :
      /\ CanAdd(l)
      /\ UNCHANGED owed
      /\ \/ Call(LAMBDA c : OpenArray(c, l), Opening("array", l), Rarely(l.k # "n" /\ Len(doc) <= MAX_ARRAY_NESTING))
         \/ Call(LAMBDA c : OpenMap(c, l), Opening("map", l), Rarely(l.k # "n" /\ Len(doc) <= MAX_ARRAY_NESTING))
         \/ Call(LAMBDA c : BstrWrap(c, l), Opening("wrap", l), Rarely(l.k # "n" /\ Len(doc) <= MAX_ARRAY_NESTING))
         \/ Call(LAMBDA c : OpenArrayIndefiniteLength(c, l), Opening("iarray", l), 1)
         \/ Call(LAMBDA c : OpenMapIndefiniteLength(c, l), Opening("imap", l), 1)

\* Opening a byte string inside an opened one is an error the encoder reports.
OpenByteString ==
    \E l \in Labels :
      /\ CanAdd(l) \/ (Level(doc).kind = "opened" /\ l = NoLabel)
      /\ Call(LAMBDA c : OpenBytes(c, l), Opening("opened", l), 1)
      /\ UNCHANGED owed

Close ==
    /\ CanClose
    /\ UNCHANGED owed
    /\ \/ Call(CloseArray, ClosingLevel("array"), Rarely(Matching("array")))
       \/ Call(CloseMap, ClosingLevel("map"), Rarely(Matching("map")))
       \/ /\ owed = <<>>
          /\ \/ Call(CloseArrayIndefiniteLength, ClosingLevel("iarray"), Rarely(Matching("iarray")))
             \/ Call(CloseMapIndefiniteLength, ClosingLevel("imap"), Rarely(Matching("imap")))

\* The caller also takes the wrapped bytes, to hash them.
CloseBstrWrap2 ==
    \E includeHead \in BOOLEAN :
      /\ CanClose /\ owed = <<>>
      /\ ~Finished /\ calls < MaxCalls /\ rare + Rarely(Matching("wrap") /\ ~includeHead) <= MaxRare
      /\ LET closed == QCBOREncode_CloseBstrWrap2(enc, includeHead)
         IN  /\ enc' = closed.ctx
             /\ wrapped' = [buf  |-> closed.wrapped,
                             toks |-> IF includeHead THEN Whole(Level(doc)) ELSE Level(doc).items]
      /\ calc' = QCBOREncode_CloseBstrWrap2(calc, includeHead).ctx
      /\ doc' = ClosingLevel("wrap")
      /\ calls' = calls + 1
      /\ rare' = rare + Rarely(Matching("wrap") /\ ~includeHead)
      /\ UNCHANGED <<owed, result>>

\* Cancelling does not take back the label of a wrap in a map; the caller knows.
CancelBstrWrap ==
    /\ CanClose /\ owed = <<>>
    /\ Len(doc) > 1 => doc[Len(doc) - 1].kind \notin {"map", "imap"}
    /\ Call(QCBOREncode_CancelBstrWrap,
            IF Matching("wrap") /\ Level(doc).items = <<>> THEN SubSeq(doc, 1, Len(doc) - 1) ELSE doc,
            1)
    /\ UNCHANGED owed

\* The caller wrote the bytes to the place it was given, if there was room for them.
CloseBytes ==
    \E b \in Strings :
      /\ CanClose /\ owed = <<>>
      /\ Matching("opened")
      /\ Call(LAMBDA c : QCBOREncode_CloseBytes(c, b), Closing("opened", <<Bytes_(b)>>), 0)
      /\ UNCHANGED owed

GetErrorState == Call(QCBOREncode_GetErrorState, doc, 1) /\ UNCHANGED owed

Finish ==
    /\ ~Finished /\ CanClose
    /\ result' = [real |-> QCBOREncode_Finish(enc), size |-> QCBOREncode_FinishGetSize(calc)]
    /\ wrapped' = NothingWrapped
    /\ UNCHANGED <<enc, calc, doc, owed, calls, rare>>

Init ==
    /\ \E cap \in Capacities : enc = QCBOREncode_Init(FALSE, cap)
    /\ calc = QCBOREncode_Init(TRUE, CalculateSize)
    /\ doc = <<NewLevel("top")>>
    /\ owed = <<>>
    /\ wrapped = NothingWrapped
    /\ calls = 0 /\ rare = 0
    /\ result = [real |-> [err |-> "none", out |-> NULLUsefulBufC], size |-> [err |-> "none", len |-> 0]]

Next ==
    \/ Item \/ AddTag \/ Open \/ OpenByteString
    \/ Close \/ CloseBstrWrap2 \/ CancelBstrWrap \/ CloseBytes
    \/ GetErrorState \/ Finish

Spec == Init /\ [][Next]_vars

-----------------------------------------------------------------------------
(* Properties *)

\* The levels of a context: where each starts is inside what is written, and the output
\* is never longer than the buffer.
ContextOK(c) ==
    /\ Len(c.out.data) <= c.out.cap
    /\ c.uError \in Errors
    /\ Len(c.nesting) \in 1..(MAX_ARRAY_NESTING + 1)
    /\ \A i \in DOMAIN c.nesting : c.nesting[i].count \in 0..(CountRange - 1)

\* Type invariant: the output stays inside the buffer and the nesting inside its array.
TypeOK ==
    /\ ContextOK(enc) /\ ContextOK(calc)
    /\ calls \in 0..MaxCalls /\ rare \in 0..MaxRare

\* The position an open level remembers (uStart), where its head is inserted later, is
\* inside the output and not before the level around it, however many heads were
\* inserted in between (InsertCBORHead slides bytes to the right).
StartsInOrder ==
    \A c \in {enc, calc} :
      /\ \A i \in DOMAIN c.nesting : c.nesting[i].start <= Len(c.out.data)
      /\ \A i, j \in DOMAIN c.nesting : i <= j => c.nesting[i].start <= c.nesting[j].start

\* A size calculation predicts the encoding: when the same calls on a NULL buffer end well
\* and the size fits, the encoding ends well with that length, and an encoding that ended
\* well had the predicted length (SizeCalculateUsefulBuf, QCBOREncode_FinishGetSize).
SizeCalcAgrees ==
    Finished =>
      /\ (result.real.err = "SUCCESS") =
           (result.size.err = "SUCCESS" /\ result.size.len <= enc.out.cap)
      /\ result.real.err = "SUCCESS" => result.size.len = Len(result.real.out.bytes)

\* What qcbor_encode.c:205-209 says of its errors: once one is set it is never cleared, so
\* a context that ever had an error does not finish with QCBOR_SUCCESS.
ErrorsNeverCleared == Finished /\ enc.failed => result.real.err # "SUCCESS"

\* A successful QCBOREncode_Finish without any error on the way returns well-formed CBOR
\* that reads back as exactly the document the caller built: right types, counts, lengths
\* and nesting, for every order of opens, closes, cancels, inserted heads and wraps.
DecodesToDoc ==
    Finished /\ result.real.err = "SUCCESS" /\ ~enc.failed =>
        Len(doc) = 1 /\ IsEncoding(result.real.out.bytes \o owed, doc[1].items)

\* The bytes QCBOREncode_CloseBstrWrap2 hands out for hashing are the wrapped items, or the
\* byte string that holds them, although the head was inserted in front of them.
WrappedIsContent ==
    ~wrapped.buf.null /\ ~enc.failed => IsEncoding(wrapped.buf.bytes, wrapped.toks)
=============================================================================
