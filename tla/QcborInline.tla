---------------------------- MODULE QcborInline ----------------------------
(***************************************************************************)
(* The interface of the CBOR encoder: the inline functions of              *)
(* qcbor_encode.h on top of qcbor_encode.c.                                *)
(*                                                                         *)
(* The functions that take a label (...ToMap, ...ToMapSZ, ...ToMapN) are   *)
(* the ones without it after the label is added, and the functions without *)
(* a tag requirement are the ones with QCBOR_ENCODE_AS_TAG: one operator   *)
(* with a label and a requirement stands for its family.                   *)
(***************************************************************************)
EXTENDS Qcbor

-----------------------------------------------------------------------------
(* Labels and tags *)

\* The characters in front of the terminating zero.
UsefulBuf_FromSZ(sz) == SubSeq(sz, 1, Min({i \in DOMAIN sz : sz[i] = 0}) - 1)

\* No label, a C string or an integer.
NoLabel == [k |-> "none"]
SZLabel(sz) == [k |-> "sz", sz |-> sz]
NLabel(n) == [k |-> "n", n |-> n]

AddLabel(c, l) ==
    CASE l.k = "none" -> c
      [] l.k = "sz"   -> QCBOREncode_AddBuffer(c, TEXT_STRING, UsefulBuf_FromSZ(l.sz))
      [] l.k = "n"    -> QCBOREncode_AddInt64(c, l.n)

\* The label, then the tag if the item is to have one.
Prefixed(c, l, asTag, tag) ==
    IF asTag THEN QCBOREncode_AddTag(AddLabel(c, l), tag) ELSE AddLabel(c, l)

CBOR_TAG_DATE_STRING == 0
CBOR_TAG_DATE_EPOCH == 1
CBOR_TAG_POS_BIGNUM == 2
CBOR_TAG_NEG_BIGNUM == 3
CBOR_TAG_DECIMAL_FRACTION == 4
CBOR_TAG_BIGFLOAT == 5
CBOR_TAG_URI == 32
CBOR_TAG_B64URL == 33
CBOR_TAG_B64 == 34
CBOR_TAG_REGEX == 35
CBOR_TAG_BIN_UUID == 37
CBOR_TAG_DAYS_EPOCH == 100
CBOR_TAG_BINARY_MIME == 257
CBOR_TAG_DAYS_STRING == 1004

-----------------------------------------------------------------------------
(* The families of functions *)

AddInt64(c, l, n) == QCBOREncode_AddInt64(AddLabel(c, l), n)

AddUInt64(c, l, n) == QCBOREncode_AddUInt64(AddLabel(c, l), n)

AddText(c, l, b) == QCBOREncode_AddBuffer(AddLabel(c, l), TEXT_STRING, b)

AddSZString(c, l, sz) == AddText(c, l, UsefulBuf_FromSZ(sz))

AddBytes(c, l, b) == QCBOREncode_AddBuffer(AddLabel(c, l), BYTE_STRING, b)

OpenBytes(c, l) == QCBOREncode_OpenBytes(AddLabel(c, l))

AddBytesLenOnly(c, l, b) == QCBOREncode_AddBuffer(AddLabel(c, l), BSTR_LEN_ONLY, b)

AddTDateEpoch(c, l, asTag, n) ==
    QCBOREncode_AddInt64(Prefixed(c, l, asTag, CBOR_TAG_DATE_EPOCH), n)

AddTDaysEpoch(c, l, asTag, n) ==
    QCBOREncode_AddInt64(Prefixed(c, l, asTag, CBOR_TAG_DAYS_EPOCH), n)

AddTBinaryUUID(c, l, asTag, b) ==
    QCBOREncode_AddBuffer(Prefixed(c, l, asTag, CBOR_TAG_BIN_UUID), BYTE_STRING, b)

AddTPositiveBignum(c, l, asTag, b) ==
    QCBOREncode_AddBuffer(Prefixed(c, l, asTag, CBOR_TAG_POS_BIGNUM), BYTE_STRING, b)

AddTNegativeBignum(c, l, asTag, b) ==
    QCBOREncode_AddBuffer(Prefixed(c, l, asTag, CBOR_TAG_NEG_BIGNUM), BYTE_STRING, b)

\* The array of exponent and mantissa behind a prefix; the mantissa is a big number
\* with its own tag unless its pointer is NULL.
QCBOREncode_AddExponentAndMantissa(c, big, neg, mantissa, exponent) ==
    LET opened == QCBOREncode_AddInt64(QCBOREncode_OpenMapOrArray(c, ARRAY), exponent)
        filled == IF big.null THEN QCBOREncode_AddInt64(opened, mantissa)
                  ELSE IF neg THEN AddTNegativeBignum(opened, NoLabel, TRUE, big.bytes)
                  ELSE AddTPositiveBignum(opened, NoLabel, TRUE, big.bytes)
    IN  QCBOREncode_CloseMapOrArray(filled, ARRAY)

AddTDecimalFraction(c, l, asTag, m, e) ==
    QCBOREncode_AddExponentAndMantissa(
        Prefixed(c, l, asTag, CBOR_TAG_DECIMAL_FRACTION), NULLUsefulBufC, FALSE, m, e)

AddTDecimalFractionBigNum(c, l, asTag, b, neg, e) ==
    QCBOREncode_AddExponentAndMantissa(
        Prefixed(c, l, asTag, CBOR_TAG_DECIMAL_FRACTION), UsefulBufC(b), neg, 0, e)

AddTBigFloat(c, l, asTag, m, e) ==
    QCBOREncode_AddExponentAndMantissa(
        Prefixed(c, l, asTag, CBOR_TAG_BIGFLOAT), NULLUsefulBufC, FALSE, m, e)

AddTBigFloatBigNum(c, l, asTag, b, neg, e) ==
    QCBOREncode_AddExponentAndMantissa(
        Prefixed(c, l, asTag, CBOR_TAG_BIGFLOAT), UsefulBufC(b), neg, 0, e)

AddTURI(c, l, asTag, b) ==
    QCBOREncode_AddBuffer(Prefixed(c, l, asTag, CBOR_TAG_URI), TEXT_STRING, b)

AddTB64Text(c, l, asTag, b) ==
    QCBOREncode_AddBuffer(Prefixed(c, l, asTag, CBOR_TAG_B64), TEXT_STRING, b)

AddTB64URLText(c, l, asTag, b) ==
    QCBOREncode_AddBuffer(Prefixed(c, l, asTag, CBOR_TAG_B64URL), TEXT_STRING, b)

AddTRegex(c, l, asTag, b) ==
    QCBOREncode_AddBuffer(Prefixed(c, l, asTag, CBOR_TAG_REGEX), TEXT_STRING, b)

AddTMIMEData(c, l, asTag, b) ==
    QCBOREncode_AddBuffer(Prefixed(c, l, asTag, CBOR_TAG_BINARY_MIME), BYTE_STRING, b)

AddTDateString(c, l, asTag, sz) ==
    QCBOREncode_AddBuffer(Prefixed(c, l, asTag, CBOR_TAG_DATE_STRING), TEXT_STRING,
                          UsefulBuf_FromSZ(sz))

AddTDaysString(c, l, asTag, sz) ==
    QCBOREncode_AddBuffer(Prefixed(c, l, asTag, CBOR_TAG_DAYS_STRING), TEXT_STRING,
                          UsefulBuf_FromSZ(sz))

AddSimple(c, l, n) == QCBOREncode_AddType7(AddLabel(c, l), 0, n)

AddBool(c, l, b) == AddSimple(c, l, IF b THEN 21 ELSE 20)

AddNULL(c, l) == AddSimple(c, l, 22)

AddUndef(c, l) == AddSimple(c, l, 23)

OpenArray(c, l) == QCBOREncode_OpenMapOrArray(AddLabel(c, l), ARRAY)

OpenMap(c, l) == QCBOREncode_OpenMapOrArray(AddLabel(c, l), MAP)

BstrWrap(c, l) == QCBOREncode_OpenMapOrArray(AddLabel(c, l), BYTE_STRING)

ARRAY_INDEFINITE_LEN == ARRAY + INDEFINITE_LEN_TYPE_MODIFIER

MAP_INDEFINITE_LEN == MAP + INDEFINITE_LEN_TYPE_MODIFIER

OpenArrayIndefiniteLength(c, l) ==
    QCBOREncode_OpenMapOrArrayIndefiniteLength(AddLabel(c, l), ARRAY_INDEFINITE_LEN)

OpenMapIndefiniteLength(c, l) ==
    QCBOREncode_OpenMapOrArrayIndefiniteLength(AddLabel(c, l), MAP_INDEFINITE_LEN)

CloseArray(c) == QCBOREncode_CloseMapOrArray(c, ARRAY)

CloseMap(c) == QCBOREncode_CloseMapOrArray(c, MAP)

CloseArrayIndefiniteLength(c) ==
    QCBOREncode_CloseMapOrArrayIndefiniteLength(c, ARRAY_INDEFINITE_LEN)

CloseMapIndefiniteLength(c) ==
    QCBOREncode_CloseMapOrArrayIndefiniteLength(c, MAP_INDEFINITE_LEN)

AddEncoded(c, l, b) == QCBOREncode_AddBuffer(AddLabel(c, l), RAW, b)
=============================================================================
