------------------------------- MODULE Cbor -------------------------------
(***************************************************************************)
(* The encodings of the attestation PTA (cbor.c, cbor.h), as calls of the  *)
(* CBOR encoder: the claims, the protected header, the bytes to be signed  *)
(* and the COSE_Sign1 message.                                             *)
(*                                                                         *)
(* An encoding takes the size of the buffer it writes and gives the bytes, *)
(* or NULL.  C strings end in a zero; a missing one is NULL.               *)
(***************************************************************************)
EXTENDS QcborInline

PSA_NONCE == 10
PSA_INSTANCE_ID == 256
PSA_PROFILE_DEFINITION == 265
PSA_CLIENT_ID == 2394
PSA_SECURITY_LIFECYCLE == 2395
PSA_IMPLEMENTATION_ID == 2396
PSA_SW_COMPONENTS == 2399

PSA_SW_COMPONENT_MEASUREMENT_TYPE == 1
PSA_SW_COMPONENT_MEASUREMENT_VALUE == 2
PSA_SW_COMPONENT_VERSION == 4
PSA_SW_COMPONENT_SIGNER_ID == 5

COSE_HEADER_PARAM_ALG == 1
COSE_ALGORITHM_ES256 == -7
CBOR_TAG_COSE_SIGN1 == 18

\* "Signature1"
COSE_SIG_CONTEXT_STRING_SIGNATURE1 == <<83, 105, 103, 110, 97, 116, 117, 114, 101, 49, 0>>

HEADER_BUFFER_SIZE == 256
TBS_BUFFER_SIZE == 512

\* What an encoding returns.
Result(c) == QCBOREncode_Finish(c).out

\* A variant for testing the properties: the map is not closed.
AddComponent_Open(c, p) ==
    LET typed  == AddSZString(OpenMap(c, NoLabel), NLabel(PSA_SW_COMPONENT_MEASUREMENT_TYPE), p.type)
        valued == AddBytes(typed, NLabel(PSA_SW_COMPONENT_MEASUREMENT_VALUE), p.value)
    IN  AddBytes(valued, NLabel(PSA_SW_COMPONENT_SIGNER_ID), p.signer)

\* A software component: measurement type, value, version and signer.
AddComponent(c, p) ==
    LET typed  == AddSZString(OpenMap(c, NoLabel), NLabel(PSA_SW_COMPONENT_MEASUREMENT_TYPE), p.type)
        valued == AddBytes(typed, NLabel(PSA_SW_COMPONENT_MEASUREMENT_VALUE), p.value)
        dated  == IF p.version.null THEN valued
                  ELSE AddSZString(valued, NLabel(PSA_SW_COMPONENT_VERSION), p.version.bytes)
    IN  CloseMap(AddBytes(dated, NLabel(PSA_SW_COMPONENT_SIGNER_ID), p.signer))

AddComponents(c, components) ==
    LET n == Len(components)
        added[i \in 0..n] == IF i = 0 THEN c ELSE AddComponent(added[i - 1], components[i])
    IN  added[n]

encode_evidence_to_cbor(e, cap) ==
    LET opened  == OpenMap(QCBOREncode_Init(FALSE, cap), NoLabel)
        profile == AddSZString(opened, NLabel(PSA_PROFILE_DEFINITION), e.profile)
        client  == AddInt64(profile, NLabel(PSA_CLIENT_ID), e.client)
        cycle   == AddInt64(client, NLabel(PSA_SECURITY_LIFECYCLE), e.lifecycle)
        impl    == AddBytes(cycle, NLabel(PSA_IMPLEMENTATION_ID), e.implementation)
        parts   == AddComponents(OpenArray(impl, NLabel(PSA_SW_COMPONENTS)), e.components)
        nonce   == AddBytes(CloseArray(parts), NLabel(PSA_NONCE), e.nonce)
    IN  Result(CloseMap(AddBytes(nonce, NLabel(PSA_INSTANCE_ID), e.instance)))

encode_protected_parameter(cap) ==
    LET opened == OpenMap(QCBOREncode_Init(FALSE, cap), NoLabel)
        filled == AddInt64(opened, NLabel(COSE_HEADER_PARAM_ALG), COSE_ALGORITHM_ES256)
    IN  Result(CloseMap(filled))

\* A variant for testing the properties: no external data.
create_tbs_NoAad(prot, aad, payload, cap) ==
    LET opened == OpenArray(QCBOREncode_Init(FALSE, cap), NoLabel)
        named  == AddSZString(opened, NoLabel, COSE_SIG_CONTEXT_STRING_SIGNATURE1)
        header == AddBytes(named, NoLabel, prot)
        body   == AddBytes(header, NoLabel, payload)
    IN  Result(CloseArray(body))

create_tbs(prot, aad, payload, cap) ==
    LET opened == OpenArray(QCBOREncode_Init(FALSE, cap), NoLabel)
        named  == AddSZString(opened, NoLabel, COSE_SIG_CONTEXT_STRING_SIGNATURE1)
        header == AddBytes(named, NoLabel, prot)
        extern == AddBytes(header, NoLabel, aad)
        body   == AddBytes(extern, NoLabel, payload)
    IN  Result(CloseArray(body))

\* The message, and the bytes handed to sign_ecdsa_sha256; the signature that returns is
\* NULL when signing fails.
generate_cose(payload, cap, signature) ==
    LET tagged == QCBOREncode_AddTag(QCBOREncode_Init(FALSE, cap), CBOR_TAG_COSE_SIGN1)
        opened == OpenArray(tagged, NoLabel)
        prot   == encode_protected_parameter(HEADER_BUFFER_SIZE)
        header == AddBytes(opened, NoLabel, prot.bytes)
        inMap  == OpenMap(header, NoLabel)
        empty  == CloseMap(inMap)
        body   == AddBytes(empty, NoLabel, payload)
        tbs    == create_tbs(prot.bytes, NULLUsefulBufC.bytes, payload, TBS_BUFFER_SIZE)
        signed == AddBytes(body, NoLabel, signature.bytes)
    IN  [tbs  |-> tbs,
         cose |-> IF prot.null \/ tbs.null \/ signature.null THEN NULLUsefulBufC
                  ELSE Result(CloseArray(signed))]
=============================================================================
