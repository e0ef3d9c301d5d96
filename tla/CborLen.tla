------------------------------ MODULE CborLen ------------------------------
(***************************************************************************)
(* The lengths of what the attestation PTA encodes: the claims, the bytes  *)
(* to be signed and the signed message (cbor.c).                           *)
(***************************************************************************)
EXTENDS Naturals

\* A CBOR head with argument n, as QCBOREncode_EncodeHead writes it.
HeadLen(n) == IF n < 24 THEN 1 ELSE IF n < 256 THEN 2 ELSE IF n < 65536 THEN 3 ELSE 5

StringLen(n) == HeadLen(n) + n

\* A component of the software components array: type, measurement, signer-id.
ComponentLen == 1 + (1 + StringLen(4)) + (1 + StringLen(32)) + (1 + StringLen(32))

\* encode_evidence_to_cbor: profile, client-id, lifecycle, implementation-id,
\* two components (one with a version), nonce, instance-id.
PayloadLen(client, version, nonce) ==
    1 + (3 + StringLen(24)) + (3 + client) + (3 + 3) + (3 + StringLen(32))
      + (3 + 1 + ComponentLen + ComponentLen + 1 + StringLen(version))
      + (1 + StringLen(nonce)) + (3 + StringLen(33))

ProtectedLen == 3

\* create_tbs: "Signature1", protected header, no external data, payload.
TbsLen(p) == 1 + StringLen(10) + StringLen(ProtectedLen) + StringLen(0) + StringLen(p)

\* generate_cose: tag, protected header, empty map, payload, signature.
CoseLen(p) == 1 + 1 + StringLen(ProtectedLen) + 1 + StringLen(p) + StringLen(64)
=============================================================================
