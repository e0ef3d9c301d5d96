------------------------------ MODULE Evidence ------------------------------
(***************************************************************************)
(* One evidence command inside the TEE: the trusted application            *)
(* (attester/remote_attestation/ta) calls the pseudo TA                    *)
(* (attester/pta_remote_attestation), which reads the fuses, measures the  *)
(* calling TA and the core, encodes the claims as CBOR, signs them as      *)
(* COSE_Sign1 and hands the result back.                                   *)
(*                                                                         *)
(* Every stage may fail, and has to release what was taken so far.  Fuses  *)
(* are read word by word, twice, while they may be being blown.  The       *)
(* address-space layout of the TA changes from load to load, its           *)
(* measurement must not.  Lengths are those of the real encoding.          *)
(***************************************************************************)
EXTENDS Naturals, Sequences, FiniteSets, Functions, CborLen

CONSTANTS NonceLens,    \* lengths of the nonce
          OutLens,      \* sizes of the caller's buffer
          VersionLens,  \* lengths of the OP-TEE version string
          Layouts,      \* the ways the regions of the TA may be laid out
          SrkWords,     \* number of SRK fuse words
          MaxBlown      \* fuses blown during the command (a bound of the model)

MAX_NONCE_SIZE     == 64
OS_VERSION_MAX_LEN == 32
WORK_BUFFER_SIZE   == 512     \* heap_cbor, heap_cose and heap_tbs

Region == [size : Nat, bytes : Nat, valid : BOOLEAN]

\* is_region_valid: the read-only regions of the TA itself are hashed.
ValidRegions(l) == {i \in DOMAIN l : l[i].valid}

\* Two loads of one TA: the same regions in other places, whatever its data became.
SameRegions(l, m) ==
    \E f \in Bijection(ValidRegions(l), ValidRegions(m)) :
        \A i \in ValidRegions(l) : m[f[i]].size = l[i].size /\ m[f[i]].bytes = l[i].bytes

ASSUME EvidenceAssumption ==
    /\ NonceLens \subseteq Nat \ {0}
    /\ OutLens \subseteq Nat \ {0}
    /\ VersionLens \subseteq 1..(OS_VERSION_MAX_LEN - 1)
    /\ Layouts \subseteq Seq(Region)
    /\ \A l, m \in Layouts : SameRegions(l, m)
    /\ SrkWords \in Nat \ {0}
    /\ MaxBlown \in Nat

VARIABLES
    nonceLen, outLen, versionLen, keyed, layout,   \* what the command works on
    srk, closed, blown,                            \* the fuses
    pc, live, failed,                              \* stage, resources held, where it failed
    signer, word, srkEmpty, lifecycle,             \* from the fuses
    clientLen, measurement, size                   \* claims and encoded size

inputVars == <<nonceLen, outLen, versionLen, keyed, layout>>
fuseVars  == <<srk, closed, blown>>
claimVars == <<signer, word, srkEmpty, lifecycle, clientLen, measurement, size>>
vars      == <<inputVars, fuseVars, pc, live, failed, claimVars>>

TaBuffers == {"nonce_buf", "out_buf"} \cup (IF keyed THEN {"key_buf"} ELSE {})
Resources == {"sess", "nonce_buf", "out_buf", "key_buf", "popped", "hash_ctx", "regions",
              "heap_cbor", "heap_cose", "heap_prot", "heap_tbs", "key", "bignums"}
Lifecycles == {"none", "ASSEMBLY_AND_TEST", "ROT_PROVISIONING", "SECURED"}

\* The stages, in the order of the code.
Stages == <<"ta_open", "ta_buffers", "client_id", "key_param", "srk_hash", "lifecycle",
            "instance_id", "hash_begin", "hash_ta", "hash_tee", "buffers", "encode", "cose_buffers", "tbs",
            "key", "sign", "finish", "copy", "ta_copy", "cleanup", "done">>
Labels == {Stages[i] : i \in DOMAIN Stages}

\* A variant for testing the properties: the lifecycle is read first.
After_LifecycleFirst(l) ==
    CASE l = "key_param" -> "lifecycle"
      [] l = "lifecycle" -> "srk_hash"
      [] l = "srk_hash"  -> "instance_id"
      [] OTHER -> Stages[1 + CHOOSE i \in DOMAIN Stages : Stages[i] = l]

After(l) == Stages[1 + CHOOSE i \in DOMAIN Stages : Stages[i] = l]

-----------------------------------------------------------------------------
(* Stages *)

payload == PayloadLen(clientLen, versionLen, nonceLen)

\* A stage succeeds: it takes and releases resources and goes on.
Proceed(l, take, give) ==
    /\ pc = l
    /\ pc' = After(l)
    /\ live' = (live \cup take) \ give
    /\ UNCHANGED <<failed, inputVars, fuseVars>>

\* A stage fails with some of what it takes taken, and releases give.
Fail(l, took, give) ==
    /\ pc = l
    /\ pc' = "cleanup"
    /\ failed' = l
    /\ live' = (live \cup took) \ give
    /\ UNCHANGED <<inputVars, fuseVars, claimVars>>

\* TEE_OpenTASession.
OpenPta ==
    \/ Proceed("ta_open", {"sess"}, {}) /\ UNCHANGED claimVars
    \/ Fail("ta_open", {}, {})

\* The TA's copies of nonce, output and key; any of them may not be had.
TaAllocate ==
    \/ Proceed("ta_buffers", TaBuffers, {}) /\ UNCHANGED claimVars
    \/ \E took \in {{}, {"nonce_buf"}, {"nonce_buf", "out_buf"} \cap TaBuffers} :
          took # TaBuffers /\ Fail("ta_buffers", took, {})

\* derive_client_id: 31 bits of a hash, or 1 when hashing fails, as a CBOR integer.
ClientLens == {1, 2, 3, 5}

derive_client_id ==
    /\ Proceed("client_id", {}, {})
    /\ clientLen' \in ClientLens
    /\ UNCHANGED <<signer, word, srkEmpty, lifecycle, measurement, size>>

\* ocotp_read_srk_hash for the signer-id, word by word.
ReadSrkWord ==
    \/ /\ pc = "srk_hash"
       /\ signer' = [signer EXCEPT ![word] = srk[word]]
       /\ IF word = SrkWords
          THEN word' = 1 /\ pc' = After("srk_hash")
          ELSE word' = word + 1 /\ UNCHANGED pc
       /\ UNCHANGED <<live, failed, inputVars, fuseVars, srkEmpty, lifecycle, clientLen,
                      measurement, size>>
    \/ Fail("srk_hash", {}, {})

Lifecycle(empty, isClosed) ==
    IF empty THEN "ASSEMBLY_AND_TEST"
    ELSE IF isClosed THEN "SECURED" ELSE "ROT_PROVISIONING"

\* ocotp_get_lifecycle reads the SRK words again, then SEC_CONFIG.
ReadLifecycle ==
    \/ /\ pc = "lifecycle"
       /\ word <= SrkWords
       /\ word' = word + 1
       /\ srkEmpty' = (srkEmpty /\ srk[word] = 0)
       /\ UNCHANGED <<pc, live, failed, inputVars, fuseVars, signer, lifecycle, clientLen,
                      measurement, size>>
    \/ /\ word = SrkWords + 1
       /\ Proceed("lifecycle", {}, {})
       /\ lifecycle' = Lifecycle(srkEmpty, closed)
       /\ word' = 1
       /\ UNCHANGED <<signer, srkEmpty, clientLen, measurement, size>>
    \/ Fail("lifecycle", {}, {})

\* The key parameter, compute_instance_id and get_hash_tee_memory: they hold nothing
\* when they return.
Stage(l) ==
    \/ Proceed(l, {}, {}) /\ UNCHANGED claimVars
    \/ Fail(l, {}, {})

\* get_hash_ta_memory leaves the PTA's session; hash_regions takes a hash context
\* and an array of region pointers.
BeginHashTa ==
    \/ Proceed("hash_begin", {"popped", "hash_ctx", "regions"}, {})
          /\ UNCHANGED claimVars
    \/ Fail("hash_begin", {}, {})

\* A variant for testing the properties: regions are compared by size only.
cmp_regions_SizeOnly(r, s) == r.size < s.size

\* r goes before s.
cmp_regions(r, s) == r.size < s.size \/ (r.size = s.size /\ r.bytes < s.bytes)

\* What qsort may make of a layout: its valid regions in an order no pair of which
\* is inverted.  The hash is over the contents in that order.
Orders(l) ==
    LET n == Cardinality(ValidRegions(l))
    IN  {p \in [1..n -> ValidRegions(l)] :
            \A i, j \in 1..n : i < j => p[i] # p[j] /\ ~cmp_regions(l[p[j]], l[p[i]])}

Hashes(l) == {[i \in DOMAIN p |-> l[p[i]].bytes] : p \in Orders(l)}

hash_regions ==
    \/ /\ Proceed("hash_ta", {}, {"popped", "hash_ctx", "regions"})
       /\ measurement' \in Hashes(layout)
       /\ UNCHANGED <<signer, word, srkEmpty, lifecycle, clientLen, size>>
    \/ Fail("hash_ta", {}, {"popped", "hash_ctx", "regions"})

\* The work buffers for CBOR and COSE.
AllocateBuffers ==
    \/ Proceed("buffers", {"heap_cbor", "heap_cose"}, {}) /\ UNCHANGED claimVars
    \/ Fail("buffers", {}, {})

\* A variant for testing the properties: one buffer is forgotten.
Encode_Leaks ==
    \/ /\ payload <= WORK_BUFFER_SIZE
       /\ Proceed("encode", {}, {})
       /\ UNCHANGED claimVars
    \/ payload > WORK_BUFFER_SIZE /\ Fail("encode", {}, {"heap_cbor"})

Encode ==
    \/ /\ payload <= WORK_BUFFER_SIZE
       /\ Proceed("encode", {}, {})
       /\ UNCHANGED claimVars
    \/ payload > WORK_BUFFER_SIZE /\ Fail("encode", {}, {"heap_cbor", "heap_cose"})

\* generate_cose: all its failures make cmd_get_cbor_evidence release everything.
Heaps == {"heap_cbor", "heap_cose", "heap_prot", "heap_tbs"}

CoseBuffers ==
    \/ Proceed("cose_buffers", {"heap_prot", "heap_tbs"}, {}) /\ UNCHANGED claimVars
    \/ Fail("cose_buffers", {}, Heaps)

\* A variant for testing the properties: the buffer is half the size.
CreateTbs_Half ==
    \/ /\ TbsLen(payload) <= WORK_BUFFER_SIZE \div 2
       /\ Proceed("tbs", {}, {})
       /\ UNCHANGED claimVars
    \/ TbsLen(payload) > WORK_BUFFER_SIZE \div 2 /\ Fail("tbs", {}, Heaps)

CreateTbs ==
    \/ /\ TbsLen(payload) <= WORK_BUFFER_SIZE
       /\ Proceed("tbs", {}, {})
       /\ UNCHANGED claimVars
    \/ TbsLen(payload) > WORK_BUFFER_SIZE /\ Fail("tbs", {}, Heaps)

\* sign_ecdsa_sha256: the key structure and its numbers.  When the numbers cannot
\* be had the structure is not released.
AllocateKey ==
    \/ Proceed("key", {"key", "bignums"}, {}) /\ UNCHANGED claimVars
    \/ Fail("key", {}, Heaps)
    \/ Fail("key", {"key"}, Heaps)

Sign ==
    \/ Proceed("sign", {}, {"key", "bignums", "heap_prot", "heap_tbs"})
          /\ UNCHANGED claimVars
    \/ Fail("sign", {}, Heaps \cup {"key", "bignums"})

\* A variant for testing the properties: the result of QCBOREncode_Finish is ignored.
FinishCose_Unchecked ==
    /\ Proceed("finish", {}, {})
    /\ size' = CoseLen(payload)
    /\ UNCHANGED <<signer, word, srkEmpty, lifecycle, clientLen, measurement>>

FinishCose ==
    \/ /\ CoseLen(payload) <= WORK_BUFFER_SIZE
       /\ Proceed("finish", {}, {})
       /\ size' = CoseLen(payload)
       /\ UNCHANGED <<signer, word, srkEmpty, lifecycle, clientLen, measurement>>
    \/ CoseLen(payload) > WORK_BUFFER_SIZE /\ Fail("finish", {}, Heaps)

\* The evidence goes to the output buffer of the TA and its size is reported.  The
\* size of that buffer is not consulted; past its end the command may go on or die.
CopyOut ==
    \/ Proceed("copy", {}, {"heap_cbor", "heap_cose"}) /\ UNCHANGED claimVars
    \/ /\ pc = "copy"
       /\ size > outLen
       /\ pc' = "abort"
       /\ UNCHANGED <<live, failed, inputVars, fuseVars, claimVars>>

\* The TA compares the reported size with the room there is.
TaCopyOut ==
    \/ size <= outLen /\ Proceed("ta_copy", {}, {}) /\ UNCHANGED claimVars
    \/ size > outLen /\ Fail("ta_copy", {}, {})

\* cleanup_return.
Cleanup ==
    /\ Proceed("cleanup", {}, TaBuffers \cup {"sess"})
    /\ UNCHANGED claimVars

-----------------------------------------------------------------------------
(* The command *)

\* A fuse is programmed from outside; it can never be cleared.
BlowFuse ==
    /\ blown < MaxBlown
    /\ blown' = blown + 1
    /\ \/ \E w \in 1..SrkWords : srk[w] = 0 /\ srk' = [srk EXCEPT ![w] = 1] /\ UNCHANGED closed
       \/ ~closed /\ closed' = TRUE /\ UNCHANGED srk
    /\ UNCHANGED <<inputVars, pc, live, failed, claimVars>>

Init ==
    /\ nonceLen \in NonceLens
    /\ outLen \in OutLens
    /\ versionLen \in VersionLens
    /\ keyed \in BOOLEAN
    /\ layout \in Layouts
    /\ srk \in [1..SrkWords -> {0, 1}]
    /\ closed \in BOOLEAN
    /\ blown = 0
    /\ pc = "ta_open"
    /\ live = {}
    /\ failed = "none"
    /\ signer = [w \in 1..SrkWords |-> 0]
    /\ word = 1
    /\ srkEmpty = TRUE
    /\ lifecycle = "none"
    /\ clientLen = 1
    /\ measurement = <<>>
    /\ size = 0

Next ==
    \/ OpenPta \/ TaAllocate
    \/ derive_client_id
    \/ Stage("key_param")
    \/ ReadSrkWord \/ ReadLifecycle
    \/ Stage("instance_id")
    \/ BeginHashTa \/ hash_regions
    \/ Stage("hash_tee")
    \/ AllocateBuffers \/ Encode
    \/ CoseBuffers \/ CreateTbs \/ AllocateKey \/ Sign \/ FinishCose
    \/ CopyOut \/ TaCopyOut \/ Cleanup
    \/ BlowFuse

Spec == Init /\ [][Next]_vars

-----------------------------------------------------------------------------
(* Properties *)

\* The types of the variables; encoded evidence never exceeds the COSE work buffer.
TypeOK ==
    /\ nonceLen \in NonceLens /\ outLen \in OutLens /\ versionLen \in VersionLens
    /\ keyed \in BOOLEAN /\ layout \in Layouts
    /\ srk \in [1..SrkWords -> {0, 1}] /\ closed \in BOOLEAN /\ blown \in 0..MaxBlown
    /\ pc \in Labels \cup {"abort"} /\ live \subseteq Resources /\ failed \in Labels \cup {"none"}
    /\ signer \in [1..SrkWords -> {0, 1}] /\ word \in 1..(SrkWords + 1)
    /\ srkEmpty \in BOOLEAN /\ lifecycle \in Lifecycles
    /\ clientLen \in ClientLens /\ measurement \in Seq(Nat) /\ size \in 0..WORK_BUFFER_SIZE

\* Whatever stage fails, the buffers, the hash context, the region array, the session
\* to the PTA and the place in the session stack are given back when
\* call_pta_for_cbor_evidence returns.  Only the key structure of sign_ecdsa_sha256
\* stays allocated, when the numbers of the key cannot be allocated (sign.c:72).
ResourcesReleased ==
    pc = "done" => live \subseteq (IF failed = "key" THEN {"key"} ELSE {})

\* Evidence with a signer-id (a non-zero SRK hash) never claims ASSEMBLY_AND_TEST,
\* even when fuses are programmed while cmd_get_cbor_evidence reads them: the
\* lifecycle is derived from a second, later read of the same fuses.
LifecycleNotBehindSigner ==
    pc = "copy" /\ lifecycle = "ASSEMBLY_AND_TEST" => \A w \in 1..SrkWords : signer[w] = 0

\* The measurement of a TA does not depend on where its regions were loaded, on
\* the order qsort leaves equal ones in or on its writable regions (cmp_regions and
\* is_region_valid).
MeasurementStable == pc = "copy" => \A l \in Layouts : Hashes(l) = {measurement}

\* The three 512-byte work buffers are large enough for every nonce of at most
\* MAX_NONCE_SIZE bytes, with the longest version string and client-id.
NonceFits == failed \in {"encode", "tbs", "finish"} => nonceLen > MAX_NONCE_SIZE
=============================================================================
