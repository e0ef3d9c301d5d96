--------------------------- MODULE EvidenceProofs ---------------------------
(***************************************************************************)
(* The safety of the evidence command, for any number of fuse words and    *)
(* fuses blown meanwhile, any lengths and any layout of the TA.            *)
(***************************************************************************)
EXTENDS Evidence, FiniteSetTheorems, TLAPS

-----------------------------------------------------------------------------
(* The order of the stages *)

\* No stage occurs twice.
LEMMA StagesDistinct == \A i, j \in 1..21 : Stages[i] = Stages[j] => i = j
  BY DEF Stages

\* After is the next stage of the list.
LEMMA AfterNext == ASSUME NEW i \in 1..20 PROVE After(Stages[i]) = Stages[i + 1]
  <1>1. DOMAIN Stages = 1..21
    BY DEF Stages
  <1> DEFINE c == CHOOSE j \in DOMAIN Stages : Stages[j] = Stages[i]
  <1>2. \E j \in DOMAIN Stages : Stages[j] = Stages[i]
    BY <1>1
  <1>3. c \in DOMAIN Stages /\ Stages[c] = Stages[i]
    BY <1>2
  <1>4. After(Stages[i]) = Stages[1 + c]
    BY DEF After
  <1> HIDE DEF c
  <1>5. c = i
    BY <1>1, <1>3, StagesDistinct
  <1> QED
    BY <1>4, <1>5

\* The successor of each stage.
LEMMA AfterStage ==
  /\ After("ta_open") = "ta_buffers"
  /\ After("ta_buffers") = "client_id"
  /\ After("client_id") = "key_param"
  /\ After("key_param") = "srk_hash"
  /\ After("srk_hash") = "lifecycle"
  /\ After("lifecycle") = "instance_id"
  /\ After("instance_id") = "hash_begin"
  /\ After("hash_begin") = "hash_ta"
  /\ After("hash_ta") = "hash_tee"
  /\ After("hash_tee") = "buffers"
  /\ After("buffers") = "encode"
  /\ After("encode") = "cose_buffers"
  /\ After("cose_buffers") = "tbs"
  /\ After("tbs") = "key"
  /\ After("key") = "sign"
  /\ After("sign") = "finish"
  /\ After("finish") = "copy"
  /\ After("copy") = "ta_copy"
  /\ After("ta_copy") = "cleanup"
  /\ After("cleanup") = "done"
  <1>1. \A i \in 1..20 : After(Stages[i]) = Stages[i + 1]
    BY AfterNext
  <1>2. /\ After(Stages[1]) = Stages[2] /\ After(Stages[2]) = Stages[3]
        /\ After(Stages[3]) = Stages[4] /\ After(Stages[4]) = Stages[5]
        /\ After(Stages[5]) = Stages[6] /\ After(Stages[6]) = Stages[7]
        /\ After(Stages[7]) = Stages[8] /\ After(Stages[8]) = Stages[9]
        /\ After(Stages[9]) = Stages[10] /\ After(Stages[10]) = Stages[11]
        /\ After(Stages[11]) = Stages[12] /\ After(Stages[12]) = Stages[13]
        /\ After(Stages[13]) = Stages[14] /\ After(Stages[14]) = Stages[15]
        /\ After(Stages[15]) = Stages[16] /\ After(Stages[16]) = Stages[17]
        /\ After(Stages[17]) = Stages[18] /\ After(Stages[18]) = Stages[19]
        /\ After(Stages[19]) = Stages[20] /\ After(Stages[20]) = Stages[21]
    BY <1>1
  <1> QED
    BY <1>2 DEF Stages

-----------------------------------------------------------------------------
(* The inductive invariant *)

\* What the TA holds from its allocations to its cleanup, and the key structure
\* sign_ecdsa_sha256 may leave behind.
TaHeld == {"sess"} \cup TaBuffers
Leaked == IF failed = "key" THEN {"key"} ELSE {}

\* What is held at each stage.
HeldInv ==
    /\ pc \notin {"cleanup", "done"} => failed = "none"
    /\ pc = "ta_open" => live = {}
    /\ pc = "ta_buffers" => live \subseteq {"sess"}
    /\ pc \in {"client_id", "key_param", "srk_hash", "lifecycle", "instance_id", "hash_begin",
               "hash_tee", "buffers", "ta_copy"} => live \subseteq TaHeld
    /\ pc = "hash_ta" => live \subseteq TaHeld \cup {"popped", "hash_ctx", "regions"}
    /\ pc \in {"encode", "cose_buffers", "finish", "copy"} =>
           live \subseteq TaHeld \cup {"heap_cbor", "heap_cose"}
    /\ pc \in {"tbs", "key"} => live \subseteq TaHeld \cup Heaps
    /\ pc = "sign" => live \subseteq TaHeld \cup Heaps \cup {"key", "bignums"}
    /\ pc = "cleanup" => live \subseteq TaHeld \cup Leaked
    /\ pc = "done" => live \subseteq Leaked

\* Fuses are never cleared, and are read for the signer-id first, from word 1 on.
BeforeSrk == {"ta_open", "ta_buffers", "client_id", "key_param"}

FuseInv ==
    /\ \A w \in 1..SrkWords : signer[w] = 1 => srk[w] = 1
    /\ pc \in BeforeSrk => word = 1
    /\ pc = "srk_hash" => word <= SrkWords
    /\ pc \in BeforeSrk \cup {"srk_hash", "lifecycle"} => lifecycle = "none"
    /\ pc = "lifecycle" /\ srkEmpty => \A w \in 1..SrkWords : w < word => signer[w] = 0
    /\ lifecycle = "ASSEMBLY_AND_TEST" => \A w \in 1..SrkWords : signer[w] = 0

\* The measurement is a hash of the layout the TA has.
Measured == {"hash_tee", "buffers", "encode", "cose_buffers", "tbs", "key", "sign", "finish", "copy"}
MeasureInv == pc \in Measured => measurement \in Hashes(layout)

IInv == TypeOK /\ HeldInv /\ FuseInv /\ MeasureInv /\ NonceFits

\* The labels, one by one.
LEMMA LabelSet ==
  Labels = {"ta_open", "ta_buffers", "client_id", "key_param", "srk_hash", "lifecycle",
            "instance_id", "hash_begin", "hash_ta", "hash_tee", "buffers", "encode",
            "cose_buffers", "tbs", "key", "sign", "finish", "copy", "ta_copy", "cleanup", "done"}
  <1>1. DOMAIN Stages = 1..21
    BY DEF Stages
  <1> QED
    BY <1>1 DEF Labels, Stages

\* Nothing is held, read or measured at the start.
LEMMA InitIInv == Init => IInv
  <1> SUFFICES ASSUME Init PROVE IInv
    OBVIOUS
  <1>1. TypeOK
    <2>1. blown \in 0..MaxBlown /\ word \in 1..(SrkWords + 1) /\ size \in 0..WORK_BUFFER_SIZE
      BY EvidenceAssumption DEF Init, WORK_BUFFER_SIZE
    <2>2. pc \in Labels /\ clientLen \in ClientLens /\ measurement \in Seq(Nat)
      BY LabelSet DEF Init, ClientLens
    <2> QED
      BY <2>1, <2>2 DEF Init, TypeOK, Lifecycles
  <1>2. HeldInv /\ MeasureInv /\ NonceFits
    BY DEF Init, HeldInv, MeasureInv, Measured, NonceFits
  <1>3. FuseInv
    BY EvidenceAssumption DEF Init, FuseInv, BeforeSrk
  <1> QED
    BY <1>1, <1>2, <1>3 DEF IInv

-----------------------------------------------------------------------------
(* Stages that succeed or fail *)

USE DEF inputVars, fuseVars, claimVars

\* A stage other than the ones that read fuses or measure, and what it does not touch.
LEMMA PlainStage ==
  ASSUME IInv, NEW l \in Labels \ {"srk_hash", "lifecycle", "hash_ta", "done"},
         NEW take \in SUBSET Resources, NEW give, Proceed(l, take, give),
         UNCHANGED <<signer, word, srkEmpty, lifecycle, measurement>>,
         clientLen' \in ClientLens, size' \in 0..WORK_BUFFER_SIZE
  PROVE  TypeOK' /\ FuseInv' /\ MeasureInv' /\ NonceFits'
  <1> USE DEF IInv
  <1>1. pc = l /\ pc' = After(l) /\ UNCHANGED <<failed, inputVars, fuseVars>>
    BY DEF Proceed
  <1>2. After(l) \in Labels
    BY AfterStage, LabelSet
  <1>3. live' \subseteq Resources
    BY DEF Proceed, TypeOK
  <1>4. TypeOK'
    BY <1>1, <1>2, <1>3 DEF TypeOK
  <1>5. /\ After(l) \in BeforeSrk => l \in BeforeSrk
        /\ After(l) = "srk_hash" => l \in BeforeSrk
        /\ After(l) # "lifecycle"
        /\ After(l) \in Measured => l \in Measured
    BY AfterStage, LabelSet DEF BeforeSrk, Measured
  <1>6. FuseInv'
    BY <1>1, <1>5, EvidenceAssumption DEF FuseInv
  <1>7. MeasureInv'
    BY <1>1, <1>5 DEF MeasureInv
  <1>8. NonceFits'
    BY <1>1 DEF NonceFits
  <1> QED
    BY <1>4, <1>6, <1>7, <1>8

\* A stage that fails leaves to the cleanup what the TA holds, and the key structure
\* at most.
LEMMA FailIInv ==
  ASSUME IInv, NEW l \in Labels, NEW took, NEW give, Fail(l, took, give),
         (live \cup took) \ give \subseteq TaHeld \cup (IF l = "key" THEN {"key"} ELSE {}),
         l \in {"encode", "tbs", "finish"} => nonceLen > MAX_NONCE_SIZE
  PROVE  IInv'
  <1> USE DEF IInv
  <1>1. /\ pc' = "cleanup" /\ failed' = l /\ UNCHANGED <<inputVars, fuseVars, claimVars>>
        /\ live' = (live \cup took) \ give
    BY DEF Fail
  <1>2. TaHeld' = TaHeld /\ Leaked' = IF l = "key" THEN {"key"} ELSE {}
    BY <1>1 DEF TaHeld, TaBuffers, Leaked
  <1>3. live' \subseteq Resources
    BY <1>1 DEF TaHeld, TaBuffers, Resources
  <1>4. TypeOK'
    BY <1>1, <1>3, LabelSet DEF TypeOK
  <1>5. HeldInv'
    BY <1>1, <1>2 DEF HeldInv
  <1>6. FuseInv' /\ MeasureInv' /\ NonceFits'
    BY <1>1 DEF FuseInv, BeforeSrk, MeasureInv, Measured, NonceFits
  <1> QED
    BY <1>4, <1>5, <1>6

-----------------------------------------------------------------------------
(* The stages, one by one *)

\* The stages of the TA before the PTA is called, and the ones that hold nothing when
\* they return.
LEMMA EarlyStageIInv ==
  ASSUME IInv,
         \/ OpenPta \/ TaAllocate \/ derive_client_id \/ BeginHashTa
         \/ Stage("key_param") \/ Stage("instance_id") \/ Stage("hash_tee")
  PROVE  IInv'
  <1> USE DEF IInv, HeldInv, TaHeld
  <1>0. /\ clientLen \in ClientLens /\ size \in 0..WORK_BUFFER_SIZE
        /\ UNCHANGED inputVars => TaBuffers' = TaBuffers
        /\ TaBuffers \subseteq Resources
    BY DEF TypeOK, TaBuffers, Resources
  <1>1. CASE OpenPta
    <2>1. CASE Proceed("ta_open", {"sess"}, {}) /\ UNCHANGED claimVars
      <3>1. TypeOK' /\ FuseInv' /\ MeasureInv' /\ NonceFits'
        BY <1>0, <2>1, PlainStage, LabelSet DEF Resources
      <3>2. HeldInv'
        BY <1>0, <2>1, AfterStage DEF Proceed
      <3> QED
        BY <3>1, <3>2
    <2>2. CASE Fail("ta_open", {}, {})
      BY <2>2, FailIInv, LabelSet DEF Fail
    <2> QED
      BY <1>1, <2>1, <2>2 DEF OpenPta
  <1>2. CASE TaAllocate
    <2>1. CASE Proceed("ta_buffers", TaBuffers, {}) /\ UNCHANGED claimVars
      <3>1. TypeOK' /\ FuseInv' /\ MeasureInv' /\ NonceFits'
        BY <1>0, <2>1, PlainStage, LabelSet
      <3>2. HeldInv'
        BY <1>0, <2>1, AfterStage DEF Proceed
      <3> QED
        BY <3>1, <3>2
    <2>2. ASSUME NEW took \in {{}, {"nonce_buf"}, {"nonce_buf", "out_buf"} \cap TaBuffers},
                 Fail("ta_buffers", took, {})
          PROVE  IInv'
      <3>1. took \subseteq TaHeld
        BY DEF TaBuffers
      <3> QED
        BY <2>2, <3>1, FailIInv, LabelSet DEF Fail
    <2> QED
      BY <1>2, <2>1, <2>2 DEF TaAllocate
  <1>3. CASE derive_client_id
    <2>1. TypeOK' /\ FuseInv' /\ MeasureInv' /\ NonceFits'
      BY <1>0, <1>3, PlainStage, LabelSet DEF derive_client_id
    <2>2. HeldInv'
      BY <1>0, <1>3, AfterStage DEF derive_client_id, Proceed
    <2> QED
      BY <2>1, <2>2
  <1>4. CASE BeginHashTa
    <2>1. CASE Proceed("hash_begin", {"popped", "hash_ctx", "regions"}, {}) /\ UNCHANGED claimVars
      <3>1. TypeOK' /\ FuseInv' /\ MeasureInv' /\ NonceFits'
        BY <1>0, <2>1, PlainStage, LabelSet DEF Resources
      <3>2. HeldInv'
        BY <1>0, <2>1, AfterStage DEF Proceed
      <3> QED
        BY <3>1, <3>2
    <2>2. CASE Fail("hash_begin", {}, {})
      BY <2>2, FailIInv, LabelSet DEF Fail
    <2> QED
      BY <1>4, <2>1, <2>2 DEF BeginHashTa
  <1>5. ASSUME NEW l \in {"key_param", "instance_id", "hash_tee"}, Stage(l) PROVE IInv'
    <2>1. CASE Proceed(l, {}, {}) /\ UNCHANGED claimVars
      <3>1. TypeOK' /\ FuseInv' /\ MeasureInv' /\ NonceFits'
        BY <1>0, <2>1, PlainStage, LabelSet
      <3>2. HeldInv'
        BY <1>0, <2>1, AfterStage DEF Proceed
      <3> QED
        BY <3>1, <3>2
    <2>2. CASE Fail(l, {}, {})
      BY <2>2, FailIInv, LabelSet DEF Fail
    <2> QED
      BY <1>5, <2>1, <2>2 DEF Stage
  <1> QED
    BY <1>1, <1>2, <1>3, <1>4, <1>5

\* Reading the SRK words: what was read as programmed is programmed.
LEMMA ReadSrkWordIInv == ASSUME IInv, ReadSrkWord PROVE IInv'
  <1> USE DEF IInv
  <1>1. CASE Fail("srk_hash", {}, {})
    BY <1>1, FailIInv, LabelSet DEF Fail, HeldInv
  <1>2. CASE ~Fail("srk_hash", {}, {})
    <2>1. /\ pc = "srk_hash"
          /\ signer' = [signer EXCEPT ![word] = srk[word]]
          /\ \/ word = SrkWords /\ word' = 1 /\ pc' = "lifecycle"
             \/ word # SrkWords /\ word' = word + 1 /\ UNCHANGED pc
          /\ UNCHANGED <<live, failed, inputVars, fuseVars, srkEmpty, lifecycle, clientLen,
                         measurement, size>>
      BY <1>2, AfterStage DEF ReadSrkWord
    <2>2. word \in 1..SrkWords /\ lifecycle = "none"
      BY <2>1 DEF FuseInv, TypeOK
    <2>3. TypeOK'
      BY <2>1, <2>2, LabelSet, EvidenceAssumption DEF TypeOK
    <2>4. HeldInv'
      BY <2>1 DEF HeldInv, TaHeld, TaBuffers
    <2>5. FuseInv'
      BY <2>1, <2>2, EvidenceAssumption DEF FuseInv, BeforeSrk, TypeOK
    <2>6. MeasureInv' /\ NonceFits'
      BY <2>1 DEF MeasureInv, Measured, NonceFits
    <2> QED
      BY <2>3, <2>4, <2>5, <2>6
  <1> QED
    BY <1>1, <1>2

\* Reading them again for the lifecycle: a word that reads empty now was empty before.
LEMMA ReadLifecycleIInv == ASSUME IInv, ReadLifecycle PROVE IInv'
  <1> USE DEF IInv
  <1>1. CASE Fail("lifecycle", {}, {})
    BY <1>1, FailIInv, LabelSet DEF Fail, HeldInv
  <1>2. ASSUME pc = "lifecycle", word <= SrkWords, word' = word + 1,
               srkEmpty' = (srkEmpty /\ srk[word] = 0),
               UNCHANGED <<pc, live, failed, inputVars, fuseVars, signer, lifecycle, clientLen,
                           measurement, size>>
        PROVE  IInv'
    <2>1. word \in 1..SrkWords /\ word' \in 1..(SrkWords + 1)
      BY <1>2, EvidenceAssumption DEF TypeOK
    <2>2. srkEmpty' \in BOOLEAN
      BY <1>2
    <2>3. TypeOK'
      BY <1>2, <2>1, <2>2 DEF TypeOK
    <2>4. srkEmpty' => srkEmpty /\ signer[word] = 0
      <3>1. srkEmpty' => srkEmpty /\ srk[word] = 0
        BY <1>2
      <3>2. srk[word] = 0 => signer[word] = 0
        BY <2>1 DEF FuseInv, TypeOK
      <3> QED
        BY <3>1, <3>2
    <2>5. srkEmpty' => \A w \in 1..SrkWords : w < word' => signer'[w] = 0
      <3>1. SUFFICES ASSUME srkEmpty', NEW w \in 1..SrkWords, w < word' PROVE signer[w] = 0
        BY <1>2
      <3>2. w < word \/ w = word
        BY <1>2, <2>1, <3>1
      <3> QED
        BY <1>2, <2>4, <3>1, <3>2 DEF FuseInv
    <2>6. FuseInv'
      BY <1>2, <2>5 DEF FuseInv, BeforeSrk
    <2>7. HeldInv' /\ MeasureInv' /\ NonceFits'
      BY <1>2 DEF HeldInv, TaHeld, TaBuffers, MeasureInv, Measured, NonceFits
    <2> QED
      BY <2>3, <2>6, <2>7
  <1>3. ASSUME word = SrkWords + 1, Proceed("lifecycle", {}, {}),
               lifecycle' = Lifecycle(srkEmpty, closed), word' = 1,
               UNCHANGED <<signer, srkEmpty, clientLen, measurement, size>>
        PROVE  IInv'
    <2>1. /\ pc = "lifecycle" /\ pc' = "instance_id" /\ live' = live
          /\ UNCHANGED <<failed, inputVars, fuseVars>>
      BY <1>3, AfterStage DEF Proceed
    <2>2. lifecycle' \in Lifecycles /\ (lifecycle' = "ASSEMBLY_AND_TEST" => srkEmpty)
      BY <1>3 DEF Lifecycle, Lifecycles
    <2>3. TypeOK'
      BY <1>3, <2>1, <2>2, LabelSet, EvidenceAssumption DEF TypeOK
    <2>4. \A w \in 1..SrkWords : w < word
      BY <1>3, EvidenceAssumption
    <2>5. FuseInv'
      BY <1>3, <2>1, <2>2, <2>4 DEF FuseInv, BeforeSrk
    <2>6. HeldInv' /\ MeasureInv' /\ NonceFits'
      BY <1>3, <2>1 DEF HeldInv, TaHeld, TaBuffers, MeasureInv, Measured, NonceFits
    <2> QED
      BY <2>3, <2>5, <2>6
  <1> QED
    BY <1>1, <1>2, <1>3 DEF ReadLifecycle

\* There are finitely many regions, and what is hashed of them is a sequence.
LEMMA RegionsFinite ==
  ASSUME NEW l \in Layouts
  PROVE  /\ IsFiniteSet(ValidRegions(l))
         /\ Cardinality(ValidRegions(l)) \in Nat
         /\ \A i \in ValidRegions(l) : l[i].size \in Nat /\ l[i].bytes \in Nat
  <1>1. l \in Seq(Region)
    BY EvidenceAssumption
  <1>2. IsFiniteSet(1..Len(l)) /\ ValidRegions(l) \subseteq 1..Len(l)
    BY <1>1, FS_Interval DEF ValidRegions
  <1>3. IsFiniteSet(ValidRegions(l))
    BY <1>2, FS_Subset
  <1>4. Cardinality(ValidRegions(l)) \in Nat
    BY <1>3, FS_CardinalityType
  <1>5. \A i \in ValidRegions(l) : l[i] \in Region
    BY <1>1, <1>2
  <1> QED
    BY <1>3, <1>4, <1>5 DEF Region

\* A hash is over a sequence of contents.
LEMMA HashType == ASSUME NEW l \in Layouts PROVE Hashes(l) \subseteq Seq(Nat)
  <1> SUFFICES ASSUME NEW p \in Orders(l) PROVE [i \in DOMAIN p |-> l[p[i]].bytes] \in Seq(Nat)
    BY DEF Hashes
  <1> DEFINE n == Cardinality(ValidRegions(l))
  <1>1. p \in [1..n -> ValidRegions(l)] /\ n \in Nat
    BY RegionsFinite DEF Orders
  <1>2. \A i \in 1..n : l[p[i]].bytes \in Nat
    BY <1>1, RegionsFinite
  <1> HIDE DEF n
  <1>3. DOMAIN p = 1..n
    BY <1>1
  <1>4. [i \in 1..n |-> l[p[i]].bytes] \in [1..n -> Nat]
    BY <1>2
  <1> QED
    BY <1>1, <1>3, <1>4

\* The TA is measured, and the place in the session stack given back either way.
LEMMA HashRegionsIInv == ASSUME IInv, hash_regions PROVE IInv'
  <1> USE DEF IInv
  <1>1. CASE Fail("hash_ta", {}, {"popped", "hash_ctx", "regions"})
    <2>1. (live \cup {}) \ {"popped", "hash_ctx", "regions"} \subseteq TaHeld
      BY <1>1 DEF Fail, HeldInv
    <2> QED
      BY <1>1, <2>1, FailIInv, LabelSet
  <1>2. CASE ~Fail("hash_ta", {}, {"popped", "hash_ctx", "regions"})
    <2>1. /\ pc = "hash_ta" /\ pc' = "hash_tee"
          /\ live' = live \ {"popped", "hash_ctx", "regions"}
          /\ UNCHANGED <<failed, inputVars, fuseVars>>
          /\ measurement' \in Hashes(layout)
          /\ UNCHANGED <<signer, word, srkEmpty, lifecycle, clientLen, size>>
      BY <1>2, AfterStage DEF hash_regions, Proceed
    <2>2. measurement' \in Seq(Nat)
      BY <2>1, HashType DEF TypeOK
    <2>3. TypeOK'
      BY <2>1, <2>2, LabelSet DEF TypeOK
    <2>4. HeldInv'
      BY <2>1 DEF HeldInv, TaHeld, TaBuffers
    <2>5. FuseInv' /\ MeasureInv' /\ NonceFits'
      BY <2>1 DEF FuseInv, BeforeSrk, MeasureInv, NonceFits
    <2> QED
      BY <2>3, <2>4, <2>5
  <1> QED
    BY <1>1, <1>2

\* The work buffers are large enough for every nonce the PTA documents, with the
\* longest version string and client-id.
LEMMA LengthsFit ==
  ASSUME TypeOK, nonceLen <= MAX_NONCE_SIZE
  PROVE  /\ payload <= WORK_BUFFER_SIZE
         /\ TbsLen(payload) <= WORK_BUFFER_SIZE
         /\ CoseLen(payload) <= WORK_BUFFER_SIZE
  <1> DEFINE L == StringLen(payload)
  <1>1. nonceLen \in 0..64 /\ versionLen \in 0..31 /\ clientLen \in 0..5
    BY EvidenceAssumption DEF TypeOK, MAX_NONCE_SIZE, OS_VERSION_MAX_LEN, ClientLens
  <1>2. \A n \in 0..64 : HeadLen(n) \in 1..2
    BY DEF HeadLen
  <1>3. StringLen(nonceLen) \in 0..66 /\ StringLen(versionLen) \in 0..33
    BY <1>1, <1>2 DEF StringLen
  <1>4. payload \in Nat /\ payload <= 378
    BY <1>1, <1>3 DEF payload, PayloadLen, ComponentLen, StringLen, HeadLen
  <1>5. L \in Nat /\ L <= 381
    BY <1>4 DEF StringLen, HeadLen
  <1>6. /\ StringLen(0) = 1 /\ StringLen(ProtectedLen) = 4 /\ StringLen(10) = 11
        /\ StringLen(64) = 66
    BY DEF StringLen, HeadLen, ProtectedLen
  <1>7. TbsLen(payload) = 1 + 11 + 4 + 1 + L /\ CoseLen(payload) = 1 + 1 + 4 + 1 + L + 66
    BY <1>6 DEF TbsLen, CoseLen
  <1> HIDE DEF L
  <1>8. TbsLen(payload) <= 512 /\ CoseLen(payload) <= 512
    BY <1>5, <1>7
  <1> QED
    BY <1>4, <1>8 DEF WORK_BUFFER_SIZE

\* The three lengths are numbers for any input.
LEMMA LengthsType ==
  ASSUME TypeOK PROVE payload \in Nat /\ TbsLen(payload) \in Nat /\ CoseLen(payload) \in Nat
  <1>1. nonceLen \in Nat /\ versionLen \in Nat /\ clientLen \in Nat
    BY EvidenceAssumption DEF TypeOK, OS_VERSION_MAX_LEN, ClientLens
  <1>2. \A n \in Nat : StringLen(n) \in Nat
    BY DEF StringLen, HeadLen
  <1>3. payload \in Nat
    BY <1>1, <1>2 DEF payload, PayloadLen, ComponentLen
  <1> QED
    BY <1>2, <1>3 DEF TbsLen, CoseLen, ProtectedLen

\* Encoding and signing: buffers and key are released on every way out but one.
LEMMA EncodeStageIInv ==
  ASSUME IInv, AllocateBuffers \/ Encode \/ CoseBuffers \/ CreateTbs \/ AllocateKey \/ Sign
  PROVE  IInv'
  <1> USE DEF IInv, HeldInv
  <1>0. /\ clientLen \in ClientLens /\ size \in 0..WORK_BUFFER_SIZE /\ nonceLen \in Nat
        /\ UNCHANGED inputVars => TaHeld' = TaHeld
        /\ Heaps \cup {"key", "bignums"} \subseteq Resources
        /\ {"heap_cbor", "heap_cose"} \subseteq Heaps
    BY EvidenceAssumption DEF TypeOK, TaHeld, TaBuffers, Resources, Heaps
  <1>1. \/ nonceLen > MAX_NONCE_SIZE
        \/ payload <= WORK_BUFFER_SIZE /\ TbsLen(payload) <= WORK_BUFFER_SIZE
    BY <1>0, LengthsFit DEF MAX_NONCE_SIZE
  <1>2. CASE AllocateBuffers
    <2>1. CASE Proceed("buffers", {"heap_cbor", "heap_cose"}, {}) /\ UNCHANGED claimVars
      <3>1. TypeOK' /\ FuseInv' /\ MeasureInv' /\ NonceFits'
        BY <1>0, <2>1, PlainStage, LabelSet
      <3>2. HeldInv'
        BY <1>0, <2>1, AfterStage DEF Proceed
      <3> QED
        BY <3>1, <3>2
    <2>2. CASE Fail("buffers", {}, {})
      BY <2>2, FailIInv, LabelSet DEF Fail
    <2> QED
      BY <1>2, <2>1, <2>2 DEF AllocateBuffers
  <1>3. CASE Encode
    <2>1. CASE Proceed("encode", {}, {}) /\ UNCHANGED claimVars
      <3>1. TypeOK' /\ FuseInv' /\ MeasureInv' /\ NonceFits'
        BY <1>0, <2>1, PlainStage, LabelSet
      <3>2. HeldInv'
        BY <1>0, <2>1, AfterStage DEF Proceed
      <3> QED
        BY <3>1, <3>2
    <2>2. CASE payload > WORK_BUFFER_SIZE /\ Fail("encode", {}, {"heap_cbor", "heap_cose"})
      <3>1. (live \cup {}) \ {"heap_cbor", "heap_cose"} \subseteq TaHeld
        BY <2>2 DEF Fail
      <3>2. nonceLen > MAX_NONCE_SIZE
        BY <1>1, <2>2, LengthsType DEF WORK_BUFFER_SIZE
      <3> QED
        BY <2>2, <3>1, <3>2, FailIInv, LabelSet
    <2> QED
      BY <1>3, <2>1, <2>2 DEF Encode
  <1>4. CASE CoseBuffers
    <2>1. CASE Proceed("cose_buffers", {"heap_prot", "heap_tbs"}, {}) /\ UNCHANGED claimVars
      <3>1. TypeOK' /\ FuseInv' /\ MeasureInv' /\ NonceFits'
        BY <1>0, <2>1, PlainStage, LabelSet DEF Heaps
      <3>2. HeldInv'
        BY <1>0, <2>1, AfterStage DEF Proceed, Heaps
      <3> QED
        BY <3>1, <3>2
    <2>2. CASE Fail("cose_buffers", {}, Heaps)
      <3>1. (live \cup {}) \ Heaps \subseteq TaHeld
        BY <1>0, <2>2 DEF Fail
      <3> QED
        BY <2>2, <3>1, FailIInv, LabelSet
    <2> QED
      BY <1>4, <2>1, <2>2 DEF CoseBuffers
  <1>5. CASE CreateTbs
    <2>1. CASE Proceed("tbs", {}, {}) /\ UNCHANGED claimVars
      <3>1. TypeOK' /\ FuseInv' /\ MeasureInv' /\ NonceFits'
        BY <1>0, <2>1, PlainStage, LabelSet
      <3>2. HeldInv'
        BY <1>0, <2>1, AfterStage DEF Proceed, Heaps
      <3> QED
        BY <3>1, <3>2
    <2>2. CASE TbsLen(payload) > WORK_BUFFER_SIZE /\ Fail("tbs", {}, Heaps)
      <3>1. (live \cup {}) \ Heaps \subseteq TaHeld
        BY <2>2 DEF Fail
      <3>2. nonceLen > MAX_NONCE_SIZE
        BY <1>1, <2>2, LengthsType DEF WORK_BUFFER_SIZE
      <3> QED
        BY <2>2, <3>1, <3>2, FailIInv, LabelSet
    <2> QED
      BY <1>5, <2>1, <2>2 DEF CreateTbs
  <1>6. CASE AllocateKey
    <2>1. CASE Proceed("key", {"key", "bignums"}, {}) /\ UNCHANGED claimVars
      <3>1. TypeOK' /\ FuseInv' /\ MeasureInv' /\ NonceFits'
        BY <1>0, <2>1, PlainStage, LabelSet
      <3>2. HeldInv'
        BY <1>0, <2>1, AfterStage DEF Proceed
      <3> QED
        BY <3>1, <3>2
    <2>2. ASSUME NEW took \in {{}, {"key"}}, Fail("key", took, Heaps) PROVE IInv'
      <3>1. (live \cup took) \ Heaps \subseteq TaHeld \cup {"key"}
        BY <2>2 DEF Fail
      <3> QED
        BY <2>2, <3>1, FailIInv, LabelSet
    <2> QED
      BY <1>6, <2>1, <2>2 DEF AllocateKey
  <1>7. CASE Sign
    <2>1. CASE Proceed("sign", {}, {"key", "bignums", "heap_prot", "heap_tbs"}) /\ UNCHANGED claimVars
      <3>1. TypeOK' /\ FuseInv' /\ MeasureInv' /\ NonceFits'
        BY <1>0, <2>1, PlainStage, LabelSet
      <3>2. HeldInv'
        BY <1>0, <2>1, AfterStage DEF Proceed, Heaps
      <3> QED
        BY <3>1, <3>2
    <2>2. CASE Fail("sign", {}, Heaps \cup {"key", "bignums"})
      <3>1. (live \cup {}) \ (Heaps \cup {"key", "bignums"}) \subseteq TaHeld
        BY <2>2 DEF Fail
      <3> QED
        BY <2>2, <3>1, FailIInv, LabelSet
    <2> QED
      BY <1>7, <2>1, <2>2 DEF Sign
  <1> QED
    BY <1>2, <1>3, <1>4, <1>5, <1>6, <1>7

\* The evidence is finished, handed over and everything else given back.
LEMMA LateStageIInv ==
  ASSUME IInv, FinishCose \/ CopyOut \/ TaCopyOut \/ Cleanup
  PROVE  IInv'
  <1> USE DEF IInv, HeldInv
  <1>0. /\ clientLen \in ClientLens /\ size \in 0..WORK_BUFFER_SIZE /\ nonceLen \in Nat
        /\ UNCHANGED inputVars => TaHeld' = TaHeld
        /\ UNCHANGED failed => Leaked' = Leaked
        /\ {"heap_cbor", "heap_cose"} \subseteq Heaps
    BY EvidenceAssumption DEF TypeOK, TaHeld, TaBuffers, Leaked, Heaps
  <1>1. CASE FinishCose
    <2>1. CASE /\ CoseLen(payload) <= WORK_BUFFER_SIZE
               /\ Proceed("finish", {}, {})
               /\ size' = CoseLen(payload)
               /\ UNCHANGED <<signer, word, srkEmpty, lifecycle, clientLen, measurement>>
      <3>1. size' \in 0..WORK_BUFFER_SIZE
        BY <2>1, LengthsType DEF WORK_BUFFER_SIZE
      <3>2. TypeOK' /\ FuseInv' /\ MeasureInv' /\ NonceFits'
        BY <1>0, <2>1, <3>1, PlainStage, LabelSet
      <3>3. HeldInv'
        BY <1>0, <2>1, AfterStage DEF Proceed
      <3> QED
        BY <3>2, <3>3
    <2>2. CASE CoseLen(payload) > WORK_BUFFER_SIZE /\ Fail("finish", {}, Heaps)
      <3>1. (live \cup {}) \ Heaps \subseteq TaHeld
        BY <1>0, <2>2 DEF Fail
      <3>2. nonceLen > MAX_NONCE_SIZE
        BY <1>0, <2>2, LengthsFit, LengthsType DEF WORK_BUFFER_SIZE, MAX_NONCE_SIZE
      <3> QED
        BY <2>2, <3>1, <3>2, FailIInv, LabelSet
    <2> QED
      BY <1>1, <2>1, <2>2 DEF FinishCose
  <1>2. CASE CopyOut
    <2>1. CASE Proceed("copy", {}, {"heap_cbor", "heap_cose"}) /\ UNCHANGED claimVars
      <3>1. TypeOK' /\ FuseInv' /\ MeasureInv' /\ NonceFits'
        BY <1>0, <2>1, PlainStage, LabelSet
      <3>2. HeldInv'
        BY <1>0, <2>1, AfterStage DEF Proceed
      <3> QED
        BY <3>1, <3>2
    <2>2. CASE pc = "copy" /\ pc' = "abort" /\ UNCHANGED <<live, failed, inputVars, fuseVars, claimVars>>
      BY <2>2 DEF TypeOK, FuseInv, BeforeSrk, MeasureInv, Measured, NonceFits
    <2> QED
      BY <1>2, <2>1, <2>2 DEF CopyOut
  <1>3. CASE TaCopyOut
    <2>1. CASE Proceed("ta_copy", {}, {}) /\ UNCHANGED claimVars
      <3>1. TypeOK' /\ FuseInv' /\ MeasureInv' /\ NonceFits'
        BY <1>0, <2>1, PlainStage, LabelSet
      <3>2. HeldInv'
        BY <1>0, <2>1, AfterStage DEF Proceed
      <3> QED
        BY <3>1, <3>2
    <2>2. CASE Fail("ta_copy", {}, {})
      BY <2>2, FailIInv, LabelSet DEF Fail
    <2> QED
      BY <1>3, <2>1, <2>2 DEF TaCopyOut
  <1>4. CASE Cleanup
    <2>1. TypeOK' /\ FuseInv' /\ MeasureInv' /\ NonceFits'
      BY <1>0, <1>4, PlainStage, LabelSet DEF Cleanup
    <2>2. HeldInv'
      BY <1>0, <1>4, AfterStage DEF Cleanup, Proceed, TaHeld
    <2> QED
      BY <2>1, <2>2
  <1> QED
    BY <1>1, <1>2, <1>3, <1>4

\* A fuse that is blown stays blown.
LEMMA BlowFuseIInv == ASSUME IInv, BlowFuse PROVE IInv'
  <1> USE DEF IInv
  <1>1. /\ blown' \in 0..MaxBlown /\ srk' \in [1..SrkWords -> {0, 1}] /\ closed' \in BOOLEAN
        /\ \A w \in 1..SrkWords : srk[w] = 1 => srk'[w] = 1
    <2>1. blown' \in 0..MaxBlown
      BY EvidenceAssumption DEF BlowFuse, TypeOK
    <2>2. CASE \E w \in 1..SrkWords : srk[w] = 0 /\ srk' = [srk EXCEPT ![w] = 1] /\ UNCHANGED closed
      BY <2>1, <2>2 DEF TypeOK
    <2>3. CASE closed' = TRUE /\ UNCHANGED srk
      BY <2>1, <2>3 DEF TypeOK
    <2> QED
      BY <2>2, <2>3 DEF BlowFuse
  <1>2. UNCHANGED <<inputVars, pc, live, failed, claimVars>>
    BY DEF BlowFuse
  <1>3. TypeOK' /\ MeasureInv' /\ NonceFits'
    BY <1>1, <1>2 DEF TypeOK, MeasureInv, NonceFits
  <1>4. HeldInv'
    BY <1>2 DEF HeldInv, TaHeld, TaBuffers, Leaked
  <1>5. FuseInv'
    BY <1>1, <1>2 DEF FuseInv
  <1> QED
    BY <1>3, <1>4, <1>5

\* Every step keeps the inductive invariant.
LEMMA NextIInv == IInv /\ [Next]_vars => IInv'
  <1> SUFFICES ASSUME IInv, [Next]_vars PROVE IInv'
    OBVIOUS
  <1>1. CASE UNCHANGED vars
    <2>1. TypeOK' /\ MeasureInv' /\ NonceFits'
      BY <1>1 DEF vars, IInv, TypeOK, MeasureInv, NonceFits
    <2>2. HeldInv'
      BY <1>1 DEF vars, IInv, HeldInv, TaHeld, TaBuffers, Leaked
    <2>3. FuseInv'
      BY <1>1 DEF vars, IInv, FuseInv
    <2> QED
      BY <2>1, <2>2, <2>3 DEF IInv
  <1> QED
    BY <1>1, EarlyStageIInv, ReadSrkWordIInv, ReadLifecycleIInv, HashRegionsIInv, EncodeStageIInv,
       LateStageIInv, BlowFuseIInv DEF Next

-----------------------------------------------------------------------------
\* The inductive invariant holds in every reachable state.
THEOREM EvidenceInvariant == Spec => []IInv
  BY InitIInv, NextIInv, PTL DEF Spec

\* Evidence never exceeds the work buffers, and every variable has its type.
THEOREM EvidenceTyped == Spec => []TypeOK
  <1>1. IInv => TypeOK
    BY DEF IInv
  <1> QED
    BY <1>1, EvidenceInvariant, PTL

\* Whatever stage fails, nothing the command took stays taken but, at one place in
\* sign_ecdsa_sha256, the key structure.
THEOREM AllIsReleased == Spec => []ResourcesReleased
  <1>1. IInv => ResourcesReleased
    BY DEF IInv, HeldInv, Leaked, ResourcesReleased
  <1> QED
    BY <1>1, EvidenceInvariant, PTL

\* However fuses are programmed while they are read, and however many there are, evidence
\* with a signer-id never claims the lifecycle of an unprogrammed device.
THEOREM LifecycleIsNotBehind == Spec => []LifecycleNotBehindSigner
  <1>1. IInv => LifecycleNotBehindSigner
    BY DEF IInv, FuseInv, LifecycleNotBehindSigner
  <1> QED
    BY <1>1, EvidenceInvariant, PTL

\* Every nonce the PTA documents fits, whatever version string and client-id it comes with.
THEOREM EveryNonceFits == Spec => []NonceFits
  <1>1. IInv => NonceFits
    BY DEF IInv
  <1> QED
    BY <1>1, EvidenceInvariant, PTL

-----------------------------------------------------------------------------
(* The measurement does not depend on the layout *)

\* Two loads of a TA have the same number of read-only regions.
LEMMA SameNumber ==
  ASSUME NEW l \in Layouts, NEW m \in Layouts
  PROVE  Cardinality(ValidRegions(l)) = Cardinality(ValidRegions(m))
  <1>1. ExistsBijection(ValidRegions(l), ValidRegions(m))
    BY EvidenceAssumption DEF SameRegions, ExistsBijection
  <1> QED
    BY <1>1, RegionsFinite, FS_Bijection

\* An order visits every region.
LEMMA OrderCovers ==
  ASSUME NEW m \in Layouts, NEW q \in Orders(m)
  PROVE  \A r \in ValidRegions(m) : \E j \in 1..Cardinality(ValidRegions(m)) : q[j] = r
  <1> DEFINE n == Cardinality(ValidRegions(m))
  <1>1. /\ n \in Nat /\ IsFiniteSet(ValidRegions(m)) /\ IsFiniteSet(1..n)
        /\ Cardinality(1..n) = n
    BY RegionsFinite, FS_Interval
  <1>2. q \in [1..n -> ValidRegions(m)] /\ \A i, j \in 1..n : i < j => q[i] # q[j]
    BY DEF Orders
  <1>3. n = Cardinality(ValidRegions(m))
    OBVIOUS
  <1> HIDE DEF n
  <1>4. q \in Injection(1..n, ValidRegions(m))
    BY <1>1, <1>2 DEF Injection, IsInjective
  <1>5. q \in Surjection(1..n, ValidRegions(m))
    BY <1>1, <1>3, <1>4, FS_Injection
  <1> QED
    BY <1>3, <1>5 DEF Surjection

\* The i-th region in one order is not smaller than the i-th in another: otherwise the
\* first i regions of the one would have to be among the first i - 1 of the other.
LEMMA NotSmaller ==
  ASSUME NEW l \in Layouts, NEW m \in Layouts, NEW p \in Orders(l), NEW q \in Orders(m),
         NEW i \in 1..Cardinality(ValidRegions(l))
  PROVE  ~cmp_regions(l[p[i]], m[q[i]])
  <1> SUFFICES ASSUME cmp_regions(l[p[i]], m[q[i]]) PROVE FALSE
    OBVIOUS
  <1> DEFINE n == Cardinality(ValidRegions(l))
  <1>1. n = Cardinality(ValidRegions(m)) /\ n \in Nat /\ i \in 1..n
    BY SameNumber, RegionsFinite
  <1>2. PICK f \in Bijection(ValidRegions(l), ValidRegions(m)) :
          \A r \in ValidRegions(l) : m[f[r]].size = l[r].size /\ m[f[r]].bytes = l[r].bytes
    BY EvidenceAssumption DEF SameRegions
  <1>3. /\ p \in [1..n -> ValidRegions(l)]
        /\ \A k, j \in 1..n : k < j => p[k] # p[j] /\ ~cmp_regions(l[p[j]], l[p[k]])
    BY DEF Orders
  <1>4. /\ q \in [1..n -> ValidRegions(m)]
        /\ \A k, j \in 1..n : k < j => q[k] # q[j] /\ ~cmp_regions(m[q[j]], m[q[k]])
    BY <1>1 DEF Orders
  <1>5. \A r \in ValidRegions(m) : \E j \in 1..n : q[j] = r
    BY <1>1, OrderCovers
  <1>6. /\ \A r \in ValidRegions(l) : l[r].size \in Nat /\ l[r].bytes \in Nat
        /\ \A r \in ValidRegions(m) : m[r].size \in Nat /\ m[r].bytes \in Nat
    BY RegionsFinite
  <1>7. /\ f \in [ValidRegions(l) -> ValidRegions(m)]
        /\ \A r, t \in ValidRegions(l) : f[r] = f[t] => r = t
    BY <1>2 DEF Bijection, Injection, IsInjective
  <1> HIDE DEF n
  <1>8. ASSUME NEW k \in 1..i PROVE \E j \in 1..(i - 1) : q[j] = f[p[k]]
    <2>1. k \in 1..n /\ p[k] \in ValidRegions(l) /\ p[i] \in ValidRegions(l) /\ q[i] \in ValidRegions(m)
      BY <1>1, <1>3, <1>4, <1>8
    <2>2. PICK j \in 1..n : q[j] = f[p[k]]
      BY <1>5, <1>7, <2>1
    <2>3. m[q[j]].size = l[p[k]].size /\ m[q[j]].bytes = l[p[k]].bytes
      BY <1>2, <2>1, <2>2
    <2>4. ~cmp_regions(l[p[i]], l[p[k]])
      <3>1. CASE k < i
        BY <1>1, <1>3, <2>1, <3>1
      <3>2. CASE k = i
        BY <1>6, <2>1, <3>2 DEF cmp_regions
      <3> QED
        BY <1>1, <1>8, <3>1, <3>2
    <2>5. cmp_regions(m[q[j]], m[q[i]])
      BY <1>6, <2>1, <2>3, <2>4 DEF cmp_regions
    <2>6. j # i
      BY <1>6, <2>1, <2>5 DEF cmp_regions
    <2>7. ~(i < j)
      BY <1>1, <1>4, <2>5
    <2>8. j \in 1..(i - 1)
      BY <1>1, <2>6, <2>7
    <2> QED
      BY <2>2, <2>8
  <1> DEFINE g == [k \in 1..i |-> CHOOSE j \in 1..(i - 1) : q[j] = f[p[k]]]
  <1>9. \A k \in 1..i : g[k] \in 1..(i - 1) /\ q[g[k]] = f[p[k]]
    BY <1>8
  <1>10. g \in [1..i -> 1..(i - 1)]
    BY <1>9
  <1> HIDE DEF g
  <1>11. /\ IsFiniteSet(1..i) /\ IsFiniteSet(1..(i - 1))
         /\ Cardinality(1..(i - 1)) < Cardinality(1..i)
    <2>1. i \in Nat /\ i >= 1
      BY <1>1
    <2>2. Cardinality(1..i) = i /\ Cardinality(1..(i - 1)) = i - 1
      BY <2>1, FS_Interval
    <2> QED
      BY <2>1, <2>2, FS_Interval
  <1>12. PICK x, y \in 1..i : x # y /\ g[x] = g[y]
    BY <1>10, <1>11, FS_PigeonHole
  <1>13. f[p[x]] = f[p[y]] /\ x \in 1..n /\ y \in 1..n
    BY <1>1, <1>9, <1>12
  <1>14. p[x] = p[y]
    BY <1>3, <1>7, <1>13
  <1> QED
    BY <1>1, <1>3, <1>12, <1>13, <1>14

\* Every load of the TA, in whatever order its regions lie and qsort leaves equal ones,
\* hashes to the same value.
LEMMA HashesAgree ==
  ASSUME NEW l \in Layouts, NEW m \in Layouts, NEW h \in Hashes(l)
  PROVE  Hashes(m) = {h}
  <1> DEFINE n == Cardinality(ValidRegions(l))
  <1>1. n = Cardinality(ValidRegions(m)) /\ n \in Nat
    BY SameNumber, RegionsFinite
  <1>2. PICK p \in Orders(l) : h = [i \in DOMAIN p |-> l[p[i]].bytes]
    BY DEF Hashes
  <1>3. /\ p \in [1..n -> ValidRegions(l)]
        /\ \A k, j \in 1..n : k < j => p[k] # p[j] /\ ~cmp_regions(l[p[j]], l[p[k]])
    BY DEF Orders
  <1>4. ASSUME NEW q \in Orders(m) PROVE [i \in DOMAIN q |-> m[q[i]].bytes] = h
    <2>1. q \in [1..n -> ValidRegions(m)]
      BY <1>1 DEF Orders
    <2>2. ASSUME NEW i \in 1..n PROVE m[q[i]].bytes = l[p[i]].bytes
      <3>1. ~cmp_regions(l[p[i]], m[q[i]])
        BY NotSmaller
      <3>2. ~cmp_regions(m[q[i]], l[p[i]])
        BY <1>1, NotSmaller
      <3>3. /\ l[p[i]].size \in Nat /\ l[p[i]].bytes \in Nat
            /\ m[q[i]].size \in Nat /\ m[q[i]].bytes \in Nat
        BY <1>3, <2>1, RegionsFinite
      <3> QED
        BY <3>1, <3>2, <3>3 DEF cmp_regions
    <2> HIDE DEF n
    <2> QED
      BY <1>2, <1>3, <2>1, <2>2
  <1>5. \E q \in Orders(m) : TRUE
    <2>1. PICK f \in Bijection(ValidRegions(l), ValidRegions(m)) :
            \A r \in ValidRegions(l) : m[f[r]].size = l[r].size /\ m[f[r]].bytes = l[r].bytes
      BY EvidenceAssumption DEF SameRegions
    <2>2. /\ f \in [ValidRegions(l) -> ValidRegions(m)]
          /\ \A r, t \in ValidRegions(l) : f[r] = f[t] => r = t
      BY <2>1 DEF Bijection, Injection, IsInjective
    <2> DEFINE q == [i \in 1..n |-> f[p[i]]]
    <2> HIDE DEF n
    <2>3. q \in [1..n -> ValidRegions(m)]
      BY <1>3, <2>2
    <2>4. ASSUME NEW k \in 1..n, NEW j \in 1..n, k < j
          PROVE  q[k] # q[j] /\ ~cmp_regions(m[q[j]], m[q[k]])
      <3>1. p[k] \in ValidRegions(l) /\ p[j] \in ValidRegions(l) /\ p[k] # p[j]
        BY <1>3, <2>4
      <3>2. ~cmp_regions(l[p[j]], l[p[k]])
        BY <1>3, <2>4
      <3> QED
        BY <2>1, <2>2, <3>1, <3>2 DEF cmp_regions
    <2> HIDE DEF q
    <2>5. q \in Orders(m)
      BY <1>1, <2>3, <2>4 DEF Orders
    <2> QED
      BY <2>5
  <1> QED
    BY <1>4, <1>5 DEF Hashes

\* The measurement of a TA is the same wherever its regions are loaded and whatever is in
\* its writable ones, for any number of regions of any sizes and contents.
THEOREM MeasurementIsStable == Spec => []MeasurementStable
  <1>1. IInv => MeasurementStable
    BY HashesAgree DEF IInv, TypeOK, MeasureInv, Measured, MeasurementStable
  <1> QED
    BY <1>1, EvidenceInvariant, PTL
=============================================================================
