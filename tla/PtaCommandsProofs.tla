------------------------- MODULE PtaCommandsProofs -------------------------
(***************************************************************************)
(* The safety of the commands of the PTA, for any number of host           *)
(* processes, any size of a coordinate and any lengths of the keys.        *)
(***************************************************************************)
EXTENDS PtaCommands, SequenceTheorems, TLAPS

-----------------------------------------------------------------------------
(* Keys put together and taken apart *)

\* The names a byte of a key may have.
Names == (Nat \cup Hosts \cup {NoHost}) \X {"d", "x", "y", "black", "zero"} \X Nat

\* A number is a sequence of its own bytes, a padded one is as long as a coordinate.
LEMMA NumberType ==
  ASSUME NEW id \in Nat \cup Hosts, NEW part \in {"d", "x", "y", "black"}, NEW n \in Nat
  PROVE  Number(id, part, n) \in Seq(Names) /\ Len(Number(id, part, n)) = n
  <1>1. \A i \in 1..n : <<id, part, i>> \in Names
    BY DEF Names
  <1>2. Number(id, part, n) \in [1..n -> Names]
    BY <1>1 DEF Number
  <1> QED
    BY <1>2, SeqDef, LenProperties DEF Number

\* The bytes a number is padded with.
LEMMA ZerosType ==
  ASSUME NEW n \in Nat
  PROVE  Zeros(n) \in Seq(Names) /\ Len(Zeros(n)) = n
  <1>1. Zero \in Names
    BY DEF Names, Zero
  <1>2. Zeros(n) \in [1..n -> Names]
    BY <1>1 DEF Zeros
  <1> QED
    BY <1>2, SeqDef, LenProperties DEF Zeros

\* A padded coordinate has the length of the curve.
LEMMA PaddedType ==
  ASSUME NEW s \in Seq(Names), Len(s) <= sec_size
  PROVE  Padded(s) \in Seq(Names) /\ Len(Padded(s)) = sec_size
  <1>1. Len(s) \in Nat /\ sec_size - Len(s) \in Nat
    BY LenProperties, PtaAssumption
  <1>2. Zeros(sec_size - Len(s)) \in Seq(Names) /\ Len(Zeros(sec_size - Len(s))) = sec_size - Len(s)
    BY <1>1, ZerosType
  <1> QED
    BY <1>1, <1>2, ConcatProperties, PtaAssumption DEF Padded

\* What is written in front of a buffer is read back from its front.
LEMMA FrontOfConcat ==
  ASSUME NEW S, NEW s \in Seq(S), NEW t \in Seq(S)
  PROVE  SubSeq(s \o t, 1, Len(s)) = s
  <1>1. CASE Len(s) = 0
    BY <1>1, SubSeqEmpty, LenProperties, EmptySeq, ConcatProperties
  <1>2. CASE Len(s) # 0
    BY <1>2, SubSeqOfConcat1, SubSeqFull, LenProperties
  <1> QED
    BY <1>1, <1>2

\* What is written behind something is read back from there.
LEMMA BackOfConcat ==
  ASSUME NEW S, NEW s \in Seq(S), NEW t \in Seq(S)
  PROVE  SubSeq(s \o t, Len(s) + 1, Len(s) + Len(t)) = t
  <1>1. Len(s) \in Nat /\ Len(t) \in Nat
    BY LenProperties
  <1>2. CASE Len(t) = 0
    <2>1. t = <<>>
      BY <1>2, EmptySeq
    <2> QED
      BY <1>1, <1>2, <2>1, SubSeqEmpty
  <1>3. CASE Len(t) # 0
    <2> DEFINE m == Len(s) + 1
               n == Len(s) + Len(t)
    <2>1. m \in Len(s) + 1 .. Len(s) + Len(t) /\ n \in Len(s) + 1 .. Len(s) + Len(t)
      BY <1>1, <1>3
    <2>2. m - Len(s) = 1 /\ n - Len(s) = Len(t)
      BY <1>1
    <2> HIDE DEF m, n
    <2>3. SubSeq(s \o t, m, n) = SubSeq(t, m - Len(s), n - Len(s))
      BY <2>1, SubSeqOfConcat2
    <2>4. SubSeq(t, 1, Len(t)) = t
      BY SubSeqFull
    <2> QED
      BY <2>2, <2>3, <2>4 DEF m, n
  <1> QED
    BY <1>2, <1>3

\* Two coordinates and a blob, one behind the other, are cut apart at the places of the
\* evidence command.
LEMMA SplitOfFull ==
  ASSUME NEW x \in Seq(Names), NEW y \in Seq(Names), NEW d \in Seq(Names),
         Len(x) = sec_size, Len(y) = sec_size
  PROVE  SplitKey(x \o y \o d) = [x |-> x, y |-> y, d |-> d]
  <1> DEFINE full == x \o y \o d
  <1>1. Len(d) \in Nat /\ sec_size \in Nat \ {0}
    BY LenProperties, PtaAssumption
  <1>2. x \o y \in Seq(Names) /\ Len(x \o y) = Len(x) + Len(y)
    BY ConcatProperties
  <1>3. full \in Seq(Names) /\ Len(full) = Len(x \o y) + Len(d)
    BY <1>2, ConcatProperties
  <1>4. Len(x \o y) = 2 * sec_size
    BY <1>1, <1>2
  <1>5. SubSeq(full, 1, sec_size) = x /\ SubSeq(full, sec_size + 1, 2 * sec_size) = y
    <2>1. /\ SubSeq(full, 1, sec_size) = SubSeq(x \o y, 1, sec_size)
          /\ SubSeq(full, sec_size + 1, 2 * sec_size) = SubSeq(x \o y, sec_size + 1, 2 * sec_size)
      <3> DEFINE xy == x \o y
      <3>1. 1 \in 1..Len(xy) /\ sec_size + 1 \in 1..Len(xy)
        BY <1>1, <1>4
      <3>2. sec_size \in 1..Len(xy) /\ 2 * sec_size \in 1..Len(xy)
        BY <1>1, <1>4
      <3>3. xy \in Seq(Names) /\ full = xy \o d
        BY <1>2
      <3> HIDE DEF xy
      <3> QED
        BY <3>1, <3>2, <3>3, SubSeqOfConcat1 DEF xy
    <2>2. SubSeq(x \o y, 1, Len(x)) = x
      BY FrontOfConcat
    <2>3. SubSeq(x \o y, Len(x) + 1, Len(x) + Len(y)) = y
      BY BackOfConcat
    <2>4. Len(x) + 1 = sec_size + 1 /\ Len(x) + Len(y) = 2 * sec_size
      BY <1>1
    <2> QED
      BY <2>1, <2>2, <2>3, <2>4
  <1>6. SubSeq(full, 2 * sec_size + 1, Len(full)) = d
    BY <1>2, <1>3, <1>4, BackOfConcat
  <1> QED
    BY <1>5, <1>6 DEF SplitKey, MIN_KEY_PARAM_SIZE
-----------------------------------------------------------------------------
(* The inductive invariant *)

Params == [ser : Seq(Names), size : Nat, x : Seq(Names), y : Seq(Names)]

KeyPairs == [d : Seq(Names), x : Seq(Names), y : Seq(Names)]

Events == {EvidenceEvents[i] : i \in 1..11} \cup {"keypair_generate", "blackkey_encap"}

GenerateStages == {"alloc", "gen", "export"}
ConvertStages == {"key_alloc", "encap", "serialize"}
EvidenceStages == {EvidenceEvents[i] : i \in 1..11}

TypeInv ==
    /\ mode \in [Hosts -> Modes]
    /\ step \in [Hosts -> {"start", "probe", "fetch", "convert", "evidence", "done", "error"}]
    /\ where \in [Hosts -> {"host", "ta", "pta", "back"}]
    /\ param \in [Hosts -> Params]
    /\ keyArg \in [Hosts -> Seq(Names)]
    /\ res \in [Hosts -> {"none", "ok", "short", "error"}]
    /\ printed \in [Hosts -> Seq(Names)]
    /\ made \in [Hosts -> KeyPairs]
    /\ stage \in {"idle"} \cup GenerateStages \cup ConvertStages \cup EvidenceStages
    /\ key \in KeyPairs
    /\ keys \in Nat
    /\ perf \in Seq(Events)
    /\ own \in [Hosts -> Seq(Events)]

\* The stages of the command of a host in some mode.
StagesOf(m) ==
    CASE m = "generate" -> GenerateStages
      [] m = "convert"  -> ConvertStages
      [] OTHER          -> EvidenceStages

\* Only one command is in the PTA, and the stage is one of its own.
Exclusive ==
    /\ \A g, h \in Hosts : where[g] = "pta" /\ where[h] = "pta" => g = h
    /\ \A h \in Hosts : where[h] = "pta" => stage \in StagesOf(mode[h])
    /\ stage # "idle" => \E h \in Hosts : where[h] = "pta"

\* A host sends a command of its mode, and only while it waits for the result.
Waiting ==
    \A h \in Hosts :
      /\ where[h] \in {"ta", "pta"} => res[h] = "none"
      /\ step[h] = "start" => where[h] = "host" /\ res[h] = "none"
      /\ step[h] \in {"probe", "fetch"} => mode[h] = "generate"
      /\ step[h] = "convert" => mode[h] = "convert"

\* What the PTA holds, by the call it comes to next.
HeldInv ==
    /\ live = CASE stage \in {"gen", "export"}      -> {"d", "x", "y"}
                [] stage \in {"encap", "serialize"} -> {"caam_key"}
                [] OTHER                            -> {}
    /\ stage # "export" => key = NoKey

\* The buffer holds the events of the command in the PTA: always fewer than it takes.
EventInv ==
    /\ \A h \in Hosts : where[h] = "pta" => own[h] = perf
    /\ stage \in {"alloc", "gen", "key_alloc", "encap"} => Len(perf) = 0
    /\ stage \in {"export", "serialize"} => Len(perf) = 1
    /\ \A i \in 1..11 : stage = EvidenceEvents[i] => Len(perf) = i - 1

\* One of the first n generated pairs, as it was made and as it travels.
IsPair(r, n) ==
    \E k \in 1..n, d \in BlobLens, x, y \in CoordLens :
      r = [d |-> Number(k, "d", d), x |-> Number(k, "x", x), y |-> Number(k, "y", y)]

IsWhole(x, y, d, n) ==
    \E k \in 1..n, dl \in BlobLens, xl, yl \in CoordLens :
      /\ x = Padded(Number(k, "x", xl))
      /\ y = Padded(Number(k, "y", yl))
      /\ d = Number(k, "d", dl)

\* The whole of a pair in one sequence.
IsFull(s, n) ==
    \E k \in 1..n, d \in BlobLens, x, y \in CoordLens :
      s = Padded(Number(k, "x", x)) \o Padded(Number(k, "y", y)) \o Number(k, "d", d)

IsMade(r, n) ==
    \E k \in 1..n, d \in BlobLens, x, y \in CoordLens :
      r = [x |-> Padded(Number(k, "x", x)), y |-> Padded(Number(k, "y", y)), d |-> Number(k, "d", d)]

Front(p) == SubSeq(p.ser, 1, p.size)

\* A key is whole wherever it is: with the PTA, in the buffers of a host that got a
\* success, on its output, in the argument of the host that is given it.
KeyInv ==
    /\ stage = "export" => IsPair(key, keys)
    /\ \A h \in Hosts :
         /\ mode[h] = "generate" /\ res[h] = "ok" =>
              IsWhole(param[h].x, param[h].y, Front(param[h]), keys)
         /\ mode[h] = "convert" /\ res[h] = "ok" =>
              \E n \in BlobLens : Front(param[h]) = Number(h, "black", n)
         /\ keyArg[h] # <<>> => IsFull(keyArg[h], keys)

IInv ==
    /\ TypeInv /\ Exclusive /\ Waiting /\ HeldInv /\ EventInv /\ KeyInv
    /\ KeyTravelsWhole /\ FlushIsOwn
-----------------------------------------------------------------------------
(* The stages *)

\* The evidence command records eleven events.
LEMMA EventsLen == Len(EvidenceEvents) = 11
  BY DEF EvidenceEvents

\* No stage of the evidence command occurs twice or in another command.
LEMMA EventsDistinct ==
  /\ \A i, j \in 1..11 : EvidenceEvents[i] = EvidenceEvents[j] => i = j
  /\ \A i \in 1..11 :
       EvidenceEvents[i] \notin {"idle", "alloc", "gen", "export", "key_alloc", "encap", "serialize"}
  /\ EvidenceEvents[1] = "ocotp_srk" /\ EvidenceEvents[11] = "cmd_total"
  BY DEF EvidenceEvents

\* A command starts at a stage of its own.
LEMMA FirstStageOwn ==
  /\ FirstStage["generate"] = "alloc"
  /\ FirstStage["convert"] = "key_alloc"
  /\ FirstStage["evidence"] = "ocotp_srk"
  BY DEF FirstStage

\* The stages by the mode.
LEMMA StagesOfMode ==
  /\ StagesOf("generate") = GenerateStages
  /\ StagesOf("convert") = ConvertStages
  /\ StagesOf("evidence") = EvidenceStages
  BY DEF StagesOf

-----------------------------------------------------------------------------
(* Control: who is in the PTA, and what the PTA holds *)

\* The step of a command: its host is in the PTA, and it returns or goes on with a stage
\* of the same command.
LEMMA PtaKinds ==
  ASSUME TypeInv, Exclusive, NEW h \in Hosts, PtaStep(h), ~invoke_command(h)
  PROVE  /\ where[h] = "pta" /\ stage \in StagesOf(mode[h]) /\ mode' = mode /\ step' = step
         /\ \/ \E r \in {"ok", "short", "error"} : Returns(h, r)
            \/ stage' \in StagesOf(mode[h]) /\ UNCHANGED <<where, res>>
  <1>1. mode[h] \in Modes
    BY DEF TypeInv
  <1>2. where[h] = "pta" => stage \in StagesOf(mode[h])
    BY DEF Exclusive
  <1>3. CASE AllocKeypair(h) \/ GenerateKey(h) \/ ExportKey(h)
    <2>1. where[h] = "pta" /\ stage \in GenerateStages /\ UNCHANGED <<mode, step>>
      BY <1>3 DEF AllocKeypair, GenerateKey, ExportKey, Serves, hostVars, GenerateStages
    <2>2. mode[h] = "generate"
      BY <1>1, <1>2, <2>1, EventsDistinct, StagesOfMode
         DEF Modes, GenerateStages, ConvertStages, EvidenceStages
    <2>3. \/ \E r \in {"ok", "short", "error"} : Returns(h, r)
          \/ stage' \in GenerateStages /\ UNCHANGED <<where, res>>
      BY <1>3 DEF AllocKeypair, GenerateKey, ExportKey, out_free, GenerateStages
    <2> QED
      BY <2>1, <2>2, <2>3, StagesOfMode
  <1>4. CASE KeyAlloc(h) \/ BlackEncapsulation(h) \/ SerializeKey(h)
    <2>1. where[h] = "pta" /\ stage \in ConvertStages /\ UNCHANGED <<mode, step>>
      BY <1>4 DEF KeyAlloc, BlackEncapsulation, SerializeKey, Serves, hostVars, ConvertStages
    <2>2. mode[h] = "convert"
      BY <1>1, <1>2, <2>1, EventsDistinct, StagesOfMode
         DEF Modes, GenerateStages, ConvertStages, EvidenceStages
    <2>3. \/ \E r \in {"ok", "short", "error"} : Returns(h, r)
          \/ stage' \in ConvertStages /\ UNCHANGED <<where, res>>
      BY <1>4 DEF KeyAlloc, BlackEncapsulation, SerializeKey, convert_out, ConvertStages
    <2> QED
      BY <2>1, <2>2, <2>3, StagesOfMode
  <1>5. CASE EvidenceCall(h) \/ EvidenceFails(h)
    <2>1. where[h] = "pta" /\ stage \in EvidenceStages /\ UNCHANGED <<mode, step>>
      BY <1>5, EventsLen, EventsDistinct DEF EvidenceCall, EvidenceFails, hostVars, EvidenceStages
    <2>2. mode[h] = "evidence"
      BY <1>1, <1>2, <2>1, EventsDistinct, StagesOfMode
         DEF Modes, GenerateStages, ConvertStages, EvidenceStages
    <2>3. \/ \E r \in {"ok", "short", "error"} : Returns(h, r)
          \/ stage' \in EvidenceStages /\ UNCHANGED <<where, res>>
      BY <1>5, EventsLen DEF EvidenceCall, EvidenceFails, EvidenceStages
    <2> QED
      BY <2>1, <2>2, <2>3, StagesOfMode
  <1> QED
    BY <1>3, <1>4, <1>5 DEF PtaStep

\* The step of a host outside the PTA leaves the PTA alone.
LEMMA HostKinds ==
  ASSUME TypeInv, Waiting, NEW h \in Hosts, HostStep(h)
  PROVE  /\ UNCHANGED <<mode, made, ptaVars>>
         /\ where[h] # "pta"
         /\ \/ UNCHANGED where
            \/ where' = [where EXCEPT ![h] = "ta"]
            \/ where' = [where EXCEPT ![h] = "host"]
  <1>1. where \in [Hosts -> {"host", "ta", "pta", "back"}]
    BY DEF TypeInv
  <1>2. UNCHANGED <<mode, made, ptaVars>>
    BY DEF HostStep, HostStart, TaOpen, TaReturn, HostFetch, HostFails, HostPrints, hostVars
  <1>3. \/ UNCHANGED where
        \/ where' = [where EXCEPT ![h] = "ta"]
        \/ where' = [where EXCEPT ![h] = "host"]
    BY DEF HostStep, HostStart, TaOpen, TaReturn, HostFetch, HostFails, HostPrints
  <1> QED
    BY <1>1, <1>2, <1>3
       DEF Waiting, HostStep, HostStart, TaOpen, TaReturn, HostFetch, HostFails, HostPrints, Returned, InTee

\* A step leaves at most one command in the PTA.
LEMMA ExclusiveStep ==
  ASSUME TypeInv, Exclusive, Waiting, NEW h \in Hosts, HostStep(h) \/ PtaStep(h)
  PROVE  Exclusive'
  <1> USE DEF Exclusive
  <1>1. where \in [Hosts -> {"host", "ta", "pta", "back"}] /\ mode[h] \in Modes
    BY DEF TypeInv
  <1>2. CASE HostStep(h)
    BY <1>1, <1>2, HostKinds DEF ptaVars
  <1>3. CASE invoke_command(h)
    <2>1. FirstStage[mode[h]] \in StagesOf(mode[h])
      BY <1>1, EventsDistinct, FirstStageOwn, StagesOfMode
         DEF Modes, GenerateStages, ConvertStages, EvidenceStages
    <2> QED
      BY <1>1, <1>3, <2>1 DEF invoke_command, PtaFree, hostVars
  <1>4. CASE PtaStep(h) /\ ~invoke_command(h)
    BY <1>1, <1>4, PtaKinds DEF Returns
  <1> QED
    BY <1>2, <1>3, <1>4

\* A step leaves every host with the command of its mode.
LEMMA WaitingStep ==
  ASSUME TypeInv, Exclusive, Waiting, NEW h \in Hosts, HostStep(h) \/ PtaStep(h)
  PROVE  Waiting'
  <1> USE DEF Waiting
  <1>1. /\ where \in [Hosts -> {"host", "ta", "pta", "back"}]
        /\ step \in [Hosts -> {"start", "probe", "fetch", "convert", "evidence", "done", "error"}]
        /\ res \in [Hosts -> {"none", "ok", "short", "error"}]
    BY DEF TypeInv
  <1>2. CASE HostStart(h)
    BY <1>1, <1>2 DEF HostStart
  <1>3. CASE TaOpen(h)
    BY <1>1, <1>3 DEF TaOpen, InTee, hostVars
  <1>4. CASE TaReturn(h)
    BY <1>1, <1>4 DEF TaReturn, hostVars
  <1>5. CASE HostFetch(h)
    BY <1>1, <1>5 DEF HostFetch, Returned, InTee
  <1>6. CASE HostFails(h)
    BY <1>1, <1>6 DEF HostFails, Returned, InTee
  <1>7. CASE HostPrints(h)
    BY <1>1, <1>7 DEF HostPrints, Returned, InTee
  <1>8. CASE invoke_command(h)
    BY <1>1, <1>8 DEF invoke_command, hostVars
  <1>9. CASE PtaStep(h) /\ ~invoke_command(h)
    BY <1>1, <1>9, PtaKinds DEF Returns
  <1> QED
    BY <1>2, <1>3, <1>4, <1>5, <1>6, <1>7, <1>8, <1>9 DEF HostStep

\* A step leaves the PTA holding what its next call expects.
LEMMA HeldStep ==
  ASSUME TypeInv, Exclusive, HeldInv, NEW h \in Hosts, HostStep(h) \/ PtaStep(h)
  PROVE  HeldInv'
  <1> USE DEF HeldInv
  <1>1. CASE HostStep(h)
    BY <1>1 DEF HostStep, HostStart, TaOpen, TaReturn, HostFetch, HostFails, HostPrints, ptaVars
  <1>2. CASE invoke_command(h)
    <2>1. stage = "idle"
      BY <1>2 DEF invoke_command, PtaFree, Exclusive
    <2>2. stage' \in {"alloc", "key_alloc", "ocotp_srk"}
      BY <1>2, FirstStageOwn DEF invoke_command, TypeInv, Modes
    <2> QED
      BY <1>2, <2>1, <2>2 DEF invoke_command
  <1>3. CASE AllocKeypair(h)
    BY <1>3 DEF AllocKeypair, Returns, Serves
  <1>4. CASE GenerateKey(h)
    BY <1>4 DEF GenerateKey, out_free, Returns, Serves
  <1>5. CASE ExportKey(h)
    BY <1>5 DEF ExportKey, out_free, Returns, Serves
  <1>6. CASE KeyAlloc(h)
    BY <1>6 DEF KeyAlloc, Returns, Serves
  <1>7. CASE BlackEncapsulation(h)
    BY <1>7 DEF BlackEncapsulation, convert_out, Returns, Serves
  <1>8. CASE SerializeKey(h)
    BY <1>8 DEF SerializeKey, convert_out, Returns, Serves
  <1>9. CASE EvidenceCall(h) \/ EvidenceFails(h)
    <2>1. stage \in EvidenceStages /\ stage' \in EvidenceStages \cup {"idle"}
      BY <1>9, EventsLen, EventsDistinct DEF EvidenceCall, EvidenceFails, Returns, EvidenceStages
    <2>2. UNCHANGED <<key, live>>
      BY <1>9 DEF EvidenceCall, EvidenceFails
    <2>3. /\ stage \notin {"gen", "export", "encap", "serialize"}
          /\ stage' \notin {"gen", "export", "encap", "serialize"}
      BY <2>1, EventsDistinct DEF EvidenceStages
    <2> QED
      BY <2>2, <2>3
  <1> QED
    BY <1>1, <1>2, <1>3, <1>4, <1>5, <1>6, <1>7, <1>8, <1>9 DEF PtaStep
-----------------------------------------------------------------------------
(* The events *)

\* A record is kept as long as fewer events than the buffer takes came before it.
LEMMA RecordKeeps ==
  ASSUME NEW e, perf \in Seq(Events), Len(perf) <= 10
  PROVE  ra_perf_record(perf, e) = Append(perf, e)
  BY LenProperties DEF ra_perf_record, RA_PERF_MAX_EVENTS

\* A command that goes on has its event in the buffer, behind those it recorded before.
LEMMA RecordStep ==
  ASSUME TypeInv, Exclusive, EventInv, NEW h \in Hosts, where[h] = "pta", UNCHANGED where,
         NEW e \in Events, Len(perf) <= 10, Record(h, e)
  PROVE  /\ perf' \in Seq(Events) /\ own' \in [Hosts -> Seq(Events)] /\ flushed' = flushed
         /\ Len(perf') = Len(perf) + 1
         /\ \A g \in Hosts : where'[g] = "pta" => own'[g] = perf'
  <1>1. perf \in Seq(Events) /\ own \in [Hosts -> Seq(Events)] /\ own[h] = perf
    BY DEF TypeInv, EventInv
  <1>2. perf' = Append(perf, e) /\ own' = [own EXCEPT ![h] = Append(perf, e)] /\ flushed' = flushed
    BY <1>1, RecordKeeps DEF Record
  <1>3. Append(perf, e) \in Seq(Events) /\ Len(Append(perf, e)) = Len(perf) + 1
    BY <1>1, AppendProperties
  <1>4. \A g \in Hosts : where'[g] = "pta" => g = h
    BY DEF Exclusive
  <1> QED
    BY <1>1, <1>2, <1>3, <1>4

\* No command is in the PTA once the one in it returned.
LEMMA ReturnsStep ==
  ASSUME TypeInv, Exclusive, NEW h \in Hosts, where[h] = "pta", NEW r, Returns(h, r)
  PROVE  stage' = "idle" /\ \A g \in Hosts : where'[g] # "pta"
  BY DEF Returns, Exclusive, TypeInv

\* A command that reports what it recorded leaves the buffer empty.
LEMMA FlushStep ==
  ASSUME TypeInv, Exclusive, NEW h \in Hosts, where[h] = "pta", NEW r, Returns(h, r),
         NEW events, ra_perf_flush(h, events, events)
  PROVE  /\ EventInv' /\ FlushIsOwn'
         /\ perf' \in Seq(Events) /\ own' \in [Hosts -> Seq(Events)]
  <1>1. stage' = "idle" /\ \A g \in Hosts : where'[g] # "pta"
    BY ReturnsStep
  <1>2. <<>> \in Seq(Events) /\ own \in [Hosts -> Seq(Events)]
    BY EmptySeq DEF TypeInv
  <1>3. perf' = <<>> /\ own' = [own EXCEPT ![h] = <<>>]
        /\ flushed' = [shown |-> events, own |-> events]
    BY DEF ra_perf_flush
  <1> QED
    BY <1>1, <1>2, <1>3, EventsDistinct DEF EventInv, FlushIsOwn

\* A step records in the event buffer what belongs to its command, and there is room.
LEMMA EventStep ==
  ASSUME TypeInv, Exclusive, Waiting, EventInv, FlushIsOwn, NEW h \in Hosts, HostStep(h) \/ PtaStep(h)
  PROVE  /\ EventInv' /\ FlushIsOwn'
         /\ perf' \in Seq(Events) /\ own' \in [Hosts -> Seq(Events)]
  <1> DEFINE Goal == /\ EventInv' /\ FlushIsOwn'
                     /\ perf' \in Seq(Events) /\ own' \in [Hosts -> Seq(Events)]
  <1>1. /\ perf \in Seq(Events) /\ own \in [Hosts -> Seq(Events)]
        /\ <<>> \in Seq(Events) /\ Len(<<>>) = 0
        /\ where[h] = "pta" => own[h] = perf
    BY EmptySeq DEF TypeInv, EventInv
  <1>2. CASE HostStep(h)
    <2>1. UNCHANGED <<stage, perf, own, flushed>>
      BY <1>2, HostKinds DEF ptaVars
    <2>2. \A g \in Hosts : where'[g] = "pta" => where[g] = "pta"
      BY <1>2, HostKinds DEF TypeInv
    <2> QED
      BY <1>1, <2>1, <2>2 DEF EventInv, FlushIsOwn
  <1>3. CASE invoke_command(h)
    <2>1. stage' \in {"alloc", "key_alloc", EvidenceEvents[1]}
      BY <1>3, FirstStageOwn, EventsDistinct DEF invoke_command, TypeInv, Modes
    <2>2. \A i \in 1..11 : stage' = EvidenceEvents[i] => i = 1
      BY <2>1, EventsDistinct
    <2>3. perf' = <<>> /\ own' = [own EXCEPT ![h] = <<>>] /\ flushed' = flushed
      BY <1>3 DEF invoke_command, ra_perf_reset
    <2>4. stage' \notin {"export", "serialize"}
      BY <2>1, EventsDistinct
    <2>5. \A g \in Hosts : where'[g] = "pta" => g = h
      BY <1>3 DEF invoke_command, PtaFree, TypeInv
    <2> QED
      BY <1>1, <2>2, <2>3, <2>4, <2>5 DEF EventInv, FlushIsOwn
  <1>4. ASSUME where[h] = "pta", Returns(h, "error"), UNCHANGED <<perf, flushed>>,
               own' \in [Hosts -> Seq(Events)]
        PROVE  Goal
    <2>1. stage' = "idle" /\ \A g \in Hosts : where'[g] # "pta"
      BY <1>4, ReturnsStep
    <2> QED
      BY <1>1, <1>4, <2>1, EventsDistinct DEF EventInv, FlushIsOwn
  <1>5. ASSUME where[h] = "pta", NEW r, out_free(h, r)
        PROVE  Goal
    <2>1. Returns(h, r) /\ ra_perf_flush(h, perf, perf)
      BY <1>1, <1>5 DEF out_free
    <2> QED
      BY <1>5, <2>1, FlushStep
  <1>6. ASSUME where[h] = "pta", NEW r, convert_out(h, r), Len(perf) <= 10
        PROVE  Goal
    <2>1. Returns(h, r)
          /\ ra_perf_flush(h, Append(perf, "convert_total"), Append(perf, "convert_total"))
      BY <1>1, <1>6, RecordKeeps DEF convert_out
    <2> QED
      BY <1>6, <2>1, FlushStep
  <1>7. ASSUME where[h] = "pta", UNCHANGED <<where, perf, own, flushed>>,
               Len(perf) = 0, stage' \in {"gen", "encap"}
        PROVE  Goal
    BY <1>1, <1>7, EventsDistinct DEF EventInv, FlushIsOwn
  <1>8. ASSUME where[h] = "pta", UNCHANGED where, Len(perf) = 0, stage' \in {"export", "serialize"},
               NEW e \in {"keypair_generate", "blackkey_encap"}, Record(h, e)
        PROVE  Goal
    <2>1. e \in Events /\ Len(perf) <= 10
      BY <1>8 DEF Events
    <2>2. /\ perf' \in Seq(Events) /\ own' \in [Hosts -> Seq(Events)] /\ flushed' = flushed
          /\ Len(perf') = Len(perf) + 1
          /\ \A g \in Hosts : where'[g] = "pta" => own'[g] = perf'
      BY <1>8, <2>1, RecordStep
    <2> QED
      BY <1>8, <2>2, EventsDistinct DEF EventInv, FlushIsOwn
  <1>9. CASE AllocKeypair(h)
    <2>1. where[h] = "pta" /\ Len(perf) = 0
      BY <1>9 DEF AllocKeypair, Serves, EventInv
    <2> QED
      BY <1>1, <1>4, <1>7, <1>9, <2>1 DEF AllocKeypair
  <1>10. CASE GenerateKey(h)
    <2>1. where[h] = "pta" /\ Len(perf) = 0
      BY <1>10 DEF GenerateKey, Serves, EventInv
    <2>2. CASE out_free(h, "error")
      BY <1>5, <2>1, <2>2
    <2>3. CASE Record(h, "keypair_generate") /\ stage' = "export" /\ UNCHANGED where
      BY <1>8, <2>1, <2>3
    <2> QED
      BY <1>10, <2>2, <2>3 DEF GenerateKey
  <1>11. CASE ExportKey(h)
    <2>1. where[h] = "pta"
      BY <1>11 DEF ExportKey, Serves
    <2> QED
      BY <1>5, <1>11, <2>1 DEF ExportKey
  <1>12. CASE KeyAlloc(h)
    <2>1. where[h] = "pta" /\ Len(perf) = 0
      BY <1>12 DEF KeyAlloc, Serves, EventInv
    <2> QED
      BY <1>1, <1>4, <1>7, <1>12, <2>1 DEF KeyAlloc
  <1>13. CASE BlackEncapsulation(h)
    <2>1. where[h] = "pta" /\ Len(perf) = 0 /\ Len(perf) <= 10
      BY <1>13 DEF BlackEncapsulation, Serves, EventInv
    <2>2. CASE convert_out(h, "error")
      BY <1>6, <2>1, <2>2
    <2>3. CASE Record(h, "blackkey_encap") /\ stage' = "serialize" /\ UNCHANGED where
      BY <1>8, <2>1, <2>3
    <2> QED
      BY <1>13, <2>2, <2>3 DEF BlackEncapsulation
  <1>14. CASE SerializeKey(h)
    <2>1. where[h] = "pta" /\ Len(perf) <= 10
      <3>1. Serves(h, "serialize")
        BY <1>14 DEF SerializeKey
      <3>2. where[h] = "pta" /\ stage = "serialize"
        BY <3>1 DEF Serves
      <3>3. Len(perf) = 1
        BY <3>2 DEF EventInv
      <3> QED
        BY <3>2, <3>3
    <2>2. convert_out(h, "error") \/ convert_out(h, "short") \/ convert_out(h, "ok")
      BY <1>14 DEF SerializeKey
    <2> QED
      BY <1>6, <2>1, <2>2
  <1>15. CASE EvidenceCall(h)
    <2>1. where[h] = "pta"
      BY <1>15 DEF EvidenceCall
    <2>2. ASSUME NEW i \in 1..10, stage = EvidenceEvents[i], Record(h, stage),
                 stage' = EvidenceEvents[i + 1], UNCHANGED where
          PROVE  Goal
      <3>1. Len(perf) = i - 1 /\ Len(perf) <= 10 /\ stage \in Events
        BY <2>2 DEF Events, EventInv
      <3>2. /\ perf' \in Seq(Events) /\ own' \in [Hosts -> Seq(Events)] /\ flushed' = flushed
            /\ Len(perf') = Len(perf) + 1
            /\ \A g \in Hosts : where'[g] = "pta" => own'[g] = perf'
        BY <2>1, <2>2, <3>1, RecordStep
      <3>3. \A j \in 1..11 : stage' = EvidenceEvents[j] => j = i + 1
        <4>1. i + 1 \in 1..11
          OBVIOUS
        <4> QED
          BY <2>2, <4>1, EventsDistinct
      <3>4. stage' \notin {"alloc", "gen", "key_alloc", "encap", "export", "serialize"}
        <4>1. i + 1 \in 1..11
          OBVIOUS
        <4> QED
          BY <2>2, <4>1, EventsDistinct
      <3>5. Len(perf') = i
        BY <3>1, <3>2
      <3> QED
        BY <3>2, <3>3, <3>4, <3>5 DEF EventInv, FlushIsOwn
    <2>3. ASSUME stage = "cmd_total", Returns(h, "ok"),
                 ra_perf_flush(h, ra_perf_record(perf, stage), Append(own[h], stage))
          PROVE  Goal
      <3>1. 11 \in 1..11 /\ stage = EvidenceEvents[11]
        BY <2>3, EventsDistinct
      <3>2. \A i \in 1..11 : stage = EvidenceEvents[i] => Len(perf) = i - 1
        BY DEF EventInv
      <3>3. Len(perf) <= 10
        BY <3>1, <3>2
      <3>4. ra_perf_flush(h, Append(perf, stage), Append(perf, stage))
        BY <1>1, <2>1, <2>3, <3>3, RecordKeeps
      <3> QED
        BY <2>1, <2>3, <3>4, FlushStep
    <2> QED
      BY <1>15, <2>2, <2>3, EventsLen DEF EvidenceCall
  <1>16. CASE EvidenceFails(h)
    <2>1. /\ where[h] = "pta" /\ Returns(h, "error") /\ UNCHANGED <<perf, flushed>>
          /\ own' = [own EXCEPT ![h] = <<>>]
      BY <1>16 DEF EvidenceFails
    <2> QED
      BY <1>1, <1>4, <2>1
  <1> QED
    BY <1>2, <1>3, <1>9, <1>10, <1>11, <1>12, <1>13, <1>14, <1>15, <1>16 DEF PtaStep
-----------------------------------------------------------------------------
(* The keys *)

\* A generated pair, its types and the form it travels in.
LEMMA PairFacts ==
  ASSUME NEW n \in Nat, NEW r, IsPair(r, n)
  PROVE  /\ r \in KeyPairs /\ Len(r.d) \in Nat \ {0}
         /\ Padded(r.x) \in Seq(Names) /\ Padded(r.y) \in Seq(Names)
         /\ IsWhole(Padded(r.x), Padded(r.y), r.d, n)
  <1>1. PICK k \in 1..n, d \in BlobLens, x \in CoordLens, y \in CoordLens :
          r = [d |-> Number(k, "d", d), x |-> Number(k, "x", x), y |-> Number(k, "y", y)]
    BY DEF IsPair
  <1>2. k \in Nat /\ d \in Nat \ {0} /\ x \in Nat /\ y \in Nat /\ x <= sec_size /\ y <= sec_size
    BY PtaAssumption
  <1>3. /\ Number(k, "d", d) \in Seq(Names) /\ Len(Number(k, "d", d)) = d
        /\ Number(k, "x", x) \in Seq(Names) /\ Len(Number(k, "x", x)) = x
        /\ Number(k, "y", y) \in Seq(Names) /\ Len(Number(k, "y", y)) = y
    BY <1>2, NumberType
  <1>4. Padded(Number(k, "x", x)) \in Seq(Names) /\ Padded(Number(k, "y", y)) \in Seq(Names)
    BY <1>2, <1>3, PaddedType
  <1> QED
    BY <1>1, <1>2, <1>3, <1>4 DEF KeyPairs, IsWhole

\* The whole of a pair in one sequence, and taken apart again.
LEMMA FullFacts ==
  ASSUME NEW n \in Nat, NEW s, IsFull(s, n)
  PROVE  s \in Seq(Names) /\ SplitKey(s) \in KeyPairs /\ IsMade(SplitKey(s), n)
  <1>1. PICK k \in 1..n, d \in BlobLens, x \in CoordLens, y \in CoordLens :
          s = Padded(Number(k, "x", x)) \o Padded(Number(k, "y", y)) \o Number(k, "d", d)
    BY DEF IsFull
  <1> DEFINE X == Padded(Number(k, "x", x))
             Y == Padded(Number(k, "y", y))
             D == Number(k, "d", d)
  <1>2. k \in Nat /\ d \in Nat /\ x \in Nat /\ y \in Nat /\ x <= sec_size /\ y <= sec_size
    BY PtaAssumption
  <1>3. /\ D \in Seq(Names)
        /\ Number(k, "x", x) \in Seq(Names) /\ Len(Number(k, "x", x)) = x
        /\ Number(k, "y", y) \in Seq(Names) /\ Len(Number(k, "y", y)) = y
    BY <1>2, NumberType
  <1>4. X \in Seq(Names) /\ Y \in Seq(Names) /\ Len(X) = sec_size /\ Len(Y) = sec_size
    BY <1>2, <1>3, PaddedType
  <1>5. IsMade([x |-> X, y |-> Y, d |-> D], n)
    BY DEF IsMade
  <1> HIDE DEF X, Y, D
  <1>6. s = X \o Y \o D
    BY <1>1 DEF X, Y, D
  <1>7. X \o Y \in Seq(Names)
    BY <1>4, ConcatProperties
  <1>8. s \in Seq(Names)
    BY <1>3, <1>6, <1>7, ConcatProperties
  <1>9. SplitKey(s) = [x |-> X, y |-> Y, d |-> D]
    BY <1>3, <1>4, <1>6, SplitOfFull
  <1> QED
    BY <1>3, <1>4, <1>5, <1>8, <1>9 DEF KeyPairs

\* What is whole in its parts is whole in one sequence.
LEMMA WholeIsFull ==
  ASSUME NEW n \in Nat, NEW x, NEW y, NEW d, IsWhole(x, y, d, n)
  PROVE  IsFull(x \o y \o d, n)
  BY DEF IsWhole, IsFull

\* Generating another pair leaves the earlier ones what they are.
LEMMA MorePairs ==
  ASSUME NEW n \in Nat, NEW m \in Nat, n <= m
  PROVE  /\ \A x, y, d : IsWhole(x, y, d, n) => IsWhole(x, y, d, m)
         /\ \A s : IsFull(s, n) => IsFull(s, m)
         /\ \A r : IsMade(r, n) => IsMade(r, m)
  <1>1. 1..n \subseteq 1..m
    OBVIOUS
  <1> QED
    BY <1>1 DEF IsWhole, IsFull, IsMade

\* The property of the keys in these terms.
LEMMA TravelsByParts ==
  KeyTravelsWhole <=>
    /\ \A h \in Hosts : printed[h] # <<>> =>
         IF mode[h] = "generate" THEN IsFull(printed[h], keys)
         ELSE \E n \in BlobLens : printed[h] = Number(h, "black", n)
    /\ \A h \in Hosts : made[h] # NoKey => IsMade(made[h], keys)
  BY DEF KeyTravelsWhole, IsFull, IsMade

\* The same after a step.
LEMMA TravelsNext ==
  ASSUME \A h \in Hosts : printed'[h] # <<>> =>
           IF mode'[h] = "generate" THEN IsFull(printed'[h], keys')
           ELSE \E n \in BlobLens : printed'[h] = Number(h, "black", n),
         \A h \in Hosts : made'[h] # NoKey => IsMade(made'[h], keys')
  PROVE  KeyTravelsWhole'
  BY DEF KeyTravelsWhole, IsFull, IsMade

\* A step that prints nothing and makes no evidence with a key.
LEMMA TravelsFrame ==
  ASSUME KeyTravelsWhole, UNCHANGED <<mode, printed, made>>, keys \in Nat, keys' \in Nat, keys <= keys'
  PROVE  KeyTravelsWhole'
  <1>1. \A h \in Hosts : printed[h] # <<>> =>
         IF mode[h] = "generate" THEN IsFull(printed[h], keys')
         ELSE \E n \in BlobLens : printed[h] = Number(h, "black", n)
    BY TravelsByParts, MorePairs
  <1>2. \A h \in Hosts : made[h] # NoKey => IsMade(made[h], keys')
    BY TravelsByParts, MorePairs
  <1> QED
    BY <1>1, <1>2, TravelsNext

\* A buffer with something new in its front.
LEMMA FrontFacts ==
  ASSUME NEW s \in Seq(Names), NEW b \in Seq(Names)
  PROVE  /\ b \o SubSeq(s, Len(b) + 1, Len(s)) \in Seq(Names)
         /\ SubSeq(b \o SubSeq(s, Len(b) + 1, Len(s)), 1, Len(b)) = b
  <1>1. Len(s) \in Nat /\ Len(b) \in Nat
    BY LenProperties
  <1>2. \A i \in (Len(b) + 1)..Len(s) : s[i] \in Names
    BY <1>1, ElementOfSeq
  <1>3. SubSeq(s, Len(b) + 1, Len(s)) \in Seq(Names)
    BY <1>1, <1>2, SubSeqProperties
  <1> QED
    BY <1>3, ConcatProperties, FrontOfConcat

\* A step that makes no new key leaves every key where it is or drops it.
LEMMA KeyFrame ==
  ASSUME KeyInv, UNCHANGED <<mode, keys>>,
         stage' = "export" => stage = "export" /\ key' = key,
         \A g \in Hosts : res'[g] = "ok" =>
            (res[g] = "ok" /\ param'[g] = param[g]) \/ mode[g] = "evidence",
         \A g \in Hosts : keyArg'[g] # <<>> => IsFull(keyArg'[g], keys)
  PROVE  KeyInv'
  <1>1. (stage = "export" => IsPair(key, keys))'
    BY DEF KeyInv
  <1>2. ASSUME NEW g \in Hosts
        PROVE  /\ mode'[g] = "generate" /\ res'[g] = "ok" =>
                    IsWhole(param'[g].x, param'[g].y, Front(param'[g]), keys')
               /\ mode'[g] = "convert" /\ res'[g] = "ok" =>
                    \E n \in BlobLens : Front(param'[g]) = Number(g, "black", n)
               /\ keyArg'[g] # <<>> => IsFull(keyArg'[g], keys')
    BY <1>2 DEF KeyInv
  <1> QED
    BY <1>1, <1>2 DEF KeyInv

\* A command that ends without a success, or that ends one without a key.
LEMMA KeyReturn ==
  ASSUME TypeInv, KeyInv, KeyTravelsWhole, NEW h \in Hosts, NEW r, Returns(h, r),
         UNCHANGED <<mode, param, keyArg, printed, made, keys>>,
         r = "ok" => mode[h] = "evidence"
  PROVE  KeyInv' /\ KeyTravelsWhole'
  <1>1. stage' = "idle"
    BY DEF Returns
  <1>2. \A g \in Hosts : res'[g] = "ok" => res[g] = "ok" \/ mode[g] = "evidence"
    BY DEF Returns, TypeInv
  <1>3. \A g \in Hosts : keyArg'[g] # <<>> => IsFull(keyArg'[g], keys)
    BY DEF KeyInv
  <1> QED
    BY <1>1, <1>2, <1>3, KeyFrame, TravelsFrame DEF TypeInv

\* A step of a host keeps every key on its way whole.
LEMMA KeyHostStep ==
  ASSUME TypeInv, Waiting, KeyInv, KeyTravelsWhole, NEW h \in Hosts, HostStep(h)
  PROVE  KeyInv' /\ KeyTravelsWhole'
  <1>1. UNCHANGED <<mode, made, stage, key, keys>>
    BY HostKinds DEF ptaVars
  <1>2. res \in [Hosts -> {"none", "ok", "short", "error"}] /\ keys \in Nat
    BY DEF TypeInv
  <1>3. \A g \in Hosts : keyArg[g] # <<>> => IsFull(keyArg[g], keys)
    BY DEF KeyInv
  <1>4. CASE TaOpen(h) \/ TaReturn(h) \/ HostFails(h)
    <2>1. UNCHANGED <<param, keyArg, printed>>
      BY <1>4 DEF TaOpen, TaReturn, HostFails, hostVars
    <2>2. \A g \in Hosts : res'[g] = "ok" => res[g] = "ok"
      BY <1>2, <1>4 DEF TaOpen, TaReturn, HostFails
    <2> QED
      BY <1>1, <1>2, <1>3, <2>1, <2>2, KeyFrame, TravelsFrame
  <1>5. CASE HostFetch(h)
    <2>1. UNCHANGED <<keyArg, printed>>
      BY <1>5 DEF HostFetch
    <2>2. \A g \in Hosts : res'[g] = "ok" => res[g] = "ok" /\ param'[g] = param[g]
      BY <1>2, <1>5 DEF HostFetch, TypeInv
    <2> QED
      BY <1>1, <1>2, <1>3, <2>1, <2>2, KeyFrame, TravelsFrame
  <1>6. CASE HostStart(h)
    <2>1. UNCHANGED <<res, printed>>
      BY <1>6 DEF HostStart
    <2>2. \A g \in Hosts : res'[g] = "ok" => res[g] = "ok" /\ param'[g] = param[g]
      <3>1. res[h] = "none"
        BY <1>6 DEF HostStart, Waiting
      <3>2. \A g \in Hosts : g # h => param'[g] = param[g]
        BY <1>6 DEF HostStart, TypeInv
      <3> QED
        BY <2>1, <3>1, <3>2
    <2>3. \A g \in Hosts : keyArg'[g] # <<>> => IsFull(keyArg'[g], keys)
      <3>1. CASE UNCHANGED keyArg
        BY <1>3, <3>1
      <3>2. CASE \E k \in {<<>>} \cup {printed[g] : g \in {g \in Hosts : mode[g] = "generate"}} :
                   keyArg' = [keyArg EXCEPT ![h] = k]
        <4>1. PICK k \in {<<>>} \cup {printed[g] : g \in {g \in Hosts : mode[g] = "generate"}} :
                keyArg' = [keyArg EXCEPT ![h] = k]
          BY <3>2
        <4>2. k # <<>> => IsFull(k, keys)
          BY TravelsByParts
        <4>3. \A g \in Hosts : keyArg'[g] = IF g = h THEN k ELSE keyArg[g]
          BY <4>1 DEF TypeInv
        <4> QED
          BY <1>3, <4>2, <4>3
      <3> QED
        BY <1>6, <3>1, <3>2 DEF HostStart
    <2> QED
      BY <1>1, <1>2, <2>1, <2>2, <2>3, KeyFrame, TravelsFrame
  <1>7. CASE HostPrints(h)
    <2>1. UNCHANGED <<param, keyArg, res>>
      BY <1>7 DEF HostPrints
    <2>2. KeyInv'
      BY <1>1, <1>2, <1>3, <2>1, KeyFrame
    <2>3. res[h] = "ok" /\ printed \in [Hosts -> Seq(Names)]
      BY <1>7 DEF HostPrints, TypeInv
    <2>4. CASE step[h] = "fetch" /\ printed' = [printed EXCEPT ![h] = FullKey(param[h])]
      <3>1. mode[h] = "generate"
        BY <2>4 DEF Waiting
      <3>2. IsFull(FullKey(param[h]), keys)
        BY <1>2, <2>3, <3>1, WholeIsFull DEF KeyInv, FullKey, Front
      <3>3. \A g \in Hosts : printed'[g] = IF g = h THEN FullKey(param[h]) ELSE printed[g]
        BY <2>3, <2>4
      <3> QED
        BY <1>1, <2>2, <3>1, <3>2, <3>3, TravelsByParts, TravelsNext
    <2>5. CASE step[h] = "convert" /\ printed' = [printed EXCEPT ![h] = Front(param[h])]
      <3>1. mode[h] = "convert"
        BY <2>5 DEF Waiting
      <3>2. \E n \in BlobLens : Front(param[h]) = Number(h, "black", n)
        BY <2>3, <3>1 DEF KeyInv
      <3>3. \A g \in Hosts : printed'[g] = IF g = h THEN Front(param[h]) ELSE printed[g]
        BY <2>3, <2>5
      <3> QED
        BY <1>1, <2>2, <3>1, <3>2, <3>3, TravelsByParts, TravelsNext
    <2>6. CASE UNCHANGED printed
      BY <1>1, <1>2, <2>2, <2>6, TravelsFrame
    <2> QED
      BY <1>7, <2>4, <2>5, <2>6 DEF HostPrints, Front
  <1> QED
    BY <1>4, <1>5, <1>6, <1>7 DEF HostStep

\* The PTA hands a key out.
LEMMA KeyExport ==
  ASSUME TypeInv, Waiting, Exclusive, KeyInv, KeyTravelsWhole, NEW h \in Hosts, ExportKey(h)
  PROVE  KeyInv' /\ KeyTravelsWhole' /\ param' \in [Hosts -> Params]
  <1>1. /\ param \in [Hosts -> Params]
        /\ res \in [Hosts -> {"none", "ok", "short", "error"}] /\ keys \in Nat
    BY DEF TypeInv
  <1>2. UNCHANGED <<mode, keyArg, printed, made, keys>> /\ stage' = "idle"
    BY DEF ExportKey, out_free, Returns
  <1>3. IsPair(key, keys)
    BY DEF ExportKey, Serves, KeyInv
  <1>4. /\ key \in KeyPairs /\ Len(key.d) \in Nat \ {0}
        /\ Padded(key.x) \in Seq(Names) /\ Padded(key.y) \in Seq(Names)
        /\ IsWhole(Padded(key.x), Padded(key.y), key.d, keys)
    BY <1>1, <1>3, PairFacts
  <1>5. KeyTravelsWhole'
    BY <1>1, <1>2, TravelsFrame
  <1>6. \A g \in Hosts : keyArg'[g] # <<>> => IsFull(keyArg'[g], keys)
    BY <1>2 DEF KeyInv
  <1>7. CASE param' = [param EXCEPT ![h].size = Len(key.d)] /\ Returns(h, "short")
    <2>1. \A g \in Hosts : res'[g] = "ok" => res[g] = "ok" /\ param'[g] = param[g]
      BY <1>1, <1>7 DEF Returns
    <2>2. KeyInv'
      BY <1>2, <1>6, <2>1, KeyFrame
    <2> QED
      BY <1>1, <1>4, <1>5, <1>7, <2>2 DEF Params
  <1>8. CASE param' = [param EXCEPT ![h] = Export(@)] /\ Returns(h, "ok")
    <2> DEFINE out == Export(param[h])
    <2>1. param[h].ser \in Seq(Names) /\ key.d \in Seq(Names)
      BY <1>1, <1>4 DEF KeyPairs, Params
    <2>2. out.ser \in Seq(Names) /\ Front(out) = key.d
      BY <2>1, FrontFacts DEF Export, Front
    <2>3. out \in Params
      BY <1>4, <2>2 DEF Export, Params
    <2>4. out.x = Padded(key.x) /\ out.y = Padded(key.y)
      BY DEF Export
    <2>5. IsWhole(out.x, out.y, Front(out), keys)
      BY <1>4, <2>2, <2>4
    <2> HIDE DEF out
    <2>6. /\ \A g \in Hosts : param'[g] = IF g = h THEN out ELSE param[g]
          /\ \A g \in Hosts : res'[g] = IF g = h THEN "ok" ELSE res[g]
      BY <1>1, <1>8 DEF Returns, out
    <2>7. mode[h] = "generate"
      <3>1. where[h] = "pta" /\ stage = "export" /\ mode[h] \in Modes
        BY DEF ExportKey, Serves, TypeInv
      <3> QED
        BY <3>1, StagesOfMode, EventsDistinct DEF Exclusive, Modes, ConvertStages, EvidenceStages
    <2>8. ASSUME NEW g \in Hosts
          PROVE  /\ mode'[g] = "generate" /\ res'[g] = "ok" =>
                      IsWhole(param'[g].x, param'[g].y, Front(param'[g]), keys')
                 /\ mode'[g] = "convert" /\ res'[g] = "ok" =>
                      \E n \in BlobLens : Front(param'[g]) = Number(g, "black", n)
                 /\ keyArg'[g] # <<>> => IsFull(keyArg'[g], keys')
      BY <1>2, <1>6, <2>5, <2>6, <2>7, <2>8 DEF KeyInv
    <2>9. KeyInv'
      BY <1>2, <2>8 DEF KeyInv
    <2>10. param' \in [Hosts -> Params]
      BY <1>1, <1>8, <2>3 DEF out
    <2> QED
      BY <1>5, <2>9, <2>10
  <1> QED
    BY <1>7, <1>8 DEF ExportKey, out_free

\* The PTA hands a converted key out.
LEMMA KeySerialize ==
  ASSUME TypeInv, Waiting, Exclusive, KeyInv, KeyTravelsWhole, NEW h \in Hosts, SerializeKey(h)
  PROVE  KeyInv' /\ KeyTravelsWhole' /\ param' \in [Hosts -> Params]
  <1>1. /\ param \in [Hosts -> Params]
        /\ res \in [Hosts -> {"none", "ok", "short", "error"}] /\ keys \in Nat
    BY DEF TypeInv
  <1>2. UNCHANGED <<mode, keyArg, printed, made, keys>> /\ stage' = "idle"
    BY DEF SerializeKey, convert_out, Returns
  <1>3. KeyTravelsWhole'
    BY <1>1, <1>2, TravelsFrame
  <1>4. \A g \in Hosts : keyArg'[g] # <<>> => IsFull(keyArg'[g], keys)
    BY <1>2 DEF KeyInv
  <1>5. CASE Returns(h, "error") /\ UNCHANGED param
    <2>1. \A g \in Hosts : res'[g] = "ok" => res[g] = "ok" /\ param'[g] = param[g]
      BY <1>1, <1>5 DEF Returns
    <2>2. KeyInv'
      BY <1>2, <1>4, <2>1, KeyFrame
    <2> QED
      BY <1>1, <1>3, <1>5, <2>2
  <1>6. ASSUME NEW need \in BlobLens, param' = [param EXCEPT ![h].size = need], Returns(h, "short")
        PROVE  KeyInv' /\ param' \in [Hosts -> Params]
    <2>1. \A g \in Hosts : res'[g] = "ok" => res[g] = "ok" /\ param'[g] = param[g]
      BY <1>1, <1>6 DEF Returns
    <2>2. need \in Nat
      BY PtaAssumption
    <2>3. KeyInv'
      BY <1>2, <1>4, <2>1, KeyFrame
    <2> QED
      BY <1>1, <1>6, <2>2, <2>3 DEF Params
  <1>7. ASSUME NEW need \in BlobLens, Returns(h, "ok"),
               param' = [param EXCEPT
                      ![h].ser = Number(h, "black", need) \o SubSeq(@, need + 1, Len(@)),
                      ![h].size = need]
        PROVE  KeyInv' /\ param' \in [Hosts -> Params]
    <2> DEFINE p   == param[h]
               ser == Number(h, "black", need) \o SubSeq(p.ser, need + 1, Len(p.ser))
               out == [p EXCEPT !.ser = ser, !.size = need]
    <2>1. need \in Nat /\ p.ser \in Seq(Names)
      BY <1>1, PtaAssumption DEF Params
    <2>2. Number(h, "black", need) \in Seq(Names) /\ Len(Number(h, "black", need)) = need
      BY <2>1, NumberType
    <2>3. ser \in Seq(Names) /\ SubSeq(ser, 1, need) = Number(h, "black", need)
      BY <2>1, <2>2, FrontFacts
    <2>4. param' = [param EXCEPT ![h] = out]
      BY <1>1, <1>7 DEF Params
    <2> HIDE DEF ser
    <2>5. /\ out \in Params
          /\ Front(out) = Number(h, "black", need)
      BY <1>1, <2>1, <2>3 DEF Front, Params
    <2> HIDE DEF out, p
    <2>6. /\ \A g \in Hosts : param'[g] = IF g = h THEN out ELSE param[g]
          /\ \A g \in Hosts : res'[g] = IF g = h THEN "ok" ELSE res[g]
      BY <1>1, <1>7, <2>4 DEF Returns
    <2>7. mode[h] = "convert"
      <3>1. where[h] = "pta" /\ stage = "serialize" /\ mode[h] \in Modes
        BY DEF SerializeKey, Serves, TypeInv
      <3> QED
        BY <3>1, StagesOfMode, EventsDistinct DEF Exclusive, Modes, GenerateStages, EvidenceStages
    <2>8. ASSUME NEW g \in Hosts
          PROVE  /\ mode'[g] = "generate" /\ res'[g] = "ok" =>
                      IsWhole(param'[g].x, param'[g].y, Front(param'[g]), keys')
                 /\ mode'[g] = "convert" /\ res'[g] = "ok" =>
                      \E n \in BlobLens : Front(param'[g]) = Number(g, "black", n)
                 /\ keyArg'[g] # <<>> => IsFull(keyArg'[g], keys')
      BY <1>2, <1>4, <2>5, <2>6, <2>7, <2>8 DEF KeyInv
    <2>9. KeyInv'
      BY <1>2, <2>8 DEF KeyInv
    <2> QED
      BY <1>1, <2>4, <2>5, <2>9
  <1> QED
    BY <1>3, <1>5, <1>6, <1>7 DEF SerializeKey, convert_out

\* The PTA generates a pair.
LEMMA KeyGenerate ==
  ASSUME TypeInv, KeyInv, KeyTravelsWhole, NEW h \in Hosts, GenerateKey(h)
  PROVE  KeyInv' /\ KeyTravelsWhole' /\ key' \in KeyPairs /\ keys' \in Nat
  <1>1. keys \in Nat /\ UNCHANGED <<mode, param, keyArg, printed, made>>
    BY DEF GenerateKey, hostVars, TypeInv
  <1>2. CASE out_free(h, "error") /\ UNCHANGED keys
    <2>1. KeyInv' /\ KeyTravelsWhole'
      BY <1>1, <1>2, KeyReturn DEF out_free
    <2>2. key' \in KeyPairs
      BY <1>2, EmptySeq DEF out_free, NoKey, KeyPairs
    <2> QED
      BY <1>1, <1>2, <2>1, <2>2
  <1>3. CASE /\ keys' = keys + 1 /\ stage' = "export" /\ UNCHANGED res
             /\ \E d \in BlobLens, x, y \in CoordLens :
                  key' = [d |-> Number(keys', "d", d), x |-> Number(keys', "x", x),
                          y |-> Number(keys', "y", y)]
    <2>1. keys' \in Nat /\ keys <= keys' /\ keys' \in 1..keys'
      BY <1>1, <1>3
    <2>2. IsPair(key', keys')
      BY <1>3, <2>1 DEF IsPair
    <2>3. key' \in KeyPairs
      BY <2>1, <2>2, PairFacts
    <2>4. KeyTravelsWhole'
      BY <1>1, <2>1, TravelsFrame
    <2>5. ASSUME NEW g \in Hosts
          PROVE  /\ mode'[g] = "generate" /\ res'[g] = "ok" =>
                      IsWhole(param'[g].x, param'[g].y, Front(param'[g]), keys')
                 /\ mode'[g] = "convert" /\ res'[g] = "ok" =>
                      \E n \in BlobLens : Front(param'[g]) = Number(g, "black", n)
                 /\ keyArg'[g] # <<>> => IsFull(keyArg'[g], keys')
      BY <1>1, <1>3, <2>1, <2>5, MorePairs DEF KeyInv
    <2>6. KeyInv'
      BY <2>2, <2>5 DEF KeyInv
    <2> QED
      BY <2>1, <2>3, <2>4, <2>6
  <1> QED
    BY <1>2, <1>3 DEF GenerateKey

\* The evidence is made with the key that was given, and only with that.
LEMMA KeyEvidence ==
  ASSUME TypeInv, Exclusive, KeyInv, KeyTravelsWhole, NEW h \in Hosts, EvidenceCall(h)
  PROVE  KeyInv' /\ KeyTravelsWhole' /\ made' \in [Hosts -> KeyPairs]
  <1>1. /\ UNCHANGED <<mode, param, keyArg, printed, key, keys>>
        /\ keys \in Nat /\ made \in [Hosts -> KeyPairs]
    BY DEF EvidenceCall, hostVars, TypeInv
  <1>2. \A g \in Hosts : keyArg[g] # <<>> => IsFull(keyArg[g], keys)
    BY DEF KeyInv
  <1>3. CASE UNCHANGED <<res, made>> /\ \E i \in 1..10 : stage' = EvidenceEvents[i + 1]
    <2>1. stage' # "export"
      <3>1. \A i \in 1..10 : i + 1 \in 1..11
        OBVIOUS
      <3> QED
        BY <1>3, <3>1, EventsDistinct
    <2> QED
      BY <1>1, <1>2, <1>3, <2>1, KeyFrame, TravelsFrame
  <1>4. CASE /\ stage = "cmd_total" /\ Returns(h, "ok")
             /\ made' = [made EXCEPT ![h] = IF keyArg[h] = <<>> THEN NoKey ELSE SplitKey(keyArg[h])]
    <2>1. mode[h] = "evidence"
      <3>1. where[h] = "pta" /\ mode[h] \in Modes
        BY DEF EvidenceCall, TypeInv
      <3> QED
        BY <1>4, <3>1, StagesOfMode DEF Exclusive, Modes, GenerateStages, ConvertStages
    <2>2. \A g \in Hosts : res'[g] = "ok" => res[g] = "ok" \/ mode[g] = "evidence"
      BY <1>4, <2>1 DEF Returns, TypeInv
    <2>3. KeyInv'
      BY <1>1, <1>2, <1>4, <2>2, KeyFrame DEF Returns
    <2> DEFINE new == IF keyArg[h] = <<>> THEN NoKey ELSE SplitKey(keyArg[h])
    <2>4. new \in KeyPairs /\ (new # NoKey => IsMade(new, keys))
      <3>1. NoKey \in KeyPairs
        BY EmptySeq DEF NoKey, KeyPairs
      <3> QED
        BY <1>1, <1>2, <3>1, FullFacts
    <2> HIDE DEF new
    <2>5. \A g \in Hosts : made'[g] = IF g = h THEN new ELSE made[g]
      BY <1>1, <1>4 DEF new
    <2>6. made' \in [Hosts -> KeyPairs]
      BY <1>1, <1>4, <2>4 DEF new
    <2>7. \A g \in Hosts : made'[g] # NoKey => IsMade(made'[g], keys')
      BY <1>1, <2>4, <2>5, TravelsByParts
    <2>8. \A g \in Hosts : printed'[g] # <<>> =>
            IF mode'[g] = "generate" THEN IsFull(printed'[g], keys')
            ELSE \E n \in BlobLens : printed'[g] = Number(g, "black", n)
      BY <1>1, TravelsByParts
    <2>9. KeyTravelsWhole'
      BY <2>7, <2>8, TravelsNext
    <2> QED
      BY <2>3, <2>6, <2>9
  <1> QED
    BY <1>3, <1>4, EventsLen DEF EvidenceCall

\* So does every step.
LEMMA KeyStep ==
  ASSUME TypeInv, Exclusive, Waiting, KeyInv, KeyTravelsWhole,
         NEW h \in Hosts, HostStep(h) \/ PtaStep(h)
  PROVE  KeyInv' /\ KeyTravelsWhole'
  <1>1. CASE invoke_command(h)
    <2>1. UNCHANGED <<mode, param, keyArg, printed, made, res, key, keys>>
      BY <1>1 DEF invoke_command, hostVars
    <2>2. stage' # "export"
      BY <1>1, FirstStageOwn DEF invoke_command, TypeInv, Modes
    <2>3. \A g \in Hosts : keyArg[g] # <<>> => IsFull(keyArg[g], keys)
      BY DEF KeyInv
    <2> QED
      BY <2>1, <2>2, <2>3, KeyFrame, TravelsFrame DEF TypeInv
  <1>2. ASSUME UNCHANGED <<mode, param, keyArg, printed, made, keys>>,
               \/ Returns(h, "error")
               \/ UNCHANGED res /\ stage' \in {"gen", "encap", "serialize"}
        PROVE  KeyInv' /\ KeyTravelsWhole'
    <2>1. CASE Returns(h, "error")
      BY <1>2, <2>1, KeyReturn
    <2>2. CASE UNCHANGED res /\ stage' \in {"gen", "encap", "serialize"}
      <3>1. \A g \in Hosts : keyArg[g] # <<>> => IsFull(keyArg[g], keys)
        BY DEF KeyInv
      <3> QED
        BY <1>2, <2>2, <3>1, KeyFrame, TravelsFrame DEF TypeInv
    <2> QED
      BY <1>2, <2>1, <2>2
  <1>3. CASE AllocKeypair(h)
    BY <1>2, <1>3 DEF AllocKeypair, hostVars
  <1>4. CASE KeyAlloc(h)
    BY <1>2, <1>4 DEF KeyAlloc, hostVars
  <1>5. CASE BlackEncapsulation(h)
    BY <1>2, <1>5 DEF BlackEncapsulation, convert_out, hostVars
  <1>6. CASE EvidenceFails(h)
    BY <1>2, <1>6 DEF EvidenceFails, hostVars
  <1> QED
    BY <1>1, <1>3, <1>4, <1>5, <1>6, KeyHostStep, KeyGenerate, KeyExport, KeySerialize,
       KeyEvidence DEF PtaStep
-----------------------------------------------------------------------------
(* Types *)

\* The control of a host step, then its data.
LEMMA HostTypeStep ==
  ASSUME TypeInv, Waiting, KeyInv, KeyTravelsWhole, NEW h \in Hosts, HostStep(h)
  PROVE  TypeInv'
  <1>1. UNCHANGED <<mode, made, stage, key, keys, perf, own>>
    BY HostKinds DEF ptaVars
  <1>2. where' \in [Hosts -> {"host", "ta", "pta", "back"}]
    BY HostKinds DEF TypeInv
  <1>3. step' \in [Hosts -> {"start", "probe", "fetch", "convert", "evidence", "done", "error"}]
    <2>1. step \in [Hosts -> {"start", "probe", "fetch", "convert", "evidence", "done", "error"}]
      BY DEF TypeInv
    <2> QED
      BY <2>1 DEF HostStep, HostStart, TaOpen, TaReturn, HostFetch, HostFails, HostPrints, hostVars
  <1>4. res' \in [Hosts -> {"none", "ok", "short", "error"}]
    <2>1. res \in [Hosts -> {"none", "ok", "short", "error"}]
      BY DEF TypeInv
    <2> QED
      BY <2>1 DEF HostStep, HostStart, TaOpen, TaReturn, HostFetch, HostFails, HostPrints
  <1>5. param' \in [Hosts -> Params]
    <2>1. param \in [Hosts -> Params]
      BY DEF TypeInv
    <2>2. CASE UNCHANGED param
      BY <2>1, <2>2
    <2>3. CASE param' = [param EXCEPT ![h].ser = Zeros(ConvertSize), ![h].size = ConvertSize]
      <3>1. ConvertSize \in Nat /\ Zeros(ConvertSize) \in Seq(Names)
        BY PtaAssumption, ZerosType
      <3> QED
        BY <2>1, <2>3, <3>1 DEF Params
    <2>4. CASE param' = [param EXCEPT ![h].ser = Zeros(param[h].size)]
      <3>1. Zeros(param[h].size) \in Seq(Names)
        BY <2>1, ZerosType DEF Params
      <3> QED
        BY <2>1, <2>4, <3>1 DEF Params
    <2> QED
      BY <2>2, <2>3, <2>4
         DEF HostStep, HostStart, TaOpen, TaReturn, HostFetch, HostFails, HostPrints, hostVars
  <1>6. printed \in [Hosts -> Seq(Names)] /\ keyArg \in [Hosts -> Seq(Names)] /\ keys \in Nat
    BY DEF TypeInv
  <1>7. keyArg' \in [Hosts -> Seq(Names)]
    <2>1. CASE UNCHANGED keyArg
      BY <1>6, <2>1
    <2>2. CASE HostStart(h) /\ keyArg' # keyArg
      <3>1. PICK k \in {<<>>} \cup {printed[g] : g \in {g \in Hosts : mode[g] = "generate"}} :
              keyArg' = [keyArg EXCEPT ![h] = k]
        BY <2>2 DEF HostStart
      <3>2. k \in Seq(Names)
        BY <1>6, EmptySeq
      <3> QED
        BY <1>6, <3>1, <3>2
    <2> QED
      BY <2>1, <2>2 DEF HostStep, TaOpen, TaReturn, HostFetch, HostFails, HostPrints, hostVars
  <1>8. printed' \in [Hosts -> Seq(Names)]
    <2>1. CASE UNCHANGED printed
      BY <1>6, <2>1
    <2>2. CASE HostPrints(h) /\ step[h] = "fetch" /\ printed' = [printed EXCEPT ![h] = FullKey(param[h])]
      <3>1. mode[h] = "generate" /\ res[h] = "ok"
        BY <2>2 DEF Waiting, HostPrints
      <3>2. IsFull(FullKey(param[h]), keys)
        BY <1>6, <3>1, WholeIsFull DEF KeyInv, FullKey, Front
      <3> QED
        BY <1>6, <2>2, <3>2, FullFacts
    <2>3. CASE HostPrints(h) /\ step[h] = "convert" /\ printed' = [printed EXCEPT ![h] = Front(param[h])]
      <3>1. mode[h] = "convert" /\ res[h] = "ok"
        BY <2>3 DEF Waiting, HostPrints
      <3>2. PICK n \in BlobLens : Front(param[h]) = Number(h, "black", n)
        BY <3>1 DEF KeyInv
      <3>3. Front(param[h]) \in Seq(Names)
        <4>1. n \in Nat /\ h \in Nat \cup Hosts
          BY PtaAssumption
        <4> QED
          BY <3>2, <4>1, NumberType
      <3> QED
        BY <1>6, <2>3, <3>3
    <2> QED
      BY <2>1, <2>2, <2>3
         DEF HostStep, HostStart, TaOpen, TaReturn, HostFetch, HostFails, HostPrints, hostVars, Front
  <1> QED
    BY <1>1, <1>2, <1>3, <1>4, <1>5, <1>7, <1>8 DEF TypeInv

\* A step of the PTA keeps the types.
LEMMA PtaTypeStep ==
  ASSUME TypeInv, Exclusive, Waiting, EventInv, FlushIsOwn, KeyInv, KeyTravelsWhole,
         NEW h \in Hosts, PtaStep(h)
  PROVE  TypeInv'
  <1>1. UNCHANGED <<mode, step, keyArg, printed>>
    BY DEF PtaStep, invoke_command, AllocKeypair, GenerateKey, ExportKey, KeyAlloc,
           BlackEncapsulation, SerializeKey, EvidenceCall, EvidenceFails, hostVars
  <1>2. perf' \in Seq(Events) /\ own' \in [Hosts -> Seq(Events)]
    BY EventStep
  <1>3. /\ where' \in [Hosts -> {"host", "ta", "pta", "back"}]
        /\ res' \in [Hosts -> {"none", "ok", "short", "error"}]
        /\ stage' \in {"idle"} \cup GenerateStages \cup ConvertStages \cup EvidenceStages
    <2>1. /\ where \in [Hosts -> {"host", "ta", "pta", "back"}]
          /\ res \in [Hosts -> {"none", "ok", "short", "error"}]
          /\ mode[h] \in Modes
      BY DEF TypeInv
    <2>2. CASE invoke_command(h)
      <3>1. stage' \in {"alloc", "key_alloc", EvidenceEvents[1]}
        BY <2>1, <2>2, FirstStageOwn, EventsDistinct DEF invoke_command, Modes
      <3> QED
        BY <2>1, <2>2, <3>1 DEF invoke_command, GenerateStages, ConvertStages, EvidenceStages
    <2>3. CASE ~invoke_command(h)
      <3>1. \/ \E r \in {"ok", "short", "error"} : Returns(h, r)
            \/ stage' \in StagesOf(mode[h]) /\ UNCHANGED <<where, res>>
        BY <2>3, PtaKinds
      <3>2. StagesOf(mode[h]) \subseteq GenerateStages \cup ConvertStages \cup EvidenceStages
        BY <2>1, StagesOfMode DEF Modes
      <3> QED
        BY <2>1, <3>1, <3>2 DEF Returns
    <2> QED
      BY <2>2, <2>3
  <1>4. param' \in [Hosts -> Params]
    <2>1. CASE UNCHANGED param
      BY <2>1 DEF TypeInv
    <2> QED
      BY <2>1, KeyExport, KeySerialize
         DEF PtaStep, invoke_command, AllocKeypair, GenerateKey, KeyAlloc, BlackEncapsulation,
             EvidenceCall, EvidenceFails, hostVars
  <1>5. made' \in [Hosts -> KeyPairs]
    <2>1. CASE UNCHANGED made
      BY <2>1 DEF TypeInv
    <2> QED
      BY <2>1, KeyEvidence
         DEF PtaStep, invoke_command, AllocKeypair, GenerateKey, ExportKey, KeyAlloc,
             BlackEncapsulation, SerializeKey, EvidenceFails
  <1>6. key' \in KeyPairs /\ keys' \in Nat
    <2>1. NoKey \in KeyPairs
      BY EmptySeq DEF NoKey, KeyPairs
    <2>2. CASE key' \in {key, NoKey} /\ UNCHANGED keys
      BY <2>1, <2>2 DEF TypeInv
    <2> QED
      BY <2>2, KeyGenerate
         DEF PtaStep, invoke_command, AllocKeypair, ExportKey, out_free, KeyAlloc,
             BlackEncapsulation, SerializeKey, EvidenceCall, EvidenceFails
  <1> QED
    BY <1>1, <1>2, <1>3, <1>4, <1>5, <1>6 DEF TypeInv

-----------------------------------------------------------------------------
(* The theorems *)

\* The invariant holds at the start.
LEMMA InitIInv == Init => IInv
  <1> SUFFICES ASSUME Init PROVE IInv
    OBVIOUS
  <1> USE DEF Init
  <1>1. <<>> \in Seq(Names) /\ <<>> \in Seq(Events) /\ Len(<<>>) = 0
    BY EmptySeq
  <1>2. Zeros(sec_size) \in Seq(Names)
    BY ZerosType, PtaAssumption
  <1>3. TypeInv
    <2>1. NoKey \in KeyPairs
      BY <1>1 DEF NoKey, KeyPairs
    <2>2. param \in [Hosts -> Params]
      BY <1>1, <1>2 DEF Params
    <2> QED
      BY <1>1, <2>1, <2>2 DEF TypeInv
  <1>4. Exclusive /\ Waiting
    BY DEF Exclusive, Waiting
  <1>5. HeldInv
    BY DEF HeldInv
  <1>6. EventInv /\ FlushIsOwn
    BY <1>1, EventsDistinct DEF EventInv, FlushIsOwn
  <1>7. KeyInv
    BY DEF KeyInv
  <1>8. KeyTravelsWhole
    BY DEF KeyTravelsWhole
  <1> QED
    BY <1>3, <1>4, <1>5, <1>6, <1>7, <1>8 DEF IInv

\* Every step keeps the invariant.
LEMMA NextIInv == IInv /\ [Next]_vars => IInv'
  <1>1. ASSUME IInv, NEW h \in Hosts, HostStep(h) \/ PtaStep(h)
        PROVE  IInv'
    <2>1. TypeInv'
      BY <1>1, HostTypeStep, PtaTypeStep DEF IInv
    <2>2. Exclusive' /\ Waiting'
      BY <1>1, ExclusiveStep, WaitingStep DEF IInv
    <2>3. HeldInv'
      BY <1>1, HeldStep DEF IInv
    <2>4. EventInv' /\ FlushIsOwn'
      BY <1>1, EventStep DEF IInv
    <2>5. KeyInv' /\ KeyTravelsWhole'
      BY <1>1, KeyStep DEF IInv
    <2> QED
      BY <2>1, <2>2, <2>3, <2>4, <2>5 DEF IInv
  <1>2. ASSUME IInv, UNCHANGED vars
        PROVE  IInv'
    <2>1. UNCHANGED <<mode, step, where, param, keyArg, res, printed, made, stage, key, live, keys,
                      perf, own, flushed>>
      BY <1>2 DEF vars, hostVars, ptaVars
    <2>2. TypeInv'
      BY <1>2, <2>1 DEF IInv, TypeInv
    <2>3. Exclusive' /\ Waiting'
      BY <1>2, <2>1 DEF IInv, Exclusive, Waiting
    <2>4. HeldInv' /\ EventInv' /\ FlushIsOwn'
      BY <1>2, <2>1 DEF IInv, HeldInv, EventInv, FlushIsOwn
    <2>5. KeyInv'
      BY <1>2, <2>1 DEF IInv, KeyInv
    <2>6. KeyTravelsWhole'
      BY <1>2, <2>1, Zenon DEF IInv, KeyTravelsWhole
    <2> QED
      BY <2>2, <2>3, <2>4, <2>5, <2>6 DEF IInv
  <1> QED
    BY <1>1, <1>2 DEF Next

\* The invariant of the commands: one of them is in the PTA at a time, with what it holds,
\* the events it recorded and the keys on their way.
THEOREM PtaInvariant == Spec => []IInv
  BY InitIInv, NextIInv, PTL DEF Spec

\* However often a pair is generated and whatever other hosts do meanwhile, what a host
\* prints, and what the evidence command cuts out of it, is the whole of one pair.
THEOREM KeysTravelWhole == Spec => []KeyTravelsWhole
  <1>1. IInv => KeyTravelsWhole
    BY DEF IInv
  <1> QED
    BY <1>1, PtaInvariant, PTL

\* Every report shows the events of the command that makes it and no others.
THEOREM FlushesAreOwn == Spec => []FlushIsOwn
  <1>1. IInv => FlushIsOwn
    BY DEF IInv
  <1> QED
    BY <1>1, PtaInvariant, PTL

\* The PTA keeps no key material between commands.
THEOREM KeysAreFreed == Spec => []KeysFreed
  <1>1. IInv => KeysFreed
    BY DEF IInv, HeldInv, KeysFreed
  <1> QED
    BY <1>1, PtaInvariant, PTL
=============================================================================
