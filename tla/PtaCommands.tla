---------------------------- MODULE PtaCommands ----------------------------
(***************************************************************************)
(* The commands of the attestation PTA as several host processes use them  *)
(* through their trusted applications: generating a black key, converting  *)
(* a plain one and making evidence, with the event buffer of perf.c that   *)
(* all commands share.                                                     *)
(*                                                                         *)
(* A host process runs once, in one mode.  Its command goes to the TA,     *)
(* which opens a session to the PTA for it.  The PTA is registered without *)
(* the concurrent flag, and perf.c counts on OP-TEE core giving it one     *)
(* command at a time (PtaFree): its buffer would otherwise interleave the  *)
(* events of two.  The steps of a command are its calls that can fail.     *)
(*                                                                         *)
(* A byte of a key is named by the key, the number it belongs to and its   *)
(* place in it, most significant first.                                    *)
(***************************************************************************)
EXTENDS Naturals, Sequences

CONSTANTS Hosts,            \* host processes
          NoHost,
          sec_size,         \* bytes of a coordinate (32 in the code)
          CoordLens,        \* lengths a coordinate may have as a number
          BlobLens,         \* lengths of a serialized black key
          ConvertSize       \* the host's buffer for a converted key (512)

ASSUME PtaAssumption ==
    /\ NoHost \notin Hosts
    /\ sec_size \in Nat \ {0}
    /\ CoordLens \subseteq 1..sec_size
    /\ BlobLens \subseteq Nat \ {0}
    /\ ConvertSize \in Nat

VARIABLES
    mode,      \* what each host was started for
    step,      \* where it stands
    where,     \* whose code runs for it: host, ta, pta, or ta again ("back")
    param,     \* the buffers it passes: serialized key, its size, coordinates
    keyArg,    \* the key given with --key-hex (empty: none)
    res,       \* the result of its command
    printed,   \* what it printed: the full key, or the converted one
    made,      \* the key material behind the evidence it got
    stage,     \* the PTA's next call
    key,       \* the key pair the PTA holds
    live,      \* what the PTA has allocated and not freed
    keys,      \* how many key pairs have been generated
    perf,      \* ra_perf_events, up to ra_perf_num_events
    own,       \* the events each host's command in the PTA has recorded
    flushed    \* the last report: what it showed and what it was about

hostVars == <<mode, step, param, keyArg, printed>>
ptaVars  == <<stage, key, live, keys, perf, own, flushed>>
vars     == <<hostVars, where, res, made, ptaVars>>

Modes == {"generate", "convert", "evidence"}

Zero == <<NoHost, "zero", 0>>
Zeros(n) == [i \in 1..n |-> Zero]

\* The bytes of a number of a key.
Number(id, part, len) == [i \in 1..len |-> <<id, part, i>>]

\* The number in as many bytes as a coordinate has.
Padded(n) == Zeros(sec_size - Len(n)) \o n

NoKey == [d |-> <<>>, x |-> <<>>, y |-> <<>>]

\* The calls of cmd_get_cbor_evidence that can fail, by the event they record; the
\* sign_ events are those of sign_ecdsa_sha256 inside generate_cose.
EvidenceEvents ==
    <<"ocotp_srk", "ocotp_lifecycle", "instance_id", "hash_ta", "hash_tee", "cbor_encode",
      "sign_key_setup", "sign_tbs_hash", "sign_ecdsa", "cose_sign1", "cmd_total">>

FirstStage == [generate |-> "alloc", convert |-> "key_alloc", evidence |-> "ocotp_srk"]

-----------------------------------------------------------------------------
(* perf.c *)

RA_PERF_MAX_EVENTS == 16

ra_perf_reset == perf' = <<>>

\* The events after a record: a full buffer takes no more.
ra_perf_record(buffer, event) ==
    IF Len(buffer) >= RA_PERF_MAX_EVENTS THEN buffer ELSE Append(buffer, event)

\* RA_PERF_STOP in the middle of a command.
Record(h, event) ==
    /\ perf' = ra_perf_record(perf, event)
    /\ own' = [own EXCEPT ![h] = Append(@, event)]
    /\ UNCHANGED flushed

\* The events in the buffer are reported, those of the command should be.
ra_perf_flush(h, buffer, events) ==
    /\ flushed' = [shown |-> buffer, own |-> events]
    /\ perf' = <<>>
    /\ own' = [own EXCEPT ![h] = <<>>]

-----------------------------------------------------------------------------
(* The host *)

InTee(h) == where[h] # "host"

\* A host starts, or its arguments or the TEE stop it.
HostStart(h) ==
    /\ step[h] = "start"
    /\ \/ step' = [step EXCEPT ![h] = "error"] /\ UNCHANGED <<param, keyArg>>
       \/ /\ mode[h] = "generate"
          /\ step' = [step EXCEPT ![h] = "probe"]
          /\ UNCHANGED <<param, keyArg>>
       \/ /\ mode[h] = "convert"
          /\ step' = [step EXCEPT ![h] = "convert"]
          /\ param' = [param EXCEPT ![h].ser = Zeros(ConvertSize), ![h].size = ConvertSize]
          /\ UNCHANGED keyArg
       \/ /\ mode[h] = "evidence"
          /\ step' = [step EXCEPT ![h] = "evidence"]
          /\ \E k \in {<<>>} \cup {printed[g] : g \in {g \in Hosts : mode[g] = "generate"}} :
                keyArg' = [keyArg EXCEPT ![h] = k]
          /\ UNCHANGED param
    /\ UNCHANGED <<mode, where, res, printed, made, ptaVars>>

\* The command goes to the TA, which opens a session to the PTA, or cannot.
TaOpen(h) ==
    /\ ~InTee(h)
    /\ step[h] \in {"probe", "fetch", "convert", "evidence"}
    /\ res[h] = "none"
    /\ \/ where' = [where EXCEPT ![h] = "ta"] /\ UNCHANGED res
       \/ res' = [res EXCEPT ![h] = "error"] /\ UNCHANGED where
    /\ UNCHANGED <<hostVars, made, ptaVars>>

\* The TA closes the session and returns the PTA's result.
TaReturn(h) ==
    /\ where[h] = "back"
    /\ where' = [where EXCEPT ![h] = "host"]
    /\ UNCHANGED <<hostVars, res, made, ptaVars>>

Returned(h) == ~InTee(h) /\ res[h] # "none"

\* The size is known: ask again with a buffer of that size.
HostFetch(h) ==
    /\ step[h] = "probe"
    /\ Returned(h)
    /\ res[h] \in {"short", "ok"}
    /\ param[h].size # 0
    /\ step' = [step EXCEPT ![h] = "fetch"]
    /\ param' = [param EXCEPT ![h].ser = Zeros(param[h].size)]
    /\ res' = [res EXCEPT ![h] = "none"]
    /\ UNCHANGED <<mode, where, keyArg, printed, made, ptaVars>>

\* A variant for testing the properties: a command that fails is sent again.
HostFails_TriesAgain(h) ==
    /\ Returned(h)
    /\ step[h] \in {"probe", "fetch", "convert", "evidence"}
    /\ step[h] = "probe" \/ res[h] # "ok"
    /\ IF res[h] = "error"
       THEN res' = [res EXCEPT ![h] = "none"] /\ UNCHANGED step
       ELSE step' = [step EXCEPT ![h] = "error"] /\ UNCHANGED res
    /\ UNCHANGED <<mode, where, param, keyArg, printed, made, ptaVars>>

\* Any other result than a success ends the process, as does a failing malloc.
HostFails(h) ==
    /\ Returned(h)
    /\ step[h] \in {"probe", "fetch", "convert", "evidence"}
    /\ step[h] = "probe" \/ res[h] # "ok"
    /\ step' = [step EXCEPT ![h] = "error"]
    /\ UNCHANGED <<mode, where, param, keyArg, res, printed, made, ptaVars>>

\* The full key is PubX, PubY and the blob, in the size the PTA returned.
FullKey(p) == p.x \o p.y \o SubSeq(p.ser, 1, p.size)

HostPrints(h) ==
    /\ step[h] \in {"fetch", "convert", "evidence"}
    /\ Returned(h)
    /\ res[h] = "ok"
    /\ step' = [step EXCEPT ![h] = "done"]
    /\ \/ /\ step[h] = "fetch"
          /\ printed' = [printed EXCEPT ![h] = FullKey(param[h])]
       \/ /\ step[h] = "convert"
          /\ printed' = [printed EXCEPT ![h] = SubSeq(param[h].ser, 1, param[h].size)]
       \/ /\ step[h] \in {"fetch", "evidence"}   \* no memory for the full key, or no key
          /\ UNCHANGED printed
    /\ UNCHANGED <<mode, where, param, keyArg, res, made, ptaVars>>

-----------------------------------------------------------------------------
(* The PTA *)

Serves(h, s) == where[h] = "pta" /\ stage = s

Returns(h, r) ==
    /\ where' = [where EXCEPT ![h] = "back"]
    /\ res' = [res EXCEPT ![h] = r]
    /\ stage' = "idle"

\* A variant for testing the properties: a PTA that takes commands concurrently.
PtaFree_Concurrent == TRUE

\* PTA_DEFAULT_FLAGS leave out TA_FLAG_CONCURRENT: OP-TEE core keeps a command waiting
\* while another one is in the PTA.
PtaFree == \A g \in Hosts : where[g] # "pta"

\* invoke_command: the command starts with an empty event buffer.
invoke_command(h) ==
    /\ where[h] = "ta"
    /\ PtaFree
    /\ where' = [where EXCEPT ![h] = "pta"]
    /\ stage' = FirstStage[mode[h]]
    /\ ra_perf_reset
    /\ own' = [own EXCEPT ![h] = <<>>]
    /\ UNCHANGED <<hostVars, res, made, key, live, keys, flushed>>

AllocKeypair(h) ==
    /\ Serves(h, "alloc")
    /\ \/ Returns(h, "error") /\ UNCHANGED live
       \/ live' = {"d", "x", "y"} /\ stage' = "gen" /\ UNCHANGED <<where, res>>
    /\ UNCHANGED <<hostVars, made, key, keys, perf, own, flushed>>

\* A variant for testing the properties: a failure returns at once.
out_free_Skipped(h, r) ==
    /\ Returns(h, r)
    /\ ra_perf_flush(h, perf, own[h])
    /\ live' = IF r = "error" THEN live ELSE {}
    /\ key' = NoKey

\* out_free: the numbers go, the events are reported.
out_free(h, r) ==
    /\ Returns(h, r)
    /\ ra_perf_flush(h, perf, own[h])
    /\ live' = {}
    /\ key' = NoKey

GenerateKey(h) ==
    /\ Serves(h, "gen")
    /\ \/ /\ out_free(h, "error")
          /\ UNCHANGED keys
       \/ /\ keys' = keys + 1
          /\ \E d \in BlobLens, x, y \in CoordLens :
                key' = [d |-> Number(keys', "d", d), x |-> Number(keys', "x", x),
                        y |-> Number(keys', "y", y)]
          /\ Record(h, "keypair_generate")
          /\ stage' = "export"
          /\ UNCHANGED <<where, res, live>>
    /\ UNCHANGED <<hostVars, made>>

\* A variant for testing the properties: coordinates are not moved to the end.
Export_Left(p) ==
    [ser |-> key.d \o SubSeq(p.ser, Len(key.d) + 1, Len(p.ser)), size |-> Len(key.d),
     x |-> key.x \o Zeros(sec_size - Len(key.x)), y |-> key.y \o Zeros(sec_size - Len(key.y))]

\* The blob in front of its buffer (the host's have the size they are given with and room
\* for both coordinates), the coordinates at the end of theirs, zeros before.
Export(p) ==
    [ser |-> key.d \o SubSeq(p.ser, Len(key.d) + 1, Len(p.ser)), size |-> Len(key.d),
     x |-> Padded(key.x), y |-> Padded(key.y)]

ExportKey(h) ==
    /\ Serves(h, "export")
    /\ \/ /\ param[h].size < Len(key.d)                     \* the size probe
          /\ param' = [param EXCEPT ![h].size = Len(key.d)]
          /\ out_free(h, "short")
       \/ /\ param[h].size >= Len(key.d)
          /\ param' = [param EXCEPT ![h] = Export(@)]
          /\ out_free(h, "ok")
    /\ UNCHANGED <<mode, step, keyArg, printed, made, keys>>

KeyAlloc(h) ==
    /\ Serves(h, "key_alloc")
    /\ \/ Returns(h, "error") /\ UNCHANGED live
       \/ live' = {"caam_key"} /\ stage' = "encap" /\ UNCHANGED <<where, res>>
    /\ UNCHANGED <<hostVars, made, key, keys, perf, own, flushed>>

\* out: the CAAM key goes, the whole command is recorded and reported.
convert_out(h, r) ==
    /\ Returns(h, r)
    /\ ra_perf_flush(h, ra_perf_record(perf, "convert_total"), Append(own[h], "convert_total"))
    /\ live' = {}

BlackEncapsulation(h) ==
    /\ Serves(h, "encap")
    /\ \/ convert_out(h, "error")
       \/ Record(h, "blackkey_encap") /\ stage' = "serialize" /\ UNCHANGED <<where, res, live>>
    /\ UNCHANGED <<hostVars, made, key, keys>>

\* The plain key of a host wrapped by the CAAM: a blob of some size.
SerializeKey(h) ==
    /\ Serves(h, "serialize")
    /\ \/ convert_out(h, "error") /\ UNCHANGED param
       \/ \E need \in BlobLens :
            \/ /\ param[h].size < need
               /\ param' = [param EXCEPT ![h].size = need]
               /\ convert_out(h, "short")
            \/ /\ param[h].size >= need
               /\ param' = [param EXCEPT
                      ![h].ser = Number(h, "black", need) \o SubSeq(@, need + 1, Len(@)),
                      ![h].size = need]
               /\ convert_out(h, "ok")
    /\ UNCHANGED <<mode, step, keyArg, printed, made, key, keys>>

MIN_KEY_PARAM_SIZE == 2 * sec_size + 1

\* The key the evidence command takes apart again.
SplitKey(p) ==
    [x |-> SubSeq(p, 1, sec_size), y |-> SubSeq(p, sec_size + 1, 2 * sec_size),
     d |-> SubSeq(p, MIN_KEY_PARAM_SIZE, Len(p))]

\* A call of the evidence command fails, and the command returns at once, its events left.
EvidenceFails(h) ==
    /\ where[h] = "pta"
    /\ stage \in {EvidenceEvents[i] : i \in 1..(Len(EvidenceEvents) - 1)}
    /\ Returns(h, "error")
    /\ own' = [own EXCEPT ![h] = <<>>]
    /\ UNCHANGED <<hostVars, made, key, live, keys, perf, flushed>>

\* The call succeeds; at the end the evidence is copied out and the events reported.
EvidenceCall(h) ==
    /\ where[h] = "pta"
    /\ keyArg[h] = <<>> \/ Len(keyArg[h]) >= MIN_KEY_PARAM_SIZE
    /\ \/ \E i \in 1..(Len(EvidenceEvents) - 1) :
            /\ stage = EvidenceEvents[i]
            /\ Record(h, stage)
            /\ stage' = EvidenceEvents[i + 1]
            /\ UNCHANGED <<where, res, made>>
       \/ /\ stage = "cmd_total"
          /\ Returns(h, "ok")
          /\ ra_perf_flush(h, ra_perf_record(perf, stage), Append(own[h], stage))
          /\ made' = [made EXCEPT ![h] = IF keyArg[h] = <<>> THEN NoKey ELSE SplitKey(keyArg[h])]
    /\ UNCHANGED <<hostVars, key, live, keys>>

-----------------------------------------------------------------------------
Init ==
    /\ mode \in [Hosts -> Modes]
    /\ step = [h \in Hosts |-> "start"]
    /\ where = [h \in Hosts |-> "host"]
    /\ param = [h \in Hosts |->
                  [ser |-> <<>>, size |-> 0, x |-> Zeros(sec_size), y |-> Zeros(sec_size)]]
    /\ keyArg = [h \in Hosts |-> <<>>]
    /\ res = [h \in Hosts |-> "none"]
    /\ printed = [h \in Hosts |-> <<>>]
    /\ made = [h \in Hosts |-> NoKey]
    /\ stage = "idle" /\ key = NoKey /\ live = {} /\ keys = 0
    /\ perf = <<>> /\ own = [h \in Hosts |-> <<>>] /\ flushed = [shown |-> <<>>, own |-> <<>>]

HostStep(h) ==
    \/ HostStart(h) \/ TaOpen(h) \/ TaReturn(h)
    \/ HostFetch(h) \/ HostFails(h) \/ HostPrints(h)

PtaStep(h) ==
    \/ invoke_command(h)
    \/ AllocKeypair(h) \/ GenerateKey(h) \/ ExportKey(h)
    \/ KeyAlloc(h) \/ BlackEncapsulation(h) \/ SerializeKey(h)
    \/ EvidenceCall(h) \/ EvidenceFails(h)

Next == \E h \in Hosts : HostStep(h) \/ PtaStep(h)

Spec == Init /\ [][Next]_vars

\* Every process goes on, and so does a command once it is in the PTA or the PTA is
\* free for good: no order among those waiting for it is assumed.
FairSpec ==
    /\ Spec
    /\ \A h \in Hosts : WF_vars(HostStep(h)) /\ WF_vars(PtaStep(h))

-----------------------------------------------------------------------------
(* Properties *)

\* The key a host prints, and the key an evidence command cuts out of it, are the whole of
\* one generated pair, blob and coordinates right-aligned, although the pair was generated
\* twice with other hosts' commands in between; a converted key is the host's own.
KeyTravelsWhole ==
    /\ \A h \in Hosts : printed[h] # <<>> =>
         IF mode[h] = "generate"
         THEN \E k \in 1..keys, d \in BlobLens, x, y \in CoordLens :
                printed[h] = Padded(Number(k, "x", x)) \o Padded(Number(k, "y", y))
                               \o Number(k, "d", d)
         ELSE \E n \in BlobLens : printed[h] = Number(h, "black", n)
    /\ \A h \in Hosts : made[h] # NoKey =>
         \E k \in 1..keys, d \in BlobLens, x, y \in CoordLens :
           made[h] = [x |-> Padded(Number(k, "x", x)), y |-> Padded(Number(k, "y", y)),
                      d |-> Number(k, "d", d)]

\* A report shows the events of the command that makes it, all of them and no others,
\* although commands that failed before it left theirs in the buffer and two clients use
\* the PTA at once, which perf.c does not expect: this rests on PtaFree, without which
\* "concurrent PTA invocations would interleave their events".
FlushIsOwn == flushed.shown = flushed.own

\* The PTA holds no key material when no command is in it, however the last one ended.
KeysFreed == stage = "idle" => live = {} /\ key = NoKey

\* Every host process ends, also when the second key does not fit the size of the first.
HostsEnd == <>(\A h \in Hosts : step[h] \in {"done", "error"})
=============================================================================
