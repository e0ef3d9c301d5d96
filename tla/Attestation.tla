---------------------------- MODULE Attestation ----------------------------
(***************************************************************************)
(* One attestation end to end: the host application                        *)
(* (attester/remote_attestation/host), the trusted application and the     *)
(* pseudo TA that issue the evidence, the relying party                    *)
(* (relying_party/app/main.go) every HTTP request passes through, and the  *)
(* verifier behind it (Veraison, external).                                *)
(*                                                                         *)
(* Several host processes run at once and the relying party serves each    *)
(* request in a goroutine of its own.  The device may lose power at any    *)
(* time: that ends the processes, makes black keys useless (the CAAM wraps *)
(* them with a key of the power cycle) and may start other software.       *)
(*                                                                         *)
(* A nonce is the verifier session it was issued for; a key is its owner's *)
(* name; a measurement tells the reference software from any other.        *)
(***************************************************************************)
EXTENDS Integers, FiniteSets

CONSTANTS Hosts,       \* host processes
          Sessions,    \* the verifier sessions that may be opened
          NoSession,
          Args,        \* the command lines
          MaxReboots   \* power cycles (a bound of the model)

PUBKEY_HEADER_SIZE == 64
MIN_KEY_PARAM_SIZE == PUBKEY_HEADER_SIZE + 1

\* A command line: --key-hex given, its length in bytes, whether the private
\* key in it is wrapped in the power cycle made; --pubx-hex and --puby-hex
\* given; whose public key comes with the key; --loop and --no-server.
Arg == [has : BOOLEAN, len : Nat, made : Nat, pubs : BOOLEAN,
        pub : {"host", "other"}, loop : Nat, noServer : BOOLEAN]

ASSUME AttestationAssumption ==
    /\ NoSession \notin Sessions
    /\ IsFiniteSet(Sessions)
    /\ Args \subseteq Arg
    /\ MaxReboots \in Nat

VARIABLES
    sw, epoch,                       \* the device: software, power cycle
    pc, arg, iter, session, evidence, handles,   \* the host processes
    verdict, since,                  \* the verifier: each session, and the
                                     \* software that ran since it was opened
    rp, post, body, file, files,     \* the relying party: each session's post,
    logged, reply, printed           \* temporary files, what came out

deviceVars == <<sw, epoch>>
hostVars   == <<pc, arg, iter, session, evidence, handles>>
verVars    == <<verdict, since>>
rpVars     == <<rp, post, body, file, files, logged, reply, printed>>
vars       == <<deviceVars, hostVars, verVars, rpVars>>

Software == {"ref", "other"}
Verdicts == {"affirming", "contraindicated"}
Final    == {"exit0", "exit1"}
HostPcs  == {"args", "teec", "pack", "loop", "opening", "invoke", "post", "reply"} \cup Final
RpPcs    == {"idle", "forward", "process", "arc", "copy", "done"}

\* A response body of the verifier: a result, or something without one.
Bodies   == Verdicts \cup {"noresult", "notjson"}

\* Evidence: the nonce it carries, what was measured, the public key behind
\* its instance-id and the key that signed it.
Evidence   == [nonce : Sessions \cup {"local"}, sw : Software,
               instance : {"host", "other", "test"}, signer : {"host", "test"}]
NoEvidence == [nonce |-> NoSession, sw |-> "other", instance |-> "none", signer |-> "none"]

-----------------------------------------------------------------------------
(* The key parameter: host main(), TA and PTA *)

\* main() refuses the command line, or, later, a short key without its public
\* key.
ArgError(a) == (a.pubs /\ ~a.has) \/ a.loop < 1

KeyError(a) == a.has /\ a.len > 0 /\ a.len < MIN_KEY_PARAM_SIZE /\ ~a.pubs

\* The length of packed_key_param: PubX || PubY || blob; 0 when it is NULL.
packed_key_param_len(a) ==
    IF ~a.has \/ a.len = 0 THEN 0
    ELSE IF a.pubs THEN PUBKEY_HEADER_SIZE + a.len
    ELSE a.len

\* A variant for testing the properties: the header is taken for one byte longer.
serialized_black_key_len_Off(a) ==
    IF packed_key_param_len(a) = 0 THEN 0
    ELSE packed_key_param_len(a) - MIN_KEY_PARAM_SIZE

\* What the PTA finds behind the public key.
serialized_black_key_len(a) ==
    IF packed_key_param_len(a) = 0 THEN 0
    ELSE packed_key_param_len(a) - PUBKEY_HEADER_SIZE

\* The instance-id names the public key passed along, or the test key.
InstanceId(a) == IF packed_key_param_len(a) > 0 THEN a.pub ELSE "test"

\* The private key sign_ecdsa_sha256 uses: the one passed, or the embedded one.
SigningKey(a) == IF serialized_black_key_len(a) > 0 THEN "host" ELSE "test"

\* Signing succeeds: a black key (longer than a P-256 scalar) only in the power
\* cycle it was made in.
CanSign(a) == serialized_black_key_len(a) > 32 => a.made = epoch

-----------------------------------------------------------------------------
(* The host application *)

Goto(h, l) == pc' = [pc EXCEPT ![h] = l]

\* Parsing the command line, before anything is opened.
ParseArgs(h) ==
    /\ pc[h] = "args"
    /\ Goto(h, IF ArgError(arg[h]) THEN "exit1" ELSE "teec")
    /\ UNCHANGED <<deviceVars, arg, iter, session, evidence, handles, verVars, rpVars>>

\* TEEC_InitializeContext and TEEC_OpenSession.
OpenTee(h) ==
    /\ pc[h] = "teec"
    /\ Goto(h, "pack") \/ Goto(h, "exit1")
    /\ UNCHANGED <<deviceVars, arg, iter, session, evidence, handles, verVars, rpVars>>

\* A variant for testing the properties: a key too short for a header passes.
PackKey_Unchecked(h) ==
    /\ pc[h] = "pack"
    /\ Goto(h, "loop")
    /\ UNCHANGED <<deviceVars, arg, iter, session, evidence, handles, verVars, rpVars>>

\* The packed key parameter is built, once for all iterations.
PackKey(h) ==
    /\ pc[h] = "pack"
    /\ Goto(h, IF KeyError(arg[h]) THEN "exit1" ELSE "loop")
    /\ UNCHANGED <<deviceVars, arg, iter, session, evidence, handles, verVars, rpVars>>

\* The head of the loop: done, or a nonce is needed, local or a session's.
NextIteration(h) ==
    /\ pc[h] = "loop"
    /\ \/ iter[h] = arg[h].loop /\ Goto(h, "exit0")
       \/ iter[h] < arg[h].loop /\ arg[h].noServer /\ (Goto(h, "invoke") \/ Goto(h, "exit1"))
       \/ iter[h] < arg[h].loop /\ ~arg[h].noServer /\ Goto(h, "opening")
    /\ session' = [session EXCEPT ![h] = NoSession]
    /\ evidence' = [evidence EXCEPT ![h] = NoEvidence]
    /\ UNCHANGED <<deviceVars, arg, iter, handles, verVars, rpVars>>

\* open_session: the verifier opens a session and the client gets a handle.
\* Without the PSA media type the handle is disposed of again.
open_session(h) ==
    /\ pc[h] = "opening"
    /\ \E s \in Sessions :
          /\ verdict[s] = "unopened"
          /\ verdict' = [verdict EXCEPT ![s] = "waiting"]
          /\ since' = [since EXCEPT ![s] = {sw}]
          /\ session' = [session EXCEPT ![h] = s]
    /\ \/ Goto(h, "invoke") /\ handles' = [handles EXCEPT ![h] = @ + 1]
       \/ Goto(h, "exit1") /\ UNCHANGED handles
    /\ UNCHANGED <<deviceVars, arg, iter, evidence, rpVars>>

\* The verifier or the relying party could not be reached, or said no.
OpenSessionFails(h) ==
    /\ pc[h] = "opening"
    /\ Goto(h, "exit1")
    /\ UNCHANGED <<deviceVars, arg, iter, session, evidence, handles, verVars, rpVars>>

\* The nonce handed to the TA.
Nonce(h) == IF arg[h].noServer THEN "local" ELSE session[h]

\* A variant for testing the properties: iterations without a server are not
\* counted.
get_cbor_evidence_Uncounted(h) ==
    /\ pc[h] = "invoke"
    /\ CanSign(arg[h])
    /\ evidence' = [evidence EXCEPT ![h] =
          [nonce |-> Nonce(h), sw |-> sw,
           instance |-> InstanceId(arg[h]), signer |-> SigningKey(arg[h])]]
    /\ Goto(h, IF arg[h].noServer THEN "loop" ELSE "post")
    /\ UNCHANGED <<deviceVars, arg, iter, session, handles, verVars, rpVars>>

\* TEEC_InvokeCommand, through the TA to cmd_get_cbor_evidence: evidence over
\* the nonce, what the device runs now and the key, signed.
get_cbor_evidence(h) ==
    /\ pc[h] = "invoke"
    /\ CanSign(arg[h])
    /\ evidence' = [evidence EXCEPT ![h] =
          [nonce |-> Nonce(h), sw |-> sw,
           instance |-> InstanceId(arg[h]), signer |-> SigningKey(arg[h])]]
    /\ IF arg[h].noServer
       THEN Goto(h, "loop") /\ iter' = [iter EXCEPT ![h] = @ + 1]
       ELSE Goto(h, "post") /\ UNCHANGED iter
    /\ UNCHANGED <<deviceVars, arg, session, handles, verVars, rpVars>>

\* A variant for testing the properties: the result is not looked at, and the
\* evidence buffer is posted as it is.
EvidenceFails_Ignored(h) ==
    /\ pc[h] = "invoke"
    /\ Goto(h, "reply")
    /\ rp' = [rp EXCEPT ![session[h]] = "forward"]
    /\ post' = [post EXCEPT ![session[h]] = evidence[h]]
    /\ UNCHANGED <<deviceVars, arg, iter, session, evidence, handles, verVars,
                   body, file, files, logged, reply, printed>>

\* TA or PTA report an error (no memory, fuses, measuring, encoding, signing):
\* the process ends, its handle with it.
EvidenceFails(h) ==
    /\ pc[h] = "invoke"
    /\ Goto(h, "exit1")
    /\ UNCHANGED <<deviceVars, arg, iter, session, evidence, handles, verVars, rpVars>>

\* post_evidence sends the evidence to the URL of its session.
post_evidence(h) ==
    /\ pc[h] = "post"
    /\ Goto(h, "reply")
    /\ rp' = [rp EXCEPT ![session[h]] = "forward"]
    /\ post' = [post EXCEPT ![session[h]] = evidence[h]]
    /\ UNCHANGED <<deviceVars, arg, iter, session, evidence, handles, verVars,
                   body, file, files, logged, reply, printed>>

\* A variant for testing the properties: a failed post keeps its handle.
PostDone_KeepsHandle(h) ==
    /\ pc[h] = "reply"
    /\ reply[session[h]] # "none"
    /\ IF reply[session[h]] \in Verdicts
       THEN /\ printed' = [printed EXCEPT ![session[h]] = reply[session[h]]]
            /\ handles' = [handles EXCEPT ![h] = @ - 1]
       ELSE UNCHANGED <<printed, handles>>
    /\ iter' = [iter EXCEPT ![h] = @ + 1]
    /\ Goto(h, "loop")
    /\ UNCHANGED <<deviceVars, arg, session, evidence, verVars,
                   rp, post, body, file, files, logged, reply>>

\* A variant for testing the properties: a post that went through is good news.
PostDone_AnyResult(h) ==
    /\ pc[h] = "reply"
    /\ reply[session[h]] # "none"
    /\ printed' = IF reply[session[h]] \in Verdicts
                  THEN [printed EXCEPT ![session[h]] = "affirming"]
                  ELSE printed
    /\ handles' = [handles EXCEPT ![h] = @ - 1]
    /\ iter' = [iter EXCEPT ![h] = @ + 1]
    /\ Goto(h, "loop")
    /\ UNCHANGED <<deviceVars, arg, session, evidence, verVars,
                   rp, post, body, file, files, logged, reply>>

\* The answer, or its absence, is printed, the handle disposed of, and the loop
\* goes on whatever post_evidence returned.
PostDone(h) ==
    /\ pc[h] = "reply"
    /\ reply[session[h]] # "none"
    /\ printed' = IF reply[session[h]] \in Verdicts
                  THEN [printed EXCEPT ![session[h]] = reply[session[h]]]
                  ELSE printed
    /\ handles' = [handles EXCEPT ![h] = @ - 1]
    /\ iter' = [iter EXCEPT ![h] = @ + 1]
    /\ Goto(h, "loop")
    /\ UNCHANGED <<deviceVars, arg, session, evidence, verVars,
                   rp, post, body, file, files, logged, reply>>

HostStep(h) ==
    \/ ParseArgs(h) \/ OpenTee(h) \/ PackKey(h) \/ NextIteration(h)
    \/ open_session(h) \/ OpenSessionFails(h)
    \/ get_cbor_evidence(h) \/ EvidenceFails(h)
    \/ post_evidence(h) \/ PostDone(h)

-----------------------------------------------------------------------------
(* The verifier, and the relying party's forwarding of a post to it *)

\* Appraisal: the nonce is the session's, the signature verifies against the
\* trust anchor found by instance-id, the measurements are the reference ones.
Appraisal(s) ==
    IF post[s].nonce # s \/ post[s].instance # post[s].signer THEN "contraindicated"
    ELSE IF post[s].sw = "ref" THEN "affirming"
    ELSE "contraindicated"

\* A result comes back, or an answer without one (session expired, no trust
\* anchor, a proxy's error page).
Verify(s) ==
    /\ rp[s] = "forward"
    /\ rp' = [rp EXCEPT ![s] = "process"]
    /\ \/ /\ verdict' = [verdict EXCEPT ![s] = Appraisal(s)]
          /\ body' = [body EXCEPT ![s] = Appraisal(s)]
       \/ /\ verdict' = [verdict EXCEPT ![s] = "refused"]
          /\ \E b \in Bodies \ Verdicts : body' = [body EXCEPT ![s] = b]
    /\ UNCHANGED <<deviceVars, hostVars, since, post, file, files, logged, reply, printed>>

\* The request cannot be built or forwarded: status 500.
ForwardFails(s) ==
    /\ rp[s] = "forward"
    /\ rp' = [rp EXCEPT ![s] = "done"]
    /\ reply' = [reply EXCEPT ![s] = "error"]
    /\ UNCHANGED <<deviceVars, hostVars, verVars, post, body, file, files, logged, printed>>

-----------------------------------------------------------------------------
(* The relying party: processAttestationResult *)

\* No JSON, no "result", no temporary file or a failed write to it (removed by
\* the deferred call): the handler returns, the client gets an empty response;
\* status 500 if the body could not be read.
DropResponse(s) ==
    /\ rp[s] = "process"
    /\ rp' = [rp EXCEPT ![s] = "done"]
    /\ \E r \in {"empty", "error"} : reply' = [reply EXCEPT ![s] = r]
    /\ UNCHANGED <<deviceVars, hostVars, verVars, post, body, file, files, logged, printed>>

\* A variant for testing the properties: the file of a failed write is not
\* removed.
WriteTempFile_Leaks(s) ==
    /\ rp[s] = "process"
    /\ body[s] \in Verdicts
    /\ \E f \in Sessions :
          /\ files[f] = "free"
          /\ file' = [file EXCEPT ![s] = f]
          /\ files' = [files EXCEPT ![f] = body[s]]
    /\ \/ rp' = [rp EXCEPT ![s] = "arc"] /\ UNCHANGED reply
       \/ rp' = [rp EXCEPT ![s] = "done"] /\ reply' = [reply EXCEPT ![s] = "empty"]
    /\ UNCHANGED <<deviceVars, hostVars, verVars, post, body, logged, printed>>

\* The result goes to a temporary file of a new name.
WriteTempFile(s) ==
    /\ rp[s] = "process"
    /\ body[s] \in Verdicts
    /\ \E f \in Sessions :
          /\ files[f] = "free"
          /\ file' = [file EXCEPT ![s] = f]
          /\ files' = [files EXCEPT ![f] = body[s]]
    /\ rp' = [rp EXCEPT ![s] = "arc"]
    /\ UNCHANGED <<deviceVars, hostVars, verVars, post, body, logged, reply, printed>>

\* A variant for testing the properties: arc is given the pattern of the file
\* names, and reads the file of any request.
RunArc_Pattern(s) ==
    /\ rp[s] = "arc"
    /\ rp' = [rp EXCEPT ![s] = "copy"]
    /\ \E f \in Sessions : files[f] # "free" /\ logged' = [logged EXCEPT ![s] = files[f]]
    /\ UNCHANGED <<deviceVars, hostVars, verVars, post, body, file, files, reply, printed>>

\* arc verify reads the file; whether it likes it or not is only logged.
RunArc(s) ==
    /\ rp[s] = "arc"
    /\ rp' = [rp EXCEPT ![s] = "copy"]
    /\ \E l \in {files[file[s]], "failed"} : logged' = [logged EXCEPT ![s] = l]
    /\ UNCHANGED <<deviceVars, hostVars, verVars, post, body, file, files, reply, printed>>

\* copyResponse, and the deferred removal of the file.
copyResponse(s) ==
    /\ rp[s] = "copy"
    /\ rp' = [rp EXCEPT ![s] = "done"]
    /\ reply' = [reply EXCEPT ![s] = body[s]]
    /\ files' = [files EXCEPT ![file[s]] = "free"]
    /\ UNCHANGED <<deviceVars, hostVars, verVars, post, body, file, logged, printed>>

RpStep(s) ==
    \/ Verify(s) \/ ForwardFails(s) \/ DropResponse(s)
    \/ WriteTempFile(s) \/ RunArc(s) \/ copyResponse(s)

-----------------------------------------------------------------------------
\* The device is power cycled, maybe into other software; the host processes are
\* started again with the same command lines.
Reboot ==
    /\ epoch < MaxReboots
    /\ epoch' = epoch + 1
    /\ sw' \in Software
    /\ pc' = [h \in Hosts |-> "args"]
    /\ iter' = [h \in Hosts |-> 0]
    /\ session' = [h \in Hosts |-> NoSession]
    /\ evidence' = [h \in Hosts |-> NoEvidence]
    /\ handles' = [h \in Hosts |-> 0]
    /\ since' = [s \in Sessions |-> IF since[s] = {} THEN {} ELSE since[s] \cup {sw'}]
    /\ UNCHANGED <<arg, verdict, rpVars>>

Init ==
    /\ sw \in Software
    /\ epoch = 0
    /\ pc = [h \in Hosts |-> "args"]
    /\ arg \in [Hosts -> Args]
    /\ iter = [h \in Hosts |-> 0]
    /\ session = [h \in Hosts |-> NoSession]
    /\ evidence = [h \in Hosts |-> NoEvidence]
    /\ handles = [h \in Hosts |-> 0]
    /\ verdict = [s \in Sessions |-> "unopened"]
    /\ since = [s \in Sessions |-> {}]
    /\ rp = [s \in Sessions |-> "idle"]
    /\ post = [s \in Sessions |-> NoEvidence]
    /\ body = [s \in Sessions |-> "none"]
    /\ file = [s \in Sessions |-> NoSession]
    /\ files = [f \in Sessions |-> "free"]
    /\ logged = [s \in Sessions |-> "none"]
    /\ reply = [s \in Sessions |-> "none"]
    /\ printed = [s \in Sessions |-> "none"]

Next ==
    \/ \E h \in Hosts : HostStep(h)
    \/ \E s \in Sessions : RpStep(s)
    \/ Reboot

Spec == Init /\ [][Next]_vars

\* Processes and goroutines run on, and the network answers or fails; the
\* device need not be power cycled.
Fairness ==
    /\ \A h \in Hosts : WF_vars(HostStep(h))
    /\ \A s \in Sessions : WF_vars(RpStep(s))

FairSpec == Spec /\ Fairness

-----------------------------------------------------------------------------
(* Properties *)

\* Every variable holds a value of its kind.
TypeOK ==
    /\ sw \in Software
    /\ epoch \in 0..MaxReboots
    /\ pc \in [Hosts -> HostPcs]
    /\ arg \in [Hosts -> Args]
    /\ iter \in [Hosts -> Nat]
    /\ session \in [Hosts -> Sessions \cup {NoSession}]
    /\ evidence \in [Hosts -> Evidence \cup {NoEvidence}]
    /\ handles \in [Hosts -> Nat]
    /\ verdict \in [Sessions -> Verdicts \cup {"unopened", "waiting", "refused"}]
    /\ since \in [Sessions -> SUBSET Software]
    /\ rp \in [Sessions -> RpPcs]
    /\ post \in [Sessions -> Evidence \cup {NoEvidence}]
    /\ body \in [Sessions -> Bodies \cup {"none"}]
    /\ file \in [Sessions -> Sessions \cup {NoSession}]
    /\ files \in [Sessions -> Verdicts \cup {"free"}]
    /\ logged \in [Sessions -> Verdicts \cup {"none", "failed"}]
    /\ reply \in [Sessions -> Bodies \cup {"none", "error", "empty"}]
    /\ printed \in [Sessions -> Verdicts \cup {"none"}]

\* Evidence posted to a session was issued over the nonce of that session,
\* however often the loop went round and whatever failed before.
EvidenceAnswersSession ==
    \A s \in Sessions : rp[s] # "idle" => post[s].nonce = s

\* A host is told "affirming" only if the device ran the reference software at
\* some time since the session was opened: the evidence was measured after the
\* challenge, not remembered from before a power cycle.
AffirmedIsFresh ==
    \A s \in Sessions : printed[s] = "affirming" => "ref" \in since[s]

\* The result the relying party logs for a request is the verifier's for that
\* request, with any number of requests being processed at once.
LoggedIsOwn ==
    \A s \in Sessions : logged[s] \in {"none", "failed", verdict[s]}

\* Every temporary file belongs to a request still being processed.
TempFilesRemoved ==
    Cardinality({f \in Sessions : files[f] # "free"})
        = Cardinality({s \in Sessions : rp[s] \in {"arc", "copy"}})

\* A host holds one session handle, and none between two iterations or after a
\* regular end, whether or not the posts succeeded.
HandlesReleased ==
    \A h \in Hosts :
        /\ handles[h] <= 1
        /\ pc[h] \in {"loop", "opening", "exit0"} => handles[h] = 0

\* The instance-id names the key that signed, unless the operator passed another
\* public key along: host, TA and PTA split the packed parameter alike.
SignerMatchesInstance ==
    \A h \in Hosts :
        evidence[h] # NoEvidence /\ evidence[h].instance # "other"
            => evidence[h].signer = evidence[h].instance

\* What the program counter of a host says about its session, handle and evidence: it
\* gets past PackKey only with a usable key, and what it posts was made in its session.
HostInv ==
    \A h \in Hosts :
        /\ pc[h] \in {"loop", "opening", "invoke", "post", "reply"} => ~KeyError(arg[h])
        /\ pc[h] \in {"args", "teec", "pack"} => handles[h] = 0
        /\ pc[h] = "opening" => ~arg[h].noServer
        /\ pc[h] = "invoke" => IF arg[h].noServer THEN handles[h] = 0
                               ELSE handles[h] = 1 /\ session[h] \in Sessions
        /\ pc[h] \in {"post", "reply"} =>
             /\ handles[h] = 1 /\ session[h] \in Sessions
             /\ evidence[h] \in Evidence
             /\ evidence[h].nonce = session[h]
             /\ evidence[h].sw \in since[session[h]]

\* A host that has yet to post to its session.
Posts(h) == pc[h] = "post" \/ (pc[h] = "invoke" /\ ~arg[h].noServer)

\* A session belongs to the one host that opened it, and is posted to at most once.
SessionInv ==
    /\ \A h \in Hosts : Posts(h) => rp[session[h]] = "idle"
    /\ \A h \in Hosts : pc[h] = "reply" \/ Posts(h) => verdict[session[h]] # "unopened"
    /\ \A g, h \in Hosts : Posts(g) /\ Posts(h) /\ session[g] = session[h] => g = h

\* What the verifier and the relying party hold for a session goes back to one post.
RequestInv ==
    \A s \in Sessions :
        /\ verdict[s] = "unopened" => since[s] = {} /\ rp[s] = "idle"
        /\ verdict[s] # "unopened" => sw \in since[s]
        /\ rp[s] # "idle" => post[s].nonce = s /\ post[s].sw \in since[s]
        /\ rp[s] \in {"idle", "forward"} => logged[s] = "none" /\ body[s] = "none" /\ reply[s] = "none"
        /\ body[s] \in Verdicts => verdict[s] = body[s]
        /\ body[s] = "affirming" => "ref" \in since[s]
        /\ reply[s] \in Verdicts => reply[s] = body[s]

\* The temporary files in use are those of the requests between WriteTempFile and
\* copyResponse, one for each.
InFile == {s \in Sessions : rp[s] \in {"arc", "copy"}}

FileInv ==
    /\ \A s \in InFile : body[s] \in Verdicts /\ file[s] \in Sessions /\ files[file[s]] = body[s]
    /\ \A s, t \in InFile : file[s] = file[t] => s = t
    /\ \A f \in Sessions : files[f] # "free" => \E s \in InFile : file[s] = f

\* The inductive invariant.
IInv ==
    /\ TypeOK
    /\ HostInv
    /\ SessionInv
    /\ RequestInv
    /\ FileInv
    /\ AffirmedIsFresh
    /\ LoggedIsOwn
    /\ HandlesReleased
    /\ SignerMatchesInstance

\* Every run of the host application ends.
HostEnds == \A h \in Hosts : pc[h] \notin Final ~> pc[h] \in Final

\* What relying_party/app/main.go:78 says: the response body is not consumed by
\* processing the result, so the client gets what the verifier sent.
ResponseForwarded ==
    \A s \in Sessions : rp[s] = "done" /\ body[s] # "none" => reply[s] = body[s]
=============================================================================
