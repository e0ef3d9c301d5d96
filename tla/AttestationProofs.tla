------------------------- MODULE AttestationProofs -------------------------
(***************************************************************************)
(* The safety of the attestation protocol, for any number of host          *)
(* processes, sessions and power cycles and any command lines.             *)
(***************************************************************************)
EXTENDS Attestation, FiniteSetTheorems, TLAPS

USE DEF Goto

\* Nothing is open at the start.
LEMMA InitIInv == Init => IInv
  <1> SUFFICES ASSUME Init PROVE IInv
    OBVIOUS
  <1>1. TypeOK
    <2>1. epoch \in 0..MaxReboots
      BY AttestationAssumption DEF Init
    <2> QED
      BY <2>1 DEF Init, TypeOK, HostPcs, RpPcs
  <1>2. HostInv /\ SessionInv /\ RequestInv
    BY DEF Init, HostInv, SessionInv, Posts, RequestInv, Verdicts
  <1>3. FileInv /\ AffirmedIsFresh /\ LoggedIsOwn /\ HandlesReleased
    BY DEF Init, FileInv, InFile, AffirmedIsFresh, LoggedIsOwn, HandlesReleased
  <1>4. SignerMatchesInstance
    BY DEF Init, SignerMatchesInstance
  <1> QED
    BY <1>1, <1>2, <1>3, <1>4 DEF IInv

\* What concerns the relying party only is kept by a step that leaves it and the
\* verifier alone.
LEMMA QuietRelyingParty ==
  ASSUME IInv, UNCHANGED <<sw, verVars, rpVars>>
  PROVE  RequestInv' /\ FileInv' /\ AffirmedIsFresh' /\ LoggedIsOwn'
  BY DEF IInv, verVars, rpVars, RequestInv, FileInv, InFile, AffirmedIsFresh, LoggedIsOwn

\* A step of the host that only moves on, to a place where it holds no more than before.
LEMMA HostMovesIInv ==
  ASSUME IInv, NEW h \in Hosts,
         UNCHANGED <<deviceVars, arg, iter, session, evidence, handles, verVars, rpVars>>,
         \/ ParseArgs(h) \/ OpenTee(h) \/ PackKey(h) \/ OpenSessionFails(h) \/ EvidenceFails(h)
  PROVE  IInv'
  <1> USE DEF IInv
  <1>0. PICK l \in HostPcs :
          /\ pc' = [pc EXCEPT ![h] = l]
          /\ l \in {"exit1", "teec", "pack", "loop"}
          /\ l = "loop" => ~KeyError(arg[h]) /\ handles[h] = 0
          /\ l \in {"teec", "pack"} => handles[h] = 0
    BY DEF ParseArgs, OpenTee, PackKey, OpenSessionFails, EvidenceFails, HostPcs, Final, HostInv
  <1>1. TypeOK'
    BY <1>0 DEF TypeOK, deviceVars, verVars, rpVars
  <1>2. HostInv'
    BY <1>0 DEF TypeOK, HostInv, verVars
  <1>3. SessionInv'
    BY <1>0 DEF TypeOK, SessionInv, Posts, verVars, rpVars
  <1>4. HandlesReleased' /\ SignerMatchesInstance'
    BY <1>0 DEF TypeOK, HandlesReleased, SignerMatchesInstance
  <1> QED
    BY <1>1, <1>2, <1>3, <1>4, QuietRelyingParty DEF deviceVars

\* The head of the loop forgets session and evidence of the iteration before.
LEMMA NextIterationIInv ==
  ASSUME IInv, NEW h \in Hosts, NextIteration(h)
  PROVE  IInv'
  <1> USE DEF IInv
  <1>0. PICK l \in {"exit0", "exit1", "invoke", "opening"} :
          /\ pc' = [pc EXCEPT ![h] = l]
          /\ l = "invoke" => arg[h].noServer
          /\ l = "opening" => ~arg[h].noServer
    BY DEF NextIteration
  <1>1. TypeOK'
    BY <1>0 DEF NextIteration, TypeOK, HostPcs, Final, deviceVars, verVars, rpVars
  <1>2. HostInv'
    BY <1>0 DEF NextIteration, TypeOK, HostInv, HandlesReleased, verVars
  <1>3. SessionInv'
    BY <1>0 DEF NextIteration, TypeOK, SessionInv, Posts, verVars, rpVars
  <1>4. HandlesReleased' /\ SignerMatchesInstance'
    BY <1>0 DEF NextIteration, TypeOK, HandlesReleased, SignerMatchesInstance
  <1> QED
    BY <1>1, <1>2, <1>3, <1>4, QuietRelyingParty DEF NextIteration, deviceVars

\* A new session is nobody else's: it was unopened, so no host and no request of the
\* relying party had to do with it.
LEMMA OpenSessionIInv ==
  ASSUME IInv, NEW h \in Hosts, open_session(h)
  PROVE  IInv'
  <1> USE DEF IInv
  <1>0. PICK s \in Sessions :
          /\ verdict[s] = "unopened"
          /\ verdict' = [verdict EXCEPT ![s] = "waiting"]
          /\ since' = [since EXCEPT ![s] = {sw}]
          /\ session' = [session EXCEPT ![h] = s]
    BY DEF open_session
  <1>1. PICK l \in {"invoke", "exit1"} :
          /\ pc' = [pc EXCEPT ![h] = l]
          /\ l = "invoke" => handles' = [handles EXCEPT ![h] = @ + 1]
          /\ l = "exit1" => UNCHANGED handles
    BY DEF open_session
  <1>2. /\ ~arg[h].noServer /\ handles[h] = 0 /\ ~KeyError(arg[h])
        /\ rp[s] = "idle" /\ since[s] = {}
    BY <1>0 DEF open_session, HostInv, HandlesReleased, RequestInv
  <1>3. \A g \in Hosts : pc[g] = "reply" \/ Posts(g) => session[g] # s
    BY <1>0 DEF SessionInv
  <1>4. TypeOK'
    BY <1>0, <1>1 DEF open_session, TypeOK, HostPcs, Final, deviceVars, verVars, rpVars
  <1>5. HostInv'
    BY <1>0, <1>1, <1>2, <1>3 DEF open_session, TypeOK, HostInv, Posts
  <1>6. SessionInv'
    BY <1>0, <1>1, <1>2, <1>3 DEF open_session, TypeOK, SessionInv, Posts, rpVars
  <1>7. RequestInv'
    BY <1>0, <1>2 DEF open_session, TypeOK, RequestInv, rpVars, deviceVars, Verdicts
  <1>8. FileInv'
    BY <1>0 DEF open_session, FileInv, InFile, rpVars
  <1>9. AffirmedIsFresh' /\ LoggedIsOwn'
    BY <1>0, <1>2 DEF open_session, TypeOK, AffirmedIsFresh, LoggedIsOwn, RequestInv, rpVars
  <1>10. HandlesReleased' /\ SignerMatchesInstance'
    BY <1>0, <1>1, <1>2 DEF open_session, TypeOK, HandlesReleased, SignerMatchesInstance
  <1> QED
    BY <1>4, <1>5, <1>6, <1>7, <1>8, <1>9, <1>10

\* Host, TA and PTA agree on where the packed key parameter is split: with a command
\* line PackKey lets through, the PTA finds a private key exactly when it finds a
\* public one.
LEMMA KeySplit ==
  ASSUME NEW a \in Arg, ~KeyError(a)
  PROVE  /\ packed_key_param_len(a) \in Nat
         /\ packed_key_param_len(a) > 0 <=> serialized_black_key_len(a) > 0
  BY DEF Arg, KeyError, packed_key_param_len, serialized_black_key_len,
         MIN_KEY_PARAM_SIZE, PUBKEY_HEADER_SIZE

\* Evidence is made of the nonce of the host's own session and of what runs now.
LEMMA GetEvidenceIInv ==
  ASSUME IInv, NEW h \in Hosts, get_cbor_evidence(h)
  PROVE  IInv'
  <1> USE DEF IInv
  <1> DEFINE e == [nonce |-> Nonce(h), sw |-> sw,
                   instance |-> InstanceId(arg[h]), signer |-> SigningKey(arg[h])]
             l == IF arg[h].noServer THEN "loop" ELSE "post"
  <1>1. arg[h] \in Arg /\ ~KeyError(arg[h])
    BY AttestationAssumption DEF get_cbor_evidence, TypeOK, HostInv
  <1>2. e.instance # "other" => e.signer = e.instance
    <2>1. arg[h].pub \in {"host", "other"}
      BY <1>1 DEF Arg
    <2> QED
      BY <1>1, <2>1, KeySplit DEF InstanceId, SigningKey
  <1>3. e \in Evidence
    <2>1. e.nonce \in Sessions \cup {"local"}
      BY DEF get_cbor_evidence, HostInv, Nonce
    <2>2. e.instance \in {"host", "other", "test"} /\ e.signer \in {"host", "test"}
      BY <1>1 DEF InstanceId, SigningKey, Arg
    <2> QED
      BY <2>1, <2>2 DEF Evidence, TypeOK
  <1>4. /\ evidence' = [evidence EXCEPT ![h] = e]
        /\ pc' = [pc EXCEPT ![h] = l]
        /\ pc[h] = "invoke"
        /\ UNCHANGED <<arg, session, handles, sw, verVars, rpVars>>
    BY DEF get_cbor_evidence, deviceVars
  <1>5. ~arg[h].noServer => /\ session[h] \in Sessions /\ handles[h] = 1
                            /\ e.nonce = session[h] /\ e.sw \in since[session[h]]
    BY <1>4 DEF HostInv, SessionInv, RequestInv, Posts, Nonce
  <1> HIDE DEF e
  <1>6. TypeOK'
    BY <1>3, <1>4 DEF get_cbor_evidence, TypeOK, HostPcs, deviceVars, verVars, rpVars
  <1>7. HostInv'
    BY <1>1, <1>3, <1>4, <1>5 DEF TypeOK, HostInv, verVars
  <1>8. SessionInv'
    BY <1>4, <1>5 DEF TypeOK, SessionInv, Posts, verVars, rpVars
  <1>9. HandlesReleased'
    BY <1>4, <1>5 DEF TypeOK, HandlesReleased, HostInv
  <1>10. SignerMatchesInstance'
    BY <1>2, <1>4 DEF TypeOK, SignerMatchesInstance
  <1> QED
    BY <1>4, <1>6, <1>7, <1>8, <1>9, <1>10, QuietRelyingParty

\* The post goes to a session nothing was posted to, with the nonce of that session.
LEMMA PostEvidenceIInv ==
  ASSUME IInv, NEW h \in Hosts, post_evidence(h)
  PROVE  IInv'
  <1> USE DEF IInv
  <1> DEFINE s == session[h]
  <1>1. /\ s \in Sessions /\ rp[s] = "idle" /\ verdict[s] # "unopened" /\ handles[h] = 1
        /\ evidence[h] \in Evidence /\ evidence[h].nonce = s /\ evidence[h].sw \in since[s]
    BY DEF post_evidence, HostInv, SessionInv, Posts
  <1>2. /\ pc' = [pc EXCEPT ![h] = "reply"] /\ pc[h] = "post"
        /\ rp' = [rp EXCEPT ![s] = "forward"]
        /\ post' = [post EXCEPT ![s] = evidence[h]]
        /\ UNCHANGED <<sw, epoch, arg, iter, session, evidence, handles, verdict, since,
                       body, file, files, logged, reply, printed>>
    BY DEF post_evidence, deviceVars, verVars
  <1> HIDE DEF s
  <1>3. TypeOK'
    BY <1>1, <1>2 DEF TypeOK, HostPcs, RpPcs
  <1>4. HostInv'
    BY <1>2 DEF TypeOK, HostInv
  <1>5. SessionInv'
    BY <1>1, <1>2 DEF TypeOK, SessionInv, Posts, s
  <1>6. RequestInv'
    BY <1>1, <1>2 DEF TypeOK, RequestInv
  <1>7. InFile' = InFile
    BY <1>1, <1>2 DEF TypeOK, InFile
  <1>8. FileInv'
    BY <1>2, <1>7 DEF FileInv
  <1>9. AffirmedIsFresh' /\ LoggedIsOwn' /\ SignerMatchesInstance'
    BY <1>2 DEF AffirmedIsFresh, LoggedIsOwn, SignerMatchesInstance
  <1>10. HandlesReleased'
    BY <1>1, <1>2 DEF TypeOK, HandlesReleased
  <1> QED
    BY <1>3, <1>4, <1>5, <1>6, <1>8, <1>9, <1>10

\* The handle of the iteration is disposed of, and what is printed is the reply.
LEMMA PostDoneIInv ==
  ASSUME IInv, NEW h \in Hosts, PostDone(h)
  PROVE  IInv'
  <1> USE DEF IInv
  <1> DEFINE s == session[h]
  <1>1. s \in Sessions /\ handles[h] = 1 /\ ~KeyError(arg[h])
    BY DEF PostDone, HostInv
  <1>2. /\ pc' = [pc EXCEPT ![h] = "loop"] /\ pc[h] = "reply"
        /\ handles' = [handles EXCEPT ![h] = 0]
        /\ iter' = [iter EXCEPT ![h] = @ + 1]
        /\ UNCHANGED <<sw, epoch, arg, session, evidence, verdict, since,
                       rp, post, body, file, files, logged, reply>>
    BY <1>1 DEF PostDone, deviceVars, verVars, TypeOK
  <1>3. \/ UNCHANGED printed
        \/ reply[s] \in Verdicts /\ printed' = [printed EXCEPT ![s] = reply[s]]
    BY DEF PostDone
  <1> HIDE DEF s
  <1>4. TypeOK'
    BY <1>2, <1>3 DEF TypeOK, HostPcs
  <1>5. HostInv'
    BY <1>1, <1>2 DEF TypeOK, HostInv
  <1>6. SessionInv'
    BY <1>2 DEF TypeOK, SessionInv, Posts
  <1>7. RequestInv' /\ FileInv' /\ LoggedIsOwn' /\ SignerMatchesInstance'
    BY <1>2 DEF RequestInv, FileInv, InFile, LoggedIsOwn, SignerMatchesInstance
  <1>8. AffirmedIsFresh'
    BY <1>1, <1>2, <1>3 DEF TypeOK, AffirmedIsFresh, RequestInv
  <1>9. HandlesReleased'
    BY <1>2 DEF TypeOK, HandlesReleased
  <1> QED
    BY <1>4, <1>5, <1>6, <1>7, <1>8, <1>9

\* What concerns the hosts only is kept by a step of the relying party that takes no
\* session back to the state before its post.
LEMMA QuietHosts ==
  ASSUME IInv, NEW s \in Sessions, rp[s] # "idle",
         UNCHANGED <<deviceVars, hostVars, since>>,
         NEW l \in RpPcs, rp' = [rp EXCEPT ![s] = l], l # "idle",
         \A t \in Sessions : verdict[t] # "unopened" => verdict'[t] # "unopened"
  PROVE  HostInv' /\ SessionInv' /\ HandlesReleased' /\ SignerMatchesInstance'
  <1> USE DEF IInv, hostVars
  <1>1. HostInv'
    BY DEF HostInv
  <1>2. \A h \in Hosts : Posts(h) => session[h] \in Sessions
    BY DEF HostInv, Posts
  <1>3. SessionInv'
    BY <1>2 DEF HostInv, SessionInv, Posts, TypeOK
  <1>4. HandlesReleased' /\ SignerMatchesInstance'
    BY DEF HandlesReleased, SignerMatchesInstance
  <1> QED
    BY <1>1, <1>3, <1>4

\* The verifier appraises what was posted to the session, and is asked once.
LEMMA VerifyIInv ==
  ASSUME IInv, NEW s \in Sessions, Verify(s)
  PROVE  IInv'
  <1> USE DEF IInv
  <1>0. PICK v \in Verdicts \cup {"refused"}, b \in Bodies :
          /\ verdict' = [verdict EXCEPT ![s] = v]
          /\ body' = [body EXCEPT ![s] = b]
          /\ b \in Verdicts => v = b /\ b = Appraisal(s)
    BY DEF Verify, Appraisal, Verdicts, Bodies
  <1>1. Appraisal(s) = "affirming" => "ref" \in since[s]
    BY DEF Verify, Appraisal, RequestInv
  <1>2. TypeOK'
    BY <1>0 DEF Verify, TypeOK, RpPcs, deviceVars, hostVars
  <1>3. HostInv' /\ SessionInv' /\ HandlesReleased' /\ SignerMatchesInstance'
    <2>1. \A t \in Sessions : verdict[t] # "unopened" => verdict'[t] # "unopened"
      BY <1>0 DEF TypeOK, Verdicts
    <2> QED
      BY <2>1, QuietHosts DEF Verify, RpPcs
  <1>4. RequestInv'
    BY <1>0, <1>1 DEF Verify, TypeOK, RequestInv, deviceVars, Verdicts
  <1>5. InFile' = InFile /\ s \notin InFile
    BY DEF Verify, TypeOK, InFile
  <1>6. FileInv'
    BY <1>0, <1>5 DEF Verify, TypeOK, FileInv, InFile
  <1>7. AffirmedIsFresh' /\ LoggedIsOwn'
    BY <1>0 DEF Verify, TypeOK, AffirmedIsFresh, LoggedIsOwn, RequestInv
  <1> QED
    BY <1>2, <1>3, <1>4, <1>6, <1>7

\* A request that is answered without its result holds no file.
LEMMA RequestDroppedIInv ==
  ASSUME IInv, NEW s \in Sessions, ForwardFails(s) \/ DropResponse(s)
  PROVE  IInv'
  <1> USE DEF IInv
  <1>0. PICK r \in {"error", "empty"} :
          /\ rp[s] \in {"forward", "process"}
          /\ rp' = [rp EXCEPT ![s] = "done"]
          /\ reply' = [reply EXCEPT ![s] = r]
          /\ UNCHANGED <<deviceVars, hostVars, verVars, post, body, file, files, logged, printed>>
    BY DEF ForwardFails, DropResponse
  <1>1. TypeOK'
    BY <1>0 DEF TypeOK, RpPcs, deviceVars, hostVars, verVars
  <1>2. HostInv' /\ SessionInv' /\ HandlesReleased' /\ SignerMatchesInstance'
    BY <1>0, QuietHosts DEF verVars, RpPcs
  <1>3. RequestInv'
    BY <1>0 DEF TypeOK, RequestInv, deviceVars, verVars, Verdicts
  <1>4. InFile' = InFile
    BY <1>0 DEF TypeOK, InFile
  <1>5. FileInv' /\ AffirmedIsFresh' /\ LoggedIsOwn'
    BY <1>0, <1>4 DEF FileInv, AffirmedIsFresh, LoggedIsOwn, verVars
  <1> QED
    BY <1>1, <1>2, <1>3, <1>5

\* The temporary file is one no other request uses.
LEMMA WriteTempFileIInv ==
  ASSUME IInv, NEW s \in Sessions, WriteTempFile(s)
  PROVE  IInv'
  <1> USE DEF IInv
  <1>0. PICK f \in Sessions :
          /\ files[f] = "free"
          /\ file' = [file EXCEPT ![s] = f]
          /\ files' = [files EXCEPT ![f] = body[s]]
    BY DEF WriteTempFile
  <1>1. TypeOK'
    BY <1>0 DEF WriteTempFile, TypeOK, RpPcs, deviceVars, hostVars, verVars
  <1>2. HostInv' /\ SessionInv' /\ HandlesReleased' /\ SignerMatchesInstance'
    BY QuietHosts DEF WriteTempFile, verVars, RpPcs
  <1>3. RequestInv'
    BY DEF WriteTempFile, TypeOK, RequestInv, deviceVars, verVars
  <1>4. InFile' = InFile \cup {s} /\ s \notin InFile
    BY DEF WriteTempFile, TypeOK, InFile
  <1>5. \A t \in InFile : file[t] # f
    BY <1>0 DEF FileInv, Verdicts
  <1>6. FileInv'
    <2>1. UNCHANGED body /\ body[s] \in Verdicts
      BY DEF WriteTempFile
    <2>2. \A t \in InFile' : body'[t] \in Verdicts /\ file'[t] \in Sessions /\ files'[file'[t]] = body'[t]
      BY <1>0, <1>4, <1>5, <2>1 DEF TypeOK, FileInv, InFile
    <2>3. \A t, u \in InFile' : file'[t] = file'[u] => t = u
      BY <1>0, <1>4, <1>5 DEF TypeOK, FileInv, InFile
    <2>4. \A g \in Sessions : files'[g] # "free" => \E t \in InFile' : file'[t] = g
      BY <1>0, <1>4, <1>5 DEF TypeOK, FileInv, InFile
    <2> QED
      BY <2>2, <2>3, <2>4 DEF FileInv
  <1>7. AffirmedIsFresh' /\ LoggedIsOwn'
    BY DEF WriteTempFile, AffirmedIsFresh, LoggedIsOwn, verVars
  <1> QED
    BY <1>1, <1>2, <1>3, <1>6, <1>7

\* What arc reads is what this request wrote.
LEMMA RunArcIInv ==
  ASSUME IInv, NEW s \in Sessions, RunArc(s)
  PROVE  IInv'
  <1> USE DEF IInv
  <1>1. files[file[s]] = body[s] /\ body[s] \in Verdicts /\ verdict[s] = body[s]
    BY DEF RunArc, InFile, FileInv, RequestInv
  <1>2. PICK l \in {body[s], "failed"} : logged' = [logged EXCEPT ![s] = l]
    BY <1>1 DEF RunArc
  <1>3. TypeOK'
    BY <1>1, <1>2 DEF RunArc, TypeOK, RpPcs, deviceVars, hostVars, verVars
  <1>4. HostInv' /\ SessionInv' /\ HandlesReleased' /\ SignerMatchesInstance'
    BY QuietHosts DEF RunArc, verVars, RpPcs
  <1>5. RequestInv'
    BY <1>2 DEF RunArc, TypeOK, RequestInv, deviceVars, verVars
  <1>6. InFile' = InFile
    BY DEF RunArc, TypeOK, InFile
  <1>7. FileInv' /\ AffirmedIsFresh'
    BY <1>6 DEF RunArc, FileInv, AffirmedIsFresh, verVars
  <1>8. LoggedIsOwn'
    BY <1>1, <1>2 DEF RunArc, TypeOK, LoggedIsOwn, verVars
  <1> QED
    BY <1>3, <1>4, <1>5, <1>7, <1>8

\* The answer goes to the client and the file, which was this request's, away.
LEMMA CopyResponseIInv ==
  ASSUME IInv, NEW s \in Sessions, copyResponse(s)
  PROVE  IInv'
  <1> USE DEF IInv
  <1>1. file[s] \in Sessions
    BY DEF copyResponse, InFile, FileInv
  <1>2. TypeOK'
    BY <1>1 DEF copyResponse, TypeOK, RpPcs, deviceVars, hostVars, verVars
  <1>3. HostInv' /\ SessionInv' /\ HandlesReleased' /\ SignerMatchesInstance'
    BY QuietHosts DEF copyResponse, verVars, RpPcs
  <1>4. RequestInv'
    BY DEF copyResponse, TypeOK, RequestInv, deviceVars, verVars
  <1>5. InFile' = InFile \ {s} /\ s \in InFile
    BY DEF copyResponse, TypeOK, InFile
  <1>6. FileInv'
    <2>1. /\ UNCHANGED <<body, file>>
          /\ files' = [files EXCEPT ![file[s]] = "free"]
      BY DEF copyResponse
    <2>2. \A t \in InFile' : body'[t] \in Verdicts /\ file'[t] \in Sessions /\ files'[file'[t]] = body'[t]
      BY <1>5, <2>1 DEF TypeOK, FileInv, InFile
    <2>3. \A t, u \in InFile' : file'[t] = file'[u] => t = u
      BY <1>5, <2>1 DEF FileInv
    <2>4. \A g \in Sessions : files'[g] # "free" => \E t \in InFile' : file'[t] = g
      BY <1>5, <2>1 DEF TypeOK, FileInv
    <2> QED
      BY <2>2, <2>3, <2>4 DEF FileInv
  <1>7. AffirmedIsFresh' /\ LoggedIsOwn'
    BY DEF copyResponse, AffirmedIsFresh, LoggedIsOwn, verVars
  <1> QED
    BY <1>2, <1>3, <1>4, <1>6, <1>7

\* A power cycle ends the host processes; sessions, requests and files outlive it, and
\* the sessions that are open have seen the software it starts.
LEMMA RebootIInv == ASSUME IInv, Reboot PROVE IInv'
  <1> USE DEF IInv
  <1>1. TypeOK'
    BY AttestationAssumption DEF Reboot, TypeOK, HostPcs, rpVars
  <1>2. HostInv' /\ SessionInv' /\ HandlesReleased' /\ SignerMatchesInstance'
    BY DEF Reboot, HostInv, SessionInv, Posts, HandlesReleased, SignerMatchesInstance
  <1>3. RequestInv'
    BY DEF Reboot, TypeOK, RequestInv, rpVars
  <1>4. FileInv' /\ LoggedIsOwn'
    BY DEF Reboot, FileInv, InFile, LoggedIsOwn, rpVars
  <1>5. AffirmedIsFresh'
    BY DEF Reboot, TypeOK, AffirmedIsFresh, rpVars
  <1> QED
    BY <1>1, <1>2, <1>3, <1>4, <1>5

\* Every step keeps the inductive invariant.
LEMMA NextIInv == IInv /\ [Next]_vars => IInv'
  <1> SUFFICES ASSUME IInv, [Next]_vars PROVE IInv'
    OBVIOUS
  <1>1. ASSUME NEW h \in Hosts, HostStep(h) PROVE IInv'
    BY <1>1, HostMovesIInv, NextIterationIInv, OpenSessionIInv, GetEvidenceIInv,
       PostEvidenceIInv, PostDoneIInv
       DEF HostStep, ParseArgs, OpenTee, PackKey, OpenSessionFails, EvidenceFails
  <1>2. ASSUME NEW s \in Sessions, RpStep(s) PROVE IInv'
    BY <1>2, VerifyIInv, RequestDroppedIInv, WriteTempFileIInv, RunArcIInv, CopyResponseIInv
       DEF RpStep
  <1>3. CASE Reboot
    BY <1>3, RebootIInv
  <1>4. CASE UNCHANGED vars
    BY <1>4 DEF vars, deviceVars, hostVars, verVars, rpVars, IInv, TypeOK, HostInv, SessionInv,
       Posts, RequestInv, FileInv, InFile, AffirmedIsFresh, LoggedIsOwn, HandlesReleased,
       SignerMatchesInstance
  <1> QED
    BY <1>1, <1>2, <1>3, <1>4 DEF Next

-----------------------------------------------------------------------------
\* The invariant the results below are read off from.
THEOREM AttestationInvariant == Spec => []IInv
  BY InitIInv, NextIInv, PTL DEF Spec

\* Whatever is posted to a session was issued over the nonce of that session, with any
\* number of host processes looping over any number of sessions.
THEOREM PostsAnswerTheirSession == Spec => []EvidenceAnswersSession
  <1>1. IInv => EvidenceAnswersSession
    BY DEF IInv, RequestInv, EvidenceAnswersSession
  <1> QED
    BY <1>1, AttestationInvariant, PTL

\* No host is told "affirming" by evidence measured before its session was opened,
\* however often the device was power cycled.
THEOREM NoStaleAffirmation == Spec => []AffirmedIsFresh
  <1>1. IInv => AffirmedIsFresh
    BY DEF IInv
  <1> QED
    BY <1>1, AttestationInvariant, PTL

\* Requests processed at the same time never log each other's result.
THEOREM RequestsDoNotMix == Spec => []LoggedIsOwn
  <1>1. IInv => LoggedIsOwn
    BY DEF IInv
  <1> QED
    BY <1>1, AttestationInvariant, PTL

\* Session handles are not leaked and not disposed of twice, for any --loop.
THEOREM HandlesAreReleased == Spec => []HandlesReleased
  <1>1. IInv => HandlesReleased
    BY DEF IInv
  <1> QED
    BY <1>1, AttestationInvariant, PTL

\* Host, TA and PTA split the packed key parameter alike, for keys of any length.
THEOREM InstanceNamesSigner == Spec => []SignerMatchesInstance
  <1>1. IInv => SignerMatchesInstance
    BY DEF IInv
  <1> QED
    BY <1>1, AttestationInvariant, PTL

\* The files in use and the requests between writing and removing one correspond to
\* each other one to one.
LEMMA FilesMatchRequests == IInv => TempFilesRemoved
  <1> SUFFICES ASSUME IInv PROVE TempFilesRemoved
    OBVIOUS
  <1> DEFINE InUse == {f \in Sessions : files[f] # "free"}
             m == [s \in InFile |-> file[s]]
  <1>1. IsFiniteSet(InFile)
    BY AttestationAssumption, FS_Subset DEF InFile
  <1>2. m \in [InFile -> InUse]
    BY DEF IInv, FileInv, Verdicts
  <1>3. IsInjective(m)
    BY DEF IInv, FileInv, IsInjective
  <1>4. \A f \in InUse : \E s \in InFile : m[s] = f
    BY DEF IInv, FileInv
  <1>5. m \in Bijection(InFile, InUse)
    BY <1>2, <1>3, <1>4 DEF Bijection, Injection, Surjection
  <1>6. Cardinality(InUse) = Cardinality(InFile)
    BY <1>1, <1>5, FS_Bijection DEF ExistsBijection
  <1> QED
    BY <1>6 DEF TempFilesRemoved, InFile

\* No temporary file outlives its request and no two requests share one.
THEOREM TempFilesAreRemoved == Spec => []TempFilesRemoved
  BY FilesMatchRequests, AttestationInvariant, PTL
=============================================================================
