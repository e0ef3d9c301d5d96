-------------------------- MODULE RpmbNativeProofs --------------------------
(***************************************************************************)
(* The safety of the RPMB transport, and that it implements the exchange   *)
(* promised to the RPMB layer (module RpmbExchange), for any requests,     *)
(* block counts, boot states, faults and power cycles.                     *)
(***************************************************************************)
EXTENDS RpmbNative, UsdhcProofs

USE DEF Goto, Return, NoFault

\* At power-on no call, exchange or probe is in progress.
LEMMA InitNativeInv == NativeInit => NativeInv
  <1> SUFFICES ASSUME NativeInit PROVE NativeInv
    OBVIOUS
  <1>1. IInv
    BY InitIInv DEF NativeInit
  <1>2. NativeTypeOK
    <2>1. boots \in 0..MaxBoots /\ programs \in Nat
      BY NativeAssumption DEF NativeInit
    <2>2. hasKey \in BOOLEAN
      BY DEF NativeInit
    <2> QED
      BY <1>1, <2>1, <2>2, NativeAssumption DEF NativeInit, NativeTypeOK, IInv, XPcs, IPcs
  <1>3. pc = "idle"
    BY DEF NativeInit, Init
  <1>4. CallInv /\ RequestInv
    BY <1>3 DEF NativeInit, CallInv, RequestInv
  <1>5. KeyInv
    <2>1. KeyProgrammedOnce
      BY DEF NativeInit, KeyProgrammedOnce
    <2>2. hasKey <=> programs = 1
      BY Zenon DEF NativeInit
    <2> QED
      BY <2>1, <2>2 DEF NativeInit, KeyInv
  <1> QED
    BY <1>1, <1>2, <1>4, <1>5 DEF NativeInv

-----------------------------------------------------------------------------
(* What the driver does to the device, seen from an exchange *)

\* The device forgets, or keeps what it has: its result register and its pending
\* response.
Forgets == cardDone' \in {cardDone, NoId} /\ cardResp' \in {cardResp, NoId}

\* A command other than the transfer itself makes the device forget at most.
LEMMA CommandForgets ==
  ASSUME NEW c, CmdInhibited \/ CmdUnanswered(c) \/ CmdAnswered(c)
  PROVE  Forgets
  BY DEF CmdInhibited, CmdUnanswered, CmdAnswered, Obeys, GoIdle, SwitchToRpmb, cardVars, Forgets

\* A frame is on its way to the device: the driver's step, or the one the core faults in.
SendsFrame == WriteFrames \/ (CoreFaults /\ pc = "xfer" /\ call.op = "write")

\* Every other step of the driver: nothing is executed, the call stays the same and only a
\* read that has come to its data phase takes anything from the device.
LEMMA QuietStep ==
  ASSUME DriverStep, ~SendsFrame
  PROVE  /\ Forgets
         /\ UNCHANGED call
         /\ got' = got \/ (call.op = "read" /\ got' \in {cardResp, NoId})
         /\ pc \notin {"idle", "halted"}
         /\ pc' # "settle" /\ (pc = "settle" => pc' \in {"idle", "halted"})
         /\ pc' = "idle" /\ ret' = "ok" =>
              pc = "settle" \/ call.op = "read" \/ call.op \notin {"read", "write"}
  <1> USE DEF Forgets, cardVars
  <1>1. CASE InitEnsure \/ InitCached \/ InitForeign \/ InitClocks \/ reset_controller
    BY <1>1 DEF InitEnsure, InitCached, InitForeign, InitClocks, reset_controller, InitDone
  <1>2. CASE \E c \in IdentCmds : Identify(c)
    BY <1>2, CommandForgets DEF Identify, IdentCmds, NextCmd, CmdInhibited, CmdUnanswered
  <1>3. CASE ReadExtCsd
    BY <1>3, CommandForgets DEF ReadExtCsd, InitDone, CmdInhibited, CmdUnanswered, DataPhaseFailed
  <1>4. CASE switch_partition
    BY <1>4, CommandForgets DEF switch_partition, CmdInhibited, CmdUnanswered
  <1>5. CASE WaitBefore \/ WaitAfter
    BY <1>5 DEF WaitBefore, WaitAfter, wait_card_ready
  <1>6. CASE SetBlockCount
    BY <1>6, CommandForgets DEF SetBlockCount, CmdInhibited, CmdUnanswered
  <1>7. CASE XferTooLong \/ XferInhibited
    BY <1>7 DEF XferTooLong, XferInhibited, CmdInhibited
  <1>8. CASE ReadFrames
    BY <1>8 DEF ReadFrames, GivesResponse, DataPhaseFailed
  <1>9. CASE CoreFaults
    <2>1. Forgets
      BY <1>9 DEF CoreFaults, CutCommand, SendsFrame, GivesResponse, Obeys, GoIdle, SwitchToRpmb
    <2> QED
      BY <1>9, <2>1 DEF CoreFaults, TouchesRegisters
  <1> QED
    BY <1>1, <1>2, <1>3, <1>4, <1>5, <1>6, <1>7, <1>8, <1>9 DEF DriverStep, CallStep, SendsFrame

\* The device and the other masters leave the call alone, and the device forgets at most.
LEMMA EnvironmentForgets ==
  ASSUME Environment
  PROVE  Forgets /\ UNCHANGED <<call, got, pc, ret>>
  BY DEF Environment, CardFinishes, ForeignMaster, GateClocks, cardVars, Forgets

\* The call that sends a frame is over without success, or the core is at its end.
Gone == (pc' = "idle" /\ ret' = "error") \/ pc' = "halted"

\* Sending a frame ends with the device having taken it, in the RPMB partition, or
\* without success and the device as it was.
LEMMA WriteEffect ==
  ASSUME IInv, SendsFrame
  PROVE  /\ UNCHANGED <<call, got>>
         /\ pc = "xfer" /\ call.op = "write"
         /\ pc' = "settle" \/ Gone
         /\ \/ UNCHANGED <<cardDone, cardResp>> /\ Gone
            \/ /\ cardState' = "tran"
               /\ CASE call.frame.kind = "write"  -> cardDone' = call.frame.id /\ cardResp' = NoId
                    [] call.frame.kind = "result" -> cardResp' = cardDone /\ UNCHANGED cardDone
                    [] OTHER -> cardResp' = call.frame.id /\ UNCHANGED cardDone
  <1>1. pc = "xfer" /\ call.op = "write" /\ cardPart = "rpmb"
    BY DEF IInv, PhaseInv, CacheCoherent, SendsFrame, WriteFrames, XferPcs
  <1>2. CASE WriteFrames
    BY <1>1, <1>2 DEF WriteFrames, AwaitsData, TakesFrame, DataPhaseFailed, cardVars, Gone
  <1>3. CASE CoreFaults
    <2>1. UNCHANGED <<call, got>> /\ pc' = "halted"
      BY <1>3 DEF CoreFaults
    <2>2. UNCHANGED cardVars \/ TakesFrame(call.frame) \/ AwaitsData
      BY <1>1, <1>3 DEF CoreFaults, CutCommand, IdentCmds
    <2> QED
      BY <1>1, <2>1, <2>2 DEF AwaitsData, TakesFrame, cardVars, Gone
  <1> QED
    BY <1>2, <1>3 DEF SendsFrame

-----------------------------------------------------------------------------
(* The steps of driver, device and other masters *)

USE DEF xVars, iVars, devVars

\* The device executes the request of the exchange only when CMD25 carries it there, for
\* the first time.
LEMMA ExecutesOnce ==
  ASSUME NativeInv, DriverStep \/ Environment, Executes
  PROVE  /\ SendsFrame /\ xpc = "request" /\ taken = 0
         /\ req.kind = "write" => cardDone' = req.id /\ cardResp' = NoId
         /\ req.kind # "write" => cardResp' = req.id
  <1> USE DEF NativeInv
  <1>1. xpc = "request"
    BY DEF Executes, CallInv, NativeTypeOK, XPcs
  <1>2. /\ taken = 0 /\ cardDone # req.id /\ cardResp # req.id /\ req.id # NoId
        /\ req.kind \in {"write", "query"} /\ call.frame = req
    BY <1>1, UsdhcAssumption DEF RequestInv, CallInv, Executes, Frame
  <1>3. SendsFrame
    BY <1>2, QuietStep, EnvironmentForgets DEF Executes, Forgets
  <1> QED
    BY <1>1, <1>2, <1>3, WriteEffect DEF Executes

\* A frame that CMD25 carried to the device and that was not executed: no success.
LEMMA FailedRequest ==
  ASSUME NativeInv, SendsFrame, xpc = "request", ~Executes
  PROVE  UNCHANGED <<cardDone, cardResp>> /\ Gone
  <1>1. call.frame = req /\ req.kind \in {"write", "query"} /\ IInv
    BY DEF NativeInv, CallInv
  <1> QED
    BY <1>1, WriteEffect DEF Executes

\* The exchange and the key survive every step of driver, device and other masters.
LEMMA TransportNativeInv ==
  ASSUME NativeInv, Transport
  PROVE  NativeInv'
  <1> USE DEF NativeInv
  <1>0. /\ DriverStep \/ Environment
        /\ UNCHANGED <<xpc, req, respBlocks, resp, xret, ipc, probeDone, ready, boots>>
        /\ taken' = IF Executes THEN taken + 1 ELSE taken
    BY DEF Transport
  <1>1. IInv'
    BY <1>0, DriverStepIInv, EnvironmentIInv
  <1>2. \/ Executes /\ hasKey' = TRUE /\ programs' = programs + 1 /\ ipc = "program"
        \/ UNCHANGED <<hasKey, programs>>
    BY DEF Transport, KeyTaken, NativeTypeOK
  <1>3. NativeTypeOK'
    <2>1. TypeOK'
      BY <1>1 DEF IInv
    <2>2. taken' \in Nat /\ programs' \in Nat
      BY <1>0, <1>2 DEF NativeTypeOK
    <2> QED
      BY <1>0, <1>2, <2>1, <2>2 DEF NativeTypeOK
  <1>4. UNCHANGED call
    BY <1>0, QuietStep, EnvironmentForgets, WriteEffect
  <1>5. CallInv'
    <2>1. pc' # "idle" => pc # "idle"
      BY <1>0, EnvironmentForgets, QuietStep, WriteEffect
    <2> QED
      BY <1>0, <1>4, <2>1 DEF CallInv
  <1>6. RequestInv'
    <2>1. CASE Executes
      BY <1>0, <2>1, ExecutesOnce, WriteEffect DEF RequestInv, CallInv, Gone
    <2>2. CASE ~Executes /\ SendsFrame
      <3>1. xpc = "request" => UNCHANGED <<cardDone, cardResp>> /\ Gone
        BY <2>2, FailedRequest
      <3>2. xpc \in {"request", "result"} /\ UNCHANGED got
        BY <2>2, WriteEffect DEF CallInv, NativeTypeOK, XPcs
      <3>3. xpc = "result" => cardResp' \in {cardResp, cardDone} /\ UNCHANGED cardDone
        BY <2>2, WriteEffect DEF CallInv
      <3> QED
        BY <1>0, <2>2, <3>1, <3>2, <3>3 DEF RequestInv, CallInv, Gone
    <2>3. CASE DriverStep /\ ~SendsFrame
      <3>0. ~Executes
        BY <2>3, ExecutesOnce
      <3>1. xpc # "idle" => req.id # NoId
        BY UsdhcAssumption DEF CallInv, Frame
      <3>2. call.op = "read" /\ pc # "idle" => xpc = "response" \/ xpc = "idle"
        BY DEF CallInv, NativeTypeOK, XPcs
      <3>3. xpc = "request" => call.op = "write"
        BY DEF CallInv
      <3>4. /\ Forgets /\ taken' = taken /\ UNCHANGED call
            /\ got' = got \/ (call.op = "read" /\ got' \in {cardResp, NoId})
            /\ pc \notin {"idle", "halted"} /\ pc' # "settle"
            /\ pc = "settle" => pc' \in {"idle", "halted"}
            /\ pc' = "idle" /\ ret' = "ok" =>
                 pc = "settle" \/ call.op = "read" \/ call.op \notin {"read", "write"}
        BY <1>0, <2>3, <3>0, QuietStep
      <3>5. got' \in {NoId, req.id} \/ xpc = "idle"
        BY <3>2, <3>4 DEF RequestInv
      <3> QED
        BY <1>0, <3>1, <3>3, <3>4, <3>5 DEF RequestInv, Forgets
    <2>4. CASE Environment /\ ~SendsFrame
      <3>0. ~Executes
        BY <2>4, ExecutesOnce
      <3>1. xpc # "idle" => req.id # NoId
        BY UsdhcAssumption DEF CallInv, Frame
      <3> QED
        BY <1>0, <2>4, <3>0, <3>1, EnvironmentForgets DEF RequestInv, Forgets
    <2> QED
      BY <1>0, <2>1, <2>2, <2>3, <2>4
  <1>7. KeyInv'
    <2>1. Executes => taken = 0 /\ xpc = "request"
      BY <1>0, ExecutesOnce
    <2>2. Executes /\ ipc = "program" => ~hasKey
      <3>1. ipc = "program" /\ xpc = "request" /\ taken = 0 => ~hasKey
        BY Zenon DEF KeyInv
      <3> QED
        BY <2>1, <3>1
    <2>3. ~hasKey => programs = 0
      BY DEF KeyInv, KeyProgrammedOnce, NativeTypeOK
    <2>4. Executes => taken' = 1
      BY <1>0, <2>1
    <2>5. ~Executes => taken' = taken
      BY <1>0
    <2>6. CASE Executes /\ ipc = "program" /\ hasKey' = TRUE /\ programs' = programs + 1
      <3>1. programs' = 1 /\ hasKey' = TRUE /\ taken' = 1
        BY <2>2, <2>3, <2>4, <2>6
      <3> QED
        BY <1>0, <3>1 DEF KeyInv, KeyProgrammedOnce
    <2>7. CASE UNCHANGED <<hasKey, programs>>
      BY <1>0, <2>1, <2>4, <2>5, <2>7 DEF KeyInv, KeyProgrammedOnce
    <2> QED
      BY <1>2, <2>6, <2>7
  <1> QED
    BY <1>1, <1>3, <1>5, <1>6, <1>7

-----------------------------------------------------------------------------
(* The steps of exchange and probe *)

\* What an exchange that starts, or is refused for lack of memory, leaves behind.
LEMMA ExchangeEffect ==
  ASSUME NativeInv, NEW kind \in {"write", "query"}, Exchange(kind)
  PROVE  /\ IInv'
         /\ xpc = "idle" /\ pc = "idle"
         /\ req' \in Frame /\ req'.kind = kind /\ req'.id \notin {cardDone, cardResp}
         /\ UNCHANGED <<cardDone, cardResp>>
         /\ respBlocks' \in BlockCounts
         /\ resp' = NoId /\ taken' = 0
         /\ \/ /\ xpc' = "request" /\ xret' = "none"
               /\ pc' = "init" /\ got' = NoId /\ call'.op = "write" /\ call'.frame = req'
            \/ xpc' = "idle" /\ xret' = "error" /\ pc' = "idle"
  <1> USE DEF NativeInv
  <1>1. ASSUME NEW n \in BlockCounts, NEW m \in BlockCounts, StartExchange(kind, n, m)
        PROVE  /\ IInv' /\ xpc = "idle" /\ pc = "idle" /\ UNCHANGED <<cardDone, cardResp>>
               /\ req' \in Frame /\ req'.kind = kind /\ req'.id \notin {cardDone, cardResp}
               /\ respBlocks' \in BlockCounts /\ resp' = NoId /\ taken' = 0
               /\ xpc' = "request" /\ xret' = "none"
               /\ pc' = "init" /\ got' = NoId /\ call'.op = "write" /\ call'.frame = req'
    <2>1. PICK id \in FreshIds : /\ req' = [kind |-> kind, id |-> id]
                                 /\ Enter("write", [kind |-> kind, id |-> id], n)
      BY <1>1 DEF StartExchange
    <2>2. req' \in Frame /\ req'.kind = kind /\ req'.id \notin {cardDone, cardResp}
      BY <2>1 DEF FreshIds, Frame, Kinds
    <2>3. IInv'
      BY <2>1, <2>2, EnterIInv DEF Ops
    <2> QED
      BY <1>1, <2>1, <2>2, <2>3 DEF StartExchange, Enter, cardVars
  <1>2. ASSUME RefuseExchange(kind)
        PROVE  /\ IInv' /\ xpc = "idle" /\ pc = "idle" /\ UNCHANGED <<cardDone, cardResp>>
               /\ req' \in Frame /\ req'.kind = kind /\ req'.id \notin {cardDone, cardResp}
               /\ respBlocks' \in BlockCounts /\ resp' = NoId /\ taken' = 0
               /\ xpc' = "idle" /\ xret' = "error" /\ pc' = "idle"
    <2>1. budget' \in 0..MaxFaults
      BY <1>2, BudgetType DEF RefuseExchange, IInv, FaultKinds
    <2>2. UNCHANGED <<ctxVars, hwVars, cardVars, pc, call, got, ret, cut>>
      BY <1>2 DEF RefuseExchange
    <2>3. IInv'
      BY <2>1, <2>2 DEF IInv, TypeOK, PhaseInv, CacheCoherent, BusyInv, ClockInv,
         FaultsOnlyWhenCut, controller_state_foreign, ctxVars, hwVars, cardVars
    <2>4. req' \in Frame /\ req'.kind = kind /\ req'.id \notin {cardDone, cardResp}
      BY <1>2 DEF RefuseExchange, FreshIds, Frame, Kinds
    <2> QED
      BY <1>2, <2>2, <2>3, <2>4 DEF RefuseExchange, NativeTypeOK, cardVars
  <1> QED
    BY <1>1, <1>2 DEF Exchange

\* Starting an exchange: the request is one the device knows nothing of.
LEMMA ExchangeStarts ==
  ASSUME NativeInv, NEW kind \in {"write", "query"}, Exchange(kind)
  PROVE  CallInv' /\ RequestInv'
  BY ExchangeEffect DEF CallInv, RequestInv

\* Each step of an exchange under way.
LEMMA ExchangeStepNativeInv ==
  ASSUME NativeInv, ExchangeStep
  PROVE  NativeInv'
  <1> USE DEF NativeInv
  <1>1. CASE ExchangeFailed \/ ExchangeDone
    <2>1. /\ UNCHANGED <<vars, req, respBlocks, taken, iVars, devVars, boots>>
          /\ xpc' = "idle" /\ xret' \in {"ok", "error"} /\ resp' \in {resp, got} /\ pc = "idle"
      BY <1>1 DEF ExchangeFailed, ExchangeDone, EndExchange, DriverReturned
    <2>2. IInv' /\ UNCHANGED <<pc, got>>
      BY <2>1, StutterIInv DEF vars
    <2>3. NativeTypeOK'
      BY <2>1, <2>2 DEF NativeTypeOK, IInv, TypeOK, XPcs
    <2>4. CallInv' /\ RequestInv' /\ KeyInv'
      BY <2>1, <2>2 DEF CallInv, RequestInv, KeyInv, KeyProgrammedOnce
    <2> QED
      BY <2>2, <2>3, <2>4
  <1>2. CASE AskForResult
    <2>1. [kind |-> "result", id |-> req.id] \in Frame /\ req.kind = "write" /\ taken = 1
      BY <1>2 DEF AskForResult, DriverReturned, CallInv, RequestInv, Frame, Kinds
    <2>2. IInv'
      BY <1>2, <2>1, NativeAssumption, EnterIInv DEF AskForResult, Ops
    <2>3. NativeTypeOK'
      BY <1>2, <2>2 DEF AskForResult, NativeTypeOK, IInv, XPcs
    <2>4. CallInv' /\ RequestInv'
      BY <1>2, <2>1 DEF AskForResult, DriverReturned, Enter, cardVars, CallInv, RequestInv
    <2>5. KeyInv'
      BY <1>2 DEF AskForResult, KeyInv, KeyProgrammedOnce
    <2> QED
      BY <2>2, <2>3, <2>4, <2>5
  <1>3. CASE ReadResponse
    <2>1. PICK n \in BlockCounts : Enter("read", NoFrame, n)
      BY <1>3, NativeAssumption DEF ReadResponse, NativeTypeOK
    <2>2. IInv'
      BY <2>1, EnterIInv DEF Ops
    <2>3. NativeTypeOK'
      BY <1>3, <2>2 DEF ReadResponse, NativeTypeOK, IInv, XPcs
    <2>4. CallInv' /\ RequestInv'
      BY <1>3, <2>1 DEF ReadResponse, DriverReturned, Enter, cardVars, CallInv, RequestInv
    <2>5. KeyInv'
      BY <1>3 DEF ReadResponse, KeyInv, KeyProgrammedOnce
    <2> QED
      BY <2>2, <2>3, <2>4, <2>5
  <1> QED
    BY <1>1, <1>2, <1>3 DEF ExchangeStep

\* The probe starts exchanges only, and a key program request only on a device without
\* a key.
LEMMA ProbeExchangeNativeInv ==
  ASSUME NativeInv,
         \/ ProbeNextDone /\ ret = "ok" /\ Exchange("query")
         \/ ProgramKey \/ VerifyKey \/ FsExchange
  PROVE  NativeInv'
  <1> USE DEF NativeInv
  <1>1. /\ UNCHANGED <<ready, hasKey, programs, boots>>
        /\ ipc' \in {ipc, "counter", "program", "verify"} /\ probeDone' \in BOOLEAN
        /\ ipc' = "program" => ~hasKey \/ ready
        /\ ready => ipc' = "idle"
    <2>1. CASE FsExchange
      BY <2>1 DEF FsExchange, KeyInv, NativeTypeOK
    <2>2. CASE ~FsExchange
      BY <2>2 DEF ProbeNextDone, ProgramKey, NeedsKey, VerifyKey, KeyInv, NativeTypeOK
    <2> QED
      BY <2>1, <2>2
  <1>2. PICK kind \in {"write", "query"} : Exchange(kind)
    BY DEF ProbeNextDone, ProgramKey, VerifyKey, FsExchange
  <1>3. NativeTypeOK'
    BY <1>1, <1>2, ExchangeEffect DEF NativeTypeOK, IInv, XPcs, IPcs
  <1>4. KeyInv'
    BY <1>1 DEF KeyInv, KeyProgrammedOnce
  <1> QED
    BY <1>2, <1>3, <1>4, ExchangeEffect, ExchangeStarts

\* The steps of the probe between two exchanges.
LEMMA ProbeMovesNativeInv ==
  ASSUME NativeInv,
         \/ ProbeReset \/ ProbeResetDone \/ ProbeNext \/ CounterRead \/ ProbeContinue
         \/ ProbeNextDone /\ UNCHANGED <<vars, xVars>>
  PROVE  NativeInv'
  <1> USE DEF NativeInv
  <1>1. /\ xpc = "idle" /\ pc = "idle"
        /\ UNCHANGED <<xpc, req, respBlocks, resp, xret, taken, hasKey, programs, boots>>
        /\ ipc' \in {"idle", "reset", "next", "info", "counter"}
        /\ probeDone' \in BOOLEAN /\ ready' \in BOOLEAN
    BY DEF ProbeReset, ProbeResetDone, ProbeNext, CounterRead, ProbeContinue, ProbeNextDone,
       Idle, NativeTypeOK
  <1>2. ready' => ipc' = "idle"
    <2>1. ready => ipc = "idle"
      BY DEF KeyInv
    <2>2. CASE CounterRead
      BY <2>2 DEF CounterRead
    <2>3. CASE ~CounterRead
      BY <2>1, <2>3 DEF ProbeReset, ProbeResetDone, ProbeNext, ProbeContinue, ProbeNextDone
    <2> QED
      BY <2>2, <2>3
  <1>3. UNCHANGED vars \/ (\E op \in {"init", "dev_info"} : Enter(op, NoFrame, 0))
    BY DEF ProbeReset, ProbeResetDone, ProbeNext, CounterRead, ProbeContinue, ProbeNextDone
  <1>4. IInv'
    BY <1>3, StutterIInv, EnterIInv DEF Ops
  <1>5. NativeTypeOK'
    BY <1>1, <1>4 DEF NativeTypeOK, IInv, IPcs
  <1>6. CallInv' /\ RequestInv'
    BY <1>1, <1>3 DEF CallInv, RequestInv, Enter, vars
  <1>7. KeyInv'
    BY <1>1, <1>2 DEF KeyInv, KeyProgrammedOnce
  <1> QED
    BY <1>4, <1>5, <1>6, <1>7

\* Power is lost: only the key stays, and programs counts what it counted.
LEMMA PowerCycleNativeInv ==
  ASSUME NativeInv, PowerCycle
  PROVE  NativeInv'
  <1> USE DEF NativeInv
  <1>1. TypeOK'
    <2>1. call' \in Call
      BY DEF PowerCycle, Call, Ops
    <2>2. /\ ctl' \in Ctl /\ clocks' \subseteq CcmClocks
          /\ cardState' \in CardStates /\ cardPart' \in Parts /\ clockBits' \in Divider
      BY UsdhcAssumption DEF PowerCycle, CardStates, Parts, Divider
    <2> QED
      BY <2>1, <2>2 DEF PowerCycle, IInv, TypeOK, Pcs, Busy
  <1>2. IInv'
    <2>1. CoreInv'
      BY <1>1, DroppedCacheCore DEF PowerCycle
    <2>2. BusyInv' /\ ClockInv'
      BY DEF PowerCycle, BusyInv, ClockInv, FaultsOnlyWhenCut, IdentCmds
    <2> QED
      BY <2>1, <2>2 DEF CoreInv, IInv
  <1>3. NativeTypeOK'
    <2>1. boots' \in 0..MaxBoots
      BY NativeAssumption DEF PowerCycle, NativeTypeOK
    <2> QED
      BY <1>1, <2>1, NativeAssumption DEF PowerCycle, NativeTypeOK, XPcs, IPcs
  <1>4. CallInv' /\ RequestInv' /\ KeyInv'
    BY DEF PowerCycle, CallInv, RequestInv, KeyInv, KeyProgrammedOnce
  <1> QED
    BY <1>2, <1>3, <1>4

\* Every step keeps the inductive invariant.
LEMMA NextNativeInv == NativeInv /\ [NativeNext]_allVars => NativeInv'
  <1> SUFFICES ASSUME NativeInv, [NativeNext]_allVars PROVE NativeInv'
    OBVIOUS
  <1>1. CASE ProbeStep
    <2>1. ProbeNextDone => (ret = "ok" /\ Exchange("query")) \/ UNCHANGED <<vars, xVars>>
      BY DEF ProbeNextDone
    <2> QED
      BY <1>1, <2>1, ProbeExchangeNativeInv, ProbeMovesNativeInv DEF ProbeStep
  <1>2. CASE UNCHANGED allVars
    <2>1. IInv'
      BY <1>2, StutterIInv DEF NativeInv, allVars
    <2> QED
      BY <1>2, <2>1 DEF NativeInv, allVars, nativeVars, vars, cardVars, NativeTypeOK, IInv,
         CallInv, RequestInv, KeyInv, KeyProgrammedOnce
  <1> QED
    BY <1>1, <1>2, TransportNativeInv, ExchangeStepNativeInv, ProbeMovesNativeInv,
       ProbeExchangeNativeInv, PowerCycleNativeInv DEF NativeNext

-----------------------------------------------------------------------------
\* The inductive invariant holds in every reachable state.
THEOREM NativeInvariant == NativeSpec => []NativeInv
  BY InitNativeInv, NextNativeInv, PTL DEF NativeSpec

\* The authentication key, which can be written once, is written at most once: whatever
\* failed and however often power was lost after a first attempt.
THEOREM KeyIsProgrammedOnce == NativeSpec => []KeyProgrammedOnce
  <1>1. NativeInv => KeyProgrammedOnce
    BY DEF NativeInv, KeyInv
  <1> QED
    BY <1>1, NativeInvariant, PTL

\* The driver below the transport keeps its own promises under this caller: RPMB frames
\* go to the RPMB partition, and a device that programs is issued no command but CMD0.
THEOREM DriverSafeBelow == NativeSpec => [](FramesOnRpmbPartition /\ ProgrammingAwaited)
  <1>1. IInv => FramesOnRpmbPartition
    BY DEF IInv, PhaseInv, CacheCoherent, FramesOnRpmbPartition, XferPcs
  <1>2. NativeInv => FramesOnRpmbPartition /\ ProgrammingAwaited
    BY <1>1, AwaitedByInvariant DEF NativeInv
  <1> QED
    BY <1>2, NativeInvariant, PTL

-----------------------------------------------------------------------------
(* The transport implements RpmbExchange *)

\* An exchange that starts is submitted or refused.
LEMMA StartsSubmit ==
  ASSUME NativeInv, NEW kind \in {"write", "query"}, Exchange(kind)
  PROVE  Promise!Submit \/ Promise!Refuse
  BY ExchangeEffect DEF Promise!Submit, Promise!Refuse

\* The steps of an exchange under way: it gives up, goes on unseen, or delivers.
LEMMA ExchangeStepRefines ==
  ASSUME NativeInv, ExchangeStep
  PROVE  Promise!GiveUp \/ Promise!Deliver \/ UNCHANGED Promise!exchangeVars
  <1>1. CASE ExchangeFailed
    BY <1>1 DEF ExchangeFailed, DriverReturned, EndExchange, Promise!GiveUp
  <1>2. CASE AskForResult
    BY <1>2 DEF AskForResult, DriverReturned, NativeInv, CallInv, Promise!exchangeVars
  <1>3. CASE ReadResponse
    BY <1>3 DEF ReadResponse, DriverReturned, Promise!exchangeVars
  <1>4. CASE ExchangeDone
    BY <1>4 DEF ExchangeDone, DriverReturned, EndExchange, NativeInv, RequestInv, Promise!Deliver
  <1> QED
    BY <1>1, <1>2, <1>3, <1>4 DEF ExchangeStep

\* Driver, device and other masters take a step: the request is executed, or nothing
\* the RPMB layer sees happens.
LEMMA TransportRefines ==
  ASSUME NativeInv, Transport
  PROVE  Promise!Execute \/ UNCHANGED Promise!exchangeVars
  <1>1. CASE Executes
    BY <1>1, ExecutesOnce DEF Transport, Promise!Execute
  <1>2. CASE ~Executes
    BY <1>2 DEF Transport, Promise!exchangeVars
  <1> QED
    BY <1>1, <1>2

\* Every step of the transport is a step of the promised exchange or a stutter.
LEMMA NextRefines ==
  NativeInv /\ [NativeNext]_allVars => [Promise!Next]_(Promise!exchangeVars)
  <1> SUFFICES ASSUME NativeInv, [NativeNext]_allVars
               PROVE  [Promise!Next]_(Promise!exchangeVars)
    OBVIOUS
  <1> USE DEF Promise!Next
  <1>1. CASE Transport
    BY <1>1, TransportRefines
  <1>2. CASE ExchangeStep
    BY <1>2, ExchangeStepRefines
  <1>3. CASE ProbeReset
    BY <1>3 DEF ProbeReset, Promise!exchangeVars
  <1>4. CASE ProbeStep
    <2>1. CASE ProgramKey \/ VerifyKey \/ (ProbeNextDone /\ Exchange("query"))
      BY <2>1, StartsSubmit DEF ProgramKey, VerifyKey
    <2>2. CASE ~(ProgramKey \/ VerifyKey \/ (ProbeNextDone /\ Exchange("query")))
      <3>1. UNCHANGED xVars
        BY <1>4, <2>2 DEF ProbeStep, ProbeResetDone, ProbeNext, ProbeNextDone, CounterRead,
           ProbeContinue
      <3> QED
        BY <3>1 DEF Promise!exchangeVars
    <2> QED
      BY <2>1, <2>2
  <1>5. CASE FsExchange
    BY <1>5, StartsSubmit DEF FsExchange
  <1>6. CASE PowerCycle
    BY <1>6 DEF PowerCycle, Promise!PowerLoss
  <1>7. CASE UNCHANGED allVars
    BY <1>7 DEF allVars, nativeVars, Promise!exchangeVars
  <1> QED
    BY <1>1, <1>2, <1>3, <1>4, <1>5, <1>6, <1>7 DEF NativeNext

\* The transport keeps its promise to the RPMB layer: at most one execution of a request,
\* success only after it, and never the answer to another request, although calls fail,
\* other masters interfere and power is lost.
THEOREM TransportKeepsPromise == NativeSpec => KeepsPromise
  <1>1. NativeInit => Promise!Init
    BY DEF NativeInit, Promise!Init
  <1> QED
    BY <1>1, NextRefines, NativeInvariant, PTL DEF NativeSpec, KeepsPromise, Promise!Spec
=============================================================================
