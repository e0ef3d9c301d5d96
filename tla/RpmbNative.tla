----------------------------- MODULE RpmbNative -----------------------------
(***************************************************************************)
(* OP-TEE's RPMB transport over the core uSDHC driver                      *)
(* (attester/optee-patches/rpmb-native-backend.py): an exchange of RPMB    *)
(* frames is two or three driver calls, and the initialisation of the RPMB *)
(* layer probes the single device, reads its write counter and programs    *)
(* the authentication key of a device that has none.  Key programming is   *)
(* irreversible; power may be lost between any two steps, and the core may *)
(* fault in the driver.                                                    *)
(*                                                                         *)
(* The driver is module Usdhc, extended here; RPMB operations are          *)
(* serialised by the RPMB layer, so one exchange is in progress at a time. *)
(***************************************************************************)
EXTENDS Usdhc

CONSTANTS CFG_RPMB_WRITE_KEY,   \* may the build program the key?
          MaxBoots              \* power cycles (a bound of the model)

ASSUME NativeAssumption ==
    /\ CFG_RPMB_WRITE_KEY \in BOOLEAN
    /\ MaxBoots \in Nat
    /\ 1 \in BlockCounts

VARIABLES
    xpc,         \* the driver call an exchange is waiting for
    req,         \* the request frame of the exchange
    respBlocks,  \* the size of its response buffer
    resp,        \* what the response buffer holds
    xret,        \* the result of rpmb_native_exchange
    taken,       \* how often the device executed the request of the exchange
    ipc,         \* where the RPMB initialisation stands
    probeDone,   \* rpmb_ctx->native_probe_done
    ready,       \* the RPMB layer is initialised
    hasKey,      \* the device's authentication key is programmed (for ever)
    programs,    \* how often the device took a key program request
    boots        \* power cycles so far

xVars      == <<xpc, req, respBlocks, resp, xret, taken>>
iVars      == <<ipc, probeDone, ready>>
devVars    == <<hasKey, programs>>
nativeVars == <<xVars, iVars, devVars, boots>>
allVars    == <<vars, nativeVars>>

XPcs == {"idle", "request", "result", "response"}
IPcs == {"idle", "reset", "next", "info", "counter", "program", "verify"}

-----------------------------------------------------------------------------
(* rpmb_native_exchange *)

\* Identities the device holds nothing of: a new request is told apart from
\* every earlier one.
FreshIds == Ids \ {cardDone, cardResp}

\* tee_rpmb_alloc succeeded, and the request goes out.
StartExchange(kind, n, m) ==
    /\ xpc = "idle"
    /\ \E id \in FreshIds :
          /\ req' = [kind |-> kind, id |-> id]
          /\ Enter("write", [kind |-> kind, id |-> id], n)
    /\ xpc' = "request"
    /\ respBlocks' = m
    /\ resp' = NoId
    /\ xret' = "none"
    /\ taken' = 0

\* No memory for the buffers, or no whole frame in one of them: nothing is sent.
RefuseExchange(kind) ==
    /\ xpc = "idle"
    /\ pc = "idle"
    /\ Fault("alloc")
    /\ \E id \in FreshIds : req' = [kind |-> kind, id |-> id]
    /\ resp' = NoId
    /\ xret' = "error"
    /\ taken' = 0
    /\ UNCHANGED <<xpc, respBlocks, ctxVars, hwVars, cardVars, pc, call, got, ret, cut>>

Exchange(kind) ==
    \/ \E n, m \in BlockCounts : StartExchange(kind, n, m)
    \/ RefuseExchange(kind)

\* The driver call an exchange made is over.
DriverReturned == xpc # "idle" /\ pc = "idle"

EndExchange(res) ==
    /\ xpc' = "idle"
    /\ xret' = res
    /\ UNCHANGED <<vars, req, respBlocks, taken>>

\* A variant for testing the properties: a failed request is sent again.
ExchangeFailed_Retries ==
    /\ DriverReturned
    /\ ret = "error"
    /\ IF xpc = "request"
       THEN /\ Enter("write", req, call.blocks)
            /\ UNCHANGED <<xpc, req, respBlocks, xret, taken>>
       ELSE EndExchange("error")
    /\ UNCHANGED <<resp, iVars, devVars, boots>>

\* The driver's error is the exchange's: nothing is sent again.
ExchangeFailed ==
    /\ DriverReturned
    /\ ret = "error"
    /\ EndExchange("error")
    /\ UNCHANGED <<resp, iVars, devVars, boots>>

\* A write's result has to be asked for with a frame built in the response buffer.
AskForResult ==
    /\ DriverReturned
    /\ ret = "ok"
    /\ xpc = "request"
    /\ req.kind = "write"
    /\ Enter("write", [kind |-> "result", id |-> req.id], 1)
    /\ xpc' = "result"
    /\ resp' = NoId
    /\ UNCHANGED <<req, respBlocks, xret, taken, iVars, devVars, boots>>

\* A variant for testing the properties: the result of the request is ignored.
ReadResponse_Unchecked ==
    /\ DriverReturned
    /\ \/ xpc = "request" /\ req.kind # "write" /\ Enter("read", NoFrame, respBlocks)
       \/ xpc = "result" /\ Enter("read", NoFrame, 1)
    /\ xpc' = "response"
    /\ UNCHANGED <<req, respBlocks, resp, xret, taken, iVars, devVars, boots>>

ReadResponse ==
    /\ DriverReturned
    /\ ret = "ok"
    /\ \/ xpc = "request" /\ req.kind # "write" /\ Enter("read", NoFrame, respBlocks)
       \/ xpc = "result" /\ Enter("read", NoFrame, 1)
    /\ xpc' = "response"
    /\ UNCHANGED <<req, respBlocks, resp, xret, taken, iVars, devVars, boots>>

ExchangeDone ==
    /\ DriverReturned
    /\ ret = "ok"
    /\ xpc = "response"
    /\ resp' = got
    /\ EndExchange("ok")
    /\ UNCHANGED <<iVars, devVars, boots>>

-----------------------------------------------------------------------------
(* rpmb_init: probe, write counter, key programming *)

Idle == xpc = "idle" /\ pc = "idle"

\* rpmb_probe_reset calls imx_usdhc_init.
ProbeReset ==
    /\ Idle
    /\ ipc = "idle"
    /\ ~ready
    /\ Enter("init", NoFrame, 0)
    /\ ipc' = "reset"
    /\ UNCHANGED <<xVars, probeDone, ready, devVars, boots>>

ProbeResetDone ==
    /\ Idle
    /\ ipc = "reset"
    /\ \/ ret = "error" /\ ipc' = "idle" /\ UNCHANGED probeDone
       \/ ret = "ok" /\ ipc' = "next" /\ probeDone' = FALSE
    /\ UNCHANGED <<vars, xVars, ready, devVars, boots>>

\* A variant for testing the properties: the device is reported again and again.
ProbeNext_Repeats ==
    /\ Idle
    /\ ipc = "next"
    /\ ipc' = "info"
    /\ Enter("dev_info", NoFrame, 0)
    /\ UNCHANGED <<xVars, probeDone, ready, devVars, boots>>

\* rpmb_probe_next: the single device is reported once, then the list is over.
ProbeNext ==
    /\ Idle
    /\ ipc = "next"
    /\ \/ probeDone /\ ipc' = "idle" /\ UNCHANGED vars
       \/ ~probeDone /\ ipc' = "info" /\ Enter("dev_info", NoFrame, 0)
    /\ UNCHANGED <<xVars, probeDone, ready, devVars, boots>>

\* The device has been reported: read its write counter.  An error ends the probe.
ProbeNextDone ==
    /\ Idle
    /\ ipc = "info"
    /\ \/ /\ ret = "error"
          /\ ipc' = "idle"
          /\ UNCHANGED <<vars, xVars, probeDone>>
       \/ /\ ret = "ok"
          /\ probeDone' = TRUE
          /\ ipc' = "counter"
          /\ Exchange("query")
    /\ UNCHANGED <<ready, devVars, boots>>

\* The response at hand answers the request of the exchange (message type, nonce
\* and MAC are checked by the RPMB layer).
Answered == xret = "ok" /\ resp = req.id

\* The write counter was read: the device and its key are usable.
CounterRead ==
    /\ Idle
    /\ ipc \in {"counter", "verify"}
    /\ Answered /\ hasKey
    /\ ipc' = "idle"
    /\ ready' = TRUE
    /\ UNCHANGED <<vars, xVars, probeDone, devVars, boots>>

\* A variant for testing the properties: a failed counter read means "no key".
NeedsKey_OnFailure == ipc = "counter" /\ ~(Answered /\ hasKey) /\ CFG_RPMB_WRITE_KEY

\* The device says it has no key (TEE_ERROR_ITEM_NOT_FOUND): program it.
NeedsKey == ipc = "counter" /\ Answered /\ ~hasKey /\ CFG_RPMB_WRITE_KEY

ProgramKey ==
    /\ Idle
    /\ NeedsKey
    /\ ipc' = "program"
    /\ Exchange("write")
    /\ UNCHANGED <<probeDone, ready, devVars, boots>>

\* The result of key programming is good: verify by reading the counter.
VerifyKey ==
    /\ Idle
    /\ ipc = "program"
    /\ Answered
    /\ ipc' = "verify"
    /\ Exchange("query")
    /\ UNCHANGED <<probeDone, ready, devVars, boots>>

\* Anything else goes on to the next device.
ProbeContinue ==
    /\ Idle
    /\ \/ ipc = "counter" /\ ~(Answered /\ hasKey) /\ ~NeedsKey
       \/ ipc = "program" /\ ~Answered
       \/ ipc = "verify" /\ ~(Answered /\ hasKey)
    /\ ipc' = "next"
    /\ UNCHANGED <<vars, xVars, probeDone, ready, devVars, boots>>

-----------------------------------------------------------------------------
\* The RPMB file system reads and writes once the layer is initialised.
FsExchange ==
    /\ Idle
    /\ ready
    /\ \E kind \in {"write", "query"} : Exchange(kind)
    /\ UNCHANGED <<iVars, devVars, boots>>

\* The device executes the request of the exchange in this step ...
Executes ==
    /\ pc = "xfer" /\ call.op = "write" /\ call.frame = req
    /\ cardState' = "tran"
    /\ IF req.kind = "write" THEN cardDone' = req.id ELSE cardResp' = req.id

\* ... which programs the key.
KeyTaken == ipc = "program" /\ Executes

\* The driver, the device and the other masters take a step.
Transport ==
    /\ DriverStep \/ Environment
    /\ hasKey' = (hasKey \/ KeyTaken)
    /\ programs' = IF KeyTaken THEN programs + 1 ELSE programs
    /\ taken' = IF Executes THEN taken + 1 ELSE taken
    /\ UNCHANGED <<xpc, req, respBlocks, resp, xret, iVars, boots>>

\* Power is lost and comes back: only the device's key survives.
PowerCycle ==
    /\ boots < MaxBoots
    /\ boots' = boots + 1
    /\ inited' = FALSE /\ curPart' = "none" /\ clockBits' = "div1"
    /\ ctl' \in BootCtl /\ clocks' \in BootClocks
    /\ cardState' \in {"idle", "tran"} /\ cardPart' = "user" /\ cardBusy' = "no"
    /\ cardDone' = NoId /\ cardResp' = NoId
    /\ pc' = "idle" /\ call' = [op |-> "init", frame |-> NoFrame, blocks |-> 0]
    /\ got' = NoId /\ ret' = "none" /\ cut' = FALSE
    /\ xpc' = "idle" /\ resp' = NoId /\ xret' = "none" /\ taken' = 0
    /\ req' = NoFrame /\ respBlocks' = 1
    /\ ipc' = "idle" /\ probeDone' = FALSE /\ ready' = FALSE
    /\ UNCHANGED <<budget, devVars>>

NativeInit ==
    /\ Init
    /\ xpc = "idle" /\ req = NoFrame /\ respBlocks = 1 /\ resp = NoId /\ xret = "none"
    /\ taken = 0
    /\ ipc = "idle" /\ probeDone = FALSE /\ ready = FALSE
    /\ programs \in {0, 1} /\ hasKey = (programs = 1)
    /\ boots = 0

ExchangeStep == ExchangeFailed \/ AskForResult \/ ReadResponse \/ ExchangeDone

ProbeStep ==
    \/ ProbeResetDone \/ ProbeNext \/ ProbeNextDone \/ CounterRead
    \/ ProgramKey \/ VerifyKey \/ ProbeContinue

NativeNext ==
    \/ Transport
    \/ ExchangeStep
    \/ ProbeReset
    \/ ProbeStep
    \/ FsExchange
    \/ PowerCycle
    \/ pc = "halted" /\ UNCHANGED allVars

NativeSpec == NativeInit /\ [][NativeNext]_allVars

\* The core is not preempted for ever: driver, exchange and probe take their steps, and
\* the device finishes what it is busy with.  The callers keep coming: secure storage is
\* used again and again, and an RPMB layer that is not initialised is initialised first.
NativeFairness ==
    /\ WF_allVars(Transport /\ pc # "idle")
    /\ WF_allVars(CardFinishes /\ UNCHANGED nativeVars)
    /\ WF_allVars(ExchangeStep)
    /\ WF_allVars(ProbeStep)
    /\ WF_allVars(ProbeReset)
    /\ WF_allVars(FsExchange)

NativeFairSpec == NativeSpec /\ NativeFairness

-----------------------------------------------------------------------------
\* An exchange as the RPMB layer sees it.
Promise == INSTANCE RpmbExchange WITH
               Request  <- Frame,
               None     <- NoFrame,
               busy     <- xpc # "idle",
               request  <- req,
               executed <- taken,
               answer   <- resp,
               result   <- xret

-----------------------------------------------------------------------------
(* Properties *)

\* Every variable of the transport holds a value of its kind.
NativeTypeOK ==
    /\ TypeOK
    /\ xpc \in XPcs
    /\ req \in Frame \cup {NoFrame}
    /\ respBlocks \in BlockCounts
    /\ resp \in Ids \cup {NoId}
    /\ xret \in {"none", "ok", "error"}
    /\ taken \in Nat
    /\ ipc \in IPcs
    /\ probeDone \in BOOLEAN
    /\ ready \in BOOLEAN
    /\ hasKey \in BOOLEAN
    /\ programs \in Nat
    /\ boots \in 0..MaxBoots

\* The transport keeps its promise to the RPMB layer (module RpmbExchange): a
\* request is executed at most once although calls fail and power is lost,
\* success means that it was, and the response is never that of another request:
\* when a re-initialisation or a partition switch in between lost the response,
\* the caller gets an empty frame.
KeepsPromise == Promise!Spec

\* The irreversible step is taken at most once in the device's life, whatever
\* was lost after an earlier attempt: "Program the derived key once".
KeyProgrammedOnce == programs <= 1

\* The driver call in progress is the one the exchange, or the probe, waits for.
CallInv ==
    /\ xpc = "idle" /\ pc # "idle" => call.op \in {"init", "dev_info"}
    /\ xpc # "idle" => req \in Frame /\ req.kind \in {"write", "query"} /\ resp = NoId
    /\ xpc = "request" => call.op = "write" /\ call.frame = req
    /\ xpc = "result" => /\ req.kind = "write" /\ call.op = "write"
                         /\ call.frame = [kind |-> "result", id |-> req.id]
    /\ xpc = "response" => call.op = "read"

\* The device knows nothing of the request until CMD25 has carried it there, has executed
\* it once from then on, and holds no answer to another one.
RequestInv ==
    /\ taken \in {0, 1}
    /\ xpc = "request" /\ pc \notin {"idle", "settle", "halted"} =>
           taken = 0 /\ cardDone # req.id /\ cardResp # req.id
    /\ xpc = "request" /\ (pc = "settle" \/ (pc = "idle" /\ ret = "ok")) => taken = 1
    /\ xpc \in {"result", "response"} => taken = 1
    /\ xpc # "idle" => got \in {NoId, req.id}
    /\ xpc # "idle" /\ taken = 1 =>
           /\ cardResp \in {NoId, req.id}
           /\ req.kind = "write" => cardDone \in {NoId, req.id}

\* A key is on its way to the device only as long as it has none.
KeyInv ==
    /\ hasKey <=> programs = 1
    /\ KeyProgrammedOnce
    /\ ipc = "program" /\ xpc = "request" /\ taken = 0 => ~hasKey
    /\ ready => ipc = "idle"

\* The inductive invariant: that of the driver, and what ties the call in progress, the
\* exchange, the device and the probe together.
NativeInv == NativeTypeOK /\ IInv /\ CallInv /\ RequestInv /\ KeyInv

\* The probe ends, also on a device that cannot be used ("otherwise a device
\* ... would spin the caller forever").
ProbeEnds == ipc # "idle" ~> ipc = "idle"

\* No single failure makes every later exchange fail: exchanges are answered
\* again and again (with Faults without "writecmd", the unanswered CMD25, after
\* which they are not; see Usdhc!Recovers).
AnswersAgain == []<>(xpc = "idle" /\ Answered)
=============================================================================
