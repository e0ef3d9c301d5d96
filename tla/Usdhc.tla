------------------------------- MODULE Usdhc -------------------------------
(***************************************************************************)
(* The i.MX uSDHC driver of OP-TEE core                                    *)
(* (attester/optee-patches/imx_usdhc.c), together with the eMMC device     *)
(* behind it and the other masters of the controller, U-Boot and Linux.    *)
(*                                                                         *)
(* The driver keeps a cached picture of the device in usdhc_ctx (inited,   *)
(* cur_part, clock_bits) and trusts it from one call to the next.  A call  *)
(* is a sequence of MMC commands, each of them one step here; any command  *)
(* may go unanswered, any data phase may fail, between two calls another   *)
(* master may drive controller and device, and the clocks may go off at    *)
(* any time: a core that touches the registers without them faults.        *)
(*                                                                         *)
(* Frame contents are abstract: a request carries an identity, and the     *)
(* response of the device carries the identity of the request it answers.  *)
(***************************************************************************)
EXTENDS Naturals

CONSTANTS Ids,                \* identities of RPMB requests
          NoId,               \* no request: an empty or failed response
          BlockCounts,        \* the block counts callers ask for
          DMA_BOUNCE_BLOCKS,  \* capacity of dma_bounce, in blocks
          BootCtl,            \* controller configurations the boot loader leaves
          BootClocks,         \* and the sets of clocks it leaves running
          Faults,             \* the kinds of fault the environment may inject
          MaxFaults           \* and how many of them (a bound of the model)

FaultKinds == {"map", "reset", "inhibit", "cmd", "writecmd", "ocr", "reject",
               "data", "busy", "foreign", "gate", "cut", "alloc"}

VARIABLES
    inited, curPart, clockBits,                          \* struct usdhc_ctx
    ctl, clocks,                                         \* controller and CCM
    cardState, cardPart, cardBusy, cardDone, cardResp,   \* the eMMC device
    pc, call, got, ret,                                  \* the call in progress
    cut,                                                 \* clocks went off under it
    budget                                               \* faults left

ctxVars  == <<inited, curPart, clockBits>>
cardVars == <<cardState, cardPart, cardBusy, cardDone, cardResp>>
hwVars   == <<ctl, clocks>>
vars     == <<ctxVars, hwVars, cardVars, pc, call, got, ret, cut, budget>>

\* EXT_CSD[PART_CONF] access bits; "none" is the 0xff of usdhc_ctx.cur_part.
Parts == {"user", "rpmb"}

\* SYSCTL divider bits: div1 reads 0, which is also the initial clock_bits.
Divider == {"div1", "div64", "other"}

\* What controller_state_foreign looks at, and the multi-block select bit:
\* wide is DTW # 1-bit, tuned the DDR/HS400/tuning bits of MIXCTRL.
Ctl == [wide : BOOLEAN, clk : Divider, tuned : BOOLEAN, msb : BOOLEAN]

\* The three clocks usdhc_bus_clock_ensure looks after in the CCM.
CcmClocks == {"bus", "root", "gate"}

\* Without either of these the module has no clock at all; without the bus clock only
\* its data phases stall.
ModuleClocks == {"root", "gate"}

ASSUME UsdhcAssumption ==
    /\ NoId \notin Ids
    /\ BlockCounts \subseteq Nat \ {0}
    /\ DMA_BOUNCE_BLOCKS \in Nat
    /\ BootCtl \subseteq Ctl
    /\ BootClocks \subseteq SUBSET CcmClocks
    /\ Faults \subseteq FaultKinds
    /\ MaxFaults \in Nat

Kinds == {"write", "result", "query"}   \* write: data write or key program
Frame == [kind : Kinds, id : Ids]
Ops   == {"init", "dev_info", "read", "write"}

\* What a call passes: a write its frames, a read the size of its buffer.
NoFrame == [kind |-> "none", id |-> NoId]
Call    == [op : Ops, frame : Frame \cup {NoFrame}, blocks : BlockCounts \cup {0}]

CardStates == {"idle", "ready", "ident", "stby", "tran", "rcv"}

\* Why the device holds DAT0 low: it carries out a SWITCH, or programs what it took.
Busy == {"no", "switch", "program"}

IdentCmds == {"CMD0", "CMD1", "CMD2", "CMD3", "CMD7", "CMD16"}
XferPcs   == {"CMD6", "wait", "CMD23", "xfer", "settle"}
InitPcs   == {"init", "compare", "reset", "CMD8"}
Pcs       == {"idle", "halted"} \cup InitPcs \cup IdentCmds \cup XferPcs

-----------------------------------------------------------------------------
(* Faults and returns *)

Fault(k) == k \in Faults /\ budget > 0 /\ budget' = budget - 1

NoFault == UNCHANGED budget

Return(res) == pc' = "idle" /\ ret' = res

Goto(l) == pc' = l /\ UNCHANGED ret

-----------------------------------------------------------------------------
(* The eMMC device, as the driver uses it (JEDEC states and RPMB requests) *)

\* The state in which the device answers a command; CMD0 is always obeyed, and
\* a device waiting for the data of a write ("rcv") answers nothing else.
Accepts(c) ==
    \/ c = "CMD0"
    \/ c = "CMD1"  /\ cardState = "idle"
    \/ c = "CMD2"  /\ cardState = "ready"
    \/ c = "CMD3"  /\ cardState = "ident"
    \/ c = "CMD7"  /\ cardState = "stby"
    \/ c \in {"CMD16", "CMD8", "CMD6", "CMD23", "CMD18", "CMD25"} /\ cardState = "tran"

\* GO_IDLE forgets a pending response; whether it also resets the partition
\* access bits and the result register is left open, the driver relies on neither.
GoIdle ==
    /\ cardState' = "idle"
    /\ cardPart' \in {"user", cardPart}
    /\ cardDone' \in {NoId, cardDone}
    /\ cardResp' = NoId
    /\ cardBusy' = "no"

StateAfter(c) ==
    CASE c = "CMD1" -> "ready"
      [] c = "CMD2" -> "ident"
      [] c = "CMD3" -> "stby"
      [] OTHER      -> "tran"

\* SWITCH to the RPMB partition loses a pending response and may hold DAT0 low.
SwitchToRpmb ==
    /\ cardPart' = "rpmb"
    /\ cardResp' = NoId
    /\ cardBusy' \in {cardBusy, "switch"}
    /\ UNCHANGED <<cardState, cardDone>>

Obeys(c) ==
    IF c = "CMD0" THEN GoIdle
    ELSE IF c = "CMD6" THEN SwitchToRpmb
    ELSE /\ cardState' = StateAfter(c)
         /\ UNCHANGED <<cardPart, cardBusy, cardDone, cardResp>>

\* The device takes a request frame.  A write is executed at once and its
\* result kept for a later result-read request; a query is answered directly.
\* Outside the RPMB partition the block is plain data.
TakesFrame(f) ==
    /\ cardState' = "tran"
    /\ cardBusy' \in {"no", "program"}
    /\ UNCHANGED cardPart
    /\ IF cardPart # "rpmb" THEN UNCHANGED <<cardDone, cardResp>>
       ELSE CASE f.kind = "write"  -> cardDone' = f.id /\ cardResp' = NoId
              [] f.kind = "result" -> cardResp' = cardDone /\ UNCHANGED cardDone
              [] OTHER             -> cardResp' = f.id /\ UNCHANGED cardDone

\* The device hands out the pending response, once.
GivesResponse ==
    /\ cardResp' = NoId
    /\ UNCHANGED <<cardState, cardPart, cardBusy, cardDone>>

\* A write whose data never arrived leaves the device waiting for it.
AwaitsData ==
    /\ cardState' = "rcv"
    /\ UNCHANGED <<cardPart, cardBusy, cardDone, cardResp>>

CardFinishes ==
    /\ cardBusy # "no"
    /\ cardBusy' = "no"
    /\ UNCHANGED <<ctxVars, hwVars, cardState, cardPart, cardDone, cardResp,
                   pc, call, got, ret, cut, budget>>

-----------------------------------------------------------------------------
(* send_cmd: what every command has in common *)

\* The command and data lines stay inhibited even after reset_transfer: the
\* command is never issued.
CmdInhibited ==
    /\ Fault("inhibit")
    /\ Return("error")
    /\ UNCHANGED cardVars

\* wait_irq reports an error or times out.  The device may have obeyed; one that
\* is busy may leave any command but CMD0 unanswered.
CmdUnanswered(c) ==
    /\ \/ Accepts(c) /\ Fault("cmd") /\ (Obeys(c) \/ UNCHANGED cardVars)
       \/ /\ ~Accepts(c) \/ (cardBusy # "no" /\ c # "CMD0")
          /\ NoFault
          /\ UNCHANGED cardVars
    /\ Return("error")

\* Lines that were inhibited cleared in time, or reset_transfer freed them.
CmdAnswered(c) ==
    /\ Accepts(c)
    /\ Obeys(c)
    /\ NoFault

\* MIXCTRL is written whole before a command with a data phase.
MixctrlFor(blocks) == [ctl EXCEPT !.msb = blocks > 1, !.tuned = FALSE]

\* A variant for testing the properties: the cached partition is kept.
DataPhaseFailed_KeepsPart ==
    /\ \/ Fault("data")
       \/ clocks # CcmClocks /\ NoFault
    /\ inited' = FALSE
    /\ UNCHANGED <<curPart, clockBits, clocks>>
    /\ Return("error")

\* A variant for testing the properties: the cached state is kept.
DataPhaseFailed_KeepsInited ==
    /\ \/ Fault("data")
       \/ clocks # CcmClocks /\ NoFault
    /\ UNCHANGED <<ctxVars, clocks>>
    /\ Return("error")

\* A failed data phase: reset_transfer, and start from scratch next time.
DataPhaseFailed ==
    /\ \/ Fault("data")
       \/ clocks # CcmClocks /\ NoFault
    /\ inited' = FALSE
    /\ curPart' = "none"
    /\ UNCHANGED <<clockBits, clocks>>
    /\ Return("error")

-----------------------------------------------------------------------------
(* imx_usdhc_init *)

\* A variant for testing the properties: the clock divider is not compared.
controller_state_foreign_NoClock == ctl.wide \/ ctl.tuned

\* The registers differ from what this driver programmed.
controller_state_foreign ==
    ctl.wide \/ ctl.clk # clockBits \/ ctl.tuned

\* The entry points: a caller starts one operation; calls are serialised.
Enter(op, f, n) ==
    /\ pc = "idle"
    /\ pc' = "init"
    /\ call' = [op |-> op, frame |-> f, blocks |-> n]
    /\ ret' = "none"
    /\ got' = NoId
    /\ cut' = FALSE
    /\ UNCHANGED <<ctxVars, hwVars, cardVars, budget>>

\* Where imx_usdhc_init returns TEE_SUCCESS to: init and dev_info are done.
InitDone ==
    IF call.op \in {"read", "write"} THEN Goto("CMD6") ELSE Return("ok")

\* A variant for testing the properties: only the bus clock is looked after.
bus_clock_ensure_BusOnly == clocks' = clocks \cup {"bus"}

\* usdhc_bus_clock_ensure: whatever Linux switched off is on again.
bus_clock_ensure == clocks' = CcmClocks

\* A device that is up: the clocks are looked after before a register is touched.
InitEnsure ==
    /\ pc = "init"
    /\ inited
    /\ bus_clock_ensure
    /\ Goto("compare")
    /\ NoFault
    /\ UNCHANGED <<ctxVars, ctl, cardVars, call, got, cut>>

\* The controller is still as this driver left it.
InitCached ==
    /\ pc = "compare"
    /\ ~controller_state_foreign
    /\ InitDone
    /\ NoFault
    /\ UNCHANGED <<ctxVars, hwVars, cardVars, call, got, cut>>

\* Another master reconfigured it: drop the cached state and go on as if first called.
InitForeign ==
    /\ pc = "compare"
    /\ controller_state_foreign
    /\ inited' = FALSE
    /\ curPart' = "none"
    /\ Goto("init")
    /\ NoFault
    /\ UNCHANGED <<clockBits, hwVars, cardVars, call, got, cut>>

\* usdhc_clock_enable, once registers, pads and CCM are found to be mapped.
InitClocks ==
    /\ pc = "init"
    /\ ~inited
    /\ \/ Fault("map") /\ Return("error") /\ UNCHANGED clocks
       \/ NoFault /\ bus_clock_ensure /\ Goto("reset")
    /\ UNCHANGED <<ctxVars, ctl, cardVars, call, got, cut>>

\* The registers after reset_controller: 1-bit bus, tuning off, 24 MHz / 64.
ResetCtl == [wide |-> FALSE, clk |-> "div64", tuned |-> FALSE, msb |-> FALSE]

\* The reset fails when RSTA or, at its end, INITA never clears.
reset_controller ==
    /\ pc = "reset"
    /\ \/ Fault("reset") /\ Return("error") /\ UNCHANGED <<ctl, clockBits>>
       \/ /\ \/ Fault("reset") /\ Return("error")
             \/ NoFault /\ Goto("CMD0")
          /\ ctl' = ResetCtl
          /\ clockBits' = "div64"
    /\ UNCHANGED <<inited, curPart, clocks, cardVars, call, got, cut>>

NextCmd(c) ==
    CASE c = "CMD0" -> "CMD1"
      [] c = "CMD1" -> "CMD2"
      [] c = "CMD2" -> "CMD3"
      [] c = "CMD3" -> "CMD7"
      [] c = "CMD7" -> "CMD16"
      [] OTHER      -> "CMD8"

\* card_identify, one command a step.  The CMD1 loop polls until the device is
\* ready, the response reads all ones, or OCR_TIMEOUT_US is over.  After CMD3
\* the clock goes up to the undivided 24 MHz.
Identify(c) ==
    /\ pc = c
    /\ \/ /\ CmdInhibited \/ CmdUnanswered(c)
          /\ UNCHANGED <<ctl, clockBits>>
       \/ /\ c = "CMD1"
          /\ Fault("ocr")
          /\ Return("error")
          /\ UNCHANGED <<ctl, clockBits, cardVars>>
       \/ /\ CmdAnswered(c)
          /\ Goto(NextCmd(c))
          /\ IF c = "CMD3"
             THEN ctl' = [ctl EXCEPT !.clk = "div1"] /\ clockBits' = "div1"
             ELSE UNCHANGED <<ctl, clockBits>>
    /\ UNCHANGED <<inited, curPart, clocks, call, got, cut>>

\* read_ext_csd and the end of imx_usdhc_init: the partition the device is on
\* is read from the device, not assumed.
ReadExtCsd ==
    /\ pc = "CMD8"
    /\ \/ /\ CmdInhibited
          /\ UNCHANGED <<ctxVars, ctl, clocks>>
       \/ /\ ctl' = MixctrlFor(1)
          /\ \/ CmdUnanswered("CMD8") /\ UNCHANGED <<ctxVars, clocks>>
             \/ Accepts("CMD8") /\ DataPhaseFailed /\ UNCHANGED cardVars
             \/ /\ CmdAnswered("CMD8")
                /\ clocks = CcmClocks
                /\ inited' = TRUE
                /\ curPart' = cardPart
                /\ InitDone
                /\ UNCHANGED <<clockBits, clocks>>
    /\ UNCHANGED <<call, got, cut>>

-----------------------------------------------------------------------------
(* rpmb_xfer *)

\* A variant for testing the properties: cur_part is set before the answer.
switch_partition_SetsEarly ==
    /\ pc = "CMD6"
    /\ \/ /\ curPart = "rpmb"
          /\ Goto("wait")
          /\ NoFault
          /\ UNCHANGED cardVars
       \/ /\ curPart # "rpmb"
          /\ \/ CmdInhibited
             \/ CmdUnanswered("CMD6")
             \/ CmdAnswered("CMD6") /\ Goto("wait")
    /\ curPart' = "rpmb"
    /\ UNCHANGED <<inited, clockBits, ctl, clocks, call, got, cut>>

\* switch_partition(RPMB), skipped when cur_part says the device is there.
switch_partition ==
    /\ pc = "CMD6"
    /\ \/ /\ curPart = "rpmb"
          /\ Goto("wait")
          /\ NoFault
          /\ UNCHANGED <<curPart, cardVars>>
       \/ /\ curPart # "rpmb"
          /\ \/ CmdInhibited /\ UNCHANGED curPart
             \/ CmdUnanswered("CMD6") /\ UNCHANGED curPart
             \/ /\ Accepts("CMD6")            \* answered, with SWITCH_ERROR set
                /\ Fault("reject")
                /\ Return("error")
                /\ UNCHANGED <<curPart, cardVars>>
             \/ /\ CmdAnswered("CMD6")
                /\ curPart' = "rpmb"
                /\ Goto("wait")
    /\ UNCHANGED <<inited, clockBits, ctl, clocks, call, got, cut>>

\* A variant for testing the properties: a device that stays busy counts as lost.
wait_card_ready_DropsPart(l, next) ==
    /\ pc = l
    /\ \/ cardBusy = "no" /\ NoFault /\ next /\ UNCHANGED curPart
       \/ cardBusy # "no" /\ Fault("busy") /\ Return("error") /\ curPart' = "none"
    /\ UNCHANGED <<inited, clockBits, hwVars, cardVars, call, got, cut>>

\* wait_card_ready before the command and, after a write, at the end of the call.
wait_card_ready(l, next) ==
    /\ pc = l
    /\ \/ cardBusy = "no" /\ NoFault /\ next
       \/ cardBusy # "no" /\ Fault("busy") /\ Return("error")
    /\ UNCHANGED <<ctxVars, hwVars, cardVars, call, got, cut>>

WaitBefore == wait_card_ready("wait", Goto("CMD23"))

WaitAfter == wait_card_ready("settle", Return("ok"))

SetBlockCount ==
    /\ pc = "CMD23"
    /\ \/ CmdInhibited
       \/ CmdUnanswered("CMD23")
       \/ CmdAnswered("CMD23") /\ Goto("xfer")
    /\ UNCHANGED <<ctxVars, ctl, clocks, call, got, cut>>

\* More blocks than dma_bounce holds: refused, after CMD23 has gone out.
XferTooLong ==
    /\ pc = "xfer"
    /\ call.blocks > DMA_BOUNCE_BLOCKS
    /\ Return("error")
    /\ NoFault
    /\ UNCHANGED <<ctxVars, ctl, clocks, cardVars, call, got, cut>>

XferInhibited ==
    /\ pc = "xfer"
    /\ CmdInhibited
    /\ UNCHANGED <<ctxVars, ctl, clocks, call, got, cut>>

\* The frames of a request go out with CMD25.
WriteFrames ==
    /\ pc = "xfer"
    /\ call.op = "write"
    /\ call.blocks <= DMA_BOUNCE_BLOCKS
    /\ ctl' = MixctrlFor(call.blocks)
    /\ \/ /\ Accepts("CMD25") /\ Fault("writecmd")       \* no answer to CMD25
          /\ AwaitsData \/ UNCHANGED cardVars
          /\ Return("error")
          /\ UNCHANGED <<ctxVars, clocks>>
       \/ /\ ~Accepts("CMD25") /\ NoFault
          /\ Return("error")
          /\ UNCHANGED <<ctxVars, clocks, cardVars>>
       \/ /\ Accepts("CMD25")
          /\ DataPhaseFailed
          /\ TakesFrame(call.frame) \/ AwaitsData
       \/ /\ Accepts("CMD25")
          /\ clocks = CcmClocks
          /\ NoFault
          /\ TakesFrame(call.frame)
          /\ Goto("settle")
          /\ UNCHANGED <<ctxVars, clocks>>
    /\ UNCHANGED <<call, got, cut>>

\* The frames of a response come in with CMD18; they reach the caller's buffer
\* only when the data phase succeeded.
ReadFrames ==
    /\ pc = "xfer"
    /\ call.op = "read"
    /\ call.blocks <= DMA_BOUNCE_BLOCKS
    /\ ctl' = MixctrlFor(call.blocks)
    /\ \/ /\ Accepts("CMD18") /\ Fault("cmd")            \* no answer to CMD18
          /\ GivesResponse \/ UNCHANGED cardVars
          /\ Return("error")
          /\ UNCHANGED <<ctxVars, clocks, got>>
       \/ /\ ~Accepts("CMD18") /\ NoFault
          /\ Return("error")
          /\ UNCHANGED <<ctxVars, clocks, cardVars, got>>
       \/ /\ Accepts("CMD18")
          /\ DataPhaseFailed
          /\ GivesResponse \/ UNCHANGED cardVars
          /\ UNCHANGED got
       \/ /\ Accepts("CMD18")
          /\ clocks = CcmClocks
          /\ NoFault
          /\ got' = IF cardPart = "rpmb" THEN cardResp ELSE NoId
          /\ GivesResponse
          /\ Return("ok")
          /\ UNCHANGED <<ctxVars, clocks>>
    /\ UNCHANGED <<call, cut>>

-----------------------------------------------------------------------------
(* The other masters *)

\* U-Boot or Linux drives the controller between two calls.  They leave it in a
\* configuration that differs from this driver's (8-bit, HS400, own clock).
ForeignMaster ==
    /\ pc = "idle"
    /\ Fault("foreign")
    /\ ctl' \in {c \in Ctl : c.wide \/ c.clk # "div1" \/ c.tuned}
    /\ cardState' \in {"stby", "tran"}
    /\ cardPart' \in Parts
    /\ cardBusy' \in Busy
    /\ cardDone' \in {cardDone, NoId}
    /\ cardResp' \in {cardResp, NoId}
    /\ UNCHANGED <<ctxVars, clocks, pc, call, got, ret, cut>>

\* Linux's clk_disable_unused: any of the clocks may go off at any time.  That the
\* module's clocks do so under a running call is a fault of a kind of its own.
GateClocks ==
    /\ \/ Fault("gate") /\ pc = "idle" /\ clocks' \in SUBSET clocks
       \/ Fault("gate") /\ pc \notin {"idle", "halted"} /\ clocks' = clocks \ {"bus"}
       \/ Fault("cut") /\ pc \notin {"idle", "halted"} /\ clocks' \in SUBSET clocks
    /\ cut' = (cut \/ /\ pc \notin {"idle", "init"}
                      /\ ModuleClocks \cap (clocks \ clocks') # {})
    /\ UNCHANGED <<ctxVars, ctl, cardVars, pc, call, got, ret>>

-----------------------------------------------------------------------------
(* A register access without the module's clocks *)

\* Every step of a call touches the controller's registers, but imx_usdhc_init up to
\* the clocks and a switch_partition that is skipped.
TouchesRegisters ==
    /\ pc \notin {"idle", "init", "halted"}
    /\ pc = "CMD6" => curPart # "rpmb"

\* The command under way may have reached the device before the clocks went off.
CutCommand ==
    \/ UNCHANGED cardVars
    \/ pc \in IdentCmds \cup {"CMD6", "CMD8", "CMD23"} /\ Accepts(pc) /\ Obeys(pc)
    \/ /\ pc = "xfer" /\ call.blocks <= DMA_BOUNCE_BLOCKS
       /\ \/ /\ call.op = "write" /\ Accepts("CMD25")
             /\ TakesFrame(call.frame) \/ AwaitsData
          \/ call.op = "read" /\ Accepts("CMD18") /\ GivesResponse

\* "Touching the registers in that state faults the core."
CoreFaults ==
    /\ TouchesRegisters
    /\ ~(ModuleClocks \subseteq clocks)
    /\ pc' = "halted"
    /\ CutCommand
    /\ NoFault
    /\ UNCHANGED <<ctxVars, hwVars, call, got, ret, cut>>

\* Nothing runs on a core that faulted.
StaysHalted == pc = "halted" /\ UNCHANGED vars

-----------------------------------------------------------------------------
CallStep ==
    \/ InitEnsure
    \/ InitCached
    \/ InitForeign
    \/ InitClocks
    \/ reset_controller
    \/ \E c \in IdentCmds : Identify(c)
    \/ ReadExtCsd
    \/ switch_partition
    \/ WaitBefore
    \/ SetBlockCount
    \/ XferTooLong
    \/ XferInhibited
    \/ WriteFrames
    \/ ReadFrames
    \/ WaitAfter

DriverStep ==
    \/ (TouchesRegisters => ModuleClocks \subseteq clocks) /\ CallStep
    \/ CoreFaults

Environment == CardFinishes \/ ForeignMaster \/ GateClocks

Caller ==
    \/ \E op \in {"init", "dev_info"} : Enter(op, NoFrame, 0)
    \/ \E n \in BlockCounts : Enter("read", NoFrame, n)
    \/ \E f \in Frame, n \in BlockCounts : Enter("write", f, n)

\* At power-on usdhc_ctx is as the static initialiser left it; the boot ROM and
\* the boot loader have left controller, clocks and device in a state of theirs.
Init ==
    /\ inited = FALSE
    /\ curPart = "none"
    /\ clockBits = "div1"
    /\ ctl \in BootCtl
    /\ clocks \in BootClocks
    /\ cardState \in {"idle", "tran"}
    /\ cardPart \in Parts
    /\ cardBusy = "no"
    /\ cardDone = NoId
    /\ cardResp = NoId
    /\ pc = "idle"
    /\ call = [op |-> "init", frame |-> NoFrame, blocks |-> 0]
    /\ got = NoId
    /\ ret = "none"
    /\ cut = FALSE
    /\ budget = MaxFaults

Next == Caller \/ DriverStep \/ Environment \/ StaysHalted

Spec == Init /\ [][Next]_vars

\* The driver is straight-line code whose every wait has a timeout, the device
\* finishes programming, and callers keep coming.
Fairness ==
    /\ WF_vars(DriverStep)
    /\ WF_vars(CardFinishes)
    /\ WF_vars(Caller)

FairSpec == Spec /\ Fairness

-----------------------------------------------------------------------------
(* Properties *)

\* Every variable holds a value of its kind.
TypeOK ==
    /\ inited \in BOOLEAN
    /\ curPart \in Parts \cup {"none"}
    /\ clockBits \in Divider
    /\ ctl \in Ctl
    /\ clocks \subseteq CcmClocks
    /\ cardState \in CardStates
    /\ cardPart \in Parts
    /\ cardBusy \in Busy
    /\ cardDone \in Ids \cup {NoId}
    /\ cardResp \in Ids \cup {NoId}
    /\ pc \in Pcs
    /\ call \in Call
    /\ got \in Ids \cup {NoId}
    /\ ret \in {"none", "ok", "error"}
    /\ cut \in BOOLEAN
    /\ budget \in 0..MaxFaults

\* RPMB frames only ever go to the RPMB partition: whatever failed before, and
\* whatever another master did to the device, CMD23 and CMD18/CMD25 are issued
\* while the device is on it (otherwise block 0 of the user area is hit).
FramesOnRpmbPartition ==
    pc \in {"CMD23", "xfer"} => cardPart = "rpmb"

\* The cached state is coherent: as long as the registers are the driver's own,
\* inited means the device is selected, and cur_part = RPMB means it is there.
CacheCoherent ==
    inited /\ ~controller_state_foreign =>
        /\ cardState \in {"tran", "rcv"}
        /\ curPart = "rpmb" => cardPart = "rpmb"

\* Clocks found off never stop the core, however the boot loader left them and whenever
\* they were gated, also in the middle of an earlier call: the core faults only if the
\* module's clocks go off under the very call, after it has looked after them.
FaultsOnlyWhenCut == pc = "halted" => cut

\* The driver is about to issue a command.
CommandDue ==
    \/ pc \in IdentCmds \cup {"CMD8", "CMD23", "xfer"}
    \/ pc = "CMD6" /\ curPart # "rpmb"

\* A device that programs what it was sent, by this driver in an earlier call that gave up
\* or by another master, is issued no command but the CMD0 that starts it afresh: neither
\* the CMD6 that is sent without waiting nor any command of a transfer overtakes it.
ProgrammingAwaited == cardBusy = "program" /\ CommandDue => pc = "CMD0"

\* "The next command must not arrive while it is still busy."
NextCommandWaits == cardBusy = "program" => ~CommandDue

\* What the program counter says about the cached state, and what makes the
\* invariants above inductive: a device being identified is not inited and the
\* controller is the driver's; a transfer runs on an inited, undisturbed one.
PhaseInv ==
    /\ ~inited => curPart = "none"
    /\ inited => clockBits = "div1"
    /\ pc = "compare" => inited
    /\ pc = "reset" => ~inited
    /\ pc \in IdentCmds \cup {"CMD8"} => ~inited /\ ~controller_state_foreign
    /\ pc \in {"CMD7", "CMD16", "CMD8"} => clockBits = "div1"
    /\ pc = "CMD8" => cardState = "tran"
    /\ pc \in XferPcs => inited /\ ~controller_state_foreign
    /\ pc \in XferPcs \ {"CMD6"} => curPart = "rpmb"

\* A device that programs is known to be on the RPMB partition, or the driver knows or
\* can see that it has to start it afresh.
BusyInv ==
    /\ cardBusy = "program" /\ inited /\ ~controller_state_foreign => curPart = "rpmb"
    /\ pc \in (IdentCmds \ {"CMD0"}) \cup {"CMD8", "CMD23", "xfer"} => cardBusy = "no"

\* Past its clock check a call has the module's clocks, or they were cut.
ClockInv ==
    /\ pc \notin {"idle", "init", "halted"} => ModuleClocks \subseteq clocks \/ cut
    /\ FaultsOnlyWhenCut

\* The inductive invariant: the phases of a call and what each may rely on.
IInv ==
    /\ TypeOK
    /\ PhaseInv
    /\ CacheCoherent
    /\ BusyInv
    /\ ClockInv

\* One failure does not make every later call fail: once faults have ceased,
\* calls within the DMA buffer's capacity succeed again.
Recovers == []<>(ret = "ok")
=============================================================================
