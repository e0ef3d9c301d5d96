---------------------------- MODULE UsdhcProofs ----------------------------
(***************************************************************************)
(* The safety of the uSDHC driver, for any set of requests, any block      *)
(* counts, any DMA buffer, any state the boot loader leaves and any number *)
(* of faults of any kind.                                                  *)
(***************************************************************************)
EXTENDS Usdhc, TLAPS

\* What ties the call, the cached state and the device together; the rest of IInv says
\* when the device is busy and which clocks run.
CoreInv == TypeOK /\ PhaseInv /\ CacheCoherent

\* The initial states, whatever the boot loader left behind, satisfy IInv.
LEMMA InitIInv == Init => IInv
  <1> SUFFICES ASSUME Init PROVE IInv
    OBVIOUS
  <1>1. TypeOK
    <2>1. call \in Call
      BY DEF Init, Call, Ops
    <2>2. budget \in 0..MaxFaults
      BY UsdhcAssumption DEF Init
    <2>3. pc \in Pcs /\ ret \in {"none", "ok", "error"} /\ cut \in BOOLEAN
      BY DEF Init, Pcs
    <2>4. /\ inited \in BOOLEAN /\ curPart \in Parts \cup {"none"}
          /\ clockBits \in Divider /\ ctl \in Ctl /\ clocks \subseteq CcmClocks
      BY UsdhcAssumption DEF Init, Parts, Divider
    <2>5. /\ cardState \in CardStates /\ cardPart \in Parts /\ cardBusy \in Busy
          /\ cardDone \in Ids \cup {NoId} /\ cardResp \in Ids \cup {NoId}
          /\ got \in Ids \cup {NoId}
      BY DEF Init, CardStates, Busy
    <2> QED
      BY <2>1, <2>2, <2>3, <2>4, <2>5 DEF TypeOK
  <1>2. PhaseInv
    BY DEF Init, PhaseInv, IdentCmds, XferPcs
  <1>3. CacheCoherent /\ BusyInv
    BY DEF Init, CacheCoherent, BusyInv, IdentCmds
  <1>4. ClockInv
    BY DEF Init, ClockInv, FaultsOnlyWhenCut
  <1> QED
    BY <1>1, <1>2, <1>3, <1>4 DEF IInv

\* An answered or obeyed command leaves the device in a state of its type.
LEMMA ObeysType ==
  ASSUME TypeOK, NEW c \in Pcs, Obeys(c)
  PROVE  /\ cardState' \in CardStates
         /\ cardPart' \in Parts
         /\ cardBusy' \in Busy
         /\ cardDone' \in Ids \cup {NoId}
         /\ cardResp' \in Ids \cup {NoId}
  BY DEF TypeOK, Obeys, GoIdle, SwitchToRpmb, StateAfter, CardStates, Parts, Busy

\* A frame taken leaves the device in a state of its type.
LEMMA TakesFrameType ==
  ASSUME TypeOK, TakesFrame(call.frame)
  PROVE  /\ cardState' \in CardStates
         /\ cardPart' \in Parts
         /\ cardBusy' \in Busy
         /\ cardDone' \in Ids \cup {NoId}
         /\ cardResp' \in Ids \cup {NoId}
  <1>1. call.frame.id \in Ids \cup {NoId}
    BY DEF TypeOK, Call, Frame, NoFrame
  <1> QED
    BY <1>1 DEF TypeOK, TakesFrame, CardStates, Parts, Busy

\* A fault consumes one unit of the budget and leaves it a natural number.
LEMMA BudgetType ==
  ASSUME TypeOK, UNCHANGED budget \/ (\E k \in FaultKinds : Fault(k))
  PROVE  budget' \in 0..MaxFaults
  BY UsdhcAssumption DEF TypeOK, Fault

USE DEF Goto, Return, NoFault

\* The entry points change the call alone.
LEMMA EnterCore ==
  ASSUME IInv, NEW op \in Ops, NEW f \in Frame \cup {NoFrame}, NEW n \in BlockCounts \cup {0},
         Enter(op, f, n)
  PROVE  CoreInv'
  <1>1. TypeOK'
    BY DEF IInv, TypeOK, Enter, ctxVars, hwVars, cardVars, Call, Pcs, InitPcs
  <1>2. PhaseInv' /\ CacheCoherent'
    BY DEF IInv, PhaseInv, CacheCoherent, Enter, ctxVars, hwVars, cardVars, IdentCmds, XferPcs,
       controller_state_foreign
  <1> QED
    BY <1>1, <1>2 DEF CoreInv

\* The steps of imx_usdhc_init up to the first command.
LEMMA InitStepCore ==
  ASSUME IInv, InitEnsure \/ InitCached \/ InitForeign \/ InitClocks \/ reset_controller
  PROVE  CoreInv'
  <1>1. CASE InitEnsure
    <2>1. TypeOK'
      BY <1>1 DEF IInv, TypeOK, InitEnsure, bus_clock_ensure, ctxVars, cardVars, Pcs, InitPcs
    <2>2. PhaseInv' /\ CacheCoherent'
      BY <1>1 DEF IInv, PhaseInv, CacheCoherent, InitEnsure, ctxVars, cardVars, IdentCmds,
         XferPcs, controller_state_foreign
    <2> QED
      BY <2>1, <2>2 DEF CoreInv
  <1>2. CASE InitCached
    <2>1. TypeOK'
      BY <1>2 DEF IInv, TypeOK, InitCached, InitDone, ctxVars, hwVars, cardVars, Pcs, XferPcs
    <2>2. PhaseInv' /\ CacheCoherent'
      BY <1>2 DEF IInv, PhaseInv, CacheCoherent, InitCached, InitDone, ctxVars, hwVars, cardVars,
         IdentCmds, XferPcs, controller_state_foreign
    <2> QED
      BY <2>1, <2>2 DEF CoreInv
  <1>3. CASE InitForeign
    <2>1. TypeOK'
      BY <1>3 DEF IInv, TypeOK, InitForeign, hwVars, cardVars, Pcs, InitPcs
    <2>2. PhaseInv' /\ CacheCoherent'
      BY <1>3 DEF IInv, PhaseInv, CacheCoherent, InitForeign, IdentCmds, XferPcs
    <2> QED
      BY <2>1, <2>2 DEF CoreInv
  <1>4. CASE InitClocks
    <2>1. TypeOK'
      <3>1. budget' \in 0..MaxFaults
        BY <1>4, BudgetType DEF InitClocks, IInv, FaultKinds
      <3>2. clocks' \subseteq CcmClocks /\ pc' \in Pcs /\ ret' \in {"none", "ok", "error"}
        BY <1>4 DEF InitClocks, IInv, TypeOK, bus_clock_ensure, Pcs, InitPcs
      <3> QED
        BY <1>4, <3>1, <3>2 DEF InitClocks, IInv, TypeOK, ctxVars, cardVars
    <2>2. PhaseInv' /\ CacheCoherent'
      BY <1>4 DEF IInv, PhaseInv, CacheCoherent, InitClocks, ctxVars, cardVars, IdentCmds,
         XferPcs, controller_state_foreign
    <2> QED
      BY <2>1, <2>2 DEF CoreInv
  <1>5. CASE reset_controller
    <2>1. TypeOK'
      <3>1. budget' \in 0..MaxFaults
        BY <1>5, BudgetType DEF reset_controller, IInv, FaultKinds
      <3>2. ResetCtl \in Ctl /\ "div64" \in Divider
        BY DEF Ctl, ResetCtl, Divider
      <3>3. ctl' \in Ctl /\ clockBits' \in Divider
        BY <1>5, <3>2 DEF reset_controller, IInv, TypeOK
      <3>4. pc' \in Pcs /\ ret' \in {"none", "ok", "error"}
        BY <1>5 DEF reset_controller, IInv, TypeOK, Pcs, IdentCmds
      <3> QED
        BY <1>5, <3>1, <3>3, <3>4 DEF reset_controller, IInv, TypeOK, cardVars
    <2>2. ~inited' /\ curPart' = "none"
      BY <1>5 DEF reset_controller, IInv, PhaseInv
    <2>3. PhaseInv' /\ CacheCoherent'
      BY <1>5, <2>2 DEF PhaseInv, CacheCoherent, reset_controller, IdentCmds, XferPcs,
         controller_state_foreign, ResetCtl
    <2> QED
      BY <2>1, <2>3 DEF CoreInv
  <1> QED
    BY <1>1, <1>2, <1>3, <1>4, <1>5

\* A command that is not issued, or goes unanswered, ends the call.
LEMMA CmdFailsType ==
  ASSUME TypeOK, NEW c \in Pcs, CmdInhibited \/ CmdUnanswered(c)
  PROVE  /\ cardState' \in CardStates
         /\ cardPart' \in Parts
         /\ cardBusy' \in Busy
         /\ cardDone' \in Ids \cup {NoId}
         /\ cardResp' \in Ids \cup {NoId}
         /\ budget' \in 0..MaxFaults
         /\ pc' = "idle"
         /\ ret' = "error"
  <1>1. budget' \in 0..MaxFaults
    BY BudgetType DEF CmdInhibited, CmdUnanswered, FaultKinds
  <1>2. CASE CmdInhibited
    BY <1>1, <1>2 DEF CmdInhibited, TypeOK, cardVars
  <1>3. CASE CmdUnanswered(c)
    <2>1. CASE Obeys(c)
      BY <1>1, <1>3, <2>1, ObeysType DEF CmdUnanswered
    <2>2. CASE UNCHANGED cardVars
      BY <1>1, <1>3, <2>2 DEF CmdUnanswered, cardVars, TypeOK
    <2> QED
      BY <1>3, <2>1, <2>2 DEF CmdUnanswered
  <1> QED
    BY <1>2, <1>3

\* card_identify keeps usdhc_ctx down and the controller the driver's own.
LEMMA IdentifyCore ==
  ASSUME IInv, NEW c \in IdentCmds, Identify(c)
  PROVE  CoreInv'
  <1> USE DEF IInv, CoreInv
  <1>0. c \in Pcs
    BY DEF Pcs
  <1>1. CASE (CmdInhibited \/ CmdUnanswered(c)) /\ UNCHANGED <<ctl, clockBits>>
    <2>1. TypeOK'
      BY <1>0, <1>1, CmdFailsType DEF Identify, TypeOK, Pcs
    <2>2. pc' = "idle"
      BY <1>0, <1>1, CmdFailsType
    <2>3. ~inited' /\ curPart' = "none"
      BY DEF Identify, PhaseInv
    <2> QED
      BY <2>1, <2>2, <2>3 DEF PhaseInv, CacheCoherent, IdentCmds, XferPcs
  <1>2. CASE c = "CMD1" /\ Fault("ocr") /\ Return("error")
             /\ UNCHANGED <<ctl, clockBits, cardVars>>
    <2>1. TypeOK'
      BY <1>2, BudgetType DEF Identify, TypeOK, Pcs, cardVars, FaultKinds
    <2>2. ~inited' /\ curPart' = "none"
      BY DEF Identify, PhaseInv
    <2> QED
      BY <1>2, <2>1, <2>2 DEF PhaseInv, CacheCoherent, IdentCmds, XferPcs
  <1>3. CASE /\ CmdAnswered(c)
             /\ Goto(NextCmd(c))
             /\ IF c = "CMD3"
                THEN ctl' = [ctl EXCEPT !.clk = "div1"] /\ clockBits' = "div1"
                ELSE UNCHANGED <<ctl, clockBits>>
    <2>1. ctl' \in Ctl /\ clockBits' \in Divider
      BY <1>3 DEF TypeOK, Ctl, Divider
    <2>2. /\ pc' \in Pcs \ {"idle", "init", "compare", "reset", "halted"}
          /\ pc' \notin XferPcs \cup {"CMD0"}
      BY <1>3 DEF NextCmd, Pcs, IdentCmds, InitPcs, XferPcs
    <2>3. TypeOK'
      BY <1>0, <1>3, <2>1, <2>2, ObeysType DEF Identify, CmdAnswered, TypeOK
    <2>4. ~inited' /\ curPart' = "none"
      BY DEF Identify, PhaseInv
    <2>5. ~controller_state_foreign'
      BY <1>3 DEF Identify, PhaseInv, controller_state_foreign, TypeOK, Ctl
    <2>6. pc' \in {"CMD7", "CMD16", "CMD8"} => clockBits' = "div1"
      BY <1>3 DEF Identify, PhaseInv, NextCmd, IdentCmds
    <2>7. pc' = "CMD8" => cardState' = "tran"
      BY <1>3 DEF NextCmd, IdentCmds, CmdAnswered, Obeys, StateAfter
    <2>8. PhaseInv'
      BY <2>2, <2>4, <2>5, <2>6, <2>7 DEF PhaseInv
    <2>9. CacheCoherent'
      BY <2>2, <2>4 DEF Identify, CacheCoherent,
         IdentCmds, XferPcs
    <2> QED
      BY <2>3, <2>8, <2>9
  <1> QED
    BY <1>1, <1>2, <1>3 DEF Identify

\* A call that is over leaves a coherent cache if it dropped it.
LEMMA DroppedCacheCore ==
  ASSUME TypeOK', pc' \in {"idle", "halted"}, inited' = FALSE, curPart' = "none"
  PROVE  CoreInv'
  BY DEF CoreInv, PhaseInv, CacheCoherent, IdentCmds, XferPcs

\* MIXCTRL as written for a transfer is the driver's own configuration.
LEMMA MixctrlType ==
  ASSUME TypeOK, NEW n \in BlockCounts \cup {0, 1}
  PROVE  /\ MixctrlFor(n) \in Ctl
         /\ MixctrlFor(n).wide = ctl.wide
         /\ MixctrlFor(n).clk = ctl.clk
         /\ ~MixctrlFor(n).tuned
  <1> DEFINE msb == n > 1
  <1>1. msb \in BOOLEAN
    OBVIOUS
  <1>2. MixctrlFor(n) = [ctl EXCEPT !.msb = msb, !.tuned = FALSE]
    BY DEF MixctrlFor
  <1> HIDE DEF msb
  <1> QED
    BY <1>1, <1>2 DEF TypeOK, Ctl

\* read_ext_csd completes the initialisation or leaves the cache dropped.
LEMMA ReadExtCsdCore ==
  ASSUME IInv, ReadExtCsd
  PROVE  CoreInv'
  <1> USE DEF IInv, CoreInv
  <1>1. CASE CmdInhibited /\ UNCHANGED <<ctxVars, ctl, clocks>>
    <2>1. TypeOK'
      BY <1>1, CmdFailsType DEF ReadExtCsd, TypeOK, Pcs, ctxVars
    <2>2. pc' = "idle" /\ inited' = FALSE /\ curPart' = "none"
      BY <1>1, CmdFailsType DEF ReadExtCsd, PhaseInv, TypeOK, Pcs, ctxVars
    <2> QED
      BY <2>1, <2>2, DroppedCacheCore
  <1>2. CASE ctl' = MixctrlFor(1) /\ CmdUnanswered("CMD8") /\ UNCHANGED <<ctxVars, clocks>>
    <2>1. TypeOK'
      BY <1>2, CmdFailsType, MixctrlType DEF ReadExtCsd, TypeOK, Pcs, ctxVars
    <2>2. pc' = "idle" /\ inited' = FALSE /\ curPart' = "none"
      BY <1>2, CmdFailsType DEF ReadExtCsd, PhaseInv, TypeOK, Pcs, ctxVars
    <2> QED
      BY <2>1, <2>2, DroppedCacheCore
  <1>3. CASE ctl' = MixctrlFor(1) /\ DataPhaseFailed /\ UNCHANGED cardVars
    <2>1. TypeOK'
      BY <1>3, BudgetType, MixctrlType DEF ReadExtCsd, DataPhaseFailed, TypeOK, Pcs,
         cardVars, FaultKinds
    <2> QED
      BY <1>3, <2>1, DroppedCacheCore DEF DataPhaseFailed
  <1>4. CASE /\ ctl' = MixctrlFor(1)
             /\ CmdAnswered("CMD8")
             /\ inited' = TRUE
             /\ curPart' = cardPart
             /\ InitDone
             /\ UNCHANGED <<clockBits, clocks>>
    <2>1. cardState' = "tran" /\ UNCHANGED <<cardPart, cardBusy, cardDone, cardResp>>
      BY <1>4 DEF CmdAnswered, Obeys, StateAfter
    <2>2. pc' \in {"CMD6", "idle"} /\ ret' \in {"none", "ok", "error"}
      BY <1>4 DEF InitDone, TypeOK
    <2>3. TypeOK'
      BY <1>4, <2>1, <2>2, MixctrlType DEF ReadExtCsd, CmdAnswered, TypeOK, Pcs, XferPcs,
         CardStates
    <2>4. ~controller_state_foreign' /\ clockBits' = "div1"
      BY <1>4, MixctrlType DEF ReadExtCsd, PhaseInv, controller_state_foreign
    <2>5. PhaseInv'
      BY <1>4, <2>2, <2>4 DEF PhaseInv, IdentCmds, XferPcs
    <2>6. CacheCoherent'
      BY <1>4, <2>1, <2>2 DEF ReadExtCsd, CacheCoherent
    <2> QED
      BY <2>3, <2>5, <2>6
  <1> QED
    BY <1>1, <1>2, <1>3, <1>4 DEF ReadExtCsd

\* A call that is over with usdhc_ctx and the driver's registers as they were
\* leaves a coherent cache if the device stayed where it was, or went to RPMB.
LEMMA KeptCacheCore ==
  ASSUME IInv, TypeOK', pc' \in {"idle", "halted"}, UNCHANGED ctxVars,
         pc \in XferPcs,
         ctl'.wide = ctl.wide, ctl'.clk = ctl.clk,
         cardState' \in {"tran", "rcv"},
         cardPart' \in {cardPart, "rpmb"}
  PROVE  CoreInv'
  <1>1. PhaseInv'
    BY DEF IInv, PhaseInv, ctxVars, IdentCmds, XferPcs
  <1>2. CacheCoherent'
    BY DEF IInv, PhaseInv, CacheCoherent, ctxVars
  <1> QED
    BY <1>1, <1>2 DEF CoreInv

\* A command of a transfer that fails may have been obeyed, but the device
\* stays selected and does not leave the RPMB partition.
LEMMA CmdFailsCard ==
  ASSUME IInv, pc \in XferPcs, NEW c \in {"CMD6", "CMD23"},
         CmdInhibited \/ CmdUnanswered(c)
  PROVE  cardState' \in {"tran", "rcv"} /\ cardPart' \in {cardPart, "rpmb"}
  <1>1. cardState \in {"tran", "rcv"}
    BY DEF IInv, PhaseInv, CacheCoherent
  <1> QED
    BY <1>1 DEF CmdInhibited, CmdUnanswered, Obeys, SwitchToRpmb, StateAfter, cardVars

\* switch_partition sets cur_part only after the device went to RPMB.
LEMMA SwitchCore ==
  ASSUME IInv, switch_partition
  PROVE  CoreInv'
  <1> USE DEF IInv, CoreInv
  <1>0. pc \in XferPcs /\ inited /\ ~controller_state_foreign
    BY DEF switch_partition, PhaseInv, XferPcs
  <1>1. CASE curPart = "rpmb" /\ Goto("wait") /\ NoFault /\ UNCHANGED <<curPart, cardVars>>
    <2>1. TypeOK'
      BY <1>1 DEF switch_partition, TypeOK, Pcs, XferPcs, cardVars
    <2>2. PhaseInv'
      BY <1>0, <1>1 DEF switch_partition, PhaseInv, IdentCmds, XferPcs, controller_state_foreign
    <2>3. CacheCoherent'
      BY <1>1 DEF switch_partition, CacheCoherent,
         cardVars, controller_state_foreign
    <2> QED
      BY <2>1, <2>2, <2>3
  <1>2. CASE (CmdInhibited \/ CmdUnanswered("CMD6")) /\ UNCHANGED curPart
    <2>1. TypeOK' /\ pc' = "idle"
      BY <1>2, CmdFailsType DEF switch_partition, TypeOK, Pcs, XferPcs
    <2>2. cardState' \in {"tran", "rcv"} /\ cardPart' \in {cardPart, "rpmb"}
      BY <1>0, <1>2, CmdFailsCard
    <2> QED
      BY <1>0, <1>2, <2>1, <2>2, KeptCacheCore DEF switch_partition, ctxVars
  <1>3. CASE Fault("reject") /\ Return("error") /\ UNCHANGED <<curPart, cardVars>>
    <2>1. TypeOK' /\ pc' = "idle"
      BY <1>3, BudgetType DEF switch_partition, TypeOK, Pcs, cardVars, FaultKinds
    <2>2. cardState' \in {"tran", "rcv"} /\ cardPart' = cardPart
      BY <1>0, <1>3 DEF CacheCoherent, cardVars
    <2> QED
      BY <1>0, <1>3, <2>1, <2>2, KeptCacheCore DEF switch_partition, ctxVars
  <1>4. CASE CmdAnswered("CMD6") /\ curPart' = "rpmb" /\ Goto("wait")
    <2>1. /\ cardPart' = "rpmb" /\ cardState' = cardState
          /\ cardBusy' \in Busy /\ cardResp' = NoId /\ cardDone' = cardDone
      BY <1>4 DEF CmdAnswered, Obeys, SwitchToRpmb, TypeOK, Busy
    <2>2. TypeOK'
      BY <1>4, <2>1 DEF switch_partition, CmdAnswered, TypeOK, Pcs, XferPcs, Parts
    <2>3. PhaseInv'
      BY <1>0, <1>4 DEF switch_partition, PhaseInv, IdentCmds, XferPcs, controller_state_foreign
    <2>4. CacheCoherent'
      BY <1>0, <1>4, <2>1 DEF switch_partition, CacheCoherent, controller_state_foreign
    <2> QED
      BY <2>2, <2>3, <2>4
  <1> QED
    BY <1>1, <1>2, <1>3, <1>4 DEF switch_partition

\* wait_card_ready lets a command through only when the device is idle.
LEMMA WaitCore ==
  ASSUME IInv, WaitBefore \/ WaitAfter
  PROVE  CoreInv'
  <1> USE DEF IInv, CoreInv, WaitBefore, WaitAfter, wait_card_ready
  <1>0. pc \in XferPcs /\ inited /\ ~controller_state_foreign /\ cardState \in {"tran", "rcv"}
    BY DEF PhaseInv, XferPcs, CacheCoherent
  <1>1. TypeOK'
    <2>1. budget' \in 0..MaxFaults
      BY BudgetType DEF FaultKinds
    <2>2. pc' \in Pcs /\ ret' \in {"none", "ok", "error"}
      BY DEF TypeOK, Pcs, XferPcs
    <2> QED
      BY <2>1, <2>2 DEF TypeOK, ctxVars, hwVars, cardVars
  <1>2. CASE pc' = "idle"
    BY <1>0, <1>1, <1>2, KeptCacheCore DEF ctxVars, hwVars, cardVars
  <1>3. CASE pc' # "idle"
    <2>1. pc = "wait" /\ pc' = "CMD23"
      BY <1>3
    <2>2. PhaseInv'
      BY <1>0, <2>1 DEF PhaseInv, ctxVars, hwVars, cardVars, IdentCmds, XferPcs,
         controller_state_foreign
    <2>3. CacheCoherent'
      BY <2>1 DEF CacheCoherent, ctxVars, hwVars,
         cardVars, controller_state_foreign
    <2> QED
      BY <1>1, <2>2, <2>3
  <1> QED
    BY <1>2, <1>3

\* SET_BLOCK_COUNT leaves the device on the RPMB partition.
LEMMA SetBlockCountCore ==
  ASSUME IInv, SetBlockCount
  PROVE  CoreInv'
  <1> USE DEF IInv, CoreInv
  <1>0. pc \in XferPcs /\ inited /\ ~controller_state_foreign /\ pc = "CMD23"
    BY DEF SetBlockCount, PhaseInv, XferPcs
  <1>1. CASE CmdInhibited \/ CmdUnanswered("CMD23")
    <2>1. TypeOK' /\ pc' = "idle"
      BY <1>1, CmdFailsType DEF SetBlockCount, TypeOK, Pcs, XferPcs, ctxVars
    <2>2. cardState' \in {"tran", "rcv"} /\ cardPart' \in {cardPart, "rpmb"}
      BY <1>0, <1>1, CmdFailsCard
    <2> QED
      BY <1>0, <2>1, <2>2, KeptCacheCore DEF SetBlockCount
  <1>2. CASE CmdAnswered("CMD23") /\ Goto("xfer")
    <2>1. cardState' = "tran" /\ UNCHANGED <<cardPart, cardBusy, cardDone, cardResp>>
      BY <1>2 DEF CmdAnswered, Obeys, StateAfter
    <2>2. TypeOK'
      BY <1>2, <2>1 DEF SetBlockCount, CmdAnswered, TypeOK, Pcs, XferPcs, CardStates, ctxVars
    <2>3. PhaseInv'
      BY <1>0, <1>2 DEF SetBlockCount, PhaseInv, IdentCmds, XferPcs, ctxVars,
         controller_state_foreign
    <2>4. CacheCoherent'
      BY <1>0, <1>2, <2>1 DEF SetBlockCount, CacheCoherent, ctxVars, controller_state_foreign
    <2> QED
      BY <2>2, <2>3, <2>4
  <1> QED
    BY <1>1, <1>2 DEF SetBlockCount

\* A transfer refused before it is issued leaves everything as it was.
LEMMA XferRefusedCore ==
  ASSUME IInv, XferTooLong \/ XferInhibited
  PROVE  CoreInv'
  <1> USE DEF IInv, CoreInv
  <1>0. pc \in XferPcs /\ cardState \in {"tran", "rcv"}
    BY DEF XferTooLong, XferInhibited, PhaseInv, XferPcs, CacheCoherent
  <1>1. CASE XferTooLong
    <2>1. TypeOK' /\ pc' = "idle"
      BY <1>1 DEF XferTooLong, TypeOK, Pcs, ctxVars, cardVars
    <2> QED
      BY <1>0, <1>1, <2>1, KeptCacheCore DEF XferTooLong, cardVars
  <1>2. CASE XferInhibited
    <2>1. TypeOK' /\ pc' = "idle"
      BY <1>2, CmdFailsType DEF XferInhibited, TypeOK, Pcs, ctxVars
    <2> QED
      BY <1>0, <1>2, <2>1, KeptCacheCore DEF XferInhibited, CmdInhibited, cardVars
  <1> QED
    BY <1>1, <1>2

\* A request's frames: either the call is over, with the cache kept or dropped,
\* or the device took the frame and is waited for.
LEMMA WriteFramesCore ==
  ASSUME IInv, WriteFrames
  PROVE  CoreInv'
  <1> USE DEF IInv, CoreInv
  <1>0. /\ pc = "xfer" /\ pc \in XferPcs /\ inited /\ ~controller_state_foreign
        /\ curPart = "rpmb" /\ cardState \in {"tran", "rcv"} /\ cardPart = "rpmb"
    BY DEF WriteFrames, PhaseInv, XferPcs, CacheCoherent
  <1>1. /\ ctl' \in Ctl /\ ctl'.wide = ctl.wide /\ ctl'.clk = ctl.clk /\ ~ctl'.tuned
    <2>1. call.blocks \in BlockCounts \cup {0, 1}
      BY DEF TypeOK, Call
    <2> QED
      BY <2>1, MixctrlType DEF WriteFrames
  <1>2. /\ AwaitsData => cardState' = "rcv" /\ UNCHANGED <<cardPart, cardBusy, cardDone, cardResp>>
        /\ "rcv" \in CardStates
    BY DEF AwaitsData, CardStates
  <1>3. CASE /\ Fault("writecmd") /\ (AwaitsData \/ UNCHANGED cardVars)
             /\ Return("error") /\ UNCHANGED <<ctxVars, clocks>>
    <2>1. TypeOK' /\ pc' = "idle"
      BY <1>1, <1>2, <1>3, BudgetType DEF WriteFrames, TypeOK, Pcs, ctxVars, cardVars, FaultKinds
    <2>2. cardState' \in {"tran", "rcv"} /\ cardPart' = cardPart
      BY <1>0, <1>2, <1>3 DEF cardVars
    <2> QED
      BY <1>0, <1>1, <1>3, <2>1, <2>2, KeptCacheCore
  <1>4. CASE /\ NoFault /\ Return("error")
             /\ UNCHANGED <<ctxVars, clocks, cardVars>>
    <2>1. TypeOK' /\ pc' = "idle"
      BY <1>1, <1>4 DEF WriteFrames, TypeOK, Pcs, ctxVars, cardVars
    <2> QED
      BY <1>0, <1>1, <1>4, <2>1, KeptCacheCore DEF cardVars
  <1>5. CASE DataPhaseFailed /\ (TakesFrame(call.frame) \/ AwaitsData)
    <2>1. budget' \in 0..MaxFaults
      BY <1>5, BudgetType DEF DataPhaseFailed, FaultKinds
    <2>2. /\ cardState' \in CardStates /\ cardPart' \in Parts /\ cardBusy' \in Busy
          /\ cardDone' \in Ids \cup {NoId} /\ cardResp' \in Ids \cup {NoId}
      BY <1>2, <1>5, TakesFrameType DEF TypeOK
    <2>3. TypeOK'
      BY <1>1, <1>5, <2>1, <2>2 DEF WriteFrames, DataPhaseFailed, TypeOK, Pcs
    <2> QED
      BY <1>5, <2>3, DroppedCacheCore DEF DataPhaseFailed
  <1>6. CASE /\ NoFault /\ TakesFrame(call.frame)
             /\ Goto("settle") /\ UNCHANGED <<ctxVars, clocks>>
    <2>1. TypeOK'
      BY <1>1, <1>6, TakesFrameType DEF WriteFrames, TypeOK, Pcs, XferPcs, ctxVars
    <2>2. PhaseInv'
      BY <1>0, <1>1, <1>6 DEF PhaseInv, IdentCmds, XferPcs, ctxVars, controller_state_foreign
    <2>3. CacheCoherent'
      BY <1>0, <1>6 DEF TakesFrame, CacheCoherent
    <2> QED
      BY <2>1, <2>2, <2>3
  <1> QED
    BY <1>3, <1>4, <1>5, <1>6 DEF WriteFrames

\* A response's frames: the call is over, with the cache kept or dropped.
LEMMA ReadFramesCore ==
  ASSUME IInv, ReadFrames
  PROVE  CoreInv'
  <1> USE DEF IInv, CoreInv
  <1>0. pc = "xfer" /\ pc \in XferPcs /\ cardState \in {"tran", "rcv"}
    BY DEF ReadFrames, PhaseInv, XferPcs, CacheCoherent
  <1>1. /\ ctl' \in Ctl /\ ctl'.wide = ctl.wide /\ ctl'.clk = ctl.clk
    <2>1. call.blocks \in BlockCounts \cup {0, 1}
      BY DEF TypeOK, Call
    <2> QED
      BY <2>1, MixctrlType DEF ReadFrames
  <1>2. /\ cardState' = cardState /\ cardPart' = cardPart /\ cardBusy' = cardBusy
        /\ cardDone' = cardDone /\ cardResp' \in {cardResp, NoId}
    BY DEF ReadFrames, GivesResponse, cardVars
  <1>3. got' \in Ids \cup {NoId}
    BY DEF ReadFrames, TypeOK
  <1>4. budget' \in 0..MaxFaults
    BY BudgetType DEF ReadFrames, DataPhaseFailed, FaultKinds
  <1>5. CASE DataPhaseFailed
    <2>1. TypeOK'
      BY <1>1, <1>2, <1>3, <1>4, <1>5 DEF ReadFrames, DataPhaseFailed, TypeOK, Pcs
    <2> QED
      BY <1>5, <2>1, DroppedCacheCore DEF DataPhaseFailed
  <1>6. CASE UNCHANGED <<ctxVars, clocks>> /\ pc' = "idle" /\ ret' \in {"ok", "error"}
    <2>1. TypeOK'
      BY <1>1, <1>2, <1>3, <1>4, <1>6 DEF ReadFrames, TypeOK, Pcs, ctxVars
    <2> QED
      BY <1>0, <1>1, <1>2, <1>6, <2>1, KeptCacheCore
  <1> QED
    BY <1>5, <1>6 DEF ReadFrames

\* The other masters: what they do to the device shows in the registers.
LEMMA EnvironmentCore ==
  ASSUME IInv, Environment
  PROVE  CoreInv'
  <1> USE DEF IInv, CoreInv
  <1>1. CASE CardFinishes
    <2>1. TypeOK'
      BY <1>1 DEF CardFinishes, TypeOK, Busy, ctxVars, hwVars
    <2>2. PhaseInv'
      BY <1>1 DEF CardFinishes, PhaseInv, ctxVars, hwVars, controller_state_foreign
    <2>3. CacheCoherent'
      BY <1>1 DEF CardFinishes, CacheCoherent,
         ctxVars, hwVars, controller_state_foreign
    <2> QED
      BY <2>1, <2>2, <2>3
  <1>2. CASE ForeignMaster
    <2>1. TypeOK'
      <3>1. budget' \in 0..MaxFaults
        BY <1>2, BudgetType DEF ForeignMaster, FaultKinds
      <3>2. ctl' \in Ctl /\ cardState' \in CardStates
        BY <1>2 DEF ForeignMaster, CardStates
      <3> QED
        BY <1>2, <3>1, <3>2 DEF ForeignMaster, TypeOK, ctxVars
    <2>2. PhaseInv'
      BY <1>2 DEF ForeignMaster, PhaseInv, ctxVars, IdentCmds, XferPcs
    <2>3. CacheCoherent'
      BY <1>2 DEF ForeignMaster, PhaseInv, CacheCoherent, ctxVars, controller_state_foreign
    <2> QED
      BY <2>1, <2>2, <2>3
  <1>3. CASE GateClocks
    <2>1. TypeOK'
      <3>1. budget' \in 0..MaxFaults
        BY <1>3, BudgetType DEF GateClocks, FaultKinds
      <3>2. clocks' \subseteq CcmClocks /\ cut' \in BOOLEAN
        BY <1>3 DEF GateClocks, TypeOK
      <3> QED
        BY <1>3, <3>1, <3>2 DEF GateClocks, TypeOK, ctxVars, cardVars
    <2>2. PhaseInv'
      BY <1>3 DEF GateClocks, PhaseInv, ctxVars, cardVars, controller_state_foreign
    <2>3. CacheCoherent'
      BY <1>3 DEF GateClocks, CacheCoherent, ctxVars, cardVars, controller_state_foreign
    <2> QED
      BY <2>1, <2>2, <2>3
  <1> QED
    BY <1>1, <1>2, <1>3 DEF Environment

\* A core that faults leaves usdhc_ctx as it was and the device no further than the
\* command under way takes it.
LEMMA CoreFaultsCore ==
  ASSUME IInv, CoreFaults
  PROVE  CoreInv'
  <1> USE DEF IInv
  <1>1. UNCHANGED <<ctxVars, hwVars, call, got, ret, cut, budget>> /\ pc' = "halted"
    BY DEF CoreFaults
  <1>2. CASE UNCHANGED cardVars
    <2>1. TypeOK'
      BY <1>1, <1>2 DEF TypeOK, ctxVars, hwVars, cardVars, Pcs
    <2>2. PhaseInv' /\ CacheCoherent'
      BY <1>1, <1>2 DEF PhaseInv, CacheCoherent, ctxVars, hwVars, cardVars, IdentCmds, InitPcs,
         XferPcs, controller_state_foreign
    <2> QED
      BY <2>1, <2>2 DEF CoreInv
  <1>3. CASE pc \in IdentCmds \cup {"CMD6", "CMD8", "CMD23"} /\ Accepts(pc) /\ Obeys(pc)
    <2>1. TypeOK'
      <3>1. pc \in Pcs /\ pc' \in Pcs
        BY <1>1 DEF TypeOK, Pcs
      <3> QED
        BY <1>1, <1>3, <3>1, ObeysType DEF TypeOK, ctxVars, hwVars
    <2>2. CASE pc \in IdentCmds \cup {"CMD8"}
      <3>1. inited' = FALSE /\ curPart' = "none"
        BY <1>1, <2>2 DEF PhaseInv, TypeOK, ctxVars
      <3> QED
        BY <1>1, <2>1, <3>1, DroppedCacheCore
    <2>3. CASE pc \in {"CMD6", "CMD23"}
      <3>1. pc \in XferPcs /\ cardState \in {"tran", "rcv"}
        BY <2>3 DEF XferPcs, PhaseInv, CacheCoherent
      <3>2. cardState' \in {"tran", "rcv"} /\ cardPart' \in {cardPart, "rpmb"}
        BY <1>3, <2>3, <3>1 DEF Obeys, SwitchToRpmb, StateAfter
      <3> QED
        BY <1>1, <2>1, <3>1, <3>2, KeptCacheCore DEF hwVars
    <2> QED
      BY <1>3, <2>2, <2>3
  <1>4. CASE pc = "xfer" /\ (TakesFrame(call.frame) \/ AwaitsData \/ GivesResponse)
    <2>1. pc \in XferPcs /\ cardState \in {"tran", "rcv"}
      BY <1>4 DEF XferPcs, PhaseInv, CacheCoherent
    <2>2. cardState' \in {"tran", "rcv"} /\ cardPart' = cardPart
      BY <1>4, <2>1 DEF TakesFrame, AwaitsData, GivesResponse
    <2>3. /\ cardState' \in CardStates /\ cardPart' \in Parts /\ cardBusy' \in Busy
          /\ cardDone' \in Ids \cup {NoId} /\ cardResp' \in Ids \cup {NoId}
      BY <1>4, TakesFrameType DEF TypeOK, AwaitsData, GivesResponse, CardStates
    <2>4. TypeOK'
      BY <1>1, <2>3 DEF TypeOK, ctxVars, hwVars, Pcs
    <2> QED
      BY <1>1, <2>1, <2>2, <2>4, KeptCacheCore DEF hwVars
  <1> QED
    BY <1>2, <1>3, <1>4 DEF CoreFaults, CutCommand

-----------------------------------------------------------------------------
(* A device that is busy *)

\* A device is left programming only where the driver knows that it is on the RPMB
\* partition, or that it has to start it afresh; past its waits it is not busy.
LEMMA CallStepBusy ==
  ASSUME IInv, CallStep
  PROVE  BusyInv'
  <1> USE DEF IInv, BusyInv
  <1>1. CASE InitEnsure \/ InitCached \/ InitForeign \/ InitClocks
    BY <1>1 DEF InitEnsure, InitCached, InitForeign, InitClocks, InitDone, ctxVars, hwVars,
       cardVars, IdentCmds, controller_state_foreign
  <1>2. CASE reset_controller
    BY <1>2 DEF reset_controller, PhaseInv, cardVars, IdentCmds
  <1>3. CASE \E c \in IdentCmds : Identify(c)
    <2>1. PICK c \in IdentCmds : Identify(c)
      BY <1>3
    <2>2. inited' = FALSE
      BY <2>1 DEF Identify, PhaseInv, TypeOK
    <2>3. CASE pc' = "idle"
      BY <2>2, <2>3 DEF IdentCmds
    <2>4. CASE CmdAnswered(c) /\ Goto(NextCmd(c))
      <3>1. cardBusy' = "no"
        BY <2>1, <2>4 DEF Identify, CmdAnswered, Obeys, GoIdle, IdentCmds
      <3> QED
        BY <2>2, <3>1
    <2> QED
      BY <2>1, <2>3, <2>4 DEF Identify, CmdInhibited, CmdUnanswered
  <1>4. CASE ReadExtCsd
    <2>1. cardBusy = "no"
      BY <1>4 DEF ReadExtCsd
    <2>2. cardBusy' = "no"
      BY <1>4, <2>1 DEF ReadExtCsd, CmdInhibited, CmdUnanswered, CmdAnswered, Obeys, cardVars
    <2> QED
      BY <2>2
  <1>5. CASE switch_partition
    <2>1. /\ pc' \in {"idle", "wait"} /\ cardBusy' \in {cardBusy, "switch"}
          /\ curPart' \in {curPart, "rpmb"} /\ UNCHANGED <<inited, clockBits, ctl>>
      BY <1>5 DEF switch_partition, CmdInhibited, CmdUnanswered, CmdAnswered, Obeys,
         SwitchToRpmb, cardVars
    <2> QED
      BY <2>1 DEF IdentCmds, controller_state_foreign
  <1>6. CASE WaitBefore \/ WaitAfter
    BY <1>6 DEF WaitBefore, WaitAfter, wait_card_ready, ctxVars, hwVars, cardVars, IdentCmds,
       controller_state_foreign
  <1>7. CASE SetBlockCount
    <2>1. cardBusy = "no"
      BY <1>7 DEF SetBlockCount
    <2>2. cardBusy' = "no"
      BY <1>7, <2>1 DEF SetBlockCount, CmdInhibited, CmdUnanswered, CmdAnswered, Obeys, cardVars
    <2> QED
      BY <2>2
  <1>8. CASE XferTooLong \/ XferInhibited \/ ReadFrames
    <2>1. cardBusy = "no"
      BY <1>8 DEF XferTooLong, XferInhibited, ReadFrames
    <2>2. cardBusy' = "no"
      BY <1>8, <2>1 DEF XferTooLong, XferInhibited, ReadFrames, CmdInhibited, GivesResponse, cardVars
    <2> QED
      BY <2>2
  <1>9. CASE WriteFrames
    <2>1. curPart = "rpmb"
      BY <1>9 DEF WriteFrames, PhaseInv, XferPcs
    <2>2. pc' \in {"idle", "settle"} /\ (UNCHANGED curPart \/ inited' = FALSE)
      BY <1>9 DEF WriteFrames, DataPhaseFailed, ctxVars
    <2> QED
      BY <2>1, <2>2 DEF IdentCmds
  <1> QED
    BY <1>1, <1>2, <1>3, <1>4, <1>5, <1>6, <1>7, <1>8, <1>9 DEF CallStep

\* Nor does any other step leave one that the driver would not know of.
LEMMA OtherStepBusy ==
  ASSUME IInv, CoreFaults \/ Environment
  PROVE  BusyInv'
  <1> USE DEF IInv, BusyInv
  <1>1. CASE CoreFaults
    <2>1. UNCHANGED <<ctxVars, hwVars>> /\ pc' = "halted"
      BY <1>1 DEF CoreFaults
    <2>2. CASE UNCHANGED cardVars
      BY <2>1, <2>2 DEF ctxVars, hwVars, cardVars, IdentCmds, controller_state_foreign
    <2>3. CASE pc \in IdentCmds \cup {"CMD8"}
      BY <2>1, <2>3 DEF PhaseInv, ctxVars, IdentCmds
    <2>4. CASE pc \in {"CMD6", "CMD23"} /\ Obeys(pc)
      <3>1. cardBusy' \in {cardBusy, "switch"}
        BY <2>4 DEF Obeys, SwitchToRpmb
      <3> QED
        BY <2>1, <3>1 DEF ctxVars, hwVars, IdentCmds, controller_state_foreign
    <2>5. CASE pc = "xfer"
      BY <2>1, <2>5 DEF PhaseInv, XferPcs, ctxVars, IdentCmds
    <2> QED
      BY <1>1, <2>2, <2>3, <2>4, <2>5 DEF CoreFaults, CutCommand
  <1>2. CASE CardFinishes
    BY <1>2 DEF CardFinishes
  <1>3. CASE ForeignMaster
    BY <1>3 DEF ForeignMaster, PhaseInv, ctxVars, IdentCmds, controller_state_foreign
  <1>4. CASE GateClocks
    BY <1>4 DEF GateClocks, ctxVars, cardVars, controller_state_foreign
  <1> QED
    BY <1>1, <1>2, <1>3, <1>4 DEF Environment

-----------------------------------------------------------------------------
(* The clocks *)

\* A step of a call is before the clock check, makes it, or leaves the clocks alone.
LEMMA CallStepClock ==
  ASSUME IInv, CallStep
  PROVE  ClockInv'
  <1> USE DEF IInv
  <1>1. CASE InitEnsure \/ InitClocks
    <2>1. pc' = "idle" \/ (pc' \in {"compare", "reset"} /\ ModuleClocks \subseteq clocks')
      BY <1>1 DEF InitEnsure, InitClocks, bus_clock_ensure, ModuleClocks, CcmClocks
    <2> QED
      BY <2>1 DEF ClockInv, FaultsOnlyWhenCut
  <1>2. ASSUME UNCHANGED <<clocks, cut>>, pc \notin {"idle", "init", "halted"}, pc' # "halted"
        PROVE  ClockInv'
    BY <1>2 DEF ClockInv, FaultsOnlyWhenCut
  <1>3. CASE InitCached \/ InitForeign \/ reset_controller
    <2>1. pc' # "halted" /\ UNCHANGED <<clocks, cut>> /\ pc \notin {"idle", "init", "halted"}
      BY <1>3 DEF InitCached, InitForeign, reset_controller, InitDone, hwVars
    <2> QED
      BY <1>2, <2>1
  <1>4. CASE \E c \in IdentCmds : Identify(c)
    <2>1. PICK c \in IdentCmds : Identify(c)
      BY <1>4
    <2>2. pc' # "halted" /\ UNCHANGED <<clocks, cut>> /\ pc \notin {"idle", "init", "halted"}
      BY <2>1 DEF Identify, CmdInhibited, CmdUnanswered, NextCmd, IdentCmds
    <2> QED
      BY <1>2, <2>2
  <1>5. CASE ReadExtCsd
    <2>1. pc' # "halted" /\ UNCHANGED <<clocks, cut>> /\ pc = "CMD8"
      BY <1>5 DEF ReadExtCsd, CmdInhibited, CmdUnanswered, DataPhaseFailed, InitDone
    <2> QED
      BY <1>2, <2>1
  <1>6. CASE switch_partition \/ SetBlockCount
    <2>1. pc' # "halted" /\ UNCHANGED <<clocks, cut>> /\ pc \in {"CMD6", "CMD23"}
      BY <1>6 DEF switch_partition, SetBlockCount, CmdInhibited, CmdUnanswered
    <2> QED
      BY <1>2, <2>1
  <1>7. CASE WaitBefore \/ WaitAfter
    <2>1. pc' # "halted" /\ UNCHANGED <<clocks, cut>> /\ pc \in {"wait", "settle"}
      BY <1>7 DEF WaitBefore, WaitAfter, wait_card_ready, hwVars
    <2> QED
      BY <1>2, <2>1
  <1>8. CASE XferTooLong \/ XferInhibited \/ WriteFrames \/ ReadFrames
    <2>1. pc' # "halted" /\ UNCHANGED <<clocks, cut>> /\ pc = "xfer"
      BY <1>8 DEF XferTooLong, XferInhibited, WriteFrames, ReadFrames, CmdInhibited,
         DataPhaseFailed
    <2> QED
      BY <1>2, <2>1
  <1> QED
    BY <1>1, <1>3, <1>4, <1>5, <1>6, <1>7, <1>8 DEF CallStep

\* The core faults only past the clock check, where the clocks are on unless they were
\* cut; that they are cut is recorded.
LEMMA OtherStepClock ==
  ASSUME IInv, CoreFaults \/ Environment
  PROVE  ClockInv'
  <1> USE DEF IInv, ClockInv, FaultsOnlyWhenCut
  <1>1. CASE CoreFaults
    BY <1>1 DEF CoreFaults, TouchesRegisters
  <1>2. CASE CardFinishes
    BY <1>2 DEF CardFinishes, hwVars
  <1>3. CASE ForeignMaster
    BY <1>3 DEF ForeignMaster
  <1>4. CASE GateClocks
    BY <1>4 DEF GateClocks, ModuleClocks
  <1> QED
    BY <1>1, <1>2, <1>3, <1>4 DEF Environment

-----------------------------------------------------------------------------
(* The steps together *)

\* Every step of the driver itself preserves the invariant.
LEMMA DriverStepIInv ==
  ASSUME IInv, DriverStep
  PROVE  IInv'
  <1>1. CASE CallStep
    <2>1. CoreInv'
      BY <1>1, InitStepCore, IdentifyCore, ReadExtCsdCore, SwitchCore, WaitCore, SetBlockCountCore,
         XferRefusedCore, WriteFramesCore, ReadFramesCore DEF CallStep
    <2> QED
      BY <1>1, <2>1, CallStepBusy, CallStepClock DEF IInv, CoreInv
  <1>2. CASE CoreFaults
    BY <1>2, CoreFaultsCore, OtherStepBusy, OtherStepClock DEF IInv, CoreInv
  <1> QED
    BY <1>1, <1>2 DEF DriverStep

\* So do the other masters ...
LEMMA EnvironmentIInv ==
  ASSUME IInv, Environment
  PROVE  IInv'
  BY EnvironmentCore, OtherStepBusy, OtherStepClock DEF IInv, CoreInv

\* ... and the callers.
LEMMA EnterIInv ==
  ASSUME IInv, NEW op \in Ops, NEW f \in Frame \cup {NoFrame}, NEW n \in BlockCounts \cup {0},
         Enter(op, f, n)
  PROVE  IInv'
  <1>1. BusyInv' /\ ClockInv'
    BY DEF IInv, BusyInv, ClockInv, FaultsOnlyWhenCut, Enter, ctxVars, hwVars, cardVars, IdentCmds,
       controller_state_foreign
  <1> QED
    BY <1>1, EnterCore DEF IInv, CoreInv

\* A step that changes nothing keeps the invariant.
LEMMA StutterIInv ==
  ASSUME IInv, UNCHANGED vars
  PROVE  IInv'
  BY DEF IInv, TypeOK, PhaseInv, CacheCoherent, BusyInv, ClockInv, FaultsOnlyWhenCut,
     controller_state_foreign, vars, ctxVars, hwVars, cardVars

\* Every step preserves the inductive invariant.
LEMMA NextIInv == IInv /\ [Next]_vars => IInv'
  <1> SUFFICES ASSUME IInv, [Next]_vars PROVE IInv'
    OBVIOUS
  <1>1. CASE Caller
    <2>1. /\ \A n \in BlockCounts : n \in BlockCounts \cup {0}
          /\ {"init", "dev_info", "read", "write"} = Ops
      BY DEF Ops
    <2> QED
      BY <1>1, <2>1, EnterIInv DEF Caller
  <1>2. CASE DriverStep
    BY <1>2, DriverStepIInv
  <1>3. CASE Environment
    BY <1>3, EnvironmentIInv
  <1>4. CASE UNCHANGED vars
    BY <1>4, StutterIInv
  <1> QED
    BY <1>1, <1>2, <1>3, <1>4 DEF Next, StaysHalted

-----------------------------------------------------------------------------
\* The inductive invariant holds in every reachable state.
THEOREM UsdhcInvariant == Spec => []IInv
  BY InitIInv, NextIInv, PTL DEF Spec

\* The cached state of the driver (usdhc_ctx) is coherent with the device as
\* long as the registers are the driver's own.
THEOREM CacheIsCoherent == Spec => []CacheCoherent
  <1>1. IInv => CacheCoherent
    BY DEF IInv
  <1> QED
    BY <1>1, UsdhcInvariant, PTL

\* RPMB frames only ever go to the RPMB partition, whatever failed before and
\* whatever other masters did between two calls.
THEOREM FramesStayOnRpmb == Spec => []FramesOnRpmbPartition
  <1>1. IInv => FramesOnRpmbPartition
    BY DEF IInv, PhaseInv, CacheCoherent, FramesOnRpmbPartition, XferPcs
  <1> QED
    BY <1>1, UsdhcInvariant, PTL

\* The check of the clocks at the beginning of a call is enough for clocks found off,
\* however long and by whatever they were gated: the core faults only if the module's
\* clocks go off under the very call, after the check.
THEOREM ClocksFoundOffAreHarmless == Spec => []FaultsOnlyWhenCut
  <1>1. IInv => FaultsOnlyWhenCut
    BY DEF IInv, ClockInv
  <1> QED
    BY <1>1, UsdhcInvariant, PTL

\* The invariant says of every command what it may find the device busy with.
LEMMA AwaitedByInvariant == IInv => ProgrammingAwaited
  <1> SUFFICES ASSUME IInv, cardBusy = "program", CommandDue
               PROVE  pc = "CMD0"
    BY DEF ProgrammingAwaited
  <1>1. CASE pc = "CMD6" /\ curPart # "rpmb"
    BY <1>1 DEF IInv, PhaseInv, BusyInv, XferPcs
  <1>2. CASE pc \in IdentCmds \cup {"CMD8", "CMD23", "xfer"}
    BY <1>2 DEF IInv, BusyInv
  <1> QED
    BY <1>1, <1>2 DEF CommandDue

\* A device that programs what an earlier call, or another master, sent it is issued no
\* command but the CMD0 that starts it afresh; CMD6, which is sent without waiting for the
\* device, included.
THEOREM ProgrammingIsAwaited == Spec => []ProgrammingAwaited
  BY AwaitedByInvariant, UsdhcInvariant, PTL
=============================================================================
