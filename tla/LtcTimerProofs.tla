--------------------------- MODULE LtcTimerProofs ---------------------------
(* The power-on timer of LtcPoe in automatic mode, with port resets, for     *)
(* every value of the constants.                                             *)
EXTENDS LtcPoeProofs

\* The part of TimerInv that is not the types.
TimerCore == AutoInv /\ HeldInv /\ DueInv /\ ChipInv /\ WorkInv /\ TimerOwned

USE DEF portVars, hwVars, lockVars, budgetVars, Goto, Lock, Unlock, GrantPcs,
        RefundPcs, PortPcs, GlblPcs, ChipPcs, WorkPcs, ResetPcs, Busy

LEMMA TimerInit == AutoOnly /\ Init => TimerInv
<1>. SUFFICES ASSUME AutoOnly, Init PROVE TimerInv OBVIOUS
<1>1. TypeOK BY TypeInit
<1>2. AutoInv /\ HeldInv
  <2>1. /\ pc = [t \in Threads |-> "idle"] /\ mode = "auto"
        /\ at = [t \in Threads |-> IF t \in Workers THEN t[2] ELSE 0]
    BY DEF Init
  <2>2. \A p \in Ports : at[Worker(p)] = p
    BY <2>1, ConstantFacts DEF Workers, Worker
  <2>. QED BY <2>1, <2>2, ConstantFacts DEF AutoInv, HeldInv
<1>3. /\ pc = [t \in Threads |-> "idle"]
      /\ timer = [p \in Ports |-> FALSE] /\ pending = [p \in Ports |-> FALSE]
      /\ cancelTimer = [p \in Ports |-> 0]
  BY DEF Init
<1>4. DueInv BY <1>3, ConstantFacts DEF DueInv, Due
<1>5. ChipInv /\ WorkInv /\ TimerOwned
  BY <1>3, ConstantFacts DEF ChipInv, WorkInv, TimerOwned
<1>. QED BY <1>1, <1>2, <1>4, <1>5 DEF TimerInv

\* Two timeouts of a port at most are due, and none while its work is idle.
LEMMA DueFacts ==
  ASSUME TypeOK, NEW p \in Ports
  PROVE  Due(p) \in 0 .. 2 /\ (~Busy(p) => Due(p) = 0)
BY DEF TypeOK, Due

\* del_timer_sync and cancel_timer++ leave no timeout that counts.
LEMMA Stopped ==
  ASSUME TypeOK, DueInv, NEW p \in Ports, NEW n \in Nat, n > 0, StopTimer(p, n)
  PROVE  /\ ~timer'[p]
         /\ Due(p) <= cancelTimer'[p] /\ cancelTimer'[p] \in Nat
         /\ \A q \in Ports \ {p} :
              timer'[q] = timer[q] /\ cancelTimer'[q] = cancelTimer[q]
<1>1. Due(p) \in 0 .. 2 /\ (~Busy(p) => Due(p) = 0) BY DueFacts
<1>2. Due(p) <= cancelTimer[p] + 1 BY DEF DueInv
<1>3. cancelTimer[p] \in Nat BY DEF TypeOK
<1>4. cancelTimer'[p] = IF Busy(p) THEN cancelTimer[p] + n ELSE cancelTimer[p]
  BY DEF StopTimer, TypeOK
<1>. QED BY <1>1, <1>2, <1>3, <1>4 DEF StopTimer, TypeOK

LEMMA TimerLoads ==
  ASSUME TimerInv, NEW t \in Threads, GrantLoad(t) \/ RefundLoad(t)
  PROVE  TimerCore'
<1>. USE ConstantFacts DEF TimerInv, AutoInv, TypeOK, GrantLoad, RefundLoad,
         BudgetLoad
<1>1. AutoInv' OBVIOUS
<1>2. HeldInv' BY DEF HeldInv
<1>3. DueInv' BY DEF DueInv, Due
<1>4. ChipInv' BY DEF ChipInv, Due
<1>5. WorkInv' BY DEF WorkInv
<1>6. TimerOwned' BY DEF TimerOwned, Resetting
<1>. QED BY <1>1, <1>2, <1>3, <1>4, <1>5, <1>6 DEF TimerCore

LEMMA TimerRefunds ==
  ASSUME TimerInv, NEW t \in Threads, RefundStore(t)
  PROVE  TimerCore'
<1>. USE ConstantFacts DEF TimerInv, AutoInv, TypeOK, RefundStore, GiveBack,
         ForgetRegisters
<1>1. AutoInv' OBVIOUS
<1>2. HeldInv' BY DEF HeldInv
<1>3. DueInv' BY DEF DueInv, Due
<1>4. ChipInv' BY DEF ChipInv, Due
<1>5. WorkInv' BY DEF WorkInv
<1>6. ~timer[at[t]] BY DEF ChipInv, WorkInv
<1>7. TimerOwned' BY <1>6 DEF TimerOwned, Resetting
<1>. QED BY <1>1, <1>2, <1>3, <1>4, <1>5, <1>7 DEF TimerCore

LEMMA TimerGrants ==
  ASSUME AutoOnly, TimerInv, ChipGranted
  PROVE  TimerCore'
<1>. USE ConstantFacts DEF TimerInv, AutoInv, TypeOK, ChipGranted, SwitchOn,
         Reserve, ForgetRegisters, EndIteration, NextPort, LTC_PORTS_COUNT
<1>0. TransferOK = {TRUE} BY DEF AutoOnly, TransferOK
<1>1. AutoInv' OBVIOUS
<1>2. HeldInv' BY DEF HeldInv
<1>3. portLock[at[Chip]] = Chip BY DEF HeldInv
<1>4. DueInv' BY <1>0 DEF DueInv, Due, ChipInv
<1>5. ChipInv' BY DEF ChipInv
<1>6. WorkInv' BY <1>3 DEF WorkInv, HeldInv
<1>7. TimerOwned' BY <1>0 DEF TimerOwned, ChipInv, Resetting
<1>. QED BY <1>1, <1>2, <1>4, <1>5, <1>6, <1>7 DEF TimerCore

LEMMA TimerLosses ==
  ASSUME TimerInv, MonitorLoss
  PROVE  TimerCore'
<1>. USE ConstantFacts
<1>. DEFINE p == at[Chip]
<1>0. TypeOK /\ p \in Ports BY DEF TimerInv, TypeOK
<1>1. PICK powered \in Powered(p) :
        /\ Current(p, powered) \cap Losses # {}
        /\ StopTimer(p, Cardinality(Current(p, powered) \cap Losses))
  BY DEF MonitorLoss
<1>2. /\ Cardinality(Current(p, powered) \cap Losses) \in Nat
      /\ Cardinality(Current(p, powered) \cap Losses) > 0
  BY <1>1, LossFacts
<1>3. /\ ~timer'[p]
      /\ Due(p) <= cancelTimer'[p] /\ cancelTimer'[p] \in Nat
      /\ \A q \in Ports \ {p} :
           timer'[q] = timer[q] /\ cancelTimer'[q] = cancelTimer[q]
  BY <1>0, <1>1, <1>2, Stopped DEF TimerInv
<1>. USE DEF MonitorLoss, AtPort, TimerInv, AutoInv, TypeOK
<1>4. AutoInv' OBVIOUS
<1>5. HeldInv' BY DEF HeldInv
<1>6. DueInv'
  <2>1. \A q \in Ports : Due(q)' = Due(q) /\ Due(q) \in 0 .. 2
    BY <1>0, DueFacts DEF Due
  <2>. QED BY <1>3, <2>1 DEF DueInv
<1>7. ChipInv' BY <1>3 DEF ChipInv, Due
<1>8. WorkInv' BY <1>3 DEF WorkInv
<1>9. TimerOwned' BY <1>3 DEF TimerOwned, Resetting
<1>. QED BY <1>4, <1>5, <1>6, <1>7, <1>8, <1>9 DEF TimerCore

LEMMA TimerGood ==
  ASSUME TimerInv, MonitorGood
  PROVE  TimerCore'
<1>. USE ConstantFacts
<1>. DEFINE p == at[Chip]
<1>0. TypeOK /\ p \in Ports BY DEF TimerInv, TypeOK
<1>1. CASE UNCHANGED <<timer, cancelTimer, lastEvent>>
  <2>. USE DEF MonitorGood, AtPort, EndIteration, NextPort, TimerInv, AutoInv,
               TypeOK, LTC_PORTS_COUNT
  <2>1. AutoInv' OBVIOUS
  <2>2. HeldInv' BY DEF HeldInv
  <2>3. DueInv' BY <1>1 DEF DueInv, Due
  <2>4. ChipInv' BY <1>1 DEF ChipInv
  <2>5. WorkInv' BY <1>1 DEF WorkInv
  <2>6. TimerOwned' BY <1>1 DEF TimerOwned, Resetting
  <2>. QED BY <2>1, <2>2, <2>3, <2>4, <2>5, <2>6 DEF TimerCore
<1>2. CASE StopTimer(p, 1) /\ lastEvent' = [lastEvent EXCEPT ![p] = "GOOD"]
  <2>1. /\ ~timer'[p]
        /\ Due(p) <= cancelTimer'[p] /\ cancelTimer'[p] \in Nat
        /\ \A q \in Ports \ {p} :
             timer'[q] = timer[q] /\ cancelTimer'[q] = cancelTimer[q]
    BY <1>0, <1>2, Stopped DEF TimerInv
  <2>. USE DEF MonitorGood, AtPort, EndIteration, NextPort, TimerInv, AutoInv,
               TypeOK, LTC_PORTS_COUNT
  <2>2. AutoInv' OBVIOUS
  <2>3. HeldInv' BY DEF HeldInv
  <2>4. DueInv'
    <3>1. \A q \in Ports : Due(q)' = Due(q) /\ Due(q) \in 0 .. 2
      BY <1>0, DueFacts DEF Due
    <3>. QED BY <1>2, <2>1, <3>1 DEF DueInv
  <2>5. ChipInv' BY DEF ChipInv
  <2>6. WorkInv' BY <2>1 DEF WorkInv
  <2>7. TimerOwned' BY <1>2, <2>1 DEF TimerOwned, Resetting
  <2>. QED BY <2>2, <2>3, <2>4, <2>5, <2>6, <2>7 DEF TimerCore
<1>. QED BY <1>1, <1>2 DEF MonitorGood

\* A step of the chip work that starts or ends no timeout and disarms nothing.
LEMMA TimerClassify ==
  ASSUME TimerInv, ClassifyNothing \/ ClassifyDevice \/ ClassifyUnclassed
  PROVE  TimerCore'
<1>. USE ConstantFacts DEF TimerInv, AutoInv, TypeOK, ClassifyNothing,
         ClassifyDevice, ClassifyUnclassed, AtPort, EndIteration, NextPort,
         LTC_PORTS_COUNT
<1>1. AutoInv' OBVIOUS
<1>2. HeldInv' BY DEF HeldInv
<1>3. DueInv' BY DEF DueInv, Due
<1>4. ChipInv' BY CurrentFacts DEF ChipInv
<1>5. WorkInv' BY DEF WorkInv
<1>6. TimerOwned' BY DEF TimerOwned, Resetting
<1>. QED BY <1>1, <1>2, <1>3, <1>4, <1>5, <1>6 DEF TimerCore

LEMMA TimerReleases ==
  ASSUME TimerInv, ChipRelease
  PROVE  TimerCore'
<1>. USE ConstantFacts DEF TimerInv, AutoInv, TypeOK, ChipRelease
<1>1. AutoInv' OBVIOUS
<1>2. HeldInv' BY DEF HeldInv
<1>3. DueInv' BY DEF DueInv, Due, ChipInv
<1>4. ChipInv' BY DEF ChipInv
<1>5. WorkInv' BY DEF WorkInv
<1>6. TimerOwned' BY DEF TimerOwned, ChipInv, Resetting
<1>. QED BY <1>1, <1>2, <1>3, <1>4, <1>5, <1>6 DEF TimerCore

\* The other steps of the chip work: polling, cancelling, and a refusal.
LEMMA TimerChip ==
  ASSUME TimerInv,
         \/ ChipStart \/ PollPort \/ PollFails \/ ChipRefused \/ ChipCancel
         \/ ChipWait
  PROVE  TimerCore'
<1>. USE ConstantFacts DEF TimerInv, AutoInv, TypeOK, ChipStart, PollPort,
         PollFails, ChipRefused, GrantRefused, ForgetRegisters, EndIteration,
         NextPort, ChipCancel, CancelWork, ChipWait, LTC_PORTS_COUNT
<1>1. AutoInv' OBVIOUS
<1>2. HeldInv' BY DEF HeldInv
<1>3. DueInv' BY DEF DueInv, Due
<1>4. ChipInv' BY DEF ChipInv
<1>5. WorkInv' BY DEF WorkInv
<1>6. TimerOwned' BY DEF TimerOwned, Resetting
<1>. QED BY <1>1, <1>2, <1>3, <1>4, <1>5, <1>6 DEF TimerCore

LEMMA TimerWork ==
  ASSUME TimerInv, NEW p \in Ports,
         \/ TimerFire(p) \/ WorkStart(p) \/ WorkTimesOut(p) \/ WorkRelease(p)
         \/ WorkCancelled(p) \/ WorkExit(p) \/ Environment(p)
  PROVE  TimerCore'
<1>. USE ConstantFacts DEF TimerInv, AutoInv, TypeOK
<1>1. CASE TimerFire(p)
  <2>. USE <1>1 DEF TimerFire
  <2>1. AutoInv' /\ HeldInv' BY DEF HeldInv
  <2>2. DueInv' BY DEF DueInv, Due, TimerOwned
  <2>3. ChipInv' BY DEF ChipInv, Due
  <2>4. WorkInv' BY DEF WorkInv
  <2>5. TimerOwned' BY DEF TimerOwned, Resetting
  <2>. QED BY <2>1, <2>2, <2>3, <2>4, <2>5 DEF TimerCore
<1>2. CASE WorkStart(p) \/ WorkTimesOut(p)
  <2>. USE <1>2 DEF WorkStart, WorkTimesOut, TimedOut
  <2>1. AutoInv' OBVIOUS
  <2>2. HeldInv' BY DEF HeldInv
  <2>3. DueInv' BY DEF DueInv, Due
  <2>4. ChipInv' BY DEF ChipInv, Due
  <2>5. WorkInv' BY DEF WorkInv, DueInv, Due
  <2>6. TimerOwned' BY DEF TimerOwned, Resetting
  <2>. QED BY <2>1, <2>2, <2>3, <2>4, <2>5, <2>6 DEF TimerCore
<1>3. CASE WorkRelease(p) \/ WorkExit(p)
  <2>. USE <1>3 DEF WorkRelease, WorkExit
  <2>1. AutoInv' OBVIOUS
  <2>2. HeldInv' BY DEF HeldInv
  <2>3. DueInv' BY DEF DueInv, Due, WorkInv
  <2>4. ChipInv' BY DEF ChipInv, Due
  <2>5. WorkInv' BY DEF WorkInv
  <2>6. TimerOwned' BY DEF TimerOwned, WorkInv, Resetting
  <2>. QED BY <2>1, <2>2, <2>3, <2>4, <2>5, <2>6 DEF TimerCore
<1>4. CASE WorkCancelled(p)
  <2>. USE <1>4 DEF WorkCancelled, TimedOut
  <2>1. AutoInv' OBVIOUS
  <2>2. HeldInv' BY DEF HeldInv
  <2>3. DueInv' BY DEF DueInv, Due
  <2>4. ChipInv' BY DEF ChipInv, Due, HeldInv
  <2>5. WorkInv' BY DEF WorkInv
  <2>6. TimerOwned' BY DEF TimerOwned, Resetting
  <2>. QED BY <2>1, <2>2, <2>3, <2>4, <2>5, <2>6 DEF TimerCore
<1>5. CASE Environment(p)
  <2>. USE <1>5 DEF Environment, HwDetects, HwPowerGood, HwStartFails,
                    HwDisconnects, HwOvercurrent, Hardware
  <2>1. AutoInv' /\ HeldInv' BY DEF HeldInv
  <2>2. DueInv' BY DEF DueInv, Due
  <2>3. ChipInv' BY DEF ChipInv, Due
  <2>4. WorkInv' BY DEF WorkInv
  <2>5. TimerOwned' BY DEF TimerOwned, Resetting
  <2>. QED BY <2>1, <2>2, <2>3, <2>4, <2>5 DEF TimerCore
<1>. QED BY <1>1, <1>2, <1>3, <1>4, <1>5

\* In automatic mode the only store that gets to a port is store_port_reset.
LEMMA OnlyResets ==
  ASSUME AutoOnly, TimerInv, NEW t \in UserThreads, Writer(t)
  PROVE  EnterStore(t) \/ StoreRejected(t) \/ StoreReset(t)
<1>. USE DEF AutoOnly, TimerInv, AutoInv
<1>1. ~SetMode(t) /\ ~SetTotal(t) BY DEF SetMode, SetTotal
<1>2. ~PowerOn(t) /\ ~GrantLoad(t) /\ ~PowerOnGranted(t) /\ ~PowerOnRefused(t)
  BY DEF PowerOn, GrantLoad, BudgetLoad, PowerOnGranted, SwitchOn,
         PowerOnRefused, GrantRefused
<1>3. ~PowerOff(t) /\ ~RefundLoad(t) /\ ~RefundStore(t) /\ ~PowerOffDone(t)
  BY DEF PowerOff, RefundLoad, BudgetLoad, RefundStore, PowerOffDone
<1>4. ~StoreChipReset(t)
  BY DEF StoreChipReset, ChipResetPort, ChipResetCancel, ChipResetWait,
         ChipReset, ChipRefill, ConfigurePort, ConfigurePowered, ConfigureLoad,
         ConfigureFails, ConfigureStore, ConfigureTaken, CancelWork, BudgetLoad
<1>. QED BY <1>1, <1>2, <1>3, <1>4 DEF Writer, StoreWork, StorePower

\* The steps of store_port_reset but the one that disarms.
LEMMA TimerStore ==
  ASSUME AutoOnly, TimerInv, NEW t \in UserThreads,
         \/ EnterStore(t) \/ StoreRejected(t) \/ ResetLoad(t) \/ ResetStore(t)
         \/ ResetCancel(t) \/ ResetWait(t)
  PROVE  TimerCore'
<1>. USE ConstantFacts DEF TimerInv, AutoInv, TypeOK
<1>1. CASE EnterStore(t) \/ StoreRejected(t)
  <2>. USE <1>1 DEF EnterStore, StoreRejected, Done
  <2>1. AutoInv' BY DEF AutoOnly
  <2>2. HeldInv' BY DEF AutoOnly, HeldInv
  <2>3. DueInv' BY DEF DueInv, Due
  <2>4. ChipInv' BY DEF ChipInv, Due
  <2>5. WorkInv' BY DEF WorkInv
  <2>6. TimerOwned' BY DEF TimerOwned, Resetting
  <2>. QED BY <2>1, <2>2, <2>3, <2>4, <2>5, <2>6 DEF TimerCore
<1>2. CASE ResetLoad(t) \/ ResetStore(t)
  <2>. USE <1>2 DEF ResetLoad, ResetStore, GiveBack, ForgetRegisters
  <2>1. AutoInv' OBVIOUS
  <2>2. HeldInv' BY DEF HeldInv
  <2>3. DueInv' BY DEF DueInv, Due
  <2>4. ChipInv' BY DEF ChipInv, Due, HeldInv
  <2>5. WorkInv' BY DEF WorkInv
  <2>6. TimerOwned' BY DEF TimerOwned, Resetting
  <2>. QED BY <2>1, <2>2, <2>3, <2>4, <2>5, <2>6 DEF TimerCore
<1>3. CASE ResetCancel(t) \/ ResetWait(t)
  <2>. USE <1>3 DEF ResetCancel, CancelWork, ResetWait, Done
  <2>1. AutoInv' OBVIOUS
  <2>2. HeldInv' BY DEF HeldInv
  <2>3. DueInv' BY DEF DueInv, Due
  <2>4. ChipInv' BY DEF ChipInv, Due
  <2>5. WorkInv' BY DEF WorkInv
  <2>6. TimerOwned' BY DEF TimerOwned, Resetting
  <2>. QED BY <2>1, <2>2, <2>3, <2>4, <2>5, <2>6 DEF TimerCore
<1>. QED BY <1>1, <1>2, <1>3

\* store_port_reset takes the port back with its timer stopped.
LEMMA TimerResets ==
  ASSUME TimerInv, NEW t \in UserThreads, ResetOff(t)
  PROVE  TimerCore'
<1>. USE ConstantFacts
<1>. DEFINE p == at[t]
<1>0. TypeOK /\ p \in Ports BY DEF TimerInv, TypeOK
<1>1. /\ ~timer'[p]
      /\ Due(p) <= cancelTimer'[p] /\ cancelTimer'[p] \in Nat
      /\ \A q \in Ports \ {p} :
           timer'[q] = timer[q] /\ cancelTimer'[q] = cancelTimer[q]
  BY <1>0, Stopped DEF TimerInv, ResetOff
<1>. USE DEF TimerInv, AutoInv, TypeOK, ResetOff, UnlockForWait, Done
<1>2. portLock[p] = t BY DEF HeldInv
<1>3. AutoInv' OBVIOUS
<1>4. HeldInv' BY DEF HeldInv
<1>5. DueInv'
  <2>1. \A q \in Ports : Due(q)' = Due(q) /\ Due(q) \in 0 .. 2
    BY <1>0, DueFacts DEF Due
  <2>. QED BY <1>1, <2>1 DEF DueInv
<1>6. ChipInv' BY <1>1, <1>2 DEF ChipInv, Due, HeldInv
<1>7. WorkInv' BY <1>1 DEF WorkInv
<1>8. TimerOwned' BY <1>1 DEF TimerOwned, Resetting
<1>. QED BY <1>3, <1>4, <1>5, <1>6, <1>7, <1>8 DEF TimerCore

LEMMA TimerStep == AutoOnly /\ TimerInv /\ [Next]_vars => TimerInv'
<1>. SUFFICES ASSUME AutoOnly, TimerInv, [Next]_vars PROVE TimerInv'
  OBVIOUS
<1>0. TypeOK' BY TypeStep DEF TimerInv
<1>1. ASSUME ChipWork PROVE TimerCore'
  BY <1>1, ConstantFacts, TimerLoads, TimerRefunds, TimerGrants, TimerLosses,
     TimerGood, TimerClassify, TimerReleases, TimerChip DEF ChipWork
<1>2. ASSUME NEW p \in Ports, TimerFire(p) \/ PortWork(p) \/ Environment(p)
      PROVE  TimerCore'
  BY <1>2, ConstantFacts, TimerLoads, TimerRefunds, TimerWork DEF PortWork
<1>3. ASSUME NEW t \in UserThreads, Writer(t) PROVE TimerCore'
  BY <1>3, OnlyResets, TimerStore, TimerResets DEF StoreReset
<1>4. ASSUME UNCHANGED vars PROVE TimerCore'
  BY <1>4 DEF TimerInv, TimerCore, AutoInv, HeldInv, DueInv, Due, ChipInv,
              WorkInv, TimerOwned, Resetting, vars
<1>5. TimerCore' BY <1>1, <1>2, <1>3, <1>4 DEF Next
<1>. QED BY <1>0, <1>5 DEF TimerInv, TimerCore

\* In automatic mode a power-on timer never outlives its power-on
\* (ltc4266_detect_classify_cycle arms it; ltc4266_port_monitor and
\* store_port_reset disarm it).
THEOREM TimerIsOfThisPowerOn == AutoOnly /\ Spec => []TimerOfThisPowerOn
<1>. SUFFICES ASSUME AutoOnly PROVE Spec => []TimerOfThisPowerOn OBVIOUS
<1>1. Init => TimerInv BY TimerInit
<1>2. TimerInv /\ [Next]_vars => TimerInv' BY TimerStep
<1>3. TimerInv => TimerOfThisPowerOn
  BY ConstantFacts
     DEF TimerInv, TimerOwned, Resetting, HeldInv, TimerOfThisPowerOn
<1>. QED BY <1>1, <1>2, <1>3, PTL DEF Spec

\* Only port_pwr_on_work_fn itself decides that a port has timed out.
LEMMA TimedOutBy ==
  ASSUME AutoOnly, TimerInv, Next, NEW p \in Ports,
         pc[Worker(p)] = "run", pc'[Worker(p)] = "refund"
  PROVE  WorkTimesOut(p)
<1>. USE ConstantFacts DEF TimerInv, TypeOK
<1>1. ~ChipWork
  BY DEF ChipWork, ChipStart, PollPort, PollFails, ClassifyNothing,
         ClassifyDevice, ClassifyUnclassed, GrantLoad, BudgetLoad, ChipGranted,
         SwitchOn, ChipRefused, GrantRefused, MonitorLoss, RefundLoad,
         RefundStore, ChipRelease, MonitorGood, ChipCancel, CancelWork, ChipWait,
         EndIteration, NextPort
<1>2. ASSUME NEW q \in Ports, TimerFire(q) \/ Environment(q) PROVE FALSE
  BY <1>2 DEF TimerFire, Environment, HwDetects, HwPowerGood, HwStartFails,
              HwDisconnects, HwOvercurrent, Hardware
<1>3. ASSUME NEW q \in Ports, PortWork(q) PROVE WorkTimesOut(p)
  <2>1. ~WorkStart(q) /\ ~WorkRelease(q)
    BY SMTT(30) DEF WorkStart, WorkRelease, AutoInv
  <2>2. ~RefundLoad(Worker(q)) /\ ~RefundStore(Worker(q))
    BY SMTT(30) DEF RefundLoad, BudgetLoad, RefundStore, AutoInv
  <2>3. ~WorkCancelled(q) /\ ~WorkExit(q)
    BY SMTT(30) DEF WorkCancelled, WorkExit, AutoInv
  <2>4. WorkTimesOut(q)
    BY <1>3, <2>1, <2>2, <2>3, Zenon DEF PortWork
  <2>5. q = p
    BY <2>4, SMTT(30) DEF WorkTimesOut, AutoInv
  <2>. QED BY <2>4, <2>5
<1>4. ASSUME NEW t \in UserThreads, Writer(t) PROVE FALSE
  BY <1>4, OnlyResets
     DEF EnterStore, StoreRejected, StoreReset, ResetLoad, ResetStore, ResetOff,
         ResetCancel, ResetWait, CancelWork, Done
<1>. QED BY <1>1, <1>2, <1>3, <1>4 DEF Next

\* In automatic mode the timeout never switches off a port whose power was
\* reported good, in whatever order the timer, its work, the chip work and port
\* resets run (cancel_timer in ltc4266_port_monitor, store_port_reset and
\* port_pwr_on_work_fn).
THEOREM GoodPortsStayOn == AutoOnly /\ Spec => GoodNotTimedOut
<1>. SUFFICES ASSUME AutoOnly PROVE Spec => GoodNotTimedOut OBVIOUS
<1>1. Init => TimerInv BY TimerInit
<1>2. TimerInv /\ [Next]_vars => TimerInv' BY TimerStep
<1>3. TimerInv /\ [Next]_vars =>
        [\A p \in Ports :
           pc[Worker(p)] = "run" /\ pc'[Worker(p)] = "refund"
             => lastEvent[p] # "GOOD"]_vars
  <2>. SUFFICES ASSUME TimerInv, Next, NEW p \in Ports,
                       pc[Worker(p)] = "run", pc'[Worker(p)] = "refund"
                PROVE  lastEvent[p] # "GOOD"
    OBVIOUS
  <2>1. WorkTimesOut(p) BY TimedOutBy
  <2>2. pc[Worker(p)] = "run" => Due(p) > 0 BY DEF Due
  <2>. QED BY <2>1, <2>2, DueFacts
           DEF WorkTimesOut, TimedOut, TimerInv, DueInv, TypeOK
<1>. QED BY <1>1, <1>2, <1>3, PTL DEF Spec, GoodNotTimedOut
=============================================================================
