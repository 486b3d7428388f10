---------------------------- MODULE LtcPoeProofs ----------------------------
(* What holds of LtcPoe for every value of its constants.                   *)
EXTENDS LtcPoeInv, FiniteSetTheorems, TLAPS

-----------------------------------------------------------------------------
(* Facts about the helpers.                                                 *)

LEMMA ConstantFacts ==
  /\ Ports = {0, 1} /\ 0 \in Ports /\ 1 \in Ports
  /\ Chip \in Threads
  /\ \A p \in Ports : Worker(p) \in Threads /\ Worker(p) # Chip
  /\ \A t \in UserThreads : t \in Threads /\ t # Chip
  /\ \A t \in UserThreads, p \in Ports : t # Worker(p)
  /\ \A p, q \in Ports : p # q => Worker(p) # Worker(q)
  /\ None \notin Threads
  /\ \A t \in Threads :
       t = Chip \/ t \in UserThreads \/ \E p \in Ports : t = Worker(p)
BY DEF Ports, LTC_PORTS_COUNT, Threads, Workers, UserThreads, Chip, Worker,
       User, None

LEMMA TransferFacts == TransferOK \subseteq BOOLEAN
BY DEF TransferOK

\* The arithmetic of an s32.
LEMMA S32Facts ==
  /\ S32Values \subseteq Int /\ Currents \subseteq Nat
  /\ Currents \subseteq S32Values /\ 0 \in Currents
  /\ \A a \in S32Values, c \in Currents : a >= c => a - c \in S32Values
  /\ \A a \in S32Values, c, d \in Currents :
       a + c + d \in S32_MIN .. 3 * S32_MAX
BY LtcAssumption DEF S32Values, S32_MIN, Currents

LEMMA WrapFacts ==
  ASSUME NEW a \in S32Values, NEW c \in Currents
  PROVE  /\ Wrapped(a + c) \in S32Values
         /\ a + c \in S32Values => Wrapped(a + c) = a + c
         /\ \/ Wrapped(a + c) = a + c
            \/ a + c > S32_MAX /\ Wrapped(a + c) = a + c - U32_MAX - 1
BY LtcAssumption DEF S32Values, S32_MIN, Currents, Wrapped, U32_MAX

LEMMA ConversionFacts ==
  ASSUME NEW val \in Nat
  PROVE  S32(val) \in S32Values
<1>. DEFINE n == U32_MAX + 1
<1>1. n \in Nat \ {0} BY LtcAssumption DEF U32_MAX
<1>2. val % n \in 0 .. n - 1
  <2>. HIDE DEF n
  <2>. QED BY <1>1
<1>3. n = 2 * S32_MAX + 2 BY LtcAssumption DEF U32_MAX
<1>. QED
  BY <1>2, <1>3, LtcAssumption DEF S32, S32Values, S32_MIN, U32_MAX

LEMMA CurrentFacts ==
  ASSUME NEW s
  PROVE  iCUT(s) \in Currents /\ (s \in Classes => iCUT(s) > 0)
<1>1. ClassmA \in [Classes -> Currents \ {0}] BY LtcAssumption
<1>2. CASE s \in Classes
  <2>1. ClassmA[s] \in Currents \ {0} BY <1>1, <1>2
  <2>2. Currents \subseteq Nat BY S32Facts
  <2>3. ClassmA[s] \in Nat \ {0} BY <2>1, <2>2
  <2>. QED BY <1>2, <2>1, <2>3 DEF iCUT
<1>3. CASE s \notin Classes BY <1>3, S32Facts DEF iCUT
<1>. QED BY <1>2, <1>3

\* ltc4266_port_monitor counts at most one expiry for each kind of loss.
LEMMA LossFacts ==
  ASSUME NEW S
  PROVE  /\ Cardinality(S \cap Losses) \in Nat
         /\ S \cap Losses # {} => Cardinality(S \cap Losses) > 0
<1>1. IsFiniteSet({"DET"}) BY FS_Singleton
<1>2. IsFiniteSet({"DET"} \cup {"TCUT"}) BY <1>1, FS_AddElement
<1>3. IsFiniteSet(({"DET"} \cup {"TCUT"}) \cup {"DIS"}) BY <1>2, FS_AddElement
<1>4. Losses = ({"DET"} \cup {"TCUT"}) \cup {"DIS"} BY DEF Losses
<1>5. IsFiniteSet(Losses) BY <1>3, <1>4
<1>6. S \cap Losses \in SUBSET Losses OBVIOUS
<1>7. IsFiniteSet(S \cap Losses) BY <1>5, <1>6, FS_Subset
<1>8. /\ Cardinality(S \cap Losses) \in Nat
      /\ Cardinality(S \cap Losses) = 0 <=> S \cap Losses = {}
  BY <1>7, FS_CardinalityType, FS_EmptySet
<1>. QED BY <1>8

-----------------------------------------------------------------------------
(* Types.                                                                   *)

USE DEF portVars, hwVars, lockVars, budgetVars, Goto, Lock, Unlock

LEMMA TypeInit == Init => TypeOK
<1>. SUFFICES ASSUME Init PROVE TypeOK OBVIOUS
<1>1. PICK on \in [Ports -> (Statp \cap Classes) \cup {"open"}] : Init!(on)
  BY DEF Init
<1>2. \A p \in Ports : iCUT(on[p]) \in Currents
  BY CurrentFacts
<1>3. /\ total_mA_avail \in S32Values
      /\ limit \in S32_MIN .. 3 * S32_MAX
  <2>1. on[0] = "open" => iCUT(on[0]) = 0 BY LtcAssumption DEF iCUT
  <2>2. on[1] = "open" => iCUT(on[1]) = 0 BY LtcAssumption DEF iCUT
  <2>3. iCUT(on[0]) \in Currents /\ iCUT(on[1]) \in Currents
    BY <1>2, ConstantFacts
  <2>4. /\ total_mA_avail = mA_avail - iCUT(on[0]) - iCUT(on[1])
        /\ \/ on[0] = "open" /\ on[1] = "open"
           \/ iCUT(on[0]) + iCUT(on[1]) <= mA_avail
        /\ limit = mA_avail
    BY <1>1, ConstantFacts
  <2>. QED
    BY <2>1, <2>2, <2>3, <2>4, LtcAssumption
       DEF S32Values, S32_MIN, Currents
<1>4. device_mA \in [Ports -> Currents] /\ drawn \in [Ports -> Currents]
  BY <1>1, <1>2
<1>5. at \in [Threads -> Ports]
  BY <1>1, ConstantFacts DEF Workers, Worker
<1>6. pc \in [Threads -> ChipPcs \cup WorkPcs \cup UserPcs]
  BY <1>1 DEF ChipPcs
<1>. QED
  BY <1>1, <1>3, <1>4, <1>5, <1>6, S32Facts DEF TypeOK, Events, LastEvents

LEMMA TypeBudget ==
  ASSUME TypeOK, NEW t \in Threads
  PROVE  /\ GrantLoad(t) => TypeOK'
         /\ RefundLoad(t) => TypeOK'
         /\ RefundStore(t) => TypeOK'
<1>1. GrantLoad(t) => TypeOK'
  BY DEF TypeOK, GrantLoad, BudgetLoad, ChipPcs
<1>2. RefundLoad(t) => TypeOK'
  BY DEF TypeOK, RefundLoad, BudgetLoad, ChipPcs
<1>3. ASSUME RefundStore(t) PROVE TypeOK'
  <2>1. total_mA_avail' \in S32Values
    BY <1>3, WrapFacts DEF TypeOK, RefundStore, GiveBack
  <2>. QED
    BY <1>3, <2>1, S32Facts
       DEF TypeOK, RefundStore, GiveBack, ForgetRegisters, ChipPcs
<1>. QED BY <1>1, <1>2, <1>3

\* A reservation that fits leaves an s32.
LEMMA TypeReserve ==
  ASSUME TypeOK, NEW t \in Threads, Reserve(t), Fits(t), ForgetRegisters(t)
  PROVE  /\ total_mA_avail' \in S32Values
         /\ device_mA' \in [Ports -> Currents]
         /\ reg' \in [Threads -> S32Values]
         /\ want' \in [Threads -> Currents]
BY S32Facts DEF TypeOK, Reserve, Fits, ForgetRegisters

LEMMA TypeGrant ==
  ASSUME TypeOK, NEW t \in Threads
  PROVE  /\ ChipGranted => TypeOK'
         /\ ChipRefused => TypeOK'
         /\ PowerOnGranted(t) => TypeOK'
         /\ PowerOnRefused(t) => TypeOK'
<1>1. ASSUME ChipGranted PROVE TypeOK'
  <2>1. /\ total_mA_avail' \in S32Values
        /\ device_mA' \in [Ports -> Currents]
        /\ reg' \in [Threads -> S32Values]
        /\ want' \in [Threads -> Currents]
    BY <1>1, ConstantFacts, TypeReserve DEF ChipGranted, SwitchOn
  <2>. QED
    BY <1>1, <2>1, ConstantFacts, TransferFacts
       DEF TypeOK, ChipGranted, SwitchOn, EndIteration, NextPort, ChipPcs,
           LastEvents, LTC_PORTS_COUNT
<1>2. ChipRefused => TypeOK'
  BY ConstantFacts, S32Facts
     DEF TypeOK, ChipRefused, GrantRefused, ForgetRegisters,
         EndIteration, NextPort, ChipPcs, LTC_PORTS_COUNT
<1>3. ASSUME PowerOnGranted(t) PROVE TypeOK'
  <2>1. /\ total_mA_avail' \in S32Values
        /\ device_mA' \in [Ports -> Currents]
        /\ reg' \in [Threads -> S32Values]
        /\ want' \in [Threads -> Currents]
    BY <1>3, TypeReserve DEF PowerOnGranted, SwitchOn
  <2>2. /\ pc' \in [Threads -> ChipPcs \cup WorkPcs \cup UserPcs]
        /\ at' \in [Threads -> Ports]
    BY <1>3, ConstantFacts DEF TypeOK, PowerOnGranted, Done, ChipPcs
  <2>3. /\ hw' \in [Ports -> {"off", "start", "good"}]
        /\ drawn' \in [Ports -> Currents]
        /\ portState' \in [Ports -> {"CLASSIFY", "MONITOR"}]
    BY <1>3, TransferFacts DEF TypeOK, PowerOnGranted, SwitchOn
  <2>. QED
    BY <1>3, <2>1, <2>2, <2>3
       DEF TypeOK, PowerOnGranted, SwitchOn, LastEvents
<1>4. PowerOnRefused(t) => TypeOK'
  BY ConstantFacts, S32Facts
     DEF TypeOK, PowerOnRefused, GrantRefused, ForgetRegisters, Done, ChipPcs
<1>. QED BY <1>1, <1>2, <1>3, <1>4

LEMMA TypeChip ==
  ASSUME TypeOK, ChipWork
  PROVE  TypeOK'
<1>1. CASE ChipStart BY <1>1 DEF TypeOK, ChipStart, ChipPcs
<1>2. CASE PollPort
  BY <1>2, ConstantFacts DEF TypeOK, PollPort, ChipPcs, LTC_PORTS_COUNT
<1>3. CASE PollFails
  <2>1. portEvent' \in [Ports -> SUBSET Events]
    BY <1>3 DEF TypeOK, PollFails
  <2>2. hwEvent' \in [Ports -> SUBSET Events]
    BY <1>3 DEF TypeOK, PollFails
  <2>. QED BY <1>3, <2>1, <2>2 DEF TypeOK, PollFails, ChipPcs
<1>4. CASE ClassifyNothing
  BY <1>4, ConstantFacts
     DEF TypeOK, ClassifyNothing, AtPort, EndIteration, NextPort, ChipPcs,
         LastEvents, LTC_PORTS_COUNT
<1>5. CASE ClassifyDevice
  BY <1>5, ConstantFacts, CurrentFacts
     DEF TypeOK, ClassifyDevice, AtPort, EndIteration, NextPort, ChipPcs,
         LastEvents, LTC_PORTS_COUNT, Events
<1>6. CASE ClassifyUnclassed
  BY <1>6, ConstantFacts, TransferFacts, S32Facts
     DEF TypeOK, ClassifyUnclassed, AtPort, EndIteration, NextPort, ChipPcs,
         LastEvents, LTC_PORTS_COUNT, Events
<1>7. CASE GrantLoad(Chip) BY <1>7, ConstantFacts, TypeBudget
<1>8. CASE ChipGranted BY <1>8, ConstantFacts, TypeGrant
<1>9. CASE ChipRefused BY <1>9, ConstantFacts, TypeGrant
<1>10. CASE MonitorLoss
  BY <1>10, ConstantFacts, LossFacts
     DEF TypeOK, MonitorLoss, AtPort, Current, StopTimer, ChipPcs
<1>11. CASE RefundLoad(Chip) BY <1>11, ConstantFacts, TypeBudget
<1>12. CASE RefundStore(Chip) BY <1>12, ConstantFacts, TypeBudget
<1>13. CASE ChipRelease
  BY <1>13, ConstantFacts, TransferFacts, S32Facts
     DEF TypeOK, ChipRelease, SwitchOff, ChipPcs, LastEvents, Events
<1>14. CASE MonitorGood
  <2>1. /\ timer' \in [Ports -> BOOLEAN]
        /\ cancelTimer' \in [Ports -> Nat]
    <3>1. CASE StopTimer(at[Chip], 1)
      BY <3>1, ConstantFacts DEF TypeOK, StopTimer
    <3>2. CASE UNCHANGED <<timer, cancelTimer>> BY <3>2 DEF TypeOK
    <3>. QED BY <1>14, <3>1, <3>2 DEF MonitorGood
  <2>4. /\ lastEvent' \in [Ports -> LastEvents]
        /\ rcSet' \in BOOLEAN
    BY <1>14 DEF TypeOK, MonitorGood, LastEvents, Events
  <2>2. portEvent' \in [Ports -> SUBSET Events]
    BY <1>14 DEF TypeOK, MonitorGood
  <2>3. /\ pc' \in [Threads -> ChipPcs \cup WorkPcs \cup UserPcs]
        /\ at' \in [Threads -> Ports]
    BY <1>14, ConstantFacts
       DEF TypeOK, MonitorGood, EndIteration, NextPort, ChipPcs,
           LTC_PORTS_COUNT
  <2>. QED BY <1>14, <2>1, <2>2, <2>3, <2>4 DEF TypeOK, MonitorGood
<1>15. CASE ChipCancel BY <1>15 DEF TypeOK, ChipCancel, CancelWork, ChipPcs
<1>16. CASE ChipWait
  BY <1>16, ConstantFacts
     DEF TypeOK, ChipWait, NextPort, ChipPcs, LTC_PORTS_COUNT
<1>. QED
  BY <1>1, <1>2, <1>3, <1>4, <1>5, <1>6, <1>7, <1>8, <1>9, <1>10, <1>11,
     <1>12, <1>13, <1>14, <1>15, <1>16 DEF ChipWork

LEMMA TypeWork ==
  ASSUME TypeOK, NEW p \in Ports
  PROVE  /\ TimerFire(p) => TypeOK'
         /\ PortWork(p) => TypeOK'
         /\ Environment(p) => TypeOK'
<1>1. TimerFire(p) => TypeOK' BY DEF TypeOK, TimerFire
<1>2. WorkStart(p) => TypeOK' BY DEF TypeOK, WorkStart, WorkPcs
<1>3. WorkTimesOut(p) => TypeOK'
  BY ConstantFacts DEF TypeOK, WorkTimesOut, WorkPcs
<1>4. RefundLoad(Worker(p)) => TypeOK' BY ConstantFacts, TypeBudget
<1>5. RefundStore(Worker(p)) => TypeOK' BY ConstantFacts, TypeBudget
<1>6. ASSUME WorkRelease(p) PROVE TypeOK'
  <2>1. /\ hw' \in [Ports -> {"off", "start", "good"}]
        /\ drawn' \in [Ports -> Currents]
        /\ hwEvent' \in [Ports -> SUBSET Events]
    BY <1>6, TransferFacts, S32Facts
       DEF TypeOK, WorkRelease, SwitchOff, Events
  <2>. QED BY <1>6, <2>1 DEF TypeOK, WorkRelease, WorkPcs
<1>7. ASSUME WorkCancelled(p) PROVE TypeOK'
  <2>1. (IF cancelTimer[p] = 0 THEN 0 ELSE cancelTimer[p] - 1) \in Nat
    BY DEF TypeOK
  <2>2. cancelTimer' \in [Ports -> Nat]
    BY <1>7, <2>1 DEF TypeOK, WorkCancelled
  <2>. QED BY <1>7, <2>2 DEF TypeOK, WorkCancelled, WorkPcs
<1>8. WorkExit(p) => TypeOK' BY DEF TypeOK, WorkExit, WorkPcs
<1>9. Environment(p) => TypeOK'
  <2>1. 0 \in Currents BY S32Facts
  <2>. QED
    BY <2>1 DEF TypeOK, Environment, HwDetects, HwPowerGood, HwStartFails,
                HwDisconnects, HwOvercurrent, Hardware, Events
<1>. QED
  BY <1>1, <1>2, <1>3, <1>4, <1>5, <1>6, <1>7, <1>8, <1>9 DEF PortWork

LEMMA TypeStore ==
  ASSUME TypeOK, NEW t \in UserThreads, SetMode(t) \/ SetTotal(t) \/
         EnterStore(t) \/ StorePower(t)
  PROVE  TypeOK'
<1>. t \in Threads BY ConstantFacts
<1>1. CASE SetMode(t) BY <1>1 DEF TypeOK, SetMode
<1>2. CASE SetTotal(t)
  <2>1. PICK val \in Totals :
          /\ total_mA_avail' = S32(val)
          /\ limit' = S32(val) + device_mA[0] + device_mA[1]
    BY <1>2 DEF SetTotal
  <2>2. S32(val) \in S32Values BY LtcAssumption, ConversionFacts
  <2>3. limit' \in S32_MIN .. 3 * S32_MAX
    BY <2>1, <2>2, ConstantFacts, S32Facts DEF TypeOK
  <2>. QED BY <1>2, <2>1, <2>2, <2>3 DEF TypeOK, SetTotal
<1>3. CASE EnterStore(t) BY <1>3 DEF TypeOK, EnterStore, UserPcs
<1>4. CASE PowerOn(t)
  BY <1>4, CurrentFacts DEF TypeOK, PowerOn, UserPcs
<1>5. CASE GrantLoad(t) BY <1>5, TypeBudget
<1>6. CASE PowerOnGranted(t) BY <1>6, TypeGrant
<1>7. CASE PowerOnRefused(t) BY <1>7, TypeGrant
<1>8. CASE PowerOff(t)
  BY <1>8, TransferFacts, S32Facts DEF TypeOK, PowerOff, SwitchOff, UserPcs, Events
<1>9. CASE RefundLoad(t) BY <1>9, TypeBudget
<1>10. CASE RefundStore(t) BY <1>10, TypeBudget
<1>11. CASE PowerOffDone(t)
  BY <1>11, ConstantFacts DEF TypeOK, PowerOffDone, Done, UserPcs, LastEvents
<1>12. CASE StoreRejected(t)
  BY <1>12, ConstantFacts DEF TypeOK, StoreRejected, Done, UserPcs
<1>. QED
  BY <1>1, <1>2, <1>3, <1>4, <1>5, <1>6, <1>7, <1>8, <1>9, <1>10, <1>11,
     <1>12 DEF StorePower

LEMMA TypeResets ==
  ASSUME TypeOK, NEW t \in UserThreads, StoreReset(t) \/ StoreChipReset(t)
  PROVE  TypeOK'
<1>. t \in Threads BY ConstantFacts
<1>1. CASE ResetLoad(t) BY <1>1 DEF TypeOK, ResetLoad, UserPcs
<1>2. CASE ResetStore(t)
  <2>1. total_mA_avail' \in S32Values
    BY <1>2, WrapFacts DEF TypeOK, ResetStore, GiveBack
  <2>. QED
    BY <1>2, <2>1, S32Facts
       DEF TypeOK, ResetStore, GiveBack, ForgetRegisters, UserPcs
<1>3. CASE ResetOff(t)
  BY <1>3, ConstantFacts, TransferFacts, S32Facts
     DEF TypeOK, ResetOff, SwitchOff, StopTimer, UnlockForWait, Done, UserPcs,
         Events, LastEvents
<1>4. CASE ResetCancel(t) BY <1>4 DEF TypeOK, ResetCancel, CancelWork, UserPcs
<1>5. CASE ResetWait(t)
  BY <1>5, ConstantFacts DEF TypeOK, ResetWait, Done, UserPcs
<1>6. CASE ChipResetPort(t)
  BY <1>6, ConstantFacts
     DEF TypeOK, ChipResetPort, StopTimer, NextResetPort, UserPcs, Events,
         LastEvents, LTC_PORTS_COUNT
<1>7. CASE ChipResetCancel(t)
  BY <1>7 DEF TypeOK, ChipResetCancel, CancelWork, UserPcs
<1>8. CASE ChipResetWait(t)
  BY <1>8, ConstantFacts
     DEF TypeOK, ChipResetWait, NextResetPort, UserPcs, LTC_PORTS_COUNT
<1>9. CASE ChipReset(t)
  BY <1>9, TransferFacts, S32Facts DEF TypeOK, ChipReset, UserPcs
<1>10. CASE ChipRefill(t)
  <2>1. limit' \in S32_MIN .. 3 * S32_MAX
    BY <1>10, LtcAssumption, ConstantFacts, S32Facts DEF TypeOK, ChipRefill
  <2>. QED BY <1>10, <2>1, LtcAssumption DEF TypeOK, ChipRefill, UserPcs
<1>11. CASE ConfigurePort(t)
  BY <1>11, ConstantFacts
     DEF TypeOK, ConfigurePort, NextResetPort, UserPcs, LastEvents, Events,
         LTC_PORTS_COUNT
<1>12. CASE ConfigurePowered(t)
  BY <1>12, CurrentFacts DEF TypeOK, ConfigurePowered, UserPcs
<1>13. CASE ConfigureLoad(t)
  BY <1>13 DEF TypeOK, ConfigureLoad, BudgetLoad, UserPcs
<1>14. CASE ConfigureStore(t)
  <2>1. CASE Fits(t)
    <3>1. /\ total_mA_avail' \in S32Values
          /\ device_mA' \in [Ports -> Currents]
          /\ reg' \in [Threads -> S32Values]
          /\ want' \in [Threads -> Currents]
      BY <1>14, <2>1, TypeReserve DEF ConfigureStore
    <3>. QED
      BY <1>14, <2>1, <3>1 DEF TypeOK, ConfigureStore, UserPcs
  <2>2. CASE ~Fits(t)
    BY <1>14, <2>2, ConstantFacts, S32Facts
       DEF TypeOK, ConfigureStore, ForgetRegisters, NextResetPort, UserPcs,
           LTC_PORTS_COUNT
  <2>. QED BY <2>1, <2>2
<1>15. CASE ConfigureTaken(t)
  BY <1>15, ConstantFacts
     DEF TypeOK, ConfigureTaken, NextResetPort, UserPcs, LastEvents, Events,
         LTC_PORTS_COUNT
<1>16. CASE ConfigureFails(t)
  BY <1>16, ConstantFacts DEF TypeOK, ConfigureFails, Done, UserPcs
<1>. QED
  BY <1>1, <1>2, <1>3, <1>4, <1>5, <1>6, <1>7, <1>8, <1>9, <1>10, <1>11,
     <1>12, <1>13, <1>14, <1>15, <1>16 DEF StoreReset, StoreChipReset

LEMMA TypeStep == TypeOK /\ [Next]_vars => TypeOK'
<1>. SUFFICES ASSUME TypeOK, [Next]_vars PROVE TypeOK' OBVIOUS
<1>1. CASE ChipWork BY <1>1, TypeChip
<1>2. ASSUME NEW p \in Ports, TimerFire(p) \/ PortWork(p) \/ Environment(p)
      PROVE  TypeOK'
  BY <1>2, TypeWork
<1>3. ASSUME NEW t \in UserThreads, Writer(t)
      PROVE  TypeOK'
  BY <1>3, TypeStore, TypeResets DEF Writer, StoreWork
<1>4. CASE UNCHANGED vars BY <1>4 DEF TypeOK, vars
<1>. QED BY <1>1, <1>2, <1>3, <1>4 DEF Next

\* The fields of the driver keep their types, whatever is written to sysfs and
\* whatever transfers fail.  total_mA_avail is an s32 that set_total_mA may make
\* negative, and that a refund may make negative by wrapping; but reserving never
\* takes it below what an s32 holds, even between resets that update it without
\* glbl_lock, as ltc4266_calculate_total_mA compares before it subtracts.
THEOREM Typing == Spec => []TypeOK
<1>. QED BY TypeInit, TypeStep, PTL DEF Spec

-----------------------------------------------------------------------------
(* The budget, without resets and failing transfers.                        *)

BudgetCore == ThreadInv /\ LockInv /\ ReservedInv /\ BudgetConserved

USE DEF GrantPcs, RefundPcs, PortPcs, GlblPcs, ChipPcs, WorkPcs

\* What a reservation takes out of the budget, and what a refund moves back.
LEMMA ReserveAccounts ==
  ASSUME TypeOK, NEW t \in Threads, Reserve(t), reg[t] = total_mA_avail
  PROVE  /\ Accounted \in Int /\ Accounted' \in Int
         /\ device_mA[at[t]] \in Nat
         /\ Accounted' = Accounted - device_mA[at[t]]
<1>1. /\ total_mA_avail \in Int /\ device_mA[0] \in Nat /\ device_mA[1] \in Nat
      /\ want[t] \in Nat /\ at[t] \in {0, 1} /\ DOMAIN device_mA = {0, 1}
  BY ConstantFacts, S32Facts DEF TypeOK
<1>2. /\ total_mA_avail' = total_mA_avail - want[t]
      /\ device_mA'[0] = IF at[t] = 0 THEN want[t] ELSE device_mA[0]
      /\ device_mA'[1] = IF at[t] = 1 THEN want[t] ELSE device_mA[1]
  BY <1>1 DEF Reserve
<1>. QED BY <1>1, <1>2 DEF Accounted

LEMMA RefundAccounts ==
  ASSUME TypeOK, NEW t \in Threads, GiveBack(t), reg[t] = total_mA_avail
  PROVE  /\ Accounted \in Int /\ Accounted' \in Int
         /\ \/ Accounted' = Accounted
            \/ Accounted > S32_MAX /\ Accounted' = Accounted - U32_MAX - 1
<1>. DEFINE c == device_mA[at[t]]
<1>1. /\ total_mA_avail \in S32Values /\ c \in Currents
      /\ at[t] \in {0, 1} /\ DOMAIN device_mA = {0, 1}
      /\ device_mA[0] \in Currents /\ device_mA[1] \in Currents
  BY ConstantFacts DEF TypeOK
<1>2. /\ total_mA_avail \in Int /\ device_mA[0] \in Nat /\ device_mA[1] \in Nat
      /\ c \in Nat /\ Wrapped(total_mA_avail + c) \in Int /\ S32_MAX \in Nat
  BY <1>1, S32Facts, WrapFacts, LtcAssumption
<1>3. \/ Wrapped(total_mA_avail + c) = total_mA_avail + c
      \/ /\ total_mA_avail + c > S32_MAX
         /\ Wrapped(total_mA_avail + c) = total_mA_avail + c - U32_MAX - 1
  BY <1>1, WrapFacts
<1>4. /\ total_mA_avail' = Wrapped(total_mA_avail + c)
      /\ device_mA'[0] = IF at[t] = 0 THEN 0 ELSE device_mA[0]
      /\ device_mA'[1] = IF at[t] = 1 THEN 0 ELSE device_mA[1]
  BY <1>1 DEF GiveBack
<1>5. device_mA'[0] + device_mA'[1] + c = device_mA[0] + device_mA[1]
  BY <1>1, <1>2, <1>4
<1>6. device_mA'[0] \in Nat /\ device_mA'[1] \in Nat BY <1>2, <1>4
<1>. QED
  BY <1>2, <1>3, <1>4, <1>5, <1>6 DEF Accounted, U32_MAX

LEMMA BudgetInit == NoResets /\ Init => BudgetInv
<1>. SUFFICES ASSUME NoResets, Init PROVE BudgetInv OBVIOUS
<1>1. PICK on \in [Ports -> (Statp \cap Classes) \cup {"open"}] : Init!(on)
  BY DEF Init
<1>2. TypeOK BY TypeInit
<1>3. ThreadInv BY <1>1, ConstantFacts DEF ThreadInv, Workers, Worker
<1>4. LockInv BY <1>1 DEF LockInv
<1>5. ReservedInv
  <2>1. iCUT("open") = 0 BY LtcAssumption DEF iCUT
  <2>. QED BY <1>1, <2>1 DEF ReservedInv
<1>6. BudgetConserved
  <2>1. /\ iCUT(on[0]) \in Nat /\ iCUT(on[1]) \in Nat /\ mA_avail \in Int
    BY CurrentFacts, LtcAssumption, S32Facts
  <2>. QED BY <1>1, <2>1, ConstantFacts DEF BudgetConserved, Accounted
<1>. QED BY <1>2, <1>3, <1>4, <1>5, <1>6 DEF BudgetInv

\* Loading the budget under glbl_lock, on the way from one critical section to
\* the next.
LEMMA BudgetLoads ==
  ASSUME BudgetInv, NEW t \in Threads, GrantLoad(t) \/ RefundLoad(t)
  PROVE  BudgetCore'
<1>. USE DEF BudgetInv
<1>1. ThreadInv'
  BY ConstantFacts DEF ThreadInv, GrantLoad, RefundLoad, BudgetLoad, TypeOK
<1>2. LockInv'
  BY ConstantFacts DEF LockInv, GrantLoad, RefundLoad, BudgetLoad, TypeOK
<1>3. ReservedInv'
  BY DEF ReservedInv, GrantLoad, RefundLoad, BudgetLoad, TypeOK
<1>4. BudgetConserved'
  BY DEF BudgetConserved, Accounted, GrantLoad, RefundLoad, BudgetLoad
<1>. QED BY <1>1, <1>2, <1>3, <1>4 DEF BudgetCore

LEMMA BudgetRefunds ==
  ASSUME BudgetInv, NEW t \in Threads, RefundStore(t)
  PROVE  BudgetCore'
<1>. USE DEF BudgetInv, RefundStore, GiveBack, ForgetRegisters
<1>1. ThreadInv' BY ConstantFacts DEF ThreadInv, TypeOK
<1>2. LockInv' BY ConstantFacts DEF LockInv, TypeOK
<1>3. ReservedInv' BY DEF ReservedInv, LockInv, TypeOK
<1>4. BudgetConserved'
  <2>1. reg[t] = total_mA_avail /\ limit' = limit BY DEF LockInv
  <2>2. /\ Accounted \in Int /\ Accounted' \in Int
        /\ \/ Accounted' = Accounted
           \/ Accounted > S32_MAX /\ Accounted' = Accounted - U32_MAX - 1
    BY <2>1, RefundAccounts
  <2>3. limit \in Int /\ limit <= 3 * S32_MAX /\ S32_MAX \in Nat
    BY LtcAssumption DEF TypeOK, S32_MIN
  <2>4. \/ Accounted = limit
        \/ limit > S32_MAX /\ Accounted = limit - U32_MAX - 1
    BY DEF BudgetConserved
  <2>. QED BY <2>1, <2>2, <2>3, <2>4 DEF BudgetConserved, U32_MAX
<1>. QED BY <1>1, <1>2, <1>3, <1>4 DEF BudgetCore

LEMMA BudgetRefusals ==
  ASSUME BudgetInv, NoResets, NEW t \in Threads, GrantRefused(t),
         \/ ChipRefused /\ t = Chip
         \/ PowerOnRefused(t) /\ t \in UserThreads
  PROVE  BudgetCore'
<1>. USE DEF BudgetInv, GrantRefused, ForgetRegisters, ChipRefused,
             PowerOnRefused, EndIteration, NextPort, Done, LTC_PORTS_COUNT
<1>1. ThreadInv' BY ConstantFacts DEF ThreadInv, TypeOK
<1>2. LockInv' BY ConstantFacts DEF LockInv, TypeOK
<1>3. ReservedInv' BY ConstantFacts DEF ReservedInv, LockInv, TypeOK
<1>4. BudgetConserved' BY DEF BudgetConserved, Accounted
<1>. QED BY <1>1, <1>2, <1>3, <1>4 DEF BudgetCore

LEMMA BudgetGrants ==
  ASSUME BudgetInv, NoResets, NEW t \in Threads,
         \/ ChipGranted /\ t = Chip
         \/ PowerOnGranted(t) /\ t \in UserThreads
  PROVE  BudgetCore'
<1>. USE DEF BudgetInv, SwitchOn, Fits, Reserve, ForgetRegisters, ChipGranted,
             PowerOnGranted, EndIteration, NextPort, Done, LTC_PORTS_COUNT
<1>0. TransferOK = {TRUE} BY DEF NoResets, TransferOK
<1>1. ThreadInv' BY ConstantFacts DEF ThreadInv, TypeOK
<1>2. LockInv' BY ConstantFacts DEF LockInv, TypeOK
<1>3. ReservedInv' BY <1>0, ConstantFacts DEF ReservedInv, LockInv, TypeOK
<1>4. BudgetConserved'
  <2>1. /\ Reserve(t) /\ limit' = limit
        /\ reg[t] = total_mA_avail /\ device_mA[at[t]] = 0
    BY ConstantFacts DEF LockInv, ReservedInv, TypeOK
  <2>2. /\ Accounted \in Int /\ Accounted' = Accounted - device_mA[at[t]]
    BY <2>1, ReserveAccounts
  <2>3. Accounted' = Accounted BY <2>1, <2>2
  <2>. QED BY <2>1, <2>3 DEF BudgetConserved
<1>. QED BY <1>1, <1>2, <1>3, <1>4 DEF BudgetCore

LEMMA BudgetChip ==
  ASSUME BudgetInv, NoResets, ChipWork
  PROVE  BudgetCore'
<1>. USE DEF BudgetInv, BudgetCore, ThreadInv, LockInv, ReservedInv,
             BudgetConserved, Accounted
<1>1. CASE ChipStart BY <1>1, ConstantFacts DEF ChipStart, TypeOK
<1>2. CASE PollPort
  BY <1>2, ConstantFacts DEF PollPort, TypeOK, LTC_PORTS_COUNT
<1>3. CASE PollFails BY <1>3 DEF PollFails, NoResets
<1>4. CASE ClassifyNothing
  BY <1>4, ConstantFacts
     DEF ClassifyNothing, AtPort, EndIteration, NextPort, TypeOK,
         LTC_PORTS_COUNT
<1>5. CASE ClassifyDevice
  BY <1>5, ConstantFacts
     DEF ClassifyDevice, AtPort, EndIteration, NextPort, TypeOK,
         LTC_PORTS_COUNT
<1>6. CASE ClassifyUnclassed
  BY <1>6, ConstantFacts
     DEF ClassifyUnclassed, AtPort, EndIteration, NextPort, TypeOK,
         LTC_PORTS_COUNT
<1>7. CASE GrantLoad(Chip) BY <1>7, ConstantFacts, BudgetLoads
<1>8. CASE ChipGranted
  BY <1>8, ConstantFacts, BudgetGrants
<1>9. CASE ChipRefused
  BY <1>9, ConstantFacts, BudgetRefusals DEF ChipRefused
<1>10. CASE MonitorLoss
  BY <1>10, ConstantFacts DEF MonitorLoss, AtPort, TypeOK
<1>11. CASE RefundLoad(Chip) BY <1>11, ConstantFacts, BudgetLoads
<1>12. CASE RefundStore(Chip) BY <1>12, ConstantFacts, BudgetRefunds
<1>13. CASE ChipRelease BY <1>13, ConstantFacts DEF ChipRelease, TypeOK
<1>14. CASE MonitorGood
  BY <1>14, ConstantFacts
     DEF MonitorGood, AtPort, EndIteration, NextPort, TypeOK, LTC_PORTS_COUNT
<1>15. CASE ChipCancel BY <1>15, ConstantFacts DEF ChipCancel, CancelWork, TypeOK
<1>16. CASE ChipWait
  BY <1>16, ConstantFacts DEF ChipWait, NextPort, TypeOK, LTC_PORTS_COUNT
<1>. QED
  BY <1>1, <1>2, <1>3, <1>4, <1>5, <1>6, <1>7, <1>8, <1>9, <1>10, <1>11,
     <1>12, <1>13, <1>14, <1>15, <1>16 DEF ChipWork

LEMMA BudgetWork ==
  ASSUME BudgetInv, NoResets, NEW p \in Ports,
         TimerFire(p) \/ PortWork(p) \/ Environment(p)
  PROVE  BudgetCore'
<1>. USE DEF BudgetInv, BudgetCore, ThreadInv, LockInv, ReservedInv,
             BudgetConserved, Accounted
<1>1. CASE TimerFire(p) BY <1>1 DEF TimerFire
<1>2. CASE WorkStart(p) BY <1>2, ConstantFacts DEF WorkStart, TypeOK
<1>3. CASE WorkTimesOut(p) BY <1>3, ConstantFacts DEF WorkTimesOut, TypeOK
<1>4. CASE RefundLoad(Worker(p)) BY <1>4, ConstantFacts, BudgetLoads
<1>5. CASE RefundStore(Worker(p)) BY <1>5, ConstantFacts, BudgetRefunds
<1>6. CASE WorkRelease(p) BY <1>6, ConstantFacts DEF WorkRelease, TypeOK
<1>7. CASE WorkCancelled(p) BY <1>7, ConstantFacts DEF WorkCancelled, TypeOK
<1>8. CASE WorkExit(p) BY <1>8, ConstantFacts DEF WorkExit, TypeOK
<1>9. CASE Environment(p)
  BY <1>9 DEF Environment, HwDetects, HwPowerGood, HwStartFails, HwDisconnects,
              HwOvercurrent, Hardware
<1>. QED
  BY <1>1, <1>2, <1>3, <1>4, <1>5, <1>6, <1>7, <1>8, <1>9 DEF PortWork

LEMMA NoResetPcs ==
  ASSUME ThreadInv, NEW t \in UserThreads
  PROVE  ~StoreReset(t) /\ ~StoreChipReset(t)
<1>. USE DEF ThreadInv
<1>1. ~StoreReset(t)
  BY DEF StoreReset, ResetLoad, ResetStore, ResetOff, ResetCancel, ResetWait,
         CancelWork
<1>2. ~StoreChipReset(t)
  BY DEF StoreChipReset, ChipResetPort, ChipResetCancel, ChipResetWait,
         ChipReset, ChipRefill, ConfigurePort, ConfigurePowered, ConfigureLoad,
         ConfigureFails, ConfigureStore, ConfigureTaken, CancelWork, BudgetLoad
<1>. QED BY <1>1, <1>2

LEMMA BudgetWriter ==
  ASSUME BudgetInv, NoResets, NEW t \in UserThreads, Writer(t)
  PROVE  BudgetCore'
<1>. USE DEF BudgetInv, BudgetCore, ThreadInv, LockInv, ReservedInv,
             BudgetConserved, Accounted
<1>0. t \in Threads BY ConstantFacts
<1>1. CASE SetMode(t) BY <1>1 DEF SetMode
<1>2. CASE SetTotal(t)
  <2>1. /\ Accounted' = limit'
        /\ UNCHANGED <<portVars, lockVars, device_mA, reg, pc, at>>
        /\ glblLock = None
    BY <1>2 DEF SetTotal
  <2>. QED BY <2>1, ConstantFacts
<1>3. CASE EnterStore(t) BY <1>0, <1>3, ConstantFacts DEF EnterStore, NoResets, TypeOK
<1>4. CASE PowerOn(t)
  BY <1>0, <1>4, ConstantFacts DEF PowerOn, PowerOnReady, TypeOK
<1>5. CASE GrantLoad(t) BY <1>0, <1>5, BudgetLoads
<1>6. CASE PowerOnGranted(t) BY <1>0, <1>6, BudgetGrants
<1>7. CASE PowerOnRefused(t)
  BY <1>0, <1>7, BudgetRefusals DEF PowerOnRefused
<1>8. CASE PowerOff(t) BY <1>0, <1>8, ConstantFacts DEF PowerOff, TypeOK
<1>9. CASE RefundLoad(t) BY <1>0, <1>9, BudgetLoads
<1>10. CASE RefundStore(t) BY <1>0, <1>10, BudgetRefunds
<1>11. CASE PowerOffDone(t)
  BY <1>0, <1>11, ConstantFacts DEF PowerOffDone, Done, TypeOK
<1>12. CASE StoreRejected(t)
  BY <1>0, <1>12, ConstantFacts DEF StoreRejected, Done, TypeOK
<1>13. ~StoreReset(t) /\ ~StoreChipReset(t) BY NoResetPcs
<1>. QED
  BY <1>1, <1>2, <1>3, <1>4, <1>5, <1>6, <1>7, <1>8, <1>9, <1>10, <1>11,
     <1>12, <1>13 DEF Writer, StoreWork, StorePower

LEMMA BudgetStep == NoResets /\ BudgetInv /\ [Next]_vars => BudgetInv'
<1>. SUFFICES ASSUME NoResets, BudgetInv, [Next]_vars PROVE BudgetInv'
  OBVIOUS
<1>0. TypeOK' BY TypeStep DEF BudgetInv
<1>1. ASSUME ChipWork PROVE BudgetCore' BY <1>1, BudgetChip
<1>2. ASSUME NEW p \in Ports, TimerFire(p) \/ PortWork(p) \/ Environment(p)
      PROVE  BudgetCore'
  BY <1>2, BudgetWork
<1>3. ASSUME NEW t \in UserThreads, Writer(t)
      PROVE  BudgetCore'
  BY <1>3, BudgetWriter
<1>4. ASSUME UNCHANGED vars PROVE BudgetCore'
  BY <1>4 DEF BudgetInv, BudgetCore, ThreadInv, LockInv, ReservedInv,
              BudgetConserved, Accounted, vars
<1>5. BudgetCore' BY <1>1, <1>2, <1>3, <1>4 DEF Next, BudgetInv
<1>. QED BY <1>0, <1>5 DEF BudgetInv, BudgetCore

\* Reserving and refunding, the ports of one source share its current exactly:
\* what is left and what is reserved always add up to what they were when the
\* budget was last set, also below zero, or to 2^32 less once a refund of more
\* than an s32 holds has wrapped (ltc4266_calculate_total_mA, port_monitor,
\* port_pwr_on_work_fn and store_power, each under port_lock and glbl_lock).
THEOREM BudgetIsConserved == NoResets /\ Spec => []BudgetConserved
<1>. SUFFICES ASSUME NoResets PROVE Spec => []BudgetConserved OBVIOUS
<1>1. Init => BudgetInv BY BudgetInit
<1>2. BudgetInv /\ [Next]_vars => BudgetInv' BY BudgetStep
<1>3. BudgetInv => BudgetConserved BY DEF BudgetInv
<1>. QED BY <1>1, <1>2, <1>3, PTL DEF Spec

-----------------------------------------------------------------------------
(* Updates of the budget, with or without a chip reset and failures.        *)

LEMMA FreshChip ==
  ASSUME TypeOK, FreshInv, ChipWork
  PROVE  FreshInv'
<1>. USE ConstantFacts DEF FreshInv, TypeOK, EndIteration, NextPort, AtPort
<1>1. CASE GrantLoad(Chip) \/ RefundLoad(Chip)
  BY <1>1 DEF GrantLoad, RefundLoad, BudgetLoad
<1>2. CASE RefundStore(Chip) BY <1>2 DEF RefundStore, ForgetRegisters
<1>3. CASE ChipGranted
  BY <1>3 DEF ChipGranted, SwitchOn, Reserve, ForgetRegisters
<1>4. CASE ChipRefused BY <1>4 DEF ChipRefused, GrantRefused, ForgetRegisters
<1>5. CASE ChipStart BY <1>5 DEF ChipStart
<1>6. CASE PollPort \/ PollFails BY <1>6 DEF PollPort, PollFails
<1>7. CASE ClassifyNothing BY <1>7 DEF ClassifyNothing
<1>8. CASE ClassifyDevice BY <1>8 DEF ClassifyDevice
<1>9. CASE ClassifyUnclassed BY <1>9 DEF ClassifyUnclassed
<1>10. CASE MonitorLoss \/ MonitorGood BY <1>10 DEF MonitorLoss, MonitorGood
<1>11. CASE ChipRelease BY <1>11 DEF ChipRelease
<1>12. CASE ChipCancel \/ ChipWait BY <1>12 DEF ChipCancel, CancelWork, ChipWait
<1>. QED
  BY <1>1, <1>2, <1>3, <1>4, <1>5, <1>6, <1>7, <1>8, <1>9, <1>10, <1>11,
     <1>12 DEF ChipWork

LEMMA FreshWork ==
  ASSUME TypeOK, FreshInv, NEW p \in Ports,
         TimerFire(p) \/ PortWork(p) \/ Environment(p)
  PROVE  FreshInv'
<1>. USE ConstantFacts DEF FreshInv, TypeOK
<1>1. CASE RefundLoad(Worker(p)) BY <1>1 DEF RefundLoad, BudgetLoad
<1>2. CASE RefundStore(Worker(p)) BY <1>2 DEF RefundStore, ForgetRegisters
<1>3. CASE WorkStart(p) BY <1>3 DEF WorkStart
<1>4. CASE WorkTimesOut(p) BY <1>4 DEF WorkTimesOut
<1>5. CASE WorkRelease(p) BY <1>5 DEF WorkRelease
<1>6. CASE WorkCancelled(p) \/ WorkExit(p) BY <1>6 DEF WorkCancelled, WorkExit
<1>7. CASE TimerFire(p) BY <1>7 DEF TimerFire
<1>8. CASE Environment(p)
  BY <1>8 DEF Environment, HwDetects, HwPowerGood, HwStartFails, HwDisconnects,
              HwOvercurrent, Hardware
<1>. QED
  BY <1>1, <1>2, <1>3, <1>4, <1>5, <1>6, <1>7, <1>8 DEF PortWork

LEMMA FreshWriter ==
  ASSUME TypeOK, FreshInv, "reset" \notin Ops, NEW t \in UserThreads, Writer(t)
  PROVE  FreshInv'
<1>. USE ConstantFacts DEF FreshInv, TypeOK, Done, NextResetPort
<1>1. CASE SetMode(t) \/ SetTotal(t) BY <1>1 DEF SetMode, SetTotal
<1>2. CASE EnterStore(t) BY <1>2 DEF EnterStore
<1>3. CASE PowerOn(t) BY <1>3 DEF PowerOn
<1>4. CASE GrantLoad(t) \/ RefundLoad(t) \/ ConfigureLoad(t)
  BY <1>4 DEF GrantLoad, RefundLoad, ConfigureLoad, BudgetLoad
<1>5. CASE PowerOnGranted(t)
  BY <1>5 DEF PowerOnGranted, SwitchOn, Reserve, ForgetRegisters
<1>6. CASE PowerOnRefused(t)
  BY <1>6 DEF PowerOnRefused, GrantRefused, ForgetRegisters
<1>7. CASE PowerOff(t) \/ PowerOffDone(t) \/ StoreRejected(t)
  BY <1>7 DEF PowerOff, PowerOffDone, StoreRejected
<1>8. CASE RefundStore(t) BY <1>8 DEF RefundStore, ForgetRegisters
<1>9. CASE ResetOff(t) BY <1>9 DEF ResetOff
<1>10. CASE ResetCancel(t) \/ ResetWait(t)
  BY <1>10 DEF ResetCancel, ResetWait, CancelWork
<1>11. CASE ChipResetPort(t) \/ ChipResetCancel(t) \/ ChipResetWait(t)
  BY <1>11 DEF ChipResetPort, ChipResetCancel, ChipResetWait, CancelWork
<1>12. CASE ChipReset(t) \/ ChipRefill(t) BY <1>12 DEF ChipReset, ChipRefill
<1>13. CASE ConfigurePort(t) \/ ConfigurePowered(t) \/ ConfigureTaken(t)
  BY <1>13 DEF ConfigurePort, ConfigurePowered, ConfigureTaken
<1>14. CASE ConfigureStore(t)
  BY <1>14 DEF ConfigureStore, Reserve, ForgetRegisters
<1>15. CASE ConfigureFails(t) BY <1>15 DEF ConfigureFails
<1>16. ~ResetLoad(t) /\ ~ResetStore(t) BY DEF ResetLoad, ResetStore
<1>. QED
  BY <1>1, <1>2, <1>3, <1>4, <1>5, <1>6, <1>7, <1>8, <1>9, <1>10, <1>11,
     <1>12, <1>13, <1>14, <1>15, <1>16
     DEF Writer, StoreWork, StorePower, StoreReset, StoreChipReset

LEMMA FreshStep ==
  ASSUME "reset" \notin Ops, TypeOK, FreshInv, [Next]_vars
  PROVE  FreshInv'
<1>1. CASE ChipWork BY <1>1, FreshChip
<1>2. ASSUME NEW p \in Ports, TimerFire(p) \/ PortWork(p) \/ Environment(p)
      PROVE  FreshInv'
  BY <1>2, FreshWork
<1>3. ASSUME NEW t \in UserThreads, Writer(t)
      PROVE  FreshInv'
  BY <1>3, FreshWriter
<1>4. CASE UNCHANGED vars BY <1>4 DEF FreshInv, vars
<1>. QED BY <1>1, <1>2, <1>3, <1>4 DEF Next

\* No update of the budget is lost as long as nobody writes to port_reset, the
\* one update without glbl_lock, and whatever else happens: chip resets, mode
\* changes, declared totals, failing transfers.
THEOREM NoLostUpdate == "reset" \notin Ops /\ Spec => []FreshBudget
<1>. SUFFICES ASSUME "reset" \notin Ops PROVE Spec => []FreshBudget OBVIOUS
<1>1. Init => FreshInv BY DEF Init, FreshInv
<1>2. TypeOK /\ FreshInv /\ [Next]_vars => FreshInv' BY FreshStep
<1>3. FreshInv => FreshBudget BY DEF FreshInv, FreshBudget, BudgetStores
<1>. QED BY TypeInit, TypeStep, <1>1, <1>2, <1>3, PTL DEF Spec

-----------------------------------------------------------------------------
(* The budget when transfers fail.                                          *)

LEMMA ThreadStep ==
  ASSUME BudgetKeepingOps, TypeOK, ThreadInv, [Next]_vars
  PROVE  ThreadInv'
<1>. USE ConstantFacts DEF ThreadInv, TypeOK
<1>1. CASE ChipWork
  <2>. USE DEF EndIteration, NextPort, LTC_PORTS_COUNT
  <2>1. CASE ChipStart \/ PollPort \/ PollFails
    BY <2>1 DEF ChipStart, PollPort, PollFails
  <2>2. CASE ClassifyNothing \/ ClassifyDevice \/ ClassifyUnclassed
    BY <2>2 DEF ClassifyNothing, ClassifyDevice, ClassifyUnclassed
  <2>3. CASE GrantLoad(Chip) \/ RefundLoad(Chip) \/ RefundStore(Chip)
    BY <2>3 DEF GrantLoad, RefundLoad, BudgetLoad, RefundStore
  <2>4. CASE ChipGranted \/ ChipRefused
    BY <2>4 DEF ChipGranted, SwitchOn, ChipRefused, GrantRefused
  <2>5. CASE MonitorLoss \/ ChipRelease \/ MonitorGood
    BY <2>5 DEF MonitorLoss, ChipRelease, MonitorGood
  <2>6. CASE ChipCancel \/ ChipWait BY <2>6 DEF ChipCancel, CancelWork, ChipWait
  <2>. QED BY <1>1, <2>1, <2>2, <2>3, <2>4, <2>5, <2>6 DEF ChipWork
<1>2. ASSUME NEW p \in Ports, TimerFire(p) \/ PortWork(p) \/ Environment(p)
      PROVE  ThreadInv'
  <2>1. CASE TimerFire(p) BY <2>1 DEF TimerFire
  <2>2. CASE PortWork(p)
    BY <2>2 DEF PortWork, WorkStart, WorkTimesOut, RefundLoad, BudgetLoad,
                RefundStore, WorkRelease, WorkCancelled, WorkExit
  <2>3. CASE Environment(p)
    BY <2>3 DEF Environment, HwDetects, HwPowerGood, HwStartFails,
                HwDisconnects, HwOvercurrent, Hardware
  <2>. QED BY <1>2, <2>1, <2>2, <2>3
<1>3. ASSUME NEW t \in UserThreads, Writer(t) PROVE ThreadInv'
  <2>. USE DEF Done
  <2>1. CASE SetMode(t) \/ SetTotal(t) BY <2>1 DEF SetMode, SetTotal
  <2>2. CASE EnterStore(t) BY <2>2 DEF EnterStore, BudgetKeepingOps
  <2>3. CASE PowerOn(t) \/ PowerOff(t) \/ PowerOffDone(t) \/ StoreRejected(t)
    BY <2>3 DEF PowerOn, PowerOff, PowerOffDone, StoreRejected
  <2>4. CASE GrantLoad(t) \/ RefundLoad(t) \/ RefundStore(t)
    BY <2>4 DEF GrantLoad, RefundLoad, BudgetLoad, RefundStore
  <2>5. CASE PowerOnGranted(t) \/ PowerOnRefused(t)
    BY <2>5 DEF PowerOnGranted, SwitchOn, PowerOnRefused, GrantRefused
  <2>6. ~StoreReset(t) /\ ~StoreChipReset(t) BY NoResetPcs
  <2>. QED
    BY <1>3, <2>1, <2>2, <2>3, <2>4, <2>5, <2>6
       DEF Writer, StoreWork, StorePower
<1>4. CASE UNCHANGED vars BY <1>4 DEF vars
<1>. QED BY <1>1, <1>2, <1>3, <1>4 DEF Next

\* The two stores of the budget: a reservation takes what it reserves out of the
\* budget, a refund moves the whole of device_mA back.
LEMMA LeakStores ==
  ASSUME LeakInv, NEW t \in Threads,
         (\E chipWork \in BOOLEAN : SwitchOn(t, chipWork)) \/ RefundStore(t)
  PROVE  NeverInflated'
<1>. USE DEF LeakInv
<1>1. limit \in Int BY LtcAssumption DEF TypeOK, S32_MIN
<1>2. ASSUME NEW chipWork \in BOOLEAN, SwitchOn(t, chipWork)
      PROVE  NeverInflated'
  <2>1. reg[t] = total_mA_avail /\ Reserve(t) /\ limit' = limit
    BY <1>2 DEF SwitchOn, FreshInv
  <2>. QED BY <1>1, <2>1, ReserveAccounts DEF NeverInflated
<1>3. CASE RefundStore(t)
  <2>1. reg[t] = total_mA_avail /\ GiveBack(t) /\ limit' = limit
    BY <1>3 DEF RefundStore, FreshInv
  <2>2. U32_MAX \in Nat BY LtcAssumption DEF U32_MAX
  <2>. QED BY <1>1, <2>1, <2>2, RefundAccounts DEF NeverInflated
<1>. QED BY <1>2, <1>3

LEMMA LeakStep ==
  ASSUME BudgetKeepingOps, LeakInv, [Next]_vars
  PROVE  NeverInflated'
<1>0. CASE UNCHANGED <<total_mA_avail, device_mA, limit>>
  BY <1>0 DEF LeakInv, NeverInflated, Accounted
<1>1. CASE ChipWork
  <2>1. CASE ChipGranted
    BY <2>1, ConstantFacts, LeakStores DEF ChipGranted
  <2>2. CASE RefundStore(Chip) BY <2>2, ConstantFacts, LeakStores
  <2>. QED
    BY <1>0, <1>1, <2>1, <2>2
       DEF ChipWork, ChipStart, PollPort, PollFails, ClassifyNothing,
           ClassifyDevice, ClassifyUnclassed, GrantLoad, ChipRefused,
           GrantRefused, MonitorLoss, RefundLoad, BudgetLoad, ChipRelease,
           MonitorGood, ChipCancel, CancelWork, ChipWait
<1>2. ASSUME NEW p \in Ports, TimerFire(p) \/ PortWork(p) \/ Environment(p)
      PROVE  NeverInflated'
  <2>1. CASE RefundStore(Worker(p)) BY <2>1, ConstantFacts, LeakStores
  <2>. QED
    BY <1>0, <1>2, <2>1
       DEF TimerFire, PortWork, WorkStart, WorkTimesOut, RefundLoad, BudgetLoad,
           WorkRelease, WorkCancelled, WorkExit, Environment, HwDetects,
           HwPowerGood, HwStartFails, HwDisconnects, HwOvercurrent, Hardware
<1>3. ASSUME NEW t \in UserThreads, Writer(t) PROVE NeverInflated'
  <2>0. t \in Threads BY ConstantFacts
  <2>1. CASE SetTotal(t)
    <3>1. PICK val \in Totals :
            /\ total_mA_avail' = S32(val)
            /\ limit' = S32(val) + device_mA[0] + device_mA[1]
            /\ device_mA' = device_mA
      BY <2>1 DEF SetTotal
    <3>2. /\ S32(val) \in Int /\ device_mA[0] \in Nat /\ device_mA[1] \in Nat
      BY LtcAssumption, ConversionFacts, ConstantFacts, S32Facts
         DEF LeakInv, TypeOK
    <3>. QED BY <3>1, <3>2 DEF NeverInflated, Accounted
  <2>2. CASE PowerOnGranted(t) BY <2>0, <2>2, LeakStores DEF PowerOnGranted
  <2>3. CASE RefundStore(t) BY <2>0, <2>3, LeakStores
  <2>4. ~StoreReset(t) /\ ~StoreChipReset(t) BY NoResetPcs DEF LeakInv
  <2>. QED
    BY <1>0, <1>3, <2>1, <2>2, <2>3, <2>4
       DEF Writer, StoreWork, StorePower, SetMode, EnterStore, PowerOn,
           GrantLoad, RefundLoad, BudgetLoad, PowerOnRefused, GrantRefused,
           PowerOff, PowerOffDone, StoreRejected
<1>. QED BY <1>0, <1>1, <1>2, <1>3 DEF Next, vars

LEMMA LeakInit == BudgetKeepingOps /\ Init => LeakInv
<1>. SUFFICES ASSUME BudgetKeepingOps, Init PROVE LeakInv OBVIOUS
<1>1. PICK on \in [Ports -> (Statp \cap Classes) \cup {"open"}] : Init!(on)
  BY DEF Init
<1>2. TypeOK BY TypeInit
<1>3. ThreadInv BY <1>1, ConstantFacts DEF ThreadInv, Workers, Worker
<1>4. FreshInv BY <1>1 DEF FreshInv
<1>5. /\ iCUT(on[0]) \in Nat /\ iCUT(on[1]) \in Nat /\ mA_avail \in Int
  BY CurrentFacts, LtcAssumption, S32Facts
<1>6. NeverInflated BY <1>1, <1>5, ConstantFacts DEF NeverInflated, Accounted
<1>. QED BY <1>2, <1>3, <1>4, <1>6 DEF LeakInv

\* Whatever transfers fail, whatever is written to the power, mode and total_mA
\* files: a failed "power on" may lose current (ltc4266_calculate_total_mA runs
\* again for a port that still has its reservation), but no interleaving of the
\* grants and refunds gives back more than the source was declared to have.
THEOREM LeaksOnly == BudgetKeepingOps /\ Spec => []NeverInflated
<1>. SUFFICES ASSUME BudgetKeepingOps PROVE Spec => []NeverInflated OBVIOUS
<1>1. LeakInv /\ [Next]_vars => LeakInv'
  <2>. SUFFICES ASSUME LeakInv, [Next]_vars PROVE LeakInv' OBVIOUS
  <2>1. TypeOK' BY TypeStep DEF LeakInv
  <2>2. ThreadInv' BY ThreadStep DEF LeakInv
  <2>3. FreshInv' BY FreshStep DEF LeakInv, BudgetKeepingOps
  <2>4. NeverInflated' BY LeakStep
  <2>. QED BY <2>1, <2>2, <2>3, <2>4 DEF LeakInv
<1>2. LeakInv => NeverInflated BY DEF LeakInv
<1>. QED BY LeakInit, <1>1, <1>2, PTL DEF Spec

-----------------------------------------------------------------------------
(* The driver implements PowerBudget.                                       *)

USE DEF Budget!vars

LEMMA BudgetTakes ==
  ASSUME BudgetInv, NEW t \in Threads, NEW chipWork, SwitchOn(t, chipWork)
  PROVE  [Budget!Next]_(Budget!vars)
<1>. USE DEF BudgetInv, SwitchOn, Reserve, Fits, TypeOK, LockInv
<1>. DEFINE p == at[t]
<1>0. p \in Ports /\ want[t] \in Nat /\ reg[t] \in Int BY S32Facts
<1>1. reg[t] = total_mA_avail /\ reg[t] >= want[t]
  OBVIOUS
<1>2. device_mA[p] = 0
  BY DEF ReservedInv
<1>3. /\ total_mA_avail' = total_mA_avail - want[t]
      /\ device_mA' = [device_mA EXCEPT ![p] = want[t]]
  BY <1>1
<1>4. CASE want[t] = 0
  <2>1. total_mA_avail' = total_mA_avail /\ device_mA' = device_mA
    BY <1>0, <1>1, <1>2, <1>3, <1>4
  <2>. QED BY <2>1
<1>5. CASE want[t] > 0
  <2>1. total_mA_avail' \in 0 .. total_mA_avail - 1
    BY <1>0, <1>1, <1>3, <1>5
  <2>2. want[t] = total_mA_avail - total_mA_avail'
    BY <1>0, <1>1, <1>3
  <2>3. Budget!Take(p)
    BY <1>2, <1>3, <2>1, <2>2 DEF Budget!Take
  <2>. QED BY <1>0, <2>3 DEF Budget!Next
<1>. QED BY <1>0, <1>4, <1>5

LEMMA BudgetGivesBack ==
  ASSUME BudgetInv, NEW t \in Threads, RefundStore(t)
  PROVE  [Budget!Next]_(Budget!vars)
<1>. USE DEF BudgetInv, RefundStore, GiveBack, TypeOK, LockInv
<1>. DEFINE p == at[t]
<1>0. /\ p \in Ports /\ device_mA[p] \in Currents /\ device_mA[p] \in Nat
      /\ total_mA_avail \in S32Values
  BY S32Facts
<1>1. /\ total_mA_avail' = Wrapped(total_mA_avail + device_mA[p])
      /\ device_mA' = [device_mA EXCEPT ![p] = 0]
  OBVIOUS
<1>2. /\ total_mA_avail' \in S32Values
      /\ total_mA_avail + device_mA[p] \in S32Values =>
           total_mA_avail' = total_mA_avail + device_mA[p]
  BY <1>0, <1>1, WrapFacts
<1>3. CASE device_mA[p] = 0
  <2>1. total_mA_avail + device_mA[p] = total_mA_avail
    BY <1>0, <1>3, S32Facts
  <2>2. total_mA_avail' = total_mA_avail BY <1>0, <1>2, <2>1
  <2>3. device_mA' = device_mA BY <1>0, <1>1, <1>3
  <2>. QED BY <2>2, <2>3
<1>4. CASE device_mA[p] > 0
  <2>1. Budget!GiveBack(p) BY <1>1, <1>2, <1>4 DEF Budget!GiveBack
  <2>. QED BY <1>0, <2>1 DEF Budget!Next
<1>. QED BY <1>0, <1>3, <1>4

LEMMA BudgetSimulation ==
  ASSUME NoResets, BudgetInv, [Next]_vars
  PROVE  [Budget!Next]_(Budget!vars)
<1>1. CASE ChipWork
  <2>1. CASE ChipGranted
    BY <2>1, ConstantFacts, BudgetTakes DEF ChipGranted
  <2>2. CASE RefundStore(Chip) BY <2>2, ConstantFacts, BudgetGivesBack
  <2>3. CASE UNCHANGED <<total_mA_avail, device_mA>> BY <2>3
  <2>. QED
    BY <1>1, <2>1, <2>2, <2>3
       DEF ChipWork, ChipStart, PollPort, PollFails, ClassifyNothing,
           ClassifyDevice, ClassifyUnclassed, GrantLoad, ChipRefused,
           GrantRefused, MonitorLoss, RefundLoad, BudgetLoad, ChipRelease,
           MonitorGood, ChipCancel, CancelWork, ChipWait
<1>2. ASSUME NEW p \in Ports, TimerFire(p) \/ PortWork(p) \/ Environment(p)
      PROVE  [Budget!Next]_(Budget!vars)
  <2>1. CASE RefundStore(Worker(p)) BY <2>1, ConstantFacts, BudgetGivesBack
  <2>2. CASE UNCHANGED <<total_mA_avail, device_mA>> BY <2>2
  <2>. QED
    BY <1>2, <2>1, <2>2
       DEF TimerFire, PortWork, WorkStart, WorkTimesOut, RefundLoad, BudgetLoad,
           WorkRelease, WorkCancelled, WorkExit, Environment, HwDetects,
           HwPowerGood, HwStartFails, HwDisconnects, HwOvercurrent, Hardware
<1>3. ASSUME NEW t \in UserThreads, Writer(t)
      PROVE  [Budget!Next]_(Budget!vars)
  <2>0. t \in Threads BY ConstantFacts
  <2>1. CASE SetTotal(t) BY <2>1 DEF SetTotal, Budget!Next, Budget!Declare
  <2>2. CASE PowerOnGranted(t) BY <2>0, <2>2, BudgetTakes DEF PowerOnGranted
  <2>3. CASE RefundStore(t) BY <2>0, <2>3, BudgetGivesBack
  <2>4. CASE UNCHANGED <<total_mA_avail, device_mA>> BY <2>4
  <2>5. ~StoreReset(t) /\ ~StoreChipReset(t) BY NoResetPcs DEF BudgetInv
  <2>. QED
    BY <1>3, <2>1, <2>2, <2>3, <2>4, <2>5
       DEF Writer, StoreWork, StorePower, SetMode, EnterStore, PowerOn,
           GrantLoad, RefundLoad, BudgetLoad, PowerOnRefused, GrantRefused,
           PowerOff, PowerOffDone, StoreRejected
<1>4. CASE UNCHANGED vars BY <1>4 DEF vars
<1>. QED BY <1>1, <1>2, <1>3, <1>4 DEF Next

\* Without resets and failing transfers every step of the driver is a grant, a
\* refund or a declaration of PowerBudget, or none of its business: no port is
\* granted twice, nothing is granted out of a budget below zero, and nothing but
\* its whole grant is ever given back.
THEOREM Refinement == NoResets /\ Spec => BudgetSpec
<1>. SUFFICES ASSUME NoResets PROVE Spec => BudgetSpec OBVIOUS
<1>1. Init => BudgetInv BY BudgetInit
<1>2. BudgetInv /\ [Next]_vars => BudgetInv' BY BudgetStep
<1>3. Init => Budget!Init BY TypeInit, S32Facts DEF TypeOK, Budget!Init
<1>4. BudgetInv /\ [Next]_vars => [Budget!Next]_(Budget!vars)
  BY BudgetSimulation
<1>. QED BY <1>1, <1>2, <1>3, <1>4, PTL DEF Spec, BudgetSpec, Budget!Spec

=============================================================================
