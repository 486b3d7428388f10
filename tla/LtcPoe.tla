------------------------------- MODULE LtcPoe -------------------------------
(***************************************************************************)
(* The LTC4266 Power-over-Ethernet driver of the Edge 5x0, added to the    *)
(* kernel by 996-velocloud-poe-ltc4266.patch (i2c-ltc4266.c).  Two ports   *)
(* share one power budget, total_mA_avail.  Four kinds of threads touch    *)
(* it: the chip work (queued every 250 ms by the monitor timer), one       *)
(* power-on work per port (queued by a timer armed when a port is switched *)
(* on), and the processes writing the driver's sysfs files.  A port's      *)
(* fields are protected by its port_lock, the budget by glbl_lock.         *)
(*                                                                         *)
(* A critical section is one action, except that every read-modify-write   *)
(* of total_mA_avail is split into a load and a store, and that switching  *)
(* a port off is a step apart from giving its current back.                *)
(*                                                                         *)
(* Abstracted: dev_class (reported, never branched on but to choose a      *)
(* reported event), the eventfd, the LIM/CUT registers, the power-enable   *)
(* and tSTART events (only cleared), DETECT and CLASS (always tested       *)
(* together; one event "DET").                                             *)
(***************************************************************************)
EXTENDS Integers, FiniteSets

CONSTANTS
  Users,      \* ids of the processes writing sysfs files, e.g. {1}
  Ops,        \* the sysfs files they write: a subset of SysfsOps
  Classes,    \* device classes 0..4 a detected device may have
  ClassmA,    \* mA the driver reserves for a device of a class
  S32_MAX,    \* the largest s32, 2^31 - 1; TLC is given a smaller one
  mA_avail,   \* module parameter: mA the power source can deliver
  Statp,      \* what a detection may report: classes, "open", "unclassed"
  Plugged,    \* ports whose device comes and goes
  Totals,     \* values written to total_mA, which are unsigned longs
  I2CFaults,  \* transfers on the I2C bus that may fail: a subset of Transfers
  MaxCancel   \* bound on cancel_timer; no bound is needed in the code

LTC_PORTS_COUNT == 2
Ports == 0 .. LTC_PORTS_COUNT - 1
SysfsOps == {"on", "off", "reset", "chip_reset", "chip_mode", "total_mA"}
Events == {"DET", "TCUT", "DIS", "GOOD"}
Transfers == {"poll", "status", "power", "configure"}
LastEvents == Events \cup {"NONE", "VTRANS", "OFF"}

Chip == <<"chip", 0>>
Worker(p) == <<"work", p>>
User(u) == <<"user", u>>
Workers == {Worker(p) : p \in Ports}
UserThreads == {User(u) : u \in Users}
Threads == {Chip} \cup Workers \cup UserThreads
None == <<"none", 0>>

S32_MIN == -S32_MAX - 1
S32Values == S32_MIN .. S32_MAX
Currents == 0 .. S32_MAX

ASSUME LtcAssumption ==
  /\ S32_MAX \in Nat \ {0}
  /\ Users \subseteq Nat
  /\ Ops \subseteq SysfsOps
  /\ Plugged \subseteq Ports
  /\ Totals \subseteq Nat
  /\ mA_avail \in S32Values
  /\ ClassmA \in [Classes -> Currents \ {0}]
  /\ Statp \subseteq Classes \cup {"open", "unclassed"}
  /\ {"open", "unclassed"} \cap Classes = {}
  /\ I2CFaults \subseteq Transfers
  /\ MaxCancel \in Nat

VARIABLES
  portState,    \* [Ports -> {"CLASSIFY", "MONITOR"}]
  portEvent,    \* port_event: events polled from the chip and not handled
  lastEvent,    \* last_port_event
  device_mA,    \* current reserved for the port's device
  cancelTimer,  \* cancel_timer: expiries of the power-on timer to ignore
  timer,        \* port_pwr_on_timer is armed
  pending,      \* port_work is queued and no worker has picked it up
  portLock,     \* owner of the port's mutex, or None
  glblLock,     \* owner of the chip's mutex, or None
  total_mA_avail,
  mode,         \* "auto" or "manual"
  pc, at,       \* where each thread is, and the port it works on
  reg,          \* the value of total_mA_avail a thread has loaded
  want,         \* the current a thread is about to reserve
  rcSet,        \* the chip work's rc is not 0 (it survives from port to port)
  hw,           \* the port's output: "off", "start" (no power good), "good"
  hwEvent,      \* the chip's clear-on-read event registers
  drawn,        \* ghost: current reserved when the output was switched on
  limit         \* ghost: what was free and reserved when the budget was last set

portVars == <<portState, portEvent, lastEvent, cancelTimer, timer>>
hwVars == <<hw, hwEvent, drawn>>
lockVars == <<portLock, glblLock>>
budgetVars == <<total_mA_avail, device_mA, reg, want, limit>>
vars == <<portVars, pending, lockVars, budgetVars, mode, pc, at, rcSet, hwVars>>

-----------------------------------------------------------------------------
(* Helpers.                                                                *)

\* An unsigned long assigned to an s32 keeps its low 32 bits, the upper half of
\* which are the negative numbers.
U32_MAX == 2 * S32_MAX + 1
S32(val) ==
  LET low == val % (U32_MAX + 1)
  IN  IF low <= S32_MAX THEN low ELSE low - U32_MAX - 1

\* A sum of an s32 and a current wraps around.
Wrapped(sum) == IF sum <= S32_MAX THEN sum ELSE sum - U32_MAX - 1

\* ltc4266_default_iCUT
iCUT(statp) == IF statp \in Classes THEN ClassmA[statp] ELSE 0

\* Variant: work_pending, which does not see a work being executed.
PendingOnly(p) == pending[p]

\* work_busy: queued, or being executed
Busy(p) == pending[p] \/ pc[Worker(p)] # "idle"

Goto(t, label) == pc' = [pc EXCEPT ![t] = label]

Lock(p, t) == portLock[p] = None /\ portLock' = [portLock EXCEPT ![p] = t]
Unlock(p) == portLock' = [portLock EXCEPT ![p] = None]

TransferOK == IF "power" \in I2CFaults THEN BOOLEAN ELSE {TRUE}

\* Switching an output changes "power good" if the output was good.
SwitchOff(p) ==
  \E ok \in TransferOK :
    /\ hw' = IF ok THEN [hw EXCEPT ![p] = "off"] ELSE hw
    /\ drawn' = IF ok THEN [drawn EXCEPT ![p] = 0] ELSE drawn
    /\ hwEvent' = IF ok /\ hw[p] = "good"
                    THEN [hwEvent EXCEPT ![p] = @ \cup {"GOOD"}]
                    ELSE hwEvent

\* Variant: the timer is left armed.
TimerLeftArmed(p, branches) ==
  /\ UNCHANGED timer
  /\ cancelTimer' = [cancelTimer EXCEPT ![p] =
                       IF Busy(p) THEN @ + branches ELSE @]
  /\ cancelTimer'[p] <= MaxCancel

\* del_timer_sync, then cancel_timer++ once per branch if the work is busy
StopTimer(p, branches) ==
  /\ timer' = [timer EXCEPT ![p] = FALSE]
  /\ cancelTimer' = [cancelTimer EXCEPT ![p] =
                       IF Busy(p) THEN @ + branches ELSE @]
  /\ cancelTimer'[p] <= MaxCancel

\* ltc4266_port_work_fn: the next iteration of its loop over the ports
NextPort ==
  IF at[Chip] < LTC_PORTS_COUNT - 1
    THEN Goto(Chip, "port") /\ at' = [at EXCEPT ![Chip] = @ + 1]
    ELSE Goto(Chip, "idle") /\ at' = [at EXCEPT ![Chip] = 0]

-----------------------------------------------------------------------------
(* Initial states: after ltc4266_i2c_probe.  A port that a former instance *)
(* of the driver left powered is taken over.                               *)

Init ==
  \E on \in [Ports -> (Statp \cap Classes) \cup {"open"}] :
    /\ \/ \A p \in Ports : on[p] = "open"
       \/ iCUT(on[0]) + iCUT(on[1]) <= mA_avail
    /\ portState = [p \in Ports |->
                      IF on[p] = "open" THEN "CLASSIFY" ELSE "MONITOR"]
    /\ lastEvent = [p \in Ports |-> IF on[p] = "open" THEN "DET" ELSE "GOOD"]
    /\ device_mA = [p \in Ports |-> iCUT(on[p])]
    /\ hw = [p \in Ports |-> IF on[p] = "open" THEN "off" ELSE "good"]
    /\ drawn = device_mA
    /\ total_mA_avail = mA_avail - iCUT(on[0]) - iCUT(on[1])
    /\ limit = mA_avail
    /\ portEvent = [p \in Ports |-> {}]
    /\ hwEvent = [p \in Ports |-> {}]
    /\ cancelTimer = [p \in Ports |-> 0]
    /\ timer = [p \in Ports |-> FALSE]
    /\ pending = [p \in Ports |-> FALSE]
    /\ portLock = [p \in Ports |-> None]
    /\ glblLock = None
    /\ mode = "auto"
    /\ pc = [t \in Threads |-> "idle"]
    /\ at = [t \in Threads |-> IF t \in Workers THEN t[2] ELSE 0]
    /\ reg = [t \in Threads |-> 0]
    /\ want = [t \in Threads |-> 0]
    /\ rcSet = FALSE

-----------------------------------------------------------------------------
(* Reserving current (ltc4266_calculate_total_mA) and giving it back.  A   *)
(* thread t works on port at[t]; the store of the new budget, the mutex    *)
(* and device_mA are one step, as nobody else reads device_mA meanwhile.   *)

\* Variant: the budget is loaded without waiting for glbl_lock.
BudgetLoadUnlocked(t, from, to) ==
  /\ pc[t] = from
  /\ glblLock' = t
  /\ reg' = [reg EXCEPT ![t] = total_mA_avail]
  /\ Goto(t, to)
  /\ UNCHANGED <<portVars, pending, portLock, total_mA_avail, device_mA, want,
                 limit, mode, at, rcSet, hwVars>>

BudgetLoad(t, from, to) ==
  /\ pc[t] = from
  /\ glblLock = None
  /\ glblLock' = t
  /\ reg' = [reg EXCEPT ![t] = total_mA_avail]
  /\ Goto(t, to)
  /\ UNCHANGED <<portVars, pending, portLock, total_mA_avail, device_mA, want,
                 limit, mode, at, rcSet, hwVars>>

GrantLoad(t) == BudgetLoad(t, "grant", "grantStore")
RefundLoad(t) == BudgetLoad(t, "refund", "refundStore")

\* Variant: the budget is not compared with the request.
AlwaysFits(t) == reg[t] >= S32_MIN

Fits(t) == reg[t] >= want[t]

Reserve(t) ==
  /\ total_mA_avail' = reg[t] - want[t]
  /\ device_mA' = [device_mA EXCEPT ![at[t]] = want[t]]

\* Variant: device_mA is not reset.
GiveBackKept(t) ==
  /\ total_mA_avail' = Wrapped(reg[t] + device_mA[at[t]])
  /\ UNCHANGED device_mA

GiveBack(t) ==
  /\ total_mA_avail' = Wrapped(reg[t] + device_mA[at[t]])
  /\ device_mA' = [device_mA EXCEPT ![at[t]] = 0]

ForgetRegisters(t) ==
  /\ reg' = [reg EXCEPT ![t] = 0]
  /\ want' = [want EXCEPT ![t] = 0]

RefundStore(t) ==
  /\ pc[t] = "refundStore"
  /\ GiveBack(t)
  /\ ForgetRegisters(t)
  /\ glblLock' = None
  /\ Goto(t, "release")
  /\ UNCHANGED <<portVars, pending, portLock, limit, mode, at, rcSet, hwVars>>

\* The reservation does not fit: the port stays as it is.
GrantRefused(t) ==
  /\ pc[t] = "grantStore"
  /\ ~Fits(t)
  /\ ForgetRegisters(t)
  /\ glblLock' = None
  /\ Unlock(at[t])
  /\ UNCHANGED <<portVars, pending, total_mA_avail, device_mA, limit, mode,
                 rcSet, hwVars>>

\* The reservation fits: switch the output on.  The chip work arms the
\* power-on timer and stays in CLASSIFY if the transfer fails; store_power
\* does neither.
SwitchOn(t, chipWork) ==
  LET p == at[t] IN
  /\ pc[t] = "grantStore"
  /\ Fits(t)
  /\ Reserve(t)
  /\ ForgetRegisters(t)
  /\ glblLock' = None
  /\ Unlock(p)
  /\ lastEvent' = [lastEvent EXCEPT ![p] = "VTRANS"]
  /\ timer' = [timer EXCEPT ![p] = @ \/ chipWork]
  /\ \E ok \in TransferOK :
       /\ hw' = IF ok /\ hw[p] = "off" THEN [hw EXCEPT ![p] = "start"] ELSE hw
       /\ drawn' = IF ok THEN [drawn EXCEPT ![p] = want[t]] ELSE drawn
       /\ portState' = IF ok \/ ~chipWork
                         THEN [portState EXCEPT ![p] = "MONITOR"]
                         ELSE portState
  /\ UNCHANGED <<portEvent, cancelTimer, pending, limit, mode, rcSet, hwEvent>>

-----------------------------------------------------------------------------
(* The chip work: ltc4266_port_work_fn.                                    *)

ChipStart ==
  /\ pc[Chip] = "idle"
  /\ Goto(Chip, "poll")
  /\ rcSet' = FALSE
  /\ UNCHANGED <<portVars, pending, lockVars, budgetVars, mode, at, hwVars>>

\* ltc4266_interrupt for one port: move the chip's events to port_event.
PollPort ==
  LET p == at[Chip] IN
  /\ pc[Chip] = "poll"
  /\ portLock[p] = None
  /\ portEvent' = [portEvent EXCEPT ![p] = @ \cup hwEvent[p]]
  /\ hwEvent' = [hwEvent EXCEPT ![p] = {}]
  /\ IF p < LTC_PORTS_COUNT - 1
       THEN at' = [at EXCEPT ![Chip] = @ + 1] /\ UNCHANGED pc
       ELSE at' = [at EXCEPT ![Chip] = 0] /\ Goto(Chip, "port")
  /\ UNCHANGED <<portState, lastEvent, cancelTimer, timer, pending, lockVars,
                 budgetVars, mode, rcSet, hw, drawn>>

\* A register read fails: what the registers before it held is stored, and
\* the work gives up until its next run.
PollFails ==
  /\ "poll" \in I2CFaults
  /\ pc[Chip] = "poll" /\ at[Chip] = 0
  /\ \A p \in Ports : portLock[p] = None
  /\ \E stored \in {{}, {"GOOD"}, {"GOOD", "TCUT", "DIS"}} :
       /\ portEvent' = [p \in Ports |->
                          portEvent[p] \cup (hwEvent[p] \cap stored)]
       /\ hwEvent' = [p \in Ports |-> hwEvent[p] \ stored]
  /\ Goto(Chip, "idle")
  /\ UNCHANGED <<portState, lastEvent, cancelTimer, timer, pending, lockVars,
                 budgetVars, mode, at, rcSet, hw, drawn>>

\* The end of an iteration: rc, perhaps set for an earlier port, decides
\* whether this port's work is cancelled.
EndIteration ==
  IF rcSet' THEN Goto(Chip, "cancel") /\ UNCHANGED at ELSE NextPort

AtPort(state) ==
  /\ pc[Chip] = "port"
  /\ portLock[at[Chip]] = None
  /\ portState[at[Chip]] = state

\* ltc4266_detect_classify_cycle: nothing detected, or an open port.
ClassifyNothing ==
  LET p == at[Chip] IN
  /\ AtPort("CLASSIFY")
  /\ "DET" \in portEvent[p] => "open" \in Statp
  /\ portEvent' = [portEvent EXCEPT ![p] = @ \ {"DET"}]
  /\ lastEvent' = [lastEvent EXCEPT ![p] = "NONE"]
  /\ UNCHANGED rcSet
  /\ EndIteration
  /\ UNCHANGED <<portState, cancelTimer, timer, pending, lockVars, budgetVars,
                 mode, hwVars>>

\* A device with a class.  In manual mode the event is kept for store_power;
\* in auto mode its current is reserved.
ClassifyDevice ==
  LET p == at[Chip] IN
  /\ AtPort("CLASSIFY")
  /\ "DET" \in portEvent[p]
  /\ \E statp \in Statp \cap Classes :
       /\ lastEvent' = [lastEvent EXCEPT ![p] = "DET"]
       /\ UNCHANGED rcSet
       /\ \/ /\ mode = "manual"
             /\ EndIteration
             /\ UNCHANGED <<portEvent, portLock, want>>
          \/ /\ mode = "auto"
             /\ portEvent' = [portEvent EXCEPT ![p] = @ \ {"DET"}]
             /\ Lock(p, Chip)
             /\ want' = [want EXCEPT ![Chip] = iCUT(statp)]
             /\ Goto(Chip, "grant")
             /\ UNCHANGED at
  /\ UNCHANGED <<portState, cancelTimer, timer, pending, glblLock,
                 total_mA_avail, device_mA, reg, limit, mode, hwVars>>

\* A device of no class: ltc4266_port_reset switches its output off and on,
\* and the event is kept.
ClassifyUnclassed ==
  LET p == at[Chip] IN
  /\ AtPort("CLASSIFY")
  /\ "DET" \in portEvent[p]
  /\ "unclassed" \in Statp
  /\ lastEvent' = [lastEvent EXCEPT ![p] = "NONE"]
  /\ \E off, on \in TransferOK :
       /\ hw' = IF off /\ on THEN [hw EXCEPT ![p] = "start"]
                ELSE IF off THEN [hw EXCEPT ![p] = "off"] ELSE hw
       /\ drawn' = IF off THEN [drawn EXCEPT ![p] = 0] ELSE drawn
       /\ hwEvent' = IF off /\ hw[p] = "good"
                       THEN [hwEvent EXCEPT ![p] = @ \cup {"GOOD"}]
                       ELSE hwEvent
  /\ UNCHANGED rcSet
  /\ EndIteration
  /\ UNCHANGED <<portState, portEvent, cancelTimer, timer, pending, lockVars,
                 budgetVars, mode>>

ChipGranted == SwitchOn(Chip, TRUE) /\ EndIteration
ChipRefused == GrantRefused(Chip) /\ EndIteration

\* ltc4266_port_monitor: the events left once those that a powered port
\* contradicts are dropped.  A failed status read counts as powered.
Current(p, powered) ==
  IF ~powered THEN portEvent[p]
  ELSE portEvent[p] \ ({"TCUT", "DIS"} \cup
         (IF lastEvent[p] = "GOOD" THEN {} ELSE {"DET"}))

Powered(p) == {hw[p] = "good"} \cup {b \in {TRUE} : "status" \in I2CFaults}

Losses == {"DET", "TCUT", "DIS"}

\* The device is gone, overloaded or detected anew: give its current back.
MonitorLoss ==
  LET p == at[Chip] IN
  /\ AtPort("MONITOR")
  /\ \E powered \in Powered(p) :
       LET events == Current(p, powered) IN
       /\ events \cap Losses # {}
       /\ portEvent' = [portEvent EXCEPT ![p] = events]
       /\ StopTimer(p, Cardinality(events \cap Losses))
  /\ Lock(p, Chip)
  /\ Goto(Chip, "refund")
  /\ UNCHANGED <<portState, lastEvent, pending, glblLock, budgetVars, mode, at,
                 rcSet, hwVars>>

ChipRelease ==
  LET p == at[Chip] IN
  /\ pc[Chip] = "release"
  /\ IF "DET" \in portEvent[p] THEN SwitchOff(p) ELSE UNCHANGED hwVars
  /\ lastEvent' = [lastEvent EXCEPT ![p] =
                     IF "DIS" \in portEvent[p] THEN "DIS"
                     ELSE IF "TCUT" \in portEvent[p] THEN "TCUT" ELSE "DET"]
  /\ portEvent' = [portEvent EXCEPT ![p] = {}]
  /\ portState' = [portState EXCEPT ![p] = "CLASSIFY"]
  /\ Unlock(p)
  /\ rcSet' = TRUE
  /\ Goto(Chip, "cancel")
  /\ UNCHANGED <<cancelTimer, timer, pending, glblLock, budgetVars, mode, at>>

\* Power good and no loss, or nothing at all.
MonitorGood ==
  LET p == at[Chip] IN
  /\ AtPort("MONITOR")
  /\ \E powered \in Powered(p) :
       LET events == Current(p, powered) IN
       /\ events \cap Losses = {}
       /\ rcSet' = ("GOOD" \in events)
       /\ IF "GOOD" \in events
            THEN /\ StopTimer(p, 1)
                 /\ lastEvent' = [lastEvent EXCEPT ![p] = "GOOD"]
            ELSE UNCHANGED <<timer, cancelTimer, lastEvent>>
  /\ portEvent' = [portEvent EXCEPT ![p] = {}]
  /\ EndIteration
  /\ UNCHANGED <<portState, pending, lockVars, budgetVars, mode, hwVars>>

\* cancel_work_sync: a queued work is dropped without being run; one being
\* executed is waited for.
CancelWork(t, from, to) ==
  /\ pc[t] = from
  /\ pending' = [pending EXCEPT ![at[t]] = FALSE]
  /\ Goto(t, to)
  /\ UNCHANGED <<portVars, lockVars, budgetVars, mode, at, rcSet, hwVars>>

ChipCancel == CancelWork(Chip, "cancel", "wait")

ChipWait ==
  /\ pc[Chip] = "wait"
  /\ pc[Worker(at[Chip])] = "idle"
  /\ NextPort
  /\ UNCHANGED <<portVars, pending, lockVars, budgetVars, mode, rcSet, hwVars>>

ChipWork ==
  \/ ChipStart \/ PollPort \/ PollFails
  \/ ClassifyNothing \/ ClassifyDevice \/ ClassifyUnclassed
  \/ GrantLoad(Chip) \/ ChipGranted \/ ChipRefused
  \/ MonitorLoss \/ RefundLoad(Chip) \/ RefundStore(Chip) \/ ChipRelease
  \/ MonitorGood \/ ChipCancel \/ ChipWait

-----------------------------------------------------------------------------
(* The power-on timer and its work.                                        *)

\* port_pwr_on_timer_function: queue_work, which does nothing while somebody
\* is cancelling the work.
TimerFire(p) ==
  /\ timer[p]
  /\ timer' = [timer EXCEPT ![p] = FALSE]
  /\ pending' = [pending EXCEPT ![p] =
       \/ @
       \/ ~\E t \in Threads : at[t] = p /\ pc[t] \in {"wait", "crWait"}]
  /\ UNCHANGED <<portState, portEvent, lastEvent, cancelTimer, lockVars,
                 budgetVars, mode, pc, at, rcSet, hwVars>>

WorkStart(p) ==
  /\ pending[p]
  /\ pc[Worker(p)] = "idle"
  /\ pending' = [pending EXCEPT ![p] = FALSE]
  /\ Goto(Worker(p), "run")
  /\ UNCHANGED <<portVars, lockVars, budgetVars, mode, at, rcSet, hwVars>>

\* port_pwr_on_work_fn
TimedOut(p) == cancelTimer[p] = 0 /\ lastEvent[p] \in {"VTRANS", "GOOD"}

WorkTimesOut(p) ==
  /\ pc[Worker(p)] = "run"
  /\ TimedOut(p)
  /\ Lock(p, Worker(p))
  /\ Goto(Worker(p), "refund")
  /\ UNCHANGED <<portVars, pending, glblLock, budgetVars, mode, at, rcSet,
                 hwVars>>

WorkRelease(p) ==
  /\ pc[Worker(p)] = "release"
  /\ SwitchOff(p)
  /\ portState' = [portState EXCEPT ![p] = "CLASSIFY"]
  /\ Unlock(p)
  /\ Goto(Worker(p), "exit")
  /\ UNCHANGED <<portEvent, lastEvent, cancelTimer, timer, pending, glblLock,
                 budgetVars, mode, at, rcSet>>

WorkCancelled(p) ==
  /\ pc[Worker(p)] = "run"
  /\ portLock[p] = None
  /\ ~TimedOut(p)
  /\ cancelTimer' = [cancelTimer EXCEPT ![p] = IF @ = 0 THEN 0 ELSE @ - 1]
  /\ Goto(Worker(p), "exit")
  /\ UNCHANGED <<portState, portEvent, lastEvent, timer, pending, lockVars,
                 budgetVars, mode, at, rcSet, hwVars>>

\* Still busy between the unlock and the return.
WorkExit(p) ==
  /\ pc[Worker(p)] = "exit"
  /\ Goto(Worker(p), "idle")
  /\ UNCHANGED <<portVars, pending, lockVars, budgetVars, mode, at, rcSet,
                 hwVars>>

PortWork(p) ==
  \/ WorkStart(p)
  \/ WorkTimesOut(p) \/ RefundLoad(Worker(p)) \/ RefundStore(Worker(p))
  \/ WorkRelease(p) \/ WorkCancelled(p) \/ WorkExit(p)

-----------------------------------------------------------------------------
(* Writers of the sysfs files.                                             *)

Done(t) == Goto(t, "idle") /\ at' = [at EXCEPT ![t] = 0]

\* set_chip_mode
SetMode(t) ==
  /\ "chip_mode" \in Ops
  /\ pc[t] = "idle"
  /\ mode' \in {"auto", "manual"} \ {mode}
  /\ UNCHANGED <<portVars, pending, lockVars, budgetVars, pc, at, rcSet, hwVars>>

\* set_total_mA: what the writer declares is what is left, as an s32.
SetTotal(t) ==
  /\ "total_mA" \in Ops
  /\ pc[t] = "idle"
  /\ mode = "manual"
  /\ glblLock = None
  /\ \E val \in Totals :
       /\ total_mA_avail' = S32(val)
       /\ limit' = S32(val) + device_mA[0] + device_mA[1]
  /\ UNCHANGED <<portVars, pending, lockVars, device_mA, reg, want, mode, pc,
                 at, rcSet, hwVars>>

\* Enter store_power or store_port_reset for a port, or set_chip_reset, which
\* starts at port 0.
EnterStore(t) ==
  /\ pc[t] = "idle"
  /\ \E op \in Ops \cap {"on", "off", "reset", "chip_reset"}, p \in Ports :
       /\ op \in {"on", "off"} => mode = "manual"
       /\ op = "chip_reset" => p = 0
       /\ Goto(t, op)
       /\ at' = [at EXCEPT ![t] = p]
  /\ UNCHANGED <<portVars, pending, lockVars, budgetVars, mode, rcSet, hwVars>>

\* Variant: a port that is on already may be switched on.
Detected(p) == "DET" \in portEvent[p]

\* store_power, "on": the port's pending detection is not consumed.
PowerOnReady(p) == "DET" \in portEvent[p] /\ portState[p] # "MONITOR"

PowerOn(t) ==
  /\ pc[t] = "on"
  /\ PowerOnReady(at[t])
  /\ \E statp \in Statp : want' = [want EXCEPT ![t] = iCUT(statp)]
  /\ Lock(at[t], t)
  /\ Goto(t, "grant")
  /\ UNCHANGED <<portVars, pending, glblLock, total_mA_avail, device_mA, reg,
                 limit, mode, at, rcSet, hwVars>>

PowerOnGranted(t) == SwitchOn(t, FALSE) /\ Done(t)
PowerOnRefused(t) == GrantRefused(t) /\ Done(t)

\* store_power, "off": the output first, then the budget.
PowerOff(t) ==
  /\ pc[t] = "off"
  /\ portState[at[t]] = "MONITOR"
  /\ Lock(at[t], t)
  /\ SwitchOff(at[t])
  /\ Goto(t, "refund")
  /\ UNCHANGED <<portVars, pending, glblLock, budgetVars, mode, at, rcSet>>

PowerOffDone(t) ==
  LET p == at[t] IN
  /\ pc[t] = "release"
  /\ portState' = [portState EXCEPT ![p] = "CLASSIFY"]
  /\ portEvent' = [portEvent EXCEPT ![p] = @ \ {"DET"}]
  /\ lastEvent' = [lastEvent EXCEPT ![p] = "OFF"]
  /\ Unlock(p)
  /\ Done(t)
  /\ UNCHANGED <<cancelTimer, timer, pending, glblLock, budgetVars, mode, rcSet,
                 hwVars>>

\* The port is not in a state the operation applies to.
StoreRejected(t) ==
  LET p == at[t] IN
  /\ portLock[p] = None
  /\ \/ pc[t] = "on" /\ ~PowerOnReady(p)
     \/ pc[t] = "off" /\ portState[p] # "MONITOR"
     \/ pc[t] = "reset" /\ lastEvent[p] \notin {"VTRANS", "GOOD"}
  /\ Done(t)
  /\ UNCHANGED <<portVars, pending, lockVars, budgetVars, mode, rcSet, hwVars>>

\* store_port_reset: the budget is loaded and stored without glbl_lock.
ResetLoad(t) ==
  /\ pc[t] = "reset"
  /\ lastEvent[at[t]] \in {"VTRANS", "GOOD"}
  /\ Lock(at[t], t)
  /\ reg' = [reg EXCEPT ![t] = total_mA_avail]
  /\ Goto(t, "resetStore")
  /\ UNCHANGED <<portVars, pending, glblLock, total_mA_avail, device_mA, want,
                 limit, mode, at, rcSet, hwVars>>

ResetStore(t) ==
  /\ pc[t] = "resetStore"
  /\ GiveBack(t)
  /\ ForgetRegisters(t)
  /\ Goto(t, "resetOff")
  /\ UNCHANGED <<portVars, pending, lockVars, limit, mode, at, rcSet, hwVars>>

\* Variant: the mutex is kept while the work is waited for.
KeepForWait(p) == UNCHANGED portLock

\* The mutex is released before cancel_work_sync waits for the work, which
\* takes it.
UnlockForWait(p) == Unlock(p)

ResetOff(t) ==
  LET p == at[t] IN
  /\ pc[t] = "resetOff"
  /\ SwitchOff(p)
  /\ portEvent' = [portEvent EXCEPT ![p] = {}]
  /\ lastEvent' = [lastEvent EXCEPT ![p] = "DIS"]
  /\ portState' = [portState EXCEPT ![p] = "CLASSIFY"]
  /\ StopTimer(p, 1)
  /\ UnlockForWait(p)
  /\ IF Busy(p) THEN Goto(t, "cancel") /\ UNCHANGED at ELSE Done(t)
  /\ UNCHANGED <<pending, glblLock, budgetVars, mode, rcSet>>

ResetCancel(t) == CancelWork(t, "cancel", "wait")

ResetWait(t) ==
  /\ pc[t] = "wait"
  /\ pc[Worker(at[t])] = "idle"
  /\ Done(t)
  /\ UNCHANGED <<portVars, pending, lockVars, budgetVars, mode, rcSet, hwVars>>

\* set_chip_reset: stop every port's timer, reset the chip, refill the budget
\* and configure every port again (ltc4266_config_semiauto_mode_from_pwr_on).
\* The port's device_mA is left as it is.
NextResetPort(t, label, end) ==
  IF at[t] < LTC_PORTS_COUNT - 1
    THEN Goto(t, label) /\ at' = [at EXCEPT ![t] = @ + 1]
    ELSE Goto(t, end) /\ at' = [at EXCEPT ![t] = 0]

ChipResetPort(t) ==
  LET p == at[t] IN
  /\ pc[t] = "chip_reset"
  /\ portLock[p] = None
  /\ lastEvent' = [lastEvent EXCEPT ![p] = "DIS"]
  /\ StopTimer(p, 1)
  /\ IF Busy(p) THEN Goto(t, "crCancel") /\ UNCHANGED at
                ELSE NextResetPort(t, "chip_reset", "crReset")
  /\ UNCHANGED <<portState, portEvent, pending, lockVars, budgetVars, mode,
                 rcSet, hwVars>>

ChipResetCancel(t) == CancelWork(t, "crCancel", "crWait")

ChipResetWait(t) ==
  /\ pc[t] = "crWait"
  /\ pc[Worker(at[t])] = "idle"
  /\ NextResetPort(t, "chip_reset", "crReset")
  /\ UNCHANGED <<portVars, pending, lockVars, budgetVars, mode, rcSet, hwVars>>

ChipReset(t) ==
  /\ pc[t] = "crReset"
  /\ \E ok \in TransferOK :
       IF ok THEN /\ hw' = [p \in Ports |-> "off"]
                  /\ hwEvent' = [p \in Ports |-> {}]
                  /\ drawn' = [p \in Ports |-> 0]
             ELSE UNCHANGED hwVars
  /\ Goto(t, "crRefill")
  /\ UNCHANGED <<portVars, pending, lockVars, budgetVars, mode, at, rcSet>>

\* Variant: the budget is refilled without glbl_lock.
ChipRefillUnlocked(t) ==
  /\ pc[t] = "crRefill"
  /\ total_mA_avail' = mA_avail
  /\ limit' = mA_avail + device_mA[0] + device_mA[1]
  /\ Goto(t, "crConf")
  /\ UNCHANGED <<portVars, pending, lockVars, device_mA, reg, want, mode, at,
                 rcSet, hwVars>>

ChipRefill(t) ==
  /\ pc[t] = "crRefill"
  /\ glblLock = None
  /\ total_mA_avail' = mA_avail
  /\ limit' = mA_avail + device_mA[0] + device_mA[1]
  /\ Goto(t, "crConf")
  /\ UNCHANGED <<portVars, pending, lockVars, device_mA, reg, want, mode, at,
                 rcSet, hwVars>>

ConfigurePort(t) ==
  LET p == at[t] IN
  /\ pc[t] = "crConf"
  /\ portLock[p] = None
  /\ portState' = [portState EXCEPT ![p] = "CLASSIFY"]
  /\ lastEvent' = [lastEvent EXCEPT ![p] = "DET"]
  /\ NextResetPort(t, "crConf", "idle")
  /\ UNCHANGED <<portEvent, cancelTimer, timer, pending, lockVars, budgetVars,
                 mode, rcSet, hwVars>>

\* A register cannot be written: no port is configured.
ConfigureFails(t) ==
  /\ "configure" \in I2CFaults
  /\ pc[t] = "crConf" /\ at[t] = 0
  /\ Done(t)
  /\ UNCHANGED <<portVars, pending, lockVars, budgetVars, mode, rcSet, hwVars>>

\* A port found in semi-auto mode with power good is reserved for again,
\* without its port_lock.
ConfigurePowered(t) ==
  /\ pc[t] = "crConf"
  /\ hw[at[t]] = "good" \/ "configure" \in I2CFaults
  /\ \E statp \in Statp : want' = [want EXCEPT ![t] = iCUT(statp)]
  /\ Goto(t, "crGrant")
  /\ UNCHANGED <<portVars, pending, lockVars, total_mA_avail, device_mA, reg,
                 limit, mode, at, rcSet, hwVars>>

ConfigureLoad(t) == BudgetLoad(t, "crGrant", "crGrantStore")

ConfigureStore(t) ==
  /\ pc[t] = "crGrantStore"
  /\ IF Fits(t)
       THEN Reserve(t) /\ Goto(t, "crTaken") /\ UNCHANGED at
       ELSE /\ NextResetPort(t, "crConf", "idle")
            /\ UNCHANGED <<total_mA_avail, device_mA>>
  /\ ForgetRegisters(t)
  /\ glblLock' = None
  /\ UNCHANGED <<portVars, pending, portLock, limit, mode, rcSet, hwVars>>

ConfigureTaken(t) ==
  LET p == at[t] IN
  /\ pc[t] = "crTaken"
  /\ portLock[p] = None
  /\ lastEvent' = [lastEvent EXCEPT ![p] = "GOOD"]
  /\ portState' = [portState EXCEPT ![p] = "MONITOR"]
  /\ NextResetPort(t, "crConf", "idle")
  /\ UNCHANGED <<portEvent, cancelTimer, timer, pending, lockVars, budgetVars,
                 mode, rcSet, hwVars>>

StorePower(t) ==
  \/ PowerOn(t) \/ GrantLoad(t) \/ PowerOnGranted(t) \/ PowerOnRefused(t)
  \/ PowerOff(t) \/ RefundLoad(t) \/ RefundStore(t) \/ PowerOffDone(t)
  \/ StoreRejected(t)

StoreReset(t) ==
  ResetLoad(t) \/ ResetStore(t) \/ ResetOff(t) \/ ResetCancel(t) \/ ResetWait(t)

StoreChipReset(t) ==
  \/ ChipResetPort(t) \/ ChipResetCancel(t) \/ ChipResetWait(t)
  \/ ChipReset(t) \/ ChipRefill(t) \/ ConfigurePort(t) \/ ConfigurePowered(t)
  \/ ConfigureFails(t)
  \/ ConfigureLoad(t) \/ ConfigureStore(t) \/ ConfigureTaken(t)

StoreWork(t) == StorePower(t) \/ StoreReset(t) \/ StoreChipReset(t)

Writer(t) == SetMode(t) \/ SetTotal(t) \/ EnterStore(t) \/ StoreWork(t)

-----------------------------------------------------------------------------
(* The chip and what is plugged into it.                                   *)

Hardware(p, from, to, events) ==
  /\ p \in Plugged
  /\ hw[p] = from
  /\ hw' = [hw EXCEPT ![p] = to]
  /\ hwEvent' = [hwEvent EXCEPT ![p] = @ \cup events]
  /\ drawn' = [drawn EXCEPT ![p] = IF to = "off" THEN 0 ELSE @]
  /\ UNCHANGED <<portVars, pending, lockVars, budgetVars, mode, pc, at, rcSet>>

HwDetects(p) == Hardware(p, "off", "off", {"DET"})
HwPowerGood(p) == Hardware(p, "start", "good", {"GOOD"})
HwStartFails(p) == Hardware(p, "start", "off", {})
HwDisconnects(p) == Hardware(p, "good", "off", {"DIS", "GOOD"})
HwOvercurrent(p) == Hardware(p, "good", "off", {"TCUT", "GOOD"})

Environment(p) ==
  \/ HwDetects(p) \/ HwPowerGood(p) \/ HwStartFails(p)
  \/ HwDisconnects(p) \/ HwOvercurrent(p)

-----------------------------------------------------------------------------
Next ==
  \/ ChipWork
  \/ \E p \in Ports : TimerFire(p) \/ PortWork(p) \/ Environment(p)
  \/ \E t \in UserThreads : Writer(t)

Spec == Init /\ [][Next]_vars

\* The kernel runs its timers and works, and lets a process that is inside a
\* store go on; a mutex is handed to its waiters in turn, hence SF.  Nothing
\* forces the hardware or a new store.
Fairness ==
  /\ SF_vars(ChipWork)
  /\ \A p \in Ports : WF_vars(TimerFire(p)) /\ SF_vars(PortWork(p))
  /\ \A t \in UserThreads : SF_vars(StoreWork(t))

FairSpec == Spec /\ Fairness

-----------------------------------------------------------------------------
(* Properties.                                                             *)

ChipPcs == {"idle", "poll", "port", "grant", "grantStore", "refund",
            "refundStore", "release", "cancel", "wait"}
WorkPcs == {"idle", "run", "refund", "refundStore", "release", "exit"}
UserPcs == {"idle", "on", "off", "grant", "grantStore", "refund",
            "refundStore", "release", "reset", "resetStore", "resetOff",
            "cancel", "wait", "chip_reset", "crCancel", "crWait", "crReset",
            "crRefill", "crConf", "crGrant", "crGrantStore", "crTaken"}

\* Every field of the driver holds a value of its C type's meaning: whatever is
\* written to total_mA, negative numbers included, and whatever is given back
\* to it, no reservation takes the s32 budget below its smallest value, and none
\* is negative (ltc4266_calculate_total_mA compares before it subtracts).
TypeOK ==
  /\ portState \in [Ports -> {"CLASSIFY", "MONITOR"}]
  /\ portEvent \in [Ports -> SUBSET Events]
  /\ lastEvent \in [Ports -> LastEvents]
  /\ device_mA \in [Ports -> Currents]
  /\ cancelTimer \in [Ports -> Nat]
  /\ timer \in [Ports -> BOOLEAN]
  /\ pending \in [Ports -> BOOLEAN]
  /\ portLock \in [Ports -> Threads \cup {None}]
  /\ glblLock \in Threads \cup {None}
  /\ total_mA_avail \in S32Values
  /\ mode \in {"auto", "manual"}
  /\ pc \in [Threads -> ChipPcs \cup WorkPcs \cup UserPcs]
  /\ at \in [Threads -> Ports]
  /\ reg \in [Threads -> S32Values]
  /\ want \in [Threads -> Currents]
  /\ rcSet \in BOOLEAN
  /\ hw \in [Ports -> {"off", "start", "good"}]
  /\ hwEvent \in [Ports -> SUBSET Events]
  /\ drawn \in [Ports -> Currents]
  /\ limit \in S32_MIN .. 3 * S32_MAX

\* The budget is conserved: what is left and what is reserved always add up to
\* what they were when the budget was last set, also if it was set below zero;
\* or to 2^32 less if that does not fit an s32 and was given back
\* (ltc4266_calculate_total_mA, set_total_mA, and the refunds of port_monitor,
\* port_pwr_on_work_fn and store_power).
Accounted == total_mA_avail + device_mA[0] + device_mA[1]

BudgetConserved ==
  \/ Accounted = limit
  \/ limit > S32_MAX /\ Accounted = limit - U32_MAX - 1

\* The budget is never inflated: whatever transfers fail, current may be lost
\* (a device reserved for twice after a failed "power on" or by a chip reset)
\* but none is given back that was not reserved.
NeverInflated == Accounted <= limit

\* No update of the budget is lost: a thread about to store what it computed
\* from total_mA_avail loaded the value the budget still has (glbl_lock in
\* ltc4266_calculate_total_mA, the refunds, set_total_mA and set_chip_reset).
BudgetStores == {"grantStore", "refundStore", "crGrantStore", "resetStore"}

FreshBudget ==
  \A t \in Threads : pc[t] \in BudgetStores => reg[t] = total_mA_avail

\* A power-on timer that is armed belongs to the power-on in progress: whoever
\* takes a port back to classification (ltc4266_port_monitor, the timeout,
\* store_port_reset) has stopped it when it releases the port.
TimerOfThisPowerOn ==
  \A p \in Ports :
    portLock[p] = None /\ timer[p] =>
      /\ portState[p] = "MONITOR"
      /\ lastEvent[p] = "VTRANS"
      /\ device_mA[p] > 0

\* The timeout never switches off a port whose power was reported good
\* (port_pwr_on_work_fn against the POWER_GOOD branch of port_monitor).
GoodNotTimedOut ==
  [][\A p \in Ports :
       pc[Worker(p)] = "run" /\ pc'[Worker(p)] = "refund"
         => lastEvent[p] # "GOOD"]_vars

\* "Keep in mind the limits of the power source": while no port is being
\* switched, the outputs that are on were granted no more than the source has.
NoOvercommit ==
  (\A p \in Ports : portLock[p] = None) => drawn[0] + drawn[1] <= limit

\* MaxCancel bounds the model.
AtBound(p) == cancelTimer[p] >= MaxCancel

\* Every store to a sysfs file returns: no store waits for a mutex, or for a
\* work to finish, whose owner waits for it (store_port_reset and
\* set_chip_reset call cancel_work_sync on a work that takes port_lock).
StoresReturn ==
  \A t \in UserThreads :
    pc[t] # "idle" ~> pc[t] = "idle" \/ \E p \in Ports : AtBound(p)

\* The budget as PowerBudget describes it: total_mA_avail is what is free, and
\* device_mA what each port was granted.
Budget == INSTANCE PowerBudget
            WITH Amounts <- S32Values, Declared <- {S32(val) : val \in Totals},
                 free <- total_mA_avail, grant <- device_mA

\* Every step of the driver is a step of PowerBudget, or changes nothing of it.
BudgetSpec == Budget!Spec
=============================================================================
