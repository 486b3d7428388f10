----------------------------- MODULE LtcPoeInv -----------------------------
(* The inductive invariants of LtcPoe.                                      *)
EXTENDS LtcPoe

\* The assumptions of the budget: no reset from sysfs (store_port_reset and
\* set_chip_reset do not keep the budget) and no failing transfer.
NoResets == Ops \cap {"reset", "chip_reset"} = {} /\ I2CFaults = {}

\* The assumption of NeverInflated: no reset; any transfer may fail.
BudgetKeepingOps == Ops \cap {"reset", "chip_reset"} = {}

\* The assumption of the timer: the ports are only switched on by the chip work,
\* and switching an output does not fail.  Port resets and all other transfers
\* that fail are in.
AutoOnly ==
  Ops \cap {"chip_reset", "chip_mode"} = {} /\ "power" \notin I2CFaults

GrantPcs == {"grant", "grantStore"}
RefundPcs == {"refund", "refundStore"}
PortPcs == GrantPcs \cup RefundPcs \cup {"release"}
GlblPcs == {"grantStore", "refundStore"}

-----------------------------------------------------------------------------
(* The budget.                                                              *)

\* Where each thread can be.
ThreadInv ==
  /\ pc[Chip] \in ChipPcs
  /\ \A p \in Ports : pc[Worker(p)] \in WorkPcs /\ at[Worker(p)] = p
  /\ \A t \in UserThreads : pc[t] \in {"idle", "on", "off"} \cup PortPcs

\* A thread that changes a port's reservation has the port's mutex, and one
\* that is about to store the budget has the chip's, and a fresh value.
LockInv ==
  /\ \A t \in Threads : pc[t] \in PortPcs => portLock[at[t]] = t
  /\ \A t \in Threads :
       pc[t] \in GlblPcs => glblLock = t /\ reg[t] = total_mA_avail

\* Only a port in MONITOR has current reserved, and a port on its way out of
\* MONITOR has given it back.
ReservedInv ==
  /\ \A p \in Ports : portState[p] = "CLASSIFY" => device_mA[p] = 0
  /\ \A t \in Threads : pc[t] \in GrantPcs => portState[at[t]] = "CLASSIFY"
  /\ \A t \in Threads : pc[t] = "release" => device_mA[at[t]] = 0

\* The inductive invariant of the budget.
BudgetInv == TypeOK /\ ThreadInv /\ LockInv /\ ReservedInv /\ BudgetConserved

\* Whoever is about to store the budget under glbl_lock has it and a fresh value,
\* set_chip_reset included; only store_port_reset does without the mutex.
FreshInv ==
  /\ \A t \in Threads :
       pc[t] \in GlblPcs \cup {"crGrantStore"} =>
         glblLock = t /\ reg[t] = total_mA_avail
  /\ \A t \in Threads : pc[t] \notin {"reset", "resetStore"}

\* The inductive invariant behind NeverInflated: no thread is in a reset.  A
\* reservation may replace an older one of the same port, which only loses
\* current; what is given back is the whole of device_mA, once.
LeakInv == TypeOK /\ ThreadInv /\ FreshInv /\ NeverInflated

-----------------------------------------------------------------------------
(* The power-on timer.                                                      *)

ResetPcs == {"reset", "resetStore", "resetOff", "cancel", "wait"}

\* Where each thread can be: the stores of power are refused.
AutoInv ==
  /\ mode = "auto"
  /\ pc[Chip] \in ChipPcs
  /\ \A p \in Ports : pc[Worker(p)] \in WorkPcs /\ at[Worker(p)] = p
  /\ \A t \in UserThreads : pc[t] \in {"idle"} \cup ResetPcs

\* A thread that takes a port or gives it back has its mutex.
HeldInv ==
  \A t \in Threads :
    pc[t] \in PortPcs \cup {"resetStore", "resetOff"} => portLock[at[t]] = t

\* The timeouts of a port that have expired and are not decided yet: one may be
\* queued while the worker is about to decide a former one.
Due(p) == (IF pending[p] THEN 1 ELSE 0)
            + (IF pc[Worker(p)] = "run" THEN 1 ELSE 0)

\* cancel_timer has one count for each of them but that of the power-on in
\* progress; and for every one of them if that timeout is still to come, or if no
\* power-on is in progress.
DueInv ==
  \A p \in Ports :
    /\ Due(p) <= cancelTimer[p] + 1
    /\ timer[p] \/ portState[p] = "CLASSIFY" \/ lastEvent[p] # "VTRANS" =>
         Due(p) <= cancelTimer[p]

\* The chip work grants something to a port that is off, and disarms before it
\* takes anything back.
ChipInv ==
  /\ pc[Chip] \in GrantPcs => want[Chip] > 0 /\ portState[at[Chip]] = "CLASSIFY"
  /\ pc[Chip] \in RefundPcs \cup {"release"} =>
       ~timer[at[Chip]] /\ Due(at[Chip]) <= cancelTimer[at[Chip]]

\* A timeout that takes a port back is the last one of that port.
WorkInv ==
  \A p \in Ports :
    pc[Worker(p)] \in RefundPcs \cup {"release"} => ~timer[p] /\ ~pending[p]

\* store_port_reset has given the port's current back and not yet disarmed it.
Resetting(p) == \E t \in UserThreads : at[t] = p /\ pc[t] = "resetOff"

\* An armed timer belongs to the power-on in progress, also while the port is
\* locked.
TimerOwned ==
  \A p \in Ports :
    timer[p] => /\ portState[p] = "MONITOR"
                /\ lastEvent[p] = "VTRANS"
                /\ device_mA[p] > 0 \/ Resetting(p)

\* The inductive invariant of the timer.
TimerInv ==
  TypeOK /\ AutoInv /\ HeldInv /\ DueInv /\ ChipInv /\ WorkInv /\ TimerOwned
=============================================================================
