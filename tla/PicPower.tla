------------------------------ MODULE PicPower ------------------------------
(***************************************************************************)
(* The power and reset microcontroller of the Edge 510 (edge510-pic/pic.c):*)
(* the polling main loop with its reset-button and power state machines,   *)
(* and the interrupt handler that takes the host's reset and watchdog      *)
(* requests between any two of the loop's steps.                           *)
(*                                                                         *)
(* The LED, the reset cause (rstate), the counters of thermal trips and of *)
(* the time the button is held are only reported and left out.             *)
(***************************************************************************)
EXTENDS Integers, FiniteSets

CONSTANTS
  Debounce,     \* RSTBTN_DEB, in ticks of TMR6 (20 in the code)
  MaxSwdt,      \* the largest watchdog time, in ticks of TMR4
  SwdtDefaults, \* what swdt_init may find in the EEPROM; 0 is off
  CntMax,       \* where swdt_cnt saturates (0xff in the code)
  Requests,     \* the values that the host writes to I2C_PST_SET
  Faults,       \* inputs that may go bad on their own: PWRGD, PMU_SLP, THMTRIP
  PicResets     \* the PIC may be reset (its own watchdog, MCLR, brown-out)

HostRequests == {"RESET_WARM", "RESET_COLD", "POWER_OFF", "POWER_CYCLE",
                 "POWER_CYCLE_CR"}
Inputs == {"PWRGD", "PMU_SLP", "THMTRIP"}
Signals == {"PSON", "RSMRST", "CLKPWRGD", "COREPWR", "PICRST"}

ASSUME PicAssumption ==
  /\ Debounce \in Nat \ {0, 1}
  /\ MaxSwdt \in Nat \ {0}
  /\ SwdtDefaults \subseteq 0..MaxSwdt
  /\ SwdtDefaults # {}
  /\ CntMax \in Nat \ {0}
  /\ Requests \subseteq HostRequests
  /\ Faults \subseteq Inputs
  /\ PicResets \in BOOLEAN

VARIABLES
  pc,       \* where the main loop is
  pstate,   \* the state of power_fsm
  nstate,   \* the state requested by the host, "OK" for none
  pcycle,   \* the power cycle flag
  timer,    \* TMR1: "stopped", "expired", or the time it is counting
  swdt,     \* system watchdog, in ticks
  swdt_cnt, \* its triggers since the host last set it
  cur,      \* rstbtn.cur: the button as last sampled
  push,     \* rstbtn.push: a push nobody has acted on yet
  rstdeb,   \* debounce counter
  out,      \* the output pins that are active; PICRST: the reset is asserted
  in,       \* the input pins that are high
  rested    \* ghost: the supplies have been off for PSTATE_MIN_OFF, or main
            \* has just been entered, which turns on without regard to that

button_vars == <<cur, push, rstdeb>>
watchdog == <<swdt, swdt_cnt>>
vars == <<pc, pstate, nstate, pcycle, timer, watchdog, button_vars, out, in,
          rested>>

Pcs == {"button", "power", "monitor", "request", "clear"}

\* power_fsm checks the supplies and the thermal trip from PST_RSMRST_DELAY on,
\* and PMU_SLP from PST_CLKPWRGD_DELAY on; the lists are in the enum's order.
Starting == {"TURN_OFF", "MINOFF", "OFF", "TURN_ON", "WAIT_PWRGD",
             "PWRGD_STABLE"}
Sequencing == {"RSMRST_DELAY", "WAIT_PMUSLP"}
AwakeStates == {"CLKPWRGD_DELAY", "COREPWR_DELAY", "RESET_ASSERT",
                "RESET_DELAY", "RUNNING", "COLD_RESET"}
Powered == Sequencing \cup AwakeStates \cup {"SLP_CR_DELAY"}
States == Starting \cup Powered

Durations == {"MIN_OFF", "PWRGD_TO", "PWRGD_STABLE", "RSMRST_DELAY",
              "PMUSLP_TO", "CLKPWRGD_DELAY", "COREPWR_DELAY", "RESET_DELAY",
              "RSMRST_ASSERT", "SLP_CR_DELAY"}

-----------------------------------------------------------------------------

\* The state main leaves when it enters its loop.  The power-on also stands for
\* the first supply of the board, which has rested.
Init ==
  /\ pc = "button"
  /\ pstate = "TURN_ON"
  /\ nstate = "OK"
  /\ pcycle = "NOT"
  /\ timer = "stopped"
  /\ swdt = 0
  /\ swdt_cnt = 0
  /\ cur = FALSE
  /\ push = FALSE
  /\ rstdeb = 0
  /\ out = {}
  /\ in = {}
  /\ rested = TRUE

-----------------------------------------------------------------------------
(* rstbtn_fsm.                                                             *)

\* TMR6 has not ticked, or the tick falls into the debounce period.
ButtonIdle ==
  /\ pc = "button"
  /\ \/ UNCHANGED rstdeb
     \/ /\ rstdeb > 0
        /\ rstdeb + 1 < Debounce
        /\ rstdeb' = rstdeb + 1
  /\ pc' = "power"
  /\ UNCHANGED <<pstate, nstate, pcycle, timer, watchdog, cur, push, out, in,
                 rested>>

\* The button is sampled, held or not; a push or a release starts the debounce
\* period.
ButtonSample(held) ==
  /\ pc = "button"
  /\ rstdeb = 0 \/ rstdeb + 1 >= Debounce
  /\ cur' = held
  /\ push' = (push \/ (held /\ ~cur))
  /\ rstdeb' = IF held # cur THEN 1 ELSE 0
  /\ pc' = "power"
  /\ UNCHANGED <<pstate, nstate, pcycle, timer, watchdog, out, in, rested>>

-----------------------------------------------------------------------------
(* power_fsm: one action per case, then the checks at its end.             *)

AtState(s) == pc = "power" /\ pstate = s

\* pst_start, and pst_expired when it returns 1.
Start(d) == timer' = d
TakeExpiry == timer = "expired" /\ timer' = "stopped"

\* The case leaves the state machine in state s and goes on to the checks.
Enter(s) == pstate' = s /\ pc' = "monitor"

\* What a cold reset and a power-on take away.  Variant: the clock stays good.
PowerGoodsButClock == {"RSMRST", "COREPWR"}
PowerGoods == {"RSMRST", "CLKPWRGD", "COREPWR"}

\* fail_pst: the checks are skipped.
Fail == pstate' = "TURN_OFF" /\ pc' = "request"

TurnOff ==
  /\ AtState("TURN_OFF")
  /\ out' = {}
  /\ Start("MIN_OFF")
  /\ Enter("MINOFF")
  /\ rested' = (rested /\ "PSON" \notin out)
  /\ UNCHANGED <<nstate, pcycle, watchdog, button_vars, in>>

\* Variant: a push of the button ends the wait.
MinOffPushed ==
  /\ AtState("MINOFF")
  /\ TakeExpiry \/ (push /\ UNCHANGED timer)
  /\ Enter("OFF")
  /\ UNCHANGED <<nstate, pcycle, watchdog, button_vars, out, in, rested>>

MinOff ==
  /\ AtState("MINOFF")
  /\ TakeExpiry
  /\ Enter("OFF")
  /\ UNCHANGED <<nstate, pcycle, watchdog, button_vars, out, in, rested>>

\* Variant: the power cycle is forgotten.
OffForgets ==
  /\ AtState("OFF")
  /\ Enter(IF push THEN "TURN_ON" ELSE "OFF")
  /\ pcycle' = "NOT"
  /\ UNCHANGED <<nstate, timer, watchdog, button_vars, out, in, rested>>

Off ==
  /\ AtState("OFF")
  /\ Enter(IF push \/ pcycle = "NOW" THEN "TURN_ON" ELSE "OFF")
  /\ pcycle' = "NOT"
  /\ UNCHANGED <<nstate, timer, watchdog, button_vars, out, in, rested>>

TurnOn ==
  /\ AtState("TURN_ON")
  /\ out' = (out \ PowerGoods) \cup {"PSON"}
  /\ push' = FALSE
  /\ Start("PWRGD_TO")
  /\ Enter("WAIT_PWRGD")
  /\ UNCHANGED <<nstate, pcycle, watchdog, cur, rstdeb, in, rested>>

WaitPwrgd ==
  /\ AtState("WAIT_PWRGD")
  /\ \/ /\ "PWRGD" \in in
        /\ Start("PWRGD_STABLE")
        /\ Enter("PWRGD_STABLE")
     \/ /\ "PWRGD" \notin in
        /\ TakeExpiry
        /\ Fail
  /\ UNCHANGED <<nstate, pcycle, watchdog, button_vars, out, in, rested>>

PwrgdStable ==
  /\ AtState("PWRGD_STABLE")
  /\ \/ /\ timer = "expired"
        /\ Start("RSMRST_DELAY")
        /\ Enter("RSMRST_DELAY")
     \/ /\ timer # "expired"
        /\ "PWRGD" \notin in
        /\ Enter("WAIT_PWRGD")
        /\ UNCHANGED timer
  /\ UNCHANGED <<nstate, pcycle, watchdog, button_vars, out, in, rested>>

RsmrstDelay ==
  /\ AtState("RSMRST_DELAY")
  /\ timer = "expired"
  /\ out' = out \cup {"RSMRST"}
  /\ Start("PMUSLP_TO")
  /\ Enter("WAIT_PMUSLP")
  /\ UNCHANGED <<nstate, pcycle, watchdog, button_vars, in, rested>>

WaitPmuSlp ==
  /\ AtState("WAIT_PMUSLP")
  /\ \/ /\ TakeExpiry
        /\ Fail
     \/ /\ timer # "expired"
        /\ "PMU_SLP" \in in
        /\ Start("CLKPWRGD_DELAY")
        /\ Enter("CLKPWRGD_DELAY")
  /\ UNCHANGED <<nstate, pcycle, watchdog, button_vars, out, in, rested>>

ClkpwrgdDelay ==
  /\ AtState("CLKPWRGD_DELAY")
  /\ timer = "expired"
  /\ out' = out \cup {"CLKPWRGD"}
  /\ Start("COREPWR_DELAY")
  /\ Enter("COREPWR_DELAY")
  /\ UNCHANGED <<nstate, pcycle, watchdog, button_vars, in, rested>>

CorepwrDelay ==
  /\ AtState("COREPWR_DELAY")
  /\ TakeExpiry
  /\ out' = out \cup {"COREPWR"}
  /\ swdt' \in SwdtDefaults
  /\ Enter("RUNNING")
  /\ UNCHANGED <<nstate, pcycle, swdt_cnt, button_vars, in, rested>>

ResetAssert ==
  /\ AtState("RESET_ASSERT")
  /\ out' = out \cup {"PICRST"}
  /\ Start("RESET_DELAY")
  /\ Enter("RESET_DELAY")
  /\ UNCHANGED <<nstate, pcycle, watchdog, button_vars, in, rested>>

ResetDelay ==
  /\ AtState("RESET_DELAY")
  /\ TakeExpiry
  /\ out' = out \ {"PICRST"}
  /\ swdt' \in SwdtDefaults
  /\ Enter("RUNNING")
  /\ UNCHANGED <<nstate, pcycle, swdt_cnt, button_vars, in, rested>>

\* The watchdog has not run down: a push of the button is a cold reset.
\* tick: swdt_fsm finds TMR4 expired.
Running(tick) ==
  /\ AtState("RUNNING")
  /\ ~(tick /\ swdt = 1)
  /\ Enter(IF push THEN "COLD_RESET" ELSE "RUNNING")
  /\ push' = FALSE
  /\ swdt' = IF tick /\ swdt > 0 THEN swdt - 1 ELSE swdt
  /\ UNCHANGED <<nstate, pcycle, timer, swdt_cnt, cur, rstdeb, out, in,
                 rested>>

\* The triggers are counted up to CntMax.  Variant: without end.
CountOn(n) == n + 1
Count(n) == IF n < CntMax THEN n + 1 ELSE n

\* The watchdog triggers: a cold reset the first time, then power cycles.
Watchdog ==
  /\ AtState("RUNNING")
  /\ swdt = 1
  /\ swdt' = 0
  /\ push' = FALSE
  /\ IF swdt_cnt > 0
     THEN Enter("TURN_OFF") /\ pcycle' = "NOW"
     ELSE Enter("COLD_RESET") /\ UNCHANGED pcycle
  /\ swdt_cnt' = Count(swdt_cnt)
  /\ UNCHANGED <<nstate, timer, cur, rstdeb, out, in, rested>>

ColdReset ==
  /\ AtState("COLD_RESET")
  /\ out' = out \ PowerGoods
  /\ Start("RSMRST_ASSERT")
  /\ Enter("RSMRST_DELAY")
  /\ UNCHANGED <<nstate, pcycle, watchdog, button_vars, in, rested>>

\* PMU_SLP came back, which is a cold reset or a power cycle if the host asked
\* for one, or it stayed low, which is a power-off.
SlpCrDelay ==
  /\ AtState("SLP_CR_DELAY")
  /\ \/ /\ "PMU_SLP" \in in
        /\ pcycle = "CR"
        /\ pcycle' = "NOW"
        /\ Enter("TURN_OFF")
        /\ UNCHANGED timer
     \/ /\ "PMU_SLP" \in in
        /\ pcycle # "CR"
        /\ Enter("COLD_RESET")
        /\ UNCHANGED <<timer, pcycle>>
     \/ /\ "PMU_SLP" \notin in
        /\ TakeExpiry
        /\ Enter("TURN_OFF")
        /\ UNCHANGED pcycle
  /\ UNCHANGED <<nstate, watchdog, button_vars, out, in, rested>>

\* What the case of a waiting state waits for has not come.
Waiting ==
  \/ pstate \in {"MINOFF", "RSMRST_DELAY", "CLKPWRGD_DELAY", "COREPWR_DELAY",
                 "RESET_DELAY"}
  \/ pstate = "WAIT_PWRGD" /\ "PWRGD" \notin in
  \/ pstate = "PWRGD_STABLE" /\ "PWRGD" \in in
  \/ pstate \in {"WAIT_PMUSLP", "SLP_CR_DELAY"} /\ "PMU_SLP" \notin in

Wait ==
  /\ pc = "power"
  /\ Waiting
  /\ timer # "expired"
  /\ Enter(pstate)
  /\ UNCHANGED <<nstate, pcycle, timer, watchdog, button_vars, out, in,
                 rested>>

PowerFsm ==
  \/ TurnOff \/ MinOff \/ Off \/ TurnOn \/ WaitPwrgd \/ PwrgdStable
  \/ RsmrstDelay \/ WaitPmuSlp \/ ClkpwrgdDelay \/ CorepwrDelay
  \/ ResetAssert \/ ResetDelay \/ Running(TRUE) \/ Running(FALSE) \/ Watchdog
  \/ ColdReset \/ SlpCrDelay \/ Wait

\* A thermal trip or a loss of the supplies.  Variant: the latter only.
BrokenSupply == "PWRGD" \notin in
Broken == "THMTRIP" \in in \/ "PWRGD" \notin in

MonitorFail ==
  /\ pc = "monitor"
  /\ pstate \in Powered
  /\ Broken
  /\ Fail
  /\ UNCHANGED <<nstate, pcycle, timer, watchdog, button_vars, out, in,
                 rested>>

\* Variant: the timer is not started.
MonitorSleepUntimed ==
  /\ pc = "monitor"
  /\ pstate \in AwakeStates
  /\ ~Broken
  /\ "PMU_SLP" \notin in
  /\ pstate' = "SLP_CR_DELAY"
  /\ pc' = "request"
  /\ UNCHANGED <<nstate, pcycle, timer, watchdog, button_vars, out, in, rested>>

\* The host goes to sleep or off.
MonitorSleep ==
  /\ pc = "monitor"
  /\ pstate \in AwakeStates
  /\ ~Broken
  /\ "PMU_SLP" \notin in
  /\ Start("SLP_CR_DELAY")
  /\ pstate' = "SLP_CR_DELAY"
  /\ pc' = "request"
  /\ UNCHANGED <<nstate, pcycle, watchdog, button_vars, out, in, rested>>

MonitorOK ==
  /\ pc = "monitor"
  /\ pstate \in Powered => ~Broken
  /\ pstate \in AwakeStates => "PMU_SLP" \in in
  /\ pc' = "request"
  /\ UNCHANGED <<pstate, nstate, pcycle, timer, watchdog, button_vars, out, in,
                 rested>>

-----------------------------------------------------------------------------
(* The rest of the main loop: the state that the host requested, which is  *)
(* cleared in a step of its own.                                           *)

Request ==
  /\ pc = "request"
  /\ IF nstate = "OK"
     THEN pc' = "button" /\ UNCHANGED pstate
     ELSE pc' = "clear" /\ pstate' = nstate
  /\ UNCHANGED <<nstate, pcycle, timer, watchdog, button_vars, out, in,
                 rested>>

Clear ==
  /\ pc = "clear"
  /\ nstate' = "OK"
  /\ pc' = "button"
  /\ UNCHANGED <<pstate, pcycle, timer, watchdog, button_vars, out, in,
                 rested>>

Main ==
  \/ ButtonIdle \/ ButtonSample(TRUE) \/ ButtonSample(FALSE)
  \/ PowerFsm
  \/ MonitorFail \/ MonitorSleep \/ MonitorOK
  \/ Request \/ Clear

-----------------------------------------------------------------------------
(* The interrupt handler: i2c_exec of I2C_PST_SET and I2C_SWDT_SET.  Only   *)
(* the host is a master of the bus, and it runs when it is out of reset.    *)

HostUp == out = {"PSON", "RSMRST", "CLKPWRGD", "COREPWR"}

PstSet(r) ==
  /\ HostUp
  /\ nstate' = CASE r = "RESET_WARM" -> "RESET_ASSERT"
                 [] r = "RESET_COLD" -> "COLD_RESET"
                 [] r \in {"POWER_OFF", "POWER_CYCLE"} -> "TURN_OFF"
                 [] OTHER -> nstate
  /\ pcycle' = CASE r = "POWER_CYCLE" -> "NOW"
                 [] r = "POWER_CYCLE_CR" -> "CR"
                 [] OTHER -> pcycle
  /\ UNCHANGED <<pc, pstate, timer, watchdog, button_vars, out, in, rested>>

SwdtSet(v) ==
  /\ HostUp
  /\ swdt' = v
  /\ swdt_cnt' = 0
  /\ UNCHANGED <<pc, pstate, nstate, pcycle, timer, button_vars, out, in,
                 rested>>

Host == (\E r \in Requests : PstSet(r)) \/ (\E v \in 0..MaxSwdt : SwdtSet(v))

-----------------------------------------------------------------------------
(* The board: TMR1, the inputs, and resets of the PIC.                     *)

\* The supplies are down and the loop has seen it long before the times that
\* power_fsm counts from there, which are of 100 ms and more.
Settled == "PSON" \notin out => "PWRGD" \notin in /\ pstate \notin Powered

TimerExpires ==
  /\ timer \in Durations
  /\ Settled
  /\ timer' = "expired"
  /\ rested' = (rested \/ (timer = "MIN_OFF" /\ "PSON" \notin out))
  /\ UNCHANGED <<pc, pstate, nstate, pcycle, watchdog, button_vars, out, in>>

Level(i, high) ==
  /\ in' = IF high THEN in \cup {i} ELSE in \ {i}
  /\ UNCHANGED <<pc, pstate, nstate, pcycle, timer, watchdog, button_vars, out,
                 rested>>

PwrgdRises == "PWRGD" \notin in /\ "PSON" \in out /\ Level("PWRGD", TRUE)
PwrgdFalls ==
  /\ "PWRGD" \in in
  /\ "PSON" \notin out \/ "PWRGD" \in Faults
  /\ Level("PWRGD", FALSE)
PmuSlpRises ==
  /\ "PMU_SLP" \notin in
  /\ {"PSON", "RSMRST"} \subseteq out
  /\ Level("PMU_SLP", TRUE)
PmuSlpFalls ==
  /\ "PMU_SLP" \in in
  /\ ~({"PSON", "RSMRST"} \subseteq out) \/ "PMU_SLP" \in Faults
  /\ Level("PMU_SLP", FALSE)
ThermTrips ==
  /\ "THMTRIP" \notin in
  /\ "PSON" \in out
  /\ "THMTRIP" \in Faults
  /\ Level("THMTRIP", TRUE)
ThermRecovers ==
  /\ "THMTRIP" \in in
  /\ "PSON" \notin out
  /\ Level("THMTRIP", FALSE)

\* main again, from any place: the outputs are switched off and the system is
\* turned on.
PicReset ==
  /\ PicResets
  /\ pc' = "button"
  /\ pstate' = "TURN_ON"
  /\ nstate' = "OK"
  /\ pcycle' = "NOT"
  /\ timer' = "stopped"
  /\ swdt' = 0
  /\ swdt_cnt' = 0
  /\ cur' = FALSE
  /\ push' = FALSE
  /\ rstdeb' = 0
  /\ out' = {}
  /\ rested' = TRUE
  /\ UNCHANGED in

Board ==
  \/ TimerExpires
  \/ PwrgdRises \/ PwrgdFalls \/ PmuSlpRises \/ PmuSlpFalls
  \/ ThermTrips \/ ThermRecovers
  \/ PicReset

-----------------------------------------------------------------------------

Next == Main \/ Host \/ Board

Spec == Init /\ [][Next]_vars

\* The loop never blocks, a timer that runs expires, and a supply that is
\* switched off goes down.
FairSpec ==
  /\ Spec
  /\ WF_vars(Main)
  /\ WF_vars(TimerExpires)
  /\ WF_vars(PwrgdFalls /\ "PSON" \notin out)

-----------------------------------------------------------------------------
(* Properties.                                                             *)

TypeOK ==
  /\ pc \in Pcs
  /\ pstate \in States
  /\ nstate \in {"OK", "RESET_ASSERT", "COLD_RESET", "TURN_OFF"}
  /\ pcycle \in {"NOT", "NOW", "CR"}
  /\ timer \in Durations \cup {"stopped", "expired"}
  /\ swdt \in 0..MaxSwdt
  /\ swdt_cnt \in 0..CntMax
  /\ cur \in BOOLEAN
  /\ push \in BOOLEAN
  /\ rstdeb \in 0..Debounce - 1
  /\ out \subseteq Signals
  /\ in \subseteq Inputs
  /\ rested \in BOOLEAN

\* The power goods and the resume reset follow each other and the supplies, in
\* this order ("assert resets first, then take away power goods", PST_TURN_OFF):
\* wherever a host's request takes the state machine, no state raises a signal
\* over one that is down.
SignalOrder ==
  /\ "COREPWR" \in out => "CLKPWRGD" \in out
  /\ "CLKPWRGD" \in out => "RSMRST" \in out
  /\ "RSMRST" \in out => "PSON" \in out

TimedStates == {"MINOFF", "WAIT_PWRGD", "PWRGD_STABLE", "RSMRST_DELAY",
                "WAIT_PMUSLP", "CLKPWRGD_DELAY", "COREPWR_DELAY",
                "RESET_DELAY", "SLP_CR_DELAY"}

\* A state that waits for the timer never waits for a stopped one, although the
\* states share TMR1, the expiry stops it, and requests, failures and sleeps of
\* the host move the state machine in the middle of any wait.
TimedWait == pstate \in TimedStates => timer # "stopped"

\* The supplies are never switched on before they were off for the minimal power
\* off time (PSTATE_MIN_OFF), whatever is requested or pushed meanwhile.  The
\* power-on of a PIC that was reset is the exception.
MinOffTime == [][("PSON" \notin out /\ "PSON" \in out') => rested]_vars

\* From PST_RSMRST_DELAY on, a thermal trip switches the supplies off, and so does
\* a loss of PWRGD unless it comes back ("if thermtrip ever goes active, power
\* off hard", power_fsm), although a request of the host may replace the
\* PST_TURN_OFF that the failure asked for.
FaultsPowerOff ==
  /\ ("THMTRIP" \in in /\ pstate \in Powered) ~> "PSON" \notin out
  /\ ("PWRGD" \notin in /\ pstate \in Powered)
       ~> ("PWRGD" \in in \/ "PSON" \notin out)

\* A system that is being switched off for a power cycle, or whose button is
\* pushed meanwhile, is turned on again (PST_OFF: "power back on if power cycle
\* reset").
PowerReturns ==
  (pstate = "MINOFF" /\ (push \/ pcycle = "NOW")) ~> pstate = "TURN_ON"
=============================================================================
