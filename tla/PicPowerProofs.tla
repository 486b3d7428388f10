--------------------------- MODULE PicPowerProofs ---------------------------
(***************************************************************************)
(* Theorems about PicPower: types, the order of the signals, the timer     *)
(* shared by the waiting states, and the minimal power off time, for every *)
(* debounce time, watchdog times, requests and faults.                     *)
(***************************************************************************)
EXTENDS PicPower, TLAPS

\* The two halves of TypeOK: the counters, and everything else.
Counters ==
  /\ swdt \in 0..MaxSwdt
  /\ swdt_cnt \in 0..CntMax
  /\ rstdeb \in 0..Debounce - 1

Modes ==
  /\ pc \in Pcs
  /\ pstate \in States
  /\ nstate \in {"OK", "RESET_ASSERT", "COLD_RESET", "TURN_OFF"}
  /\ pcycle \in {"NOT", "NOW", "CR"}
  /\ timer \in Durations \cup {"stopped", "expired"}
  /\ cur \in BOOLEAN
  /\ push \in BOOLEAN
  /\ out \subseteq Signals
  /\ in \subseteq Inputs
  /\ rested \in BOOLEAN

LEMMA TypeHalves == TypeOK <=> Counters /\ Modes
BY DEF TypeOK, Counters, Modes

\* A state that is only entered once a signal is up finds it up, and the wait
\* after a cold reset never ends over supplies that are off.
SignalsUp ==
  /\ (pstate = "RSMRST_DELAY" /\ timer = "expired") => "PSON" \in out
  /\ pstate = "WAIT_PMUSLP" => "RSMRST" \in out
  /\ pstate = "CLKPWRGD_DELAY" => "RSMRST" \in out
  /\ pstate = "COREPWR_DELAY" => "CLKPWRGD" \in out

\* While the system rests only PSTATE_MIN_OFF is counted, with the supplies off,
\* and once the system may be turned on it has rested.
RestInv ==
  /\ pstate = "MINOFF" => /\ "PSON" \notin out
                          /\ timer = "MIN_OFF" \/ (timer = "expired" /\ rested)
  /\ pstate \in {"OFF", "TURN_ON"} => rested

PowerInv == TypeOK /\ SignalOrder /\ SignalsUp /\ TimedWait /\ RestInv

-----------------------------------------------------------------------------

\* The state that main sets up before its loop satisfies the invariant.
LEMMA PowerInit == Init => PowerInv
<1> SUFFICES ASSUME Init PROVE PowerInv
  OBVIOUS
<1>1. Counters
  BY PicAssumption DEF PicAssumption, Init, Counters
<1>2. Modes
  BY DEF Init, Modes, Pcs, States, Starting
<1>3. SignalOrder /\ SignalsUp /\ TimedWait /\ RestInv
  BY DEF Init, SignalOrder, SignalsUp, TimedWait, TimedStates, RestInv
<1> QED
  BY <1>1, <1>2, <1>3, TypeHalves DEF PowerInv

\* Every step keeps the counters within their bounds.
LEMMA CountersNext ==
  ASSUME Counters, [Next]_vars
  PROVE  Counters'
<1> USE PicAssumption DEF PicAssumption, Counters, vars, watchdog, button_vars
<1>1. CASE ButtonIdle \/ \E held \in BOOLEAN : ButtonSample(held)
  <2>1. rstdeb' \in {0, 1} \/ rstdeb' = rstdeb
        \/ (rstdeb' = rstdeb + 1 /\ rstdeb + 1 < Debounce)
    BY <1>1 DEF ButtonIdle, ButtonSample
  <2>2. swdt' = swdt /\ swdt_cnt' = swdt_cnt
    BY <1>1 DEF ButtonIdle, ButtonSample
  <2> QED
    BY <2>1, <2>2
<1>2. CASE TurnOff \/ MinOff \/ Off \/ TurnOn \/ WaitPwrgd \/ PwrgdStable
  BY <1>2 DEF TurnOff, MinOff, Off, TurnOn, WaitPwrgd, PwrgdStable
<1>3. CASE RsmrstDelay \/ WaitPmuSlp \/ ClkpwrgdDelay \/ CorepwrDelay
           \/ ResetAssert \/ ResetDelay
  BY <1>3 DEF RsmrstDelay, WaitPmuSlp, ClkpwrgdDelay, CorepwrDelay, ResetAssert,
              ResetDelay
<1>4. CASE Watchdog \/ \E tick \in BOOLEAN : Running(tick)
  BY <1>4 DEF Running, Watchdog, Count
<1>5. CASE ColdReset \/ SlpCrDelay \/ Wait
  BY <1>5 DEF ColdReset, SlpCrDelay, Wait
<1>6. CASE MonitorFail \/ MonitorSleep \/ MonitorOK \/ Request \/ Clear
  BY <1>6 DEF MonitorFail, MonitorSleep, MonitorOK, Request, Clear
<1>7. CASE Host
  BY <1>7 DEF Host, PstSet, SwdtSet
<1>8. CASE Board
  BY <1>8 DEF Board, TimerExpires, PwrgdRises, PwrgdFalls, PmuSlpRises,
              PmuSlpFalls, ThermTrips, ThermRecovers, Level, PicReset
<1>9. CASE UNCHANGED vars
  BY <1>9
<1> QED
  BY <1>1, <1>2, <1>3, <1>4, <1>5, <1>6, <1>7, <1>8, <1>9
     DEF Next, Main, PowerFsm

\* Every step keeps the types of the rest of the state.
LEMMA ModesNext ==
  ASSUME Modes, [Next]_vars
  PROVE  Modes'
<1> USE DEF Modes, vars, watchdog, button_vars, Pcs, Enter, Fail, Start,
      TakeExpiry, AtState, Durations, States, Starting, Sequencing, AwakeStates,
      Powered, Signals, Inputs
<1>1. CASE ButtonIdle \/ \E held \in BOOLEAN : ButtonSample(held)
  <2>1. cur' \in BOOLEAN /\ push' \in BOOLEAN
    BY <1>1, Zenon DEF ButtonIdle, ButtonSample
  <2>2. /\ pc' = "power"
        /\ UNCHANGED <<pstate, nstate, pcycle, timer, out, in, rested>>
    BY <1>1, Zenon DEF ButtonIdle, ButtonSample
  <2> QED
    BY <2>1, <2>2
<1>2. CASE TurnOff \/ MinOff \/ Off \/ TurnOn
  <2>1. CASE TurnOff
    BY <2>1 DEF TurnOff
  <2>2. CASE MinOff
    BY <2>2 DEF MinOff
  <2>3. CASE Off
    BY <2>3 DEF Off
  <2>4. CASE TurnOn
    BY <2>4 DEF TurnOn, PowerGoods
  <2> QED
    BY <1>2, <2>1, <2>2, <2>3, <2>4
<1>3. CASE WaitPwrgd \/ PwrgdStable \/ RsmrstDelay \/ WaitPmuSlp
  <2>1. CASE WaitPwrgd
    BY <2>1 DEF WaitPwrgd
  <2>2. CASE PwrgdStable
    BY <2>2 DEF PwrgdStable
  <2>3. CASE RsmrstDelay
    BY <2>3 DEF RsmrstDelay
  <2>4. CASE WaitPmuSlp
    BY <2>4 DEF WaitPmuSlp
  <2> QED
    BY <1>3, <2>1, <2>2, <2>3, <2>4
<1>4. CASE ClkpwrgdDelay \/ CorepwrDelay \/ ResetAssert \/ ResetDelay
  <2>1. CASE ClkpwrgdDelay
    BY <2>1 DEF ClkpwrgdDelay
  <2>2. CASE CorepwrDelay
    BY <2>2 DEF CorepwrDelay
  <2>3. CASE ResetAssert
    BY <2>3 DEF ResetAssert
  <2>4. CASE ResetDelay
    BY <2>4 DEF ResetDelay
  <2> QED
    BY <1>4, <2>1, <2>2, <2>3, <2>4
<1>5. CASE Watchdog \/ \E tick \in BOOLEAN : Running(tick)
  <2>1. /\ push' = FALSE /\ pc' = "monitor"
        /\ UNCHANGED <<nstate, timer, cur, out, in, rested>>
    BY <1>5, Zenon DEF Running, Watchdog
  <2>2. CASE Watchdog
    <3>1. pstate' \in {"TURN_OFF", "COLD_RESET"} /\ pcycle' \in {"NOW", pcycle}
      BY <2>2, SMTT(30) DEF Watchdog
    <3>2. pcycle' \in {"NOT", "NOW", "CR"}
      BY <3>1, SMTT(30)
    <3> QED
      BY <2>1, <3>1, <3>2
  <2>3. CASE \E tick \in BOOLEAN : Running(tick)
    <3>1. pstate' \in {"COLD_RESET", "RUNNING"} /\ pcycle' = pcycle
      BY <2>3, SMTT(30) DEF Running
    <3> QED
      BY <2>1, <3>1
  <2> QED
    BY <1>5, <2>2, <2>3
<1>6. CASE ColdReset
  BY <1>6 DEF ColdReset, PowerGoods
<1>7. CASE SlpCrDelay
  BY <1>7 DEF SlpCrDelay
<1>8. CASE Wait
  BY <1>8 DEF Wait
<1>9. CASE MonitorFail \/ MonitorSleep
  <2>1. CASE MonitorFail
    BY <2>1 DEF MonitorFail
  <2>2. CASE MonitorSleep
    BY <2>2 DEF MonitorSleep
  <2> QED
    BY <1>9, <2>1, <2>2
<1>10. CASE MonitorOK
  BY <1>10 DEF MonitorOK
<1>11. CASE Request \/ Clear
  <2>1. CASE Request
    BY <2>1 DEF Request
  <2>2. CASE Clear
    BY <2>2 DEF Clear
  <2> QED
    BY <1>11, <2>1, <2>2
<1>12. CASE Host
  BY <1>12 DEF Host, PstSet, SwdtSet
<1>13. CASE TimerExpires
  BY <1>13 DEF TimerExpires
<1>14. CASE PwrgdRises \/ PwrgdFalls \/ PmuSlpRises \/ PmuSlpFalls
            \/ ThermTrips \/ ThermRecovers
  <2>1. PICK i \in Inputs, high \in BOOLEAN : Level(i, high)
    BY <1>14, Zenon DEF PwrgdRises, PwrgdFalls, PmuSlpRises, PmuSlpFalls,
                        ThermTrips, ThermRecovers
  <2>2. in' \subseteq Inputs
    BY <2>1 DEF Level
  <2>3. UNCHANGED <<pc, pstate, nstate, pcycle, timer, cur, push, out, rested>>
    BY <2>1 DEF Level
  <2> QED
    BY <2>2, <2>3
<1>15. CASE PicReset
  BY <1>15 DEF PicReset
<1>16. CASE UNCHANGED vars
  BY <1>16
<1> QED
  BY <1>1, <1>2, <1>3, <1>4, <1>5, <1>6, <1>7, <1>8, <1>9, <1>10, <1>11, <1>12,
     <1>13, <1>14, <1>15, <1>16
     DEF Next, Main, PowerFsm, Board

-----------------------------------------------------------------------------

\* The power state machine keeps the order of the signals and the timer: one
\* case per state.
LEMMA SignalsNext ==
  ASSUME TypeOK, SignalOrder, SignalsUp, TimedWait, [Next]_vars
  PROVE  SignalOrder' /\ SignalsUp' /\ TimedWait'
<1> USE DEF TypeOK, SignalOrder, SignalsUp, TimedWait, TimedStates, Enter, Fail,
      Start, TakeExpiry, AtState
<1>1. CASE ButtonIdle \/ \E held \in BOOLEAN : ButtonSample(held)
  <2> UNCHANGED <<pstate, timer, out>>
    BY <1>1, Zenon DEF ButtonIdle, ButtonSample
  <2> QED
    OBVIOUS
<1>2. CASE TurnOff
  BY <1>2 DEF TurnOff
<1>3. CASE MinOff
  BY <1>3 DEF MinOff
<1>4. CASE Off
  BY <1>4 DEF Off
<1>5. CASE TurnOn
  BY <1>5 DEF TurnOn, PowerGoods
<1>6. CASE WaitPwrgd \/ PwrgdStable
  BY <1>6 DEF WaitPwrgd, PwrgdStable
<1>7. CASE RsmrstDelay
  BY <1>7 DEF RsmrstDelay
<1>8. CASE WaitPmuSlp
  BY <1>8 DEF WaitPmuSlp
<1>9. CASE ClkpwrgdDelay
  BY <1>9 DEF ClkpwrgdDelay
<1>10. CASE CorepwrDelay
  BY <1>10 DEF CorepwrDelay
<1>11. CASE ResetAssert \/ ResetDelay
  BY <1>11 DEF ResetAssert, ResetDelay
<1>12. CASE Watchdog \/ \E tick \in BOOLEAN : Running(tick)
  <2>1. out' = out /\ pstate' \in {"TURN_OFF", "COLD_RESET", "RUNNING"}
    BY <1>12 DEF Running, Watchdog
  <2> QED
    BY <2>1
<1>13. CASE ColdReset
  BY <1>13 DEF ColdReset, PowerGoods
<1>14. CASE SlpCrDelay
  BY <1>14 DEF SlpCrDelay
<1>15. CASE Wait
  BY <1>15 DEF Wait
<1>16. CASE MonitorFail \/ MonitorSleep
  BY <1>16 DEF MonitorFail, MonitorSleep
<1>17. CASE MonitorOK \/ Clear \/ Host
  <2> UNCHANGED <<pstate, timer, out>>
    BY <1>17, Zenon DEF MonitorOK, Clear, Host, PstSet, SwdtSet
  <2> QED
    OBVIOUS
<1>18. CASE Request
  BY <1>18 DEF Request
<1>19. CASE TimerExpires
  BY <1>19 DEF TimerExpires, Settled, Powered, Sequencing
<1>20. CASE PwrgdRises \/ PwrgdFalls \/ PmuSlpRises \/ PmuSlpFalls
            \/ ThermTrips \/ ThermRecovers
  <2> UNCHANGED <<pstate, timer, out>>
    BY <1>20 DEF PwrgdRises, PwrgdFalls, PmuSlpRises, PmuSlpFalls, ThermTrips,
                 ThermRecovers, Level
  <2> QED
    OBVIOUS
<1>21. CASE PicReset
  BY <1>21 DEF PicReset
<1>22. CASE UNCHANGED vars
  BY <1>22 DEF vars
<1> QED
  BY <1>1, <1>2, <1>3, <1>4, <1>5, <1>6, <1>7, <1>8, <1>9, <1>10, <1>11, <1>12,
     <1>13, <1>14, <1>15, <1>16, <1>17, <1>18, <1>19, <1>20, <1>21, <1>22
     DEF Next, Main, PowerFsm, Board

-----------------------------------------------------------------------------

\* Every step keeps the rest of the supplies, and only TurnOn ends it.
LEMMA RestNext ==
  ASSUME TypeOK, TimedWait, RestInv, [Next]_vars
  PROVE  /\ RestInv'
         /\ ("PSON" \notin out /\ "PSON" \in out') => rested
<1> USE DEF TypeOK, TimedWait, TimedStates, RestInv, Enter, Fail, Start,
      TakeExpiry, AtState
<1>1. CASE ButtonIdle \/ \E held \in BOOLEAN : ButtonSample(held)
  <2> UNCHANGED <<pstate, timer, out, rested>>
    BY <1>1, Zenon DEF ButtonIdle, ButtonSample
  <2> QED
    OBVIOUS
<1>2. CASE TurnOff
  BY <1>2 DEF TurnOff
<1>3. CASE MinOff
  BY <1>3 DEF MinOff
<1>4. CASE Off
  BY <1>4 DEF Off
<1>5. CASE TurnOn
  BY <1>5 DEF TurnOn, PowerGoods
<1>6. CASE WaitPwrgd \/ PwrgdStable \/ WaitPmuSlp
  BY <1>6 DEF WaitPwrgd, PwrgdStable, WaitPmuSlp
<1>7. CASE RsmrstDelay \/ ClkpwrgdDelay \/ CorepwrDelay
  BY <1>7 DEF RsmrstDelay, ClkpwrgdDelay, CorepwrDelay
<1>8. CASE ResetAssert \/ ResetDelay
  BY <1>8 DEF ResetAssert, ResetDelay
<1>9. CASE Watchdog \/ \E tick \in BOOLEAN : Running(tick)
  <2>1. out' = out /\ pstate' \in {"TURN_OFF", "COLD_RESET", "RUNNING"}
    BY <1>9 DEF Running, Watchdog
  <2> QED
    BY <2>1
<1>10. CASE ColdReset \/ SlpCrDelay
  BY <1>10 DEF ColdReset, SlpCrDelay, PowerGoods
<1>11. CASE Wait
  BY <1>11 DEF Wait
<1>12. CASE MonitorFail \/ MonitorSleep
  BY <1>12 DEF MonitorFail, MonitorSleep
<1>13. CASE MonitorOK \/ Clear \/ Host
  <2> UNCHANGED <<pstate, timer, out, rested>>
    BY <1>13, Zenon DEF MonitorOK, Clear, Host, PstSet, SwdtSet
  <2> QED
    OBVIOUS
<1>14. CASE Request
  BY <1>14 DEF Request
<1>15. CASE TimerExpires
  BY <1>15 DEF TimerExpires
<1>16. CASE PwrgdRises \/ PwrgdFalls \/ PmuSlpRises \/ PmuSlpFalls
            \/ ThermTrips \/ ThermRecovers
  <2> UNCHANGED <<pstate, timer, out, rested>>
    BY <1>16 DEF PwrgdRises, PwrgdFalls, PmuSlpRises, PmuSlpFalls, ThermTrips,
                 ThermRecovers, Level
  <2> QED
    OBVIOUS
<1>17. CASE PicReset
  BY <1>17 DEF PicReset
<1>18. CASE UNCHANGED vars
  BY <1>18 DEF vars
<1> QED
  BY <1>1, <1>2, <1>3, <1>4, <1>5, <1>6, <1>7, <1>8, <1>9, <1>10, <1>11, <1>12,
     <1>13, <1>14, <1>15, <1>16, <1>17, <1>18
     DEF Next, Main, PowerFsm, Board

LEMMA PowerNext == PowerInv /\ [Next]_vars => PowerInv'
<1> SUFFICES ASSUME PowerInv, [Next]_vars PROVE PowerInv'
  OBVIOUS
<1>1. TypeOK'
  <2>1. Counters'
    BY TypeHalves, CountersNext DEF PowerInv
  <2>2. Modes'
    BY TypeHalves, ModesNext DEF PowerInv
  <2> QED
    BY <2>1, <2>2 DEF TypeOK, Counters, Modes
<1>2. SignalOrder' /\ SignalsUp' /\ TimedWait'
  BY SignalsNext DEF PowerInv
<1>3. RestInv'
  BY RestNext DEF PowerInv
<1> QED
  BY <1>1, <1>2, <1>3 DEF PowerInv

\* The invariant holds in every state of the loop, the interrupts and the board.
THEOREM PowerInvariant == Spec => []PowerInv
BY PowerInit, PowerNext, PTL DEF Spec

\* The firmware's variables keep their types: in particular, the trigger counter
\* of swdt_fsm and the debounce counter of rstbtn_fsm never overflow.
THEOREM Typing == Spec => []TypeOK
BY PowerInvariant, PTL DEF PowerInv

\* No request, failure or sleep makes power_fsm raise a signal over one that is
\* down.
THEOREM SignalsInOrder == Spec => []SignalOrder
BY PowerInvariant, PTL DEF PowerInv

\* No state of power_fsm waits for a timer that is stopped.
THEOREM NoEndlessWait == Spec => []TimedWait
BY PowerInvariant, PTL DEF PowerInv

\* The supplies are off for PSTATE_MIN_OFF before power_fsm switches them on.
THEOREM SuppliesRest == Spec => MinOffTime
<1>1. PowerInv /\ [Next]_vars
      => [("PSON" \notin out /\ "PSON" \in out') => rested]_vars
  BY RestNext DEF PowerInv
<1> QED
  BY <1>1, PowerInvariant, PTL DEF Spec, MinOffTime
=============================================================================
