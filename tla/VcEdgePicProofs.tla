--------------------------- MODULE VcEdgePicProofs ---------------------------
(***************************************************************************)
(* Proofs about VcEdgePic for all delays: the types, and the time for which*)
(* a request to shut down goes unnoticed.  The argument follows `hot'      *)
(* through the places of the code: a look at the pin starts it from 0, and *)
(* in the two loops of a cold reset it grows no faster than cold_reset.    *)
(***************************************************************************)
EXTENDS VcEdgePic, TLAPS

T == PMU_SLP_S45_TIMEOUT

\* Places between a look at the pin and the next delay.
Cool ==
  {"PWR_UP2.slp", "PWR_UP2.pwrgd", "PWR_UP2.slp0", "PWR_UP2.pwrgd0",
   "PWR_UP2.good", "PWR_UP2.wait", "S0_IDLE.slp", "S0_IDLE.sus2",
   "S0_IDLE.slp0", "S0_IDLE.sus20", "S0_IDLE.reset"}
\* Places of the two loops, and those that end them.
InReset == {"reset.slp", "reset.again", "reset.ended", "reset.pwrgd",
            "reset.off", "reset.slp1", "reset.pwrgd0"}
InPower == {"power.pwrgd", "power.slp", "power.again", "power.ended",
            "power.good", "power.slp1"}
\* Places where the pin is looked at next, or never again.
Ends  == {"S0_IDLE", "S0_IDLE.shdn", "cycle", "PWR_DN1", "FAULT"}
Down  == {"PWR_ON", "G3_IDLE", "PWR_UP1", "off"}
Start == {"PWR_UP2", "PWR_UP2.err"}
Loops == {"reset.count", "power", "power.count"}
All   == Cool \cup InReset \cup InPower \cup Ends \cup Down \cup Start \cup Loops

Fields ==
  /\ pc \in All
  /\ left \in 0 .. PwrOnDelay + SupplyDelay
  /\ pins \subseteq Pins
  /\ pc \in Cool \cup InReset \cup InPower \cup Ends \cup {"power"} => left = 0

Flags == first_on \in BOOLEAN /\ cpu_pc \in BOOLEAN /\ ps_on \in BOOLEAN

Counters ==
  /\ cat_err \in 0 .. CAT_ERR_TIMEOUT + 1
  /\ cold_reset \in 0 .. T
  /\ pc \in {"reset.count", "power.count"} => cold_reset < T
  /\ cat_err = CAT_ERR_TIMEOUT + 1 => pc \in {"FAULT", "off"}

\* How long the request may have stood at each place.
Heat ==
  /\ hot \in Nat
  /\ pc \in Cool \cup Down => hot = 0
  /\ pc = "PWR_UP2" => hot + left <= SupplyDelay
  /\ pc = "PWR_UP2.err" => hot + left <= 1
  /\ pc = "reset.count" => hot + left <= cold_reset + 1
  /\ pc \in InReset => hot <= cold_reset
  /\ pc = "power" => hot <= T
  /\ pc = "power.count" => hot + left <= T + cold_reset + 1
  /\ pc \in InPower => hot <= T + cold_reset
  /\ pc \in Ends => hot <= Blind

\* The supplies are off where they are said to be.
Dark == pc \in Down => ~ps_on
\* A pin that is low is not hot.
Cold == "SYS_SHDN_N" \notin pins => hot = 0

----------------------------------------------------------------------------
USE DEF T

LEMMA BlindBounds ==
  /\ Blind \in Nat /\ SupplyDelay <= Blind
  /\ \A n \in Nat : n <= T + T => n <= Blind
BY VcEdgeAssumption DEF Blind

LEMMA AllPlaces == All \subseteq Places
BY DEF All, Cool, InReset, InPower, Ends, Down, Start, Loops, Places, Branches,
       PwrUp2, S0Idle, ColdReset, Branch

\* Where a read of a pin leads.
LEMMA ReadLeads ==
  ASSUME Read
  PROVE  /\ pc \in {"PWR_UP2", "S0_IDLE.shdn"} =>
              IF "SYS_SHDN_N" \in pins THEN pc' = "FAULT" ELSE pc' \in Cool
         /\ pc = "S0_IDLE" => pc' \in {"S0_IDLE.shdn", "FAULT"}
         /\ pc \in Cool => pc' \in Cool \cup {"PWR_UP2", "S0_IDLE", "cycle"}
         /\ pc \in InReset => pc' \in InReset \cup {"S0_IDLE", "power"}
         /\ pc \in InPower => pc' \in InPower \cup {"S0_IDLE", "cycle"}
         /\ pc \in Cool \cup InReset \cup InPower \cup
                   {"PWR_UP2", "S0_IDLE", "S0_IDLE.shdn"}
<1>1. PICK b \in Branches :
        pc = b.at /\ pc' = IF b.pin \in pins THEN b.high ELSE b.low
  BY DEF Read
<1>2. CASE b \in PwrUp2
  BY <1>1, <1>2 DEF PwrUp2, Branch, Cool, InReset, InPower
<1>3. CASE b \in S0Idle
  BY <1>1, <1>3 DEF S0Idle, Branch, Cool, InReset, InPower
<1>4. CASE b \in ColdReset
  BY <1>1, <1>4 DEF ColdReset, Branch, Cool, InReset, InPower
<1>. QED BY <1>2, <1>3, <1>4 DEF Branches

----------------------------------------------------------------------------
\* Every step keeps the fields in their types.
LEMMA FieldsStep == Fields /\ [Next]_vars => Fields'
<1>. SUFFICES ASSUME Fields, [Next]_vars PROVE Fields' OBVIOUS
<1>. USE VcEdgeAssumption
     DEF Fields, All, Cool, InReset, InPower, Ends, Down, Start, Loops
<1>1. CASE Read
  <2>1. pc' \in All /\ pc' \notin Down \cup {"reset.count", "power.count"}
    BY <1>1, ReadLeads DEF Read
  <2>2. left = 0 /\ left' = left /\ UNCHANGED <<sys_vars, ps_on, pins, hot>>
    BY <1>1 DEF Read
  <2>. QED BY <2>1, <2>2 DEF sys_vars
<1>2. CASE PwrOn \/ G3Idle \/ PwrUp1
  BY <1>2 DEF PwrOn, G3Idle, PwrUp1, At, Go, sys_vars
<1>3. CASE PwrUp2Good \/ PwrUp2Wait \/ PwrUp2Err
  BY <1>3 DEF PwrUp2Good, PwrUp2Wait, PwrUp2Err, At, Go, sys_vars
<1>4. CASE ResetLoop
  BY <1>4 DEF ResetLoop, LoopStart, LoopCount, LoopAgain, At, Go, sys_vars
<1>5. CASE PowerLoop
  BY <1>5 DEF PowerLoop, LoopStart, LoopCount, LoopAgain, At, Go, sys_vars
<1>6. CASE ResetOff \/ PowerEnded \/ Cycle
  BY <1>6 DEF ResetOff, PowerEnded, Cycle, At, Go, sys_vars
<1>7. CASE PwrDn1 \/ Fault
  BY <1>7 DEF PwrDn1, Fault, At, sys_vars
<1>8. CASE Second
  <2>1. left > 0 /\ left' = left - 1 /\ UNCHANGED <<pc, sys_vars, ps_on, pins>>
    BY <1>8 DEF Second
  <2>. QED BY <2>1 DEF sys_vars
<1>9. CASE \E pin \in Pins : Toggle(pin)
  BY <1>9 DEF Toggle, sys_vars, Pins
<1>10. CASE UNCHANGED vars BY <1>10 DEF vars, sys_vars
<1>. QED BY <1>1, <1>2, <1>3, <1>4, <1>5, <1>6, <1>7, <1>8, <1>9, <1>10
         DEF Next, Pic

LEMMA FlagsStep == Flags /\ [Next]_vars => Flags'
BY DEF Flags, Next, Pic, Read, PwrOn, G3Idle, PwrUp1, PwrUp2Good, PwrUp2Wait,
       PwrUp2Err, ResetLoop, PowerLoop, LoopStart, LoopCount, LoopAgain,
       ResetOff, PowerEnded, Cycle, PwrDn1, Fault, Second, Toggle, vars,
       sys_vars

\* The counters of the waits stop at their limits.
LEMMA CountersStep == Fields /\ Counters /\ [Next]_vars => Counters'
<1>. SUFFICES ASSUME Fields, Counters, [Next]_vars PROVE Counters' OBVIOUS
<1>. USE VcEdgeAssumption DEF Counters
<1>1. CASE Read
  <2>1. pc \notin {"FAULT", "off"} /\ pc' \notin {"reset.count", "power.count"}
    BY <1>1, ReadLeads DEF Cool, InReset, InPower
  <2>2. UNCHANGED sys_vars BY <1>1 DEF Read
  <2>. QED BY <2>1, <2>2 DEF sys_vars
<1>2. CASE PwrOn \/ G3Idle \/ PwrUp1
  BY <1>2 DEF PwrOn, G3Idle, PwrUp1, At, Go, sys_vars
<1>3. CASE PwrUp2Good \/ PwrUp2Wait
  BY <1>3 DEF PwrUp2Good, PwrUp2Wait, At, Go, sys_vars
<1>4. CASE PwrUp2Err
  BY <1>4 DEF PwrUp2Err, At, Go
<1>5. CASE ResetLoop
  BY <1>5 DEF ResetLoop, LoopStart, LoopCount, LoopAgain, At, Go, sys_vars
<1>6. CASE PowerLoop
  BY <1>6 DEF PowerLoop, LoopStart, LoopCount, LoopAgain, At, Go, sys_vars
<1>7. CASE ResetOff \/ PowerEnded \/ Cycle
  BY <1>7 DEF ResetOff, PowerEnded, Cycle, At, Go, sys_vars
<1>8. CASE PwrDn1 \/ Fault
  BY <1>8 DEF PwrDn1, Fault, At, sys_vars
<1>9. CASE Second \/ \E pin \in Pins : Toggle(pin)
  BY <1>9 DEF Second, Toggle, sys_vars
<1>10. CASE UNCHANGED vars BY <1>10 DEF vars, sys_vars
<1>. QED BY <1>1, <1>2, <1>3, <1>4, <1>5, <1>6, <1>7, <1>8, <1>9, <1>10
         DEF Next, Pic

\* The supplies are switched on in PWR_UP1 only.
LEMMA DarkStep == Fields /\ Dark /\ [Next]_vars => Dark'
<1>. SUFFICES ASSUME Fields, Dark, [Next]_vars PROVE Dark' OBVIOUS
<1>. USE DEF Dark, Down
<1>1. CASE Read
  BY <1>1, ReadLeads DEF Read, Cool, InReset, InPower
<1>2. CASE PwrOn \/ G3Idle \/ PwrUp1
  BY <1>2 DEF PwrOn, G3Idle, PwrUp1, At, Go
<1>3. CASE PwrUp2Good \/ PwrUp2Wait \/ PwrUp2Err
  BY <1>3 DEF PwrUp2Good, PwrUp2Wait, PwrUp2Err, At, Go
<1>4. CASE ResetLoop \/ PowerLoop
  BY <1>4 DEF ResetLoop, PowerLoop, LoopStart, LoopCount, LoopAgain, At, Go
<1>5. CASE ResetOff \/ PowerEnded \/ Cycle
  BY <1>5 DEF ResetOff, PowerEnded, Cycle, At, Go
<1>6. CASE PwrDn1 \/ Fault BY <1>6 DEF PwrDn1, Fault
<1>7. CASE Second \/ \E pin \in Pins : Toggle(pin)
  BY <1>7 DEF Second, Toggle
<1>8. CASE UNCHANGED vars BY <1>8 DEF vars
<1>. QED BY <1>1, <1>2, <1>3, <1>4, <1>5, <1>6, <1>7, <1>8 DEF Next, Pic

\* A change of the pin starts the time anew.
LEMMA ColdStep == Cold /\ [Next]_vars => Cold'
<1>. SUFFICES ASSUME Cold, [Next]_vars PROVE Cold' OBVIOUS
<1>. USE DEF Cold
<1>1. CASE Second BY <1>1 DEF Second
<1>2. ASSUME NEW pin \in Pins, Toggle(pin) PROVE Cold'
  BY <1>2 DEF Toggle
<1>3. CASE PwrDn1 \/ Fault BY <1>3 DEF PwrDn1, Fault
<1>4. CASE UNCHANGED <<pins, hot>> BY <1>4
<1>. QED BY <1>1, <1>2, <1>3, <1>4
         DEF Next, Pic, Read, PwrOn, G3Idle, PwrUp1, PwrUp2Good, PwrUp2Wait,
             PwrUp2Err, ResetLoop, PowerLoop, LoopStart, LoopCount, LoopAgain,
             ResetOff, PowerEnded, Cycle, Go, vars

----------------------------------------------------------------------------
\* No step makes the request stand longer at a place than Heat allows.
LEMMA HeatStep ==
  Fields /\ Counters /\ Dark /\ Cold /\ Heat /\ [Next]_vars => Heat'
<1>. SUFFICES ASSUME Fields, Counters, Dark, Cold, Heat, [Next]_vars
              PROVE  Heat'
  OBVIOUS
<1>. USE VcEdgeAssumption, BlindBounds DEF Heat
<1>0. left \in Nat /\ cold_reset \in Nat /\ cold_reset <= T /\ pc \in All
  BY DEF Fields, Counters
<1>. USE <1>0 DEF Cool, InReset, InPower, Ends, Down
<1>1. CASE Read
  <2>1. left = 0 /\ UNCHANGED <<left, cold_reset, hot>>
    BY <1>1 DEF Read, sys_vars
  <2>2. CASE pc \in {"PWR_UP2", "S0_IDLE.shdn"} /\ "SYS_SHDN_N" \in pins
    BY <1>1, <2>1, <2>2, ReadLeads
  <2>3. CASE pc \in {"PWR_UP2", "S0_IDLE.shdn"} /\ "SYS_SHDN_N" \notin pins
    <3>1. pc' \in Cool BY <1>1, <2>3, ReadLeads
    <3>2. hot = 0 BY <2>3 DEF Cold
    <3>. QED BY <2>1, <3>1, <3>2
  <2>4. CASE pc = "S0_IDLE" BY <1>1, <2>1, <2>4, ReadLeads
  <2>5. CASE pc \in Cool
    <3>1. pc' \in Cool \cup {"PWR_UP2", "S0_IDLE", "cycle"}
      BY <1>1, <2>5, ReadLeads
    <3>. QED BY <2>1, <2>5, <3>1
  <2>6. CASE pc \in InReset
    <3>1. pc' \in InReset \cup {"S0_IDLE", "power"} BY <1>1, <2>6, ReadLeads
    <3>. QED BY <2>1, <2>6, <3>1
  <2>7. CASE pc \in InPower
    <3>1. pc' \in InPower \cup {"S0_IDLE", "cycle"} BY <1>1, <2>7, ReadLeads
    <3>. QED BY <2>1, <2>7, <3>1
  <2>. QED BY <1>1, <2>2, <2>3, <2>4, <2>5, <2>6, <2>7, ReadLeads
<1>2. CASE PwrOn \/ G3Idle \/ PwrUp1
  <2>1. /\ hot' = 0 /\ left' \in Nat /\ cold_reset' = cold_reset
        /\ pc' \in {"G3_IDLE", "PWR_UP1", "PWR_UP2"}
        /\ pc' = "PWR_UP2" => left' = SupplyDelay
    BY <1>2 DEF PwrOn, G3Idle, PwrUp1, At, Go, sys_vars
  <2>2. CASE pc' = "PWR_UP2" BY <2>1, <2>2
  <2>3. CASE pc' # "PWR_UP2" BY <2>1, <2>3
  <2>. QED BY <2>2, <2>3
<1>3. CASE PwrUp2Good \/ PwrUp2Wait \/ PwrUp2Err
  BY <1>3 DEF PwrUp2Good, PwrUp2Wait, PwrUp2Err, At, Go, sys_vars
<1>4. CASE ResetLoop
  BY <1>4 DEF ResetLoop, LoopStart, LoopCount, LoopAgain, At, Go, sys_vars
<1>5. CASE PowerLoop
  BY <1>5 DEF PowerLoop, LoopStart, LoopCount, LoopAgain, At, Go, sys_vars
<1>6. CASE ResetOff \/ PowerEnded \/ Cycle
  BY <1>6 DEF ResetOff, PowerEnded, Cycle, At, Go, sys_vars
<1>7. CASE PwrDn1 \/ Fault
  BY <1>7 DEF PwrDn1, Fault, At, sys_vars
<1>8. CASE Second
  <2>1. left > 0 /\ left' = left - 1 /\ pc' = pc /\ cold_reset' = cold_reset
    BY <1>8 DEF Second, sys_vars
  <2>2. pc \in Down => hot' = hot BY <1>8 DEF Second, Dark
  <2>3. pc \notin Cool \cup InReset \cup InPower \cup Ends \cup {"power"}
    BY <2>1 DEF Fields
  <2>4. CASE hot' = hot BY <2>1, <2>3, <2>4
  <2>5. CASE hot' = hot + 1 /\ pc \notin Down BY <2>1, <2>3, <2>5
  <2>. QED BY <1>8, <2>2, <2>4, <2>5 DEF Second
<1>9. ASSUME NEW pin \in Pins, Toggle(pin) PROVE Heat'
  <2>1. UNCHANGED <<pc, left, cold_reset>> BY <1>9 DEF Toggle, sys_vars
  <2>2. CASE hot' = hot BY <2>1, <2>2
  <2>3. CASE hot' = 0 BY <2>1, <2>3
  <2>. QED BY <1>9, <2>2, <2>3 DEF Toggle
<1>10. CASE UNCHANGED vars BY <1>10 DEF vars, sys_vars
<1>. QED BY <1>1, <1>2, <1>3, <1>4, <1>5, <1>6, <1>7, <1>8, <1>9, <1>10
         DEF Next, Pic

----------------------------------------------------------------------------
Inv == Fields /\ Flags /\ Counters /\ Dark /\ Cold /\ Heat

LEMMA InvHolds == Spec => []Inv
<1>1. Init => Inv
  <2>. SUFFICES ASSUME Init PROVE Inv OBVIOUS
  <2>. USE VcEdgeAssumption DEF Init
  <2>1. Fields
    BY DEF Fields, All, Cool, InReset, InPower, Ends, Down, Start, Loops
  <2>2. Counters BY DEF Counters
  <2>3. Flags /\ Dark /\ Cold BY DEF Flags, Dark, Cold
  <2>4. Heat BY DEF Heat, Cool, InReset, InPower, Ends, Down
  <2>. QED BY <2>1, <2>2, <2>3, <2>4 DEF Inv
<1>2. Inv /\ [Next]_vars => Inv'
  BY FieldsStep, FlagsStep, CountersStep, DarkStep, ColdStep, HeatStep DEF Inv
<1>. QED BY <1>1, <1>2, PTL DEF Spec

\* The variables of main keep their types; the counters stop at their limits.
THEOREM TypeCorrect == Spec => []TypeOK
<1>1. Inv => TypeOK
  BY AllPlaces DEF Inv, Fields, Flags, Counters, Heat, TypeOK
<1>. QED BY <1>1, InvHolds, PTL

\* Whatever the delays and however the pins change, a shutdown that the SoC asks
\* for (_SYS_SHDN_N) is never left alone for longer than the two loops of a cold
\* reset, or the delay after the supplies are switched on.
THEOREM ShutdownNoticed == Spec => []HotBounded
<1>1. Inv => HotBounded
  <2>. SUFFICES ASSUME Inv PROVE HotBounded OBVIOUS
  <2>. USE VcEdgeAssumption, BlindBounds DEF HotBounded
  <2>1. pc \in All /\ left \in Nat /\ cold_reset \in Nat /\ cold_reset <= T
    BY DEF Inv, Fields, Counters
  <2>. QED BY <2>1 DEF Inv, Heat, All, Cool, InReset, InPower, Ends, Down,
                       Start, Loops, Fields, Counters
<1>. QED BY <1>1, InvHolds, PTL

----------------------------------------------------------------------------
\* G3_IDLE has a reason to power up, and so have those that go there.
Reason ==
  /\ pc = "PWR_ON" => first_on
  /\ pc = "PWR_DN1" => cpu_pc
  /\ pc = "G3_IDLE" => first_on \/ cpu_pc

LEMMA ReasonStep == Reason /\ [Next]_vars => Reason'
<1>. SUFFICES ASSUME Reason, [Next]_vars PROVE Reason' OBVIOUS
<1>. USE DEF Reason
<1>1. CASE Read
  <2>1. pc' \notin {"PWR_ON", "PWR_DN1", "G3_IDLE"}
    BY <1>1, ReadLeads DEF Cool, InReset, InPower
  <2>. QED BY <2>1
<1>2. CASE PwrOn \/ G3Idle \/ PwrUp1
  BY <1>2 DEF PwrOn, G3Idle, PwrUp1, At, Go, sys_vars
<1>3. CASE PwrUp2Good \/ PwrUp2Wait \/ PwrUp2Err
  BY <1>3 DEF PwrUp2Good, PwrUp2Wait, PwrUp2Err, At, Go, sys_vars
<1>4. CASE ResetLoop \/ PowerLoop
  BY <1>4 DEF ResetLoop, PowerLoop, LoopStart, LoopCount, LoopAgain, At, Go
<1>5. CASE ResetOff \/ PowerEnded \/ Cycle
  BY <1>5 DEF ResetOff, PowerEnded, Cycle, At, Go
<1>6. CASE PwrDn1 \/ Fault BY <1>6 DEF PwrDn1, Fault, At, sys_vars
<1>7. CASE Second \/ \E pin \in Pins : Toggle(pin)
  BY <1>7 DEF Second, Toggle, sys_vars
<1>8. CASE UNCHANGED vars BY <1>8 DEF vars, sys_vars
<1>. QED BY <1>1, <1>2, <1>3, <1>4, <1>5, <1>6, <1>7, <1>8 DEF Next, Pic

\* The loop is never stuck in G3_IDLE: whatever the SoC and the board do, it comes
\* there with first_on or cpu_pc set, without which the supplies stay off until
\* the mains are cut.
THEOREM NeverStuckIdle == Spec => [](pc = "G3_IDLE" => first_on \/ cpu_pc)
<1>1. Init => Reason BY DEF Init, Reason
<1>2. Reason /\ [Next]_vars => Reason' BY ReasonStep
<1>3. Reason => (pc = "G3_IDLE" => first_on \/ cpu_pc) BY DEF Reason
<1>. QED BY <1>1, <1>2, <1>3, PTL DEF Spec
=============================================================================
