------------------------------ MODULE VcEdgePic ------------------------------
(***************************************************************************)
(* The power sequencer of the Edges with a PIC12 (rccvepic12.c): one loop  *)
(* that polls four pins, switches the supplies and waits in between.  Every*)
(* pin is read when the code reads it, so that it may change between two   *)
(* reads of one decision.  A place of the code is named for its state and, *)
(* within a state, for what is read or done there.                         *)
(***************************************************************************)
EXTENDS Integers

CONSTANTS
  PwrOnDelay,          \* seconds of the delays: 2,
  SupplyDelay,         \* 6,
  PMU_SLP_S45_TIMEOUT, \* 10 for the SoC to come back,
  CAT_ERR_TIMEOUT      \* and 180 for it to start

ASSUME VcEdgeAssumption ==
  /\ PwrOnDelay \in Nat \ {0} /\ SupplyDelay \in Nat \ {0}
  /\ PMU_SLP_S45_TIMEOUT \in Nat \ {0} /\ CAT_ERR_TIMEOUT \in Nat

VARIABLES
  pc,         \* the place in the code
  left,       \* seconds left of a delay
  first_on, cpu_pc, cat_err, cold_reset, \* as in main
  ps_on,      \* _ATX_PS_ON
  pins,       \* the input pins that are high
  hot         \* ghost: for how long the SoC has asked for a shutdown with the
              \* supplies on

sys_vars == <<first_on, cpu_pc, cat_err, cold_reset>>
vars == <<pc, left, sys_vars, ps_on, pins, hot>>

Pins == {"SUS2", "PWRGD", "SLP_N", "SYS_SHDN_N"}

\* A read of a pin and where the code goes from there.
Branch(p, pin, high, low) == [at |-> p, pin |-> pin, high |-> high, low |-> low]

PwrUp2 ==
  {Branch("PWR_UP2",     "SYS_SHDN_N", "FAULT",     "PWR_UP2.slp"),
   Branch("PWR_UP2.slp", "SLP_N", "PWR_UP2.pwrgd",  "PWR_UP2.slp0"),
   Branch("PWR_UP2.pwrgd", "PWRGD", "PWR_UP2.good", "PWR_UP2.slp0"),
   Branch("PWR_UP2.slp0",  "SLP_N", "PWR_UP2.pwrgd0", "PWR_UP2.wait"),
   Branch("PWR_UP2.pwrgd0", "PWRGD", "PWR_UP2",     "PWR_UP2.wait")}

\* Variants: without the check of _SYS_SHDN_N.
S0Unguarded ==
  {Branch("S0_IDLE",       "PWRGD", "S0_IDLE.slp", "FAULT"),
   Branch("S0_IDLE.slp",   "SLP_N", "S0_IDLE",     "S0_IDLE.sus2"),
   Branch("S0_IDLE.sus2",  "SUS2",  "S0_IDLE.reset", "S0_IDLE.slp0"),
   Branch("S0_IDLE.slp0",  "SLP_N", "S0_IDLE",     "S0_IDLE.sus20"),
   Branch("S0_IDLE.sus20", "SUS2",  "S0_IDLE",     "cycle")}
S0Idle ==
  {Branch("S0_IDLE",       "PWRGD", "S0_IDLE.shdn", "FAULT"),
   Branch("S0_IDLE.shdn",  "SYS_SHDN_N", "FAULT",  "S0_IDLE.slp"),
   Branch("S0_IDLE.slp",   "SLP_N", "S0_IDLE.slp0", "S0_IDLE.sus2"),
   Branch("S0_IDLE.sus2",  "SUS2",  "S0_IDLE.reset", "S0_IDLE.slp0"),
   Branch("S0_IDLE.slp0",  "SLP_N", "S0_IDLE",     "S0_IDLE.sus20"),
   Branch("S0_IDLE.sus20", "SUS2",  "S0_IDLE",     "cycle")}

\* The wait for _PIC_SLP_N, then the wait for _PWRGD_COREPWR.
ColdReset ==
  {Branch("reset.slp",    "SLP_N", "reset.ended",  "reset.again"),
   Branch("reset.ended",  "SLP_N", "reset.slp1",   "reset.pwrgd"),
   Branch("reset.pwrgd",  "PWRGD", "reset.slp1",   "reset.off"),
   Branch("reset.slp1",   "SLP_N", "reset.pwrgd0", "S0_IDLE"),
   Branch("reset.pwrgd0", "PWRGD", "S0_IDLE",      "power"),
   Branch("power.pwrgd",  "PWRGD", "power.ended",  "power.slp"),
   Branch("power.slp",    "SLP_N", "power.again",  "power.ended"),
   Branch("power.good",   "PWRGD", "power.slp1",   "cycle"),
   Branch("power.slp1",   "SLP_N", "S0_IDLE",      "cycle")}

Branches == PwrUp2 \cup S0Idle \cup ColdReset

Places ==
  {"PWR_ON", "G3_IDLE", "PWR_UP1", "PWR_UP1.on", "PWR_UP2.good", "PWR_UP2.wait",
   "PWR_UP2.err", "S0_IDLE.reset", "reset.count", "reset.again", "reset.off",
   "power", "power.count", "power.again", "power.ended", "cycle", "FAULT",
   "PWR_DN1", "off"}
  \cup {b.at : b \in Branches}

TypeOK ==
  /\ pc \in Places
  /\ left \in 0 .. PwrOnDelay + SupplyDelay
  /\ first_on \in BOOLEAN /\ cpu_pc \in BOOLEAN
  /\ cat_err \in 0 .. CAT_ERR_TIMEOUT + 1
  /\ cold_reset \in 0 .. PMU_SLP_S45_TIMEOUT
  /\ ps_on \in BOOLEAN
  /\ pins \subseteq Pins
  /\ hot \in Nat

Init ==
  /\ pc = "PWR_ON" /\ left = PwrOnDelay
  /\ first_on = TRUE /\ cpu_pc = FALSE /\ cat_err = 0 /\ cold_reset = 0
  /\ ps_on = FALSE /\ pins = {} /\ hot = 0

-----------------------------------------------------------------------------

\* At place p, after its delay; the code goes on at q, after n seconds.
At(p) == pc = p /\ left = 0
Go(q, n) == pc' = q /\ left' = n /\ UNCHANGED <<pins, hot>>

Read ==
  /\ left = 0
  /\ \E b \in Branches :
       /\ pc = b.at
       /\ pc' = IF b.pin \in pins THEN b.high ELSE b.low
  /\ UNCHANGED <<left, sys_vars, ps_on, pins, hot>>

PwrOn ==
  /\ At("PWR_ON")
  /\ Go("G3_IDLE", 0)
  /\ UNCHANGED <<sys_vars, ps_on>>

\* Without a reason to power up, G3_IDLE is for ever.
G3Idle ==
  /\ At("G3_IDLE")
  /\ first_on \/ cpu_pc
  /\ first_on' = FALSE /\ cpu_pc' = FALSE
  /\ Go("PWR_UP1", 0)
  /\ UNCHANGED <<cat_err, cold_reset, ps_on>>

PwrUp1 ==
  /\ At("PWR_UP1")
  /\ ps_on' = TRUE
  /\ Go("PWR_UP2", SupplyDelay)
  /\ UNCHANGED sys_vars

PwrUp2Good ==
  /\ At("PWR_UP2.good")
  /\ cat_err' = 0
  /\ Go("S0_IDLE", 0)
  /\ UNCHANGED <<first_on, cpu_pc, cold_reset, ps_on>>

PwrUp2Wait ==
  /\ At("PWR_UP2.wait")
  /\ Go("PWR_UP2.err", 1)
  /\ UNCHANGED <<sys_vars, ps_on>>

\* Variant: the errors of the start are not counted.
PwrUp2ErrUncounted ==
  /\ At("PWR_UP2.err")
  /\ Go("PWR_UP2", 0)
  /\ UNCHANGED <<sys_vars, ps_on>>
PwrUp2Err ==
  /\ At("PWR_UP2.err")
  /\ cat_err' = cat_err + 1
  /\ Go(IF cat_err + 1 > CAT_ERR_TIMEOUT THEN "FAULT" ELSE "PWR_UP2", 0)
  /\ UNCHANGED <<first_on, cpu_pc, cold_reset, ps_on>>

\* The two do loops of a cold reset: "reset" waits for SLP_N, "power" for PWRGD.
LoopStart(from, count) ==
  /\ At(from)
  /\ cold_reset' = 0
  /\ Go(count, 1)
  /\ UNCHANGED <<first_on, cpu_pc, cat_err, ps_on>>

LoopCount(count, test) ==
  /\ At(count)
  /\ cold_reset' = cold_reset + 1
  /\ Go(test, 0)
  /\ UNCHANGED <<first_on, cpu_pc, cat_err, ps_on>>

\* Variant: one second more.
LoopAgainOver(again, count, end) ==
  /\ At(again)
  /\ IF cold_reset <= PMU_SLP_S45_TIMEOUT THEN Go(count, 1) ELSE Go(end, 0)
  /\ UNCHANGED <<sys_vars, ps_on>>
LoopAgain(again, count, end) ==
  /\ At(again)
  /\ IF cold_reset < PMU_SLP_S45_TIMEOUT THEN Go(count, 1) ELSE Go(end, 0)
  /\ UNCHANGED <<sys_vars, ps_on>>

ResetLoop ==
  \/ LoopStart("S0_IDLE.reset", "reset.count")
  \/ LoopCount("reset.count", "reset.slp")
  \/ LoopAgain("reset.again", "reset.count", "reset.ended")

PowerLoop ==
  \/ LoopStart("power", "power.count")
  \/ LoopCount("power.count", "power.pwrgd")
  \/ LoopAgain("power.again", "power.count", "power.ended")

\* SLP_N and PWRGD are low: a request to switch off if the time was up.
ResetOff ==
  /\ At("reset.off")
  /\ Go(IF cold_reset >= PMU_SLP_S45_TIMEOUT THEN "FAULT" ELSE "reset.slp1", 0)
  /\ UNCHANGED <<sys_vars, ps_on>>

PowerEnded ==
  /\ At("power.ended")
  /\ Go(IF cold_reset < PMU_SLP_S45_TIMEOUT THEN "power.good" ELSE "cycle", 0)
  /\ UNCHANGED <<sys_vars, ps_on>>

\* Variant: the power-on that ends the cycle is not requested.
CycleForgotten ==
  /\ At("cycle")
  /\ Go("PWR_DN1", 0)
  /\ UNCHANGED <<sys_vars, ps_on>>
Cycle ==
  /\ At("cycle")
  /\ cpu_pc' = TRUE
  /\ Go("PWR_DN1", 0)
  /\ UNCHANGED <<first_on, cat_err, cold_reset, ps_on>>

PwrDn1 ==
  /\ At("PWR_DN1")
  /\ ps_on' = FALSE
  /\ pc' = "G3_IDLE" /\ left' = SupplyDelay
  /\ hot' = 0
  /\ UNCHANGED <<sys_vars, pins>>

Fault ==
  /\ At("FAULT")
  /\ ps_on' = FALSE
  /\ pc' = "off"
  /\ hot' = 0
  /\ UNCHANGED <<left, sys_vars, pins>>

\* A second of a delay.
Second ==
  /\ left > 0
  /\ left' = left - 1
  /\ hot' = IF ps_on /\ "SYS_SHDN_N" \in pins THEN hot + 1 ELSE hot
  /\ UNCHANGED <<pc, sys_vars, ps_on, pins>>

Pic ==
  \/ Read \/ PwrOn \/ G3Idle \/ PwrUp1 \/ PwrUp2Good \/ PwrUp2Wait \/ PwrUp2Err
  \/ ResetLoop \/ ResetOff \/ PowerLoop \/ PowerEnded \/ Cycle \/ PwrDn1 \/ Fault
  \/ Second

\* The board changes a pin at any time.
Toggle(pin) ==
  /\ pins' = IF pin \in pins THEN pins \ {pin} ELSE pins \cup {pin}
  /\ hot' = IF pin = "SYS_SHDN_N" THEN 0 ELSE hot
  /\ UNCHANGED <<pc, left, sys_vars, ps_on>>

Next == Pic \/ \E pin \in Pins : Toggle(pin)

\* The PIC12 runs one loop without interrupts.
Spec == Init /\ [][Next]_vars /\ WF_vars(Pic)

-----------------------------------------------------------------------------
\* Properties.

\* A shutdown that the SoC keeps asking for switches the supplies off, within
\* the longest time that the loop does not look at the pin.
Blind == IF 2 * PMU_SLP_S45_TIMEOUT > SupplyDelay THEN 2 * PMU_SLP_S45_TIMEOUT
                                                  ELSE SupplyDelay
HotBounded == hot <= Blind
ShutdownIsFinal == <>[]("SYS_SHDN_N" \in pins) => <>[](~ps_on)

\* A power cycle powers up again: whoever goes to PWR_DN1 has set cpu_pc, without
\* which G3_IDLE is for ever.
IdleComesBack == pc = "G3_IDLE" ~> ps_on

\* A SoC that never starts is given up.
DeadSoCGivenUp ==
  <>[](pins \cap {"SLP_N", "PWRGD"} = {}) => <>[](~ps_on)
=============================================================================
