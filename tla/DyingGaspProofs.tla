-------------------------- MODULE DyingGaspProofs --------------------------
(* Proofs about DyingGasp, for every set of processes and number of boots.  *)
EXTENDS DyingGasp, TLAPS

USE GaspAssumption

-----------------------------------------------------------------------------
LEMMA FlagsFact ==
  Len(Flags) = 3 /\ Flags[1] = "loss" /\ Flags[2] = "watchdog" /\ Flags[3] = "reset"
BY DEF Flags

LEMMA FlagsType == \A i \in 1 .. 3 : Flags[i] \in Cmos
BY FlagsFact DEF Cmos

-----------------------------------------------------------------------------
(* Types, and the registration of an open device, in all cases.              *)

\* The type invariant and OpenIsRegistered are inductive together: the first
\* says that whoever holds the device is in Pids.
RegInv == TypeOK /\ OpenIsRegistered

LEMMA RegInit == Init => RegInv
<1> SUFFICES ASSUME Init PROVE RegInv
  OBVIOUS
<1>1. asked \in BOOLEAN  BY DEF Init
<1>2. cmos \in [Cmos -> {0, 1}]  BY DEF Init
<1>3. index \in Cmos /\ attrs \subseteq Cmos  BY DEF Init, Cmos
<1>4. boots \in 1 .. MaxBoots
  <2>1. MaxBoots >= 1 /\ MaxBoots \in Nat  BY DEF GaspAssumption
  <2> QED  BY <2>1 DEF Init
<1>5. gasped \in BOOLEAN /\ tasklet \in BOOLEAN  BY DEF Init
<1>6. /\ boot = "select" /\ flag = 1 /\ nmi = "idle" /\ sysfs = "idle"
      /\ found = None /\ registered = None
      /\ alive = {} /\ holders = {} /\ client = {} /\ owed = {}
  BY DEF Init
<1> QED
  BY <1>1, <1>2, <1>3, <1>4, <1>5, <1>6 DEF RegInv, TypeOK, OpenIsRegistered

LEMMA RegStep == RegInv /\ [Next]_vars => RegInv'
<1> SUFFICES ASSUME RegInv, [Next]_vars PROVE RegInv'
  OBVIOUS
<1> USE DEF RegInv, OpenIsRegistered, TypeOK
<1>1. CASE PowerCycle
  <2>1. boots' \in 1 .. MaxBoots  BY <1>1 DEF PowerCycle
  <2>2. cmos' \in [Cmos -> {0, 1}]  BY <1>1 DEF PowerCycle
  <2>3. asked' \in BOOLEAN  BY <1>1 DEF PowerCycle
  <2>4. index' \in Cmos /\ attrs' \subseteq Cmos
    BY <1>1 DEF PowerCycle, PoweredOn, Cmos
  <2>5. gasped' \in BOOLEAN  BY <1>1 DEF PowerCycle
  <2>6. /\ boot' = "select" /\ flag' = 1 /\ nmi' = "idle" /\ sysfs' = "idle"
        /\ tasklet' \in BOOLEAN /\ found' = None /\ registered' = None
        /\ alive' = {} /\ holders' = {} /\ client' = {} /\ owed' = {}
    BY <1>1 DEF PowerCycle, PoweredOn
  <2> QED  BY <2>1, <2>2, <2>3, <2>4, <2>5, <2>6
<1>2. CASE Boot
  <2> USE DEF unchangedByBoot, cmosVars, ghostVars, procVars, Select, WriteData,
              NextFlag
  <2> USE FlagsFact, FlagsType
  <2>1. CASE BootSelect  BY <2>1 DEF BootSelect
  <2>2. CASE BootRead
    <3>1. gasped' \in BOOLEAN  BY <2>2 DEF BootRead
    <3>2. attrs' \subseteq Cmos  BY <2>2 DEF BootRead
    <3>3. boot' \in {"select", "lock", "up"} /\ flag' \in 1 .. 3
      BY <2>2 DEF BootRead
    <3> QED  BY <2>2, <3>1, <3>2, <3>3 DEF BootRead
  <2>3. CASE BootReselect  BY <2>3 DEF BootReselect
  <2>4. CASE BootClear  BY <2>4 DEF BootClear
  <2> QED  BY <1>2, <2>1, <2>2, <2>3, <2>4 DEF Boot
<1>3. CASE Nmi
  <2> USE DEF unchangedByNmi, cmosVars, bootVars, procVars, NmiStep, Select,
              WriteData, Cmos
  <2>1. CASE NmiRaised  BY <2>1 DEF NmiRaised
  <2>2. CASE NmiWrite  BY <2>2 DEF NmiWrite
  <2>3. CASE NmiReselect  BY <2>3 DEF NmiReselect
  <2>4. CASE NmiHandled  BY <2>4 DEF NmiHandled
  <2> QED  BY <1>3, <2>1, <2>2, <2>3, <2>4 DEF Nmi
<1>4. CASE Tasklet
  <2> USE DEF unchangedByNmi, cmosVars, bootVars, procVars
  <2>1. CASE TaskletLookup  BY <2>1 DEF TaskletLookup
  <2>2. CASE TaskletSignal  BY <2>2 DEF TaskletSignal
  <2> QED  BY <1>4, <2>1, <2>2 DEF Tasklet
<1>5. CASE SysfsAccess
  <2> USE DEF unchangedBySysfs, cmosVars, bootVars, procVars, ghostVars,
              SysfsStep, Select, WriteData, Cmos
  <2>1. CASE ShowSelect  BY <2>1 DEF ShowSelect
  <2>2. CASE ShowRead  BY <2>2 DEF ShowRead
  <2>3. CASE SetSelect  BY <2>3 DEF SetSelect
  <2>4. CASE SetClear  BY <2>4 DEF SetClear
  <2> QED  BY <1>5, <2>1, <2>2, <2>3, <2>4 DEF SysfsAccess
<1>6. CASE Process
  <2> USE DEF unchangedByProc, cmosVars, bootVars, ghostVars
  <2> PICK p \in Pids : \/ Start(p) \/ Open(p) \/ Close(p) \/ Exit(p)
                        \/ \E q \in Pids : Fork(p, q)
    BY <1>6 DEF Process
  <2>1. CASE Start(p)  BY <2>1 DEF Start
  <2>2. CASE Open(p)  BY <2>2 DEF Open
  <2>3. CASE Close(p)  BY <2>3 DEF Close, Release
  <2>4. CASE Exit(p)  BY <2>4 DEF Exit, Release
  <2>5. CASE \E q \in Pids : Fork(p, q)  BY <2>5 DEF Fork
  <2> QED  BY <2>1, <2>2, <2>3, <2>4, <2>5
<1>7. CASE UNCHANGED vars
  BY <1>7 DEF vars, cmosVars, bootVars, procVars, ghostVars
<1> QED
  BY <1>1, <1>2, <1>3, <1>4, <1>5, <1>6, <1>7 DEF Next

\* An open /dev/nmi-vc is always registered, so nmi_vc_open refuses everybody
\* else: whatever the processes, forks, sysfs accesses and early NMIs do.
THEOREM GaspRegistration == Spec => [](TypeOK /\ OpenIsRegistered)
<1>1. Spec => []RegInv
  BY RegInit, RegStep, PTL DEF Spec
<1> QED
  BY <1>1, PTL DEF RegInv

\* Every field of the module keeps a value of its type; the device is only open
\* in running processes, and who is owed a signal still has it open.
THEOREM TypeCorrect == Spec => []TypeOK
  BY GaspRegistration, PTL

-----------------------------------------------------------------------------
(* When nobody else is at the ports, a step that uses the data port has the  *)
(* byte it selected.                                                         *)

LEMMA PortsStep ==
  ASSUME QuietPorts, TypeOK, PortsInv, [Next]_vars PROVE PortsInv'
<1> USE FlagsFact DEF PortsInv, TypeOK
<1>1. CASE PowerCycle
  BY <1>1 DEF PowerCycle, PoweredOn
<1>2. CASE Boot
  <2> USE DEF unchangedByBoot, cmosVars, ghostVars, procVars, Select, WriteData, NextFlag
  <2>1. CASE BootSelect  BY <2>1 DEF BootSelect
  <2>2. CASE BootRead  BY <2>2 DEF BootRead
  <2>3. CASE BootReselect  BY <2>3 DEF BootReselect
  <2>4. CASE BootClear  BY <2>4 DEF BootClear
  <2> QED  BY <1>2, <2>1, <2>2, <2>3, <2>4 DEF Boot
<1>3. CASE Nmi
  <2> USE DEF unchangedByNmi, cmosVars, bootVars, procVars, NmiStep, Select, WriteData
  <2>1. CASE NmiRaised  BY <2>1 DEF NmiRaised, QuietPorts
  <2>2. CASE NmiWrite  BY <2>2 DEF NmiWrite
  <2>3. CASE NmiReselect  BY <2>3 DEF NmiReselect
  <2>4. CASE NmiHandled  BY <2>4 DEF NmiHandled
  <2> QED  BY <1>3, <2>1, <2>2, <2>3, <2>4 DEF Nmi
<1>4. CASE Tasklet
  BY <1>4 DEF Tasklet, TaskletLookup, TaskletSignal, unchangedByNmi, cmosVars, bootVars
<1>5. CASE SysfsAccess
  BY <1>5 DEF SysfsAccess, ShowSelect, ShowRead, SetSelect, SetClear, SysfsStep,
              QuietPorts
<1>6. CASE Process
  <2>1. UNCHANGED <<cmosVars, bootVars, nmi, sysfs, ghostVars>>
    BY <1>6 DEF Process, Start, Fork, Open, Close, Exit, unchangedByProc
  <2> QED  BY <2>1 DEF cmosVars, bootVars, ghostVars
<1>7. CASE UNCHANGED vars
  BY <1>7 DEF vars, cmosVars, bootVars, ghostVars
<1> QED
  BY <1>1, <1>2, <1>3, <1>4, <1>5, <1>6, <1>7 DEF Next

-----------------------------------------------------------------------------
(* The gasp and the factory reset.                                           *)

LEMMA GaspStep ==
  ASSUME QuietPorts, GaspInv, TypeOK', PortsInv', [Next]_vars PROVE GaspInv'
<1> USE FlagsFact DEF GaspInv, GaspKept, PortsInv, TypeOK
<1>1. CASE PowerCycle
  <2>1. cmos'["loss"] = cmos["loss"]  BY <1>1 DEF PowerCycle, Cmos
  <2> QED  BY <1>1, <2>1 DEF PowerCycle, PoweredOn
<1>2. CASE Boot
  <2> USE DEF unchangedByBoot, cmosVars, ghostVars, procVars, Select, WriteData, NextFlag
  <2>1. CASE BootSelect  BY <2>1 DEF BootSelect
  <2>2. CASE BootRead  BY <2>2 DEF BootRead
  <2>3. CASE BootReselect  BY <2>3 DEF BootReselect
  <2>4. CASE BootClear  BY <2>4 DEF BootClear
  <2> QED  BY <1>2, <2>1, <2>2, <2>3, <2>4 DEF Boot
<1>3. CASE Nmi
  <2> USE DEF unchangedByNmi, cmosVars, bootVars, procVars, NmiStep, Select, WriteData
  <2>1. CASE NmiRaised  BY <2>1 DEF NmiRaised, QuietPorts
  <2>2. CASE NmiWrite  BY <2>2 DEF NmiWrite
  <2>3. CASE NmiReselect  BY <2>3 DEF NmiReselect
  <2>4. CASE NmiHandled  BY <2>4 DEF NmiHandled
  <2> QED  BY <1>3, <2>1, <2>2, <2>3, <2>4 DEF Nmi
<1>4. CASE Tasklet
  BY <1>4 DEF Tasklet, TaskletLookup, TaskletSignal, unchangedByNmi, cmosVars, bootVars
<1>5. CASE SysfsAccess
  BY <1>5 DEF SysfsAccess, ShowSelect, ShowRead, SetSelect, SetClear, SysfsStep,
              QuietPorts
<1>6. CASE Process
  <2>1. UNCHANGED <<cmosVars, bootVars, nmi, sysfs, ghostVars>>
    BY <1>6 DEF Process, Start, Fork, Open, Close, Exit, unchangedByProc
  <2> QED  BY <2>1 DEF cmosVars, bootVars, ghostVars
<1>7. CASE UNCHANGED vars
  BY <1>7 DEF vars, cmosVars, bootVars, ghostVars
<1> QED
  BY <1>1, <1>2, <1>3, <1>4, <1>5, <1>6, <1>7 DEF Next

LEMMA ResetStep ==
  ASSUME QuietPorts, ResetInv, TypeOK', PortsInv', [Next]_vars PROVE ResetInv'
<1> USE FlagsFact DEF ResetInv, ResetWasAsked, PortsInv, TypeOK
<1>1. CASE PowerCycle
  BY <1>1 DEF PowerCycle, PoweredOn
<1>2. CASE Boot
  <2> USE DEF unchangedByBoot, cmosVars, ghostVars, procVars, Select, WriteData, NextFlag
  <2>1. CASE BootSelect  BY <2>1 DEF BootSelect
  <2>2. CASE BootRead  BY <2>2 DEF BootRead
  <2>3. CASE BootReselect  BY <2>3 DEF BootReselect
  <2>4. CASE BootClear  BY <2>4 DEF BootClear
  <2> QED  BY <1>2, <2>1, <2>2, <2>3, <2>4 DEF Boot
<1>3. CASE Nmi
  <2> USE DEF unchangedByNmi, cmosVars, bootVars, procVars, NmiStep, Select, WriteData
  <2>1. CASE NmiRaised  BY <2>1 DEF NmiRaised, QuietPorts
  <2>2. CASE NmiWrite  BY <2>2 DEF NmiWrite
  <2>3. CASE NmiReselect  BY <2>3 DEF NmiReselect
  <2>4. CASE NmiHandled  BY <2>4 DEF NmiHandled
  <2> QED  BY <1>3, <2>1, <2>2, <2>3, <2>4 DEF Nmi
<1>4. CASE Tasklet
  BY <1>4 DEF Tasklet, TaskletLookup, TaskletSignal, unchangedByNmi, cmosVars, bootVars
<1>5. CASE SysfsAccess
  BY <1>5 DEF SysfsAccess, ShowSelect, ShowRead, SetSelect, SetClear, SysfsStep,
              QuietPorts
<1>6. CASE Process
  <2>1. UNCHANGED <<cmosVars, bootVars, nmi, sysfs, ghostVars>>
    BY <1>6 DEF Process, Start, Fork, Open, Close, Exit, unchangedByProc
  <2> QED  BY <2>1 DEF cmosVars, bootVars, ghostVars
<1>7. CASE UNCHANGED vars
  BY <1>7 DEF vars, cmosVars, bootVars, ghostVars
<1> QED
  BY <1>1, <1>2, <1>3, <1>4, <1>5, <1>6, <1>7 DEF Next

LEMMA GaspInit == Init => GaspInv /\ ResetInv
<1> SUFFICES ASSUME Init PROVE GaspInv /\ ResetInv
  OBVIOUS
<1>1. TypeOK  BY RegInit DEF RegInv
<1>2. PortsInv  BY DEF Init, PortsInv
<1>3. GaspKept /\ ~gasped  BY DEF Init, GaspKept
<1>4. ResetWasAsked /\ "reset" \notin attrs  BY DEF Init, ResetWasAsked
<1>5. cmos["reset"] = 1 => asked  BY DEF Init
<1>6. boot = "select" /\ nmi = "idle"  BY DEF Init
<1> QED
  BY <1>1, <1>2, <1>3, <1>4, <1>5, <1>6 DEF GaspInv, ResetInv

\* As long as nobody uses reset_factory_default and the power does not fail while
\* ipi_init runs, a gasp that nmi_handler recorded is in the CMOS until a boot
\* reports it, whatever the processes do and however often the power fails.
THEOREM GaspIsKept == ASSUME QuietPorts PROVE Spec => []GaspKept
<1>1. GaspInv /\ TypeOK' /\ [Next]_vars => GaspInv'
  BY PortsStep, GaspStep DEF GaspInv
<1>2. GaspInv => GaspKept
  BY DEF GaspInv
<1> QED
  BY <1>1, <1>2, GaspInit, GaspRegistration, PTL DEF Spec

\* Under the same conditions ipi_init reports a factory reset only at a boot for
\* which the BIOS asked for it.
THEOREM ResetOnlyIfAsked == ASSUME QuietPorts PROVE Spec => []ResetWasAsked
<1>1. ResetInv /\ TypeOK' /\ [Next]_vars => ResetInv'
  BY PortsStep, ResetStep DEF ResetInv
<1>2. ResetInv => ResetWasAsked
  BY DEF ResetInv
<1> QED
  BY <1>1, <1>2, GaspInit, GaspRegistration, PTL DEF Spec

-----------------------------------------------------------------------------
(* The registration, when nobody forks.                                      *)

LEMMA HolderStep ==
  ASSUME Forks = FALSE, HolderInv, TypeOK', [Next]_vars PROVE HolderInv'
<1> USE DEF HolderInv, RegistrantHolds, TypeOK
<1>1. CASE PowerCycle
  BY <1>1 DEF PowerCycle, PoweredOn
<1>2. CASE Boot \/ Nmi \/ Tasklet \/ SysfsAccess
  <2>1. UNCHANGED procVars
    BY <1>2 DEF Boot, BootSelect, BootRead, BootReselect, BootClear,
                unchangedByBoot, Nmi, NmiRaised, NmiWrite, NmiReselect,
                NmiHandled, Tasklet, TaskletLookup, TaskletSignal,
                unchangedByNmi, SysfsAccess, ShowSelect, ShowRead, SetSelect,
                SetClear, unchangedBySysfs
  <2> QED  BY <2>1 DEF procVars
<1>3. CASE Process
  <2> PICK p \in Pids : \/ Start(p) \/ Open(p) \/ Close(p) \/ Exit(p)
                        \/ \E q \in Pids : Fork(p, q)
    BY <1>3 DEF Process
  <2>1. CASE Start(p)  BY <2>1 DEF Start
  <2>2. CASE Open(p)  BY <2>2 DEF Open
  <2>3. CASE Close(p)  BY <2>3 DEF Close, Release
  <2>4. CASE Exit(p)  BY <2>4 DEF Exit, Release
  <2>5. CASE \E q \in Pids : Fork(p, q)  BY <2>5 DEF Fork
  <2> QED  BY <2>1, <2>2, <2>3, <2>4, <2>5
<1>4. CASE UNCHANGED vars
  BY <1>4 DEF vars, procVars
<1> QED
  BY <1>1, <1>2, <1>3, <1>4 DEF Next

LEMMA HolderHolds == ASSUME Forks = FALSE PROVE Spec => []HolderInv
<1>1. Init => HolderInv
  BY RegInit DEF Init, HolderInv, RegInv, RegistrantHolds
<1>2. HolderInv /\ TypeOK' /\ [Next]_vars => HolderInv'
  BY HolderStep
<1> QED
  BY <1>1, <1>2, GaspRegistration, PTL DEF Spec

\* As long as nobody forks with the device open, nmi_vc_close always drops the
\* registration of a process that no longer has it: whoever wants the device
\* next can open it.
THEOREM RegistrantHasDevice ==
  ASSUME Forks = FALSE PROVE Spec => []RegistrantHolds
<1>1. HolderInv => RegistrantHolds
  BY DEF HolderInv
<1> QED
  BY <1>1, HolderHolds, PTL

\* do_vc_dg_task picks nobody but a process that has opened /dev/nmi-vc itself,
\* in whatever order clients open, close and exit, pids are given again, gasps
\* are handled and the tasklet runs.
THEOREM OnlyClientsSignalled == ASSUME Forks = FALSE PROVE Spec => SignalsClient
<1>1. HolderInv /\ [Next]_vars
        => [found' # None /\ found' # found => found' \in client]_vars
  <2> SUFFICES ASSUME HolderInv, Next, found' # None, found' # found
               PROVE  found' \in client
    OBVIOUS
  <2>1. TaskletLookup
    BY DEF Next, PowerCycle, PoweredOn, Boot, BootSelect, BootRead, BootReselect,
           BootClear, unchangedByBoot, Nmi, NmiRaised, NmiWrite, NmiReselect,
           NmiHandled, Tasklet, TaskletSignal, SysfsAccess, ShowSelect, ShowRead,
           SetSelect, SetClear, unchangedBySysfs, Process, Start, Open, Close,
           Exit, Fork
  <2> QED  BY <2>1 DEF TaskletLookup, HolderInv, RegistrantHolds
<1> QED
  BY <1>1, HolderHolds, PTL DEF Spec, SignalsClient
=============================================================================
