----------------------------- MODULE DyingGasp -----------------------------
(* The "dying gasp" of the Edge 520/540, velocloud-nmi.c in                 *)
(* 444-vc-board.patch.  The power supply raises an NMI when it is about to  *)
(* fail.  The NMI handler sets a flag in the CMOS RAM, which the next boot  *)
(* reports as the sysfs attribute dg_pwr_loss, and schedules a tasklet that *)
(* sends SIGPWR to the process that has /dev/nmi-vc open.                   *)
(*                                                                          *)
(* The CMOS is reached through an index and a data port: every read or      *)
(* write of a CMOS byte is two steps, and whoever writes the index between  *)
(* them redirects the second.  rtc_lock does not keep the NMI handler out,  *)
(* nor the reads.                                                           *)
EXTENDS Naturals, Sequences

CONSTANTS
  Pids,      \* process ids
  None,      \* vc_registered_pid = -1
  Forks,     \* TRUE: processes fork and share what they have open
  Sysfs,     \* TRUE: somebody reads and writes reset_factory_default
  EarlyNmi,  \* TRUE: the power may fail while the module is initialised
  MaxBoots   \* bound on the number of boots

ASSUME GaspAssumption ==
  /\ None \notin Pids
  /\ {Forks, Sysfs, EarlyNmi} \subseteq BOOLEAN
  /\ MaxBoots \in Nat \ {0}

\* CMOS bytes 0x12, 0x11 and 0x10, in the order ipi_init reads them.
Flags == <<"loss", "watchdog", "reset">>
Cmos == {"loss", "watchdog", "reset"}

VARIABLES
  cmos,        \* the CMOS bytes: 0 or 1; they survive a power cycle
  index,       \* the CMOS byte the index port selects
  boot,        \* how far ipi_init is
  flag,        \* the place in Flags of the byte ipi_init is at
  attrs,       \* the sysfs attributes ipi_init created
  nmi,         \* how far the NMI handler is
  sysfs,       \* how far the access to reset_factory_default is
  tasklet,     \* vc_dg_bh is scheduled
  found,       \* the task do_vc_dg_task is about to signal
  registered,  \* vc_registered_pid
  alive,       \* pids of the running processes
  holders,     \* processes that share the open /dev/nmi-vc
  client,      \* ghost: processes that have opened /dev/nmi-vc
  boots,       \* boots so far
  gasped,      \* ghost: a gasp was handled and not reported yet
  asked,       \* ghost: the BIOS asked for a factory reset at this boot
  owed         \* ghost: clients to be signalled for a gasp handled

cmosVars == <<cmos, index>>
bootVars == <<boot, flag, attrs>>
procVars == <<registered, alive, holders, client>>
ghostVars == <<boots, gasped, asked>>
vars == <<cmosVars, bootVars, nmi, sysfs, tasklet, found, procVars, ghostVars,
          owed>>

Select(byte) == index' = byte
WriteData(value) == cmos' = [cmos EXCEPT ![index] = value]

\* rtc_lock is held from the selection to the write.
RtcFree == boot # "clear" /\ sysfs # "clear"

-----------------------------------------------------------------------------
(* Power on: the BIOS may have asked for a factory reset, or report a        *)
(* watchdog reset.  What was in memory is gone.                              *)

PoweredOn ==
  /\ boot' = "select" /\ flag' = 1 /\ attrs' = {}
  /\ nmi' = "idle" /\ sysfs' = "idle"
  /\ tasklet' = FALSE /\ found' = None
  /\ registered' = None /\ alive' = {} /\ holders' = {} /\ client' = {}
  /\ owed' = {}
  /\ index' = "reset"

Init ==
  /\ cmos \in [Cmos -> {0, 1}] /\ cmos["loss"] = 0
  /\ asked = (cmos["reset"] = 1)
  /\ index = "reset"
  /\ boot = "select" /\ flag = 1 /\ attrs = {}
  /\ nmi = "idle" /\ sysfs = "idle"
  /\ tasklet = FALSE /\ found = None
  /\ registered = None /\ alive = {} /\ holders = {} /\ client = {}
  /\ owed = {}
  /\ boots = 1 /\ gasped = FALSE

PowerCycle ==
  /\ boots < MaxBoots
  /\ boots' = boots + 1
  /\ PoweredOn
  /\ \E set \in SUBSET {"watchdog", "reset"} :
       /\ cmos' = [b \in Cmos |-> IF b \in set THEN 1 ELSE cmos[b]]
       /\ asked' = ((asked /\ "reset" \notin attrs) \/ "reset" \in set)
  /\ UNCHANGED gasped

-----------------------------------------------------------------------------
(* ipi_init: from where the NMI handler is registered.  Each flag is read,   *)
(* and if it is set the flag is cleared and an attribute created: for the    *)
(* power loss before the flag is cleared, for the others after it.           *)

NextFlag ==
  IF flag < Len(Flags) THEN boot' = "select" /\ flag' = flag + 1
                       ELSE boot' = "up" /\ UNCHANGED flag

unchangedByBoot == <<nmi, sysfs, tasklet, found, procVars, owed>>

BootSelect ==
  /\ boot = "select"
  /\ Select(Flags[flag])
  /\ boot' = "read"
  /\ UNCHANGED <<cmos, flag, attrs, ghostVars, unchangedByBoot>>

BootRead ==
  /\ boot = "read"
  /\ IF cmos[index] = 1
       THEN /\ attrs' = attrs \cup ({Flags[flag]} \cap {"loss"})
            /\ gasped' = (gasped /\ Flags[flag] # "loss")
            /\ boot' = "lock" /\ UNCHANGED flag
       ELSE NextFlag /\ UNCHANGED <<attrs, gasped>>
  /\ UNCHANGED <<cmosVars, boots, asked, unchangedByBoot>>

BootReselect ==
  /\ boot = "lock"
  /\ RtcFree
  /\ Select(Flags[flag])
  /\ boot' = "clear"
  /\ UNCHANGED <<cmos, flag, attrs, ghostVars, unchangedByBoot>>

\* Variant: the flag stays set.
BootKeep ==
  /\ boot = "clear"
  /\ NextFlag
  /\ attrs' = attrs \cup {Flags[flag]}
  /\ UNCHANGED <<cmosVars, ghostVars, unchangedByBoot>>

BootClear ==
  /\ boot = "clear"
  /\ WriteData(0)
  /\ NextFlag
  /\ attrs' = attrs \cup {Flags[flag]}
  /\ UNCHANGED <<index, ghostVars, unchangedByBoot>>

Boot == BootSelect \/ BootRead \/ BootReselect \/ BootClear

-----------------------------------------------------------------------------
(* nmi_handler for an NMI of the GPIO_0 pin, and do_vc_dg_task.              *)

unchangedByNmi == <<bootVars, sysfs, procVars, boots, asked>>

NmiStep(from, to) == nmi = from /\ nmi' = to

\* Variant: the flag of the watchdog is set.
NmiRaisedWatchdog ==
  /\ boot = "up" \/ EarlyNmi
  /\ NmiStep("idle", "write")
  /\ Select("watchdog")
  /\ UNCHANGED <<cmos, tasklet, found, gasped, owed, unchangedByNmi>>

NmiRaised ==
  /\ boot = "up" \/ EarlyNmi
  /\ NmiStep("idle", "write")
  /\ Select("loss")
  /\ UNCHANGED <<cmos, tasklet, found, gasped, owed, unchangedByNmi>>

NmiWrite ==
  /\ NmiStep("write", "reselect")
  /\ WriteData(1)
  /\ UNCHANGED <<index, tasklet, found, gasped, owed, unchangedByNmi>>

NmiReselect ==
  /\ NmiStep("reselect", "read")
  /\ Select("loss")
  /\ UNCHANGED <<cmos, tasklet, found, gasped, owed, unchangedByNmi>>

\* Variant: the tasklet is not scheduled.
NmiUnscheduled ==
  /\ NmiStep("read", "idle")
  /\ gasped' = TRUE
  /\ owed' = owed \cup (client \cap holders)
  /\ UNCHANGED <<cmosVars, tasklet, found, unchangedByNmi>>

\* The byte read back is not looked at.
NmiHandled ==
  /\ NmiStep("read", "idle")
  /\ tasklet' = TRUE
  /\ gasped' = TRUE
  /\ owed' = owed \cup (client \cap holders)
  /\ UNCHANGED <<cmosVars, found, unchangedByNmi>>

Nmi == NmiRaised \/ NmiWrite \/ NmiReselect \/ NmiHandled

\* Variant: a task that is no longer there is signalled all the same.
TaskletBlind ==
  /\ tasklet /\ found = None
  /\ tasklet' = FALSE
  /\ found' = registered
  /\ UNCHANGED <<cmosVars, nmi, gasped, owed, unchangedByNmi>>

\* The registered pid is looked up under the lock; the signal is sent after.
TaskletLookup ==
  /\ tasklet /\ found = None
  /\ tasklet' = FALSE
  /\ found' = IF registered \in alive THEN registered ELSE None
  /\ UNCHANGED <<cmosVars, nmi, gasped, owed, unchangedByNmi>>

TaskletSignal ==
  /\ found # None
  /\ found' = None
  /\ owed' = owed \ {found}
  /\ UNCHANGED <<cmosVars, nmi, tasklet, gasped, unchangedByNmi>>

Tasklet == TaskletLookup \/ TaskletSignal

-----------------------------------------------------------------------------
(* show_ and set_reset_factory_defaults; the show does not take rtc_lock.    *)

SysfsStep(from, to) == sysfs = from /\ sysfs' = to

unchangedBySysfs == <<bootVars, nmi, tasklet, found, procVars, ghostVars, owed>>

ShowSelect ==
  /\ Sysfs /\ "reset" \in attrs
  /\ SysfsStep("idle", "show")
  /\ Select("reset")
  /\ UNCHANGED <<cmos, unchangedBySysfs>>

ShowRead ==
  /\ SysfsStep("show", "idle")
  /\ UNCHANGED <<cmosVars, unchangedBySysfs>>

SetSelect ==
  /\ Sysfs /\ "reset" \in attrs
  /\ RtcFree
  /\ SysfsStep("idle", "clear")
  /\ Select("reset")
  /\ UNCHANGED <<cmos, unchangedBySysfs>>

SetClear ==
  /\ SysfsStep("clear", "idle")
  /\ WriteData(0)
  /\ UNCHANGED <<index, unchangedBySysfs>>

SysfsAccess == ShowSelect \/ ShowRead \/ SetSelect \/ SetClear

-----------------------------------------------------------------------------
(* Processes, nmi_vc_open and nmi_vc_close.                                  *)

unchangedByProc == <<cmosVars, bootVars, nmi, sysfs, tasklet, ghostVars>>

\* A new process, with a pid nobody has.
Start(p) ==
  /\ boot = "up"
  /\ p \notin alive
  /\ alive' = alive \cup {p}
  /\ UNCHANGED <<registered, holders, client, found, owed, unchangedByProc>>

Fork(p, q) ==
  /\ Forks
  /\ p \in alive /\ q \notin alive
  /\ alive' = alive \cup {q}
  /\ holders' = IF p \in holders THEN holders \cup {q} ELSE holders
  /\ UNCHANGED <<registered, client, found, owed, unchangedByProc>>

Open(p) ==
  /\ p \in alive
  /\ registered = None
  /\ registered' = p
  /\ holders' = holders \cup {p}
  /\ client' = client \cup {p}
  /\ UNCHANGED <<alive, found, owed, unchangedByProc>>

\* Variant: the registration is dropped at the first close, not the last.
ReleaseAtOnce(p) ==
  /\ holders' = holders \ {p}
  /\ owed' = owed \ {p}
  /\ registered' = IF registered = p THEN None ELSE registered

\* Variant: the registration outlives the last close.
ReleaseKept(p) ==
  /\ holders' = holders \ {p}
  /\ owed' = owed \ {p}
  /\ UNCHANGED registered

\* A process no longer has the device; nmi_vc_close runs when it was the last.
Release(p) ==
  /\ holders' = holders \ {p}
  /\ owed' = owed \ {p}
  /\ registered' = IF holders = {p} /\ registered = p THEN None ELSE registered

Close(p) ==
  /\ p \in holders
  /\ Release(p)
  /\ UNCHANGED <<alive, client, found, unchangedByProc>>

Exit(p) ==
  /\ p \in alive
  /\ alive' = alive \ {p}
  /\ client' = client \ {p}
  /\ Release(p)
  /\ found' = IF found = p THEN None ELSE found
  /\ UNCHANGED unchangedByProc

Process ==
  \E p \in Pids :
    \/ Start(p) \/ Open(p) \/ Close(p) \/ Exit(p)
    \/ \E q \in Pids : Fork(p, q)

-----------------------------------------------------------------------------
Next ==
  PowerCycle \/ Boot \/ Nmi \/ Tasklet \/ SysfsAccess \/ Process

Spec == Init /\ [][Next]_vars

\* Scheduled tasklets run, an NMI handler that was entered returns.
FairSpec ==
  /\ Spec
  /\ WF_vars(Tasklet)
  /\ WF_vars(NmiWrite \/ NmiReselect \/ NmiHandled)

-----------------------------------------------------------------------------
(* Properties.                                                               *)

\* A gasp that was handled stays in the CMOS until a boot reports it ("Power
\* loss occurred during last system runtime", nmi_dg_notify_userspace), over
\* any number of boots that do not get that far.
GaspKept == gasped => cmos["loss"] = 1

\* "Only allow CMOS clear": the factory reset is reported only at a boot for
\* which the BIOS asked for it; neither the gasp nor sysfs sets its flag.
ResetWasAsked == "reset" \in attrs => asked

\* "If our registered client is not there, no harm, no foul" (do_vc_dg_task): a
\* process that never opened /dev/nmi-vc, as one given the pid of a client that
\* ended, is not sent SIGPWR, which would end it.
SignalsClient ==
  [][found' # None /\ found' # found => found' \in client]_vars

\* The registration and the open device go together, so that a device nobody has
\* open can be opened (nmi_vc_open refuses with -EACCES otherwise).
RegistrantHolds == registered = None \/ registered \in holders

\* An open device is registered: nobody else can take the signal over.
OpenIsRegistered == holders # {} => registered # None

\* A client that has the device open when a gasp is handled is sent SIGPWR, or
\* closes the device, exits or loses its power.
GaspSignalled == \A p \in Pids : p \in owed ~> p \notin owed

\* Types; besides, only running processes have the device, and a process owed a
\* signal still has it.
TypeOK ==
  /\ cmos \in [Cmos -> {0, 1}] /\ index \in Cmos
  /\ boot \in {"select", "read", "lock", "clear", "up"} /\ flag \in 1 .. 3
  /\ attrs \subseteq Cmos
  /\ nmi \in {"idle", "write", "reselect", "read"}
  /\ sysfs \in {"idle", "show", "clear"}
  /\ tasklet \in BOOLEAN
  /\ found \in alive \cup {None} /\ registered \in Pids \cup {None}
  /\ alive \subseteq Pids /\ holders \subseteq alive
  /\ client \subseteq alive /\ owed \subseteq client \cap holders
  /\ boots \in 1 .. MaxBoots /\ gasped \in BOOLEAN /\ asked \in BOOLEAN

-----------------------------------------------------------------------------
(* The inductive invariants behind GaspKept and ResetWasAsked.  They need   *)
(* what QuietPorts says: nobody else touches the ports while ipi_init or    *)
(* the NMI handler is between selecting a byte and using it.                *)

QuietPorts == Sysfs = FALSE /\ EarlyNmi = FALSE

PortsInv ==
  /\ sysfs = "idle"
  /\ nmi # "idle" => boot = "up"
  /\ boot \in {"read", "clear"} => index = Flags[flag]
  /\ nmi \in {"write", "read"} => index = "loss"

GaspInv ==
  /\ TypeOK /\ PortsInv
  /\ boot \in {"lock", "clear"} /\ flag = 1 => ~gasped
  /\ nmi \in {"reselect", "read"} => cmos["loss"] = 1
  /\ GaspKept

ResetInv ==
  /\ TypeOK /\ PortsInv
  /\ boot \in {"lock", "clear"} => cmos[Flags[flag]] = 1
  /\ "reset" \in attrs => cmos["reset"] = 0
  /\ cmos["reset"] = 1 => asked
  /\ ResetWasAsked

\* The inductive invariant behind RegistrantHolds and SignalsClient, which need
\* that nobody forks: the one process that has the device is the registered one,
\* and has opened it itself.
HolderInv ==
  /\ TypeOK
  /\ RegistrantHolds
  /\ \A p \in holders : p = registered /\ p \in client
=============================================================================
