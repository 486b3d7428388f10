# Verification of the VeloCloud OpenWrt tree

The repository is VeloCloud's OpenWrt: the upstream build system and packages,
and the code VeloCloud adds for its Edge appliances (kernel patches for the
boards, firmware of their power microcontrollers, modem scripts, board and
factory scripts).  This directory holds TLA+
models of that added code, model-checked with TLC, and theorems about them that
TLAPS checks.  The kernel code of interest is added by patches, so its sources
are patch files under `src/trunk/target/linux/x64/patches-3.14/` and the line
numbers are those of the patch; the firmware is under `src/firmware/`.

## 1. The system

Everything upstream or vendored (build system, package recipes, feeds, frr,
openvswitch, qemu, Python libraries, coreboot) is left out.  What remains:

| Part | State | Operations | Hard behaviour |
|---|---|---|---|
| LTC4266 PoE driver (`996-velocloud-poe-ltc4266.patch`) | per port: CLASSIFY/MONITOR, pending and last event, reserved mA, `cancel_timer`, timer, work; per chip: `total_mA_avail`, mode | chip work (every 250 ms), power-on timeout work of each port, stores to `power`, `reset`, `chip_reset`, `chip_mode`, `total_mA` | five kinds of threads, two levels of mutexes, a shared budget, a timeout racing power good and losses, waits for works, I2C transfers that fail |
| Dying gasp (`444-vc-board.patch`, `velocloud-nmi.c`) | three CMOS flags, CMOS index port, tasklet, registered pid | `ipi_init`, NMI handler, tasklet, open and release of `/dev/nmi-vc`, `reset_factory_default` | an NMI between any two port accesses, power cycles, process exit and pid reuse, forks |
| Power microcontroller of the Edge 510 (`firmware/edge510-pic/pic.c`) | power state, requested state, power cycle flag, watchdog, button, EEPROM byte, message buffer; TMR1, output pins | main loop (button, power machine, EEPROM), I2C interrupt handler | the handler changes the requested state, the watchdog and the EEPROM byte between any two steps of the loop; requests, faults and sleeps of the host leave any state of the power machine; one timer for all waits; PIC resets |
| Power sequencer of the other Edges (`firmware/VC_EDGE_PIC12.X/rccvepic12.c`) | place in the loop, `first_on`, `cpu_pc`, `cat_err`, `cold_reset`; the supplies' pin | one polling loop | four pins change between any two reads; long delays without a look at them |
| Board support (`444-vc-board.patch`, `velocloud*.c`) | GPIO, LED and PCA expander registers | sysfs shows and stores | read-modify-write of expander registers |
| PCU GPIO (`444-vc-pcu.patch`), SI3452 PoE (`995-…`), DSA and switch ioctl (`455`, `504`, `505`, `998`), watchdog (`444-vc-itco-v3-wdt`, `507`) | registers, port lists | kernel callbacks | port events against sysfs; bind and unbind |
| Modem service (`package/modems/files/etc/modems/modem_service.sh`, `modem_apn.sh`) | pid file, `started` flag, APN profile, NAT rule | start, stop, restart, set | the monitor writes the pid file long after the start that launched it; callers in parallel |
| Modem hotplug (`hotplug.d/{net,tty}`, `usb_common`) | uci sections of the modems, MODEMn names | add and remove events of the tty and net devices of one modem | the two handlers wait for each other's device |
| Modem monitors (`IPModems`, `mm_common`, `ppp_run.sh`) | connection state, error counters, network configuration | connect, check, reset, restart loops | the modem changes between any two commands; counters compared for equality |
| Board scripts (`edge5x0/files/root`), factory packages (`abrloop`, `mfgtest`, `ssd-stress`, …) | none kept | sequential | the installer may be interrupted |

The parts interact little: the PoE driver, the dying gasp, the microcontroller
and the modem scripts share no state.  Within the modem part, hotplug handlers call the service
script, which launches the monitors.  User space (`edged`, not in the
repository) writes the sysfs files, opens `/dev/nmi-vc` and calls
`modem_service.sh`.

What makes each part correct: the PoE driver must never grant more current than
the source has, must not lose budget, must not switch off a port that came up,
must go back to detection when one does not, and its stores must return.  A
gasp must be reported by the next boot that gets that far, must never turn into
a factory reset, and must be signalled to the registered client and to nobody
else.  The microcontroller must raise the power goods and resets in order, must
never wait for a timer that does not run, must let the supplies rest before it
switches them on, must switch them off after a fault, and must not keep a running
host in reset; an EEPROM write that the host sees ended must be in the EEPROM,
and what it reads and writes in two bytes must not be torn.  The PIC12 must serve
a shutdown request in bounded time and must not stay off by mistake.  A modem
that is plugged in must be started whatever the order of its devices, and a stop
must leave no monitor behind.  A monitor must take a dead link's interface down
and must not give up on a modem that can be reset.

## 2. Modules

| Module | What it is |
|---|---|
| `LtcPoe` | the PoE driver, its users and the chip |
| `PowerBudget` | abstract specification of the power budget: grant, give back, redeclare |
| `LtcPoeInv` | inductive invariants of `LtcPoe` and the assumptions they need |
| `LtcPoeProofs`, `LtcTimerProofs` | theorems about the types and the budget, and about the power-on timer |
| `MCLtcPoe` | device classes and their currents for TLC |
| `DyingGasp` | the dying gasp, the CMOS ports, processes and power cycles, with its invariants |
| `DyingGaspProofs` | its theorems |
| `MCDyingGasp` | symmetry of the processes for TLC |
| `PicPower` | the power and reset microcontroller, the host's requests and the board, with its properties |
| `PicPowerProofs` | its invariant and theorems |
| `PicI2c` | the same microcontroller seen from the I2C bus: transactions, EEPROM, messages, two-byte values |
| `PicI2cProofs` | theorems about the EEPROM, the watchdog, the message and the types |
| `VcEdgePic` | the PIC12 of the other Edges |
| `VcEdgePicProofs` | its types, the bound on a shutdown, and the reason to power up |
| `ModemService` | hotplug handlers, service and APN scripts and monitors of one modem |
| `MCModemService` | the modems, orders and requests for TLC |
| `ModemServiceInv` | what a handler still does, the invariants of the rendezvous and their assumption |
| `ModemServiceProofs` | that a stop kills, the types, and the rendezvous |
| `QmiMonitor` | the monitor of a QMI modem |
| `QmiMonitorProofs` | its types, counters and interface |

### LtcPoe

Threads are `Chip` (`ltc4266_port_work_fn`), `Worker(p)`
(`port_pwr_on_work_fn` of port p) and `User(u)` (processes in a sysfs store).
`pc[t]` is where a thread is, `at[t]` the port it works on, `reg[t]` the budget
it has loaded and `want[t]` what it is about to reserve.  The other variables
are the driver's fields, under their names in the code: `portState`,
`portEvent`, `lastEvent`, `device_mA`, `cancelTimer`, `total_mA_avail`, `mode`,
the mutexes' owners and the timers and works of the kernel.  `hw` and
`hwEvent` are the chip's output and its clear-on-read event registers; `drawn`
and `limit` are ghosts.

A critical section under `port_lock` is one action, with two exceptions.  Every
read-modify-write of `total_mA_avail` is a load and a store (`BudgetLoad`,
`RefundStore`, `SwitchOn`, `ResetLoad`, `ResetStore`), so that a missing
`glbl_lock` would show.  And where the code gives current back and switches the
output off in that order, these are two steps.  The chip work goes `poll`
(`ltc4266_interrupt`, port by port), then `port` for each port: a CLASSIFY port
takes a detection (`ClassifyNothing`, `ClassifyDevice`, `ClassifyUnclassed`), a
MONITOR port a loss (`MonitorLoss`) or power good (`MonitorGood`), and if `rc`
is set — by this port or by an earlier one — cancels and waits for the port's
work (`ChipCancel`, `ChipWait`).  The timer queues the work (`TimerFire`), which
takes the port back unless it was cancelled or power is good.

The chip is external and modelled from how the driver uses it: an output that
is off detects devices, one that is switched on reaches power good or fails to
start, one that is good may see its device leave or draw too much; every
transition leaves its event in `hwEvent` until it is polled.  I2C transfers may
fail (`I2CFaults`): reading the events (`poll`), reading the power status
(`status`), switching outputs (`power`), and configuring (`configure`).

`total_mA_avail` is an s32, and `S32_MAX` its largest value.  `set_total_mA` parses an
unsigned long and assigns it, so that a writer declares its low 32 bits as a signed
number (`S32`): 4294967295 declares -1.  A refund wraps around if the sum does not fit
(`Wrapped`; the kernel is built with `-fno-strict-overflow`); a reservation cannot, as
`ltc4266_calculate_total_mA` compares before it subtracts.  `total_mA` is taken in
manual mode only.  The module parameter `mA_avail` is a constant.

Left out: `dev_class` and the eventfd (only reported), the LIM/CUT/ICUT
registers, the power-enable and tSTART events (only cleared), probe and remove.

### DyingGasp

`cmos` and `index` are the CMOS bytes and the index port; every access to a byte
is a step that selects it and one that uses the data port, because neither the
NMI handler nor the reads take `rtc_lock`, and on x86-64 `CMOS_READ` and
`CMOS_WRITE` take no lock of their own.  `boot`, `nmi`, `sysfs`, `tasklet` and
`found` are the places of `ipi_init`, the NMI handler, the sysfs accesses and
`do_vc_dg_task`.  Processes start, fork, open, close and exit; a release runs
when the last process that shares the open file lets it go.  A power cycle may
come between any two steps and keeps only the CMOS.  The BIOS sets the watchdog
and reset flags (external).

Left out: `ipi_exit`, the read-only `show_dg_pid`, and boards without the pin.

### PicPower

`pc` is where the main loop is: `button` (`rstbtn_fsm`), `power` (the switch of
`power_fsm`), `monitor` (its checks of the thermal trip, of PWRGD and of
PMU_SLP), `request` (`pstate = nstate`) and `clear` (`nstate = PST_OK`), which
are two steps because the interrupt handler may run between them.  Each case of
the switch is an action, named after its state.  `out` is the set of active
outputs (PICRST is in it while the reset is asserted) and `in` the set of inputs
that are high; both change between any two steps of the loop, as does TMR1,
whose value is the wait it counts, `expired` until it is taken, or `stopped`.
The interrupt handler executes the host's `I2C_PST_SET` (`PstSet`) and
`I2C_SWDT_SET` (`SwdtSet`) atomically, since nothing of the loop runs meanwhile,
and only while the host is out of reset (`HostUp`).  `PicReset` enters `main`
again from anywhere.

The board is external: PWRGD rises only with the supplies on and PMU_SLP only
with the resume reset released; they fall with them, and by themselves if
`Faults` says so.  One timing assumption is made (`Settled`): after PSON goes
off, PWRGD falls and the loop, which runs thousands of times a second, sees it
before a wait of 100 ms or more ends.

Left out: the reset cause `rstate`, the LED, the BLE reset, `rstcnt` and
`thmtrip`, which are only reported.  The EEPROM, the message buffer and the I2C
transactions byte by byte are in `PicI2c`.

### PicI2c

The host's side of the bus is `Address`, `WriteByte` and `ReadByte`: one run of
`Interrupt_ISR` each, between any two steps of the main loop.  `i2c_addr`,
`i2c_idx` and `i2c_buf` are the handler's; `sent` and `got` are ghosts of what
went over the bus in the transaction.  A transaction may be broken off after any
byte, by addressing the next command.  The loop's steps are those between which
an interrupt makes a difference: the two bytes of the push time (`Push`,
`PushHigh`, `Count`, `CountHigh`), the watchdog, which is counted with
interrupts off (`SwdtTick`), and the EEPROM machine (`EeWrite` to the unlock
sequence, `EeStart` which sets WR, `EeStarted`; `EeDone` and `EeStore`).
`unlock` is true while no interrupt has come into the unlock sequence; the
hardware, which is external, starts a write only then and otherwise sets WRERR,
which the code never clears.  `PicReset` clears the memory and may leave anything
in a cell that was being programmed.

`Base` is the number of values of a byte, 2 in the run.  `Burst` is how many
commands the host puts into one transaction: the code accepts more bytes than a
command takes and executes it again (5).  `Hosts` are sets of commands; a host
keeps to the one it is given, which keeps apart parts that share nothing but the
buffer.  A host is reset only when no write is under way (`HostReset`): its reset
takes 100 ms, a write a few.

Left out: the LED, BLE and version commands, which use the same buffer in the same
way, and `PST_SET`, which is in `PicPower`.

### VcEdgePic

`pc` is a place in the loop, named for its state and for the pin read there.  A
condition on two pins is two reads, in the order of `&&` and `||`, so that each
pin may change in between: `Branches` lists them.  Delays are `left`, in seconds,
and `hot` counts those that an uninterrupted `_SYS_SHDN_N` has lasted with the
supplies on.  The infinite loop after `FAULT` is the place `off`.

### ModemService

A handler is the list `todo` of the steps it has left, which depend on the type
that `get_modem_type` finds (`TtyAdded`, `NetAdded`, `Removed`): set options,
go on only if an option is set or is not, run a script and wait for it, or leave
it in the background.  `get_modem_type` looks at the driver of the network
interface first and at the list after that, and so does `NetType`.  One handler runs at a time, in the
order of the uevents (`queue`).  That is assumed of procd, which is not in the repository:
nothing in the handlers themselves excludes another one, since
`cleanup_etc_config_modems` takes its lock (`usb_common:472`) for the cleanup at boot only.  `srv[p]` is the script that process p runs; a user's request, a
handler and a start left in the background are three such processes.  `conf` is
the set of options that the modem's section has, which is all the code tests.
`mon[m]` is the life of a monitor: launched, it opens (and empties) the pid file,
writes it, reads its section and runs; it may die at any time.  A pid that
nobody refers to may be given again.

Simplified: reading the status is one step; a monitor that writes its pid into a
file that was removed leaves no file; `rules` counts the MASQUERADE rules of the
modem to two or more; `kill` of a monitor that does not react leaves it alive
until SIGKILL.  `qmi_disable_AC340U_2G` and edged's rules are left out, and so are modems
without an entry in `hybridmodems.list` and those it lists as ignored.

### QmiMonitor

`pc` is the part of the poll; between any two parts the modem (`registered`,
`link`) may change, and every `qmicli` command reads it anew.  `clients` are the
QMI clients that could be allocated.  The exceptions are modelled where they
arise: a command without a client is swallowed by the reloads, ends the monitor
in `get_static_values`, and starts it over in the resets (`Fails`).  Signal
strength and traffic counts are left out.

## 3. Properties

| Property | What it says | Hazard |
|---|---|---|
| `BudgetConserved` | free and reserved current add up to what they were when the budget was last set, also if that was negative, or to 2^32 less after a refund that wrapped | lost updates between ports, timeouts and stores |
| `BudgetSpec` | the driver implements `PowerBudget` | a grant that does not fit or out of a negative budget, a port granted twice |
| `FreshBudget` | nobody stores a budget computed from a stale load | `glbl_lock` |
| `NeverInflated` | failing transfers may lose current but never create it | partial failure |
| `TimerOfThisPowerOn` | an armed timer belongs to the power-on in progress | timeout of a former device |
| `GoodNotTimedOut` | a port whose power is good is not timed out | queued timeout against power good |
| `StoresReturn` | every sysfs store returns | waiting for a work that takes the mutex held |
| `GaspKept` | a handled gasp stays in the CMOS until a boot reports it | power cycles at any step |
| `ResetWasAsked` | a factory reset is reported only if asked for | the shared index port |
| `RegistrantHolds`, `OpenIsRegistered` | the registration goes with the open device | release by another process |
| `SignalsClient` | only a process that opened the device is signalled | exit and pid reuse |
| `SignalOrder` | COREPWR follows CLKPWRGD follows RSMRST follows PSON | a request moves the machine into the middle of a sequence |
| `TimedWait` | no state waits for a stopped timer | one timer shared by all waits |
| `MinOffTime` | supplies rest for the minimal time before they go on | requests, pushes, power cycles |
| `FaultsPowerOff` | a thermal trip, or a loss of PWRGD that lasts, switches the supplies off | a request replaces the failure's state |
| `PowerReturns` | a power cycle, or a push during the power-off, turns the system on again | forgotten flags |
| `GaspSignalled` | a client at the time of a gasp is signalled, closes or ends | tasklet |
| `EeIdleMeansWritten` | an idle status means that the last write is in the EEPROM | broken unlock sequences |
| `EeOnlyOrdered`, `EeBusyRefused` | only the ordered cell changes; no write is taken during another one | the handler changes address and data under the loop |
| `EeEnds` | every write ends | interrupts at any rate |
| `SwdtReadWhole`, `SwdtSetWhole` | the watchdog's two bytes are read and set together | counting, transactions broken off |
| `MsgInside` | the memory behind the message buffer is not written | the pointer is set by the host |
| `HotBounded`, `ShutdownIsFinal` | a lasting shutdown request is served, within a bound | blind delays |
| `IdleComesBack` | a power cycle powers up again | `G3_IDLE` without a reason is for ever |
| `DeadSoCGivenUp` | the supplies of a SoC that never starts go off | counting over passes |
| `Rendezvous` | a modem that answered its probes has been started when all is quiet; excepted are those that `get_modem_type` ignores (`Unknown`) and the hybrid ones of section 5 (`NetIgnored`) | each handler defers to the other |
| `StopKills` | a stop goes on only when the monitor it signalled is dead | deaf, dying and replaced monitors |
| `ErrorsBelow` | after a poll both counters are below their thresholds | tests for equality in one chain |
| `UpMeansConnected` | a poll that found the modem disconnected leaves the interface down | three reads in one poll |
| `Recovers` | a monitor that goes on polling finds the link healthy again and again, brings the interface up, resets the modem or starts over | alternating states |

## 4. Runs

The classes are 3 and 4 with the driver's 280 and 545 mA.  With the default
budget of 575 mA two class 3 devices fit, a class 4 device and another do not;
with 300 mA one class 3 device fits, so that refusals happen too.

| Run | Question and bounds | Result |
|---|---|---|
| `LtcManual` | a user with `power` on and off, `chip_mode` and `total_mA`, class 3 devices, 300 mA, -1 declared: `TypeOK`, `BudgetConserved`, `BudgetSpec` | hold |
| `LtcReset` | auto mode, a user resetting ports, 300 mA, one port whose class 3 device comes and goes, `MaxCancel` 2: `TimerOfThisPowerOn`, `GoodNotTimedOut`, `StoresReturn` | hold |
| `LtcChipReset` | a user resetting the chip, configuration transfers failing: `FreshBudget` | holds |
| `LtcFaults` | all other transfers failing, devices of no class: `NeverInflated` | holds |
| `LtcOvercommit` | both ports' devices of class 4: `NoOvercommit` | violated, 5 |
| `GaspQuiet` | three boots, two processes, nobody else at the ports: `GaspKept`, `ResetWasAsked`, `RegistrantHolds`, `GaspSignalled`, `SignalsClient` | hold |
| `GaspShared` | two boots, forks, sysfs accesses and NMIs during `ipi_init`: `TypeOK`, `OpenIsRegistered` | hold |
| `PicPower` | every request, watchdog value, fault and PIC reset: `TypeOK`, `SignalOrder`, `TimedWait`, `MinOffTime`, `FaultsPowerOff`, `PowerReturns` | hold |
| `PicI2c` | three hosts (EEPROM commands; watchdog, message and push-time commands; `RNOP`, `RESET` and EEPROM reads), PIC resets, bytes of two values: `TypeOK`, `EeIdleMeansWritten`, `SwdtReadWhole`, `EeOnlyOrdered`, `EeBusyRefused`, `EeEnds`, `SwdtSetWhole`, `MsgInside` | hold |
| `VcEdgePic` | the delays of the code, all pins free: `TypeOK`, `HotBounded`, `ShutdownIsFinal`, `IdleComesBack`, `DeadSoCGivenUp` | hold |
| `ModemService` | ten modems: one of each type, a second hybrid one, over `qmi_wwan`, and two serial ones whose interface is taken for another type; a user, a start in the background: `TypeOK`, `Rendezvous`, `StopKills` | hold |
| `QmiMonitor` | thresholds 4, 20 and 15, all answers of the modem: `ErrorsBelow`, `UpMeansConnected`, `Recovers` | hold |

Bounds.  The chip has the two ports of the code.  `Plugged` is the set of ports
whose devices come and go; the other port holds what a former instance of the
driver left (`Init`), a device taken over or nothing.  One port suffices for the
properties of one port's timer; the two-port races of the budget need the
chip work, both ports' timeouts and a user, which are all there in `LtcManual`.
`LtcManual` has a small s32, `S32_MAX` 300, and one value to write, 601, the 2^32 - 1 of
that width: it declares -1, after which nothing fits until current is given back, as
when the device that was on before leaves: 279 mA.  Writing 300 besides, the largest budget, on
which a refund wraps, makes the run too large; the proofs (6) cover every value.
In the other runs nobody writes `total_mA`, and `S32_MAX` is just large enough.
`MaxCancel` bounds `cancel_timer`, which the code does not: one stale increment
is enough to eat a timeout, two to show that they add up.  `MaxBoots` bounds the
boots: a gasp, a boot interrupted before it reports it, and one that does.  Two
processes suffice for a registered client and somebody else, since all the code
tests is whether a pid is the registered one.

In `PicPower` `Debounce` 3 (20 ticks in the code) has a tick inside the debounce
period and one that ends it.  The watchdog counts to `MaxSwdt` 2: off, about to
trigger, and one more; `SwdtDefaults` are what the EEPROM may hold, off or on.
`CntMax` 1 makes its trigger count saturate at the first value the code tells
from 0.

`PicI2c` uses bytes of two values, so that a two-byte value wraps, carries and is
torn within four values; one host with all commands is too large and adds nothing
but the order of commands that share no state.  `VcEdgePic` has the delays of the code, second by
second.  In `ModemService` two pids let a monitor
live while another one starts, `Tries` 2 has a signal that may be ignored and the
SIGKILL, and `MaxQueue` 2 holds both devices of a plug; each type of modem gets
the requests that bring out its own script paths (the stop and restart of a serial
modem come from its removal alone), since each type with all requests is too
large.  `QmiMonitor` scales 20, 100 and 100 down and keeps that the soft threshold
divides the hard one, on which the order of the tests depends.

Fairness (`FairSpec` of each module, `Spec` of `PicI2c` and `VcEdgePic`).  `LtcPoe`: strong fairness of the chip
work, of each port's timeout work and of each store, which compete for the
mutexes, whose waiters the kernel queues; weak fairness of the timers.
`DyingGasp`: weak fairness of the tasklet and of the handler's own steps.
`PicPower`: weak fairness of the main loop, none of whose functions blocks, of
TMR1, and of PWRGD going down when the supplies are off.  `PicI2c`: weak fairness
of the main loop and of the EEPROM hardware, which ends what it starts.
`VcEdgePic`: weak fairness of the loop, which runs without interrupts.
`QmiMonitor`: weak fairness of the poll, which waits only for commands that have
timeouts.  `ModemService` has none: its properties are safety.  Nothing is assumed of
devices, modems, chips, users, hosts, buttons or the power supply.  Deadlock is checked
in every run: the chip work is queued for ever, power can always be cycled or a
process started, a modem plugged in or out, and the main loops never end.

## 5. What the code does otherwise

**Both outputs may be on beyond the source's limit** (`LtcOvercommit`).  A
stale disconnect event gives the current back without switching the output off.

What follows was found with TLC, by a run of its own, by dropping an assumption of a
passing run or by a property that is not listed above, or was read in the source,
and is recorded here without a run.

- *A port that never powers on is not always reset* (`LtcPoe`; 1379 against the comment
  at 1202).  The "power good changed" event that the switch-off of the former
  device raised is taken for power good of the new one, and its timer is deleted.
- *An early gasp is erased* (`GaspEarly` of `DyingGasp`; 566 against the message at
  418).  The NMI handler is registered before `ipi_init` reads and clears the
  CMOS flags.
- *A host runs with its reset asserted* (`PicPower`; `pic.c:1064` against 983).
  Only `PST_RESET_DELAY` and `PST_TURN_OFF` release PICRST.  If PMU_SLP drops
  during the reset delay and comes back, the machine goes through
  `PST_SLP_CR_DELAY` and a cold reset to `PST_RUNNING` with PICRST asserted.
- *Cancelled timeouts.*  The comment in `set_chip_reset` (1549) says
  `cancel_work_sync` runs a pending work to completion; it drops it.  The
  `cancel_timer` increment made for it stays, and a later timeout is ignored.
- *Reset and the budget.*  `store_port_reset` updates `total_mA_avail` without
  `glbl_lock` (2074), so that `BudgetConserved` and `FreshBudget` fail with
  resets; `set_chip_reset` sets the budget back to `mA_avail`, as if nothing were
  reserved, while ports keep their `device_mA`, so that `NeverInflated` fails with chip resets.
- *A budget that nobody declared* (`set_total_mA`, 1603-1618).  The unsigned long that was
  parsed is not checked: 4294967295 is accepted and leaves the budget at -1, from which
  every device is refused; 4294967296 leaves 0.  With a budget near 2^31 the refund of a
  port that was on wraps to a negative one, likewise.  A negative budget is safe, in that nothing is
  granted from it (`Refinement`), but it is not what the writer asked for.
- *A hybrid modem that nobody starts* (`ModemService`; found in the run by `Rendezvous`
  without its second exception, `NetIgnored`).  The comment of `handle_qmi_hybrid`
  (`30-velocloud-modem-tty:131-139`) and `README.ttymodem` (6-15, 37-44) say that the data
  of a `qmihybrid` modem goes over a `qmi_wwan` interface, whose handler starts the
  service.  But for that driver `get_modem_type` answers `qmiwwan` (`usb_common:320-323`)
  and never looks at the list.  If the tty came first, its handler has set `device`
  and left the start to the interface's handler (175-178), which finds the option set, takes the
  modem for detected and returns (`30-velocloud-modem-net:259-263`).  In the other order
  the interface's handler starts the modem as a `qmiwwan` one.
- *Failing transfers.*  `BudgetConserved` fails with them: a reservation whose
  power-on failed is overwritten by the next one.
- *Sysfs and the gasp.*  `show_reset_factory_defaults` moves the index between
  the handler's selection and write: the gasp lands in the factory reset flag
  and `ResetWasAsked` fails.  With forks `SignalsClient` fails: a last close by a
  child leaves the parent's pid registered, and whoever is given that pid is sent
  SIGPWR.
- *Power cycles.*  `pcycle` is not reset when a later request overtakes the power
  cycle: the next power-off turns the system on again.  A PWRGD that flaps
  restarts TMR1 each time, so that the power-on never times out.
- *EEPROM writes in one transaction* (`PicI2c` with `Burst` 2; `pic.c:702` against
  `pic-doc:69`).  A transaction of four bytes is two writes, and the second is
  taken while the first is under way: the busy check is made at the address.
  `EeIdleMeansWritten`, `EeOnlyOrdered` and `EeBusyRefused` fail.
- *Messages in one transaction* (`Burst` 2; `pic.c:715`).  The end of the buffer
  is checked at the address only; further bytes are written behind it.
- *The push time is read torn* (`pic.c:1118` against `pic-doc:145`), and
  *`SWDT_SET` takes less than `SWDT_MIN`* (`pic.c:687` against `pic-doc:36`): only
  the value from the EEPROM is compared with it.
- *A SoC that stays asleep with power good* (`rccvepic12.c:203` against the comment at
  145) is not shaken loose by a power cycle: the loop returns to `S0_IDLE`.
- *Two monitors of one modem* (`modem_service.sh:220`, against the comment at
  `usb_common:43`).  Until the monitor has written its pid file, a second start launches
  another one; a stop then finds only the last, and both NAT rules stay or one does.
- *No profile* (`modem_apn.sh:122`): a sierranet modem whose tty comes first has no
  type yet, so that setting its APN exits; the net handler relies on it (202).
- *A manual APN may be overridden* by an automatic one between its test (85) and its
  writing (96); and *a new APN is not used* if the restart finds a PPP monitor that
  waits its 5 s before it writes its pid file.
- *Rules stay* when a removal finds no pid file, as `remove_device_config` then runs no
  stop.
- *The network section stays* (`IPModems.py:187`, against the comment at 186): the uci commands of
  `teardown_network_interface` lack a space and do nothing.
- *"Consecutive" errors* (`qmi.py:29`): `ip_check_errors` is not reset by a check that
  succeeds, only by a reconnection.  Answers other than connected and disconnected
  count for nothing, which `Recovers` excepts.  Without a WDS client the first read of
  `connection_status` raises an AttributeError, which ends the monitor
  (`IPModemsRun.py:113`).

## 6. Proofs

For every value of the constants (any users, classes, currents, budgets and
totals; any processes and number of boots; any debounce and watchdog times,
requests and faults; any width of a byte; any delays and timeouts; any modems, users
and number of signals; any thresholds):

| Theorem | Statement | Assumption |
|---|---|---|
| `Typing` | `Spec => []TypeOK` (LtcPoe) | — |
| `NoLostUpdate` | `[]FreshBudget` | `reset` not used |
| `LeaksOnly` | `[]NeverInflated` | `BudgetKeepingOps` |
| `BudgetIsConserved` | `[]BudgetConserved` | `NoResets` |
| `Refinement` | `BudgetSpec` | `NoResets` |
| `TimerIsOfThisPowerOn` | `[]TimerOfThisPowerOn` | `AutoOnly` |
| `GoodPortsStayOn` | `GoodNotTimedOut` | `AutoOnly` |
| `TypeCorrect` | `[]TypeOK` (DyingGasp) | — |
| `GaspRegistration` | `[](TypeOK /\ OpenIsRegistered)` | — |
| `RegistrantHasDevice` | `[]RegistrantHolds` | `Forks = FALSE` |
| `OnlyClientsSignalled` | `SignalsClient` | `Forks = FALSE` |
| `GaspIsKept` | `[]GaspKept` | `QuietPorts` |
| `ResetOnlyIfAsked` | `[]ResetWasAsked` | `QuietPorts` |
| `Typing` | `[]TypeOK` (PicPower) | — |
| `SignalsInOrder` | `[]SignalOrder` | — |
| `NoEndlessWait` | `[]TimedWait` | — |
| `SuppliesRest` | `MinOffTime` | — |
| `Typed` | `[]TypeOK` (PicI2c) | — |
| `WatchdogReadWhole` | `[]SwdtReadWhole` | — |
| `WatchdogSetWhole` | `SwdtSetWhole` | `OneCommand` |
| `MessageInside` | `MsgInside` | `OneCommand` |
| `IdleIsWritten` | `[]EeIdleMeansWritten` | `OneCommand` |
| `OrderedCells` | `EeOnlyOrdered` | `OneCommand` |
| `BusyIsRefused` | `EeBusyRefused` | `OneCommand` |
| `TypeCorrect` | `[]TypeOK` (VcEdgePic) | — |
| `ShutdownNoticed` | `[]HotBounded` | — |
| `NeverStuckIdle` | `[](pc = "G3_IDLE" => first_on \/ cpu_pc)` | — |
| `TypeCorrect` | `[]TypeOK` (ModemService) | — |
| `StopsKill` | `StopKills` | — |
| `OneMeetsTheOther` | `[]Rendezvous` | — |
| `TypeCorrect` | `[]TypeOK` (QmiMonitor) | — |
| `CountersBelow` | `[]ErrorsBelow` | — |
| `DisconnectedIsDown` | `[]UpMeansConnected` | — |

`NoResets` excludes the two reset stores and failing transfers, which do break
the budget (5); `BudgetKeepingOps` excludes only the reset stores.  `AutoOnly`
excludes manual mode, where a port is switched on without a timer and off without
stopping one, chip resets, which put a port that was granted meanwhile back to
CLASSIFY with its timer armed, and outputs that cannot be switched, which arm the timer
of a port that stays in CLASSIFY; port resets, any number of users and all other
failing transfers are in.  `QuietPorts` says that nobody else uses
the CMOS ports while `ipi_init` or the handler is between selecting a byte and
using it, without which an early gasp is erased (5).  `Forks = FALSE` says that no process
forks with the device open, without which both statements are false (5).  `OneCommand` is
`Burst = 1`, without which the statements it stands at are false (5).  No theorem assumes
anything of what is written to `total_mA`, nor `OneMeetsTheOther` that the driver of a modem
fits its entry in `hybridmodems.list`: both say what follows if not.

*The budget.*  `BudgetConserved` is not inductive: a store of `reg - want` keeps
it only if the loaded value is still the budget and nobody else changes the
port's reservation.  `BudgetInv` adds that a thread in a port's critical section
owns `port_lock`, that one about to store owns `glbl_lock` and holds a fresh
value (`LockInv`), and that a port in CLASSIFY has nothing reserved and a port
about to be granted is in CLASSIFY (`ReservedInv`), so that a grant never
overwrites a reservation.  The refinement follows: the store of a grant or a
refund is a step of `PowerBudget`, and everything else a stutter.  Since a reservation is
only stored if the loaded value covers it, the budget does not leave an s32 downwards.
Upwards it may: after a refund that wraps, `BudgetConserved` goes on with its second
disjunct, and no refund wraps again: what is left and what is reserved are then
together less than the largest s32.  With failing transfers
`ReservedInv` is false, since a port whose power-on failed stays in CLASSIFY with its
reservation; `LeakInv` does without it: a fresh value under `glbl_lock` is enough for a
grant to take out what it reserves, whatever it overwrites, and for a refund to put back no
more than `device_mA`.

*The timer.*  Several timeouts of a port may be on their way: one that the worker is
about to decide, and one of a later power-on that has been queued since, while a reset
waits for the former.  `Due` counts them.  `DueInv` says that `cancel_timer` has one count
for each but the one of the power-on in progress, and one for each of them as long as
that timer is still armed, or if no power-on is in progress.  So a timeout that finds
`cancel_timer` 0 is the only one and sees VTRANS, and a port in CLASSIFY can be granted
again, with a new timer, before the old timeouts have run.  `ChipInv`, `WorkInv` and
`TimerOwned` say who has disarmed the port at which step; `store_port_reset` gives
the current back before it disarms (`Resetting`), under the port's mutex.

*The gasp.*  `GaspInv` and `ResetInv` add where the index points at each step of
`ipi_init` and of the handler (`PortsInv`) and which flags are set in between.
`HolderInv` says that without forks whoever has the device open is the registered process
and opened it itself, so that the last release is always its own.

*The power machine.*  `SignalOrder` is not inductive: a state that raises a signal
must know that those below it are up, although a request may have put the
machine there.  `PowerInv` adds which signals each state relies on (`SignalsUp`)
and that `rested` holds wherever the machine may switch on next (`RestInv`).

*The EEPROM.*  `EeIdleMeansWritten` says nothing of the way from the order to the
write.  `EeInv` does: while a write is under way, `eeaddr` and `eedata` are those
of the order; the hardware holds them once the loop has copied them (`Armed`);
and if neither WR nor WRERR is set after that, the cell has the value.  It needs that
a transaction that changes `eeaddr` was not begun during a write, which is what
`I2cInv` says of an unfinished one.

*The two-byte values.*  The buffer is shared by all commands and may be overrun by none:
`IndexInv` says that the index of an unfinished command is below its number of bytes, and
that what was taken is a byte of the host.  `ReadInv` says that what the host has got of
the watchdog is a part of one copy, made when the transaction began, and `TransInv` that
the first byte in the buffer is the one that was sent in this transaction, so that no
value is put together from two, and that a message byte is only awaited while the pointer
is inside the buffer.

*The shutdown.*  `Heat` bounds `hot` at every place by the seconds since the pin was
last looked at: `SupplyDelay` minus what is left of it, and in the two loops of a
cold reset `cold_reset`, to which the second one adds the whole of the first.
`Reason`, the safety part of `IdleComesBack`, says that `PWR_DN1` is only reached with
`cpu_pc` set.

*The stop.*  A stop that holds a pid has signals left (`Signals`); at `check` after
the last of them, SIGKILL, the monitor is dead, and its pid is not given again while
a script refers to it (`Buried`).

*The rendezvous.*  Of the two handlers of a modem only the one that sees the options of
both starts the service, and the state in which all is quiet says nothing of how it came
about.  `Runs(todo, conf)` says of the steps that are left of a handler that they get to a
start, from the options that are set now, and `Gets(todo, conf)` what they leave set.
`RendInv` says where the modem is: both handlers are still to run, one runs or
has run and the other will start the service from what the first leaves, if that one
does not itself (`First`), or the second runs or has run and the start is due or done
(`Second`).  Every step of a handler keeps what `Runs` and `Gets` say of it, and the steps
of scripts, users and monitors do not touch the options.  That each pair of handlers
meets is a matter of the finite table of types, drivers and orders.  If the driver hides that the modem
is hybrid (`Shadowed`) and the tty came first, `First` and `Second` say instead that the
interface's handler will find, or has found, `device` without `ifname`, and that nothing but
a removal changes this.  The proof found two places of
the model that TLC had not: the tests of `NetType` and `NetAdded` overlapped for
some modems that no run has, where CASE may choose either, and `NetType` asked the list before the driver.  Both now
follow the order of the tests in `get_modem_type`.

*The counters.*  A poll counts at most one error of each kind.  `Counting` says in which
parts of a poll a counter may stand at its threshold, and that both never do when the
thresholds are compared, since only the first of them would be served: the connection
counter gets there in `Down`, which clears the other one.  `Interface` says how what
a poll has read gets to the interface.  The types of `QmiMonitor`, which say
that no counter passes its threshold, are only proved, since `ErrorsBelow` already
says more of the counters.

Only model-checked: the liveness properties (`StoresReturn`, `GaspSignalled`,
`FaultsPowerOff`, `PowerReturns`, `EeEnds`, `ShutdownIsFinal`, `IdleComesBack`,
`DeadSoCGivenUp`, `Recovers`), which are out of the prover's reach, as ENABLED and
recursive operators are.  The violation is TLC's trace.  Every invariant and every action
property of the passing runs is proved, under the assumptions of the table.

## 7. Plan

Done: the PoE driver and its budget, the dying gasp, the power machine and the I2C
side of the Edge 510's microcontroller, the PIC12, the modems' service and hotplug
scripts, and the QMI monitor.  Next:

1. Proofs: the safety that the liveness properties rest on, as `NeverStuckIdle` is for
   `IdleComesBack`: that nobody holds a port's mutex while waiting for its work
   (`StoresReturn`), that a write under way is always at a step that goes on (`EeEnds`),
   that a state that failed has requested the power-off (`FaultsPowerOff`).
2. The other monitors (ModemManager, PPP), with the removal of the modem; the naming
   of several modems.
3. The notification side of the PoE driver (`last_change`, the eventfd), the other PoE
   driver and the PCU GPIO driver.

Not planned: board LEDs and pins (single register accesses under one lock), the
iTCO watchdog (register tables), factory test programs (sequential hardware
tests), and everything upstream or vendored.
