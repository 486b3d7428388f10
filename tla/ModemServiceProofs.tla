------------------------- MODULE ModemServiceProofs -------------------------
(***************************************************************************)
(* A stop outlives the monitor that it stops, for any number of processes, *)
(* monitors and tries: a process that has signalled for the last time has  *)
(* killed the monitor, and the pid is not given again while a process      *)
(* refers to it.  The types.  And the rendezvous of the two handlers of a  *)
(* modem: what each of them sets, when it gets to the start of the service,*)
(* and that of the two one does.                                           *)
(***************************************************************************)
EXTENDS ModemServiceInv, TLAPS

Script == [pc : Where, pid : Pids \cup {None}, left : 0..Tries,
           next : {"idle", "start"}]

\* Where a script holds no pid, and where it does.
Before == {"idle", "start", "launch", "started", "stop", "apn", "apn.write"}
Stops  == {"signal", "check"}

\* A process in its loop of signals.
Signals(p) ==
  /\ srv[p].pc \in Before => srv[p].pid = None
  /\ srv[p].pc \in Stops => srv[p].pid \in Pids /\ srv[p].left > 0
  /\ srv[p].pc = "check" /\ srv[p].left = 1 => mon[srv[p].pid] = "dead"

Inv ==
  /\ modem \in Modems
  /\ mon \in [Pids -> Alive \cup {"dead"}]
  /\ srv \in [Procs -> Script]
  /\ \A p \in Procs : Signals(p)

\* A dead monitor to which a process refers stays dead.
Buried ==
  \A p \in Procs : srv[p].pid \in Pids /\ mon[srv[p].pid] = "dead"
                     => mon'[srv[p].pid] = "dead"

----------------------------------------------------------------------------
\* Steps that leave the scripts alone.
Elsewhere == UNCHANGED <<modem, mon, srv>>

LEMMA Kept ==
  ASSUME Inv, modem' = modem, srv' = srv,
         mon' \in [Pids -> Alive \cup {"dead"}], Buried
  PROVE  Inv'
<1>1. ASSUME NEW p \in Procs PROVE Signals(p)'
  <2>1. Signals(p) BY DEF Inv
  <2>2. srv[p] \in Script BY DEF Inv
  <2>. QED BY <2>1, <2>2 DEF Signals, Buried, Stops
<1>. QED BY <1>1 DEF Inv

\* A step of the script of one process that starts no monitor.
LEMMA OneScript ==
  ASSUME Inv, NEW p \in Procs, NEW r \in Script,
         modem' = modem, srv' = [srv EXCEPT ![p] = r],
         mon' \in [Pids -> Alive \cup {"dead"}], Buried,
         r.pc \in Before => r.pid = None,
         r.pc \in Stops => r.pid \in Pids /\ r.left > 0,
         r.pc = "check" /\ r.left = 1 => mon'[r.pid] = "dead"
  PROVE  Inv'
<1>1. srv' \in [Procs -> Script] BY DEF Inv
<1>2. ASSUME NEW q \in Procs PROVE Signals(q)'
  <2>1. CASE q = p
    <3>1. srv'[q] = r BY <2>1 DEF Inv
    <3>. QED BY <3>1 DEF Signals
  <2>2. CASE q # p
    <3>1. srv'[q] = srv[q] BY <2>2 DEF Inv
    <3>2. Signals(q) /\ srv[q] \in Script BY DEF Inv
    <3>. QED BY <3>1, <3>2 DEF Signals, Buried, Stops
  <2>. QED BY <2>1, <2>2
<1>. QED BY <1>1, <1>2 DEF Inv

\* What Goto and Exit make of a script.
LEMMA Moves ==
  ASSUME Inv, NEW p \in Procs, NEW place \in Where
  PROVE  /\ srv[p] \in Script
         /\ [srv[p] EXCEPT !.pc = place] \in Script
         /\ Goto(p, place) =>
              srv' = [srv EXCEPT ![p] = [srv[p] EXCEPT !.pc = place]]
         /\ Exit(p) => srv' = [srv EXCEPT ![p] = Idle]
         /\ Idle \in Script
BY ModemAssumption DEF Inv, Script, Goto, Exit, Idle, Where

\* A script goes on at a place where it holds no pid, as it held none before.
LEMMA GoesOn ==
  ASSUME Inv, NEW p \in Procs, NEW place \in Before, srv[p].pc \in Before,
         modem' = modem, Goto(p, place) \/ Exit(p),
         mon' \in [Pids -> Alive \cup {"dead"}], Buried
  PROVE  Inv'
<1>1. place \in Where BY DEF Before, Where
<1>2. srv[p].pid = None BY DEF Inv, Signals
<1>3. CASE Goto(p, place)
  <2>. DEFINE r == [srv[p] EXCEPT !.pc = place]
  <2>1. r \in Script /\ srv' = [srv EXCEPT ![p] = r] BY <1>1, <1>3, Moves
  <2>2. r.pc = place /\ r.pid = None BY <1>1, <1>2, Moves DEF Script
  <2>3. place \notin Stops BY DEF Before, Stops
  <2>. HIDE DEF r
  <2>. QED BY <2>1, <2>2, <2>3, OneScript DEF Stops
<1>4. CASE Exit(p)
  <2>1. Idle \in Script /\ srv' = [srv EXCEPT ![p] = Idle]
    BY <1>1, <1>4, Moves
  <2>2. Idle.pc = "idle" /\ Idle.pid = None BY DEF Idle
  <2>. QED BY <2>1, <2>2, OneScript DEF Before, Stops
<1>. QED BY <1>3, <1>4

LEMMA NothingDies == ASSUME Inv, mon' = mon
                     PROVE  mon' \in [Pids -> Alive \cup {"dead"}] /\ Buried
BY DEF Inv, Buried

----------------------------------------------------------------------------
\* modem_start and modem_apn.sh, and the calls of them.
LEMMA StartSteps ==
  ASSUME Inv, NEW p \in Procs,
         StartCheck(p) \/ Started(p) \/ ApnCheck(p)
  PROVE  Inv'
<1>1. /\ srv[p].pc \in Before /\ modem' = modem /\ mon' = mon
      /\ \E place \in {"launch", "apn.write"} : Goto(p, place) \/ Exit(p)
  BY DEF StartCheck, Started, ApnCheck, At, Before, hotplug
<1>. QED BY <1>1, GoesOn, NothingDies DEF Before

LEMMA LaunchStep == ASSUME Inv, NEW p \in Procs, Launch(p) PROVE Inv'
<1>1. PICK m \in Pids : FreePid(m) /\ mon' = [mon EXCEPT ![m] = "launched"]
  BY DEF Launch
<1>2. mon' \in [Pids -> Alive \cup {"dead"}] BY <1>1 DEF Inv, Alive
<1>3. Buried BY <1>1 DEF Buried, FreePid, Inv
<1>4. srv[p].pc \in Before /\ modem' = modem /\ Goto(p, "started")
  BY DEF Launch, At, Before, hotplug
<1>. QED BY <1>2, <1>3, <1>4, GoesOn DEF Before

LEMMA ApnWriteStep == ASSUME Inv, NEW p \in Procs, ApnWrite(p) PROVE Inv'
<1>1. srv[p].pc = "apn.write" /\ modem' = modem /\ mon' = mon
  BY DEF ApnWrite, At, hotplug
<1>2. CASE Exit(p) BY <1>1, <1>2, GoesOn, NothingDies DEF Before
<1>3. CASE ~Exit(p)
  <2>. DEFINE r == [srv[p] EXCEPT !.pc = "stop", !.next = "start"]
  <2>1. srv[p] \in Script /\ srv[p].pid = None
    BY <1>1 DEF Inv, Signals, Before
  <2>2. srv' = [srv EXCEPT ![p].pc = "stop", ![p].next = "start"]
    BY <1>3 DEF ApnWrite
  <2>3. srv' = [srv EXCEPT ![p] = r] BY <2>1, <2>2 DEF Inv, Script
  <2>4. r \in Script /\ r.pc = "stop" /\ r.pid = None
    BY <2>1 DEF Script, Where
  <2>. HIDE DEF r
  <2>. QED BY <1>1, <2>3, <2>4, OneScript, NothingDies DEF Stops
<1>. QED BY <1>2, <1>3

\* A user starts a script where it holds no pid.
LEMMA CallStep ==
  ASSUME Inv, NEW u \in Users, NEW op \in modem.ops, Call(u, op)
  PROVE  Inv'
<1>. DEFINE next == IF op = "restart" THEN "start" ELSE "idle"
            r == [srv[u] EXCEPT !.pc = Places[op], !.next = next]
<1>1. u \in Procs BY DEF Procs
<1>2. srv[u] \in Script /\ srv[u].pid = None
  BY <1>1 DEF Inv, Signals, Before, Call, At
<1>3. Places[op] \in {"start", "stop", "apn"}
  BY ModemAssumption DEF Inv, Places
<1>4. r \in Script /\ r.pc \in {"start", "stop", "apn"} /\ r.pid = None
  BY <1>2, <1>3 DEF Script, Where
<1>5. srv' = [srv EXCEPT ![u] = r]
  BY <1>1, <1>2 DEF Call, Inv, Script
<1>6. modem' = modem /\ mon' = mon BY DEF Call, hotplug
<1>. HIDE DEF r
<1>. QED BY <1>1, <1>4, <1>5, <1>6, OneScript, NothingDies DEF Stops

----------------------------------------------------------------------------
\* modem_stop takes the pid that it signals.
LEMMA StopCheckStep == ASSUME Inv, NEW p \in Procs, StopCheck(p) PROVE Inv'
<1>1. srv[p].pc = "stop" /\ modem' = modem /\ mon' = mon
  BY DEF StopCheck, At, hotplug
<1>2. srv[p] \in Script /\ srv[p].pid = None
  BY <1>1 DEF Inv, Signals, Before
<1>3. CASE Exit(p) BY <1>1, <1>3, GoesOn, NothingDies DEF Before
<1>4. CASE Goto(p, "unrule")
  <2>. DEFINE r == [srv[p] EXCEPT !.pc = "unrule"]
  <2>1. r \in Script /\ srv' = [srv EXCEPT ![p] = r]
    BY <1>4, Moves DEF Where
  <2>2. r.pc = "unrule" BY <1>2 DEF Script
  <2>. HIDE DEF r
  <2>. QED BY <1>1, <2>1, <2>2, OneScript, NothingDies DEF Stops, Before
<1>5. CASE ~Exit(p) /\ ~Goto(p, "unrule")
  <2>. DEFINE r == [srv[p] EXCEPT !.pc = "signal", !.pid = pidfile,
                                  !.left = Tries]
  <2>1. pidfile \in Pids /\
        srv' = [srv EXCEPT ![p].pc = "signal", ![p].pid = pidfile,
                           ![p].left = Tries]
    BY <1>5 DEF StopCheck, PidAlive
  <2>2. srv' = [srv EXCEPT ![p] = r] BY <1>2, <2>1 DEF Inv, Script
  <2>3. Tries \in 0..Tries /\ Tries > 0 BY ModemAssumption
  <2>4. /\ r \in Script /\ r.pc = "signal"
        /\ r.pid \in Pids /\ r.left = Tries
    BY <1>2, <2>1, <2>3 DEF Script, Where
  <2>. HIDE DEF r
  <2>. QED BY <1>1, <2>2, <2>3, <2>4, OneScript, NothingDies DEF Before
<1>. QED BY <1>3, <1>4, <1>5

\* The last signal kills.
LEMMA SignalStep == ASSUME Inv, NEW p \in Procs, Signal(p) PROVE Inv'
<1>. DEFINE m == srv[p].pid
            r == [srv[p] EXCEPT !.pc = "check"]
<1>1. srv[p].pc = "signal" /\ modem' = modem /\ Goto(p, "check")
  BY DEF Signal, At, hotplug
<1>2. srv[p] \in Script /\ m \in Pids /\ srv[p].left > 0
  BY <1>1 DEF Inv, Signals, Stops
<1>3. r \in Script /\ srv' = [srv EXCEPT ![p] = r]
  BY <1>1, Moves DEF Where
<1>4. r.pc = "check" /\ r.pid = m /\ r.left = srv[p].left
  BY <1>2 DEF Script
<1>5. CASE mon' = [mon EXCEPT ![m] = "dead"]
  <2>1. mon' \in [Pids -> Alive \cup {"dead"}] /\ Buried /\ mon'[m] = "dead"
    BY <1>2, <1>5 DEF Inv, Buried
  <2>. HIDE DEF r, m
  <2>. QED BY <1>1, <1>2, <1>3, <1>4, <2>1, OneScript DEF Before
<1>6. CASE srv[p].left # 1 /\ mon' = mon
  <2>. HIDE DEF r, m
  <2>. QED BY <1>1, <1>2, <1>3, <1>4, <1>6, OneScript, NothingDies DEF Before
<1>. QED BY <1>5, <1>6 DEF Signal, LastTry

LEMMA CheckStep == ASSUME Inv, NEW p \in Procs, Check(p) PROVE Inv'
<1>. DEFINE gone == mon[srv[p].pid] = "dead"
            left == srv[p].left - 1
            r == [srv[p] EXCEPT !.left = left,
                    !.pc = IF gone \/ left = 0 THEN "unrule" ELSE "signal"]
<1>1. srv[p].pc = "check" /\ modem' = modem /\ mon' = mon
  BY DEF Check, At, hotplug
<1>2. srv[p] \in Script /\ srv[p].pid \in Pids /\ srv[p].left > 0
  BY <1>1 DEF Inv, Signals, Stops
<1>3. left \in 0..Tries BY <1>2, ModemAssumption DEF Script
<1>4. srv' = [srv EXCEPT ![p].left = left, ![p].pc =
                IF gone \/ left = 0 THEN "unrule" ELSE "signal"]
  BY DEF Check
<1>5. srv' = [srv EXCEPT ![p] = r]
  BY <1>2, <1>4 DEF Inv, Script
<1>6. /\ r \in Script /\ r.pid = srv[p].pid /\ r.left = left
      /\ r.pc = "unrule" \/ (r.pc = "signal" /\ left # 0)
  BY <1>2, <1>3 DEF Script, Where
<1>7. left # 0 => left > 0 BY <1>2, ModemAssumption DEF Script
<1>. HIDE DEF r, left
<1>8. r.pc \in Stops => r.pid \in Pids /\ r.left > 0
  BY <1>2, <1>6, <1>7 DEF Stops
<1>. QED BY <1>1, <1>5, <1>6, <1>8, OneScript, NothingDies DEF Before

LEMMA StopSteps ==
  ASSUME Inv, NEW p \in Procs, Unrule(p) \/ Stopped(p)
  PROVE  Inv'
<1>1. srv[p].pc \in {"unrule", "stopped"} /\ modem' = modem /\ mon' = mon
  BY DEF Unrule, Stopped, At, hotplug
<1>2. srv[p] \in Script BY DEF Inv
<1>3. CASE Exit(p)
  <2>1. Idle \in Script /\ srv' = [srv EXCEPT ![p] = Idle]
    BY <1>3, Moves DEF Where
  <2>2. Idle.pc = "idle" /\ Idle.pid = None BY DEF Idle
  <2>. QED BY <1>1, <2>1, <2>2, OneScript, NothingDies DEF Stops
<1>4. CASE Unrule(p)
  <2>. DEFINE r == [srv[p] EXCEPT !.pc = "stopped"]
  <2>1. r \in Script /\ srv' = [srv EXCEPT ![p] = r]
    BY <1>4, Moves DEF Unrule, Where
  <2>2. r.pc = "stopped" BY <1>2 DEF Script
  <2>. HIDE DEF r
  <2>. QED BY <1>1, <2>1, <2>2, OneScript, NothingDies DEF Stops, Before
<1>5. CASE Stopped(p) /\ ~Exit(p)
  <2>. DEFINE r == [Idle EXCEPT !.pc = srv[p].next]
  <2>1. srv' = [srv EXCEPT ![p] = r] BY <1>5 DEF Stopped
  <2>2. r \in Script /\ r.pc \in {"idle", "start"} /\ r.pid = None
    BY <1>2, ModemAssumption DEF Script, Idle, Where
  <2>. HIDE DEF r
  <2>. QED BY <1>1, <2>1, <2>2, OneScript, NothingDies DEF Stops
<1>. QED BY <1>3, <1>4, <1>5

----------------------------------------------------------------------------
\* A monitor that runs may die, and one that is dead does nothing.
LEMMA MonitorStep == ASSUME Inv, NEW m \in Pids, Monitor(m) PROVE Inv'
<1>1. modem' = modem /\ srv' = srv /\ mon[m] # "dead"
  BY DEF Monitor, MonitorOpens, MonitorWrites, MonitorSetsUp, MonitorDies,
         hotplug, Alive
<1>2. \E x \in Alive \cup {"dead"} : mon' = [mon EXCEPT ![m] = x]
  BY DEF Monitor, MonitorOpens, MonitorWrites, MonitorSetsUp, MonitorDies, Alive
<1>3. mon' \in [Pids -> Alive \cup {"dead"}] /\ Buried
  BY <1>1, <1>2 DEF Inv, Buried
<1>. QED BY <1>1, <1>3, Kept

LEMMA HandlerStep == ASSUME Inv, Handler PROVE Inv'
<1>1. CASE RunScript
  <2>1. PICK place \in {"start", "apn", "stop"} : Goto("hot", place)
    BY <1>1 DEF RunScript, Doing
  <2>2. /\ srv["hot"].pc \in Before /\ modem' = modem /\ mon' = mon
        /\ "hot" \in Procs
    BY <1>1 DEF RunScript, Doing, At, Before, Done, Procs
  <2>. QED BY <2>1, <2>2, GoesOn, NothingDies DEF Before
<1>2. CASE Spawn
  <2>1. PICK b \in Bgs : At(b, "idle") /\ Goto(b, "start")
    BY <1>2 DEF Spawn
  <2>2. b \in Procs /\ srv[b].pc \in Before /\ modem' = modem /\ mon' = mon
    BY <1>2, <2>1 DEF Spawn, At, Before, Done, Procs
  <2>. QED BY <2>1, <2>2, GoesOn, NothingDies DEF Before
<1>3. CASE Elsewhere BY <1>3, Kept, NothingDies DEF Elsewhere
<1>. QED BY <1>1, <1>2, <1>3
         DEF Handler, Handle, SetOptions, Test, NothingToStop, Forget, Delete,
             Done, Elsewhere

LEMMA Inductive == Inv /\ [Next]_vars => Inv'
<1>. SUFFICES ASSUME Inv, [Next]_vars PROVE Inv' OBVIOUS
<1>1. ASSUME NEW p \in Procs, Service(p) PROVE Inv'
  BY <1>1, StartSteps, LaunchStep, ApnWriteStep, StopCheckStep, SignalStep,
     CheckStep, StopSteps DEF Service
<1>2. ASSUME NEW o \in Orders, Plug(o) \/ Unplug(o) PROVE Inv'
  <2>1. Elsewhere BY <1>2 DEF Plug, Unplug, Elsewhere
  <2>. QED BY <2>1, Kept, NothingDies DEF Elsewhere
<1>3. CASE UNCHANGED vars
  <2>1. Elsewhere BY <1>3 DEF vars, hotplug, Elsewhere
  <2>. QED BY <2>1, Kept, NothingDies DEF Elsewhere
<1>. QED BY <1>1, <1>2, <1>3, CallStep, MonitorStep, HandlerStep DEF Next

LEMMA InvInit == Init => Inv
<1>. SUFFICES ASSUME Init PROVE Inv OBVIOUS
<1>1. Idle \in Script BY ModemAssumption DEF Idle, Script, Where
<1>2. srv \in [Procs -> Script] /\ \A p \in Procs : srv[p] = Idle
  BY <1>1 DEF Init
<1>3. ASSUME NEW p \in Procs PROVE Signals(p)
  BY <1>2 DEF Signals, Idle, Stops
<1>. QED BY <1>2, <1>3 DEF Init, Inv

LEMMA InvHolds == Spec => []Inv
BY InvInit, Inductive, PTL DEF Spec

----------------------------------------------------------------------------
\* Only two steps of a process make it delete the firewall rules.
LEMMA Unrules ==
  ASSUME Inv, [Next]_vars, NEW p \in Procs,
         ~At(p, "unrule"), srv'[p].pc = "unrule", srv[p].pid # None
  PROVE  Check(p)
<1>0. srv \in [Procs -> Script] BY DEF Inv
<1>1. ASSUME NEW q \in Procs, NEW place \in Where \ {"unrule"},
             Goto(q, place) \/ Exit(q)
      PROVE  FALSE
  BY <1>0, <1>1 DEF Goto, Exit, Idle, At, Script
<1>2. srv' # srv BY DEF At
<1>3. ASSUME NEW q \in Procs, Service(q) PROVE Check(p)
  <2>1. CASE StartCheck(q) BY <1>1, <2>1 DEF StartCheck, Where
  <2>2. CASE Launch(q) BY <1>1, <2>2 DEF Launch, Where
  <2>3. CASE Started(q) BY <1>1, <2>3 DEF Started, Where
  <2>4. CASE StopCheck(q)
    <3>1. q = p BY <1>0, <2>4 DEF StopCheck, Goto, Exit, At
    <3>2. srv[p].pid = None BY <2>4, <3>1 DEF StopCheck, At, Inv, Signals, Before
    <3>. QED BY <3>2
  <2>5. CASE Signal(q) BY <1>1, <2>5 DEF Signal, Where
  <2>6. CASE Check(q)
    <3>1. q = p BY <1>0, <2>6 DEF Check, At
    <3>. QED BY <2>6, <3>1
  <2>7. CASE Unrule(q) BY <1>1, <2>7 DEF Unrule, Where
  <2>8. CASE Stopped(q)
    <3>1. srv[q].next \in {"idle", "start"} BY <1>0 DEF Script
    <3>. QED BY <1>0, <1>1, <2>8, <3>1 DEF Stopped, At, Where, Idle
  <2>9. CASE ApnCheck(q) BY <1>1, <2>9 DEF ApnCheck, Where
  <2>10. CASE ApnWrite(q)
    BY <1>0, <1>1, <2>10 DEF ApnWrite, At, Where, Script
  <2>. QED BY <1>3, <2>1, <2>2, <2>3, <2>4, <2>5, <2>6, <2>7, <2>8, <2>9, <2>10
           DEF Service
<1>4. ASSUME NEW u \in Users, NEW op \in modem.ops, Call(u, op) PROVE FALSE
  <2>1. u \in Procs BY DEF Procs
  <2>2. Places[op] \in {"start", "stop", "apn"}
    BY ModemAssumption DEF Inv, Places
  <2>. QED BY <1>0, <1>4, <2>1, <2>2 DEF Call, At, Script
<1>5. CASE Handler
  <2>1. CASE RunScript
    <3>1. PICK place \in {"start", "apn", "stop"} : Goto("hot", place)
      BY <2>1 DEF RunScript, Doing
    <3>. QED BY <1>1, <3>1 DEF Where, Procs
  <2>2. CASE Spawn BY <1>1, <2>2 DEF Spawn, Where, Procs
  <2>3. CASE srv' = srv BY <1>2, <2>3
  <2>. QED BY <1>5, <2>1, <2>2, <2>3
           DEF Handler, Handle, SetOptions, Test, NothingToStop, Forget, Delete
<1>6. ASSUME NEW m \in Pids, Monitor(m) PROVE FALSE
  BY <1>2, <1>6 DEF Monitor, MonitorOpens, MonitorWrites, MonitorSetsUp,
                    MonitorDies
<1>7. ASSUME NEW o \in Orders, Plug(o) \/ Unplug(o) PROVE FALSE
  BY <1>2, <1>7 DEF Plug, Unplug
<1>8. ~UNCHANGED vars BY <1>2 DEF vars
<1>. QED BY <1>3, <1>4, <1>5, <1>6, <1>7, <1>8 DEF Next

\* Whatever other stops, starts, handlers and monitors do meanwhile, modem_stop
\* goes on to delete the firewall rules only when the monitor that it signalled
\* is dead: SIGKILL is the last of its signals, and a pid to which it refers is
\* not given to another monitor.
THEOREM StopsKill == Spec => StopKills
<1>1. Inv /\ [Next]_vars =>
        [\A p \in Procs :
           ~At(p, "unrule") /\ srv'[p].pc = "unrule" /\ srv[p].pid # None
             => mon'[srv[p].pid] = "dead"]_vars
  <2>. SUFFICES ASSUME Inv, [Next]_vars, NEW p \in Procs,
                       ~At(p, "unrule"), srv'[p].pc = "unrule",
                       srv[p].pid # None
                PROVE  mon'[srv[p].pid] = "dead"
    OBVIOUS
  <2>1. Check(p) BY Unrules
  <2>2. srv[p].pc = "check" /\ mon' = mon BY <2>1 DEF Check, At
  <2>3. srv[p] \in Script /\ Signals(p) BY DEF Inv
  <2>4. mon[srv[p].pid] = "dead" \/ srv[p].left - 1 = 0
    BY <2>1, <2>3 DEF Check, Inv, Script
  <2>. QED BY <2>2, <2>3, <2>4 DEF Signals, Script
<1>. QED BY <1>1, InvHolds, PTL DEF Spec, StopKills

----------------------------------------------------------------------------
\* A handler from its second step on.

LEMMA Rest ==
  ASSUME NEW s \in Seq(StepType), s # <<>>
  PROVE  /\ Len(s) \in Nat \ {0} /\ Tail(s) \in Seq(StepType)
         /\ Len(Tail(s)) = Len(s) - 1 /\ Head(s) = s[1] /\ s[1] \in StepType
         /\ \A i \in 1..Len(s) : s[i] \in StepType
         /\ \A i \in 1..Len(s) - 1 : Tail(s)[i] = s[i + 1]
OBVIOUS

\* The options set before a step of the rest of it.
After(s, c) == IF s[1].do = "set" THEN c \cup s[1].arg ELSE c

LEMMA ConfRest ==
  ASSUME NEW s \in Seq(StepType), s # <<>>, NEW c, NEW i \in 1..Len(s)
  PROVE  Conf(s, c, i + 1) = Conf(Tail(s), After(s, c), i)
<1>1. s[1].arg \subseteq Settable BY Rest DEF StepType
<1>2. ASSUME NEW x \in Settable
      PROVE  (\E j \in 1..i : s[j].do = "set" /\ x \in s[j].arg)
               <=> \/ s[1].do = "set" /\ x \in s[1].arg
                   \/ \E j \in 1..i - 1 :
                        Tail(s)[j].do = "set" /\ x \in Tail(s)[j].arg
  <2>1. ASSUME NEW j \in 1..i, s[j].do = "set" /\ x \in s[j].arg, j # 1
        PROVE  \E l \in 1..i - 1 : Tail(s)[l].do = "set" /\ x \in Tail(s)[l].arg
    <3>1. j - 1 \in 1..i - 1 /\ Tail(s)[j - 1] = s[j] BY <2>1, Rest
    <3>. QED BY <2>1, <3>1
  <2>2. ASSUME NEW j \in 1..i - 1, Tail(s)[j].do = "set" /\ x \in Tail(s)[j].arg
        PROVE  \E l \in 1..i : s[l].do = "set" /\ x \in s[l].arg
    <3>1. j + 1 \in 1..i /\ Tail(s)[j] = s[j + 1] BY Rest
    <3>. QED BY <2>2, <3>1
  <2>3. 1 \in 1..i OBVIOUS
  <2>. QED BY <2>1, <2>2, <2>3
<1>3. i + 1 - 1 = i OBVIOUS
<1>. QED BY <1>1, <1>2, <1>3 DEF Conf, After

LEMMA PassRest ==
  ASSUME NEW s \in Seq(StepType), s # <<>>, NEW c, NEW i \in 1..Len(s) - 1
  PROVE  Pass(s, c, i + 1) <=> Pass(Tail(s), After(s, c), i)
<1>1. i \in 1..Len(s) /\ Tail(s)[i] = s[i + 1] BY Rest
<1>. QED BY <1>1, ConfRest DEF Pass

LEMMA ReachedRest ==
  ASSUME NEW s \in Seq(StepType), s # <<>>, NEW c, Pass(s, c, 1),
         NEW i \in 1..Len(s) - 1
  PROVE  Reached(s, c, i + 1) <=> Reached(Tail(s), After(s, c), i)
<1>0. Len(s) \in Nat BY Rest
<1>1. ASSUME Reached(s, c, i + 1), NEW j \in 1..i - 1
      PROVE  Pass(Tail(s), After(s, c), j)
  <2>1. j + 1 \in 1..i + 1 - 1 /\ j \in 1..Len(s) - 1 BY <1>0
  <2>2. Pass(s, c, j + 1) BY <1>1, <2>1 DEF Reached
  <2>. QED BY <2>1, <2>2, PassRest
<1>2. ASSUME Reached(Tail(s), After(s, c), i), NEW j \in 1..i + 1 - 1
      PROVE  Pass(s, c, j)
  <2>1. CASE j = 1 BY <2>1
  <2>2. CASE j # 1
    <3>1. j - 1 \in 1..i - 1 /\ j - 1 \in 1..Len(s) - 1 /\ j - 1 + 1 = j
      BY <1>0, <2>2
    <3>2. Pass(Tail(s), After(s, c), j - 1) BY <1>2, <3>1 DEF Reached
    <3>3. Pass(s, c, (j - 1) + 1) BY <3>1, <3>2, PassRest
    <3>. QED BY <3>1, <3>3
  <2>. QED BY <2>1, <2>2
<1>. QED BY <1>1, <1>2 DEF Reached

LEMMA Begins ==
  ASSUME NEW s, NEW c PROVE Conf(s, c, 1) = c /\ Reached(s, c, 1)
BY DEF Conf, Reached

\* Past its first step the rest of a handler runs as the whole did.
LEMMA RunsRest ==
  ASSUME NEW s \in Seq(StepType), s # <<>>, NEW c
  PROVE  Runs(s, c) <=> \/ s[1].do \in {"start", "spawn"} /\ Complete(c)
                        \/ Pass(s, c, 1) /\ Runs(Tail(s), After(s, c))
<1>0. Len(s) \in Nat \ {0} /\ Len(Tail(s)) = Len(s) - 1 BY Rest
<1>1. ASSUME NEW k \in 1..Len(s), s[k].do \in {"start", "spawn"},
             Reached(s, c, k), Complete(Conf(s, c, k)), k # 1
      PROVE  Pass(s, c, 1) /\ Runs(Tail(s), After(s, c))
  <2>1. 1 \in 1..k - 1 BY <1>0, <1>1
  <2>2. Pass(s, c, 1) BY <1>1, <2>1 DEF Reached
  <2>. DEFINE l == k - 1
  <2>3. /\ l \in 1..Len(s) - 1 /\ l \in 1..Len(s) /\ l \in 1..Len(Tail(s))
        /\ l + 1 = k
    BY <1>0, <1>1
  <2>. HIDE DEF l
  <2>4. Tail(s)[l].do \in {"start", "spawn"} BY <1>1, <2>3, Rest
  <2>5. Reached(Tail(s), After(s, c), l) BY <1>1, <2>2, <2>3, ReachedRest
  <2>6. Complete(Conf(Tail(s), After(s, c), l)) BY <1>1, <2>3, ConfRest
  <2>. QED BY <2>2, <2>3, <2>4, <2>5, <2>6 DEF Runs
<1>2. ASSUME Pass(s, c, 1), Runs(Tail(s), After(s, c)) PROVE Runs(s, c)
  <2>1. PICK l \in 1..Len(Tail(s)) :
               /\ Tail(s)[l].do \in {"start", "spawn"}
               /\ Reached(Tail(s), After(s, c), l)
               /\ Complete(Conf(Tail(s), After(s, c), l))
    BY <1>2 DEF Runs
  <2>2. l \in 1..Len(s) - 1 /\ l \in 1..Len(s) /\ l + 1 \in 1..Len(s) BY <1>0
  <2>3. s[l + 1].do \in {"start", "spawn"} BY <2>1, <2>2, Rest
  <2>4. Reached(s, c, l + 1) BY <1>2, <2>1, <2>2, ReachedRest
  <2>5. Complete(Conf(s, c, l + 1)) BY <2>1, <2>2, ConfRest
  <2>. QED BY <2>2, <2>3, <2>4, <2>5 DEF Runs
<1>3. 1 \in 1..Len(s) BY <1>0
<1>4. ASSUME s[1].do \in {"start", "spawn"}, Complete(c) PROVE Runs(s, c)
  BY <1>3, <1>4, Begins DEF Runs
<1>. QED BY <1>1, <1>2, <1>4, Begins DEF Runs

LEMMA GetsRest ==
  ASSUME NEW s \in Seq(StepType), s # <<>>, NEW c
  PROVE  Gets(s, c) = IF Pass(s, c, 1) THEN Gets(Tail(s), After(s, c))
                      ELSE Settable \cap After(s, c)
<1>0. Len(s) \in Nat \ {0} /\ Len(Tail(s)) = Len(s) - 1 /\ s[1] \in StepType
  BY Rest
<1>1. 1 \in 1..Len(s) BY <1>0
<1>2. ASSUME NEW x \in Settable, NEW j \in 1..Len(s), j # 1,
             s[j].do = "set" /\ x \in s[j].arg, Reached(s, c, j)
      PROVE  Pass(s, c, 1) /\ x \in Gets(Tail(s), After(s, c))
  <2>1. 1 \in 1..j - 1 BY <1>0, <1>2
  <2>2. Pass(s, c, 1) BY <1>2, <2>1 DEF Reached
  <2>. DEFINE l == j - 1
  <2>3. l \in 1..Len(s) - 1 /\ l \in 1..Len(Tail(s)) /\ l + 1 = j BY <1>0, <1>2
  <2>. HIDE DEF l
  <2>4. Tail(s)[l].do = "set" /\ x \in Tail(s)[l].arg BY <1>2, <2>3, Rest
  <2>5. Reached(Tail(s), After(s, c), l) BY <1>2, <2>2, <2>3, ReachedRest
  <2>. QED BY <2>2, <2>3, <2>4, <2>5 DEF Gets
<1>3. ASSUME NEW x \in Settable, NEW l \in 1..Len(Tail(s)), Pass(s, c, 1),
             Tail(s)[l].do = "set" /\ x \in Tail(s)[l].arg,
             Reached(Tail(s), After(s, c), l)
      PROVE  x \in Gets(s, c)
  <2>1. l \in 1..Len(s) - 1 /\ l + 1 \in 1..Len(s) BY <1>0
  <2>2. s[l + 1].do = "set" /\ x \in s[l + 1].arg BY <1>3, <2>1, Rest
  <2>3. Reached(s, c, l + 1) BY <1>3, <2>1, ReachedRest
  <2>. QED BY <2>1, <2>2, <2>3 DEF Gets
<1>4. ASSUME NEW x \in Settable PROVE x \in After(s, c) => x \in Gets(s, c)
  BY <1>1, Begins DEF After, Gets
<1>5. ASSUME NEW x \in Settable
      PROVE  x \in Gets(s, c) =>
               \/ x \in After(s, c)
               \/ Pass(s, c, 1) /\ x \in Gets(Tail(s), After(s, c))
  BY <1>2 DEF After, Gets
<1>6. ASSUME NEW x \in Settable, Pass(s, c, 1)
      PROVE  x \in Gets(Tail(s), After(s, c)) => x \in Gets(s, c)
  BY <1>3, <1>4, <1>6 DEF Gets
<1>7. ASSUME NEW x \in Settable
      PROVE  x \in After(s, c) => x \in Gets(Tail(s), After(s, c))
  BY DEF Gets
<1>8. /\ Gets(s, c) \subseteq Settable
      /\ Gets(Tail(s), After(s, c)) \subseteq Settable
  BY DEF Gets
<1>. QED BY <1>4, <1>5, <1>6, <1>7, <1>8

\* Nor does it matter whether the service has been marked as started.
LEMMA Same ==
  ASSUME NEW s \in Seq(StepType), NEW c, NEW d, c \cap Settable = d \cap Settable
  PROVE  /\ Complete(c) <=> Complete(d)
         /\ Runs(s, c) <=> Runs(s, d)
         /\ Gets(s, c) = Gets(s, d)
<1>1. "type" \in Settable /\ "ifname" \in Settable BY DEF Settable, Options
<1>2. \A i : Conf(s, c, i) \cap Settable = Conf(s, d, i) \cap Settable
  BY DEF Conf
<1>3. \A x \in Settable : \A i : x \in Conf(s, c, i) <=> x \in Conf(s, d, i)
  BY <1>2
<1>4. ASSUME NEW i \in 1..Len(s) PROVE Pass(s, c, i) <=> Pass(s, d, i)
  <2>0. s[i] \in StepType OBVIOUS
  <2>1. s[i].arg \subseteq Settable BY <2>0 DEF StepType
  <2>. QED BY <1>3, <2>1 DEF Pass
<1>5. ASSUME NEW i \in 1..Len(s) PROVE Reached(s, c, i) <=> Reached(s, d, i)
  <2>1. \A j \in 1..i - 1 : j \in 1..Len(s) OBVIOUS
  <2>. QED BY <1>4, <2>1 DEF Reached
<1>6. \A i : Complete(Conf(s, c, i)) <=> Complete(Conf(s, d, i))
  BY <1>1, <1>3 DEF Complete
<1>7. Complete(c) <=> Complete(d) BY <1>1 DEF Complete
<1>8. Runs(s, c) <=> Runs(s, d) BY <1>5, <1>6 DEF Runs
<1>9. Gets(s, c) = Gets(s, d) BY <1>5 DEF Gets
<1>. QED BY <1>7, <1>8, <1>9

----------------------------------------------------------------------------
\* The handlers, written out.

Defers ==
  <<Step("unless", {"auxdevice"}), Step("set", {"section", "auxdevice"})>>
Controls ==
  <<Step("unless", {"auxdevice"}), Step("set", {"section", "auxdevice"}),
    Step("need", {"type"}), Step("unless", {"device"}), Step("set", {"device"}),
    Step("apn", {}), Step("start", {})>>
Dials ==
  <<Step("unless", {"device"}),
    Step("set", {"section", "device", "ifname", "type"}), Step("apn", {}),
    Step("spawn", {})>>
Managed ==
  <<Step("unless", {"device"}), Step("set", {"section", "device", "type"}),
    Step("spawn", {})>>
NetNew    == Step("set", {"section", "ifname", "type"})
HybridNet == <<NetNew, Step("need", {"device"}), Step("start", {})>>
Answers ==
  <<Step("unless", {"device"}), NetNew, Step("set", {"device"}), Step("apn", {}),
    Step("start", {})>>
Waits ==
  <<Step("unless", {"device"}), NetNew, Step("need", {"auxdevice"}),
    Step("set", {"device"}), Step("apn", {}), Step("start", {})>>
Unmanaged == <<Step("unless", {"device"}), NetNew, Step("start", {})>>

LEMMA Equal ==
  ASSUME NEW S, NEW s \in Seq(S), NEW t \in Seq(S), Len(s) = Len(t),
         \A i \in 1..Len(s) : s[i] = t[i]
  PROVE  s = t
<1>1. s \in [1..Len(s) -> S] /\ t \in [1..Len(s) -> S] OBVIOUS
<1>. QED BY <1>1

LEMMA Join1 ==
  ASSUME NEW a, NEW b, NEW c
  PROVE  <<a, b>> \o <<c>> = <<a, b, c>>
<1>. DEFINE S == {a, b, c}
            x == <<a, b>> \o <<c>>
            y == <<a, b, c>>
<1>1. x \in Seq(S) /\ y \in Seq(S) /\ Len(x) = 3 /\ Len(y) = 3 OBVIOUS
<1>2. \A i \in 1..3 : x[i] = y[i] OBVIOUS
<1>. HIDE DEF x, y, S
<1>3. x = y BY <1>1, <1>2, Equal
<1>. QED BY <1>3 DEF x, y

LEMMA Join3 ==
  ASSUME NEW a, NEW b, NEW c, NEW d, NEW e
  PROVE  <<a, b>> \o <<c, d, e>> = <<a, b, c, d, e>>
<1>. DEFINE S == {a, b, c, d, e}
            x == <<a, b>> \o <<c, d, e>>
            y == <<a, b, c, d, e>>
<1>1. x \in Seq(S) /\ y \in Seq(S) /\ Len(x) = 5 /\ Len(y) = 5 OBVIOUS
<1>2. \A i \in 1..5 : x[i] = y[i] OBVIOUS
<1>. HIDE DEF x, y, S
<1>3. x = y BY <1>1, <1>2, Equal
<1>. QED BY <1>3 DEF x, y

LEMMA JoinWaits ==
  <<Step("unless", {"device"}), NetNew, Step("need", {"auxdevice"})>>
    \o <<Step("set", {"device"}), Step("apn", {}), Step("start", {})>> = Waits
<1>. DEFINE S == {Step("unless", {"device"}), Step("unless", {"auxdevice"}),
                  NetNew, Step("set", {"section", "auxdevice"}),
                  Step("need", {"type"}), Step("need", {"auxdevice"}),
                  Step("set", {"device"}), Step("apn", {}), Step("start", {})}
            x ==
              <<Step("unless", {"device"}), NetNew, Step("need", {"auxdevice"})>>
                \o <<Step("set", {"device"}), Step("apn", {}), Step("start", {})>>
            y == Waits
<1>1. x \in Seq(S) /\ y \in Seq(S) /\ Len(x) = 6 /\ Len(y) = 6 BY DEF Waits
<1>2. \A i \in 1..6 : x[i] = y[i] BY DEF Waits
<1>. HIDE DEF x, y, S
<1>3. x = y BY <1>1, <1>2, Equal
<1>. QED BY <1>3 DEF x, y

LEMMA JoinControls ==
  Defers \o <<Step("need", {"type"}), Step("unless", {"device"}),
              Step("set", {"device"}), Step("apn", {}), Step("start", {})>>
    = Controls
<1>. DEFINE S == {Step("unless", {"device"}), Step("unless", {"auxdevice"}),
                  NetNew, Step("set", {"section", "auxdevice"}),
                  Step("need", {"type"}), Step("need", {"auxdevice"}),
                  Step("set", {"device"}), Step("apn", {}), Step("start", {})}
            x == Defers
                   \o <<Step("need", {"type"}), Step("unless", {"device"}),
                        Step("set", {"device"}), Step("apn", {}),
                        Step("start", {})>>
            y == Controls
<1>1. x \in Seq(S) /\ y \in Seq(S) /\ Len(x) = 7 /\ Len(y) = 7
  BY DEF Defers, Controls
<1>2. \A i \in 1..7 : x[i] = y[i] BY DEF Defers, Controls
<1>. HIDE DEF x, y, S
<1>3. x = y BY <1>1, <1>2, Equal
<1>. QED BY <1>3 DEF x, y

LEMMA TtyWritten ==
  ASSUME NEW m
  PROVE  /\ m.list = "modemmanager" => TtyAdded(m) = Managed
         /\ m.list \in {"qmihybrid", "sierranet"} => TtyAdded(m) = HybridTty
         /\ m.list = "serial" => TtyAdded(m) = Dials
         /\ m.list \notin {"modemmanager", "qmihybrid", "sierranet", "serial"}
              => TtyAdded(m) = IF NetType(m) = "huawei-ncm" THEN Controls
                               ELSE Defers
<1>1. m.list = "modemmanager" => TtyAdded(m) = Managed BY DEF TtyAdded, Managed
<1>2. m.list \in {"qmihybrid", "sierranet"} => TtyAdded(m) = HybridTty
  BY DEF TtyAdded
<1>3. m.list = "serial" => TtyAdded(m) = Dials BY DEF TtyAdded, Dials
<1>4. ASSUME m.list \notin {"modemmanager", "qmihybrid", "sierranet", "serial"}
      PROVE  TtyAdded(m) = IF NetType(m) = "huawei-ncm" THEN Controls ELSE Defers
  <2>1. Defers \o <<>> = Defers BY DEF Defers
  <2>2. TtyAdded(m) = Defers \o IF NetType(m) # "huawei-ncm" THEN <<>>
            ELSE <<Step("need", {"type"}), Step("unless", {"device"}),
                   Step("set", {"device"}), Step("apn", {}), Step("start", {})>>
    BY <1>4 DEF TtyAdded, Defers
  <2>3. CASE NetType(m) = "huawei-ncm" BY <2>2, <2>3, JoinControls
  <2>4. CASE NetType(m) # "huawei-ncm" BY <2>1, <2>2, <2>4
  <2>. QED BY <2>3, <2>4
<1>. QED BY <1>1, <1>2, <1>3, <1>4

LEMMA NetWritten ==
  ASSUME NEW m, NEW wdm \in BOOLEAN
  PROVE  IF m.list = "modemmanager" THEN NetAdded(m, wdm) = TtyAdded(m)
         ELSE /\ NetType(m) = "None" => NetAdded(m, wdm) = <<>>
              /\ NetType(m) \in {"qmihybrid", "sierranet"}
                   => NetAdded(m, wdm) = HybridNet
              /\ NetType(m) = "qmiwwan" => NetAdded(m, wdm) = Answers
              /\ NetType(m) = "huawei-ncm"
                   => NetAdded(m, wdm) \in {Answers, Waits}
              /\ NetType(m) = "cdcether" => NetAdded(m, wdm) = Unmanaged
<1>. DEFINE last == <<Step("set", {"device"}), Step("apn", {}),
                      Step("start", {})>>
            due  == <<Step("unless", {"device"}), NetNew>>
<1>1. due \o last = Answers BY Join3, Zenon DEF Answers
<1>2. (due \o <<Step("need", {"auxdevice"})>>) \o last = Waits
  <2>1. due \o <<Step("need", {"auxdevice"})>>
          = <<Step("unless", {"device"}), NetNew, Step("need", {"auxdevice"})>>
    BY Join1, Zenon
  <2>. QED BY <2>1, JoinWaits, Zenon
<1>3. due \o <<>> = due OBVIOUS
<1>. DEFINE Other == m.list # "modemmanager"
<1>4. Other /\ NetType(m) = "None" => NetAdded(m, wdm) = <<>> BY DEF NetAdded
<1>5. Other /\ NetType(m) \in {"qmihybrid", "sierranet"}
        => NetAdded(m, wdm) = HybridNet
  BY DEF NetAdded, HybridNet, NetNew
<1>6. Other /\ NetType(m) = "qmiwwan" => NetAdded(m, wdm) = due \o last
  BY DEF NetAdded, NetNew
<1>7. Other /\ NetType(m) = "huawei-ncm" =>
        NetAdded(m, wdm) =
          (due \o IF wdm THEN <<>> ELSE <<Step("need", {"auxdevice"})>>) \o last
  BY DEF NetAdded, NetNew
<1>8. Other /\ NetType(m) = "cdcether" => NetAdded(m, wdm) = Unmanaged
  BY DEF NetAdded, Unmanaged, NetNew
<1>9. ~Other => NetAdded(m, wdm) = TtyAdded(m) BY DEF NetAdded
<1>. HIDE DEF last, due
<1>10. Other /\ NetType(m) = "huawei-ncm"
         => NetAdded(m, wdm) \in {Answers, Waits}
  <2>1. CASE wdm BY <1>1, <1>3, <1>7, <2>1
  <2>2. CASE ~wdm BY <1>2, <1>7, <2>2
  <2>. QED BY <2>1, <2>2
<1>. QED BY <1>1, <1>4, <1>5, <1>6, <1>8, <1>9, <1>10

\* The two handlers of modem m, t and n.
PairOf(m, t, n) ==
  \/ m.list = "modemmanager" /\ t = Managed /\ n = Managed
  \/ /\ t = HybridTty
     /\ n = HybridNet \/ (n \in {Answers, Waits} /\ Shadowed(m))
  \/ t = Dials /\ n \in {<<>>, Answers, Waits}
  \/ t = Controls /\ n \in {Answers, Waits}
  \/ /\ t = Defers
     /\ n \in {Answers, Unmanaged} \/ (n = <<>> /\ Unknown(m))

LEMMA Written ==
  ASSUME NEW m \in Modems, NEW wdm \in BOOLEAN
  PROVE  PairOf(m, TtyAdded(m), NetAdded(m, wdm))
<1>1. CASE m.list = "modemmanager" BY <1>1, TtyWritten, NetWritten DEF PairOf
<1>2. CASE m.list \in {"qmihybrid", "sierranet"}
  <2>1. NetType(m) \in {m.list, "huawei-ncm", "qmiwwan"} BY <1>2 DEF NetType
  <2>2. TtyAdded(m) = HybridTty BY <1>2, TtyWritten
  <2>3. CASE NetType(m) = m.list
    BY <1>2, <2>2, <2>3, NetWritten DEF PairOf
  <2>4. CASE NetType(m) # m.list
    <3>1. Shadowed(m) BY <1>2, <2>4 DEF Shadowed
    <3>2. NetAdded(m, wdm) \in {Answers, Waits}
      BY <1>2, <2>1, <2>4, NetWritten
    <3>. QED BY <2>2, <3>1, <3>2 DEF PairOf
  <2>. QED BY <2>3, <2>4
<1>3. CASE m.list = "serial"
  <2>1. NetType(m) \in {"huawei-ncm", "qmiwwan", "None"} BY <1>3 DEF NetType
  <2>2. NetAdded(m, wdm) \in {<<>>, Answers, Waits} BY <1>3, <2>1, NetWritten
  <2>. QED BY <1>3, <2>2, TtyWritten DEF PairOf
<1>4. CASE m.list \notin {"modemmanager", "qmihybrid", "sierranet", "serial"}
  <2>1. NetType(m) \in {"huawei-ncm", "qmiwwan", "cdcether", "None"}
    BY <1>4 DEF NetType
  <2>2. NetType(m) = "None" => Unknown(m) BY <1>4 DEF NetType, Unknown
  <2>. QED BY <1>4, <2>1, <2>2, TtyWritten, NetWritten DEF PairOf
<1>. QED BY <1>1, <1>2, <1>3, <1>4

LEMMA ShadowedNet ==
  ASSUME NEW m, Shadowed(m), NEW wdm \in BOOLEAN
  PROVE  NetAdded(m, wdm) \in {Answers, Waits}
<1>1. NetType(m) \in {"huawei-ncm", "qmiwwan"} BY DEF Shadowed, NetType
<1>2. m.list # "modemmanager" BY DEF Shadowed
<1>. QED BY <1>1, <1>2, NetWritten

----------------------------------------------------------------------------
\* What each of them sets and when it gets to the start.

LEMMA StepKinds ==
  ASSUME NEW do \in Adds, NEW arg \in SUBSET Settable
  PROVE  /\ Step(do, arg) \in StepType
         /\ Step(do, arg).do = do /\ Step(do, arg).arg = arg
BY DEF Step, StepType

LEMMA Names ==
  /\ {} \in SUBSET Settable /\ {"section"} \in SUBSET Settable
  /\ {"device"} \in SUBSET Settable /\ {"auxdevice"} \in SUBSET Settable
  /\ {"ifname"} \in SUBSET Settable /\ {"type"} \in SUBSET Settable
  /\ {"section", "device"} \in SUBSET Settable
  /\ {"section", "auxdevice"} \in SUBSET Settable
  /\ {"section", "ifname", "type"} \in SUBSET Settable
  /\ {"section", "device", "type"} \in SUBSET Settable
  /\ {"section", "device", "ifname", "type"} \in SUBSET Settable
BY DEF Settable, Options

LEMMA AddsAre == Adds = {"set", "apn", "need", "unless", "start", "spawn"}
BY DEF Adds

LEMMA Conforms ==
  ASSUME NEW s, NEW c, NEW i \in Nat, NEW x \in Settable
  PROVE  x \in Conf(s, c, i) <=>
           \/ x \in c
           \/ \E j \in 1..i - 1 : s[j].do = "set" /\ x \in s[j].arg
BY DEF Conf

\* A handler that sets "section" with the first options that it sets.
LEMMA FirstNames ==
  ASSUME NEW s, NEW c, Adding(s), NEW k \in 1..Len(s),
         s[k].do = "set", "section" \in s[k].arg,
         \A i \in 1..k - 1 : s[i].do # "set"
  PROVE  NamesFirst(s, c)
<1>. SUFFICES ASSUME NEW i \in 1..Len(s), s[i].do = "set"
              PROVE  "section" \in Conf(s, c, i + 1)
  BY DEF NamesFirst
<1>1. "section" \in Settable BY DEF Settable, Options
<1>2. Len(s) \in Nat BY DEF Adding
<1>3. k \in 1..(i + 1) - 1 BY <1>2
<1>. QED BY <1>1, <1>3 DEF Conf

LEMMA DefersIs ==
  /\ Adding(Defers) /\ Len(Defers) = 2
  /\ \A c : NamesFirst(Defers, c)
  /\ Defers[1].do = "unless" /\ Defers[1].arg = {"auxdevice"}
  /\ Defers[2].do = "set" /\ Defers[2].arg = {"section", "auxdevice"}
<1>1. Len(Defers) = 2 BY DEF Defers
<1>2. /\ Defers[1] \in StepType /\ Defers[1].do = "unless"
      /\ Defers[1].arg = {"auxdevice"}
      /\ Defers[2] \in StepType /\ Defers[2].do = "set"
      /\ Defers[2].arg = {"section", "auxdevice"}
  BY StepKinds, Names, AddsAre DEF Defers
<1>3. Defers \in Seq(StepType) BY <1>2 DEF Defers
<1>4. Adding(Defers) BY <1>1, <1>2, <1>3 DEF Adding, Adds
<1>5. \A i \in 1..2 - 1 : Defers[i].do # "set" BY <1>2
<1>6. ASSUME NEW c PROVE NamesFirst(Defers, c)
  BY <1>1, <1>2, <1>4, <1>5, FirstNames
<1>. QED BY <1>1, <1>2, <1>4, <1>6

LEMMA ControlsIs ==
  /\ Adding(Controls) /\ Len(Controls) = 7
  /\ \A c : NamesFirst(Controls, c)
  /\ Controls[1].do = "unless" /\ Controls[1].arg = {"auxdevice"}
  /\ Controls[2].do = "set" /\ Controls[2].arg = {"section", "auxdevice"}
  /\ Controls[3].do = "need" /\ Controls[3].arg = {"type"}
  /\ Controls[4].do = "unless" /\ Controls[4].arg = {"device"}
  /\ Controls[5].do = "set" /\ Controls[5].arg = {"device"}
  /\ Controls[6].do = "apn"
  /\ Controls[7].do = "start"
<1>1. Len(Controls) = 7 BY DEF Controls
<1>2. /\ Controls[1] \in StepType /\ Controls[1].do = "unless"
      /\ Controls[1].arg = {"auxdevice"}
      /\ Controls[2] \in StepType /\ Controls[2].do = "set"
      /\ Controls[2].arg = {"section", "auxdevice"}
      /\ Controls[3] \in StepType /\ Controls[3].do = "need"
      /\ Controls[3].arg = {"type"}
      /\ Controls[4] \in StepType /\ Controls[4].do = "unless"
      /\ Controls[4].arg = {"device"}
      /\ Controls[5] \in StepType /\ Controls[5].do = "set"
      /\ Controls[5].arg = {"device"}
      /\ Controls[6] \in StepType /\ Controls[6].do = "apn"
      /\ Controls[6].arg = {}
      /\ Controls[7] \in StepType /\ Controls[7].do = "start"
      /\ Controls[7].arg = {}
  BY StepKinds, Names, AddsAre DEF Controls
<1>3. Controls \in Seq(StepType) BY <1>2 DEF Controls
<1>4. Adding(Controls) BY <1>1, <1>2, <1>3 DEF Adding, Adds
<1>5. \A i \in 1..2 - 1 : Controls[i].do # "set" BY <1>2
<1>6. ASSUME NEW c PROVE NamesFirst(Controls, c)
  BY <1>1, <1>2, <1>4, <1>5, FirstNames
<1>. QED BY <1>1, <1>2, <1>4, <1>6

LEMMA DialsIs ==
  /\ Adding(Dials) /\ Len(Dials) = 4
  /\ \A c : NamesFirst(Dials, c)
  /\ Dials[1].do = "unless" /\ Dials[1].arg = {"device"}
  /\ Dials[2].do = "set" /\ Dials[2].arg = {"section", "device", "ifname", "type"}
  /\ Dials[3].do = "apn"
  /\ Dials[4].do = "spawn"
<1>1. Len(Dials) = 4 BY DEF Dials
<1>2. /\ Dials[1] \in StepType /\ Dials[1].do = "unless"
      /\ Dials[1].arg = {"device"}
      /\ Dials[2] \in StepType /\ Dials[2].do = "set"
      /\ Dials[2].arg = {"section", "device", "ifname", "type"}
      /\ Dials[3] \in StepType /\ Dials[3].do = "apn" /\ Dials[3].arg = {}
      /\ Dials[4] \in StepType /\ Dials[4].do = "spawn" /\ Dials[4].arg = {}
  BY StepKinds, Names, AddsAre DEF Dials
<1>3. Dials \in Seq(StepType) BY <1>2 DEF Dials
<1>4. Adding(Dials) BY <1>1, <1>2, <1>3 DEF Adding, Adds
<1>5. \A i \in 1..2 - 1 : Dials[i].do # "set" BY <1>2
<1>6. ASSUME NEW c PROVE NamesFirst(Dials, c)
  BY <1>1, <1>2, <1>4, <1>5, FirstNames
<1>. QED BY <1>1, <1>2, <1>4, <1>6

LEMMA ManagedIs ==
  /\ Adding(Managed) /\ Len(Managed) = 3
  /\ \A c : NamesFirst(Managed, c)
  /\ Managed[1].do = "unless" /\ Managed[1].arg = {"device"}
  /\ Managed[2].do = "set" /\ Managed[2].arg = {"section", "device", "type"}
  /\ Managed[3].do = "spawn"
<1>1. Len(Managed) = 3 BY DEF Managed
<1>2. /\ Managed[1] \in StepType /\ Managed[1].do = "unless"
      /\ Managed[1].arg = {"device"}
      /\ Managed[2] \in StepType /\ Managed[2].do = "set"
      /\ Managed[2].arg = {"section", "device", "type"}
      /\ Managed[3] \in StepType /\ Managed[3].do = "spawn"
      /\ Managed[3].arg = {}
  BY StepKinds, Names, AddsAre DEF Managed
<1>3. Managed \in Seq(StepType) BY <1>2 DEF Managed
<1>4. Adding(Managed) BY <1>1, <1>2, <1>3 DEF Adding, Adds
<1>5. \A i \in 1..2 - 1 : Managed[i].do # "set" BY <1>2
<1>6. ASSUME NEW c PROVE NamesFirst(Managed, c)
  BY <1>1, <1>2, <1>4, <1>5, FirstNames
<1>. QED BY <1>1, <1>2, <1>4, <1>6

LEMMA HybridTtyIs ==
  /\ Adding(HybridTty) /\ Len(HybridTty) = 4
  /\ \A c : NamesFirst(HybridTty, c)
  /\ HybridTty[1].do = "set" /\ HybridTty[1].arg = {"section", "device"}
  /\ HybridTty[2].do = "apn"
  /\ HybridTty[3].do = "need" /\ HybridTty[3].arg = {"ifname"}
  /\ HybridTty[4].do = "start"
<1>1. Len(HybridTty) = 4 BY DEF HybridTty
<1>2. /\ HybridTty[1] \in StepType /\ HybridTty[1].do = "set"
      /\ HybridTty[1].arg = {"section", "device"}
      /\ HybridTty[2] \in StepType /\ HybridTty[2].do = "apn"
      /\ HybridTty[2].arg = {}
      /\ HybridTty[3] \in StepType /\ HybridTty[3].do = "need"
      /\ HybridTty[3].arg = {"ifname"}
      /\ HybridTty[4] \in StepType /\ HybridTty[4].do = "start"
      /\ HybridTty[4].arg = {}
  BY StepKinds, Names, AddsAre DEF HybridTty
<1>3. HybridTty \in Seq(StepType) BY <1>2 DEF HybridTty
<1>4. Adding(HybridTty) BY <1>1, <1>2, <1>3 DEF Adding, Adds
<1>5. \A i \in 1..1 - 1 : HybridTty[i].do # "set" BY <1>2
<1>6. ASSUME NEW c PROVE NamesFirst(HybridTty, c)
  BY <1>1, <1>2, <1>4, <1>5, FirstNames
<1>. QED BY <1>1, <1>2, <1>4, <1>6

LEMMA HybridNetIs ==
  /\ Adding(HybridNet) /\ Len(HybridNet) = 3
  /\ \A c : NamesFirst(HybridNet, c)
  /\ HybridNet[1].do = "set" /\ HybridNet[1].arg = {"section", "ifname", "type"}
  /\ HybridNet[2].do = "need" /\ HybridNet[2].arg = {"device"}
  /\ HybridNet[3].do = "start"
<1>1. Len(HybridNet) = 3 BY DEF HybridNet, NetNew
<1>2. /\ HybridNet[1] \in StepType /\ HybridNet[1].do = "set"
      /\ HybridNet[1].arg = {"section", "ifname", "type"}
      /\ HybridNet[2] \in StepType /\ HybridNet[2].do = "need"
      /\ HybridNet[2].arg = {"device"}
      /\ HybridNet[3] \in StepType /\ HybridNet[3].do = "start"
      /\ HybridNet[3].arg = {}
  BY StepKinds, Names, AddsAre DEF HybridNet, NetNew
<1>3. HybridNet \in Seq(StepType) BY <1>2 DEF HybridNet, NetNew
<1>4. Adding(HybridNet) BY <1>1, <1>2, <1>3 DEF Adding, Adds
<1>5. \A i \in 1..1 - 1 : HybridNet[i].do # "set" BY <1>2
<1>6. ASSUME NEW c PROVE NamesFirst(HybridNet, c)
  BY <1>1, <1>2, <1>4, <1>5, FirstNames
<1>. QED BY <1>1, <1>2, <1>4, <1>6

LEMMA AnswersIs ==
  /\ Adding(Answers) /\ Len(Answers) = 5
  /\ \A c : NamesFirst(Answers, c)
  /\ Answers[1].do = "unless" /\ Answers[1].arg = {"device"}
  /\ Answers[2].do = "set" /\ Answers[2].arg = {"section", "ifname", "type"}
  /\ Answers[3].do = "set" /\ Answers[3].arg = {"device"}
  /\ Answers[4].do = "apn"
  /\ Answers[5].do = "start"
<1>1. Len(Answers) = 5 BY DEF Answers, NetNew
<1>2. /\ Answers[1] \in StepType /\ Answers[1].do = "unless"
      /\ Answers[1].arg = {"device"}
      /\ Answers[2] \in StepType /\ Answers[2].do = "set"
      /\ Answers[2].arg = {"section", "ifname", "type"}
      /\ Answers[3] \in StepType /\ Answers[3].do = "set"
      /\ Answers[3].arg = {"device"}
      /\ Answers[4] \in StepType /\ Answers[4].do = "apn" /\ Answers[4].arg = {}
      /\ Answers[5] \in StepType /\ Answers[5].do = "start"
      /\ Answers[5].arg = {}
  BY StepKinds, Names, AddsAre DEF Answers, NetNew
<1>3. Answers \in Seq(StepType) BY <1>2 DEF Answers, NetNew
<1>4. Adding(Answers) BY <1>1, <1>2, <1>3 DEF Adding, Adds
<1>5. \A i \in 1..2 - 1 : Answers[i].do # "set" BY <1>2
<1>6. ASSUME NEW c PROVE NamesFirst(Answers, c)
  BY <1>1, <1>2, <1>4, <1>5, FirstNames
<1>. QED BY <1>1, <1>2, <1>4, <1>6

LEMMA WaitsIs ==
  /\ Adding(Waits) /\ Len(Waits) = 6
  /\ \A c : NamesFirst(Waits, c)
  /\ Waits[1].do = "unless" /\ Waits[1].arg = {"device"}
  /\ Waits[2].do = "set" /\ Waits[2].arg = {"section", "ifname", "type"}
  /\ Waits[3].do = "need" /\ Waits[3].arg = {"auxdevice"}
  /\ Waits[4].do = "set" /\ Waits[4].arg = {"device"}
  /\ Waits[5].do = "apn"
  /\ Waits[6].do = "start"
<1>1. Len(Waits) = 6 BY DEF Waits, NetNew
<1>2. /\ Waits[1] \in StepType /\ Waits[1].do = "unless"
      /\ Waits[1].arg = {"device"}
      /\ Waits[2] \in StepType /\ Waits[2].do = "set"
      /\ Waits[2].arg = {"section", "ifname", "type"}
      /\ Waits[3] \in StepType /\ Waits[3].do = "need"
      /\ Waits[3].arg = {"auxdevice"}
      /\ Waits[4] \in StepType /\ Waits[4].do = "set"
      /\ Waits[4].arg = {"device"}
      /\ Waits[5] \in StepType /\ Waits[5].do = "apn" /\ Waits[5].arg = {}
      /\ Waits[6] \in StepType /\ Waits[6].do = "start" /\ Waits[6].arg = {}
  BY StepKinds, Names, AddsAre DEF Waits, NetNew
<1>3. Waits \in Seq(StepType) BY <1>2 DEF Waits, NetNew
<1>4. Adding(Waits) BY <1>1, <1>2, <1>3 DEF Adding, Adds
<1>5. \A i \in 1..2 - 1 : Waits[i].do # "set" BY <1>2
<1>6. ASSUME NEW c PROVE NamesFirst(Waits, c)
  BY <1>1, <1>2, <1>4, <1>5, FirstNames
<1>. QED BY <1>1, <1>2, <1>4, <1>6

LEMMA UnmanagedIs ==
  /\ Adding(Unmanaged) /\ Len(Unmanaged) = 3
  /\ \A c : NamesFirst(Unmanaged, c)
  /\ Unmanaged[1].do = "unless" /\ Unmanaged[1].arg = {"device"}
  /\ Unmanaged[2].do = "set" /\ Unmanaged[2].arg = {"section", "ifname", "type"}
  /\ Unmanaged[3].do = "start"
<1>1. Len(Unmanaged) = 3 BY DEF Unmanaged, NetNew
<1>2. /\ Unmanaged[1] \in StepType /\ Unmanaged[1].do = "unless"
      /\ Unmanaged[1].arg = {"device"}
      /\ Unmanaged[2] \in StepType /\ Unmanaged[2].do = "set"
      /\ Unmanaged[2].arg = {"section", "ifname", "type"}
      /\ Unmanaged[3] \in StepType /\ Unmanaged[3].do = "start"
      /\ Unmanaged[3].arg = {}
  BY StepKinds, Names, AddsAre DEF Unmanaged, NetNew
<1>3. Unmanaged \in Seq(StepType) BY <1>2 DEF Unmanaged, NetNew
<1>4. Adding(Unmanaged) BY <1>1, <1>2, <1>3 DEF Adding, Adds
<1>5. \A i \in 1..2 - 1 : Unmanaged[i].do # "set" BY <1>2
<1>6. ASSUME NEW c PROVE NamesFirst(Unmanaged, c)
  BY <1>1, <1>2, <1>4, <1>5, FirstNames
<1>. QED BY <1>1, <1>2, <1>4, <1>6

LEMMA Known == /\ "type" \in Settable /\ "ifname" \in Settable
               /\ "device" \in Settable /\ "auxdevice" \in Settable
BY DEF Settable, Options

LEMMA ManagedRuns ==
  ASSUME NEW c, modem.list = "modemmanager", "device" \notin c
  PROVE  Runs(Managed, c)
<1>1. Pass(Managed, c, 1)
  BY ManagedIs, Begins DEF Pass
<1>2. Pass(Managed, c, 2)
  BY ManagedIs DEF Pass
<1>3. Reached(Managed, c, 3)
  <2>1. \A j \in 1..3 - 1 : j \in {1, 2} OBVIOUS
  <2>. QED BY <1>1, <1>2, <2>1 DEF Reached
<1>4. "type" \in Conf(Managed, c, 3)
  <2>1. 2 \in 1..3 - 1 /\ 3 \in Nat OBVIOUS
  <2>. QED BY <2>1, ManagedIs, Conforms, Known
<1>. QED BY <1>3, <1>4, ManagedIs DEF Runs, Complete

LEMMA DialsRuns ==
  ASSUME NEW c, "device" \notin c
  PROVE  Runs(Dials, c)
<1>1. Pass(Dials, c, 1)
  BY DialsIs, Begins DEF Pass
<1>2. Pass(Dials, c, 2)
  BY DialsIs DEF Pass
<1>3. Pass(Dials, c, 3)
  BY DialsIs DEF Pass
<1>4. Reached(Dials, c, 4)
  <2>1. \A j \in 1..4 - 1 : j \in {1, 2, 3} OBVIOUS
  <2>. QED BY <1>1, <1>2, <1>3, <2>1 DEF Reached
<1>5. "type" \in Conf(Dials, c, 4) /\ "ifname" \in Conf(Dials, c, 4)
  <2>1. 2 \in 1..4 - 1 /\ 4 \in Nat OBVIOUS
  <2>. QED BY <2>1, DialsIs, Conforms, Known
<1>. QED BY <1>4, <1>5, DialsIs DEF Runs, Complete

LEMMA HybridTtyRuns ==
  ASSUME NEW c, "ifname" \in c, "type" \in c
  PROVE  Runs(HybridTty, c)
<1>1. Pass(HybridTty, c, 1)
  BY HybridTtyIs DEF Pass
<1>2. Pass(HybridTty, c, 2)
  BY HybridTtyIs DEF Pass
<1>3. Pass(HybridTty, c, 3)
  BY HybridTtyIs, Conforms, Known DEF Pass
<1>4. Reached(HybridTty, c, 4)
  <2>1. \A j \in 1..4 - 1 : j \in {1, 2, 3} OBVIOUS
  <2>. QED BY <1>1, <1>2, <1>3, <2>1 DEF Reached
<1>5. "type" \in Conf(HybridTty, c, 4) /\ "ifname" \in Conf(HybridTty, c, 4)
  BY Conforms, Known
<1>. QED BY <1>4, <1>5, HybridTtyIs DEF Runs, Complete

LEMMA HybridNetRuns ==
  ASSUME NEW c, "device" \in c
  PROVE  Runs(HybridNet, c)
<1>1. Pass(HybridNet, c, 1)
  BY HybridNetIs DEF Pass
<1>2. Pass(HybridNet, c, 2)
  BY HybridNetIs, Conforms, Known DEF Pass
<1>3. Reached(HybridNet, c, 3)
  <2>1. \A j \in 1..3 - 1 : j \in {1, 2} OBVIOUS
  <2>. QED BY <1>1, <1>2, <2>1 DEF Reached
<1>4. "type" \in Conf(HybridNet, c, 3) /\ "ifname" \in Conf(HybridNet, c, 3)
  <2>1. 1 \in 1..3 - 1 /\ 3 \in Nat OBVIOUS
  <2>. QED BY <2>1, HybridNetIs, Conforms, Known
<1>. QED BY <1>3, <1>4, HybridNetIs DEF Runs, Complete

LEMMA AnswersRuns ==
  ASSUME NEW c, "device" \notin c
  PROVE  Runs(Answers, c)
<1>1. Pass(Answers, c, 1)
  BY AnswersIs, Begins DEF Pass
<1>2. Pass(Answers, c, 2)
  BY AnswersIs DEF Pass
<1>3. Pass(Answers, c, 3)
  BY AnswersIs DEF Pass
<1>4. Pass(Answers, c, 4)
  BY AnswersIs DEF Pass
<1>5. Reached(Answers, c, 5)
  <2>1. \A j \in 1..5 - 1 : j \in {1, 2, 3, 4} OBVIOUS
  <2>. QED BY <1>1, <1>2, <1>3, <1>4, <2>1 DEF Reached
<1>6. "type" \in Conf(Answers, c, 5) /\ "ifname" \in Conf(Answers, c, 5)
  <2>1. 2 \in 1..5 - 1 /\ 5 \in Nat OBVIOUS
  <2>. QED BY <2>1, AnswersIs, Conforms, Known
<1>. QED BY <1>5, <1>6, AnswersIs DEF Runs, Complete

LEMMA WaitsRuns ==
  ASSUME NEW c, "device" \notin c, "auxdevice" \in c
  PROVE  Runs(Waits, c)
<1>1. Pass(Waits, c, 1)
  BY WaitsIs, Begins DEF Pass
<1>2. Pass(Waits, c, 2)
  BY WaitsIs DEF Pass
<1>3. Pass(Waits, c, 3)
  BY WaitsIs, Conforms, Known DEF Pass
<1>4. Pass(Waits, c, 4)
  BY WaitsIs DEF Pass
<1>5. Pass(Waits, c, 5)
  BY WaitsIs DEF Pass
<1>6. Reached(Waits, c, 6)
  <2>1. \A j \in 1..6 - 1 : j \in {1, 2, 3, 4, 5} OBVIOUS
  <2>. QED BY <1>1, <1>2, <1>3, <1>4, <1>5, <2>1 DEF Reached
<1>7. "type" \in Conf(Waits, c, 6) /\ "ifname" \in Conf(Waits, c, 6)
  <2>1. 2 \in 1..6 - 1 /\ 6 \in Nat OBVIOUS
  <2>. QED BY <2>1, WaitsIs, Conforms, Known
<1>. QED BY <1>6, <1>7, WaitsIs DEF Runs, Complete

LEMMA UnmanagedRuns ==
  ASSUME NEW c, "device" \notin c
  PROVE  Runs(Unmanaged, c)
<1>1. Pass(Unmanaged, c, 1)
  BY UnmanagedIs, Begins DEF Pass
<1>2. Pass(Unmanaged, c, 2)
  BY UnmanagedIs DEF Pass
<1>3. Reached(Unmanaged, c, 3)
  <2>1. \A j \in 1..3 - 1 : j \in {1, 2} OBVIOUS
  <2>. QED BY <1>1, <1>2, <2>1 DEF Reached
<1>4. "type" \in Conf(Unmanaged, c, 3) /\ "ifname" \in Conf(Unmanaged, c, 3)
  <2>1. 2 \in 1..3 - 1 /\ 3 \in Nat OBVIOUS
  <2>. QED BY <2>1, UnmanagedIs, Conforms, Known
<1>. QED BY <1>3, <1>4, UnmanagedIs DEF Runs, Complete

LEMMA ControlsRuns ==
  ASSUME NEW c,
         "auxdevice" \notin c, "device" \notin c, "type" \in c, "ifname" \in c
  PROVE  Runs(Controls, c)
<1>1. Pass(Controls, c, 1)
  BY ControlsIs, Begins DEF Pass
<1>2. Pass(Controls, c, 2)
  BY ControlsIs DEF Pass
<1>3. Pass(Controls, c, 3)
  BY ControlsIs, Conforms, Known DEF Pass
<1>4. Pass(Controls, c, 4)
  <2>1. \A j \in 1..4 - 1 : j \in {1, 2, 3} OBVIOUS
  <2>. QED BY <2>1, ControlsIs, Conforms, Known DEF Pass
<1>5. Pass(Controls, c, 5)
  BY ControlsIs DEF Pass
<1>6. Pass(Controls, c, 6)
  BY ControlsIs DEF Pass
<1>7. Reached(Controls, c, 7)
  <2>1. \A j \in 1..7 - 1 : j \in {1, 2, 3, 4, 5, 6} OBVIOUS
  <2>. QED BY <1>1, <1>2, <1>3, <1>4, <1>5, <1>6, <2>1 DEF Reached
<1>8. "type" \in Conf(Controls, c, 7) /\ "ifname" \in Conf(Controls, c, 7)
  BY Conforms, Known
<1>. QED BY <1>7, <1>8, ControlsIs DEF Runs, Complete

\* What they leave set when they do not get there.
LEMMA HybridGets ==
  /\ "device" \in Gets(HybridTty, {}) /\ "ifname" \notin Gets(HybridTty, {})
  /\ "ifname" \in Gets(HybridNet, {}) /\ "type" \in Gets(HybridNet, {})
<1>1. 1 \in 1..Len(HybridTty) /\ 1 \in 1..Len(HybridNet)
  BY HybridTtyIs, HybridNetIs
<1>2. \A j \in 1..Len(HybridTty) : j \in {1, 2, 3, 4} BY HybridTtyIs
<1>3. \A j \in 1..Len(HybridTty) :
        HybridTty[j].do = "set" => "ifname" \notin HybridTty[j].arg
  BY <1>2, HybridTtyIs
<1>. QED BY <1>1, <1>3, HybridTtyIs, HybridNetIs, Begins, Known DEF Gets

LEMMA DefersGets == "device" \notin Gets(Defers, {})
<1>1. \A j \in 1..Len(Defers) : j \in {1, 2} BY DefersIs
<1>. QED BY <1>1, DefersIs DEF Gets

LEMMA ControlsGets ==
  "device" \notin Gets(Controls, {}) /\ "auxdevice" \in Gets(Controls, {})
<1>1. ASSUME NEW j \in 1..Len(Controls), Controls[j].do = "set",
             "device" \in Controls[j].arg, Reached(Controls, {}, j)
      PROVE  FALSE
  <2>1. j \in {1, 2, 3, 4, 5, 6, 7} BY ControlsIs
  <2>2. j = 5 BY <1>1, <2>1, ControlsIs
  <2>3. 3 \in 1..j - 1 BY <2>2
  <2>4. Pass(Controls, {}, 3) BY <1>1, <2>3 DEF Reached
  <2>5. "type" \in Conf(Controls, {}, 3) BY <2>4, ControlsIs DEF Pass
  <2>6. \A i \in 1..3 - 1 : i \in {1, 2} OBVIOUS
  <2>. QED BY <2>5, <2>6, ControlsIs, Conforms, Known
<1>2. "auxdevice" \in Gets(Controls, {})
  <2>1. 2 \in 1..Len(Controls) BY ControlsIs
  <2>2. Pass(Controls, {}, 1) BY ControlsIs, Begins DEF Pass
  <2>3. \A i \in 1..2 - 1 : i = 1 OBVIOUS
  <2>4. Reached(Controls, {}, 2) BY <2>2, <2>3 DEF Reached
  <2>. QED BY <2>1, <2>4, ControlsIs, Known DEF Gets
<1>. QED BY <1>1, <1>2 DEF Gets

LEMMA WaitsGets ==
  /\ "device" \notin Gets(Waits, {}) /\ "auxdevice" \notin Gets(Waits, {})
  /\ "type" \in Gets(Waits, {}) /\ "ifname" \in Gets(Waits, {})
<1>0. \A j \in 1..Len(Waits) : j \in {1, 2, 3, 4, 5, 6} BY WaitsIs
<1>1. ASSUME NEW j \in 1..Len(Waits), Waits[j].do = "set",
             "device" \in Waits[j].arg, Reached(Waits, {}, j)
      PROVE  FALSE
  <2>2. j = 4 BY <1>0, <1>1, WaitsIs
  <2>3. 3 \in 1..j - 1 BY <2>2
  <2>4. Pass(Waits, {}, 3) BY <1>1, <2>3 DEF Reached
  <2>5. "auxdevice" \in Conf(Waits, {}, 3) BY <2>4, WaitsIs DEF Pass
  <2>6. \A i \in 1..3 - 1 : i \in {1, 2} OBVIOUS
  <2>. QED BY <2>5, <2>6, WaitsIs, Conforms, Known
<1>2. \A j \in 1..Len(Waits) :
        Waits[j].do = "set" => "auxdevice" \notin Waits[j].arg
  BY <1>0, WaitsIs
<1>3. Reached(Waits, {}, 2) /\ 2 \in 1..Len(Waits)
  <2>1. 2 \in 1..Len(Waits) BY WaitsIs
  <2>2. Pass(Waits, {}, 1) BY WaitsIs, Begins DEF Pass
  <2>3. \A i \in 1..2 - 1 : i = 1 OBVIOUS
  <2>. QED BY <2>1, <2>2, <2>3 DEF Reached
<1>. QED BY <1>1, <1>2, <1>3, WaitsIs, Known DEF Gets

\* A handler that begins with a test that fails.
LEMMA IgnoredGets ==
  ASSUME NEW c, "device" \in c, NEW s \in {Answers, Waits}
  PROVE  Gets(s, c) = c \cap Settable
<1>1. /\ Len(s) \in Nat /\ s[1].do = "unless" /\ s[1].arg = {"device"}
  BY AnswersIs, WaitsIs
<1>2. ~Pass(s, c, 1) BY <1>1, Begins DEF Pass
<1>3. \A j \in 1..Len(s) : s[j].do = "set" => ~Reached(s, c, j)
  <2>1. SUFFICES ASSUME NEW j \in 1..Len(s), s[j].do = "set", Reached(s, c, j)
                 PROVE  FALSE
    OBVIOUS
  <2>2. j # 1 BY <1>1, <2>1
  <2>3. 1 \in 1..j - 1 BY <1>1, <2>2
  <2>. QED BY <1>2, <2>1, <2>3 DEF Reached
<1>. QED BY <1>3 DEF Gets

LEMMA NoneGets == ASSUME NEW c
                  PROVE  Gets(<<>>, c) = c \cap Settable /\ ~Runs(<<>>, c)
BY DEF Gets, Runs

LEMMA EitherStarts ==
  ASSUME modem \in Modems, ~Unknown(modem), NEW wdm \in BOOLEAN, NEW t, NEW n,
         t = TtyAdded(modem), n = NetAdded(modem, wdm)
  PROVE  /\ Runs(t, {}) \/ Runs(n, Gets(t, {})) \/ NetIgnored(Gets(t, {}))
         /\ Runs(n, {}) \/ Runs(t, Gets(n, {}))
<1>1. CASE modem.list = "modemmanager" /\ t = Managed /\ n = Managed
  BY <1>1, ManagedRuns
<1>2. CASE t = HybridTty /\ n = HybridNet
  BY <1>2, HybridGets, HybridTtyRuns, HybridNetRuns
<1>3. CASE t = Dials /\ n = <<>>
  <2>1. Runs(t, {}) BY <1>3, DialsRuns
  <2>2. Gets(n, {}) = {} BY <1>3, NoneGets
  <2>. QED BY <2>1, <2>2
<1>11. CASE t = Dials /\ n = Answers BY <1>11, DialsRuns, AnswersRuns
<1>12. CASE t = Dials /\ n = Waits BY <1>12, DialsRuns, WaitsGets
<1>4. CASE t = Controls /\ n = Answers
  BY <1>4, ControlsGets, AnswersRuns
<1>5. CASE t = Controls /\ n = Waits
  BY <1>5, ControlsGets, WaitsGets, WaitsRuns, ControlsRuns
<1>6. CASE t = Defers /\ n = Answers
  BY <1>6, DefersGets, AnswersRuns
<1>7. CASE t = Defers /\ n = Unmanaged
  BY <1>7, DefersGets, UnmanagedRuns
<1>9. CASE t = HybridTty /\ n = Answers /\ Shadowed(modem)
  BY <1>9, HybridGets, AnswersRuns DEF NetIgnored
<1>10. CASE t = HybridTty /\ n = Waits /\ Shadowed(modem)
  BY <1>10, HybridGets, WaitsGets, HybridTtyRuns DEF NetIgnored
<1>8. \/ modem.list = "modemmanager" /\ t = Managed /\ n = Managed
      \/ t = HybridTty /\ n = HybridNet
      \/ t = HybridTty /\ n \in {Answers, Waits} /\ Shadowed(modem)
      \/ t = Dials /\ n \in {<<>>, Answers, Waits}
      \/ t = Controls /\ n \in {Answers, Waits}
      \/ t = Defers /\ n \in {Answers, Unmanaged}
  <2>1. PairOf(modem, t, n) BY Written, Zenon
  <2>. QED BY <2>1 DEF PairOf
<1>. QED
  BY <1>1, <1>2, <1>3, <1>4, <1>5, <1>6, <1>7, <1>8, <1>9, <1>10, <1>11, <1>12

\* Whatever their order, one of the two handlers of a modem gets to the start:
\* the first does, or else the second; or the second is that of an interface
\* that is ignored.
LEMMA OneStarts ==
  ASSUME modem \in Modems, ~Unknown(modem), NEW d \in Devices, NEW e \in Devices \ {d},
         NEW h \in Handlers(d), NEW g \in Handlers(e)
  PROVE  \/ Runs(h, {}) \/ Runs(g, Gets(h, {}))
         \/ e = "net" /\ NetIgnored(Gets(h, {}))
<1>1. CASE d = "tty"
  <2>1. h = TtyAdded(modem) BY <1>1 DEF Handlers
  <2>2. e = "net" BY <1>1 DEF Devices
  <2>3. PICK wdm \in BOOLEAN : g = NetAdded(modem, wdm)
    BY <2>2 DEF Handlers
  <2>. QED BY <2>1, <2>2, <2>3, EitherStarts
<1>2. CASE d = "net"
  <2>1. g = TtyAdded(modem) BY <1>2 DEF Handlers, Devices
  <2>2. PICK wdm \in BOOLEAN : h = NetAdded(modem, wdm) BY <1>2 DEF Handlers
  <2>. QED BY <2>1, <2>2, EitherStarts
<1>. QED BY <1>1, <1>2 DEF Devices

LEMMA AddingHandlers ==
  ASSUME modem \in Modems, NEW d \in Devices, NEW h \in Handlers(d)
  PROVE  Adding(h) /\ \A c : NamesFirst(h, c)
<1>1. PICK wdm \in BOOLEAN : h = TtyAdded(modem) \/ h = NetAdded(modem, wdm)
  BY DEF Handlers
<1>2. Adding(<<>>) /\ \A c : NamesFirst(<<>>, c) BY DEF Adding, NamesFirst
<1>0. PairOf(modem, TtyAdded(modem), NetAdded(modem, wdm)) BY Written, Zenon
<1>3. TtyAdded(modem) \in {Managed, HybridTty, Dials, Controls, Defers}
  BY <1>0 DEF PairOf
<1>4. NetAdded(modem, wdm) \in
        {Managed, HybridNet, Answers, Waits, Unmanaged, <<>>}
  BY <1>0 DEF PairOf
<1>5. CASE h = TtyAdded(modem)
  BY <1>3, <1>5, ManagedIs, HybridTtyIs, DialsIs, ControlsIs, DefersIs
<1>6. CASE h = NetAdded(modem, wdm)
  BY <1>2, <1>4, <1>6, ManagedIs, HybridNetIs, AnswersIs, WaitsIs, UnmanagedIs
<1>. QED BY <1>1, <1>5, <1>6

----------------------------------------------------------------------------
\* The types, and what is left of the handler.

Typed == Inv /\ TypeOK /\ TodoInv /\ QueueInv

LEMMA NamesKept ==
  ASSUME NEW s, NEW c, NEW d, NamesFirst(s, c), "section" \in c => "section" \in d
  PROVE  NamesFirst(s, d)
BY DEF NamesFirst, Conf

LEMMA AddingRest ==
  ASSUME NEW s, Adding(s), s # <<>>
  PROVE  Adding(Tail(s)) /\ s[1].do \in Adds
<1>1. s \in Seq(StepType) BY DEF Adding
<1>2. /\ Len(s) \in Nat \ {0} /\ Tail(s) \in Seq(StepType)
      /\ Len(Tail(s)) = Len(s) - 1
      /\ \A i \in 1..Len(s) - 1 : Tail(s)[i] = s[i + 1]
  BY <1>1, Rest
<1>3. \A i \in 1..Len(s) - 1 : i + 1 \in 1..Len(s) BY <1>2
<1>. QED BY <1>2, <1>3 DEF Adding

LEMMA NamesRest ==
  ASSUME NEW s, NEW c, Adding(s), NamesFirst(s, c), s # <<>>
  PROVE  /\ NamesFirst(Tail(s), After(s, c))
         /\ s[1].do = "set" => "section" \in After(s, c)
<1>1. s \in Seq(StepType) BY DEF Adding
<1>2. Len(s) \in Nat \ {0} /\ Len(Tail(s)) = Len(s) - 1 BY <1>1, Rest
<1>3. ASSUME NEW i \in 1..Len(Tail(s)), Tail(s)[i].do = "set"
      PROVE  "section" \in Conf(Tail(s), After(s, c), i + 1)
  <2>1. i + 1 \in 1..Len(s) /\ i \in 1..Len(s) - 1 BY <1>2
  <2>2. s[i + 1].do = "set" BY <1>1, <1>3, <2>1, Rest
  <2>3. "section" \in Conf(s, c, i + 1 + 1) BY <2>1, <2>2 DEF NamesFirst
  <2>. QED BY <1>1, <2>1, <2>3, ConfRest
<1>4. ASSUME s[1].do = "set" PROVE "section" \in After(s, c)
  <2>1. 1 \in 1..Len(s) BY <1>2
  <2>2. "section" \in Conf(s, c, 1 + 1) BY <1>4, <2>1 DEF NamesFirst
  <2>3. Conf(s, c, 1 + 1) = Conf(Tail(s), After(s, c), 1) BY <1>1, <2>1, ConfRest
  <2>. QED BY <2>2, <2>3, Begins
<1>. QED BY <1>3, <1>4 DEF NamesFirst

\* The steps of a removal come in their order.
LEMMA LeavingSteps ==
  /\ Removed # <<>> /\ Head(Removed).do = "stop"
  /\ Tail(Removed) = <<Step("forget", {}), Step("delete", {})>>
  /\ Tail(Tail(Removed)) = <<Step("delete", {})>>
  /\ Head(Tail(Removed)).do = "forget" /\ Tail(Removed) # <<>>
  /\ Head(<<Step("delete", {})>>).do = "delete" /\ <<Step("delete", {})>> # <<>>
  /\ Tail(<<Step("delete", {})>>) = <<>>
BY DEF Removed, Step

LEMMA DoingWhat ==
  ASSUME TodoInv, NEW w, Doing(w)
  PROVE  /\ todo # <<>>
         /\ w \in Adds => /\ ~Leaving /\ Adding(todo) /\ NamesFirst(todo, conf)
                          /\ todo \in Seq(StepType) /\ Head(todo) = todo[1]
                          /\ todo[1].do = w /\ todo[1] \in StepType
         /\ w = "stop" => todo = Removed
         /\ w = "forget" => todo = Tail(Removed)
         /\ w = "delete" => todo = Tail(Tail(Removed))
<1>1. todo # <<>> /\ Head(todo).do = w BY DEF Doing
<1>2. CASE Leaving
  <2>1. todo \in {Removed, Tail(Removed), Tail(Tail(Removed))}
    BY <1>2, LeavingSteps DEF Leaving
  <2>. QED BY <1>1, <2>1, LeavingSteps DEF Adds
<1>3. CASE ~Leaving
  <2>1. Adding(todo) /\ NamesFirst(todo, conf) BY <1>3 DEF TodoInv
  <2>2. todo \in Seq(StepType) BY <2>1 DEF Adding
  <2>3. Head(todo) = todo[1] /\ todo[1] \in StepType /\ Len(todo) \in Nat \ {0}
    BY <1>1, <2>2, Rest
  <2>4. 1 \in 1..Len(todo) BY <2>3
  <2>5. w \in Adds BY <1>1, <2>1, <2>3, <2>4 DEF Adding
  <2>. QED BY <1>1, <1>3, <2>1, <2>2, <2>3, <2>5 DEF Adds
<1>. QED BY <1>2, <1>3

LEMMA NoTodo == Adding(<<>>) /\ \A c : NamesFirst(<<>>, c)
BY DEF Adding, NamesFirst

\* The next event and those after it.
LEMMA RestOfQueue ==
  ASSUME QueueInv, queue # <<>>
  PROVE  /\ Tail(queue) \in Seq({"add", "remove"} \X Devices)
         /\ Len(queue) \in Nat \ {0} /\ Len(Tail(queue)) = Len(queue) - 1
         /\ Head(queue) = queue[1]
         /\ queue[1][1] \in {"add", "remove"} /\ queue[1][2] \in Devices
         /\ \A i \in 1..Len(queue) - 1 : Tail(queue)[i] = queue[i + 1]
<1>1. queue \in Seq({"add", "remove"} \X Devices) BY DEF QueueInv
<1>2. Head(queue) \in {"add", "remove"} \X Devices /\ Head(queue) = queue[1]
  BY <1>1
<1>. QED BY <1>1, <1>2

LEMMA TypedHandle == ASSUME Typed, Handle PROVE TodoInv' /\ QueueInv'
<1>1. queue # <<>> /\ QueueInv BY DEF Handle, Typed
<1>2. QueueInv' BY <1>1, RestOfQueue DEF Handle, QueueInv
<1>3. modem \in Modems /\ conf' = conf BY DEF Typed, Inv, Handle
<1>4. CASE todo' = Removed BY <1>2, <1>4 DEF TodoInv, Leaving
<1>5. CASE \E d \in Devices : todo' \in Handlers(d)
  <2>1. Adding(todo') /\ \A c : NamesFirst(todo', c)
    BY <1>3, <1>5, AddingHandlers
  <2>. QED BY <1>2, <2>1 DEF TodoInv
<1>6. CASE todo' = <<>> BY <1>2, <1>6, NoTodo DEF TodoInv
<1>7. todo' = Removed \/ todo' = <<>> \/ \E d \in Devices : todo' \in Handlers(d)
  <2>1. CASE todo' = TtyAdded(modem)
    <3>1. todo' \in Handlers("tty") /\ "tty" \in Devices
      BY <2>1 DEF Handlers, Devices
    <3>. QED BY <3>1
  <2>2. CASE \E wdm \in BOOLEAN : todo' = NetAdded(modem, wdm)
    <3>1. todo' \in Handlers("net") /\ "net" \in Devices
      BY <2>2 DEF Handlers, Devices
    <3>. QED BY <3>1
  <2>. QED BY <2>1, <2>2 DEF Handle
<1>. QED BY <1>2, <1>4, <1>5, <1>6, <1>7

\* What a step does to the options and to what is left of the handler.
TodoStep ==
  \/ todo' = todo /\ ("section" \in conf => "section" \in conf')
  \/ Handle
  \/ SetOptions \/ Test \/ RunScript \/ Spawn \/ NothingToStop \/ Forget \/ Delete

LEMMA NamesGo ==
  ASSUME TodoInv, NEW w \in Adds, Doing(w), todo' = Tail(todo),
         conf' = After(todo, conf)
  PROVE  TodoInv'
<1>1. /\ todo # <<>> /\ Adding(todo) /\ NamesFirst(todo, conf)
  BY DoingWhat
<1>2. Adding(todo') /\ NamesFirst(todo', conf') BY <1>1, AddingRest, NamesRest
<1>. QED BY <1>2 DEF TodoInv

LEMMA LeavingGoes ==
  ASSUME TodoInv, NEW w \in {"stop", "forget", "delete"}, Doing(w),
         todo' = Tail(todo) \/ (w = "stop" /\ todo' = Tail(Tail(todo)))
  PROVE  TodoInv'
<1>1. todo \in {Removed, Tail(Removed), Tail(Tail(Removed))} BY DoingWhat
<1>2. /\ todo = Removed \/ w # "stop"
      /\ todo = Tail(Removed) \/ w # "forget"
      /\ todo = Tail(Tail(Removed)) \/ w # "delete"
  BY DoingWhat
<1>3. todo' \in {Tail(Removed), Tail(Tail(Removed)), <<>>}
  BY <1>2, LeavingSteps
<1>. QED BY <1>3, NoTodo, LeavingSteps DEF TodoInv, Leaving

LEMMA TodoKept == ASSUME Typed, TodoStep PROVE TodoInv'
<1>0. TodoInv BY DEF Typed
<1>1. CASE todo' = todo /\ ("section" \in conf => "section" \in conf')
  <2>1. CASE Leaving BY <1>1, <2>1 DEF TodoInv, Leaving
  <2>2. CASE Adding(todo) /\ NamesFirst(todo, conf)
    <3>1. Adding(todo') /\ NamesFirst(todo', conf') BY <1>1, <2>2, NamesKept
    <3>. QED BY <3>1 DEF TodoInv
  <2>. QED BY <1>0, <2>1, <2>2 DEF TodoInv
<1>2. CASE Handle BY <1>2, TypedHandle
<1>3. CASE SetOptions
  <2>1. Doing("set") /\ todo' = Tail(todo) /\ conf' = conf \cup Head(todo).arg
    BY <1>3 DEF SetOptions, Done
  <2>2. "set" \in Adds BY DEF Adds
  <2>3. conf' = After(todo, conf) BY <1>0, <2>1, <2>2, DoingWhat DEF After
  <2>. QED BY <1>0, <2>1, <2>2, <2>3, NamesGo
<1>4. CASE Test
  <2>1. PICK w \in {"need", "unless"} : Doing(w) BY <1>4 DEF Test
  <2>2. w \in Adds BY DEF Adds
  <2>3. conf' = After(todo, conf)
    BY <1>0, <1>4, <2>1, <2>2, DoingWhat DEF After, Test
  <2>4. CASE todo' = Tail(todo) BY <1>0, <2>1, <2>2, <2>3, <2>4, NamesGo
  <2>5. CASE todo' = <<>> BY <2>5, NoTodo DEF TodoInv
  <2>. QED BY <1>4, <2>4, <2>5 DEF Test
<1>5. CASE RunScript \/ Spawn
  <2>1. PICK w \in {"start", "apn", "stop", "spawn"} :
               Doing(w) /\ todo' = Tail(todo) /\ conf' = conf
    BY <1>5 DEF RunScript, Spawn, Done
  <2>2. CASE w = "stop" BY <1>0, <2>1, <2>2, LeavingGoes
  <2>3. CASE w # "stop"
    <3>1. w \in Adds BY <2>3 DEF Adds
    <3>2. conf' = After(todo, conf) BY <1>0, <2>1, <3>1, DoingWhat DEF After
    <3>. QED BY <1>0, <2>1, <3>1, <3>2, NamesGo
  <2>. QED BY <2>2, <2>3
<1>6. CASE NothingToStop BY <1>0, <1>6, LeavingGoes DEF NothingToStop
<1>7. CASE Forget \/ Delete
  BY <1>0, <1>7, LeavingGoes DEF Forget, Delete, Done
<1>. QED BY <1>1, <1>2, <1>3, <1>4, <1>5, <1>6, <1>7 DEF TodoStep

\* The options of a section that exists, the profile, the pid file, the rules.
Fields == /\ conf \subseteq Options /\ (conf # {} => "section" \in conf)
          /\ profile \in {"none", "automatic", "manual"}
          /\ pidfile \in Pids \cup {"absent", "empty"}
          /\ rules \in 0..2

LEMMA ServiceFields ==
  ASSUME Typed, NEW p \in Procs, Service(p)
  PROVE  Fields' /\ TodoStep /\ queue' = queue
<1>0. Fields /\ srv \in [Procs -> Script]
  BY DEF Typed, TypeOK, Fields, Inv
<1>1. Deleted \subseteq 0..2 BY <1>0 DEF Fields, Deleted
<1>2. ASSUME conf' = conf, rules' = rules,
             pidfile' = pidfile \/ pidfile' = "absent"
      PROVE  profile' = profile => Fields'
  BY <1>0, <1>2 DEF Fields
<1>3. todo' = todo /\ queue' = queue
  BY DEF Service, StartCheck, Launch, Started, StopCheck, Signal, Check, Unrule,
         Stopped, ApnCheck, ApnWrite, hotplug
<1>4. ASSUME Fields' PROVE TodoStep
  <2>1. conf \subseteq conf' \cup {"started"}
    BY DEF Service, StartCheck, Launch, Started, StopCheck, Signal, Check, Unrule,
           Stopped, ApnCheck, ApnWrite
  <2>2. "section" \in conf => "section" \in conf' BY <2>1
  <2>. QED BY <1>3, <2>2 DEF TodoStep
<1>5. CASE StartCheck(p) \/ StopCheck(p) \/ Signal(p) \/ Check(p) \/ ApnCheck(p)
  <2>1. /\ conf' = conf /\ rules' = rules /\ profile' = profile
        /\ pidfile' = pidfile \/ pidfile' = "absent"
    BY <1>5 DEF StartCheck, StopCheck, Signal, Check, ApnCheck
  <2>. QED BY <1>2, <1>3, <1>4, <2>1
<1>6. CASE Launch(p)
  <2>1. rules' \in 0..2 BY <1>0, <1>6 DEF Fields, Launch
  <2>2. conf' = conf /\ profile' = profile /\ pidfile' = pidfile
    BY <1>6 DEF Launch
  <2>. QED BY <1>0, <1>3, <1>4, <2>1, <2>2 DEF Fields
<1>7. CASE Unrule(p)
  <2>1. rules' \in 0..2 BY <1>1, <1>7 DEF Unrule
  <2>2. conf' = conf /\ profile' = profile /\ pidfile' = pidfile
    BY <1>7 DEF Unrule
  <2>. QED BY <1>0, <1>3, <1>4, <2>1, <2>2 DEF Fields
<1>8. CASE Started(p) \/ Stopped(p)
  <2>1. /\ profile' = profile /\ pidfile' = pidfile /\ rules' = rules
        /\ \/ conf' = conf \/ conf' = conf \ {"started"}
           \/ "section" \in conf /\ conf' = conf \cup {"started"}
    BY <1>8 DEF Started, Stopped
  <2>2. conf' \subseteq Options /\ (conf' # {} => "section" \in conf')
    BY <1>0, <2>1 DEF Fields, Options
  <2>. QED BY <1>0, <1>3, <1>4, <2>1, <2>2 DEF Fields
<1>9. CASE ApnWrite(p)
  BY <1>0, <1>3, <1>4, <1>9 DEF ApnWrite, Fields
<1>. QED BY <1>5, <1>6, <1>7, <1>8, <1>9 DEF Service

LEMMA HandlerFields ==
  ASSUME Typed, Handler
  PROVE  Fields' /\ TodoStep /\ QueueInv'
<1>0. Fields /\ QueueInv /\ TodoInv BY DEF Typed, TypeOK, Fields
<1>1. TodoStep BY DEF Handler, TodoStep
<1>2. CASE Handle BY <1>0, <1>1, <1>2, TypedHandle DEF Handle, Fields
<1>3. ASSUME queue' = queue PROVE QueueInv' BY <1>0, <1>3 DEF QueueInv
<1>4. CASE SetOptions
  <2>1. /\ Doing("set") /\ conf' = conf \cup Head(todo).arg /\ queue' = queue
        /\ profile' = profile /\ pidfile' = pidfile /\ rules' = rules
    BY <1>4 DEF SetOptions, Done
  <2>2. "set" \in Adds BY DEF Adds
  <2>3. /\ todo # <<>> /\ Adding(todo) /\ NamesFirst(todo, conf)
        /\ Head(todo) = todo[1] /\ todo[1].do = "set" /\ todo[1] \in StepType
    BY <1>0, <2>1, <2>2, DoingWhat
  <2>4. conf' = After(todo, conf) /\ todo[1].arg \subseteq Settable
    BY <2>1, <2>3 DEF After, StepType
  <2>5. "section" \in conf' BY <2>3, <2>4, NamesRest
  <2>6. Settable \subseteq Options BY DEF Settable
  <2>. QED BY <1>0, <1>1, <1>3, <2>1, <2>3, <2>4, <2>5, <2>6 DEF Fields
<1>5. CASE Delete
  BY <1>0, <1>1, <1>3, <1>5 DEF Delete, Done, Fields
<1>6. CASE Test \/ RunScript \/ Spawn \/ NothingToStop \/ Forget
  <2>1. /\ conf' = conf /\ queue' = queue /\ profile' = profile /\ rules' = rules
        /\ pidfile' = pidfile \/ pidfile' = "absent"
    BY <1>6 DEF Test, RunScript, Spawn, NothingToStop, Forget, Done
  <2>. QED BY <1>0, <1>1, <1>3, <2>1 DEF Fields
<1>. QED BY <1>2, <1>4, <1>5, <1>6 DEF Handler

LEMMA Joined ==
  ASSUME NEW S, NEW s \in Seq(S), NEW t \in Seq(S)
  PROVE  /\ s \o t \in Seq(S) /\ Len(s \o t) = Len(s) + Len(t)
         /\ \A i \in 1..Len(s) + Len(t) :
              (s \o t)[i] = IF i <= Len(s) THEN s[i] ELSE t[i - Len(s)]
OBVIOUS

\* Events of the two devices are appended.
LEMMA Appended ==
  ASSUME QueueInv, NEW o \in Orders, NEW what \in {"add", "remove"},
         queue' = queue \o [i \in DOMAIN o |-> <<what, o[i]>>]
  PROVE  /\ QueueInv' /\ Len(queue) \in Nat /\ Len(queue') = Len(queue) + 2
         /\ \A i \in 1..Len(queue) : queue'[i] = queue[i]
         /\ \E d \in Devices : /\ queue'[Len(queue) + 1] = <<what, d>>
                               /\ \E e \in Devices \ {d} :
                                    queue'[Len(queue) + 2] = <<what, e>>
<1>1. PICK d \in Devices, e \in Devices : d # e /\ o = <<d, e>>
  BY ModemAssumption DEF Devices
<1>. DEFINE t == [i \in DOMAIN o |-> <<what, o[i]>>]
<1>2. DOMAIN o = 1..2 /\ o[1] = d /\ o[2] = e BY <1>1
<1>3. /\ t \in Seq({"add", "remove"} \X Devices) /\ Len(t) = 2
      /\ t[1] = <<what, d>> /\ t[2] = <<what, e>>
  <2>1. t = <<<<what, d>>, <<what, e>>>> BY <1>2
  <2>. QED BY <2>1
<1>4. queue \in Seq({"add", "remove"} \X Devices) BY DEF QueueInv
<1>. HIDE DEF t
<1>5. queue' = queue \o t BY DEF t
<1>. DEFINE S == {"add", "remove"} \X Devices
<1>6. queue \in Seq(S) /\ t \in Seq(S) /\ Len(t) = 2 BY <1>3, <1>4
<1>. HIDE DEF S
<1>. DEFINE q == queue \o t
<1>7. /\ q \in Seq(S) /\ Len(queue) \in Nat /\ Len(q) = Len(queue) + 2
      /\ \A i \in 1..Len(queue) : q[i] = queue[i]
      /\ q[Len(queue) + 1] = t[1] /\ q[Len(queue) + 2] = t[2]
  <2>1. /\ q \in Seq(S) /\ Len(q) = Len(queue) + Len(t)
        /\ \A i \in 1..Len(queue) + Len(t) :
             q[i] = IF i <= Len(queue) THEN queue[i] ELSE t[i - Len(queue)]
    BY <1>6, Joined
  <2>2. Len(queue) \in Nat BY <1>6
  <2>. HIDE DEF q, t
  <2>. QED BY <1>6, <2>1, <2>2
<1>9. queue' = q BY <1>5
<1>. HIDE DEF q
<1>8. QueueInv' BY <1>7, <1>9 DEF QueueInv, S
<1>. QED BY <1>1, <1>3, <1>7, <1>8, <1>9

LEMMA TypedStep == Typed /\ [Next]_vars => Typed'
<1>. SUFFICES ASSUME Typed, [Next]_vars PROVE Typed' OBVIOUS
<1>1. Inv' BY Inductive DEF Typed
<1>2. ASSUME Fields', QueueInv', TodoStep PROVE Typed'
  <2>1. TodoInv' BY <1>2, TodoKept
  <2>2. TypeOK' BY <1>1, <1>2 DEF TypeOK, Fields, Inv, Script
  <2>. QED BY <1>1, <1>2, <2>1, <2>2 DEF Typed
<1>3. Fields /\ QueueInv BY DEF Typed, TypeOK, Fields
<1>4. queue' = queue => QueueInv' BY <1>3 DEF QueueInv
<1>5. ASSUME NEW p \in Procs, Service(p) PROVE Typed'
  BY <1>2, <1>4, <1>5, ServiceFields
<1>6. CASE Handler BY <1>2, <1>6, HandlerFields
<1>7. ASSUME NEW m \in Pids, Monitor(m) PROVE Typed'
  <2>1. /\ conf' = conf /\ profile' = profile /\ rules' = rules
        /\ pidfile' \in {pidfile, "empty", m} /\ todo' = todo /\ queue' = queue
    BY <1>7 DEF Monitor, MonitorOpens, MonitorWrites, MonitorSetsUp, MonitorDies,
                hotplug
  <2>. QED BY <1>2, <1>3, <1>4, <2>1 DEF Fields, TodoStep
<1>8. ASSUME NEW u \in Users, NEW op \in modem.ops, Call(u, op) PROVE Typed'
  <2>1. /\ conf' = conf /\ profile' = profile /\ rules' = rules
        /\ pidfile' = pidfile /\ todo' = todo /\ queue' = queue
    BY <1>8 DEF Call, hotplug
  <2>. QED BY <1>2, <1>3, <1>4, <2>1 DEF Fields, TodoStep
<1>9. ASSUME NEW o \in Orders, Plug(o) \/ Unplug(o) PROVE Typed'
  <2>1. /\ conf' = conf /\ profile' = profile /\ rules' = rules
        /\ pidfile' = pidfile /\ todo' = todo
    BY <1>9 DEF Plug, Unplug
  <2>2. QueueInv' BY <1>3, <1>9, Appended DEF Plug, Unplug
  <2>. QED BY <1>2, <1>3, <2>1, <2>2 DEF Fields, TodoStep
<1>10. CASE UNCHANGED vars
  BY <1>2, <1>3, <1>4, <1>10 DEF vars, hotplug, Fields, TodoStep
<1>. QED BY <1>5, <1>6, <1>7, <1>8, <1>9, <1>10 DEF Next

LEMMA TypedHolds == Spec => []Typed
<1>1. Init => Typed
  <2>. SUFFICES ASSUME Init PROVE Typed OBVIOUS
  <2>1. Inv BY InvInit
  <2>2. TodoInv /\ QueueInv BY NoTodo DEF Init, TodoInv, QueueInv
  <2>3. TypeOK BY <2>1 DEF TypeOK, Init, Inv, Script
  <2>. QED BY <2>1, <2>2, <2>3 DEF Typed
<1>2. Typed /\ [Next]_vars => Typed' BY TypedStep
<1>. QED BY <1>1, <1>2, PTL DEF Spec

\* Whatever the modems, users, monitors and the orders of their steps, no
\* handler sets an option of a modem without its section, no option is left when
\* the section is gone, and no stop deletes a rule that nobody added.
THEOREM TypeCorrect == Spec => []TypeOK
<1>1. Typed => TypeOK BY DEF Typed
<1>. QED BY <1>1, TypedHolds, PTL

----------------------------------------------------------------------------
\* The rendezvous.

\* What Due is made of, with the options and the scripts as parameters.
StartingWith(c, s) ==
  Complete(c) /\ \E p \in Procs : s[p].pc = "start" \/ s[p].pc = "launch"

LEMMA SameModem ==
  ASSUME modem' = modem
  PROVE  /\ Due' <=> (tried' \/ StartingWith(conf', srv') \/ Runs(todo', conf'))
         /\ \A e : (\A h \in Handlers(e) : Runs(h, Gets(todo, conf)))'
              <=> (\A h \in Handlers(e) : Runs(h, Gets(todo', conf')))
         /\ NetIgnored(Gets(todo, conf))' <=> NetIgnored(Gets(todo', conf'))
         /\ Unknown(modem)' <=> Unknown(modem)
<1>1. \A s, c : Runs(s, c)' <=> Runs(s, c) BY DEF Runs, Complete
<1>2. Runs(todo, conf)' <=> Runs(todo', conf') BY DEF Runs, Complete
<1>3. Starting' <=> StartingWith(conf', srv')
  BY DEF Starting, StartingWith, Complete, At
<1>4. Due' <=> (tried' \/ StartingWith(conf', srv') \/ Runs(todo', conf'))
  BY <1>2, <1>3, Zenon DEF Due
<1>5. \A e : Handlers(e)' = Handlers(e) BY DEF Handlers
<1>6. NetIgnored(Gets(todo, conf))' <=> NetIgnored(Gets(todo', conf'))
  BY DEF NetIgnored, Shadowed, NetType
<1>7. Unknown(modem)' <=> Unknown(modem) BY DEF Unknown, NetType
<1>. QED BY <1>1, <1>4, <1>5, <1>6, <1>7

\* What is due or comes due after a step, from what holds before it.
Later(e) == \A h \in Handlers(e) : Runs(h, Gets(todo, conf))
Alone == NetIgnored(Gets(todo, conf))

\* A step that leaves the events, the handler and its options alone.
Aside ==
  /\ UNCHANGED <<modem, plugged, queue, todo, missed>>
  /\ conf' \cap Settable = conf \cap Settable
  /\ conf = {} => conf' = {}
  /\ tried \/ Starting => tried' \/ StartingWith(conf', srv')

LEMMA AsideKeeps == ASSUME Typed, RendInv, Aside PROVE RendInv'
<1>0. modem' = modem BY DEF Aside
<1>1. \A k : Clean(k) => Clean(k)' BY DEF Clean, Aside, Leaving
<1>2. todo' = todo /\ queue' = queue /\ plugged' = plugged /\ missed' = missed
  BY DEF Aside
<1>3. ASSUME Adding(todo) PROVE Due => Due'
  <2>1. todo \in Seq(StepType) BY <1>3 DEF Adding
  <2>2. Runs(todo, conf) => Runs(todo', conf') BY <1>2, <2>1, Same DEF Aside
  <2>3. tried \/ Starting => tried' \/ StartingWith(conf', srv') BY DEF Aside
  <2>. QED BY <1>0, <2>2, <2>3, SameModem, Zenon DEF Due
<1>8. ASSUME Adding(todo) PROVE Gets(todo', conf') = Gets(todo, conf)
  <2>1. todo \in Seq(StepType) BY <1>8 DEF Adding
  <2>2. conf' \cap Settable = conf \cap Settable BY DEF Aside
  <2>3. Gets(todo, conf') = Gets(todo, conf) BY <2>1, <2>2, Same
  <2>. QED BY <1>2, <2>3
<1>4. ASSUME Adding(todo), NEW e, Later(e) PROVE Later(e)'
  <2>1. \A h \in Handlers(e) : Runs(h, Gets(todo', conf'))
    BY <1>4, <1>8 DEF Later
  <2>. QED BY <1>0, <2>1, SameModem, Zenon DEF Later
<1>9. ASSUME Adding(todo), Alone PROVE Alone'
  <2>1. NetIgnored(Gets(todo', conf')) BY <1>8, <1>9 DEF Alone
  <2>. QED BY <1>0, <2>1, SameModem, Zenon DEF Alone
<1>5. Adding(todo) => Adding(todo)' BY <1>2 DEF Adding
<1>6. ASSUME plugged', ~missed', ~Unknown(modem)'
      PROVE  Neither(Len(queue))' \/ First(Len(queue))' \/ Second(Len(queue))'
  <2>1. CASE Neither(Len(queue))
    <3>1. Neither(Len(queue))' BY <1>1, <1>2, <2>1 DEF Neither
    <3>. QED BY <3>1
  <2>2. CASE First(Len(queue))
    <3>1. First(Len(queue))'
      BY <1>2, <1>3, <1>4, <1>5, <1>9, <2>2 DEF First, Later, Alone
    <3>. QED BY <3>1
  <2>3. CASE Second(Len(queue))
    <3>1. Second(Len(queue))' BY <1>2, <1>3, <1>5, <1>9, <2>3 DEF Second, Alone
    <3>. QED BY <3>1
  <2>4. ~Unknown(modem) BY <1>0, <1>6, SameModem
  <2>. QED BY <1>2, <1>6, <2>1, <2>2, <2>3, <2>4 DEF RendInv
<1>7. ~plugged' => Clean(Len(queue))' BY <1>1, <1>2 DEF RendInv
<1>. QED BY <1>6, <1>7 DEF RendInv

\* The scripts: a start that finds the section complete goes on to the launch
\* unless the service runs.
LEMMA ServiceAside == ASSUME Typed, NEW p \in Procs, Service(p) PROVE Aside
<1>0. srv \in [Procs -> Script] BY DEF Typed, Inv
<1>1. UNCHANGED <<modem, plugged, queue, todo, missed>>
  BY DEF Service, StartCheck, Launch, Started, StopCheck, Signal, Check, Unrule,
         Stopped, ApnCheck, ApnWrite, hotplug
<1>2. \/ conf' = conf \/ conf' = conf \ {"started"}
      \/ "section" \in conf /\ conf' = conf \cup {"started"}
  BY DEF Service, StartCheck, Launch, Started, StopCheck, Signal, Check, Unrule,
         Stopped, ApnCheck, ApnWrite
<1>3. conf' \cap Settable = conf \cap Settable /\ (conf = {} => conf' = {})
  BY <1>2 DEF Settable
<1>4. Complete(conf) => Complete(conf')
  BY <1>3, Known DEF Complete
<1>5. tried => tried'
  BY DEF Service, StartCheck, Launch, Started, StopCheck, Signal, Check, Unrule,
         Stopped, ApnCheck, ApnWrite
<1>6. ASSUME Starting PROVE tried' \/ StartingWith(conf', srv')
  <2>1. PICK q \in Procs : srv[q].pc \in {"start", "launch"}
    BY <1>6 DEF Starting, At
  <2>2. Complete(conf) /\ Complete(conf') BY <1>4, <1>6 DEF Starting
  <2>3. CASE q # p
    <3>1. srv'[q] = srv[q]
      BY <1>0, <2>3 DEF Service, StartCheck, Launch, Started, StopCheck, Signal,
            Check, Unrule, Stopped, ApnCheck, ApnWrite, Goto, Exit
    <3>. QED BY <2>1, <2>2, <3>1 DEF StartingWith
  <2>4. CASE q = p /\ srv[p].pc = "launch"
    <3>1. Launch(p)
      BY <2>4 DEF Service, StartCheck, Launch, Started, StopCheck, Signal,
            Check, Unrule, Stopped, ApnCheck, ApnWrite, At
    <3>. QED BY <3>1 DEF Launch
  <2>5. CASE q = p /\ srv[p].pc = "start"
    <3>1. StartCheck(p)
      BY <2>5 DEF Service, StartCheck, Launch, Started, StopCheck, Signal,
            Check, Unrule, Stopped, ApnCheck, ApnWrite, At
    <3>2. HasType /\ Status # "UNAVAILABLE"
      BY <2>2 DEF Complete, HasType, Status
    <3>3. CASE Status = "RUNNING" BY <3>1, <3>2, <3>3 DEF StartCheck
    <3>4. CASE Status # "RUNNING"
      <4>1. Goto(p, "launch") BY <3>1, <3>2, <3>4 DEF StartCheck
      <4>2. srv'[p].pc = "launch" BY <1>0, <4>1 DEF Goto, Script
      <4>. QED BY <2>2, <4>2 DEF StartingWith
    <3>. QED BY <3>3, <3>4
  <2>. QED BY <2>1, <2>3, <2>4, <2>5
<1>. QED BY <1>1, <1>3, <1>5, <1>6, Zenon DEF Aside

LEMMA OthersAside ==
  ASSUME Typed,
         \/ \E m \in Pids : Monitor(m)
         \/ \E u \in Users : \E op \in modem.ops : Call(u, op)
         \/ UNCHANGED vars
  PROVE  Aside
<1>0. srv \in [Procs -> Script] BY DEF Typed, Inv
<1>1. /\ UNCHANGED <<modem, plugged, queue, todo, missed>>
      /\ conf' = conf /\ tried' = tried
  BY DEF Monitor, MonitorOpens, MonitorWrites, MonitorSetsUp, MonitorDies, Call,
         vars, hotplug
<1>2. ASSUME NEW q \in Procs, srv[q].pc \in {"start", "launch"}
      PROVE  srv'[q] = srv[q]
  BY <1>0, <1>2 DEF Monitor, MonitorOpens, MonitorWrites, MonitorSetsUp,
         MonitorDies, Call, vars, At
<1>3. ASSUME Starting PROVE StartingWith(conf', srv')
  <2>1. PICK q \in Procs : srv[q].pc \in {"start", "launch"}
    BY <1>3 DEF Starting, At
  <2>. QED BY <1>1, <1>2, <1>3, <2>1 DEF Starting, StartingWith
<1>. QED BY <1>1, <1>3, Zenon DEF Aside

\* A step of the handler: what was due still is, or what it sets is the same.
LEMMA HandlerGoes ==
  ASSUME Typed, NEW w \in Adds, Doing(w),
         UNCHANGED <<modem, plugged, queue, missed, tried>>,
         conf' = After(todo, conf),
         todo' = IF Pass(todo, conf, 1) THEN Tail(todo) ELSE <<>>,
         Starting => StartingWith(conf', srv'),
         w \in {"start", "spawn"} /\ Complete(conf) => StartingWith(conf', srv')
  PROVE  /\ Adding(todo)' /\ todo # <<>> /\ ~Leaving
         /\ Due => Due'
         /\ \A e : Later(e) => Later(e)'
         /\ Alone => Alone'
         /\ Unknown(modem)' <=> Unknown(modem)
<1>1. /\ todo # <<>> /\ Adding(todo) /\ todo \in Seq(StepType) /\ ~Leaving
      /\ todo[1].do = w
  BY DoingWhat DEF Typed
<1>2. Adding(todo') BY <1>1, AddingRest, NoTodo
<1>3. ASSUME Runs(todo, conf)
      PROVE  StartingWith(conf', srv') \/ Runs(todo', conf')
  BY <1>1, <1>3, RunsRest
<1>4. Gets(todo', conf') = Gets(todo, conf)
  <2>1. CASE Pass(todo, conf, 1)
    <3>1. Gets(todo, conf) = Gets(Tail(todo), After(todo, conf))
      BY <1>1, <2>1, GetsRest
    <3>. QED BY <2>1, <3>1
  <2>2. CASE ~Pass(todo, conf, 1)
    <3>1. Gets(todo, conf) = Settable \cap After(todo, conf)
      BY <1>1, <2>2, GetsRest
    <3>2. Gets(<<>>, conf') = conf' \cap Settable BY NoneGets
    <3>. QED BY <2>2, <3>1, <3>2
  <2>. QED BY <2>1, <2>2
<1>5. Due => Due' BY <1>3, SameModem, Zenon DEF Due
<1>6. ASSUME NEW e, Later(e) PROVE Later(e)'
  <2>1. \A h \in Handlers(e) : Runs(h, Gets(todo', conf'))
    BY <1>4, <1>6 DEF Later
  <2>. QED BY <2>1, SameModem, Zenon DEF Later
<1>7. ASSUME Alone PROVE Alone'
  <2>1. NetIgnored(Gets(todo', conf')) BY <1>4, <1>7 DEF Alone
  <2>. QED BY <2>1, SameModem, Zenon DEF Alone
<1>. QED BY <1>1, <1>2, <1>5, <1>6, <1>7, SameModem DEF Adding

\* So the invariant is kept by the steps of an addition...
LEMMA GoesKeeps ==
  ASSUME RendInv, UNCHANGED <<plugged, queue, missed>>,
         Adding(todo)', todo # <<>>, ~Leaving,
         Due => Due', \A e : Later(e) => Later(e)', Alone => Alone',
         Unknown(modem)' <=> Unknown(modem)
  PROVE  RendInv'
<1>1. ~Clean(0) BY DEF Clean
<1>2. \A k : Clean(k) => Clean(k)' BY <1>1 DEF Clean
<1>3. Neither(Len(queue)) => Neither(Len(queue))' BY <1>2 DEF Neither
<1>4. First(Len(queue)) => First(Len(queue))' BY DEF First, Later, Alone
<1>5. Second(Len(queue)) => Second(Len(queue))' BY DEF Second, Alone
<1>6. ~plugged' => Clean(Len(queue))' BY <1>2 DEF RendInv
<1>. QED BY <1>3, <1>4, <1>5, <1>6 DEF RendInv

\* ... and of a removal, which end with the section gone.
LEMMA LeavingKeeps ==
  ASSUME RendInv, UNCHANGED <<modem, plugged, queue, missed>>, Leaving,
         Leaving' \/ (todo' = <<>> /\ conf' = {})
  PROVE  RendInv'
<1>1. ~Adding(todo)
  <2>1. todo \in {Removed, Tail(Removed), Tail(Tail(Removed))}
    BY LeavingSteps DEF Leaving
  <2>2. /\ todo # <<>> /\ Head(todo).do \notin Adds
    BY <2>1, LeavingSteps DEF Adds
  <2>3. ASSUME Adding(todo) PROVE FALSE
    <3>1. todo \in Seq(StepType) BY <2>3 DEF Adding
    <3>2. Head(todo) = todo[1] BY <2>2, <3>1, Rest
    <3>. QED BY <2>2, <2>3, <3>2, AddingRest
  <2>. QED BY <2>3
<1>2. \A k : Clean(k) => Clean(k)' BY DEF Clean
<1>3. Neither(Len(queue)) => Neither(Len(queue))' BY <1>2 DEF Neither
<1>4. ~plugged' => Clean(Len(queue))' BY <1>2 DEF RendInv
<1>5. Unknown(modem)' <=> Unknown(modem) BY SameModem
<1>. QED BY <1>1, <1>3, <1>4, <1>5 DEF RendInv, First, Second

LEMMA HandlerRend ==
  ASSUME Typed, RendInv,
         \/ SetOptions \/ Test \/ RunScript \/ Spawn
         \/ NothingToStop \/ Forget \/ Delete
  PROVE  RendInv'
<1>0. /\ srv \in [Procs -> Script] /\ TodoInv /\ "hot" \in Procs
  BY DEF Typed, Inv, Procs
<1>1. UNCHANGED <<modem, plugged, queue, missed>>
  BY DEF SetOptions, Test, RunScript, Spawn, NothingToStop, Forget, Delete, Done
<1>2. ASSUME NEW w \in Adds, Doing(w), tried' = tried, conf' = After(todo, conf),
             todo' = IF Pass(todo, conf, 1) THEN Tail(todo) ELSE <<>>,
             Starting => StartingWith(conf', srv'),
             w \in {"start", "spawn"} /\ Complete(conf)
               => StartingWith(conf', srv')
      PROVE  RendInv'
  BY <1>1, <1>2, HandlerGoes, GoesKeeps
<1>3. ASSUME NEW w \in {"stop", "forget", "delete"}, Doing(w),
             todo' = Tail(todo) \/ (w = "stop" /\ todo' = Tail(Tail(todo))),
             w = "delete" => conf' = {}
      PROVE  RendInv'
  <2>1. /\ w = "stop" => todo = Removed
        /\ w = "forget" => todo = Tail(Removed)
        /\ w = "delete" => todo = Tail(Tail(Removed))
    BY <1>0, <1>3, DoingWhat
  <2>2. Leaving BY <2>1, LeavingSteps DEF Leaving
  <2>3. /\ todo' \in {Tail(Removed), Tail(Tail(Removed)), <<>>}
        /\ todo' = <<>> => conf' = {}
    BY <1>3, <2>1, LeavingSteps
  <2>4. Leaving' \/ (todo' = <<>> /\ conf' = {})
    BY <2>3, LeavingSteps DEF Leaving
  <2>. QED BY <1>1, <2>2, <2>4, LeavingKeeps
<1>4. CASE SetOptions
  <2>1. /\ Doing("set") /\ todo' = Tail(todo) /\ conf' = conf \cup Head(todo).arg
        /\ srv' = srv /\ tried' = tried
    BY <1>4 DEF SetOptions, Done
  <2>2. "set" \in Adds BY DEF Adds
  <2>3. conf' = After(todo, conf) /\ Pass(todo, conf, 1)
    BY <1>0, <2>1, <2>2, DoingWhat DEF After, Pass
  <2>4. Starting => StartingWith(conf', srv')
    BY <2>1 DEF Starting, StartingWith, Complete, At
  <2>. QED BY <1>2, <2>1, <2>2, <2>3, <2>4
<1>5. CASE Test
  <2>1. PICK w \in {"need", "unless"} : Doing(w) BY <1>5 DEF Test
  <2>2. w \in Adds BY DEF Adds
  <2>3. conf' = conf /\ srv' = srv /\ tried' = tried BY <1>5 DEF Test
  <2>4. Head(todo) = todo[1] /\ todo[1].do = w
    BY <1>0, <2>1, <2>2, DoingWhat
  <2>5. conf' = After(todo, conf) BY <2>3, <2>4 DEF After
  <2>6. Pass(todo, conf, 1) <=> ((todo[1].arg \subseteq conf) <=> w = "need")
    BY <2>4, Begins DEF Pass
  <2>7. Doing("need") <=> w = "need" BY <2>1, <2>4 DEF Doing
  <2>8. todo' = IF Pass(todo, conf, 1) THEN Tail(todo) ELSE <<>>
    <3>1. todo' = IF (Head(todo).arg \subseteq conf) = Doing("need")
                  THEN Tail(todo) ELSE <<>>
      BY <1>5 DEF Test
    <3>2. (Head(todo).arg \subseteq conf) = Doing("need") <=> Pass(todo, conf, 1)
      <4>1. Doing("need") \in BOOLEAN BY DEF Doing
      <4>. QED BY <2>4, <2>6, <2>7, <4>1
    <3>. QED BY <3>1, <3>2
  <2>9. Starting => StartingWith(conf', srv')
    BY <2>3 DEF Starting, StartingWith, Complete, At
  <2>. QED BY <1>2, <2>1, <2>2, <2>3, <2>5, <2>8, <2>9
<1>6. ASSUME NEW w \in {"start", "apn", "spawn"}, NEW p \in Procs, Doing(w),
             At(p, "idle"), todo' = Tail(todo), conf' = conf, tried' = tried,
             Goto(p, IF w = "apn" THEN "apn" ELSE "start")
      PROVE  RendInv'
  <2>1. w \in Adds BY DEF Adds
  <2>2. conf' = After(todo, conf) /\ Pass(todo, conf, 1)
    BY <1>0, <1>6, <2>1, DoingWhat DEF After, Pass
  <2>3. w # "apn" => srv'[p].pc = "start" BY <1>0, <1>6 DEF Goto, Script
  <2>4. \A q \in Procs : srv[q].pc # "idle" => srv'[q] = srv[q]
    BY <1>0, <1>6 DEF Goto, At
  <2>5. Starting => StartingWith(conf', srv')
    <3>1. SUFFICES ASSUME Starting PROVE StartingWith(conf', srv') OBVIOUS
    <3>2. PICK q \in Procs : srv[q].pc \in {"start", "launch"}
      BY <3>1 DEF Starting, At
    <3>. QED BY <1>6, <2>4, <3>1, <3>2 DEF Starting, StartingWith
  <2>6. w \in {"start", "spawn"} /\ Complete(conf) => StartingWith(conf', srv')
    BY <1>6, <2>3 DEF StartingWith
  <2>. QED BY <1>2, <1>6, <2>1, <2>2, <2>5, <2>6
<1>7. CASE RunScript
  <2>1. /\ Doing("start") \/ Doing("apn") \/ Doing("stop")
        /\ todo' = Tail(todo) /\ Goto("hot", Head(todo).do) /\ conf' = conf
        /\ tried' = tried
    BY <1>7 DEF RunScript, Done
  <2>2. CASE Doing("stop") BY <1>3, <2>1, <2>2
  <2>3. CASE Doing("start") BY <1>0, <1>6, <2>1, <2>3 DEF Doing
  <2>4. CASE Doing("apn") BY <1>0, <1>6, <2>1, <2>4 DEF Doing
  <2>. QED BY <2>1, <2>2, <2>3, <2>4
<1>8. CASE Spawn
  <2>1. PICK b \in Bgs : At(b, "idle") /\ Goto(b, "start") BY <1>8 DEF Spawn
  <2>2. b \in Procs BY DEF Procs
  <2>3. Doing("spawn") /\ todo' = Tail(todo) /\ conf' = conf /\ tried' = tried
    BY <1>8 DEF Spawn, Done
  <2>. QED BY <1>6, <2>1, <2>2, <2>3
<1>9. CASE NothingToStop BY <1>3, <1>9 DEF NothingToStop
<1>10. CASE Forget BY <1>3, <1>10 DEF Forget, Done
<1>11. CASE Delete BY <1>3, <1>11 DEF Delete, Done
<1>. QED BY <1>4, <1>5, <1>7, <1>8, <1>9, <1>10, <1>11

\* A handler begins.
LEMMA HandleRend == ASSUME Typed, RendInv, Handle PROVE RendInv'
<1>0. PICK n : n = Len(queue) OBVIOUS
<1>1. /\ queue # <<>> /\ todo = <<>> /\ QueueInv /\ modem \in Modems
      /\ UNCHANGED <<modem, plugged, conf, srv, tried>> /\ queue' = Tail(queue)
  BY DEF Handle, Waiting, Typed, Inv
<1>2. /\ n \in Nat \ {0} /\ Len(queue') = n - 1 /\ Head(queue) = queue[1]
      /\ \A i \in 1..n - 1 : queue'[i] = queue[i + 1]
  BY <1>0, <1>1, RestOfQueue
<1>3. ~Leaving /\ (Clean(0) => conf = {})
  BY <1>1, LeavingSteps DEF Leaving, Clean
<1>4. queue[1][1] = "remove" => Leaving' BY <1>2 DEF Handle, Leaving
<1>5. ASSUME NEW d \in Devices, queue[1] = <<"add", d>>, plugged, ~missed'
      PROVE  todo' \in Handlers(d)
  BY <1>2, <1>5 DEF Handle, Handlers, Devices
<1>6. \A k \in 1..n : Clean(k) => Clean(k - 1)'
  <2>1. SUFFICES ASSUME NEW k \in 1..n, Clean(k) PROVE Clean(k - 1)' OBVIOUS
  <2>2. queue[k][1] = "remove" BY <2>1 DEF Clean
  <2>3. CASE k = 1 BY <1>4, <2>2, <2>3 DEF Clean
  <2>4. CASE k # 1
    <3>1. k - 1 \in 1..n - 1 /\ k - 1 + 1 = k /\ k - 1 # 0 BY <1>2, <2>4
    <3>2. queue'[k - 1] = queue[k] BY <1>2, <3>1
    <3>. QED BY <2>2, <3>1, <3>2 DEF Clean
  <2>. QED BY <2>3, <2>4
<1>7. ~plugged' => Clean(Len(queue))'
  BY <1>0, <1>1, <1>2, <1>6 DEF RendInv
<1>8. ASSUME plugged', ~missed', ~Unknown(modem)'
      PROVE  Neither(Len(queue))' \/ First(Len(queue))' \/ Second(Len(queue))'
  <2>1. plugged /\ ~missed BY <1>1, <1>8 DEF Handle
  <2>7. ~Unknown(modem) BY <1>1, <1>8, SameModem
  <2>2. CASE Neither(n) /\ n > 2
    <3>1. Clean(n - 2) /\ n - 2 \in 1..n BY <1>2, <2>2 DEF Neither
    <3>2. Clean(n - 2 - 1)' BY <1>6, <3>1
    <3>3. n - 2 - 1 = n - 1 - 2 BY <1>2
    <3>4. queue'[n - 1 - 1] = queue[n - 1] /\ queue'[n - 1] = queue[n]
      BY <1>2, <2>2
    <3>5. n - 1 >= 2 BY <1>2, <2>2
    <3>6. Neither(n - 1)'
      <4>1. PICK d \in Devices, e \in Devices :
               d # e /\ queue[n - 1] = <<"add", d>> /\ queue[n] = <<"add", e>>
        BY <2>2 DEF Neither
      <4>. QED BY <3>2, <3>3, <3>4, <3>5, <4>1 DEF Neither
    <3>. QED BY <1>2, <3>6 DEF Neither
  <2>3. CASE Neither(n) /\ n = 2
    <3>1. PICK d \in Devices, e \in Devices :
                 d # e /\ queue[1] = <<"add", d>> /\ queue[2] = <<"add", e>>
      BY <2>3 DEF Neither
    <3>2. conf = {} /\ conf' = {} BY <1>1, <1>3, <2>3 DEF Neither
    <3>3. todo' \in Handlers(d) BY <1>5, <1>8, <2>1, <3>1
    <3>4. Adding(todo') BY <1>1, <3>3, AddingHandlers
    <3>5. \/ Runs(todo', conf')
          \/ \A h \in Handlers(e) : Runs(h, Gets(todo', conf'))
          \/ e = "net" /\ NetIgnored(Gets(todo', conf'))
      <4>1. e \in Devices \ {d} BY <3>1
      <4>2. ASSUME NEW g \in Handlers(e)
            PROVE  \/ Runs(todo', {}) \/ Runs(g, Gets(todo', {}))
                   \/ e = "net" /\ NetIgnored(Gets(todo', {}))
        BY <1>1, <2>7, <3>3, <4>1, <4>2, OneStarts
      <4>. QED BY <3>2, <4>2
    <3>6. Due' \/ Later(e)' \/ (e = "net" /\ Alone')
      BY <1>1, <3>5, SameModem, Zenon DEF Later, Alone
    <3>7. queue'[1] = <<"add", e>> /\ Len(queue') = 1 BY <1>2, <2>3, <3>1
    <3>8. First(Len(queue))' BY <3>4, <3>6, <3>7 DEF First, Later, Alone, Adding
    <3>. QED BY <3>8
  <2>4. CASE First(n)
    <3>1. PICK e \in Devices :
            /\ queue[1] = <<"add", e>>
            /\ Due \/ Later(e) \/ (e = "net" /\ Alone)
      BY <2>4 DEF First, Later, Alone
    <3>2. todo' \in Handlers(e) BY <1>5, <1>8, <2>1, <3>1
    <3>3. Adding(todo') BY <1>1, <3>2, AddingHandlers
    <3>4. ASSUME Due PROVE Due'
      <4>1. tried \/ Starting BY <1>1, <3>4, NoneGets DEF Due
      <4>2. Starting => StartingWith(conf', srv')
        BY <1>1 DEF Starting, StartingWith, At
      <4>. QED BY <1>1, <4>1, <4>2, SameModem, Zenon
    <3>5. ASSUME Later(e) PROVE Due'
      <4>1. Runs(todo', Gets(todo, conf)) BY <3>2, <3>5 DEF Later
      <4>2. Gets(todo, conf) = conf \cap Settable BY <1>1, NoneGets
      <4>3. todo' \in Seq(StepType) BY <3>3 DEF Adding
      <4>4. Runs(todo', conf') BY <1>1, <4>1, <4>2, <4>3, Same
      <4>. QED BY <1>1, <4>4, SameModem, Zenon
    <3>8. ASSUME e = "net", Alone PROVE Alone'
      <4>1. PICK wdm \in BOOLEAN : todo' = NetAdded(modem, wdm)
        BY <3>2, <3>8 DEF Handlers
      <4>2. Shadowed(modem) BY <3>8 DEF Alone, NetIgnored
      <4>3. todo' \in {Answers, Waits} BY <4>1, <4>2, ShadowedNet
      <4>4. Gets(todo, conf) = conf \cap Settable BY <1>1, NoneGets
      <4>5. "device" \in conf BY <3>8, <4>4 DEF Alone, NetIgnored
      <4>6. Gets(todo', conf) = conf \cap Settable
        BY <4>3, <4>5, IgnoredGets
      <4>7. NetIgnored(Gets(todo', conf'))
        BY <1>1, <3>8, <4>4, <4>6 DEF Alone
      <4>. QED BY <1>1, <4>7, SameModem, Zenon DEF Alone
    <3>6. Due' \/ Alone' BY <3>1, <3>4, <3>5, <3>8
    <3>7. Second(Len(queue))'
      BY <1>2, <2>4, <3>3, <3>6 DEF First, Second, Alone, Adding
    <3>. QED BY <3>7
  <2>5. ~Second(n) BY <1>2 DEF Second
  <2>6. n >= 2 => n = 2 \/ n > 2 BY <1>2
  <2>. QED
    BY <1>0, <2>1, <2>2, <2>3, <2>4, <2>5, <2>6, <2>7 DEF RendInv, Neither
<1>. QED BY <1>7, <1>8 DEF RendInv

LEMMA PlugRend ==
  ASSUME Typed, RendInv, NEW o \in Orders, Plug(o) \/ Unplug(o)
  PROVE  RendInv'
<1>0. PICK n : n = Len(queue) OBVIOUS
<1>1. PICK what \in {"add", "remove"} :
        /\ queue' = queue \o [i \in DOMAIN o |-> <<what, o[i]>>]
        /\ what = "add" => ~plugged /\ plugged'
        /\ what = "remove" => ~plugged'
  BY DEF Plug, Unplug
<1>2. todo' = todo /\ conf' = conf BY DEF Plug, Unplug
<1>3. n \in Nat /\ Len(queue') = n + 2 /\ \A i \in 1..n : queue'[i] = queue[i]
  BY <1>0, <1>1, Appended DEF Typed
<1>4. PICK d \in Devices, e \in Devices :
        d # e /\ queue'[n + 1] = <<what, d>> /\ queue'[n + 2] = <<what, e>>
  BY <1>0, <1>1, Appended DEF Typed
<1>5. CASE what = "remove"
  <2>1. queue'[n + 2][1] = "remove" BY <1>4, <1>5
  <2>2. Clean(n + 2)' BY <1>3, <2>1 DEF Clean
  <2>. QED BY <1>1, <1>3, <1>5, <2>2 DEF RendInv
<1>6. CASE what = "add"
  <2>1. Clean(n) BY <1>0, <1>1, <1>6 DEF RendInv
  <2>2. Clean(n)'
    <3>1. CASE n = 0 BY <1>2, <2>1, <3>1 DEF Clean, Leaving
    <3>2. CASE n # 0
      <4>1. queue'[n] = queue[n] BY <1>3, <3>2
      <4>. QED BY <2>1, <3>2, <4>1 DEF Clean
    <3>. QED BY <3>1, <3>2
  <2>3. Neither(n + 2)'
    <3>0. PICK k : k = n + 2 OBVIOUS
    <3>1. k - 2 = n /\ k - 1 = n + 1 /\ k >= 2 BY <1>3, <3>0
    <3>2. Clean(k - 2)' BY <2>2, <3>1
    <3>3. queue'[k - 1] = <<"add", d>> /\ queue'[k] = <<"add", e>>
      BY <1>4, <1>6, <3>0, <3>1
    <3>4. e \in Devices \ {d} BY <1>4
    <3>5. Neither(k)' BY <3>1, <3>2, <3>3, <3>4 DEF Neither
    <3>. QED BY <3>0, <3>5
  <2>. QED BY <1>1, <1>3, <1>6, <2>3 DEF RendInv, Neither
<1>. QED BY <1>5, <1>6

LEMMA RendStep ==
  ASSUME Typed, RendInv, [Next]_vars
  PROVE  RendInv'
<1>1. CASE Handler BY <1>1, HandleRend, HandlerRend DEF Handler
<1>2. ASSUME NEW p \in Procs, Service(p) PROVE RendInv'
  BY <1>2, ServiceAside, AsideKeeps
<1>. QED BY <1>1, <1>2, OthersAside, AsideKeeps, PlugRend DEF Next

\* Of the two handlers of a modem, which wait for each other's options, one sees
\* both: whatever the type and the driver of the modem, the order of its devices
\* and the steps of handlers, scripts, monitors and users between, a modem that
\* was plugged in and answered the probes has been started when everything is
\* quiet.  The modems that get_modem_type ignores are left alone, and so are,
\* when their tty comes first, those listed as qmihybrid or sierranet that it
\* takes for another type because of their driver: README.ttymodem and the
\* comment of handle_qmi_hybrid promise that the interface's handler starts them.
THEOREM OneMeetsTheOther == Spec => []Rendezvous
<1>1. Init => RendInv BY DEF Init, RendInv, Clean
<1>2. Typed /\ RendInv /\ [Next]_vars => RendInv' BY RendStep
<1>3. Typed /\ RendInv => Rendezvous
  <2>. SUFFICES ASSUME Typed, RendInv, Quiet, plugged, ~missed, ~Unknown(modem)
                PROVE  tried \/ NetIgnored(conf)
    BY DEF Rendezvous
  <2>1. Len(queue) = 0 /\ todo = <<>> BY DEF Quiet, Waiting
  <2>2. Due \/ NetIgnored(Gets(todo, conf))
    BY <2>1 DEF RendInv, Neither, First, Second
  <2>3. ~Starting BY DEF Quiet, Starting, At
  <2>4. CASE Due BY <2>1, <2>3, <2>4, NoneGets DEF Due
  <2>5. CASE NetIgnored(Gets(todo, conf))
    <3>1. Gets(todo, conf) = conf \cap Settable BY <2>1, NoneGets
    <3>. QED BY <2>5, <3>1, Known DEF NetIgnored
  <2>. QED BY <2>2, <2>4, <2>5
<1>. QED BY <1>1, <1>2, <1>3, TypedHolds, PTL DEF Spec
=============================================================================
