---------------------------- MODULE ModemService ----------------------------
(***************************************************************************)
(* The service of one cellular modem: the hotplug handlers that write its  *)
(* section of /etc/config/modems/modems and start it, modem_service.sh and *)
(* modem_apn.sh run by them or by users, and the monitor processes, each   *)
(* of which leaves its pid in a file.  That procd, which is not in the     *)
(* repository, runs one handler at a time and in the order of the events is*)
(* assumed: cleanup_etc_config_modems holds its flock for the cleanup at   *)
(* boot only.  Everything else runs in parallel.                           *)
(***************************************************************************)
EXTENDS Integers, Sequences

CONSTANTS
  Modems,   \* the modems considered: [list |-> its entry in hybridmodems.list
            \* or "modemmanager", driver |-> that of its network interface,
            \* ops |-> what is asked of its service: "start", "stop",
            \* "restart" or "set" (an APN)]
  Orders,   \* the orders in which its devices may appear
  Pids,     \* the monitors that may live at once
  None,
  Users,    \* processes of users and of edged
  Bgs,      \* starts that the handlers leave in the background
  Tries,    \* signals of a stop: 11, of which the last is SIGKILL
  MaxQueue  \* bound: uevents waiting

ASSUME ModemAssumption ==
  /\ None \notin Pids
  /\ Tries \in Nat \ {0}
  /\ Orders \subseteq {<<"tty", "net">>, <<"net", "tty">>}
  /\ \A m \in Modems : m.ops \subseteq {"start", "stop", "restart", "set"}

VARIABLES
  modem,    \* which of Modems
  plugged,
  queue,    \* uevents, <<"add" or "remove", device>>
  todo,     \* what is left to do of the handler that runs
  conf,     \* the options that are set in the modem's section; "started" is
            \* in it when its value is 1
  profile,  \* the APN profile: "none", "automatic" or "manual"
  pidfile,  \* "absent", "empty" or a pid
  mon,      \* state of each monitor
  srv,      \* the script that a process runs: where it is, the pid it stops,
            \* the signals left, and what follows the stop
  rules,    \* MASQUERADE rules of the modem; 2 stands for two or more
  missed,   \* ghost: the device did not answer a probe since it was plugged
  tried     \* ghost: the service was started since it was plugged

hotplug == <<modem, plugged, queue, todo>>
vars == <<hotplug, conf, profile, pidfile, mon, srv, rules, missed, tried>>

Procs == {"hot"} \cup Bgs \cup Users
Alive == {"launched", "opening", "written", "running"}
Idle  == [pc |-> "idle", pid |-> None, left |-> 0, next |-> "idle"]

----------------------------------------------------------------------------
\* What the handlers do, as get_modem_type tells the modems apart.

Step(do, arg) == [do |-> do, arg |-> arg]

\* The driver decides before the list does.
NetType(m) ==
  IF m.driver = "huawei_cdc_ncm" THEN "huawei-ncm"
  ELSE IF m.driver = "qmi_wwan" THEN "qmiwwan"
  ELSE CASE m.list \in {"serial", "qmiwwan"} -> "None"
         [] m.list \in {"qmihybrid", "sierranet"} -> m.list
         [] OTHER -> "cdcether"

\* The driver hides that the list has a hybrid modem: its control device and
\* its network interface are then not waited for as one.
Shadowed(m) == m.list \in {"qmihybrid", "sierranet"} /\ NetType(m) # m.list

\* The list has a QMI modem and the interface another driver: it is ignored.
Unknown(m) == m.list = "qmiwwan" /\ NetType(m) = "None"

\* Variant: the start is left to the other handler.
HybridTtyDefers == <<Step("set", {"section", "device"}), Step("apn", {})>>

\* The control device of a hybrid modem, its APN, and the start unless the
\* network interface has not been seen.
HybridTty == <<Step("set", {"section", "device"}), Step("apn", {}),
               Step("need", {"ifname"}), Step("start", {})>>

TtyAdded(m) ==
  CASE m.list \in {"qmihybrid", "sierranet"} -> HybridTty
    [] m.list = "serial" ->
         <<Step("unless", {"device"}),
           Step("set", {"section", "device", "ifname", "type"}),
           Step("apn", {}), Step("spawn", {})>>
    [] m.list = "modemmanager" ->
         <<Step("unless", {"device"}),
           Step("set", {"section", "device", "type"}), Step("spawn", {})>>
    [] OTHER ->
         <<Step("unless", {"auxdevice"}), Step("set", {"section", "auxdevice"})>>
         \o IF NetType(m) # "huawei-ncm" THEN <<>>
            ELSE <<Step("need", {"type"}), Step("unless", {"device"}),
                   Step("set", {"device"}), Step("apn", {}), Step("start", {})>>

\* wdm: the control port of a Huawei modem answers AT commands.
NetAdded(m, wdm) ==
  LET new  == Step("set", {"section", "ifname", "type"})
      last == <<Step("set", {"device"}), Step("apn", {}), Step("start", {})>>
  IN  IF m.list = "modemmanager" THEN TtyAdded(m)
      ELSE CASE NetType(m) = "None" -> <<>>
             [] NetType(m) \in {"qmihybrid", "sierranet"} ->
                  <<new, Step("need", {"device"}), Step("start", {})>>
             [] NetType(m) = "qmiwwan" ->
                  <<Step("unless", {"device"}), new>> \o last
             [] NetType(m) = "huawei-ncm" ->
                  <<Step("unless", {"device"}), new>>
                  \o (IF wdm THEN <<>> ELSE <<Step("need", {"auxdevice"})>>)
                  \o last
             [] OTHER -> <<Step("unless", {"device"}), new, Step("start", {})>>

Removed == <<Step("stop", {}), Step("forget", {}), Step("delete", {})>>

----------------------------------------------------------------------------
\* The monitors, the pid file and the status.

HasType  == "type" \in conf
PidAlive == pidfile \in Pids /\ mon[pidfile] \in Alive

\* load_modem_status
Status ==
  IF modem.list # "modemmanager" /\ "ifname" \notin conf THEN "UNAVAILABLE"
  ELSE IF pidfile = "empty" THEN "UNKNOWN"
  ELSE IF PidAlive THEN "RUNNING" ELSE "STOPPED"

\* The pid goes into the file that was opened, which may be unlinked by now.
MonitorOpens(m) ==
  /\ mon[m] = "launched"
  /\ mon' = [mon EXCEPT ![m] = "opening"]
  /\ pidfile' = "empty"
  /\ UNCHANGED <<hotplug, conf, profile, srv, rules, missed, tried>>
MonitorWrites(m) ==
  /\ mon[m] = "opening"
  /\ mon' = [mon EXCEPT ![m] = "written"]
  /\ pidfile' = IF pidfile = "absent" THEN pidfile ELSE m
  /\ UNCHANGED <<hotplug, conf, profile, srv, rules, missed, tried>>

\* It reads the section, and ends if it has been removed (ppp_run.sh if it does
\* not find the option cdmagsm, which is set with ifname).
MonitorSetsUp(m) ==
  /\ mon[m] = "written"
  /\ LET found == IF modem.list = "modemmanager" THEN "section" ELSE "ifname"
     IN  mon' = [mon EXCEPT ![m] =
                   IF found \in conf THEN "running" ELSE "dead"]
  /\ UNCHANGED <<hotplug, conf, profile, pidfile, srv, rules, missed, tried>>
MonitorDies(m) ==
  /\ mon[m] \in Alive
  /\ mon' = [mon EXCEPT ![m] = "dead"]
  /\ UNCHANGED <<hotplug, conf, profile, pidfile, srv, rules, missed, tried>>

----------------------------------------------------------------------------
\* modem_service.sh and modem_apn.sh in process p.

At(p, place) == srv[p].pc = place
Goto(p, place) == srv' = [srv EXCEPT ![p].pc = place]
Exit(p) == srv' = [srv EXCEPT ![p] = Idle]

\* A pid that nobody refers to may be given again.
FreePid(m) ==
  /\ mon[m] = "dead" /\ pidfile # m
  /\ \A p \in Procs : srv[p].pid # m

StartCheck(p) ==
  /\ At(p, "start")
  /\ IF ~HasType \/ Status \in {"RUNNING", "UNAVAILABLE"}
     THEN Exit(p) ELSE Goto(p, "launch")
  /\ tried' = (tried \/ (HasType /\ Status = "RUNNING"))
  /\ UNCHANGED <<hotplug, conf, profile, pidfile, mon, rules, missed>>

\* The rule is for the interface that the section names, if any.
Launch(p) ==
  /\ At(p, "launch")
  /\ \E m \in Pids : FreePid(m) /\ mon' = [mon EXCEPT ![m] = "launched"]
  /\ rules' = IF "ifname" \in conf /\ rules < 2 THEN rules + 1 ELSE rules
  /\ tried' = TRUE
  /\ Goto(p, "started")
  /\ UNCHANGED <<hotplug, conf, profile, pidfile, missed>>
Started(p) ==
  /\ At(p, "started")
  /\ conf' = conf \cup (IF "section" \in conf THEN {"started"} ELSE {})
  /\ Exit(p)
  /\ UNCHANGED <<hotplug, profile, pidfile, mon, rules, missed, tried>>

StopCheck(p) ==
  /\ At(p, "stop")
  /\ IF ~HasType \/ Status = "UNAVAILABLE"
     THEN Exit(p) /\ UNCHANGED pidfile
     ELSE IF PidAlive
     THEN /\ srv' = [srv EXCEPT ![p].pc = "signal", ![p].pid = pidfile,
                                ![p].left = Tries]
          /\ UNCHANGED pidfile
     ELSE Goto(p, "unrule") /\ pidfile' = "absent"
  /\ UNCHANGED <<hotplug, conf, profile, mon, rules, missed, tried>>

NoSigkill(n) == FALSE \* Variant: SIGHUP to the end.
LastTry(n) == n = 1

\* The PPP script removes the pid file when it is asked to end.
Signal(p) ==
  /\ At(p, "signal")
  /\ LET m == srv[p].pid
     IN  \/ /\ mon' = [mon EXCEPT ![m] = "dead"]
            /\ pidfile' = IF modem.list = "serial" /\ mon[m] = "running"
                             /\ ~LastTry(srv[p].left)
                          THEN "absent" ELSE pidfile
         \/ /\ ~LastTry(srv[p].left) /\ mon[m] # "dead"
            /\ UNCHANGED <<mon, pidfile>>
  /\ Goto(p, "check")
  /\ UNCHANGED <<hotplug, conf, profile, rules, missed, tried>>

\* A second later.
Check(p) ==
  /\ At(p, "check")
  /\ LET gone == mon[srv[p].pid] = "dead"
         left == srv[p].left - 1
     IN  /\ pidfile' = IF gone THEN "absent" ELSE pidfile
         /\ srv' = [srv EXCEPT ![p].left = left, ![p].pc =
                      IF gone \/ left = 0 THEN "unrule" ELSE "signal"]
  /\ UNCHANGED <<hotplug, conf, profile, mon, rules, missed, tried>>

DeletedBlind == {rules - 1} \* Variant: a rule that may not exist.
Deleted == IF "ifname" \notin conf \/ rules = 0 THEN {rules}
           ELSE {rules - 1} \cup ({rules} \cap {2})
Unrule(p) ==
  /\ At(p, "unrule")
  /\ rules' \in Deleted
  /\ Goto(p, "stopped")
  /\ UNCHANGED <<hotplug, conf, profile, pidfile, mon, missed, tried>>
Stopped(p) ==
  /\ At(p, "stopped")
  /\ IF HasType /\ Status = "STOPPED"
     THEN /\ conf' = conf \ {"started"}
          /\ srv' = [srv EXCEPT ![p] = [Idle EXCEPT !.pc = srv[p].next]]
     ELSE Exit(p) /\ UNCHANGED conf
  /\ UNCHANGED <<hotplug, profile, pidfile, mon, rules, missed, tried>>

\* run_set: the handlers set an automatic profile, users their own.
ApnCheck(p) ==
  /\ At(p, "apn")
  /\ IF ~HasType \/ (p = "hot" /\ profile = "manual")
     THEN Exit(p) ELSE Goto(p, "apn.write")
  /\ UNCHANGED <<hotplug, conf, profile, pidfile, mon, rules, missed, tried>>
ApnWrite(p) ==
  /\ At(p, "apn.write")
  /\ profile' = IF p = "hot" THEN "automatic" ELSE "manual"
  /\ IF "started" \in conf
     THEN srv' = [srv EXCEPT ![p].pc = "stop", ![p].next = "start"]
     ELSE Exit(p)
  /\ UNCHANGED <<hotplug, conf, pidfile, mon, rules, missed, tried>>

\* What a user asks for.
Places == [start |-> "start", stop |-> "stop", restart |-> "stop", set |-> "apn"]
Call(u, op) ==
  /\ At(u, "idle")
  /\ srv' = [srv EXCEPT ![u].pc = Places[op],
                        ![u].next = IF op = "restart" THEN "start" ELSE "idle"]
  /\ UNCHANGED <<hotplug, conf, profile, pidfile, mon, rules, missed, tried>>

----------------------------------------------------------------------------
\* The handlers.

Plug(order) ==
  /\ ~plugged /\ Len(queue) + Len(order) <= MaxQueue
  /\ plugged' = TRUE
  /\ queue' = queue \o [i \in DOMAIN order |-> <<"add", order[i]>>]
  /\ missed' = FALSE /\ tried' = FALSE
  /\ UNCHANGED <<modem, todo, conf, profile, pidfile, mon, srv, rules>>
Unplug(order) ==
  /\ plugged /\ Len(queue) + Len(order) <= MaxQueue
  /\ plugged' = FALSE
  /\ queue' = queue \o [i \in DOMAIN order |-> <<"remove", order[i]>>]
  /\ UNCHANGED <<modem, todo, conf, profile, pidfile, mon, srv, rules, missed,
                 tried>>

Waiting == todo = <<>> /\ At("hot", "idle")

\* A device that is gone or does not answer is left alone.
Handle ==
  /\ Waiting /\ queue # <<>>
  /\ LET what == Head(queue)[1]
         dev  == Head(queue)[2]
     IN  \/ what = "remove" /\ todo' = Removed /\ UNCHANGED missed
         \/ /\ what = "add" /\ plugged /\ UNCHANGED missed
            /\ \/ dev = "tty" /\ todo' = TtyAdded(modem)
               \/ dev = "net" /\ \E wdm \in BOOLEAN : todo' = NetAdded(modem, wdm)
         \/ what = "add" /\ todo' = <<>> /\ missed' = TRUE
  /\ queue' = Tail(queue)
  /\ UNCHANGED <<modem, plugged, conf, profile, pidfile, mon, srv, rules, tried>>

\* The next step of the handler, when the script it waits for has ended.
Doing(what) == todo # <<>> /\ At("hot", "idle") /\ Head(todo).do = what
Done == todo' = Tail(todo) /\ UNCHANGED <<modem, plugged, queue>>

SetOptions ==
  /\ Doing("set") /\ Done
  /\ conf' = conf \cup Head(todo).arg
  /\ UNCHANGED <<profile, pidfile, mon, srv, rules, missed, tried>>
Test ==
  /\ Doing("need") \/ Doing("unless")
  /\ todo' = IF (Head(todo).arg \subseteq conf) = Doing("need")
             THEN Tail(todo) ELSE <<>>
  /\ UNCHANGED <<modem, plugged, queue, conf, profile, pidfile, mon, srv, rules,
                 missed, tried>>
RunScript ==
  /\ Doing("start") \/ Doing("apn") \/ (Doing("stop") /\ pidfile # "absent")
  /\ Done /\ Goto("hot", Head(todo).do)
  /\ UNCHANGED <<conf, profile, pidfile, mon, rules, missed, tried>>
Spawn ==
  /\ Doing("spawn") /\ Done
  /\ \E b \in Bgs : At(b, "idle") /\ Goto(b, "start")
  /\ UNCHANGED <<conf, profile, pidfile, mon, rules, missed, tried>>
\* Without a pid file there is nothing to stop.
NothingToStop ==
  /\ Doing("stop") /\ pidfile = "absent"
  /\ todo' = Tail(Tail(todo))
  /\ UNCHANGED <<modem, plugged, queue, conf, profile, pidfile, mon, srv, rules,
                 missed, tried>>
Forget ==
  /\ Doing("forget") /\ Done
  /\ pidfile' = "absent"
  /\ UNCHANGED <<conf, profile, mon, srv, rules, missed, tried>>
Delete ==
  /\ Doing("delete") /\ Done
  /\ conf' = {} /\ tried' = FALSE
  /\ UNCHANGED <<profile, pidfile, mon, srv, rules, missed>>

----------------------------------------------------------------------------
Init ==
  /\ modem \in Modems
  /\ plugged = FALSE /\ queue = <<>> /\ todo = <<>>
  /\ conf = {} /\ profile = "none" /\ pidfile = "absent"
  /\ mon = [m \in Pids |-> "dead"] /\ srv = [p \in Procs |-> Idle]
  /\ rules = 0 /\ missed = FALSE /\ tried = FALSE

Service(p) ==
  \/ StartCheck(p) \/ Launch(p) \/ Started(p)
  \/ StopCheck(p) \/ Signal(p) \/ Check(p) \/ Unrule(p) \/ Stopped(p)
  \/ ApnCheck(p) \/ ApnWrite(p)
Monitor(m) ==
  MonitorOpens(m) \/ MonitorWrites(m) \/ MonitorSetsUp(m) \/ MonitorDies(m)
Handler ==
  \/ Handle \/ SetOptions \/ Test \/ RunScript \/ Spawn \/ NothingToStop
  \/ Forget \/ Delete

Next ==
  \/ \E o \in Orders : Plug(o) \/ Unplug(o)
  \/ Handler
  \/ \E p \in Procs : Service(p)
  \/ \E m \in Pids : Monitor(m)
  \/ \E u \in Users : \E op \in modem.ops : Call(u, op)

Spec == Init /\ [][Next]_vars

----------------------------------------------------------------------------
Options == {"section", "device", "auxdevice", "ifname", "type", "started"}
Where == {"idle", "start", "launch", "started", "stop", "signal", "check",
            "unrule", "stopped", "apn", "apn.write"}

\* Types, and no handler sets an option of a modem without its section, nor
\* does a stop delete a rule that nobody added.
TypeOK ==
  /\ modem \in Modems
  /\ conf \subseteq Options /\ (conf # {} => "section" \in conf)
  /\ profile \in {"none", "automatic", "manual"}
  /\ pidfile \in Pids \cup {"absent", "empty"}
  /\ mon \in [Pids -> Alive \cup {"dead"}]
  /\ srv \in [Procs -> [pc : Where, pid : Pids \cup {None}, left : 0..Tries,
                        next : {"idle", "start"}]]
  /\ rules \in 0..2

Quiet == Waiting /\ queue = <<>> /\ \A p \in Procs : At(p, "idle")

\* The handler of the network interface finds the control device of a hybrid
\* modem that its driver hides, takes the modem for detected and ends.
NetIgnored(c) == Shadowed(modem) /\ "device" \in c /\ "ifname" \notin c

\* Whatever the order of its tty and its network interface, of the steps of
\* their two handlers and of the scripts they run, a modem that was plugged in
\* and answered the probes has been started when everything is quiet: of the
\* two handlers that wait for each other's option, one sees both.  Exactly two
\* kinds of modem are left alone: one that get_modem_type ignores, and, against
\* the comment of handle_qmi_hybrid, a hybrid modem with the driver of another
\* type whose tty comes first.
Rendezvous ==
  Quiet /\ plugged /\ ~missed => tried \/ Unknown(modem) \/ NetIgnored(conf)

\* A stop never goes on to delete the firewall rules while the monitor that it
\* signalled is alive, be that deaf to SIGHUP, replaced or stopped by another
\* process at the same time.
StopKills ==
  [][\A p \in Procs :
       ~At(p, "unrule") /\ srv'[p].pc = "unrule" /\ srv[p].pid # None
         => mon'[srv[p].pid] = "dead"]_vars
=============================================================================
