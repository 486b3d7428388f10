--------------------------- MODULE ModemServiceInv ---------------------------
(***************************************************************************)
(* What the handlers still have to do, and the invariants from which the   *)
(* rendezvous of the two of a modem follows: a handler is known by its     *)
(* steps from here on, what it will have set and whether it gets to the    *)
(* start of the service.                                                   *)
(***************************************************************************)
EXTENDS ModemService

Settable == Options \ {"started"}
Adds     == {"set", "apn", "need", "unless", "start", "spawn"}
StepType == [do : Adds \cup {"stop", "forget", "delete"}, arg : SUBSET Settable]

\* The options set when step i of handler s is reached, that began with c.
Conf(s, c, i) ==
  c \cup {x \in Settable : \E j \in 1..i - 1 : s[j].do = "set" /\ x \in s[j].arg}

\* Step i does not end the handler, nor does one before it.
Pass(s, c, i) ==
  /\ s[i].do = "need" => s[i].arg \subseteq Conf(s, c, i)
  /\ s[i].do = "unless" => ~(s[i].arg \subseteq Conf(s, c, i))
Reached(s, c, i) == \A j \in 1..i - 1 : Pass(s, c, j)

\* modem_start does not leave a section with these options alone.
Complete(c) == "type" \in c /\ ("ifname" \in c \/ modem.list = "modemmanager")

\* The handler gets to a start that goes through, and what it leaves set.
Runs(s, c) ==
  \E k \in 1..Len(s) : /\ s[k].do \in {"start", "spawn"}
                       /\ Reached(s, c, k) /\ Complete(Conf(s, c, k))
Gets(s, c) ==
  {x \in Settable : \/ x \in c
                    \/ \E j \in 1..Len(s) : /\ s[j].do = "set" /\ x \in s[j].arg
                                            /\ Reached(s, c, j)}

\* The handler of a removal is under way, or one of an addition is.
Leaving   == todo \in {Removed, <<Step("forget", {}), Step("delete", {})>>,
                       <<Step("delete", {})>>}
Adding(s) == s \in Seq(StepType) /\ \A i \in 1..Len(s) : s[i].do \in Adds

\* The section is made before its options are set, or with the first.
NamesFirst(s, c) ==
  \A i \in 1..Len(s) : s[i].do = "set" => "section" \in Conf(s, c, i + 1)

TodoInv == Leaving \/ (Adding(todo) /\ NamesFirst(todo, conf))

----------------------------------------------------------------------------
Devices  == {"tty", "net"}
QueueInv == queue \in Seq({"add", "remove"} \X Devices)
Handlers(dev) == IF dev = "tty" THEN {TtyAdded(modem)}
                 ELSE {NetAdded(modem, wdm) : wdm \in BOOLEAN}

\* A start is on its way that will find the section complete.
Starting == Complete(conf) /\ \E p \in Procs : At(p, "start") \/ At(p, "launch")
Due      == tried \/ Starting \/ Runs(todo, conf)

\* Nothing of the modem is left when the first k events have been handled.
Clean(k) == IF k = 0 THEN Leaving \/ (todo = <<>> /\ conf = {})
            ELSE queue[k][1] = "remove"

\* Neither handler has run; the first runs, or has run, and the second starts
\* the service if the first does not; the second runs or has run.  Or the second
\* is ignored.
Neither(n) ==
  /\ n >= 2 /\ Clean(n - 2)
  /\ \E d \in Devices : /\ queue[n - 1] = <<"add", d>>
                        /\ \E e \in Devices \ {d} : queue[n] = <<"add", e>>
First(n) ==
  /\ n = 1 /\ Adding(todo)
  /\ \E e \in Devices :
       /\ queue[1] = <<"add", e>>
       /\ \/ Due
          \/ \A h \in Handlers(e) : Runs(h, Gets(todo, conf))
          \/ e = "net" /\ NetIgnored(Gets(todo, conf))
Second(n) ==
  n = 0 /\ Adding(todo) /\ (Due \/ NetIgnored(Gets(todo, conf)))

RendInv ==
  /\ ~plugged => Clean(Len(queue))
  /\ plugged /\ ~missed /\ ~Unknown(modem) =>
       Neither(Len(queue)) \/ First(Len(queue)) \/ Second(Len(queue))
=============================================================================
