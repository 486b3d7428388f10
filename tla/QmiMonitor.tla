----------------------------- MODULE QmiMonitor -----------------------------
(***************************************************************************)
(* The monitor of a QMI modem: the loop of IPModemsRun.py around Qmi, which*)
(* polls the modem every few seconds, sets up or tears down its network    *)
(* interface, restarts the connection and, after too many errors, resets   *)
(* the modem.  The modem may change between any two commands.              *)
(***************************************************************************)
EXTENDS Integers

CONSTANTS
  SoftReset,  \* soft_reset_threshold (20),
  HardReset,  \* hard_reset_threshold (100) and
  IpErrors,   \* ip_check_errors_threshold (100)
  States      \* what the modem says of its connection: "connected",
              \* "disconnected", or "other" for any other answer or none

ASSUME QmiAssumption ==
  /\ SoftReset \in Nat \ {0} /\ HardReset \in Nat \ {0} /\ IpErrors \in Nat \ {0}
  /\ States \subseteq {"connected", "disconnected", "other"}

VARIABLES
  pc,
  clients,              \* QMI clients that were allocated
  registered, link,     \* the modem: is it registered, and its connection
  registration_status,  \* what the monitor has last read of it
  connection_status,
  connection_errors, ip_check_errors,
  expected_ip,          \* an address is known
  wwan_down,            \* this poll found the connection down
  up,                   \* the interface is up
  network,              \* it has a section in /etc/config/network
  reset,                \* ghost: what this poll has reset
  healthy               \* ghost: this poll found nothing wrong

modem == <<registered, link>>
iface == <<up, network>>
vars == <<pc, clients, modem, registration_status, connection_status,
          connection_errors, ip_check_errors, expected_ip, wwan_down, iface,
          reset, healthy>>

Clients == {"dms", "nas", "wds"}

----------------------------------------------------------------------------
\* What the methods do to the monitor's fields.

TeardownNothing == UNCHANGED iface \* Variant: not called.

\* teardown_network_interface: the uci commands lack a space, and do nothing.
Teardown == up' = FALSE /\ UNCHANGED network

\* reconnected: a monitor without a WDS client fails in it.
Reconnected ==
  /\ connection_errors' = 0 /\ ip_check_errors' = 0
  /\ up' = TRUE /\ network' = TRUE
  /\ expected_ip' \in BOOLEAN
\* An error that is not caught: a new object is made a second later.
Fails ==
  /\ pc' = "setup"
  /\ UNCHANGED <<clients, modem, registration_status, connection_status,
                 connection_errors, ip_check_errors, expected_ip, wwan_down,
                 iface, reset, healthy>>

----------------------------------------------------------------------------
\* The modem changes by itself; only a device that answers is connected.
Modem ==
  /\ registered' \in BOOLEAN /\ link' \in States
  /\ UNCHANGED <<pc, clients, registration_status, connection_status,
                 connection_errors, ip_check_errors, expected_ip, wwan_down,
                 iface, reset, healthy>>

\* A new object; allocating a client may fail.
Setup ==
  /\ pc = "setup"
  /\ clients' \in SUBSET Clients
  /\ registration_status' = FALSE /\ connection_status' = "none"
  /\ connection_errors' = 0 /\ ip_check_errors' = 0 /\ expected_ip' = FALSE
  /\ reset' = {} /\ healthy' = FALSE
  /\ pc' = "static"
  /\ UNCHANGED <<modem, wwan_down, iface>>

\* get_static_values.  The field connection_status does not exist before it is
\* read: without a WDS client the monitor ends.
Static ==
  /\ pc = "static"
  /\ IF "wds" \notin clients
     THEN /\ pc' = "ended" /\ Teardown
          /\ UNCHANGED <<connection_status, connection_errors, ip_check_errors,
                         expected_ip>>
     ELSE /\ pc' = "registration"
          /\ connection_status' = link
          /\ IF link = "connected" THEN Reconnected
             ELSE UNCHANGED <<connection_errors, ip_check_errors, expected_ip,
                              iface>>
  /\ UNCHANGED <<clients, modem, registration_status, wwan_down, reset, healthy>>

\* get_dynamic_values, in five parts.
ReadRegistration ==
  /\ pc = "registration"
  /\ registration_status' = IF "nas" \in clients THEN registered
                            ELSE registration_status
  /\ wwan_down' = ~registration_status'
  /\ reset' = {}
  /\ pc' = "connection"
  /\ UNCHANGED <<clients, modem, connection_status, connection_errors,
                 ip_check_errors, expected_ip, iface, healthy>>

ReadConnection ==
  /\ pc = "connection"
  /\ connection_status' = link
  /\ wwan_down' = (wwan_down \/ link = "disconnected")
  /\ IF link = "connected" /\ connection_status # link THEN Reconnected
     ELSE UNCHANGED <<connection_errors, ip_check_errors, expected_ip, iface>>
  /\ pc' = "ip"
  /\ UNCHANGED <<clients, modem, registration_status, reset, healthy>>

\* Variant: an unknown address is no error.
IpErrorKnown(valid) == IF valid \/ ~expected_ip THEN 0 ELSE 1

\* One error if the address is not on the interface, or not known.
IpError(valid) == IF valid THEN 0 ELSE 1

\* The address can be on the interface only if that is up.
CheckIp ==
  /\ pc = "ip"
  /\ \E valid \in {FALSE, expected_ip /\ up} :
       /\ ip_check_errors' = ip_check_errors +
                             IF connection_status = "connected" THEN IpError(valid)
                             ELSE 0
       /\ healthy' = (valid /\ connection_status = "connected" /\ ~wwan_down)
  /\ pc' = IF wwan_down THEN "down" ELSE "thresholds"
  /\ UNCHANGED <<clients, modem, registration_status, connection_status,
                 connection_errors, expected_ip, wwan_down, iface, reset>>

Down ==
  /\ pc = "down"
  /\ connection_errors' = connection_errors + 1
  /\ ip_check_errors' = 0 /\ expected_ip' = FALSE
  /\ Teardown
  /\ pc' = IF registration_status THEN "restart" ELSE "thresholds"
  /\ UNCHANGED <<clients, modem, registration_status, connection_status,
                 wwan_down, reset, healthy>>

\* The connection was stopped and is started.
Restart ==
  /\ pc = "restart"
  /\ connection_status' = link
  /\ IF link = "connected" THEN Reconnected
     ELSE UNCHANGED <<connection_errors, ip_check_errors, expected_ip, iface>>
  /\ pc' = "thresholds"
  /\ UNCHANGED <<clients, modem, registration_status, wwan_down, reset, healthy>>

\* Variant: the soft reset before the hard one.
AskedSoftFirst ==
  IF ip_check_errors = IpErrors THEN "ip"
  ELSE IF connection_errors > 0 /\ connection_errors % SoftReset = 0 THEN "soft"
  ELSE IF connection_errors = HardReset THEN "hard"
  ELSE "none"

Asked ==
  IF ip_check_errors = IpErrors THEN "ip"
  ELSE IF connection_errors = HardReset THEN "hard"
  ELSE IF connection_errors > 0 /\ connection_errors % SoftReset = 0 THEN "soft"
  ELSE "none"
Thresholds ==
  /\ pc = "thresholds"
  /\ IF Asked # "none" /\ "dms" \notin clients THEN Fails
     ELSE /\ ip_check_errors' = IF Asked = "ip" THEN 0 ELSE ip_check_errors
          /\ connection_errors' = IF Asked = "hard" THEN 0 ELSE connection_errors
          /\ reset' = {Asked}
          /\ pc' = "registration"
          /\ UNCHANGED <<clients, modem, registration_status, connection_status,
                         expected_ip, wwan_down, iface, healthy>>

----------------------------------------------------------------------------
Init ==
  /\ pc = "setup" /\ clients = {} /\ registered \in BOOLEAN /\ link \in States
  /\ registration_status = FALSE /\ connection_status = "none"
  /\ connection_errors = 0 /\ ip_check_errors = 0 /\ expected_ip = FALSE
  /\ wwan_down = FALSE /\ up = FALSE /\ network = FALSE
  /\ reset = {} /\ healthy = FALSE

Poll ==
  \/ Setup \/ Static \/ ReadRegistration \/ ReadConnection \/ CheckIp \/ Down
  \/ Restart \/ Thresholds

Next == Poll \/ Modem
Spec == Init /\ [][Next]_vars
\* The loop waits only for commands that have timeouts.
FairSpec == Spec /\ WF_vars(Poll)

----------------------------------------------------------------------------
\* Types; the two counters never exceed the thresholds that they are compared
\* with.
TypeOK ==
  /\ pc \in {"setup", "static", "registration", "connection", "ip", "down",
             "restart", "thresholds", "ended"}
  /\ clients \subseteq Clients
  /\ registered \in BOOLEAN /\ link \in States
  /\ registration_status \in BOOLEAN
  /\ connection_status \in States \cup {"none"}
  /\ connection_errors \in 0..HardReset /\ ip_check_errors \in 0..IpErrors
  /\ expected_ip \in BOOLEAN /\ wwan_down \in BOOLEAN
  /\ up \in BOOLEAN /\ network \in BOOLEAN

\* Between two polls both counters are below their thresholds.  They are compared
\* for equality, so one that skipped its threshold, because the test of another
\* counter came first, would never reset the modem again.
Polled == pc = "registration" /\ reset # {}
ErrorsBelow ==
  Polled => connection_errors < HardReset /\ ip_check_errors < IpErrors

\* A poll that found the modem disconnected leaves its interface down: nobody
\* routes into a dead link, whichever of the reads saw it (get_dynamic_values).
UpMeansConnected == Polled /\ connection_status = "disconnected" => ~up

\* A monitor that goes on polling keeps finding the link healthy, bringing the
\* interface up anew, resetting the modem (after hard_reset_threshold or
\* ip_check_errors_threshold errors) or being started over: no state of the modem
\* keeps it idle for ever, except one that is neither connected nor disconnected.
Recovers ==
  \/ []<>(\/ healthy
          \/ reset \cap {"ip", "hard"} # {}
          \/ pc \in {"setup", "ended"}
          \/ connection_status = "other")
  \/ []<><<~up /\ up'>>_vars
=============================================================================
