-------------------------- MODULE QmiMonitorProofs --------------------------
(***************************************************************************)
(* Proofs about QmiMonitor for all thresholds: the types, the counters,    *)
(* which are compared with their thresholds for equality, and the state of *)
(* the interface at the end of a poll.                                     *)
(***************************************************************************)
EXTENDS QmiMonitor, TLAPS

Fields ==
  /\ pc \in {"setup", "static", "registration", "connection", "ip", "down",
             "restart", "thresholds", "ended"}
  /\ clients \subseteq Clients
  /\ registered \in BOOLEAN /\ link \in States
  /\ registration_status \in BOOLEAN
  /\ connection_status \in States \cup {"none"}
  /\ expected_ip \in BOOLEAN /\ wwan_down \in BOOLEAN
  /\ up \in BOOLEAN /\ network \in BOOLEAN

\* The connection counter may reach its threshold only in "down", which clears
\* the other one: at the test of the thresholds only one of them is reached.
Counting ==
  /\ connection_errors \in 0..HardReset /\ ip_check_errors \in 0..IpErrors
  /\ pc \in {"static", "registration", "connection", "ip", "down", "ended"} =>
       connection_errors < HardReset
  /\ pc \in {"static", "registration", "connection", "ip", "ended"} =>
       ip_check_errors < IpErrors
  /\ pc = "restart" => ip_check_errors = 0
  /\ pc = "thresholds" /\ connection_errors = HardReset => ip_check_errors = 0

\* How a poll gets from the state that it has read to the interface.
Interface ==
  /\ pc = "static" => reset = {}
  /\ pc = "ip" /\ connection_status = "disconnected" => wwan_down
  /\ pc = "restart" => ~up
  /\ pc = "thresholds" /\ connection_status = "disconnected" => ~up
  /\ Polled /\ connection_status = "disconnected" => ~up

----------------------------------------------------------------------------
\* Every poll, and every change of the modem, keeps the fields in their types.
LEMMA FieldsStep == Fields /\ [Next]_vars => Fields'
<1>. SUFFICES ASSUME Fields, [Next]_vars PROVE Fields' OBVIOUS
<1>. USE DEF Fields
<1>1. CASE Modem BY <1>1 DEF Modem, iface
<1>2. CASE Setup BY <1>2 DEF Setup, modem, iface
<1>3. CASE Static BY <1>3 DEF Static, Teardown, Reconnected, modem, iface
<1>4. CASE ReadRegistration BY <1>4 DEF ReadRegistration, modem, iface
<1>5. CASE ReadConnection BY <1>5 DEF ReadConnection, Reconnected, modem, iface
<1>6. CASE CheckIp BY <1>6 DEF CheckIp, modem, iface
<1>7. CASE Down BY <1>7 DEF Down, Teardown, modem
<1>8. CASE Restart BY <1>8 DEF Restart, Reconnected, modem, iface
<1>9. CASE Thresholds BY <1>9 DEF Thresholds, Fails, modem, iface
<1>10. CASE UNCHANGED vars BY <1>10 DEF vars, modem, iface
<1>. QED BY <1>1, <1>2, <1>3, <1>4, <1>5, <1>6, <1>7, <1>8, <1>9, <1>10
         DEF Next, Poll

\* No step takes a counter past its threshold, or leaves one there at the start
\* of the next poll.
LEMMA CountingStep == Fields /\ Counting /\ [Next]_vars => Counting'
<1>. SUFFICES ASSUME Fields, Counting, [Next]_vars PROVE Counting' OBVIOUS
<1>. USE QmiAssumption DEF Counting
<1>1. CASE Modem BY <1>1 DEF Modem
<1>2. CASE Setup BY <1>2 DEF Setup
<1>3. CASE Static BY <1>3 DEF Static, Reconnected
<1>4. CASE ReadRegistration BY <1>4 DEF ReadRegistration
<1>5. CASE ReadConnection BY <1>5 DEF ReadConnection, Reconnected
<1>6. CASE CheckIp
  <2>1. /\ pc = "ip" /\ pc' \in {"down", "thresholds"}
        /\ connection_errors' = connection_errors
        /\ \/ ip_check_errors' = ip_check_errors + 0
           \/ ip_check_errors' = ip_check_errors + 1
    BY <1>6 DEF CheckIp, IpError
  <2>. QED BY <2>1
<1>7. CASE Down BY <1>7 DEF Down
<1>8. CASE Restart BY <1>8 DEF Restart, Reconnected
<1>9. CASE Thresholds
  <2>1. CASE Fails BY <2>1 DEF Fails
  <2>2. CASE ~Fails
    <3>1. /\ pc = "thresholds" /\ pc' = "registration"
          /\ ip_check_errors' = IF Asked = "ip" THEN 0 ELSE ip_check_errors
          /\ connection_errors' = IF Asked = "hard" THEN 0 ELSE connection_errors
      BY <1>9, <2>2 DEF Thresholds
    <3>2. CASE ip_check_errors = IpErrors
      <4>1. Asked = "ip" BY <3>2 DEF Asked
      <4>. QED BY <3>1, <3>2, <4>1
    <3>3. CASE ip_check_errors # IpErrors /\ connection_errors = HardReset
      <4>1. Asked = "hard" BY <3>3 DEF Asked
      <4>. QED BY <3>1, <3>3, <4>1
    <3>4. CASE ip_check_errors # IpErrors /\ connection_errors # HardReset
      <4>1. Asked \notin {"ip", "hard"} BY <3>4 DEF Asked
      <4>. QED BY <3>1, <3>4, <4>1
    <3>. QED BY <3>2, <3>3, <3>4
  <2>. QED BY <2>1, <2>2
<1>10. CASE UNCHANGED vars BY <1>10 DEF vars
<1>. QED BY <1>1, <1>2, <1>3, <1>4, <1>5, <1>6, <1>7, <1>8, <1>9, <1>10
         DEF Next, Poll

\* A poll that reads "disconnected" goes through "down", and only a connection
\* that is found brings the interface up again.
LEMMA InterfaceStep == Fields /\ Interface /\ [Next]_vars => Interface'
<1>. SUFFICES ASSUME Fields, Interface, [Next]_vars PROVE Interface' OBVIOUS
<1>. USE DEF Interface, Polled, Fields
<1>1. CASE Modem BY <1>1 DEF Modem, iface
<1>2. CASE Setup BY <1>2 DEF Setup, iface
<1>3. CASE Static BY <1>3 DEF Static, iface
<1>4. CASE ReadRegistration BY <1>4 DEF ReadRegistration, iface
<1>5. CASE ReadConnection BY <1>5 DEF ReadConnection
<1>6. CASE CheckIp BY <1>6 DEF CheckIp, iface
<1>7. CASE Down BY <1>7 DEF Down, Teardown
<1>8. CASE Restart BY <1>8 DEF Restart, Reconnected, iface
<1>9. CASE Thresholds BY <1>9 DEF Thresholds, Fails, iface
<1>10. CASE UNCHANGED vars BY <1>10 DEF vars, iface
<1>. QED BY <1>1, <1>2, <1>3, <1>4, <1>5, <1>6, <1>7, <1>8, <1>9, <1>10
         DEF Next, Poll

----------------------------------------------------------------------------
Inv == Fields /\ Counting /\ Interface

LEMMA InvHolds == Spec => []Inv
<1>1. Init => Inv
  <2>1. Init => Fields BY DEF Init, Fields, Clients
  <2>2. Init => Counting BY QmiAssumption DEF Init, Counting
  <2>3. Init => Interface BY DEF Init, Interface, Polled
  <2>. QED BY <2>1, <2>2, <2>3 DEF Inv
<1>2. Inv /\ [Next]_vars => Inv'
  BY FieldsStep, CountingStep, InterfaceStep DEF Inv
<1>. QED BY <1>1, <1>2, PTL DEF Spec

\* The fields keep their types, and the counters stay within the thresholds.
THEOREM TypeCorrect == Spec => []TypeOK
<1>1. Inv => TypeOK BY DEF Inv, Fields, Counting, TypeOK
<1>. QED BY <1>1, InvHolds, PTL

\* For any thresholds, also where hard_reset_threshold is no multiple of
\* soft_reset_threshold: no counter gets past the one value that resets the
\* modem, although the test of the other one comes first.
THEOREM CountersBelow == Spec => []ErrorsBelow
<1>1. Inv => ErrorsBelow BY DEF Inv, Counting, ErrorsBelow, Polled
<1>. QED BY <1>1, InvHolds, PTL

\* A poll that found the modem disconnected leaves its interface down.
THEOREM DisconnectedIsDown == Spec => []UpMeansConnected
<1>1. Inv => UpMeansConnected BY DEF Inv, Interface, UpMeansConnected
<1>. QED BY <1>1, InvHolds, PTL
=============================================================================
