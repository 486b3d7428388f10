---------------------------- MODULE PicI2cProofs ----------------------------
(***************************************************************************)
(* Proofs about PicI2c, for every size of a byte.  Always: the types, and  *)
(* the watchdog is read whole.  When the host puts one command into a      *)
(* transaction: what is idle is written, only the cell that was ordered    *)
(* changes, a write is not taken while another one is under way, the       *)
(* watchdog is set whole, and nothing is written behind the message.       *)
(***************************************************************************)
EXTENDS PicI2c, TLAPS

OneCommand == Burst = 1

IsPair(b) == b = <<b[1], b[2]>>

\* A transaction that has not been executed yet: its bytes are in the buffer,
\* and one that changes what a write uses was not begun during a write.
Unfinished == bus = "open" /\ i2c_addr \in Sets /\ Len(sent) < Bytes(i2c_addr)
I2cInv ==
  /\ IsPair(i2c_buf) /\ IsPair(rstcnt) /\ sent \in Seq(Byte)
  /\ Unfinished => i2c_idx = Len(sent)
  /\ Unfinished /\ i2c_addr = "EE_WRITE" /\ Len(sent) = 1 => i2c_buf[1] \in Byte
  /\ Unfinished /\ i2c_addr \in {"EE_WRITE", "EE_ADDR"} => ~EeBusy

Between == {"unlock", "started", "done"}
Written == eeprom[order[1]] = order[2]
Armed   == nvm.adr = order[1] /\ nvm.dat = order[2]

\* From the order of a write to its end.
EeInv ==
  /\ eests \in {EE_IDLE, EE_ERROR, EE_START, EE_BUSY}
  /\ nvm \in [wr : BOOLEAN, wrerr : BOOLEAN, adr : Byte, dat : Byte]
  /\ eeprom \in [Byte -> Byte]
  /\ order \in {<<>>} \cup (Byte \X Byte)
  /\ EeBusy => order # <<>> /\ eeaddr = order[1] /\ eedata = order[2]
  /\ pc \in {"unlock", "started"} => eests = EE_START
  /\ pc = "done" => eests = EE_BUSY /\ work \in {EE_IDLE, EE_ERROR, EE_BUSY}
  /\ pc = "done" /\ work # EE_BUSY => ~nvm.wr
  /\ pc = "done" /\ work = EE_IDLE => Written
  /\ nvm.wr => pc = "started" \/ eests = EE_BUSY
  /\ nvm.wr \/ pc = "unlock" => Armed
  /\ pc = "started" \/ eests = EE_BUSY => nvm.wr \/ nvm.wrerr \/ Written
  /\ eests = EE_IDLE /\ order # <<>> => Written

Inv == I2cInv /\ EeInv

----------------------------------------------------------------------------
LEMMA StatusFacts ==
  /\ EE_IDLE # EE_ERROR /\ EE_IDLE # EE_START /\ EE_IDLE # EE_BUSY
  /\ EE_ERROR # EE_START /\ EE_ERROR # EE_BUSY /\ EE_START # EE_BUSY
  /\ eests \in {EE_IDLE, EE_ERROR, EE_START, EE_BUSY} =>
       (EeBusy <=> eests \in {EE_START, EE_BUSY})
BY DEF EE_IDLE, EE_ERROR, EE_START, EE_BUSY, EeBusy

LEMMA StatusNext ==
  eests' \in {EE_IDLE, EE_ERROR, EE_START, EE_BUSY} =>
    (EeBusy' <=> eests' \in {EE_START, EE_BUSY})
BY DEF EE_IDLE, EE_ERROR, EE_START, EE_BUSY, EeBusy

LEMMA PairInProduct ==
  ASSUME NEW y, NEW p \in Byte, NEW q \in Byte, y = <<p, q>>
  PROVE  y \in Byte \X Byte /\ y # <<>>
OBVIOUS

LEMMA ByteFacts == 0 \in Byte /\ Base - 1 \in Byte
BY PicI2cAssumption DEF Byte

\* A step of the rest of the loop, or of an interrupt, that leaves the EEPROM alone.
LEMMA EeKept ==
  ASSUME EeInv, UNCHANGED <<eests, eeaddr, eedata, order, nvm, eeprom>>,
         \/ UNCHANGED <<pc, work>>
         \/ pc \notin Between /\ pc' \notin Between
  PROVE  EeInv'
BY DEF EeInv, EeBusy, Between, Written, Armed

\* The same for the I2C side, as long as no write of the EEPROM begins.
LEMMA I2cKept ==
  ASSUME I2cInv, UNCHANGED i2c_vars, EeBusy' => EeBusy, IsPair(rstcnt')
  PROVE  I2cInv'
BY DEF I2cInv, Unfinished, i2c_vars, IsPair

----------------------------------------------------------------------------
LEMMA AddressStep == ASSUME Inv, NEW c \in host, Address(c) PROVE Inv'
<1>1. /\ sent' = <<>> /\ i2c_idx' = 0 /\ i2c_addr' = c
      /\ i2c_buf' \in {i2c_buf, Loaded(c)} /\ rstcnt' = rstcnt
      /\ bus' = "open" => ~Refused(c)
      /\ UNCHANGED <<eests, eedata, order, nvm, eeprom, pc, work>>
  BY DEF Address, timer_vars, main_vars, nvm_vars
<1>2. IsPair(Loaded(c))
  BY DEF Inv, I2cInv, Loaded, IsPair, Pair
<1>3. I2cInv'
  <2>1. IsPair(i2c_buf') /\ IsPair(rstcnt') BY <1>1, <1>2 DEF Inv, I2cInv
  <2>2. sent' \in Seq(Byte) /\ Len(sent') = 0 BY <1>1
  <2>3. Unfinished' /\ i2c_addr' \in {"EE_WRITE", "EE_ADDR"} => ~EeBusy'
    BY <1>1 DEF Unfinished, Refused, EeBusy
  <2>. QED BY <1>1, <2>1, <2>2, <2>3 DEF I2cInv, IsPair
<1>4. EeInv'
  <2>1. EeBusy => eeaddr' = eeaddr BY DEF Address, Refused
  <2>. QED BY <1>1, <2>1 DEF Inv, EeInv, EeBusy, Written, Armed
<1>. QED BY <1>3, <1>4 DEF Inv

\* A byte that does not complete a command.
LEMMA ByteTaken ==
  ASSUME OneCommand, Inv, NEW x \in Byte, WriteByte(x),
         i2c_idx + 1 # Bytes(i2c_addr)
  PROVE  Inv'
<1>1. /\ bus = "open" /\ i2c_addr \in Sets /\ Len(sent) < Bytes(i2c_addr)
      /\ Bytes(i2c_addr) \in {1, 2}
  BY DEF OneCommand, WriteByte, Bytes
<1>2. /\ sent \in Seq(Byte) /\ Len(sent) \in Nat /\ i2c_idx = Len(sent)
  BY <1>1 DEF Inv, I2cInv, Unfinished
<1>3. Len(sent) = 0 /\ Bytes(i2c_addr) = 2 BY <1>1, <1>2
<1>4. /\ sent' = Append(sent, x) /\ i2c_idx' = 1
      /\ i2c_buf' = [i2c_buf EXCEPT ![1] = x]
      /\ UNCHANGED <<bus, i2c_addr, rstcnt, eests, eeaddr, eedata, order, nvm,
                     eeprom, pc, work>>
  BY <1>2, <1>3 DEF WriteByte, ee_vars, main_vars, nvm_vars
<1>5. sent' \in Seq(Byte) /\ Len(sent') = 1 BY <1>2, <1>3, <1>4
<1>6. IsPair(i2c_buf') /\ i2c_buf'[1] = x BY <1>4 DEF Inv, I2cInv, IsPair
<1>7. i2c_addr \in {"EE_WRITE", "EE_ADDR"} => ~EeBusy
  BY <1>1 DEF Inv, I2cInv, Unfinished
<1>8. IsPair(rstcnt') BY <1>4 DEF Inv, I2cInv
<1>9. I2cInv'
  BY <1>4, <1>5, <1>6, <1>7, <1>8 DEF I2cInv, Unfinished, EeBusy
<1>. QED BY <1>4, <1>9, EeKept DEF Inv

\* The last byte of a command, which executes it.
LEMMA Executed ==
  ASSUME OneCommand, Inv, NEW x \in Byte, WriteByte(x),
         i2c_idx + 1 = Bytes(i2c_addr)
  PROVE  Inv'
<1>. DEFINE b == [i2c_buf EXCEPT ![i2c_idx + 1] = x]
<1>1. /\ bus = "open" /\ i2c_addr \in Sets /\ Len(sent) < Bytes(i2c_addr)
      /\ Bytes(i2c_addr) \in {1, 2}
  BY DEF OneCommand, WriteByte, Bytes
<1>2. /\ sent \in Seq(Byte) /\ Len(sent) \in Nat /\ i2c_idx = Len(sent)
  BY <1>1 DEF Inv, I2cInv, Unfinished
<1>3. IsPair(b)
  <2>1. i2c_idx + 1 \in {1, 2} BY <1>1, <1>2
  <2>. QED BY <2>1 DEF Inv, I2cInv, IsPair
<1>4. /\ sent' = Append(sent, x) /\ i2c_idx' = 0 /\ i2c_buf' = b
      /\ rstcnt' \in {rstcnt, b}
      /\ ExecEe(i2c_addr, b)
      /\ UNCHANGED <<bus, i2c_addr, nvm, eeprom, pc, work>>
  BY DEF WriteByte, ExecTimers, main_vars, nvm_vars
<1>5. sent' \in Seq(Byte) /\ Len(sent') = Bytes(i2c_addr)
  BY <1>2, <1>4
<1>6. ~Unfinished' BY <1>1, <1>4, <1>5 DEF Unfinished
<1>7. I2cInv' BY <1>3, <1>4, <1>5, <1>6 DEF Inv, I2cInv, IsPair
<1>8. i2c_addr \in {"EE_WRITE", "EE_ADDR"} => ~EeBusy
  BY <1>1 DEF Inv, I2cInv, Unfinished
<1>9. EeInv'
  <2>1. CASE i2c_addr = "EE_WRITE"
    <3>1. Bytes(i2c_addr) = 2 BY <2>1 DEF Bytes
    <3>2. i2c_idx = 1 /\ Len(sent) = 1 BY <1>2, <3>1
    <3>3. b[1] \in Byte /\ b[2] = x
      BY <1>1, <2>1, <3>2 DEF Inv, I2cInv, Unfinished, IsPair
    <3>4. order' = b /\ order' \in Byte \X Byte /\ order' # <<>>
      <4>1. order' = b BY <1>4, <2>1 DEF ExecEe
      <4>2. order' = <<order'[1], order'[2]>> /\ order'[1] \in Byte
            /\ order'[2] \in Byte
        <5>. HIDE DEF b
        <5>. QED BY <1>3, <3>3, <4>1 DEF IsPair
      <4>. QED BY <4>1, <4>2, PairInProduct
    <3>5. eeaddr' = order'[1] /\ eedata' = order'[2] /\ eests' = EE_START
      BY <1>4, <2>1, <3>4 DEF ExecEe
    <3>. HIDE DEF b
    <3>6. eests \in {EE_IDLE, EE_ERROR} /\ pc \notin Between /\ ~nvm.wr
      BY <1>8, <2>1, StatusFacts DEF Inv, EeInv, Between
    <3>. QED BY <1>4, <3>4, <3>5, <3>6, StatusFacts, StatusNext
             DEF Inv, EeInv, Between, Written, Armed
  <2>2. CASE i2c_addr # "EE_WRITE"
    <3>1. UNCHANGED <<eests, eedata, order>> BY <1>4, <2>2 DEF ExecEe
    <3>2. EeBusy => eeaddr' = eeaddr BY <1>4, <1>8, <2>2 DEF ExecEe
    <3>. QED BY <1>4, <3>1, <3>2 DEF Inv, EeInv, EeBusy, Written, Armed
  <2>. QED BY <2>1, <2>2
<1>. QED BY <1>7, <1>9 DEF Inv

LEMMA ReadByteStep == ASSUME Inv, ReadByte PROVE Inv'
<1>1. /\ i2c_addr' \notin Sets
      /\ UNCHANGED <<i2c_buf, sent, rstcnt, eests, eeaddr, eedata, order, nvm,
                     eeprom, pc, work>>
  BY DEF ReadByte, Gets, Sets, timer_vars, ee_vars, main_vars, nvm_vars
<1>2. I2cInv' BY <1>1 DEF Inv, I2cInv, Unfinished, IsPair
<1>. QED BY <1>1, <1>2, EeKept DEF Inv

\* The loop up to the EEPROM.
LEMMA LoopStep ==
  ASSUME Inv, \/ ButtonSkip \/ Push \/ PushHigh \/ Release \/ Count \/ CountHigh
              \/ SwdtTick \/ EeNothing
  PROVE  Inv'
<1>1. /\ UNCHANGED <<eests, eeaddr, eedata, order, nvm, eeprom>>
      /\ pc \notin Between /\ pc' \notin Between
  BY DEF ButtonSkip, Push, PushHigh, Release, Count, CountHigh, SwdtTick,
         EeNothing, Between, ee_vars, nvm_vars
<1>2. UNCHANGED i2c_vars
  BY DEF ButtonSkip, Push, PushHigh, Release, Count, CountHigh, SwdtTick,
         EeNothing
<1>3. IsPair(rstcnt')
  <2>1. IsPair(rstcnt) BY DEF Inv, I2cInv
  <2>2. \/ rstcnt' = rstcnt
        \/ \E y : rstcnt' = [rstcnt EXCEPT ![1] = y]
        \/ \E y : rstcnt' = [rstcnt EXCEPT ![2] = y]
    BY DEF ButtonSkip, Push, PushHigh, Release, Count, CountHigh, SwdtTick,
           EeNothing, timer_vars
  <2>. QED BY <2>1, <2>2 DEF IsPair
<1>4. EeBusy' => EeBusy BY <1>1 DEF EeBusy
<1>. QED BY <1>1, <1>2, <1>3, <1>4, EeKept, I2cKept DEF Inv

LEMMA HostResetStep == ASSUME Inv, HostReset PROVE Inv'
<1>1. /\ UNCHANGED <<i2c_buf, rstcnt, eests, eeaddr, eedata, order, nvm, eeprom>>
      /\ pc \notin Between /\ pc' \notin Between
      /\ bus' = "closed" /\ sent' = <<>>
  BY DEF HostReset, Between, ee_vars, nvm_vars
<1>2. sent' \in Seq(Byte) BY <1>1
<1>3. I2cInv' BY <1>1, <1>2 DEF Inv, I2cInv, Unfinished, IsPair
<1>. QED BY <1>1, <1>3, EeKept DEF Inv

----------------------------------------------------------------------------
\* The EEPROM's own steps.
LEMMA EeStep ==
  ASSUME Inv, EeWrite \/ EeStart \/ EeStarted \/ EeDone \/ EeStore \/ Program
  PROVE  Inv'
<1>. USE StatusFacts, StatusNext
<1>1. UNCHANGED <<i2c_vars, rstcnt, eeaddr, eedata, order>>
  BY DEF EeWrite, EeStart, EeStarted, EeDone, EeStore, Program, timer_vars,
         ee_vars
<1>2. CASE EeWrite
  <2>1. /\ pc = "ee" /\ eests = EE_START /\ ~nvm.wr
        /\ nvm' = [nvm EXCEPT !.adr = eeaddr, !.dat = eedata]
        /\ pc' = "unlock" /\ UNCHANGED <<eests, eeprom>>
    BY <1>2 DEF EeWrite, Inv, EeInv, ee_vars
  <2>2. order \in Byte \X Byte /\ eeaddr = order[1] /\ eedata = order[2]
    BY <2>1 DEF Inv, EeInv
  <2>3. EeInv' BY <1>1, <2>1, <2>2 DEF Inv, EeInv, Written, Armed
  <2>. QED BY <1>1, <2>1, <2>3, I2cKept DEF Inv, I2cInv, EeBusy
<1>3. CASE EeStart
  <2>1. /\ pc = "unlock" /\ eests = EE_START /\ ~nvm.wr /\ Armed
        /\ \/ nvm' = [nvm EXCEPT !.wr = TRUE]
           \/ nvm' = [nvm EXCEPT !.wrerr = TRUE]
        /\ pc' = "started" /\ UNCHANGED <<eests, eeprom>>
    BY <1>3 DEF EeStart, Inv, EeInv, ee_vars
  <2>2. EeInv' BY <1>1, <2>1 DEF Inv, EeInv, Written, Armed
  <2>. QED BY <1>1, <2>1, <2>2, I2cKept DEF Inv, I2cInv, EeBusy
<1>4. CASE EeStarted
  <2>1. /\ pc = "started" /\ eests = EE_START /\ eests' = EE_BUSY
        /\ pc' = "button" /\ UNCHANGED <<nvm, eeprom>>
    BY <1>4 DEF EeStarted, Inv, EeInv, nvm_vars
  <2>2. EeInv' BY <1>1, <2>1 DEF Inv, EeInv, Written, Armed
  <2>3. EeBusy BY <2>1
  <2>. QED BY <1>1, <2>2, <2>3, I2cKept DEF Inv, I2cInv
<1>5. CASE EeDone
  <2>1. /\ pc = "ee" /\ eests = EE_BUSY /\ work' = EeStatus
        /\ pc' = "done" /\ UNCHANGED <<eests, nvm, eeprom>>
    BY <1>5 DEF EeDone, ee_vars, nvm_vars
  <2>2. EeInv' BY <1>1, <2>1 DEF Inv, EeInv, EeStatus, Written, Armed
  <2>. QED BY <1>1, <2>1, <2>2, I2cKept DEF Inv, I2cInv, EeBusy
<1>6. CASE EeStore
  <2>1. /\ pc = "done" /\ eests = EE_BUSY /\ eests' = work
        /\ pc' = "button" /\ UNCHANGED <<nvm, eeprom>>
    BY <1>6 DEF EeStore, Inv, EeInv, nvm_vars
  <2>2. EeInv' BY <1>1, <2>1 DEF Inv, EeInv, Written, Armed
  <2>3. EeBusy BY <2>1
  <2>. QED BY <1>1, <2>2, <2>3, I2cKept DEF Inv, I2cInv
<1>7. CASE Program
  <2>1. /\ nvm.wr /\ eeprom' = [eeprom EXCEPT ![nvm.adr] = nvm.dat]
        /\ nvm' = [nvm EXCEPT !.wr = FALSE]
        /\ UNCHANGED <<eests, pc, work>>
    BY <1>7 DEF Program, ee_vars, main_vars
  <2>2. EeBusy /\ Armed /\ order \in Byte \X Byte
    BY <2>1 DEF Inv, EeInv
  <2>3. eeprom' \in [Byte -> Byte] /\ Written'
    BY <1>1, <2>1, <2>2 DEF Inv, EeInv, Written, Armed
  <2>4. nvm' \in [wr : BOOLEAN, wrerr : BOOLEAN, adr : Byte, dat : Byte]
        /\ ~nvm'.wr /\ nvm'.adr = nvm.adr /\ nvm'.dat = nvm.dat
    BY <2>1 DEF Inv, EeInv
  <2>5. EeInv'
    BY <1>1, <2>1, <2>2, <2>3, <2>4 DEF Inv, EeInv, Armed
  <2>. QED BY <1>1, <2>1, <2>5, I2cKept DEF Inv, I2cInv, EeBusy
<1>. QED BY <1>2, <1>3, <1>4, <1>5, <1>6, <1>7

LEMMA PicResetStep == ASSUME Inv, PicReset PROVE Inv'
<1>1. /\ bus' = "off" /\ sent' = <<>> /\ i2c_buf' = <<0, 0>>
      /\ rstcnt' = <<0, 0>> /\ eests' = EE_IDLE /\ order' = <<>>
      /\ pc' = "button"
  BY DEF PicReset
<1>2. PICK x \in Byte :
        eeprom' = IF nvm.wr THEN [eeprom EXCEPT ![nvm.adr] = x] ELSE eeprom
  BY DEF PicReset
<1>3. /\ nvm' \in [wr : BOOLEAN, wrerr : BOOLEAN, adr : Byte, dat : Byte]
      /\ ~nvm'.wr
  BY DEF PicReset, Inv, EeInv
<1>4. eeprom' \in [Byte -> Byte] BY <1>2 DEF Inv, EeInv
<1>5. EeInv'
  BY <1>1, <1>3, <1>4, StatusFacts, StatusNext DEF EeInv
<1>6. IsPair(i2c_buf') /\ IsPair(rstcnt') /\ sent' \in Seq(Byte)
  BY <1>1 DEF IsPair
<1>7. I2cInv' BY <1>1, <1>6 DEF I2cInv, Unfinished, IsPair
<1>. QED BY <1>5, <1>7 DEF Inv

LEMMA Inductive == ASSUME OneCommand, Inv, [Next]_vars PROVE Inv'
<1>1. CASE UNCHANGED vars
  <2>1. UNCHANGED <<i2c_vars, rstcnt, eests, eeaddr, eedata, order, nvm, eeprom,
                    pc, work>>
    BY <1>1 DEF vars, timer_vars, ee_vars, main_vars, nvm_vars
  <2>2. I2cInv' BY <2>1, I2cKept DEF Inv, I2cInv, EeBusy
  <2>. QED BY <2>1, <2>2, EeKept DEF Inv
<1>. QED BY <1>1, AddressStep, ByteTaken, Executed, ReadByteStep, LoopStep,
            HostResetStep, EeStep, PicResetStep DEF Next, Interrupt, Main

LEMMA Initially == Init => Inv
<1>. SUFFICES ASSUME Init PROVE Inv OBVIOUS
<1>1. I2cInv BY DEF Init, I2cInv, IsPair, Unfinished
<1>2. nvm \in [wr : BOOLEAN, wrerr : BOOLEAN, adr : Byte, dat : Byte] /\ ~nvm.wr
  BY ByteFacts DEF Init
<1>3. eeprom \in [Byte -> Byte] BY ByteFacts DEF Init
<1>4. eests = EE_IDLE /\ order = <<>> /\ pc = "button" BY DEF Init
<1>5. EeInv BY <1>2, <1>3, <1>4, StatusFacts DEF EeInv
<1>. QED BY <1>1, <1>5 DEF Inv

LEMMA InvHolds == OneCommand /\ Spec => []Inv
<1>. SUFFICES ASSUME OneCommand PROVE Spec => []Inv OBVIOUS
<1>1. Inv /\ [Next]_vars => Inv' BY Inductive
<1>. QED BY <1>1, Initially, PTL DEF Spec

----------------------------------------------------------------------------
\* Status idle means that the last write is in the EEPROM, whenever interrupts
\* come in between the steps of the unlock sequence (ee_write, ee_done).
THEOREM IdleIsWritten == OneCommand /\ Spec => []EeIdleMeansWritten
<1>1. Inv => EeIdleMeansWritten
  BY DEF Inv, EeInv, EeIdleMeansWritten, Written
<1>. QED BY <1>1, InvHolds, PTL

\* What changes the EEPROM, with whose leave.
LEMMA OnlyOrdered ==
  ASSUME Inv, [Next]_vars, NEW a \in Byte, eeprom'[a] # eeprom[a]
  PROVE  order # <<>> /\ a = order[1]
<1>1. Program \/ PicReset
  BY DEF Next, Interrupt, Main, Address, WriteByte, ReadByte, ButtonSkip, Push,
         PushHigh, Release, Count, CountHigh, SwdtTick, HostReset, EeNothing,
         EeWrite, EeStart, EeStarted, EeDone, EeStore, nvm_vars, vars
<1>2. PICK x : eeprom' = [eeprom EXCEPT ![nvm.adr] = x] /\ nvm.wr
  BY <1>1 DEF Program, PicReset
<1>3. a = nvm.adr BY <1>2 DEF Inv, EeInv
<1>. QED BY <1>2, <1>3, StatusFacts DEF Inv, EeInv, Armed

\* Only the cell of the last EE_WRITE ever changes, also by a reset of the PIC.
THEOREM OrderedCells == OneCommand /\ Spec => EeOnlyOrdered
<1>. SUFFICES ASSUME OneCommand PROVE Spec => EeOnlyOrdered OBVIOUS
<1>1. OneCommand /\ Spec => []Inv BY InvHolds
<1>2. Inv /\ [Next]_vars =>
        [\A a \in Byte :
           eeprom'[a] # eeprom[a] => order # <<>> /\ a = order[1]]_vars
  BY OnlyOrdered
<1>. QED BY <1>1, <1>2, PTL DEF Spec, EeOnlyOrdered

\* Who changes the order.
LEMMA Orders ==
  ASSUME OneCommand, Inv, [Next]_vars, order' \notin {order, <<>>}
  PROVE  eests \in {EE_IDLE, EE_ERROR}
<1>1. PICK x \in Byte : WriteByte(x)
  BY DEF Next, Interrupt, Main, Address, ReadByte, ButtonSkip, Push,
         PushHigh, Release, Count, CountHigh, SwdtTick, HostReset, EeNothing,
         EeWrite, EeStart, EeStarted, EeDone, EeStore, Program, PicReset,
         ee_vars, vars
<1>2. i2c_addr = "EE_WRITE" BY <1>1 DEF WriteByte, ExecEe, ee_vars
<1>3. Unfinished BY <1>1 DEF OneCommand, WriteByte, Bytes, Unfinished
<1>4. ~EeBusy BY <1>2, <1>3 DEF Inv, I2cInv
<1>. QED BY <1>4, StatusFacts DEF Inv, EeInv

\* With one command in a transaction an EE_WRITE is never taken while another one
\* is under way: i2c_start refuses it, and no transaction that i2c_start let pass
\* is executed after that.
THEOREM BusyIsRefused == OneCommand /\ Spec => EeBusyRefused
<1>. SUFFICES ASSUME OneCommand PROVE Spec => EeBusyRefused OBVIOUS
<1>1. OneCommand /\ Spec => []Inv BY InvHolds
<1>2. Inv /\ [Next]_vars =>
        [order' \notin {order, <<>>} => eests \in {EE_IDLE, EE_ERROR}]_vars
  BY Orders
<1>. QED BY <1>1, <1>2, PTL DEF Spec, EeBusyRefused

----------------------------------------------------------------------------
(* Bytes and words.                                                        *)

\* Two bytes make a word (SWDT_SET, MSG_SET), and a word is the two bytes that
\* i2c_start takes it apart into.
LEMMA ValueFacts ==
  ASSUME NEW x \in Byte, NEW y \in Byte PROVE x + Base * y \in Word
<1>1. Base \in Nat /\ Base >= 2 BY PicI2cAssumption
<1>2. x \in Nat /\ y \in Nat /\ x <= Base - 1 /\ y <= Base - 1 BY <1>1 DEF Byte
<1>3. Base * y \in Nat /\ Base * Base \in Nat BY <1>1, <1>2
<1>4. Base * y <= Base * (Base - 1) BY <1>1, <1>2
<1>5. Base * (Base - 1) = Base * Base - Base BY <1>1
<1>. QED BY <1>1, <1>2, <1>3, <1>4, <1>5 DEF Word

LEMMA PairFacts ==
  ASSUME NEW v \in Word
  PROVE  /\ v % Base \in Byte /\ v \div Base \in Byte
         /\ (v % Base) + Base * (v \div Base) = v
<1>1. Base \in Nat /\ Base >= 2 BY PicI2cAssumption
<1>2. v \in Nat /\ v < Base * Base BY <1>1 DEF Word
<1>3. v % Base \in 0 .. Base - 1 BY <1>1, <1>2
<1>4. v \div Base \in Nat BY <1>1, <1>2
<1>5. (v % Base) + Base * (v \div Base) = v BY <1>1, <1>2
<1>6. v \div Base < Base
  <2>1. SUFFICES ASSUME v \div Base >= Base PROVE FALSE BY <1>1, <1>4
  <2>2. Base * (v \div Base) >= Base * Base BY <1>1, <1>4, <2>1
  <2>. QED BY <1>1, <1>2, <1>3, <1>4, <1>5, <2>2
<1>. QED BY <1>1, <1>3, <1>4, <1>5, <1>6 DEF Byte

LEMMA TakenApart ==
  ASSUME NEW v \in Word
  PROVE  Pair(v) \in Byte \X Byte /\ Value(Pair(v)) = v
BY PairFacts DEF Pair, Value

LEMMA PairExcept ==
  ASSUME NEW S, NEW p \in S \X S, NEW i \in {1, 2}, NEW x \in S
  PROVE  /\ [p EXCEPT ![i] = x] \in S \X S
         /\ [p EXCEPT ![i] = x][i] = x
         /\ i = 2 => [p EXCEPT ![i] = x][1] = p[1]
OBVIOUS

----------------------------------------------------------------------------
(* Types.                                                                  *)

Taken == Byte \cup Eests

I2cTypes ==
  /\ bus \in {"open", "closed", "off"}
  /\ host \in Hosts /\ i2c_addr \in host \cup {"none"}
  /\ i2c_idx \in 0..2
  /\ i2c_buf \in Taken \X Taken
  /\ sent \in Seq(Byte) /\ got \in Seq(Taken)

TimerTypes ==
  /\ swdt \in Word /\ had \subseteq Word
  /\ rstcnt \in Byte \X Byte /\ held \in BOOLEAN

MsgTypes == mptr \in Word /\ msg \in [Word -> Byte]

EeTypes ==
  /\ eeaddr \in Byte /\ eedata \in Byte /\ eests \in Eests
  /\ order \in {<<>>} \cup (Byte \X Byte)

MainTypes ==
  /\ work \in Eests /\ unlock \in BOOLEAN
  /\ pc \in {"button", "store", "carry", "swdt", "ee", "unlock", "started",
             "done"}

NvmTypes ==
  /\ nvm \in [wr : BOOLEAN, wrerr : BOOLEAN, adr : Byte, dat : Byte]
  /\ eeprom \in [Byte -> Byte]

\* In a write command the index is below the number of bytes, and what was taken
\* before is a byte that the host sent, not a status that i2c_start loaded.
IndexInv ==
  bus = "open" /\ i2c_addr \in Sets =>
    /\ i2c_idx < Bytes(i2c_addr)
    /\ i2c_idx = 1 => i2c_buf[1] \in Byte

TypeInv ==
  /\ I2cTypes /\ TimerTypes /\ MsgTypes /\ EeTypes /\ MainTypes /\ NvmTypes
  /\ IndexInv

LEMMA TypesAreTypeOK == TypeInv => TypeOK
BY DEF TypeInv, I2cTypes, TimerTypes, MsgTypes, EeTypes, MainTypes, NvmTypes,
       Taken, TypeOK

LEMMA StatusTypes ==
  /\ EE_IDLE \in Eests /\ EE_ERROR \in Eests /\ EE_START \in Eests
  /\ EE_BUSY \in Eests /\ 0 \in Eests /\ 1 \in Eests
BY DEF EE_IDLE, EE_ERROR, EE_START, EE_BUSY, Eests

LEMMA BytesFacts == \A c : Bytes(c) \in {1, 2}
BY DEF Bytes

LEMMA WordFacts == 0 \in Word /\ MaxWord \in Word
<1>1. Base \in Nat /\ Base >= 2 BY PicI2cAssumption
<1>2. Base * Base \in Nat /\ Base * Base >= 1 BY <1>1
<1>. QED BY <1>2 DEF Word, MaxWord

LEMMA TypeOfInit == Init => TypeInv
<1>. SUFFICES ASSUME Init PROVE TypeInv OBVIOUS
<1>. USE ByteFacts, WordFacts, StatusTypes, PicI2cAssumption DEF Init
<1>1. I2cTypes
  <2>1. <<0, 0>> \in Taken \X Taken BY DEF Taken
  <2>. QED BY <2>1 DEF I2cTypes
<1>2. TimerTypes
  <2>1. <<0, 0>> \in Byte \X Byte OBVIOUS
  <2>. QED BY <2>1 DEF TimerTypes
<1>3. MsgTypes BY DEF MsgTypes
<1>4. EeTypes BY DEF EeTypes
<1>5. MainTypes BY DEF MainTypes
<1>6. NvmTypes BY DEF NvmTypes
<1>7. IndexInv BY DEF IndexInv
<1>. QED BY <1>1, <1>2, <1>3, <1>4, <1>5, <1>6, <1>7 DEF TypeInv

LEMMA LoadedTypes ==
  ASSUME TypeInv, NEW c
  PROVE  Loaded(c) \in Taken \X Taken
<1>. USE DEF TypeInv
<1>1. /\ \A a, b \in Taken : <<a, b>> \in Taken \X Taken
      /\ i2c_buf \in Taken \X Taken /\ i2c_buf[2] \in Taken
  BY DEF I2cTypes
<1>2. Pair(swdt) \in Taken \X Taken BY TakenApart DEF TimerTypes, Taken
<1>3. Pair(mptr) \in Taken \X Taken BY TakenApart DEF MsgTypes, Taken
<1>4. rstcnt \in Taken \X Taken BY DEF TimerTypes, Taken
<1>5. eests \in Taken /\ 0 \in Taken BY ByteFacts DEF EeTypes, Taken
<1>6. eeprom[eeaddr] \in Taken BY DEF EeTypes, NvmTypes, Taken
<1>7. msg[mptr] \in Taken BY DEF MsgTypes, Taken
<1>. QED BY <1>1, <1>2, <1>3, <1>4, <1>5, <1>6, <1>7 DEF Loaded

LEMMA TypeOfAddress == ASSUME TypeInv, NEW c \in host, Address(c) PROVE TypeInv'
<1>. USE DEF TypeInv, Address
<1>1. I2cTypes' BY LoadedTypes DEF I2cTypes
<1>2. TimerTypes' BY DEF TimerTypes, timer_vars, Shown
<1>3. MsgTypes'
  <2>1. mptr' = mptr \/ (mptr' = mptr + 1 /\ ~(mptr >= SIZE_MSG))
    BY DEF Refused
  <2>2. mptr \in Nat /\ SIZE_MSG \in Word BY PicI2cAssumption DEF MsgTypes, Word
  <2>3. mptr' \in Word BY <2>1, <2>2, PicI2cAssumption DEF MsgTypes, Word
  <2>. QED BY <2>3 DEF MsgTypes
<1>4. EeTypes'
  <2>1. NextCell \in Byte BY PicI2cAssumption DEF NextCell, EeTypes, Byte
  <2>. QED BY <2>1 DEF EeTypes
<1>5. MainTypes' BY DEF MainTypes, main_vars
<1>6. NvmTypes' BY DEF NvmTypes, nvm_vars
<1>7. IndexInv' BY BytesFacts DEF IndexInv
<1>. QED BY <1>1, <1>2, <1>3, <1>4, <1>5, <1>6, <1>7

LEMMA TypeOfWrite == ASSUME TypeInv, NEW x \in Byte, WriteByte(x) PROVE TypeInv'
<1>. USE DEF TypeInv
<1>. DEFINE b == [i2c_buf EXCEPT ![i2c_idx + 1] = x]
<1>1. /\ i2c_idx \in {0, 1} /\ i2c_idx < Bytes(i2c_addr)
      /\ i2c_idx = 1 => i2c_buf[1] \in Byte
      /\ i2c_buf \in Taken \X Taken /\ x \in Taken
  BY BytesFacts DEF WriteByte, IndexInv, I2cTypes, Taken
<1>2. i2c_idx + 1 \in {1, 2} BY <1>1
<1>3. /\ b \in Taken \X Taken /\ b[i2c_idx + 1] = x
      /\ i2c_idx = 1 => b[1] = i2c_buf[1]
  BY <1>1, <1>2, PairExcept
<1>4. /\ i2c_buf' = b /\ sent' = Append(sent, x)
      /\ UNCHANGED <<bus, i2c_addr, got, held, had, pc, work, nvm, eeprom, host>>
      /\ unlock' = FALSE
      /\ \/ i2c_idx + 1 = Bytes(i2c_addr) /\ i2c_idx' = 0
         \/ i2c_idx + 1 # Bytes(i2c_addr) /\ i2c_idx' = i2c_idx + 1
  BY DEF WriteByte, main_vars, nvm_vars
<1>5. CASE i2c_idx + 1 # Bytes(i2c_addr)
  <2>1. i2c_idx = 0 /\ i2c_idx' = 1 /\ Bytes(i2c_addr) = 2
    BY <1>1, <1>4, <1>5, BytesFacts
  <2>2. UNCHANGED <<swdt, rstcnt, mptr, msg, eeaddr, eedata, eests, order>>
    BY <1>5 DEF WriteByte, msg_vars, ee_vars
  <2>3. b[1] = x BY <1>3, <2>1
  <2>. HIDE DEF b
  <2>4. I2cTypes' BY <1>3, <1>4, <2>1 DEF I2cTypes
  <2>5. IndexInv' BY <1>4, <2>1, <2>3 DEF IndexInv
  <2>. QED BY <1>4, <2>2, <2>4, <2>5
           DEF TimerTypes, MsgTypes, EeTypes, MainTypes, NvmTypes
<1>6. CASE i2c_idx + 1 = Bytes(i2c_addr)
  <2>1. /\ i2c_idx' = 0 /\ b[1] \in Byte
        /\ Bytes(i2c_addr) = 2 => b[2] \in Byte
    <3>1. CASE i2c_idx = 0 BY <1>3, <1>4, <1>6, <3>1
    <3>2. CASE i2c_idx = 1 BY <1>1, <1>3, <1>4, <1>6, <3>2
    <3>. QED BY <1>1, <3>1, <3>2
  <2>2. ExecTimers(i2c_addr, b) /\ ExecMsg(i2c_addr, b) /\ ExecEe(i2c_addr, b)
    BY <1>6 DEF WriteByte
  <2>. HIDE DEF b
  <2>3. b = <<b[1], b[2]>> BY <1>3
  <2>4. Bytes(i2c_addr) = 2 => Value(b) \in Word /\ b \in Byte \X Byte
    BY <2>1, <2>3, ValueFacts DEF Value
  <2>5. I2cTypes' BY <1>3, <1>4, <2>1 DEF I2cTypes
  <2>6. TimerTypes' BY <1>4, <2>2, <2>4 DEF TimerTypes, ExecTimers, Bytes
  <2>7. MsgTypes'
    <3>1. (mptr + 1) % (Base * Base) \in Word
      BY PicI2cAssumption DEF MsgTypes, Word
    <3>2. mptr' \in Word
      BY <2>2, <2>4, <3>1 DEF MsgTypes, ExecMsg, Bytes
    <3>3. msg' \in [Word -> Byte] BY <2>1, <2>2 DEF MsgTypes, ExecMsg
    <3>. QED BY <3>2, <3>3 DEF MsgTypes
  <2>8. EeTypes'
    <3>1. eeaddr' \in Byte BY <2>1, <2>2 DEF EeTypes, ExecEe
    <3>2. CASE i2c_addr = "EE_WRITE"
      BY <2>1, <2>2, <2>4, <3>1, <3>2, StatusTypes DEF EeTypes, ExecEe, Bytes
    <3>3. CASE i2c_addr # "EE_WRITE" BY <2>2, <3>1, <3>3 DEF EeTypes, ExecEe
    <3>. QED BY <3>2, <3>3
  <2>9. IndexInv' BY <1>4, <2>1, BytesFacts DEF IndexInv
  <2>. QED BY <1>4, <2>5, <2>6, <2>7, <2>8, <2>9 DEF MainTypes, NvmTypes
<1>. QED BY <1>5, <1>6

LEMMA TypeOfRead == ASSUME TypeInv, ReadByte PROVE TypeInv'
<1>. USE DEF TypeInv, ReadByte
<1>1. I2cTypes'
  <2>0. Bytes(i2c_addr) \in {1, 2} BY BytesFacts
  <2>1. i2c_idx + 1 \in {1, 2} /\ i2c_idx' \in 0..2
    BY <2>0 DEF I2cTypes
  <2>2. i2c_buf[i2c_idx + 1] \in Taken BY <2>1 DEF I2cTypes
  <2>3. got' \in Seq(Taken) BY <2>2 DEF I2cTypes
  <2>. QED BY <2>1, <2>3 DEF I2cTypes
<1>2. IndexInv' BY DEF IndexInv, Gets, Sets
<1>. QED
  BY <1>1, <1>2 DEF TimerTypes, MsgTypes, EeTypes, MainTypes, NvmTypes,
                    timer_vars, msg_vars, ee_vars, main_vars, nvm_vars

LEMMA TypeOfLoop ==
  ASSUME TypeInv, \/ ButtonSkip \/ Push \/ PushHigh \/ Release \/ Count
                  \/ CountHigh \/ SwdtTick \/ HostReset \/ EeNothing
  PROVE  TypeInv'
<1>. USE DEF TypeInv
<1>1. UNCHANGED <<i2c_addr, i2c_idx, i2c_buf, host, mptr, msg, eeaddr, eedata,
                  eests, order, unlock, nvm, eeprom>>
  BY DEF ButtonSkip, Push, PushHigh, Release, Count, CountHigh, SwdtTick,
         HostReset, EeNothing, i2c_vars, msg_vars, ee_vars, nvm_vars
<1>2. \/ UNCHANGED <<bus, sent, got>>
      \/ bus' = "closed" /\ sent' = <<>> /\ got' = <<>>
  BY DEF ButtonSkip, Push, PushHigh, Release, Count, CountHigh, SwdtTick,
         HostReset, EeNothing, i2c_vars
<1>3. I2cTypes' /\ IndexInv'
  <2>1. sent' \in Seq(Byte) /\ got' \in Seq(Taken)
    <3>1. <<>> \in Seq(Byte) /\ <<>> \in Seq(Taken) OBVIOUS
    <3>2. sent \in Seq(Byte) /\ got \in Seq(Taken) BY DEF I2cTypes
    <3>3. sent' \in {sent, <<>>} /\ got' \in {got, <<>>} BY <1>2
    <3>. QED BY <3>1, <3>2, <3>3
  <2>2. I2cTypes' BY <1>1, <1>2, <2>1 DEF I2cTypes
  <2>3. IndexInv' BY <1>1, <1>2 DEF IndexInv
  <2>. QED BY <2>2, <2>3
<1>4. MainTypes'
  BY <1>1, StatusTypes
     DEF ButtonSkip, Push, PushHigh, Release, Count, CountHigh, SwdtTick,
         HostReset, EeNothing, MainTypes
<1>5. rstcnt' \in Byte \X Byte /\ held' \in BOOLEAN
  <2>1. RSTBTN_DEB \in Byte /\ 0 \in Byte BY PicI2cAssumption, ByteFacts
  <2>2. \A n \in Byte, k \in Eests : (n + k) % Base \in Byte
    BY PicI2cAssumption DEF Byte, Eests, EE_IDLE, EE_BUSY
  <2>3. \A n \in Byte : (n + 1) % Base \in Byte BY <2>2, StatusTypes
  <2>4. rstcnt[1] \in Byte /\ rstcnt[2] \in Byte /\ work \in Eests
    BY DEF TimerTypes, MainTypes
  <2>5. \/ rstcnt' = rstcnt
        \/ \E y \in Byte : rstcnt' = [rstcnt EXCEPT ![1] = y]
        \/ \E y \in Byte : rstcnt' = [rstcnt EXCEPT ![2] = y]
    BY <2>1, <2>2, <2>3, <2>4
       DEF ButtonSkip, Push, PushHigh, Release, Count, CountHigh, SwdtTick,
           HostReset, EeNothing, timer_vars
  <2>6. rstcnt' \in Byte \X Byte BY <2>5, PairExcept DEF TimerTypes
  <2>7. held' \in BOOLEAN
    BY DEF ButtonSkip, Push, PushHigh, Release, Count, CountHigh, SwdtTick,
           HostReset, EeNothing, timer_vars, TimerTypes
  <2>. QED BY <2>6, <2>7
<1>6. swdt' \in Word
  <2>1. SwdtInit \in Word
    <3>1. 0 \in Byte /\ 1 \in Byte BY PicI2cAssumption DEF Byte
    <3>2. Value(<<eeprom[0], eeprom[1]>>) \in Word
      BY <3>1, ValueFacts DEF NvmTypes, Value
    <3>. QED BY <3>2, WordFacts, PicI2cAssumption DEF SwdtInit
  <2>2. swdt > 0 => swdt - 1 \in Word
    BY PicI2cAssumption DEF TimerTypes, Word
  <2>. QED
    BY <2>1, <2>2
       DEF ButtonSkip, Push, PushHigh, Release, Count, CountHigh, SwdtTick,
           HostReset, EeNothing, timer_vars, TimerTypes
<1>7. had' \subseteq Word
  BY <1>6 DEF ButtonSkip, Push, PushHigh, Release, Count, CountHigh, SwdtTick,
              HostReset, EeNothing, timer_vars, TimerTypes, Shown
<1>8. TimerTypes' BY <1>5, <1>6, <1>7 DEF TimerTypes
<1>. QED BY <1>1, <1>3, <1>4, <1>8 DEF MsgTypes, EeTypes, NvmTypes

LEMMA TypeOfEe ==
  ASSUME TypeInv,
         EeWrite \/ EeStart \/ EeStarted \/ EeDone \/ EeStore \/ Program
  PROVE  TypeInv'
<1>. USE DEF TypeInv
<1>1. UNCHANGED <<i2c_vars, host, timer_vars, had, msg_vars, eeaddr, eedata,
                  order>>
  BY DEF EeWrite, EeStart, EeStarted, EeDone, EeStore, Program, ee_vars
<1>2. I2cTypes' /\ IndexInv' /\ TimerTypes' /\ MsgTypes'
  BY <1>1 DEF I2cTypes, IndexInv, TimerTypes, MsgTypes, i2c_vars, timer_vars,
              msg_vars
<1>3. EeTypes'
  BY <1>1, StatusTypes
     DEF EeTypes, MainTypes, EeWrite, EeStart, EeStarted, EeDone, EeStore,
         Program, ee_vars
<1>4. MainTypes'
  BY StatusTypes
     DEF MainTypes, EeWrite, EeStart, EeStarted, EeDone, EeStore, Program,
         EeStatus, main_vars
<1>5. NvmTypes'
  BY DEF NvmTypes, EeTypes, EeWrite, EeStart, EeStarted, EeDone, EeStore,
         Program, nvm_vars
<1>. QED BY <1>2, <1>3, <1>4, <1>5

LEMMA TypeOfPicReset == ASSUME TypeInv, PicReset PROVE TypeInv'
<1>. USE ByteFacts, WordFacts, StatusTypes DEF TypeInv, PicReset
<1>1. I2cTypes'
  <2>1. <<0, 0>> \in Taken \X Taken BY DEF Taken
  <2>. QED BY <2>1 DEF I2cTypes
<1>2. TimerTypes'
  <2>1. <<0, 0>> \in Byte \X Byte OBVIOUS
  <2>. QED BY <2>1 DEF TimerTypes
<1>3. MsgTypes' BY PicI2cAssumption DEF MsgTypes
<1>4. NvmTypes' BY DEF NvmTypes
<1>5. EeTypes' BY <1>4 DEF EeTypes, NvmTypes
<1>6. MainTypes' BY DEF MainTypes
<1>7. IndexInv' BY DEF IndexInv
<1>. QED BY <1>1, <1>2, <1>3, <1>4, <1>5, <1>6, <1>7

LEMMA TypeStep == ASSUME TypeInv, [Next]_vars PROVE TypeInv'
<1>1. CASE UNCHANGED vars
  BY <1>1 DEF vars, i2c_vars, timer_vars, msg_vars, ee_vars, main_vars,
              nvm_vars, TypeInv, I2cTypes, IndexInv, TimerTypes, MsgTypes,
              EeTypes, MainTypes, NvmTypes
<1>. QED BY <1>1, TypeOfAddress, TypeOfWrite, TypeOfRead, TypeOfLoop, TypeOfEe,
            TypeOfPicReset DEF Next, Interrupt, Main

LEMMA TypeInvHolds == Spec => []TypeInv
<1>1. TypeInv /\ [Next]_vars => TypeInv' BY TypeStep
<1>. QED BY <1>1, TypeOfInit, PTL DEF Spec

\* Whatever the host sends, however many commands it puts into a transaction and
\* whenever it begins another one: every byte, word and address of the PIC keeps
\* its width and i2c_idx stays within i2c_buf.
THEOREM Typed == Spec => []TypeOK
BY TypesAreTypeOK, TypeInvHolds, PTL

----------------------------------------------------------------------------
(* The watchdog as the host reads it.                                      *)

\* The buffer holds the two bytes of one value that the watchdog has had since
\* i2c_start, and the host reads them in their order.
ReadInv ==
  i2c_addr = "SWDT_GET" =>
    \/ bus # "open" /\ got = <<>>
    \/ /\ bus = "open" /\ i2c_idx = Len(got)
       /\ \E v \in had : i2c_buf = Pair(v)
       /\ \A i \in 1 .. Len(got) : got[i] = i2c_buf[i]

LEMMA ReadStep == ASSUME TypeInv, ReadInv, [Next]_vars PROVE ReadInv'
<1>. USE DEF ReadInv
<1>1. ASSUME NEW c \in host, Address(c) PROVE ReadInv'
  <2>1. CASE c = "SWDT_GET"
    <3>1. /\ bus' = "open" /\ i2c_idx' = 0 /\ got' = <<>> /\ had' = {swdt}
          /\ i2c_buf' = Pair(swdt)
      BY <1>1, <2>1 DEF Address, Refused, Loaded, Shown
    <3>2. Len(got') = 0 BY <3>1
    <3>. QED BY <3>1, <3>2
  <2>2. CASE c # "SWDT_GET" BY <1>1, <2>2 DEF Address
  <2>. QED BY <2>1, <2>2
<1>2. ASSUME NEW x \in Byte, WriteByte(x) PROVE ReadInv'
  BY <1>2 DEF WriteByte, Sets
<1>3. CASE ReadByte
  <2>1. /\ bus = "open" /\ got' = Append(got, i2c_buf[i2c_idx + 1])
        /\ i2c_idx' = i2c_idx + 1
        /\ UNCHANGED <<bus, i2c_addr, i2c_buf, had>>
    BY <1>3 DEF ReadByte
  <2>2. got \in Seq(Taken) /\ i2c_buf[i2c_idx + 1] \in Taken
    BY <1>3, BytesFacts DEF ReadByte, TypeInv, I2cTypes
  <2>3. /\ Len(got') = Len(got) + 1 /\ Len(got) \in Nat
        /\ \A i \in 1 .. Len(got) : got'[i] = got[i]
        /\ got'[Len(got) + 1] = i2c_buf[i2c_idx + 1]
    BY <2>1, <2>2
  <2>. QED BY <2>1, <2>3
<1>4. CASE Main
  <2>1. UNCHANGED i2c_vars
    BY <1>4 DEF Main, ButtonSkip, Push, PushHigh, Release, Count, CountHigh,
                SwdtTick, EeNothing, EeWrite, EeStart, EeStarted, EeDone, EeStore
  <2>2. had \subseteq had'
    BY <1>4 DEF Main, ButtonSkip, Push, PushHigh, Release, Count, CountHigh,
                SwdtTick, EeNothing, EeWrite, EeStart, EeStarted, EeDone, EeStore
  <2>. QED BY <2>1, <2>2 DEF i2c_vars
<1>5. CASE HostReset BY <1>5 DEF HostReset
<1>6. CASE Program BY <1>6 DEF Program, i2c_vars
<1>7. CASE PicReset BY <1>7 DEF PicReset
<1>8. CASE UNCHANGED vars BY <1>8 DEF vars, i2c_vars
<1>. QED
  BY <1>1, <1>2, <1>3, <1>4, <1>5, <1>6, <1>7, <1>8 DEF Next, Interrupt

\* Whatever the loop counts and the host does between the two bytes: together
\* they are a value the watchdog had while the host read (i2c_start takes both
\* at once), also when several commands share a transaction.
THEOREM WatchdogReadWhole == Spec => []SwdtReadWhole
<1>1. Init => ReadInv BY DEF Init, ReadInv
<1>2. TypeInv /\ ReadInv /\ [Next]_vars => ReadInv' BY ReadStep
<1>3. TypeInv /\ ReadInv => SwdtReadWhole
  <2>. SUFFICES ASSUME TypeInv, ReadInv, i2c_addr = "SWDT_GET", Len(got) = 2
                PROVE  Value(got) \in had
    BY DEF SwdtReadWhole
  <2>1. got # <<>> OBVIOUS
  <2>2. PICK v \in had : i2c_buf = Pair(v) BY <2>1 DEF ReadInv
  <2>3. got[1] = i2c_buf[1] /\ got[2] = i2c_buf[2] BY <2>1 DEF ReadInv
  <2>4. Value(got) = Value(Pair(v)) BY <2>2, <2>3 DEF Value
  <2>5. v \in Word BY <2>2 DEF TypeInv, TimerTypes
  <2>. QED BY <2>2, <2>4, <2>5, TakenApart
<1>. QED BY <1>1, <1>2, <1>3, TypeInvHolds, PTL DEF Spec

----------------------------------------------------------------------------
(* What a transaction stores, when it is one command.                      *)

\* The bytes taken are those of this transaction; a byte of the message is only
\* awaited while the pointer is inside the buffer, and so nothing behind the
\* buffer has been written since main cleared it.
TransInv ==
  /\ Unfinished /\ Len(sent) = 1 => i2c_buf[1] = sent[1]
  /\ Unfinished /\ i2c_addr = "MSG_PUTC" => mptr < SIZE_MSG
  /\ \A a \in Word : a >= SIZE_MSG => msg[a] = 0

CommandInv == Inv /\ TypeInv /\ TransInv

\* A byte of a command: the first of two, or the last, which executes it.
LEMMA WriteFacts ==
  ASSUME OneCommand, CommandInv, NEW x \in Byte, WriteByte(x)
  PROVE  /\ Unfinished /\ sent' = Append(sent, x) /\ Len(sent') = Len(sent) + 1
         /\ \/ /\ Len(sent) = 0 /\ Bytes(i2c_addr) = 2 /\ i2c_buf'[1] = x
               /\ sent'[1] = x
               /\ UNCHANGED <<i2c_addr, swdt, mptr, msg>>
            \/ /\ Len(sent') = Bytes(i2c_addr) /\ i2c_addr' = i2c_addr
               /\ Len(sent) = 1 => Value(i2c_buf') = Value(sent')
               /\ ExecTimers(i2c_addr, i2c_buf')
               /\ ExecMsg(i2c_addr, i2c_buf')
<1>. USE DEF CommandInv
<1>1. /\ bus = "open" /\ i2c_addr \in Sets /\ Len(sent) < Bytes(i2c_addr)
      /\ Unfinished
  BY DEF OneCommand, WriteByte, Bytes, Unfinished
<1>2. /\ sent \in Seq(Byte) /\ Len(sent) \in {0, 1} /\ i2c_idx = Len(sent)
      /\ i2c_buf \in Taken \X Taken /\ x \in Taken
  BY <1>1, BytesFacts DEF Inv, I2cInv, TypeInv, I2cTypes, Taken
<1>3. /\ sent' = Append(sent, x) /\ Len(sent') = Len(sent) + 1
      /\ sent'[Len(sent) + 1] = x /\ (Len(sent) = 1 => sent'[1] = sent[1])
  BY <1>2 DEF WriteByte
<1>4. /\ i2c_buf'[i2c_idx + 1] = x
      /\ i2c_idx = 1 => i2c_buf'[1] = i2c_buf[1]
  <2>1. i2c_idx + 1 \in {1, 2} BY <1>2
  <2>2. i2c_buf' = [i2c_buf EXCEPT ![i2c_idx + 1] = x] BY DEF WriteByte
  <2>. QED BY <1>2, <2>1, <2>2, PairExcept
<1>5. CASE i2c_idx + 1 = Bytes(i2c_addr)
  <2>1. ExecTimers(i2c_addr, i2c_buf') /\ ExecMsg(i2c_addr, i2c_buf')
        /\ i2c_addr' = i2c_addr
    BY <1>5 DEF WriteByte
  <2>2. Len(sent) = 1 => i2c_buf[1] = sent[1] BY <1>1 DEF TransInv
  <2>3. Len(sent) = 1 => i2c_buf'[1] = sent'[1] /\ i2c_buf'[2] = sent'[2]
    BY <1>2, <1>3, <1>4, <2>2
  <2>. QED BY <1>1, <1>2, <1>3, <1>5, <2>1, <2>3 DEF Value
<1>6. CASE i2c_idx + 1 # Bytes(i2c_addr)
  <2>1. UNCHANGED <<i2c_addr, swdt, mptr, msg>>
    BY <1>6 DEF WriteByte, msg_vars
  <2>2. Len(sent) = 0 /\ Bytes(i2c_addr) = 2 BY <1>1, <1>2, <1>6, BytesFacts
  <2>. QED BY <1>1, <1>2, <1>3, <1>4, <2>1, <2>2
<1>. QED BY <1>5, <1>6

LEMMA TransStep == ASSUME OneCommand, CommandInv, [Next]_vars PROVE TransInv'
<1>. USE DEF CommandInv
<1>1. ASSUME NEW c \in host, Address(c) PROVE TransInv'
  <2>1. sent' = <<>> /\ Len(sent') = 0 /\ i2c_addr' = c /\ msg' = msg
    BY <1>1 DEF Address
  <2>2. bus' = "open" /\ c = "MSG_PUTC" => mptr' < SIZE_MSG
    BY <1>1, PicI2cAssumption
       DEF Address, Refused, TypeInv, MsgTypes, Word
  <2>. QED BY <2>1, <2>2 DEF TransInv, Unfinished
<1>2. ASSUME NEW x \in Byte, WriteByte(x) PROVE TransInv'
  <2>1. CASE /\ Len(sent) = 0 /\ Bytes(i2c_addr) = 2 /\ i2c_buf'[1] = x
             /\ sent'[1] = x
             /\ UNCHANGED <<i2c_addr, swdt, mptr, msg>>
    BY <2>1 DEF TransInv, Unfinished, Bytes
  <2>2. CASE /\ Len(sent') = Bytes(i2c_addr) /\ i2c_addr' = i2c_addr
             /\ ExecMsg(i2c_addr, i2c_buf')
    <3>1. ~Unfinished' BY <2>2, BytesFacts DEF Unfinished
    <3>2. i2c_addr = "MSG_PUTC" => mptr < SIZE_MSG /\ mptr \in Word
      BY <1>2, WriteFacts DEF TransInv, TypeInv, MsgTypes
    <3>3. \A a \in Word : a >= SIZE_MSG => msg'[a] = 0
      <4>1. CASE i2c_addr = "MSG_PUTC"
        <5>1. msg' = [msg EXCEPT ![mptr] = i2c_buf'[1]]
          BY <2>2, <4>1 DEF ExecMsg
        <5>2. \A a \in Word : a >= SIZE_MSG => a # mptr
          BY <3>2, <4>1, PicI2cAssumption DEF Word
        <5>. QED BY <5>1, <5>2 DEF TransInv, TypeInv, MsgTypes
      <4>2. CASE i2c_addr # "MSG_PUTC"
        BY <2>2, <4>2 DEF ExecMsg, TransInv
      <4>. QED BY <4>1, <4>2
    <3>. QED BY <3>1, <3>3 DEF TransInv
  <2>. QED BY <1>2, <2>1, <2>2, WriteFacts
<1>3. CASE ReadByte
  BY <1>3 DEF ReadByte, TransInv, Unfinished, Gets, Sets, msg_vars
<1>4. CASE Main \/ Program \/ UNCHANGED vars
  <2>1. UNCHANGED <<i2c_vars, msg_vars>>
    BY <1>4 DEF Main, ButtonSkip, Push, PushHigh, Release, Count, CountHigh,
                SwdtTick, EeNothing, EeWrite, EeStart, EeStarted, EeDone,
                EeStore, Program, vars
  <2>. QED BY <2>1 DEF TransInv, Unfinished, i2c_vars, msg_vars
<1>5. CASE HostReset
  BY <1>5 DEF HostReset, TransInv, Unfinished, msg_vars
<1>6. CASE PicReset BY <1>6 DEF PicReset, TransInv, Unfinished
<1>. QED BY <1>1, <1>2, <1>3, <1>4, <1>5, <1>6 DEF Next, Interrupt

LEMMA CommandInvHolds == OneCommand /\ Spec => []CommandInv
<1>. SUFFICES ASSUME OneCommand PROVE Spec => []CommandInv OBVIOUS
<1>1. Init => TransInv BY DEF Init, TransInv, Unfinished
<1>2. CommandInv /\ [Next]_vars => CommandInv'
  BY Inductive, TypeStep, TransStep DEF CommandInv
<1>3. Init => CommandInv
  BY <1>1, Initially, TypeOfInit DEF CommandInv
<1>. QED BY <1>2, <1>3, PTL DEF Spec

\* Who writes the watchdog and the message while the bus is open.
LEMMA Stored ==
  ASSUME OneCommand, CommandInv, [Next]_vars
  PROVE  /\ bus' = "open" /\ swdt' \notin {swdt, swdt - 1}
              => /\ i2c_addr = "SWDT_SET" /\ Len(sent') = 2
                 /\ swdt' = Value(sent')
         /\ \A a \in Word : a >= SIZE_MSG => msg'[a] = msg[a]
<1>1. ASSUME NEW x \in Byte, WriteByte(x), swdt' \notin {swdt, swdt - 1}
      PROVE  i2c_addr = "SWDT_SET" /\ Len(sent') = 2 /\ swdt' = Value(sent')
  <2>1. /\ Len(sent') = Bytes(i2c_addr) /\ ExecTimers(i2c_addr, i2c_buf')
        /\ Len(sent) = 1 => Value(i2c_buf') = Value(sent')
        /\ Len(sent') = Len(sent) + 1
    BY <1>1, WriteFacts
  <2>2. i2c_addr = "SWDT_SET" /\ swdt' = Value(i2c_buf')
    BY <1>1, <2>1 DEF ExecTimers
  <2>3. Len(sent') = 2 BY <2>1, <2>2 DEF Bytes
  <2>4. Len(sent) = 1
    <3>1. Len(sent) \in Nat BY DEF CommandInv, TypeInv, I2cTypes
    <3>2. Len(sent') = Len(sent) + 1 BY <2>1
    <3>3. Len(sent) + 1 = 2 BY <2>3, <3>2
    <3>4. \A n \in Nat : n + 1 = 2 => n = 1 OBVIOUS
    <3>. QED BY <3>1, <3>3, <3>4
  <2>. QED BY <2>1, <2>2, <2>3, <2>4
<1>2. bus' = "open" /\ swdt' \notin {swdt, swdt - 1} =>
        \E x \in Byte : WriteByte(x)
  BY DEF Next, Interrupt, Main, Address, ReadByte, ButtonSkip, Push, PushHigh,
         Release, Count, CountHigh, SwdtTick, HostReset, EeNothing, EeWrite,
         EeStart, EeStarted, EeDone, EeStore, Program, PicReset, timer_vars, vars
<1>3. TransInv /\ TransInv' BY TransStep DEF CommandInv
<1>4. \A a \in Word : a >= SIZE_MSG => msg'[a] = msg[a]
  BY <1>3 DEF TransInv
<1>. QED BY <1>1, <1>2, <1>4

\* The watchdog counts down, or takes the two bytes of one transaction, never a
\* byte of an earlier one that the host has left (i2c_start resets i2c_idx).
THEOREM WatchdogSetWhole == OneCommand /\ Spec => SwdtSetWhole
<1>. SUFFICES ASSUME OneCommand PROVE Spec => SwdtSetWhole OBVIOUS
<1>1. OneCommand /\ Spec => []CommandInv BY CommandInvHolds
<1>2. CommandInv /\ [Next]_vars =>
        [bus' = "open" /\ swdt' \notin {swdt, swdt - 1}
           => i2c_addr = "SWDT_SET" /\ Len(sent') = 2 /\ swdt' = Value(sent')]_vars
  BY Stored
<1>. QED BY <1>1, <1>2, PTL DEF Spec, SwdtSetWhole

\* The memory behind the message buffer is never written: i2c_start compares the
\* pointer with SIZE_MSG, and nothing moves it before the byte is stored.
THEOREM MessageInside == OneCommand /\ Spec => MsgInside
<1>. SUFFICES ASSUME OneCommand PROVE Spec => MsgInside OBVIOUS
<1>1. OneCommand /\ Spec => []CommandInv BY CommandInvHolds
<1>2. CommandInv /\ [Next]_vars =>
        [\A a \in Word : a >= SIZE_MSG => msg'[a] = msg[a]]_vars
  BY Stored
<1>. QED BY <1>1, <1>2, PTL DEF Spec, MsgInside
=============================================================================
