------------------------------- MODULE PicI2c -------------------------------
(***************************************************************************)
(* The I2C slave of the Edge 510's microcontroller (edge510-pic/pic.c): the*)
(* interrupt handler that takes a transaction byte by byte, and the parts  *)
(* of the main loop that touch the same data between two interrupts: the   *)
(* system watchdog, the push time of the reset button and the EEPROM.      *)
(*                                                                         *)
(* The commands of the LED, BLE, power state, version and reset cause only *)
(* load or store a byte that nothing here depends on; I2C_RNOP and         *)
(* I2C_RESET stand for them.  What I2C_PST_SET and the watchdog do to the  *)
(* power is in PicPower.                                                   *)
(***************************************************************************)
EXTENDS Integers, Sequences

CONSTANTS
  Base,        \* a byte is in 0..Base-1 (256 in the code)
  RSTBTN_DEB,  \* what a push loads into the push time (20)
  SWDT_MIN,    \* a watchdog time of the EEPROM below this is taken as 0
  SWDT_DEFAULT,\* the watchdog time of an unprogrammed EEPROM
  SIZE_MSG,    \* size of the message buffer (400)
  Hosts,       \* sets of commands, of which the host uses one
  Burst,       \* how many commands it puts into one transaction at most
  PicResets    \* the PIC may be reset (its own watchdog, MCLR, brown-out)

Byte == 0 .. Base - 1
Word == 0 .. Base * Base - 1
MaxWord == Base * Base - 1

Gets == {"SWDT_GET", "EE_STS", "EE_READ", "MSG_GET", "MSG_GETC", "RESET",
         "RBPT_GET"}
Sets == {"SWDT_SET", "EE_WRITE", "EE_ADDR", "MSG_SET", "MSG_PUTC", "RNOP",
         "RBPT_SET"}

\* enum eests.
EE_IDLE == 0
EE_ERROR == 1
EE_START == 2
EE_BUSY == 3
Eests == EE_IDLE .. EE_BUSY

ASSUME PicI2cAssumption ==
  /\ Base \in Nat \ {0, 1}
  /\ RSTBTN_DEB \in Byte \ {0}
  /\ SWDT_MIN \in Word /\ SWDT_DEFAULT \in Word
  /\ SIZE_MSG \in Word
  /\ \A h \in Hosts : h \subseteq Gets \cup Sets
  /\ Burst \in Nat \ {0}
  /\ PicResets \in BOOLEAN

VARIABLES
  host,     \* the commands that the host uses
  bus,      \* "open" while the host may transfer bytes, "closed" when it has
            \* to address a command first, "off" before the host is started
  i2c_addr, \* the command addressed last, "none" after a reset
  i2c_idx,  \* index into i2c_buf
  i2c_buf,  \* the first two bytes of the buffer
  sent,     \* the bytes the host has sent in this transaction
  got,      \* the bytes the host has read in this transaction
  swdt,     \* the system watchdog's time
  rstcnt,   \* the push time of the button, low and high byte
  held,     \* rstbtn.cur: the button as last sampled
  had,      \* ghost: the values that the watchdog has had meanwhile, if read
  mptr,     \* message pointer
  msg,      \* message buffer and the memory behind it
  eeaddr, eedata, \* EEPROM address and data byte
  eests,    \* state of the EEPROM
  pc,       \* where the main loop is
  work,     \* what the loop holds in a register: a carry or ee_done's result
  unlock,   \* the unlock sequence runs and no interrupt has come in between
  nvm,      \* the EEPROM hardware: WR, WRERR, and the cell it programs
  eeprom,   \* its contents
  order     \* ghost: the last EE_WRITE taken, <<>> for none since the reset

i2c_vars == <<bus, i2c_addr, i2c_idx, i2c_buf, sent, got>>
timer_vars == <<swdt, rstcnt, held>>
msg_vars == <<mptr, msg>>
ee_vars == <<eeaddr, eedata, eests, order>>
main_vars == <<pc, work>>
nvm_vars == <<nvm, eeprom>>
vars == <<i2c_vars, timer_vars, had, msg_vars, ee_vars, main_vars, unlock,
          nvm_vars, host>>

Value(p) == p[1] + Base * p[2]
Pair(v) == <<v % Base, v \div Base>>

\* The bytes of a command (i2c_nb).  Variant: the watchdog takes one.
BytesSwdtOne(c) == IF c \in {"SWDT_GET", "EE_WRITE", "MSG_SET", "MSG_GET",
                             "RBPT_SET", "RBPT_GET"} THEN 2 ELSE 1
Bytes(c) == IF c \in {"SWDT_SET", "SWDT_GET", "EE_WRITE", "MSG_SET", "MSG_GET",
                      "RBPT_SET", "RBPT_GET"} THEN 2 ELSE 1

\* swdt_init: the watchdog time of the EEPROM.
SwdtInit ==
  LET v == Value(<<eeprom[0], eeprom[1]>>)
      w == IF v = MaxWord THEN SWDT_DEFAULT ELSE v
  IN IF w < SWDT_MIN THEN 0 ELSE w

\* The state in which main enters its loop; the EEPROM keeps its contents.
Init ==
  /\ host \in Hosts
  /\ bus = "off" /\ i2c_addr = "none" /\ i2c_idx = 0 /\ i2c_buf = <<0, 0>>
  /\ sent = <<>> /\ got = <<>>
  /\ swdt = 0 /\ rstcnt = <<0, 0>> /\ held = FALSE
  /\ had = {}
  /\ mptr = SIZE_MSG /\ msg = [a \in Word |-> 0]
  /\ eeaddr = 0 /\ eedata = Base - 1 /\ eests = EE_IDLE /\ order = <<>>
  /\ pc = "button" /\ work = 0 /\ unlock = FALSE
  /\ nvm = [wr |-> FALSE, wrerr |-> FALSE, adr |-> 0, dat |-> 0]
  /\ eeprom = [a \in Byte |-> Base - 1]

\* What the command c shows of a watchdog, for the ghost had.
Shown(c, watchdog) == IF c = "SWDT_GET" THEN {watchdog} ELSE {}

-----------------------------------------------------------------------------
(* Interrupt_ISR.                                                          *)

EeBusy == eests >= EE_START

\* i2c_start does not acknowledge the address.  Variants: only EE_WRITE looks at
\* the EEPROM; only a write that has been started counts; the end of the message
\* buffer is missed by one.
RefusedWriteOnly(c) ==
  \/ c = "EE_WRITE" /\ EeBusy
  \/ c \in {"MSG_PUTC", "MSG_GETC"} /\ mptr >= SIZE_MSG
RefusedStarted(c) ==
  \/ c \in {"EE_WRITE", "EE_READ", "EE_ADDR"} /\ eests = EE_BUSY
  \/ c \in {"MSG_PUTC", "MSG_GETC"} /\ mptr >= SIZE_MSG
RefusedPastEnd(c) ==
  \/ c \in {"EE_WRITE", "EE_READ", "EE_ADDR"} /\ EeBusy
  \/ c \in {"MSG_PUTC", "MSG_GETC"} /\ mptr > SIZE_MSG
Refused(c) ==
  \/ c \in {"EE_WRITE", "EE_READ", "EE_ADDR"} /\ EeBusy
  \/ c \in {"MSG_PUTC", "MSG_GETC"} /\ mptr >= SIZE_MSG

\* What i2c_start loads into the buffer.
Loaded(c) ==
  CASE c = "SWDT_GET" -> Pair(swdt)
    [] c = "RBPT_GET" -> rstcnt
    [] c = "MSG_GET"  -> Pair(mptr)
    [] c = "EE_STS"   -> <<eests, i2c_buf[2]>>
    [] c = "EE_READ"  -> <<eeprom[eeaddr], i2c_buf[2]>>
    [] c = "MSG_GETC" -> <<msg[mptr], i2c_buf[2]>>
    [] c = "RESET"    -> <<0, i2c_buf[2]>>
    [] OTHER          -> i2c_buf

\* eeaddr and mptr after a byte was read.  Variant: the address does not wrap.
NextCellUnwrapped == eeaddr + 1
NextCell == (eeaddr + 1) % Base

\* The host addresses a command, whatever it has left unfinished.
Address(c) ==
  /\ bus # "off"
  /\ bus' = IF Refused(c) THEN "closed" ELSE "open"
  /\ i2c_addr' = c
  /\ i2c_idx' = 0
  /\ i2c_buf' = IF Refused(c) THEN i2c_buf ELSE Loaded(c)
  /\ eeaddr' = IF c = "EE_READ" /\ ~Refused(c) THEN NextCell ELSE eeaddr
  /\ mptr' = IF c = "MSG_GETC" /\ ~Refused(c) THEN mptr + 1 ELSE mptr
  /\ sent' = <<>> /\ got' = <<>>
  /\ had' = Shown(c, swdt)
  /\ unlock' = FALSE
  /\ UNCHANGED <<timer_vars, msg, eedata, eests, order, main_vars, nvm_vars,
                 host>>

\* i2c_exec of the write command c with the bytes b.
ExecTimers(c, b) ==
  /\ swdt' = IF c = "SWDT_SET" THEN Value(b) ELSE swdt
  /\ rstcnt' = IF c = "RBPT_SET" THEN b ELSE rstcnt

ExecMsg(c, b) ==
  /\ mptr' = CASE c = "MSG_SET"  -> Value(b)
               [] c = "MSG_PUTC" -> (mptr + 1) % (Base * Base)
               [] OTHER -> mptr
  /\ msg' = IF c = "MSG_PUTC" THEN [msg EXCEPT ![mptr] = b[1]] ELSE msg

ExecEe(c, b) ==
  /\ eeaddr' = IF c \in {"EE_WRITE", "EE_ADDR"} THEN b[1] ELSE eeaddr
  /\ IF c = "EE_WRITE"
     THEN eedata' = b[2] /\ eests' = EE_START /\ order' = b
     ELSE UNCHANGED <<eedata, eests, order>>

\* The host writes a byte; the last one of a command executes it.
WriteByte(x) ==
  /\ bus = "open"
  /\ i2c_addr \in Sets
  /\ Len(sent) < Burst * Bytes(i2c_addr)
  /\ sent' = Append(sent, x)
  /\ i2c_buf' = [i2c_buf EXCEPT ![i2c_idx + 1] = x]
  /\ IF i2c_idx + 1 = Bytes(i2c_addr)
     THEN /\ i2c_idx' = 0
          /\ ExecTimers(i2c_addr, i2c_buf')
          /\ ExecMsg(i2c_addr, i2c_buf')
          /\ ExecEe(i2c_addr, i2c_buf')
     ELSE /\ i2c_idx' = i2c_idx + 1
          /\ UNCHANGED <<swdt, rstcnt, msg_vars, ee_vars>>
  /\ unlock' = FALSE
  /\ UNCHANGED <<bus, i2c_addr, got, held, had, main_vars, nvm_vars, host>>

\* Variant: the bytes are taken from the register as they are sent.
ReadByteLive ==
  /\ bus = "open"
  /\ i2c_addr \in Gets
  /\ i2c_idx < Bytes(i2c_addr)
  /\ got' = Append(got, Loaded(i2c_addr)[i2c_idx + 1])
  /\ i2c_idx' = i2c_idx + 1
  /\ unlock' = FALSE
  /\ UNCHANGED <<bus, i2c_addr, i2c_buf, sent, timer_vars, had, msg_vars,
                 ee_vars, main_vars, nvm_vars, host>>

\* The host reads a byte; past the end of the command it reads zeros.
ReadByte ==
  /\ bus = "open"
  /\ i2c_addr \in Gets
  /\ i2c_idx < Bytes(i2c_addr)
  /\ got' = Append(got, i2c_buf[i2c_idx + 1])
  /\ i2c_idx' = i2c_idx + 1
  /\ unlock' = FALSE
  /\ UNCHANGED <<bus, i2c_addr, i2c_buf, sent, timer_vars, had, msg_vars,
                 ee_vars, main_vars, nvm_vars, host>>

Interrupt ==
  (\E c \in host : Address(c)) \/ (\E x \in Byte : WriteByte(x)) \/ ReadByte

-----------------------------------------------------------------------------
(* rstbtn_fsm.  The push time has two bytes and interrupts stay enabled: the*)
(* build stores and increments the low byte first.                         *)

\* No tick, the debounce period, or nothing to do.
ButtonSkip ==
  /\ pc = "button"
  /\ pc' = "swdt"
  /\ UNCHANGED <<i2c_vars, timer_vars, had, msg_vars, ee_vars, work, unlock,
                 nvm_vars, host>>

Push ==
  /\ pc = "button" /\ ~held
  /\ held' = TRUE
  /\ rstcnt' = [rstcnt EXCEPT ![1] = RSTBTN_DEB]
  /\ pc' = "store"
  /\ UNCHANGED <<i2c_vars, swdt, had, msg_vars, ee_vars, work, unlock, nvm_vars,
                 host>>

PushHigh ==
  /\ pc = "store"
  /\ rstcnt' = [rstcnt EXCEPT ![2] = 0]
  /\ pc' = "swdt"
  /\ UNCHANGED <<i2c_vars, swdt, held, had, msg_vars, ee_vars, work,
                 unlock, nvm_vars, host>>

Release ==
  /\ pc = "button" /\ held
  /\ held' = FALSE
  /\ pc' = "swdt"
  /\ UNCHANGED <<i2c_vars, swdt, rstcnt, had, msg_vars, ee_vars, work,
                 unlock, nvm_vars, host>>

\* The push time stops at its maximum.
Count ==
  /\ pc = "button" /\ held
  /\ Value(rstcnt) < MaxWord
  /\ rstcnt' = [rstcnt EXCEPT ![1] = (@ + 1) % Base]
  /\ work' = IF rstcnt[1] = Base - 1 THEN 1 ELSE 0
  /\ pc' = "carry"
  /\ UNCHANGED <<i2c_vars, swdt, had, held, msg_vars, ee_vars, unlock, nvm_vars,
                 host>>

CountHigh ==
  /\ pc = "carry"
  /\ rstcnt' = [rstcnt EXCEPT ![2] = (@ + work) % Base]
  /\ work' = 0
  /\ pc' = "swdt"
  /\ UNCHANGED <<i2c_vars, swdt, held, had, msg_vars, ee_vars, unlock,
                 nvm_vars, host>>

-----------------------------------------------------------------------------
(* power_fsm: the watchdog and the reset of the host.                      *)

\* swdt_fsm runs with interrupts off.
SwdtTick ==
  /\ pc = "swdt"
  /\ swdt' \in {swdt} \cup (IF swdt > 0 THEN {swdt - 1} ELSE {})
  /\ had' = had \cup Shown(i2c_addr, swdt')
  /\ pc' = "ee"
  /\ UNCHANGED <<i2c_vars, rstcnt, held, msg_vars, ee_vars, work,
                 unlock, nvm_vars, host>>

\* The host is started or reset, which takes 100 ms; by then a write of the
\* EEPROM, which takes a few, is done.
HostReset ==
  /\ pc = "swdt"
  /\ ~EeBusy
  /\ bus' = "closed"
  /\ swdt' = SwdtInit
  /\ sent' = <<>> /\ got' = <<>> /\ had' = {}
  /\ pc' = "ee"
  /\ UNCHANGED <<i2c_addr, i2c_idx, i2c_buf, rstcnt, held, msg_vars,
                 ee_vars, work, unlock, nvm_vars, host>>

-----------------------------------------------------------------------------
(* The EEPROM state machine at the end of the loop.                        *)

EeNothing ==
  /\ pc = "ee"
  /\ ~EeBusy
  /\ pc' = "button"
  /\ UNCHANGED <<i2c_vars, timer_vars, had, msg_vars, ee_vars, work, unlock,
                 nvm_vars, host>>

\* ee_write up to the unlock sequence; a cell being programmed is not disturbed.
EeWrite ==
  /\ pc = "ee"
  /\ eests = EE_START
  /\ nvm' = IF nvm.wr THEN nvm
                      ELSE [nvm EXCEPT !.adr = eeaddr, !.dat = eedata]
  /\ unlock' = TRUE
  /\ pc' = "unlock"
  /\ UNCHANGED <<i2c_vars, timer_vars, had, msg_vars, ee_vars, work, eeprom,
                 host>>

\* Setting WR: the hardware starts, or flags the broken sequence in WRERR.
EeStart ==
  /\ pc = "unlock"
  /\ nvm' = IF unlock THEN [nvm EXCEPT !.wr = TRUE]
                      ELSE [nvm EXCEPT !.wrerr = TRUE]
  /\ unlock' = FALSE
  /\ pc' = "started"
  /\ UNCHANGED <<i2c_vars, timer_vars, had, msg_vars, ee_vars, work, eeprom,
                 host>>

EeStarted ==
  /\ pc = "started"
  /\ eests' = EE_BUSY
  /\ pc' = "button"
  /\ UNCHANGED <<i2c_vars, timer_vars, had, msg_vars, eeaddr, eedata, order,
                 work, unlock, nvm_vars, host>>

\* ee_done.  Variant: without a look at WRERR.
EeStatusUnchecked == IF nvm.wr THEN EE_BUSY ELSE EE_IDLE
EeStatus == IF nvm.wr THEN EE_BUSY ELSE IF nvm.wrerr THEN EE_ERROR ELSE EE_IDLE

EeDone ==
  /\ pc = "ee"
  /\ eests = EE_BUSY
  /\ work' = EeStatus
  /\ pc' = "done"
  /\ UNCHANGED <<i2c_vars, timer_vars, had, msg_vars, ee_vars, unlock,
                 nvm_vars, host>>

EeStore ==
  /\ pc = "done"
  /\ eests' = work
  /\ work' = 0
  /\ pc' = "button"
  /\ UNCHANGED <<i2c_vars, timer_vars, had, msg_vars, eeaddr, eedata, order,
                 unlock, nvm_vars, host>>

Main ==
  \/ ButtonSkip \/ Push \/ PushHigh \/ Release \/ Count \/ CountHigh
  \/ SwdtTick
  \/ EeNothing \/ EeWrite \/ EeStart \/ EeStarted \/ EeDone \/ EeStore

-----------------------------------------------------------------------------
(* The EEPROM hardware, and resets of the PIC, which clear its memory and   *)
(* may leave anything in a cell that was being programmed.                 *)

Program ==
  /\ nvm.wr
  /\ eeprom' = [eeprom EXCEPT ![nvm.adr] = nvm.dat]
  /\ nvm' = [nvm EXCEPT !.wr = FALSE]
  /\ UNCHANGED <<i2c_vars, timer_vars, had, msg_vars, ee_vars, main_vars,
                 unlock, host>>

PicReset ==
  /\ PicResets
  /\ \E x \in Byte :
       eeprom' = IF nvm.wr THEN [eeprom EXCEPT ![nvm.adr] = x] ELSE eeprom
  /\ nvm' = [nvm EXCEPT !.wr = FALSE, !.wrerr = @ \/ nvm.wr]
  /\ bus' = "off" /\ i2c_addr' = "none" /\ i2c_idx' = 0 /\ i2c_buf' = <<0, 0>>
  /\ sent' = <<>> /\ got' = <<>>
  /\ swdt' = 0 /\ rstcnt' = <<0, 0>> /\ held' = FALSE
  /\ had' = {}
  /\ mptr' = SIZE_MSG /\ msg' = [a \in Word |-> 0]
  /\ eeaddr' = 0 /\ eedata' = eeprom'[0] /\ eests' = EE_IDLE /\ order' = <<>>
  /\ pc' = "button" /\ work' = 0 /\ unlock' = FALSE
  /\ UNCHANGED host

Next == Interrupt \/ Main \/ HostReset \/ Program \/ PicReset

\* The loop never blocks, and the hardware ends every write that it starts.
Spec == Init /\ [][Next]_vars /\ WF_vars(Main) /\ WF_vars(Program)

-----------------------------------------------------------------------------
TypeOK ==
  /\ bus \in {"open", "closed", "off"}
  /\ host \in Hosts /\ i2c_addr \in host \cup {"none"}
  /\ i2c_idx \in 0..2
  /\ i2c_buf \in (Byte \cup Eests) \X (Byte \cup Eests)
  /\ sent \in Seq(Byte) /\ got \in Seq(Byte \cup Eests)
  /\ swdt \in Word
  /\ rstcnt \in Byte \X Byte
  /\ held \in BOOLEAN
  /\ had \subseteq Word
  /\ mptr \in Word
  /\ msg \in [Word -> Byte]
  /\ eeaddr \in Byte /\ eedata \in Byte
  /\ eests \in Eests /\ work \in Eests
  /\ pc \in {"button", "store", "carry", "swdt", "ee", "unlock", "started",
             "done"}
  /\ unlock \in BOOLEAN
  /\ nvm \in [wr : BOOLEAN, wrerr : BOOLEAN, adr : Byte, dat : Byte]
  /\ eeprom \in [Byte -> Byte]
  /\ order \in {<<>>} \cup (Byte \X Byte)

\* Properties.

\* The watchdog counts down, or takes the bytes of one complete I2C_SWDT_SET:
\* a transaction of fewer bytes is dropped, and the bytes of two transactions
\* are never mixed (Interrupt_ISR, i2c_idx).
SwdtSetWhole ==
  [][bus' = "open" /\ swdt' \notin {swdt, swdt - 1}
       => i2c_addr = "SWDT_SET" /\ Len(sent') = 2 /\ swdt' = Value(sent')]_vars

\* The two bytes of the watchdog that the host reads are a value it had while the
\* host read: i2c_start loads both at once, whatever the loop counts meanwhile.
SwdtReadWhole ==
  i2c_addr = "SWDT_GET" /\ Len(got) = 2 => Value(got) \in had

\* Only the cell of the last EE_WRITE that the PIC took ever changes.
EeOnlyOrdered ==
  [][\A a \in Byte :
       eeprom'[a] # eeprom[a] => order # <<>> /\ a = order[1]]_vars

\* When the status is idle again the last EE_WRITE is in the EEPROM, although
\* interrupts break the unlock sequence.
EeIdleMeansWritten ==
  eests = EE_IDLE /\ order # <<>> => eeprom[order[1]] = order[2]

\* pic-doc: an EE_WRITE is not taken while another one is under way.
EeBusyRefused == [][order' \notin {order, <<>>}
                       => eests \in {EE_IDLE, EE_ERROR}]_vars

\* The memory behind the message buffer is not written.
MsgInside == [][\A a \in Word : a >= SIZE_MSG => msg'[a] = msg[a]]_vars

\* Every write of the EEPROM comes to an end, whatever the host does meanwhile.
EeEnds == eests = EE_START ~> eests \in {EE_IDLE, EE_ERROR}
=============================================================================
