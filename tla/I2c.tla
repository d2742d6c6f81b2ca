-------------------------------- MODULE I2c ---------------------------------
(***************************************************************************)
(* The I2C driver of avrlib/i2c.c: the interrupt of the two-wire interface *)
(* (TWI), the calls that start a transfer for it, and the NI calls that    *)
(* work without it.  The interface's hardware and what is on the bus, a    *)
(* device and perhaps another master, are modelled from how the driver     *)
(* uses them: the interface does one operation, reports it in TWSR, sets   *)
(* TWINT and waits, holding the bus, for the next command in TWCR.         *)
(*                                                                         *)
(* A pending interrupt runs before the program's next instruction.  The    *)
(* program is one that is a master, a slave, or both; only a master calls  *)
(* the NI functions, and between transfers.  Bytes are pairs, of the       *)
(* transfer and the position in it.                                        *)
(***************************************************************************)
EXTENDS Integers, Sequences

CONSTANTS
  SendSize,     \* I2C_SEND_DATA_BUFFER_SIZE
  ReceiveSize,  \* I2C_RECEIVE_DATA_BUFFER_SIZE
  Roles,        \* a set of "master", "slave", "both"
  Lengths,      \* bytes a call transfers: the program minds the buffers' size
  LongestWrite, \* bytes another master writes to this node at most
  MaxTransfers  \* bound: how many transfers there are

ASSUME I2cAssumption ==
  /\ SendSize \in 1 .. 255 /\ ReceiveSize \in 1 .. 254
  /\ Roles \subseteq {"master", "slave", "both"}
  /\ Lengths \subseteq 1 .. SendSize /\ Lengths \subseteq 1 .. ReceiveSize
  /\ LongestWrite \in Nat /\ MaxTransfers \in Nat

VARIABLES
  I2cState, I2cDeviceAddrRW,
  I2cSendData, I2cSendDataIndex, I2cSendDataLength,
  I2cReceiveData, I2cReceiveDataIndex, I2cReceiveDataLength,
  role,         \* never changes
  pc, arg,      \* where the program is, and the length it passed last
  got,          \* the data a receiving call gave it
  left,         \* length in an NI call, counted down
  retval,       \* what an NI call returned
  twint, twie, twea, twsta, twsr, twdr,         \* the interface's registers
  mode,         \* what the interface is on the bus
  transfer,     \* ghost: the number of the last transfer
  wire          \* ghost: its bytes that crossed the bus and were acknowledged,
                \*        and when this node reads also the last one

send == <<I2cSendData, I2cSendDataIndex, I2cSendDataLength>>
receive == <<I2cReceiveData, I2cReceiveDataIndex, I2cReceiveDataLength>>
driver == <<I2cState, I2cDeviceAddrRW, send, receive>>
twcr == <<twint, twie, twea, twsta>>
twi == <<twcr, twsr, twdr, mode>>
program == <<role, pc, arg, got, left, retval>>
ghost == <<transfer, wire>>
vars == <<driver, twi, program, ghost>>

Byte == (0 .. MaxTransfers) \X Nat
Blank == <<0, 0>>

\* The device's address with the bit for writing or for reading; no payload has
\* transfer 0.
Write == <<0, 1>>
Read == <<0, 2>>

\* After i2cInit.
Init ==
  /\ I2cState = "IDLE" /\ I2cDeviceAddrRW = Write
  /\ I2cSendData = [i \in 0 .. SendSize - 1 |-> Blank]
  /\ I2cSendDataIndex = 0 /\ I2cSendDataLength = 0
  /\ I2cReceiveData = [i \in 0 .. ReceiveSize - 1 |-> Blank]
  /\ I2cReceiveDataIndex = 0 /\ I2cReceiveDataLength = 0
  /\ role \in Roles
  /\ pc = "idle" /\ arg = 0 /\ got = <<>> /\ left = 0 /\ retval = "none"
  /\ twint = FALSE /\ twie = TRUE /\ twea = TRUE /\ twsta = FALSE
  /\ twsr = "NO_INFO" /\ twdr = Blank
  /\ mode = "none"
  /\ transfer = 0 /\ wire = <<>>

-----------------------------------------------------------------------------
\* Writing TWCR.  Each write clears TWINT, which lets the interface go on, and
\* the bits that are not among its arguments.
Command(start, ack) == twint' = FALSE /\ twsta' = start /\ twea' = ack /\ UNCHANGED twie

i2cSendStart == Command(TRUE, FALSE) /\ UNCHANGED <<twdr, mode>>
i2cSendStop == Command(FALSE, TRUE) /\ mode' = "none" /\ UNCHANGED twdr
i2cSendByte(b) == Command(FALSE, FALSE) /\ twdr' = b /\ UNCHANGED mode
i2cReceiveByte(ack) == Command(FALSE, ack) /\ UNCHANGED <<twdr, mode>>

-----------------------------------------------------------------------------
\* The interface and the bus.

Report(status) == twint' = TRUE /\ twsr' = status /\ UNCHANGED <<twie, twea, twsta>>
Busy == ~twint
Payload(i) == <<transfer, i>>

\* The bus is free and the requested START goes out.
StartSent ==
  /\ Busy /\ mode = "none" /\ twsta
  /\ Report("START") /\ mode' = "master"
  /\ UNCHANGED <<twdr, wire>>

\* A device answers its address, or none does.
AddressSent ==
  /\ Busy /\ mode = "master" /\ twsr = "START"
  /\ \E status \in IF twdr = Write THEN {"MT_SLA_ACK", "MT_SLA_NACK"}
                                  ELSE {"MR_SLA_ACK", "MR_SLA_NACK"} : Report(status)
  /\ UNCHANGED <<twdr, mode, wire>>

\* The device takes a byte, or refuses it.
ByteSent ==
  /\ Busy /\ mode = "master" /\ twsr \in {"MT_SLA_ACK", "MT_DATA_ACK", "MT_DATA_NACK"}
  /\ \/ Report("MT_DATA_ACK") /\ wire' = Append(wire, twdr)
     \/ Report("MT_DATA_NACK") /\ UNCHANGED wire
  /\ UNCHANGED <<twdr, mode>>

\* The device sends a byte, which this node acknowledges or not.
ByteRead ==
  /\ Busy /\ mode = "master" /\ twsr \in {"MR_SLA_ACK", "MR_DATA_ACK"}
  /\ Report(IF twea THEN "MR_DATA_ACK" ELSE "MR_DATA_NACK")
  /\ twdr' = Payload(Len(wire) + 1) /\ wire' = Append(wire, twdr')
  /\ UNCHANGED mode

\* Another master that started at the same time wins, or a stray START or STOP
\* upsets the interface.
Disturbed ==
  /\ Busy /\ mode = "master"
  /\ \/ Report("ARB_LOST") /\ mode' = "none"
     \/ Report("BUS_ERROR") /\ UNCHANGED mode
  /\ UNCHANGED <<twdr, wire>>

\* A call that still waits has its transfer.
Reserved == IF pc \in {"sendWait", "receiveWait"} THEN 1 ELSE 0

\* Another master addresses this node, for writing or for reading.
Addressed ==
  /\ Busy /\ mode = "none" /\ twea /\ twie /\ role # "master"
  /\ transfer + Reserved < MaxTransfers /\ transfer' = transfer + 1 /\ wire' = <<>>
  /\ \/ Report("SR_SLA_ACK") /\ mode' = "slaveRx"
     \/ Report("ST_SLA_ACK") /\ mode' = "slaveTx"
  /\ UNCHANGED twdr

\* It writes a byte; not acknowledged, it ends the transfer, and this node is
\* not addressed any more.
ByteWritten ==
  /\ Busy /\ mode = "slaveRx" /\ Len(wire) < LongestWrite
  /\ twdr' = Payload(Len(wire) + 1)
  /\ IF twea THEN Report("SR_DATA_ACK") /\ wire' = Append(wire, twdr') /\ UNCHANGED mode
             ELSE Report("SR_DATA_NACK") /\ mode' = "none" /\ UNCHANGED wire

WriteEnds ==
  /\ Busy /\ mode = "slaveRx"
  /\ Report("SR_STOP") /\ mode' = "none"
  /\ UNCHANGED <<twdr, wire>>

\* It has read a byte, and wants another one or not.
ByteTaken ==
  /\ Busy /\ mode = "slaveTx"
  /\ wire' = Append(wire, twdr)
  /\ \/ Report("ST_DATA_NACK") /\ mode' = "none"
     \/ twea /\ Report("ST_DATA_ACK") /\ UNCHANGED mode
     \/ ~twea /\ Report("ST_LAST_DATA") /\ mode' = "none"
  /\ UNCHANGED twdr

\* What the interface does of itself, once it was told to.
Works == StartSent \/ AddressSent \/ ByteSent \/ ByteRead
\* What another master does; it ends a transfer that it began.
Other == (Works \/ Disturbed \/ ByteWritten \/ WriteEnds \/ ByteTaken) /\ UNCHANGED transfer

Hardware == (Other \/ Addressed) /\ UNCHANGED <<driver, program>>

-----------------------------------------------------------------------------
\* ISR(TWI_vect), by the status it reads.

Became(state) == I2cState' = state
Finished == i2cSendStop /\ Became("IDLE")

OnStart == twsr = "START" /\ i2cSendByte(I2cDeviceAddrRW) /\ UNCHANGED driver

\* (mutant: the last byte is not sent)
OnSendAck_short ==
  /\ twsr \in {"MT_SLA_ACK", "MT_DATA_ACK"}
  /\ IF I2cSendDataIndex + 1 < I2cSendDataLength
       THEN /\ i2cSendByte(I2cSendData[I2cSendDataIndex])
            /\ I2cSendDataIndex' = I2cSendDataIndex + 1
            /\ UNCHANGED I2cState
       ELSE Finished /\ UNCHANGED I2cSendDataIndex
  /\ UNCHANGED <<I2cDeviceAddrRW, I2cSendData, I2cSendDataLength, receive>>

\* (mutant: idle as soon as the last byte was handed over)
OnSendAck_early ==
  /\ twsr \in {"MT_SLA_ACK", "MT_DATA_ACK"}
  /\ IF I2cSendDataIndex < I2cSendDataLength
       THEN /\ i2cSendByte(I2cSendData[I2cSendDataIndex])
            /\ I2cSendDataIndex' = I2cSendDataIndex + 1
            /\ IF I2cSendDataIndex' = I2cSendDataLength THEN Became("IDLE") ELSE UNCHANGED I2cState
       ELSE Finished /\ UNCHANGED I2cSendDataIndex
  /\ UNCHANGED <<I2cDeviceAddrRW, I2cSendData, I2cSendDataLength, receive>>

OnSendAck ==
  /\ twsr \in {"MT_SLA_ACK", "MT_DATA_ACK"}
  /\ IF I2cSendDataIndex < I2cSendDataLength
       THEN /\ i2cSendByte(I2cSendData[I2cSendDataIndex])
            /\ I2cSendDataIndex' = I2cSendDataIndex + 1
            /\ UNCHANGED I2cState
       ELSE Finished /\ UNCHANGED I2cSendDataIndex
  /\ UNCHANGED <<I2cDeviceAddrRW, I2cSendData, I2cSendDataLength, receive>>

\* I2cReceiveData[I2cReceiveDataIndex++] = TWDR
Store ==
  /\ I2cReceiveData' = [I2cReceiveData EXCEPT ![I2cReceiveDataIndex] = twdr]
  /\ I2cReceiveDataIndex' = I2cReceiveDataIndex + 1
  /\ UNCHANGED I2cReceiveDataLength

OnReadNack ==
  /\ twsr = "MR_DATA_NACK"
  /\ Store /\ Finished
  /\ UNCHANGED <<I2cDeviceAddrRW, send>>

\* (mutant: a refused address leaves the transfer open)
OnNack_open ==
  /\ twsr \in {"MR_SLA_NACK", "MT_SLA_NACK", "MT_DATA_NACK"}
  /\ i2cSendStop /\ UNCHANGED driver

OnNack ==
  /\ twsr \in {"MR_SLA_NACK", "MT_SLA_NACK", "MT_DATA_NACK"}
  /\ Finished
  /\ UNCHANGED <<I2cDeviceAddrRW, send, receive>>

OnArbLost ==
  /\ twsr = "ARB_LOST"
  /\ i2cReceiveByte(FALSE) /\ Became("IDLE")
  /\ UNCHANGED <<I2cDeviceAddrRW, send, receive>>

\* (mutant: one byte too many is asked for)
OnReadAck_long ==
  /\ twsr \in {"MR_SLA_ACK", "MR_DATA_ACK"}
  /\ IF twsr = "MR_DATA_ACK" THEN Store ELSE UNCHANGED receive
  /\ i2cReceiveByte(I2cReceiveDataIndex' < I2cReceiveDataLength)
  /\ UNCHANGED <<I2cState, I2cDeviceAddrRW, send>>

OnReadAck ==
  /\ twsr \in {"MR_SLA_ACK", "MR_DATA_ACK"}
  /\ IF twsr = "MR_DATA_ACK" THEN Store ELSE UNCHANGED receive
  /\ i2cReceiveByte(I2cReceiveDataIndex' < I2cReceiveDataLength - 1)
  /\ UNCHANGED <<I2cState, I2cDeviceAddrRW, send>>

\* (mutant: the index of the last transfer is kept)
OnSlaveWrite_append ==
  /\ twsr = "SR_SLA_ACK"
  /\ Became("SLAVE_RX")
  /\ i2cReceiveByte(TRUE)
  /\ UNCHANGED <<I2cDeviceAddrRW, send, receive>>

OnSlaveWrite ==
  /\ twsr = "SR_SLA_ACK"
  /\ Became("SLAVE_RX")
  /\ I2cReceiveDataIndex' = 0
  /\ i2cReceiveByte(TRUE)
  /\ UNCHANGED <<I2cDeviceAddrRW, send, I2cReceiveData, I2cReceiveDataLength>>

\* (mutant: the byte that fills the buffer is acknowledged)
OnSlaveByte_late ==
  /\ twsr = "SR_DATA_ACK"
  /\ Store
  /\ i2cReceiveByte(I2cReceiveDataIndex' <= ReceiveSize)
  /\ UNCHANGED <<I2cState, I2cDeviceAddrRW, send>>

OnSlaveByte ==
  /\ twsr = "SR_DATA_ACK"
  /\ Store
  /\ i2cReceiveByte(I2cReceiveDataIndex' < ReceiveSize)
  /\ UNCHANGED <<I2cState, I2cDeviceAddrRW, send>>

OnSlaveRefused ==
  /\ twsr = "SR_DATA_NACK"
  /\ i2cReceiveByte(FALSE)
  /\ UNCHANGED driver

\* i2cSlaveReceive(I2cReceiveDataIndex, I2cReceiveData) runs here.
OnSlaveStop ==
  /\ twsr = "SR_STOP"
  /\ i2cReceiveByte(TRUE) /\ Became("IDLE")
  /\ UNCHANGED <<I2cDeviceAddrRW, send, receive>>

\* The byte at index i goes out; the last one expects a NACK.
\* (mutant: one byte too many is offered)
Transmit_long(data, i, length) ==
  /\ twdr' = data[i]
  /\ I2cSendDataIndex' = i + 1
  /\ Command(FALSE, i < length)
  /\ UNCHANGED mode

Transmit(data, i, length) ==
  /\ twdr' = data[i]
  /\ I2cSendDataIndex' = i + 1
  /\ Command(FALSE, i + 1 < length)
  /\ UNCHANGED mode

\* The user's handler puts length bytes in the buffer, perhaps none.
HandlerFills ==
  \E length \in Lengths \cup {0} :
    /\ I2cSendDataLength' = length
    /\ I2cSendData' = [i \in 0 .. SendSize - 1 |->
                         IF i < length THEN Payload(i + 1) ELSE I2cSendData[i]]

\* Without a handler, as i2cInit leaves it, the length is that of the last
\* transfer.  A first byte goes out in any case.
OnSlaveRead ==
  /\ twsr = "ST_SLA_ACK"
  /\ Became("SLAVE_TX")
  /\ HandlerFills \/ UNCHANGED <<I2cSendData, I2cSendDataLength>>
  /\ Transmit(I2cSendData', 0, I2cSendDataLength')
  /\ UNCHANGED <<I2cDeviceAddrRW, receive>>

OnSlaveSent ==
  /\ twsr = "ST_DATA_ACK"
  /\ Transmit(I2cSendData, I2cSendDataIndex, I2cSendDataLength)
  /\ UNCHANGED <<I2cState, I2cDeviceAddrRW, I2cSendData, I2cSendDataLength, receive>>

OnSlaveDone ==
  /\ twsr \in {"ST_DATA_NACK", "ST_LAST_DATA"}
  /\ i2cReceiveByte(TRUE) /\ Became("IDLE")
  /\ UNCHANGED <<I2cDeviceAddrRW, send, receive>>

OnBusError ==
  /\ twsr = "BUS_ERROR"
  /\ Finished
  /\ UNCHANGED <<I2cDeviceAddrRW, send, receive>>

TWI ==
  /\ twint /\ twie
  /\ \/ OnStart \/ OnSendAck \/ OnReadNack \/ OnNack \/ OnArbLost \/ OnReadAck
     \/ OnSlaveWrite \/ OnSlaveByte \/ OnSlaveRefused \/ OnSlaveStop
     \/ OnSlaveRead \/ OnSlaveSent \/ OnSlaveDone \/ OnBusError
  /\ UNCHANGED <<twsr, program, ghost>>

-----------------------------------------------------------------------------
\* The program.  A pending interrupt runs before its next instruction.

Runs == ~(twint /\ twie)
Goto(label) == pc' = label
At(label) == Runs /\ pc = label
NewTransfer(length) ==
  /\ transfer' = transfer + 1 /\ wire' = <<>>
  /\ arg' = length /\ left' = length /\ got' = <<>> /\ retval' = "none"

\* A call begins; both interrupt-driven ones wait for I2cState first.
Call ==
  /\ At("idle") /\ role # "slave" /\ transfer < MaxTransfers
  /\ \/ Goto("sendWait") /\ UNCHANGED <<arg, got, left, retval, ghost>>
     \/ Goto("receiveWait") /\ UNCHANGED <<arg, got, left, retval, ghost>>
     \/ /\ role = "master" /\ I2cState = "IDLE"
        /\ Goto("niDisable") /\ \E length \in Lengths : NewTransfer(length)
  /\ UNCHANGED <<driver, twi, role>>

\* while (I2cState);
Ready(label, next) ==
  /\ At(label) /\ I2cState = "IDLE"
  /\ Goto(next) /\ \E length \in Lengths : NewTransfer(length)
  /\ UNCHANGED <<driver, twi, role>>

Step(label, next) == At(label) /\ Goto(next) /\ UNCHANGED <<role, arg, left, retval, ghost>>

SendState ==
  /\ Step("sendState", "sendCopy")
  /\ Became("MASTER_TX")
  /\ UNCHANGED <<I2cDeviceAddrRW, send, receive, twi, got>>

SendCopy ==
  /\ Step("sendCopy", "sendIndex")
  /\ I2cDeviceAddrRW' = Write
  /\ I2cSendData' = [i \in 0 .. SendSize - 1 |-> IF i < arg THEN Payload(i + 1) ELSE I2cSendData[i]]
  /\ UNCHANGED <<I2cState, I2cSendDataIndex, I2cSendDataLength, receive, twi, got>>

SendIndex ==
  /\ Step("sendIndex", "sendLength")
  /\ I2cSendDataIndex' = 0
  /\ UNCHANGED <<I2cState, I2cDeviceAddrRW, I2cSendData, I2cSendDataLength, receive, twi, got>>

SendLength ==
  /\ Step("sendLength", "sendStart")
  /\ I2cSendDataLength' = arg
  /\ UNCHANGED <<I2cState, I2cDeviceAddrRW, I2cSendData, I2cSendDataIndex, receive, twi, got>>

Start(label, next) ==
  /\ Step(label, next)
  /\ i2cSendStart
  /\ UNCHANGED <<driver, twsr, got>>

i2cMasterSend ==
  \/ Ready("sendWait", "sendState")
  \/ SendState \/ SendCopy \/ SendIndex \/ SendLength
  \/ Start("sendStart", "idle")

ReceiveState ==
  /\ Step("receiveState", "receiveIndex")
  /\ Became("MASTER_RX") /\ I2cDeviceAddrRW' = Read
  /\ UNCHANGED <<send, receive, twi, got>>

ReceiveIndex ==
  /\ Step("receiveIndex", "receiveLength")
  /\ I2cReceiveDataIndex' = 0
  /\ UNCHANGED <<I2cState, I2cDeviceAddrRW, send, I2cReceiveData, I2cReceiveDataLength, twi, got>>

ReceiveLength ==
  /\ Step("receiveLength", "receiveStart")
  /\ I2cReceiveDataLength' = arg
  /\ UNCHANGED <<I2cState, I2cDeviceAddrRW, send, I2cReceiveData, I2cReceiveDataIndex, twi, got>>

\* while (I2cState); then the bytes are copied out.
ReceiveReturn ==
  /\ Step("receiveData", "idle") /\ I2cState = "IDLE"
  /\ got' = [i \in 1 .. arg |-> I2cReceiveData[i - 1]]
  /\ UNCHANGED <<driver, twi>>

i2cMasterReceive ==
  \/ Ready("receiveWait", "receiveState")
  \/ ReceiveState \/ ReceiveIndex \/ ReceiveLength
  \/ Start("receiveStart", "receiveData") \/ ReceiveReturn

\* The NI calls: the interrupt is off, and each operation is waited for.
NiDisable ==
  /\ Step("niDisable", "niStart") /\ twie' = FALSE
  /\ UNCHANGED <<driver, twint, twea, twsta, twsr, twdr, mode, got>>

\* i2cWaitForComplete
Complete(label) == At(label) /\ twint

NiAddress ==
  /\ Complete("niAddress")
  /\ \/ i2cSendByte(Write) /\ Goto("niSend")
     \/ i2cSendByte(Read) /\ Goto("niReceive")
  /\ UNCHANGED <<driver, twsr, role, arg, got, left, retval, ghost>>

NiStop(result) ==
  /\ i2cSendStop /\ Goto("niEnable")
  /\ retval' = result /\ UNCHANGED <<got, left>>

NiSendByte ==
  /\ left > 0 /\ i2cSendByte(Payload(arg - left + 1))
  /\ Goto("niSendData") /\ left' = left - 1 /\ UNCHANGED <<got, retval>>

\* Only the address's acknowledgement is looked at.
NiSend ==
  \/ Complete("niSend") /\ twsr # "MT_SLA_ACK" /\ NiStop("NODEV")
  \/ /\ Complete("niSendData") \/ (Complete("niSend") /\ twsr = "MT_SLA_ACK")
     /\ NiSendByte \/ (left = 0 /\ NiStop("OK"))

\* All bytes but the last one are acknowledged.
NiAskByte ==
  /\ i2cReceiveByte(left > 1) /\ Goto("niReceiveData")
  /\ UNCHANGED <<got, left, retval>>

NiReceive ==
  \/ /\ Complete("niReceive")
     /\ IF twsr = "MR_SLA_ACK" THEN NiAskByte ELSE NiStop("NODEV")
  \/ /\ Complete("niReceiveData")
     /\ got' = Append(got, twdr) /\ left' = left - 1
     /\ Goto(IF left > 1 THEN "niReceiveNext" ELSE "niReceiveStop")
     /\ UNCHANGED <<retval, twcr, twdr, mode>>
  \/ At("niReceiveNext") /\ NiAskByte
  \/ At("niReceiveStop") /\ NiStop("OK")

NiEnable ==
  /\ Step("niEnable", "idle") /\ twie' = TRUE
  /\ UNCHANGED <<driver, twint, twea, twsta, twsr, twdr, mode, got>>

\* i2cMasterSendNI and i2cMasterReceiveNI
NonInterrupt ==
  \/ NiDisable \/ Start("niStart", "niAddress") \/ NiAddress
  \/ (NiSend \/ NiReceive) /\ UNCHANGED <<driver, twsr, role, arg, ghost>>
  \/ NiEnable

Program == i2cMasterSend \/ i2cMasterReceive \/ NonInterrupt

-----------------------------------------------------------------------------
Next == Hardware \/ TWI \/ Call \/ Program

\* The processor runs the interrupt and the program, the interface does what it
\* was told to, and a master that began a transfer ends it; it may always stop
\* reading or writing.
Fairness ==
  /\ WF_vars(TWI) /\ WF_vars(Program)
  /\ WF_vars(Works /\ UNCHANGED <<driver, program, transfer>>)
  /\ WF_vars((WriteEnds \/ ByteTaken) /\ UNCHANGED <<driver, program, transfer>>)

Spec == Init /\ [][Next]_vars /\ Fairness

-----------------------------------------------------------------------------
\* Every variable has its type; the indices, which the interrupt uses without
\* testing them, never pass the end of their buffers (i2c.c:303, 320, 353, 395,
\* 455).
TypeOK ==
  /\ I2cState \in {"IDLE", "MASTER_TX", "MASTER_RX", "SLAVE_TX", "SLAVE_RX"}
  /\ I2cDeviceAddrRW \in {Write, Read}
  /\ I2cSendData \in [0 .. SendSize - 1 -> Byte]
  /\ I2cSendDataIndex \in 0 .. SendSize /\ I2cSendDataLength \in 0 .. SendSize
  /\ I2cReceiveData \in [0 .. ReceiveSize - 1 -> Byte]
  /\ I2cReceiveDataIndex \in 0 .. ReceiveSize /\ I2cReceiveDataLength \in 0 .. ReceiveSize
  /\ role \in Roles /\ arg \in Nat /\ left \in 0 .. arg /\ retval \in {"none", "OK", "NODEV"}
  /\ got \in Seq(Byte) /\ wire \in Seq(Byte) /\ transfer \in 0 .. MaxTransfers
  /\ {twint, twie, twea, twsta} \subseteq BOOLEAN /\ twdr \in Byte
  /\ mode \in {"none", "master", "slaveRx", "slaveTx"}

InOrder(s) == \A i \in DOMAIN s : s[i] = Payload(i)
NI == {"niStart", "niAddress", "niSend", "niSendData", "niReceive",
       "niReceiveData", "niReceiveNext", "niReceiveStop"}
Between == {"idle", "sendWait", "receiveWait"}

\* When the last thing that i2cMasterSend's transfer met was an acknowledged
\* byte, the device got all the bytes of the call, each once and in order
\* (i2c.c:147-153, 300-311).
SendComplete ==
  role = "master" /\ I2cState = "IDLE" /\ pc \in Between
    /\ I2cDeviceAddrRW = Write /\ twsr = "MT_DATA_ACK" /\ retval = "none"
    => Len(wire) = arg /\ InOrder(wire)

\* A master that talks to a device alone owns the bus exactly while I2cState or
\* an NI call says so: no call starts on a bus still in use (i2c.c:142-145, 159-162).
IdleMeansFree ==
  role = "master" /\ I2cState = "IDLE" /\ pc \notin NI
    => mode = "none" /\ ~twsta /\ ~twint

\* Undisturbed, i2cMasterReceive and i2cMasterReceiveNI give the program exactly
\* the bytes that it asked for, and the device was told to send no more
\* (i2c.c:240-252, 313-367).
ReceiveReturns ==
  role = "master" /\ pc = "idle" /\ I2cState = "IDLE" /\ twsr = "MR_DATA_NACK"
    => got = wire /\ Len(wire) = arg /\ InOrder(wire)

\* What i2cSlaveReceive is given is what the other master was acknowledged:
\* nothing older, nothing lost, however long the write was (i2c.c:382-406, 427).
HandlerGetsWrite ==
  role = "slave" /\ twint /\ twsr = "SR_STOP"
    => /\ I2cReceiveDataIndex = Len(wire)
       /\ \A i \in 1 .. Len(wire) : I2cReceiveData[i - 1] = Payload(i)

\* Another master that reads gets the bytes of the buffer in order.  If the
\* handler gave some, it gets those and none of an earlier transfer behind the
\* last one; without a handler, or if it gave none, old bytes go out: one, or as
\* many as the last length says (i2c.c:444-461).
Answered == I2cSendData[0] = Payload(1)
ReadGetsHandlersBytes ==
  role = "slave" /\ I2cState = "SLAVE_TX" =>
    /\ \A i \in DOMAIN wire : wire[i] = I2cSendData[i - 1]
    /\ Answered => InOrder(wire)
    /\ Len(wire) <= IF I2cSendDataLength = 0 THEN 1 ELSE I2cSendDataLength

\* Every call of a program that is a master returns, whatever the device refuses
\* and whether or not arbitration is lost, unless an NI call that has passed its
\* address is disturbed: it waits for an operation that nobody does (i2c.c:143,
\* 160, 170, 195-200, 240-252).
Stuck == pc \in {"niSendData", "niReceiveData"} /\ twsr \in {"ARB_LOST", "BUS_ERROR"}
CallsReturn == role # "slave" => (pc # "idle" ~> (pc = "idle" \/ Stuck))

\* "wait for interface to be ready" (i2c.c:142, 159): the interface gets ready,
\* again and again.
BecomesReady == []<>(I2cState = "IDLE")

=============================================================================
