------------------------------ MODULE I2cProofs -----------------------------
(***************************************************************************)
(* Proofs about the I2C driver in a program of one role: its types, what a *)
(* slave's handlers are given and send, that an idle master has left the   *)
(* bus free, that i2cMasterSend sends what it was given and that a read    *)
(* returns what the device sent, for every size of the buffers and number  *)
(* of transfers.                                                           *)
(***************************************************************************)
EXTENDS I2c, TLAPS

\* The role is set once.
LEMMA RoleStays == [Next]_vars => role' = role
BY DEF Next, Hardware, TWI, Call, Program, i2cMasterSend, i2cMasterReceive, NonInterrupt,
       vars, program, Ready, Step, Start, SendState, SendCopy, SendIndex, SendLength,
       ReceiveState, ReceiveIndex, ReceiveLength, ReceiveReturn, NiDisable, NiAddress, NiEnable

-----------------------------------------------------------------------------
\* The node as a slave.

\* The first n bytes of the transfer are in the receive buffer; the bytes of a
\* handler that gave some are in the send buffer, and those on the wire from there.
Stored(n) == \A i \in 1 .. n : I2cReceiveData[i - 1] = Payload(i)
Filled == Answered => \A i \in 0 .. I2cSendDataLength - 1 : I2cSendData[i] = Payload(i + 1)
WireOrdered == \A i \in 1 .. Len(wire) : wire[i] = I2cSendData[i - 1]
Most == IF I2cSendDataLength = 0 THEN 1 ELSE I2cSendDataLength

SlaveTypes ==
  /\ I2cState \in {"IDLE", "SLAVE_RX", "SLAVE_TX"}
  /\ I2cSendData \in [0 .. SendSize - 1 -> Byte]
  /\ I2cSendDataIndex \in 0 .. SendSize /\ I2cSendDataLength \in 0 .. SendSize
  /\ I2cReceiveData \in [0 .. ReceiveSize - 1 -> Byte]
  /\ I2cReceiveDataIndex \in 0 .. ReceiveSize
  /\ wire \in Seq(Byte) /\ transfer \in 0 .. MaxTransfers
  /\ twdr \in Byte /\ twint \in BOOLEAN /\ twea \in BOOLEAN
  /\ mode \in {"none", "slaveRx", "slaveTx"}
  /\ I2cSendData[0][1] <= transfer

\* What the interface was told to do next.
Told ==
  /\ mode = "none" => I2cState # "SLAVE_TX"
  /\ mode = "slaveRx" =>
       /\ I2cState # "SLAVE_TX"
       /\ I2cReceiveDataIndex = Len(wire) /\ Stored(Len(wire))
       /\ twea => Len(wire) < ReceiveSize
  /\ mode = "slaveTx" =>
       /\ I2cSendDataIndex = Len(wire) + 1 /\ I2cSendDataIndex <= Most
       /\ twea => I2cSendDataIndex < I2cSendDataLength
       /\ twdr = I2cSendData[Len(wire)] /\ WireOrdered /\ Filled

\* What it reports, and what the interrupt has not done yet.
Reported ==
  \/ twsr = "SR_SLA_ACK" /\ mode = "slaveRx" /\ wire = <<>> /\ I2cState # "SLAVE_TX"
  \/ /\ twsr = "SR_DATA_ACK" /\ mode = "slaveRx" /\ I2cState # "SLAVE_TX"
     /\ I2cReceiveDataIndex = Len(wire) - 1 /\ I2cReceiveDataIndex < ReceiveSize
     /\ Stored(Len(wire) - 1) /\ twdr = Payload(Len(wire))
  \/ twsr = "SR_DATA_NACK" /\ mode = "none" /\ I2cState # "SLAVE_TX"
  \/ /\ twsr = "SR_STOP" /\ mode = "none" /\ I2cState # "SLAVE_TX"
     /\ I2cReceiveDataIndex = Len(wire) /\ Stored(Len(wire))
  \/ /\ twsr = "ST_SLA_ACK" /\ mode = "slaveTx" /\ wire = <<>> /\ I2cState # "SLAVE_TX"
     /\ I2cSendData[0][1] < transfer
  \/ /\ twsr = "ST_DATA_ACK" /\ mode = "slaveTx" /\ WireOrdered /\ Filled
     /\ I2cSendDataIndex = Len(wire) /\ I2cSendDataIndex < I2cSendDataLength
  \/ /\ twsr \in {"ST_DATA_NACK", "ST_LAST_DATA"} /\ mode = "none"
     /\ WireOrdered /\ Filled /\ Len(wire) <= Most

\* The inductive invariant: the program only waits.
SlaveInv ==
  /\ SlaveTypes
  /\ pc = "idle" /\ twie = TRUE /\ twsta = FALSE
  /\ IF twint THEN Reported ELSE Told

LEMMA SizesOK ==
  /\ SendSize \in Nat \ {0} /\ ReceiveSize \in Nat \ {0}
  /\ Lengths \subseteq 1 .. SendSize /\ Lengths \subseteq 1 .. ReceiveSize
  /\ LongestWrite \in Nat /\ MaxTransfers \in Nat
BY I2cAssumption

LEMMA SlaveInit == Init => SlaveInv
<1> SUFFICES ASSUME Init PROVE SlaveInv
  OBVIOUS
<1>1. Blank \in Byte
  BY SizesOK DEF Blank, Byte
<1>2. /\ I2cSendData \in [0 .. SendSize - 1 -> Byte]
      /\ I2cReceiveData \in [0 .. ReceiveSize - 1 -> Byte]
  BY <1>1 DEF Init
<1>3. SlaveTypes
  <2>1. transfer \in 0 .. MaxTransfers /\ twdr \in Byte
    BY <1>1, SizesOK DEF Init
  <2>2. wire \in Seq(Byte)
    BY DEF Init
  <2>3. /\ I2cState = "IDLE" /\ I2cSendDataIndex = 0 /\ I2cSendDataLength = 0
        /\ I2cReceiveDataIndex = 0 /\ twint \in BOOLEAN /\ twea \in BOOLEAN /\ mode = "none"
    BY DEF Init
  <2>4. I2cSendData[0][1] <= transfer
    BY SizesOK DEF Init, Blank
  <2> QED
    BY <1>2, <2>1, <2>2, <2>3, <2>4, SizesOK DEF SlaveTypes
<1> QED
  BY <1>3 DEF Init, SlaveInv, Told

\* A command that acknowledges only under a test.
LEMMA CommandTests ==
  ASSUME NEW a, NEW b, Command(FALSE, a < b)
  PROVE  /\ twint' = FALSE /\ twsta' = FALSE /\ twie' = twie
         /\ twea' \in BOOLEAN /\ (twea' => a < b) /\ (~twea' => ~(a < b))
<1>1. twint' = FALSE /\ twsta' = FALSE /\ twie' = twie
  BY DEF Command
<1>2. twea' = (a < b)
  BY Zenon DEF Command
<1>3. twea' \in BOOLEAN
  BY <1>2, SMT
<1>4. (twea' => a < b) /\ (~twea' => ~(a < b))
  BY <1>2, Zenon
<1> QED
  BY <1>1, <1>3, <1>4

\* The bytes on the wire, with one more.
LEMMA WireGrows ==
  ASSUME wire \in Seq(Byte), transfer \in 0 .. MaxTransfers, NEW b \in Byte,
         wire' = Append(wire, b)
  PROVE  /\ wire' \in Seq(Byte) /\ Len(wire') = Len(wire) + 1 /\ Len(wire) \in Nat
         /\ \A i \in 1 .. Len(wire) : wire'[i] = wire[i]
         /\ wire'[Len(wire) + 1] = b
OBVIOUS

LEMMA PayloadType ==
  ASSUME transfer \in 0 .. MaxTransfers, NEW n \in Nat PROVE Payload(n) \in Byte
BY DEF Payload, Byte

\* The interface and the other master.
LEMMA SlaveHardware == role = "slave" /\ SlaveInv /\ Hardware => SlaveInv'
<1> SUFFICES ASSUME role = "slave", SlaveInv, Hardware PROVE SlaveInv'
  OBVIOUS
<1> USE SizesOK
<1>1. UNCHANGED <<driver, program>>
  BY DEF Hardware
<1>2. /\ UNCHANGED <<I2cState, I2cSendData, I2cSendDataIndex, I2cSendDataLength,
                     I2cReceiveData, I2cReceiveDataIndex, pc>>
      /\ SlaveTypes /\ Len(wire) \in Nat
  BY <1>1 DEF driver, send, receive, program, SlaveInv, SlaveTypes
<1>3. CASE Addressed
  <2>1. ~twint /\ mode = "none" /\ I2cState # "SLAVE_TX"
    BY <1>3 DEF Addressed, Busy, SlaveInv, SlaveTypes, Told
  <2>2. transfer' \in 0 .. MaxTransfers /\ wire' = <<>> /\ wire' \in Seq(Byte) /\ twdr' = twdr
        /\ twint' = TRUE /\ UNCHANGED <<twie, twea, twsta>> /\ transfer' = transfer + 1
        /\ (\/ twsr' = "SR_SLA_ACK" /\ mode' = "slaveRx"
            \/ twsr' = "ST_SLA_ACK" /\ mode' = "slaveTx")
    <3>1. transfer + Reserved < MaxTransfers /\ transfer' = transfer + 1
      BY <1>3 DEF Addressed
    <3>2. transfer' \in 0 .. MaxTransfers
      BY <1>2, <3>1 DEF SlaveTypes, Reserved
    <3>3. /\ wire' = <<>> /\ twdr' = twdr /\ twint' = TRUE /\ UNCHANGED <<twie, twea, twsta>>
          /\ (\/ twsr' = "SR_SLA_ACK" /\ mode' = "slaveRx"
              \/ twsr' = "ST_SLA_ACK" /\ mode' = "slaveTx")
      BY <1>3 DEF Addressed, Report
    <3> QED
      BY <3>1, <3>2, <3>3
  <2>3. I2cSendData'[0][1] < transfer'
    <3>1. I2cSendData[0] \in Byte /\ transfer \in Nat
      BY <1>2 DEF SlaveTypes
    <3> QED
      BY <1>2, <2>2, <3>1 DEF SlaveTypes, Byte
  <2>4. I2cSendData'[0][1] <= transfer'
    <3>1. I2cSendData'[0] \in Byte /\ transfer' \in Nat
      BY <1>2, <2>2 DEF SlaveTypes
    <3> QED
      BY <2>3, <3>1 DEF Byte
  <2>5. SlaveTypes'
    BY <1>2, <2>2, <2>4 DEF SlaveTypes
  <2> QED
    BY <1>2, <2>1, <2>2, <2>3, <2>5 DEF SlaveInv, Reported
<1>4. CASE Works \/ Disturbed
  BY <1>4 DEF Works, Disturbed, StartSent, AddressSent, ByteSent, ByteRead, SlaveInv, SlaveTypes
<1>5. ASSUME ByteWritten, UNCHANGED transfer PROVE SlaveInv'
  <2>1. ~twint /\ mode = "slaveRx" /\ Told
    BY <1>5 DEF ByteWritten, Busy, SlaveInv, SlaveTypes
  <2>2. twdr' = Payload(Len(wire) + 1) /\ twdr' \in Byte
    BY <1>2, <1>5, PayloadType DEF ByteWritten, SlaveTypes
  <2>3. CASE twea
    <3>1. /\ twsr' = "SR_DATA_ACK" /\ twint' = TRUE /\ UNCHANGED <<twie, twea, twsta, mode>>
          /\ wire' = Append(wire, twdr')
      BY <1>5, <2>3 DEF ByteWritten, Report
    <3>2. wire' \in Seq(Byte) /\ Len(wire') = Len(wire) + 1
      BY <1>2, <2>2, <3>1 DEF SlaveTypes
    <3>3. SlaveTypes'
      BY <1>2, <1>5, <2>2, <3>1, <3>2 DEF SlaveTypes
    <3>4. \A i \in 1 .. Len(wire) : I2cReceiveData'[i - 1] = <<transfer', i>>
      BY <1>2, <1>5, <2>1 DEF Told, Stored, Payload
    <3>5. Reported'
      BY <1>2, <1>5, <2>1, <2>2, <2>3, <3>1, <3>2, <3>4 DEF Told, Reported, Payload, Stored
    <3> QED
      BY <1>2, <3>1, <3>3, <3>5 DEF SlaveInv
  <2>4. CASE ~twea
    <3>1. /\ twsr' = "SR_DATA_NACK" /\ twint' = TRUE /\ UNCHANGED <<twie, twea, twsta, wire>>
          /\ mode' = "none"
      BY <1>5, <2>4 DEF ByteWritten, Report
    <3>2. SlaveTypes'
      BY <1>2, <1>5, <2>2, <3>1 DEF SlaveTypes
    <3> QED
      BY <1>2, <2>1, <3>1, <3>2 DEF SlaveInv, Told, Reported
  <2> QED
    BY <2>3, <2>4
<1>6. ASSUME WriteEnds, UNCHANGED transfer PROVE SlaveInv'
  <2>1. ~twint /\ mode = "slaveRx" /\ Told
    BY <1>6 DEF WriteEnds, Busy, SlaveInv, SlaveTypes
  <2>2. /\ twsr' = "SR_STOP" /\ mode' = "none" /\ twint' = TRUE
        /\ UNCHANGED <<twie, twea, twsta, twdr, wire>>
    BY <1>6 DEF WriteEnds, Report
  <2>3. SlaveTypes'
    BY <1>2, <1>6, <2>2 DEF SlaveTypes
  <2>4. Reported'
    BY <1>2, <1>6, <2>1, <2>2 DEF Told, Reported, Stored, Payload
  <2> QED
    BY <1>2, <2>2, <2>3, <2>4 DEF SlaveInv
<1>7. ASSUME ByteTaken, UNCHANGED transfer PROVE SlaveInv'
  <2>1. ~twint /\ mode = "slaveTx" /\ Told
    BY <1>7 DEF ByteTaken, Busy, SlaveInv, SlaveTypes
  <2>2. /\ twint' = TRUE /\ UNCHANGED <<twie, twea, twsta, twdr>> /\ wire' = Append(wire, twdr)
        /\ \/ twsr' \in {"ST_DATA_NACK", "ST_LAST_DATA"} /\ mode' = "none"
           \/ twsr' = "ST_DATA_ACK" /\ mode' = mode /\ twea
    BY <1>7 DEF ByteTaken, Report
  <2>3. /\ wire' \in Seq(Byte) /\ Len(wire') = Len(wire) + 1
        /\ \A i \in 1 .. Len(wire) : wire'[i] = wire[i]
        /\ wire'[Len(wire) + 1] = twdr
    BY <1>2, <2>2, WireGrows DEF SlaveTypes
  <2>4. SlaveTypes'
    BY <1>2, <1>7, <2>2, <2>3 DEF SlaveTypes
  <2>5. WireOrdered'
    BY <1>2, <1>7, <2>1, <2>3 DEF Told, WireOrdered
  <2>6. Filled'
    BY <1>2, <1>7, <2>1 DEF Told, Filled, Answered, Payload
  <2>7. Reported'
    BY <1>2, <2>1, <2>2, <2>3, <2>5, <2>6 DEF Told, Reported, Most
  <2> QED
    BY <1>2, <2>2, <2>4, <2>7 DEF SlaveInv
<1> QED
  BY <1>3, <1>4, <1>5, <1>6, <1>7 DEF Hardware, Other

\* The interrupt.
LEMMA SlaveTWI == role = "slave" /\ SlaveInv /\ TWI => SlaveInv'
<1> SUFFICES ASSUME role = "slave", SlaveInv, TWI PROVE SlaveInv'
  OBVIOUS
<1> USE SizesOK
<1>1. /\ twint = TRUE /\ Reported /\ SlaveTypes /\ Len(wire) \in Nat
      /\ UNCHANGED <<twsr, pc, transfer, wire>>
  BY DEF TWI, SlaveInv, SlaveTypes, program, ghost
<1>2. ASSUME NEW ack \in BOOLEAN, i2cReceiveByte(ack)
      PROVE  /\ UNCHANGED <<twdr, mode, twie>> /\ twint' = FALSE /\ twsta' = FALSE /\ twea' = ack
  BY <1>2 DEF i2cReceiveByte, Command
<1>3. CASE OnSlaveWrite
  <2>1. mode = "slaveRx" /\ wire = <<>>
    BY <1>1, <1>3 DEF OnSlaveWrite, Reported
  <2>2. /\ UNCHANGED <<twdr, mode, twie>> /\ twint' = FALSE /\ twsta' = FALSE /\ twea' = TRUE
    BY <1>2, <1>3 DEF OnSlaveWrite
  <2>3. /\ I2cState' = "SLAVE_RX" /\ I2cReceiveDataIndex' = 0
        /\ UNCHANGED <<send, I2cReceiveData>>
    BY <1>3 DEF OnSlaveWrite, Became
  <2>4. SlaveTypes'
    <3>1. I2cReceiveDataIndex' \in 0 .. ReceiveSize
      BY <2>3
    <3>2. twint' \in BOOLEAN /\ twea' \in BOOLEAN /\ UNCHANGED <<twdr, mode, wire, transfer>>
      BY <1>1, <2>2
    <3>3. /\ I2cState' = "SLAVE_RX"
          /\ UNCHANGED <<I2cSendData, I2cSendDataIndex, I2cSendDataLength, I2cReceiveData>>
      BY <2>3 DEF send
    <3> QED
      BY ONLY <1>1, <3>1, <3>2, <3>3 DEF SlaveTypes
  <2>5. Told'
    BY <1>1, <2>1, <2>2, <2>3 DEF Told, Stored
  <2> QED
    BY <1>1, <2>2, <2>4, <2>5 DEF SlaveInv
<1>4. CASE OnSlaveByte
  <2>1. /\ mode = "slaveRx" /\ I2cState # "SLAVE_TX"
        /\ I2cReceiveDataIndex = Len(wire) - 1 /\ I2cReceiveDataIndex < ReceiveSize
        /\ Stored(Len(wire) - 1) /\ twdr = Payload(Len(wire))
    BY <1>1, <1>4 DEF OnSlaveByte, Reported
  <2>2. /\ I2cReceiveData' = [I2cReceiveData EXCEPT ![I2cReceiveDataIndex] = twdr]
        /\ I2cReceiveDataIndex' = I2cReceiveDataIndex + 1
        /\ UNCHANGED <<I2cState, send>>
    BY <1>4 DEF OnSlaveByte, Store
  <2>3. /\ UNCHANGED <<twdr, mode, twie>> /\ twint' = FALSE /\ twsta' = FALSE
        /\ twea' \in BOOLEAN /\ (twea' => I2cReceiveDataIndex' < ReceiveSize)
    <3>1. /\ Command(FALSE, I2cReceiveDataIndex' < ReceiveSize)
          /\ UNCHANGED <<twdr, mode>>
      BY <1>4, Zenon DEF OnSlaveByte, i2cReceiveByte
    <3> QED
      BY <3>1, CommandTests
  <2>4. SlaveTypes'
    <3>1. I2cReceiveData' \in [0 .. ReceiveSize - 1 -> Byte]
      BY <1>1, <2>2 DEF SlaveTypes
    <3>2. I2cReceiveDataIndex' \in 0 .. ReceiveSize
      BY <1>1, <2>1, <2>2 DEF SlaveTypes
    <3>3. twint' \in BOOLEAN /\ twea' \in BOOLEAN /\ UNCHANGED <<twdr, mode, wire, transfer>>
      BY <1>1, <2>3
    <3>4. UNCHANGED <<I2cState, I2cSendData, I2cSendDataIndex, I2cSendDataLength>>
      BY <2>2 DEF send
    <3> QED
      BY ONLY <1>1, <3>1, <3>2, <3>3, <3>4 DEF SlaveTypes
  <2>5. \A i \in 1 .. Len(wire) : I2cReceiveData'[i - 1] = <<transfer, i>>
    <3> SUFFICES ASSUME NEW i \in 1 .. Len(wire)
                 PROVE  I2cReceiveData'[i - 1] = <<transfer, i>>
      OBVIOUS
    <3>1. CASE i = Len(wire)
      BY <1>1, <2>1, <2>2, <3>1 DEF SlaveTypes, Payload
    <3>2. CASE i # Len(wire)
      BY <1>1, <2>1, <2>2, <3>2 DEF SlaveTypes, Payload, Stored
    <3> QED
      BY <3>1, <3>2
  <2>6. Told'
    BY <1>1, <2>1, <2>2, <2>3, <2>5 DEF Told, Stored, Payload
  <2> QED
    BY <1>1, <2>3, <2>4, <2>6 DEF SlaveInv
<1>5. CASE OnSlaveRefused
  <2>1. mode = "none" /\ I2cState # "SLAVE_TX"
    BY <1>1, <1>5 DEF OnSlaveRefused, Reported
  <2>2. /\ UNCHANGED <<twdr, mode, twie>> /\ twint' = FALSE /\ twsta' = FALSE /\ twea' = FALSE
        /\ UNCHANGED driver
    BY <1>2, <1>5 DEF OnSlaveRefused
  <2>3. SlaveTypes'
    BY <1>1, <2>2 DEF SlaveTypes, driver, send, receive
  <2> QED
    BY <1>1, <2>1, <2>2, <2>3 DEF SlaveInv, Told, driver
<1>6. CASE OnSlaveStop \/ OnSlaveDone
  <2>1. mode = "none"
    BY <1>1, <1>6 DEF OnSlaveStop, OnSlaveDone, Reported
  <2>2. /\ UNCHANGED <<twdr, mode, twie>> /\ twint' = FALSE /\ twsta' = FALSE /\ twea' = TRUE
        /\ I2cState' = "IDLE" /\ UNCHANGED <<send, receive>>
    BY <1>2, <1>6 DEF OnSlaveStop, OnSlaveDone, Became
  <2>3. SlaveTypes'
    BY <1>1, <2>2 DEF SlaveTypes, send, receive
  <2> QED
    BY <1>1, <2>1, <2>2, <2>3 DEF SlaveInv, Told
<1>7. CASE OnSlaveRead
  <2>1. mode = "slaveTx" /\ wire = <<>> /\ I2cSendData[0][1] < transfer
    BY <1>1, <1>7 DEF OnSlaveRead, Reported
  <2>2. /\ twdr' = I2cSendData'[0] /\ I2cSendDataIndex' = 1 /\ UNCHANGED <<mode, twie>>
        /\ twint' = FALSE /\ twsta' = FALSE /\ twea' \in BOOLEAN
        /\ twea' => 1 < I2cSendDataLength'
        /\ I2cState' = "SLAVE_TX" /\ UNCHANGED receive
    <3>1. /\ twdr' = I2cSendData'[0] /\ I2cSendDataIndex' = 0 + 1 /\ UNCHANGED mode
          /\ Command(FALSE, 0 + 1 < I2cSendDataLength')
      BY <1>7, Zenon DEF OnSlaveRead, Transmit
    <3>2. I2cState' = "SLAVE_TX" /\ UNCHANGED receive
      BY <1>7 DEF OnSlaveRead, Became
    <3>3. /\ twint' = FALSE /\ twsta' = FALSE /\ twie' = twie
          /\ twea' \in BOOLEAN /\ (twea' => 0 + 1 < I2cSendDataLength')
      BY <3>1, CommandTests
    <3>4. 0 + 1 = 1
      OBVIOUS
    <3> QED
      BY ONLY <3>1, <3>2, <3>3, <3>4, Zenon
  <2>3. /\ I2cSendData' \in [0 .. SendSize - 1 -> Byte]
        /\ I2cSendDataLength' \in 0 .. SendSize
        /\ I2cSendData'[0][1] <= transfer'
        /\ Filled'
    <3>1. CASE HandlerFills
      <4>1. PICK length \in Lengths \cup {0} :
              /\ I2cSendDataLength' = length
              /\ I2cSendData' = [i \in 0 .. SendSize - 1 |->
                                   IF i < length THEN Payload(i + 1) ELSE I2cSendData[i]]
        BY <3>1 DEF HandlerFills
      <4>2. length \in 0 .. SendSize
        OBVIOUS
      <4>3. \A i \in 0 .. SendSize - 1 : I2cSendData[i] \in Byte /\ Payload(i + 1) \in Byte
        BY <1>1, PayloadType DEF SlaveTypes
      <4>4. \A i \in 0 .. length - 1 : I2cSendData'[i] = <<transfer, i + 1>>
        BY <4>1, <4>2 DEF Payload
      <4>5. I2cSendData'[0] = I2cSendData[0] \/ I2cSendData'[0] = <<transfer, 1>>
        BY <4>1, <4>2 DEF Payload
      <4>6. I2cSendData'[0][1] <= transfer'
        <5>1. I2cSendData[0][1] <= transfer /\ transfer' = transfer /\ transfer \in Nat
          BY <1>1, <2>1 DEF SlaveTypes
        <5>2. <<transfer, 1>>[1] <= transfer
          BY <5>1
        <5> QED
          BY ONLY <5>1, <5>2, <4>5
      <4> QED
        BY <1>1, <4>1, <4>2, <4>3, <4>4, <4>6 DEF Filled, Payload
    <3>2. CASE UNCHANGED <<I2cSendData, I2cSendDataLength>>
      <4>1. I2cSendData[0] \in Byte /\ transfer \in Nat
        BY <1>1 DEF SlaveTypes
      <4>2. ~Answered'
        BY <1>1, <2>1, <3>2, <4>1 DEF Answered, Payload, Byte
      <4> QED
        BY <1>1, <3>2, <4>2 DEF SlaveTypes, Filled
    <3> QED
      BY <1>7, <3>1, <3>2 DEF OnSlaveRead
  <2>4. SlaveTypes'
    <3>1. I2cSendDataIndex' \in 0 .. SendSize /\ twdr' \in Byte
      BY <2>2, <2>3
    <3>2. twint' \in BOOLEAN /\ twea' \in BOOLEAN /\ UNCHANGED <<mode, wire, transfer>>
      BY <1>1, <2>2
    <3>3. I2cState' = "SLAVE_TX" /\ UNCHANGED <<I2cReceiveData, I2cReceiveDataIndex>>
      BY <2>2 DEF receive
    <3> QED
      BY ONLY <1>1, <2>3, <3>1, <3>2, <3>3 DEF SlaveTypes
  <2>5. Told'
    BY <1>1, <2>1, <2>2, <2>3 DEF Told, WireOrdered, Most
  <2> QED
    BY <1>1, <2>2, <2>4, <2>5 DEF SlaveInv
<1>8. CASE OnSlaveSent
  <2>1. /\ mode = "slaveTx" /\ WireOrdered /\ Filled
        /\ I2cSendDataIndex = Len(wire) /\ I2cSendDataIndex < I2cSendDataLength
    BY <1>1, <1>8 DEF OnSlaveSent, Reported
  <2>2. /\ twdr' = I2cSendData[I2cSendDataIndex] /\ I2cSendDataIndex' = I2cSendDataIndex + 1
        /\ UNCHANGED <<mode, twie, I2cState, I2cSendData, I2cSendDataLength, receive>>
        /\ twint' = FALSE /\ twsta' = FALSE
        /\ twea' \in BOOLEAN /\ (twea' => I2cSendDataIndex + 1 < I2cSendDataLength)
    <3>1. /\ twdr' = I2cSendData[I2cSendDataIndex] /\ I2cSendDataIndex' = I2cSendDataIndex + 1
          /\ UNCHANGED mode /\ Command(FALSE, I2cSendDataIndex + 1 < I2cSendDataLength)
      BY <1>8, Zenon DEF OnSlaveSent, Transmit
    <3>2. UNCHANGED <<I2cState, I2cSendData, I2cSendDataLength, receive>>
      BY <1>8 DEF OnSlaveSent
    <3> QED
      BY <3>1, <3>2, CommandTests
  <2>3. twdr' = I2cSendData'[Len(wire')]
    BY <1>1, <2>1, <2>2
  <2>4. SlaveTypes'
    <3>1. twdr' \in Byte
      BY <1>1, <2>1, <2>2 DEF SlaveTypes
    <3>2. I2cSendDataIndex' \in 0 .. SendSize
      BY <1>1, <2>1, <2>2 DEF SlaveTypes
    <3>3. twint' \in BOOLEAN /\ twea' \in BOOLEAN /\ UNCHANGED <<mode, wire, transfer>>
      BY <1>1, <2>2
    <3>4. UNCHANGED <<I2cState, I2cSendData, I2cSendDataLength, I2cReceiveData, I2cReceiveDataIndex>>
      BY <2>2 DEF receive
    <3> QED
      BY ONLY <1>1, <3>1, <3>2, <3>3, <3>4 DEF SlaveTypes
  <2>5. Filled' /\ WireOrdered'
    BY <1>1, <2>1, <2>2 DEF WireOrdered, Filled, Answered, Payload
  <2>6. I2cSendDataIndex' <= Most'
    BY <1>1, <2>1, <2>2 DEF Most, SlaveTypes
  <2>7. Told'
    BY <1>1, <2>1, <2>2, <2>3, <2>5, <2>6 DEF Told, SlaveTypes
  <2> QED
    BY <1>1, <2>2, <2>4, <2>7 DEF SlaveInv
<1>9. ~ (OnStart \/ OnSendAck \/ OnReadNack \/ OnNack \/ OnArbLost \/ OnReadAck \/ OnBusError)
  BY <1>1 DEF Reported, OnStart, OnSendAck, OnReadNack, OnNack, OnArbLost, OnReadAck, OnBusError
<1> QED
  BY <1>3, <1>4, <1>5, <1>6, <1>7, <1>8, <1>9 DEF TWI

LEMMA SlaveStep == role = "slave" /\ SlaveInv /\ [Next]_vars => SlaveInv'
<1> SUFFICES ASSUME role = "slave", SlaveInv, [Next]_vars PROVE SlaveInv'
  OBVIOUS
<1>1. ~Call /\ ~Program
  BY DEF SlaveInv, Call, Program, i2cMasterSend, i2cMasterReceive, NonInterrupt, Ready, Step,
         Start, SendState, SendCopy, SendIndex, SendLength, ReceiveState, ReceiveIndex,
         ReceiveLength, ReceiveReturn, NiDisable, NiAddress, NiSend, NiReceive, NiEnable,
         Complete, At
<1>2. CASE UNCHANGED vars
  <2>1. UNCHANGED <<driver, twi, program, ghost>>
    BY <1>2 DEF vars
  <2>2. SlaveTypes' /\ Reported' = Reported /\ Told' = Told
    BY <2>1 DEF SlaveInv, SlaveTypes, Reported, Told, Stored, Filled, WireOrdered, Payload,
                Answered, Most,
                driver, send, receive, twi, twcr, ghost
  <2> QED
    BY <2>1, <2>2 DEF SlaveInv, program, twi, twcr
<1> QED
  BY <1>1, <1>2, SlaveHardware, SlaveTWI DEF Next

LEMMA SlaveHolds == Spec => [](role = "slave" => SlaveInv)
<1>1. Init => (role = "slave" => SlaveInv)
  BY SlaveInit
<1>2. (role = "slave" => SlaveInv) /\ [Next]_vars => (role = "slave" => SlaveInv)'
  BY SlaveStep, RoleStays
<1> QED
  BY <1>1, <1>2, PTL DEF Spec

\* What i2cSlaveReceive is given is what the other master was acknowledged,
\* however long the write was.
THEOREM HandlersGetWrites == Spec => []HandlerGetsWrite
<1>1. (role = "slave" => SlaveInv) => HandlerGetsWrite
  BY DEF SlaveInv, Reported, HandlerGetsWrite, Stored
<1> QED
  BY <1>1, SlaveHolds, PTL

\* Another master that reads gets the bytes of the buffer in order, the handler's
\* and none behind them if it gave some, and at most one that nobody gave if the
\* handler gave none.
THEOREM ReadsGetHandlersBytes == Spec => []ReadGetsHandlersBytes
<1>1. ASSUME role = "slave", SlaveInv, I2cState = "SLAVE_TX"
      PROVE  /\ \A i \in DOMAIN wire : wire[i] = I2cSendData[i - 1]
             /\ Answered => InOrder(wire)
             /\ Len(wire) <= IF I2cSendDataLength = 0 THEN 1 ELSE I2cSendDataLength
  <2>1. /\ wire \in Seq(Byte) /\ I2cSendDataLength \in Nat /\ Len(wire) \in Nat
        /\ DOMAIN wire = 1 .. Len(wire)
    BY <1>1 DEF SlaveInv, SlaveTypes
  <2>2. Len(wire) <= Most /\ WireOrdered /\ Filled
    <3>1. CASE ~twint
      BY <1>1, <2>1, <3>1 DEF SlaveInv, SlaveTypes, Told, Most
    <3>2. CASE twint
      BY <1>1, <2>1, <3>2 DEF SlaveInv, Reported, Most
    <3> QED
      BY <1>1, <3>1, <3>2
  <2>3. Answered => InOrder(wire)
    <3> SUFFICES ASSUME Answered, NEW i \in 1 .. Len(wire) PROVE wire[i] = Payload(i)
      BY <2>1 DEF InOrder
    <3>1. CASE I2cSendDataLength = 0
      <4>1. i = 1
        BY <2>1, <2>2, <3>1 DEF Most
      <4> QED
        BY <2>1, <2>2, <4>1 DEF WireOrdered, Answered
    <3>2. CASE I2cSendDataLength # 0
      <4>1. i - 1 \in 0 .. I2cSendDataLength - 1 /\ i - 1 + 1 = i
        BY <2>1, <2>2, <3>2 DEF Most
      <4> QED
        BY <2>2, <4>1 DEF WireOrdered, Filled
    <3> QED
      BY <3>1, <3>2
  <2> QED
    BY <2>1, <2>2, <2>3 DEF WireOrdered, Most
<1> QED
  BY <1>1, SlaveHolds, PTL DEF ReadGetsHandlersBytes
-----------------------------------------------------------------------------
\* The node as a master.

Free == mode = "none" /\ ~twsta /\ ~twint

MasterStatus == {"NO_INFO", "START", "MT_SLA_ACK", "MT_SLA_NACK", "MR_SLA_ACK", "MR_SLA_NACK",
                 "MT_DATA_ACK", "MT_DATA_NACK", "MR_DATA_ACK", "MR_DATA_NACK",
                 "ARB_LOST", "BUS_ERROR"}

\* The places before I2cState is set, those from there to the START, those where
\* the transfer runs by itself, and the NI calls' places with the interrupt off.
Before == {"sendState", "receiveState", "niDisable", "niEnable"}
Starting == {"sendCopy", "sendIndex", "sendLength", "sendStart",
             "receiveIndex", "receiveLength", "receiveStart"}
Waiting == Between \cup {"receiveData"}

\* The inductive invariant: while the program sets a transfer up, nothing runs
\* that could end it; only the interrupt, which the bus's last report lets in,
\* makes the driver idle, and it lets the bus go.
MasterInv ==
  /\ mode \in {"none", "master"} /\ twsr \in MasterStatus
  /\ twint /\ twsr = "ARB_LOST" => mode = "none"
  /\ pc \in Before \cup Starting \cup Waiting \cup NI
  /\ pc \in Before => Free
  /\ pc \in Starting => Free /\ I2cState # "IDLE"
  /\ pc \in Waiting /\ I2cState = "IDLE" => Free
  /\ pc \in NI \cup {"niEnable"} => ~twie

LEMMA MasterInit == Init => MasterInv
BY DEF Init, MasterInv, Free, MasterStatus, Before, Starting, Waiting, Between, NI

\* The interface: while the bus is free, it does nothing.
LEMMA MasterHardware == role = "master" /\ MasterInv /\ Hardware => MasterInv'
<1> SUFFICES ASSUME role = "master", MasterInv, Hardware PROVE MasterInv'
  OBVIOUS
<1>1. UNCHANGED <<I2cState, pc, twie>> /\ ~Free
  BY DEF Hardware, driver, program, Other, Works, StartSent, AddressSent, ByteSent, ByteRead,
         Disturbed, ByteWritten, WriteEnds, ByteTaken, Addressed, Report, Busy, Free, MasterInv
<1>2. /\ mode' \in {"none", "master"} /\ twsr' \in MasterStatus
      /\ twsr' = "ARB_LOST" => mode' = "none"
  BY DEF Hardware, Other, Works, StartSent, AddressSent, ByteSent, ByteRead,
         Disturbed, ByteWritten, WriteEnds, ByteTaken, Addressed, Report, MasterInv, MasterStatus
<1> QED
  BY <1>1, <1>2 DEF MasterInv

\* The interrupt: it runs in a transfer that waits, and an idle driver has let
\* the bus go.
LEMMA MasterTWI == role = "master" /\ MasterInv /\ TWI => MasterInv'
<1> SUFFICES ASSUME role = "master", MasterInv, TWI PROVE MasterInv'
  OBVIOUS
<1>1. /\ twint /\ twie /\ UNCHANGED <<twsr, pc>>
      /\ pc \in Waiting /\ I2cState # "IDLE"
  BY DEF TWI, program, MasterInv, Free
<1>2. ~twint' /\ mode' \in {"none", "master"} /\ (I2cState' = "IDLE" => Free')
  <2>1. CASE OnStart \/ OnSendAck \/ OnReadNack \/ OnNack \/ OnReadAck \/ OnBusError
    BY <1>1, <2>1 DEF OnStart, OnSendAck, OnReadNack, OnNack, OnReadAck, OnBusError, MasterInv,
       Finished, Became, i2cSendStop, i2cSendByte, i2cReceiveByte, Command, Free, driver
  <2>2. CASE OnArbLost
    BY <1>1, <2>2 DEF OnArbLost, Became, i2cReceiveByte, Command, Free, MasterInv
  <2>3. CASE OnSlaveWrite \/ OnSlaveByte \/ OnSlaveRefused \/ OnSlaveStop
             \/ OnSlaveRead \/ OnSlaveSent \/ OnSlaveDone
    BY <2>3 DEF OnSlaveWrite, OnSlaveByte, OnSlaveRefused, OnSlaveStop, OnSlaveRead,
                OnSlaveSent, OnSlaveDone, MasterInv, MasterStatus
  <2> QED
    BY <2>1, <2>2, <2>3 DEF TWI
<1> QED
  BY <1>1, <1>2 DEF MasterInv, Waiting, Between, Before, Starting, NI

\* The calls.
LEMMA MasterCalls == MasterInv /\ (Call \/ i2cMasterSend \/ i2cMasterReceive) => MasterInv'
<1> SUFFICES ASSUME MasterInv, Call \/ i2cMasterSend \/ i2cMasterReceive PROVE MasterInv'
  OBVIOUS
<1> USE DEF MasterInv, Before, Starting, Waiting, Between, NI, Free, At, Goto
<1>1. CASE Call
  BY <1>1 DEF Call, driver, twi, twcr
<1>2. ASSUME NEW label, NEW next, Ready(label, next),
             \/ label = "sendWait" /\ next = "sendState"
             \/ label = "receiveWait" /\ next = "receiveState"
      PROVE  MasterInv'
  BY <1>2 DEF Ready, driver, twi, twcr
<1>3. CASE SendState \/ ReceiveState
  BY <1>3 DEF SendState, ReceiveState, Step, Became, twi, twcr
<1>4. CASE SendCopy \/ SendIndex \/ SendLength
  BY <1>4 DEF SendCopy, SendIndex, SendLength, Step, twi, twcr
<1>5. CASE ReceiveIndex \/ ReceiveLength
  BY <1>5 DEF ReceiveIndex, ReceiveLength, Step, twi, twcr
<1>6. CASE Start("sendStart", "idle") \/ Start("receiveStart", "receiveData")
  BY <1>6 DEF Start, Step, i2cSendStart, Command, driver
<1>7. CASE ReceiveReturn
  BY <1>7 DEF ReceiveReturn, Step, driver, twi, twcr
<1> QED
  BY <1>1, <1>2, <1>3, <1>4, <1>5, <1>6, <1>7 DEF i2cMasterSend, i2cMasterReceive

LEMMA MasterNI == MasterInv /\ NonInterrupt => MasterInv'
<1> SUFFICES ASSUME MasterInv, NonInterrupt PROVE MasterInv'
  OBVIOUS
<1> USE DEF MasterInv, Before, Starting, Waiting, Between, NI, Free, At, Goto
<1>1. CASE NiDisable \/ NiEnable
  BY <1>1 DEF NiDisable, NiEnable, Step, driver
<1>2. CASE Start("niStart", "niAddress")
  BY <1>2 DEF Start, Step, i2cSendStart, Command, driver
<1>3. CASE NiAddress
  BY <1>3 DEF NiAddress, Complete, i2cSendByte, Command, driver
<1>4. CASE NiSend /\ UNCHANGED <<driver, twsr, role, arg, ghost>>
  BY <1>4 DEF NiSend, NiSendByte, NiStop, Complete, i2cSendByte, i2cSendStop, Command, driver
<1>5. CASE NiReceive /\ UNCHANGED <<driver, twsr, role, arg, ghost>>
  BY <1>5 DEF NiReceive, NiAskByte, NiStop, Complete, i2cReceiveByte, i2cSendStop, Command,
              driver, twcr
<1> QED
  BY <1>1, <1>2, <1>3, <1>4, <1>5 DEF NonInterrupt

LEMMA MasterHolds == Spec => [](role = "master" => MasterInv)
<1>1. Init => (role = "master" => MasterInv)
  BY MasterInit
<1>2. (role = "master" => MasterInv) /\ [Next]_vars => (role = "master" => MasterInv)'
  <2> SUFFICES ASSUME role = "master", MasterInv, [Next]_vars PROVE MasterInv'
    BY RoleStays
  <2>1. CASE UNCHANGED vars
    BY <2>1 DEF vars, driver, twi, twcr, program, MasterInv, Free
  <2> QED
    BY <2>1, MasterHardware, MasterTWI, MasterCalls, MasterNI DEF Next, Program
<1> QED
  BY <1>1, <1>2, PTL DEF Spec

\* A master alone with a device owns the bus exactly while I2cState or an NI call
\* says so: no call starts on a bus still in use.
THEOREM IdleIsFree == Spec => []IdleMeansFree
<1>1. (role = "master" => MasterInv) => IdleMeansFree
  BY DEF MasterInv, IdleMeansFree, Free, Before, Starting, Waiting
<1> QED
  BY <1>1, MasterHolds, PTL

-----------------------------------------------------------------------------
\* What a master's i2cMasterSend sends.

Sent(n) == [i \in 1 .. n |-> Payload(i)]
Transferring == {"MT_SLA_ACK", "MT_DATA_ACK"}

\* The transfer has not got the bus yet; its START is out; the last byte handed
\* over is acknowledged; it is on its way; or something ends the transfer.
Stage ==
  \/ ~twint /\ mode = "none" /\ I2cSendDataIndex = 0 /\ wire = Sent(0)
  \/ /\ mode = "master" /\ twsr = "START" /\ I2cSendDataIndex = 0 /\ wire = Sent(0)
     /\ ~twint => twdr = Write
  \/ twint /\ mode = "master" /\ twsr \in Transferring /\ wire = Sent(I2cSendDataIndex)
  \/ /\ ~twint /\ mode = "master" /\ twsr \in Transferring /\ I2cSendDataIndex >= 1
     /\ wire = Sent(I2cSendDataIndex - 1) /\ twdr = Payload(I2cSendDataIndex)
  \/ twint /\ twsr \in {"MT_SLA_NACK", "MT_DATA_NACK", "ARB_LOST", "BUS_ERROR"}

Called == arg \in Lengths /\ retval = "none"
CallsBytes == \A i \in 0 .. arg - 1 : I2cSendData[i] = Payload(i + 1)

Sending ==
  /\ Called /\ CallsBytes /\ I2cDeviceAddrRW = Write
  /\ I2cSendDataLength = arg /\ I2cSendDataIndex \in 0 .. arg
  /\ Stage

\* The inductive invariant: how far the call has set the transfer up, how far
\* the interrupt has come with it, and what is left when it ended.
SendInv ==
  /\ I2cState \in {"IDLE", "MASTER_TX", "MASTER_RX"}
  /\ I2cState = "MASTER_RX" \/ pc = "receiveData" => I2cDeviceAddrRW = Read
  /\ pc \in {"receiveIndex", "receiveLength", "receiveStart"} => I2cState = "MASTER_RX"
  /\ pc \in Before \cup NI => I2cState = "IDLE"
  /\ pc = "niEnable" => retval # "none"
  /\ pc = "sendState" => Called /\ wire = Sent(0)
  /\ pc \in {"sendCopy", "sendIndex", "sendLength", "sendStart"} =>
       Called /\ wire = Sent(0) /\ I2cState = "MASTER_TX"
  /\ pc \in {"sendIndex", "sendLength", "sendStart"} => CallsBytes /\ I2cDeviceAddrRW = Write
  /\ pc \in {"sendLength", "sendStart"} => I2cSendDataIndex = 0
  /\ pc = "sendStart" => I2cSendDataLength = arg
  /\ pc \in Waiting /\ I2cState = "MASTER_TX" => Sending
  /\ /\ pc \in Waiting /\ I2cState = "IDLE" /\ I2cDeviceAddrRW = Write
     /\ twsr = "MT_DATA_ACK" /\ retval = "none"
     => arg \in Lengths /\ wire = Sent(arg)

LEMMA SentGrows ==
  ASSUME NEW n \in Nat, wire = Sent(n), wire' = Append(wire, Payload(n + 1)), transfer' = transfer
  PROVE  wire' = Sent(n + 1)'
<1>1. wire \in Seq({transfer} \X Nat) /\ Len(wire) = n
  BY DEF Sent, Payload
<1>2. wire' = [i \in 1 .. n + 1 |-> IF i <= n THEN Payload(i) ELSE Payload(n + 1)]
  BY <1>1 DEF Sent
<1>3. ASSUME NEW i \in 1 .. n + 1
      PROVE  (IF i <= n THEN Payload(i) ELSE Payload(n + 1)) = <<transfer', i>>
  BY <1>3 DEF Payload
<1> QED
  BY <1>2, <1>3 DEF Sent, Payload

LEMMA NothingSent == Sent(0) = <<>>
BY DEF Sent

LEMMA SendInit == Init => SendInv
BY DEF Init, SendInv, Before, NI, Waiting, Between

\* The interface takes the next stage of a transfer.
LEMMA SendHardware == role = "master" /\ MasterInv /\ SendInv /\ Hardware => SendInv'
<1> SUFFICES ASSUME role = "master", MasterInv, SendInv, Hardware PROVE SendInv'
  OBVIOUS
<1>1. /\ UNCHANGED <<I2cState, I2cDeviceAddrRW, I2cSendData, I2cSendDataIndex,
                     I2cSendDataLength, pc, arg, retval>>
      /\ UNCHANGED transfer /\ ~Free /\ ~twint /\ mode # "slaveRx" /\ mode # "slaveTx"
  BY DEF Hardware, driver, send, program, Other, Works, StartSent, AddressSent, ByteSent, ByteRead,
         Disturbed, ByteWritten, WriteEnds, ByteTaken, Addressed, Report, Busy, Free, MasterInv
<1>2. pc \in Waiting \cup NI /\ (pc \in Waiting => I2cState # "IDLE")
  BY <1>1 DEF MasterInv
<1>3. ASSUME Sending PROVE Stage'
  <2>1. CASE StartSent
    BY <1>1, <1>3, <2>1 DEF Sending, Stage, StartSent, Report, Sent, Payload
  <2>2. CASE AddressSent
    BY <1>1, <1>3, <2>2 DEF Sending, Stage, AddressSent, Report, Sent, Payload, Transferring
  <2>3. CASE ByteSent
    <3>1. /\ mode = "master" /\ twsr \in {"MT_SLA_ACK", "MT_DATA_ACK", "MT_DATA_NACK"}
          /\ twint' = TRUE /\ UNCHANGED mode
          /\ \/ twsr' = "MT_DATA_ACK" /\ wire' = Append(wire, twdr)
             \/ twsr' = "MT_DATA_NACK"
      BY <2>3 DEF ByteSent, Report
    <3>2. /\ I2cSendDataIndex - 1 \in Nat /\ I2cSendDataIndex = I2cSendDataIndex - 1 + 1
          /\ wire = Sent(I2cSendDataIndex - 1) /\ twdr = Payload(I2cSendDataIndex)
      BY <1>1, <1>3, <3>1, SizesOK DEF Sending, Stage, Called
    <3>3. CASE twsr' = "MT_DATA_ACK" /\ wire' = Append(wire, twdr)
      <4>1. wire' = Sent(I2cSendDataIndex)'
        BY <1>1, <3>2, <3>3, SentGrows
      <4> QED
        BY <1>1, <3>1, <3>3, <4>1 DEF Stage, Transferring, Sent
    <3>4. CASE twsr' = "MT_DATA_NACK"
      BY <3>1, <3>4 DEF Stage
    <3> QED
      BY <3>1, <3>3, <3>4
  <2>4. CASE ByteRead
    BY <1>1, <1>3, <2>4 DEF Sending, Stage, ByteRead, Transferring
  <2>5. CASE Disturbed
    BY <2>5 DEF Disturbed, Report, Stage
  <2> QED
    BY <1>1, <2>1, <2>2, <2>3, <2>4, <2>5
       DEF Hardware, Other, Works, ByteWritten, WriteEnds, ByteTaken, Addressed, MasterInv
<1>4. ASSUME Sending PROVE Sending'
  BY <1>1, <1>3, <1>4 DEF Sending, Called, CallsBytes, Payload
<1> QED
  BY <1>1, <1>2, <1>4 DEF SendInv, Waiting, Between, NI, Before, Called

\* The interrupt hands the next byte over, or ends the transfer.
LEMMA SendTWI == role = "master" /\ MasterInv /\ SendInv /\ TWI => SendInv'
<1> SUFFICES ASSUME role = "master", MasterInv, SendInv, TWI PROVE SendInv'
  OBVIOUS
<1>1. /\ twint /\ UNCHANGED <<twsr, pc, arg, retval, wire, transfer>>
      /\ pc \in Waiting /\ I2cState # "IDLE" /\ twsr \in MasterStatus
  BY DEF TWI, program, ghost, MasterInv, Free
<1>2. /\ UNCHANGED <<I2cDeviceAddrRW, I2cSendData, I2cSendDataLength>>
      /\ I2cState' = I2cState \/ I2cState' = "IDLE"
  BY <1>1 DEF TWI, OnStart, OnSendAck, OnReadNack, OnNack, OnArbLost, OnReadAck, OnBusError,
     OnSlaveWrite, OnSlaveByte, OnSlaveRefused, OnSlaveStop, OnSlaveRead, OnSlaveSent,
     OnSlaveDone, MasterStatus, Finished, Became, driver, send
<1>3. CASE I2cState = "MASTER_RX"
  BY <1>1, <1>2, <1>3 DEF SendInv, Waiting, Between, Before, NI, Write, Read
<1>4. CASE I2cState = "MASTER_TX"
  <2>1. Sending
    BY <1>1, <1>4 DEF SendInv
  <2>2. Called' /\ CallsBytes' /\ I2cDeviceAddrRW' = Write /\ I2cSendDataLength' = arg'
    BY <1>1, <1>2, <2>1 DEF Sending, Called, CallsBytes, Payload
  <2>3. CASE OnStart
    <3>1. twdr' = Write /\ mode' = mode /\ ~twint' /\ UNCHANGED <<I2cState, I2cSendDataIndex>>
      BY <2>1, <2>3 DEF OnStart, i2cSendByte, Command, driver, send, Sending
    <3>2. mode = "master" /\ twsr = "START" /\ I2cSendDataIndex = 0 /\ wire = Sent(0)
      BY <1>1, <2>1, <2>3 DEF OnStart, Sending, Stage, Transferring
    <3>3. Sending'
      BY <1>1, <2>1, <2>2, <3>1, <3>2 DEF Sending, Stage, Sent, Payload
    <3> QED
      BY <1>1, <1>2, <1>4, <3>1, <3>3 DEF SendInv, Waiting, Between, Before, NI
  <2>4. CASE OnSendAck
    <3>1. twsr \in Transferring /\ wire = Sent(I2cSendDataIndex)
      BY <1>1, <2>1, <2>4 DEF OnSendAck, Sending, Stage, Transferring
    <3>2. I2cSendDataIndex \in Nat /\ arg \in Nat /\ I2cSendDataIndex <= arg
      BY <2>1, SizesOK DEF Sending, Called
    <3>3. CASE I2cSendDataIndex < I2cSendDataLength
      <4>1. /\ twdr' = I2cSendData[I2cSendDataIndex] /\ ~twint' /\ mode' = mode
            /\ I2cSendDataIndex' = I2cSendDataIndex + 1 /\ UNCHANGED I2cState
        BY <2>4, <3>3 DEF OnSendAck, i2cSendByte, Command
      <4>2. I2cSendDataIndex' \in 0 .. arg' /\ I2cSendDataIndex' >= 1
        BY <1>1, <2>1, <3>2, <3>3, <4>1 DEF Sending
      <4>3. twdr' = Payload(I2cSendDataIndex + 1)
        BY <2>1, <3>2, <3>3, <4>1 DEF Sending, CallsBytes
      <4>4. I2cSendDataIndex' - 1 = I2cSendDataIndex
        BY <3>2, <4>1
      <4>5. wire' = Sent(I2cSendDataIndex - 1)' /\ twdr' = Payload(I2cSendDataIndex)'
        <5>1. wire' = [i \in 1 .. I2cSendDataIndex |-> <<transfer', i>>]
          BY <1>1, <3>1 DEF Sent, Payload
        <5>2. twdr' = <<transfer', I2cSendDataIndex'>>
          BY <1>1, <4>1, <4>3 DEF Payload
        <5> QED
          BY <4>4, <5>1, <5>2 DEF Sent, Payload
      <4>6. mode = "master"
        BY <1>1, <2>1, <3>1 DEF Transferring, Sending, Stage
      <4>7. Stage'
        BY <1>1, <3>1, <4>1, <4>2, <4>5, <4>6 DEF Stage
      <4>8. Sending'
        BY <2>2, <4>2, <4>7 DEF Sending
      <4> QED
        BY <1>1, <1>2, <1>4, <4>1, <4>8 DEF SendInv, Waiting, Between, Before, NI
    <3>4. CASE ~(I2cSendDataIndex < I2cSendDataLength)
      <4>1. I2cState' = "IDLE"
        BY <2>4, <3>4 DEF OnSendAck, Finished, Became
      <4>2. I2cSendDataIndex = arg
        BY <2>1, <3>2, <3>4 DEF Sending
      <4>3. arg' \in Lengths /\ wire' = Sent(arg)'
        BY <1>1, <2>1, <3>1, <4>2 DEF Sending, Called, Sent, Payload
      <4> QED
        BY <1>1, <1>2, <4>1, <4>3 DEF SendInv, Waiting, Between, Before, NI, Write, Read
    <3> QED
      BY <3>3, <3>4
  <2>5. CASE OnNack \/ OnArbLost \/ OnBusError
    <3>1. I2cState' = "IDLE" /\ twsr # "MT_DATA_ACK"
      BY <2>5 DEF OnNack, OnArbLost, OnBusError, Finished, Became
    <3> QED
      BY <1>1, <1>2, <3>1 DEF SendInv, Waiting, Between, Before, NI, Write, Read
  <2>6. ~OnReadNack /\ ~OnReadAck
    BY <1>1, <2>1 DEF Sending, Stage, OnReadNack, OnReadAck, Transferring
  <2> QED
    BY <1>1, <2>3, <2>4, <2>5, <2>6 DEF TWI, OnSlaveWrite, OnSlaveByte, OnSlaveRefused,
       OnSlaveStop, OnSlaveRead, OnSlaveSent, OnSlaveDone, MasterStatus
<1> QED
  BY <1>1, <1>3, <1>4 DEF SendInv

\* The call sets the transfer up.
LEMMA SendCalls == MasterInv /\ SendInv /\ (Call \/ i2cMasterSend \/ i2cMasterReceive) => SendInv'
<1> SUFFICES ASSUME MasterInv, SendInv, Call \/ i2cMasterSend \/ i2cMasterReceive PROVE SendInv'
  OBVIOUS
<1> USE DEF Before, Waiting, Between, NI, At, Goto
<1>1. CASE Call
  BY <1>1 DEF Call, SendInv, Sending, Called, CallsBytes, Stage, Sent, Payload,
              driver, send, twi, twcr, ghost
<1>2. ASSUME NEW label, NEW next, Ready(label, next),
             \/ label = "sendWait" /\ next = "sendState"
             \/ label = "receiveWait" /\ next = "receiveState"
      PROVE  SendInv'
  BY <1>2, NothingSent DEF Ready, NewTransfer, SendInv, Called, Sent, driver
<1>3. CASE SendState
  BY <1>3 DEF SendState, Step, Became, SendInv, Called, Sent, Payload, ghost
<1>4. CASE SendCopy
  <2>1. /\ I2cDeviceAddrRW' = Write /\ UNCHANGED <<I2cState, arg, retval, wire, transfer>>
        /\ pc = "sendCopy" /\ pc' = "sendIndex"
        /\ I2cSendData' = [i \in 0 .. SendSize - 1 |-> IF i < arg THEN Payload(i + 1) ELSE I2cSendData[i]]
    BY <1>4 DEF SendCopy, Step, ghost
  <2>2. arg \in 1 .. SendSize /\ Called /\ wire = Sent(0) /\ I2cState = "MASTER_TX"
    BY <2>1, SizesOK DEF SendInv, Called
  <2>3. CallsBytes'
    BY <2>1, <2>2, SizesOK DEF CallsBytes, Payload
  <2> QED
    BY <2>1, <2>2, <2>3 DEF SendInv, Called, Sent, Payload
<1>5. CASE SendIndex \/ SendLength
  BY <1>5 DEF SendIndex, SendLength, Step, SendInv, Called, CallsBytes, Sent, Payload, ghost
<1>6. CASE Start("sendStart", "idle")
  <2>1. /\ pc = "sendStart" /\ pc' = "idle" /\ mode' = "none" /\ ~twint'
        /\ UNCHANGED <<I2cState, I2cDeviceAddrRW, I2cSendData, I2cSendDataIndex,
                       I2cSendDataLength, arg, retval, wire, transfer>>
    BY <1>6 DEF Start, Step, i2cSendStart, Command, driver, send, ghost, MasterInv, Starting, Free
  <2>2. Stage'
    BY <2>1 DEF SendInv, Stage, Sent, Payload
  <2>3. Sending'
    <3>1. /\ Called' /\ CallsBytes' /\ I2cDeviceAddrRW' = Write
          /\ I2cSendDataLength' = arg' /\ I2cSendDataIndex' = 0 /\ arg' \in Lengths
      BY <2>1 DEF SendInv, Called, CallsBytes, Payload
    <3>2. I2cSendDataIndex' \in 0 .. arg'
      BY <3>1, SizesOK
    <3> QED
      BY <2>2, <3>1, <3>2 DEF Sending
  <2> QED
    BY <2>1, <2>3 DEF SendInv, Called, Sent, Payload
<1>7. CASE ReceiveState \/ ReceiveIndex \/ ReceiveLength \/ Start("receiveStart", "receiveData")
  BY <1>7 DEF ReceiveState, ReceiveIndex, ReceiveLength, Start, Step, Became, SendInv, driver
<1>8. CASE ReceiveReturn
  BY <1>8 DEF ReceiveReturn, Step, SendInv, driver, Write, Read
<1> QED
  BY <1>1, <1>2, <1>3, <1>4, <1>5, <1>6, <1>7, <1>8 DEF i2cMasterSend, i2cMasterReceive

LEMMA SendNI == MasterInv /\ SendInv /\ NonInterrupt => SendInv'
<1> SUFFICES ASSUME MasterInv, SendInv, NonInterrupt PROVE SendInv'
  OBVIOUS
<1> USE DEF SendInv, Before, Waiting, Between, NI, At, Goto
<1>1. CASE NiDisable \/ NiEnable
  BY <1>1 DEF NiDisable, NiEnable, Step, driver
<1>2. CASE Start("niStart", "niAddress")
  BY <1>2 DEF Start, Step, driver
<1>3. CASE NiAddress
  BY <1>3 DEF NiAddress, Complete, driver
<1>4. CASE NiSend /\ UNCHANGED <<driver, twsr, role, arg, ghost>>
  BY <1>4 DEF NiSend, NiSendByte, NiStop, Complete, driver
<1>5. CASE NiReceive /\ UNCHANGED <<driver, twsr, role, arg, ghost>>
  BY <1>5 DEF NiReceive, NiAskByte, NiStop, Complete, driver
<1> QED
  BY <1>1, <1>2, <1>3, <1>4, <1>5 DEF NonInterrupt

LEMMA SendHolds == Spec => [](role = "master" => MasterInv /\ SendInv)
<1>1. Init => (role = "master" => SendInv)
  BY SendInit
<1>2. /\ role = "master" => MasterInv
      /\ role = "master" => SendInv
      /\ [Next]_vars
      => (role = "master" => SendInv)'
  <2> SUFFICES ASSUME role = "master", MasterInv, SendInv, [Next]_vars PROVE SendInv'
    BY RoleStays
  <2>1. CASE UNCHANGED vars
    BY <2>1 DEF vars, driver, send, twi, twcr, program, ghost, SendInv, Sending, Called,
                CallsBytes, Stage, Sent, Payload
  <2> QED
    BY <2>1, SendHardware, SendTWI, SendCalls, SendNI DEF Next, Program
<1>3. (role = "master" => MasterInv) /\ (role = "master" => SendInv)
      => (role = "master" => MasterInv /\ SendInv)
  OBVIOUS
<1> QED
  BY <1>1, <1>2, <1>3, MasterHolds, PTL DEF Spec

\* When the last thing that i2cMasterSend's transfer met was an acknowledged
\* byte, the device got all the bytes of the call, each once and in order.
THEOREM SendsAreComplete == Spec => []SendComplete
<1>1. (role = "master" => MasterInv /\ SendInv) => SendComplete
  <2> SUFFICES ASSUME SendInv, pc \in Between, I2cState = "IDLE", I2cDeviceAddrRW = Write,
                      twsr = "MT_DATA_ACK", retval = "none"
               PROVE  Len(wire) = arg /\ InOrder(wire)
    BY DEF SendComplete
  <2>1. arg \in Lengths /\ wire = Sent(arg)
    BY DEF SendInv, Waiting
  <2>2. arg \in Nat
    BY <2>1, SizesOK
  <2> QED
    BY <2>1, <2>2 DEF Sent, InOrder
<1> QED
  BY <1>1, SendHolds, PTL

-----------------------------------------------------------------------------
\* What a master reads, by i2cMasterReceive and by the NI calls.

Disturbance == {"ARB_LOST", "BUS_ERROR"}

\* As in Stage: the transfer has not got the bus; its START is out; the device has
\* answered; a byte is on its way, acknowledged unless it is the last one; it has
\* come; or something ends the transfer.
ReadStage ==
  \/ ~twint /\ mode = "none" /\ I2cReceiveDataIndex = 0 /\ wire = Sent(0)
  \/ /\ mode = "master" /\ twsr = "START" /\ I2cReceiveDataIndex = 0 /\ wire = Sent(0)
     /\ ~twint => twdr = Read
  \/ /\ twint /\ mode = "master" /\ twsr = "MR_SLA_ACK"
     /\ I2cReceiveDataIndex = 0 /\ wire = Sent(0)
  \/ /\ ~twint /\ mode = "master" /\ twsr \in {"MR_SLA_ACK", "MR_DATA_ACK"}
     /\ wire = Sent(I2cReceiveDataIndex) /\ Stored(I2cReceiveDataIndex)
     /\ twea => I2cReceiveDataIndex + 1 < arg
     /\ ~twea => I2cReceiveDataIndex + 1 = arg
  \/ /\ twint /\ mode = "master" /\ twsr \in {"MR_DATA_ACK", "MR_DATA_NACK"}
     /\ wire = Sent(I2cReceiveDataIndex + 1) /\ twdr = Payload(I2cReceiveDataIndex + 1)
     /\ Stored(I2cReceiveDataIndex)
     /\ IF twsr = "MR_DATA_ACK" THEN I2cReceiveDataIndex + 1 < arg
                                ELSE I2cReceiveDataIndex + 1 = arg
  \/ twint /\ twsr \in Disturbance \cup {"MR_SLA_NACK"}

Receiving ==
  /\ Called /\ I2cReceiveDataLength = arg /\ I2cReceiveDataIndex \in 0 .. arg
  /\ ReadStage

\* How far i2cMasterReceive has set the transfer up and come with it, and what it
\* gives back.
ReceiveInv ==
  /\ I2cState = "MASTER_RX" =>
       pc \in {"receiveIndex", "receiveLength", "receiveStart", "receiveData"}
  /\ pc = "receiveData" => I2cState # "MASTER_TX"
  /\ pc \in {"receiveState", "receiveIndex", "receiveLength", "receiveStart"} =>
       Called /\ wire = Sent(0)
  /\ pc \in {"receiveLength", "receiveStart"} => I2cReceiveDataIndex = 0
  /\ pc = "receiveStart" => I2cReceiveDataLength = arg
  /\ pc = "receiveData" /\ I2cState = "MASTER_RX" => Receiving
  /\ pc = "receiveData" /\ I2cState = "IDLE" /\ twsr = "MR_DATA_NACK" =>
       arg \in Lengths /\ wire = Sent(arg) /\ Stored(arg)
  /\ pc \in {"idle", "niEnable"} /\ I2cState = "IDLE" /\ twsr = "MR_DATA_NACK" =>
       arg \in Lengths /\ wire = Sent(arg) /\ got = Sent(arg)

\* The lengths an NI call counts down.
NiCounts ==
  /\ pc \in NI \cup {"niDisable"} => arg \in Lengths /\ left \in 0 .. arg
  /\ pc \in {"niDisable", "niStart", "niAddress", "niReceive"} =>
       left = arg /\ got = Sent(0) /\ wire = Sent(0)
  /\ pc \in {"niReceiveData", "niReceiveNext"} => left >= 1
  /\ pc = "niReceiveStop" => left = 0

\* Where an NI call is, what the interface reports to it or was told to do.
NiStage ==
  /\ pc = "niStart" => Free
  /\ pc = "niAddress" => IF twint THEN mode = "master" /\ twsr = "START" ELSE mode = "none"
  /\ pc = "niSend" =>
       IF twint THEN twsr \in {"MT_SLA_ACK", "MT_SLA_NACK"} \cup Disturbance
                ELSE twsr = "START" /\ mode = "master" /\ twdr = Write
  /\ pc = "niSendData" =>
       ~twsta /\ twsr \in {"MT_SLA_ACK", "MT_DATA_ACK", "MT_DATA_NACK"} \cup Disturbance
  /\ pc = "niReceive" =>
       IF twint THEN \/ twsr \in {"MR_SLA_NACK"} \cup Disturbance
                     \/ twsr = "MR_SLA_ACK" /\ mode = "master"
                ELSE twsr = "START" /\ mode = "master" /\ twdr = Read
  /\ pc = "niReceiveData" =>
       /\ ~twsta
       /\ \/ twsr \in Disturbance
          \/ /\ ~twint /\ mode = "master" /\ twsr \in {"MR_SLA_ACK", "MR_DATA_ACK"}
             /\ got = Sent(arg - left) /\ wire = Sent(arg - left)
             /\ IF twea THEN left > 1 ELSE left = 1
          \/ /\ twint /\ mode = "master" /\ got = Sent(arg - left)
             /\ wire = Sent(arg - left + 1) /\ twdr = Payload(arg - left + 1)
             /\ IF left > 1 THEN twsr = "MR_DATA_ACK" ELSE twsr = "MR_DATA_NACK"
  /\ pc = "niReceiveNext" =>
       /\ twint /\ ~twsta
       /\ \/ twsr \in Disturbance
          \/ /\ twsr = "MR_DATA_ACK" /\ mode = "master"
             /\ got = Sent(arg - left) /\ wire = Sent(arg - left)
  /\ pc = "niReceiveStop" =>
       /\ twint /\ twsr \in Disturbance \cup {"MR_DATA_NACK"}
       /\ twsr = "MR_DATA_NACK" => got = Sent(arg) /\ wire = Sent(arg)

\* What the interface does for a master.
BusStep ==
  \/ /\ mode = "none" /\ twsta /\ twsr' = "START" /\ mode' = "master"
     /\ UNCHANGED <<twdr, wire>>
  \/ /\ mode = "master" /\ twsr = "START" /\ UNCHANGED <<twdr, mode, wire>>
     /\ twsr' \in IF twdr = Write THEN {"MT_SLA_ACK", "MT_SLA_NACK"}
                                  ELSE {"MR_SLA_ACK", "MR_SLA_NACK"}
  \/ /\ mode = "master" /\ twsr \in {"MT_SLA_ACK", "MT_DATA_ACK", "MT_DATA_NACK"}
     /\ UNCHANGED <<twdr, mode>> /\ twsr' \in {"MT_DATA_ACK", "MT_DATA_NACK"}
  \/ /\ mode = "master" /\ twsr \in {"MR_SLA_ACK", "MR_DATA_ACK"} /\ UNCHANGED mode
     /\ twsr' = IF twea THEN "MR_DATA_ACK" ELSE "MR_DATA_NACK"
     /\ twdr' = Payload(Len(wire) + 1) /\ wire' = Append(wire, twdr')
  \/ mode = "master" /\ twsr' \in Disturbance /\ UNCHANGED <<twdr, wire>>

LEMMA MasterBus ==
  ASSUME role = "master", MasterInv, Hardware
  PROVE  /\ UNCHANGED <<driver, program, transfer, twie, twea, twsta>>
         /\ ~twint /\ twint' = TRUE /\ BusStep
         /\ pc \in Waiting \cup NI /\ (pc \in Waiting => I2cState # "IDLE")
<1>1. UNCHANGED <<driver, program, transfer, twie, twea, twsta>> /\ ~twint /\ twint' = TRUE
  BY DEF Hardware, Other, Works, StartSent, AddressSent, ByteSent, ByteRead,
         Disturbed, ByteWritten, WriteEnds, ByteTaken, Addressed, Report, Busy, MasterInv
<1>2. BusStep
  BY DEF Hardware, Other, Works, StartSent, AddressSent, ByteSent, ByteRead, Disturbance,
         Disturbed, ByteWritten, WriteEnds, ByteTaken, Addressed, Report, Busy, MasterInv, BusStep
<1>3. ~Free
  BY <1>2 DEF BusStep, Free
<1> QED
  BY <1>1, <1>2, <1>3 DEF MasterInv

LEMMA SentReads ==
  ASSUME NEW n \in Nat, wire = Sent(n), transfer' = transfer,
         twdr' = Payload(Len(wire) + 1), wire' = Append(wire, twdr')
  PROVE  wire' = Sent(n + 1)' /\ twdr' = Payload(n + 1)'
<1>1. Len(wire) = n
  BY DEF Sent
<1>2. twdr' = Payload(n + 1) /\ wire' = Append(wire, Payload(n + 1))
  BY <1>1
<1>3. wire' = Sent(n + 1)'
  BY <1>2, SentGrows
<1> QED
  BY <1>2, <1>3 DEF Payload

LEMMA ReceiveInit == Init => ReceiveInv /\ NiCounts /\ NiStage
BY DEF Init, ReceiveInv, NiCounts, NiStage, NI

LEMMA ReceiveHardware ==
  role = "master" /\ MasterInv /\ ReceiveInv /\ Hardware => ReceiveInv'
<1> SUFFICES ASSUME role = "master", MasterInv, ReceiveInv, Hardware PROVE ReceiveInv'
  OBVIOUS
<1>1. /\ UNCHANGED <<I2cState, I2cReceiveData, I2cReceiveDataIndex, I2cReceiveDataLength,
                     pc, arg, got, retval, transfer, twea, twsta>>
      /\ ~twint /\ twint' = TRUE /\ BusStep
      /\ pc \in Waiting \cup NI /\ (pc \in Waiting => I2cState # "IDLE")
  BY MasterBus DEF driver, receive, program
<1>2. ASSUME Receiving PROVE ReadStage'
  <2> USE DEF Receiving, ReadStage
  <2>1. CASE mode = "none"
    BY <1>1, <1>2, <2>1 DEF BusStep, Sent, Payload, Write, Read
  <2>2. CASE mode = "master" /\ twsr = "START" /\ twsr' \notin Disturbance
    BY <1>1, <1>2, <2>2 DEF BusStep, Sent, Payload, Write, Read, Disturbance
  <2>3. CASE mode = "master" /\ twsr # "START" /\ twsr' \notin Disturbance
    <3>1. /\ wire = Sent(I2cReceiveDataIndex) /\ Stored(I2cReceiveDataIndex)
          /\ twea => I2cReceiveDataIndex + 1 < arg
          /\ ~twea => I2cReceiveDataIndex + 1 = arg
          /\ I2cReceiveDataIndex \in Nat /\ twsr \in {"MR_SLA_ACK", "MR_DATA_ACK"}
      BY <1>1, <1>2, <2>3
    <3>2. /\ twsr' = IF twea THEN "MR_DATA_ACK" ELSE "MR_DATA_NACK"
          /\ twdr' = Payload(Len(wire) + 1) /\ wire' = Append(wire, twdr') /\ mode' = "master"
      BY <1>1, <2>3, <3>1 DEF BusStep
    <3>3. /\ wire' = Sent(I2cReceiveDataIndex + 1)'
          /\ twdr' = Payload(I2cReceiveDataIndex + 1)'
      <4>1. ASSUME NEW n \in Nat, n = I2cReceiveDataIndex
            PROVE  wire' = Sent(n + 1)' /\ twdr' = Payload(n + 1)'
        BY <1>1, <3>1, <3>2, <4>1, SentReads
      <4> QED
        BY <1>1, <3>1, <4>1
    <3>4. Stored(I2cReceiveDataIndex)'
      BY <1>1, <3>1 DEF Stored, Payload
    <3> QED
      BY <1>1, <3>1, <3>2, <3>3, <3>4
  <2>4. CASE twsr' \in Disturbance
    BY <1>1, <2>4
  <2> QED
    BY <1>1, <2>1, <2>2, <2>3, <2>4 DEF BusStep
<1>3. ASSUME Receiving PROVE Receiving'
  BY <1>1, <1>2, <1>3 DEF Receiving, Called
<1> QED
  BY <1>1, <1>3 DEF ReceiveInv, Waiting, Between, NI

LEMMA NiHardware ==
  role = "master" /\ MasterInv /\ NiCounts /\ NiStage /\ Hardware => NiCounts' /\ NiStage'
<1> SUFFICES ASSUME role = "master", MasterInv, NiCounts, NiStage, Hardware
             PROVE  NiCounts' /\ NiStage'
  OBVIOUS
<1>1. /\ UNCHANGED <<pc, arg, got, left, transfer, twea, twsta>>
      /\ ~twint /\ twint' = TRUE /\ BusStep /\ pc \in Waiting \cup NI
  BY MasterBus DEF program
<1>2. NiCounts'
  <2>1. pc = "niAddress" \/ pc = "niReceive" => UNCHANGED wire
    BY <1>1 DEF NiStage, BusStep
  <2>2. pc # "niStart"
    BY <1>1 DEF NiStage, BusStep, Free
  <2> QED
    BY <1>1, <2>1, <2>2 DEF NiCounts, NI, Waiting, Between, Sent, Payload
<1>3. ASSUME pc \notin NI PROVE NiStage'
  BY <1>1, <1>3 DEF NiStage, NI
<1>4. ASSUME pc \in {"niStart", "niAddress"} PROVE NiStage'
  BY <1>1, <1>4 DEF NiStage, BusStep, Free
<1>5. ASSUME pc = "niSend" PROVE NiStage'
  BY <1>1, <1>5 DEF NiStage, BusStep, Disturbance
<1>6. ASSUME pc = "niSendData" PROVE NiStage'
  BY <1>1, <1>6 DEF NiStage, BusStep, Disturbance
<1>7. ASSUME pc = "niReceive" PROVE NiStage'
  BY <1>1, <1>7 DEF NiStage, BusStep, Disturbance, Write, Read
<1>8. ASSUME pc = "niReceiveData" PROVE NiStage'
  <2>1. CASE twsr' \in Disturbance
    BY <1>1, <1>8, <2>1 DEF NiStage
  <2>2. CASE twsr' \notin Disturbance
    <3>1. /\ ~twsta /\ mode = "master" /\ twsr \in {"MR_SLA_ACK", "MR_DATA_ACK"}
          /\ got = Sent(arg - left) /\ wire = Sent(arg - left)
          /\ IF twea THEN left > 1 ELSE left = 1
      BY <1>1, <1>8, <2>2 DEF NiStage, BusStep, Disturbance
    <3>2. /\ twsr' = IF twea THEN "MR_DATA_ACK" ELSE "MR_DATA_NACK"
          /\ twdr' = Payload(Len(wire) + 1) /\ wire' = Append(wire, twdr') /\ mode' = "master"
      BY <1>1, <2>2, <3>1 DEF BusStep
    <3>3. wire' = Sent(arg - left + 1)' /\ twdr' = Payload(arg - left + 1)'
      <4>1. arg - left \in Nat
        <5>1. arg \in Lengths /\ left \in 0 .. arg
          BY <1>8 DEF NiCounts, NI
        <5>2. arg \in Nat
          BY <5>1, SizesOK
        <5> QED
          BY <5>1, <5>2
      <4>2. ASSUME NEW n \in Nat, n = arg - left
            PROVE  wire' = Sent(n + 1)' /\ twdr' = Payload(n + 1)'
        BY <1>1, <3>1, <3>2, <4>2, SentReads
      <4> QED
        BY <1>1, <4>1, <4>2
    <3>4. got' = Sent(arg - left)'
      BY <1>1, <3>1 DEF Sent, Payload
    <3> QED
      BY <1>1, <1>8, <3>1, <3>2, <3>3, <3>4 DEF NiStage
  <2> QED
    BY <2>1, <2>2
<1>9. ASSUME pc \in {"niReceiveNext", "niReceiveStop"} PROVE NiStage'
  BY <1>1, <1>9 DEF NiStage
<1> QED
  BY <1>2, <1>3, <1>4, <1>5, <1>6, <1>7, <1>8, <1>9 DEF NI

\* The interrupt stores what came, and asks for the next byte.
LEMMA ReceiveTWI ==
  role = "master" /\ MasterInv /\ SendInv /\ ReceiveInv /\ TypeOK /\ TWI => ReceiveInv'
<1> SUFFICES ASSUME role = "master", MasterInv, SendInv, ReceiveInv, TypeOK, TWI
             PROVE  ReceiveInv'
  OBVIOUS
<1>1. /\ twint /\ UNCHANGED <<twsr, pc, arg, got, retval, wire, transfer>>
      /\ pc \in Waiting /\ I2cState # "IDLE" /\ twsr \in MasterStatus
  BY DEF TWI, program, ghost, MasterInv, Free
<1>2. I2cState' = I2cState \/ I2cState' = "IDLE"
  BY <1>1 DEF TWI, OnStart, OnSendAck, OnReadNack, OnNack, OnArbLost, OnReadAck, OnBusError,
     OnSlaveWrite, OnSlaveByte, OnSlaveRefused, OnSlaveStop, OnSlaveRead, OnSlaveSent,
     OnSlaveDone, MasterStatus, Finished, Became, driver
<1>3. CASE I2cState = "MASTER_TX"
  <2>1. twsr # "MR_DATA_NACK" /\ pc \in Between
    BY <1>1, <1>3 DEF SendInv, Sending, Stage, Transferring, ReceiveInv, Waiting
  <2> QED
    BY <1>1, <1>2, <1>3, <2>1 DEF ReceiveInv, Between
<1>4. CASE I2cState = "MASTER_RX"
  <2>1. pc = "receiveData" /\ Receiving /\ I2cDeviceAddrRW = Read
    BY <1>1, <1>4 DEF ReceiveInv, SendInv, Waiting, Between
  <2>2. /\ arg \in Lengths /\ arg \in 1 .. ReceiveSize /\ I2cReceiveDataLength = arg
        /\ I2cReceiveDataIndex \in 0 .. arg
    BY <2>1, SizesOK DEF Receiving, Called
  <2>3. ASSUME Receiving', UNCHANGED I2cState PROVE ReceiveInv'
    BY <1>1, <1>4, <2>1, <2>3 DEF ReceiveInv
  <2>4. CASE OnStart
    <3>1. /\ twdr' = Read /\ mode' = mode /\ ~twint'
          /\ UNCHANGED <<I2cState, I2cReceiveDataIndex, I2cReceiveDataLength>>
      BY <2>1, <2>4 DEF OnStart, i2cSendByte, Command, driver, receive
    <3>2. mode = "master" /\ twsr = "START" /\ I2cReceiveDataIndex = 0 /\ wire = Sent(0)
      BY <1>1, <2>1, <2>4 DEF OnStart, Receiving, ReadStage, Disturbance
    <3>3. ReadStage'
      BY <1>1, <3>1, <3>2 DEF ReadStage, Sent, Payload
    <3> QED
      BY <1>1, <2>1, <2>3, <3>1, <3>3 DEF Receiving, Called
  <2>5. CASE OnReadAck /\ twsr = "MR_SLA_ACK"
    <3>1. /\ Command(FALSE, I2cReceiveDataIndex' < I2cReceiveDataLength - 1)
          /\ UNCHANGED <<I2cState, receive, mode>>
      BY <2>5, Zenon DEF OnReadAck, i2cReceiveByte
    <3>2. UNCHANGED <<I2cReceiveData, I2cReceiveDataIndex, I2cReceiveDataLength>>
      BY <3>1 DEF receive
    <3>3. /\ ~twint' /\ (twea' => I2cReceiveDataIndex' < I2cReceiveDataLength - 1)
          /\ (~twea' => ~(I2cReceiveDataIndex' < I2cReceiveDataLength - 1))
      BY <3>1, CommandTests
    <3>4. mode = "master" /\ I2cReceiveDataIndex = 0 /\ wire = Sent(0)
      BY <1>1, <2>1, <2>5 DEF Receiving, ReadStage, Disturbance
    <3>5. (twea' => 0 + 1 < arg) /\ (~twea' => 0 + 1 = arg)
      BY <2>2, <3>2, <3>3, <3>4
    <3>6. ReadStage'
      BY <1>1, <2>5, <3>1, <3>2, <3>3, <3>4, <3>5 DEF ReadStage, Sent, Payload, Stored
    <3> QED
      BY <1>1, <2>1, <2>3, <3>1, <3>2, <3>6 DEF Receiving, Called
  <2>6. ASSUME Store, twsr \in {"MR_DATA_ACK", "MR_DATA_NACK"}
        PROVE  /\ I2cReceiveDataIndex' = I2cReceiveDataIndex + 1
               /\ UNCHANGED I2cReceiveDataLength /\ mode = "master"
               /\ \A i \in 1 .. I2cReceiveDataIndex + 1 : I2cReceiveData'[i - 1] = <<transfer', i>>
               /\ wire' = [i \in 1 .. I2cReceiveDataIndex + 1 |-> <<transfer', i>>]
               /\ IF twsr = "MR_DATA_ACK" THEN I2cReceiveDataIndex + 1 < arg
                                          ELSE I2cReceiveDataIndex + 1 = arg
    <3>1. /\ mode = "master" /\ wire = Sent(I2cReceiveDataIndex + 1)
          /\ twdr = Payload(I2cReceiveDataIndex + 1) /\ Stored(I2cReceiveDataIndex)
          /\ IF twsr = "MR_DATA_ACK" THEN I2cReceiveDataIndex + 1 < arg
                                     ELSE I2cReceiveDataIndex + 1 = arg
      BY <1>1, <2>1, <2>6 DEF Receiving, ReadStage, Disturbance
    <3>2. /\ I2cReceiveData' = [I2cReceiveData EXCEPT ![I2cReceiveDataIndex] = twdr]
          /\ I2cReceiveDataIndex' = I2cReceiveDataIndex + 1 /\ UNCHANGED I2cReceiveDataLength
      BY <2>6 DEF Store
    <3>3. I2cReceiveData \in [0 .. ReceiveSize - 1 -> Byte] /\ ReceiveSize \in Nat
      BY SizesOK DEF TypeOK
    <3>4. ASSUME NEW i \in 1 .. I2cReceiveDataIndex + 1
          PROVE  I2cReceiveData'[i - 1] = <<transfer', i>>
      <4>1. CASE i = I2cReceiveDataIndex + 1
        BY <1>1, <2>2, <3>1, <3>2, <3>3, <4>1 DEF Payload
      <4>2. CASE i # I2cReceiveDataIndex + 1
        <5>1. i \in 1 .. I2cReceiveDataIndex /\ i - 1 # I2cReceiveDataIndex
          BY <2>2, <4>2
        <5>2. I2cReceiveData'[i - 1] = I2cReceiveData[i - 1]
          BY <2>2, <3>1, <3>2, <3>3, <5>1
        <5>3. I2cReceiveData[i - 1] = Payload(i)
          BY <3>1, <5>1 DEF Stored
        <5> QED
          BY <1>1, <5>2, <5>3 DEF Payload
      <4> QED
        BY <4>1, <4>2
    <3> QED
      BY <1>1, <3>1, <3>2, <3>4 DEF Sent, Payload
  <2>7. CASE OnReadAck /\ twsr = "MR_DATA_ACK"
    <3>1. /\ Command(FALSE, I2cReceiveDataIndex' < I2cReceiveDataLength - 1)
          /\ Store /\ UNCHANGED <<I2cState, mode>>
      BY <2>7, Zenon DEF OnReadAck, i2cReceiveByte
    <3>2. /\ ~twint' /\ (twea' => I2cReceiveDataIndex' < I2cReceiveDataLength - 1)
          /\ (~twea' => ~(I2cReceiveDataIndex' < I2cReceiveDataLength - 1))
      BY <3>1, CommandTests
    <3>3. /\ I2cReceiveDataIndex' = I2cReceiveDataIndex + 1
          /\ UNCHANGED I2cReceiveDataLength /\ mode = "master"
          /\ \A i \in 1 .. I2cReceiveDataIndex + 1 : I2cReceiveData'[i - 1] = <<transfer', i>>
          /\ wire' = [i \in 1 .. I2cReceiveDataIndex + 1 |-> <<transfer', i>>]
          /\ I2cReceiveDataIndex + 1 < arg
      BY <2>6, <2>7, <3>1
    <3>4. /\ (twea' => I2cReceiveDataIndex' + 1 < arg) /\ (~twea' => I2cReceiveDataIndex' + 1 = arg)
          /\ I2cReceiveDataIndex' \in 0 .. arg
      BY <2>2, <3>2, <3>3
    <3>5. ReadStage'
      BY <1>1, <2>7, <3>1, <3>2, <3>3, <3>4 DEF ReadStage, Sent, Payload, Stored
    <3> QED
      BY <1>1, <2>1, <2>3, <3>1, <3>3, <3>4, <3>5 DEF Receiving, Called
  <2>8. CASE OnReadNack
    <3>1. Store /\ twsr = "MR_DATA_NACK" /\ I2cState' = "IDLE"
      BY <2>8 DEF OnReadNack, Finished, Became
    <3>2. Stored(arg)' /\ wire' = Sent(arg)'
      BY <1>1, <2>6, <3>1 DEF Sent, Payload, Stored
    <3> QED
      BY <1>1, <2>1, <2>2, <3>1, <3>2 DEF ReceiveInv
  <2>9. CASE OnNack \/ OnArbLost \/ OnBusError
    <3>1. I2cState' = "IDLE" /\ twsr # "MR_DATA_NACK"
      BY <2>9 DEF OnNack, OnArbLost, OnBusError, Finished, Became
    <3> QED
      BY <1>1, <2>1, <3>1 DEF ReceiveInv
  <2>10. ~OnSendAck
    BY <1>1, <2>1 DEF Receiving, ReadStage, OnSendAck, Disturbance
  <2> QED
    BY <1>1, <2>4, <2>5, <2>7, <2>8, <2>9, <2>10 DEF TWI, OnReadAck, OnSlaveWrite, OnSlaveByte,
       OnSlaveRefused, OnSlaveStop, OnSlaveRead, OnSlaveSent, OnSlaveDone, MasterStatus
<1> QED
  BY <1>1, <1>3, <1>4 DEF SendInv

\* The calls set a transfer up, and give the program what came.
LEMMA ReceiveCalls ==
  MasterInv /\ SendInv /\ ReceiveInv /\ (Call \/ i2cMasterSend \/ i2cMasterReceive)
    => ReceiveInv' /\ NiCounts' /\ NiStage'
<1> SUFFICES ASSUME MasterInv, SendInv, ReceiveInv, Call \/ i2cMasterSend \/ i2cMasterReceive
             PROVE  ReceiveInv' /\ NiCounts' /\ NiStage'
  OBVIOUS
<1> USE DEF At, Goto, NI
<1>1. CASE Call
  <2>1. /\ pc = "idle" /\ pc' \in {"sendWait", "receiveWait", "niDisable"}
        /\ UNCHANGED <<I2cState, twsr>>
    BY <1>1 DEF Call, driver, twi
  <2>2. ReceiveInv' /\ NiStage'
    BY <2>1 DEF ReceiveInv, NiStage
  <2>3. NiCounts'
    <3>1. ASSUME pc' = "niDisable"
          PROVE  arg' \in Lengths /\ left' = arg' /\ got' = <<>> /\ wire' = <<>>
      BY <1>1, <3>1 DEF Call, NewTransfer
    <3>2. ASSUME pc' = "niDisable" PROVE left' \in 0 .. arg'
      <4>1. arg' \in 1 .. SendSize /\ left' = arg'
        BY <3>1, <3>2, SizesOK
      <4> QED
        BY <4>1, SizesOK
    <3> QED
      BY <2>1, <3>1, <3>2, NothingSent DEF NiCounts, Sent
  <2> QED
    BY <2>2, <2>3
<1>2. ASSUME NEW label, NEW next, Ready(label, next), next \in {"sendState", "receiveState"}
      PROVE  ReceiveInv' /\ NiCounts' /\ NiStage'
  BY <1>2, NothingSent DEF Ready, NewTransfer, ReceiveInv, NiCounts, NiStage, Called, Sent, driver
<1>3. CASE SendState \/ SendCopy \/ SendIndex \/ SendLength \/ Start("sendStart", "idle")
  <2>1. /\ pc' \in {"sendCopy", "sendIndex", "sendLength", "sendStart", "idle"}
        /\ I2cState' = "MASTER_TX"
    BY <1>3 DEF SendState, SendCopy, SendIndex, SendLength, Start, Step, Became, SendInv, driver
  <2> QED
    BY <2>1 DEF ReceiveInv, NiCounts, NiStage
<1>4. CASE ReceiveState \/ ReceiveIndex \/ ReceiveLength
  <2>1. /\ UNCHANGED <<arg, retval, wire, transfer>> /\ I2cState' = "MASTER_RX"
        /\ \/ pc = "receiveState" /\ pc' = "receiveIndex"
           \/ pc = "receiveIndex" /\ pc' = "receiveLength" /\ I2cReceiveDataIndex' = 0
           \/ /\ pc = "receiveLength" /\ pc' = "receiveStart" /\ I2cReceiveDataLength' = arg
              /\ UNCHANGED I2cReceiveDataIndex
    BY <1>4 DEF ReceiveState, ReceiveIndex, ReceiveLength, Step, Became, SendInv, ghost
  <2> QED
    BY <2>1 DEF ReceiveInv, NiCounts, NiStage, Called, Sent, Payload
<1>5. CASE Start("receiveStart", "receiveData")
  <2>1. /\ pc = "receiveStart" /\ pc' = "receiveData" /\ mode' = "none" /\ ~twint'
        /\ UNCHANGED <<I2cState, I2cReceiveDataIndex, I2cReceiveDataLength, arg, retval,
                       wire, transfer>>
        /\ I2cState = "MASTER_RX"
    BY <1>5 DEF Start, Step, i2cSendStart, Command, driver, receive, ghost, MasterInv, Starting,
                Free, SendInv
  <2>2. /\ Called' /\ I2cReceiveDataLength' = arg' /\ I2cReceiveDataIndex' = 0
        /\ wire' = Sent(0)' /\ arg' \in Lengths
    BY <2>1 DEF ReceiveInv, Called, Sent, Payload
  <2>3. ReadStage'
    BY <2>1, <2>2 DEF ReadStage
  <2>4. I2cReceiveDataIndex' \in 0 .. arg'
    BY <2>2, SizesOK
  <2>5. Receiving'
    BY <2>2, <2>3, <2>4 DEF Receiving
  <2> QED
    BY <2>1, <2>5 DEF ReceiveInv, NiCounts, NiStage
<1>6. CASE ReceiveReturn
  <2>1. /\ pc = "receiveData" /\ pc' = "idle" /\ I2cState = "IDLE"
        /\ got' = [i \in 1 .. arg |-> I2cReceiveData[i - 1]]
        /\ UNCHANGED <<I2cState, twsr, arg, wire, transfer>>
    BY <1>6 DEF ReceiveReturn, Step, driver, twi, ghost
  <2>2. ASSUME twsr' = "MR_DATA_NACK"
        PROVE  arg' \in Lengths /\ wire' = Sent(arg)' /\ got' = Sent(arg)'
    <3>1. arg \in Lengths /\ wire = Sent(arg) /\ Stored(arg)
      BY <2>1, <2>2 DEF ReceiveInv
    <3>2. got' = Sent(arg)
      BY <2>1, <3>1 DEF Stored, Sent
    <3> QED
      BY <2>1, <3>1, <3>2 DEF Sent, Payload
  <2> QED
    BY <2>1, <2>2 DEF ReceiveInv, NiCounts, NiStage
<1> QED
  BY <1>1, <1>2, <1>3, <1>4, <1>5, <1>6 DEF i2cMasterSend, i2cMasterReceive

LEMMA SentAppend == ASSUME NEW n \in Nat PROVE Append(Sent(n), Payload(n + 1)) = Sent(n + 1)
<1>1. Sent(n) \in Seq({transfer} \X Nat) /\ Len(Sent(n)) = n
  BY DEF Sent, Payload
<1>2. Append(Sent(n), Payload(n + 1))
        = [i \in 1 .. n + 1 |-> IF i <= n THEN Sent(n)[i] ELSE Payload(n + 1)]
  BY <1>1
<1>3. ASSUME NEW i \in 1 .. n + 1
      PROVE  (IF i <= n THEN Sent(n)[i] ELSE Payload(n + 1)) = Payload(i)
  BY <1>3 DEF Sent, Payload
<1> QED
  BY <1>2, <1>3 DEF Sent

\* An NI call counts its bytes down.
LEMMA ReceiveNI ==
  MasterInv /\ SendInv /\ ReceiveInv /\ NiCounts /\ NiStage /\ NonInterrupt
    => ReceiveInv' /\ NiCounts' /\ NiStage'
<1> SUFFICES ASSUME MasterInv, SendInv, ReceiveInv, NiCounts, NiStage, NonInterrupt
             PROVE  ReceiveInv' /\ NiCounts' /\ NiStage'
  OBVIOUS
<1> USE DEF At, Goto, NI
<1>1. CASE NiDisable
  BY <1>1 DEF NiDisable, Step, driver, twi, ghost, SendInv, Before, ReceiveInv, NiCounts, NiStage,
     MasterInv, Free, Sent, Payload
<1>2. CASE NiEnable
  BY <1>2 DEF NiEnable, Step, driver, ghost, SendInv, Before, ReceiveInv, NiCounts, NiStage,
     Sent, Payload
<1>3. CASE Start("niStart", "niAddress")
  BY <1>3 DEF Start, Step, i2cSendStart, Command, driver, ghost, SendInv, Before, ReceiveInv,
     NiCounts, NiStage, Free, Sent, Payload
<1>4. CASE NiAddress
  BY <1>4 DEF NiAddress, Complete, i2cSendByte, Command, driver, ghost, SendInv, Before,
     ReceiveInv, NiCounts, NiStage, Sent, Payload
<1> DEFINE Here == UNCHANGED <<driver, twsr, role, arg, ghost>>
<1>5. CASE NiSend /\ Here
  <2>1. /\ pc \in {"niSend", "niSendData"} /\ pc' \in {"niSendData", "niEnable"}
        /\ UNCHANGED <<I2cState, twsr, arg>> /\ twint /\ twsr # "MR_DATA_NACK"
        /\ pc' = "niSendData" => /\ twsr \in {"MT_SLA_ACK", "MT_DATA_ACK", "MT_DATA_NACK"} \cup Disturbance
                                 /\ ~twsta' /\ left > 0 /\ left' = left - 1
    BY <1>5 DEF NiSend, NiSendByte, NiStop, Complete, i2cSendByte, i2cSendStop, Command, driver,
                NiStage, Disturbance
  <2>2. arg \in Lengths /\ left \in 0 .. arg /\ I2cState = "IDLE"
    BY <2>1 DEF NiCounts, SendInv
  <2>3. arg \in Nat
    BY <2>2, SizesOK
  <2>4. pc' = "niSendData" => left' \in 0 .. arg
    BY <2>1, <2>2, <2>3
  <2> QED
    BY <2>1, <2>2, <2>4 DEF ReceiveInv, NiCounts, NiStage
<1>6. CASE NiReceive /\ Here
  <2>1. /\ I2cState' = "IDLE" /\ UNCHANGED <<twsr, arg, wire, transfer>>
        /\ arg \in Lengths /\ arg \in Nat /\ arg >= 1 /\ left \in 0 .. arg
    <3>1. UNCHANGED <<I2cState, twsr, arg, wire, transfer>>
      BY <1>6 DEF driver, ghost
    <3>2. arg \in Lengths /\ left \in 0 .. arg /\ I2cState = "IDLE"
      BY <1>6 DEF NiReceive, Complete, NiCounts, SendInv
    <3> QED
      BY <3>1, <3>2, SizesOK
  <2>2. ASSUME NiAskByte, pc \in {"niReceive", "niReceiveNext"}, twint,
               left >= 1,
               \/ twsr \in Disturbance
               \/ /\ twsr \in {"MR_SLA_ACK", "MR_DATA_ACK"} /\ mode = "master"
                  /\ got = Sent(arg - left) /\ wire = Sent(arg - left)
        PROVE  ReceiveInv' /\ NiCounts' /\ NiStage'
    <3>1. /\ Command(FALSE, left > 1) /\ pc' = "niReceiveData" /\ UNCHANGED <<got, left, mode>>
      BY <2>2, Zenon DEF NiAskByte, i2cReceiveByte
    <3>2. ~twint' /\ ~twsta'
      BY <3>1 DEF Command
    <3>3. twea' = (left > 1)
      BY <3>1, Zenon DEF Command
    <3>4. (twea' => left > 1) /\ (~twea' => ~(left > 1))
      BY <3>3, Zenon
    <3>5. IF twea' THEN left' > 1 ELSE left' = 1
      BY <2>1, <2>2, <3>1, <3>4
    <3>6. got = Sent(arg - left) => got' = Sent(arg - left)'
      BY <2>1, <3>1 DEF Sent, Payload
    <3>7. wire = Sent(arg - left) => wire' = Sent(arg - left)'
      BY <2>1, <3>1 DEF Sent, Payload
    <3>8. NiStage'
      BY <2>1, <2>2, <3>1, <3>2, <3>5, <3>6, <3>7 DEF NiStage
    <3> QED
      BY <2>1, <2>2, <3>1, <3>8 DEF ReceiveInv, NiCounts
  <2>3. ASSUME Complete("niReceive"), twsr = "MR_SLA_ACK", NiAskByte
        PROVE  ReceiveInv' /\ NiCounts' /\ NiStage'
    <3>1. left = arg /\ got = Sent(0) /\ wire = Sent(0) /\ twint /\ mode = "master"
      BY <2>3 DEF Complete, NiCounts, NiStage, Disturbance
    <3>2. arg - left = 0
      BY <2>1, <3>1
    <3> QED
      BY <2>1, <2>2, <2>3, <3>1, <3>2 DEF Complete
  <2>4. ASSUME At("niReceiveNext"), NiAskByte PROVE ReceiveInv' /\ NiCounts' /\ NiStage'
    BY <2>2, <2>4 DEF NiCounts, NiStage
  <2>5. ASSUME NEW result, NiStop(result), pc \in {"niReceive", "niReceiveStop"},
               twsr = "MR_DATA_NACK" => got = Sent(arg) /\ wire = Sent(arg)
        PROVE  ReceiveInv' /\ NiCounts' /\ NiStage'
    BY <2>1, <2>5 DEF NiStop, ReceiveInv, NiCounts, NiStage, Sent, Payload
  <2>6. ASSUME Complete("niReceive"), twsr # "MR_SLA_ACK", NiStop("NODEV")
        PROVE  ReceiveInv' /\ NiCounts' /\ NiStage'
    BY <2>5, <2>6 DEF Complete, NiStage, Disturbance
  <2>7. ASSUME At("niReceiveStop"), NiStop("OK") PROVE ReceiveInv' /\ NiCounts' /\ NiStage'
    BY <2>5, <2>7 DEF NiStage
  <2>8. ASSUME Complete("niReceiveData"), got' = Append(got, twdr), left' = left - 1,
               pc' = IF left > 1 THEN "niReceiveNext" ELSE "niReceiveStop",
               UNCHANGED <<retval, twcr, twdr, mode>>
        PROVE  ReceiveInv' /\ NiCounts' /\ NiStage'
    <3>1. /\ left >= 1 /\ ~twsta /\ twint /\ UNCHANGED <<twint, twsta, mode>>
          /\ \/ twsr \in Disturbance
             \/ /\ mode = "master" /\ got = Sent(arg - left)
                /\ wire = Sent(arg - left + 1) /\ twdr = Payload(arg - left + 1)
                /\ IF left > 1 THEN twsr = "MR_DATA_ACK" ELSE twsr = "MR_DATA_NACK"
      BY <2>8 DEF Complete, NiCounts, NiStage, twcr
    <3>2. arg - left \in Nat /\ arg - left' = arg - left + 1 /\ left' \in 0 .. arg
      BY <2>1, <2>8, <3>1
    <3>3. ASSUME twsr \notin Disturbance
          PROVE  got' = Sent(arg - left') /\ wire' = Sent(arg - left')
      BY <2>1, <2>8, <3>1, <3>2, <3>3, SentAppend
    <3>4. CASE left > 1
      <4>1. pc' = "niReceiveNext" /\ left' >= 1
        BY <2>1, <2>8, <3>4
      <4>2. twsr \notin Disturbance => got' = Sent(arg - left)' /\ wire' = Sent(arg - left)'
        BY <2>1, <3>3 DEF Sent, Payload
      <4> QED
        BY <2>1, <3>1, <3>2, <3>4, <4>1, <4>2 DEF ReceiveInv, NiCounts, NiStage
    <3>5. CASE ~(left > 1)
      <4>1. pc' = "niReceiveStop" /\ left' = 0
        BY <2>1, <2>8, <3>1, <3>5
      <4>2. twsr \notin Disturbance => got' = Sent(arg)' /\ wire' = Sent(arg)'
        BY <2>1, <3>2, <3>3, <4>1 DEF Sent, Payload
      <4> QED
        BY <2>1, <3>1, <3>2, <3>5, <4>1, <4>2 DEF ReceiveInv, NiCounts, NiStage, Disturbance
    <3> QED
      BY <3>4, <3>5
  <2> QED
    BY <1>6, <2>3, <2>4, <2>6, <2>7, <2>8 DEF NiReceive
<1> QED
  BY <1>1, <1>2, <1>3, <1>4, <1>5, <1>6 DEF NonInterrupt

-----------------------------------------------------------------------------
\* Types.  The driver uses its indices without testing them, so that they stay in
\* their buffers only because of how far a transfer can come, which the inductive
\* invariants of each role say.

DriverTypes ==
  /\ I2cState \in {"IDLE", "MASTER_TX", "MASTER_RX", "SLAVE_TX", "SLAVE_RX"}
  /\ I2cDeviceAddrRW \in {Write, Read}
  /\ I2cSendData \in [0 .. SendSize - 1 -> Byte]
  /\ I2cSendDataIndex \in 0 .. SendSize /\ I2cSendDataLength \in 0 .. SendSize
  /\ I2cReceiveData \in [0 .. ReceiveSize - 1 -> Byte]
  /\ I2cReceiveDataIndex \in 0 .. ReceiveSize /\ I2cReceiveDataLength \in 0 .. ReceiveSize

ProgramTypes ==
  /\ role \in Roles /\ arg \in Nat /\ left \in 0 .. arg /\ retval \in {"none", "OK", "NODEV"}
  /\ got \in Seq(Byte)

WireTypes ==
  /\ wire \in Seq(Byte) /\ transfer \in 0 .. MaxTransfers
  /\ {twint, twie, twea, twsta} \subseteq BOOLEAN /\ twdr \in Byte
  /\ mode \in {"none", "master", "slaveRx", "slaveTx"}

\* A call that waits has its transfer, and one that runs has a length it may ask for.
CallTypes ==
  /\ pc \in {"sendWait", "receiveWait"} => transfer < MaxTransfers
  /\ pc \in {"sendState", "receiveState", "receiveData"} \cup Starting => arg \in Lengths

Types == DriverTypes /\ ProgramTypes /\ WireTypes /\ CallTypes

LEMMA TypesOK == Types => TypeOK
BY DEF Types, DriverTypes, ProgramTypes, WireTypes, TypeOK

LEMMA TypesInit == Init => Types
<1> SUFFICES ASSUME Init PROVE Types
  OBVIOUS
<1>1. Blank \in Byte
  BY SizesOK DEF Blank, Byte
<1>2. /\ I2cSendData \in [0 .. SendSize - 1 -> Byte]
      /\ I2cReceiveData \in [0 .. ReceiveSize - 1 -> Byte]
  BY <1>1 DEF Init
<1>3. DriverTypes
  BY <1>2, SizesOK DEF Init, DriverTypes
<1>4. WireTypes /\ CallTypes
  BY <1>1, SizesOK DEF Init, WireTypes, CallTypes, Starting
<1>5. ProgramTypes
  BY DEF Init, ProgramTypes
<1> QED
  BY <1>3, <1>4, <1>5 DEF Types

LEMMA TypesHardware == Types /\ Hardware => Types'
<1> SUFFICES ASSUME Types, Hardware PROVE Types'
  OBVIOUS
<1> USE SizesOK
<1>1. DriverTypes' /\ ProgramTypes'
  BY DEF Hardware, driver, send, receive, program, Types, DriverTypes, ProgramTypes
<1>2. /\ twint' = TRUE /\ UNCHANGED <<twie, twea, twsta, pc, arg>>
      /\ mode' \in {"none", "master", "slaveRx", "slaveTx"}
  BY DEF Hardware, program, Other, Works, StartSent, AddressSent, ByteSent, ByteRead, Disturbed,
         ByteWritten, WriteEnds, ByteTaken, Addressed, Report, Types, WireTypes
<1>3. \/ UNCHANGED transfer
      \/ transfer + Reserved < MaxTransfers /\ transfer' = transfer + 1 /\ wire' = <<>>
  BY DEF Hardware, Other, Addressed
<1>4. transfer' \in 0 .. MaxTransfers /\ CallTypes'
  BY <1>2, <1>3 DEF Types, WireTypes, CallTypes, Reserved, Starting
<1>5. wire \in Seq(Byte) /\ Len(wire) \in Nat /\ twdr \in Byte
  BY DEF Types, WireTypes
<1>6. Payload(Len(wire) + 1) \in Byte
  BY <1>5, PayloadType DEF Types, WireTypes
<1>7. twdr' \in {twdr, Payload(Len(wire) + 1)}
  BY DEF Hardware, Other, Works, StartSent, AddressSent, ByteSent, ByteRead, Disturbed,
         ByteWritten, WriteEnds, ByteTaken, Addressed
<1>8. wire' \in {wire, <<>>, Append(wire, twdr), Append(wire, twdr')}
  BY DEF Hardware, Other, Works, StartSent, AddressSent, ByteSent, ByteRead, Disturbed,
         ByteWritten, WriteEnds, ByteTaken, Addressed
<1>9. twdr' \in Byte
  BY <1>5, <1>6, <1>7
<1>10. wire' \in Seq(Byte)
  <2>1. ASSUME NEW b \in Byte PROVE Append(wire, b) \in Seq(Byte)
    BY <1>5
  <2>2. <<>> \in Seq(Byte)
    OBVIOUS
  <2> QED
    BY <1>5, <1>8, <1>9, <2>1, <2>2
<1>11. WireTypes'
  BY <1>2, <1>4, <1>9, <1>10 DEF Types, WireTypes
<1> QED
  BY <1>1, <1>4, <1>11 DEF Types

\* The interrupt, where it stores or sends at an index that is in the buffer.
LEMMA TypesTWI ==
  ASSUME Types, TWI,
         twsr \in {"MR_DATA_ACK", "MR_DATA_NACK", "SR_DATA_ACK"} => I2cReceiveDataIndex < ReceiveSize,
         twsr = "ST_DATA_ACK" => I2cSendDataIndex < SendSize
  PROVE  Types'
<1> USE SizesOK
<1>1. UNCHANGED <<program, ghost>>
  BY DEF TWI
<1>2. ProgramTypes' /\ CallTypes' /\ wire' \in Seq(Byte) /\ transfer' \in 0 .. MaxTransfers
  BY <1>1 DEF program, ghost, Types, ProgramTypes, CallTypes, WireTypes
<1>3. DriverTypes /\ WireTypes
  BY DEF Types
<1>4. ASSUME NEW ack \in BOOLEAN, NEW start \in BOOLEAN, Command(start, ack),
             twdr' \in Byte, mode' \in {mode, "none"}
      PROVE  WireTypes'
  BY <1>2, <1>3, <1>4 DEF Command, WireTypes
<1>5. ASSUME NEW a, NEW b, Command(FALSE, a < b), twdr' \in Byte, UNCHANGED mode
      PROVE  WireTypes'
  <2>1. twint' = FALSE /\ twsta' = FALSE /\ twie' = twie /\ twea' \in BOOLEAN
    BY <1>5, CommandTests
  <2> QED
    BY <1>2, <1>3, <1>5, <2>1 DEF WireTypes
<1>6. Write \in Byte /\ Read \in Byte
  BY DEF Write, Read, Byte
<1>7. ASSUME Store, I2cReceiveDataIndex < ReceiveSize
      PROVE  /\ I2cReceiveData' \in [0 .. ReceiveSize - 1 -> Byte]
             /\ I2cReceiveDataIndex' \in 0 .. ReceiveSize
             /\ I2cReceiveDataLength' \in 0 .. ReceiveSize
  BY <1>3, <1>7 DEF Store, DriverTypes, WireTypes
<1>8. CASE OnStart
  <2>1. DriverTypes'
    BY <1>3, <1>8 DEF OnStart, driver, send, receive, DriverTypes
  <2>2. Command(FALSE, FALSE) /\ twdr' \in Byte /\ UNCHANGED mode
    BY <1>3, <1>6, <1>8 DEF OnStart, i2cSendByte, DriverTypes
  <2> QED
    BY <1>2, <1>4, <2>1, <2>2 DEF Types
<1>9. CASE OnSendAck
  <2>1. CASE I2cSendDataIndex < I2cSendDataLength
    <3>1. /\ Command(FALSE, FALSE) /\ UNCHANGED mode
          /\ twdr' = I2cSendData[I2cSendDataIndex] /\ I2cSendDataIndex' = I2cSendDataIndex + 1
          /\ UNCHANGED <<I2cState, I2cDeviceAddrRW, I2cSendData, I2cSendDataLength, receive>>
      BY <1>9, <2>1 DEF OnSendAck, i2cSendByte
    <3>2. twdr' \in Byte /\ I2cSendDataIndex' \in 0 .. SendSize
      BY <1>3, <2>1, <3>1 DEF DriverTypes
    <3>3. DriverTypes'
      BY <1>3, <3>1, <3>2 DEF DriverTypes, receive
    <3> QED
      BY <1>2, <1>4, <3>1, <3>2, <3>3 DEF Types
  <2>2. CASE ~(I2cSendDataIndex < I2cSendDataLength)
    <3>1. /\ Command(FALSE, TRUE) /\ mode' = "none" /\ UNCHANGED twdr /\ I2cState' = "IDLE"
          /\ UNCHANGED <<I2cSendDataIndex, I2cDeviceAddrRW, I2cSendData, I2cSendDataLength, receive>>
      BY <1>9, <2>2 DEF OnSendAck, Finished, i2cSendStop, Became
    <3>2. DriverTypes' /\ twdr' \in Byte
      BY <1>3, <3>1 DEF DriverTypes, receive, WireTypes
    <3> QED
      BY <1>2, <1>4, <3>1, <3>2 DEF Types
  <2> QED
    BY <2>1, <2>2
<1>10. CASE OnReadNack
  <2>1. /\ Command(FALSE, TRUE) /\ mode' = "none" /\ UNCHANGED twdr /\ I2cState' = "IDLE"
        /\ UNCHANGED <<I2cDeviceAddrRW, send>> /\ Store /\ twsr = "MR_DATA_NACK"
    BY <1>10 DEF OnReadNack, Finished, i2cSendStop, Became
  <2>2. DriverTypes' /\ twdr' \in Byte
    BY <1>3, <1>7, <2>1 DEF DriverTypes, send, WireTypes
  <2> QED
    BY <1>2, <1>4, <2>1, <2>2 DEF Types
<1>11. CASE OnNack \/ OnBusError \/ OnArbLost \/ OnSlaveRefused \/ OnSlaveStop \/ OnSlaveDone
  <2>1. /\ Command(FALSE, TRUE) \/ Command(FALSE, FALSE)
        /\ mode' \in {mode, "none"} /\ UNCHANGED twdr
        /\ I2cState' \in {I2cState, "IDLE"} /\ UNCHANGED <<I2cDeviceAddrRW, send, receive>>
    BY <1>11 DEF OnNack, OnBusError, OnArbLost, OnSlaveRefused, OnSlaveStop, OnSlaveDone,
                 Finished, i2cSendStop, i2cReceiveByte, Became, driver
  <2>2. DriverTypes' /\ twdr' \in Byte
    BY <1>3, <2>1 DEF DriverTypes, send, receive, WireTypes
  <2> QED
    BY <1>2, <1>4, <2>1, <2>2 DEF Types
<1>12. CASE OnReadAck
  <2>1. /\ Command(FALSE, I2cReceiveDataIndex' < I2cReceiveDataLength - 1)
        /\ UNCHANGED <<twdr, mode, I2cState, I2cDeviceAddrRW, send>>
    BY <1>12, Zenon DEF OnReadAck, i2cReceiveByte
  <2>2. UNCHANGED receive \/ (Store /\ I2cReceiveDataIndex < ReceiveSize)
    BY <1>12 DEF OnReadAck
  <2>3. DriverTypes' /\ twdr' \in Byte
    BY <1>3, <1>7, <2>1, <2>2 DEF DriverTypes, send, receive, WireTypes
  <2> QED
    BY <1>2, <1>5, <2>1, <2>3 DEF Types
<1>13. CASE OnSlaveWrite
  <2>1. /\ Command(FALSE, TRUE) /\ UNCHANGED <<twdr, mode>>
        /\ I2cState' = "SLAVE_RX" /\ I2cReceiveDataIndex' = 0
        /\ UNCHANGED <<I2cDeviceAddrRW, send, I2cReceiveData, I2cReceiveDataLength>>
    BY <1>13 DEF OnSlaveWrite, i2cReceiveByte, Became
  <2>2. DriverTypes' /\ twdr' \in Byte
    BY <1>3, <2>1 DEF DriverTypes, send, WireTypes
  <2> QED
    BY <1>2, <1>4, <2>1, <2>2 DEF Types
<1>14. CASE OnSlaveByte
  <2>1. /\ Command(FALSE, I2cReceiveDataIndex' < ReceiveSize)
        /\ UNCHANGED <<twdr, mode, I2cState, I2cDeviceAddrRW, send>>
        /\ Store /\ twsr = "SR_DATA_ACK"
    BY <1>14, Zenon DEF OnSlaveByte, i2cReceiveByte
  <2>2. DriverTypes' /\ twdr' \in Byte
    BY <1>3, <1>7, <2>1 DEF DriverTypes, send, WireTypes
  <2> QED
    BY <1>2, <1>5, <2>1, <2>2 DEF Types
<1>15. CASE OnSlaveRead
  <2>1. /\ Command(FALSE, 0 + 1 < I2cSendDataLength') /\ UNCHANGED mode
        /\ twdr' = I2cSendData'[0] /\ I2cSendDataIndex' = 0 + 1
    BY <1>15, Zenon DEF OnSlaveRead, Transmit
  <2>2. I2cState' = "SLAVE_TX" /\ UNCHANGED <<I2cDeviceAddrRW, receive>>
    BY <1>15 DEF OnSlaveRead, Became
  <2>3. /\ I2cSendData' \in [0 .. SendSize - 1 -> Byte]
        /\ I2cSendDataLength' \in 0 .. SendSize
    <3>1. CASE HandlerFills
      <4>1. PICK length \in Lengths \cup {0} :
              /\ I2cSendDataLength' = length
              /\ I2cSendData' = [i \in 0 .. SendSize - 1 |->
                                   IF i < length THEN Payload(i + 1) ELSE I2cSendData[i]]
        BY <3>1 DEF HandlerFills
      <4>2. \A i \in 0 .. SendSize - 1 : I2cSendData[i] \in Byte /\ Payload(i + 1) \in Byte
        BY <1>3, PayloadType DEF DriverTypes, WireTypes
      <4> QED
        BY <4>1, <4>2
    <3>2. CASE UNCHANGED <<I2cSendData, I2cSendDataLength>>
      BY <1>3, <3>2 DEF DriverTypes
    <3> QED
      BY <1>15, <3>1, <3>2 DEF OnSlaveRead
  <2>4. twdr' \in Byte
    BY <2>1, <2>3
  <2>5. I2cSendDataIndex' \in 0 .. SendSize
    BY <2>1
  <2>6. DriverTypes'
    BY <1>3, <2>2, <2>3, <2>5 DEF DriverTypes, receive
  <2>7. WireTypes'
    BY <1>5, <2>1, <2>4
  <2> QED
    BY <1>2, <2>6, <2>7 DEF Types
<1>16. CASE OnSlaveSent
  <2>1. /\ Command(FALSE, I2cSendDataIndex + 1 < I2cSendDataLength) /\ UNCHANGED mode
        /\ twdr' = I2cSendData[I2cSendDataIndex] /\ I2cSendDataIndex' = I2cSendDataIndex + 1
        /\ UNCHANGED <<I2cState, I2cDeviceAddrRW, I2cSendData, I2cSendDataLength, receive>>
    BY <1>16, Zenon DEF OnSlaveSent, Transmit
  <2>2. I2cSendDataIndex < SendSize
    BY <1>16 DEF OnSlaveSent
  <2>3. twdr' \in Byte /\ I2cSendDataIndex' \in 0 .. SendSize
    BY <1>3, <2>1, <2>2 DEF DriverTypes
  <2>4. DriverTypes'
    BY <1>3, <2>1, <2>3 DEF DriverTypes, receive
  <2>5. WireTypes'
    BY <1>5, <2>1, <2>3
  <2> QED
    BY <1>2, <2>4, <2>5 DEF Types
<1> QED
  BY <1>8, <1>9, <1>10, <1>11, <1>12, <1>13, <1>14, <1>15, <1>16 DEF TWI

\* The program's steps; the lengths of an NI call are those that are counted down.
LEMMA TypesCalls == Types /\ (Call \/ i2cMasterSend \/ i2cMasterReceive) => Types'
<1> SUFFICES ASSUME Types, Call \/ i2cMasterSend \/ i2cMasterReceive PROVE Types'
  OBVIOUS
<1> USE SizesOK DEF At, Goto
<1>1. DriverTypes /\ ProgramTypes /\ WireTypes /\ CallTypes
  BY DEF Types
<1>2. ASSUME NEW length \in Lengths, NewTransfer(length), transfer < MaxTransfers, UNCHANGED role,
             UNCHANGED <<driver, twi>>, pc' \in {"niDisable", "sendState", "receiveState"}
      PROVE  Types'
  <2>1. DriverTypes'
    BY <1>1, <1>2 DEF driver, send, receive, DriverTypes
  <2>2. WireTypes'
    BY <1>1, <1>2 DEF NewTransfer, twi, twcr, WireTypes
  <2>3. ProgramTypes' /\ CallTypes'
    BY <1>1, <1>2 DEF NewTransfer, ProgramTypes, CallTypes, Starting
  <2> QED
    BY <2>1, <2>2, <2>3 DEF Types
<1>3. CASE Call
  <2>1. CASE \E length \in Lengths : NewTransfer(length) /\ pc' = "niDisable"
    BY <1>2, <1>3, <2>1 DEF Call
  <2>2. CASE pc' \in {"sendWait", "receiveWait"} /\ UNCHANGED <<arg, got, left, retval, ghost>>
    <3>1. DriverTypes' /\ WireTypes'
      BY <1>1, <1>3, <2>2 DEF Call, driver, send, receive, twi, twcr, ghost, DriverTypes, WireTypes
    <3>2. ProgramTypes' /\ CallTypes'
      BY <1>1, <1>3, <2>2 DEF Call, ghost, ProgramTypes, CallTypes, Starting
    <3> QED
      BY <3>1, <3>2 DEF Types
  <2> QED
    BY <1>3, <2>1, <2>2 DEF Call
<1>4. CASE Ready("sendWait", "sendState") \/ Ready("receiveWait", "receiveState")
  <2>1. transfer < MaxTransfers
    BY <1>1, <1>4 DEF Ready, CallTypes
  <2> QED
    BY <1>2, <1>4, <2>1 DEF Ready
<1>5. ASSUME DriverTypes', UNCHANGED <<role, arg, left, retval, ghost>>, got' \in Seq(Byte),
             {twint', twie', twea', twsta'} \subseteq BOOLEAN, twdr' = twdr, mode' = mode,
             pc' \notin {"sendWait", "receiveWait"},
             pc' \in {"sendState", "receiveState", "receiveData"} \cup Starting =>
               pc \in {"sendState", "receiveState"} \cup Starting
      PROVE  Types'
  <2>1. WireTypes' /\ ProgramTypes' /\ CallTypes'
    BY <1>1, <1>5 DEF WireTypes, ProgramTypes, CallTypes, ghost
  <2> QED
    BY <1>5, <2>1 DEF Types
<1>6. ASSUME UNCHANGED twi
      PROVE  {twint', twie', twea', twsta'} \subseteq BOOLEAN /\ twdr' = twdr /\ mode' = mode
  BY <1>1, <1>6 DEF twi, twcr, WireTypes
<1>7. got \in Seq(Byte)
  BY <1>1 DEF ProgramTypes
<1>8. CASE SendState \/ SendIndex \/ ReceiveState \/ ReceiveIndex
  <2>1. DriverTypes'
    BY <1>1, <1>8 DEF SendState, SendIndex, ReceiveState, ReceiveIndex, Became, send, receive,
                      DriverTypes
  <2>2. /\ UNCHANGED <<twi, got, role, arg, left, retval, ghost>>
        /\ pc \in {"sendState", "receiveState"} \cup Starting /\ pc' \in Starting
    BY <1>8 DEF SendState, SendIndex, ReceiveState, ReceiveIndex, Step, Starting
  <2> QED
    BY <1>5, <1>6, <1>7, <2>1, <2>2 DEF Starting
<1>9. CASE SendCopy
  <2>1. \A i \in 0 .. SendSize - 1 : I2cSendData[i] \in Byte /\ Payload(i + 1) \in Byte
    BY <1>1, PayloadType DEF DriverTypes, WireTypes
  <2>2. I2cSendData' \in [0 .. SendSize - 1 -> Byte]
    BY <1>9, <2>1 DEF SendCopy
  <2>3. DriverTypes'
    BY <1>1, <1>9, <2>2 DEF SendCopy, receive, DriverTypes
  <2>4. /\ UNCHANGED <<twi, got, role, arg, left, retval, ghost>>
        /\ pc \in Starting /\ pc' \in Starting
    BY <1>9 DEF SendCopy, Step, Starting
  <2> QED
    BY <1>5, <1>6, <1>7, <2>3, <2>4 DEF Starting
<1>10. CASE SendLength \/ ReceiveLength
  <2>1. arg \in Lengths /\ pc \in Starting
    BY <1>1, <1>10 DEF SendLength, ReceiveLength, Step, CallTypes, Starting
  <2>2. arg \in 0 .. SendSize /\ arg \in 0 .. ReceiveSize
    BY <2>1
  <2>3. DriverTypes'
    BY <1>1, <1>10, <2>2 DEF SendLength, ReceiveLength, send, receive, DriverTypes
  <2>4. UNCHANGED <<twi, got, role, arg, left, retval, ghost>> /\ pc' \in Starting
    BY <1>10 DEF SendLength, ReceiveLength, Step, Starting
  <2> QED
    BY <1>5, <1>6, <1>7, <2>1, <2>3, <2>4 DEF Starting
<1>11. CASE Start("sendStart", "idle") \/ Start("receiveStart", "receiveData")
  <2>1. DriverTypes'
    BY <1>1, <1>11 DEF Start, driver, send, receive, DriverTypes
  <2>2. /\ UNCHANGED <<got, role, arg, left, retval, ghost, twdr, mode, twie>>
        /\ twint' = FALSE /\ twsta' = TRUE /\ twea' = FALSE
        /\ pc \in Starting /\ pc' \in {"idle", "receiveData"}
    BY <1>11 DEF Start, Step, i2cSendStart, Command, Starting
  <2>3. {twint', twie', twea', twsta'} \subseteq BOOLEAN
    BY <1>1, <2>2 DEF WireTypes
  <2> QED
    BY <1>5, <1>7, <2>1, <2>2, <2>3
<1>12. CASE ReceiveReturn
  <2>1. DriverTypes'
    BY <1>1, <1>12 DEF ReceiveReturn, driver, send, receive, DriverTypes
  <2>2. arg \in Lengths /\ I2cReceiveData \in [0 .. ReceiveSize - 1 -> Byte]
    BY <1>1, <1>12 DEF ReceiveReturn, Step, CallTypes, DriverTypes
  <2>3. arg \in 1 .. ReceiveSize
    BY <2>2
  <2>4. \A i \in 1 .. arg : I2cReceiveData[i - 1] \in Byte
    BY <2>2, <2>3
  <2>5. got' \in Seq(Byte)
    BY <1>12, <2>3, <2>4 DEF ReceiveReturn
  <2>6. UNCHANGED <<twi, role, arg, left, retval, ghost>> /\ pc' = "idle"
    BY <1>12 DEF ReceiveReturn, Step
  <2> QED
    BY <1>5, <1>6, <2>1, <2>5, <2>6 DEF Starting
<1> QED
  BY <1>3, <1>4, <1>8, <1>9, <1>10, <1>11, <1>12 DEF i2cMasterSend, i2cMasterReceive

LEMMA TypesNI == Types /\ NiCounts /\ NonInterrupt => Types'
<1> SUFFICES ASSUME Types, NiCounts, NonInterrupt PROVE Types'
  OBVIOUS
<1> USE SizesOK DEF At, Goto
<1>1. DriverTypes /\ ProgramTypes /\ WireTypes /\ CallTypes
  BY DEF Types
<1>2. /\ UNCHANGED <<driver, role, arg, ghost>> /\ pc \in NI \cup {"niDisable", "niEnable"}
      /\ pc' \in NI \cup {"niEnable", "idle"}
  BY DEF NonInterrupt, NiDisable, Start, NiAddress, NiSend, NiReceive, NiEnable, Step, NiSendByte,
         NiStop, NiAskByte, Complete, NI
<1>3. DriverTypes' /\ CallTypes' /\ wire' \in Seq(Byte) /\ transfer' \in 0 .. MaxTransfers
      /\ role' \in Roles /\ arg' \in Nat
  BY <1>1, <1>2 DEF driver, send, receive, ghost, DriverTypes, ProgramTypes, WireTypes, CallTypes,
                    NI, Starting
<1>4. /\ got \in Seq(Byte) /\ left \in 0 .. arg /\ arg \in Nat /\ twdr \in Byte
      /\ retval \in {"none", "OK", "NODEV"}
  BY <1>1 DEF ProgramTypes, WireTypes
<1>5. Write \in Byte /\ Read \in Byte
  BY DEF Write, Read, Byte
<1>6. Payload(arg - left + 1) \in Byte
  BY <1>1, <1>4, PayloadType DEF WireTypes
<1>7. /\ twdr' \in Byte /\ mode' \in {mode, "none"}
      /\ twint' \in BOOLEAN /\ twie' \in BOOLEAN /\ twsta' \in BOOLEAN
  BY <1>1, <1>4, <1>5, <1>6 DEF NonInterrupt, NiDisable, Start, NiAddress, NiSend, NiReceive,
     NiEnable, Step, NiSendByte, NiStop, NiAskByte, Complete, i2cSendStart, i2cSendStop,
     i2cSendByte, i2cReceiveByte, Command, twcr, WireTypes
<1>8. twea' \in BOOLEAN
  <2>1. CASE NiAskByte
    <3>1. twea' = (left > 1)
      BY <2>1, Zenon DEF NiAskByte, i2cReceiveByte, Command
    <3> QED
      BY <3>1
  <2>2. CASE ~NiAskByte
    BY <1>1, <2>2 DEF NonInterrupt, NiDisable, Start, NiAddress, NiSend, NiReceive,
       NiEnable, NiSendByte, NiStop, i2cSendStart, i2cSendStop, i2cSendByte, Command, twcr, WireTypes
  <2> QED
    BY <2>1, <2>2
<1>9. WireTypes'
  BY <1>1, <1>3, <1>7, <1>8 DEF WireTypes
<1>10. retval' \in {"none", "OK", "NODEV"}
  BY <1>4 DEF NonInterrupt, NiDisable, Start, NiAddress, NiSend, NiReceive, NiEnable, Step,
     NiSendByte, NiStop, NiAskByte
<1>11. got' \in Seq(Byte) /\ left' \in 0 .. arg
  <2>1. CASE UNCHANGED <<got, left>>
    BY <1>4, <2>1
  <2>2. CASE UNCHANGED got /\ left > 0 /\ left' = left - 1
    BY <1>4, <2>2
  <2>3. CASE got' = Append(got, twdr) /\ left >= 1 /\ left' = left - 1
    BY <1>4, <2>3
  <2> QED
    BY <2>1, <2>2, <2>3 DEF NonInterrupt, NiDisable, Start, NiAddress, NiSend, NiReceive, NiEnable,
       Step, NiSendByte, NiStop, NiAskByte, Complete, NiCounts
<1>12. ProgramTypes'
  BY <1>2, <1>3, <1>10, <1>11 DEF ProgramTypes
<1> QED
  BY <1>3, <1>9, <1>12 DEF Types

\* A master: what it reads fits the length that it asked for.
ReadInv == ReceiveInv /\ NiCounts /\ NiStage /\ Types

LEMMA ReadStep == role = "master" /\ MasterInv /\ SendInv /\ ReadInv /\ [Next]_vars => ReadInv'
<1> SUFFICES ASSUME role = "master", MasterInv, SendInv, ReadInv, [Next]_vars PROVE ReadInv'
  OBVIOUS
<1> USE DEF ReadInv
<1>1. CASE UNCHANGED vars
  <2>1. UNCHANGED <<driver, twi, program, ghost>>
    BY <1>1 DEF vars
  <2>2. ReceiveInv' /\ NiCounts'
    BY <2>1 DEF driver, send, receive, twi, twcr, program, ghost, ReceiveInv, Receiving, Called,
                ReadStage, Stored, Sent, Payload, NiCounts
  <2>3. NiStage'
    BY <2>1 DEF twi, twcr, program, ghost, NiStage, Free, Sent, Payload
  <2>4. Types'
    BY <2>1 DEF driver, send, receive, twi, twcr, program, ghost, Types, DriverTypes,
                ProgramTypes, WireTypes, CallTypes
  <2> QED
    BY <2>2, <2>3, <2>4
<1>2. CASE Hardware
  BY <1>2, ReceiveHardware, NiHardware, TypesHardware
<1>3. CASE TWI
  <2>1. /\ twint /\ pc \in Waiting /\ I2cState \in {"MASTER_TX", "MASTER_RX"}
        /\ twsr \in MasterStatus /\ UNCHANGED pc
    BY <1>3 DEF TWI, program, MasterInv, SendInv, Free
  <2>2. NiCounts' /\ NiStage'
    BY <2>1 DEF NiCounts, NiStage, Waiting, Between, NI
  <2>3. ASSUME twsr \in {"MR_DATA_ACK", "MR_DATA_NACK", "SR_DATA_ACK"}
        PROVE  I2cReceiveDataIndex < ReceiveSize
    <3>1. I2cState = "MASTER_RX"
      BY <2>1, <2>3 DEF SendInv, Sending, Stage, Transferring, MasterStatus
    <3>2. Receiving
      BY <2>1, <3>1 DEF ReceiveInv, Waiting, Between
    <3>3. /\ I2cReceiveDataIndex + 1 <= arg /\ arg \in 1 .. ReceiveSize
          /\ I2cReceiveDataIndex \in Nat
      BY <2>1, <2>3, <3>2, SizesOK DEF Receiving, Called, ReadStage, Disturbance, MasterStatus
    <3> QED
      BY <3>3, SizesOK
  <2>4. Types'
    BY <1>3, <2>1, <2>3, TypesTWI DEF MasterStatus
  <2> QED
    BY <1>3, <2>2, <2>4, ReceiveTWI, TypesOK
<1>4. CASE Call \/ i2cMasterSend \/ i2cMasterReceive
  BY <1>4, ReceiveCalls, TypesCalls
<1>5. CASE NonInterrupt
  BY <1>5, ReceiveNI, TypesNI
<1> QED
  BY <1>1, <1>2, <1>3, <1>4, <1>5 DEF Next, Program

LEMMA ReadHolds == Spec => [](role = "master" => SendInv /\ ReadInv)
<1>1. Init => (role = "master" => ReadInv)
  BY ReceiveInit, TypesInit DEF ReadInv
<1>2. /\ role = "master" => MasterInv /\ SendInv
      /\ role = "master" => ReadInv
      /\ [Next]_vars
      => (role = "master" => ReadInv)'
  BY ReadStep, RoleStays
<1>3. (role = "master" => MasterInv /\ SendInv) /\ (role = "master" => ReadInv)
      => (role = "master" => SendInv /\ ReadInv)
  OBVIOUS
<1> QED
  BY <1>1, <1>2, <1>3, SendHolds, PTL DEF Spec

\* Undisturbed, i2cMasterReceive and i2cMasterReceiveNI give the program exactly
\* the bytes that it asked for.
THEOREM ReceivesReturn == Spec => []ReceiveReturns
<1>1. (role = "master" => SendInv /\ ReadInv) => ReceiveReturns
  <2> SUFFICES ASSUME ReadInv, pc = "idle", I2cState = "IDLE", twsr = "MR_DATA_NACK"
               PROVE  got = wire /\ Len(wire) = arg /\ InOrder(wire)
    BY DEF ReceiveReturns
  <2>1. arg \in Lengths /\ wire = Sent(arg) /\ got = Sent(arg)
    BY DEF ReadInv, ReceiveInv
  <2>2. arg \in Nat
    BY <2>1, SizesOK
  <2> QED
    BY <2>1, <2>2 DEF Sent, InOrder
<1> QED
  BY <1>1, ReadHolds, PTL

\* A slave's types, from what the interface reports to it.
LEMMA SlaveTypesHold == Spec => [](role = "slave" => Types)
<1>1. Init => (role = "slave" => Types)
  BY TypesInit
<1>2. (role = "slave" => SlaveInv) /\ (role = "slave" => Types) /\ [Next]_vars
      => (role = "slave" => Types)'
  <2> SUFFICES ASSUME role = "slave", SlaveInv, Types, [Next]_vars PROVE Types'
    BY RoleStays
  <2>1. ~Call /\ ~Program
    BY DEF SlaveInv, Call, Program, i2cMasterSend, i2cMasterReceive, NonInterrupt, Ready, Step,
           Start, SendState, SendCopy, SendIndex, SendLength, ReceiveState, ReceiveIndex,
           ReceiveLength, ReceiveReturn, NiDisable, NiAddress, NiSend, NiReceive, NiEnable,
           Complete, At
  <2>2. CASE UNCHANGED vars
    BY <2>2 DEF vars, driver, send, receive, twi, twcr, program, ghost, Types, DriverTypes,
                ProgramTypes, WireTypes, CallTypes
  <2>3. CASE TWI
    <3>1. Reported /\ SlaveTypes
      BY <2>3 DEF TWI, SlaveInv, SlaveTypes
    <3>2. ASSUME twsr \in {"MR_DATA_ACK", "MR_DATA_NACK", "SR_DATA_ACK"}
          PROVE  I2cReceiveDataIndex < ReceiveSize
      BY <3>1, <3>2 DEF Reported
    <3>3. ASSUME twsr = "ST_DATA_ACK" PROVE I2cSendDataIndex < SendSize
      BY <3>1, <3>3, SizesOK DEF Reported, SlaveTypes
    <3> QED
      BY <2>3, <3>2, <3>3, TypesTWI
  <2> QED
    BY <2>1, <2>2, <2>3, TypesHardware DEF Next
<1> QED
  BY <1>1, <1>2, SlaveHolds, PTL DEF Spec

\* The indices of both buffers stay in them, which nothing in the interrupt tests,
\* in a program that is a master or a slave.
THEOREM TypeCorrect == "both" \notin Roles => (Spec => []TypeOK)
<1>1. ASSUME "both" \notin Roles
      PROVE  (role = "master" => SendInv /\ ReadInv) /\ (role = "slave" => Types)
               /\ role \in Roles => TypeOK
  BY <1>1, I2cAssumption, TypesOK DEF ReadInv
<1>2. Init => role \in Roles
  BY DEF Init
<1>3. role \in Roles /\ [Next]_vars => (role \in Roles)'
  BY RoleStays
<1>4. Spec => [](role \in Roles)
  BY <1>2, <1>3, PTL DEF Spec
<1> SUFFICES ASSUME "both" \notin Roles PROVE Spec => []TypeOK
  OBVIOUS
<1>5. (role = "master" => SendInv /\ ReadInv) /\ (role = "slave" => Types) /\ role \in Roles
        => TypeOK
  BY <1>1
<1> QED
  BY <1>4, <1>5, ReadHolds, SlaveTypesHold, PTL
=============================================================================
