------------------------------- MODULE UartSw -------------------------------
(***************************************************************************)
(* The software UART of avrlib/uartsw.c on timer 1, its output wired to    *)
(* its own input: the compare interrupt A puts a byte on the line bit by   *)
(* bit, the capture interrupt sees a start bit, and the compare interrupt  *)
(* B samples the bits.  They run between two steps of uartswSendByte, some *)
(* of them at a bad moment: `clash' says that one did.  A tic is a CPU     *)
(* cycle, so time passes during calls and handlers too.                    *)
(* The receive buffer is the FIFO that buffer.c implements.                *)
(***************************************************************************)
EXTENDS Timer1, Sequences

CONSTANTS
  DataBits,                 \* bits of a byte: 8
  UartswBaudRateDiv,        \* tics of a bit
  UARTSW_RX_BUFFER_SIZE,
  Bytes,                    \* what the program sends
  Latency,                  \* tics in which a call and the interrupts that
                            \* came are done with
  Radix,                    \* values of a byte of a 16-bit register: 2^8
  MaxBytes                  \* bound: bytes the program sends

ASSUME UartSwAssumption ==
  /\ Compare = {"A", "B"}
  /\ DataBits \in 1 .. 8 /\ Bytes \subseteq 0 .. 2^DataBits - 1
  /\ UartswBaudRateDiv \in 2 .. TimerSize \div 2 - 1
  /\ Latency \in Nat /\ 2 * Latency < UartswBaudRateDiv \div 2
  /\ Radix \in Nat \ {0} /\ TimerSize % Radix = 0
  /\ UARTSW_RX_BUFFER_SIZE \in Nat \ {0}
  /\ MaxBytes \in Nat

VARIABLES
  UartswTxBusy, UartswTxData, UartswTxBitNum,
  UartswRxBusy, UartswRxData, UartswRxBitNum, uartswRxBuffer,
  line,         \* the level of the wire: 0 or 1
  pc, reg,      \* where uartswSendByte is, and its copy of TIMSK1;
  word,         \* of TCNT1, or of what it sets OCR1A to
  TEMP,         \* the high byte of the 16-bit register access under way
  lag,          \* tics since the CPU was last done with all it had to do
  clash,        \* ghost: an interrupt came where the call cannot stand it
  sent,         \* ghost: the bytes given to uartswSendByte
  arrived,      \* ghost: how many bytes were sampled
  kept,         \* ghost: the bytes sent that found room, 256: one nobody sent
  got           \* ghost: the bytes uartswReceiveByte gave the program

tx == <<UartswTxBusy, UartswTxData, UartswTxBitNum>>
rx == <<UartswRxBusy, UartswRxData, UartswRxBitNum, uartswRxBuffer, arrived, kept>>
program == <<pc, reg, word, sent>>
vars == <<timervars, tx, rx, program, line, got, TEMP, lag, clash>>

Byte == 0 .. 2^DataBits - 1

\* uartswInit, after timerInit.
Init ==
  /\ TCNT1 = 0 /\ OCR1 = [u \in Compare |-> 0]
  /\ TIMSK1 = {"CAPT"} /\ TIFR1 = {}
  /\ TimerIntFunc = [s \in Sources |->
       IF s = "A" THEN "uartswTxBitService" ELSE "uartswRxBitService"]
  /\ UartswTxBusy = FALSE /\ UartswTxData = 0 /\ UartswTxBitNum = 0
  /\ UartswRxBusy = FALSE /\ UartswRxData = 0 /\ UartswRxBitNum = 0
  /\ uartswRxBuffer = <<>>
  /\ line = 1
  /\ pc = "idle" /\ reg = {} /\ word = 0 /\ TEMP = 0 /\ lag = 0 /\ clash = FALSE
  /\ sent = <<>> /\ arrived = 0 /\ kept = <<>> /\ got = <<>>

\* The wire takes a level; the capture unit flags a falling edge.
Drive(level, flags) ==
  /\ line' = level
  /\ TIFR1' = IF line = 1 /\ level = 0 THEN flags \cup {"CAPT"} ELSE flags

-----------------------------------------------------------------------------
Calling == pc \notin {"idle", "wait"}
Settled == ~Calling /\ AllServed

Tic ==
  /\ Settled \/ lag < Latency
  /\ Elapse
  /\ lag' = IF Settled THEN 0 ELSE lag + 1
  /\ UNCHANGED <<tx, rx, program, line, got, TEMP, clash>>

\* A 16-bit register's high byte, in its place, and its low byte.
High(x) == x - (x % Radix)
Low(x) == x % Radix

\* A step that leaves the CPU with nothing to do ends the delay.
Catches == lag' = IF Settled' THEN 0 ELSE lag

\* Where an interrupt changes what the call has only half of: TEMP, or TIMSK1.
HalfDone == pc \in {"tcnth", "ocrl", "write"}

\* (mutant: compare A is disabled with the last bit still to end)
Bit_disable(level) ==
  /\ Drive(level, TIFR1 \ {"A"})
  /\ OCR1' = [OCR1 EXCEPT !["A"] = After(@, UartswBaudRateDiv)] /\ TEMP' = High(OCR1'["A"])
  /\ UartswTxBitNum' = UartswTxBitNum - 1
  /\ TIMSK1' = IF UartswTxBitNum = 1 THEN TIMSK1 \ {"A"} ELSE TIMSK1
  /\ UNCHANGED UartswTxBusy

\* A data bit or the stop bit goes out.
Bit(level) ==
  /\ Drive(level, TIFR1 \ {"A"})
  /\ OCR1' = [OCR1 EXCEPT !["A"] = After(@, UartswBaudRateDiv)] /\ TEMP' = High(OCR1'["A"])
  /\ UartswTxBitNum' = UartswTxBitNum - 1
  /\ UNCHANGED <<TIMSK1, UartswTxBusy>>

uartswTxBitService ==
  /\ Runs("A", "uartswTxBitService")
  /\ CASE UartswTxBitNum > 1 ->
            Bit(UartswTxData % 2) /\ UartswTxData' = UartswTxData \div 2
       [] UartswTxBitNum = 1 -> Bit(1) /\ UNCHANGED UartswTxData
       [] OTHER ->
            /\ UartswTxBusy' = FALSE
            /\ TIFR1' = TIFR1 \ {"A"}
            /\ UNCHANGED <<OCR1, TEMP, TIMSK1, UartswTxData, UartswTxBitNum, line>>
  /\ clash' = (clash \/ pc \notin {"idle", "wait", "busy"})
  /\ UNCHANGED <<TCNT1, TimerIntFunc, rx, program, got>>
  /\ Catches

\* (mutant: the first sample is taken half a bit early)
FirstSample_early == After(TCNT1, UartswBaudRateDiv - 1)

FirstSample == After(TCNT1, UartswBaudRateDiv + UartswBaudRateDiv \div 2)

StartBit(s) ==
  /\ ~UartswRxBusy
  /\ TIMSK1' = (TIMSK1 \ {"CAPT"}) \cup {"B"}
  /\ OCR1' = [OCR1 EXCEPT !["B"] = FirstSample]
  /\ TIFR1' = TIFR1 \ {s, "B"}
  /\ UartswRxBusy' = TRUE /\ UartswRxBitNum' = 0 /\ UartswRxData' = 0
  /\ UNCHANGED <<uartswRxBuffer, arrived, kept>>

\* Shifted right, with the level of the line as the top bit.
Sampled == UartswRxData \div 2 + line * 2^(DataBits - 1)

\* (mutant: a byte is stored whether or not there is room)
Store_full(b) ==
  /\ arrived' = arrived + 1
  /\ uartswRxBuffer' = Append(uartswRxBuffer, b)
  /\ kept' = Append(kept, IF arrived < Len(sent) THEN sent[arrived + 1] ELSE 256)

\* bufferAddToEnd, whose refusal nobody looks at.
Store(b) ==
  /\ arrived' = arrived + 1
  /\ IF Len(uartswRxBuffer) < UARTSW_RX_BUFFER_SIZE
       THEN /\ uartswRxBuffer' = Append(uartswRxBuffer, b)
            /\ kept' = Append(kept, IF arrived < Len(sent) THEN sent[arrived + 1] ELSE 256)
       ELSE UNCHANGED <<uartswRxBuffer, kept>>

\* (mutant: the edges inside the byte leave the capture flag up)
LastBit_keepsFlag ==
  /\ Store(Sampled)
  /\ TIMSK1' = (TIMSK1 \ {"B"}) \cup {"CAPT"}
  /\ TIFR1' = TIFR1 \ {"B"}
  /\ UartswRxBusy' = FALSE

LastBit ==
  /\ Store(Sampled)
  /\ TIMSK1' = (TIMSK1 \ {"B"}) \cup {"CAPT"}
  /\ TIFR1' = TIFR1 \ {"B", "CAPT"}
  /\ UartswRxBusy' = FALSE

DataBit(s) ==
  /\ UartswRxBusy
  /\ UartswRxData' = Sampled
  /\ UartswRxBitNum' = UartswRxBitNum + 1
  /\ OCR1' = [OCR1 EXCEPT !["B"] = After(@, UartswBaudRateDiv)]
  /\ IF UartswRxBitNum + 1 >= DataBits
       THEN LastBit
       ELSE /\ TIFR1' = TIFR1 \ {s}
            /\ UNCHANGED <<TIMSK1, UartswRxBusy, uartswRxBuffer, arrived, kept>>

uartswRxBitService(s) ==
  /\ Runs(s, "uartswRxBitService")
  /\ StartBit(s) \/ DataBit(s)
  /\ TEMP' = High(OCR1'["B"])
  /\ clash' = (clash \/ HalfDone)
  /\ UNCHANGED <<TCNT1, TimerIntFunc, tx, program, line, got>>
  /\ Catches

-----------------------------------------------------------------------------
\* uartswSendByte.  A pending interrupt comes before the program's next step;
\* only that of the call's own start bit has to come back over the wire first.
Step(from, to) ==
  /\ TIFR1 \cap TIMSK1 \subseteq {"CAPT"}
  /\ pc = from /\ pc' = to
  /\ UNCHANGED <<rx, got, clash, TCNT1, TimerIntFunc>>

SendByte(b) ==
  /\ Len(sent) < MaxBytes
  /\ Step("idle", "wait")
  /\ sent' = Append(sent, b)
  /\ UNCHANGED <<OCR1, TIMSK1, TIFR1, TEMP, tx, reg, word, line>>
  /\ Catches

Ready ==
  /\ ~UartswTxBusy
  /\ Step("wait", "busy")
  /\ UNCHANGED <<OCR1, TIMSK1, TIFR1, TEMP, tx, reg, word, sent, line>>

SetBusy ==
  /\ Step("busy", "data")
  /\ UartswTxBusy' = TRUE
  /\ UNCHANGED <<OCR1, TIMSK1, TIFR1, TEMP, UartswTxData, UartswTxBitNum, reg, word, sent, line>>

SetData ==
  /\ Step("data", "bits")
  /\ UartswTxData' = sent[Len(sent)]
  /\ UNCHANGED <<OCR1, TIMSK1, TIFR1, TEMP, UartswTxBusy, UartswTxBitNum, reg, word, sent, line>>

SetBits ==
  /\ Step("bits", "start")
  /\ UartswTxBitNum' = DataBits + 1
  /\ UNCHANGED <<OCR1, TIMSK1, TIFR1, TEMP, UartswTxBusy, UartswTxData, reg, word, sent, line>>

SetStartBit ==
  /\ Step("start", "ocr")
  /\ Drive(0, TIFR1)
  /\ UNCHANGED <<OCR1, TIMSK1, TEMP, tx, reg, word, sent>>

\* The low byte of TCNT1 is read first, the high byte of OCR1A written first.
ReadLow ==
  /\ Step("ocr", "tcnth")
  /\ word' = Low(TCNT1) /\ TEMP' = High(TCNT1)
  /\ UNCHANGED <<OCR1, TIMSK1, TIFR1, tx, reg, sent, line>>

ReadHigh ==
  /\ Step("tcnth", "ocrh")
  /\ word' = After(TEMP + word, UartswBaudRateDiv)
  /\ UNCHANGED <<OCR1, TIMSK1, TIFR1, TEMP, tx, reg, sent, line>>

WriteHigh ==
  /\ Step("ocrh", "ocrl")
  /\ TEMP' = High(word)
  /\ UNCHANGED <<OCR1, TIMSK1, TIFR1, tx, reg, word, sent, line>>

WriteLow ==
  /\ Step("ocrl", "read")
  /\ OCR1' = [OCR1 EXCEPT !["A"] = TEMP + Low(word)]
  /\ word' = 0
  /\ UNCHANGED <<TIMSK1, TIFR1, TEMP, tx, reg, sent, line>>

SetCompare == ReadLow \/ ReadHigh \/ WriteHigh \/ WriteLow

\* sbi(TIMSK1, OCIE1A): the register is read and written.
ReadMask ==
  /\ Step("read", "write")
  /\ reg' = TIMSK1
  /\ UNCHANGED <<OCR1, TIMSK1, TIFR1, TEMP, tx, word, sent, line>>

WriteMask ==
  /\ AllServed
  /\ Step("write", "idle")
  /\ TIMSK1' = reg \cup {"A"} /\ reg' = {}
  /\ UNCHANGED <<OCR1, TIFR1, TEMP, tx, word, sent, line>>

uartswSendByte ==
  /\ \/ Ready \/ SetBusy \/ SetData \/ SetBits \/ SetStartBit
     \/ SetCompare \/ ReadMask \/ WriteMask
  /\ Catches

uartswReceiveByte ==
  /\ pc = "idle" /\ AllServed
  /\ uartswRxBuffer # <<>>
  /\ got' = Append(got, Head(uartswRxBuffer))
  /\ uartswRxBuffer' = Tail(uartswRxBuffer)
  /\ UNCHANGED <<timervars, tx, UartswRxBusy, UartswRxData, UartswRxBitNum,
                 arrived, kept, program, line, TEMP, clash>>
  /\ Catches

Interrupt == uartswTxBitService \/ \E s \in Sources : uartswRxBitService(s)

Next ==
  \/ Tic \/ Interrupt
  \/ (\E b \in Bytes : SendByte(b)) \/ uartswSendByte
  \/ uartswReceiveByte

\* Time passes, interrupts are served, a call goes on; the program need not
\* send, nor read what came.
Spec ==
  /\ Init /\ [][Next]_vars
  /\ WF_vars(Tic) /\ WF_vars(Interrupt) /\ SF_vars(uartswSendByte)

-----------------------------------------------------------------------------
Highs == {x \in Tics : Low(x) = 0}

\* Every variable has its type, the receive buffer its size.
TypeOK ==
  /\ TimerTypeOK
  /\ UartswTxBusy \in BOOLEAN /\ UartswTxData \in Byte /\ UartswTxBitNum \in 0 .. DataBits + 1
  /\ UartswRxBusy \in BOOLEAN /\ UartswRxData \in Byte /\ UartswRxBitNum \in 0 .. DataBits
  /\ uartswRxBuffer \in Seq(Byte) /\ Len(uartswRxBuffer) <= UARTSW_RX_BUFFER_SIZE
  /\ line \in {0, 1}
  /\ pc \in {"idle", "wait", "busy", "data", "bits", "start", "ocr", "tcnth", "ocrh", "ocrl",
              "read", "write"}
  /\ reg \subseteq Sources /\ word \in Tics /\ TEMP \in Highs
  /\ lag \in 0 .. Latency /\ clash \in BOOLEAN
  /\ sent \in Seq(Bytes) /\ arrived \in Nat
  /\ kept \in Seq(Byte \cup {256}) /\ got \in Seq(Byte)

\* Until an interrupt clashes with a call, what the program receives is what it
\* sent, in order, with no bit changed and nothing added; only a byte that comes
\* to a full buffer is missing.
InOrder == ~clash => got \o uartswRxBuffer = kept

\* Until then the two halves of the driver are a serial line: what reaches the
\* buffer is what is on its way, in that order, however often the line fell and
\* whenever the program reads (uartsw.c:126-148, 188-295).
LinkSpec == INSTANCE Link WITH Capacity <- UARTSW_RX_BUFFER_SIZE, buffer <- uartswRxBuffer,
              inFlight <- SubSeq(sent, arrived + 1, Len(sent))
RefinesLink == LinkSpec!Init /\ [][clash' \/ LinkSpec!Next]_(LinkSpec!vars)

\* Every byte given to uartswSendByte, which may have to wait for the one
\* before it, gets across the wire, unless an interrupt clashes with a call.
Delivered == \A n \in 1 .. MaxBytes : Len(sent) >= n ~> arrived >= n \/ clash
=============================================================================
