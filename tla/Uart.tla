-------------------------------- MODULE Uart --------------------------------
(***************************************************************************)
(* The buffered UART driver of avrlib/uart.c: the receive interrupt, which *)
(* may run between any two instructions of the main program, and the main  *)
(* program's calls.  The AVR moves 16-bit values as two bytes, so a call   *)
(* that touches a 16-bit field outside a critical section is two steps, in *)
(* the order the compiler picks; a cBuffer function is one step.  The      *)
(* program may also call buffer.h's functions, with the buffer that        *)
(* uartGetRxBuffer hands out.                                              *)
(*                                                                         *)
(* Received bytes are numbered in the order of their arrival, so that a    *)
(* lost, repeated or overtaken byte shows.                                 *)
(***************************************************************************)
EXTENDS CBuffer, Integers, FiniteSets

CONSTANTS
  Radix,        \* values of one byte: 256 on the AVR
  Handlers,     \* addresses <<hi, lo>> of functions for uartSetRxHandler
  MaxRx         \* bound: how many bytes arrive

ASSUME UartAssumption ==
  /\ Radix \in Nat \ {0, 1}
  /\ Handlers \subseteq ((0 .. Radix - 1) \X (0 .. Radix - 1)) \ {<<0, 0>>}
  /\ MaxRx \in Nat
  /\ Data = 0 .. MaxRx

NoFunc == <<0, 0>>
Halves == {1, 2}                \* of a 16-bit value: 1 is high, 2 is low
Other(h) == 3 - h
Half(h, n) == IF h = 1 THEN n \div Radix ELSE n % Radix
\* n after its half h has been overwritten with 0.
ClearHalf(h, n) == IF h = 1 THEN n % Radix ELSE Radix * (n \div Radix)

VARIABLES
  UartRxFunc,       \* the two halves of the receive handler's address
  uartRxOverflow,
  udr,              \* the UART's own two-byte receive FIFO
  udre,             \* data register empty: UDR takes a byte to send
  pc,               \* where the main program is
  half,             \* the half it touched first
  seen,             \* that half of datalength, in a test for data
  func,             \* the argument of uartSetRxHandler
  ret,              \* what the program's last call of a buffer function returned
  fate,             \* ghost: what became of every byte
  old               \* ghost: bytes in the buffer when the call began

vars == <<bufvars, UartRxFunc, uartRxOverflow, udr, udre, pc, half, seen, func,
          ret, fate, old>>
mainvars == <<pc, half, seen, func, ret, old>>

Fates == {"none", "udr", "lost", "handled", "overflow", "buffer", "flushed", "read"}
Having(f) == {b \in 1 .. MaxRx : fate[b] = f}

\* The bytes of the buffer.
Held == {Contents[i] : i \in 1 .. datalength}

\* Interrupts are off until uartInit ends, so it is one step: the buffer is
\* empty, no handler is set, the receiver runs.
Init ==
  /\ bufferInit
  /\ UartRxFunc = NoFunc
  /\ uartRxOverflow = 0
  /\ udr = <<>> /\ udre = TRUE
  /\ pc = "idle" /\ half = 1 /\ seen = 0 /\ func = NoFunc /\ ret = 0
  /\ fate = [b \in 1 .. MaxRx |-> "none"]
  /\ old = {}

-----------------------------------------------------------------------------
\* The hardware.

\* The next byte arrives; with the FIFO full, and the interrupt late, it is
\* lost (data overrun).
Arrive ==
  \E b \in Having("none") :
    /\ \A c \in 1 .. b - 1 : fate[c] # "none"
    /\ IF Len(udr) < 2
         THEN udr' = Append(udr, b) /\ fate' = [fate EXCEPT ![b] = "udr"]
         ELSE fate' = [fate EXCEPT ![b] = "lost"] /\ UNCHANGED udr
    /\ UNCHANGED <<bufvars, UartRxFunc, uartRxOverflow, udre, mainvars>>

\* The transmitter takes the byte of UDR.
Shift ==
  /\ ~udre
  /\ udre' = TRUE
  /\ UNCHANGED <<bufvars, UartRxFunc, uartRxOverflow, udr, fate, mainvars>>

-----------------------------------------------------------------------------
\* ISR(USART_RX_vect).

\* (mutant: the address is called without a test for 0)
CallsHandler_untested(b) ==
  /\ fate' = [fate EXCEPT ![b] = "handled"]
  /\ pc' = IF UartRxFunc \in Handlers THEN pc ELSE "wild"
  /\ UNCHANGED <<bufvars, uartRxOverflow>>

CallsHandler(b) ==
  /\ UartRxFunc # NoFunc
  /\ fate' = [fate EXCEPT ![b] = "handled"]
  \* A call through an address nobody set: the program is gone.
  /\ pc' = IF UartRxFunc \in Handlers THEN pc ELSE "wild"
  /\ UNCHANGED <<bufvars, uartRxOverflow>>

Buffers(b) ==
  /\ UartRxFunc = NoFunc
  /\ bufferAddToEnd(b)
  /\ IF AddResult # 0
       THEN fate' = [fate EXCEPT ![b] = "buffer"] /\ UNCHANGED uartRxOverflow
       ELSE /\ fate' = [fate EXCEPT ![b] = "overflow"]
            /\ uartRxOverflow' = (uartRxOverflow + 1) % Word
  /\ UNCHANGED pc

\* (mutant: a byte stays in UDR while the buffer is full)
USART_RX_waits ==
  /\ udr # <<>> /\ pc # "wild" /\ HasRoom
  /\ udr' = Tail(udr)
  /\ CallsHandler(Head(udr)) \/ Buffers(Head(udr))
  /\ UNCHANGED <<UartRxFunc, udre, half, seen, func, ret, old>>

USART_RX ==
  /\ udr # <<>>
  /\ pc # "wild"
  /\ udr' = Tail(udr)
  /\ CallsHandler(Head(udr)) \/ Buffers(Head(udr))
  /\ UNCHANGED <<UartRxFunc, udre, half, seen, func, ret, old>>

-----------------------------------------------------------------------------
\* The main program.

Idle == pc = "idle"

\* A call returns, and its local variables with it.
Return ==
  /\ pc' = "idle"
  /\ half' = 1 /\ seen' = 0 /\ func' = NoFunc /\ old' = {}

hw == <<udr, udre>>

\* The first half of a test `if (uartRxBuffer.datalength)'.
BeginTest(h, next) ==
  /\ Idle
  /\ pc' = next
  /\ half' = h
  /\ seen' = Half(h, datalength)
  /\ old' = Held
  /\ UNCHANGED <<bufvars, UartRxFunc, uartRxOverflow, hw, fate, func, ret>>

\* (mutants: no test; a test of one half)
FindsData_always  == TRUE
FindsData_oneHalf == seen # 0

\* What the test finds, with its second half read now.
FindsData == seen # 0 \/ Half(Other(half), datalength) # 0

CallReceiveByte(h) == BeginTest(h, "receive")
CallIsEmpty(h)     == BeginTest(h, "isEmpty")

\* (mutant: the function waits for a byte)
uartReceiveByte_waits ==
  /\ pc = "receive"
  /\ FindsData
  /\ pc' = "get" /\ UNCHANGED <<half, seen, func, old>>
  /\ UNCHANGED <<bufvars, UartRxFunc, uartRxOverflow, hw, fate, ret>>

\* uartReceiveByte, and uartGetByte, which answers -1 for FALSE.
uartReceiveByte ==
  /\ pc = "receive"
  /\ IF FindsData THEN pc' = "get" /\ UNCHANGED <<half, seen, func, old>> ELSE Return
  /\ UNCHANGED <<bufvars, UartRxFunc, uartRxOverflow, hw, fate, ret>>

\* Bytes that a step takes out of the buffer have become f.
Leaving(f) ==
  fate' = [b \in 1 .. MaxRx |-> IF fate[b] = "buffer" /\ b \notin Held' THEN f ELSE fate[b]]

GetFromFront ==
  /\ bufferGetFromFront
  /\ ret' = FrontByte
  /\ Leaving("read")

\* ... and its call of bufferGetFromFront.
ReceiveGet ==
  /\ pc = "get"
  /\ GetFromFront
  /\ Return
  /\ UNCHANGED <<UartRxFunc, uartRxOverflow, hw>>

uartReceiveBufferIsEmpty ==
  /\ pc = "isEmpty"
  /\ IF FindsData THEN Return
                  ELSE pc' = "saidEmpty" /\ UNCHANGED <<half, seen, func, old>>
  /\ UNCHANGED <<bufvars, UartRxFunc, uartRxOverflow, hw, ret, fate>>

ReturnEmpty ==
  /\ pc = "saidEmpty"
  /\ Return
  /\ UNCHANGED <<bufvars, UartRxFunc, uartRxOverflow, hw, ret, fate>>

\* uartRxBuffer.datalength = 0, one half and then the other.
ClearLength(h) ==
  /\ datalength' = ClearHalf(h, datalength)
  /\ UNCHANGED <<dataptr, dataindex>>
  /\ Leaving("flushed")
  /\ UNCHANGED <<UartRxFunc, uartRxOverflow, hw, ret>>

CallFlush(h) ==
  /\ Idle
  /\ ClearLength(h)
  /\ pc' = "flush" /\ half' = h /\ old' = Held
  /\ UNCHANGED <<seen, func>>

\* (mutant: one half of the length is left alone)
uartFlushReceiveBuffer_half ==
  /\ pc = "flush"
  /\ Return
  /\ UNCHANGED <<bufvars, UartRxFunc, uartRxOverflow, hw, ret, fate>>

uartFlushReceiveBuffer ==
  /\ pc = "flush"
  /\ ClearLength(Other(half))
  /\ Return

\* UartRxFunc = rx_func, one half and then the other.
CallSetRxHandler(h, f) ==
  /\ Idle
  /\ UartRxFunc' = [UartRxFunc EXCEPT ![h] = f[h]]
  /\ pc' = "handler" /\ half' = h /\ func' = f
  /\ UNCHANGED <<bufvars, uartRxOverflow, hw, seen, ret, fate, old>>

uartSetRxHandler ==
  /\ pc = "handler"
  /\ UartRxFunc' = [UartRxFunc EXCEPT ![Other(half)] = func[Other(half)]]
  /\ Return
  /\ UNCHANGED <<bufvars, uartRxOverflow, hw, ret, fate>>

\* uartSendByte waits until UDR is free and fills it.
CallSendByte ==
  /\ Idle
  /\ pc' = "send"
  /\ UNCHANGED <<bufvars, UartRxFunc, uartRxOverflow, hw, half, seen, func, ret,
                 fate, old>>

uartSendByte ==
  /\ pc = "send"
  /\ udre
  /\ udre' = FALSE
  /\ Return
  /\ UNCHANGED <<bufvars, UartRxFunc, uartRxOverflow, udr, ret, fate>>

\* A function of buffer.h, called with the buffer of uartGetRxBuffer: each is one
\* critical section.  bufferGetAtIndex does not check its index; a caller stays
\* below the length, which only the caller itself can lower.
CallBuffer ==
  /\ Idle
  /\ \/ GetFromFront
     \/ \E n \in 0 .. Word - 1 : bufferDumpFromFront(n) /\ Leaving("flushed") /\ UNCHANGED ret
     \/ bufferFlush /\ Leaving("flushed") /\ UNCHANGED ret
     \/ /\ \/ \E i \in 0 .. datalength - 1 : ret' = bufferGetAtIndex(i)
           \/ ret' = bufferIsNotFull
        /\ UNCHANGED <<bufvars, fate>>
  /\ UNCHANGED <<UartRxFunc, uartRxOverflow, hw, pc, half, seen, func, old>>

Call ==
  \/ CallBuffer
  \/ \E h \in Halves : CallReceiveByte(h) \/ CallIsEmpty(h) \/ CallFlush(h)
  \/ \E h \in Halves, f \in Handlers \cup {NoFunc} : CallSetRxHandler(h, f)
  \/ CallSendByte

\* The rest of the call that is under way.
Continue ==
  \/ uartReceiveByte \/ ReceiveGet \/ uartReceiveBufferIsEmpty \/ ReturnEmpty
  \/ uartFlushReceiveBuffer \/ uartSetRxHandler \/ uartSendByte

Next == Arrive \/ Shift \/ USART_RX \/ Call \/ Continue

\* The CPU goes on executing a call and the transmitter shifts bits; nobody has
\* to call anything or send a byte.  A pending interrupt is taken at the latest
\* one instruction after interrupts come back on, however briefly they do.
Fairness == WF_vars(Continue) /\ SF_vars(USART_RX) /\ WF_vars(Shift)

Spec == Init /\ [][Next]_vars /\ Fairness

-----------------------------------------------------------------------------
TypeOK ==
  /\ BufTypeOK
  /\ UartRxFunc \in (0 .. Radix - 1) \X (0 .. Radix - 1)
  /\ uartRxOverflow \in 0 .. Word - 1
  /\ udr \in Seq(1 .. MaxRx) /\ Len(udr) <= 2
  /\ udre \in BOOLEAN
  /\ pc \in {"idle", "receive", "get", "isEmpty", "saidEmpty", "flush", "handler",
             "send", "wild"}
  /\ half \in Halves
  /\ seen \in Nat
  /\ func \in Handlers \cup {NoFunc}
  /\ ret \in Data \cup 0 .. Size
  /\ fate \in [1 .. MaxRx -> Fates]
  /\ old \subseteq 1 .. MaxRx

\* The buffer holds, in the order of arrival, exactly the bytes that the
\* interrupt put there and that were neither read nor flushed since: whatever
\* the interleaving, no byte is lost without an overflow, and none shows twice.
BufferIsExact ==
  /\ Held = Having("buffer")
  /\ \A i, j \in 1 .. datalength : i < j => Contents[i] < Contents[j]

\* uartReceiveByte tests datalength and then calls bufferGetFromFront in two
\* critical sections; between them the data can only grow.
ReceiveFindsByte == pc = "get" => datalength # 0

\* Two single-byte reads of datalength never make a buffer that held data when
\* the call began look empty.
NoFalseEmpty ==
  [][/\ pc = "receive" /\ pc' = "idle" => old = {}
     /\ pc' = "saidEmpty" /\ pc # "saidEmpty" => old = {}]_vars

\* uart.c:147-149: the plain assignment in uartFlushReceiveBuffer has the "same
\* effect as" bufferFlush: no byte from before the call is left in the buffer.
FlushForgets == [][pc = "flush" /\ pc' = "idle" => Held' \cap old = {}]_vars

\* buffer.h: "The buffers are designed for FIFO operation".  Seen through
\* Contents, the buffer the interrupt and the program share is a bounded queue,
\* at every interleaving; uartRxOverflow counts what it refused.
FifoSpec == INSTANCE Fifo WITH q <- Contents, refused <- uartRxOverflow
RefinesFifo == FifoSpec!Spec

\* uart.c:66: the interrupt runs "the supplied user function".
OnlySuppliedFunction == pc # "wild"

\* A jump through a mix of two addresses has one cause, an interrupt between the
\* two stores of uartSetRxHandler (uart.c:67): at any other time the interrupt
\* runs a function the program supplied, or none.
MixOnlyInSet == [][pc' = "wild" /\ pc # "wild" => pc = "handler"]_vars

\* Every byte the UART received is dealt with by the interrupt, unless a mixed
\* address ended the program.
ByteServed == \A b \in 1 .. MaxRx : fate[b] = "udr" ~> fate[b] # "udr" \/ pc = "wild"

\* Every call returns, with the same exception.
CallsReturn == pc # "idle" ~> pc \in {"idle", "wild"}

-----------------------------------------------------------------------------
\* The inductive invariant behind the safety properties, for buffers whose
\* length fits one byte (Size < Radix).

\* Bytes arrive in order, and wait in udr in order, after all buffered ones.
InOrder ==
  /\ \A b, c \in 1 .. MaxRx : b < c /\ fate[c] # "none" => fate[b] # "none"
  /\ \A i \in 1 .. Len(udr) : fate[udr[i]] = "udr"
  /\ \A i, j \in 1 .. Len(udr) : i < j => udr[i] < udr[j]
  /\ \A b \in 1 .. MaxRx, i \in 1 .. Len(udr) : fate[b] = "buffer" => b < udr[i]

\* What a call under way knows of the buffer.
CallInv ==
  /\ \A b \in old : fate[b] \notin {"none", "udr"}
  /\ pc \in {"receive", "isEmpty"} /\ old # {} =>
       datalength # 0 /\ (half = 2 => seen # 0)
  /\ pc \in {"receive", "isEmpty"} /\ seen # 0 => datalength # 0
  /\ pc = "saidEmpty" => old = {}
  /\ pc = "flush" /\ half = 2 => Held \cap old = {}

IInv == TypeOK /\ BufferIsExact /\ ReceiveFindsByte /\ InOrder /\ CallInv
=============================================================================
