----------------------------- MODULE UartProofs -----------------------------
(***************************************************************************)
(* The receive side of the UART driver is right for every buffer size      *)
(* below Radix (256), every number of bytes, every set of handlers and     *)
(* every order in which the compiler touches the halves of a short.        *)
(***************************************************************************)
EXTENDS Uart, CBufferProofs

\* A length below Radix lives in its low half.
LEMMA HalvesOfShort ==
  ASSUME Size < Radix, NEW n \in 0 .. Size
  PROVE  /\ Half(1, n) = 0 /\ Half(2, n) = n
         /\ ClearHalf(1, n) = n /\ ClearHalf(2, n) = 0
  <1>1. n \in Nat /\ n < Radix /\ Radix \in Nat \ {0}
    BY SizeAssumption, UartAssumption
  <1>2. n \div Radix = 0 /\ n % Radix = n
    BY <1>1
  <1>3. QED
    BY <1>1, <1>2 DEF Half, ClearHalf

\* A step that leaves the buffer alone leaves its contents alone.
LEMMA SameContents ==
  ASSUME UNCHANGED bufvars
  PROVE  Contents' = Contents /\ Held' = Held
  BY DEF bufvars, Contents, Slot, Held

\* ... and, unless it changes which bytes are in the buffer, the buffer is exact.
LEMMA SameExact ==
  ASSUME BufferIsExact, UNCHANGED bufvars, Having("buffer")' = Having("buffer")
  PROVE  BufferIsExact'
  <1>1. Contents' = Contents /\ Held' = Held /\ datalength' = datalength
    BY SameContents DEF bufvars
  <1>2. QED
    BY <1>1 DEF BufferIsExact

\* The bytes of the buffer are numbers of bytes that arrived.
LEMMA HeldFacts ==
  ASSUME IInv
  PROVE  /\ Held \subseteq 1 .. MaxRx
         /\ \A b \in Held : fate[b] = "buffer"
         /\ Held # {} => datalength # 0
  BY SizeAssumption DEF IInv, BufferIsExact, Having, Held, TypeOK, BufTypeOK

-----------------------------------------------------------------------------
\* The hardware.

LEMMA ArriveKeeps ==
  ASSUME IInv, Arrive
  PROVE  IInv'
  <1> USE UartAssumption
  <1>1. PICK b \in Having("none") :
          /\ \A c \in 1 .. b - 1 : fate[c] # "none"
          /\ \/ udr' = Append(udr, b) /\ fate' = [fate EXCEPT ![b] = "udr"] /\ Len(udr) < 2
             \/ udr' = udr /\ fate' = [fate EXCEPT ![b] = "lost"]
    BY DEF Arrive
  <1>2. UNCHANGED <<bufvars, UartRxFunc, uartRxOverflow, udre, mainvars>>
    BY DEF Arrive
  <1>3. b \in 1 .. MaxRx /\ fate[b] = "none"
    BY DEF Having
  <1>4. TypeOK'
    <2> USE DEF IInv, TypeOK
    <2>1. udr \in Seq(1 .. MaxRx) /\ Len(udr) <= 2
      OBVIOUS
    <2>2. udr' \in Seq(1 .. MaxRx) /\ Len(udr') <= 2
      <3>1. CASE udr' = Append(udr, b) /\ Len(udr) < 2
        <4>1. Append(udr, b) \in Seq(1 .. MaxRx) /\ Len(Append(udr, b)) = Len(udr) + 1
          BY ONLY <1>3, <2>1, AppendProperties
        <4>2. Len(udr) \in Nat
          BY <2>1
        <4>3. QED
          BY <3>1, <4>1, <4>2
      <3>2. QED
        BY <1>1, <2>1, <3>1
    <2>3. fate' \in [1 .. MaxRx -> Fates]
      BY <1>1, <1>3 DEF Fates
    <2>4. QED
      BY <1>2, <2>2, <2>3 DEF BufTypeOK, bufvars, mainvars
  <1>5. Having("buffer")' = Having("buffer")
    BY <1>1, <1>3 DEF Having, IInv, TypeOK
  <1>6. BufferIsExact'
    BY <1>2, <1>5, SameExact DEF IInv
  <1>7. ReceiveFindsByte'
    BY <1>2 DEF IInv, ReceiveFindsByte, bufvars, mainvars
  <1>8. InOrder'
    <2> USE DEF IInv, InOrder, TypeOK, BufTypeOK
    <2>1. \A c \in 1 .. MaxRx : fate[c] # "none" => c < b
      BY <1>3
    <2>2. \A c, d \in 1 .. MaxRx : c < d /\ fate'[d] # "none" => fate'[c] # "none"
      BY <1>1, <1>3, SMTT(30)
    <2>3. CASE udr' = Append(udr, b) /\ fate' = [fate EXCEPT ![b] = "udr"]
      <3>1. /\ Len(udr') = Len(udr) + 1
            /\ \A i \in 1 .. Len(udr) : udr'[i] = udr[i]
            /\ udr'[Len(udr) + 1] = b
        BY <1>3, <2>3
      <3>2. \A i \in 1 .. Len(udr) : udr[i] \in 1 .. MaxRx /\ udr[i] < b /\ udr[i] # b
        BY <1>3, <2>1, SMTT(30)
      <3>3. \A i \in 1 .. Len(udr') : fate'[udr'[i]] = "udr"
        BY <1>3, <2>3, <3>1, <3>2
      <3>4. \A i, j \in 1 .. Len(udr') : i < j => udr'[i] < udr'[j]
        BY <3>1, <3>2, SMTT(30)
      <3>5. \A c \in 1 .. MaxRx, i \in 1 .. Len(udr') : fate'[c] = "buffer" => c < udr'[i]
        BY <1>3, <2>1, <2>3, <3>1, <3>2
      <3>6. QED
        BY <2>2, <3>3, <3>4, <3>5
    <2>4. CASE udr' = udr /\ fate' = [fate EXCEPT ![b] = "lost"]
      BY <1>3, <2>2, <2>4
    <2>5. QED
      BY <1>1, <2>3, <2>4
  <1>9. CallInv'
    <2>1. Held' = Held
      BY <1>2, SameContents
    <2>2. \A c \in old' : fate'[c] \notin {"none", "udr"}
      BY <1>1, <1>2, <1>3 DEF IInv, CallInv, mainvars, TypeOK
    <2>3. QED
      BY <1>2, <2>1, <2>2 DEF IInv, CallInv, mainvars, bufvars
  <1>10. QED
    BY <1>4, <1>6, <1>7, <1>8, <1>9 DEF IInv

\* What changes neither the bytes nor the buffer keeps their part of IInv.
LEMMA QuietStep ==
  ASSUME IInv, UNCHANGED <<bufvars, udr, fate>>, TypeOK'
  PROVE  BufferIsExact' /\ InOrder' /\ Held' = Held /\ Having("buffer")' = Having("buffer")
  <1>1. Having("buffer")' = Having("buffer")
    BY DEF Having
  <1>2. BufferIsExact'
    BY <1>1, SameExact DEF IInv
  <1>3. InOrder'
    BY DEF IInv, InOrder
  <1>4. QED
    BY <1>1, <1>2, <1>3, SameContents

LEMMA ShiftKeeps ==
  ASSUME IInv, Shift
  PROVE  IInv'
  <1>1. TypeOK'
    BY DEF IInv, Shift, TypeOK, BufTypeOK, bufvars, mainvars
  <1>2. BufferIsExact' /\ InOrder' /\ Held' = Held
    BY <1>1, QuietStep DEF Shift
  <1>3. QED
    BY <1>1, <1>2 DEF IInv, Shift, ReceiveFindsByte, CallInv, bufvars, mainvars

-----------------------------------------------------------------------------
\* The interrupt.

\* Taking the head of udr keeps the rest in order, behind every byte the
\* interrupt has put in the buffer.
LEMMA ServedInOrder ==
  ASSUME IInv, udr # <<>>, udr' = Tail(udr), NEW f \in Fates \ {"none", "udr"},
         fate' = [fate EXCEPT ![Head(udr)] = f]
  PROVE  /\ InOrder'
         /\ Head(udr) \in 1 .. MaxRx
         /\ fate[Head(udr)] = "udr"
         /\ \A b \in 1 .. MaxRx : fate[b] = "buffer" => b < Head(udr)
         /\ udr' \in Seq(1 .. MaxRx) /\ Len(udr') <= 2
         /\ fate' \in [1 .. MaxRx -> Fates]
  <1> USE DEF IInv, InOrder, TypeOK
  <1>1. /\ Len(udr') = Len(udr) - 1
        /\ udr' \in Seq(1 .. MaxRx)
        /\ \A i \in 1 .. Len(udr') : udr'[i] = udr[i + 1] /\ udr'[i] \in 1 .. MaxRx
        /\ Head(udr) = udr[1] /\ 1 \in 1 .. Len(udr)
        /\ Head(udr) \in 1 .. MaxRx
    <2>1. udr \in Seq(1 .. MaxRx) /\ Len(udr) <= 2
      OBVIOUS
    <2>2. Len(udr) \in Nat /\ Len(udr) # 0
      BY <2>1
    <2>3. /\ Tail(udr) \in Seq(1 .. MaxRx)
          /\ Len(Tail(udr)) = Len(udr) - 1
          /\ \A i \in 1 .. Len(Tail(udr)) : Tail(udr)[i] = udr[i + 1]
      BY <2>1, HeadTailProperties
    <2>4. \A i \in 1 .. Len(udr) : udr[i] \in 1 .. MaxRx
      BY <2>1, ElementOfSeq
    <2>5. QED
      BY ONLY <2>2, <2>3, <2>4, udr' = Tail(udr)
  <1>2. \A i \in 1 .. Len(udr') : Head(udr) < udr'[i] /\ fate[udr'[i]] = "udr"
    BY <1>1
  <1>3. \A i \in 1 .. Len(udr') : fate'[udr'[i]] = "udr"
    BY <1>1, <1>2
  <1>4. \A i, j \in 1 .. Len(udr') : i < j => udr'[i] < udr'[j]
    BY <1>1
  <1>5. \A b \in 1 .. MaxRx, i \in 1 .. Len(udr') : fate'[b] = "buffer" => b < udr'[i]
    BY <1>1, <1>2
  <1>6. \A b, c \in 1 .. MaxRx : b < c /\ fate'[c] # "none" => fate'[b] # "none"
    BY <1>1
  <1>7. fate' \in [1 .. MaxRx -> Fates]
    BY <1>1
  <1>8. QED
    BY <1>1, <1>3, <1>4, <1>5, <1>6, <1>7

\* What a call under way knows stays true while bytes are only added.
LEMMA CallInvServed ==
  ASSUME IInv, NEW b \in 1 .. MaxRx, fate[b] = "udr",
         NEW f \in Fates \ {"none", "udr"}, fate' = [fate EXCEPT ![b] = f],
         UNCHANGED <<half, seen, old>>, pc' = pc \/ pc' = "wild",
         Held' \subseteq Held \cup {b}, datalength # 0 => datalength' # 0
  PROVE  CallInv' /\ ReceiveFindsByte'
  <1>1. b \notin old
    BY DEF IInv, CallInv
  <1>2. \A c \in old' : fate'[c] \notin {"none", "udr"}
    BY DEF IInv, CallInv, TypeOK
  <1>3. QED
    BY <1>1, <1>2 DEF IInv, CallInv, ReceiveFindsByte

LEMMA InterruptKeeps ==
  ASSUME IInv, USART_RX
  PROVE  IInv'
  <1> DEFINE b == Head(udr)
  <1>1. /\ udr # <<>> /\ udr' = Tail(udr)
        /\ UNCHANGED <<UartRxFunc, udre, half, seen, func, ret, old>>
        /\ CallsHandler(b) \/ Buffers(b)
    BY DEF USART_RX
  <1>2. CASE CallsHandler(b)
    <2>1. /\ UNCHANGED <<bufvars, uartRxOverflow>>
          /\ fate' = [fate EXCEPT ![b] = "handled"]
          /\ pc' = pc \/ pc' = "wild"
          /\ "handled" \in Fates \ {"none", "udr"}
      BY <1>2 DEF CallsHandler, Fates
    <2>2. /\ InOrder'
          /\ b \in 1 .. MaxRx
          /\ fate[b] = "udr"
          /\ udr' \in Seq(1 .. MaxRx) /\ Len(udr') <= 2
          /\ fate' \in [1 .. MaxRx -> Fates]
      BY <1>1, <2>1, ServedInOrder
    <2>3. TypeOK'
      BY <1>1, <2>1, <2>2 DEF IInv, TypeOK, BufTypeOK, bufvars
    <2>4. Having("buffer")' = Having("buffer")
      BY <2>1, <2>2 DEF IInv, TypeOK, Having
    <2>5. BufferIsExact'
      BY <2>1, <2>4, SameExact DEF IInv
    <2>6. Held' = Held /\ datalength' = datalength
      BY <2>1, SameContents DEF bufvars
    <2>7. CallInv' /\ ReceiveFindsByte'
      BY <1>1, <2>1, <2>2, <2>6, CallInvServed
    <2>8. QED
      BY <2>2, <2>3, <2>5, <2>7 DEF IInv
  <1>3. CASE Buffers(b) /\ ~HasRoom
    <2>1. /\ UNCHANGED bufvars
          /\ fate' = [fate EXCEPT ![b] = "overflow"]
          /\ uartRxOverflow' = (uartRxOverflow + 1) % Word
          /\ pc' = pc
          /\ "overflow" \in Fates \ {"none", "udr"}
      BY <1>3 DEF Buffers, bufferAddToEnd, AddResult, bufvars, Fates
    <2>2. /\ InOrder'
          /\ b \in 1 .. MaxRx
          /\ fate[b] = "udr"
          /\ udr' \in Seq(1 .. MaxRx) /\ Len(udr') <= 2
          /\ fate' \in [1 .. MaxRx -> Fates]
      BY <1>1, <2>1, ServedInOrder
    <2>3. TypeOK'
      <3>1. uartRxOverflow' \in 0 .. Word - 1
        <4>1. uartRxOverflow + 1 \in Nat /\ Word \in Nat \ {0}
          BY SizeAssumption DEF IInv, TypeOK
        <4>2. QED
          BY <2>1, <4>1
      <3>2. QED
        BY <1>1, <2>1, <2>2, <3>1 DEF IInv, TypeOK, BufTypeOK, bufvars
    <2>4. Having("buffer")' = Having("buffer")
      BY <2>1, <2>2 DEF IInv, TypeOK, Having
    <2>5. BufferIsExact'
      BY <2>1, <2>4, SameExact DEF IInv
    <2>6. Held' = Held /\ datalength' = datalength
      BY <2>1, SameContents DEF bufvars
    <2>7. CallInv' /\ ReceiveFindsByte'
      BY <1>1, <2>1, <2>2, <2>6, CallInvServed
    <2>8. QED
      BY <2>2, <2>3, <2>5, <2>7 DEF IInv
  <1>4. CASE Buffers(b) /\ HasRoom
    <2>1. /\ bufferAddToEnd(b)
          /\ fate' = [fate EXCEPT ![b] = "buffer"]
          /\ uartRxOverflow' = uartRxOverflow
          /\ pc' = pc
          /\ "buffer" \in Fates \ {"none", "udr"}
      BY <1>4 DEF Buffers, AddResult, Fates
    <2>2. /\ InOrder'
          /\ b \in 1 .. MaxRx
          /\ fate[b] = "udr"
          /\ \A c \in 1 .. MaxRx : fate[c] = "buffer" => c < b
          /\ udr' \in Seq(1 .. MaxRx) /\ Len(udr') <= 2
          /\ fate' \in [1 .. MaxRx -> Fates]
      BY <1>1, <2>1, ServedInOrder
    <2>3. BufTypeOK /\ b \in Data
      BY <2>2, UartAssumption DEF IInv, TypeOK
    <2>4. BufTypeOK'
      BY <2>1, <2>3, AddKeepsType
    <2>5. /\ datalength' = datalength + 1
          /\ \A i \in 1 .. datalength : Contents'[i] = Contents[i]
          /\ Contents'[datalength + 1] = b
      BY <1>4, <2>1, <2>3, AddContents
    <2>6. datalength \in Nat
      BY <2>3, SizeAssumption DEF BufTypeOK
    <2>7. Held' = Held \cup {b}
      BY <2>5, <2>6 DEF Held
    <2>8. Having("buffer")' = Having("buffer") \cup {b}
      BY <2>1, <2>2 DEF Having, IInv, TypeOK
    <2>9. BufferIsExact'
      <3>1. \A i \in 1 .. datalength : Contents[i] < b
        BY <2>2 DEF IInv, BufferIsExact, Held, Having
      <3>2. \A i, j \in 1 .. datalength' : i < j => Contents'[i] < Contents'[j]
        BY <2>5, <2>6, <3>1 DEF IInv, BufferIsExact
      <3>3. QED
        BY <2>7, <2>8, <3>2 DEF IInv, BufferIsExact
    <2>10. TypeOK'
      BY <1>1, <2>1, <2>2, <2>4 DEF IInv, TypeOK
    <2>11. CallInv' /\ ReceiveFindsByte'
      <3>1. Held' \subseteq Held \cup {b} /\ (datalength # 0 => datalength' # 0)
        BY <2>5, <2>6, <2>7
      <3>2. QED
        BY <1>1, <2>1, <2>2, <3>1, CallInvServed
    <2>12. QED
      BY <2>2, <2>9, <2>10, <2>11 DEF IInv
  <1>5. QED
    BY <1>1, <1>2, <1>3, <1>4

-----------------------------------------------------------------------------
\* The main program.

\* A call that has returned knows nothing any more.
LEMMA ReturnForgets ==
  ASSUME Return, IInv
  PROVE  /\ CallInv' /\ ReceiveFindsByte'
         /\ pc' = "idle" /\ half' \in Halves /\ seen' \in Nat
         /\ func' \in Handlers \cup {NoFunc} /\ old' \subseteq 1 .. MaxRx
  BY DEF Return, CallInv, ReceiveFindsByte, Halves

LEMMA BeginTestKeeps ==
  ASSUME Size < Radix, IInv, NEW h \in Halves, NEW next \in {"receive", "isEmpty"},
         BeginTest(h, next)
  PROVE  IInv'
  <1> USE DEF IInv, TypeOK
  <1>1. /\ UNCHANGED <<bufvars, udr, fate, UartRxFunc, uartRxOverflow, udre, func, ret>>
        /\ pc' = next /\ half' = h /\ seen' = Half(h, datalength) /\ old' = Held
    BY DEF BeginTest, hw
  <1>2. datalength \in 0 .. Size
    BY DEF BufTypeOK
  <1>3. Half(1, datalength) = 0 /\ Half(2, datalength) = datalength
    BY <1>2, HalvesOfShort
  <1>4. /\ Held \subseteq 1 .. MaxRx
        /\ \A b \in Held : fate[b] = "buffer"
        /\ Held # {} => datalength # 0
    BY HeldFacts
  <1>5. TypeOK'
    <2>1. seen' \in Nat
      BY <1>1, <1>2, <1>3, SizeAssumption DEF Halves
    <2>2. QED
      BY <1>1, <1>4, <2>1 DEF BufTypeOK, bufvars
  <1>6. BufferIsExact' /\ InOrder'
    BY <1>1, <1>5, QuietStep
  <1>7. CallInv'
    <2>1. datalength' = datalength /\ fate' = fate
      BY <1>1 DEF bufvars
    <2>2. \A b \in old' : fate'[b] \notin {"none", "udr"}
      BY <1>1, <1>4
    <2>3. old' # {} => datalength' # 0 /\ (half' = 2 => seen' # 0)
      BY <1>1, <1>3, <1>4, <2>1
    <2>4. seen' # 0 => datalength' # 0
      BY <1>1, <1>3, <2>1 DEF Halves
    <2>5. QED
      BY <1>1, <2>2, <2>3, <2>4 DEF CallInv
  <1>8. ReceiveFindsByte'
    BY <1>1 DEF ReceiveFindsByte
  <1>9. QED
    BY <1>5, <1>6, <1>7, <1>8

\* A test that finds nothing was right when the call began.
LEMMA TestIsRight ==
  ASSUME Size < Radix, IInv, pc \in {"receive", "isEmpty"}
  PROVE  /\ FindsData => datalength # 0
         /\ ~FindsData => old = {}
  <1>1. half \in {1, 2} /\ datalength \in 0 .. Size
    BY DEF IInv, TypeOK, BufTypeOK, Halves
  <1>2. Half(1, datalength) = 0 /\ Half(2, datalength) = datalength
    BY <1>1, HalvesOfShort
  <1>3. ~FindsData => old = {}
    <2> SUFFICES ASSUME ~FindsData, old # {} PROVE FALSE
      OBVIOUS
    <2>1. datalength # 0 /\ (half = 2 => seen # 0)
      BY DEF IInv, CallInv
    <2>2. half = 1 /\ Other(half) = 2
      BY <1>1, <2>1 DEF FindsData, Other
    <2>3. QED
      BY <1>2, <2>1, <2>2 DEF FindsData
  <1>4. FindsData => datalength # 0
    <2> SUFFICES ASSUME FindsData, datalength = 0 PROVE FALSE
      OBVIOUS
    <2>1. seen = 0
      BY DEF IInv, CallInv
    <2>2. Other(half) \in {1, 2}
      BY <1>1 DEF Other
    <2>3. Half(Other(half), datalength) = 0
      BY <1>2, <2>2
    <2>4. QED
      BY <2>1, <2>3 DEF FindsData
  <1>5. QED
    BY <1>3, <1>4

LEMMA ReceiveKeeps ==
  ASSUME Size < Radix, IInv, uartReceiveByte
  PROVE  IInv'
  <1>1. /\ pc = "receive"
        /\ UNCHANGED <<bufvars, udr, fate, UartRxFunc, uartRxOverflow, udre, ret>>
    BY DEF uartReceiveByte, hw
  <1>2. CASE FindsData
    <2>1. /\ pc' = "get"
          /\ UNCHANGED <<half, seen, func, old>>
      BY <1>2 DEF uartReceiveByte
    <2>2. TypeOK'
      BY <1>1, <2>1 DEF IInv, TypeOK, BufTypeOK, bufvars
    <2>3. BufferIsExact' /\ InOrder' /\ Held' = Held
      BY <1>1, <2>2, QuietStep
    <2>4. datalength # 0
      BY <1>1, <1>2, TestIsRight
    <2>5. CallInv' /\ ReceiveFindsByte'
      BY <1>1, <2>1, <2>4 DEF IInv, CallInv, ReceiveFindsByte, bufvars
    <2>6. QED
      BY <2>2, <2>3, <2>5 DEF IInv
  <1>3. CASE ~FindsData
    <2>1. Return
      BY <1>3 DEF uartReceiveByte
    <2>2. /\ CallInv' /\ ReceiveFindsByte'
          /\ pc' = "idle" /\ half' \in Halves /\ seen' \in Nat
          /\ func' \in Handlers \cup {NoFunc} /\ old' \subseteq 1 .. MaxRx
      BY <2>1, ReturnForgets
    <2>3. TypeOK'
      BY <1>1, <2>1, <2>2 DEF IInv, TypeOK, BufTypeOK, bufvars
    <2>4. BufferIsExact' /\ InOrder'
      BY <1>1, <2>3, QuietStep
    <2>5. QED
      BY <2>2, <2>3, <2>4 DEF IInv
  <1>4. QED
    BY <1>2, <1>3

LEMMA IsEmptyKeeps ==
  ASSUME Size < Radix, IInv, uartReceiveBufferIsEmpty \/ ReturnEmpty
  PROVE  IInv'
  <1>1. UNCHANGED <<bufvars, udr, fate, UartRxFunc, uartRxOverflow, udre, ret>>
    BY DEF uartReceiveBufferIsEmpty, ReturnEmpty, hw
  <1>2. CASE Return
    <2>1. /\ CallInv' /\ ReceiveFindsByte'
          /\ pc' = "idle" /\ half' \in Halves /\ seen' \in Nat
          /\ func' \in Handlers \cup {NoFunc} /\ old' \subseteq 1 .. MaxRx
      BY <1>2, ReturnForgets
    <2>2. TypeOK'
      BY <1>1, <2>1 DEF IInv, TypeOK, BufTypeOK, bufvars
    <2>3. BufferIsExact' /\ InOrder'
      BY <1>1, <2>2, QuietStep
    <2>4. QED
      BY <2>1, <2>2, <2>3 DEF IInv
  <1>3. CASE ~Return
    <2>1. /\ pc = "isEmpty" /\ ~FindsData
          /\ pc' = "saidEmpty" /\ UNCHANGED <<half, seen, func, old>>
      BY <1>3 DEF uartReceiveBufferIsEmpty, ReturnEmpty
    <2>2. TypeOK'
      BY <1>1, <2>1 DEF IInv, TypeOK, BufTypeOK, bufvars
    <2>3. BufferIsExact' /\ InOrder' /\ Held' = Held
      BY <1>1, <2>2, QuietStep
    <2>4. old = {}
      BY <2>1, TestIsRight
    <2>5. CallInv' /\ ReceiveFindsByte'
      BY <1>1, <2>1, <2>4 DEF IInv, CallInv, ReceiveFindsByte, bufvars
    <2>6. QED
      BY <2>2, <2>3, <2>5 DEF IInv
  <1>4. QED
    BY <1>2, <1>3

\* Bytes leave a buffer from its front only: what it then holds is exact again,
\* and every byte that had arrived still counts as one.
LEMMA LeavingKeeps ==
  ASSUME IInv, BufTypeOK', NEW f \in {"read", "flushed"}, Leaving(f), UNCHANGED udr,
         NEW n \in 0 .. datalength, datalength' = datalength - n,
         \A i \in 1 .. datalength - n : Contents'[i] = Contents[i + n]
  PROVE  /\ BufferIsExact' /\ InOrder'
         /\ fate' \in [1 .. MaxRx -> Fates]
         /\ \A b \in 1 .. MaxRx : fate[b] \notin {"none", "udr"} => fate'[b] \notin {"none", "udr"}
         /\ Held' \subseteq Held
  <1> USE DEF IInv, TypeOK
  <1>1. datalength \in Nat /\ datalength' \in Nat
    BY SizeAssumption DEF BufTypeOK
  <1>2. \A i \in 1 .. datalength' : i + n \in 1 .. datalength /\ Contents'[i] = Contents[i + n]
    BY <1>1
  <1>3. Held' \subseteq Held
    BY <1>2 DEF Held
  <1>4. fate' = [b \in 1 .. MaxRx |->
                   IF fate[b] = "buffer" /\ b \notin Held' THEN f ELSE fate[b]]
    BY DEF Leaving
  <1>5. fate' \in [1 .. MaxRx -> Fates]
    BY <1>4 DEF Fates
  <1>6. \A b \in 1 .. MaxRx :
          /\ fate'[b] = "none" <=> fate[b] = "none"
          /\ fate'[b] = "udr" <=> fate[b] = "udr"
          /\ fate'[b] = "buffer" <=> fate[b] = "buffer" /\ b \in Held'
    BY <1>4
  <1>7. Having("buffer")' = Held'
    <2>1. Held' \subseteq Having("buffer")
      BY <1>3 DEF BufferIsExact
    <2>2. QED
      BY <1>6, <2>1 DEF Having
  <1>8. \A i, j \in 1 .. datalength' : i < j => Contents'[i] < Contents'[j]
    <2>1. \A i, j \in 1 .. datalength' : i < j => i + n < j + n
      BY <1>1
    <2>2. QED
      BY <1>2, <2>1 DEF BufferIsExact
  <1>9. BufferIsExact'
    BY <1>7, <1>8 DEF BufferIsExact
  <1>10. InOrder'
    <2>1. \A i \in 1 .. Len(udr) : udr[i] \in 1 .. MaxRx
      BY ElementOfSeq
    <2>2. QED
      BY <1>6, <2>1 DEF InOrder
  <1>11. QED
    BY <1>3, <1>5, <1>6, <1>9, <1>10

\* A buffer emptied at once, or left alone, is one of those cases.
LEMMA EmptyingKeeps ==
  ASSUME IInv, BufTypeOK', NEW f \in {"read", "flushed"}, Leaving(f), UNCHANGED udr,
         datalength' = 0 \/ UNCHANGED bufvars
  PROVE  /\ BufferIsExact' /\ InOrder'
         /\ fate' \in [1 .. MaxRx -> Fates]
         /\ \A b \in 1 .. MaxRx : fate[b] \notin {"none", "udr"} => fate'[b] \notin {"none", "udr"}
         /\ Held' \subseteq Held
  <1>1. datalength \in Nat
    BY SizeAssumption DEF IInv, TypeOK, BufTypeOK
  <1>2. CASE datalength' = 0
    <2>1. /\ datalength \in 0 .. datalength
          /\ datalength' = datalength - datalength
          /\ \A i \in 1 .. datalength - datalength : Contents'[i] = Contents[i + datalength]
      BY <1>1, <1>2
    <2>2. QED
      BY <2>1, LeavingKeeps
  <1>3. CASE UNCHANGED bufvars
    <2>1. Contents' = Contents /\ datalength' = datalength
      BY <1>3, SameContents DEF bufvars
    <2>2. /\ 0 \in 0 .. datalength
          /\ datalength' = datalength - 0
          /\ \A i \in 1 .. datalength - 0 : Contents'[i] = Contents[i + 0]
      BY <1>1, <2>1
    <2>3. QED
      BY <2>2, LeavingKeeps
  <1>4. QED
    BY <1>2, <1>3

\* Reading a byte takes the oldest out of the buffer.
LEMMA GetFacts ==
  ASSUME IInv, GetFromFront, UNCHANGED udr
  PROVE  /\ BufTypeOK' /\ BufferIsExact' /\ InOrder'
         /\ fate' \in [1 .. MaxRx -> Fates]
         /\ \A b \in 1 .. MaxRx : fate[b] \notin {"none", "udr"} => fate'[b] \notin {"none", "udr"}
         /\ Held' \subseteq Held
         /\ ret' \in Data
  <1> USE DEF IInv, TypeOK
  <1>1. bufferGetFromFront /\ ret' = FrontByte /\ Leaving("read")
    BY DEF GetFromFront
  <1>2. BufTypeOK'
    BY <1>1, GetKeepsType
  <1>3. ret' \in Data
    BY <1>1, SizeAssumption, DataAssumption DEF FrontByte, BufTypeOK
  <1>4. CASE datalength = 0
    <2>1. UNCHANGED bufvars
      BY <1>1, <1>4 DEF bufferGetFromFront, bufvars
    <2>2. QED
      BY <1>1, <1>2, <1>3, <2>1, EmptyingKeeps
  <1>5. CASE datalength # 0
    <2>1. /\ datalength' = datalength - 1
          /\ \A i \in 1 .. datalength' : Contents'[i] = Contents[i + 1]
      BY <1>1, <1>5, GetContents
    <2>2. 1 \in 0 .. datalength
      BY <1>5, SizeAssumption DEF BufTypeOK
    <2>3. \A i \in 1 .. datalength - 1 : Contents'[i] = Contents[i + 1]
      BY <2>1
    <2>4. QED
      BY <1>1, <1>2, <1>3, <2>1, <2>2, <2>3, LeavingKeeps
  <1>6. QED
    BY <1>4, <1>5

LEMMA GetKeeps ==
  ASSUME IInv, ReceiveGet
  PROVE  IInv'
  <1> USE DEF IInv, TypeOK
  <1>1. /\ Return /\ GetFromFront
        /\ UNCHANGED <<UartRxFunc, uartRxOverflow, udr, udre>>
    BY DEF ReceiveGet, hw
  <1>2. /\ BufTypeOK' /\ BufferIsExact' /\ InOrder'
        /\ fate' \in [1 .. MaxRx -> Fates]
        /\ ret' \in Data
    BY <1>1, GetFacts
  <1>3. /\ CallInv' /\ ReceiveFindsByte'
        /\ pc' = "idle" /\ half' \in Halves /\ seen' \in Nat
        /\ func' \in Handlers \cup {NoFunc} /\ old' \subseteq 1 .. MaxRx
    BY <1>1, ReturnForgets
  <1>4. TypeOK'
    BY <1>1, <1>2, <1>3
  <1>5. QED
    BY <1>2, <1>3, <1>4

\* The functions of buffer.h, called by the program itself.
LEMMA CallBufferKeeps ==
  ASSUME IInv, CallBuffer
  PROVE  IInv'
  <1> USE DEF IInv, TypeOK
  <1>1. pc = "idle" /\ UNCHANGED <<UartRxFunc, uartRxOverflow, udr, udre, pc, half, seen, func, old>>
    BY DEF CallBuffer, Idle, hw
  <1>2. /\ BufTypeOK' /\ BufferIsExact' /\ InOrder'
        /\ fate' \in [1 .. MaxRx -> Fates]
        /\ \A b \in 1 .. MaxRx : fate[b] \notin {"none", "udr"} => fate'[b] \notin {"none", "udr"}
        /\ ret' \in Data \cup 0 .. Size
    <2>1. CASE GetFromFront
      BY <1>1, <2>1, GetFacts
    <2>2. ASSUME NEW n \in 0 .. Word - 1, bufferDumpFromFront(n), Leaving("flushed"), ret' = ret
          PROVE  /\ BufTypeOK' /\ BufferIsExact' /\ InOrder'
                 /\ fate' \in [1 .. MaxRx -> Fates]
                 /\ \A b \in 1 .. MaxRx : fate[b] \notin {"none", "udr"} => fate'[b] \notin {"none", "udr"}
                 /\ ret' \in Data \cup 0 .. Size
      <3>1. n \in Nat
        OBVIOUS
      <3>2. BufTypeOK'
        BY <2>2, <3>1, DumpKeepsType
      <3>3. CASE n < datalength
        <4>1. /\ datalength' = datalength - n
              /\ \A i \in 1 .. datalength - n : Contents'[i] = Contents[i + n]
          BY <2>2, <3>1, <3>3, DumpContents
        <4>2. n \in 0 .. datalength
          BY <3>1, <3>3, SizeAssumption DEF BufTypeOK
        <4>3. QED
          BY <1>1, <2>2, <3>2, <4>1, <4>2, LeavingKeeps
      <3>4. CASE ~(n < datalength)
        <4>1. datalength' = 0
          BY <2>2, <3>4 DEF bufferDumpFromFront
        <4>2. QED
          BY <1>1, <2>2, <3>2, <4>1, EmptyingKeeps
      <3>5. QED
        BY <3>3, <3>4
    <2>3. CASE bufferFlush /\ Leaving("flushed") /\ ret' = ret
      <3>1. BufTypeOK' /\ datalength' = 0
        BY <2>3, FlushKeepsType DEF bufferFlush
      <3>2. QED
        BY <1>1, <2>3, <3>1, EmptyingKeeps
    <2>4. CASE /\ \/ \E i \in 0 .. datalength - 1 : ret' = bufferGetAtIndex(i)
                  \/ ret' = bufferIsNotFull
               /\ UNCHANGED <<bufvars, fate>>
      <3>1. ret' \in Data \cup 0 .. Size
        <4>1. ASSUME NEW i \in 0 .. datalength - 1 PROVE bufferGetAtIndex(i) \in Data
          <5>1. i \in 0 .. Size - 1
            BY SizeAssumption DEF BufTypeOK
          <5>2. QED
            BY <5>1, SlotIs DEF bufferGetAtIndex, Slot, BufTypeOK
        <4>2. bufferIsNotFull \in 0 .. Size
          BY SizeAssumption DEF bufferIsNotFull, BufTypeOK
        <4>3. QED
          BY <2>4, <4>1, <4>2
      <3>2. TypeOK'
        BY <1>1, <2>4, <3>1 DEF BufTypeOK, bufvars
      <3>3. QED
        BY <1>1, <2>4, <3>1, <3>2, QuietStep
    <2>5. QED
      BY <2>1, <2>2, <2>3, <2>4 DEF CallBuffer
  <1>3. TypeOK'
    BY <1>1, <1>2
  <1>4. CallInv' /\ ReceiveFindsByte'
    BY <1>1, <1>2 DEF CallInv, ReceiveFindsByte
  <1>5. QED
    BY <1>2, <1>3, <1>4

\* Clearing one half of the length empties the buffer or does nothing.
LEMMA ClearLengthFacts ==
  ASSUME Size < Radix, IInv, NEW h \in Halves, ClearLength(h)
  PROVE  /\ BufTypeOK' /\ BufferIsExact' /\ InOrder'
         /\ fate' \in [1 .. MaxRx -> Fates]
         /\ \A b \in 1 .. MaxRx : fate[b] \notin {"none", "udr"} => fate'[b] \notin {"none", "udr"}
         /\ h = 1 => UNCHANGED bufvars /\ Held' = Held
         /\ h = 2 => datalength' = 0 /\ Held' = {}
  <1> USE DEF IInv, TypeOK
  <1>1. /\ datalength' = ClearHalf(h, datalength)
        /\ Leaving("flushed")
        /\ UNCHANGED <<dataptr, dataindex, udr>>
    BY DEF ClearLength, hw
  <1>2. datalength \in 0 .. Size
    BY DEF BufTypeOK
  <1>3. h = 1 => UNCHANGED bufvars
    BY <1>1, <1>2, HalvesOfShort DEF bufvars
  <1>4. h = 2 => datalength' = 0
    BY <1>1, <1>2, HalvesOfShort
  <1>5. BufTypeOK'
    BY <1>1, <1>2, <1>3, <1>4, SizeAssumption DEF BufTypeOK, Halves, bufvars
  <1>6. h = 1 => Held' = Held
    BY <1>3, SameContents
  <1>7. h = 2 => Held' = {}
    BY <1>4 DEF Held
  <1>8. UNCHANGED udr /\ (datalength' = 0 \/ UNCHANGED bufvars)
    BY <1>1, <1>3, <1>4 DEF Halves
  <1>9. QED
    BY <1>1, <1>3, <1>4, <1>5, <1>6, <1>7, <1>8, EmptyingKeeps

LEMMA CallFlushKeeps ==
  ASSUME Size < Radix, IInv, NEW h \in Halves, CallFlush(h)
  PROVE  IInv'
  <1> USE DEF IInv, TypeOK
  <1>1. /\ ClearLength(h) /\ pc' = "flush" /\ half' = h /\ old' = Held
        /\ UNCHANGED <<seen, func, UartRxFunc, uartRxOverflow, udr, udre, ret>>
    BY DEF CallFlush, ClearLength, hw
  <1>2. /\ BufTypeOK' /\ BufferIsExact' /\ InOrder'
        /\ fate' \in [1 .. MaxRx -> Fates]
        /\ \A b \in 1 .. MaxRx : fate[b] \notin {"none", "udr"} => fate'[b] \notin {"none", "udr"}
        /\ h = 2 => Held' = {}
    BY <1>1, ClearLengthFacts
  <1>3. Held \subseteq 1 .. MaxRx /\ \A b \in Held : fate[b] = "buffer"
    BY HeldFacts
  <1>4. TypeOK'
    BY <1>1, <1>2, <1>3
  <1>5. CallInv' /\ ReceiveFindsByte'
    BY <1>1, <1>2, <1>3 DEF CallInv, ReceiveFindsByte
  <1>6. QED
    BY <1>2, <1>4, <1>5

LEMMA FlushKeeps ==
  ASSUME Size < Radix, IInv, uartFlushReceiveBuffer
  PROVE  IInv' /\ Held' \cap old = {}
  <1> USE DEF IInv, TypeOK
  <1>1. /\ pc = "flush" /\ ClearLength(Other(half)) /\ Return
        /\ UNCHANGED <<UartRxFunc, uartRxOverflow, udr, udre, ret>>
    BY DEF uartFlushReceiveBuffer, ClearLength, hw
  <1>2. Other(half) \in Halves /\ (half = 2 <=> Other(half) = 1)
    BY DEF Other, Halves
  <1>3. /\ BufTypeOK' /\ BufferIsExact' /\ InOrder'
        /\ fate' \in [1 .. MaxRx -> Fates]
        /\ Other(half) = 1 => Held' = Held
        /\ Other(half) = 2 => Held' = {}
    BY <1>1, <1>2, ClearLengthFacts
  <1>4. /\ CallInv' /\ ReceiveFindsByte'
        /\ pc' = "idle" /\ half' \in Halves /\ seen' \in Nat
        /\ func' \in Handlers \cup {NoFunc} /\ old' \subseteq 1 .. MaxRx
    BY <1>1, ReturnForgets
  <1>5. TypeOK'
    BY <1>1, <1>3, <1>4
  <1>6. Held' \cap old = {}
    BY <1>1, <1>2, <1>3 DEF CallInv, Halves
  <1>7. QED
    BY <1>3, <1>4, <1>5, <1>6

\* Setting a handler, sending a byte.
LEMMA OtherCallsKeep ==
  ASSUME IInv,
         \/ \E h \in Halves, f \in Handlers \cup {NoFunc} : CallSetRxHandler(h, f)
         \/ uartSetRxHandler \/ CallSendByte \/ uartSendByte
  PROVE  IInv'
  <1> USE DEF IInv, TypeOK
  <1>1. /\ UNCHANGED <<bufvars, udr, fate, uartRxOverflow, ret>>
        /\ udre' \in BOOLEAN
    BY DEF CallSetRxHandler, uartSetRxHandler, CallSendByte, uartSendByte, hw
  <1>2. \A f \in Handlers \cup {NoFunc} : f \in (0 .. Radix - 1) \X (0 .. Radix - 1)
    BY UartAssumption DEF NoFunc
  <1>3. \A f, g \in (0 .. Radix - 1) \X (0 .. Radix - 1), h \in Halves :
          [g EXCEPT ![h] = f[h]] \in (0 .. Radix - 1) \X (0 .. Radix - 1)
    BY DEF Halves
  <1>4. UartRxFunc' \in (0 .. Radix - 1) \X (0 .. Radix - 1)
    <2>1. ASSUME NEW h \in Halves, NEW f \in Handlers \cup {NoFunc}, CallSetRxHandler(h, f)
          PROVE  UartRxFunc' \in (0 .. Radix - 1) \X (0 .. Radix - 1)
      BY <1>2, <1>3, <2>1 DEF CallSetRxHandler
    <2>2. CASE uartSetRxHandler
      <3>1. Other(half) \in Halves
        BY DEF Other, Halves
      <3>2. QED
        BY <1>2, <1>3, <2>2, <3>1 DEF uartSetRxHandler
    <2>3. CASE CallSendByte \/ uartSendByte
      BY <2>3 DEF CallSendByte, uartSendByte
    <2>4. QED
      BY <2>1, <2>2, <2>3
  <1>5. \/ Return
        \/ /\ pc' \in {"handler", "send"}
           /\ half' \in Halves /\ seen' = seen /\ old' = old
           /\ func' \in Handlers \cup {NoFunc}
    BY DEF CallSetRxHandler, uartSetRxHandler, CallSendByte, uartSendByte, Halves
  <1>6. /\ pc' \in {"idle", "handler", "send"} /\ half' \in Halves /\ seen' \in Nat
        /\ func' \in Handlers \cup {NoFunc} /\ old' \subseteq 1 .. MaxRx
        /\ CallInv' /\ ReceiveFindsByte'
    <2>1. CASE Return
      BY <2>1, ReturnForgets
    <2>2. CASE ~Return
      BY <1>1, <1>5, <2>2 DEF CallInv, ReceiveFindsByte
    <2>3. QED
      BY <2>1, <2>2
  <1>7. TypeOK'
    BY <1>1, <1>4, <1>6 DEF BufTypeOK, bufvars
  <1>8. BufferIsExact' /\ InOrder'
    BY <1>1, <1>7, QuietStep
  <1>9. QED
    BY <1>6, <1>7, <1>8

-----------------------------------------------------------------------------

LEMMA InitHolds == Init => IInv
  <1> SUFFICES ASSUME Init PROVE IInv
    OBVIOUS
  <1> USE SizeAssumption, DataAssumption, UartAssumption DEF Init
  <1>1. TypeOK
    BY DEF bufferInit, TypeOK, BufTypeOK, NoFunc, Halves, Fates
  <1>2. BufferIsExact
    BY DEF bufferInit, BufferIsExact, Held, Having
  <1>3. InOrder
    BY DEF InOrder
  <1>4. QED
    BY <1>1, <1>2, <1>3 DEF IInv, ReceiveFindsByte, CallInv

LEMMA StepKeeps ==
  ASSUME Size < Radix, IInv, [Next]_vars
  PROVE  IInv'
  <1>1. CASE Arrive \/ Shift \/ USART_RX
    BY <1>1, ArriveKeeps, ShiftKeeps, InterruptKeeps
  <1>2. CASE Call
    <2>1. ASSUME NEW h \in Halves, CallReceiveByte(h) \/ CallIsEmpty(h)
          PROVE  IInv'
      BY <2>1, BeginTestKeeps DEF CallReceiveByte, CallIsEmpty
    <2>2. ASSUME NEW h \in Halves, CallFlush(h)
          PROVE  IInv'
      BY <2>2, CallFlushKeeps
    <2>3. CASE \E h \in Halves, f \in Handlers \cup {NoFunc} : CallSetRxHandler(h, f)
      BY <2>3, OtherCallsKeep
    <2>4. CASE CallSendByte
      BY <2>4, OtherCallsKeep
    <2>5. CASE CallBuffer
      BY <2>5, CallBufferKeeps
    <2>6. QED
      BY <1>2, <2>1, <2>2, <2>3, <2>4, <2>5 DEF Call
  <1>3. CASE Continue
    BY <1>3, ReceiveKeeps, GetKeeps, IsEmptyKeeps, FlushKeeps, OtherCallsKeep DEF Continue
  <1>4. CASE UNCHANGED vars
    <2>1. UNCHANGED <<bufvars, udr, fate>> /\ TypeOK'
      BY <1>4 DEF vars, bufvars, IInv, TypeOK, BufTypeOK
    <2>2. QED
      BY <1>4, <2>1, QuietStep DEF vars, bufvars, IInv, CallInv, ReceiveFindsByte
  <1>5. QED
    BY <1>1, <1>2, <1>3, <1>4 DEF Next

THEOREM Invariance == ASSUME Size < Radix PROVE Spec => []IInv
  <1>1. IInv /\ [Next]_vars => IInv'
    BY StepKeeps
  <1>2. QED
    BY <1>1, InitHolds, PTL DEF Spec

\* The buffer holds exactly the bytes accepted and not yet read or flushed, in
\* the order of their arrival, at every interleaving of interrupt and program.
THEOREM BufferAlwaysExact == ASSUME Size < Radix PROVE Spec => []BufferIsExact
  <1>1. IInv => BufferIsExact
    BY DEF IInv
  <1>2. QED
    BY <1>1, Invariance, PTL

\* The unprotected test of datalength in uartReceiveByte is good enough.
THEOREM ReceiveAlwaysFinds == ASSUME Size < Radix PROVE Spec => []ReceiveFindsByte
  <1>1. IInv => ReceiveFindsByte
    BY DEF IInv
  <1>2. QED
    BY <1>1, Invariance, PTL

\* uartFlushReceiveBuffer has the effect of bufferFlush, as its comment says.
THEOREM FlushAlwaysForgets == ASSUME Size < Radix PROVE Spec => FlushForgets
  <1>1. ASSUME IInv, [Next]_vars
        PROVE  [pc = "flush" /\ pc' = "idle" => Held' \cap old = {}]_vars
    <2> SUFFICES ASSUME pc = "flush", pc' = "idle"
                 PROVE  Held' \cap old = {}
      OBVIOUS
    <2>1. uartFlushReceiveBuffer
      BY <1>1 DEF Next, vars, Arrive, Shift, mainvars, USART_RX, CallsHandler, Buffers,
                  Call, CallBuffer, CallReceiveByte, CallIsEmpty, BeginTest, Idle, CallFlush,
                  CallSetRxHandler, CallSendByte, Continue, uartReceiveByte, ReceiveGet,
                  uartReceiveBufferIsEmpty, ReturnEmpty, uartSetRxHandler, uartSendByte
    <2>2. QED
      BY <1>1, <2>1, FlushKeeps
  <1>2. QED
    BY <1>1, Invariance, PTL DEF Spec, FlushForgets

\* uartReceiveByte and uartReceiveBufferIsEmpty never report an empty buffer when
\* it held data as they were called.
THEOREM NeverFalseEmpty == ASSUME Size < Radix PROVE Spec => NoFalseEmpty
  <1>1. ASSUME IInv, [Next]_vars
        PROVE  [/\ pc = "receive" /\ pc' = "idle" => old = {}
                /\ pc' = "saidEmpty" /\ pc # "saidEmpty" => old = {}]_vars
    <2>1. ASSUME pc = "receive", pc' = "idle" PROVE old = {}
      <3>1. uartReceiveByte
        BY <1>1, <2>1 DEF Next, vars, Arrive, Shift, mainvars, USART_RX, CallsHandler,
                  Buffers, Call, CallBuffer, CallReceiveByte, CallIsEmpty, BeginTest, Idle, CallFlush,
                  CallSetRxHandler, CallSendByte, Continue, ReceiveGet,
                  uartReceiveBufferIsEmpty, ReturnEmpty, uartFlushReceiveBuffer,
                  uartSetRxHandler, uartSendByte
      <3>2. ~FindsData
        BY <2>1, <3>1 DEF uartReceiveByte
      <3>3. QED
        BY <1>1, <2>1, <3>2, TestIsRight
    <2>2. ASSUME pc' = "saidEmpty", pc # "saidEmpty" PROVE old = {}
      <3>1. uartReceiveBufferIsEmpty
        BY <1>1, <2>2 DEF Next, vars, Arrive, Shift, mainvars, USART_RX, CallsHandler,
                  Buffers, Call, CallBuffer, CallReceiveByte, CallIsEmpty, BeginTest, Idle, CallFlush,
                  CallSetRxHandler, CallSendByte, Continue, uartReceiveByte, ReceiveGet,
                  ReturnEmpty, uartFlushReceiveBuffer, uartSetRxHandler, uartSendByte,
                  Return
      <3>2. pc = "isEmpty" /\ ~FindsData
        BY <2>2, <3>1 DEF uartReceiveBufferIsEmpty, Return
      <3>3. QED
        BY <1>1, <3>2, TestIsRight
    <2>3. QED
      BY <2>1, <2>2
  <1>2. QED
    BY <1>1, Invariance, PTL DEF Spec, NoFalseEmpty

\* Every variable keeps its type.
THEOREM TypeCorrect == ASSUME Size < Radix PROVE Spec => []TypeOK
  <1>1. IInv => TypeOK
    BY DEF IInv
  <1>2. QED
    BY <1>1, Invariance, PTL

-----------------------------------------------------------------------------
\* The receive side as a bounded queue.

LEMMA SameFifo ==
  ASSUME UNCHANGED <<bufvars, ret, uartRxOverflow>>
  PROVE  UNCHANGED FifoSpec!vars
  <1>1. Contents' = Contents
    BY SameContents
  <1>2. QED
    BY <1>1 DEF FifoSpec!vars

\* A read of the program is a Get.
LEMMA GetIsFifoGet ==
  ASSUME IInv, BufTypeOK', GetFromFront, UNCHANGED uartRxOverflow
  PROVE  FifoSpec!Get
  <1>1. BufTypeOK /\ bufferGetFromFront /\ ret' = FrontByte
    BY DEF IInv, TypeOK, GetFromFront
  <1>2. CASE datalength = 0
    <2>1. Contents = <<>> /\ Contents' = <<>>
      BY <1>1, <1>2 DEF bufferGetFromFront, Contents
    <2>2. ret' = 0
      BY <1>1, <1>2 DEF FrontByte
    <2>3. QED
      BY <2>1, <2>2 DEF FifoSpec!Get
  <1>3. CASE datalength # 0
    <2>1. Contents # <<>> /\ FrontByte = Head(Contents) /\ Contents' = Tail(Contents)
      BY <1>1, <1>3, GetIsTail
    <2>2. QED
      BY <1>1, <2>1 DEF FifoSpec!Get
  <1>4. QED
    BY <1>2, <1>3

\* What the interrupt does with a byte that goes to the buffer is an Add.
LEMMA BuffersIsFifoAdd ==
  ASSUME IInv, IInv', NEW b \in Data, Buffers(b), UNCHANGED ret
  PROVE  FifoSpec!Add(b)
  <1> USE DEF IInv, TypeOK
  <1>1. /\ bufferAddToEnd(b)
        /\ HasRoom => uartRxOverflow' = uartRxOverflow
        /\ ~HasRoom => uartRxOverflow' = (uartRxOverflow + 1) % Word
    BY DEF Buffers, AddResult
  <1>2. Len(Contents) = datalength
    BY ContentsIsSeq
  <1>3. CASE HasRoom
    <2>1. Contents' = Append(Contents, b)
      BY <1>1, <1>3, AddIsAppend
    <2>2. QED
      BY <1>1, <1>2, <1>3, <2>1 DEF HasRoom, FifoSpec!Add
  <1>4. CASE ~HasRoom
    <2>1. UNCHANGED bufvars
      BY <1>1, <1>4 DEF bufferAddToEnd, bufvars
    <2>2. Contents' = Contents
      BY <2>1, SameContents
    <2>3. QED
      BY <1>1, <1>2, <1>4, <2>2 DEF HasRoom, FifoSpec!Add
  <1>5. QED
    BY <1>3, <1>4

\* Every other function of buffer.h is the operation of its name.
LEMMA CallBufferIsFifoStep ==
  ASSUME IInv, IInv', CallBuffer
  PROVE  FifoSpec!Next
  <1> USE DEF IInv, TypeOK
  <1>1. UNCHANGED uartRxOverflow
    BY DEF CallBuffer
  <1>2. Contents \in Seq(Data) /\ Len(Contents) = datalength
    BY ContentsIsSeq
  <1>3. CASE GetFromFront
    BY <1>1, <1>3, GetIsFifoGet DEF FifoSpec!Next
  <1>4. ASSUME NEW n \in 0 .. Word - 1, bufferDumpFromFront(n), ret' = ret
        PROVE  FifoSpec!Next
    <2>1. n \in Nat
      OBVIOUS
    <2>2. Contents' = IF n < Len(Contents) THEN SubSeq(Contents, n + 1, Len(Contents))
                                           ELSE <<>>
      BY <1>4, <2>1, DumpIsSubSeq
    <2>3. FifoSpec!Dump(n)
      BY <1>1, <1>4, <2>2 DEF FifoSpec!Dump
    <2>4. QED
      BY <2>3 DEF FifoSpec!Next
  <1>5. CASE bufferFlush /\ ret' = ret
    <2>1. Contents' = <<>>
      BY <1>5, FlushedContents DEF bufferFlush
    <2>2. QED
      BY <1>1, <1>5, <2>1 DEF FifoSpec!Flush, FifoSpec!Next
  <1>6. ASSUME NEW i \in 0 .. datalength - 1, ret' = bufferGetAtIndex(i), UNCHANGED bufvars
        PROVE  FifoSpec!Next
    <2>1. Contents' = Contents
      BY <1>6, SameContents
    <2>2. i \in 0 .. Word - 1 /\ i < Len(Contents) /\ i + 1 \in 1 .. datalength /\ (i + 1) - 1 = i
      BY <1>2, SizeAssumption DEF BufTypeOK
    <2>3. Contents[i + 1] = dataptr[Slot(i)]
      BY <2>2 DEF Contents
    <2>4. FifoSpec!Peek(i)
      BY <1>1, <1>6, <2>1, <2>2, <2>3 DEF bufferGetAtIndex, FifoSpec!Peek
    <2>5. QED
      BY <2>2, <2>4 DEF FifoSpec!Next
  <1>7. CASE ret' = bufferIsNotFull /\ UNCHANGED bufvars
    <2>1. Contents' = Contents
      BY <1>7, SameContents
    <2>2. FifoSpec!Room
      BY <1>1, <1>2, <1>7, <2>1 DEF bufferIsNotFull, FifoSpec!Room
    <2>3. QED
      BY <2>2 DEF FifoSpec!Next
  <1>8. QED
    BY <1>3, <1>4, <1>5, <1>6, <1>7 DEF CallBuffer

\* The low half of the length makes the flush, the high half nothing.
LEMMA ClearLengthIsFlush ==
  ASSUME Size < Radix, IInv, NEW h \in Halves, ClearLength(h)
  PROVE  FifoSpec!Flush \/ UNCHANGED FifoSpec!vars
  <1>1. /\ UNCHANGED <<ret, uartRxOverflow>>
        /\ h = 1 => UNCHANGED bufvars
        /\ h = 2 => datalength' = 0
    BY ClearLengthFacts DEF ClearLength
  <1>2. CASE h = 1
    BY <1>1, <1>2, SameFifo
  <1>3. CASE h = 2
    BY <1>1, <1>3, FlushedContents DEF FifoSpec!Flush
  <1>4. QED
    BY <1>2, <1>3 DEF Halves

\* buffer.h's promise holds for the buffer that uart.c shares with its interrupt:
\* with every interleaving it is a first-in first-out queue that refuses, and
\* counts, only what does not fit.
THEOREM UartImplementsFifo == ASSUME Size < Radix PROVE Spec => RefinesFifo
  <1>1. Init => FifoSpec!Init
    BY DEF Init, bufferInit, Contents, FifoSpec!Init
  <1>2. ASSUME IInv, IInv', [Next]_vars
        PROVE  [FifoSpec!Next]_(FifoSpec!vars)
    <2>1. CASE USART_RX
      <3>1. Head(udr) \in Data
        <4>1. udr \in Seq(1 .. MaxRx) /\ udr # <<>>
          BY <1>2, <2>1 DEF IInv, TypeOK, USART_RX
        <4>2. Head(udr) \in 1 .. MaxRx
          BY <4>1, HeadTailProperties
        <4>3. QED
          BY <4>2, UartAssumption
      <3>2. CASE CallsHandler(Head(udr))
        BY <2>1, <3>2, SameFifo DEF USART_RX, CallsHandler
      <3>3. CASE Buffers(Head(udr))
        BY <1>2, <2>1, <3>1, <3>3, BuffersIsFifoAdd DEF USART_RX, FifoSpec!Next
      <3>4. QED
        BY <2>1, <3>2, <3>3 DEF USART_RX
    <2>2. CASE ReceiveGet
      BY <1>2, <2>2, GetIsFifoGet DEF ReceiveGet, IInv, TypeOK, FifoSpec!Next
    <2>3. CASE CallBuffer
      BY <1>2, <2>3, CallBufferIsFifoStep
    <2>4. ASSUME NEW h \in Halves, CallFlush(h)
          PROVE  [FifoSpec!Next]_(FifoSpec!vars)
      BY <1>2, <2>4, ClearLengthIsFlush DEF CallFlush, FifoSpec!Next
    <2>5. CASE uartFlushReceiveBuffer
      <3>1. Other(half) \in Halves
        BY <1>2 DEF IInv, TypeOK, Other, Halves
      <3>2. QED
        BY <1>2, <2>5, <3>1, ClearLengthIsFlush DEF uartFlushReceiveBuffer, FifoSpec!Next
    <2>6. CASE \/ Arrive \/ Shift
               \/ \E h \in Halves : CallReceiveByte(h) \/ CallIsEmpty(h)
               \/ \E h \in Halves, f \in Handlers \cup {NoFunc} : CallSetRxHandler(h, f)
               \/ CallSendByte \/ uartReceiveByte \/ uartReceiveBufferIsEmpty \/ ReturnEmpty
               \/ uartSetRxHandler \/ uartSendByte \/ UNCHANGED vars
      <3>1. UNCHANGED <<bufvars, ret, uartRxOverflow>>
        BY <2>6 DEF Arrive, Shift, mainvars, CallReceiveByte, CallIsEmpty, BeginTest,
                    CallSetRxHandler, CallSendByte, uartReceiveByte,
                    uartReceiveBufferIsEmpty, ReturnEmpty, uartSetRxHandler,
                    uartSendByte, vars
      <3>2. QED
        BY <3>1, SameFifo
    <2>7. QED
      BY <1>2, <2>1, <2>2, <2>3, <2>4, <2>5, <2>6 DEF Next, Call, Continue
  <1>3. Spec => []IInv
    BY Invariance
  <1>4. QED
    BY <1>1, <1>2, <1>3, PTL DEF Spec, RefinesFifo, FifoSpec!Spec

-----------------------------------------------------------------------------
\* The address of the receive handler is whole, but in the middle of
\* uartSetRxHandler, where one half of it is the new one's.
HandlerInv ==
  /\ pc \notin {"handler", "wild"} => UartRxFunc \in Handlers \cup {NoFunc}
  /\ pc = "handler" => UartRxFunc[half] = func[half]

\* The second store completes the address.
LEMMA SetCompletes ==
  ASSUME TypeOK, HandlerInv, uartSetRxHandler
  PROVE  UartRxFunc' \in Handlers \cup {NoFunc}
  <1> DEFINE Bytes == 0 .. Radix - 1
  <1>1. /\ UartRxFunc \in Bytes \X Bytes /\ half \in {1, 2} /\ pc = "handler"
        /\ func \in Handlers \cup {NoFunc}
        /\ UartRxFunc' = [UartRxFunc EXCEPT ![3 - half] = func[3 - half]]
        /\ UartRxFunc[half] = func[half]
    BY DEF TypeOK, HandlerInv, Halves, uartSetRxHandler, Other
  <1>2. func \in Bytes \X Bytes
    BY <1>1, UartAssumption DEF NoFunc
  <1>3. ASSUME NEW f \in Bytes \X Bytes, NEW g \in Bytes \X Bytes, NEW h \in {1, 2}, f[h] = g[h]
        PROVE  [f EXCEPT ![3 - h] = g[3 - h]] = g
    <2>1. CASE h = 1
      BY <1>3, <2>1
    <2>2. CASE h = 2
      BY <1>3, <2>2
    <2>3. QED
      BY <2>1, <2>2
  <1>4. UartRxFunc' = func
    BY <1>1, <1>2, <1>3
  <1>5. QED
    BY <1>1, <1>4

\* Outside uartSetRxHandler the interrupt runs a function it was given.
LEMMA InterruptIsSafe ==
  ASSUME HandlerInv, USART_RX, pc # "handler"
  PROVE  pc' = pc
  BY DEF USART_RX, CallsHandler, Buffers, HandlerInv

LEMMA HandlerStep ==
  ASSUME TypeOK, HandlerInv, [Next]_vars
  PROVE  HandlerInv'
  <1>1. CASE Arrive
    BY <1>1 DEF Arrive, mainvars, HandlerInv
  <1>2. CASE Shift
    BY <1>2 DEF Shift, mainvars, HandlerInv
  <1>3. CASE USART_RX
    <2>1. UNCHANGED <<UartRxFunc, half, func>> /\ pc # "wild"
      BY <1>3 DEF USART_RX
    <2>2. pc' = pc \/ pc' = "wild"
      BY <1>3 DEF USART_RX, CallsHandler, Buffers
    <2>3. QED
      BY <2>1, <2>2 DEF HandlerInv
  <1>4. ASSUME NEW h \in Halves, CallReceiveByte(h) \/ CallIsEmpty(h) \/ CallFlush(h)
        PROVE  HandlerInv'
    BY <1>4 DEF CallReceiveByte, CallIsEmpty, CallFlush, BeginTest, ClearLength, Idle, HandlerInv
  <1>5. ASSUME NEW h \in Halves, NEW f \in Handlers \cup {NoFunc}, CallSetRxHandler(h, f)
        PROVE  HandlerInv'
    <2>1. /\ pc' = "handler" /\ half' = h /\ func' = f
          /\ UartRxFunc' = [UartRxFunc EXCEPT ![h] = f[h]]
      BY <1>5 DEF CallSetRxHandler
    <2>2. UartRxFunc'[h] = f[h]
      BY <2>1 DEF TypeOK, Halves
    <2>3. QED
      BY <2>1, <2>2 DEF HandlerInv
  <1>6. CASE CallSendByte \/ CallBuffer
    BY <1>6 DEF CallSendByte, CallBuffer, Idle, HandlerInv
  <1>7. CASE uartSetRxHandler
    BY <1>7, SetCompletes DEF uartSetRxHandler, Return, HandlerInv
  <1>8. CASE \/ uartReceiveByte \/ ReceiveGet \/ uartReceiveBufferIsEmpty \/ ReturnEmpty
             \/ uartFlushReceiveBuffer \/ uartSendByte
    BY <1>8 DEF uartReceiveByte, ReceiveGet, uartReceiveBufferIsEmpty, ReturnEmpty,
                uartFlushReceiveBuffer, ClearLength, uartSendByte, Return, HandlerInv
  <1>9. CASE UNCHANGED vars
    BY <1>9 DEF vars, HandlerInv
  <1>10. QED
    BY <1>1, <1>2, <1>3, <1>4, <1>5, <1>6, <1>7, <1>8, <1>9 DEF Next, Call, Continue

\* The program is lost to a mixed address in one way only: a byte arrives between
\* the two stores of uartSetRxHandler.  Every other interleaving is safe.
THEOREM MixNeedsSet == ASSUME Size < Radix PROVE Spec => MixOnlyInSet
  <1>1. Init => HandlerInv
    BY DEF Init, HandlerInv
  <1>2. TypeOK /\ HandlerInv /\ [Next]_vars => HandlerInv'
    BY HandlerStep
  <1>3. ASSUME HandlerInv, [Next]_vars
        PROVE  [pc' = "wild" /\ pc # "wild" => pc = "handler"]_vars
    <2> SUFFICES ASSUME pc' = "wild", pc # "wild", pc # "handler"
                 PROVE  FALSE
      OBVIOUS
    <2>1. USART_RX
      BY <1>3 DEF Next, vars, Arrive, Shift, mainvars, Call, CallBuffer, CallReceiveByte,
                  CallIsEmpty, BeginTest, CallFlush, CallSetRxHandler, CallSendByte, Idle,
                  Continue, uartReceiveByte, ReceiveGet, uartReceiveBufferIsEmpty,
                  ReturnEmpty, uartFlushReceiveBuffer, uartSetRxHandler, uartSendByte, Return
    <2>2. QED
      BY <1>3, <2>1, InterruptIsSafe
  <1>4. Spec => []TypeOK
    BY TypeCorrect
  <1>5. QED
    BY <1>1, <1>2, <1>3, <1>4, PTL DEF Spec, MixOnlyInSet
=============================================================================
