---------------------------- MODULE UartSwProofs ----------------------------
(***************************************************************************)
(* Proofs about the software UART: its types, and that the program gets    *)
(* the bytes it sent until an interrupt clashes with a call, for every     *)
(* number of data bits up to 8, every timer and buffer size and every baud *)
(* rate, if the CPU lags behind by less than a quarter of a bit.           *)
(***************************************************************************)
EXTENDS UartSw, SequenceTheorems, TLAPS

Power(n) == 2^n

\* The powers of 2 a byte needs.
LEMMA Powers ==
  /\ Power(0) = 1 /\ Power(1) = 2 /\ Power(2) = 4 /\ Power(3) = 8 /\ Power(4) = 16
  /\ Power(5) = 32 /\ Power(6) = 64 /\ Power(7) = 128 /\ Power(8) = 256
BY DEF Power

LEMMA PowerOf ==
  ASSUME NEW n \in 0 .. 8
  PROVE  /\ Power(n) \in Nat \ {0}
         /\ n < 8 => Power(n + 1) = 2 * Power(n)
<1>1. n = 0 \/ n = 1 \/ n = 2 \/ n = 3 \/ n = 4 \/ n = 5 \/ n = 6 \/ n = 7 \/ n = 8
  OBVIOUS
<1> QED
  BY <1>1, Powers

\* After a time of at most one round of the counter, and before one.
LEMMA AfterCases ==
  ASSUME NEW x \in Tics, NEW n \in Int, - TimerSize <= n, n <= TimerSize
  PROVE  After(x, n) = IF x + n < 0 THEN x + n + TimerSize
                       ELSE IF x + n < TimerSize THEN x + n ELSE x + n - TimerSize
<1>1. TimerSize \in Nat \ {0}
  BY TimerAssumption
<1>2. ASSUME NEW T \in Nat \ {0}, NEW y \in 0 .. T - 1, NEW k \in Int, - T <= k, k <= T
      PROVE  (y + k) % T = IF y + k < 0 THEN y + k + T
                           ELSE IF y + k < T THEN y + k ELSE y + k - T
  <2>1. ASSUME NEW z \in Int, - T <= z, z < 2 * T
        PROVE  z % T = IF z < 0 THEN z + T ELSE IF z < T THEN z ELSE z - T
    <3>1. CASE z < 0
      BY <2>1, <3>1, Z3
    <3>2. CASE 0 <= z /\ z < T
      BY <2>1, <3>2, Z3
    <3>3. CASE T <= z
      BY <2>1, <3>3, Z3
    <3> QED
      BY <2>1, <3>1, <3>2, <3>3
  <2>2. y + k \in Int /\ - T <= y + k /\ y + k < 2 * T
    BY <1>2
  <2> QED
    BY <2>1, <2>2
<1> QED
  BY <1>1, <1>2 DEF After, Tics

\* Half a bit, and the place of a byte's top bit.
Half == UartswBaudRateDiv \div 2
Top == Power(DataBits - 1)

\* The constants as plain numbers.
LEMMA Numbers ==
  /\ TimerSize \in Nat \ {0} /\ DataBits \in 1 .. 8
  /\ UartswBaudRateDiv \in Nat /\ UartswBaudRateDiv >= 2
  /\ 2 * UartswBaudRateDiv + 2 <= TimerSize
  /\ Half \in Nat /\ 2 * Half <= UartswBaudRateDiv /\ UartswBaudRateDiv <= 2 * Half + 1
  /\ Latency \in Nat /\ 2 * Latency + 1 <= Half
  /\ Compare = {"A", "B"} /\ Sources = {"A", "B", "CAPT"}
<1>1. /\ TimerSize \in Nat \ {0} /\ DataBits \in 1 .. 8
      /\ UartswBaudRateDiv \in 2 .. TimerSize \div 2 - 1 /\ Compare = {"A", "B"}
  BY TimerAssumption, UartSwAssumption
<1>2. ASSUME NEW x \in Nat
      PROVE  x \div 2 \in Nat /\ 2 * (x \div 2) <= x /\ x <= 2 * (x \div 2) + 1
  BY Z3
<1>3. /\ TimerSize \div 2 \in Nat /\ 2 * (TimerSize \div 2) <= TimerSize
      /\ UartswBaudRateDiv \in Nat
  BY <1>1, <1>2
<1>4. /\ Half \in Nat /\ 2 * Half <= UartswBaudRateDiv /\ UartswBaudRateDiv <= 2 * Half + 1
  BY <1>2, <1>3 DEF Half
<1>5. UartswBaudRateDiv >= 2 /\ 2 * UartswBaudRateDiv + 2 <= TimerSize
  BY <1>1, <1>3
<1>6. Latency \in Nat /\ 2 * Latency + 1 <= Half
  BY <1>4, UartSwAssumption DEF Half
<1> QED
  BY <1>1, <1>3, <1>4, <1>5, <1>6 DEF Sources

LEMMA Bytesize ==
  /\ Top \in Nat \ {0} /\ Byte = 0 .. 2 * Top - 1
  /\ Bytes \subseteq Byte /\ 0 \in Byte
<1>1. DataBits - 1 \in 0 .. 7 /\ (DataBits - 1) + 1 = DataBits
  BY Numbers
<1>2. Top \in Nat \ {0} /\ Power(DataBits) = 2 * Top
  BY <1>1, PowerOf DEF Top
<1> QED
  BY <1>2, UartSwAssumption DEF Byte, Power

LEMMA AfterTics ==
  ASSUME NEW x \in Int, NEW n \in Int
  PROVE  After(x, n) \in Tics
<1>1. TimerSize \in Nat \ {0}
  BY TimerAssumption
<1>2. ASSUME NEW T \in Nat \ {0}, NEW y \in Int PROVE y % T \in 0 .. T - 1
  BY Z3
<1>3. x + n \in Int
  OBVIOUS
<1> QED
  BY <1>1, <1>2, <1>3 DEF After, Tics

\* A 16-bit value's bytes, and a value put together from two.
LEMMA Halves ==
  ASSUME NEW x \in Tics
  PROVE  /\ High(x) \in Highs /\ Low(x) \in Tics /\ Low(x) < Radix /\ High(x) + Low(x) = x
         /\ \A h \in Highs : h + Low(x) \in Tics
<1>1. /\ TimerSize \in Nat \ {0} /\ Radix \in Nat \ {0} /\ TimerSize % Radix = 0
      /\ x \in 0 .. TimerSize - 1
  BY TimerAssumption, UartSwAssumption DEF Tics
<1>2. ASSUME NEW R \in Nat \ {0}, NEW y \in Nat
      PROVE  /\ y % R \in Nat /\ y % R < R /\ y % R <= y
             /\ (y - (y % R)) % R = 0
  <2>1. y % R \in 0 .. R - 1
    BY Z3
  <2>2. y = R * (y \div R) + (y % R) /\ y \div R \in Nat
    BY Z3
  <2>3. ASSUME NEW q \in Nat PROVE (R * q) % R = 0 /\ R * q \in Nat
    BY Z3
  <2>4. PICK q \in Nat : q = y \div R
    BY <2>2
  <2>5. PICK p \in 0 .. R - 1 : p = y % R
    BY <2>1
  <2>6. y - p = R * q /\ (R * q) % R = 0 /\ R * q \in Nat
    BY <2>2, <2>3, <2>4, <2>5
  <2>7. (y - p) % R = 0 /\ p <= y
    BY <2>6
  <2> QED
    BY <2>5, <2>7
<1>3. /\ Low(x) \in Nat /\ Low(x) < Radix /\ Low(x) <= x /\ Low(High(x)) = 0
      /\ High(x) = x - Low(x)
  <2>1. x \in Nat
    BY <1>1
  <2>2. x % Radix \in Nat /\ x % Radix < Radix /\ x % Radix <= x /\ (x - (x % Radix)) % Radix = 0
    BY <1>1, <1>2, <2>1
  <2> QED
    BY <2>1, <2>2 DEF Low, High
<1>4. ASSUME NEW R \in Nat \ {0}, NEW T \in Nat, T % R = 0, NEW h \in 0 .. T - 1, h % R = 0
      PROVE  h + R <= T
  <2>1. PICK a \in Nat : T = R * a
    <3>1. T = R * (T \div R) + (T % R) /\ T \div R \in Nat
      BY Z3
    <3> QED
      BY <1>4, <3>1
  <2>2. PICK b \in Nat : h = R * b
    <3>1. h = R * (h \div R) + (h % R) /\ h \div R \in Nat
      BY Z3
    <3> QED
      BY <1>4, <3>1
  <2>3. R * b < R * a
    BY <2>1, <2>2
  <2>4. b + 1 <= a
    <3>1. CASE a <= b
      <4>1. R * a <= R * b
        BY <3>1, Z3
      <4> QED
        BY <2>1, <2>2, <2>3, <4>1
    <3> QED
      BY <3>1
  <2>5. R * (b + 1) <= R * a /\ R * (b + 1) = R * b + R
    BY <2>4, Z3
  <2> QED
    BY <2>1, <2>2, <2>5
<1>5. ASSUME NEW h \in Highs PROVE h + Low(x) \in Tics
  <2>1. h \in 0 .. TimerSize - 1 /\ h % Radix = 0
    BY DEF Highs, Low, Tics
  <2>2. h + Radix <= TimerSize
    BY <1>1, <1>4, <2>1
  <2> QED
    BY <1>1, <1>3, <2>1, <2>2 DEF Tics
<1> QED
  BY <1>1, <1>3, <1>5 DEF Highs, Tics

\* A sample keeps the byte's width.
LEMMA SampledIsByte ==
  ASSUME UartswRxData \in Byte, line \in {0, 1}
  PROVE  Sampled \in Byte
<1>1. ASSUME NEW t \in Nat \ {0}, NEW x \in 0 .. 2 * t - 1, NEW l \in {0, 1}
      PROVE  x \div 2 + l * t \in 0 .. 2 * t - 1
  <2>1. x \div 2 \in 0 .. t - 1
    BY Z3
  <2>2. l * t = IF l = 1 THEN t ELSE 0
    OBVIOUS
  <2> QED
    BY <2>1, <2>2
<1>2. Sampled = UartswRxData \div 2 + line * Top
  BY DEF Sampled, Top, Power
<1> QED
  BY <1>1, <1>2, Bytesize

LEMMA HalfIsByte ==
  ASSUME NEW x \in Byte PROVE x \div 2 \in Byte /\ x % 2 \in {0, 1}
<1>1. ASSUME NEW t \in Nat \ {0}, NEW y \in 0 .. 2 * t - 1
      PROVE  y \div 2 \in 0 .. 2 * t - 1 /\ y % 2 \in {0, 1}
  BY Z3
<1> QED
  BY <1>1, Bytesize

-----------------------------------------------------------------------------
\* Types.  The functions stay where uartswInit attached them, a byte in
\* arrival has a bit left, and a call sends a byte that was given to it.
Types ==
  /\ TypeOK
  /\ TimerIntFunc = [s \in Sources |->
       IF s = "A" THEN "uartswTxBitService" ELSE "uartswRxBitService"]
  /\ UartswRxBusy => UartswRxBitNum < DataBits
  /\ pc # "idle" => sent # <<>>

LEMMA InitTypes == Init => Types
<1> SUFFICES ASSUME Init PROVE Types
  OBVIOUS
<1> USE Numbers DEF Init
<1>1. TimerTypeOK
  <2>1. TCNT1 \in Tics /\ OCR1 \in [Compare -> Tics]
    BY DEF Tics
  <2>2. TimerIntFunc \in [Sources -> Services]
    <3>1. "uartswTxBitService" \in Services /\ "uartswRxBitService" \in Services
      BY DEF Services
    <3>2. TimerIntFunc = [s \in Sources |->
             IF s = "A" THEN "uartswTxBitService" ELSE "uartswRxBitService"]
      OBVIOUS
    <3> QED
      BY ONLY <3>1, <3>2
  <2> QED
    BY <2>1, <2>2 DEF TimerTypeOK
<1>2. UartswTxData \in Byte /\ UartswRxData \in Byte
  BY Bytesize
<1>3. /\ uartswRxBuffer \in Seq(Byte) /\ sent \in Seq(Bytes) /\ got \in Seq(Byte)
      /\ kept \in Seq(Byte \cup {256}) /\ Len(uartswRxBuffer) <= UARTSW_RX_BUFFER_SIZE
  BY UartSwAssumption
<1>4. UartswTxBusy \in BOOLEAN /\ UartswRxBusy \in BOOLEAN /\ clash \in BOOLEAN
  BY Zenon
<1>5. /\ UartswTxBitNum \in 0 .. DataBits + 1 /\ UartswRxBitNum \in 0 .. DataBits
      /\ line \in {0, 1} /\ pc = "idle" /\ reg \subseteq Sources /\ arrived \in Nat
      /\ word \in Tics /\ TEMP = 0 /\ lag \in 0 .. Latency
  BY DEF Tics
<1>7. TEMP \in Highs
  <2>1. ASSUME NEW R \in Nat \ {0} PROVE 0 % R = 0
    BY Z3
  <2> QED
    BY <1>5, <2>1, UartSwAssumption DEF Highs, Low, Tics
<1>6. TypeOK
  BY ONLY <1>1, <1>2, <1>3, <1>4, <1>5, <1>7 DEF TypeOK
<1> QED
  BY <1>6 DEF Types

\* The service functions a source can have.
LEMMA Serves ==
  ASSUME Types
  PROVE  /\ Runs("A", "uartswTxBitService") <=> Pending("A")
         /\ \A s \in Sources : Runs(s, "uartswRxBitService") <=> Pending(s) /\ s # "A"
BY Numbers DEF Types, Runs

\* The delay never exceeds its bound.
LEMMA LagTypes == Types /\ (Tic \/ Catches) => lag' \in 0 .. Latency
BY Numbers DEF Types, TypeOK, Tic, Catches

\* A tic changes the counter, the flags and the delay.
LEMMA TicTypes == Types /\ Tic => Types'
<1> SUFFICES ASSUME Types, Tic PROVE Types'
  OBVIOUS
<1>1. TCNT1' \in Tics
  BY AfterTics, Numbers DEF Tic, Elapse, Types, TypeOK, TimerTypeOK, Tics
<1>2. TIFR1' \subseteq Sources
  BY DEF Tic, Elapse, Types, TypeOK, TimerTypeOK, Reached, Sources
<1>3. lag' \in 0 .. Latency
  BY LagTypes
<1>4. TimerTypeOK'
  BY <1>1, <1>2 DEF Tic, Elapse, Types, TypeOK, TimerTypeOK
<1>5. TypeOK'
  BY <1>3, <1>4 DEF Tic, Types, TypeOK, tx, rx, program
<1> QED
  BY <1>5 DEF Tic, Elapse, Types, tx, rx, program

LEMMA TxTypes == Types /\ uartswTxBitService => Types'
<1> SUFFICES ASSUME Types, uartswTxBitService PROVE Types'
  OBVIOUS
<1>1. /\ UartswTxData \in Byte /\ UartswTxBitNum \in Nat /\ UartswTxBitNum <= DataBits + 1
      /\ OCR1 \in [Compare -> Tics] /\ TIFR1 \subseteq Sources /\ TIMSK1 \subseteq Sources
      /\ TCNT1 \in Tics /\ TimerIntFunc \in [Sources -> Services]
      /\ UartswTxBusy \in BOOLEAN /\ line \in {0, 1} /\ TEMP \in Highs
  BY Numbers DEF Types, TypeOK, TimerTypeOK
<1>2. UartswTxData \div 2 \in Byte /\ UartswTxData % 2 \in {0, 1}
  BY <1>1, HalfIsByte
<1>3. After(OCR1["A"], UartswBaudRateDiv) \in Tics
  <2>1. OCR1["A"] \in Int /\ UartswBaudRateDiv \in Int
    BY <1>1, Numbers DEF Tics
  <2> QED
    BY <2>1, AfterTics
<1>4. ASSUME NEW level \in {0, 1}, Bit(level), UartswTxBitNum >= 1
      PROVE  /\ TIFR1' \subseteq Sources /\ OCR1' \in [Compare -> Tics] /\ TIMSK1' \subseteq Sources
             /\ UartswTxBitNum' \in 0 .. DataBits + 1 /\ line' \in {0, 1}
             /\ UartswTxBusy' \in BOOLEAN /\ TEMP' \in Highs
  <2>1. TEMP' = High(After(OCR1["A"], UartswBaudRateDiv))
    BY <1>1, <1>4, Numbers DEF Bit
  <2>2. TEMP' \in Highs
    BY <1>3, <2>1, Halves
  <2> QED
    BY <1>1, <1>3, <1>4, <2>2, Numbers DEF Bit, Drive
<1>5. /\ TIFR1' \subseteq Sources /\ OCR1' \in [Compare -> Tics] /\ TIMSK1' \subseteq Sources
      /\ UartswTxBitNum' \in 0 .. DataBits + 1 /\ line' \in {0, 1} /\ UartswTxData' \in Byte
      /\ UartswTxBusy' \in BOOLEAN /\ TEMP' \in Highs
  <2>1. CASE UartswTxBitNum > 1
    <3>1. Bit(UartswTxData % 2) /\ UartswTxData' = UartswTxData \div 2
      BY <2>1 DEF uartswTxBitService
    <3> QED
      BY <1>1, <1>2, <1>4, <2>1, <3>1
  <2>2. CASE UartswTxBitNum = 1
    <3>1. Bit(1) /\ UartswTxData' = UartswTxData
      BY <2>2 DEF uartswTxBitService
    <3> QED
      BY <1>1, <1>4, <2>2, <3>1
  <2>3. CASE ~(UartswTxBitNum > 1) /\ UartswTxBitNum # 1
    <3>1. /\ UartswTxBusy' = FALSE /\ TIFR1' = TIFR1 \ {"A"}
          /\ UNCHANGED <<OCR1, TEMP, TIMSK1, UartswTxData, UartswTxBitNum, line>>
      BY <2>3 DEF uartswTxBitService
    <3>2. UartswTxBusy' \in BOOLEAN
      BY <3>1, Zenon
    <3> QED
      BY <1>1, <3>1, <3>2
  <2> QED
    BY <2>1, <2>2, <2>3
<1>6. UNCHANGED <<TCNT1, TimerIntFunc, rx, program, got>>
  BY DEF uartswTxBitService
<1>7. TimerTypeOK'
  BY <1>1, <1>5, <1>6 DEF TimerTypeOK
<1>9. lag' \in 0 .. Latency
  BY LagTypes DEF uartswTxBitService
<1>10. clash' \in BOOLEAN
  BY Zenon DEF uartswTxBitService
<1>8. TypeOK'
  BY <1>5, <1>6, <1>7, <1>9, <1>10 DEF Types, TypeOK, rx, program
<1> QED
  BY <1>6, <1>8 DEF Types, rx, program

\* What comes into the buffer and into the ghosts of it has its type.
LEMMA StoreTypes ==
  ASSUME Types, NEW b \in Byte, Store(b)
  PROVE  /\ arrived' \in Nat
         /\ uartswRxBuffer' \in Seq(Byte) /\ Len(uartswRxBuffer') <= UARTSW_RX_BUFFER_SIZE
         /\ kept' \in Seq(Byte \cup {256})
<1>1. /\ arrived \in Nat /\ uartswRxBuffer \in Seq(Byte) /\ kept \in Seq(Byte \cup {256})
      /\ Len(uartswRxBuffer) <= UARTSW_RX_BUFFER_SIZE /\ sent \in Seq(Bytes)
      /\ UARTSW_RX_BUFFER_SIZE \in Nat
  BY UartSwAssumption DEF Types, TypeOK
<1> DEFINE w == IF arrived < Len(sent) THEN sent[arrived + 1] ELSE 256
<1>2. w \in Byte \cup {256}
  <2>1. CASE arrived < Len(sent)
    <3>1. arrived + 1 \in 1 .. Len(sent)
      BY <1>1, <2>1
    <3>2. sent[arrived + 1] \in Byte
      BY <1>1, <3>1, ElementOfSeq, Bytesize
    <3> QED
      BY <2>1, <3>2
  <2>2. CASE ~(arrived < Len(sent))
    BY <2>2
  <2> QED
    BY <2>1, <2>2
<1>3. arrived' \in Nat
  BY <1>1 DEF Store
<1>4. CASE Len(uartswRxBuffer) < UARTSW_RX_BUFFER_SIZE
  <2>1. uartswRxBuffer' = Append(uartswRxBuffer, b) /\ kept' = Append(kept, w)
    BY <1>4 DEF Store
  <2> HIDE DEF w
  <2>2. /\ uartswRxBuffer' \in Seq(Byte) /\ Len(uartswRxBuffer') = Len(uartswRxBuffer) + 1
        /\ kept' \in Seq(Byte \cup {256})
    BY <1>1, <1>2, <2>1, AppendProperties
  <2>3. Len(uartswRxBuffer') <= UARTSW_RX_BUFFER_SIZE
    <3>1. Len(uartswRxBuffer) \in Nat
      BY <1>1
    <3> QED
      BY <1>1, <1>4, <2>2, <3>1
  <2> QED
    BY <1>3, <2>2, <2>3
<1>5. CASE ~(Len(uartswRxBuffer) < UARTSW_RX_BUFFER_SIZE)
  BY <1>1, <1>3, <1>5 DEF Store
<1> QED
  BY <1>4, <1>5

LEMMA RxTypes ==
  ASSUME Types, NEW s \in Sources, uartswRxBitService(s)
  PROVE  Types'
<1>1. /\ UartswRxBusy \in BOOLEAN /\ UartswRxData \in Byte /\ UartswRxBitNum \in 0 .. DataBits
      /\ OCR1 \in [Compare -> Tics] /\ TIFR1 \subseteq Sources /\ TIMSK1 \subseteq Sources
      /\ TCNT1 \in Tics /\ TimerIntFunc \in [Sources -> Services] /\ line \in {0, 1}
      /\ uartswRxBuffer \in Seq(Byte) /\ Len(uartswRxBuffer) <= UARTSW_RX_BUFFER_SIZE
      /\ arrived \in Nat /\ kept \in Seq(Byte \cup {256})
  BY DEF Types, TypeOK, TimerTypeOK
<1>2. UNCHANGED <<TCNT1, TimerIntFunc, tx, program, line, got>>
  BY DEF uartswRxBitService
<1>3. Sampled \in Byte
  BY <1>1, SampledIsByte
<1>4. ASSUME NEW x \in Tics, NEW n \in Nat
      PROVE  [OCR1 EXCEPT !["B"] = After(x, n)] \in [Compare -> Tics]
  <2>1. After(x, n) \in Tics
    BY AfterTics, Numbers DEF Tics
  <2> QED
    BY <1>1, <2>1
<1>5. ASSUME StartBit(s)
      PROVE  /\ OCR1' \in [Compare -> Tics] /\ TIFR1' \subseteq Sources /\ TIMSK1' \subseteq Sources
             /\ UartswRxBusy' \in BOOLEAN /\ UartswRxData' \in Byte
             /\ UartswRxBitNum' \in 0 .. DataBits /\ UartswRxBitNum' < DataBits
             /\ UNCHANGED <<uartswRxBuffer, arrived, kept>>
  <2>1. UartswBaudRateDiv + Half \in Nat
    BY Numbers
  <2>2. OCR1' = [OCR1 EXCEPT !["B"] = After(TCNT1, UartswBaudRateDiv + Half)]
    BY <1>5 DEF StartBit, FirstSample, Half
  <2>3. OCR1' \in [Compare -> Tics]
    BY <1>1, <1>4, <2>1, <2>2
  <2>4. UartswRxBusy' \in BOOLEAN
    BY <1>5, Zenon DEF StartBit
  <2> QED
    BY <1>1, <1>5, <2>3, <2>4, Numbers, Bytesize DEF StartBit
<1>6. ASSUME DataBit(s)
      PROVE  /\ OCR1' \in [Compare -> Tics] /\ TIFR1' \subseteq Sources /\ TIMSK1' \subseteq Sources
             /\ UartswRxBusy' \in BOOLEAN /\ UartswRxData' \in Byte
             /\ UartswRxBitNum' \in 0 .. DataBits
             /\ UartswRxBusy' => UartswRxBitNum' < DataBits
             /\ arrived' \in Nat
             /\ uartswRxBuffer' \in Seq(Byte) /\ Len(uartswRxBuffer') <= UARTSW_RX_BUFFER_SIZE
             /\ kept' \in Seq(Byte \cup {256})
  <2>1. /\ OCR1' = [OCR1 EXCEPT !["B"] = After(OCR1["B"], UartswBaudRateDiv)]
        /\ UartswRxData' = Sampled /\ UartswRxBitNum' = UartswRxBitNum + 1 /\ UartswRxBusy
    BY <1>6 DEF DataBit
  <2>2. OCR1' \in [Compare -> Tics]
    BY <1>1, <1>4, <2>1, Numbers
  <2>3. UartswRxBitNum < DataBits
    BY <2>1 DEF Types
  <2>4. UartswRxBitNum' \in 0 .. DataBits
    BY <1>1, <2>1, <2>3, Numbers
  <2>5. CASE UartswRxBitNum + 1 >= DataBits
    <3>1. LastBit
      BY <1>6, <2>5 DEF DataBit
    <3>2. Store(Sampled)
      BY <3>1 DEF LastBit
    <3>3. /\ arrived' \in Nat /\ uartswRxBuffer' \in Seq(Byte)
          /\ Len(uartswRxBuffer') <= UARTSW_RX_BUFFER_SIZE /\ kept' \in Seq(Byte \cup {256})
      BY <1>3, <3>2, StoreTypes
    <3>4. UartswRxBusy' = FALSE /\ TIFR1' \subseteq Sources /\ TIMSK1' \subseteq Sources
      BY <1>1, <3>1, Numbers DEF LastBit
    <3>5. UartswRxBusy' \in BOOLEAN
      BY <3>4, Zenon
    <3> QED
      BY <1>3, <2>1, <2>2, <2>4, <3>3, <3>4, <3>5
  <2>6. CASE ~(UartswRxBitNum + 1 >= DataBits)
    <3>1. /\ TIFR1' = TIFR1 \ {s}
          /\ UNCHANGED <<TIMSK1, UartswRxBusy, uartswRxBuffer, arrived, kept>>
      BY <1>6, <2>6 DEF DataBit
    <3>2. UartswRxBitNum' < DataBits
      BY <1>1, <2>1, <2>6, Numbers
    <3> QED
      BY <1>1, <1>3, <2>1, <2>2, <2>4, <3>1, <3>2
  <2> QED
    BY <2>5, <2>6
<1>7. /\ OCR1' \in [Compare -> Tics] /\ TIFR1' \subseteq Sources /\ TIMSK1' \subseteq Sources
      /\ UartswRxBusy' \in BOOLEAN /\ UartswRxData' \in Byte
      /\ UartswRxBitNum' \in 0 .. DataBits
      /\ UartswRxBusy' => UartswRxBitNum' < DataBits
      /\ arrived' \in Nat
      /\ uartswRxBuffer' \in Seq(Byte) /\ Len(uartswRxBuffer') <= UARTSW_RX_BUFFER_SIZE
      /\ kept' \in Seq(Byte \cup {256})
  <2>1. CASE StartBit(s)
    BY <1>1, <1>5, <2>1
  <2>2. CASE DataBit(s)
    BY <1>6, <2>2
  <2> QED
    BY <2>1, <2>2 DEF uartswRxBitService
<1>8. TimerTypeOK'
  BY <1>1, <1>2, <1>7 DEF TimerTypeOK
<1>10. lag' \in 0 .. Latency
  BY LagTypes DEF uartswRxBitService
<1>11. clash' \in BOOLEAN
  BY Zenon DEF uartswRxBitService
<1>12. TEMP' \in Highs
  <2>1. TEMP' = High(OCR1'["B"]) /\ OCR1'["B"] \in Tics
    BY <1>7, Numbers DEF uartswRxBitService
  <2>2. PICK x \in Tics : x = OCR1'["B"]
    BY <2>1
  <2> QED
    BY <2>1, <2>2, Halves
<1>9. TypeOK'
  BY <1>2, <1>7, <1>8, <1>10, <1>11, <1>12 DEF Types, TypeOK, tx, program
<1> QED
  BY <1>2, <1>7, <1>9 DEF Types, tx, program

PCs == {"idle", "wait", "busy", "data", "bits", "start", "ocr", "tcnth", "ocrh", "ocrl",
        "read", "write"}

\* What a step of uartswSendByte may change has its type again.
Kept ==
  /\ OCR1' \in [Compare -> Tics] /\ TIMSK1' \subseteq Sources /\ TIFR1' \subseteq Sources
  /\ UartswTxBusy' \in BOOLEAN /\ UartswTxData' \in Byte /\ UartswTxBitNum' \in 0 .. DataBits + 1
  /\ line' \in {0, 1} /\ reg' \subseteq Sources /\ word' \in Tics /\ TEMP' \in Highs
  /\ sent' \in Seq(Bytes) /\ sent' # <<>>

LEMMA StepTypes ==
  ASSUME Types, NEW from, NEW to, Step(from, to), Kept, Catches, to \in PCs
  PROVE  Types'
<1>1. pc' = to /\ UNCHANGED <<rx, got, clash, TCNT1, TimerIntFunc>>
  BY DEF Step
<1>2. TimerTypeOK'
  BY <1>1 DEF Types, TypeOK, TimerTypeOK, Kept
<1>3. lag' \in 0 .. Latency
  BY LagTypes
<1>4. TypeOK'
  BY <1>1, <1>2, <1>3 DEF Types, TypeOK, rx, PCs, Kept
<1> QED
  BY <1>1, <1>4 DEF Types, rx, Kept

LEMMA SendTypes == ASSUME Types, NEW b \in Bytes, SendByte(b) PROVE Types'
<1>1. sent' \in Seq(Bytes) /\ sent' # <<>>
  <2>1. sent \in Seq(Bytes) /\ sent' = Append(sent, b)
    BY DEF SendByte, Types, TypeOK
  <2> QED
    BY <2>1, AppendProperties
<1>2. /\ Step("idle", "wait") /\ Catches
      /\ UNCHANGED <<OCR1, TIMSK1, TIFR1, TEMP, tx, reg, word, line>>
  BY DEF SendByte
<1>3. Kept
  BY <1>1, <1>2 DEF tx, Types, TypeOK, TimerTypeOK, Kept
<1> QED
  BY <1>2, <1>3, StepTypes DEF PCs

LEMMA CallTypes == Types /\ uartswSendByte => Types'
<1> SUFFICES ASSUME Types, uartswSendByte PROVE Types'
  OBVIOUS
<1>1. /\ OCR1 \in [Compare -> Tics] /\ TIMSK1 \subseteq Sources /\ TIFR1 \subseteq Sources
      /\ UartswTxBusy \in BOOLEAN /\ UartswTxData \in Byte /\ UartswTxBitNum \in 0 .. DataBits + 1
      /\ line \in {0, 1} /\ reg \subseteq Sources /\ word \in Tics /\ TEMP \in Highs
      /\ sent \in Seq(Bytes) /\ TCNT1 \in Tics
  BY DEF Types, TypeOK, TimerTypeOK
<1>2. pc # "idle" => sent # <<>>
  BY DEF Types
<1>3. ASSUME NEW from \in PCs \ {"idle"}, NEW to \in PCs, Step(from, to), Kept
      PROVE  Types'
  BY <1>3, StepTypes DEF uartswSendByte
<1>4. CASE Ready
  <2>1. Step("wait", "busy") /\ Kept
    BY <1>1, <1>2, <1>4 DEF Ready, Step, tx, Kept
  <2> QED
    BY <1>3, <2>1 DEF PCs
<1>5. CASE SetBusy
  <2>1. Step("busy", "data") /\ Kept
    <3>1. UartswTxBusy' \in BOOLEAN
      BY <1>5, Zenon DEF SetBusy
    <3> QED
      BY <1>1, <1>2, <1>5, <3>1 DEF SetBusy, Step, Kept
  <2> QED
    BY <1>3, <2>1 DEF PCs
<1>6. CASE SetData
  <2>1. sent[Len(sent)] \in Byte
    <3>1. sent # <<>>
      BY <1>2, <1>6 DEF SetData, Step
    <3>2. sent[Len(sent)] \in Bytes
      BY <1>1, <3>1
    <3> QED
      BY <3>2, Bytesize
  <2>2. Step("data", "bits") /\ Kept
    BY <1>1, <1>2, <1>6, <2>1 DEF SetData, Step, Kept
  <2> QED
    BY <1>3, <2>2 DEF PCs
<1>7. CASE SetBits
  <2>1. DataBits + 1 \in 0 .. DataBits + 1
    BY Numbers
  <2>2. Step("bits", "start") /\ Kept
    BY <1>1, <1>2, <1>7, <2>1 DEF SetBits, Step, Kept
  <2> QED
    BY <1>3, <2>2 DEF PCs
<1>8. CASE SetStartBit
  <2>1. TIFR1' \subseteq Sources /\ line' \in {0, 1}
    BY <1>1, <1>8, Numbers DEF SetStartBit, Drive
  <2>2. Step("start", "ocr") /\ Kept
    BY <1>1, <1>2, <1>8, <2>1 DEF SetStartBit, Step, tx, Kept
  <2> QED
    BY <1>3, <2>2 DEF PCs
<1>9. CASE ReadLow
  <2>1. High(TCNT1) \in Highs /\ Low(TCNT1) \in Tics
    BY <1>1, Halves
  <2>2. Step("ocr", "tcnth") /\ Kept
    BY <1>1, <1>2, <1>9, <2>1 DEF ReadLow, Step, tx, Kept
  <2> QED
    BY <1>3, <2>2 DEF PCs
<1>10. CASE ReadHigh
  <2>1. word' \in Tics
    <3>1. TEMP + word \in Int /\ UartswBaudRateDiv \in Int
      BY <1>1, Numbers DEF Highs, Tics
    <3> QED
      BY <1>10, <3>1, AfterTics DEF ReadHigh
  <2>2. Step("tcnth", "ocrh") /\ Kept
    BY <1>1, <1>2, <1>10, <2>1 DEF ReadHigh, Step, tx, Kept
  <2> QED
    BY <1>3, <2>2 DEF PCs
<1>11. CASE WriteHigh
  <2>1. High(word) \in Highs
    BY <1>1, Halves
  <2>2. Step("ocrh", "ocrl") /\ Kept
    BY <1>1, <1>2, <1>11, <2>1 DEF WriteHigh, Step, tx, Kept
  <2> QED
    BY <1>3, <2>2 DEF PCs
<1>12. CASE WriteLow
  <2>1. OCR1' \in [Compare -> Tics] /\ 0 \in Tics
    <3>1. TEMP + Low(word) \in Tics
      BY <1>1, Halves
    <3> QED
      BY <1>1, <1>12, <3>1, Numbers DEF WriteLow, Tics
  <2>2. Step("ocrl", "read") /\ Kept
    BY <1>1, <1>2, <1>12, <2>1 DEF WriteLow, Step, tx, Kept
  <2> QED
    BY <1>3, <2>2 DEF PCs
<1>13. CASE ReadMask
  <2>1. Step("read", "write") /\ Kept
    BY <1>1, <1>2, <1>13 DEF ReadMask, Step, tx, Kept
  <2> QED
    BY <1>3, <2>1 DEF PCs
<1>14. CASE WriteMask
  <2>1. TIMSK1' \subseteq Sources /\ reg' \subseteq Sources
    BY <1>1, <1>14, Numbers DEF WriteMask
  <2>2. Step("write", "idle") /\ Kept
    BY <1>1, <1>2, <1>14, <2>1 DEF WriteMask, Step, tx, Kept
  <2> QED
    BY <1>3, <2>2 DEF PCs
<1> QED
  BY <1>4, <1>5, <1>6, <1>7, <1>8, <1>9, <1>10, <1>11, <1>12, <1>13, <1>14
     DEF uartswSendByte, SetCompare

LEMMA ReceiveTypes == Types /\ uartswReceiveByte => Types'
<1> SUFFICES ASSUME Types, uartswReceiveByte PROVE Types'
  OBVIOUS
<1>1. /\ uartswRxBuffer \in Seq(Byte) /\ uartswRxBuffer # <<>> /\ got \in Seq(Byte)
      /\ Len(uartswRxBuffer) <= UARTSW_RX_BUFFER_SIZE /\ UARTSW_RX_BUFFER_SIZE \in Nat
      /\ uartswRxBuffer' = Tail(uartswRxBuffer) /\ got' = Append(got, Head(uartswRxBuffer))
  BY UartSwAssumption DEF uartswReceiveByte, Types, TypeOK
<1>2. /\ Head(uartswRxBuffer) \in Byte /\ Tail(uartswRxBuffer) \in Seq(Byte)
      /\ Len(Tail(uartswRxBuffer)) = Len(uartswRxBuffer) - 1 /\ Len(uartswRxBuffer) \in Nat
  BY <1>1, HeadTailProperties
<1>3. got' \in Seq(Byte)
  BY <1>1, <1>2, AppendProperties
<1>4. uartswRxBuffer' \in Seq(Byte) /\ Len(uartswRxBuffer') <= UARTSW_RX_BUFFER_SIZE
  BY <1>1, <1>2
<1>5. UNCHANGED <<timervars, tx, UartswRxBusy, UartswRxData, UartswRxBitNum, arrived, kept, program, line, TEMP, clash>>
  BY DEF uartswReceiveByte
<1>7. lag' \in 0 .. Latency
  BY LagTypes DEF uartswReceiveByte
<1>6. TypeOK'
  BY <1>3, <1>4, <1>5, <1>7 DEF Types, TypeOK, TimerTypeOK, timervars, tx, program
<1> QED
  BY <1>5, <1>6 DEF Types, timervars, tx, program

LEMMA StepKeepsTypes == Types /\ [Next]_vars => Types'
<1> SUFFICES ASSUME Types, [Next]_vars PROVE Types'
  OBVIOUS
<1>1. CASE UNCHANGED vars
  BY <1>1 DEF vars, timervars, tx, rx, program, Types, TypeOK, TimerTypeOK
<1> QED
  BY <1>1, TicTypes, TxTypes, RxTypes, SendTypes, CallTypes, ReceiveTypes
     DEF Next, Interrupt

\* The variables of the software UART keep their types, the receive buffer its
\* size, at every baud rate and whatever clashes with a call.
THEOREM TypeCorrect == Spec => []TypeOK
<1>1. Types => TypeOK
  BY DEF Types
<1> QED
  BY <1>1, InitTypes, StepKeepsTypes, PTL DEF Spec

-----------------------------------------------------------------------------
\* The order of the bytes.  A bit that is on the line is known by how many
\* tics lie before the next edge and before the next sample.

\* The compare of unit u comes in n tics.
DueIn(u, n) == OCR1[u] = After(TCNT1, n)

\* The bytes whose start bit went out, and the last of them.
Started == IF pc \in {"wait", "busy", "data", "bits", "start"} THEN Len(sent) - 1 ELSE Len(sent)
Current == sent[Started]

\* The receiver waits for a start bit, or for its next sample.
Listening == ~UartswRxBusy /\ "CAPT" \in TIMSK1 /\ "B" \notin TIMSK1
Receiving ==
  /\ UartswRxBusy /\ "B" \in TIMSK1 /\ "CAPT" \notin TIMSK1
  /\ Started > 0 /\ arrived = Started - 1

\* The line is idle and every byte that went out came in.
Quiet == Listening /\ line = 1 /\ "CAPT" \notin TIFR1 /\ arrived = Started

\* The transmitter is idle.
Rest == pc \in {"idle", "wait"} /\ ~UartswTxBusy /\ Quiet /\ UartswTxBitNum = 0

\* uartswSendByte fills in the byte.
Prepare ==
  /\ pc \in {"busy", "data", "bits", "start"} /\ Quiet
  /\ pc # "busy" => UartswTxBusy
  /\ pc \in {"bits", "start"} => UartswTxData = sent[Len(sent)]
  /\ UartswTxBitNum = IF pc = "start" THEN DataBits + 1 ELSE 0

\* It arranges for the first data bit; it read the counter k tics ago.
Arranges(k) ==
  /\ pc = "tcnth" => TEMP = High(After(TCNT1, - k)) /\ word = Low(After(TCNT1, - k))
  /\ pc \in {"ocrh", "ocrl"} => word = After(TCNT1, UartswBaudRateDiv - k)
  /\ pc = "ocrl" => TEMP = High(word)
  /\ pc \in {"read", "write"} => DueIn("A", UartswBaudRateDiv - k)
  /\ pc = "write" => reg = TIMSK1

Loaded ==
  /\ pc \in {"ocr", "tcnth", "ocrh", "ocrl", "read", "write"}
  /\ UartswTxBusy /\ UartswTxBitNum = DataBits + 1 /\ UartswTxData = Current
  /\ line = 0 /\ Started > 0 /\ arrived = Started - 1

\* The start bit is on the line, not yet seen;
Fall ==
  /\ Loaded /\ Listening /\ "CAPT" \in TIFR1
  /\ \E k \in 0 .. lag : Arranges(k)

\* then seen, i tics ago.
Launch ==
  /\ Loaded /\ Receiving
  /\ UartswRxBitNum = 0 /\ UartswRxData = 0 /\ "B" \notin TIFR1
  /\ \E k \in 0 .. lag : Arranges(k)
  /\ \E i \in 0 .. lag : DueIn("B", UartswBaudRateDiv + Half - i)

\* The interrupts send the rest of the byte.
Sending == pc \in {"idle", "wait"} /\ UartswTxBusy /\ "A" \in TIMSK1

\* The bit on the line was sampled; the next comes in a tics, its sample g
\* later.  It may be up to the delay overdue; for the first bit the flag may be
\* up from before the call.
Edge(a, g) ==
  /\ DueIn("A", a) /\ DueIn("B", a + g) /\ "B" \notin TIFR1
  /\ a <= 0 => "A" \in TIFR1 /\ - a <= lag
  /\ "A" \in TIFR1 => a <= 0 \/ UartswRxBitNum = 0
  /\ UartswTxBitNum + UartswRxBitNum = DataBits + 1
  /\ UartswTxData = Current \div Power(UartswRxBitNum)

\* The bit on the line is sampled in d tics and ends as long after as the
\* next one's sample comes before its end.
Sample(d, g) ==
  /\ DueIn("B", d) /\ DueIn("A", d + UartswBaudRateDiv - g) /\ "A" \notin TIFR1
  /\ "B" \in TIFR1 <=> d <= 0
  /\ d <= 0 => - d <= lag
  /\ UartswTxBitNum + UartswRxBitNum = DataBits
  /\ line = (Current \div Power(UartswRxBitNum)) % 2
  /\ UartswTxData = Current \div Power(UartswRxBitNum + 1)

Gaps == Half - Latency .. Half + Latency
EdgeTimes == - Latency .. UartswBaudRateDiv
SampleTimes(g) == - Latency .. UartswBaudRateDiv + g

Bits ==
  /\ Sending /\ Receiving
  /\ UartswRxData = (Current % Power(UartswRxBitNum)) * Power(DataBits - UartswRxBitNum)
  /\ \E g \in Gaps : \/ \E a \in EdgeTimes : Edge(a, g)
                     \/ \E d \in SampleTimes(g) : Sample(d, g)

\* All bits were sampled; the stop bit goes out or is there.
Ending ==
  /\ Sending /\ Listening /\ "CAPT" \notin TIFR1 /\ arrived = Started
  /\ UartswTxBitNum \in {0, 1} /\ (UartswTxBitNum = 0 => line = 1)

Phase == Rest \/ Prepare \/ Fall \/ Launch \/ Bits \/ Ending

\* The inductive invariant.
IInv == Types /\ (clash \/ Phase) /\ InOrder

-----------------------------------------------------------------------------
\* What lies n tics ahead lies n - 1 ahead a tic later.
LEMMA TicOn ==
  ASSUME Types, Elapse, NEW n \in Int, - TimerSize < n, n <= TimerSize
  PROVE  After(TCNT1', n - 1) = After(TCNT1, n)
<1>1. TCNT1 \in Tics /\ TimerSize \in Nat \ {0}
  BY Numbers DEF Types, TypeOK, TimerTypeOK
<1>2. TCNT1' = After(TCNT1, 1)
  BY DEF Elapse
<1>3. TCNT1' = IF TCNT1 + 1 < TimerSize THEN TCNT1 + 1 ELSE TCNT1 + 1 - TimerSize
  BY <1>1, <1>2, AfterCases DEF Tics
<1>4. TCNT1' \in Tics
  BY <1>1, <1>3 DEF Tics
<1>5. After(TCNT1, n) = IF TCNT1 + n < 0 THEN TCNT1 + n + TimerSize
                        ELSE IF TCNT1 + n < TimerSize THEN TCNT1 + n ELSE TCNT1 + n - TimerSize
  BY <1>1, AfterCases
<1>6. After(TCNT1', n - 1) =
        IF TCNT1' + (n - 1) < 0 THEN TCNT1' + (n - 1) + TimerSize
        ELSE IF TCNT1' + (n - 1) < TimerSize THEN TCNT1' + (n - 1) ELSE TCNT1' + (n - 1) - TimerSize
  <2>1. n - 1 \in Int /\ - TimerSize <= n - 1 /\ n - 1 <= TimerSize
    BY <1>1
  <2>2. PICK x \in Tics : x = TCNT1'
    BY <1>4
  <2> QED
    BY <2>1, <2>2, AfterCases
<1> QED
  BY <1>1, <1>3, <1>5, <1>6 DEF Tics

\* A tic brings a compare a tic nearer, and the flag with the last one.
LEMMA TicNearer ==
  ASSUME Types, Elapse, NEW u \in Compare, NEW n \in Int, - Latency <= n, n < TimerSize,
         DueIn(u, n)
  PROVE  DueIn(u, n - 1)' /\ (u \in TIFR1' <=> u \in TIFR1 \/ n = 1)
<1>1. /\ TCNT1 \in Tics /\ TimerSize \in Nat \ {0} /\ Latency + 2 < TimerSize
      /\ Latency \in Nat
  BY Numbers DEF Types, TypeOK, TimerTypeOK
<1>2. OCR1' = OCR1 /\ TIFR1' = TIFR1 \cup Reached
  BY DEF Elapse
<1>3. After(TCNT1', n - 1) = After(TCNT1, n)
  BY <1>1, TicOn
<1>4. After(TCNT1, 1) = IF TCNT1 + 1 < TimerSize THEN TCNT1 + 1 ELSE TCNT1 + 1 - TimerSize
  BY <1>1, AfterCases DEF Tics
<1>5. After(TCNT1, n) = IF TCNT1 + n < 0 THEN TCNT1 + n + TimerSize
                        ELSE IF TCNT1 + n < TimerSize THEN TCNT1 + n ELSE TCNT1 + n - TimerSize
  BY <1>1, AfterCases
<1>6. u \in Reached <=> n = 1
  BY <1>1, <1>4, <1>5 DEF Reached, DueIn, Tics
<1> QED
  BY <1>2, <1>3, <1>6 DEF DueIn

\* m tics after what lies n ahead lies n + m ahead.
LEMMA AfterSum ==
  ASSUME Types, NEW n \in Int, NEW m \in Nat, - Latency <= n, m < TimerSize, n + m < TimerSize
  PROVE  After(After(TCNT1, n), m) = After(TCNT1, n + m)
<1>1. /\ TCNT1 \in Tics /\ TimerSize \in Nat \ {0} /\ Latency \in Nat /\ Latency < TimerSize
  BY Numbers DEF Types, TypeOK, TimerTypeOK
<1>2. After(TCNT1, n) = IF TCNT1 + n < 0 THEN TCNT1 + n + TimerSize
                        ELSE IF TCNT1 + n < TimerSize THEN TCNT1 + n ELSE TCNT1 + n - TimerSize
  BY <1>1, AfterCases
<1>3. After(TCNT1, n + m) =
        IF TCNT1 + (n + m) < 0 THEN TCNT1 + (n + m) + TimerSize
        ELSE IF TCNT1 + (n + m) < TimerSize THEN TCNT1 + (n + m) ELSE TCNT1 + (n + m) - TimerSize
  <2>1. n + m \in Int /\ - TimerSize <= n + m /\ n + m <= TimerSize
    BY <1>1
  <2> QED
    BY <1>1, <2>1, AfterCases
<1>4. PICK y \in Tics : y = After(TCNT1, n)
  BY <1>1, AfterTics DEF Tics
<1>5. After(y, m) = IF y + m < TimerSize THEN y + m ELSE y + m - TimerSize
  BY <1>1, AfterCases DEF Tics
<1> QED
  BY <1>1, <1>2, <1>3, <1>4, <1>5 DEF Tics

\* A compare that is moved by m tics is due m tics later.
LEMMA MovedLater ==
  ASSUME Types, NEW u \in Compare, NEW n \in Int, NEW m \in Nat,
         - Latency <= n, m < TimerSize, n + m < TimerSize, DueIn(u, n)
  PROVE  After(OCR1[u], m) = After(TCNT1, n + m)
BY AfterSum DEF DueIn

\* While the counter stands, so do the distances.
LEMMA DueSame ==
  ASSUME TCNT1' = TCNT1, NEW u, OCR1'[u] = OCR1[u], NEW n
  PROVE  DueIn(u, n)' <=> DueIn(u, n)
BY DEF DueIn

\* The variables' types, as the steps below need them.
LEMMA Typed ==
  ASSUME Types
  PROVE  /\ TCNT1 \in Tics /\ OCR1 \in [Compare -> Tics]
         /\ UartswTxBitNum \in Nat /\ UartswRxBitNum \in Nat
         /\ UartswTxData \in Byte /\ UartswRxData \in Byte /\ line \in {0, 1}
         /\ sent \in Seq(Bytes) /\ Len(sent) \in Nat /\ arrived \in Nat
         /\ UartswRxBusy => UartswRxBitNum < DataBits
         /\ pc # "idle" => Len(sent) >= 1
         /\ Compare = {"A", "B"} /\ Sources = {"A", "B", "CAPT"}
         /\ pc \in PCs /\ lag \in 0 .. Latency /\ word \in Tics /\ TEMP \in Highs
<1>1. sent \in Seq(Bytes) /\ Len(sent) \in Nat /\ (sent # <<>> => Len(sent) >= 1)
  BY DEF Types, TypeOK
<1> QED
  BY <1>1, Numbers DEF Types, TypeOK, TimerTypeOK, PCs

\* The byte on its way is one the program sent.
LEMMA CurrentIsByte ==
  ASSUME Types, Started > 0
  PROVE  Started \in 1 .. Len(sent) /\ Current \in Byte
<1>1. Started \in 1 .. Len(sent)
  BY Typed DEF Started, PCs
<1>2. sent[Started] \in Bytes
  BY <1>1, Typed, ElementOfSeq
<1> QED
  BY <1>1, <1>2, Bytesize DEF Current

LEMMA SameStarted ==
  ASSUME UNCHANGED <<pc, sent>>
  PROVE  Started' = Started /\ Current' = Current
BY DEF Started, Current

-----------------------------------------------------------------------------
\* Powers of 2 up to that of a byte multiply by adding.
LEMMA PowerSum ==
  ASSUME NEW n \in 0 .. 8, NEW m \in 0 .. 8, n + m <= 8
  PROVE  Power(n + m) = Power(n) * Power(m)
<1> DEFINE P(k) == \A i \in 0 .. 8 : k + i <= 8 => Power(k + i) = Power(k) * Power(i)
<1>1. P(0)
  BY PowerOf, Powers
<1>2. ASSUME NEW k \in 0 .. 7, P(k) PROVE P(k + 1)
  <2> SUFFICES ASSUME NEW i \in 0 .. 8, (k + 1) + i <= 8
               PROVE  Power((k + 1) + i) = Power(k + 1) * Power(i)
    OBVIOUS
  <2>1. PICK j \in 0 .. 7 : j = k + i
    OBVIOUS
  <2>2. Power(j) = Power(k) * Power(i)
    BY <1>2, <2>1
  <2>3. Power(j + 1) = 2 * Power(j) /\ Power(k + 1) = 2 * Power(k) /\ Power(k) \in Nat /\ Power(i) \in Nat
    BY PowerOf
  <2>4. (k + 1) + i = j + 1
    BY <2>1
  <2>5. ASSUME NEW x \in Nat, NEW y \in Nat PROVE 2 * (x * y) = (2 * x) * y
    BY Z3
  <2> QED
    BY <2>2, <2>3, <2>4, <2>5
<1>3. P(1) /\ P(2) /\ P(3) /\ P(4) /\ P(5) /\ P(6) /\ P(7) /\ P(8)
  <2> HIDE DEF P
  <2>1. P(1)  BY <1>1, <1>2, 0 + 1 = 1
  <2>2. P(2)  BY <2>1, <1>2, 1 + 1 = 2
  <2>3. P(3)  BY <2>2, <1>2, 2 + 1 = 3
  <2>4. P(4)  BY <2>3, <1>2, 3 + 1 = 4
  <2>5. P(5)  BY <2>4, <1>2, 4 + 1 = 5
  <2>6. P(6)  BY <2>5, <1>2, 5 + 1 = 6
  <2>7. P(7)  BY <2>6, <1>2, 6 + 1 = 7
  <2>8. P(8)  BY <2>7, <1>2, 7 + 1 = 8
  <2> QED
    BY <2>1, <2>2, <2>3, <2>4, <2>5, <2>6, <2>7, <2>8
<1>4. n = 0 \/ n = 1 \/ n = 2 \/ n = 3 \/ n = 4 \/ n = 5 \/ n = 6 \/ n = 7 \/ n = 8
  OBVIOUS
<1>5. P(n)
  <2> HIDE DEF P
  <2> QED
    BY <1>1, <1>3, <1>4
<1> QED
  BY <1>5

\* The power of 2 below bit n is one of eight numbers.
LEMMA PowerIs ==
  ASSUME NEW n \in 0 .. 7
  PROVE  Power(n) \in {1, 2, 4, 8, 16, 32, 64, 128}
<1>1. n = 0 \/ n = 1 \/ n = 2 \/ n = 3 \/ n = 4 \/ n = 5 \/ n = 6 \/ n = 7
  OBVIOUS
<1> QED
  BY <1>1, Powers

\* Shifting one place further right.
LEMMA ShiftOn ==
  ASSUME NEW b \in Nat, NEW n \in 0 .. 7
  PROVE  (b \div Power(n)) \div 2 = b \div Power(n + 1)
<1>1. ASSUME NEW p \in {1, 2, 4, 8, 16, 32, 64, 128}
      PROVE  (b \div p) \div 2 = b \div (2 * p)
  BY Z3
<1>2. Power(n + 1) = 2 * Power(n)
  BY PowerOf
<1>3. PICK p \in {1, 2, 4, 8, 16, 32, 64, 128} : p = Power(n)
  BY PowerIs
<1>4. (b \div p) \div 2 = b \div (2 * p)
  BY <1>1
<1> QED
  BY <1>2, <1>3, <1>4

\* The lowest bits of a byte and the one above them.
LEMMA LowBits ==
  ASSUME NEW b \in Nat, NEW n \in 0 .. 7
  PROVE  /\ b % Power(n + 1) = (b % Power(n)) + ((b \div Power(n)) % 2) * Power(n)
         /\ b % Power(n) \in Nat /\ (b \div Power(n)) % 2 \in {0, 1}
<1>1. ASSUME NEW p \in {1, 2, 4, 8, 16, 32, 64, 128}
      PROVE  /\ b % (2 * p) = (b % p) + ((b \div p) % 2) * p
             /\ b % p \in Nat /\ (b \div p) % 2 \in {0, 1}
  <2>1. b % 2 = (b % 1) + ((b \div 1) % 2) * 1 /\ b % 1 \in Nat /\ (b \div 1) % 2 \in {0, 1}
    BY Z3
  <2>2. b % 4 = (b % 2) + ((b \div 2) % 2) * 2 /\ b % 2 \in Nat /\ (b \div 2) % 2 \in {0, 1}
    BY Z3
  <2>3. b % 8 = (b % 4) + ((b \div 4) % 2) * 4 /\ b % 4 \in Nat /\ (b \div 4) % 2 \in {0, 1}
    BY Z3
  <2>4. b % 16 = (b % 8) + ((b \div 8) % 2) * 8 /\ b % 8 \in Nat /\ (b \div 8) % 2 \in {0, 1}
    BY Z3
  <2>5. b % 32 = (b % 16) + ((b \div 16) % 2) * 16 /\ b % 16 \in Nat /\ (b \div 16) % 2 \in {0, 1}
    BY Z3
  <2>6. b % 64 = (b % 32) + ((b \div 32) % 2) * 32 /\ b % 32 \in Nat /\ (b \div 32) % 2 \in {0, 1}
    BY Z3
  <2>7. b % 128 = (b % 64) + ((b \div 64) % 2) * 64 /\ b % 64 \in Nat /\ (b \div 64) % 2 \in {0, 1}
    BY Z3
  <2>8. b % 256 = (b % 128) + ((b \div 128) % 2) * 128 /\ b % 128 \in Nat /\ (b \div 128) % 2 \in {0, 1}
    BY Z3
  <2> QED
    BY <2>1, <2>2, <2>3, <2>4, <2>5, <2>6, <2>7, <2>8
<1>2. Power(n + 1) = 2 * Power(n)
  BY PowerOf
<1>3. PICK p \in {1, 2, 4, 8, 16, 32, 64, 128} : p = Power(n)
  BY PowerIs
<1>4. /\ b % (2 * p) = (b % p) + ((b \div p) % 2) * p
      /\ b % p \in Nat /\ (b \div p) % 2 \in {0, 1}
  BY <1>1
<1> QED
  BY <1>2, <1>3, <1>4

\* A sample of bit r adds it above the r bits that were sampled before; the
\* last one completes the byte.
LEMMA SampledBits ==
  ASSUME NEW b \in Byte, NEW r \in 0 .. DataBits - 1,
         UartswRxData = (b % Power(r)) * Power(DataBits - r),
         line = (b \div Power(r)) % 2
  PROVE  /\ Sampled = (b % Power(r + 1)) * Power(DataBits - (r + 1))
         /\ r + 1 = DataBits => Sampled = b
<1>1. /\ r \in 0 .. 7 /\ b \in Nat /\ DataBits - (r + 1) \in 0 .. 7 /\ r + 1 \in 0 .. 8
      /\ (DataBits - (r + 1)) + 1 = DataBits - r /\ r + (DataBits - (r + 1)) = DataBits - 1
      /\ r \in 0 .. 8 /\ DataBits - (r + 1) \in 0 .. 8 /\ DataBits - 1 \in 0 .. 8
  BY Numbers, Bytesize
<1> DEFINE p == Power(r)
           q == Power(DataBits - (r + 1))
           l == (b \div p) % 2
           x == b % p
<1>2. p \in Nat /\ q \in Nat
  BY <1>1, PowerOf
<1>3. Power(DataBits - r) = 2 * q
  BY <1>1, PowerOf
<1>4. Top = p * q
  BY <1>1, PowerSum DEF Top
<1>5. b % Power(r + 1) = x + l * p /\ x \in Nat /\ l \in {0, 1}
  BY <1>1, LowBits
<1>6. UartswRxData = x * (2 * q) /\ line = l
  BY <1>3
<1>7. Sampled = UartswRxData \div 2 + line * Top
  BY DEF Sampled, Top, Power
<1>8. Sampled = (b % Power(r + 1)) * q
  <2> HIDE DEF p, q, l, x
  <2>1. ASSUME NEW i \in Nat, NEW j \in Nat, NEW k \in Nat, NEW m \in {0, 1}
        PROVE  (i * (2 * j)) \div 2 + m * (k * j) = (i + m * k) * j
    <3>1. i * (2 * j) = 2 * (i * j) /\ i * j \in Nat
      BY Z3
    <3>2. (2 * (i * j)) \div 2 = i * j
      <4>1. ASSUME NEW y \in Nat PROVE (2 * y) \div 2 = y
        BY Z3
      <4> QED
        BY <3>1, <4>1
    <3>3. (i + m * k) * j = i * j + m * (k * j)
      BY Z3
    <3> QED
      BY <3>1, <3>2, <3>3
  <2> QED
    BY <1>2, <1>4, <1>5, <1>6, <1>7, <2>1
<1>9. r + 1 = DataBits => Sampled = b
  <2> SUFFICES ASSUME r + 1 = DataBits PROVE Sampled = b
    OBVIOUS
  <2>1. q = 1
    BY <1>1, Powers
  <2>2. Power(r + 1) = 2 * Top
    BY <1>1, PowerOf DEF Top
  <2>3. ASSUME NEW t \in Nat \ {0}, NEW y \in 0 .. 2 * t - 1 PROVE y % (2 * t) = y
    BY Z3
  <2>4. b % Power(r + 1) = b
    BY <2>2, <2>3, Bytesize
  <2> QED
    BY <1>1, <1>8, <2>1, <2>4
<1> QED
  BY <1>8, <1>9

-----------------------------------------------------------------------------
\* Between a sample and the next edge lies more than the delay.
LEMMA Spacing ==
  /\ Latency \in Nat /\ TimerSize \in Nat /\ UartswBaudRateDiv \in Nat /\ Half \in Nat
  /\ 2 * Half <= UartswBaudRateDiv /\ 2 * UartswBaudRateDiv + 2 <= TimerSize
  /\ 2 * Latency + 1 <= Half
  /\ \A g \in Gaps : g \in Nat /\ g >= Latency + 1 /\ g <= Half + Latency
  /\ \A n \in EdgeTimes : n \in Int /\ - Latency <= n /\ n <= UartswBaudRateDiv
  /\ \A g \in Gaps : \A n \in SampleTimes(g) :
        n \in Int /\ - Latency <= n /\ n <= UartswBaudRateDiv + g
BY Numbers DEF Gaps, EdgeTimes, SampleTimes

\* What the call has arranged stays so, a tic older.
LEMMA TicArranges ==
  ASSUME Types, Elapse, UNCHANGED <<pc, reg, word, TEMP>>, NEW k \in 0 .. Latency - 1, Arranges(k)
  PROVE  Arranges(k + 1)'
<1>1. k \in Int /\ k >= 0 /\ k < Latency
  BY Spacing
<1>2. After(TCNT1', - (k + 1)) = After(TCNT1, - k)
  <2>1. - k \in Int /\ - TimerSize < - k /\ - k <= TimerSize /\ - k - 1 = - (k + 1)
    BY <1>1, Spacing
  <2>2. After(TCNT1', - k - 1) = After(TCNT1, - k)
    BY <2>1, TicOn
  <2> QED
    BY <2>1, <2>2
<1> DEFINE n == UartswBaudRateDiv - k
<1>3. n \in Int /\ - Latency <= n /\ n < TimerSize /\ UartswBaudRateDiv - (k + 1) = n - 1
  BY <1>1, Spacing
<1> HIDE DEF n
<1>4. After(TCNT1', n - 1) = After(TCNT1, n)
  <2>1. - TimerSize < n /\ n <= TimerSize
    BY <1>1, <1>3, Spacing
  <2> QED
    BY <1>3, <2>1, TicOn
<1>5. OCR1' = OCR1 /\ TIMSK1' = TIMSK1
  BY DEF Elapse
<1> USE <1>3
<1>6. Arranges(k) => /\ pc \in {"ocrh", "ocrl"} => word = After(TCNT1, n)
                     /\ pc \in {"read", "write"} => DueIn("A", n)
  BY DEF Arranges, n
<1> QED
  BY <1>2, <1>4, <1>5, <1>6 DEF Arranges, DueIn

\* Time passes: the distances shrink, and nothing that is due is left out.
LEMMA TicPhase ==
  ASSUME Types, Phase, Tic
  PROVE  Phase'
<1>1. /\ UNCHANGED <<pc, reg, word, TEMP, sent, UartswTxBusy, UartswTxData, UartswTxBitNum, line,
                     UartswRxBusy, UartswRxData, UartswRxBitNum, arrived, TIMSK1, OCR1>>
      /\ TIFR1' = TIFR1 \cup Reached /\ Elapse
      /\ lag' = IF Settled THEN 0 ELSE lag + 1
      /\ Settled \/ lag < Latency
      /\ lag \in 0 .. Latency
  BY Typed DEF Tic, Elapse, tx, rx, program
<1>2. Started' = Started /\ Current' = Current
  BY <1>1, SameStarted
<1>3. "CAPT" \in TIFR1' <=> "CAPT" \in TIFR1
  BY <1>1, Numbers DEF Reached
<1>4. Listening' = Listening /\ Receiving' = Receiving /\ Sending' = Sending /\ Quiet' = Quiet
  BY <1>1, <1>2, <1>3 DEF Listening, Receiving, Sending, Quiet
<1>5. ASSUME Loaded
      PROVE  /\ Loaded' /\ lag' = lag + 1 /\ lag < Latency
             /\ (\E k \in 0 .. lag : Arranges(k)) => \E k \in 0 .. lag' : Arranges(k)'
  <2>1. Calling /\ ~Settled
    BY <1>5 DEF Loaded, Calling, Settled
  <2>2. lag' = lag + 1 /\ lag < Latency
    BY <1>1, <2>1
  <2>3. ASSUME NEW k \in 0 .. lag, Arranges(k)
        PROVE  \E j \in 0 .. lag' : Arranges(j)'
    <3>1. k \in 0 .. Latency - 1 /\ k + 1 \in 0 .. lag'
      BY <1>1, <2>2, Spacing
    <3>2. Arranges(k + 1)'
      BY <1>1, <2>3, <3>1, TicArranges
    <3> QED
      BY <3>1, <3>2
  <2> QED
    BY <1>1, <1>2, <1>5, <2>2, <2>3 DEF Loaded
<1>6. CASE Rest
  BY <1>1, <1>4, <1>6 DEF Rest, Phase
<1>7. CASE Prepare
  BY <1>1, <1>4, <1>7 DEF Prepare, Phase
<1>8. CASE Fall
  BY <1>1, <1>3, <1>4, <1>5, <1>8 DEF Fall, Phase
<1>9. CASE Launch
  <2>1. PICK i \in 0 .. lag : DueIn("B", UartswBaudRateDiv + Half - i)
    BY <1>9 DEF Launch
  <2>2. lag' = lag + 1 /\ lag < Latency /\ Loaded' /\ \E k \in 0 .. lag' : Arranges(k)'
    BY <1>5, <1>9 DEF Launch
  <2> DEFINE n == UartswBaudRateDiv + Half - i
  <2>3. /\ n \in Int /\ - Latency <= n /\ n < TimerSize /\ n # 1
        /\ i + 1 \in 0 .. lag' /\ n - 1 = UartswBaudRateDiv + Half - (i + 1)
    BY <1>1, <2>1, <2>2, Spacing
  <2> HIDE DEF n
  <2>4. DueIn("B", n)
    BY <2>1 DEF n
  <2>5. DueIn("B", n - 1)' /\ "B" \notin TIFR1'
    BY <1>1, <1>9, <2>3, <2>4, TicNearer, Numbers DEF Launch
  <2>6. DueIn("B", UartswBaudRateDiv + Half - (i + 1))'
    BY <2>3, <2>5
  <2> QED
    BY <1>1, <1>4, <1>9, <2>2, <2>3, <2>5, <2>6 DEF Launch, Phase
<1>10. CASE Bits
  <2>1. PICK g \in Gaps : \/ \E a \in EdgeTimes : Edge(a, g)
                          \/ \E d \in SampleTimes(g) : Sample(d, g)
    BY <1>10 DEF Bits
  <2>2. "A" \in TIMSK1 /\ "B" \in TIMSK1
    BY <1>10 DEF Bits, Sending, Receiving
  <2>3. /\ g \in Nat /\ g >= Latency + 1 /\ g <= Half + Latency
        /\ Settled => "A" \notin TIFR1 /\ "B" \notin TIFR1
    BY <2>2, Spacing DEF Settled, AllServed
  <2>4. ASSUME NEW a \in EdgeTimes, Edge(a, g)
        PROVE  a - 1 \in EdgeTimes /\ Edge(a - 1, g)'
    <3>1. /\ a \in Int /\ - Latency <= a /\ a <= UartswBaudRateDiv
          /\ a <= 0 => "A" \in TIFR1 /\ - a <= lag
      BY <2>4, Spacing DEF Edge
    <3>2. a <= 0 => ~Settled /\ - a < Latency
      BY <1>1, <2>3, <3>1, Spacing
    <3>3. a - 1 \in EdgeTimes
      BY <3>1, <3>2, Spacing DEF EdgeTimes
    <3>4. /\ a < TimerSize /\ a + g < TimerSize /\ a + g # 1 /\ a + g \in Int
          /\ - Latency <= a + g /\ (a + g) - 1 = (a - 1) + g
      BY <2>3, <3>1, <3>2, Spacing
    <3>5. DueIn("A", a - 1)' /\ ("A" \in TIFR1' <=> "A" \in TIFR1 \/ a = 1)
      BY <1>1, <2>4, <3>1, <3>4, TicNearer, Numbers DEF Edge
    <3>6. DueIn("B", (a - 1) + g)' /\ "B" \notin TIFR1'
      <4> DEFINE m == a + g
      <4>1. DueIn("B", m) /\ "B" \notin TIFR1
        BY <2>4 DEF Edge
      <4>2. m \in Int /\ - Latency <= m /\ m < TimerSize /\ m # 1 /\ m - 1 = (a - 1) + g
        BY <3>4
      <4> HIDE DEF m
      <4>3. DueIn("B", m - 1)' /\ "B" \notin TIFR1'
        BY <1>1, <4>1, <4>2, TicNearer, Numbers
      <4> QED
        BY <4>2, <4>3
    <3>7. a - 1 <= 0 => "A" \in TIFR1' /\ - (a - 1) <= lag'
      <4>1. CASE a = 1
        BY <1>1, <3>5, <4>1
      <4>2. CASE a <= 0
        BY <1>1, <3>1, <3>2, <3>5, <4>2
      <4> QED
        BY <3>1, <4>1, <4>2
    <3>8. "A" \in TIFR1' => a - 1 <= 0 \/ UartswRxBitNum' = 0
      BY <1>1, <2>4, <3>1, <3>5 DEF Edge
    <3>9. /\ UartswTxBitNum' + UartswRxBitNum' = DataBits + 1
          /\ UartswTxData' = Current' \div Power(UartswRxBitNum')
      BY <1>1, <1>2, <2>4 DEF Edge
    <3> QED
      BY <3>3, <3>5, <3>6, <3>7, <3>8, <3>9 DEF Edge
  <2>5. ASSUME NEW d \in SampleTimes(g), Sample(d, g)
        PROVE  d - 1 \in SampleTimes(g) /\ Sample(d - 1, g)'
    <3>1. /\ d \in Int /\ - Latency <= d /\ d <= UartswBaudRateDiv + g
          /\ "B" \in TIFR1 <=> d <= 0
          /\ d <= 0 => - d <= lag
      BY <2>5, Spacing DEF Sample
    <3>2. d <= 0 => ~Settled /\ - d < Latency
      BY <1>1, <2>3, <3>1, Spacing
    <3>3. d - 1 \in SampleTimes(g)
      BY <2>3, <3>1, <3>2, Spacing DEF SampleTimes
    <3> DEFINE a == d + UartswBaudRateDiv - g
    <3>4. /\ d < TimerSize /\ a < TimerSize /\ a # 1 /\ a \in Int /\ - Latency <= a
          /\ a - 1 = (d - 1) + UartswBaudRateDiv - g
      BY <2>3, <3>1, <3>2, Spacing
    <3>5. DueIn("A", a) /\ "A" \notin TIFR1
      BY <2>5 DEF Sample
    <3> HIDE DEF a
    <3>6. DueIn("B", d - 1)' /\ ("B" \in TIFR1' <=> "B" \in TIFR1 \/ d = 1)
      BY <1>1, <2>5, <3>1, <3>4, TicNearer, Numbers DEF Sample
    <3>7. DueIn("A", a - 1)' /\ "A" \notin TIFR1'
      BY <1>1, <3>4, <3>5, TicNearer, Numbers
    <3>8. DueIn("A", (d - 1) + UartswBaudRateDiv - g)'
      BY <3>4, <3>7
    <3>9. /\ "B" \in TIFR1' <=> d - 1 <= 0
          /\ d - 1 <= 0 => - (d - 1) <= lag'
      BY <1>1, <3>1, <3>2, <3>6
    <3>10. /\ UartswTxBitNum' + UartswRxBitNum' = DataBits
           /\ line' = (Current' \div Power(UartswRxBitNum')) % 2
           /\ UartswTxData' = Current' \div Power(UartswRxBitNum' + 1)
      BY <1>1, <1>2, <2>5 DEF Sample
    <3> QED
      BY <3>3, <3>6, <3>7, <3>8, <3>9, <3>10 DEF Sample
  <2>6. \/ \E a \in EdgeTimes : Edge(a, g)'
        \/ \E d \in SampleTimes(g) : Sample(d, g)'
    BY <2>1, <2>4, <2>5
  <2> QED
    BY <1>1, <1>2, <1>4, <1>10, <2>6 DEF Bits, Phase
<1>11. CASE Ending
  BY <1>1, <1>2, <1>3, <1>4, <1>11 DEF Ending, Phase
<1> QED
  BY <1>6, <1>7, <1>8, <1>9, <1>10, <1>11 DEF Phase

\* The compare interrupt A: an edge makes the next bit wait for its sample.
LEMMA TxPhase ==
  ASSUME Types, Phase, uartswTxBitService, ~clash'
  PROVE  Phase'
<1>1. /\ UNCHANGED <<pc, reg, sent, TCNT1,
                     UartswRxBusy, UartswRxData, UartswRxBitNum, arrived>>
      /\ Pending("A") /\ pc \in {"idle", "wait", "busy"}
  BY DEF uartswTxBitService, rx, program, Runs
<1>2. Started' = Started /\ Current' = Current
  BY <1>1, SameStarted
<1>3. CASE Rest
  <2>1. UartswTxBitNum = 0
    BY <1>3 DEF Rest
  <2>2. /\ UartswTxBusy' = FALSE /\ TIFR1' = TIFR1 \ {"A"}
        /\ UNCHANGED <<TIMSK1, UartswTxBitNum, line>>
    BY <2>1 DEF uartswTxBitService
  <2> QED
    BY <1>1, <1>2, <1>3, <2>1, <2>2 DEF Rest, Quiet, Listening, Phase
<1>4. CASE Prepare
  <2>1. UartswTxBitNum = 0 /\ pc = "busy"
    BY <1>1, <1>4 DEF Prepare
  <2>2. TIFR1' = TIFR1 \ {"A"} /\ UNCHANGED <<TIMSK1, UartswTxBitNum, line>>
    BY <2>1 DEF uartswTxBitService
  <2> QED
    BY <1>1, <1>2, <1>4, <2>1, <2>2 DEF Prepare, Quiet, Listening, Phase
<1>7. CASE Fall \/ Launch
  BY <1>1, <1>7 DEF Fall, Launch, Loaded
<1>5. CASE Bits
  <2>1. PICK g \in Gaps : \/ \E a \in EdgeTimes : Edge(a, g)
                          \/ \E d \in SampleTimes(g) : Sample(d, g)
    BY <1>5 DEF Bits
  <2>2. PICK a \in EdgeTimes : Edge(a, g)
    BY <1>1, <2>1 DEF Sample, Pending
  <2>3. UartswRxBitNum < DataBits /\ UartswRxBitNum \in Nat /\ UartswTxBitNum \in Nat
        /\ UartswRxBitNum \in 0 .. 7 /\ OCR1 \in [Compare -> Tics]
    BY <1>5, Typed, Numbers DEF Bits, Receiving
  <2>4. UartswTxBitNum + UartswRxBitNum = DataBits + 1 /\ UartswTxBitNum > 1
    BY <2>2, <2>3, Numbers DEF Edge
  <2>5. Bit(UartswTxData % 2) /\ UartswTxData' = UartswTxData \div 2
    BY <2>4 DEF uartswTxBitService
  <2>6. /\ line' = UartswTxData % 2 /\ UartswTxBitNum' = UartswTxBitNum - 1
        /\ OCR1' = [OCR1 EXCEPT !["A"] = After(@, UartswBaudRateDiv)]
        /\ TIFR1' \subseteq (TIFR1 \ {"A"}) \cup {"CAPT"} /\ UNCHANGED <<TIMSK1, UartswTxBusy>>
    BY <2>5 DEF Bit, Drive
  <2>7. Started > 0 /\ Current \in Nat
    BY <1>5, CurrentIsByte, Bytesize DEF Bits, Receiving
  <2>8. /\ UartswTxData = Current \div Power(UartswRxBitNum)
        /\ UartswTxData \div 2 = Current \div Power(UartswRxBitNum + 1)
    BY <2>2, <2>3, <2>7, ShiftOn DEF Edge
  <2>9. /\ g \in Nat /\ a \in Int /\ - Latency <= a
        /\ a + g \in SampleTimes(g) /\ ~(a + g <= 0)
        /\ (a + g) + UartswBaudRateDiv - g = a + UartswBaudRateDiv
        /\ a + UartswBaudRateDiv < TimerSize /\ UartswBaudRateDiv \in Nat
        /\ UartswBaudRateDiv < TimerSize
    BY Spacing DEF SampleTimes
  <2>10. DueIn("B", a + g)'
    <3>1. OCR1'["B"] = OCR1["B"]
      BY <2>3, <2>6, Numbers
    <3> QED
      BY <1>1, <2>2, <3>1, DueSame DEF Edge
  <2>11. DueIn("A", (a + g) + UartswBaudRateDiv - g)'
    <3>1. OCR1'["A"] = After(OCR1["A"], UartswBaudRateDiv)
      BY <2>3, <2>6, Numbers
    <3>2. After(OCR1["A"], UartswBaudRateDiv) = After(TCNT1, a + UartswBaudRateDiv)
      BY <2>2, <2>9, MovedLater, Numbers DEF Edge
    <3>3. After(TCNT1', a + UartswBaudRateDiv) = After(TCNT1, a + UartswBaudRateDiv)
      BY <1>1
    <3> QED
      BY <2>9, <3>1, <3>2, <3>3 DEF DueIn
  <2>12. "A" \notin TIFR1' /\ "B" \notin TIFR1'
    BY <2>2, <2>6 DEF Edge
  <2>13. UartswTxBitNum' + UartswRxBitNum' = DataBits
    BY <1>1, <2>3, <2>4, <2>6, Numbers
  <2>14. /\ line' = (Current' \div Power(UartswRxBitNum')) % 2
         /\ UartswTxData' = Current' \div Power(UartswRxBitNum' + 1)
    BY <1>1, <1>2, <2>5, <2>6, <2>8
  <2>15. Sample(a + g, g)'
    BY <2>9, <2>10, <2>11, <2>12, <2>13, <2>14 DEF Sample
  <2>16. Sending' /\ Receiving'
         /\ UartswRxData' = (Current' % Power(UartswRxBitNum')) * Power(DataBits - UartswRxBitNum')
    BY <1>1, <1>2, <1>5, <2>6 DEF Bits, Sending, Receiving
  <2> QED
    BY <2>9, <2>15, <2>16 DEF Bits, Phase
<1>6. CASE Ending
  <2>1. CASE UartswTxBitNum = 1
    <3>1. Bit(1)
      BY <2>1 DEF uartswTxBitService
    <3>2. /\ line' = 1 /\ UartswTxBitNum' = 0 /\ TIFR1' = TIFR1 \ {"A"}
          /\ UNCHANGED <<TIMSK1, UartswTxBusy>>
      BY <2>1, <3>1 DEF Bit, Drive
    <3> QED
      BY <1>1, <1>2, <1>6, <3>2 DEF Ending, Sending, Listening, Phase
  <2>2. CASE UartswTxBitNum = 0
    <3>1. /\ UartswTxBusy' = FALSE /\ TIFR1' = TIFR1 \ {"A"}
          /\ UNCHANGED <<TIMSK1, UartswTxBitNum, line>>
      BY <2>2 DEF uartswTxBitService
    <3> QED
      BY <1>1, <1>2, <1>6, <2>2, <3>1 DEF Ending, Sending, Rest, Quiet, Listening, Phase
  <2> QED
    BY <1>6, <2>1, <2>2 DEF Ending
<1> QED
  BY <1>3, <1>4, <1>5, <1>6, <1>7 DEF Phase

\* A bit is sampled while it is on the line.
LEMMA SampleDue ==
  ASSUME Types, Phase, NEW s \in Sources, uartswRxBitService(s), UartswRxBusy
  PROVE  s = "B" /\ Bits /\ \E g \in Gaps : \E d \in SampleTimes(g) : d <= 0 /\ Sample(d, g)
<1>1. s \in TIFR1 /\ s \in TIMSK1 /\ s # "A"
  BY Serves DEF uartswRxBitService, Pending
<1>2. s = "B" \/ s = "CAPT"
  BY <1>1, Numbers
<1>3. Launch \/ Bits
  BY DEF Phase, Rest, Prepare, Fall, Ending, Quiet, Listening
<1>4. s = "B"
  BY <1>1, <1>2, <1>3 DEF Launch, Bits, Receiving
<1>5. Bits
  BY <1>1, <1>3, <1>4 DEF Launch
<1>6. PICK g \in Gaps : \/ \E a \in EdgeTimes : Edge(a, g)
                        \/ \E d \in SampleTimes(g) : Sample(d, g)
  BY <1>5 DEF Bits
<1>7. PICK d \in SampleTimes(g) : Sample(d, g)
  BY <1>1, <1>4, <1>6 DEF Edge
<1>8. d <= 0
  BY <1>1, <1>4, <1>7 DEF Sample
<1> QED
  BY <1>4, <1>5, <1>7, <1>8

\* What is sampled are the bits of the byte that is on its way.
LEMMA SampleRight ==
  ASSUME Types, Bits, NEW g, NEW d, Sample(d, g)
  PROVE  /\ UartswRxBitNum \in 0 .. DataBits - 1
         /\ Sampled = (Current % Power(UartswRxBitNum + 1)) * Power(DataBits - (UartswRxBitNum + 1))
         /\ UartswRxBitNum + 1 >= DataBits => Sampled = Current /\ UartswTxBitNum = 1
         /\ Started \in 1 .. Len(sent) /\ arrived = Started - 1
<1>1. /\ UartswRxData = (Current % Power(UartswRxBitNum)) * Power(DataBits - UartswRxBitNum)
      /\ Started > 0 /\ arrived = Started - 1 /\ UartswRxBusy
  BY DEF Bits, Receiving
<1>2. UartswRxBitNum \in 0 .. DataBits - 1 /\ UartswTxBitNum \in Nat
  BY <1>1, Typed, Numbers
<1>3. Started \in 1 .. Len(sent) /\ Current \in Byte
  BY <1>1, CurrentIsByte
<1>4. /\ line = (Current \div Power(UartswRxBitNum)) % 2
      /\ UartswTxBitNum + UartswRxBitNum = DataBits
  BY DEF Sample
<1>5. /\ Sampled = (Current % Power(UartswRxBitNum + 1)) * Power(DataBits - (UartswRxBitNum + 1))
      /\ UartswRxBitNum + 1 = DataBits => Sampled = Current
  BY <1>1, <1>2, <1>3, <1>4, SampledBits
<1>6. UartswRxBitNum + 1 >= DataBits => UartswRxBitNum + 1 = DataBits /\ UartswTxBitNum = 1
  BY <1>2, <1>4, Numbers
<1> QED
  BY <1>1, <1>2, <1>3, <1>5, <1>6

\* The capture interrupt and the compare interrupt B: the start bit sets the
\* first sample, each sample the next.
LEMMA RxPhase ==
  ASSUME Types, Phase, NEW s \in Sources, uartswRxBitService(s), ~clash'
  PROVE  Phase'
<1>1. /\ UNCHANGED <<pc, reg, word, sent, TCNT1, UartswTxBusy, UartswTxData, UartswTxBitNum, line>>
      /\ s \in TIFR1 /\ s \in TIMSK1 /\ s # "A" /\ (s = "B" \/ s = "CAPT")
      /\ ~HalfDone
  BY Serves, Numbers DEF uartswRxBitService, tx, program, Pending
<1>2. Started' = Started /\ Current' = Current
  BY <1>1, SameStarted
<1>3. OCR1 \in [Compare -> Tics] /\ Compare = {"A", "B"}
  BY Typed
<1>4. CASE UartswRxBusy
  <2>1. DataBit(s)
    BY <1>4 DEF uartswRxBitService, StartBit
  <2>2. s = "B" /\ Bits
    BY <1>4, SampleDue
  <2>3. PICK g \in Gaps : \E d \in SampleTimes(g) : d <= 0 /\ Sample(d, g)
    BY <1>4, SampleDue
  <2>8. PICK d \in SampleTimes(g) : d <= 0 /\ Sample(d, g)
    BY <2>3
  <2>4. /\ UartswRxBitNum \in 0 .. DataBits - 1
        /\ Sampled = (Current % Power(UartswRxBitNum + 1)) * Power(DataBits - (UartswRxBitNum + 1))
        /\ UartswRxBitNum + 1 >= DataBits => UartswTxBitNum = 1
        /\ Started \in 1 .. Len(sent) /\ arrived = Started - 1
    BY <2>2, <2>8, SampleRight
  <2>5. /\ UartswRxData' = Sampled /\ UartswRxBitNum' = UartswRxBitNum + 1
        /\ OCR1' = [OCR1 EXCEPT !["B"] = After(@, UartswBaudRateDiv)]
    BY <2>1 DEF DataBit
  <2>6. CASE UartswRxBitNum + 1 >= DataBits
    <3>1. /\ arrived' = arrived + 1 /\ TIMSK1' = (TIMSK1 \ {"B"}) \cup {"CAPT"}
          /\ TIFR1' = TIFR1 \ {"B", "CAPT"} /\ UartswRxBusy' = FALSE
      BY <2>1, <2>6 DEF DataBit, LastBit, Store
    <3>2. arrived' = Started'
      BY <1>2, <2>4, <3>1, Typed
    <3>3. Sending'
      BY <1>1, <2>2, <3>1 DEF Bits, Sending
    <3> QED
      BY <1>1, <2>4, <2>6, <3>1, <3>2, <3>3 DEF Ending, Listening, Phase
  <2>7. CASE ~(UartswRxBitNum + 1 >= DataBits)
    <3>1. TIFR1' = TIFR1 \ {"B"} /\ UNCHANGED <<TIMSK1, UartswRxBusy, arrived>>
      BY <2>1, <2>2, <2>7 DEF DataBit
    <3> DEFINE a == d + UartswBaudRateDiv - g
    <3>2. /\ g \in Nat /\ a \in EdgeTimes /\ ~(a <= 0) /\ a + g = d + UartswBaudRateDiv
          /\ UartswBaudRateDiv \in Nat /\ d \in Int /\ - Latency <= d
          /\ UartswBaudRateDiv < TimerSize /\ d + UartswBaudRateDiv < TimerSize
      BY <2>8, Spacing DEF EdgeTimes
    <3>3. DueIn("A", a)' /\ "A" \notin TIFR1'
      <4>1. OCR1'["A"] = OCR1["A"]
        BY <1>3, <2>5
      <4>2. DueIn("A", a)
        BY <2>8, <3>2 DEF Sample
      <4> HIDE DEF a
      <4> QED
        BY <1>1, <2>8, <3>1, <4>1, <4>2, DueSame DEF Sample
    <3>4. DueIn("B", a + g)' /\ "B" \notin TIFR1'
      <4>1. OCR1'["B"] = After(OCR1["B"], UartswBaudRateDiv)
        BY <1>3, <2>5
      <4>2. After(OCR1["B"], UartswBaudRateDiv) = After(TCNT1, d + UartswBaudRateDiv)
        BY <1>3, <2>8, <3>2, MovedLater DEF Sample
      <4> QED
        BY <1>1, <3>1, <3>2, <4>1, <4>2 DEF DueIn
    <3>5. /\ UartswTxBitNum' + UartswRxBitNum' = DataBits + 1
          /\ UartswTxData' = Current' \div Power(UartswRxBitNum')
      BY <1>1, <1>2, <2>8, <2>4, <2>5, Typed, Numbers DEF Sample
    <3>6. Edge(a, g)'
      <4> HIDE DEF a
      <4> QED
        BY <3>2, <3>3, <3>4, <3>5 DEF Edge
    <3>7. Sending' /\ Receiving'
      BY <1>1, <1>2, <2>2, <3>1 DEF Bits, Sending, Receiving
    <3>8. UartswRxData' = (Current' % Power(UartswRxBitNum')) * Power(DataBits - UartswRxBitNum')
      BY <1>2, <2>4, <2>5
    <3> QED
      BY <3>2, <3>6, <3>7, <3>8 DEF Bits, Phase
  <2> QED
    BY <2>6, <2>7
<1>5. CASE ~UartswRxBusy
  <2>1. StartBit(s)
    BY <1>5 DEF uartswRxBitService, DataBit
  <2>2. Fall
    BY <1>1, <1>5 DEF Phase, Rest, Prepare, Launch, Bits, Ending, Quiet, Listening, Receiving
  <2>3. /\ TIMSK1' = (TIMSK1 \ {"CAPT"}) \cup {"B"} /\ TIFR1' = TIFR1 \ {s, "B"}
        /\ OCR1' = [OCR1 EXCEPT !["B"] = After(TCNT1, UartswBaudRateDiv + Half)]
        /\ UartswRxBusy' = TRUE /\ UartswRxBitNum' = 0 /\ UartswRxData' = 0
        /\ UNCHANGED arrived
    BY <2>1 DEF StartBit, FirstSample, Half
  <2>4. DueIn("B", UartswBaudRateDiv + Half - 0)' /\ OCR1'["A"] = OCR1["A"]
    <3>1. UartswBaudRateDiv + Half - 0 = UartswBaudRateDiv + Half
      BY Numbers
    <3> QED
      BY <1>1, <1>3, <2>3, <3>1 DEF DueIn
  <2>5. Loaded' /\ Receiving'
    BY <1>1, <1>2, <2>2, <2>3 DEF Fall, Loaded, Receiving, Pending
  <2>6. lag' = lag /\ 0 \in 0 .. lag
    BY <2>5, Typed, Spacing DEF Loaded, Settled, Calling, uartswRxBitService, Catches
  <2>7. PICK k \in 0 .. lag : Arranges(k)
    BY <2>2 DEF Fall
  <2>8. Arranges(k)'
    BY <1>1, <2>4, <2>7 DEF Arranges, HalfDone, DueIn
  <2> QED
    BY <2>3, <2>4, <2>5, <2>6, <2>7, <2>8 DEF Launch, Phase
<1> QED
  BY <1>4, <1>5

\* The program gives a byte to uartswSendByte, which waits.
LEMMA SendPhase ==
  ASSUME Types, Phase, NEW b \in Bytes, SendByte(b)
  PROVE  Phase'
<1>1. /\ pc = "idle" /\ pc' = "wait" /\ sent' = Append(sent, b)
      /\ UNCHANGED <<TCNT1, OCR1, TIMSK1, TIFR1, UartswTxBusy, UartswTxData, UartswTxBitNum,
                     line, UartswRxBusy, UartswRxData, UartswRxBitNum, arrived>>
      /\ TIFR1 \cap TIMSK1 \subseteq {"CAPT"}
  BY DEF SendByte, Step, tx, rx
<1>2. Len(sent') = Len(sent) + 1 /\ \A i \in 1 .. Len(sent) : sent'[i] = sent[i]
  BY <1>1, Typed, AppendProperties
<1>3. Started' = Started /\ Started = Len(sent) /\ Len(sent) \in Nat
  BY <1>1, <1>2, Typed DEF Started
<1>4. Started > 0 => Current' = Current
  BY <1>2, <1>3 DEF Current
<1>5. \/ Rest \/ Bits \/ Ending
  BY <1>1 DEF Phase, Prepare, Fall, Launch, Loaded
<1>6. CASE Rest
  BY <1>1, <1>3, <1>6 DEF Rest, Quiet, Listening, Phase
<1>7. CASE Bits
  <2>1. Started > 0 /\ Current' = Current
    BY <1>4, <1>7 DEF Bits, Receiving
  <2>2. \A u, n : DueIn(u, n)' <=> DueIn(u, n)
    BY <1>1 DEF DueIn
  <2>3. Sending' /\ Receiving'
    BY <1>1, <1>3, <1>7 DEF Bits, Sending, Receiving
  <2>8. "A" \notin TIFR1 /\ "B" \notin TIFR1
    BY <1>1, <1>7 DEF Bits, Sending, Receiving
  <2>4. ASSUME NEW a, NEW g, Edge(a, g) PROVE Edge(a, g)'
    BY <1>1, <2>1, <2>2, <2>4, <2>8 DEF Edge
  <2>5. ASSUME NEW d, NEW g, Sample(d, g) PROVE Sample(d, g)'
    BY <1>1, <2>1, <2>2, <2>5, <2>8 DEF Sample
  <2>6. \E g \in Gaps : \/ \E a \in EdgeTimes : Edge(a, g)'
                        \/ \E d \in SampleTimes(g) : Sample(d, g)'
    BY <1>7, <2>4, <2>5 DEF Bits
  <2>7. UartswRxData' = (Current' % Power(UartswRxBitNum')) * Power(DataBits - UartswRxBitNum')
    BY <1>1, <1>7, <2>1 DEF Bits
  <2> QED
    BY <2>3, <2>6, <2>7 DEF Bits, Phase, Gaps, EdgeTimes, SampleTimes
<1>8. CASE Ending
  BY <1>1, <1>3, <1>8 DEF Ending, Sending, Listening, Phase
<1> QED
  BY <1>5, <1>6, <1>7, <1>8

\* The steps of uartswSendByte before the start bit.
LEMMA PreparePhase ==
  ASSUME Types, Phase, Ready \/ SetBusy \/ SetData \/ SetBits
  PROVE  Phase'
<1>1. /\ UNCHANGED <<TIMSK1, TIFR1, line, sent, UartswRxBusy, arrived>>
      /\ Started' = Started
  BY DEF Ready, SetBusy, SetData, SetBits, Step, rx, Started
<1>2. Quiet' = Quiet
  BY <1>1 DEF Quiet, Listening
<1>3. CASE Ready
  <2>1. pc = "wait" /\ pc' = "busy" /\ ~UartswTxBusy /\ UNCHANGED tx
    BY <1>3 DEF Ready, Step
  <2>2. Rest
    BY <2>1 DEF Phase, Prepare, Fall, Launch, Loaded, Bits, Ending, Sending
  <2> QED
    BY <1>2, <2>1, <2>2 DEF Rest, Prepare, Phase, tx
<1>4. CASE SetBusy
  <2>1. /\ pc = "busy" /\ pc' = "data" /\ UartswTxBusy'
        /\ UNCHANGED <<UartswTxData, UartswTxBitNum>>
    BY <1>4 DEF SetBusy, Step
  <2>2. Prepare
    BY <2>1 DEF Phase, Rest, Fall, Launch, Loaded, Bits, Ending, Sending
  <2> QED
    BY <1>2, <2>1, <2>2 DEF Prepare, Phase
<1>5. CASE SetData
  <2>1. /\ pc = "data" /\ pc' = "bits" /\ UartswTxData' = sent[Len(sent)]
        /\ UNCHANGED <<UartswTxBusy, UartswTxBitNum>>
    BY <1>5 DEF SetData, Step
  <2>2. Prepare
    BY <2>1 DEF Phase, Rest, Fall, Launch, Loaded, Bits, Ending, Sending
  <2> QED
    BY <1>1, <1>2, <2>1, <2>2 DEF Prepare, Phase
<1>6. CASE SetBits
  <2>1. /\ pc = "bits" /\ pc' = "start" /\ UartswTxBitNum' = DataBits + 1
        /\ UNCHANGED <<UartswTxBusy, UartswTxData>>
    BY <1>6 DEF SetBits, Step
  <2>2. Prepare
    BY <2>1 DEF Phase, Rest, Fall, Launch, Loaded, Bits, Ending, Sending
  <2> QED
    BY <1>1, <1>2, <2>1, <2>2 DEF Prepare, Phase
<1> QED
  BY <1>3, <1>4, <1>5, <1>6

\* The start bit: the line falls and the capture unit sees it.
LEMMA StartPhase ==
  ASSUME Types, Phase, SetStartBit, Catches
  PROVE  Phase'
<1>1. /\ pc = "start" /\ pc' = "ocr"
      /\ UNCHANGED <<TIMSK1, UartswTxBusy, UartswTxData, UartswTxBitNum, sent, UartswRxBusy, arrived>>
      /\ line' = 0 /\ TIFR1' = IF line = 1 THEN TIFR1 \cup {"CAPT"} ELSE TIFR1
  BY DEF SetStartBit, Drive, Step, tx, rx
<1>2. Prepare
  BY <1>1 DEF Phase, Rest, Fall, Launch, Loaded, Bits, Ending, Sending
<1>3. Started = Len(sent) - 1 /\ Started' = Len(sent) /\ Current' = sent[Len(sent)]
  BY <1>1 DEF Started, Current
<1>4. Len(sent) \in Nat /\ Len(sent) >= 1
  BY <1>1, Typed
<1>5. line = 1 /\ arrived = Started /\ Listening
  BY <1>2 DEF Prepare, Quiet
<1>6. Listening' /\ "CAPT" \in TIFR1' /\ Started' > 0 /\ arrived' = Started' - 1
  BY <1>1, <1>3, <1>4, <1>5 DEF Listening
<1>7. Loaded'
  BY <1>1, <1>2, <1>3, <1>5, <1>6 DEF Loaded, Prepare
<1>8. lag' = lag /\ 0 \in 0 .. lag
  BY <1>1, Typed, Spacing DEF Catches, Settled, Calling
<1>9. Arranges(0)'
  BY <1>1 DEF Arranges
<1> QED
  BY <1>6, <1>7, <1>8, <1>9 DEF Fall, Phase

\* Each access to the registers goes on from what the one before it left.
LEMMA AccessArranges ==
  ASSUME Types, NEW k \in 0 .. lag, Arranges(k), SetCompare \/ ReadMask
  PROVE  \E j \in 0 .. lag : Arranges(j)'
<1>1. /\ TCNT1 \in Tics /\ word \in Tics /\ OCR1 \in [Compare -> Tics] /\ Compare = {"A", "B"}
      /\ lag \in 0 .. Latency /\ TCNT1' = TCNT1
  BY Typed DEF SetCompare, ReadLow, ReadHigh, WriteHigh, WriteLow, ReadMask, Step
<1>2. k \in Int /\ 0 <= k /\ k <= Latency
  BY <1>1, Spacing
<1>3. CASE ReadLow
  <2>1. After(TCNT1, - 0) = TCNT1
    BY <1>1, AfterCases, Numbers DEF Tics
  <2>2. pc' = "tcnth" /\ word' = Low(TCNT1) /\ TEMP' = High(TCNT1)
    BY <1>3 DEF ReadLow, Step
  <2>3. Arranges(0)'
    BY <1>1, <2>1, <2>2 DEF Arranges
  <2>4. 0 \in 0 .. lag
    BY <1>1, Spacing
  <2> QED
    BY <2>3, <2>4
<1>4. CASE ReadHigh
  <2>1. /\ pc = "tcnth" /\ pc' = "ocrh" /\ word' = After(TEMP + word, UartswBaudRateDiv)
    BY <1>4 DEF ReadHigh, Step
  <2>2. PICK x \in Tics : x = After(TCNT1, - k)
    <3>1. TCNT1 \in Int /\ - k \in Int
      BY <1>1, <1>2 DEF Tics
    <3> QED
      BY <3>1, AfterTics
  <2>3. TEMP + word = x
    <3>1. TEMP = High(x) /\ word = Low(x)
      BY <2>1, <2>2 DEF Arranges
    <3> QED
      BY <3>1, Halves
  <2>4. word' = After(TCNT1, UartswBaudRateDiv - k)
    <3> DEFINE n == - k
    <3>1. /\ n \in Int /\ - Latency <= n /\ n + UartswBaudRateDiv < TimerSize
          /\ n + UartswBaudRateDiv = UartswBaudRateDiv - k
          /\ UartswBaudRateDiv < TimerSize /\ UartswBaudRateDiv \in Nat
      BY <1>2, Spacing
    <3>2. After(x, UartswBaudRateDiv) = After(TCNT1, n + UartswBaudRateDiv)
      <4>1. x = After(TCNT1, n)
        BY <2>2
      <4> HIDE DEF n
      <4> QED
        BY <3>1, <4>1, AfterSum
    <3> QED
      BY <2>1, <2>3, <3>1, <3>2
  <2>5. Arranges(k)'
    BY <1>1, <2>1, <2>4 DEF Arranges
  <2> QED
    BY <2>5
<1>5. CASE WriteHigh
  <2>1. pc = "ocrh" /\ pc' = "ocrl" /\ word' = word /\ TEMP' = High(word)
    BY <1>5 DEF WriteHigh, Step
  <2>2. Arranges(k)'
    BY <1>1, <2>1 DEF Arranges
  <2> QED
    BY <2>2
<1>6. CASE WriteLow
  <2>1. pc = "ocrl" /\ pc' = "read" /\ OCR1' = [OCR1 EXCEPT !["A"] = TEMP + Low(word)]
    BY <1>6 DEF WriteLow, Step
  <2>2. TEMP = High(word) /\ word = After(TCNT1, UartswBaudRateDiv - k)
    BY <2>1 DEF Arranges
  <2>3. OCR1'["A"] = After(TCNT1, UartswBaudRateDiv - k)
    BY <1>1, <2>1, <2>2, Halves
  <2>4. Arranges(k)'
    BY <1>1, <2>1, <2>3 DEF Arranges, DueIn
  <2> QED
    BY <2>4
<1>7. CASE ReadMask
  <2>1. pc = "read" /\ pc' = "write" /\ UNCHANGED <<TIMSK1, OCR1>> /\ reg' = TIMSK1
    BY <1>7 DEF ReadMask, Step
  <2>2. Arranges(k)'
    BY <1>1, <2>1 DEF Arranges, DueIn
  <2> QED
    BY <2>2
<1> QED
  BY <1>3, <1>4, <1>5, <1>6, <1>7 DEF SetCompare

LEMMA AccessPhase ==
  ASSUME Types, Phase, SetCompare \/ ReadMask, Catches
  PROVE  Phase'
<1>1. /\ UNCHANGED <<TCNT1, TIFR1, TIMSK1, UartswTxBusy, UartswTxData, UartswTxBitNum, sent, line,
                     UartswRxBusy, UartswRxData, UartswRxBitNum, arrived>>
      /\ pc \in {"ocr", "tcnth", "ocrh", "ocrl", "read"}
      /\ pc' \in {"tcnth", "ocrh", "ocrl", "read", "write"}
  BY DEF SetCompare, ReadLow, ReadHigh, WriteHigh, WriteLow, ReadMask, Step, tx, rx
<1>2. Started' = Started /\ Current' = Current
  BY <1>1 DEF Started, Current
<1>3. Fall \/ Launch
  BY <1>1 DEF Phase, Rest, Prepare, Bits, Ending, Sending
<1>4. OCR1'["B"] = OCR1["B"]
  BY Typed DEF SetCompare, ReadLow, ReadHigh, WriteHigh, WriteLow, ReadMask
<1>5. lag' = lag
  BY <1>1 DEF Catches, Settled, Calling
<1>6. \E j \in 0 .. lag' : Arranges(j)'
  <2>1. PICK k \in 0 .. lag : Arranges(k)
    BY <1>3 DEF Fall, Launch
  <2> QED
    BY <1>5, <2>1, AccessArranges
<1>7. Loaded'
  BY <1>1, <1>2, <1>3 DEF Fall, Launch, Loaded
<1>8. Listening' = Listening /\ Receiving' = Receiving
  BY <1>1, <1>2 DEF Listening, Receiving
<1>9. CASE Fall
  BY <1>1, <1>6, <1>7, <1>8, <1>9 DEF Fall, Phase
<1>10. CASE Launch
  <2>1. PICK i \in 0 .. lag : DueIn("B", UartswBaudRateDiv + Half - i)
    BY <1>10 DEF Launch
  <2>2. DueIn("B", UartswBaudRateDiv + Half - i)'
    BY <1>1, <1>4, <2>1 DEF DueIn
  <2> QED
    BY <1>1, <1>5, <1>6, <1>7, <1>8, <1>10, <2>2 DEF Launch, Phase
<1> QED
  BY <1>3, <1>9, <1>10

\* The mask is written and the interrupts go on.
LEMMA LaunchPhase ==
  ASSUME Types, Phase, WriteMask
  PROVE  Phase'
<1>1. /\ UNCHANGED <<TCNT1, OCR1, TIFR1, UartswTxBusy, UartswTxData, UartswTxBitNum, sent, line,
                     UartswRxBusy, UartswRxData, UartswRxBitNum, arrived>>
      /\ AllServed /\ pc = "write" /\ pc' = "idle" /\ TIMSK1' = reg \cup {"A"}
      /\ Started' = Started /\ Current' = Current
  BY DEF WriteMask, Step, tx, rx, Started, Current
<1>2. Launch
  BY <1>1 DEF Phase, Rest, Prepare, Fall, Bits, Ending, Sending, Listening, AllServed
<1>3. PICK k \in 0 .. lag, i \in 0 .. lag :
         Arranges(k) /\ DueIn("B", UartswBaudRateDiv + Half - i)
  BY <1>2 DEF Launch
<1>4. DueIn("A", UartswBaudRateDiv - k) /\ TIMSK1' = TIMSK1 \cup {"A"}
  BY <1>1, <1>3 DEF Arranges
<1>5. \A u, n : DueIn(u, n)' <=> DueIn(u, n)
  BY <1>1 DEF DueIn
<1>6. Sending' /\ Receiving'
  BY <1>1, <1>2, <1>4 DEF Launch, Loaded, Sending, Receiving
<1>7. /\ UartswRxBitNum' = 0 /\ UartswRxData' = 0 /\ "B" \notin TIFR1'
      /\ UartswTxBitNum' = DataBits + 1 /\ UartswTxData' = Current'
  BY <1>1, <1>2 DEF Launch, Loaded
<1>8. Current' \in Byte
  <2>1. Started > 0
    BY <1>2 DEF Launch, Receiving
  <2> QED
    BY <1>1, <2>1, CurrentIsByte
<1>9. /\ UartswTxBitNum' + UartswRxBitNum' = DataBits + 1
      /\ UartswTxData' = Current' \div Power(UartswRxBitNum')
      /\ UartswRxData' = (Current' % Power(UartswRxBitNum')) * Power(DataBits - UartswRxBitNum')
  <2>1. ASSUME NEW x \in Nat PROVE x \div 1 = x /\ x % 1 = 0
    BY Z3
  <2>2. Current' \in Nat /\ DataBits - 0 = DataBits /\ DataBits \in 0 .. 8
    BY <1>8, Bytesize, Numbers
  <2>3. Power(DataBits) \in Nat /\ 0 * Power(DataBits) = 0
    BY <2>2, PowerOf
  <2> QED
    BY <1>7, <2>1, <2>2, <2>3, Powers, Numbers
<1> DEFINE a == UartswBaudRateDiv - k
           g == Half + k - i
<1>10. /\ a \in EdgeTimes /\ ~(a <= 0) /\ g \in Gaps
       /\ a + g = UartswBaudRateDiv + Half - i
  <2>1. lag \in 0 .. Latency
    BY Typed
  <2>2. k \in Int /\ i \in Int /\ 0 <= k /\ 0 <= i /\ k <= Latency /\ i <= Latency
    BY <2>1, Spacing
  <2> QED
    BY <2>2, Spacing DEF EdgeTimes, Gaps
<1>11. DueIn("A", a)' /\ DueIn("B", a + g)'
  BY <1>3, <1>4, <1>5, <1>10
<1> HIDE DEF a, g
<1>12. Edge(a, g)'
  BY <1>7, <1>9, <1>10, <1>11 DEF Edge
<1> QED
  BY <1>6, <1>9, <1>10, <1>12 DEF Bits, Phase

\* What leaves the timer, the line and the two halves of the driver alone.
LEMMA SamePhase ==
  ASSUME Types, Phase,
         UNCHANGED <<TCNT1, OCR1, TIMSK1, TIFR1, UartswTxBusy, UartswTxData, UartswTxBitNum,
                     pc, reg, word, TEMP, sent, line,
                     UartswRxBusy, UartswRxData, UartswRxBitNum, arrived>>,
         lag' = lag \/ (pc = "idle" /\ AllServed)
  PROVE  Phase'
<1>1. /\ UNCHANGED <<TCNT1, OCR1, TIMSK1, TIFR1, UartswTxBusy, UartswTxData, UartswTxBitNum,
                     pc, reg, word, TEMP, sent, line,
                     UartswRxBusy, UartswRxData, UartswRxBitNum, arrived>>
  OBVIOUS
<1>2. Started' = Started /\ Current' = Current
  BY <1>1, SameStarted
<1>3. /\ \A u, n : DueIn(u, n)' <=> DueIn(u, n)
      /\ Quiet' = Quiet /\ Listening' = Listening /\ Receiving' = Receiving
      /\ Sending' = Sending /\ Loaded' = Loaded
  BY <1>1, <1>2 DEF DueIn, Quiet, Listening, Receiving, Sending, Loaded
<1>4. Rest' = Rest /\ Prepare' = Prepare /\ Ending' = Ending
  BY <1>1, <1>2, <1>3 DEF Rest, Prepare, Ending
<1>5. CASE Fall \/ Launch
  <2>1. lag' = lag
    BY <1>5 DEF Fall, Launch, Loaded
  <2>2. \A k : Arranges(k)' <=> Arranges(k)
    BY <1>1, <1>3 DEF Arranges
  <2>3. Fall' = Fall
    BY <1>1, <1>3, <2>1, <2>2 DEF Fall
  <2>4. Launch' = Launch
    BY <1>1, <1>3, <2>1, <2>2 DEF Launch
  <2> QED
    BY <1>5, <2>3, <2>4 DEF Phase
<1>6. CASE Bits
  <2>1. lag' = lag \/ ("A" \notin TIFR1 /\ "B" \notin TIFR1)
    BY <1>6 DEF Bits, Sending, Receiving, AllServed
  <2>2. \A x, g : (Edge(x, g) => Edge(x, g)') /\ (Sample(x, g) => Sample(x, g)')
    BY <1>1, <1>2, <1>3, <2>1 DEF Edge, Sample
  <2>3. PICK g \in Gaps : \/ \E a \in EdgeTimes : Edge(a, g)
                          \/ \E d \in SampleTimes(g) : Sample(d, g)
    BY <1>6 DEF Bits
  <2>4. \/ \E a \in EdgeTimes : Edge(a, g)'
        \/ \E d \in SampleTimes(g) : Sample(d, g)'
    BY <2>2, <2>3
  <2> QED
    BY <1>1, <1>2, <1>3, <1>6, <2>4 DEF Bits, Phase, Gaps, EdgeTimes, SampleTimes
<1> QED
  BY <1>4, <1>5, <1>6 DEF Phase

\* Every step keeps the phases.
LEMMA PhaseStep ==
  ASSUME Types, Phase, [Next]_vars, ~clash'
  PROVE  Phase'
<1>1. CASE UNCHANGED vars
  BY <1>1, SamePhase DEF vars, timervars, tx, rx, program
<1>2. CASE Tic
  BY <1>2, TicPhase
<1>3. CASE uartswTxBitService
  BY <1>3, TxPhase
<1>4. CASE \E s \in Sources : uartswRxBitService(s)
  BY <1>4, RxPhase
<1>5. CASE \E b \in Bytes : SendByte(b)
  BY <1>5, SendPhase
<1>6. CASE uartswSendByte
  BY <1>6, PreparePhase, StartPhase, AccessPhase, LaunchPhase DEF uartswSendByte
<1>7. CASE uartswReceiveByte
  BY <1>7, SamePhase DEF uartswReceiveByte, timervars, tx, program
<1> QED
  BY <1>1, <1>2, <1>3, <1>4, <1>5, <1>6, <1>7 DEF Next, Interrupt

\* What was disturbed stays so.
LEMMA ClashStays == [Next]_vars /\ clash => clash'
<1> SUFFICES ASSUME [Next]_vars, clash PROVE clash'
  OBVIOUS
<1>1. CASE Tic \/ uartswReceiveByte \/ UNCHANGED vars
  BY <1>1 DEF Tic, uartswReceiveByte, vars
<1>2. CASE Interrupt
  BY <1>2 DEF Interrupt, uartswTxBitService, uartswRxBitService
<1>3. CASE (\E b \in Bytes : SendByte(b)) \/ uartswSendByte
  BY <1>3 DEF SendByte, uartswSendByte, Ready, SetBusy, SetData, SetBits, SetStartBit,
     SetCompare, ReadLow, ReadHigh, WriteHigh, WriteLow, ReadMask, WriteMask, Step
<1> QED
  BY <1>1, <1>2, <1>3 DEF Next

-----------------------------------------------------------------------------
\* The byte that was sampled is the byte that was sent.
LEMMA StoredIsSent ==
  ASSUME Types, Phase, NEW s \in Sources, uartswRxBitService(s), DataBit(s),
         UartswRxBitNum + 1 >= DataBits
  PROVE  Store(Sampled) /\ arrived < Len(sent) /\ sent[arrived + 1] = Sampled
<1>1. UartswRxBusy /\ Store(Sampled)
  BY DEF DataBit, LastBit
<1>2. PICK g \in Gaps : \E d \in SampleTimes(g) : d <= 0 /\ Sample(d, g)
  BY <1>1, SampleDue
<1>6. PICK d \in SampleTimes(g) : Sample(d, g)
  BY <1>2
<1>3. Bits
  BY <1>1, SampleDue
<1>4. Sampled = Current /\ Started \in 1 .. Len(sent) /\ arrived = Started - 1
  BY <1>3, <1>6, SampleRight
<1>5. arrived + 1 = Started /\ arrived < Len(sent)
  BY <1>4, Typed
<1> QED
  BY <1>1, <1>4, <1>5 DEF Current

LEMMA AppendLast ==
  ASSUME NEW S, NEW s \in Seq(S), NEW t \in Seq(S), NEW b \in S
  PROVE  s \o Append(t, b) = Append(s \o t, b)
<1>1. Append(t, b) = t \o <<b>> /\ <<b>> \in Seq(S) /\ s \o t \in Seq(S)
  BY AppendIsConcat, ConcatProperties
<1>2. s \o (t \o <<b>>) = (s \o t) \o <<b>>
  BY <1>1, ConcatAssociative
<1>3. Append(s \o t, b) = (s \o t) \o <<b>>
  BY <1>1, AppendIsConcat
<1> QED
  BY <1>1, <1>2, <1>3

LEMMA HeadFirst ==
  ASSUME NEW S, NEW s \in Seq(S), NEW t \in Seq(S), t # <<>>
  PROVE  Append(s, Head(t)) \o Tail(t) = s \o t
<1>1. Head(t) \in S /\ Tail(t) \in Seq(S) /\ <<Head(t)>> \in Seq(S)
  BY HeadTailProperties
<1>2. Append(s, Head(t)) = s \o <<Head(t)>>
  BY <1>1, AppendIsConcat
<1>3. (s \o <<Head(t)>>) \o Tail(t) = s \o (<<Head(t)>> \o Tail(t))
  BY <1>1, ConcatAssociative
<1>4. <<Head(t)>> \o Tail(t) = t
  BY HeadTailProperties
<1> QED
  BY <1>2, <1>3, <1>4

\* Bytes are put in at one end and taken out at the other.
LEMMA OrderStep ==
  ASSUME Types, Phase, got \o uartswRxBuffer = kept, [Next]_vars
  PROVE  (got \o uartswRxBuffer = kept)'
<1>1. got \in Seq(Byte) /\ uartswRxBuffer \in Seq(Byte)
  BY DEF Types, TypeOK
<1>2. CASE UNCHANGED <<got, uartswRxBuffer, kept>>
  BY <1>2
<1>3. CASE uartswReceiveByte
  <2>1. /\ uartswRxBuffer # <<>> /\ got' = Append(got, Head(uartswRxBuffer))
        /\ uartswRxBuffer' = Tail(uartswRxBuffer) /\ kept' = kept
    BY <1>3 DEF uartswReceiveByte
  <2> QED
    BY <1>1, <2>1, HeadFirst
<1>4. ASSUME NEW s \in Sources, uartswRxBitService(s)
      PROVE  (got \o uartswRxBuffer = kept)'
  <2>1. got' = got
    BY <1>4 DEF uartswRxBitService
  <2>2. CASE StartBit(s)
    BY <1>2, <2>1, <2>2 DEF StartBit
  <2>3. CASE DataBit(s) /\ ~(UartswRxBitNum + 1 >= DataBits)
    BY <1>2, <2>1, <2>3 DEF DataBit
  <2>4. CASE DataBit(s) /\ UartswRxBitNum + 1 >= DataBits
    <3>1. Store(Sampled) /\ arrived < Len(sent) /\ sent[arrived + 1] = Sampled
      BY <1>4, <2>4, StoredIsSent
    <3>2. Sampled \in Byte
      BY Typed, SampledIsByte
    <3>3. CASE Len(uartswRxBuffer) < UARTSW_RX_BUFFER_SIZE
      <4>1. uartswRxBuffer' = Append(uartswRxBuffer, Sampled) /\ kept' = Append(kept, Sampled)
        BY <3>1, <3>3 DEF Store
      <4> QED
        BY <1>1, <2>1, <3>2, <4>1, AppendLast
    <3>4. CASE ~(Len(uartswRxBuffer) < UARTSW_RX_BUFFER_SIZE)
      BY <1>2, <2>1, <3>1, <3>4 DEF Store
    <3> QED
      BY <3>3, <3>4
  <2> QED
    BY <1>4, <2>2, <2>3, <2>4 DEF uartswRxBitService
<1>5. CASE Tic \/ uartswTxBitService
  BY <1>2, <1>5 DEF Tic, uartswTxBitService, rx
<1>6. CASE (\E b \in Bytes : SendByte(b)) \/ uartswSendByte
  BY <1>2, <1>6 DEF SendByte, uartswSendByte, Ready, SetBusy, SetData, SetBits, SetStartBit,
     SetCompare, ReadLow, ReadHigh, WriteHigh, WriteLow, ReadMask, WriteMask, Step, rx
<1>7. CASE UNCHANGED vars
  BY <1>2, <1>7 DEF vars, rx
<1> QED
  BY <1>3, <1>4, <1>5, <1>6, <1>7 DEF Next, Interrupt

LEMMA InitIInv == Init => IInv
<1> SUFFICES ASSUME Init PROVE IInv
  OBVIOUS
<1>1. Rest
  BY DEF Init, Rest, Quiet, Listening, Started
<1>2. InOrder
  BY DEF Init, InOrder
<1> QED
  BY <1>1, <1>2, InitTypes DEF IInv, Phase

\* The inductive invariant of the software UART.
THEOREM Invariance == Spec => []IInv
<1>1. IInv /\ [Next]_vars => IInv'
  <2> SUFFICES ASSUME IInv, [Next]_vars PROVE IInv'
    OBVIOUS
  <2>1. Types'
    BY StepKeepsTypes DEF IInv
  <2>2. CASE clash'
    BY <2>1, <2>2 DEF IInv, InOrder
  <2>3. CASE ~clash'
    <3>1. Phase /\ got \o uartswRxBuffer = kept
      BY <2>3, ClashStays DEF IInv, InOrder
    <3>2. Phase' /\ InOrder'
      BY <2>3, <3>1, PhaseStep, OrderStep DEF IInv, InOrder
    <3> QED
      BY <2>1, <3>2 DEF IInv
  <2> QED
    BY <2>2, <2>3
<1> QED
  BY <1>1, InitIInv, PTL DEF Spec

\* Until an interrupt clashes with a call, the program gets the bytes it sent: in
\* order, none changed, none added.
THEOREM BytesInOrder == Spec => []InOrder
<1>1. IInv => InOrder
  BY DEF IInv
<1> QED
  BY <1>1, Invariance, PTL

-----------------------------------------------------------------------------
\* The two halves of the driver implement a serial line.
InFlight == SubSeq(sent, arrived + 1, Len(sent))

\* No byte arrives that was not sent.
LEMMA ArrivedWereSent ==
  ASSUME Types, Phase
  PROVE  arrived \in Nat /\ Len(sent) \in Nat /\ arrived <= Len(sent)
<1>1. Started <= Len(sent) /\ Started \in Int
  BY Typed DEF Started, PCs
<1>2. arrived = Started \/ arrived = Started - 1
  BY DEF Phase, Rest, Prepare, Fall, Launch, Loaded, Bits, Ending, Quiet, Receiving
<1> QED
  BY <1>1, <1>2, Typed

\* What is left of a sequence behind its first k elements.
LEMMA RestOf ==
  ASSUME NEW S, NEW t \in Seq(S), NEW k \in 0 .. Len(t)
  PROVE  /\ SubSeq(t, k + 1, Len(t)) \in Seq(S)
         /\ Len(SubSeq(t, k + 1, Len(t))) = Len(t) - k
         /\ \A i \in 1 .. Len(t) - k : SubSeq(t, k + 1, Len(t))[i] = t[k + i]
<1>1. PICK n \in Nat : n = Len(t)
  OBVIOUS
<1>2. \A i \in k + 1 .. n : t[i] \in S
  BY <1>1, ElementOfSeq
<1>3. /\ k + 1 \in Int /\ n \in Int /\ n - (k + 1) + 1 = n - k
      /\ (k + 1 <= n \/ n - k = 0)
      /\ \A i \in 1 .. n - k : (k + 1) + i - 1 = k + i
  BY <1>1
<1>4. /\ SubSeq(t, k + 1, n) \in Seq(S)
      /\ Len(SubSeq(t, k + 1, n)) = IF k + 1 <= n THEN n - (k + 1) + 1 ELSE 0
      /\ \A i \in 1 .. n - (k + 1) + 1 : SubSeq(t, k + 1, n)[i] = t[(k + 1) + i - 1]
  BY <1>2, <1>3, SubSeqProperties
<1> QED
  BY <1>1, <1>3, <1>4

\* A byte given to uartswSendByte is the last on its way.
LEMMA SendIsSend ==
  ASSUME Types, Phase, NEW b \in Bytes, sent' = Append(sent, b), arrived' = arrived
  PROVE  InFlight' = Append(InFlight, b)
<1> DEFINE n == Len(sent)
<1>1. arrived \in Nat /\ n \in Nat /\ arrived <= n /\ sent \in Seq(Bytes)
  BY ArrivedWereSent, Typed
<1>2. /\ sent' \in Seq(Bytes) /\ Len(sent') = n + 1
      /\ \A i \in 1 .. n : sent'[i] = sent[i]
      /\ sent'[n + 1] = b
  BY <1>1, AppendProperties
<1>3. /\ InFlight \in Seq(Bytes) /\ Len(InFlight) = n - arrived
      /\ \A i \in 1 .. n - arrived : InFlight[i] = sent[arrived + i]
  BY <1>1, RestOf DEF InFlight
<1>5. /\ InFlight' \in Seq(Bytes) /\ Len(InFlight') = n - arrived + 1
      /\ \A i \in 1 .. n - arrived + 1 : InFlight'[i] = sent'[arrived + i]
  <2>1. PICK t \in Seq(Bytes) : t = sent'
    BY <1>2
  <2>2. Len(t) = n + 1 /\ arrived \in 0 .. Len(t) /\ Len(t) - arrived = n - arrived + 1
    BY <1>1, <1>2, <2>1
  <2>3. InFlight' = SubSeq(t, arrived + 1, Len(t))
    BY <2>1 DEF InFlight
  <2> HIDE DEF n, InFlight
  <2>4. /\ SubSeq(t, arrived + 1, Len(t)) \in Seq(Bytes)
        /\ Len(SubSeq(t, arrived + 1, Len(t))) = Len(t) - arrived
        /\ \A i \in 1 .. Len(t) - arrived : SubSeq(t, arrived + 1, Len(t))[i] = t[arrived + i]
    BY <2>2, RestOf
  <2> QED
    BY <2>1, <2>2, <2>3, <2>4
<1>6. /\ Append(InFlight, b) \in Seq(Bytes) /\ Len(Append(InFlight, b)) = n - arrived + 1
      /\ \A i \in 1 .. n - arrived : Append(InFlight, b)[i] = InFlight[i]
      /\ Append(InFlight, b)[n - arrived + 1] = b
  BY <1>3, AppendProperties
<1>7. \A i \in 1 .. n - arrived + 1 : InFlight'[i] = Append(InFlight, b)[i]
  <2> SUFFICES ASSUME NEW i \in 1 .. n - arrived + 1
               PROVE  InFlight'[i] = Append(InFlight, b)[i]
    OBVIOUS
  <2> HIDE DEF n, InFlight
  <2>1. InFlight'[i] = sent'[arrived + i]
    BY <1>5
  <2>2. CASE i = n - arrived + 1
    BY <1>1, <1>2, <1>6, <2>1, <2>2
  <2>3. CASE i # n - arrived + 1
    <3>1. i \in 1 .. n - arrived /\ arrived + i \in 1 .. n
      BY <1>1, <2>3
    <3> QED
      BY <1>2, <1>3, <1>6, <2>1, <3>1
  <2> QED
    BY <2>2, <2>3
<1> QED
  BY <1>5, <1>6, <1>7, SeqEqual

\* The byte that arrives is the first on its way.
LEMMA ArrivalIsFirst ==
  ASSUME Types, arrived < Len(sent), sent' = sent, arrived' = arrived + 1
  PROVE  InFlight # <<>> /\ Head(InFlight) = sent[arrived + 1] /\ InFlight' = Tail(InFlight)
<1> DEFINE n == Len(sent)
<1>1. arrived \in Nat /\ n \in Nat /\ arrived < n
  BY Typed
<1>2. /\ InFlight \in Seq(Bytes) /\ Len(InFlight) = n - arrived
      /\ \A i \in 1 .. n - arrived : InFlight[i] = sent[arrived + i]
  BY <1>1, Typed, RestOf DEF InFlight
<1>3. /\ InFlight' \in Seq(Bytes) /\ Len(InFlight') = n - arrived - 1
      /\ \A i \in 1 .. n - arrived - 1 : InFlight'[i] = sent[arrived + 1 + i]
  <2>1. PICK k \in 0 .. n : k = arrived + 1
    BY <1>1
  <2>2. InFlight' = SubSeq(sent, k + 1, n) /\ n - k = n - arrived - 1
    BY <1>1, <2>1 DEF InFlight
  <2>3. /\ SubSeq(sent, k + 1, n) \in Seq(Bytes) /\ Len(SubSeq(sent, k + 1, n)) = n - k
        /\ \A i \in 1 .. n - k : SubSeq(sent, k + 1, n)[i] = sent[k + i]
    BY Typed, RestOf
  <2> QED
    BY <2>1, <2>2, <2>3
<1> HIDE DEF n, InFlight
<1>4. InFlight # <<>> /\ InFlight[1] = sent[arrived + 1]
  BY <1>1, <1>2
<1>5. /\ Tail(InFlight) \in Seq(Bytes) /\ Len(Tail(InFlight)) = n - arrived - 1
      /\ \A i \in 1 .. n - arrived - 1 : Tail(InFlight)[i] = InFlight[i + 1]
  BY <1>2, <1>4, HeadTailProperties
<1>6. \A i \in 1 .. n - arrived - 1 : InFlight'[i] = Tail(InFlight)[i]
  <2> SUFFICES ASSUME NEW i \in 1 .. n - arrived - 1 PROVE InFlight'[i] = Tail(InFlight)[i]
    OBVIOUS
  <2>1. i + 1 \in 1 .. n - arrived /\ arrived + (i + 1) = arrived + 1 + i
    BY <1>1
  <2> QED
    BY <1>2, <1>3, <1>5, <2>1
<1>7. InFlight' = Tail(InFlight)
  BY <1>3, <1>5, <1>6, SeqEqual
<1> QED
  BY <1>4, <1>7

\* Every step of the driver is one of the line or none.
LEMMA LinkStep ==
  ASSUME IInv, ~clash', [Next]_vars
  PROVE  [LinkSpec!Next]_(LinkSpec!vars)
<1>1. Types /\ Phase
  BY ClashStays DEF IInv
<1>2. CASE UNCHANGED <<sent, arrived, uartswRxBuffer>>
  BY <1>2 DEF LinkSpec!vars
<1>3. ASSUME NEW b \in Bytes, SendByte(b) PROVE LinkSpec!Send(b)
  <2>1. sent' = Append(sent, b) /\ arrived' = arrived /\ uartswRxBuffer' = uartswRxBuffer
    BY <1>3 DEF SendByte, Step, rx
  <2>2. InFlight' = Append(InFlight, b)
    BY <1>1, <2>1, SendIsSend
  <2> QED
    BY <2>1, <2>2 DEF LinkSpec!Send, InFlight
<1>4. CASE uartswReceiveByte
  <2>1. /\ sent' = sent /\ arrived' = arrived
        /\ uartswRxBuffer # <<>> /\ uartswRxBuffer' = Tail(uartswRxBuffer)
    BY <1>4 DEF uartswReceiveByte, program
  <2> QED
    BY <2>1 DEF LinkSpec!Receive, LinkSpec!Next
<1>5. ASSUME NEW s \in Sources, uartswRxBitService(s)
      PROVE  LinkSpec!Arrive \/ UNCHANGED <<sent, arrived, uartswRxBuffer>>
  <2>1. sent' = sent
    BY <1>5 DEF uartswRxBitService, program
  <2>2. CASE StartBit(s)
    BY <2>1, <2>2 DEF StartBit
  <2>3. CASE DataBit(s) /\ ~(UartswRxBitNum + 1 >= DataBits)
    BY <2>1, <2>3 DEF DataBit
  <2>4. CASE DataBit(s) /\ UartswRxBitNum + 1 >= DataBits
    <3>1. Store(Sampled) /\ arrived < Len(sent) /\ sent[arrived + 1] = Sampled
      BY <1>1, <1>5, <2>4, StoredIsSent
    <3>2. arrived' = arrived + 1
      BY <3>1 DEF Store
    <3>3. InFlight # <<>> /\ Head(InFlight) = Sampled /\ InFlight' = Tail(InFlight)
      BY <1>1, <2>1, <3>1, <3>2, ArrivalIsFirst
    <3>4. uartswRxBuffer' = IF Len(uartswRxBuffer) < UARTSW_RX_BUFFER_SIZE
                              THEN Append(uartswRxBuffer, Sampled) ELSE uartswRxBuffer
      BY <3>1 DEF Store
    <3> QED
      BY <3>3, <3>4 DEF LinkSpec!Arrive, LinkSpec!Room, InFlight
  <2> QED
    BY <1>5, <2>2, <2>3, <2>4 DEF uartswRxBitService
<1>6. CASE Tic \/ uartswTxBitService
  BY <1>2, <1>6 DEF Tic, uartswTxBitService, rx, program
<1>7. CASE uartswSendByte
  BY <1>2, <1>7 DEF uartswSendByte, Ready, SetBusy, SetData, SetBits, SetStartBit,
     SetCompare, ReadLow, ReadHigh, WriteHigh, WriteLow, ReadMask, WriteMask, Step, rx
<1>8. CASE UNCHANGED vars
  BY <1>2, <1>8 DEF vars, rx, program
<1> QED
  BY <1>2, <1>3, <1>4, <1>5, <1>6, <1>7, <1>8 DEF Next, Interrupt, LinkSpec!Next

\* Until an interrupt clashes with a call, the software UART implements a serial
\* line with a receive buffer: each byte arrives once, unchanged and in order, or
\* finds the buffer full.
THEOREM UartSwImplementsLink == Spec => RefinesLink
<1>2. Init => LinkSpec!Init
  <2> SUFFICES ASSUME Init PROVE LinkSpec!Init
    OBVIOUS
  <2>1. sent = <<>> /\ arrived = 0 /\ uartswRxBuffer = <<>>
    BY DEF Init
  <2>2. Len(sent) = 0 /\ 0 + 1 \in Int /\ 0 \in Int /\ 0 < 0 + 1
    BY <2>1
  <2>3. SubSeq(sent, 0 + 1, 0) = <<>>
    BY <2>2, SubSeqEmpty
  <2> QED
    BY <2>1, <2>2, <2>3 DEF LinkSpec!Init
<1>3. IInv /\ [Next]_vars => [clash' \/ LinkSpec!Next]_(LinkSpec!vars)
  BY LinkStep
<1> QED
  BY <1>2, <1>3, Invariance, PTL DEF Spec, RefinesLink
=============================================================================
