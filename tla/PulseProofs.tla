---------------------------- MODULE PulseProofs -----------------------------
(***************************************************************************)
(* Proofs about the pulse generator: its types, and that a run of n pulses *)
(* that began on an idle channel puts 2n + 1 edges on the pin, or 2n when  *)
(* it counted a match from before its first edge,                          *)
(* wherever the interrupts fall between the instructions of the calls, for *)
(* every number of pulses, half period, size of a byte and number of calls.*)
(***************************************************************************)
EXTENDS Pulse, TLAPS

Instrs == [op : Ops, c : Compare, n : Tics]

LEMMA Sizes ==
  /\ TimerSize \in Nat \ {0} /\ TimerSize >= 4 /\ Base \in Nat \ {0} /\ TimerSize = Base * Base
  /\ Compare \subseteq {"A", "B"} /\ MaxCalls \in Nat
<1>1. ASSUME NEW b \in Nat \ {0, 1} PROVE b * b >= 4
  BY Z3
<1> QED
  BY <1>1, PulseAssumption, TimerAssumption

LEMMA AfterTics == ASSUME NEW x \in Tics, NEW n \in Nat PROVE After(x, n) \in Tics
<1>1. ASSUME NEW T \in Nat \ {0}, NEW y \in Nat PROVE y % T \in 0 .. T - 1
  BY Z3
<1>2. x + n \in Nat
  BY Sizes DEF Tics
<1> QED
  BY <1>1, <1>2, Sizes DEF After, Tics

\* A byte of v from n: both bytes of n make n.
LEMMA Bytes ==
  ASSUME NEW v \in Tics, NEW n \in Tics
  PROVE  /\ High(v, n) \in Tics /\ Low(v, n) \in Tics
         /\ High(v, n) \div Base = n \div Base /\ Low(v, n) % Base = n % Base
         /\ v \div Base = n \div Base => Low(v, n) = n
         /\ v % Base = n % Base => High(v, n) = n
<1>1. ASSUME NEW B \in Nat \ {0}, NEW x \in 0 .. B * B - 1, NEW y \in 0 .. B * B - 1
      PROVE  (y \div B) * B + (x % B) \in 0 .. B * B - 1
  <2>1. y \div B \in 0 .. B - 1 /\ x % B \in 0 .. B - 1
    BY Z3
  <2>2. ASSUME NEW q \in 0 .. B - 1, NEW r \in 0 .. B - 1 PROVE q * B + r \in 0 .. B * B - 1
    BY Z3
  <2> QED
    BY <2>1, <2>2
<1>2. ASSUME NEW B \in Nat \ {0}, NEW x \in 0 .. B * B - 1, NEW y \in 0 .. B * B - 1
      PROVE  /\ ((y \div B) * B + (x % B)) \div B = y \div B
             /\ ((x \div B) * B + (y % B)) % B = y % B
  BY Z3
<1>3. ASSUME NEW B \in Nat \ {0}, NEW x \in 0 .. B * B - 1, NEW y \in 0 .. B * B - 1
      PROVE  /\ x \div B = y \div B => (x \div B) * B + (y % B) = y
             /\ x % B = y % B => (y \div B) * B + (x % B) = y
  BY Z3
<1>4. Tics = 0 .. Base * Base - 1 /\ Base \in Nat \ {0}
  BY Sizes DEF Tics
<1> QED
  BY <1>1, <1>2, <1>3, <1>4, Zenon DEF High, Low

-----------------------------------------------------------------------------
\* Types.

DriverTypes ==
  /\ Counted \in [Compare -> BOOLEAN]
  /\ PulseCount \in [Compare -> Tics] /\ PeriodTics \in [Compare -> Tics]
  /\ com \subseteq Compare
  /\ edges \in [Compare -> Nat] /\ due \in [Compare -> Tics]
  /\ stale \subseteq Compare /\ wild \in BOOLEAN

CallTypes ==
  /\ todo \in Seq(Instrs)
  /\ TIMSK1 \cup reg \subseteq Compare
  /\ sum \in Tics /\ late \in BOOLEAN /\ calls \in 0 .. MaxCalls

\* Inductive: no driver here uses the input capture.
Types == TimerTypeOK /\ DriverTypes /\ CallTypes

\* What is left of a call.
LEMMA TodoTypes ==
  ASSUME Types, todo # <<>>
  PROVE  /\ Head(todo) \in Instrs /\ Head(todo) = todo[1]
         /\ Tail(todo) \in Seq(Instrs) /\ Len(Tail(todo)) = Len(todo) - 1 /\ Len(todo) \in Nat \ {0}
         /\ \A i \in 1 .. Len(todo) - 1 : Tail(todo)[i] = todo[i + 1]
BY DEF Types, CallTypes

LEMMA SeqTypes == ASSUME todo \in Seq(Instrs) PROVE \A i \in 1 .. Len(todo) : todo[i] \in Instrs
OBVIOUS

\* One of the instructions a call is made of.
LEMMA InstrType ==
  ASSUME NEW c \in Compare, NEW n \in Tics, NEW op \in Ops PROVE Instr(op, c, n) \in Instrs
BY DEF Instr, Instrs

LEMMA PairTypes ==
  ASSUME NEW c \in Compare, NEW n \in Tics, NEW high \in Ops, NEW low \in Ops,
         NEW stores \in Stores(high, low, c, n)
  PROVE  stores \in Seq(Instrs)
<1>1. Instr(high, c, n) \in Instrs /\ Instr(low, c, n) \in Instrs
  BY InstrType
<1>2. ASSUME NEW a \in Instrs, NEW b \in Instrs PROVE <<a, b>> \in Seq(Instrs)
  OBVIOUS
<1>3. \/ stores = <<Instr(high, c, n), Instr(low, c, n)>>
      \/ stores = <<Instr(low, c, n), Instr(high, c, n)>>
  BY DEF Stores
<1> QED
  BY <1>1, <1>2, <1>3

LEMMA CodeTypes ==
  ASSUME NEW c \in Compare
  PROVE  /\ Connect(c) \in Seq(Instrs) /\ Disconnect(c) \in Seq(Instrs)
         /\ \A n \in {0, 1} : <<Instr("mode", c, n)>> \in Seq(Instrs) /\ Point(c, n) \in Seq(Instrs)
         /\ <<Instr("readOcr", c, 0), Instr("setOcr", c, 0),
              Instr("readMask", c, 0), Instr("enable", c, 0)>> \in Seq(Instrs)
<1>1. 0 \in Tics /\ 1 \in Tics
  BY Sizes DEF Tics
<1>2. \A op \in Ops, n \in {0, 1} : Instr(op, c, n) \in Instrs
  BY <1>1, InstrType
<1>3. {"mode", "readCom", "connect", "disconnect", "readOcr", "setOcr", "readMask", "enable",
       "tear", "point"} \subseteq Ops
  BY DEF Ops
<1> QED
  BY <1>2, <1>3 DEF Connect, Disconnect, Point

LEMMA DoubleTics == ASSUME NEW n \in Counts PROVE n \in Nat /\ 2 * n \in Tics
<1>1. ASSUME NEW T \in Nat, NEW k \in 0 .. (T - 1) \div 2, T >= 4 PROVE k \in Nat /\ 2 * k <= T - 1
  BY Z3
<1>2. n \in Nat /\ 2 * n <= TimerSize - 1
  BY <1>1, Sizes, PulseAssumption
<1> QED
  BY <1>2, Sizes DEF Tics

\* The calls are made of instructions.
LEMMA RunTypes ==
  ASSUME NEW c \in Compare, NEW n \in Counts,
         NEW stores \in CountStores(c, IF n = 0 THEN 2 ELSE 2 * n)
  PROVE  RunCode(c, n, stores) \in Seq(Instrs)
<1>1. (IF n = 0 THEN 2 ELSE 2 * n) \in Tics
  BY DoubleTics, Sizes DEF Tics
<1>2. stores \in Seq(Instrs)
  BY <1>1, PairTypes DEF CountStores, Ops
<1>3. <<Instr("mode", c, IF n = 0 THEN 0 ELSE 1)>> \in Seq(Instrs)
  BY CodeTypes
<1>4. ASSUME NEW s \in Seq(Instrs), NEW t \in Seq(Instrs) PROVE s \o t \in Seq(Instrs)
  OBVIOUS
<1> QED
  BY <1>2, <1>3, <1>4, CodeTypes DEF RunCode

LEMMA OffTypes ==
  ASSUME NEW stores, \A c \in Compare : stores[c] \in CountStores(c, 0)
  PROVE  OffCode(stores) \in Seq(Instrs)
<1>1. 0 \in Tics
  BY Sizes DEF Tics
<1>2. \A c \in Compare : stores[c] \in Seq(Instrs)
  BY <1>1, PairTypes DEF CountStores, Ops
<1>3. ASSUME NEW s \in Seq(Instrs), NEW t \in Seq(Instrs) PROVE s \o t \in Seq(Instrs)
  OBVIOUS
<1>4. <<>> \in Seq(Instrs)
  OBVIOUS
<1>5. Both(LAMBDA c : stores[c]) \in Seq(Instrs)
  BY <1>2, <1>3, <1>4 DEF Both
<1>6. Both(Disconnect) \in Seq(Instrs)
  BY <1>3, <1>4, CodeTypes DEF Both
<1>7. Both(LAMBDA c : Point(c, 0)) \in Seq(Instrs)
  BY <1>3, <1>4, CodeTypes DEF Both
<1> QED
  BY <1>3, <1>5, <1>6, <1>7 DEF OffCode

LEMMA InitTypes ==
  ASSUME NEW stores, NEW periods, \A c \in Compare : stores[c] \in Seq(Instrs),
         \A c \in Compare : periods[c] \in Seq(Instrs)
  PROVE  InitCode(stores, periods) \in Seq(Instrs)
<1>1. ASSUME NEW s \in Seq(Instrs), NEW t \in Seq(Instrs) PROVE s \o t \in Seq(Instrs)
  OBVIOUS
<1>2. <<>> \in Seq(Instrs)
  OBVIOUS
<1>3. Both(LAMBDA c : stores[c]) \in Seq(Instrs) /\ Both(LAMBDA c : periods[c]) \in Seq(Instrs)
  BY <1>1, <1>2 DEF Both
<1>4. Both(Disconnect) \in Seq(Instrs)
  BY <1>1, <1>2, CodeTypes DEF Both
<1>5. Both(LAMBDA c : <<Instr("mode", c, 0)>>) \in Seq(Instrs)
  BY <1>1, <1>2, CodeTypes DEF Both
<1>6. Both(LAMBDA c : Point(c, 1)) \in Seq(Instrs)
  BY <1>1, <1>2, CodeTypes DEF Both
<1> QED
  BY <1>1, <1>3, <1>4, <1>5, <1>6 DEF InitCode

LEMMA TypesInit == Init => Types
<1> SUFFICES ASSUME Init PROVE Types
  OBVIOUS
<1>1. 0 \in Tics /\ TimerSize \div 2 \in Tics
  <2>1. ASSUME NEW T \in Nat \ {0} PROVE T \div 2 \in 0 .. T - 1
    BY Z3
  <2> QED
    BY <2>1, Sizes DEF Tics
<1>2. TimerIntFunc \in [Sources -> Services]
  <2>1. {"pulseService", "none"} \subseteq Services
    BY DEF Services
  <2>2. TimerIntFunc = [s \in Sources |-> IF s \in Compare THEN "pulseService" ELSE "none"]
    BY DEF Init
  <2> QED
    BY ONLY <2>1, <2>2
<1>3. TimerTypeOK
  BY <1>1, <1>2 DEF Init, TimerTypeOK
<1>4. DriverTypes
  BY <1>1 DEF Init, DriverTypes, Tics
<1>5. CallTypes
  <2>1. TIMSK1 = {} /\ reg = {} /\ todo = <<>> /\ sum = 0 /\ late = FALSE /\ calls = 0
    BY DEF Init
  <2>2. todo \in Seq(Instrs) /\ calls \in 0 .. MaxCalls
    BY <2>1, Sizes
  <2> QED
    BY <1>1, <2>1, <2>2 DEF CallTypes
<1> QED
  BY <1>3, <1>4, <1>5 DEF Types

LEMMA TypesTic == Types /\ Tic => Types'
<1> SUFFICES ASSUME Types, Tic PROVE Types'
  OBVIOUS
<1>1. TimerTypeOK /\ DriverTypes /\ CallTypes
  BY DEF Types
<1>2. TCNT1' \in Tics
  BY <1>1, AfterTics DEF Tic, Elapse, TimerTypeOK
<1>3. TIFR1' \subseteq Sources
  BY <1>1 DEF Tic, Elapse, TimerTypeOK, Reached, Sources
<1>4. TimerTypeOK'
  BY <1>1, <1>2, <1>3 DEF Tic, Elapse, TimerTypeOK
<1>5. edges' \in [Compare -> Nat]
  BY <1>1 DEF Tic, DriverTypes
<1>7. stale' \subseteq Compare /\ wild' \in BOOLEAN
  BY <1>1 DEF Tic, DriverTypes
<1>6. DriverTypes' /\ CallTypes'
  BY <1>7, <1>1, <1>5 DEF Tic, Elapse, pulses, DriverTypes, CallTypes
<1> QED
  BY <1>4, <1>6 DEF Types

LEMMA TypesService ==
  ASSUME Types, NEW c \in Compare, pulseService(c) \/ Unserved(c) \/ Torn(c)
  PROVE  Types'
<1>1. TimerTypeOK /\ DriverTypes /\ CallTypes
  BY DEF Types
<1>2. CallTypes'
  BY <1>1 DEF pulseService, Unserved, Torn, Continue, Finish, program, timervars, CallTypes
<1>3. UNCHANGED <<TCNT1, TimerIntFunc>> /\ TIFR1' \subseteq Sources
  BY <1>1 DEF pulseService, Unserved, Torn, timervars, TimerTypeOK
<1>4. ASSUME OCR1' \in [Compare -> Tics], TIMSK1' \subseteq Sources, DriverTypes' PROVE Types'
  BY <1>1, <1>2, <1>3, <1>4 DEF Types, TimerTypeOK
<1>5. CASE Unserved(c)
  BY <1>1, <1>4, <1>5 DEF Unserved, TimerTypeOK, DriverTypes, pulses, ghost
<1>6. CASE pulseService(c) /\ Requested(c)
  <2>1. Continue(c) /\ UNCHANGED <<Counted, PeriodTics, edges, stale, wild>>
    BY <1>6 DEF pulseService
  <2>2. After(OCR1[c], PeriodTics[c]) \in Tics
    <3>1. OCR1[c] \in Tics /\ PeriodTics[c] \in Nat
      BY <1>1, Sizes DEF TimerTypeOK, DriverTypes, Tics
    <3> QED
      BY <3>1, AfterTics
  <2>3. OCR1' \in [Compare -> Tics]
    BY <1>1, <2>1, <2>2 DEF Continue, TimerTypeOK
  <2>4. PulseCount[c] - 1 \in Tics
    BY <1>1, <1>6, Sizes DEF Requested, DriverTypes, Tics
  <2>5. PulseCount' \in [Compare -> Tics]
    BY <1>1, <2>1, <2>4 DEF Continue, DriverTypes
  <2> QED
    BY <1>1, <1>4, <2>1, <2>3, <2>5 DEF Continue, DriverTypes, TimerTypeOK
<1>7. CASE pulseService(c) /\ ~Requested(c)
  <2>1. Finish(c) /\ UNCHANGED <<Counted, PeriodTics, edges, stale, wild>>
    BY <1>7 DEF pulseService
  <2>2. due' \in [Compare -> Tics]
    BY <1>1, <2>1, Sizes DEF Finish, DriverTypes, Tics
  <2> QED
    BY <1>1, <1>4, <2>1, <2>2 DEF Finish, DriverTypes, TimerTypeOK
<1>8. CASE Torn(c)
  BY <1>1, <1>4, <1>8 DEF Torn, timervars, TimerTypeOK, DriverTypes, pulses, ghost
<1> QED
  BY <1>5, <1>6, <1>7, <1>8

LEMMA TypesStep == Types /\ Step => Types'
<1> SUFFICES ASSUME Types, Step PROVE Types'
  OBVIOUS
<1>1. TimerTypeOK /\ DriverTypes /\ CallTypes /\ todo # <<>>
  BY DEF Types, Step
<1>2. Head(todo) \in Instrs /\ Tail(todo) \in Seq(Instrs)
  BY <1>1, TodoTypes
<1>3. PICK op \in Ops, c \in Compare, n \in Tics :
        Effect(op, c, n) /\ op = Head(todo).op /\ c = Head(todo).c
  BY <1>2 DEF Step, Instrs
<1>4. Counted' \in [Compare -> BOOLEAN]
  <2>1. CASE op = "mode"
    <3>1. Counted' = [Counted EXCEPT ![c] = (n = 1)]
      BY <1>3, <2>1, Zenon DEF Effect
    <3>2. (n = 1) \in BOOLEAN
      OBVIOUS
    <3> QED
      BY <1>1, <3>1, <3>2, Zenon DEF DriverTypes
  <2>2. CASE op # "mode"
    <3>1. Counted' = Counted
      BY <1>3, <2>2, Zenon DEF Effect
    <3> QED
      BY <1>1, <3>1 DEF DriverTypes
  <2> QED
    BY <2>1, <2>2
<1>5. /\ PulseCount' = [PulseCount EXCEPT ![c] =
           IF op = "countHigh" THEN High(@, n) ELSE IF op = "countLow" THEN Low(@, n) ELSE @]
      /\ PeriodTics' = [PeriodTics EXCEPT ![c] =
           IF op = "periodHigh" THEN High(@, n) ELSE IF op = "periodLow" THEN Low(@, n) ELSE @]
  BY <1>3, Zenon DEF Effect
<1>6. PulseCount' \in [Compare -> Tics] /\ PeriodTics' \in [Compare -> Tics]
  <2>1. PulseCount[c] \in Tics /\ PeriodTics[c] \in Tics
    BY <1>1 DEF DriverTypes
  <2>2. /\ High(PulseCount[c], n) \in Tics /\ Low(PulseCount[c], n) \in Tics
        /\ High(PeriodTics[c], n) \in Tics /\ Low(PeriodTics[c], n) \in Tics
    BY <2>1, Bytes
  <2> QED
    BY <1>1, <1>5, <2>1, <2>2 DEF DriverTypes
<1>7. /\ reg' = CASE op = "readCom" -> com [] op = "readMask" -> TIMSK1
                  [] op \in {"connect", "disconnect", "enable"} -> {} [] OTHER -> reg
      /\ com' = CASE op = "connect" -> reg \cup {c} [] op = "disconnect" -> reg \ {c}
                  [] OTHER -> com
      /\ sum' = CASE op = "readOcr" -> After(OCR1[c], PeriodTics[c]) [] op = "setOcr" -> 0
                  [] OTHER -> sum
      /\ OCR1' = IF op = "setOcr" THEN [OCR1 EXCEPT ![c] = sum] ELSE OCR1
      /\ TIMSK1' = IF op = "enable" THEN reg \cup {c} ELSE TIMSK1
  BY <1>3, Zenon DEF Effect
<1>8. After(OCR1[c], PeriodTics[c]) \in Tics /\ 0 \in Tics
  <2>1. OCR1[c] \in Tics /\ PeriodTics[c] \in Nat
    BY <1>1, Sizes DEF TimerTypeOK, DriverTypes, Tics
  <2> QED
    BY <2>1, AfterTics, Sizes DEF Tics
<1>9. CallTypes'
  <2>1. todo' \in Seq(Instrs) /\ late' \in BOOLEAN /\ calls' \in 0 .. MaxCalls
    <3>1. todo' = Tail(todo) /\ late' = (late /\ Len(todo) > 1) /\ calls' = calls
      BY Zenon DEF Step
    <3>2. late' \in BOOLEAN
      BY <3>1
    <3> QED
      BY <1>1, <1>2, <3>1, <3>2, Zenon DEF CallTypes
  <2>2. TIMSK1' \cup reg' \subseteq Compare
    BY <1>1, <1>7 DEF CallTypes, DriverTypes
  <2>3. sum' \in Tics
    BY <1>1, <1>7, <1>8 DEF CallTypes
  <2> QED
    BY <2>1, <2>2, <2>3 DEF CallTypes
<1>10. DriverTypes'
  <2>1. com' \subseteq Compare
    BY <1>1, <1>7 DEF CallTypes, DriverTypes
  <2>2. UNCHANGED <<edges, due, wild>>
    BY DEF Step
  <2>3. stale' \subseteq Compare
    BY <1>1, <1>3, Zenon DEF Effect, DriverTypes
  <2> QED
    BY <1>1, <1>4, <1>6, <2>1, <2>2, <2>3 DEF DriverTypes
<1>11. TimerTypeOK'
  <2>1. OCR1' \in [Compare -> Tics]
    BY <1>1, <1>7 DEF CallTypes, TimerTypeOK
  <2>2. TIMSK1' \subseteq Sources
    BY <1>9 DEF CallTypes, Sources
  <2>3. TimerIntFunc' \in [Sources -> Services]
    <3>1. TimerIntFunc' = [TimerIntFunc EXCEPT ![c] =
            IF op = "tear" /\ @ # Function(n) THEN "torn"
            ELSE IF op = "point" THEN Function(n) ELSE @]
      BY <1>3, Zenon DEF Effect
    <3>2. "torn" \in Services /\ Function(n) \in Services /\ c \in Sources
      BY DEF Services, Function, Sources
    <3> QED
      BY <1>1, <3>1, <3>2 DEF TimerTypeOK
  <2> QED
    BY <1>1, <2>1, <2>2, <2>3 DEF Step, TimerTypeOK
<1> QED
  BY <1>9, <1>10, <1>11 DEF Types

\* A call begins.
LEMMA TypesCall ==
  ASSUME Types, NEW name, NEW code \in Seq(Instrs), Call(name, code), edges' \in [Compare -> Nat],
         due' \in [Compare -> Tics], stale' = stale
  PROVE  Types'
<1>1. TimerTypeOK /\ DriverTypes /\ CallTypes
  BY DEF Types
<1>2. /\ UNCHANGED <<TCNT1, OCR1, TIMSK1, TIFR1, TimerIntFunc, Counted, PulseCount, PeriodTics,
                     com, reg, sum, late, wild>>
      /\ todo' = code /\ calls' \in 0 .. MaxCalls
  BY <1>1, Sizes DEF Call, timervars, pulses, CallTypes
<1>3. TimerTypeOK' /\ DriverTypes'
  BY <1>1, <1>2 DEF TimerTypeOK, DriverTypes
<1>4. CallTypes'
  BY <1>1, <1>2 DEF CallTypes
<1> QED
  BY <1>3, <1>4 DEF Types

LEMMA TypesCalls ==
  ASSUME Types,
         \/ pulseT1Off \/ pulseT1Init
         \/ \E c \in Compare : \/ pulseT1Stop(c) \/ \E n \in Counts : pulseT1Run(c, n)
                               \/ \E tics \in Periods : pulseT1SetFreq(c, tics)
  PROVE  Types'
<1>1. edges \in [Compare -> Nat] /\ due \in [Compare -> Tics]
  BY DEF Types, DriverTypes
<1>2. 0 \in Tics
  BY Sizes DEF Tics
<1>3. ASSUME NEW c \in Compare, pulseT1Stop(c) PROVE Types'
  <2>1. PICK stores \in CountStores(c, 0) : Call("Stop", <<Instr("mode", c, 1)>> \o stores)
    BY <1>3 DEF pulseT1Stop
  <2>2. stores \in Seq(Instrs) /\ <<Instr("mode", c, 1)>> \in Seq(Instrs)
    BY <1>2, PairTypes, CodeTypes DEF CountStores, Ops
  <2>3. <<Instr("mode", c, 1)>> \o stores \in Seq(Instrs)
    BY <2>2
  <2>4. edges' \in [Compare -> Nat] /\ due' \in [Compare -> Tics] /\ stale' = stale
    BY <1>1, <1>2, <1>3 DEF pulseT1Stop
  <2> QED
    BY <2>1, <2>3, <2>4, TypesCall
<1>4. ASSUME NEW c \in Compare, NEW n \in Counts, pulseT1Run(c, n) PROVE Types'
  <2>1. PICK stores \in CountStores(c, IF n = 0 THEN 2 ELSE 2 * n) :
          Call("Run", RunCode(c, n, stores))
    BY <1>4 DEF pulseT1Run
  <2>2. RunCode(c, n, stores) \in Seq(Instrs)
    BY RunTypes
  <2>3. edges' \in [Compare -> Nat] /\ stale' = stale
    BY <1>1, <1>4 DEF pulseT1Run
  <2>4. due' \in [Compare -> Tics]
    BY <1>1, <1>2, <1>4, DoubleTics DEF pulseT1Run
  <2> QED
    BY <2>1, <2>2, <2>3, <2>4, TypesCall
<1>5. ASSUME NEW c \in Compare, NEW tics \in Periods, pulseT1SetFreq(c, tics) PROVE Types'
  <2>1. tics \in Tics
    BY PulseAssumption
  <2>2. PICK stores \in Stores("periodHigh", "periodLow", c, tics) : Call("SetFreq", stores)
    BY <1>5 DEF pulseT1SetFreq
  <2>3. stores \in Seq(Instrs)
    BY <2>1, PairTypes DEF Ops
  <2>4. edges' = edges /\ due' = due /\ stale' = stale
    BY <1>5 DEF pulseT1SetFreq, ghost
  <2> QED
    BY <1>1, <2>2, <2>3, <2>4, TypesCall
<1>6. CASE pulseT1Off
  <2>1. PICK stores \in [Compare -> UNION {CountStores(c, 0) : c \in Compare}] :
          (\A c \in Compare : stores[c] \in CountStores(c, 0)) /\ Call("Off", OffCode(stores))
    BY <1>6 DEF pulseT1Off
  <2>2. OffCode(stores) \in Seq(Instrs)
    BY <2>1, OffTypes
  <2>3. edges' \in [Compare -> Nat] /\ due' \in [Compare -> Tics] /\ stale' = stale
    BY <1>1, <1>2, <1>6 DEF pulseT1Off
  <2> QED
    BY <2>1, <2>2, <2>3, TypesCall
<1>7. CASE pulseT1Init
  <2> DEFINE stores == [c \in Compare |-> <<Instr("countHigh", c, 0), Instr("countLow", c, 0)>>]
             periods == [c \in Compare |-> <<Instr("periodHigh", c, TimerSize \div 2),
                                             Instr("periodLow", c, TimerSize \div 2)>>]
  <2>1. /\ Call("Init", InitCode(stores, periods)) /\ edges' = edges /\ stale' = stale
        /\ due' \in [Compare -> Tics]
    BY <1>1, <1>2, <1>7 DEF pulseT1Init
  <2>2. TimerSize \div 2 \in Tics
    <3>1. ASSUME NEW T \in Nat \ {0} PROVE T \div 2 \in 0 .. T - 1
      BY Z3
    <3> QED
      BY <3>1, Sizes DEF Tics
  <2>3. ASSUME NEW c \in Compare PROVE stores[c] \in Seq(Instrs) /\ periods[c] \in Seq(Instrs)
    <3>1. /\ Instr("countHigh", c, 0) \in Instrs /\ Instr("countLow", c, 0) \in Instrs
          /\ Instr("periodHigh", c, TimerSize \div 2) \in Instrs
          /\ Instr("periodLow", c, TimerSize \div 2) \in Instrs
      BY <1>2, <2>2, InstrType DEF Ops
    <3>2. ASSUME NEW a \in Instrs, NEW b \in Instrs PROVE <<a, b>> \in Seq(Instrs)
      OBVIOUS
    <3> QED
      BY <3>1, <3>2
  <2> HIDE DEF stores, periods
  <2>4. InitCode(stores, periods) \in Seq(Instrs)
    BY <2>3, InitTypes
  <2> QED
    BY <1>1, <2>1, <2>4, TypesCall
<1> QED
  BY <1>3, <1>4, <1>5, <1>6, <1>7

LEMMA TypesNext == Types /\ [Next]_vars => Types'
<1> SUFFICES ASSUME Types, [Next]_vars PROVE Types'
  OBVIOUS
<1>1. CASE UNCHANGED vars
  BY <1>1 DEF Types, vars, timervars, pulses, program, ghost, TimerTypeOK, DriverTypes, 
                         CallTypes
<1> QED
  BY <1>1, TypesTic, TypesStep, TypesService, TypesCalls DEF Next

\* Every variable has its type; no count or period leaves its 16 bits.
THEOREM TypeCorrect == Spec => []TypeOK
<1>1. Types => TypeOK
  BY SeqTypes DEF Types, TypeOK, DriverTypes, CallTypes, Instrs, Sources
<1> QED
  BY <1>1, TypesInit, TypesNext, PTL DEF Spec

-----------------------------------------------------------------------------
\* The pulses of a run that began on an idle channel.

\* The instructions of a run, and which of them store its count.
RunOps == <<"mode", "count", "count", "readCom", "connect", "readOcr", "setOcr", "readMask", "enable">>
Halves == {"countHigh", "countLow"}

Own(c, k) ==
  \A i \in 1 .. k :
    /\ todo[i].c = c
    /\ IF RunOps[9 - k + i] = "count" THEN todo[i].op \in Halves /\ todo[i].n = due[c]
                                      ELSE todo[i].op = RunOps[9 - k + i]

\* The byte that the next instruction does not store has been stored.
HalfStored(c) == IF todo[1].op = "countLow" THEN PulseCount[c] \div Base = due[c] \div Base
                                            ELSE PulseCount[c] % Base = due[c] % Base

\* While the call is under way, by the number k of instructions that are left:
\* which they are, and what the others did.  The channel's interrupt is off.  An
\* edge can be out already; then a tic came, as only one does, and the flag is up.
Flag(c) == IF c \in TIFR1 THEN 1 ELSE 0
Earlier(c) == IF c \in stale THEN 1 ELSE 0
StartingAt(c, k) ==
  /\ Own(c, k)
  /\ k = 9 => todo[1].n = 1 /\ todo[2].op # todo[3].op
  /\ k = 8 => todo[1].op # todo[2].op
  /\ k = 7 => HalfStored(c)
  /\ k <= 8 => Counted[c]
  /\ k <= 6 => PulseCount[c] = due[c]
  /\ IF k <= 4 THEN c \in com /\ edges[c] = Flag(c) - Earlier(c) ELSE c \notin com /\ edges[c] = 0
  /\ c \notin TIMSK1
  /\ edges[c] \in {0, 1} /\ (edges[c] = 1 => late /\ c \in TIFR1)

Starting(c) == \E k \in 1 .. 9 : Len(todo) = k /\ StartingAt(c, k)

\* What is left of a call leaves the channel alone: only its half period changes,
\* and a register is written as it has just been read.
Apart(c) ==
  \A i \in 1 .. Len(todo) :
    /\ todo[i].op \notin {"disconnect", "tear", "point"}
    /\ todo[i].c = c => todo[i].op \in {"periodHigh", "periodLow"}
    /\ todo[i].op = "connect" => IF i = 1 THEN c \in reg ELSE todo[i - 1].op = "readCom"
    /\ todo[i].op = "enable" => IF i = 1 THEN c \in reg ELSE todo[i - 1].op = "readMask"

\* An edge whose interrupt has not run is not counted yet; a flag that the run
\* found up is counted, and was no edge of it.
Going(c) ==
  /\ Apart(c)
  /\ c \in com /\ c \in TIMSK1 /\ Counted[c]
  /\ edges[c] + PulseCount[c] - Flag(c) = due[c] - Earlier(c)

Tracked(c) == due[c] # 0 => TimerIntFunc[c] = "pulseService" /\ (Starting(c) \/ Going(c))

\* The inductive invariant.
IInv == Types /\ (todo = <<>> => ~late) /\ \A c \in Compare : Tracked(c)

LEMMA ChannelTypes ==
  ASSUME Types, NEW c \in Compare
  PROVE  /\ edges[c] \in Nat /\ PulseCount[c] \in Tics /\ PulseCount[c] \in Nat
         /\ due[c] \in Tics /\ due[c] \in Nat
BY Sizes DEF Types, DriverTypes, Tics

LEMMA InitIInv == Init => IInv
BY TypesInit DEF Init, IInv, Tracked

\* An edge of a run that is going finds its last one counted.
LEMMA TrackedTic == ASSUME IInv, Tic, NEW c \in Compare PROVE Tracked(c)'
<1>1. /\ UNCHANGED <<Counted, PulseCount, com, todo, reg, due, OCR1, TIMSK1, TimerIntFunc>>
      /\ ~late /\ late' = (todo # <<>>)
      /\ TIFR1 \cap TIMSK1 = {} /\ TIFR1' = TIFR1 \cup Reached
  BY Zenon DEF Tic, Elapse, AllServed, pulses
<1>2. edges'[c] = IF c \in com \cap Reached /\ due[c] # 0 THEN edges[c] + 1 ELSE edges[c]
  BY DEF Tic
<1>3. edges[c] \in Nat /\ PulseCount[c] \in Nat /\ due[c] \in Nat
  BY ChannelTypes DEF IInv
<1>6. c \in stale' <=> c \in stale /\ ~(c \in com /\ c \in Reached /\ c \in TIFR1)
  BY DEF Tic
<1>4. ASSUME due[c] # 0, Starting(c) PROVE Starting(c)'
  <2>1. PICK k \in 1 .. 9 : Len(todo) = k /\ StartingAt(c, k)
    BY <1>4 DEF Starting
  <2>2. edges[c] = 0
    BY <1>1, <2>1 DEF StartingAt
  <2>3. todo # <<>>
    BY <2>1
  <2>4. late'
    BY <1>1, <2>3, Zenon
  <2>5. Own(c, k)' = Own(c, k) /\ HalfStored(c)' = HalfStored(c)
    BY <1>1 DEF Own, HalfStored
  <2>6. StartingAt(c, k)'
    BY <1>1, <1>2, <1>4, <1>6, <2>1, <2>2, <2>4, <2>5 DEF StartingAt, Flag, Earlier
  <2> QED
    BY <1>1, <2>1, <2>6 DEF Starting
<1>5. ASSUME due[c] # 0, Going(c) PROVE Going(c)'
  <2>1. Apart(c)' /\ c \notin TIFR1
    BY <1>1, <1>5 DEF Going, Apart
  <2> QED
    BY <1>1, <1>2, <1>3, <1>5, <1>6, <2>1 DEF Going, Flag, Earlier
<1> QED
  BY <1>1, <1>4, <1>5 DEF IInv, Tracked

\* What the invariant is about.
LEMMA TrackedSame ==
  ASSUME IInv, NEW c \in Compare,
         UNCHANGED <<timervars, pulses, com, program, ghost>>
  PROVE  Tracked(c)'
<1>1. /\ TIMSK1' = TIMSK1 /\ TIFR1' = TIFR1 /\ TimerIntFunc' = TimerIntFunc
      /\ Counted' = Counted /\ PulseCount' = PulseCount /\ com' = com
      /\ todo' = todo /\ reg' = reg /\ late' = late
      /\ edges' = edges /\ due' = due /\ stale' = stale
  BY DEF timervars, pulses, program, ghost
<1>2. Apart(c)' = Apart(c) /\ Flag(c)' = Flag(c) /\ Earlier(c)' = Earlier(c)
  BY <1>1 DEF Apart, Flag, Earlier
<1>3. \A k \in 1 .. 9 : Own(c, k)' = Own(c, k) /\ HalfStored(c)' = HalfStored(c)
  BY <1>1 DEF Own, HalfStored
<1>4. Starting(c) => Starting(c)'
  BY <1>1, <1>2, <1>3 DEF Starting, StartingAt
<1>5. Going(c) => Going(c)'
  BY <1>1, <1>2 DEF Going
<1> QED
  BY <1>1, <1>4, <1>5 DEF IInv, Tracked

\* A channel's interrupt counts the edge that raised its flag, or ends the run.
LEMMA TrackedService ==
  ASSUME IInv, NEW d \in Compare, pulseService(d) \/ Unserved(d) \/ Torn(d), NEW c \in Compare
  PROVE  Tracked(c)'
<1>0. Torn(d) => Tracked(c)'
  BY TrackedSame DEF Torn
<1> SUFFICES ASSUME due'[c] # 0, ~Torn(d) PROVE Tracked(c)'
  BY <1>0 DEF Tracked
<1>1. /\ UNCHANGED <<Counted, TimerIntFunc, todo, reg, late, edges, stale>>
      /\ TIFR1' = TIFR1 \ {d} /\ d \in TIFR1 /\ d \in TIMSK1
  BY DEF pulseService, Unserved, pulses, program, ghost, Runs, Pending
<1>2. edges[c] \in Nat /\ PulseCount[c] \in Nat /\ due[c] \in Nat
  BY ChannelTypes DEF IInv
<1>3. CASE c # d
  <2>1. /\ PulseCount'[c] = PulseCount[c] /\ due'[c] = due[c]
        /\ c \in com' <=> c \in com
        /\ c \in TIMSK1' <=> c \in TIMSK1
    BY <1>3 DEF pulseService, Unserved, Continue, Finish, pulses, ghost, IInv, Types, DriverTypes
  <2>2. c \in TIFR1' <=> c \in TIFR1
    BY <1>1, <1>3
  <2>3. Starting(c) => Starting(c)'
    <3>1. ASSUME NEW k \in 1 .. 9, StartingAt(c, k) PROVE StartingAt(c, k)'
      <4>1. Own(c, k)' = Own(c, k) /\ HalfStored(c)' = HalfStored(c)
        BY <1>1, <2>1 DEF Own, HalfStored
      <4> QED
        BY <1>1, <2>1, <2>2, <3>1, <4>1 DEF StartingAt, Flag, Earlier
    <3> QED
      BY <1>1, <3>1 DEF Starting
  <2>4. Going(c) => Going(c)'
    BY <1>1, <2>1, <2>2 DEF Going, Apart, Flag, Earlier
  <2> QED
    BY <1>1, <2>1, <2>3, <2>4 DEF IInv, Tracked
<1>4. CASE c = d
  <2>1. due[c] # 0
    BY <1>4 DEF pulseService, Unserved, Continue, Finish, ghost, IInv, Types, DriverTypes
  <2>2. TimerIntFunc[c] = "pulseService" /\ Going(c)
    BY <1>1, <1>4, <2>1 DEF IInv, Tracked, Starting, StartingAt
  <2>3. pulseService(c) /\ Requested(c)
    BY <1>4, <2>2 DEF pulseService, Unserved, Runs, Finish, IInv, Types, DriverTypes
  <2>4. /\ PulseCount'[c] = PulseCount[c] - 1 /\ UNCHANGED <<TIMSK1, com, due>>
    BY <2>2, <2>3 DEF pulseService, Continue, Going, IInv, Types, DriverTypes
  <2>5. Going(c)'
    BY <1>1, <1>2, <1>4, <2>2, <2>4 DEF Going, Apart, Flag, Earlier
  <2> QED
    BY <1>1, <2>2, <2>5 DEF Tracked
<1> QED
  BY <1>3, <1>4

\* What an instruction leaves alone.
LEMMA EffectFrame ==
  ASSUME Types, NEW op \in Ops, NEW d \in Compare, NEW n \in Tics, Effect(op, d, n),
         NEW c \in Compare
  PROVE  /\ op # "mode" \/ c # d => Counted'[c] = Counted[c]
         /\ op \notin Halves \/ c # d => PulseCount'[c] = PulseCount[c]
         /\ op \notin {"connect", "disconnect"} => com' = com
         /\ op # "enable" => TIMSK1' = TIMSK1
         /\ op \notin {"tear", "point"} => TimerIntFunc' = TimerIntFunc
         /\ op # "connect" \/ c # d => (c \in stale' <=> c \in stale)
         /\ op = "readCom" => reg' = com
         /\ op = "readMask" => reg' = TIMSK1
         /\ op \in {"mode", "countHigh", "countLow", "periodHigh", "periodLow",
                    "readOcr", "setOcr"} => reg' = reg
<1>1. Counted \in [Compare -> BOOLEAN] /\ PulseCount \in [Compare -> Tics]
  BY DEF Types, DriverTypes
<1>2. op # "mode" \/ c # d => Counted'[c] = Counted[c]
  <2>1. CASE op = "mode"
    <3>1. Counted' = [Counted EXCEPT ![d] = (n = 1)]
      BY <2>1, Zenon DEF Effect
    <3>2. DOMAIN Counted = Compare
      BY <1>1
    <3> QED
      BY <2>1, <3>1, <3>2, Zenon
  <2>2. CASE op # "mode"
    BY <2>2, Zenon DEF Effect
  <2> QED
    BY <2>1, <2>2
<1>3. op \notin Halves \/ c # d => PulseCount'[c] = PulseCount[c]
  <2>1. PulseCount' = [PulseCount EXCEPT ![d] =
          IF op = "countHigh" THEN High(@, n) ELSE IF op = "countLow" THEN Low(@, n) ELSE @]
    BY Zenon DEF Effect
  <2> QED
    BY <1>1, <2>1 DEF Halves
<1>4. /\ reg' = CASE op = "readCom" -> com [] op = "readMask" -> TIMSK1
                  [] op \in {"connect", "disconnect", "enable"} -> {} [] OTHER -> reg
      /\ com' = CASE op = "connect" -> reg \cup {d} [] op = "disconnect" -> reg \ {d}
                  [] OTHER -> com
      /\ TIMSK1' = IF op = "enable" THEN reg \cup {d} ELSE TIMSK1
  BY Zenon DEF Effect
<1>5. op \notin {"tear", "point"} => TimerIntFunc' = TimerIntFunc
  <2>1. TimerIntFunc' = [TimerIntFunc EXCEPT ![d] =
          IF op = "tear" /\ @ # Function(n) THEN "torn"
          ELSE IF op = "point" THEN Function(n) ELSE @]
    BY Zenon DEF Effect
  <2> QED
    BY <2>1 DEF Types, TimerTypeOK
<1>6. op # "connect" \/ c # d => (c \in stale' <=> c \in stale)
  BY Zenon DEF Effect
<1> QED
  BY <1>2, <1>3, <1>4, <1>5, <1>6

\* The next instruction, and what is left then.
LEMMA StepParts ==
  ASSUME Types, Step, NEW k \in Nat, Len(todo) = k
  PROVE  /\ k >= 1 /\ Len(todo') = k - 1 /\ todo' \in Seq(Instrs)
         /\ todo[1].op \in Ops /\ todo[1].c \in Compare /\ todo[1].n \in Tics
         /\ Effect(todo[1].op, todo[1].c, todo[1].n)
         /\ \A i \in 1 .. k - 1 : todo'[i] = todo[i + 1]
         /\ UNCHANGED <<TIFR1, edges, due>>
         /\ late' \in BOOLEAN /\ (late' => k > 1) /\ (late /\ k > 1 => late')
<1>1. todo # <<>> /\ todo' = Tail(todo) /\ UNCHANGED <<TIFR1, edges, due>>
  BY DEF Step
<1>2. /\ todo[1] \in Instrs /\ Head(todo) = todo[1] /\ todo' \in Seq(Instrs)
      /\ Len(todo') = k - 1 /\ k >= 1
      /\ \A i \in 1 .. k - 1 : todo'[i] = todo[i + 1]
  BY <1>1, TodoTypes
<1>3. Effect(todo[1].op, todo[1].c, todo[1].n)
  BY <1>2, Zenon DEF Step
<1>4. late' = (late /\ k > 1)
  BY Zenon DEF Step
<1>5. late' \in BOOLEAN
  BY <1>4
<1>6. (late' => k > 1) /\ (late /\ k > 1 => late')
  BY <1>4, Zenon
<1> QED
  BY <1>1, <1>2, <1>3, <1>5, <1>6 DEF Instrs

\* An instruction of the run's own call.
LEMMA StartingStep ==
  ASSUME Types, NEW c \in Compare, due[c] # 0, Step,
         NEW k \in 1 .. 9, Len(todo) = k, StartingAt(c, k)
  PROVE  TimerIntFunc' = TimerIntFunc /\ (Starting(c)' \/ Going(c)')
<1> DEFINE op == todo[1].op
           n == todo[1].n
<1>1. /\ Len(todo') = k - 1 /\ todo[1].c = c
      /\ op \in Ops /\ n \in Tics /\ Effect(op, c, n)
      /\ \A i \in 1 .. k - 1 : todo'[i] = todo[i + 1]
      /\ UNCHANGED <<TIFR1, edges, due>> /\ (late /\ k > 1 => late')
  <2>1. todo[1].c = c
    BY DEF StartingAt, Own
  <2>2. k \in Nat
    OBVIOUS
  <2>3. Effect(todo[1].op, todo[1].c, todo[1].n)
    BY <2>2, StepParts, Zenon
  <2>4. Effect(op, c, n)
    BY <2>1, <2>3, Zenon
  <2>5. Len(todo') = k - 1 /\ todo[1].op \in Ops /\ todo[1].n \in Tics
    BY <2>2, StepParts, Zenon
  <2>6. \A i \in 1 .. k - 1 : todo'[i] = todo[i + 1]
    BY <2>2, StepParts, Zenon
  <2>7. UNCHANGED <<TIFR1, edges, due>> /\ (late /\ k > 1 => late')
    BY <2>2, StepParts, Zenon
  <2> QED
    BY <2>1, <2>4, <2>5, <2>6, <2>7, Zenon
<1>2. /\ k = 9 => op = "mode" /\ n = 1
      /\ k \in {7, 8} => op \in Halves /\ n = due[c]
      /\ k = 6 => op = "readCom"
      /\ k = 5 => op = "connect"
      /\ k = 4 => op = "readOcr"
      /\ k = 3 => op = "setOcr"
      /\ k = 2 => op = "readMask"
      /\ k = 1 => op = "enable"
  <2>1. IF RunOps[9 - k + 1] = "count" THEN op \in Halves /\ n = due[c]
                                             ELSE op = RunOps[9 - k + 1]
    BY <1>1 DEF StartingAt, Own
  <2>2. k = 9 => n = 1
    BY DEF StartingAt
  <2> HIDE DEF op, n
  <2> QED
    BY <1>1, <2>1, <2>2 DEF RunOps
<1> HIDE DEF op, n
<1>3. op \notin {"tear", "point", "disconnect"}
  BY <1>1, <1>2 DEF Halves
<1>4. TimerIntFunc' = TimerIntFunc
  BY <1>1, <1>3, EffectFrame
<1>5. Own(c, k - 1)'
  <2>1. ASSUME NEW i \in 1 .. k - 1
        PROVE  /\ todo'[i] = todo[i + 1] /\ i + 1 \in 1 .. k
               /\ 9 - (k - 1) + i = 9 - k + (i + 1)
    BY <1>1
  <2>2. ASSUME NEW j \in 1 .. k
        PROVE  /\ todo[j].c = c
               /\ IF RunOps[9 - k + j] = "count" THEN todo[j].op \in Halves /\ todo[j].n = due[c]
                                                 ELSE todo[j].op = RunOps[9 - k + j]
    BY DEF StartingAt, Own
  <2>3. ASSUME NEW i \in 1 .. k - 1
        PROVE  /\ todo'[i].c = c
               /\ IF RunOps[9 - (k - 1) + i] = "count"
                    THEN todo'[i].op \in Halves /\ todo'[i].n = due'[c]
                    ELSE todo'[i].op = RunOps[9 - (k - 1) + i]
    <3>1. due' = due
      BY <1>1
    <3> QED
      BY <2>1, <2>2, <3>1, Zenon
  <2> QED
    BY <2>3, Zenon DEF Own
<1>6. k - 1 <= 8 => Counted'[c]
  <2>1. CASE k = 9
    <3>1. Counted' = [Counted EXCEPT ![c] = (n = 1)]
      BY <1>1, <1>2, <2>1, Zenon DEF Effect
    <3>2. n = 1 /\ c \in DOMAIN Counted
      BY <1>2, <2>1 DEF Types, DriverTypes
    <3>3. Counted'[c] = (n = 1)
      BY <3>1, <3>2, Zenon
    <3> QED
      BY <3>2, <3>3, Zenon
  <2>2. CASE k # 9
    <3>1. op # "mode" /\ Counted[c]
      BY <1>1, <1>2, <2>2 DEF Halves, StartingAt
    <3> QED
      BY <1>1, <3>1, EffectFrame
  <2> QED
    BY <2>1, <2>2
<1>7. k \notin {7, 8} => PulseCount'[c] = PulseCount[c]
  <2>1. k \notin {7, 8} => op \notin Halves
    BY <1>1, <1>2 DEF Halves
  <2> QED
    BY <1>1, <2>1, EffectFrame
<1>8. k \in {7, 8} => PulseCount'[c] = IF op = "countHigh" THEN High(PulseCount[c], due[c])
                                                                 ELSE Low(PulseCount[c], due[c])
  <2>1. PulseCount' = [PulseCount EXCEPT ![c] =
          IF op = "countHigh" THEN High(@, n) ELSE IF op = "countLow" THEN Low(@, n) ELSE @]
    BY <1>1, Zenon DEF Effect
  <2>2. c \in DOMAIN PulseCount
    BY DEF Types, DriverTypes
  <2> QED
    BY <1>2, <2>1, <2>2 DEF Halves
<1>9. /\ PulseCount[c] \in Tics /\ due[c] \in Tics /\ edges[c] \in Nat /\ due[c] \in Nat
      /\ PulseCount[c] \in Nat
  BY ChannelTypes
<1>10. ASSUME k - 1 = 7 PROVE HalfStored(c)'
  <2>1. todo'[1] = todo[2] /\ todo[2].op \in Halves /\ op \in Halves /\ op # todo[2].op
    <3>1. k = 8
      BY <1>1, <1>10
    <3>2. IF RunOps[9 - k + 2] = "count" THEN todo[2].op \in Halves /\ todo[2].n = due[c]
                                                 ELSE todo[2].op = RunOps[9 - k + 2]
      BY <3>1 DEF StartingAt, Own
    <3> QED
      BY <1>1, <1>2, <3>1, <3>2 DEF StartingAt, RunOps, op
  <2>2. CASE op = "countHigh"
    <3>1. PulseCount'[c] = High(PulseCount[c], due[c]) /\ todo'[1].op = "countLow"
      BY <1>1, <1>8, <1>10, <2>1, <2>2 DEF Halves
    <3>2. High(PulseCount[c], due[c]) \div Base = due[c] \div Base
      BY <1>9, Bytes
    <3> QED
      BY <1>1, <3>1, <3>2, Zenon DEF HalfStored
  <2>3. CASE op = "countLow"
    <3>1. PulseCount'[c] = Low(PulseCount[c], due[c]) /\ todo'[1].op = "countHigh"
      BY <1>1, <1>8, <1>10, <2>1, <2>3 DEF Halves
    <3>2. Low(PulseCount[c], due[c]) % Base = due[c] % Base
      BY <1>9, Bytes
    <3> QED
      BY <1>1, <3>1, <3>2, Zenon DEF HalfStored
  <2> QED
    BY <2>1, <2>2, <2>3 DEF Halves
<1>11. ASSUME k - 1 <= 6 PROVE PulseCount'[c] = due'[c]
  <2>1. CASE k <= 6
    BY <1>1, <1>7, <2>1 DEF StartingAt
  <2>2. CASE k = 7 /\ op = "countHigh"
    <3>1. PulseCount[c] % Base = due[c] % Base
      BY <2>2 DEF StartingAt, HalfStored, op
    <3> QED
      BY <1>1, <1>8, <1>9, <2>2, <3>1, Bytes
  <2>3. CASE k = 7 /\ op = "countLow"
    <3>1. PulseCount[c] \div Base = due[c] \div Base
      BY <2>3 DEF StartingAt, HalfStored, op
    <3> QED
      BY <1>1, <1>8, <1>9, <2>3, <3>1, Bytes
  <2> QED
    BY <1>1, <1>2, <1>11, <2>1, <2>2, <2>3 DEF Halves
<1>12. IF k - 1 <= 4 THEN c \in com' /\ edges'[c] = Flag(c)' - Earlier(c)'
                     ELSE c \notin com' /\ edges'[c] = 0
  <2>1. CASE k = 5
    <3>1. com' = reg \cup {c}
      BY <1>1, <1>2, <2>1, Zenon DEF Effect
    <3>2. stale' = IF c \in TIFR1 THEN stale \cup {c} ELSE stale \ {c}
      BY <1>1, <1>2, <2>1, Zenon DEF Effect
    <3>3. edges[c] = 0
      BY <2>1 DEF StartingAt
    <3> QED
      BY <1>1, <2>1, <3>1, <3>2, <3>3 DEF Flag, Earlier
  <2>2. CASE k # 5
    <3>1. op \notin {"connect", "disconnect"}
      BY <1>1, <1>2, <2>2 DEF Halves
    <3>2. com' = com /\ (c \in stale' <=> c \in stale)
      BY <1>1, <3>1, EffectFrame
    <3> QED
      BY <1>1, <2>2, <3>2 DEF StartingAt, Flag, Earlier
  <2> QED
    BY <2>1, <2>2
<1>13. CASE k > 1
  <2>1. TIMSK1' = TIMSK1
    <3>1. op # "enable"
      BY <1>1, <1>2, <1>13 DEF Halves
    <3> QED
      BY <1>1, <3>1, EffectFrame
  <2>2. edges'[c] \in {0, 1} /\ (edges'[c] = 1 => late' /\ c \in TIFR1') /\ c \notin TIMSK1'
    BY <1>1, <1>13, <2>1 DEF StartingAt
  <2>3. k - 1 \in 1 .. 9 /\ k - 1 # 9
    BY <1>1, <1>13
  <2>4. k - 1 = 8 => todo'[1].op # todo'[2].op
    BY <1>1 DEF StartingAt
  <2>5. StartingAt(c, k - 1)'
    BY ONLY <1>5, <1>6, <1>10, <1>11, <1>12, <2>2, <2>3, <2>4 DEF StartingAt
  <2>6. Starting(c)'
    BY <1>1, <2>3, <2>5 DEF Starting
  <2> QED
    BY <1>4, <2>6
<1>14. CASE k = 1
  <2>1. TIMSK1' = reg \cup {c}
    BY <1>1, <1>2, <1>14, Zenon DEF Effect
  <2>2. Apart(c)'
    BY <1>1, <1>14 DEF Apart
  <2>3. c \in com' /\ Counted'[c] /\ PulseCount'[c] = due[c]
    BY <1>1, <1>6, <1>11, <1>12, <1>14
  <2>4. edges'[c] = Flag(c)' - Earlier(c)'
    BY <1>12, <1>14
  <2>5. Going(c)'
    BY <1>1, <1>9, <2>1, <2>2, <2>3, <2>4 DEF Going, Flag, Earlier
  <2> QED
    BY <1>4, <2>5
<1> QED
  BY <1>1, <1>13, <1>14

\* An instruction of another call.
LEMMA GoingStep ==
  ASSUME Types, NEW c \in Compare, Going(c), Step
  PROVE  TimerIntFunc' = TimerIntFunc /\ Going(c)'
<1> DEFINE op == todo[1].op
           d == todo[1].c
           n == todo[1].n
<1>1. /\ Len(todo) \in Nat \ {0} /\ Len(todo') = Len(todo) - 1
      /\ op \in Ops /\ d \in Compare /\ n \in Tics /\ Effect(op, d, n)
      /\ \A i \in 1 .. Len(todo) - 1 : todo'[i] = todo[i + 1]
      /\ UNCHANGED <<TIFR1, edges, due>>
  <2>1. PICK k \in Nat : Len(todo) = k
    BY DEF Types, CallTypes
  <2>2. k >= 1 /\ Len(todo') = k - 1 /\ op \in Ops /\ d \in Compare /\ n \in Tics
    BY <2>1, StepParts, Zenon
  <2>3. Effect(op, d, n)
    BY <2>1, StepParts, Zenon
  <2>4. \A i \in 1 .. k - 1 : todo'[i] = todo[i + 1]
    BY <2>1, StepParts, Zenon
  <2>5. UNCHANGED <<TIFR1, edges, due>>
    BY <2>1, StepParts, Zenon
  <2>6. Len(todo) \in Nat \ {0}
    BY <2>1, <2>2
  <2> QED
    BY <2>1, <2>2, <2>3, <2>4, <2>5, <2>6, Zenon
<1>2. /\ op \notin {"disconnect", "tear", "point"}
      /\ d = c => op \in {"periodHigh", "periodLow"}
      /\ op \in {"connect", "enable"} => c \in reg
  BY <1>1 DEF Going, Apart
<1>3. TimerIntFunc' = TimerIntFunc /\ Counted'[c] = Counted[c] /\ PulseCount'[c] = PulseCount[c]
  <2>1. (op # "mode" \/ c # d) /\ (op \notin Halves \/ c # d)
    BY <1>2 DEF Halves
  <2> HIDE DEF op, d, n
  <2> QED
    BY <1>1, <1>2, <2>1, EffectFrame
<1>4. c \in com'
  <2>1. CASE op = "connect"
    <3>1. com' = reg \cup {d}
      BY <1>1, <2>1, Zenon DEF Effect
    <3> QED
      BY <1>2, <2>1, <3>1
  <2>2. CASE op # "connect"
    <3> HIDE DEF op, d, n
    <3>1. com' = com
      BY <1>1, <1>2, <2>2, EffectFrame
    <3> QED
      BY <3>1 DEF Going
  <2> QED
    BY <2>1, <2>2
<1>5. c \in TIMSK1'
  <2>1. CASE op = "enable"
    <3>1. TIMSK1' = reg \cup {d}
      BY <1>1, <2>1, Zenon DEF Effect
    <3> QED
      BY <1>2, <2>1, <3>1
  <2>2. CASE op # "enable"
    <3> HIDE DEF op, d, n
    <3>1. TIMSK1' = TIMSK1
      BY <1>1, <2>2, EffectFrame
    <3> QED
      BY <3>1 DEF Going
  <2> QED
    BY <2>1, <2>2
<1>6. op \in {"readCom", "readMask"} => c \in reg'
  <2>1. c \in com /\ c \in TIMSK1
    BY DEF Going
  <2> HIDE DEF op, d, n
  <2> QED
    BY <1>1, <2>1, EffectFrame
<1>7. ASSUME NEW i \in 1 .. Len(todo')
      PROVE  /\ todo'[i].op \notin {"disconnect", "tear", "point"}
             /\ todo'[i].c = c => todo'[i].op \in {"periodHigh", "periodLow"}
             /\ todo'[i].op = "connect" => IF i = 1 THEN c \in reg' ELSE todo'[i - 1].op = "readCom"
             /\ todo'[i].op = "enable" => IF i = 1 THEN c \in reg' ELSE todo'[i - 1].op = "readMask"
  <2>1. todo'[i] = todo[i + 1] /\ i + 1 \in 1 .. Len(todo) /\ i + 1 # 1 /\ (i + 1) - 1 = i
    BY <1>1
  <2>2. /\ todo[i + 1].op \notin {"disconnect", "tear", "point"}
        /\ todo[i + 1].c = c => todo[i + 1].op \in {"periodHigh", "periodLow"}
        /\ todo[i + 1].op = "connect" => todo[i].op = "readCom"
        /\ todo[i + 1].op = "enable" => todo[i].op = "readMask"
    BY <2>1 DEF Going, Apart
  <2>3. i # 1 => todo'[i - 1] = todo[i]
    BY <1>1
  <2> QED
    BY <1>6, <2>1, <2>2, <2>3
<1>9. c \in stale' <=> c \in stale
  <2>1. op # "connect" \/ c # d
    BY <1>2
  <2> HIDE DEF op, d, n
  <2> QED
    BY <1>1, <2>1, EffectFrame
<1>8. Going(c)'
  BY <1>1, <1>3, <1>4, <1>5, <1>7, <1>9 DEF Going, Apart, Flag, Earlier
<1> QED
  BY <1>3, <1>8

\* An instruction.
LEMMA TrackedStep == ASSUME IInv, Step, NEW c \in Compare PROVE Tracked(c)'
<1> SUFFICES ASSUME due'[c] # 0 PROVE Tracked(c)'
  BY DEF Tracked
<1>1. due[c] # 0 /\ Types
  BY DEF Step, IInv
<1>2. TimerIntFunc[c] = "pulseService" /\ (Starting(c) \/ Going(c))
  BY <1>1 DEF IInv, Tracked
<1>3. TimerIntFunc' = TimerIntFunc /\ (Starting(c)' \/ Going(c)')
  <2>1. CASE Starting(c)
    <3>1. PICK k \in 1 .. 9 : Len(todo) = k /\ StartingAt(c, k)
      BY <2>1 DEF Starting
    <3> QED
      BY <1>1, <3>1, StartingStep
  <2> QED
    BY <1>1, <1>2, <2>1, GoingStep
<1> QED
  BY <1>2, <1>3 DEF Tracked

\* A call does nothing but leave its instructions to be executed.
LEMMA CallFrame ==
  ASSUME NEW name, NEW code, Call(name, code)
  PROVE  /\ todo = <<>> /\ todo' = code
         /\ UNCHANGED <<Counted, PulseCount, com, reg, late, TIMSK1, TIFR1, TimerIntFunc>>
BY DEF Call, timervars, pulses

\* A call that leaves a channel apart, and its ghosts, keeps its run.
LEMMA ApartCall ==
  ASSUME IInv, NEW c \in Compare, todo = <<>>, Apart(c)', edges'[c] = edges[c], due'[c] = due[c], stale' = stale,
         UNCHANGED <<Counted, PulseCount, com, reg, late, TIMSK1, TIFR1, TimerIntFunc>>
  PROVE  Tracked(c)'
<1>1. ASSUME due[c] # 0 PROVE TimerIntFunc[c] = "pulseService" /\ Going(c)
  <2>1. ~Starting(c)
    BY DEF Starting
  <2> QED
    BY <1>1, <2>1 DEF IInv, Tracked
<1> QED
  BY <1>1 DEF Tracked, Going, Flag, Earlier

LEMMA Appended ==
  ASSUME NEW S, NEW s \in Seq(S), NEW a \in S, NEW m \in Nat, NEW k, k = m + 1, Len(s) = m
  PROVE  /\ Append(s, a) \in Seq(S) /\ Len(Append(s, a)) = k
         /\ Append(s, a)[k] = a /\ \A i \in 1 .. m : Append(s, a)[i] = s[i]
OBVIOUS

LEMMA Concat9 ==
  ASSUME NEW S, NEW a \in S, NEW b1 \in S, NEW b2 \in S, NEW c1 \in S, NEW c2 \in S,
         NEW d1 \in S, NEW d2 \in S, NEW d3 \in S, NEW d4 \in S
  PROVE  LET s == <<a>> \o <<b1, b2>> \o <<c1, c2>> \o <<d1, d2, d3, d4>>
         IN  /\ Len(s) = 9 /\ s[1] = a /\ s[2] = b1 /\ s[3] = b2 /\ s[4] = c1 /\ s[5] = c2
             /\ s[6] = d1 /\ s[7] = d2 /\ s[8] = d3 /\ s[9] = d4
<1> DEFINE s1 == <<a>>
           s2 == Append(s1, b1)
           s3 == Append(s2, b2)
           s4 == Append(s3, c1)
           s5 == Append(s4, c2)
           s6 == Append(s5, d1)
           s7 == Append(s6, d2)
           s8 == Append(s7, d3)
           s9 == Append(s8, d4)
           s == s1 \o <<b1, b2>> \o <<c1, c2>> \o <<d1, d2, d3, d4>>
<1>0. /\ s2 = Append(s1, b1) /\ s3 = Append(s2, b2) /\ s4 = Append(s3, c1) /\ s5 = Append(s4, c2)
      /\ s6 = Append(s5, d1) /\ s7 = Append(s6, d2) /\ s8 = Append(s7, d3) /\ s9 = Append(s8, d4)
  OBVIOUS
<1>1. s1 \in Seq(S) /\ Len(s1) = 1 /\ s1[1] = a
  OBVIOUS
<1> HIDE DEF s1, s2, s3, s4, s5, s6, s7, s8, s9
<1>2. /\ s2 \in Seq(S) /\ Len(s2) = 2
      /\ s2[1] = a /\ s2[2] = b1
  <2>1. s2 = Append(s1, b1)
    BY <1>0
  <2> QED
    BY <1>1, <2>1, Appended
<1>3. /\ s3 \in Seq(S) /\ Len(s3) = 3
      /\ s3[1] = a /\ s3[2] = b1 /\ s3[3] = b2
  <2>1. s3 = Append(s2, b2)
    BY <1>0
  <2> QED
    BY <1>2, <2>1, Appended
<1>4. /\ s4 \in Seq(S) /\ Len(s4) = 4
      /\ s4[1] = a /\ s4[2] = b1 /\ s4[3] = b2 /\ s4[4] = c1
  <2>1. s4 = Append(s3, c1)
    BY <1>0
  <2> QED
    BY <1>3, <2>1, Appended
<1>5. /\ s5 \in Seq(S) /\ Len(s5) = 5
      /\ s5[1] = a /\ s5[2] = b1 /\ s5[3] = b2 /\ s5[4] = c1 /\ s5[5] = c2
  <2>1. s5 = Append(s4, c2)
    BY <1>0
  <2>2. s4 \in Seq(S) /\ Len(s4) = 4 /\ 5 = 4 + 1 /\ 4 \in Nat
    BY <1>4
  <2>3. /\ s5 \in Seq(S) /\ Len(s5) = 5 /\ s5[5] = c2
        /\ \A i \in 1 .. 4 : s5[i] = s4[i]
    BY <2>1, <2>2, Appended
  <2> QED
    BY <1>4, <2>3
<1>6. /\ s6 \in Seq(S) /\ Len(s6) = 6
      /\ s6[1] = a /\ s6[2] = b1 /\ s6[3] = b2 /\ s6[4] = c1 /\ s6[5] = c2
      /\ s6[6] = d1
  <2>1. s6 = Append(s5, d1)
    BY <1>0
  <2>2. s5 \in Seq(S) /\ Len(s5) = 5 /\ 6 = 5 + 1 /\ 5 \in Nat
    BY <1>5
  <2>3. /\ s6 \in Seq(S) /\ Len(s6) = 6 /\ s6[6] = d1
        /\ \A i \in 1 .. 5 : s6[i] = s5[i]
    BY <2>1, <2>2, Appended
  <2> QED
    BY <1>5, <2>3
<1>7. /\ s7 \in Seq(S) /\ Len(s7) = 7
      /\ s7[1] = a /\ s7[2] = b1 /\ s7[3] = b2 /\ s7[4] = c1 /\ s7[5] = c2
      /\ s7[6] = d1 /\ s7[7] = d2
  <2>1. s7 = Append(s6, d2)
    BY <1>0
  <2>2. s6 \in Seq(S) /\ Len(s6) = 6 /\ 7 = 6 + 1 /\ 6 \in Nat
    BY <1>6
  <2>3. /\ s7 \in Seq(S) /\ Len(s7) = 7 /\ s7[7] = d2
        /\ \A i \in 1 .. 6 : s7[i] = s6[i]
    BY <2>1, <2>2, Appended
  <2> QED
    BY <1>6, <2>3
<1>8. /\ s8 \in Seq(S) /\ Len(s8) = 8
      /\ s8[1] = a /\ s8[2] = b1 /\ s8[3] = b2 /\ s8[4] = c1 /\ s8[5] = c2
      /\ s8[6] = d1 /\ s8[7] = d2 /\ s8[8] = d3
  <2>1. s8 = Append(s7, d3)
    BY <1>0
  <2>2. s7 \in Seq(S) /\ Len(s7) = 7 /\ 8 = 7 + 1 /\ 7 \in Nat
    BY <1>7
  <2>3. /\ s8 \in Seq(S) /\ Len(s8) = 8 /\ s8[8] = d3
        /\ \A i \in 1 .. 7 : s8[i] = s7[i]
    BY <2>1, <2>2, Appended
  <2> QED
    BY <1>7, <2>3
<1>9. /\ s9 \in Seq(S) /\ Len(s9) = 9
      /\ s9[1] = a /\ s9[2] = b1 /\ s9[3] = b2 /\ s9[4] = c1 /\ s9[5] = c2
      /\ s9[6] = d1 /\ s9[7] = d2 /\ s9[8] = d3 /\ s9[9] = d4
  <2>1. s9 = Append(s8, d4)
    BY <1>0
  <2>2. s8 \in Seq(S) /\ Len(s8) = 8 /\ 9 = 8 + 1 /\ 8 \in Nat
    BY <1>8
  <2>3. /\ s9 \in Seq(S) /\ Len(s9) = 9 /\ s9[9] = d4
        /\ \A i \in 1 .. 8 : s9[i] = s8[i]
    BY <2>1, <2>2, Appended
  <2> QED
    BY <1>8, <2>3
<1>10. s = s9
  <2>1. ASSUME NEW t \in Seq(S) PROVE t \o <<b1, b2>> = Append(Append(t, b1), b2)
    OBVIOUS
  <2>2. ASSUME NEW t \in Seq(S) PROVE t \o <<c1, c2>> = Append(Append(t, c1), c2)
    OBVIOUS
  <2>3. ASSUME NEW t \in Seq(S)
        PROVE  t \o <<d1, d2, d3, d4>> = Append(Append(Append(Append(t, d1), d2), d3), d4)
    OBVIOUS
  <2>4. s1 \o <<b1, b2>> = s3 /\ s3 \o <<c1, c2>> = s5 /\ s5 \o <<d1, d2, d3, d4>> = s9
    BY <1>1, <1>3, <1>5, <1>0, <2>1, <2>2, <2>3, Zenon
  <2> QED
    BY <2>4, Zenon DEF s1
<1> HIDE DEF s
<1> QED
  BY <1>9, <1>10, Zenon DEF s, s1

\* The instructions of a run.
LEMMA RunInstrs ==
  ASSUME NEW d \in Compare, NEW n \in Counts, NEW m \in Tics, NEW stores \in CountStores(d, m),
         todo' = RunCode(d, n, stores)
  PROVE  /\ Len(todo') = 9
         /\ todo'[1].n = (IF n = 0 THEN 0 ELSE 1) /\ todo'[2].op # todo'[3].op
         /\ \A i \in 1 .. 9 :
              /\ todo'[i].c = d
              /\ IF RunOps[i] = "count" THEN todo'[i].op \in Halves /\ todo'[i].n = m
                                        ELSE todo'[i].op = RunOps[i]
<1> DEFINE mode == IF n = 0 THEN 0 ELSE 1
<1>1. /\ stores = <<stores[1], stores[2]>> /\ stores[1] \in Instrs /\ stores[2] \in Instrs
      /\ \A i \in 1 .. 2 : stores[i].op \in Halves /\ stores[i].c = d /\ stores[i].n = m
      /\ stores[1].op # stores[2].op
  <2>1. \A op \in Halves : Instr(op, d, m) \in Instrs
    BY InstrType DEF Ops, Halves
  <2> QED
    BY <2>1 DEF CountStores, Stores, Instr, Halves
<1>2. 0 \in Tics /\ mode \in Tics
  BY Sizes DEF Tics
<1> HIDE DEF mode
<1>3. \A op \in Ops : Instr(op, d, 0) \in Instrs /\ Instr(op, d, mode) \in Instrs
  BY <1>2, InstrType
<1>4. /\ Len(todo') = 9 /\ todo'[1] = Instr("mode", d, mode)
      /\ todo'[2] = stores[1] /\ todo'[3] = stores[2]
      /\ todo'[4] = Instr("readCom", d, 0) /\ todo'[5] = Instr("connect", d, 0)
      /\ todo'[6] = Instr("readOcr", d, 0) /\ todo'[7] = Instr("setOcr", d, 0)
      /\ todo'[8] = Instr("readMask", d, 0) /\ todo'[9] = Instr("enable", d, 0)
  <2>1. todo' = <<Instr("mode", d, mode)>> \o <<stores[1], stores[2]>>
                  \o <<Instr("readCom", d, 0), Instr("connect", d, 0)>>
                  \o <<Instr("readOcr", d, 0), Instr("setOcr", d, 0),
                       Instr("readMask", d, 0), Instr("enable", d, 0)>>
    BY <1>1, Zenon DEF RunCode, Connect, mode
  <2>2. {"mode", "readCom", "connect", "readOcr", "setOcr", "readMask", "enable"} \subseteq Ops
    BY DEF Ops
  <2> QED
    BY <1>1, <1>3, <2>1, <2>2, Concat9
<1>5. todo'[1].n = mode /\ todo'[2].op # todo'[3].op
  BY <1>1, <1>4 DEF Instr
<1>6. ASSUME NEW i \in 1 .. 9
      PROVE  /\ todo'[i].c = d
             /\ IF RunOps[i] = "count" THEN todo'[i].op \in Halves /\ todo'[i].n = m
                                       ELSE todo'[i].op = RunOps[i]
  <2>1. i \in {2, 3} \/ i \in {1, 4, 5, 6, 7, 8, 9}
    OBVIOUS
  <2>2. CASE i \in {2, 3}
    BY <1>1, <1>4, <2>2 DEF RunOps, Halves
  <2>3. CASE i \in {1, 4, 5, 6, 7, 8, 9}
    BY <1>4, <2>3 DEF RunOps, Instr
  <2> QED
    BY <2>1, <2>2, <2>3
<1> QED
  BY <1>4, <1>5, <1>6 DEF mode

\* A run of another channel, or on a channel whose run is not tracked then.
LEMMA TrackedRun ==
  ASSUME IInv, NEW d \in Compare, NEW n \in Counts, pulseT1Run(d, n), NEW c \in Compare
  PROVE  Tracked(c)'
<1> SUFFICES ASSUME due'[c] # 0 PROVE Tracked(c)'
  BY DEF Tracked
<1>1. PICK stores \in CountStores(d, IF n = 0 THEN 2 ELSE 2 * n) :
        Call("Run", RunCode(d, n, stores))
  BY DEF pulseT1Run
<1>2. /\ todo = <<>> /\ todo' = RunCode(d, n, stores)
      /\ UNCHANGED <<Counted, PulseCount, com, reg, late, TIMSK1, TIFR1, TimerIntFunc>>
  BY <1>1, CallFrame
<1>3. /\ edges \in [Compare -> Nat] /\ due \in [Compare -> Tics] /\ n \in Nat
      /\ TimerIntFunc[d] = "pulseService"
      /\ edges' = [edges EXCEPT ![d] = 0] /\ stale' = stale
      /\ due' = [due EXCEPT ![d] = IF d \in com \cup TIMSK1 THEN 0 ELSE 2 * n]
  BY DoubleTics DEF IInv, Types, DriverTypes, pulseT1Run
<1>4. (IF n = 0 THEN 2 ELSE 2 * n) \in Tics
  BY DoubleTics, Sizes DEF Tics
<1>5. /\ Len(todo') = 9
      /\ todo'[1].n = (IF n = 0 THEN 0 ELSE 1) /\ todo'[2].op # todo'[3].op
      /\ \A i \in 1 .. 9 :
           /\ todo'[i].c = d
           /\ IF RunOps[i] = "count"
              THEN todo'[i].op \in Halves /\ todo'[i].n = (IF n = 0 THEN 2 ELSE 2 * n)
              ELSE todo'[i].op = RunOps[i]
  BY <1>2, <1>4, RunInstrs
<1>6. CASE c = d
  <2>1. c \notin com /\ c \notin TIMSK1 /\ due'[c] = 2 * n /\ n # 0 /\ edges'[c] = 0
    BY <1>3, <1>6
  <2>2. Own(c, 9)'
    <3>1. \A i \in 1 .. 9 : 9 - 9 + i = i
      OBVIOUS
    <3> QED
      BY <1>6, <1>5, <2>1, <3>1 DEF Own
  <2>3. StartingAt(c, 9)'
    BY <1>2, <1>5, <2>1, <2>2 DEF StartingAt, Flag, Earlier
  <2>4. Starting(c)'
    BY <1>5, <2>3 DEF Starting
  <2> QED
    BY <1>2, <1>3, <1>6, <2>4 DEF Tracked
<1>7. CASE c # d
  <2>1. edges'[c] = edges[c] /\ due'[c] = due[c] /\ stale' = stale
    BY <1>3, <1>7
  <2>2. Apart(c)'
    <3> SUFFICES ASSUME NEW i \in 1 .. 9
                 PROVE  /\ todo'[i].op \notin {"disconnect", "tear", "point"}
                        /\ todo'[i].c # c
                        /\ todo'[i].op = "connect" => i = 5
                        /\ todo'[i].op = "enable" => i = 9
                        /\ todo'[4].op = "readCom" /\ todo'[8].op = "readMask"
      BY <1>5 DEF Apart
    <3>1. todo'[4].op = "readCom" /\ todo'[8].op = "readMask"
      BY <1>5 DEF RunOps
    <3>2. todo'[i].op \in Halves \/ todo'[i].op = RunOps[i]
      BY <1>5
    <3>3. /\ RunOps[i] \notin {"disconnect", "tear", "point"}
          /\ RunOps[i] = "connect" => i = 5
          /\ RunOps[i] = "enable" => i = 9
      BY DEF RunOps
    <3> QED
      BY <1>7, <1>5, <3>1, <3>2, <3>3 DEF Halves
  <2> QED
    BY <1>2, <2>1, <2>2, ApartCall
<1> QED
  BY <1>6, <1>7

\* A stop of the channel ends the tracking of its run.
LEMMA TrackedStop ==
  ASSUME IInv, NEW d \in Compare, pulseT1Stop(d), NEW c \in Compare
  PROVE  Tracked(c)'
<1> SUFFICES ASSUME due'[c] # 0 PROVE Tracked(c)'
  BY DEF Tracked
<1>1. PICK stores \in CountStores(d, 0) : Call("Stop", <<Instr("mode", d, 1)>> \o stores)
  BY DEF pulseT1Stop
<1>2. /\ todo = <<>> /\ todo' = <<Instr("mode", d, 1)>> \o stores
      /\ UNCHANGED <<Counted, PulseCount, com, reg, late, TIMSK1, TIFR1, TimerIntFunc>>
  BY <1>1, CallFrame
<1>3. c # d /\ edges'[c] = edges[c] /\ due'[c] = due[c] /\ stale' = stale
  BY DEF IInv, Types, DriverTypes, pulseT1Stop
<1>4. Apart(c)'
  <2>1. 0 \in Tics /\ 1 \in Tics
    BY Sizes DEF Tics
  <2>2. PICK a \in Instrs, b1 \in Instrs, b2 \in Instrs :
          /\ todo' = <<a>> \o <<b1, b2>>
          /\ a.op = "mode" /\ {b1.op, b2.op} = Halves /\ a.c = d /\ b1.c = d /\ b2.c = d
    <3>1. /\ Instr("mode", d, 1) \in Instrs /\ Instr("countHigh", d, 0) \in Instrs
          /\ Instr("countLow", d, 0) \in Instrs
      BY <2>1, InstrType DEF Ops
    <3> QED
      BY <1>2, <3>1 DEF CountStores, Stores, Instr, Halves
  <2>3. todo' = Append(Append(<<a>>, b1), b2)
    BY <2>2
  <2>4. Len(todo') = 3 /\ todo'[1] = a /\ todo'[2] = b1 /\ todo'[3] = b2
    <3> DEFINE s == <<a>>
               t == Append(s, b1)
    <3>1. s \in Seq(Instrs) /\ Len(s) = 1 /\ s[1] = a
      OBVIOUS
    <3> HIDE DEF s
    <3>2. t = Append(s, b1) /\ todo' = Append(t, b2)
      BY <2>3 DEF s
    <3> HIDE DEF t
    <3>3. t \in Seq(Instrs) /\ Len(t) = 2 /\ t[1] = a /\ t[2] = b1
      BY <3>1, <3>2, Appended
    <3> QED
      BY <3>2, <3>3, Appended
  <2>5. ASSUME NEW i \in 1 .. Len(todo')
        PROVE  todo'[i].op \in {"mode", "countHigh", "countLow"} /\ todo'[i].c # c
    <3>1. i \in {1, 2, 3}
      BY <2>4
    <3> QED
      BY <1>3, <2>2, <2>4, <3>1 DEF Halves
  <2> QED
    BY <2>5 DEF Apart
<1> QED
  BY <1>2, <1>3, <1>4, ApartCall

\* The half period can be set while the run goes.
LEMMA TrackedSetFreq ==
  ASSUME IInv, NEW d \in Compare, NEW tics \in Periods, pulseT1SetFreq(d, tics), NEW c \in Compare
  PROVE  Tracked(c)'
<1>1. PICK stores \in Stores("periodHigh", "periodLow", d, tics) : Call("SetFreq", stores)
  BY DEF pulseT1SetFreq
<1>2. /\ todo = <<>> /\ todo' = stores
      /\ UNCHANGED <<Counted, PulseCount, com, reg, late, TIMSK1, TIFR1, TimerIntFunc>>
  BY <1>1, CallFrame
<1>3. edges' = edges /\ due' = due /\ stale' = stale
  BY DEF pulseT1SetFreq, ghost
<1>4. Len(todo') = 2 /\ \A i \in 1 .. 2 : todo'[i].op \in {"periodHigh", "periodLow"}
  BY <1>2 DEF Stores, Instr
<1>5. Apart(c)'
  BY <1>4 DEF Apart
<1> QED
  BY <1>2, <1>3, <1>5, ApartCall

LEMMA IInvNext == IInv /\ [Next]_vars => IInv'
<1> SUFFICES ASSUME IInv, [Next]_vars PROVE IInv'
  OBVIOUS
<1>1. Types'
  BY TypesNext DEF IInv
<1>2. \A c \in Compare : Tracked(c)'
  <2> SUFFICES ASSUME NEW c \in Compare PROVE Tracked(c)'
    OBVIOUS
  <2>1. CASE pulseT1Off
    <3>1. due'[c] = 0
      BY <2>1 DEF pulseT1Off
    <3> QED
      BY <3>1 DEF Tracked
  <2>2. CASE pulseT1Init
    <3>1. due'[c] = 0
      BY <2>2 DEF pulseT1Init
    <3> QED
      BY <3>1 DEF Tracked
  <2>3. CASE UNCHANGED vars
    BY <2>3, TrackedSame DEF vars
  <2> QED
    BY <2>1, <2>2, <2>3, TrackedTic, TrackedStep, TrackedService, TrackedRun, TrackedStop,
       TrackedSetFreq DEF Next
<1>3. todo' = <<>> => ~late'
  <2> SUFFICES ASSUME todo' = <<>> PROVE ~late'
    OBVIOUS
  <2>1. CASE Tic
    BY <2>1, Zenon DEF Tic
  <2>2. CASE Step
    <3>1. PICK k \in Nat : Len(todo) = k
      BY DEF IInv, Types, CallTypes
    <3>2. /\ Len(todo') = k - 1 /\ todo' \in Seq(Instrs) /\ (late' => k > 1)
      BY <2>2, <3>1, StepParts DEF IInv
    <3>3. k - 1 = 0
      BY <3>2
    <3>4. ~(k > 1)
      BY <3>3
    <3> QED
      BY <3>2, <3>4, Zenon
  <2>3. CASE UNCHANGED <<todo, late>>
    BY <2>3 DEF IInv
  <2>4. ASSUME NEW name, NEW code, Call(name, code) PROVE ~late'
    BY <2>4, CallFrame DEF IInv
  <2>5. CASE \E c \in Compare : pulseService(c) \/ Unserved(c) \/ Torn(c)
    BY <2>3, <2>5 DEF pulseService, Unserved, Torn, program
  <2>6. CASE UNCHANGED vars
    BY <2>3, <2>6 DEF vars, program
  <2> QED
    BY <2>1, <2>2, <2>4, <2>5, <2>6, Zenon DEF Next, pulseT1Run, pulseT1Stop, pulseT1SetFreq,
       pulseT1Off, pulseT1Init
<1> QED
  BY <1>1, <1>2, <1>3 DEF IInv

\* The pin of a tracked run is disconnected by its channel's interrupt only, when
\* the count is 0.
LEMMA EndOfRun ==
  ASSUME IInv, [Next]_vars, NEW c \in Compare, c \in com, c \notin com', due[c] # 0
  PROVE  edges[c] = Put(c)
<1>1. TimerIntFunc[c] = "pulseService" /\ (Starting(c) \/ Going(c)) /\ Types
  BY DEF IInv, Tracked
<1>2. com' # com
  OBVIOUS
<1>3. CASE Step
  <2>1. CASE Going(c)
    BY <1>1, <1>3, <2>1, GoingStep DEF Going
  <2>2. CASE Starting(c)
    <3>1. PICK k \in 1 .. 9 : Len(todo) = k /\ StartingAt(c, k)
      BY <2>2 DEF Starting
    <3>2. k <= 4
      BY <3>1 DEF StartingAt
    <3>3. todo[1].op \in {"readOcr", "setOcr", "readMask", "enable"}
      BY <3>1, <3>2 DEF StartingAt, Own, RunOps
    <3>4. com' = com
      BY <1>1, <1>3, <3>1, <3>3, StepParts, EffectFrame
    <3> QED
      BY <1>2, <3>4
  <2> QED
    BY <1>1, <2>1, <2>2
<1>4. CASE \E d \in Compare : pulseService(d)
  <2>1. PICK d \in Compare : pulseService(d)
    BY <1>4
  <2>2. c = d /\ ~Requested(c)
    BY <2>1 DEF pulseService, Continue, Finish
  <2>3. c \in TIFR1 /\ c \in TIMSK1 /\ PulseCount[c] = 0
    BY <2>1, <2>2 DEF pulseService, Runs, Pending, Requested
  <2>4. Going(c)
    BY <1>1, <2>3 DEF Starting, StartingAt
  <2>5. edges[c] \in Nat /\ due[c] \in Nat
    BY <1>1, ChannelTypes
  <2> QED
    BY <2>3, <2>4, <2>5 DEF Going, Flag, Earlier, Put
<1>5. CASE ~Step /\ ~\E d \in Compare : pulseService(d)
  BY <1>2, <1>5 DEF Next, Tic, Unserved, Torn, pulseT1Run, pulseT1Stop, pulseT1SetFreq, pulseT1Off,
     pulseT1Init, Call, vars
<1> QED
  BY <1>3, <1>4, <1>5

\* A run of n pulses that began on an idle channel puts 2n + 1 edges on the pin,
\* or 2n when it counted a match from before its first edge, whatever the
\* frequency is set to meanwhile.
THEOREM PulsesAreOut == Spec => PulsesOut
<1>1. IInv /\ [Next]_vars =>
        [\A c \in Compare :
           c \in com /\ c \notin com' /\ due[c] # 0 => edges[c] = Put(c)]_vars
  BY EndOfRun
<1> QED
  BY <1>1, InitIInv, IInvNext, PTL DEF Spec, PulsesOut
=============================================================================
