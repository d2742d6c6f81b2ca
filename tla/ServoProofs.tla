---------------------------- MODULE ServoProofs ----------------------------
(***************************************************************************)
(* Proofs about the servo driver: its types, which pins are high, and the  *)
(* lengths of pulses and periods, for every number of channels, limit,     *)
(* position and timer size that ServoAssumption allows.                    *)
(***************************************************************************)
EXTENDS Servo, TLAPS

\* After a time shorter than a round of the counter, or one round.
LEMMA AfterCases ==
  ASSUME NEW x \in Tics, NEW n \in 0 .. TimerSize
  PROVE  After(x, n) = IF x + n < TimerSize THEN x + n ELSE x + n - TimerSize
<1>1. TimerSize \in Nat \ {0}
  BY TimerAssumption
<1>2. ASSUME NEW T \in Nat \ {0}, NEW y \in 0 .. T - 1, NEW k \in 0 .. T
      PROVE  (y + k) % T = IF y + k < T THEN y + k ELSE y + k - T
  BY Z3
<1> QED
  BY <1>1, <1>2 DEF After, Tics

LEMMA AfterTics ==
  ASSUME NEW x \in Nat, NEW n \in Nat
  PROVE  After(x, n) \in Tics
<1>1. TimerSize \in Nat \ {0}
  BY TimerAssumption
<1>2. ASSUME NEW T \in Nat \ {0}, NEW y \in Nat PROVE y % T \in 0 .. T - 1
  BY Z3
<1>3. x + n \in Nat
  OBVIOUS
<1> QED
  BY <1>1, <1>2, <1>3 DEF After, Tics

\* The constants as plain numbers.
LEMMA Numbers ==
  /\ SERVO_NUM_CHANNELS \in 1 .. 8
  /\ SERVO_MIN \in Nat \ {0} /\ SERVO_MAX \in Nat /\ SERVO_MIN <= SERVO_MAX
  /\ ServoPeriodTics \in Nat /\ ServoPeriodTics = 9 * SERVO_MAX
  /\ TimerSize \in Nat /\ ServoPeriodTics < TimerSize
  /\ Compare = {"A"} /\ Sources = {"A", "CAPT"}
BY ServoAssumption, TimerAssumption DEF ServoPeriodTics, Sources

\* bind to limits
LEMMA BoundInLimits ==
  ASSUME NEW position \in Nat
  PROVE  Bound(position) \in SERVO_MIN .. SERVO_MAX
BY Numbers DEF Bound

LEMMA ScaledIsPosition ==
  ASSUME NEW position \in Scaled
  PROVE  After((position * (SERVO_MAX - SERVO_MIN)) \div SERVO_POSITION_MAX, SERVO_MIN) \in Nat
<1>1. position \in Nat /\ SERVO_MAX - SERVO_MIN \in Nat /\ SERVO_POSITION_MAX \in Nat \ {0}
  BY Numbers, ServoAssumption
<1>2. ASSUME NEW a \in Nat, NEW b \in Nat, NEW c \in Nat \ {0} PROVE (a * b) \div c \in Nat
  <2>1. ASSUME NEW d \in Nat PROVE d \div c \in Nat
    BY Z3
  <2>2. a * b \in Nat
    BY Z3
  <2> QED
    BY <2>1, <2>2
<1>3. (position * (SERVO_MAX - SERVO_MIN)) \div SERVO_POSITION_MAX \in Nat
  BY <1>1, <1>2
<1> DEFINE x == (position * (SERVO_MAX - SERVO_MIN)) \div SERVO_POSITION_MAX
<1>4. After(x, SERVO_MIN) \in Tics
  <2>1. x \in Nat /\ SERVO_MIN \in Nat
    BY <1>3, Numbers
  <2> HIDE DEF x
  <2> QED
    BY <2>1, AfterTics
<1> QED
  BY <1>4, Numbers DEF Tics

-----------------------------------------------------------------------------
\* How far the counter is from the compare register: no tics when the flag is
\* up, and a round of the counter at most.
Due(r) ==
  /\ r \in 0 .. TimerSize
  /\ OCR1["A"] = IF TCNT1 + r < TimerSize THEN TCNT1 + r ELSE TCNT1 + r - TimerSize
  /\ r = 0 <=> "A" \in TIFR1

\* Some time is left whenever the flag is down.
LEMMA DueExists ==
  ASSUME TCNT1 \in Tics, OCR1["A"] \in Tics, "A" \notin TIFR1
  PROVE  \E r \in Nat : Due(r)
<1> DEFINE ahead == OCR1["A"] - TCNT1
           r == IF ahead > 0 THEN ahead ELSE ahead + TimerSize
<1>0. TimerSize \in Nat \ {0}
  BY TimerAssumption
<1>1. r \in 1 .. TimerSize
  BY <1>0 DEF Tics
<1>2. OCR1["A"] = IF TCNT1 + r < TimerSize THEN TCNT1 + r ELSE TCNT1 + r - TimerSize
  BY <1>0 DEF Tics
<1> HIDE DEF r
<1>3. SUFFICES ASSUME NEW k \in 1 .. TimerSize,
                      OCR1["A"] = IF TCNT1 + k < TimerSize THEN TCNT1 + k ELSE TCNT1 + k - TimerSize
               PROVE  \E j \in Nat : Due(j)
  BY <1>1, <1>2
<1>4. Due(k) /\ k \in Nat
  BY <1>0, <1>3 DEF Due
<1> QED
  BY <1>4

LEMMA DueExistsNext ==
  ASSUME TCNT1' \in Tics, OCR1'["A"] \in Tics, "A" \notin TIFR1'
  PROVE  \E r \in Nat : Due(r)'
<1>1. (TCNT1 \in Tics /\ OCR1["A"] \in Tics /\ "A" \notin TIFR1 => \E r \in Nat : Due(r))'
  BY DueExists, PTL
<1> QED
  BY <1>1

\* The positions used so far fit into the period, and the rest of the period
\* ends with it.
PositionInv ==
  ServoPosTics <= IF ServoChannel < SERVO_NUM_CHANNELS THEN (ServoChannel + 1) * SERVO_MAX ELSE 0

\* A pulse lasts as wanted, and channel 0 began a period ago when it begins again.
Timing(r) ==
  /\ Due(r)
  /\ wanted # 0 =>
       /\ since + r = wanted
       /\ ServoChannel < SERVO_NUM_CHANNELS
       /\ wanted <= ServoPosTics
       /\ frame # -1 => frame = ServoPosTics - wanted + since
  /\ wanted = 0 /\ frame # -1 => ServoChannel = SERVO_NUM_CHANNELS /\ frame + r = ServoPeriodTics

\* The inductive invariant.  A duty of 0 is gone with servoInit; a flag left up
\* makes the first interrupt come at once, and nothing is timed by it.
IInv ==
  /\ TypeOK
  /\ OneHigh
  /\ PositionInv
  /\ On => /\ \A c \in Channels : ServoChannels[c].duty # 0
           /\ stale => "A" \in TIFR1
           /\ ~stale => \E r \in Nat : Timing(r)
  /\ ~On \/ stale => wanted = 0 /\ frame = -1

\* The driver starts off.
LEMMA InitIInv == Init => IInv
<1> SUFFICES ASSUME Init PROVE IInv
  OBVIOUS
<1> USE Numbers DEF Init
<1>1. TimerTypeOK
  <2>1. TCNT1 \in Tics /\ OCR1 \in [Compare -> Tics]
    BY TimerAssumption DEF TimerInit, Tics
  <2>2. TimerIntFunc \in [Sources -> Services]
    <3>1. "none" \in Services /\ TimerIntFunc = [s \in Sources |-> "none"]
      BY DEF TimerInit, Services
    <3> QED
      BY ONLY <3>1
  <2> QED
    BY <2>1, <2>2 DEF TimerInit, TimerTypeOK
<1>2. ServoChannels \in [Channels -> [port : Ports, pin : Bits, duty : {0} \cup SERVO_MIN .. SERVO_MAX]]
  BY ServoAssumption DEF Channels
<1>3. ServoPosTics \in 0 .. ServoPeriodTics - 1 /\ ServoChannel \in 0 .. SERVO_NUM_CHANNELS
  OBVIOUS
<1>4. PositionInv
  BY DEF PositionInv
<1> QED
  BY <1>1, <1>2, <1>3, <1>4 DEF IInv, TypeOK, OneHigh, On, TimerInit

-----------------------------------------------------------------------------
\* The current pin, and what the position in the period is, after a step that
\* leaves the channels alone.
LEMMA ConfigKept ==
  ASSUME UNCHANGED <<config, ServoChannels>>
  PROVE  Current' = Current /\ (PositionInv => PositionInv')
BY DEF config, Current, PinOf, PositionInv

\* A tic brings the register a tic nearer, and the flag with the last one.
LEMMA TicIInv == IInv /\ Tic => IInv'
<1> SUFFICES ASSUME IInv, Tic PROVE IInv'
  OBVIOUS
<1> USE Numbers
<1>1. /\ TCNT1 \in Tics /\ OCR1["A"] \in Tics /\ OCR1 \in [{"A"} -> Tics]
      /\ TIFR1 \subseteq Sources /\ TIMSK1 \subseteq Sources
      /\ since \in Nat /\ frame \in Nat \cup {-1} /\ wanted \in Nat
      /\ ServoPosTics \in Nat /\ ServoChannel \in Nat
  BY DEF IInv, TypeOK, TimerTypeOK
<1>2. /\ TCNT1' = IF TCNT1 + 1 < TimerSize THEN TCNT1 + 1 ELSE TCNT1 + 1 - TimerSize
      /\ OCR1' = OCR1 /\ TIMSK1' = TIMSK1
  BY <1>1, AfterCases DEF Tic, Elapse
<1>3. "A" \in TIFR1' <=> "A" \in TIFR1 \/ OCR1["A"] = TCNT1'
  BY DEF Tic, Elapse, Reached
<1>4. TypeOK'
  <2>1. TimerTypeOK'
    <3>1. TCNT1' \in Tics
      BY <1>1, <1>2 DEF Tics
    <3>2. TIFR1' \subseteq Sources
      BY <1>1 DEF Tic, Elapse, Reached, Sources
    <3> QED
      BY <3>1, <3>2 DEF IInv, TypeOK, TimerTypeOK, Tic, Elapse
  <2>2. since' \in Nat /\ frame' \in Nat \cup {-1}
    BY <1>1 DEF Tic
  <2> QED
    BY <2>1, <2>2 DEF IInv, TypeOK, Tic, config, pulses
<1>5. OneHigh' /\ PositionInv'
  BY ConfigKept DEF IInv, OneHigh, Tic, pulses
<1>6. ASSUME On PROVE ~stale' /\ \E r \in Nat : Timing(r)'
  <2>1. "A" \notin TIFR1
    BY <1>6 DEF Tic, AllServed, On
  <2>2. ~stale /\ \E r \in Nat : Timing(r)
    BY <1>6, <2>1 DEF IInv
  <2>3. PICK r \in Nat : Timing(r)
    BY <2>2
  <2>4. r # 0
    BY <2>1, <2>3 DEF Timing, Due
  <2>5. Due(r - 1)'
    BY <1>1, <1>2, <1>3, <2>1, <2>3, <2>4 DEF Timing, Due, Tics
  <2>6. /\ since' = IF wanted # 0 THEN since + 1 ELSE since
        /\ frame' = IF frame # -1 THEN frame + 1 ELSE -1
        /\ UNCHANGED <<wanted, ServoPosTics, ServoChannel, stale>>
    BY <1>6 DEF Tic, config
  <2>7. Timing(r - 1)'
    BY <1>1, <2>3, <2>4, <2>5, <2>6 DEF Timing
  <2> QED
    BY <2>2, <2>4, <2>6, <2>7
<1>7. ASSUME ~On PROVE wanted' = 0 /\ frame' = -1
  BY <1>7 DEF IInv, Tic, On
<1>8. \A c \in Channels : ServoChannels'[c].duty = ServoChannels[c].duty
  BY DEF Tic
<1>9. On' <=> On
  BY <1>2 DEF On
<1> QED
  BY <1>4, <1>5, <1>6, <1>7, <1>8, <1>9 DEF IInv

\* What is true when the interrupt comes, and the register set for it.
LEMMA ServicePoint ==
  ASSUME IInv, servoService
  PROVE  /\ On /\ (~stale => Timing(0) /\ OCR1["A"] = TCNT1)
         /\ (stale => wanted = 0 /\ frame = -1)
         /\ \A c \in Channels : ServoChannels[c].duty \in SERVO_MIN .. SERVO_MAX
         /\ TCNT1 \in Tics /\ OCR1 \in [{"A"} -> Tics]
         /\ TCNT1' = TCNT1 /\ TIMSK1' = TIMSK1 /\ TIFR1' = TIFR1 \ {"A"}
         /\ ServoPosTics \in 0 .. ServoPeriodTics - 1 /\ ServoChannel \in 0 .. SERVO_NUM_CHANNELS
<1> USE Numbers
<1>1. On /\ "A" \in TIFR1
  BY DEF servoService, Runs, Pending, On
<1>2. TCNT1 \in Tics /\ OCR1 \in [{"A"} -> Tics]
  BY DEF IInv, TypeOK, TimerTypeOK
<1>3. ASSUME ~stale PROVE Timing(0) /\ OCR1["A"] = TCNT1
  <2>1. PICK r \in Nat : Timing(r)
    BY <1>1, <1>3 DEF IInv
  <2>2. r = 0
    BY <1>1, <2>1 DEF Timing, Due
  <2>3. OCR1["A"] = TCNT1
    BY <1>2, <2>1, <2>2 DEF Timing, Due, Tics
  <2> QED
    BY <2>1, <2>2, <2>3
<1>4. ASSUME NEW c \in Channels PROVE ServoChannels[c].duty \in SERVO_MIN .. SERVO_MAX
  BY <1>1, <1>4 DEF IInv, TypeOK
<1> QED
  BY <1>1, <1>2, <1>3, <1>4 DEF IInv, TypeOK, servoService

\* A handler that is in time and sets the register n tics ahead is due in n tics;
\* one that ran on a flag left up is due at some time.
LEMMA ScheduleDue ==
  ASSUME IInv, servoService, NEW n \in 1 .. ServoPeriodTics, Schedule(n)
  PROVE  /\ OCR1' \in [{"A"} -> Tics]
         /\ ~stale => Due(n)'
         /\ \E r \in Nat : Due(r)'
<1> USE Numbers
<1>1. /\ TCNT1 \in Tics /\ OCR1 \in [{"A"} -> Tics]
      /\ TCNT1' = TCNT1 /\ "A" \notin TIFR1'
      /\ ~stale => OCR1["A"] = TCNT1
  BY ServicePoint
<1>2. OCR1' = [OCR1 EXCEPT !["A"] = After(OCR1["A"], n)]
  BY DEF Schedule
<1>3. After(OCR1["A"], n) \in Tics
  <2>1. OCR1["A"] \in Nat /\ n \in Nat
    BY <1>1 DEF Tics
  <2> QED
    BY ONLY <2>1, AfterTics
<1>4. OCR1' \in [{"A"} -> Tics]
  BY <1>1, <1>2, <1>3
<1>5. ASSUME ~stale PROVE Due(n)'
  <2>1. OCR1'["A"] = After(TCNT1, n)
    BY <1>1, <1>2, <1>5
  <2>2. After(TCNT1, n) = IF TCNT1 + n < TimerSize THEN TCNT1 + n ELSE TCNT1 + n - TimerSize
    BY <1>1, AfterCases
  <2> QED
    BY <1>1, <2>1, <2>2 DEF Due
<1>6. \E r \in Nat : Due(r)'
  BY <1>1, <1>4, DueExistsNext
<1> QED
  BY <1>4, <1>5, <1>6

\* The types after the interrupt.
LEMMA ServiceTypes ==
  ASSUME IInv, servoService, OCR1' \in [{"A"} -> Tics],
         ServoPosTics' \in 0 .. ServoPeriodTics - 1, ServoChannel' \in 0 .. SERVO_NUM_CHANNELS,
         high' \subseteq Pins, TurnedOff \subseteq high', since' = 0, stale' = FALSE,
         wanted' \in {0} \cup SERVO_MIN .. SERVO_MAX, frame' \in Nat \cup {-1}
  PROVE  TypeOK'
<1>1. TimerTypeOK'
  BY Numbers DEF IInv, TypeOK, TimerTypeOK, servoService
<1>2. moved' \subseteq high'
  BY DEF servoService
<1> QED
  BY <1>1, <1>2 DEF IInv, TypeOK, servoService

\* What is high after the current pin is cleared was moved.
LEMMA AllOff ==
  ASSUME IInv, servoService
  PROVE  TurnedOff \subseteq moved'
BY DEF IInv, OneHigh, TurnedOff, servoService

\* Channel c's pulse begins: as the first of a period, or after the pulse of
\* the channel before it.
LEMMA BeginIInv ==
  ASSUME IInv, servoService, NEW c \in Channels, Begin(c),
         \/ c = 0 /\ ServoPosTics = 0
         \/ c = ServoChannel + 1
  PROVE  IInv'
<1> USE Numbers
<1> SUFFICES ASSUME NEW duty, duty = ServoChannels[c].duty PROVE IInv'
  OBVIOUS
<1>1. /\ On /\ (~stale => Timing(0)) /\ duty \in SERVO_MIN .. SERVO_MAX
      /\ (stale => wanted = 0 /\ frame = -1)
      /\ ServoPosTics \in 0 .. ServoPeriodTics - 1 /\ ServoChannel \in 0 .. SERVO_NUM_CHANNELS
  BY ServicePoint
<1>2. /\ ServoChannel' = c /\ since' = 0 /\ stale' = FALSE /\ Schedule(duty)
      /\ wanted' = IF stale THEN 0 ELSE duty
      /\ frame' = IF c = 0 /\ ~stale THEN 0 ELSE frame
      /\ ServoPosTics' = Advanced(duty)
  BY DEF Begin, Schedule
<1>3. On' /\ ServoChannels' = ServoChannels
  BY <1>1 DEF servoService, On
<1>4. duty \in 1 .. ServoPeriodTics
  BY <1>1
<1>5. OCR1' \in [{"A"} -> Tics] /\ (~stale => Due(duty)') /\ \E r \in Nat : Due(r)'
  BY <1>2, <1>4, ScheduleDue
<1>6. high' = TurnedOff \cup {PinOf(c)} /\ PinOf(c) \in Pins /\ TurnedOff \subseteq Pins
  BY DEF Begin, IInv, TypeOK, PinOf, Pins, TurnedOff
<1>7. since \in Nat /\ frame \in Nat \cup {-1} /\ wanted \in Nat
  BY DEF IInv, TypeOK
<1>8. c \in 0 .. 7 /\ c < SERVO_NUM_CHANNELS
  BY DEF Channels
<1>9. ServoPosTics \in Nat /\ ServoPosTics <= c * SERVO_MAX /\ (c = 0 => ServoPosTics = 0)
  <2>1. CASE c = 0 /\ ServoPosTics = 0
    BY <2>1
  <2>2. CASE c = ServoChannel + 1
    <3>1. ServoChannel < SERVO_NUM_CHANNELS /\ ServoChannel \in Nat /\ c # 0
      BY <1>1, <1>8, <2>2
    <3>2. ServoPosTics <= (ServoChannel + 1) * SERVO_MAX
      BY <3>1 DEF IInv, PositionInv
    <3> QED
      BY <1>1, <2>2, <3>1, <3>2
  <2> QED
    BY <2>1, <2>2
<1>10. /\ ServoPosTics' = ServoPosTics + duty
       /\ duty <= ServoPosTics' /\ ServoPosTics' <= (c + 1) * SERVO_MAX
       /\ ServoPosTics' \in 0 .. ServoPeriodTics - 1
  <2>1. ServoPosTics + duty <= (c + 1) * SERVO_MAX
    <3>1. ASSUME NEW k \in 0 .. 7, NEW m \in Nat, NEW p \in Nat, NEW d \in 0 .. m, p <= k * m
          PROVE  p + d <= (k + 1) * m
      BY <3>1, Z3
    <3>2. duty \in 0 .. SERVO_MAX
      BY <1>1
    <3> QED
      BY <3>1, <3>2, <1>8, <1>9
  <2>2. (c + 1) * SERVO_MAX < ServoPeriodTics
    <3>1. ASSUME NEW k \in 0 .. 7, NEW m \in Nat \ {0} PROVE (k + 1) * m < 9 * m
      BY Z3
    <3> QED
      BY <3>1, <1>8
  <2> QED
    BY <1>1, <1>2, <1>9, <2>1, <2>2 DEF Advanced
<1>11. ASSUME ~stale PROVE Timing(duty)'
  <2>1. frame' # -1 => frame' = ServoPosTics' - duty
    <3>1. CASE c = 0
      BY <1>1, <1>2, <1>9, <1>10, <1>11, <3>1
    <3>2. CASE c # 0 /\ wanted # 0
      BY <1>1, <1>2, <1>7, <1>9, <1>10, <1>11, <3>2 DEF Timing
    <3>3. CASE c # 0 /\ wanted = 0
      BY <1>1, <1>2, <1>8, <1>11, <3>3 DEF Timing
    <3> QED
      BY <3>1, <3>2, <3>3
  <2>2. wanted' = duty /\ wanted' # 0 /\ since' + duty = wanted' /\ ServoChannel' < SERVO_NUM_CHANNELS
    BY <1>1, <1>2, <1>8, <1>11
  <2>3. frame' # -1 => frame' = ServoPosTics' - wanted' + since'
    BY <1>1, <1>2, <1>10, <2>1, <2>2
  <2> QED
    BY <1>5, <1>10, <1>11, <2>2, <2>3 DEF Timing
<1>12. \E r \in Nat : Timing(r)'
  <2>1. CASE ~stale
    <3>1. duty \in Nat
      BY <1>4
    <3> QED
      BY <1>11, <2>1, <3>1
  <2>2. CASE stale
    <3>1. wanted' = 0 /\ frame' = -1
      BY <1>1, <1>2, <2>2
    <3> QED
      BY <1>5, <3>1 DEF Timing
  <2> QED
    BY <2>1, <2>2
<1>13. TypeOK'
  <2>1. wanted' \in {0} \cup SERVO_MIN .. SERVO_MAX /\ frame' \in Nat \cup {-1}
    BY <1>1, <1>2, <1>7
  <2>2. ServoChannel' \in 0 .. SERVO_NUM_CHANNELS
    BY <1>2, <1>8
  <2> QED
    BY <1>2, <1>5, <1>6, <1>10, <2>1, <2>2, ServiceTypes
<1>14. OneHigh'
  <2>1. PinOf(c)' = PinOf(c)
    BY <1>3 DEF PinOf
  <2>2. PinOf(c) \in Current'
    BY <1>2, <2>1 DEF Current
  <2> QED
    BY <1>6, <2>2, AllOff DEF OneHigh
<1>15. \A k \in Channels : ServoChannels'[k].duty # 0
  BY <1>1, <1>3 DEF IInv
<1>16. PositionInv'
  BY <1>2, <1>8, <1>10 DEF PositionInv
<1> QED
  BY <1>2, <1>3, <1>12, <1>13, <1>14, <1>15, <1>16 DEF IInv

\* After the last channel's pulse comes the rest of the period.
LEMMA EndOfPeriodIInv ==
  ASSUME IInv, servoService, EndOfPeriod, ServoChannel + 1 = SERVO_NUM_CHANNELS
  PROVE  IInv'
<1> USE Numbers
<1> SUFFICES ASSUME NEW rest, rest = ServoPeriodTics - ServoPosTics PROVE IInv'
  OBVIOUS
<1>1. /\ On /\ (~stale => Timing(0)) /\ (stale => wanted = 0 /\ frame = -1)
      /\ ServoPosTics \in 0 .. ServoPeriodTics - 1 /\ ServoChannel \in 0 .. SERVO_NUM_CHANNELS
      /\ \A c \in Channels : ServoChannels[c].duty \in SERVO_MIN .. SERVO_MAX
  BY ServicePoint
<1>2. rest \in 1 .. ServoPeriodTics
  BY <1>1
<1>3. /\ ServoChannel' = SERVO_NUM_CHANNELS /\ wanted' = 0 /\ since' = 0 /\ frame' = frame
      /\ stale' = FALSE /\ Schedule(rest) /\ ServoPosTics' = Advanced(rest)
  BY DEF EndOfPeriod, Schedule
<1>4. On' /\ ServoChannels' = ServoChannels /\ high' = TurnedOff
  BY <1>1 DEF servoService, EndOfPeriod, On
<1>5. OCR1' \in [{"A"} -> Tics] /\ (~stale => Due(rest)') /\ \E r \in Nat : Due(r)'
  BY <1>2, <1>3, ScheduleDue
<1>6. ServoPosTics' = 0
  BY <1>1, <1>2, <1>3 DEF Advanced
<1>7. since \in Nat /\ frame \in Nat \cup {-1} /\ wanted \in Nat
  BY DEF IInv, TypeOK
<1>8. ASSUME ~stale, frame # -1 PROVE frame + rest = ServoPeriodTics
  <2>1. wanted # 0
    BY <1>1, <1>8 DEF Timing
  <2> QED
    BY <1>1, <1>7, <1>8, <2>1 DEF Timing
<1>9. \E r \in Nat : Timing(r)'
  <2>1. CASE ~stale
    <3>1. Timing(rest)' /\ rest \in Nat
      BY <1>2, <1>3, <1>5, <1>8, <2>1 DEF Timing
    <3> QED
      BY <3>1
  <2>2. CASE stale
    BY <1>1, <1>3, <1>5, <2>2 DEF Timing
  <2> QED
    BY <2>1, <2>2
<1>10. TypeOK'
  <2>1. high' \subseteq Pins
    BY <1>4 DEF IInv, TypeOK, TurnedOff
  <2>2. /\ ServoPosTics' \in 0 .. ServoPeriodTics - 1
        /\ ServoChannel' \in 0 .. SERVO_NUM_CHANNELS
        /\ wanted' \in {0} \cup SERVO_MIN .. SERVO_MAX /\ frame' \in Nat \cup {-1}
    BY <1>3, <1>6, <1>7
  <2> QED
    BY <1>3, <1>4, <1>5, <2>1, <2>2, ServiceTypes
<1>11. OneHigh' /\ \A c \in Channels : ServoChannels'[c].duty # 0
  BY <1>1, <1>4, AllOff DEF OneHigh
<1>12. PositionInv'
  BY <1>3, <1>6 DEF PositionInv
<1> QED
  BY <1>3, <1>4, <1>9, <1>10, <1>11, <1>12 DEF IInv

LEMMA ServiceIInv == IInv /\ servoService => IInv'
<1> SUFFICES ASSUME IInv, servoService PROVE IInv'
  OBVIOUS
<1> USE Numbers
<1>1. ServoChannel \in 0 .. SERVO_NUM_CHANNELS /\ ServoPosTics \in Nat
  BY ServicePoint
<1>2. CASE ServoChannel + 1 < SERVO_NUM_CHANNELS
  <2>1. Begin(ServoChannel + 1) /\ ServoChannel + 1 \in Channels
    BY <1>1, <1>2 DEF servoService, Channels
  <2> QED
    BY <2>1, BeginIInv
<1>3. CASE ServoChannel + 1 = SERVO_NUM_CHANNELS
  BY <1>3, EndOfPeriodIInv DEF servoService
<1>4. CASE ServoChannel = SERVO_NUM_CHANNELS
  <2>1. Begin(0) /\ 0 \in Channels
    BY <1>4 DEF servoService, Channels
  <2>2. ServoPosTics = 0
    BY <1>1, <1>4 DEF IInv, PositionInv
  <2> QED
    BY <2>1, <2>2, BeginIInv
<1> QED
  BY <1>1, <1>2, <1>3, <1>4

-----------------------------------------------------------------------------
\* The program's calls.

\* A channel's pin moves away from the pin it has driven high.
LEMMA MovesKeeps ==
  ASSUME OneHigh, moved \subseteq high, UNCHANGED high, Moves
  PROVE  OneHigh' /\ moved' \subseteq high'
BY DEF OneHigh, Moves

\* The first interrupt is due at once when the flag is up, or in one period and
\* what the register was ahead.
LEMMA servoInitIInv == IInv /\ servoInit => IInv'
<1> SUFFICES ASSUME IInv, servoInit PROVE IInv'
  OBVIOUS
<1> USE Numbers
<1>1. TCNT1 \in Tics /\ OCR1["A"] \in Tics /\ OCR1 \in [{"A"} -> Tics] /\ TIFR1 \subseteq Sources
  BY DEF IInv, TypeOK, TimerTypeOK
<1>2. /\ TIFR1' = TIFR1 /\ TCNT1' = TCNT1 /\ On'
      /\ OCR1'["A"] = After(OCR1["A"], ServoPeriodTics)
      /\ stale' = ("A" \in TIFR1)
  BY <1>1 DEF servoInit, On
<1>3. After(OCR1["A"], ServoPeriodTics) \in Tics
  <2>1. OCR1["A"] \in Nat /\ ServoPeriodTics \in Nat
    BY <1>1 DEF Tics
  <2> QED
    BY ONLY <2>1, AfterTics
<1>4. wanted' = 0 /\ frame' = -1 /\ ServoPosTics' = 0 /\ since' = 0
  BY DEF servoInit
<1>5. ~stale' => \E r \in Nat : Timing(r)'
  <2>1. ~stale' => \E r \in Nat : Due(r)'
    BY <1>1, <1>2, <1>3, DueExistsNext
  <2> QED
    BY <1>4, <2>1 DEF Timing
<1>6. ServoChannels' \in [Channels -> [port : Ports, pin : Bits, duty : {0} \cup SERVO_MIN .. SERVO_MAX]]
  BY ServoAssumption DEF servoInit, Channels
<1>7. TimerTypeOK'
  <2>1. TimerIntFunc' \in [Sources -> Services]
    <3>1. \A x \in Sources : TimerIntFunc[x] \in Services
      BY DEF IInv, TypeOK, TimerTypeOK
    <3>2. TimerIntFunc' = [x \in Sources |-> IF x = "A" THEN "servoService" ELSE TimerIntFunc[x]]
      BY DEF servoInit, timerAttach
    <3>3. "servoService" \in Services
      BY DEF Services
    <3> QED
      BY ONLY <3>1, <3>2, <3>3
  <2>2. OCR1' \in [{"A"} -> Tics]
    BY <1>1, <1>3 DEF servoInit
  <2>3. TCNT1' \in Tics /\ TIMSK1' \subseteq Sources /\ TIFR1' \subseteq Sources
    BY DEF servoInit, IInv, TypeOK, TimerTypeOK
  <2> QED
    BY <2>1, <2>2, <2>3 DEF TimerTypeOK
<1>8. OneHigh' /\ moved' \subseteq high'
  BY MovesKeeps DEF servoInit, IInv, TypeOK
<1>9. TypeOK'
  BY <1>2, <1>4, <1>6, <1>7, <1>8 DEF servoInit, IInv, TypeOK
<1>10. \A c \in Channels : ServoChannels'[c].duty # 0
  BY DEF servoInit
<1>11. PositionInv'
  <2>1. ServoChannel' = ServoChannel /\ ServoChannel \in 0 .. 8
    BY DEF servoInit, IInv, TypeOK
  <2>2. ASSUME NEW k \in 0 .. 8, NEW m \in Nat PROVE 0 <= (k + 1) * m
    BY Z3
  <2> QED
    BY <1>4, <2>1, <2>2 DEF PositionInv
<1> QED
  BY <1>2, <1>4, <1>5, <1>8, <1>9, <1>10, <1>11 DEF IInv

LEMMA servoOffIInv == IInv /\ servoOff => IInv'
<1> SUFFICES ASSUME IInv, servoOff PROVE IInv'
  OBVIOUS
<1>1. TimerIntFunc' \in [Sources -> Services]
  <2>1. \A x \in Sources : TimerIntFunc[x] \in Services
    BY DEF IInv, TypeOK, TimerTypeOK
  <2>2. TimerIntFunc' = [x \in Sources |-> IF x \in {"A"} THEN "none" ELSE TimerIntFunc[x]]
    BY DEF servoOff, timerDetach
  <2>3. "none" \in Services
    BY DEF Services
  <2> QED
    BY ONLY <2>1, <2>2, <2>3
<1>2. TypeOK'
  <2>1. TimerTypeOK'
    BY <1>1 DEF IInv, TypeOK, TimerTypeOK, servoOff
  <2> QED
    BY <2>1 DEF IInv, TypeOK, servoOff, config, pulses
<1>3. ~On' /\ wanted' = 0 /\ frame' = -1
  BY DEF servoOff, On
<1>4. OneHigh' /\ PositionInv'
  BY ConfigKept DEF IInv, OneHigh, servoOff, pulses
<1> QED
  BY <1>2, <1>3, <1>4 DEF IInv

\* A step that leaves the timer, the position in the period and the ghosts
\* alone keeps the times.
LEMMA TimingKept ==
  ASSUME NEW r, Timing(r), UNCHANGED <<timervars, config, ghost>>
  PROVE  Timing(r)'
BY DEF Timing, Due, timervars, config, ghost

\* ... and with them the whole of IInv but what is about the channels.
LEMMA ChannelStep ==
  ASSUME IInv, UNCHANGED <<timervars, config, ghost>>, TypeOK', OneHigh',
         On => \A c \in Channels : ServoChannels'[c].duty # 0
  PROVE  IInv'
<1>1. PositionInv'
  BY DEF IInv, PositionInv, config
<1>2. (\E r \in Nat : Timing(r)) => \E r \in Nat : Timing(r)'
  BY TimingKept
<1>3. On' <=> On
  BY DEF On, timervars
<1> QED
  BY <1>1, <1>2, <1>3 DEF IInv, timervars, ghost

LEMMA PortBackIInv == IInv /\ PortBack => IInv'
<1> SUFFICES ASSUME IInv, PortBack PROVE IInv'
  OBVIOUS
<1>1. UNCHANGED <<timervars, config, ServoChannels, call, ghost>> /\ ~On /\ high' = {} /\ moved' = {}
  BY DEF PortBack
<1>2. TypeOK'
  BY <1>1 DEF IInv, TypeOK, TimerTypeOK, timervars, config, ghost
<1> QED
  BY <1>1, <1>2, ChannelStep DEF OneHigh

\* One of the two stores of servoSetChannelIO.
LEMMA StoreIInv ==
  ASSUME IInv, UNCHANGED <<timervars, config, high, ghost>>, Moves,
         call' \in {<<>>} \cup Channels \X Bits,
         ServoChannels' \in [Channels -> [port : Ports, pin : Bits, duty : {0} \cup SERVO_MIN .. SERVO_MAX]],
         \A c \in Channels : ServoChannels'[c].duty = ServoChannels[c].duty
  PROVE  IInv'
<1>1. OneHigh' /\ moved' \subseteq high'
  BY MovesKeeps DEF IInv, TypeOK
<1>2. TypeOK'
  BY <1>1 DEF IInv, TypeOK, TimerTypeOK, timervars, config, ghost
<1>3. On => \A c \in Channels : ServoChannels'[c].duty # 0
  BY DEF IInv
<1> QED
  BY <1>1, <1>2, <1>3, ChannelStep

LEMMA SetPortIInv ==
  ASSUME IInv, NEW c \in Channels, NEW port \in Ports, NEW pin \in Bits, SetPort(c, port, pin)
  PROVE  IInv'
<1>1. /\ UNCHANGED <<timervars, config, high, ghost>> /\ Moves /\ call' = <<c, pin>>
      /\ ServoChannels' = [ServoChannels EXCEPT ![c].port = port]
      /\ ServoChannels \in [Channels -> [port : Ports, pin : Bits, duty : {0} \cup SERVO_MIN .. SERVO_MAX]]
  BY DEF SetPort, IInv, TypeOK
<1>2. /\ ServoChannels' \in [Channels -> [port : Ports, pin : Bits, duty : {0} \cup SERVO_MIN .. SERVO_MAX]]
      /\ \A k \in Channels : ServoChannels'[k].duty = ServoChannels[k].duty
  BY <1>1
<1> QED
  BY <1>1, <1>2, StoreIInv

LEMMA SetPinIInv == IInv /\ SetPin => IInv'
<1> SUFFICES ASSUME IInv, SetPin PROVE IInv'
  OBVIOUS
<1>1. PICK c \in Channels, pin \in Bits : call = <<c, pin>>
  BY DEF SetPin, IInv, TypeOK
<1>2. /\ UNCHANGED <<timervars, config, high, ghost>> /\ Moves /\ call' = <<>>
      /\ ServoChannels' = [ServoChannels EXCEPT ![c].pin = pin]
      /\ ServoChannels \in [Channels -> [port : Ports, pin : Bits, duty : {0} \cup SERVO_MIN .. SERVO_MAX]]
  BY <1>1 DEF SetPin, IInv, TypeOK
<1>3. /\ ServoChannels' \in [Channels -> [port : Ports, pin : Bits, duty : {0} \cup SERVO_MIN .. SERVO_MAX]]
      /\ \A k \in Channels : ServoChannels'[k].duty = ServoChannels[k].duty
  BY <1>2
<1> QED
  BY <1>2, <1>3, StoreIInv

LEMMA PositionRawIInv ==
  ASSUME NEW c \in Channels, NEW position \in Nat
  PROVE  IInv /\ servoSetPositionRaw(c, position) => IInv'
<1> SUFFICES ASSUME IInv, servoSetPositionRaw(c, position) PROVE IInv'
  OBVIOUS
<1> DEFINE duty == Bound(position)
<1>1. duty \in SERVO_MIN .. SERVO_MAX /\ duty # 0
  BY BoundInLimits, Numbers
<1>2. /\ UNCHANGED <<timervars, config, call, pulses, ghost>>
      /\ ServoChannels' = [ServoChannels EXCEPT ![c].duty = duty]
      /\ ServoChannels \in [Channels -> [port : Ports, pin : Bits, duty : {0} \cup SERVO_MIN .. SERVO_MAX]]
  BY DEF servoSetPositionRaw, IInv, TypeOK
<1> HIDE DEF duty
<1>3. TypeOK'
  <2>1. ServoChannels' \in [Channels -> [port : Ports, pin : Bits, duty : {0} \cup SERVO_MIN .. SERVO_MAX]]
    BY <1>1, <1>2
  <2> QED
    BY <1>2, <2>1 DEF IInv, TypeOK, TimerTypeOK, timervars, config, pulses, ghost
<1>4. \A k \in Channels : PinOf(k)' = PinOf(k)
  BY <1>2 DEF PinOf
<1>5. OneHigh'
  <2>1. Current' = Current
    BY <1>2, <1>4 DEF Current, config
  <2> QED
    BY <1>2, <2>1 DEF IInv, OneHigh, pulses
<1>6. On => \A k \in Channels : ServoChannels'[k].duty # 0
  BY <1>1, <1>2 DEF IInv
<1> QED
  BY <1>2, <1>3, <1>5, <1>6, ChannelStep

LEMMA NextIInv == IInv /\ [Next]_vars => IInv'
<1> SUFFICES ASSUME IInv, [Next]_vars PROVE IInv'
  OBVIOUS
<1>1. CASE Tic
  BY <1>1, TicIInv
<1>2. CASE servoService
  BY <1>2, ServiceIInv
<1>3. CASE servoInit
  BY <1>3, servoInitIInv
<1>4. CASE servoOff
  BY <1>4, servoOffIInv
<1>5. CASE PortBack
  BY <1>5, PortBackIInv
<1>6. ASSUME NEW m \in Moved, SetPort(m[1], m[2], m[3]) PROVE IInv'
  <2>1. m[1] \in Channels /\ m[2] \in Ports /\ m[3] \in Bits
    BY ServoAssumption DEF Channels
  <2> QED
    BY <1>6, <2>1, SetPortIInv
<1>10. CASE SetPin
  BY <1>10, SetPinIInv
<1>7. ASSUME NEW c \in Channels, NEW position \in Positions, servoSetPositionRaw(c, position) PROVE IInv'
  <2>1. position \in Nat
    BY ServoAssumption, Numbers DEF Tics
  <2> QED
    BY <1>7, <2>1, PositionRawIInv
<1>8. ASSUME NEW c \in Channels, NEW position \in Scaled, servoSetPosition(c, position) PROVE IInv'
  <2> SUFFICES ASSUME NEW raw \in Nat, servoSetPositionRaw(c, raw) PROVE IInv'
    BY <1>8, ScaledIsPosition DEF servoSetPosition
  <2> QED
    BY PositionRawIInv
<1>9. CASE UNCHANGED vars
  <2>1. UNCHANGED <<timervars, config, ServoChannels, call, pulses, ghost>>
    BY <1>9 DEF vars, config, pulses, ghost
  <2>2. TypeOK' /\ OneHigh'
    BY <2>1, ConfigKept DEF IInv, TypeOK, TimerTypeOK, OneHigh, timervars, config, pulses, ghost
  <2>3. On => \A c \in Channels : ServoChannels'[c].duty # 0
    BY <2>1 DEF IInv
  <2> QED
    BY <2>1, <2>2, <2>3, ChannelStep
<1> QED
  BY <1>1, <1>2, <1>3, <1>4, <1>5, <1>6, <1>7, <1>8, <1>9, <1>10 DEF Next, Calls

\* The inductive invariant holds, whenever the program calls what.
THEOREM Invariance == Spec => []IInv
<1>1. IInv /\ [Next]_vars => IInv'
  BY NextIInv
<1> QED
  BY <1>1, InitIInv, PTL DEF Spec

\* Every variable keeps its type.
THEOREM TypeCorrect == Spec => []TypeOK
<1>1. Spec => []IInv
  BY Invariance
<1>2. IInv => TypeOK
  BY DEF IInv
<1> QED
  BY <1>1, <1>2, PTL

\* A pin that is high is that of the channel in turn, or its channel was moved
\* during its pulse.
THEOREM OnlyOneHigh == Spec => []OneHigh
<1>1. Spec => []IInv
  BY Invariance
<1>2. IInv => OneHigh
  BY DEF IInv
<1> QED
  BY <1>1, <1>2, PTL

\* A timed pulse ends after as many tics as the position set when it began.
THEOREM PulsesAsWanted == Spec => PulseWidth
<1>1. ASSUME IInv, [Next]_vars, ServoChannel' # ServoChannel, wanted # 0
      PROVE  since = wanted /\ wanted \in SERVO_MIN .. SERVO_MAX
  <2>1. servoService
    BY <1>1 DEF Next, Calls, Tic, servoInit, servoOff, PortBack, SetPort, SetPin,
                servoSetPositionRaw, servoSetPosition, vars, config
  <2>2. Timing(0) /\ since \in Nat
    BY <1>1, <2>1, ServicePoint DEF IInv, TypeOK
  <2> QED
    BY <1>1, <2>2 DEF Timing, IInv, TypeOK
<1>2. Spec => []IInv
  BY Invariance
<1>3. IInv /\ [Next]_vars => [ServoChannel' # ServoChannel /\ wanted # 0
                                => since = wanted /\ wanted \in SERVO_MIN .. SERVO_MAX]_vars
  BY <1>1
<1> QED
  BY <1>2, <1>3, PTL DEF Spec, PulseWidth

\* The pulses of channel 0 begin one period apart.
THEOREM PeriodsAsLong == Spec => FrameLength
<1>1. ASSUME IInv, [Next]_vars, ServoChannel' = 0, ServoChannel # 0, frame # -1
      PROVE  frame = ServoPeriodTics
  <2>1. servoService
    BY <1>1 DEF Next, Calls, Tic, servoInit, servoOff, PortBack, SetPort, SetPin,
                servoSetPositionRaw, servoSetPosition, vars, config
  <2>2. Timing(0) /\ ServoChannel \in 0 .. SERVO_NUM_CHANNELS /\ frame \in Nat \cup {-1}
    BY <1>1, <2>1, ServicePoint DEF IInv, TypeOK
  <2>3. ServoChannel = SERVO_NUM_CHANNELS
    BY <1>1, <2>1, <2>2, Numbers DEF servoService, Begin, EndOfPeriod
  <2> QED
    BY <1>1, <2>2, <2>3, Numbers DEF Timing
<1>2. Spec => []IInv
  BY Invariance
<1>3. IInv /\ [Next]_vars => [ServoChannel' = 0 /\ ServoChannel # 0 /\ frame # -1
                                => frame = ServoPeriodTics]_vars
  BY <1>1
<1> QED
  BY <1>2, <1>3, PTL DEF Spec, FrameLength
=============================================================================
