-------------------------------- MODULE Servo -------------------------------
(***************************************************************************)
(* The servo driver of avrlib/servo.c: a compare interrupt of timer 1 ends *)
(* the pulse of one channel and begins the next one's, then waits out the  *)
(* rest of the period.  The program calls what it likes when it likes.  A   *)
(* call is one step where it has the interrupt off or stores one byte that *)
(* the interrupt reads; servoSetChannelIO stores two.                      *)
(***************************************************************************)
EXTENDS Timer1

CONSTANTS
  SERVO_NUM_CHANNELS, SERVO_MIN, SERVO_MAX, SERVO_POSITION_MAX,
  Ports, Bits,  \* a pin is a bit of a port
  DefaultPort,  \* SERVO_DEFAULT_PORT, where channel c has bit c
  Moved,        \* the <<channel, port, bit>> of servoSetChannelIO's calls
  Positions,    \* raw positions the program asks for
  Scaled        \* and positions on the scale 0 .. SERVO_POSITION_MAX

\* servo.h asks for 1 to 8 channels.  A raw position is at most 255, so the
\* interrupt cannot see one half of it changed.
ASSUME ServoAssumption ==
  /\ SERVO_NUM_CHANNELS \in 1 .. 8
  /\ SERVO_MIN \in 1 .. 255 /\ SERVO_MAX \in SERVO_MIN .. 255
  /\ SERVO_MAX * 9 < TimerSize
  /\ SERVO_POSITION_MAX \in 1 .. 255
  /\ SERVO_POSITION_MAX * (SERVO_MAX - SERVO_MIN) < TimerSize
  /\ DefaultPort \in Ports /\ 0 .. SERVO_NUM_CHANNELS - 1 \subseteq Bits
  /\ Moved \subseteq (0 .. SERVO_NUM_CHANNELS - 1) \X Ports \X Bits
  /\ Positions \subseteq Tics /\ Scaled \subseteq 0 .. SERVO_POSITION_MAX
  /\ Compare = {"A"}

VARIABLES
  ServoPosTics, ServoChannel, ServoChannels,
  call,         \* <<>>, or the channel and pin of servoSetChannelIO under way
  high,         \* the pins that are high
  moved,        \* ghost: those whose channel was moved to another pin since
  stale,        \* ghost: servoInit has just found the compare flag up
  since,        \* ghost: tics of the pulse under way
  wanted,       \* ghost: the position of the pulse under way, 0: not a timed one
  frame         \* ghost: tics since channel 0 began, -1: not in time, or not yet

vars == <<timervars, ServoPosTics, ServoChannel, ServoChannels, call, high, moved,
          stale, since, wanted, frame>>
config == <<ServoPosTics, ServoChannel>>
pulses == <<high, moved>>
ghost == <<stale, since, wanted, frame>>

Channels == 0 .. SERVO_NUM_CHANNELS - 1
On == "A" \in TIMSK1
ServoPeriodTics == SERVO_MAX * 9
Pins == Ports \X Bits
PinOf(c) == <<ServoChannels[c].port, ServoChannels[c].pin>>

\* The pin of the channel in turn.
Current == {PinOf(c) : c \in Channels \cap {ServoChannel}}

Init ==
  /\ TimerInit
  /\ ServoPosTics = 0 /\ ServoChannel = 0
  /\ ServoChannels = [c \in Channels |-> [port |-> DefaultPort, pin |-> c, duty |-> 0]]
  /\ call = <<>>
  /\ high = {} /\ moved = {}
  /\ stale = FALSE /\ since = 0 /\ wanted = 0 /\ frame = -1

-----------------------------------------------------------------------------
\* Time passes; the ghosts measure pulses and periods.  A tic is 256
\* cycles (TIMER_CLK_DIV256), more than the handler takes.
Tic ==
  /\ AllServed
  /\ Elapse
  /\ since' = IF wanted # 0 THEN since + 1 ELSE since
  /\ frame' = IF On /\ frame # -1 THEN frame + 1 ELSE frame
  /\ UNCHANGED <<config, ServoChannels, call, pulses, stale, wanted>>

\* (mutant: the channel is counted up before its pin is cleared)
TurnedOff_next ==
  high \ {PinOf(c) : c \in Channels \cap {ServoChannel + 1}}

TurnedOff == high \ Current

\* (mutant: the position in the period is not set back)
Advanced_on(nextTics) == ServoPosTics + nextTics

Advanced(nextTics) ==
  IF ServoPosTics + nextTics >= ServoPeriodTics THEN 0 ELSE ServoPosTics + nextTics

\* The next interrupt comes nextTics after this one was due.
Schedule(nextTics) ==
  /\ OCR1' = [OCR1 EXCEPT !["A"] = After(@, nextTics)]
  /\ ServoPosTics' = Advanced(nextTics)
  /\ since' = 0 /\ stale' = FALSE

\* (mutant: the pulse lasts as the channel before it is set)
Begin_early(c) ==
  /\ ServoChannel' = c
  /\ high' = TurnedOff \cup {PinOf(c)}
  /\ Schedule(ServoChannels[IF c = 0 THEN SERVO_NUM_CHANNELS - 1 ELSE c - 1].duty)
  /\ wanted' = IF stale THEN 0 ELSE ServoChannels[c].duty
  /\ frame' = IF c = 0 /\ ~stale THEN 0 ELSE frame

\* Channel c's pulse begins.
Begin(c) ==
  /\ ServoChannel' = c
  /\ high' = TurnedOff \cup {PinOf(c)}
  /\ Schedule(ServoChannels[c].duty)
  /\ wanted' = IF stale THEN 0 ELSE ServoChannels[c].duty
  /\ frame' = IF c = 0 /\ ~stale THEN 0 ELSE frame

EndOfPeriod ==
  /\ ServoChannel' = SERVO_NUM_CHANNELS
  /\ high' = TurnedOff
  /\ Schedule(ServoPeriodTics - ServoPosTics)
  /\ wanted' = 0
  /\ UNCHANGED frame

servoService ==
  /\ Runs("A", "servoService")
  /\ TIFR1' = TIFR1 \ {"A"}
  /\ CASE ServoChannel + 1 < SERVO_NUM_CHANNELS -> Begin(ServoChannel + 1)
       [] ServoChannel + 1 = SERVO_NUM_CHANNELS -> EndOfPeriod
       [] OTHER -> Begin(0)
  /\ moved' = moved \cap TurnedOff
  /\ UNCHANGED <<TCNT1, TIMSK1, TimerIntFunc, ServoChannels, call>>

-----------------------------------------------------------------------------
\* The program's calls.

\* The pin of the channel in turn may be high as its channel moves.
Moves == moved' = moved \cup (high \cap (Current \ Current'))

\* The interrupt is off until the last step.  ServoChannel goes on where it was,
\* and a flag that is up stays up.
servoInit ==
  /\ timerAttach([s \in {"A"} |-> "servoService"])
  /\ ServoChannels' = [c \in Channels |-> [port |-> DefaultPort, pin |-> c, duty |-> SERVO_MIN]]
  /\ ServoPosTics' = 0
  /\ OCR1' = [OCR1 EXCEPT !["A"] = After(@, ServoPeriodTics)]
  /\ TIMSK1' = TIMSK1 \cup {"A"}
  /\ stale' = ("A" \in TIFR1) /\ since' = 0 /\ wanted' = 0 /\ frame' = -1
  /\ UNCHANGED <<TCNT1, TIFR1, ServoChannel, call, high>>
  /\ Moves

servoOff ==
  /\ TIMSK1' = TIMSK1 \ {"A"}
  /\ timerDetach({"A"})
  /\ stale' = FALSE /\ since' = 0 /\ wanted' = 0 /\ frame' = -1
  /\ UNCHANGED <<TCNT1, OCR1, TIFR1, config, ServoChannels, call, pulses>>

\* The port is the program's again, which drives the pins low.
PortBack ==
  /\ ~On /\ high # {}
  /\ high' = {} /\ moved' = {}
  /\ UNCHANGED <<timervars, config, ServoChannels, call, ghost>>

\* The port is stored, and then the pin.
SetPort(c, port, pin) ==
  /\ ServoChannels' = [ServoChannels EXCEPT ![c].port = port]
  /\ call' = <<c, pin>>
  /\ UNCHANGED <<timervars, config, high, ghost>>
  /\ Moves

SetPin ==
  /\ call # <<>>
  /\ ServoChannels' = [ServoChannels EXCEPT ![call[1]].pin = call[2]]
  /\ call' = <<>>
  /\ UNCHANGED <<timervars, config, high, ghost>>
  /\ Moves

\* (mutant: only the lower limit)
Bound_below(position) == IF position > SERVO_MIN THEN position ELSE SERVO_MIN

Bound(position) ==
  LET least == IF position > SERVO_MIN THEN position ELSE SERVO_MIN
  IN  IF least < SERVO_MAX THEN least ELSE SERVO_MAX

servoSetPositionRaw(c, position) ==
  /\ ServoChannels' = [ServoChannels EXCEPT ![c].duty = Bound(position)]
  /\ UNCHANGED <<timervars, config, call, pulses, ghost>>

servoSetPosition(c, position) ==
  servoSetPositionRaw(c,
    After((position * (SERVO_MAX - SERVO_MIN)) \div SERVO_POSITION_MAX, SERVO_MIN))

Calls ==
  /\ call = <<>>
  /\ \/ servoInit \/ servoOff \/ PortBack
     \/ \E m \in Moved : SetPort(m[1], m[2], m[3])
     \/ \E c \in Channels, position \in Positions : servoSetPositionRaw(c, position)
     \/ \E c \in Channels, position \in Scaled : servoSetPosition(c, position)

Next == Tic \/ servoService \/ Calls \/ SetPin

Spec == Init /\ [][Next]_vars

-----------------------------------------------------------------------------
\* Every variable has its type; the channel in turn is one of the channels, or
\* the number after them in the rest of the period.
TypeOK ==
  /\ TimerTypeOK
  /\ ServoPosTics \in 0 .. ServoPeriodTics - 1
  /\ ServoChannel \in 0 .. SERVO_NUM_CHANNELS
  /\ ServoChannels \in [Channels -> [port : Ports, pin : Bits,
                                       duty : {0} \cup SERVO_MIN .. SERVO_MAX]]
  /\ call \in {<<>>} \cup Channels \X Bits
  /\ high \subseteq Pins /\ moved \subseteq high
  /\ stale \in BOOLEAN
  /\ since \in Nat /\ wanted \in {0} \cup SERVO_MIN .. SERVO_MAX /\ frame \in Nat \cup {-1}

\* A servo reads its position from the length of its pulse: a pulse lasts as
\* many tics as the position that was set when it began, within the limits,
\* whatever the program sets or moves meanwhile.  Not timed are the pulse that
\* servoInit finds under way and the first after a servoInit with the compare
\* flag up (servo.c:52), which lasts up to a period too long.
PulseWidth ==
  [][ServoChannel' # ServoChannel /\ wanted # 0
       => since = wanted /\ wanted \in SERVO_MIN .. SERVO_MAX]_vars

\* Channel 0 begins a pulse every ServoPeriodTics, however the positions of the
\* channels change from one period to the next and within one; a pulse that a
\* flag left up begins does not count as the first.
FrameLength ==
  [][ServoChannel' = 0 /\ ServoChannel # 0 /\ frame # -1 => frame = ServoPeriodTics]_vars

\* A pin stays high for one reason only: its channel was moved to another pin, by
\* servoSetChannelIO or by servoInit, during its pulse.  No other interleaving of
\* calls and interrupts, between the two stores of servoSetChannelIO or with the
\* driver turned off and on, leaves a pin high that is not the current channel's.
OneHigh == high \ moved \subseteq Current
=============================================================================
