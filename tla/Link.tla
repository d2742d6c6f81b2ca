-------------------------------- MODULE Link --------------------------------
(***************************************************************************)
(* What a serial line with a receive buffer promises: bytes arrive in the  *)
(* order they were sent, each once and unchanged; one that finds the       *)
(* buffer full is lost.                                                    *)
(***************************************************************************)
EXTENDS Naturals, Sequences

CONSTANTS Bytes, Capacity

VARIABLES
  inFlight,     \* the bytes on their way
  buffer        \* those the receiver has and the program has not

vars == <<inFlight, buffer>>

Init == inFlight = <<>> /\ buffer = <<>>

Send(b) == inFlight' = Append(inFlight, b) /\ UNCHANGED buffer

Room == Len(buffer) < Capacity

Arrive ==
  /\ inFlight # <<>> /\ inFlight' = Tail(inFlight)
  /\ buffer' = IF Room THEN Append(buffer, Head(inFlight)) ELSE buffer

Receive == buffer # <<>> /\ buffer' = Tail(buffer) /\ UNCHANGED inFlight

Next == (\E b \in Bytes : Send(b)) \/ Arrive \/ Receive

Spec == Init /\ [][Next]_vars
=============================================================================
