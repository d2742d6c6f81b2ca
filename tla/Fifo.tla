-------------------------------- MODULE Fifo --------------------------------
(***************************************************************************)
(* What buffer.h promises of a cBuffer: a bounded first-in first-out queue *)
(* of bytes.  `ret' is what the last call of its reader returned,          *)
(* `refused' counts the bytes it had no room for.                          *)
(***************************************************************************)
EXTENDS Naturals, Sequences

CONSTANTS
  Size,     \* bytes the buffer can hold
  Data,     \* the byte values; a read from an empty queue returns byte 0
  Word      \* counts and positions are below Word

VARIABLES q, ret, refused

vars == <<q, ret, refused>>

Init ==
  /\ q = <<>>
  /\ ret = 0
  /\ refused = 0

\* The oldest byte leaves the queue and is returned.
Get ==
  /\ q' = IF q = <<>> THEN q ELSE Tail(q)
  /\ ret' = IF q = <<>> THEN 0 ELSE Head(q)
  /\ UNCHANGED refused

\* The n oldest bytes, or all there are, are discarded.
Dump(n) ==
  /\ q' = IF n < Len(q) THEN SubSeq(q, n + 1, Len(q)) ELSE <<>>
  /\ UNCHANGED <<ret, refused>>

\* The byte at position i of the queue, which keeps its bytes.
Peek(i) ==
  /\ i < Len(q)
  /\ ret' = q[i + 1]
  /\ UNCHANGED <<q, refused>>

\* The byte joins the queue, or the queue is full and does not change.
Add(d) ==
  /\ q' = IF Len(q) < Size THEN Append(q, d) ELSE q
  /\ refused' = IF Len(q) < Size THEN refused ELSE (refused + 1) % Word
  /\ UNCHANGED ret

\* How many more bytes the queue takes.
Room ==
  /\ ret' = Size - Len(q)
  /\ UNCHANGED <<q, refused>>

Flush ==
  /\ q' = <<>>
  /\ UNCHANGED <<ret, refused>>

Next ==
  \/ Get \/ Room \/ Flush
  \/ \E n \in 0 .. Word - 1 : Dump(n) \/ Peek(n)
  \/ \E d \in Data : Add(d)

Spec == Init /\ [][Next]_vars
=============================================================================
