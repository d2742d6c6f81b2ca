------------------------------ MODULE CBuffer -------------------------------
(***************************************************************************)
(* The circular byte buffer of avrlib/buffer.c.  Every function runs       *)
(* between CRITICAL_SECTION_START and CRITICAL_SECTION_END (interrupts     *)
(* off, SREG restored), so each is one atomic step, also when an interrupt *)
(* handler and the main program share the buffer.                          *)
(*                                                                         *)
(* The indices are unsigned shorts: sums wrap at Word (2^16 in the code).  *)
(***************************************************************************)
EXTENDS Naturals, Sequences

CONSTANTS
  Size,     \* the size field: bytes of storage behind dataptr
  Data,     \* the byte values
  Word      \* one more than the largest unsigned short

\* The index of the last byte plus the length must not wrap.  An AVR has at
\* most 16 KB of SRAM, so a buffer is far smaller than half of 2^16.
ASSUME SizeAssumption == Size \in Nat \ {0} /\ Word \in Nat /\ 2 * Size <= Word
ASSUME DataAssumption == Data \subseteq Nat /\ 0 \in Data

VARIABLES
  dataptr,      \* the storage
  dataindex,    \* where the data starts
  datalength    \* how many bytes there are

bufvars == <<dataptr, dataindex, datalength>>

BufTypeOK ==
  /\ dataptr \in [0 .. Size - 1 -> Data]
  /\ dataindex \in 0 .. Size - 1
  /\ datalength \in 0 .. Size

\* The storage slot that is i places behind dataindex.
Slot(i) == ((dataindex + i) % Word) % Size

\* The data of the buffer, oldest byte first.
Contents == [i \in 1 .. datalength |-> dataptr[Slot(i - 1)]]

\* (mutant: the index is not wrapped)
Advance_noWrap(n) == (dataindex + n) % Word

\* Move a start index by n < Size places.
Advance(n) ==
  LET moved == (dataindex + n) % Word
  IN  IF moved >= Size THEN moved - Size ELSE moved

bufferInit ==
  /\ dataptr \in [0 .. Size - 1 -> {0}]
  /\ dataindex = 0
  /\ datalength = 0

\* (mutant: the newest byte leaves, not the oldest)
FrontByte_newest == IF datalength # 0 THEN dataptr[Slot(datalength - 1)] ELSE 0

\* What bufferGetFromFront returns.
FrontByte == IF datalength # 0 THEN dataptr[dataindex] ELSE 0

bufferGetFromFront ==
  /\ IF datalength # 0
       THEN dataindex' = Advance(1) /\ datalength' = datalength - 1
       ELSE UNCHANGED <<dataindex, datalength>>
  /\ UNCHANGED dataptr

bufferDumpFromFront(numbytes) ==
  /\ IF numbytes < datalength
       THEN dataindex' = Advance(numbytes) /\ datalength' = datalength - numbytes
       ELSE datalength' = 0 /\ UNCHANGED dataindex
  /\ UNCHANGED dataptr

bufferGetAtIndex(index) == dataptr[Slot(index)]

\* What bufferIsNotFull returns: the bytes left, 0 when full.
bufferIsNotFull == Size - datalength

\* (mutant: off by one)
HasRoom_late == datalength <= Size

HasRoom == datalength < Size

bufferAddToEnd(data) ==
  /\ IF HasRoom
       THEN /\ dataptr' = [dataptr EXCEPT ![Slot(datalength)] = data]
            /\ datalength' = datalength + 1
       ELSE UNCHANGED <<dataptr, datalength>>
  /\ UNCHANGED dataindex

\* What bufferAddToEnd returns: -1 in an unsigned char, or 0.
AddResult == IF HasRoom THEN 255 ELSE 0

bufferFlush ==
  /\ datalength' = 0
  /\ UNCHANGED <<dataptr, dataindex>>
=============================================================================
