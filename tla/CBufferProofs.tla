--------------------------- MODULE CBufferProofs ----------------------------
(***************************************************************************)
(* For every buffer size and every set of byte values: what the functions  *)
(* of a cBuffer do to its contents, and that they keep its fields in       *)
(* range.                                                                  *)
(***************************************************************************)
EXTENDS CBuffer, SequenceTheorems, TLAPS

\* Below 2 * Size a remainder is at most one subtraction, which is what the
\* `if (dataindex >= size) dataindex -= size' of buffer.c relies on.
LEMMA ModSmall ==
  ASSUME NEW n \in Nat, NEW s \in Nat \ {0}, n < 2 * s
  PROVE  n % s = IF n < s THEN n ELSE n - s
  OBVIOUS

\* Below the width of an unsigned short nothing wraps.
LEMMA ModNone ==
  ASSUME NEW n \in Nat, NEW w \in Nat, n < w
  PROVE  n % w = n
  OBVIOUS

\* The slot i places behind the start b.
LEMMA SlotIs ==
  ASSUME NEW b \in 0 .. Size - 1, NEW i \in 0 .. Size - 1
  PROVE  /\ ((b + i) % Word) % Size = IF b + i < Size THEN b + i ELSE b + i - Size
         /\ ((b + i) % Word) % Size \in 0 .. Size - 1
  <1>1. b + i \in Nat /\ b + i < 2 * Size /\ b + i < Word
    BY SizeAssumption
  <1>2. (b + i) % Word = b + i
    BY <1>1, ModNone, SizeAssumption
  <1>3. (b + i) % Size = IF b + i < Size THEN b + i ELSE b + i - Size
    <2>1. PICK n \in Nat : n = b + i
      BY <1>1
    <2>2. n < 2 * Size
      BY <1>1, <2>1
    <2>3. n % Size = IF n < Size THEN n ELSE n - Size
      BY <2>2, SizeAssumption
    <2>4. QED
      BY <1>1, <2>1, <2>3, SizeAssumption
  <1>4. QED
    BY <1>1, <1>2, <1>3, SizeAssumption

\* Advancing the start by n is the same move.
LEMMA AdvanceIs ==
  ASSUME dataindex \in 0 .. Size - 1, NEW n \in 0 .. Size
  PROVE  /\ Advance(n) = IF dataindex + n < Size THEN dataindex + n ELSE dataindex + n - Size
         /\ Advance(n) \in 0 .. Size - 1
  <1>1. dataindex + n \in Nat /\ dataindex + n < 2 * Size /\ dataindex + n < Word
    BY SizeAssumption
  <1>2. (dataindex + n) % Word = dataindex + n
    BY <1>1, ModNone, SizeAssumption
  <1>3. QED
    BY <1>1, <1>2, SizeAssumption DEF Advance

\* Contents is a sequence of bytes, as long as datalength says.
LEMMA ContentsIsSeq ==
  BufTypeOK => /\ Contents \in Seq(Data)
               /\ Len(Contents) = datalength
  <1> SUFFICES ASSUME BufTypeOK
               PROVE  Contents \in Seq(Data) /\ Len(Contents) = datalength
    OBVIOUS
  <1>1. \A i \in 1 .. datalength : dataptr[Slot(i - 1)] \in Data
    <2> SUFFICES ASSUME NEW i \in 1 .. datalength
                 PROVE  dataptr[Slot(i - 1)] \in Data
      OBVIOUS
    <2>1. i - 1 \in 0 .. Size - 1
      BY SizeAssumption DEF BufTypeOK
    <2>2. Slot(i - 1) \in 0 .. Size - 1
      BY <2>1, SlotIs DEF BufTypeOK, Slot
    <2>3. QED
      BY <2>2 DEF BufTypeOK
  <1>2. datalength \in Nat
    BY SizeAssumption DEF BufTypeOK
  <1>3. QED
    BY <1>1, <1>2 DEF Contents

\* When the start moves n places and n bytes leave, the others keep their order.
LEMMA ContentsAfterDump ==
  ASSUME BufTypeOK, NEW n \in 1 .. datalength,
         dataptr' = dataptr, datalength' = datalength - n, dataindex' = Advance(n)
  PROVE  \A i \in 1 .. datalength - n : Contents'[i] = Contents[i + n]
  <1> SUFFICES ASSUME NEW i \in 1 .. datalength - n
               PROVE  Contents'[i] = Contents[i + n]
    OBVIOUS
  <1> USE SizeAssumption DEF BufTypeOK
  <1>1. /\ n \in 0 .. Size
        /\ i - 1 \in 0 .. Size - 1
        /\ i + n - 1 \in 0 .. Size - 1
        /\ i + n \in 1 .. datalength
        /\ i \in 1 .. datalength'
    OBVIOUS
  <1>2. dataindex' \in 0 .. Size - 1
    BY <1>1, AdvanceIs
  <1>3. ((dataindex' + (i - 1)) % Word) % Size
           = ((dataindex + (i + n - 1)) % Word) % Size
    <2>1. dataindex' = IF dataindex + n < Size THEN dataindex + n ELSE dataindex + n - Size
      BY <1>1, AdvanceIs
    <2>2. ((dataindex' + (i - 1)) % Word) % Size =
            IF dataindex' + (i - 1) < Size THEN dataindex' + (i - 1)
                                           ELSE dataindex' + (i - 1) - Size
      BY <1>1, <1>2, SlotIs
    <2>3. ((dataindex + (i + n - 1)) % Word) % Size =
            IF dataindex + (i + n - 1) < Size THEN dataindex + (i + n - 1)
                                              ELSE dataindex + (i + n - 1) - Size
      BY <1>1, SlotIs
    <2>4. QED
      BY <1>1, <2>1, <2>2, <2>3
  <1>4. Contents'[i] = dataptr'[((dataindex' + (i - 1)) % Word) % Size]
    BY <1>1 DEF Contents, Slot
  <1>5. Contents[i + n] = dataptr[((dataindex + (i + n - 1)) % Word) % Size]
    BY <1>1 DEF Contents, Slot
  <1>6. QED
    BY <1>3, <1>4, <1>5

LEMMA ContentsIsSeqNext ==
  (BufTypeOK => /\ Contents \in Seq(Data)
                /\ Len(Contents) = datalength)'
  BY ContentsIsSeq, PTL

\* What bufferGetFromFront does to a buffer that holds data: the first byte is
\* returned and the others move up.
LEMMA GetContents ==
  ASSUME BufTypeOK, datalength # 0, bufferGetFromFront
  PROVE  /\ FrontByte = Contents[1]
         /\ datalength' = datalength - 1
         /\ \A i \in 1 .. datalength' : Contents'[i] = Contents[i + 1]
  <1> USE SizeAssumption DEF BufTypeOK
  <1>1. /\ dataptr' = dataptr
        /\ datalength' = datalength - 1
        /\ dataindex' = Advance(1)
    BY DEF bufferGetFromFront
  <1>2. 1 \in 1 .. datalength
    OBVIOUS
  <1>3. \A i \in 1 .. datalength - 1 : Contents'[i] = Contents[i + 1]
    BY <1>1, <1>2, ContentsAfterDump
  <1>4. Slot(0) = dataindex
    <2>1. dataindex + 0 = dataindex /\ dataindex < Size /\ 0 \in 0 .. Size - 1
      OBVIOUS
    <2>2. ((dataindex + 0) % Word) % Size = dataindex
      BY <2>1, SlotIs
    <2>3. QED
      BY <2>2 DEF Slot
  <1>5. Contents[1] = dataptr[dataindex]
    BY <1>2, <1>4 DEF Contents
  <1>6. QED
    BY <1>1, <1>3, <1>5 DEF FrontByte

\* What bufferAddToEnd does to a buffer with room: the byte comes last.
LEMMA AddContents ==
  ASSUME BufTypeOK, NEW d \in Data, HasRoom, bufferAddToEnd(d)
  PROVE  /\ datalength' = datalength + 1
         /\ \A i \in 1 .. datalength : Contents'[i] = Contents[i]
         /\ Contents'[datalength + 1] = d
  <1> USE SizeAssumption DEF BufTypeOK
  <1>1. /\ dataptr' = [dataptr EXCEPT ![Slot(datalength)] = d]
        /\ datalength' = datalength + 1
        /\ dataindex' = dataindex
        /\ datalength \in 0 .. Size - 1
    BY DEF bufferAddToEnd, HasRoom
  <1>2. Slot(datalength) \in 0 .. Size - 1
    BY <1>1, SlotIs DEF Slot
  <1>3. ASSUME NEW i \in 1 .. datalength
        PROVE  Contents'[i] = Contents[i]
    <2>1. i - 1 \in 0 .. Size - 1 /\ i - 1 # datalength
      OBVIOUS
    <2>2. Slot(i - 1) # Slot(datalength)
      <3>1. Slot(i - 1) = IF dataindex + (i - 1) < Size THEN dataindex + (i - 1)
                                                       ELSE dataindex + (i - 1) - Size
        BY <2>1, SlotIs DEF Slot
      <3>2. Slot(datalength) = IF dataindex + datalength < Size
                                 THEN dataindex + datalength
                                 ELSE dataindex + datalength - Size
        BY <1>1, SlotIs DEF Slot
      <3>3. QED
        BY <1>1, <2>1, <3>1, <3>2
    <2>3. Contents'[i] = dataptr'[Slot(i - 1)]
      BY <1>1 DEF Contents, Slot
    <2>4. Contents[i] = dataptr[Slot(i - 1)]
      BY DEF Contents
    <2>5. Slot(i - 1) \in 0 .. Size - 1
      BY <2>1, SlotIs DEF Slot
    <2>6. QED
      BY <1>1, <2>2, <2>3, <2>4, <2>5
  <1>4. Contents'[datalength + 1] = d
    <2>1. Contents'[datalength + 1] = dataptr'[Slot(datalength)]
      BY <1>1 DEF Contents, Slot
    <2>2. QED
      BY <1>1, <1>2, <2>1
  <1>5. QED
    BY <1>1, <1>3, <1>4

\* Both keep the fields in range.
LEMMA GetKeepsType ==
  ASSUME BufTypeOK, bufferGetFromFront
  PROVE  BufTypeOK'
  <1> USE SizeAssumption DEF BufTypeOK
  <1>1. Advance(1) \in 0 .. Size - 1
    BY AdvanceIs
  <1>2. QED
    BY <1>1 DEF bufferGetFromFront

LEMMA AddKeepsType ==
  ASSUME BufTypeOK, NEW d \in Data, bufferAddToEnd(d)
  PROVE  BufTypeOK'
  BY SizeAssumption DEF BufTypeOK, bufferAddToEnd, HasRoom
LEMMA DumpKeepsType ==
  ASSUME BufTypeOK, NEW n \in Nat, bufferDumpFromFront(n)
  PROVE  BufTypeOK'
  <1> USE SizeAssumption DEF BufTypeOK
  <1>1. CASE n < datalength
    <2>1. n \in 0 .. Size
      BY <1>1
    <2>2. QED
      BY <1>1, <2>1, AdvanceIs DEF bufferDumpFromFront
  <1>2. CASE ~(n < datalength)
    BY <1>2 DEF bufferDumpFromFront
  <1>3. QED
    BY <1>1, <1>2

LEMMA FlushKeepsType ==
  ASSUME BufTypeOK, bufferFlush
  PROVE  BufTypeOK'
  BY SizeAssumption DEF BufTypeOK, bufferFlush

LEMMA FlushedContents ==
  ASSUME datalength' = 0
  PROVE  Contents' = <<>>
  BY DEF Contents

-----------------------------------------------------------------------------
\* The same, said of whole sequences.

\* bufferGetFromFront takes the head of the contents and leaves the tail.
LEMMA GetIsTail ==
  ASSUME BufTypeOK, BufTypeOK', datalength # 0, bufferGetFromFront
  PROVE  /\ Contents # <<>>
         /\ FrontByte = Head(Contents)
         /\ Contents' = Tail(Contents)
  <1> USE SizeAssumption DEF BufTypeOK
  <1>1. Contents \in Seq(Data) /\ Len(Contents) = datalength
    BY ContentsIsSeq
  <1>2. Contents' \in Seq(Data) /\ Len(Contents') = datalength'
    BY ContentsIsSeqNext
  <1>3. /\ FrontByte = Contents[1]
        /\ datalength' = datalength - 1
        /\ \A i \in 1 .. datalength - 1 : Contents'[i] = Contents[i + 1]
    BY GetContents
  <1>4. Contents # <<>>
    BY <1>1
  <1>5. /\ Tail(Contents) \in Seq(Data)
        /\ Len(Tail(Contents)) = datalength - 1
        /\ \A i \in 1 .. datalength - 1 : Tail(Contents)[i] = Contents[i + 1]
    BY <1>1, <1>4, HeadTailProperties
  <1>6. Contents' = Tail(Contents)
    BY <1>2, <1>3, <1>5, SeqEqual
  <1>7. QED
    BY <1>1, <1>3, <1>4, <1>6

\* bufferDumpFromFront below the length, position by position.
LEMMA DumpContents ==
  ASSUME BufTypeOK, NEW n \in Nat, n < datalength, bufferDumpFromFront(n)
  PROVE  /\ datalength' = datalength - n
         /\ \A i \in 1 .. datalength - n : Contents'[i] = Contents[i + n]
  <1> USE SizeAssumption DEF BufTypeOK
  <1>1. dataptr' = dataptr /\ datalength' = datalength - n /\ dataindex' = Advance(n)
    BY DEF bufferDumpFromFront
  <1>2. CASE n = 0
    <2>1. dataindex' = dataindex
      BY <1>1, <1>2, AdvanceIs
    <2>2. datalength' = datalength
      BY <1>1, <1>2
    <2>3. Contents' = Contents
      BY ONLY <1>1, <2>1, <2>2 DEF Contents, Slot
    <2>4. datalength - n = datalength /\ \A i \in 1 .. datalength : i + n = i
      BY <1>2
    <2>5. QED
      BY <1>1, <2>3, <2>4
  <1>3. CASE n # 0
    BY <1>1, <1>3, ContentsAfterDump
  <1>4. QED
    BY <1>2, <1>3

\* ... and as a sequence.
LEMMA DumpIsSubSeq ==
  ASSUME BufTypeOK, BufTypeOK', NEW n \in Nat, bufferDumpFromFront(n)
  PROVE  Contents' = IF n < Len(Contents) THEN SubSeq(Contents, n + 1, Len(Contents))
                                          ELSE <<>>
  <1> USE SizeAssumption DEF BufTypeOK
  <1>1. Contents \in Seq(Data) /\ Len(Contents) = datalength
    BY ContentsIsSeq
  <1>2. Contents' \in Seq(Data) /\ Len(Contents') = datalength'
    BY ContentsIsSeqNext
  <1>3. CASE n < datalength
    <2>1. /\ datalength' = datalength - n
          /\ \A i \in 1 .. datalength - n : Contents'[i] = Contents[i + n]
      BY <1>3, DumpContents
    <2>2. \A i \in n + 1 .. datalength : Contents[i] \in Data
      BY <1>1, ElementOfSeq
    <2>3. /\ SubSeq(Contents, n + 1, datalength) \in Seq(Data)
          /\ Len(SubSeq(Contents, n + 1, datalength)) = datalength - n
          /\ \A i \in 1 .. datalength - n :
                SubSeq(Contents, n + 1, datalength)[i] = Contents[i + n]
      BY <1>3, <2>2, SubSeqProperties
    <2>4. Contents' = SubSeq(Contents, n + 1, datalength)
      BY <1>2, <2>1, <2>3, SeqEqual
    <2>5. QED
      BY <1>1, <1>3, <2>4
  <1>4. CASE ~(n < datalength)
    <2>1. datalength' = 0
      BY <1>4 DEF bufferDumpFromFront
    <2>2. QED
      BY <1>1, <1>4, <2>1, FlushedContents
  <1>5. QED
    BY <1>3, <1>4

\* bufferAddToEnd appends the byte, when there is room.
LEMMA AddIsAppend ==
  ASSUME BufTypeOK, BufTypeOK', NEW d \in Data, HasRoom, bufferAddToEnd(d)
  PROVE  Contents' = Append(Contents, d)
  <1> USE SizeAssumption DEF BufTypeOK
  <1>1. Contents \in Seq(Data) /\ Len(Contents) = datalength
    BY ContentsIsSeq
  <1>2. Contents' \in Seq(Data) /\ Len(Contents') = datalength'
    BY ContentsIsSeqNext
  <1>3. /\ datalength' = datalength + 1
        /\ \A i \in 1 .. datalength : Contents'[i] = Contents[i]
        /\ Contents'[datalength + 1] = d
    BY AddContents
  <1>4. /\ Append(Contents, d) \in Seq(Data)
        /\ Len(Append(Contents, d)) = datalength + 1
        /\ \A i \in 1 .. datalength : Append(Contents, d)[i] = Contents[i]
        /\ Append(Contents, d)[datalength + 1] = d
    BY <1>1, AppendProperties
  <1>5. \A i \in 1 .. datalength + 1 : Contents'[i] = Append(Contents, d)[i]
    BY <1>3, <1>4
  <1>6. QED
    BY <1>2, <1>3, <1>4, <1>5, SeqEqual
=============================================================================
