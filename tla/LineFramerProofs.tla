-------------------------- MODULE LineFramerProofs --------------------------
(***************************************************************************)
(* For every stream, every limit and every division into chunks, the       *)
(* framer delivers what the stream alone determines, within a bounded      *)
(* buffer.  The lemmas say what one line adds to the reference.            *)
(***************************************************************************)
EXTENDS LineFramer, TLAPS

\* The position c is where a line of the stream begins, or its end.
AtLineStart(c) == c > 0 => stream[c] = LF

(* A line that ends within the limit, or is shorter than it, adds nothing  *)
(* overlong (framing.py:34, 39).                                           *)
LEMMA WithinLimit ==
  ASSUME stream \in Seq(Byte),
         NEW c \in Nat, NEW n \in Nat, c <= n,
         AtLineStart(c), ~Overlong(c),
         n < c + MaxRecordBytes \/ (n <= c + MaxRecordBytes /\ stream[n] = LF)
  PROVE  ~Overlong(n)
<1>1. SUFFICES ASSUME NEW a \in 1 .. n - MaxRecordBytes + 1,
                      LineStart(a), NoLF(a, a + MaxRecordBytes - 1)
               PROVE  FALSE
  BY DEF Overlong
<1>2. MaxRecordBytes \in Nat /\ MaxRecordBytes >= 2
  BY LineFramerAssumption
<1>3. CASE a + MaxRecordBytes - 1 <= c
  <2>1. a \in 1 .. c - MaxRecordBytes + 1
    BY <1>2, <1>3
  <2>2. Overlong(c)
    BY <2>1, <1>1 DEF Overlong
  <2> QED BY <2>2
<1>4. CASE a <= c /\ c < a + MaxRecordBytes - 1
  <2>1. c \in a .. a + MaxRecordBytes - 1 /\ c > 0
    BY <1>2, <1>4
  <2>2. stream[c] # LF
    BY <2>1, <1>1 DEF NoLF
  <2> QED BY <2>1, <2>2 DEF AtLineStart
<1>5. CASE a > c
  <2>1. n = c + MaxRecordBytes /\ stream[n] = LF
    BY <1>2, <1>5
  <2>2. n \in a .. a + MaxRecordBytes - 1
    BY <1>2, <1>5, <2>1
  <2> QED BY <1>1, <2>1, <2>2 DEF NoLF
<1> QED BY <1>2, <1>3, <1>4, <1>5

(* A line that has no LF within the limit is overlong.                     *)
LEMMA BeyondLimit ==
  ASSUME NEW c \in Nat, NEW n \in Nat,
         AtLineStart(c), NoLF(c + 1, c + MaxRecordBytes), c + MaxRecordBytes <= n
  PROVE  Overlong(n)
<1>1. MaxRecordBytes \in Nat /\ MaxRecordBytes >= 2
  BY LineFramerAssumption
<1>2. c + 1 \in 1 .. n - MaxRecordBytes + 1
  BY <1>1
<1>3. LineStart(c + 1)
  BY DEF LineStart, AtLineStart
<1>4. (c + 1) + MaxRecordBytes - 1 = c + MaxRecordBytes
  BY <1>1
<1> QED BY <1>2, <1>3, <1>4 DEF Overlong

(* Bytes in which no acceptable line ends add no line.                     *)
LEMMA NoNewLine ==
  ASSUME NEW c \in Nat, NEW n \in Nat, c <= n,
         \A i \in c + 1 .. n : stream[i] # LF \/ Overlong(i)
  PROVE  Lines(n) = Lines(c)
<1>1. ASSUME NEW r \in Lines(n)
      PROVE  r \in Lines(c)
  <2>1. /\ r \in (1..n) \X (1..n) /\ r[1] <= r[2]
        /\ LineStart(r[1]) /\ stream[r[2]] = LF /\ NoLF(r[1], r[2] - 1)
        /\ ~Overlong(r[2])
    BY DEF Lines
  <2>2. r[2] \notin c + 1 .. n
    BY <2>1
  <2>3. r[1] \in 1..c /\ r[2] \in 1..c
    BY <2>1, <2>2
  <2>4. r \in (1..c) \X (1..c)
    BY <2>1, <2>3
  <2> QED BY <2>1, <2>4 DEF Lines
<1>2. ASSUME NEW r \in Lines(c)
      PROVE  r \in Lines(n)
  <2>1. r \in (1..c) \X (1..c)
    BY DEF Lines
  <2>2. r \in (1..n) \X (1..n)
    BY <2>1
  <2> QED BY <2>2 DEF Lines
<1> QED BY <1>1, <1>2

(* A line that ends within the limit is the one line it adds               *)
(* (framing.py:42).                                                        *)
LEMMA OneNewLine ==
  ASSUME stream \in Seq(Byte),
         NEW c \in Nat, NEW p \in Nat, c < p,
         AtLineStart(c), ~Overlong(p),
         stream[p] = LF, NoLF(c + 1, p - 1)
  PROVE  Lines(p) = Lines(c) \cup {<<c + 1, p>>}
<1>1. ASSUME NEW r \in Lines(p), r \notin Lines(c)
      PROVE  r = <<c + 1, p>>
  <2>1. /\ r \in (1..p) \X (1..p) /\ r[1] <= r[2]
        /\ LineStart(r[1]) /\ stream[r[2]] = LF /\ NoLF(r[1], r[2] - 1)
        /\ ~Overlong(r[2])
    BY <1>1 DEF Lines
  <2>2. r[1] \in 1..p /\ r[2] \in 1..p /\ r = <<r[1], r[2]>>
    BY <2>1
  <2>3. r[2] > c
    <3>1. SUFFICES ASSUME r[2] <= c PROVE FALSE
      BY <2>2
    <3>2. r \in (1..c) \X (1..c)
      BY <2>1, <2>2, <3>1
    <3> QED BY <1>1, <2>1, <3>2 DEF Lines
  <2>4. r[2] = p
    BY <2>1, <2>2, <2>3 DEF NoLF
  <2>5. r[1] > c
    <3>1. SUFFICES ASSUME r[1] <= c PROVE FALSE
      BY <2>2
    <3>2. c \in r[1] .. r[2] - 1 /\ c > 0
      BY <2>2, <2>4, <3>1
    <3> QED BY <2>1, <3>2 DEF NoLF, AtLineStart
  <2>6. r[1] = c + 1
    <3>1. SUFFICES ASSUME r[1] # c + 1 PROVE FALSE
      OBVIOUS
    <3>2. r[1] - 1 \in c + 1 .. p - 1 /\ r[1] # 1
      BY <2>2, <2>5, <3>1
    <3>3. stream[r[1] - 1] = LF
      BY <2>1, <3>2 DEF LineStart
    <3> QED BY <3>2, <3>3 DEF NoLF
  <2> QED BY <2>2, <2>4, <2>6
<1>2. <<c + 1, p>> \in Lines(p)
  <2>1. <<c + 1, p>> \in (1..p) \X (1..p) /\ c + 1 <= p
    OBVIOUS
  <2>2. LineStart(c + 1)
    BY DEF LineStart, AtLineStart
  <2> QED BY <2>1, <2>2 DEF Lines
<1>3. ASSUME NEW r \in Lines(c)
      PROVE  r \in Lines(p)
  <2>1. r \in (1..c) \X (1..c)
    BY DEF Lines
  <2>2. r \in (1..p) \X (1..p)
    BY <2>1
  <2> QED BY <2>2 DEF Lines
<1> QED BY <1>1, <1>2, <1>3

-----------------------------------------------------------------------------
(* The inductive invariant.                                                *)

(* A framer that has seen nothing has nothing to deliver.                  *)
LEMMA InitInv == Init => IInv
<1> SUFFICES ASSUME Init PROVE IInv
  OBVIOUS
<1>1. MaxRecordBytes \in Nat /\ MaxRecordBytes >= 2
  BY LineFramerAssumption
<1>2. stream \in Seq(Byte) /\ Len(stream) \in Nat
  BY LineFramerAssumption DEF Init
<1>3. ~Overlong(0)
  BY <1>1 DEF Overlong
<1>4. Lines(0) = {}
  BY DEF Lines
<1>5. NoLF(1, 0)
  BY DEF NoLF
<1>6. TypeOK
  <2>1. received \in 0..Len(stream) /\ consumed \in 0..received
    BY <1>2 DEF Init
  <2>2. /\ feeding \in BOOLEAN /\ failed \in BOOLEAN
        /\ records \in SUBSET Record /\ delivered \in SUBSET Record
    BY Zenon DEF Init
  <2> QED BY <1>2, <2>1, <2>2 DEF TypeOK
<1>7. Cutting /\ ChunkIndependent /\ BufferBounded
  BY <1>1, <1>3, <1>4, <1>5 DEF Init, Cutting, ChunkIndependent, BufferBounded
<1> QED BY <1>6, <1>7 DEF Init, IInv

(* What the invariant gives at the start of a turn of the loop.            *)
LEMMA InLoop ==
  ASSUME IInv, feeding
  PROVE  /\ stream \in Seq(Byte) /\ Len(stream) \in Nat
         /\ received \in Nat /\ received <= Len(stream)
         /\ consumed \in Nat /\ consumed <= received
         /\ records \in SUBSET Record /\ delivered \in SUBSET Record
         /\ ~failed
         /\ AtLineStart(consumed) /\ ~Overlong(consumed)
         /\ delivered \cup records = Lines(consumed)
BY DEF IInv, TypeOK, Cutting, AtLineStart

(* feed only makes the buffer longer.                                      *)
LEMMA FeedInv ==
  ASSUME IInv, NEW k \in 1 .. Len(stream) - received, feed(k)
  PROVE  IInv'
<1>1. /\ stream' = stream /\ consumed' = consumed /\ records' = records
      /\ delivered' = delivered /\ failed' = failed /\ feeding' = TRUE
      /\ received' = received + k /\ ~failed
  BY DEF feed
<1>2. stream \in Seq(Byte) /\ Len(stream) \in Nat
  BY DEF IInv, TypeOK
<1>3. received \in 0..Len(stream) /\ consumed \in 0..received
  BY DEF IInv, TypeOK
<1>4. received' \in 0..Len(stream') /\ consumed' \in 0..received'
  BY <1>1, <1>2, <1>3
<1>5. TypeOK'
  BY <1>1, <1>4 DEF IInv, TypeOK
<1>6. Cutting'
  BY <1>1 DEF IInv, Cutting, Overlong, Lines, LineStart, NoLF
<1> QED BY <1>1, <1>5, <1>6 DEF IInv, ChunkIndependent, BufferBounded

(* A record leaves the buffer for the local records.                       *)
LEMMA CutInv ==
  ASSUME IInv, CutRecord
  PROVE  IInv'
<1>1. feeding /\ UNCHANGED <<stream, received, feeding, delivered, failed>>
  BY DEF CutRecord
<1>2. PICK p \in consumed + 1 .. received :
        /\ LineEnd(p) /\ ~RecordTooLong(p)
        /\ records' = records \cup {<<consumed + 1, p>>}
        /\ consumed' = p
  BY DEF CutRecord, AfterRecord
<1>3. /\ stream \in Seq(Byte) /\ Len(stream) \in Nat
      /\ received \in Nat /\ received <= Len(stream)
      /\ consumed \in Nat /\ consumed <= received
      /\ records \in SUBSET Record /\ delivered \in SUBSET Record
      /\ ~failed
      /\ AtLineStart(consumed) /\ ~Overlong(consumed)
      /\ delivered \cup records = Lines(consumed)
  BY <1>1, InLoop
<1>4. p \in Nat /\ consumed < p /\ p <= received
  BY <1>2, <1>3
<1>5. stream[p] = LF /\ NoLF(consumed + 1, p - 1)
  BY <1>2 DEF LineEnd
<1>6. MaxRecordBytes \in Nat
  BY LineFramerAssumption
<1>7. p <= consumed + MaxRecordBytes
  BY <1>2, <1>3, <1>4, <1>6 DEF RecordTooLong
<1>8. ~Overlong(p)
  BY <1>3, <1>4, <1>5, <1>7, WithinLimit
<1>9. Lines(p) = Lines(consumed) \cup {<<consumed + 1, p>>}
  BY <1>3, <1>4, <1>5, <1>8, OneNewLine
<1>10. TypeOK'
  <2>1. consumed' \in 0..received' /\ received' \in 0..Len(stream')
    BY <1>1, <1>2, <1>3, <1>4
  <2>2. <<consumed + 1, p>> \in Record
    BY <1>3, <1>4 DEF Record
  <2>3. records' \in SUBSET Record
    BY <1>2, <1>3, <2>2
  <2> QED BY <1>1, <2>1, <2>3 DEF IInv, TypeOK
<1>11. Cutting'
  <2>1. Overlong(consumed)' <=> Overlong(p)
    BY <1>1, <1>2 DEF Overlong, LineStart, NoLF
  <2>2. Lines(consumed)' = Lines(p)
    BY <1>1, <1>2 DEF Lines, Overlong, LineStart, NoLF
  <2>3. (delivered \cup records)' = Lines(p)
    BY <1>1, <1>2, <1>3, <1>9
  <2> QED BY <1>1, <1>2, <1>5, <1>8, <2>1, <2>2, <2>3 DEF Cutting
<1> QED BY <1>1, <1>3, <1>10, <1>11 DEF IInv, ChunkIndependent, BufferBounded

(* Raising the error hands over the lines before the overlong one, however *)
(* the loop came to know that it is overlong.                              *)
LEMMA RaiseInv ==
  ASSUME IInv, feeding, RaiseFramingError, UNCHANGED <<stream, received>>,
         Overlong(received), Lines(received) = Lines(consumed)
  PROVE  IInv'
<1>1. /\ failed' = TRUE /\ feeding' = FALSE /\ consumed' = received
      /\ delivered' = delivered \cup records /\ records' = {}
      /\ stream' = stream /\ received' = received
  BY DEF RaiseFramingError
<1>2. /\ stream \in Seq(Byte) /\ Len(stream) \in Nat
      /\ received \in Nat /\ received <= Len(stream)
      /\ consumed \in Nat /\ consumed <= received
      /\ records \in SUBSET Record /\ delivered \in SUBSET Record
      /\ delivered \cup records = Lines(consumed)
  BY InLoop
<1>3. TypeOK'
  <2>1. received' \in 0..Len(stream') /\ consumed' \in 0..received'
    BY <1>1, <1>2
  <2>2. feeding' \in BOOLEAN /\ failed' \in BOOLEAN
    BY <1>1, Zenon
  <2>3. records' \in SUBSET Record /\ delivered' \in SUBSET Record
    BY <1>1, <1>2
  <2> QED BY <1>1, <1>2, <2>1, <2>2, <2>3 DEF TypeOK
<1>4. ChunkIndependent'
  <2>1. Overlong(received)'
    BY <1>1 DEF Overlong, LineStart, NoLF
  <2>2. Lines(received)' = Lines(received)
    BY <1>1 DEF Lines, Overlong, LineStart, NoLF
  <2> QED BY <1>1, <1>2, <2>1, <2>2 DEF ChunkIndependent
<1>5. BufferBounded'
  <2>1. MaxRecordBytes \in Nat /\ MaxRecordBytes >= 2
    BY LineFramerAssumption
  <2> QED BY <1>1, <1>2, <2>1 DEF BufferBounded, NoLF
<1> QED BY <1>1, <1>3, <1>4, <1>5 DEF IInv, Cutting

(* A complete line beyond the limit ends the call with the error.          *)
LEMMA RejectRecordInv ==
  ASSUME IInv, RejectRecord
  PROVE  IInv'
<1>1. feeding /\ RaiseFramingError /\ UNCHANGED <<stream, received>>
  BY DEF RejectRecord
<1>2. PICK p \in consumed + 1 .. received : LineEnd(p) /\ RecordTooLong(p)
  BY DEF RejectRecord
<1>3. /\ received \in Nat /\ consumed \in Nat /\ consumed <= received
      /\ AtLineStart(consumed)
  BY <1>1, InLoop
<1>4. MaxRecordBytes \in Nat
  BY LineFramerAssumption
<1>5. p \in Nat /\ consumed + MaxRecordBytes <= p - 1 /\ p <= received
  BY <1>2, <1>3, <1>4 DEF RecordTooLong
<1>6. NoLF(consumed + 1, p - 1)
  BY <1>2 DEF LineEnd
<1>7. NoLF(consumed + 1, consumed + MaxRecordBytes)
  BY <1>3, <1>4, <1>5, <1>6 DEF NoLF
<1>8. Overlong(received)
  BY <1>3, <1>4, <1>5, <1>7, BeyondLimit
<1>9. ASSUME NEW i \in consumed + 1 .. received
      PROVE  stream[i] # LF \/ Overlong(i)
  <2>1. i \in Nat
    BY <1>3
  <2>2. CASE i <= p - 1
    BY <1>3, <1>5, <1>6, <2>1, <2>2 DEF NoLF
  <2>3. CASE i > p - 1
    <3>1. consumed + MaxRecordBytes <= i
      BY <1>3, <1>4, <1>5, <2>1, <2>3
    <3> QED BY <1>3, <1>7, <2>1, <3>1, BeyondLimit
  <2> QED BY <1>5, <2>1, <2>2, <2>3
<1>10. Lines(received) = Lines(consumed)
  BY <1>3, <1>9, NoNewLine
<1> QED BY <1>1, <1>8, <1>10, RaiseInv

(* A partial line that has reached the limit does the same.                *)
LEMMA RejectPartialInv ==
  ASSUME IInv, RejectPartial
  PROVE  IInv'
<1>1. /\ feeding /\ RaiseFramingError /\ UNCHANGED <<stream, received>>
      /\ NoLF(consumed + 1, received) /\ PartialTooLong
  BY DEF RejectPartial
<1>2. /\ received \in Nat /\ consumed \in Nat /\ consumed <= received
      /\ AtLineStart(consumed)
  BY <1>1, InLoop
<1>3. MaxRecordBytes \in Nat
  BY LineFramerAssumption
<1>4. consumed + MaxRecordBytes <= received
  BY <1>1, <1>2, <1>3 DEF PartialTooLong
<1>5. NoLF(consumed + 1, consumed + MaxRecordBytes)
  BY <1>1, <1>2, <1>3, <1>4 DEF NoLF
<1>6. Overlong(received)
  BY <1>2, <1>4, <1>5, BeyondLimit
<1>7. Lines(received) = Lines(consumed)
  BY <1>1, <1>2, NoNewLine DEF NoLF
<1> QED BY <1>1, <1>6, <1>7, RaiseInv

(* Without a further LF, and below the limit, the call returns its records.*)
LEMMA ReturnInv ==
  ASSUME IInv, Return
  PROVE  IInv'
<1>1. /\ feeding /\ NoLF(consumed + 1, received) /\ ~PartialTooLong
      /\ feeding' = FALSE /\ delivered' = delivered \cup records /\ records' = {}
      /\ stream' = stream /\ received' = received /\ consumed' = consumed
      /\ failed' = failed
  BY DEF Return
<1>2. /\ stream \in Seq(Byte) /\ Len(stream) \in Nat
      /\ received \in Nat /\ received <= Len(stream)
      /\ consumed \in Nat /\ consumed <= received
      /\ records \in SUBSET Record /\ delivered \in SUBSET Record
      /\ ~failed
      /\ AtLineStart(consumed) /\ ~Overlong(consumed)
      /\ delivered \cup records = Lines(consumed)
  BY <1>1, InLoop
<1>3. MaxRecordBytes \in Nat
  BY LineFramerAssumption
<1>4. received < consumed + MaxRecordBytes
  BY <1>1, <1>2, <1>3 DEF PartialTooLong
<1>5. ~Overlong(received)
  BY <1>2, <1>4, WithinLimit
<1>6. Lines(received) = Lines(consumed)
  BY <1>1, <1>2, NoNewLine DEF NoLF
<1>7. TypeOK'
  BY <1>1, <1>2 DEF IInv, TypeOK
<1>8. Cutting'
  <2>1. (Overlong(consumed)' <=> Overlong(consumed)) /\ Lines(consumed)' = Lines(consumed)
    BY <1>1 DEF Lines, Overlong, LineStart, NoLF
  <2> QED BY <1>1, <1>2, <2>1 DEF Cutting, AtLineStart
<1>9. ChunkIndependent'
  <2>1. (Overlong(received)' <=> Overlong(received)) /\ Lines(received)' = Lines(received)
    BY <1>1 DEF Lines, Overlong, LineStart, NoLF
  <2> QED BY <1>1, <1>2, <1>5, <1>6, <2>1 DEF ChunkIndependent
<1>10. BufferBounded'
  BY <1>1, <1>2, <1>3, <1>4 DEF BufferBounded, NoLF
<1> QED BY <1>1, <1>2, <1>7, <1>8, <1>9, <1>10 DEF IInv

(* Every step keeps the invariant.                                         *)
LEMMA StepInv == IInv /\ [Next]_vars => IInv'
<1> SUFFICES ASSUME IInv, [Next]_vars PROVE IInv'
  OBVIOUS
<1>1. CASE \E k \in 1 .. Len(stream) - received : feed(k)
  BY <1>1, FeedInv
<1>2. CASE CutRecord
  BY <1>2, CutInv
<1>3. CASE RejectRecord
  BY <1>3, RejectRecordInv
<1>4. CASE RejectPartial
  BY <1>4, RejectPartialInv
<1>5. CASE Return
  BY <1>5, ReturnInv
<1>6. CASE UNCHANGED vars
  BY <1>6 DEF vars, IInv, TypeOK, Cutting, ChunkIndependent, BufferBounded, Lines,
              Overlong, LineStart, NoLF
<1> QED BY <1>1, <1>2, <1>3, <1>4, <1>5, <1>6 DEF Next

(* The invariant holds for every stream, limit and division into chunks.   *)
THEOREM Framing == Spec => []IInv
<1> QED BY InitInv, StepInv, PTL DEF Spec

(* Type correctness of the framer (framing.py:16-43).                      *)
THEOREM FramerTypeCorrect == Spec => []TypeOK
<1>1. IInv => TypeOK
  BY DEF IInv
<1> QED BY <1>1, Framing, PTL

(* What is delivered and whether the framer fails depend on the bytes      *)
(* received alone (framing.py:28-43).                                      *)
THEOREM ChunksDoNotMatter == Spec => []ChunkIndependent
<1>1. IInv => ChunkIndependent
  BY DEF IInv
<1> QED BY <1>1, Framing, PTL

(* Between two calls the buffer is shorter than the limit                  *)
(* (framing.py:33-36).                                                     *)
THEOREM BufferStaysBounded == Spec => []BufferBounded
<1>1. IInv => BufferBounded
  BY DEF IInv
<1> QED BY <1>1, Framing, PTL
=============================================================================
