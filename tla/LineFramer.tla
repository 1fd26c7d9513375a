----------------------------- MODULE LineFramer -----------------------------
(***************************************************************************)
(* LineFramer (receiver/framing.py): cuts a byte stream that arrives in    *)
(* arbitrary chunks into lines of at most MaxRecordBytes bytes.  One call  *)
(* of feed extends the buffer and then cuts lines from its front in a      *)
(* loop; a step of Next is the extension or one turn of that loop.         *)
(*                                                                         *)
(* A byte is an LF or not.  The buffer is the interval of stream positions *)
(* consumed+1..received, a record the pair of its first and last position; *)
(* the order of the records is that of their positions.                    *)
(***************************************************************************)
EXTENDS Integers, Sequences

CONSTANTS
  Byte, LF,
  Streams,          \* what may be sent on a connection
  MaxRecordBytes    \* _max_record_bytes

ASSUME LineFramerAssumption ==
  /\ LF \in Byte
  /\ Streams \subseteq Seq(Byte)
  /\ MaxRecordBytes \in Nat /\ MaxRecordBytes >= 2

VARIABLES
  stream,      \* all that is sent, of which the framer has seen a prefix
  received,    \* number of bytes passed to feed
  consumed,    \* number of bytes that have left the buffer
  feeding,     \* feed is in its loop
  records,     \* local records of feed
  delivered,   \* history: records returned, or attached to the error raised
  failed       \* feed has raised LineFramingError

vars == <<stream, received, consumed, feeding, records, delivered, failed>>

Record == Nat \X Nat

TypeOK ==
  /\ stream \in Seq(Byte)
  /\ received \in 0..Len(stream)
  /\ consumed \in 0..received
  /\ feeding \in BOOLEAN
  /\ records \in SUBSET Record
  /\ delivered \in SUBSET Record
  /\ failed \in BOOLEAN

Init ==
  /\ stream \in Streams
  /\ received = 0 /\ consumed = 0
  /\ feeding = FALSE /\ records = {}
  /\ delivered = {} /\ failed = FALSE

-----------------------------------------------------------------------------
\* No position of a..b holds an LF.
NoLF(a, b) == \A i \in a..b : stream[i] # LF

\* buffer.find: p is the first LF of the buffer.
LineEnd(p) ==
  /\ p \in consumed + 1 .. received
  /\ stream[p] = LF
  /\ NoLF(consumed + 1, p - 1)

RecordTooLong(p) == p - consumed > MaxRecordBytes

\* Mutant: only complete lines are bounded.
PartialTooLong_never == FALSE

PartialTooLong == received - consumed >= MaxRecordBytes

\* del buffer[:record_size]
AfterRecord(p) == p

\* Mutant: the error carries no records.
RaiseFramingError_bare ==
  /\ failed' = TRUE /\ feeding' = FALSE
  /\ consumed' = received
  /\ records' = {} /\ UNCHANGED delivered

\* The buffer is cleared; the error carries the records cut so far.
RaiseFramingError ==
  /\ failed' = TRUE /\ feeding' = FALSE
  /\ consumed' = received
  /\ delivered' = delivered \cup records /\ records' = {}

-----------------------------------------------------------------------------
\* A call of feed with the next k bytes; the caller drops the framer once it
\* has failed.
feed(k) ==
  /\ ~feeding /\ ~failed
  /\ received' = received + k
  /\ feeding' = TRUE
  /\ UNCHANGED <<stream, consumed, records, delivered, failed>>

CutRecord ==
  /\ feeding
  /\ \E p \in consumed + 1 .. received :
       /\ LineEnd(p) /\ ~RecordTooLong(p)
       /\ records' = records \cup {<<consumed + 1, p>>}
       /\ consumed' = AfterRecord(p)
  /\ UNCHANGED <<stream, received, feeding, delivered, failed>>

RejectRecord ==
  /\ feeding
  /\ \E p \in consumed + 1 .. received : LineEnd(p) /\ RecordTooLong(p)
  /\ RaiseFramingError
  /\ UNCHANGED <<stream, received>>

RejectPartial ==
  /\ feeding
  /\ NoLF(consumed + 1, received) /\ PartialTooLong
  /\ RaiseFramingError
  /\ UNCHANGED <<stream, received>>

Return ==
  /\ feeding
  /\ NoLF(consumed + 1, received) /\ ~PartialTooLong
  /\ feeding' = FALSE
  /\ delivered' = delivered \cup records /\ records' = {}
  /\ UNCHANGED <<stream, received, consumed, failed>>

Next ==
  \/ \E k \in 1 .. Len(stream) - received : feed(k)
  \/ CutRecord \/ RejectRecord \/ RejectPartial \/ Return

Spec == Init /\ [][Next]_vars

-----------------------------------------------------------------------------
(* What a framer that sees the whole prefix at once must do.               *)

LineStart(a) == a = 1 \/ stream[a - 1] = LF

\* Within the first n bytes a line goes beyond the limit.
Overlong(n) ==
  \E a \in 1 .. n - MaxRecordBytes + 1 :
    LineStart(a) /\ NoLF(a, a + MaxRecordBytes - 1)

\* The lines that end within the first n bytes, before any overlong one.
Lines(n) ==
  { r \in (1..n) \X (1..n) :
      /\ r[1] <= r[2]
      /\ LineStart(r[1]) /\ stream[r[2]] = LF /\ NoLF(r[1], r[2] - 1)
      /\ ~Overlong(r[2]) }

(* Between two calls the records handed over and the failure depend only   *)
(* on the bytes received, not on how they were cut into chunks: every      *)
(* complete line before the first overlong one, whole and once, and an     *)
(* error as soon as a line is known to be overlong (framing.py:28-43,      *)
(* docs/architecture.md: lines completed before a framing error are used). *)
ChunkIndependent ==
  ~feeding => delivered = Lines(received) /\ (failed <=> Overlong(received))

(* Between two calls the buffer is shorter than the limit and holds no     *)
(* complete line, so a producer cannot make it grow (framing.py:33-36).    *)
BufferBounded ==
  ~feeding => /\ received - consumed < MaxRecordBytes
              /\ NoLF(consumed + 1, received)

(* What makes the two inductive: inside the loop too, what has been cut is *)
(* what a framer of the consumed prefix would have cut.                    *)
Cutting ==
  ~failed =>
    /\ consumed > 0 => stream[consumed] = LF
    /\ ~Overlong(consumed)
    /\ delivered \cup records = Lines(consumed)

IInv ==
  /\ TypeOK /\ Cutting /\ ChunkIndependent /\ BufferBounded
  /\ ~feeding => records = {}
  /\ failed => ~feeding
=============================================================================
