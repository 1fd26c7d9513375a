------------------------------ MODULE Receiver ------------------------------
(***************************************************************************)
(* ObservationReceiver (receiver/server.py): one producer at a time sends  *)
(* a header and then observations, one per line.  handle_client runs as a  *)
(* coroutine per connection on one event loop: between two awaits nothing  *)
(* else of the process runs.  An action is the code between two awaits, or *)
(* one iteration of a loop inside it; busy names the connection whose      *)
(* coroutine holds the loop, so that a child process, but no other         *)
(* coroutine, may step between two lines of one chunk.                     *)
(*                                                                         *)
(* A chunk is what one read returns after framing: the lines it completes  *)
(* and what follows them.  LineFramer is the framing itself.               *)
(***************************************************************************)
EXTENDS RunState, Sequences

CONSTANTS
  Conns,       \* connections a behaviour may see
  Chunks,      \* what reads may return
  Bad,         \* a line the parser rejects with ContractError
  Unhandled,   \* a line on which the parser raises any other exception
  MaxRecords   \* bound: lines accepted or rejected in a behaviour

Line == Header \cup Observations \cup {Bad, Unhandled}
Tail_ == {"none", "partial", "overlong"}

ASSUME ReceiverAssumption ==
  /\ \A ch \in Chunks : /\ ch.lines \in Seq(Line) /\ ch.tail \in Tail_
                        /\ ch.lines = <<>> => ch.tail # "none"
  /\ None \notin Conns /\ MaxRecords \in Nat
  /\ {Bad, Unhandled} \cap (Header \cup Observation) = {} /\ Bad # Unhandled
  /\ Header \cap Observation = {}

VARIABLES
  phase,            \* where each connection's coroutine is
  accepted_header,  \* local accepted_header of each coroutine
  partial,          \* each framer holds an incomplete line
  busy,             \* connection whose coroutine holds the event loop, or None
  batch,            \* lines of its chunk still to be processed
  framing_error,    \* ... after which a framing error is raised
  active,           \* _active
  state,            \* state, an ExecutionState
  snapshot,         \* snapshot, the counters of ReceiverSnapshot
  told              \* history: the state last passed to on_state

local == <<phase, accepted_header, partial, busy, batch, framing_error>>
shared == <<active, state, snapshot, told>>
rvars == <<local, shared>>

Phase == {"new", "header", "stream", "ending", "closed", "refused"}
Counters == {"connections_accepted", "connections_rejected", "records_accepted",
             "records_rejected", "partial_lines_discarded"}

ReceiverTypeOK ==
  /\ phase \in [Conns -> Phase]
  /\ accepted_header \in [Conns -> BOOLEAN]
  /\ partial \in [Conns -> BOOLEAN]
  /\ busy \in Conns \cup {None}
  /\ batch \in Seq(Line)
  /\ framing_error \in BOOLEAN
  /\ active \in BOOLEAN
  /\ state \in ExecutionState
  /\ snapshot \in [Counters -> Nat]
  /\ told \in ExecutionState

ReceiverInit ==
  /\ phase = [c \in Conns |-> "new"]
  /\ accepted_header = [c \in Conns |-> FALSE]
  /\ partial = [c \in Conns |-> FALSE]
  /\ busy = None /\ batch = <<>> /\ framing_error = FALSE
  /\ active = FALSE
  /\ state = InitialState
  /\ snapshot = [k \in Counters |-> 0]
  /\ told = InitialState

Count(k) == snapshot' = [snapshot EXCEPT ![k] = @ + 1]

Goto(c, p) == phase' = [phase EXCEPT ![c] = p]

on_state(s) == told' = s

\* The bound on what is read.
Within(ch) ==
  snapshot["records_accepted"] + snapshot["records_rejected"] + Len(ch.lines) <= MaxRecords

-----------------------------------------------------------------------------
(* handle_client up to its first await.                                    *)

\* Mutant: every producer is let in.
Admit_all == TRUE

Admit == ~active

Reject(c) ==
  /\ busy = None /\ phase[c] = "new"
  /\ ~Admit
  /\ Goto(c, "refused")
  /\ Count("connections_rejected")
  /\ UNCHANGED <<accepted_header, partial, busy, batch, framing_error, active, state, told>>

Accept(c) ==
  /\ busy = None /\ phase[c] = "new"
  /\ Admit
  /\ Goto(c, "header")
  /\ active' = TRUE
  /\ Count("connections_accepted")
  /\ UNCHANGED <<accepted_header, partial, busy, batch, framing_error, state, told>>

-----------------------------------------------------------------------------
(* The coroutine of c leaves its body, by an exception or at the end of    *)
(* the stream; the finally clause is next and nothing runs before it.      *)
Leave(c) ==
  /\ Goto(c, "ending")
  /\ busy' = c /\ batch' = <<>> /\ framing_error' = FALSE

\* The coroutine of c goes on with lines, then an error if err, else awaits.
Continue(c, lines, err) ==
  /\ batch' = lines /\ framing_error' = err
  /\ busy' = IF lines = <<>> /\ ~err THEN None ELSE c

Received(c, ch) == partial' = [partial EXCEPT ![c] = ch.tail = "partial"]

-----------------------------------------------------------------------------
(* _read_header, under wait_for.                                           *)

ReadNoLine(c, ch) ==
  /\ busy = None /\ phase[c] = "header"
  /\ ch.lines = <<>>
  /\ Received(c, ch)
  /\ IF ch.tail = "overlong"
       THEN Leave(c)
       ELSE UNCHANGED <<phase, busy, batch, framing_error>>
  /\ UNCHANGED <<accepted_header, shared>>

HeaderLine(line) == line \in Header /\ ~HeaderError(state, line)

ReadHeader(c, ch) ==
  /\ busy = None /\ phase[c] = "header"
  /\ ch.lines # <<>>
  /\ HeaderLine(Head(ch.lines))
  /\ Within(ch)
  /\ Received(c, ch)
  /\ state' = accept_header(state, Head(ch.lines))
  /\ Count("records_accepted")
  /\ on_state(state')
  /\ accepted_header' = [accepted_header EXCEPT ![c] = TRUE]
  /\ Goto(c, "stream")
  /\ Continue(c, Tail(ch.lines), ch.tail = "overlong")
  /\ UNCHANGED active

ReadNoHeader(c, ch) ==
  /\ busy = None /\ phase[c] = "header"
  /\ ch.lines # <<>>
  /\ ~HeaderLine(Head(ch.lines))
  /\ Received(c, ch)
  /\ Leave(c)
  /\ UNCHANGED <<accepted_header, shared>>

\* Mutant: an incomplete header extends the time.
HeaderTimeout_when_silent(c) ==
  /\ busy = None /\ phase[c] = "header" /\ ~partial[c]
  /\ Leave(c)
  /\ UNCHANGED <<accepted_header, partial, shared>>

HeaderTimeout(c) ==
  /\ busy = None /\ phase[c] = "header"
  /\ Leave(c)
  /\ UNCHANGED <<accepted_header, partial, shared>>

-----------------------------------------------------------------------------
(* The stream of observations.                                             *)

ReadChunk(c, ch) ==
  /\ busy = None /\ phase[c] = "stream"
  /\ Within(ch)
  /\ Received(c, ch)
  /\ Continue(c, ch.lines, ch.tail = "overlong")
  /\ UNCHANGED <<phase, accepted_header, shared>>

\* _process_observation on the next line: one the parser or the state machine
\* refuses is counted and skipped, any other exception leaves the coroutine.
Acceptable(line) == line \in Observations /\ ~ObservationError(state, line)

AcceptObservation(c) ==
  /\ busy = c /\ phase[c] = "stream" /\ batch # <<>>
  /\ Acceptable(Head(batch))
  /\ state' = accept_observation(state, Head(batch))
  /\ Count("records_accepted")
  /\ on_state(state')
  /\ Continue(c, Tail(batch), framing_error)
  /\ UNCHANGED <<phase, accepted_header, partial, active>>

RejectLine(c) ==
  /\ busy = c /\ phase[c] = "stream" /\ batch # <<>>
  /\ Head(batch) # Unhandled
  /\ ~Acceptable(Head(batch))
  /\ Count("records_rejected")
  /\ Continue(c, Tail(batch), framing_error)
  /\ UNCHANGED <<phase, accepted_header, partial, active, state, told>>

RaiseUnhandled(c) ==
  /\ busy = c /\ phase[c] = "stream" /\ batch # <<>>
  /\ Head(batch) = Unhandled
  /\ Leave(c)
  /\ UNCHANGED <<accepted_header, partial, shared>>

RaiseFramingError(c) ==
  /\ busy = c /\ phase[c] = "stream" /\ batch = <<>>
  /\ framing_error
  /\ Leave(c)
  /\ UNCHANGED <<accepted_header, partial, shared>>

\* read returns no data, or raises because the connection is lost.
EndOfStream(c) ==
  /\ busy = None /\ phase[c] \in {"header", "stream"}
  /\ Leave(c)
  /\ UNCHANGED <<accepted_header, partial, shared>>

-----------------------------------------------------------------------------
(* The finally clause of handle_client.                                    *)

\* Mutant: the state keeps saying connected.
Disconnect_skipped == UNCHANGED <<state, told>>

\* Mutant: the state is updated without telling anyone.
Disconnect_untold == state' = disconnect(state) /\ UNCHANGED told

Disconnect == state' = disconnect(state) /\ on_state(state')

Finally(c) ==
  /\ busy = c /\ phase[c] = "ending"
  /\ IF partial[c] THEN Count("partial_lines_discarded") ELSE UNCHANGED snapshot
  /\ partial' = [partial EXCEPT ![c] = FALSE]
  /\ IF accepted_header[c] THEN Disconnect ELSE UNCHANGED <<state, told>>
  /\ active' = FALSE
  /\ Goto(c, "closed")
  /\ busy' = None
  /\ UNCHANGED <<accepted_header, batch, framing_error>>

-----------------------------------------------------------------------------
Coroutine(c) ==
  AcceptObservation(c) \/ RejectLine(c) \/ RaiseUnhandled(c) \/ RaiseFramingError(c)
    \/ Finally(c)

ReceiverNext ==
  \E c \in Conns :
    \/ Reject(c) \/ Accept(c)
    \/ \E ch \in Chunks : ReadNoLine(c, ch) \/ ReadHeader(c, ch) \/ ReadNoHeader(c, ch)
                            \/ ReadChunk(c, ch)
    \/ HeaderTimeout(c)
    \/ EndOfStream(c)
    \/ Coroutine(c)

ReceiverSpec == ReceiverInit /\ [][ReceiverNext]_rvars

(* A coroutine that holds the loop runs to its next await, and the timer   *)
(* of wait_for fires.  No producer has to send anything or go away.        *)
ReceiverFairness ==
  \A c \in Conns : WF_rvars(Coroutine(c)) /\ WF_rvars(HeaderTimeout(c))

FairReceiver == ReceiverSpec /\ ReceiverFairness

-----------------------------------------------------------------------------
(* Properties.                                                             *)

Serving(c) == phase[c] \in {"header", "stream", "ending"}

(* The slot is taken exactly while one coroutine serves a producer, on     *)
(* every way out of it (server.py:60-73, 94-113).                          *)
OneProducer ==
  /\ active <=> \E c \in Conns : Serving(c)
  /\ \A c, d \in Conns : Serving(c) /\ Serving(d) => c = d

(* The state says connected exactly while a producer whose header was      *)
(* accepted is served, whatever ended the one before (server.py:80,        *)
(* 109-112, machine.py:33-54, 118).                                        *)
ConnectedWhileServed ==
  state.connected <=> \E c \in Conns : Serving(c) /\ accepted_header[c]

(* Whoever listens to on_state has seen the current state: no change of    *)
(* it stays unannounced (server.py:134-137, 148-158, 109-112).             *)
NothingUntold == told = state

(* What makes the three invariants above inductive: the place of each      *)
(* coroutine determines its local flag, the loop is held only by the one   *)
(* that serves, and a coroutine that is leaving holds it.                  *)
Places ==
  /\ \A c \in Conns : phase[c] = "ending" => busy = c
  /\ \A c \in Conns : phase[c] = "stream" => accepted_header[c]
  /\ \A c \in Conns : phase[c] \in {"new", "header", "refused"} => ~accepted_header[c]
  /\ busy # None => phase[busy] \in {"stream", "ending"}

RInv == ReceiverTypeOK /\ OneProducer /\ ConnectedWhileServed /\ NothingUntold /\ Places

(* The receiver implements RunFeed; the missing sequences are what lets    *)
(* heard be recovered from the state (machine.py:106-111).                 *)
Feed == INSTANCE RunFeed WITH
          run <- state.header,
          latest <- state.observation,
          heard <- previous_sequence(state) - state.missing_sequences,
          live <- state.connected
ImplementsFeed == Feed!Spec

(* A connection whose producer never completes a header gives the slot     *)
(* back: partial data does not extend its time (server.py:77-79, 94-113).  *)
SlotFreedWithoutHeader ==
  \A c \in Conns : phase[c] = "header" ~> phase[c] = "stream" \/ phase[c] = "closed"

(* docs/architecture.md:149-150: after a valid header an invalid           *)
(* observation is counted and the next record is processed.  So no         *)
(* connection ends with lines of its chunk unprocessed.                    *)
NextRecordProcessed ==
  [][\A c \in Conns :
       phase[c] = "stream" /\ phase'[c] = "ending" => batch = <<>>]_rvars
=============================================================================
