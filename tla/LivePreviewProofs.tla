------------------------- MODULE LivePreviewProofs -------------------------
(***************************************************************************)
(* Proofs about the receiver and about the browser side of the live        *)
(* process, for any number of connections, any chunks, any runs and any    *)
(* delays of the child.                                                    *)
(*                                                                         *)
(* Part 1, the receiver by itself: it serves one producer, announces every *)
(* change of its state, and implements RunFeed.  The actions fall into     *)
(* three groups by what they do to the coroutine that takes them: it       *)
(* leaves its body, it stays where it is, or (Reject, Accept, ReadHeader,  *)
(* Finally) it moves on.                                                   *)
(*                                                                         *)
(* Part 2, the composition: what the page shows is of the present run and  *)
(* not ahead of what was received, the status it reports is true, and the  *)
(* coordinator keeps to what the worker allows, so that the worker's own   *)
(* invariants hold here.  WP is the worker with its proofs.  The invariant *)
(* follows a request from its submission to the store: everything the      *)
(* worker holds that was submitted since the last reset is of the          *)
(* coordinator's run, and agrees with its observation where the sequence   *)
(* numbers agree.                                                          *)
(***************************************************************************)
EXTENDS LivePreview, TLAPS

-----------------------------------------------------------------------------
(* Part 1: the receiver.                                                   *)

(* No connection and no event loop at the start.                           *)
LEMMA InitRInv == ReceiverInit => RInv
<1> SUFFICES ASSUME ReceiverInit PROVE RInv
  OBVIOUS
<1>1. None \notin Conns
  BY ReceiverAssumption
<1>2. InitialState \in ExecutionState
  BY DEF InitialState, ExecutionState
<1>3. ReceiverTypeOK
  <2>1. accepted_header \in [Conns -> BOOLEAN] /\ partial \in [Conns -> BOOLEAN]
    BY Zenon DEF ReceiverInit
  <2>2. framing_error \in BOOLEAN /\ active \in BOOLEAN
    BY Zenon DEF ReceiverInit
  <2>3. phase \in [Conns -> Phase] /\ busy \in Conns \cup {None} /\ batch \in Seq(Line)
    BY DEF ReceiverInit, Phase
  <2>4. snapshot \in [Counters -> Nat]
    BY DEF ReceiverInit
  <2> QED BY <1>2, <2>1, <2>2, <2>3, <2>4 DEF ReceiverInit, ReceiverTypeOK
<1>4. OneProducer /\ ConnectedWhileServed /\ NothingUntold
  BY DEF ReceiverInit, OneProducer, ConnectedWhileServed, NothingUntold, Serving,
         InitialState
<1>5. Places
  BY <1>1 DEF ReceiverInit, Places
<1> QED BY <1>3, <1>4, <1>5 DEF RInv

-----------------------------------------------------------------------------

(* An accepted header gives a connected state (machine.py:33-54).          *)
LEMMA AcceptHeaderType ==
  ASSUME NEW s \in ExecutionState, NEW h \in Header
  PROVE  /\ accept_header(s, h) \in ExecutionState
         /\ accept_header(s, h).connected = TRUE
<1>1. /\ s.header \in Header \cup {None} /\ s.observation \in Observation \cup {None}
      /\ s.connection_index \in Nat /\ s.connection_index + 1 \in Nat
      /\ s.missing_sequences \in Nat
      /\ s = [header |-> s.header, observation |-> s.observation,
              connected |-> s.connected, connection_index |-> s.connection_index,
              missing_sequences |-> s.missing_sequences]
  BY DEF ExecutionState
<1>2. CASE SameRun(s, h)
  <2>1. accept_header(s, h) = [header |-> s.header, observation |-> s.observation,
          connected |-> TRUE, connection_index |-> s.connection_index + 1,
          missing_sequences |-> s.missing_sequences]
    BY <1>1, <1>2 DEF accept_header
  <2> QED BY <1>1, <2>1 DEF ExecutionState
<1>3. CASE ~SameRun(s, h)
  <2>1. accept_header(s, h) = [header |-> h, observation |-> None,
          connected |-> TRUE, connection_index |-> s.connection_index + 1,
          missing_sequences |-> 0]
    BY <1>1, <1>3 DEF accept_header, InitialState
  <2> QED BY <1>1, <2>1 DEF ExecutionState
<1> QED BY <1>2, <1>3

(* Before the first observation the previous sequence is 0.                *)
LEMMA PreviousSequenceType ==
  ASSUME NEW s \in ExecutionState
  PROVE  previous_sequence(s) \in Nat
BY DEF previous_sequence, ExecutionState, Observation

(* What an accepted observation changes (machine.py:57-111).               *)
LEMMA AcceptObservationType ==
  ASSUME NEW s \in ExecutionState, NEW o \in Observations, ~ObservationError(s, o)
  PROVE  /\ accept_observation(s, o) \in ExecutionState
         /\ accept_observation(s, o).connected = s.connected
         /\ accept_observation(s, o).header = s.header
         /\ accept_observation(s, o).observation = o
         /\ accept_observation(s, o).missing_sequences
              = s.missing_sequences + (o.sequence - previous_sequence(s) - 1)
<1>1. o \in Observation /\ o.sequence \in Nat
  BY RunStateAssumption DEF Observation
<1>2. previous_sequence(s) \in Nat
  BY PreviousSequenceType
<1>3. ~(o.sequence <= previous_sequence(s))
  BY DEF ObservationError
<1>4. sequence_gap(s, o) \in Nat
  BY <1>1, <1>2, <1>3 DEF sequence_gap
<1>5. s.missing_sequences \in Nat
  BY DEF ExecutionState
<1>6. s.missing_sequences + sequence_gap(s, o) \in Nat
  BY <1>4, <1>5
<1> QED BY <1>1, <1>6 DEF accept_observation, ExecutionState, sequence_gap

(* A disconnection changes nothing but connected (machine.py:114-118).     *)
LEMMA DisconnectType ==
  ASSUME NEW s \in ExecutionState
  PROVE  /\ disconnect(s) \in ExecutionState
         /\ disconnect(s).connected = FALSE
         /\ disconnect(s).header = s.header
         /\ disconnect(s).observation = s.observation
         /\ disconnect(s).missing_sequences = s.missing_sequences
BY DEF disconnect, ExecutionState

(* Counting keeps the counters natural numbers.                            *)
LEMMA CountType ==
  ASSUME snapshot \in [Counters -> Nat], NEW k \in Counters, Count(k)
  PROVE  snapshot' \in [Counters -> Nat]
BY DEF Count

(* A framer holds an incomplete line or it does not.                       *)
LEMMA ReceivedType ==
  ASSUME partial \in [Conns -> BOOLEAN], NEW c \in Conns, NEW ch, Received(c, ch)
  PROVE  partial' \in [Conns -> BOOLEAN]
<1>1. (ch.tail = "partial") \in BOOLEAN
  OBVIOUS
<1> QED BY <1>1, Zenon DEF Received

-----------------------------------------------------------------------------
(* A coroutine leaves its body (server.py:94-103).                         *)
LEMMA LeaveInv ==
  ASSUME RInv, NEW c \in Conns, phase[c] \in {"header", "stream"}, Leave(c),
         partial' \in [Conns -> BOOLEAN], UNCHANGED <<accepted_header, shared>>
  PROVE  RInv'
<1>1. /\ phase' = [phase EXCEPT ![c] = "ending"]
      /\ busy' = c /\ batch' = <<>> /\ framing_error' = FALSE
      /\ accepted_header' = accepted_header /\ active' = active
      /\ state' = state /\ snapshot' = snapshot /\ told' = told
  BY DEF Leave, Goto, shared
<1>2. phase \in [Conns -> Phase] /\ accepted_header \in [Conns -> BOOLEAN]
  BY DEF RInv, ReceiverTypeOK
<1>3. /\ phase'[c] = "ending"
      /\ \A d \in Conns : d # c => phase'[d] = phase[d]
  BY <1>1, <1>2
<1>4. \A d \in Conns : Serving(d)' <=> Serving(d)
  BY <1>3 DEF Serving
<1>5. \A d \in Conns : Serving(d) => d = c
  BY DEF RInv, OneProducer, Serving
<1>6. ReceiverTypeOK'
  <2>1. phase' \in [Conns -> Phase]
    BY <1>1, <1>2 DEF Phase
  <2>2. framing_error' \in BOOLEAN
    BY <1>1, Zenon
  <2>3. batch' \in Seq(Line) /\ busy' \in Conns \cup {None}
    BY <1>1
  <2> QED BY <1>1, <2>1, <2>2, <2>3 DEF RInv, ReceiverTypeOK
<1>7. OneProducer'
  BY <1>1, <1>4 DEF RInv, OneProducer
<1>8. ConnectedWhileServed' /\ NothingUntold'
  BY <1>1, <1>4 DEF RInv, ConnectedWhileServed, NothingUntold
<1>9. Places'
  <2>1. \A d \in Conns : phase'[d] = "ending" => busy' = d
    BY <1>1, <1>3, <1>5 DEF Serving
  <2>2. busy' # None => phase'[busy'] \in {"stream", "ending"}
    BY <1>1, <1>3
  <2> QED BY <1>1, <1>3, <2>1, <2>2 DEF RInv, Places
<1> QED BY <1>6, <1>7, <1>8, <1>9 DEF RInv

(* A coroutine goes on where it is (server.py:81-93, 120-130).             *)
LEMMA StayInv ==
  ASSUME RInv, NEW c \in Conns, phase[c] \in {"header", "stream"},
         UNCHANGED <<phase, accepted_header, active>>,
         partial' \in [Conns -> BOOLEAN], batch' \in Seq(Line),
         framing_error' \in BOOLEAN,
         busy' \in {None, c}, phase[c] = "header" => busy' = None,
         snapshot' \in [Counters -> Nat],
         state' \in ExecutionState, state'.connected = state.connected, told' = state'
  PROVE  RInv'
<1>1. ReceiverTypeOK'
  BY DEF RInv, ReceiverTypeOK
<1>2. \A d \in Conns : Serving(d)' <=> Serving(d)
  BY DEF Serving
<1>3. OneProducer' /\ ConnectedWhileServed' /\ NothingUntold'
  BY <1>2 DEF RInv, OneProducer, ConnectedWhileServed, NothingUntold
<1>4. Places'
  <2>1. \A d \in Conns : phase[d] # "ending"
    BY DEF RInv, OneProducer, Serving
  <2> QED BY <2>1 DEF RInv, Places
<1> QED BY <1>1, <1>3, <1>4 DEF RInv

(* What a chunk is.                                                        *)
LEMMA ChunkType ==
  ASSUME NEW ch \in Chunks
  PROVE  /\ ch.lines \in Seq(Line)
         /\ ch.lines # <<>> => Head(ch.lines) \in Line /\ Tail(ch.lines) \in Seq(Line)
         /\ (ch.tail = "overlong") \in BOOLEAN
<1>1. ch.lines \in Seq(Line)
  BY ReceiverAssumption
<1> QED BY <1>1

(* A producer more is refused without any effect on the one served.        *)
LEMMA RejectInv ==
  ASSUME RInv, NEW c \in Conns, Reject(c)
  PROVE  RInv'
<1>1. /\ phase[c] = "new" /\ phase' = [phase EXCEPT ![c] = "refused"]
      /\ Count("connections_rejected")
      /\ accepted_header' = accepted_header /\ partial' = partial /\ busy' = busy
      /\ batch' = batch /\ framing_error' = framing_error /\ active' = active
      /\ state' = state /\ told' = told
  BY DEF Reject, Goto
<1>2. phase \in [Conns -> Phase]
  BY DEF RInv, ReceiverTypeOK
<1>3. phase'[c] = "refused" /\ \A d \in Conns : d # c => phase'[d] = phase[d]
  BY <1>1, <1>2
<1>4. \A d \in Conns : Serving(d)' <=> Serving(d)
  BY <1>1, <1>3 DEF Serving
<1>5. ReceiverTypeOK'
  <2>1. snapshot' \in [Counters -> Nat]
    BY <1>1, CountType DEF RInv, ReceiverTypeOK, Counters
  <2>2. phase' \in [Conns -> Phase]
    BY <1>1, <1>2 DEF Phase
  <2> QED BY <1>1, <2>1, <2>2 DEF RInv, ReceiverTypeOK
<1>6. OneProducer' /\ ConnectedWhileServed' /\ NothingUntold'
  BY <1>1, <1>4 DEF RInv, OneProducer, ConnectedWhileServed, NothingUntold
<1>7. Places'
  <2>1. busy # None => busy \in Conns /\ busy # c
    BY <1>1 DEF RInv, ReceiverTypeOK, Places
  <2> QED BY <1>1, <1>3, <2>1 DEF RInv, Places
<1> QED BY <1>5, <1>6, <1>7 DEF RInv

(* The slot is given to a producer when nobody has it.                     *)
LEMMA AcceptInv ==
  ASSUME RInv, NEW c \in Conns, Accept(c)
  PROVE  RInv'
<1>1. /\ phase[c] = "new" /\ phase' = [phase EXCEPT ![c] = "header"]
      /\ ~active /\ active' = TRUE
      /\ Count("connections_accepted")
      /\ accepted_header' = accepted_header /\ partial' = partial /\ busy' = busy
      /\ batch' = batch /\ framing_error' = framing_error
      /\ state' = state /\ told' = told
  BY DEF Accept, Admit, Goto
<1>2. phase \in [Conns -> Phase]
  BY DEF RInv, ReceiverTypeOK
<1>3. phase'[c] = "header" /\ \A d \in Conns : d # c => phase'[d] = phase[d]
  BY <1>1, <1>2
<1>4. \A d \in Conns : ~Serving(d)
  BY <1>1 DEF RInv, OneProducer
<1>5. \A d \in Conns : Serving(d)' <=> d = c
  BY <1>3, <1>4 DEF Serving
<1>6. ReceiverTypeOK'
  <2>1. snapshot' \in [Counters -> Nat]
    BY <1>1, CountType DEF RInv, ReceiverTypeOK, Counters
  <2>2. phase' \in [Conns -> Phase]
    BY <1>1, <1>2 DEF Phase
  <2>3. active' \in BOOLEAN
    BY <1>1, Zenon
  <2> QED BY <1>1, <2>1, <2>2, <2>3 DEF RInv, ReceiverTypeOK
<1>7. OneProducer'
  BY <1>1, <1>5 DEF OneProducer
<1>8. ConnectedWhileServed' /\ NothingUntold'
  <2>1. ~accepted_header[c]
    BY <1>1 DEF RInv, Places
  <2>2. ~state.connected
    BY <1>4 DEF RInv, ConnectedWhileServed
  <2> QED BY <1>1, <1>5, <2>1, <2>2 DEF RInv, ConnectedWhileServed, NothingUntold
<1>9. Places'
  <2>1. busy # None => busy \in Conns /\ busy # c
    BY <1>1 DEF RInv, ReceiverTypeOK, Places
  <2> QED BY <1>1, <1>3, <2>1 DEF RInv, Places
<1> QED BY <1>6, <1>7, <1>8, <1>9 DEF RInv

(* An accepted header connects the run, and the change is announced.       *)
LEMMA ReadHeaderInv ==
  ASSUME RInv, NEW c \in Conns, NEW ch \in Chunks, ReadHeader(c, ch)
  PROVE  RInv'
<1>1. /\ busy = None /\ phase[c] = "header" /\ ch.lines # <<>>
      /\ Head(ch.lines) \in Header
      /\ Received(c, ch) /\ Count("records_accepted")
      /\ state' = accept_header(state, Head(ch.lines)) /\ told' = state'
      /\ accepted_header' = [accepted_header EXCEPT ![c] = TRUE]
      /\ phase' = [phase EXCEPT ![c] = "stream"]
      /\ batch' = Tail(ch.lines)
      /\ busy' = None \/ busy' = c
      /\ active' = active
  BY DEF ReadHeader, HeaderLine, Goto, Continue, on_state
<1>2. framing_error' \in BOOLEAN
  BY ChunkType, Zenon DEF ReadHeader, Continue
<1>3. /\ phase \in [Conns -> Phase] /\ accepted_header \in [Conns -> BOOLEAN]
      /\ state \in ExecutionState
  BY DEF RInv, ReceiverTypeOK
<1>4. /\ phase'[c] = "stream" /\ accepted_header'[c] = TRUE
      /\ \A d \in Conns : d # c => phase'[d] = phase[d]
                                   /\ accepted_header'[d] = accepted_header[d]
  BY <1>1, <1>3
<1>5. state' \in ExecutionState /\ state'.connected = TRUE
  BY <1>1, <1>3, AcceptHeaderType
<1>6. \A d \in Conns : Serving(d)' <=> Serving(d)
  BY <1>1, <1>4 DEF Serving
<1>7. ReceiverTypeOK'
  <2>1. snapshot' \in [Counters -> Nat]
    BY <1>1, CountType DEF RInv, ReceiverTypeOK, Counters
  <2>2. partial' \in [Conns -> BOOLEAN]
    BY <1>1, ReceivedType DEF RInv, ReceiverTypeOK
  <2>3. phase' \in [Conns -> Phase]
    BY <1>1, <1>3 DEF Phase
  <2>4. accepted_header' \in [Conns -> BOOLEAN]
    BY <1>1, <1>3, Zenon
  <2>5. batch' \in Seq(Line) /\ busy' \in Conns \cup {None}
    BY <1>1, ChunkType
  <2> QED BY <1>1, <1>2, <1>5, <2>1, <2>2, <2>3, <2>4, <2>5 DEF RInv, ReceiverTypeOK
<1>8. OneProducer'
  BY <1>1, <1>6 DEF RInv, OneProducer
<1>9. ConnectedWhileServed' /\ NothingUntold'
  <2>1. Serving(c)'
    BY <1>4 DEF Serving
  <2> QED BY <1>1, <1>4, <1>5, <2>1 DEF ConnectedWhileServed, NothingUntold
<1>10. Places'
  <2>1. \A d \in Conns : phase[d] # "ending"
    BY <1>1, ReceiverAssumption DEF RInv, Places
  <2> QED BY <1>1, <1>4, <2>1 DEF RInv, Places
<1> QED BY <1>7, <1>8, <1>9, <1>10 DEF RInv

(* The finally clause frees the slot and announces the disconnection.      *)
LEMMA FinallyInv ==
  ASSUME RInv, NEW c \in Conns, Finally(c)
  PROVE  RInv'
<1>1. /\ busy = c /\ phase[c] = "ending"
      /\ partial[c] => Count("partial_lines_discarded")
      /\ ~partial[c] => snapshot' = snapshot
      /\ partial' = [partial EXCEPT ![c] = FALSE]
      /\ accepted_header[c] => state' = disconnect(state) /\ told' = state'
      /\ ~accepted_header[c] => state' = state /\ told' = told
      /\ active' = FALSE
      /\ phase' = [phase EXCEPT ![c] = "closed"]
      /\ busy' = None
      /\ accepted_header' = accepted_header /\ batch' = batch
      /\ framing_error' = framing_error
  BY DEF Finally, Disconnect, on_state, Goto
<1>2. /\ phase \in [Conns -> Phase] /\ state \in ExecutionState
      /\ partial \in [Conns -> BOOLEAN]
  BY DEF RInv, ReceiverTypeOK
<1>3. phase'[c] = "closed" /\ \A d \in Conns : d # c => phase'[d] = phase[d]
  BY <1>1, <1>2
<1>4. Serving(c) /\ \A d \in Conns : Serving(d) => d = c
  BY <1>1 DEF RInv, OneProducer, Serving
<1>5. \A d \in Conns : ~Serving(d)'
  BY <1>3, <1>4 DEF Serving
<1>6. state' \in ExecutionState /\ ~state'.connected /\ told' = state'
  <2>1. CASE accepted_header[c]
    BY <1>1, <1>2, <2>1, DisconnectType
  <2>2. CASE ~accepted_header[c]
    BY <1>1, <1>2, <1>4, <2>2 DEF RInv, ConnectedWhileServed, NothingUntold
  <2> QED BY <2>1, <2>2
<1>7. ReceiverTypeOK'
  <2>1. snapshot' \in [Counters -> Nat]
    BY <1>1, CountType DEF RInv, ReceiverTypeOK, Counters
  <2>2. phase' \in [Conns -> Phase]
    BY <1>1, <1>2 DEF Phase
  <2>3. partial' \in [Conns -> BOOLEAN] /\ active' \in BOOLEAN
    BY <1>1, <1>2, Zenon
  <2> QED BY <1>1, <1>6, <2>1, <2>2, <2>3 DEF RInv, ReceiverTypeOK
<1>8. OneProducer' /\ ConnectedWhileServed' /\ NothingUntold'
  BY <1>1, <1>5, <1>6 DEF OneProducer, ConnectedWhileServed, NothingUntold
<1>9. Places'
  BY <1>1, <1>3, <1>4 DEF RInv, Places, Serving
<1> QED BY <1>7, <1>8, <1>9 DEF RInv
-----------------------------------------------------------------------------
(* The other steps: a coroutine leaves its body or stays where it is.      *)

(* A read that completes no line (server.py:160-186).                      *)
LEMMA ReadNoLineInv ==
  ASSUME RInv, NEW c \in Conns, NEW ch \in Chunks, ReadNoLine(c, ch)
  PROVE  RInv'
<1>1. partial' \in [Conns -> BOOLEAN]
  BY ReceivedType DEF ReadNoLine, RInv, ReceiverTypeOK
<1>2. CASE ch.tail = "overlong"
  BY <1>1, <1>2, LeaveInv DEF ReadNoLine
<1>3. CASE ch.tail # "overlong"
  <2>1. /\ phase[c] = "header" /\ busy = None
        /\ UNCHANGED <<phase, accepted_header, active, busy, batch, framing_error,
                       snapshot, state, told>>
    BY <1>3 DEF ReadNoLine, shared
  <2>2. /\ batch \in Seq(Line) /\ framing_error \in BOOLEAN
        /\ snapshot \in [Counters -> Nat] /\ state \in ExecutionState /\ told = state
    BY DEF RInv, ReceiverTypeOK, NothingUntold
  <2>3. framing_error' \in BOOLEAN
    BY <2>1, <2>2, Zenon
  <2> QED BY <1>1, <2>1, <2>2, <2>3, StayInv
<1> QED BY <1>2, <1>3

(* Every way out of the body of the coroutine (server.py:94-103).          *)
LEMMA LeavingInv ==
  ASSUME RInv, NEW c \in Conns,
         \/ \E ch \in Chunks : ReadNoHeader(c, ch)
         \/ HeaderTimeout(c) \/ EndOfStream(c)
         \/ RaiseUnhandled(c) \/ RaiseFramingError(c)
  PROVE  RInv'
<1>1. partial \in [Conns -> BOOLEAN]
  BY DEF RInv, ReceiverTypeOK
<1>2. CASE \E ch \in Chunks : ReadNoHeader(c, ch)
  <2> PICK ch \in Chunks : ReadNoHeader(c, ch)
    BY <1>2
  <2>1. partial' \in [Conns -> BOOLEAN]
    BY <1>1, ReceivedType DEF ReadNoHeader
  <2> QED BY <2>1, LeaveInv DEF ReadNoHeader
<1>3. CASE HeaderTimeout(c) \/ EndOfStream(c) \/ RaiseUnhandled(c) \/ RaiseFramingError(c)
  <2>1. /\ phase[c] \in {"header", "stream"} /\ Leave(c)
        /\ partial' = partial /\ UNCHANGED <<accepted_header, shared>>
    BY <1>3 DEF HeaderTimeout, EndOfStream, RaiseUnhandled, RaiseFramingError
  <2> QED BY <1>1, <2>1, LeaveInv
<1> QED BY <1>2, <1>3

(* A read of the stream (server.py:81-93).                                 *)
LEMMA ReadChunkInv ==
  ASSUME RInv, NEW c \in Conns, NEW ch \in Chunks, ReadChunk(c, ch)
  PROVE  RInv'
<1>1. partial' \in [Conns -> BOOLEAN]
  BY ReceivedType DEF ReadChunk, RInv, ReceiverTypeOK
<1>2. /\ phase[c] = "stream" /\ batch' = ch.lines /\ busy' \in {None, c}
      /\ UNCHANGED <<phase, accepted_header, active, snapshot, state, told>>
  BY DEF ReadChunk, Continue, shared
<1>3. batch' \in Seq(Line)
  BY <1>2, ChunkType
<1>4. framing_error' \in BOOLEAN
  BY ChunkType, Zenon DEF ReadChunk, Continue
<1>5. snapshot \in [Counters -> Nat] /\ state \in ExecutionState /\ told = state
  BY DEF RInv, ReceiverTypeOK, NothingUntold
<1> QED BY <1>1, <1>2, <1>3, <1>4, <1>5, StayInv

(* The next line is processed, accepted or counted (server.py:139-158).    *)
LEMMA ProcessLineInv ==
  ASSUME RInv, NEW c \in Conns, AcceptObservation(c) \/ RejectLine(c)
  PROVE  RInv'
<1>1. /\ batch \in Seq(Line) /\ framing_error \in BOOLEAN
      /\ partial \in [Conns -> BOOLEAN]
      /\ snapshot \in [Counters -> Nat] /\ state \in ExecutionState /\ told = state
  BY DEF RInv, ReceiverTypeOK, NothingUntold
<1>2. /\ phase[c] = "stream" /\ batch # <<>> /\ batch' = Tail(batch)
      /\ framing_error' = framing_error /\ busy' \in {None, c}
      /\ UNCHANGED <<phase, accepted_header, partial, active>>
  BY DEF AcceptObservation, RejectLine, Continue
<1>3. batch' \in Seq(Line)
  BY <1>1, <1>2
<1>4. framing_error' \in BOOLEAN
  BY <1>1, <1>2, Zenon
<1>5. snapshot' \in [Counters -> Nat]
  BY <1>1, CountType DEF AcceptObservation, RejectLine, Counters
<1>6. state' \in ExecutionState /\ state'.connected = state.connected /\ told' = state'
  <2>1. CASE AcceptObservation(c)
    <3>1. /\ Head(batch) \in Observations /\ ~ObservationError(state, Head(batch))
          /\ state' = accept_observation(state, Head(batch)) /\ told' = state'
      BY <2>1 DEF AcceptObservation, Acceptable, on_state
    <3> QED BY <1>1, <3>1, AcceptObservationType
  <2>2. CASE RejectLine(c)
    BY <1>1, <2>2 DEF RejectLine
  <2> QED BY <2>1, <2>2
<1>7. partial' \in [Conns -> BOOLEAN]
  BY <1>1, <1>2
<1> QED BY <1>2, <1>3, <1>4, <1>5, <1>6, <1>7, StayInv

-----------------------------------------------------------------------------
(* Every step keeps the inductive invariant.                               *)
LEMMA RStepInv == RInv /\ [ReceiverNext]_rvars => RInv'
<1> SUFFICES ASSUME RInv, [ReceiverNext]_rvars PROVE RInv'
  OBVIOUS
<1>1. CASE ReceiverNext
  <2> PICK c \in Conns :
        \/ Reject(c) \/ Accept(c)
        \/ \E ch \in Chunks : ReadNoLine(c, ch) \/ ReadHeader(c, ch) \/ ReadNoHeader(c, ch)
                                \/ ReadChunk(c, ch)
        \/ HeaderTimeout(c) \/ EndOfStream(c) \/ Coroutine(c)
    BY <1>1 DEF ReceiverNext
  <2>1. CASE Reject(c)
    BY <2>1, RejectInv
  <2>2. CASE Accept(c)
    BY <2>2, AcceptInv
  <2>3. CASE \E ch \in Chunks : ReadNoLine(c, ch) \/ ReadHeader(c, ch)
                                  \/ ReadNoHeader(c, ch) \/ ReadChunk(c, ch)
    BY <2>3, ReadNoLineInv, ReadHeaderInv, LeavingInv, ReadChunkInv
  <2>4. CASE HeaderTimeout(c) \/ EndOfStream(c)
    BY <2>4, LeavingInv
  <2>5. CASE Coroutine(c)
    BY <2>5, ProcessLineInv, LeavingInv, FinallyInv DEF Coroutine
  <2> QED BY <2>1, <2>2, <2>3, <2>4, <2>5
<1>2. CASE UNCHANGED rvars
  BY <1>2 DEF rvars, local, shared, RInv, ReceiverTypeOK, OneProducer, ConnectedWhileServed,
         NothingUntold, Places, Serving
<1> QED BY <1>1, <1>2

(* The inductive invariant, for any connections and any chunks.            *)
THEOREM ReceiverInvariance == ReceiverSpec => []RInv
BY InitRInv, RStepInv, PTL DEF ReceiverSpec

(* Type correctness of the receiver.                                       *)
THEOREM ReceiverTypeCorrect == ReceiverSpec => []ReceiverTypeOK
<1>1. RInv => ReceiverTypeOK
  BY DEF RInv
<1> QED BY <1>1, ReceiverInvariance, PTL

(* One producer at a time: the slot is taken exactly while one coroutine   *)
(* serves, and every way out of it gives the slot back.                    *)
THEOREM OneProducerAtATime == ReceiverSpec => []OneProducer
<1>1. RInv => OneProducer
  BY DEF RInv
<1> QED BY <1>1, ReceiverInvariance, PTL

(* The state says connected exactly while an accepted producer is served.  *)
THEOREM ConnectedExactly == ReceiverSpec => []ConnectedWhileServed
<1>1. RInv => ConnectedWhileServed
  BY DEF RInv
<1> QED BY <1>1, ReceiverInvariance, PTL

(* The listener of on_state is never behind.                               *)
THEOREM ListenersAreTold == ReceiverSpec => []NothingUntold
<1>1. RInv => NothingUntold
  BY DEF RInv
<1> QED BY <1>1, ReceiverInvariance, PTL

-----------------------------------------------------------------------------
(* The receiver implements RunFeed: a header starts or resumes the run, an *)
(* accepted observation advances it, the end of a producer drops it, and   *)
(* every other step is invisible.                                          *)

(* A header that is accepted is a Start or a Resume.                       *)
LEMMA HeaderFeeds ==
  ASSUME RInv, NEW c \in Conns, NEW ch \in Chunks, ReadHeader(c, ch)
  PROVE  Feed!Start \/ Feed!Resume
<1> DEFINE h == Head(ch.lines)
<1>1. /\ phase[c] = "header" /\ h \in Header /\ ~HeaderError(state, h)
      /\ state' = accept_header(state, h)
  BY DEF ReadHeader, HeaderLine
<1>2. state \in ExecutionState /\ ~state.connected
  <2>1. \A d \in Conns : Serving(d) => d = c
    BY <1>1 DEF RInv, OneProducer, Serving
  <2>2. ~accepted_header[c]
    BY <1>1 DEF RInv, Places
  <2> QED BY <2>1, <2>2 DEF RInv, ReceiverTypeOK, ConnectedWhileServed, ExecutionState
<1>3. CASE SameRun(state, h)
  <2>1. /\ state'.header = state.header /\ state'.observation = state.observation
        /\ state'.missing_sequences = state.missing_sequences /\ state'.connected = TRUE
    BY <1>1, <1>2, <1>3 DEF accept_header, ExecutionState
  <2>2. previous_sequence(state)' = previous_sequence(state)
    BY <2>1 DEF previous_sequence
  <2>3. Feed!Resume
    BY <1>2, <1>3, <2>1, <2>2 DEF Feed!Resume, SameRun
  <2> QED BY <2>3
<1>4. CASE ~SameRun(state, h)
  <2>1. /\ state'.header = h /\ state'.observation = None
        /\ state'.missing_sequences = 0 /\ state'.connected = TRUE
    BY <1>1, <1>2, <1>4 DEF accept_header, InitialState
  <2>2. previous_sequence(state)' = 0
    BY <2>1 DEF previous_sequence
  <2>3. Feed!Start
    BY <1>1, <1>2, <1>4, <2>1, <2>2 DEF Feed!Start, SameRun
  <2> QED BY <2>3
<1> QED BY <1>3, <1>4

(* An observation that is accepted is an Observe.                          *)
LEMMA ObservationFeeds ==
  ASSUME RInv, NEW c \in Conns, AcceptObservation(c)
  PROVE  Feed!Observe
<1> DEFINE o == Head(batch)
<1>1. /\ o \in Observations /\ ~ObservationError(state, o)
      /\ state' = accept_observation(state, o)
  BY DEF AcceptObservation, Acceptable
<1>2. state \in ExecutionState
  BY DEF RInv, ReceiverTypeOK
<1>3. /\ state'.connected = state.connected /\ state'.header = state.header
      /\ state'.observation = o
      /\ state'.missing_sequences
           = state.missing_sequences + (o.sequence - previous_sequence(state) - 1)
  BY <1>1, <1>2, AcceptObservationType
<1>4. o \in Observation /\ o # None /\ o.sequence \in Nat /\ o.elapsed_s \in Nat
  BY <1>1, RunStateAssumption DEF Observation
<1>5. previous_sequence(state) \in Nat /\ state.missing_sequences \in Nat
  BY <1>2, PreviousSequenceType DEF ExecutionState
<1>6. previous_sequence(state)' = o.sequence
  BY <1>3, <1>4 DEF previous_sequence
<1>7. previous_sequence(state)' - state'.missing_sequences
        = (previous_sequence(state) - state.missing_sequences) + 1
  BY <1>3, <1>4, <1>5, <1>6
<1>8. /\ state.connected /\ o.run_id = state.header.run_id
      /\ ~(o.sequence <= previous_sequence(state))
      /\ state.header.scene \in o.fits
      /\ state.observation # None => ~(o.elapsed_s < state.observation.elapsed_s)
  BY <1>1 DEF ObservationError
<1>9. state.observation # None =>
        /\ state'.observation.sequence > state.observation.sequence
        /\ state'.observation.elapsed_s >= state.observation.elapsed_s
  <2> SUFFICES ASSUME state.observation # None
               PROVE  /\ o.sequence > state.observation.sequence
                      /\ o.elapsed_s >= state.observation.elapsed_s
    BY <1>3
  <2>1. state.observation.sequence \in Nat /\ state.observation.elapsed_s \in Nat
    BY <1>2 DEF ExecutionState, Observation
  <2> QED BY <1>4, <1>8, <2>1 DEF previous_sequence
<1> QED BY <1>3, <1>4, <1>7, <1>8, <1>9 DEF Feed!Observe

(* The end of a producer is a Drop, or nothing if it was not accepted.     *)
LEMMA EndFeeds ==
  ASSUME RInv, NEW c \in Conns, Finally(c)
  PROVE  Feed!Drop \/ state' = state
<1>1. CASE ~accepted_header[c]
  BY <1>1 DEF Finally
<1>2. CASE accepted_header[c]
  <2>1. state' = disconnect(state)
    BY <1>2 DEF Finally, Disconnect
  <2>2. state \in ExecutionState
    BY DEF RInv, ReceiverTypeOK
  <2>3. state.connected
    BY <1>2 DEF Finally, RInv, ConnectedWhileServed, Serving
  <2>4. /\ state'.connected = FALSE /\ state'.header = state.header
        /\ state'.observation = state.observation
        /\ state'.missing_sequences = state.missing_sequences
    BY <2>1, <2>2, DisconnectType
  <2>5. previous_sequence(state)' = previous_sequence(state)
    BY <2>4 DEF previous_sequence
  <2> QED BY <2>3, <2>4, <2>5 DEF Feed!Drop
<1> QED BY <1>1, <1>2

(* A step that leaves the state alone is not seen.                         *)
LEMMA Unseen ==
  ASSUME state' = state
  PROVE  UNCHANGED Feed!vars
BY DEF Feed!vars, previous_sequence

(* For any connections, chunks and observations, the receiver implements   *)
(* RunFeed (server.py:55-158 with machine.py:33-118).                      *)
THEOREM ReceiverImplementsFeed == ReceiverSpec => ImplementsFeed
<1>1. ReceiverInit => Feed!Init
  BY DEF ReceiverInit, Feed!Init, InitialState, previous_sequence
<1>2. RInv /\ [ReceiverNext]_rvars => [Feed!Next]_Feed!vars
  <2> SUFFICES ASSUME RInv, [ReceiverNext]_rvars PROVE Feed!Next \/ UNCHANGED Feed!vars
    OBVIOUS
  <2>1. CASE ReceiverNext
    <3> PICK c \in Conns :
          \/ Reject(c) \/ Accept(c)
          \/ \E ch \in Chunks : ReadNoLine(c, ch) \/ ReadHeader(c, ch)
                                  \/ ReadNoHeader(c, ch) \/ ReadChunk(c, ch)
          \/ HeaderTimeout(c) \/ EndOfStream(c) \/ Coroutine(c)
      BY <2>1 DEF ReceiverNext
    <3>1. CASE Reject(c) \/ Accept(c) \/ HeaderTimeout(c) \/ EndOfStream(c)
      BY <3>1, Unseen DEF Reject, Accept, HeaderTimeout, EndOfStream, shared
    <3>2. CASE \E ch \in Chunks : ReadNoLine(c, ch) \/ ReadNoHeader(c, ch) \/ ReadChunk(c, ch)
      BY <3>2, Unseen DEF ReadNoLine, ReadNoHeader, ReadChunk, shared
    <3>3. CASE \E ch \in Chunks : ReadHeader(c, ch)
      BY <3>3, HeaderFeeds DEF Feed!Next
    <3>4. CASE AcceptObservation(c)
      BY <3>4, ObservationFeeds DEF Feed!Next
    <3>5. CASE RejectLine(c) \/ RaiseUnhandled(c) \/ RaiseFramingError(c)
      BY <3>5, Unseen DEF RejectLine, RaiseUnhandled, RaiseFramingError, shared
    <3>6. CASE Finally(c)
      BY <3>6, EndFeeds, Unseen DEF Feed!Next
    <3> QED BY <3>1, <3>2, <3>3, <3>4, <3>5, <3>6 DEF Coroutine
  <2>2. CASE UNCHANGED rvars
    BY <2>2, Unseen DEF rvars, shared
  <2> QED BY <2>1, <2>2
<1> QED BY <1>1, <1>2, ReceiverInvariance, PTL DEF ReceiverSpec, ImplementsFeed, Feed!Spec

-----------------------------------------------------------------------------
(* Part 2: the composition.                                                *)

WP == INSTANCE RenderWorkerProofs

-----------------------------------------------------------------------------
(* The worker's actions under both names.                                  *)

LEMMA SameWorker ==
  /\ W!Init <=> WP!Init
  /\ \A r \in Requests : W!submit(r) <=> WP!submit(r)
  /\ W!invalidate <=> WP!invalidate
  /\ W!poll <=> WP!poll
  /\ W!Others <=> WP!Others
  /\ UNCHANGED wvars <=> UNCHANGED WP!vars
<1>1. W!Init <=> WP!Init
  BY DEF W!Init, WP!Init
<1>2. ASSUME NEW r \in Requests PROVE W!submit(r) <=> WP!submit(r)
  BY DEF W!submit, W!flush_pending, W!CanOffer, W!Tag, W!child, W!store,
         WP!submit, WP!flush_pending, WP!CanOffer, WP!Tag, WP!child, WP!store
<1>3. W!invalidate <=> WP!invalidate
  BY DEF W!invalidate, W!clear, W!child, WP!invalidate, WP!clear, WP!child
<1>4. W!poll <=> WP!poll
  BY DEF W!poll, W!flush_pending, W!CanOffer, W!inflight_after_poll, W!Current, W!publish,
         W!report_error, W!child, W!store,
         WP!poll, WP!flush_pending, WP!CanOffer, WP!inflight_after_poll, WP!Current,
         WP!publish, WP!report_error, WP!child, WP!store
<1>5. W!Others <=> WP!Others
  BY DEF W!Others, W!close, W!PutStop, W!PutStopTimeout, W!Join, W!JoinTimeout, W!terminate,
         W!Take, W!Answer, W!Exit, W!Die, W!parent, W!child, W!store, W!hist,
         WP!Others, WP!close, WP!PutStop, WP!PutStopTimeout, WP!Join, WP!JoinTimeout,
         WP!terminate, WP!Take, WP!Answer, WP!Exit, WP!Die,
         WP!parent, WP!child, WP!store, WP!hist
<1>6. UNCHANGED wvars <=> UNCHANGED WP!vars
  BY DEF wvars, WP!vars, WP!parent, WP!child, WP!store, WP!hist
<1> QED BY <1>1, <1>2, <1>3, <1>4, <1>5, <1>6

LEMMA WorkerAssumption == WP!ConstantAssumption
BY LivePreviewAssumption
   DEF W!ConstantAssumption, W!Envelope, W!Outcome,
       WP!ConstantAssumption, WP!Envelope, WP!Outcome

-----------------------------------------------------------------------------
(* What a step of the receiver does to the state it tells.                 *)

\* An observation in the state belongs to its run.
RunHolds == state.observation # None => state.header # None /\ state.observation \in Observations

\* The state goes on: the same run, the same or a later observation.
GoesOn(s) ==
  /\ s.observation \in Observations /\ s.header \in Header /\ s.connected \in BOOLEAN
  /\ told.observation # None =>
       /\ s.header = told.header
       /\ \/ s.observation = told.observation
          \/ told.observation.sequence < s.observation.sequence

LEMMA StateStep ==
  ASSUME ReceiverNext
  PROVE  \/ state' = state
         \/ \E h \in Header : state' = accept_header(state, h)
         \/ \E o \in Observations : ~ObservationError(state, o)
                                    /\ state' = accept_observation(state, o)
         \/ state' = disconnect(state)
<1>1. PICK c \in Conns :
        \/ Reject(c) \/ Accept(c)
        \/ \E ch \in Chunks : ReadNoLine(c, ch) \/ ReadHeader(c, ch) \/ ReadNoHeader(c, ch)
                                \/ ReadChunk(c, ch)
        \/ HeaderTimeout(c) \/ EndOfStream(c) \/ Coroutine(c)
  BY DEF ReceiverNext
<1>2. CASE \E ch \in Chunks : ReadHeader(c, ch)
  BY <1>2 DEF ReadHeader, HeaderLine
<1>3. CASE AcceptObservation(c)
  BY <1>3 DEF AcceptObservation, Acceptable
<1>4. CASE Finally(c)
  BY <1>4 DEF Finally, Disconnect
<1>5. CASE Reject(c) \/ Accept(c)
  BY <1>5 DEF Reject, Accept
<1>6. CASE \E ch \in Chunks : ReadNoLine(c, ch) \/ ReadNoHeader(c, ch) \/ ReadChunk(c, ch)
  BY <1>6 DEF ReadNoLine, ReadNoHeader, ReadChunk, shared
<1>7. CASE HeaderTimeout(c) \/ EndOfStream(c)
  BY <1>7 DEF HeaderTimeout, EndOfStream, shared
<1>8. CASE RejectLine(c) \/ RaiseUnhandled(c) \/ RaiseFramingError(c)
  BY <1>8 DEF RejectLine, RaiseUnhandled, RaiseFramingError, shared
<1> QED BY <1>1, <1>2, <1>3, <1>4, <1>5, <1>6, <1>7, <1>8 DEF Coroutine

LEMMA ToldStep ==
  ASSUME RInv, RunHolds, ReceiverNext
  PROVE  RunHolds' /\ (told' = told \/ told'.observation = None \/ GoesOn(told'))
<1>1. RInv'
  BY RStepInv
<1>2. told = state /\ told' = state' /\ state \in ExecutionState /\ state' \in ExecutionState
  BY <1>1 DEF RInv, NothingUntold, ReceiverTypeOK
<1>3. CASE state' = state
  BY <1>2, <1>3 DEF RunHolds
<1>4. ASSUME NEW h \in Header, state' = accept_header(state, h)
      PROVE  RunHolds' /\ (told'.observation = None \/ GoesOn(told'))
  <2>1. CASE SameRun(state, h)
    <3>1. state'.header = state.header /\ state'.observation = state.observation
          /\ state'.connected \in BOOLEAN
      BY <1>2, <1>4, <2>1 DEF accept_header, ExecutionState
    <3> QED BY <1>2, <3>1 DEF RunHolds, GoesOn, ExecutionState
  <2>2. CASE ~SameRun(state, h)
    <3>1. state'.observation = None
      BY <1>4, <2>2 DEF accept_header, InitialState
    <3> QED BY <1>2, <3>1 DEF RunHolds
  <2> QED BY <2>1, <2>2
<1>5. ASSUME NEW o \in Observations, ~ObservationError(state, o),
             state' = accept_observation(state, o)
      PROVE  RunHolds' /\ GoesOn(told')
  <2>1. state'.observation = o /\ state'.header = state.header /\ state'.connected \in BOOLEAN
    BY <1>2, <1>5, AcceptObservationType DEF ExecutionState
  <2>2. state.header # None /\ ~(o.sequence <= previous_sequence(state))
    BY <1>5 DEF ObservationError
  <2>3. state.observation # None => state.observation.sequence < o.sequence
    BY <1>2, <2>2, RunStateAssumption DEF previous_sequence, ExecutionState, Observation
  <2> QED BY <1>2, <2>1, <2>2, <2>3 DEF RunHolds, GoesOn, ExecutionState
<1>6. ASSUME state' = disconnect(state)
      PROVE  RunHolds' /\ (told'.observation = None \/ GoesOn(told'))
  <2>1. /\ state'.observation = state.observation /\ state'.header = state.header
        /\ state'.connected \in BOOLEAN
    BY <1>2, <1>6, DisconnectType
  <2> QED BY <1>2, <2>1 DEF RunHolds, GoesOn, ExecutionState
<1> QED BY <1>3, <1>4, <1>5, <1>6, StateStep

-----------------------------------------------------------------------------
(* The invariant.                                                          *)

\* A request of the present generation is of the coordinator's run, and not ahead.
Known(x) ==
  x.n > base =>
    /\ coordinator_state.observation # None
    /\ x.request.header = coordinator_state.header
    /\ x.request.observation.sequence <= coordinator_state.observation.sequence
    /\ x.request.observation.sequence = coordinator_state.observation.sequence =>
         x.request.observation = coordinator_state.observation

Noted ==
  /\ coordinator_state = told
  /\ stamped = coordinator_state.observation
  /\ last_received_sequence =
       IF coordinator_state.observation = None THEN None
                                               ELSE coordinator_state.observation.sequence

LInv ==
  /\ RInv /\ RunHolds
  /\ WP!IInv /\ closing = "open"
  /\ Noted
  /\ \A x \in WP!Held : Known(x)

LEMMA InitLInv == Init => LInv
<1> SUFFICES ASSUME Init PROVE LInv
  OBVIOUS
<1>1. RInv /\ WP!IInv
  BY InitRInv, SameWorker, WorkerAssumption, WP!InitInv DEF Init
<1>2. RunHolds /\ Noted
  BY DEF Init, ReceiverInit, InitialState, RunHolds, Noted
<1>3. closing = "open" /\ WP!Held = {}
  BY DEF Init, W!Init, WP!Held
<1> QED BY <1>1, <1>2, <1>3 DEF LInv

\* What is carried over is known as before, if the coordinator's state goes on.
LEMMA CarriedKnown ==
  ASSUME LInv, NEW x, WP!Carried(x), UNCHANGED base,
         coordinator_state' = told \/ GoesOn(coordinator_state')
  PROVE  Known(x)'
<1>1. PICK y \in WP!Held : x.n = y.n /\ x.request = y.request
  BY DEF WP!Carried
<1>2. Known(y) /\ coordinator_state = told
  BY DEF LInv, Noted
<1>3. y.request \in Requests /\ base \in Nat /\ y.n \in Nat
  <2>1. WP!IInv /\ asked \in Nat /\ base \in Nat
    BY DEF LInv, WP!IInv, WP!TypeOK
  <2> QED BY <2>1, WorkerAssumption, WP!HeldTyped
<1>4. CASE x.n > base
  <2>1. /\ told.observation # None
        /\ x.request.header = told.header
        /\ x.request.observation.sequence <= told.observation.sequence
        /\ x.request.observation.sequence = told.observation.sequence =>
             x.request.observation = told.observation
    BY <1>1, <1>2, <1>4 DEF Known
  <2>2. CASE coordinator_state' = told
    BY <2>1, <2>2 DEF Known
  <2>3. CASE GoesOn(coordinator_state')
    <3>1. /\ coordinator_state'.observation \in Observations
          /\ coordinator_state'.header = told.header
          /\ \/ coordinator_state'.observation = told.observation
             \/ told.observation.sequence < coordinator_state'.observation.sequence
      BY <2>1, <2>3 DEF GoesOn
    <3>2. /\ x.request.observation.sequence \in Nat
          /\ told.observation.sequence \in Nat
          /\ coordinator_state'.observation.sequence \in Nat
          /\ coordinator_state'.observation # None
      <4>1. told \in ExecutionState
        BY DEF LInv, RInv, ReceiverTypeOK
      <4>2. x.request.observation \in Observations
        BY <1>1, <1>3, LivePreviewAssumption
      <4> QED BY <2>1, <3>1, <4>1, <4>2, RunStateAssumption DEF ExecutionState, Observation
    <3> QED BY <2>1, <3>1, <3>2 DEF Known
  <2> QED BY <2>2, <2>3
<1>5. CASE ~(x.n > base)
  BY <1>5 DEF Known
<1> QED BY <1>4, <1>5

\* A state without an observation is a reset: nothing held is of the new generation.
LEMMA ResetLInv ==
  ASSUME LInv, RInv', RunHolds', state_changed(told'), told'.observation = None
  PROVE  LInv' /\ W!Used
<1>1. /\ coordinator_state' = told' /\ stamped' = None /\ last_received_sequence' = None
      /\ W!invalidate
  BY DEF state_changed, ForgetSequence, DropRun
<1>2. WP!IInv' /\ WP!invalidate
  BY <1>1, SameWorker, WorkerAssumption, WP!InvalidateInv DEF LInv
<1>3. base' = asked /\ asked' = asked /\ closing' = closing
  BY <1>1 DEF W!invalidate
<1>4. ASSUME NEW x \in WP!Held' PROVE Known(x)'
  <2>1. PICK y \in WP!Held : x.n = y.n /\ x.request = y.request
    BY <1>2, WP!InvalidateHolds, WorkerAssumption DEF WP!Carried
  <2>2. y.n \in 1 .. asked /\ asked \in Nat
    BY WP!HeldTyped, WorkerAssumption DEF LInv, WP!IInv, WP!TypeOK
  <2> QED BY <1>3, <2>1, <2>2 DEF Known
<1> QED BY <1>1, <1>2, <1>3, <1>4 DEF LInv, Noted, W!Used

\* A state with an observation is submitted.
LEMMA SubmitLInv ==
  ASSUME LInv, RInv', RunHolds', state_changed(told'), GoesOn(told')
  PROVE  LInv' /\ W!Used
<1> DEFINE r == RenderRequest(told')
<1>0. /\ told' \in ExecutionState /\ told \in ExecutionState /\ None \notin Nat
      /\ coordinator_state = told
      /\ Observations \subseteq Observation /\ None \notin Observation
  BY LivePreviewAssumption, RunStateAssumption DEF LInv, RInv, ReceiverTypeOK, Noted
<1>1. /\ told'.observation \in Observations /\ told'.observation # None
      /\ told'.observation.sequence \in Nat /\ told'.observation.sequence # None
  BY <1>0 DEF GoesOn, Observation
<1>2. /\ coordinator_state' = told' /\ NoteSequence(told'.observation) /\ W!submit(r)
  BY <1>1 DEF state_changed, SubmitState
<1>3. r \in Requests
  BY <1>1, LivePreviewAssumption DEF RenderRequest, GoesOn
<1>4. WP!IInv' /\ WP!submit(r)
  BY <1>2, <1>3, SameWorker, WorkerAssumption, WP!SubmitInv DEF LInv
<1>5. base' = base /\ asked' = asked + 1 /\ closing' = closing
  BY <1>2 DEF W!submit
<1>6. Noted'
  <2>1. CASE told'.observation.sequence # last_received_sequence
    BY <1>1, <1>2, <2>1 DEF NoteSequence, Noted
  <2>2. CASE told'.observation.sequence = last_received_sequence
    <3>1. told.observation # None /\ told'.observation.sequence = told.observation.sequence
      BY <1>1, <2>2 DEF LInv, Noted
    <3>2. told'.observation = told.observation
      BY <1>1, <3>1 DEF GoesOn
    <3>3. UNCHANGED <<stamped, last_received_sequence>>
      BY <1>2, <2>2 DEF NoteSequence
    <3> QED BY <1>0, <1>1, <1>2, <3>1, <3>2, <3>3 DEF LInv, Noted
  <2> QED BY <2>1, <2>2
<1>7. ASSUME NEW x \in WP!Held' PROVE Known(x)'
  <2>1. WP!Carried(x) \/ (x.n = asked + 1 /\ x.request = r)
    BY <1>3, <1>4, WP!SubmitHolds, WorkerAssumption DEF LInv
  <2>2. CASE WP!Carried(x)
    BY <1>2, <1>5, <2>2, CarriedKnown
  <2>3. CASE x.request = r
    <3>1. /\ x.request.header = told'.header /\ x.request.observation = told'.observation
      BY <2>3 DEF RenderRequest
    <3> QED BY <1>1, <1>2, <3>1 DEF Known
  <2> QED BY <2>1, <2>2, <2>3
<1> QED BY <1>2, <1>3, <1>4, <1>5, <1>6, <1>7 DEF LInv, W!Used

\* A step that neither tells a state nor submits or resets.
LEMMA QuietLInv ==
  ASSUME LInv, RInv', RunHolds', told' = told, UNCHANGED cvars,
         W!poll \/ (W!Others /\ closing' = "open") \/ UNCHANGED wvars
  PROVE  LInv'
<1>1. WP!poll \/ WP!Others \/ UNCHANGED WP!vars
  BY SameWorker
<1>2. WP!IInv'
  BY <1>1, WP!PollInv, WP!OtherInv, WorkerAssumption DEF LInv
<1>3. base' = base /\ closing' = "open"
  BY DEF LInv, wvars, W!poll, W!Others, W!close, W!PutStop, W!PutStopTimeout, W!Join,
         W!JoinTimeout, W!Take, W!Answer, W!Exit, W!Die, W!hist
<1>4. Noted' /\ coordinator_state' = told
  BY DEF LInv, Noted, cvars
<1>5. ASSUME NEW x \in WP!Held' PROVE Known(x)'
  <2>1. WP!Carried(x)
    BY <1>1, WP!PollHolds, WP!OthersHold, WorkerAssumption DEF LInv
  <2> QED BY <1>3, <1>4, <2>1, CarriedKnown
<1> QED BY <1>2, <1>3, <1>4, <1>5 DEF LInv

(* Every step keeps the invariant, and is one that the worker allows.      *)
LEMMA NextLInv == LInv /\ [Next]_vars => LInv' /\ [W!Used]_wvars
<1> SUFFICES ASSUME LInv, [Next]_vars PROVE LInv' /\ [W!Used]_wvars
  OBVIOUS
<1>1. CASE Receive
  <2>1. ReceiverNext /\ Notified /\ RInv'
    BY <1>1, RStepInv DEF Receive, LInv
  <2>2. RunHolds' /\ (told' = told \/ told'.observation = None \/ GoesOn(told'))
    BY <2>1, ToldStep DEF LInv
  <2>3. CASE told' = told
    BY <2>1, <2>2, <2>3, QuietLInv DEF Notified
  <2>4. CASE told' # told
    <3>1. state_changed(told')
      BY <2>1, <2>4 DEF Notified
    <3> QED BY <2>1, <2>2, <2>4, <3>1, ResetLInv, SubmitLInv
  <2> QED BY <2>3, <2>4
<1>2. ASSUME UNCHANGED <<rvars, cvars>>, W!poll \/ (W!Others /\ closing' = "open") \/ UNCHANGED wvars
      PROVE  LInv' /\ [W!Used]_wvars
  <2>1. RInv' /\ RunHolds' /\ told' = told
    BY <1>2, RStepInv DEF LInv, RunHolds, rvars, shared
  <2> QED BY <1>2, <2>1, QuietLInv DEF W!Used
<1>3. CASE poll_renderers
  BY <1>2, <1>3 DEF poll_renderers
<1>4. CASE ChildTakes
  BY <1>2, <1>4 DEF ChildTakes, Child, W!Others, W!Take, LInv
<1>5. CASE ChildAnswers
  BY <1>2, <1>5 DEF ChildAnswers, Child, W!Others, W!Answer, LInv
<1>6. CASE ChildDies
  BY <1>2, <1>6 DEF ChildDies, Child, W!Others, W!Die, LInv
<1>7. CASE UNCHANGED vars
  BY <1>2, <1>7 DEF vars
<1> QED BY <1>1, <1>3, <1>4, <1>5, <1>6, <1>7 DEF Next

LEMMA Invariance == Spec => []LInv
BY InitLInv, NextLInv, PTL DEF Spec

(* The page never shows a picture of another run, of an earlier visit to   *)
(* the same run, or ahead of what was received (live.py:81-87,             *)
(* worker.py:105-120).                                                     *)
THEOREM CurrentRunShown == Spec => []PageShowsCurrentRun
<1>1. LInv => PageShowsCurrentRun
  <2> SUFFICES ASSUME LInv, frame # None
               PROVE  /\ frame.n > base
                      /\ coordinator_state.observation # None
                      /\ frame.request.header = coordinator_state.header
                      /\ frame.request.observation.sequence
                           <= coordinator_state.observation.sequence
    BY DEF PageShowsCurrentRun
  <2>1. frame \in WP!Held
    BY WorkerAssumption DEF LInv, WP!IInv, WP!TypeOK, WP!Held, WP!ConstantAssumption
  <2>2. frame.n > base
    BY DEF LInv, WP!IInv, WP!Order, WP!TypeOK
  <2> QED BY <2>1, <2>2 DEF LInv, Known
<1> QED BY <1>1, Invariance, PTL

(* When the sequence of the picture equals that of the newest observation, *)
(* it is that observation's, and the time of reception is that of the      *)
(* observation reported (live.py:85-116, app.py:233-243).                  *)
THEOREM StatusIsTrue == Spec => []StatusAgrees
<1>1. LInv => StatusAgrees
  <2> SUFFICES ASSUME LInv PROVE StatusAgrees
    OBVIOUS
  <2>1. StampOfLatest
    BY DEF LInv, Noted, StampOfLatest, status
  <2>2. ASSUME frame # None PROVE frame \in WP!Held /\ frame.n > base
    BY <2>2, WorkerAssumption
       DEF LInv, WP!IInv, WP!Order, WP!TypeOK, WP!Held, WP!ConstantAssumption
  <2>3. coordinator_state.observation = None => frame = None
    BY <2>2 DEF LInv, Known
  <2>4. RenderedMeansReceived
    BY <2>2, <2>3 DEF LInv, Known, RenderedMeansReceived, status, rendered_sequence
  <2> QED BY <2>1, <2>4 DEF StatusAgrees
<1> QED BY <1>1, Invariance, PTL

(* The coordinator uses the worker only in the ways RenderWorker allows,   *)
(* whatever the receiver tells it (live.py:77-99, 136-139).                *)
THEOREM CoordinatorUsesWorker == Spec => UsesWorker
<1>1. Init => W!Init
  BY DEF Init
<1> QED BY <1>1, NextLInv, Invariance, PTL DEF Spec, UsesWorker

(* So the worker's invariants hold in the live process: at most one job,   *)
(* no request lost, no error behind an older picture (worker.py:91-126).   *)
THEOREM WorkerInvariantsHold ==
  Spec => [](WP!OneJob /\ WP!NothingLost /\ WP!NoErrorMeansShown)
<1>1. LInv => WP!OneJob /\ WP!NothingLost /\ WP!NoErrorMeansShown
  BY DEF LInv, WP!IInv
<1> QED BY <1>1, Invariance, PTL

(* And what the page reads implements the abstract renderer: it answers a  *)
(* request made since the last reset, and never goes back to an older one  *)
(* (live.py:77-99, worker.py:91-126, store.py:17-42).                      *)
THEOREM PageImplementsLatest == Spec => WP!ImplementsLatest
<1>1. Init => WP!Latest!Init
  BY DEF Init, W!Init, WP!Latest!Init
<1>2. LInv /\ [Next]_vars => [WP!Latest!Next]_(WP!Latest!vars)
  <2> SUFFICES ASSUME LInv, [Next]_vars PROVE [WP!Latest!Next]_(WP!Latest!vars)
    OBVIOUS
  <2>1. [W!Used]_wvars
    BY NextLInv
  <2>2. W!Used => WP!Used
    BY SameWorker DEF W!Used, WP!Used
  <2>3. [WP!Used]_(WP!vars)
    BY <2>1, <2>2, SameWorker
  <2> QED BY <2>3, WP!UsedImplementsLatest, WorkerAssumption DEF LInv
<1> QED BY <1>1, <1>2, Invariance, PTL DEF Spec, WP!ImplementsLatest, WP!Latest!Spec
=============================================================================
