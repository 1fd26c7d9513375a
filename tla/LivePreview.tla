---------------------------- MODULE LivePreview ----------------------------
(***************************************************************************)
(* The browser side of the live process: the receiver, the coordinator     *)
(* that its on_state callback calls, the render worker with its child, and *)
(* the frame store and status that the page reads.  The callback runs      *)
(* inside the receiver's step; the 5 ms poll runs on the same event loop,  *)
(* so never between two lines of one chunk; the child runs at any time.    *)
(***************************************************************************)
EXTENDS Receiver

CONSTANTS
  Requests,     \* the states that may be submitted to be rendered
  Stop, MaxAsked, MaxResets

VARIABLES
  generation, inflight, pending, last_error,
  requests, outcomes, rendering, process, closing, frame, revision,
  asked, base, settled,
  coordinator_state,        \* _state
  last_received_sequence,   \* _last_received_sequence
  stamped,                  \* _last_valid_received_at: whose arrival it records
  poll_error                \* poll_error: the poll loop has ended with an error

W == INSTANCE RenderWorker

ASSUME LivePreviewAssumption ==
  /\ Requests = [header: Header, observation: Observations, connected: BOOLEAN]
  /\ None \notin Nat
  /\ W!ConstantAssumption

wvars == <<generation, inflight, pending, last_error, requests, outcomes, rendering,
           process, closing, frame, revision, asked, base, settled>>
cvars == <<coordinator_state, last_received_sequence, stamped>>
vars  == <<rvars, wvars, cvars, poll_error>>

Init ==
  /\ ReceiverInit /\ W!Init
  /\ coordinator_state = InitialState
  /\ last_received_sequence = None
  /\ stamped = None
  /\ poll_error = FALSE

-----------------------------------------------------------------------------
(* LiveCoordinator.state_changed.                                          *)

\* Mutant: the previous run's sequence is remembered.
ForgetSequence_kept == stamped' = None /\ UNCHANGED last_received_sequence

ForgetSequence == stamped' = None /\ last_received_sequence' = None

\* Mutant: the store is cleared, the worker not told.
DropRun_store_only ==
  /\ W!clear
  /\ UNCHANGED <<generation, inflight, pending, last_error, requests, outcomes, rendering,
                 process, closing, asked, base, settled>>

DropRun == W!invalidate

NoteSequence(o) ==
  IF o.sequence # last_received_sequence
    THEN last_received_sequence' = o.sequence /\ stamped' = o
    ELSE UNCHANGED <<last_received_sequence, stamped>>

RenderRequest(s) ==
  [header |-> s.header, observation |-> s.observation, connected |-> s.connected]

\* Mutant: only a new observation is submitted, not a change of connection.
SubmitState_new_only(s) ==
  IF s.observation.sequence # last_received_sequence
    THEN W!submit(RenderRequest(s))
    ELSE UNCHANGED wvars

SubmitState(s) == W!submit(RenderRequest(s))

state_changed(s) ==
  /\ coordinator_state' = s
  /\ IF s.observation = None
       THEN ForgetSequence /\ DropRun
       ELSE NoteSequence(s.observation) /\ SubmitState(s)

\* Every call of on_state passes a state different from the one before.
Notified ==
  IF told' # told THEN state_changed(told') ELSE UNCHANGED <<wvars, cvars>>

-----------------------------------------------------------------------------
Receive == ReceiverNext /\ Notified /\ UNCHANGED poll_error

\* One round of poll_renderer: poll, then fail if the child is gone.
poll_renderers ==
  /\ busy = None /\ ~poll_error
  /\ W!poll
  /\ poll_error' = (process # "alive")
  /\ UNCHANGED <<rvars, cvars>>

Child(A) == A /\ UNCHANGED <<rvars, cvars, poll_error>>

ChildTakes   == Child(W!Take)
ChildAnswers == \E ok \in BOOLEAN : Child(W!Answer(ok))
ChildDies    == Child(W!Die)

Next == Receive \/ poll_renderers \/ ChildTakes \/ ChildAnswers \/ ChildDies

Spec == Init /\ [][Next]_vars

(* The event loop runs a coroutine to its next await and comes back to the *)
(* poll; the child process is scheduled and every render ends.             *)
Fairness ==
  /\ WF_vars((\E c \in Conns : Coroutine(c)) /\ Notified /\ UNCHANGED poll_error)
  /\ WF_vars(poll_renderers)
  /\ WF_vars(ChildTakes) /\ WF_vars(ChildAnswers)

FairSpec == Spec /\ Fairness

-----------------------------------------------------------------------------
(* What /status answers: LiveCoordinator.status, and what the handler adds *)
(* to it from the store.  Both are read at once, with no await between.    *)
(* The camera's part of it is left out.                                    *)

status ==
  LET s == coordinator_state IN
  [ connected |-> s.connected,
    run_id |-> IF s.header = None THEN None ELSE s.header.run_id,
    received_sequence |-> IF s.observation = None THEN None ELSE s.observation.sequence,
    missing_sequences |-> s.missing_sequences,
    connection_index |-> s.connection_index,
    last_valid_received_at |-> stamped,
    records_accepted |-> snapshot["records_accepted"],
    records_rejected |-> snapshot["records_rejected"],
    render_error |-> last_error ]

rendered_sequence == IF frame = None THEN None ELSE frame.request.observation.sequence

-----------------------------------------------------------------------------
(* Properties.                                                             *)

(* The page never shows a picture of another run, nor of an earlier visit  *)
(* to the same run, nor one ahead of what was received: a late outcome of  *)
(* the child cannot refill a store that a new header has emptied           *)
(* (live.py:81-87, worker.py:105-120).                                     *)
PageShowsCurrentRun ==
  frame # None =>
    /\ frame.n > base
    /\ coordinator_state.observation # None
    /\ frame.request.header = coordinator_state.header
    /\ frame.request.observation.sequence <= coordinator_state.observation.sequence

(* README.md: when received_sequence equals rendered_sequence the page     *)
(* shows the latest observation, although two visits to a run number their *)
(* observations alike (live.py:101-116, app.py:233-243).                   *)
RenderedMeansReceived ==
  rendered_sequence # None /\ status.received_sequence = rendered_sequence =>
    frame.request.observation = coordinator_state.observation

(* last_valid_received_at is the arrival of the observation that status    *)
(* reports, also after a reconnect and after a change of run               *)
(* (live.py:85-90).                                                        *)
StampOfLatest == status.last_valid_received_at = coordinator_state.observation

(* What the status reports is true: the two parts above.                   *)
StatusAgrees == RenderedMeansReceived /\ StampOfLatest

(* The coordinator uses the worker only in the ways RenderWorker allows,   *)
(* so what is proved of RenderWorker holds here (live.py:77-99, 136-139).  *)
UsesWorker == W!Init /\ [][W!Used]_wvars

PageMatches ==
  IF coordinator_state.observation = None
    THEN frame = None
    ELSE /\ frame # None
         /\ frame.request.observation = coordinator_state.observation
         /\ frame.request.connected = status.connected

(* Once the inputs stop, the page comes to show the latest observation     *)
(* with the present connection state, unless a render error is reported or *)
(* the child is gone (docs/architecture.md:153-154; live.py:91-99,         *)
(* worker.py:91-126).                                                      *)
PageCatchesUp == <>[](PageMatches \/ status.render_error \/ process # "alive")
=============================================================================
