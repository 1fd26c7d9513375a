--------------------------- MODULE CameraPipeline ---------------------------
(***************************************************************************)
(* SyntheticCameraPipeline (synthetic_camera/pipeline.py) with its render  *)
(* worker and its frame store, driven by the transitions of the run state. *)
(* A new observation either is rendered at once or starts a segment, whose *)
(* frames follow the wall clock; the worker keeps one job and the latest   *)
(* pending one.  The worker's class is a twin of the browser's: all but    *)
(* its poll are the actions of RenderWorker.                               *)
(*                                                                         *)
(* The wall clock runs in the unit of simulation time, and only the time   *)
(* since the segment started matters: `waited', up to the segment's end.   *)
(* last_error is the worker's.  The pipeline's own copy, which a lost      *)
(* source leaves in the status, and its counters are only reported.        *)
(***************************************************************************)
EXTENDS FrameSchedule, Sequences

CONSTANTS
  Stop,
  MaxAsked, MaxResets,   \* of RenderWorker; not reached in the instances
  MaxConnections         \* bound: connections accepted

CameraRequest == [header: Header, frame: Frame]

VARIABLES
  generation, inflight, pending, last_error,
  requests, outcomes, rendering, process, closing, frame, revision,
  asked, base, settled,
  state,              \* the receiver's ExecutionState
  run_id,             \* _run_id
  last_observation,   \* _last_observation
  segment,            \* _segment, or None
  next_frame_index,   \* _next_frame_index
  waited,             \* time.monotonic() - segment.started_at, 0 without a segment
  poll_error          \* poll has raised: the renderer process is gone

W == INSTANCE RenderWorker WITH Requests <- CameraRequest

ASSUME CameraPipelineAssumption == W!ConstantAssumption

wvars == <<generation, inflight, pending, last_error, requests, outcomes, rendering,
           process, closing, frame, revision, asked, base, settled>>
pvars == <<run_id, last_observation, segment, next_frame_index, waited>>
vars  == <<wvars, pvars, state, poll_error>>

Init ==
  /\ W!Init
  /\ state = InitialState
  /\ run_id = None /\ last_observation = None
  /\ segment = None /\ next_frame_index = 0 /\ waited = 0
  /\ poll_error = FALSE

-----------------------------------------------------------------------------
(* state_changed.                                                          *)

\* worker.invalidate and store.clear.
forget_frames == W!invalidate

drop_segment == segment' = None /\ next_frame_index' = 0 /\ waited' = 0

reset_run(run) ==
  /\ forget_frames
  /\ run_id' = run /\ last_observation' = None
  /\ drop_segment

\* Mutant: the frames stay when the source disconnects.
lose_source_keeps_frames == drop_segment /\ UNCHANGED <<wvars, run_id, last_observation>>

lose_source == forget_frames /\ drop_segment /\ UNCHANGED <<run_id, last_observation>>

request(h, f) == [header |-> h, frame |-> f]

\* Mutant: an older segment goes on after a hold.
show_at_once_keeps_segment(h, f) ==
  W!submit(request(h, f)) /\ UNCHANGED <<segment, next_frame_index, waited>>

show_at_once(h, f) == W!submit(request(h, f)) /\ drop_segment

start_segment(h, o, targets) ==
  /\ segment' = [header |-> h, left |-> last_observation, right |-> o, targets |-> targets]
  /\ next_frame_index' = 0 /\ waited' = 0
  /\ UNCHANGED wvars

\* Without a previous observation there is no segment to replace.
follow(h, o) ==
  LET targets == schedule_segment(last_observation, o) IN
  /\ IF last_observation = None THEN show_at_once(h, exact_frame(o))
     ELSE IF Len(targets) = 1 /\ targets[1].mode = "hold"
       THEN show_at_once(h, materialize_target(last_observation, o, targets[1]))
       ELSE start_segment(h, o, targets)
  /\ last_observation' = o
  /\ UNCHANGED run_id

RunOf(s) == IF s.header = None THEN None ELSE s.header.run_id

New(o) == o # None /\ (last_observation = None \/ o.sequence # last_observation.sequence)

\* A change of run comes connected and without an observation (accept_header).
state_changed(s) ==
  /\ state' = s
  /\ \/ closing # "open" /\ UNCHANGED <<wvars, pvars>>
     \/ /\ closing = "open"
        /\ \/ RunOf(s) # run_id /\ reset_run(RunOf(s))
           \/ RunOf(s) = run_id /\ ~s.connected /\ lose_source
           \/ /\ RunOf(s) = run_id /\ s.connected
              /\ IF New(s.observation) THEN follow(s.header, s.observation)
                                       ELSE UNCHANGED <<wvars, pvars>>
  /\ UNCHANGED poll_error

Connect(h) ==
  /\ state.connection_index < MaxConnections
  /\ ~state.connected /\ ~HeaderError(state, h)
  /\ state_changed(accept_header(state, h))

Observe(o) == ~ObservationError(state, o) /\ state_changed(accept_observation(state, o))

Disconnect == state.connected /\ state_changed(disconnect(state))

-----------------------------------------------------------------------------
(* poll.                                                                   *)

publish(o) ==
  IF o.ok THEN W!publish(o) /\ last_error' = FALSE
          ELSE last_error' = TRUE /\ W!clear

Due(target) == target.elapsed_s - segment.left.elapsed_s <= waited

\* The targets due, from the next one on; they are in order.
due_index ==
  CHOOSE n \in next_frame_index .. Len(segment.targets) :
    /\ \A i \in next_frame_index + 1 .. n : Due(segment.targets[i])
    /\ n < Len(segment.targets) => ~Due(segment.targets[n + 1])

\* The envelope poll submits: the last due target, or None.
due_request ==
  IF segment = None \/ process # "alive" THEN None
  ELSE IF due_index = next_frame_index THEN None
  ELSE W!Tag(request(segment.header,
         materialize_target(segment.left, segment.right, segment.targets[due_index])))

\* worker.poll offers what is pending; then the due frame becomes pending and is offered.
offer_both(new) ==
  LET free == W!inflight_after_poll IN
  IF new = None THEN W!flush_pending(pending, free)
  ELSE IF W!CanOffer(pending, free)
    THEN pending' = new /\ inflight' = TRUE /\ requests' = pending
    ELSE W!flush_pending(new, free)

\* Mutant: the segment ends before its last target.
advance_short ==
  IF due_index >= Len(segment.targets) - 1
    THEN drop_segment
    ELSE next_frame_index' = due_index /\ UNCHANGED <<segment, waited>>

\* Without a segment the index is not read, so it may as well be 0.
advance ==
  IF due_index >= Len(segment.targets)
    THEN drop_segment
    ELSE next_frame_index' = due_index /\ UNCHANGED <<segment, waited>>

poll ==
  /\ closing = "open" /\ ~poll_error
  /\ outcomes' = None
  /\ IF W!Current(outcomes)
       THEN publish(outcomes) /\ settled' = outcomes.n
       ELSE UNCHANGED <<frame, revision, last_error, settled>>
  /\ offer_both(due_request)
  /\ asked' = IF due_request = None THEN asked ELSE asked + 1
  /\ poll_error' = (process # "alive")
  /\ IF segment = None \/ process # "alive" THEN UNCHANGED <<segment, next_frame_index, waited>>
                                            ELSE advance
  /\ UNCHANGED <<generation, rendering, process, closing, base,
                 run_id, last_observation, state>>

close ==
  /\ W!close
  /\ drop_segment
  /\ UNCHANGED <<run_id, last_observation, state, poll_error>>

-----------------------------------------------------------------------------
Worker(A) == A /\ UNCHANGED <<pvars, state, poll_error>>

Take      == Worker(W!Take)
Answer    == \E ok \in BOOLEAN : Worker(W!Answer(ok))
Die       == Worker(W!Die)     \* also the failure of create_renderer (worker.py:79)
WaitClose == Worker(W!PutStop \/ W!PutStopTimeout \/ W!Join \/ W!JoinTimeout \/ W!Exit)

Tick ==
  /\ segment # None /\ waited < duration(segment.left, segment.right)
  /\ waited' = waited + 1
  /\ UNCHANGED <<wvars, run_id, last_observation, segment, next_frame_index, state, poll_error>>

Next ==
  \/ \E h \in Header : Connect(h)
  \/ \E o \in Observations : Observe(o)
  \/ Disconnect
  \/ poll \/ close
  \/ Take \/ Answer \/ Die \/ WaitClose
  \/ Tick

Spec == Init /\ [][Next]_vars

(* The event loop polls for ever, the child runs and every render ends,    *)
(* time passes.                                                            *)
Fairness == WF_vars(poll) /\ WF_vars(Take) /\ WF_vars(Answer) /\ WF_vars(Tick)

FairSpec == Spec /\ Fairness

-----------------------------------------------------------------------------
(* Properties.                                                             *)

Target == [elapsed_s: Nat, mode: {"exact", "interpolated", "hold"}, reason: Reasons \cup {None}]

TypeOK ==
  /\ W!TypeOK
  /\ state \in ExecutionState
  /\ run_id \in Runs \cup {None}
  /\ last_observation \in Observation \cup {None}
  /\ segment # None =>
       /\ segment.header \in Header
       /\ segment.left \in Observation /\ segment.right \in Observation
       /\ segment.targets \in Seq(Target)
       /\ next_frame_index \in 0 .. Len(segment.targets) - 1
  /\ waited \in Nat
  /\ poll_error \in BOOLEAN

(* With the types: the frames of a segment lie after its left observation, *)
(* at most one frame interval apart, strictly in order, and end exactly at *)
(* its right one; their number respects the profile's limit, and one is    *)
(* always left to show (scheduler.py:43-82, pipeline.py:197-207).          *)
TargetsFit ==
  /\ TypeOK
  /\ segment # None =>
       LET t == segment.targets IN
       /\ Len(t) <= MaxSegmentFrames
       /\ t[Len(t)].elapsed_s = segment.right.elapsed_s
       /\ \A i \in 1 .. Len(t) :
            LET before == IF i = 1 THEN segment.left.elapsed_s ELSE t[i - 1].elapsed_s IN
            t[i].elapsed_s \in before + 1 .. before + FrameInterval

(* A picture in the store is of the present connection and run, submitted  *)
(* since they began, and not ahead of the newest observation: no late      *)
(* outcome of the child refills a store that a disconnect or a new run     *)
(* has emptied (pipeline.py:89-120, worker.py:125-142).                    *)
PictureOfPresentSource ==
  frame # None /\ closing = "open" =>
    /\ state.connected
    /\ frame.n > base
    /\ frame.request.header = state.header
    /\ frame.request.frame.right.run_id = state.header.run_id
    /\ frame.request.frame.at <= state.observation.elapsed_s

(* A picture between two observations is between two that the run really   *)
(* sent one after the other on one grid, also when observations were lost  *)
(* or the producer reconnected in between (pipeline.py:124-157,            *)
(* interpolation.py:29-62).                                                *)
BetweenNeighbours ==
  \A x \in {pending, requests, rendering, outcomes, frame} \ {None, Stop} :
    LET f == x.request.frame IN
    f.mode = "interpolated" =>
      /\ f.right.run_id = f.left.run_id /\ f.right.sequence = f.left.sequence + 1
      /\ f.at \in f.left.elapsed_s + 1 .. f.right.elapsed_s - 1
      /\ grid_of(f.left) = grid_of(f.right)

(* Within a run the picture never goes back in simulation time nor to an   *)
(* older observation, although holds, segments and reconnects replace each *)
(* other and the worker skips frames (pipeline.py:127-157, 184-207).       *)
PicturesAdvance ==
  [][ frame # None /\ frame' # None /\ frame.request.header = frame'.request.header =>
        /\ frame'.request.frame.at >= frame.request.frame.at
        /\ frame'.request.frame.right.sequence >= frame.request.frame.right.sequence ]_vars

\* Nothing of the latest observation was left to show when the source came back.
Resumed == asked = base /\ segment = None

ShowsLatest ==
  frame # None /\ frame.request.frame.right = state.observation
               /\ frame.request.frame.at = state.observation.elapsed_s

(* Once the inputs stop, the camera comes to show the newest observation   *)
(* at its own time, unless the source is gone or came back without one, a  *)
(* render error is reported, the child is gone or the pipeline is closed   *)
(* (pipeline.py:127-157, 184-207; worker.py:115-142).                      *)
CameraCatchesUp ==
  <>[](\/ ShowsLatest \/ last_error
       \/ ~state.connected \/ state.observation = None \/ Resumed
       \/ process # "alive" \/ closing # "open")
=============================================================================
