---------------------------- MODULE RenderWorker ----------------------------
(***************************************************************************)
(* LatestRenderWorker (rendering/worker.py): the parent process owns the   *)
(* generation counter, the in-flight flag and one pending request; a       *)
(* spawned child renders what it takes from a request queue of size one    *)
(* and answers on an outcome queue of size one.  The parent never blocks:  *)
(* it offers a request only when nothing is in flight and polls the        *)
(* outcome queue every 5 ms.  A new run invalidates everything submitted   *)
(* before it, while the child may still be busy with the old run.          *)
(*                                                                         *)
(* A queue of size one is its only item, or None when it is empty.  What   *)
(* a picture shows is abstracted to the request it was rendered from.      *)
(***************************************************************************)
EXTENDS Integers

CONSTANTS
  Requests,     \* what the coordinator can ask for (RenderRequest)
  None,         \* an empty queue, no pending request, no frame
  Stop,         \* the None that close() puts on the request queue
  MaxAsked,     \* bound: requests submitted in a behaviour
  MaxResets     \* bound: invalidations in a behaviour

Envelope == [generation: Nat, n: Nat, request: Requests]
Outcome  == [generation: Nat, n: Nat, request: Requests, ok: BOOLEAN]

ASSUME ConstantAssumption ==
  /\ None \notin Envelope \cup Outcome
  /\ Stop \notin Envelope \cup Outcome /\ Stop # None
  /\ MaxAsked \in Nat
  /\ MaxResets \in Nat

VARIABLES
  generation,   \* _generation
  inflight,     \* _inflight
  pending,      \* _pending: the newest request not yet offered, or None
  last_error,   \* last_error is not None
  requests,     \* _requests, the queue towards the child
  outcomes,     \* _outcomes, the queue back
  rendering,    \* what the child is rendering, or None
  process,      \* the child: "alive", "exiting" (told to stop) or "exited"
  closing,      \* progress of close(): "open", "put", "join" or "closed"
  frame,        \* LatestFrameStore._frame: the outcome published, or None
  revision,     \* LatestFrameStore._revision
  asked,        \* history: number of requests submitted
  base,         \* history: number of requests submitted before the last reset
  settled       \* history: newest request answered since the reset, 0 if none

parent == <<generation, inflight, pending, last_error>>
child  == <<rendering, process>>
store  == <<frame, revision>>
hist   == <<asked, base, settled>>
vars   == <<parent, requests, outcomes, child, closing, store, hist>>

TypeOK ==
  /\ generation \in Nat
  /\ inflight \in BOOLEAN
  /\ pending \in Envelope \cup {None}
  /\ last_error \in BOOLEAN
  /\ requests \in Envelope \cup {None, Stop}
  /\ outcomes \in Outcome \cup {None}
  /\ rendering \in Envelope \cup {None}
  /\ process \in {"alive", "exiting", "exited"}
  /\ closing \in {"open", "put", "join", "closed"}
  /\ frame \in Outcome \cup {None}
  /\ revision \in Nat
  /\ asked \in Nat /\ base \in Nat /\ settled \in Nat

Init ==
  /\ generation = 0 /\ inflight = FALSE /\ pending = None /\ last_error = FALSE
  /\ requests = None /\ outcomes = None
  /\ rendering = None /\ process = "alive"
  /\ closing = "open"
  /\ frame = None /\ revision = 0
  /\ asked = 0 /\ base = 0 /\ settled = 0

-----------------------------------------------------------------------------
(* The frame store.                                                        *)

publish(o) == frame' = o /\ revision' = revision + 1

clear == frame' = None /\ revision' = revision + 1

-----------------------------------------------------------------------------
(* The parent.  Each action is a call that runs without a suspension point.*)

\* Mutant: the in-flight flag is not consulted.
CanOffer_ignores_flag(p, f) == p # None /\ requests = None

\* put_nowait raises Full, and the request stays pending, if the queue is full.
CanOffer(p, f) == p # None /\ ~f /\ requests = None

\* _flush_pending when the pending request is p and the in-flight flag is f.
flush_pending(p, f) ==
  IF CanOffer(p, f)
    THEN pending' = None /\ inflight' = TRUE /\ requests' = p
    ELSE pending' = p /\ inflight' = f /\ UNCHANGED requests

\* Mutant: the request is kept without its generation.
Tag_bare(r) == r

Tag(r) == [generation |-> generation, n |-> asked + 1, request |-> r]

submit(r) ==
  /\ closing = "open"
  /\ flush_pending(Tag(r), inflight)
  /\ asked' = asked + 1
  /\ UNCHANGED <<generation, last_error, outcomes, child, closing, store,
                 base, settled>>

\* What the coordinator does for a run without an observation: invalidate the
\* worker, then clear the frame store.
invalidate ==
  /\ closing = "open"
  /\ generation' = generation + 1
  /\ pending' = None
  /\ last_error' = FALSE
  /\ clear
  /\ base' = asked
  /\ settled' = 0
  /\ UNCHANGED <<inflight, requests, outcomes, child, closing, asked>>

\* Mutant: an outcome of any generation is used.
Current_any(o) == o # None

Current(o) == o # None /\ o.generation = generation

\* Mutants: the flag is cleared by every poll, or by none.
inflight_after_poll_cleared == FALSE
inflight_after_poll_kept == inflight

inflight_after_poll == outcomes = None /\ inflight

\* Mutant: a failed render is ignored.
report_error_dropped == UNCHANGED last_error

report_error == last_error' = TRUE

\* poll empties the outcome queue, offers the pending request, and publishes
\* the outcome if it is of the current generation and carries a picture.
poll ==
  /\ closing = "open"
  /\ outcomes' = None
  /\ flush_pending(pending, inflight_after_poll)
  /\ IF Current(outcomes)
       THEN /\ settled' = outcomes.n
            /\ IF outcomes.ok THEN publish(outcomes) /\ last_error' = FALSE
                              ELSE report_error /\ UNCHANGED store
       ELSE UNCHANGED <<settled, last_error, store>>
  /\ UNCHANGED <<generation, child, closing, asked, base>>

\* close: drop the pending request, then wait at most 5 s to put the stop
\* message, then at most 5 s for the child to exit, then terminate it.
close ==
  /\ closing = "open"
  /\ closing' = "put"
  /\ pending' = None
  /\ UNCHANGED <<generation, inflight, last_error, requests, outcomes, child,
                 store, hist>>

PutStop ==
  /\ closing = "put"
  /\ requests = None
  /\ requests' = Stop
  /\ closing' = "join"
  /\ UNCHANGED <<parent, outcomes, child, store, hist>>

PutStopTimeout ==
  /\ closing = "put"
  /\ requests # None
  /\ closing' = "join"
  /\ UNCHANGED <<parent, requests, outcomes, child, store, hist>>

Join ==
  /\ closing = "join"
  /\ process = "exited"
  /\ closing' = "closed"
  /\ UNCHANGED <<parent, requests, outcomes, child, store, hist>>

\* Mutant: close gives up on a child that does not exit.
terminate_skipped == UNCHANGED child

terminate == process' = "exited" /\ rendering' = None

JoinTimeout ==
  /\ closing = "join"
  /\ process # "exited"
  /\ terminate
  /\ closing' = "closed"
  /\ UNCHANGED <<parent, requests, outcomes, store, hist>>

-----------------------------------------------------------------------------
(* The child process, _worker_main.                                        *)

Take ==
  /\ process = "alive" /\ rendering = None
  /\ requests # None
  /\ requests' = None
  /\ IF requests = Stop
       THEN process' = "exiting" /\ UNCHANGED rendering
       ELSE rendering' = requests /\ UNCHANGED process
  /\ UNCHANGED <<parent, outcomes, closing, store, hist>>

\* _render returns a picture or, for any exception, an error; put blocks while
\* the outcome queue is full.
Answer(ok) ==
  /\ process = "alive" /\ rendering # None
  /\ outcomes = None
  /\ outcomes' = [generation |-> rendering.generation, n |-> rendering.n,
                  request |-> rendering.request, ok |-> ok]
  /\ rendering' = None
  /\ UNCHANGED <<parent, requests, process, closing, store, hist>>

\* The child returns from its main function.  The interpreter then flushes the
\* outcome queue to its pipe, which may wait for a reader.
Exit ==
  /\ process = "exiting"
  /\ process' = "exited"
  /\ UNCHANGED <<parent, requests, outcomes, rendering, closing, store, hist>>

\* A crash of the renderer or a kill from outside.
Die ==
  /\ process # "exited"
  /\ process' = "exited"
  /\ rendering' = None
  /\ UNCHANGED <<parent, requests, outcomes, closing, store, hist>>

-----------------------------------------------------------------------------
Submit(r) == asked < MaxAsked /\ submit(r)
Invalidate == generation < MaxResets /\ invalidate

Others ==
  \/ close \/ PutStop \/ PutStopTimeout \/ Join \/ JoinTimeout
  \/ Take
  \/ \E ok \in BOOLEAN : Answer(ok)
  \/ Exit
  \/ Die

Next == (\E r \in Requests : Submit(r)) \/ Invalidate \/ poll \/ Others

\* Next without its bounds: what a caller of the worker may do.
Used == (\E r \in Requests : submit(r)) \/ invalidate \/ poll \/ Others

Spec == Init /\ [][Next]_vars

(* The event loop polls for ever until close; the child runs; the timeouts *)
(* of close elapse.  Nothing makes the caller submit, and nothing makes a  *)
(* child with an unread outcome exit by itself.                            *)
Fairness ==
  /\ WF_vars(poll)
  /\ WF_vars(Take) /\ WF_vars(\E ok \in BOOLEAN : Answer(ok))
  /\ WF_vars(Exit /\ outcomes = None)
  /\ WF_vars(PutStop \/ PutStopTimeout) /\ WF_vars(Join) /\ WF_vars(JoinTimeout)

FairSpec == Spec /\ Fairness

-----------------------------------------------------------------------------
(* Properties.                                                             *)

Job(x) == x \notin {None, Stop}

(* At most one job is anywhere between the parent and the child, and when  *)
(* the in-flight flag is down there is none.  So put_nowait never raises   *)
(* Full, the child's put never blocks, and poll finds at most one outcome: *)
(* the flag and the two queues of size one agree (worker.py:91-117).       *)
OneJob ==
  /\ ~(Job(requests) /\ rendering # None)
  /\ ~(Job(requests) /\ outcomes # None)
  /\ ~(rendering # None /\ outcomes # None)
  /\ ~inflight => ~Job(requests) /\ rendering = None /\ outcomes = None

(* No request is lost: when nothing is in flight nothing is waiting, and   *)
(* the newest request since the reset has been answered (worker.py:91-126).*)
NothingLost ==
  closing = "open" /\ ~inflight =>
    pending = None /\ (asked = base \/ settled = asked)

(* Without a reported render error the picture on display is that of the   *)
(* newest answered request: an error is never hidden behind an older       *)
(* picture (worker.py:119-126).                                            *)
NoErrorMeansShown ==
  settled # 0 /\ ~last_error => frame # None /\ frame.n = settled

(* What makes the three invariants above inductive.  A job is of the       *)
(* current generation exactly if it was submitted after the reset; then it *)
(* is newer than what has been answered.  A pending request is the newest  *)
(* one and waits for a job; without one the job itself is the newest.      *)
JobOrder(x) ==
  Job(x) =>
    /\ x.generation <= generation
    /\ x.n \in 1..asked
    /\ x.generation = generation <=> x.n > base
    /\ x.n > base => x.n > settled
    /\ pending # None => x.n < asked
    /\ closing = "open" /\ pending = None => x.n = asked \/ asked = base

Order ==
  /\ base <= asked
  /\ settled = 0 \/ settled \in base + 1 .. asked
  /\ JobOrder(requests) /\ JobOrder(rendering) /\ JobOrder(outcomes)
  /\ pending # None =>
       pending.generation = generation /\ pending.n = asked /\ asked > base /\ inflight
  /\ pending # None => settled < asked
  /\ frame # None => frame.n \in base + 1 .. settled
  /\ closing \in {"open", "put"} => requests # Stop

IInv == TypeOK /\ OneJob /\ NothingLost /\ NoErrorMeansShown /\ Order

(* The worker implements LatestFrame: skipping, discarding and the child's *)
(* delays never show a picture from before the reset nor an older one.     *)
Latest == INSTANCE LatestFrame WITH
            shown <- IF frame = None THEN 0 ELSE frame.n
ImplementsLatest == Latest!Spec

(* A submitted request is answered, or replaced by a newer one, a reset,   *)
(* close or the child's end: the parent always offers what is pending once *)
(* the child answers (worker.py:93-118).                                   *)
EventuallyAnswered ==
  \A k \in 1..MaxAsked :
    (asked = k /\ base < k) ~>
      (settled = k \/ asked > k \/ base >= k \/ closing # "open" \/ process = "exited")

(* close returns, with the child gone, whatever the child is doing         *)
(* (worker.py:128-139).                                                    *)
CloseReturns == closing # "open" ~> closing = "closed" /\ process = "exited"
=============================================================================
