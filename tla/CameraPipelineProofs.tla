------------------------ MODULE CameraPipelineProofs ------------------------
(***************************************************************************)
(* Proofs about the synthetic camera's pipeline, for any observations and  *)
(* grids, any frame interval, gap and limit, any number of connections and *)
(* any delays of the child: a segment's frames fit, what the store shows   *)
(* is of the present source, every blend is of two neighbours, and the     *)
(* picture never goes back.                                                *)
(*                                                                         *)
(* WP is the worker with its proofs.  Its poll is not the camera's, which  *)
(* is shown to keep the worker's invariant too.  The invariant then        *)
(* follows a request from its submission to the store: what the worker     *)
(* holds since the last reset is of the present source, no later than what *)
(* the schedule has reached, and in the order of its numbers.              *)
(***************************************************************************)
EXTENDS CameraPipeline, WellFoundedInduction, TLAPS

WP == INSTANCE RenderWorkerProofs WITH Requests <- CameraRequest

-----------------------------------------------------------------------------
(* The worker's actions under both names.                                  *)

LEMMA SameWorker ==
  /\ W!Init <=> WP!Init
  /\ \A r \in CameraRequest : W!submit(r) <=> WP!submit(r)
  /\ W!invalidate <=> WP!invalidate
  /\ W!Others <=> WP!Others
  /\ UNCHANGED wvars <=> UNCHANGED WP!vars
<1>1. W!Init <=> WP!Init
  BY DEF W!Init, WP!Init
<1>2. ASSUME NEW r \in CameraRequest PROVE W!submit(r) <=> WP!submit(r)
  BY DEF W!submit, W!flush_pending, W!CanOffer, W!Tag, W!child, W!store,
         WP!submit, WP!flush_pending, WP!CanOffer, WP!Tag, WP!child, WP!store
<1>3. W!invalidate <=> WP!invalidate
  BY DEF W!invalidate, W!clear, W!child, WP!invalidate, WP!clear, WP!child
<1>4. W!Others <=> WP!Others
  BY DEF W!Others, W!close, W!PutStop, W!PutStopTimeout, W!Join, W!JoinTimeout, W!terminate,
         W!Take, W!Answer, W!Exit, W!Die, W!parent, W!child, W!store, W!hist,
         WP!Others, WP!close, WP!PutStop, WP!PutStopTimeout, WP!Join, WP!JoinTimeout,
         WP!terminate, WP!Take, WP!Answer, WP!Exit, WP!Die,
         WP!parent, WP!child, WP!store, WP!hist
<1>5. UNCHANGED wvars <=> UNCHANGED WP!vars
  BY DEF wvars, WP!vars, WP!parent, WP!child, WP!store, WP!hist
<1> QED BY <1>1, <1>2, <1>3, <1>4, <1>5

LEMMA WorkerAssumption == WP!ConstantAssumption
BY CameraPipelineAssumption
   DEF W!ConstantAssumption, W!Envelope, W!Outcome,
       WP!ConstantAssumption, WP!Envelope, WP!Outcome

-----------------------------------------------------------------------------
(* The camera's poll and the worker.                                       *)

\* An outcome taken is newer than the reset and than what was answered before.
Published ==
  /\ settled' \in Nat /\ (settled' = 0 \/ settled' \in base + 1 .. asked)
  /\ last_error' \in BOOLEAN /\ revision' \in Nat
  /\ frame' \in WP!Outcome \cup {None}
  /\ frame' # None => frame'.n \in base + 1 .. settled'
  /\ settled' # 0 /\ ~last_error' => frame' # None /\ frame'.n = settled'
  /\ pending # None => settled' < asked
  /\ outcomes = None => settled' = settled
  /\ outcomes # None /\ pending = None => asked = base \/ settled' = asked
  /\ \/ frame' = frame \/ frame' = None
     \/ frame' = outcomes /\ outcomes # None /\ outcomes.n > base /\ outcomes.n > settled

LEMMA PollPublishes ==
  ASSUME WP!IInv, poll
  PROVE  Published
<1> USE DEF WP!IInv, WP!TypeOK, Published
<1>1. /\ closing = "open"
      /\ \/ ~W!Current(outcomes) /\ UNCHANGED <<frame, revision, last_error, settled>>
         \/ /\ W!Current(outcomes) /\ settled' = outcomes.n /\ outcomes.ok
            /\ frame' = outcomes /\ revision' = revision + 1 /\ last_error' = FALSE
         \/ /\ W!Current(outcomes) /\ settled' = outcomes.n /\ ~outcomes.ok
            /\ frame' = None /\ revision' = revision + 1 /\ last_error' = TRUE
  BY DEF poll, publish, W!publish, W!clear
<1>2. outcomes # None =>
        /\ outcomes \in WP!Outcome /\ outcomes.n \in 1 .. asked
        /\ outcomes.generation = generation <=> outcomes.n > base
        /\ outcomes.n > base => outcomes.n > settled
        /\ pending # None => outcomes.n < asked
        /\ pending = None => outcomes.n = asked \/ asked = base
  BY <1>1, WorkerAssumption DEF WP!Order, WP!JobOrder, WP!Job, WP!ConstantAssumption
<1>3. CASE ~W!Current(outcomes)
  <2>1. UNCHANGED <<frame, revision, last_error, settled>>
    BY <1>1, <1>3
  <2>2. outcomes # None => ~(outcomes.n > base)
    BY <1>2, <1>3 DEF W!Current
  <2> QED BY <1>2, <2>1, <2>2 DEF WP!Order, WP!NoErrorMeansShown
<1>4. CASE W!Current(outcomes)
  <2>1. outcomes # None /\ outcomes.n > base /\ outcomes.n > settled
    BY <1>2, <1>4 DEF W!Current
  <2>2. /\ settled' = outcomes.n /\ revision' = revision + 1
        /\ \/ frame' = outcomes /\ last_error' = FALSE
           \/ frame' = None /\ last_error' = TRUE
    BY <1>1, <1>4
  <2>3. outcomes.n \in base + 1 .. asked /\ outcomes.n \in Nat /\ revision + 1 \in Nat
    BY <1>2, <2>1
  <2>4. /\ settled' \in Nat /\ settled' \in base + 1 .. asked
        /\ last_error' \in BOOLEAN /\ revision' \in Nat
        /\ frame' \in WP!Outcome \cup {None}
    BY <1>2, <2>1, <2>2, <2>3
  <2>5. frame' # None => frame' = outcomes /\ frame'.n \in base + 1 .. settled'
    BY <2>1, <2>2, <2>3
  <2>6. settled' # 0 /\ ~last_error' => frame' # None /\ frame'.n = settled'
    BY <2>1, <2>2
  <2> QED BY <1>2, <2>1, <2>2, <2>3, <2>4, <2>5, <2>6
<1> QED BY <1>3, <1>4

\* What the two offers of a poll come to, with at most one job about.
Offered(e) ==
  \/ /\ outcomes = None /\ inflight
     /\ UNCHANGED <<inflight, requests>>
     /\ pending' = IF e = None THEN pending ELSE e
  \/ /\ requests = None /\ rendering = None
     /\ outcomes = None => pending = None /\ inflight = FALSE
     /\ \/ pending = None /\ e = None
           /\ pending' = None /\ inflight' = FALSE /\ requests' = None
        \/ pending = None /\ e # None
           /\ pending' = None /\ inflight' = TRUE /\ requests' = e
        \/ pending # None
           /\ pending' = e /\ inflight' = TRUE /\ requests' = pending

LEMMA PollOffers ==
  ASSUME WP!IInv, closing = "open", NEW e, offer_both(e)
  PROVE  Offered(e)
<1> USE DEF WP!IInv, WP!TypeOK, Offered
<1>1. CASE outcomes = None /\ inflight
  <2>1. W!inflight_after_poll = TRUE
    BY <1>1 DEF W!inflight_after_poll
  <2> QED BY <1>1, <2>1 DEF offer_both, W!CanOffer, W!flush_pending
<1>2. CASE ~(outcomes = None /\ inflight)
  <2>1. W!inflight_after_poll = FALSE
    BY <1>2 DEF W!inflight_after_poll
  <2>2. requests = None /\ rendering = None
    BY <1>2 DEF WP!OneJob, WP!Order, WP!Job
  <2>3. outcomes = None => pending = None /\ inflight = FALSE
    BY <1>2 DEF WP!NothingLost
  <2>4. CASE pending = None /\ e = None
    BY <2>1, <2>2, <2>3, <2>4 DEF offer_both, W!CanOffer, W!flush_pending
  <2>5. CASE pending = None /\ e # None
    BY <2>1, <2>2, <2>3, <2>5 DEF offer_both, W!CanOffer, W!flush_pending
  <2>6. CASE pending # None
    BY <2>1, <2>2, <2>3, <2>6 DEF offer_both, W!CanOffer, W!flush_pending
  <2> QED BY <2>2, <2>3, <2>4, <2>5, <2>6
<1> QED BY <1>1, <1>2

\* A poll of the camera keeps the worker's invariant.
LEMMA PollInv ==
  ASSUME WP!IInv, poll, NEW e, e = due_request,
         e # None => e \in WP!Envelope /\ e.generation = generation /\ e.n = asked + 1
  PROVE  WP!IInv'
<1>0. Published /\ Offered(e)
  BY PollPublishes, PollOffers DEF poll
<1>1. /\ closing = "open" /\ closing' = closing
      /\ outcomes' = None /\ generation' = generation
      /\ rendering' = rendering /\ process' = process
      /\ asked' = IF e = None THEN asked ELSE asked + 1
      /\ base' = base
  BY DEF poll
<1>2. asked \in Nat /\ asked' \in Nat /\ asked' >= asked /\ base \in Nat
  BY <1>1 DEF WP!IInv, WP!TypeOK
<1>3. e # None => e # Stop
  BY WorkerAssumption DEF WP!ConstantAssumption
<1>4. WP!TypeOK'
  <2>1. pending' \in WP!Envelope \cup {None} /\ requests' \in WP!Envelope \cup {None, Stop}
        /\ inflight' \in BOOLEAN
    BY <1>0 DEF Offered, WP!IInv, WP!TypeOK
  <2> QED BY <1>0, <1>1, <1>2, <2>1 DEF Published, WP!IInv, WP!TypeOK
<1>5. WP!OneJob'
  BY <1>0, <1>1 DEF Offered, WP!IInv, WP!OneJob, WP!Job
<1>6. WP!NothingLost'
  BY <1>0, <1>1, <1>2 DEF Offered, Published, WP!IInv, WP!NothingLost
<1>7. WP!NoErrorMeansShown'
  BY <1>0 DEF Published, WP!NoErrorMeansShown
<1>8. WP!Order'
  <2>1. pending # None =>
          /\ pending \in WP!Envelope /\ pending # Stop
          /\ pending.n = asked /\ pending.generation = generation
          /\ asked > base /\ settled' < asked
    BY <1>0, WorkerAssumption
       DEF Published, WP!IInv, WP!TypeOK, WP!Order, WP!ConstantAssumption
  <2>2. settled' \in Nat /\ settled' <= asked /\ base <= asked
    BY <1>0, <1>2 DEF Published, WP!IInv, WP!Order
  <2>3. WP!JobOrder(rendering)'
    BY <1>0, <1>1, <1>2, <1>3, <2>1, <2>2
       DEF Offered, Published, WP!IInv, WP!Order, WP!JobOrder, WP!Job
  <2>4. WP!JobOrder(requests)'
    <3>1. CASE outcomes = None /\ inflight
      BY <1>0, <1>1, <1>2, <1>3, <2>1, <3>1
         DEF Offered, Published, WP!IInv, WP!Order, WP!JobOrder, WP!Job
    <3>2. CASE requests' = None
      BY <3>2 DEF WP!JobOrder, WP!Job
    <3>3. CASE e # None /\ requests' = e /\ pending' = None
      <4>1. asked' = asked + 1 /\ e.n = asked + 1 /\ e.generation = generation
        BY <1>1, <3>3
      <4> QED BY <1>1, <1>2, <2>2, <3>3, <4>1
              DEF WP!IInv, WP!TypeOK, WP!JobOrder, WP!Job
    <3>4. CASE pending # None /\ requests' = pending /\ pending' = e
      <4>1. pending.n = asked /\ pending.generation = generation /\ asked > base
            /\ settled' < asked
        BY <2>1, <3>4
      <4>2. asked' = IF pending' = None THEN asked ELSE asked + 1
        BY <1>1, <3>4
      <4> QED BY <1>1, <1>2, <2>2, <3>4, <4>1, <4>2
              DEF WP!IInv, WP!TypeOK, WP!JobOrder, WP!Job
    <3> QED BY <1>0, <3>1, <3>2, <3>3, <3>4 DEF Offered
  <2>5. (pending # None =>
           pending.generation = generation /\ pending.n = asked /\ asked > base /\ inflight)'
        /\ (pending # None => settled < asked)'
    BY <1>0, <1>1, <1>2, <2>1, <2>2 DEF Offered, WP!IInv, WP!Order
  <2>6. (closing \in {"open", "put"} => requests # Stop)'
    BY <1>0, <1>1, <1>3, <2>1, WorkerAssumption
       DEF Offered, WP!IInv, WP!Order, WP!ConstantAssumption
  <2>7. (settled = 0 \/ settled \in base + 1 .. asked)'
        /\ (frame # None => frame.n \in base + 1 .. settled)'
    BY <1>0, <1>1, <1>2, <2>2 DEF Published
  <2> QED BY <1>1, <1>2, <2>2, <2>3, <2>4, <2>5, <2>6, <2>7 DEF WP!Order, WP!JobOrder, WP!Job
<1> QED BY <1>4, <1>5, <1>6, <1>7, <1>8 DEF WP!IInv

\* What it leaves the worker holding was held before, or is the request due.
LEMMA PollHolds ==
  ASSUME WP!IInv, poll, NEW e, e = due_request, e # None => e \in WP!Envelope,
         NEW x \in WP!Held'
  PROVE  WP!Carried(x) \/ (e # None /\ x = e)
<1>0. Published /\ Offered(e)
  BY PollPublishes, PollOffers DEF poll
<1>1. x \in WP!Held \/ (e # None /\ x = e)
  BY <1>0 DEF Offered, Published, poll, WP!Held
<1> QED BY <1>1 DEF WP!Carried

-----------------------------------------------------------------------------
(* The schedule of a segment.                                              *)

LEMMA RegularTimes ==
  ASSUME NEW left \in Observation, NEW right \in Observation,
         duration(left, right) > 0
  PROVE  /\ inside_count(left, right) \in Nat
         /\ inside_count(left, right) * FrameInterval < duration(left, right)
         /\ duration(left, right) <= inside_count(left, right) * FrameInterval + FrameInterval
<1> DEFINE d == duration(left, right)  q == d \div FrameInterval  r == d % FrameInterval
<1>1. FrameInterval \in Nat \ {0} /\ d \in Nat /\ d > 0
  BY FrameScheduleAssumption DEF duration, Observation
<1>2. inside_count(left, right) = IF q * FrameInterval < d THEN q ELSE q - 1
  BY DEF inside_count, regular_count
<1> HIDE DEF d
<1>3. q \in Nat /\ r \in 0 .. FrameInterval - 1 /\ d = FrameInterval * q + r
  BY <1>1, SMT
<1> HIDE DEF q, r
<1>4. q * FrameInterval = d - r
  BY <1>1, <1>3, SMT
<1>5. CASE r > 0
  BY <1>1, <1>2, <1>3, <1>4, <1>5 DEF d
<1>6. CASE r = 0
  <2>1. q # 0
    BY <1>1, <1>3, <1>6, SMT
  <2>2. (q - 1) * FrameInterval = d - FrameInterval
    BY <1>1, <1>3, <1>4, <1>6, SMT
  <2>3. inside_count(left, right) = q - 1
    BY <1>1, <1>2, <1>4, <1>6
  <2> QED BY <1>1, <1>3, <2>1, <2>2, <2>3 DEF d
<1> QED BY <1>3, <1>5, <1>6

LEMMA MultiplesGrow ==
  ASSUME NEW i \in Nat, NEW j \in Nat, i < j
  PROVE  i * FrameInterval + FrameInterval <= j * FrameInterval /\ i * FrameInterval \in Nat
<1>1. PICK k \in Nat : j = i + 1 + k
  <2>1. j - i - 1 \in Nat /\ j = i + 1 + (j - i - 1)
    OBVIOUS
  <2> QED BY <2>1
<1>2. FrameInterval \in Nat \ {0}
  BY FrameScheduleAssumption
<1>3. j * FrameInterval = i * FrameInterval + FrameInterval + k * FrameInterval
      /\ k * FrameInterval \in Nat /\ i * FrameInterval \in Nat
  BY <1>1, <1>2, SMT
<1> QED BY <1>2, <1>3, SMT

\* The targets lie strictly inside the segment but for the last, at its end.
Fits(left, right, t) ==
  /\ t \in Seq(Target)
  /\ Len(t) \in 1 .. MaxSegmentFrames
  /\ t[Len(t)].elapsed_s = right.elapsed_s
  /\ \A i \in 1 .. Len(t) :
       /\ t[i] \in Target /\ t[i].mode # "hold"
       /\ t[i].elapsed_s \in left.elapsed_s + 1 .. right.elapsed_s
       /\ t[i].elapsed_s <= (IF i = 1 THEN left.elapsed_s ELSE t[i - 1].elapsed_s) + FrameInterval
  /\ \A i, j \in 1 .. Len(t) : i < j => t[i].elapsed_s < t[j].elapsed_s

LEMMA ScheduleFits ==
  ASSUME NEW left \in Observation, NEW right \in Observation,
         SegmentError(left, right) = None, ~FrameLimit(left, right)
  PROVE  Fits(left, right, schedule_segment(left, right))
<1> DEFINE n == inside_count(left, right)
           t == schedule_segment(left, right)
<1>1. duration(left, right) > 0 /\ duration(left, right) \in Int
  <2>1. duration(left, right) \in Int
    BY DEF duration, Observation
  <2>2. None \notin {"run", "sequence", "time"}
    BY FrameScheduleAssumption DEF Reasons
  <2> QED BY <2>1, <2>2 DEF SegmentError
<1>2. /\ n \in Nat /\ n + 1 \in 1 .. MaxSegmentFrames
      /\ n * FrameInterval < duration(left, right)
      /\ duration(left, right) <= n * FrameInterval + FrameInterval
  BY <1>1, RegularTimes, FrameScheduleAssumption DEF FrameLimit
<1>3. t = [i \in 1 .. n + 1 |->
             IF i <= n
               THEN [elapsed_s |-> left.elapsed_s + i * FrameInterval,
                     mode |-> "interpolated", reason |-> None]
               ELSE [elapsed_s |-> right.elapsed_s, mode |-> "exact", reason |-> None]]
  BY DEF schedule_segment
<1> HIDE DEF n, t
<1>4. /\ left.elapsed_s \in Nat /\ right.elapsed_s \in Nat /\ FrameInterval \in Nat \ {0}
      /\ right.elapsed_s = left.elapsed_s + duration(left, right)
  BY FrameScheduleAssumption DEF Observation, duration
<1>5. ASSUME NEW i \in 1 .. n
      PROVE  /\ t[i] \in Target /\ t[i].mode = "interpolated"
             /\ t[i].elapsed_s = left.elapsed_s + i * FrameInterval
             /\ i * FrameInterval \in Nat /\ i * FrameInterval >= FrameInterval
             /\ i * FrameInterval <= n * FrameInterval
  <2>1. i * FrameInterval \in Nat /\ i * FrameInterval >= FrameInterval
    <3>1. 0 * FrameInterval = 0
      BY <1>4, SMT
    <3> QED BY <1>2, <1>4, <3>1, MultiplesGrow
  <2>2. i * FrameInterval <= n * FrameInterval
    <3>1. CASE i = n
      BY <2>1, <3>1
    <3>2. CASE i < n
      BY <1>2, <1>4, <2>1, <3>2, MultiplesGrow
    <3> QED BY <1>2, <3>1, <3>2
  <2>3. t[i] = [elapsed_s |-> left.elapsed_s + i * FrameInterval,
                mode |-> "interpolated", reason |-> None]
    BY <1>2, <1>3
  <2> QED BY <1>4, <2>1, <2>2, <2>3 DEF Target
<1>6. t[n + 1] = [elapsed_s |-> right.elapsed_s, mode |-> "exact", reason |-> None]
  BY <1>2, <1>3
<1>7. t[n + 1] \in Target /\ t[n + 1].mode = "exact" /\ t[n + 1].elapsed_s = right.elapsed_s
  BY <1>4, <1>6 DEF Target
<1>8. t \in Seq(Target) /\ Len(t) = n + 1
  <2>1. \A i \in 1 .. n + 1 : t[i] \in Target
    BY <1>2, <1>5, <1>7
  <2>2. t \in [1 .. n + 1 -> Target]
    BY <1>3, <2>1
  <2> QED BY <1>2, <2>2
<1>9. ASSUME NEW i \in 1 .. n + 1
      PROVE  /\ t[i] \in Target /\ t[i].mode # "hold"
             /\ t[i].elapsed_s \in left.elapsed_s + 1 .. right.elapsed_s
             /\ t[i].elapsed_s <= (IF i = 1 THEN left.elapsed_s ELSE t[i - 1].elapsed_s)
                                   + FrameInterval
  <2>1. CASE i = 1 /\ i <= n
    BY <1>1, <1>2, <1>4, <1>5, <2>1
  <2>2. CASE i = 1 /\ i = n + 1
    <3>1. n = 0
      BY <1>2, <2>2
    <3>2. n * FrameInterval = 0
      BY <1>4, <3>1, SMT
    <3> QED BY <1>1, <1>2, <1>4, <1>7, <2>2, <3>2
  <2>3. CASE i # 1 /\ i <= n
    <3>1. PICK j \in 1 .. n : j = i - 1
      BY <1>2, <2>3
    <3>2. i * FrameInterval = j * FrameInterval + FrameInterval
      BY <1>2, <1>4, <2>3, <3>1, SMT
    <3>3. t[j].elapsed_s = left.elapsed_s + j * FrameInterval /\ j * FrameInterval \in Nat
      BY <1>5
    <3>4. /\ t[i] \in Target /\ t[i].mode = "interpolated"
          /\ t[i].elapsed_s = left.elapsed_s + i * FrameInterval
          /\ i * FrameInterval \in Nat /\ i * FrameInterval >= FrameInterval
          /\ i * FrameInterval <= n * FrameInterval
      BY <1>5, <2>3
    <3> QED BY <1>1, <1>2, <1>4, <2>3, <3>1, <3>2, <3>3, <3>4
  <2>4. CASE i # 1 /\ i = n + 1
    <3>1. t[n].elapsed_s = left.elapsed_s + n * FrameInterval /\ n * FrameInterval \in Nat
      BY <1>2, <1>5, <2>4
    <3> QED BY <1>1, <1>2, <1>4, <1>7, <2>4, <3>1
  <2> QED BY <1>2, <2>1, <2>2, <2>3, <2>4
<1>10. ASSUME NEW i \in 1 .. n + 1, NEW j \in 1 .. n + 1, i < j
       PROVE  t[i].elapsed_s < t[j].elapsed_s
  <2>1. /\ t[i].elapsed_s = left.elapsed_s + i * FrameInterval
        /\ i * FrameInterval \in Nat /\ i * FrameInterval <= n * FrameInterval
    BY <1>2, <1>5, <1>10
  <2>2. CASE j <= n
    BY <1>2, <1>4, <1>5, <1>10, <2>1, <2>2, MultiplesGrow
  <2>3. CASE j = n + 1
    BY <1>1, <1>2, <1>4, <1>7, <2>1, <2>3
  <2> QED BY <1>2, <2>2, <2>3
<1>11. Fits(left, right, t)
  BY <1>2, <1>7, <1>8, <1>9, <1>10 DEF Fits
<1> QED BY <1>11 DEF t

\* A blend is of two neighbours on one grid, at a time strictly between them.
RealPair(f) ==
  f.mode = "interpolated" =>
    /\ f.right.run_id = f.left.run_id /\ f.right.sequence = f.left.sequence + 1
    /\ f.at \in f.left.elapsed_s + 1 .. f.right.elapsed_s - 1
    /\ grid_of(f.left) = grid_of(f.right)

LEMMA NeighboursOnly ==
  ASSUME NEW left, NEW right, SegmentError(left, right) = None
  PROVE  /\ right.run_id = left.run_id /\ right.sequence = left.sequence + 1
         /\ grid_of(left) = grid_of(right)
BY FrameScheduleAssumption DEF SegmentError, Reasons

LEMMA ExactFrame ==
  ASSUME NEW o \in Observation
  PROVE  /\ exact_frame(o) \in Frame /\ RealPair(exact_frame(o))
         /\ exact_frame(o).right = o /\ exact_frame(o).at = o.elapsed_s
BY DEF exact_frame, Frame, Observation, RealPair

\* Either the pair is held, or its schedule fits.
LEMMA HeldOrScheduled ==
  ASSUME NEW left \in Observation, NEW right \in Observation
  PROVE  LET t == schedule_segment(left, right)  f == materialize_target(left, right, t[1]) IN
         \/ /\ Len(t) = 1 /\ t[1].mode = "hold"
            /\ f \in Frame /\ RealPair(f) /\ f.right = right /\ f.at = right.elapsed_s
         \/ /\ ~(Len(t) = 1 /\ t[1].mode = "hold")
            /\ SegmentError(left, right) = None /\ ~FrameLimit(left, right)
            /\ Fits(left, right, t)
<1> DEFINE t == schedule_segment(left, right)  f == materialize_target(left, right, t[1])
<1>1. ASSUME NEW reason \in Reasons, t = hold(right, reason)
      PROVE  /\ Len(t) = 1 /\ t[1].mode = "hold"
             /\ f \in Frame /\ RealPair(f) /\ f.right = right /\ f.at = right.elapsed_s
  <2>1. Len(t) = 1 /\ t[1] = [elapsed_s |-> right.elapsed_s, mode |-> "hold", reason |-> reason]
    BY <1>1 DEF hold
  <2>2. f = [left |-> left, right |-> right, at |-> right.elapsed_s,
             mode |-> "hold", reason |-> reason]
    BY <2>1 DEF materialize_target
  <2> HIDE DEF f
  <2> QED BY <2>1, <2>2 DEF Frame, Observation, RealPair
<1>2. CASE SegmentError(left, right) # None
  <2>1. SegmentError(left, right) \in Reasons
    BY <1>2 DEF SegmentError, Reasons
  <2>2. t = hold(right, SegmentError(left, right))
    BY <1>2 DEF schedule_segment
  <2> QED BY <1>1, <2>1, <2>2
<1>3. CASE SegmentError(left, right) = None /\ FrameLimit(left, right)
  <2>1. t = hold(right, "frame_limit") /\ "frame_limit" \in Reasons
    BY <1>3 DEF schedule_segment, Reasons
  <2> QED BY <1>1, <2>1
<1>4. CASE SegmentError(left, right) = None /\ ~FrameLimit(left, right)
  <2>1. Fits(left, right, t)
    BY <1>4, ScheduleFits
  <2>2. ~(Len(t) = 1 /\ t[1].mode = "hold")
    BY <2>1 DEF Fits
  <2> QED BY <1>4, <2>1, <2>2
<1> QED BY <1>2, <1>3, <1>4

LEMMA TargetFrame ==
  ASSUME NEW left \in Observation, NEW right \in Observation,
         SegmentError(left, right) = None, NEW t, Fits(left, right, t),
         NEW i \in 1 .. Len(t)
  PROVE  LET f == materialize_target(left, right, t[i]) IN
         f \in Frame /\ RealPair(f) /\ f.right = right /\ f.at = t[i].elapsed_s
<1> DEFINE f == materialize_target(left, right, t[i])
<1>1. t[i].mode # "hold" /\ t[i].elapsed_s \in left.elapsed_s + 1 .. right.elapsed_s
  BY DEF Fits
<1>2. left.elapsed_s \in Nat /\ right.elapsed_s \in Nat
  BY DEF Observation
<1>3. f = [left |-> left, right |-> right, at |-> t[i].elapsed_s, reason |-> None,
           mode |-> IF t[i].elapsed_s \in {left.elapsed_s, right.elapsed_s}
                      THEN "exact" ELSE "interpolated"]
  BY <1>1 DEF materialize_target, interpolate_observations
<1> HIDE DEF f
<1>4. f \in Frame
  BY <1>1, <1>2, <1>3 DEF Frame
<1>5. RealPair(f)
  <2>1. f.mode = "interpolated" => t[i].elapsed_s # right.elapsed_s
    BY <1>3
  <2> QED BY <1>1, <1>2, <1>3, <2>1, NeighboursOnly DEF RealPair
<1>6. f.right = right /\ f.at = t[i].elapsed_s
  BY <1>3
<1> QED BY <1>4, <1>5, <1>6 DEF f

\* The targets due are a run of them from the next one on.
LEMMA DueIndex ==
  ASSUME segment # None, Len(segment.targets) \in Nat,
         next_frame_index \in 0 .. Len(segment.targets) - 1
  PROVE  due_index \in next_frame_index .. Len(segment.targets)
<1> DEFINE k == next_frame_index
           m == Len(segment.targets)
           Stops == {n \in k .. m : n < m => ~Due(segment.targets[n + 1])}
           R == OpToRel(<, Nat)
           Last(j) == /\ \A i \in k + 1 .. j : Due(segment.targets[i])
                      /\ j < m => ~Due(segment.targets[j + 1])
<1> HIDE DEF k, m
<1>1. k \in Nat /\ m \in Nat /\ k < m
  BY DEF k, m
<1>2. PICK n \in Stops : \A y \in Stops : ~(<<y, n>> \in R)
  <2>1. Stops \subseteq Nat /\ m \in Stops
    BY <1>1
  <2> HIDE DEF Stops
  <2>2. IsWellFoundedOn(R, Nat)
    BY NatLessThanWellFounded
  <2> HIDE DEF R
  <2> QED BY <2>1, <2>2, WFMin
<1>3. n \in k .. m /\ (n < m => ~Due(segment.targets[n + 1]))
  OBVIOUS
<1>4. ASSUME NEW i \in k + 1 .. n PROVE Due(segment.targets[i])
  <2>1. i - 1 \in k .. m /\ i - 1 < m /\ (i - 1) + 1 = i /\ i - 1 \in Nat /\ n \in Nat
        /\ i - 1 < n
    BY <1>1, <1>3
  <2>2. <<i - 1, n>> \in R
    BY <2>1 DEF OpToRel
  <2>3. i - 1 \notin Stops
    BY <1>2, <2>2
  <2> QED BY <2>1, <2>3
<1>5. \E j \in k .. m : Last(j)
  BY <1>3, <1>4
<1>6. due_index = CHOOSE j \in k .. m : Last(j)
  BY DEF due_index, k, m
<1> HIDE DEF Last
<1>7. due_index \in k .. m
  BY <1>5, <1>6
<1> QED BY <1>7 DEF k, m

-----------------------------------------------------------------------------
(* The invariant.                                                          *)

Typed ==
  /\ state \in ExecutionState
  /\ run_id \in Runs \cup {None} /\ last_observation \in Observation \cup {None}
  /\ waited \in Nat /\ poll_error \in BOOLEAN

\* The observation is of the run, and a connection has one.
RunHolds ==
  /\ state.observation # None =>
       /\ state.header # None /\ state.observation \in Observations
       /\ state.observation.run_id = state.header.run_id
  /\ state.connected => state.header # None

\* What the pipeline remembers is the receiver's state.
Source ==
  closing = "open" =>
    /\ run_id = RunOf(state)
    /\ last_observation = state.observation
    /\ segment # None => state.connected /\ segment.header = state.header

\* A segment leads to the newest observation, by its schedule.
SegmentSound ==
  segment # None =>
    /\ closing = "open"
    /\ segment.left \in Observation /\ segment.right \in Observation
    /\ segment.right = last_observation
    /\ SegmentError(segment.left, segment.right) = None
    /\ Fits(segment.left, segment.right, segment.targets)
    /\ next_frame_index \in 0 .. Len(segment.targets) - 1

\* The simulation time up to which frames have been submitted.
Reached ==
  IF segment = None THEN last_observation.elapsed_s
  ELSE IF next_frame_index = 0 THEN segment.left.elapsed_s
  ELSE segment.targets[next_frame_index].elapsed_s

\* A request since the reset is of the present source, and not ahead of it.
Present(x) ==
  x.n > base /\ closing = "open" =>
    /\ state.connected /\ state.observation # None
    /\ x.request.header = state.header
    /\ x.request.frame.right.run_id = state.header.run_id
    /\ x.request.frame.right.sequence <= state.observation.sequence
    /\ x.request.frame.at <= Reached

\* Of two requests since the reset the later one shows a later time.
InOrder(x, y) ==
  base < x.n /\ x.n < y.n =>
    /\ x.request.frame.at <= y.request.frame.at
    /\ x.request.frame.right.sequence <= y.request.frame.right.sequence

Pictures ==
  /\ \A x \in WP!Held : Present(x) /\ RealPair(x.request.frame)
  /\ \A x, y \in WP!Held : InOrder(x, y)

CInv == WP!IInv /\ Typed /\ RunHolds /\ Source /\ SegmentSound /\ Pictures

LEMMA InitCInv == Init => CInv
<1> SUFFICES ASSUME Init PROVE CInv
  OBVIOUS
<1>1. WP!IInv
  BY SameWorker, WorkerAssumption, WP!InitInv DEF Init
<1>2. Typed /\ RunHolds /\ Source /\ SegmentSound
  BY DEF Init, InitialState, ExecutionState, Typed, RunHolds, Source, RunOf, SegmentSound
<1>3. WP!Held = {}
  BY DEF Init, W!Init, WP!Held
<1> QED BY <1>1, <1>2, <1>3 DEF CInv, Pictures

LEMMA HeldTyped ==
  ASSUME CInv, NEW x \in WP!Held
  PROVE  /\ x.n \in 1 .. asked /\ asked \in Nat /\ base \in Nat
         /\ x.request.frame.at \in Nat /\ x.request.frame.right \in Observation
         /\ x.request.frame.right.sequence \in Nat
<1>1. x.n \in 1 .. asked /\ x.request \in CameraRequest
  BY WP!HeldTyped, WorkerAssumption DEF CInv
<1>2. asked \in Nat /\ base \in Nat
  BY DEF CInv, WP!IInv, WP!TypeOK
<1> QED BY <1>1, <1>2 DEF CameraRequest, Frame, Observation

LEMMA ReachedTyped ==
  ASSUME CInv, last_observation # None
  PROVE  Reached \in Nat /\ Reached <= last_observation.elapsed_s
<1>1. last_observation.elapsed_s \in Nat
  BY DEF CInv, Typed, Observation
<1>2. CASE segment = None
  BY <1>1, <1>2 DEF Reached
<1>3. CASE segment # None
  <2>1. /\ segment.left.elapsed_s \in Nat /\ segment.right = last_observation
        /\ Fits(segment.left, segment.right, segment.targets)
        /\ next_frame_index \in 0 .. Len(segment.targets) - 1
    BY <1>3 DEF CInv, SegmentSound, Observation
  <2>2. Len(segment.targets) \in Nat \ {0}
    BY <2>1, FrameScheduleAssumption DEF Fits
  <2>3. \A i \in 1 .. Len(segment.targets) :
          segment.targets[i].elapsed_s \in segment.left.elapsed_s + 1 .. last_observation.elapsed_s
    BY <2>1 DEF Fits
  <2>4. segment.left.elapsed_s <= last_observation.elapsed_s
    <3>1. segment.targets[1].elapsed_s \in segment.left.elapsed_s + 1 .. last_observation.elapsed_s
      BY <2>2, <2>3
    <3> QED BY <1>1, <2>1, <3>1
  <2>5. CASE next_frame_index = 0
    BY <1>1, <1>3, <2>1, <2>4, <2>5 DEF Reached
  <2>6. CASE next_frame_index # 0
    <3>1. next_frame_index \in 1 .. Len(segment.targets)
      BY <2>1, <2>2, <2>6
    <3> QED BY <1>1, <1>3, <2>1, <2>3, <2>6, <3>1 DEF Reached
  <2> QED BY <2>5, <2>6
<1> QED BY <1>2, <1>3

-----------------------------------------------------------------------------
(* What is held stays sound.                                               *)

\* For what is held, the source goes on and the schedule does not go back.
GoesOn ==
  state.connected /\ state.observation # None =>
    /\ state'.connected /\ state'.header = state.header
    /\ state'.observation \in Observation
    /\ state.observation.sequence <= state'.observation.sequence
    /\ Reached <= Reached' /\ Reached' \in Int

LEMMA CarriedPresent ==
  ASSUME CInv, UNCHANGED base, closing' = "open" => closing = "open" /\ GoesOn,
         NEW x, WP!Carried(x)
  PROVE  Present(x)' /\ RealPair(x.request.frame)
<1>1. PICK y \in WP!Held : x.n = y.n /\ x.request = y.request
  BY DEF WP!Carried
<1>2. Present(y) /\ RealPair(y.request.frame)
  BY DEF CInv, Pictures
<1>3. ASSUME x.n > base, closing' = "open"
      PROVE  /\ state'.connected /\ state'.observation # None
             /\ x.request.header = state'.header
             /\ x.request.frame.right.run_id = state'.header.run_id
             /\ x.request.frame.right.sequence <= state'.observation.sequence
             /\ x.request.frame.at <= Reached'
  <2>1. /\ state.connected /\ state.observation # None
        /\ x.request.header = state.header
        /\ x.request.frame.right.run_id = state.header.run_id
        /\ x.request.frame.right.sequence <= state.observation.sequence
        /\ x.request.frame.at <= Reached
    BY <1>1, <1>2, <1>3 DEF Present
  <2>2. /\ state'.connected /\ state'.header = state.header
        /\ state'.observation \in Observation
        /\ state.observation.sequence <= state'.observation.sequence
        /\ Reached <= Reached' /\ Reached' \in Int
    BY <1>3, <2>1 DEF GoesOn
  <2>3. last_observation = state.observation /\ state.observation \in Observation
    BY <1>3, <2>1 DEF CInv, Source, Typed, ExecutionState
  <2>4. Reached \in Nat
    BY <2>1, <2>3, ReachedTyped
  <2>5. x.request.frame.at \in Nat /\ x.request.frame.right.sequence \in Nat
    BY <1>1, HeldTyped
  <2>6. state.observation.sequence \in Nat /\ state'.observation.sequence \in Nat
    BY <2>2, <2>3 DEF Observation
  <2>7. state'.observation # None
    BY <2>2, RunStateAssumption
  <2> QED BY <2>1, <2>2, <2>4, <2>5, <2>6, <2>7
<1>4. Present(x)'
  BY <1>3 DEF Present
<1> QED BY <1>1, <1>2, <1>4

LEMMA CarriedOrder ==
  ASSUME CInv, UNCHANGED base, NEW x, WP!Carried(x), NEW y, WP!Carried(y)
  PROVE  InOrder(x, y)'
<1>1. PICK a \in WP!Held : x.n = a.n /\ x.request = a.request
  BY DEF WP!Carried
<1>2. PICK b \in WP!Held : y.n = b.n /\ y.request = b.request
  BY DEF WP!Carried
<1>3. InOrder(a, b)
  BY DEF CInv, Pictures
<1> QED BY <1>1, <1>2, <1>3 DEF InOrder

\* A step that adds no request.
LEMMA CarryPictures ==
  ASSUME CInv, UNCHANGED base, closing' = "open" => closing = "open" /\ GoesOn,
         \A x \in WP!Held' : WP!Carried(x)
  PROVE  Pictures'
<1>1. \A x \in WP!Held' : Present(x)' /\ RealPair(x.request.frame)
  BY CarriedPresent
<1>2. \A x \in WP!Held' : \A y \in WP!Held' : InOrder(x, y)'
  BY CarriedOrder
<1> QED BY <1>1, <1>2 DEF Pictures

\* A reset: all that is held is from before it.
LEMMA ForgetPictures ==
  ASSUME CInv, base' = asked, \A x \in WP!Held' : WP!Carried(x)
  PROVE  Pictures'
<1>1. ASSUME NEW x \in WP!Held'
      PROVE  ~(x.n > base') /\ ~(base' < x.n) /\ RealPair(x.request.frame)
  <2>1. PICK y \in WP!Held : x.n = y.n /\ x.request = y.request
    BY DEF WP!Carried
  <2>2. RealPair(y.request.frame)
    BY DEF CInv, Pictures
  <2> QED BY <2>1, <2>2, HeldTyped
<1>2. \A x \in WP!Held' : Present(x)'
  BY <1>1 DEF Present
<1>3. \A x \in WP!Held' : \A y \in WP!Held' : InOrder(x, y)'
  BY <1>1 DEF InOrder
<1> QED BY <1>1, <1>2, <1>3 DEF Pictures

\* What a step submits: a frame of the newest observation, not before what was reached.
Showing(r) ==
  /\ r \in CameraRequest /\ RealPair(r.frame)
  /\ state.connected /\ state.observation # None /\ state.observation.run_id = state.header.run_id
  /\ r.header = state.header /\ r.frame.right = state.observation
  /\ r.frame.at <= Reached

LEMMA SubmitPictures ==
  ASSUME CInv, UNCHANGED <<base, closing>>, closing = "open", GoesOn,
         NEW r, Showing(r)',
         state.connected /\ state.observation # None => Reached <= r.frame.at,
         \A x \in WP!Held' : WP!Carried(x) \/ (x.n = asked + 1 /\ x.request = r)
  PROVE  Pictures'
<1>1. /\ r \in CameraRequest /\ RealPair(r.frame)
      /\ state'.connected /\ state'.observation # None
      /\ state'.observation.run_id = state'.header.run_id
      /\ r.header = state'.header /\ r.frame.right = state'.observation
      /\ r.frame.at <= Reached'
  BY DEF Showing
<1>2. r.frame.right \in Observation /\ r.frame.right.sequence \in Nat /\ r.frame.at \in Nat
  BY <1>1 DEF CameraRequest, Frame, Observation
<1>3. ASSUME NEW x, x.request = r
      PROVE  Present(x)' /\ RealPair(x.request.frame)
  BY <1>1, <1>2, <1>3 DEF Present
<1>4. ASSUME NEW x \in WP!Held'
      PROVE  Present(x)' /\ RealPair(x.request.frame)
  BY <1>3, CarriedPresent
<1>5. ASSUME NEW x \in WP!Held', NEW y \in WP!Held'
      PROVE  InOrder(x, y)'
  <2>1. CASE WP!Carried(x) /\ WP!Carried(y)
    BY <2>1, CarriedOrder
  <2>2. CASE ~WP!Carried(x)
    <3>1. x.n = asked + 1
      BY <2>2
    <3>2. y.n \in 1 .. asked + 1 /\ asked \in Nat
      <4>1. asked \in Nat
        BY DEF CInv, WP!IInv, WP!TypeOK
      <4>2. CASE y.n = asked + 1
        BY <4>1, <4>2
      <4>3. CASE WP!Carried(y)
        BY <4>1, <4>3, HeldTyped DEF WP!Carried
      <4> QED BY <4>2, <4>3
    <3> QED BY <3>1, <3>2 DEF InOrder
  <2>3. CASE WP!Carried(x) /\ ~WP!Carried(y)
    <3>1. y.request = r
      BY <2>3
    <3>2. ASSUME base < x.n
          PROVE  x.request.frame.at <= r.frame.at
                 /\ x.request.frame.right.sequence <= r.frame.right.sequence
      <4>1. PICK a \in WP!Held : x.n = a.n /\ x.request = a.request
        BY <2>3 DEF WP!Carried
      <4>2. Present(a) /\ a.n > base
        BY <3>2, <4>1, HeldTyped DEF CInv, Pictures
      <4>3. /\ state.connected /\ state.observation # None
            /\ a.request.frame.right.sequence <= state.observation.sequence
            /\ a.request.frame.at <= Reached
        BY <4>2 DEF Present
      <4>4. last_observation = state.observation /\ state.observation \in Observation
        BY <4>3 DEF CInv, Source, Typed, ExecutionState
      <4>5. Reached \in Nat /\ state.observation.sequence \in Nat
        BY <4>3, <4>4, ReachedTyped DEF Observation
      <4>6. a.request.frame.at \in Nat /\ a.request.frame.right.sequence \in Nat
        BY HeldTyped
      <4>7. state.observation.sequence <= r.frame.right.sequence /\ Reached <= r.frame.at
        BY <1>1, <4>3 DEF GoesOn
      <4> QED BY <1>2, <4>1, <4>3, <4>5, <4>6, <4>7
    <3> QED BY <3>1, <3>2 DEF InOrder
  <2> QED BY <2>1, <2>2, <2>3
<1> QED BY <1>4, <1>5 DEF Pictures

-----------------------------------------------------------------------------
(* The transitions of the run state.                                       *)

\* A step of the pipeline that leaves the worker alone.
LEMMA WorkerKept ==
  ASSUME CInv, UNCHANGED wvars
  PROVE  WP!IInv' /\ \A x \in WP!Held' : WP!Carried(x)
<1>1. UNCHANGED WP!vars
  BY SameWorker
<1> QED BY <1>1, WP!OtherInv, WP!OthersHold, WorkerAssumption DEF CInv

LEMMA ForgetKeeps ==
  ASSUME CInv, Typed', RunHolds', forget_frames, segment' = None,
         run_id' = RunOf(state'), last_observation' = state'.observation
  PROVE  CInv'
<1>1. WP!invalidate
  BY SameWorker DEF forget_frames
<1>2. WP!IInv'
  BY <1>1, WP!InvalidateInv, WorkerAssumption DEF CInv
<1>3. \A x \in WP!Held' : WP!Carried(x)
  BY <1>1, WP!InvalidateHolds, WorkerAssumption
<1>4. base' = asked
  BY DEF forget_frames, W!invalidate
<1>5. Pictures'
  BY <1>3, <1>4, ForgetPictures
<1>6. Source' /\ SegmentSound'
  BY DEF Source, SegmentSound
<1> QED BY <1>2, <1>5, <1>6 DEF CInv

LEMMA AcceptHeaderHolds ==
  ASSUME CInv, NEW h \in Header, state' = accept_header(state, h)
  PROVE  /\ state' \in ExecutionState /\ RunHolds'
         /\ state'.connected /\ state'.header # None
         /\ SameRun(state, h) => state'.header = state.header /\ state'.observation = state.observation
         /\ ~SameRun(state, h) => state'.header = h /\ state'.observation = None
<1>1. state \in ExecutionState /\ h # None
  BY RunStateAssumption DEF CInv, Typed
<1>2. state.connection_index + 1 \in Nat
  BY <1>1 DEF ExecutionState
<1>3. CASE SameRun(state, h)
  <2>1. state' = [state EXCEPT !.connected = TRUE, !.connection_index = @ + 1]
    BY <1>3 DEF accept_header
  <2>2. state' \in ExecutionState /\ state'.connected = TRUE
        /\ state'.header = state.header /\ state'.observation = state.observation
    BY <1>1, <1>2, <2>1 DEF ExecutionState
  <2>3. state.header # None
    BY <1>3 DEF SameRun
  <2> QED BY <1>3, <2>2, <2>3 DEF CInv, RunHolds
<1>4. CASE ~SameRun(state, h)
  <2>1. state' = [header |-> h, observation |-> None, connected |-> TRUE,
                  connection_index |-> state.connection_index + 1, missing_sequences |-> 0]
    BY <1>4 DEF accept_header, InitialState
  <2>2. state' \in ExecutionState
    BY <1>2, <2>1 DEF ExecutionState
  <2> QED BY <1>1, <1>4, <2>1, <2>2 DEF RunHolds
<1> QED BY <1>3, <1>4

LEMMA RunOfTyped ==
  ASSUME NEW s \in ExecutionState
  PROVE  RunOf(s) \in Runs \cup {None}
BY DEF RunOf, ExecutionState, Header

\* A closed pipeline ignores its source.
LEMMA ClosedKeeps ==
  ASSUME CInv, state' \in ExecutionState, RunHolds', closing # "open",
         UNCHANGED <<wvars, pvars, poll_error>>
  PROVE  CInv'
<1>1. WP!IInv' /\ Pictures'
  BY WorkerKept, CarryPictures DEF wvars
<1>2. Typed'
  BY DEF CInv, Typed, pvars
<1>3. Source' /\ SegmentSound'
  BY DEF CInv, Source, SegmentSound, pvars, wvars
<1> QED BY <1>1, <1>2, <1>3 DEF CInv

LEMMA ConnectKeeps ==
  ASSUME CInv, NEW h \in Header, Connect(h)
  PROVE  CInv'
<1> DEFINE s == accept_header(state, h)
<1>1. /\ ~state.connected /\ state_changed(s) /\ state' = s /\ UNCHANGED poll_error
  BY DEF Connect, state_changed
<1>2. /\ state' \in ExecutionState /\ RunHolds'
      /\ state'.connected /\ state'.header # None
      /\ SameRun(state, h) => state'.header = state.header /\ state'.observation = state.observation
      /\ ~SameRun(state, h) => state'.header = h /\ state'.observation = None
  BY <1>1, AcceptHeaderHolds
<1> HIDE DEF s
<1>3. CASE closing # "open"
  BY <1>1, <1>2, <1>3, ClosedKeeps DEF state_changed
<1>4. CASE closing = "open" /\ RunOf(state') # run_id
  <2>1. reset_run(RunOf(state'))
    BY <1>1, <1>4 DEF state_changed
  <2>2. /\ forget_frames /\ segment' = None /\ waited' = 0
        /\ run_id' = RunOf(state') /\ last_observation' = None
    BY <2>1 DEF reset_run, drop_segment
  <2>3. state'.observation = None
    BY <1>2, <1>4 DEF CInv, Source, RunOf
  <2>4. Typed'
    BY <1>1, <1>2, <2>2, RunOfTyped DEF CInv, Typed
  <2> QED BY <1>2, <2>2, <2>3, <2>4, ForgetKeeps
<1>5. CASE closing = "open" /\ RunOf(state') = run_id
  <2>1. state'.observation = last_observation
    <3>1. CASE SameRun(state, h)
      BY <1>2, <1>5, <3>1 DEF CInv, Source
    <3>2. CASE ~SameRun(state, h)
      <4>1. RunOf(state') = h.run_id /\ RunOf(state) = RunOf(state')
        BY <1>2, <1>5, <3>2 DEF RunOf, CInv, Source
      <4>2. state.header = None
        BY <3>2, <4>1 DEF RunOf, SameRun
      <4> QED BY <1>2, <1>5, <3>2, <4>2 DEF CInv, RunHolds, Source
    <3> QED BY <3>1, <3>2
  <2>2. UNCHANGED <<wvars, pvars>>
    BY <1>1, <1>2, <1>5, <2>1 DEF state_changed, New
  <2>3. segment = None
    BY <1>1, <1>5 DEF CInv, Source
  <2>4. WP!IInv' /\ Pictures'
    BY <1>1, <2>2, WorkerKept, CarryPictures DEF GoesOn, wvars
  <2>5. Typed'
    BY <1>1, <1>2, <2>2 DEF CInv, Typed, pvars
  <2>6. Source' /\ SegmentSound'
    BY <1>5, <2>1, <2>2, <2>3 DEF Source, SegmentSound, pvars
  <2> QED BY <1>2, <2>4, <2>5, <2>6 DEF CInv
<1> QED BY <1>3, <1>4, <1>5

LEMMA DisconnectKeeps ==
  ASSUME CInv, Disconnect
  PROVE  CInv'
<1>1. state_changed(disconnect(state)) /\ state' = disconnect(state) /\ UNCHANGED poll_error
  BY DEF Disconnect, state_changed
<1>2. /\ state' \in ExecutionState /\ ~state'.connected
      /\ state'.header = state.header /\ state'.observation = state.observation
  BY <1>1 DEF disconnect, CInv, Typed, ExecutionState
<1>3. RunHolds' /\ RunOf(state') = RunOf(state)
  BY <1>2 DEF CInv, RunHolds, RunOf
<1>4. CASE closing # "open"
  BY <1>1, <1>2, <1>3, <1>4, ClosedKeeps DEF state_changed
<1>5. CASE closing = "open"
  <2>1. lose_source
    BY <1>1, <1>2, <1>3, <1>5 DEF state_changed, CInv, Source
  <2>2. /\ forget_frames /\ segment' = None /\ waited' = 0
        /\ UNCHANGED <<run_id, last_observation>>
    BY <2>1 DEF lose_source, drop_segment
  <2>3. Typed'
    BY <1>1, <1>2, <2>2 DEF CInv, Typed
  <2>4. run_id' = RunOf(state') /\ last_observation' = state'.observation
    BY <1>2, <1>3, <1>5, <2>2 DEF CInv, Source
  <2> QED BY <1>3, <2>2, <2>3, <2>4, ForgetKeeps
<1> QED BY <1>4, <1>5

\* An observation of the run is shown at once.
LEMMA ShowKeeps ==
  ASSUME CInv, Typed', RunHolds', closing = "open", UNCHANGED run_id, GoesOn,
         state'.connected, state'.observation # None, last_observation' = state'.observation,
         RunOf(state') = RunOf(state), state'.header \in Header,
         NEW f \in Frame, RealPair(f), f.right = state'.observation,
         f.at = state'.observation.elapsed_s,
         show_at_once(state'.header, f),
         state.connected /\ state.observation # None => Reached <= f.at
  PROVE  CInv'
<1>0. PICK r : r = request(state'.header, f)
  OBVIOUS
<1>1. W!submit(r) /\ segment' = None
  BY <1>0 DEF show_at_once, drop_segment
<1>2. r \in CameraRequest /\ r.header = state'.header /\ r.frame = f
  BY <1>0 DEF request, CameraRequest
<1>3. UNCHANGED <<base, closing>>
  BY <1>1 DEF W!submit
<1>4. WP!submit(r)
  BY <1>1, <1>2, SameWorker
<1>5. WP!IInv'
  BY <1>2, <1>4, WP!SubmitInv, WorkerAssumption DEF CInv
<1>6. \A x \in WP!Held' : WP!Carried(x) \/ (x.n = asked + 1 /\ x.request = r)
  BY <1>2, <1>4, WP!SubmitHolds, WorkerAssumption DEF CInv
<1>7. Showing(r)'
  <2>1. Reached' = state'.observation.elapsed_s
    BY <1>1 DEF Reached
  <2>2. state'.observation.elapsed_s \in Nat
    BY DEF Typed, ExecutionState, Observation
  <2>3. state'.observation.run_id = state'.header.run_id
    BY DEF RunHolds
  <2> QED BY <1>2, <2>1, <2>2, <2>3 DEF Showing
<1>8. Pictures'
  BY <1>2, <1>3, <1>6, <1>7, SubmitPictures
<1>9. Source' /\ SegmentSound'
  BY <1>1 DEF CInv, Source, SegmentSound
<1> QED BY <1>5, <1>8, <1>9 DEF CInv

\* Or it starts a segment from the one before it.
LEMMA SegmentKeeps ==
  ASSUME CInv, Typed', RunHolds', closing = "open", UNCHANGED run_id, GoesOn,
         state'.connected, last_observation' = state'.observation,
         RunOf(state') = RunOf(state),
         last_observation \in Observation, state'.observation \in Observation,
         NEW t, start_segment(state'.header, state'.observation, t),
         SegmentError(last_observation, state'.observation) = None,
         Fits(last_observation, state'.observation, t)
  PROVE  CInv'
<1>1. /\ segment' = [header |-> state'.header, left |-> last_observation,
                     right |-> state'.observation, targets |-> t]
      /\ next_frame_index' = 0 /\ UNCHANGED wvars
  BY DEF start_segment
<1>2. WP!IInv' /\ Pictures'
  BY <1>1, WorkerKept, CarryPictures DEF wvars
<1>3. Source'
  BY <1>1 DEF CInv, Source
<1>4. SegmentSound'
  <2>1. 0 \in 0 .. Len(t) - 1
    BY FrameScheduleAssumption DEF Fits
  <2>2. closing' = "open"
    BY <1>1 DEF wvars
  <2> QED BY <1>1, <2>1, <2>2 DEF SegmentSound
<1> QED BY <1>2, <1>3, <1>4 DEF CInv

LEMMA ObserveKeeps ==
  ASSUME CInv, NEW o \in Observations, Observe(o)
  PROVE  CInv'
<1>1. /\ state_changed(accept_observation(state, o)) /\ state' = accept_observation(state, o)
      /\ UNCHANGED poll_error
  BY DEF Observe, state_changed
<1>2. /\ state.header # None /\ state.connected /\ o.run_id = state.header.run_id
      /\ ~(o.sequence <= previous_sequence(state))
      /\ state.observation # None => ~(o.elapsed_s < state.observation.elapsed_s)
  BY DEF Observe, ObservationError
<1>3. /\ state \in ExecutionState /\ o \in Observation /\ o # None
      /\ o.sequence \in Nat \ {0} /\ o.elapsed_s \in Nat
  BY RunStateAssumption DEF CInv, Typed, Observation
<1>4. state.observation # None =>
        /\ state.observation \in Observation
        /\ state.observation.sequence \in Nat /\ state.observation.elapsed_s \in Nat
        /\ state.observation.sequence < o.sequence
        /\ state.observation.elapsed_s <= o.elapsed_s
  BY <1>2, <1>3 DEF ExecutionState, Observation, previous_sequence
<1>5. /\ state' \in ExecutionState /\ state'.observation = o
      /\ state'.header = state.header /\ state'.connected = state.connected
  <2>1. state.missing_sequences + sequence_gap(state, o) \in Nat
    <3>1. sequence_gap(state, o) \in Nat /\ state.missing_sequences \in Nat
      BY <1>2, <1>3, <1>4 DEF sequence_gap, previous_sequence, ExecutionState
    <3> QED BY <3>1
  <2> QED BY <1>1, <1>3, <2>1 DEF accept_observation, ExecutionState
<1>6. RunHolds' /\ RunOf(state') = RunOf(state) /\ state'.header \in Header /\ state'.connected
  BY <1>2, <1>3, <1>5 DEF RunHolds, RunOf, ExecutionState
<1>7. CASE closing # "open"
  BY <1>1, <1>5, <1>6, <1>7, ClosedKeeps DEF state_changed
<1>8. CASE closing = "open"
  <2>1. last_observation = state.observation /\ RunOf(state') = run_id
    BY <1>6, <1>8 DEF CInv, Source
  <2>2. New(o)
    BY <1>3, <1>4, <2>1 DEF New
  <2>3. follow(state'.header, o) /\ UNCHANGED poll_error
    BY <1>1, <1>2, <1>5, <1>8, <2>1, <2>2 DEF state_changed
  <2>4. last_observation' = o /\ UNCHANGED run_id
    BY <2>3 DEF follow
  <2>5. waited' \in Nat
    BY <2>3 DEF follow, show_at_once, start_segment, drop_segment
  <2>6. Typed'
    BY <1>1, <1>3, <1>5, <2>4, <2>5 DEF CInv, Typed
  <2>7. last_observation # None =>
          /\ Reached \in Nat /\ last_observation.elapsed_s \in Nat
          /\ Reached <= last_observation.elapsed_s /\ Reached <= o.elapsed_s
    BY <1>3, <1>4, <2>1, ReachedTyped
  <2>8. ASSUME last_observation # None => last_observation.elapsed_s <= Reached' /\ Reached' \in Int
        PROVE  GoesOn
    BY <1>3, <1>4, <1>5, <1>6, <2>1, <2>7, <2>8 DEF GoesOn
  <2>9. ASSUME segment' = None PROVE GoesOn
    BY <1>3, <1>4, <2>1, <2>4, <2>8, <2>9 DEF Reached
  <2>10. CASE last_observation = None
    <3>1. show_at_once(state'.header, exact_frame(o)) /\ segment' = None
      BY <2>3, <2>10 DEF follow, show_at_once, drop_segment
    <3> QED BY <1>3, <1>5, <1>6, <1>8, <2>1, <2>4, <2>6, <2>7, <2>9, <2>10, <3>1,
               ExactFrame, ShowKeeps
  <2>11. CASE last_observation # None
    <3> DEFINE t == schedule_segment(last_observation, o)
               f == materialize_target(last_observation, o, t[1])
    <3>1. last_observation \in Observation
      BY <1>4, <2>1, <2>11
    <3>2. CASE Len(t) = 1 /\ t[1].mode = "hold"
      <4>1. f \in Frame /\ RealPair(f) /\ f.right = o /\ f.at = o.elapsed_s
        BY <1>3, <3>1, <3>2, HeldOrScheduled
      <4>2. show_at_once(state'.header, f) /\ segment' = None
        BY <2>3, <2>11, <3>2 DEF follow, show_at_once, drop_segment
      <4> HIDE DEF f, t
      <4> QED BY <1>3, <1>5, <1>6, <1>8, <2>1, <2>4, <2>6, <2>7, <2>9, <2>11, <4>1, <4>2,
                 ShowKeeps
    <3>3. CASE ~(Len(t) = 1 /\ t[1].mode = "hold")
      <4>1. SegmentError(last_observation, o) = None /\ Fits(last_observation, o, t)
        BY <1>3, <3>1, <3>3, HeldOrScheduled
      <4>2. start_segment(state'.header, o, t)
        BY <2>3, <2>11, <3>3 DEF follow
      <4>3. GoesOn
        <5>1. Reached' = IF segment' = None THEN o.elapsed_s ELSE last_observation.elapsed_s
          BY <2>4, <4>2 DEF Reached, start_segment
        <5> QED BY <1>3, <1>4, <2>1, <2>7, <2>8, <2>11, <5>1
      <4> HIDE DEF t
      <4> QED BY <1>3, <1>5, <1>6, <1>8, <2>4, <2>6, <3>1, <4>1, <4>2, <4>3, SegmentKeeps
    <3> QED BY <3>2, <3>3
  <2> QED BY <2>10, <2>11
<1> QED BY <1>7, <1>8

-----------------------------------------------------------------------------
(* The poll.                                                               *)

\* It either finds no target due and stays in its segment, or submits a frame
\* of the newest observation and has then reached that frame's time.
DueFrame(e, r) ==
  /\ e \in WP!Envelope /\ e # None /\ e.generation = generation /\ e.n = asked + 1
  /\ e.request = r /\ r \in CameraRequest /\ RealPair(r.frame)
  /\ r.header = segment.header /\ r.frame.right = last_observation
  /\ segment # None /\ Reached <= r.frame.at /\ Reached' = r.frame.at

LEMMA PollFollows ==
  ASSUME CInv, poll
  PROVE  /\ SegmentSound' /\ waited' \in Nat
         /\ segment' # None => segment' = segment
         /\ \/ due_request = None /\ UNCHANGED <<segment, next_frame_index>>
            \/ \E r : DueFrame(due_request, r)
<1>1. /\ closing = "open" /\ closing' = "open" /\ UNCHANGED last_observation
      /\ waited \in Nat /\ generation \in Nat /\ asked \in Nat
      /\ IF segment = None \/ process # "alive" THEN UNCHANGED <<segment, next_frame_index, waited>>
                                                ELSE advance
  BY DEF poll, CInv, Typed, WP!IInv, WP!TypeOK
<1>2. CASE segment = None \/ process # "alive"
  BY <1>1, <1>2 DEF due_request, CInv, SegmentSound
<1>3. CASE segment # None /\ process = "alive"
  <2> DEFINE left == segment.left  right == segment.right  t == segment.targets
  <2>1. /\ left \in Observation /\ right \in Observation /\ right = last_observation
        /\ SegmentError(left, right) = None
        /\ Fits(left, right, t) /\ next_frame_index \in 0 .. Len(t) - 1
        /\ left.elapsed_s \in Nat /\ right.elapsed_s \in Nat
    BY <1>3 DEF CInv, SegmentSound, Observation
  <2>2. /\ Len(t) \in Nat \ {0} /\ next_frame_index \in Nat /\ next_frame_index < Len(t)
        /\ t[Len(t)].elapsed_s = right.elapsed_s
        /\ \A i \in 1 .. Len(t) : t[i].elapsed_s \in left.elapsed_s + 1 .. right.elapsed_s
        /\ \A i, j \in 1 .. Len(t) : i < j => t[i].elapsed_s < t[j].elapsed_s
    BY <2>1, FrameScheduleAssumption DEF Fits
  <2>3. PICK i \in next_frame_index .. Len(t) : i = due_index
    BY <1>3, <2>1, <2>2, DueIndex
  <2>4. IF i >= Len(t) THEN drop_segment
                       ELSE next_frame_index' = i /\ UNCHANGED <<segment, waited>>
    BY <1>1, <1>3, <2>3 DEF advance
  <2>5. i \in Nat
    BY <2>2
  <2>6. SegmentSound' /\ waited' \in Nat /\ (segment' # None => segment' = segment)
    <3>1. CASE i >= Len(t)
      BY <2>4, <3>1 DEF drop_segment, SegmentSound
    <3>2. CASE ~(i >= Len(t))
      <4>1. segment' = segment /\ next_frame_index' = i /\ waited' = waited
            /\ i \in 0 .. Len(t) - 1
        BY <2>2, <2>4, <2>5, <3>2
      <4> QED BY <1>1, <4>1 DEF CInv, SegmentSound
    <3> QED BY <3>1, <3>2
  <2>7. CASE i = next_frame_index
    <3>1. due_request = None
      BY <2>3, <2>7 DEF due_request
    <3>2. UNCHANGED <<segment, next_frame_index>>
      BY <2>2, <2>4, <2>7
    <3> QED BY <2>6, <3>1, <3>2
  <2>8. CASE i # next_frame_index
    <3>1. i \in 1 .. Len(t) /\ next_frame_index < i
      BY <2>2, <2>8
    <3> DEFINE f == materialize_target(left, right, t[i])
               r == request(segment.header, f)
    <3>2. f \in Frame /\ RealPair(f) /\ f.right = right /\ f.at = t[i].elapsed_s
      BY <2>1, <3>1, TargetFrame
    <3>3. segment.header \in Header
      BY <1>1, <1>3 DEF CInv, Source, RunHolds, Typed, ExecutionState
    <3>4. due_request = W!Tag(r)
      BY <1>3, <2>3, <2>8 DEF due_request
    <3> HIDE DEF f
    <3>5. r \in CameraRequest /\ r.header = segment.header /\ r.frame = f
      BY <3>2, <3>3 DEF request, CameraRequest
    <3> HIDE DEF r
    <3>6. /\ W!Tag(r) \in WP!Envelope /\ W!Tag(r) # None
          /\ W!Tag(r).generation = generation /\ W!Tag(r).n = asked + 1
          /\ W!Tag(r).request = r
      <4>1. W!Tag(r) = [generation |-> generation, n |-> asked + 1, request |-> r]
        BY DEF W!Tag
      <4>2. W!Tag(r) \in WP!Envelope
        BY <1>1, <3>5, <4>1 DEF WP!Envelope
      <4> QED BY <4>1, <4>2, WorkerAssumption DEF WP!ConstantAssumption
    <3>7. Reached <= t[i].elapsed_s
      <4>1. CASE next_frame_index = 0
        BY <1>3, <2>1, <2>2, <3>1, <4>1 DEF Reached
      <4>2. CASE next_frame_index # 0
        <5>1. next_frame_index \in 1 .. Len(t)
          BY <2>2, <4>2
        <5>2. t[next_frame_index].elapsed_s < t[i].elapsed_s
              /\ t[next_frame_index].elapsed_s \in left.elapsed_s + 1 .. right.elapsed_s
              /\ t[i].elapsed_s \in left.elapsed_s + 1 .. right.elapsed_s
          BY <2>2, <3>1, <5>1
        <5> QED BY <1>3, <2>1, <4>2, <5>2 DEF Reached
      <4> QED BY <4>1, <4>2
    <3>8. Reached' = t[i].elapsed_s
      <4>1. CASE i >= Len(t)
        <5>1. i = Len(t) /\ segment' = None
          BY <2>2, <2>4, <3>1, <4>1 DEF drop_segment
        <5> QED BY <1>1, <2>1, <2>2, <5>1 DEF Reached
      <4>2. CASE ~(i >= Len(t))
        <5>1. segment' = segment /\ next_frame_index' = i /\ i # 0
          BY <2>4, <3>1, <4>2
        <5> QED BY <1>3, <5>1 DEF Reached
      <4> QED BY <4>1, <4>2
    <3>9. DueFrame(due_request, r)
      BY <1>3, <2>1, <3>2, <3>4, <3>5, <3>6, <3>7, <3>8 DEF DueFrame
    <3> QED BY <2>6, <3>9
  <2> QED BY <2>7, <2>8
<1> QED BY <1>2, <1>3

LEMMA PollKeeps ==
  ASSUME CInv, poll
  PROVE  CInv'
<1>1. /\ closing = "open" /\ closing' = "open" /\ base' = base
      /\ UNCHANGED <<run_id, last_observation, state>> /\ poll_error' \in BOOLEAN
  BY DEF poll
<1>2. PICK e : e = due_request
  OBVIOUS
<1>3. /\ SegmentSound' /\ waited' \in Nat
      /\ segment' # None => segment' = segment
      /\ \/ e = None /\ UNCHANGED <<segment, next_frame_index>>
         \/ \E r : DueFrame(e, r)
  BY <1>2, PollFollows
<1>4. e # None => e \in WP!Envelope /\ e.generation = generation /\ e.n = asked + 1
  BY <1>3 DEF DueFrame
<1>5. WP!IInv'
  BY <1>2, <1>4, PollInv DEF CInv
<1>6. \A x \in WP!Held' : WP!Carried(x) \/ (e # None /\ x = e)
  BY <1>2, <1>4, PollHolds DEF CInv
<1>7. Typed' /\ RunHolds' /\ Source'
  <2>1. Typed'
    BY <1>1, <1>3 DEF CInv, Typed
  <2>2. RunHolds'
    BY <1>1 DEF CInv, RunHolds
  <2>3. Source'
    BY <1>1, <1>3 DEF CInv, Source, RunOf
  <2> QED BY <2>1, <2>2, <2>3
<1>8. state.observation # None =>
        /\ state.observation \in Observation /\ state.observation.sequence \in Nat
        /\ last_observation = state.observation /\ Reached \in Nat
  <2>1. last_observation = state.observation /\ state \in ExecutionState
    BY <1>1 DEF CInv, Source, Typed
  <2> QED BY <2>1, ReachedTyped DEF ExecutionState, Observation
<1>9. Pictures'
  <2>1. CASE e = None /\ UNCHANGED <<segment, next_frame_index>>
    <3>1. Reached' = Reached
      BY <1>1, <2>1 DEF Reached
    <3>2. GoesOn
      BY <1>1, <1>8, <3>1 DEF GoesOn
    <3> QED BY <1>1, <1>6, <2>1, <3>2, CarryPictures
  <2>2. CASE \E r : DueFrame(e, r)
    <3>1. PICK r : DueFrame(e, r)
      BY <2>2
    <3>2. /\ state.connected /\ segment.header = state.header /\ last_observation = state.observation
      BY <1>1, <3>1 DEF DueFrame, CInv, Source
    <3>3. state.observation # None /\ state.observation.run_id = state.header.run_id
      <4>1. last_observation \in Observation
        BY <3>1 DEF DueFrame, CInv, SegmentSound
      <4> QED BY <3>2, <4>1, RunStateAssumption DEF CInv, RunHolds
    <3>4. r.frame.at \in Nat
      BY <3>1 DEF DueFrame, CameraRequest, Frame
    <3>5. GoesOn
      BY <1>1, <1>8, <3>1, <3>3, <3>4 DEF GoesOn, DueFrame
    <3>6. Showing(r)'
      BY <1>1, <3>1, <3>2, <3>3, <3>4 DEF Showing, DueFrame
    <3>7. \A x \in WP!Held' : WP!Carried(x) \/ (x.n = asked + 1 /\ x.request = r)
      BY <1>6, <3>1 DEF DueFrame
    <3> QED BY <1>1, <3>1, <3>5, <3>6, <3>7, SubmitPictures DEF DueFrame
  <2> QED BY <1>3, <2>1, <2>2
<1> QED BY <1>3, <1>5, <1>7, <1>9 DEF CInv

-----------------------------------------------------------------------------
(* The other steps, and all of them.                                       *)

\* A step of the child, of close, or of the clock: close drops the segment.
LEMMA QuietKeeps ==
  ASSUME CInv, W!Others \/ UNCHANGED wvars,
         UNCHANGED <<run_id, last_observation, state, poll_error>>, waited' \in Nat,
         \/ UNCHANGED <<segment, next_frame_index>> /\ (closing = "open" <=> closing' = "open")
         \/ segment' = None /\ closing' # "open"
  PROVE  CInv'
<1>1. WP!Others \/ UNCHANGED WP!vars
  BY SameWorker
<1>2. WP!IInv' /\ \A x \in WP!Held' : WP!Carried(x)
  BY <1>1, WP!OtherInv, WP!OthersHold, WorkerAssumption DEF CInv
<1>3. base' = base
  BY DEF wvars, W!Others, W!close, W!PutStop, W!PutStopTimeout, W!Join,
         W!JoinTimeout, W!Take, W!Answer, W!Exit, W!Die, W!hist
<1>4. Typed' /\ RunHolds' /\ Source' /\ SegmentSound'
  <2>1. Typed' /\ RunHolds'
    BY DEF CInv, Typed, RunHolds
  <2>2. Source'
    BY DEF CInv, Source, RunOf
  <2>3. SegmentSound'
    BY DEF CInv, SegmentSound
  <2> QED BY <2>1, <2>2, <2>3
<1>5. ASSUME closing' = "open" PROVE closing = "open" /\ GoesOn
  <2>1. closing = "open" /\ UNCHANGED <<segment, next_frame_index>>
    BY <1>5
  <2>2. Reached' = Reached
    BY <2>1 DEF Reached
  <2>3. state.observation # None =>
          /\ state.observation \in Observation /\ state.observation.sequence \in Nat
          /\ Reached \in Nat
    <3>1. last_observation = state.observation /\ state \in ExecutionState
      BY <2>1 DEF CInv, Source, Typed
    <3> QED BY <3>1, ReachedTyped DEF ExecutionState, Observation
  <2> QED BY <2>1, <2>2, <2>3 DEF GoesOn
<1>6. Pictures'
  BY <1>2, <1>3, <1>5, CarryPictures
<1> QED BY <1>2, <1>4, <1>6 DEF CInv

LEMMA NextCInv == CInv /\ [Next]_vars => CInv'
<1> SUFFICES ASSUME CInv, [Next]_vars PROVE CInv'
  OBVIOUS
<1>0. waited \in Nat /\ waited + 1 \in Nat
  BY DEF CInv, Typed
<1>1. ASSUME NEW h \in Header, Connect(h) PROVE CInv'
  BY <1>1, ConnectKeeps
<1>2. ASSUME NEW o \in Observations, Observe(o) PROVE CInv'
  BY <1>2, ObserveKeeps
<1>3. CASE Disconnect
  BY <1>3, DisconnectKeeps
<1>4. CASE poll
  BY <1>4, PollKeeps
<1>5. CASE close
  BY <1>0, <1>5, QuietKeeps DEF close, drop_segment, W!Others, W!close
<1>6. ASSUME W!Others, UNCHANGED <<pvars, state, poll_error>>,
             closing = "open" <=> closing' = "open"
      PROVE  CInv'
  BY <1>0, <1>6, QuietKeeps DEF pvars
<1>7. CASE Take
  BY <1>6, <1>7 DEF Take, Worker, W!Others, W!Take
<1>8. CASE Answer
  BY <1>6, <1>8 DEF Answer, Worker, W!Others, W!Answer
<1>9. CASE Die
  BY <1>6, <1>9 DEF Die, Worker, W!Others, W!Die
<1>10. CASE WaitClose
  BY <1>6, <1>10 DEF WaitClose, Worker, W!Others, W!PutStop, W!PutStopTimeout, W!Join,
                     W!JoinTimeout, W!Exit
<1>11. CASE Tick
  BY <1>0, <1>11, QuietKeeps DEF Tick, wvars
<1>12. CASE UNCHANGED vars
  BY <1>0, <1>12, QuietKeeps DEF vars, wvars, pvars
<1> QED BY <1>1, <1>2, <1>3, <1>4, <1>5, <1>7, <1>8, <1>9, <1>10, <1>11, <1>12 DEF Next

LEMMA Invariance == Spec => []CInv
BY InitCInv, NextCInv, PTL DEF Spec

(* The frames of a segment lie after its left observation, at most one     *)
(* frame interval apart and strictly in order, end exactly at its right    *)
(* one, respect the profile's limit, and one is always left to show        *)
(* (scheduler.py:43-82, pipeline.py:197-207).                              *)
THEOREM SegmentsFit == Spec => []TargetsFit
<1>1. CInv => TargetsFit
  <2> SUFFICES ASSUME CInv PROVE TargetsFit
    OBVIOUS
  <2>1. W!TypeOK
    BY DEF CInv, WP!IInv, WP!TypeOK, WP!Envelope, WP!Outcome,
           W!TypeOK, W!Envelope, W!Outcome
  <2>2. ASSUME segment # None
        PROVE  /\ segment.header \in Header
               /\ segment.left \in Observation /\ segment.right \in Observation
               /\ Fits(segment.left, segment.right, segment.targets)
               /\ next_frame_index \in 0 .. Len(segment.targets) - 1
    <3>1. segment.header \in Header
      BY <2>2 DEF CInv, SegmentSound, Source, RunHolds, Typed, ExecutionState
    <3> QED BY <2>2, <3>1 DEF CInv, SegmentSound
  <2>3. TypeOK
    BY <2>1, <2>2 DEF TypeOK, CInv, Typed, Fits
  <2>4. ASSUME segment # None
        PROVE  LET t == segment.targets IN
               /\ Len(t) <= MaxSegmentFrames
               /\ t[Len(t)].elapsed_s = segment.right.elapsed_s
               /\ \A i \in 1 .. Len(t) :
                    LET before == IF i = 1 THEN segment.left.elapsed_s ELSE t[i - 1].elapsed_s IN
                    t[i].elapsed_s \in before + 1 .. before + FrameInterval
    <3> DEFINE t == segment.targets  left == segment.left  right == segment.right
    <3>1. /\ Len(t) \in 1 .. MaxSegmentFrames /\ t[Len(t)].elapsed_s = right.elapsed_s
          /\ \A i \in 1 .. Len(t) :
               /\ t[i].elapsed_s \in left.elapsed_s + 1 .. right.elapsed_s
               /\ t[i].elapsed_s <= (IF i = 1 THEN left.elapsed_s ELSE t[i - 1].elapsed_s)
                                     + FrameInterval
          /\ \A i, j \in 1 .. Len(t) : i < j => t[i].elapsed_s < t[j].elapsed_s
          /\ left.elapsed_s \in Nat /\ right.elapsed_s \in Nat /\ FrameInterval \in Nat
          /\ MaxSegmentFrames \in Nat
      BY <2>2, <2>4, FrameScheduleAssumption DEF Fits, Observation
    <3> HIDE DEF t, left, right
    <3>2. ASSUME NEW i \in 1 .. Len(t), i = 1
          PROVE  t[i].elapsed_s \in left.elapsed_s + 1 .. left.elapsed_s + FrameInterval
      BY <3>1, <3>2
    <3>3. ASSUME NEW i \in 1 .. Len(t), i # 1
          PROVE  t[i].elapsed_s \in t[i - 1].elapsed_s + 1 .. t[i - 1].elapsed_s + FrameInterval
      <4>1. i - 1 \in 1 .. Len(t) /\ i - 1 < i
        BY <3>1, <3>3
      <4>2. /\ t[i - 1].elapsed_s < t[i].elapsed_s
            /\ t[i].elapsed_s <= t[i - 1].elapsed_s + FrameInterval
            /\ t[i].elapsed_s \in Int /\ t[i - 1].elapsed_s \in Int
        BY <3>1, <3>3, <4>1
      <4> QED BY <3>1, <4>2
    <3>4. Len(t) <= MaxSegmentFrames /\ t[Len(t)].elapsed_s = right.elapsed_s
      BY <3>1
    <3> QED BY <3>2, <3>3, <3>4 DEF t, left, right
  <2> QED BY <2>3, <2>4 DEF TargetsFit
<1> QED BY <1>1, Invariance, PTL

(* No late outcome of the child refills a store that a disconnect or a new *)
(* run has emptied: a picture is of the present connection and run, and    *)
(* not ahead of the newest observation (pipeline.py:89-120,                *)
(* worker.py:125-142).                                                     *)
THEOREM PresentSourceShown == Spec => []PictureOfPresentSource
<1>1. CInv => PictureOfPresentSource
  <2> SUFFICES ASSUME CInv, frame # None, closing = "open"
               PROVE  /\ state.connected
                      /\ frame.n > base
                      /\ frame.request.header = state.header
                      /\ frame.request.frame.right.run_id = state.header.run_id
                      /\ frame.request.frame.at <= state.observation.elapsed_s
    BY DEF PictureOfPresentSource
  <2>1. frame \in WP!Held
    BY WorkerAssumption DEF CInv, WP!IInv, WP!TypeOK, WP!Held, WP!ConstantAssumption
  <2>2. frame.n > base
    BY DEF CInv, WP!IInv, WP!Order, WP!TypeOK
  <2>3. Present(frame)
    BY <2>1 DEF CInv, Pictures
  <2>4. /\ state.connected /\ state.observation # None
        /\ frame.request.header = state.header
        /\ frame.request.frame.right.run_id = state.header.run_id
        /\ frame.request.frame.at <= Reached
    BY <2>2, <2>3 DEF Present
  <2>5. last_observation = state.observation /\ state.observation.elapsed_s \in Nat
    BY <2>4 DEF CInv, Source, Typed, ExecutionState, Observation
  <2>6. Reached \in Nat /\ Reached <= state.observation.elapsed_s
    BY <2>4, <2>5, ReachedTyped
  <2>7. frame.request.frame.at \in Nat
    BY <2>1, HeldTyped
  <2> QED BY <2>2, <2>4, <2>5, <2>6, <2>7
<1> QED BY <1>1, Invariance, PTL

(* A picture between two observations is between two that the run sent one *)
(* after the other on one grid (pipeline.py:124-157,                       *)
(* interpolation.py:29-62).                                                *)
THEOREM NeighboursBlended == Spec => []BetweenNeighbours
<1>1. CInv => BetweenNeighbours
  BY DEF CInv, Pictures, RealPair, BetweenNeighbours, WP!Held
<1> QED BY <1>1, Invariance, PTL

(* Within a run the picture never goes back, in simulation time nor to an  *)
(* older observation, whatever the worker skips (pipeline.py:127-157,      *)
(* 184-207).                                                               *)
THEOREM NeverGoesBack == Spec => PicturesAdvance
<1> DEFINE Advances ==
      frame # None /\ frame' # None /\ frame.request.header = frame'.request.header =>
        /\ frame'.request.frame.at >= frame.request.frame.at
        /\ frame'.request.frame.right.sequence >= frame.request.frame.right.sequence
<1>1. ASSUME CInv, [Next]_vars PROVE [Advances]_vars
  <2>1. CASE poll /\ frame' # frame /\ frame # None /\ frame' # None
    <3>1. frame' = outcomes /\ outcomes # None /\ outcomes.n > settled
      BY <1>1, <2>1, PollPublishes DEF Published, CInv
    <3>2. frame \in WP!Held /\ outcomes \in WP!Held
      BY <1>1, <2>1, <3>1, WorkerAssumption
         DEF CInv, WP!IInv, WP!TypeOK, WP!Held, WP!ConstantAssumption
    <3>3. frame.n \in base + 1 .. settled /\ base \in Nat /\ settled \in Nat
      BY <1>1, <2>1 DEF CInv, WP!IInv, WP!Order, WP!TypeOK
    <3>4. outcomes.n \in Nat
      BY <1>1, <3>2, HeldTyped
    <3>5. base < frame.n /\ frame.n < outcomes.n
      BY <3>1, <3>3, <3>4
    <3>6. InOrder(frame, outcomes)
      BY <1>1, <3>2 DEF CInv, Pictures
    <3>7. /\ frame.request.frame.at <= outcomes.request.frame.at
          /\ frame.request.frame.right.sequence <= outcomes.request.frame.right.sequence
      BY <3>5, <3>6 DEF InOrder
    <3> QED BY <1>1, <3>1, <3>2, <3>7, HeldTyped
  <2>2. CASE ~(poll /\ frame' # frame /\ frame # None /\ frame' # None)
    <3>1. frame' = frame \/ frame' = None \/ frame = None
      <4>1. CASE poll
        BY <2>2, <4>1
      <4>2. CASE ~poll /\ ~UNCHANGED vars
        BY <1>1, <4>2
           DEF Next, Connect, Observe, Disconnect, state_changed, reset_run, lose_source,
               forget_frames, follow, show_at_once, start_segment, close, Take, Answer, Die,
               WaitClose, Worker, Tick, wvars, W!invalidate, W!clear, W!submit, W!store, W!close,
               W!PutStop, W!PutStopTimeout, W!Join, W!JoinTimeout, W!Take, W!Answer, W!Exit, W!Die
      <4>3. CASE UNCHANGED vars
        BY <4>3 DEF vars, wvars
      <4> QED BY <4>1, <4>2, <4>3
    <3>2. CASE frame' = frame /\ frame # None
      <4>1. frame \in WP!Held
        BY <1>1, <3>2, WorkerAssumption
           DEF CInv, WP!IInv, WP!TypeOK, WP!Held, WP!ConstantAssumption
      <4> QED BY <1>1, <3>2, <4>1, HeldTyped
    <3> QED BY <3>1, <3>2
  <2> QED BY <2>1, <2>2
<1> QED BY <1>1, Invariance, PTL DEF Spec, PicturesAdvance

(* The worker's invariants hold under the camera's poll too: at most one   *)
(* job, no request lost, no error behind an older picture                  *)
(* (synthetic_camera/worker.py:98-142).                                    *)
THEOREM WorkerInvariantsHold ==
  Spec => [](WP!OneJob /\ WP!NothingLost /\ WP!NoErrorMeansShown)
<1>1. CInv => WP!OneJob /\ WP!NothingLost /\ WP!NoErrorMeansShown
  BY DEF CInv, WP!IInv
<1> QED BY <1>1, Invariance, PTL
=============================================================================
