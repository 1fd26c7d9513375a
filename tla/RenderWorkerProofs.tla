------------------------- MODULE RenderWorkerProofs -------------------------
(***************************************************************************)
(* The invariants of RenderWorker and its refinement of LatestFrame, for   *)
(* any set of requests and any bounds.                                     *)
(***************************************************************************)
EXTENDS RenderWorker, TLAPS

(* The strengthened invariant holds initially.                             *)
LEMMA InitInv == Init => IInv
<1> SUFFICES ASSUME Init PROVE IInv
  OBVIOUS
<1> USE DEF Init
<1>1. TypeOK
  BY DEF TypeOK
<1>2. OneJob /\ NothingLost /\ NoErrorMeansShown
  BY DEF OneJob, NothingLost, NoErrorMeansShown, Job
<1>3. Order
  BY ConstantAssumption DEF Order, JobOrder, Job
<1> QED BY <1>1, <1>2, <1>3 DEF IInv

(* Submitting a request keeps the invariant: it replaces the pending one,  *)
(* or is offered at once when nothing is in flight.                        *)
LEMMA SubmitInv ==
  ASSUME IInv, NEW r \in Requests, submit(r)
  PROVE  IInv'
<1>0. Tag(r) \in Envelope /\ Tag(r).generation = generation /\ Tag(r).n = asked + 1
  BY DEF IInv, TypeOK, Tag, Envelope
<1>1. PICK e : e \in Envelope /\ e = Tag(r) /\ e.generation = generation /\ e.n = asked + 1
  BY <1>0
<1>2. /\ closing = "open" /\ asked' = asked + 1
      /\ generation' = generation /\ last_error' = last_error /\ outcomes' = outcomes
      /\ rendering' = rendering /\ process' = process /\ closing' = closing
      /\ frame' = frame /\ revision' = revision /\ base' = base /\ settled' = settled
  BY DEF submit, child, store
<1>3. \/ ~inflight /\ requests = None /\ pending' = None /\ inflight' = TRUE /\ requests' = e
      \/ inflight /\ pending' = e /\ inflight' = inflight /\ requests' = requests
  <2>1. flush_pending(e, inflight) /\ inflight \in BOOLEAN
    BY <1>1 DEF submit, IInv, TypeOK
  <2>2. requests # None => inflight
    BY <1>2 DEF IInv, OneJob, Order, Job
  <2>3. e # None
    BY <1>1, ConstantAssumption
  <2> QED
    BY <2>1, <2>2, <2>3 DEF flush_pending, CanOffer
<1>4. TypeOK'
  <2>1. pending' \in Envelope \cup {None} /\ requests' \in Envelope \cup {None, Stop} /\ inflight' \in BOOLEAN
    BY <1>1, <1>3 DEF IInv, TypeOK
  <2> QED
    BY <1>2, <2>1 DEF IInv, TypeOK
<1> USE <1>1, <1>2, <1>3, ConstantAssumption
<1>5. OneJob'
  BY DEF IInv, TypeOK, OneJob, Job
<1>6. NothingLost'
  BY DEF IInv, TypeOK, NothingLost
<1>7. NoErrorMeansShown'
  BY DEF IInv, NoErrorMeansShown
<1>8. Order'
  BY DEF IInv, TypeOK, OneJob, NothingLost, Order, JobOrder, Job
<1> QED BY <1>4, <1>5, <1>6, <1>7, <1>8 DEF IInv

(* A reset keeps it: every job in flight becomes one of an older           *)
(* generation, from before the new base.                                   *)
LEMMA InvalidateInv ==
  ASSUME IInv, invalidate
  PROVE  IInv'
<1>1. /\ closing = "open" /\ closing' = closing
      /\ generation' = generation + 1 /\ pending' = None /\ last_error' = FALSE
      /\ frame' = None /\ revision' = revision + 1
      /\ base' = asked /\ settled' = 0 /\ asked' = asked
      /\ inflight' = inflight /\ requests' = requests /\ outcomes' = outcomes
      /\ rendering' = rendering /\ process' = process
  BY DEF invalidate, clear, child
<1>2. TypeOK'
  <2>1. generation' \in Nat /\ revision' \in Nat
    BY <1>1 DEF IInv, TypeOK
  <2> QED
    BY <1>1, <2>1 DEF IInv, TypeOK
<1>3. OneJob' /\ NothingLost' /\ NoErrorMeansShown'
  BY <1>1 DEF IInv, TypeOK, OneJob, NothingLost, NoErrorMeansShown, Job
<1>4. JobOrder(requests)'
  BY <1>1 DEF IInv, TypeOK, Order, JobOrder, Job, Envelope
<1>5. JobOrder(rendering)'
  BY <1>1 DEF IInv, TypeOK, Order, JobOrder, Job, Envelope
<1>6. JobOrder(outcomes)'
  BY <1>1 DEF IInv, TypeOK, Order, JobOrder, Job, Outcome
<1>7. Order'
  BY <1>1, <1>4, <1>5, <1>6 DEF IInv, TypeOK, Order
<1> QED BY <1>2, <1>3, <1>7 DEF IInv

(* A poll keeps it: the outcome taken was the only job, so the pending     *)
(* request can be offered at once.                                         *)
LEMMA PollInv ==
  ASSUME IInv, poll
  PROVE  IInv'
<1>1. /\ closing = "open" /\ closing' = closing
      /\ outcomes' = None /\ generation' = generation
      /\ rendering' = rendering /\ process' = process
      /\ asked' = asked /\ base' = base
  BY DEF poll, child
<1>2. \/ /\ Current(outcomes) /\ outcomes.ok
         /\ settled' = outcomes.n /\ last_error' = FALSE
         /\ frame' = outcomes /\ revision' = revision + 1
      \/ /\ Current(outcomes) /\ ~outcomes.ok
         /\ settled' = outcomes.n /\ last_error' = TRUE
         /\ frame' = frame /\ revision' = revision
      \/ /\ ~Current(outcomes)
         /\ settled' = settled /\ last_error' = last_error
         /\ frame' = frame /\ revision' = revision
  BY DEF poll, publish, report_error, store
<1>3. TypeOK'
  <2>1. pending' \in Envelope \cup {None} /\ requests' \in Envelope \cup {None, Stop} /\ inflight' \in BOOLEAN
    BY DEF poll, flush_pending, CanOffer, inflight_after_poll, IInv, TypeOK
  <2>2. /\ settled' \in Nat /\ last_error' \in BOOLEAN
        /\ frame' \in Outcome \cup {None} /\ revision' \in Nat
    <3>1. Current(outcomes) => outcomes \in Outcome /\ outcomes.n \in Nat
      BY DEF Current, IInv, TypeOK, Outcome
    <3>2. revision + 1 \in Nat
      BY DEF IInv, TypeOK
    <3> QED
      BY <1>2, <3>1, <3>2 DEF IInv, TypeOK
  <2> QED
    BY <1>1, <2>1, <2>2 DEF IInv, TypeOK
<1>4. CASE outcomes = None
  <2>1. /\ settled' = settled /\ last_error' = last_error
        /\ frame' = frame /\ outcomes' = outcomes
    BY <1>1, <1>2, <1>4 DEF Current
  <2>2. pending' = pending /\ inflight' = inflight /\ requests' = requests
    <3>1. inflight_after_poll <=> inflight
      BY <1>4 DEF inflight_after_poll
    <3>2. ~inflight => pending = None
      BY <1>1 DEF IInv, NothingLost
    <3>3. inflight \in BOOLEAN /\ inflight_after_poll \in BOOLEAN
      BY DEF IInv, TypeOK, inflight_after_poll
    <3>4. inflight_after_poll = inflight
      BY <3>1, <3>3
    <3> QED
      BY <3>2, <3>4 DEF poll, flush_pending, CanOffer
  <2>3. OneJob' /\ NothingLost' /\ NoErrorMeansShown'
    BY <1>1, <2>1, <2>2 DEF IInv, OneJob, NothingLost, NoErrorMeansShown, Job
  <2>4. Order'
    BY <1>1, <2>1, <2>2 DEF IInv, Order, JobOrder, Job
  <2> QED BY <1>3, <2>3, <2>4 DEF IInv
<1>5. CASE outcomes # None
  <2>1. outcomes \in Outcome /\ Job(outcomes) /\ JobOrder(outcomes)
    BY <1>5, ConstantAssumption DEF IInv, TypeOK, Order, Job
  <2>2. requests = None /\ rendering = None
    BY <1>1, <1>5 DEF IInv, OneJob, Order, Job
  <2>3. pending' = None /\ requests' = pending /\ (inflight' <=> pending # None)
    BY <1>5, <2>2 DEF poll, flush_pending, CanOffer, inflight_after_poll
  <2>4. pending # None =>
          /\ pending \in Envelope /\ pending # Stop
          /\ pending.n = asked /\ pending.generation = generation
          /\ asked > base /\ settled < asked /\ outcomes.n < asked
    BY <2>1, ConstantAssumption DEF IInv, TypeOK, Order, JobOrder
  <2>5. pending = None => outcomes.n = asked \/ asked = base
    BY <1>1, <2>1 DEF JobOrder
  <2>6. /\ outcomes.n \in Nat /\ asked \in Nat /\ base \in Nat /\ settled \in Nat
        /\ generation \in Nat
    BY <2>1 DEF IInv, TypeOK, Outcome
  <2>7. Current(outcomes) => outcomes.n > base /\ outcomes.n > settled /\ outcomes.n <= asked
    BY <2>1, <2>6 DEF Current, JobOrder
  <2>8. ~Current(outcomes) => outcomes.n <= base
    BY <1>5, <2>1, <2>6 DEF Current, JobOrder
  <2>9. OneJob'
    BY <1>1, <2>2, <2>3 DEF OneJob, Job
  <2>10. NothingLost'
    BY <1>1, <1>2, <2>3, <2>5, <2>6, <2>7, <2>8 DEF IInv, Order, NothingLost
  <2>11. NoErrorMeansShown'
    BY <1>2, <2>1, <1>5 DEF IInv, NoErrorMeansShown
  <2>12. JobOrder(requests)'
    <3>1. CASE pending = None
      BY <2>3, <3>1 DEF JobOrder, Job
    <3>2. pending # None => settled' < asked
      BY <1>2, <2>4
    <3>3. CASE pending # None
      BY <1>1, <2>3, <2>4, <2>6, <3>2, <3>3 DEF JobOrder
    <3> QED BY <3>1, <3>3
  <2>13. (settled = 0 \/ settled \in base + 1 .. asked)'
    BY <1>1, <1>2, <2>6, <2>7 DEF IInv, Order
  <2>14. (frame # None => frame.n \in base + 1 .. settled)'
    BY <1>1, <1>2, <2>6, <2>7 DEF IInv, Order
  <2>15. Order'
    BY <1>1, <2>2, <2>3, <2>4, <2>12, <2>13, <2>14 DEF IInv, Order, JobOrder, Job
  <2> QED BY <1>3, <2>9, <2>10, <2>11, <2>15 DEF IInv
<1> QED BY <1>4, <1>5

(* The calls of close and the child's steps keep it: they move the only    *)
(* job along, or drop it.                                                  *)
LEMMA OtherInv ==
  ASSUME IInv,
         Others \/ UNCHANGED vars
  PROVE  IInv'
<1> USE DEF IInv, parent, child, store, hist
<1>1. CASE close
  BY <1>1 DEF close, TypeOK, OneJob, NothingLost, NoErrorMeansShown, Order, JobOrder, Job
<1>2. CASE PutStop
  BY <1>2, ConstantAssumption
  DEF PutStop, TypeOK, OneJob, NothingLost, NoErrorMeansShown, Order, JobOrder, Job
<1>3. CASE PutStopTimeout \/ Join
  BY <1>3 DEF PutStopTimeout, Join, TypeOK, OneJob, NothingLost, NoErrorMeansShown,
              Order, JobOrder, Job
<1>4. CASE JoinTimeout
  BY <1>4 DEF JoinTimeout, terminate, TypeOK, OneJob, NothingLost, NoErrorMeansShown,
              Order, JobOrder, Job
<1>5. CASE Exit \/ Die
  BY <1>5 DEF Exit, Die, TypeOK, OneJob, NothingLost, NoErrorMeansShown, Order, JobOrder, Job
<1>6. CASE UNCHANGED vars
  BY <1>6 DEF vars, TypeOK, OneJob, NothingLost, NoErrorMeansShown, Order, JobOrder, Job
<1>7. CASE Take
  <2>1. /\ requests' = None /\ outcomes' = outcomes /\ rendering = None
        /\ UNCHANGED <<closing, generation, inflight, pending, last_error>>
        /\ UNCHANGED <<frame, revision, asked, base, settled>>
        /\ \/ requests = Stop /\ process' = "exiting" /\ rendering' = None
           \/ requests # Stop /\ process' = process /\ rendering' = requests
    BY <1>7 DEF Take
  <2>2. TypeOK'
    BY <2>1 DEF TypeOK
  <2> QED
    BY <2>1, <2>2, ConstantAssumption, <1>7
    DEF Take, OneJob, NothingLost, NoErrorMeansShown, Order, JobOrder, Job
<1>8. CASE \E ok \in BOOLEAN : Answer(ok)
  <2>1. PICK ok \in BOOLEAN : Answer(ok)
    BY <1>8
  <2>2. PICK o \in Outcome :
          o.generation = rendering.generation /\ o.n = rendering.n /\ outcomes' = o
    BY <2>1 DEF Answer, TypeOK, Envelope, Outcome
  <2>3. /\ rendering # None /\ outcomes = None /\ rendering' = None
        /\ UNCHANGED <<requests, process, closing, generation, inflight, pending, last_error>>
        /\ UNCHANGED <<frame, revision, asked, base, settled>>
    BY <2>1 DEF Answer
  <2>4. TypeOK'
    BY <2>2, <2>3 DEF TypeOK
  <2> QED
    BY <2>2, <2>3, <2>4, ConstantAssumption
    DEF TypeOK, OneJob, NothingLost, NoErrorMeansShown, Order, JobOrder, Job
<1> QED
  BY <1>1, <1>2, <1>3, <1>4, <1>5, <1>6, <1>7, <1>8 DEF Others

(* So does every step, whatever the bounds.                                *)
LEMMA UsedInv == IInv /\ [Used]_vars => IInv'
  BY SubmitInv, InvalidateInv, PollInv, OtherInv DEF Used

LEMMA StepInv == IInv /\ [Next]_vars => IInv'
  BY UsedInv DEF Next, Used, Submit, Invalidate

-----------------------------------------------------------------------------
(* What the worker holds, for whoever uses it: nothing is made up, the     *)
(* numbers are those of submissions, and the store goes forward.           *)

Held == {pending, requests, rendering, outcomes, frame} \ {None, Stop}

\* x has the number and the request of something that is held.
Carried(x) == \E y \in Held : x.n = y.n /\ x.request = y.request

LEMMA HeldTyped ==
  ASSUME IInv, NEW x \in Held
  PROVE  x.n \in 1 .. asked /\ x.request \in Requests
<1> USE DEF IInv, TypeOK, Order, JobOrder, Job
<1>1. CASE x = pending
  BY <1>1 DEF Held, Envelope
<1>2. CASE x = requests
  BY <1>2 DEF Held, Envelope
<1>3. CASE x = rendering
  BY <1>3, ConstantAssumption DEF Held, Envelope
<1>4. CASE x = outcomes
  BY <1>4, ConstantAssumption DEF Held, Outcome
<1>5. CASE x = frame
  BY <1>5 DEF Held, Outcome
<1> QED BY <1>1, <1>2, <1>3, <1>4, <1>5 DEF Held

LEMMA SubmitHolds ==
  ASSUME IInv, NEW r \in Requests, submit(r), NEW x \in Held'
  PROVE  Carried(x) \/ (x.n = asked + 1 /\ x.request = r)
<1>1. x \in Held \/ x = Tag(r)
  BY DEF submit, flush_pending, child, store, Held
<1> QED BY <1>1 DEF Carried, Tag

LEMMA InvalidateHolds ==
  ASSUME invalidate, NEW x \in Held'
  PROVE  Carried(x)
BY DEF invalidate, clear, child, Held, Carried

LEMMA PollHolds ==
  ASSUME poll, NEW x \in Held'
  PROVE  Carried(x)
<1>1. x \in Held
  BY DEF poll, flush_pending, publish, child, store, Held
<1> QED BY <1>1 DEF Carried

LEMMA OthersHold ==
  ASSUME IInv, Others \/ UNCHANGED vars, NEW x \in Held'
  PROVE  Carried(x)
<1> USE DEF parent, child, store
<1>1. CASE \E ok \in BOOLEAN : Answer(ok)
  <2>1. rendering \in Held
    BY <1>1, ConstantAssumption DEF Answer, Held, IInv, TypeOK
  <2>2. x \in Held \/ (x.n = rendering.n /\ x.request = rendering.request)
    BY <1>1 DEF Answer, Held
  <2> QED BY <2>1, <2>2 DEF Carried
<1>2. CASE ~(\E ok \in BOOLEAN : Answer(ok))
  <2>1. x \in Held
    BY <1>2 DEF Others, vars, close, PutStop, PutStopTimeout, Join, JoinTimeout, terminate,
                Take, Exit, Die, Held
  <2> QED BY <2>1 DEF Carried
<1> QED BY <1>1, <1>2

-----------------------------------------------------------------------------
(* The inductive invariant holds throughout, so its parts do: the types,   *)
(* one job at a time, no lost request, no error behind an old picture.     *)
THEOREM Invariance == Spec => []IInv
<1> QED BY InitInv, StepInv, PTL DEF Spec

(* Every variable keeps its type.                                          *)
THEOREM TypeCorrect == Spec => []TypeOK
<1>1. IInv => TypeOK
  BY DEF IInv
<1> QED BY <1>1, Invariance, PTL

(* The flag and the two queues agree: neither put can find a full queue    *)
(* (worker.py:91-117).                                                     *)
THEOREM OneJobAtATime == Spec => []OneJob
<1>1. IInv => OneJob
  BY DEF IInv
<1> QED BY <1>1, Invariance, PTL

(* No submitted request is dropped without an answer to a newer one        *)
(* (worker.py:91-126).                                                     *)
THEOREM NoRequestLost == Spec => []NothingLost
<1>1. IInv => NothingLost
  BY DEF IInv
<1> QED BY <1>1, Invariance, PTL

(* Without a reported error the newest answered request is on display      *)
(* (worker.py:119-126).                                                    *)
THEOREM ShownUnlessError == Spec => []NoErrorMeansShown
<1>1. IInv => NoErrorMeansShown
  BY DEF IInv
<1> QED BY <1>1, Invariance, PTL

(* Every step of the worker is a step of LatestFrame or leaves what it     *)
(* promises unchanged: the generation and the single job make poll publish *)
(* only pictures newer than the reset and than the one on display.         *)
LEMMA UsedImplementsLatest ==
  IInv /\ [Used]_vars => [Latest!Next]_(Latest!vars)
<1> SUFFICES ASSUME IInv, [Used]_vars
             PROVE  [Latest!Next]_(Latest!vars)
  OBVIOUS
<1> DEFINE sh == IF frame = None THEN 0 ELSE frame.n
<1>0. /\ asked' = asked /\ base' = base /\ frame' = frame => UNCHANGED Latest!vars
      /\ Latest!vars = <<asked, base, sh>>
  BY DEF Latest!vars
<1>1. CASE \E r \in Requests : submit(r)
  <2>1. asked' = asked + 1 /\ base' = base /\ frame' = frame
    BY <1>1 DEF submit, store
  <2> QED BY <2>1 DEF Latest!Next, Latest!Ask
<1>2. CASE invalidate
  <2>1. asked' = asked /\ base' = asked /\ frame' = None
    BY <1>2 DEF invalidate, clear
  <2> QED BY <2>1 DEF Latest!Next, Latest!Reset
<1>3. CASE poll
  <2>1. asked' = asked /\ base' = base
    BY <1>3 DEF poll
  <2>2. CASE Current(outcomes) /\ outcomes.ok
    <3>1. frame' = outcomes
      BY <1>3, <2>2 DEF poll, publish
    <3>2. /\ outcomes \in Outcome /\ outcomes # None /\ Job(outcomes) /\ JobOrder(outcomes)
          /\ outcomes.n \in Nat
      BY <2>2, ConstantAssumption DEF Current, IInv, TypeOK, Order, Job, Outcome
    <3>3. /\ outcomes.n \in base + 1 .. asked
          /\ outcomes.n > settled
      BY <2>2, <3>2 DEF Current, JobOrder, IInv, TypeOK
    <3>4. frame # None => frame.n <= settled /\ frame.n \in Nat
      BY DEF IInv, TypeOK, Order
    <3>5. sh < outcomes.n
      BY <3>2, <3>3, <3>4 DEF IInv, TypeOK
    <3> QED
      BY <2>1, <3>1, <3>2, <3>3, <3>5 DEF Latest!Next, Latest!Show
  <2>3. CASE ~(Current(outcomes) /\ outcomes.ok)
    <3>1. frame' = frame
      BY <1>3, <2>3 DEF poll, store
    <3> QED BY <2>1, <3>1, <1>0
  <2> QED BY <2>2, <2>3
<1>4. CASE ~((\E r \in Requests : submit(r)) \/ invalidate \/ poll)
  <2>1. asked' = asked /\ base' = base /\ frame' = frame
    BY <1>4 DEF Used, Others, vars, hist, store, close, PutStop, PutStopTimeout, Join, JoinTimeout,
                Take, Answer, Exit, Die
  <2> QED BY <2>1, <1>0
<1> QED BY <1>1, <1>2, <1>3, <1>4

LEMMA StepImplementsLatest ==
  IInv /\ [Next]_vars => [Latest!Next]_(Latest!vars)
BY UsedImplementsLatest DEF Next, Used, Submit, Invalidate

(* The worker implements the abstract renderer: whatever the delays of the *)
(* child and the resets, what is on display answers a request made since   *)
(* the last reset, and never an older one than before.                     *)
THEOREM Refinement == Spec => ImplementsLatest
<1>1. Init => Latest!Init
  BY DEF Init, Latest!Init
<1> QED
  BY <1>1, StepImplementsLatest, Invariance, PTL DEF Spec, ImplementsLatest, Latest!Spec
=============================================================================
