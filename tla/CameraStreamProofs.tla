------------------------- MODULE CameraStreamProofs -------------------------
(***************************************************************************)
(* For any finite set of clients and any limit, interval and timeout: the  *)
(* gate of the camera stream counts exactly the clients that are served.   *)
(* The actions fall into three groups by what they do to that set: Connect *)
(* may add a client, Leave removes one, all others keep it.                *)
(***************************************************************************)
EXTENDS CameraStream, FiniteSetTheorems, TLAPS

SInv == TypeOK /\ PlacesCounted

LEMMA ConstantsTyped ==
  /\ IsFiniteSet(Clients) /\ Limit \in Nat \ {0} /\ Interval \in Nat \ {0}
  /\ SendTimeout \in Nat \ {0} /\ MaxSources \in Nat
BY CameraStreamAssumption

LEMMA ServedFinite == IsFiniteSet(Served) /\ Cardinality(Served) \in Nat
<1>1. Served \subseteq Clients
  BY DEF Served
<1> QED BY <1>1, ConstantsTyped, FS_Subset, FS_CardinalityType

LEMMA InitSInv == Init => SInv
<1> SUFFICES ASSUME Init PROVE SInv
  OBVIOUS
<1>1. sent \in [Clients -> BOOLEAN]
  BY Zenon DEF Init
<1>2. TypeOK
  BY <1>1, ConstantsTyped DEF Init, TypeOK
<1>3. Served = {}
  BY DEF Init, Served, Inside
<1>4. active = 0 /\ Cardinality({}) = 0
  BY FS_EmptySet DEF Init
<1> QED BY <1>2, <1>3, <1>4 DEF SInv, PlacesCounted

\* A client moves to another place of its session, or of the way in and out.
LEMMA MoveKeeps ==
  ASSUME SInv, NEW c \in Clients, NEW place \in Inside \cup {"out", "refused"},
         goto(c, place), place \in Inside <=> pc[c] \in Inside, UNCHANGED active
  PROVE  pc' \in [Clients -> Inside \cup {"out", "refused"}] /\ PlacesCounted'
<1>1. pc' = [pc EXCEPT ![c] = place] /\ pc \in [Clients -> Inside \cup {"out", "refused"}]
  BY DEF goto, SInv, TypeOK
<1>2. Served' = Served
  BY <1>1 DEF Served
<1> QED BY <1>1, <1>2 DEF SInv, PlacesCounted

\* A client is let in, or turned away.
LEMMA ConnectKeeps ==
  ASSUME SInv, NEW c \in Clients, Connect(c)
  PROVE  SInv'
<1>1. /\ pc[c] = "out" /\ sent' = [sent EXCEPT ![c] = FALSE]
      /\ UNCHANGED <<end, lead, age, sending, burst, source, picture>>
  BY DEF Connect
<1>2. sent' \in [Clients -> BOOLEAN]
  BY <1>1, Zenon DEF SInv, TypeOK
<1>3. CASE has_room
  <2>1. pc' = [pc EXCEPT ![c] = "describing"] /\ active' = active + 1
    BY <1>3 DEF Connect, goto
  <2>2. c \notin Served /\ Served' = Served \cup {c}
    BY <1>1, <2>1 DEF Served, Inside, SInv, TypeOK
  <2>3. Cardinality(Served') = Cardinality(Served) + 1
    BY <2>2, ServedFinite, FS_AddElement
  <2>4. active' \in 0 .. Limit
    BY <1>3, <2>1, ConstantsTyped DEF has_room, SInv, TypeOK
  <2>5. pc' \in [Clients -> Inside \cup {"out", "refused"}]
    BY <2>1 DEF SInv, TypeOK, Inside
  <2> QED BY <1>1, <1>2, <2>1, <2>3, <2>4, <2>5 DEF SInv, TypeOK, PlacesCounted
<1>4. CASE ~has_room
  <2>1. goto(c, "refused") /\ UNCHANGED active
    BY <1>4 DEF Connect
  <2>2. pc' \in [Clients -> Inside \cup {"out", "refused"}] /\ PlacesCounted'
    BY <1>1, <2>1, MoveKeeps DEF Inside
  <2> QED BY <1>1, <1>2, <2>1, <2>2 DEF SInv, TypeOK
<1> QED BY <1>3, <1>4

\* A client that was let in leaves.
LEMMA LeaveKeeps ==
  ASSUME SInv, NEW c \in Clients, pc[c] \in Inside, Leave(c)
  PROVE  SInv'
<1>1. /\ pc' = [pc EXCEPT ![c] = "out"] /\ active' = active - 1
      /\ end' = [end EXCEPT ![c] = "none"] /\ sent' = [sent EXCEPT ![c] = FALSE]
      /\ lead' = [lead EXCEPT ![c] = 0] /\ age' = [age EXCEPT ![c] = 0]
      /\ sending' = [sending EXCEPT ![c] = 0] /\ burst' = [burst EXCEPT ![c] = 0]
      /\ UNCHANGED <<source, picture>>
  BY DEF Leave, goto, release
<1>2. c \in Served /\ Served' = Served \ {c}
  BY <1>1 DEF Served, Inside, SInv, TypeOK
<1>3. Cardinality(Served') = Cardinality(Served) - 1 /\ IsFiniteSet(Served')
  BY <1>2, ServedFinite, FS_RemoveElement
<1>4. Cardinality(Served') \in Nat
  BY <1>3, FS_CardinalityType
<1>5. active' = Cardinality(Served') /\ active' \in 0 .. Limit
  BY <1>1, <1>3, <1>4, ConstantsTyped DEF SInv, TypeOK, PlacesCounted
<1>6. sent' \in [Clients -> BOOLEAN]
  BY <1>1, Zenon DEF SInv, TypeOK
<1>7. pc' \in [Clients -> Inside \cup {"out", "refused"}]
  BY <1>1 DEF SInv, TypeOK
<1>8. age' \in [Clients -> 0 .. SendTimeout]
  BY <1>1, ConstantsTyped DEF SInv, TypeOK
<1> QED BY <1>1, <1>5, <1>6, <1>7, <1>8 DEF SInv, TypeOK, PlacesCounted

\* The store is sampled.
LEMMA SampleKeeps ==
  ASSUME SInv, NEW c \in Clients, pc[c] \in Inside, Sample(c),
         UNCHANGED <<active, end, source, picture>>
  PROVE  SInv'
<1>1. /\ lead' \in [Clients -> Int] /\ sending' \in [Clients -> Nat]
      /\ UNCHANGED <<sent, age, burst>>
  <2>1. next_lead(c) \in Int
    BY ConstantsTyped DEF next_lead, SInv, TypeOK
  <2>2. picture \in Nat
    BY DEF SInv, TypeOK
  <2> QED BY <2>1, <2>2 DEF Sample, SInv, TypeOK
<1>2. goto(c, "sending") \/ goto(c, "closing") \/ goto(c, "waiting")
  BY DEF Sample
<1>3. pc' \in [Clients -> Inside \cup {"out", "refused"}] /\ PlacesCounted'
  BY <1>2, MoveKeeps DEF Inside
<1> QED BY <1>1, <1>3 DEF SInv, TypeOK

LEMMA NextSInv == SInv /\ [Next]_vars => SInv'
<1> SUFFICES ASSUME SInv, [Next]_vars PROVE SInv'
  OBVIOUS
<1>1. ASSUME NEW c \in Clients, Refused(c) PROVE SInv'
  <2>1. pc' \in [Clients -> Inside \cup {"out", "refused"}] /\ PlacesCounted'
    BY <1>1, MoveKeeps DEF Refused, Inside
  <2> QED BY <1>1, <2>1 DEF Refused, SInv, TypeOK
<1>2. ASSUME NEW c \in Clients, Describe(c) PROVE SInv'
  <2>1. pc[c] = "describing" /\ UNCHANGED <<active, end, source, picture>>
    BY <1>2 DEF Describe
  <2>2. CASE Sample(c)
    BY <2>1, <2>2, SampleKeeps DEF Inside
  <2>3. CASE goto(c, "closing") /\ UNCHANGED <<sent, lead, age, sending, burst>>
    <3>1. pc' \in [Clients -> Inside \cup {"out", "refused"}] /\ PlacesCounted'
      BY <2>1, <2>3, MoveKeeps DEF Inside
    <3> QED BY <2>1, <2>3, <3>1 DEF SInv, TypeOK
  <2> QED BY <1>2, <2>2, <2>3 DEF Describe
<1>3. ASSUME NEW c \in Clients, Sent(c) PROVE SInv'
  <2>1. /\ goto(c, "waiting") /\ pc[c] = "sending"
        /\ sent' = [sent EXCEPT ![c] = TRUE] /\ lead' = [lead EXCEPT ![c] = next_lead(c)]
        /\ age' = [age EXCEPT ![c] = 0] /\ burst' = [burst EXCEPT ![c] = @ + 1]
        /\ UNCHANGED <<active, end, sending, source, picture>>
    BY <1>3 DEF Sent
  <2>2. pc' \in [Clients -> Inside \cup {"out", "refused"}] /\ PlacesCounted'
    BY <2>1, MoveKeeps DEF Inside
  <2>3. sent' \in [Clients -> BOOLEAN]
    BY <2>1, Zenon DEF SInv, TypeOK
  <2>4. lead' \in [Clients -> Int]
    BY <2>1, ConstantsTyped DEF next_lead, SInv, TypeOK
  <2>5. age' \in [Clients -> 0 .. SendTimeout] /\ burst' \in [Clients -> Nat]
    BY <2>1, ConstantsTyped DEF SInv, TypeOK
  <2> QED BY <2>1, <2>2, <2>3, <2>4, <2>5 DEF SInv, TypeOK
<1>4. ASSUME NEW c \in Clients, SendGivenUp(c) PROVE SInv'
  <2>1. pc' \in [Clients -> Inside \cup {"out", "refused"}] /\ PlacesCounted'
    BY <1>4, MoveKeeps DEF SendGivenUp, Inside
  <2> QED BY <1>4, <2>1 DEF SendGivenUp, SInv, TypeOK
<1>5. ASSUME NEW c \in Clients, WaitOver(c) PROVE SInv'
  BY <1>5, SampleKeeps DEF WaitOver, Inside
<1>6. ASSUME NEW c \in Clients, WaitEnded(c) PROVE SInv'
  <2>1. CASE Leave(c)
    BY <1>6, <2>1, LeaveKeeps DEF WaitEnded, Inside
  <2>2. CASE /\ goto(c, "closing")
             /\ UNCHANGED <<active, sent, lead, age, sending, burst, end, source, picture>>
    <3>1. pc' \in [Clients -> Inside \cup {"out", "refused"}] /\ PlacesCounted'
      BY <1>6, <2>2, MoveKeeps DEF WaitEnded, Inside
    <3> QED BY <2>2, <3>1 DEF SInv, TypeOK
  <2> QED BY <1>6, <2>1, <2>2 DEF WaitEnded
<1>7. ASSUME NEW c \in Clients, Closed(c) \/ DescribeFails(c) \/ Cancelled(c) PROVE SInv'
  BY <1>7, LeaveKeeps DEF Closed, DescribeFails, Cancelled, Inside
<1>8. ASSUME NEW c \in Clients, ClientEnds(c) PROVE SInv'
  <2>1. Served' = Served
    BY <1>8 DEF ClientEnds, session, Served
  <2> QED BY <1>8, <2>1 DEF ClientEnds, session, SInv, TypeOK, PlacesCounted
<1>9. CASE Publish \/ LoseSource
  <2>1. Served' = Served
    BY <1>9 DEF Publish, LoseSource, session, Served
  <2> QED BY <1>9, <2>1 DEF Publish, LoseSource, session, SInv, TypeOK, PlacesCounted
<1>10. CASE Tick
  <2>1. UNCHANGED <<active, pc, end, sent, sending, source, picture>>
    BY <1>10 DEF Tick
  <2>2. lead' \in [Clients -> Int]
    BY <1>10, ConstantsTyped DEF Tick, SInv, TypeOK
  <2>3. age' \in [Clients -> 0 .. SendTimeout] /\ burst' \in [Clients -> Nat]
    BY <1>10, ConstantsTyped DEF Tick, SInv, TypeOK
  <2>4. Served' = Served
    BY <2>1 DEF Served
  <2> QED BY <2>1, <2>2, <2>3, <2>4 DEF SInv, TypeOK, PlacesCounted
<1>11. CASE UNCHANGED vars
  <2>1. Served' = Served
    BY <1>11 DEF vars, session, Served
  <2> QED BY <1>11, <2>1 DEF vars, session, SInv, TypeOK, PlacesCounted
<1>12. ASSUME NEW c \in Clients, Connect(c) PROVE SInv'
  BY <1>12, ConnectKeeps
<1> QED BY <1>1, <1>2, <1>3, <1>4, <1>5, <1>6, <1>7, <1>8, <1>9, <1>10, <1>11, <1>12
        DEF Next, Session

-----------------------------------------------------------------------------

(* The stream never serves more clients than its limit (stream.py:22-37).  *)
THEOREM TypeCorrect == Spec => []TypeOK
<1>1. SInv => TypeOK
  BY DEF SInv
<1> QED BY <1>1, InitSInv, NextSInv, PTL DEF Spec

(* On every way out of the coroutine a place is given back exactly once    *)
(* (stream.py:28-37, 77-87, 140-144).                                      *)
THEOREM EveryPlaceCounted == Spec => []PlacesCounted
<1>1. SInv => PlacesCounted
  BY DEF SInv
<1> QED BY <1>1, InitSInv, NextSInv, PTL DEF Spec
-----------------------------------------------------------------------------
(* The pace of one client.  Each frame sent without time passing moves the *)
(* deadline forward by an interval, from at most one interval back: after  *)
(* the third it lies ahead, and the client is waited for.                  *)

Pace(c) ==
  /\ burst[c] \in 0 .. 3
  /\ burst[c] = 1 => lead[c] >= -Interval
  /\ burst[c] = 2 => lead[c] >= 0
  /\ burst[c] = 3 => lead[c] > 0 /\ pc[c] # "sending"
  /\ pc[c] \in {"out", "refused", "describing"} => burst[c] = 0

\* A deadline only moves forward, to at most one interval back.
LEMMA NextLead ==
  ASSUME SInv, NEW c \in Clients
  PROVE  /\ next_lead(c) \in Int /\ next_lead(c) >= -Interval
         /\ next_lead(c) > lead[c]
         /\ lead[c] >= -Interval => next_lead(c) >= 0
         /\ lead[c] >= 0 => next_lead(c) > 0
BY ConstantsTyped DEF next_lead, SInv, TypeOK

\* What a session that samples the store does to its pace.
LEMMA SamplePace ==
  ASSUME SInv, NEW c \in Clients, Pace(c), Sample(c),
         pc[c] \in {"describing", "waiting"}, burst[c] # 3
  PROVE  Pace(c)'
<1>1. pc \in [Clients -> Inside \cup {"out", "refused"}] /\ lead \in [Clients -> Int]
  BY DEF SInv, TypeOK
<1>2. /\ pc'[c] \in {"sending", "closing", "waiting"} /\ burst' = burst
      /\ lead'[c] \in {lead[c], next_lead(c)}
  BY <1>1 DEF Sample, goto
<1>3. /\ lead[c] \in Int /\ next_lead(c) \in Int
      /\ next_lead(c) >= -Interval /\ next_lead(c) > lead[c]
  BY <1>1, NextLead
<1>4. Interval \in Nat
  BY ConstantsTyped
<1> QED BY <1>2, <1>3, <1>4 DEF Pace

\* A step of another client, or of none, leaves the pace of this one alone.
LEMMA OtherPace ==
  ASSUME NEW c \in Clients, Pace(c),
         pc'[c] = pc[c], lead'[c] = lead[c], burst'[c] = burst[c]
  PROVE  Pace(c)'
BY DEF Pace

LEMMA NextPace ==
  ASSUME SInv, NEW c \in Clients, Pace(c), [Next]_vars
  PROVE  Pace(c)'
<1>1. /\ pc \in [Clients -> Inside \cup {"out", "refused"}]
      /\ lead \in [Clients -> Int] /\ burst \in [Clients -> Nat]
  BY DEF SInv, TypeOK
<1>2. ASSUME NEW d \in Clients, d # c, Connect(d) \/ Session(d) \/ DescribeFails(d) \/ Cancelled(d)
      PROVE  Pace(c)'
  <2>1. pc'[c] = pc[c] /\ lead'[c] = lead[c] /\ burst'[c] = burst[c]
    <3>1. CASE Connect(d)
      BY <1>1, <1>2, <3>1 DEF Connect, goto
    <3>2. CASE Leave(d)
      BY <1>1, <1>2, <3>2 DEF Leave, goto
    <3>3. CASE Sample(d)
      BY <1>1, <1>2, <3>3 DEF Sample, goto
    <3>4. CASE Refused(d)
      BY <1>1, <1>2, <3>4 DEF Refused, goto
    <3>5. CASE Describe(d)
      BY <1>1, <1>2, <3>3, <3>5 DEF Describe, goto
    <3>6. CASE Sent(d)
      BY <1>1, <1>2, <3>6 DEF Sent, goto
    <3>7. CASE SendGivenUp(d)
      BY <1>1, <1>2, <3>7 DEF SendGivenUp, goto
    <3>8. CASE WaitOver(d)
      BY <3>3, <3>8 DEF WaitOver
    <3>9. CASE WaitEnded(d)
      BY <1>1, <1>2, <3>2, <3>9 DEF WaitEnded, goto
    <3>10. CASE Closed(d) \/ DescribeFails(d) \/ Cancelled(d)
      BY <3>2, <3>10 DEF Closed, DescribeFails, Cancelled
    <3> QED BY <1>2, <3>1, <3>4, <3>5, <3>6, <3>7, <3>8, <3>9, <3>10 DEF Session
  <2> QED BY <2>1, OtherPace
<1>3. CASE Connect(c)
  <2>1. pc[c] = "out" /\ burst' = burst /\ lead' = lead /\ pc'[c] \in {"describing", "refused"}
    BY <1>1, <1>3 DEF Connect, goto
  <2> QED BY <2>1 DEF Pace
<1>4. CASE Leave(c)
  BY <1>1, <1>4 DEF Leave, goto, Pace
<1>5. CASE Refused(c)
  BY <1>1, <1>5 DEF Refused, goto, Pace
<1>6. CASE Describe(c)
  <2>1. pc[c] = "describing" /\ burst[c] = 0
    BY <1>6 DEF Describe, Pace
  <2>2. CASE Sample(c)
    BY <2>1, <2>2, SamplePace
  <2>3. CASE goto(c, "closing") /\ UNCHANGED <<sent, lead, age, sending, burst>>
    BY <1>1, <2>1, <2>3 DEF goto, Pace
  <2> QED BY <1>6, <2>2, <2>3 DEF Describe
<1>7. CASE Sent(c)
  <2>1. /\ pc[c] = "sending" /\ pc'[c] = "waiting"
        /\ lead'[c] = next_lead(c) /\ burst'[c] = burst[c] + 1
    BY <1>1, <1>7 DEF Sent, goto
  <2>2. burst[c] \in 0 .. 2 /\ lead[c] \in Int
    BY <1>1, <2>1 DEF Pace
  <2>3. /\ next_lead(c) \in Int /\ next_lead(c) >= -Interval
        /\ lead[c] >= -Interval => next_lead(c) >= 0
        /\ lead[c] >= 0 => next_lead(c) > 0
    BY NextLead
  <2> QED BY <2>1, <2>2, <2>3, ConstantsTyped DEF Pace
<1>8. CASE SendGivenUp(c)
  BY <1>1, <1>8 DEF SendGivenUp, goto, Pace
<1>9. CASE WaitOver(c)
  <2>1. burst[c] # 3
    BY <1>1, <1>9 DEF WaitOver, Pace
  <2> QED BY <1>9, <2>1, SamplePace DEF WaitOver
<1>10. CASE WaitEnded(c)
  BY <1>1, <1>4, <1>10 DEF WaitEnded, goto, Pace
<1>11. CASE Closed(c) \/ DescribeFails(c) \/ Cancelled(c)
  BY <1>4, <1>11 DEF Closed, DescribeFails, Cancelled
<1>12. CASE (\E d \in Clients : ClientEnds(d)) \/ Publish \/ LoseSource \/ UNCHANGED vars
  BY <1>12, OtherPace DEF ClientEnds, Publish, LoseSource, vars, session
<1>13. CASE Tick
  BY <1>13 DEF Tick, Pace
<1> QED BY <1>2, <1>3, <1>5, <1>6, <1>7, <1>8, <1>9, <1>10, <1>11, <1>12, <1>13
        DEF Next, Session

(* However late a client takes its frames, at most three of them are sent  *)
(* to it at one instant (stream.py:119-126).                               *)
THEOREM NeverBacklogs == Spec => []NoBacklog
<1> DEFINE Paced == \A c \in Clients : Pace(c)
<1>1. Init => Paced
  BY DEF Init, Pace
<1>2. SInv /\ Paced /\ [Next]_vars => Paced'
  BY NextPace
<1>3. Paced => NoBacklog
  BY DEF Pace, NoBacklog
<1> QED BY <1>1, <1>2, <1>3, InitSInv, NextSInv, PTL DEF Spec

=============================================================================
