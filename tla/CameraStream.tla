---------------------------- MODULE CameraStream ----------------------------
(***************************************************************************)
(* The WebSocket endpoint of synthetic_camera/stream.py: a gate that       *)
(* admits a fixed number of clients, and one coroutine per client that     *)
(* sends its descriptor and then, at the cadence of the profile, whatever  *)
(* picture the store holds.  A second task waits for the client's end.     *)
(*                                                                         *)
(* A picture is the number of the source it came from; the store's writers *)
(* (CameraPipeline) publish pictures of the present source and empty the   *)
(* store when it is lost.  Time is in units that divide the interval 1/fps;*)
(* a session keeps its next deadline relative to the present.              *)
(***************************************************************************)
EXTENDS Integers, FiniteSets

CONSTANTS
  Clients,
  Limit,         \* _MAX_CAMERA_CLIENTS
  Interval,      \* 1 / fps
  SendTimeout,   \* the 1 s that a send may take
  Dimensions,    \* whether status reports integer dimensions: a set of BOOLEANs
  MaxSources     \* bound: sources that follow each other

ASSUME CameraStreamAssumption ==
  /\ IsFiniteSet(Clients)
  /\ Limit \in Nat \ {0} /\ Interval \in Nat \ {0} /\ SendTimeout \in Nat \ {0}
  /\ Dimensions \subseteq BOOLEAN
  /\ MaxSources \in Nat

VARIABLES
  active,    \* _ConnectionGate._active
  pc,        \* per client, where its camera_stream coroutine waits
  end,       \* per client, what its client_end task has or will receive
  sent,      \* per client, sent_frame
  lead,      \* per client, next_send_at - now
  age,       \* per client, how long the present send has taken
  sending,   \* per client, the snapshot being sent
  burst,     \* history: per client, frames sent without time passing
  source,    \* the present source
  picture    \* LatestJpegStore._frame: the source it shows, 0 if none

session == <<pc, sent, lead, age, sending, burst>>
vars    == <<active, session, end, source, picture>>

Init ==
  /\ active = 0
  /\ pc = [c \in Clients |-> "out"]
  /\ end = [c \in Clients |-> "none"]
  /\ sent = [c \in Clients |-> FALSE]
  /\ lead = [c \in Clients |-> 0]
  /\ age = [c \in Clients |-> 0]
  /\ sending = [c \in Clients |-> 0]
  /\ burst = [c \in Clients |-> 0]
  /\ source = 1
  /\ picture = 0

goto(c, place) == pc' = [pc EXCEPT ![c] = place]

Inside == {"describing", "sending", "waiting", "closing"}

-----------------------------------------------------------------------------
(* The gate.                                                               *)

has_room == active < Limit

\* Mutant: only a client that was served gives its place back.
release_if_served(c) == active' = IF sent[c] THEN active - 1 ELSE active

release(c) == active' = active - 1

\* accept, then acquire: no other coroutine runs between its test and its count.
Connect(c) ==
  /\ pc[c] = "out" /\ end[c] = "none"
  /\ IF has_room THEN goto(c, "describing") /\ active' = active + 1
                 ELSE goto(c, "refused") /\ UNCHANGED active
  /\ sent' = [sent EXCEPT ![c] = FALSE]
  /\ UNCHANGED <<end, lead, age, sending, burst, source, picture>>

\* The finally clauses: the client_end task is cancelled, the place given back.
\* The client's end of this connection is forgotten with it.
Leave(c) ==
  /\ goto(c, "out")
  /\ release(c)
  /\ end' = [end EXCEPT ![c] = "none"]
  /\ sent' = [sent EXCEPT ![c] = FALSE]
  /\ lead' = [lead EXCEPT ![c] = 0]
  /\ age' = [age EXCEPT ![c] = 0]
  /\ sending' = [sending EXCEPT ![c] = 0]
  /\ burst' = [burst EXCEPT ![c] = 0]
  /\ UNCHANGED <<source, picture>>

\* close(1013) of a client that was not admitted.
Refused(c) ==
  /\ pc[c] = "refused"
  /\ goto(c, "out")
  /\ end' = [end EXCEPT ![c] = "none"]
  /\ UNCHANGED <<active, sent, lead, age, sending, burst, source, picture>>

-----------------------------------------------------------------------------
(* The session.  A step runs from one await to the next.                   *)

\* Mutant: an empty store is waited for, whatever was sent before.
SourceLost_never(c) == FALSE

SourceLost(c) == picture = 0 /\ sent[c]

\* Mutant: every missed deadline is made up for.
next_lead_backlog(c) == lead[c] + Interval

\* next_send_at += interval, then from now on if it lies too far back.
next_lead(c) == IF lead[c] + Interval < -Interval THEN 0 ELSE lead[c] + Interval

\* store.get, then a send, a close(1012), or nothing to send yet.
Sample(c) ==
  IF picture # 0 THEN
    /\ goto(c, "sending")
    /\ sending' = [sending EXCEPT ![c] = picture]
    /\ UNCHANGED <<sent, lead, age, burst>>
  ELSE IF SourceLost(c) THEN
    goto(c, "closing") /\ UNCHANGED <<sent, lead, age, sending, burst>>
  ELSE
    /\ goto(c, "waiting")
    /\ lead' = [lead EXCEPT ![c] = next_lead(c)]
    /\ UNCHANGED <<sent, age, sending, burst>>

\* send_text of the descriptor, then the loop's first sample; or the status has
\* no dimensions: close(1011); or the send raises.
Describe(c) ==
  /\ pc[c] = "describing"
  /\ \E known \in Dimensions :
       IF known THEN Sample(c)
                ELSE goto(c, "closing") /\ UNCHANGED <<sent, lead, age, sending, burst>>
  /\ UNCHANGED <<active, end, source, picture>>

DescribeFails(c) == pc[c] = "describing" /\ Leave(c)

Sent(c) ==
  /\ pc[c] = "sending"
  /\ goto(c, "waiting")
  /\ sent' = [sent EXCEPT ![c] = TRUE]
  /\ lead' = [lead EXCEPT ![c] = next_lead(c)]
  /\ age' = [age EXCEPT ![c] = 0]
  /\ burst' = [burst EXCEPT ![c] = @ + 1]
  /\ UNCHANGED <<active, end, sending, source, picture>>

\* asyncio.timeout(1.0), or the send finds the client gone.
SendFails(c) == age[c] >= SendTimeout \/ end[c] = "left"

SendGivenUp(c) ==
  /\ pc[c] = "sending" /\ SendFails(c)
  /\ goto(c, "closing")
  /\ UNCHANGED <<active, sent, lead, age, sending, burst, end, source, picture>>

\* asyncio.wait returns at the deadline without the client's end, and the loop
\* goes round; next_send_at moves with the samples that find nothing.
WaitOver(c) ==
  /\ pc[c] = "waiting" /\ end[c] = "none" /\ lead[c] <= 0
  /\ Sample(c)
  /\ UNCHANGED <<active, end, source, picture>>

\* The client has left: return; it has sent something: close(1003).
WaitEnded(c) ==
  /\ pc[c] = "waiting"
  /\ \/ end[c] = "left" /\ Leave(c)
     \/ /\ end[c] = "talked" /\ goto(c, "closing")
        /\ UNCHANGED <<active, sent, lead, age, sending, burst, end, source, picture>>

\* close has ended, with or without an error.
Closed(c) == pc[c] = "closing" /\ Leave(c)

\* The server cancels the coroutine at any of its awaits.
Cancelled(c) == pc[c] \in Inside /\ Leave(c)

Session(c) ==
  \/ Refused(c) \/ Describe(c) \/ Sent(c) \/ SendGivenUp(c)
  \/ WaitOver(c) \/ WaitEnded(c) \/ Closed(c)

-----------------------------------------------------------------------------
(* The clients, the store's writers and time.                              *)

ClientEnds(c) ==
  /\ pc[c] # "out" /\ end[c] = "none"
  /\ \E what \in {"left", "talked"} : end' = [end EXCEPT ![c] = what]
  /\ UNCHANGED <<active, session, source, picture>>

Publish == picture # source /\ picture' = source /\ UNCHANGED <<active, session, end, source>>

\* The source's disconnect, a new run, or a failed render.
LoseSource ==
  /\ source < MaxSources
  /\ source' = source + 1 /\ picture' = 0
  /\ UNCHANGED <<active, session, end>>

\* A deadline two intervals back is given up anyway, a send past its timeout too.
Tick ==
  /\ lead' = [c \in Clients |->
                IF pc[c] \in {"sending", "waiting"} /\ lead[c] >= -(SendTimeout + Interval)
                  THEN lead[c] - 1 ELSE lead[c]]
  /\ age' = [c \in Clients |->
               IF pc[c] = "sending" /\ age[c] < SendTimeout THEN age[c] + 1 ELSE age[c]]
  /\ burst' = [c \in Clients |-> 0]
  /\ UNCHANGED <<active, pc, end, sent, sending, source, picture>>

Next ==
  \/ \E c \in Clients : \/ Connect(c) \/ Session(c) \/ DescribeFails(c) \/ Cancelled(c)
                        \/ ClientEnds(c)
  \/ Publish \/ LoseSource \/ Tick

Spec == Init /\ [][Next]_vars

(* Time passes and the event loop runs every coroutine that can go on; the *)
(* descriptor fits in the socket's buffer, and uvicorn ends a close.  No   *)
(* client is assumed to read.                                              *)
Fairness ==
  /\ WF_vars(Tick)
  /\ \A c \in Clients :
       /\ WF_vars(Describe(c)) /\ WF_vars(Refused(c)) /\ WF_vars(Closed(c))
       /\ WF_vars(SendGivenUp(c)) /\ WF_vars(WaitOver(c)) /\ WF_vars(WaitEnded(c))

FairSpec == Spec /\ Fairness

-----------------------------------------------------------------------------
(* Properties.                                                             *)

TypeOK ==
  /\ active \in 0 .. Limit
  /\ pc \in [Clients -> Inside \cup {"out", "refused"}]
  /\ end \in [Clients -> {"none", "left", "talked"}]
  /\ sent \in [Clients -> BOOLEAN]
  /\ lead \in [Clients -> Int]
  /\ age \in [Clients -> 0 .. SendTimeout]
  /\ sending \in [Clients -> Nat]
  /\ burst \in [Clients -> Nat]
  /\ source \in Nat /\ picture \in {0, source}

Served == { c \in Clients : pc[c] \in Inside }

(* The gate counts exactly the clients that are served, on every way out   *)
(* of the coroutine: no place is leaked and none is given back twice       *)
(* (stream.py:28-37, 77-87, 140-144).                                      *)
PlacesCounted == active = Cardinality(Served)

(* A client that could not take its frames for a while is not sent all     *)
(* that it missed: a deadline lying back is caught up with at most twice   *)
(* after the frame that was late (stream.py:119-126).                      *)
NoBacklog == \A c \in Clients : burst[c] <= 3

(* When the source is gone and stays away, a session that has shown it     *)
(* ends, also while its client takes no data (stream.py:108-118).          *)
SessionEndsWithSource ==
  \A c \in Clients :
    (sent[c] /\ picture = 0) ~> (pc[c] = "out" \/ picture # 0)

(* A client that leaves or breaks the send-only contract loses its place,  *)
(* whether it is waited for, being sent to or not reading (stream.py:40-47,*)
(* 110-111, 123-144).                                                      *)
EndedClientLeaves == \A c \in Clients : end[c] # "none" ~> end[c] = "none"

(* Sessions end: the two parts above.                                      *)
SessionsEnd == SessionEndsWithSource /\ EndedClientLeaves
=============================================================================
