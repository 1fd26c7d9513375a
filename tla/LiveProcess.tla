---------------------------- MODULE LiveProcess ----------------------------
(***************************************************************************)
(* run_live (live.py): start the render workers and the TCP server, serve  *)
(* until told to stop or until the poll loop finds a child gone, then      *)
(* close everything in a fixed order.  run_live, the poll loop and the     *)
(* producer's coroutine interleave at their awaits; children end whenever  *)
(* they like.                                                              *)
(*                                                                         *)
(* Two libraries are modelled from their use.  asyncio: wait_closed        *)
(* returns when the server has no connection left.  uvicorn: serve returns *)
(* some time after should_exit is set (by the poll loop or by a signal),   *)
(* or raises when it cannot listen.  asyncio.run cancels run_live on       *)
(* SIGINT, which is felt at an await.  A close of a worker ends its child  *)
(* (RenderWorker, CloseReturns).                                           *)
(***************************************************************************)


VARIABLES
  camera,       \* config.synthetic_camera is not None
  at,           \* the call run_live is in
  process,      \* the child of each worker: "none", "alive" or "ended"
  open,         \* workers started and not yet closed
  listening,    \* tcp_server accepts connections
  producer,     \* the connection being served: "none", "header" or "stream"
  should_exit,  \* uvicorn_server.should_exit
  polling,      \* poll_task is not done
  poll_error,   \* poll_error is not None
  raised,       \* run_live is leaving, or has left, by an exception
  broke,        \* history: the call that ended run_live outside its handlers, or "none"
  stopped,      \* history: a signal asked for the end
  misused       \* history: the browser worker was used after its close

vars == <<camera, at, process, open, listening, producer, should_exit, polling,
          poll_error, raised, broke, stopped, misused>>

Workers == {"browser", "camera"}
Place == {"start_worker", "make_camera", "start_camera", "make_receiver", "listen", "accept",
          "assemble", "serve", "wait_closed", "wait_again", "poll_task", "drain",
          "close_worker", "close_camera", "returned"}

TypeOK ==
  /\ camera \in BOOLEAN
  /\ at \in Place
  /\ process \in [Workers -> {"none", "alive", "ended"}]
  /\ open \subseteq { w \in Workers : process[w] # "none" }
  /\ listening \in BOOLEAN
  /\ producer \in {"none", "header", "stream"}
  /\ should_exit \in BOOLEAN
  /\ polling \in BOOLEAN
  /\ poll_error \in BOOLEAN
  /\ raised \in BOOLEAN
  /\ broke \in Place \cup {"none"}
  /\ stopped \in BOOLEAN
  /\ misused \in BOOLEAN

Init ==
  /\ camera \in BOOLEAN
  /\ at = "start_worker"
  /\ process = [w \in Workers |-> "none"] /\ open = {}
  /\ listening = FALSE /\ producer = "none"
  /\ should_exit = FALSE /\ polling = FALSE /\ poll_error = FALSE
  /\ raised = FALSE /\ broke = "none" /\ stopped = FALSE /\ misused = FALSE

start(w) == process' = [process EXCEPT ![w] = "alive"] /\ open' = open \cup {w}

\* Mutant: only the last worker started is closed.
close_all_last_only == {"camera"}

close_all == Workers

close(ws) ==
  /\ process' = [w \in Workers |-> IF w \in ws \cap open THEN "ended" ELSE process[w]]
  /\ open' = open \ ws

\* submit, invalidate or poll on the browser worker.  A closed camera pipeline
\* ignores the call.
UseWorkers == misused' = (misused \/ "browser" \notin open)

-----------------------------------------------------------------------------
(* Starting.  Every call may raise.  Only the start of the camera and that *)
(* of the server stand in a try statement that closes what was started.    *)

Return == at' = "returned" /\ raised' = TRUE

\* An exception that no handler of run_live takes.
Break == Return /\ broke' = at /\ UNCHANGED <<process, open, polling>>

StartWorker ==
  /\ at = "start_worker"
  /\ \/ start("browser") /\ UNCHANGED raised
        /\ at' = IF camera THEN "make_camera" ELSE "make_receiver"
     \/ Return /\ UNCHANGED <<process, open>>
  /\ UNCHANGED <<camera, listening, producer, should_exit, polling, poll_error,
                 broke, stopped, misused>>

\* SyntheticCameraPipeline(config.synthetic_camera)
MakeCamera ==
  /\ at = "make_camera"
  /\ \/ at' = "start_camera" /\ UNCHANGED <<process, open, polling, raised, broke>>
     \/ Break
  /\ UNCHANGED <<camera, listening, producer, should_exit, poll_error, stopped, misused>>

StartCamera ==
  /\ at = "start_camera"
  /\ \/ start("camera") /\ at' = "make_receiver" /\ UNCHANGED raised
     \/ close({"browser"}) /\ Return
  /\ UNCHANGED <<camera, listening, producer, should_exit, polling, poll_error,
                 broke, stopped, misused>>

\* The coordinator and the receiver, whose ContractParser() reads the schemas.
MakeReceiver ==
  /\ at = "make_receiver"
  /\ \/ at' = "listen" /\ UNCHANGED <<process, open, polling, raised, broke>>
     \/ Break
  /\ UNCHANGED <<camera, listening, producer, should_exit, poll_error, stopped, misused>>

\* asyncio.start_server binds, and yields once before it returns.
Listen ==
  /\ at = "listen"
  /\ \/ listening' = TRUE /\ at' = "accept" /\ UNCHANGED <<process, open, raised>>
     \/ close(close_all) /\ Return /\ UNCHANGED listening
  /\ UNCHANGED <<camera, producer, should_exit, polling, poll_error, broke, stopped, misused>>

Accept ==
  /\ at = "accept"
  /\ at' = "assemble"
  /\ UNCHANGED <<camera, process, open, listening, producer, should_exit, polling, poll_error,
                 raised, broke, stopped, misused>>

\* The app, its routes and uvicorn's configuration; then the poll task.
Assemble ==
  /\ at = "assemble"
  /\ \/ polling' = TRUE /\ at' = "serve" /\ UNCHANGED <<process, open, raised, broke>>
     \/ Break
  /\ UNCHANGED <<camera, listening, producer, should_exit, poll_error, stopped, misused>>

\* Connections are served while run_live awaits something, and after it.
EventLoop == at # "assemble"

-----------------------------------------------------------------------------
(* Serving.                                                                *)

Signal ==
  /\ at = "serve"
  /\ should_exit' = TRUE /\ stopped' = TRUE
  /\ UNCHANGED <<camera, at, process, open, listening, producer, polling, poll_error,
                 raised, broke, misused>>

\* Mutant: the loop does not look at should_exit.
PollAgain_always == TRUE

PollAgain == ~should_exit

PollRound ==
  /\ polling /\ PollAgain
  /\ UseWorkers
  /\ IF \E w \in Workers : process[w] = "ended"
       THEN poll_error' = TRUE /\ should_exit' = TRUE /\ polling' = FALSE
       ELSE UNCHANGED <<poll_error, should_exit, polling>>
  /\ UNCHANGED <<camera, at, process, open, listening, producer, raised, broke, stopped>>

PollEnds ==
  /\ polling /\ ~PollAgain
  /\ polling' = FALSE
  /\ UNCHANGED <<camera, at, process, open, listening, producer, should_exit,
                 poll_error, raised, broke, stopped, misused>>

ChildEnds ==
  /\ \E w \in Workers : process[w] = "alive"
                        /\ process' = [process EXCEPT ![w] = "ended"]
  /\ UNCHANGED <<camera, at, open, listening, producer, should_exit, polling,
                 poll_error, raised, broke, stopped, misused>>

-----------------------------------------------------------------------------
(* The producer's connection: handle_client, and state_changed under it.   *)

Connect ==
  /\ EventLoop
  /\ listening /\ producer = "none"
  /\ producer' = "header"
  /\ UNCHANGED <<camera, at, process, open, listening, should_exit, polling,
                 poll_error, raised, broke, stopped, misused>>

\* A header or an observation is accepted.
Notify ==
  /\ EventLoop
  /\ producer # "none"
  /\ producer' = "stream"
  /\ UseWorkers
  /\ UNCHANGED <<camera, at, process, open, listening, should_exit, polling,
                 poll_error, raised, broke, stopped>>

\* The header is refused, its time is over, or the producer is gone.
HeaderFails ==
  /\ EventLoop
  /\ producer = "header"
  /\ producer' = "none"
  /\ UNCHANGED <<camera, at, process, open, listening, should_exit, polling,
                 poll_error, raised, broke, stopped, misused>>

Disconnect ==
  /\ EventLoop
  /\ producer = "stream"
  /\ producer' = "none"
  /\ UseWorkers
  /\ UNCHANGED <<camera, at, process, open, listening, should_exit, polling,
                 poll_error, raised, broke, stopped>>

-----------------------------------------------------------------------------
(* Closing.  Leaving `async with` closes the server, on return and on an   *)
(* exception alike, and waits for its connections; the finally clause      *)
(* waits again.                                                            *)

ServeReturns ==
  /\ at = "serve" /\ should_exit
  /\ at' = "wait_closed" /\ listening' = FALSE
  /\ UNCHANGED <<camera, process, open, producer, should_exit, polling, poll_error,
                 raised, broke, stopped, misused>>

ServeRaises ==
  /\ at = "serve"
  /\ at' = "wait_closed" /\ listening' = FALSE /\ raised' = TRUE
  /\ UNCHANGED <<camera, process, open, producer, should_exit, polling, poll_error,
                 broke, stopped, misused>>

\* Mutant: the server is closed without waiting.
ServerClosed_at_once == TRUE

ServerClosed == producer = "none"

WaitClosed ==
  /\ at = "wait_closed" /\ ServerClosed
  /\ at' = "wait_again" /\ should_exit' = TRUE
  /\ UNCHANGED <<camera, process, open, listening, producer, polling, poll_error,
                 raised, broke, stopped, misused>>

WaitAgain ==
  /\ at = "wait_again" /\ ServerClosed
  /\ at' = "poll_task"
  /\ UNCHANGED <<camera, process, open, listening, producer, should_exit, polling, poll_error,
                 raised, broke, stopped, misused>>

AwaitPollTask ==
  /\ at = "poll_task" /\ ~polling
  /\ at' = "drain"
  /\ UNCHANGED <<camera, process, open, listening, producer, should_exit, polling,
                 poll_error, raised, broke, stopped, misused>>

\* The last poll of the browser worker may raise on what a killed child left.
Drain ==
  /\ at = "drain"
  /\ at' = "close_worker"
  /\ UseWorkers
  /\ \/ raised' = TRUE
     \/ UNCHANGED raised
  /\ UNCHANGED <<camera, process, open, listening, producer, should_exit, polling,
                 poll_error, broke, stopped>>

CloseWorker ==
  /\ at = "close_worker"
  /\ at' = "close_camera"
  /\ close({"browser"})
  /\ UNCHANGED <<camera, listening, producer, should_exit, polling, poll_error,
                 raised, broke, stopped, misused>>

PollFailed == poll_error

CloseCamera ==
  /\ at = "close_camera"
  /\ at' = "returned"
  /\ close({"camera"})
  /\ raised' = (raised \/ PollFailed)
  /\ UNCHANGED <<camera, listening, producer, should_exit, polling, poll_error,
                 broke, stopped, misused>>

-----------------------------------------------------------------------------
(* A cancellation is no Exception, so that the handler around the start of *)
(* the server does not take it, and the finally clause runs to its own     *)
(* first await only.  A cancelled wait for the poll task ends the task.    *)
CancelledStart ==
  /\ at \in {"listen", "accept"}
  /\ Break
  /\ UNCHANGED <<camera, listening, producer, should_exit, poll_error, stopped, misused>>

CancelledEnd ==
  /\ \/ /\ at = "wait_closed"
        /\ at' = "wait_again" /\ should_exit' = TRUE /\ raised' = TRUE
        /\ UNCHANGED <<process, open, polling, broke>>
     \/ at = "wait_again" /\ Break /\ UNCHANGED should_exit
     \/ /\ at = "poll_task" /\ polling
        /\ at' = "drain" /\ polling' = FALSE /\ raised' = TRUE
        /\ UNCHANGED <<process, open, should_exit, broke>>
  /\ UNCHANGED <<camera, listening, producer, poll_error, stopped, misused>>

-----------------------------------------------------------------------------
Main ==
  \/ StartWorker \/ MakeCamera \/ StartCamera \/ MakeReceiver \/ Listen \/ Accept \/ Assemble
  \/ ServeReturns \/ WaitClosed \/ WaitAgain \/ AwaitPollTask
  \/ Drain \/ CloseWorker \/ CloseCamera

Next ==
  \/ Main \/ ServeRaises \/ CancelledStart \/ CancelledEnd
  \/ Signal \/ PollRound \/ PollEnds \/ ChildEnds
  \/ Connect \/ Notify \/ HeaderFails \/ Disconnect

Spec == Init /\ [][Next]_vars

(* The event loop resumes run_live and the poll loop; a connection without *)
(* a header is closed after 5 s.  No child ends, no signal comes and no    *)
(* established producer leaves unless it does.                             *)
Fairness == WF_vars(Main) /\ WF_vars(PollRound \/ PollEnds) /\ WF_vars(HeaderFails)

FairSpec == Spec /\ Fairness

-----------------------------------------------------------------------------
(* Properties.                                                             *)

(* No coroutine calls the worker once it is closed, which would raise in   *)
(* the middle of the producer's finally clause: the server and the poll    *)
(* loop are waited for before the close (live.py:216-229).                 *)
NeverUsedAfterClose == ~misused

(* What run_live leaves behind when it ends, and after what.  The children *)
(* are not daemons, and the interpreter waits for them, so a child must be *)
(* left only by the calls that stand in no try statement and by a          *)
(* cancellation at an await that no handler covers; a listener only by     *)
(* those between start_server and serve; the poll task only by a           *)
(* cancellation in the finally clause.  Every other end, by a failed       *)
(* start, an exception of serve, a child's end or a signal, leaves nothing *)
(* (live.py:144-232).                                                      *)
LeftOnlyUnguarded ==
  at = "returned" =>
    /\ open # {} \/ (\E w \in Workers : process[w] = "alive") =>
         broke \in {"make_camera", "make_receiver", "listen", "accept", "assemble", "wait_again"}
    /\ listening => broke \in {"accept", "assemble"}
    /\ producer # "none" => broke \in {"accept", "assemble", "wait_again"}
    /\ polling => broke = "wait_again"

(* run_live returns 0 only if a signal asked it to end: the end of a       *)
(* child, a port in use or a failed start is always an error, on which the *)
(* container's restart policy acts (live.py:201-210, 230-232).             *)
SuccessOnlyIfStopped == at = "returned" /\ ~raised => stopped

(* run_live ends with everything closed, but for the ends above, and with  *)
(* the right exit status: the two parts above, with the type invariant.    *)
ReturnsClean == TypeOK /\ LeftOnlyUnguarded /\ SuccessOnlyIfStopped

(* Once told to stop run_live returns, unless an established producer      *)
(* stays connected for ever (live.py:209-229).                             *)
ReturnsUnlessProducerStays ==
  (should_exit ~> at = "returned") \/ <>[](producer = "stream")

(* SYNTHETIC_CAMERA_VIDEO.md:199-201: if the renderer process ends, the    *)
(* Visualizer ends with an error and is restarted.                         *)
RendererEndEndsProcess ==
  (at = "serve" /\ process["camera"] = "ended") ~> at = "returned"
=============================================================================
