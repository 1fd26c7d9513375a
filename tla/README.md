# Formal models of scrap-monitoring-visualizer

TLA+ modules that model the visualizer's running system, TLC configurations that
check them, and proofs that TLAPS checks. Paths below are relative to `src/` of the
repository tree; `viz/` stands for `src/scrap_monitoring_visualizer/`.

The simulator (the *producer*) sends a header and then observations over TCP. The
live process validates them, keeps the state of one run, and hands the newest
observation to a child process that renders it for a web page. Optionally a second
child renders a synthetic camera whose JPEG frames a WebSocket endpoint streams to a
bridge on an edge computer, which writes them into a virtual video device.

```
 producer --TCP--> LineFramer -> ObservationReceiver -> state machine
                                     | on_state
                                     v
                               LiveCoordinator ------> SyntheticCameraPipeline
                                     |                    |  worker, LatestJpegStore
                       LatestRenderWorker <-> child       v
                                     |                 camera_stream --WS--> edge bridge --> v4l2
                               LatestFrameStore
                                     |
                             /status, /frame.png --HTTP--> page
```

All Python coroutines run on one event loop: code between two `await`s is atomic with
respect to other coroutines, not to the child processes.

## Inventory

| Component | State | Operations | Interacts by | What is hard | What makes it correct |
| --- | --- | --- | --- | --- | --- |
| Line framing, `viz/receiver/framing.py` | buffer | `feed`, `discard_partial` | called by the receiver | limits and cuts at any byte | result independent of the chunks; bounded buffer |
| Run state, `viz/state/machine.py` | none (pure) on `ExecutionState` | `accept_header`, `accept_observation`, `disconnect` | called by the receiver | reconnects, repeated and skipped sequences | a run survives its producer; observations only advance |
| Receiver, `viz/receiver/server.py` | `_active`, `state`, `snapshot`, a coroutine per connection | `handle_client`, `_read_header`, `_process_observation` | `on_state` callback | interleaved coroutines, timeouts, every way out | one producer; connected exactly while served; each change announced |
| Coordinator, `viz/live.py` | last state, sequence, arrival time | `state_changed`, `poll_renderers`, `status` | calls worker, store, camera | stale results of an old run | the page never shows another run; it catches up |
| Render worker, `viz/rendering/worker.py` | generation, in-flight flag, pending request, two queues, child | `submit`, `invalidate`, `poll`, `close` | queues of size one | another process in between; crash; close at any moment | one job; nothing lost; errors visible; close returns |
| Frame store, `viz/preview/store.py` | frame, revision | `publish`, `clear`, `get` | lock | none beyond the worker's | holds what the worker last published |
| Process lifetime, `viz/live.py` `run_live` | tasks, servers, children | start, poll loop, close | asyncio, uvicorn | failing starts; order of closing | what each way out leaves behind; nothing used after its close; right exit status |
| Web page and request gate, `viz/preview/app.py` | open requests; the script's revision, socket, blobs, timer | HTTP handlers, `refresh`, `connectCamera` | HTTP, WebSocket | restart of the server, overlapping timers | bounded requests; the page shows the newest frame |
| Camera pipeline, worker, store, `viz/synthetic_camera/` | run, last observation, segment and index, worker as above | `state_changed`, `poll`, `_publish`, `close` | called by the coordinator | time, replaced targets, disconnects | frames of one segment in order; nothing after a disconnect |
| Camera stream, `viz/synthetic_camera/stream.py` | gate, one session per client | `camera_stream` | reads the store | samples a store that others change | ends when its source does; the gate leaks no place |
| Edge bridge, `edge-bridge/src/` | session, deadline, latest frame, backoff, shutdown flag | `run`, `run_session`, `poll` | WebSocket, device | timeouts, pacing, retries | steady cadence; bounded retry; stops on a signal |
| Server installation, `deploy/server/setup.sh` | files, unit, legacy container | install, `rollback` | systemd, docker | a failure or signal at any command | all of the new or all of the old |
| Camera renderer, `viz/synthetic_camera/renderer.py` | one window with its header, profile and three meshes | `render`, `_initialize_scene`, `_update_scene`, `close` | called by the camera's child | reuse of a window, an exception anywhere | a picture is the requested one; no window left |
| Geometry, `viz/geometry/mesh.py`, and the parser's boundary checks | none that outlives a call | triangulate, clip, build sides | called by the renderers | concave outlines, vertices on cuts, seams, vertices rounded apart | the mesh is the surface over the boundary, once |
| Parser, `viz/contracts/parser.py` | none (pure) | `parse_line` | called by the receiver | numbers out of range | only its verdict matters to the receiver |
| Browser scene renderer, `viz/rendering/renderer.py` | none that outlives a call | drawing | called by the worker's child | VTK | not modelled |
| CLI, probes, build and release tools | none | one-shot | | | not modelled |

`PROJECT.json` lists every component with its status, and every hazard at its line.

## Modules

| Module | Models | Role |
| --- | --- | --- |
| `LatestFrame` | | abstract: of everything asked for since a reset, a newer picture may replace an older one |
| `RenderWorker` | `viz/rendering/worker.py`, `viz/preview/store.py` | worker, child, close, store |
| `RenderWorkerProofs` | | its theorems |
| `RunFeed` | | abstract: one run at a time, fed by one producer at a time |
| `RunState` | `viz/state/machine.py` | the pure transitions, used by the two below |
| `Receiver` | `viz/receiver/server.py` | coroutines, connections and state |
| `LineFramer` | `viz/receiver/framing.py` | the loop of `feed` over a byte stream |
| `LineFramerProofs` | | its theorems |
| `LivePreview` | `viz/live.py`, `LiveCoordinator` | composes `Receiver` and `RenderWorker` |
| `LivePreviewProofs` | | the theorems of `Receiver`, and on them and those of `RenderWorker` its own |
| `LiveProcess` | `viz/live.py`, `run_live` | start, serve, close |
| `FrameSchedule` | `viz/synthetic_camera/scheduler.py`, `interpolation.py` | pure: the frames between two observations |
| `CameraPipeline` | `viz/synthetic_camera/pipeline.py`, `worker.py`, `store.py` | `RunState` drives it, `RenderWorker` is instantiated for its worker |
| `CameraPipelineProofs` | | its theorems, on those of `RenderWorker` |
| `CameraStream` | `viz/synthetic_camera/stream.py` | gate and sessions, against a store that others write |
| `CameraStreamProofs` | | its theorems |
| `BridgeConfig` | `edge-bridge/src/config.rs`, `descriptor.rs` | pure: what an environment becomes, which text is the descriptor |
| `EdgeBridge` | `edge-bridge/src/bridge.rs`, `backoff.rs`, `device.rs`, `main.rs` | the bridge's thread, its server, device and signals |
| `EdgeBridgeProofs` | | its theorems |
| `Polygon` | geometry of `viz/contracts/parser.py`, `viz/geometry/mesh.py` | pure, on integer points |
| `Triangulation` | `triangulate_polygon` in `viz/geometry/mesh.py` | normalizing and cutting, a round a step |
| `SurfaceMesh` | `build_scene_geometry` in `viz/geometry/mesh.py` | extends `Triangulation`: clipping, limits, sides |
| `SurfaceMeshProofs` | | the theorem about its area |
| `CameraRenderer` | `viz/synthetic_camera/renderer.py` | the renderer's window across renders that fail |
| `CameraRendererProofs` | | its theorems |
| `MC...` | | the small instances |

How states and actions correspond to the code:

* **RenderWorker.** A variable per attribute (`generation` is `_generation`, and so
  on). The two `multiprocessing.Queue(maxsize=1)` are their single item. `submit`,
  `invalidate` and `poll` are whole calls, since nothing suspends them; `close` blocks
  and is split at its waits (`PutStop`, `PutStopTimeout`, `Join`, `JoinTimeout`). The
  child takes, answers with a picture or an error, exits, or dies at any moment. `Exit`
  may be delayed for ever by an unread outcome, as the queue's feeder thread is.
  `asked`, `base` and `settled` are history: requests are numbered so that properties
  can say "newest".
* **RunState** and **Receiver.** `handle_client` is cut at its awaits; a chunk's lines
  are processed one per step with `busy` holding the event loop, so that only children
  can act between them. A chunk is the lines it completes and a tail: nothing, a partial
  line, or bytes past the limit. `Bad` is a line the parser refuses with
  `ContractError`; `Unhandled` one on which it raises anything else. The finally clause
  is a step of its own before which nothing else runs. A header is its run and the rest
  of its data (`scene`); an observation has a run, sequence, time, and the scenes it
  `fits`, which stands for the checks of inlets, heights and extent.
* **LineFramer.** Bytes are LF or not; buffer and records are intervals of positions
  in the stream. One turn of the loop per step.
* **LivePreview.** Extends `Receiver`, instantiates `RenderWorker`, and runs
  `state_changed` in the step that calls `on_state`. `poll_renderers` is the 5 ms poll.
  The camera's share of `state_changed` is `CameraPipeline`; the two share no state but
  what the receiver announces. `status` and `rendered_sequence` are what the page's `/status`
  answers but for the camera's part.
* **LiveProcess.** `at` is the call `run_live` is in. uvicorn's `serve` and asyncio's
  `wait_closed` are modelled from their use: `serve` returns after `should_exit`, or
  raises if it cannot listen; `wait_closed` returns when no connection is open. Every call
  may raise, and only the start of the camera and of the server stand in a try statement
  that closes what was started; `broke` remembers the call whose exception no handler took.
  `asyncio.run` makes of SIGINT a cancellation of `run_live`, felt at an await, which
  `except Exception` does not take and which breaks off a finally clause at its first
  await: `CancelledStart`, `CancelledEnd`. The cancellation during `serve` is uvicorn's own
  signal handling (`Signal`); that it raises SIGINT again when `serve` returns is the
  cancellation at the next await. SIGTERM outside of `serve` kills the process and is not
  modelled.
* **FrameSchedule** and **CameraPipeline.** Times are integers in a unit that divides the
  frame interval, so that the scheduler's tolerances are zero. The state is driven by
  `RunState`'s transitions directly, which are what the receiver announces. Its worker's
  class is a twin of the browser's, so all its actions but `poll` are those of
  `RenderWorker`, instantiated; the pipeline's `poll` is the worker's poll, the
  publication, and the submission of the last due target, in one step (no await
  between them). `waited` is the wall-clock time since the segment started, kept up to
  the segment's end. Which heights an interpolated frame has is data: a frame names the
  two observations, the time and the mode.
* **CameraStream.** A coroutine's steps run from one await to the next; `pc` says where it
  waits, `end` what its `client_end` task holds. `lead` is the next deadline relative to
  now, `age` how long the present send has lasted. `Leave` is both `finally` clauses.
  `Cancelled` is the server's cancellation at any await. Pictures are the number of
  their source; `Publish` and `LoseSource` are the pipeline's writes, in any order that
  it can make them.
* **BridgeConfig** and **EdgeBridge.** One thread. Time is in units of the socket's read
  timeout, instants ahead are relative to now, and lateness beyond `MaxStall` is folded by
  whole intervals, which changes neither phase nor order. A step runs from one blocking or
  flag-reading point to the next: `LoopHead` (flag, poll, read), what the read returns,
  `LoopEnd` (poll). A message may trickle in (`ReadPart`), which starts the timeout of the
  read again. The descriptor is its size, its form and the token of each member: serde takes
  the array of the values for the object, and neither more, fewer nor other members. `wrote`, `delay`, `burst`, `stale` and `phase` are history.
* **Polygon**, **Triangulation** and **SurfaceMesh.** Integer points, where the geometry is
  exact and the code's epsilons mean equality. A round of the normalizing loop, an ear, and
  the clip of one pair of triangles is a step each. Vertices, grids and heights are multiples
  of 12 so that every cut in the instance is at an integer point. Places are exact; which
  points are one vertex is not. `_MeshBuilder` gives two points one index if their floats
  agree to 12 digits, and the two triangles of a seam compute a cut from opposite ends, so
  that the last digit may differ. `Clip` therefore chooses for every point that `intersection`
  computed whether it is rounded to the neighbour: a point of the clip is
  `<<x, y, z, cut>>`, a vertex `<<x, y, z, away>>`, and two vertices that differ in `away`
  only are two indices at one place. The clamp of the ratio to 0 and 1 never acts on exact
  points.
* **CameraRenderer.** Each call into PyVista or VTK is a step that may raise instead;
  `Raise` closes the window only where the code's `try` does, and there keeps it if
  `plotter.close()` raises in turn. A window is a record of what
  was drawn in it last, part by part; sides and faces are `None` where the mesh is empty.

## Runs

| Run | Checks | Bounds, and why they are enough |
| --- | --- | --- |
| `render_worker` | `TypeOK`, `OneJob`, `NothingLost`, `NoErrorMeansShown`, `ImplementsLatest`, `EventuallyAnswered`, `CloseReturns` | `MaxAsked` 4 requests and `MaxResets` 2: one request in flight, one pending, one that replaces it, and a reset while the child is busy, twice. Requests differ by their number only, so one kind is enough. |
| `receiver` | `ReceiverTypeOK`, `OneProducer`, `ConnectedWhileServed`, `NothingUntold`, `ImplementsFeed`, `SlotFreedWithoutHeader` | Three connections (one served, one refused, one that resumes or replaces the run) and `MaxRecords` 4 lines, enough for header, observation, reconnect, observation. The chunks contain every line kind with every tail, and all pairs of lines. |
| `next_record` | `NextRecordProcessed`, violated | as `receiver` |
| `line_framer` | `ChunkIndependent`, `BufferBounded` | every stream of up to `MaxStream` 8 bytes with a limit of 3 bytes, in all divisions: up to two full lines and an overlong one. |
| `live_preview` | `PageShowsCurrentRun`, `StatusAgrees`, `UsesWorker`, `PageCatchesUp` | Three connections and `MaxRecords` 5 are what run r1, run r2 and r1 again with another observation 1 need. `MaxAsked` and `MaxResets` (10) are never reached: a line or a disconnect submits or resets at most once. `UsesWorker` is the worker's specification without its bounds (`Used`). |
| `live_process` | `NeverUsedAfterClose`, `ReturnsClean`, `ReturnsUnlessProducerStays` | no bound, the state space is finite; with and without camera, an exception at every call and a cancellation at every await. |
| `renderer_end` | `RendererEndEndsProcess`, violated | as `live_process` |
| `camera_pipeline` | `TargetsFit`, `PictureOfPresentSource`, `BetweenNeighbours`, `PicturesAdvance`, `CameraCatchesUp` | Frames every 2 units, at most 2 to a segment, `MaxGap` 6. Run r1 has segments of two frames, a pair with equal times, one with another grid, and observations 2 and 3 that may be lost; r2 has a segment over the frame limit and one over the gap. `MaxConnections` 2 gives a reconnect within a run and a change of run. `MaxAsked` and `MaxResets` are not reached. |
| `camera_stream` | `PlacesCounted`, `NoBacklog`, `SessionsEnd` | Two clients at one place, so one is refused; three sources; `SendTimeout` 7 is more than three intervals of 2, so that a send may be late by more than the one interval that is made up for. |
| `edge_bridge` | `CadenceKept`, `OnlyDeviceErrorsEnd`, `BackoffFollowsFrames`, `NeverStuck` | I/O timeouts of 3 and 4, an interval of 3, stalls beyond `MaxStall` 7 folded, messages of up to `MaxParts` 2 parts; texts that are the descriptor, have one wrong member, or are one byte over a `MaxDescriptorBytes` of 9; seven environments, of which the loop is entered with two; delays 1, 2, 4, 5 (limit) and 2, 4, 5; three networks, three devices that may change at any time. |
| `surface_mesh` | `AreaKept`, `Triangulated`, `EveryPointOnce`, `SidesCloseTheHeap` | All accepted outlines of 3 and 4 vertices of a 3 by 3 grid and two concave ones, each under surfaces that cover it, cut it, lie inside, lie outside and exceed each limit; all outlines of 5 vertices, a comb and a spiral of 12 with straight vertices, both ways round, for the triangulation alone. A probe in each of the two triangles of a cell, on no edge. `MaxAway`: over a triangle one cut may be rounded to the neighbour, over the concave outlines and four more two of them, which gives a seam with one end or both apart; without one the mesh is that of exact cuts. |
| `camera_renderer` | `PictureIsRequested`, `OneWindow` | Four windows, two headers, two profiles (one never fits its byte limit), two surfaces with sides, one at the floor and one away from the boundary, two inlets; an exception at every call. |

Properties that are conjunctions of named parts: `StatusAgrees` (`RenderedMeansReceived`,
`StampOfLatest`), `ReturnsClean` (`LeftOnlyUnguarded`, `SuccessOnlyIfStopped`), `CadenceKept`
(`NoBurst`, `PhaseKept`, `StaleTwice`), `NeverStuck` (`SilenceEndsSession`,
`ShutdownExits`), `SessionsEnd` (`SessionEndsWithSource`, `EndedClientLeaves`),
`Triangulated` (`NeverRaised`, `NoneTurnsRight`, `InsideAgrees`).

`camera_stream` is checked for deadlock, since clients may always come again and time always passes. Elsewhere
`CHECK_DEADLOCK FALSE` is set: bounded models stop at their bounds, and `close`,
`run_live`, the bridge after a signal and the mesh once it is built end by design.

Fairness, and why the code justifies it:

* the event loop comes back to the poll (`asyncio.sleep(0.005)` in an endless loop)
  and runs a coroutine that holds it to its next await;
* a child that is alive is scheduled and a render ends; nothing is assumed of a child
  that has died, and its exit is fair only with no unread outcome;
* the timers of `wait_for`, `Queue.put(timeout)` and `Process.join(timeout)` fire;
* no producer, caller, signal or crash is ever assumed to come, and an established
  producer is never assumed to leave;
* `CameraPipeline`: poll, the child's work and the wall clock go on, nothing else;
* `CameraStream`: the event loop runs every coroutine that can go on, time passes, and
  uvicorn ends a close; no client is assumed to read, to leave or to come;
* `EdgeBridge`: the thread runs and its system calls return within their timeouts, time
  passes. Nothing is assumed of the server, the device or signals: a server may flood,
  trickle, or be silent for ever.

What the violated properties show:

* `NextRecordProcessed`. `docs/architecture.md:149-150` promises that after an invalid
  observation the next record is processed. `_process_observation` catches
  `ContractError` and `StateError` only; a number that `float()` cannot represent makes
  the parser raise `OverflowError`, which ends the connection.
* `RendererEndEndsProcess`. `SYNTHETIC_CAMERA_VIDEO.md:199-201` promises that the end
  of the renderer process ends the visualizer, to be restarted. The poll loop stops
  the HTTP server, but leaving `async with tcp_server` waits for the producer's
  connection, which nothing closes. `ReturnsUnlessProducerStays` shows that this is the
  only obstacle.

## Proofs

`RenderWorkerProofs` proves, for every set of requests and every bound, that `Spec`
implies `[]TypeOK`, `[]OneJob`, `[]NothingLost`, `[]NoErrorMeansShown` and the
refinement `ImplementsLatest`. Assumed is `ConstantAssumption` (the empty-queue and stop
values are not messages; the bounds are naturals).

None of the three invariants is inductive. `IInv` adds `Order`: a job anywhere in the
pipe belongs to the present generation exactly if it was submitted after the reset, and
then it is newer than what was answered; a pending request is the newest of all and
implies that a job is in flight; without a pending one the job itself is the newest.
The first half is what makes the generation check sufficient, the second is what makes
`NothingLost` survive a poll. `InitInv` and one lemma for each action that disturbs
`IInv` give `StepInv`; the refinement maps publishing to `Show`, `submit` to `Ask`,
`invalidate` to `Reset` and everything else to stuttering. The lemmas are stated for the
actions, not for `Next`, so that a module that instantiates the worker can use them step by
step: `SubmitHolds`, `InvalidateHolds`, `PollHolds` and `OthersHold` say which numbered
requests (`Held`) the worker has after each, and `UsedImplementsLatest` gives the refinement
without the model's bounds.

`LineFramerProofs` proves, for every stream, every limit of at least 2 bytes and every
division into chunks, `[]TypeOK`, `[]ChunkIndependent` and `[]BufferBounded` of
`LineFramer`, from `LineFramerAssumption`. Its invariant adds `Cutting`: inside the loop,
what has been cut is what the reference gives for the consumed prefix. `WithinLimit` and
`BeyondLimit` say when a line is overlong, `NoNewLine` and `OneNewLine` what the reference
gains by a longer prefix; they replace an induction over the stream.

The first part of `LivePreviewProofs` proves, for any number of connections, any chunks and any observations,
`[]ReceiverTypeOK`, `[]OneProducer`, `[]ConnectedWhileServed`, `[]NothingUntold` and the
refinement `ImplementsFeed`, from `ReceiverAssumption` and `RunStateAssumption`. `RInv`
adds `Places`: without it nothing excludes a connection that streams before its header
was accepted, or one that is leaving while another coroutine holds the loop. The steps
fall into three groups: a coroutine leaves its body (`LeaveInv`), stays where it is
(`StayInv`), or is admitted, refused, accepted or closed (a lemma each). The refinement
maps an accepted header to `Start` or `Resume`, an accepted observation to `Observe`, the
finally clause of an accepted producer to `Drop`, and everything else to stuttering.

Its second part proves, for any number of connections, any chunks and runs and any delay
or crash of the child, `[]PageShowsCurrentRun`, `[]StatusAgrees` and `UsesWorker`, from the
assumptions of `Receiver`, `RunState` and `LivePreviewAssumption`; and, through `UsesWorker`,
that the worker's invariants (`WorkerInvariantsHold`) and its refinement
(`PageImplementsLatest`) hold inside the live process. Neither invariant is inductive: that
the page is right rests on what is still in the queues. `LInv` takes the invariants of both
parts and adds `Known` of everything the worker holds: what was submitted since the last
reset is of the coordinator's run, not ahead of its observation, and agrees with it where
the sequences agree. A step of the receiver either leaves what was told, forgets the
observation, which resets the worker, or goes on within the run (`ToldStep`); a step of the
worker adds nothing that it did not hold.

`CameraPipelineProofs` proves, for any observations, grids, interval, gap and limits and
any delay or crash of the child, `[]TargetsFit`, `[]PictureOfPresentSource`,
`[]BetweenNeighbours` and `PicturesAdvance`, from `FrameScheduleAssumption`,
`RunStateAssumption` and `CameraPipelineAssumption`. It has three parts. The first is
the pure schedule: `ScheduleFits` derives from the division by the frame interval that a
segment's targets are in order, close enough, and end where they must (`RegularTimes`,
`MultiplesGrow`), and `DueIndex` that the run of due targets ends, since every set of
naturals has a least element. The second is the poll: it publishes and submits in one
step, which is no action of `RenderWorker`, so `PollInv` shows that it keeps the
worker's invariant all the same. The third is `CInv`: what the pipeline remembers is the
receiver's state (`Source`), the segment leads to the newest observation by its schedule
(`SegmentSound`), and what the worker holds since the reset is of the present source, no
later than the schedule has reached (`Present`), in the order of its numbers (`InOrder`)
and, if blended, of two neighbours (`RealPair`). `Reached` is what makes it inductive:
without it a frame of the segment that a new observation replaces could lie after the
first frame of the next one.

`EdgeBridgeProofs` proves, for every environment, network, device, server, interval and
bound, `[]TypeOK`, `[]DelayInBounds`, `[]CadenceKept`, `OnlyDeviceErrorsEnd` and
`BackoffFollowsFrames`, from `EdgeBridgeAssumption` and `BridgeConfigAssumption`. `IInv`
adds to the types that an accepted configuration has positive, ordered delays, that
`backoff_next` stays between them while the thread runs, and, for `NoBurst`, that once a
frame has been written at this instant the next deadline is ahead: the division in
`next_periodic_deadline` is what each write rests on (`DeadlineAhead`).
The delays rest on a second invariant that relates `backoff_next`, the last delay and
whether a frame was written since. `CadenceIsKept` needs a third: the distance to the next
deadline plus the phase is a whole number of intervals (`InPhase`, an integer that exists
rather than a remainder, so that adding intervals is adding integers; `MultipleMod` gives
the remainder back), and how often a silent camera's picture may still be repeated depends
on where in the round the thread is (`StaleAllowed`), since the timeout of the read ends
the session.

`CameraStreamProofs` proves, for any finite set of clients and any limit, interval and
timeout, `[]TypeOK`, `[]PlacesCounted` and `[]NoBacklog`, from `CameraStreamAssumption`.
The type `active \in 0 .. Limit` is not inductive without `PlacesCounted`, nor is the
reverse: a place given back must have been taken, which is a statement about the
cardinality of the served. `NoBacklog` needs how many frames were sent in this instant
related to how far the deadline lies back.

`CameraRendererProofs` proves, for all headers, profiles, surfaces and inlets,
`[]PictureIsRequested` and `[]OneWindow`, from `CameraRendererAssumption` and
`NoneAssumption`. `IInv` says for each place in the update and the rebuild which parts of
the window agree with the request by then (`Agrees`), and that what a broken update may
leave behind is always a part that the next update replaces (`Built`).

`SurfaceMeshProofs` proves, for every boundary the parser accepts, with any number of
vertices, that no area is lost or gained between the boundary and its triangles:
`[]AreaKept`, from `TriangulationAssumption`. `AreaInv` adds that the vertices stay distinct
while the outline is normalized, and that while ears are cut the triangles and what is left
add up to it.

* `area_twice` is a sum over the vertices, so the lemmas compare sums term by term: two that
  agree on a stretch (`SumsAgree`), one that runs backwards (`SumsReversed`). From these come
  the area of a polygon turned round (`AreaReversed`), started elsewhere (`AreaTurned`), with
  a vertex more (`AreaLonger`) and with a vertex less (`AreaShorter`).
* The provers cannot instantiate an induction rule that takes a predicate. `UpTo` takes a set
  instead and is proved from the least element of what is missing from it. Likewise a
  recursively defined function must be shown to exist (`SumsExist`, `KeptExists`).
* One round of `_normalized_polygon` drops any number of vertices, each because it lies on
  the line through its two neighbours, which may be dropped themselves. `RoundAt` carries
  along the round that everything since the last kept vertex lies on one line; that needs
  two distinct points on it (`OnOneLine`, `SameLine`), which is why the parser's refusal of
  repeated vertices is part of the argument.

Only model-checked:

* all liveness, and with it the parts of the named properties that are leads-to formulas:
  the prover has no ENABLED;
* `LiveProcess`. It has no constants and finitely many states, so that TLC's check of
  `NeverUsedAfterClose` and `ReturnsClean` is already exhaustive;
* of `Triangulation` and `SurfaceMesh` everything but the area: that an ear is always found
  (`NeverRaised`), that the parser and the mesh agree on the inside, and what the clipped
  pieces cover, and how the sides close whatever is rounded apart. These are statements
  about the topology of the outline (the two-ears theorem, the curve theorem for polygons),
  which nothing in the library leads up to; the run checks every accepted outline of the
  grid and the concave ones listed above;
* the two violated properties, which are refuted by their runs.

## Where documents promise more

Besides the two violated properties, modelling met promises that the code keeps only in
part. No run checks them; the properties state what the code does keep.

* `run_live` closes what it started on a failed start of the camera or the server, and in
  its finally clause. Other calls stand in no try statement:
  `SyntheticCameraPipeline(...)` (`viz/live.py:150`) leaves the browser's child behind if it
  raises, `ContractParser()` (166) both children, the app, its routes and uvicorn's
  configuration (177-197) the listener as well; a cancellation does so while the server is
  started (169), and in the finally clause's `wait_closed` (218), where the poll task is left
  too. The children are not daemons, so the interpreter waits for them.
  `LeftOnlyUnguarded` shows that these are all the ways, and what each can leave.
* `docs/architecture.md:166`: the outer edges of the surface's mesh, lowered to the floor,
  make the sides of the heap. `_build_volume_sides` (`viz/geometry/mesh.py:257`) takes the
  edges that one face has by its indices, and a cut that two faces round apart makes of their
  common edge two such edges: two sides stand back to back inside the heap. In the model
  every edge with a side is on the outline only if `MaxAway` is 0. The code does it: an
  L-shaped outline, (0,0), (6,0), (6,2.5), (3.7,2.5), (3.7,5.1), (0,5.1), under a 0.1 m grid
  of random heights had inner sides in about two of five tries, a slanted one in three of
  four, an upright rectangle in none. `SidesCloseTheHeap` is what holds all the same:
  nothing gapes, and inner sides come in pairs.

* `SYNTHETIC_CAMERA_VIDEO.md:198-199`: a failed render removes targets and JPEG.
  `_publish` clears the store only; the segment's other targets are still rendered and
  shown. `PictureOfPresentSource` shows that they are of the present source.
* `SYNTHETIC_CAMERA_VIDEO.md:199`: a session that received a JPEG ends when its source is
  gone. The session samples the store once per interval; a source that is lost and
  replaced in between goes unnoticed, and one session shows both. `SessionsEnd` asks for
  the end while the source stays away.

## Not modelled

* The parser beyond the boundary's geometry: JSON, schema, finite numbers, ranges of
  sensors and vectors. They are independent checks without state; the receiver's model
  sees an observation, a refusal or an exception.
* What PyVista and VTK draw, the browser's scene renderer, and the profile's validation.
  The models see a picture or an exception. The floor and wall meshes of the geometry
  are constants of a header.
* Floating point, but for vertices rounded apart. Time and coordinates are integers; the
  code's tolerances become zero. So `TargetsFit` does not see what the scheduler's 1e-9 and
  1e-12 make of rounded times, and `Triangulated` and `AreaKept` not that the parser's
  tolerance (1e-9, `viz/contracts/parser.py:124`) and the mesh's (1e-10,
  `viz/geometry/mesh.py:94`) differ: the parser takes tiny outlines of many vertices all of
  which the mesh drops as straight, and then it raises. For regular ones that is a radius of
  up to about 0.015 mm with 8 vertices, 0.3 mm with 64, 2.6 mm with 256 and 2 cm with 1024.
* The request gate (one counter and one `finally`) and the page's script. Its hazards are
  listed in `PROJECT.json` without a property: a restarted server's revisions, images
  decoded while newer ones come, a refusal that is read as a status.
* The bridge's scan of a JPEG: `EdgeBridge` sees it accepted or refused. Of the descriptor's
  JSON only the tokens are modelled, not how they are spelled.
* `deploy/server/setup.sh` and the edge's installation scripts, the command line, the
  probes and the build tools.
* `asyncio`, `uvicorn`, `multiprocessing`, tungstenite and the page's browser are modelled by
  the behaviour the code relies on. Half-written messages in a queue's pipe are not.

## Plan

In place: items 1 to 5, 8 and 9. Left: 6 and 7, in this order.

1. `RenderWorker`, `RunState`, `Receiver`, `LineFramer`, `LivePreview`, `LiveProcess` and
   their proofs.
2. `CameraPipeline` with `FrameSchedule`; `CameraStream` and its proofs.
3. `EdgeBridge` with `BridgeConfig` and its proofs.
4. `Polygon`, `Triangulation`, `SurfaceMesh`; `CameraRenderer` and its proofs.
5. Proofs of `CameraPipeline`, on those of `RenderWorker` for the twin worker, and of the
   bridge's cadence.
6. The server's installation with its rollback, at any command, failure and signal.
7. The page's script against a server that restarts, and the JPEG scan, byte by byte.
8. `LivePreview`'s composition proved, from `UsesWorker` and the proofs of its parts.
9. The area of the boundary's triangles proved, for any number of vertices.
