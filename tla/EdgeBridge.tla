----------------------------- MODULE EdgeBridge -----------------------------
(***************************************************************************)
(* The edge bridge (edge-bridge/src/): one thread that connects to the     *)
(* camera stream, validates its descriptor and pictures, writes the latest *)
(* picture to a V4L2 device at 30 Hz, and reconnects with a growing delay. *)
(* Signals set the shutdown flag at any time.                              *)
(*                                                                         *)
(* Time is in units of the read timeout; instants that lie ahead are kept  *)
(* relative to the present.  latest_frame is set with next_write and never *)
(* without it, so next_write stands for both.                              *)
(***************************************************************************)
EXTENDS BridgeConfig, FiniteSets, Sequences

CONSTANTS
  Environments,  \* the environment variables a bridge may be started with
  Texts,         \* the text messages a server may send
  Networks,      \* per resolution of the host, how each address answers
  Devices,       \* what may be found at the device's path
  Interval,      \* frame_interval
  MaxStall,      \* bound: beyond it, lateness is kept up to whole intervals
  MaxParts       \* bound: the parts a message may trickle in with

ASSUME EdgeBridgeAssumption ==
  /\ \A text \in Texts : text.size \in Nat
  /\ Interval \in Nat \ {0} /\ MaxStall \in Nat \ 0 .. Interval /\ MaxParts \in Nat
  /\ None \notin Int
  /\ Networks \subseteq Seq({"refused", "handshake_fails", "answers"})
  /\ Devices \subseteq [exists: BOOLEAN, character: BOOLEAN, opens: BOOLEAN,
                        device_caps: SUBSET {"OUTPUT", "READWRITE"} \cup {None},
                        capabilities: SUBSET {"OUTPUT", "READWRITE"},
                        format: {"MJPG 1920x1080", "other"}, writes: BOOLEAN]

VARIABLES
  pc,                    \* where the thread is
  config,                \* Config, or None
  shutdown,              \* the flag the signal handlers set
  device,                \* what is at the device's path
  backoff_next,          \* ExponentialBackoff.next
  rest,                  \* what is left of sleep_until_shutdown
  descriptor_received, next_write, wrote_frame,   \* SessionProcessor
  silence,               \* now - last_message_at, up to the I/O timeout
  read_for, parts,       \* how long socket.read has waited, after how many parts
  wrote, delay,          \* history: a frame written since the last delay; that delay
  burst, stale, phase    \* history: see the properties

processor == <<descriptor_received, next_write, wrote_frame>>
clocks    == <<silence, read_for, parts, burst, stale, phase>>
retry     == <<backoff_next, rest, delay>>
vars      == <<pc, config, shutdown, device, retry, processor, clocks, wrote>>

MinOf(a, b) == IF a <= b THEN a ELSE b

NewProcessor ==
  descriptor_received' = FALSE /\ next_write' = None /\ wrote_frame' = FALSE

Init ==
  /\ pc = "opening"
  /\ \E environment \in Environments : config = from_lookup(environment)
  /\ shutdown = FALSE
  /\ device \in Devices
  /\ backoff_next = 0 /\ rest = 0 /\ delay = 0
  /\ descriptor_received = FALSE /\ next_write = None /\ wrote_frame = FALSE
  /\ silence = 0 /\ read_for = 0 /\ parts = 0
  /\ wrote = FALSE /\ burst = 0 /\ stale = 0 /\ phase = 0

-----------------------------------------------------------------------------
(* device.rs                                                               *)

Caps(d) == IF d.device_caps # None THEN d.device_caps ELSE d.capabilities

\* V4l2Sink::open with validate_device
device_opens(d) ==
  /\ d.exists /\ d.character /\ d.opens
  /\ {"OUTPUT", "READWRITE"} \subseteq Caps(d)
  /\ d.format = "MJPG 1920x1080"

-----------------------------------------------------------------------------
(* run                                                                     *)

\* main::start and the first lines of run.
Start ==
  /\ pc = "opening"
  /\ IF config # None /\ device_opens(device)
       THEN pc' = "connecting" /\ backoff_next' = config["reconnect_initial"]
       ELSE pc' = "failed" /\ UNCHANGED backoff_next
  /\ UNCHANGED <<config, shutdown, device, rest, delay, processor, clocks, wrote>>

doubled(d) == MinOf(2 * d, config["reconnect_max"])

\* ExponentialBackoff::next_delay after what reset made of next, then the sleep.
Delay(next) ==
  /\ rest' = next /\ delay' = next
  /\ backoff_next' = doubled(next)
  /\ pc' = "sleeping"
  /\ wrote' = FALSE

\* connect: the first address that takes the connection decides, also when the
\* handshake with it fails.
connects(addresses) ==
  \E i \in DOMAIN addresses :
    /\ addresses[i] = "answers"
    /\ \A j \in 1 .. i - 1 : addresses[j] = "refused"

Connect ==
  /\ pc = "connecting" /\ ~shutdown
  /\ \E addresses \in Networks :
       IF ~connects(addresses) THEN Delay(backoff_next) /\ UNCHANGED <<processor, clocks>>
       ELSE /\ pc' = IF device_opens(device) THEN "polling" ELSE "failed"
            /\ NewProcessor
            /\ silence' = 0 /\ burst' = 0 /\ stale' = 0 /\ phase' = 0
            /\ UNCHANGED <<read_for, parts>>
            /\ UNCHANGED <<retry, wrote>>
  /\ UNCHANGED <<config, shutdown, device>>

\* The while condition and the first lines of sleep_until_shutdown.
SeeShutdown ==
  /\ pc \in {"connecting", "sleeping"} /\ shutdown
  /\ pc' = "stopped"
  /\ UNCHANGED <<config, shutdown, device, retry, processor, clocks, wrote>>

Wake ==
  /\ pc = "sleeping" /\ ~shutdown /\ rest = 0
  /\ pc' = "connecting"
  /\ UNCHANGED <<config, shutdown, device, retry, processor, clocks, wrote>>

-----------------------------------------------------------------------------
(* SessionProcessor.poll                                                   *)

\* Mutant: the next period starts at the write.
next_periodic_deadline_drifts(lead) == Interval

\* The next deadline after the present in the phase of this one; both relative to
\* the present, this one not ahead of it.
next_periodic_deadline(lead) == lead + Interval * ((-lead) \div Interval + 1)

KeepStale == stale' = IF silence' = 0 THEN 0 ELSE stale

\* poll with the deadline lead: nothing to do, a write, or a device error.
Poll(lead, then) ==
  IF IF lead = None THEN TRUE ELSE lead > 0
    THEN pc' = then /\ next_write' = lead /\ KeepStale /\ UNCHANGED <<wrote_frame, wrote, burst>>
  ELSE IF device.writes
    THEN /\ pc' = then
         /\ next_write' = next_periodic_deadline(lead)
         /\ wrote_frame' = TRUE /\ wrote' = TRUE
         /\ burst' = burst + 1
         /\ stale' = IF silence' >= config["io_timeout"] THEN stale + 1 ELSE 0
    ELSE pc' = "failed" /\ next_write' = lead /\ KeepStale /\ UNCHANGED <<wrote_frame, wrote, burst>>

\* Mutant: the flag is looked at between sessions only.
LoopHead_blind ==
  /\ pc = "polling"
  /\ UNCHANGED silence
  /\ Poll(next_write, "reading")
  /\ read_for' = 0 /\ parts' = 0
  /\ UNCHANGED <<config, shutdown, device, retry, descriptor_received, phase>>

\* The head of the loop: the shutdown flag, then poll, then socket.read.
LoopHead ==
  /\ pc = "polling"
  /\ UNCHANGED silence
  /\ IF shutdown
       THEN pc' = "stopped" /\ UNCHANGED <<next_write, wrote_frame, wrote, burst, stale>>
       ELSE Poll(next_write, "reading")
  /\ read_for' = 0 /\ parts' = 0
  /\ UNCHANGED <<config, shutdown, device, retry, descriptor_received, phase>>

\* The end of the loop's body.
LoopEnd ==
  /\ pc = "handled"
  /\ UNCHANGED silence
  /\ Poll(next_write, "polling")
  /\ UNCHANGED <<config, shutdown, device, retry, descriptor_received, read_for, parts, phase>>

-----------------------------------------------------------------------------
(* What socket.read returns.  A protocol or connection error leaves the    *)
(* backoff as it is; an orderly end resets it if a frame was written.      *)

\* Mutant: a refused message ends the process.
ProtocolError_fatal == pc' = "failed" /\ UNCHANGED <<retry, wrote>>

ProtocolError == Delay(backoff_next)

ConnectionError == Delay(backoff_next)

Disconnected == Delay(IF wrote_frame THEN config["reconnect_initial"] ELSE backoff_next)

Heard == pc = "reading" /\ silence' = 0

AfterRead == KeepStale /\ UNCHANGED <<config, shutdown, device, read_for, parts, burst, phase>>

ReadText(text) ==
  /\ Heard
  /\ IF parse_descriptor(text) /\ ~descriptor_received
       THEN descriptor_received' = TRUE /\ pc' = "handled" /\ UNCHANGED <<retry, wrote>>
       ELSE ProtocolError /\ UNCHANGED descriptor_received
  /\ UNCHANGED <<next_write, wrote_frame>> /\ AfterRead

\* Mutant: frames within the session do not reset the backoff.
reset_in_session_never == UNCHANGED backoff_next

reset_in_session ==
  backoff_next' = IF wrote_frame' THEN config["reconnect_initial"] ELSE backoff_next

\* handle_binary of a valid JPEG: it becomes the latest, its arrival starts the
\* pacing if it is the first, and it may be due.
ReadFrame ==
  /\ Heard /\ descriptor_received
  /\ Poll(IF next_write = None THEN 0 ELSE next_write, "handled")
  /\ phase' = IF next_write = None THEN 0 ELSE phase
  /\ reset_in_session
  /\ UNCHANGED <<config, shutdown, device, rest, delay, descriptor_received, read_for, parts>>

\* An invalid JPEG, or any before the descriptor.
ReadBadFrame == Heard /\ ProtocolError /\ UNCHANGED processor /\ AfterRead

\* Ping or pong: the answer is flushed.
ReadControl ==
  /\ Heard
  /\ \/ pc' = "handled" /\ UNCHANGED <<retry, wrote>>
     \/ ConnectionError
  /\ UNCHANGED processor /\ AfterRead

ReadClose ==
  pc = "reading" /\ Disconnected /\ UNCHANGED <<processor, silence>> /\ AfterRead

ReadError ==
  pc = "reading" /\ ConnectionError /\ UNCHANGED <<processor, silence>> /\ AfterRead

\* A part of a message: socket.read goes on reading, and its timeout starts again.
ReadPart ==
  /\ pc = "reading" /\ parts < MaxParts
  /\ parts' = parts + 1 /\ read_for' = 0
  /\ UNCHANGED <<pc, config, shutdown, device, retry, processor, wrote,
                 silence, burst, stale, phase>>

stream_timed_out == silence >= config["io_timeout"]

ReadTimeout ==
  /\ pc = "reading" /\ read_for >= 1
  /\ IF stream_timed_out THEN Disconnected
                         ELSE pc' = "handled" /\ UNCHANGED <<retry, wrote>>
  /\ UNCHANGED <<processor, silence>> /\ AfterRead

-----------------------------------------------------------------------------
(* Signals, the device and time.                                           *)

Session == {"polling", "reading", "handled"}

Signal ==
  /\ ~shutdown /\ shutdown' = TRUE
  /\ UNCHANGED <<pc, config, device, retry, processor, clocks, wrote>>

DeviceChanges ==
  /\ device' \in Devices
  /\ UNCHANGED <<pc, config, shutdown, retry, processor, clocks, wrote>>

\* A read waits for one unit at most after the last part.
Tick ==
  /\ \/ pc = "sleeping" /\ rest > 0
     \/ pc \in Session /\ (pc = "reading" => read_for < 1)
  /\ IF next_write = None \/ pc = "sleeping" THEN UNCHANGED next_write
       ELSE next_write' = next_write - 1 + IF next_write = -MaxStall THEN Interval ELSE 0
  /\ rest' = IF pc = "sleeping" THEN rest - 1 ELSE rest
  /\ silence' = IF pc \in Session THEN MinOf(silence + 1, config["io_timeout"]) ELSE silence
  /\ read_for' = IF pc = "reading" THEN read_for + 1 ELSE read_for
  /\ phase' = IF pc \in Session THEN (phase + 1) % Interval ELSE phase
  /\ burst' = 0
  /\ UNCHANGED <<pc, config, shutdown, device, backoff_next, delay, descriptor_received,
                 wrote_frame, parts, stale, wrote>>

Thread == Start \/ Connect \/ SeeShutdown \/ Wake \/ LoopHead \/ LoopEnd \/ ReadTimeout

Server ==
  \/ \E text \in Texts : ReadText(text)
  \/ ReadPart \/ ReadFrame \/ ReadBadFrame \/ ReadControl \/ ReadClose \/ ReadError

Next == Thread \/ Server \/ Signal \/ DeviceChanges \/ Tick

Spec == Init /\ [][Next]_vars

(* The thread runs, its system calls return within their timeouts, and     *)
(* time passes.  Nothing is assumed of the server, the device or signals.  *)
Fairness == WF_vars(Thread) /\ WF_vars(Tick)

FairSpec == Spec /\ Fairness

-----------------------------------------------------------------------------
(* Properties.                                                             *)

TypeOK ==
  /\ pc \in Session \cup {"opening", "connecting", "sleeping", "stopped", "failed"}
  /\ config \in [Durations -> Nat \ {0}] \cup {None}
  /\ shutdown \in BOOLEAN
  /\ device \in Devices
  /\ backoff_next \in Nat /\ rest \in Nat /\ delay \in Nat
  /\ descriptor_received \in BOOLEAN
  /\ next_write \in Int \cup {None}
  /\ wrote_frame \in BOOLEAN /\ wrote \in BOOLEAN
  /\ silence \in Nat /\ read_for \in 0 .. 1 /\ parts \in 0 .. MaxParts
  /\ burst \in Nat /\ stale \in Nat /\ phase \in 0 .. Interval - 1

(* The thread waits between two attempts for at least the initial and at   *)
(* most the maximal delay of the configuration, however often the attempts *)
(* fail and whatever mixture of sessions ends in between (backoff.rs:20-28,*)
(* bridge.rs:43-74, config.rs:71-79).                                      *)
DelayInBounds ==
  pc = "sleeping" =>
    delay \in config["reconnect_initial"] .. config["reconnect_max"] /\ rest <= delay

(* At one instant at most one frame is written: after a stall the missed   *)
(* periods are skipped, although the loop polls twice a round and every    *)
(* frame that arrives polls too (bridge.rs:27-37, 157, 195, 254-274).      *)
NoBurst == burst <= 1

(* Deadlines keep the phase of the first frame for the whole session, so   *)
(* late writes never accumulate to a drift, and the next one is the first  *)
(* of that phase: no period ahead is skipped (bridge.rs:27-37, 255, 272).  *)
PhaseKept ==
  pc \in Session /\ next_write # None =>
    (next_write + phase) % Interval = 0 /\ next_write <= Interval

(* However the loop stalls, after the I/O timeout without a message the    *)
(* last picture is repeated at most twice, by the two polls of a round,    *)
(* before the session is given up (bridge.rs:157-195, 259-274).            *)
StaleTwice == stale <= 2

(* The cadence of the device, through stalls, in three parts.              *)
CadenceKept == NoBurst /\ PhaseKept /\ StaleTwice

(* Nothing that the server does ends the process; only a configuration or  *)
(* device error, or a signal, does (bridge.rs:43-76, 203-240).             *)
OnlyDeviceErrorsEnd ==
  [][ /\ pc' = "failed" /\ pc # "failed" =>
           config = None \/ ~device_opens(device) \/ ~device.writes
      /\ pc' = "stopped" => shutdown ]_vars

(* SYNTHETIC_CAMERA_VIDEO.md:171-173: the delay starts again from its      *)
(* initial value once a frame has been written, and doubles up to its      *)
(* maximum otherwise, however the session ended (bridge.rs:49-69, 164-171).*)
BackoffFollowsFrames ==
  [][ pc # "sleeping" /\ pc' = "sleeping" =>
        delay' = IF wrote \/ delay = 0
                   THEN config["reconnect_initial"]
                   ELSE MinOf(2 * delay, config["reconnect_max"]) ]_vars

(* A session with a silent server is given up (bridge.rs:186-192).         *)
SilenceEndsSession ==
  (pc \in Session /\ silence > 0) ~> (silence = 0 \/ pc \notin Session)

(* A signal ends the process, whether it is connected, waiting to connect  *)
(* again, flooded with messages or held up by one that trickles in         *)
(* (bridge.rs:43, 153-159, 277-289).                                       *)
ShutdownExits == shutdown ~> pc \in {"stopped", "failed"}

(* The bridge is never stuck: the two parts above.                         *)
NeverStuck == SilenceEndsSession /\ ShutdownExits
=============================================================================
