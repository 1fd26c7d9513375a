-------------------------- MODULE EdgeBridgeProofs --------------------------
(***************************************************************************)
(* Proofs about the edge bridge, for every set of environments, networks   *)
(* and devices, every server and all durations: its type invariant, the    *)
(* bounds of the delay between attempts, what ends the process, how the    *)
(* backoff follows the frames, and the cadence of the device.              *)
(*                                                                         *)
(* The bounds of the delay rest on what from_lookup lets through and on    *)
(* backoff_next staying between the two delays of the configuration while  *)
(* the thread runs.  NoBurst rests on the deadline: within a session, once *)
(* a frame has been written at this instant the next deadline is ahead.    *)
(* The rest of the cadence has an invariant of its own, CadenceHeld.       *)
(***************************************************************************)
EXTENDS EdgeBridge, TLAPS

Running == Session \cup {"connecting", "sleeping"}

DelayRange == config["reconnect_initial"] .. config["reconnect_max"]

\* What from_lookup returns.
ConfigAccepted ==
  config # None =>
    /\ config \in [Durations -> Nat \ {0}]
    /\ config["reconnect_initial"] <= config["reconnect_max"]

BackoffInRange == pc \in Running => config # None /\ backoff_next \in DelayRange

DelayInRange == pc = "sleeping" => delay \in DelayRange /\ rest <= delay

WrittenOnce(lead) == burst = 0 \/ (burst = 1 /\ lead \in Int /\ lead > 0)

BurstSpent == burst \in 0 .. 1 /\ (pc \in Session => WrittenOnce(next_write))

IInv == TypeOK /\ ConfigAccepted /\ BackoffInRange /\ DelayInRange /\ BurstSpent

-----------------------------------------------------------------------------
(* Lemmas about the helpers.                                               *)

LEMMA ConstantsTyped == Interval \in Nat \ {0} /\ MaxParts \in Nat /\ None \notin Int
BY EdgeBridgeAssumption

\* A configuration that is accepted has positive durations in order.
LEMMA LookupAccepted ==
  ASSUME NEW environment
  PROVE  LET value == from_lookup(environment) IN
         value # None =>
           /\ value \in [Durations -> Nat \ {0}]
           /\ value["reconnect_initial"] <= value["reconnect_max"]
<1> DEFINE parsed == [name \in Durations |-> parse_milliseconds(environment.raw[name], name)]
<1>1. ASSUME NEW name \in Durations, parsed[name] # None
      PROVE  parsed[name] \in Nat \ {0}
  BY <1>1, BridgeConfigAssumption DEF parse_milliseconds
<1>2. CASE \A name \in Durations : parsed[name] # None
  BY <1>1, <1>2 DEF from_lookup
<1>3. CASE ~\A name \in Durations : parsed[name] # None
  BY <1>3 DEF from_lookup
<1> QED BY <1>2, <1>3

\* The deadline after a write lies ahead, at most one interval.
LEMMA DeadlineAhead ==
  ASSUME NEW lead \in Int, lead <= 0
  PROVE  next_periodic_deadline(lead) \in 1 .. Interval
<1>1. Interval \in Nat \ {0}
  BY EdgeBridgeAssumption
<1>2. PICK n \in Nat : lead = -n
  <2>1. -lead \in Nat /\ lead = -(-lead)
    BY Z3
  <2> QED BY <2>1
<1>3. n \div Interval \in Int /\ n % Interval \in 0 .. Interval - 1
  BY <1>1, Z3
<1>4. n = Interval * (n \div Interval) + (n % Interval)
  BY <1>1, SMT
<1>5. -n + Interval * (n \div Interval + 1) \in 1 .. Interval
  <2>1. ASSUME NEW q \in Int, NEW r \in 0 .. Interval - 1, n = Interval * q + r
        PROVE  -n + Interval * (q + 1) \in 1 .. Interval
    <3>1. -n + Interval * (q + 1) = Interval - r
      BY <1>1, <2>1, SMT
    <3> QED BY <1>1, <3>1, SMT
  <2> QED BY <1>3, <1>4, <2>1, Zenon
<1>6. -lead = n
  BY <1>2, Z3
<1> QED BY <1>2, <1>5, <1>6 DEF next_periodic_deadline

\* Doubling keeps the delay between the two of the configuration.
LEMMA DoubledInRange ==
  ASSUME ConfigAccepted, config # None, NEW d \in DelayRange
  PROVE  doubled(d) \in DelayRange /\ d \in Nat
BY Z3 DEF ConfigAccepted, DelayRange, doubled, MinOf, Durations

-----------------------------------------------------------------------------
(* The initial states, and what Delay and Poll keep.                       *)

LEMMA InitIInv == Init => IInv
<1> SUFFICES ASSUME Init PROVE IInv
  OBVIOUS
<1>1. PICK environment \in Environments : config = from_lookup(environment)
  BY DEF Init
<1>2. ConfigAccepted
  BY <1>1, LookupAccepted DEF ConfigAccepted
<1>3. Interval - 1 \in Nat /\ MaxParts \in Nat
  BY ConstantsTyped
<1>4. TypeOK
  <2>1. config \in [Durations -> Nat \ {0}] \cup {None}
    BY <1>2, Zenon DEF ConfigAccepted
  <2>2. /\ descriptor_received \in BOOLEAN /\ wrote_frame \in BOOLEAN
        /\ shutdown \in BOOLEAN /\ wrote \in BOOLEAN
    BY Zenon DEF Init
  <2>3. phase \in 0 .. Interval - 1 /\ parts \in 0 .. MaxParts
    BY <1>3 DEF Init
  <2> QED BY <2>1, <2>2, <2>3 DEF Init, TypeOK
<1>5. BackoffInRange /\ DelayInRange
  BY DEF Init, BackoffInRange, DelayInRange, Running, Session
<1>6. BurstSpent
  BY DEF Init, BurstSpent, Session
<1> QED BY <1>2, <1>4, <1>5, <1>6 DEF IInv

\* A delay from within the range leads to a state within it.
LEMMA DelayKeeps ==
  ASSUME IInv, pc \in Running, NEW next \in DelayRange, Delay(next), UNCHANGED config
  PROVE  /\ pc' = "sleeping" /\ wrote' \in BOOLEAN
         /\ backoff_next' \in Nat /\ rest' \in Nat /\ delay' \in Nat
         /\ BackoffInRange' /\ DelayInRange'
<1>1. config # None /\ ConfigAccepted
  BY DEF IInv, BackoffInRange
<1>2. doubled(next) \in DelayRange /\ doubled(next) \in Nat /\ next \in Nat
  <2>1. doubled(next) \in DelayRange /\ next \in Nat
    BY <1>1, DoubledInRange
  <2> QED BY <1>1, <2>1, DoubledInRange
<1>3. DelayRange' = DelayRange
  BY DEF DelayRange
<1>4. next <= next
  BY <1>2
<1> QED BY <1>1, <1>2, <1>3, <1>4 DEF Delay, BackoffInRange, DelayInRange

\* A poll writes at most once, and sets the next deadline ahead when it does.
LEMMA PollKeeps ==
  ASSUME IInv, pc \in Session, NEW lead \in Int \cup {None}, NEW then \in Session,
         WrittenOnce(lead), Poll(lead, then), silence' \in Nat
  PROVE  /\ pc' \in {then, "failed"}
         /\ next_write' \in Int \cup {None}
         /\ wrote_frame' \in BOOLEAN /\ wrote' \in BOOLEAN
         /\ burst' \in 0 .. 1 /\ stale' \in Nat
         /\ WrittenOnce(next_write)'
<1>1. /\ wrote_frame \in BOOLEAN /\ wrote \in BOOLEAN /\ burst \in 0 .. 1
      /\ stale \in Nat /\ None \notin Int
  BY EdgeBridgeAssumption DEF IInv, TypeOK, BurstSpent
<1>2. CASE IF lead = None THEN TRUE ELSE lead > 0
  BY <1>1, <1>2 DEF Poll, KeepStale, WrittenOnce
<1>3. CASE ~(IF lead = None THEN TRUE ELSE lead > 0)
  <2>1. lead \in Int /\ lead <= 0 /\ burst = 0
    BY <1>1, <1>3 DEF WrittenOnce
  <2>2. next_periodic_deadline(lead) \in Int /\ next_periodic_deadline(lead) > 0
    <3>1. Interval \in Nat \ {0}
      BY EdgeBridgeAssumption
    <3>2. next_periodic_deadline(lead) \in 1 .. Interval
      BY <2>1, DeadlineAhead
    <3> QED BY <3>1, <3>2
  <2>3. CASE device.writes
    <3>1. /\ pc' = then /\ next_write' = next_periodic_deadline(lead)
          /\ wrote_frame' = TRUE /\ wrote' = TRUE
          /\ burst' = burst + 1
          /\ stale' = IF silence' >= config["io_timeout"] THEN stale + 1 ELSE 0
      BY <1>3, <2>3, Zenon DEF Poll
    <3>2. burst' = 1 /\ stale' \in Nat /\ WrittenOnce(next_write)'
      BY <1>1, <2>1, <2>2, <3>1 DEF WrittenOnce
    <3>3. wrote_frame' \in BOOLEAN /\ wrote' \in BOOLEAN
      BY <3>1, Zenon
    <3> QED BY <2>2, <3>1, <3>2, <3>3
  <2>4. CASE ~device.writes
    BY <1>1, <1>3, <2>1, <2>4 DEF Poll, KeepStale, WrittenOnce
  <2> QED BY <2>3, <2>4
<1> QED BY <1>2, <1>3

\* A session ends in the delay that follows it, or an attempt fails.
LEMMA RetryKeeps ==
  ASSUME IInv, pc \in Running, NEW next \in DelayRange, Delay(next),
         UNCHANGED <<config, shutdown, device, read_for, parts, burst, phase>>,
         descriptor_received' \in BOOLEAN, next_write' \in Int \cup {None},
         wrote_frame' \in BOOLEAN, silence' \in Nat, stale' \in Nat
  PROVE  IInv'
<1>1. /\ pc' = "sleeping" /\ wrote' \in BOOLEAN
      /\ backoff_next' \in Nat /\ rest' \in Nat /\ delay' \in Nat
      /\ BackoffInRange' /\ DelayInRange'
  BY DelayKeeps
<1>2. TypeOK'
  BY <1>1 DEF IInv, TypeOK
<1>3. ConfigAccepted' /\ BurstSpent'
  BY <1>1 DEF IInv, ConfigAccepted, BurstSpent, Session
<1> QED BY <1>1, <1>2, <1>3 DEF IInv

\* The thread goes on within the session, or fails, after a poll.
LEMMA SessionKeeps ==
  ASSUME IInv, pc \in Session, NEW lead \in Int \cup {None}, NEW then \in Session,
         WrittenOnce(lead), Poll(lead, then),
         UNCHANGED <<config, shutdown, device, rest, delay>>,
         backoff_next' = backoff_next \/ backoff_next' = config["reconnect_initial"],
         descriptor_received' \in BOOLEAN, silence' \in Nat,
         read_for' \in 0 .. 1, parts' \in 0 .. MaxParts, phase' \in 0 .. Interval - 1
  PROVE  IInv'
<1>1. /\ pc' \in {then, "failed"}
      /\ next_write' \in Int \cup {None}
      /\ wrote_frame' \in BOOLEAN /\ wrote' \in BOOLEAN
      /\ burst' \in 0 .. 1 /\ stale' \in Nat
      /\ WrittenOnce(next_write)'
  BY PollKeeps
<1>2. config # None /\ ConfigAccepted /\ DelayRange' = DelayRange
  BY DEF IInv, BackoffInRange, Running, DelayRange
<1>3. backoff_next' \in DelayRange /\ backoff_next' \in Nat
  <2>1. backoff_next \in DelayRange /\ config["reconnect_initial"] \in DelayRange
    BY <1>2 DEF IInv, BackoffInRange, Running, DelayRange, ConfigAccepted, Durations
  <2> QED BY <1>2, <2>1 DEF DelayRange, ConfigAccepted, Durations
<1>4. pc' # "sleeping" /\ pc' \in Session \cup {"failed"}
  BY <1>1 DEF Session
<1>5. TypeOK'
  <2>1. rest' \in Nat /\ delay' \in Nat /\ device' \in Devices /\ shutdown' \in BOOLEAN
        /\ config' \in [Durations -> Nat \ {0}] \cup {None}
    BY DEF IInv, TypeOK
  <2>2. burst' \in Nat
    BY <1>1
  <2> QED BY <1>1, <1>3, <1>4, <2>1, <2>2 DEF TypeOK
<1>6. ConfigAccepted' /\ BackoffInRange' /\ DelayInRange'
  BY <1>2, <1>3, <1>4 DEF ConfigAccepted, BackoffInRange, DelayInRange
<1>7. BurstSpent'
  BY <1>1 DEF BurstSpent
<1> QED BY <1>5, <1>6, <1>7 DEF IInv

\* The thread goes on, or ends, with its counters as they are.
LEMMA MoveKeeps ==
  ASSUME IInv, pc' \in {"connecting", "handled", "stopped", "failed"},
         UNCHANGED <<config, shutdown, device, retry, wrote>>,
         pc' = "connecting" => pc = "sleeping",
         pc' = "handled" => pc = "reading",
         UNCHANGED processor \/ (UNCHANGED <<next_write, wrote_frame>>
                                 /\ descriptor_received' = TRUE),
         UNCHANGED <<read_for, parts, burst, phase>>,
         silence' \in Nat, stale' \in Nat
  PROVE  IInv'
<1>1. descriptor_received' \in BOOLEAN
  BY Zenon DEF IInv, TypeOK, processor
<1>2. UNCHANGED <<next_write, wrote_frame>>
  BY DEF processor
<1>3. UNCHANGED <<backoff_next, rest, delay>>
  BY DEF retry
<1>4. TypeOK'
  BY <1>1, <1>2, <1>3 DEF IInv, TypeOK, Session
<1>5. ConfigAccepted' /\ BackoffInRange' /\ DelayInRange'
  BY <1>3 DEF IInv, ConfigAccepted, BackoffInRange, DelayInRange, Running, Session, DelayRange
<1>6. BurstSpent'
  BY <1>2 DEF IInv, BurstSpent, WrittenOnce, Session
<1> QED BY <1>4, <1>5, <1>6 DEF IInv

\* Every step keeps the invariant.
LEMMA NextIInv == IInv /\ [Next]_vars => IInv'
<1> SUFFICES ASSUME IInv, [Next]_vars PROVE IInv'
  OBVIOUS
<1> USE DEF Running, Session
<1>1. /\ silence \in Nat /\ stale \in Nat /\ descriptor_received \in BOOLEAN
      /\ next_write \in Int \cup {None} /\ wrote_frame \in BOOLEAN
      /\ read_for \in 0 .. 1 /\ parts \in 0 .. MaxParts /\ phase \in 0 .. Interval - 1
  BY DEF IInv, TypeOK
<1>2. pc \in Running => backoff_next \in DelayRange /\ config["reconnect_initial"] \in DelayRange
  BY DEF IInv, BackoffInRange, ConfigAccepted, DelayRange, Durations
<1>3. CASE Start
  <2>1. UNCHANGED <<config, shutdown, device, rest, delay, processor, clocks, wrote>>
        /\ pc = "opening"
    BY <1>3 DEF Start
  <2>2. CASE config # None /\ device_opens(device)
    <3>1. pc' = "connecting" /\ backoff_next' = config["reconnect_initial"]
      BY <1>3, <2>2 DEF Start
    <3>2. backoff_next' \in DelayRange' /\ backoff_next' \in Nat
      BY <2>1, <2>2, <3>1 DEF IInv, ConfigAccepted, DelayRange, Durations
    <3>3. TypeOK'
      BY <2>1, <3>1, <3>2 DEF IInv, TypeOK, processor, clocks
    <3> QED BY <2>1, <2>2, <3>1, <3>2, <3>3
            DEF IInv, ConfigAccepted, BackoffInRange, DelayInRange, BurstSpent, clocks
  <2>3. CASE ~(config # None /\ device_opens(device))
    <3>1. pc' = "failed" /\ backoff_next' = backoff_next
      BY <1>3, <2>3 DEF Start
    <3> QED BY <2>1, <3>1, MoveKeeps, <1>1 DEF processor, clocks, retry
  <2> QED BY <2>2, <2>3
<1>4. CASE Connect
  <2>1. pc = "connecting" /\ UNCHANGED <<config, shutdown, device>>
    BY <1>4 DEF Connect
  <2>2. CASE Delay(backoff_next) /\ UNCHANGED <<processor, clocks>>
    BY <1>1, <1>2, <2>1, <2>2, RetryKeeps DEF processor, clocks
  <2>3. CASE /\ pc' = IF device_opens(device) THEN "polling" ELSE "failed"
             /\ NewProcessor
             /\ silence' = 0 /\ burst' = 0 /\ stale' = 0 /\ phase' = 0
             /\ UNCHANGED <<read_for, parts>>
             /\ UNCHANGED <<retry, wrote>>
    <3>1. pc' \in {"polling", "failed"}
      BY <2>3
    <3>2. descriptor_received' \in BOOLEAN /\ wrote_frame' \in BOOLEAN /\ next_write' = None
      BY <2>3, Zenon DEF NewProcessor
    <3>3. 0 \in 0 .. Interval - 1
      BY ConstantsTyped
    <3>4. TypeOK'
      BY <2>1, <2>3, <3>1, <3>2, <3>3 DEF IInv, TypeOK, retry
    <3>5. ConfigAccepted' /\ BackoffInRange' /\ DelayInRange' /\ BurstSpent'
      BY <2>1, <2>3, <3>1 DEF IInv, ConfigAccepted, BackoffInRange, DelayInRange, DelayRange,
                              BurstSpent, WrittenOnce, retry
    <3> QED BY <3>4, <3>5 DEF IInv
  <2> QED BY <1>4, <2>2, <2>3, Zenon DEF Connect
<1>5. CASE SeeShutdown
  BY <1>1, <1>5, MoveKeeps DEF SeeShutdown, clocks
<1>6. CASE Wake
  BY <1>1, <1>6, MoveKeeps DEF Wake, clocks
<1>7. CASE LoopHead
  <2>1. /\ pc = "polling" /\ silence' = silence /\ read_for' = 0 /\ parts' = 0
        /\ UNCHANGED <<config, shutdown, device, retry, descriptor_received, phase>>
    BY <1>7 DEF LoopHead
  <2>2. WrittenOnce(next_write)
    BY <2>1 DEF IInv, BurstSpent
  <2>3. read_for' \in 0 .. 1 /\ parts' \in 0 .. MaxParts
    BY <2>1, ConstantsTyped
  <2>4. CASE shutdown
    <3>1. pc' = "stopped" /\ UNCHANGED <<next_write, wrote_frame, wrote, burst, stale>>
      BY <1>7, <2>4 DEF LoopHead
    <3>2. TypeOK'
      BY <2>1, <2>3, <3>1 DEF IInv, TypeOK, retry
    <3> QED BY <2>1, <3>1, <3>2 DEF IInv, ConfigAccepted, BackoffInRange, DelayInRange,
                                   BurstSpent
  <2>5. CASE ~shutdown
    <3>1. Poll(next_write, "reading")
      BY <1>7, <2>5 DEF LoopHead
    <3> QED BY <1>1, <2>1, <2>2, <2>3, <3>1, SessionKeeps DEF retry
  <2> QED BY <2>4, <2>5
<1>8. CASE LoopEnd
  <2>1. WrittenOnce(next_write)
    BY <1>8 DEF LoopEnd, IInv, BurstSpent
  <2> QED BY <1>1, <1>8, <2>1, SessionKeeps DEF LoopEnd, retry
<1>9. CASE ReadTimeout
  <2>1. /\ pc = "reading" /\ UNCHANGED <<processor, silence>>
        /\ UNCHANGED <<config, shutdown, device, read_for, parts, burst, phase>>
        /\ stale' \in Nat
    BY <1>1, <1>9 DEF ReadTimeout, AfterRead, KeepStale
  <2>2. CASE stream_timed_out
    <3>1. PICK next \in DelayRange : Delay(next)
      BY <1>2, <1>9, <2>1, <2>2 DEF ReadTimeout, Disconnected
    <3> QED BY <1>1, <2>1, <3>1, RetryKeeps DEF processor
  <2>3. CASE ~stream_timed_out
    BY <1>1, <1>9, <2>1, <2>3, MoveKeeps DEF ReadTimeout
  <2> QED BY <2>2, <2>3
<1>10. ASSUME NEW text \in Texts, ReadText(text) PROVE IInv'
  <2>1. /\ pc = "reading" /\ silence' = 0 /\ UNCHANGED <<next_write, wrote_frame>>
        /\ UNCHANGED <<config, shutdown, device, read_for, parts, burst, phase>>
        /\ stale' \in Nat
    BY <1>1, <1>10 DEF ReadText, Heard, AfterRead, KeepStale
  <2>2. CASE parse_descriptor(text) /\ ~descriptor_received
    BY <1>1, <1>10, <2>1, <2>2, MoveKeeps DEF ReadText
  <2>3. CASE ~(parse_descriptor(text) /\ ~descriptor_received)
    <3>1. Delay(backoff_next) /\ descriptor_received' = descriptor_received
      BY <1>10, <2>3 DEF ReadText, ProtocolError
    <3> QED BY <1>1, <1>2, <2>1, <3>1, RetryKeeps
  <2> QED BY <2>2, <2>3
<1>11. CASE ReadPart
  <2>1. /\ pc = "reading" /\ parts' \in 0 .. MaxParts /\ read_for' \in 0 .. 1
    BY <1>1, <1>11, ConstantsTyped DEF ReadPart
  <2>2. TypeOK'
    BY <1>11, <2>1 DEF IInv, TypeOK, ReadPart, retry, processor
  <2> QED BY <1>11, <2>2 DEF ReadPart, IInv, ConfigAccepted, BackoffInRange, DelayInRange,
            DelayRange, BurstSpent, WrittenOnce, retry, processor
<1>12. CASE ReadFrame
  <2> DEFINE lead == IF next_write = None THEN 0 ELSE next_write
  <2>1. /\ pc = "reading" /\ silence' = 0 /\ Poll(lead, "handled")
        /\ UNCHANGED <<config, shutdown, device, rest, delay, descriptor_received,
                       read_for, parts>>
    BY <1>12 DEF ReadFrame, Heard
  <2>2. phase' \in 0 .. Interval - 1
    BY <1>1, <1>12, ConstantsTyped DEF ReadFrame
  <2>3. backoff_next' = backoff_next \/ backoff_next' = config["reconnect_initial"]
    BY <1>12, <2>1 DEF ReadFrame, reset_in_session
  <2>4. lead \in Int \cup {None} /\ WrittenOnce(lead)
    BY <1>1, <2>1, ConstantsTyped DEF IInv, BurstSpent, WrittenOnce
  <2> HIDE DEF lead
  <2> QED BY <1>1, <2>1, <2>2, <2>3, <2>4, SessionKeeps
<1>13. CASE ReadBadFrame
  BY <1>1, <1>2, <1>13, RetryKeeps
     DEF ReadBadFrame, Heard, ProtocolError, AfterRead, KeepStale, processor
<1>14. CASE ReadControl
  <2>1. /\ pc = "reading" /\ silence' = 0 /\ UNCHANGED processor
        /\ UNCHANGED <<config, shutdown, device, read_for, parts, burst, phase>>
        /\ stale' \in Nat
    BY <1>1, <1>14 DEF ReadControl, Heard, AfterRead, KeepStale
  <2>2. CASE pc' = "handled" /\ UNCHANGED <<retry, wrote>>
    BY <1>1, <2>1, <2>2, MoveKeeps
  <2>3. CASE Delay(backoff_next)
    BY <1>1, <1>2, <2>1, <2>3, RetryKeeps DEF processor
  <2> QED BY <1>14, <2>2, <2>3 DEF ReadControl, ConnectionError
<1>15. CASE ReadClose
  <2>1. PICK next \in DelayRange : Delay(next)
    BY <1>2, <1>15 DEF ReadClose, Disconnected
  <2> QED BY <1>1, <1>15, <2>1, RetryKeeps DEF ReadClose, AfterRead, KeepStale, processor
<1>16. CASE ReadError
  BY <1>1, <1>2, <1>16, RetryKeeps DEF ReadError, ConnectionError, AfterRead, KeepStale, processor
<1>17. CASE Signal
  <2>1. TypeOK'
    BY <1>17 DEF Signal, IInv, TypeOK, retry, processor, clocks
  <2> QED BY <1>17, <2>1 DEF Signal, IInv, ConfigAccepted, BackoffInRange, DelayInRange,
            DelayRange, BurstSpent, WrittenOnce, retry, processor, clocks
<1>18. CASE DeviceChanges
  <2>1. TypeOK'
    BY <1>18 DEF DeviceChanges, IInv, TypeOK, retry, processor, clocks
  <2> QED BY <1>18, <2>1 DEF DeviceChanges, IInv, ConfigAccepted, BackoffInRange, DelayInRange,
            DelayRange, BurstSpent, WrittenOnce, retry, processor, clocks
<1>19. CASE Tick
  <2>1. /\ UNCHANGED <<pc, config, shutdown, device, backoff_next, delay,
                       descriptor_received, wrote_frame, parts, stale, wrote>>
        /\ burst' = 0
    BY <1>19 DEF Tick
  <2>2. next_write' \in Int \cup {None}
    <3>1. Interval \in Int /\ next_write \in Int \cup {None}
      BY <1>1, ConstantsTyped
    <3>2. CASE next_write = None \/ pc = "sleeping"
      BY <1>19, <3>1, <3>2 DEF Tick
    <3>3. CASE ~(next_write = None \/ pc = "sleeping")
      <4>1. next_write' = next_write - 1 + IF next_write = -MaxStall THEN Interval ELSE 0
        BY <1>19, <3>3, Zenon DEF Tick
      <4> QED BY <3>1, <3>3, <4>1
    <3> QED BY <3>2, <3>3
  <2>3. rest \in Nat /\ rest' \in Nat /\ rest' <= rest
    BY <1>19 DEF Tick, IInv, TypeOK
  <2>4. silence' \in Nat
    BY <1>1, <1>19 DEF Tick, MinOf, IInv, BackoffInRange, ConfigAccepted, Durations
  <2>5. read_for' \in 0 .. 1
    BY <1>1, <1>19 DEF Tick
  <2>6. phase' \in 0 .. Interval - 1
    BY <1>1, <1>19, ConstantsTyped DEF Tick
  <2>7. TypeOK'
    BY <2>1, <2>2, <2>3, <2>4, <2>5, <2>6 DEF IInv, TypeOK
  <2>8. ConfigAccepted' /\ BackoffInRange' /\ BurstSpent'
    BY <2>1 DEF IInv, ConfigAccepted, BackoffInRange, DelayRange, BurstSpent, WrittenOnce
  <2>9. DelayInRange'
    <3>1. delay \in Nat
      BY DEF IInv, TypeOK
    <3> QED BY <2>1, <2>3, <3>1 DEF IInv, DelayInRange, DelayRange
  <2> QED BY <2>7, <2>8, <2>9 DEF IInv
<1>20. CASE UNCHANGED vars
  <2>1. TypeOK'
    BY <1>20 DEF vars, IInv, TypeOK, retry, processor, clocks
  <2> QED BY <1>20, <2>1 DEF vars, IInv, ConfigAccepted, BackoffInRange, DelayInRange,
            DelayRange, BurstSpent, WrittenOnce, retry, processor, clocks
<1> QED BY <1>3, <1>4, <1>5, <1>6, <1>7, <1>8, <1>9, <1>10, <1>11, <1>12, <1>13, <1>14,
           <1>15, <1>16, <1>17, <1>18, <1>19, <1>20 DEF Next, Thread, Server

-----------------------------------------------------------------------------
(* The theorems.                                                           *)

(* The inductive invariant holds throughout.                               *)
THEOREM Invariance == Spec => []IInv
BY InitIInv, NextIInv, PTL DEF Spec

(* The state of the bridge is well typed, whatever the server sends        *)
(* (bridge.rs, backoff.rs, config.rs).                                     *)
THEOREM TypeCorrect == Spec => []TypeOK
<1>1. IInv => TypeOK
  BY DEF IInv
<1> QED BY <1>1, Invariance, PTL

(* Every wait between two attempts lies within the configured delays       *)
(* (backoff.rs:20-28, bridge.rs:43-74, config.rs:71-79).                   *)
THEOREM DelayStaysInBounds == Spec => []DelayInBounds
<1>1. IInv => DelayInBounds
  BY DEF IInv, DelayInRange, DelayRange, DelayInBounds
<1> QED BY <1>1, Invariance, PTL

(* No two frames are written at one instant, although a round polls twice  *)
(* and every frame that arrives polls too (bridge.rs:27-37, 254-274).      *)
THEOREM NeverBursts == Spec => []NoBurst
<1>1. IInv => NoBurst
  BY DEF IInv, BurstSpent, NoBurst
<1> QED BY <1>1, Invariance, PTL

-----------------------------------------------------------------------------
(* What ends the process.                                                  *)

StoppedBySignal == pc = "stopped" => shutdown

EndIsBlamed ==
  /\ pc' = "failed" /\ pc # "failed" =>
       config = None \/ ~device_opens(device) \/ ~device.writes
  /\ pc' = "stopped" => shutdown

LEMMA NextEnds == StoppedBySignal /\ Next => EndIsBlamed /\ shutdown' \in {shutdown, TRUE}
<1> SUFFICES ASSUME StoppedBySignal, Next PROVE EndIsBlamed /\ shutdown' \in {shutdown, TRUE}
  OBVIOUS
<1> USE DEF EndIsBlamed, StoppedBySignal
<1>1. CASE Start
  BY <1>1 DEF Start
<1>2. CASE Connect
  BY <1>2 DEF Connect, Delay
<1>3. CASE SeeShutdown
  BY <1>3 DEF SeeShutdown
<1>4. CASE Wake
  BY <1>4 DEF Wake
<1>5. CASE LoopHead
  BY <1>5 DEF LoopHead, Poll
<1>6. CASE LoopEnd
  BY <1>6 DEF LoopEnd, Poll
<1>7. CASE ReadTimeout
  BY <1>7 DEF ReadTimeout, Disconnected, Delay, AfterRead
<1>8. ASSUME NEW text \in Texts, ReadText(text) PROVE EndIsBlamed /\ shutdown' \in {shutdown, TRUE}
  BY <1>8 DEF ReadText, Heard, ProtocolError, Delay, AfterRead
<1>9. CASE ReadPart
  BY <1>9 DEF ReadPart, retry, processor, clocks
<1>10. CASE ReadFrame
  BY <1>10 DEF ReadFrame, Heard, Poll
<1>11. CASE ReadBadFrame
  BY <1>11 DEF ReadBadFrame, Heard, ProtocolError, Delay, AfterRead
<1>12. CASE ReadControl
  BY <1>12 DEF ReadControl, Heard, ConnectionError, Delay, AfterRead
<1>13. CASE ReadClose
  BY <1>13 DEF ReadClose, Disconnected, Delay, AfterRead
<1>14. CASE ReadError
  BY <1>14 DEF ReadError, ConnectionError, Delay, AfterRead
<1>15. CASE Signal
  BY <1>15 DEF Signal, retry, processor, clocks
<1>16. CASE DeviceChanges
  BY <1>16 DEF DeviceChanges, retry, processor, clocks
<1>17. CASE Tick
  BY <1>17 DEF Tick, retry, processor, clocks
<1> QED BY <1>1, <1>2, <1>3, <1>4, <1>5, <1>6, <1>7, <1>8, <1>9, <1>10, <1>11, <1>12, <1>13, <1>14, <1>15, <1>16, <1>17 DEF Next, Thread, Server

(* The process ends by itself only for its configuration or its device,    *)
(* and without an error only after a signal; nothing a server does ends it *)
(* (bridge.rs:43-76, 203-240).                                             *)
THEOREM OnlyTheDeviceEnds == Spec => OnlyDeviceErrorsEnd
<1>1. Init => StoppedBySignal
  BY DEF Init, StoppedBySignal
<1>2. StoppedBySignal /\ [Next]_vars => StoppedBySignal'
  <2>1. CASE Next
    BY <2>1, NextEnds DEF EndIsBlamed, StoppedBySignal
  <2>2. CASE UNCHANGED vars
    BY <2>2 DEF vars, StoppedBySignal
  <2> QED BY <2>1, <2>2
<1>3. StoppedBySignal /\ [Next]_vars => [EndIsBlamed]_vars
  BY NextEnds
<1> QED BY <1>1, <1>2, <1>3, PTL DEF Spec, OnlyDeviceErrorsEnd, EndIsBlamed

-----------------------------------------------------------------------------
(* The backoff and the frames.  The first frame of a session is written    *)
(* when it arrives, and resets the backoff, or it ends the process: so a   *)
(* session that paces frames has written one and has reset the backoff,    *)
(* and the errors that leave the backoff alone leave it reset.             *)

\* What the next delay is.
AfterFailure ==
  IF wrote \/ delay = 0 THEN config["reconnect_initial"] ELSE doubled(delay)

BackoffTracks ==
  /\ pc = "opening" => delay = 0 /\ wrote = FALSE
  /\ pc \in {"connecting", "sleeping"} => wrote = FALSE
  /\ pc \in Running => backoff_next = AfterFailure
  /\ pc \in Session => /\ next_write # None <=> wrote = TRUE
                       /\ wrote_frame = wrote

DelayFollows == pc # "sleeping" /\ pc' = "sleeping" => delay' = AfterFailure

\* A delay taken from what is due next is followed by its double.
LEMMA RetryTracks ==
  ASSUME IInv, BackoffTracks, pc \in Running, Delay(AfterFailure), UNCHANGED config
  PROVE  BackoffTracks' /\ DelayFollows
<1>1. AfterFailure \in DelayRange /\ config # None /\ ConfigAccepted
  BY DEF BackoffTracks, IInv, BackoffInRange
<1>2. AfterFailure # 0
  BY <1>1 DEF DelayRange, ConfigAccepted, Durations
<1>3. /\ rest' = AfterFailure /\ delay' = AfterFailure /\ pc' = "sleeping" /\ wrote' = FALSE
      /\ backoff_next' = doubled(AfterFailure)
  BY DEF Delay
<1>4. backoff_next' = doubled(delay)'
  BY <1>3 DEF doubled
<1>5. AfterFailure' = doubled(delay)'
  BY <1>2, <1>3 DEF AfterFailure
<1> QED BY <1>3, <1>4, <1>5 DEF BackoffTracks, DelayFollows, Running, Session

\* A poll in a session that paces frames, or with the first frame.
LEMMA PollTracks ==
  ASSUME IInv, BackoffTracks, pc \in Session, NEW lead \in Int \cup {None},
         NEW then \in Session, Poll(lead, then), UNCHANGED <<config, delay>>,
         \/ lead = next_write /\ UNCHANGED backoff_next
         \/ lead = 0 /\ next_write = None /\ reset_in_session
         \/ lead = next_write /\ next_write # None /\ reset_in_session
  PROVE  BackoffTracks' /\ DelayFollows
<1>1. /\ wrote \in BOOLEAN /\ wrote_frame \in BOOLEAN /\ None \notin Int
      /\ pc \in Running
  BY ConstantsTyped DEF IInv, TypeOK, Running
<1>2. backoff_next = AfterFailure /\ wrote_frame = wrote /\ (next_write # None <=> wrote = TRUE)
  BY <1>1 DEF BackoffTracks
<1>3. pc' \in {then, "failed"} /\ pc' # "sleeping" /\ pc' # "connecting" /\ pc' # "opening"
  BY DEF Poll, Session
<1>4. DelayFollows
  BY <1>3 DEF DelayFollows
<1>5. CASE IF lead = None THEN TRUE ELSE lead > 0
  <2>1. next_write' = lead /\ wrote_frame' = wrote_frame /\ wrote' = wrote /\ lead = next_write
    BY <1>1, <1>5 DEF Poll
  <2>2. AfterFailure' = AfterFailure
    BY <2>1 DEF AfterFailure, doubled
  <2>3. backoff_next' = backoff_next
    <3>1. CASE wrote = TRUE
      <4>1. backoff_next = config["reconnect_initial"]
        BY <1>2, <3>1 DEF AfterFailure
      <4> QED BY <2>1, <1>2, <3>1, <4>1 DEF reset_in_session
    <3>2. CASE wrote = FALSE
      BY <1>2, <2>1, <3>2 DEF reset_in_session
    <3> QED BY <1>1, <3>1, <3>2
  <2> QED BY <1>2, <1>3, <1>4, <2>1, <2>2, <2>3 DEF BackoffTracks
<1>6. CASE ~(IF lead = None THEN TRUE ELSE lead > 0) /\ device.writes
  <2>1. /\ next_write' = next_periodic_deadline(lead) /\ wrote_frame' = TRUE /\ wrote' = TRUE
        /\ pc' = then
    BY <1>6, Zenon DEF Poll
  <2>2. lead \in Int /\ lead <= 0
    BY <1>6
  <2>3. next_write' # None
    BY <1>1, <2>1, <2>2, DeadlineAhead
  <2>4. AfterFailure' = config["reconnect_initial"]
    BY <2>1 DEF AfterFailure
  <2>5. backoff_next' = config["reconnect_initial"]
    <3>1. CASE lead = next_write /\ UNCHANGED backoff_next
      BY <1>1, <1>2, <2>2, <3>1 DEF AfterFailure
    <3>2. CASE reset_in_session
      BY <2>1, <3>2 DEF reset_in_session
    <3> QED BY <3>1, <3>2
  <2> QED BY <1>3, <1>4, <2>1, <2>3, <2>4, <2>5 DEF BackoffTracks
<1>7. CASE ~(IF lead = None THEN TRUE ELSE lead > 0) /\ ~device.writes
  <2>1. pc' = "failed"
    BY <1>7, Zenon DEF Poll
  <2> QED BY <1>4, <2>1 DEF BackoffTracks, Running, Session
<1> QED BY <1>5, <1>6, <1>7

\* A step that leaves the backoff and the frames alone.
LEMMA MoveTracks ==
  ASSUME BackoffTracks, UNCHANGED <<config, backoff_next, delay, wrote>>,
         pc' # "opening",
         pc' \in {"sleeping", "connecting"} => pc \in {"sleeping", "connecting"},
         pc' = "sleeping" => pc = "sleeping",
         pc' \in Session => pc \in Session /\ wrote_frame' = wrote_frame
                            /\ (next_write' = None <=> next_write = None)
  PROVE  BackoffTracks' /\ DelayFollows
<1>1. AfterFailure' = AfterFailure
  BY DEF AfterFailure, doubled
<1> QED BY <1>1 DEF BackoffTracks, DelayFollows, Running

\* What is due next after an error, and after an orderly end.
LEMMA DueNext ==
  ASSUME IInv, BackoffTracks
  PROVE  /\ pc \in Running => backoff_next = AfterFailure
         /\ pc \in Session => (IF wrote_frame THEN config["reconnect_initial"]
                                              ELSE backoff_next) = AfterFailure
<1>1. pc \in Running => backoff_next = AfterFailure
  BY DEF BackoffTracks
<1>2. CASE pc \in Session /\ wrote_frame = TRUE
  BY <1>2 DEF BackoffTracks, AfterFailure, Running
<1>3. CASE pc \in Session /\ wrote_frame = FALSE
  BY <1>1, <1>3 DEF Running
<1>4. wrote_frame \in BOOLEAN
  BY DEF IInv, TypeOK
<1> QED BY <1>1, <1>2, <1>3, <1>4

LEMMA NextTracks == IInv /\ BackoffTracks /\ Next => BackoffTracks' /\ DelayFollows
<1> SUFFICES ASSUME IInv, BackoffTracks, Next PROVE BackoffTracks' /\ DelayFollows
  OBVIOUS
<1>1. CASE Start
  <2>1. pc = "opening" /\ UNCHANGED <<config, wrote, delay>> /\ pc' \in {"connecting", "failed"}
    BY <1>1 DEF Start
  <2>2. CASE pc' = "failed"
    BY <2>2 DEF BackoffTracks, DelayFollows, Running, Session
  <2>3. CASE pc' = "connecting"
    <3>1. backoff_next' = config["reconnect_initial"]
      BY <1>1, <2>3 DEF Start
    <3>2. delay' = 0 /\ wrote' = FALSE
      BY <2>1 DEF BackoffTracks
    <3>3. AfterFailure' = config["reconnect_initial"]
      BY <2>1, <3>2 DEF AfterFailure
    <3> QED BY <2>3, <3>1, <3>2, <3>3 DEF BackoffTracks, DelayFollows, Session
  <2> QED BY <2>1, <2>2, <2>3
<1>2. CASE Connect
  <2>1. pc = "connecting" /\ UNCHANGED config
    BY <1>2 DEF Connect
  <2>2. CASE Delay(backoff_next)
    BY <2>1, <2>2, DueNext, RetryTracks DEF Running
  <2>3. CASE /\ pc' = IF device_opens(device) THEN "polling" ELSE "failed"
             /\ NewProcessor
             /\ UNCHANGED <<retry, wrote>>
    <3>1. pc' \in {"polling", "failed"} /\ next_write' = None /\ wrote_frame' = FALSE
          /\ UNCHANGED <<backoff_next, delay, wrote>>
      BY <2>3, Zenon DEF NewProcessor, retry
    <3>2. wrote = FALSE /\ backoff_next = AfterFailure
      BY <2>1 DEF BackoffTracks, Running
    <3>3. AfterFailure' = AfterFailure
      BY <2>1, <3>1 DEF AfterFailure, doubled
    <3> QED BY <3>1, <3>2, <3>3 DEF BackoffTracks, DelayFollows
  <2> QED BY <1>2, <2>2, <2>3, Zenon DEF Connect
<1>3. CASE SeeShutdown \/ Wake
  BY <1>3, MoveTracks DEF SeeShutdown, Wake, retry, processor, Session
<1>4. CASE LoopHead
  <2>1. pc = "polling" /\ UNCHANGED <<config, delay, backoff_next>>
    BY <1>4 DEF LoopHead, retry
  <2>2. CASE shutdown
    BY <1>4, <2>1, <2>2, MoveTracks DEF LoopHead, Session
  <2>3. CASE ~shutdown
    <3>1. Poll(next_write, "reading")
      BY <1>4, <2>3 DEF LoopHead
    <3>2. next_write \in Int \cup {None}
      BY DEF IInv, TypeOK
    <3> QED BY <2>1, <3>1, <3>2, PollTracks DEF Session
  <2> QED BY <2>2, <2>3
<1>5. CASE LoopEnd
  <2>1. next_write \in Int \cup {None}
    BY DEF IInv, TypeOK
  <2> QED BY <1>5, <2>1, PollTracks DEF LoopEnd, retry, Session
<1>6. CASE ReadTimeout
  <2>1. CASE stream_timed_out
    BY <1>6, <2>1, DueNext, RetryTracks
       DEF ReadTimeout, Disconnected, AfterRead, Running, Session
  <2>2. CASE ~stream_timed_out
    BY <1>6, <2>2, MoveTracks DEF ReadTimeout, AfterRead, retry, processor, Session
  <2> QED BY <2>1, <2>2
<1>7. ASSUME NEW text \in Texts, ReadText(text) PROVE BackoffTracks' /\ DelayFollows
  <2>1. CASE parse_descriptor(text) /\ ~descriptor_received
    BY <1>7, <2>1, MoveTracks DEF ReadText, Heard, AfterRead, retry, Session
  <2>2. CASE ~(parse_descriptor(text) /\ ~descriptor_received)
    BY <1>7, <2>2, DueNext, RetryTracks
       DEF ReadText, Heard, ProtocolError, AfterRead, Running, Session
  <2> QED BY <2>1, <2>2
<1>8. CASE ReadPart
  BY <1>8, MoveTracks DEF ReadPart, retry, processor, Session
<1>9. CASE ReadFrame
  <2>1. /\ pc = "reading" /\ UNCHANGED <<config, delay>> /\ reset_in_session
        /\ Poll(IF next_write = None THEN 0 ELSE next_write, "handled")
    BY <1>9 DEF ReadFrame, Heard
  <2>2. next_write \in Int \cup {None}
    BY DEF IInv, TypeOK
  <2>3. CASE next_write = None
    <3>1. Poll(0, "handled")
      BY <2>1, <2>3
    <3> QED BY <2>1, <2>3, <3>1, PollTracks DEF Session
  <2>4. CASE next_write # None
    <3>1. Poll(next_write, "handled")
      BY <2>1, <2>4
    <3> QED BY <2>1, <2>2, <2>4, <3>1, PollTracks DEF Session
  <2> QED BY <2>3, <2>4
<1>10. CASE ReadBadFrame
  BY <1>10, DueNext, RetryTracks
     DEF ReadBadFrame, Heard, ProtocolError, AfterRead, Running, Session
<1>11. CASE ReadControl
  <2>1. CASE pc' = "handled" /\ UNCHANGED <<retry, wrote>>
    BY <1>11, <2>1, MoveTracks DEF ReadControl, Heard, AfterRead, retry, processor, Session
  <2>2. CASE ConnectionError
    BY <1>11, <2>2, DueNext, RetryTracks
       DEF ReadControl, Heard, ConnectionError, AfterRead, Running, Session
  <2> QED BY <1>11, <2>1, <2>2 DEF ReadControl
<1>12. CASE ReadClose
  BY <1>12, DueNext, RetryTracks DEF ReadClose, Disconnected, AfterRead, Running, Session
<1>13. CASE ReadError
  BY <1>13, DueNext, RetryTracks DEF ReadError, ConnectionError, AfterRead, Running, Session
<1>14. CASE Signal \/ DeviceChanges
  <2>1. UNCHANGED <<pc, config, backoff_next, delay, wrote, next_write, wrote_frame>>
    BY <1>14 DEF Signal, DeviceChanges, retry, processor
  <2>2. AfterFailure' = AfterFailure
    BY <2>1 DEF AfterFailure, doubled
  <2> QED BY <2>1, <2>2 DEF BackoffTracks, DelayFollows
<1>15. CASE Tick
  <2>1. /\ pc \in Session \cup {"sleeping"}
        /\ UNCHANGED <<pc, config, backoff_next, delay, wrote, wrote_frame>>
    BY <1>15 DEF Tick
  <2>2. next_write' = None <=> next_write = None
    <3>1. Interval \in Int /\ next_write \in Int \cup {None} /\ None \notin Int
      BY ConstantsTyped DEF IInv, TypeOK
    <3>2. CASE next_write = None \/ pc = "sleeping"
      BY <1>15, <3>2 DEF Tick
    <3>3. CASE ~(next_write = None \/ pc = "sleeping")
      <4>1. next_write' = next_write - 1 + IF next_write = -MaxStall THEN Interval ELSE 0
        BY <1>15, <3>3, Zenon DEF Tick
      <4> QED BY <3>1, <3>3, <4>1
    <3> QED BY <3>2, <3>3
  <2> QED BY <2>1, <2>2, MoveTracks DEF Session
<1> QED BY <1>1, <1>2, <1>3, <1>4, <1>5, <1>6, <1>7, <1>8, <1>9, <1>10, <1>11, <1>12, <1>13,
           <1>14, <1>15 DEF Next, Thread, Server

(* Each delay is the initial one if a frame was written since the last,    *)
(* and otherwise twice the last up to the maximum, however the session     *)
(* ended (bridge.rs:49-69, 164-171).                                       *)
THEOREM DelaysFollowFrames == Spec => BackoffFollowsFrames
<1>1. Init => BackoffTracks
  BY DEF Init, BackoffTracks, Running, Session
<1>2. IInv /\ BackoffTracks /\ [Next]_vars => BackoffTracks'
  <2>1. ASSUME BackoffTracks, UNCHANGED vars PROVE BackoffTracks'
    <3>1. UNCHANGED <<pc, config, backoff_next, delay, wrote, next_write, wrote_frame>>
      BY <2>1 DEF vars, retry, processor
    <3>2. AfterFailure' = AfterFailure
      BY <3>1 DEF AfterFailure, doubled
    <3> QED BY <2>1, <3>1, <3>2 DEF BackoffTracks
  <2> QED BY <2>1, NextTracks
<1>3. IInv /\ BackoffTracks /\ [Next]_vars =>
        [ pc # "sleeping" /\ pc' = "sleeping" =>
            delay' = IF wrote \/ delay = 0
                       THEN config["reconnect_initial"]
                       ELSE MinOf(2 * delay, config["reconnect_max"]) ]_vars
  BY NextTracks DEF DelayFollows, AfterFailure, doubled
<1> QED BY <1>1, <1>2, <1>3, Invariance, PTL DEF Spec, BackoffFollowsFrames

-----------------------------------------------------------------------------
(* The cadence.  A deadline and the phase add up to whole intervals, since *)
(* a write adds whole intervals, and time takes from the one what it gives *)
(* to the other.  After the I/O timeout the polls of a round are all that  *)
(* is left of the session, because the timeout of the read ends it and any *)
(* message starts the silence, and the count, again.                       *)

InPhase(lead, p) == (\E k \in Int : lead + p = Interval * k) /\ lead <= Interval

PhaseHeld == pc \in Session /\ next_write # None => InPhase(next_write, phase)

StaleAllowed == IF pc = "handled" THEN 0 ELSE IF pc = "polling" THEN 1 ELSE 2

StaleSpent ==
  /\ stale \in 0 .. 2
  /\ pc \in Session => /\ stale <= StaleAllowed
                       /\ stale > 0 => silence >= config["io_timeout"]

CadenceHeld == PhaseHeld /\ StaleSpent

\* Whole intervals leave no remainder.
LEMMA MultipleMod ==
  ASSUME NEW k \in Int
  PROVE  (Interval * k) % Interval = 0
<1>1. Interval \in Nat \ {0}
  BY ConstantsTyped
<1> DEFINE x == Interval * k  q == x \div Interval  r == x % Interval
<1>2. x \in Int
  BY <1>1, SMT
<1> HIDE DEF x
<1>3. q \in Int /\ r \in 0 .. Interval - 1 /\ x = Interval * q + r
  BY <1>1, <1>2, SMT
<1> HIDE DEF q, r
<1>4. PICK d \in Int : d = k - q
  BY <1>3
<1>5. r = Interval * d
  BY <1>1, <1>3, <1>4, SMT DEF x
<1>6. ~(d >= 1) /\ ~(d <= -1)
  BY <1>1, <1>3, <1>5, SMT
<1>7. d = 0
  BY <1>6, SMT
<1> QED BY <1>1, <1>5, <1>7, SMT DEF r, x

\* Time, and the wrapping of lateness and phase, keep the phase.
LEMMA InPhaseTick ==
  ASSUME NEW lead \in Int, NEW p \in 0 .. Interval - 1, InPhase(lead, p),
         NEW next \in Int, next \in {lead - 1, lead - 1 + Interval}, next <= Interval
  PROVE  InPhase(next, (p + 1) % Interval)
<1>1. Interval \in Nat \ {0}
  BY ConstantsTyped
<1>2. PICK k \in Int : lead + p = Interval * k
  BY DEF InPhase
<1>3. (p + 1) % Interval \in {p + 1, p + 1 - Interval}
  <2>1. CASE p + 1 < Interval
    BY <1>1, <2>1, SMT
  <2>2. CASE p + 1 = Interval
    BY <1>1, <2>2, SMT
  <2> QED BY <1>1, <2>1, <2>2
<1>4. PICK j \in {k - 1, k, k + 1} : next + ((p + 1) % Interval) = Interval * j
  BY <1>1, <1>2, <1>3, SMT
<1>5. j \in Int
  BY <1>2, <1>4
<1> QED BY <1>4, <1>5 DEF InPhase

\* A write keeps the phase.
LEMMA InPhaseWrite ==
  ASSUME NEW lead \in Int, lead <= 0, NEW p \in Int, InPhase(lead, p)
  PROVE  InPhase(next_periodic_deadline(lead), p)
<1>1. Interval \in Nat \ {0}
  BY ConstantsTyped
<1>2. PICK k \in Int : lead + p = Interval * k
  BY DEF InPhase
<1>3. PICK q \in Int : q = (-lead) \div Interval
  BY <1>1, SMT
<1>4. next_periodic_deadline(lead) = lead + Interval * (q + 1)
  BY <1>3 DEF next_periodic_deadline
<1>5. lead + Interval * (q + 1) + p = Interval * (k + q + 1)
  BY <1>1, <1>2, <1>3, SMT
<1>6. next_periodic_deadline(lead) <= Interval
  BY <1>1, DeadlineAhead
<1> QED BY <1>4, <1>5, <1>6 DEF InPhase

\* A poll of a session keeps the phase; it repeats a picture after the timeout only
\* if no message came, and counts that.
LEMMA PollCadence ==
  ASSUME IInv, pc \in Session, NEW lead \in Int \cup {None}, NEW then \in Session,
         lead # None => InPhase(lead, phase'), Poll(lead, then),
         UNCHANGED config, phase' \in 0 .. Interval - 1, silence' \in Nat, stale \in 0 .. 2,
         stale > 0 => silence' = 0 \/ silence' >= config["io_timeout"],
         silence' = 0 \/ stale < (IF then = "polling" THEN 1 ELSE 2),
         silence' # 0 => then # "handled"
  PROVE  CadenceHeld'
<1>1. config # None /\ config["io_timeout"] \in Nat \ {0} /\ None \notin Int
  BY ConstantsTyped DEF IInv, BackoffInRange, Running, ConfigAccepted, Durations
<1>2. CASE IF lead = None THEN TRUE ELSE lead > 0
  <2>1. pc' = then /\ next_write' = lead /\ KeepStale
    BY <1>2 DEF Poll
  <2>2. PhaseHeld'
    BY <2>1 DEF PhaseHeld, InPhase
  <2>3. StaleSpent'
    BY <1>1, <2>1 DEF StaleSpent, StaleAllowed, KeepStale, Session
  <2> QED BY <2>2, <2>3 DEF CadenceHeld
<1>3. CASE ~(IF lead = None THEN TRUE ELSE lead > 0) /\ device.writes
  <2>1. /\ pc' = then /\ next_write' = next_periodic_deadline(lead)
        /\ stale' = IF silence' >= config["io_timeout"] THEN stale + 1 ELSE 0
    BY <1>3, Zenon DEF Poll
  <2>2. lead \in Int /\ lead <= 0 /\ lead # None
    BY <1>1, <1>3
  <2>3. InPhase(next_write', phase')
    BY <2>1, <2>2, InPhaseWrite
  <2>4. PhaseHeld'
    BY <2>3 DEF PhaseHeld, InPhase
  <2>5. StaleSpent'
    BY <1>1, <2>1 DEF StaleSpent, StaleAllowed, Session
  <2> QED BY <2>4, <2>5 DEF CadenceHeld
<1>4. CASE ~(IF lead = None THEN TRUE ELSE lead > 0) /\ ~device.writes
  <2>1. pc' = "failed" /\ KeepStale
    BY <1>4, Zenon DEF Poll
  <2> QED BY <2>1 DEF CadenceHeld, PhaseHeld, StaleSpent, KeepStale, Session
<1> QED BY <1>2, <1>3, <1>4

\* A step out of a session, or outside of one.
LEMMA LeaveCadence ==
  ASSUME CadenceHeld, pc' \notin Session, stale' \in {0, stale}
  PROVE  CadenceHeld'
BY DEF CadenceHeld, PhaseHeld, StaleSpent

\* A round that goes on to its end with nothing counted.
LEMMA HandledCadence ==
  ASSUME CadenceHeld, pc \in Session, pc' = "handled",
         next_write' = next_write, phase' = phase, stale' = 0
  PROVE  CadenceHeld'
BY DEF CadenceHeld, PhaseHeld, InPhase, StaleSpent, StaleAllowed, Session

LEMMA NextCadence == IInv /\ CadenceHeld /\ Next => CadenceHeld'
<1> SUFFICES ASSUME IInv, CadenceHeld, Next PROVE CadenceHeld'
  OBVIOUS
<1>1. /\ silence \in Nat /\ stale \in 0 .. 2 /\ phase \in 0 .. Interval - 1
      /\ next_write \in Int \cup {None} /\ None \notin Int
  BY ConstantsTyped DEF IInv, TypeOK, CadenceHeld, StaleSpent
<1>2. pc \in Session /\ next_write # None => InPhase(next_write, phase)
  BY DEF CadenceHeld, PhaseHeld
<1>3. pc \in Session => stale <= StaleAllowed /\ (stale > 0 => silence >= config["io_timeout"])
  BY DEF CadenceHeld, StaleSpent
<1>4. CASE Start
  BY <1>4, LeaveCadence DEF Start, clocks, Session
<1>5. CASE Connect
  <2>1. CASE Delay(backoff_next) /\ UNCHANGED <<processor, clocks>>
    BY <2>1, LeaveCadence DEF Delay, clocks, Session
  <2>2. CASE NewProcessor /\ stale' = 0
    BY <2>2 DEF NewProcessor, CadenceHeld, PhaseHeld, StaleSpent, StaleAllowed
  <2> QED BY <1>5, <2>1, <2>2, Zenon DEF Connect
<1>6. CASE SeeShutdown \/ Wake
  BY <1>6, LeaveCadence DEF SeeShutdown, Wake, clocks, Session
<1>7. CASE LoopHead
  <2>1. pc = "polling" /\ UNCHANGED <<config, silence, phase>>
    BY <1>7 DEF LoopHead
  <2>2. CASE shutdown
    BY <1>7, <2>2, LeaveCadence DEF LoopHead, Session
  <2>3. CASE ~shutdown
    <3>1. Poll(next_write, "reading") /\ stale <= 1
      BY <1>3, <1>7, <2>1, <2>3 DEF LoopHead, StaleAllowed, Session
    <3> QED BY <1>1, <1>2, <1>3, <2>1, <3>1, PollCadence DEF Session
  <2> QED BY <2>2, <2>3
<1>8. CASE LoopEnd
  <2>1. /\ pc = "handled" /\ UNCHANGED <<config, silence, phase>>
        /\ Poll(next_write, "polling")
    BY <1>8 DEF LoopEnd
  <2>2. stale = 0
    BY <1>1, <1>3, <2>1 DEF StaleAllowed, Session
  <2> QED BY <1>1, <1>2, <2>1, <2>2, PollCadence DEF Session
<1>9. CASE ReadTimeout
  <2>1. /\ pc = "reading" /\ UNCHANGED <<processor, silence>>
        /\ AfterRead
    BY <1>9 DEF ReadTimeout
  <2>2. CASE stream_timed_out
    BY <1>9, <2>1, <2>2, LeaveCadence
       DEF ReadTimeout, Disconnected, Delay, AfterRead, KeepStale, Session
  <2>3. CASE ~stream_timed_out
    <3>1. silence < config["io_timeout"]
      <4>1. config["io_timeout"] \in Nat
        BY <2>1 DEF IInv, BackoffInRange, ConfigAccepted, Running, Session, Durations
      <4> QED BY <1>1, <2>3, <4>1 DEF stream_timed_out
    <3>2. stale = 0
      BY <1>1, <1>3, <2>1, <3>1 DEF IInv, BackoffInRange, ConfigAccepted, Running, Session,
                                    Durations
    <3>3. pc' = "handled" /\ stale' = 0 /\ UNCHANGED <<next_write, phase>>
      BY <1>9, <2>1, <2>3, <3>2 DEF ReadTimeout, AfterRead, KeepStale, processor
    <3> QED BY <2>1, <3>3, HandledCadence DEF Session
  <2> QED BY <2>2, <2>3
<1>10. ASSUME NEW text \in Texts, ReadText(text) PROVE CadenceHeld'
  <2>1. CASE pc' = "handled"
    <3>1. pc \in Session /\ stale' = 0 /\ UNCHANGED <<next_write, phase>>
      BY <1>10 DEF ReadText, Heard, AfterRead, KeepStale, Session
    <3> QED BY <2>1, <3>1, HandledCadence
  <2>2. CASE ProtocolError
    BY <1>10, <2>2, LeaveCadence
       DEF ReadText, ProtocolError, Delay, AfterRead, KeepStale, Session
  <2> QED BY <1>10, <2>1, <2>2 DEF ReadText
<1>11. CASE ReadPart
  <2>1. UNCHANGED <<pc, config, next_write, silence, stale, phase>>
    BY <1>11 DEF ReadPart, processor
  <2> QED BY <2>1 DEF CadenceHeld, PhaseHeld, InPhase, StaleSpent, StaleAllowed
<1>12. CASE ReadFrame
  <2> DEFINE lead == IF next_write = None THEN 0 ELSE next_write
  <2>1. /\ pc = "reading" /\ silence' = 0 /\ UNCHANGED config
        /\ Poll(lead, "handled")
        /\ phase' = IF next_write = None THEN 0 ELSE phase
    BY <1>12 DEF ReadFrame, Heard
  <2>2. InPhase(lead, phase') /\ phase' \in 0 .. Interval - 1
    <3>1. Interval \in Nat \ {0} /\ 0 + 0 = Interval * 0 /\ 0 <= Interval
      BY ConstantsTyped
    <3>2. InPhase(0, 0)
      BY <3>1 DEF InPhase
    <3> QED BY <1>1, <1>2, <2>1, <3>1, <3>2 DEF Session
  <2>3. lead \in Int
    BY <1>1
  <2> HIDE DEF lead
  <2> QED BY <1>1, <2>1, <2>2, <2>3, PollCadence DEF Session
<1>13. CASE ReadBadFrame
  BY <1>13, LeaveCadence DEF ReadBadFrame, ProtocolError, Delay, AfterRead, KeepStale, Session
<1>14. CASE ReadControl
  <2>1. CASE pc' = "handled"
    <3>1. pc \in Session /\ stale' = 0 /\ UNCHANGED <<next_write, phase>>
      BY <1>14 DEF ReadControl, Heard, AfterRead, KeepStale, processor, Session
    <3> QED BY <2>1, <3>1, HandledCadence
  <2>2. CASE ConnectionError
    BY <1>14, <2>2, LeaveCadence
       DEF ReadControl, ConnectionError, Delay, AfterRead, KeepStale, Session
  <2> QED BY <1>14, <2>1, <2>2 DEF ReadControl
<1>15. CASE ReadClose
  BY <1>15, LeaveCadence DEF ReadClose, Disconnected, Delay, AfterRead, KeepStale, Session
<1>16. CASE ReadError
  BY <1>16, LeaveCadence DEF ReadError, ConnectionError, Delay, AfterRead, KeepStale, Session
<1>17. CASE Signal \/ DeviceChanges
  <2>1. UNCHANGED <<pc, config, next_write, silence, stale, phase>>
    BY <1>17 DEF Signal, DeviceChanges, processor, clocks
  <2> QED BY <2>1 DEF CadenceHeld, PhaseHeld, InPhase, StaleSpent, StaleAllowed
<1>18. CASE Tick
  <2>1. CASE pc = "sleeping"
    BY <1>18, <2>1, LeaveCadence DEF Tick, Session
  <2>2. CASE pc \in Session
    <3>1. /\ UNCHANGED <<pc, config, stale>> /\ phase' = (phase + 1) % Interval
          /\ silence' = MinOf(silence + 1, config["io_timeout"])
          /\ next_write' = IF next_write = None THEN next_write
               ELSE next_write - 1 + IF next_write = -MaxStall THEN Interval ELSE 0
      BY <1>18, <2>2 DEF Tick, Session
    <3>2. StaleSpent'
      <4>1. config["io_timeout"] \in Nat
        BY <2>2 DEF IInv, BackoffInRange, ConfigAccepted, Running, Durations
      <4>2. silence >= config["io_timeout"] => silence' >= config["io_timeout"]
        BY <1>1, <3>1, <4>1 DEF MinOf
      <4> QED BY <1>1, <1>3, <2>2, <3>1, <4>2 DEF StaleSpent, StaleAllowed
    <3>3. PhaseHeld'
      <4>1. CASE next_write = None
        BY <3>1, <4>1 DEF PhaseHeld
      <4>2. CASE next_write # None
        <5>1. /\ next_write \in Int /\ next_write <= Interval
              /\ Interval \in Nat \ {0} /\ MaxStall \in Nat
          BY <1>1, <1>2, <2>2, <4>2, EdgeBridgeAssumption DEF InPhase
        <5>2. /\ next_write' \in {next_write - 1, next_write - 1 + Interval}
              /\ next_write' \in Int /\ next_write' <= Interval
          BY <3>1, <4>2, <5>1
        <5>3. InPhase(next_write', phase')
          BY <1>1, <1>2, <2>2, <3>1, <4>2, <5>1, <5>2, InPhaseTick
        <5> QED BY <5>3 DEF PhaseHeld, InPhase
      <4> QED BY <4>1, <4>2
    <3> QED BY <3>2, <3>3 DEF CadenceHeld
  <2> QED BY <1>18, <2>1, <2>2 DEF Tick
<1> QED BY <1>4, <1>5, <1>6, <1>7, <1>8, <1>9, <1>10, <1>11, <1>12, <1>13, <1>14, <1>15,
           <1>16, <1>17, <1>18 DEF Next, Thread, Server

(* The cadence, for every interval and timeout and through every stall: at *)
(* most one frame at an instant, deadlines that keep the phase of the      *)
(* session's first frame and skip nothing ahead, and a picture of a silent *)
(* camera repeated at most twice after the I/O timeout (bridge.rs:27-37,   *)
(* 157-195, 254-274).                                                      *)
THEOREM CadenceIsKept == Spec => []CadenceKept
<1>1. Init => CadenceHeld
  BY DEF Init, CadenceHeld, PhaseHeld, StaleSpent, Session
<1>2. IInv /\ CadenceHeld /\ [Next]_vars => CadenceHeld'
  <2>1. ASSUME CadenceHeld, UNCHANGED vars PROVE CadenceHeld'
    <3>1. UNCHANGED <<pc, config, next_write, silence, stale, phase>>
      BY <2>1 DEF vars, processor, clocks
    <3> QED BY <2>1, <3>1 DEF CadenceHeld, PhaseHeld, InPhase, StaleSpent, StaleAllowed
  <2> QED BY <2>1, NextCadence
<1>3. IInv /\ CadenceHeld => CadenceKept
  <2> SUFFICES ASSUME IInv, CadenceHeld PROVE CadenceKept
    OBVIOUS
  <2>1. NoBurst /\ StaleTwice
    BY DEF IInv, BurstSpent, NoBurst, CadenceHeld, StaleSpent, StaleTwice
  <2>2. PhaseKept
    <3> SUFFICES ASSUME pc \in Session, next_write # None
                 PROVE  (next_write + phase) % Interval = 0 /\ next_write <= Interval
      BY DEF PhaseKept
    <3>1. PICK k \in Int : next_write + phase = Interval * k
      BY DEF CadenceHeld, PhaseHeld, InPhase
    <3> QED BY <3>1, MultipleMod DEF CadenceHeld, PhaseHeld, InPhase
  <2> QED BY <2>1, <2>2 DEF CadenceKept
<1> QED BY <1>1, <1>2, <1>3, Invariance, PTL DEF Spec
=============================================================================
