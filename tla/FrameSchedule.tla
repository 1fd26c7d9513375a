--------------------------- MODULE FrameSchedule ---------------------------
(***************************************************************************)
(* synthetic_camera/scheduler.py and the interpolation it selects: at      *)
(* which simulation times the camera shows frames between two successive   *)
(* observations.  Times are integers in a unit that divides the frame      *)
(* interval 1/fps; the tolerances of the code, which absorb the rounding   *)
(* of its floats, are then zero.                                           *)
(***************************************************************************)
EXTENDS RunState

CONSTANTS
  grid_of(_),        \* the grid of an observation: cell size, X, Y, shape
  FrameInterval,     \* 1 / config.video.fps
  MaxGap,            \* timing.max_interpolation_gap_s
  MaxSegmentFrames   \* timing.max_segment_frames

\* Why a frame is held: the codes of an InterpolationError, or the limit on frames.
Reasons == {"run", "sequence", "time", "gap", "grid", "frame_limit"}

ASSUME FrameScheduleAssumption ==
  /\ FrameInterval \in Nat \ {0}
  /\ MaxGap \in Nat \ {0}
  /\ MaxSegmentFrames \in Nat \ {0}
  /\ None \notin Reasons   \* the absence of a reason is not one

Frame == [left: Observation, right: Observation, at: Nat,
          mode: {"exact", "interpolated", "hold"}, reason: Reasons \cup {None}]

exact_frame(o) ==
  [left |-> o, right |-> o, at |-> o.elapsed_s, mode |-> "exact", reason |-> None]

-----------------------------------------------------------------------------
duration(left, right) == right.elapsed_s - left.elapsed_s

\* Mutant: a gap in the sequence is bridged.
SegmentError_any_sequence(left, right) ==
  IF left.run_id # right.run_id THEN "run"
  ELSE IF duration(left, right) <= 0 THEN "time"
  ELSE IF duration(left, right) > MaxGap THEN "gap"
  ELSE IF grid_of(left) # grid_of(right) THEN "grid"
  ELSE None

\* The code of the InterpolationError of validate_interpolation_segment, or None.
SegmentError(left, right) ==
  IF left.run_id # right.run_id THEN "run"
  ELSE IF right.sequence # left.sequence + 1 THEN "sequence"
  ELSE IF duration(left, right) <= 0 THEN "time"
  ELSE IF duration(left, right) > MaxGap THEN "gap"
  ELSE IF grid_of(left) # grid_of(right) THEN "grid"
  ELSE None

regular_count(left, right) == duration(left, right) \div FrameInterval

\* The regular times that lie before the right end.
inside_count(left, right) ==
  IF regular_count(left, right) * FrameInterval < duration(left, right)
    THEN regular_count(left, right)
    ELSE regular_count(left, right) - 1

hold(right, reason) ==
  <<[elapsed_s |-> right.elapsed_s, mode |-> "hold", reason |-> reason]>>

\* Mutant: the limit on the frames of a segment is not applied.
FrameLimit_never(left, right) == FALSE

FrameLimit(left, right) ==
  \/ duration(left, right) > MaxSegmentFrames * FrameInterval
  \/ inside_count(left, right) + 1 > MaxSegmentFrames

schedule_segment(left, right) ==
  LET n == inside_count(left, right) IN
  IF SegmentError(left, right) # None THEN hold(right, SegmentError(left, right))
  ELSE IF FrameLimit(left, right) THEN hold(right, "frame_limit")
  ELSE [i \in 1 .. n + 1 |->
          IF i <= n
            THEN [elapsed_s |-> left.elapsed_s + i * FrameInterval,
                  mode |-> "interpolated", reason |-> None]
            ELSE [elapsed_s |-> right.elapsed_s, mode |-> "exact", reason |-> None]]

\* interpolate_observations: a blend of the two surfaces at a time strictly
\* between them, one of the observations itself at its own time.
interpolate_observations(left, right, at) ==
  [left |-> left, right |-> right, at |-> at, reason |-> None,
   mode |-> IF at \in {left.elapsed_s, right.elapsed_s} THEN "exact" ELSE "interpolated"]

materialize_target(left, right, target) ==
  IF target.mode = "hold"
    THEN [left |-> left, right |-> right, at |-> right.elapsed_s,
          mode |-> "hold", reason |-> target.reason]
    ELSE interpolate_observations(left, right, target.elapsed_s)
=============================================================================
