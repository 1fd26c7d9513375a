-------------------------- MODULE MCCameraPipeline --------------------------
(* CameraPipeline with frames every 2 units and segments of at most 2      *)
(* frames.  In run r1 successive observations make segments of two frames, *)
(* or differ in grid, or have the same time, and 2 and 3 may be lost.  In  *)
(* run r2 a segment has too many frames or its gap is too long.            *)
EXTENDS CameraPipeline

CONSTANTS r1, r2, s1

Obs(r, n, t) == [run_id |-> r, sequence |-> n, elapsed_s |-> t, fits |-> {s1}]

MCObservations ==
  { Obs(r1, 1, 0), Obs(r1, 2, 3), Obs(r1, 2, 4), Obs(r1, 3, 8), Obs(r1, 4, 8),
    Obs(r2, 1, 0), Obs(r2, 2, 5), Obs(r2, 2, 7) }

MCGrid(o) == IF o = Obs(r1, 2, 3) THEN 1 ELSE 0
=============================================================================
