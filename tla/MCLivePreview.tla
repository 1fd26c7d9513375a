--------------------------- MODULE MCLivePreview ---------------------------
(* LivePreview with two runs.  Three connections let run r1 come back      *)
(* after run r2, with an observation 1 that differs from its first one.    *)
EXTENDS LivePreview

CONSTANTS r1, r2, s1

Obs(r, n, t) == [run_id |-> r, sequence |-> n, elapsed_s |-> t, fits |-> {s1}]

MCObservations == { Obs(r1, 1, 0), Obs(r1, 1, 1), Obs(r1, 2, 1) }

MCHeaders == { [run_id |-> r, scene |-> s1] : r \in {r1, r2} }

MCRequests == [header: MCHeaders, observation: MCObservations, connected: BOOLEAN]

Ch(lines) == [lines |-> lines, tail |-> "none"]

MCChunks ==
  { Ch(<<l>>) : l \in MCHeaders \cup { Obs(r1, 1, 0), Obs(r1, 1, 1) } }
    \cup { Ch(<<Obs(r1, 1, 1), Obs(r1, 2, 1)>>) }
=============================================================================
