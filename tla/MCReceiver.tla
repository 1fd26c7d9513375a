----------------------------- MODULE MCReceiver -----------------------------
(* Receiver with two runs, the first of which may come with two different  *)
(* scenes.  The observations of run r1 cover every reason to refuse one:   *)
(* an old or repeated sequence, a time that goes back, a scene that it     *)
(* does not fit, the wrong run; sequence 3 may leave a gap.                *)
EXTENDS Receiver

CONSTANTS r1, r2, s1, s2

Obs(r, n, t, f) == [run_id |-> r, sequence |-> n, elapsed_s |-> t, fits |-> f]

MCObservations ==
  { Obs(r1, 1, 1, {s1, s2}), Obs(r1, 2, 0, {s1, s2}), Obs(r1, 3, 1, {s1}),
    Obs(r2, 1, 0, {s1}) }

MCHeaders == { [run_id |-> r1, scene |-> s1], [run_id |-> r1, scene |-> s2],
               [run_id |-> r2, scene |-> s1] }

MCLines == MCHeaders \cup MCObservations \cup {Bad, Unhandled}

Ch(lines, tail) == [lines |-> lines, tail |-> tail]

MCChunks ==
  { Ch(<<>>, t) : t \in {"partial", "overlong"} }
    \cup { Ch(<<l>>, t) : l \in MCLines, t \in Tail_ }
    \cup { Ch(<<l, m>>, "none") : l, m \in MCLines }
    \cup { Ch(<<h, o>>, "overlong") : h \in MCHeaders, o \in MCObservations }
=============================================================================
