------------------------------- MODULE RunFeed -------------------------------
(***************************************************************************)
(* What the receiver promises to what is behind it, with no connections,   *)
(* no framing and no time: at most one producer feeds one run at a time; a *)
(* run survives the loss of its producer and continues where it was; its   *)
(* observations only advance; a different run starts from nothing.         *)
(***************************************************************************)
EXTENDS Integers

CONSTANTS Header, Observation, None

VARIABLES
  run,     \* header of the current run, or None
  latest,  \* its latest observation, or None
  heard,   \* how many of its observations were accepted
  live     \* a producer is feeding the run

vars == <<run, latest, heard, live>>

Init == run = None /\ latest = None /\ heard = 0 /\ live = FALSE

Start == /\ ~live
         /\ run' \in Header
         /\ run # None => run'.run_id # run.run_id
         /\ latest' = None /\ heard' = 0 /\ live' = TRUE

Resume == /\ ~live /\ run # None
          /\ live' = TRUE
          /\ UNCHANGED <<run, latest, heard>>

Observe == /\ live
           /\ latest' \in Observation
           /\ latest'.run_id = run.run_id
           /\ run.scene \in latest'.fits
           /\ latest # None => /\ latest'.sequence > latest.sequence
                               /\ latest'.elapsed_s >= latest.elapsed_s
           /\ heard' = heard + 1
           /\ UNCHANGED <<run, live>>

Drop == /\ live
        /\ live' = FALSE
        /\ UNCHANGED <<run, latest, heard>>

Next == Start \/ Resume \/ Observe \/ Drop

Spec == Init /\ [][Next]_vars
=============================================================================
