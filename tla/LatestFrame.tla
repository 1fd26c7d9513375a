----------------------------- MODULE LatestFrame -----------------------------
(***************************************************************************)
(* What the browser renderer promises to its caller, with no queue, no     *)
(* child process and no generation number.  Requests are numbered in the   *)
(* order they are made.  The picture on display answers one of the         *)
(* requests made since the last reset, pictures never go back to an older  *)
(* request, and any number of requests may be skipped.                     *)
(***************************************************************************)
EXTENDS Integers

VARIABLES
  asked,   \* number of requests made so far
  base,    \* number of requests made before the last reset
  shown    \* number of the request whose picture is on display, 0 if none

vars == <<asked, base, shown>>

Init == asked = 0 /\ base = 0 /\ shown = 0

Ask == /\ asked' = asked + 1
       /\ UNCHANGED <<base, shown>>

Show == /\ shown' \in base + 1 .. asked
        /\ shown' > shown
        /\ UNCHANGED <<asked, base>>

Reset == /\ base' = asked
         /\ shown' = 0
         /\ UNCHANGED asked

Next == Ask \/ Show \/ Reset

Spec == Init /\ [][Next]_vars
=============================================================================
