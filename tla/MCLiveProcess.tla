--------------------------- MODULE MCLiveProcess ---------------------------
(* LiveProcess with and without the camera; its state space is finite.     *)
EXTENDS LiveProcess
=============================================================================
