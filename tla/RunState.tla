------------------------------ MODULE RunState ------------------------------
(***************************************************************************)
(* The pure run, connection and observation transitions of                 *)
(* state/machine.py, on the immutable ExecutionState.                      *)
(*                                                                         *)
(* A header is its run_id and its scene, the rest of the static data.  An  *)
(* observation is its run_id, sequence, simulation time and the set of     *)
(* scenes it fits: those whose inlets, height bounds and boundary it       *)
(* satisfies.                                                              *)
(***************************************************************************)
EXTENDS Integers

CONSTANTS
  Runs,          \* run identifiers
  Scenes,        \* static header data
  Observations,  \* the observations a producer may send
  None           \* no header, no observation

Header == [run_id: Runs, scene: Scenes]

Observation == [run_id: Runs, sequence: Nat \ {0}, elapsed_s: Nat, fits: SUBSET Scenes]

ASSUME RunStateAssumption ==
  /\ Observations \subseteq Observation
  /\ None \notin Header \cup Observation

ExecutionState ==
  [header: Header \cup {None}, observation: Observation \cup {None},
   connected: BOOLEAN, connection_index: Nat, missing_sequences: Nat]

InitialState ==
  [header |-> None, observation |-> None, connected |-> FALSE,
   connection_index |-> 0, missing_sequences |-> 0]

-----------------------------------------------------------------------------
(* accept_header: a header of the current run resumes it and must be       *)
(* identical; any other header starts a run from nothing.                  *)

SameRun(s, h) == s.header # None /\ s.header.run_id = h.run_id

HeaderError(s, h) == SameRun(s, h) /\ s.header # h

\* Mutant: a reconnecting producer starts its run again.
accept_header_restarts(s, h) ==
  [InitialState EXCEPT !.header = h, !.connected = TRUE,
                       !.connection_index = s.connection_index + 1]

accept_header(s, h) ==
  IF SameRun(s, h)
    THEN [s EXCEPT !.connected = TRUE, !.connection_index = @ + 1]
    ELSE [InitialState EXCEPT !.header = h, !.connected = TRUE,
                              !.connection_index = s.connection_index + 1]

-----------------------------------------------------------------------------
(* accept_observation: the sequence increases, the simulation time does    *)
(* not decrease, and the observation fits the scene of its run.            *)

previous_sequence(s) == IF s.observation = None THEN 0 ELSE s.observation.sequence

\* Mutant: the sequence need not increase.
ObservationError_any_sequence(s, o) ==
  s.header = None \/ o.run_id # s.header.run_id \/ s.header.scene \notin o.fits

ObservationError(s, o) ==
  \/ s.header = None
  \/ ~s.connected
  \/ o.run_id # s.header.run_id
  \/ o.sequence <= previous_sequence(s)
  \/ s.observation # None /\ o.elapsed_s < s.observation.elapsed_s
  \/ s.header.scene \notin o.fits

sequence_gap(s, o) == o.sequence - previous_sequence(s) - 1

accept_observation(s, o) ==
  [s EXCEPT !.observation = o, !.missing_sequences = @ + sequence_gap(s, o)]

disconnect(s) == [s EXCEPT !.connected = FALSE]
=============================================================================
