-------------------------- MODULE MCLiveManager --------------------------
(* Values of the constants of LiveManager for TLC. *)
EXTENDS LiveFeedRefinement, TLC

(* A query that matches everything and one that rejects every other content. *)
MCQueries == {0..MaxClock, {n \in 0..MaxClock : n % 2 = 0}}

Symmetry == Permutations(Sids)

(* Charles records from the beginning and nobody touches the button: all   *)
(* the states are spent on the traffic and on what the sessions make of it.*)
RecordingInit == Init /\ recorder = "user"

RecordingSpec == RecordingInit /\ [][QuietNext]_vars
=============================================================================
