---------------------------- MODULE MCTwoServers ----------------------------
(* Values of the constants of TwoServers for TLC. *)
EXTENDS TwoServers

MCQueries == {0..MaxClock}
=============================================================================
