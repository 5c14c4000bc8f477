--------------------------- MODULE MCControlTools ---------------------------
(* Values of the constants of ControlTools for TLC. *)
EXTENDS ControlTools

MCQueries == {0..MaxClock}

=============================================================================
