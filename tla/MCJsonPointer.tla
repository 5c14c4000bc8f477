--------------------------- MODULE MCJsonPointer ---------------------------
(* Values of the constants of JsonPointer for TLC. *)
EXTENDS Naturals, Sequences

PointerKeys == UNION {[1..n -> {"~", "/", "0", "1"}] : n \in 0..2} \cup {<<"~", "0", "1">>, <<"~", "1", "0">>, <<"~", "~", "1">>}
=============================================================================
