--------------------------- MODULE MCMutationPlan ---------------------------
(* Values of the constants of MutationPlan for TLC. *)
EXTENDS Naturals

F(s, p, sig, cookie) == [surface |-> s, place |-> p, signature |-> sig, cookie |-> cookie]

PlanFields ==
  {F("form", 1, FALSE, FALSE), F("header", 2, TRUE, FALSE), F("header", 3, FALSE, TRUE),
   F("header", 4, FALSE, FALSE), F("json", 5, FALSE, FALSE), F("json", 6, TRUE, FALSE),
   F("json", 7, FALSE, FALSE), F("query", 8, TRUE, FALSE), F("query", 9, FALSE, FALSE)}

(* A request has a JSON object or a form, not both; only a body has their fields. *)
PlanSelected ==
  {x \in [fields : SUBSET PlanFields, body : {"raw", "missing"}] :
     /\ x.body = "missing" => \A f \in x.fields : f.surface \notin {"form", "json"}
     /\ \A f, g \in x.fields : ~(f.surface = "form" /\ g.surface = "json")}
=============================================================================
