---------------------------- MODULE MutationPlan ----------------------------
(***************************************************************************)
(* The plan a workflow proposes for the entry it selected: mutationPlan    *)
(* (internal/core/workflow.go) ranks the fields requestFields              *)
(* (internal/core/signature.go) found, keeps the best, makes three recipes *)
(* of each and cuts the list.                                              *)
(*                                                                         *)
(* A field is a record of its surface, whether its name looks like that of *)
(* a signature, whether it is the Cookie header, and place, its place in   *)
(* the alphabetical order of surface and name.                             *)
(***************************************************************************)
EXTENDS Integers, Sequences, SequencesExt, FiniteSets

CONSTANTS Fields,     \* the fields that occur
          Selected    \* the entries a workflow may select

Surfaces == {"query", "header", "form", "json"}
Kinds == {"login", "api", "signature"}
Operations == <<"remove", "empty", "tamper">>

ConstantsOK ==
  /\ IsFiniteSet(Fields) /\ \A x \in Selected : x.fields \subseteq Fields
  /\ \A f, g \in Fields : f.surface \in Surfaces /\ f.place \in Nat /\ (f.place = g.place => f = g)

VARIABLES entry,      \* the selected entry: its fields and its body ("raw", not empty, or "missing")
          kind,       \* the kind of workflow
          pc,         \* "rank", "vary", "cut", then "planned"
          targets,    \* the fields to vary
          variants    \* the recipes, each a field and an operation
vars == <<entry, kind, pc, targets, variants>>

----------------------------------------------------------------------------
PriorityOfHeaders(f) ==
  (IF ~f.signature THEN 40 ELSE IF kind = "api" THEN 20 ELSE 100) - (IF f.surface = "header" THEN 65 ELSE 0)

Priority(f) ==
  (IF ~f.signature THEN 40 ELSE IF kind = "api" THEN 20 ELSE 100) - (IF f.surface = "header" THEN 5 ELSE 0)

Before(f, g) == Priority(f) > Priority(g) \/ (Priority(f) = Priority(g) /\ f.place < g.place)

(* Of the headers, only those that may authenticate are varied. *)
Eligible == {f \in entry.fields : f.surface = "header" => f.signature \/ f.cookie}

(* sort.Slice: with no two alike, each field is as far from the front as there
   are others before it. *)
Ahead(f) == {g \in Eligible : Before(g, f)}
Ranked == [n \in 1..Cardinality(Eligible) |-> CHOOSE f \in Eligible : Cardinality(Ahead(f)) = n - 1]

MaxTargets == IF kind = "login" THEN 3 ELSE 4
MaxVariants == CASE kind = "login" -> 6 [] kind = "api" -> 8 [] OTHER -> 12

First(s, n) == SubSeq(s, 1, IF Len(s) < n THEN Len(s) ELSE n)

Init ==
  /\ entry \in Selected /\ kind \in Kinds /\ pc = "rank"
  /\ targets = <<>> /\ variants = <<>>

\* workflow.go:141-170
Rank ==
  /\ pc = "rank" /\ pc' = "vary"
  /\ targets' = First(Ranked, MaxTargets)
  /\ UNCHANGED <<entry, kind, variants>>

Recipe(f, op) == [surface |-> f.surface, place |-> f.place, op |-> op]

RecipesReversed(f) == [n \in 1..Len(Operations) |-> Recipe(f, Operations[1 + Len(Operations) - n])]

RecipesOf(f) == [n \in 1..Len(Operations) |-> Recipe(f, Operations[n])]
Opaque == [surface |-> "body", place |-> 0, op |-> "empty"]

\* workflow.go:173-201: the recipes of the next target
Vary ==
  /\ pc = "vary"
  /\ \E i \in DOMAIN targets : /\ Len(variants) = Len(Operations) * (i - 1)
                               /\ variants' = variants \o RecipesOf(targets[i])
  /\ UNCHANGED <<entry, kind, pc, targets>>

\* workflow.go:202-207
Finish ==
  /\ pc = "vary" /\ Len(variants) = Len(Operations) * Len(targets) /\ pc' = "cut"
  /\ variants' = IF targets = <<>> /\ entry.body # "missing" THEN <<Opaque>> ELSE variants
  /\ UNCHANGED <<entry, kind, targets>>

Cut(s) == First(s, MaxVariants)

\* workflow.go:208-216
Plan ==
  /\ pc = "cut" /\ pc' = "planned" /\ variants' = Cut(variants)
  /\ UNCHANGED <<entry, kind, targets>>

Next == Rank \/ Vary \/ Finish \/ Plan
Spec == Init /\ [][Next]_vars

----------------------------------------------------------------------------
Favoured(f) == IF kind = "api" THEN ~f.signature ELSE f.signature

(* Signature fields come first in the plans of login and signature workflows,
   business fields in those of api workflows (docs/features.md:36-37), and the
   cut of the list to its maximum never costs a favoured field its recipes
   while a field that is not favoured keeps some (workflow.go:139-217). *)
FavouredFieldsFirst ==
  pc = "planned" =>
    \A f, g \in Eligible :
      (Favoured(f) /\ ~Favoured(g) /\ \E v \in ToSet(variants) : v.place = g.place)
        => \A n \in DOMAIN Operations : \E v \in ToSet(variants) : v.place = f.place /\ v.op = Operations[n]

(* A field that has any recipe has an operation that removes it, the first one
   tried: the cut, which falls inside a target for the api kind, takes the
   last operations (workflow.go:173-215). *)
EveryTargetIsRemoved ==
  pc = "planned" => \A n \in DOMAIN variants : variants[n].surface \in Surfaces =>
    \E m \in 1..n : variants[m].place = variants[n].place /\ variants[m].op = "remove"

(* No field is passed over for one that comes after it. *)
BestFirst ==
  /\ targets = <<>> => Eligible = {}
  /\ \A i \in DOMAIN targets :
       /\ targets[i] \in Eligible
       /\ \A f \in Ahead(targets[i]) : \E j \in 1..(i - 1) : targets[j] = f

(* The recipes of a target are in a row, and in the order of the targets. *)
InOrder ==
  \A m \in DOMAIN variants : \E i \in DOMAIN targets, n \in DOMAIN Operations :
    m = Len(Operations) * (i - 1) + n /\ variants[m] = Recipe(targets[i], Operations[n])

(* Inductive, and implies the two properties above. *)
PlanOK ==
  /\ entry \in Selected /\ kind \in Kinds
  /\ targets \in Seq(Fields) /\ variants \in Seq([surface : Surfaces \cup {"body"}, place : Nat, op : {"remove", "empty", "tamper"}])
  /\ pc = "rank" => targets = <<>> /\ variants = <<>>
  /\ pc # "rank" => BestFirst
  /\ InOrder \/ (targets = <<>> /\ variants = <<Opaque>>)
=============================================================================
