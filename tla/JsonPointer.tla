---------------------------- MODULE JsonPointer ----------------------------
(***************************************************************************)
(* The name a JSON field gets in a list of fields, and the field an        *)
(* override of that name changes: requestFields                            *)
(* (internal/core/signature.go) escapes each key of the path and joins     *)
(* them, mutateJSON (internal/core/replay.go) splits and unescapes.  Keys  *)
(* are sequences of characters.                                            *)
(***************************************************************************)
EXTENDS Naturals, Sequences, SequencesExt

CONSTANTS Keys,      \* the keys that occur, sequences of characters
          MaxDepth   \* bound: how deep a field lies

Characters == UNION {Range(k) : k \in Keys}

ConstantsOK == Keys \subseteq Seq(Characters) /\ MaxDepth \in Nat

VARIABLES path,      \* the path of a field, its keys from the root
          name       \* its name, and then the path the override changes
vars == <<path, name>>

Unnamed == <<"unnamed">>

----------------------------------------------------------------------------
Tilde == "~"
Slash == "/"

(* strings.ReplaceAll of one character by two. *)
Widen(s, c, d1, d2) == FlattenSeq([n \in 1..Len(s) |-> IF s[n] = c THEN <<d1, d2>> ELSE <<s[n]>>])

(* strings.ReplaceAll of two different characters by one: occurrences do not overlap. *)
Narrow(s, c1, c2, d) ==
  LET Ends(n) == n \in 1..Len(s) /\ n > 1 /\ s[n - 1] = c1 /\ s[n] = c2
  IN  FlattenSeq([n \in 1..Len(s) |-> IF Ends(n) THEN <<d>> ELSE IF Ends(n + 1) THEN <<>> ELSE <<s[n]>>])

EscapeSlashFirst(key) == Widen(Widen(key, Slash, Tilde, "1"), Tilde, Tilde, "0")

\* signature.go:42: "~" before "/"
Escape(key) == Widen(Widen(key, Tilde, Tilde, "0"), Slash, Tilde, "1")

UnescapeTildeFirst(part) == Narrow(Narrow(part, Tilde, "0", Tilde), Tilde, "1", Slash)

\* replay.go:51: "~1" before "~0"
Unescape(part) == Narrow(Narrow(part, Tilde, "1", Slash), Tilde, "0", Tilde)

\* signature.go:41-47: "/" before every escaped key
Pointer(p) == FlattenSeq([n \in 1..Len(p) |-> <<Slash>> \o Escape(p[n])])

(* strings.Split by "/", character by character: a slash begins the next part. *)
Split(s) ==
  LET parts[n \in 0..Len(s)] ==
        IF n = 0 THEN << <<>> >>
        ELSE LET before == parts[n - 1] IN
             IF s[n] = Slash THEN Append(before, <<>>) ELSE [before EXCEPT ![Len(before)] = Append(@, s[n])]
  IN  parts[Len(s)]

\* replay.go:46-53
Parts(key) ==
  IF key # <<>> /\ key[1] = Slash
    THEN LET parts == Split(Tail(key)) IN [n \in 1..Len(parts) |-> Unescape(parts[n])]
    ELSE <<key>>

----------------------------------------------------------------------------
Init == /\ path \in UNION {[1..n -> Keys] : n \in 1..MaxDepth}
        /\ name = Unnamed

(* The field gets its name, which the caller copies into an override. *)
List == /\ name = Unnamed
        /\ name' = <<"named", Pointer(path)>>
        /\ UNCHANGED path

(* The override finds a field by that name. *)
Find == /\ name[1] = "named"
        /\ name' = <<"found", Parts(name[2])>>
        /\ UNCHANGED path

Next == List \/ Find
Spec == Init /\ [][Next]_vars

----------------------------------------------------------------------------
(* The name a field was listed with, in a recipe or a candidate, leads back to
   it, whatever "~", "/" and digits its keys hold (signature.go:42,
   replay.go:46-53). *)
NamesLeadBack == name[1] = "found" => name[2] = path
=============================================================================
