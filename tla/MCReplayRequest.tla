-------------------------- MODULE MCReplayRequest --------------------------
(* Values of the constants of ReplayRequest for TLC. *)
EXTENDS Naturals, Sequences, FiniteSets, TLC

ReplayPaths == {<<"a">>, <<"b">>, <<"a", "a">>, <<"a", "b">>}

(* Objects: nothing, a leaf, or an object with or without a field under "a". *)
Objects == {t \in [ReplayPaths -> {"none", "object", "y"}] :
                /\ t[<<"b">>] = "y" /\ t[<<"a", "a">>] # "object"
                /\ t[<<"a", "b">>] \in {"none", "y"}
                /\ \A p \in ReplayPaths : t[p] # "none" => \A q \in {SubSeq(p, 1, n) : n \in 1..(Len(p) - 1)} : t[q] = "object"}
Nothing == [p \in ReplayPaths |-> "none"]

Headers == {{}, {"Content-Length"}, {"Transfer-Encoding"},
              {"Content-Encoding", "Content-Length", "Content-Type", "Digest"},
              {"Connection", "Keep-Alive", "X-Hop", "X-App"}}

Request(c, t, b, j, hs) ==
  [http |-> TRUE, content |-> c, type |-> t, body |-> b, json |-> j, headers |-> hs,
   listed |-> IF "Connection" \in hs THEN {"X-Hop"} ELSE {}]

ReplayRecorded ==
  {Request("object", "other", b, t, h) : b \in {"raw", "text_only"}, t \in Objects, h \in Headers}
  \cup {Request("empty", t, "missing", Nothing, h) : t \in {"form", "other"}, h \in Headers}
  \cup {Request(c, "form", b, Nothing, h) : c \in {"form", "opaque"}, b \in {"raw", "text_only"}, h \in Headers}
  \cup {[Request("empty", "other", "missing", Nothing, {}) EXCEPT !.http = FALSE]}

(* Keys as they are spelled: "a" and "/a" are the same field. *)
Spelled == [a |-> <<"a">>, sa |-> <<"a">>, sb |-> <<"b">>, saa |-> <<"a", "a">>, sab |-> <<"a", "b">>]
JSON == {[k \in DOMAIN v |-> [path |-> Spelled[k], value |-> v[k]]] :
             v \in UNION {[ks -> {"x", "null", "object"}] : ks \in {s \in SUBSET DOMAIN Spelled : Cardinality(s) <= 2}}}

NoHeaders == [k \in {} |-> "null"]
Set(n, ls) == [name |-> n, set |-> TRUE, lists |-> ls]
Delete(n) == [name |-> n, set |-> FALSE, lists |-> {}]
HeaderOverrides ==
  {NoHeaders,
   "enc" :> Set("Content-Encoding", {}) @@ "app" :> Delete("X-App"),
   "conn" :> Set("Connection", {"X-App"}) @@ "te" :> Set("TE", {}),
   "conn" :> Delete("Connection") @@ "x" :> Set("X-Hop", {})}

NoJSON == [k \in {} |-> "null"]
ReplayAsked ==
  {[kinds |-> ks, json |-> NoJSON, headers |-> h] : ks \in (SUBSET {"json", "form", "text"}) \ {{"json"}}, h \in HeaderOverrides}
  \cup {[kinds |-> {"json"}, json |-> j, headers |-> NoHeaders] : j \in JSON}
=============================================================================
