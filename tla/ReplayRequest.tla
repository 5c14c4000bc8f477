--------------------------- MODULE ReplayRequest ---------------------------
(***************************************************************************)
(* How BuildReplay (internal/core/replay.go) turns a recorded request and  *)
(* the overrides of a caller into the request that is sent.  The overrides *)
(* arrive in Go maps: each range over one is a loop that takes the         *)
(* remaining keys in any order.                                            *)
(*                                                                         *)
(* A JSON object is a function from paths to what is there: nothing, an    *)
(* object, or a leaf.  Header values are abstracted to the presence of the *)
(* header, except that Connection also names other headers.  Overrides of  *)
(* the query and of a form replace distinct fields, which do not interact: *)
(* of them only what they make of body and headers is kept.                *)
(*                                                                         *)
(* A recorded request is a record of: http (an http or https URL with a    *)
(* host), type ("form" if the content type is that of a form), content     *)
(* (what its decoded body parses as: "object", "empty", "form" or          *)
(* "opaque"), body (its preservation), json (the object), headers and      *)
(* listed.  Options are a record of kinds (the body overrides given), json *)
(* (from spelled keys to a path and a value) and headers (from spelled     *)
(* names to a name, whether it is set or deleted, and what a Connection    *)
(* header set to it lists).                                                *)
(***************************************************************************)
EXTENDS Naturals, Sequences, FiniteSets

CONSTANTS Paths,      \* JSON paths that occur: sequences of keys
          Recorded,   \* the recorded requests
          Asked       \* the override options

None == "none"                          \* no such field
Object == "object"                      \* a JSON object
Null == "null"                          \* an override that deletes
BodyKinds == {"json", "form", "text"}
BodyLabels == {"Content-Encoding", "Content-MD5", "Digest"}
HopByHop == {"Host", "Content-Length", "Transfer-Encoding", "Connection", "Proxy-Connection",
             "Proxy-Authorization", "Keep-Alive", "TE", "Trailer", "Upgrade"}

VARIABLES entry,    \* the recorded request
          opts,     \* the options
          pc,       \* what BuildReplay does next; "sent" and "refused" are its results
          left,     \* keys of the map it ranges over that are still to come
          tree,     \* the JSON object being changed
          body,     \* where the body of the new request comes from
          headers,  \* the headers of the new request
          listed    \* the headers that the first value of its Connection header names
vars == <<entry, opts, pc, left, tree, body, headers, listed>>

----------------------------------------------------------------------------
(* mutateJSON *)
Parents(path) == {SubSeq(path, 1, n) : n \in 1..(Len(path) - 1)}

ConstantsOK ==
  /\ \A p \in Paths : p \in Seq(STRING) /\ p # <<>> /\ Parents(p) \subseteq Paths
  /\ \A o \in Asked : \A k \in DOMAIN o.json : o.json[k].path \in Paths
  /\ \A o \in Asked : \A k \in DOMAIN o.headers : o.headers[k].set \in BOOLEAN
Below(path) == {q \in Paths : path \in Parents(q)}
Crosses(t, path) == \E q \in Parents(path) : t[q] \notin {None, Object}

PutOverSiblings(t, path, value) ==
  [q \in Paths |-> CASE q = path -> value
                     [] q \in Below(path) -> None
                     [] q \in Parents(path) -> Object
                     [] OTHER -> IF \E p \in Parents(path) : q \in Below(p) THEN None ELSE t[q]]

Put(t, path, value) ==
  [q \in Paths |-> CASE q = path -> value
                     [] q \in Below(path) -> None
                     [] q \in Parents(path) -> Object
                     [] OTHER -> t[q]]

Drop(t, path) == [q \in Paths |-> IF q = path \/ q \in Below(path) THEN None ELSE t[q]]

MutateJSON(t, path, value) == IF value = Null THEN Drop(t, path) ELSE Put(t, path, value)

----------------------------------------------------------------------------
(* BuildReplay *)
Init ==
  /\ entry \in Recorded /\ opts \in Asked /\ pc = "asked"
  /\ left = {} /\ tree = entry.json /\ body = "recorded" /\ headers = entry.headers /\ listed = entry.listed

Refuse == /\ pc' = "refused"
          /\ UNCHANGED <<entry, opts, left, tree, body, headers, listed>>

(* The overrides of the body that were given, empty ones included. *)
Given == opts.kinds

(* replay.go:81-93 *)
Check ==
  /\ pc = "asked"
  /\ IF ~entry.http \/ Cardinality(Given) > 1 THEN Refuse
     ELSE pc' = "body" /\ UNCHANGED <<entry, opts, left, tree, body, headers, listed>>

RelabelNothing(hs, type) == hs \cup type

Relabel(hs, type) == (hs \ BodyLabels) \cup type

\* replay.go:105-106
TextBody ==
  /\ pc = "body" /\ Given = {"text"}
  /\ body' = "text" /\ headers' = Relabel(headers, {}) /\ left' = DOMAIN opts.headers /\ pc' = "headers"
  /\ UNCHANGED <<entry, opts, tree, listed>>

\* replay.go:107-115: the decoded body must be an object
JSONBody ==
  /\ pc = "body" /\ Given = {"json"}
  /\ IF entry.content # "object" THEN Refuse
     ELSE /\ pc' = "json" /\ left' = DOMAIN opts.json /\ headers' = Relabel(headers, {"Content-Type"})
          /\ UNCHANGED <<entry, opts, tree, body, listed>>

\* replay.go:116-120: one turn of the range over the map
OverrideJSON ==
  /\ pc = "json"
  /\ \E key \in left :
       LET path == opts.json[key].path IN
       IF Crosses(tree, path) THEN Refuse
       ELSE /\ tree' = MutateJSON(tree, path, opts.json[key].value) /\ left' = left \ {key}
            /\ UNCHANGED <<entry, opts, pc, body, headers, listed>>

\* replay.go:121-125
MarshalJSON ==
  /\ pc = "json" /\ left = {}
  /\ body' = "json" /\ pc' = "headers" /\ left' = DOMAIN opts.headers
  /\ UNCHANGED <<entry, opts, tree, headers, listed>>

\* replay.go:126-140: a body that was not captured is an empty form
FormBody ==
  /\ pc = "body" /\ Given = {"form"}
  /\ IF entry.type # "form" \/ entry.content = "opaque" THEN Refuse
     ELSE /\ body' = "form" /\ headers' = Relabel(headers, {"Content-Type"})
          /\ left' = DOMAIN opts.headers /\ pc' = "headers"
          /\ UNCHANGED <<entry, opts, tree, listed>>

SameBodyLabelled ==
  /\ pc = "body" /\ Given = {}
  /\ IF entry.body = "missing" /\ "Content-Length" \in headers THEN Refuse
     ELSE /\ left' = DOMAIN opts.headers /\ pc' = "headers"
          /\ UNCHANGED <<entry, opts, tree, body, headers, listed>>

\* replay.go:141-148: Content-Length stands for a length other than 0
SameBody ==
  /\ pc = "body" /\ Given = {}
  /\ IF entry.body = "missing" /\ "Content-Length" \in headers THEN Refuse
     ELSE /\ headers' = IF entry.body = "text_only" THEN headers \ {"Content-Encoding"} ELSE headers
          /\ left' = DOMAIN opts.headers /\ pc' = "headers"
          /\ UNCHANGED <<entry, opts, tree, body, listed>>

\* replay.go:149-155: one turn of the range over the map
OverrideHeader ==
  /\ pc = "headers"
  /\ \E key \in left :
       LET name == opts.headers[key].name IN
       /\ headers' = IF opts.headers[key].set THEN headers \cup {name} ELSE headers \ {name}
       /\ listed' = IF name = "Connection" THEN opts.headers[key].lists ELSE listed
       /\ left' = left \ {key}
  /\ UNCHANGED <<entry, opts, pc, tree, body>>

(* Fault: the Connection header is read before the overrides change it. *)
HopsRecorded == HopByHop \cup entry.listed

\* replay.go:156-161: what belongs to one hop goes, whoever put it there
Hops == HopByHop \cup listed

\* replay.go:156-167
Strip ==
  /\ pc = "headers" /\ left = {}
  /\ headers' = headers \ Hops /\ pc' = "sent"
  /\ UNCHANGED <<entry, opts, left, tree, body, listed>>

Next == Check \/ TextBody \/ JSONBody \/ OverrideJSON \/ MarshalJSON \/ FormBody \/ SameBody
        \/ OverrideHeader \/ Strip
Spec == Init /\ [][Next]_vars

----------------------------------------------------------------------------
(* Properties                                                               *)

Targets == {opts.json[k].path : k \in DOMAIN opts.json}

(* No override addresses the field of another one, or a field inside it. *)
Separate == \A j, k \in DOMAIN opts.json :
              j # k => /\ opts.json[j].path # opts.json[k].path
                       /\ opts.json[j].path \notin Parents(opts.json[k].path)

(* What was asked of each field is what the request says. *)
InEffect(k) == tree[opts.json[k].path] = IF opts.json[k].value = Null THEN None ELSE opts.json[k].value

(* No override addresses this field, one it lies in, or one inside it. *)
Untouched(p) == \A t \in Targets : p # t /\ p \notin Parents(t) /\ t \notin Parents(p)

(* Of separate overrides, these have taken effect, and no other field changed. *)
Applied(keys) ==
  Separate => /\ \A k \in keys : InEffect(k)
              /\ \A p \in Paths : Untouched(p) => tree[p] = entry.json[p]

(* Overrides of separate fields all take effect, in whatever order the map
   yields them, and every field that no override addresses or passes through
   keeps its recorded value (replay.go:45-79). *)
SeparateOverridesApply == (body = "json" /\ pc = "sent") => Applied(DOMAIN opts.json)

(* All overrides can take effect at once: no two address one field, and one
   that has others inside its field sets it to an object. *)
Compatible == \A j, k \in DOMAIN opts.json :
                j # k => /\ opts.json[j].path # opts.json[k].path
                         /\ opts.json[j].path \in Parents(opts.json[k].path) =>
                              opts.json[j].value = Object

(* "JSON overrides accept JSON Pointers for unambiguous nested fields, or
   top-level keys" (replay.go:45): of overrides that can all take effect, one
   inside the object another one sets included, the request that is sent
   carries each. *)
OverridesApply ==
  (body = "json" /\ pc = "sent" /\ Compatible) => \A k \in DOMAIN opts.json : InEffect(k)

(* The labels that say of the recorded bytes what is not true of the body. *)
WrongLabels ==
  IF body # "recorded" THEN BodyLabels ELSE IF entry.body = "text_only" THEN {"Content-Encoding"} ELSE {}

AskedFor(labels) == \A l \in labels \cap headers : \E k \in DOMAIN opts.headers : opts.headers[k].name = l

(* A text the decoder or the caller produced never carries the encoding of the
   recorded bytes, and a new body no digest of them either, unless the caller
   asked for that header (replay.go:99-103, 145). *)
LabelFitsBody == pc = "sent" => AskedFor(WrongLabels)

Names == {opts.headers[k].name : k \in DOMAIN opts.headers}

(* No two overrides spell the name of one header. *)
NamedOnce == \A j, k \in DOMAIN opts.headers : j # k => opts.headers[j].name # opts.headers[k].name

(* The Connection header names these: as an override set it, or as recorded. *)
ListedInForce ==
  IF "Connection" \in Names
    THEN UNION {opts.headers[k].lists : k \in {j \in DOMAIN opts.headers : opts.headers[j].name = "Connection"}}
    ELSE entry.listed

(* Of the headers that end to end concern the destination, not one hop of the
   recorded connection or of the one asked for, the request has those that
   were set and not those that were deleted, in whatever order the map yields
   the overrides; what no override names is as recorded, but for the labels of
   the body, which go only with a new body or a decoded one
   (replay.go:99-103, 123, 138, 145-161). *)
HeadersAsAsked ==
  pc = "sent" /\ NamedOnce =>
    /\ \A k \in DOMAIN opts.headers : LET name == opts.headers[k].name IN
         name \in headers <=> opts.headers[k].set /\ name \notin HopByHop \cup ListedInForce
    /\ entry.headers \ (Names \cup WrongLabels \cup HopByHop \cup ListedInForce) \subseteq headers
    /\ headers \subseteq
         (entry.headers \cup Names \cup {"Content-Type"}) \ (HopByHop \cup ListedInForce)

(* Of the headers, what these overrides have made so far. *)
HeadersSoFar(done) ==
  NamedOnce =>
    /\ \A k \in done : opts.headers[k].name \in headers <=> opts.headers[k].set
    /\ entry.headers \ ({opts.headers[k].name : k \in done} \cup WrongLabels) \subseteq headers
    /\ headers \subseteq entry.headers \cup {opts.headers[k].name : k \in done} \cup {"Content-Type"}
    /\ \A k \in done : opts.headers[k].name = "Connection" => listed = opts.headers[k].lists
    /\ (\A k \in done : opts.headers[k].name # "Connection") => listed = entry.listed

(* Where BuildReplay stands, with what it made so far: inductive, and implies
   the three properties above. *)
RequestOK ==
  /\ opts \in Asked
  /\ pc \in {"asked", "body", "json"} => body = "recorded" /\ listed = entry.listed
  /\ pc \in {"asked", "body"} => tree = entry.json /\ headers = entry.headers
  /\ pc = "json" => /\ left \subseteq DOMAIN opts.json /\ Applied(DOMAIN opts.json \ left)
                    /\ headers = Relabel(entry.headers, {"Content-Type"})
  /\ pc = "headers" => left \subseteq DOMAIN opts.headers /\ HeadersSoFar(DOMAIN opts.headers \ left)
  /\ body = "json" => Applied(DOMAIN opts.json)
  /\ pc \in {"headers", "sent"} => AskedFor(WrongLabels)
  /\ HeadersAsAsked
=============================================================================
