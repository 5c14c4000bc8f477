---------------------------- MODULE LiveSession ----------------------------
(***************************************************************************)
(* The data of one live capture session (type LiveSession of live.go) and  *)
(* the pure part of its operations: what a snapshot of Charles does to the *)
(* session and to the rows of its capture, and where a page of a read      *)
(* ends.                                                                   *)
(*                                                                         *)
(* A recorded transaction is [req, nth, ver].  req stands for the request  *)
(* attributes Identity() formats (method, URL, start millisecond), so two  *)
(* equal requests sent in one millisecond share it; nth tells such twins   *)
(* apart, which the program cannot; ver is a stamp of the content: a new   *)
(* stamp whenever the response changes, so two entries have equal hashes   *)
(* exactly when their stamps are equal.                                    *)
(***************************************************************************)
EXTENDS Naturals, Sequences, FiniteSets

Transaction == [req : Nat, nth : Nat, ver : Nat]

Identity(t) == t.req

(***************************************************************************)
(* An entry ID is a digest of capture, generation, index and identity: a   *)
(* collision-free name, so a tuple.  The capture is left out because every *)
(* table of IDs below belongs to one capture.                              *)
(***************************************************************************)
EntryIDs == Nat \X (Nat \ {0}) \X Nat

EntryID(generation, i, identity) == <<generation, i, identity>>

Entry == [sequence : Nat, ver : Nat, nth : Nat]

NoEntries == [id \in {} |-> {}]

(***************************************************************************)
(* A session as Start creates it.  The field hashes of the code is merged  *)
(* with entries: both change together, and the hash of an entry is its     *)
(* stamp.  age counts the ticks since Updated.  The last three fields are  *)
(* history: seen, the stamp under which an advancing read last consumed an *)
(* entry; final, how the snapshot of the Stop that ended the session went; *)
(* told, whether a Stop has answered without an error.                     *)
(***************************************************************************)
NewSession ==
  [active |-> TRUE, cursor |-> 0, generation |-> 0, keys |-> <<>>,
   events |-> <<>>, entries |-> NoEntries, age |-> 0,
   seen |-> NoEntries, final |-> "open", told |-> FALSE]

----------------------------------------------------------------------------
(* snapshot: comparing the latest export with the session *)

(* Fault: a shorter export is not taken for a reset. *)
ResetByKeysOnly(s, latest) ==
  \E i \in 1..Len(s.keys) : i <= Len(latest) /\ Identity(latest[i]) # s.keys[i]

(* Charles was cleared or a transaction was removed: the export is shorter *)
(* than the last one or disagrees with it at some index.                   *)
ResetDetected(s, latest) ==
  \/ Len(latest) < Len(s.keys)
  \/ \E i \in 1..Len(s.keys) : Identity(latest[i]) # s.keys[i]

NextGeneration(s, latest) ==
  IF ResetDetected(s, latest) THEN s.generation + 1 ELSE s.generation

IDAt(s, latest, i) == EntryID(NextGeneration(s, latest), i, Identity(latest[i]))

Unchanged(s, id, t) == id \in DOMAIN s.entries /\ s.entries[id].ver = t.ver

Changed(s, latest) ==
  {i \in 1..Len(latest) : ~ Unchanged(s, IDAt(s, latest, i), latest[i])}

ChangedIDs(s, latest) == {IDAt(s, latest, i) : i \in Changed(s, latest)}

(* Fault: a changed entry is numbered again. *)
SequenceRenumbered(s, latest, i) ==
  Cardinality(DOMAIN s.entries) + Cardinality({j \in Changed(s, latest) : j < i}) + 1

(* A known entry keeps its number.  A new one is numbered after the        *)
(* entries of the session and after ALL the changes met so far in this     *)
(* snapshot, updates of known entries included.                            *)
SequenceAt(s, latest, i) ==
  LET id == IDAt(s, latest, i) IN
  IF id \in DOMAIN s.entries
    THEN s.entries[id].sequence
    ELSE Cardinality(DOMAIN s.entries)
           + Cardinality({j \in Changed(s, latest) : j < i}) + 1

EntryAt(s, latest, i) ==
  [sequence |-> SequenceAt(s, latest, i), ver |-> latest[i].ver, nth |-> latest[i].nth]

(***************************************************************************)
(* SaveCapture: the rows of the capture after the changed entries are      *)
(* upserted.  An existing row keeps its sequence column; only the payload  *)
(* is replaced.                                                            *)
(***************************************************************************)
Upsert(rows, s, latest) ==
  LET ids == ChangedIDs(s, latest) IN
  [id \in DOMAIN rows \cup ids |->
     IF id \notin ids THEN rows[id]
     ELSE [sequence |-> IF id \in DOMAIN rows
                          THEN rows[id].sequence
                          ELSE EntryAt(s, latest, id[2]).sequence,
           payload  |-> EntryAt(s, latest, id[2])]]

----------------------------------------------------------------------------
(* snapshot: committing the changes to the session *)

(* The IDs that wait behind the read cursor. *)
Pending(s) == {s.events[k] : k \in (s.cursor + 1)..Len(s.events)}

(* Fault: only new entries are queued, or all changes whatever waits. *)
ToQueueNew(s, latest) ==
  {i \in Changed(s, latest) : IDAt(s, latest, i) \notin DOMAIN s.entries}

ToQueueAll(s, latest) == Changed(s, latest)

ToQueue(s, latest) ==
  {i \in Changed(s, latest) : IDAt(s, latest, i) \notin Pending(s)}

(* The increasing enumerations of a finite set of numbers: there is one. *)
InOrder(S) ==
  {f \in [1..Cardinality(S) -> S] :
     /\ \A x \in S : \E k \in 1..Cardinality(S) : f[k] = x
     /\ \A j, k \in 1..Cardinality(S) : j < k => f[j] < f[k]}

EntriesAfter(s, latest) ==
  LET ids == ChangedIDs(s, latest) IN
  [id \in DOMAIN s.entries \cup ids |->
     IF id \in ids THEN EntryAt(s, latest, id[2]) ELSE s.entries[id]]

EventsAfter(s, latest, news) ==
  [k \in 1..(Len(s.events) + Len(news)) |->
     IF k <= Len(s.events) THEN s.events[k]
     ELSE IDAt(s, latest, news[k - Len(s.events)])]

KeysOf(latest) == [i \in 1..Len(latest) |-> Identity(latest[i])]

(* The session after a successful snapshot, as a set of one element. *)
Snapshots(s, latest) ==
  {[s EXCEPT !.keys = KeysOf(latest),
             !.generation = NextGeneration(s, latest),
             !.entries = EntriesAfter(s, latest),
             !.events = EventsAfter(s, latest, news),
             !.age = 0] :
     news \in InOrder(ToQueue(s, latest))}

----------------------------------------------------------------------------
(* Read: a page of a filtered read *)

(* A query is the set of contents it matches. *)
Matched(s, query, upto) ==
  {k \in (s.cursor + 1)..upto : s.entries[s.events[k]].ver \in query}

(* Where the loop of Read stops: after the event that fills the page, or   *)
(* at the end of the queue.  Events the query rejects are passed over.     *)
PageEnds(s, query, limit) ==
  {c \in s.cursor..Len(s.events) :
     /\ c = Len(s.events) \/ Cardinality(Matched(s, query, c)) = limit
     /\ \A b \in s.cursor..(c - 1) : Cardinality(Matched(s, query, b)) < limit}

(* Fault: the cursor moves one past the last event of the page. *)
AdvancePast(s, c) == [s EXCEPT !.cursor = c + 1]

(* The session after a read has consumed its events up to c. *)
Advance(s, c) ==
  LET consumed == {s.events[k] : k \in (s.cursor + 1)..c} IN
  [s EXCEPT !.cursor = c,
            !.seen = [id \in DOMAIN s.seen \cup consumed |->
                        IF id \in consumed THEN s.entries[id].ver ELSE s.seen[id]]]

----------------------------------------------------------------------------
(* What is said of one session *)

IsEntryMap(f) ==
  /\ f = [id \in DOMAIN f |-> f[id]]
  /\ IsFiniteSet(DOMAIN f)
  /\ DOMAIN f \subseteq EntryIDs
  /\ \A id \in DOMAIN f : f[id] \in Entry

IsSession(s) ==
  /\ s \in [active : BOOLEAN, cursor : Nat, generation : Nat, keys : Seq(Nat),
            events : Seq(EntryIDs), entries : {s.entries}, age : Nat,
            seen : {s.seen}, final : {"open", "saved", "missed"}, told : BOOLEAN]
  /\ IsEntryMap(s.entries)
  /\ DOMAIN s.seen \subseteq EntryIDs
  /\ \A id \in DOMAIN s.seen : s.seen[id] \in Nat
  /\ s.cursor <= Len(s.events)
  /\ \A k \in 1..Len(s.events) : s.events[k] \in DOMAIN s.entries

IsRows(f) ==
  /\ DOMAIN f \subseteq EntryIDs
  /\ \A id \in DOMAIN f : f[id] \in [sequence : Nat, payload : Entry]

(* An advancing read has consumed the current content of the entry. *)
Consumed(s, id) == id \in DOMAIN s.seen /\ s.seen[id] = s.entries[id].ver

IsLossless(s) ==
  \A id \in DOMAIN s.entries : id \in Pending(s) \/ Consumed(s, id)

IsMirror(rows, s) ==
  rows = [id \in DOMAIN s.entries |->
            [sequence |-> s.entries[id].sequence, payload |-> s.entries[id]]]
=============================================================================
