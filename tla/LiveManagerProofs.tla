------------------------- MODULE LiveManagerProofs -------------------------
(***************************************************************************)
(* Theorems about LiveManager, for every set of sessions, every filter and *)
(* page limit, every TTL and any amount of traffic.                        *)
(***************************************************************************)
EXTENDS LiveManager, FiniteSetTheorems, SequenceTheorems, TLAPS

----------------------------------------------------------------------------
(* One session: what a snapshot and a page of a read preserve. *)

(* An increasing enumeration of a finite set is a sequence of its elements *)
(* that misses none and repeats none.                                      *)
LEMMA InOrderFacts ==
  ASSUME NEW S, IsFiniteSet(S), S \subseteq Nat, NEW f \in InOrder(S)
  PROVE  /\ f \in Seq(S)
         /\ Len(f) \in Nat
         /\ \A k \in 1..Len(f) : f[k] \in S
         /\ \A x \in S : \E k \in 1..Len(f) : f[k] = x
<1>1. Cardinality(S) \in Nat
  BY FS_CardinalityType
<1>2. f \in [1..Cardinality(S) -> S]
  BY DEF InOrder
<1>3. f \in Seq(S)
  BY <1>1, <1>2, SeqDef
<1>4. Len(f) = Cardinality(S)
  BY <1>1, <1>2, <1>3, LenProperties
<1>5. QED
  BY <1>1, <1>2, <1>3, <1>4 DEF InOrder

(* The names and numbers a snapshot gives to the transactions of an export.*)
LEMMA NamesAndNumbers ==
  ASSUME NEW s, IsSession(s), NEW latest \in Seq(Transaction)
  PROVE  /\ NextGeneration(s, latest) \in Nat
         /\ \A i \in 1..Len(latest) : /\ IDAt(s, latest, i) \in EntryIDs
                                      /\ IDAt(s, latest, i)[2] = i
                                      /\ EntryAt(s, latest, i) \in Entry
         /\ Changed(s, latest) \subseteq 1..Len(latest)
         /\ IsFiniteSet(Changed(s, latest))
<1>1. NextGeneration(s, latest) \in Nat
  BY DEF NextGeneration, IsSession
<1>2. Len(latest) \in Nat /\ \A i \in 1..Len(latest) : latest[i] \in Transaction
  BY LenProperties, ElementOfSeq
<1>3. \A i \in 1..Len(latest) : IDAt(s, latest, i) \in EntryIDs /\ IDAt(s, latest, i)[2] = i
  BY <1>1, <1>2 DEF IDAt, EntryID, EntryIDs, Identity, Transaction
<1>4. Changed(s, latest) \subseteq 1..Len(latest)
  BY DEF Changed
<1>5. IsFiniteSet(1..Len(latest))
  BY <1>2, FS_Interval
<1>6. IsFiniteSet(Changed(s, latest))
  BY <1>4, <1>5, FS_Subset
<1>7. ASSUME NEW i \in 1..Len(latest) PROVE EntryAt(s, latest, i) \in Entry
  <2>1. IsFiniteSet({j \in Changed(s, latest) : j < i})
    BY <1>6, FS_Subset
  <2>2. Cardinality({j \in Changed(s, latest) : j < i}) \in Nat
    BY <2>1, FS_CardinalityType
  <2>3. Cardinality(DOMAIN s.entries) \in Nat
    BY FS_CardinalityType DEF IsSession, IsEntryMap
  <2>4. SequenceAt(s, latest, i) \in Nat
    BY <2>2, <2>3 DEF SequenceAt, IsSession, IsEntryMap, Entry
  <2>5. QED
    BY <1>2, <2>4 DEF EntryAt, Entry, Transaction
<1>8. QED
  BY <1>1, <1>3, <1>4, <1>6, <1>7

(* The IDs of the changed entries are as many as can be counted. *)
LEMMA ChangedIDsFacts ==
  ASSUME NEW s, IsSession(s), NEW latest \in Seq(Transaction)
  PROVE  /\ ChangedIDs(s, latest) \subseteq EntryIDs
         /\ IsFiniteSet(ChangedIDs(s, latest))
         /\ \A id \in ChangedIDs(s, latest) :
              /\ id[2] \in Changed(s, latest)
              /\ id = IDAt(s, latest, id[2])
<1>1. ChangedIDs(s, latest) \subseteq EntryIDs
  BY NamesAndNumbers DEF ChangedIDs
<1>2. \A id \in ChangedIDs(s, latest) : id[2] \in Changed(s, latest) /\ id = IDAt(s, latest, id[2])
  BY NamesAndNumbers DEF ChangedIDs
<1> DEFINE f == [i \in Changed(s, latest) |-> IDAt(s, latest, i)]
<1>3. f \in Surjection(Changed(s, latest), ChangedIDs(s, latest))
  BY DEF Surjection, ChangedIDs
<1>4. IsFiniteSet(ChangedIDs(s, latest))
  BY <1>3, NamesAndNumbers, FS_Surjection
<1>5. QED
  BY <1>1, <1>2, <1>4

----------------------------------------------------------------------------
(* The entries after a snapshot: a finite map whose changed part is new. *)
LEMMA EntriesAfterFacts ==
  ASSUME NEW s, IsSession(s), NEW latest \in Seq(Transaction)
  PROVE  /\ IsEntryMap(EntriesAfter(s, latest))
         /\ DOMAIN EntriesAfter(s, latest) = DOMAIN s.entries \cup ChangedIDs(s, latest)
         /\ \A id \in DOMAIN s.entries \ ChangedIDs(s, latest) :
              EntriesAfter(s, latest)[id] = s.entries[id]
         /\ \A id \in ChangedIDs(s, latest) :
              EntriesAfter(s, latest)[id] = EntryAt(s, latest, id[2])
<1> DEFINE E == EntriesAfter(s, latest)
<1>1. E = [id \in DOMAIN s.entries \cup ChangedIDs(s, latest) |->
             IF id \in ChangedIDs(s, latest) THEN EntryAt(s, latest, id[2]) ELSE s.entries[id]]
  BY DEF EntriesAfter
<1> HIDE DEF E
<1>2. DOMAIN E = DOMAIN s.entries \cup ChangedIDs(s, latest) /\ E = [id \in DOMAIN E |-> E[id]]
  BY <1>1
<1>3. \A id \in DOMAIN s.entries \ ChangedIDs(s, latest) : E[id] = s.entries[id]
  BY <1>1
<1>4. \A id \in ChangedIDs(s, latest) : E[id] = EntryAt(s, latest, id[2])
  BY <1>1
<1>5. IsFiniteSet(DOMAIN E)
  <2>1. IsFiniteSet(DOMAIN s.entries)
    BY DEF IsSession, IsEntryMap
  <2>2. IsFiniteSet(ChangedIDs(s, latest))
    BY ChangedIDsFacts
  <2>3. IsFiniteSet(DOMAIN s.entries \cup ChangedIDs(s, latest))
    BY <2>1, <2>2, FS_Union
  <2>4. QED
    BY <1>2, <2>3
<1>6. DOMAIN E \subseteq EntryIDs
  BY <1>2, ChangedIDsFacts DEF IsSession, IsEntryMap
<1>7. \A id \in ChangedIDs(s, latest) : EntryAt(s, latest, id[2]) \in Entry
  BY ChangedIDsFacts, NamesAndNumbers
<1>8. \A id \in DOMAIN s.entries : s.entries[id] \in Entry
  BY DEF IsSession, IsEntryMap
<1>9. \A id \in DOMAIN E : E[id] \in Entry
  BY <1>2, <1>3, <1>4, <1>7, <1>8
<1>10. IsEntryMap(E)
  BY <1>2, <1>5, <1>6, <1>9 DEF IsEntryMap
<1>11. QED
  BY <1>2, <1>3, <1>4, <1>10 DEF E

(* The queue after a snapshot: the old events, then every ID to queue. *)
LEMMA EventsAfterFacts ==
  ASSUME NEW s, IsSession(s), NEW latest \in Seq(Transaction),
         NEW news \in InOrder(ToQueue(s, latest))
  PROVE  LET ev == EventsAfter(s, latest, news) IN
         /\ ev \in Seq(EntryIDs)
         /\ Len(ev) >= Len(s.events)
         /\ \A k \in 1..Len(s.events) : ev[k] = s.events[k]
         /\ \A k \in (Len(s.events) + 1)..Len(ev) : ev[k] \in ChangedIDs(s, latest)
         /\ \A i \in ToQueue(s, latest) :
              \E k \in (Len(s.events) + 1)..Len(ev) : ev[k] = IDAt(s, latest, i)
<1> DEFINE ev == EventsAfter(s, latest, news)
           old == Len(s.events)
<1>1. s.events \in Seq(EntryIDs) /\ old \in Nat /\ \A k \in 1..old : s.events[k] \in EntryIDs
  BY LenProperties, ElementOfSeq DEF IsSession
<1>2. /\ ToQueue(s, latest) \subseteq Changed(s, latest)
      /\ ToQueue(s, latest) \subseteq 1..Len(latest)
      /\ IsFiniteSet(ToQueue(s, latest))
  BY NamesAndNumbers, FS_Subset DEF ToQueue
<1>3. /\ Len(news) \in Nat
      /\ \A k \in 1..Len(news) : news[k] \in ToQueue(s, latest)
      /\ \A i \in ToQueue(s, latest) : \E k \in 1..Len(news) : news[k] = i
  BY <1>2, InOrderFacts
<1>4. ev = [k \in 1..(old + Len(news)) |->
              IF k <= old THEN s.events[k] ELSE IDAt(s, latest, news[k - old])]
  BY DEF EventsAfter
<1>5. \A i \in ToQueue(s, latest) : IDAt(s, latest, i) \in EntryIDs \cap ChangedIDs(s, latest)
  BY <1>2, NamesAndNumbers DEF ChangedIDs
<1> HIDE DEF ev, old
<1>6. \A k \in 1..old : ev[k] = s.events[k]
  BY <1>1, <1>3, <1>4
<1>7. \A k \in (old + 1)..(old + Len(news)) :
        k - old \in 1..Len(news) /\ ev[k] = IDAt(s, latest, news[k - old])
  BY <1>1, <1>3, <1>4
<1>8. \A k \in 1..(old + Len(news)) : ev[k] \in EntryIDs
  BY <1>1, <1>3, <1>5, <1>6, <1>7
<1>9. ev \in [1..(old + Len(news)) -> EntryIDs]
  BY <1>4, <1>8
<1>10. ev \in Seq(EntryIDs) /\ Len(ev) = old + Len(news)
  BY <1>1, <1>3, <1>9, SeqDef, LenProperties
<1>11. ASSUME NEW i \in ToQueue(s, latest)
       PROVE  \E k \in (old + 1)..(old + Len(news)) : ev[k] = IDAt(s, latest, i)
  <2>1. PICK k \in 1..Len(news) : news[k] = i
    BY <1>3
  <2>2. old + k \in (old + 1)..(old + Len(news)) /\ (old + k) - old = k
    BY <1>1, <1>3, <2>1
  <2>3. QED
    BY <1>7, <2>1, <2>2
<1>12. \A k \in (old + 1)..(old + Len(news)) : ev[k] \in ChangedIDs(s, latest)
  BY <1>3, <1>5, <1>7
<1>13. Len(ev) >= old
  BY <1>1, <1>3, <1>10
<1>14. QED
  BY <1>6, <1>10, <1>11, <1>12, <1>13 DEF ev, old

----------------------------------------------------------------------------
(* What a snapshot sets, and what it leaves alone. *)
LEMMA SnapshotFields ==
  ASSUME NEW s, IsSession(s), NEW latest \in Seq(Transaction),
         NEW t \in Snapshots(s, latest)
  PROVE  /\ t = [active |-> s.active, cursor |-> s.cursor, generation |-> t.generation,
                 keys |-> t.keys, events |-> t.events, entries |-> t.entries, age |-> 0,
                 seen |-> s.seen, final |-> s.final, told |-> s.told]
         /\ t.keys = KeysOf(latest)
         /\ t.generation = NextGeneration(s, latest)
         /\ t.entries = EntriesAfter(s, latest)
         /\ \E news \in InOrder(ToQueue(s, latest)) : t.events = EventsAfter(s, latest, news)
  BY DEF Snapshots, IsSession

(* A snapshot of a well-typed session is a well-typed session. *)
LEMMA SnapshotType ==
  ASSUME NEW s, IsSession(s), NEW latest \in Seq(Transaction),
         NEW t \in Snapshots(s, latest)
  PROVE  IsSession(t)
<1>1. PICK news \in InOrder(ToQueue(s, latest)) : t.events = EventsAfter(s, latest, news)
  BY SnapshotFields
<1> DEFINE E == EntriesAfter(s, latest)
           ev == EventsAfter(s, latest, news)
           K == KeysOf(latest)
           G == NextGeneration(s, latest)
<1>2. K \in Seq(Nat)
  <2>1. Len(latest) \in Nat /\ \A i \in 1..Len(latest) : latest[i] \in Transaction
    BY LenProperties, ElementOfSeq
  <2>2. \A i \in 1..Len(latest) : Identity(latest[i]) \in Nat
    BY <2>1 DEF Identity, Transaction
  <2>3. K \in [1..Len(latest) -> Nat]
    BY <2>2 DEF KeysOf
  <2>4. QED
    BY <2>1, <2>3, SeqDef
<1>3. G \in Nat
  BY NamesAndNumbers
<1>4. IsEntryMap(E) /\ DOMAIN E = DOMAIN s.entries \cup ChangedIDs(s, latest)
  BY EntriesAfterFacts
<1>5. /\ ev \in Seq(EntryIDs)
      /\ Len(ev) >= Len(s.events)
      /\ \A k \in 1..Len(s.events) : ev[k] = s.events[k]
      /\ \A k \in (Len(s.events) + 1)..Len(ev) : ev[k] \in ChangedIDs(s, latest)
  BY EventsAfterFacts
<1>6. /\ t = [active |-> s.active, cursor |-> s.cursor, generation |-> G,
              keys |-> K, events |-> ev, entries |-> E, age |-> 0,
              seen |-> s.seen, final |-> s.final, told |-> s.told]
  BY <1>1, SnapshotFields
<1> HIDE DEF E, ev, K, G
<1>7. Len(s.events) \in Nat /\ Len(ev) \in Nat
  BY <1>5, LenProperties DEF IsSession
<1>8. ASSUME NEW k \in 1..Len(ev) PROVE ev[k] \in DOMAIN E
  <2>1. CASE k \in 1..Len(s.events)
    BY <2>1, <1>4, <1>5 DEF IsSession
  <2>2. CASE k \in (Len(s.events) + 1)..Len(ev)
    BY <2>2, <1>4, <1>5
  <2>3. QED
    BY <1>7, <2>1, <2>2
<1>9. s.cursor <= Len(ev)
  BY <1>5, <1>7 DEF IsSession
<1>10. QED
  BY <1>2, <1>3, <1>4, <1>5, <1>6, <1>8, <1>9 DEF IsSession

(* What waited before a snapshot still waits after it. *)
LEMMA SnapshotKeepsPending ==
  ASSUME NEW s, IsSession(s), NEW latest \in Seq(Transaction),
         NEW t \in Snapshots(s, latest)
  PROVE  /\ Pending(s) \subseteq Pending(t)
         /\ \A i \in ToQueue(s, latest) : IDAt(s, latest, i) \in Pending(t)
<1>1. PICK news \in InOrder(ToQueue(s, latest)) : t.events = EventsAfter(s, latest, news)
  BY SnapshotFields
<1>2. t.cursor = s.cursor
  BY SnapshotFields
<1>3. /\ t.events \in Seq(EntryIDs)
      /\ Len(t.events) >= Len(s.events)
      /\ \A k \in 1..Len(s.events) : t.events[k] = s.events[k]
      /\ \A i \in ToQueue(s, latest) :
           \E k \in (Len(s.events) + 1)..Len(t.events) : t.events[k] = IDAt(s, latest, i)
  BY <1>1, EventsAfterFacts
<1>4. Len(s.events) \in Nat /\ Len(t.events) \in Nat /\ s.cursor \in 0..Len(s.events)
  BY <1>3, LenProperties DEF IsSession
<1>5. ASSUME NEW k \in (s.cursor + 1)..Len(s.events) PROVE s.events[k] \in Pending(t)
  <2>1. k \in (t.cursor + 1)..Len(t.events) /\ k \in 1..Len(s.events)
    BY <1>2, <1>3, <1>4
  <2>2. t.events[k] = s.events[k]
    BY <1>3, <2>1
  <2>3. QED
    BY <2>1, <2>2 DEF Pending
<1>6. ASSUME NEW i \in ToQueue(s, latest) PROVE IDAt(s, latest, i) \in Pending(t)
  <2>1. PICK k \in (Len(s.events) + 1)..Len(t.events) : t.events[k] = IDAt(s, latest, i)
    BY <1>3
  <2>2. k \in (t.cursor + 1)..Len(t.events)
    BY <1>2, <1>4
  <2>3. QED
    BY <2>1, <2>2 DEF Pending
<1>7. Pending(s) \subseteq Pending(t)
  BY <1>5 DEF Pending
<1>8. QED
  BY <1>6, <1>7

(* A snapshot of a session that has lost nothing loses nothing. *)
LEMMA SnapshotLossless ==
  ASSUME NEW s, IsSession(s), IsLossless(s), NEW latest \in Seq(Transaction),
         NEW t \in Snapshots(s, latest)
  PROVE  IsLossless(t)
<1> SUFFICES ASSUME NEW id \in DOMAIN t.entries
             PROVE  id \in Pending(t) \/ Consumed(t, id)
  BY DEF IsLossless
<1>1. t.entries = EntriesAfter(s, latest) /\ t.seen = s.seen
  BY SnapshotFields
<1>2. CASE id \in ChangedIDs(s, latest)
  <2>1. id[2] \in Changed(s, latest) /\ id = IDAt(s, latest, id[2])
    BY <1>2, ChangedIDsFacts
  <2>2. CASE id \in Pending(s)
    BY <2>2, SnapshotKeepsPending
  <2>3. CASE id \notin Pending(s)
    <3>1. id[2] \in ToQueue(s, latest)
      BY <2>1, <2>3 DEF ToQueue
    <3>2. QED
      BY <2>1, <3>1, SnapshotKeepsPending
  <2>4. QED
    BY <2>2, <2>3
<1>3. CASE id \notin ChangedIDs(s, latest)
  <2>1. id \in DOMAIN s.entries /\ t.entries[id] = s.entries[id]
    BY <1>1, <1>3, EntriesAfterFacts
  <2>2. id \in Pending(s) \/ Consumed(s, id)
    BY <2>1 DEF IsLossless
  <2>3. QED
    BY <1>1, <2>1, <2>2, SnapshotKeepsPending DEF Consumed
<1>4. QED
  BY <1>2, <1>3

(* Saving a snapshot brings the rows of its capture in line with it. *)
LEMMA SnapshotMirror ==
  ASSUME NEW s, IsSession(s), NEW latest \in Seq(Transaction),
         NEW t \in Snapshots(s, latest), NEW rows, IsMirror(rows, s)
  PROVE  IsMirror(Upsert(rows, s, latest), t)
<1> DEFINE U == Upsert(rows, s, latest)
           ids == ChangedIDs(s, latest)
<1>1. t.entries = EntriesAfter(s, latest)
  BY SnapshotFields
<1>2. /\ DOMAIN rows = DOMAIN s.entries
      /\ \A id \in DOMAIN rows : rows[id] = [sequence |-> s.entries[id].sequence,
                                           payload |-> s.entries[id]]
  BY DEF IsMirror
<1>3. U = [id \in DOMAIN rows \cup ids |->
             IF id \notin ids THEN rows[id]
             ELSE [sequence |-> IF id \in DOMAIN rows
                                  THEN rows[id].sequence
                                  ELSE EntryAt(s, latest, id[2]).sequence,
                   payload  |-> EntryAt(s, latest, id[2])]]
  BY DEF Upsert
<1>4. /\ DOMAIN t.entries = DOMAIN s.entries \cup ids
      /\ \A id \in DOMAIN s.entries \ ids : t.entries[id] = s.entries[id]
      /\ \A id \in ids : t.entries[id] = EntryAt(s, latest, id[2])
  <2> DEFINE E == EntriesAfter(s, latest)
  <2>1. /\ DOMAIN E = DOMAIN s.entries \cup ids
        /\ \A id \in DOMAIN s.entries \ ids : E[id] = s.entries[id]
        /\ \A id \in ids : E[id] = EntryAt(s, latest, id[2])
    BY EntriesAfterFacts
  <2>2. t.entries = E
    BY <1>1
  <2> HIDE DEF E, ids
  <2>3. QED
    BY <2>1, <2>2
<1> HIDE DEF U, ids
<1>5. ASSUME NEW id \in ids \cap DOMAIN s.entries
      PROVE  EntryAt(s, latest, id[2]).sequence = s.entries[id].sequence
  <2>1. id = IDAt(s, latest, id[2])
    BY ChangedIDsFacts DEF ids
  <2>2. QED
    BY <2>1 DEF EntryAt, SequenceAt
<1>6. ASSUME NEW id \in DOMAIN rows \cup ids
      PROVE  U[id] = [sequence |-> t.entries[id].sequence, payload |-> t.entries[id]]
  <2>1. CASE id \notin ids
    BY <2>1, <1>2, <1>3, <1>4
  <2>2. CASE id \in ids
    <3>1. t.entries[id] = EntryAt(s, latest, id[2])
      BY <2>2, <1>4
    <3>2. CASE id \in DOMAIN rows
      <4>1. rows[id].sequence = EntryAt(s, latest, id[2]).sequence
        <5>1. id \in ids \cap DOMAIN s.entries
          BY <2>2, <3>2, <1>2
        <5>2. rows[id] = [sequence |-> s.entries[id].sequence, payload |-> s.entries[id]]
          BY <3>2, <1>2
        <5>3. QED
          BY <1>5, <5>1, <5>2
      <4>2. U[id] = [sequence |-> rows[id].sequence, payload |-> EntryAt(s, latest, id[2])]
        BY <2>2, <3>2, <1>3
      <4>3. QED
        BY <3>1, <4>1, <4>2
    <3>3. CASE id \notin DOMAIN rows
      BY <2>2, <3>1, <3>3, <1>3
    <3>4. QED
      BY <3>2, <3>3
  <2>3. QED
    BY <2>1, <2>2
<1>7. U = [id \in DOMAIN t.entries |->
             [sequence |-> t.entries[id].sequence, payload |-> t.entries[id]]]
  BY <1>2, <1>3, <1>4, <1>6
<1>8. QED
  BY <1>7 DEF IsMirror, U

----------------------------------------------------------------------------
(* An advancing read keeps a session well-typed, with its entries. *)
LEMMA AdvanceType ==
  ASSUME NEW s, IsSession(s), NEW c \in s.cursor..Len(s.events)
  PROVE  /\ IsSession(Advance(s, c))
         /\ Advance(s, c).entries = s.entries
         /\ Advance(s, c).events = s.events
         /\ Advance(s, c).cursor = c
<1> DEFINE consumed == {s.events[k] : k \in (s.cursor + 1)..c}
           seen == [id \in DOMAIN s.seen \cup consumed |->
                      IF id \in consumed THEN s.entries[id].ver ELSE s.seen[id]]
<1>1. Len(s.events) \in Nat /\ c \in Nat /\ s.cursor \in Nat
  BY LenProperties DEF IsSession
<1>2. consumed \subseteq DOMAIN s.entries
  BY <1>1 DEF IsSession
<1>3. DOMAIN seen \subseteq EntryIDs
  BY <1>2 DEF IsSession, IsEntryMap
<1>4. \A id \in DOMAIN s.entries : s.entries[id].ver \in Nat
  BY DEF IsSession, IsEntryMap, Entry
<1>5. \A id \in DOMAIN seen : seen[id] \in Nat
  BY <1>2, <1>4 DEF IsSession
<1>6. Advance(s, c) = [s EXCEPT !.cursor = c, !.seen = seen]
  BY DEF Advance
<1> HIDE DEF seen
<1>7. Advance(s, c) = [active |-> s.active, cursor |-> c, generation |-> s.generation,
                       keys |-> s.keys, events |-> s.events, entries |-> s.entries,
                       age |-> s.age, seen |-> seen, final |-> s.final, told |-> s.told]
  BY <1>6 DEF IsSession
<1>8. QED
  BY <1>1, <1>3, <1>5, <1>7 DEF IsSession

(* An advancing read loses nothing: what it takes off the queue it consumes.*)
LEMMA AdvanceLossless ==
  ASSUME NEW s, IsSession(s), IsLossless(s), NEW c \in s.cursor..Len(s.events)
  PROVE  IsLossless(Advance(s, c))
<1> DEFINE t == Advance(s, c)
           consumed == {s.events[k] : k \in (s.cursor + 1)..c}
<1>1. t.entries = s.entries /\ t.events = s.events /\ t.cursor = c
  BY AdvanceType
<1>2. t.seen = [id \in DOMAIN s.seen \cup consumed |->
                  IF id \in consumed THEN s.entries[id].ver ELSE s.seen[id]]
  BY DEF Advance, IsSession
<1> HIDE DEF t
<1>3. Len(s.events) \in Nat /\ c \in Nat /\ s.cursor \in Nat
  BY LenProperties DEF IsSession
<1>4. Pending(s) \subseteq consumed \cup Pending(t)
  BY <1>1, <1>3 DEF Pending
<1> HIDE DEF consumed
<1>5. ASSUME NEW id \in DOMAIN s.entries PROVE id \in Pending(t) \/ Consumed(t, id)
  <2>1. CASE id \in consumed
    BY <2>1, <1>1, <1>2 DEF Consumed
  <2>2. CASE id \notin consumed
    BY <2>2, <1>1, <1>2, <1>4 DEF Consumed, IsLossless
  <2>3. QED
    BY <2>1, <2>2
<1>6. QED
  BY <1>1, <1>5 DEF IsLossless, t

----------------------------------------------------------------------------
(* The session Start creates, and the rows of a capture not yet saved. *)
LEMMA NewSessionFacts ==
  /\ IsSession(NewSession)
  /\ IsLossless(NewSession)
  /\ IsMirror(NoEntries, NewSession)
  /\ IsRows(NoEntries)
<1>1. /\ DOMAIN NoEntries = {} /\ NoEntries = [id \in DOMAIN NoEntries |-> NoEntries[id]]
      /\ IsFiniteSet(DOMAIN NoEntries)
  BY FS_EmptySet DEF NoEntries
<1>2. /\ <<>> \in Seq(Nat)
      /\ <<>> \in Seq(EntryIDs)
      /\ Len(<<>>) = 0
  BY EmptySeq
<1>3. /\ NewSession.entries = NoEntries /\ NewSession.seen = NoEntries
      /\ NewSession.events = <<>> /\ NewSession.cursor = 0
  BY DEF NewSession
<1> HIDE DEF NoEntries
<1>4. NewSession \in [active : BOOLEAN, cursor : Nat, generation : Nat, keys : Seq(Nat),
                     events : Seq(EntryIDs), entries : {NewSession.entries}, age : Nat,
                     seen : {NewSession.seen}, final : {"open", "saved", "missed"},
                     told : BOOLEAN]
  BY <1>2 DEF NewSession
<1>5. IsSession(NewSession)
  BY <1>1, <1>2, <1>3, <1>4 DEF IsSession, IsEntryMap
<1>6. IsLossless(NewSession)
  BY <1>1, <1>3 DEF IsLossless
<1>7. IsMirror(NoEntries, NewSession)
  BY <1>1, <1>3 DEF IsMirror
<1>8. QED
  BY <1>1, <1>5, <1>6, <1>7 DEF IsRows

(* The rows of a capture stay rows when a snapshot is saved. *)
LEMMA UpsertType ==
  ASSUME NEW rows, IsRows(rows), NEW s, IsSession(s), NEW latest \in Seq(Transaction)
  PROVE  IsRows(Upsert(rows, s, latest))
<1> DEFINE U == Upsert(rows, s, latest)
           ids == ChangedIDs(s, latest)
<1>1. U = [id \in DOMAIN rows \cup ids |->
             IF id \notin ids THEN rows[id]
             ELSE [sequence |-> IF id \in DOMAIN rows
                                  THEN rows[id].sequence
                                  ELSE EntryAt(s, latest, id[2]).sequence,
                   payload  |-> EntryAt(s, latest, id[2])]]
  BY DEF Upsert
<1>2. ids \subseteq EntryIDs /\ \A id \in ids : EntryAt(s, latest, id[2]) \in Entry
  BY ChangedIDsFacts, NamesAndNumbers
<1> HIDE DEF U, ids
<1>3. DOMAIN U \subseteq EntryIDs
  BY <1>1, <1>2 DEF IsRows
<1>4. ASSUME NEW id \in DOMAIN U PROVE U[id] \in [sequence : Nat, payload : Entry]
  <2>1. CASE id \notin ids
    BY <2>1, <1>1 DEF IsRows
  <2>2. CASE id \in ids
    <3>1. EntryAt(s, latest, id[2]) \in Entry /\ EntryAt(s, latest, id[2]).sequence \in Nat
      BY <2>2, <1>2 DEF Entry
    <3>2. id \in DOMAIN rows => rows[id].sequence \in Nat
      BY DEF IsRows
    <3>3. QED
      BY <2>2, <3>1, <3>2, <1>1
  <2>3. QED
    BY <2>1, <2>2
<1>5. QED
  BY <1>3, <1>4 DEF IsRows, U

----------------------------------------------------------------------------
(* Type correctness, by the part of the state each conjunct speaks of.     *)

CharlesOK ==
  /\ recorder \in {"off", "user", "server"}
  /\ traffic \in Seq(Transaction)
  /\ clock \in Nat
  /\ leftBy \subseteq {"lost start", "kept on request", "failed close", "crash"}

SessionsOK == DOMAIN sessions \subseteq Sids /\ \A s \in DOMAIN sessions : IsSession(sessions[s])

StoreOK == \A c \in DOMAIN store : IsRows(store[c])

ManagerOK == owned \in BOOLEAN /\ op \in Operations /\ stranded \in BOOLEAN

LEMMA TypeParts == TypeOK <=> CharlesOK /\ SessionsOK /\ StoreOK /\ ManagerOK
  BY DEF TypeOK, CharlesOK, SessionsOK, StoreOK, ManagerOK

(* One session is replaced or added; the others stay. *)
LEMMA SessionsPut ==
  ASSUME NEW s, NEW t,
         \/ sessions' = Put(sessions, s, t)
         \/ sessions' = [sessions EXCEPT ![s] = t]
  PROVE  /\ DOMAIN sessions' \subseteq DOMAIN sessions \cup {s}
         /\ \A r \in DOMAIN sessions' :
              IF r = s THEN sessions'[r] = t
                       ELSE r \in DOMAIN sessions /\ sessions'[r] = sessions[r]
<1>1. CASE sessions' = Put(sessions, s, t)
  BY <1>1 DEF Put
<1>2. CASE sessions' = [sessions EXCEPT ![s] = t]
  BY <1>2
<1>3. QED
  BY <1>1, <1>2

LEMMA SessionsPutType ==
  ASSUME SessionsOK, NEW s \in Sids, NEW t, IsSession(t),
         \/ sessions' = Put(sessions, s, t)
         \/ sessions' = [sessions EXCEPT ![s] = t]
  PROVE  SessionsOK'
<1>1. /\ DOMAIN sessions' \subseteq DOMAIN sessions \cup {s}
      /\ \A r \in DOMAIN sessions' :
           IF r = s THEN sessions'[r] = t
                    ELSE r \in DOMAIN sessions /\ sessions'[r] = sessions[r]
  BY SessionsPut
<1>2. ASSUME NEW r \in DOMAIN sessions' PROVE IsSession(sessions'[r])
  <2>1. CASE r = s
    BY <1>1, <2>1
  <2>2. CASE r # s
    BY <1>1, <2>2 DEF SessionsOK
  <2>3. QED
    BY <2>1, <2>2
<1>3. QED
  BY <1>1, <1>2 DEF SessionsOK

LEMMA SessionsForgotten ==
  ASSUME NEW S, Forget(S)
  PROVE  /\ DOMAIN sessions' = DOMAIN sessions \ S
         /\ \A s \in DOMAIN sessions' : sessions'[s] = sessions[s]
  BY DEF Forget, Keep

LEMMA SessionsForgottenType ==
  ASSUME SessionsOK, NEW S, Forget(S)
  PROVE  SessionsOK'
<1>1. /\ DOMAIN sessions' = DOMAIN sessions \ S
      /\ \A s \in DOMAIN sessions' : sessions'[s] = sessions[s]
  BY SessionsForgotten
<1>2. QED
  BY <1>1 DEF SessionsOK

(* A snapshot is saved. *)
LEMMA StoreSaved ==
  ASSUME StoreOK, traffic \in Seq(Transaction), NEW s \in Sids, NEW b, IsSession(b), Save(s, b)
  PROVE  StoreOK'
<1>1. IsRows(Rows(s))
  <2>1. CASE s \in DOMAIN store
    BY <2>1 DEF Rows, StoreOK
  <2>2. CASE s \notin DOMAIN store
    BY <2>2, NewSessionFacts DEF Rows
  <2>3. QED
    BY <2>1, <2>2
<1>2. IsRows(Upsert(Rows(s), b, traffic))
  BY <1>1, UpsertType
<1>3. /\ DOMAIN store' = DOMAIN store \cup {s}
      /\ store'[s] = Upsert(Rows(s), b, traffic)
      /\ \A c \in DOMAIN store \ {s} : store'[c] = store[c]
  BY DEF Save, Put
<1>4. ASSUME NEW c \in DOMAIN store' PROVE IsRows(store'[c])
  <2>1. CASE c = s
    BY <1>2, <1>3, <2>1
  <2>2. CASE c # s
    BY <1>3, <2>2 DEF StoreOK
  <2>3. QED
    BY <2>1, <2>2
<1>5. QED
  BY <1>3, <1>4 DEF StoreOK

LEMMA NewProcessType == NewProcess => SessionsOK' /\ ManagerOK'
<1> SUFFICES ASSUME NewProcess PROVE SessionsOK' /\ ManagerOK'
  OBVIOUS
<1>1. DOMAIN sessions' = {}
  BY DEF NewProcess, NoSessions
<1>2. QED
  BY <1>1 DEF NewProcess, SessionsOK, ManagerOK, Operations

LEMMA SetRecorderType ==
  ASSUME NEW r \in {"off", "user", "server"},
         NEW why \in SUBSET {"lost start", "kept on request", "failed close", "crash"},
         leftBy \subseteq {"lost start", "kept on request", "failed close", "crash"},
         SetRecorder(r, why)
  PROVE  /\ recorder' \in {"off", "user", "server"}
         /\ leftBy' \subseteq {"lost start", "kept on request", "failed close", "crash"}
  BY DEF SetRecorder

LEMMA DeactivatedType ==
  ASSUME NEW t, IsSession(t), NEW saved \in BOOLEAN
  PROVE  IsSession(Deactivated(t, saved))
<1> DEFINE final == IF saved THEN "saved" ELSE "missed"
<1>1. Deactivated(t, saved) =
        [t EXCEPT !.active = FALSE, !.age = 0, !.final = final, !.told = saved]
  BY DEF Deactivated
<1>2. final \in {"open", "saved", "missed"}
  OBVIOUS
<1> HIDE DEF final
<1>3. Deactivated(t, saved) =
        [active |-> FALSE, cursor |-> t.cursor, generation |-> t.generation,
         keys |-> t.keys, events |-> t.events, entries |-> t.entries, age |-> 0,
         seen |-> t.seen, final |-> final, told |-> saved]
  BY <1>1 DEF IsSession
<1>4. QED
  BY <1>2, <1>3 DEF IsSession

(* The traffic stays a sequence of transactions. *)
LEMMA TrafficType ==
  ASSUME traffic \in Seq(Transaction), clock \in Nat,
         \/ \E n \in 1..MaxBurst : NewRequests(n)
         \/ \E i \in 1..Len(traffic) : Response(i) \/ UserRemoves(i)
         \/ UserClears
  PROVE  traffic' \in Seq(Transaction) /\ clock' \in Nat
<1>1. /\ Len(traffic) \in Nat
      /\ \A i \in 1..Len(traffic) : traffic[i] \in Transaction
  BY LenProperties, ElementOfSeq
<1>2. ASSUME NEW n \in 1..MaxBurst, NewRequests(n)
      PROVE  traffic' \in Seq(Transaction) /\ clock' \in Nat
  <2> DEFINE burst == [k \in 1..n |-> [req |-> clock', nth |-> k, ver |-> clock']]
  <2>1. clock' \in Nat /\ traffic' = traffic \o burst
    BY <1>2 DEF NewRequests
  <2>2. n \in Nat /\ \A k \in 1..n : burst[k] \in Transaction
    BY <2>1, ConstantsAssumption DEF Transaction
  <2>3. burst \in [1..n -> Transaction]
    BY <2>2
  <2>4. burst \in Seq(Transaction)
    BY <2>2, <2>3, SeqDef
  <2> HIDE DEF burst
  <2>5. QED
    BY <2>1, <2>4, ConcatProperties
<1>3. ASSUME NEW i \in 1..Len(traffic), Response(i)
      PROVE  traffic' \in Seq(Transaction) /\ clock' \in Nat
  <2>1. clock' \in Nat /\ traffic' = [traffic EXCEPT ![i].ver = clock']
    BY <1>3 DEF Response
  <2>2. [traffic[i] EXCEPT !.ver = clock'] \in Transaction
    BY <1>1, <2>1 DEF Transaction
  <2>3. traffic' = [traffic EXCEPT ![i] = [traffic[i] EXCEPT !.ver = clock']]
    BY <2>1
  <2>4. QED
    BY <2>1, <2>2, <2>3, ExceptSeq
<1>4. ASSUME NEW i \in 1..Len(traffic), UserRemoves(i)
      PROVE  traffic' \in Seq(Transaction) /\ clock' \in Nat
  <2> DEFINE n == Len(traffic) - 1
  <2>1. n \in Nat
    BY <1>1
  <2>2. traffic' = [k \in 1..n |-> traffic[IF k < i THEN k ELSE k + 1]] /\ clock' = clock
    BY <1>4 DEF UserRemoves
  <2>3. \A k \in 1..n : (IF k < i THEN k ELSE k + 1) \in 1..Len(traffic)
    BY <1>1
  <2>4. \A k \in 1..n : traffic[IF k < i THEN k ELSE k + 1] \in Transaction
    BY <1>1, <2>3
  <2> HIDE DEF n
  <2>5. traffic' \in [1..n -> Transaction]
    BY <2>2, <2>4
  <2>6. QED
    BY <2>1, <2>2, <2>5, SeqDef
<1>5. CASE UserClears
  BY <1>5, EmptySeq DEF UserClears
<1>6. QED
  BY <1>2, <1>3, <1>4, <1>5

(* A session that took a snapshot, read or not, is well-typed. *)
LEMMA ReadType ==
  ASSUME SessionsOK, traffic \in Seq(Transaction), NEW s \in DOMAIN sessions,
         NEW t \in Snapshots(sessions[s], traffic), NEW c, NEW query, NEW limit,
         c \in PageEnds(t, query, limit), NEW advance \in BOOLEAN
  PROVE  IsSession(IF advance THEN Advance(t, c) ELSE t)
<1>1. IsSession(t)
  BY SnapshotType DEF SessionsOK
<1>2. c \in t.cursor..Len(t.events)
  BY DEF PageEnds
<1>3. QED
  BY <1>1, <1>2, AdvanceType

AllOK == CharlesOK /\ SessionsOK /\ StoreOK /\ ManagerOK

LEMMA TypeInit == Init => AllOK
<1> SUFFICES ASSUME Init PROVE AllOK
  OBVIOUS
<1>1. <<>> \in Seq(Transaction)
  BY EmptySeq
<1>2. DOMAIN sessions = {} /\ DOMAIN store = {}
  BY DEF Init, NoSessions, NoCaptures
<1>3. QED
  BY <1>1, <1>2 DEF Init, AllOK, CharlesOK, SessionsOK, StoreOK, ManagerOK, Operations

LEMMA TypeStart ==
  ASSUME AllOK, StartSteps \/ \E s \in Sids, reset, start \in BOOLEAN : Start(s, reset, start)
  PROVE  AllOK'
<1> USE DEF AllOK
<1>1. ASSUME NEW s \in Sids, NEW reset \in BOOLEAN, NEW start \in BOOLEAN, Start(s, reset, start)
      PROVE  AllOK'
  <2>1. op' \in Operations
    BY <1>1 DEF Start, Operations, StartStages
  <2>2. QED
    BY <1>1, <2>1
    DEF Start, CharlesOK, SessionsOK, StoreOK, ManagerOK, charlesVars, historyVars
<1>2. ASSUME NEW outcome \in Outcomes, StartClear(outcome) PROVE AllOK'
  <2>1. op' \in Operations
    BY <1>2 DEF StartClear, ManagerOK, Operations, StartStages, Idle
  <2>2. traffic' \in Seq(Transaction)
    BY <1>2, EmptySeq DEF StartClear, CharlesOK
  <2>3. QED
    BY <1>2, <2>1, <2>2
    DEF StartClear, CharlesOK, SessionsOK, StoreOK, ManagerOK, historyVars
<1>3. ASSUME NEW outcome \in Outcomes, StartRecord(outcome) PROVE AllOK'
  <2>1. op' \in Operations
    BY <1>3 DEF StartRecord, ManagerOK, Operations, StartStages, Idle
  <2>2. /\ recorder' \in {"off", "user", "server"}
        /\ leftBy' \subseteq {"lost start", "kept on request", "failed close", "crash"}
    BY <1>3, SetRecorderType DEF StartRecord, RecordOn, SetRecorder, CharlesOK
  <2>3. owned' \in BOOLEAN
    BY <1>3 DEF StartRecord, ManagerOK
  <2>4. QED
    BY <1>3, <2>1, <2>2, <2>3 DEF StartRecord, CharlesOK, SessionsOK, StoreOK, ManagerOK
<1>4. ASSUME StartSnapshot PROVE AllOK'
  <2>1. op.sid \in Sids
    BY <1>4 DEF StartSnapshot, ManagerOK, Operations, StartStages, Idle
  <2>2. PICK t \in Snapshots(NewSession, traffic) : sessions' = Put(sessions, op.sid, t)
    BY <1>4 DEF StartSnapshot
  <2>3. IsSession(t)
    BY NewSessionFacts, SnapshotType DEF CharlesOK
  <2>4. SessionsOK'
    BY <2>1, <2>2, <2>3, SessionsPutType
  <2>5. StoreOK'
    BY <1>4, <2>1, NewSessionFacts, StoreSaved DEF StartSnapshot, CharlesOK
  <2>6. QED
    BY <1>4, <2>4, <2>5
    DEF StartSnapshot, CharlesOK, ManagerOK, Operations, charlesVars, historyVars
<1>5. ASSUME StartSnapshotFails PROVE AllOK'
  <2>1. op' \in Operations
    BY <1>5 DEF StartSnapshotFails, ManagerOK, Operations, StartStages, Idle
  <2>2. QED
    BY <1>5, <2>1
    DEF StartSnapshotFails, CharlesOK, SessionsOK, StoreOK, ManagerOK, charlesVars, historyVars
<1>6. ASSUME NEW outcome \in Outcomes, StartRollback(outcome) PROVE AllOK'
  <2>1. /\ recorder' \in {"off", "user", "server"}
        /\ leftBy' \subseteq {"lost start", "kept on request", "failed close", "crash"}
    BY <1>6 DEF StartRollback, RecordOff, SetRecorder, CharlesOK
  <2>2. owned' \in BOOLEAN /\ stranded' \in BOOLEAN
    BY <1>6 DEF StartRollback, Disown, ManagerOK
  <2>3. QED
    BY <1>6, <2>1, <2>2
    DEF StartRollback, CharlesOK, SessionsOK, StoreOK, ManagerOK, Operations
<1>7. QED
  BY <1>1, <1>2, <1>3, <1>4, <1>5, <1>6 DEF StartSteps

LEMMA TypeRead ==
  ASSUME AllOK,
         \/ \E s \in Sids, query \in Queries, limit \in Limits, advance \in BOOLEAN :
              Read(s, query, limit, advance)
         \/ \E s \in Sids : Capture(s)
         \/ \E c \in DOMAIN store : DeleteCapture(c)
  PROVE  AllOK'
<1> USE DEF AllOK
<1>1. ASSUME NEW s \in Sids, NEW query \in Queries, NEW limit \in Limits, NEW advance \in BOOLEAN,
             Read(s, query, limit, advance)
      PROVE  AllOK'
  <2>1. s \in DOMAIN sessions
    BY <1>1 DEF Read, Active
  <2>2. PICK t \in Snapshots(sessions[s], traffic) : \E c \in PageEnds(t, query, limit) :
          sessions' = [sessions EXCEPT ![s] = IF advance THEN Advance(t, c) ELSE t]
    BY <1>1 DEF Read
  <2>2a. PICK c \in PageEnds(t, query, limit) :
          sessions' = [sessions EXCEPT ![s] = IF advance THEN Advance(t, c) ELSE t]
    BY <2>2
  <2>3. IsSession(IF advance THEN Advance(t, c) ELSE t)
    BY <2>1, ReadType DEF CharlesOK
  <2>4. SessionsOK'
    BY <2>2a, <2>3, SessionsPutType
  <2>5. StoreOK'
    BY <1>1, <2>1, StoreSaved DEF Read, CharlesOK, SessionsOK
  <2>6. QED
    BY <1>1, <2>4, <2>5 DEF Read, CharlesOK, ManagerOK, charlesVars, historyVars
<1>2. ASSUME NEW s \in Sids, Capture(s) PROVE AllOK'
  <2>1. s \in DOMAIN sessions
    BY <1>2 DEF Capture, Active
  <2>2. PICK t \in Snapshots(sessions[s], traffic) : sessions' = [sessions EXCEPT ![s] = t]
    BY <1>2 DEF Capture
  <2>3. IsSession(t)
    BY <2>1, SnapshotType DEF CharlesOK, SessionsOK
  <2>4. SessionsOK'
    BY <2>2, <2>3, SessionsPutType
  <2>5. StoreOK'
    BY <1>2, <2>1, StoreSaved DEF Capture, CharlesOK, SessionsOK
  <2>6. QED
    BY <1>2, <2>4, <2>5 DEF Capture, CharlesOK, ManagerOK, charlesVars, historyVars
<1>3. ASSUME NEW s \in DOMAIN store, DeleteCapture(s) PROVE AllOK'
  <2>1. StoreOK'
    BY <1>3 DEF DeleteCapture, StoreOK, Keep
  <2>2. QED
    BY <1>3, <2>1
    DEF DeleteCapture, CharlesOK, SessionsOK, ManagerOK, charlesVars, historyVars
<1>4. QED
  BY <1>1, <1>2, <1>3

LEMMA TypeStop ==
  ASSUME AllOK,
         \/ \E s \in Sids, restore, saved \in BOOLEAN : Stop(s, restore, saved)
         \/ \E s \in Sids : StopAgain(s)
         \/ StopSteps
  PROVE  AllOK'
<1> USE DEF AllOK
<1>1. ASSUME NEW s \in Sids, NEW restore \in BOOLEAN, NEW saved \in BOOLEAN, Stop(s, restore, saved)
      PROVE  AllOK'
  <2>1. s \in DOMAIN sessions
    BY <1>1 DEF Stop, Active
  <2> DEFINE results == IF saved THEN Snapshots(sessions[s], traffic) ELSE {sessions[s]}
             calls == Active = {s} /\ owned /\ restore
  <2>2. PICK t \in results :
          IF calls
            THEN /\ sessions' = [sessions EXCEPT ![s] = t]
                 /\ op' = [at |-> "stop", sid |-> s, saved |-> saved]
            ELSE /\ sessions' = [sessions EXCEPT ![s] = Deactivated(t, saved)]
                 /\ op' = Idle
    BY <1>1 DEF Stop
  <2>3. IsSession(t)
    BY <2>1, SnapshotType DEF CharlesOK, SessionsOK
  <2>4. IsSession(Deactivated(t, saved))
    BY <2>3, DeactivatedType
  <2> HIDE DEF calls
  <2>5. SessionsOK'
    <3>1. CASE calls
      BY <2>2, <2>3, <3>1, SessionsPutType
    <3>2. CASE ~ calls
      BY <2>2, <2>4, <3>2, SessionsPutType
    <3>3. QED
      BY <3>1, <3>2
  <2>6. op' \in Operations
    BY <2>2 DEF Operations
  <2>7. StoreOK'
    <3>1. CASE saved
      BY <1>1, <2>1, <3>1, StoreSaved DEF Stop, CharlesOK, SessionsOK
    <3>2. CASE ~ saved
      BY <1>1, <3>2 DEF Stop, StoreOK
    <3>3. QED
      BY <3>1, <3>2
  <2>8. /\ owned' \in BOOLEAN /\ stranded' \in BOOLEAN
        /\ recorder' \in {"off", "user", "server"}
        /\ leftBy' \subseteq {"lost start", "kept on request", "failed close", "crash"}
    <3>1. CASE Active = {s} /\ ~ restore
      BY <1>1, <3>1 DEF Stop, Disown, SetRecorder, CharlesOK
    <3>2. CASE ~ (Active = {s} /\ ~ restore)
      BY <1>1, <3>2 DEF Stop, CharlesOK, ManagerOK
    <3>3. QED
      BY <3>1, <3>2
  <2>9. traffic' = traffic /\ clock' = clock
    BY <1>1 DEF Stop
  <2>10. QED
    BY <2>5, <2>6, <2>7, <2>8, <2>9 DEF CharlesOK, ManagerOK
<1>2. ASSUME NEW s \in Sids, StopAgain(s) PROVE AllOK'
  <2>1. s \in DOMAIN sessions
    BY <1>2 DEF StopAgain
  <2> DEFINE t == [sessions[s] EXCEPT !.told = TRUE]
  <2>2. IsSession(t)
    BY <2>1 DEF SessionsOK, IsSession
  <2>3. sessions' = [sessions EXCEPT ![s] = t]
    BY <1>2 DEF StopAgain
  <2>4. SessionsOK'
    BY <2>2, <2>3, SessionsPutType
  <2>5. QED
    BY <1>2, <2>4
    DEF StopAgain, CharlesOK, StoreOK, ManagerOK, charlesVars, historyVars
<1>3. ASSUME NEW outcome \in Outcomes, StopRecord(outcome) PROVE AllOK'
  <2>1. op.sid \in Sids /\ op.saved \in BOOLEAN
    BY <1>3 DEF StopRecord, ManagerOK, Operations, StartStages, Idle
  <2>2. SessionsOK'
    <3>1. CASE outcome = "ok" /\ op.sid \in DOMAIN sessions
      <4>1. IsSession(Deactivated(sessions[op.sid], op.saved))
        BY <2>1, <3>1, DeactivatedType DEF SessionsOK
      <4>2. sessions' = [sessions EXCEPT ![op.sid] = Deactivated(sessions[op.sid], op.saved)]
        BY <1>3, <3>1 DEF StopRecord
      <4>3. QED
        BY <2>1, <4>1, <4>2, SessionsPutType
    <3>2. CASE outcome = "ok" /\ op.sid \notin DOMAIN sessions
      <4>1. sessions' = [sessions EXCEPT ![op.sid] = Deactivated(@, op.saved)]
        BY <1>3, <3>2 DEF StopRecord
      <4>2. QED
        BY <3>2, <4>1 DEF SessionsOK
    <3>3. CASE outcome # "ok"
      BY <1>3, <3>3 DEF StopRecord, SessionsOK
    <3>4. QED
      BY <3>1, <3>2, <3>3
  <2>3. /\ owned' \in BOOLEAN /\ stranded' \in BOOLEAN
        /\ recorder' \in {"off", "user", "server"}
        /\ leftBy' \subseteq {"lost start", "kept on request", "failed close", "crash"}
    BY <1>3 DEF StopRecord, RecordOff, SetRecorder, Disown, CharlesOK, ManagerOK
  <2>4. QED
    BY <1>3, <2>2, <2>3 DEF StopRecord, CharlesOK, StoreOK, ManagerOK, Operations
<1>4. QED
  BY <1>1, <1>2, <1>3 DEF StopSteps

LEMMA TypeExpireExit ==
  ASSUME AllOK, Expire \/ Exit
  PROVE  AllOK'
<1> USE DEF AllOK
<1>1. CASE ExpireQuietly
  BY <1>1, SessionsForgottenType
  DEF ExpireQuietly, CharlesOK, StoreOK, ManagerOK, charlesVars, historyVars
<1>2. CASE ExpireRestoring
  <2>1. SessionsOK'
    BY <1>2, SessionsForgottenType DEF ExpireRestoring
  <2>2. QED
    BY <1>2, <2>1
    DEF ExpireRestoring, RecordOff, SetRecorder, Disown, CharlesOK, StoreOK, ManagerOK
<1>3. ASSUME NEW outcome \in Outcomes, ExpireFails(outcome) PROVE AllOK'
  <2>1. PICK last \in Active, notReached \in SUBSET (Stale \ Active) :
          Forget(Stale \ ({last} \cup notReached))
    BY <1>3 DEF ExpireFails
  <2>2. SessionsOK'
    BY <2>1, SessionsForgottenType
  <2>3. QED
    BY <1>3, <2>2 DEF ExpireFails, RecordOff, SetRecorder, CharlesOK, StoreOK, ManagerOK
<1>4. ASSUME NEW outcome \in Outcomes, Close(outcome) PROVE AllOK'
  <2>1. /\ recorder' \in {"off", "user", "server"}
        /\ leftBy' \subseteq {"lost start", "kept on request", "failed close", "crash"}
    BY <1>4 DEF Close, SetRecorder, CharlesOK
  <2>2. SessionsOK' /\ ManagerOK'
    BY <1>4, NewProcessType DEF Close
  <2>3. QED
    BY <1>4, <2>1, <2>2 DEF Close, CharlesOK, StoreOK
<1>5. CASE Crash
  <2>1. /\ recorder' \in {"off", "user", "server"}
        /\ leftBy' \subseteq {"lost start", "kept on request", "failed close", "crash"}
    BY <1>5 DEF Crash, SetRecorder, CharlesOK
  <2>2. SessionsOK' /\ ManagerOK'
    BY <1>5, NewProcessType DEF Crash
  <2>3. QED
    BY <1>5, <2>1, <2>2 DEF Crash, CharlesOK, StoreOK
<1>6. QED
  BY <1>1, <1>2, <1>3, <1>4, <1>5 DEF Expire, Exit

LEMMA TypeWorld ==
  ASSUME AllOK, World \/ UserToggles \/ UNCHANGED vars
  PROVE  AllOK'
<1> USE DEF AllOK
<1>1. CASE \/ \E n \in 1..MaxBurst : NewRequests(n)
           \/ \E i \in 1..Len(traffic) : Response(i) \/ UserRemoves(i)
           \/ UserClears
  <2>1. traffic' \in Seq(Transaction) /\ clock' \in Nat
    BY <1>1, TrafficType DEF CharlesOK
  <2>2. UNCHANGED <<recorder, leftBy, serverVars>>
    BY <1>1 DEF NewRequests, Response, UserRemoves, UserClears
  <2>3. QED
    BY <2>1, <2>2 DEF CharlesOK, SessionsOK, StoreOK, ManagerOK, serverVars
<1>2. CASE UserToggles
  BY <1>2
  DEF UserToggles, SetRecorder, CharlesOK, SessionsOK, StoreOK, ManagerOK, serverVars
<1>3. CASE Tick
  <2>1. ASSUME NEW s \in DOMAIN sessions
        PROVE  IsSession([sessions[s] EXCEPT !.age = @ + 1])
    BY DEF SessionsOK, IsSession
  <2>2. ASSUME NEW s \in DOMAIN sessions'
        PROVE  s \in DOMAIN sessions /\ IsSession(sessions'[s])
    <3>1. s \in DOMAIN sessions
      BY <1>3 DEF Tick
    <3>2. CASE sessions[s].age < TTL
      BY <1>3, <2>1, <3>1, <3>2 DEF Tick
    <3>3. CASE ~ (sessions[s].age < TTL)
      BY <1>3, <3>1, <3>3 DEF Tick, SessionsOK
    <3>4. QED
      BY <3>1, <3>2, <3>3
  <2>3. SessionsOK'
    BY <2>2 DEF SessionsOK
  <2>4. QED
    BY <1>3, <2>3 DEF Tick, CharlesOK, StoreOK, ManagerOK, charlesVars, historyVars
<1>4. CASE UNCHANGED vars
  BY <1>4 DEF vars, CharlesOK, SessionsOK, StoreOK, ManagerOK
<1>5. QED
  BY <1>1, <1>2, <1>3, <1>4 DEF World, TrafficChanges

LEMMA TypeNext == AllOK /\ [Next]_vars => AllOK'
  BY TypeStart, TypeRead, TypeStop, TypeExpireExit, TypeWorld DEF Next, QuietNext, Requests

(* Every variable keeps its type, whatever the operations, the failures of *)
(* Charles, its user and the traffic do.                                   *)
THEOREM TypeCorrectness == Spec => []TypeOK
<1>1. Init => AllOK
  BY TypeInit
<1>2. AllOK /\ [Next]_vars => AllOK'
  BY TypeNext
<1>3. AllOK => TypeOK
  BY TypeParts DEF AllOK
<1>4. QED
  BY <1>1, <1>2, <1>3, PTL DEF Spec

----------------------------------------------------------------------------
(* What a step does to one session.  A Start that runs has a name nobody   *)
(* uses yet, which no operation can take from it while it holds the mutex. *)

StartIsFresh == op.at \in StartStages => op.sid \notin DOMAIN sessions \cup DOMAIN store

LEMMA StartIsFreshInit == Init => StartIsFresh
  BY DEF Init, StartIsFresh, Idle, StartStages

LEMMA StartIsFreshStep ==
  ASSUME AllOK, StartIsFresh, [Next]_vars
  PROVE  StartIsFresh'
<1> USE DEF StartIsFresh
<1>1. ASSUME NEW s \in Sids, NEW reset \in BOOLEAN, NEW start \in BOOLEAN, Start(s, reset, start)
      PROVE  StartIsFresh'
  BY <1>1 DEF Start
<1>2. ASSUME NEW outcome \in Outcomes,
             StartClear(outcome) \/ StartRecord(outcome) \/ StartRollback(outcome)
      PROVE  StartIsFresh'
  BY <1>2
  DEF StartClear, StartRecord, StartRollback, Idle, StartStages, AllOK, ManagerOK, Operations
<1>3. CASE StartSnapshot \/ StartSnapshotFails
  BY <1>3 DEF StartSnapshot, StartSnapshotFails, Idle, StartStages, AllOK, ManagerOK, Operations
<1>4. CASE StopSteps
  BY <1>4 DEF StopSteps, StopRecord, Idle, StartStages
<1>5. ASSUME NEW s \in Sids, NEW query \in Queries, NEW limit \in Limits, NEW advance \in BOOLEAN,
             Read(s, query, limit, advance)
      PROVE  StartIsFresh'
  BY <1>5 DEF Read, Idle, StartStages
<1>6. ASSUME NEW s \in Sids, NEW restore \in BOOLEAN, NEW saved \in BOOLEAN, Stop(s, restore, saved)
      PROVE  StartIsFresh'
  <2>1. op' = Idle \/ op' = [at |-> "stop", sid |-> s, saved |-> saved]
    BY <1>6 DEF Stop
  <2>2. op'.at \notin StartStages
    BY <2>1 DEF Idle, StartStages
  <2>3. QED
    BY <2>2
<1>7. CASE \/ \E s \in Sids : Capture(s) \/ StopAgain(s)
           \/ \E c \in DOMAIN store : DeleteCapture(c)
  <2>1. op = Idle /\ op' = op
    BY <1>7 DEF Capture, StopAgain, DeleteCapture
  <2>2. op'.at \notin StartStages
    BY <2>1 DEF Idle, StartStages
  <2>3. QED
    BY <2>2
<1>8. CASE Expire
  BY <1>8 DEF Expire, ExpireQuietly, ExpireRestoring, ExpireFails, Idle, StartStages
<1>9. CASE Exit
  <2>1. op' = Idle
    BY <1>9 DEF Exit, Close, Crash, NewProcess
  <2>2. op'.at \notin StartStages
    BY <2>1 DEF Idle, StartStages
  <2>3. QED
    BY <2>2
<1>10. CASE World \/ UserToggles
  <2>1. op' = op /\ store' = store /\ DOMAIN sessions' = DOMAIN sessions
    BY <1>10
    DEF World, TrafficChanges, NewRequests, Response, UserRemoves, UserClears, UserToggles, Tick,
        serverVars
  <2>2. QED
    BY <2>1
<1>11. CASE UNCHANGED vars
  BY <1>11 DEF vars
<1>12. QED
  BY <1>1, <1>2, <1>3, <1>4, <1>5, <1>6, <1>7, <1>8, <1>9, <1>10, <1>11
  DEF Next, QuietNext, StartSteps, Requests

SameReading(t, s) ==
  /\ t.entries = s.entries /\ t.events = s.events /\ t.cursor = s.cursor /\ t.seen = s.seen
  /\ t.keys = s.keys /\ t.generation = s.generation

(* The step leaves what the session holds alone; it may end the session or *)
(* delete the capture of one that has ended.                               *)
Untouched(s) ==
  /\ s \in DOMAIN sessions
  /\ SameReading(sessions'[s], sessions[s])
  /\ sessions'[s].active => sessions[s].active
  /\ s \in DOMAIN store' => s \in DOMAIN store /\ store'[s] = store[s]
  /\ sessions[s].active /\ s \in DOMAIN store => s \in DOMAIN store'

(* The step takes a snapshot of b for the session, and maybe a page. *)
Taken(s, b) ==
  /\ Save(s, b)
  /\ \E t \in Snapshots(b, traffic) :
       \/ SameReading(sessions'[s], t)
       \/ \E c \in t.cursor..Len(t.events) : sessions'[s] = Advance(t, c)

Touches(s) ==
  \/ Untouched(s)
  \/ s \in DOMAIN sessions /\ sessions[s].active /\ Taken(s, sessions[s])
  \/ s \notin DOMAIN store /\ Taken(s, NewSession)

LEMMA StartTouches ==
  ASSUME AllOK, StartIsFresh,
         StartSteps \/ \E s \in Sids, reset, start \in BOOLEAN : Start(s, reset, start),
         NEW s \in DOMAIN sessions'
  PROVE  Touches(s)
<1>1. CASE StartSnapshot
  <2>1. PICK t \in Snapshots(NewSession, traffic) : sessions' = Put(sessions, op.sid, t)
    BY <1>1 DEF StartSnapshot
  <2>2. CASE s = op.sid
    <3>1. sessions'[s] = t
      BY <2>1, <2>2 DEF Put
    <3>2. Save(s, NewSession)
      BY <1>1, <2>2 DEF StartSnapshot
    <3>3. s \notin DOMAIN store
      BY <1>1, <2>2 DEF StartSnapshot, StartIsFresh, StartStages
    <3>4. QED
      BY <3>1, <3>2, <3>3 DEF Touches, Taken, SameReading
  <2>3. CASE s # op.sid
    <3>1. s \in DOMAIN sessions /\ sessions'[s] = sessions[s]
      BY <2>1, <2>3 DEF Put
    <3>2. DOMAIN store' = DOMAIN store \cup {op.sid} /\ (s \in DOMAIN store => store'[s] = store[s])
      BY <1>1, <2>3 DEF StartSnapshot, Save, Put
    <3>3. QED
      BY <2>3, <3>1, <3>2 DEF Touches, Untouched, SameReading
  <2>4. QED
    BY <2>2, <2>3
<1>2. CASE ~ StartSnapshot
  <2>1. sessions' = sessions /\ store' = store
    BY <1>2
    DEF StartSteps, Start, StartClear, StartRecord, StartRollback, StartSnapshotFails
  <2>2. QED
    BY <2>1 DEF Touches, Untouched, SameReading
<1>3. QED
  BY <1>1, <1>2

(* A snapshot of r, read or not, leaves the other sessions alone. *)
LEMMA OthersUntouched ==
  ASSUME NEW r \in DOMAIN sessions, NEW t, sessions' = [sessions EXCEPT ![r] = t],
         store' = store \/ Save(r, sessions[r]), NEW s \in DOMAIN sessions', s # r
  PROVE  Untouched(s)
<1>1. s \in DOMAIN sessions /\ sessions'[s] = sessions[s]
  OBVIOUS
<1>2. CASE store' = store
  BY <1>1, <1>2 DEF Untouched, SameReading
<1>3. CASE Save(r, sessions[r])
  <2>1. DOMAIN store' = DOMAIN store \cup {r} /\ (s \in DOMAIN store => store'[s] = store[s])
    BY <1>3 DEF Save, Put
  <2>2. QED
    BY <1>1, <2>1 DEF Untouched, SameReading
<1>4. QED
  BY <1>2, <1>3

LEMMA ReadTouches ==
  ASSUME AllOK,
         \/ \E r \in Sids, query \in Queries, limit \in Limits, advance \in BOOLEAN :
              Read(r, query, limit, advance)
         \/ \E r \in Sids : Capture(r)
         \/ \E c \in DOMAIN store : DeleteCapture(c),
         NEW s \in DOMAIN sessions'
  PROVE  Touches(s)
<1>1. ASSUME NEW r \in Sids, NEW query \in Queries, NEW limit \in Limits, NEW advance \in BOOLEAN,
             Read(r, query, limit, advance)
      PROVE  Touches(s)
  <2>1. r \in DOMAIN sessions /\ sessions[r].active /\ Save(r, sessions[r])
    BY <1>1 DEF Read, Active
  <2>2. PICK t \in Snapshots(sessions[r], traffic) : \E c \in PageEnds(t, query, limit) :
          sessions' = [sessions EXCEPT ![r] = IF advance THEN Advance(t, c) ELSE t]
    BY <1>1 DEF Read
  <2>3. PICK c \in PageEnds(t, query, limit) :
          sessions' = [sessions EXCEPT ![r] = IF advance THEN Advance(t, c) ELSE t]
    BY <2>2
  <2>4. CASE s = r
    <3>1. c \in t.cursor..Len(t.events)
      BY DEF PageEnds
    <3>2. sessions'[s] = IF advance THEN Advance(t, c) ELSE t
      BY <2>1, <2>3, <2>4
    <3>3. Taken(s, sessions[s])
      BY <2>1, <2>4, <3>1, <3>2 DEF Taken, SameReading
    <3>4. QED
      BY <2>1, <2>4, <3>3 DEF Touches
  <2>5. CASE s # r
    BY <2>1, <2>3, <2>5, OthersUntouched DEF Touches
  <2>6. QED
    BY <2>4, <2>5
<1>2. ASSUME NEW r \in Sids, Capture(r) PROVE Touches(s)
  <2>1. r \in DOMAIN sessions /\ sessions[r].active /\ Save(r, sessions[r])
    BY <1>2 DEF Capture, Active
  <2>2. PICK t \in Snapshots(sessions[r], traffic) : sessions' = [sessions EXCEPT ![r] = t]
    BY <1>2 DEF Capture
  <2>3. CASE s = r
    <3>1. sessions'[s] = t
      BY <2>1, <2>2, <2>3
    <3>2. Taken(s, sessions[s])
      BY <2>1, <2>3, <3>1 DEF Taken, SameReading
    <3>3. QED
      BY <2>1, <2>3, <3>2 DEF Touches
  <2>4. CASE s # r
    BY <2>1, <2>2, <2>4, OthersUntouched DEF Touches
  <2>5. QED
    BY <2>3, <2>4
<1>3. ASSUME NEW r \in DOMAIN store, DeleteCapture(r) PROVE Touches(s)
  <2>1. sessions' = sessions /\ r \notin Active
    BY <1>3 DEF DeleteCapture
  <2>2. /\ DOMAIN store' = DOMAIN store \ {r}
        /\ \A c \in DOMAIN store' : store'[c] = store[c]
    BY <1>3 DEF DeleteCapture, Keep
  <2>3. QED
    BY <2>1, <2>2 DEF Touches, Untouched, SameReading, Active
<1>4. QED
  BY <1>1, <1>2, <1>3

LEMMA StopTouches ==
  ASSUME AllOK,
         \/ \E r \in Sids, restore, saved \in BOOLEAN : Stop(r, restore, saved)
         \/ \E r \in Sids : StopAgain(r)
         \/ StopSteps,
         NEW s \in DOMAIN sessions'
  PROVE  Touches(s)
<1>1. ASSUME NEW r \in Sids, NEW restore \in BOOLEAN, NEW saved \in BOOLEAN, Stop(r, restore, saved)
      PROVE  Touches(s)
  <2>1. r \in DOMAIN sessions /\ sessions[r].active
    BY <1>1 DEF Stop, Active
  <2> DEFINE results == IF saved THEN Snapshots(sessions[r], traffic) ELSE {sessions[r]}
  <2>2. PICK t \in results :
          \/ sessions' = [sessions EXCEPT ![r] = t]
          \/ sessions' = [sessions EXCEPT ![r] = Deactivated(t, saved)]
    BY <1>1 DEF Stop
  <2>3. IsSession(t)
    BY <2>1, SnapshotType DEF AllOK, CharlesOK, SessionsOK
  <2>4. SameReading(Deactivated(t, saved), t) /\ ~ Deactivated(t, saved).active
    BY <2>3 DEF SameReading, Deactivated, IsSession
  <2>5. store' = store \/ Save(r, sessions[r])
    BY <1>1 DEF Stop
  <2>6. CASE s = r
    <3>1. SameReading(sessions'[s], t) /\ (sessions'[s].active => t.active)
      BY <2>1, <2>2, <2>4, <2>6 DEF SameReading
    <3>2. CASE saved
      <4>1. t \in Snapshots(sessions[s], traffic) /\ Save(s, sessions[s])
        BY <1>1, <2>6, <3>2 DEF Stop
      <4>2. Taken(s, sessions[s])
        BY <3>1, <4>1 DEF Taken
      <4>3. QED
        BY <2>1, <2>6, <4>2 DEF Touches
    <3>3. CASE ~ saved
      <4>1. t = sessions[s] /\ store' = store
        BY <1>1, <2>6, <3>3 DEF Stop
      <4>2. QED
        BY <2>1, <2>6, <3>1, <4>1 DEF Touches, Untouched
    <3>4. QED
      BY <3>2, <3>3
  <2>7. CASE s # r
    BY <2>1, <2>2, <2>5, <2>7, OthersUntouched DEF Touches
  <2>8. QED
    BY <2>6, <2>7
<1>2. ASSUME NEW r \in Sids, StopAgain(r) PROVE Touches(s)
  <2>1. /\ sessions' = [sessions EXCEPT ![r] = [sessions[r] EXCEPT !.told = TRUE]]
        /\ store' = store
    BY <1>2 DEF StopAgain
  <2>2. s \in DOMAIN sessions /\ IsSession(sessions[s])
    BY <2>1 DEF AllOK, SessionsOK
  <2>3. SameReading(sessions'[s], sessions[s]) /\ sessions'[s].active = sessions[s].active
    BY <2>1, <2>2 DEF SameReading, IsSession
  <2>4. QED
    BY <2>1, <2>2, <2>3 DEF Touches, Untouched
<1>3. ASSUME NEW outcome \in Outcomes, StopRecord(outcome) PROVE Touches(s)
  <2>1. /\ \/ sessions' = [sessions EXCEPT ![op.sid] = Deactivated(@, op.saved)]
           \/ sessions' = sessions
        /\ store' = store
    BY <1>3 DEF StopRecord
  <2>2. s \in DOMAIN sessions /\ IsSession(sessions[s])
    BY <2>1 DEF AllOK, SessionsOK
  <2>3. /\ SameReading(Deactivated(sessions[s], op.saved), sessions[s])
        /\ ~ Deactivated(sessions[s], op.saved).active
    BY <2>2 DEF SameReading, Deactivated, IsSession
  <2>4. /\ SameReading(sessions'[s], sessions[s])
        /\ sessions'[s].active => sessions[s].active
    <3>1. sessions'[s] = sessions[s] \/ sessions'[s] = Deactivated(sessions[s], op.saved)
      BY <2>1, <2>2
    <3>2. QED
      BY <2>3, <3>1 DEF SameReading
  <2>5. QED
    BY <2>1, <2>2, <2>4 DEF Touches, Untouched
<1>4. QED
  BY <1>1, <1>2, <1>3 DEF StopSteps

LEMMA RestTouches ==
  ASSUME AllOK, Expire \/ Exit \/ World \/ UserToggles \/ UNCHANGED vars,
         NEW s \in DOMAIN sessions'
  PROVE  Touches(s)
<1>1. CASE Expire
  <2>1. store' = store /\ \E S : Forget(S)
    BY <1>1 DEF Expire, ExpireQuietly, ExpireRestoring, ExpireFails
  <2>2. s \in DOMAIN sessions /\ sessions'[s] = sessions[s]
    BY <2>1, SessionsForgotten
  <2>3. QED
    BY <2>1, <2>2 DEF Touches, Untouched, SameReading
<1>2. CASE Exit
  BY <1>2 DEF Exit, Close, Crash, NewProcess, NoSessions
<1>3. CASE Tick
  <2>1. /\ s \in DOMAIN sessions /\ store' = store
        /\ sessions'[s] = [sessions[s] EXCEPT !.age = @ + 1] \/ sessions'[s] = sessions[s]
    BY <1>3 DEF Tick
  <2>2. IsSession(sessions[s])
    BY <2>1 DEF AllOK, SessionsOK
  <2>3. SameReading(sessions'[s], sessions[s]) /\ sessions'[s].active = sessions[s].active
    BY <2>1, <2>2 DEF SameReading, IsSession
  <2>4. QED
    BY <2>1, <2>3 DEF Touches, Untouched
<1>4. CASE (World /\ ~ Tick) \/ UserToggles \/ UNCHANGED vars
  <2>1. sessions' = sessions /\ store' = store
    BY <1>4
    DEF World, TrafficChanges, NewRequests, Response, UserRemoves, UserClears, UserToggles,
        serverVars, vars
  <2>2. QED
    BY <2>1 DEF Touches, Untouched, SameReading
<1>5. QED
  BY <1>1, <1>2, <1>3, <1>4

LEMMA StepTouches ==
  ASSUME AllOK, StartIsFresh, [Next]_vars, NEW s \in DOMAIN sessions'
  PROVE  Touches(s)
  BY StartTouches, ReadTouches, StopTouches, RestTouches DEF Next, QuietNext, Requests

(* A step adds no capture but those named after the sessions. *)
LEMMA NewCaptures ==
  ASSUME AllOK, [Next]_vars
  PROVE  DOMAIN store' \subseteq DOMAIN store \cup Sids
<1>1. ASSUME NEW s \in Sids, NEW b, Save(s, b) PROVE DOMAIN store' \subseteq DOMAIN store \cup Sids
  BY <1>1 DEF Save, Put
<1>2. CASE StartSnapshot
  BY <1>1, <1>2 DEF StartSnapshot, AllOK, ManagerOK, Operations, Idle
<1>3. ASSUME NEW s \in Sids, NEW query \in Queries, NEW limit \in Limits, NEW advance \in BOOLEAN,
             Read(s, query, limit, advance)
      PROVE  DOMAIN store' \subseteq DOMAIN store \cup Sids
  BY <1>1, <1>3 DEF Read
<1>4. ASSUME NEW s \in Sids, NEW restore \in BOOLEAN, NEW saved \in BOOLEAN, Stop(s, restore, saved)
      PROVE  DOMAIN store' \subseteq DOMAIN store \cup Sids
  BY <1>1, <1>4 DEF Stop
<1>5. ASSUME NEW s \in Sids, Capture(s) PROVE DOMAIN store' \subseteq DOMAIN store \cup Sids
  BY <1>1, <1>5 DEF Capture
<1>6. ASSUME NEW c \in DOMAIN store, DeleteCapture(c)
      PROVE  DOMAIN store' \subseteq DOMAIN store \cup Sids
  BY <1>6 DEF DeleteCapture, Keep
<1>7. CASE \/ StartSteps /\ ~ StartSnapshot
           \/ StopSteps \/ Expire \/ Exit \/ World \/ UserToggles \/ UNCHANGED vars
           \/ \E s \in Sids, reset, start \in BOOLEAN : Start(s, reset, start)
           \/ \E s \in Sids : StopAgain(s)
  <2>1. store' = store
    BY <1>7
    DEF StartSteps, Start, StartClear, StartRecord, StartRollback, StartSnapshotFails, StopSteps,
        StopRecord, StopAgain, Expire, ExpireQuietly, ExpireRestoring, ExpireFails, Exit, Close,
        Crash, World, TrafficChanges, NewRequests, Response, UserRemoves, UserClears,
        UserToggles, Tick,
        serverVars, vars
  <2>2. QED
    BY <2>1
<1>8. QED
  BY <1>2, <1>3, <1>4, <1>5, <1>6, <1>7 DEF Next, QuietNext, Requests

----------------------------------------------------------------------------
LEMMA SameReadingLossless ==
  ASSUME NEW s, NEW t, SameReading(t, s), IsLossless(s)
  PROVE  IsLossless(t)
  BY DEF SameReading, IsLossless, Pending, Consumed

(* A snapshot, read or not, of a session that has lost nothing. *)
LEMMA TakenLossless ==
  ASSUME traffic \in Seq(Transaction), NEW s, NEW b, IsSession(b), IsLossless(b), Taken(s, b)
  PROVE  IsLossless(sessions'[s])
<1>1. PICK t \in Snapshots(b, traffic) :
        \/ SameReading(sessions'[s], t)
        \/ \E c \in t.cursor..Len(t.events) : sessions'[s] = Advance(t, c)
  BY DEF Taken
<1>2. IsSession(t) /\ IsLossless(t)
  BY SnapshotType, SnapshotLossless
<1>3. QED
  BY <1>1, <1>2, SameReadingLossless, AdvanceLossless

LEMMA LosslessInit == Init => NoLostUpdate
  BY DEF Init, NoSessions, NoLostUpdate

LEMMA LosslessNext ==
  ASSUME AllOK, StartIsFresh, NoLostUpdate, [Next]_vars
  PROVE  NoLostUpdate'
<1>1. ASSUME NEW s \in DOMAIN sessions' PROVE IsLossless(sessions'[s])
  <2>1. Touches(s)
    BY StepTouches
  <2>2. CASE Untouched(s)
    BY <2>2, SameReadingLossless DEF Untouched, NoLostUpdate
  <2>3. CASE s \in DOMAIN sessions /\ Taken(s, sessions[s])
    BY <2>3, TakenLossless DEF AllOK, CharlesOK, SessionsOK, NoLostUpdate
  <2>4. CASE Taken(s, NewSession)
    BY <2>4, TakenLossless, NewSessionFacts DEF AllOK, CharlesOK
  <2>5. QED
    BY <2>1, <2>2, <2>3, <2>4 DEF Touches
<1>2. QED
  BY <1>1 DEF NoLostUpdate

(* Lossless pagination, which the tool description of mcp.go promises: at  *)
(* any time every entry whose current content no advancing read has        *)
(* consumed is behind the cursor, so that a later read returns it.         *)
THEOREM LosslessPagination == Spec => []NoLostUpdate
<1> DEFINE IInv == AllOK /\ StartIsFresh /\ NoLostUpdate
<1>1. Init => IInv
  BY LosslessInit, TypeInit, StartIsFreshInit
<1>2. IInv /\ [Next]_vars => IInv'
  BY TypeNext, StartIsFreshStep, LosslessNext
<1>3. QED
  BY <1>1, <1>2, PTL DEF Spec

----------------------------------------------------------------------------
(* A snapshot, read or not, brings the rows in line with the session. *)
LEMMA TakenMirror ==
  ASSUME traffic \in Seq(Transaction), NEW s, NEW b, IsSession(b), IsMirror(Rows(s), b), Taken(s, b)
  PROVE  s \in DOMAIN store' /\ IsMirror(store'[s], sessions'[s])
<1>1. PICK t \in Snapshots(b, traffic) :
        \/ SameReading(sessions'[s], t)
        \/ \E c \in t.cursor..Len(t.events) : sessions'[s] = Advance(t, c)
  BY DEF Taken
<1>2. IsSession(t)
  BY SnapshotType
<1>3. sessions'[s].entries = t.entries
  BY <1>1, <1>2, AdvanceType DEF SameReading
<1>4. s \in DOMAIN store' /\ store'[s] = Upsert(Rows(s), b, traffic)
  BY DEF Taken, Save, Put
<1>5. IsMirror(store'[s], t)
  BY <1>4, SnapshotMirror
<1>6. QED
  BY <1>3, <1>4, <1>5 DEF IsMirror

(* The rows SaveCapture leaves in SQLite are the entries the session has   *)
(* in memory, and the sequence column entries are ordered by is the number *)
(* in the payload, which an upsert rewrites and the column keeps.          *)
THEOREM CapturesMirrorSessions == Spec => []StoreMirrors
<1> DEFINE IInv == AllOK /\ StartIsFresh /\ StoreMirrors
<1>1. Init => IInv
  <2>1. Init => StoreMirrors
    BY DEF Init, NoSessions, StoreMirrors
  <2>2. QED
    BY <2>1, TypeInit, StartIsFreshInit
<1>2. IInv /\ [Next]_vars => IInv'
  <2> SUFFICES ASSUME IInv, [Next]_vars PROVE IInv'
    OBVIOUS
  <2>1. AllOK'
    BY TypeNext
  <2>2. StartIsFresh'
    BY StartIsFreshStep
  <2>3. ASSUME NEW s \in DOMAIN sessions'
        PROVE  /\ sessions'[s].active => s \in DOMAIN store'
               /\ s \in DOMAIN store' => IsMirror(store'[s], sessions'[s])
    <3>1. Touches(s)
      BY StepTouches
    <3>2. CASE Untouched(s)
      <4>1. /\ sessions[s].active => s \in DOMAIN store
            /\ s \in DOMAIN store => IsMirror(store[s], sessions[s])
        BY <3>2 DEF Untouched, StoreMirrors
      <4>2. QED
        BY <3>2, <4>1 DEF Untouched, SameReading, IsMirror
    <3>3. CASE s \in DOMAIN sessions /\ sessions[s].active /\ Taken(s, sessions[s])
      <4>1. IsSession(sessions[s]) /\ traffic \in Seq(Transaction)
        BY <3>3 DEF AllOK, CharlesOK, SessionsOK
      <4>2. IsMirror(Rows(s), sessions[s])
        BY <3>3 DEF StoreMirrors, Rows
      <4>3. QED
        BY <3>3, <4>1, <4>2, TakenMirror
    <3>4. CASE s \notin DOMAIN store /\ Taken(s, NewSession)
      <4>1. IsMirror(Rows(s), NewSession)
        BY <3>4, NewSessionFacts DEF Rows
      <4>2. QED
        BY <3>4, <4>1, NewSessionFacts, TakenMirror DEF AllOK, CharlesOK
    <3>5. QED
      BY <3>1, <3>2, <3>3, <3>4 DEF Touches
  <2>4. StoreMirrors'
    BY <2>3 DEF StoreMirrors
  <2>5. QED
    BY <2>1, <2>2, <2>4
<1>3. QED
  BY <1>1, <1>2, PTL DEF Spec
=============================================================================
