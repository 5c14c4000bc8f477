------------------------- MODULE LiveDeliveryProofs -------------------------
(***************************************************************************)
(* Theorems that need to know how content moves from Charles to a session, *)
(* whatever the traffic: nothing is delivered twice, a capture only grows, *)
(* and the live captures implement the feed.                               *)
(*                                                                         *)
(* An entry is named after the place and the identity of a transaction, so *)
(* the danger is a name that comes to mean another transaction, or older   *)
(* content.  It does not: either every transaction of the last export is   *)
(* still at its place, with content that only got newer, or some place is  *)
(* empty or held by a later request, and the next snapshot sees a reset.   *)
(***************************************************************************)
EXTENDS LiveFeedRefinement, LiveOwnershipProofs

(* Stamps are given in order: requests are appended with the newest one. *)
IsOrdered(latest, now) ==
  /\ \A i \in 1..Len(latest) : latest[i].req <= now /\ latest[i].ver <= now
  /\ \A i, j \in 1..Len(latest) : i < j => latest[i].req <= latest[j].req

(* The entries of the current generation are named after the last export,  *)
(* which is past, and no read has consumed what is not there yet.          *)
IsNamed(s, now) ==
  /\ \A i \in 1..Len(s.keys) : s.keys[i] <= now
  /\ \A id \in DOMAIN s.entries :
       /\ id[1] <= s.generation
       /\ id[1] = s.generation => id[2] \in 1..Len(s.keys) /\ id[3] = s.keys[id[2]]
  /\ \A id \in DOMAIN s.seen : id \in DOMAIN s.entries /\ s.seen[id] <= s.entries[id].ver

(* Every transaction of the last export is still at its place. *)
IsIntact(s, latest) ==
  /\ Len(latest) >= Len(s.keys)
  /\ \A id \in DOMAIN s.entries : id[1] = s.generation =>
       /\ latest[id[2]].nth = s.entries[id].nth
       /\ latest[id[2]].ver >= s.entries[id].ver
  /\ \A i \in (Len(s.keys) + 1)..Len(latest) : \A j \in 1..Len(s.keys) :
       latest[i].req > s.keys[j]

(* One of the places is empty or held by a later request. *)
IsBroken(s, latest) ==
  \E i \in 1..Len(s.keys) :
    i <= Len(latest) => \A j \in 1..Len(s.keys) : latest[i].req > s.keys[j]

IsTracked(s, latest, now) ==
  IsNamed(s, now) /\ (IsIntact(s, latest) \/ IsBroken(s, latest))

(* An entry waits once, and not for what was consumed. *)
IsFresh(s) ==
  \A k \in (s.cursor + 1)..Len(s.events) :
    /\ ~ Consumed(s, s.events[k])
    /\ \A j \in (k + 1)..Len(s.events) : s.events[j] # s.events[k]

----------------------------------------------------------------------------
(* A broken place is seen: the next snapshot starts a generation. *)
LEMMA BrokenIsReset ==
  ASSUME NEW s, IsSession(s), NEW latest \in Seq(Transaction), IsBroken(s, latest)
  PROVE  ResetDetected(s, latest)
<1>1. PICK i \in 1..Len(s.keys) :
        i <= Len(latest) => \A j \in 1..Len(s.keys) : latest[i].req > s.keys[j]
  BY DEF IsBroken
<1>2. Len(latest) \in Nat /\ Len(s.keys) \in Nat /\ \A j \in 1..Len(s.keys) : s.keys[j] \in Nat
  BY LenProperties, ElementOfSeq DEF IsSession
<1>3. CASE i > Len(latest)
  BY <1>2, <1>3 DEF ResetDetected
<1>4. CASE i <= Len(latest)
  <2>1. latest[i].req > s.keys[i]
    BY <1>1, <1>4
  <2>2. latest[i] \in Transaction /\ latest[i].req \in Nat
    <3>1. i \in 1..Len(latest)
      BY <1>2, <1>4
    <3>2. latest[i] \in Transaction
      BY <3>1, ElementOfSeq
    <3>3. QED
      BY <3>2 DEF Transaction
  <2>3. Identity(latest[i]) # s.keys[i]
    BY <1>2, <2>1, <2>2 DEF Identity
  <2>4. QED
    BY <2>3 DEF ResetDetected
<1>5. QED
  BY <1>2, <1>3, <1>4

(* What a name of the last generation means has not changed. *)
LEMMA NamesLast ==
  ASSUME NEW s, IsSession(s), NEW latest \in Seq(Transaction), NEW now, IsTracked(s, latest, now),
         NEW i \in 1..Len(latest), IDAt(s, latest, i) \in DOMAIN s.entries
  PROVE  LET id == IDAt(s, latest, i) IN
         /\ latest[i].nth = s.entries[id].nth
         /\ latest[i].ver >= s.entries[id].ver
<1> DEFINE id == IDAt(s, latest, i)
<1>1. id[1] = NextGeneration(s, latest) /\ id[2] = i
  BY DEF IDAt, EntryID
<1>2. id[1] <= s.generation /\ s.generation \in Nat
  BY DEF IsTracked, IsNamed, IsSession
<1>3. ~ ResetDetected(s, latest) /\ id[1] = s.generation
  BY <1>1, <1>2 DEF NextGeneration
<1>4. IsIntact(s, latest)
  BY <1>3, BrokenIsReset DEF IsTracked
<1>5. QED
  BY <1>1, <1>3, <1>4 DEF IsIntact

(* Entries stay with their transactions, and content gets only newer. *)
Grows(old, new) ==
  \A id \in DOMAIN old : /\ id \in DOMAIN new
                         /\ new[id].nth = old[id].nth
                         /\ new[id].ver >= old[id].ver

LEMMA SnapshotGrows ==
  ASSUME NEW s, IsSession(s), NEW latest \in Seq(Transaction), NEW now, IsTracked(s, latest, now),
         NEW t \in Snapshots(s, latest)
  PROVE  Grows(s.entries, t.entries)
<1> DEFINE E == EntriesAfter(s, latest)
<1>1. t.entries = E
  BY SnapshotFields
<1>2. /\ DOMAIN E = DOMAIN s.entries \cup ChangedIDs(s, latest)
      /\ \A id \in DOMAIN s.entries \ ChangedIDs(s, latest) : E[id] = s.entries[id]
      /\ \A id \in ChangedIDs(s, latest) : E[id] = EntryAt(s, latest, id[2])
  BY EntriesAfterFacts
<1> HIDE DEF E
<1>3. ASSUME NEW id \in DOMAIN s.entries
      PROVE  E[id].nth = s.entries[id].nth /\ E[id].ver >= s.entries[id].ver
  <2>1. CASE id \notin ChangedIDs(s, latest)
    <3>1. E[id] = s.entries[id] /\ s.entries[id].ver \in Nat
      BY <2>1, <1>2 DEF IsSession, IsEntryMap, Entry
    <3>2. QED
      BY <3>1
  <2>2. CASE id \in ChangedIDs(s, latest)
    <3>1. E[id] = EntryAt(s, latest, id[2])
      BY <2>2, <1>2
    <3>2. id = IDAt(s, latest, id[2]) /\ id[2] \in 1..Len(latest)
      BY <2>2, ChangedIDsFacts, NamesAndNumbers
    <3>3. latest[id[2]].nth = s.entries[id].nth /\ latest[id[2]].ver >= s.entries[id].ver
      BY <3>2, NamesLast
    <3>4. QED
      BY <3>1, <3>3 DEF EntryAt
  <2>3. QED
    BY <2>1, <2>2
<1>4. QED
  BY <1>1, <1>2, <1>3 DEF Grows

(* After a snapshot the export is the last one, and every transaction of   *)
(* it is at its place.                                                     *)
LEMMA SnapshotTracked ==
  ASSUME NEW s, IsSession(s), NEW latest \in Seq(Transaction), NEW now \in Nat,
         IsOrdered(latest, now), IsTracked(s, latest, now), NEW t \in Snapshots(s, latest)
  PROVE  IsTracked(t, latest, now)
<1> DEFINE E == EntriesAfter(s, latest)
           G == NextGeneration(s, latest)
<1>1. t.entries = E /\ t.generation = G /\ t.keys = KeysOf(latest) /\ t.seen = s.seen
  BY SnapshotFields
<1>2. Len(latest) \in Nat /\ \A i \in 1..Len(latest) : latest[i] \in Transaction
  BY LenProperties, ElementOfSeq
<1>3. Len(t.keys) = Len(latest) /\ \A i \in 1..Len(latest) : t.keys[i] = latest[i].req
  <2>1. \A i \in 1..Len(latest) : KeysOf(latest)[i] = latest[i].req
    BY DEF KeysOf, Identity
  <2>2. KeysOf(latest) \in [1..Len(latest) -> Nat]
    BY <1>2 DEF KeysOf, Identity, Transaction
  <2>3. Len(KeysOf(latest)) = Len(latest)
    BY <1>2, <2>2, SeqDef, LenProperties
  <2>4. QED
    BY <1>1, <2>1, <2>3
<1>4. /\ DOMAIN E = DOMAIN s.entries \cup ChangedIDs(s, latest)
      /\ \A id \in DOMAIN s.entries \ ChangedIDs(s, latest) : E[id] = s.entries[id]
      /\ \A id \in ChangedIDs(s, latest) : E[id] = EntryAt(s, latest, id[2])
  BY EntriesAfterFacts
<1>5. G \in Nat /\ s.generation \in Nat /\ s.generation <= G
  BY NamesAndNumbers DEF NextGeneration, IsSession
<1>6. ASSUME NEW id \in DOMAIN E
      PROVE  /\ id[1] <= G
             /\ id[1] = G => id[2] \in 1..Len(latest) /\ id = IDAt(s, latest, id[2])
  <2>1. CASE id \in ChangedIDs(s, latest)
    <3>1. id = IDAt(s, latest, id[2]) /\ id[2] \in 1..Len(latest)
      BY <2>1, ChangedIDsFacts, NamesAndNumbers
    <3>2. id[1] = G
      BY <3>1 DEF IDAt, EntryID
    <3>3. QED
      BY <1>5, <3>1, <3>2
  <2>2. CASE id \in DOMAIN s.entries
    <3>1. /\ id \in EntryIDs /\ id[1] \in Nat
          /\ id[1] <= s.generation
          /\ id[1] = s.generation => id[2] \in 1..Len(s.keys) /\ id[3] = s.keys[id[2]]
      BY <2>2 DEF IsTracked, IsNamed, IsSession, IsEntryMap, EntryIDs
    <3>2. CASE id[1] = G
      <4>1. id[1] = s.generation /\ ~ ResetDetected(s, latest)
        BY <1>5, <3>1, <3>2 DEF NextGeneration
      <4>2. Len(s.keys) \in Nat /\ Len(latest) >= Len(s.keys)
        BY <1>2, <4>1, LenProperties DEF ResetDetected, IsSession
      <4>3. id[2] \in 1..Len(latest) /\ Identity(latest[id[2]]) = id[3]
        BY <1>2, <3>1, <4>1, <4>2 DEF ResetDetected
      <4>4. id = IDAt(s, latest, id[2])
        BY <3>1, <3>2, <4>3 DEF IDAt, EntryID, EntryIDs
      <4>5. QED
        BY <1>5, <3>2, <4>3, <4>4
    <3>3. QED
      BY <1>5, <3>1, <3>2
  <2>3. QED
    BY <1>4, <2>1, <2>2
<1>7. IsNamed(t, now)
  <2>1. \A i \in 1..Len(t.keys) : t.keys[i] <= now
    BY <1>3 DEF IsOrdered
  <2>2. \A id \in DOMAIN E : id[1] = G => id[3] = latest[id[2]].req
    BY <1>6 DEF IDAt, EntryID, Identity
  <2>3. ASSUME NEW id \in DOMAIN t.seen
        PROVE  id \in DOMAIN E /\ t.seen[id] <= E[id].ver
    <3>1. id \in DOMAIN s.entries /\ s.seen[id] <= s.entries[id].ver
      BY <1>1, <2>3 DEF IsTracked, IsNamed
    <3>2. id \in DOMAIN E /\ E[id].ver >= s.entries[id].ver
      BY <1>1, <3>1, SnapshotGrows DEF Grows
    <3>3. s.seen[id] \in Nat /\ s.entries[id].ver \in Nat /\ E[id].ver \in Nat
      <4>1. s.seen[id] \in Nat /\ s.entries[id].ver \in Nat
        BY <1>1, <2>3, <3>1 DEF IsSession, IsEntryMap, Entry
      <4>2. IsEntryMap(E)
        BY EntriesAfterFacts
      <4>3. QED
        BY <3>2, <4>1, <4>2 DEF IsEntryMap, Entry
    <3> HIDE DEF E
    <3>4. QED
      BY <1>1, <3>1, <3>2, <3>3
  <2> HIDE DEF E, G
  <2>4. QED
    BY <1>1, <1>3, <1>6, <2>1, <2>2, <2>3 DEF IsNamed
<1>8. ASSUME NEW id \in DOMAIN E, id[1] = G
      PROVE  latest[id[2]].nth = E[id].nth /\ latest[id[2]].ver >= E[id].ver
  <2>1. id[2] \in 1..Len(latest) /\ id = IDAt(s, latest, id[2]) /\ latest[id[2]].ver \in Nat
    BY <1>2, <1>6, <1>8 DEF Transaction
  <2>2. CASE id \in ChangedIDs(s, latest)
    BY <1>4, <2>1, <2>2 DEF EntryAt
  <2>3. CASE id \notin ChangedIDs(s, latest)
    <3>1. id \in DOMAIN s.entries /\ E[id] = s.entries[id]
      BY <1>4, <2>3
    <3>2. latest[id[2]].nth = s.entries[id].nth /\ latest[id[2]].ver >= s.entries[id].ver
      BY <2>1, <3>1, NamesLast
    <3>3. QED
      BY <3>1, <3>2
  <2>4. QED
    BY <2>2, <2>3
<1>9. IsIntact(t, latest)
  <2>1. \A i \in (Len(t.keys) + 1)..Len(latest) : FALSE
    BY <1>2, <1>3
  <2> HIDE DEF E, G
  <2>2. Len(latest) >= Len(t.keys)
    BY <1>2, <1>3
  <2>3. QED
    BY <1>1, <1>8, <2>1, <2>2 DEF IsIntact
<1>10. QED
  BY <1>7, <1>9 DEF IsTracked

(* What a snapshot adds to the queue did not wait, and is added once. *)
LEMMA SnapshotFresh ==
  ASSUME NEW s, IsSession(s), NEW latest \in Seq(Transaction), NEW now,
         IsTracked(s, latest, now), IsFresh(s), NEW t \in Snapshots(s, latest)
  PROVE  IsFresh(t)
<1> DEFINE old == Len(s.events)
<1>1. PICK news \in InOrder(ToQueue(s, latest)) : t.events = EventsAfter(s, latest, news)
  BY SnapshotFields
<1>2. t.cursor = s.cursor /\ t.seen = s.seen /\ t.entries = EntriesAfter(s, latest)
  BY SnapshotFields
<1>3. ToQueue(s, latest) \subseteq 1..Len(latest) /\ IsFiniteSet(ToQueue(s, latest))
  BY NamesAndNumbers, FS_Subset DEF ToQueue
<1>4. /\ Len(news) \in Nat
      /\ \A k \in 1..Len(news) : news[k] \in ToQueue(s, latest)
      /\ \A j, k \in 1..Len(news) : j < k => news[j] < news[k]
  <2>1. Cardinality(ToQueue(s, latest)) \in Nat
    BY <1>3, FS_CardinalityType
  <2>2. Len(news) \in Nat /\ news \in Seq(ToQueue(s, latest))
    BY <1>3, InOrderFacts
  <2>3. Len(news) = Cardinality(ToQueue(s, latest))
    BY <2>1, <2>2, LenProperties DEF InOrder
  <2>4. QED
    BY <2>1, <2>3 DEF InOrder
<1>5. old \in Nat /\ s.cursor \in 0..old
  BY LenProperties DEF IsSession
<1>6. /\ Len(t.events) = old + Len(news)
      /\ \A k \in 1..old : t.events[k] = s.events[k]
      /\ \A k \in (old + 1)..(old + Len(news)) :
           k - old \in 1..Len(news) /\ t.events[k] = IDAt(s, latest, news[k - old])
  <2>1. t.events = [k \in 1..(old + Len(news)) |->
                      IF k <= old THEN s.events[k] ELSE IDAt(s, latest, news[k - old])]
    BY <1>1 DEF EventsAfter
  <2>2. t.events \in Seq(EntryIDs)
    BY SnapshotType DEF IsSession
  <2> HIDE DEF old
  <2>3. Len(t.events) = old + Len(news)
    BY <1>4, <1>5, <2>1, <2>2, LenProperties
  <2>4. QED
    BY <1>4, <1>5, <2>1, <2>3
<1> HIDE DEF old
<1>7. ASSUME NEW k \in (s.cursor + 1)..old
      PROVE  ~ Consumed(t, t.events[k]) /\ t.events[k] \in Pending(s)
  <2>1. t.events[k] = s.events[k] /\ ~ Consumed(s, s.events[k]) /\ s.events[k] \in DOMAIN s.entries
    BY <1>5, <1>6 DEF old, IsFresh, IsSession
  <2> DEFINE id == s.events[k]
  <2>2. id \in DOMAIN s.seen => s.seen[id] < s.entries[id].ver
    BY <2>1 DEF Consumed, IsTracked, IsNamed, IsSession, IsEntryMap, Entry
  <2>3. t.entries[id].ver >= s.entries[id].ver
    BY <2>1, SnapshotGrows DEF Grows
  <2>4. /\ s.entries[id].ver \in Nat /\ t.entries[id].ver \in Nat
        /\ id \in DOMAIN s.seen => s.seen[id] \in Nat
    <3>1. IsSession(t) /\ id \in DOMAIN t.entries
      BY <2>1, SnapshotType, SnapshotGrows DEF Grows
    <3>2. QED
      BY <2>1, <3>1 DEF IsSession, IsEntryMap, Entry
  <2>5. t.events[k] \in Pending(s)
    BY <2>1 DEF Pending, old
  <2> HIDE DEF id
  <2>6. ~ Consumed(t, id)
    BY <1>2, <2>2, <2>3, <2>4 DEF Consumed
  <2>7. QED
    BY <2>1, <2>5, <2>6 DEF id
<1>8. ASSUME NEW k \in (old + 1)..(old + Len(news))
      PROVE  /\ ~ Consumed(t, t.events[k])
             /\ t.events[k] \notin Pending(s)
             /\ t.events[k][2] = news[k - old]
  <2> DEFINE i == news[k - old]
             id == IDAt(s, latest, i)
  <2>1. t.events[k] = id /\ i \in ToQueue(s, latest)
    BY <1>4, <1>6
  <2>2. i \in 1..Len(latest) /\ i \in Changed(s, latest) /\ id \notin Pending(s)
    BY <1>3, <2>1 DEF ToQueue
  <2>3. id[2] = i
    BY <2>2, NamesAndNumbers
  <2>4. t.entries[id].ver = latest[i].ver
    <3>1. id \in ChangedIDs(s, latest)
      BY <2>2 DEF ChangedIDs
    <3>2. EntriesAfter(s, latest)[id] = EntryAt(s, latest, id[2])
      BY <3>1, EntriesAfterFacts
    <3> HIDE DEF i, id
    <3>3. QED
      BY <1>2, <2>3, <3>2 DEF EntryAt
  <2>5. ASSUME id \in DOMAIN s.seen PROVE s.seen[id] < latest[i].ver
    <3>1. id \in DOMAIN s.entries /\ s.seen[id] <= s.entries[id].ver
      BY <2>5 DEF IsTracked, IsNamed
    <3>2. latest[i].ver >= s.entries[id].ver
      BY <2>2, <3>1, NamesLast
    <3>3. s.entries[id].ver # latest[i].ver
      BY <2>2, <3>1 DEF Changed, Unchanged
    <3>4. s.seen[id] \in Nat /\ s.entries[id].ver \in Nat
      BY <2>5, <3>1 DEF IsSession, IsEntryMap, Entry
    <3>5. latest[i] \in Transaction
      BY <2>2, ElementOfSeq
    <3>6. latest[i].ver \in Nat
      BY <3>5 DEF Transaction
    <3> HIDE DEF i, id
    <3>7. QED
      BY <3>1, <3>2, <3>3, <3>4, <3>6
  <2>6. ~ Consumed(t, id)
    <3>1. latest[i] \in Transaction
      BY <2>2, ElementOfSeq
    <3>2. latest[i].ver \in Nat
      BY <3>1 DEF Transaction
    <3>3. id \in DOMAIN s.seen => s.seen[id] \in Nat
      BY DEF IsSession
    <3> HIDE DEF i, id
    <3>4. QED
      BY <1>2, <2>4, <2>5, <3>2, <3>3 DEF Consumed
  <2>7. QED
    BY <2>1, <2>2, <2>3, <2>6
<1>9. ASSUME NEW k \in (s.cursor + 1)..(old + Len(news)), NEW j \in (k + 1)..(old + Len(news))
      PROVE  t.events[j] # t.events[k]
  <2>1. CASE j <= old
    <3>1. /\ k \in (s.cursor + 1)..old /\ j \in (k + 1)..old
          /\ t.events[k] = s.events[k] /\ t.events[j] = s.events[j]
      BY <1>4, <1>5, <1>6, <2>1
    <3>2. QED
      BY <3>1 DEF IsFresh, old
  <2>2. CASE k <= old /\ j > old
    <3>1. k \in (s.cursor + 1)..old /\ j \in (old + 1)..(old + Len(news))
      BY <1>4, <1>5, <2>2
    <3>2. QED
      BY <1>7, <1>8, <3>1
  <2>3. CASE k > old
    <3>1. /\ k \in (old + 1)..(old + Len(news)) /\ j \in (old + 1)..(old + Len(news))
          /\ k - old \in 1..Len(news) /\ j - old \in 1..Len(news) /\ k - old < j - old
      BY <1>4, <1>5, <2>3
    <3>2. news[k - old] < news[j - old] /\ news[k - old] \in Nat /\ news[j - old] \in Nat
      BY <1>3, <1>4, <3>1
    <3>3. t.events[k][2] # t.events[j][2]
      BY <1>8, <3>1, <3>2
    <3>4. QED
      BY <3>3
  <2>4. QED
    BY <1>4, <1>5, <2>1, <2>2, <2>3
<1>10. \A k \in (s.cursor + 1)..(old + Len(news)) : ~ Consumed(t, t.events[k])
  BY <1>4, <1>5, <1>7, <1>8
<1>11. QED
  BY <1>2, <1>6, <1>9, <1>10 DEF IsFresh

(* An advancing read leaves what follows the page as it was. *)
LEMMA AdvanceFresh ==
  ASSUME NEW s, IsSession(s), IsFresh(s), NEW c \in s.cursor..Len(s.events),
         NEW latest, NEW now, IsTracked(s, latest, now)
  PROVE  IsFresh(Advance(s, c)) /\ IsTracked(Advance(s, c), latest, now)
<1> DEFINE t == Advance(s, c)
           consumed == {s.events[k] : k \in (s.cursor + 1)..c}
<1>1. /\ t.entries = s.entries /\ t.events = s.events /\ t.cursor = c
      /\ t.keys = s.keys /\ t.generation = s.generation
  BY AdvanceType DEF Advance, IsSession
<1>2. t.seen = [id \in DOMAIN s.seen \cup consumed |->
                  IF id \in consumed THEN s.entries[id].ver ELSE s.seen[id]]
  BY DEF Advance, IsSession
<1>3. Len(s.events) \in Nat /\ c \in Nat /\ s.cursor \in Nat
  BY LenProperties DEF IsSession
<1>4. consumed \subseteq DOMAIN s.entries /\ \A id \in DOMAIN s.entries : s.entries[id].ver \in Nat
  BY <1>3 DEF IsSession, IsEntryMap, Entry
<1> HIDE DEF t
<1>5. ASSUME NEW k \in (c + 1)..Len(s.events)
      PROVE  /\ ~ Consumed(t, s.events[k])
             /\ \A j \in (k + 1)..Len(s.events) : s.events[j] # s.events[k]
  <2>1. k \in (s.cursor + 1)..Len(s.events)
    BY <1>3
  <2>2. s.events[k] \notin consumed
    <3>1. ASSUME NEW b \in (s.cursor + 1)..c PROVE s.events[k] # s.events[b]
      <4>1. b \in (s.cursor + 1)..Len(s.events) /\ k \in (b + 1)..Len(s.events)
        BY <1>3
      <4>2. QED
        BY <4>1 DEF IsFresh
    <3>2. QED
      BY <3>1
  <2>3. ~ Consumed(s, s.events[k])
    BY <2>1 DEF IsFresh
  <2> HIDE DEF consumed
  <2>4. ~ Consumed(t, s.events[k])
    BY <1>1, <1>2, <2>2, <2>3 DEF Consumed
  <2>5. QED
    BY <2>1, <2>4 DEF IsFresh
<1>6. IsFresh(t)
  BY <1>1, <1>5 DEF IsFresh
<1> HIDE DEF consumed
<1>7. \A id \in DOMAIN t.seen : id \in DOMAIN s.entries /\ t.seen[id] <= s.entries[id].ver
  BY <1>2, <1>4 DEF IsTracked, IsNamed
<1>8. IsNamed(t, now)
  BY <1>1, <1>7 DEF IsTracked, IsNamed
<1>9. IsTracked(t, latest, now)
  BY <1>1, <1>8 DEF IsTracked, IsIntact, IsBroken
<1>10. QED
  BY <1>6, <1>9 DEF t

----------------------------------------------------------------------------
(* What Charles and its user do to the places of the last export. *)

LEMMA ExportFacts ==
  ASSUME NEW latest \in Seq(Transaction)
  PROVE  /\ Len(latest) \in Nat
         /\ \A i \in 1..Len(latest) :
              latest[i].req \in Nat /\ latest[i].nth \in Nat /\ latest[i].ver \in Nat
<1>1. Len(latest) \in Nat /\ \A i \in 1..Len(latest) : latest[i] \in Transaction
  BY LenProperties, ElementOfSeq
<1>2. QED
  BY <1>1 DEF Transaction

LEMMA KeysFacts ==
  ASSUME NEW s, IsSession(s), NEW now, IsNamed(s, now)
  PROVE  /\ Len(s.keys) \in Nat
         /\ \A j \in 1..Len(s.keys) : s.keys[j] \in Nat /\ s.keys[j] <= now
         /\ \A id \in DOMAIN s.entries : s.entries[id].ver \in Nat
         /\ \A id \in DOMAIN s.entries : id[1] = s.generation => id[2] \in 1..Len(s.keys)
<1>1. Len(s.keys) \in Nat /\ \A j \in 1..Len(s.keys) : s.keys[j] \in Nat
  BY LenProperties, ElementOfSeq DEF IsSession
<1>2. QED
  BY <1>1 DEF IsNamed, IsSession, IsEntryMap, Entry

(* New requests come after everything there is. *)
LEMMA AppendTracked ==
  ASSUME NEW latest \in Seq(Transaction), NEW later \in Seq(Transaction), NEW now \in Nat,
         IsOrdered(latest, now), Len(later) >= Len(latest),
         \A i \in 1..Len(latest) : later[i] = latest[i],
         \A i \in (Len(latest) + 1)..Len(later) : later[i].req = now + 1 /\ later[i].ver = now + 1
  PROVE  /\ IsOrdered(later, now + 1)
         /\ \A s : IsSession(s) /\ IsTracked(s, latest, now) => IsTracked(s, later, now + 1)
<1>1. Len(latest) \in Nat /\ Len(later) \in Nat
  BY ExportFacts
<1>2. \A i \in 1..Len(latest) :
        /\ later[i].req = latest[i].req /\ later[i].req \in Nat /\ later[i].req <= now
        /\ later[i].ver \in Nat /\ later[i].ver <= now
  BY ExportFacts DEF IsOrdered
<1>3. IsOrdered(later, now + 1)
  <2>1. \A i \in 1..Len(later) : later[i].req <= now + 1 /\ later[i].ver <= now + 1
    BY <1>1, <1>2
  <2>2. ASSUME NEW i \in 1..Len(later), NEW j \in 1..Len(later), i < j
        PROVE  later[i].req <= later[j].req
    <3>1. CASE j <= Len(latest)
      <4>1. i \in 1..Len(latest) /\ j \in 1..Len(latest)
        BY <1>1, <2>2, <3>1
      <4>2. QED
        BY <1>2, <2>2, <4>1 DEF IsOrdered
    <3>2. CASE j > Len(latest)
      <4>1. later[j].req = now + 1
        BY <1>1, <3>2
      <4>2. QED
        BY <2>1, <4>1
    <3>3. QED
      BY <1>1, <3>1, <3>2
  <2>3. QED
    BY <2>1, <2>2 DEF IsOrdered
<1>4. ASSUME NEW s, IsSession(s), IsTracked(s, latest, now)
      PROVE  IsTracked(s, later, now + 1)
  <2>1. /\ Len(s.keys) \in Nat
        /\ \A j \in 1..Len(s.keys) : s.keys[j] \in Nat /\ s.keys[j] <= now
        /\ \A id \in DOMAIN s.entries : id[1] = s.generation => id[2] \in 1..Len(s.keys)
    BY <1>4, KeysFacts DEF IsTracked
  <2>2. IsNamed(s, now + 1)
    <3>1. \A j \in 1..Len(s.keys) : s.keys[j] <= now + 1
      BY <2>1
    <3>2. QED
      BY <1>4, <3>1 DEF IsTracked, IsNamed
  <2>3. CASE IsIntact(s, latest)
    <3>1. Len(later) >= Len(s.keys) /\ Len(latest) >= Len(s.keys)
      BY <1>1, <2>1, <2>3 DEF IsIntact
    <3>2. ASSUME NEW i \in (Len(s.keys) + 1)..Len(later), NEW j \in 1..Len(s.keys)
          PROVE  later[i].req > s.keys[j]
      <4>1. CASE i <= Len(latest)
        <5>1. i \in (Len(s.keys) + 1)..Len(latest) /\ i \in 1..Len(latest)
          BY <1>1, <2>1, <4>1
        <5>2. QED
          BY <1>2, <2>3, <5>1 DEF IsIntact
      <4>2. CASE i > Len(latest)
        <5>1. later[i].req = now + 1
          BY <1>1, <2>1, <4>2
        <5>2. QED
          BY <2>1, <5>1
      <4>3. QED
        BY <1>1, <2>1, <4>1, <4>2
    <3>3. ASSUME NEW id \in DOMAIN s.entries, id[1] = s.generation
          PROVE  later[id[2]].nth = s.entries[id].nth /\ later[id[2]].ver >= s.entries[id].ver
      <4>1. later[id[2]] = latest[id[2]]
        BY <1>1, <2>1, <3>1, <3>3
      <4>2. QED
        BY <2>3, <3>3, <4>1 DEF IsIntact
    <3>4. IsIntact(s, later)
      BY <3>1, <3>2, <3>3 DEF IsIntact
    <3>5. QED
      BY <2>2, <3>4 DEF IsTracked
  <2>4. CASE IsBroken(s, latest)
    <3>1. PICK i \in 1..Len(s.keys) :
            i <= Len(latest) => \A j \in 1..Len(s.keys) : latest[i].req > s.keys[j]
      BY <2>4 DEF IsBroken
    <3>2. ASSUME i <= Len(later), NEW j \in 1..Len(s.keys) PROVE later[i].req > s.keys[j]
      <4>1. CASE i <= Len(latest)
        <5>1. later[i].req = latest[i].req
          BY <1>1, <1>2, <2>1, <4>1
        <5>2. QED
          BY <3>1, <4>1, <5>1
      <4>2. CASE i > Len(latest)
        <5>1. later[i].req = now + 1
          BY <1>1, <2>1, <3>2, <4>2
        <5>2. QED
          BY <2>1, <5>1
      <4>3. QED
        BY <1>1, <2>1, <4>1, <4>2
    <3>3. IsBroken(s, later)
      BY <3>2 DEF IsBroken
    <3>4. QED
      BY <2>2, <3>3 DEF IsTracked
  <2>5. QED
    BY <1>4, <2>3, <2>4 DEF IsTracked
<1>5. QED
  BY <1>3, <1>4

(* A response gives a transaction the newest content and leaves its place. *)
LEMMA RespondTracked ==
  ASSUME NEW latest \in Seq(Transaction), NEW later \in Seq(Transaction), NEW now \in Nat,
         IsOrdered(latest, now), Len(later) = Len(latest),
         \A i \in 1..Len(latest) : /\ later[i].req = latest[i].req
                                   /\ later[i].nth = latest[i].nth
                                   /\ later[i].ver \in {latest[i].ver, now + 1}
  PROVE  /\ IsOrdered(later, now + 1)
         /\ \A s : IsSession(s) /\ IsTracked(s, latest, now) => IsTracked(s, later, now + 1)
<1>1. Len(latest) \in Nat
      /\ \A i \in 1..Len(latest) :
           /\ latest[i].req \in Nat /\ latest[i].req <= now
           /\ latest[i].ver \in Nat /\ latest[i].ver <= now
  BY ExportFacts DEF IsOrdered
<1>2. \A i \in 1..Len(latest) : latest[i].ver <= later[i].ver /\ later[i].ver <= now + 1
                                /\ later[i].ver \in Nat
  BY <1>1
<1>3. IsOrdered(later, now + 1)
  BY <1>1, <1>2 DEF IsOrdered
<1>4. ASSUME NEW s, IsSession(s), IsTracked(s, latest, now)
      PROVE  IsTracked(s, later, now + 1)
  <2>1. /\ Len(s.keys) \in Nat
        /\ \A j \in 1..Len(s.keys) : s.keys[j] \in Nat /\ s.keys[j] <= now
        /\ \A id \in DOMAIN s.entries : s.entries[id].ver \in Nat
        /\ \A id \in DOMAIN s.entries : id[1] = s.generation => id[2] \in 1..Len(s.keys)
    BY <1>4, KeysFacts DEF IsTracked
  <2>2. IsNamed(s, now + 1)
    <3>1. \A j \in 1..Len(s.keys) : s.keys[j] <= now + 1
      BY <2>1
    <3>2. QED
      BY <1>4, <3>1 DEF IsTracked, IsNamed
  <2>3. CASE IsIntact(s, latest)
    <3>1. Len(latest) >= Len(s.keys)
      BY <2>3 DEF IsIntact
    <3>2. ASSUME NEW id \in DOMAIN s.entries, id[1] = s.generation
          PROVE  later[id[2]].nth = s.entries[id].nth /\ later[id[2]].ver >= s.entries[id].ver
      <4>1. id[2] \in 1..Len(latest)
        BY <1>1, <2>1, <3>1, <3>2
      <4>2. latest[id[2]].nth = s.entries[id].nth /\ latest[id[2]].ver >= s.entries[id].ver
        BY <2>3, <3>2 DEF IsIntact
      <4>3. QED
        BY <1>1, <1>2, <2>1, <4>1, <4>2
    <3>3. \A i \in (Len(s.keys) + 1)..Len(later) : \A j \in 1..Len(s.keys) :
            later[i].req > s.keys[j]
      BY <1>1, <2>1, <2>3 DEF IsIntact
    <3>4. IsIntact(s, later)
      BY <3>1, <3>2, <3>3 DEF IsIntact
    <3>5. QED
      BY <2>2, <3>4 DEF IsTracked
  <2>4. CASE IsBroken(s, latest)
    <3>1. PICK i \in 1..Len(s.keys) :
            i <= Len(latest) => \A j \in 1..Len(s.keys) : latest[i].req > s.keys[j]
      BY <2>4 DEF IsBroken
    <3>2. i <= Len(later) => later[i].req = latest[i].req
      BY <1>1, <2>1
    <3>3. IsBroken(s, later)
      BY <3>1, <3>2 DEF IsBroken
    <3>4. QED
      BY <2>2, <3>3 DEF IsTracked
  <2>5. QED
    BY <1>4, <2>3, <2>4 DEF IsTracked
<1>5. QED
  BY <1>3, <1>4

(* A removal pulls later requests into the places of the last export, or   *)
(* leaves the last place empty.                                            *)
LEMMA RemoveTracked ==
  ASSUME NEW latest \in Seq(Transaction), NEW later \in Seq(Transaction), NEW now \in Nat,
         IsOrdered(latest, now), NEW gone \in 1..Len(latest), Len(later) = Len(latest) - 1,
         \A k \in 1..Len(later) : later[k] = latest[IF k < gone THEN k ELSE k + 1]
  PROVE  /\ IsOrdered(later, now)
         /\ \A s : IsSession(s) /\ IsTracked(s, latest, now) => IsTracked(s, later, now)
<1>1. Len(latest) \in Nat /\ Len(later) \in Nat
      /\ \A i \in 1..Len(latest) : latest[i].req \in Nat
  BY ExportFacts
<1> DEFINE from(k) == IF k < gone THEN k ELSE k + 1
<1>2. \A k \in 1..Len(later) : from(k) \in 1..Len(latest) /\ from(k) >= k /\ later[k] = latest[from(k)]
  BY <1>1
<1>3. \A j, k \in 1..Len(later) : j < k => from(j) < from(k)
  BY <1>1
<1> HIDE DEF from
<1>4. IsOrdered(later, now)
  BY <1>2, <1>3 DEF IsOrdered
<1>5. ASSUME NEW s, IsSession(s), IsTracked(s, latest, now)
      PROVE  IsTracked(s, later, now)
  <2>1. /\ Len(s.keys) \in Nat
        /\ \A j \in 1..Len(s.keys) : s.keys[j] \in Nat /\ s.keys[j] <= now
        /\ \A id \in DOMAIN s.entries : id[1] = s.generation => id[2] \in 1..Len(s.keys)
    BY <1>5, KeysFacts DEF IsTracked
  <2>2. IsNamed(s, now)
    BY <1>5 DEF IsTracked
  <2>3. CASE IsIntact(s, latest) /\ gone > Len(s.keys)
    <3>1. Len(later) >= Len(s.keys)
      BY <1>1, <2>1, <2>3
    <3>2. \A k \in 1..Len(s.keys) : later[k] = latest[k]
      BY <1>1, <2>1, <2>3, <3>1
    <3>3. \A i \in (Len(s.keys) + 1)..Len(later) : \A j \in 1..Len(s.keys) :
            later[i].req > s.keys[j]
      <4>1. \A i \in (Len(s.keys) + 1)..Len(later) :
              from(i) \in (Len(s.keys) + 1)..Len(latest) /\ later[i] = latest[from(i)]
        BY <1>1, <1>2, <2>1
      <4>2. QED
        BY <2>3, <4>1 DEF IsIntact
    <3>4. IsIntact(s, later)
      BY <2>1, <2>3, <3>1, <3>2, <3>3 DEF IsIntact
    <3>5. QED
      BY <2>2, <3>4 DEF IsTracked
  <2>4. CASE IsIntact(s, latest) /\ gone <= Len(s.keys)
    <3> DEFINE n == Len(s.keys)
    <3>1. n \in 1..Len(s.keys)
      BY <1>1, <2>1, <2>4
    <3>2. ASSUME n <= Len(later), NEW j \in 1..Len(s.keys) PROVE later[n].req > s.keys[j]
      <4>1. n + 1 \in (Len(s.keys) + 1)..Len(latest) /\ n \in 1..Len(later) /\ ~ (n < gone)
        BY <1>1, <2>1, <2>4, <3>1, <3>2
      <4>2. later[n] = latest[n + 1]
        BY <4>1
      <4>3. QED
        BY <2>4, <4>1, <4>2 DEF IsIntact
    <3>3. IsBroken(s, later)
      BY <3>1, <3>2 DEF IsBroken
    <3>4. QED
      BY <2>2, <3>3 DEF IsTracked
  <2>5. CASE IsBroken(s, latest)
    <3>1. PICK i \in 1..Len(s.keys) :
            i <= Len(latest) => \A j \in 1..Len(s.keys) : latest[i].req > s.keys[j]
      BY <2>5 DEF IsBroken
    <3>2. ASSUME i <= Len(later), NEW j \in 1..Len(s.keys) PROVE later[i].req > s.keys[j]
      <4>1. i \in 1..Len(later) /\ i \in 1..Len(latest)
        BY <1>1, <2>1, <3>2
      <4>2. latest[i].req > s.keys[j]
        BY <1>1, <2>1, <3>1, <4>1
      <4>3. latest[i].req <= latest[from(i)].req
        BY <1>1, <1>2, <4>1 DEF IsOrdered
      <4>4. latest[i].req \in Nat /\ latest[from(i)].req \in Nat /\ s.keys[j] \in Nat
        BY <1>1, <1>2, <2>1, <4>1
      <4>5. QED
        BY <1>2, <4>1, <4>2, <4>3, <4>4
    <3>3. IsBroken(s, later)
      BY <3>2 DEF IsBroken
    <3>4. QED
      BY <2>2, <3>3 DEF IsTracked
  <2>6. QED
    BY <1>1, <1>5, <2>1, <2>3, <2>4, <2>5 DEF IsTracked
<1>6. QED
  BY <1>4, <1>5

(* A clear leaves every place empty. *)
LEMMA ClearTracked ==
  ASSUME NEW latest \in Seq(Transaction), NEW now \in Nat
  PROVE  /\ IsOrdered(<<>>, now)
         /\ \A s : IsSession(s) /\ IsTracked(s, latest, now) => IsTracked(s, <<>>, now)
<1>1. Len(<<>>) = 0
  BY EmptySeq
<1>2. IsOrdered(<<>>, now)
  BY <1>1 DEF IsOrdered
<1>3. ASSUME NEW s, IsSession(s), IsTracked(s, latest, now)
      PROVE  IsTracked(s, <<>>, now)
  <2>1. /\ Len(s.keys) \in Nat
        /\ \A id \in DOMAIN s.entries : id[1] = s.generation => id[2] \in 1..Len(s.keys)
    BY <1>3, KeysFacts DEF IsTracked
  <2>2. CASE Len(s.keys) = 0
    <3>1. IsIntact(s, <<>>)
      BY <1>1, <2>1, <2>2 DEF IsIntact
    <3>2. QED
      BY <1>3, <3>1 DEF IsTracked
  <2>3. CASE Len(s.keys) # 0
    <3>1. 1 \in 1..Len(s.keys) /\ ~ (1 <= Len(<<>>))
      BY <1>1, <2>1, <2>3
    <3>2. IsBroken(s, <<>>)
      BY <3>1 DEF IsBroken
    <3>3. QED
      BY <1>3, <3>2 DEF IsTracked
  <2>4. QED
    BY <2>2, <2>3
<1>4. QED
  BY <1>2, <1>3

----------------------------------------------------------------------------
(* The same of the steps of the system. *)

Tracked ==
  /\ IsOrdered(traffic, clock)
  /\ \A s \in DOMAIN sessions : IsTracked(sessions[s], traffic, clock)

LEMMA TrafficTracked ==
  ASSUME AllOK, AllOK', IsOrdered(traffic, clock), [Next]_vars
  PROVE  /\ IsOrdered(traffic', clock')
         /\ \A s : IsSession(s) /\ IsTracked(s, traffic, clock) => IsTracked(s, traffic', clock')
<1>1. /\ traffic \in Seq(Transaction) /\ traffic' \in Seq(Transaction)
      /\ clock \in Nat /\ Len(traffic) \in Nat
  BY LenProperties DEF AllOK, CharlesOK
<1>2. CASE UNCHANGED <<traffic, clock>>
  BY <1>2
<1>3. CASE traffic' = <<>> /\ clock' = clock
  BY <1>1, <1>3, ClearTracked
<1>4. ASSUME NEW n \in 1..MaxBurst, NewRequests(n)
      PROVE  /\ IsOrdered(traffic', clock')
             /\ \A s : IsSession(s) /\ IsTracked(s, traffic, clock)
                         => IsTracked(s, traffic', clock')
  <2> DEFINE burst == [k \in 1..n |-> [req |-> clock + 1, nth |-> k, ver |-> clock + 1]]
  <2>1. clock' = clock + 1 /\ traffic' = traffic \o burst
    BY <1>4 DEF NewRequests
  <2>2. n \in Nat /\ burst \in Seq(Transaction) /\ Len(burst) = n
    <3>1. n \in Nat
      BY ConstantsAssumption
    <3>2. burst \in [1..n -> Transaction]
      BY <1>1, <3>1 DEF Transaction
    <3>3. burst \in Seq(Transaction)
      BY <3>1, <3>2, SeqDef
    <3> HIDE DEF burst
    <3>4. QED
      BY <3>1, <3>2, <3>3, LenProperties
  <2>3. \A k \in 1..n : burst[k].req = clock + 1 /\ burst[k].ver = clock + 1
    OBVIOUS
  <2> HIDE DEF burst
  <2>4. /\ Len(traffic') = Len(traffic) + n
        /\ \A i \in 1..Len(traffic) : traffic'[i] = traffic[i]
        /\ \A i \in (Len(traffic) + 1)..Len(traffic') : traffic'[i] = burst[i - Len(traffic)]
    BY <1>1, <2>1, <2>2, ConcatProperties
  <2>5. \A i \in (Len(traffic) + 1)..Len(traffic') :
          traffic'[i].req = clock + 1 /\ traffic'[i].ver = clock + 1
    <3>1. \A i \in (Len(traffic) + 1)..Len(traffic') : i - Len(traffic) \in 1..n
      BY <1>1, <2>2, <2>4
    <3>2. QED
      BY <2>3, <2>4, <3>1
  <2>6. Len(traffic') >= Len(traffic)
    BY <1>1, <2>2, <2>4
  <2>7. QED
    BY <1>1, <2>1, <2>4, <2>5, <2>6, AppendTracked
<1>5. ASSUME NEW i \in 1..Len(traffic), Response(i)
      PROVE  /\ IsOrdered(traffic', clock')
             /\ \A s : IsSession(s) /\ IsTracked(s, traffic, clock)
                         => IsTracked(s, traffic', clock')
  <2>1. clock' = clock + 1 /\ traffic' = [traffic EXCEPT ![i] = [traffic[i] EXCEPT !.ver = clock + 1]]
    BY <1>5 DEF Response
  <2>2. \A k \in 1..Len(traffic) : traffic[k] \in Transaction
    BY <1>1, ElementOfSeq
  <2>3. Len(traffic') = Len(traffic)
    <3>1. DOMAIN traffic' = 1..Len(traffic)
      BY <1>1, <2>1, LenProperties
    <3>2. QED
      BY <1>1, <3>1, LenProperties
  <2>4. \A k \in 1..Len(traffic) :
          traffic'[k] = IF k = i THEN [traffic[i] EXCEPT !.ver = clock + 1] ELSE traffic[k]
    BY <1>1, <2>1, LenProperties
  <2>5. \A k \in 1..Len(traffic) : /\ traffic'[k].req = traffic[k].req
                                   /\ traffic'[k].nth = traffic[k].nth
                                   /\ traffic'[k].ver \in {traffic[k].ver, clock + 1}
    BY <2>2, <2>4 DEF Transaction
  <2>6. QED
    BY <1>1, <2>1, <2>3, <2>5, RespondTracked
<1>6. ASSUME NEW i \in 1..Len(traffic), UserRemoves(i)
      PROVE  /\ IsOrdered(traffic', clock')
             /\ \A s : IsSession(s) /\ IsTracked(s, traffic, clock)
                         => IsTracked(s, traffic', clock')
  <2> DEFINE n == Len(traffic) - 1
  <2>1. /\ clock' = clock
        /\ traffic' = [k \in 1..n |-> traffic[IF k < i THEN k ELSE k + 1]]
    BY <1>6 DEF UserRemoves
  <2>2. n \in Nat
    BY <1>1
  <2> HIDE DEF n
  <2>3. Len(traffic') = n /\ \A k \in 1..n : traffic'[k] = traffic[IF k < i THEN k ELSE k + 1]
    BY <1>1, <2>1, <2>2, LenProperties
  <2>4. QED
    BY <1>1, <2>1, <2>3, RemoveTracked DEF n
<1>7. QED
  <2>1. CASE StartSteps \/ StopSteps \/ Requests \/ Expire \/ Exit \/ Tick \/ UserToggles
              \/ UNCHANGED vars
    <3>1. clock' = clock /\ (traffic' = traffic \/ traffic' = <<>>)
      BY <2>1
      DEF StartSteps, StartClear, StartRecord, StartRollback, StartSnapshot, StartSnapshotFails,
          StopSteps, StopRecord, Requests, Start, Read, Stop, Capture, StopAgain, DeleteCapture,
          Expire, ExpireQuietly, ExpireRestoring, ExpireFails, Exit, Close, Crash, Tick,
          UserToggles, charlesVars, vars
    <3>2. QED
      BY <1>2, <1>3, <3>1
  <2>2. CASE World /\ ~ Tick
    <3>1. CASE UserClears
      BY <1>3, <3>1 DEF UserClears
    <3>2. QED
      BY <1>4, <1>5, <1>6, <2>2, <3>1 DEF World, TrafficChanges
  <2>3. QED
    BY <2>1, <2>2 DEF Next, QuietNext

(* A session that starts has no names yet, and nothing waits in it. *)
LEMMA NewSessionTracked ==
  ASSUME NEW latest \in Seq(Transaction), NEW now
  PROVE  IsTracked(NewSession, latest, now) /\ IsFresh(NewSession)
<1>1. /\ NewSession.keys = <<>> /\ NewSession.events = <<>> /\ NewSession.cursor = 0
      /\ DOMAIN NewSession.entries = {} /\ DOMAIN NewSession.seen = {}
      /\ Len(<<>>) = 0 /\ Len(latest) \in Nat
  BY EmptySeq, LenProperties DEF NewSession, NoEntries
<1>2. IsNamed(NewSession, now) /\ IsIntact(NewSession, latest) /\ IsFresh(NewSession)
  BY <1>1 DEF IsNamed, IsIntact, IsFresh
<1>3. QED
  BY <1>2 DEF IsTracked

LEMMA SameReadingTracked ==
  ASSUME NEW s, NEW t, SameReading(t, s), NEW latest, NEW now, IsTracked(s, latest, now)
  PROVE  IsTracked(t, latest, now) /\ (IsFresh(s) => IsFresh(t))
  BY DEF SameReading, IsTracked, IsNamed, IsIntact, IsBroken, IsFresh, Consumed

LEMMA TakenTracked ==
  ASSUME AllOK, IsOrdered(traffic, clock), NEW s, NEW b, IsSession(b), Taken(s, b),
         IsTracked(b, traffic, clock), IsFresh(b)
  PROVE  IsTracked(sessions'[s], traffic, clock) /\ IsFresh(sessions'[s])
<1>1. traffic \in Seq(Transaction) /\ clock \in Nat
  BY DEF AllOK, CharlesOK
<1>2. PICK t \in Snapshots(b, traffic) :
        \/ SameReading(sessions'[s], t)
        \/ \E c \in t.cursor..Len(t.events) : sessions'[s] = Advance(t, c)
  BY DEF Taken
<1>3. IsSession(t) /\ IsTracked(t, traffic, clock) /\ IsFresh(t)
  BY <1>1, SnapshotType, SnapshotTracked, SnapshotFresh
<1>4. QED
  BY <1>2, <1>3, SameReadingTracked, AdvanceFresh

DeliveryOK ==
  AllOK /\ StartIsFresh /\ Tracked /\ \A s \in DOMAIN sessions : IsFresh(sessions[s])

LEMMA DeliveryInit == Init => DeliveryOK
<1> SUFFICES ASSUME Init PROVE DeliveryOK
  OBVIOUS
<1>1. traffic = <<>> /\ DOMAIN sessions = {} /\ Len(<<>>) = 0
  BY EmptySeq DEF Init, NoSessions
<1>2. QED
  BY <1>1, TypeInit, StartIsFreshInit DEF DeliveryOK, Tracked, IsOrdered

LEMMA DeliveryNext == DeliveryOK /\ [Next]_vars => DeliveryOK'
<1> SUFFICES ASSUME DeliveryOK, [Next]_vars PROVE DeliveryOK'
  OBVIOUS
<1> USE DEF DeliveryOK
<1>1. AllOK'
  BY TypeNext
<1>2. StartIsFresh'
  BY StartIsFreshStep
<1>3. ASSUME NEW s \in DOMAIN sessions'
      PROVE  IsTracked(sessions'[s], traffic, clock) /\ IsFresh(sessions'[s])
  <2>1. Touches(s)
    BY <1>3, StepTouches
  <2>2. CASE Untouched(s)
    BY <2>2, SameReadingTracked DEF Untouched, Tracked
  <2>3. CASE s \in DOMAIN sessions /\ Taken(s, sessions[s])
    BY <2>3, TakenTracked DEF Tracked, AllOK, SessionsOK
  <2>4. CASE Taken(s, NewSession)
    <3>1. IsTracked(NewSession, traffic, clock) /\ IsFresh(NewSession) /\ IsSession(NewSession)
      BY NewSessionTracked, NewSessionFacts DEF AllOK, CharlesOK
    <3>2. QED
      BY <2>4, <3>1, TakenTracked DEF Tracked
  <2>5. QED
    BY <2>1, <2>2, <2>3, <2>4 DEF Touches
<1>4. Tracked'
  <2>1. IsOrdered(traffic', clock')
    BY <1>1, TrafficTracked DEF Tracked
  <2>2. ASSUME NEW s \in DOMAIN sessions' PROVE IsTracked(sessions'[s], traffic', clock')
    <3>1. IsSession(sessions'[s])
      BY <1>1, <2>2 DEF AllOK, SessionsOK
    <3>2. QED
      BY <1>1, <1>3, <3>1, TrafficTracked DEF Tracked
  <2>3. QED
    BY <2>1, <2>2 DEF Tracked
<1>5. QED
  BY <1>1, <1>2, <1>3, <1>4

(* An advancing read never returns the same content twice, whatever is     *)
(* cleared, removed, answered late or sent twice within a millisecond.     *)
THEOREM NothingIsReadTwice == Spec => []NoRedelivery
<1>1. DeliveryOK => NoRedelivery
  BY DEF DeliveryOK, NoRedelivery, IsFresh
<1>2. QED
  BY <1>1, DeliveryInit, DeliveryNext, PTL DEF Spec

----------------------------------------------------------------------------
(* The rows of a capture change only in a snapshot of its session. *)
LEMMA RowsFollow ==
  ASSUME AllOK, StartIsFresh, [Next]_vars, NEW c \in DOMAIN store \cap DOMAIN store'
  PROVE  \/ store'[c] = store[c]
         \/ /\ c \in DOMAIN sessions
            /\ store'[c] = Upsert(store[c], sessions[c], traffic)
            /\ \E t : t \in Snapshots(sessions[c], traffic)
<1> DEFINE Goal == \/ store'[c] = store[c]
                   \/ /\ c \in DOMAIN sessions
                      /\ store'[c] = Upsert(store[c], sessions[c], traffic)
                      /\ \E t : t \in Snapshots(sessions[c], traffic)
<1>1. ASSUME NEW r \in DOMAIN sessions, Save(r, sessions[r]),
             \E t : t \in Snapshots(sessions[r], traffic)
      PROVE  Goal
  <2>1. CASE r = c
    BY <1>1, <2>1 DEF Save, Put, Rows
  <2>2. CASE r # c
    BY <1>1, <2>2 DEF Save, Put
  <2>3. QED
    BY <2>1, <2>2
<1>2. CASE StartSnapshot
  <2>1. op.sid \notin DOMAIN store
    BY <1>2 DEF StartSnapshot, StartIsFresh, StartStages
  <2>2. QED
    BY <1>2, <2>1 DEF StartSnapshot, Save, Put
<1>3. ASSUME NEW s \in Sids, NEW query \in Queries, NEW limit \in Limits, NEW advance \in BOOLEAN,
             Read(s, query, limit, advance)
      PROVE  Goal
  <2>1. s \in DOMAIN sessions /\ Save(s, sessions[s])
    BY <1>3 DEF Read, Active
  <2>2. \E t : t \in Snapshots(sessions[s], traffic)
    BY <1>3 DEF Read
  <2>3. QED
    BY <1>1, <2>1, <2>2
<1>4. ASSUME NEW s \in Sids, Capture(s) PROVE Goal
  <2>1. s \in DOMAIN sessions /\ Save(s, sessions[s])
    BY <1>4 DEF Capture, Active
  <2>2. \E t : t \in Snapshots(sessions[s], traffic)
    BY <1>4 DEF Capture
  <2>3. QED
    BY <1>1, <2>1, <2>2
<1>5. ASSUME NEW s \in Sids, NEW restore \in BOOLEAN, NEW saved \in BOOLEAN, Stop(s, restore, saved)
      PROVE  Goal
  <2>1. CASE saved
    <3>1. s \in DOMAIN sessions /\ Save(s, sessions[s])
      BY <1>5, <2>1 DEF Stop, Active
    <3>2. \E t : t \in Snapshots(sessions[s], traffic)
      BY <1>5, <2>1 DEF Stop
    <3>3. QED
      BY <1>1, <3>1, <3>2
  <2>2. CASE ~ saved
    BY <1>5, <2>2 DEF Stop
  <2>3. QED
    BY <2>1, <2>2
<1>6. ASSUME NEW s \in DOMAIN store, DeleteCapture(s) PROVE Goal
  BY <1>6 DEF DeleteCapture, Keep
<1>7. CASE UNCHANGED store
  BY <1>7
<1>8. QED
  <2>1. CASE StartSteps \/ StopSteps
    BY <1>2, <1>7, <2>1
    DEF StartSteps, StopSteps, StopRecord, StartClear, StartRecord, StartRollback,
        StartSnapshotFails
  <2>2. CASE Requests
    <3>1. ASSUME NEW s \in Sids, NEW reset \in BOOLEAN, NEW start \in BOOLEAN,
                 Start(s, reset, start) \/ StopAgain(s)
          PROVE  UNCHANGED store
      BY <3>1 DEF Start, StopAgain
    <3>2. QED
      BY <1>3, <1>4, <1>5, <1>6, <1>7, <2>2, <3>1 DEF Requests
  <2>3. CASE Expire \/ Exit \/ World \/ UserToggles \/ UNCHANGED vars
    BY <1>7, <2>3
    DEF Expire, ExpireQuietly, ExpireRestoring, ExpireFails, Exit, Close, Crash, World,
        TrafficChanges, Tick,
        NewRequests, Response, UserRemoves, UserClears, UserToggles, serverVars, vars
  <2>4. QED
    BY <2>1, <2>2, <2>3 DEF Next, QuietNext

(* The rows of a capture are entries of its session, all of them unless    *)
(* another process has deleted the capture (store.go:127-145).             *)
Belongs(rows, s) ==
  \A id \in DOMAIN rows : id \in DOMAIN s.entries /\ rows[id].payload = s.entries[id]

RowsBelong == \A s \in DOMAIN sessions \cap DOMAIN store : Belongs(store[s], sessions[s])

LEMMA SnapshotBelongs ==
  ASSUME NEW s, IsSession(s), NEW latest \in Seq(Transaction),
         NEW t \in Snapshots(s, latest), NEW rows, Belongs(rows, s)
  PROVE  Belongs(Upsert(rows, s, latest), t)
<1> DEFINE U == Upsert(rows, s, latest)
           E == EntriesAfter(s, latest)
           ids == ChangedIDs(s, latest)
<1>1. t.entries = E
  BY SnapshotFields
<1>2. /\ DOMAIN E = DOMAIN s.entries \cup ids
      /\ \A id \in DOMAIN s.entries \ ids : E[id] = s.entries[id]
      /\ \A id \in ids : E[id] = EntryAt(s, latest, id[2])
  BY EntriesAfterFacts
<1>3. /\ DOMAIN U = DOMAIN rows \cup ids
      /\ \A id \in DOMAIN rows \ ids : U[id] = rows[id]
      /\ \A id \in ids : U[id].payload = EntryAt(s, latest, id[2])
  BY DEF Upsert
<1> HIDE DEF U, E, ids
<1>4. QED
  BY <1>1, <1>2, <1>3 DEF Belongs, U

LEMMA TakenBelongs ==
  ASSUME traffic \in Seq(Transaction), NEW s, NEW b, IsSession(b), Belongs(Rows(s), b), Taken(s, b)
  PROVE  Belongs(store'[s], sessions'[s])
<1>1. PICK t \in Snapshots(b, traffic) :
        \/ SameReading(sessions'[s], t)
        \/ \E c \in t.cursor..Len(t.events) : sessions'[s] = Advance(t, c)
  BY DEF Taken
<1>2. IsSession(t)
  BY SnapshotType
<1>3. sessions'[s].entries = t.entries
  BY <1>1, <1>2, AdvanceType DEF SameReading
<1>4. store'[s] = Upsert(Rows(s), b, traffic)
  BY DEF Taken, Save, Put
<1>5. Belongs(store'[s], t)
  BY <1>4, SnapshotBelongs
<1>6. QED
  BY <1>3, <1>5 DEF Belongs

LEMMA RowsBelongInit == Init => RowsBelong
  BY DEF Init, NoSessions, RowsBelong

LEMMA RowsBelongNext ==
  ASSUME AllOK, StartIsFresh, RowsBelong, [Next]_vars
  PROVE  RowsBelong'
<1> SUFFICES ASSUME NEW s \in DOMAIN sessions', s \in DOMAIN store' PROVE Belongs(store'[s], sessions'[s])
  BY DEF RowsBelong
<1>1. Touches(s)
  BY StepTouches
<1>2. CASE Untouched(s)
  <2>1. s \in DOMAIN store => Belongs(store[s], sessions[s])
    BY <1>2 DEF Untouched, RowsBelong
  <2>2. QED
    BY <1>2, <2>1 DEF Untouched, SameReading, Belongs
<1>3. ASSUME NEW b, IsSession(b), Belongs(Rows(s), b), Taken(s, b) PROVE Belongs(store'[s], sessions'[s])
  BY <1>3, TakenBelongs DEF AllOK, CharlesOK
<1>4. CASE s \in DOMAIN sessions /\ Taken(s, sessions[s])
  <2>1. Belongs(Rows(s), sessions[s])
    BY <1>4 DEF RowsBelong, Rows, Belongs, NoEntries
  <2>2. QED
    BY <1>3, <1>4, <2>1 DEF AllOK, SessionsOK
<1>5. CASE Taken(s, NewSession) /\ s \notin DOMAIN store
  <2>1. Belongs(Rows(s), NewSession)
    BY <1>5 DEF Rows, Belongs, NoEntries
  <2>2. QED
    BY <1>3, <1>5, <2>1, NewSessionFacts
<1>6. QED
  BY <1>1, <1>2, <1>4, <1>5 DEF Touches

(* No step takes an entry from a capture, or gives it older content.       *)
CapturesGrow ==
  \A c \in DOMAIN store \cap DOMAIN store' : \A id \in DOMAIN store[c] :
    /\ id \in DOMAIN store'[c]
    /\ store'[c][id].payload.nth = store[c][id].payload.nth
    /\ store'[c][id].payload.ver >= store[c][id].payload.ver

LEMMA StepGrowsCaptures ==
  ASSUME DeliveryOK, RowsBelong, [Next]_vars
  PROVE  CapturesGrow
<1> SUFFICES ASSUME NEW c \in DOMAIN store \cap DOMAIN store', NEW id \in DOMAIN store[c]
             PROVE  /\ id \in DOMAIN store'[c]
                    /\ store'[c][id].payload.nth = store[c][id].payload.nth
                    /\ store'[c][id].payload.ver >= store[c][id].payload.ver
  BY DEF CapturesGrow
<1>1. CASE store'[c] = store[c]
  <2>1. store[c][id].payload.ver \in Nat
    BY DEF DeliveryOK, AllOK, StoreOK, IsRows, Entry
  <2>2. QED
    BY <1>1, <2>1
<1>2. CASE /\ c \in DOMAIN sessions
           /\ store'[c] = Upsert(store[c], sessions[c], traffic)
           /\ \E t : t \in Snapshots(sessions[c], traffic)
  <2>1. PICK t \in Snapshots(sessions[c], traffic) : TRUE
    BY <1>2
  <2>2. /\ IsSession(sessions[c]) /\ traffic \in Seq(Transaction)
        /\ IsTracked(sessions[c], traffic, clock)
    BY <1>2 DEF DeliveryOK, AllOK, SessionsOK, CharlesOK, Tracked
  <2>3. Belongs(store[c], sessions[c])
    BY <1>2 DEF RowsBelong
  <2>4. Belongs(store'[c], t)
    BY <1>2, <2>1, <2>2, <2>3, SnapshotBelongs
  <2>5. Grows(sessions[c].entries, t.entries)
    BY <2>1, <2>2, SnapshotGrows
  <2>6. id \in DOMAIN sessions[c].entries /\ store[c][id].payload = sessions[c].entries[id]
    BY <2>3 DEF Belongs
  <2>7. id \in DOMAIN store'[c]
    BY <1>2 DEF Upsert
  <2>8. store'[c][id].payload = t.entries[id]
    BY <2>4, <2>7 DEF Belongs
  <2>9. QED
    BY <2>5, <2>6, <2>7, <2>8 DEF Grows
<1>3. QED
  BY <1>1, <1>2, RowsFollow DEF DeliveryOK

(* A capture keeps every entry it ever held, an entry stays with its       *)
(* transaction, and its content is never replaced by an older one.         *)
THEOREM CapturesNeverLoseEntries == Spec => CapturesOnlyGrow
<1>1. DeliveryOK /\ RowsBelong /\ [Next]_vars => RowsBelong'
  BY RowsBelongNext DEF DeliveryOK
<1>2. DeliveryOK /\ RowsBelong /\ [Next]_vars => CapturesGrow
  BY StepGrowsCaptures
<1>3. QED
  BY <1>1, <1>2, RowsBelongInit, DeliveryInit, DeliveryNext, PTL DEF Spec, CapturesOnlyGrow, CapturesGrow

----------------------------------------------------------------------------
(* The feed: every step opens, serves or ends feeds, or leaves them alone. *)

ContentOf(s) == [id \in DOMAIN s.entries |-> s.entries[id].ver]

WaitingIn(s) == SubSeq(s.events, s.cursor + 1, Len(s.events))

LEMMA FeedByPart ==
  /\ DOMAIN FeedContent = Active /\ DOMAIN FeedWaiting = Active
  /\ FeedContent = [s \in Active |-> ContentOf(sessions[s])]
  /\ FeedWaiting = [s \in Active |-> WaitingIn(sessions[s])]
  /\ \A s \in Active : /\ FeedContent[s] = ContentOf(sessions[s])
                       /\ FeedWaiting[s] = WaitingIn(sessions[s])
  BY DEF FeedContent, FeedWaiting, ContentOf, WaitingIn

LEMMA FeedByPartNext ==
  /\ DOMAIN FeedContent' = Active' /\ DOMAIN FeedWaiting' = Active'
  /\ FeedContent' = [s \in Active' |-> ContentOf(sessions'[s])]
  /\ FeedWaiting' = [s \in Active' |-> WaitingIn(sessions'[s])]
  /\ \A s \in Active' : /\ FeedContent'[s] = ContentOf(sessions'[s])
                        /\ FeedWaiting'[s] = WaitingIn(sessions'[s])
  BY DEF FeedContent, FeedWaiting, ContentOf, WaitingIn

----------------------------------------------------------------------------
(* The feed counts as everybody does. *)
LEMMA FeedCardinality == \A S : Feed!Cardinality(S) = Cardinality(S)
  BY DEF Feed!Cardinality, Cardinality

LEMMA WaitingFacts ==
  ASSUME NEW s, IsSession(s)
  PROVE  /\ WaitingIn(s) \in Seq(EntryIDs)
         /\ Len(WaitingIn(s)) = Len(s.events) - s.cursor
         /\ \A k \in 1..(Len(s.events) - s.cursor) : WaitingIn(s)[k] = s.events[s.cursor + k]
         /\ Feed!Members(WaitingIn(s)) = Pending(s)
<1>1. /\ s.events \in Seq(EntryIDs) /\ Len(s.events) \in Nat /\ s.cursor \in 0..Len(s.events)
      /\ \A k \in 1..Len(s.events) : s.events[k] \in EntryIDs
  BY LenProperties, ElementOfSeq DEF IsSession
<1> DEFINE n == Len(s.events) - s.cursor
           w == WaitingIn(s)
<1>2. /\ w \in Seq(EntryIDs)
      /\ Len(w) = IF s.cursor + 1 <= Len(s.events) THEN Len(s.events) - (s.cursor + 1) + 1 ELSE 0
      /\ \A k \in 1..(Len(s.events) - (s.cursor + 1) + 1) : w[k] = s.events[(s.cursor + 1) + k - 1]
  <2>1. \A k \in (s.cursor + 1)..Len(s.events) : s.events[k] \in EntryIDs
    BY <1>1
  <2>2. s.cursor + 1 \in Int /\ Len(s.events) \in Int
    BY <1>1
  <2>3. QED
    BY <2>1, <2>2, SubSeqProperties DEF WaitingIn
<1> HIDE DEF w
<1>3. Len(w) = n /\ n \in Nat /\ \A k \in 1..n : w[k] = s.events[s.cursor + k]
  <2>1. n \in Nat /\ s.cursor \in Nat /\ Len(s.events) - (s.cursor + 1) + 1 = n
    BY <1>1
  <2>2. Len(w) = n
    BY <1>1, <1>2, <2>1
  <2>3. ASSUME NEW k \in 1..n
        PROVE  w[k] = s.events[s.cursor + k]
    <3>1. w[k] = s.events[(s.cursor + 1) + k - 1]
      BY <1>2, <2>1
    <3>2. (s.cursor + 1) + k - 1 = s.cursor + k
      BY <2>1
    <3>3. QED
      BY <3>1, <3>2
  <2>4. QED
    BY <2>1, <2>2, <2>3
<1>4. Feed!Members(w) = Pending(s)
  <2>1. ASSUME NEW k \in 1..n PROVE w[k] \in Pending(s)
    <3>1. s.cursor + k \in (s.cursor + 1)..Len(s.events)
      BY <1>1, <1>3
    <3>2. QED
      BY <1>3, <3>1 DEF Pending
  <2>2. ASSUME NEW k \in (s.cursor + 1)..Len(s.events) PROVE s.events[k] \in Feed!Members(w)
    <3>1. k - s.cursor \in 1..n /\ s.cursor + (k - s.cursor) = k
      BY <1>1, <1>3
    <3>2. w[k - s.cursor] = s.events[k]
      BY <1>3, <3>1
    <3>3. QED
      BY <1>3, <3>1, <3>2 DEF Feed!Members
  <2>3. Feed!Members(w) \subseteq Pending(s)
    BY <1>3, <2>1 DEF Feed!Members
  <2>4. Pending(s) \subseteq Feed!Members(w)
    BY <2>2 DEF Pending
  <2>5. QED
    BY <2>3, <2>4
<1>5. QED
  BY <1>2, <1>3, <1>4 DEF w

(* A snapshot adds what changed and did not wait, each ID once. *)
LEMMA SnapshotArrivals ==
  ASSUME NEW s, IsSession(s), NEW latest \in Seq(Transaction),
         NEW t \in Snapshots(s, latest)
  PROVE  \E arrived \in Feed!Arrivals(ChangedIDs(s, latest) \ Pending(s)) :
           /\ arrived \in Seq(EntryIDs)
           /\ WaitingIn(t) = WaitingIn(s) \o arrived
<1> DEFINE old == Len(s.events)
           S == ToQueue(s, latest)
           IDs == ChangedIDs(s, latest) \ Pending(s)
<1>1. PICK news \in InOrder(S) : t.events = EventsAfter(s, latest, news)
  BY SnapshotFields
<1>2. t.cursor = s.cursor
  BY SnapshotFields
<1>3. S \subseteq 1..Len(latest) /\ IsFiniteSet(S) /\ S \subseteq Nat
  BY NamesAndNumbers, FS_Subset DEF ToQueue
<1>4. Cardinality(S) \in Nat
  BY <1>3, FS_CardinalityType
<1>5. /\ news \in [1..Cardinality(S) -> S]
      /\ \A x \in S : \E k \in 1..Cardinality(S) : news[k] = x
      /\ Len(news) = Cardinality(S)
  <2>1. news \in Seq(S)
    BY <1>3, InOrderFacts
  <2>2. QED
    BY <1>4, <2>1, LenProperties DEF InOrder
<1>6. /\ \A i \in S : IDAt(s, latest, i) \in IDs /\ IDAt(s, latest, i)[2] = i
      /\ \A id \in IDs : id[2] \in S /\ id = IDAt(s, latest, id[2])
      /\ IDs \subseteq EntryIDs
  <2>1. \A i \in S : /\ i \in Changed(s, latest)
                     /\ IDAt(s, latest, i) \notin Pending(s)
                     /\ IDAt(s, latest, i)[2] = i
    BY <1>3, NamesAndNumbers DEF ToQueue
  <2>2. \A i \in S : IDAt(s, latest, i) \in IDs
    BY <2>1 DEF ChangedIDs
  <2>3. \A id \in IDs : id[2] \in S /\ id = IDAt(s, latest, id[2])
    BY ChangedIDsFacts DEF ToQueue
  <2>4. QED
    BY <2>1, <2>2, <2>3, ChangedIDsFacts
<1>7. Cardinality(IDs) = Cardinality(S)
  <2> DEFINE f == [i \in S |-> IDAt(s, latest, i)]
  <2>1. f \in Bijection(S, IDs)
    <3>1. f \in [S -> IDs] /\ \A i \in S : f[i][2] = i
      BY <1>6
    <3>2. \A id \in IDs : \E i \in S : f[i] = id
      BY <1>6
    <3> HIDE DEF f, S, IDs
    <3>3. \A i, j \in S : f[i] = f[j] => i = j
      BY <3>1
    <3>4. QED
      BY <3>1, <3>2, <3>3 DEF Bijection, Injection, IsInjective, Surjection
  <2>2. ExistsBijection(S, IDs)
    BY <2>1 DEF ExistsBijection
  <2>3. QED
    BY <1>3, <2>2, FS_Bijection
<1> DEFINE arrived == [k \in 1..Cardinality(S) |-> IDAt(s, latest, news[k])]
<1>8. arrived \in Feed!Arrivals(IDs)
  <2>1. arrived \in [1..Cardinality(IDs) -> IDs]
    BY <1>5, <1>6, <1>7
  <2>2. ASSUME NEW id \in IDs PROVE \E k \in 1..Cardinality(IDs) : arrived[k] = id
    <3>1. PICK k \in 1..Cardinality(S) : news[k] = id[2]
      BY <1>5, <1>6
    <3>2. arrived[k] = id
      BY <1>6, <3>1
    <3>3. QED
      BY <1>7, <3>2
  <2>3. QED
    BY <2>1, <2>2, FeedCardinality DEF Feed!Arrivals
<1>9. arrived \in Seq(EntryIDs) /\ Len(arrived) = Cardinality(S)
  <2>1. arrived \in [1..Cardinality(S) -> EntryIDs]
    BY <1>5, <1>6
  <2> HIDE DEF arrived
  <2>2. arrived \in Seq(EntryIDs)
    BY <1>4, <2>1, SeqDef
  <2>3. QED
    BY <1>4, <2>1, <2>2, LenProperties
<1>10. IsSession(t)
  BY SnapshotType
<1>11. /\ old \in Nat /\ s.cursor \in 0..old
       /\ Len(t.events) = old + Len(news)
       /\ \A k \in 1..(old + Len(news)) :
            t.events[k] = IF k <= old THEN s.events[k] ELSE IDAt(s, latest, news[k - old])
  <2>1. old \in Nat /\ s.cursor \in 0..old
    BY LenProperties DEF IsSession
  <2>2. t.events = [k \in 1..(old + Len(news)) |->
                      IF k <= old THEN s.events[k] ELSE IDAt(s, latest, news[k - old])]
    BY <1>1 DEF EventsAfter
  <2>3. t.events \in Seq(EntryIDs)
    BY <1>10 DEF IsSession
  <2> HIDE DEF old
  <2>4. Len(t.events) = old + Len(news)
    BY <1>4, <1>5, <2>1, <2>2, <2>3, LenProperties
  <2>5. QED
    BY <2>1, <2>2, <2>4
<1>12. WaitingIn(t) = WaitingIn(s) \o arrived
  <2> DEFINE w == WaitingIn(s)
             v == WaitingIn(t)
             n == old - s.cursor
  <2>1. /\ w \in Seq(EntryIDs) /\ Len(w) = n
        /\ \A k \in 1..n : w[k] = s.events[s.cursor + k]
    BY WaitingFacts
  <2>2. /\ v \in Seq(EntryIDs) /\ Len(v) = Len(t.events) - s.cursor
        /\ \A k \in 1..(Len(t.events) - s.cursor) : v[k] = t.events[s.cursor + k]
    BY <1>2, <1>10, WaitingFacts
  <2>3. \A k \in 1..Cardinality(S) : arrived[k] = IDAt(s, latest, news[k])
    OBVIOUS
  <2> HIDE DEF w, v, arrived, S, old
  <2>4. /\ w \o arrived \in Seq(EntryIDs)
        /\ Len(w \o arrived) = n + Len(news)
        /\ \A k \in 1..(n + Len(news)) :
             (w \o arrived)[k] = IF k <= n THEN w[k] ELSE arrived[k - n]
    <3>1. Len(arrived) = Len(news) /\ arrived \in Seq(EntryIDs)
      BY <1>5, <1>9
    <3>2. /\ w \o arrived \in Seq(EntryIDs)
          /\ Len(w \o arrived) = Len(w) + Len(arrived)
          /\ \A k \in 1..(Len(w) + Len(arrived)) :
               (w \o arrived)[k] = IF k <= Len(w) THEN w[k] ELSE arrived[k - Len(w)]
      BY <2>1, <3>1, ConcatProperties
    <3> HIDE DEF n
    <3>3. QED
      BY <2>1, <3>1, <3>2
  <2>5. /\ old \in Nat /\ s.cursor \in Nat /\ n \in Nat /\ Len(news) \in Nat
        /\ n = old - s.cursor /\ Len(v) = n + Len(news)
    <3>1. old \in Nat /\ s.cursor \in Nat /\ Len(news) \in Nat /\ s.cursor <= old
      BY <1>4, <1>5, <1>11
    <3>2. n \in Nat /\ n = old - s.cursor
      BY <3>1
    <3>3. Len(v) = (old + Len(news)) - s.cursor
      BY <1>11, <2>2
    <3> DEFINE more == Len(news)
    <3>4. Len(v) = n + more
      <4> HIDE DEF more, n
      <4>1. QED
        BY <3>1, <3>2, <3>3 DEF more
    <3>5. QED
      BY <3>1, <3>2, <3>4
  <2> HIDE DEF n
  <2>6. ASSUME NEW k \in 1..(n + Len(news)) PROVE v[k] = (w \o arrived)[k]
    <3>1. v[k] = t.events[s.cursor + k]
      <4>1. k \in 1..(Len(t.events) - s.cursor)
        BY <2>2, <2>5
      <4>2. QED
        BY <2>2, <4>1
    <3>2. s.cursor + k \in 1..(old + Len(news))
      BY <2>5
    <3>3. CASE k <= n
      <4>1. s.cursor + k <= old /\ k \in 1..n
        BY <2>5, <3>3
      <4>2. t.events[s.cursor + k] = s.events[s.cursor + k]
        BY <1>11, <3>2, <4>1
      <4>3. QED
        BY <2>1, <2>4, <3>1, <3>3, <4>1, <4>2
    <3>4. CASE k > n
      <4>1. k \in Nat /\ k <= n + Len(news) /\ Len(news) = Cardinality(S)
        BY <1>5, <2>5
      <4>2. ~ (s.cursor + k <= old) /\ (s.cursor + k) - old = k - n /\ k - n \in 1..Cardinality(S)
        BY <2>5, <3>4, <4>1
      <4>3. v[k] = IDAt(s, latest, news[k - n])
        BY <1>11, <3>1, <3>2, <4>2
      <4>4. (w \o arrived)[k] = arrived[k - n]
        <5>1. ~ (k <= n)
          BY <2>5, <3>4
        <5>2. QED
          BY <2>4, <5>1
      <4>5. QED
        BY <2>3, <4>2, <4>3, <4>4
    <3>5. k <= n \/ k > n
      BY <2>5
    <3>6. QED
      BY <3>3, <3>4, <3>5
  <2>7. v = w \o arrived
    BY <2>2, <2>4, <2>5, <2>6, SeqEqual
  <2>8. QED
    BY <2>7 DEF w, v
<1>13. QED
  BY <1>8, <1>9, <1>12

(* A page takes the front of what waits. *)
LEMMA AdvanceDelivers ==
  ASSUME NEW t, IsSession(t), NEW c \in t.cursor..Len(t.events)
  PROVE  /\ WaitingIn(Advance(t, c))
              = SubSeq(WaitingIn(t), (c - t.cursor) + 1, Len(WaitingIn(t)))
         /\ c - t.cursor \in 0..Len(WaitingIn(t))
<1> DEFINE u == Advance(t, c)
           v == WaitingIn(t)
           d == c - t.cursor
           n == Len(t.events) - c
           rest == SubSeq(v, d + 1, Len(v))
<1>1. /\ Len(t.events) \in Nat /\ t.cursor \in Nat /\ c \in Nat
      /\ t.cursor <= c /\ c <= Len(t.events)
  BY LenProperties DEF IsSession
<1>2. /\ v \in Seq(EntryIDs) /\ Len(v) = Len(t.events) - t.cursor
      /\ \A k \in 1..(Len(t.events) - t.cursor) : v[k] = t.events[t.cursor + k]
  BY WaitingFacts
<1>3. /\ WaitingIn(u) \in Seq(EntryIDs) /\ Len(WaitingIn(u)) = n
      /\ \A k \in 1..n : WaitingIn(u)[k] = t.events[c + k]
  <2>1. IsSession(u) /\ u.events = t.events /\ u.cursor = c
    BY AdvanceType
  <2> HIDE DEF u
  <2>2. QED
    BY <2>1, WaitingFacts
<1> HIDE DEF u, v
<1>4. d \in 0..Len(v) /\ Len(v) - d = n /\ n \in Nat
  BY <1>1, <1>2
<1>5. /\ rest \in Seq(EntryIDs)
      /\ Len(rest) = IF d + 1 <= Len(v) THEN Len(v) - (d + 1) + 1 ELSE 0
      /\ \A k \in 1..(Len(v) - (d + 1) + 1) : rest[k] = v[(d + 1) + k - 1]
  <2>1. Len(v) \in Nat /\ d + 1 \in Nat /\ \A k \in (d + 1)..Len(v) : v[k] \in EntryIDs
    <3>1. \A k \in 1..Len(v) : v[k] \in EntryIDs
      BY <1>2, ElementOfSeq
    <3>2. Len(v) \in Nat
      BY <1>2, LenProperties
    <3> HIDE DEF d
    <3>3. QED
      BY <1>4, <3>1, <3>2
  <2> HIDE DEF d
  <2>2. QED
    BY <2>1, SubSeqProperties
<1>6. Len(rest) = n /\ \A k \in 1..n : rest[k] = t.events[c + k]
  <2>1. Len(v) \in Nat
    BY <1>2, LenProperties
  <2> HIDE DEF rest
  <2>2. Len(rest) = n
    BY <1>1, <1>2, <1>5
  <2>3. ASSUME NEW k \in 1..n PROVE rest[k] = t.events[c + k]
    <3>1. rest[k] = v[d + k] /\ d + k \in 1..(Len(t.events) - t.cursor) /\ t.cursor + (d + k) = c + k
      <4>1. k \in 1..(Len(v) - (d + 1) + 1) /\ (d + 1) + k - 1 = d + k
        BY <1>1, <1>2
      <4>2. rest[k] = v[d + k]
        BY <1>5, <4>1
      <4>3. QED
        BY <1>1, <4>2
    <3>2. QED
      BY <1>2, <3>1
  <2>4. QED
    BY <2>2, <2>3
<1> HIDE DEF rest, n
<1>7. WaitingIn(u) = rest
  BY <1>3, <1>5, <1>6, SeqEqual
<1>8. QED
  BY <1>4, <1>7 DEF u, v, rest

----------------------------------------------------------------------------
(* What a step does to the active sessions, one of three.                  *)

Opens(r) ==
  /\ r \notin DOMAIN sessions
  /\ \E t \in Snapshots(NewSession, traffic) : sessions' = Put(sessions, r, t)

Serves(r) ==
  /\ r \in Active
  /\ \E t \in Snapshots(sessions[r], traffic) :
       \/ sessions' = [sessions EXCEPT ![r] = t]
       \/ \E c \in t.cursor..Len(t.events) : sessions' = [sessions EXCEPT ![r] = Advance(t, c)]

Ends ==
  \A s \in Active' : s \in Active /\ SameReading(sessions'[s], sessions[s])

LEMMA StepFeeds ==
  ASSUME AllOK, AllOK', StartIsFresh, [Next]_vars
  PROVE  Ends \/ \E r \in Sids : Opens(r) \/ Serves(r)
<1>1. CASE sessions' = sessions
  BY <1>1 DEF Ends, Active, SameReading
<1>2. CASE StartSnapshot
  <2>1. op.sid \in Sids
    BY <1>2 DEF StartSnapshot, AllOK, ManagerOK, Operations, Idle
  <2>2. op.sid \notin DOMAIN sessions
    BY <1>2 DEF StartSnapshot, StartIsFresh, StartStages
  <2>3. Opens(op.sid)
    BY <1>2, <2>2 DEF StartSnapshot, Opens
  <2>4. QED
    BY <2>1, <2>3
<1>3. ASSUME NEW s \in Sids, NEW query \in Queries, NEW limit \in Limits, NEW advance \in BOOLEAN,
             Read(s, query, limit, advance)
      PROVE  Serves(s)
  <2>1. PICK t \in Snapshots(sessions[s], traffic) : \E c \in PageEnds(t, query, limit) :
          sessions' = [sessions EXCEPT ![s] = IF advance THEN Advance(t, c) ELSE t]
    BY <1>3 DEF Read
  <2>2. PICK c \in PageEnds(t, query, limit) :
          sessions' = [sessions EXCEPT ![s] = IF advance THEN Advance(t, c) ELSE t]
    BY <2>1
  <2>3. c \in t.cursor..Len(t.events) /\ s \in Active
    BY <1>3 DEF PageEnds, Read
  <2>4. QED
    BY <2>2, <2>3 DEF Serves
<1>4. ASSUME NEW s \in Sids, Capture(s) PROVE Serves(s)
  BY <1>4 DEF Capture, Serves
<1>5. ASSUME NEW s \in Sids, NEW restore \in BOOLEAN, NEW saved \in BOOLEAN, Stop(s, restore, saved)
      PROVE  Ends \/ Serves(s)
  <2>1. s \in Active /\ s \in DOMAIN sessions
    BY <1>5 DEF Stop, Active
  <2>2. PICK t \in IF saved THEN Snapshots(sessions[s], traffic) ELSE {sessions[s]} :
          \/ sessions' = [sessions EXCEPT ![s] = t]
          \/ sessions' = [sessions EXCEPT ![s] = Deactivated(t, saved)]
    BY <1>5 DEF Stop
  <2>3. CASE saved /\ sessions' = [sessions EXCEPT ![s] = t]
    BY <2>1, <2>2, <2>3 DEF Serves
  <2>4. CASE ~ saved /\ sessions' = [sessions EXCEPT ![s] = t]
    <3>1. DOMAIN sessions' = DOMAIN sessions /\ \A q \in DOMAIN sessions : sessions'[q] = sessions[q]
      BY <2>1, <2>2, <2>4
    <3>2. QED
      BY <3>1 DEF Ends, Active, SameReading
  <2>5. CASE sessions' = [sessions EXCEPT ![s] = Deactivated(t, saved)]
    <3>1. IsSession(t)
      BY <2>1, <2>2, SnapshotType DEF AllOK, SessionsOK, CharlesOK
    <3>2. ~ Deactivated(t, saved).active
      BY <3>1 DEF Deactivated, IsSession
    <3>3. \A q \in Active' : q # s /\ q \in Active /\ sessions'[q] = sessions[q]
      BY <2>1, <2>5, <3>2 DEF Active
    <3>4. QED
      BY <3>3 DEF Ends, SameReading
  <2>6. QED
    BY <2>2, <2>3, <2>4, <2>5
<1>6. CASE StopSteps \/ Expire \/ Exit \/ Tick \/ \E s \in Sids : StopAgain(s)
  <2>1. ASSUME NEW q \in Active' PROVE q \in Active /\ SameReading(sessions'[q], sessions[q])
    <3>1. q \in DOMAIN sessions' /\ sessions'[q].active
      BY DEF Active
    <3>2. q \in DOMAIN sessions
      BY <1>6, <3>1
      DEF StopSteps, StopRecord, StopAgain, Expire, ExpireQuietly, ExpireRestoring, ExpireFails,
          Forget, Keep, Exit, Close, Crash, NewProcess, NoSessions, Tick
    <3>3. IsSession(sessions[q])
      BY <3>2 DEF AllOK, SessionsOK
    <3>4. CASE StopSteps
      <4>1. PICK outcome \in Outcomes : StopRecord(outcome)
        BY <3>4 DEF StopSteps
      <4>2. \/ sessions'[q] = sessions[q]
            \/ sessions'[q] = Deactivated(sessions[q], op.saved)
        BY <3>2, <4>1 DEF StopRecord
      <4>3. ~ Deactivated(sessions[q], op.saved).active
        BY <3>3 DEF Deactivated, IsSession
      <4>4. sessions'[q] = sessions[q]
        BY <3>1, <4>2, <4>3
      <4>5. QED
        BY <3>1, <3>2, <4>4 DEF Active, SameReading
    <3>5. CASE \E s \in Sids : StopAgain(s)
      <4>1. \/ sessions'[q] = sessions[q]
            \/ sessions'[q] = [sessions[q] EXCEPT !.told = TRUE]
        BY <3>2, <3>5 DEF StopAgain
      <4>2. SameReading(sessions'[q], sessions[q]) /\ sessions'[q].active = sessions[q].active
        BY <3>3, <4>1 DEF SameReading, IsSession
      <4>3. QED
        BY <3>1, <3>2, <4>2 DEF Active
    <3>6. CASE Expire
      <4>1. sessions'[q] = sessions[q]
        BY <3>1, <3>6 DEF Expire, ExpireQuietly, ExpireRestoring, ExpireFails, Forget, Keep
      <4>2. QED
        BY <3>1, <3>2, <4>1 DEF Active, SameReading
    <3>7. CASE Tick
      <4>1. \/ sessions'[q] = sessions[q]
            \/ sessions'[q] = [sessions[q] EXCEPT !.age = @ + 1]
        BY <3>2, <3>7 DEF Tick
      <4>2. SameReading(sessions'[q], sessions[q]) /\ sessions'[q].active = sessions[q].active
        BY <3>3, <4>1 DEF SameReading, IsSession
      <4>3. QED
        BY <3>1, <3>2, <4>2 DEF Active
    <3>8. CASE Exit
      BY <3>1, <3>8 DEF Exit, Close, Crash, NewProcess, NoSessions
    <3>9. QED
      BY <1>6, <3>4, <3>5, <3>6, <3>7, <3>8
  <2>2. QED
    BY <2>1 DEF Ends
<1>7. QED
  <2>1. CASE StartSteps
    BY <1>1, <1>2, <2>1
    DEF StartSteps, StartClear, StartRecord, StartRollback, StartSnapshotFails
  <2>2. CASE Requests
    <3>1. ASSUME NEW s \in Sids, NEW reset \in BOOLEAN, NEW start \in BOOLEAN,
                 Start(s, reset, start)
          PROVE  sessions' = sessions
      BY <3>1 DEF Start
    <3>2. ASSUME NEW c \in DOMAIN store, DeleteCapture(c) PROVE sessions' = sessions
      BY <3>2 DEF DeleteCapture
    <3>3. QED
      BY <1>1, <1>3, <1>4, <1>5, <1>6, <2>2, <3>1, <3>2 DEF Requests
  <2>3. CASE (World /\ ~ Tick) \/ UserToggles \/ UNCHANGED vars
    BY <1>1, <2>3
    DEF World, TrafficChanges, NewRequests, Response, UserRemoves, UserClears, UserToggles,
        serverVars, vars
  <2>4. QED
    BY <1>6, <2>1, <2>2, <2>3 DEF Next, QuietNext

----------------------------------------------------------------------------
(* Each is a step of the feed. *)

LEMMA EndsIsEnd == Ends => Feed!End
<1> SUFFICES ASSUME Ends PROVE Feed!End
  OBVIOUS
<1>1. Active' \subseteq Active
  BY DEF Ends
<1>2. \A s \in Active' : /\ ContentOf(sessions'[s]) = ContentOf(sessions[s])
                         /\ WaitingIn(sessions'[s]) = WaitingIn(sessions[s])
  BY DEF Ends, SameReading, ContentOf, WaitingIn
<1>3. FeedContent' = [s \in Active' |-> FeedContent[s]]
  BY <1>1, <1>2, FeedByPart, FeedByPartNext
<1>4. FeedWaiting' = [s \in Active' |-> FeedWaiting[s]]
  BY <1>1, <1>2, FeedByPart, FeedByPartNext
<1>5. QED
  BY <1>1, <1>3, <1>4, FeedByPart, FeedByPartNext DEF Feed!End

LEMMA OpensIsOpen ==
  ASSUME AllOK, NEW r \in Sids, Opens(r)
  PROVE  r \in DOMAIN FeedContent' /\ Feed!Open(r)
<1>1. PICK t \in Snapshots(NewSession, traffic) : sessions' = Put(sessions, r, t)
  BY DEF Opens
<1>2. IsSession(NewSession) /\ traffic \in Seq(Transaction)
  BY NewSessionFacts DEF AllOK, CharlesOK
<1>3. t.active /\ t.entries = EntriesAfter(NewSession, traffic)
  BY <1>2, SnapshotFields DEF NewSession
<1>4. DOMAIN sessions' = DOMAIN sessions \cup {r} /\ sessions'[r] = t
      /\ \A q \in DOMAIN sessions : sessions'[q] = sessions[q]
  BY <1>1 DEF Put, Opens
<1>5. Active' = Active \cup {r} /\ r \notin Active
  BY <1>3, <1>4 DEF Active, Opens
<1>6. /\ DOMAIN NewSession.entries = {} /\ Pending(NewSession) = {}
      /\ WaitingIn(NewSession) = <<>>
  <2>1. NewSession.events = <<>> /\ NewSession.cursor = 0 /\ Len(<<>>) = 0
        /\ DOMAIN NewSession.entries = {}
    BY EmptySeq DEF NewSession, NoEntries
  <2>2. WaitingIn(NewSession) = <<>>
    BY <2>1, SubSeqEmpty DEF WaitingIn
  <2>3. QED
    BY <2>1, <2>2 DEF Pending
<1>7. DOMAIN t.entries = ChangedIDs(NewSession, traffic)
  BY <1>2, <1>3, <1>6, EntriesAfterFacts
<1>8. WaitingIn(t) \in Feed!Arrivals(DOMAIN t.entries)
  <2>1. PICK arrived \in Feed!Arrivals(ChangedIDs(NewSession, traffic) \ Pending(NewSession)) :
          arrived \in Seq(EntryIDs) /\ WaitingIn(t) = WaitingIn(NewSession) \o arrived
    BY <1>2, SnapshotArrivals
  <2>2. WaitingIn(t) = arrived
    BY <1>6, <2>1, ConcatEmptySeq
  <2>3. ChangedIDs(NewSession, traffic) \ Pending(NewSession) = DOMAIN t.entries
    BY <1>6, <1>7
  <2>4. QED
    BY <2>1, <2>2, <2>3
<1>9. DOMAIN ContentOf(t) = DOMAIN t.entries
  BY DEF ContentOf
<1>10. FeedContent'[r] = ContentOf(t) /\ FeedWaiting'[r] = WaitingIn(t)
  BY <1>4, <1>5, FeedByPartNext
<1>11. \A q \in Active : FeedContent'[q] = FeedContent[q] /\ FeedWaiting'[q] = FeedWaiting[q]
  BY <1>4, <1>5, FeedByPart, FeedByPartNext DEF Active
<1>12. DOMAIN FeedContent = Active /\ DOMAIN FeedContent' = Active' /\ DOMAIN FeedWaiting' = Active'
  BY FeedByPart, FeedByPartNext
<1>13. QED
  BY <1>5, <1>8, <1>9, <1>10, <1>11, <1>12 DEF Feed!Open

LEMMA ServesIsServe ==
  ASSUME DeliveryOK, NEW r \in Sids, Serves(r)
  PROVE  r \in DOMAIN FeedContent' /\ Feed!Serve(r)
<1>1. PICK t \in Snapshots(sessions[r], traffic) :
        \/ sessions' = [sessions EXCEPT ![r] = t]
        \/ \E c \in t.cursor..Len(t.events) : sessions' = [sessions EXCEPT ![r] = Advance(t, c)]
  BY DEF Serves
<1> DEFINE s == sessions[r]
           u == sessions'[r]
<1>2. /\ IsSession(s) /\ traffic \in Seq(Transaction) /\ IsTracked(s, traffic, clock)
      /\ r \in DOMAIN sessions /\ s.active
  BY DEF Serves, Active, DeliveryOK, AllOK, SessionsOK, CharlesOK, Tracked
<1>3. IsSession(t) /\ t.active = s.active /\ t.entries = EntriesAfter(s, traffic)
  <2>1. t \in Snapshots(s, traffic)
    BY <1>1
  <2> HIDE DEF s
  <2>2. IsSession(t)
    BY <1>2, <2>1, SnapshotType
  <2>3. t.active = s.active
    BY <1>2, <2>1 DEF Snapshots, IsSession
  <2>4. t.entries = EntriesAfter(s, traffic)
    BY <1>2, <2>1, SnapshotFields
  <2>5. QED
    BY <2>2, <2>3, <2>4
<1>4. /\ DOMAIN sessions' = DOMAIN sessions
      /\ \A q \in DOMAIN sessions \ {r} : sessions'[q] = sessions[q]
      /\ u = t \/ \E c \in t.cursor..Len(t.events) : u = Advance(t, c)
  BY <1>1, <1>2
<1>5. u.entries = t.entries /\ u.active = t.active
  <2>1. ASSUME NEW c \in t.cursor..Len(t.events)
        PROVE  Advance(t, c).entries = t.entries /\ Advance(t, c).active = t.active
    BY <1>3 DEF Advance, IsSession
  <2>2. QED
    BY <1>4, <2>1
<1>6. Active' = Active
  BY <1>2, <1>3, <1>4, <1>5 DEF Active
<1>7. /\ DOMAIN FeedContent = Active /\ DOMAIN FeedContent' = Active /\ DOMAIN FeedWaiting' = Active
      /\ r \in Active
      /\ FeedContent[r] = ContentOf(s) /\ FeedContent'[r] = ContentOf(u)
      /\ FeedWaiting[r] = WaitingIn(s) /\ FeedWaiting'[r] = WaitingIn(u)
  BY <1>6, FeedByPart, FeedByPartNext DEF Serves
<1>8. \A q \in Active \ {r} : FeedContent'[q] = FeedContent[q] /\ FeedWaiting'[q] = FeedWaiting[q]
  BY <1>4, <1>6, FeedByPart, FeedByPartNext DEF Active
<1> HIDE DEF s, u
<1>9. Feed!Newer(ContentOf(s), ContentOf(u))
  <2>1. Grows(s.entries, u.entries)
    BY <1>2, <1>5, SnapshotGrows DEF s
  <2>2. QED
    BY <2>1 DEF Grows, ContentOf, Feed!Newer
<1>10. Feed!News(ContentOf(s), ContentOf(u)) = ChangedIDs(s, traffic)
  <2> DEFINE E == EntriesAfter(s, traffic)
  <2>1. /\ DOMAIN E = DOMAIN s.entries \cup ChangedIDs(s, traffic)
        /\ \A id \in DOMAIN s.entries \ ChangedIDs(s, traffic) : E[id] = s.entries[id]
        /\ \A id \in ChangedIDs(s, traffic) : E[id] = EntryAt(s, traffic, id[2])
    BY <1>2, EntriesAfterFacts
  <2>2. u.entries = E
    BY <1>3, <1>5
  <2> HIDE DEF E
  <2>3. ASSUME NEW id \in ChangedIDs(s, traffic), id \in DOMAIN s.entries
        PROVE  E[id].ver # s.entries[id].ver
    <3>1. id[2] \in Changed(s, traffic) /\ id = IDAt(s, traffic, id[2])
      BY <1>2, ChangedIDsFacts
    <3>2. s.entries[id].ver # traffic[id[2]].ver
      BY <2>3, <3>1 DEF Changed, Unchanged
    <3>3. E[id].ver = traffic[id[2]].ver
      BY <2>1 DEF EntryAt
    <3>4. QED
      BY <3>2, <3>3
  <2>4. QED
    BY <2>1, <2>2, <2>3 DEF Feed!News, ContentOf
<1>11. Feed!Members(WaitingIn(s)) = Pending(s)
  BY <1>2, WaitingFacts
<1>12. PICK arrived \in Feed!Arrivals(ChangedIDs(s, traffic) \ Pending(s)) :
         arrived \in Seq(EntryIDs) /\ WaitingIn(t) = WaitingIn(s) \o arrived
  BY <1>2, SnapshotArrivals DEF s
<1>13. \E k \in 0..Len(WaitingIn(t)) :
         WaitingIn(u) = SubSeq(WaitingIn(t), k + 1, Len(WaitingIn(t)))
  <2>1. WaitingIn(t) \in Seq(EntryIDs) /\ Len(WaitingIn(t)) \in Nat
    BY <1>3, WaitingFacts, LenProperties
  <2>2. CASE u = t
    <3>1. WaitingIn(u) = SubSeq(WaitingIn(t), 0 + 1, Len(WaitingIn(t))) /\ 0 \in 0..Len(WaitingIn(t))
      BY <2>1, <2>2, SubSeqFull
    <3>2. QED
      BY <3>1
  <2>3. ASSUME NEW c \in t.cursor..Len(t.events), u = Advance(t, c)
        PROVE  \E k \in 0..Len(WaitingIn(t)) :
                 WaitingIn(u) = SubSeq(WaitingIn(t), k + 1, Len(WaitingIn(t)))
    BY <1>3, <2>3, AdvanceDelivers
  <2>4. QED
    BY <1>4, <2>2, <2>3
<1>14. Feed!QueueFollows(WaitingIn(s), WaitingIn(u), ChangedIDs(s, traffic))
  BY <1>11, <1>12, <1>13 DEF Feed!QueueFollows
<1>15. QED
  BY <1>7, <1>8, <1>9, <1>10, <1>14 DEF Feed!Serve

LEMMA FeedInit == Init => Feed!Init
<1> SUFFICES ASSUME Init PROVE Feed!Init
  OBVIOUS
<1>1. Active = {}
  BY DEF Init, NoSessions, Active
<1>2. FeedContent = <<>> /\ FeedWaiting = <<>>
  BY <1>1, FeedByPart
<1>3. QED
  BY <1>2 DEF Feed!Init

LEMMA FeedStep == DeliveryOK /\ [Next]_vars => [Feed!Next]_Feed!feedVars
<1> SUFFICES ASSUME DeliveryOK, [Next]_vars PROVE Feed!Next
  OBVIOUS
<1>1. AllOK /\ AllOK' /\ StartIsFresh
  BY DeliveryNext DEF DeliveryOK
<1>2. Ends \/ \E r \in Sids : Opens(r) \/ Serves(r)
  BY <1>1, StepFeeds
<1>3. QED
  BY <1>1, <1>2, EndsIsEnd, OpensIsOpen, ServesIsServe DEF Feed!Next

(* What a reader sees of the server, for every instance of it, is a feed:  *)
(* every new content of an entry waits, once and in the order of arrival,  *)
(* until it is delivered, and nothing else is ever delivered or dropped.   *)
THEOREM ServerIsAFeed == Spec => ImplementsFeed
  BY FeedInit, FeedStep, DeliveryInit, DeliveryNext, PTL DEF Spec, ImplementsFeed, Feed!Spec
=============================================================================
