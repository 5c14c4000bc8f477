-------------------------- MODULE TwoServersProofs --------------------------
(***************************************************************************)
(* Theorems about two server processes on one machine, for every set of    *)
(* sessions of each.                                                       *)
(***************************************************************************)
EXTENDS TwoServers, TLAPS

LEMMA ConstantsOfBoth == A!ConstantsAssumption /\ B!ConstantsAssumption
  BY ConstantsAssumption DEF A!ConstantsAssumption, B!ConstantsAssumption

(* A step of the machine is a step of one server, or one of the user or of *)
(* time that both allow, and leaves the variables of the other alone.      *)
LEMMA StepOfOne ==
  ASSUME [Next]_serversVars
  PROVE  \/ [A!Next]_A!vars /\ UNCHANGED varsB
         \/ [B!Next]_B!vars /\ UNCHANGED varsA
<1>1. CASE ServerA \/ User \/ TimeA
  BY <1>1 DEF ServerA, User, TimeA, A!Next, A!QuietNext, A!World
<1>2. CASE ServerB \/ TimeB
  BY <1>2 DEF ServerB, TimeB, B!Next, B!QuietNext, B!World
<1>3. CASE UNCHANGED serversVars
  BY <1>3 DEF serversVars, sharedVars, varsA, varsB, A!vars
<1>4. QED
  BY <1>1, <1>2, <1>3 DEF Next

(* A recording one of the servers started is one that a server will stop,  *)
(* although each may stop and start it under the other.                    *)
THEOREM OneOfTwoOwns == Spec => []OneServerOwns
<1>1. Init => OneServerOwns
  BY DEF Init, A!Init, OneServerOwns
<1>2. OneServerOwns /\ [Next]_serversVars => OneServerOwns'
  <2> SUFFICES ASSUME OneServerOwns, [Next]_serversVars, ~ OneServerOwns' PROVE FALSE
    OBVIOUS
  <2>1. A!Unowned' /\ B!Unowned'
    BY DEF OneServerOwns, A!Unowned, B!Unowned
  <2>2. CASE [A!Next]_A!vars /\ UNCHANGED varsB
    <3>1. A!Unowned
      BY <2>1, <2>2, ConstantsOfBoth, A!UnownedWasUnowned
    <3>2. QED
      BY <2>1, <2>2, <3>1 DEF OneServerOwns, A!Unowned, B!Unowned, varsB
  <2>3. CASE [B!Next]_B!vars /\ UNCHANGED varsA
    <3>1. B!Unowned
      BY <2>1, <2>3, ConstantsOfBoth, B!UnownedWasUnowned
    <3>2. QED
      BY <2>1, <2>3, <3>1 DEF OneServerOwns, A!Unowned, B!Unowned, varsA
  <2>4. QED
    BY <2>2, <2>3, StepOfOne
<1>3. QED
  BY <1>1, <1>2, PTL DEF Spec

----------------------------------------------------------------------------
(* What one server does to Charles and to the database keeps their types,  *)
(* which is all the other server takes for granted of them.                *)

ServersOK == A!AllOK /\ A!CallsOK /\ B!AllOK /\ B!CallsOK

LEMMA SharedTypes ==
  /\ A!CharlesOK <=> B!CharlesOK
  /\ A!StoreOK <=> B!StoreOK
  /\ A!CharlesOK' <=> B!CharlesOK'
  /\ A!StoreOK' <=> B!StoreOK'
  BY DEF A!CharlesOK, B!CharlesOK, A!StoreOK, B!StoreOK, A!Transaction, B!Transaction,
         A!IsRows, B!IsRows, A!EntryIDs, B!EntryIDs, A!Entry, B!Entry

LEMMA OwnUnchangedA == UNCHANGED varsA =>
  /\ A!SessionsOK => A!SessionsOK'
  /\ A!ManagerOK => A!ManagerOK'
  /\ A!CallsOK => A!CallsOK'
  BY DEF varsA, A!SessionsOK, A!ManagerOK, A!CallsOK, A!OwnerHasSession, A!Active

LEMMA OwnUnchangedB == UNCHANGED varsB =>
  /\ B!SessionsOK => B!SessionsOK'
  /\ B!ManagerOK => B!ManagerOK'
  /\ B!CallsOK => B!CallsOK'
  BY DEF varsB, B!SessionsOK, B!ManagerOK, B!CallsOK, B!OwnerHasSession, B!Active

LEMMA ServersNext == ServersOK /\ [Next]_serversVars => ServersOK'
<1> SUFFICES ASSUME ServersOK, [Next]_serversVars PROVE ServersOK'
  OBVIOUS
<1>1. CASE [A!Next]_A!vars /\ UNCHANGED varsB
  <2>1. A!AllOK' /\ A!CallsOK'
    BY <1>1, ConstantsOfBoth, A!TypeNext, A!CallsNext DEF ServersOK
  <2>2. B!SessionsOK' /\ B!ManagerOK' /\ B!CallsOK'
    BY <1>1, OwnUnchangedB DEF ServersOK, B!AllOK
  <2>3. QED
    BY <2>1, <2>2, SharedTypes DEF ServersOK, A!AllOK, B!AllOK
<1>2. CASE [B!Next]_B!vars /\ UNCHANGED varsA
  <2>1. B!AllOK' /\ B!CallsOK'
    BY <1>2, ConstantsOfBoth, B!TypeNext, B!CallsNext DEF ServersOK
  <2>2. A!SessionsOK' /\ A!ManagerOK' /\ A!CallsOK'
    BY <1>2, OwnUnchangedA DEF ServersOK, A!AllOK
  <2>3. QED
    BY <2>1, <2>2, SharedTypes DEF ServersOK, A!AllOK, B!AllOK
<1>3. QED
  BY <1>1, <1>2, StepOfOne

(* What the other server does to Charles and to the database leaves the    *)
(* ownership of a server with its sessions.                                *)
THEOREM OwnersOfBothHaveSessions == Spec => []OwnersHaveSessions
<1>1. Init => ServersOK
  BY ConstantsOfBoth, A!TypeInit, A!CallsInit, B!TypeInit, B!CallsInit DEF Init, ServersOK
<1>2. ServersOK /\ [Next]_serversVars => ServersOK'
  BY ServersNext
<1>3. ServersOK => OwnersHaveSessions
  BY DEF ServersOK, OwnersHaveSessions, A!CallsOK, B!CallsOK
<1>4. QED
  BY <1>1, <1>2, <1>3, PTL DEF Spec
----------------------------------------------------------------------------
(* A Start of one server is safe from the other: their sessions, and so    *)
(* their captures, have different names.                                   *)
ReadersOK ==
  /\ ServersOK
  /\ A!StartIsFresh /\ A!NoLostUpdate
  /\ B!StartIsFresh /\ B!NoLostUpdate

LEMMA FreshBesideB ==
  ASSUME A!AllOK, B!AllOK, A!StartIsFresh, [B!Next]_B!vars, UNCHANGED varsA
  PROVE  A!StartIsFresh'
<1>1. DOMAIN store' \subseteq DOMAIN store \cup SidsB
  BY ConstantsOfBoth, B!NewCaptures
<1>2. opA.at \in A!StartStages => opA.sid \in SidsA
  BY DEF A!AllOK, A!ManagerOK, A!Operations, A!Idle, A!StartStages
<1>3. QED
  BY <1>1, <1>2, SidsAssumption DEF A!StartIsFresh, varsA

LEMMA FreshBesideA ==
  ASSUME A!AllOK, B!AllOK, B!StartIsFresh, [A!Next]_A!vars, UNCHANGED varsB
  PROVE  B!StartIsFresh'
<1>1. DOMAIN store' \subseteq DOMAIN store \cup SidsA
  BY ConstantsOfBoth, A!NewCaptures
<1>2. opB.at \in B!StartStages => opB.sid \in SidsB
  BY DEF B!AllOK, B!ManagerOK, B!Operations, B!Idle, B!StartStages
<1>3. QED
  BY <1>1, <1>2, SidsAssumption DEF B!StartIsFresh, varsB

(* Reads stay lossless for the clients of both servers, whatever the other *)
(* server does to the recording, the traffic of Charles and the database.  *)
THEOREM ReadsOfBothLossless == Spec => [](A!NoLostUpdate /\ B!NoLostUpdate)
<1>1. Init => ReadersOK
  BY ConstantsOfBoth, A!TypeInit, A!CallsInit, A!StartIsFreshInit, A!LosslessInit,
     B!TypeInit, B!CallsInit, B!StartIsFreshInit, B!LosslessInit
  DEF Init, ReadersOK, ServersOK
<1>2. ReadersOK /\ [Next]_serversVars => ReadersOK'
  <2> SUFFICES ASSUME ReadersOK, [Next]_serversVars PROVE ReadersOK'
    OBVIOUS
  <2> USE DEF ReadersOK
  <2>1. ServersOK'
    BY ServersNext
  <2>2. A!AllOK /\ B!AllOK
    BY DEF ServersOK
  <2>3. CASE [A!Next]_A!vars /\ UNCHANGED varsB
    <3>1. A!StartIsFresh' /\ A!NoLostUpdate'
      BY <2>2, <2>3, ConstantsOfBoth, A!StartIsFreshStep, A!LosslessNext
    <3>2. B!NoLostUpdate'
      BY <2>3 DEF varsB, B!NoLostUpdate
    <3>3. QED
      BY <2>1, <2>2, <2>3, <3>1, <3>2, FreshBesideA
  <2>4. CASE [B!Next]_B!vars /\ UNCHANGED varsA
    <3>1. B!StartIsFresh' /\ B!NoLostUpdate'
      BY <2>2, <2>4, ConstantsOfBoth, B!StartIsFreshStep, B!LosslessNext
    <3>2. A!NoLostUpdate'
      BY <2>4 DEF varsA, A!NoLostUpdate
    <3>3. QED
      BY <2>1, <2>2, <2>4, <3>1, <3>2, FreshBesideB
  <2>5. QED
    BY <2>3, <2>4, StepOfOne
<1>3. ReadersOK => A!NoLostUpdate /\ B!NoLostUpdate
  BY DEF ReadersOK
<1>4. QED
  BY <1>1, <1>2, <1>3, PTL DEF Spec

----------------------------------------------------------------------------
(* What a session has tracked of the traffic stays tracked while the other *)
(* server works: to a session it is one more who clears Charles.           *)

LEMMA SameTracking ==
  /\ A!IsOrdered(traffic, clock) <=> B!IsOrdered(traffic, clock)
  /\ \A s : A!IsSession(s) <=> B!IsSession(s)
  /\ \A s : A!IsTracked(s, traffic, clock) <=> B!IsTracked(s, traffic, clock)
  /\ A!IsOrdered(traffic', clock') <=> B!IsOrdered(traffic', clock')
  /\ \A s : A!IsTracked(s, traffic', clock') <=> B!IsTracked(s, traffic', clock')
<1>1. \A l, n : A!IsOrdered(l, n) <=> B!IsOrdered(l, n)
  BY DEF A!IsOrdered, B!IsOrdered
<1>2. \A s : A!IsSession(s) <=> B!IsSession(s)
  BY DEF A!IsSession, B!IsSession, A!IsEntryMap, B!IsEntryMap, A!IsFiniteSet, B!IsFiniteSet, A!EntryIDs, B!EntryIDs, A!Entry, B!Entry
<1>3. \A s, l, n : A!IsTracked(s, l, n) <=> B!IsTracked(s, l, n)
  BY DEF A!IsTracked, B!IsTracked, A!IsNamed, B!IsNamed, A!IsIntact, B!IsIntact, A!IsBroken, B!IsBroken
<1>4. QED
  BY <1>1, <1>2, <1>3

DeliveriesOK ==
  /\ ServersOK
  /\ A!DeliveryOK /\ A!RowsBelong
  /\ B!DeliveryOK /\ B!RowsBelong

LEMMA DeliveryBesideB ==
  ASSUME A!DeliveryOK, A!AllOK', B!AllOK, B!AllOK', [B!Next]_B!vars, UNCHANGED varsA
  PROVE  A!DeliveryOK'
<1>1. A!StartIsFresh'
  BY FreshBesideB DEF A!DeliveryOK
<1>2. sessionsA' = sessionsA
  BY DEF varsA
<1>3. \A s \in DOMAIN sessionsA : A!IsSession(sessionsA[s]) /\ A!IsTracked(sessionsA[s], traffic, clock)
  BY DEF A!DeliveryOK, A!AllOK, A!SessionsOK, A!Tracked
<1>4. /\ A!IsOrdered(traffic', clock')
      /\ \A s \in DOMAIN sessionsA : A!IsTracked(sessionsA[s], traffic', clock')
  <2>1. B!IsOrdered(traffic, clock)
    BY SameTracking DEF A!DeliveryOK, A!Tracked
  <2>2. /\ B!IsOrdered(traffic', clock')
        /\ \A s : B!IsSession(s) /\ B!IsTracked(s, traffic, clock) => B!IsTracked(s, traffic', clock')
    BY <2>1, ConstantsOfBoth, B!TrafficTracked
  <2>3. QED
    BY <1>3, <2>2, SameTracking
<1>5. A!Tracked'
  BY <1>2, <1>4 DEF A!Tracked
<1>6. (\A s \in DOMAIN sessionsA : A!IsFresh(sessionsA[s]))'
  BY <1>2 DEF A!DeliveryOK
<1>7. QED
  BY <1>1, <1>5, <1>6 DEF A!DeliveryOK

LEMMA DeliveryBesideA ==
  ASSUME B!DeliveryOK, B!AllOK', A!AllOK, A!AllOK', [A!Next]_A!vars, UNCHANGED varsB
  PROVE  B!DeliveryOK'
<1>1. B!StartIsFresh'
  BY FreshBesideA DEF B!DeliveryOK
<1>2. sessionsB' = sessionsB
  BY DEF varsB
<1>3. \A s \in DOMAIN sessionsB : B!IsSession(sessionsB[s]) /\ B!IsTracked(sessionsB[s], traffic, clock)
  BY DEF B!DeliveryOK, B!AllOK, B!SessionsOK, B!Tracked
<1>4. /\ B!IsOrdered(traffic', clock')
      /\ \A s \in DOMAIN sessionsB : B!IsTracked(sessionsB[s], traffic', clock')
  <2>1. A!IsOrdered(traffic, clock)
    BY SameTracking DEF B!DeliveryOK, B!Tracked
  <2>2. /\ A!IsOrdered(traffic', clock')
        /\ \A s : A!IsSession(s) /\ A!IsTracked(s, traffic, clock) => A!IsTracked(s, traffic', clock')
    BY <2>1, ConstantsOfBoth, A!TrafficTracked
  <2>3. QED
    BY <1>3, <2>2, SameTracking
<1>5. B!Tracked'
  BY <1>2, <1>4 DEF B!Tracked
<1>6. (\A s \in DOMAIN sessionsB : B!IsFresh(sessionsB[s]))'
  BY <1>2 DEF B!DeliveryOK
<1>7. QED
  BY <1>1, <1>5, <1>6 DEF B!DeliveryOK

(* The rows of a server's captures are saved by it alone, although the     *)
(* other may delete them.                                                  *)
LEMMA RowsBesideB ==
  ASSUME A!RowsBelong, A!AllOK, B!DeliveryOK, [B!Next]_B!vars, UNCHANGED varsA
  PROVE  A!RowsBelong'
<1> SUFFICES ASSUME NEW s \in DOMAIN sessionsA, s \in DOMAIN store' PROVE A!Belongs(store'[s], sessionsA[s])
  BY DEF A!RowsBelong, varsA
<1>1. s \in SidsA /\ s \notin SidsB
  BY SidsAssumption DEF A!AllOK, A!SessionsOK
<1>2. s \notin DOMAIN sessionsB
  BY <1>1 DEF B!DeliveryOK, B!AllOK, B!SessionsOK
<1>3. s \in DOMAIN store
  BY <1>1, ConstantsOfBoth, B!NewCaptures DEF B!DeliveryOK
<1>4. store'[s] = store[s]
  BY <1>2, <1>3, ConstantsOfBoth, B!RowsFollow DEF B!DeliveryOK
<1>5. QED
  BY <1>3, <1>4 DEF A!RowsBelong

LEMMA RowsBesideA ==
  ASSUME B!RowsBelong, B!AllOK, A!DeliveryOK, [A!Next]_A!vars, UNCHANGED varsB
  PROVE  B!RowsBelong'
<1> SUFFICES ASSUME NEW s \in DOMAIN sessionsB, s \in DOMAIN store' PROVE B!Belongs(store'[s], sessionsB[s])
  BY DEF B!RowsBelong, varsB
<1>1. s \in SidsB /\ s \notin SidsA
  BY SidsAssumption DEF B!AllOK, B!SessionsOK
<1>2. s \notin DOMAIN sessionsA
  BY <1>1 DEF A!DeliveryOK, A!AllOK, A!SessionsOK
<1>3. s \in DOMAIN store
  BY <1>1, ConstantsOfBoth, A!NewCaptures DEF A!DeliveryOK
<1>4. store'[s] = store[s]
  BY <1>2, <1>3, ConstantsOfBoth, A!RowsFollow DEF A!DeliveryOK
<1>5. QED
  BY <1>3, <1>4 DEF B!RowsBelong

LEMMA DeliveriesInit == Init => DeliveriesOK
  BY ConstantsOfBoth, A!TypeInit, A!CallsInit, A!DeliveryInit, A!RowsBelongInit,
     B!TypeInit, B!CallsInit, B!DeliveryInit, B!RowsBelongInit
  DEF Init, DeliveriesOK, ServersOK

LEMMA DeliveriesNext == DeliveriesOK /\ [Next]_serversVars => DeliveriesOK'
<1> SUFFICES ASSUME DeliveriesOK, [Next]_serversVars PROVE DeliveriesOK'
  OBVIOUS
<1> USE DEF DeliveriesOK
<1>1. ServersOK'
  BY ServersNext
<1>2. A!AllOK /\ A!AllOK' /\ B!AllOK /\ B!AllOK'
  BY <1>1 DEF ServersOK
<1>3. CASE [A!Next]_A!vars /\ UNCHANGED varsB
  <2>1. A!DeliveryOK' /\ A!RowsBelong'
    BY <1>3, ConstantsOfBoth, A!DeliveryNext, A!RowsBelongNext DEF A!DeliveryOK
  <2>2. B!DeliveryOK' /\ B!RowsBelong'
    BY <1>2, <1>3, DeliveryBesideA, RowsBesideA
  <2>3. QED
    BY <1>1, <2>1, <2>2
<1>4. CASE [B!Next]_B!vars /\ UNCHANGED varsA
  <2>1. B!DeliveryOK' /\ B!RowsBelong'
    BY <1>4, ConstantsOfBoth, B!DeliveryNext, B!RowsBelongNext DEF B!DeliveryOK
  <2>2. A!DeliveryOK' /\ A!RowsBelong'
    BY <1>2, <1>4, DeliveryBesideB, RowsBesideB
  <2>3. QED
    BY <1>1, <2>1, <2>2
<1>5. QED
  BY <1>3, <1>4, StepOfOne

(* No client of either server is given the same content twice.             *)
THEOREM BothReadNothingTwice == Spec => [](A!NoRedelivery /\ B!NoRedelivery)
<1>1. DeliveriesOK => A!NoRedelivery /\ B!NoRedelivery
  BY DEF DeliveriesOK, A!DeliveryOK, A!NoRedelivery, A!IsFresh, B!DeliveryOK, B!NoRedelivery, B!IsFresh
<1>2. QED
  BY <1>1, DeliveriesInit, DeliveriesNext, PTL DEF Spec

(* Captures lose no entry to the other server, and no content, unless it   *)
(* deletes them.                                                           *)
THEOREM BothKeepCaptures == Spec => A!CapturesOnlyGrow /\ B!CapturesOnlyGrow
<1>1. A!CapturesGrow <=> B!CapturesGrow
  BY DEF A!CapturesGrow, B!CapturesGrow
<1>2. DeliveriesOK /\ [Next]_serversVars => A!CapturesGrow /\ B!CapturesGrow
  <2>1. DeliveriesOK /\ [A!Next]_A!vars => A!CapturesGrow
    BY ConstantsOfBoth, A!StepGrowsCaptures DEF DeliveriesOK
  <2>2. DeliveriesOK /\ [B!Next]_B!vars => B!CapturesGrow
    BY ConstantsOfBoth, B!StepGrowsCaptures DEF DeliveriesOK
  <2>3. QED
    BY <1>1, <2>1, <2>2, StepOfOne
<1>3. QED
  BY <1>2, DeliveriesInit, DeliveriesNext, PTL
  DEF Spec, A!CapturesOnlyGrow, A!CapturesGrow, B!CapturesOnlyGrow, B!CapturesGrow

(* What a client sees of its server is a feed, with the other server at    *)
(* work beside it.                                                         *)
THEOREM BothAreFeeds == Spec => A!ImplementsFeed /\ B!ImplementsFeed
<1>1. Init => A!Feed!Init /\ B!Feed!Init
  BY ConstantsOfBoth, A!FeedInit, B!FeedInit DEF Init
<1>2. DeliveriesOK /\ [A!Next]_A!vars => [A!Feed!Next]_(A!Feed!feedVars)
  BY ConstantsOfBoth, A!FeedStep DEF DeliveriesOK
<1>3. DeliveriesOK /\ [B!Next]_B!vars => [B!Feed!Next]_(B!Feed!feedVars)
  BY ConstantsOfBoth, B!FeedStep DEF DeliveriesOK
<1>4. UNCHANGED varsA => UNCHANGED A!Feed!feedVars
  BY DEF varsA, A!Feed!feedVars, A!FeedContent, A!FeedWaiting, A!Active
<1>5. UNCHANGED varsB => UNCHANGED B!Feed!feedVars
  BY DEF varsB, B!Feed!feedVars, B!FeedContent, B!FeedWaiting, B!Active
<1>6. DeliveriesOK /\ [Next]_serversVars => [A!Feed!Next]_(A!Feed!feedVars) /\ [B!Feed!Next]_(B!Feed!feedVars)
  BY <1>2, <1>3, <1>4, <1>5, StepOfOne
<1>7. QED
  BY <1>1, <1>6, DeliveriesInit, DeliveriesNext, PTL
  DEF Spec, A!ImplementsFeed, A!Feed!Spec, B!ImplementsFeed, B!Feed!Spec
=============================================================================
