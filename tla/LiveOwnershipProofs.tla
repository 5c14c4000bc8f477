------------------------ MODULE LiveOwnershipProofs ------------------------
(***************************************************************************)
(* Theorems about who may switch recording off, for every set of sessions, *)
(* every TTL and every failure of Charles.                                 *)
(***************************************************************************)
EXTENDS LiveManagerProofs

(* No step leaves a recording of the server without an owner and a reason  *)
(* to have none unless it found it so.                                     *)
Unowned == recorder = "server" /\ ~ owned /\ leftBy = {}

LEMMA UnownedWasUnowned ==
  ASSUME [Next]_vars, Unowned'
  PROVE  Unowned
<1> USE DEF Unowned, SetRecorder
<1>1. CASE StartSteps
  <2>1. ASSUME NEW outcome \in Outcomes, StartRecord(outcome) PROVE Unowned
    BY <2>1 DEF StartRecord, RecordOn, Outcomes
  <2>2. ASSUME NEW outcome \in Outcomes, StartRollback(outcome) PROVE Unowned
    BY <2>2 DEF StartRollback, RecordOff, Outcomes
  <2>3. CASE \/ \E outcome \in Outcomes : StartClear(outcome)
             \/ StartSnapshot \/ StartSnapshotFails
    BY <2>3 DEF StartClear, StartSnapshot, StartSnapshotFails, charlesVars, historyVars
  <2>4. QED
    BY <1>1, <2>1, <2>2, <2>3 DEF StartSteps
<1>2. CASE StopSteps
  BY <1>2 DEF StopSteps, StopRecord, RecordOff
<1>3. ASSUME NEW s \in Sids, NEW restore \in BOOLEAN, NEW saved \in BOOLEAN,
             Stop(s, restore, saved)
      PROVE  Unowned
  <2>1. CASE Active = {s} /\ ~ restore
    BY <1>3, <2>1 DEF Stop
  <2>2. CASE ~ (Active = {s} /\ ~ restore)
    BY <1>3, <2>2 DEF Stop
  <2>3. QED
    BY <2>1, <2>2
<1>4. CASE \/ \E s \in Sids, reset, start \in BOOLEAN : Start(s, reset, start)
           \/ \E s \in Sids, query \in Queries, limit \in Limits, advance \in BOOLEAN :
                Read(s, query, limit, advance)
           \/ \E s \in Sids : Capture(s) \/ StopAgain(s)
           \/ \E c \in DOMAIN store : DeleteCapture(c)
  <2>1. recorder' = recorder /\ owned' = owned /\ leftBy' = leftBy
    BY <1>4 DEF Start, Read, Capture, StopAgain, DeleteCapture, charlesVars, historyVars
  <2>2. QED
    BY <2>1
<1>5. CASE Expire
  BY <1>5
  DEF Expire, ExpireQuietly, ExpireRestoring, ExpireFails, RecordOff, charlesVars, historyVars
<1>6. CASE Exit
  BY <1>6 DEF Exit, Close, Crash, Outcomes
<1>7. CASE World \/ UserToggles
  BY <1>7
  DEF World, TrafficChanges, NewRequests, Response, UserRemoves, UserClears, UserToggles, Tick,
      serverVars, charlesVars, historyVars
<1>8. CASE UNCHANGED vars
  BY <1>8 DEF vars
<1>9. QED
  BY <1>1, <1>2, <1>3, <1>4, <1>5, <1>6, <1>7, <1>8 DEF Next, QuietNext, Requests

(* A recording the server started has an owner or a reason to have none:   *)
(* a restore declined, a lost answer, a failed exit, a crash.              *)
THEOREM StartedRecordingIsOwned == Spec => []StartedIsOwned
<1>1. Init => StartedIsOwned
  BY DEF Init, StartedIsOwned
<1>2. StartedIsOwned /\ [Next]_vars => StartedIsOwned'
  BY UnownedWasUnowned DEF StartedIsOwned, Unowned
<1>3. QED
  BY <1>1, <1>2, PTL DEF Spec

----------------------------------------------------------------------------
(* The sessions an operation that calls Charles found when it took the     *)
(* mutex are those it finds when the call returns.                         *)

CallsOK ==
  /\ op.at = "record" => op.started
  /\ op.at = "rollback" => Active = {}
  /\ op.at = "stop" => Active = {op.sid}
  /\ op.at = "snapshot" /\ ~ op.started => (owned => Active # {} \/ stranded)
  /\ OwnerHasSession

(* A snapshot and a page of a read leave the session as active as it was.  *)
LEMMA ReadKeepsActive ==
  ASSUME AllOK,
         \/ \E s \in Sids, query \in Queries, limit \in Limits, advance \in BOOLEAN :
              Read(s, query, limit, advance)
         \/ \E s \in Sids : Capture(s) \/ StopAgain(s)
         \/ \E c \in DOMAIN store : DeleteCapture(c)
         \/ World \/ UserToggles
  PROVE  Active' = Active
<1>1. ASSUME NEW s \in Sids, NEW query \in Queries, NEW limit \in Limits, NEW advance \in BOOLEAN,
             Read(s, query, limit, advance)
      PROVE  Active' = Active
  <2>1. s \in DOMAIN sessions /\ IsSession(sessions[s]) /\ traffic \in Seq(Transaction)
    BY <1>1 DEF Read, Active, AllOK, SessionsOK, CharlesOK
  <2>2. PICK t \in Snapshots(sessions[s], traffic) : \E c \in PageEnds(t, query, limit) :
          sessions' = [sessions EXCEPT ![s] = IF advance THEN Advance(t, c) ELSE t]
    BY <1>1 DEF Read
  <2>3. PICK c \in PageEnds(t, query, limit) :
          sessions' = [sessions EXCEPT ![s] = IF advance THEN Advance(t, c) ELSE t]
    BY <2>2
  <2>4. t.active = sessions[s].active
    BY <2>1, SnapshotFields
  <2>5. Advance(t, c).active = t.active
    BY <2>1, SnapshotType DEF Advance, IsSession
  <2>6. \A r \in DOMAIN sessions : sessions'[r].active = sessions[r].active
    BY <2>1, <2>3, <2>4, <2>5
  <2>7. QED
    BY <2>3, <2>6 DEF Active
<1>2. ASSUME NEW s \in Sids, Capture(s) PROVE Active' = Active
  <2>1. s \in DOMAIN sessions /\ IsSession(sessions[s]) /\ traffic \in Seq(Transaction)
    BY <1>2 DEF Capture, Active, AllOK, SessionsOK, CharlesOK
  <2>2. PICK t \in Snapshots(sessions[s], traffic) : sessions' = [sessions EXCEPT ![s] = t]
    BY <1>2 DEF Capture
  <2>3. t.active = sessions[s].active
    BY <2>1, SnapshotFields
  <2>4. QED
    BY <2>1, <2>2, <2>3 DEF Active
<1>3. ASSUME NEW s \in Sids, StopAgain(s) PROVE Active' = Active
  <2>1. /\ s \in DOMAIN sessions
        /\ sessions' = [sessions EXCEPT ![s] = [sessions[s] EXCEPT !.told = TRUE]]
    BY <1>3 DEF StopAgain
  <2>2. [sessions[s] EXCEPT !.told = TRUE].active = sessions[s].active
    BY <2>1 DEF AllOK, SessionsOK, IsSession
  <2>3. QED
    BY <2>1, <2>2 DEF Active
<1>4. ASSUME NEW s \in DOMAIN store, DeleteCapture(s) PROVE Active' = Active
  BY <1>4 DEF DeleteCapture, Active
<1>5. CASE Tick
  <2>1. \A s \in DOMAIN sessions : [sessions[s] EXCEPT !.age = @ + 1].active = sessions[s].active
    BY DEF AllOK, SessionsOK, IsSession
  <2>2. DOMAIN sessions' = DOMAIN sessions
    BY <1>5 DEF Tick
  <2>3. \A s \in DOMAIN sessions : sessions'[s].active = sessions[s].active
    BY <1>5, <2>1 DEF Tick
  <2>4. QED
    BY <2>2, <2>3 DEF Active
<1>6. CASE (World /\ ~ Tick) \/ UserToggles
  BY <1>6
  DEF World, TrafficChanges, NewRequests, Response, UserRemoves, UserClears, UserToggles,
      serverVars, Active
<1>7. QED
  BY <1>1, <1>2, <1>3, <1>4, <1>5, <1>6

LEMMA ForgetActive ==
  ASSUME NEW S, Forget(S)
  PROVE  Active' = Active \ S
<1>1. /\ DOMAIN sessions' = DOMAIN sessions \ S
      /\ \A s \in DOMAIN sessions' : sessions'[s] = sessions[s]
  BY SessionsForgotten
<1>2. QED
  BY <1>1 DEF Active

(* Stop deactivates its session at once or leaves that to StopRecord. *)
LEMMA StopActive ==
  ASSUME AllOK, NEW s \in Sids, NEW restore \in BOOLEAN, NEW saved \in BOOLEAN,
         Stop(s, restore, saved)
  PROVE  IF Active = {s} /\ owned /\ restore
           THEN Active' = {s} /\ op' = [at |-> "stop", sid |-> s, saved |-> saved]
           ELSE Active' = Active \ {s} /\ op' = Idle
<1>1. s \in DOMAIN sessions /\ s \in Active /\ IsSession(sessions[s])
  BY DEF Stop, Active, AllOK, SessionsOK
<1> DEFINE results == IF saved THEN Snapshots(sessions[s], traffic) ELSE {sessions[s]}
           calls == Active = {s} /\ owned /\ restore
<1>2. PICK t \in results :
        IF calls
          THEN /\ sessions' = [sessions EXCEPT ![s] = t]
               /\ op' = [at |-> "stop", sid |-> s, saved |-> saved]
          ELSE /\ sessions' = [sessions EXCEPT ![s] = Deactivated(t, saved)]
               /\ op' = Idle
  BY DEF Stop
<1>3. IsSession(t) /\ t.active
  <2>1. sessions[s].active
    BY <1>1 DEF Active
  <2>2. CASE saved
    <3>1. t \in Snapshots(sessions[s], traffic) /\ traffic \in Seq(Transaction)
      BY <2>2 DEF AllOK, CharlesOK
    <3>2. t.active = sessions[s].active
      BY <1>1, <3>1, SnapshotFields
    <3>3. QED
      BY <1>1, <2>1, <3>1, <3>2, SnapshotType
  <2>3. CASE ~ saved
    BY <1>1, <2>1, <2>3
  <2>4. QED
    BY <2>2, <2>3
<1>4. ~ Deactivated(t, saved).active
  BY <1>3 DEF Deactivated, IsSession
<1> HIDE DEF calls
<1>5. CASE calls
  <2>1. Active' = Active
    BY <1>1, <1>2, <1>3, <1>5 DEF Active
  <2>2. QED
    BY <1>2, <1>5, <2>1 DEF calls
<1>6. CASE ~ calls
  <2>1. DOMAIN sessions' = DOMAIN sessions /\ sessions'[s] = Deactivated(t, saved)
    BY <1>1, <1>2, <1>6
  <2>2. \A r \in DOMAIN sessions \ {s} : sessions'[r] = sessions[r]
    BY <1>2, <1>6
  <2>3. Active' = Active \ {s}
    BY <1>1, <1>4, <2>1, <2>2 DEF Active
  <2>4. QED
    BY <1>2, <1>6, <2>3 DEF calls
<1>7. QED
  BY <1>5, <1>6

LEMMA CallsInit == Init => CallsOK
  BY DEF Init, CallsOK, OwnerHasSession, Active, NoSessions, Idle

LEMMA CallsStart ==
  ASSUME AllOK, CallsOK,
         StartSteps \/ \E s \in Sids, reset, start \in BOOLEAN : Start(s, reset, start)
  PROVE  CallsOK'
<1> USE DEF CallsOK, OwnerHasSession
<1>1. ASSUME NEW s \in Sids, NEW reset \in BOOLEAN, NEW start \in BOOLEAN, Start(s, reset, start)
      PROVE  CallsOK'
  <2>1. Active' = Active
    BY <1>1 DEF Start, Active
  <2>2. QED
    BY <1>1, <2>1 DEF Start, Idle, historyVars
<1>2. ASSUME NEW outcome \in Outcomes, StartClear(outcome) PROVE CallsOK'
  <2>1. Active' = Active
    BY <1>2 DEF StartClear, Active
  <2>2. op \in [at : StartStages, sid : Sids, started : BOOLEAN]
    BY <1>2 DEF StartClear, AllOK, ManagerOK, Operations, Idle
  <2>3. QED
    BY <1>2, <2>1, <2>2 DEF StartClear, Idle, historyVars
<1>3. ASSUME NEW outcome \in Outcomes, StartRecord(outcome) PROVE CallsOK'
  <2>1. Active' = Active
    BY <1>3 DEF StartRecord, Active
  <2>2. op \in [at : StartStages, sid : Sids, started : BOOLEAN]
    BY <1>3 DEF StartRecord, AllOK, ManagerOK, Operations, Idle
  <2>3. QED
    BY <1>3, <2>1, <2>2 DEF StartRecord, Idle
<1>4. ASSUME StartSnapshot PROVE CallsOK'
  <2>1. PICK t \in Snapshots(NewSession, traffic) : sessions' = Put(sessions, op.sid, t)
    BY <1>4 DEF StartSnapshot
  <2>2. t.active
    <3>1. IsSession(NewSession) /\ traffic \in Seq(Transaction)
      BY NewSessionFacts DEF AllOK, CharlesOK
    <3>2. t.active = NewSession.active
      BY <3>1, SnapshotFields
    <3>3. QED
      BY <3>2 DEF NewSession
  <2>3. op.sid \in Active'
    BY <2>1, <2>2 DEF Put, Active
  <2>4. QED
    BY <1>4, <2>3 DEF StartSnapshot, Idle
<1>5. ASSUME StartSnapshotFails PROVE CallsOK'
  <2>1. Active' = Active
    BY <1>5 DEF StartSnapshotFails, Active
  <2>2. op \in [at : StartStages, sid : Sids, started : BOOLEAN]
    BY <1>5 DEF StartSnapshotFails, AllOK, ManagerOK, Operations, Idle
  <2>3. QED
    BY <1>5, <2>1, <2>2 DEF StartSnapshotFails, Idle, historyVars
<1>6. ASSUME NEW outcome \in Outcomes, StartRollback(outcome) PROVE CallsOK'
  BY <1>6 DEF StartRollback, Disown, Idle
<1>7. QED
  BY <1>1, <1>2, <1>3, <1>4, <1>5, <1>6 DEF StartSteps

LEMMA CallsStop ==
  ASSUME AllOK, CallsOK,
         StopSteps \/ \E s \in Sids, restore, saved \in BOOLEAN : Stop(s, restore, saved)
  PROVE  CallsOK'
<1> USE DEF CallsOK, OwnerHasSession
<1>1. ASSUME NEW s \in Sids, NEW restore \in BOOLEAN, NEW saved \in BOOLEAN, Stop(s, restore, saved)
      PROVE  CallsOK'
  <2>1. s \in Active /\ op = Idle
    BY <1>1 DEF Stop
  <2>2. CASE Active = {s} /\ owned /\ restore
    <3>1. Active' = {s} /\ op' = [at |-> "stop", sid |-> s, saved |-> saved]
      BY <1>1, <2>2, StopActive
    <3>2. QED
      BY <3>1
  <2>3. CASE ~ (Active = {s} /\ owned /\ restore)
    <3>1. Active' = Active \ {s} /\ op' = Idle
      BY <1>1, <2>3, StopActive
    <3>2. owned' => Active # {s} /\ owned' = owned
      BY <1>1, <2>3 DEF Stop, Disown
    <3>3. owned' => Active' # {}
      BY <2>1, <3>1, <3>2
    <3>4. QED
      BY <3>1, <3>3 DEF Idle
  <2>4. QED
    BY <2>2, <2>3
<1>2. ASSUME NEW outcome \in Outcomes, StopRecord(outcome) PROVE CallsOK'
  <2>1. CASE outcome = "ok"
    BY <1>2, <2>1 DEF StopRecord, Disown, Idle
  <2>2. CASE outcome # "ok"
    <3>1. Active' = Active /\ Active # {}
      BY <1>2, <2>2 DEF StopRecord, Active
    <3>2. QED
      BY <1>2, <2>2, <3>1 DEF StopRecord, Idle
  <2>3. QED
    BY <2>1, <2>2
<1>3. QED
  BY <1>1, <1>2 DEF StopSteps

LEMMA CallsExpire ==
  ASSUME AllOK, CallsOK, Expire
  PROVE  CallsOK'
<1> USE DEF CallsOK, OwnerHasSession
<1>1. CASE ExpireQuietly
  <2>1. Active' = Active \ Stale
    BY <1>1, ForgetActive DEF ExpireQuietly
  <2>2. QED
    BY <1>1, <2>1 DEF ExpireQuietly, ExpireRestores, Idle, historyVars
<1>2. CASE ExpireRestoring
  BY <1>2 DEF ExpireRestoring, Disown, Idle
<1>3. ASSUME NEW outcome \in Outcomes, ExpireFails(outcome) PROVE CallsOK'
  <2>1. PICK last \in Active, notReached \in SUBSET (Stale \ Active) :
          Forget(Stale \ ({last} \cup notReached))
    BY <1>3 DEF ExpireFails
  <2>2. Active' = Active \ (Stale \ ({last} \cup notReached))
    BY <2>1, ForgetActive
  <2>3. QED
    BY <1>3, <2>2 DEF ExpireFails, Idle
<1>4. QED
  BY <1>1, <1>2, <1>3 DEF Expire

LEMMA CallsNext == AllOK /\ CallsOK /\ [Next]_vars => CallsOK'
<1> SUFFICES ASSUME AllOK, CallsOK, [Next]_vars PROVE CallsOK'
  OBVIOUS
<1>1. CASE \/ \E s \in Sids, query \in Queries, limit \in Limits, advance \in BOOLEAN :
                Read(s, query, limit, advance)
           \/ \E s \in Sids : Capture(s) \/ StopAgain(s)
           \/ \E c \in DOMAIN store : DeleteCapture(c)
           \/ World \/ UserToggles
  <2>1. Active' = Active
    BY <1>1, ReadKeepsActive
  <2>2. op' = op /\ owned' = owned /\ stranded' = stranded
    BY <1>1
    DEF Read, Capture, DeleteCapture, StopAgain, World, TrafficChanges, NewRequests, Response,
        UserRemoves,
        UserClears, UserToggles, Tick, serverVars, historyVars
  <2>3. QED
    BY <2>1, <2>2 DEF CallsOK, OwnerHasSession
<1>2. CASE Exit
  <2>1. owned' = FALSE /\ op' = Idle
    BY <1>2 DEF Exit, Close, Crash, NewProcess
  <2>2. QED
    BY <2>1 DEF CallsOK, OwnerHasSession, Idle
<1>3. CASE UNCHANGED vars
  BY <1>3 DEF vars, CallsOK, OwnerHasSession, Active
<1>4. QED
  BY <1>1, <1>2, <1>3, CallsStart, CallsStop, CallsExpire DEF Next, QuietNext, Requests

(* Ownership always has a session whose end restores recording, except     *)
(* while Start runs and after a Start whose rollback failed: the case in   *)
(* which Expire never restores recording and only Close does.              *)
THEOREM OwnersHaveSessions == Spec => []OwnerHasSession
<1>1. Spec => []TypeOK
  BY TypeCorrectness
<1>2. TypeOK => AllOK
  BY TypeParts DEF AllOK
<1>3. Init => CallsOK
  BY CallsInit
<1>4. TypeOK /\ CallsOK /\ [Next]_vars => CallsOK'
  BY <1>2, CallsNext
<1>5. CallsOK => OwnerHasSession
  BY DEF CallsOK
<1>6. QED
  BY <1>1, <1>3, <1>4, <1>5, PTL DEF Spec

----------------------------------------------------------------------------
(* The server never stops a recording another live session still needs.    *)
THEOREM RecordingStaysWhileNeeded == Spec => NoStopWhileNeeded
<1> DEFINE Kept == ServerStopsRecording => Needed = {} \/ DOMAIN sessions' = {}
<1>1. TypeOK /\ CallsOK /\ [Next]_vars => [Kept]_vars
  <2> SUFFICES ASSUME TypeOK, CallsOK, Next, ServerStopsRecording
               PROVE  Needed = {} \/ DOMAIN sessions' = {}
    BY DEF NoStopWhileNeeded
  <2>1. recorder # "off" /\ recorder' = "off" /\ ~ UserToggles
    BY DEF ServerStopsRecording
  <2>2. CASE StartSteps
    <3>1. PICK outcome \in Outcomes : StartRollback(outcome)
      BY <2>1, <2>2
      DEF StartSteps, StartClear, StartRecord, RecordOn, SetRecorder, StartSnapshot,
          StartSnapshotFails, charlesVars
    <3>2. QED
      BY <3>1 DEF StartRollback, CallsOK, Needed
  <2>3. CASE StopSteps
    BY <2>3 DEF StopSteps, StopRecord, CallsOK, Needed
  <2>4. CASE Requests
    <3>1. recorder' = recorder
      <4>1. ASSUME NEW s \in Sids, NEW restore \in BOOLEAN, NEW saved \in BOOLEAN,
                   Stop(s, restore, saved)
            PROVE  recorder' = recorder
        <5>1. CASE Active = {s} /\ ~ restore
          BY <4>1, <5>1 DEF Stop, SetRecorder
        <5>2. CASE ~ (Active = {s} /\ ~ restore)
          BY <4>1, <5>2 DEF Stop
        <5>3. QED
          BY <5>1, <5>2
      <4>2. QED
        BY <2>4, <4>1
        DEF Requests, Start, Read, Capture, StopAgain, DeleteCapture, charlesVars
    <3>2. QED
      BY <2>1, <3>1
  <2>5. CASE Expire
    <3>1. ExpireRestores
      BY <2>1, <2>5 DEF Expire, ExpireQuietly, ExpireRestoring, ExpireFails, charlesVars
    <3>2. QED
      BY <3>1 DEF ExpireRestores, Needed
  <2>6. CASE Exit
    BY <2>6 DEF Exit, Close, Crash, NewProcess, NoSessions
  <2>7. CASE World
    BY <2>1, <2>7
    DEF World, TrafficChanges, NewRequests, Response, UserRemoves, UserClears, Tick, charlesVars
  <2>8. QED
    BY <2>1, <2>2, <2>3, <2>4, <2>5, <2>6, <2>7 DEF Next, QuietNext
<1>2. Spec => []TypeOK
  BY TypeCorrectness
<1>3. Init => CallsOK
  BY CallsInit
<1>4. TypeOK /\ CallsOK /\ [Next]_vars => CallsOK'
  BY CallsNext, TypeParts DEF AllOK
<1>5. QED
  BY <1>1, <1>2, <1>3, <1>4, PTL DEF Spec, NoStopWhileNeeded

----------------------------------------------------------------------------
(* A user who leaves the record button alone: what the server has turned   *)
(* on or is about to turn on is no recording of the user.                  *)

QuietOK ==
  /\ owned => recorder # "user"
  /\ op.at \in StartStages => (op.started => recorder # "user")
  /\ op.at \in {"record", "rollback"} => op.started
  /\ op.at = "stop" => owned

(* The steps of the manager write the switch, ownership and the operation. *)
LEMMA QuietStep ==
  ASSUME AllOK, QuietOK, QuietNext
  PROVE  QuietOK' /\ (ServerStopsRecording => recorder = "server")
<1> USE DEF QuietOK, ServerStopsRecording
<1>0. recorder \in {"off", "user", "server"} /\ op \in Operations
  BY DEF AllOK, CharlesOK, ManagerOK
<1>1. CASE StartSteps
  <2>1. op.at \in StartStages => op \in [at : StartStages, sid : Sids, started : BOOLEAN]
    BY <1>0 DEF Operations, StartStages, Idle
  <2>2. ASSUME NEW outcome \in Outcomes, StartClear(outcome)
        PROVE  QuietOK' /\ recorder' = recorder
    BY <2>1, <2>2 DEF StartClear, StartStages, Idle
  <2>3. ASSUME NEW outcome \in Outcomes, StartRecord(outcome)
        PROVE  QuietOK' /\ (recorder' = "off" => recorder = "off")
    <3>1. op.started => recorder # "user"
      BY <2>3 DEF StartRecord, StartStages
    <3>2. recorder' = IF outcome # "refused" /\ recorder = "off" THEN "server" ELSE recorder
      BY <2>3 DEF StartRecord, RecordOn, SetRecorder
    <3>3. IF outcome = "ok"
            THEN owned' = TRUE /\ op' = [op EXCEPT !.at = "snapshot"]
            ELSE op' = Idle /\ owned' = owned
      BY <2>3 DEF StartRecord
    <3>4. QED
      BY <2>1, <2>3, <3>1, <3>2, <3>3 DEF StartRecord, StartStages, Idle
  <2>4. CASE StartSnapshot
    BY <2>4 DEF StartSnapshot, StartStages, Idle, charlesVars
  <2>5. CASE StartSnapshotFails
    BY <2>1, <2>5 DEF StartSnapshotFails, StartStages, Idle, charlesVars
  <2>6. ASSUME NEW outcome \in Outcomes, StartRollback(outcome)
        PROVE  QuietOK' /\ recorder # "user"
    BY <2>6 DEF StartRollback, RecordOff, SetRecorder, Disown, StartStages, Idle
  <2>7. QED
    BY <1>0, <1>1, <2>2, <2>3, <2>4, <2>5, <2>6 DEF StartSteps, charlesVars, StartSnapshot,
      StartSnapshotFails
<1>2. CASE StopSteps
  BY <1>0, <1>2 DEF StopSteps, StopRecord, RecordOff, SetRecorder, Disown, Idle, StartStages
<1>3. CASE Requests
  <2>1. ASSUME NEW s \in Sids, NEW reset \in BOOLEAN, NEW start \in BOOLEAN, Start(s, reset, start)
        PROVE  QuietOK' /\ recorder' = recorder
    BY <2>1 DEF Start, charlesVars, StartStages
  <2>2. ASSUME NEW s \in Sids, NEW restore \in BOOLEAN, NEW saved \in BOOLEAN,
               Stop(s, restore, saved)
        PROVE  QuietOK' /\ recorder' = recorder
    <3>1. op' = Idle \/ (op' = [at |-> "stop", sid |-> s, saved |-> saved] /\ owned /\ restore)
      BY <2>2 DEF Stop
    <3>2. recorder' = recorder /\ (owned' = owned \/ (owned' = FALSE /\ ~ restore))
      <4>1. CASE Active = {s} /\ ~ restore
        BY <2>2, <4>1 DEF Stop, Disown, SetRecorder
      <4>2. CASE ~ (Active = {s} /\ ~ restore)
        BY <2>2, <4>2 DEF Stop
      <4>3. QED
        BY <4>1, <4>2
    <3>3. QED
      BY <3>1, <3>2 DEF Idle, StartStages
  <2>3. CASE \/ \E s \in Sids, query \in Queries, limit \in Limits, advance \in BOOLEAN :
                  Read(s, query, limit, advance)
             \/ \E s \in Sids : Capture(s) \/ StopAgain(s)
             \/ \E c \in DOMAIN store : DeleteCapture(c)
    <3>1. recorder' = recorder /\ owned' = owned /\ op' = op
      BY <2>3 DEF Read, Capture, StopAgain, DeleteCapture, charlesVars
    <3>2. QED
      BY <3>1
  <2>4. QED
    BY <1>3, <2>1, <2>2, <2>3 DEF Requests
<1>4. CASE Expire
  <2>1. op' = op /\ op = Idle /\ (owned' => owned) /\ recorder' \in {recorder, "off"}
    BY <1>4
    DEF Expire, ExpireQuietly, ExpireRestoring, ExpireFails, RecordOff, SetRecorder, Disown,
        charlesVars
  <2>2. recorder' = recorder \/ owned
    BY <1>4
    DEF Expire, ExpireQuietly, ExpireRestoring, ExpireFails, ExpireRestores, charlesVars
  <2>3. QED
    BY <1>0, <2>1, <2>2 DEF Idle, StartStages
<1>5. CASE Exit
  <2>1. op' = Idle /\ owned' = FALSE
    BY <1>5 DEF Exit, Close, Crash, NewProcess
  <2>2. recorder' = recorder \/ owned
    <3>1. CASE Crash
      BY <3>1 DEF Crash, SetRecorder
    <3>2. ASSUME NEW outcome \in Outcomes, Close(outcome) PROVE recorder' = recorder \/ owned
      BY <3>2 DEF Close
    <3>3. QED
      BY <1>5, <3>1, <3>2 DEF Exit
  <2>3. QED
    BY <1>0, <2>1, <2>2 DEF Idle, StartStages
<1>6. CASE World
  <2>1. recorder' = recorder /\ owned' = owned /\ op' = op
    BY <1>6
    DEF World, TrafficChanges, NewRequests, Response, UserRemoves, UserClears, Tick, serverVars,
        charlesVars
  <2>2. QED
    BY <2>1
<1>7. QED
  BY <1>1, <1>2, <1>3, <1>4, <1>5, <1>6 DEF QuietNext

(* As long as the user leaves the record button alone, the server stops    *)
(* only a recording it started.                                            *)
THEOREM QuietUserKeepsRecording == QuietSpec => StopsOnlyItsOwn
<1> DEFINE Own == ServerStopsRecording => recorder = "server"
<1>1. [QuietNext]_vars => [Next]_vars
  BY DEF Next
<1>2. QuietSpec => []TypeOK
  BY <1>1, TypeCorrectness, PTL DEF QuietSpec, Spec
<1>3. Init => QuietOK
  BY DEF Init, QuietOK, Idle, StartStages
<1>4. TypeOK /\ QuietOK /\ [QuietNext]_vars => QuietOK'
  <2> SUFFICES ASSUME TypeOK, QuietOK, [QuietNext]_vars PROVE QuietOK'
    OBVIOUS
  <2>1. CASE UNCHANGED vars
    BY <2>1 DEF vars, QuietOK
  <2>2. CASE QuietNext
    BY <2>2, QuietStep, TypeParts DEF AllOK
  <2>3. QED
    BY <2>1, <2>2
<1>5. TypeOK /\ QuietOK /\ [QuietNext]_vars => [Own]_vars
  BY QuietStep, TypeParts DEF AllOK
<1>6. QED
  BY <1>2, <1>3, <1>4, <1>5, PTL DEF QuietSpec, StopsOnlyItsOwn
=============================================================================
