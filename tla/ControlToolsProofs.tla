------------------------- MODULE ControlToolsProofs -------------------------
(***************************************************************************)
(* Theorems about reset_environment and proxy_by_time beside the live      *)
(* manager, for any number of clients, any duration and any failure of     *)
(* Charles.                                                                *)
(***************************************************************************)
EXTENDS ControlTools, LiveDeliveryProofs

(* A step of the tools is one of the manager, or the late call of a reset. *)
LEMMA ToolSteps ==
  ASSUME SessionsOK, [ToolNext]_toolVars
  PROVE  [Next]_vars \/ \E c \in Clients, outcome \in Outcomes : ResetAct(c, outcome)
<1>1. ASSUME NEW c \in Clients, NEW saved \in BOOLEAN, TimedStop(c, saved) PROVE [Next]_vars
  <2>1. calls[c].sid \in DOMAIN sessions => calls[c].sid \in Sids
    BY DEF SessionsOK
  <2>2. Active \subseteq DOMAIN sessions
    BY DEF Active
  <2>3. CASE Stop(calls[c].sid, TRUE, saved)
    <3>1. calls[c].sid \in Sids
      BY <2>1, <2>2, <2>3 DEF Stop
    <3>2. QED
      BY <2>3, <3>1 DEF Next, QuietNext, Requests
  <2>4. CASE StopAgain(calls[c].sid)
    BY <2>1, <2>4 DEF StopAgain, Next, QuietNext, Requests
  <2>5. QED
    BY <1>1, <2>3, <2>4 DEF TimedStop
<1>2. ASSUME NEW c \in Clients, NEW s \in Sids, NEW reset \in BOOLEAN, NEW start \in BOOLEAN,
             TimedStart(c, s, reset, start)
      PROVE  [Next]_vars
  BY <1>2 DEF TimedStart, Next, QuietNext, Requests
<1>3. ASSUME NEW c \in Clients, Cancel(c) \/ \E action \in ResetActions : ResetCheck(c, action)
      PROVE  [Next]_vars
  BY <1>3 DEF Cancel, ResetCheck
<1>4. CASE Tools
  BY <1>1, <1>2, <1>3, <1>4 DEF Tools, TimedSteps
<1>5. CASE (StartSteps \/ StopSteps) \/ Others \/ Time \/ Exit
  BY <1>5 DEF Others, Time, Next, QuietNext, World
<1>6. CASE UNCHANGED toolVars
  BY <1>6 DEF toolVars
<1>7. QED
  BY <1>4, <1>5, <1>6 DEF ToolNext

----------------------------------------------------------------------------
(* The calls, and the state of the manager they rely on. *)

ToolCalls ==
  {NoCall}
    \cup [at : {"reset"}, action : ResetActions]
    \cup [at : {"starting", "waiting", "stopping"}, sid : Sids, left : 0..Duration]

CallsTyped == calls \in [Clients -> ToolCalls]

ToolTypes == AllOK /\ CallsOK /\ StartIsFresh /\ CallsTyped

(* The call of a reset, whoever holds the mutex when it reaches Charles,   *)
(* changes nothing the manager knows.                                      *)
LEMMA ResetActCharles ==
  ASSUME CallsTyped, NEW c \in Clients, NEW outcome \in Outcomes, ResetAct(c, outcome)
  PROVE  /\ UNCHANGED <<clock, serverVars>>
         /\ traffic' \in {traffic, <<>>}
         /\ \/ UNCHANGED <<recorder, leftBy>>
            \/ \E r \in {recorder, "off", "user"} : SetRecorder(r, {})
<1>1. UNCHANGED <<clock, serverVars>> /\ traffic' \in {traffic, <<>>}
  BY DEF ResetAct
<1> DEFINE done == outcome # "refused"
           action == calls[c].action
           Quits == \E r \in IF done THEN {"off", "user"} ELSE {recorder} : SetRecorder(r, {})
           Switched == CASE action = "clear_session" -> UNCHANGED <<recorder, leftBy>>
                         [] action = "stop_recording" -> RecordOff(outcome)
                         [] action = "start_recording" ->
                              SetRecorder(IF done /\ recorder = "off" THEN "user" ELSE recorder, {})
                         [] action = "quit_charles" -> Quits
<1>2. Switched
  BY DEF ResetAct
<1>3. action \in ResetActions
  BY DEF CallsTyped, ToolCalls, NoCall, ResetAct
<1>4. CASE action = "clear_session"
  BY <1>1, <1>2, <1>4
<1>5. CASE action = "stop_recording"
  BY <1>1, <1>2, <1>5 DEF RecordOff
<1>6. CASE action = "start_recording"
  BY <1>1, <1>2, <1>6
<1>7. CASE action = "quit_charles"
  <2>1. Quits
    BY <1>2, <1>7
  <2>2. QED
    BY <1>1, <2>1
<1>8. QED
  BY <1>3, <1>4, <1>5, <1>6, <1>7 DEF ResetActions

LEMMA ResetActKeeps ==
  ASSUME ToolTypes, NEW c \in Clients, NEW outcome \in Outcomes, ResetAct(c, outcome)
  PROVE  /\ AllOK' /\ CallsOK' /\ StartIsFresh'
         /\ Unowned' => Unowned
<1>1. /\ UNCHANGED <<clock, serverVars>>
      /\ traffic' \in {traffic, <<>>}
      /\ \/ UNCHANGED <<recorder, leftBy>>
         \/ \E r \in {recorder, "off", "user"} : SetRecorder(r, {})
  BY ResetActCharles DEF ToolTypes
<1>2. CharlesOK'
  BY <1>1, EmptySeq DEF ToolTypes, AllOK, CharlesOK, SetRecorder
<1>3. SessionsOK' /\ StoreOK' /\ ManagerOK'
  BY <1>1 DEF ToolTypes, AllOK, SessionsOK, StoreOK, ManagerOK, serverVars
<1>4. CallsOK' /\ StartIsFresh'
  BY <1>1 DEF ToolTypes, CallsOK, OwnerHasSession, Active, StartIsFresh, serverVars
<1>5. ASSUME Unowned' PROVE Unowned
  <2>1. owned' = owned
    BY <1>1 DEF serverVars
  <2>2. recorder = "server" /\ leftBy = {}
    BY <1>1, <1>5 DEF Unowned, SetRecorder
  <2>3. QED
    BY <1>5, <2>1, <2>2 DEF Unowned
<1>6. QED
  BY <1>2, <1>3, <1>4, <1>5 DEF AllOK

LEMMA ReturnedTyped ==
  ASSUME CallsTyped
  PROVE  Returned \in [Clients -> ToolCalls]
<1>1. ASSUME NEW c \in Clients PROVE Returned[c] \in ToolCalls
  <2>1. calls[c] \in ToolCalls
    BY DEF CallsTyped
  <2>2. calls[c].at \in {"starting", "stopping"} => [calls[c] EXCEPT !.at = "waiting"] \in ToolCalls
    BY <2>1 DEF ToolCalls, NoCall
  <2>3. NoCall \in ToolCalls
    BY DEF ToolCalls
  <2>4. \/ Returned[c] = calls[c]
        \/ Returned[c] = NoCall
        \/ /\ calls[c].at \in {"starting", "stopping"}
           /\ Returned[c] = [calls[c] EXCEPT !.at = "waiting"]
    BY DEF Returned
  <2>5. QED
    BY <2>1, <2>2, <2>3, <2>4
<1>2. QED
  BY <1>1 DEF Returned

LEMMA CallsTypedNext ==
  ASSUME CallsTyped, SessionsOK, [ToolNext]_toolVars
  PROVE  CallsTyped'
<1> USE DEF CallsTyped
<1>1. NoCall \in ToolCalls
  BY DEF ToolCalls
<1>2. ASSUME NEW c \in Clients, NEW action \in ResetActions, ResetCheck(c, action)
      PROVE  CallsTyped'
  BY <1>2 DEF ResetCheck, ToolCalls
<1>3. ASSUME NEW c \in Clients, NEW outcome \in Outcomes, ResetAct(c, outcome)
      PROVE  CallsTyped'
  BY <1>1, <1>3 DEF ResetAct
<1>4. ASSUME NEW c \in Clients, NEW s \in Sids, NEW reset \in BOOLEAN, NEW start \in BOOLEAN,
             TimedStart(c, s, reset, start)
      PROVE  CallsTyped'
  <2>1. [at |-> "starting", sid |-> s, left |-> Duration] \in ToolCalls
    BY DurationAssumption DEF ToolCalls
  <2>2. QED
    BY <1>4, <2>1 DEF TimedStart
<1>5. ASSUME NEW c \in Clients, Cancel(c) PROVE CallsTyped'
  <2>1. [calls[c] EXCEPT !.left = 0] \in ToolCalls
    BY <1>5, DurationAssumption DEF Cancel, ToolCalls, NoCall
  <2>2. calls' = [calls EXCEPT ![c] = [calls[c] EXCEPT !.left = 0]]
    BY <1>5 DEF Cancel
  <2>3. QED
    BY <2>1, <2>2
<1>6. ASSUME NEW c \in Clients, NEW saved \in BOOLEAN, TimedStop(c, saved) PROVE CallsTyped'
  <2>1. [calls[c] EXCEPT !.at = "stopping"] \in ToolCalls
    BY <1>6 DEF TimedStop, Due, ToolCalls, NoCall
  <2>2. \/ calls' = [calls EXCEPT ![c] = NoCall]
        \/ calls' = [calls EXCEPT ![c] = [calls[c] EXCEPT !.at = "stopping"]]
    BY <1>6 DEF TimedStop
  <2>3. QED
    BY <1>1, <2>1, <2>2
<1>7. CASE Time
  <2>1. ASSUME NEW c \in Clients, calls[c].at = "waiting", calls[c].left > 0
        PROVE  [calls[c] EXCEPT !.left = @ - 1] \in ToolCalls
    BY <2>1, DurationAssumption DEF ToolCalls, NoCall
  <2>2. calls' = [c \in Clients |->
                    IF calls[c].at = "waiting" /\ calls[c].left > 0
                      THEN [calls[c] EXCEPT !.left = @ - 1] ELSE calls[c]]
    BY <1>7 DEF Time, TimersTick
  <2>3. QED
    BY <2>1, <2>2
<1>8. CASE (StartSteps \/ StopSteps) /\ calls' = Returned
  BY <1>8, ReturnedTyped
<1>9. CASE (Others /\ UNCHANGED calls) \/ UNCHANGED toolVars
  BY <1>9 DEF toolVars
<1>10. CASE Exit /\ calls' = [c \in Clients |-> NoCall]
  BY <1>1, <1>10
<1>11. QED
  BY <1>2, <1>3, <1>4, <1>5, <1>6, <1>7, <1>8, <1>9, <1>10 DEF ToolNext, Tools, TimedSteps

LEMMA ToolTypesInit == ToolInit => ToolTypes
<1>1. ToolInit => CallsTyped
  BY DEF ToolInit, CallsTyped, ToolCalls
<1>2. QED
  BY <1>1, TypeInit, CallsInit, StartIsFreshInit DEF ToolInit, ToolTypes

LEMMA ToolTypesNext ==
  ASSUME ToolTypes, [ToolNext]_toolVars
  PROVE  ToolTypes' /\ (Unowned' => Unowned)
<1>1. CallsTyped'
  BY CallsTypedNext DEF ToolTypes, AllOK
<1>2. CASE [Next]_vars
  BY <1>1, <1>2, TypeNext, CallsNext, StartIsFreshStep, UnownedWasUnowned DEF ToolTypes
<1>3. ASSUME NEW c \in Clients, NEW outcome \in Outcomes, ResetAct(c, outcome)
      PROVE  ToolTypes' /\ (Unowned' => Unowned)
  BY <1>1, <1>3, ResetActKeeps DEF ToolTypes
<1>4. QED
  BY <1>2, <1>3, ToolSteps DEF ToolTypes, AllOK

(* The manager keeps its ownership in order although reset_environment     *)
(* calls Charles behind its back, between any two steps of an operation.   *)
THEOREM ToolsKeepOwnership == ToolSpec => [](TypeOK /\ StartedIsOwned /\ OwnerHasSession)
<1>1. ToolInit => ToolTypes /\ StartedIsOwned
  BY ToolTypesInit DEF ToolInit, Init, StartedIsOwned
<1>2. ToolTypes /\ StartedIsOwned /\ [ToolNext]_toolVars => ToolTypes' /\ StartedIsOwned'
  BY ToolTypesNext DEF StartedIsOwned, Unowned
<1>3. ToolTypes => TypeOK /\ OwnerHasSession
  BY TypeParts DEF ToolTypes, AllOK, CallsOK
<1>4. QED
  BY <1>1, <1>2, <1>3, PTL DEF ToolSpec
----------------------------------------------------------------------------
(* What clients read, beside calls that clear Charles after their check is *)
(* stale (reset.go:13-45).                                                 *)

ToolDelivers == ToolTypes /\ NoLostUpdate /\ DeliveryOK /\ RowsBelong

LEMMA ResetActDelivers ==
  ASSUME ToolDelivers, NEW c \in Clients, NEW outcome \in Outcomes, ResetAct(c, outcome)
  PROVE  /\ NoLostUpdate' /\ DeliveryOK' /\ RowsBelong'
         /\ CapturesGrow /\ UNCHANGED Feed!feedVars
<1>1. clock' = clock /\ traffic' \in {traffic, <<>>} /\ sessions' = sessions /\ store' = store
  BY ResetActCharles DEF ToolDelivers, ToolTypes, serverVars
<1>2. AllOK' /\ StartIsFresh'
  BY ResetActKeeps DEF ToolDelivers
<1>3. Tracked'
  <2>1. traffic \in Seq(Transaction) /\ clock \in Nat
        /\ \A s \in DOMAIN sessions : IsSession(sessions[s]) /\ IsTracked(sessions[s], traffic, clock)
    BY DEF ToolDelivers, DeliveryOK, AllOK, CharlesOK, SessionsOK, Tracked
  <2>2. CASE traffic' = traffic
    BY <1>1, <2>2 DEF ToolDelivers, DeliveryOK, Tracked
  <2>3. CASE traffic' = <<>>
    <3>1. IsOrdered(<<>>, clock) /\ \A s \in DOMAIN sessions : IsTracked(sessions[s], <<>>, clock)
      BY <2>1, ClearTracked
    <3>2. QED
      BY <1>1, <2>3, <3>1 DEF Tracked
  <2>4. QED
    BY <1>1, <2>2, <2>3
<1>4. NoLostUpdate' /\ RowsBelong' /\ DeliveryOK'
  BY <1>1, <1>2, <1>3 DEF ToolDelivers, NoLostUpdate, RowsBelong, DeliveryOK
<1>5. CapturesGrow
  <2>1. \A d \in DOMAIN store : \A id \in DOMAIN store[d] : store[d][id].payload.ver \in Nat
    BY DEF ToolDelivers, DeliveryOK, AllOK, StoreOK, IsRows, Entry
  <2>2. QED
    BY <1>1, <2>1 DEF CapturesGrow
<1>6. UNCHANGED Feed!feedVars
  BY <1>1 DEF Feed!feedVars, FeedContent, FeedWaiting, Active
<1>7. QED
  BY <1>4, <1>5, <1>6

LEMMA ToolDeliversInit == ToolInit => ToolDelivers
  BY ToolTypesInit, LosslessInit, DeliveryInit, RowsBelongInit DEF ToolInit, ToolDelivers

LEMMA ToolDeliversNext ==
  ASSUME ToolDelivers, [ToolNext]_toolVars
  PROVE  ToolDelivers' /\ CapturesGrow /\ [Feed!Next]_(Feed!feedVars)
<1>1. ToolTypes'
  BY ToolTypesNext DEF ToolDelivers
<1>2. CASE [Next]_vars
  <2>1. AllOK /\ StartIsFresh
    BY DEF ToolDelivers, DeliveryOK
  <2>2. NoLostUpdate' /\ DeliveryOK' /\ RowsBelong'
    BY <1>2, <2>1, LosslessNext, DeliveryNext, RowsBelongNext DEF ToolDelivers
  <2>3. CapturesGrow /\ [Feed!Next]_(Feed!feedVars)
    BY <1>2, StepGrowsCaptures, FeedStep DEF ToolDelivers
  <2>4. QED
    BY <1>1, <2>2, <2>3 DEF ToolDelivers
<1>3. ASSUME NEW c \in Clients, NEW outcome \in Outcomes, ResetAct(c, outcome)
      PROVE  ToolDelivers' /\ CapturesGrow /\ [Feed!Next]_(Feed!feedVars)
  BY <1>1, <1>3, ResetActDelivers DEF ToolDelivers
<1>4. QED
  BY <1>2, <1>3, ToolSteps DEF ToolDelivers, ToolTypes, AllOK

(* Reads stay lossless and nothing is read twice, although resets clear    *)
(* Charles under sessions that started after their check.                  *)
THEOREM ToolsKeepReads == ToolSpec => [](NoLostUpdate /\ NoRedelivery)
<1>1. ToolDelivers => NoLostUpdate /\ NoRedelivery
  BY DEF ToolDelivers, DeliveryOK, NoRedelivery, IsFresh
<1>2. ToolDelivers /\ [ToolNext]_toolVars => ToolDelivers'
  BY ToolDeliversNext
<1>3. QED
  BY <1>1, <1>2, ToolDeliversInit, PTL DEF ToolSpec

(* What Charles has lost to a reset its captures keep.                     *)
THEOREM ToolsKeepCaptures == ToolSpec => CapturesOnlyGrow
<1>1. ToolDelivers /\ [ToolNext]_toolVars => ToolDelivers' /\ CapturesGrow
  BY ToolDeliversNext
<1>2. QED
  BY <1>1, ToolDeliversInit, PTL DEF ToolSpec, CapturesOnlyGrow, CapturesGrow

(* The live captures are a feed beside resets and timed captures too.      *)
THEOREM ToolsKeepTheFeed == ToolSpec => ImplementsFeed
<1>1. ToolInit => Feed!Init
  BY FeedInit DEF ToolInit
<1>2. ToolDelivers /\ [ToolNext]_toolVars => ToolDelivers' /\ [Feed!Next]_(Feed!feedVars)
  BY ToolDeliversNext
<1>3. QED
  BY <1>1, <1>2, ToolDeliversInit, PTL DEF ToolSpec, ImplementsFeed, Feed!Spec

----------------------------------------------------------------------------
(* A session that is not stale outlives every step but the end of the      *)
(* process, and only time makes it older.                                  *)
LEMMA SessionsStay ==
  ASSUME AllOK, StartSteps \/ StopSteps \/ Others \/ UNCHANGED vars,
         NEW s \in DOMAIN sessions, s \notin Stale
  PROVE  s \in DOMAIN sessions' /\ sessions'[s].age <= sessions[s].age
<1> DEFINE Stays == s \in DOMAIN sessions' /\ sessions'[s].age <= sessions[s].age
<1>1. IsSession(sessions[s]) /\ sessions[s].age \in Nat /\ traffic \in Seq(Transaction)
  BY DEF AllOK, SessionsOK, CharlesOK, IsSession
<1>2. ASSUME NEW r, NEW t, t.age = 0 \/ (r \in DOMAIN sessions /\ t.age = sessions[r].age),
             sessions' = Put(sessions, r, t) \/ sessions' = [sessions EXCEPT ![r] = t]
      PROVE  Stays
  <2>1. s \in DOMAIN sessions'
    BY <1>2 DEF Put
  <2>2. sessions'[s] = IF s = r THEN t ELSE sessions[s]
    BY <1>2 DEF Put
  <2>3. QED
    BY <1>1, <1>2, <2>1, <2>2
<1>3. CASE sessions' = sessions
  BY <1>1, <1>3
<1>4. CASE StartSnapshot
  <2>1. PICK t \in Snapshots(NewSession, traffic) : sessions' = Put(sessions, op.sid, t)
    BY <1>4 DEF StartSnapshot
  <2>2. t.age = 0
    BY <1>1, NewSessionFacts, SnapshotFields
  <2>3. QED
    BY <1>2, <2>1, <2>2
<1>5. ASSUME NEW r \in Sids, NEW query \in Queries, NEW limit \in Limits, NEW advance \in BOOLEAN,
             Read(r, query, limit, advance)
      PROVE  Stays
  <2>1. r \in DOMAIN sessions /\ IsSession(sessions[r])
    BY <1>5 DEF Read, Active, AllOK, SessionsOK
  <2>2. PICK t \in Snapshots(sessions[r], traffic) : \E c \in PageEnds(t, query, limit) :
          sessions' = [sessions EXCEPT ![r] = IF advance THEN Advance(t, c) ELSE t]
    BY <1>5 DEF Read
  <2>3. PICK c \in PageEnds(t, query, limit) :
          sessions' = [sessions EXCEPT ![r] = IF advance THEN Advance(t, c) ELSE t]
    BY <2>2
  <2>4. t.age = 0
    BY <1>1, <2>1, SnapshotFields
  <2>5. Advance(t, c).age = 0
    BY <1>1, <2>1, <2>4, SnapshotType DEF Advance, IsSession
  <2> DEFINE u == IF advance THEN Advance(t, c) ELSE t
  <2>6. u.age = 0 /\ sessions' = [sessions EXCEPT ![r] = u]
    BY <2>3, <2>4, <2>5
  <2> HIDE DEF u
  <2>7. QED
    BY <1>2, <2>6
<1>6. ASSUME NEW r \in Sids, Capture(r) PROVE Stays
  <2>1. r \in DOMAIN sessions /\ IsSession(sessions[r])
    BY <1>6 DEF Capture, Active, AllOK, SessionsOK
  <2>2. PICK t \in Snapshots(sessions[r], traffic) : sessions' = [sessions EXCEPT ![r] = t]
    BY <1>6 DEF Capture
  <2>3. t.age = 0
    BY <1>1, <2>1, SnapshotFields
  <2>4. QED
    BY <1>2, <2>2, <2>3
<1>7. ASSUME NEW r \in Sids, NEW restore \in BOOLEAN, NEW saved \in BOOLEAN, Stop(r, restore, saved)
      PROVE  Stays
  <2>1. r \in DOMAIN sessions /\ IsSession(sessions[r])
    BY <1>7 DEF Stop, Active, AllOK, SessionsOK
  <2> DEFINE results == IF saved THEN Snapshots(sessions[r], traffic) ELSE {sessions[r]}
  <2>2. PICK t \in results :
          \/ sessions' = [sessions EXCEPT ![r] = t]
          \/ sessions' = [sessions EXCEPT ![r] = Deactivated(t, saved)]
    BY <1>7 DEF Stop
  <2>3. IsSession(t) /\ (t.age = 0 \/ t.age = sessions[r].age)
    BY <1>1, <2>1, SnapshotFields, SnapshotType
  <2>4. Deactivated(t, saved).age = 0
    BY <2>3 DEF Deactivated, IsSession
  <2>5. QED
    BY <1>2, <2>1, <2>2, <2>3, <2>4
<1>8. ASSUME NEW r \in Sids, StopAgain(r) PROVE Stays
  <2>1. /\ r \in DOMAIN sessions
        /\ sessions' = [sessions EXCEPT ![r] = [sessions[r] EXCEPT !.told = TRUE]]
    BY <1>8 DEF StopAgain
  <2>2. [sessions[r] EXCEPT !.told = TRUE].age = sessions[r].age
    BY <2>1 DEF AllOK, SessionsOK, IsSession
  <2>3. QED
    BY <1>2, <2>1, <2>2
<1>9. ASSUME NEW outcome \in Outcomes, StopRecord(outcome) PROVE Stays
  <2>1. CASE outcome # "ok"
    BY <1>3, <1>9, <2>1 DEF StopRecord
  <2>2. CASE outcome = "ok" /\ op.sid \in DOMAIN sessions
    <3>1. sessions' = [sessions EXCEPT ![op.sid] = Deactivated(sessions[op.sid], op.saved)]
      BY <1>9, <2>2 DEF StopRecord
    <3>2. Deactivated(sessions[op.sid], op.saved).age = 0
      BY <2>2 DEF Deactivated, AllOK, SessionsOK, IsSession
    <3>3. QED
      BY <1>2, <3>1, <3>2
  <2>3. CASE outcome = "ok" /\ op.sid \notin DOMAIN sessions
    <3>1. sessions' = [sessions EXCEPT ![op.sid] = Deactivated(@, op.saved)] /\ s # op.sid
      BY <1>9, <2>3 DEF StopRecord
    <3>2. QED
      BY <1>1, <3>1
  <2>4. QED
    BY <2>1, <2>2, <2>3
<1>10. CASE Expire
  <2>1. PICK S \in SUBSET Stale : Forget(S)
    BY <1>10 DEF Expire, ExpireQuietly, ExpireRestoring, ExpireFails
  <2>2. s \in DOMAIN sessions' /\ sessions'[s] = sessions[s]
    BY <2>1, SessionsForgotten
  <2>3. QED
    BY <1>1, <2>2
<1>11. CASE \/ StartSteps /\ ~ StartSnapshot
            \/ TrafficChanges \/ UserToggles \/ UNCHANGED vars
            \/ \E r \in Sids, reset, start \in BOOLEAN : Start(r, reset, start)
            \/ \E c \in DOMAIN store : DeleteCapture(c)
  <2>1. sessions' = sessions
    BY <1>11
    DEF StartSteps, Start, StartClear, StartRecord, StartRollback, StartSnapshotFails,
        DeleteCapture, TrafficChanges, NewRequests, Response, UserRemoves, UserClears,
        UserToggles, serverVars, vars
  <2>2. QED
    BY <1>3, <2>1
<1>12. QED
  BY <1>4, <1>5, <1>6, <1>7, <1>8, <1>9, <1>10, <1>11 DEF Others, Requests, StopSteps

(* While a Start of proxy_by_time runs it holds the mutex, and its session *)
(* is as young as the wait is long when the wait begins.                   *)
StartingOK(c) ==
  calls[c].at = "starting" =>
    op.at \in StartStages /\ op.sid = calls[c].sid /\ calls[c].left = Duration

WaitingOK(c) ==
  calls[c].at = "waiting" =>
    /\ calls[c].sid \in DOMAIN sessions
    /\ sessions[calls[c].sid].age + calls[c].left <= Duration

TimedOK == \A c \in Clients : StartingOK(c) /\ WaitingOK(c)

(* A step of a Start leaves it running or ends it, with a new session if   *)
(* it did its first snapshot.                                              *)
LEMMA StartGoesOn ==
  ASSUME AllOK, StartSteps
  PROVE  /\ op'.at \in StartStages => op'.sid = op.sid
         /\ op' = Idle \/ op'.at \in StartStages
         /\ \/ DOMAIN sessions' = DOMAIN sessions
            \/ /\ op.sid \in DOMAIN sessions'
               /\ sessions'[op.sid].age = 0
<1>1. op.at \in StartStages => op \in [at : StartStages, sid : Sids, started : BOOLEAN]
  BY DEF AllOK, ManagerOK, Operations, Idle, StartStages
<1>2. ASSUME NEW outcome \in Outcomes,
             StartClear(outcome) \/ StartRecord(outcome) \/ StartRollback(outcome) \/ StartSnapshotFails
      PROVE  /\ sessions' = sessions
             /\ op' = Idle \/ \E at \in StartStages : op' = [op EXCEPT !.at = at]
             /\ op.at \in StartStages
  BY <1>2 DEF StartClear, StartRecord, StartRollback, StartSnapshotFails, StartStages
<1>3. ASSUME NEW at \in StartStages, op.at \in StartStages, op' = [op EXCEPT !.at = at]
      PROVE  op'.at \in StartStages /\ op'.sid = op.sid
  BY <1>1, <1>3
<1>4. Idle.at \notin StartStages
  BY DEF Idle, StartStages
<1>5. CASE StartSnapshot
  <2>1. PICK t \in Snapshots(NewSession, traffic) : sessions' = Put(sessions, op.sid, t)
    BY <1>5 DEF StartSnapshot
  <2>2. t.age = 0
    <3>1. IsSession(NewSession) /\ traffic \in Seq(Transaction)
      BY NewSessionFacts DEF AllOK, CharlesOK
    <3>2. QED
      BY <3>1, SnapshotFields
  <2>3. op.sid \in DOMAIN sessions' /\ sessions'[op.sid] = t
    BY <2>1 DEF Put
  <2>4. QED
    BY <1>4, <1>5, <2>2, <2>3 DEF StartSnapshot
<1>6. "ok" \in Outcomes
  BY DEF Outcomes
<1>7. QED
  BY <1>2, <1>3, <1>4, <1>5, <1>6 DEF StartSteps
LEMMA WaitingStays ==
  ASSUME Duration < TTL, ToolTypes, NEW c \in Clients, WaitingOK(c),
         StartSteps \/ StopSteps \/ Others \/ UNCHANGED vars,
         calls'[c].at = "waiting" =>
           /\ calls[c].at = "waiting" /\ calls'[c].sid = calls[c].sid
           /\ calls'[c].left \in 0..calls[c].left
  PROVE  WaitingOK(c)'
<1> SUFFICES ASSUME calls'[c].at = "waiting"
             PROVE  /\ calls'[c].sid \in DOMAIN sessions'
                    /\ sessions'[calls'[c].sid].age + calls'[c].left <= Duration
  BY DEF WaitingOK
<1> DEFINE s == calls[c].sid
<1>1. s \in DOMAIN sessions /\ sessions[s].age + calls[c].left <= Duration
  BY DEF WaitingOK
<1>2. calls[c].left \in Nat
  BY DurationAssumption DEF ToolTypes, CallsTyped, ToolCalls, NoCall
<1>3. sessions[s].age \in Nat
  BY <1>1 DEF ToolTypes, AllOK, SessionsOK, IsSession
<1>4. s \notin Stale
  BY <1>1, <1>2, <1>3, ConstantsAssumption, DurationAssumption DEF Stale
<1>5. s \in DOMAIN sessions' /\ sessions'[s].age <= sessions[s].age
  BY <1>1, <1>4, SessionsStay DEF ToolTypes
<1>6. sessions'[s].age \in Nat
  <2>1. UNCHANGED vars \/ [Next]_vars
    BY DEF Others, Next, QuietNext, World
  <2>2. AllOK'
    BY <2>1, TypeNext DEF ToolTypes
  <2>3. QED
    BY <1>5, <2>2 DEF AllOK, SessionsOK, IsSession
<1>7. QED
  BY <1>1, <1>2, <1>3, <1>5, <1>6, DurationAssumption

LEMMA StartingStays ==
  ASSUME NEW c \in Clients, StartingOK(c), op' = op, calls'[c] = calls[c]
  PROVE  StartingOK(c)'
  BY DEF StartingOK

(* Whoever takes the mutex finds no Start running. *)
LEMMA NoneStarting ==
  ASSUME NEW c \in Clients, StartingOK(c), op = Idle
  PROVE  calls[c].at # "starting"
  BY DEF StartingOK, Idle, StartStages

LEMMA TimedInit == ToolInit => TimedOK
  BY DEF ToolInit, TimedOK, StartingOK, WaitingOK, NoCall

(* The client that acts, and the clients that wait while it does. *)
LEMMA TimedTools ==
  ASSUME Duration < TTL, ToolTypes, TimedOK, Tools
  PROVE  TimedOK'
<1> SUFFICES ASSUME NEW c \in Clients PROVE StartingOK(c)' /\ WaitingOK(c)'
  BY DEF TimedOK
<1>1. StartingOK(c) /\ WaitingOK(c) /\ calls \in [Clients -> ToolCalls]
  BY DEF TimedOK, ToolTypes, CallsTyped
<1>2. ASSUME NEW d \in Clients, NEW action \in ResetActions, ResetCheck(d, action)
      PROVE  StartingOK(c)' /\ WaitingOK(c)'
  <2>1. UNCHANGED vars /\ calls' = [calls EXCEPT ![d] = [at |-> "reset", action |-> action]]
    BY <1>2 DEF ResetCheck
  <2>2. calls'[c] = calls[c] \/ calls'[c].at = "reset"
    BY <1>1, <2>1
  <2>3. QED
    BY <1>1, <2>1, <2>2 DEF StartingOK, WaitingOK, vars
<1>3. ASSUME NEW d \in Clients, NEW outcome \in Outcomes, ResetAct(d, outcome)
      PROVE  StartingOK(c)' /\ WaitingOK(c)'
  <2>1. UNCHANGED serverVars /\ calls' = [calls EXCEPT ![d] = NoCall]
    BY <1>3 DEF ResetAct
  <2>2. calls'[c] = calls[c] \/ calls'[c] = NoCall
    BY <1>1, <2>1
  <2>3. QED
    BY <1>1, <2>1, <2>2 DEF StartingOK, WaitingOK, serverVars, NoCall
<1>4. ASSUME NEW d \in Clients, NEW s \in Sids, NEW reset \in BOOLEAN, NEW start \in BOOLEAN,
             TimedStart(d, s, reset, start)
      PROVE  StartingOK(c)' /\ WaitingOK(c)'
  <2>1. /\ op = Idle /\ sessions' = sessions
        /\ op'.at \in StartStages /\ op'.sid = s
        /\ calls' = [calls EXCEPT ![d] = [at |-> "starting", sid |-> s, left |-> Duration]]
    BY <1>4 DEF TimedStart, Start, StartStages
  <2>2. CASE c = d
    <3>1. calls'[c] = [at |-> "starting", sid |-> s, left |-> Duration]
      BY <1>1, <2>1, <2>2
    <3>2. QED
      BY <2>1, <3>1 DEF StartingOK, WaitingOK
  <2>3. CASE c # d
    <3>1. calls'[c] = calls[c] /\ calls[c].at # "starting"
      BY <1>1, <2>1, <2>3, NoneStarting
    <3>2. QED
      BY <1>1, <2>1, <3>1 DEF StartingOK, WaitingOK
  <2>4. QED
    BY <2>2, <2>3
<1>5. ASSUME NEW d \in Clients, Cancel(d) PROVE StartingOK(c)' /\ WaitingOK(c)'
  <2>1. /\ calls[d].at = "waiting" /\ UNCHANGED vars
        /\ calls' = [calls EXCEPT ![d] = [calls[d] EXCEPT !.left = 0]]
    BY <1>5 DEF Cancel
  <2>2. /\ calls[d] \in [at : {"starting", "waiting", "stopping"}, sid : Sids, left : 0..Duration]
        /\ calls[d].left \in Nat
    BY <2>1, DurationAssumption DEF ToolTypes, CallsTyped, ToolCalls, NoCall
  <2>3. CASE c = d
    <3>1. /\ calls'[c].at = "waiting" /\ calls'[c].sid = calls[c].sid
          /\ calls'[c].left \in 0..calls[c].left
      BY <1>1, <2>1, <2>2, <2>3
    <3>2. QED
      BY <1>1, <2>1, <2>3, <3>1, WaitingStays DEF StartingOK
  <2>4. CASE c # d
    BY <1>1, <2>1, <2>4 DEF StartingOK, WaitingOK, vars
  <2>5. QED
    BY <2>3, <2>4
<1>6. ASSUME NEW d \in Clients, NEW saved \in BOOLEAN, TimedStop(d, saved)
      PROVE  StartingOK(c)' /\ WaitingOK(c)'
  <2> DEFINE stopping == [calls[d] EXCEPT !.at = "stopping"]
  <2>1. /\ calls[d].at = "waiting" /\ op = Idle
        /\ \/ calls' = [calls EXCEPT ![d] = NoCall]
           \/ calls' = [calls EXCEPT ![d] = stopping]
    BY <1>6 DEF TimedStop, Due
  <2>2. Others \/ UNCHANGED vars
    <3>1. calls[d].sid \in DOMAIN sessions => calls[d].sid \in Sids
      BY DEF ToolTypes, AllOK, SessionsOK
    <3>2. CASE Stop(calls[d].sid, TRUE, saved)
      <4>1. calls[d].sid \in Sids
        BY <3>1, <3>2 DEF Stop, Active
      <4>2. QED
        BY <3>2, <4>1 DEF Others, Requests
    <3>3. CASE StopAgain(calls[d].sid)
      <4>1. calls[d].sid \in Sids
        BY <3>1, <3>3 DEF StopAgain
      <4>2. QED
        BY <3>3, <4>1 DEF Others, Requests
    <3>4. QED
      BY <1>6, <3>2, <3>3 DEF TimedStop
  <2>3. stopping.at = "stopping"
    BY <2>1 DEF ToolTypes, CallsTyped, ToolCalls, NoCall
  <2> HIDE DEF stopping
  <2>4. CASE c = d
    <3>1. calls'[c] = NoCall \/ calls'[c] = stopping
      BY <1>1, <2>1, <2>4
    <3>2. calls'[c].at = "none" \/ calls'[c].at = "stopping"
      BY <2>3, <3>1 DEF NoCall
    <3>3. QED
      BY <3>2 DEF StartingOK, WaitingOK
  <2>5. CASE c # d
    <3>1. calls'[c] = calls[c] /\ calls[c].at # "starting"
      BY <1>1, <2>1, <2>5, NoneStarting
    <3>2. calls[c].at = "waiting" => calls[c].left \in 0..calls[c].left
      BY DurationAssumption DEF ToolTypes, CallsTyped, ToolCalls, NoCall
    <3>3. WaitingOK(c)'
      BY <1>1, <2>2, <3>1, <3>2, WaitingStays
    <3>4. QED
      BY <3>1, <3>3 DEF StartingOK
  <2>6. QED
    BY <2>4, <2>5
<1>7. QED
  BY <1>2, <1>3, <1>4, <1>5, <1>6 DEF Tools, TimedSteps
LEMMA TimedReturned ==
  ASSUME Duration < TTL, ToolTypes, TimedOK, StartSteps \/ StopSteps, calls' = Returned
  PROVE  TimedOK'
<1> SUFFICES ASSUME NEW c \in Clients PROVE StartingOK(c)' /\ WaitingOK(c)'
  BY DEF TimedOK
<1>1. StartingOK(c) /\ WaitingOK(c) /\ calls[c] \in ToolCalls
  BY DEF TimedOK, ToolTypes, CallsTyped
<1>2. calls'[c] = IF calls[c].at \in {"starting", "stopping"} /\ op' = Idle
                    THEN IF calls[c].at = "starting" /\ calls[c].sid \in DOMAIN sessions'
                           THEN [calls[c] EXCEPT !.at = "waiting"] ELSE NoCall
                    ELSE calls[c]
  BY DEF Returned
<1>3. CASE calls[c].at = "waiting"
  <2>1. calls'[c] = calls[c] /\ calls[c].left \in 0..calls[c].left
    BY <1>1, <1>2, <1>3, DurationAssumption DEF ToolCalls, NoCall
  <2>2. QED
    BY <1>1, <1>3, <2>1, WaitingStays DEF StartingOK
<1>4. CASE calls[c].at = "starting"
  <2>1. /\ op.at \in StartStages /\ op.sid = calls[c].sid /\ calls[c].left = Duration
        /\ op.sid \notin DOMAIN sessions
    BY <1>1, <1>4 DEF StartingOK, ToolTypes, StartIsFresh
  <2>2. StartSteps
    BY <2>1 DEF StopSteps, StopRecord, StartStages
  <2>3. /\ op'.at \in StartStages => op'.sid = op.sid
        /\ op' = Idle \/ op'.at \in StartStages
        /\ \/ DOMAIN sessions' = DOMAIN sessions
           \/ /\ op.sid \in DOMAIN sessions'
              /\ sessions'[op.sid].age = 0
    BY <2>2, StartGoesOn DEF ToolTypes
  <2>4. CASE op' # Idle
    <3>1. calls'[c] = calls[c]
      BY <1>2, <2>4
    <3>2. QED
      BY <1>4, <2>1, <2>3, <2>4, <3>1 DEF StartingOK, WaitingOK
  <2>5. CASE op' = Idle /\ op.sid \in DOMAIN sessions'
    <3>1. calls'[c] = [calls[c] EXCEPT !.at = "waiting"]
      BY <1>2, <1>4, <2>1, <2>5
    <3>2. calls[c] \in [at : {"starting", "waiting", "stopping"}, sid : Sids, left : 0..Duration]
      BY <1>1, <1>4 DEF ToolCalls, NoCall
    <3>3. calls'[c].at = "waiting" /\ calls'[c].sid = op.sid /\ calls'[c].left = Duration
      BY <2>1, <3>1, <3>2
    <3>4. sessions'[op.sid].age = 0
      BY <2>1, <2>3, <2>5
    <3>5. QED
      BY <2>5, <3>3, <3>4, DurationAssumption DEF StartingOK, WaitingOK
  <2>6. CASE op' = Idle /\ op.sid \notin DOMAIN sessions'
    BY <1>2, <1>4, <2>1, <2>6 DEF StartingOK, WaitingOK, NoCall
  <2>7. QED
    BY <2>4, <2>5, <2>6
<1>5. CASE calls[c].at \notin {"waiting", "starting"}
  <2>1. calls'[c] \in {calls[c], NoCall}
    BY <1>2, <1>5
  <2>2. QED
    BY <1>5, <2>1 DEF StartingOK, WaitingOK, NoCall
<1>6. QED
  BY <1>3, <1>4, <1>5

LEMMA TimedTime ==
  ASSUME ToolTypes, TimedOK, Time
  PROVE  TimedOK'
<1> SUFFICES ASSUME NEW c \in Clients PROVE StartingOK(c)' /\ WaitingOK(c)'
  BY DEF TimedOK
<1>1. StartingOK(c) /\ WaitingOK(c) /\ calls[c] \in ToolCalls
  BY DEF TimedOK, ToolTypes, CallsTyped
<1>2. /\ calls'[c] = IF calls[c].at = "waiting" /\ calls[c].left > 0
                       THEN [calls[c] EXCEPT !.left = @ - 1] ELSE calls[c]
      /\ ~ Due(c) /\ op' = op
  BY DEF Time, TimersTick, Tick
<1>3. CASE calls[c].at = "waiting"
  <2> DEFINE s == calls[c].sid
  <2>1. /\ calls[c] \in [at : {"starting", "waiting", "stopping"}, sid : Sids, left : 0..Duration]
        /\ calls[c].left \in Nat /\ calls[c].left > 0
    BY <1>1, <1>2, <1>3, DurationAssumption DEF Due, ToolCalls, NoCall
  <2>2. calls'[c].at = "waiting" /\ calls'[c].sid = s /\ calls'[c].left = calls[c].left - 1
    BY <1>2, <1>3, <2>1
  <2>3. s \in DOMAIN sessions /\ sessions[s].age + calls[c].left <= Duration
    BY <1>1, <1>3 DEF WaitingOK
  <2>4. IsSession(sessions[s]) /\ sessions[s].age \in Nat
    BY <2>3 DEF ToolTypes, AllOK, SessionsOK, IsSession
  <2>5. s \in DOMAIN sessions' /\ sessions'[s].age \in {sessions[s].age, sessions[s].age + 1}
    <3>1. [sessions[s] EXCEPT !.age = @ + 1].age = sessions[s].age + 1
      BY <2>4 DEF IsSession
    <3>2. QED
      BY <2>3, <3>1 DEF Time, Tick
  <2>6. QED
    BY <2>1, <2>2, <2>3, <2>4, <2>5, DurationAssumption DEF StartingOK, WaitingOK
<1>4. CASE calls[c].at # "waiting"
  BY <1>1, <1>2, <1>4 DEF StartingOK, WaitingOK
<1>5. QED
  BY <1>3, <1>4

LEMMA TimedOthers ==
  ASSUME Duration < TTL, ToolTypes, TimedOK, Others, UNCHANGED calls
  PROVE  TimedOK'
<1> SUFFICES ASSUME NEW c \in Clients PROVE StartingOK(c)' /\ WaitingOK(c)'
  BY DEF TimedOK
<1>1. StartingOK(c) /\ WaitingOK(c) /\ calls[c] \in ToolCalls
  BY DEF TimedOK, ToolTypes, CallsTyped
<1>2. calls[c].at = "waiting" => calls[c].left \in 0..calls[c].left
  BY <1>1, DurationAssumption DEF ToolCalls, NoCall
<1>3. WaitingOK(c)'
  BY <1>1, <1>2, WaitingStays
<1>4. op = Idle \/ op' = op
  BY DEF Others, Expire, ExpireQuietly, ExpireRestoring, ExpireFails, Requests, Start, Read, Stop,
         Capture, StopAgain, DeleteCapture, UserToggles, TrafficChanges, NewRequests, Response,
         UserRemoves, UserClears, serverVars
<1>5. StartingOK(c)'
  BY <1>1, <1>4, NoneStarting DEF StartingOK
<1>6. QED
  BY <1>3, <1>5

LEMMA TimedNext ==
  ASSUME Duration < TTL, ToolTypes, TimedOK, [ToolNext]_toolVars
  PROVE  TimedOK'
<1>1. CASE Exit /\ calls' = [c \in Clients |-> NoCall]
  BY <1>1 DEF TimedOK, StartingOK, WaitingOK, NoCall
<1>2. CASE UNCHANGED toolVars
  BY <1>2 DEF toolVars, vars, TimedOK, StartingOK, WaitingOK
<1>3. QED
  BY <1>1, <1>2, TimedTools, TimedReturned, TimedTime, TimedOthers DEF ToolNext

(* The session of a proxy_by_time call is there until the call stops it,   *)
(* so that its capture is saved and recording restored: with a TTL above   *)
(* the duration, no other client, expiry or failure of Charles takes it.   *)
THEOREM TimedCallsFindTheirSession ==
  ASSUME Duration < TTL PROVE ToolSpec => []TimedCaptureKept
<1>1. ToolInit => ToolTypes /\ TimedOK
  BY ToolTypesInit, TimedInit
<1>2. ToolTypes /\ TimedOK /\ [ToolNext]_toolVars => ToolTypes' /\ TimedOK'
  BY ToolTypesNext, TimedNext
<1>3. TimedOK => TimedCaptureKept
  BY DEF TimedOK, WaitingOK, TimedCaptureKept
<1>4. QED
  BY <1>1, <1>2, <1>3, PTL DEF ToolSpec

(* A call that waits for its Stop is the one that has the mutex, and the   *)
(* recording is the manager's to restore until the Stop is over.           *)
StoppingOK(c) ==
  calls[c].at = "stopping" => op.at = "stop" /\ op.sid = calls[c].sid /\ owned

AllStoppingOK == \A c \in Clients : StoppingOK(c)

LEMMA NoneStopping ==
  ASSUME NEW c \in Clients, StoppingOK(c), op = Idle
  PROVE  calls[c].at # "stopping"
  BY DEF StoppingOK, Idle

LEMMA StoppingInit == ToolInit => AllStoppingOK
  BY DEF ToolInit, AllStoppingOK, StoppingOK, NoCall

LEMMA StoppingTools ==
  ASSUME ToolTypes, AllStoppingOK, Tools, NEW c \in Clients
  PROVE  StoppingOK(c)'
<1>1. StoppingOK(c) /\ calls \in [Clients -> ToolCalls] /\ calls[c] \in ToolCalls
  BY DEF AllStoppingOK, ToolTypes, CallsTyped
<1>2. ASSUME NEW d \in Clients, NEW action \in ResetActions, ResetCheck(d, action)
      PROVE  StoppingOK(c)'
  <2>1. calls'[c] = calls[c] \/ calls'[c].at = "reset"
    BY <1>1, <1>2 DEF ResetCheck
  <2>2. QED
    BY <1>1, <1>2, <2>1 DEF ResetCheck, StoppingOK, vars
<1>3. ASSUME NEW d \in Clients, NEW outcome \in Outcomes, ResetAct(d, outcome)
      PROVE  StoppingOK(c)'
  <2>1. calls'[c] = calls[c] \/ calls'[c] = NoCall
    BY <1>1, <1>3 DEF ResetAct
  <2>2. QED
    BY <1>1, <1>3, <2>1 DEF ResetAct, StoppingOK, serverVars, NoCall
<1>4. ASSUME NEW d \in Clients, NEW s \in Sids, NEW reset \in BOOLEAN, NEW start \in BOOLEAN,
             TimedStart(d, s, reset, start)
      PROVE  StoppingOK(c)'
  <2>1. calls'[c] = calls[c] \/ calls'[c].at = "starting"
    BY <1>1, <1>4 DEF TimedStart
  <2>2. calls[c].at # "stopping"
    BY <1>1, <1>4, NoneStopping DEF TimedStart, Start
  <2>3. QED
    BY <2>1, <2>2 DEF StoppingOK
<1>5. ASSUME NEW d \in Clients, Cancel(d) PROVE StoppingOK(c)'
  <2>1. calls'[d] = [calls[d] EXCEPT !.left = 0] /\ calls[d].at = "waiting"
    BY <1>1, <1>5 DEF Cancel
  <2>2. calls'[d].at = "waiting"
    BY <1>1, <2>1 DEF ToolCalls, NoCall
  <2>3. c # d => calls'[c] = calls[c]
    BY <1>5 DEF Cancel
  <2>4. QED
    BY <1>1, <1>5, <2>2, <2>3 DEF Cancel, StoppingOK, vars
<1>6. ASSUME NEW d \in Clients, NEW saved \in BOOLEAN, TimedStop(d, saved)
      PROVE  StoppingOK(c)'
  <2>1. op = Idle /\ calls[c].at # "stopping"
    BY <1>1, <1>6, NoneStopping DEF TimedStop
  <2>2. CASE c # d
    BY <1>6, <2>1, <2>2 DEF TimedStop, StoppingOK
  <2>3. CASE c = d /\ op' = Idle
    BY <1>1, <1>6, <2>3 DEF TimedStop, StoppingOK, NoCall
  <2>4. CASE c = d /\ op' # Idle
    <3>1. Stop(calls[c].sid, TRUE, saved)
      BY <1>6, <2>1, <2>4 DEF TimedStop, StopAgain, vars
    <3>2. calls[c].sid \in Sids
      BY <3>1 DEF Stop, Active, ToolTypes, AllOK, SessionsOK
    <3>3. op' = [at |-> "stop", sid |-> calls[c].sid, saved |-> saved] /\ owned
      BY <2>4, <3>1, <3>2, StopActive DEF ToolTypes
    <3>4. owned'
      BY <3>1, <3>3 DEF Stop
    <3>5. calls' = [calls EXCEPT ![c] = [calls[c] EXCEPT !.at = "stopping"]]
      BY <1>6, <2>4 DEF TimedStop
    <3>6. calls'[c].sid = calls[c].sid
      BY <1>1, <3>5
    <3>7. QED
      BY <3>3, <3>4, <3>6 DEF StoppingOK
  <2>5. QED
    BY <2>2, <2>3, <2>4
<1>7. QED
  BY <1>2, <1>3, <1>4, <1>5, <1>6 DEF Tools, TimedSteps

LEMMA StoppingNext ==
  ASSUME ToolTypes, AllStoppingOK, [ToolNext]_toolVars
  PROVE  AllStoppingOK'
<1> SUFFICES ASSUME NEW c \in Clients PROVE StoppingOK(c)'
  BY DEF AllStoppingOK
<1>1. StoppingOK(c) /\ calls[c] \in ToolCalls
  BY DEF AllStoppingOK, ToolTypes, CallsTyped
<1>2. CASE Tools
  BY <1>2, StoppingTools
<1>3. CASE (StartSteps \/ StopSteps) /\ calls' = Returned
  <2>1. calls'[c] = IF calls[c].at \in {"starting", "stopping"} /\ op' = Idle
                      THEN IF calls[c].at = "starting" /\ calls[c].sid \in DOMAIN sessions'
                             THEN [calls[c] EXCEPT !.at = "waiting"] ELSE NoCall
                      ELSE calls[c]
    BY <1>3 DEF Returned
  <2>2. CASE calls[c].at = "stopping"
    <3>1. op.at = "stop"
      BY <1>1, <2>2 DEF StoppingOK
    <3>2. op' = Idle
      BY <1>3, <3>1 DEF StartSteps, StartClear, StartRecord, StartRollback, StartSnapshot,
         StartSnapshotFails, StopSteps, StopRecord
    <3>3. QED
      BY <2>1, <2>2, <3>2 DEF StoppingOK, NoCall
  <2>3. CASE calls[c].at # "stopping"
    <3>1. calls[c].at = "starting" => [calls[c] EXCEPT !.at = "waiting"].at = "waiting"
      BY <1>1 DEF ToolCalls, NoCall
    <3>2. calls'[c].at # "stopping"
      BY <2>1, <2>3, <3>1 DEF NoCall
    <3>3. QED
      BY <3>2 DEF StoppingOK
  <2>4. QED
    BY <2>2, <2>3
<1>4. CASE Others /\ UNCHANGED calls
  <2>1. op = Idle \/ UNCHANGED serverVars
    BY <1>4
    DEF Others, Expire, ExpireQuietly, ExpireRestoring, ExpireFails, Requests, Start, Read, Stop,
        Capture, StopAgain, DeleteCapture, UserToggles, TrafficChanges, NewRequests, Response,
        UserRemoves, UserClears
  <2>2. QED
    BY <1>1, <1>4, <2>1, NoneStopping DEF StoppingOK, serverVars
<1>5. CASE Time
  <2>1. calls'[c] = calls[c] \/ calls'[c] = [calls[c] EXCEPT !.left = @ - 1]
    BY <1>5 DEF Time, TimersTick
  <2>2. calls'[c].at = calls[c].at /\ (calls[c].at = "stopping" => calls'[c].sid = calls[c].sid)
    BY <1>1, <2>1 DEF ToolCalls, NoCall
  <2>3. QED
    BY <1>1, <1>5, <2>2 DEF Time, Tick, StoppingOK
<1>6. CASE Exit /\ calls' = [d \in Clients |-> NoCall]
  BY <1>6 DEF StoppingOK, NoCall
<1>7. CASE UNCHANGED toolVars
  BY <1>1, <1>7 DEF toolVars, vars, StoppingOK
<1>8. QED
  BY <1>2, <1>3, <1>4, <1>5, <1>6, <1>7 DEF ToolNext

(* A call that returns from its wait with its Stop done at once.           *)
LEMMA ReturnFromWait ==
  ASSUME ToolTypes, ToolNext, NEW c \in Clients,
         calls[c].at = "waiting", calls'[c] = NoCall, ~ Exit
  PROVE  calls[c].sid \notin Active'
<1>1. calls \in [Clients -> ToolCalls] /\ calls'[c] # calls[c] /\ calls'[c].at = "none"
  BY DEF ToolTypes, CallsTyped, NoCall
<1>2. calls[c] \in [at : {"starting", "waiting", "stopping"}, sid : Sids, left : 0..Duration]
  BY <1>1 DEF ToolCalls, NoCall
<1>3. PICK saved \in BOOLEAN : TimedStop(c, saved)
  <2>1. ASSUME NEW d \in Clients, NEW action \in ResetActions, ResetCheck(d, action) PROVE FALSE
    BY <1>1, <2>1 DEF ResetCheck, Free, NoCall
  <2>2. ASSUME NEW d \in Clients, NEW outcome \in Outcomes, ResetAct(d, outcome) PROVE FALSE
    BY <1>1, <2>2 DEF ResetAct
  <2>3. ASSUME NEW d \in Clients, NEW s \in Sids, NEW reset \in BOOLEAN, NEW start \in BOOLEAN,
               TimedStart(d, s, reset, start)
        PROVE  FALSE
    BY <1>1, <2>3 DEF TimedStart, Free, NoCall
  <2>4. ASSUME NEW d \in Clients, Cancel(d) PROVE FALSE
    <3>1. calls'[c] = [calls[c] EXCEPT !.left = 0]
      BY <1>1, <2>4 DEF Cancel
    <3>2. QED
      BY <1>1, <1>2, <3>1
  <2>5. ASSUME NEW d \in Clients, d # c, NEW saved \in BOOLEAN, TimedStop(d, saved) PROVE FALSE
    BY <1>1, <2>5 DEF TimedStop
  <2>6. CASE (StartSteps \/ StopSteps) /\ calls' = Returned
    BY <1>1, <2>6 DEF Returned
  <2>7. CASE Time
    <3>1. calls'[c] \in {calls[c], [calls[c] EXCEPT !.left = @ - 1]}
      BY <2>7 DEF Time, TimersTick
    <3>2. QED
      BY <1>1, <1>2, <3>1
  <2>8. CASE Others /\ UNCHANGED calls
    BY <1>1, <2>8
  <2>9. QED
    BY <2>1, <2>2, <2>3, <2>4, <2>5, <2>6, <2>7, <2>8 DEF ToolNext, Tools, TimedSteps
<1>4. op' = Idle
  <2>1. [calls[c] EXCEPT !.at = "stopping"] # NoCall
    BY <1>2 DEF NoCall
  <2>2. QED
    BY <1>1, <1>3, <2>1 DEF TimedStop
<1>5. CASE Stop(calls[c].sid, TRUE, saved)
  <2>1. Active' = Active \ {calls[c].sid}
    BY <1>2, <1>4, <1>5, StopActive DEF ToolTypes, Idle
  <2>2. QED
    BY <2>1
<1>6. CASE StopAgain(calls[c].sid)
  <2>1. Active' = Active
    BY <1>2, <1>6, ReadKeepsActive DEF ToolTypes
  <2>2. QED
    BY <1>6, <2>1 DEF StopAgain
<1>7. CASE calls[c].sid \notin DOMAIN sessions /\ UNCHANGED vars
  BY <1>7 DEF vars, Active
<1>8. QED
  BY <1>3, <1>5, <1>6, <1>7 DEF TimedStop

(* A call that returns from its Stop ended it, or has its session still    *)
(* active because Charles failed.                                          *)
LEMMA ReturnFromStop ==
  ASSUME ToolTypes, ToolNext, NEW c \in Clients, StoppingOK(c),
         calls[c].at = "stopping", calls'[c] = NoCall, ~ Exit
  PROVE  calls[c].sid \notin Active' \/ (RestoreFails /\ owned')
<1>1. /\ op.at = "stop" /\ op.sid = calls[c].sid /\ owned
      /\ calls \in [Clients -> ToolCalls] /\ calls[c] \in ToolCalls
  BY DEF StoppingOK, ToolTypes, CallsTyped
<1>2. calls'[c] # calls[c] /\ op # Idle
  BY <1>1 DEF NoCall, Idle
<1>3. (StartSteps \/ StopSteps) /\ calls' = Returned
  <2>1. ASSUME Tools PROVE FALSE
    <3>1. PICK d \in Clients, outcome \in Outcomes : ResetAct(d, outcome) \/ Cancel(d)
      BY <1>2, <2>1 DEF Tools, ResetCheck, TimedStart, Start, TimedSteps, TimedStop, Outcomes
    <3>2. c # d
      BY <3>1 DEF ResetAct, Cancel
    <3>3. QED
      BY <1>1, <1>2, <3>1, <3>2 DEF ResetAct, Cancel
  <2>2. ASSUME Time PROVE FALSE
    BY <1>2, <2>2 DEF Time, TimersTick
  <2>3. QED
    BY <1>2, <2>1, <2>2 DEF ToolNext
<1>4. PICK outcome \in Outcomes : StopRecord(outcome)
  BY <1>1, <1>3 DEF StartSteps, StartClear, StartRecord, StartRollback, StartSnapshot,
     StartSnapshotFails, StopSteps
<1>5. CASE outcome = "ok"
  <2>1. sessions' = [sessions EXCEPT ![op.sid] = Deactivated(@, op.saved)]
    BY <1>4, <1>5 DEF StopRecord
  <2>2. op.sid \in DOMAIN sessions => ~ Deactivated(sessions[op.sid], op.saved).active
    BY DEF Deactivated, ToolTypes, AllOK, SessionsOK, IsSession
  <2>3. QED
    BY <1>1, <2>1, <2>2 DEF Active
<1>6. CASE outcome # "ok"
  BY <1>1, <1>4, <1>6 DEF StopRecord, RestoreFails
<1>7. QED
  BY <1>5, <1>6

(* proxy_by_time does not return with its session still active, unless     *)
(* Charles failed the call that restores recording; the recording is then  *)
(* still the manager's to restore.                                         *)
THEOREM TimedCallsStopTheirSession == ToolSpec => TimedCallStops
<1> DEFINE Stops == \A c \in Clients :
             calls[c].at \in {"waiting", "stopping"} /\ calls'[c] = NoCall /\ ~ Exit =>
               \/ calls[c].sid \notin Active'
               \/ RestoreFails /\ owned'
<1>1. ToolTypes /\ AllStoppingOK /\ [ToolNext]_toolVars => [Stops]_toolVars
  BY ReturnFromWait, ReturnFromStop DEF AllStoppingOK
<1>2. ToolTypes /\ AllStoppingOK /\ [ToolNext]_toolVars => ToolTypes' /\ AllStoppingOK'
  BY ToolTypesNext, StoppingNext
<1>3. QED
  BY <1>1, <1>2, ToolTypesInit, StoppingInit, PTL DEF ToolSpec, TimedCallStops
=============================================================================
