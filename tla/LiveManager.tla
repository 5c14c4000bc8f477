---------------------------- MODULE LiveManager ----------------------------
(***************************************************************************)
(* The live captures of one server process (live.go) with what they act    *)
(* on: the Charles proxy, whose recording switch and session the user also *)
(* drives, and the rows of the captures in SQLite (store.go).              *)
(*                                                                         *)
(* Every operation of LiveManager holds its mutex from beginning to end,   *)
(* the HTTP calls to Charles included.  An operation with at most one call *)
(* that changes Charles is one action; Start and Stop are split at their   *)
(* calls, and op says which of them holds the mutex and where it is, so    *)
(* that the user, new traffic, the clock and a crash come between.         *)
(***************************************************************************)
EXTENDS LiveSession

CONSTANTS
  Sids,        \* session IDs; the capture of a session has the same name
  Queries,     \* the filters a client reads with, each a set of contents
  Limits,      \* the page limits a client asks for
  TTL,         \* ticks without a snapshot after which a session is stale
  MaxClock,    \* bound: events that change the traffic
  MaxTraffic,  \* bound: transactions in the Charles session
  MaxBurst     \* bound: equal requests sent in one millisecond

ASSUME ConstantsAssumption ==
  /\ Limits \subseteq Nat \ {0}
  /\ TTL \in Nat \ {0}
  /\ MaxClock \in Nat
  /\ MaxTraffic \in Nat
  /\ MaxBurst \in Nat

VARIABLES
  recorder,  \* Charles: "off", or who turned recording on
  traffic,   \* Charles: the transactions of its session, in order
  clock,     \* Charles: the stamps given so far
  sessions,  \* LiveManager.sessions
  owned,     \* LiveManager.ownedRecording
  op,        \* the operation that holds LiveManager.mu between two steps
  store,     \* the captures in SQLite: the rows of each, by entry ID
  leftBy,    \* history: how a recording the server started lost its owner
  stranded   \* history: ownership outlived a Start that failed

charlesVars == <<recorder, traffic, clock>>
historyVars == <<leftBy, stranded>>
vars == <<recorder, traffic, clock, sessions, owned, op, store, leftBy, stranded>>

----------------------------------------------------------------------------
Idle == [at |-> "idle"]

StartStages == {"clear", "record", "snapshot", "rollback"}

Operations ==
  {Idle}
    \cup [at : StartStages, sid : Sids, started : BOOLEAN]
    \cup [at : {"stop"}, sid : Sids, saved : BOOLEAN]

(* What an HTTP call to Charles comes to: it answers; it fails before      *)
(* Charles acts; Charles acts but the answer is lost or late, an error too.*)
Outcomes == {"ok", "refused", "lost"}

NoSessions == [s \in {} |-> NewSession]
NoCaptures == [s \in {} |-> NoEntries]

Active == {s \in DOMAIN sessions : sessions[s].active}

(* Fault: active sessions never count as stale. *)
StaleStopped == {s \in DOMAIN sessions : sessions[s].age >= TTL /\ ~ sessions[s].active}

Stale == {s \in DOMAIN sessions : sessions[s].age >= TTL}

Rows(c) == IF c \in DOMAIN store THEN store[c] ELSE NoEntries

Put(f, x, v) == [y \in DOMAIN f \cup {x} |-> IF y = x THEN v ELSE f[y]]
Keep(f, S) == [y \in DOMAIN f \cap S |-> f[y]]

(* The recording switch is set to r; why is how the server lets go of it.  *)
SetRecorder(r, why) ==
  /\ recorder' = r
  /\ leftBy' = IF r = "server" THEN leftBy \cup why ELSE {}

(* /recording/start and /recording/stop do nothing when already there.     *)
RecordOn(outcome) ==
  SetRecorder(IF outcome # "refused" /\ recorder = "off" THEN "server" ELSE recorder,
              IF outcome = "lost" THEN {"lost start"} ELSE {})

RecordOff(outcome) ==
  SetRecorder(IF outcome = "refused" THEN recorder ELSE "off", {})

(* ownedRecording is cleared; what had stranded it goes with it. *)
Disown == owned' = FALSE /\ stranded' = FALSE

Save(s, before) == store' = Put(store, s, Upsert(Rows(s), before, traffic))

----------------------------------------------------------------------------
(* Start *)

(* Fault: Start claims a recording that already runs. *)
StartClaiming(s, reset, start) ==
  /\ op = Idle
  /\ s \notin DOMAIN sessions \cup DOMAIN store
  /\ reset => Active = {}
  /\ op' = [at |-> IF reset THEN "clear" ELSE IF start THEN "record" ELSE "snapshot",
            sid |-> s, started |-> start]
  /\ UNCHANGED <<charlesVars, sessions, owned, store, historyVars>>

(* Start up to the status page: a reset is refused while a session is      *)
(* active, and the status decides whether Start will turn recording on.    *)
Start(s, reset, start) ==
  /\ op = Idle
  /\ s \notin DOMAIN sessions \cup DOMAIN store
  /\ reset => Active = {}
  /\ LET started == recorder = "off" /\ start IN
     op' = [at |-> IF reset THEN "clear" ELSE IF started THEN "record" ELSE "snapshot",
            sid |-> s, started |-> started]
  /\ UNCHANGED <<charlesVars, sessions, owned, store, historyVars>>

StartClear(outcome) ==
  /\ op.at = "clear"
  /\ traffic' = IF outcome = "refused" THEN traffic ELSE <<>>
  /\ op' = IF outcome = "ok"
             THEN [op EXCEPT !.at = IF op.started THEN "record" ELSE "snapshot"]
             ELSE Idle
  /\ UNCHANGED <<recorder, clock, sessions, owned, store, historyVars>>

StartRecord(outcome) ==
  /\ op.at = "record"
  /\ RecordOn(outcome)
  /\ IF outcome = "ok"
       THEN owned' = TRUE /\ op' = [op EXCEPT !.at = "snapshot"]
       ELSE op' = Idle /\ UNCHANGED owned
  /\ UNCHANGED <<traffic, clock, sessions, store, stranded>>

StartSnapshot ==
  /\ op.at = "snapshot"
  /\ \E t \in Snapshots(NewSession, traffic) : sessions' = Put(sessions, op.sid, t)
  /\ Save(op.sid, NewSession)
  /\ op' = Idle
  /\ UNCHANGED <<charlesVars, owned, historyVars>>

(* Fault: a failed first snapshot is not rolled back. *)
StartGivesUp ==
  /\ op.at = "snapshot"
  /\ op' = Idle
  /\ UNCHANGED <<charlesVars, sessions, owned, store, historyVars>>

(* The export cannot be fetched or parsed, or the transaction fails. *)
StartSnapshotFails ==
  /\ op.at = "snapshot"
  /\ op' = IF op.started /\ Active = {} THEN [op EXCEPT !.at = "rollback"] ELSE Idle
  /\ UNCHANGED <<charlesVars, sessions, owned, store, historyVars>>

(* Fault: ownership ends although the rollback failed. *)
RollbackDisowns(outcome) ==
  /\ op.at = "rollback"
  /\ RecordOff(outcome)
  /\ Disown
  /\ op' = Idle
  /\ UNCHANGED <<traffic, clock, sessions, store>>

StartRollback(outcome) ==
  /\ op.at = "rollback"
  /\ RecordOff(outcome)
  /\ IF outcome = "ok" THEN Disown ELSE stranded' = TRUE /\ UNCHANGED owned
  /\ op' = Idle
  /\ UNCHANGED <<traffic, clock, sessions, store>>

----------------------------------------------------------------------------
(* Read, Capture, DeleteCapture *)

(* A read, or a peek when advance is FALSE.  A failed snapshot ends both   *)
(* without a change, as it ends Capture.                                   *)
Read(s, query, limit, advance) ==
  /\ op = Idle
  /\ s \in Active
  /\ \E t \in Snapshots(sessions[s], traffic) : \E c \in PageEnds(t, query, limit) :
       sessions' = [sessions EXCEPT ![s] = IF advance THEN Advance(t, c) ELSE t]
  /\ Save(s, sessions[s])
  /\ UNCHANGED <<charlesVars, owned, op, historyVars>>

(* Capture with refresh, the way the query tools reach a live session. *)
Capture(s) ==
  /\ op = Idle
  /\ s \in Active
  /\ \E t \in Snapshots(sessions[s], traffic) : sessions' = [sessions EXCEPT ![s] = t]
  /\ Save(s, sessions[s])
  /\ UNCHANGED <<charlesVars, owned, op, historyVars>>

DeleteCapture(c) ==
  /\ op = Idle
  /\ c \in DOMAIN store
  /\ c \notin Active
  /\ store' = Keep(store, DOMAIN store \ {c})
  /\ UNCHANGED <<charlesVars, sessions, owned, op, historyVars>>

----------------------------------------------------------------------------
(* Stop *)

Deactivated(t, saved) ==
  [t EXCEPT !.active = FALSE, !.age = 0,
            !.final = IF saved THEN "saved" ELSE "missed", !.told = saved]

(* The final snapshot, whose failure is remembered, then stop.  Recording  *)
(* has to be restored only by the last active session of an owner; giving  *)
(* the recording up on request needs no call.                              *)
Stop(s, restore, saved) ==
  /\ op = Idle
  /\ s \in Active
  /\ LET last == Active = {s} IN
     /\ \E t \in IF saved THEN Snapshots(sessions[s], traffic) ELSE {sessions[s]} :
          IF last /\ owned /\ restore
            THEN /\ sessions' = [sessions EXCEPT ![s] = t]
                 /\ op' = [at |-> "stop", sid |-> s, saved |-> saved]
            ELSE /\ sessions' = [sessions EXCEPT ![s] = Deactivated(t, saved)]
                 /\ op' = Idle
     /\ IF saved THEN Save(s, sessions[s]) ELSE UNCHANGED store
     /\ IF last /\ ~ restore
          THEN Disown /\ SetRecorder(recorder, {"kept on request"})
          ELSE UNCHANGED <<owned, stranded, recorder, leftBy>>
  /\ UNCHANGED <<traffic, clock>>

(* Fault: the recording is given up although the call that restores it     *)
(* failed.                                                                 *)
StopRecordDisowns(outcome) ==
  /\ op.at = "stop"
  /\ RecordOff(outcome)
  /\ Disown
  /\ IF outcome = "ok"
       THEN sessions' = [sessions EXCEPT ![op.sid] = Deactivated(@, op.saved)]
       ELSE UNCHANGED sessions
  /\ op' = Idle
  /\ UNCHANGED <<traffic, clock, store>>

(* The call that restores recording; its failure leaves the session active.*)
StopRecord(outcome) ==
  /\ op.at = "stop"
  /\ RecordOff(outcome)
  /\ IF outcome = "ok"
       THEN /\ Disown
            /\ sessions' = [sessions EXCEPT ![op.sid] = Deactivated(@, op.saved)]
       ELSE UNCHANGED <<owned, stranded, sessions>>
  /\ op' = Idle
  /\ UNCHANGED <<traffic, clock, store>>

(* Stop of a session that is no longer active answers without an error. *)
StopAgain(s) ==
  /\ op = Idle
  /\ s \in DOMAIN sessions \ Active
  /\ sessions' = [sessions EXCEPT ![s].told = TRUE]
  /\ UNCHANGED <<charlesVars, owned, op, store, historyVars>>

----------------------------------------------------------------------------
(* Expire, run by the ticker *)

(* Fault: any active session that expires restores recording. *)
AnyExpiryRestores == owned /\ Active \cap Stale # {}

(* Only the stop of the last active session can call Charles. *)
ExpireRestores == owned /\ Active # {} /\ Active \subseteq Stale

Forget(S) == sessions' = Keep(sessions, DOMAIN sessions \ S)

ExpireQuietly ==
  /\ op = Idle
  /\ Stale # {}
  /\ ~ ExpireRestores
  /\ Forget(Stale)
  /\ UNCHANGED <<charlesVars, owned, op, store, historyVars>>

ExpireRestoring ==
  /\ op = Idle
  /\ ExpireRestores
  /\ RecordOff("ok")
  /\ Disown
  /\ Forget(Stale)
  /\ UNCHANGED <<traffic, clock, op, store>>

(* The failing call ends the loop at the last active session; the map is   *)
(* walked in any order, so any stopped ones may be left too.               *)
ExpireFails(outcome) ==
  /\ op = Idle
  /\ ExpireRestores
  /\ outcome # "ok"
  /\ RecordOff(outcome)
  /\ \E last \in Active, notReached \in SUBSET (Stale \ Active) :
       Forget(Stale \ ({last} \cup notReached))
  /\ UNCHANGED <<traffic, clock, owned, op, store, stranded>>

----------------------------------------------------------------------------
(* The end of the process; the next one starts with an empty manager *)

NewProcess ==
  /\ sessions' = NoSessions
  /\ owned' = FALSE
  /\ op' = Idle
  /\ stranded' = FALSE

(* An orderly exit runs Close once, after the operation that has the mutex.*)
Close(outcome) ==
  /\ op = Idle
  /\ IF owned
       THEN SetRecorder(IF outcome = "refused" THEN recorder ELSE "off", {"failed close"})
       ELSE outcome = "ok" /\ UNCHANGED <<recorder, leftBy>>
  /\ NewProcess
  /\ UNCHANGED <<traffic, clock, store>>

Crash ==
  /\ NewProcess
  /\ SetRecorder(recorder, {"crash"})
  /\ UNCHANGED <<traffic, clock, store>>

----------------------------------------------------------------------------
(* Charles, its user and time *)

serverVars == <<sessions, owned, op, store, stranded>>

(* n equal requests recorded in one millisecond. *)
NewRequests(n) ==
  /\ recorder # "off"
  /\ clock < MaxClock
  /\ Len(traffic) + n <= MaxTraffic
  /\ clock' = clock + 1
  /\ traffic' = traffic \o [k \in 1..n |-> [req |-> clock', nth |-> k, ver |-> clock']]
  /\ UNCHANGED <<recorder, leftBy, serverVars>>

(* A response, or more of it, arrives, also after recording was stopped. *)
Response(i) ==
  /\ clock < MaxClock
  /\ clock' = clock + 1
  /\ traffic' = [traffic EXCEPT ![i].ver = clock']
  /\ UNCHANGED <<recorder, leftBy, serverVars>>

UserClears ==
  /\ traffic # <<>>
  /\ traffic' = <<>>
  /\ UNCHANGED <<recorder, clock, leftBy, serverVars>>

UserRemoves(i) ==
  /\ traffic' = [k \in 1..(Len(traffic) - 1) |-> traffic[IF k < i THEN k ELSE k + 1]]
  /\ UNCHANGED <<recorder, clock, leftBy, serverVars>>

(* The record button of Charles. *)
UserToggles ==
  /\ SetRecorder(IF recorder = "off" THEN "user" ELSE "off", {})
  /\ UNCHANGED <<traffic, clock, serverVars>>

Tick ==
  /\ \E s \in DOMAIN sessions : sessions[s].age < TTL
  /\ sessions' = [s \in DOMAIN sessions |->
                    IF sessions[s].age < TTL
                      THEN [sessions[s] EXCEPT !.age = @ + 1] ELSE sessions[s]]
  /\ UNCHANGED <<charlesVars, owned, op, store, historyVars>>

----------------------------------------------------------------------------
Init ==
  /\ recorder \in {"off", "user"}
  /\ traffic = <<>>
  /\ clock = 0
  /\ sessions = NoSessions
  /\ owned = FALSE
  /\ op = Idle
  /\ store = NoCaptures
  /\ leftBy = {}
  /\ stranded = FALSE

StartSteps ==
  \/ \E outcome \in Outcomes : \/ StartClear(outcome)
                               \/ StartRecord(outcome)
                               \/ StartRollback(outcome)
  \/ StartSnapshot
  \/ StartSnapshotFails

StopSteps == \E outcome \in Outcomes : StopRecord(outcome)

Requests ==
  \/ \E s \in Sids, reset, start \in BOOLEAN : Start(s, reset, start)
  \/ \E s \in Sids, query \in Queries, limit \in Limits, advance \in BOOLEAN :
       Read(s, query, limit, advance)
  \/ \E s \in Sids, restore, saved \in BOOLEAN : Stop(s, restore, saved)
  \/ \E s \in Sids : Capture(s) \/ StopAgain(s)
  \/ \E c \in DOMAIN store : DeleteCapture(c)

Expire ==
  \/ ExpireQuietly
  \/ ExpireRestoring
  \/ \E outcome \in Outcomes : ExpireFails(outcome)

Exit == Crash \/ \E outcome \in Outcomes : Close(outcome)

TrafficChanges ==
  \/ \E n \in 1..MaxBurst : NewRequests(n)
  \/ \E i \in 1..Len(traffic) : Response(i) \/ UserRemoves(i)
  \/ UserClears

World == TrafficChanges \/ Tick

(* The user leaves the record button alone. *)
QuietNext == StartSteps \/ StopSteps \/ Requests \/ Expire \/ Exit \/ World

Next == QuietNext \/ UserToggles

Spec == Init /\ [][Next]_vars

QuietSpec == Init /\ [][QuietNext]_vars

(* Fairness: a handler that runs goes on (every call to Charles has a      *)
(* timeout), time passes, the ticker fires every 30 seconds, and Charles   *)
(* answers one of the calls that restore recording in the end.             *)
FairSpec ==
  /\ Spec
  /\ WF_vars(StartSteps)
  /\ WF_vars(StopSteps)
  /\ WF_vars(Tick)
  /\ WF_vars(ExpireQuietly)
  /\ WF_vars(ExpireRestoring)

----------------------------------------------------------------------------
(* Types *)

(* Every variable has its type, and no cursor runs past its queue. *)
TypeOK ==
  /\ recorder \in {"off", "user", "server"}
  /\ traffic \in Seq(Transaction)
  /\ clock \in Nat
  /\ DOMAIN sessions \subseteq Sids
  /\ \A s \in DOMAIN sessions : IsSession(sessions[s])
  /\ owned \in BOOLEAN
  /\ op \in Operations
  /\ \A c \in DOMAIN store : IsRows(store[c])
  /\ leftBy \subseteq {"lost start", "kept on request", "failed close", "crash"}
  /\ stranded \in BOOLEAN

----------------------------------------------------------------------------
(* What a client can count on when it reads *)

(* Lossless pagination: an entry whose current content no advancing read   *)
(* has consumed waits behind the cursor.                                   *)
NoLostUpdate == \A s \in DOMAIN sessions : IsLossless(sessions[s])

(* An entry waits at most once, and not for content already consumed: an   *)
(* advancing read never returns the same content twice.                    *)
NoRedelivery ==
  \A s \in DOMAIN sessions : LET t == sessions[s] IN
    \A k \in (t.cursor + 1)..Len(t.events) :
      /\ ~ Consumed(t, t.events[k])
      /\ \A j \in (k + 1)..Len(t.events) : t.events[j] # t.events[k]

(* The rows of the capture of a session are its entries, and the sequence  *)
(* column the capture is ordered by is the number inside the payload.      *)
StoreMirrors ==
  \A s \in DOMAIN sessions :
    /\ sessions[s].active => s \in DOMAIN store
    /\ s \in DOMAIN store => IsMirror(store[s], sessions[s])

(* A capture keeps every entry it ever held, and an entry stays with its   *)
(* transaction and never goes back to older content, whatever the user     *)
(* clears or removes in Charles and however the process ends.              *)
CapturesOnlyGrow ==
  [][\A c \in DOMAIN store \cap DOMAIN store' : \A id \in DOMAIN store[c] :
       /\ id \in DOMAIN store'[c]
       /\ store'[c][id].payload.nth = store[c][id].payload.nth
       /\ store'[c][id].payload.ver >= store[c][id].payload.ver]_vars

(* The entries of one export are numbered in the order Charles shows them. *)
SequencesInOrder ==
  \A s \in DOMAIN sessions : LET t == sessions[s] IN
    \A i, j \in 1..Len(t.keys) : i < j =>
      t.entries[EntryID(t.generation, i, t.keys[i])].sequence
        < t.entries[EntryID(t.generation, j, t.keys[j])].sequence

(* A client that was told its session is stopped has the final snapshot.   *)
StopSavesFinalSnapshot ==
  \A s \in DOMAIN sessions : sessions[s].told => sessions[s].final = "saved"

----------------------------------------------------------------------------
(* Who may switch recording off *)

(* An active session that nobody stops and that is not stale. *)
Needed == {s \in Active \ Stale : op.at = "stop" => op.sid # s}

ServerStopsRecording ==
  recorder # "off" /\ recorder' = "off" /\ ~ UserToggles

(* The server never stops a recording another live session still needs:    *)
(* only the exit of the process does.                                      *)
NoStopWhileNeeded ==
  [][ServerStopsRecording => Needed = {} \/ DOMAIN sessions' = {}]_vars

(* The server stops only a recording it started. *)
StopsOnlyItsOwn ==
  [][ServerStopsRecording => recorder = "server"]_vars

(* A recording the server started is one it will stop, unless it was told  *)
(* to keep it, died, or lost the answer to the request that started it.    *)
StartedIsOwned ==
  recorder = "server" => owned \/ leftBy # {}

(* The same without the lost answer. *)
StartedIsRestored ==
  recorder = "server" => owned \/ leftBy \ {"lost start"} # {}

(* Ownership always has a session whose end restores recording, except     *)
(* while Start runs and after a Start whose rollback failed.               *)
OwnerHasSession ==
  owned => Active # {} \/ op.at \in {"snapshot", "rollback"} \/ stranded

(* When the clients have gone, the recording started for the sessions they *)
(* left active ends.                                                       *)
AbandonedIsRestored ==
  <>[][~ Requests]_vars =>
    (recorder = "server" /\ owned /\ Active # {} ~> recorder # "server" \/ leftBy # {})
=============================================================================
