---------------------------- MODULE ControlTools ----------------------------
(***************************************************************************)
(* The tools that act on Charles beside the live manager, composed with    *)
(* it: reset_environment (reset.go), which looks at the sessions and acts  *)
(* on Charles after it has let go of the manager's mutex, and the legacy   *)
(* proxy_by_time (app.go), a Start and a Stop with a wait between them.    *)
(* Each client has at most one of these calls running, and any number of   *)
(* the requests of LiveManager beside it.                                  *)
(***************************************************************************)
EXTENDS LiveManager

CONSTANTS
  Clients,
  Duration  \* ticks of proxy_by_time, DurationSeconds

ASSUME DurationAssumption == Duration \in Nat \ {0}

VARIABLE calls  \* the call each client waits for

toolVars == <<vars, calls>>

NoCall == [at |-> "none"]

ResetActions == {"clear_session", "quit_charles", "start_recording", "stop_recording"}

Free(c) == calls[c] = NoCall

----------------------------------------------------------------------------
(* reset_environment *)

(* Status takes the mutex and gives it back; a session that is active ends *)
(* the call.                                                               *)
ResetCheck(c, action) ==
  /\ Free(c)
  /\ op = Idle
  /\ Active = {}
  /\ calls' = [calls EXCEPT ![c] = [at |-> "reset", action |-> action]]
  /\ UNCHANGED vars

(* The call to Charles, whoever holds the mutex by now.  A Charles that    *)
(* quit comes back with an empty session, recording or not.                *)
ResetAct(c, outcome) ==
  /\ calls[c].at = "reset"
  /\ LET done   == outcome # "refused"
         action == calls[c].action
     IN
     /\ traffic' = IF done /\ action \in {"clear_session", "quit_charles"} THEN <<>> ELSE traffic
     /\ CASE action = "clear_session" -> UNCHANGED <<recorder, leftBy>>
          [] action = "stop_recording" -> RecordOff(outcome)
          [] action = "start_recording" ->
               SetRecorder(IF done /\ recorder = "off" THEN "user" ELSE recorder, {})
          [] action = "quit_charles" ->
               \E r \in IF done THEN {"off", "user"} ELSE {recorder} : SetRecorder(r, {})
  /\ calls' = [calls EXCEPT ![c] = NoCall]
  /\ UNCHANGED <<clock, serverVars>>

----------------------------------------------------------------------------
(* proxy_by_time *)

Due(c) == calls[c].at = "waiting" /\ calls[c].left = 0

TimedStart(c, s, reset, start) ==
  /\ Free(c)
  /\ Start(s, reset, start)
  /\ calls' = [calls EXCEPT ![c] = [at |-> "starting", sid |-> s, left |-> Duration]]

(* Fault: a Start that fails is waited for as well. *)
ReturnedAnyway ==
  [c \in Clients |->
     IF calls[c].at \in {"starting", "stopping"} /\ op' = Idle
       THEN IF calls[c].at = "starting" THEN [calls[c] EXCEPT !.at = "waiting"] ELSE NoCall
       ELSE calls[c]]

(* A call goes on where the operation it is in ends: from Start to the     *)
(* wait, or out with its error; from Stop to its answer.                   *)
Returned ==
  [c \in Clients |->
     IF calls[c].at \in {"starting", "stopping"} /\ op' = Idle
       THEN IF calls[c].at = "starting" /\ calls[c].sid \in DOMAIN sessions'
              THEN [calls[c] EXCEPT !.at = "waiting"] ELSE NoCall
       ELSE calls[c]]

(* The client gives up; the session is stopped all the same. *)
Cancel(c) ==
  /\ calls[c].at = "waiting"
  /\ calls' = [calls EXCEPT ![c].left = 0]
  /\ UNCHANGED vars

(* Fault: a session another client stopped is stopped for ever. *)
TimedStopActive(c, saved) ==
  /\ Due(c)
  /\ op = Idle
  /\ Stop(calls[c].sid, TRUE, saved)
  /\ calls' = [calls EXCEPT ![c] = IF op' = Idle THEN NoCall ELSE [@ EXCEPT !.at = "stopping"]]

(* Stop under a context of its own.  Another client may have stopped the   *)
(* session, and a session that expired is not found.                       *)
TimedStop(c, saved) ==
  /\ Due(c)
  /\ op = Idle
  /\ \/ Stop(calls[c].sid, TRUE, saved)
     \/ StopAgain(calls[c].sid)
     \/ calls[c].sid \notin DOMAIN sessions /\ UNCHANGED vars
  /\ calls' = [calls EXCEPT ![c] = IF op' = Idle THEN NoCall ELSE [@ EXCEPT !.at = "stopping"]]

(* Timers run with the clock that ages the sessions. *)
TimersTick ==
  calls' = [c \in Clients |->
              IF calls[c].at = "waiting" /\ calls[c].left > 0
                THEN [calls[c] EXCEPT !.left = @ - 1] ELSE calls[c]]

----------------------------------------------------------------------------
ToolInit == Init /\ calls = [c \in Clients |-> NoCall]

TimedSteps(c) == \E saved \in BOOLEAN : TimedStop(c, saved)

Tools ==
  \E c \in Clients :
    \/ \E action \in ResetActions : ResetCheck(c, action)
    \/ \E outcome \in Outcomes : ResetAct(c, outcome)
    \/ \E s \in Sids, reset, start \in BOOLEAN : TimedStart(c, s, reset, start)
    \/ Cancel(c)
    \/ TimedSteps(c)

(* A call that is due gets the mutex within a tick. *)
Time == Tick /\ TimersTick /\ \A c \in Clients : ~ Due(c)

Others ==
  \/ Expire
  \/ Requests
  \/ UserToggles
  \/ TrafficChanges

ToolNext ==
  \/ Tools
  \/ (StartSteps \/ StopSteps) /\ calls' = Returned
  \/ Others /\ UNCHANGED calls
  \/ Time
  \/ Exit /\ calls' = [c \in Clients |-> NoCall]

ToolSpec == ToolInit /\ [][ToolNext]_toolVars

(* Fairness: handlers go on, timers fire, and a handler that waits for the *)
(* mutex gets it although others keep taking it (Go's mutex hands over to  *)
(* a waiter that starves).                                                 *)
ToolFairSpec ==
  /\ ToolSpec
  /\ WF_toolVars(StartSteps /\ calls' = Returned)
  /\ WF_toolVars(StopSteps /\ calls' = Returned)
  /\ WF_toolVars(Time)
  /\ \A c \in Clients : SF_toolVars(TimedSteps(c))

----------------------------------------------------------------------------
(* proxy_by_time finds the session it started when its time is over, so    *)
(* that it can save the capture and restore recording.                     *)
TimedCaptureKept ==
  \A c \in Clients : calls[c].at = "waiting" => calls[c].sid \in DOMAIN sessions

(* Charles refuses the call that restores recording, or its answer is lost. *)
RestoreFails == \E outcome \in Outcomes \ {"ok"} : StopRecord(outcome)

(* proxy_by_time returns from its wait, or from the Stop after it, with    *)
(* its session stopped, whether the timer or the client ended the wait.    *)
(* Where the call to Charles that restores recording failed, the session   *)
(* stays active and the manager keeps the recording to restore, so that    *)
(* another Stop or the expiry can.                                         *)
TimedCallStops ==
  [][\A c \in Clients :
       calls[c].at \in {"waiting", "stopping"} /\ calls'[c] = NoCall /\ ~ Exit =>
         \/ calls[c].sid \notin Active'
         \/ RestoreFails /\ owned']_toolVars

(* Every proxy_by_time call that waits returns, whatever other clients do  *)
(* to its session meanwhile.                                               *)
TimedCallEnds ==
  \A c \in Clients : calls[c].at = "waiting" ~> calls[c].at # "waiting"
=============================================================================
