----------------------------- MODULE TwoServers -----------------------------
(***************************************************************************)
(* Two MCP clients that each run a server process (docs/clients.md) on one *)
(* machine: two live managers that share Charles and the database and know *)
(* nothing of each other's sessions.  Each is LiveManager with sessions,   *)
(* owned, op and stranded of its own, taken with the theorems about it.    *)
(***************************************************************************)
EXTENDS Naturals, Sequences, FiniteSets

CONSTANTS SidsA, SidsB, Queries, Limits, TTL, MaxClock, MaxTraffic, MaxBurst

ASSUME SidsAssumption == SidsA \cap SidsB = {}

(* As in LiveManager, whose theorems are used for both servers. *)
ASSUME ConstantsAssumption ==
  /\ Limits \subseteq Nat \ {0}
  /\ TTL \in Nat \ {0}
  /\ MaxClock \in Nat
  /\ MaxTraffic \in Nat
  /\ MaxBurst \in Nat

VARIABLES
  recorder, traffic, clock, store, leftBy,  \* shared, as in LiveManager
  sessionsA, ownedA, opA, strandedA,
  sessionsB, ownedB, opB, strandedB

sharedVars == <<recorder, traffic, clock, store, leftBy>>
varsA == <<sessionsA, ownedA, opA, strandedA>>
varsB == <<sessionsB, ownedB, opB, strandedB>>
serversVars == <<sharedVars, varsA, varsB>>

A == INSTANCE LiveDeliveryProofs WITH Sids <- SidsA, sessions <- sessionsA,
       owned <- ownedA, op <- opA, stranded <- strandedA

B == INSTANCE LiveDeliveryProofs WITH Sids <- SidsB, sessions <- sessionsB,
       owned <- ownedB, op <- opB, stranded <- strandedB

----------------------------------------------------------------------------
Init == A!Init /\ B!Init

ServerA ==
  /\ A!StartSteps \/ A!StopSteps \/ A!Requests \/ A!Expire \/ A!Exit
  /\ UNCHANGED varsB

ServerB ==
  /\ B!StartSteps \/ B!StopSteps \/ B!Requests \/ B!Expire \/ B!Exit
  /\ UNCHANGED varsA

User ==
  /\ A!UserToggles \/ A!TrafficChanges
  /\ UNCHANGED varsB

TimeA == A!Tick /\ UNCHANGED varsB
TimeB == B!Tick /\ UNCHANGED varsA

Next == ServerA \/ ServerB \/ User \/ TimeA \/ TimeB

Spec == Init /\ [][Next]_serversVars

----------------------------------------------------------------------------
(* A recording one of the servers started is one that a server will stop,  *)
(* although each may stop and start it under the other.                    *)
OneServerOwns == recorder = "server" => ownedA \/ ownedB \/ leftBy # {}

(* The clients of one server cannot lose it its owner without its session: *)
(* what the other does to Charles and to the database leaves the ownership *)
(* of a server with its sessions.                                          *)
OwnersHaveSessions == A!OwnerHasSession /\ B!OwnerHasSession
=============================================================================
