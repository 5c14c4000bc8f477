----------------------------- MODULE Artifacts -----------------------------
(***************************************************************************)
(* The tools that work on stored entries and save what they find: decode   *)
(* (decode.go), signature discovery (signature.go), replay (replay.go) and *)
(* the workflows that combine them (workflow.go), over the captures and    *)
(* artifacts of the database (store.go), with imports and deletes beside   *)
(* them.                                                                   *)
(*                                                                         *)
(* A call is one run of a tool.  todo holds the store and HTTP calls it    *)
(* still has to make, each an action of its own: none of them is in a      *)
(* transaction with the next, and no lock is held between them.  The live  *)
(* capture a workflow may read from is a feed as in LiveFeed: its entries  *)
(* that wait behind the cursor.                                            *)
(***************************************************************************)
EXTENDS Naturals, Sequences, FiniteSets

CONSTANTS
  Captures,
  EntriesOf,    \* the entries of each capture
  LiveCapture,  \* the capture a live session records
  Calls,
  Kinds,        \* the tools that are called
  MaxFindings,  \* the findings a report lists
  Faults        \* what may go wrong: subset of AllFaults

AllFaults == {"store", "cancel", "crash", "overlap"}

ConstantsOK ==
  /\ LiveCapture \in Captures
  /\ DOMAIN EntriesOf = Captures
  /\ \A c, d \in Captures : c # d => EntriesOf[c] \cap EntriesOf[d] = {}
  /\ \A c \in Captures : EntriesOf[c] \cap Captures = {}
  /\ Kinds \subseteq {"decode", "discover", "replay", "workflow"}
  /\ MaxFindings \in Nat \ {0}
  /\ Faults \subseteq AllFaults

VARIABLES
  captures,   \* the captures in the database, each with its entries
  artifacts,  \* the artifacts in the database
  live,       \* the session of LiveCapture is active
  waiting,    \* its entries behind the read cursor
  calls

vars == <<captures, artifacts, live, waiting, calls>>

AllEntries == UNION {EntriesOf[c] : c \in Captures}

CaptureOf(e) == CHOOSE c \in Captures : e \in EntriesOf[c]

Stored == UNION {EntriesOf[c] : c \in captures}

----------------------------------------------------------------------------
(* Calls.  entries are the entries a call works on, the first one selected.*)
(* found is the list of findings a workflow puts in its report.  stale is  *)
(* history: a capture it works on was deleted since it loaded the entries. *)

NoCall == [at |-> "none", kind |-> "none", todo |-> <<>>, entries |-> <<>>,
           found |-> {}, sent |-> FALSE, cancelled |-> FALSE, stale |-> FALSE]

EntriesIn(call) == {call.entries[i] : i \in 1..Len(call.entries)}

Running(id) == calls[id].at = "running"

Next1(id, step) == Running(id) /\ Head(calls[id].todo) = step

(* Fault: the comparison is saved before the experiment it names. *)
ReplayStepsSwapped == <<"load", "send", "answer", "comparison", "experiment">>

ReplaySteps == <<"load", "send", "answer", "experiment", "comparison">>

Steps(kind) ==
  CASE kind = "decode"   -> <<"load", "decoded">>
    [] kind = "discover" -> <<"load", "signature">>
    [] kind = "replay"   -> ReplaySteps

(* Fault: the findings are listed before the replay. *)
WorkflowStepsEarly(discover, replay) ==
  <<"load", "tryDecoded">>
    \o (IF discover THEN Steps("discover") ELSE <<>>)
    \o <<"findings">>
    \o (IF replay THEN Steps("replay") ELSE <<>>)
    \o <<"workflow">>

(* Discovery needs two candidates; the replay is asked for. *)
WorkflowSteps(discover, replay) ==
  <<"load", "tryDecoded">>
    \o (IF discover THEN Steps("discover") ELSE <<>>)
    \o (IF replay THEN Steps("replay") ELSE <<>>)
    \o <<"findings", "workflow">>

(* The call goes on with its next step or, after the last, answers. *)
Go(id, changes) ==
  LET rest == Tail(calls[id].todo) IN
  calls' = [calls EXCEPT ![id] =
              [changes EXCEPT !.todo = rest, !.at = IF rest = <<>> THEN "done" ELSE "running"]]

(* The call returns an error. *)
Fail(id) == calls' = [calls EXCEPT ![id].at = "failed"]

Begin(id, kind, entries) ==
  /\ calls[id].at = "none"
  /\ kind \in Kinds \ {"workflow"}
  /\ calls' = [calls EXCEPT ![id] =
                 [NoCall EXCEPT !.at = "running", !.kind = kind, !.entries = entries,
                                !.todo = Steps(kind)]]
  /\ UNCHANGED <<captures, artifacts, live, waiting>>

(* A workflow reads its window: a page of the live queue, consumed if      *)
(* advance, or of a capture.  Without a candidate in it the report ends    *)
(* there.                                                                  *)
BeginWorkflow(id, capture, page, fromLive, advance, entries, replay, discover) ==
  /\ calls[id].at = "none"
  /\ "workflow" \in Kinds
  /\ IF fromLive THEN live /\ page \subseteq waiting ELSE capture \in captures
  /\ {entries[i] : i \in 1..Len(entries)} \subseteq page
  /\ discover => Len(entries) >= 2
  /\ waiting' = IF fromLive /\ advance THEN waiting \ page ELSE waiting
  /\ calls' = [calls EXCEPT ![id] =
       [NoCall EXCEPT !.at = IF entries = <<>> THEN "done" ELSE "running",
                      !.kind = "workflow", !.entries = entries,
                      !.todo = IF entries = <<>> THEN <<>> ELSE WorkflowSteps(discover, replay)]]
  /\ UNCHANGED <<captures, artifacts, live>>

(* Store.Entry for each entry the step needs. *)
Load(id) ==
  /\ Next1(id, "load")
  /\ ~ calls[id].cancelled
  /\ IF EntriesIn(calls[id]) \subseteq Stored
       THEN Go(id, [calls[id] EXCEPT !.stale = FALSE])
       ELSE Fail(id)
  /\ UNCHANGED <<captures, artifacts, live, waiting>>

(* BuildReplay does not accept the overrides, or the body cannot be decoded.*)
Reject(id) ==
  /\ Next1(id, "send") \/ Next1(id, "decoded")
  /\ Fail(id)
  /\ UNCHANGED <<captures, artifacts, live, waiting>>

(* The request goes out, unless the client has given up by now. *)
Send(id) ==
  /\ Next1(id, "send")
  /\ Go(id, [calls[id] EXCEPT !.sent = ~ calls[id].cancelled])
  /\ UNCHANGED <<captures, artifacts, live, waiting>>

(* A response, or the error that stands for it: both go into the result.   *)
Answer(id) ==
  /\ Next1(id, "answer")
  /\ Go(id, calls[id])
  /\ UNCHANGED <<captures, artifacts, live, waiting>>

(* SaveArtifact.  A finding of discovery belongs to the capture of the     *)
(* first entry, every other artifact to the selected entry.  late is       *)
(* history: what it belongs to was deleted while the call was at work.     *)
Artifact(id, kind) ==
  LET selected == Head(calls[id].entries) IN
  [kind |-> kind, by |-> id, late |-> calls[id].stale,
   subject |-> IF kind = "signature" THEN CaptureOf(selected) ELSE selected]

SavedKinds == {"decoded", "signature", "experiment", "comparison", "workflow"}

(* Discovery saves nothing when no field differs. *)
SaveArtifact(id, kind, some) ==
  /\ Next1(id, kind)
  /\ ~ calls[id].cancelled
  /\ some \/ kind = "signature"
  /\ artifacts' = IF some THEN artifacts \cup {Artifact(id, kind)} ELSE artifacts
  /\ Go(id, calls[id])
  /\ UNCHANGED <<captures, live, waiting>>

(* Within a workflow an error of decoding goes into the report. *)
TryDecode(id, saved) ==
  /\ Next1(id, "tryDecoded")
  /\ saved => ~ calls[id].cancelled /\ Head(calls[id].entries) \in Stored
  /\ artifacts' = IF saved THEN artifacts \cup {Artifact(id, "decoded")} ELSE artifacts
  /\ Go(id, calls[id])
  /\ UNCHANGED <<captures, live, waiting>>

(* The findings about an entry that a report lists: the newest, by the     *)
(* text of the wall clock they were saved with.  The clock may be set      *)
(* back, so that any of them may be the newest.                            *)
Newest(findings) ==
  {some \in SUBSET findings :
     /\ Cardinality(some) <= MaxFindings
     /\ some # findings => Cardinality(some) = MaxFindings}

(* The findings about the selected entry, for the report. *)
ListFindings(id) ==
  /\ Next1(id, "findings")
  /\ ~ calls[id].cancelled
  /\ \E found \in Newest({a \in artifacts : /\ a.kind = "comparison"
                                             /\ a.subject = Head(calls[id].entries)}) :
       Go(id, [calls[id] EXCEPT !.found = found])
  /\ UNCHANGED <<captures, artifacts, live, waiting>>

StoreSteps == {"load", "findings"} \cup SavedKinds

(* Fault: an error of the store is dropped. *)
StoreErrorDropped(id) ==
  /\ \E step \in StoreSteps : Next1(id, step)
  /\ calls[id].cancelled \/ "store" \in Faults
  /\ Go(id, calls[id])
  /\ UNCHANGED <<captures, artifacts, live, waiting>>

(* The store fails, or is called with the context of a client that gave up.*)
(* Of the findings of a discovery the first may have been saved.           *)
StoreFails(id) ==
  /\ \E step \in StoreSteps : Next1(id, step)
  /\ calls[id].cancelled \/ "store" \in Faults
  /\ artifacts' \in {artifacts} \cup
       IF Next1(id, "signature") THEN {artifacts \cup {Artifact(id, "signature")}} ELSE {}
  /\ Fail(id)
  /\ UNCHANGED <<captures, live, waiting>>

Cancel(id) ==
  /\ "cancel" \in Faults
  /\ Running(id)
  /\ calls' = [calls EXCEPT ![id].cancelled = TRUE]
  /\ UNCHANGED <<captures, artifacts, live, waiting>>

----------------------------------------------------------------------------
(* The captures *)

(* Unless calls may overlap with it, a delete waits for a quiet moment. *)
Quiet == "overlap" \in Faults \/ \A id \in Calls : ~ Running(id)

(* Fault: the capture is deleted first, and with it the rows that tell     *)
(* which artifacts belong to its entries.                                  *)
DeletedWithCaptureOnly(c) == {a \in artifacts : a.subject = c}

DeletedWith(c) == {a \in artifacts : a.subject \in {c} \cup EntriesOf[c]}

(* One transaction; the live capture has to be stopped first. *)
Delete(c) ==
  /\ Quiet
  /\ c \in captures
  /\ c = LiveCapture => ~ live
  /\ captures' = captures \ {c}
  /\ artifacts' = artifacts \ DeletedWith(c)
  /\ calls' = [id \in Calls |->
                 [calls[id] EXCEPT !.stale = @ \/ EntriesIn(calls[id]) \cap EntriesOf[c] # {}]]
  /\ UNCHANGED <<live, waiting>>

(* The capture and the entries of a file have the same IDs on every import.*)
Import(c) ==
  /\ c \in Captures \ ({LiveCapture} \cup captures)
  /\ captures' = captures \cup {c}
  /\ UNCHANGED <<artifacts, live, waiting, calls>>

StopLive ==
  /\ live
  /\ live' = FALSE
  /\ waiting' = {}
  /\ UNCHANGED <<captures, artifacts, calls>>

Crash ==
  /\ "crash" \in Faults
  /\ live' = FALSE
  /\ waiting' = {}
  /\ calls' = [id \in Calls |-> IF Running(id) THEN [calls[id] EXCEPT !.at = "crashed"] ELSE calls[id]]
  /\ UNCHANGED <<captures, artifacts>>

----------------------------------------------------------------------------
Init ==
  /\ captures = {LiveCapture}
  /\ artifacts = {}
  /\ live = TRUE
  /\ waiting = EntriesOf[LiveCapture]
  /\ calls = [id \in Calls |-> NoCall]

(* The lists of entries a call may name: one, or two to compare. *)
Selections(kind) ==
  IF kind = "discover" THEN {s \in [1..2 -> AllEntries] : s[1] # s[2]}
  ELSE {<<e>> : e \in AllEntries}

(* The candidates of a page: none, one, or at least two. *)
Candidates(page) ==
  {<<>>} \cup {<<e>> : e \in page} \cup {s \in [1..2 -> page] : s[1] # s[2]}

Request(id) ==
  \/ \E kind \in Kinds \ {"workflow"} : \E entries \in Selections(kind) : Begin(id, kind, entries)
  \/ \E capture \in Captures, fromLive, advance, replay, discover \in BOOLEAN :
       \E page \in SUBSET EntriesOf[capture] : \E entries \in Candidates(page) :
         BeginWorkflow(id, capture, page, fromLive, advance, entries, replay, discover)

Work(id) ==
  \/ Load(id)
  \/ Reject(id)
  \/ Send(id)
  \/ Answer(id)
  \/ \E kind \in SavedKinds, some \in BOOLEAN : SaveArtifact(id, kind, some)
  \/ \E saved \in BOOLEAN : TryDecode(id, saved)
  \/ ListFindings(id)
  \/ StoreFails(id)

Next ==
  \/ \E id \in Calls : Request(id) \/ Work(id) \/ Cancel(id)
  \/ \E c \in Captures : Delete(c) \/ Import(c)
  \/ StopLive
  \/ Crash

Spec == Init /\ [][Next]_vars

----------------------------------------------------------------------------
(* Deletes *)

(* An artifact without the entry or capture it belongs to was saved by a   *)
(* call that had loaded the entry before the delete: nothing that is there *)
(* when a capture is deleted outlives it.                                  *)
OrphansOnlyLate ==
  \A a \in artifacts : a.subject \notin captures \cup Stored => a.late

----------------------------------------------------------------------------
(* Replays *)

Saved(id, kind) == \E a \in artifacts : a.by = id /\ a.kind = kind

Replayed(id) == calls[id].sent /\ ~ calls[id].stale

(* A comparison names an experiment that is there to be looked at.  Those of *)
(* calls that a delete overtook are exempt: the delete may fall between the  *)
(* two saves and take the experiment alone (replay.go:225-237).              *)
ComparisonsRest ==
  \A a \in artifacts : a.kind = "comparison" /\ ~ a.late => Saved(a.by, "experiment")

(* A call that sent its request and answered without an error has left     *)
(* experiment and comparison behind, unless a delete overtook it.  It says *)
(* nothing of calls that fail or are cancelled after the request was sent: *)
(* these leave less (README, Divergences).                                 *)
AnsweredIsRecorded ==
  \A id \in Calls : calls[id].at = "done" /\ Replayed(id) =>
    Saved(id, "experiment") /\ Saved(id, "comparison")

(* The report of a workflow that replayed shows the comparison, if it is   *)
(* not full of others about the entry.                                     *)
ShowsOrIsFull(id, found) == (\E a \in found : a.by = id) \/ Cardinality(found) = MaxFindings

ReportShowsReplay ==
  \A id \in Calls : calls[id].kind = "workflow" /\ calls[id].at = "done" /\ Replayed(id) =>
    ShowsOrIsFull(id, calls[id].found)
=============================================================================
