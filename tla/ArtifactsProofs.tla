-------------------------- MODULE ArtifactsProofs --------------------------
(***************************************************************************)
(* Theorems about what the tools leave in the database, for any captures,  *)
(* entries and calls, whatever overlaps, fails, is cancelled or crashes.   *)
(***************************************************************************)
EXTENDS Artifacts, SequenceTheorems, TLAPS

StepNames ==
  {"load", "tryDecoded", "send", "answer", "findings", "decoded", "signature", "experiment",
   "comparison", "workflow"}

----------------------------------------------------------------------------
(* The order of the steps of a call *)

Has(todo, step) == \E i \in 1..Len(todo) : todo[i] = step

Before(todo, x, y) == \A i, j \in 1..Len(todo) : todo[i] = x /\ todo[j] = y => i < j

Follows(todo, i, step) == \E j \in 1..Len(todo) : i < j /\ todo[j] = step

(* What a call loads it loads before it sends; what it sends it records;   *)
(* and what it recorded a workflow reports.                                *)
InOrder(todo, kind) ==
  /\ Before(todo, "load", "send")
  /\ Before(todo, "experiment", "comparison")
  /\ Before(todo, "comparison", "findings")
  /\ \A i \in 1..Len(todo) : todo[i] = "send" =>
       /\ Follows(todo, i, "experiment")
       /\ Follows(todo, i, "comparison")
       /\ kind = "workflow" => Follows(todo, i, "findings")

LEMMA StepsInOrder ==
  ASSUME NEW kind \in {"decode", "discover", "replay"}
  PROVE  /\ Steps(kind) \in Seq(StepNames) /\ Steps(kind) # <<>> /\ Head(Steps(kind)) = "load"
         /\ InOrder(Steps(kind), kind)
         /\ Has(Steps(kind), "comparison") => Has(Steps(kind), "send")
<1>1. CASE kind = "decode"
  BY <1>1 DEF Steps, StepNames, InOrder, Before, Follows, Has
<1>2. CASE kind = "discover"
  BY <1>2 DEF Steps, StepNames, InOrder, Before, Follows, Has
<1>3. CASE kind = "replay"
  BY <1>3 DEF Steps, ReplaySteps, StepNames, InOrder, Before, Follows, Has
<1>4. QED
  BY <1>1, <1>2, <1>3

LEMMA TailStep ==
  ASSUME NEW todo \in Seq(StepNames), todo # <<>>, NEW kind, InOrder(todo, kind)
  PROVE  /\ Tail(todo) \in Seq(StepNames)
         /\ InOrder(Tail(todo), kind)
         /\ \A x \in StepNames : Has(todo, x) <=> Has(Tail(todo), x) \/ Head(todo) = x
<1>1. /\ Tail(todo) \in Seq(StepNames) /\ Len(todo) = Len(Tail(todo)) + 1 /\ Len(todo) \in Nat
      /\ \A i \in 1..Len(Tail(todo)) : i + 1 \in 1..Len(todo) /\ Tail(todo)[i] = todo[i + 1]
      /\ Head(todo) = todo[1] /\ 1 \in 1..Len(todo)
  OBVIOUS
<1> DEFINE rest == Tail(todo)
<1> HIDE DEF rest
<1>2. ASSUME NEW x \in StepNames
      PROVE  Has(todo, x) <=> Has(rest, x) \/ Head(todo) = x
  <2>1. ASSUME NEW i \in 1..Len(todo), todo[i] = x, i # 1
        PROVE  Has(rest, x)
    <3>1. i - 1 \in 1..Len(rest) /\ rest[i - 1] = x
      BY <1>1, <2>1 DEF rest
    <3>2. QED
      BY <3>1 DEF Has
  <2>2. Has(rest, x) => Has(todo, x)
    BY <1>1 DEF Has, rest
  <2>3. QED
    BY <1>1, <2>1, <2>2 DEF Has
<1>3. ASSUME NEW x, NEW y, Before(todo, x, y)
      PROVE  Before(rest, x, y)
  BY <1>1, <1>3 DEF Before, rest
<1>4. ASSUME NEW i \in 1..Len(rest), NEW x, Follows(todo, i + 1, x)
      PROVE  Follows(rest, i, x)
  <2>1. PICK j \in 1..Len(todo) : i + 1 < j /\ todo[j] = x
    BY <1>4 DEF Follows
  <2>2. j - 1 \in 1..Len(rest) /\ i < j - 1 /\ rest[j - 1] = x
    BY <1>1, <2>1 DEF rest
  <2>3. QED
    BY <2>2 DEF Follows
<1>5. InOrder(rest, kind)
  BY <1>1, <1>3, <1>4 DEF InOrder, rest
<1>6. QED
  BY <1>1, <1>2, <1>5 DEF rest

LEMMA Concatenation ==
  ASSUME NEW s \in Seq(StepNames), NEW t \in Seq(StepNames)
  PROVE  /\ s \o t \in Seq(StepNames)
         /\ Len(s \o t) = Len(s) + Len(t)
         /\ \A i \in 1..(Len(s) + Len(t)) :
              (s \o t)[i] = IF i <= Len(s) THEN s[i] ELSE t[i - Len(s)]
OBVIOUS

LEMMA HasConcatenation ==
  ASSUME NEW s \in Seq(StepNames), NEW t \in Seq(StepNames), NEW x
  PROVE  Has(s \o t, x) <=> Has(s, x) \/ Has(t, x)
<1> DEFINE all == s \o t
<1>1. /\ Len(all) = Len(s) + Len(t) /\ Len(s) \in Nat /\ Len(t) \in Nat
      /\ \A i \in 1..(Len(s) + Len(t)) : all[i] = IF i <= Len(s) THEN s[i] ELSE t[i - Len(s)]
  BY Concatenation
<1> HIDE DEF all
<1>2. ASSUME NEW i \in 1..Len(all), all[i] = x
      PROVE  Has(s, x) \/ Has(t, x)
  <2>1. CASE i <= Len(s)
    BY <1>1, <1>2, <2>1 DEF Has
  <2>2. CASE ~ i <= Len(s)
    <3>1. i - Len(s) \in 1..Len(t) /\ t[i - Len(s)] = x
      BY <1>1, <1>2, <2>2
    <3>2. QED
      BY <3>1 DEF Has
  <2>3. QED
    BY <2>1, <2>2
<1>3. ASSUME NEW i \in 1..Len(s), s[i] = x
      PROVE  Has(all, x)
  <2>1. i \in 1..Len(all) /\ all[i] = x
    BY <1>1, <1>3
  <2>2. QED
    BY <2>1 DEF Has
<1>4. ASSUME NEW i \in 1..Len(t), t[i] = x
      PROVE  Has(all, x)
  <2> DEFINE j == Len(s) + i
  <2>1. j \in 1..Len(all) /\ ~ j <= Len(s) /\ j - Len(s) = i /\ j \in 1..(Len(s) + Len(t))
    BY <1>1
  <2>2. all[j] = x
    BY <1>1, <1>4, <2>1
  <2>3. QED
    BY <2>1, <2>2 DEF Has
<1>5. QED
  BY <1>2, <1>3, <1>4 DEF Has, all

LEMMA BeforeConcatenation ==
  ASSUME NEW s \in Seq(StepNames), NEW t \in Seq(StepNames), NEW x, NEW y,
         Before(s, x, y), Before(t, x, y), ~ Has(t, x) \/ ~ Has(s, y)
  PROVE  Before(s \o t, x, y)
<1> DEFINE all == s \o t
<1>1. /\ Len(all) = Len(s) + Len(t) /\ Len(s) \in Nat /\ Len(t) \in Nat
      /\ \A i \in 1..(Len(s) + Len(t)) : all[i] = IF i <= Len(s) THEN s[i] ELSE t[i - Len(s)]
  BY Concatenation
<1> HIDE DEF all
<1>2. SUFFICES ASSUME NEW i \in 1..Len(all), NEW j \in 1..Len(all), all[i] = x, all[j] = y
               PROVE  i < j
  BY DEF Before, all
<1>3. CASE i <= Len(s) /\ j <= Len(s)
  BY <1>1, <1>2, <1>3 DEF Before
<1>4. CASE i <= Len(s) /\ ~ j <= Len(s)
  BY <1>1, <1>4
<1>5. CASE ~ i <= Len(s) /\ j <= Len(s)
  <2>1. i - Len(s) \in 1..Len(t) /\ t[i - Len(s)] = x /\ j \in 1..Len(s) /\ s[j] = y
    BY <1>1, <1>2, <1>5
  <2>2. QED
    BY <2>1 DEF Has
<1>6. CASE ~ i <= Len(s) /\ ~ j <= Len(s)
  <2>1. /\ i - Len(s) \in 1..Len(t) /\ t[i - Len(s)] = x
        /\ j - Len(s) \in 1..Len(t) /\ t[j - Len(s)] = y
    BY <1>1, <1>2, <1>6
  <2>2. i - Len(s) < j - Len(s)
    BY <2>1 DEF Before
  <2>3. QED
    BY <1>1, <2>2
<1>7. QED
  BY <1>3, <1>4, <1>5, <1>6

(* A step of t that is followed stays followed; one of s also by all of t. *)
LEMMA FollowsConcatenation ==
  ASSUME NEW s \in Seq(StepNames), NEW t \in Seq(StepNames), NEW x,
         NEW i \in 1..(Len(s) + Len(t)),
         IF i <= Len(s) THEN Follows(s, i, x) \/ Has(t, x) ELSE Follows(t, i - Len(s), x)
  PROVE  Follows(s \o t, i, x)
<1> DEFINE all == s \o t
<1>1. /\ Len(all) = Len(s) + Len(t) /\ Len(s) \in Nat /\ Len(t) \in Nat
      /\ \A k \in 1..(Len(s) + Len(t)) : all[k] = IF k <= Len(s) THEN s[k] ELSE t[k - Len(s)]
  BY Concatenation
<1> HIDE DEF all
<1>2. CASE i <= Len(s) /\ Follows(s, i, x)
  <2>1. PICK j \in 1..Len(s) : i < j /\ s[j] = x
    BY <1>2 DEF Follows
  <2>2. j \in 1..Len(all) /\ all[j] = x
    BY <1>1, <2>1
  <2>3. QED
    BY <2>1, <2>2 DEF Follows, all
<1>3. ASSUME NEW j \in 1..Len(t), t[j] = x, i < Len(s) + j
      PROVE  Follows(all, i, x)
  <2> DEFINE k == Len(s) + j
  <2>1. k \in 1..Len(all) /\ k \in 1..(Len(s) + Len(t)) /\ ~ k <= Len(s) /\ k - Len(s) = j
    BY <1>1
  <2>2. all[k] = x
    BY <1>1, <1>3, <2>1
  <2>3. QED
    BY <1>3, <2>1, <2>2 DEF Follows
<1>4. CASE i <= Len(s) /\ Has(t, x)
  BY <1>1, <1>3, <1>4 DEF Has, all
<1>5. CASE ~ i <= Len(s)
  <2>1. PICK j \in 1..Len(t) : i - Len(s) < j /\ t[j] = x
    BY <1>5 DEF Follows
  <2>2. i < Len(s) + j
    BY <1>1, <2>1
  <2>3. QED
    BY <1>3, <2>1, <2>2 DEF all
<1>6. QED
  BY <1>2, <1>4, <1>5

(* Decoding and discovery come first, and neither send nor report.         *)
LEMMA InOrderAfter ==
  ASSUME NEW s \in Seq(StepNames), NEW t \in Seq(StepNames), NEW kind, InOrder(t, kind),
         ~ Has(s, "send"), ~ Has(s, "comparison"), ~ Has(s, "findings")
  PROVE  InOrder(s \o t, kind)
<1> DEFINE all == s \o t
<1>1. /\ Len(all) = Len(s) + Len(t) /\ Len(s) \in Nat /\ Len(t) \in Nat
      /\ \A i \in 1..(Len(s) + Len(t)) : all[i] = IF i <= Len(s) THEN s[i] ELSE t[i - Len(s)]
  BY Concatenation
<1>2. /\ Before(all, "load", "send") /\ Before(all, "experiment", "comparison")
      /\ Before(all, "comparison", "findings")
  <2>1. /\ Before(s, "load", "send") /\ Before(s, "experiment", "comparison")
        /\ Before(s, "comparison", "findings")
    BY DEF Before, Has
  <2>2. QED
    BY <2>1, BeforeConcatenation DEF InOrder
<1>3. ASSUME NEW i \in 1..Len(all), all[i] = "send"
      PROVE  /\ Follows(all, i, "experiment")
             /\ Follows(all, i, "comparison")
             /\ kind = "workflow" => Follows(all, i, "findings")
  <2>1. ~ i <= Len(s) /\ i - Len(s) \in 1..Len(t) /\ t[i - Len(s)] = "send"
    BY <1>1, <1>3 DEF Has
  <2>2. i \in 1..(Len(s) + Len(t))
    BY <1>1
  <2>3. QED
    BY <2>1, <2>2, FollowsConcatenation DEF InOrder
<1> HIDE DEF all
<1>4. InOrder(all, kind)
  BY <1>2, <1>3 DEF InOrder
<1>5. QED
  BY <1>4 DEF all

(* The report comes last.                                                  *)
LEMMA InOrderBefore ==
  ASSUME NEW s \in Seq(StepNames), NEW t \in Seq(StepNames), NEW kind, InOrder(s, kind),
         ~ Has(t, "load"), ~ Has(t, "send"), ~ Has(t, "experiment"), ~ Has(t, "comparison"),
         Has(t, "findings")
  PROVE  InOrder(s \o t, "workflow")
<1> DEFINE all == s \o t
<1>1. /\ Len(all) = Len(s) + Len(t) /\ Len(s) \in Nat /\ Len(t) \in Nat
      /\ \A i \in 1..(Len(s) + Len(t)) : all[i] = IF i <= Len(s) THEN s[i] ELSE t[i - Len(s)]
  BY Concatenation
<1>2. /\ Before(all, "load", "send") /\ Before(all, "experiment", "comparison")
      /\ Before(all, "comparison", "findings")
  <2>1. /\ Before(t, "load", "send") /\ Before(t, "experiment", "comparison")
        /\ Before(t, "comparison", "findings")
    BY DEF Before, Has
  <2>2. QED
    BY <2>1, BeforeConcatenation DEF InOrder
<1>3. ASSUME NEW i \in 1..Len(all), all[i] = "send"
      PROVE  /\ Follows(all, i, "experiment")
             /\ Follows(all, i, "comparison")
             /\ Follows(all, i, "findings")
  <2>1. i \in 1..(Len(s) + Len(t))
    BY <1>1
  <2>2. i <= Len(s)
    <3>1. ASSUME ~ i <= Len(s)
          PROVE  FALSE
      <4>1. i - Len(s) \in 1..Len(t) /\ t[i - Len(s)] = "send"
        BY <1>1, <1>3, <2>1, <3>1
      <4>2. QED
        BY <4>1 DEF Has
    <3>2. QED
      BY <3>1
  <2>3. Follows(s, i, "experiment") /\ Follows(s, i, "comparison")
    BY <1>1, <1>3, <2>1, <2>2 DEF InOrder
  <2>4. QED
    BY <2>1, <2>2, <2>3, FollowsConcatenation
<1> HIDE DEF all
<1>4. InOrder(all, "workflow")
  BY <1>2, <1>3 DEF InOrder
<1>5. QED
  BY <1>4 DEF all

LEMMA WorkflowInOrder ==
  ASSUME NEW discover \in BOOLEAN, NEW replay \in BOOLEAN
  PROVE  /\ WorkflowSteps(discover, replay) \in Seq(StepNames)
         /\ WorkflowSteps(discover, replay) # <<>> /\ Head(WorkflowSteps(discover, replay)) = "load"
         /\ InOrder(WorkflowSteps(discover, replay), "workflow")
         /\ Has(WorkflowSteps(discover, replay), "comparison")
              => Has(WorkflowSteps(discover, replay), "send")
<1> DEFINE start == <<"load", "tryDecoded">>
           d == IF discover THEN Steps("discover") ELSE <<>>
           r == IF replay THEN Steps("replay") ELSE <<>>
           end == <<"findings", "workflow">>
           front == start \o d
           middle == front \o r
           all == middle \o end
<1>1. <<>> \in Seq(StepNames) /\ InOrder(<<>>, "replay") /\ \A x : ~ Has(<<>>, x)
  BY DEF InOrder, Before, Has
<1>2. /\ start \in Seq(StepNames) /\ ~ Has(start, "send") /\ ~ Has(start, "comparison")
      /\ ~ Has(start, "findings")
  BY DEF StepNames, Has
<1>3. /\ end \in Seq(StepNames) /\ ~ Has(end, "load") /\ ~ Has(end, "send")
      /\ ~ Has(end, "experiment") /\ ~ Has(end, "comparison") /\ Has(end, "findings")
  BY DEF StepNames, Has
<1>4. /\ d \in Seq(StepNames) /\ ~ Has(d, "send") /\ ~ Has(d, "comparison") /\ ~ Has(d, "findings")
  <2>1. /\ ~ Has(Steps("discover"), "send") /\ ~ Has(Steps("discover"), "comparison")
        /\ ~ Has(Steps("discover"), "findings")
    BY DEF Steps, Has
  <2>2. QED
    BY <1>1, <2>1, StepsInOrder
<1>5. r \in Seq(StepNames) /\ InOrder(r, "replay") /\ (Has(r, "comparison") => Has(r, "send"))
  BY <1>1, StepsInOrder
<1>6. WorkflowSteps(discover, replay) = all
  BY DEF WorkflowSteps
<1> HIDE DEF start, d, r, end
<1>7. /\ front \in Seq(StepNames) /\ ~ Has(front, "send") /\ ~ Has(front, "comparison")
      /\ ~ Has(front, "findings")
  BY <1>2, <1>4, Concatenation, HasConcatenation
<1> HIDE DEF front
<1>8. /\ middle \in Seq(StepNames) /\ InOrder(middle, "replay")
      /\ Has(middle, "comparison") => Has(middle, "send")
  BY <1>5, <1>7, Concatenation, HasConcatenation, InOrderAfter
<1> HIDE DEF middle
<1>9. all \in Seq(StepNames) /\ InOrder(all, "workflow")
  BY <1>3, <1>8, Concatenation, InOrderBefore
<1>10. Has(all, "comparison") => Has(all, "send")
  BY <1>3, <1>8, HasConcatenation
<1>11. Has(all, "findings")
  BY <1>3, <1>8, HasConcatenation
<1>12. all # <<>>
  BY <1>1, <1>11
<1>13. Head(all) = "load"
  <2>1. 1 \in 1..Len(start) /\ start[1] = "load"
    BY DEF start
  <2>2. 1 \in 1..Len(front) /\ front[1] = "load"
    BY <1>2, <1>4, <2>1, Concatenation DEF front
  <2>3. 1 \in 1..Len(middle) /\ middle[1] = "load"
    BY <1>5, <1>7, <2>2, Concatenation DEF middle
  <2>4. all[1] = "load"
    BY <1>3, <1>8, <2>3, Concatenation
  <2>5. QED
    BY <1>9, <1>12, <2>4
<1>14. QED
  BY <1>6, <1>9, <1>10, <1>12, <1>13

----------------------------------------------------------------------------
(* The calls and the artifacts *)

ArtifactType ==
  [kind : SavedKinds, by : Calls, late : BOOLEAN, subject : AllEntries \cup Captures]

CallType ==
  [at : {"none", "running", "done", "failed", "crashed"},
   kind : {"none", "decode", "discover", "replay", "workflow"},
   todo : Seq(StepNames), entries : Seq(AllEntries), found : SUBSET ArtifactType,
   sent : BOOLEAN, cancelled : BOOLEAN, stale : BOOLEAN]

IsCall(call) ==
  /\ call.at = "running" => call.todo # <<>> /\ InOrder(call.todo, call.kind)
  /\ call.at = "running" \/ call.sent => call.entries # <<>>
  /\ call.at = "done" => call.todo = <<>>

DataOK ==
  /\ captures \subseteq Captures
  /\ artifacts \subseteq ArtifactType
  /\ calls \in [Calls -> CallType]
  /\ \A id \in Calls : IsCall(calls[id])

(* A call that has loaded its entries works on what is stored, unless a    *)
(* delete has overtaken it.                                                *)
HasLoaded(call) ==
  call.at = "running" /\ Head(call.todo) # "load" /\ ~ call.stale => EntriesIn(call) \subseteq Stored

Goes(call) == call.at \in {"running", "done"}

Kept(id, call, kind) ==
  \E a \in artifacts : a.by = id /\ a.kind = kind /\ a.subject = Head(call.entries)

(* What was sent is recorded and reported, or will be.  What was not sent  *)
(* was cancelled.                                                          *)
HasSent(id, call) ==
  /\ Goes(call) /\ call.sent => ~ Has(call.todo, "load")
  /\ call.at = "running" /\ Has(call.todo, "comparison") /\ ~ Has(call.todo, "send") /\ ~ call.sent
       => call.cancelled
  /\ Goes(call) /\ call.sent /\ ~ call.stale =>
       /\ Has(call.todo, "experiment") \/ Kept(id, call, "experiment")
       /\ Has(call.todo, "comparison") \/ Kept(id, call, "comparison")
       /\ call.kind = "workflow" => Has(call.todo, "findings") \/ ShowsOrIsFull(id, call.found)

(* A comparison comes with an experiment about the same entry: a delete    *)
(* takes both or none.                                                     *)
Pairs ==
  \A a \in artifacts : a.kind = "comparison" /\ ~ a.late =>
    \E b \in artifacts : b.kind = "experiment" /\ b.by = a.by /\ b.subject = a.subject

ToolsOK ==
  /\ DataOK
  /\ \A id \in Calls : HasLoaded(calls[id]) /\ HasSent(id, calls[id])
  /\ OrphansOnlyLate
  /\ Pairs

LEMMA ToolsOKIsEnough ==
  ASSUME ToolsOK
  PROVE  OrphansOnlyLate /\ ComparisonsRest /\ AnsweredIsRecorded /\ ReportShowsReplay
<1>1. ComparisonsRest
  BY DEF ToolsOK, Pairs, ComparisonsRest, Saved
<1>2. ASSUME NEW id \in Calls, calls[id].at = "done", Replayed(id)
      PROVE  /\ Saved(id, "experiment") /\ Saved(id, "comparison")
             /\ calls[id].kind = "workflow" => ShowsOrIsFull(id, calls[id].found)
  <2>1. \A x : ~ Has(calls[id].todo, x)
    BY <1>2 DEF ToolsOK, DataOK, IsCall, Has
  <2>2. QED
    BY <1>2, <2>1 DEF ToolsOK, HasSent, Goes, Replayed, Saved, Kept
<1>3. QED
  BY <1>1, <1>2 DEF ToolsOK, AnsweredIsRecorded, ReportShowsReplay

LEMMA ToolsInit ==
  ASSUME ConstantsOK, Init
  PROVE  ToolsOK
<1>1. NoCall \in CallType /\ IsCall(NoCall)
  BY DEF NoCall, CallType, IsCall
<1>2. DataOK
  BY <1>1 DEF Init, ConstantsOK, DataOK
<1>3. HasLoaded(NoCall) /\ \A id : HasSent(id, NoCall)
  BY DEF HasLoaded, HasSent, Goes, NoCall
<1>4. OrphansOnlyLate /\ Pairs
  BY DEF Init, OrphansOnlyLate, Pairs
<1>5. QED
  BY <1>2, <1>3, <1>4 DEF Init, ToolsOK

----------------------------------------------------------------------------
(* One step of a call *)

(* A call that goes on, with changes that leave its plan alone.            *)
LEMMA GoStep ==
  ASSUME DataOK, NEW id \in Calls, Running(id), NEW changes \in CallType,
         changes.todo = calls[id].todo, changes.kind = calls[id].kind,
         changes.entries = calls[id].entries, Go(id, changes)
  PROVE  /\ calls' \in [Calls -> CallType]
         /\ \A i \in Calls \ {id} : calls'[i] = calls[i]
         /\ IsCall(calls'[id])
         /\ Goes(calls'[id])
         /\ calls'[id].todo = Tail(calls[id].todo)
         /\ calls'[id].kind = calls[id].kind
         /\ calls'[id].entries = calls[id].entries
         /\ calls'[id].found = changes.found
         /\ calls'[id].sent = changes.sent
         /\ calls'[id].cancelled = changes.cancelled
         /\ calls'[id].stale = changes.stale
<1> DEFINE call == calls[id]
           rest == Tail(call.todo)
           at == IF rest = <<>> THEN "done" ELSE "running"
           next == [changes EXCEPT !.todo = rest, !.at = at]
<1>1. /\ call \in CallType /\ call.todo \in Seq(StepNames) /\ call.todo # <<>>
      /\ InOrder(call.todo, call.kind) /\ call.entries # <<>>
  BY DEF DataOK, CallType, IsCall, Running
<1>2. rest \in Seq(StepNames) /\ InOrder(rest, call.kind)
  BY <1>1, TailStep
<1>3. calls' = [calls EXCEPT ![id] = next]
  BY DEF Go
<1>4. next \in CallType
  BY <1>2 DEF CallType
<1>5. /\ next.todo = rest /\ next.at = at /\ next.kind = call.kind /\ next.entries = call.entries
      /\ next.found = changes.found /\ next.sent = changes.sent
      /\ next.cancelled = changes.cancelled /\ next.stale = changes.stale
  BY DEF CallType
<1>6. calls'[id] = next /\ calls' \in [Calls -> CallType]
      /\ \A i \in Calls \ {id} : calls'[i] = calls[i]
  BY <1>3, <1>4 DEF DataOK
<1> HIDE DEF next, rest
<1>7. IsCall(next) /\ Goes(next)
  BY <1>1, <1>2, <1>5 DEF IsCall, Goes
<1>8. QED
  BY <1>5, <1>6, <1>7 DEF rest

LEMMA FailStep ==
  ASSUME DataOK, NEW id \in Calls, Running(id), Fail(id)
  PROVE  /\ calls' \in [Calls -> CallType]
         /\ \A i \in Calls \ {id} : calls'[i] = calls[i]
         /\ IsCall(calls'[id])
         /\ calls'[id].at = "failed"
BY DEF DataOK, CallType, IsCall, Running, Fail

(* A step of one call leaves what holds of the others alone: it adds to    *)
(* the artifacts, and the captures stay.                                   *)
LEMMA OneCallSteps ==
  ASSUME ToolsOK, NEW id \in Calls, captures' = captures,
         artifacts \subseteq artifacts', artifacts' \subseteq ArtifactType,
         calls' \in [Calls -> CallType], \A i \in Calls \ {id} : calls'[i] = calls[i],
         IsCall(calls'[id]), HasLoaded(calls[id])', HasSent(id, calls[id])',
         \A a \in artifacts' \ artifacts :
           /\ a.subject \in captures \cup Stored \/ a.late
           /\ a.kind = "comparison" /\ ~ a.late =>
                \E b \in artifacts' : b.kind = "experiment" /\ b.by = a.by /\ b.subject = a.subject
  PROVE  ToolsOK'
<1>1. Stored' = Stored
  BY DEF Stored
<1>2. DataOK'
  BY DEF ToolsOK, DataOK
<1>3. ASSUME NEW i \in Calls \ {id}
      PROVE  HasLoaded(calls[i])' /\ HasSent(i, calls[i])'
  <2>1. HasLoaded(calls[i]) /\ HasSent(i, calls[i]) /\ calls'[i] = calls[i]
    BY DEF ToolsOK
  <2>2. \A kind : Kept(i, calls[i], kind) => Kept(i, calls[i], kind)'
    BY <2>1 DEF Kept
  <2>3. QED
    BY <1>1, <2>1, <2>2 DEF HasLoaded, HasSent, EntriesIn, Goes
<1>4. OrphansOnlyLate'
  BY <1>1 DEF ToolsOK, OrphansOnlyLate
<1>5. Pairs'
  BY DEF ToolsOK, Pairs
<1>6. QED
  BY <1>2, <1>3, <1>4, <1>5 DEF ToolsOK

LEMMA FailKeepsTools ==
  ASSUME ToolsOK, NEW id \in Calls, Running(id), Fail(id), UNCHANGED <<captures, artifacts>>
  PROVE  ToolsOK'
<1>1. /\ calls' \in [Calls -> CallType] /\ \A i \in Calls \ {id} : calls'[i] = calls[i]
      /\ IsCall(calls'[id]) /\ calls'[id].at = "failed"
  BY FailStep DEF ToolsOK
<1>2. HasLoaded(calls[id])' /\ HasSent(id, calls[id])'
  BY <1>1 DEF HasLoaded, HasSent, Goes
<1>3. QED
  BY <1>1, <1>2, OneCallSteps DEF ToolsOK, DataOK

----------------------------------------------------------------------------
(* An artifact that is saved *)

LEMMA CaptureOfStored ==
  ASSUME ConstantsOK, captures \subseteq Captures, NEW e \in AllEntries
  PROVE  /\ CaptureOf(e) \in Captures
         /\ e \in Stored => CaptureOf(e) \in captures
<1>1. CaptureOf(e) \in Captures /\ e \in EntriesOf[CaptureOf(e)]
  BY DEF CaptureOf, AllEntries
<1>2. ASSUME NEW c \in captures, e \in EntriesOf[c]
      PROVE  CaptureOf(e) = c
  BY <1>1, <1>2 DEF ConstantsOK
<1>3. QED
  BY <1>1, <1>2 DEF Stored

LEMMA SavedIsInPlace ==
  ASSUME ConstantsOK, ToolsOK, NEW id \in Calls, Running(id), Head(calls[id].todo) # "load",
         NEW kind \in SavedKinds
  PROVE  /\ Artifact(id, kind) \in ArtifactType
         /\ Artifact(id, kind).subject \in captures \cup Stored \/ Artifact(id, kind).late
<1> DEFINE e == Head(calls[id].entries)
<1>1. calls[id] \in CallType /\ IsCall(calls[id]) /\ HasLoaded(calls[id])
  BY DEF ToolsOK, DataOK
<1>2. e \in AllEntries /\ e \in EntriesIn(calls[id])
  BY <1>1 DEF CallType, IsCall, Running, EntriesIn
<1>3. ~ calls[id].stale => e \in Stored
  BY <1>1, <1>2 DEF HasLoaded, Running
<1> HIDE DEF e
<1>4. CaptureOf(e) \in Captures /\ (e \in Stored => CaptureOf(e) \in captures)
  BY <1>2, CaptureOfStored DEF ToolsOK, DataOK
<1>5. calls[id].stale \in BOOLEAN
  BY <1>1 DEF CallType
<1>6. /\ Artifact(id, kind).kind = kind /\ Artifact(id, kind).by = id
      /\ Artifact(id, kind).late = calls[id].stale
      /\ Artifact(id, kind).subject = IF kind = "signature" THEN CaptureOf(e) ELSE e
  BY DEF Artifact, e
<1>7. QED
  BY <1>2, <1>3, <1>4, <1>5, <1>6 DEF Artifact, ArtifactType, e

(* When a call comes to its comparison it has sent, and saved the          *)
(* experiment.                                                             *)
LEMMA ComparisonFollows ==
  ASSUME ToolsOK, NEW id \in Calls, Running(id), Head(calls[id].todo) = "comparison",
         ~ calls[id].cancelled, ~ calls[id].stale
  PROVE  Kept(id, calls[id], "experiment")
<1> DEFINE todo == calls[id].todo
<1>1. /\ calls[id] \in CallType /\ IsCall(calls[id]) /\ HasSent(id, calls[id])
      /\ calls[id].at = "running"
  BY DEF ToolsOK, DataOK, Running
<1>2. /\ todo \in Seq(StepNames) /\ InOrder(todo, calls[id].kind)
      /\ 1 \in 1..Len(todo) /\ todo[1] = "comparison"
  BY <1>1 DEF CallType, IsCall
<1> HIDE DEF todo
<1>3. Has(todo, "comparison") /\ ~ Has(todo, "experiment")
  BY <1>2 DEF InOrder, Before, Has
<1>4. ~ Has(todo, "send")
  BY <1>2, <1>3 DEF InOrder, Follows, Has
<1>5. QED
  BY <1>1, <1>3, <1>4 DEF HasSent, Goes, todo

----------------------------------------------------------------------------
(* The steps of a call, one by one *)

(* A call that goes on over a step that neither sends nor reports, with    *)
(* its artifact saved if it is a record of a replay.                       *)
LEMMA OnwardKeepsSent ==
  ASSUME ToolsOK, NEW id \in Calls, Running(id), artifacts \subseteq artifacts',
         Go(id, calls[id]),
         Head(calls[id].todo) \notin {"send", "findings"},
         \A step \in {"experiment", "comparison"} :
           Head(calls[id].todo) = step => Kept(id, calls[id], step)'
  PROVE  HasSent(id, calls[id])'
<1> DEFINE call == calls[id]
           rest == Tail(call.todo)
<1>1. /\ call \in CallType /\ IsCall(call) /\ HasSent(id, call) /\ call.at = "running" /\ DataOK
  BY DEF ToolsOK, DataOK, Running
<1>2. call.todo \in Seq(StepNames) /\ call.todo # <<>> /\ InOrder(call.todo, call.kind)
  BY <1>1 DEF CallType, IsCall
<1>3. /\ Goes(calls'[id]) /\ calls'[id].todo = rest /\ calls'[id].kind = call.kind
      /\ calls'[id].entries = call.entries /\ calls'[id].found = call.found
      /\ calls'[id].sent = call.sent /\ calls'[id].cancelled = call.cancelled
      /\ calls'[id].stale = call.stale
  BY <1>1, GoStep
<1>4. \A x \in StepNames : Has(call.todo, x) <=> Has(rest, x) \/ Head(call.todo) = x
  BY <1>2, TailStep
<1>5. \A x : Kept(id, call, x) => Kept(id, calls[id], x)'
  BY <1>3 DEF Kept
<1> HIDE DEF rest
<1>6. {"load", "send", "experiment", "comparison", "findings"} \subseteq StepNames
  BY DEF StepNames
<1>7. Goes(calls'[id]) /\ calls'[id].sent => ~ Has(rest, "load")
  BY <1>1, <1>3, <1>4, <1>6 DEF HasSent, Goes
<1>8. Has(rest, "comparison") /\ ~ Has(rest, "send") /\ ~ calls'[id].sent => calls'[id].cancelled
  BY <1>1, <1>3, <1>4, <1>6 DEF HasSent
<1>9. ASSUME calls'[id].sent, ~ calls'[id].stale
      PROVE  /\ Has(rest, "experiment") \/ Kept(id, calls[id], "experiment")'
             /\ Has(rest, "comparison") \/ Kept(id, calls[id], "comparison")'
             /\ call.kind = "workflow" => Has(rest, "findings") \/ ShowsOrIsFull(id, call.found)
  <2>1. call.sent /\ ~ call.stale /\ Goes(call)
    BY <1>1, <1>3, <1>9 DEF Goes
  <2>2. /\ Has(call.todo, "experiment") \/ Kept(id, call, "experiment")
        /\ Has(call.todo, "comparison") \/ Kept(id, call, "comparison")
        /\ call.kind = "workflow" => Has(call.todo, "findings") \/ ShowsOrIsFull(id, call.found)
    BY <1>1, <2>1 DEF HasSent
  <2>3. Has(rest, "experiment") \/ Kept(id, calls[id], "experiment")'
    <3>1. CASE Head(call.todo) = "experiment"
      BY <3>1 DEF call
    <3>2. CASE Head(call.todo) # "experiment"
      BY <1>4, <1>5, <1>6, <2>2, <3>2
    <3>3. QED
      BY <3>1, <3>2
  <2>4. Has(rest, "comparison") \/ Kept(id, calls[id], "comparison")'
    <3>1. CASE Head(call.todo) = "comparison"
      BY <3>1 DEF call
    <3>2. CASE Head(call.todo) # "comparison"
      BY <1>4, <1>5, <1>6, <2>2, <3>2
    <3>3. QED
      BY <3>1, <3>2
  <2>5. Has(call.todo, "findings") => Has(rest, "findings")
    BY <1>4, <1>6
  <2>6. QED
    BY <2>2, <2>3, <2>4, <2>5
<1>10. QED
  BY <1>3, <1>7, <1>8, <1>9 DEF HasSent

(* What a call that goes on has loaded stays loaded.                       *)
LEMMA OnwardKeepsLoaded ==
  ASSUME ToolsOK, NEW id \in Calls, Running(id), captures' = captures,
         Head(calls[id].todo) # "load", NEW changes \in CallType,
         changes.todo = calls[id].todo, changes.kind = calls[id].kind,
         changes.entries = calls[id].entries, changes.stale = calls[id].stale,
         Go(id, changes)
  PROVE  HasLoaded(calls[id])'
<1>1. HasLoaded(calls[id]) /\ calls[id].at = "running" /\ DataOK
  BY DEF ToolsOK, Running
<1>2. calls'[id].entries = calls[id].entries /\ calls'[id].stale = calls[id].stale
  BY <1>1, GoStep
<1>3. EntriesIn(calls'[id]) = EntriesIn(calls[id]) /\ Stored' = Stored
  BY <1>2 DEF EntriesIn, Stored
<1>4. QED
  BY <1>1, <1>2, <1>3 DEF HasLoaded

LEMMA LoadKeepsTools ==
  ASSUME ToolsOK, NEW id \in Calls, Load(id)
  PROVE  ToolsOK'
<1>1. /\ Running(id) /\ Head(calls[id].todo) = "load" /\ DataOK
      /\ UNCHANGED <<captures, artifacts>>
  BY DEF Load, Next1, ToolsOK
<1>2. CASE ~ EntriesIn(calls[id]) \subseteq Stored
  BY <1>1, <1>2, FailKeepsTools DEF Load
<1>3. CASE EntriesIn(calls[id]) \subseteq Stored
  <2> DEFINE changes == [calls[id] EXCEPT !.stale = FALSE]
  <2>1. calls[id] \in CallType /\ IsCall(calls[id]) /\ HasSent(id, calls[id])
    BY DEF ToolsOK, DataOK
  <2>2. /\ changes \in CallType /\ changes.todo = calls[id].todo /\ changes.kind = calls[id].kind
        /\ changes.entries = calls[id].entries /\ changes.sent = calls[id].sent
        /\ changes.cancelled = calls[id].cancelled
    BY <2>1 DEF CallType
  <2>3. Go(id, changes)
    BY <1>3 DEF Load
  <2> HIDE DEF changes
  <2>4. /\ calls' \in [Calls -> CallType] /\ \A i \in Calls \ {id} : calls'[i] = calls[i]
        /\ IsCall(calls'[id]) /\ calls'[id].todo = Tail(calls[id].todo)
        /\ calls'[id].entries = calls[id].entries /\ calls'[id].sent = calls[id].sent
        /\ calls'[id].cancelled = calls[id].cancelled
    BY <1>1, <2>2, <2>3, GoStep
  <2>5. HasLoaded(calls[id])'
    <3>1. EntriesIn(calls'[id]) = EntriesIn(calls[id]) /\ Stored' = Stored
      BY <1>1, <2>4 DEF EntriesIn, Stored
    <3>2. QED
      BY <1>3, <3>1 DEF HasLoaded
  <2>6. /\ calls[id].todo \in Seq(StepNames) /\ calls[id].todo # <<>>
        /\ InOrder(calls[id].todo, calls[id].kind)
    BY <1>1, <2>1 DEF CallType, IsCall, Running
  <2>7. \A x \in StepNames :
          Has(calls[id].todo, x) <=> Has(Tail(calls[id].todo), x) \/ Head(calls[id].todo) = x
    BY <2>6, TailStep
  <2>8. {"load", "send", "comparison"} \subseteq StepNames
    BY DEF StepNames
  <2>9. ~ calls[id].sent
    BY <1>1, <2>1, <2>7, <2>8 DEF HasSent, Goes, Running
  <2>10. HasSent(id, calls[id])'
    BY <1>1, <2>1, <2>4, <2>7, <2>8, <2>9 DEF HasSent, Goes, Running
  <2>11. QED
    BY <1>1, <2>4, <2>5, <2>10, OneCallSteps DEF DataOK
<1>4. QED
  BY <1>2, <1>3

LEMMA SendKeepsTools ==
  ASSUME ToolsOK, NEW id \in Calls, Send(id)
  PROVE  ToolsOK'
<1> DEFINE changes == [calls[id] EXCEPT !.sent = ~ calls[id].cancelled]
           todo == calls[id].todo
<1>1. /\ Running(id) /\ Head(todo) = "send" /\ Go(id, changes) /\ DataOK
      /\ UNCHANGED <<captures, artifacts>>
  BY DEF Send, Next1, ToolsOK
<1>2. calls[id] \in CallType /\ IsCall(calls[id])
  BY <1>1 DEF DataOK
<1>3. /\ changes \in CallType /\ changes.todo = todo /\ changes.kind = calls[id].kind
      /\ changes.entries = calls[id].entries /\ changes.sent = ~ calls[id].cancelled
      /\ changes.cancelled = calls[id].cancelled /\ changes.stale = calls[id].stale
  BY <1>2 DEF CallType
<1> HIDE DEF changes
<1>4. /\ calls' \in [Calls -> CallType] /\ \A i \in Calls \ {id} : calls'[i] = calls[i]
      /\ IsCall(calls'[id]) /\ calls'[id].todo = Tail(todo) /\ calls'[id].kind = calls[id].kind
      /\ calls'[id].sent = ~ calls[id].cancelled /\ calls'[id].cancelled = calls[id].cancelled
  BY <1>1, <1>3, GoStep
<1>5. HasLoaded(calls[id])'
  BY <1>1, <1>3, OnwardKeepsLoaded
<1>6. todo \in Seq(StepNames) /\ todo # <<>> /\ InOrder(todo, calls[id].kind)
  BY <1>1, <1>2 DEF CallType, IsCall, Running
<1>7. 1 \in 1..Len(todo) /\ todo[1] = "send" /\ Tail(todo) \in Seq(StepNames)
      /\ \A i \in 1..Len(Tail(todo)) : i + 1 \in 1..Len(todo) /\ Tail(todo)[i] = todo[i + 1]
  BY <1>1, <1>6
<1> HIDE DEF todo
<1>8. ~ Has(Tail(todo), "load")
  BY <1>6, <1>7 DEF InOrder, Before, Has
<1>9. ASSUME NEW x, Follows(todo, 1, x)
      PROVE  Has(Tail(todo), x)
  <2>1. PICK j \in 1..Len(todo) : 1 < j /\ todo[j] = x
    BY <1>9 DEF Follows
  <2>2. j - 1 \in 1..Len(Tail(todo)) /\ Tail(todo)[j - 1] = x
    BY <1>6, <2>1
  <2>3. QED
    BY <2>2 DEF Has
<1>10. /\ Has(Tail(todo), "experiment") /\ Has(Tail(todo), "comparison")
       /\ calls[id].kind = "workflow" => Has(Tail(todo), "findings")
  BY <1>6, <1>7, <1>9 DEF InOrder
<1>11. HasSent(id, calls[id])'
  BY <1>4, <1>8, <1>10 DEF HasSent
<1>12. QED
  BY <1>1, <1>4, <1>5, <1>11, OneCallSteps DEF DataOK

LEMMA AnswerKeepsTools ==
  ASSUME ToolsOK, NEW id \in Calls, Answer(id)
  PROVE  ToolsOK'
<1>1. /\ Running(id) /\ Head(calls[id].todo) = "answer" /\ Go(id, calls[id]) /\ DataOK
      /\ UNCHANGED <<captures, artifacts>>
  BY DEF Answer, Next1, ToolsOK
<1>2. calls[id] \in CallType
  BY <1>1 DEF DataOK
<1>3. /\ calls' \in [Calls -> CallType] /\ \A i \in Calls \ {id} : calls'[i] = calls[i]
      /\ IsCall(calls'[id])
  BY <1>1, <1>2, GoStep
<1>4. HasLoaded(calls[id])' /\ HasSent(id, calls[id])'
  BY <1>1, <1>2, OnwardKeepsLoaded, OnwardKeepsSent
<1>5. QED
  BY <1>1, <1>3, <1>4, OneCallSteps DEF DataOK

(* A call saves an artifact and goes on.                                   *)
LEMMA SaveStep ==
  ASSUME ConstantsOK, ToolsOK, NEW id \in Calls, Running(id), Head(calls[id].todo) # "load",
         Head(calls[id].todo) \notin {"send", "findings"},
         NEW kind \in SavedKinds, captures' = captures,
         artifacts' = artifacts \cup {Artifact(id, kind)}, Go(id, calls[id]),
         Head(calls[id].todo) \in {"experiment", "comparison"} => Head(calls[id].todo) = kind,
         kind = "comparison" => Head(calls[id].todo) = "comparison" /\ ~ calls[id].cancelled
  PROVE  ToolsOK'
<1> DEFINE new == Artifact(id, kind)
<1>1. /\ calls[id] \in CallType /\ DataOK
  BY DEF ToolsOK, DataOK
<1>2. new \in ArtifactType /\ (new.subject \in captures \cup Stored \/ new.late)
  BY SavedIsInPlace
<1>3. /\ new.kind = kind /\ new.by = id /\ new.late = calls[id].stale
      /\ kind # "signature" => new.subject = Head(calls[id].entries)
  BY DEF Artifact
<1> HIDE DEF new
<1>4. new \in artifacts' /\ artifacts \subseteq artifacts' /\ artifacts' \subseteq ArtifactType
      /\ \A a \in artifacts' \ artifacts : a = new
  BY <1>1, <1>2 DEF new, DataOK
<1>5. /\ calls' \in [Calls -> CallType] /\ \A i \in Calls \ {id} : calls'[i] = calls[i]
      /\ IsCall(calls'[id]) /\ calls'[id].entries = calls[id].entries
  BY <1>1, GoStep
<1>6. ASSUME NEW step \in {"experiment", "comparison"}, Head(calls[id].todo) = step
      PROVE  Kept(id, calls[id], step)'
  BY <1>3, <1>4, <1>5, <1>6 DEF Kept
<1>7. HasLoaded(calls[id])' /\ HasSent(id, calls[id])'
  BY <1>1, <1>4, <1>6, OnwardKeepsLoaded, OnwardKeepsSent
<1>8. new.kind = "comparison" /\ ~ new.late =>
        \E b \in artifacts' : b.kind = "experiment" /\ b.by = new.by /\ b.subject = new.subject
  <2>1. SUFFICES ASSUME kind = "comparison", ~ calls[id].stale
                 PROVE  \E b \in artifacts' : /\ b.kind = "experiment" /\ b.by = new.by
                                              /\ b.subject = new.subject
    BY <1>3
  <2>2. Kept(id, calls[id], "experiment")
    BY <2>1, ComparisonFollows
  <2>3. QED
    BY <1>3, <1>4, <2>1, <2>2 DEF Kept
<1>9. QED
  BY <1>2, <1>4, <1>5, <1>7, <1>8, OneCallSteps

(* A call goes on without saving anything.                                 *)
LEMMA SkipStep ==
  ASSUME ToolsOK, NEW id \in Calls, Running(id), Head(calls[id].todo) # "load",
         Head(calls[id].todo) \notin {"send", "findings", "experiment", "comparison"},
         UNCHANGED <<captures, artifacts>>, Go(id, calls[id])
  PROVE  ToolsOK'
<1>1. calls[id] \in CallType /\ DataOK
  BY DEF ToolsOK, DataOK
<1>2. /\ calls' \in [Calls -> CallType] /\ \A i \in Calls \ {id} : calls'[i] = calls[i]
      /\ IsCall(calls'[id])
  BY <1>1, GoStep
<1>3. HasLoaded(calls[id])' /\ HasSent(id, calls[id])'
  BY <1>1, OnwardKeepsLoaded, OnwardKeepsSent
<1>4. QED
  BY <1>1, <1>2, <1>3, OneCallSteps DEF DataOK

LEMMA SaveKeepsTools ==
  ASSUME ConstantsOK, ToolsOK, NEW id \in Calls, NEW kind \in SavedKinds, NEW some \in BOOLEAN,
         SaveArtifact(id, kind, some)
  PROVE  ToolsOK'
<1>1. /\ Running(id) /\ Head(calls[id].todo) = kind /\ ~ calls[id].cancelled
      /\ (some \/ kind = "signature") /\ captures' = captures /\ Go(id, calls[id])
      /\ artifacts' = IF some THEN artifacts \cup {Artifact(id, kind)} ELSE artifacts
  BY DEF SaveArtifact, Next1
<1>2. kind \notin {"load", "send", "findings"}
  BY DEF SavedKinds
<1>3. CASE some
  BY <1>1, <1>2, <1>3, SaveStep
<1>4. CASE ~ some
  BY <1>1, <1>2, <1>4, SkipStep
<1>5. QED
  BY <1>3, <1>4

LEMMA TryDecodeKeepsTools ==
  ASSUME ConstantsOK, ToolsOK, NEW id \in Calls, NEW saved \in BOOLEAN, TryDecode(id, saved)
  PROVE  ToolsOK'
<1>1. /\ Running(id) /\ Head(calls[id].todo) = "tryDecoded" /\ captures' = captures
      /\ Go(id, calls[id])
      /\ artifacts' = IF saved THEN artifacts \cup {Artifact(id, "decoded")} ELSE artifacts
  BY DEF TryDecode, Next1
<1>2. CASE saved
  BY <1>1, <1>2, SaveStep DEF SavedKinds
<1>3. CASE ~ saved
  BY <1>1, <1>3, SkipStep
<1>4. QED
  BY <1>2, <1>3

LEMMA StoreFailsKeepsTools ==
  ASSUME ConstantsOK, ToolsOK, NEW id \in Calls, StoreFails(id)
  PROVE  ToolsOK'
<1>1. /\ Running(id) /\ Fail(id) /\ captures' = captures /\ DataOK
      /\ artifacts' \in {artifacts} \cup
           IF Next1(id, "signature") THEN {artifacts \cup {Artifact(id, "signature")}} ELSE {}
  BY DEF StoreFails, Next1, ToolsOK
<1>2. CASE artifacts' = artifacts
  BY <1>1, <1>2, FailKeepsTools
<1>3. CASE Next1(id, "signature") /\ artifacts' = artifacts \cup {Artifact(id, "signature")}
  <2> DEFINE new == Artifact(id, "signature")
  <2>1. new \in ArtifactType /\ (new.subject \in captures \cup Stored \/ new.late)
    BY <1>1, <1>3, SavedIsInPlace DEF Next1, SavedKinds
  <2>2. new.kind = "signature"
    BY DEF Artifact
  <2> HIDE DEF new
  <2>3. artifacts \subseteq artifacts' /\ artifacts' \subseteq ArtifactType
        /\ \A a \in artifacts' \ artifacts : a = new
    BY <1>1, <1>3, <2>1 DEF new, DataOK
  <2>4. /\ calls' \in [Calls -> CallType] /\ \A i \in Calls \ {id} : calls'[i] = calls[i]
        /\ IsCall(calls'[id]) /\ calls'[id].at = "failed"
    BY <1>1, FailStep
  <2>5. HasLoaded(calls[id])' /\ HasSent(id, calls[id])'
    BY <2>4 DEF HasLoaded, HasSent, Goes
  <2>6. QED
    BY <1>1, <2>1, <2>2, <2>3, <2>4, <2>5, OneCallSteps
<1>4. QED
  BY <1>1, <1>2, <1>3

LEMMA ListKeepsTools ==
  ASSUME ToolsOK, NEW id \in Calls, ListFindings(id)
  PROVE  ToolsOK'
<1> DEFINE findings == {a \in artifacts : /\ a.kind = "comparison"
                                         /\ a.subject = Head(calls[id].entries)}
<1>0. PICK listed \in Newest(findings) : Go(id, [calls[id] EXCEPT !.found = listed])
  BY DEF ListFindings
<1> DEFINE changes == [calls[id] EXCEPT !.found = listed]
           todo == calls[id].todo
<1>1. /\ Running(id) /\ Head(todo) = "findings" /\ Go(id, changes) /\ DataOK
      /\ ~ calls[id].cancelled /\ UNCHANGED <<captures, artifacts>>
  BY <1>0 DEF ListFindings, Next1, ToolsOK
<1>2. calls[id] \in CallType /\ IsCall(calls[id]) /\ HasSent(id, calls[id])
  BY <1>1 DEF DataOK, ToolsOK
<1>3. /\ listed \in SUBSET ArtifactType /\ listed \subseteq findings
      /\ listed # findings => Cardinality(listed) = MaxFindings
  BY <1>0, <1>1 DEF DataOK, Newest
<1>4. /\ changes \in CallType /\ changes.todo = todo /\ changes.kind = calls[id].kind
      /\ changes.entries = calls[id].entries /\ changes.sent = calls[id].sent
      /\ changes.cancelled = calls[id].cancelled /\ changes.stale = calls[id].stale
      /\ changes.found = listed
  BY <1>2, <1>3 DEF CallType
<1> HIDE DEF changes
<1>5. /\ calls' \in [Calls -> CallType] /\ \A i \in Calls \ {id} : calls'[i] = calls[i]
      /\ IsCall(calls'[id]) /\ calls'[id].todo = Tail(todo) /\ calls'[id].kind = calls[id].kind
      /\ calls'[id].entries = calls[id].entries /\ calls'[id].sent = calls[id].sent
      /\ calls'[id].cancelled = calls[id].cancelled /\ calls'[id].stale = calls[id].stale
      /\ calls'[id].found = listed
  BY <1>1, <1>4, GoStep
<1>6. HasLoaded(calls[id])'
  BY <1>1, <1>4, OnwardKeepsLoaded
<1>7. todo \in Seq(StepNames) /\ todo # <<>> /\ InOrder(todo, calls[id].kind)
  BY <1>1, <1>2 DEF CallType, IsCall, Running
<1>8. 1 \in 1..Len(todo) /\ todo[1] = "findings"
  BY <1>1, <1>7
<1>9. /\ \A x \in StepNames : Has(todo, x) <=> Has(Tail(todo), x) \/ Head(todo) = x
      /\ {"load", "send", "experiment", "comparison", "findings"} \subseteq StepNames
  BY <1>7, TailStep DEF StepNames
<1> HIDE DEF todo
<1>10. ~ Has(todo, "comparison")
  BY <1>7, <1>8 DEF InOrder, Before, Has
<1>11. \A x : Kept(id, calls[id], x) => Kept(id, calls[id], x)'
  BY <1>1, <1>5 DEF Kept
<1>12. ASSUME calls'[id].sent
       PROVE  ~ Has(Tail(todo), "load")
  BY <1>1, <1>2, <1>5, <1>9, <1>12 DEF HasSent, Goes, Running, todo
<1>13. ~ Has(Tail(todo), "comparison")
  BY <1>9, <1>10
<1>14. ASSUME calls'[id].sent, ~ calls'[id].stale
       PROVE  /\ Has(Tail(todo), "experiment") \/ Kept(id, calls[id], "experiment")'
              /\ Kept(id, calls[id], "comparison")'
              /\ ShowsOrIsFull(id, listed)
  <2>1. calls[id].sent /\ ~ calls[id].stale /\ Goes(calls[id])
    BY <1>1, <1>5, <1>14 DEF Goes, Running
  <2>2. /\ Has(todo, "experiment") \/ Kept(id, calls[id], "experiment")
        /\ Kept(id, calls[id], "comparison")
    BY <1>2, <1>10, <2>1 DEF HasSent, todo
  <2>3. Has(todo, "experiment") => Has(Tail(todo), "experiment")
    BY <1>1, <1>9
  <2>4. \E a \in findings : a.by = id
    BY <2>2 DEF Kept
  <2>5. ShowsOrIsFull(id, listed)
    BY <1>3, <2>4 DEF ShowsOrIsFull
  <2>6. QED
    BY <1>11, <2>2, <2>3, <2>5
<1>15. HasSent(id, calls[id])'
  BY <1>5, <1>12, <1>13, <1>14 DEF HasSent
<1>16. QED
  BY <1>1, <1>5, <1>6, <1>15, OneCallSteps DEF DataOK

LEMMA CancelKeepsTools ==
  ASSUME ToolsOK, NEW id \in Calls, Cancel(id)
  PROVE  ToolsOK'
<1>1. /\ Running(id) /\ DataOK /\ UNCHANGED <<captures, artifacts>>
      /\ calls' = [calls EXCEPT ![id].cancelled = TRUE]
  BY DEF Cancel, ToolsOK
<1>2. calls[id] \in CallType /\ IsCall(calls[id])
  BY <1>1 DEF DataOK
<1>3. /\ calls' \in [Calls -> CallType] /\ \A i \in Calls \ {id} : calls'[i] = calls[i]
      /\ calls'[id] = [calls[id] EXCEPT !.cancelled = TRUE]
  BY <1>1, <1>2 DEF DataOK, CallType
<1>4. /\ calls'[id].at = calls[id].at /\ calls'[id].kind = calls[id].kind
      /\ calls'[id].todo = calls[id].todo /\ calls'[id].entries = calls[id].entries
      /\ calls'[id].found = calls[id].found /\ calls'[id].sent = calls[id].sent
      /\ calls'[id].stale = calls[id].stale /\ calls'[id].cancelled
  BY <1>2, <1>3 DEF CallType
<1>5. IsCall(calls'[id])
  BY <1>2, <1>4 DEF IsCall
<1>6. HasLoaded(calls[id])'
  <2>1. EntriesIn(calls'[id]) = EntriesIn(calls[id]) /\ Stored' = Stored
    BY <1>1, <1>4 DEF EntriesIn, Stored
  <2>2. HasLoaded(calls[id])
    BY DEF ToolsOK
  <2>3. QED
    BY <1>4, <2>1, <2>2 DEF HasLoaded
<1>7. HasSent(id, calls[id])'
  <2>1. \A x : Kept(id, calls[id], x) => Kept(id, calls[id], x)'
    BY <1>1, <1>4 DEF Kept
  <2>2. HasSent(id, calls[id])
    BY DEF ToolsOK
  <2>3. QED
    BY <1>4, <2>1, <2>2 DEF HasSent, Goes
<1>8. QED
  BY <1>1, <1>3, <1>5, <1>6, <1>7, OneCallSteps DEF DataOK

LEMMA WorkKeepsTools ==
  ASSUME ConstantsOK, ToolsOK, NEW id \in Calls, Work(id)
  PROVE  ToolsOK'
<1>1. CASE Load(id)
  BY <1>1, LoadKeepsTools
<1>2. CASE Reject(id)
  BY <1>2, FailKeepsTools DEF Reject, Next1
<1>3. CASE Send(id)
  BY <1>3, SendKeepsTools
<1>4. CASE Answer(id)
  BY <1>4, AnswerKeepsTools
<1>5. CASE \E kind \in SavedKinds, some \in BOOLEAN : SaveArtifact(id, kind, some)
  BY <1>5, SaveKeepsTools
<1>6. CASE \E saved \in BOOLEAN : TryDecode(id, saved)
  BY <1>6, TryDecodeKeepsTools
<1>7. CASE ListFindings(id)
  BY <1>7, ListKeepsTools
<1>8. CASE StoreFails(id)
  BY <1>8, StoreFailsKeepsTools
<1>9. QED
  BY <1>1, <1>2, <1>3, <1>4, <1>5, <1>6, <1>7, <1>8 DEF Work

----------------------------------------------------------------------------
(* A call that begins *)

LEMMA NewCall ==
  ASSUME ToolsOK, NEW id \in Calls, UNCHANGED <<captures, artifacts>>,
         NEW call \in CallType, calls' = [calls EXCEPT ![id] = call], IsCall(call),
         call.at = "running" => Head(call.todo) = "load",
         ~ call.sent, Has(call.todo, "comparison") => Has(call.todo, "send")
  PROVE  ToolsOK'
<1>1. /\ calls' \in [Calls -> CallType] /\ \A i \in Calls \ {id} : calls'[i] = calls[i]
      /\ calls'[id] = call
  BY DEF ToolsOK, DataOK
<1>2. HasLoaded(calls[id])' /\ HasSent(id, calls[id])'
  BY <1>1 DEF HasLoaded, HasSent
<1>3. QED
  BY <1>1, <1>2, OneCallSteps DEF ToolsOK, DataOK

(* Pairs and single entries of a set, as a request lists them.             *)
LEMMA ShortLists ==
  ASSUME NEW X
  PROVE  /\ <<>> \in Seq(X)
         /\ \A e \in X : <<e>> \in Seq(X) /\ <<e>> # <<>>
         /\ \A s \in [1..2 -> X] : s \in Seq(X) /\ s # <<>>
<1>1. <<>> \in Seq(X) /\ \A e \in X : <<e>> \in Seq(X) /\ <<e>> # <<>>
  OBVIOUS
<1>2. ASSUME NEW s \in [1..2 -> X]
      PROVE  s \in Seq(X) /\ s # <<>>
  <2>1. s \in Seq(X)
    BY SeqDef
  <2>2. DOMAIN s = 1..2 /\ DOMAIN <<>> = 1..0
    OBVIOUS
  <2>3. 1 \in 1..2 /\ 1 \notin 1..0
    OBVIOUS
  <2>4. s # <<>>
    BY <2>2, <2>3
  <2>5. QED
    BY <2>1, <2>4
<1>3. QED
  BY <1>1, <1>2

LEMMA BeginKeepsTools ==
  ASSUME ToolsOK, NEW id \in Calls, NEW kind \in Kinds \ {"workflow"},
         NEW entries \in Selections(kind), ConstantsOK, Begin(id, kind, entries)
  PROVE  ToolsOK'
<1> DEFINE call == [NoCall EXCEPT !.at = "running", !.kind = kind, !.entries = entries,
                                  !.todo = Steps(kind)]
<1>1. kind \in {"decode", "discover", "replay"}
  BY DEF ConstantsOK
<1>2. entries \in Seq(AllEntries) /\ entries # <<>>
  BY ShortLists DEF Selections
<1>3. /\ Steps(kind) \in Seq(StepNames) /\ Steps(kind) # <<>> /\ Head(Steps(kind)) = "load"
      /\ InOrder(Steps(kind), kind) /\ (Has(Steps(kind), "comparison") => Has(Steps(kind), "send"))
  BY <1>1, StepsInOrder
<1>4. /\ call \in CallType /\ call.at = "running" /\ call.kind = kind /\ call.entries = entries
      /\ call.todo = Steps(kind) /\ call.sent = FALSE
  BY <1>1, <1>2, <1>3 DEF CallType, NoCall
<1>5. calls' = [calls EXCEPT ![id] = call] /\ UNCHANGED <<captures, artifacts>>
  BY DEF Begin
<1> HIDE DEF call
<1>6. IsCall(call)
  BY <1>2, <1>3, <1>4 DEF IsCall
<1>7. QED
  BY <1>3, <1>4, <1>5, <1>6, NewCall

LEMMA BeginWorkflowKeepsTools ==
  ASSUME ToolsOK, NEW id \in Calls, NEW capture \in Captures, NEW fromLive \in BOOLEAN,
         NEW advance \in BOOLEAN, NEW replay \in BOOLEAN, NEW discover \in BOOLEAN,
         NEW page \in SUBSET EntriesOf[capture], NEW entries \in Candidates(page),
         BeginWorkflow(id, capture, page, fromLive, advance, entries, replay, discover)
  PROVE  ToolsOK'
<1> DEFINE at == IF entries = <<>> THEN "done" ELSE "running"
           todo == IF entries = <<>> THEN <<>> ELSE WorkflowSteps(discover, replay)
           call == [NoCall EXCEPT !.at = at, !.kind = "workflow", !.entries = entries,
                                  !.todo = todo]
<1>1. entries \in Seq(page) /\ page \subseteq AllEntries
  BY ShortLists DEF Candidates, AllEntries
<1>2. entries \in Seq(AllEntries)
  BY <1>1
<1>3. todo \in Seq(StepNames) /\ (Has(todo, "comparison") => Has(todo, "send"))
  <2>1. <<>> \in Seq(StepNames) /\ \A x : ~ Has(<<>>, x)
    BY DEF Has
  <2>2. QED
    BY <2>1, WorkflowInOrder
<1>4. entries # <<>> => todo # <<>> /\ Head(todo) = "load" /\ InOrder(todo, "workflow")
  BY WorkflowInOrder
<1>5. calls' = [calls EXCEPT ![id] = call] /\ UNCHANGED <<captures, artifacts>>
  BY DEF BeginWorkflow
<1>6. entries = <<>> => todo = <<>>
  OBVIOUS
<1> HIDE DEF todo
<1>7. /\ call \in CallType /\ call.at = at /\ call.kind = "workflow" /\ call.entries = entries
      /\ call.todo = todo /\ call.sent = FALSE
  BY <1>2, <1>3 DEF CallType, NoCall
<1> HIDE DEF call
<1>8. IsCall(call)
  BY <1>4, <1>6, <1>7 DEF IsCall
<1>9. call.at = "running" => Head(call.todo) = "load"
  <2>1. CASE entries = <<>>
    BY <1>7, <2>1
  <2>2. CASE entries # <<>>
    BY <1>4, <1>7, <2>2
  <2>3. QED
    BY <2>1, <2>2
<1>10. ~ call.sent /\ (Has(call.todo, "comparison") => Has(call.todo, "send"))
  BY <1>3, <1>7
<1> HIDE DEF at
<1>11. call \in CallType
  BY <1>7
<1>12. QED
  BY <1>5, <1>8, <1>9, <1>10, <1>11, NewCall

----------------------------------------------------------------------------
(* The captures *)

(* A delete takes from the captures and artifacts what belongs to c, and   *)
(* marks the calls that work on it.                                        *)
LEMMA DeletedEntries ==
  ASSUME ConstantsOK, captures \subseteq Captures, NEW c \in captures, captures' = captures \ {c}
  PROVE  Stored' = Stored \ EntriesOf[c]
BY DEF ConstantsOK, Stored

LEMMA DeleteKeepsTools ==
  ASSUME ConstantsOK, ToolsOK, NEW c \in Captures, Delete(c)
  PROVE  ToolsOK'
<1>1. /\ c \in captures /\ captures' = captures \ {c} /\ DataOK
      /\ artifacts' = {a \in artifacts : a.subject \notin {c} \cup EntriesOf[c]}
      /\ calls' = [id \in Calls |->
           [calls[id] EXCEPT !.stale = @ \/ EntriesIn(calls[id]) \cap EntriesOf[c] # {}]]
  BY DEF Delete, DeletedWith, ToolsOK
<1>2. Stored' = Stored \ EntriesOf[c]
  BY <1>1, DeletedEntries DEF DataOK
<1>3. ASSUME NEW id \in Calls
      PROVE  /\ calls'[id] \in CallType /\ IsCall(calls'[id])
             /\ HasLoaded(calls[id])' /\ HasSent(id, calls[id])'
  <2> DEFINE call == calls[id]
             hit == EntriesIn(call) \cap EntriesOf[c] # {}
  <2>1. call \in CallType /\ IsCall(call) /\ HasLoaded(call) /\ HasSent(id, call)
    BY <1>1 DEF DataOK, ToolsOK
  <2>2. hit \in BOOLEAN /\ calls'[id] = [call EXCEPT !.stale = call.stale \/ hit]
    BY <1>1
  <2> HIDE DEF hit
  <2>3. /\ calls'[id] \in CallType /\ calls'[id].at = call.at /\ calls'[id].kind = call.kind
        /\ calls'[id].todo = call.todo /\ calls'[id].entries = call.entries
        /\ calls'[id].found = call.found /\ calls'[id].sent = call.sent
        /\ calls'[id].cancelled = call.cancelled /\ (calls'[id].stale <=> call.stale \/ hit)
    BY <2>1, <2>2 DEF CallType
  <2>4. IsCall(calls'[id])
    BY <2>1, <2>3 DEF IsCall
  <2>5. EntriesIn(calls'[id]) = EntriesIn(call)
    BY <2>3 DEF EntriesIn
  <2>6. HasLoaded(calls[id])'
    BY <1>2, <2>1, <2>3, <2>5 DEF HasLoaded, hit
  <2>7. ASSUME ~ hit, Goes(call), call.sent, NEW kind, Kept(id, call, kind)
        PROVE  Kept(id, calls[id], kind)'
    <3>1. PICK a \in artifacts : a.by = id /\ a.kind = kind /\ a.subject = Head(call.entries)
      BY <2>7 DEF Kept
    <3>2. Head(call.entries) \in EntriesIn(call) /\ Head(call.entries) \in AllEntries
      BY <2>1, <2>7 DEF CallType, IsCall, EntriesIn
    <3>3. Head(call.entries) \notin EntriesOf[c]
      BY <2>7, <3>2 DEF hit
    <3>4. Head(call.entries) # c
      BY <3>2 DEF ConstantsOK, AllEntries
    <3>5. a \in artifacts'
      BY <1>1, <3>1, <3>3, <3>4
    <3>6. QED
      BY <2>3, <3>1, <3>5 DEF Kept
  <2>8. HasSent(id, calls[id])'
    BY <2>1, <2>3, <2>7 DEF HasSent, Goes
  <2>9. QED
    BY <2>3, <2>4, <2>6, <2>8
<1>4. calls' \in [Calls -> CallType]
  BY <1>1, <1>3
<1>5. DataOK'
  BY <1>1, <1>3, <1>4 DEF DataOK
<1>6. OrphansOnlyLate'
  <2>1. SUFFICES ASSUME NEW a \in artifacts', a.subject \notin captures' \cup Stored'
                 PROVE  a.late
    BY DEF OrphansOnlyLate
  <2>2. a \in artifacts /\ a.subject \notin {c} \cup EntriesOf[c]
    BY <1>1, <2>1
  <2>3. a.subject \notin captures \cup Stored
    BY <1>1, <1>2, <2>1, <2>2
  <2>4. QED
    BY <2>2, <2>3 DEF ToolsOK, OrphansOnlyLate
<1>7. Pairs'
  BY <1>1 DEF ToolsOK, Pairs
<1>8. QED
  BY <1>3, <1>5, <1>6, <1>7 DEF ToolsOK

LEMMA ImportKeepsTools ==
  ASSUME ToolsOK, NEW c \in Captures, Import(c)
  PROVE  ToolsOK'
<1>1. /\ captures' = captures \cup {c} /\ UNCHANGED <<artifacts, calls>>
      /\ Stored \subseteq Stored'
  BY DEF Import, Stored
<1>2. DataOK'
  BY <1>1 DEF ToolsOK, DataOK
<1>3. ASSUME NEW id \in Calls
      PROVE  HasLoaded(calls[id])' /\ HasSent(id, calls[id])'
  <2>1. HasLoaded(calls[id]) /\ HasSent(id, calls[id]) /\ calls' = calls /\ artifacts' = artifacts
    BY <1>1 DEF ToolsOK
  <2>2. HasLoaded(calls[id])'
    BY <1>1, <2>1 DEF HasLoaded, EntriesIn
  <2>3. HasSent(id, calls[id])'
    BY <2>1 DEF HasSent, Goes, Kept
  <2>4. QED
    BY <2>2, <2>3
<1>4. OrphansOnlyLate' /\ Pairs'
  BY <1>1 DEF ToolsOK, OrphansOnlyLate, Pairs
<1>5. QED
  BY <1>2, <1>3, <1>4 DEF ToolsOK

LEMMA SameKeepsTools ==
  ASSUME ToolsOK, UNCHANGED <<captures, artifacts, calls>>
  PROVE  ToolsOK'
BY DEF ToolsOK, DataOK, HasLoaded, HasSent, ShowsOrIsFull, Goes, Kept, OrphansOnlyLate, Pairs, Stored,
       EntriesIn

LEMMA CrashKeepsTools ==
  ASSUME ToolsOK, Crash
  PROVE  ToolsOK'
<1>1. /\ DataOK /\ UNCHANGED <<captures, artifacts>> /\ Stored' = Stored
      /\ calls' = [id \in Calls |-> IF Running(id) THEN [calls[id] EXCEPT !.at = "crashed"]
                                    ELSE calls[id]]
  BY DEF ToolsOK, Crash, Stored
<1>2. ASSUME NEW id \in Calls
      PROVE  /\ calls'[id] \in CallType /\ IsCall(calls'[id])
             /\ HasLoaded(calls[id])' /\ HasSent(id, calls[id])'
  <2>1. calls[id] \in CallType /\ IsCall(calls[id]) /\ HasLoaded(calls[id]) /\ HasSent(id, calls[id])
    BY <1>1 DEF DataOK, ToolsOK
  <2>2. CASE Running(id)
    <3>1. calls'[id] = [calls[id] EXCEPT !.at = "crashed"]
      BY <1>1, <2>2
    <3>2. /\ calls'[id] \in CallType /\ calls'[id].at = "crashed"
          /\ calls'[id].entries = calls[id].entries
      BY <2>1, <3>1 DEF CallType
    <3>3. IsCall(calls'[id])
      BY <2>1, <2>2, <3>2 DEF IsCall, Running
    <3>4. HasLoaded(calls[id])' /\ HasSent(id, calls[id])'
      BY <3>2 DEF HasLoaded, HasSent, Goes
    <3>5. QED
      BY <3>2, <3>3, <3>4
  <2>3. CASE ~ Running(id)
    <3>1. calls'[id] = calls[id] /\ artifacts' = artifacts
      BY <1>1, <2>3
    <3>2. HasLoaded(calls[id])'
      BY <1>1, <2>1, <3>1 DEF HasLoaded, EntriesIn
    <3>3. HasSent(id, calls[id])'
      BY <2>1, <3>1 DEF HasSent, Goes, Kept
    <3>4. QED
      BY <2>1, <3>1, <3>2, <3>3
  <2>4. QED
    BY <2>2, <2>3
<1>3. calls' \in [Calls -> CallType]
  BY <1>1, <1>2
<1>4. DataOK'
  BY <1>1, <1>2, <1>3 DEF DataOK
<1>5. OrphansOnlyLate' /\ Pairs'
  BY <1>1 DEF ToolsOK, OrphansOnlyLate, Pairs
<1>6. QED
  BY <1>2, <1>4, <1>5 DEF ToolsOK

LEMMA ToolsStep ==
  ASSUME ConstantsOK, ToolsOK, [Next]_vars
  PROVE  ToolsOK'
<1>1. CASE \E id \in Calls : Request(id) \/ Work(id) \/ Cancel(id)
  <2>1. PICK id \in Calls : Request(id) \/ Work(id) \/ Cancel(id)
    BY <1>1
  <2>2. CASE Request(id)
    BY <2>2, BeginKeepsTools, BeginWorkflowKeepsTools DEF Request
  <2>3. QED
    BY <2>1, <2>2, WorkKeepsTools, CancelKeepsTools
<1>2. CASE \E c \in Captures : Delete(c) \/ Import(c)
  BY <1>2, DeleteKeepsTools, ImportKeepsTools
<1>3. CASE StopLive
  BY <1>3, SameKeepsTools DEF StopLive
<1>4. CASE Crash
  BY <1>4, CrashKeepsTools
<1>5. CASE UNCHANGED vars
  BY <1>5, SameKeepsTools DEF vars
<1>6. QED
  BY <1>1, <1>2, <1>3, <1>4, <1>5 DEF Next

LEMMA ToolsAreInvariant ==
  ASSUME ConstantsOK
  PROVE  Spec => []ToolsOK
<1>1. Init => ToolsOK
  BY ToolsInit
<1>2. ToolsOK /\ [Next]_vars => ToolsOK'
  BY ToolsStep
<1>3. QED
  BY <1>1, <1>2, PTL DEF Spec

(* An artifact that outlives the capture it belongs to was saved by a call *)
(* the delete had overtaken: DeleteCapture misses nothing that is there.   *)
THEOREM OrphansAreLate ==
  ASSUME ConstantsOK
  PROVE  Spec => []OrphansOnlyLate
<1>1. ToolsOK => OrphansOnlyLate
  BY DEF ToolsOK
<1>2. QED
  BY <1>1, ToolsAreInvariant, PTL

(* The experiment a saved comparison names is in the database with it.     *)
THEOREM ComparisonsHaveExperiments ==
  ASSUME ConstantsOK
  PROVE  Spec => []ComparisonsRest
<1>1. ToolsOK => ComparisonsRest
  BY ToolsOKIsEnough
<1>2. QED
  BY <1>1, ToolsAreInvariant, PTL

(* Replay and workflow answer without an error only when the request they  *)
(* sent is recorded, whatever else runs, fails or is cancelled.            *)
THEOREM AnswersAreRecorded ==
  ASSUME ConstantsOK
  PROVE  Spec => []AnsweredIsRecorded
<1>1. ToolsOK => AnsweredIsRecorded
  BY ToolsOKIsEnough
<1>2. QED
  BY <1>1, ToolsAreInvariant, PTL

(* The report of a workflow that replayed lists the comparison it saved,   *)
(* or as many findings about the entry as a report lists.                  *)
THEOREM ReportsShowReplays ==
  ASSUME ConstantsOK
  PROVE  Spec => []ReportShowsReplay
<1>1. ToolsOK => ReportShowsReplay
  BY ToolsOKIsEnough
<1>2. QED
  BY <1>1, ToolsAreInvariant, PTL
=============================================================================
