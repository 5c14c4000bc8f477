---------------------------- MODULE ToolsProofs ----------------------------
(***************************************************************************)
(* Theorems about each of the tools, for all values a tool may meet.       *)
(***************************************************************************)
EXTENDS Tools, Integers, SequenceTheorems, FiniteSetTheorems, WellFoundedInduction, TLAPS

(* A behaviour is one of a single tool: the tool stays, and its module     *)
(* takes the steps.                                                        *)
LEMMA StepOfTool ==
  ASSUME [Next]_vars
  PROVE  /\ tool' = tool
         /\ tool = "build replay" => [Replay!Next]_(Replay!vars)
         /\ tool = "name a field" => [Pointer!Next]_(Pointer!vars)
         /\ tool = "plan mutations" => [Plan!Next]_(Plan!vars)
         /\ tool = "read pages" => [Pages!Next]_(Pages!vars)
         /\ tool = "import" => [Import!Next]_(Import!vars)
         /\ tool = "decode" => [Decode!Next]_(Decode!vars)
         /\ tool = "configure" => [Configure!Next]_(Configure!vars)
         /\ tool = "restore" => [Restore!Next]_(Restore!vars)
         /\ tool = "restore at once" => [RestoreAtOnce!Next]_(RestoreAtOnce!vars)
         /\ tool = "save artifacts" => [Save!Next]_(Save!vars)
         /\ tool = "save artifacts at once" => [SaveAtOnce!Next]_(SaveAtOnce!vars)
<1>1. CASE UNCHANGED vars
  BY <1>1 DEF vars, Replay!vars, Pointer!vars, Plan!vars, Pages!vars, Import!vars, Decode!vars, Configure!vars,
              Restore!vars, RestoreAtOnce!vars, Save!vars, SaveAtOnce!vars
<1>2. CASE Next
  BY <1>2 DEF Next, BuildReplay, NameField, PlanMutations, ReadPages, ImportFile, DecodeBody, LoadConfig,
              CopyConfig, CopyConfigs, SaveArtifact, SaveArtifacts
<1>3. QED
  BY <1>1, <1>2

(* Every set of naturals has a least member: what induction rests on.     *)
LEMMA Least ==
  ASSUME NEW T \in SUBSET Nat, T # {}
  PROVE  \E m \in T : \A k \in T : m <= k
<1> DEFINE R == OpToRel(<, Nat)
<1>1. IsWellFoundedOn(R, Nat)
  BY NatLessThanWellFounded
<1>2. \A k, m \in T : k < m => <<k, m>> \in R
  BY DEF OpToRel
<1> HIDE DEF R
<1>3. PICK m \in T : \A k \in T : ~ (<<k, m>> \in R)
  BY <1>1, WFMin
<1>4. ASSUME NEW k \in T PROVE m <= k
  <2>1. m \in Nat /\ k \in Nat
    OBVIOUS
  <2>2. ~ (k < m)
    BY <1>2, <1>3
  <2> QED BY <2>1, <2>2
<1>5. QED
  BY <1>4

(* What holds of 0, and with a natural of the next one, holds of all.      *)
LEMMA Induction ==
  ASSUME NEW T \in SUBSET Nat, 0 \in T, \A n \in T : n + 1 \in T
  PROVE  T = Nat
<1> SUFFICES ASSUME T # Nat PROVE FALSE
  OBVIOUS
<1>1. PICK m \in Nat \ T : \A k \in Nat \ T : m <= k
  <2> DEFINE U == Nat \ T
  <2>1. U \in SUBSET Nat /\ U # {}
    OBVIOUS
  <2> HIDE DEF U
  <2>2. \E m \in U : \A k \in U : m <= k
    BY <2>1, Least
  <2> QED BY <2>2 DEF U
<1>2. m - 1 \in Nat /\ m - 1 \in T /\ (m - 1) + 1 = m
  BY <1>1
<1>3. QED
  BY <1>1, <1>2

(* What holds of the empty sequence, and with a sequence of it with one    *)
(* more element, holds of all sequences.                                   *)
LEMMA SeqInduction ==
  ASSUME NEW S, NEW P \in SUBSET Seq(S), <<>> \in P, \A s \in P, x \in S : Append(s, x) \in P
  PROVE  P = Seq(S)
<1> SUFFICES ASSUME NEW bad \in Seq(S), bad \notin P PROVE FALSE
  OBVIOUS
<1> DEFINE T == {Len(s) : s \in Seq(S) \ P}
<1>1. T \in SUBSET Nat /\ T # {}
  <2>1. \A s \in Seq(S) : Len(s) \in Nat
    BY LenProperties
  <2>2. Len(bad) \in T
    OBVIOUS
  <2>3. QED
    BY <2>1, <2>2
<1>2. PICK m \in T : \A k \in T : m <= k
  <2> HIDE DEF T
  <2> QED BY <1>1, Least
<1>3. PICK s \in Seq(S) \ P : m = Len(s)
  OBVIOUS
<1>4. PICK front \in Seq(S), x \in S : s = Append(front, x)
  <2>1. s # <<>> /\ s \in Seq(S)
    BY <1>3
  <2>2. QED
    BY <2>1, SequenceEmptyOrAppend
<1>5. Len(s) = Len(front) + 1 /\ Len(front) \in Nat
  BY <1>4, AppendProperties, LenProperties
<1>6. front \in P
  <2>1. ~ (m <= Len(front))
    BY <1>3, <1>5
  <2>2. front \notin P => Len(front) \in T
    BY <1>4
  <2>3. QED
    BY <1>2, <2>1, <2>2
<1>7. QED
  BY <1>3, <1>4, <1>6

----------------------------------------------------------------------------
(* Backups and restores *)

(* Profiles are never lost, whatever jobs overlap, fail and crash, and     *)
(* whenever Charles starts and writes (reset.go:103-167).                  *)
THEOREM RestoresKeepProfiles == Spec => []ProfilesNeverLost
<1>1. Init => (tool = "restore at once" => RestoreAtOnce!Init)
  BY DEF Init
<1>2. tool = "restore at once" /\ [Next]_vars => (tool = "restore at once")' /\ [RestoreAtOnce!Next]_(RestoreAtOnce!vars)
  BY StepOfTool
<1>3. ~ (tool = "restore at once") /\ [Next]_vars => ~ (tool = "restore at once")'
  BY StepOfTool
<1>4. RestoreAtOnce!Spec => []RestoreAtOnce!ProfilesNeverLost
  BY ValuesOK, RestoreAtOnce!ProfilesAreKept
<1>5. RestoreAtOnce!Init /\ [][RestoreAtOnce!Next]_(RestoreAtOnce!vars) => []RestoreAtOnce!ProfilesNeverLost
  BY <1>4 DEF RestoreAtOnce!Spec
<1>6. QED
  BY <1>1, <1>2, <1>3, <1>5, PTL DEF Spec, ProfilesNeverLost

(* Jobs in a row leave no profiles directory in part, however they fail or *)
(* crash (reset.go:103-167).                                               *)
THEOREM RestoresLeaveWholes == Spec => []ProfilesWhole
<1>1. Init => (tool = "restore" => Restore!Init)
  BY DEF Init
<1>2. tool = "restore" /\ [Next]_vars => (tool = "restore")' /\ [Restore!Next]_(Restore!vars)
  BY StepOfTool
<1>3. ~ (tool = "restore") /\ [Next]_vars => ~ (tool = "restore")'
  BY StepOfTool
<1>4. Restore!Spec => []Restore!ProfilesWhole
  BY ValuesOK, Restore!ProfilesAreWhole
<1>5. Restore!Init /\ [][Restore!Next]_(Restore!vars) => []Restore!ProfilesWhole
  BY <1>4 DEF Restore!Spec
<1>6. QED
  BY <1>1, <1>2, <1>3, <1>5, PTL DEF Spec, ProfilesWhole

(* File and profiles differ only after an error or a crash (reset.go:55).  *)
THEOREM RestoresReportMixes == Spec => []MixedOnlyIfReported
<1>1. Init => (tool = "restore" => Restore!Init)
  BY DEF Init
<1>2. tool = "restore" /\ [Next]_vars => (tool = "restore")' /\ [Restore!Next]_(Restore!vars)
  BY StepOfTool
<1>3. ~ (tool = "restore") /\ [Next]_vars => ~ (tool = "restore")'
  BY StepOfTool
<1>4. Restore!Spec => []Restore!MixedOnlyIfReported
  BY ValuesOK, Restore!MixesAreReported
<1>5. Restore!Init /\ [][Restore!Next]_(Restore!vars) => []Restore!MixedOnlyIfReported
  BY <1>4 DEF Restore!Spec
<1>6. QED
  BY <1>1, <1>2, <1>3, <1>5, PTL DEF Spec, MixedOnlyIfReported

----------------------------------------------------------------------------
(* What the tools save *)

(* An artifact whose subject is gone was saved by a call that a delete had *)
(* overtaken (store.go:127-145).                                           *)
THEOREM OrphansComeLate == Spec => []OrphansOnlyLate
<1>1. Init => (tool = "save artifacts" => Save!Init)
  BY DEF Init
<1>2. tool = "save artifacts" /\ [Next]_vars => (tool = "save artifacts")' /\ [Save!Next]_(Save!vars)
  BY StepOfTool
<1>3. ~ (tool = "save artifacts") /\ [Next]_vars => ~ (tool = "save artifacts")'
  BY StepOfTool
<1>4. Save!Spec => []Save!OrphansOnlyLate
  BY ValuesOK, Save!OrphansAreLate
<1>5. Save!Init /\ [][Save!Next]_(Save!vars) => []Save!OrphansOnlyLate
  BY <1>4 DEF Save!Spec
<1>6. QED
  BY <1>1, <1>2, <1>3, <1>5, PTL DEF Spec, OrphansOnlyLate

(* A replay that answers has left its records, unless a delete overtook it *)
(* (replay.go:225-237).                                                    *)
THEOREM AnswersLeaveRecords == Spec => []AnsweredIsRecorded
<1>1. Init => (tool = "save artifacts" => Save!Init)
  BY DEF Init
<1>2. tool = "save artifacts" /\ [Next]_vars => (tool = "save artifacts")' /\ [Save!Next]_(Save!vars)
  BY StepOfTool
<1>3. ~ (tool = "save artifacts") /\ [Next]_vars => ~ (tool = "save artifacts")'
  BY StepOfTool
<1>4. Save!Spec => []Save!AnsweredIsRecorded
  BY ValuesOK, Save!AnswersAreRecorded
<1>5. Save!Init /\ [][Save!Next]_(Save!vars) => []Save!AnsweredIsRecorded
  BY <1>4 DEF Save!Spec
<1>6. QED
  BY <1>1, <1>2, <1>3, <1>5, PTL DEF Spec, AnsweredIsRecorded

(* A comparison has its experiment, whatever overlaps, unless a delete     *)
(* overtook the call that saved them (replay.go:225-237).                  *)
THEOREM ComparisonsFollowExperiments == Spec => []ComparisonsRest
<1>1. Init => (tool = "save artifacts at once" => SaveAtOnce!Init)
  BY DEF Init
<1>2. tool = "save artifacts at once" /\ [Next]_vars => (tool = "save artifacts at once")' /\ [SaveAtOnce!Next]_(SaveAtOnce!vars)
  BY StepOfTool
<1>3. ~ (tool = "save artifacts at once") /\ [Next]_vars => ~ (tool = "save artifacts at once")'
  BY StepOfTool
<1>4. SaveAtOnce!Spec => []SaveAtOnce!ComparisonsRest
  BY ValuesOK, SaveAtOnce!ComparisonsHaveExperiments
<1>5. SaveAtOnce!Init /\ [][SaveAtOnce!Next]_(SaveAtOnce!vars) => []SaveAtOnce!ComparisonsRest
  BY <1>4 DEF SaveAtOnce!Spec
<1>6. QED
  BY <1>1, <1>2, <1>3, <1>5, PTL DEF Spec, ComparisonsRest

(* The report of a workflow shows the replay it ran (workflow.go:300-328). *)
THEOREM ReportsListReplays == Spec => []ReportShowsReplay
<1>1. Init => (tool = "save artifacts at once" => SaveAtOnce!Init)
  BY DEF Init
<1>2. tool = "save artifacts at once" /\ [Next]_vars => (tool = "save artifacts at once")' /\ [SaveAtOnce!Next]_(SaveAtOnce!vars)
  BY StepOfTool
<1>3. ~ (tool = "save artifacts at once") /\ [Next]_vars => ~ (tool = "save artifacts at once")'
  BY StepOfTool
<1>4. SaveAtOnce!Spec => []SaveAtOnce!ReportShowsReplay
  BY ValuesOK, SaveAtOnce!ReportsShowReplays
<1>5. SaveAtOnce!Init /\ [][SaveAtOnce!Next]_(SaveAtOnce!vars) => []SaveAtOnce!ReportShowsReplay
  BY <1>4 DEF SaveAtOnce!Spec
<1>6. QED
  BY <1>1, <1>2, <1>3, <1>5, PTL DEF Spec, ReportShowsReplay

----------------------------------------------------------------------------
(* Lists in order *)

(* What is in order has a place of its own.  below gives for each element  *)
(* of a finite set those ahead of it; of two elements one is ahead of the  *)
(* other, with all that are ahead of it.                                   *)
LEMMA Ranks ==
  ASSUME NEW S, IsFiniteSet(S), NEW below \in [S -> SUBSET S],
         \A x \in S : x \notin below[x],
         \A x, y \in S : x # y => \/ x \in below[y] /\ below[x] \subseteq below[y]
                                  \/ y \in below[x] /\ below[y] \subseteq below[x]
  PROVE  /\ \A x, y \in S : y \in below[x] => Cardinality(below[y]) < Cardinality(below[x])
         /\ \A x, y \in S : Cardinality(below[y]) = Cardinality(below[x]) => x = y
         /\ \A x \in S : Cardinality(below[x]) + 1 \in 1..Cardinality(S)
         /\ \A k \in 1..Cardinality(S) : \E x \in S : Cardinality(below[x]) = k - 1
<1> DEFINE N == Cardinality(S)
           rank == [x \in S |-> Cardinality(below[x]) + 1]
<1>1. N \in Nat
  BY FS_CardinalityType
<1>2. \A x \in S : IsFiniteSet(below[x]) /\ Cardinality(below[x]) \in Nat
  <2> SUFFICES ASSUME NEW x \in S PROVE IsFiniteSet(below[x]) /\ Cardinality(below[x]) \in Nat
    OBVIOUS
  <2>1. IsFiniteSet(below[x])
    BY FS_Subset
  <2>2. QED
    BY <2>1, FS_CardinalityType
<1>3. \A x \in S : Cardinality(below[x]) + 1 \in 1..N
  <2> SUFFICES ASSUME NEW x \in S PROVE Cardinality(below[x]) + 1 \in 1..N
    OBVIOUS
  <2>1. below[x] \in SUBSET S /\ below[x] # S
    OBVIOUS
  <2>2. Cardinality(below[x]) <= N /\ Cardinality(below[x]) # N
    BY <2>1, FS_Subset
  <2>3. QED
    BY <1>1, <1>2, <2>2
<1>4. ASSUME NEW x \in S, NEW y \in S, y \in below[x]
      PROVE  Cardinality(below[y]) < Cardinality(below[x])
  <2>1. below[y] \subseteq below[x] /\ y \notin below[y]
    <3>1. x # y
      BY <1>4
    <3>2. CASE y \in below[x] /\ below[y] \subseteq below[x]
      BY <3>2
    <3>3. CASE x \in below[y] /\ below[x] \subseteq below[y]
      BY <3>3, <1>4
    <3>4. QED
      BY <3>1, <3>2, <3>3
  <2>2. below[y] \in SUBSET below[x] /\ below[y] # below[x]
    BY <2>1, <1>4
  <2>3. Cardinality(below[y]) <= Cardinality(below[x]) /\ Cardinality(below[y]) # Cardinality(below[x])
    BY <1>2, <2>2, FS_Subset
  <2>4. QED
    BY <1>2, <2>3
<1>5. ASSUME NEW x \in S, NEW y \in S, Cardinality(below[y]) = Cardinality(below[x])
      PROVE  x = y
  BY <1>2, <1>4, <1>5
<1>6. rank \in Injection(S, 1..N)
  <2>1. rank \in [S -> 1..N]
    BY <1>3
  <2>2. \A x, y \in S : rank[x] = rank[y] => x = y
    BY <1>2, <1>5
  <2>3. QED
    BY <2>1, <2>2 DEF Injection, IsInjective
<1>7. IsFiniteSet(1..N) /\ Cardinality(1..N) = N
  BY <1>1, FS_Interval
<1>8. rank \in Surjection(S, 1..N)
  BY <1>6, <1>7, FS_Injection
<1>9. ASSUME NEW k \in 1..N PROVE \E x \in S : Cardinality(below[x]) = k - 1
  <2>1. PICK x \in S : rank[x] = k
    BY <1>8 DEF Surjection
  <2>2. QED
    BY <2>1, <1>2
<1>10. QED
  BY <1>3, <1>4, <1>5, <1>9

----------------------------------------------------------------------------
(* Replays.  v1 is the recorded request, v2 the options, v3 where the call *)
(* is, v4 the keys left, v5 the JSON object, v6 the body, v7 the headers.  *)

LEMMA NotItsOwnParent ==
  ASSUME NEW p \in Paths
  PROVE  p \notin Replay!Parents(p)
<1> DEFINE k == Len(p)
<1>1. p \in Seq(STRING)
  BY ValuesOK DEF Replay!ConstantsOK
<1>2. k \in Nat /\ \A i \in 1..k : p[i] \in STRING
  BY <1>1
<1>3. \A n \in 1..(k - 1) : Len(SubSeq(p, 1, n)) = n
  <2> HIDE DEF k
  <2> SUFFICES ASSUME NEW n \in 1..(k - 1) PROVE Len(SubSeq(p, 1, n)) = n
    OBVIOUS
  <2>1. \A i \in 1..n : p[i] \in STRING
    BY <1>2
  <2>2. QED
    BY <1>1, <2>1, <1>2, SubSeqProperties
<1>4. \A n \in 1..(k - 1) : SubSeq(p, 1, n) # p
  BY <1>2, <1>3
<1>5. QED
  BY <1>4 DEF Replay!Parents

(* A change of one field does what it should to it, and nothing to fields  *)
(* that neither lie in it nor hold it.                                     *)
LEMMA Change ==
  ASSUME NEW t, NEW path \in Paths, NEW value
  PROVE  LET u == Replay!MutateJSON(t, path, value) IN
         /\ u[path] = IF value = Replay!Null THEN Replay!None ELSE value
         /\ \A q \in Paths : q # path /\ q \notin Replay!Parents(path) /\ path \notin Replay!Parents(q) => u[q] = t[q]
<1>1. path \notin Replay!Parents(path)
  BY NotItsOwnParent
<1>2. path \notin Replay!Below(path)
  BY <1>1 DEF Replay!Below
<1>3. Replay!Put(t, path, value)[path] = value
  BY <1>1, <1>2 DEF Replay!Put
<1>4. Replay!Drop(t, path)[path] = Replay!None
  BY DEF Replay!Drop
<1>5. ASSUME NEW q \in Paths, q # path, q \notin Replay!Parents(path), path \notin Replay!Parents(q)
      PROVE  Replay!Put(t, path, value)[q] = t[q] /\ Replay!Drop(t, path)[q] = t[q]
  <2>1. q \notin Replay!Below(path)
    BY <1>5 DEF Replay!Below
  <2>2. QED
    BY <1>5, <2>1 DEF Replay!Put, Replay!Drop
<1>6. QED
  BY <1>3, <1>4, <1>5 DEF Replay!MutateJSON

LEMMA ReplayStarts ==
  ASSUME Replay!Init
  PROVE  Replay!RequestOK
BY DEF Replay!Init, Replay!RequestOK, Replay!HeadersAsAsked

(* One override takes effect and undoes none of the others.                *)
LEMMA OneMore ==
  ASSUME Replay!RequestOK, v3 = "json", NEW key \in v4,
         v5' = Replay!MutateJSON(v5, v2.json[key].path, v2.json[key].value), UNCHANGED <<v1, v2>>,
         v4' = v4 \ {key}
  PROVE  Replay!Applied(DOMAIN v2.json \ v4)'
<1> DEFINE path(k) == v2.json[k].path
           value(k) == v2.json[k].value
<1>1. v4 \subseteq DOMAIN v2.json /\ Replay!Applied(DOMAIN v2.json \ v4)
  BY DEF Replay!RequestOK
<1>2. \A k \in DOMAIN v2.json : path(k) \in Paths
  BY ValuesOK DEF Replay!RequestOK, Replay!ConstantsOK
<1>3. /\ v5'[path(key)] = IF value(key) = Replay!Null THEN Replay!None ELSE value(key)
      /\ \A q \in Paths : q # path(key) /\ q \notin Replay!Parents(path(key)) /\ path(key) \notin Replay!Parents(q)
                            => v5'[q] = v5[q]
  <2>1. path(key) \in Paths
    BY <1>1, <1>2
  <2> HIDE DEF path, value
  <2>2. LET u == Replay!MutateJSON(v5, path(key), value(key)) IN
        /\ u[path(key)] = IF value(key) = Replay!Null THEN Replay!None ELSE value(key)
        /\ \A q \in Paths : q # path(key) /\ q \notin Replay!Parents(path(key)) /\ path(key) \notin Replay!Parents(q)
                              => u[q] = v5[q]
    BY <2>1, Change
  <2>3. v5' = Replay!MutateJSON(v5, path(key), value(key))
    BY DEF path, value
  <2>4. QED
    BY <2>2, <2>3
<1> SUFFICES ASSUME Replay!Separate
             PROVE  /\ \A k \in DOMAIN v2.json \ v4' : Replay!InEffect(k)'
                    /\ \A p \in Paths : Replay!Untouched(p) => v5'[p] = v1.json[p]
  BY DEF Replay!Applied, Replay!Separate, Replay!Untouched, Replay!Targets
<1>4. ASSUME NEW k \in DOMAIN v2.json \ v4' PROVE Replay!InEffect(k)'
  <2>1. CASE k = key
    BY <2>1, <1>3 DEF Replay!InEffect
  <2>2. CASE k # key
    <3>1. k \in DOMAIN v2.json \ v4
      BY <2>2, <1>4
    <3>2. path(k) # path(key) /\ path(k) \notin Replay!Parents(path(key)) /\ path(key) \notin Replay!Parents(path(k))
      BY <3>1, <1>1, <2>2 DEF Replay!Separate
    <3>3. v5[path(k)] = IF value(k) = Replay!Null THEN Replay!None ELSE value(k)
      BY <3>1, <1>1 DEF Replay!Applied, Replay!InEffect
    <3>4. v5'[path(k)] = v5[path(k)]
      BY <3>1, <3>2, <1>2, <1>3
    <3>5. QED
      BY <3>3, <3>4 DEF Replay!InEffect
  <2>3. QED
    BY <2>1, <2>2
<1>5. ASSUME NEW p \in Paths, Replay!Untouched(p) PROVE v5'[p] = v1.json[p]
  <2>1. path(key) \in Replay!Targets
    BY <1>1 DEF Replay!Targets
  <2>2. p # path(key) /\ p \notin Replay!Parents(path(key)) /\ path(key) \notin Replay!Parents(p)
    BY <2>1, <1>5 DEF Replay!Untouched
  <2>3. QED
    BY <2>2, <1>1, <1>3, <1>5 DEF Replay!Applied
<1>6. QED
  BY <1>4, <1>5

(* Before any override of a header, the headers are those of the recorded  *)
(* request and of its new body.                                            *)
LEMMA NothingOverridden ==
  ASSUME UNCHANGED <<v1, v2>>, v4' = DOMAIN v2.headers, v8' = v1.listed,
         v1.headers \ Replay!WrongLabels' \subseteq v7', v7' \subseteq v1.headers \cup {"Content-Type"}
  PROVE  (Replay!HeadersSoFar(DOMAIN v2.headers \ v4))'
<1>1. (DOMAIN v2.headers \ v4)' = {}
  OBVIOUS
<1> DEFINE names == {v2.headers[k].name : k \in (DOMAIN v2.headers \ v4)'}
<1>2. names = {}
  BY <1>1
<1>3. {v2'.headers[k].name : k \in (DOMAIN v2.headers \ v4)'} = names
  OBVIOUS
<1> HIDE DEF names
<1>4. QED
  BY <1>1, <1>2, <1>3 DEF Replay!HeadersSoFar

(* An override of a header leaves the others as they are.                  *)
LEMMA OneMoreHeader ==
  ASSUME Replay!RequestOK, v3 = "headers", NEW key \in v4,
         v7' = IF v2.headers[key].set THEN v7 \cup {v2.headers[key].name} ELSE v7 \ {v2.headers[key].name},
         v8' = IF v2.headers[key].name = "Connection" THEN v2.headers[key].lists ELSE v8,
         v4' = v4 \ {key}, UNCHANGED <<v1, v2, v6>>
  PROVE  (Replay!HeadersSoFar(DOMAIN v2.headers \ v4))'
<1> DEFINE done == DOMAIN v2.headers \ v4
           name(k) == v2.headers[k].name
           names == {name(k) : k \in done}
<1>1. key \in DOMAIN v2.headers /\ Replay!HeadersSoFar(done) /\ v2.headers[key].set \in BOOLEAN
  BY ValuesOK DEF Replay!RequestOK, Replay!ConstantsOK
<1>2. done' = done \cup {key} /\ key \notin done /\ done \subseteq DOMAIN v2.headers
  BY <1>1
<1>3. Replay!WrongLabels' = Replay!WrongLabels
  BY DEF Replay!WrongLabels
<1> SUFFICES ASSUME Replay!NamedOnce
             PROVE  /\ \A k \in done' : name(k) \in v7' <=> v2.headers[k].set
                    /\ v1.headers \ ({name(k) : k \in done'} \cup Replay!WrongLabels) \subseteq v7'
                    /\ v7' \subseteq v1.headers \cup {name(k) : k \in done'} \cup {"Content-Type"}
                    /\ \A k \in done' : name(k) = "Connection" => v8' = v2.headers[k].lists
                    /\ (\A k \in done' : name(k) # "Connection") => v8' = v1.listed
  <2>1. Replay!NamedOnce' <=> Replay!NamedOnce
    BY DEF Replay!NamedOnce
  <2>2. QED
    BY <1>3, <2>1 DEF Replay!HeadersSoFar
<1>4. /\ \A k \in done : name(k) \in v7 <=> v2.headers[k].set
      /\ v1.headers \ (names \cup Replay!WrongLabels) \subseteq v7
      /\ v7 \subseteq v1.headers \cup names \cup {"Content-Type"}
      /\ \A k \in done : name(k) = "Connection" => v8 = v2.headers[k].lists
      /\ (\A k \in done : name(k) # "Connection") => v8 = v1.listed
  BY <1>1 DEF Replay!HeadersSoFar
<1>5. \A k \in done : name(k) # name(key)
  BY <1>1, <1>2 DEF Replay!NamedOnce
<1>6. {name(k) : k \in done'} = names \cup {name(key)}
  BY <1>2
<1>7. v7' = IF v2.headers[key].set THEN v7 \cup {name(key)} ELSE v7 \ {name(key)}
  OBVIOUS
<1>8. v8' = IF name(key) = "Connection" THEN v2.headers[key].lists ELSE v8
  OBVIOUS
<1> HIDE DEF done, names, name
<1>9. \A k \in done' : name(k) \in v7' <=> v2.headers[k].set
  BY <1>1, <1>2, <1>4, <1>5, <1>7
<1>10. /\ v1.headers \ ({name(k) : k \in done'} \cup Replay!WrongLabels) \subseteq v7'
       /\ v7' \subseteq v1.headers \cup {name(k) : k \in done'} \cup {"Content-Type"}
  BY <1>4, <1>6, <1>7
<1>11. /\ \A k \in done' : name(k) = "Connection" => v8' = v2.headers[k].lists
       /\ (\A k \in done' : name(k) # "Connection") => v8' = v1.listed
  BY <1>2, <1>4, <1>5, <1>8
<1>12. QED
  BY <1>9, <1>10, <1>11

(* What the overrides made, without the headers of the hops, is what was   *)
(* asked for.                                                              *)
LEMMA StrippedAsAsked ==
  ASSUME Replay!RequestOK, Replay!Strip
  PROVE  Replay!HeadersAsAsked'
<1> DEFINE done == DOMAIN v2.headers
<1>1. /\ v3 = "headers" /\ v4 = {} /\ v7' = v7 \ (Replay!HopByHop \cup v8)
      /\ UNCHANGED <<v1, v2, v6, v8>>
  BY DEF Replay!Strip, Replay!Hops
<1>2. Replay!HeadersSoFar(done)
  <2>1. done \ v4 = done
    BY <1>1
  <2>2. QED
    BY <1>1, <2>1 DEF Replay!RequestOK
<1>3. Replay!Names' = Replay!Names /\ Replay!WrongLabels' = Replay!WrongLabels
      /\ Replay!ListedInForce' = Replay!ListedInForce /\ (Replay!NamedOnce' <=> Replay!NamedOnce)
  BY <1>1 DEF Replay!Names, Replay!WrongLabels, Replay!ListedInForce, Replay!NamedOnce
<1>4. ASSUME Replay!NamedOnce PROVE v8 = Replay!ListedInForce
  <2>1. CASE "Connection" \in Replay!Names
    <3>1. PICK k \in done : v2.headers[k].name = "Connection"
      BY <2>1 DEF Replay!Names
    <3>2. {j \in done : v2.headers[j].name = "Connection"} = {k}
      BY <1>4, <3>1 DEF Replay!NamedOnce
    <3>3. UNION {v2.headers[i].lists : i \in {k}} = v2.headers[k].lists
      OBVIOUS
    <3>4. v8 = v2.headers[k].lists
      BY <1>2, <1>4, <3>1 DEF Replay!HeadersSoFar
    <3>5. QED
      BY <2>1, <3>2, <3>3, <3>4 DEF Replay!ListedInForce
  <2>2. CASE "Connection" \notin Replay!Names
    BY <1>2, <1>4, <2>2 DEF Replay!HeadersSoFar, Replay!Names, Replay!ListedInForce
  <2>3. QED
    BY <2>1, <2>2
<1>5. QED
  BY <1>1, <1>2, <1>3, <1>4 DEF Replay!HeadersAsAsked, Replay!HeadersSoFar, Replay!Names

(* Taking an override, setting a header and stripping it keep what was     *)
(* asked of the others.                                                    *)
LEMMA ReplayStep ==
  ASSUME Replay!RequestOK, [Replay!Next]_(Replay!vars)
  PROVE  Replay!RequestOK'
<1> USE DEF Replay!RequestOK
<1>1. CASE Replay!Check
  BY <1>1 DEF Replay!Check, Replay!Refuse, Replay!HeadersAsAsked, Replay!Applied, Replay!Separate, Replay!InEffect,
              Replay!Untouched, Replay!Targets
<1>2. CASE Replay!TextBody
  <2>1. /\ v3 = "body" /\ v3' = "headers" /\ v6' = "text" /\ v4' = DOMAIN v2.headers
        /\ v7' = Replay!Relabel(v7, {}) /\ UNCHANGED <<v1, v2, v5, v8>>
    BY <1>2 DEF Replay!TextBody
  <2>2. (Replay!HeadersSoFar(DOMAIN v2.headers \ v4))'
    BY <2>1, NothingOverridden DEF Replay!Relabel, Replay!WrongLabels
  <2>3. (Replay!AskedFor(Replay!WrongLabels))'
    BY <2>1 DEF Replay!AskedFor, Replay!WrongLabels, Replay!Relabel
  <2>4. QED
    BY <2>1, <2>2, <2>3 DEF Replay!HeadersAsAsked
<1>3. CASE Replay!JSONBody
  <2>1. CASE v1.content # "object"
    BY <1>3, <2>1 DEF Replay!JSONBody, Replay!Refuse, Replay!HeadersAsAsked
  <2>2. CASE v1.content = "object"
    <3>1. /\ v3 = "body" /\ v3' = "json" /\ v4' = DOMAIN v2.json /\ v7' = Replay!Relabel(v7, {"Content-Type"})
          /\ UNCHANGED <<v1, v2, v5, v6, v8>>
      BY <1>3, <2>2 DEF Replay!JSONBody
    <3>2. Replay!Applied(DOMAIN v2.json \ v4)'
      BY <3>1 DEF Replay!Applied
    <3>3. v7' = (Replay!Relabel(v1.headers, {"Content-Type"}))'
      BY <3>1 DEF Replay!Relabel
    <3>4. QED
      BY <3>1, <3>2, <3>3 DEF Replay!HeadersAsAsked
  <2>3. QED
    BY <2>1, <2>2
<1>4. CASE Replay!OverrideJSON
  <2>1. v3 = "json"
    BY <1>4 DEF Replay!OverrideJSON
  <2>2. PICK key \in v4 :
          \/ Replay!Refuse
          \/ /\ v5' = Replay!MutateJSON(v5, v2.json[key].path, v2.json[key].value) /\ v4' = v4 \ {key}
             /\ UNCHANGED <<v1, v2, v3, v6, v7, v8>>
    BY <1>4 DEF Replay!OverrideJSON
  <2>3. CASE Replay!Refuse
    BY <2>1, <2>3 DEF Replay!Refuse, Replay!HeadersAsAsked
  <2>4. CASE /\ v5' = Replay!MutateJSON(v5, v2.json[key].path, v2.json[key].value) /\ v4' = v4 \ {key}
             /\ UNCHANGED <<v1, v2, v3, v6, v7, v8>>
    <3>1. Replay!Applied(DOMAIN v2.json \ v4)'
      BY <2>1, <2>4, OneMore
    <3>2. v7' = (Replay!Relabel(v1.headers, {"Content-Type"}))'
      BY <2>1, <2>4 DEF Replay!Relabel
    <3>3. QED
      BY <2>1, <2>4, <3>1, <3>2 DEF Replay!HeadersAsAsked
  <2>5. QED
    BY <2>2, <2>3, <2>4
<1>5. CASE Replay!MarshalJSON
  <2>1. /\ v3 = "json" /\ v4 = {} /\ v6' = "json" /\ v3' = "headers" /\ v4' = DOMAIN v2.headers
        /\ UNCHANGED <<v1, v2, v5, v7, v8>>
    BY <1>5 DEF Replay!MarshalJSON
  <2>2. (Replay!Applied(DOMAIN v2.json))'
    <3>1. DOMAIN v2.json \ v4 = DOMAIN v2.json
      BY <2>1
    <3>2. Replay!Applied(DOMAIN v2.json)
      BY <2>1, <3>1
    <3>3. QED
      BY <2>1, <3>2 DEF Replay!Applied, Replay!Separate, Replay!InEffect, Replay!Untouched, Replay!Targets
  <2>3. v7' = Replay!Relabel(v1.headers, {"Content-Type"})
    BY <2>1
  <2>4. (Replay!AskedFor(Replay!WrongLabels))'
    BY <2>1, <2>3 DEF Replay!AskedFor, Replay!WrongLabels, Replay!Relabel, Replay!BodyLabels
  <2>5. (Replay!HeadersSoFar(DOMAIN v2.headers \ v4))'
    BY <2>1, <2>3, NothingOverridden DEF Replay!Relabel, Replay!WrongLabels
  <2>6. QED
    BY <2>1, <2>2, <2>4, <2>5 DEF Replay!HeadersAsAsked
<1>6. CASE Replay!FormBody
  <2>1. CASE Replay!Refuse /\ v3 = "body"
    BY <2>1 DEF Replay!Refuse, Replay!HeadersAsAsked
  <2>2. CASE /\ v3 = "body" /\ v3' = "headers" /\ v6' = "form" /\ v4' = DOMAIN v2.headers
             /\ v7' = Replay!Relabel(v7, {"Content-Type"}) /\ UNCHANGED <<v1, v2, v5, v8>>
    <3>1. (Replay!HeadersSoFar(DOMAIN v2.headers \ v4))'
      BY <2>2, NothingOverridden DEF Replay!Relabel, Replay!WrongLabels
    <3>2. (Replay!AskedFor(Replay!WrongLabels))'
      BY <2>2 DEF Replay!AskedFor, Replay!WrongLabels, Replay!Relabel, Replay!BodyLabels
    <3>3. QED
      BY <2>2, <3>1, <3>2 DEF Replay!HeadersAsAsked
  <2>3. QED
    BY <1>6, <2>1, <2>2 DEF Replay!FormBody
<1>7. CASE Replay!SameBody
  <2>1. CASE Replay!Refuse /\ v3 = "body"
    BY <2>1 DEF Replay!Refuse, Replay!HeadersAsAsked
  <2>2. CASE /\ v3 = "body" /\ v3' = "headers" /\ v4' = DOMAIN v2.headers
             /\ v7' = IF v1.body = "text_only" THEN v7 \ {"Content-Encoding"} ELSE v7
             /\ UNCHANGED <<v1, v2, v5, v6, v8>>
    <3>1. (Replay!HeadersSoFar(DOMAIN v2.headers \ v4))'
      BY <2>2, NothingOverridden DEF Replay!WrongLabels
    <3>2. (Replay!AskedFor(Replay!WrongLabels))'
      BY <2>2 DEF Replay!AskedFor, Replay!WrongLabels
    <3>3. QED
      BY <2>2, <3>1, <3>2 DEF Replay!HeadersAsAsked
  <2>3. QED
    BY <1>7, <2>1, <2>2 DEF Replay!SameBody
<1>8. CASE Replay!OverrideHeader
  <2>1. PICK key \in v4 :
          /\ v3 = "headers"
          /\ v7' = IF v2.headers[key].set THEN v7 \cup {v2.headers[key].name} ELSE v7 \ {v2.headers[key].name}
          /\ v8' = IF v2.headers[key].name = "Connection" THEN v2.headers[key].lists ELSE v8
          /\ v4' = v4 \ {key} /\ UNCHANGED <<v1, v2, v3, v5, v6>>
    BY <1>8 DEF Replay!OverrideHeader
  <2>2. (Replay!AskedFor(Replay!WrongLabels))'
    BY <2>1 DEF Replay!AskedFor, Replay!WrongLabels
  <2>3. v6 = "json" => (Replay!Applied(DOMAIN v2.json))'
    BY <2>1 DEF Replay!Applied, Replay!Separate, Replay!InEffect, Replay!Untouched, Replay!Targets
  <2>4. (Replay!HeadersSoFar(DOMAIN v2.headers \ v4))'
    BY <2>1, OneMoreHeader
  <2>5. QED
    BY <2>1, <2>2, <2>3, <2>4 DEF Replay!HeadersAsAsked
<1>9. CASE Replay!Strip
  <2>1. (Replay!AskedFor(Replay!WrongLabels))'
    BY <1>9 DEF Replay!Strip, Replay!AskedFor, Replay!WrongLabels
  <2>2. v6 = "json" => (Replay!Applied(DOMAIN v2.json))'
    BY <1>9 DEF Replay!Strip, Replay!Applied, Replay!Separate, Replay!InEffect, Replay!Untouched, Replay!Targets
  <2>3. Replay!HeadersAsAsked'
    BY <1>9, StrippedAsAsked
  <2>4. QED
    BY <1>9, <2>1, <2>2, <2>3 DEF Replay!Strip
<1>10. CASE UNCHANGED Replay!vars
  BY <1>10 DEF Replay!vars, Replay!HeadersAsAsked, Replay!HeadersSoFar, Replay!NamedOnce, Replay!Names,
               Replay!ListedInForce, Replay!AskedFor, Replay!WrongLabels, Replay!Applied, Replay!Separate,
               Replay!InEffect, Replay!Untouched, Replay!Targets, Replay!Relabel
<1>11. QED
  BY <1>1, <1>2, <1>3, <1>4, <1>5, <1>6, <1>7, <1>8, <1>9, <1>10 DEF Replay!Next

LEMMA Replaying == Spec => [](tool = "build replay" => Replay!RequestOK)
<1>1. Init => (tool = "build replay" => Replay!RequestOK)
  BY ReplayStarts DEF Init
<1>2. (tool = "build replay" => Replay!RequestOK) /\ [Next]_vars => (tool = "build replay" => Replay!RequestOK)'
  BY StepOfTool, ReplayStep
<1>3. QED
  BY <1>1, <1>2, PTL DEF Spec

(* Overrides of separate fields all take effect, in whatever order the map *)
(* yields them, and nothing else changes (replay.go:45-79).                *)
THEOREM SeparateOverridesAllApply == Spec => []SeparateOverridesApply
<1>1. (tool = "build replay" => Replay!RequestOK) => SeparateOverridesApply
  BY DEF SeparateOverridesApply, Replay!SeparateOverridesApply, Replay!RequestOK
<1>2. QED
  BY <1>1, Replaying, PTL

(* A body that is not the recorded one carries none of the labels of the   *)
(* recorded bytes, unless the caller asked for it (replay.go:99-145).      *)
THEOREM LabelsFitTheBody == Spec => []LabelFitsBody
<1>1. (tool = "build replay" => Replay!RequestOK) => LabelFitsBody
  BY DEF LabelFitsBody, Replay!LabelFitsBody, Replay!RequestOK
<1>2. QED
  BY <1>1, Replaying, PTL

(* The headers of the request are those asked for and, where nothing was   *)
(* asked, the recorded ones, in whatever order the map yields the          *)
(* overrides, and none concerns a hop (replay.go:99-161).                  *)
THEOREM HeadersSentAreAsked == Spec => []HeadersAsAsked
<1>1. (tool = "build replay" => Replay!RequestOK) => HeadersAsAsked
  BY DEF HeadersAsAsked, Replay!RequestOK
<1>2. QED
  BY <1>1, Replaying, PTL

----------------------------------------------------------------------------
(* Names of fields.  v1 is the path, v2 its name.                          *)

(* One more sequence at the end of those that are joined.                  *)
LEMMA Flatten ==
  ASSUME NEW S, NEW ss \in Seq(Seq(S)), NEW t \in Seq(S)
  PROVE  /\ Pointer!FlattenSeq(<<>>) = <<>>
         /\ Pointer!FlattenSeq(ss) \in Seq(S)
         /\ Pointer!FlattenSeq(Append(ss, t)) = Pointer!FlattenSeq(ss) \o t
<1> DEFINE Body(q, f, n) == [i \in 1..n |-> IF i = 1 THEN q[i] ELSE f[i - 1] \o q[i]]
           Fl(q) == CHOOSE f : f = Body(q, f, Len(q))
<1>1. ASSUME NEW q \in Seq(Seq(S)), Len(q) # 0
      PROVE  Pointer!FlattenSeq(q) = Fl(q)[Len(q)]
  BY <1>1 DEF Pointer!FlattenSeq
<1>2. ASSUME NEW q \in Seq(Seq(S))
      PROVE  \A n \in Nat : \E f : f = Body(q, f, n)
  <2> DEFINE T == {n \in Nat : \E f : f = Body(q, f, n)}
  <2>1. 0 \in T
    <3>1. <<>> = Body(q, <<>>, 0)
      OBVIOUS
    <3>2. QED
      BY <3>1
  <2>2. ASSUME NEW n \in T PROVE n + 1 \in T
    <3>1. PICK f : f = Body(q, f, n)
      OBVIOUS
    <3> DEFINE g == [i \in 1..(n + 1) |-> IF i = 1 THEN q[i] ELSE f[i - 1] \o q[i]]
    <3>2. n \in Nat /\ \A i \in 1..n : i \in 1..(n + 1)
      OBVIOUS
    <3>3. \A i \in 1..n : f[i] = IF i = 1 THEN q[i] ELSE f[i - 1] \o q[i]
      BY <3>1
    <3>4. \A i \in 1..n : g[i] = f[i]
      BY <3>2, <3>3
    <3>5. \A i \in 1..(n + 1) : i # 1 => i - 1 \in 1..n
      BY <3>2
    <3>6. \A i \in 1..(n + 1) : (IF i = 1 THEN q[i] ELSE f[i - 1] \o q[i]) = (IF i = 1 THEN q[i] ELSE g[i - 1] \o q[i])
      BY <3>4, <3>5
    <3> HIDE DEF g
    <3>7. g = Body(q, g, n + 1)
      BY <3>6 DEF g
    <3> HIDE DEF Body
    <3>8. QED
      BY <3>2, <3>7
  <2> HIDE DEF T
  <2>3. T = Nat
    <3>1. T \in SUBSET Nat
      BY DEF T
    <3>2. QED
      BY <2>1, <2>2, <3>1, Induction
  <2>4. QED
    BY <2>3 DEF T
<1>3. ASSUME NEW q \in Seq(Seq(S))
      PROVE  \A i \in 1..Len(q) : Fl(q)[i] = IF i = 1 THEN q[i] ELSE Fl(q)[i - 1] \o q[i]
  <2>1. Len(q) \in Nat
    OBVIOUS
  <2>2. \E f : f = Body(q, f, Len(q))
    BY <1>2, <2>1
  <2> DEFINE F == Fl(q)
  <2>3. F = Body(q, F, Len(q))
    <3> HIDE DEF Body
    <3> QED BY <2>2
  <2> HIDE DEF F
  <2>4. \A i \in 1..Len(q) : F[i] = IF i = 1 THEN q[i] ELSE F[i - 1] \o q[i]
    BY <2>3
  <2>5. QED
    BY <2>4 DEF F
<1> HIDE DEF Fl
<1>4. ASSUME NEW q \in Seq(Seq(S))
      PROVE  \A i \in 1..Len(q) : Fl(q)[i] \in Seq(S)
  <2> DEFINE T == {n \in Nat : n \in 1..Len(q) => Fl(q)[n] \in Seq(S)}
  <2>1. 0 \in T
    OBVIOUS
  <2>2. ASSUME NEW n \in T, n + 1 \in 1..Len(q) PROVE Fl(q)[n + 1] \in Seq(S)
    <3>1. q[n + 1] \in Seq(S) /\ n \in Nat /\ Len(q) \in Nat
      BY <2>2
    <3>2. CASE n = 0
      BY <1>3, <2>2, <3>1, <3>2
    <3>3. CASE n # 0
      <4>1. n \in 1..Len(q) /\ (n + 1) - 1 = n /\ n + 1 # 1
        BY <2>2, <3>1, <3>3
      <4>2. Fl(q)[n + 1] = Fl(q)[n] \o q[n + 1]
        BY <1>3, <2>2, <4>1
      <4>3. Fl(q)[n] \in Seq(S)
        BY <4>1
      <4>4. QED
        BY <3>1, <4>2, <4>3
    <3>4. QED
      BY <3>2, <3>3
  <2>3. T \in SUBSET Nat /\ \A n \in T : n + 1 \in T
    BY <2>2
  <2>4. T = Nat
    <3> HIDE DEF T
    <3> QED BY <2>1, <2>3, Induction
  <2>5. \A i \in 1..Len(q) : i \in T
    <3> HIDE DEF T
    <3> QED BY <2>4
  <2>6. QED
    BY <2>5
<1>5. Pointer!FlattenSeq(<<>>) = <<>>
  BY DEF Pointer!FlattenSeq
<1>6. Pointer!FlattenSeq(ss) \in Seq(S)
  <2>1. CASE Len(ss) = 0
    <3>1. ss = <<>>
      BY <2>1, EmptySeq
    <3>2. QED
      BY <1>5, <3>1, EmptySeq
  <2>2. CASE Len(ss) # 0
    <3>1. Len(ss) \in 1..Len(ss)
      BY <2>2
    <3>2. QED
      BY <1>1, <1>4, <2>2, <3>1
  <2>3. QED
    BY <2>1, <2>2
<1> DEFINE N == Len(ss)
           tt == Append(ss, t)
<1>7. N \in Nat /\ tt \in Seq(Seq(S)) /\ Len(tt) = N + 1 /\ tt[N + 1] = t /\ \A i \in 1..N : tt[i] = ss[i]
  OBVIOUS
<1> HIDE DEF N, tt
<1>8. \A i \in 1..N : Fl(tt)[i] = Fl(ss)[i]
  <2> DEFINE T == {n \in Nat : n \in 1..N => Fl(tt)[n] = Fl(ss)[n]}
  <2>1. 0 \in T
    OBVIOUS
  <2>2. ASSUME NEW n \in T, n + 1 \in 1..N PROVE Fl(tt)[n + 1] = Fl(ss)[n + 1]
    <3>1. n + 1 \in 1..Len(tt) /\ n + 1 \in 1..Len(ss) /\ n \in Nat
      BY <1>7, <2>2 DEF N
    <3>2. CASE n = 0
      <4>1. Fl(tt)[n + 1] = tt[n + 1]
        BY <1>3, <1>7, <3>1, <3>2
      <4>2. Fl(ss)[n + 1] = ss[n + 1]
        BY <1>3, <3>1, <3>2
      <4>3. QED
        BY <1>7, <2>2, <4>1, <4>2
    <3>3. CASE n # 0
      <4>1. n \in 1..N /\ (n + 1) - 1 = n /\ n + 1 # 1
        BY <1>7, <2>2, <3>1, <3>3
      <4>2. Fl(tt)[n + 1] = Fl(tt)[n] \o tt[n + 1] /\ Fl(ss)[n + 1] = Fl(ss)[n] \o ss[n + 1]
        BY <1>3, <1>7, <3>1, <4>1
      <4>3. Fl(tt)[n] = Fl(ss)[n]
        BY <4>1
      <4>4. QED
        BY <1>7, <2>2, <4>2, <4>3
    <3>4. QED
      BY <3>2, <3>3
  <2>3. T \in SUBSET Nat /\ \A n \in T : n + 1 \in T
    BY <2>2
  <2>4. T = Nat
    <3> HIDE DEF T
    <3> QED BY <2>1, <2>3, Induction
  <2>5. \A i \in 1..N : i \in T
    <3> HIDE DEF T
    <3> QED BY <2>4, <1>7
  <2>6. QED
    BY <2>5
<1>9. Pointer!FlattenSeq(tt) = Fl(tt)[N + 1]
  BY <1>1, <1>7
<1>10. N + 1 \in 1..Len(tt)
  BY <1>7
<1>11. CASE N = 0
  <2>1. Fl(tt)[N + 1] = t
    BY <1>3, <1>7, <1>10, <1>11
  <2>2. ss = <<>>
    BY <1>11 DEF N
  <2>3. <<>> \o t = t
    OBVIOUS
  <2>4. QED
    BY <1>5, <1>6, <1>9, <2>1, <2>2, <2>3 DEF tt
<1>12. CASE N # 0
  <2>1. N \in 1..N /\ (N + 1) - 1 = N /\ N + 1 # 1
    BY <1>7, <1>12
  <2>2. Fl(tt)[N + 1] = Fl(tt)[N] \o t
    BY <1>3, <1>7, <1>10, <2>1
  <2>3. Fl(tt)[N] = Fl(ss)[N]
    BY <1>8, <2>1
  <2>4. Pointer!FlattenSeq(ss) = Fl(ss)[N]
    BY <1>1, <1>12 DEF N
  <2>5. QED
    BY <1>5, <1>6, <1>9, <2>2, <2>3, <2>4 DEF tt
<1>13. QED
  BY <1>5, <1>6, <1>11, <1>12 DEF tt

(* One or two elements at the end of a sequence.                           *)
LEMMA Ending ==
  ASSUME NEW C, NEW s \in Seq(C), NEW x \in C, NEW y \in C
  PROVE  s \o <<x>> = Append(s, x) /\ s \o <<x, y>> = Append(Append(s, x), y)
<1>1. s \o <<x>> = Append(s, x)
  BY AppendIsConcat
<1> DEFINE t == Append(Append(s, x), y)
           u == s \o <<x, y>>
<1>2. t \in Seq(C) /\ Len(t) = Len(s) + 2 /\ t[Len(s) + 1] = x /\ t[Len(s) + 2] = y
      /\ \A n \in 1..Len(s) : t[n] = s[n]
  OBVIOUS
<1>3. u \in Seq(C) /\ Len(u) = Len(s) + 2 /\ u[Len(s) + 1] = x /\ u[Len(s) + 2] = y
      /\ \A n \in 1..Len(s) : u[n] = s[n]
  OBVIOUS
<1>4. Len(s) \in Nat
  OBVIOUS
<1> HIDE DEF t, u
<1>5. \A n \in 1..Len(t) : n \in 1..Len(s) \/ n = Len(s) + 1 \/ n = Len(s) + 2
  BY <1>2, <1>4
<1>6. \A n \in 1..Len(t) : t[n] = u[n]
  BY <1>2, <1>3, <1>5
<1>7. t = u
  BY <1>2, <1>3, <1>6, SeqEqual
<1>8. QED
  BY <1>1, <1>7 DEF t, u

(* What replacing c by d1 and d2 does to one more character.               *)
Widens(C, s, x, c, d1, d2) ==
  LET w == Pointer!Widen(s, c, d1, d2) IN
  /\ Pointer!Widen(<<>>, c, d1, d2) = <<>>
  /\ w \in Seq(C)
  /\ x = c => Pointer!Widen(Append(s, x), c, d1, d2) = Append(Append(w, d1), d2)
  /\ x # c => Pointer!Widen(Append(s, x), c, d1, d2) = Append(w, x)

LEMMA WidenStep ==
  ASSUME NEW C, NEW s \in Seq(C), NEW x \in C, NEW c, NEW d1 \in C, NEW d2 \in C
  PROVE  Widens(C, s, x, c, d1, d2)
<1> DEFINE new(y) == IF y = c THEN <<d1, d2>> ELSE <<y>>
           pieces(q) == [n \in 1..Len(q) |-> new(q[n])]
           t == Append(s, x)
<1>1. \A y \in C : new(y) \in Seq(C)
  OBVIOUS
<1>2. Len(s) \in Nat /\ \A n \in 1..Len(s) : s[n] \in C
  BY LenProperties, ElementOfSeq
<1>3. t \in Seq(C) /\ Len(t) = Len(s) + 1 /\ t[Len(s) + 1] = x /\ \A n \in 1..Len(s) : t[n] = s[n]
  BY AppendProperties
<1> HIDE DEF new, t
<1>4. pieces(s) \in Seq(Seq(C)) /\ Len(pieces(s)) = Len(s)
  BY <1>1, <1>2
<1>5. pieces(t) = Append(pieces(s), new(x))
  <2> DEFINE u == Append(pieces(s), new(x))
  <2>1. u \in Seq(Seq(C)) /\ Len(u) = Len(s) + 1 /\ u[Len(s) + 1] = new(x)
        /\ \A n \in 1..Len(s) : u[n] = pieces(s)[n]
    BY <1>1, <1>4, AppendProperties
  <2> HIDE DEF u
  <2>2. \A n \in 1..(Len(s) + 1) : pieces(t)[n] = u[n]
    BY <1>2, <1>3, <2>1
  <2>3. DOMAIN u = 1..(Len(s) + 1) /\ u = [n \in DOMAIN u |-> u[n]]
    BY <2>1, LenProperties
  <2>4. pieces(t) = u
    BY <1>3, <2>2, <2>3
  <2>5. QED
    BY <2>4 DEF u
<1>6. \A q : Pointer!Widen(q, c, d1, d2) = Pointer!FlattenSeq(pieces(q))
  BY DEF Pointer!Widen, new
<1>7. pieces(<<>>) = <<>>
  OBVIOUS
<1> HIDE DEF pieces
<1> DEFINE w == Pointer!FlattenSeq(pieces(s))
<1>8. new(x) \in Seq(C)
  BY <1>1
<1>9. Pointer!FlattenSeq(<<>>) = <<>> /\ w \in Seq(C) /\ Pointer!FlattenSeq(Append(pieces(s), new(x))) = w \o new(x)
  BY <1>4, <1>8, Flatten
<1>10. Pointer!Widen(<<>>, c, d1, d2) = <<>> /\ Pointer!Widen(s, c, d1, d2) = w
  BY <1>6, <1>7, <1>9
<1>11. Pointer!Widen(t, c, d1, d2) = w \o new(x)
  BY <1>5, <1>6, <1>9
<1> HIDE DEF w
<1>12. w \o <<x>> = Append(w, x) /\ w \o <<d1, d2>> = Append(Append(w, d1), d2)
  BY <1>9, Ending
<1>13. (x = c => new(x) = <<d1, d2>>) /\ (x # c => new(x) = <<x>>)
  BY DEF new
<1>14. QED
  BY <1>9, <1>10, <1>11, <1>12, <1>13 DEF t, Widens

(* What replacing c1 and c2 by d does to one more character and to two,    *)
(* when the sequence before them does not end in c1.                       *)
Narrows(C, s, x, y, c1, c2, d) ==
  LET f == Pointer!Narrow(s, c1, c2, d) IN
  /\ Pointer!Narrow(<<>>, c1, c2, d) = <<>>
  /\ f \in Seq(C)
  /\ Pointer!Narrow(Append(s, x), c1, c2, d) = Append(f, x)
  /\ x = c1 /\ y = c2 => Pointer!Narrow(Append(Append(s, x), y), c1, c2, d) = Append(f, d)
  /\ ~ (x = c1 /\ y = c2) => Pointer!Narrow(Append(Append(s, x), y), c1, c2, d) = Append(Append(f, x), y)

(* A sequence ends in a character.                                         *)
EndsIn(s, c) == Len(s) > 0 /\ s[Len(s)] = c

LEMMA NarrowStep ==
  ASSUME NEW C, NEW s \in Seq(C), NEW c1, NEW c2, NEW d \in C, c1 # c2, ~ EndsIn(s, c1), NEW x \in C, NEW y \in C
  PROVE  Narrows(C, s, x, y, c1, c2, d)
<1> DEFINE Ends(q, n) == n \in 1..Len(q) /\ n > 1 /\ q[n - 1] = c1 /\ q[n] = c2
           piece(q, n) == IF Ends(q, n) THEN <<d>> ELSE IF Ends(q, n + 1) THEN <<>> ELSE <<q[n]>>
           pieces(q) == [n \in 1..Len(q) |-> piece(q, n)]
           N == Len(s)
           s1 == Append(s, x)
           s2 == Append(s1, y)
<1>1. \A q : Pointer!Narrow(q, c1, c2, d) = Pointer!FlattenSeq(pieces(q))
  BY DEF Pointer!Narrow
<1>2. N \in Nat /\ \A n \in 1..N : s[n] \in C
  BY LenProperties, ElementOfSeq
<1>3. /\ s1 \in Seq(C) /\ Len(s1) = N + 1 /\ s1[N + 1] = x /\ \A n \in 1..N : s1[n] = s[n]
      /\ s2 \in Seq(C) /\ Len(s2) = N + 2 /\ s2[N + 1] = x /\ s2[N + 2] = y /\ \A n \in 1..N : s2[n] = s[n]
  BY <1>2
<1> HIDE DEF N, s1, s2
<1>4. N > 0 => s[N] # c1
  BY DEF N, EndsIn
<1>5. ASSUME NEW n \in 1..N PROVE piece(s, n) \in Seq(C) /\ piece(s1, n) = piece(s, n) /\ piece(s2, n) = piece(s, n)
  <2>1. Ends(s1, n) = Ends(s, n) /\ Ends(s2, n) = Ends(s, n)
    BY <1>2, <1>3 DEF N
  <2>2. Ends(s1, n + 1) = Ends(s, n + 1) /\ Ends(s2, n + 1) = Ends(s, n + 1)
    BY <1>2, <1>3, <1>4 DEF N
  <2>3. s[n] \in C /\ s1[n] = s[n] /\ s2[n] = s[n]
    BY <1>2, <1>3
  <2> HIDE DEF Ends
  <2>4. QED
    BY <2>1, <2>2, <2>3
<1>6. piece(s1, N + 1) = <<x>>
  BY <1>2, <1>3, <1>4
<1>7. /\ piece(s2, N + 1) = IF x = c1 /\ y = c2 THEN <<>> ELSE <<x>>
      /\ piece(s2, N + 2) = IF x = c1 /\ y = c2 THEN <<d>> ELSE <<y>>
  BY <1>2, <1>3, <1>4
<1> HIDE DEF piece
<1>8. pieces(s) \in Seq(Seq(C)) /\ Len(pieces(s)) = N /\ \A n \in 1..N : pieces(s)[n] = piece(s, n)
  BY <1>2, <1>5 DEF N
<1> DEFINE a == piece(s2, N + 1)
           b == piece(s2, N + 2)
<1>9. <<x>> \in Seq(C) /\ <<y>> \in Seq(C) /\ <<d>> \in Seq(C) /\ <<>> \in Seq(C)
  OBVIOUS
<1>10. /\ a = IF x = c1 /\ y = c2 THEN <<>> ELSE <<x>>
       /\ b = IF x = c1 /\ y = c2 THEN <<d>> ELSE <<y>>
  BY <1>7
<1> HIDE DEF a, b
<1>11. a \in Seq(C) /\ b \in Seq(C)
  BY <1>9, <1>10
<1>12. pieces(s1) = Append(pieces(s), <<x>>)
  <2> DEFINE u == Append(pieces(s), <<x>>)
  <2>1. u \in Seq(Seq(C)) /\ Len(u) = N + 1 /\ u[N + 1] = <<x>> /\ \A n \in 1..N : u[n] = piece(s, n)
    BY <1>8, <1>9, AppendProperties
  <2> HIDE DEF u
  <2>2. \A n \in 1..(N + 1) : piece(s1, n) = u[n]
    BY <1>2, <1>5, <1>6, <2>1
  <2>3. DOMAIN u = 1..(N + 1) /\ u = [n \in DOMAIN u |-> u[n]]
    BY <2>1, LenProperties
  <2>4. pieces(s1) = u
    BY <1>3, <2>2, <2>3
  <2>5. QED
    BY <2>4 DEF u
<1>13. pieces(s2) = Append(Append(pieces(s), a), b)
  <2> DEFINE u == Append(pieces(s), a)
             v == Append(u, b)
  <2>1. u \in Seq(Seq(C)) /\ Len(u) = N + 1 /\ u[N + 1] = a /\ \A n \in 1..N : u[n] = piece(s, n)
    BY <1>8, <1>11, AppendProperties
  <2> HIDE DEF u
  <2>2. v \in Seq(Seq(C)) /\ Len(v) = N + 2 /\ v[N + 2] = b /\ \A n \in 1..(N + 1) : v[n] = u[n]
    BY <1>2, <1>11, <2>1, AppendProperties
  <2> HIDE DEF v
  <2>3. \A n \in 1..(N + 2) : piece(s2, n) = v[n]
    BY <1>2, <1>5, <2>1, <2>2 DEF a, b
  <2>4. DOMAIN v = 1..(N + 2) /\ v = [n \in DOMAIN v |-> v[n]]
    BY <2>2, LenProperties
  <2>5. pieces(s2) = v
    BY <1>3, <2>3, <2>4
  <2>6. QED
    BY <2>5 DEF u, v
<1>14. pieces(<<>>) = <<>>
  OBVIOUS
<1> HIDE DEF pieces
<1> DEFINE f == Pointer!FlattenSeq(pieces(s))
<1>15. Pointer!FlattenSeq(<<>>) = <<>> /\ f \in Seq(C)
       /\ Pointer!FlattenSeq(Append(pieces(s), <<x>>)) = f \o <<x>>
  BY <1>8, <1>9, Flatten
<1>16. Pointer!FlattenSeq(Append(pieces(s), a)) = f \o a
  BY <1>8, <1>11, Flatten
<1>17. Append(pieces(s), a) \in Seq(Seq(C))
  BY <1>8, <1>11, AppendProperties
<1>18. Pointer!FlattenSeq(Append(Append(pieces(s), a), b)) = (f \o a) \o b
  BY <1>11, <1>16, <1>17, Flatten
<1> HIDE DEF f
<1>19. f \o <<x>> = Append(f, x) /\ f \o <<d>> = Append(f, d) /\ Append(f, x) \o <<y>> = Append(Append(f, x), y)
       /\ f \o <<>> = f
  BY <1>15, Ending, AppendProperties, ConcatEmptySeq
<1>20. /\ Pointer!Narrow(<<>>, c1, c2, d) = <<>> /\ Pointer!Narrow(s, c1, c2, d) = f
       /\ Pointer!Narrow(s1, c1, c2, d) = Append(f, x)
       /\ Pointer!Narrow(s2, c1, c2, d) = (f \o a) \o b
  BY <1>1, <1>12, <1>13, <1>14, <1>15, <1>18, <1>19 DEF f
<1>21. x = c1 /\ y = c2 => (f \o a) \o b = Append(f, d)
  BY <1>10, <1>19
<1>22. ~ (x = c1 /\ y = c2) => (f \o a) \o b = Append(Append(f, x), y)
  BY <1>10, <1>19
<1>23. QED
  BY <1>15, <1>20, <1>21, <1>22 DEF s1, s2, Narrows

(* Escape in two steps: first the tildes, then the slashes.                *)
Tildes(s) == Pointer!Widen(s, "~", "~", "0")

(* What one more character adds to an escaped key.                         *)
Escapes(C, s, x) ==
  /\ Tildes(<<>>) = <<>> /\ Pointer!Escape(<<>>) = <<>>
  /\ Tildes(s) \in Seq(C) /\ Pointer!Escape(s) \in Seq(C)
  /\ x = "~" => /\ Tildes(Append(s, x)) = Append(Append(Tildes(s), "~"), "0")
                /\ Pointer!Escape(Append(s, x)) = Append(Append(Pointer!Escape(s), "~"), "0")
  /\ x # "~" => Tildes(Append(s, x)) = Append(Tildes(s), x)
  /\ x = "/" => Pointer!Escape(Append(s, x)) = Append(Append(Pointer!Escape(s), "~"), "1")
  /\ x # "~" /\ x # "/" => Pointer!Escape(Append(s, x)) = Append(Pointer!Escape(s), x)

LEMMA EscapeStep ==
  ASSUME NEW C, "~" \in C, "/" \in C, "0" \in C, "1" \in C, NEW s \in Seq(C), NEW x \in C
  PROVE  Escapes(C, s, x)
<1> DEFINE slashes(q) == Pointer!Widen(q, "/", "~", "1")
           t == Tildes(s)
           e == slashes(t)
<1>1. \A q : Pointer!Escape(q) = slashes(Tildes(q))
  BY DEF Pointer!Escape, Pointer!Tilde, Pointer!Slash, Tildes
<1>2. ASSUME NEW q \in Seq(C), NEW y \in C
      PROVE  /\ Tildes(<<>>) = <<>> /\ Tildes(q) \in Seq(C)
             /\ y = "~" => Tildes(Append(q, y)) = Append(Append(Tildes(q), "~"), "0")
             /\ y # "~" => Tildes(Append(q, y)) = Append(Tildes(q), y)
  <2>1. Widens(C, q, y, "~", "~", "0")
    BY WidenStep
  <2>2. QED
    BY <2>1 DEF Widens, Tildes
<1>3. ASSUME NEW q \in Seq(C), NEW y \in C
      PROVE  /\ slashes(<<>>) = <<>> /\ slashes(q) \in Seq(C)
             /\ y = "/" => slashes(Append(q, y)) = Append(Append(slashes(q), "~"), "1")
             /\ y # "/" => slashes(Append(q, y)) = Append(slashes(q), y)
  <2>1. Widens(C, q, y, "/", "~", "1")
    BY WidenStep
  <2>2. QED
    BY <2>1 DEF Widens
<1> HIDE DEF slashes
<1>4. t \in Seq(C) /\ e \in Seq(C)
  BY <1>2, <1>3
<1> HIDE DEF t
<1>5. slashes(Append(Append(t, "~"), "0")) = Append(Append(e, "~"), "0")
  <2>1. Append(t, "~") \in Seq(C)
    BY <1>4, AppendProperties
  <2>2. slashes(Append(t, "~")) = Append(e, "~")
    BY <1>3, <1>4
  <2>3. QED
    BY <1>3, <2>1, <2>2
<1>6. (x = "/" => slashes(Append(t, x)) = Append(Append(e, "~"), "1")) /\ (x # "/" => slashes(Append(t, x)) = Append(e, x))
  BY <1>3, <1>4
<1>7. Pointer!Escape(s) = e /\ Pointer!Escape(<<>>) = <<>> /\ Tildes(<<>>) = <<>>
  BY <1>1, <1>2, <1>3, <1>4 DEF t
<1> HIDE DEF e
<1>8. (x = "~" => Tildes(Append(s, x)) = Append(Append(t, "~"), "0")) /\ (x # "~" => Tildes(Append(s, x)) = Append(t, x))
  BY <1>2 DEF t
<1>9. Pointer!Escape(Append(s, x)) = slashes(Tildes(Append(s, x)))
  BY <1>1
<1>10. QED
  BY <1>4, <1>5, <1>6, <1>7, <1>8, <1>9 DEF t, Escapes

(* A text in which no part of a name ends.                                 *)
Slashless(s) == \A n \in 1..Len(s) : s[n] # "/"

LEMMA Longer ==
  ASSUME NEW C, NEW s \in Seq(C), NEW x \in C
  PROVE  /\ Append(s, x) \in Seq(C)
         /\ Slashless(Append(s, x)) <=> Slashless(s) /\ x # "/"
         /\ \A c : EndsIn(Append(s, x), c) <=> x = c
<1> DEFINE t == Append(s, x)
<1>1. /\ t \in Seq(C) /\ Len(t) = Len(s) + 1 /\ t[Len(s) + 1] = x /\ \A n \in 1..Len(s) : t[n] = s[n]
      /\ Len(s) \in Nat
  BY AppendProperties, LenProperties
<1> HIDE DEF t
<1>2. \A n \in 1..Len(t) : n \in 1..Len(s) \/ n = Len(s) + 1
  BY <1>1
<1>3. Slashless(t) <=> Slashless(s) /\ x # "/"
  <2>1. Len(s) + 1 \in 1..Len(t) /\ \A n \in 1..Len(s) : n \in 1..Len(t)
    BY <1>1
  <2>2. QED
    BY <1>1, <1>2, <2>1 DEF Slashless
<1>4. \A c : EndsIn(t, c) <=> x = c
  BY <1>1 DEF EndsIn
<1>5. QED
  BY <1>1, <1>3, <1>4 DEF t

(* An escaped key has no slash, and no tilde at its end.                   *)
LEMMA EscapedKey ==
  ASSUME NEW C, "~" \in C, "/" \in C, "0" \in C, "1" \in C, NEW key \in Seq(C)
  PROVE  /\ Tildes(key) \in Seq(C) /\ ~ EndsIn(Tildes(key), "~")
         /\ Pointer!Escape(key) \in Seq(C) /\ ~ EndsIn(Pointer!Escape(key), "~") /\ Slashless(Pointer!Escape(key))
<1> DEFINE Good(q) == ~ EndsIn(Tildes(q), "~") /\ ~ EndsIn(Pointer!Escape(q), "~") /\ Slashless(Pointer!Escape(q))
           P == {q \in Seq(C) : Good(q)}
<1>1. \A q \in Seq(C) : Tildes(q) \in Seq(C) /\ Pointer!Escape(q) \in Seq(C)
  <2> SUFFICES ASSUME NEW q \in Seq(C) PROVE Tildes(q) \in Seq(C) /\ Pointer!Escape(q) \in Seq(C)
    OBVIOUS
  <2>1. Escapes(C, q, "0")
    BY EscapeStep
  <2>2. QED
    BY <2>1 DEF Escapes
<1>2. <<>> \in P
  <2>1. <<>> \in Seq(C) /\ Escapes(C, <<>>, "0")
    <3>1. <<>> \in Seq(C)
      BY EmptySeq
    <3>2. QED
      BY <3>1, EscapeStep
  <2>2. Tildes(<<>>) = <<>> /\ Pointer!Escape(<<>>) = <<>>
    BY <2>1 DEF Escapes
  <2>3. ~ EndsIn(<<>>, "~") /\ Slashless(<<>>)
    BY DEF EndsIn, Slashless
  <2>4. QED
    BY <2>1, <2>2, <2>3
<1>3. ASSUME NEW q \in P, NEW x \in C PROVE Append(q, x) \in P
  <2> DEFINE t == Tildes(q)
             e == Pointer!Escape(q)
  <2>1. q \in Seq(C) /\ t \in Seq(C) /\ e \in Seq(C) /\ Append(q, x) \in Seq(C) /\ Slashless(e)
    BY <1>1, Longer
  <2>2. Escapes(C, q, x)
    BY <2>1, EscapeStep
  <2>3. /\ Append(t, x) \in Seq(C) /\ Append(e, x) \in Seq(C) /\ Append(t, "~") \in Seq(C) /\ Append(e, "~") \in Seq(C)
        /\ x # "~" => ~ EndsIn(Append(t, x), "~") /\ ~ EndsIn(Append(e, x), "~")
        /\ x # "/" => Slashless(Append(e, x))
        /\ Slashless(Append(e, "~"))
    BY <2>1, Longer
  <2>4. /\ ~ EndsIn(Append(Append(t, "~"), "0"), "~")
        /\ ~ EndsIn(Append(Append(e, "~"), "0"), "~") /\ Slashless(Append(Append(e, "~"), "0"))
        /\ ~ EndsIn(Append(Append(e, "~"), "1"), "~") /\ Slashless(Append(Append(e, "~"), "1"))
    <3> HIDE DEF t, e
    <3>1. ASSUME NEW q1 \in Seq(C), NEW c \in C, c # "~", c # "/"
          PROVE  ~ EndsIn(Append(q1, c), "~") /\ (Slashless(q1) => Slashless(Append(q1, c)))
      BY <3>1, Longer
    <3>2. QED
      BY <2>3, <3>1
  <2>5. Good(Append(q, x))
    BY <2>2, <2>3, <2>4 DEF Escapes
  <2>6. QED
    BY <2>1, <2>5
<1> HIDE DEF P
<1>4. P = Seq(C)
  <2>1. P \in SUBSET Seq(C)
    BY DEF P
  <2>2. QED
    BY <1>2, <1>3, <2>1, SeqInduction
<1>5. QED
  BY <1>1, <1>4 DEF P

(* Unescape undoes Escape: first it gives the slashes back, then the       *)
(* tildes.                                                                 *)
LEMMA KeysLeadBack ==
  ASSUME NEW C, "~" \in C, "/" \in C, "0" \in C, "1" \in C, NEW key \in Seq(C)
  PROVE  Pointer!Unescape(Pointer!Escape(key)) = key
<1> DEFINE slashes(q) == Pointer!Narrow(q, "~", "1", "/")
           tildes(q) == Pointer!Narrow(q, "~", "0", "~")
           P == {q \in Seq(C) : slashes(Pointer!Escape(q)) = Tildes(q)}
           Q == {q \in Seq(C) : tildes(Tildes(q)) = q}
<1>1. <<>> \in P /\ <<>> \in Q
  <2>1. <<>> \in Seq(C) /\ Escapes(C, <<>>, "0")
    <3>1. <<>> \in Seq(C)
      BY EmptySeq
    <3>2. QED
      BY <3>1, EscapeStep
  <2>2. Tildes(<<>>) = <<>> /\ Pointer!Escape(<<>>) = <<>>
    BY <2>1 DEF Escapes
  <2>3. ~ EndsIn(<<>>, "~")
    BY DEF EndsIn
  <2>4. Narrows(C, <<>>, "0", "0", "~", "1", "/") /\ Narrows(C, <<>>, "0", "0", "~", "0", "~")
    BY <2>1, <2>3, NarrowStep
  <2>5. slashes(<<>>) = <<>> /\ tildes(<<>>) = <<>>
    BY <2>4 DEF Narrows
  <2>6. QED
    BY <2>1, <2>2, <2>5
<1>2. ASSUME NEW q \in P, NEW x \in C PROVE Append(q, x) \in P
  <2> DEFINE e == Pointer!Escape(q)
  <2>1. q \in Seq(C) /\ Append(q, x) \in Seq(C) /\ slashes(e) = Tildes(q)
    BY Longer
  <2>2. Escapes(C, q, x)
    BY <2>1, EscapeStep
  <2>3. e \in Seq(C) /\ ~ EndsIn(e, "~")
    BY <2>1, EscapedKey
  <2>4. /\ Narrows(C, e, "~", "0", "~", "1", "/") /\ Narrows(C, e, "~", "1", "~", "1", "/")
        /\ Narrows(C, e, x, "0", "~", "1", "/")
    BY <2>3, NarrowStep
  <2>5. /\ slashes(Append(Append(e, "~"), "0")) = Append(Append(slashes(e), "~"), "0")
        /\ slashes(Append(Append(e, "~"), "1")) = Append(slashes(e), "/")
        /\ slashes(Append(e, x)) = Append(slashes(e), x)
    BY <2>4 DEF Narrows
  <2> HIDE DEF slashes
  <2>6. slashes(Pointer!Escape(Append(q, x))) = Tildes(Append(q, x))
    BY <2>1, <2>2, <2>5 DEF Escapes
  <2>7. QED
    BY <2>1, <2>6
<1>3. ASSUME NEW q \in Q, NEW x \in C PROVE Append(q, x) \in Q
  <2> DEFINE t == Tildes(q)
  <2>1. q \in Seq(C) /\ Append(q, x) \in Seq(C) /\ tildes(t) = q
    BY Longer
  <2>2. Escapes(C, q, x)
    BY <2>1, EscapeStep
  <2>3. t \in Seq(C) /\ ~ EndsIn(t, "~")
    BY <2>1, EscapedKey
  <2>4. Narrows(C, t, "~", "0", "~", "0", "~") /\ Narrows(C, t, x, "0", "~", "0", "~")
    BY <2>3, NarrowStep
  <2>5. tildes(Append(Append(t, "~"), "0")) = Append(tildes(t), "~") /\ tildes(Append(t, x)) = Append(tildes(t), x)
    BY <2>4 DEF Narrows
  <2> HIDE DEF tildes
  <2>6. tildes(Tildes(Append(q, x))) = Append(q, x)
    BY <2>1, <2>2, <2>5 DEF Escapes
  <2>7. QED
    BY <2>1, <2>6
<1> HIDE DEF P, Q
<1>4. P = Seq(C) /\ Q = Seq(C)
  <2>1. P \in SUBSET Seq(C) /\ Q \in SUBSET Seq(C)
    BY DEF P, Q
  <2>2. P = Seq(C)
    BY <1>1, <1>2, <2>1, SeqInduction
  <2>3. Q = Seq(C)
    BY <1>1, <1>3, <2>1, SeqInduction
  <2>4. QED
    BY <2>2, <2>3
<1>5. slashes(Pointer!Escape(key)) = Tildes(key) /\ tildes(Tildes(key)) = key
  BY <1>4 DEF P, Q
<1>6. QED
  BY <1>5 DEF Pointer!Unescape, Pointer!Tilde, Pointer!Slash

(* What one more character does to the parts of a name.                    *)
Later(b, x) == IF x = "/" THEN Append(b, <<>>) ELSE [b EXCEPT ![Len(b)] = Append(b[Len(b)], x)]

LEMMA LaterParts ==
  ASSUME NEW C, NEW b \in Seq(Seq(C)), Len(b) > 0, NEW x \in C
  PROVE  Later(b, x) \in Seq(Seq(C)) /\ Len(Later(b, x)) > 0
<1>1. Len(b) \in Nat /\ b[Len(b)] \in Seq(C) /\ <<>> \in Seq(C)
  BY LenProperties, ElementOfSeq, EmptySeq
<1>2. Append(b[Len(b)], x) \in Seq(C)
  BY <1>1, AppendProperties
<1>3. CASE x = "/"
  <2>1. Append(b, <<>>) \in Seq(Seq(C)) /\ Len(Append(b, <<>>)) = Len(b) + 1
    BY <1>1, AppendProperties
  <2>2. QED
    BY <1>1, <1>3, <2>1 DEF Later
<1>4. CASE x # "/"
  <2> DEFINE y == Append(b[Len(b)], x)
  <2> HIDE DEF y
  <2>1. [b EXCEPT ![Len(b)] = y] \in Seq(Seq(C)) /\ Len([b EXCEPT ![Len(b)] = y]) = Len(b)
    BY <1>2 DEF y
  <2>2. QED
    BY <1>4, <2>1 DEF Later, y
<1>5. QED
  BY <1>3, <1>4

(* Split goes through its text one character after another.                *)
LEMMA SplitStep ==
  ASSUME NEW C, NEW s \in Seq(C), NEW x \in C
  PROVE  /\ Pointer!Split(<<>>) = << <<>> >>
         /\ Pointer!Split(s) \in Seq(Seq(C)) /\ Len(Pointer!Split(s)) > 0
         /\ Pointer!Split(Append(s, x)) = Later(Pointer!Split(s), x)
<1> DEFINE Body(q, f, N) == [n \in 0..N |-> IF n = 0 THEN << <<>> >> ELSE Later(f[n - 1], q[n])]
           Scan(q) == CHOOSE f : f = Body(q, f, Len(q))
<1>1. ASSUME NEW q PROVE Pointer!Split(q) = Scan(q)[Len(q)]
  BY DEF Pointer!Split, Pointer!Slash, Later
<1>2. ASSUME NEW q PROVE \A N \in Nat : \E f : f = Body(q, f, N)
  <2> DEFINE T == {N \in Nat : \E f : f = Body(q, f, N)}
  <2>1. 0 \in T
    <3> DEFINE f == [n \in 0..0 |-> << <<>> >>]
    <3>1. \A n \in 0..0 : n = 0
      OBVIOUS
    <3>2. f = Body(q, f, 0)
      BY <3>1
    <3> HIDE DEF f, Body
    <3>3. QED
      BY <3>2
  <2>2. ASSUME NEW N \in T PROVE N + 1 \in T
    <3>1. PICK f : f = Body(q, f, N)
      OBVIOUS
    <3> DEFINE g == [n \in 0..(N + 1) |-> IF n = 0 THEN << <<>> >> ELSE Later(f[n - 1], q[n])]
    <3>2. N \in Nat /\ \A n \in 0..N : n \in 0..(N + 1)
      OBVIOUS
    <3>3. \A n \in 0..N : f[n] = IF n = 0 THEN << <<>> >> ELSE Later(f[n - 1], q[n])
      BY <3>1
    <3>4. \A n \in 0..N : g[n] = f[n]
      BY <3>2, <3>3
    <3>5. \A n \in 0..(N + 1) : n # 0 => n - 1 \in 0..N
      BY <3>2
    <3>6. \A n \in 0..(N + 1) : n # 0 => Later(f[n - 1], q[n]) = Later(g[n - 1], q[n])
      BY <3>4, <3>5
    <3> HIDE DEF g
    <3>7. g = Body(q, g, N + 1)
      BY <3>6 DEF g
    <3> HIDE DEF Body
    <3>8. QED
      BY <3>2, <3>7
  <2> HIDE DEF T
  <2>3. T = Nat
    <3>1. T \in SUBSET Nat
      BY DEF T
    <3>2. QED
      BY <2>1, <2>2, <3>1, Induction
  <2>4. QED
    BY <2>3 DEF T
<1>3. ASSUME NEW q \in Seq(C)
      PROVE  Scan(q)[0] = << <<>> >> /\ \A n \in 1..Len(q) : Scan(q)[n] = Later(Scan(q)[n - 1], q[n])
  <2>1. Len(q) \in Nat
    BY LenProperties
  <2>2. \E f : f = Body(q, f, Len(q))
    BY <1>2, <2>1
  <2> DEFINE F == Scan(q)
  <2>3. F = Body(q, F, Len(q))
    <3> HIDE DEF Body
    <3> QED BY <2>2
  <2> HIDE DEF F
  <2>4. \A n \in 0..Len(q) : F[n] = IF n = 0 THEN << <<>> >> ELSE Later(F[n - 1], q[n])
    BY <2>3
  <2>5. 0 \in 0..Len(q) /\ \A n \in 1..Len(q) : n \in 0..Len(q) /\ n # 0
    BY <2>1
  <2>6. F[0] = << <<>> >> /\ \A n \in 1..Len(q) : F[n] = Later(F[n - 1], q[n])
    BY <2>4, <2>5
  <2>7. QED
    BY <2>6 DEF F
<1> HIDE DEF Scan
<1>4. Pointer!Split(<<>>) = << <<>> >>
  <2>1. <<>> \in Seq(C) /\ Len(<<>>) = 0
    BY EmptySeq
  <2>2. QED
    BY <1>1, <1>3, <2>1
<1> DEFINE t == Append(s, x)
           N == Len(s)
<1>5. /\ t \in Seq(C) /\ Len(t) = N + 1 /\ t[N + 1] = x /\ \A n \in 1..N : t[n] = s[n]
      /\ N \in Nat /\ N = Len(s) /\ \A n \in 1..N : s[n] \in C
  BY AppendProperties, LenProperties, ElementOfSeq
<1> HIDE DEF t, N
<1>6. \A n \in 0..N : Scan(s)[n] \in Seq(Seq(C)) /\ Len(Scan(s)[n]) > 0 /\ Scan(t)[n] = Scan(s)[n]
  <2> DEFINE Same(n) == Scan(s)[n] \in Seq(Seq(C)) /\ Len(Scan(s)[n]) > 0 /\ Scan(t)[n] = Scan(s)[n]
             T == {n \in Nat : n \in 0..N => Same(n)}
  <2>1. 0 \in T
    <3>1. << <<>> >> \in Seq(Seq(C)) /\ Len(<< <<>> >>) = 1
      OBVIOUS
    <3>2. Scan(s)[0] = << <<>> >> /\ Scan(t)[0] = << <<>> >>
      BY <1>3, <1>5
    <3>3. Same(0)
      BY <3>1, <3>2
    <3> HIDE DEF Same
    <3>4. QED
      BY <3>3
  <2>2. ASSUME NEW n \in T, n + 1 \in 0..N PROVE Same(n + 1)
    <3>1. n \in Nat /\ n \in 0..N /\ n + 1 \in 1..N /\ n + 1 \in 1..(N + 1) /\ (n + 1) - 1 = n
      BY <1>5, <2>2
    <3>2. Scan(s)[n + 1] = Later(Scan(s)[n], s[n + 1]) /\ Scan(t)[n + 1] = Later(Scan(t)[n], t[n + 1])
      BY <1>3, <1>5, <3>1
    <3>3. Same(n)
      BY <3>1
    <3>4. Scan(t)[n + 1] = Scan(s)[n + 1]
      BY <1>5, <3>1, <3>2, <3>3
    <3>5. s[n + 1] \in C
      BY <1>5, <3>1
    <3>6. Scan(s)[n + 1] \in Seq(Seq(C)) /\ Len(Scan(s)[n + 1]) > 0
      BY <3>2, <3>3, <3>5, LaterParts
    <3>7. QED
      BY <3>4, <3>6
  <2>3. T \in SUBSET Nat /\ \A n \in T : n + 1 \in T
    BY <2>2
  <2>4. T = Nat
    <3> HIDE DEF T
    <3> QED BY <2>1, <2>3, Induction
  <2>5. \A n \in 0..N : n \in T
    <3> HIDE DEF T
    <3> QED BY <2>4, <1>5
  <2>6. QED
    BY <2>5
<1>7. N \in 0..N /\ N + 1 \in 1..(N + 1) /\ (N + 1) - 1 = N
  BY <1>5
<1>8. Pointer!Split(s) = Scan(s)[N] /\ Pointer!Split(t) = Scan(t)[N + 1]
  BY <1>1, <1>5
<1>9. Scan(t)[N + 1] = Later(Scan(t)[N], x)
  BY <1>3, <1>5, <1>7
<1>10. QED
  BY <1>4, <1>6, <1>7, <1>8, <1>9 DEF t

(* A text without slashes is the whole of the last part.                   *)
LEMMA SplitRest ==
  ASSUME NEW C, NEW q \in Seq(C), NEW b \in Seq(Seq(C)), Pointer!Split(q) = Append(b, <<>>),
         NEW e \in Seq(C), Slashless(e)
  PROVE  Pointer!Split(q \o e) = Append(b, e)
<1> DEFINE P == {r \in Seq(C) : Slashless(r) => Pointer!Split(q \o r) = Append(b, r)}
<1>1. <<>> \in P
  BY EmptySeq, ConcatEmptySeq
<1>2. ASSUME NEW r \in P, NEW x \in C PROVE Append(r, x) \in P
  <2>1. r \in Seq(C) /\ Append(r, x) \in Seq(C)
    BY AppendProperties
  <2> SUFFICES ASSUME Slashless(Append(r, x)) PROVE Pointer!Split(q \o Append(r, x)) = Append(b, Append(r, x))
    BY <2>1
  <2>2. Slashless(r) /\ x # "/"
    BY <2>1, Longer
  <2>3. q \o r \in Seq(C) /\ q \o Append(r, x) = Append(q \o r, x)
    BY <2>1
  <2>4. Pointer!Split(q \o Append(r, x)) = Later(Append(b, r), x)
    <3>1. Pointer!Split(Append(q \o r, x)) = Later(Pointer!Split(q \o r), x)
      BY <2>3, SplitStep
    <3>2. QED
      BY <2>2, <2>3, <3>1
  <2>5. Later(Append(b, r), x) = Append(b, Append(r, x))
    <3> DEFINE S == Seq(C)
               c == Append(b, r)
               y == Append(r, x)
    <3>1. b \in Seq(S) /\ r \in S /\ y \in S
      BY <2>1
    <3> HIDE DEF S, y
    <3>2. c \in Seq(S) /\ Len(c) = Len(b) + 1 /\ c[Len(c)] = r /\ Len(b) \in Nat
      BY <3>1, AppendProperties, LenProperties
    <3>3. [c EXCEPT ![Len(c)] = y] = Append(b, y)
      <4> DEFINE u == [c EXCEPT ![Len(c)] = y]
                 v == Append(b, y)
      <4>1. \A n \in 1..Len(b) : c[n] = b[n]
        BY <3>1, AppendProperties
      <4>2. v \in Seq(S) /\ Len(v) = Len(b) + 1 /\ v[Len(b) + 1] = y /\ \A n \in 1..Len(b) : v[n] = b[n]
        BY <3>1, AppendProperties
      <4> HIDE DEF v, c
      <4>3. u \in Seq(S) /\ Len(u) = Len(c) /\ u[Len(c)] = y /\ \A n \in 1..Len(b) : u[n] = c[n]
        BY <3>1, <3>2
      <4> HIDE DEF u
      <4>4. \A n \in 1..Len(u) : n \in 1..Len(b) \/ n = Len(b) + 1
        BY <3>2, <4>3
      <4>5. \A n \in 1..Len(u) : u[n] = v[n]
        BY <3>2, <4>1, <4>2, <4>3, <4>4
      <4>6. u = v
        BY <3>2, <4>2, <4>3, <4>5, SeqEqual
      <4>7. QED
        BY <4>6 DEF u, v
    <3>4. Later(c, x) = [c EXCEPT ![Len(c)] = y]
      BY <2>2, <3>2 DEF Later, y
    <3>5. QED
      BY <3>3, <3>4 DEF y
  <2>6. QED
    BY <2>4, <2>5
<1> HIDE DEF P
<1>3. P = Seq(C)
  <2>1. P \in SUBSET Seq(C)
    BY DEF P
  <2>2. QED
    BY <1>1, <1>2, <2>1, SeqInduction
<1>4. QED
  BY <1>3 DEF P

(* One more key gives the name a slash and the escaped key.                *)
LEMMA PointerStep ==
  ASSUME NEW C, "~" \in C, "/" \in C, "0" \in C, "1" \in C, NEW p \in Seq(Seq(C)), NEW k \in Seq(C)
  PROVE  /\ Pointer!Pointer(<<>>) = <<>>
         /\ Pointer!Pointer(p) \in Seq(C)
         /\ Pointer!Pointer(Append(p, k)) = Append(Pointer!Pointer(p), "/") \o Pointer!Escape(k)
<1> DEFINE piece(j) == <<"/">> \o Pointer!Escape(j)
           pieces(q) == [n \in 1..Len(q) |-> piece(q[n])]
           t == Append(p, k)
           N == Len(p)
<1>1. \A j \in Seq(C) : piece(j) \in Seq(C)
  <2> SUFFICES ASSUME NEW j \in Seq(C) PROVE piece(j) \in Seq(C)
    OBVIOUS
  <2>1. Pointer!Escape(j) \in Seq(C) /\ <<"/">> \in Seq(C)
    BY EscapedKey
  <2>2. QED
    BY <2>1, ConcatProperties
<1>2. \A q : Pointer!Pointer(q) = Pointer!FlattenSeq(pieces(q))
  BY DEF Pointer!Pointer, Pointer!Slash
<1>3. pieces(<<>>) = <<>>
  OBVIOUS
<1>4. N \in Nat /\ \A n \in 1..N : p[n] \in Seq(C)
  BY LenProperties, ElementOfSeq
<1>5. Len(t) = N + 1 /\ t[N + 1] = k /\ \A n \in 1..N : t[n] = p[n]
  BY AppendProperties
<1> HIDE DEF t, piece
<1>6. pieces(p) \in Seq(Seq(C)) /\ Len(pieces(p)) = N
  BY <1>1, <1>4
<1> HIDE DEF N
<1>7. pieces(t) = Append(pieces(p), piece(k))
  <2> DEFINE u == Append(pieces(p), piece(k))
  <2>1. u \in Seq(Seq(C)) /\ Len(u) = N + 1 /\ u[N + 1] = piece(k)
        /\ \A n \in 1..N : u[n] = pieces(p)[n]
    BY <1>1, <1>6, AppendProperties
  <2> HIDE DEF u
  <2>2. \A n \in 1..(N + 1) : piece(t[n]) = u[n]
    <3>1. \A n \in 1..N : u[n] = piece(p[n])
      BY <2>1 DEF N
    <3>2. \A n \in 1..(N + 1) : n \in 1..N \/ n = N + 1
      BY <1>4
    <3>3. QED
      BY <1>5, <2>1, <3>1, <3>2
  <2>3. DOMAIN u = 1..(N + 1) /\ u = [n \in DOMAIN u |-> u[n]]
    BY <2>1, LenProperties
  <2>4. pieces(t) = u
    BY <1>5, <2>2, <2>3
  <2>5. QED
    BY <2>4 DEF u
<1> HIDE DEF pieces
<1> DEFINE f == Pointer!FlattenSeq(pieces(p))
<1>8. piece(k) \in Seq(C)
  BY <1>1
<1>9. Pointer!FlattenSeq(<<>>) = <<>> /\ f \in Seq(C) /\ Pointer!FlattenSeq(Append(pieces(p), piece(k))) = f \o piece(k)
  BY <1>6, <1>8, Flatten
<1>10. Pointer!Pointer(p) = f /\ Pointer!Pointer(t) = f \o piece(k) /\ Pointer!Pointer(<<>>) = <<>>
  BY <1>2, <1>3, <1>7, <1>9
<1> HIDE DEF f
<1>11. f \o piece(k) = Append(f, "/") \o Pointer!Escape(k)
  <2> DEFINE e == Pointer!Escape(k)
  <2>1. e \in Seq(C) /\ <<"/">> \in Seq(C)
    BY EscapedKey
  <2> HIDE DEF e
  <2>2. (f \o <<"/">>) \o e = f \o (<<"/">> \o e)
    BY <1>9, <2>1, ConcatAssociative
  <2>3. f \o <<"/">> = Append(f, "/")
    BY <1>9, AppendIsConcat
  <2>4. QED
    BY <2>2, <2>3 DEF piece, e
<1>12. QED
  BY <1>9, <1>10, <1>11 DEF t

(* The first element leaves a sequence of two parts by the first of them.  *)
Tails(s, x, e) ==
  /\ Tail(Append(s, x) \o e) = Tail(Append(s, x)) \o e
  /\ Append(s, x) \o e # <<>>
  /\ (Append(s, x) \o e)[1] = IF s = <<>> THEN x ELSE s[1]
  /\ Tail(Append(s, x)) = IF s = <<>> THEN <<>> ELSE Append(Tail(s), x)

LEMMA TailOfConcat ==
  ASSUME NEW C, NEW s \in Seq(C), NEW x \in C, NEW e \in Seq(C)
  PROVE  Tails(s, x, e)
<1> DEFINE a == Append(s, x)
<1>1. a \in Seq(C) /\ a # <<>> /\ Len(a) = Len(s) + 1 /\ Len(s) \in Nat /\ Len(e) \in Nat
      /\ a[Len(s) + 1] = x /\ \A n \in 1..Len(s) : a[n] = s[n]
  BY AppendProperties, LenProperties
<1>2. Tail(a) = IF s = <<>> THEN <<>> ELSE Append(Tail(s), x)
  BY HeadTailAppend
<1> HIDE DEF a
<1> DEFINE b == a \o e
<1>3. b \in Seq(C) /\ Len(b) = Len(a) + Len(e)
      /\ \A i \in 1..(Len(a) + Len(e)) : b[i] = IF i <= Len(a) THEN a[i] ELSE e[i - Len(a)]
  BY <1>1, ConcatProperties
<1> HIDE DEF b
<1>4. b # <<>>
  BY <1>1, <1>3, EmptySeq
<1>5. b[1] = IF s = <<>> THEN x ELSE s[1]
  <2>1. 1 \in 1..(Len(a) + Len(e)) /\ 1 <= Len(a)
    BY <1>1
  <2>2. b[1] = a[1]
    BY <1>3, <2>1
  <2>3. s = <<>> => Len(s) = 0
    BY EmptySeq
  <2>4. s # <<>> => 1 \in 1..Len(s)
    BY <1>1, EmptySeq
  <2>5. QED
    BY <1>1, <2>2, <2>3, <2>4
<1>6. Tail(b) = Tail(a) \o e
  <2> DEFINE u == Tail(b)
             v == Tail(a)
             w == v \o e
  <2>1. u \in Seq(C) /\ Len(u) = Len(b) - 1 /\ \A i \in 1..Len(u) : u[i] = b[i + 1]
    BY <1>3, <1>4, HeadTailProperties
  <2>2. v \in Seq(C) /\ Len(v) = Len(a) - 1 /\ \A i \in 1..Len(v) : v[i] = a[i + 1]
    BY <1>1, HeadTailProperties
  <2> HIDE DEF u, v
  <2>3. w \in Seq(C) /\ Len(w) = Len(v) + Len(e)
        /\ \A i \in 1..(Len(v) + Len(e)) : w[i] = IF i <= Len(v) THEN v[i] ELSE e[i - Len(v)]
    BY <2>2, ConcatProperties
  <2> HIDE DEF w
  <2>4. Len(u) = Len(w)
    BY <1>1, <1>3, <2>1, <2>2, <2>3
  <2>5. ASSUME NEW i \in 1..Len(u) PROVE u[i] = w[i]
    <3>1. u[i] = b[i + 1] /\ i + 1 \in 1..(Len(a) + Len(e)) /\ i \in 1..(Len(v) + Len(e))
      BY <1>1, <1>3, <2>1, <2>2
    <3>2. CASE i <= Len(v)
      <4>1. i \in 1..Len(v) /\ i + 1 <= Len(a)
        BY <1>1, <2>2, <3>2
      <4>2. QED
        BY <1>3, <2>2, <2>3, <3>1, <3>2, <4>1
    <3>3. CASE ~ (i <= Len(v))
      <4>1. ~ (i + 1 <= Len(a)) /\ (i + 1) - Len(a) = i - Len(v)
        BY <1>1, <2>2, <3>3
      <4>2. QED
        BY <1>3, <2>3, <3>1, <3>3, <4>1
    <3>4. QED
      BY <3>2, <3>3
  <2>6. u = w
    BY <2>1, <2>3, <2>4, <2>5, SeqEqual
  <2>7. QED
    BY <2>6 DEF u, v, w
<1>7. QED
  BY <1>2, <1>3, <1>4, <1>5, <1>6 DEF a, b, Tails

(* The name of a path leads back to it, however deep it is and whatever    *)
(* its keys hold.                                                          *)
LEMMA PathsLeadBack ==
  ASSUME NEW C, "~" \in C, "/" \in C, "0" \in C, "1" \in C, NEW path \in Seq(Seq(C)), path # <<>>
  PROVE  Pointer!Parts(Pointer!Pointer(path)) = path
<1> DEFINE K == Seq(C)
           Escaped(p) == [n \in 1..Len(p) |-> Pointer!Escape(p[n])]
           Good(p) == LET name == Pointer!Pointer(p) IN
                      /\ name # <<>> /\ name[1] = "/" /\ Pointer!Split(Tail(name)) = Escaped(p)
           P == {p \in Seq(K) : p # <<>> => Good(p)}
<1>1. <<>> \in P
  BY EmptySeq
<1>2. ASSUME NEW p \in P, NEW k \in K PROVE Append(p, k) \in P
  <2> DEFINE f == Pointer!Pointer(p)
             e == Pointer!Escape(k)
             b == Escaped(p)
             name == Append(f, "/") \o e
  <2>1. /\ p \in Seq(K) /\ k \in K /\ Append(p, k) \in Seq(K)
        /\ Len(p) \in Nat /\ \A n \in 1..Len(p) : p[n] \in K
    BY AppendProperties, LenProperties, ElementOfSeq
  <2>2. f \in K /\ Pointer!Pointer(Append(p, k)) = name
    BY <2>1, PointerStep
  <2>3. e \in K /\ Slashless(e)
    BY EscapedKey
  <2>4. b \in Seq(K) /\ Len(b) = Len(p)
    BY <2>1, EscapedKey
  <2>5. Escaped(Append(p, k)) = Append(b, e)
    <3> DEFINE t == Append(p, k)
               u == Append(b, e)
    <3>1. Len(t) = Len(p) + 1 /\ t[Len(p) + 1] = k /\ \A n \in 1..Len(p) : t[n] = p[n]
      BY <2>1, AppendProperties
    <3>2. u \in Seq(K) /\ Len(u) = Len(p) + 1 /\ u[Len(p) + 1] = e /\ \A n \in 1..Len(p) : u[n] = b[n]
      BY <2>3, <2>4, AppendProperties
    <3> HIDE DEF t, u
    <3>3. \A n \in 1..(Len(p) + 1) : Pointer!Escape(t[n]) = u[n]
      <4>1. \A n \in 1..Len(p) : u[n] = Pointer!Escape(p[n])
        BY <3>2
      <4>2. \A n \in 1..(Len(p) + 1) : n \in 1..Len(p) \/ n = Len(p) + 1
        BY <2>1
      <4>3. QED
        BY <3>1, <3>2, <4>1, <4>2
    <3>4. DOMAIN u = 1..(Len(p) + 1) /\ u = [n \in DOMAIN u |-> u[n]]
      BY <3>2, LenProperties
    <3>5. Escaped(t) = u
      BY <3>1, <3>3, <3>4
    <3>6. QED
      BY <3>5 DEF t, u
  <2> HIDE DEF f, e
  <2>6. /\ Tail(name) = Tail(Append(f, "/")) \o e /\ name # <<>>
        /\ name[1] = IF f = <<>> THEN "/" ELSE f[1]
        /\ Tail(Append(f, "/")) = IF f = <<>> THEN <<>> ELSE Append(Tail(f), "/")
    <3>1. Tails(f, "/", e)
      BY <2>2, <2>3, TailOfConcat
    <3>2. QED
      BY <3>1 DEF Tails
  <2>7. CASE p = <<>>
    <3>1. f = <<>> /\ b = <<>>
      BY <2>7, PointerStep DEF f
    <3>2. Pointer!Split(<<>>) = Append(<<>>, <<>>)
      <4>1. <<>> \in K
        BY EmptySeq
      <4>2. Pointer!Split(<<>>) = << <<>> >>
        BY <4>1, SplitStep
      <4>3. QED
        BY <4>2
    <3>3. Pointer!Split(<<>> \o e) = Append(<<>>, e)
      <4>1. <<>> \in Seq(C) /\ <<>> \in Seq(Seq(C))
        BY EmptySeq
      <4>2. QED
        BY <2>3, <3>2, <4>1, SplitRest
    <3>4. QED
      BY <2>1, <2>2, <2>5, <2>6, <3>1, <3>3
  <2>8. CASE p # <<>>
    <3>1. f # <<>> /\ f[1] = "/" /\ Pointer!Split(Tail(f)) = b
      BY <2>8 DEF f
    <3>2. Tail(f) \in K /\ Append(Tail(f), "/") \in K
      BY <2>2, <3>1, HeadTailProperties, AppendProperties
    <3>3. Pointer!Split(Append(Tail(f), "/")) = Append(b, <<>>)
      BY <3>1, <3>2, SplitStep DEF Later
    <3> HIDE DEF b
    <3>4. Pointer!Split(Append(Tail(f), "/") \o e) = Append(b, e)
      BY <2>3, <2>4, <3>2, <3>3, SplitRest
    <3>5. QED
      BY <2>1, <2>2, <2>5, <2>6, <3>1, <3>4
  <2>9. QED
    BY <2>7, <2>8
<1> HIDE DEF P
<1>3. P = Seq(K)
  <2>1. P \in SUBSET Seq(K)
    BY DEF P
  <2>2. QED
    BY <1>1, <1>2, <2>1, SeqInduction
<1>4. Good(path)
  BY <1>3 DEF P
<1>5. Pointer!Parts(Pointer!Pointer(path)) =
        [n \in 1..Len(Escaped(path)) |-> Pointer!Unescape(Escaped(path)[n])]
  BY <1>4 DEF Pointer!Parts, Pointer!Slash
<1>6. Len(path) \in Nat /\ path = [n \in 1..Len(path) |-> path[n]] /\ \A n \in 1..Len(path) : path[n] \in Seq(C)
  BY LenProperties, ElementOfSeq
<1>7. \A n \in 1..Len(path) : Pointer!Unescape(Pointer!Escape(path[n])) = path[n]
  BY <1>6, KeysLeadBack
<1>8. Len(Escaped(path)) = Len(path) /\ \A n \in 1..Len(path) : Escaped(path)[n] = Pointer!Escape(path[n])
  BY <1>6
<1> HIDE DEF Escaped
<1>9. QED
  BY <1>5, <1>6, <1>7, <1>8

(* The name is that of the path, and the path it leads to is the path.     *)
PathOK ==
  /\ v1 \in Seq(Keys) /\ v1 # <<>>
  /\ v2 \in {Pointer!Unnamed, <<"named", Pointer!Pointer(v1)>>, <<"found", v1>>}

LEMMA PathStart ==
  ASSUME Pointer!Init
  PROVE  PathOK
<1>1. PICK n \in 1..MaxDepth : v1 \in [1..n -> Keys]
  BY DEF Pointer!Init
<1>2. n \in Nat /\ n # 0
  BY ValuesOK DEF Pointer!ConstantsOK
<1>3. v1 \in Seq(Keys) /\ Len(v1) = n
  BY <1>1, <1>2
<1>4. v1 # <<>>
  BY <1>2, <1>3, EmptySeq
<1>5. QED
  BY <1>3, <1>4 DEF Pointer!Init, PathOK

LEMMA PathStep ==
  ASSUME PathOK, [Pointer!Next]_(Pointer!vars)
  PROVE  PathOK'
<1>1. CASE Pointer!List
  BY <1>1 DEF Pointer!List, PathOK
<1>2. CASE Pointer!Find
  <2>1. v2 = <<"named", Pointer!Pointer(v1)>> /\ v1' = v1 /\ v2' = <<"found", Pointer!Parts(v2[2])>>
    BY <1>2 DEF Pointer!Find, PathOK, Pointer!Unnamed
  <2> DEFINE C == Pointer!Characters \cup {"~", "/", "0", "1"}
  <2>2. v1 \in Seq(Seq(C)) /\ v1 # <<>>
    <3>1. Keys \subseteq Seq(Pointer!Characters)
      BY ValuesOK DEF Pointer!ConstantsOK
    <3>2. Pointer!Characters \subseteq C
      OBVIOUS
    <3> HIDE DEF C
    <3>3. Keys \subseteq Seq(C)
      BY <3>1, <3>2, SeqMonotonic
    <3>4. QED
      BY <3>3, SeqMonotonic DEF PathOK
  <2>3. "~" \in C /\ "/" \in C /\ "0" \in C /\ "1" \in C
    OBVIOUS
  <2> HIDE DEF C
  <2>4. Pointer!Parts(Pointer!Pointer(v1)) = v1
    BY <2>2, <2>3, PathsLeadBack
  <2>5. v2[2] = Pointer!Pointer(v1)
    BY <2>1
  <2>6. QED
    BY <2>1, <2>4, <2>5 DEF PathOK
<1>3. CASE UNCHANGED Pointer!vars
  BY <1>3 DEF Pointer!vars, PathOK
<1>4. QED
  BY <1>1, <1>2, <1>3 DEF Pointer!Next

(* The name a field was listed with leads back to it, whatever its keys    *)
(* hold and however deep it lies (signature.go:37-52, replay.go:46-53).    *)
THEOREM NamesOfFieldsLeadBack == Spec => []NamesLeadBack
<1> DEFINE Inv == tool = "name a field" => PathOK
<1>1. Init => Inv
  BY PathStart DEF Init
<1>2. Inv /\ [Next]_vars => Inv'
  BY StepOfTool, PathStep
<1>3. Inv => NamesLeadBack
  <2>1. v2 = Pointer!Unnamed => v2[1] # "found"
    BY DEF Pointer!Unnamed
  <2> DEFINE d == Pointer!Pointer(v1)
  <2> HIDE DEF d
  <2>2. v2 = <<"named", d>> => v2[1] # "found"
    OBVIOUS
  <2>3. v2 = <<"found", v1>> => v2[2] = v1
    OBVIOUS
  <2>4. PathOK => Pointer!NamesLeadBack
    BY <2>1, <2>2, <2>3 DEF PathOK, d, Pointer!NamesLeadBack
  <2>5. QED
    BY <2>4 DEF NamesLeadBack
<1> HIDE DEF Inv
<1>4. QED
  BY <1>1, <1>2, <1>3, PTL DEF Spec

----------------------------------------------------------------------------
(* Plans.  v1 is the entry, v2 the kind, v3 where the plan is, v4 the      *)
(* targets and v5 the recipes.                                             *)

(* Finite sets in the module are those of FiniteSets.                      *)
LEMMA PlanSets ==
  ASSUME NEW S
  PROVE  /\ Plan!IsFiniteSet(S) <=> IsFiniteSet(S)
         /\ Plan!Cardinality(S) = Cardinality(S)
<1>1. Plan!IsFiniteSet(S) <=> IsFiniteSet(S)
  BY DEF Plan!IsFiniteSet, IsFiniteSet
<1>2. Plan!Cardinality(S) = Cardinality(S)
  BY DEF Plan!Cardinality, Cardinality
<1>3. QED
  BY <1>1, <1>2

LEMMA PlanFields ==
  ASSUME v1 \in Selected
  PROVE  /\ Plan!Eligible \subseteq Fields /\ IsFiniteSet(Plan!Eligible)
         /\ \A f, g \in Plan!Eligible : f.place \in Nat /\ f.surface \in Plan!Surfaces /\ (f.place = g.place => f = g)
<1>1. Plan!Eligible \subseteq Fields
  BY ValuesOK DEF Plan!Eligible, Plan!ConstantsOK
<1>2. IsFiniteSet(Plan!Eligible)
  <2>1. IsFiniteSet(Fields) /\ Plan!Eligible \in SUBSET Fields
    BY <1>1, ValuesOK, PlanSets DEF Plan!ConstantsOK
  <2>2. QED
    BY <2>1, FS_Subset
<1>3. QED
  BY <1>1, <1>2, ValuesOK DEF Plan!ConstantsOK

(* Of two fields one is before the other.                                  *)
LEMMA Ordered ==
  ASSUME v1 \in Selected
  PROVE  /\ \A f \in Plan!Eligible : ~ Plan!Before(f, f)
         /\ \A f, g \in Plan!Eligible : f # g => Plan!Before(f, g) \/ Plan!Before(g, f)
         /\ \A f, g, h \in Plan!Eligible : Plan!Before(f, g) /\ Plan!Before(g, h) => Plan!Before(f, h)
<1>1. \A f \in Plan!Eligible : Plan!Priority(f) \in Int
  BY DEF Plan!Priority
<1>2. QED
  BY <1>1, PlanFields DEF Plan!Before

(* The ranked fields are the eligible ones, those before a field first.    *)
LEMMA RankedFields ==
  ASSUME v1 \in Selected
  PROVE  /\ Cardinality(Plan!Eligible) \in Nat
         /\ Plan!Eligible # {} => Cardinality(Plan!Eligible) # 0
         /\ DOMAIN Plan!Ranked = 1..Cardinality(Plan!Eligible)
         /\ \A k \in 1..Cardinality(Plan!Eligible) :
              Plan!Ranked[k] \in Plan!Eligible /\ Cardinality(Plan!Ahead(Plan!Ranked[k])) = k - 1
         /\ \A k \in 1..Cardinality(Plan!Eligible) : \A f \in Plan!Ahead(Plan!Ranked[k]) :
              \E j \in 1..(k - 1) : Plan!Ranked[j] = f
<1> DEFINE S == Plan!Eligible
           below == [f \in S |-> Plan!Ahead(f)]
<1>1. IsFiniteSet(S)
  BY PlanFields
<1>2. below \in [S -> SUBSET S]
  BY DEF Plan!Ahead
<1>3. \A f \in S : f \notin below[f]
  BY Ordered DEF Plan!Ahead
<1>4. \A f, g \in S : f # g => \/ f \in below[g] /\ below[f] \subseteq below[g]
                               \/ g \in below[f] /\ below[g] \subseteq below[f]
  BY Ordered DEF Plan!Ahead
<1>5. \A f \in S : below[f] = Plan!Ahead(f)
  OBVIOUS
<1> HIDE DEF below
<1>6. /\ \A f, g \in S : g \in below[f] => Cardinality(below[g]) < Cardinality(below[f])
      /\ \A f, g \in S : Cardinality(below[g]) = Cardinality(below[f]) => f = g
      /\ \A f \in S : Cardinality(below[f]) + 1 \in 1..Cardinality(S)
      /\ \A k \in 1..Cardinality(S) : \E f \in S : Cardinality(below[f]) = k - 1
  BY <1>1, <1>2, <1>3, <1>4, Ranks
<1>7. Cardinality(S) \in Nat /\ \A f \in S : Cardinality(below[f]) \in Nat
  <2>1. \A f \in S : IsFiniteSet(below[f])
    BY <1>1, <1>2, FS_Subset
  <2>2. QED
    BY <1>1, <2>1, FS_CardinalityType
<1>8. \A k \in 1..Cardinality(S) : \E f \in S : Cardinality(Plan!Ahead(f)) = k - 1
  BY <1>5, <1>6
<1>9. \A k \in 1..Cardinality(S) : Plan!Ranked[k] \in S /\ Cardinality(Plan!Ahead(Plan!Ranked[k])) = k - 1
  <2> SUFFICES ASSUME NEW k \in 1..Cardinality(S)
               PROVE  Plan!Ranked[k] \in S /\ Cardinality(Plan!Ahead(Plan!Ranked[k])) = k - 1
    OBVIOUS
  <2>1. Plan!Ranked[k] = CHOOSE f \in S : Plan!Cardinality(Plan!Ahead(f)) = k - 1
    <3>1. Plan!Cardinality(S) = Cardinality(S)
      BY PlanSets
    <3>2. QED
      BY <3>1 DEF Plan!Ranked
  <2>2. \E f \in S : Plan!Cardinality(Plan!Ahead(f)) = k - 1
    BY <1>8, PlanSets
  <2>3. Plan!Ranked[k] \in S /\ Plan!Cardinality(Plan!Ahead(Plan!Ranked[k])) = k - 1
    BY <2>1, <2>2
  <2>4. QED
    BY <2>3, PlanSets
<1>10. ASSUME NEW k \in 1..Cardinality(S), NEW f \in Plan!Ahead(Plan!Ranked[k])
       PROVE  \E j \in 1..(k - 1) : Plan!Ranked[j] = f
  <2>1. f \in S
    BY DEF Plan!Ahead
  <2>2. /\ Cardinality(below[f]) < Cardinality(below[Plan!Ranked[k]])
        /\ Cardinality(below[Plan!Ranked[k]]) = k - 1
    BY <2>1, <1>5, <1>6, <1>9, <1>10
  <2> DEFINE j == Cardinality(below[f]) + 1
  <2>3. j \in 1..Cardinality(S)
    BY <2>1, <1>6
  <2>4. j \in 1..(k - 1)
    BY <2>1, <2>2, <2>3, <1>7
  <2>5. Cardinality(below[Plan!Ranked[j]]) = Cardinality(below[f]) /\ Plan!Ranked[j] \in S
    BY <2>1, <2>3, <1>5, <1>7, <1>9
  <2>6. QED
    BY <2>1, <2>4, <2>5, <1>6
<1>11. S # {} => Cardinality(S) # 0
  BY <1>6, <1>7
<1>12. DOMAIN Plan!Ranked = 1..Cardinality(S)
  BY PlanSets DEF Plan!Ranked
<1>13. QED
  BY <1>7, <1>9, <1>10, <1>11, <1>12

LEMMA FirstOf ==
  ASSUME NEW X, NEW s \in Seq(X), NEW n \in Nat \ {0}
  PROVE  /\ Plan!First(s, n) \in Seq(X)
         /\ Len(Plan!First(s, n)) = IF Len(s) < n THEN Len(s) ELSE n
         /\ \A i \in 1..Len(Plan!First(s, n)) : Plan!First(s, n)[i] = s[i]
<1> DEFINE k == Len(s)
           m == IF k < n THEN k ELSE n
<1>1. k \in Nat /\ \A i \in 1..k : s[i] \in X
  OBVIOUS
<1>2. Plan!First(s, n) = SubSeq(s, 1, m)
  BY DEF Plan!First
<1> HIDE DEF k
<1>3. m \in Nat /\ \A i \in 1..m : s[i] \in X
  BY <1>1
<1>4. SubSeq(s, 1, m) \in Seq(X) /\ Len(SubSeq(s, 1, m)) = m /\ \A i \in 1..m : SubSeq(s, 1, m)[i] = s[i]
  <2> HIDE DEF m
  <2>1. QED
    BY <1>3, SubSeqProperties
<1>5. QED
  BY <1>2, <1>3, <1>4 DEF k

LEMMA RankStep ==
  ASSUME Plan!PlanOK, Plan!Rank
  PROVE  Plan!PlanOK'
<1> DEFINE N == Cardinality(Plan!Eligible)
           R == Plan!Ranked
           M == Plan!MaxTargets
<1>1. /\ v1 \in Selected /\ v2 \in Plan!Kinds /\ v5 = <<>>
      /\ v3' = "vary" /\ v4' = Plan!First(R, M) /\ UNCHANGED <<v1, v2, v5>>
  BY DEF Plan!PlanOK, Plan!Rank
<1>2. Plan!Eligible' = Plan!Eligible /\ \A f : Plan!Ahead(f)' = Plan!Ahead(f)
  BY <1>1 DEF Plan!Eligible, Plan!Ahead, Plan!Before, Plan!Priority
<1>3. /\ N \in Nat /\ DOMAIN R = 1..N /\ (Plan!Eligible # {} => N # 0)
      /\ \A k \in 1..N : R[k] \in Plan!Eligible
      /\ \A k \in 1..N : \A f \in Plan!Ahead(R[k]) : \E j \in 1..(k - 1) : R[j] = f
  BY <1>1, RankedFields
<1>4. Plan!Eligible \subseteq Fields
  BY <1>1, PlanFields
<1>5. R = [k \in 1..N |-> R[k]]
  BY PlanSets DEF Plan!Ranked
<1>6. R \in Seq(Fields) /\ Len(R) = N
  <2> HIDE DEF N, R
  <2>1. R \in [1..N -> Fields]
    BY <1>3, <1>4, <1>5
  <2>2. QED
    BY <1>3, <2>1
<1>7. M \in Nat \ {0}
  BY DEF Plan!MaxTargets
<1>8. /\ v4' \in Seq(Fields) /\ Len(v4') = (IF N < M THEN N ELSE M)
      /\ \A i \in 1..Len(v4') : v4'[i] = R[i]
  <2> HIDE DEF N, R, M
  <2>1. QED
    BY <1>1, <1>6, <1>7, FirstOf
<1>9. Plan!BestFirst'
  <2>1. v4' = <<>> => Plan!Eligible = {}
    <3>1. v4' = <<>> => Len(v4') = 0
      OBVIOUS
    <3> HIDE DEF N, R, M
    <3>2. QED
      BY <3>1, <1>3, <1>7, <1>8
  <2>2. ASSUME NEW i \in DOMAIN v4' PROVE
          /\ v4'[i] \in Plan!Eligible
          /\ \A f \in Plan!Ahead(v4'[i]) : \E j \in 1..(i - 1) : v4'[j] = f
    <3> HIDE DEF N, R, M
    <3>1. i \in 1..Len(v4') /\ Len(v4') \in Nat /\ Len(v4') <= N
      BY <1>3, <1>7, <1>8, <2>2
    <3>2. i \in 1..N /\ v4'[i] = R[i] /\ \A j \in 1..(i - 1) : v4'[j] = R[j]
      BY <3>1, <1>3, <1>8
    <3>3. QED
      BY <3>2, <1>3
  <2>3. QED
    BY <1>2, <2>1, <2>2 DEF Plan!BestFirst
<1>10. Plan!InOrder'
  BY <1>1 DEF Plan!InOrder
<1>11. QED
  BY <1>1, <1>8, <1>9, <1>10 DEF Plan!PlanOK

LEMMA VaryStep ==
  ASSUME Plan!PlanOK, Plan!Vary
  PROVE  Plan!PlanOK'
<1>1. PICK i \in DOMAIN v4 : Len(v5) = 3 * (i - 1) /\ v5' = v5 \o Plan!RecipesOf(v4[i])
  BY DEF Plan!Vary, Plan!Operations
<1>2. /\ v1 \in Selected /\ v2 \in Plan!Kinds /\ v3 = "vary" /\ v4 \in Seq(Fields)
      /\ Plan!BestFirst /\ UNCHANGED <<v1, v2, v3, v4>>
  BY DEF Plan!PlanOK, Plan!Vary
<1> DEFINE f == v4[i]
           r == Plan!RecipesOf(f)
           R == [surface : Plan!Surfaces \cup {"body"}, place : Nat, op : {"remove", "empty", "tamper"}]
           n == Len(v5)
<1>3. i \in Nat \ {0} /\ f \in Plan!Eligible /\ v4 # <<>>
  BY <1>2 DEF Plan!BestFirst
<1>4. f.surface \in Plan!Surfaces /\ f.place \in Nat
  BY <1>2, <1>3, PlanFields
<1>5. r = <<Plan!Recipe(f, "remove"), Plan!Recipe(f, "empty"), Plan!Recipe(f, "tamper")>>
  BY DEF Plan!RecipesOf, Plan!Operations
<1>6. \A op \in {"remove", "empty", "tamper"} : Plan!Recipe(f, op) \in R
  BY <1>4 DEF Plan!Recipe
<1>7. v5 \in Seq(R) /\ n \in Nat
  BY DEF Plan!PlanOK
<1>8. r \in Seq(R) /\ Len(r) = 3 /\ \A k \in 1..3 : r[k] = Plan!Recipe(f, Plan!Operations[k])
  BY <1>5, <1>6 DEF Plan!Operations
<1>9. v5' \in Seq(R) /\ Len(v5') = n + 3 /\ \A m \in 1..(n + 3) : v5'[m] = IF m <= n THEN v5[m] ELSE r[m - n]
  <2> HIDE DEF r, R
  <2>1. v5' = v5 \o r
    BY <1>1 DEF r
  <2>2. /\ v5 \o r \in Seq(R) /\ Len(v5 \o r) = Len(v5) + Len(r)
        /\ \A m \in 1..(Len(v5) + Len(r)) : (v5 \o r)[m] = IF m <= Len(v5) THEN v5[m] ELSE r[m - Len(v5)]
    BY <1>7, <1>8, ConcatProperties
  <2>3. Len(r) = 3
    BY <1>8
  <2>4. QED
    BY <2>1, <2>2, <2>3
<1> HIDE DEF f, r, n, R
<1>10. v5 = <<>> \/ n # 0
  BY <1>7 DEF n
<1>11. Plan!InOrder
  BY <1>3 DEF Plan!PlanOK
<1>12. Plan!InOrder'
  <2> SUFFICES ASSUME NEW m \in 1..(n + 3)
               PROVE  \E j \in DOMAIN v4, k \in 1..3 : m = 3 * (j - 1) + k /\ v5'[m] = Plan!Recipe(v4[j], Plan!Operations[k])
    BY <1>2, <1>9 DEF Plan!InOrder, Plan!Operations
  <2>1. CASE m <= n
    <3>1. m \in DOMAIN v5 /\ v5'[m] = v5[m]
      BY <2>1, <1>7, <1>9 DEF n
    <3>2. QED
      BY <3>1, <1>11 DEF Plan!InOrder, Plan!Operations
  <2>2. CASE m > n
    <3>1. m - n \in 1..3 /\ v5'[m] = r[m - n]
      BY <2>2, <1>7, <1>9
    <3>2. v5'[m] = Plan!Recipe(v4[i], Plan!Operations[m - n]) /\ m = 3 * (i - 1) + (m - n)
      BY <3>1, <1>1, <1>3, <1>7, <1>8 DEF f, n
    <3>3. QED
      BY <3>1, <3>2
  <2>3. QED
    BY <2>1, <2>2, <1>7
<1>13. Plan!BestFirst'
  BY <1>2 DEF Plan!BestFirst, Plan!Eligible, Plan!Ahead, Plan!Before, Plan!Priority
<1>14. QED
  BY <1>2, <1>9, <1>12, <1>13 DEF Plan!PlanOK, R

LEMMA FinishStep ==
  ASSUME Plan!PlanOK, Plan!Finish
  PROVE  Plan!PlanOK'
<1> DEFINE R == [surface : Plan!Surfaces \cup {"body"}, place : Nat, op : {"remove", "empty", "tamper"}]
<1>1. Plan!Opaque \in R
  BY DEF Plan!Opaque, Plan!Surfaces
<1>2. <<Plan!Opaque>> \in Seq(R)
  BY <1>1
<1> HIDE DEF R
<1>3. v5' \in Seq(R)
  BY <1>2 DEF Plan!Finish, Plan!PlanOK, R
<1>4. Plan!BestFirst'
  BY DEF Plan!PlanOK, Plan!Finish, Plan!BestFirst, Plan!Eligible, Plan!Ahead, Plan!Before, Plan!Priority
<1>5. Plan!InOrder' \/ (v4' = <<>> /\ v5' = <<Plan!Opaque>>)
  BY DEF Plan!PlanOK, Plan!Finish, Plan!InOrder
<1>6. QED
  BY <1>3, <1>4, <1>5 DEF Plan!PlanOK, Plan!Finish, R

LEMMA CutStep ==
  ASSUME Plan!PlanOK, Plan!Plan
  PROVE  Plan!PlanOK'
<1> DEFINE R == [surface : Plan!Surfaces \cup {"body"}, place : Nat, op : {"remove", "empty", "tamper"}]
           M == Plan!MaxVariants
<1> HIDE DEF R, M
<1>1. M \in Nat \ {0}
  BY DEF Plan!MaxVariants, M
<1>2. v5 \in Seq(R) /\ v5' = Plan!First(v5, M)
  BY DEF Plan!PlanOK, Plan!Plan, Plan!Cut, R, M
<1>3. /\ v5' \in Seq(R) /\ Len(v5') = (IF Len(v5) < M THEN Len(v5) ELSE M)
      /\ \A m \in 1..Len(v5') : v5'[m] = v5[m]
  BY <1>1, <1>2, FirstOf
<1>4. \A m \in DOMAIN v5' : m \in DOMAIN v5 /\ v5'[m] = v5[m]
  <2>1. Len(v5) \in Nat /\ DOMAIN v5 = 1..Len(v5) /\ DOMAIN v5' = 1..Len(v5')
    BY <1>2, <1>3
  <2>2. QED
    BY <2>1, <1>1, <1>3
<1>5. Plan!BestFirst'
  BY DEF Plan!PlanOK, Plan!Plan, Plan!BestFirst, Plan!Eligible, Plan!Ahead, Plan!Before, Plan!Priority
<1>6. Plan!InOrder' \/ (v4' = <<>> /\ v5' = <<Plan!Opaque>>)
  <2>1. CASE Plan!InOrder
    BY <2>1, <1>4 DEF Plan!InOrder, Plan!Plan
  <2>2. CASE v4 = <<>> /\ v5 = <<Plan!Opaque>>
    <3>1. Len(v5) = 1
      BY <2>2
    <3>2. Len(v5') = 1 /\ v5'[1] = v5[1]
      BY <3>1, <1>1, <1>3
    <3>3. v5' = <<v5'[1]>>
      BY <3>2, <1>3
    <3>4. v5[1] = Plan!Opaque
      BY <2>2
    <3>5. v4' = <<>>
      BY <2>2 DEF Plan!Plan
    <3>6. QED
      BY <3>2, <3>3, <3>4, <3>5
  <2>3. QED
    BY <2>1, <2>2 DEF Plan!PlanOK
<1>7. QED
  BY <1>3, <1>5, <1>6 DEF Plan!PlanOK, Plan!Plan, R

LEMMA Planning == Spec => [](tool = "plan mutations" => Plan!PlanOK)
<1>1. Plan!Init => Plan!PlanOK
  BY DEF Plan!Init, Plan!PlanOK, Plan!InOrder
<1>2. ASSUME Plan!PlanOK, [Plan!Next]_(Plan!vars) PROVE Plan!PlanOK'
  <2>1. CASE UNCHANGED Plan!vars
    BY <1>2, <2>1 DEF Plan!vars, Plan!PlanOK, Plan!BestFirst, Plan!InOrder, Plan!Eligible, Plan!Ahead, Plan!Before,
                      Plan!Priority
  <2>2. QED
    BY <1>2, <2>1, RankStep, VaryStep, FinishStep, CutStep DEF Plan!Next
<1>3. Init => (tool = "plan mutations" => Plan!PlanOK)
  BY <1>1 DEF Init
<1>4. (tool = "plan mutations" => Plan!PlanOK) /\ [Next]_vars => (tool = "plan mutations" => Plan!PlanOK)'
  BY <1>2, StepOfTool
<1>5. QED
  BY <1>3, <1>4, PTL DEF Spec

(* The recipes before one of a target: of the same target, and of those    *)
(* before it.                                                              *)
LEMMA RecipesBefore ==
  ASSUME Plan!PlanOK, Plan!InOrder, NEW m \in DOMAIN v5,
         NEW i \in DOMAIN v4, NEW k \in 1..3, m = 3 * (i - 1) + k
  PROVE  /\ v5[m] = Plan!Recipe(v4[i], Plan!Operations[k])
         /\ 3 * (i - 1) + 1 \in 1..m /\ v5[3 * (i - 1) + 1] = Plan!Recipe(v4[i], "remove")
         /\ \A j \in 1..(i - 1), n \in 1..3 :
              3 * (j - 1) + n \in DOMAIN v5 /\ v5[3 * (j - 1) + n] = Plan!Recipe(v4[j], Plan!Operations[n])
<1>1. \A p \in DOMAIN v5 : \E j \in DOMAIN v4, n \in 1..3 :
         p = 3 * (j - 1) + n /\ v5[p] = Plan!Recipe(v4[j], Plan!Operations[n])
  BY DEF Plan!InOrder, Plan!Operations
<1>2. /\ DOMAIN v5 = 1..Len(v5) /\ Len(v5) \in Nat /\ DOMAIN v4 = 1..Len(v4) /\ Len(v4) \in Nat
  BY DEF Plan!PlanOK
<1> DEFINE a == Len(v5)
           b == Len(v4)
<1>3. \A j \in 1..b, n \in 1..3 : 3 * (j - 1) + n \in 1..a => v5[3 * (j - 1) + n] = Plan!Recipe(v4[j], Plan!Operations[n])
  <2> SUFFICES ASSUME NEW j \in 1..b, NEW n \in 1..3, 3 * (j - 1) + n \in 1..a
               PROVE  v5[3 * (j - 1) + n] = Plan!Recipe(v4[j], Plan!Operations[n])
    OBVIOUS
  <2> DEFINE p == 3 * (j - 1) + n
  <2>1. p \in DOMAIN v5
    BY <1>2
  <2> HIDE DEF p
  <2>2. PICK j2 \in DOMAIN v4, n2 \in 1..3 : p = 3 * (j2 - 1) + n2 /\ v5[p] = Plan!Recipe(v4[j2], Plan!Operations[n2])
    BY <1>1, <2>1
  <2>3. j = j2 /\ n = n2
    <3> HIDE DEF a, b
    <3>1. j \in Int /\ j2 \in Int
      BY <1>2 DEF b
    <3>2. QED
      BY <2>2, <3>1 DEF p
  <2>4. QED
    BY <2>2, <2>3 DEF p
<1>4. i \in 1..b /\ m \in 1..a /\ a \in Nat /\ b \in Nat
  BY <1>2
<1> HIDE DEF a, b
<1>5. 3 * (i - 1) + 1 \in 1..m /\ 3 * (i - 1) + 1 \in 1..a
  BY <1>4
<1>6. \A j \in 1..(i - 1), n \in 1..3 : j \in 1..b /\ 3 * (j - 1) + n \in 1..a
  BY <1>4
<1>7. Plan!Operations[1] = "remove"
  BY DEF Plan!Operations
<1>8. QED
  BY <1>2, <1>3, <1>4, <1>5, <1>6, <1>7 DEF a, b

(* A field that keeps a recipe is removed before it is varied otherwise    *)
(* (workflow.go:173-215).                                                  *)
THEOREM TargetsAreRemovedFirst == Spec => []EveryTargetIsRemoved
<1>1. Plan!PlanOK => Plan!EveryTargetIsRemoved
  <2> SUFFICES ASSUME Plan!PlanOK, NEW m \in DOMAIN v5, v5[m].surface \in Plan!Surfaces
               PROVE  \E p \in 1..m : v5[p].place = v5[m].place /\ v5[p].op = "remove"
    BY DEF Plan!EveryTargetIsRemoved
  <2>1. Plan!InOrder
    <3>1. CASE v5 = <<Plan!Opaque>>
      BY <3>1 DEF Plan!Opaque, Plan!Surfaces
    <3>2. QED
      BY <3>1 DEF Plan!PlanOK
  <2>2. PICK i \in DOMAIN v4, k \in 1..3 : m = 3 * (i - 1) + k
    BY <2>1 DEF Plan!InOrder, Plan!Operations
  <2>3. /\ v5[m] = Plan!Recipe(v4[i], Plan!Operations[k])
        /\ 3 * (i - 1) + 1 \in 1..m /\ v5[3 * (i - 1) + 1] = Plan!Recipe(v4[i], "remove")
    BY <2>1, <2>2, RecipesBefore
  <2>4. QED
    BY <2>3 DEF Plan!Recipe
<1>2. (tool = "plan mutations" => Plan!PlanOK) => EveryTargetIsRemoved
  BY <1>1 DEF EveryTargetIsRemoved
<1>3. QED
  BY <1>2, Planning, PTL

(* The cut to the maximum costs no favoured field a recipe while a field   *)
(* that is not favoured keeps one (workflow.go:139-217).                   *)
THEOREM FavouredFieldsComeFirst == Spec => []FavouredFieldsFirst
<1>1. Plan!PlanOK => Plan!FavouredFieldsFirst
  <2> SUFFICES ASSUME Plan!PlanOK, v3 = "planned", NEW f \in Plan!Eligible, NEW g \in Plan!Eligible,
                      Plan!Favoured(f), ~ Plan!Favoured(g), NEW v \in Plan!ToSet(v5), v.place = g.place
               PROVE  \A n \in 1..3 : \E w \in Plan!ToSet(v5) : w.place = f.place /\ w.op = Plan!Operations[n]
    BY DEF Plan!FavouredFieldsFirst, Plan!Operations
  <2>1. v1 \in Selected /\ v2 \in Plan!Kinds /\ Plan!BestFirst /\ v4 # <<>>
    BY DEF Plan!PlanOK, Plan!BestFirst
  <2>2. Plan!InOrder
    BY <2>1 DEF Plan!PlanOK
  <2>3. PICK m \in DOMAIN v5 : v = v5[m]
    BY DEF Plan!ToSet
  <2>4. PICK i \in DOMAIN v4, k \in 1..3 : m = 3 * (i - 1) + k
    BY <2>2 DEF Plan!InOrder, Plan!Operations
  <2>5. /\ v5[m] = Plan!Recipe(v4[i], Plan!Operations[k])
        /\ \A j \in 1..(i - 1), n \in 1..3 :
             3 * (j - 1) + n \in DOMAIN v5 /\ v5[3 * (j - 1) + n] = Plan!Recipe(v4[j], Plan!Operations[n])
    BY <2>2, <2>4, RecipesBefore
  <2>6. v4[i] = g
    <3>1. v4[i].place = g.place
      BY <2>3, <2>5 DEF Plan!Recipe
    <3>2. QED
      BY <3>1, <2>1, PlanFields DEF Plan!BestFirst
  <2>7. f \in Plan!Ahead(g)
    BY DEF Plan!Favoured, Plan!Ahead, Plan!Before, Plan!Priority
  <2>8. PICK j \in 1..(i - 1) : v4[j] = f
    BY <2>1, <2>6, <2>7 DEF Plan!BestFirst
  <2>9. \A n \in 1..3 : 3 * (j - 1) + n \in DOMAIN v5 /\ v5[3 * (j - 1) + n] = Plan!Recipe(f, Plan!Operations[n])
    BY <2>5, <2>8
  <2>10. QED
    BY <2>9 DEF Plan!ToSet, Plan!Recipe
<1>2. (tool = "plan mutations" => Plan!PlanOK) => FavouredFieldsFirst
  BY <1>1 DEF FavouredFieldsFirst
<1>3. QED
  BY <1>2, Planning, PTL

----------------------------------------------------------------------------
(* Pages.  v1 are the rows, v2 the clock, v3 the query, v4 the pages read, *)
(* v5 the offset, v6 the places known, v7 whether one was dropped and v8   *)
(* the statistics.                                                         *)

LEMMA PagesSets ==
  ASSUME NEW S
  PROVE  Pages!Cardinality(S) = Cardinality(S)
BY DEF Pages!Cardinality, Cardinality

(* The places of a finite set in their order.                              *)
LEMMA SortedPlaces ==
  ASSUME NEW S \in SUBSET Nat, IsFiniteSet(S)
  PROVE  /\ Cardinality(S) \in Nat
         /\ Pages!Sorted(S) \in Seq(Nat) /\ Len(Pages!Sorted(S)) = Cardinality(S)
         /\ \A k \in 1..Cardinality(S) : /\ Pages!Sorted(S)[k] \in S
                                         /\ Cardinality({m \in S : m < Pages!Sorted(S)[k]}) = k - 1
         /\ \A x, y \in S : Cardinality({m \in S : m < x}) = Cardinality({m \in S : m < y}) => x = y
<1> DEFINE before(n) == {i \in S : i < n}
           below == [n \in S |-> before(n)]
           N == Cardinality(S)
<1>1. below \in [S -> SUBSET S]
  OBVIOUS
<1>2. \A n \in S : n \notin below[n]
  OBVIOUS
<1>3. \A m, n \in S : m # n => \/ m \in below[n] /\ below[m] \subseteq below[n]
                               \/ n \in below[m] /\ below[n] \subseteq below[m]
  <2> SUFFICES ASSUME NEW m \in S, NEW n \in S, m # n
               PROVE  \/ m \in before(n) /\ before(m) \subseteq before(n)
                      \/ n \in before(m) /\ before(n) \subseteq before(m)
    OBVIOUS
  <2>1. \A i \in S : i \in Nat
    OBVIOUS
  <2>2. CASE m < n
    <3>1. \A i \in S : i < m => i < n
      BY <2>1, <2>2
    <3>2. QED
      BY <2>2, <3>1
  <2>3. CASE n < m
    <3>1. \A i \in S : i < n => i < m
      BY <2>1, <2>3
    <3>2. QED
      BY <2>3, <3>1
  <2>4. QED
    BY <2>1, <2>2, <2>3
<1>4. \A n \in S : below[n] = before(n)
  OBVIOUS
<1> HIDE DEF below
<1>5. /\ \A x, y \in S : Cardinality(below[y]) = Cardinality(below[x]) => x = y
      /\ \A k \in 1..N : \E x \in S : Cardinality(below[x]) = k - 1
  BY <1>1, <1>2, <1>3, Ranks
<1> HIDE DEF before
<1>6. N \in Nat
  BY FS_CardinalityType
<1>7. Pages!Sorted(S) = [k \in 1..N |-> CHOOSE n \in S : Pages!Cardinality(before(n)) = k - 1]
  BY PagesSets DEF Pages!Sorted, before
<1>8. \A k \in 1..N : Pages!Sorted(S)[k] \in S /\ Cardinality(before(Pages!Sorted(S)[k])) = k - 1
  <2> SUFFICES ASSUME NEW k \in 1..N
               PROVE  Pages!Sorted(S)[k] \in S /\ Cardinality(before(Pages!Sorted(S)[k])) = k - 1
    OBVIOUS
  <2>1. \E n \in S : Pages!Cardinality(before(n)) = k - 1
    BY <1>4, <1>5, PagesSets
  <2>2. Pages!Sorted(S)[k] = CHOOSE n \in S : Pages!Cardinality(before(n)) = k - 1
    BY <1>7
  <2>3. Pages!Sorted(S)[k] \in S /\ Pages!Cardinality(before(Pages!Sorted(S)[k])) = k - 1
    BY <2>1, <2>2
  <2>4. QED
    BY <2>3, PagesSets
<1>9. Pages!Sorted(S) \in [1..N -> Nat]
  BY <1>7, <1>8
<1>10. Pages!Sorted(S) \in Seq(Nat) /\ Len(Pages!Sorted(S)) = N
  <2> HIDE DEF N
  <2>1. QED
    BY <1>6, <1>9
<1>11. QED
  BY <1>4, <1>5, <1>6, <1>8, <1>10 DEF before

LEMMA FoundPlaces ==
  ASSUME NEW q, DOMAIN v1 \subseteq 1..MaxRows
  PROVE  Pages!Found(q) \in SUBSET Nat /\ IsFiniteSet(Pages!Found(q))
<1>1. Pages!Found(q) \in SUBSET (1..MaxRows) /\ MaxRows \in Nat
  BY ValuesOK DEF Pages!Found, Pages!ConstantsOK
<1>2. IsFiniteSet(1..MaxRows)
  BY <1>1, FS_Interval
<1>3. IsFiniteSet(Pages!Found(q))
  BY <1>1, <1>2, FS_Subset
<1>4. QED
  BY <1>1, <1>3

LEMMA MatchingPlaces ==
  ASSUME NEW q, DOMAIN v1 \subseteq 1..MaxRows
  PROVE  /\ Cardinality(Pages!Found(q)) \in Nat
         /\ Pages!Matching(q) \in Seq(Nat) /\ Len(Pages!Matching(q)) = Cardinality(Pages!Found(q))
BY FoundPlaces, SortedPlaces DEF Pages!Matching

(* A page shows what comes after its offset, and the next offset is where  *)
(* it ends.                                                                *)
LEMMA PageShows ==
  ASSUME NEW q, NEW limit \in Nat \ {0}, NEW from \in Nat, DOMAIN v1 \subseteq 1..MaxRows
  PROVE  LET found == Pages!Matching(q)
             page == Pages!Page(q, limit, from)
             shown == page.entries IN
         /\ shown \in Seq(Nat)
         /\ page.next = IF from + Len(shown) < Len(found) THEN from + Len(shown) ELSE Pages!Done
         /\ from <= Len(found) =>
              /\ from + Len(shown) = IF from + limit < Len(found) THEN from + limit ELSE Len(found)
              /\ \A i \in 1..Len(shown) : shown[i] = found[from + i]
<1> DEFINE found == Pages!Matching(q)
           page == Pages!Page(q, limit, from)
           N == Len(found)
           to == IF from + limit < N THEN from + limit ELSE N
           shown == SubSeq(found, from + 1, to)
<1>1. page.entries = shown /\ page.next = IF from + Len(shown) < N THEN from + Len(shown) ELSE Pages!Done
  BY DEF Pages!Page
<1>2. found \in Seq(Nat)
  BY MatchingPlaces
<1> HIDE DEF found, page
<1>3. N \in Nat /\ \A i \in 1..N : found[i] \in Nat
  BY <1>2
<1>4. CASE from <= N
  <2>1. from + 1 \in 1..(N + 1) /\ to \in Nat /\ from <= to /\ to <= N
    BY <1>3, <1>4
  <2>2. /\ shown \in Seq(Nat) /\ Len(shown) = to - from
        /\ \A i \in 1..(to - from) : shown[i] = found[from + i]
    <3> HIDE DEF to
    <3>1. from + 1 \in 1..(Len(found) + 1) /\ to \in ((from + 1) - 1)..Len(found)
      BY <2>1, <1>3
    <3>2. /\ SubSeq(found, from + 1, to) \in Seq(Nat)
          /\ Len(SubSeq(found, from + 1, to)) = to - (from + 1) + 1
          /\ \A i \in 1..(to - (from + 1) + 1) : SubSeq(found, from + 1, to)[i] = found[(from + 1) + i - 1]
      BY <1>2, <3>1, SubSeqProperties
    <3>3. to - (from + 1) + 1 = to - from /\ \A i \in 1..(to - from) : (from + 1) + i - 1 = from + i
      BY <2>1
    <3>4. QED
      BY <3>2, <3>3
  <2> HIDE DEF shown
  <2>3. from + Len(shown) = to
    BY <2>1, <2>2
  <2>4. Len(shown) = to - from
    BY <2>2
  <2>5. QED
    BY <1>1, <2>2, <2>3, <2>4 DEF found, page
<1>5. CASE ~ from <= N
  <2>1. to = N /\ from + 1 > N
    BY <1>3, <1>5
  <2>2. shown = <<>>
    <3>1. from + 1 \in Int /\ to \in Int /\ from + 1 > to
      BY <2>1, <1>3
    <3> HIDE DEF to
    <3>2. QED
      BY <3>1, SubSeqEmpty
  <2> HIDE DEF shown
  <2>3. shown \in Seq(Nat)
    BY <2>2
  <2>4. QED
    BY <1>1, <2>3, <1>5 DEF found, page
<1>6. QED
  BY <1>4, <1>5

(* A sequence without repetitions has as many values as places.            *)
LEMMA ValuesOfInjective ==
  ASSUME NEW s \in Seq(Nat), Pages!IsInjective(s)
  PROVE  IsFiniteSet(Pages!Range(s)) /\ Cardinality(Pages!Range(s)) = Len(s)
<1> DEFINE n == Len(s)
           R == Pages!Range(s)
<1>1. n \in Nat /\ DOMAIN s = 1..n
  OBVIOUS
<1>2. s \in Bijection(1..n, R)
  <2>1. s \in [1..n -> R]
    BY <1>1 DEF Pages!Range
  <2>2. \A a, b \in 1..n : s[a] = s[b] => a = b
    BY <1>1 DEF Pages!IsInjective
  <2>3. \A y \in R : \E a \in 1..n : s[a] = y
    BY <1>1 DEF Pages!Range
  <2> HIDE DEF n, R
  <2>4. QED
    BY <2>1, <2>2, <2>3 DEF Bijection, Injection, Surjection, IsInjective
<1>3. IsFiniteSet(1..n) /\ Cardinality(1..n) = n
  BY <1>1, FS_Interval
<1> HIDE DEF n, R
<1>4. IsFiniteSet(R) /\ Cardinality(R) = Cardinality(1..n)
  BY <1>2, <1>3, FS_Bijection DEF ExistsBijection
<1>5. QED
  BY <1>3, <1>4 DEF n, R

LEMMA PagesStart ==
  ASSUME Pages!Init
  PROVE  Pages!PagesOK
<1>1. DOMAIN v1 \subseteq 1..MaxRows
  BY DEF Pages!Init
<1>2. v4 = <<>> /\ v5 = 0 /\ v7 = FALSE /\ v3 \in Queries
  BY DEF Pages!Init
<1>3. v4 \in Seq(Nat) /\ Len(v4) = 0
  BY <1>2
<1>4. QED
  BY <1>1, <1>2, <1>3 DEF Pages!PagesOK

(* A place found has a number among them: as many as are in front of it,   *)
(* and one.                                                                *)
LEMMA PlaceOfMatch ==
  ASSUME DOMAIN v1 \subseteq 1..MaxRows, NEW n \in Pages!Found(v3)
  PROVE  /\ Pages!InFront(n) \in Nat
         /\ Pages!InFront(n) + 1 \in 1..Len(Pages!Matching(v3))
         /\ Pages!Matching(v3)[Pages!InFront(n) + 1] = n
<1> DEFINE S == Pages!Found(v3)
           before == {m \in S : m < n}
           k == Cardinality(before) + 1
<1>1. Pages!InFront(n) = Cardinality(before)
  BY PagesSets DEF Pages!InFront
<1>2. S \in SUBSET Nat /\ IsFiniteSet(S)
  BY FoundPlaces
<1>3. Pages!Matching(v3) = Pages!Sorted(S)
  BY DEF Pages!Matching
<1> HIDE DEF S
<1>4. /\ Cardinality(S) \in Nat /\ Len(Pages!Sorted(S)) = Cardinality(S)
      /\ \A i \in 1..Cardinality(S) : /\ Pages!Sorted(S)[i] \in S
                                      /\ Cardinality({m \in S : m < Pages!Sorted(S)[i]}) = i - 1
      /\ \A x, y \in S : Cardinality({m \in S : m < x}) = Cardinality({m \in S : m < y}) => x = y
  BY <1>2, SortedPlaces
<1>5. n \in S
  BY DEF S
<1>6. before \subseteq S \ {n}
  BY <1>2, <1>5
<1>7. IsFiniteSet(S \ {n}) /\ Cardinality(S \ {n}) = Cardinality(S) - 1
  BY <1>2, <1>5, FS_RemoveElement
<1>8. IsFiniteSet(before) /\ Cardinality(before) <= Cardinality(S) - 1
  BY <1>6, <1>7, FS_Subset
<1>9. Cardinality(before) \in Nat
  BY <1>8, FS_CardinalityType
<1>10. k \in 1..Cardinality(S) /\ k - 1 = Cardinality(before)
  BY <1>4, <1>8, <1>9
<1>11. Pages!Sorted(S)[k] = n
  <2>1. Pages!Sorted(S)[k] \in S /\ Cardinality({m \in S : m < Pages!Sorted(S)[k]}) = Cardinality(before)
    BY <1>4, <1>10
  <2>2. QED
    BY <1>4, <1>5, <2>1
<1> HIDE DEF before, k
<1>12. QED
  BY <1>1, <1>3, <1>4, <1>9, <1>10, <1>11 DEF k

(* What the caller has seen when a page is shown, as long as no match has  *)
(* ceased to be one.                                                       *)
LEMMA AskStep ==
  ASSUME Pages!PagesOK, NEW limit \in Limits, Pages!Ask(limit)
  PROVE  Pages!PagesOK' /\ Pages!LastPageStep
<1> DEFINE F == Pages!Found(v3)
           found == Pages!Matching(v3)
           page == Pages!Page(v3, limit, v5)
           shown == page.entries
           N == Len(found)
<1>1. /\ DOMAIN v1 \subseteq 1..MaxRows /\ v4 \in Seq(Nat) /\ v5 \in Nat /\ limit \in Nat \ {0}
      /\ v4' = v4 \o shown /\ v5' = page.next /\ UNCHANGED <<v1, v2, v3>>
      /\ v6' = (IF v5 = 0 THEN F ELSE v6) /\ v7' = (v7 /\ v5 # 0)
      /\ v3 \in Queries /\ v7 \in BOOLEAN /\ Len(v4) = v5
  BY ValuesOK DEF Pages!PagesOK, Pages!Ask, Pages!ConstantsOK
<1>2. F' = F
  BY <1>1 DEF Pages!Found
<1>3. found \in Seq(Nat) /\ N \in Nat /\ N = Cardinality(F) /\ F \in SUBSET Nat /\ IsFiniteSet(F)
  BY <1>1, MatchingPlaces, FoundPlaces
<1>4. \A i \in 1..N : found[i] \in F
  BY <1>1, FoundPlaces, SortedPlaces, MatchingPlaces DEF Pages!Matching
<1>5. \A n \in F : /\ Pages!InFront(n) \in Nat /\ Pages!InFront(n) + 1 \in 1..N
                   /\ found[Pages!InFront(n) + 1] = n
  BY <1>1, PlaceOfMatch
<1>6. /\ shown \in Seq(Nat)
      /\ page.next = IF v5 + Len(shown) < N THEN v5 + Len(shown) ELSE Pages!Done
      /\ v5 <= N =>
           /\ v5 + Len(shown) = IF v5 + limit < N THEN v5 + limit ELSE N
           /\ \A i \in 1..Len(shown) : shown[i] = found[v5 + i]
  BY <1>1, PageShows
<1>7. \A n : Pages!InFront(n)' = Pages!InFront(n)
  BY <1>2 DEF Pages!InFront
<1>8. (v7' = FALSE /\ v5 # 0) => /\ v6 \cup Pages!Range(v4) \subseteq F /\ v5 <= N
                                 /\ \A n \in v6 : Pages!InFront(n) < v5 => n \in Pages!Range(v4)
  BY <1>1, <1>3, PagesSets DEF Pages!PagesOK, Pages!Done
<1> HIDE DEF F, found, page, shown
<1>9. Len(shown) \in Nat /\ DOMAIN v4 = 1..v5 /\ DOMAIN shown = 1..Len(shown)
  BY <1>1, <1>6
<1>10. /\ v4' \in Seq(Nat) /\ Len(v4') = v5 + Len(shown)
       /\ \A i \in 1..(v5 + Len(shown)) : v4'[i] = IF i <= v5 THEN v4[i] ELSE shown[i - v5]
  BY <1>1, <1>6, ConcatProperties
<1> HIDE DEF N
<1>11. DOMAIN v4' = 1..(v5 + Len(shown))
  BY <1>9, <1>10
<1>12. v5' = Pages!Done \/ (v5' \in Nat /\ v5' = v5 + Len(shown) /\ v5' < N)
  BY <1>1, <1>6, <1>9
<1>13. \A n \in Pages!Range(v4) : n \in Pages!Range(v4')
  <2> SUFFICES ASSUME NEW n \in Pages!Range(v4) PROVE n \in Pages!Range(v4')
    OBVIOUS
  <2>1. PICK i \in 1..v5 : n = v4[i]
    BY <1>9 DEF Pages!Range
  <2>2. i \in 1..(v5 + Len(shown)) /\ v4'[i] = n
    BY <1>1, <1>9, <1>10, <2>1
  <2>3. QED
    BY <1>11, <2>2 DEF Pages!Range
<1>14. ASSUME ~ v7'
       PROVE  /\ v5 <= N
              /\ v6' \cup Pages!Range(v4') \subseteq F
              /\ \A n \in v6' : v5' = Pages!Done \/ Pages!InFront(n) < v5' => n \in Pages!Range(v4')
  <2>1. v5 <= N
    BY <1>1, <1>3, <1>8, <1>14 DEF N
  <2>2. ASSUME NEW n \in Pages!Range(v4') PROVE n \in F
    <3>1. PICK i \in 1..(v5 + Len(shown)) : n = v4'[i]
      BY <1>11 DEF Pages!Range
    <3>2. CASE i <= v5
      <4>1. n = v4[i] /\ i \in DOMAIN v4 /\ v5 # 0
        BY <1>1, <1>9, <1>10, <3>1, <3>2
      <4>2. QED
        BY <1>8, <1>14, <4>1 DEF Pages!Range
    <3>3. CASE ~ i <= v5
      <4>1. i - v5 \in 1..Len(shown) /\ n = shown[i - v5]
        BY <1>1, <1>9, <1>10, <3>1, <3>3
      <4>2. v5 + (i - v5) = i /\ v5 + Len(shown) <= N
        BY <1>1, <1>3, <1>6, <2>1, <3>1 DEF N
      <4>3. v5 \in Nat /\ Len(shown) \in Nat /\ N \in Nat
        BY <1>1, <1>3, <1>9 DEF N
      <4>4. i \in 1..N
        BY <3>1, <4>2, <4>3
      <4>5. shown[i - v5] = found[v5 + (i - v5)]
        BY <1>6, <2>1, <4>1
      <4>6. n = found[i]
        BY <4>1, <4>2, <4>5
      <4>7. QED
        BY <1>4, <4>4, <4>6
    <3>4. QED
      BY <3>2, <3>3
  <2>3. v6' \subseteq F
    BY <1>1, <1>8, <1>14
  <2>4. ASSUME NEW n \in v6', v5' = Pages!Done \/ Pages!InFront(n) < v5'
        PROVE  n \in Pages!Range(v4')
    <3> DEFINE k == Pages!InFront(n)
    <3>1. n \in F /\ k \in Nat /\ k + 1 \in 1..N /\ found[k + 1] = n
      BY <1>5, <2>3, <2>4
    <3> HIDE DEF k
    <3>2. CASE k < v5
      <4>1. v5 # 0 /\ v6' = v6
        BY <1>1, <3>1, <3>2
      <4>2. QED
        BY <1>8, <1>13, <1>14, <2>4, <3>2, <4>1 DEF k
    <3>3. CASE ~ k < v5
      <4>1. k + 1 <= v5 + Len(shown)
        <5>1. CASE v5' = Pages!Done
          <6>1. ~ v5 + Len(shown) < N
            BY <1>1, <1>6, <1>9, <5>1 DEF Pages!Done
          <6>2. v5 \in Nat /\ Len(shown) \in Nat /\ N \in Nat
            BY <1>1, <1>3, <1>9 DEF N
          <6>3. QED
            BY <3>1, <6>1, <6>2
        <5>2. CASE v5' # Pages!Done
          BY <1>1, <1>9, <1>12, <2>4, <3>1, <5>2 DEF k
        <5>3. QED
          BY <5>1, <5>2
      <4>2. k + 1 \in 1..(v5 + Len(shown)) /\ (k + 1) - v5 \in 1..Len(shown) /\ ~ (k + 1 <= v5)
        BY <1>1, <1>9, <3>1, <3>3, <4>1
      <4>3. v4'[k + 1] = shown[(k + 1) - v5]
        BY <1>10, <4>2
      <4>4. shown[(k + 1) - v5] = found[v5 + ((k + 1) - v5)]
        BY <1>6, <2>1, <4>2
      <4>5. v5 + ((k + 1) - v5) = k + 1
        BY <1>1, <3>1
      <4>6. v4'[k + 1] = n
        BY <3>1, <4>3, <4>4, <4>5
      <4>7. QED
        BY <1>11, <4>2, <4>6 DEF Pages!Range
    <3>4. QED
      BY <3>2, <3>3
  <2>5. QED
    BY <2>1, <2>2, <2>3, <2>4
<1>15. Pages!PagesOK'
  <2>1. v5' # Pages!Done => Len(v4') = v5'
    BY <1>10, <1>12
  <2>2. v5' # Pages!Done => v5' <= Cardinality(F)
    BY <1>3, <1>12 DEF N
  <2>3. Pages!Found(v3)' = F /\ v7' \in BOOLEAN
    BY <1>1, <1>2 DEF F
  <2>4. v5' = Pages!Done \/ v5' \in Nat
    BY <1>12
  <2>5. /\ DOMAIN v1' \subseteq 1..MaxRows /\ v3' \in Queries /\ v4' \in Seq(Nat)
    BY <1>1, <1>10
  <2>6. QED
    BY <1>7, <1>14, <2>1, <2>2, <2>3, <2>4, <2>5, PagesSets DEF Pages!PagesOK
<1>16. ASSUME v5' = Pages!Done, ~ v7', Pages!IsInjective(v4')
       PROVE  Pages!Range(v4') = F
  <2>1. Len(v4') = N
    <3>1. ~ v5 + Len(shown) < N
      BY <1>1, <1>6, <1>9, <1>16 DEF Pages!Done
    <3>2. v5 + Len(shown) <= N
      BY <1>1, <1>3, <1>6, <1>14, <1>16 DEF N
    <3>3. QED
      BY <1>1, <1>3, <1>9, <1>10, <3>1, <3>2 DEF N
  <2>2. Cardinality(Pages!Range(v4')) = Cardinality(F)
    BY <1>3, <1>10, <1>16, <2>1, ValuesOfInjective DEF N
  <2>3. QED
    BY <1>3, <1>14, <1>16, <2>2, FS_Subset
<1>17. Pages!LastPageStep
  BY <1>16 DEF Pages!LastPageStep, F
<1>18. QED
  BY <1>15, <1>17

(* However what is found changes, as long as nothing ceases to be: a place *)
(* has no fewer in front of it than before.                                *)
LEMMA MovesStep ==
  ASSUME Pages!PagesOK, Pages!Moves, DOMAIN v1' \subseteq 1..MaxRows
  PROVE  Pages!PagesOK'
<1> DEFINE F == Pages!Found(v3)
           G == Pages!Found(v3)'
<1>1. /\ UNCHANGED <<v3, v4, v5, v6>> /\ v7' = (v7 \/ ~ F \subseteq G)
  BY DEF Pages!Moves
<1>2. IsFiniteSet(F) /\ F \in SUBSET Nat
  BY FoundPlaces DEF Pages!PagesOK
<1>3. IsFiniteSet(G) /\ G \in SUBSET Nat
  <2>1. G \in SUBSET (1..MaxRows) /\ MaxRows \in Nat
    BY ValuesOK DEF Pages!Found, Pages!ConstantsOK
  <2>2. IsFiniteSet(1..MaxRows)
    BY <2>1, FS_Interval
  <2> HIDE DEF G
  <2>3. IsFiniteSet(G)
    BY <2>1, <2>2, FS_Subset
  <2>4. QED
    BY <2>1, <2>3
<1>4. /\ \A n : Pages!InFront(n) = Cardinality({m \in F : m < n})
      /\ \A n : Pages!InFront(n)' = Cardinality({m \in G : m < n})
  BY <1>1, PagesSets DEF Pages!InFront
<1> HIDE DEF F, G
<1>5. ASSUME F \subseteq G
      PROVE  /\ Cardinality(F) \in Nat /\ Cardinality(G) \in Nat /\ Cardinality(F) <= Cardinality(G)
             /\ \A n : /\ Pages!InFront(n) \in Nat /\ Pages!InFront(n)' \in Nat
                       /\ Pages!InFront(n) <= Pages!InFront(n)'
  <2>1. Cardinality(F) \in Nat /\ Cardinality(G) \in Nat /\ Cardinality(F) <= Cardinality(G)
    BY <1>2, <1>3, <1>5, FS_Subset, FS_CardinalityType
  <2>2. ASSUME NEW n
        PROVE  /\ Pages!InFront(n) \in Nat /\ Pages!InFront(n)' \in Nat
               /\ Pages!InFront(n) <= Pages!InFront(n)'
    <3> DEFINE a == {m \in F : m < n}
               b == {m \in G : m < n}
    <3>1. a \subseteq b /\ b \subseteq G
      BY <1>5
    <3>2. Pages!InFront(n) = Cardinality(a) /\ Pages!InFront(n)' = Cardinality(b)
      BY <1>4
    <3> HIDE DEF a, b
    <3>3. IsFiniteSet(b) /\ IsFiniteSet(a) /\ Cardinality(a) <= Cardinality(b)
      BY <1>3, <3>1, FS_Subset
    <3>4. QED
      BY <3>2, <3>3, FS_CardinalityType
  <2>3. QED
    BY <2>1, <2>2
<1>6. ASSUME v5 # 0, ~ v7'
      PROVE  /\ v6 \cup Pages!Range(v4) \subseteq G
             /\ v5 # Pages!Done => v5 <= Cardinality(G)
             /\ \A n \in v6 : v5 = Pages!Done \/ Pages!InFront(n)' < v5 => n \in Pages!Range(v4)
  <2>1. ~ v7 /\ F \subseteq G
    BY <1>1, <1>6 DEF Pages!PagesOK
  <2>2. /\ v6 \cup Pages!Range(v4) \subseteq F
        /\ v5 # Pages!Done => v5 <= Cardinality(F) /\ v5 \in Nat
        /\ \A n \in v6 : v5 = Pages!Done \/ Pages!InFront(n) < v5 => n \in Pages!Range(v4)
    BY <1>6, <2>1, PagesSets DEF Pages!PagesOK, F
  <2>3. v5 # Pages!Done => v5 <= Cardinality(G)
    BY <1>5, <2>1, <2>2
  <2>4. ASSUME NEW n \in v6, v5 = Pages!Done \/ Pages!InFront(n)' < v5 PROVE n \in Pages!Range(v4)
    <3>1. v5 = Pages!Done \/ Pages!InFront(n) < v5
      <4>1. Pages!InFront(n) \in Nat /\ Pages!InFront(n)' \in Nat /\ Pages!InFront(n) <= Pages!InFront(n)'
        BY <1>5, <2>1
      <4>2. QED
        BY <2>2, <2>4, <4>1
    <3>2. QED
      BY <2>2, <3>1
  <2>5. QED
    BY <2>1, <2>2, <2>3, <2>4
<1>7. v7' \in BOOLEAN
  BY <1>1 DEF Pages!PagesOK
<1>8. Pages!Found(v3)' = G
  BY DEF G
<1>9. /\ v3 \in Queries /\ v4 \in Seq(Nat) /\ (v5 = Pages!Done \/ v5 \in Nat)
      /\ v5 # Pages!Done => Len(v4) = v5
  BY DEF Pages!PagesOK
<1>10. QED
  BY <1>1, <1>6, <1>7, <1>8, <1>9, PagesSets DEF Pages!PagesOK

LEMMA PagesStep ==
  ASSUME Pages!PagesOK, [Pages!Next]_(Pages!vars)
  PROVE  Pages!PagesOK' /\ Pages!LastPageStep
<1>1. CASE \E limit \in Limits : Pages!Ask(limit)
  BY <1>1, AskStep
<1>2. CASE Pages!Grow \/ Pages!Update \/ Pages!Tick
  <2>1. DOMAIN v1' \subseteq 1..MaxRows /\ Pages!Moves
    BY <1>2 DEF Pages!Grow, Pages!Update, Pages!Tick, Pages!PagesOK
  <2>2. v5' = v5
    BY <2>1 DEF Pages!Moves
  <2>3. QED
    BY <2>1, <2>2, MovesStep DEF Pages!LastPageStep
<1>3. CASE (\E g \in {"status", "class"} : Pages!Analyze(g)) \/ UNCHANGED Pages!vars
  <2>1. UNCHANGED <<v1, v2, v3, v4, v5, v6, v7>>
    BY <1>3 DEF Pages!Analyze, Pages!vars
  <2>2. Pages!Found(v3)' = Pages!Found(v3) /\ \A n : Pages!InFront(n)' = Pages!InFront(n)
    BY <2>1 DEF Pages!InFront, Pages!Found
  <2>3. QED
    BY <2>1, <2>2 DEF Pages!PagesOK, Pages!LastPageStep
<1>4. QED
  BY <1>1, <1>2, <1>3 DEF Pages!Next

LEMMA Paging == Spec => [](tool = "read pages" => Pages!PagesOK)
<1>1. Init => (tool = "read pages" => Pages!PagesOK)
  BY PagesStart DEF Init
<1>2. (tool = "read pages" => Pages!PagesOK) /\ [Next]_vars => (tool = "read pages" => Pages!PagesOK)'
  BY StepOfTool, PagesStep
<1>3. QED
  BY <1>1, <1>2, PTL DEF Spec

(* Whoever reads to the last page has seen every entry that matched at the *)
(* first, wherever the capture grows, unless one has ceased to match       *)
(* (query.go:193-206).                                                     *)
THEOREM PagesShowEveryMatch == Spec => []PagesAreWhole
<1>1. Pages!PagesOK => Pages!PagesAreWhole
  <2> SUFFICES ASSUME Pages!PagesOK, v5 = Pages!Done, ~ v7 PROVE v6 \subseteq Pages!Range(v4)
    BY DEF Pages!PagesAreWhole
  <2>1. v5 # 0
    BY DEF Pages!Done
  <2>2. \A n \in v6 : n \in Pages!Range(v4)
    BY <2>1 DEF Pages!PagesOK
  <2>3. QED
    BY <2>2
<1>2. (tool = "read pages" => Pages!PagesOK) => PagesAreWhole
  BY <1>1 DEF PagesAreWhole
<1>3. QED
  BY <1>2, Paging, PTL

(* Whoever saw no entry twice has seen all that match by the last page     *)
(* (query.go:193-206).                                                     *)
THEOREM LastPagesEndWithTheLast == Spec => LastPageIsLast
<1>1. (tool = "read pages" => Pages!PagesOK) /\ [Next]_vars => [tool = "read pages" => Pages!LastPageStep]_vars
  BY StepOfTool, PagesStep
<1>2. QED
  BY <1>1, Paging, PTL DEF Spec, LastPageIsLast

(* The values of a function added up, one element of S after another. *)
AddUp(f, S) ==
  LET iter[s \in SUBSET S] ==
        IF s = {} THEN 0 ELSE f[CHOOSE y \in s : TRUE] + iter[s \ {CHOOSE y \in s : TRUE}]
  IN  iter[S]

(* The sizes of groups that share out a finite set F add up to its size.   *)
(* h gives the group of a member, c the size of a group.  The sizes of     *)
(* some of the groups add up to the members in them: this solves the       *)
(* equation AddUp is chosen by, and a smallest set of groups on which the  *)
(* two differed could be made smaller.                                     *)
LEMMA SumsOfGroups ==
  ASSUME NEW F, IsFiniteSet(F), NEW h,
         NEW c, c = [k \in {h[n] : n \in F} |-> Cardinality({n \in F : h[n] = k})]
  PROVE  AddUp(c, DOMAIN c) = Cardinality(F)
<1> DEFINE D == {h[n] : n \in F}
           of(s) == {n \in F : h[n] \in s}
           Any(s) == CHOOSE y \in s : TRUE
           Body(i) == [s \in SUBSET D |-> IF s = {} THEN 0 ELSE c[Any(s)] + i[s \ {Any(s)}]]
           g == [s \in SUBSET D |-> Cardinality(of(s))]
           iter == CHOOSE i : i = Body(i)
<1>1. \A s : IsFiniteSet(of(s)) /\ Cardinality(of(s)) \in Nat
  BY FS_Subset, FS_CardinalityType
<1>2. ASSUME NEW s \in SUBSET D, s # {}
      PROVE  /\ Any(s) \in s /\ s \ {Any(s)} \in SUBSET D
             /\ Cardinality(of(s)) = c[Any(s)] + Cardinality(of(s \ {Any(s)}))
  <2> DEFINE x == Any(s)
  <2>1. x \in s /\ x \in D
    BY <1>2
  <2> HIDE DEF x
  <2>2. of(s) = of({x}) \cup of(s \ {x}) /\ of({x}) \cap of(s \ {x}) = {}
    BY <2>1
  <2>3. c[x] = Cardinality(of({x}))
    <3>1. {n \in F : h[n] = x} = of({x})
      OBVIOUS
    <3>2. c[x] = Cardinality({n \in F : h[n] = x})
      BY <2>1
    <3>3. QED
      BY <3>1, <3>2
  <2> HIDE DEF of, D
  <2>4. Cardinality(of(s)) = Cardinality(of({x})) + Cardinality(of(s \ {x})) - Cardinality(of({x}) \cap of(s \ {x}))
    BY <1>1, <2>2, FS_Union
  <2>5. Cardinality(of({x}) \cap of(s \ {x})) = 0
    BY <2>2, FS_EmptySet
  <2>6. Cardinality(of(s)) = c[x] + Cardinality(of(s \ {x}))
    BY <1>1, <2>3, <2>4, <2>5
  <2>7. QED
    BY <1>2, <2>1, <2>6 DEF x
<1>3. Cardinality(of({})) = 0
  <2>1. of({}) = {}
    OBVIOUS
  <2>2. QED
    BY <2>1, FS_EmptySet
<1> HIDE DEF of, Any, D
<1>4. g = Body(g)
  BY <1>2, <1>3
<1>5. iter = Body(iter)
  <2> HIDE DEF Body, g
  <2>1. \E i : i = Body(i)
    BY <1>4
  <2>2. QED
    BY <2>1
<1> HIDE DEF iter
<1>6. ASSUME NEW s \in SUBSET D PROVE iter[s] = IF s = {} THEN 0 ELSE c[Any(s)] + iter[s \ {Any(s)}]
  BY <1>5
<1> HIDE DEF Body
<1>7. \A s \in SUBSET D : iter[s] = g[s]
  <2> SUFFICES ASSUME NEW bad \in SUBSET D, iter[bad] # g[bad] PROVE FALSE
    OBVIOUS
  <2> DEFINE U == {s \in SUBSET D : iter[s] # g[s]}
             T == {Cardinality(s) : s \in U}
  <2>1. \A s \in SUBSET D : IsFiniteSet(s) /\ Cardinality(s) \in Nat
    <3>1. IsFiniteSet(D)
      <4> DEFINE f == [n \in F |-> h[n]]
      <4>1. f \in Surjection(F, D)
        BY DEF Surjection, D
      <4> HIDE DEF f
      <4>2. QED
        BY <4>1, FS_Surjection
    <3>2. QED
      BY <3>1, FS_Subset, FS_CardinalityType
  <2>2. T \in SUBSET Nat /\ T # {}
    BY <2>1
  <2>3. PICK m \in T : \A k \in T : m <= k
    <3> HIDE DEF T
    <3> QED BY <2>2, Least
  <2>4. PICK s \in U : m = Cardinality(s)
    OBVIOUS
  <2>5. s \in SUBSET D /\ s # {}
    BY <1>3, <1>6, <2>4
  <2> DEFINE r == s \ {Any(s)}
  <2>6. r \in SUBSET D /\ Cardinality(r) = Cardinality(s) - 1
    BY <1>2, <2>1, <2>5, FS_RemoveElement
  <2>7. ~ (m <= Cardinality(r))
    BY <2>1, <2>4, <2>5, <2>6
  <2>8. r \notin U
    BY <2>3, <2>7
  <2>9. iter[r] = g[r]
    BY <2>6, <2>8
  <2>10. iter[s] = g[s]
    BY <1>2, <1>6, <2>5, <2>6, <2>9
  <2>11. QED
    BY <2>4, <2>10
<1>8. of(D) = F
  BY DEF of, D
<1>9. AddUp(c, DOMAIN c) = iter[D]
  <2>1. DOMAIN c = D
    BY DEF D
  <2>2. QED
    BY <2>1 DEF AddUp, iter, Body, Any
<1>10. QED
  BY <1>7, <1>8, <1>9

(* What StatsAgree asks of statistics r.                                   *)
Agrees(r) ==
  LET errors == [v3 EXCEPT !.hasError = "yes"] IN
  /\ r.matched = Len(Pages!Matching(v3))
  /\ v3.hasError = "any" => r.errors = Len(Pages!Matching(errors))
  /\ AddUp(r.groups, DOMAIN r.groups) = r.matched

LEMMA AgreesIsStatsAgree == Pages!StatsAgree <=> (v8 # Pages!Nothing => Agrees(v8))
<1>1. \A q : Pages!Page(q, 1, 0).matched = Len(Pages!Matching(q))
  BY DEF Pages!Page
<1>2. QED
  BY <1>1 DEF Agrees, AddUp, Pages!StatsAgree, Pages!MapThenSumSet, Pages!MapThenFoldSet

(* A query for errors finds the errors that the query for any finds.       *)
LEMMA ErrorsFound ==
  ASSUME v3 \in Queries, v3.hasError = "any"
  PROVE  Pages!Found([v3 EXCEPT !.hasError = "yes"]) = {n \in Pages!Found(v3) : Pages!HasError(v1[n])}
<1> DEFINE errors == [v3 EXCEPT !.hasError = "yes"]
<1>1. DOMAIN v3 = Pages!QueryFields
  BY ValuesOK DEF Pages!ConstantsOK
<1>2. /\ errors.hasError = "yes" /\ errors.texts = v3.texts /\ errors.statuses = v3.statuses
      /\ errors.classes = v3.classes /\ errors.minPriority = v3.minPriority /\ errors.preset = v3.preset
      /\ errors.since = v3.since /\ errors.minSize = v3.minSize /\ errors.maxSize = v3.maxSize
      /\ errors.body = v3.body
  BY <1>1 DEF Pages!QueryFields
<1> HIDE DEF errors
<1>3. \A e : Pages!Match(e, errors, v2) <=> Pages!Match(e, v3, v2) /\ Pages!HasError(e)
  BY <1>2 DEF Pages!Match
<1>4. QED
  BY <1>3 DEF Pages!Found, errors

LEMMA AnalysisAgrees ==
  ASSUME DOMAIN v1 \subseteq 1..MaxRows, v3 \in Queries, NEW groupBy
  PROVE  Agrees(Pages!Analysis(v3, groupBy))
<1> DEFINE r == Pages!Analysis(v3, groupBy)
           F == Pages!Found(v3)
           h == [n \in F |-> Pages!Key(v1[n], groupBy)]
           errors == [v3 EXCEPT !.hasError = "yes"]
<1>1. /\ r.matched = Cardinality(F)
      /\ r.errors = Cardinality({n \in F : Pages!HasError(v1[n])})
      /\ r.groups = [k \in {h[n] : n \in F} |-> Cardinality({n \in F : h[n] = k})]
  <2>1. {h[n] : n \in F} = {Pages!Key(v1[n], groupBy) : n \in F}
    OBVIOUS
  <2>2. \A k : {n \in F : h[n] = k} = {n \in F : Pages!Key(v1[n], groupBy) = k}
    OBVIOUS
  <2>3. /\ r.matched = Pages!Cardinality(F)
        /\ r.errors = Pages!Cardinality({n \in F : Pages!HasError(v1[n])})
        /\ r.groups = [k \in {Pages!Key(v1[n], groupBy) : n \in F} |->
                         Pages!Cardinality({n \in F : Pages!Key(v1[n], groupBy) = k})]
    BY DEF Pages!Analysis
  <2> HIDE DEF r, F, h
  <2>4. r.groups = [k \in {h[n] : n \in F} |-> Pages!Cardinality({n \in F : h[n] = k})]
    BY <2>1, <2>2, <2>3
  <2>5. \A k : Pages!Cardinality({n \in F : h[n] = k}) = Cardinality({n \in F : h[n] = k})
    BY PagesSets
  <2>6. r.groups = [k \in {h[n] : n \in F} |-> Cardinality({n \in F : h[n] = k})]
    BY <2>4, <2>5
  <2>7. QED
    BY <2>3, <2>6, PagesSets
<1>2. IsFiniteSet(F)
  BY FoundPlaces
<1> HIDE DEF h
<1>3. AddUp(r.groups, DOMAIN r.groups) = r.matched
  <2> HIDE DEF r, F
  <2>1. QED
    BY <1>1, <1>2, SumsOfGroups
<1>4. r.matched = Len(Pages!Matching(v3))
  BY <1>1, MatchingPlaces
<1>5. ASSUME v3.hasError = "any" PROVE r.errors = Len(Pages!Matching(errors))
  BY <1>1, <1>5, ErrorsFound, MatchingPlaces
<1>6. QED
  BY <1>3, <1>4, <1>5 DEF Agrees

(* Statistics are of the rows, the clock and the query of the moment:      *)
(* whatever changes these drops them.                                      *)
LEMMA AgreesStep ==
  ASSUME DOMAIN v1 \subseteq 1..MaxRows, v3 \in Queries, v8 # Pages!Nothing => Agrees(v8), [Pages!Next]_(Pages!vars)
  PROVE  v8' # Pages!Nothing => Agrees(v8)'
<1>1. CASE \E groupBy : Pages!Analyze(groupBy)
  <2>1. PICK groupBy : Pages!Analyze(groupBy)
    BY <1>1
  <2>2. v8' = Pages!Analysis(v3, groupBy) /\ UNCHANGED <<v1, v2, v3>>
    BY <2>1 DEF Pages!Analyze
  <2>3. Agrees(v8')
    BY <2>2, AnalysisAgrees
  <2>4. Agrees(v8)' <=> Agrees(v8')
    BY <2>2 DEF Agrees, Pages!Matching, Pages!Found
  <2>5. QED
    BY <2>3, <2>4
<1>2. CASE UNCHANGED <<v1, v2, v3, v8>>
  BY <1>2 DEF Agrees, Pages!Matching, Pages!Found
<1>3. CASE v8' = Pages!Nothing
  BY <1>3
<1>4. QED
  BY <1>1, <1>2, <1>3 DEF Pages!Next, Pages!Ask, Pages!Grow, Pages!Update, Pages!Tick, Pages!Moves, Pages!vars

(* The statistics of a query count what its pages list, however the rows   *)
(* and the clock change between calls (query.go:105-106, 252-280).         *)
THEOREM StatisticsCountWhatPagesList == Spec => []StatsAgree
<1> DEFINE Stats == tool = "read pages" => (v8 # Pages!Nothing => Agrees(v8))
           Rows == tool = "read pages" => Pages!PagesOK
<1>1. Init => Stats
  BY DEF Init, Pages!Init
<1>2. Rows /\ Stats /\ [Next]_vars => Stats'
  BY StepOfTool, AgreesStep DEF Pages!PagesOK
<1>3. Stats => StatsAgree
  BY AgreesIsStatsAgree DEF StatsAgree
<1> HIDE DEF Stats, Rows
<1>4. Spec => []Rows
  BY Paging DEF Rows
<1>5. QED
  BY <1>1, <1>2, <1>3, <1>4, PTL DEF Spec

----------------------------------------------------------------------------
(* Imports.  v3 are the captures, v4 the rows and v5 the call.             *)

CallIsOK == Import!CallOK /\ Import!SizeOK /\ Import!OversizedIsFinal

LEMMA ImportStarts ==
  ASSUME Import!Init
  PROVE  Import!ImportOK
BY DEF Import!Init, Import!NoCall, Import!ImportOK, Import!CallOK, Import!SizeOK, Import!OversizedIsFinal,
       Import!CapturesAreTheirFiles, Import!ImportIsStored

(* Steps of the call before its end leave the database alone.              *)
LEMMA SameDatabase ==
  ASSUME Import!ImportOK, CallIsOK', v5'.pc # "done", UNCHANGED <<v1, v3, v4>>
  PROVE  Import!ImportOK'
BY DEF Import!ImportOK, CallIsOK, Import!IsRow, Import!CapturesAreTheirFiles, Import!RowsOf, Import!ImportIsStored

LEMMA FailedCall ==
  ASSUME NEW why, Import!Fail(why)
  PROVE  CallIsOK' /\ v5'.pc # "done"
BY DEF Import!Fail, CallIsOK, Import!CallOK, Import!SizeOK, Import!OversizedIsFinal, Import!TooLargeToParse

LEMMA CallBegins ==
  ASSUME Import!ImportOK,
         \/ \E f \in Files, format \in Formats : Import!Import(f, format)
         \/ \E f \in Files : \E c \in Contents[f] : Import!Snapshot(c)
  PROVE  Import!ImportOK'
<1>1. ASSUME NEW f \in Files, NEW format \in Formats, Import!Import(f, format)
      PROVE  Import!ImportOK'
  <2>1. UNCHANGED <<v1, v3, v4>>
    BY <1>1 DEF Import!Import
  <2>2. CASE Import!Fail("size")
    BY <2>1, <2>2, FailedCall, SameDatabase
  <2>3. CASE ~ Import!Fail("size")
    <3> DEFINE content == v1[f]
               effective == Import!Effective(format, f)
    <3>1. /\ v5' = [pc |-> "parse", for |-> "import", file |-> f, content |-> content,
                    format |-> effective, id |-> <<effective, content>>]
          /\ content.kind = "zip" \/ ~ content.over
      BY <1>1, <2>3 DEF Import!Import
    <3>2. content \in Import!AllContents
      BY DEF Import!ImportOK
    <3>3. CallIsOK'
      BY <3>1, <3>2 DEF CallIsOK, Import!CallOK, Import!SizeOK, Import!OversizedIsFinal, Import!TooLargeToParse
    <3>4. QED
      BY <2>1, <3>1, <3>3, SameDatabase
  <2>4. QED
    BY <2>2, <2>3
<1>2. ASSUME NEW content, Import!Snapshot(content)
      PROVE  Import!ImportOK'
  <2>1. UNCHANGED <<v1, v3, v4>>
    BY <1>2 DEF Import!Snapshot
  <2>2. CASE Import!Fail("size")
    BY <2>1, <2>2, FailedCall, SameDatabase
  <2>3. CASE ~ Import!Fail("size")
    <3>1. /\ v5' = [pc |-> "parse", for |-> "snapshot", content |-> content, format |-> "native", id |-> "live"]
          /\ content.kind = "zip" \/ ~ content.over
      BY <1>2, <2>3 DEF Import!Snapshot
    <3>2. CallIsOK'
      BY <3>1 DEF CallIsOK, Import!CallOK, Import!SizeOK, Import!OversizedIsFinal
    <3>3. QED
      BY <2>1, <3>1, <3>2, SameDatabase
  <2>4. QED
    BY <2>2, <2>3
<1>3. QED
  BY <1>1, <1>2

(* Only a content the parser called bad is converted, and an archive above *)
(* the limit is called too large before anything else is looked at.        *)
LEMMA ParseStep ==
  ASSUME Import!ImportOK, Import!ParseContent
  PROVE  Import!ImportOK'
<1> DEFINE parsed == Import!Parse(v5.content, v5.format)
<1>1. v5.pc = "parse" /\ UNCHANGED <<v1, v3, v4>> /\ Import!CallOK
  BY DEF Import!ParseContent, Import!ImportOK
<1>2. CASE parsed.error = ""
  <2>1. v5' = [pc |-> "parsed", for |-> v5.for, id |-> v5.id, txs |-> parsed.txs]
    BY <1>2 DEF Import!ParseContent
  <2>2. v5.for = "import" => v5.id[1] = v5.format /\ v5.id[2] = v5.content /\ v5.content \in Import!AllContents
    BY <1>1 DEF Import!CallOK
  <2>3. CallIsOK'
    BY <2>1, <2>2 DEF CallIsOK, Import!CallOK, Import!SizeOK, Import!OversizedIsFinal, Import!TooLargeToParse
  <2>4. QED
    BY <1>1, <2>1, <2>3, SameDatabase
<1>3. CASE parsed.error # "" /\ v5.format = "native" /\ Import!Converts(parsed.error)
  <2>1. v5' = [v5 EXCEPT !.pc = "convert"]
    BY <1>3 DEF Import!ParseContent
  <2>2. /\ v5'.pc = "convert" /\ v5'.content = v5.content /\ v5'.format = v5.format /\ v5'.for = v5.for /\ v5'.id = v5.id
        /\ DOMAIN v5' = DOMAIN v5 /\ v5' = [field \in DOMAIN v5' |-> v5'[field]]
    BY <1>1, <2>1 DEF Import!CallOK
  <2>3. (Import!CallOK)'
    BY <1>1, <1>3, <2>2 DEF Import!CallOK
  <2>4. (Import!SizeOK)'
    BY <1>1, <2>2 DEF Import!ImportOK, Import!SizeOK
  <2>5. (Import!OversizedIsFinal)'
    <3>1. v5.content.kind = "zip" \/ ~ v5.content.over
      BY <1>1 DEF Import!ImportOK, Import!SizeOK
    <3>2. parsed.error = "bad" /\ parsed = Import!Native(v5.content)
      BY <1>3 DEF Import!Converts, Import!Parse
    <3>3. v5.content.kind = "zip" /\ v5.content.over => v5.content.dup
      BY <3>2 DEF Import!Native, Import!Refused
    <3>4. QED
      BY <2>2, <3>1, <3>3 DEF Import!OversizedIsFinal, Import!TooLargeToParse
  <2>6. QED
    BY <1>1, <2>2, <2>3, <2>4, <2>5, SameDatabase DEF CallIsOK
<1>4. CASE Import!Fail(parsed.error)
  BY <1>1, <1>4, FailedCall, SameDatabase
<1>5. QED
  BY <1>2, <1>3, <1>4 DEF Import!ParseContent

LEMMA ConverterStep ==
  ASSUME Import!ImportOK, Import!RunConverter
  PROVE  Import!ImportOK'
<1> DEFINE output == IF v2 = Import!NoCharles THEN Import!Failed ELSE Convert(Import!Source, v2)
           parsed == Import!Parse(output, "xml")
<1>1. v5.pc = "convert" /\ UNCHANGED <<v1, v3, v4>> /\ Import!CallOK
  BY DEF Import!RunConverter, Import!ImportOK
<1>2. CASE Import!Fail("conversion") \/ Import!Fail("size") \/ Import!Fail(parsed.error)
  BY <1>1, <1>2, FailedCall, SameDatabase
<1>3. CASE v5' = [pc |-> "parsed", for |-> v5.for, id |-> v5.id, txs |-> parsed.txs]
  <2>1. v5.for = "import" => v5.id[2] \in Import!AllContents /\ Import!Parse(v5.id[2], v5.id[1]).error # ""
    <3>1. Import!Parse(v5.content, v5.format).error # ""
      BY <1>1 DEF Import!CallOK
    <3>2. v5.for = "import" => v5.id = <<v5.format, v5.content>> /\ v5.content \in Import!AllContents
      BY <1>1 DEF Import!CallOK
    <3>3. v5.for = "import" => v5.id[1] = v5.format /\ v5.id[2] = v5.content
      BY <3>2
    <3>4. QED
      BY <3>1, <3>2, <3>3
  <2>2. CallIsOK'
    BY <1>3, <2>1 DEF CallIsOK, Import!CallOK, Import!SizeOK, Import!OversizedIsFinal, Import!TooLargeToParse
  <2>3. QED
    BY <1>1, <1>3, <2>2, SameDatabase
<1>4. QED
  BY <1>2, <1>3 DEF Import!RunConverter

(* The rows of an import replace those of the same IDs, which differ from  *)
(* them in nothing but the content.                                        *)
LEMMA SaveStep ==
  ASSUME Import!ImportOK, Import!Save
  PROVE  Import!ImportOK'
<1> DEFINE id == v5.id
           txs == v5.txs
           new == Import!Numbered(id, txs)
           parsed(c) == Import!Parse(c[2], c[1])
           shown(rs) == {[sequence |-> r.sequence, tx |-> r.tx] : r \in rs}
           listed(ts) == {[sequence |-> n, tx |-> ts[n]] : n \in DOMAIN ts}
<1>1. /\ v5.pc = "parsed" /\ v5.for = "import" /\ v3' = v3 \cup {id} /\ v4' = Import!Upsert(v4, new)
      /\ v5' = [pc |-> "done", id |-> id, txs |-> txs]
  BY DEF Import!Save
<1>2. \A o \in v4 : Import!IsRow(o)
  BY DEF Import!ImportOK
<1>3. \A r \in new : \E n \in DOMAIN txs :
        r = [id |-> <<id, n, txs[n].ident>>, capture |-> id, sequence |-> n, tx |-> txs[n]]
  BY DEF Import!Numbered
<1>4. ASSUME NEW o \in v4, NEW r \in new, r.id = o.id
      PROVE  /\ o.capture = id /\ o.sequence = r.sequence /\ [o EXCEPT !.tx = r.tx] = r
             /\ \A s \in new : s.id = o.id => s = r
  <2>1. o = [id |-> <<o.capture, o.sequence, o.tx.ident>>, capture |-> o.capture, sequence |-> o.sequence, tx |-> o.tx]
    BY <1>2 DEF Import!IsRow
  <2>2. PICK n \in DOMAIN txs : r = [id |-> <<id, n, txs[n].ident>>, capture |-> id, sequence |-> n, tx |-> txs[n]]
    BY <1>3
  <2>3. <<id, n, txs[n].ident>> = <<o.capture, o.sequence, o.tx.ident>>
    BY <1>4, <2>1, <2>2
  <2>4. o.capture = id /\ o.sequence = n
    BY <2>3
  <2>5. ASSUME NEW s \in new, s.id = o.id PROVE s = r
    <3>1. PICK m \in DOMAIN txs : s = [id |-> <<id, m, txs[m].ident>>, capture |-> id, sequence |-> m, tx |-> txs[m]]
      BY <1>3
    <3>2. <<id, m, txs[m].ident>> = <<id, n, txs[n].ident>>
      BY <1>4, <2>2, <2>5, <3>1
    <3>3. m = n
      BY <3>2
    <3>4. QED
      BY <2>2, <3>1, <3>3
  <2>6. [o EXCEPT !.tx = r.tx] = [id |-> o.id, capture |-> o.capture, sequence |-> o.sequence, tx |-> r.tx]
    BY <2>1
  <2>7. QED
    BY <1>4, <2>2, <2>4, <2>5, <2>6
<1> HIDE DEF new
<1>5. v4' = {o \in v4 : \A r \in new : o.id # r.id} \cup new
  <2> DEFINE up(o) == IF \E r \in new : r.id = o.id THEN [o EXCEPT !.tx = (CHOOSE r \in new : r.id = o.id).tx] ELSE o
  <2>1. v4' = {up(o) : o \in v4} \cup {r \in new : \A o \in v4 : o.id # r.id}
    BY <1>1 DEF Import!Upsert
  <2>2. ASSUME NEW o \in v4, NEW r \in new, r.id = o.id PROVE up(o) = r
    <3>1. (CHOOSE s \in new : s.id = o.id) = r
      BY <1>4, <2>2
    <3>2. QED
      BY <1>4, <2>2, <3>1
  <2>3. ASSUME NEW o \in v4, ~ \E r \in new : r.id = o.id PROVE up(o) = o
    BY <2>3
  <2> HIDE DEF up
  <2>4. ASSUME NEW x \in v4' PROVE x \in {o \in v4 : \A r \in new : o.id # r.id} \cup new
    <3>1. CASE x \in new
      BY <3>1
    <3>2. ASSUME NEW o \in v4, x = up(o) PROVE x \in {p \in v4 : \A r \in new : p.id # r.id} \cup new
      BY <2>2, <2>3, <3>2
    <3>3. QED
      BY <2>1, <3>1, <3>2
  <2>5. ASSUME NEW x \in new PROVE x \in v4'
    <3>1. CASE \E o \in v4 : x.id = o.id
      BY <2>1, <2>2, <3>1
    <3>2. CASE \A o \in v4 : o.id # x.id
      BY <2>1, <3>2
    <3>3. QED
      BY <3>1, <3>2
  <2>6. ASSUME NEW x \in v4, \A r \in new : x.id # r.id PROVE x \in v4'
    BY <2>1, <2>3, <2>6
  <2>7. QED
    BY <2>4, <2>5, <2>6
<1>6. \A r \in v4' : (Import!IsRow(r))'
  <2>1. ASSUME NEW r \in new PROVE (Import!IsRow(r))'
    <3>1. PICK n \in DOMAIN txs : r = [id |-> <<id, n, txs[n].ident>>, capture |-> id, sequence |-> n, tx |-> txs[n]]
      BY <1>3
    <3>2. QED
      BY <1>1, <3>1 DEF Import!IsRow
  <2>2. ASSUME NEW o \in v4 PROVE (Import!IsRow(o))'
    BY <1>1, <1>2 DEF Import!IsRow
  <2>3. QED
    BY <1>5, <2>1, <2>2
<1>7. ASSUME NEW c \in v3', parsed(c).error = ""
      PROVE  shown({r \in v4' : r.capture = c}) = listed(parsed(c).txs)
  <2>1. CASE c = id
    <3>1. txs = parsed(c).txs
      BY <1>1, <1>7, <2>1 DEF Import!ImportOK, Import!CallOK
    <3>2. ASSUME NEW o \in v4, o.capture = id PROVE \E r \in new : o.id = r.id
      <4>1. c \in v3 /\ o.id = <<id, o.sequence, o.tx.ident>>
        BY <1>2, <2>1, <3>2 DEF Import!IsRow
      <4>2. shown({r \in v4 : r.capture = c}) = listed(txs)
        <5>1. shown(Import!RowsOf(c)) = listed(parsed(c).txs)
          BY <1>7, <4>1 DEF Import!ImportOK, Import!CapturesAreTheirFiles
        <5>2. QED
          BY <3>1, <5>1 DEF Import!RowsOf
      <4>3. [sequence |-> o.sequence, tx |-> o.tx] \in listed(txs)
        BY <2>1, <3>2, <4>2
      <4>4. PICK n \in DOMAIN txs : [sequence |-> o.sequence, tx |-> o.tx] = [sequence |-> n, tx |-> txs[n]]
        BY <4>3
      <4>5. o.sequence = n /\ o.tx = txs[n]
        BY <4>4
      <4>6. [id |-> <<id, n, txs[n].ident>>, capture |-> id, sequence |-> n, tx |-> txs[n]] \in new
        BY DEF new, Import!Numbered
      <4>7. QED
        BY <4>1, <4>5, <4>6
    <3>3. {r \in v4' : r.capture = c} = new
      BY <1>3, <1>5, <2>1, <3>2
    <3>4. shown(new) = listed(txs)
      <4>1. \A r \in new : \E n \in DOMAIN txs : [sequence |-> r.sequence, tx |-> r.tx] = [sequence |-> n, tx |-> txs[n]]
        BY <1>3
      <4>2. \A n \in DOMAIN txs : \E r \in new : [sequence |-> r.sequence, tx |-> r.tx] = [sequence |-> n, tx |-> txs[n]]
        <5> TAKE n \in DOMAIN txs
        <5>1. [id |-> <<id, n, txs[n].ident>>, capture |-> id, sequence |-> n, tx |-> txs[n]] \in new
          BY DEF new, Import!Numbered
        <5>2. QED
          BY <5>1
      <4>3. shown(new) \subseteq listed(txs)
        BY <4>1
      <4>4. listed(txs) \subseteq shown(new)
        BY <4>2
      <4>5. QED
        BY <4>3, <4>4
    <3>5. QED
      BY <3>1, <3>3, <3>4
  <2>2. CASE c # id
    <3>1. c \in v3
      BY <1>1, <1>7, <2>2
    <3>2. {r \in v4' : r.capture = c} = {r \in v4 : r.capture = c}
      BY <1>3, <1>4, <1>5, <2>2
    <3>3. QED
      BY <1>7, <3>1, <3>2 DEF Import!ImportOK, Import!CapturesAreTheirFiles, Import!RowsOf
  <2>3. QED
    BY <2>1, <2>2
<1>8. (Import!CapturesAreTheirFiles)'
  BY <1>7 DEF Import!CapturesAreTheirFiles, Import!RowsOf
<1>9. CallIsOK'
  <2>1. id[2] \in Import!AllContents /\ (parsed(id).error = "" => txs = parsed(id).txs)
    <3>1. Import!CallOK
      BY DEF Import!ImportOK
    <3>2. QED
      BY <1>1, <3>1 DEF Import!CallOK
  <2>2. v5'.pc = "done" /\ v5'.id = id /\ v5'.txs = txs
    BY <1>1
  <2>3. QED
    BY <2>1, <2>2 DEF CallIsOK, Import!CallOK, Import!SizeOK, Import!OversizedIsFinal, Import!TooLargeToParse
<1>10. v1' \in [Files -> Import!AllContents]
  BY DEF Import!ImportOK, Import!Save
<1>11. (Import!ImportIsStored)'
  <2>1. ASSUME NEW n \in DOMAIN txs
        PROVE  \E r \in {o \in v4' : o.capture = id} : r.sequence = n /\ r.tx = txs[n]
    <3>1. [id |-> <<id, n, txs[n].ident>>, capture |-> id, sequence |-> n, tx |-> txs[n]] \in new
      BY DEF new, Import!Numbered
    <3>2. QED
      BY <1>5, <3>1
  <2>2. QED
    BY <1>1, <2>1 DEF Import!ImportIsStored, Import!RowsOf
<1>12. QED
  BY <1>6, <1>8, <1>9, <1>10, <1>11 DEF Import!ImportOK, CallIsOK

LEMMA ImportStep ==
  ASSUME Import!ImportOK, [Import!Next]_(Import!vars)
  PROVE  Import!ImportOK'
<1>1. ASSUME v1' \in [Files -> Import!AllContents], UNCHANGED <<v3, v4, v5>>
      PROVE  Import!ImportOK'
  <2>1. CallIsOK'
    BY <1>1 DEF Import!ImportOK, CallIsOK, Import!CallOK, Import!SizeOK, Import!OversizedIsFinal, Import!TooLargeToParse
  <2>2. (\A r \in v4 : Import!IsRow(r))' /\ (Import!CapturesAreTheirFiles)' /\ (Import!ImportIsStored)'
    BY <1>1 DEF Import!ImportOK, Import!IsRow, Import!CapturesAreTheirFiles, Import!ImportIsStored, Import!RowsOf
  <2>3. QED
    BY <1>1, <2>1, <2>2 DEF Import!ImportOK, CallIsOK
<1>2. CASE Import!HandOver
  BY <1>2, SameDatabase DEF Import!HandOver, Import!NoCall, CallIsOK, Import!CallOK, Import!SizeOK, Import!OversizedIsFinal, Import!TooLargeToParse
<1>3. CASE (\E f \in Files : \E c \in Contents[f] : Import!Rewrite(f, c))
           \/ (\E v \in Versions \cup {Import!NoCharles} : Import!Install(v)) \/ UNCHANGED Import!vars
  <2>1. v1' \in [Files -> Import!AllContents]
    BY <1>3 DEF Import!ImportOK, Import!Rewrite, Import!Install, Import!vars, Import!AllContents
  <2>2. UNCHANGED <<v3, v4, v5>>
    BY <1>3 DEF Import!Rewrite, Import!Install, Import!vars
  <2>3. QED
    BY <1>1, <2>1, <2>2
<1>4. QED
  BY <1>2, <1>3, CallBegins, ParseStep, ConverterStep, SaveStep DEF Import!Next, Import!Calls

LEMMA Importing == Spec => [](tool = "import" => Import!ImportOK)
<1>1. Init => (tool = "import" => Import!ImportOK)
  BY ImportStarts DEF Init
<1>2. (tool = "import" => Import!ImportOK) /\ [Next]_vars => (tool = "import" => Import!ImportOK)'
  BY StepOfTool, ImportStep
<1>3. QED
  BY <1>1, <1>2, PTL DEF Spec

(* A capture whose file parses holds its transactions, once each, whatever *)
(* was imported in between or failed half way (import.go:68,               *)
(* store.go:59-72).                                                        *)
THEOREM CapturesHoldTheirFiles == Spec => []CapturesAreTheirFiles
<1>1. (tool = "import" => Import!ImportOK) => CapturesAreTheirFiles
  BY DEF CapturesAreTheirFiles, Import!ImportOK
<1>2. QED
  BY <1>1, Importing, PTL

(* An import that answered is in the store as it was answered, whatever    *)
(* the rows held before it (store.go:59-72).                               *)
THEOREM ImportsAreStored == Spec => []ImportIsStored
<1>1. (tool = "import" => Import!ImportOK) => ImportIsStored
  BY DEF ImportIsStored, Import!ImportOK
<1>2. QED
  BY <1>1, Importing, PTL

(* A file or a download above the limit, or an archive whose directory     *)
(* passes it before it names a member twice, is never converted            *)
(* (import.go:53, 69-73, 389-395, charles.go:53, 110-114).                 *)
THEOREM OversizedIsNeverConverted == Spec => []OversizedIsFinal
<1>1. (tool = "import" => Import!ImportOK) => OversizedIsFinal
  BY DEF OversizedIsFinal, Import!ImportOK
<1>2. QED
  BY <1>1, Importing, PTL

----------------------------------------------------------------------------
(* Bodies.  v1 is the message, v4 where the call is, v6 the layers left.   *)

(* Codings that are all of them among no labels are none.                  *)
LEMMA AmongNone ==
  ASSUME NEW codings \in Seq(Decode!Labels), NEW labels, Decode!AreAmong(codings, labels, 0)
  PROVE  codings = <<>>
<1>1. PICK at \in [1..Len(codings) -> 1..0] : TRUE
  BY DEF Decode!AreAmong
<1>2. Len(codings) = 0
  <2> SUFFICES ASSUME Len(codings) # 0 PROVE FALSE
    OBVIOUS
  <2>1. 1 \in 1..Len(codings)
    OBVIOUS
  <2>2. at[1] \in 1..0
    BY <1>1, <2>1
  <2>3. QED
    BY <2>2
<1>3. QED
  BY <1>2

LEMMA Shorter ==
  ASSUME NEW codings \in Seq(Decode!Labels), codings # <<>>
  PROVE  LET inner == SubSeq(codings, 1, Len(codings) - 1) IN
         inner \in Seq(Decode!Labels) /\ Len(inner) = Len(codings) - 1 /\ \A i \in 1..Len(inner) : inner[i] = codings[i]
<1> DEFINE k == Len(codings)
<1>1. k \in Nat \ {0} /\ \A i \in 1..k : codings[i] \in Decode!Labels
  OBVIOUS
<1> HIDE DEF k
<1>2. \A i \in 1..(k - 1) : codings[i] \in Decode!Labels
  BY <1>1
<1>3. /\ SubSeq(codings, 1, k - 1) \in Seq(Decode!Labels) /\ Len(SubSeq(codings, 1, k - 1)) = k - 1
      /\ \A i \in 1..(k - 1) : SubSeq(codings, 1, k - 1)[i] = codings[i]
  BY <1>1, <1>2, SubSeqProperties
<1>4. QED
  BY <1>3 DEF k

(* The label of the outermost layer takes that layer with it.              *)
LEMMA OneUnwrapped ==
  ASSUME NEW codings \in Seq(Decode!Labels), NEW labels, NEW n \in Nat \ {0}, codings # <<>>,
         Decode!AreAmong(codings, labels, n)
  PROVE  Decode!AreAmong(SubSeq(codings, 1, Len(codings) - 1), labels, n - 1)
<1> DEFINE inner == SubSeq(codings, 1, Len(codings) - 1)
<1>1. inner \in Seq(Decode!Labels) /\ Len(inner) = Len(codings) - 1 /\ \A i \in 1..Len(inner) : inner[i] = codings[i]
  BY Shorter
<1>2. PICK at \in [1..Len(codings) -> 1..n] :
        /\ \A i \in 1..Len(codings) : labels[at[i]] = codings[i]
        /\ \A i, j \in 1..Len(codings) : i < j => at[i] < at[j]
  BY DEF Decode!AreAmong
<1> DEFINE before == [i \in 1..Len(inner) |-> at[i]]
<1>3. before \in [1..Len(inner) -> 1..(n - 1)]
  <2> SUFFICES ASSUME NEW i \in 1..Len(inner) PROVE at[i] \in 1..(n - 1)
    OBVIOUS
  <2>1. i \in 1..Len(codings) /\ Len(codings) \in 1..Len(codings) /\ i < Len(codings)
    BY <1>1
  <2>2. at[i] < at[Len(codings)] /\ at[i] \in 1..n /\ at[Len(codings)] \in 1..n
    BY <1>2, <2>1
  <2>3. QED
    BY <2>2
<1>4. \A i \in 1..Len(inner) : inner[i] # "identity" /\ labels[before[i]] = inner[i]
  BY <1>1, <1>2 DEF Decode!AreAmong
<1>5. \A i, j \in 1..Len(inner) : i < j => before[i] < before[j]
  BY <1>1, <1>2
<1>6. QED
  BY <1>3, <1>4, <1>5 DEF Decode!AreAmong

(* The label "identity" stands for no layer.                               *)
LEMMA OneSkipped ==
  ASSUME NEW codings \in Seq(Decode!Labels), NEW labels, NEW n \in Nat \ {0}, labels[n] = "identity",
         Decode!AreAmong(codings, labels, n)
  PROVE  Decode!AreAmong(codings, labels, n - 1)
<1>1. PICK at \in [1..Len(codings) -> 1..n] :
        /\ \A i \in 1..Len(codings) : labels[at[i]] = codings[i]
        /\ \A i, j \in 1..Len(codings) : i < j => at[i] < at[j]
  BY DEF Decode!AreAmong
<1>2. at \in [1..Len(codings) -> 1..(n - 1)]
  <2> SUFFICES ASSUME NEW i \in 1..Len(codings) PROVE at[i] \in 1..(n - 1)
    BY <1>1
  <2>1. labels[at[i]] # "identity" /\ at[i] \in 1..n
    BY <1>1 DEF Decode!AreAmong
  <2>2. QED
    BY <2>1
<1>3. QED
  BY <1>1, <1>2 DEF Decode!AreAmong

LEMMA DecodingStarts ==
  ASSUME Decode!ConstantsOK, Decode!Init
  PROVE  Decode!DecodingOK
<1>1. Decode!IsMessage(v1)
  BY DEF Decode!ConstantsOK, Decode!Init
<1>2. Decode!PeelingOK /\ Decode!SizesOK /\ Decode!PreviewOK
  BY <1>1 DEF Decode!Init, Decode!IsMessage, Decode!PeelingOK, Decode!SizesOK, Decode!PreviewOK
<1>3. v8 \in Decode!Results
  BY DEF Decode!Init, Decode!NoResult, Decode!BodyFormats, Decode!Results
<1>4. QED
  BY <1>1, <1>2, <1>3 DEF Decode!Init, Decode!DecodingOK, Decode!IsMessage

LEMMA DecodingFails ==
  ASSUME Decode!DecodingOK, Decode!Fail
  PROVE  Decode!DecodingOK'
BY DEF Decode!Fail, Decode!call, Decode!DecodingOK, Decode!PeelingOK, Decode!SizesOK, Decode!PreviewOK

(* The loop over the labels.                                               *)
LEMMA LoopStep ==
  ASSUME Decode!ConstantsOK, Decode!DecodingOK,
         Decode!Missing \/ Decode!Start \/ Decode!SkipIdentity \/ Decode!SkipUnsupported \/ Decode!Unwrap
         \/ Decode!NotUnwrapped
  PROVE  Decode!DecodingOK'
<1>1. /\ Decode!IsMessage(v1) /\ v2 \in Nat
      /\ v5 \in Nat /\ v6 \in Seq(Decode!Labels)
  BY DEF Decode!ConstantsOK, Decode!DecodingOK
<1>2. CASE Decode!Missing
  BY <1>2, DecodingFails DEF Decode!Missing
<1>3. CASE Decode!Start
  <2>1. CASE Decode!TooLarge(Len(v6))
    BY <1>3, <2>1, DecodingFails DEF Decode!Start
  <2>2. CASE ~ Decode!TooLarge(Len(v6))
    <3>1. Len(v6) \in Nat /\ \A n \in Len(v6)..Len(v6) : n = Len(v6)
      BY <1>1
    <3>2. v6 = v1.layers /\ v4' = "unwrap" /\ UNCHANGED <<v1, v2, v3, v5, v6, v7, v8>> /\ ~ v1.missing
      BY <1>3, <2>2 DEF Decode!Start, Decode!call, Decode!DecodingOK, Decode!SizesOK
    <3>3. (Decode!SizesOK)'
      BY <2>2, <3>1, <3>2 DEF Decode!SizesOK, Decode!TooLarge
    <3>4. (Decode!PeelingOK)' /\ (Decode!PreviewOK)'
      BY <1>3, <3>2 DEF Decode!Start, Decode!DecodingOK, Decode!PeelingOK, Decode!PreviewOK
    <3>5. QED
      BY <3>2, <3>3, <3>4 DEF Decode!DecodingOK
  <2>3. QED
    BY <2>1, <2>2
<1>4. CASE Decode!SkipIdentity
  <2>1. v7 = {} => Decode!AreAmong(v6, v1.labels, v5 - 1)
    BY <1>1, <1>4, OneSkipped DEF Decode!SkipIdentity, Decode!Unwrapping, Decode!Label, Decode!DecodingOK, Decode!PeelingOK
  <2>2. (Decode!SizesOK)' /\ (Decode!PreviewOK)'
    BY <1>4 DEF Decode!SkipIdentity, Decode!Unwrapping, Decode!call, Decode!TooLarge, Decode!DecodingOK, Decode!SizesOK, Decode!PreviewOK
  <2>3. QED
    BY <1>1, <1>4, <2>1, <2>2 DEF Decode!SkipIdentity, Decode!Unwrapping, Decode!call, Decode!DecodingOK, Decode!PeelingOK
<1>5. CASE Decode!SkipUnsupported
  <2>1. (Decode!SizesOK)' /\ (Decode!PreviewOK)' /\ (Decode!PeelingOK)'
    BY <1>5 DEF Decode!SkipUnsupported, Decode!Unwrapping, Decode!call, Decode!TooLarge, Decode!DecodingOK, Decode!SizesOK,
                Decode!PeelingOK, Decode!PreviewOK
  <2>2. QED
    BY <1>1, <1>5, <2>1 DEF Decode!SkipUnsupported, Decode!Unwrapping, Decode!call, Decode!DecodingOK
<1>6. CASE Decode!Unwrap
  <2>1. CASE Decode!TooLarge(Decode!Inner)
    BY <1>6, <2>1, DecodingFails DEF Decode!Unwrap
  <2>2. CASE ~ Decode!TooLarge(Decode!Inner)
    <3>1. /\ v6 # <<>> /\ v6' = SubSeq(v6, 1, Len(v6) - 1) /\ v5' = v5 - 1 /\ v5 \in Nat \ {0}
          /\ v4 = "unwrap" /\ UNCHANGED <<v1, v2, v3, v4, v7, v8>>
      BY <1>1, <1>6, <2>2 DEF Decode!Unwrap, Decode!Unwrapping, Decode!Decodable, Decode!Outermost, Decode!TakeOff,
                              Decode!Inner, Decode!call
    <3>2. v7 = {} => Decode!AreAmong(v6', v1.labels, v5 - 1)
      BY <1>1, <3>1, OneUnwrapped DEF Decode!DecodingOK, Decode!PeelingOK
    <3>3. (Decode!SizesOK)'
      <4>1. Len(v6') = Len(v6) - 1 /\ v6' \in Seq(Decode!Labels)
        BY <1>1, <3>1, Shorter
      <4> DEFINE k == Len(v6)
                 m == Len(v1.layers)
      <4>2. k \in Nat /\ m \in Nat /\ Len(v6') = k - 1
        BY <1>1, <4>1 DEF Decode!IsMessage
      <4>3. /\ \A n \in k..m : ~ Decode!TooLarge(n)
            /\ ~ Decode!TooLarge(k - 1)
        BY <2>2, <3>1 DEF Decode!DecodingOK, Decode!SizesOK, Decode!Inner
      <4> HIDE DEF k, m
      <4>4. \A n \in (k - 1)..m : n \in k..m \/ n = k - 1
        BY <4>2
      <4>5. \A n \in (k - 1)..m : ~ Decode!TooLarge(n)
        BY <4>3, <4>4
      <4>6. m' = m
        BY <3>1 DEF m
      <4>7. \A n \in (k - 1)..m : n \notin v1'.large
        BY <3>1, <4>5 DEF Decode!TooLarge
      <4>8. \A n \in Len(v6')..Len(v1'.layers) : n \notin v1'.large
        BY <4>2, <4>6, <4>7 DEF m
      <4>9. QED
        BY <3>1, <4>8 DEF Decode!SizesOK, Decode!TooLarge
    <3>4. v6' \in Seq(Decode!Labels) /\ v5' \in Nat
      BY <1>1, <3>1, Shorter
    <3>5. (Decode!PeelingOK)' /\ (Decode!PreviewOK)'
      BY <3>1, <3>2 DEF Decode!PeelingOK, Decode!PreviewOK
    <3>6. QED
      BY <3>1, <3>3, <3>4, <3>5 DEF Decode!DecodingOK
  <2>3. QED
    BY <2>1, <2>2
<1>7. CASE Decode!NotUnwrapped
  <2>1. v4 = "unwrap" /\ v4' = "preview" /\ v7' # {} /\ UNCHANGED <<v1, v2, v3, v5, v6, v8>> /\ ~ Decode!Decodable
    BY <1>7 DEF Decode!NotUnwrapped, Decode!Unwrapping, Decode!EndLoop, Decode!call
  <2>2. (Decode!SizesOK)'
    BY <2>1 DEF Decode!DecodingOK, Decode!SizesOK, Decode!TooLarge, Decode!Decodable, Decode!Outermost, Decode!Refused,
                Decode!Label, Decode!Inner
  <2>3. (Decode!PeelingOK)' /\ (Decode!PreviewOK)'
    BY <2>1 DEF Decode!PeelingOK, Decode!PreviewOK
  <2>4. QED
    BY <2>1, <2>2, <2>3 DEF Decode!DecodingOK
<1>8. QED
  BY <1>2, <1>3, <1>4, <1>5, <1>6, <1>7

(* The text of the bytes the loop leaves.                                  *)
LEMMA PreviewStep ==
  ASSUME Decode!ConstantsOK, Decode!DecodingOK, Decode!Preview
  PROVE  Decode!DecodingOK'
<1>1. /\ Decode!IsMessage(v1) /\ v2 \in Nat
      /\ v5 \in Nat /\ v6 \in Seq(Decode!Labels)
  BY DEF Decode!ConstantsOK, Decode!DecodingOK
<1>2. /\ v4 = "preview" \/ (v4 = "unwrap" /\ v5 = 0)
      /\ v4' = "classify" /\ UNCHANGED <<v1, v2, v3, v5, v6, v7>>
  BY DEF Decode!Preview, Decode!call
<1>3. v7 = {} => v6 = <<>>
  BY <1>1, <1>2, AmongNone DEF Decode!DecodingOK, Decode!PeelingOK
<1>4. v1.runes \in Nat /\ Decode!Clipped(v1.runes) \in Nat /\ (v1.runes > v2 \/ Decode!Clipped(v1.runes) = v1.runes)
  BY <1>1 DEF Decode!Clipped, Decode!IsMessage
<1>5. \/ v8' = [format |-> "none", value |-> FALSE, shown |-> Decode!Clipped(v1.runes), truncated |-> TRUE]
      \/ v8' = [format |-> "none", value |-> FALSE, shown |-> v1.runes, truncated |-> FALSE]
  <2>1. v8' = [format |-> "none", value |-> FALSE, shown |-> Decode!Clipped(v1.runes), truncated |-> v1.runes > v2]
    BY DEF Decode!Preview, Decode!NoResult
  <2>2. CASE v1.runes > v2
    <3>1. (v1.runes > v2) = TRUE
      BY <2>2
    <3>2. QED
      BY <2>1, <3>1
  <2>3. CASE ~(v1.runes > v2)
    <3>1. (v1.runes > v2) = FALSE
      BY <2>3
    <3>2. QED
      BY <1>4, <2>1, <2>3, <3>1
  <2>4. QED
    BY <2>2, <2>3
<1>6. v8' \in Decode!Results
  <2>1. "none" \in Decode!BodyFormats
    BY DEF Decode!BodyFormats
  <2>2. /\ [format |-> "none", value |-> FALSE, shown |-> Decode!Clipped(v1.runes), truncated |-> TRUE] \in Decode!Results
        /\ [format |-> "none", value |-> FALSE, shown |-> v1.runes, truncated |-> FALSE] \in Decode!Results
    BY <1>4, <2>1 DEF Decode!Results
  <2>3. QED
    BY <1>5, <2>2
<1>7. (Decode!PreviewOK)'
  BY <1>2, <1>5 DEF Decode!PreviewOK
<1>8. (Decode!PeelingOK)'
  BY <1>2, <1>3 DEF Decode!PeelingOK
<1>9. (Decode!SizesOK)'
  <2>1. v4 = "unwrap" => ~(v5 > 0)
    BY <1>2
  <2>2. QED
    BY <1>2, <2>1 DEF Decode!DecodingOK, Decode!SizesOK, Decode!TooLarge, Decode!Outermost, Decode!Refused,
                      Decode!Label, Decode!Inner
<1>10. QED
  BY <1>2, <1>6, <1>7, <1>8, <1>9 DEF Decode!DecodingOK

LEMMA SettledResult ==
  ASSUME NEW r \in Decode!Results, NEW format \in Decode!BodyFormats, NEW value \in BOOLEAN, NEW n \in Nat
  PROVE  /\ [r EXCEPT !.format = format, !.value = value] \in Decode!Results
         /\ [r EXCEPT !.format = format, !.shown = n] \in Decode!Results
         /\ [r EXCEPT !.value = FALSE, !.shown = n, !.truncated = TRUE] \in Decode!Results
BY DEF Decode!Results

(* After the loop the layers stay, and what was found of the sizes.         *)
LEMMA SameSizes ==
  ASSUME Decode!DecodingOK, v4 \in {"classify", "limit", "shown"}, UNCHANGED <<v1, v2, v3, v5, v6>>,
         v4' \in {"limit", "shown"}
  PROVE  (Decode!SizesOK)'
BY DEF Decode!DecodingOK, Decode!SizesOK, Decode!TooLarge, Decode!Outermost, Decode!Refused, Decode!Label, Decode!Inner

(* The cases, and the limit of a value.                                    *)
LEMMA ClassifyingStep ==
  ASSUME Decode!ConstantsOK, Decode!DecodingOK,
         Decode!Protobuf \/ Decode!JSON \/ Decode!FormOrMultipart \/ Decode!Other
  PROVE  Decode!DecodingOK'
<1>1. /\ Decode!IsMessage(v1) /\ v2 \in Nat
      /\ v4 = "classify" /\ v8 \in Decode!Results /\ ~ v1.missing
  BY DEF Decode!ConstantsOK, Decode!DecodingOK, Decode!Protobuf, Decode!JSON, Decode!FormOrMultipart, Decode!Other
<1>2. Decode!HexShown \in Nat
  BY <1>1 DEF Decode!HexShown, Decode!IsMessage
<1>3. \/ v4' = "failed" /\ UNCHANGED <<v1, v2, v3, v5, v6, v7, v8>>
      \/ \E format \in Decode!BodyFormats \ {"binary"}, value \in BOOLEAN :
           /\ v4' = "limit" /\ v8' = [v8 EXCEPT !.format = format, !.value = value]
           /\ UNCHANGED <<v1, v2, v3, v5, v6>> /\ (v7' = v7 \/ v7' # {})
      \/ /\ v4' \in {"limit", "shown"} /\ v8' = [v8 EXCEPT !.format = "binary", !.shown = Decode!HexShown]
         /\ UNCHANGED <<v1, v2, v3, v5, v6>> /\ (v7' = v7 \/ v7' # {})
  <2>1. {"protobuf", "json", "form", "multipart", "text"} \subseteq Decode!BodyFormats \ {"binary"}
    BY DEF Decode!BodyFormats
  <2>2. CASE Decode!Protobuf
    BY <2>1, <2>2 DEF Decode!Protobuf, Decode!Fail, Decode!Settle, Decode!SettleHex, Decode!call
  <2>3. CASE Decode!JSON
    BY <2>1, <2>3 DEF Decode!JSON, Decode!Fail, Decode!Settle, Decode!SettleHex, Decode!call
  <2>4. CASE Decode!FormOrMultipart
    BY <2>1, <2>4 DEF Decode!FormOrMultipart, Decode!IsForm, Decode!IsMultipart, Decode!Fail, Decode!Settle, Decode!call
  <2>5. CASE Decode!Other
    BY <2>1, <2>5 DEF Decode!Other, Decode!Settle, Decode!SettleHex, Decode!call
  <2>6. QED
    BY <2>2, <2>3, <2>4, <2>5
<1>4. CASE v4' = "failed" /\ UNCHANGED <<v1, v2, v3, v5, v6, v7, v8>>
  BY <1>4 DEF Decode!DecodingOK, Decode!PeelingOK, Decode!SizesOK, Decode!PreviewOK
<1>5. ASSUME NEW format \in Decode!BodyFormats \ {"binary"}, NEW value \in BOOLEAN,
             v4' = "limit", v8' = [v8 EXCEPT !.format = format, !.value = value],
             UNCHANGED <<v1, v2, v3, v5, v6>>, v7' = v7 \/ v7' # {}
      PROVE  Decode!DecodingOK'
  <2>1. v8' \in Decode!Results /\ v8'.truncated = v8.truncated /\ v8'.shown = v8.shown
    BY <1>1, <1>5, SettledResult DEF Decode!Results
  <2>2. (Decode!PreviewOK)' /\ (Decode!PeelingOK)'
    BY <1>1, <1>5, <2>1 DEF Decode!DecodingOK, Decode!PeelingOK, Decode!PreviewOK
  <2>3. QED
    BY <1>1, <1>5, <2>1, <2>2, SameSizes DEF Decode!DecodingOK
<1>6. ASSUME v4' \in {"limit", "shown"}, v8' = [v8 EXCEPT !.format = "binary", !.shown = Decode!HexShown],
             UNCHANGED <<v1, v2, v3, v5, v6>>, v7' = v7 \/ v7' # {}
      PROVE  Decode!DecodingOK'
  <2>1. v8' \in Decode!Results /\ v8'.format = "binary"
    <3>1. "binary" \in Decode!BodyFormats
      BY DEF Decode!BodyFormats
    <3>2. v8' \in Decode!Results
      BY <1>1, <1>2, <1>6, <3>1, SettledResult
    <3>3. QED
      BY <1>1, <1>6, <3>2 DEF Decode!Results
  <2>2. (Decode!PreviewOK)' /\ (Decode!PeelingOK)'
    BY <1>1, <1>6, <2>1 DEF Decode!DecodingOK, Decode!PeelingOK, Decode!PreviewOK, Decode!TextIsWhole
  <2>3. QED
    BY <1>1, <1>6, <2>1, <2>2, SameSizes DEF Decode!DecodingOK
<1>7. QED
  BY <1>3, <1>4, <1>5, <1>6

LEMMA LimitStep ==
  ASSUME Decode!ConstantsOK, Decode!DecodingOK, Decode!Limit
  PROVE  Decode!DecodingOK'
<1>1. /\ Decode!IsMessage(v1) /\ v2 \in Nat
      /\ v4 = "limit" /\ v4' = "shown" /\ v8 \in Decode!Results /\ UNCHANGED <<v1, v2, v3, v5, v6, v7>>
  BY DEF Decode!ConstantsOK, Decode!DecodingOK, Decode!Limit, Decode!call
<1>2. v8' \in Decode!Results /\ (Decode!TextIsWhole)'
  <2>1. CASE v8.value /\ v1.value > v2
    <3>1. v8' = [v8 EXCEPT !.value = FALSE, !.shown = v2, !.truncated = TRUE]
      BY <2>1 DEF Decode!Limit
    <3>2. v8' \in Decode!Results /\ v8'.truncated
      BY <1>1, <3>1, SettledResult DEF Decode!Results
    <3>3. QED
      BY <3>2 DEF Decode!TextIsWhole
  <2>2. CASE ~(v8.value /\ v1.value > v2)
    <3>1. v8' = v8
      BY <2>2 DEF Decode!Limit
    <3>2. v8.value => v1.value <= v2
      BY <1>1, <2>2 DEF Decode!IsMessage
    <3>3. QED
      BY <1>1, <3>1, <3>2 DEF Decode!TextIsWhole, Decode!Whole, Decode!DecodingOK, Decode!PreviewOK
  <2>3. QED
    BY <2>1, <2>2
<1>3. (Decode!PreviewOK)' /\ (Decode!PeelingOK)'
  BY <1>1, <1>2 DEF Decode!DecodingOK, Decode!PeelingOK, Decode!PreviewOK
<1>4. QED
  BY <1>1, <1>2, <1>3, SameSizes DEF Decode!DecodingOK

LEMMA DecodingStep ==
  ASSUME Decode!ConstantsOK, Decode!DecodingOK, [Decode!Next]_(Decode!vars)
  PROVE  Decode!DecodingOK'
<1>1. CASE UNCHANGED Decode!vars
  BY <1>1 DEF Decode!vars, Decode!DecodingOK, Decode!PeelingOK, Decode!SizesOK, Decode!TooLarge, Decode!Outermost,
              Decode!Refused, Decode!Label, Decode!Inner, Decode!PreviewOK, Decode!TextIsWhole, Decode!Whole
<1>2. CASE Decode!Next
  BY <1>2, LoopStep, PreviewStep, ClassifyingStep, LimitStep DEF Decode!Next
<1>3. QED
  BY <1>1, <1>2

LEMMA Decoding == Spec => [](tool = "decode" => Decode!DecodingOK)
<1>1. Init => (tool = "decode" => Decode!DecodingOK)
  BY ValuesOK, DecodingStarts DEF Init
<1>2. (tool = "decode" => Decode!DecodingOK) /\ [Next]_vars => (tool = "decode" => Decode!DecodingOK)'
  BY ValuesOK, StepOfTool, DecodingStep
<1>3. QED
  BY <1>1, <1>2, PTL DEF Spec

(* A body shown without a warning has lost every layer of coding, however  *)
(* many the headers name and whichever Charles had removed                 *)
(* (decode.go:41-101).                                                     *)
THEOREM NoWarningMeansDecoded == Spec => []NoWarningNoLayer
<1>1. (tool = "decode" => Decode!DecodingOK) => NoWarningNoLayer
  BY DEF NoWarningNoLayer, Decode!NoWarningNoLayer, Decode!DecodingOK, Decode!PeelingOK
<1>2. QED
  BY <1>1, Decoding, PTL

(* A body above the limit, as recorded or without any of the layers taken  *)
(* off, is never shown, and a warning that a body could not be             *)
(* decompressed never stands for the limit, but for that of zstd           *)
(* (decode.go:44-46, 84, 92-97).                                           *)
THEOREM TooLargeIsNotShown == Spec => []TooLargeIsAnError
<1>1. (tool = "decode" => Decode!DecodingOK) => TooLargeIsAnError
  BY DEF TooLargeIsAnError, Decode!TooLargeIsAnError, Decode!DecodingOK, Decode!SizesOK
<1>2. QED
  BY <1>1, Decoding, PTL

(* Text and values that are not marked as cut are whole (decode.go:139-142,*)
(* 231-238).                                                               *)
THEOREM UnmarkedTextIsWhole == Spec => []TextIsWhole
<1>1. (tool = "decode" => Decode!DecodingOK) => TextIsWhole
  BY DEF TextIsWhole, Decode!TextIsWhole, Decode!DecodingOK, Decode!PreviewOK
<1>2. QED
  BY <1>1, Decoding, PTL

----------------------------------------------------------------------------
(* The configuration.  v1 is the file, v2 the environment, v3 the flags,   *)
(* v5 the stage and v6 the configuration.                                  *)

LEMMA LayeredSettings ==
  LET first(s, default) == IF v2[s] = Configure!Unset THEN IF v1[s] = Configure!Unset THEN default ELSE v1[s] ELSE v2[s]
      read == Configure!Placed(Configure!Layered)
  IN /\ DOMAIN read = Configure!Settings /\ read = [s \in Configure!Settings |-> read[s]]
     /\ read.data_dir = first("data_dir", Configure!Default) /\ read.url = first("url", Configure!Default)
     /\ read.recordings = IF first("recordings", Configure!Empty) = Configure!Empty
                          THEN Configure!Below(read.data_dir) ELSE first("recordings", Configure!Empty)
<1> DEFINE laid == Configure!Layered
<1>1. laid = [s \in Configure!Settings |-> laid[s]]
  BY DEF Configure!Layered, Configure!Over
<1>2. /\ laid["data_dir"] = IF v2["data_dir"] = Configure!Unset
                            THEN IF v1["data_dir"] = Configure!Unset THEN Configure!Default ELSE v1["data_dir"] ELSE v2["data_dir"]
      /\ laid["url"] = IF v2["url"] = Configure!Unset
                       THEN IF v1["url"] = Configure!Unset THEN Configure!Default ELSE v1["url"] ELSE v2["url"]
      /\ laid["recordings"] = IF v2["recordings"] = Configure!Unset
                              THEN IF v1["recordings"] = Configure!Unset THEN Configure!Empty ELSE v1["recordings"] ELSE v2["recordings"]
  BY DEF Configure!Layered, Configure!Over, Configure!Defaults, Configure!Settings
<1> HIDE DEF laid
<1>3. QED
  BY <1>1, <1>2 DEF laid, Configure!Placed, Configure!Settings

(* The flags come last, and move recordings nobody placed.                 *)
LEMMA FlagsStep ==
  ASSUME Configure!ConfigOK, Configure!ReadFlags
  PROVE  Configure!ConfigOK'
<1> DEFINE read == Configure!Placed(Configure!Layered)
<1>1. v5' = "run" /\ v6 = read /\ UNCHANGED <<v1, v2, v3, v4>>
  BY DEF Configure!ReadFlags, Configure!ConfigOK
<1>2. CASE v3 = Configure!Unset
  <2>1. v6' = read
    BY <1>1, <1>2 DEF Configure!ReadFlags
  <2>2. QED
    BY <1>1, <1>2, <2>1, LayeredSettings DEF Configure!ConfigOK, Configure!FirstMentionDecides,
       Configure!RecordingsFollowData, Configure!Named, Configure!Mentioned, Configure!FirstMentioned, Configure!Unset, Configure!Empty
<1>3. CASE v3 # Configure!Unset
  <2>1. /\ v6'.data_dir = v3 /\ v6'.url = read.url
        /\ v6'.recordings = IF v2.recordings \in {Configure!Unset, Configure!Empty} THEN Configure!Below(v3) ELSE read.recordings
    <3>1. v6' = [read EXCEPT !.data_dir = v3,
                             !.recordings = IF v2.recordings \in {Configure!Unset, Configure!Empty} THEN Configure!Below(v3) ELSE @]
      BY <1>1, <1>3 DEF Configure!ReadFlags
    <3>2. QED
      BY <3>1, LayeredSettings DEF Configure!Settings
  <2>2. QED
    BY <1>1, <1>3, <2>1, LayeredSettings DEF Configure!ConfigOK, Configure!FirstMentionDecides,
       Configure!RecordingsFollowData, Configure!Named, Configure!Mentioned, Configure!FirstMentioned, Configure!Unset, Configure!Empty
<1>4. QED
  BY <1>2, <1>3

LEMMA ConfigStep ==
  ASSUME Configure!ConfigOK, [Configure!Next]_(Configure!vars)
  PROVE  Configure!ConfigOK'
<1>1. CASE UNCHANGED Configure!vars
  BY <1>1 DEF Configure!vars, Configure!ConfigOK, Configure!Layered, Configure!FirstMentionDecides, Configure!FirstMentioned,
              Configure!RecordingsFollowData
<1>2. CASE Configure!ReadFile
  BY <1>2 DEF Configure!ReadFile, Configure!ConfigOK
<1>3. CASE Configure!ReadEnv
  BY <1>3 DEF Configure!ReadEnv, Configure!ConfigOK, Configure!Layered
<1>4. CASE Configure!Check
  BY <1>4 DEF Configure!Check, Configure!ConfigOK, Configure!Layered, Configure!FirstMentionDecides, Configure!FirstMentioned,
              Configure!RecordingsFollowData
<1>5. QED
  BY <1>1, <1>2, <1>3, <1>4, FlagsStep DEF Configure!Next

LEMMA Configuring == Spec => [](tool = "configure" => Configure!ConfigOK)
<1>1. Init => (tool = "configure" => Configure!ConfigOK)
  BY DEF Init, Configure!Init, Configure!ConfigOK
<1>2. (tool = "configure" => Configure!ConfigOK) /\ [Next]_vars => (tool = "configure" => Configure!ConfigOK)'
  BY StepOfTool, ConfigStep
<1>3. QED
  BY <1>1, <1>2, PTL DEF Spec

(* Flags, then the environment, then the file, then the defaults: the      *)
(* first that mentions a setting decides (config.go:29-62, main.go:44-52). *)
THEOREM PriorityOfSources == Spec => []FirstMentionDecides
<1>1. (tool = "configure" => Configure!ConfigOK) => FirstMentionDecides
  BY DEF FirstMentionDecides, Configure!FirstMentionDecides, Configure!ConfigOK
<1>2. QED
  BY <1>1, Configuring, PTL

(* Recordings nobody placed are below the data directory in use            *)
(* (config.go:54-56, main.go:46-49).                                       *)
THEOREM RecordingsAreBelowData == Spec => []RecordingsFollowData
<1>1. (tool = "configure" => Configure!ConfigOK) => RecordingsFollowData
  BY DEF RecordingsFollowData, Configure!RecordingsFollowData, Configure!ConfigOK
<1>2. QED
  BY <1>1, Configuring, PTL
=============================================================================
