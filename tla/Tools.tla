------------------------------- MODULE Tools -------------------------------
(***************************************************************************)
(* The tools that share no state with the live manager.  App.Call          *)
(* (internal/app/app.go) hands a call to one of them by its name, and none *)
(* of them sees what another keeps: a behaviour of this module is a        *)
(* behaviour of one tool, and its states are the disjoint union of theirs. *)
(* tool says whose, and v1 to v8 hold the variables of its module in the   *)
(* order of their declaration; those it does not need are Unused.          *)
(*                                                                         *)
(* The constants are those of the modules.  ConfigRestore and Artifacts    *)
(* are each here twice, for different faults; of these the constants are   *)
(* records.                                                                *)
(***************************************************************************)

CONSTANTS
  Tools,                                    \* the tools that are called
  Paths, Recorded, Asked,                   \* ReplayRequest
  Keys, MaxDepth,                           \* JsonPointer
  Fields, Selected,                         \* MutationPlan
  Entries, Queries, Limits, MaxRows, MaxNow,  \* QueryPages
  Files, Contents, Formats, Versions, Convert(_, _),  \* SessionImport
  Messages, MaxChars, Descriptors,          \* BodyDecoding
  Dirs,                                     \* Configuration
  InARow,       \* ConfigRestore: jobs, nFiles, maxGeneration and faults; jobs that do not overlap
  AtOnce,       \* and under which Charles does not write, and any
  OneCaller,    \* Artifacts: captures, entriesOf, liveCapture, calls, kinds, maxFindings and faults
  ManyCallers

AllTools ==
  {"build replay", "name a field", "plan mutations", "read pages", "import", "decode", "configure",
   "restore", "restore at once", "save artifacts", "save artifacts at once"}

VARIABLES tool, v1, v2, v3, v4, v5, v6, v7, v8
vars == <<tool, v1, v2, v3, v4, v5, v6, v7, v8>>

Unused == "unused"
Free3 == v3 = Unused /\ v4 = Unused /\ v5 = Unused /\ v6 = Unused /\ v7 = Unused /\ v8 = Unused
Free6 == v6 = Unused /\ v7 = Unused /\ v8 = Unused
Free7 == v7 = Unused /\ v8 = Unused

----------------------------------------------------------------------------
(* The instances *)

Replay == INSTANCE ReplayRequest WITH
  entry <- v1, opts <- v2, pc <- v3, left <- v4, tree <- v5, body <- v6, headers <- v7, listed <- v8

Pointer == INSTANCE JsonPointer WITH path <- v1, name <- v2

Plan == INSTANCE MutationPlan WITH entry <- v1, kind <- v2, pc <- v3, targets <- v4, variants <- v5

Pages == INSTANCE QueryPages WITH
  rows <- v1, now <- v2, query <- v3, pages <- v4, offset <- v5, known <- v6, dropped <- v7, stats <- v8

Import == INSTANCE SessionImport WITH files <- v1, charles <- v2, captures <- v3, rows <- v4, call <- v5

Decode == INSTANCE BodyDecoding WITH
  message <- v1, maxChars <- v2, descriptor <- v3, pc <- v4, left <- v5, layers <- v6, warnings <- v7, result <- v8

Configure == INSTANCE Configuration WITH
  file <- v1, env <- v2, flags <- v3, timeout <- v4, pc <- v5, config <- v6

Restore == INSTANCE ConfigRestoreProofs WITH
  Jobs <- InARow.jobs, NFiles <- InARow.nFiles, MaxGeneration <- InARow.maxGeneration, Faults <- InARow.faults,
  config <- v1, profiles <- v2, jobs <- v3, left <- v4, up <- v5, generation <- v6, reported <- v7, split <- v8

RestoreAtOnce == INSTANCE ConfigRestoreProofs WITH
  Jobs <- AtOnce.jobs, NFiles <- AtOnce.nFiles, MaxGeneration <- AtOnce.maxGeneration, Faults <- AtOnce.faults,
  config <- v1, profiles <- v2, jobs <- v3, left <- v4, up <- v5, generation <- v6, reported <- v7, split <- v8

Save == INSTANCE ArtifactsProofs WITH
  Captures <- OneCaller.captures, EntriesOf <- OneCaller.entriesOf, LiveCapture <- OneCaller.liveCapture,
  Calls <- OneCaller.calls, Kinds <- OneCaller.kinds, MaxFindings <- OneCaller.maxFindings, Faults <- OneCaller.faults,
  captures <- v1, artifacts <- v2, live <- v3, waiting <- v4, calls <- v5

SaveAtOnce == INSTANCE ArtifactsProofs WITH
  Captures <- ManyCallers.captures, EntriesOf <- ManyCallers.entriesOf, LiveCapture <- ManyCallers.liveCapture,
  Calls <- ManyCallers.calls, Kinds <- ManyCallers.kinds, MaxFindings <- ManyCallers.maxFindings, Faults <- ManyCallers.faults,
  captures <- v1, artifacts <- v2, live <- v3, waiting <- v4, calls <- v5

(* The values of the constants are as the modules want them. *)
ASSUME ValuesOK ==
  /\ Tools \subseteq AllTools
  /\ Replay!ConstantsOK /\ Pointer!ConstantsOK /\ Plan!ConstantsOK /\ Pages!ConstantsOK /\ Import!ConstantsOK /\ Decode!ConstantsOK
  /\ Restore!ConstantsOK /\ Restore!Alone /\ RestoreAtOnce!ConstantsOK /\ Save!ConstantsOK /\ SaveAtOnce!ConstantsOK

----------------------------------------------------------------------------
Init ==
  /\ tool \in Tools
  /\ \/ tool = "build replay" /\ Replay!Init
     \/ tool = "name a field" /\ Pointer!Init /\ Free3
     \/ tool = "plan mutations" /\ Plan!Init /\ Free6
     \/ tool = "read pages" /\ Pages!Init
     \/ tool = "import" /\ Import!Init /\ Free6
     \/ tool = "decode" /\ Decode!Init
     \/ tool = "configure" /\ Configure!Init /\ Free7
     \/ tool = "restore" /\ Restore!Init
     \/ tool = "restore at once" /\ RestoreAtOnce!Init
     \/ tool = "save artifacts" /\ Save!Init /\ Free6
     \/ tool = "save artifacts at once" /\ SaveAtOnce!Init /\ Free6

BuildReplay == tool = "build replay" /\ Replay!Next /\ UNCHANGED tool
NameField == tool = "name a field" /\ Pointer!Next /\ UNCHANGED <<tool, v3, v4, v5, v6, v7, v8>>
PlanMutations == tool = "plan mutations" /\ Plan!Next /\ UNCHANGED <<tool, v6, v7, v8>>
ReadPages == tool = "read pages" /\ Pages!Next /\ UNCHANGED tool
ImportFile == tool = "import" /\ Import!Next /\ UNCHANGED <<tool, v6, v7, v8>>
DecodeBody == tool = "decode" /\ Decode!Next /\ UNCHANGED tool
LoadConfig == tool = "configure" /\ Configure!Next /\ UNCHANGED <<tool, v7, v8>>
CopyConfig == tool = "restore" /\ Restore!Next /\ UNCHANGED tool
CopyConfigs == tool = "restore at once" /\ RestoreAtOnce!Next /\ UNCHANGED tool
SaveArtifact == tool = "save artifacts" /\ Save!Next /\ UNCHANGED <<tool, v6, v7, v8>>
SaveArtifacts == tool = "save artifacts at once" /\ SaveAtOnce!Next /\ UNCHANGED <<tool, v6, v7, v8>>

Next ==
  \/ BuildReplay \/ NameField \/ PlanMutations \/ ReadPages \/ ImportFile \/ DecodeBody
  \/ LoadConfig \/ CopyConfig \/ CopyConfigs \/ SaveArtifact \/ SaveArtifacts

Spec == Init /\ [][Next]_vars

----------------------------------------------------------------------------
(* The properties of the modules, which state what each is about. *)

(* replay.go:45-79: overrides of separate fields all take effect, and no other
   field changes, in whatever order the map yields them. *)
SeparateOverridesApply == tool = "build replay" => Replay!SeparateOverridesApply
(* replay.go:45: overrides that can all take effect do, one in the field of
   another included. *)
OverridesApply == tool = "build replay" => Replay!OverridesApply
(* replay.go:99-145: a new body has no label of the recorded bytes. *)
LabelFitsBody == tool = "build replay" => Replay!LabelFitsBody
(* replay.go:99-161: headers are sent as asked for, and else as recorded, but
   those of one hop. *)
HeadersAsAsked == tool = "build replay" => Replay!HeadersAsAsked

(* signature.go:42, replay.go:46-53: the name of a field leads back to it. *)
NamesLeadBack == tool = "name a field" => Pointer!NamesLeadBack

(* workflow.go:139-217: no cut costs a favoured field its recipes while
   another field keeps some. *)
FavouredFieldsFirst == tool = "plan mutations" => Plan!FavouredFieldsFirst
(* workflow.go:173-215: a field with recipes is removed first. *)
EveryTargetIsRemoved == tool = "plan mutations" => Plan!EveryTargetIsRemoved

(* query.go:193-206: pages read to the end show every match of the first. *)
PagesAreWhole == tool = "read pages" => Pages!PagesAreWhole
(* query.go:193-206: pages without a repeat show every match of the last. *)
LastPageIsLast == [][tool = "read pages" => Pages!LastPageStep]_vars
(* query.go:252-280: statistics count what pages list. *)
StatsAgree == tool = "read pages" => Pages!StatsAgree
(* store.go:59-72: a capture holds the transactions of its file. *)
CapturesAreTheirFiles == tool = "import" => Import!CapturesAreTheirFiles
(* store.go:59-72: an import that answered is stored as it was answered. *)
ImportIsStored == tool = "import" => Import!ImportIsStored
(* import.go:69-73, charles.go:110-114: what ends in a size error is never
   converted. *)
OversizedIsFinal == tool = "import" => Import!OversizedIsFinal

(* decode.go:41-101: without a warning no coding is left on the bytes. *)
NoWarningNoLayer == tool = "decode" => Decode!NoWarningNoLayer
(* decode.go:44-46, 84, 92-97: a body above the limit, at any layer, is an error. *)
TooLargeIsAnError == tool = "decode" => Decode!TooLargeIsAnError
(* decode.go:139-142, 231-238: text not said to be cut is whole. *)
TextIsWhole == tool = "decode" => Decode!TextIsWhole

(* config.go:29-62, main.go:44-52: the first source that mentions a setting
   decides. *)
FirstMentionDecides == tool = "configure" => Configure!FirstMentionDecides
(* config.go:54-56, main.go:46-49: recordings follow the data directory. *)
RecordingsFollowData == tool = "configure" => Configure!RecordingsFollowData

(* reset.go:103-167: profiles are never lost, whatever overlaps and fails. *)
ProfilesNeverLost == tool = "restore at once" => RestoreAtOnce!ProfilesNeverLost
(* reset.go:103-167: no profiles directory is left in part. *)
ProfilesWhole == tool = "restore" => Restore!ProfilesWhole
(* reset.go:36, 55: file and profiles differ only after an error, or where the
   file alone was asked for. *)
MixedOnlyIfReported == tool = "restore" => Restore!MixedOnlyIfReported

(* store.go:127-145: orphans are saved by calls a delete overtook. *)
OrphansOnlyLate == tool = "save artifacts" => Save!OrphansOnlyLate
(* replay.go:225-237: a replay that answers, and that no delete overtook, has
   left its records. *)
AnsweredIsRecorded == tool = "save artifacts" => Save!AnsweredIsRecorded
(* replay.go:225-237: a comparison has its experiment, but for calls that a
   delete overtook. *)
ComparisonsRest == tool = "save artifacts at once" => SaveAtOnce!ComparisonsRest
(* workflow.go:285-328: the report shows the replay it ran or is full. *)
ReportShowsReplay == tool = "save artifacts at once" => SaveAtOnce!ReportShowsReplay
=============================================================================
