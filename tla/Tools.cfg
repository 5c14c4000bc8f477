SPECIFICATION Spec
CONSTANTS
  x0 = x0
  x1 = x1
  x2 = x2
  j1 = j1
  j2 = j2
  k1 = k1
  k2 = k2
  k3 = k3
  Tools = {"build replay", "name a field", "plan mutations", "read pages", "import", "decode", "configure",
           "restore", "restore at once", "save artifacts", "save artifacts at once"}
  Paths <- ReplayPaths
  Recorded <- ReplayRecorded
  Asked <- ReplayAsked
  Keys <- PointerKeys
  MaxDepth = 2
  Fields <- PlanFields
  Selected <- PlanSelected
  Entries <- PageEntries
  Queries <- PageQueries
  Limits = {1, 2}
  MaxRows = 3
  MaxNow = 2
  Files <- ImportFiles
  Contents <- ImportContents
  Formats = {"auto", "json"}
  Versions = {"text", "base64"}
  Convert <- ImportConvert
  Messages <- DecodeMessages
  MaxChars = {4}
  Descriptors = {"none", "half", "both"}
  Dirs = {"one", "two"}
  InARow <- JobsInARow
  AtOnce <- JobsAtOnce
  OneCaller <- CallAlone
  ManyCallers <- CallsTogether
  Call = {x0}
  TwoCalls = {x1, x2}
  TwoJobs = {j1, j2}
  ThreeJobs = {k1, k2, k3}
SYMMETRY CallsAlike
INVARIANTS
  SeparateOverridesApply LabelFitsBody HeadersAsAsked
  NamesLeadBack
  FavouredFieldsFirst EveryTargetIsRemoved
  PagesAreWhole StatsAgree
  CapturesAreTheirFiles ImportIsStored OversizedIsFinal
  NoWarningNoLayer TooLargeIsAnError TextIsWhole
  FirstMentionDecides RecordingsFollowData
  ProfilesNeverLost ProfilesWhole MixedOnlyIfReported
  OrphansOnlyLate AnsweredIsRecorded ComparisonsRest ReportShowsReplay
PROPERTY LastPageIsLast
\* A configuration is read once, a body decoded once, a plan made once.
CHECK_DEADLOCK FALSE
