SPECIFICATION Spec
CONSTANTS
  x0 = x0
  x1 = x1
  x2 = x2
  j1 = j1
  j2 = j2
  k1 = k1
  k2 = k2
  k3 = k3
  Tools = {"build replay"}
  Paths <- ReplayPaths
  Recorded <- ReplayRecorded
  Asked <- ReplayAsked
  Keys <- PointerKeys
  MaxDepth = 2
  Fields <- PlanFields
  Selected <- PlanSelected
  Entries <- PageEntries
  Queries <- PageQueries
  Limits = {1, 2}
  MaxRows = 3
  MaxNow = 2
  Files <- ImportFiles
  Contents <- ImportContents
  Formats = {"auto", "json"}
  Versions = {"v1"}
  Convert <- ImportConvert
  Messages <- DecodeMessages
  MaxChars = {4}
  Descriptors = {"none", "half", "both"}
  Dirs = {"one", "two"}
  InARow <- JobsInARow
  AtOnce <- JobsAtOnce
  OneCaller <- CallAlone
  ManyCallers <- CallsTogether
  Call = {x0}
  TwoCalls = {x1, x2}
  TwoJobs = {j1, j2}
  ThreeJobs = {k1, k2, k3}
INVARIANT OverridesApply
\* One request is built; the call ends in "sent" or "refused".
CHECK_DEADLOCK FALSE
