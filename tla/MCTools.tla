------------------------------ MODULE MCTools ------------------------------
(***************************************************************************)
(* Each of the tools on a small instance, for TLC.                         *)
(***************************************************************************)
EXTENDS Tools, TLC

CONSTANTS
  Call,        \* one call, and two that overlap
  TwoCalls,
  TwoJobs,     \* copies of configurations: two in a row, and three that overlap
  ThreeJobs

(* The values of the constants of each module. *)
INSTANCE MCReplayRequest
INSTANCE MCJsonPointer
INSTANCE MCMutationPlan
INSTANCE MCQueryPages
INSTANCE MCSessionImport
INSTANCE MCBodyDecoding

(* Jobs one after the other that fail and crash, with two new generations of
   the files of Charles. *)
JobsInARow == [jobs |-> TwoJobs, nFiles |-> 2, maxGeneration |-> 3, faults |-> {"fail", "crash"}]

(* Jobs that also overlap, with a Charles that starts and writes under them. *)
JobsAtOnce == [jobs |-> ThreeJobs, nFiles |-> 2, maxGeneration |-> 2,
               faults |-> {"fail", "crash", "edit", "start", "overlap"}]

(* A live capture of two entries and an imported one of a single entry. *)
CallAlone ==
  [captures |-> {"live", "file"}, entriesOf |-> [live |-> {"e1", "e2"}, file |-> {"f1"}], liveCapture |-> "live",
   calls |-> Call, kinds |-> {"decode", "discover", "replay", "workflow"},
   maxFindings |-> 1, faults |-> {"store", "cancel", "crash", "overlap"}]

(* Two calls that overlap with each other and with deletes; a report is full
   with one finding. *)
CallsTogether ==
  [captures |-> {"live", "file"}, entriesOf |-> [live |-> {"e1"}, file |-> {"f1"}], liveCapture |-> "live",
   calls |-> TwoCalls, kinds |-> {"replay", "workflow"}, maxFindings |-> 1, faults |-> {"overlap"}]

CallsAlike == Permutations(TwoCalls) \cup Permutations(TwoJobs) \cup Permutations(ThreeJobs)
=============================================================================
