--------------------------- MODULE ConfigRestore ---------------------------
(***************************************************************************)
(* backup_config and restore_config of reset_environment (reset.go): the   *)
(* configuration file and the profiles directory of Charles are copied to  *)
(* a backup and back, the file by a temporary file and a rename, the       *)
(* directory by a staged copy and two renames; without a profiles_path the *)
(* file alone.  Nothing keeps two of these jobs apart, and the user may    *)
(* start Charles at any time.                                              *)
(*                                                                         *)
(* A file is the generation of its content, 0 when there is none; a        *)
(* profiles directory is the sequence of its files, empty when there is    *)
(* none.                                                                   *)
(***************************************************************************)
EXTENDS Naturals, Sequences

CONSTANTS
  Jobs,
  NFiles,         \* files in a profiles directory
  MaxGeneration,  \* bound: contents Charles ever writes, the first included
  Faults          \* what may happen: subset of AllFaults

AllFaults == {"fail", "crash", "edit", "start", "overlap"}

ConstantsOK ==
  /\ NFiles \in Nat \ {0}
  /\ MaxGeneration \in Nat \ {0}
  /\ Faults \subseteq AllFaults

VARIABLES
  config,      \* the configuration file at each place
  profiles,    \* the profiles directory at each place
  jobs,
  left,        \* directories moved away in stages that nobody removes
  up,          \* Charles runs
  generation,  \* of the last content Charles wrote
  reported,    \* history: a job failed, or the process crashed in one
  split        \* history: places whose file was, as asked for, copied without the profiles

vars == <<config, profiles, jobs, left, up, generation, reported, split>>
files == <<config, profiles, left, split>>
world == <<up, generation>>

Places == {"charles", "backup"}

Generations == 0..MaxGeneration

Trees == [1..NFiles -> Generations]

Missing == <<>>

(* both: the profiles are copied too.  cfg is the file read; new and old   *)
(* are the directories in the stage, old the one moved away.               *)
NoJob ==
  [at |-> "idle", src |-> "charles", dst |-> "backup", both |-> FALSE, cfg |-> 0,
   new |-> Missing, old |-> Missing]

At(j, stage) == jobs[j].at = stage

Ended == {"idle", "done", "failed"}

Running(j) == jobs[j].at \notin Ended

Step(j, stage, changes) == jobs' = [jobs EXCEPT ![j] = [changes EXCEPT !.at = stage]]

----------------------------------------------------------------------------
(* Begin: which checks come before the first copy *)

MayBegin(j) ==
  /\ At(j, "idle")
  /\ "overlap" \in Faults \/ \A i \in Jobs : ~ Running(i)

Backup(j) ==
  /\ MayBegin(j)
  /\ \E both \in BOOLEAN :
       jobs' = [jobs EXCEPT ![j] = [NoJob EXCEPT !.at = "readConfig", !.both = both]]
  /\ UNCHANGED <<files, world, reported>>

(* The backup has what is asked for and nothing listens on the port of     *)
(* Charles.                                                                *)
Restore(j) ==
  /\ MayBegin(j)
  /\ config["backup"] # 0
  /\ ~ up
  /\ \E both \in BOOLEAN :
       /\ both => profiles["backup"] # Missing
       /\ jobs' = [jobs EXCEPT ![j] =
                     [NoJob EXCEPT !.at = "readConfig", !.src = "backup", !.dst = "charles", !.both = both]]
  /\ UNCHANGED <<files, world, reported>>

(* The job returns an error and removes its stage. *)
Fail(j) == Step(j, "failed", [jobs[j] EXCEPT !.new = Missing, !.old = Missing]) /\ reported' = TRUE

(* Fault: an error while the files are copied is not noticed. *)
WalkGoesOn(j) ==
  /\ "fail" \in Faults
  /\ At(j, "copyFiles")
  /\ Step(j, "look", jobs[j])
  /\ UNCHANGED <<files, world, reported>>

(* Fault: an error of copyTree is dropped. *)
FailQuietly(j) ==
  /\ "fail" \in Faults
  /\ jobs[j].at \in {"copyFiles", "look", "moveOld"}
  /\ Step(j, "done", [jobs[j] EXCEPT !.new = Missing, !.old = Missing])
  /\ UNCHANGED <<files, world, reported>>

(* A call of the file system fails before anything is moved. *)
FailEarly(j) ==
  /\ "fail" \in Faults
  /\ jobs[j].at \in {"readConfig", "writeConfig", "copyFiles", "look", "moveOld"}
  /\ Fail(j)
  /\ UNCHANGED <<files, world>>

----------------------------------------------------------------------------
(* copyFile *)

ReadConfig(j) ==
  /\ At(j, "readConfig")
  /\ IF config[jobs[j].src] = 0
       THEN Fail(j)
       ELSE Step(j, "writeConfig", [jobs[j] EXCEPT !.cfg = config[jobs[j].src]]) /\ UNCHANGED reported
  /\ UNCHANGED <<files, world>>

(* Without a profiles path that was all. *)
WriteConfig(j) ==
  /\ At(j, "writeConfig")
  /\ config' = [config EXCEPT ![jobs[j].dst] = jobs[j].cfg]
  /\ Step(j, IF jobs[j].both THEN "copyFiles" ELSE "done", jobs[j])
  /\ split' = IF jobs[j].both THEN split ELSE split \cup {jobs[j].dst}
  /\ UNCHANGED <<profiles, left, world, reported>>

----------------------------------------------------------------------------
(* copyTree *)

(* The walk over the source copies one file after the other to the stage.  *)
CopyNext(j) ==
  /\ At(j, "copyFiles")
  /\ LET from == profiles[jobs[j].src]
         next == Len(jobs[j].new) + 1
     IN IF from = Missing
          THEN Fail(j)
          ELSE /\ Step(j, IF next = NFiles THEN "look" ELSE "copyFiles",
                       [jobs[j] EXCEPT !.new = Append(@, from[next])])
               /\ UNCHANGED reported
  /\ UNCHANGED <<files, world>>

(* Is there a directory to move out of the way? *)
Look(j) ==
  /\ At(j, "look")
  /\ Step(j, IF profiles[jobs[j].dst] = Missing THEN "moveNew" ELSE "moveOld", jobs[j])
  /\ UNCHANGED <<files, world, reported>>

MoveOld(j) ==
  /\ At(j, "moveOld")
  /\ IF profiles[jobs[j].dst] = Missing
       THEN Fail(j) /\ UNCHANGED profiles
       ELSE /\ profiles' = [profiles EXCEPT ![jobs[j].dst] = Missing]
            /\ Step(j, "moveNew", [jobs[j] EXCEPT !.old = profiles[jobs[j].dst]])
            /\ UNCHANGED reported
  /\ UNCHANGED <<config, left, split, world>>

(* A directory is not renamed over another that has files; the stage, with *)
(* the old directory in it, is removed after a success.                    *)
MoveNew(j) ==
  /\ At(j, "moveNew")
  /\ profiles[jobs[j].dst] = Missing
  /\ profiles' = [profiles EXCEPT ![jobs[j].dst] = jobs[j].new]
  /\ Step(j, "done", [jobs[j] EXCEPT !.new = Missing, !.old = Missing])
  /\ split' = IF jobs[j].src \in split THEN split \cup {jobs[j].dst} ELSE split \ {jobs[j].dst}
  /\ UNCHANGED <<config, left, world, reported>>

MoveNewFails(j) ==
  /\ At(j, "moveNew")
  /\ "fail" \in Faults \/ profiles[jobs[j].dst] # Missing
  /\ IF jobs[j].old = Missing THEN Fail(j) ELSE Step(j, "rollback", jobs[j]) /\ UNCHANGED reported
  /\ UNCHANGED <<files, world>>

Rollback(j) ==
  /\ At(j, "rollback")
  /\ profiles[jobs[j].dst] = Missing
  /\ profiles' = [profiles EXCEPT ![jobs[j].dst] = jobs[j].old]
  /\ Fail(j)
  /\ UNCHANGED <<config, left, split, world>>

(* Fault: the stage goes with the old directory in it. *)
RollbackForgets(j) ==
  /\ At(j, "rollback")
  /\ "fail" \in Faults \/ profiles[jobs[j].dst] # Missing
  /\ Fail(j)
  /\ UNCHANGED <<files, world>>

(* The stage is kept and named in the error. *)
RollbackFails(j) ==
  /\ At(j, "rollback")
  /\ "fail" \in Faults \/ profiles[jobs[j].dst] # Missing
  /\ left' = left \cup {[place |-> jobs[j].dst, tree |-> jobs[j].old]}
  /\ Fail(j)
  /\ UNCHANGED <<config, profiles, split, world>>

----------------------------------------------------------------------------
(* The process and Charles *)

(* What is in the stages stays on the disk. *)
Crash ==
  /\ "crash" \in Faults
  /\ \E j \in Jobs : Running(j)
  /\ left' = left \cup {[place |-> jobs[j].dst, tree |-> jobs[j].old] :
                          j \in {i \in Jobs : jobs[i].old # Missing}}
  /\ jobs' = [j \in Jobs |-> IF Running(j) THEN [NoJob EXCEPT !.at = "failed"] ELSE jobs[j]]
  /\ reported' = TRUE
  /\ UNCHANGED <<config, profiles, split, world>>

(* Charles writes its files, and the directory if there is none. *)
CharlesSaves ==
  /\ up
  /\ "edit" \in Faults \/ \A j \in Jobs : ~ Running(j)
  /\ generation < MaxGeneration
  /\ generation' = generation + 1
  /\ config' = [config EXCEPT !["charles"] = generation']
  /\ profiles' = [profiles EXCEPT !["charles"] = [i \in 1..NFiles |-> generation']]
  /\ split' = split \ {"charles"}
  /\ UNCHANGED <<jobs, left, up, reported>>

CharlesStarts ==
  /\ ~ up
  /\ "start" \in Faults \/ \A j \in Jobs : ~ Running(j)
  /\ up' = TRUE
  /\ UNCHANGED <<files, jobs, generation, reported>>

CharlesQuits ==
  /\ up
  /\ up' = FALSE
  /\ UNCHANGED <<files, jobs, generation, reported>>

----------------------------------------------------------------------------
(* There may be a backup from before. *)
Init ==
  /\ \E backup \in {0, 1} : config = [p \in Places |-> IF p = "charles" THEN 1 ELSE backup]
  /\ profiles = [p \in Places |-> IF config[p] = 1 THEN [i \in 1..NFiles |-> 1] ELSE Missing]
  /\ jobs = [j \in Jobs |-> NoJob]
  /\ left = {}
  /\ up \in BOOLEAN
  /\ generation = 1
  /\ reported = FALSE
  /\ split = {}

Work(j) ==
  \/ Backup(j) \/ Restore(j)
  \/ FailEarly(j)
  \/ ReadConfig(j) \/ WriteConfig(j)
  \/ CopyNext(j) \/ Look(j) \/ MoveOld(j) \/ MoveNew(j) \/ MoveNewFails(j)
  \/ Rollback(j) \/ RollbackFails(j)

Next ==
  \/ \E j \in Jobs : Work(j)
  \/ Crash
  \/ CharlesSaves \/ CharlesStarts \/ CharlesQuits

Spec == Init /\ [][Next]_vars

----------------------------------------------------------------------------
(* The profiles of Charles are never lost: they are in their place, with a *)
(* job that will put them or new ones back, or in a stage that stays,      *)
(* whatever jobs overlap, fail or crash and whenever Charles runs.         *)
InStage(p) == \E j \in Jobs : jobs[j].dst = p /\ jobs[j].old # Missing

InLeftover(p) == \E s \in left : s.place = p /\ s.tree # Missing

ProfilesNeverLost ==
  profiles["charles"] # Missing \/ InStage("charles") \/ InLeftover("charles")

(* A profiles directory is never left in part: every one in place is one   *)
(* generation, all of it.                                                  *)
ProfilesWhole ==
  \A p \in Places : profiles[p] # Missing =>
    \E g \in Generations : profiles[p] = [i \in 1..NFiles |-> g]

(* Configuration and profiles belong together, those of Charles and those  *)
(* of a backup, except while a job runs, after an error or a crash in one, *)
(* and where the file was copied alone as asked for, or with the profiles  *)
(* from such a place.                                                      *)
MixedOnlyIfReported ==
  ~ reported /\ (\A j \in Jobs : ~ Running(j)) =>
    \A p \in Places \ split :
      profiles[p] = IF config[p] = 0 THEN Missing ELSE [i \in 1..NFiles |-> config[p]]
=============================================================================
