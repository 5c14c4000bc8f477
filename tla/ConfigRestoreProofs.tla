------------------------ MODULE ConfigRestoreProofs ------------------------
(***************************************************************************)
(* Theorems about backups and restores of the files of Charles, for any    *)
(* number of jobs and files and any history of Charles.                    *)
(***************************************************************************)
EXTENDS ConfigRestore, TLAPS

----------------------------------------------------------------------------
(* Where a job is tells what is in its stage: the new directory is whole   *)
(* before anything is moved, and the old one is there only between the     *)
(* renames.                                                                *)

Stages == {"idle", "readConfig", "writeConfig", "copyFiles", "look", "moveOld", "moveNew",
           "rollback", "done", "failed"}

Staged == {"look", "moveOld", "moveNew"}

JobType ==
  [at : Stages, src : Places, dst : Places, both : BOOLEAN, cfg : Generations,
   new : Seq(Generations), old : Trees \cup {Missing}]

IsJob(job) ==
  /\ job.at \in {"readConfig", "writeConfig"} => job.new = Missing
  /\ job.at = "copyFiles" => Len(job.new) < NFiles
  /\ job.at \in Staged => Len(job.new) = NFiles
  /\ job.old # Missing => job.at \in {"moveNew", "rollback"}
  /\ job.at = "rollback" => job.old # Missing

DiskOK ==
  /\ config \in [Places -> Generations]
  /\ profiles \in [Places -> Trees \cup {Missing}]
  /\ jobs \in [Jobs -> JobType]
  /\ generation \in Generations
  /\ \A j \in Jobs : IsJob(jobs[j])

(* A directory of NFiles files is a tree, and not a missing one. *)
LEMMA WholeIsTree ==
  ASSUME ConstantsOK, NEW new \in Seq(Generations), Len(new) = NFiles
  PROVE  new \in Trees /\ new # Missing
BY DEF ConstantsOK, Trees, Missing

LEMMA TreeIsThere ==
  ASSUME ConstantsOK, NEW tree \in Trees
  PROVE  tree \in Seq(Generations) /\ Len(tree) = NFiles /\ tree # Missing
BY DEF ConstantsOK, Trees, Missing

LEMMA NoJobIsJob ==
  ASSUME ConstantsOK
  PROVE  NoJob \in JobType /\ IsJob(NoJob) /\ NoJob.new = Missing /\ NoJob.old = Missing
BY DEF NoJob, JobType, IsJob, Stages, Staged, Places, Missing, Generations, ConstantsOK

LEMMA DiskInit ==
  ASSUME ConstantsOK, Init
  PROVE  DiskOK
<1>1. 0 \in Generations /\ 1 \in Generations
  BY DEF ConstantsOK, Generations
<1>2. [i \in 1..NFiles |-> 1] \in Trees
  BY <1>1 DEF Trees
<1>3. config \in [Places -> Generations] /\ profiles \in [Places -> Trees \cup {Missing}]
  BY <1>1, <1>2 DEF Init
<1>4. QED
  BY <1>1, <1>3, NoJobIsJob DEF Init, DiskOK

(* A job that moves on as its type allows leaves the jobs in order.        *)
LEMMA StepKeepsJobs ==
  ASSUME DiskOK, NEW j \in Jobs, NEW stage, NEW changes \in JobType,
         [changes EXCEPT !.at = stage] \in JobType, IsJob([changes EXCEPT !.at = stage]),
         Step(j, stage, changes)
  PROVE  jobs' \in [Jobs -> JobType] /\ \A i \in Jobs : IsJob(jobs'[i])
BY DEF DiskOK, Step

LEMMA FailKeepsJobs ==
  ASSUME DiskOK, NEW j \in Jobs, Fail(j)
  PROVE  jobs' \in [Jobs -> JobType] /\ \A i \in Jobs : IsJob(jobs'[i])
<1> DEFINE emptied == [jobs[j] EXCEPT !.new = Missing, !.old = Missing]
<1>1. emptied \in JobType /\ [emptied EXCEPT !.at = "failed"] \in JobType
  <2>1. jobs[j] \in JobType
    BY DEF DiskOK
  <2>2. Missing \in Seq(Generations) /\ Missing \in Trees \cup {Missing}
    BY DEF Missing
  <2>3. "failed" \in Stages
    BY DEF Stages
  <2>4. QED
    BY <2>1, <2>2, <2>3 DEF JobType
<1>2. IsJob([emptied EXCEPT !.at = "failed"])
  BY DEF DiskOK, JobType, IsJob, Staged, Missing
<1>3. Step(j, "failed", emptied)
  BY DEF Fail
<1>4. QED
  BY <1>1, <1>2, <1>3, StepKeepsJobs

(* Every step keeps the files and the stages in order.                     *)
LEMMA WorkKeepsDisk ==
  ASSUME ConstantsOK, DiskOK, NEW j \in Jobs, Work(j)
  PROVE  DiskOK'
<1> DEFINE job == jobs[j]
<1>0. job \in JobType /\ IsJob(job)
  BY DEF DiskOK
<1>1. NFiles \in Nat \ {0}
  BY DEF ConstantsOK
<1>a. SUFFICES /\ config' \in [Places -> Generations]
               /\ profiles' \in [Places -> Trees \cup {Missing}]
               /\ jobs' \in [Jobs -> JobType]
               /\ \A i \in Jobs : IsJob(jobs'[i])
  BY DEF DiskOK, Work, Backup, Restore, FailEarly, ReadConfig, WriteConfig, CopyNext, Look, MoveOld,
         MoveNew, MoveNewFails, Rollback, RollbackFails, world
<1>2. CASE Backup(j) \/ Restore(j)
  <2>1. CASE Backup(j)
    <3> DEFINE begun(both) == [NoJob EXCEPT !.at = "readConfig", !.both = both]
    <3>1. \A both \in BOOLEAN : begun(both) \in JobType
      BY NoJobIsJob DEF JobType, Stages
    <3>2. \A both \in BOOLEAN : IsJob(begun(both))
      BY NoJobIsJob DEF JobType, IsJob, Staged
    <3>3. PICK both \in BOOLEAN : jobs' = [jobs EXCEPT ![j] = begun(both)]
      BY <2>1 DEF Backup
    <3>4. QED
      BY <2>1, <3>1, <3>2, <3>3 DEF Backup, files, DiskOK
  <2>2. CASE Restore(j)
    <3> DEFINE begun(both) ==
                 [NoJob EXCEPT !.at = "readConfig", !.src = "backup", !.dst = "charles", !.both = both]
    <3>1. \A both \in BOOLEAN : begun(both) \in JobType
      BY NoJobIsJob DEF JobType, Stages, Places
    <3>2. \A both \in BOOLEAN : IsJob(begun(both))
      BY NoJobIsJob DEF JobType, IsJob, Staged
    <3>3. PICK both \in BOOLEAN : jobs' = [jobs EXCEPT ![j] = begun(both)]
      BY <2>2 DEF Restore
    <3>4. QED
      BY <2>2, <3>1, <3>2, <3>3 DEF Restore, files, DiskOK
  <2>3. QED
    BY <1>2, <2>1, <2>2
<1>3. CASE FailEarly(j)
  BY <1>3, FailKeepsJobs DEF FailEarly, files, DiskOK
<1>4. CASE ReadConfig(j)
  <2>1. CASE config[job.src] = 0
    BY <1>4, <2>1, FailKeepsJobs DEF ReadConfig, files, DiskOK
  <2>2. CASE config[job.src] # 0
    <3> DEFINE read == [job EXCEPT !.cfg = config[job.src]]
    <3>1. read \in JobType /\ [read EXCEPT !.at = "writeConfig"] \in JobType
      BY <1>0 DEF DiskOK, JobType, Stages
    <3>2. IsJob([read EXCEPT !.at = "writeConfig"])
      BY <1>0, <1>4 DEF ReadConfig, At, JobType, IsJob, Staged
    <3>3. Step(j, "writeConfig", read)
      BY <1>4, <2>2 DEF ReadConfig
    <3>4. QED
      BY <1>4, <3>1, <3>2, <3>3, StepKeepsJobs DEF ReadConfig, files, DiskOK
  <2>3. QED
    BY <2>1, <2>2
<1>5. CASE WriteConfig(j)
  <2> DEFINE stage == IF job.both THEN "copyFiles" ELSE "done"
  <2>1. [job EXCEPT !.at = stage] \in JobType
    BY <1>0 DEF JobType, Stages
  <2>2. IsJob([job EXCEPT !.at = stage])
    BY <1>0, <1>1, <1>5 DEF WriteConfig, At, JobType, IsJob, Staged, Missing
  <2>3. job.cfg \in Generations /\ job.dst \in Places
    BY <1>0 DEF JobType
  <2>4. jobs' \in [Jobs -> JobType] /\ \A i \in Jobs : IsJob(jobs'[i])
    BY <1>0, <1>5, <2>1, <2>2, StepKeepsJobs DEF WriteConfig
  <2>5. QED
    BY <1>5, <2>3, <2>4 DEF WriteConfig, DiskOK
<1>6. CASE CopyNext(j)
  <2>1. CASE profiles[job.src] = Missing
    BY <1>6, <2>1, FailKeepsJobs DEF CopyNext, files, DiskOK
  <2>2. CASE profiles[job.src] # Missing
    <3> DEFINE next == Len(job.new) + 1
               stage == IF next = NFiles THEN "look" ELSE "copyFiles"
               copied == [job EXCEPT !.new = Append(@, profiles[job.src][next])]
    <3>1. job.new \in Seq(Generations) /\ Len(job.new) < NFiles /\ job.src \in Places /\ job.old = Missing
      BY <1>0, <1>6 DEF CopyNext, At, JobType, IsJob
    <3>2. profiles[job.src][next] \in Generations
      BY <1>1, <2>2, <3>1 DEF DiskOK, Trees
    <3>3. Append(job.new, profiles[job.src][next]) \in Seq(Generations)
      BY <3>1, <3>2
    <3>4. Len(Append(job.new, profiles[job.src][next])) = next
      BY <3>1, <3>2
    <3>5. copied \in JobType /\ [copied EXCEPT !.at = stage] \in JobType
      BY <1>0, <3>3 DEF JobType, Stages
    <3>6. IsJob([copied EXCEPT !.at = stage])
      BY <1>0, <1>1, <3>1, <3>4 DEF JobType, IsJob, Staged
    <3>7. Step(j, stage, copied)
      BY <1>6, <2>2 DEF CopyNext
    <3>8. QED
      BY <1>6, <3>5, <3>6, <3>7, StepKeepsJobs DEF CopyNext, files, DiskOK
  <2>3. QED
    BY <2>1, <2>2
<1>7. CASE Look(j)
  <2> DEFINE stage == IF profiles[job.dst] = Missing THEN "moveNew" ELSE "moveOld"
  <2>1. [job EXCEPT !.at = stage] \in JobType
    BY <1>0 DEF JobType, Stages
  <2>2. IsJob([job EXCEPT !.at = stage])
    BY <1>0, <1>7 DEF Look, At, JobType, IsJob, Staged
  <2>3. QED
    BY <1>0, <1>7, <2>1, <2>2, StepKeepsJobs DEF Look, files, DiskOK
<1>8. CASE MoveOld(j)
  <2>1. CASE profiles[job.dst] = Missing
    BY <1>8, <2>1, FailKeepsJobs DEF MoveOld, DiskOK
  <2>2. CASE profiles[job.dst] # Missing
    <3> DEFINE moved == [job EXCEPT !.old = profiles[job.dst]]
    <3>1. profiles[job.dst] \in Trees \cup {Missing}
      BY <1>0 DEF DiskOK, JobType
    <3>2. moved \in JobType /\ [moved EXCEPT !.at = "moveNew"] \in JobType
      BY <1>0, <3>1 DEF JobType, Stages
    <3>3. IsJob([moved EXCEPT !.at = "moveNew"])
      BY <1>0, <1>8, <2>2 DEF MoveOld, At, JobType, IsJob, Staged
    <3>4. Step(j, "moveNew", moved)
      BY <1>8, <2>2 DEF MoveOld
    <3>5. QED
      BY <1>8, <2>2, <3>2, <3>3, <3>4, StepKeepsJobs DEF MoveOld, DiskOK
  <2>3. QED
    BY <2>1, <2>2
<1>9. CASE MoveNew(j)
  <2> DEFINE emptied == [job EXCEPT !.new = Missing, !.old = Missing]
  <2>1. job.new \in Trees /\ job.dst \in Places
    BY <1>0, <1>9, WholeIsTree DEF MoveNew, At, JobType, IsJob, Staged
  <2>2. Missing \in Seq(Generations) /\ Missing \in Trees \cup {Missing} /\ "done" \in Stages
    BY DEF Missing, Stages
  <2>3. emptied \in JobType /\ [emptied EXCEPT !.at = "done"] \in JobType
    BY <1>0, <2>2 DEF JobType
  <2>4. IsJob([emptied EXCEPT !.at = "done"])
    BY <1>0 DEF JobType, IsJob, Staged
  <2>5. Step(j, "done", emptied)
    BY <1>9 DEF MoveNew
  <2>6. QED
    BY <1>9, <2>1, <2>3, <2>4, <2>5, StepKeepsJobs DEF MoveNew, DiskOK
<1>10. CASE MoveNewFails(j)
  <2>1. CASE job.old = Missing
    BY <1>10, <2>1, FailKeepsJobs DEF MoveNewFails, files, DiskOK
  <2>2. CASE job.old # Missing
    <3>1. [job EXCEPT !.at = "rollback"] \in JobType
      BY <1>0 DEF JobType, Stages
    <3>2. IsJob([job EXCEPT !.at = "rollback"])
      BY <1>0, <2>2 DEF JobType, IsJob, Staged
    <3>3. Step(j, "rollback", job)
      BY <1>10, <2>2 DEF MoveNewFails
    <3>4. QED
      BY <1>0, <1>10, <3>1, <3>2, <3>3, StepKeepsJobs DEF MoveNewFails, files, DiskOK
  <2>3. QED
    BY <2>1, <2>2
<1>11. CASE Rollback(j)
  <2>1. job.old \in Trees /\ job.dst \in Places
    BY <1>0, <1>11 DEF Rollback, At, JobType, IsJob
  <2>2. QED
    BY <1>11, <2>1, FailKeepsJobs DEF Rollback, DiskOK
<1>12. CASE RollbackFails(j)
  BY <1>12, FailKeepsJobs DEF RollbackFails, DiskOK
<1>13. QED
  BY <1>2, <1>3, <1>4, <1>5, <1>6, <1>7, <1>8, <1>9, <1>10, <1>11, <1>12 DEF Work

LEMMA WorldKeepsDisk ==
  ASSUME ConstantsOK, DiskOK, Crash \/ CharlesSaves \/ CharlesStarts \/ CharlesQuits \/ UNCHANGED vars
  PROVE  DiskOK'
<1>1. CASE Crash
  <2> DEFINE ended == [NoJob EXCEPT !.at = "failed"]
  <2>1. ended \in JobType /\ IsJob(ended)
    BY NoJobIsJob DEF JobType, IsJob, Stages, Staged
  <2>2. jobs' \in [Jobs -> JobType] /\ \A i \in Jobs : IsJob(jobs'[i])
    BY <1>1, <2>1 DEF Crash, DiskOK
  <2>3. QED
    BY <1>1, <2>2 DEF Crash, world, DiskOK
<1>2. CASE CharlesSaves
  <2>1. generation' \in Generations
    BY <1>2 DEF CharlesSaves, DiskOK, Generations, ConstantsOK
  <2>2. [i \in 1..NFiles |-> generation'] \in Trees
    BY <2>1 DEF Trees
  <2>3. QED
    BY <1>2, <2>1, <2>2 DEF CharlesSaves, DiskOK
<1>3. CASE CharlesStarts \/ CharlesQuits \/ UNCHANGED vars
  BY <1>3 DEF CharlesStarts, CharlesQuits, vars, files, DiskOK
<1>4. QED
  BY <1>1, <1>2, <1>3

LEMMA NextKeepsDisk ==
  ASSUME ConstantsOK, DiskOK, [Next]_vars
  PROVE  DiskOK'
BY WorkKeepsDisk, WorldKeepsDisk DEF Next

----------------------------------------------------------------------------
(* What is in the place of the profiles is moved to a stage, from a stage  *)
(* back, and otherwise replaced.                                           *)

LEMMA KeptInit ==
  ASSUME ConstantsOK, Init
  PROVE  ProfilesNeverLost
<1>1. [i \in 1..NFiles |-> 1] \in Trees
  BY DEF Trees, Generations, ConstantsOK
<1>2. profiles["charles"] = [i \in 1..NFiles |-> 1]
  BY DEF Init, Places
<1>3. QED
  BY <1>1, <1>2, TreeIsThere DEF ProfilesNeverLost

(* A job leaves the stages of others, and what was left behind, alone.     *)
LEMMA JobIsAlone ==
  ASSUME DiskOK, NEW j \in Jobs, Work(j)
  PROVE  /\ \A i \in Jobs \ {j} : jobs'[i] = jobs[i]
         /\ left \subseteq left'
<1>1. \A i \in Jobs \ {j} : jobs'[i] = jobs[i]
  BY DEF DiskOK, Work, Backup, Restore, FailEarly, ReadConfig, WriteConfig, CopyNext, Look, MoveOld,
         MoveNew, MoveNewFails, Rollback, RollbackFails, Fail, Step
<1>2. left \subseteq left'
  BY DEF Work, Backup, Restore, FailEarly, ReadConfig, WriteConfig, CopyNext, Look, MoveOld,
         MoveNew, MoveNewFails, Rollback, RollbackFails, files
<1>3. QED
  BY <1>1, <1>2

LEMMA WorkKeepsProfiles ==
  ASSUME ConstantsOK, DiskOK, DiskOK', ProfilesNeverLost, NEW j \in Jobs, Work(j)
  PROVE  ProfilesNeverLost'
<1> DEFINE job == jobs[j]
<1>0. job \in JobType /\ IsJob(job)
  BY DEF DiskOK
<1>1. CASE job.dst = "charles" /\ job.old # Missing
  <2>1. job.at \in {"moveNew", "rollback"}
    BY <1>0, <1>1 DEF IsJob
  <2>2. CASE MoveNew(j)
    <3>1. job.new # Missing
      BY <1>0, <2>2, WholeIsTree DEF MoveNew, At, JobType, IsJob, Staged
    <3>2. QED
      BY <1>1, <2>2, <3>1 DEF MoveNew, DiskOK, ProfilesNeverLost, Places
  <2>3. CASE MoveNewFails(j)
    <3>1. jobs'[j].dst = job.dst /\ jobs'[j].old = job.old
      BY <1>0, <1>1, <2>3 DEF MoveNewFails, Step, DiskOK, JobType
    <3>2. QED
      BY <1>1, <3>1 DEF ProfilesNeverLost, InStage
  <2>4. CASE Rollback(j)
    BY <1>1, <2>4 DEF Rollback, DiskOK, ProfilesNeverLost, Places
  <2>5. CASE RollbackFails(j)
    <3> DEFINE rest == [place |-> job.dst, tree |-> job.old]
    <3>1. rest \in left' /\ rest.place = "charles" /\ rest.tree # Missing
      BY <1>1, <2>5 DEF RollbackFails
    <3>2. QED
      BY <3>1 DEF ProfilesNeverLost, InLeftover
  <2>6. QED
    BY <2>1, <2>2, <2>3, <2>4, <2>5
    DEF Work, Backup, Restore, MayBegin, FailEarly, ReadConfig, WriteConfig, CopyNext, Look, MoveOld, At
<1>2. CASE ~ (job.dst = "charles" /\ job.old # Missing)
  <2>1. CASE InStage("charles") \/ InLeftover("charles")
    BY <1>2, <2>1, JobIsAlone DEF InStage, InLeftover, ProfilesNeverLost
  <2>2. CASE profiles["charles"] # Missing
    <3>1. CASE MoveOld(j) /\ job.dst = "charles"
      <4>1. Step(j, "moveNew", [job EXCEPT !.old = profiles[job.dst]])
        BY <2>2, <3>1 DEF MoveOld
      <4>2. jobs'[j].dst = "charles" /\ jobs'[j].old = profiles["charles"]
        BY <1>0, <3>1, <4>1 DEF Step, DiskOK, JobType
      <4>3. QED
        BY <2>2, <4>2 DEF ProfilesNeverLost, InStage
    <3>2. CASE MoveOld(j) /\ job.dst # "charles"
      <4>1. profiles' = profiles \/ profiles' = [profiles EXCEPT ![job.dst] = Missing]
        BY <3>2 DEF MoveOld
      <4>2. QED
        BY <2>2, <3>2, <4>1 DEF DiskOK, ProfilesNeverLost, Places
    <3>3. CASE MoveNew(j)
      <4>1. job.new # Missing
        BY <1>0, <3>3, WholeIsTree DEF MoveNew, At, JobType, IsJob, Staged
      <4>2. QED
        BY <2>2, <3>3, <4>1 DEF MoveNew, DiskOK, ProfilesNeverLost, Places
    <3>4. CASE Rollback(j)
      <4>1. job.old # Missing
        BY <1>0, <3>4 DEF Rollback, At, IsJob
      <4>2. QED
        BY <2>2, <3>4, <4>1 DEF Rollback, DiskOK, ProfilesNeverLost, Places
    <3>5. CASE UNCHANGED profiles
      BY <2>2, <3>5 DEF ProfilesNeverLost
    <3>6. QED
      BY <3>1, <3>2, <3>3, <3>4, <3>5
      DEF Work, Backup, Restore, FailEarly, ReadConfig, WriteConfig, CopyNext, Look, MoveNewFails,
          RollbackFails, files
  <2>3. QED
    BY <2>1, <2>2 DEF ProfilesNeverLost
<1>3. QED
  BY <1>1, <1>2

LEMMA WorldKeepsProfiles ==
  ASSUME ConstantsOK, DiskOK, DiskOK', ProfilesNeverLost,
         Crash \/ CharlesSaves \/ CharlesStarts \/ CharlesQuits \/ UNCHANGED vars
  PROVE  ProfilesNeverLost'
<1>1. CASE Crash
  <2>1. CASE InStage("charles")
    <3>1. PICK j \in Jobs : jobs[j].dst = "charles" /\ jobs[j].old # Missing
      BY <2>1 DEF InStage
    <3> DEFINE rest == [place |-> jobs[j].dst, tree |-> jobs[j].old]
    <3>2. rest \in left' /\ rest.place = "charles" /\ rest.tree # Missing
      BY <1>1, <3>1 DEF Crash
    <3>3. QED
      BY <3>2 DEF ProfilesNeverLost, InLeftover
  <2>2. QED
    BY <1>1, <2>1 DEF Crash, ProfilesNeverLost, InLeftover
<1>2. CASE CharlesSaves
  <2>1. [i \in 1..NFiles |-> generation'] \in Trees
    BY DEF DiskOK, Trees
  <2>2. [i \in 1..NFiles |-> generation'] # Missing
    BY <2>1, TreeIsThere
  <2>3. QED
    BY <1>2, <2>2 DEF CharlesSaves, DiskOK, ProfilesNeverLost, Places
<1>3. CASE CharlesStarts \/ CharlesQuits \/ UNCHANGED vars
  BY <1>3 DEF CharlesStarts, CharlesQuits, vars, files, ProfilesNeverLost, InStage, InLeftover
<1>4. QED
  BY <1>1, <1>2, <1>3

(* The profiles of Charles are never lost, whatever jobs overlap, fail or  *)
(* crash, and whenever Charles runs and writes.                            *)
THEOREM ProfilesAreKept ==
  ASSUME ConstantsOK
  PROVE  Spec => []ProfilesNeverLost
<1>1. DiskOK /\ ProfilesNeverLost /\ [Next]_vars => (DiskOK /\ ProfilesNeverLost)'
  BY NextKeepsDisk, WorkKeepsProfiles, WorldKeepsProfiles DEF Next
<1>2. QED
  BY <1>1, DiskInit, KeptInit, PTL DEF Spec

----------------------------------------------------------------------------
(* Jobs one after the other, with nobody writing under them: the source of *)
(* a job stays as it was, so what a job has copied is a part of it.        *)

Alone == Faults \cap {"overlap", "edit"} = {}

Uniform(g) == [i \in 1..NFiles |-> g]

IsWhole(tree) == tree = Missing \/ \E g \in Generations : tree = Uniform(g)

OneRuns == \A i, j \in Jobs : Running(i) /\ Running(j) => i = j

(* The new directory holds the first files of the source.                  *)
IsCopy(job, tree) == \A i \in 1..Len(job.new) : tree # Missing /\ job.new[i] = tree[i]

Copies ==
  \A j \in Jobs : Running(j) =>
    /\ jobs[j].src # jobs[j].dst
    /\ IsCopy(jobs[j], profiles[jobs[j].src])
    /\ IsWhole(jobs[j].old)

WholeOK ==
  /\ DiskOK
  /\ OneRuns
  /\ Copies
  /\ \A p \in Places : IsWhole(profiles[p])

LEMMA WholeIsEnough ==
  ASSUME WholeOK
  PROVE  ProfilesWhole
BY DEF WholeOK, IsWhole, Uniform, ProfilesWhole

LEMMA WholeInit ==
  ASSUME ConstantsOK, Init
  PROVE  WholeOK
<1>1. 1 \in Generations
  BY DEF ConstantsOK, Generations
<1>2. \A p \in Places : IsWhole(profiles[p])
  BY <1>1 DEF Init, IsWhole, Uniform
<1>3. \A j \in Jobs : ~ Running(j)
  BY DEF Init, Running, Ended, NoJob
<1>4. QED
  BY <1>2, <1>3, DiskInit DEF WholeOK, OneRuns, Copies

LEMMA OneWorks ==
  ASSUME Alone, DiskOK, OneRuns, NEW j \in Jobs, Work(j)
  PROVE  \A i \in Jobs \ {j} : ~ Running(i) /\ ~ Running(i)' /\ jobs'[i] = jobs[i]
<1>1. Running(j) \/ \A i \in Jobs : ~ Running(i)
  BY DEF Alone, Work, Backup, Restore, MayBegin, FailEarly, ReadConfig, WriteConfig, CopyNext, Look,
         MoveOld, MoveNew, MoveNewFails, Rollback, RollbackFails, At, Running, Ended
<1>2. QED
  BY <1>1, JobIsAlone DEF OneRuns, Running

(* A copy of all the files of a directory is that directory.               *)
LEMMA CopyIsSource ==
  ASSUME ConstantsOK, NEW job \in JobType, Len(job.new) = NFiles,
         NEW tree \in Trees \cup {Missing}, IsCopy(job, tree)
  PROVE  job.new = tree
<1>1. job.new \in Seq(Generations) /\ 1 \in 1..NFiles
  BY DEF JobType, ConstantsOK
<1>2. tree \in [1..NFiles -> Generations]
  BY <1>1 DEF IsCopy, Trees
<1>3. job.new \in [1..NFiles -> Generations]
  BY <1>1, WholeIsTree DEF Trees
<1>4. QED
  BY <1>2, <1>3 DEF IsCopy

LEMMA WorkKeepsWhole ==
  ASSUME ConstantsOK, Alone, WholeOK, NEW j \in Jobs, Work(j)
  PROVE  WholeOK'
<1> DEFINE job == jobs[j]
<1>0. DiskOK /\ DiskOK' /\ job \in JobType /\ IsJob(job) /\ jobs'[j] \in JobType
  BY WorkKeepsDisk DEF WholeOK, DiskOK
<1>1. \A i \in Jobs \ {j} : ~ Running(i) /\ ~ Running(i)' /\ jobs'[i] = jobs[i]
  BY OneWorks DEF WholeOK
<1>2. OneRuns'
  BY <1>1 DEF OneRuns, Running
<1>3. Running(j) => /\ job.src # job.dst
                    /\ IsCopy(job, profiles[job.src])
                    /\ IsWhole(job.old)
  BY DEF WholeOK, Copies
<1> DEFINE copies == Running(j)' => /\ jobs'[j].src # jobs'[j].dst
                                    /\ IsCopy(jobs'[j], profiles'[jobs'[j].src])
                                    /\ IsWhole(jobs'[j].old)
           whole == \A p \in Places : IsWhole(profiles'[p])
<1>a. SUFFICES copies /\ whole
  BY <1>0, <1>1, <1>2 DEF WholeOK, Copies, Running
<1>4. ASSUME profiles' = profiles
      PROVE  whole
  BY <1>4 DEF WholeOK
<1>5. ASSUME Fail(j)
      PROVE  copies
  <2>1. jobs'[j].at = "failed"
    BY <1>0, <1>5 DEF Fail, Step, DiskOK, JobType
  <2>2. QED
    BY <2>1 DEF Running, Ended
<1>6. CASE Backup(j) \/ Restore(j)
  <2>1. jobs'[j].src # jobs'[j].dst /\ jobs'[j].new = Missing /\ jobs'[j].old = Missing
    <3>1. CASE Backup(j)
      BY <1>0, <3>1 DEF Backup, DiskOK, NoJob
    <3>2. CASE Restore(j)
      BY <1>0, <3>2 DEF Restore, DiskOK, NoJob
    <3>3. QED
      BY <1>6, <3>1, <3>2
  <2>2. IsCopy(jobs'[j], profiles'[jobs'[j].src]) /\ IsWhole(jobs'[j].old)
    BY <2>1 DEF IsCopy, IsWhole, Missing
  <2>3. QED
    BY <1>4, <1>6, <2>1, <2>2 DEF Backup, Restore, files
<1>7. CASE FailEarly(j)
  BY <1>4, <1>5, <1>7 DEF FailEarly, files
(* What is in the stage, and the source, are as they were.                 *)
<1>8. ASSUME Running(j), profiles' = profiles,
             jobs'[j].src = job.src, jobs'[j].dst = job.dst,
             jobs'[j].new = job.new, jobs'[j].old = job.old
      PROVE  copies /\ whole
  BY <1>3, <1>4, <1>8 DEF IsCopy
<1>9. CASE ReadConfig(j)
  <2>1. CASE config[job.src] = 0
    BY <1>4, <1>5, <1>9, <2>1 DEF ReadConfig, files
  <2>2. CASE config[job.src] # 0
    <3>1. Step(j, "writeConfig", [job EXCEPT !.cfg = config[job.src]])
      BY <1>9, <2>2 DEF ReadConfig
    <3>2. jobs'[j] = [[job EXCEPT !.cfg = config[job.src]] EXCEPT !.at = "writeConfig"]
      BY <1>0, <3>1 DEF Step, DiskOK
    <3>3. QED
      BY <1>0, <1>8, <1>9, <3>2 DEF ReadConfig, At, Running, Ended, files, JobType
  <2>3. QED
    BY <2>1, <2>2
<1>10. CASE WriteConfig(j) \/ Look(j)
  <2>1. Running(j) /\ profiles' = profiles
    BY <1>10 DEF WriteConfig, Look, At, Running, Ended, files
  <2>2. PICK stage \in Stages : Step(j, stage, job)
    BY <1>10 DEF WriteConfig, Look, Stages
  <2>3. /\ jobs'[j].src = job.src /\ jobs'[j].dst = job.dst
        /\ jobs'[j].new = job.new /\ jobs'[j].old = job.old
    BY <1>0, <2>2 DEF Step, DiskOK, JobType
  <2>4. QED
    BY <1>8, <2>1, <2>3
<1>11. CASE CopyNext(j)
  <2>1. CASE profiles[job.src] = Missing
    BY <1>4, <1>5, <1>11, <2>1 DEF CopyNext, files
  <2>2. CASE profiles[job.src] # Missing
    <3> DEFINE next == Len(job.new) + 1
    <3>1. Running(j) /\ profiles' = profiles
      BY <1>11 DEF CopyNext, At, Running, Ended, files
    <3>2. /\ jobs'[j].src = job.src /\ jobs'[j].dst = job.dst /\ jobs'[j].old = job.old
          /\ jobs'[j].new = Append(job.new, profiles[job.src][next])
      BY <1>0, <1>11, <2>2 DEF CopyNext, Step, DiskOK, JobType
    <3>3. job.new \in Seq(Generations)
      BY <1>0 DEF JobType
    <3>4. ASSUME NEW i \in 1..Len(jobs'[j].new)
          PROVE  jobs'[j].new[i] = profiles[job.src][i]
      <4>1. CASE i <= Len(job.new)
        BY <1>3, <3>1, <3>2, <3>3, <3>4, <4>1 DEF IsCopy
      <4>2. CASE i = next
        BY <3>2, <3>3, <4>2
      <4>3. QED
        BY <3>2, <3>3, <3>4, <4>1, <4>2
    <3>5. IsCopy(jobs'[j], profiles'[jobs'[j].src])
      BY <2>2, <3>1, <3>2, <3>4 DEF IsCopy
    <3>6. QED
      BY <1>3, <1>4, <3>1, <3>2, <3>5
  <2>3. QED
    BY <2>1, <2>2
<1>12. CASE MoveOld(j)
  <2>1. CASE profiles[job.dst] = Missing
    BY <1>4, <1>5, <1>12, <2>1 DEF MoveOld
  <2>2. CASE profiles[job.dst] # Missing
    <3>1. Running(j) /\ job.dst \in Places /\ job.src \in Places
      BY <1>0, <1>12 DEF MoveOld, At, Running, Ended, JobType
    <3>2. profiles' = [profiles EXCEPT ![job.dst] = Missing]
      BY <1>12, <2>2 DEF MoveOld
    <3>3. /\ jobs'[j].src = job.src /\ jobs'[j].dst = job.dst /\ jobs'[j].new = job.new
          /\ jobs'[j].old = profiles[job.dst]
      <4>1. Step(j, "moveNew", [job EXCEPT !.old = profiles[job.dst]])
        BY <1>12, <2>2 DEF MoveOld
      <4>2. jobs'[j] = [[job EXCEPT !.old = profiles[job.dst]] EXCEPT !.at = "moveNew"]
        BY <1>0, <4>1 DEF Step, DiskOK
      <4>3. QED
        BY <1>0, <4>2 DEF JobType
    <3>4. profiles'[job.src] = profiles[job.src]
      BY <1>0, <1>3, <3>1, <3>2 DEF DiskOK
    <3>5. copies
      BY <1>3, <3>1, <3>3, <3>4 DEF WholeOK, IsCopy
    <3>6. whole
      BY <1>0, <3>2 DEF WholeOK, DiskOK, IsWhole
    <3>7. QED
      BY <3>5, <3>6
  <2>3. QED
    BY <2>1, <2>2
<1>13. CASE MoveNew(j)
  <2>1. Running(j) /\ Len(job.new) = NFiles /\ job.src \in Places
    BY <1>0, <1>13 DEF MoveNew, At, Running, Ended, IsJob, Staged, JobType
  <2>2. profiles[job.src] \in Trees \cup {Missing} /\ IsWhole(profiles[job.src])
    BY <1>0, <2>1 DEF DiskOK, WholeOK
  <2>3. IsWhole(job.new)
    BY <1>0, <1>3, <2>1, <2>2, CopyIsSource
  <2>4. whole
    BY <1>0, <1>13, <2>3 DEF MoveNew, DiskOK, WholeOK
  <2>5. jobs'[j].at = "done"
    BY <1>0, <1>13 DEF MoveNew, Step, DiskOK, JobType
  <2>6. QED
    BY <2>4, <2>5 DEF Running, Ended
<1>14. CASE MoveNewFails(j)
  <2>1. CASE job.old = Missing
    BY <1>4, <1>5, <1>14, <2>1 DEF MoveNewFails, files
  <2>2. CASE job.old # Missing
    BY <1>0, <1>8, <1>14, <2>2 DEF MoveNewFails, At, Running, Ended, files, Step, DiskOK, JobType
  <2>3. QED
    BY <2>1, <2>2
<1>15. CASE Rollback(j)
  <2>1. IsWhole(job.old)
    BY <1>3, <1>15 DEF Rollback, At, Running, Ended
  <2>2. whole
    BY <1>0, <1>15, <2>1 DEF Rollback, DiskOK, WholeOK
  <2>3. QED
    BY <1>5, <1>15, <2>2 DEF Rollback
<1>16. CASE RollbackFails(j)
  BY <1>4, <1>5, <1>16 DEF RollbackFails
<1>17. QED
  BY <1>6, <1>7, <1>9, <1>10, <1>11, <1>12, <1>13, <1>14, <1>15, <1>16 DEF Work

LEMMA WorldKeepsWhole ==
  ASSUME ConstantsOK, Alone, WholeOK,
         Crash \/ CharlesSaves \/ CharlesStarts \/ CharlesQuits \/ UNCHANGED vars
  PROVE  WholeOK'
<1>1. DiskOK'
  BY WorldKeepsDisk DEF WholeOK
<1>2. CASE Crash
  <2>1. \A j \in Jobs : ~ Running(j)'
    BY <1>2 DEF Crash, Running, Ended, NoJob
  <2>2. QED
    BY <1>1, <1>2, <2>1 DEF Crash, WholeOK, OneRuns, Copies
<1>3. CASE CharlesSaves
  <2>1. \A j \in Jobs : ~ Running(j)'
    BY <1>3 DEF CharlesSaves, Alone, Running
  <2>2. IsWhole([i \in 1..NFiles |-> generation'])
    BY <1>1 DEF DiskOK, IsWhole, Uniform
  <2>3. \A p \in Places : IsWhole(profiles'[p])
    BY <1>3, <2>2 DEF CharlesSaves, WholeOK, DiskOK
  <2>4. QED
    BY <1>1, <2>1, <2>3 DEF WholeOK, OneRuns, Copies
<1>4. CASE CharlesStarts \/ CharlesQuits \/ UNCHANGED vars
  BY <1>1, <1>4 DEF CharlesStarts, CharlesQuits, vars, files, WholeOK, OneRuns, Copies, Running
<1>5. QED
  BY <1>2, <1>3, <1>4

(* Jobs that do not overlap, and under which Charles does not write, leave *)
(* no directory in part, however they fail or crash.                       *)
THEOREM ProfilesAreWhole ==
  ASSUME ConstantsOK, Alone
  PROVE  Spec => []ProfilesWhole
<1>1. WholeOK /\ [Next]_vars => WholeOK'
  BY WorkKeepsWhole, WorldKeepsWhole DEF Next
<1>2. QED
  BY <1>1, WholeInit, WholeIsEnough, PTL DEF Spec

----------------------------------------------------------------------------
(* As long as no error was reported, the source of a job is a matching     *)
(* pair, unless its file was copied alone, and the job has given its       *)
(* destination the file of the source before it gives it the profiles.     *)

IsPair(file, tree) == tree = IF file = 0 THEN Missing ELSE Uniform(file)

Fits(p) == p \in split \/ IsPair(config[p], profiles[p])

Given(job) ==
  /\ Fits(job.src)
  /\ job.at = "writeConfig" => job.cfg = config[job.src]
  /\ job.at \in {"copyFiles", "look", "moveOld", "moveNew"} => config[job.dst] = config[job.src]

Paired ==
  ~ reported =>
    /\ \A j \in Jobs : Running(j) => Given(jobs[j])
    /\ (\A j \in Jobs : ~ Running(j)) => \A p \in Places : Fits(p)

LEMMA PairedIsEnough ==
  ASSUME Paired
  PROVE  MixedOnlyIfReported
BY DEF Paired, Fits, IsPair, Uniform, MixedOnlyIfReported

LEMMA PairedInit ==
  ASSUME ConstantsOK, Init
  PROVE  Paired
<1>1. \A j \in Jobs : ~ Running(j)
  BY DEF Init, Running, Ended, NoJob
<1>2. \A p \in Places : config[p] \in {0, 1}
  BY DEF Init, Places
<1>3. \A p \in Places : profiles[p] = IF config[p] = 1 THEN Uniform(1) ELSE Missing
  BY DEF Init, Uniform
<1>4. \A p \in Places : Fits(p)
  BY <1>2, <1>3 DEF Fits, IsPair
<1>5. QED
  BY <1>1, <1>4 DEF Paired

LEMMA WorkKeepsPaired ==
  ASSUME ConstantsOK, Alone, WholeOK, Paired, NEW j \in Jobs, Work(j), ~ reported'
  PROVE  Paired'
<1> DEFINE job == jobs[j]
<1>0. DiskOK /\ job \in JobType /\ IsJob(job) /\ job.src \in Places /\ job.dst \in Places
  BY DEF WholeOK, DiskOK, JobType
<1>1. \A i \in Jobs \ {j} : ~ Running(i) /\ ~ Running(i)' /\ jobs'[i] = jobs[i]
  BY <1>0, OneWorks DEF WholeOK
<1>2. ~ reported
  BY DEF Work, Backup, Restore, FailEarly, ReadConfig, WriteConfig, CopyNext, Look,
         MoveOld, MoveNew, MoveNewFails, Rollback, RollbackFails, Fail
<1>3. ~ Fail(j)
  BY DEF Fail
<1>4. Running(j) => Given(job) /\ job.src # job.dst
  BY <1>2 DEF Paired, WholeOK, Copies
<1>5. ASSUME Running(j)', Given(jobs[j])'
      PROVE  Paired'
  BY <1>1, <1>5 DEF Paired
<1>6. CASE Backup(j) \/ Restore(j)
  <2>1. job.at = "idle" /\ ~ Running(j) /\ config' = config /\ profiles' = profiles /\ split' = split
    BY <1>6 DEF Backup, Restore, MayBegin, At, Running, Ended, files
  <2>2. \A p \in Places : Fits(p)
    BY <1>1, <1>2, <2>1 DEF Paired
  <2>3. jobs'[j].at = "readConfig" /\ jobs'[j].src \in Places
    <3>1. CASE Backup(j)
      BY <1>0, <3>1 DEF Backup, DiskOK, NoJob, Places
    <3>2. CASE Restore(j)
      BY <1>0, <3>2 DEF Restore, DiskOK, NoJob, Places
    <3>3. QED
      BY <1>6, <3>1, <3>2
  <2>4. Running(j)' /\ Given(jobs[j])'
    BY <2>1, <2>2, <2>3 DEF Running, Ended, Given, Fits
  <2>5. QED
    BY <1>5, <2>4
<1>7. CASE ReadConfig(j)
  <2>1. Step(j, "writeConfig", [job EXCEPT !.cfg = config[job.src]])
    BY <1>3, <1>7 DEF ReadConfig
  <2>2. jobs'[j] = [[job EXCEPT !.cfg = config[job.src]] EXCEPT !.at = "writeConfig"]
    BY <1>0, <2>1 DEF Step, DiskOK
  <2>3. jobs'[j].at = "writeConfig" /\ jobs'[j].cfg = config[job.src] /\ jobs'[j].src = job.src
    BY <1>0, <2>2 DEF JobType
  <2>4. Running(j) /\ config' = config /\ profiles' = profiles /\ split' = split
    BY <1>7 DEF ReadConfig, At, Running, Ended, files
  <2>5. Running(j)' /\ Given(jobs[j])'
    BY <1>4, <2>3, <2>4 DEF Running, Ended, Given, Fits
  <2>6. QED
    BY <1>5, <2>5
<1>8. CASE WriteConfig(j)
  <2> DEFINE stage == IF job.both THEN "copyFiles" ELSE "done"
  <2>1. jobs'[j].at = stage /\ jobs'[j].src = job.src /\ jobs'[j].dst = job.dst
    BY <1>0, <1>8 DEF WriteConfig, Step, DiskOK, JobType
  <2>2. Running(j) /\ config' = [config EXCEPT ![job.dst] = job.cfg] /\ profiles' = profiles
    BY <1>8 DEF WriteConfig, At, Running, Ended
  <2>3. Given(job) /\ job.src # job.dst /\ job.cfg = config[job.src]
    BY <1>4, <1>8, <2>2 DEF WriteConfig, At, Given
  <2>4. config'[job.dst] = config[job.src] /\ config'[job.src] = config[job.src]
    BY <1>0, <2>2, <2>3 DEF DiskOK
  <2>5. \A p \in Places : p = job.src => Fits(p)'
    <3>1. split \subseteq split'
      BY <1>8 DEF WriteConfig
    <3>2. QED
      BY <2>2, <2>3, <2>4, <3>1 DEF Given, Fits
  <2>6. CASE job.both
    <3>1. Running(j)' /\ jobs'[j].at = "copyFiles"
      BY <2>1, <2>6 DEF Running, Ended
    <3>2. Given(jobs[j])'
      BY <1>0, <2>1, <2>4, <2>5, <3>1 DEF Given
    <3>3. QED
      BY <1>5, <3>1, <3>2
  <2>7. CASE ~ job.both
    <3>1. job.dst \in split'
      BY <1>8, <2>7 DEF WriteConfig
    <3>2. \A p \in Places : Fits(p)'
      BY <1>0, <2>3, <2>5, <3>1 DEF Fits, Places
    <3>3. \A i \in Jobs : ~ Running(i)'
      BY <1>1, <2>1, <2>7 DEF Running, Ended
    <3>4. QED
      BY <3>2, <3>3 DEF Paired
  <2>8. QED
    BY <2>6, <2>7
(* The job goes on to a stage in which its destination has the file.       *)
<1>9. ASSUME Running(j), config' = config, profiles'[job.src] = profiles[job.src], split' = split,
             job.at \in {"copyFiles", "look", "moveOld", "moveNew"},
             jobs'[j].at \in {"copyFiles", "look", "moveOld", "moveNew", "rollback"},
             jobs'[j].src = job.src, jobs'[j].dst = job.dst
      PROVE  Paired'
  <2>1. Running(j)' /\ Given(jobs[j])'
    BY <1>4, <1>9 DEF Running, Ended, Given, Fits
  <2>2. QED
    BY <1>5, <2>1
<1>10. CASE CopyNext(j)
  <2>1. /\ jobs'[j].at \in {"copyFiles", "look"}
        /\ jobs'[j].src = job.src /\ jobs'[j].dst = job.dst
    BY <1>0, <1>3, <1>10 DEF CopyNext, Step, DiskOK, JobType
  <2>2. QED
    BY <1>9, <1>10, <2>1 DEF CopyNext, At, Running, Ended, files
<1>11. CASE Look(j)
  <2>1. /\ jobs'[j].at \in {"moveOld", "moveNew"}
        /\ jobs'[j].src = job.src /\ jobs'[j].dst = job.dst
    BY <1>0, <1>11 DEF Look, Step, DiskOK, JobType
  <2>2. QED
    BY <1>9, <1>11, <2>1 DEF Look, At, Running, Ended, files
<1>12. CASE MoveOld(j)
  <2>1. profiles' = [profiles EXCEPT ![job.dst] = Missing] /\ config' = config /\ split' = split /\ Running(j)
    BY <1>3, <1>12 DEF MoveOld, At, Running, Ended
  <2>2. Step(j, "moveNew", [job EXCEPT !.old = profiles[job.dst]])
    BY <1>3, <1>12 DEF MoveOld
  <2>3. jobs'[j].at = "moveNew" /\ jobs'[j].src = job.src /\ jobs'[j].dst = job.dst
    BY <1>0, <2>2 DEF Step, DiskOK, JobType
  <2>4. profiles'[job.src] = profiles[job.src]
    BY <1>0, <1>4, <2>1 DEF DiskOK
  <2>5. QED
    BY <1>9, <1>12, <2>1, <2>3, <2>4 DEF MoveOld, At
<1>13. CASE MoveNew(j)
  <2>1. Running(j) /\ Len(job.new) = NFiles /\ job.at = "moveNew"
    BY <1>0, <1>13 DEF MoveNew, At, Running, Ended, IsJob, Staged
  <2>2. profiles[job.src] \in Trees \cup {Missing} /\ IsCopy(job, profiles[job.src])
    BY <1>0, <2>1 DEF DiskOK, WholeOK, Copies
  <2>3. job.new = profiles[job.src]
    BY <1>0, <2>1, <2>2, CopyIsSource
  <2>4. Given(job) /\ job.src # job.dst /\ config[job.dst] = config[job.src]
    BY <1>4, <2>1 DEF Given
  <2>5. profiles' = [profiles EXCEPT ![job.dst] = job.new] /\ config' = config
    BY <1>13 DEF MoveNew
  <2>6. profiles'[job.src] = profiles[job.src] /\ profiles'[job.dst] = profiles[job.src]
    BY <1>0, <2>3, <2>4, <2>5 DEF DiskOK
  <2>7. CASE job.src \in split
    <3>1. job.src \in split' /\ job.dst \in split'
      BY <1>13, <2>7 DEF MoveNew
    <3>2. QED
      BY <1>0, <1>1, <1>13, <2>4, <3>1
      DEF Paired, Fits, Places, MoveNew, Step, DiskOK, JobType, Running, Ended
  <2>8. CASE job.src \notin split
    <3>1. IsPair(config[job.src], profiles[job.src])
      BY <2>4, <2>8 DEF Given, Fits
    <3>2. \A p \in {job.src, job.dst} : IsPair(config'[p], profiles'[p])
      BY <2>4, <2>5, <2>6, <3>1
    <3>3. \A p \in Places : Fits(p)'
      BY <1>0, <2>4, <3>2 DEF Fits, Places
    <3>4. jobs'[j].at = "done"
      BY <1>0, <1>13 DEF MoveNew, Step, DiskOK, JobType
    <3>5. \A i \in Jobs : ~ Running(i)'
      BY <1>1, <3>4 DEF Running, Ended
    <3>6. QED
      BY <3>3, <3>5 DEF Paired
  <2>9. QED
    BY <2>7, <2>8
<1>14. CASE MoveNewFails(j)
  <2>1. Step(j, "rollback", job) /\ config' = config /\ profiles' = profiles /\ split' = split /\ Running(j)
    BY <1>3, <1>14 DEF MoveNewFails, At, Running, Ended, files
  <2>2. jobs'[j].at = "rollback" /\ jobs'[j].src = job.src /\ jobs'[j].dst = job.dst
    BY <1>0, <2>1 DEF Step, DiskOK, JobType
  <2>3. QED
    BY <1>9, <1>14, <2>1, <2>2 DEF MoveNewFails, At
<1>15. CASE FailEarly(j) \/ Rollback(j) \/ RollbackFails(j)
  BY <1>3, <1>15 DEF FailEarly, Rollback, RollbackFails
<1>16. QED
  BY <1>6, <1>7, <1>8, <1>10, <1>11, <1>12, <1>13, <1>14, <1>15 DEF Work

LEMMA WorldKeepsPaired ==
  ASSUME ConstantsOK, Alone, WholeOK, Paired, ~ reported',
         Crash \/ CharlesSaves \/ CharlesStarts \/ CharlesQuits \/ UNCHANGED vars
  PROVE  Paired'
<1>1. ~ Crash
  BY DEF Crash
<1>2. CASE CharlesSaves
  <2>1. \A j \in Jobs : ~ Running(j) /\ ~ Running(j)'
    BY <1>2 DEF CharlesSaves, Alone, Running
  <2>2. generation' # 0
    BY <1>2 DEF CharlesSaves, WholeOK, DiskOK, Generations, ConstantsOK
  <2>3. Fits("charles")'
    BY <1>2, <2>2 DEF CharlesSaves, WholeOK, DiskOK, Places, Fits, IsPair, Uniform
  <2>4. /\ config'["backup"] = config["backup"] /\ profiles'["backup"] = profiles["backup"]
        /\ "backup" \in split => "backup" \in split'
    BY <1>2 DEF CharlesSaves, WholeOK, DiskOK, Places
  <2>5. Fits("backup")'
    BY <1>2, <2>1, <2>4 DEF CharlesSaves, Paired, Fits, Places
  <2>6. QED
    BY <2>1, <2>3, <2>5 DEF Paired, Places
<1>3. CASE CharlesStarts \/ CharlesQuits \/ UNCHANGED vars
  BY <1>3 DEF CharlesStarts, CharlesQuits, vars, files, Paired, Running, Given, Fits
<1>4. QED
  BY <1>1, <1>2, <1>3

(* Jobs that do not overlap, and under which Charles does not write, leave *)
(* configuration and profiles of one generation, unless an error says that *)
(* they do not or the file was copied alone as asked for.                  *)
THEOREM MixesAreReported ==
  ASSUME ConstantsOK, Alone
  PROVE  Spec => []MixedOnlyIfReported
<1>1. WholeOK /\ Paired /\ [Next]_vars => (WholeOK /\ Paired)'
  <2>1. WholeOK /\ [Next]_vars => WholeOK'
    BY WorkKeepsWhole, WorldKeepsWhole DEF Next
  <2>2. ASSUME WholeOK, Paired, [Next]_vars
        PROVE  Paired'
    <3>1. CASE reported'
      BY <3>1 DEF Paired
    <3>2. ASSUME ~ reported', NEW j \in Jobs, Work(j)
          PROVE  Paired'
      BY <2>2, <3>2, WorkKeepsPaired
    <3>3. CASE /\ ~ reported'
               /\ Crash \/ CharlesSaves \/ CharlesStarts \/ CharlesQuits \/ UNCHANGED vars
      BY <2>2, <3>3, WorldKeepsPaired
    <3>4. QED
      BY <2>2, <3>1, <3>2, <3>3 DEF Next
  <2>3. QED
    BY <2>1, <2>2
<1>2. QED
  BY <1>1, WholeInit, PairedInit, PairedIsEnough, PTL DEF Spec
=============================================================================
