--------------------------- MODULE PublishProofs ---------------------------
(***************************************************************************)
(* For any number of processes and inodes: type correctness of Publish, the *)
(* completeness of index.db and its backup, the action properties about      *)
(* index.db that a server relies on and about the backup that a user relies   *)
(* on, and that Publish implements IndexSlot.                                *)
(***************************************************************************)
EXTENDS Publish, TLAPS

(* A build file has one name: nobody links it, copies from it or serves it   *)
(* before it is installed.                                                   *)
BuildsApart ==
  \A p \in Proc : build[p] # None =>
    /\ build[p] \notin {index, previous}
    /\ \A q \in Proc : /\ tmp[q] # build[p]
                       /\ src[q] # build[p]
                       /\ q # p => build[q] # build[p]

(* A copy in progress has one name too, and its source is a whole index.     *)
CopiesApart ==
  \A p \in Proc : pc[p] = "copying" =>
    /\ tmp[p] # None
    /\ src[p] # None
    /\ Complete(src[p])
    /\ tmp[p] \notin {index, previous}
    /\ \A q \in Proc : /\ src[q] # tmp[p]
                       /\ q # p => tmp[q] # tmp[p]

(* What is about to become the backup is whole.                              *)
BackupReady ==
  \A p \in Proc : pc[p] = "backup" => tmp[p] # None /\ Complete(tmp[p])

(* What the gate has established of the build at each later step.            *)
GatePassed ==
  \A p \in Proc : build[p] # None =>
    /\ pc[p] \in {"mark", "journal"} => disk[build[p]].data = "good"
    /\ pc[p] = "journal" => disk[build[p]].run = "published"
    /\ pc[p] \in SwapSteps => Complete(build[p])

IndInv ==
  /\ TypeOK
  /\ BuildsApart
  /\ CopiesApart
  /\ BackupReady
  /\ GatePassed
  /\ LiveComplete

(* Naming an inode takes it out of the free ones.                            *)
LEMMA FreeIsUnnamed ==
  ASSUME TypeOK, NEW i \in Free
  PROVE  /\ i \in Inode
         /\ i # None
         /\ i \notin {index, previous}
         /\ i \notin strays
         /\ \A p \in Proc : tmp[p] # i /\ build[p] # i /\ src[p] # i
  BY NoneAssumption DEF Free, Named, TypeOK

LEMMA InitInd == Init => IndInv
  BY DEF Init, IndInv, TypeOK, BuildsApart, CopiesApart, BackupReady,
         GatePassed, LiveComplete, Complete, Content, MaybeInode, Steps,
         Outcomes, SwapSteps

(* A write to a build file leaves every other file alone.                    *)
LEMMA WriteBuildFrame ==
  ASSUME TypeOK, NEW p \in Proc, build[p] # None,
         NEW data \in {"empty", "partial", "failing", "good"},
         NEW run \in {"none", "smoke_testing", "published"},
         NEW mode \in {"wal", "delete"},
         WriteBuild(p, data, run, mode)
  PROVE  /\ disk' \in [Inode -> Content]
         /\ aged' \in [Cutoffs -> SUBSET Inode]
         /\ disk'[build[p]].data = data
         /\ disk'[build[p]].run = run
         /\ disk'[build[p]].mode = mode
         /\ \A i \in Inode \ {build[p]} : disk'[i] = disk[i]
<1>1. build[p] \in Inode /\ disk[build[p]].gen \in Inode
  BY DEF TypeOK, MaybeInode, Content
<1>2. File(data, run, mode, disk[build[p]].gen) \in Content
  BY <1>1 DEF File, Content
<1> QED
  BY <1>1, <1>2 DEF TypeOK, WriteBuild, Touch, File

(* It therefore disturbs only what the invariant says of that build.         *)
LEMMA WriteBuildInd ==
  ASSUME IndInv, NEW p \in Proc, build[p] # None,
         NEW data \in {"empty", "partial", "failing", "good"},
         NEW run \in {"none", "smoke_testing", "published"},
         NEW mode \in {"wal", "delete"},
         NEW step \in Steps \ {"copying", "backup"},
         pc[p] \notin {"copying", "backup"},
         WriteBuild(p, data, run, mode), UNCHANGED names, Goto(p, step),
         disturbed' \in [Proc -> BOOLEAN],
         step \in {"mark", "journal"} => data = "good",
         step = "journal" => run = "published",
         step \in SwapSteps =>
           data = "good" /\ run = "published" /\ mode = "delete"
  PROVE  IndInv'
<1>1. /\ disk' \in [Inode -> Content]
      /\ aged' \in [Cutoffs -> SUBSET Inode]
      /\ disk'[build[p]].data = data
      /\ disk'[build[p]].run = run
      /\ disk'[build[p]].mode = mode
      /\ \A i \in Inode \ {build[p]} : disk'[i] = disk[i]
  BY WriteBuildFrame DEF IndInv
<1>2. TypeOK'
  BY <1>1 DEF IndInv, TypeOK, Goto, names, Steps
<1>3. BuildsApart'
  BY DEF IndInv, BuildsApart, names, Goto
<1>4. \A i \in Inode \ {build[p]} : Complete(i) => Complete(i)'
  BY <1>1 DEF Complete
<1>5. /\ \A q \in Proc : tmp[q] # build[p] /\ src[q] # build[p]
      /\ build[p] \notin {index, previous}
      /\ \A q \in Proc : q # p => build[q] # build[p]
  BY DEF IndInv, BuildsApart
<1>6. LiveComplete'
  BY <1>4, <1>5 DEF IndInv, LiveComplete, TypeOK, MaybeInode, names
<1>7. BackupReady'
  BY <1>4, <1>5 DEF IndInv, BackupReady, TypeOK, MaybeInode, names, Goto
<1>8. CopiesApart'
  BY <1>4, <1>5 DEF IndInv, CopiesApart, TypeOK, MaybeInode, names, Goto
<1>9. GatePassed'
  <2> SUFFICES ASSUME NEW q \in Proc, build'[q] # None
               PROVE  (/\ pc[q] \in {"mark", "journal"}
                            => disk[build[q]].data = "good"
                       /\ pc[q] = "journal"
                            => disk[build[q]].run = "published"
                       /\ pc[q] \in SwapSteps => Complete(build[q]))'
    BY DEF GatePassed
  <2>1. CASE q = p
    BY <2>1, <1>1 DEF IndInv, TypeOK, Goto, names, Complete
  <2>2. CASE q # p
    <3>1. /\ build'[q] = build[q]
          /\ build[q] \in Inode \ {build[p]}
          /\ pc'[q] = pc[q]
      BY <2>2, <1>5 DEF IndInv, TypeOK, MaybeInode, Goto, names
    <3> QED
      BY <2>2, <3>1, <1>1 DEF IndInv, GatePassed, Complete
  <2> QED
    BY <2>1, <2>2
<1> QED
  BY <1>2, <1>3, <1>6, <1>7, <1>8, <1>9 DEF IndInv

USE DEF IndInv, TypeOK, BuildsApart, CopiesApart, BackupReady, GatePassed,
        LiveComplete, Complete, Content, MaybeInode, Steps, Outcomes, SwapSteps

(* Building and sweeping touch only build files, which nothing else names.   *)
LEMMA BuildStepInd ==
  ASSUME IndInv, NEW p \in Proc, BuildStep(p)
  PROVE  IndInv'
<1>1. CASE SweepStep(p)
  <2>1. UNCHANGED <<index, previous, tmp, disk, src, disturbed>>
    BY <1>1 DEF SweepStep, Begin, JudgeStale, UnlinkStale, EndSweep, names, Goto
  <2>2. /\ \A q \in Proc : build'[q] \in {build[q], None}
        /\ \A q \in Proc \ {p} : pc'[q] = pc[q]
        /\ pc[p] \in {"idle", "sweep"} /\ pc'[p] \in {"sweep", "create"}
    BY <1>1 DEF SweepStep, Begin, JudgeStale, UnlinkStale, EndSweep, names, Goto
  <2>3. TypeOK'
    BY <1>1 DEF SweepStep, Begin, JudgeStale, UnlinkStale, EndSweep, BuildNames, names,
                Goto, Cutoffs
  <2> QED
    BY <2>1, <2>2, <2>3
<1>2. CASE Create(p)
  BY <1>2, FreeIsUnnamed DEF Create, Goto, File, NewDatabase, Touch
<1>3. CASE FinishIngest(p)
  <2>1. CASE build[p] = None
    BY <1>3, <2>1 DEF FinishIngest, Goto, names
  <2>2. CASE build[p] # None
    <3>1. /\ pc[p] = "ingest"
          /\ Goto(p, "record")
          /\ UNCHANGED <<names, disturbed>>
      BY <1>3 DEF FinishIngest
    <3>2. PICK data \in {"good", "failing"} : WriteBuild(p, data, "none", "wal")
      BY <1>3, <2>2 DEF FinishIngest
    <3> HIDE DEF IndInv
    <3> QED
      BY <3>1, <3>2, <2>2, WriteBuildInd DEF IndInv, TypeOK, SwapSteps, Steps
  <2> QED
    BY <2>1, <2>2
<1>4. CASE FailIngest(p)
  BY <1>4 DEF FailIngest, DeleteBuild, Ends
<1> QED
  BY <1>1, <1>2, <1>3, <1>4 DEF BuildStep

(* A path that was swept gets a fresh, empty, unpublished file.              *)
LEMMA OpenMissingInd ==
  ASSUME IndInv, NEW p \in Proc, OpenMissing(p)
  PROVE  IndInv'
  BY FreeIsUnnamed DEF OpenMissing, Ends, File, NewDatabase, Touch

(* The gate establishes completeness one field at a time, in this order:     *)
(* data, status, journal mode.  WriteRun undoes the last, so it comes first. *)
LEMMA GateStepInd ==
  ASSUME IndInv, NEW p \in Proc, GateStep(p)
  PROVE  IndInv'
<1>1. CASE RecordRun(p)
  <2>1. CASE WriteRun(p, "smoke_testing") /\ Goto(p, "smoke")
    <3>1. PICK data \in {"empty", "partial", "failing", "good"} :
            data = disk[build[p]].data
      BY <2>1 DEF WriteRun
    <3>2. pc[p] = "record" /\ disturbed' \in [Proc -> BOOLEAN]
      BY <1>1, <2>1 DEF RecordRun, WriteRun
    <3> HIDE DEF IndInv
    <3> QED
      BY <2>1, <3>1, <3>2, WriteBuildInd DEF WriteRun
  <2> QED
    BY <1>1, <2>1, OpenMissingInd DEF RecordRun
<1>2. CASE SmokeTest(p)
  <2>1. CASE SmokePasses(p) /\ Goto(p, "mark") /\ UNCHANGED <<build, strays>>
    BY <1>2, <2>1 DEF SmokeTest, SmokePasses, Goto
  <2>2. CASE DeleteBuild(p) /\ Ends(p, "rejected")
    BY <1>2, <2>2 DEF SmokeTest, DeleteBuild, Ends
  <2> QED
    BY <1>2, <2>1, <2>2 DEF SmokeTest
<1>3. CASE MarkPublished(p)
  <2>1. CASE WriteRun(p, "published") /\ Goto(p, "journal")
    <3>1. build[p] # None => disk[build[p]].data = "good"
      BY <1>3 DEF MarkPublished
    <3> QED
      BY <1>3, <2>1, <3>1, WriteBuildInd DEF MarkPublished, WriteRun
  <2> QED
    BY <1>3, <2>1, OpenMissingInd DEF MarkPublished
<1>4. CASE LeaveWal(p)
  <2>1. CASE build[p] = None
    BY <1>4, <2>1 DEF LeaveWal, Goto, names
  <2>2. CASE build[p] # None
    <3>1. disk[build[p]].data = "good" /\ disk[build[p]].run = "published"
      BY <1>4, <2>2 DEF LeaveWal
    <3>2. disturbed' \in [Proc -> BOOLEAN] /\ pc[p] = "journal"
      BY <1>4 DEF LeaveWal
    <3>3. WriteBuild(p, "good", "published", "delete")
      BY <1>4, <2>2, <3>1 DEF LeaveWal
    <3>4. UNCHANGED names /\ Goto(p, "exists")
      BY <1>4 DEF LeaveWal
    <3> HIDE DEF IndInv
    <3> QED
      BY <2>2, <3>2, <3>3, <3>4, WriteBuildInd
  <2> QED
    BY <2>1, <2>2
<1>5. CASE StayInWal(p)
  BY <1>5 DEF StayInWal, LeaveBuild, Ends
<1> QED
  BY <1>1, <1>2, <1>3, <1>4, <1>5 DEF GateStep

(* The backup is a link to a whole index, or a copy that is complete before  *)
(* the backup's name moves to it.                                            *)
LEMMA BackupStepInd ==
  ASSUME IndInv, NEW p \in Proc, BackupStep(p)
  PROVE  IndInv'
<1>1. CASE CheckTarget(p)
  BY <1>1 DEF CheckTarget, Goto, names
<1>2. CASE UnlinkLeftover(p)
  BY <1>2 DEF UnlinkLeftover, Goto
<1>3. CASE Link(p)
  BY <1>3 DEF Link, Goto
<1>4. CASE StartCopy(p)
  BY <1>4, FreeIsUnnamed DEF StartCopy, File, Touch
<1>5. CASE FinishCopy(p)
  BY <1>5 DEF FinishCopy, names
<1>6. CASE ReplacePrevious(p)
  <2>1. CASE tmp[p] = previous
    BY <1>6, <2>1 DEF ReplacePrevious, Goto, Disturb
  <2>2. CASE tmp[p] # previous
    <3>1. /\ pc[p] = "backup" /\ previous' = tmp[p]
          /\ tmp' = [tmp EXCEPT ![p] = None]
          /\ pc' = [pc EXCEPT ![p] = "tidy"]
          /\ UNCHANGED <<index, build, strays, disk, aged, src, judged, outcome>>
          /\ disturbed' = [q \in Proc |-> disturbed[q] \/ q # p]
      BY <1>6, <2>2 DEF ReplacePrevious, Goto, Disturb
    <3>2. TypeOK' /\ BuildsApart' /\ BackupReady' /\ GatePassed'
      BY <3>1
    <3>3. CopiesApart' /\ LiveComplete'
      BY <3>1
    <3> QED
      BY <3>2, <3>3
  <2> QED
    BY <2>1, <2>2
<1>7. CASE UnlinkLink(p)
  BY <1>7 DEF UnlinkLink, Goto
<1> QED
  BY <1>1, <1>2, <1>3, <1>4, <1>5, <1>6, <1>7 DEF BackupStep

LEMMA SwapStepInd ==
  ASSUME IndInv, NEW p \in Proc, SwapStep(p)
  PROVE  IndInv'
<1>1. CASE Install(p)
  BY <1>1 DEF Install, Ends, Disturb
<1>2. CASE BackupFails(p)
  BY <1>2 DEF BackupFails, names
<1>3. CASE CleanUp(p)
  BY <1>3 DEF CleanUp, GiveUp, LeaveBuild, Ends
<1>4. CASE SwapFails(p)
  BY <1>4 DEF SwapFails, GiveUp, LeaveBuild, Ends
<1> QED
  BY <1>1, <1>2, <1>3, <1>4 DEF SwapStep

LEMMA RollbackStepInd ==
  ASSUME IndInv, NEW p \in Proc, RollbackStep(p)
  PROVE  IndInv'
<1>1. CASE CheckPrevious(p)
  BY <1>1 DEF CheckPrevious, Goto, names
<1>2. CASE Restore(p)
  BY <1>2 DEF Restore, Ends, Disturb
<1>3. CASE RestoreFails(p)
  BY <1>3 DEF RestoreFails, Ends, names
<1> QED
  BY <1>1, <1>2, <1>3 DEF RollbackStep

LEMMA NextInd == IndInv /\ [Next]_vars => IndInv'
<1> SUFFICES ASSUME IndInv, [Next]_vars PROVE IndInv'
  OBVIOUS
<1>1. ASSUME NEW p \in Proc, Killed(p) PROVE IndInv'
  BY <1>1 DEF Killed, LeaveBuild, Ends
<1>2. ASSUME NEW i \in Inode, Age(i) PROVE IndInv'
  BY <1>2 DEF Age, BuildNames, Cutoffs, names
<1>3. CASE UNCHANGED vars
  BY <1>3 DEF vars
<1> QED
  BY <1>1, <1>2, <1>3, BuildStepInd, GateStepInd, BackupStepInd, SwapStepInd,
     RollbackStepInd DEF Next

LEMMA Inductive == Spec => []IndInv
<1> HIDE DEF IndInv
<1> QED
  BY InitInd, NextInd, PTL DEF Spec

(* Publish keeps every variable in its type.                                 *)
THEOREM TypeCorrect == Spec => []TypeOK
<1>1. IndInv => TypeOK
  OBVIOUS
<1> HIDE DEF IndInv, TypeOK
<1> QED
  BY <1>1, Inductive, PTL

(* index.db and index.db.previous only ever denote whole, published,         *)
(* WAL-free indexes, however many build-index processes run, die, sweep and  *)
(* roll back (publish_index, atomic_swap, rollback).                         *)
THEOREM LiveIndexIsComplete == Spec => []LiveComplete
<1>1. IndInv => LiveComplete
  OBVIOUS
<1> HIDE DEF IndInv, LiveComplete
<1> QED
  BY <1>1, Inductive, PTL

(* "index.db stays present throughout": no step of any process leaves the    *)
(* name unbound once it is bound (atomic_swap, rollback).                    *)
THEOREM IndexStaysPresent == Spec => IndexNeverVanishes
<1>1. IndInv /\ [Next]_vars => (index # None => index' # None)
  <2> SUFFICES ASSUME IndInv, [Next]_vars, index # None PROVE index' # None
    OBVIOUS
  <2>1. ASSUME NEW p \in Proc, SwapStep(p) PROVE index' # None
    BY <2>1 DEF SwapStep, Install, BackupFails, CleanUp, SwapFails, GiveUp, names
  <2>2. ASSUME NEW p \in Proc, RollbackStep(p) PROVE index' # None
    BY <2>2 DEF RollbackStep, CheckPrevious, Restore, RestoreFails, names
  <2>3. ASSUME NEW p \in Proc, BuildStep(p) PROVE index' = index
    BY <2>3 DEF BuildStep, SweepStep, Begin, JudgeStale, UnlinkStale, EndSweep, Create,
                FinishIngest, FailIngest, names
  <2>4. ASSUME NEW p \in Proc, GateStep(p) PROVE index' = index
    BY <2>4 DEF GateStep, RecordRun, SmokeTest, MarkPublished, LeaveWal,
                StayInWal, WriteRun, OpenMissing, names
  <2>5. ASSUME NEW p \in Proc, BackupStep(p) PROVE index' = index
    BY <2>5 DEF BackupStep, CheckTarget, UnlinkLeftover, Link, StartCopy,
                FinishCopy, ReplacePrevious, UnlinkLink, names
  <2>6. ASSUME NEW p \in Proc, Killed(p) PROVE index' = index
    BY <2>6 DEF Killed
  <2>7. ASSUME NEW i \in Inode, Age(i) PROVE index' = index
    BY <2>7 DEF Age, names
  <2> QED
    BY <2>1, <2>2, <2>3, <2>4, <2>5, <2>6, <2>7 DEF Next, vars
<1> HIDE DEF IndInv
<1> QED
  BY <1>1, Inductive, PTL DEF Spec, IndexNeverVanishes

(* The file a name denotes is never written while the name is index.db or    *)
(* its backup: hard-linking the backup is sound, and what a server has open  *)
(* cannot change (atomic_swap; builds are written beside the live index).    *)
THEOREM LiveFilesStayFrozen == Spec => LiveFilesFrozen
<1> DEFINE Frozen == \A i \in {index, previous} \ {None} : disk'[i] = disk[i]
<1>1. IndInv /\ [Next]_vars => Frozen
  <2> SUFFICES ASSUME IndInv, [Next]_vars,
                      NEW i \in {index, previous} \ {None}
               PROVE  disk'[i] = disk[i]
    OBVIOUS
  <2>1. i \in Inode /\ \A p \in Proc : build[p] # i
    BY DEF IndInv
  <2>2. ASSUME NEW p \in Proc, NEW data, NEW run, NEW mode,
               WriteBuild(p, data, run, mode)
        PROVE  disk'[i] = disk[i]
    BY <2>1, <2>2 DEF WriteBuild, IndInv
  <2>3. ASSUME NEW p \in Proc, BuildStep(p) PROVE disk'[i] = disk[i]
    BY <2>1, <2>2, <2>3, FreeIsUnnamed
       DEF BuildStep, SweepStep, Begin, JudgeStale, UnlinkStale, EndSweep, Create,
           FinishIngest, FailIngest, names
  <2>4. ASSUME NEW p \in Proc, GateStep(p) PROVE disk'[i] = disk[i]
    <3>1. ASSUME OpenMissing(p) PROVE disk'[i] = disk[i]
      BY <2>1, <3>1, FreeIsUnnamed DEF OpenMissing
    <3> QED
      BY <2>2, <2>4, <3>1 DEF GateStep, RecordRun, SmokeTest, MarkPublished,
                              LeaveWal, StayInWal, WriteRun
  <2>5. ASSUME NEW p \in Proc, BackupStep(p) PROVE disk'[i] = disk[i]
    <3>1. ASSUME StartCopy(p) PROVE disk'[i] = disk[i]
      BY <2>1, <3>1, FreeIsUnnamed DEF StartCopy
    <3>2. ASSUME FinishCopy(p) PROVE disk'[i] = disk[i]
      BY <2>1, <3>2 DEF FinishCopy
    <3> QED
      BY <2>5, <3>1, <3>2 DEF BackupStep, CheckTarget, UnlinkLeftover, Link,
                              ReplacePrevious, UnlinkLink
  <2>6. ASSUME NEW p \in Proc, SwapStep(p) PROVE disk'[i] = disk[i]
    BY <2>6 DEF SwapStep, Install, BackupFails, CleanUp, SwapFails, GiveUp
  <2>7. ASSUME NEW p \in Proc, RollbackStep(p) PROVE disk'[i] = disk[i]
    BY <2>7 DEF RollbackStep, CheckPrevious, Restore, RestoreFails
  <2>8. ASSUME NEW p \in Proc, Killed(p) PROVE disk'[i] = disk[i]
    BY <2>8 DEF Killed
  <2>9. ASSUME NEW j \in Inode, Age(j) PROVE disk'[i] = disk[i]
    BY <2>9 DEF Age
  <2> QED
    BY <2>3, <2>4, <2>5, <2>6, <2>7, <2>8, <2>9 DEF Next, vars
<1> HIDE DEF IndInv
<1> QED
  BY <1>1, Inductive, PTL DEF Spec, LiveFilesFrozen
-----------------------------------------------------------------------------
(* What the swap leaves behind, and from whom a generation comes.            *)

(* A temporary name is there only after there was an index to back up, and    *)
(* only between its link, or the start of its copy, and its unlink.  A copy    *)
(* in progress is not whole.                                                 *)
TmpTidy ==
  \A p \in Proc :
    /\ tmp[p] # None => index # None
    /\ pc[p] \in {"link", "install"} => tmp[p] = None
    /\ src[p] # None => pc[p] = "copying"
    /\ pc[p] = "copying" => ~Complete(tmp[p])
    /\ outcome[p] = "published" => tmp[p] = None /\ pc[p] \in {"idle", "restore"}

(* No file but strays carries the identity of a build not yet installed.     *)
Carriers == ({index, previous} \union {tmp[p] : p \in Proc}
               \union {src[p] : p \in Proc}) \ {None}

GensApart ==
  \A p \in Proc : build[p] # None =>
    /\ \A i \in Carriers : disk[i].gen # disk[build[p]].gen
    /\ \A q \in Proc \ {p} : build[q] # None => disk[build[q]].gen # disk[build[p]].gen

(* Undisturbed, a swap carries the index it found to the backup's name.      *)
BackupCurrent ==
  \A p \in Proc : ~disturbed[p] =>
    /\ pc[p] \in {"unlink", "link", "copying", "backup", "tidy"} => index # None
    /\ pc[p] = "copying" => src[p] = index
    /\ pc[p] \in {"copying", "backup"} => disk[tmp[p]].gen = disk[index].gen
    /\ pc[p] \in {"tidy", "install"} /\ index # None =>
         previous # None /\ disk[previous].gen = disk[index].gen

SwapInv == TmpTidy /\ GensApart /\ BackupCurrent

LEMMA SwapInit == Init => SwapInv
  BY DEF Init, SwapInv, TmpTidy, GensApart, Carriers, BackupCurrent

(* A new file has an identity that no file in use carries.                   *)
LEMMA FreeIsNoGen ==
  ASSUME IndInv, NEW i \in Free
  PROVE  /\ i \in Inode \ Carriers
         /\ \A k \in Carriers : disk[k].gen # i
         /\ \A p \in Proc : build[p] # None => disk[build[p]].gen # i
<1>1. Carriers \subseteq Named /\ \A p \in Proc : build[p] # None => build[p] \in Named
  BY DEF Carriers, Named
<1> QED
  BY <1>1 DEF Free

USE DEF SwapInv, TmpTidy, GensApart, BackupCurrent

(* A write to a build changes no identity.                                   *)
LEMMA WriteBuildGens ==
  ASSUME IndInv, NEW p \in Proc, build[p] # None, NEW data, NEW run, NEW mode,
         WriteBuild(p, data, run, mode)
  PROVE  /\ \A i \in Inode : disk'[i].gen = disk[i].gen
         /\ \A i \in Inode \ {build[p]} : disk'[i] = disk[i]
  BY DEF WriteBuild, File

LEMMA WriteBuildSwap ==
  ASSUME IndInv, SwapInv, NEW p \in Proc, build[p] # None, NEW data, NEW run, NEW mode,
         WriteBuild(p, data, run, mode), UNCHANGED names, NEW step \in Steps,
         Goto(p, step), UNCHANGED disturbed,
         pc[p] \in {"ingest", "record", "mark"}, step \in {"record", "smoke", "journal"}
  PROVE  SwapInv'
<1>1. Carriers' = Carriers /\ Carriers \subseteq Inode
  BY DEF names, Goto, Carriers
<1>2. GensApart'
  BY <1>1, WriteBuildGens DEF names
<1>3. TmpTidy'
  BY WriteBuildGens DEF names, Goto
<1>4. BackupCurrent'
  BY WriteBuildGens DEF names, Goto
<1> QED
  BY <1>2, <1>3, <1>4

LEMMA BuildStepSwap ==
  ASSUME IndInv, SwapInv, NEW p \in Proc, BuildStep(p)
  PROVE  SwapInv'
<1>1. CASE SweepStep(p)
  <2>1. /\ UNCHANGED <<index, previous, tmp, disk, src, disturbed>>
        /\ \A q \in Proc : build'[q] \in {build[q], None}
    BY <1>1 DEF SweepStep, Begin, JudgeStale, UnlinkStale, EndSweep, names, Goto
  <2>2. /\ \A q \in Proc \ {p} : pc'[q] = pc[q] /\ outcome'[q] = outcome[q]
        /\ pc[p] \in {"idle", "sweep"} /\ pc'[p] \in {"sweep", "create"}
        /\ outcome'[p] \in {"none", outcome[p]}
        /\ pc[p] = "idle" => outcome'[p] = "none"
    BY <1>1 DEF SweepStep, Begin, JudgeStale, UnlinkStale, EndSweep, names, Goto
  <2>3. Carriers' = Carriers
    BY <2>1 DEF Carriers
  <2> QED
    BY <2>1, <2>2, <2>3
<1>2. CASE Create(p)
  <2>1. PICK i \in Free :
          /\ build' = [build EXCEPT ![p] = i]
          /\ disk' = [disk EXCEPT ![i] = NewDatabase(i, "partial")]
    BY <1>2 DEF Create
  <2>2. disk'[i].gen = i /\ \A k \in Inode \ {i} : disk'[k] = disk[k]
    BY <2>1, FreeIsNoGen DEF NewDatabase, File
  <2>3. Carriers' = Carriers
    BY <1>2 DEF Create, Goto, Carriers
  <2>4. GensApart'
    <3>1. \A k \in Carriers : k \in Inode \ {i} /\ disk[k].gen # i
      BY FreeIsNoGen DEF Carriers
    <3>2. \A q \in Proc \ {p} : build'[q] = build[q] /\ build[q] # i
      BY <2>1, FreeIsUnnamed
    <3>3. \A q \in Proc \ {p} : build[q] # None => disk'[build[q]] = disk[build[q]]
      BY <2>2, <3>2
    <3>4. build'[p] = i
      BY <2>1
    <3>5. \A q \in Proc : build[q] # None => disk[build[q]].gen # i
      BY FreeIsNoGen
    <3> HIDE DEF Carriers, IndInv
    <3> QED BY <2>2, <2>3, <3>1, <3>2, <3>3, <3>4, <3>5
  <2>5. TmpTidy' /\ BackupCurrent'
    BY <1>2, FreeIsUnnamed DEF Create, Goto, NewDatabase, File
  <2> QED
    BY <2>4, <2>5
<1>3. CASE FinishIngest(p)
  <2>1. CASE build[p] = None
    BY <1>3, <2>1 DEF FinishIngest, Goto, names, Carriers
  <2>2. CASE build[p] # None
    BY <1>3, <2>2, WriteBuildSwap DEF FinishIngest
  <2> QED
    BY <2>1, <2>2
<1>4. CASE FailIngest(p)
  BY <1>4 DEF FailIngest, DeleteBuild, Ends, Carriers
<1> QED
  BY <1>1, <1>2, <1>3, <1>4 DEF BuildStep

LEMMA OpenMissingSwap ==
  ASSUME IndInv, SwapInv, NEW p \in Proc, OpenMissing(p), pc[p] # "idle"
  PROVE  SwapInv'
  BY FreeIsUnnamed DEF OpenMissing, Ends, File, NewDatabase, Carriers

LEMMA GateStepSwap ==
  ASSUME IndInv, SwapInv, NEW p \in Proc, GateStep(p)
  PROVE  SwapInv'
<1>1. CASE RecordRun(p)
  BY <1>1, OpenMissingSwap, WriteBuildSwap DEF RecordRun, WriteRun
<1>2. CASE SmokeTest(p)
  <2>1. TmpTidy' /\ BackupCurrent'
    BY <1>2 DEF SmokeTest, SmokePasses, DeleteBuild, Ends, Goto
  <2>2. GensApart'
    BY <1>2 DEF SmokeTest, SmokePasses, DeleteBuild, Ends, Goto, Carriers
  <2> QED
    BY <2>1, <2>2
<1>3. CASE MarkPublished(p)
  BY <1>3, OpenMissingSwap, WriteBuildSwap DEF MarkPublished, WriteRun
<1>4. CASE LeaveWal(p)
  <2>1. /\ \A i \in Inode : disk'[i].gen = disk[i].gen
        /\ \A i \in Inode : (\A q \in Proc : build[q] # i) => disk'[i] = disk[i]
    BY <1>4, WriteBuildGens DEF LeaveWal
  <2>2. /\ pc[p] = "journal" /\ UNCHANGED names /\ Goto(p, "exists")
        /\ disturbed' = [disturbed EXCEPT ![p] = FALSE]
    BY <1>4 DEF LeaveWal
  <2>3. TmpTidy'
    BY <2>1, <2>2 DEF Goto, names
  <2>4. Carriers' = Carriers /\ Carriers \subseteq Inode
    BY <2>2 DEF names, Goto, Carriers
  <2>5. GensApart'
    BY <2>1, <2>2, <2>4 DEF names
  <2>6. BackupCurrent'
    BY <2>1, <2>2 DEF Goto, names
  <2> QED
    BY <2>3, <2>5, <2>6
<1>5. CASE StayInWal(p)
  BY <1>5 DEF StayInWal, LeaveBuild, Ends, Carriers
<1> QED
  BY <1>1, <1>2, <1>3, <1>4, <1>5 DEF GateStep

LEMMA BackupStepSwap ==
  ASSUME IndInv, SwapInv, NEW p \in Proc, BackupStep(p)
  PROVE  SwapInv'
<1>1. CASE CheckTarget(p)
  BY <1>1 DEF CheckTarget, Goto, names, Carriers
<1>2. CASE UnlinkLeftover(p)
  BY <1>2 DEF UnlinkLeftover, Goto, Carriers
<1>3. CASE Link(p)
  BY <1>3 DEF Link, Goto, Carriers
<1>4. CASE StartCopy(p)
  BY <1>4, FreeIsUnnamed DEF StartCopy, File, Carriers
<1>5. CASE FinishCopy(p)
  BY <1>5 DEF FinishCopy, names, Carriers
<1>6. CASE ReplacePrevious(p)
  BY <1>6 DEF ReplacePrevious, Goto, Disturb, Carriers
<1>7. CASE UnlinkLink(p)
  BY <1>7 DEF UnlinkLink, Goto, Carriers
<1> QED
  BY <1>1, <1>2, <1>3, <1>4, <1>5, <1>6, <1>7 DEF BackupStep

LEMMA SwapStepSwap ==
  ASSUME IndInv, SwapInv, NEW p \in Proc, SwapStep(p)
  PROVE  SwapInv'
<1>1. CASE Install(p)
  <2>1. TmpTidy'
    BY <1>1 DEF Install, Ends
  <2>2. GensApart'
    BY <1>1 DEF Install, Ends, Carriers
  <2>3. BackupCurrent'
    BY <1>1 DEF Install, Ends, Disturb
  <2> QED
    BY <2>1, <2>2, <2>3
<1>2. CASE BackupFails(p)
  <2>1. /\ src' = [src EXCEPT ![p] = None] /\ pc' = [pc EXCEPT ![p] = "cleanup"]
        /\ UNCHANGED <<names, disk, aged, outcome, disturbed>>
    BY <1>2 DEF BackupFails
  <2>2. Carriers' \subseteq Carriers
    BY <2>1 DEF names, Carriers
  <2>3. GensApart'
    BY <2>1, <2>2 DEF names
  <2>4. TmpTidy' /\ BackupCurrent'
    BY <1>2, <2>1 DEF names, BackupFails
  <2> QED
    BY <2>3, <2>4
<1>3. CASE CleanUp(p)
  BY <1>3 DEF CleanUp, GiveUp, LeaveBuild, Ends, Carriers
<1>4. CASE SwapFails(p)
  BY <1>4 DEF SwapFails, GiveUp, LeaveBuild, Ends, Carriers
<1> QED
  BY <1>1, <1>2, <1>3, <1>4 DEF SwapStep

LEMMA RollbackStepSwap ==
  ASSUME IndInv, SwapInv, NEW p \in Proc, RollbackStep(p)
  PROVE  SwapInv'
<1>1. CASE CheckPrevious(p)
  BY <1>1 DEF CheckPrevious, Goto, names, Carriers
<1>2. CASE Restore(p)
  <2>1. TmpTidy'
    BY <1>2 DEF Restore, Ends
  <2>2. GensApart'
    BY <1>2 DEF Restore, Ends, Carriers
  <2>3. BackupCurrent'
    BY <1>2 DEF Restore, Ends, Disturb
  <2> QED
    BY <2>1, <2>2, <2>3
<1>3. CASE RestoreFails(p)
  BY <1>3 DEF RestoreFails, Ends, names, Carriers
<1> QED
  BY <1>1, <1>2, <1>3 DEF RollbackStep

LEMMA NextSwap == IndInv /\ SwapInv /\ [Next]_vars => SwapInv'
<1> SUFFICES ASSUME IndInv, SwapInv, [Next]_vars PROVE SwapInv'
  OBVIOUS
<1>1. ASSUME NEW p \in Proc, Killed(p) PROVE SwapInv'
  BY <1>1 DEF Killed, LeaveBuild, Ends, Carriers
<1>2. ASSUME NEW i \in Inode, Age(i) PROVE SwapInv'
  <2>1. UNCHANGED <<names, disk, pc, src, outcome, disturbed>>
    BY <1>2 DEF Age
  <2>2. Carriers' = Carriers
    BY <2>1 DEF names, Carriers
  <2>3. TmpTidy' /\ BackupCurrent'
    BY <2>1 DEF names
  <2>4. GensApart'
    BY <2>1, <2>2 DEF names
  <2> QED
    BY <2>3, <2>4
<1>3. CASE UNCHANGED vars
  BY <1>3 DEF vars, Carriers
<1> QED
  BY <1>1, <1>2, <1>3, BuildStepSwap, GateStepSwap, BackupStepSwap, SwapStepSwap,
     RollbackStepSwap DEF Next

LEMMA InductiveSwap == Spec => []SwapInv
<1> HIDE DEF IndInv, SwapInv
<1> QED
  BY SwapInit, NextSwap, Inductive, PTL DEF Spec

(* A run that published has taken its temporary name away, whatever runs with  *)
(* its pid were killed before (atomic_swap, both unlinks).                    *)
THEOREM PublishedRunsAreTidy == Spec => []PublishedLeavesNoTmp
<1>1. SwapInv => PublishedLeavesNoTmp
  BY DEF PublishedLeavesNoTmp
<1> HIDE DEF SwapInv
<1> QED
  BY <1>1, InductiveSwap, PTL

(* Whoever replaces index.db undisturbed has the index it replaces, whole, in  *)
(* index.db.previous: for any number of processes, and whatever killed and     *)
(* failed runs left behind (atomic_swap).                                     *)
THEOREM BackupIsOfTheReplaced == Spec => ReplacedIsBackedUp
<1> DEFINE Backed ==
      \A p \in Proc :
        /\ pc[p] = "install"
        /\ outcome'[p] = "published"
        /\ index # None
        /\ ~disturbed[p]
        => /\ previous # None
           /\ Complete(previous)
           /\ disk[previous].gen = disk[index].gen
<1>1. IndInv /\ SwapInv => Backed
  OBVIOUS
<1> HIDE DEF IndInv, SwapInv
<1> QED
  BY <1>1, Inductive, InductiveSwap, PTL DEF Spec, ReplacedIsBackedUp

-----------------------------------------------------------------------------
(* Publishing implements the slot.                                           *)

HIDE DEF IndInv, SwapInv, BuildsApart, CopiesApart, BackupReady, GatePassed,
         LiveComplete, TmpTidy, GensApart, BackupCurrent

(* p holds generation g on its way to the backup.                            *)
Holds(p, g) ==
  \/ tmp[p] # None /\ Complete(tmp[p]) /\ disk[tmp[p]].gen = g
  \/ src[p] # None /\ disk[src[p]].gen = g

LEMMA HeldGensAre ==
  /\ \A g : g \in HeldGens <=> \E p \in Proc : Holds(p, g)
  /\ \A g : g \in HeldGens' <=> \E p \in Proc : Holds(p, g)'
  BY DEF HeldGens, Holds

(* What the two names denote are identities of builds.                       *)
LEMMA SlotValues ==
  ASSUME IndInv
  PROVE  /\ GenOf(index) = IF index = None THEN None ELSE disk[index].gen
         /\ GenOf(previous) = IF previous = None THEN None ELSE disk[previous].gen
         /\ \A i \in Inode : disk[i].gen \in Inode
         /\ HeldGens \subseteq Inode
  BY DEF IndInv, LiveComplete, GenOf, HeldGens

(* A step that leaves the files in use and their names alone is none of the    *)
(* slot's.                                                                   *)
LEMMA QuietStep ==
  ASSUME IndInv, UNCHANGED <<index, previous, tmp, src>>,
         \A i \in Carriers : disk'[i] = disk[i]
  PROVE  UNCHANGED Slot!slotVars
<1>1. GenOf(index)' = GenOf(index) /\ GenOf(previous)' = GenOf(previous)
  BY DEF GenOf, Carriers
<1>2. HeldGens' = HeldGens
  BY DEF HeldGens, Carriers
<1> QED
  BY <1>1, <1>2 DEF Slot!slotVars

(* A holder that lets go of one file discards what it held, unless another     *)
(* still holds the same.                                                     *)
LEMMA DropStep ==
  ASSUME IndInv, NEW p \in Proc, UNCHANGED <<index, previous, disk>>,
         \/ tmp' = [tmp EXCEPT ![p] = None] /\ src' = src
         \/ src' = [src EXCEPT ![p] = None] /\ tmp' = tmp
  PROVE  [Slot!SlotNext]_(Slot!slotVars)
<1>1. GenOf(index)' = GenOf(index) /\ GenOf(previous)' = GenOf(previous)
  BY DEF GenOf
<1> DEFINE g == IF tmp' # tmp THEN disk[tmp[p]].gen ELSE disk[src[p]].gen
<1>2. \A h : \A q \in Proc : /\ Holds(q, h)' => Holds(q, h)
                             /\ (Holds(q, h) /\ h # g) => Holds(q, h)'
  BY DEF Holds, IndInv
<1> HIDE DEF g
<1>3. HeldGens' \subseteq HeldGens /\ HeldGens \ {g} \subseteq HeldGens'
  BY <1>2, HeldGensAre
<1>4. HeldGens' = HeldGens \/ (g \in HeldGens /\ HeldGens' = HeldGens \ {g})
  BY <1>3
<1> QED
  BY <1>1, <1>4 DEF Slot!slotVars, Slot!SlotNext, Slot!Discard

LEMMA BuildStepSlot ==
  ASSUME IndInv, SwapInv, NEW p \in Proc, BuildStep(p)
  PROVE  UNCHANGED Slot!slotVars
<1>1. \A i \in Carriers : i \in Inode /\ \A q \in Proc : build[q] # i
  BY DEF Carriers, IndInv, BuildsApart
<1>2. UNCHANGED <<index, previous, tmp>>
  BY DEF BuildStep, SweepStep, Begin, JudgeStale, UnlinkStale, EndSweep, Create,
         FinishIngest, FailIngest, names
<1>3. src' = src
  BY DEF BuildStep, SweepStep, Begin, JudgeStale, UnlinkStale, EndSweep, Create,
         FinishIngest, FailIngest, Goto, Ends, SwapInv, TmpTidy, IndInv, names
<1>4. ASSUME NEW i \in Carriers PROVE disk'[i] = disk[i]
  BY <1>1, FreeIsNoGen, WriteBuildGens
  DEF BuildStep, SweepStep, Begin, JudgeStale, UnlinkStale, EndSweep, Create,
      FinishIngest, FailIngest, IndInv
<1> QED
  BY <1>2, <1>3, <1>4, QuietStep

LEMMA GateStepSlot ==
  ASSUME IndInv, SwapInv, NEW p \in Proc, GateStep(p)
  PROVE  UNCHANGED Slot!slotVars
<1>1. \A i \in Carriers : i \in Inode /\ \A q \in Proc : build[q] # i
  BY DEF Carriers, IndInv, BuildsApart
<1>2. UNCHANGED <<index, previous, tmp>>
  BY DEF GateStep, RecordRun, SmokeTest, MarkPublished, LeaveWal, StayInWal, WriteRun,
         OpenMissing, names
<1>3. src' = src
  BY DEF GateStep, RecordRun, SmokeTest, MarkPublished, LeaveWal, StayInWal, OpenMissing,
         Goto, Ends, SwapInv, TmpTidy, IndInv
<1>4. ASSUME NEW i \in Carriers PROVE disk'[i] = disk[i]
  <2>1. CASE OpenMissing(p)
    BY <1>1, <2>1, FreeIsNoGen DEF OpenMissing, IndInv
  <2> QED
    BY <1>1, <2>1, WriteBuildGens
    DEF GateStep, RecordRun, SmokeTest, MarkPublished, LeaveWal, StayInWal, WriteRun
<1> QED
  BY <1>2, <1>3, <1>4, QuietStep

(* Linking or copying captures the live index.                               *)
LEMMA CaptureSlot ==
  ASSUME IndInv, SwapInv, NEW p \in Proc, Link(p) \/ StartCopy(p)
  PROVE  Slot!Capture
<1>1. index # None /\ tmp[p] = None /\ src[p] = None /\ Complete(index)
  BY DEF Link, StartCopy, SwapInv, TmpTidy, IndInv, LiveComplete
<1>2. /\ UNCHANGED <<index, previous>>
      /\ \A i \in Carriers : disk'[i] = disk[i]
      /\ \A q \in Proc \ {p} : tmp'[q] = tmp[q] /\ src'[q] = src[q]
  <2>1. CASE Link(p)
    BY <2>1 DEF Link, Goto, IndInv
  <2>2. CASE StartCopy(p)
    BY <2>2, FreeIsNoGen DEF StartCopy, Carriers, IndInv
  <2> QED
    BY <2>1, <2>2
<1>3. \/ tmp'[p] = index /\ src'[p] = None
      \/ tmp'[p] # None /\ ~Complete(tmp[p])' /\ src'[p] = index
  BY <1>1, FreeIsUnnamed DEF Link, StartCopy, Goto, IndInv, File
<1>4. GenOf(index)' = GenOf(index) /\ GenOf(previous)' = GenOf(previous)
  BY <1>2 DEF GenOf, Carriers
<1>5. \A h : \A q \in Proc \ {p} : Holds(q, h)' <=> Holds(q, h)
  BY <1>2 DEF Holds, Carriers
<1>6. \A h : ~Holds(p, h) /\ (Holds(p, h)' <=> h = disk[index].gen)
  BY <1>1, <1>2, <1>3 DEF Holds, Carriers
<1>7. HeldGens' = HeldGens \union {disk[index].gen}
  BY <1>5, <1>6, HeldGensAre
<1>8. GenOf(index) = disk[index].gen /\ GenOf(index) # None
  BY <1>1, SlotValues, NoneAssumption DEF IndInv
<1> QED
  BY <1>4, <1>7, <1>8 DEF Slot!Capture

(* A finished copy holds what its source held.                               *)
LEMMA FinishCopySlot ==
  ASSUME IndInv, SwapInv, NEW p \in Proc, FinishCopy(p)
  PROVE  UNCHANGED Slot!slotVars
<1>1. /\ tmp[p] # None /\ src[p] # None /\ Complete(src[p]) /\ src[p] # tmp[p]
      /\ tmp[p] \notin {index, previous}
      /\ \A q \in Proc : src[q] # tmp[p] /\ (q # p => tmp[q] # tmp[p])
      /\ tmp[p] \in Inode /\ src[p] \in Inode
  BY DEF FinishCopy, IndInv, CopiesApart
<1>2. /\ UNCHANGED <<index, previous, tmp>>
      /\ disk' = [disk EXCEPT ![tmp[p]] = disk[src[p]]]
      /\ src' = [src EXCEPT ![p] = None]
  BY DEF FinishCopy, names
<1>3. GenOf(index)' = GenOf(index) /\ GenOf(previous)' = GenOf(previous)
  BY <1>1, <1>2 DEF GenOf, IndInv
<1>4. \A h : \A q \in Proc \ {p} : Holds(q, h)' <=> Holds(q, h)
  BY <1>1, <1>2 DEF Holds, IndInv
<1>5. \A h : Holds(p, h)' <=> h = disk[src[p]].gen
  BY <1>1, <1>2 DEF Holds, IndInv
<1>6. ~Complete(tmp[p])
  BY DEF FinishCopy, SwapInv, TmpTidy
<1>7. \A h : Holds(p, h) <=> h = disk[src[p]].gen
  BY <1>1, <1>6 DEF Holds
<1>8. HeldGens' = HeldGens
  BY <1>4, <1>5, <1>7, HeldGensAre
<1> QED
  BY <1>3, <1>8 DEF Slot!slotVars

(* The rename makes what p holds the backup.                                 *)
LEMMA ReplacePreviousSlot ==
  ASSUME IndInv, SwapInv, NEW p \in Proc, ReplacePrevious(p)
  PROVE  [Slot!SlotNext]_(Slot!slotVars)
<1>1. CASE tmp[p] = previous
  BY <1>1, QuietStep DEF ReplacePrevious, Goto
<1>2. CASE tmp[p] # previous
  <2>1. tmp[p] # None /\ Complete(tmp[p])
    BY DEF ReplacePrevious, IndInv, BackupReady
  <2>2. /\ previous' = tmp[p] /\ tmp' = [tmp EXCEPT ![p] = None]
        /\ UNCHANGED <<index, disk, src>>
    BY <1>2 DEF ReplacePrevious, Goto
  <2> DEFINE g == disk[tmp[p]].gen
  <2>3. GenOf(index)' = GenOf(index) /\ GenOf(previous)' = g
    BY <2>1, <2>2 DEF GenOf
  <2>4. g \in HeldGens
    BY <2>1, HeldGensAre DEF Holds
  <2>5. \A h : \A q \in Proc : /\ Holds(q, h)' => Holds(q, h)
                               /\ Holds(q, h) /\ h # g => Holds(q, h)'
    BY <2>2 DEF Holds, IndInv
  <2> HIDE DEF g
  <2>6. HeldGens' \subseteq HeldGens /\ HeldGens \ {g} \subseteq HeldGens'
    BY <2>5, HeldGensAre
  <2>7. HeldGens' \in {HeldGens, HeldGens \ {g}}
    BY <2>6
  <2> QED
    BY <2>3, <2>4, <2>7 DEF Slot!SlotNext, Slot!SaveBackup
<1> QED
  BY <1>1, <1>2

(* What is installed is a build that nobody has seen.                        *)
LEMMA InstallSlot ==
  ASSUME IndInv, SwapInv, NEW p \in Proc, Install(p)
  PROVE  Slot!InstallNew
<1>1. build[p] \in Inode /\ Complete(build[p]) /\ src[p] = None
  BY DEF Install, IndInv, GatePassed, SwapInv, TmpTidy
<1>2. index' = build[p] /\ UNCHANGED <<previous, tmp, src, disk>>
  BY <1>1 DEF Install, Ends, IndInv
<1> DEFINE g == disk[build[p]].gen
<1>3. GenOf(index)' = g /\ GenOf(previous)' = GenOf(previous) /\ g \in Inode
  BY <1>1, <1>2, NoneAssumption DEF GenOf, IndInv
<1>4. HeldGens' = HeldGens
  BY <1>2 DEF HeldGens
<1>5. \A i \in Carriers : disk[i].gen # g
  BY <1>1, NoneAssumption DEF SwapInv, GensApart
<1>6. g # GenOf(index) /\ g # GenOf(previous)
  BY <1>3, <1>5, SlotValues, NoneAssumption DEF Carriers
<1>7. g \notin HeldGens
  BY <1>5 DEF HeldGens, Carriers
<1> QED
  BY <1>3, <1>4, <1>6, <1>7 DEF Slot!InstallNew

LEMMA BackupStepSlot ==
  ASSUME IndInv, SwapInv, NEW p \in Proc, BackupStep(p)
  PROVE  [Slot!SlotNext]_(Slot!slotVars)
<1>1. CASE CheckTarget(p)
  BY <1>1, QuietStep DEF CheckTarget, Goto, names
<1>2. CASE UnlinkLeftover(p)
  BY <1>2, DropStep DEF UnlinkLeftover, Goto
<1>3. CASE Link(p) \/ StartCopy(p)
  BY <1>3, CaptureSlot DEF Slot!SlotNext
<1>4. CASE FinishCopy(p)
  BY <1>4, FinishCopySlot
<1>5. CASE ReplacePrevious(p)
  BY <1>5, ReplacePreviousSlot
<1>6. CASE UnlinkLink(p)
  BY <1>6, DropStep DEF UnlinkLink, Goto
<1> QED
  BY <1>1, <1>2, <1>3, <1>4, <1>5, <1>6 DEF BackupStep

LEMMA SwapStepSlot ==
  ASSUME IndInv, SwapInv, NEW p \in Proc, SwapStep(p)
  PROVE  [Slot!SlotNext]_(Slot!slotVars)
<1>1. CASE Install(p)
  BY <1>1, InstallSlot DEF Slot!SlotNext
<1>2. CASE BackupFails(p)
  BY <1>2, DropStep DEF BackupFails, names
<1>3. pc[p] \in {"cleanup", "unlink", "tidy", "install"} => src[p] = None
  BY DEF SwapInv, TmpTidy
<1>4. CASE CleanUp(p)
  <2>1. src' = src /\ UNCHANGED <<index, previous, disk>>
    BY <1>3, <1>4 DEF CleanUp, GiveUp, Ends, IndInv
  <2> QED
    BY <1>4, <2>1, DropStep, QuietStep DEF CleanUp
<1>5. CASE SwapFails(p)
  BY <1>3, <1>5, QuietStep DEF SwapFails, GiveUp, Ends, IndInv
<1> QED
  BY <1>1, <1>2, <1>4, <1>5 DEF SwapStep

LEMMA RollbackStepSlot ==
  ASSUME IndInv, SwapInv, NEW p \in Proc, RollbackStep(p)
  PROVE  [Slot!SlotNext]_(Slot!slotVars)
<1>1. CASE CheckPrevious(p)
  BY <1>1, QuietStep DEF CheckPrevious, Goto, names
<1>2. pc[p] = "restore" => src[p] = None
  BY DEF SwapInv, TmpTidy
<1>3. CASE Restore(p)
  <2>1. previous # None /\ src' = src /\ UNCHANGED <<tmp, disk>>
    BY <1>2, <1>3 DEF Restore, Ends, IndInv
  <2>2. CASE previous = index
    BY <1>3, <2>1, <2>2, QuietStep DEF Restore
  <2>3. CASE previous # index
    <3>1. index' = previous /\ previous' = None
      BY <1>3, <2>3 DEF Restore
    <3>2. GenOf(index)' = GenOf(previous) /\ GenOf(previous)' = None
      BY <2>1, <3>1 DEF GenOf
    <3>3. HeldGens' = HeldGens
      BY <2>1 DEF HeldGens
    <3>4. GenOf(previous) # None
      BY <2>1, SlotValues, NoneAssumption DEF IndInv
    <3> QED
      BY <3>2, <3>3, <3>4 DEF Slot!SlotNext, Slot!RestoreBackup
  <2> QED
    BY <2>2, <2>3
<1>4. CASE RestoreFails(p)
  BY <1>2, <1>4, QuietStep DEF RestoreFails, Ends, names, IndInv
<1> QED
  BY <1>1, <1>3, <1>4 DEF RollbackStep

LEMMA NextSlot == IndInv /\ SwapInv /\ [Next]_vars => [Slot!SlotNext]_(Slot!slotVars)
<1> SUFFICES ASSUME IndInv, SwapInv, [Next]_vars PROVE [Slot!SlotNext]_(Slot!slotVars)
  OBVIOUS
<1>1. ASSUME NEW p \in Proc, Killed(p) PROVE [Slot!SlotNext]_(Slot!slotVars)
  BY <1>1, DropStep DEF Killed, Ends
<1>2. ASSUME NEW i \in Inode, Age(i) PROVE UNCHANGED Slot!slotVars
  BY <1>2, QuietStep DEF Age, names
<1>3. CASE UNCHANGED vars
  BY <1>3, QuietStep DEF vars
<1> QED
  BY <1>1, <1>2, <1>3, BuildStepSlot, GateStepSlot, BackupStepSlot, SwapStepSlot,
     RollbackStepSlot DEF Next

LEMMA InitSlot == Init => Slot!SlotInit
<1> SUFFICES ASSUME Init PROVE Slot!SlotInit
  OBVIOUS
<1>1. HeldGens = {}
  BY DEF Init, HeldGens
<1> QED
  BY <1>1, NoneAssumption DEF Init, Slot!SlotInit, GenOf

(* Publishing implements the slot of IndexSlot: however many processes build,  *)
(* link, copy, die, sweep and roll back, index.db moves in one step from one   *)
(* whole index to a new one or to its backup, and the backup only ever is an   *)
(* index that was live when somebody captured it.                            *)
THEOREM PublishImplementsSlot == Spec => ImplementsSlot
<1> HIDE DEF TypeOK
<1> QED
  BY InitSlot, NextSlot, Inductive, InductiveSwap, PTL
  DEF Spec, ImplementsSlot, Slot!SlotSpec
=============================================================================
