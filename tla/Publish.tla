------------------------------- MODULE Publish -------------------------------
(***************************************************************************)
(* Publishing an index: ingestion/publish.py and the part of build-index    *)
(* (__main__.py) that creates, abandons and hands over the build file.      *)
(*                                                                          *)
(* The state is the cache directory as the file system sees it.  A name     *)
(* denotes an inode, an inode has a content, a hard link gives an inode a    *)
(* second name, and a rename moves a name in one step.  Any number of        *)
(* processes run build-index at once (a user, and every MCP server that      *)
(* starts without an index), each of them one system call at a time, and     *)
(* any of them may be killed between two calls.                              *)
(***************************************************************************)
EXTENDS Naturals, FiniteSets

CONSTANTS Proc,    \* process slots; a slot keeps its pid when it is reused
          Inode,   \* inodes the file system can hand out
          None

ASSUME NoneAssumption == None \notin Inode \union Proc

VARIABLES
  index,      \* inode named index.db
  previous,   \* inode named index.db.previous
  tmp,        \* tmp[p]: inode named index.db.previous.<pid of p>.tmp
  build,      \* build[p]: inode named by the build path of p's current run
  strays,     \* inodes named build-*.db that no running build-index owns
  disk,       \* content of every inode
  aged,       \* aged[None]: inodes whose mtime is older than the age floor;
              \* aged[p]: those older than the cutoff of p's sweep
  pc,         \* next step of each process
  src,        \* src[p]: inode p is copying from (shutil.copy2 holds it open)
  judged,     \* judged[p]: build file p's sweep found aged, not yet unlinked
  outcome,    \* how the last run of p ended
  disturbed   \* history: someone else moved a name during p's swap

names == <<index, previous, tmp, build, strays>>
vars == <<index, previous, tmp, build, strays, disk, aged, pc, src, judged,
          outcome, disturbed>>

MaybeInode == Inode \union {None}

(* data is what the smoke tests see; run is the status of the row this build *)
(* added to ingestion_runs; gen identifies the build whose rows it holds.    *)
Content == [data : {"empty", "partial", "failing", "good"},
            run  : {"none", "smoke_testing", "published"},
            mode : {"wal", "delete"},
            gen  : Inode]

Steps == {"idle", "sweep", "create", "ingest", "record", "smoke", "mark", "journal",
          "exists", "unlink", "link", "copying", "backup", "tidy", "install",
          "cleanup", "restore"}

SwapSteps == {"exists", "unlink", "link", "copying", "backup", "tidy",
              "install", "cleanup"}

Outcomes == {"none", "published", "rejected", "kept", "refused", "raised",
             "killed", "restored"}

Complete(i) ==
  /\ disk[i].data = "good"
  /\ disk[i].run = "published"
  /\ disk[i].mode = "delete"

Named == ({index, previous} \union strays
            \union {tmp[p] : p \in Proc} \union {build[p] : p \in Proc}
            \union {src[p] : p \in Proc}) \ {None}

(* The file system reuses an inode once nothing names it or holds it open.   *)
(* An identity still carried by some file is not given out a second time,    *)
(* nor is an inode that stands for the path a sweep is about to unlink.       *)
Free == Inode \ (Named \union {disk[i].gen : i \in Named}
                   \union {judged[p] : p \in Proc})

File(data, run, mode, gen) ==
  [data |-> data, run |-> run, mode |-> mode, gen |-> gen]

NewDatabase(i, data) == File(data, "none", "wal", i)

Cutoffs == Proc \union {None}

(* A write makes the mtime of i new again.                                   *)
Touch(i) == aged' = [c \in Cutoffs |-> aged[c] \ {i}]

WriteBuild(p, data, run, mode) ==
  /\ disk' = [disk EXCEPT ![build[p]] =
                 File(data, run, mode, disk[build[p]].gen)]
  /\ Touch(build[p])

-----------------------------------------------------------------------------
(* Common endings of a run.  The build path is left behind, deleted by       *)
(* delete_build, or already renamed.                                         *)

Ends(p, how) ==
  /\ pc' = [pc EXCEPT ![p] = "idle"]
  /\ outcome' = [outcome EXCEPT ![p] = how]
  /\ src' = [src EXCEPT ![p] = None]
  /\ judged' = [judged EXCEPT ![p] = None]

LeaveBuild(p) ==
  /\ strays' = strays \union ({build[p]} \ {None})
  /\ build' = [build EXCEPT ![p] = None]

DeleteBuild(p) ==
  /\ build' = [build EXCEPT ![p] = None]
  /\ UNCHANGED strays

Goto(p, step) ==
  /\ pc' = [pc EXCEPT ![p] = step]
  /\ UNCHANGED <<src, judged, outcome>>

(* Another process sees index.db or its backup change under its feet.        *)
Disturb(p) == disturbed' = [q \in Proc |-> disturbed[q] \/ q # p]

-----------------------------------------------------------------------------
(* build-index before publishing.                                            *)

BuildNames == (strays \union {build[q] : q \in Proc}) \ {None}

(* generate_build_path; sweep_stale_builds reads the clock for its cutoff.   *)
Begin(p) ==
  /\ pc[p] = "idle"
  /\ pc' = [pc EXCEPT ![p] = "sweep"]
  /\ outcome' = [outcome EXCEPT ![p] = "none"]
  /\ aged' = [aged EXCEPT ![p] = aged[None]]
  /\ UNCHANGED <<names, disk, src, judged, disturbed>>

(* The stat of a build file is older than the cutoff.                        *)
JudgeStale(p) ==
  /\ pc[p] = "sweep"
  /\ judged[p] = None
  /\ \E i \in aged[p] \intersect BuildNames :
       judged' = [judged EXCEPT ![p] = i]
  /\ UNCHANGED <<names, disk, aged, pc, src, outcome, disturbed>>

(* The unlink that follows, whatever was written since; it is refused, or    *)
(* finds nothing where the file was installed or swept meanwhile.            *)
UnlinkStale(p) ==
  /\ pc[p] = "sweep"
  /\ judged[p] # None
  /\ \/ UNCHANGED <<build, strays>>
     \/ /\ strays' = strays \ {judged[p]}
        /\ build' = [q \in Proc |->
                       IF build[q] = judged[p] THEN None ELSE build[q]]
  /\ judged' = [judged EXCEPT ![p] = None]
  /\ UNCHANGED <<index, previous, tmp, disk, aged, pc, src, outcome, disturbed>>

EndSweep(p) ==
  /\ pc[p] = "sweep"
  /\ judged[p] = None
  /\ Goto(p, "create")
  /\ UNCHANGED <<names, disk, aged, disturbed>>

(* get_readwrite_connection on the fresh path.                               *)
Create(p) ==
  /\ pc[p] = "create"
  /\ \E i \in Free :
       /\ build' = [build EXCEPT ![p] = i]
       /\ disk' = [disk EXCEPT ![i] = NewDatabase(i, "partial")]
       /\ Touch(i)
  /\ Goto(p, "ingest")
  /\ UNCHANGED <<index, previous, tmp, strays, disturbed>>

(* Some version went in, the FTS tables are rebuilt and the connection is    *)
(* closed.  What the smoke tests will say is decided by what went in.        *)
FinishIngest(p) ==
  /\ pc[p] = "ingest"
  /\ IF build[p] = None
     THEN UNCHANGED <<disk, aged>>
     ELSE \E data \in {"good", "failing"} : WriteBuild(p, data, "none", "wal")
  /\ Goto(p, "record")
  /\ UNCHANGED <<names, disturbed>>

(* No version succeeded, or an exception: built is FALSE in the finally.     *)
FailIngest(p) ==
  /\ pc[p] = "ingest"
  /\ DeleteBuild(p)
  /\ Ends(p, "rejected")
  /\ UNCHANGED <<index, previous, tmp, disk, aged, disturbed>>

-----------------------------------------------------------------------------
(* publish_index up to the swap.                                             *)

(* Opening a path that was swept creates an empty database; the statement    *)
(* that follows finds no table and raises, and the empty file stays.         *)
OpenMissing(p) ==
  /\ build[p] = None
  /\ \E i \in Free :
       /\ strays' = strays \union {i}
       /\ disk' = [disk EXCEPT ![i] = NewDatabase(i, "empty")]
       /\ Touch(i)
  /\ Ends(p, "raised")
  /\ UNCHANGED <<index, previous, tmp, build, disturbed>>

(* Every read-write open turns WAL on (_set_readwrite_pragmas).              *)
WriteRun(p, status) ==
  /\ build[p] # None
  /\ WriteBuild(p, disk[build[p]].data, status, "wal")
  /\ UNCHANGED <<names, disturbed>>

RecordRun(p) ==
  /\ pc[p] = "record"
  /\ \/ WriteRun(p, "smoke_testing") /\ Goto(p, "smoke")
     \/ OpenMissing(p)

(* run_smoke_tests returns FALSE for a file it cannot open.                  *)
(* Mutant of SmokePasses: whatever opens is good.                            *)
SmokeOpens(p) == build[p] # None

SmokePasses(p) ==
  build[p] # None /\ disk[build[p]].data = "good"

SmokeTest(p) ==
  /\ pc[p] = "smoke"
  /\ \/ /\ SmokePasses(p)
        /\ Goto(p, "mark")
        /\ UNCHANGED <<build, strays>>
     \/ /\ ~SmokePasses(p)
        /\ DeleteBuild(p)
        /\ Ends(p, "rejected")
  /\ UNCHANGED <<index, previous, tmp, disk, aged, disturbed>>

MarkPublished(p) ==
  /\ pc[p] = "mark"
  /\ \/ WriteRun(p, "published") /\ Goto(p, "journal")
     \/ OpenMissing(p)

(* PRAGMA journal_mode = DELETE on the connection MarkPublished opened, then *)
(* close.  It may fail while another program holds the file.                 *)
LeaveWal(p) ==
  /\ pc[p] = "journal"
  /\ IF build[p] = None
     THEN UNCHANGED <<disk, aged>>
     ELSE WriteBuild(p, disk[build[p]].data, disk[build[p]].run, "delete")
  /\ Goto(p, "exists")
  /\ disturbed' = [disturbed EXCEPT ![p] = FALSE]
  /\ UNCHANGED names

StayInWal(p) ==
  /\ pc[p] = "journal"
  /\ LeaveBuild(p)
  /\ Ends(p, "kept")
  /\ UNCHANGED <<index, previous, tmp, disk, aged, disturbed>>

-----------------------------------------------------------------------------
(* atomic_swap.                                                              *)

(* Mutant of CheckTarget: a backup that is there is good enough.             *)
CheckTargetOnce(p) ==
  /\ pc[p] = "exists"
  /\ Goto(p, IF index = None \/ previous # None THEN "install" ELSE "unlink")
  /\ UNCHANGED <<names, disk, aged, disturbed>>

CheckTarget(p) ==
  /\ pc[p] = "exists"
  /\ Goto(p, IF index = None THEN "install" ELSE "unlink")
  /\ UNCHANGED <<names, disk, aged, disturbed>>

(* tmp.unlink(missing_ok=True): a killed run with this pid may have left it. *)
UnlinkLeftover(p) ==
  /\ pc[p] = "unlink"
  /\ tmp' = [tmp EXCEPT ![p] = None]
  /\ Goto(p, "link")
  /\ UNCHANGED <<index, previous, build, strays, disk, aged, disturbed>>

(* Mutant of Link: a rename in place of the hard link.                       *)
MoveAside(p) ==
  /\ pc[p] = "link"
  /\ index # None
  /\ tmp' = [tmp EXCEPT ![p] = index]
  /\ index' = None
  /\ Goto(p, "backup")
  /\ UNCHANGED <<previous, build, strays, disk, aged, disturbed>>

Link(p) ==
  /\ pc[p] = "link"
  /\ index # None
  /\ tmp' = [tmp EXCEPT ![p] = index]
  /\ Goto(p, "backup")
  /\ UNCHANGED <<index, previous, build, strays, disk, aged, disturbed>>

(* Mutant of StartCopy: the copy goes straight onto index.db.previous.       *)
CopyOverBackup(p) ==
  /\ pc[p] = "link"
  /\ index # None
  /\ \E i \in IF previous = None THEN Free ELSE {previous} :
       /\ tmp' = [tmp EXCEPT ![p] = i]
       /\ disk' = [disk EXCEPT ![i] =
                      File("partial", "none", "wal", disk[index].gen)]
       /\ Touch(i)
  /\ src' = [src EXCEPT ![p] = index]
  /\ pc' = [pc EXCEPT ![p] = "copying"]
  /\ UNCHANGED <<index, previous, build, strays, judged, outcome, disturbed>>

(* os.link raised: shutil.copy2 opens index.db and creates the new file.     *)
StartCopy(p) ==
  /\ pc[p] = "link"
  /\ index # None
  /\ \E i \in Free :
       /\ tmp' = [tmp EXCEPT ![p] = i]
       /\ disk' = [disk EXCEPT ![i] =
                      File("partial", "none", "wal", disk[index].gen)]
       /\ Touch(i)
  /\ src' = [src EXCEPT ![p] = index]
  /\ pc' = [pc EXCEPT ![p] = "copying"]
  /\ UNCHANGED <<index, previous, build, strays, judged, outcome, disturbed>>

FinishCopy(p) ==
  /\ pc[p] = "copying"
  /\ disk' = [disk EXCEPT ![tmp[p]] = disk[src[p]]]
  /\ src' = [src EXCEPT ![p] = None]
  /\ pc' = [pc EXCEPT ![p] = "backup"]
  /\ UNCHANGED <<names, aged, judged, outcome, disturbed>>

(* os.replace(tmp, previous): nothing happens when both name one inode.      *)
ReplacePrevious(p) ==
  /\ pc[p] = "backup"
  /\ IF tmp[p] = previous
     THEN UNCHANGED <<previous, tmp>>
     ELSE previous' = tmp[p] /\ tmp' = [tmp EXCEPT ![p] = None]
  /\ Goto(p, "tidy")
  /\ Disturb(p)
  /\ UNCHANGED <<index, build, strays, disk, aged>>

(* Mutant of UnlinkLink: the second unlink is left out.                      *)
NoTidy(p) ==
  /\ pc[p] = "tidy"
  /\ Goto(p, "install")
  /\ UNCHANGED <<names, disk, aged, disturbed>>

(* The unlink after the replace, which the no-op case needs.                 *)
UnlinkLink(p) ==
  /\ pc[p] = "tidy"
  /\ tmp' = [tmp EXCEPT ![p] = None]
  /\ Goto(p, "install")
  /\ UNCHANGED <<index, previous, build, strays, disk, aged, disturbed>>

(* os.replace(new_db_path, target_path), and publish_index returns TRUE.     *)
Install(p) ==
  /\ pc[p] = "install"
  /\ build[p] # None
  /\ index' = build[p]
  /\ build' = [build EXCEPT ![p] = None]
  /\ Ends(p, "published")
  /\ Disturb(p)
  /\ UNCHANGED <<previous, tmp, strays, disk, aged>>

(* The link and the copy both fail, the copy stops half way, the replace is  *)
(* refused, or a KeyboardInterrupt arrives: the except BaseException clause. *)
BackupFails(p) ==
  /\ pc[p] \in {"link", "copying", "backup"}
  /\ pc' = [pc EXCEPT ![p] = "cleanup"]
  /\ src' = [src EXCEPT ![p] = None]
  /\ UNCHANGED <<names, disk, aged, judged, outcome, disturbed>>

(* A PermissionError reaches publish_index, which returns FALSE; any other   *)
(* error goes up through build_index.  The build stays in both cases.        *)
GiveUp(p) ==
  /\ LeaveBuild(p)
  /\ \E how \in {"refused", "raised"} : Ends(p, how)
  /\ UNCHANGED <<index, previous, disk, aged, disturbed>>

(* The cleanup unlink removes the temporary name, or warns that it cannot.   *)
CleanUp(p) ==
  /\ pc[p] = "cleanup"
  /\ tmp' \in {tmp, [tmp EXCEPT ![p] = None]}
  /\ GiveUp(p)

(* An unlink outside the try is refused, or the last replace is; the last    *)
(* replace also fails when the build was swept.                              *)
SwapFails(p) ==
  /\ \/ pc[p] \in {"unlink", "tidy"} /\ tmp[p] # None
     \/ pc[p] = "install"
  /\ UNCHANGED tmp
  /\ GiveUp(p)

-----------------------------------------------------------------------------
(* rollback.                                                                 *)

CheckPrevious(p) ==
  /\ pc[p] = "idle"
  /\ previous # None
  /\ Goto(p, "restore")
  /\ UNCHANGED <<names, disk, aged, disturbed>>

(* Mutant of Restore: the two names change places.                           *)
SwapNames(p) ==
  /\ pc[p] = "restore"
  /\ previous # None
  /\ index' = previous
  /\ previous' = index
  /\ Ends(p, "restored")
  /\ Disturb(p)
  /\ UNCHANGED <<tmp, build, strays, disk, aged>>

Restore(p) ==
  /\ pc[p] = "restore"
  /\ previous # None
  /\ IF previous = index
     THEN UNCHANGED <<index, previous>>
     ELSE index' = previous /\ previous' = None
  /\ Ends(p, "restored")
  /\ Disturb(p)
  /\ UNCHANGED <<tmp, build, strays, disk, aged>>

(* Another rollback took the backup first, or the replace is refused.        *)
RestoreFails(p) ==
  /\ pc[p] = "restore"
  /\ Ends(p, "raised")
  /\ UNCHANGED <<names, disk, aged, disturbed>>

-----------------------------------------------------------------------------
(* The environment.  A process dies at any step (SIGKILL, power, the 180 s   *)
(* timeout of _auto_build_symbol_index) or leaves publish_index through an   *)
(* exception of SQLite; its files keep their names.  A day passes without a  *)
(* write to a build file.                                                    *)
Killed(p) ==
  /\ pc[p] # "idle"
  /\ LeaveBuild(p)
  /\ Ends(p, "killed")
  /\ UNCHANGED <<index, previous, tmp, disk, aged, disturbed>>

Age(i) ==
  /\ i \in BuildNames \ aged[None]
  /\ aged' = [aged EXCEPT ![None] = aged[None] \union {i}]
  /\ UNCHANGED <<names, disk, pc, src, judged, outcome, disturbed>>

-----------------------------------------------------------------------------
(* The directory starts empty or with one published index.                   *)
Init ==
  /\ index \in MaybeInode
  /\ previous = None
  /\ tmp = [p \in Proc |-> None]
  /\ build = [p \in Proc |-> None]
  /\ strays = {}
  /\ disk = [i \in Inode |-> [data |-> "good", run |-> "published",
                              mode |-> "delete", gen |-> i]]
  /\ aged = [c \in Cutoffs |-> {}]
  /\ pc = [p \in Proc |-> "idle"]
  /\ src = [p \in Proc |-> None]
  /\ judged = [p \in Proc |-> None]
  /\ outcome = [p \in Proc |-> "none"]
  /\ disturbed = [p \in Proc |-> FALSE]

SweepStep(p) == Begin(p) \/ JudgeStale(p) \/ UnlinkStale(p) \/ EndSweep(p)

BuildStep(p) == SweepStep(p) \/ Create(p) \/ FinishIngest(p) \/ FailIngest(p)

GateStep(p) ==
  RecordRun(p) \/ SmokeTest(p) \/ MarkPublished(p) \/ LeaveWal(p) \/ StayInWal(p)

BackupStep(p) ==
  \/ CheckTarget(p) \/ UnlinkLeftover(p) \/ Link(p) \/ StartCopy(p)
  \/ FinishCopy(p) \/ ReplacePrevious(p) \/ UnlinkLink(p)

SwapStep(p) == Install(p) \/ BackupFails(p) \/ CleanUp(p) \/ SwapFails(p)

RollbackStep(p) == CheckPrevious(p) \/ Restore(p) \/ RestoreFails(p)

Next ==
  \/ \E p \in Proc : \/ BuildStep(p) \/ GateStep(p) \/ BackupStep(p)
                     \/ SwapStep(p) \/ RollbackStep(p) \/ Killed(p)
  \/ \E i \in Inode : Age(i)

Spec == Init /\ [][Next]_vars
-----------------------------------------------------------------------------
(* Properties.                                                               *)

(* Every variable holds a value of its kind.                                 *)
TypeOK ==
  /\ index \in MaybeInode
  /\ previous \in MaybeInode
  /\ tmp \in [Proc -> MaybeInode]
  /\ build \in [Proc -> MaybeInode]
  /\ strays \subseteq Inode
  /\ disk \in [Inode -> Content]
  /\ aged \in [Cutoffs -> SUBSET Inode]
  /\ pc \in [Proc -> Steps]
  /\ src \in [Proc -> MaybeInode]
  /\ judged \in [Proc -> MaybeInode]
  /\ outcome \in [Proc -> Outcomes]
  /\ disturbed \in [Proc -> BOOLEAN]

(* Whatever interleaving of runs, kills, sweeps and rollbacks led here, both  *)
(* index.db and its backup, when they exist, are whole indexes: they passed  *)
(* the smoke tests, their run row says published, and they left WAL mode, so  *)
(* a reader needs no sidecar (publish_index, atomic_swap).                    *)
LiveComplete == \A i \in {index, previous} \ {None} : Complete(i)

(* A run that published left no index.db.previous.<pid>.tmp of its pid, even  *)
(* where the rename of the link onto the backup did nothing because both      *)
(* named one file, and even where a killed run with that pid had left one.    *)
PublishedLeavesNoTmp ==
  \A p \in Proc : outcome[p] = "published" => tmp[p] = None

(* index.db, once there, stays there at every step of every run: a server     *)
(* that starts in the middle of a publish never finds it missing ("index.db   *)
(* stays present throughout", atomic_swap).                                   *)
IndexNeverVanishes == [][index # None => index' # None]_vars

(* A run that replaces index.db while nobody else moves the two names has the *)
(* index it replaces in index.db.previous, whole, by link or by copy, and     *)
(* whatever earlier kills, refusals and leftovers it started from.            *)
ReplacedIsBackedUp ==
  [][\A p \in Proc :
       /\ pc[p] = "install"
       /\ outcome'[p] = "published"
       /\ index # None
       /\ ~disturbed[p]
       => /\ previous # None
          /\ Complete(previous)
          /\ disk[previous].gen = disk[index].gen]_vars

(* Nobody writes to a file while index.db or its backup names it: what a      *)
(* server has open never changes, although builds are written next to it and  *)
(* inodes are reused (the hard-linked backup is safe only because of this).   *)
LiveFilesFrozen ==
  [][\A i \in {index, previous} \ {None} : disk'[i] = disk[i]]_vars

(* Publishing implements the slot: the generations the two names denote, and  *)
(* those on their way from the one to the other.                              *)
GenOf(i) == IF i = None THEN None
            ELSE IF Complete(i) THEN disk[i].gen ELSE "damaged"

HeldGens ==
  {disk[i].gen : i \in {j \in {tmp[p] : p \in Proc} \ {None} : Complete(j)}
                        \union ({src[p] : p \in Proc} \ {None})}

Slot == INSTANCE IndexSlot WITH
          Gen <- Inode, live <- GenOf(index), backup <- GenOf(previous),
          held <- HeldGens

ImplementsSlot == Slot!SlotSpec
=============================================================================
