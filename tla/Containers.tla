----------------------------- MODULE Containers -----------------------------
(***************************************************************************)
(* What one run of the agentic benchmark makes at the Docker daemon and       *)
(* takes back: ContainerLauncher and Sandbox (sandbox.py), the probes         *)
(* (probe.py), run_jobs of host.py as far as it calls them, and the evidence  *)
(* in egress.py that the run was isolated.                                   *)
(*                                                                          *)
(* Every command may fail, time out with or without effect, or be the one     *)
(* during which the run is cancelled.  The cleanup itself cannot be           *)
(* cancelled: finish() and settle() wait for it.  A host that is killed       *)
(* outright cleans nothing up and is not modelled.                           *)
(*                                                                          *)
(* A thing is a pair of its kind and the job it belongs to, or Host.          *)
(***************************************************************************)
EXTENDS FiniteSets

CONSTANTS Job, Host

ASSUME HostAssumption == Host \notin Job

Kind == {"outside", "control", "network", "spool", "proxy", "probe", "worker"}
Thing == Kind \X (Job \union {Host})

VARIABLES
  world,      \* networks and containers of the daemon, log spools of the host
  late,       \* created by the daemon, and not visible there yet
  live,       \* jobs whose worker is running
  down,       \* jobs whose proxy ended by itself
  reported,   \* those of them that an error or a problem of the run names
  pc, job,    \* where the run is, and with which job
  failed,     \* an exception is on its way up
  cancelled,  \* the run has been cancelled
  owned,      \* what open_egress would have to take back
  outside,    \* outside_id is known
  egresses,   \* _egresses, until they are closed
  workers,    \* _worker_ids
  stage,      \* supervisors: "idle", "running" or "down"
  controlled, \* the record of the control probe says it passed
  probed,     \* so does that of the job's probe
  marked,     \* jobs with a collection-pending marker
  collected,  \* "ok" of the jobs' collected.json
  clean,      \* the collection under way has met no problem
  issues,     \* jobs that close() had a problem with
  summary     \* isolation_probe of egress/summary.json

daemon == <<world, late, reported>>
states == <<live, down>>
control == <<pc, job, failed, cancelled>>
handles == <<owned, outside, egresses, workers>>
evidence == <<controlled, probed, marked, collected, clean, issues, summary>>
vars == <<daemon, states, control, handles, stage, evidence>>

-----------------------------------------------------------------------------
(* Making and removing.                                                      *)

Made(thing) ==
  /\ ~cancelled
  /\ world' = world \union {thing}
  /\ UNCHANGED <<late, reported>>

(* Mutant of Undone: a create that timed out counts as one that failed.       *)
UndoneForgets(thing) ==
  /\ world' \in {world, world \union {thing}}
  /\ UNCHANGED <<late, reported>>

(* create_resource raises, or a probe does and takes its container away: the  *)
(* thing is gone again, or remove_owned or the removal names what may be left *)
(* or still appear.                                                         *)
Undone(thing) ==
  \/ UNCHANGED daemon
  \/ /\ reported' = reported \union {thing}
     /\ \/ world' = world \union {thing} /\ UNCHANGED late
        \/ late' = late \union {thing} /\ UNCHANGED world

(* Every removal is tried.  One that is said to fail may have had its effect. *)
(* No problem names what is left of untold.                                  *)
RemoveUntold(things, failing, untold) ==
  /\ \E left \in SUBSET failing :
       /\ world' = world \ (things \ left)
       /\ reported' = (reported \ things) \union ((left \ untold) \intersect world)
  /\ UNCHANGED late

Remove(things, failing) == RemoveUntold(things, failing, {})

StillLive == live' = {j \in live : <<"worker", j>> \in world'}

Goto(next) == pc' = next /\ UNCHANGED <<failed, cancelled>>

Abort(next) == pc' = next /\ failed' = TRUE /\ UNCHANGED cancelled

-----------------------------------------------------------------------------
(* prepare.                                                                  *)

Verify ==
  /\ pc = "verify"
  /\ (~cancelled /\ Goto("outside")) \/ Abort("close")
  /\ UNCHANGED <<daemon, states, job, handles, stage, evidence>>

EnsureOutside ==
  /\ pc = "outside"
  /\ \/ Made(<<"outside", Host>>) /\ outside' = TRUE /\ Goto("control")
     \/ Undone(<<"outside", Host>>) /\ UNCHANGED outside /\ Abort("close")
  /\ UNCHANGED <<states, job, owned, egresses, workers, stage, evidence>>

(* The container is created, runs and is removed.                            *)
ControlProbe ==
  /\ pc = "control"
  /\ \/ ~cancelled /\ controlled' = TRUE /\ Goto("network") /\ UNCHANGED daemon
     \/ Undone(<<"control", Host>>) /\ controlled' \in BOOLEAN /\ Abort("close")
  /\ UNCHANGED <<states, job, handles, stage, probed, marked, collected, clean, issues,
                 summary>>

(* open_egress: the job's network, ...                                       *)
MakeNetwork(j) ==
  /\ pc = "network" /\ j \notin egresses
  /\ \/ /\ Made(<<"network", j>>)
        /\ owned' = {<<"network", j>>} /\ job' = j /\ Goto("files")
     \/ Undone(<<"network", j>>) /\ UNCHANGED <<owned, job>> /\ Abort("close")
  /\ UNCHANGED <<states, outside, egresses, workers, stage, evidence>>

(* ... its inspection, the marker, the proxy's configuration and its spool,  *)
MakeFiles ==
  /\ pc = "files"
  /\ \E marker, spool \in BOOLEAN :
       /\ spool => marker
       /\ marked' = IF marker THEN marked \union {job} ELSE marked
       /\ world' = IF spool THEN world \union {<<"spool", job>>} ELSE world
       /\ owned' = IF spool THEN owned \union {<<"spool", job>>} ELSE owned
       /\ (spool /\ ~cancelled /\ Goto("proxy")) \/ Abort("rollback")
  /\ UNCHANGED <<late, reported, states, job, outside, egresses, workers, stage,
                 controlled, probed, collected, clean, issues, summary>>

(* ... the proxy,                                                            *)
MakeProxy ==
  /\ pc = "proxy"
  /\ \/ /\ Made(<<"proxy", job>>)
        /\ owned' = owned \union {<<"proxy", job>>} /\ Goto("connect")
     \/ Undone(<<"proxy", job>>) /\ UNCHANGED owned /\ Abort("rollback")
  /\ UNCHANGED <<states, job, outside, egresses, workers, stage, evidence>>

(* ... and their connection, which the launcher then owns.                   *)
Connect ==
  /\ pc = "connect"
  /\ \/ /\ ~cancelled /\ Goto("probe")
        /\ egresses' = egresses \union {job} /\ owned' = {}
     \/ Abort("rollback") /\ UNCHANGED <<owned, egresses>>
  /\ UNCHANGED <<daemon, states, job, outside, workers, stage, evidence>>

(* Mutant of Rollback: what was taken back is still held.                    *)
RollbackKeepsIds ==
  /\ pc = "rollback"
  /\ \E failing \in SUBSET owned : Remove(owned, failing)
  /\ job' = Host /\ Abort("close")
  /\ UNCHANGED <<states, handles, stage, evidence>>

Rollback ==
  /\ pc = "rollback"
  /\ \E failing \in SUBSET owned : Remove(owned, failing)
  /\ owned' = {} /\ job' = Host /\ Abort("close")
  /\ UNCHANGED <<states, outside, egresses, workers, stage, evidence>>

(* Mutant of Probe: a probe that fails is only recorded.                     *)
ProbeRecords ==
  /\ pc = "probe"
  /\ ~cancelled /\ Goto(IF egresses = Job THEN "worker" ELSE "network")
  /\ probed' \in {probed, probed \union {job}}
  /\ job' = Host
  /\ UNCHANGED <<daemon, states, handles, stage, controlled, marked, collected, clean,
                 issues, summary>>

Probe ==
  /\ pc = "probe"
  /\ \/ /\ ~cancelled /\ probed' = probed \union {job}
        /\ Goto(IF egresses = Job THEN "worker" ELSE "network") /\ UNCHANGED daemon
     \/ /\ Undone(<<"probe", job>>) /\ Abort("close")
        /\ probed' \in {probed, probed \union {job}}
  /\ job' = Host
  /\ UNCHANGED <<states, handles, stage, controlled, marked, collected, clean, issues,
                 summary>>

MakeWorker(j) ==
  /\ pc = "worker" /\ j \notin workers
  /\ \/ /\ Made(<<"worker", j>>)
        /\ workers' = workers \union {j}
        /\ Goto(IF workers' = Job THEN "keys" ELSE "worker")
     \/ Undone(<<"worker", j>>) /\ UNCHANGED workers /\ Abort("close")
  /\ UNCHANGED <<states, job, owned, outside, egresses, stage, evidence>>

(* The keys can be read.                                                     *)
ReadKeys ==
  /\ pc = "keys"
  /\ (~cancelled /\ Goto("jobs")) \/ Abort("close")
  /\ UNCHANGED <<daemon, states, job, handles, stage, evidence>>

-----------------------------------------------------------------------------
(* The jobs, each with its supervisor.                                       *)

Stage(j, s) == stage' = [stage EXCEPT ![j] = s]

(* docker start, which may fail.                                             *)
StartWorker(j) ==
  /\ pc = "jobs" /\ stage[j] = "idle" /\ ~failed /\ ~cancelled
  /\ Stage(j, "running")
  /\ live' \in {live, live \union {j}}
  /\ UNCHANGED <<daemon, down, control, handles, evidence>>

(* stop_worker in the teardown, after the worker is done or lost, or because  *)
(* another supervisor failed or the run was cancelled.                       *)
StopWorker(j) ==
  /\ pc = "jobs" /\ stage[j] = "running"
  /\ Stage(j, "down")
  /\ \E failing \in SUBSET {<<"worker", j>>} :
       /\ Remove({<<"worker", j>>}, failing)
       /\ workers' = IF failing = {} THEN workers \ {j} ELSE workers
       /\ failed' \in {failed \/ cancelled \/ failing # {}, TRUE}
  /\ StillLive
  /\ UNCHANGED <<down, pc, job, cancelled, owned, outside, egresses, evidence>>

(* A task that is cancelled before it ever ran.                              *)
NeverStarted(j) ==
  /\ pc = "jobs" /\ stage[j] = "idle" /\ (failed \/ cancelled)
  /\ Stage(j, "down")
  /\ failed' = TRUE
  /\ UNCHANGED <<daemon, states, pc, job, cancelled, handles, evidence>>

EndJobs ==
  /\ pc = "jobs" /\ \A j \in Job : stage[j] = "down"
  /\ Goto("close")
  /\ UNCHANGED <<daemon, states, job, handles, stage, evidence>>

-----------------------------------------------------------------------------
(* close.                                                                    *)

(* The workers that no supervisor removed; a failure is one of its job's      *)
(* problems.                                                                 *)
CloseWorkers ==
  /\ pc = "close"
  /\ \E failing \in SUBSET workers :
       /\ Remove({"worker"} \X workers, {"worker"} \X failing)
       /\ workers' = failing
       /\ issues' = issues \union failing
       /\ failed' = (failed \/ failing # {})
  /\ StillLive
  /\ pc' = "collect"
  /\ UNCHANGED <<down, job, cancelled, owned, outside, egresses, stage, controlled,
                 probed, marked, collected, clean, summary>>

(* close_egress: stop and remove the proxy and its network, copy the logs,    *)
(* remove the spool.  Docker keeps a network that a running container is on.  *)
(* Where the diagnostics are withheld, because they do not pass the scan for  *)
(* keys, only the failed removals of the proxy and the network are kept.      *)
StopEgress(j) ==
  /\ pc = "collect" /\ j \in egresses
  /\ LET things == {"proxy", "network", "spool"} \X {j}
     IN  \E failing \in SUBSET things, untold \in SUBSET {<<"spool", j>>} :
           /\ RemoveUntold(things, failing, untold)
           /\ clean' \in {FALSE, failing = {} /\ untold = {} /\ j \notin down}
  /\ j \in live => <<"network", j>> \in world'
  /\ egresses' = egresses \ {j}
  /\ job' = j /\ Goto("record")
  /\ UNCHANGED <<states, owned, outside, workers, stage, controlled, probed, marked,
                 collected, issues, summary>>

(* collected.json; and when it is good the marker goes last.  If that fails,  *)
(* the record is written again, which may fail as well.                      *)
Record ==
  /\ pc = "record"
  /\ \/ /\ clean
        /\ collected' = [collected EXCEPT ![job] = "ok"]
        /\ marked' = marked \ {job}
        /\ UNCHANGED <<issues, failed>>
     \/ /\ \E ok \in IF clean THEN {"none", "ok", "bad"} ELSE {"none", "bad"} :
             collected' = [collected EXCEPT ![job] = ok]
        /\ UNCHANGED marked
        /\ issues' = issues \union {job} /\ failed' = TRUE
  /\ pc' = "collect" /\ job' = Host /\ clean' = FALSE
  /\ UNCHANGED <<daemon, states, cancelled, handles, stage, controlled, probed, summary>>

RemoveOutside ==
  /\ pc = "collect" /\ egresses = {}
  /\ \E failing \in SUBSET IF outside THEN {<<"outside", Host>>} ELSE {} :
       /\ IF outside THEN Remove({<<"outside", Host>>}, failing) ELSE UNCHANGED daemon
       /\ outside' = (failing # {})
       /\ failed' = (failed \/ failing # {})
  /\ pc' = "summary"
  /\ UNCHANGED <<states, job, cancelled, owned, egresses, workers, stage, evidence>>

(* Mutant of JobHolds: the record alone is believed.                         *)
JobHoldsByRecord(j) == j \in probed /\ collected[j] = "ok"

(* _job_hosts, as far as it is about this run's cleanup.                     *)
JobHolds(j) == j \in probed /\ j \notin marked /\ collected[j] = "ok"

(* What the logs and the ledger say can make it fail as well.                *)
WriteSummary ==
  /\ pc = "summary"
  /\ summary' \in {"none", "fail",
                   IF controlled /\ \A j \in Job : JobHolds(j) THEN "pass" ELSE "fail"}
  /\ Goto("end")
  /\ UNCHANGED <<daemon, states, job, handles, stage, controlled, probed, marked,
                 collected, clean, issues>>

-----------------------------------------------------------------------------
(* Around the run.                                                           *)

(* A signal, or Ctrl-C.  It changes nothing once an exception is on its way,   *)
(* and nothing in close but what is raised in the end.                       *)
Cancel ==
  /\ ~cancelled /\ ~failed
  /\ pc \notin {"close", "collect", "record", "summary", "end"}
  /\ cancelled' = TRUE
  /\ UNCHANGED <<daemon, states, pc, job, failed, handles, stage, evidence>>

(* A worker ends, and its container with it (--rm).                          *)
WorkerExits(j) ==
  /\ j \in live
  /\ live' = live \ {j}
  /\ world' = world \ {<<"worker", j>>}
  /\ reported' = reported \ {<<"worker", j>>}
  /\ UNCHANGED <<late, down, control, handles, stage, evidence>>

ProxyDies(j) ==
  /\ j \in egresses \ down
  /\ down' = down \union {j}
  /\ UNCHANGED <<daemon, live, control, handles, stage, evidence>>

(* The daemon completes a create whose command was given up.                 *)
Appear ==
  /\ \E thing \in late : world' = world \union {thing} /\ late' = late \ {thing}
  /\ UNCHANGED <<reported, states, control, handles, stage, evidence>>

-----------------------------------------------------------------------------
Init ==
  /\ world = {} /\ late = {} /\ reported = {}
  /\ live = {} /\ down = {}
  /\ pc = "verify" /\ job = Host
  /\ failed = FALSE /\ cancelled = FALSE
  /\ owned = {} /\ outside = FALSE
  /\ egresses = {} /\ workers = {}
  /\ stage = [j \in Job |-> "idle"]
  /\ controlled = FALSE /\ probed = {}
  /\ marked = {} /\ collected = [j \in Job |-> "none"]
  /\ clean = FALSE /\ issues = {} /\ summary = "none"

Prepare ==
  \/ Verify \/ EnsureOutside \/ ControlProbe
  \/ \E j \in Job : MakeNetwork(j) \/ MakeWorker(j)
  \/ MakeFiles \/ MakeProxy \/ Connect \/ Rollback \/ Probe \/ ReadKeys

Supervise ==
  \/ \E j \in Job : StartWorker(j) \/ StopWorker(j) \/ NeverStarted(j)
  \/ EndJobs

CloseDown ==
  \/ CloseWorkers \/ Record \/ RemoveOutside \/ WriteSummary
  \/ \E j \in Job : StopEgress(j)

Around == Cancel \/ Appear \/ \E j \in Job : WorkerExits(j) \/ ProxyDies(j)

Next == Prepare \/ Supervise \/ CloseDown \/ Around

Spec == Init /\ [][Next]_vars

-----------------------------------------------------------------------------
(* Properties.                                                               *)

(* Every variable holds a value of its kind; open_egress holds nothing of its *)
(* job once it has returned or raised.                                       *)
TypeOK ==
  /\ world \subseteq Thing /\ late \subseteq Thing /\ reported \subseteq Thing
  /\ live \subseteq Job /\ down \subseteq Job
  /\ pc \in {"verify", "outside", "control", "network", "files", "proxy", "connect",
             "rollback", "probe", "worker", "keys", "jobs", "close", "collect", "record",
             "summary", "end"}
  /\ job \in Job \union {Host}
  /\ failed \in BOOLEAN /\ cancelled \in BOOLEAN /\ outside \in BOOLEAN
  /\ owned \subseteq {"network", "proxy", "spool"} \X {job}
  /\ owned # {} => pc \in {"files", "proxy", "connect", "rollback"}
  /\ egresses \subseteq Job /\ workers \subseteq Job
  /\ stage \in [Job -> {"idle", "running", "down"}]
  /\ controlled \in BOOLEAN /\ probed \subseteq Job
  /\ marked \subseteq Job /\ collected \in [Job -> {"none", "ok", "bad"}]
  /\ clean \in BOOLEAN /\ issues \subseteq Job
  /\ summary \in {"none", "pass", "fail"}

(* "Nothing of this job's may outlive the failure": when a run has ended,      *)
(* every network and container it made is gone, or an error it raised or      *)
(* printed names it, also when a create timed out and the daemon goes through *)
(* with it later, a removal failed on the way out of another failure, or the  *)
(* run was cancelled between the two.  A log spool is gone, named, or left to *)
(* a job that close() had a problem with.                                    *)
NothingLeftUnnamed ==
  pc = "end" =>
    \A thing \in world \union late :
      thing \in reported \/ \E j \in issues : thing = <<"spool", j>>

(* While any worker runs, the control probe and those of all jobs have passed *)
(* and its isolated network is there: a probe that fails for the last job      *)
(* keeps the worker of the first from starting.  That the network stays as     *)
(* long as the worker runs is Docker's doing, not the order of close().       *)
RunsIsolated ==
  live # {} => /\ controlled /\ probed = Job
               /\ \A j \in live : <<"network", j>> \in world

(* isolation_probe is "pass" only when "every collection was clean": all       *)
(* probes passed, no proxy ended before it was stopped, and no job's proxy,    *)
(* network or spool is left - also when the good record is there and the       *)
(* marker could not be removed, or the record could not be corrected after     *)
(* that.  No worker runs; closing had no problem with any job but that a       *)
(* stopped worker would not go, which its error names.                       *)
PassIsClean ==
  summary = "pass" =>
    /\ controlled /\ probed = Job
    /\ down = {} /\ live = {} /\ issues \subseteq workers
    /\ {"network", "proxy", "spool"} \X Job \intersect (world \union late) = {}
=============================================================================
