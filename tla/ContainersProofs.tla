-------------------------- MODULE ContainersProofs --------------------------
(* Proofs about Containers, for any number of jobs.                          *)
EXTENDS Containers, TLAPS

Closing == {"close", "collect", "record", "summary", "end"}
Launched == {"worker", "keys", "jobs"}
Opening == {"files", "proxy", "connect"}

(* What somebody still has to take back, and the spools of jobs that close()   *)
(* has a problem with.  What else it could not remove, an error names.       *)
EgressThings(j) == {<<"network", j>>, <<"proxy", j>>, <<"spool", j>>}

Gone(j) == EgressThings(j) \intersect (world \union late) = {}

Held(thing) ==
  \/ thing \in owned
  \/ \E j \in egresses : thing \in EgressThings(j)
  \/ thing = <<"outside", Host>> /\ outside /\ pc \notin {"summary", "end"}
  \/ \E j \in workers : thing = <<"worker", j>> /\ pc \notin Closing \ {"close"}
  \/ \E j \in issues : thing = <<"spool", j>>
  \/ thing = <<"spool", job>> /\ pc = "record" /\ ~clean

(* Nothing is forgotten: what is there is held by somebody or named.         *)
Accounted == \A thing \in world : thing \in reported \/ Held(thing)

(* What the daemon still has to create is named, and nobody holds it.        *)
LateIsNamed ==
  /\ late # {} => live = {} /\ pc \in Closing \union {"rollback"}
  /\ \A thing \in late :
       /\ thing \in reported /\ thing \notin owned
       /\ \A j \in egresses : thing \notin EgressThings(j)
       /\ \A j \in workers : thing # <<"worker", j>>
       /\ outside => thing # <<"outside", Host>>

(* The job that open_egress or close_egress works on.                        *)
AtWork ==
  /\ pc \in Opening \union {"rollback", "record"} => job \in Job \ egresses
  /\ pc \in Opening => <<"network", job>> \in owned \intersect world
  /\ pc \in {"files", "proxy"} => <<"proxy", job>> \notin owned
  /\ pc \in {"proxy", "connect", "record"} => job \in marked
  /\ pc = "probe" => job \in egresses
  /\ pc = "record" => job \notin issues \ workers
  /\ pc = "record" /\ clean => job \notin down /\ Gone(job)
  /\ pc \in {"summary", "end"} => egresses = {}

(* The order of preparation.                                                 *)
Ordered ==
  /\ pc \in {"verify", "outside"} => ~outside
  /\ pc \in {"verify", "outside", "control"} => egresses = {}
  /\ pc \in Opening \union {"network", "probe"} \union Launched => controlled
  /\ pc \notin Closing => probed \subseteq egresses
  /\ pc \notin Closing \ {"close"} => issues = {}
  /\ pc \in Opening \union {"network"} => egresses \subseteq probed
  /\ pc = "probe" => egresses \subseteq probed \union {job}
  /\ pc \in Launched => probed = Job /\ egresses = Job

(* Workers run in prepared networks.                                         *)
Isolated ==
  /\ \A j \in egresses : <<"network", j>> \in world
  /\ live # {} => controlled /\ probed = Job /\ pc \in Closing \union {"jobs"}
  /\ \A j \in live : <<"network", j>> \in world

(* A marker stays until its job's egress is collected without a problem.      *)
MarkersStay ==
  /\ egresses \union (issues \ workers) \union down \subseteq marked
  /\ (issues \ workers) \intersect egresses = {}
  /\ \A j \in probed \ marked : Gone(j)
  /\ summary # "none" => pc = "end"

IndInv ==
  /\ TypeOK /\ Accounted /\ LateIsNamed /\ AtWork /\ Ordered /\ Isolated
  /\ MarkersStay /\ PassIsClean

(* A run starts with nothing.                                                *)
LEMMA InitInd == Init => IndInv
BY DEF Init, IndInv, TypeOK, Accounted, LateIsNamed, AtWork, Ordered, Isolated,
       MarkersStay, PassIsClean, Closing, Launched, Opening, Thing, Kind

USE HostAssumption
 DEF IndInv, daemon, states, control, handles, evidence, Goto, Abort,
     Closing, Launched, Opening, EgressThings, Gone, Held

-----------------------------------------------------------------------------
(* Preparation.                                                              *)

LEMMA VerifyInd ==
  ASSUME IndInv, Verify
  PROVE  IndInv'
BY DEF Verify, TypeOK, Accounted, LateIsNamed, AtWork, Ordered, Isolated, MarkersStay,
       PassIsClean

LEMMA EnsureOutsideInd ==
  ASSUME IndInv, EnsureOutside
  PROVE  IndInv'
<1> USE DEF EnsureOutside, Made, Undone
<1>1. TypeOK'
  <2>1. <<"outside", Host>> \in Thing
    BY DEF Thing, Kind, TypeOK, AtWork
  <2>2. world' \subseteq Thing /\ late' \subseteq Thing /\ reported' \subseteq Thing
    BY <2>1 DEF TypeOK
  <2>3. owned' \subseteq {"network", "proxy", "spool"} \X {job'}
    BY DEF TypeOK, AtWork
  <2> QED BY <2>2, <2>3 DEF TypeOK, AtWork, Ordered
<1>2. LateIsNamed'
  BY DEF LateIsNamed, TypeOK, Ordered, Isolated
<1>3. Accounted' /\ AtWork' /\ Ordered' /\ Isolated' /\ MarkersStay' /\ PassIsClean'
  BY DEF Accounted, AtWork, Ordered, Isolated, MarkersStay, PassIsClean
<1> QED BY <1>1, <1>2, <1>3

LEMMA ControlProbeInd ==
  ASSUME IndInv, ControlProbe
  PROVE  IndInv'
<1> USE DEF ControlProbe, Undone
<1>1. TypeOK'
  <2>1. <<"control", Host>> \in Thing
    BY DEF Thing, Kind, TypeOK, AtWork
  <2>2. world' \subseteq Thing /\ late' \subseteq Thing /\ reported' \subseteq Thing
    BY <2>1 DEF TypeOK
  <2>3. owned' \subseteq {"network", "proxy", "spool"} \X {job'}
    BY DEF TypeOK, AtWork
  <2> QED BY <2>2, <2>3 DEF TypeOK, AtWork, Ordered
<1>2. LateIsNamed'
  BY DEF LateIsNamed, TypeOK, Isolated
<1>3. PassIsClean'
  BY DEF PassIsClean, MarkersStay
<1>4. Accounted' /\ AtWork' /\ Ordered' /\ Isolated' /\ MarkersStay'
  BY DEF Accounted, AtWork, Ordered, Isolated, MarkersStay
<1> QED BY <1>1, <1>2, <1>3, <1>4

LEMMA MakeNetworkInd ==
  ASSUME IndInv, NEW j \in Job, MakeNetwork(j)
  PROVE  IndInv'
<1> USE DEF MakeNetwork, Made, Undone
<1>1. TypeOK'
  <2>1. <<"network", j>> \in Thing
    BY DEF Thing, Kind, TypeOK, AtWork
  <2>2. world' \subseteq Thing /\ late' \subseteq Thing /\ reported' \subseteq Thing
    BY <2>1 DEF TypeOK
  <2>3. owned' \subseteq {"network", "proxy", "spool"} \X {job'}
    BY DEF TypeOK, AtWork
  <2> QED BY <2>2, <2>3 DEF TypeOK, AtWork, Ordered
<1>2. Accounted'
  BY DEF Accounted, TypeOK
<1>3. LateIsNamed'
  BY DEF LateIsNamed, TypeOK, Isolated
<1>4. MarkersStay'
  BY DEF MarkersStay, Ordered
<1>5. PassIsClean'
  BY DEF PassIsClean, Ordered
<1>6. AtWork' /\ Ordered' /\ Isolated'
  BY DEF AtWork, Ordered, Isolated
<1> QED BY <1>1, <1>2, <1>3, <1>4, <1>5, <1>6

LEMMA MakeFilesInd ==
  ASSUME IndInv, MakeFiles
  PROVE  IndInv'
<1> USE DEF MakeFiles
<1>1. TypeOK'
  <2>1. <<"spool", job>> \in Thing
    BY DEF Thing, Kind, TypeOK, AtWork
  <2>2. world' \subseteq Thing /\ late' \subseteq Thing /\ reported' \subseteq Thing
    BY <2>1 DEF TypeOK
  <2>3. owned' \subseteq {"network", "proxy", "spool"} \X {job'}
    BY DEF TypeOK, AtWork
  <2> QED BY <2>2, <2>3 DEF TypeOK, AtWork, Ordered
<1>2. PassIsClean'
  BY DEF PassIsClean, AtWork
<1>3. Accounted' /\ LateIsNamed' /\ AtWork' /\ Ordered' /\ Isolated' /\ MarkersStay'
  BY DEF Accounted, LateIsNamed, AtWork, Ordered, Isolated, MarkersStay
<1> QED BY <1>1, <1>2, <1>3

LEMMA MakeProxyInd ==
  ASSUME IndInv, MakeProxy
  PROVE  IndInv'
<1> USE DEF MakeProxy, Made, Undone
<1>1. TypeOK'
  <2>1. <<"proxy", job>> \in Thing
    BY DEF Thing, Kind, TypeOK, AtWork
  <2>2. world' \subseteq Thing /\ late' \subseteq Thing /\ reported' \subseteq Thing
    BY <2>1 DEF TypeOK
  <2>3. owned' \subseteq {"network", "proxy", "spool"} \X {job'}
    BY DEF TypeOK, AtWork
  <2> QED BY <2>2, <2>3 DEF TypeOK, AtWork, Ordered
<1>2. LateIsNamed'
  BY DEF LateIsNamed, TypeOK, AtWork, Isolated
<1>3. MarkersStay'
  BY DEF MarkersStay, AtWork
<1>4. PassIsClean'
  BY DEF PassIsClean, AtWork
<1>5. Accounted' /\ AtWork' /\ Ordered' /\ Isolated'
  BY DEF Accounted, AtWork, Ordered, Isolated
<1> QED BY <1>1, <1>2, <1>3, <1>4, <1>5

(* What open_egress owned is the launcher's.                                 *)
LEMMA ConnectInd ==
  ASSUME IndInv, Connect
  PROVE  IndInv'
<1> USE DEF Connect
<1>1. TypeOK'
  BY DEF TypeOK, AtWork
<1>2. Accounted'
  BY DEF Accounted, TypeOK
<1>3. Isolated'
  BY DEF Isolated, AtWork
<1>4. MarkersStay'
  BY DEF MarkersStay, TypeOK, AtWork, Ordered
<1>5. LateIsNamed' /\ AtWork' /\ Ordered' /\ PassIsClean'
  BY DEF LateIsNamed, AtWork, Ordered, PassIsClean
<1> QED BY <1>1, <1>2, <1>3, <1>4, <1>5

(* Whatever is left of what open_egress made has a name.                     *)
LEMMA RollbackInd ==
  ASSUME IndInv, Rollback
  PROVE  IndInv'
<1> USE DEF Rollback, Remove, RemoveUntold
<1>1. Isolated'
  BY DEF Isolated, TypeOK, AtWork
<1>2. TypeOK' /\ Accounted' /\ LateIsNamed' /\ AtWork' /\ Ordered' /\ MarkersStay' /\
     PassIsClean'
  BY DEF TypeOK, Accounted, LateIsNamed, AtWork, Ordered, MarkersStay, PassIsClean
<1> QED BY <1>1, <1>2

LEMMA ProbeInd ==
  ASSUME IndInv, Probe
  PROVE  IndInv'
<1> USE DEF Probe, Undone
<1>1. TypeOK'
  <2>1. <<"probe", job>> \in Thing
    BY DEF Thing, Kind, TypeOK, AtWork
  <2>2. world' \subseteq Thing /\ late' \subseteq Thing /\ reported' \subseteq Thing
    BY <2>1 DEF TypeOK
  <2>3. owned' \subseteq {"network", "proxy", "spool"} \X {job'}
    BY DEF TypeOK, AtWork
  <2> QED BY <2>2, <2>3 DEF TypeOK, AtWork, Ordered
<1>2. LateIsNamed'
  BY DEF LateIsNamed, TypeOK, Isolated
<1>3. Ordered'
  BY DEF Ordered, AtWork
<1>4. MarkersStay'
  BY DEF MarkersStay, AtWork
<1>5. PassIsClean'
  BY DEF PassIsClean, MarkersStay
<1>6. Accounted' /\ AtWork' /\ Isolated'
  BY DEF Accounted, AtWork, Isolated
<1> QED BY <1>1, <1>2, <1>3, <1>4, <1>5, <1>6

LEMMA MakeWorkerInd ==
  ASSUME IndInv, NEW j \in Job, MakeWorker(j)
  PROVE  IndInv'
<1> USE DEF MakeWorker, Made, Undone
<1>1. TypeOK'
  <2>1. <<"worker", j>> \in Thing
    BY DEF Thing, Kind, TypeOK, AtWork
  <2>2. world' \subseteq Thing /\ late' \subseteq Thing /\ reported' \subseteq Thing
    BY <2>1 DEF TypeOK
  <2>3. owned' \subseteq {"network", "proxy", "spool"} \X {job'}
    BY DEF TypeOK, AtWork
  <2> QED BY <2>2, <2>3 DEF TypeOK, AtWork, Ordered
<1>2. LateIsNamed'
  BY DEF LateIsNamed, TypeOK, Isolated
<1>3. Accounted' /\ AtWork' /\ Ordered' /\ Isolated' /\ MarkersStay' /\ PassIsClean'
  BY DEF Accounted, AtWork, Ordered, Isolated, MarkersStay, PassIsClean
<1> QED BY <1>1, <1>2, <1>3

LEMMA ReadKeysInd ==
  ASSUME IndInv, ReadKeys
  PROVE  IndInv'
BY DEF ReadKeys, TypeOK, Accounted, LateIsNamed, AtWork, Ordered, Isolated,
       MarkersStay, PassIsClean

-----------------------------------------------------------------------------
(* The jobs.                                                                 *)

LEMMA StartWorkerInd ==
  ASSUME IndInv, NEW j \in Job, StartWorker(j)
  PROVE  IndInv'
<1> USE DEF StartWorker, Stage
<1>1. Isolated'
  BY DEF Isolated, Ordered
<1>2. PassIsClean'
  BY DEF PassIsClean, MarkersStay
<1>3. TypeOK' /\ Accounted' /\ LateIsNamed' /\ AtWork' /\ Ordered' /\ MarkersStay'
  BY DEF TypeOK, Accounted, LateIsNamed, AtWork, Ordered, MarkersStay
<1> QED BY <1>1, <1>2, <1>3

LEMMA StopWorkerInd ==
  ASSUME IndInv, NEW j \in Job, StopWorker(j)
  PROVE  IndInv'
<1> USE DEF StopWorker, Stage, Remove, RemoveUntold, StillLive
<1>1. TypeOK'
  BY DEF TypeOK
<1>2. Accounted'
  BY DEF Accounted, AtWork
<1>3. MarkersStay'
  BY DEF MarkersStay, Ordered
<1>4. PassIsClean'
  BY DEF PassIsClean, MarkersStay
<1>5. LateIsNamed' /\ AtWork' /\ Ordered' /\ Isolated'
  BY DEF LateIsNamed, AtWork, Ordered, Isolated
<1> QED BY <1>1, <1>2, <1>3, <1>4, <1>5

LEMMA NeverStartedInd ==
  ASSUME IndInv, NEW j \in Job, NeverStarted(j)
  PROVE  IndInv'
BY DEF NeverStarted, Stage, TypeOK, Accounted, LateIsNamed, AtWork, Ordered, Isolated,
       MarkersStay, PassIsClean

LEMMA EndJobsInd ==
  ASSUME IndInv, EndJobs
  PROVE  IndInv'
<1> USE DEF EndJobs
<1>1. Accounted'
  BY DEF Accounted
<1>2. MarkersStay' /\ PassIsClean'
  BY DEF MarkersStay, PassIsClean
<1>3. TypeOK' /\ LateIsNamed' /\ AtWork' /\ Ordered' /\ Isolated'
  BY DEF TypeOK, LateIsNamed, AtWork, Ordered, Isolated
<1> QED BY <1>1, <1>2, <1>3

-----------------------------------------------------------------------------
(* close.                                                                    *)

LEMMA CloseWorkersInd ==
  ASSUME IndInv, CloseWorkers
  PROVE  IndInv'
<1> USE DEF CloseWorkers, Remove, RemoveUntold, StillLive
<1>1. TypeOK'
  BY DEF TypeOK
<1>2. Accounted'
  BY DEF Accounted
<1>3. LateIsNamed'
  BY DEF LateIsNamed
<1>4. Isolated'
  BY DEF Isolated
<1>5. MarkersStay'
  BY DEF MarkersStay, Ordered
<1>6. PassIsClean'
  BY DEF PassIsClean, MarkersStay
<1>7. AtWork' /\ Ordered'
  BY DEF AtWork, Ordered
<1> QED BY <1>1, <1>2, <1>3, <1>4, <1>5, <1>6, <1>7

(* A record that will be good follows only on an egress that is gone.        *)
LEMMA StopEgressInd ==
  ASSUME IndInv, NEW j \in Job, StopEgress(j)
  PROVE  IndInv'
<1> USE DEF StopEgress, Remove, RemoveUntold
<1>1. TypeOK'
  BY DEF TypeOK
<1>2. Accounted'
  <2> SUFFICES ASSUME NEW thing \in world', thing \notin reported'
               PROVE  Held(thing)'
    BY DEF Accounted
  <2>1. CASE thing \in EgressThings(j)
    <3> DEFINE things == {"proxy", "network", "spool"} \X {j}
    <3>1. PICK failing \in SUBSET things, untold \in SUBSET {<<"spool", j>>} :
            /\ RemoveUntold(things, failing, untold)
            /\ clean' \in {FALSE, failing = {} /\ untold = {} /\ j \notin down}
      OBVIOUS
    <3>2. thing \in things /\ thing \in untold
      BY <2>1, <3>1
    <3>3. thing = <<"spool", j>> /\ ~clean'
      BY <3>1, <3>2
    <3> QED BY <3>3
  <2>2. CASE thing \notin EgressThings(j)
    <3>1. thing \in world /\ thing \notin reported
      BY <2>2
    <3> QED BY <2>2, <3>1 DEF Accounted
  <2> QED BY <2>1, <2>2
<1>3. LateIsNamed'
  BY DEF LateIsNamed
<1>4. AtWork'
  <2>1. clean' => j \notin down /\ Gone(j)'
    <3> SUFFICES ASSUME clean' PROVE j \notin down /\ Gone(j)'
      OBVIOUS
    <3>1. world' = world \ ({"proxy", "network", "spool"} \X {j}) /\ j \notin down
      OBVIOUS
    <3> QED BY <3>1 DEF LateIsNamed
  <2> QED BY <2>1 DEF AtWork, MarkersStay, TypeOK
<1>5. Isolated'
  BY DEF Isolated
<1>6. MarkersStay'
  BY DEF MarkersStay
<1>7. Ordered' /\ PassIsClean'
  BY DEF Ordered, PassIsClean
<1> QED BY <1>1, <1>2, <1>3, <1>4, <1>5, <1>6, <1>7

LEMMA RecordInd ==
  ASSUME IndInv, Record
  PROVE  IndInv'
<1> USE DEF Record
<1>1. TypeOK'
  BY DEF TypeOK, AtWork
<1>2. MarkersStay'
  BY DEF MarkersStay, AtWork
<1>3. PassIsClean'
  BY DEF PassIsClean, MarkersStay
<1>4. Accounted' /\ LateIsNamed' /\ AtWork' /\ Ordered' /\ Isolated'
  BY DEF Accounted, LateIsNamed, AtWork, Ordered, Isolated
<1> QED BY <1>1, <1>2, <1>3, <1>4

LEMMA RemoveOutsideInd ==
  ASSUME IndInv, RemoveOutside
  PROVE  IndInv'
BY DEF RemoveOutside, Remove, RemoveUntold, TypeOK, Accounted, LateIsNamed, AtWork, Ordered,
       Isolated, MarkersStay, PassIsClean

(* All markers are gone, and with them all egresses and all workers.         *)
LEMMA WriteSummaryInd ==
  ASSUME IndInv, WriteSummary
  PROVE  IndInv'
<1> USE DEF WriteSummary
<1>1. PassIsClean'
  <2> SUFFICES ASSUME summary' = "pass"
               PROVE  /\ controlled /\ probed = Job /\ down = {} /\ live = {}
                      /\ issues \subseteq workers
                      /\ {"network", "proxy", "spool"} \X Job \intersect (world \union late) = {}
    BY DEF PassIsClean
  <2>1. controlled /\ \A j \in Job : j \in probed /\ j \notin marked
    BY DEF JobHolds
  <2>2. probed = Job /\ marked = {}
    BY <2>1 DEF TypeOK
  <2>3. \A j \in Job : Gone(j)
    BY <2>2 DEF MarkersStay
  <2>4. live = {}
    BY <2>3 DEF Isolated, TypeOK
  <2> QED BY <2>1, <2>2, <2>3, <2>4 DEF MarkersStay
<1>2. TypeOK' /\ Accounted' /\ LateIsNamed' /\ AtWork' /\ Ordered' /\ Isolated' /\
     MarkersStay'
  BY DEF TypeOK, Accounted, LateIsNamed, AtWork, Ordered, Isolated, MarkersStay
<1> QED BY <1>1, <1>2

-----------------------------------------------------------------------------
(* Around the run.                                                           *)

LEMMA CancelInd ==
  ASSUME IndInv, Cancel
  PROVE  IndInv'
BY DEF Cancel, TypeOK, Accounted, LateIsNamed, AtWork, Ordered, Isolated, MarkersStay,
       PassIsClean

LEMMA WorkerExitsInd ==
  ASSUME IndInv, NEW j \in Job, WorkerExits(j)
  PROVE  IndInv'
BY DEF WorkerExits, TypeOK, Accounted, LateIsNamed, AtWork, Ordered, Isolated,
       MarkersStay, PassIsClean

LEMMA ProxyDiesInd ==
  ASSUME IndInv, NEW j \in Job, ProxyDies(j)
  PROVE  IndInv'
<1> USE DEF ProxyDies
<1>1. PassIsClean'
  BY DEF PassIsClean, Isolated
<1>2. TypeOK' /\ Accounted' /\ LateIsNamed' /\ AtWork' /\ Ordered' /\ Isolated' /\
     MarkersStay'
  BY DEF TypeOK, Accounted, LateIsNamed, AtWork, Ordered, Isolated, MarkersStay
<1> QED BY <1>1, <1>2

LEMMA AppearInd ==
  ASSUME IndInv, Appear
  PROVE  IndInv'
<1> USE DEF Appear
<1>1. Accounted'
  BY DEF Accounted, LateIsNamed
<1>2. TypeOK' /\ LateIsNamed' /\ AtWork' /\ Ordered' /\ Isolated' /\ MarkersStay' /\
     PassIsClean'
  BY DEF TypeOK, LateIsNamed, AtWork, Ordered, Isolated, MarkersStay, PassIsClean
<1> QED BY <1>1, <1>2

-----------------------------------------------------------------------------
(* All steps.                                                                *)

LEMMA StutterInd ==
  ASSUME IndInv, UNCHANGED vars
  PROVE  IndInv'
BY DEF vars, TypeOK, Accounted, LateIsNamed, AtWork, Ordered, Isolated, MarkersStay,
       PassIsClean

LEMMA StepInd == IndInv /\ [Next]_vars => IndInv'
<1> SUFFICES ASSUME IndInv, [Next]_vars PROVE IndInv'
  OBVIOUS
<1> HIDE DEF IndInv
<1>1. CASE Prepare
  BY <1>1, VerifyInd, EnsureOutsideInd, ControlProbeInd, MakeNetworkInd, MakeFilesInd,
     MakeProxyInd, ConnectInd, RollbackInd, ProbeInd, MakeWorkerInd, ReadKeysInd
  DEF Prepare
<1>2. CASE Supervise
  BY <1>2, StartWorkerInd, StopWorkerInd, NeverStartedInd, EndJobsInd DEF Supervise
<1>3. CASE CloseDown
  BY <1>3, CloseWorkersInd, StopEgressInd, RecordInd, RemoveOutsideInd, WriteSummaryInd
  DEF CloseDown
<1>4. CASE Around
  BY <1>4, CancelInd, WorkerExitsInd, ProxyDiesInd, AppearInd DEF Around
<1> QED BY <1>1, <1>2, <1>3, <1>4, StutterInd DEF Next

LEMMA Inductive == Spec => []IndInv
<1> HIDE DEF IndInv
<1> QED BY InitInd, StepInd, PTL DEF Spec

(* Every variable of a run keeps its type, and open_egress holds nothing once  *)
(* it has returned or raised: for any jobs, wherever a command fails, times    *)
(* out or the run is cancelled.                                              *)
THEOREM TypeCorrect == Spec => []TypeOK
<1>1. IndInv => TypeOK
  OBVIOUS
<1> QED BY Inductive, <1>1, PTL

(* When a run of any number of jobs has ended, every network and container     *)
(* that it made is gone or named by an error, and so is every spool, but those *)
(* of jobs that close() had a problem with: whatever it had to take back was    *)
(* held by the launcher, or had been named by whoever failed.                 *)
THEOREM NothingIsLeftUnnamed == Spec => []NothingLeftUnnamed
<1>1. IndInv => NothingLeftUnnamed
  BY DEF NothingLeftUnnamed, Accounted, LateIsNamed, TypeOK, AtWork
<1> QED BY Inductive, <1>1, PTL

(* No worker runs before the probes of all jobs have passed, and none without  *)
(* its isolated network, for any number of jobs.                             *)
THEOREM WorkersAreIsolated == Spec => []RunsIsolated
<1>1. IndInv => RunsIsolated
  BY DEF RunsIsolated, Isolated
<1> QED BY Inductive, <1>1, PTL

(* A summary that says "pass" was written by a run whose probes all passed, of *)
(* whose egresses nothing is left and of which nothing runs; closing it had no *)
(* problem but with stopped workers that would not go.                       *)
THEOREM PassesAreClean == Spec => []PassIsClean
<1>1. IndInv => PassIsClean
  OBVIOUS
<1> QED BY Inductive, <1>1, PTL
=============================================================================
