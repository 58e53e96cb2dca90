---------------------------- MODULE BatchGrading ----------------------------
(***************************************************************************)
(* Grading the items of one judge in provider batches: the host's item      *)
(* source and job (agentic/host.py), the worker that submits and reads      *)
(* batches (grading/worker_task.py, batch.py) and the collector that writes  *)
(* vote records (grading/run.py, aggregate.py), over several invocations of  *)
(* agentic-grade.                                                           *)
(*                                                                          *)
(* The worker asks for a unit, the host gives it items, the worker sends     *)
(* their results back row by row and settles.  The host keeps the rows aside  *)
(* until the ledger has the settlement, and only then gives them to the      *)
(* collector, which writes a vote and then a receipt for it.  The worker may  *)
(* be lost and the host be killed between any two steps; what is left is on  *)
(* disk and the next invocation starts from there.                           *)
(*                                                                          *)
(* The queue is a set: its order is the planned one throughout and decides   *)
(* only which items fit a unit, which is left open here.                     *)
(***************************************************************************)
EXTENDS Naturals, FiniteSets

CONSTANTS Item, MaxAttempts, FailureLimit, MaxRuns,
          Starts        \* what earlier invocations, numbered 0, may have left

ASSUME BoundsAssumption ==
  /\ MaxAttempts \in Nat \ {0}
  /\ FailureLimit \in Nat \ {0}
  /\ MaxRuns \in Nat
  /\ Starts \subseteq
       [run   : 0 .. MaxRuns,
        votes : SUBSET [item : Item, run : {0}, attempt : 1 .. MaxAttempts,
                        final : BOOLEAN, torn : {FALSE}]]

VARIABLES
  run,        \* number of the invocation
  phase,      \* of the invocation
  pc,         \* next step of the worker
  plan,       \* items this invocation set out to grade
  pending,    \* ItemSource._pending
  held,       \* ItemSource._taken of the unit
  attempts,   \* ItemSource._attempts
  paid,       \* ItemSource._paid
  notRun,     \* ItemSource._not_run
  unit,       \* _GradingJob.unit is set
  failures,   \* _GradingJob.failures
  stage,      \* rows in _GradingJob.stage that are not published
  terminals,  \* _GradingJob.terminals, as rows
  writing,    \* the row whose vote is written and whose receipt is not
  votes,      \* vote records on disk
  receipts,   \* execution records on disk
  manifest,   \* _Collector.execution_results
  runFiles,   \* runs/<id>.json on disk
  booked,     \* history: what the ledger has of the last unit
  graded,     \* history: items whose settled result is a vote
  charged,    \* history: items a settled unit charged without a vote
  clean       \* history: no write of this invocation failed

source == <<plan, pending, held, attempts, paid, notRun>>
job == <<unit, failures, stage, terminals>>
disk == <<votes, receipts, manifest, runFiles>>
ledger == <<booked, graded, charged>>
vars == <<run, phase, pc, source, job, writing, disk, ledger, clean>>

(* What a row of batch_results says of its item.  A "vote" succeeded, also   *)
(* when the reply is withheld; "free" is unbilled or reports zero usage;      *)
(* "paid" is an error that is billed, by its usage or at twice its bound;     *)
(* "failed" is a row of a batch the provider refused to run, never retried.   *)
Status == {"vote", "free", "paid", "missing", "failed"}

Retryable == {"free", "paid", "missing"}

Row == [item : Item, attempt : Nat, status : Status, terminal : BOOLEAN]

Reasons == {"retries_exhausted", "batch_failed", "submit_rejected",
            "budget_stop", "whole_batch_failures", "worker_lost"}

NotRun == [item : Item, reason : Reasons, attempt : Nat]

Vote == [item : Item, run : Nat, attempt : Nat, final : BOOLEAN, torn : BOOLEAN]

NoRow == [item |-> "none"]

Exhausted(i) == attempts[i] >= MaxAttempts

Entries(S, reason) ==
  {[item |-> i, reason |-> reason, attempt |-> attempts[i]] : i \in S}

-----------------------------------------------------------------------------
(* What the next invocation reads from disk.                                 *)

HasFinal(i) == \E v \in votes : v.item = i /\ v.final

(* json_mapping raises on a record that is not whole.                        *)
Readable == \A v \in votes : ~v.torn

Final(row) == row.status = "vote" \/ row.terminal

(* The file of a record is named by its item, its invocation and its take.   *)
VoteOf(row, torn) ==
  [item |-> row.item, run |-> run, attempt |-> row.attempt,
   final |-> Final(row) /\ ~torn, torn |-> torn]

NameTaken(row) ==
  \E v \in votes : v.item = row.item /\ v.run = run /\ v.attempt = row.attempt

-----------------------------------------------------------------------------
(* _prepare: an item with a final record is not planned again.               *)

Unfinished == {i \in Item : ~HasFinal(i)}

StartRun ==
  /\ phase = "idle"
  /\ run < MaxRuns
  /\ Readable
  /\ run' = run + 1
  /\ plan' = Unfinished
  /\ pending' = plan'
  /\ held' = {}
  /\ attempts' = [i \in Item |-> 0]
  /\ phase' = IF plan' = {} THEN "closing" ELSE "running"
  /\ pc' = "reserve"
  /\ unit' = FALSE
  /\ failures' = 0
  /\ booked' = "none"
  /\ clean' = TRUE
  /\ paid' = {} /\ notRun' = {}
  /\ stage' = {} /\ terminals' = {} /\ manifest' = {}
  /\ graded' = {} /\ charged' = {}
  /\ UNCHANGED <<writing, votes, receipts, runFiles>>

-----------------------------------------------------------------------------
(* _publications: host-written terminals first, then the rows of a unit that *)
(* is settled.  A frame is handled and answered before the next is read, so  *)
(* the worker goes on when everything is published.                          *)

Publications ==
  IF terminals # {} THEN terminals ELSE IF unit THEN {} ELSE stage

Working(step) == phase = "running" /\ pc = step /\ Publications = {}

(* Mutant of Lose: the queue is emptied without a word.                       *)
LoseSilently(lost, reason) ==
  /\ notRun' = notRun \union Entries(lost, reason)
  /\ pending' = {}
  /\ held' = held \ lost

(* ItemSource.lose for an invocation that ends: what it holds, what it has    *)
(* not begun.                                                                *)
Lose(lost, reason) ==
  /\ notRun' = notRun \union Entries(lost \union pending, reason)
  /\ pending' = {}
  /\ held' = held \ lost

(* _reserve is denied: two units without results, no budget, or a stop.      *)
Deny ==
  /\ Working("reserve")
  /\ pending # {} \/ failures >= FailureLimit
  /\ \/ failures >= FailureLimit /\ Lose({}, "whole_batch_failures")
     \/ failures < FailureLimit /\ Lose({}, "budget_stop")
  /\ pc' = "done"
  /\ UNCHANGED <<run, phase, plan, attempts, paid, job, writing, disk, ledger,
                 clean>>

MayReserve == failures < FailureLimit

(* A grant: source.take assigns the items and counts the attempt.            *)
Grant ==
  /\ Working("reserve")
  /\ MayReserve
  /\ \E S \in SUBSET pending \ {{}} :
       /\ held' = S
       /\ pending' = pending \ S
       /\ attempts' = [i \in Item |-> attempts[i] + IF i \in S THEN 1 ELSE 0]
  /\ unit' = TRUE
  /\ booked' = "open"
  /\ pc' = "submit"
  /\ UNCHANGED <<run, phase, plan, paid, notRun, failures, stage, terminals,
                 writing, disk, graded, charged, clean>>

NoMoreItems ==
  /\ Working("reserve")
  /\ pending = {}
  /\ MayReserve
  /\ pc' = "done"
  /\ UNCHANGED <<run, phase, source, job, writing, disk, ledger, clean>>

-----------------------------------------------------------------------------
(* The worker's calls to the provider.                                       *)

(* batches.create answered; then poll until the provider is done.            *)
Submit ==
  /\ Working("submit")
  /\ pc' = "poll"
  /\ UNCHANGED <<run, phase, source, job, writing, disk, ledger, clean>>

PollTerminal ==
  /\ Working("poll")
  /\ pc' = "read"
  /\ UNCHANGED <<run, phase, source, job, writing, disk, ledger, clean>>

(* The last take of an item without a vote is recorded as such by the host   *)
(* when some take of the item was paid for.                                  *)
TerminalRow(i) ==
  [item |-> i, attempt |-> attempts[i], status |-> "missing", terminal |-> TRUE]

(* Mutant of NotePaid: noted when nothing is held any more.                  *)
NotedTooLate(unpaid) == paid' = paid

NotePaid(unpaid) == paid' = paid \union (held \ unpaid)

(* _submit_failure: a settle without results.  A free outcome is a rejection *)
(* or a rate limit; the others are booked at twice the bound.                *)
SettleFailure(how) ==
  /\ unit' = FALSE
  /\ booked' = how
  /\ IF how = "doubled"
     THEN /\ NotePaid({})
          /\ charged' = charged \union held
          /\ failures' = failures + 1
     ELSE UNCHANGED <<paid, charged, failures>>
  /\ held' = {}
  /\ pc' = "reserve"
  /\ UNCHANGED <<run, phase, plan, attempts, stage, writing, disk, graded,
                 clean>>

(* The batch did not run or its end is not known: the items go back to the   *)
(* queue, or are given up after their last attempt.                          *)
NoBatch ==
  /\ \/ Working("submit") /\ \E how \in {"free", "doubled"} : SettleFailure(how)
     \/ Working("poll") /\ SettleFailure("doubled")
  /\ LET last == {i \in held : Exhausted(i)}
         withheld == last \intersect paid'
     IN /\ notRun' = notRun
              \union Entries(last \ withheld, "submit_rejected")
              \union Entries(withheld, "retries_exhausted")
        /\ terminals' = {TerminalRow(i) : i \in withheld}
        /\ pending' = pending \union (held \ last)

(* The batch ended and its results cannot be read: settled once, its items   *)
(* are left to a later invocation.                                           *)
ResultsUnavailable ==
  /\ Working("read")
  /\ SettleFailure("doubled")
  /\ notRun' = notRun \union Entries(held, "batch_failed")
  /\ UNCHANGED <<pending, terminals>>

-----------------------------------------------------------------------------
(* Results.                                                                  *)

Staged == {row.item : row \in stage}

(* Mutant of TerminalTake: the attempt before the last is the last.          *)
TerminalEarly(i, status) ==
  status \in Retryable /\ attempts[i] + 1 >= MaxAttempts

TerminalTake(i, status) == status \in Retryable /\ Exhausted(i)

(* batch_results: a row of a held item, checked and put aside.  Frames of    *)
(* one row leave the worker the most places to be lost at.  Either every row *)
(* of a batch is "failed" or none is.                                        *)
StageRow ==
  /\ pc \in {"read", "send"}
  /\ Working(pc)
  /\ \E i \in held \ Staged, status \in Status :
       /\ \A row \in stage : row.status = "failed" <=> status = "failed"
       /\ stage' = stage \union
            {[item |-> i, attempt |-> attempts[i], status |-> status,
              terminal |-> TerminalTake(i, status)]}
  /\ pc' = "send"
  /\ UNCHANGED <<run, phase, source, unit, failures, terminals, writing, disk,
                 ledger, clean>>

With(S) == {row.item : row \in {r \in stage : r.status \in S}}

(* settle_batch, when every held item has its row.                           *)
SettleBatch ==
  /\ Working("send")
  /\ Staged = held
  /\ unit' = FALSE
  /\ booked' = "results"
  /\ NotePaid(With({"vote", "free", "failed"}))
  /\ charged' = charged \union With({"paid", "missing"})
  /\ graded' = graded \union With({"vote"})
  /\ failures' = failures + IF held = With({"missing"}) THEN 1 ELSE 0
  /\ LET retry == With(Retryable)
         last == {i \in retry : Exhausted(i)}
     IN /\ notRun' = notRun \union Entries(With({"failed"}), "batch_failed")
                            \union Entries(last, "retries_exhausted")
        /\ pending' = pending \union (retry \ last)
  /\ held' = {}
  /\ pc' = "reserve"
  /\ UNCHANGED <<run, phase, plan, attempts, stage, terminals, writing, disk,
                 clean>>

-----------------------------------------------------------------------------
(* The collector: write_vote_record creates the vote exclusively, then       *)
(* _immutable links the receipt, and the manifest names it.                  *)

Publishing == phase \in {"running", "teardown"}

WriteVote ==
  /\ Publishing
  /\ writing = NoRow
  /\ \E row \in Publications :
       /\ ~NameTaken(row)
       /\ votes' = votes \union {VoteOf(row, FALSE)}
       /\ writing' = row
  /\ UNCHANGED <<run, phase, pc, source, job, receipts, manifest, runFiles,
                 ledger, clean>>

(* Mutant of Name: the manifest has one entry for an item, not for a take.   *)
NameByItem(receipt) ==
  manifest' = {r \in manifest : r.item # receipt.item} \union {receipt}

Name(receipt) == manifest' = manifest \union {receipt}

Published(row) ==
  /\ terminals' = terminals \ {row}
  /\ stage' = IF row \in terminals THEN stage ELSE stage \ {row}

WriteReceipt ==
  /\ Publishing
  /\ writing # NoRow
  /\ LET receipt == [item |-> writing.item, run |-> run,
                     attempt |-> writing.attempt]
     IN receipts' = receipts \union {receipt} /\ Name(receipt)
  /\ Published(writing)
  /\ writing' = NoRow
  /\ UNCHANGED <<run, phase, pc, source, unit, failures, votes, runFiles,
                 ledger, clean>>

(* A write raises: nothing is there, or a part of the vote, or the vote      *)
(* without its receipt; a name that is taken raises too.                     *)
LeftBehind(row) ==
  \/ UNCHANGED votes
  \/ writing = NoRow /\ ~NameTaken(row) /\ votes' = votes \union {VoteOf(row, TRUE)}

(* Mutant of Finish: the unit is forgotten once teardown has settled it.     *)
FinishForgets ==
  /\ phase' = "teardown"
  /\ Lose(held, "worker_lost")
  /\ booked' \in IF unit THEN {"lost", "open"} ELSE {booked}
  /\ unit' = FALSE

(* _teardown settles the unit at twice its bound, or leaves that to the next *)
(* Ledger.open when the append fails.  finish loses the unit's items and the *)
(* queue; job.unit stays set, so the rows of this unit are not published.    *)
Finish ==
  /\ phase' = "teardown"
  /\ Lose(held, "worker_lost")
  /\ booked' \in IF unit THEN {"lost", "open"} ELSE {booked}
  /\ UNCHANGED unit

(* While the job runs the error ends it, and the row is tried again by       *)
(* finish.                                                                   *)
CollectorRaises ==
  /\ phase = "running"
  /\ \E row \in IF writing = NoRow THEN Publications ELSE {writing} : LeftBehind(row)
  /\ writing' = NoRow
  /\ Finish
  /\ clean' = FALSE
  /\ UNCHANGED <<run, pc, plan, attempts, paid, failures, stage, terminals,
                 receipts, manifest, runFiles, graded, charged>>

(* Mutant of CollectorRaisesAgain: the row that cannot be written stays first. *)
CollectorRetriesForever ==
  /\ phase = "teardown"
  /\ \E row \in IF writing = NoRow THEN Publications ELSE {writing} : LeftBehind(row)
  /\ writing' = NoRow
  /\ clean' = FALSE
  /\ UNCHANGED <<run, phase, pc, source, job, receipts, manifest, runFiles,
                 ledger>>

(* In teardown the error is kept for later and the other rows are tried.     *)
CollectorRaisesAgain ==
  /\ phase = "teardown"
  /\ \E row \in IF writing = NoRow THEN Publications ELSE {writing} :
       LeftBehind(row) /\ Published(row)
  /\ writing' = NoRow
  /\ clean' = FALSE
  /\ UNCHANGED <<run, phase, pc, source, unit, failures, receipts, manifest,
                 runFiles, ledger>>

-----------------------------------------------------------------------------
(* The end of an invocation.                                                 *)

(* The worker ends after "done", or is lost before it: it dies, stalls or    *)
(* sends an error, an append to the ledger fails, or a sibling's failure or  *)
(* a signal cancels the job.  A cancellation arrives where the supervisor    *)
(* waits, and the collector never does.                                      *)
Leave ==
  /\ phase = "running"
  /\ Publications = {}
  /\ Finish
  /\ UNCHANGED <<run, pc, plan, attempts, paid, failures, stage, terminals,
                 writing, disk, graded, charged, clean>>

(* What is left of the stage is closed; not_run goes to the collector.       *)
TornDown ==
  /\ phase = "teardown"
  /\ Publications = {}
  /\ phase' = "closing"
  /\ stage' = {}
  /\ UNCHANGED <<run, pc, source, unit, failures, terminals, writing, disk,
                 ledger, clean>>

(* The run record is written, or cannot be; the ledger is closed.            *)
CloseRun ==
  /\ phase = "closing"
  /\ runFiles' \in {runFiles,
                    runFiles \union {[run |-> run, manifest |-> manifest]}}
  /\ phase' = "idle"
  /\ UNCHANGED <<run, pc, source, job, writing, votes, receipts, manifest,
                 ledger, clean>>

(* The host is killed, also in the middle of writing a vote.  Ledger.open    *)
(* will book a unit that is open at twice its bound.                         *)
Killed ==
  /\ phase # "idle"
  /\ \/ UNCHANGED votes
     \/ /\ Publishing /\ writing = NoRow
        /\ \E row \in Publications :
             ~NameTaken(row) /\ votes' = votes \union {VoteOf(row, TRUE)}
  /\ phase' = "idle"
  /\ writing' = NoRow
  /\ clean' = FALSE
  /\ UNCHANGED <<run, pc, source, job, receipts, manifest, runFiles, ledger>>

-----------------------------------------------------------------------------
Coordinates(S) == {[item |-> v.item, run |-> v.run, attempt |-> v.attempt] : v \in S}

Init ==
  /\ \E start \in Starts :
       /\ run = start.run
       /\ votes = start.votes
       /\ receipts = Coordinates(start.votes)
  /\ phase = "idle"
  /\ pc = "reserve"
  /\ plan = {} /\ pending = {} /\ held = {} /\ paid = {} /\ notRun = {}
  /\ attempts = [i \in Item |-> 0]
  /\ unit = FALSE
  /\ failures = 0
  /\ stage = {} /\ terminals = {}
  /\ writing = NoRow
  /\ manifest = {} /\ runFiles = {}
  /\ booked = "none"
  /\ graded = {} /\ charged = {}
  /\ clean = TRUE

WorkerStep ==
  \/ Deny \/ Grant \/ NoMoreItems \/ Submit \/ PollTerminal \/ NoBatch
  \/ ResultsUnavailable \/ StageRow \/ SettleBatch

CollectorStep == WriteVote \/ WriteReceipt \/ CollectorRaises \/ CollectorRaisesAgain

Next ==
  \/ StartRun \/ WorkerStep \/ CollectorStep
  \/ Leave \/ TornDown \/ CloseRun \/ Killed

Spec == Init /\ [][Next]_vars

(* Calls to the provider end: polling has a ceiling and a read ten attempts. *)
(* The supervisor goes on when the worker has closed its output.             *)
FairSpec ==
  /\ Spec
  /\ WF_vars(WorkerStep)
  /\ WF_vars(CollectorStep)
  /\ WF_vars(pc = "done" /\ Leave)
  /\ WF_vars(TornDown)
  /\ WF_vars(CloseRun)
-----------------------------------------------------------------------------
(* Properties.                                                               *)

(* Every variable holds a value of its kind.                                 *)
TypeOK ==
  /\ run \in 0..MaxRuns
  /\ phase \in {"idle", "running", "teardown", "closing"}
  /\ pc \in {"reserve", "submit", "poll", "read", "send", "done"}
  /\ plan \subseteq Item
  /\ pending \subseteq Item
  /\ held \subseteq Item
  /\ attempts \in [Item -> 0..MaxAttempts]
  /\ paid \subseteq Item
  /\ notRun \subseteq NotRun
  /\ unit \in BOOLEAN
  /\ failures \in Nat
  /\ stage \subseteq Row
  /\ terminals \subseteq Row
  /\ writing \in Row \union {NoRow}
  /\ votes \subseteq Vote
  /\ booked \in {"none", "open", "free", "doubled", "results", "lost"}
  /\ graded \subseteq Item
  /\ charged \subseteq Item
  /\ clean \in BOOLEAN

(* Whatever happens to units, every planned item is in exactly one place: in *)
(* the queue, held by the worker, settled with a vote, or reported as not    *)
(* run, and reported once (ItemSource, _GradingJob._settle, finish).         *)
NotRunItems == {e.item : e \in notRun}

EachItemOnce ==
  /\ pending \union held \union graded \union NotRunItems = plan
  /\ pending \intersect held = {}
  /\ graded \intersect (pending \union held) = {}
  /\ NotRunItems \intersect (pending \union held \union graded) = {}
  /\ \A e, f \in notRun : e.item = f.item => e = f

(* "A terminal record is final and withheld: no later invocation resubmits   *)
(* it": nothing is sent to a provider that has a final record on disk, or     *)
(* whose vote is settled and not written yet.                                *)
FinalIsNotResubmitted ==
  [][pc = "submit" /\ pc' = "poll"
       => \A i \in held : ~HasFinal(i) /\ i \notin graded]_vars

(* "Only a durably settled unit can publish votes": a vote appears on disk   *)
(* only while the last unit's settlement is in the ledger, not while it is open or *)
(* was booked for a lost worker, whose results may be there already.         *)
VotesAreSettled ==
  [][votes' # votes => booked \in {"results", "doubled", "free"}]_vars

(* "Exhausted retries are final and withheld when money was at stake": of an *)
(* invocation whose writes succeeded, an item given up after its last attempt *)
(* has a final record, every other item that was not run has none, and none   *)
(* that was charged without a vote is taken for freely rejected.             *)
ExhaustionIsFinalIfPaid ==
  phase = "closing" /\ clean =>
    \A e \in notRun :
      /\ HasFinal(e.item) <=> e.reason = "retries_exhausted"
      /\ e.reason = "submit_rejected" => e.item \notin charged

(* Votes and receipts: a receipt belongs to a whole vote, whatever was        *)
(* interrupted; an invocation whose writes succeeded has one receipt for     *)
(* each of its votes, and names them all (VoteCapture.check).                *)
InventoryAgrees ==
  /\ receipts \subseteq Coordinates({v \in votes : ~v.torn})
  /\ \A file \in runFiles : file.manifest \subseteq receipts
  /\ phase = "closing" /\ clean =>
       /\ manifest = {r \in receipts : r.run = run}
       /\ manifest = Coordinates({v \in votes : v.run = run})

(* "Two efforts, two passes, a retry and a rerun all stay readable": no vote *)
(* record is left that its readers refuse.                                   *)
VotesStayReadable == Readable

(* An invocation ends although writes fail again and again in its teardown:  *)
(* every row is tried, and none holds up the others for ever.                *)
RunEnds == phase = "running" ~> phase \in {"closing", "idle"}
=============================================================================
