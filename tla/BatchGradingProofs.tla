------------------------- MODULE BatchGradingProofs -------------------------
(***************************************************************************)
(* For any items, attempts and invocations: no planned item is lost or       *)
(* reported twice, no vote appears before its unit is settled, what a clean   *)
(* run leaves on disk agrees, and retries are exhausted for good.            *)
(*                                                                          *)
(* The first two follow from IInv.  Beside EachItemOnce it says where the     *)
(* worker may stand while the host holds a unit, and that the rows put       *)
(* aside for the unit are one for each of its items, so that SettleBatch     *)
(* splits the held items by their status without losing one.                 *)
(*                                                                          *)
(* Inventory adds what the files say of each other: a receipt has its vote,   *)
(* and lacks a name in the manifest only while the run is not clean.         *)
(* Unpaid and Explained add what a given-up item leaves behind in a clean     *)
(* run: a final row that is published, or about to be.                       *)
(***************************************************************************)
EXTENDS BatchGrading, TLAPS

(* The host has a unit exactly while the worker is busy with it.             *)
UnitIsWorked ==
  phase = "running" =>
    /\ unit <=> pc \in {"submit", "poll", "read", "send"}
    /\ ~unit => held = {}

(* One row for an item, of an item that is held.                             *)
StageIsOfUnit ==
  /\ \A row \in stage : row.status \in Status
  /\ phase = "running" /\ unit =>
       /\ \A row \in stage : row.item \in held
       /\ \A r, q \in stage : r.item = q.item => r = q

(* Rows that may be published belong to settled units, and the row that is   *)
(* half written is one of them.                                              *)
PublishedIsSettled ==
  /\ Publishing /\ unit => terminals = {}
  /\ Publishing /\ Publications # {} => booked \in {"results", "doubled", "free"}
  /\ writing # NoRow => Publishing /\ writing \in Publications

IInv == EachItemOnce /\ UnitIsWorked /\ StageIsOfUnit /\ PublishedIsSettled

-----------------------------------------------------------------------------
(* An entry is made for each item and names it.                              *)
LEMMA EntriesNameItems ==
  ASSUME NEW S, NEW reason
  PROVE  /\ \A e \in Entries(S, reason) :
              e.item \in S /\ e = [item |-> e.item, reason |-> reason,
                                   attempt |-> attempts[e.item]]
         /\ \A i \in S : \E e \in Entries(S, reason) : e.item = i
<1>1. \A e \in Entries(S, reason) :
        e.item \in S /\ e = [item |-> e.item, reason |-> reason,
                             attempt |-> attempts[e.item]]
  <2>1. SUFFICES ASSUME NEW i \in S,
                        NEW e, e = [item |-> i, reason |-> reason,
                                    attempt |-> attempts[i]]
                 PROVE  e.item \in S /\ e = [item |-> e.item, reason |-> reason,
                                             attempt |-> attempts[e.item]]
    BY DEF Entries
  <2>2. e.item = i
    BY <2>1
  <2>3. QED
    BY <2>1, <2>2
<1>2. \A i \in S : \E e \in Entries(S, reason) : e.item = i
  <2>1. SUFFICES ASSUME NEW i \in S
                 PROVE  \E e \in Entries(S, reason) : e.item = i
    OBVIOUS
  <2>2. [item |-> i, reason |-> reason, attempt |-> attempts[i]]
          \in Entries(S, reason)
    BY DEF Entries
  <2>3. QED
    BY <2>2
<1>3. QED
  BY <1>1, <1>2

Items(N) == {e.item : e \in N}

Distinct(N) == \A e, f \in N : e.item = f.item => e = f

(* Reporting items that are not reported yet keeps one entry for each.       *)
LEMMA ReportedOnce ==
  ASSUME NEW N, NEW S, NEW reason, Distinct(N), Items(N) \intersect S = {}
  PROVE  /\ Items(N \union Entries(S, reason)) = Items(N) \union S
         /\ Distinct(N \union Entries(S, reason))
<1> DEFINE E == Entries(S, reason)
<1>1. /\ \A e \in E : e.item \in S /\ e = [item |-> e.item, reason |-> reason,
                                           attempt |-> attempts[e.item]]
      /\ \A i \in S : \E e \in E : e.item = i
  BY EntriesNameItems
<1> HIDE DEF E
<1>2. Items(N \union E) = Items(N) \union S
  <2>1. ASSUME NEW i PROVE i \in Items(N \union E) <=> i \in Items(N) \union S
    BY <1>1 DEF Items
  <2>2. QED
    BY <2>1
<1>3. Distinct(N \union E)
  <2>1. SUFFICES ASSUME NEW e \in N \union E, NEW f \in N \union E, e.item = f.item
                 PROVE  e = f
    BY DEF Distinct
  <2>2. CASE e \in N /\ f \in N
    BY <2>1, <2>2 DEF Distinct
  <2>3. CASE e \in E /\ f \in E
    BY <2>1, <2>3, <1>1, Zenon
  <2>4. CASE e \in N /\ f \in E
    BY <2>1, <2>4, <1>1 DEF Items
  <2>5. CASE e \in E /\ f \in N
    BY <2>1, <2>5, <1>1 DEF Items
  <2>6. QED
    BY <2>2, <2>3, <2>4, <2>5
<1>4. QED
  BY <1>2, <1>3 DEF E

THEOREM InitIInv == Init => IInv
<1> SUFFICES ASSUME Init PROVE IInv
  OBVIOUS
<1> USE DEF Init
<1>1. EachItemOnce
  BY DEF EachItemOnce, NotRunItems
<1>2. UnitIsWorked
  BY DEF UnitIsWorked
<1>3. StageIsOfUnit
  BY DEF StageIsOfUnit
<1>4. PublishedIsSettled
  BY DEF PublishedIsSettled, Publishing, Publications
<1>5. QED
  BY <1>1, <1>2, <1>3, <1>4 DEF IInv

-----------------------------------------------------------------------------
(* What an action does with the items decides EachItemOnce; the others only  *)
(* move the worker, the collector or the files.                              *)
KeepsItems == UNCHANGED <<plan, pending, held, notRun, graded>>

LEMMA ItemsKept == EachItemOnce /\ KeepsItems => EachItemOnce'
BY DEF EachItemOnce, NotRunItems, KeepsItems

(* Reporting some of the items that are queued or held, and queueing others  *)
(* of those that are held, keeps every item in one place.                    *)
LEMMA ItemsMoved ==
  ASSUME EachItemOnce,
         NEW lost, NEW won,
         lost \subseteq pending \union held, won \subseteq held,
         lost \intersect won = {},
         pending' \union held' = (pending \union held) \ (lost \union won),
         pending' \intersect held' = {},
         plan' = plan, graded' = graded \union won,
         Items(notRun') = Items(notRun) \union lost, Distinct(notRun')
  PROVE  EachItemOnce'
<1>1. /\ pending \union held \union graded \union Items(notRun) = plan
      /\ graded \intersect (pending \union held) = {}
      /\ Items(notRun) \intersect (pending \union held \union graded) = {}
  BY DEF EachItemOnce, NotRunItems, Items
<1>2. /\ pending' \union held' \union graded' \union Items(notRun') = plan'
      /\ graded' \intersect (pending' \union held') = {}
      /\ Items(notRun') \intersect (pending' \union held' \union graded') = {}
  BY <1>1
<1>3. QED
  BY <1>2 DEF EachItemOnce, NotRunItems, Items, Distinct

(* ItemSource.lose reports the queue and what it is told is lost.            *)
LEMMA LoseMoves ==
  ASSUME EachItemOnce, NEW lost, NEW reason, lost \subseteq held,
         Lose(lost, reason), held \subseteq lost,
         UNCHANGED <<plan, graded>>
  PROVE  EachItemOnce'
<1>1. /\ Distinct(notRun)
      /\ Items(notRun) \intersect (lost \union pending) = {}
  BY DEF EachItemOnce, NotRunItems, Items, Distinct
<1>2. /\ Items(notRun') = Items(notRun) \union (lost \union pending)
      /\ Distinct(notRun')
  BY <1>1, ReportedOnce DEF Lose
<1>3. pending' = {} /\ held' = {}
  BY DEF Lose
<1>4. QED
  <2> DEFINE won == {}
  <2>1. won \subseteq held
    OBVIOUS
  <2>2. pending' \union held' = (pending \union held) \ ((lost \union pending) \union won)
    BY <1>3
  <2>3. graded' = graded \union won /\ plan' = plan /\ pending' \intersect held' = {}
    BY <1>3
  <2>4. lost \union pending \subseteq pending \union held
        /\ (lost \union pending) \intersect won = {}
    OBVIOUS
  <2> HIDE DEF won
  <2>5. QED
    BY <1>2, <2>1, <2>2, <2>3, <2>4, ItemsMoved

-----------------------------------------------------------------------------
(* The worker's steps.                                                       *)
LEMMA DenyInd == IInv /\ Deny => IInv'
<1> SUFFICES ASSUME IInv, Deny PROVE IInv'
  OBVIOUS
<1> USE DEF IInv
<1>1. /\ phase = "running" /\ pc = "reserve" /\ Publications = {}
      /\ phase' = phase /\ pc' = "done"
      /\ UNCHANGED <<plan, graded, unit, stage, terminals, writing, booked>>
  BY DEF Deny, Working, job, ledger
<1>2. ~unit /\ held = {}
  BY <1>1 DEF UnitIsWorked
<1>3. PICK reason : Lose({}, reason)
  BY DEF Deny
<1>4. EachItemOnce'
  BY <1>1, <1>2, <1>3, LoseMoves
<1>5. UnitIsWorked'
  BY <1>1, <1>2, <1>3 DEF UnitIsWorked, Lose
<1>6. StageIsOfUnit'
  BY <1>1, <1>2 DEF StageIsOfUnit
<1>7. PublishedIsSettled'
  BY <1>1, <1>2 DEF PublishedIsSettled, Publishing, Publications
<1>8. QED
  BY <1>4, <1>5, <1>6, <1>7

LEMMA GrantInd == IInv /\ Grant => IInv'
<1> SUFFICES ASSUME IInv, Grant PROVE IInv'
  OBVIOUS
<1> USE DEF IInv
<1>1. /\ phase = "running" /\ pc = "reserve" /\ Publications = {}
      /\ phase' = phase /\ pc' = "submit" /\ unit' = TRUE /\ booked' = "open"
      /\ UNCHANGED <<plan, notRun, graded, stage, terminals, writing>>
  BY DEF Grant, Working
<1>2. ~unit /\ held = {} /\ stage = {} /\ terminals = {} /\ writing = NoRow
  BY <1>1 DEF UnitIsWorked, Publications, PublishedIsSettled
<1>3. PICK S \in SUBSET pending : held' = S /\ pending' = pending \ S
  BY DEF Grant
<1>4. EachItemOnce'
  BY <1>1, <1>2, <1>3 DEF EachItemOnce, NotRunItems
<1>5. UnitIsWorked'
  BY <1>1 DEF UnitIsWorked
<1>6. StageIsOfUnit'
  BY <1>1, <1>2 DEF StageIsOfUnit
<1>7. PublishedIsSettled'
  BY <1>1, <1>2 DEF PublishedIsSettled, Publishing, Publications
<1>8. QED
  BY <1>4, <1>5, <1>6, <1>7

(* Steps of the worker that leave what the host holds alone.                 *)
LEMMA WaitInd == IInv /\ (NoMoreItems \/ Submit \/ PollTerminal) => IInv'
<1> SUFFICES ASSUME IInv, NoMoreItems \/ Submit \/ PollTerminal PROVE IInv'
  OBVIOUS
<1> USE DEF IInv
<1>1. /\ phase = "running" /\ phase' = phase
      /\ \/ pc = "reserve" /\ pc' = "done"
         \/ pc = "submit" /\ pc' = "poll"
         \/ pc = "poll" /\ pc' = "read"
      /\ UNCHANGED <<plan, pending, held, notRun, graded, unit, stage, terminals,
                     writing, booked>>
  BY DEF NoMoreItems, Submit, PollTerminal, Working, source, job, ledger
<1>2. EachItemOnce'
  BY <1>1, ItemsKept DEF KeepsItems
<1>3. UnitIsWorked'
  BY <1>1 DEF UnitIsWorked
<1>4. StageIsOfUnit'
  BY <1>1 DEF StageIsOfUnit
<1>5. PublishedIsSettled'
  BY <1>1 DEF PublishedIsSettled, Publishing, Publications
<1>6. QED
  BY <1>2, <1>3, <1>4, <1>5

(* What every settle without results has in common.                          *)
LEMMA SettleFailureInd ==
  ASSUME IInv, NEW step \in {"submit", "poll", "read"}, Working(step),
         NEW how \in {"free", "doubled"}, SettleFailure(how)
  PROVE  UnitIsWorked' /\ StageIsOfUnit' /\ PublishedIsSettled'
<1> USE DEF IInv
<1>1. /\ phase = "running" /\ pc = step /\ Publications = {}
      /\ phase' = phase /\ pc' = "reserve" /\ unit' = FALSE /\ held' = {}
      /\ booked' = how
      /\ UNCHANGED <<stage, writing>>
  BY DEF Working, SettleFailure
<1>2. writing = NoRow
  BY <1>1 DEF PublishedIsSettled
<1>3. UnitIsWorked'
  BY <1>1 DEF UnitIsWorked
<1>4. StageIsOfUnit'
  BY <1>1 DEF StageIsOfUnit
<1>5. PublishedIsSettled'
  BY <1>1, <1>2 DEF PublishedIsSettled
<1>6. QED
  BY <1>3, <1>4, <1>5

LEMMA NoBatchInd == IInv /\ NoBatch => IInv'
<1> SUFFICES ASSUME IInv, NoBatch PROVE IInv'
  OBVIOUS
<1> USE DEF IInv
<1> DEFINE last == {i \in held : Exhausted(i)}
           withheld == last \intersect paid'
<1>1. PICK step \in {"submit", "poll"}, how \in {"free", "doubled"} :
        Working(step) /\ SettleFailure(how)
  BY DEF NoBatch
<1>2. UnitIsWorked' /\ StageIsOfUnit' /\ PublishedIsSettled'
  BY <1>1, SettleFailureInd
<1>3. /\ notRun' = (notRun \union Entries(last \ withheld, "submit_rejected"))
                     \union Entries(withheld, "retries_exhausted")
      /\ pending' = pending \union (held \ last)
      /\ held' = {} /\ UNCHANGED <<plan, graded>>
  BY <1>1 DEF NoBatch, SettleFailure
<1>4. last \subseteq held /\ withheld \subseteq last
  OBVIOUS
<1> HIDE DEF last, withheld
<1>5. /\ Distinct(notRun) /\ Items(notRun) \intersect held = {}
      /\ pending \intersect held = {}
  BY DEF EachItemOnce, NotRunItems, Items, Distinct
<1> DEFINE N == notRun \union Entries(last \ withheld, "submit_rejected")
<1>6. Items(N) = Items(notRun) \union (last \ withheld) /\ Distinct(N)
  <2>1. Items(notRun) \intersect (last \ withheld) = {}
    BY <1>4, <1>5
  <2>2. QED
    BY <1>5, <2>1, ReportedOnce
<1> HIDE DEF N
<1>7. Items(notRun') = Items(notRun) \union last /\ Distinct(notRun')
  <2>1. Items(N) \intersect withheld = {}
    BY <1>4, <1>5, <1>6
  <2>2. notRun' = N \union Entries(withheld, "retries_exhausted")
    BY <1>3 DEF N
  <2>3. Items(notRun') = Items(N) \union withheld /\ Distinct(notRun')
    BY <1>6, <2>1, <2>2, ReportedOnce
  <2>4. QED
    BY <1>4, <1>6, <2>3
<1>8. EachItemOnce'
  <2> DEFINE won == {}
  <2>1. /\ last \subseteq pending \union held /\ won \subseteq held
        /\ last \intersect won = {}
    BY <1>4
  <2>2. pending' \union held' = (pending \union held) \ (last \union won)
    BY <1>3, <1>4, <1>5
  <2>3. graded' = graded \union won /\ plan' = plan /\ pending' \intersect held' = {}
    BY <1>3
  <2> HIDE DEF won
  <2>4. QED
    BY <1>7, <2>1, <2>2, <2>3, ItemsMoved
<1>9. QED
  BY <1>2, <1>8

LEMMA ResultsUnavailableInd == IInv /\ ResultsUnavailable => IInv'
<1> SUFFICES ASSUME IInv, ResultsUnavailable PROVE IInv'
  OBVIOUS
<1> USE DEF IInv
<1>1. Working("read") /\ SettleFailure("doubled")
  BY DEF ResultsUnavailable
<1>2. UnitIsWorked' /\ StageIsOfUnit' /\ PublishedIsSettled'
  BY <1>1, SettleFailureInd
<1>3. /\ notRun' = notRun \union Entries(held, "batch_failed")
      /\ held' = {} /\ UNCHANGED <<plan, pending, graded>>
  BY <1>1 DEF ResultsUnavailable, SettleFailure
<1>4. /\ Distinct(notRun) /\ Items(notRun) \intersect held = {}
      /\ pending \intersect held = {}
  BY DEF EachItemOnce, NotRunItems, Items, Distinct
<1>5. Items(notRun') = Items(notRun) \union held /\ Distinct(notRun')
  BY <1>3, <1>4, ReportedOnce
<1>6. EachItemOnce'
  <2> DEFINE won == {}
  <2>1. /\ held \subseteq pending \union held /\ won \subseteq held
        /\ held \intersect won = {}
    OBVIOUS
  <2>2. pending' \union held' = (pending \union held) \ (held \union won)
    BY <1>3, <1>4
  <2>3. graded' = graded \union won /\ plan' = plan /\ pending' \intersect held' = {}
    BY <1>3
  <2> HIDE DEF won
  <2>4. QED
    BY <1>5, <2>1, <2>2, <2>3, ItemsMoved
<1>7. QED
  BY <1>2, <1>6

LEMMA StageRowInd == IInv /\ StageRow => IInv'
<1> SUFFICES ASSUME IInv, StageRow PROVE IInv'
  OBVIOUS
<1> USE DEF IInv
<1>1. /\ phase = "running" /\ pc \in {"read", "send"} /\ Publications = {}
      /\ phase' = phase /\ pc' = "send"
      /\ UNCHANGED <<plan, pending, held, notRun, graded, unit, terminals,
                     writing, booked>>
  BY DEF StageRow, Working, source, ledger
<1>2. unit /\ terminals = {} /\ writing = NoRow
  BY <1>1 DEF UnitIsWorked, Publications, PublishedIsSettled
<1>3. PICK added : /\ added.item \in held \ Staged
                   /\ added.status \in Status
                   /\ stage' = stage \union {added}
  <2>1. PICK i \in held \ Staged, status \in Status :
          stage' = stage \union
            {[item |-> i, attempt |-> attempts[i], status |-> status,
              terminal |-> TerminalTake(i, status)]}
    BY DEF StageRow
  <2> DEFINE row == [item |-> i, attempt |-> attempts[i], status |-> status,
                     terminal |-> TerminalTake(i, status)]
  <2>2. /\ row.item \in held \ Staged
        /\ row.status \in Status
        /\ stage' = stage \union {row}
    BY <2>1
  <2>3. QED
    BY <2>2
<1>4. EachItemOnce'
  BY <1>1, ItemsKept DEF KeepsItems
<1>5. UnitIsWorked'
  BY <1>1, <1>2 DEF UnitIsWorked
<1>6. StageIsOfUnit'
  <2>1. \A row \in stage : row.item # added.item
    BY <1>3 DEF Staged
  <2>2. \A row \in stage' : row.status \in Status
    BY <1>3 DEF StageIsOfUnit
  <2>3. \A row \in stage' : row.item \in held'
    BY <1>1, <1>2, <1>3 DEF StageIsOfUnit
  <2>4. \A r, q \in stage' : r.item = q.item => r = q
    BY <1>1, <1>2, <1>3, <2>1 DEF StageIsOfUnit
  <2>5. QED
    BY <2>2, <2>3, <2>4 DEF StageIsOfUnit
<1>7. PublishedIsSettled'
  BY <1>1, <1>2 DEF PublishedIsSettled, Publications
<1>8. QED
  BY <1>4, <1>5, <1>6, <1>7

LEMMA SettleBatchInd == IInv /\ SettleBatch => IInv'
<1> SUFFICES ASSUME IInv, SettleBatch PROVE IInv'
  OBVIOUS
<1> USE DEF IInv
<1> DEFINE won == With({"vote"})
           failed == With({"failed"})
           retry == With(Retryable)
           last == {i \in retry : Exhausted(i)}
<1>1. /\ phase = "running" /\ pc = "send" /\ Publications = {} /\ Staged = held
      /\ phase' = phase /\ pc' = "reserve" /\ unit' = FALSE /\ held' = {}
      /\ booked' = "results"
      /\ UNCHANGED <<plan, stage, terminals, writing>>
  BY DEF SettleBatch, Working
<1>2. /\ graded' = graded \union won
      /\ notRun' = (notRun \union Entries(failed, "batch_failed"))
                     \union Entries(last, "retries_exhausted")
      /\ pending' = pending \union (retry \ last)
  BY DEF SettleBatch
<1>3. unit /\ writing = NoRow
  BY <1>1 DEF UnitIsWorked, PublishedIsSettled
<1>4. /\ won \union failed \union retry = held
      /\ won \intersect failed = {} /\ won \intersect retry = {}
      /\ failed \intersect retry = {}
  <2>1. \A r, q \in stage : r.item = q.item => r = q
    BY <1>1, <1>3 DEF StageIsOfUnit
  <2>2. \A row \in stage : row.status \in {"vote", "failed"} \union Retryable
    BY DEF StageIsOfUnit, Status, Retryable
  <2>3. /\ \A i : i \in won <=> \E row \in stage : row.item = i /\ row.status = "vote"
        /\ \A i : i \in failed <=> \E row \in stage : row.item = i /\ row.status = "failed"
        /\ \A i : i \in retry <=> \E row \in stage : row.item = i /\ row.status \in Retryable
        /\ \A i : i \in held <=> \E row \in stage : row.item = i
    BY <1>1 DEF With, Staged
  <2> HIDE DEF won, failed, retry
  <2>4. \A i : i \in held <=> i \in won \union failed \union retry
    BY <2>2, <2>3
  <2>5. \A i : /\ ~(i \in won /\ i \in failed)
               /\ ~(i \in won /\ i \in retry)
               /\ ~(i \in failed /\ i \in retry)
    BY <2>1, <2>3 DEF Retryable
  <2>6. QED
    BY <2>4, <2>5
<1>5. last \subseteq retry
  OBVIOUS
<1> HIDE DEF won, failed, retry, last
<1>6. /\ Distinct(notRun) /\ Items(notRun) \intersect held = {}
      /\ pending \intersect held = {}
  BY DEF EachItemOnce, NotRunItems, Items, Distinct
<1> DEFINE N == notRun \union Entries(failed, "batch_failed")
<1>7. Items(N) = Items(notRun) \union failed /\ Distinct(N)
  <2>1. Items(notRun) \intersect failed = {}
    BY <1>4, <1>6
  <2>2. QED
    BY <1>6, <2>1, ReportedOnce
<1>8. notRun' = N \union Entries(last, "retries_exhausted")
  BY <1>2
<1> HIDE DEF N
<1>9. Items(notRun') = Items(notRun) \union (failed \union last) /\ Distinct(notRun')
  <2>1. Items(N) \intersect last = {}
    BY <1>4, <1>5, <1>6, <1>7
  <2>2. Items(notRun') = Items(N) \union last /\ Distinct(notRun')
    BY <1>7, <1>8, <2>1, ReportedOnce
  <2>3. QED
    BY <1>7, <2>2
<1>10. EachItemOnce'
  <2>1. /\ failed \union last \subseteq pending \union held /\ won \subseteq held
        /\ (failed \union last) \intersect won = {}
    BY <1>4, <1>5
  <2>2. pending' \union held'
          = (pending \union held) \ ((failed \union last) \union won)
    BY <1>1, <1>2, <1>4, <1>5, <1>6
  <2>3. graded' = graded \union won /\ plan' = plan /\ pending' \intersect held' = {}
    BY <1>1, <1>2
  <2>4. QED
    BY <1>9, <2>1, <2>2, <2>3, ItemsMoved
<1>11. UnitIsWorked'
  BY <1>1 DEF UnitIsWorked
<1>12. StageIsOfUnit'
  BY <1>1 DEF StageIsOfUnit
<1>13. PublishedIsSettled'
  BY <1>1, <1>3 DEF PublishedIsSettled
<1>14. QED
  BY <1>10, <1>11, <1>12, <1>13

-----------------------------------------------------------------------------
(* The collector's steps and the end of an invocation.                       *)
LEMMA WriteVoteInd == IInv /\ WriteVote => IInv'
<1> SUFFICES ASSUME IInv, WriteVote PROVE IInv'
  OBVIOUS
<1> USE DEF IInv
<1>1. /\ Publishing
      /\ UNCHANGED <<phase, pc, plan, pending, held, notRun, graded, unit, stage,
                     terminals, booked>>
  BY DEF WriteVote, source, job, ledger
<1>2. writing' \in Publications
  BY DEF WriteVote
<1>3. EachItemOnce'
  BY <1>1, ItemsKept DEF KeepsItems
<1>4. UnitIsWorked' /\ StageIsOfUnit'
  BY <1>1 DEF UnitIsWorked, StageIsOfUnit
<1>5. PublishedIsSettled'
  BY <1>1, <1>2 DEF PublishedIsSettled, Publishing, Publications
<1>6. QED
  BY <1>3, <1>4, <1>5

(* A row that is done with leaves the rest as it was.                        *)
LEMMA PublishedInd ==
  ASSUME IInv, NEW row, Published(row), writing' = NoRow,
         UNCHANGED <<phase, pc, plan, pending, held, notRun, graded, unit, booked>>
  PROVE  IInv'
<1> USE DEF IInv
<1>1. terminals' \subseteq terminals /\ stage' \subseteq stage
  BY DEF Published
<1>2. EachItemOnce'
  BY ItemsKept DEF KeepsItems
<1>3. UnitIsWorked'
  BY DEF UnitIsWorked
<1>4. StageIsOfUnit'
  BY <1>1 DEF StageIsOfUnit
<1>5. PublishedIsSettled'
  <2>1. (Publishing /\ unit => terminals = {})'
    BY <1>1 DEF PublishedIsSettled, Publishing
  <2>2. Publications' # {} => Publications # {}
    BY <1>1 DEF Publications
  <2>3. QED
    BY <2>1, <2>2 DEF PublishedIsSettled, Publishing
<1>6. QED
  BY <1>2, <1>3, <1>4, <1>5

LEMMA RowDoneInd == IInv /\ (WriteReceipt \/ CollectorRaisesAgain) => IInv'
<1> SUFFICES ASSUME IInv, WriteReceipt \/ CollectorRaisesAgain PROVE IInv'
  OBVIOUS
<1>1. \E row : Published(row)
  BY DEF WriteReceipt, CollectorRaisesAgain
<1>2. /\ writing' = NoRow
      /\ UNCHANGED <<phase, pc, plan, pending, held, notRun, graded, unit, booked>>
  BY DEF WriteReceipt, CollectorRaisesAgain, source, ledger
<1>3. QED
  BY <1>1, <1>2, PublishedInd

(* Teardown gives up the items of the unit and the queue, keeps the rows of  *)
(* a unit that was open to itself, and may publish those of a settled one.   *)
LEMMA FinishInd ==
  ASSUME IInv, Publishing, Finish, writing' = NoRow,
         UNCHANGED <<plan, graded, stage, terminals>>
  PROVE  IInv'
<1> USE DEF IInv
<1>1. phase' = "teardown" /\ unit' = unit /\ (~unit => booked' = booked)
  BY DEF Finish
<1>2. EachItemOnce'
  BY LoseMoves DEF Finish
<1>3. UnitIsWorked' /\ StageIsOfUnit'
  BY <1>1 DEF UnitIsWorked, StageIsOfUnit
<1>4. PublishedIsSettled'
  BY <1>1 DEF PublishedIsSettled, Publishing, Publications
<1>5. QED
  BY <1>2, <1>3, <1>4

LEMMA LeaveInd == IInv /\ (Leave \/ CollectorRaises) => IInv'
<1> SUFFICES ASSUME IInv, Leave \/ CollectorRaises PROVE IInv'
  OBVIOUS
<1>1. Publishing /\ Finish /\ UNCHANGED <<plan, graded, stage, terminals>>
  BY DEF Leave, CollectorRaises, Publishing
<1>2. writing' = NoRow
  <2>1. CASE Leave
    BY <2>1 DEF Leave, IInv, PublishedIsSettled
  <2>2. CASE CollectorRaises
    BY <2>2 DEF CollectorRaises
  <2>3. QED
    BY <2>1, <2>2
<1>3. QED
  BY <1>1, <1>2, FinishInd

(* The invocation is over: what it leaves is not touched.                    *)
LEMMA OverInd == IInv /\ (TornDown \/ CloseRun \/ Killed) => IInv'
<1> SUFFICES ASSUME IInv, TornDown \/ CloseRun \/ Killed PROVE IInv'
  OBVIOUS
<1> USE DEF IInv
<1>1. /\ phase' \in {"closing", "idle"}
      /\ UNCHANGED <<plan, pending, held, notRun, graded>>
      /\ stage' \subseteq stage
  BY DEF TornDown, CloseRun, Killed, source, job, ledger
<1>2. writing' = NoRow
  <2>1. CASE TornDown
    BY <2>1 DEF TornDown, PublishedIsSettled
  <2>2. CASE CloseRun
    BY <2>2 DEF CloseRun, PublishedIsSettled, Publishing
  <2>3. CASE Killed
    BY <2>3 DEF Killed
  <2>4. QED
    BY <2>1, <2>2, <2>3
<1>3. EachItemOnce'
  BY <1>1, ItemsKept DEF KeepsItems
<1>4. UnitIsWorked' /\ StageIsOfUnit'
  BY <1>1 DEF UnitIsWorked, StageIsOfUnit
<1>5. PublishedIsSettled'
  BY <1>1, <1>2 DEF PublishedIsSettled, Publishing
<1>6. QED
  BY <1>3, <1>4, <1>5

LEMMA StartRunInd == IInv /\ StartRun => IInv'
<1> SUFFICES ASSUME IInv, StartRun PROVE IInv'
  OBVIOUS
<1> USE DEF IInv
<1>1. /\ pending' = plan' /\ held' = {} /\ notRun' = {} /\ graded' = {}
      /\ pc' = "reserve" /\ unit' = FALSE /\ stage' = {} /\ terminals' = {}
      /\ UNCHANGED writing
  BY DEF StartRun
<1>2. writing = NoRow
  BY DEF StartRun, PublishedIsSettled, Publishing
<1>3. EachItemOnce'
  BY <1>1 DEF EachItemOnce, NotRunItems
<1>4. UnitIsWorked' /\ StageIsOfUnit'
  BY <1>1 DEF UnitIsWorked, StageIsOfUnit
<1>5. PublishedIsSettled'
  BY <1>1, <1>2 DEF PublishedIsSettled, Publishing, Publications
<1>6. QED
  BY <1>3, <1>4, <1>5

LEMMA StutterInd == IInv /\ UNCHANGED vars => IInv'
<1> SUFFICES ASSUME IInv, UNCHANGED vars PROVE IInv'
  OBVIOUS
<1>1. UNCHANGED <<phase, pc, plan, pending, held, notRun, graded, unit, stage,
                  terminals, writing, booked>>
  BY DEF vars, source, job, ledger
<1>2. EachItemOnce'
  BY <1>1, ItemsKept DEF KeepsItems, IInv
<1>3. UnitIsWorked' /\ StageIsOfUnit' /\ PublishedIsSettled'
  BY <1>1 DEF IInv, UnitIsWorked, StageIsOfUnit, PublishedIsSettled, Publishing,
              Publications
<1>4. QED
  BY <1>2, <1>3 DEF IInv

THEOREM StepIInv == IInv /\ [Next]_vars => IInv'
<1> SUFFICES ASSUME IInv, [Next]_vars PROVE IInv'
  OBVIOUS
<1>1. CASE StartRun
  BY <1>1, StartRunInd
<1>2. CASE WorkerStep
  BY <1>2, DenyInd, GrantInd, WaitInd, NoBatchInd, ResultsUnavailableInd,
     StageRowInd, SettleBatchInd DEF WorkerStep
<1>3. CASE CollectorStep
  BY <1>3, WriteVoteInd, RowDoneInd, LeaveInd DEF CollectorStep
<1>4. CASE Leave \/ TornDown \/ CloseRun \/ Killed
  BY <1>4, LeaveInd, OverInd
<1>5. CASE UNCHANGED vars
  BY <1>5, StutterInd
<1>6. QED
  BY <1>1, <1>2, <1>3, <1>4, <1>5 DEF Next

THEOREM InvariantHolds == Spec => []IInv
BY InitIInv, StepIInv, PTL DEF Spec

-----------------------------------------------------------------------------
(* For any items, attempts, limit and number of invocations, and wherever    *)
(* the worker or the host is lost: every planned item is queued, held,        *)
(* settled with a vote or reported as not run, and is so exactly once         *)
(* (ItemSource, _GradingJob).                                                *)
THEOREM NoItemIsLost == Spec => []EachItemOnce
<1>1. IInv => EachItemOnce
  BY DEF IInv
<1>2. QED
  BY <1>1, InvariantHolds, PTL

(* The files of votes change only when rows of a settled unit are published. *)
LEMMA VotesComeFromPublications ==
  ASSUME IInv, Next, votes' # votes
  PROVE  booked \in {"results", "doubled", "free"}
<1>1. Publishing /\ Publications # {}
  <2>1. CASE WriteVote
    BY <2>1 DEF WriteVote
  <2>2. CASE CollectorRaises \/ CollectorRaisesAgain
    <3>1. Publishing
      BY <2>2 DEF CollectorRaises, CollectorRaisesAgain, Publishing
    <3>2. (IF writing = NoRow THEN Publications ELSE {writing}) # {}
      BY <2>2 DEF CollectorRaises, CollectorRaisesAgain
    <3>3. QED
      BY <3>1, <3>2 DEF IInv, PublishedIsSettled
  <2>3. CASE Killed
    BY <2>3 DEF Killed
  <2>4. CASE StartRun \/ WorkerStep \/ WriteReceipt \/ Leave \/ TornDown \/ CloseRun
    <3>1. votes' = votes
      BY <2>4 DEF StartRun, WorkerStep, WriteReceipt, Leave, TornDown, CloseRun,
                  Deny, Grant, NoMoreItems, Submit, PollTerminal, NoBatch,
                  SettleFailure, ResultsUnavailable, StageRow, SettleBatch, disk
    <3>2. QED
      BY <3>1
  <2>5. QED
    BY <2>1, <2>2, <2>3, <2>4 DEF Next, CollectorStep
<1>2. QED
  BY <1>1 DEF IInv, PublishedIsSettled

(* "Only a durably settled unit can publish votes", wherever the worker is   *)
(* lost and whichever writes fail (_GradingJob._publications, _teardown).    *)
THEOREM VotesFollowSettlement == Spec => VotesAreSettled
<1>1. IInv /\ [Next]_vars
        => [votes' # votes => booked \in {"results", "doubled", "free"}]_vars
  <2> SUFFICES ASSUME IInv, Next
               PROVE  votes' # votes => booked \in {"results", "doubled", "free"}
    OBVIOUS
  <2> QED
    BY VotesComeFromPublications
<1>2. QED
  BY <1>1, InvariantHolds, PTL DEF Spec, VotesAreSettled

-----------------------------------------------------------------------------
(* While an invocation runs, no item it has still to grade has a final record *)
(* on disk, or a final row on its way there.  A settled batch queues an item   *)
(* again only if its one row is not final, which rests on the row saying so   *)
(* when the take was the last.                                               *)
FinalsAreElsewhere ==
  phase = "running" =>
    /\ \A i \in pending \union held : ~HasFinal(i)
    /\ \A row \in terminals \union stage :
         ~unit /\ Final(row) => row.item \notin pending \union held
    /\ unit => \A row \in stage : row.terminal <=> TerminalTake(row.item, row.status)
    /\ unit /\ pc # "send" => stage = {}

(* Steps that keep the files and the rows of the collector may not bring an   *)
(* item back.                                                                *)
LEMMA QueueShrinks ==
  ASSUME FinalsAreElsewhere, phase = "running", ~unit,
         pending' \union held' \subseteq pending \union held,
         stage' \subseteq stage, terminals' \subseteq terminals, votes' = votes,
         unit' => stage' = {}
  PROVE  FinalsAreElsewhere'
BY DEF FinalsAreElsewhere, HasFinal, Final

LEMMA ReserveKeepsFinals ==
  ASSUME IInv, FinalsAreElsewhere, Deny \/ Grant \/ NoMoreItems
  PROVE  FinalsAreElsewhere'
<1>1. phase = "running" /\ pc = "reserve" /\ Publications = {}
  BY DEF Deny, Grant, NoMoreItems, Working
<1>2. ~unit /\ held = {} /\ stage = {}
  BY <1>1 DEF IInv, UnitIsWorked, Publications
<1>3. /\ pending' \union held' \subseteq pending \union held
      /\ UNCHANGED <<stage, terminals, votes>>
  BY <1>2 DEF Deny, Grant, NoMoreItems, Lose, source, job, disk
<1> QED BY <1>1, <1>2, <1>3, QueueShrinks

LEMMA CallKeepsFinals ==
  ASSUME IInv, FinalsAreElsewhere, Submit \/ PollTerminal
  PROVE  FinalsAreElsewhere'
<1>1. /\ phase = "running" /\ pc \in {"submit", "poll"}
      /\ UNCHANGED <<pending, held, attempts, unit, stage, terminals, votes>>
  BY DEF Submit, PollTerminal, Working, source, job, disk
<1>2. unit /\ stage = {}
  BY <1>1 DEF IInv, UnitIsWorked, FinalsAreElsewhere
<1> QED BY <1>1, <1>2 DEF FinalsAreElsewhere, HasFinal, Final

(* Without results, only items that are given up get a final row.            *)
LEMMA FailureKeepsFinals ==
  ASSUME IInv, FinalsAreElsewhere, NoBatch \/ ResultsUnavailable
  PROVE  FinalsAreElsewhere'
<1>1. PICK step \in {"submit", "poll", "read"}, how \in {"free", "doubled"} :
        Working(step) /\ SettleFailure(how)
  BY DEF NoBatch, ResultsUnavailable
<1>2. /\ phase = "running" /\ pc \in {"submit", "poll", "read"} /\ unit' = FALSE
      /\ held' = {} /\ UNCHANGED <<stage, votes>>
  BY <1>1 DEF Working, SettleFailure, disk
<1>3. unit /\ stage = {} /\ terminals = {} /\ pending \intersect held = {}
  BY <1>2 DEF IInv, UnitIsWorked, FinalsAreElsewhere, PublishedIsSettled, Publishing,
              EachItemOnce
<1>4. /\ pending' \union held' \subseteq pending \union held
      /\ \A row \in terminals' : row.item \notin pending' \union held'
  <2>1. CASE NoBatch
    <3> DEFINE last == {i \in held : Exhausted(i)}
               withheld == last \intersect paid'
    <3>1. /\ terminals' = {TerminalRow(i) : i \in withheld}
          /\ pending' = pending \union (held \ last)
      BY <2>1 DEF NoBatch
    <3>2. \A row \in terminals' : row.item \in last
      BY <3>1 DEF TerminalRow
    <3> QED BY <1>2, <1>3, <3>1, <3>2
  <2>2. CASE ResultsUnavailable
    BY <1>2, <1>3, <2>2 DEF ResultsUnavailable
  <2> QED BY <2>1, <2>2
<1>5. \A i \in pending' \union held' : ~HasFinal(i)'
  BY <1>2, <1>4 DEF FinalsAreElsewhere, HasFinal
<1> QED BY <1>2, <1>3, <1>4, <1>5 DEF FinalsAreElsewhere

LEMMA StageRowKeepsFinals ==
  ASSUME IInv, FinalsAreElsewhere, StageRow
  PROVE  FinalsAreElsewhere'
<1>1. /\ phase = "running" /\ pc \in {"read", "send"} /\ pc' = "send"
      /\ UNCHANGED <<pending, held, attempts, unit, votes>>
  BY DEF StageRow, Working, source, disk
<1>2. unit
  BY <1>1 DEF IInv, UnitIsWorked
<1>3. PICK i \in held \ Staged, status \in Status :
        stage' = stage \union
          {[item |-> i, attempt |-> attempts[i], status |-> status,
            terminal |-> TerminalTake(i, status)]}
  BY DEF StageRow
<1> DEFINE row == [item |-> i, attempt |-> attempts[i], status |-> status,
                   terminal |-> TerminalTake(i, status)]
<1>4. row.terminal <=> TerminalTake(row.item, row.status)
  OBVIOUS
<1>5. stage' = stage \union {row}
  BY <1>3
<1> HIDE DEF row
<1>6. \A r \in stage' : r.terminal <=> TerminalTake(r.item, r.status)
  BY <1>1, <1>2, <1>4, <1>5 DEF FinalsAreElsewhere
<1> QED BY <1>1, <1>2, <1>6 DEF FinalsAreElsewhere, HasFinal, TerminalTake, Exhausted

LEMMA SettleKeepsFinals ==
  ASSUME IInv, FinalsAreElsewhere, SettleBatch
  PROVE  FinalsAreElsewhere'
<1> DEFINE retry == With(Retryable)
           last == {i \in retry : Exhausted(i)}
<1>1. /\ phase = "running" /\ pc = "send" /\ Staged = held
      /\ held' = {} /\ unit' = FALSE /\ pending' = pending \union (retry \ last)
      /\ UNCHANGED <<stage, terminals, votes>>
  BY DEF SettleBatch, Working, disk
<1>2. /\ unit /\ terminals = {} /\ pending \intersect held = {}
      /\ \A r, q \in stage : r.item = q.item => r = q
  BY <1>1 DEF IInv, UnitIsWorked, PublishedIsSettled, Publishing, EachItemOnce,
              StageIsOfUnit
<1>3. retry \subseteq held
  BY <1>1 DEF With, Staged
<1>4. \A i \in pending' \union held' : ~HasFinal(i)'
  BY <1>1, <1>3 DEF FinalsAreElsewhere, HasFinal
<1>5. ASSUME NEW row \in stage, Final(row) PROVE row.item \notin pending' \union held'
  <2>1. row.item \in held
    BY <1>1 DEF Staged
  <2>2. row.item \in retry => row.item \in last
    <3> SUFFICES ASSUME row.item \in retry PROVE Exhausted(row.item)
      OBVIOUS
    <3>1. PICK r \in stage : r.item = row.item /\ r.status \in Retryable
      BY DEF With
    <3>2. row.status \in Retryable
      BY <1>2, <3>1
    <3>3. row.terminal
      BY <1>5, <3>2 DEF Final, Retryable
    <3> QED BY <1>1, <1>2, <3>3 DEF FinalsAreElsewhere, TerminalTake
  <2> QED BY <1>1, <1>2, <2>1, <2>2
<1> HIDE DEF retry, last
<1> QED BY <1>1, <1>2, <1>4, <1>5 DEF FinalsAreElsewhere, Final

(* A row becomes a record when its item is elsewhere.                        *)
LEMMA CollectorKeepsFinals ==
  ASSUME IInv, FinalsAreElsewhere, WriteVote \/ WriteReceipt, phase = "running"
  PROVE  FinalsAreElsewhere'
<1>1. UNCHANGED <<phase, pc, pending, held, attempts, unit>>
  BY DEF WriteVote, WriteReceipt, source, job
<1>2. terminals' \subseteq terminals /\ stage' \subseteq stage
  BY DEF WriteVote, WriteReceipt, Published, job
<1>3. \A i \in pending \union held : ~HasFinal(i)'
  <2>1. CASE WriteVote
    <3>1. PICK row \in Publications : votes' = votes \union {VoteOf(row, FALSE)}
      BY <2>1 DEF WriteVote
    <3>2. ~unit /\ row \in terminals \union stage
      BY <3>1 DEF IInv, PublishedIsSettled, Publishing, Publications
    <3>3. Final(row) => row.item \notin pending \union held
      BY <3>2 DEF FinalsAreElsewhere
    <3>4. VoteOf(row, FALSE).item = row.item /\ (VoteOf(row, FALSE).final => Final(row))
      BY DEF VoteOf
    <3> QED BY <3>1, <3>3, <3>4 DEF FinalsAreElsewhere, HasFinal
  <2>2. CASE WriteReceipt
    BY <2>2 DEF WriteReceipt, FinalsAreElsewhere, HasFinal
  <2> QED BY <2>1, <2>2
<1> QED BY <1>1, <1>2, <1>3 DEF FinalsAreElsewhere, Final, TerminalTake, Exhausted

LEMMA FinalsStayElsewhere ==
  IInv /\ FinalsAreElsewhere /\ [Next]_vars => FinalsAreElsewhere'
<1> SUFFICES ASSUME IInv, FinalsAreElsewhere, [Next]_vars PROVE FinalsAreElsewhere'
  OBVIOUS
<1>1. CASE StartRun
  <2>1. /\ pending' = Unfinished /\ held' = {} /\ stage' = {} /\ terminals' = {}
        /\ unit' = FALSE /\ votes' = votes
    BY <1>1 DEF StartRun
  <2> QED BY <2>1 DEF FinalsAreElsewhere, Unfinished, HasFinal
<1>2. CASE WorkerStep
  BY <1>2, ReserveKeepsFinals, CallKeepsFinals, FailureKeepsFinals, StageRowKeepsFinals,
     SettleKeepsFinals DEF WorkerStep
<1>3. CASE WriteVote \/ WriteReceipt
  <2>1. CASE phase = "running"
    BY <1>3, <2>1, CollectorKeepsFinals
  <2>2. CASE phase # "running"
    <3>1. phase' = phase
      BY <1>3 DEF WriteVote, WriteReceipt
    <3> QED BY <2>2, <3>1 DEF FinalsAreElsewhere
  <2> QED BY <2>1, <2>2
<1>4. CASE CollectorRaises \/ CollectorRaisesAgain \/ Leave \/ TornDown \/ CloseRun \/ Killed
  <2>1. phase' # "running"
    BY <1>4 DEF CollectorRaises, CollectorRaisesAgain, Finish, Leave, TornDown, CloseRun,
                Killed
  <2> QED BY <2>1 DEF FinalsAreElsewhere
<1>5. CASE UNCHANGED vars
  BY <1>5 DEF vars, source, job, disk, FinalsAreElsewhere, HasFinal, Final, TerminalTake,
              Exhausted
<1> QED BY <1>1, <1>2, <1>3, <1>4, <1>5 DEF Next, CollectorStep

LEMMA FinalsHold == Spec => []FinalsAreElsewhere
<1>1. Init => FinalsAreElsewhere
  BY DEF Init, FinalsAreElsewhere
<1> QED BY <1>1, InvariantHolds, FinalsStayElsewhere, PTL DEF Spec

(* "A terminal record is final and withheld: no later invocation resubmits    *)
(* it": whatever was killed or could not be written, no batch is sent with an *)
(* item that has a final record or a vote that is still to be written.       *)
THEOREM FinalStaysFinal == Spec => FinalIsNotResubmitted
<1>1. IInv /\ FinalsAreElsewhere /\ [Next]_vars
        => [pc = "submit" /\ pc' = "poll"
              => \A i \in held : ~HasFinal(i) /\ i \notin graded]_vars
  <2> SUFFICES ASSUME IInv, FinalsAreElsewhere, Next, pc = "submit", pc' = "poll"
               PROVE  \A i \in held : ~HasFinal(i) /\ i \notin graded
    OBVIOUS
  <2>1. phase = "running"
    <3>1. CASE WorkerStep
      BY <3>1 DEF WorkerStep, Deny, Grant, NoMoreItems, Submit, PollTerminal, NoBatch,
                  ResultsUnavailable, StageRow, SettleBatch, Working
    <3>2. CASE StartRun \/ CollectorStep \/ Leave \/ TornDown \/ CloseRun \/ Killed
      BY <3>2 DEF StartRun, CollectorStep, WriteVote, WriteReceipt, CollectorRaises,
                  CollectorRaisesAgain, Leave, TornDown, CloseRun, Killed
    <3> QED BY <3>1, <3>2 DEF Next
  <2> QED BY <2>1 DEF FinalsAreElsewhere, IInv, EachItemOnce
<1> QED BY <1>1, FinalsHold, InvariantHolds, PTL DEF Spec, FinalIsNotResubmitted

-----------------------------------------------------------------------------
(* Types.  A queued item has an attempt left.                                *)
TypeInv == TypeOK /\ \A i \in pending : attempts[i] < MaxAttempts

LEMMA EntriesType ==
  ASSUME TypeInv, NEW S \in SUBSET Item, NEW reason \in Reasons
  PROVE  Entries(S, reason) \subseteq NotRun
<1>1. \A i \in S : attempts[i] \in Nat
  BY BoundsAssumption DEF TypeInv, TypeOK
<1> QED BY <1>1 DEF Entries, NotRun

LEMMA LoseTypes ==
  ASSUME TypeInv, NEW lost \in SUBSET Item, NEW reason \in Reasons, Lose(lost, reason)
  PROVE  notRun' \subseteq NotRun /\ pending' = {} /\ held' \subseteq Item
<1>1. Entries(lost \union pending, reason) \subseteq NotRun
  BY EntriesType DEF TypeInv, TypeOK
<1> QED BY <1>1 DEF Lose, TypeInv, TypeOK

LEMMA RowsAreTyped ==
  ASSUME TypeInv
  PROVE  /\ Publications \subseteq Row
         /\ \A row \in Row, torn \in BOOLEAN : VoteOf(row, torn) \in Vote
<1>1. Publications \subseteq Row
  BY DEF Publications, TypeInv, TypeOK
<1>2. ASSUME NEW row \in Row, NEW torn \in BOOLEAN PROVE VoteOf(row, torn) \in Vote
  <2>1. run \in Nat
    BY BoundsAssumption DEF TypeInv, TypeOK
  <2>2. row.item \in Item /\ row.attempt \in Nat /\ (Final(row) /\ ~torn) \in BOOLEAN
    BY DEF Row
  <2> QED BY <2>1, <2>2 DEF VoteOf, Vote
<1> QED BY <1>1, <1>2

LEMMA WorkerKeepsTypes == ASSUME TypeInv, WorkerStep PROVE TypeInv'
<1> USE DEF TypeInv
<1>0. \A i \in Item : attempts[i] \in 0 .. MaxAttempts
  BY DEF TypeOK
<1>1. CASE Deny
  <2>1. PICK reason \in Reasons : Lose({}, reason)
    BY <1>1 DEF Deny, Reasons
  <2>2. notRun' \subseteq NotRun /\ pending' = {} /\ held' \subseteq Item
    BY <2>1, LoseTypes
  <2> QED BY <1>1, <2>2 DEF Deny, TypeOK, job, disk, ledger
<1>2. CASE Grant
  <2>1. PICK S \in SUBSET pending :
          /\ held' = S /\ pending' = pending \ S
          /\ attempts' = [i \in Item |-> attempts[i] + IF i \in S THEN 1 ELSE 0]
    BY <1>2 DEF Grant
  <2>2. S \subseteq Item
    BY DEF TypeOK
  <2>3. attempts' \in [Item -> 0 .. MaxAttempts]
    <3>1. ASSUME NEW i \in Item
          PROVE  attempts[i] + (IF i \in S THEN 1 ELSE 0) \in 0 .. MaxAttempts
      BY <1>0, BoundsAssumption
    <3> QED BY <2>1, <3>1
  <2>4. \A i \in pending' : attempts'[i] < MaxAttempts
    <3>1. ASSUME NEW i \in pending' PROVE attempts'[i] = attempts[i]
      BY <1>0, <2>1 DEF TypeOK
    <3> QED BY <2>1, <3>1
  <2>5. /\ UNCHANGED <<run, phase, plan, paid, notRun, failures, stage, terminals,
                       writing, votes, graded, charged, clean>>
        /\ unit' = TRUE /\ booked' = "open" /\ pc' = "submit"
    BY <1>2 DEF Grant, disk
  <2>6. held' \subseteq Item /\ pending' \subseteq Item
    BY <2>1, <2>2 DEF TypeOK
  <2> QED BY <2>3, <2>4, <2>5, <2>6 DEF TypeOK
<1>3. CASE NoMoreItems \/ Submit \/ PollTerminal
  BY <1>3 DEF NoMoreItems, Submit, PollTerminal, TypeOK, source, job, disk, ledger
<1>f. ASSUME NEW how \in {"free", "doubled"}, SettleFailure(how)
      PROVE  /\ UNCHANGED <<run, phase, plan, attempts, stage, writing, votes, graded,
                            clean>>
             /\ unit' = FALSE /\ held' = {} /\ pc' = "reserve" /\ booked' = how
             /\ paid' \subseteq Item /\ charged' \subseteq Item /\ failures' \in Nat
  <2>1. CASE how = "doubled"
    BY <1>f, <2>1 DEF SettleFailure, NotePaid, TypeOK, disk
  <2>2. CASE how # "doubled"
    BY <1>f, <2>2 DEF SettleFailure, TypeOK, disk
  <2> QED BY <2>1, <2>2
<1>4. CASE NoBatch
  <2> DEFINE last == {i \in held : Exhausted(i)}
             withheld == last \intersect paid'
  <2>1. PICK how \in {"free", "doubled"} : SettleFailure(how)
    BY <1>4 DEF NoBatch
  <2>2. /\ notRun' = (notRun \union Entries(last \ withheld, "submit_rejected"))
                       \union Entries(withheld, "retries_exhausted")
        /\ terminals' = {TerminalRow(i) : i \in withheld}
        /\ pending' = pending \union (held \ last)
    BY <1>4 DEF NoBatch
  <2>3. last \subseteq Item /\ withheld \subseteq Item
    BY DEF TypeOK
  <2>4. terminals' \subseteq Row
    <3>1. ASSUME NEW i \in withheld PROVE TerminalRow(i) \in Row
      BY <1>0, <2>3, BoundsAssumption DEF TerminalRow, Row, Status
    <3> QED BY <2>2, <3>1
  <2>5. \A i \in pending' : attempts[i] < MaxAttempts
    BY <1>0, <2>2, BoundsAssumption DEF Exhausted, TypeOK
  <2> HIDE DEF last, withheld
  <2>6. notRun' \subseteq NotRun
    <3>1. {"submit_rejected", "retries_exhausted"} \subseteq Reasons
      BY DEF Reasons
    <3>2. Entries(last \ withheld, "submit_rejected") \subseteq NotRun
      BY <2>3, <3>1, EntriesType
    <3>3. Entries(withheld, "retries_exhausted") \subseteq NotRun
      BY <2>3, <3>1, EntriesType
    <3> QED BY <2>2, <3>2, <3>3 DEF TypeOK
  <2>7. pending' \subseteq Item
    BY <2>2 DEF TypeOK
  <2> QED BY <1>f, <2>1, <2>4, <2>5, <2>6, <2>7 DEF TypeOK
<1>5. CASE ResultsUnavailable
  <2>1. Entries(held, "batch_failed") \subseteq NotRun
    BY EntriesType DEF TypeOK, Reasons
  <2>2. notRun' \subseteq NotRun /\ UNCHANGED <<pending, terminals>>
    BY <1>5, <2>1 DEF ResultsUnavailable, TypeOK
  <2>3. SettleFailure("doubled")
    BY <1>5 DEF ResultsUnavailable
  <2> QED BY <1>f, <2>2, <2>3 DEF TypeOK
<1>6. CASE StageRow
  <2>1. PICK i \in held, status \in Status :
          stage' = stage \union
            {[item |-> i, attempt |-> attempts[i], status |-> status,
              terminal |-> TerminalTake(i, status)]}
    BY <1>6 DEF StageRow
  <2>2. i \in Item /\ TerminalTake(i, status) \in BOOLEAN
    BY DEF TypeOK, TerminalTake
  <2>3. attempts[i] \in Nat
    BY <1>0, <2>2, BoundsAssumption
  <2>4. stage' \subseteq Row
    BY <2>1, <2>2, <2>3 DEF TypeOK, Row
  <2> QED BY <1>6, <2>4 DEF StageRow, TypeOK, source, disk, ledger
<1>7. CASE SettleBatch
  <2>1. \A S : With(S) \subseteq Item
    BY DEF With, TypeOK, Row
  <2> DEFINE retry == With(Retryable)
             last == {i \in retry : Exhausted(i)}
  <2>2. /\ notRun' = (notRun \union Entries(With({"failed"}), "batch_failed"))
                       \union Entries(last, "retries_exhausted")
        /\ pending' = pending \union (retry \ last)
    BY <1>7 DEF SettleBatch
  <2>3. Entries(With({"failed"}), "batch_failed") \subseteq NotRun
    BY <2>1, EntriesType DEF Reasons
  <2>4. Entries(last, "retries_exhausted") \subseteq NotRun
    <3>1. last \subseteq Item
      BY <2>1
    <3> HIDE DEF last
    <3> QED BY <3>1, EntriesType DEF Reasons
  <2>5. retry \subseteq Item
    BY <2>1
  <2>6. \A i \in pending' : attempts[i] < MaxAttempts
    <3> HIDE DEF retry
    <3> QED BY <1>0, <2>2, <2>5, BoundsAssumption DEF Exhausted, TypeOK
  <2> HIDE DEF retry, last
  <2>7. notRun' \subseteq NotRun /\ pending' \subseteq Item
    BY <2>2, <2>3, <2>4, <2>5 DEF TypeOK
  <2>8. /\ UNCHANGED <<run, phase, plan, attempts, stage, terminals, writing, votes>>
        /\ clean' = clean /\ unit' = FALSE /\ booked' = "results" /\ held' = {}
        /\ pc' = "reserve"
    BY <1>7 DEF SettleBatch, disk
  <2>9. /\ paid' \subseteq Item /\ charged' \subseteq Item /\ graded' \subseteq Item
        /\ failures' \in Nat
    BY <1>7, <2>1 DEF SettleBatch, NotePaid, TypeOK
  <2> QED BY <2>6, <2>7, <2>8, <2>9 DEF TypeOK
<1> QED BY <1>1, <1>2, <1>3, <1>4, <1>5, <1>6, <1>7 DEF WorkerStep

LEMMA FinishTypes ==
  ASSUME TypeInv, Finish
  PROVE  /\ phase' = "teardown" /\ notRun' \subseteq NotRun /\ pending' = {}
         /\ held' \subseteq Item /\ unit' = unit
         /\ booked' \in {"none", "open", "free", "doubled", "results", "lost"}
<1>1. Lose(held, "worker_lost") /\ held \in SUBSET Item /\ "worker_lost" \in Reasons
  BY DEF Finish, TypeInv, TypeOK, Reasons
<1>2. notRun' \subseteq NotRun /\ pending' = {} /\ held' \subseteq Item
  BY <1>1, LoseTypes
<1>3. booked' \in {"none", "open", "free", "doubled", "results", "lost"}
  BY DEF Finish, TypeInv, TypeOK
<1> QED BY <1>2, <1>3 DEF Finish

LEMMA CollectorKeepsTypes ==
  ASSUME TypeInv, CollectorStep \/ Leave \/ TornDown \/ CloseRun \/ Killed
  PROVE  TypeInv'
<1> USE DEF TypeInv
<1>1. /\ Publications \subseteq Row
      /\ \A row \in Row, torn \in BOOLEAN : VoteOf(row, torn) \in Vote
  BY RowsAreTyped
<1>2. CASE WriteVote
  BY <1>1, <1>2 DEF WriteVote, TypeOK, source, job, ledger
<1>3. CASE WriteReceipt
  BY <1>3 DEF WriteReceipt, Published, TypeOK, source, ledger
<1>4. ASSUME NEW row \in IF writing = NoRow THEN Publications ELSE {writing},
             LeftBehind(row)
      PROVE  votes' \subseteq Vote
  <2>1. CASE writing = NoRow
    <3>1. VoteOf(row, TRUE) \in Vote
      BY <1>1, <2>1
    <3> QED BY <1>4, <3>1 DEF LeftBehind, TypeOK
  <2>2. CASE writing # NoRow
    BY <1>4, <2>2 DEF LeftBehind, TypeOK
  <2> QED BY <2>1, <2>2
<1>5. CASE CollectorRaises
  <2>1. votes' \subseteq Vote
    BY <1>4, <1>5 DEF CollectorRaises
  <2> QED BY <1>5, <2>1, FinishTypes DEF CollectorRaises, TypeOK
<1>6. CASE CollectorRaisesAgain
  <2>1. PICK row \in IF writing = NoRow THEN Publications ELSE {writing} :
          LeftBehind(row) /\ Published(row)
    BY <1>6 DEF CollectorRaisesAgain
  <2>2. votes' \subseteq Vote
    BY <1>4, <2>1
  <2> QED BY <1>6, <2>1, <2>2 DEF CollectorRaisesAgain, Published, TypeOK, source, ledger
<1>7. CASE Leave
  BY <1>7, FinishTypes DEF Leave, TypeOK, disk
<1>8. CASE TornDown
  BY <1>8 DEF TornDown, TypeOK, source, disk, ledger
<1>9. CASE CloseRun
  BY <1>9 DEF CloseRun, TypeOK, source, job, ledger
<1>10. CASE Killed
  BY <1>1, <1>10 DEF Killed, TypeOK, source, job, ledger
<1> QED BY <1>2, <1>3, <1>5, <1>6, <1>7, <1>8, <1>9, <1>10 DEF CollectorStep

LEMMA NextKeepsTypes == TypeInv /\ [Next]_vars => TypeInv'
<1> SUFFICES ASSUME TypeInv, [Next]_vars PROVE TypeInv'
  OBVIOUS
<1>1. CASE StartRun
  <2>1. /\ run' = run + 1 /\ run < MaxRuns /\ plan' = Unfinished /\ pending' = plan'
        /\ held' = {} /\ attempts' = [i \in Item |-> 0]
        /\ phase' \in {"closing", "running"} /\ pc' = "reserve" /\ unit' = FALSE
        /\ failures' = 0 /\ booked' = "none" /\ clean' = TRUE /\ paid' = {}
        /\ notRun' = {} /\ stage' = {} /\ terminals' = {}
        /\ graded' = {} /\ charged' = {} /\ UNCHANGED <<writing, votes>>
    BY <1>1 DEF StartRun
  <2>2. run' \in 0 .. MaxRuns /\ attempts' \in [Item -> 0 .. MaxAttempts]
        /\ \A i \in Item : attempts'[i] < MaxAttempts
    BY <2>1, BoundsAssumption DEF TypeInv, TypeOK
  <2>3. plan' \subseteq Item
    BY <2>1 DEF Unfinished
  <2> QED BY <2>1, <2>2, <2>3 DEF TypeInv, TypeOK
<1>2. CASE UNCHANGED vars
  BY <1>2 DEF vars, source, job, disk, ledger, TypeInv, TypeOK
<1> QED BY <1>1, <1>2, WorkerKeepsTypes, CollectorKeepsTypes DEF Next

LEMMA TypesHold == Spec => []TypeInv
<1>1. Init => TypeInv
  <2> SUFFICES ASSUME Init PROVE TypeInv
    OBVIOUS
  <2>1. PICK start \in Starts : run = start.run /\ votes = start.votes
    BY DEF Init
  <2>2. /\ start.run \in 0 .. MaxRuns
        /\ start.votes \in SUBSET [item : Item, run : {0}, attempt : 1 .. MaxAttempts,
                                   final : BOOLEAN, torn : {FALSE}]
    BY BoundsAssumption
  <2>3. [item : Item, run : {0}, attempt : 1 .. MaxAttempts,
         final : BOOLEAN, torn : {FALSE}] \subseteq Vote
    <3>1. 1 .. MaxAttempts \subseteq Nat /\ {0} \subseteq Nat /\ {FALSE} \subseteq BOOLEAN
      BY BoundsAssumption
    <3> QED BY <3>1 DEF Vote
  <2>4. run \in 0 .. MaxRuns /\ votes \subseteq Vote
    BY <2>1, <2>2, <2>3
  <2>5. attempts \in [Item -> 0 .. MaxAttempts]
    BY BoundsAssumption DEF Init
  <2>6. /\ phase = "idle" /\ pc = "reserve" /\ plan = {} /\ pending = {} /\ held = {}
        /\ paid = {} /\ notRun = {} /\ unit = FALSE /\ failures = 0 /\ stage = {}
        /\ terminals = {} /\ writing = NoRow /\ booked = "none" /\ graded = {}
        /\ charged = {} /\ clean = TRUE
    BY DEF Init
  <2> QED BY <2>4, <2>5, <2>6 DEF TypeInv, TypeOK
<1> QED BY <1>1, NextKeepsTypes, PTL DEF Spec

(* Every variable holds a value of its kind, and no item is taken more often  *)
(* than MaxAttempts, however often its batches are lost or rejected.         *)
THEOREM TypeCorrect == Spec => []TypeOK
<1>1. TypeInv => TypeOK
  BY DEF TypeInv
<1> QED BY <1>1, TypesHold, PTL

-----------------------------------------------------------------------------
(* Votes, receipts and manifests.                                            *)
Coordinate(v) == [item |-> v.item, run |-> v.run, attempt |-> v.attempt]

(* Every receipt has its vote, every manifest its receipts; no file is of a   *)
(* later invocation; and while all writes succeed, only the vote that is      *)
(* being written has no receipt.                                             *)
Inventory ==
  /\ \A r \in receipts : \E v \in votes : ~v.torn /\ r = Coordinate(v)
  /\ \A file \in runFiles : file.manifest \subseteq receipts
  /\ \A v \in votes : v.run <= run
  /\ writing # NoRow => VoteOf(writing, FALSE) \in votes
  /\ phase # "idle" => manifest = {r \in receipts : r.run = run}
  /\ phase # "idle" /\ clean =>
       \A v \in votes : v.run = run =>
         Coordinate(v) \in manifest \/ (writing # NoRow /\ v = VoteOf(writing, FALSE))


LEMMA RowsAreWhole == NoRow \notin Row
<1>1. DOMAIN NoRow = {"item"}
  BY DEF NoRow
<1>2. \A row \in Row : "attempt" \in DOMAIN row
  BY DEF Row
<1> QED BY <1>1, <1>2

LEMMA InventoryFrame ==
  ASSUME Inventory, UNCHANGED <<run, writing, votes, receipts, manifest, runFiles>>,
         phase' # "idle" => phase # "idle", clean' = clean
  PROVE  Inventory'
BY DEF Inventory, VoteOf

(* Parts of a vote are left behind, or nothing.                               *)
LEMMA InventoryTorn ==
  ASSUME Inventory, run \in Nat, NEW row,
         writing' = NoRow, clean' = FALSE, phase # "idle",
         votes' = votes \/ votes' = votes \union {VoteOf(row, TRUE)},
         UNCHANGED <<run, receipts, manifest, runFiles>>
  PROVE  Inventory'
<1>1. VoteOf(row, TRUE).run = run
  BY DEF VoteOf
<1>2. votes \subseteq votes' /\ \A v \in votes' : v \in votes \/ v.run = run
  BY <1>1
<1>3. \A r \in receipts' : \E v \in votes' : ~v.torn /\ r = Coordinate(v)
  BY <1>2 DEF Inventory
<1>4. \A v \in votes' : v.run <= run'
  BY <1>2 DEF Inventory
<1> QED BY <1>3, <1>4 DEF Inventory

LEMMA InventoryKept ==
  ASSUME IInv, TypeInv, Inventory, [Next]_vars
  PROVE  Inventory'
<1>0. run \in Nat /\ \A v \in votes : v.run \in Nat
  BY BoundsAssumption DEF TypeInv, TypeOK, Vote
<1>1. CASE StartRun
  <2>1. /\ run' = run + 1 /\ phase = "idle" /\ manifest' = {} /\ writing = NoRow
        /\ UNCHANGED <<writing, votes, receipts, runFiles>>
    BY <1>1 DEF StartRun, IInv, PublishedIsSettled, Publishing
  <2>2. \A v \in votes : v.run <= run' /\ v.run # run'
    BY <1>0, <2>1 DEF Inventory
  <2>3. {r \in receipts : r.run = run'} = {}
    BY <2>2 DEF Inventory, Coordinate
  <2> QED BY <2>1, <2>2, <2>3 DEF Inventory
<1>2. CASE WorkerStep
  BY <1>2, InventoryFrame DEF WorkerStep, Deny, Grant, NoMoreItems, Submit, PollTerminal,
     NoBatch, ResultsUnavailable, SettleFailure, StageRow, SettleBatch, Working, disk
<1>3. CASE WriteVote
  <2>1. PICK row \in Publications :
          votes' = votes \union {VoteOf(row, FALSE)} /\ writing' = row
    BY <1>3 DEF WriteVote
  <2>2. /\ writing = NoRow
        /\ UNCHANGED <<run, phase, receipts, manifest, runFiles, clean>>
    BY <1>3 DEF WriteVote
  <2>3. VoteOf(row, FALSE).run = run /\ VoteOf(row, FALSE)' = VoteOf(row, FALSE)
        /\ VoteOf(writing, FALSE)' = VoteOf(row, FALSE)
    BY <2>1, <2>2 DEF VoteOf, Final
  <2> DEFINE vote == VoteOf(row, FALSE)
  <2>4. votes' = votes \union {vote} /\ vote.run = run /\ VoteOf(writing, FALSE)' = vote
    BY <2>1, <2>3
  <2> HIDE DEF vote
  <2>5. \A r \in receipts' : \E v \in votes' : ~v.torn /\ r = Coordinate(v)
    BY <2>2, <2>4 DEF Inventory
  <2>6. \A v \in votes' : v.run <= run'
    BY <1>0, <2>2, <2>4 DEF Inventory
  <2>7. (phase # "idle" /\ clean)' =>
          \A v \in votes' : v.run = run' => Coordinate(v) \in manifest' \/ v = vote
    BY <2>2, <2>4 DEF Inventory
  <2>8. writing' # NoRow
    BY <2>1, RowsAreTyped, RowsAreWhole
  <2> QED BY <2>2, <2>4, <2>5, <2>6, <2>7, <2>8 DEF Inventory
<1>4. CASE WriteReceipt
  <2> DEFINE receipt == [item |-> writing.item, run |-> run, attempt |-> writing.attempt]
             vote == VoteOf(writing, FALSE)
  <2>1. /\ receipts' = receipts \union {receipt} /\ manifest' = manifest \union {receipt}
        /\ writing # NoRow /\ writing' = NoRow
        /\ UNCHANGED <<run, phase, votes, runFiles, clean>>
    BY <1>4 DEF WriteReceipt, Name
  <2>2. receipt = Coordinate(vote) /\ ~vote.torn /\ receipt.run = run
    BY DEF Coordinate, VoteOf
  <2>3. vote \in votes
    BY <2>1 DEF Inventory
  <2> HIDE DEF receipt, vote
  <2>4. \A r \in receipts' : \E v \in votes : ~v.torn /\ r = Coordinate(v)
    BY <2>1, <2>2, <2>3 DEF Inventory
  <2>5. phase # "idle" => manifest' = {r \in receipts' : r.run = run}
    BY <2>1, <2>2 DEF Inventory
  <2>6. phase # "idle" /\ clean =>
          \A v \in votes : v.run = run => Coordinate(v) \in manifest'
    BY <2>1, <2>2 DEF Inventory, vote
  <2> QED BY <2>1, <2>4, <2>5, <2>6 DEF Inventory
<1>5. CASE CollectorRaises \/ CollectorRaisesAgain
  <2>1. PICK row : LeftBehind(row)
    BY <1>5 DEF CollectorRaises, CollectorRaisesAgain
  <2>2. /\ writing' = NoRow /\ clean' = FALSE /\ phase # "idle"
        /\ UNCHANGED <<run, receipts, manifest, runFiles>>
    BY <1>5 DEF CollectorRaises, CollectorRaisesAgain
  <2> QED BY <1>0, <2>1, <2>2, InventoryTorn DEF LeftBehind
<1>6. CASE Leave \/ TornDown
  BY <1>6, InventoryFrame DEF Leave, TornDown, disk
<1>7. CASE CloseRun
  <2>1. /\ phase = "closing" /\ phase' = "idle"
        /\ runFiles' \subseteq runFiles \union {[run |-> run, manifest |-> manifest]}
        /\ UNCHANGED <<run, writing, votes, receipts, manifest, clean>>
    BY <1>7 DEF CloseRun
  <2>2. manifest \subseteq receipts
    BY <2>1 DEF Inventory
  <2> QED BY <2>1, <2>2 DEF Inventory, VoteOf
<1>8. CASE Killed
  <2>1. \E row : votes' = votes \/ votes' = votes \union {VoteOf(row, TRUE)}
    BY <1>8 DEF Killed
  <2> QED BY <1>0, <1>8, <2>1, InventoryTorn DEF Killed
<1>9. CASE UNCHANGED vars
  BY <1>9, InventoryFrame DEF vars, disk
<1> QED
  BY <1>1, <1>2, <1>3, <1>4, <1>5, <1>6, <1>7, <1>8, <1>9 DEF Next, CollectorStep

LEMMA InventoryHolds == Spec => []Inventory
<1>1. Init => Inventory
  <2> SUFFICES ASSUME Init PROVE Inventory
    OBVIOUS
  <2>1. PICK start \in Starts :
          run = start.run /\ votes = start.votes /\ receipts = Coordinates(start.votes)
    BY DEF Init
  <2>2. start.run \in Nat /\ \A v \in start.votes : v.run = 0 /\ v.torn = FALSE
    <3> DEFINE Old == [item : Item, run : {0}, attempt : 1 .. MaxAttempts,
                       final : BOOLEAN, torn : {FALSE}]
    <3>1. start.run \in 0 .. MaxRuns /\ start.votes \in SUBSET Old
      BY BoundsAssumption
    <3>2. \A v \in Old : v.run = 0 /\ v.torn = FALSE
      OBVIOUS
    <3> HIDE DEF Old
    <3> QED BY <3>1, <3>2
  <2>3. \A r \in receipts : \E v \in votes : ~v.torn /\ r = Coordinate(v)
    BY <2>1, <2>2 DEF Coordinates, Coordinate
  <2> QED BY <2>1, <2>2, <2>3 DEF Init, Inventory
<1> QED BY <1>1, InventoryKept, InvariantHolds, TypesHold, PTL DEF Spec

(* Whatever was interrupted, a receipt belongs to a whole vote and a manifest  *)
(* names receipts; an invocation whose writes succeeded has one receipt for   *)
(* each of its votes and names them all.                                     *)
THEOREM InventoriesAgree == Spec => []InventoryAgrees
<1>1. IInv /\ Inventory => InventoryAgrees
  <2> SUFFICES ASSUME IInv, Inventory PROVE InventoryAgrees
    OBVIOUS
  <2>1. receipts \subseteq Coordinates({v \in votes : ~v.torn})
    BY DEF Inventory, Coordinates, Coordinate
  <2>2. \A file \in runFiles : file.manifest \subseteq receipts
    BY DEF Inventory
  <2>3. ASSUME phase = "closing", clean
        PROVE  /\ manifest = {r \in receipts : r.run = run}
               /\ manifest = Coordinates({v \in votes : v.run = run})
    <3>1. writing = NoRow
      BY <2>3 DEF IInv, PublishedIsSettled, Publishing
    <3>2. manifest = {r \in receipts : r.run = run}
      BY <2>3 DEF Inventory
    <3>3. \A v \in votes : v.run = run => Coordinate(v) \in manifest
      BY <2>3, <3>1 DEF Inventory
    <3>4. \A r \in manifest : \E v \in votes : v.run = run /\ r = Coordinate(v)
      BY <3>2 DEF Inventory, Coordinate
    <3> QED BY <3>2, <3>3, <3>4 DEF Coordinates, Coordinate
  <2> QED BY <2>1, <2>2, <2>3 DEF InventoryAgrees
<1> QED BY <1>1, InventoryHolds, InvariantHolds, PTL

-----------------------------------------------------------------------------
(* Final records and the reports of items that were not run.                 *)
Unpaid ==
  /\ charged \subseteq paid
  /\ \A e \in notRun : e.reason = "submit_rejected" => e.item \notin paid

ToPublish == terminals \union (IF unit THEN {} ELSE stage)

GivenUp(i) == \E e \in notRun : e.item = i /\ e.reason = "retries_exhausted"

(* A planned item with a final record, or a final row on its way to one, has  *)
(* its vote or was given up after its last attempt; and of those that were    *)
(* given up none is without.                                                 *)
Explained ==
  phase # "idle" =>
    /\ phase = "closing" => ToPublish = {}
    /\ \A i \in plan : HasFinal(i) => i \in graded \/ GivenUp(i)
    /\ \A row \in ToPublish : Final(row) => row.item \in graded \/ GivenUp(row.item)
    /\ clean => \A i \in Item : GivenUp(i) =>
                  HasFinal(i) \/ \E row \in ToPublish : row.item = i /\ Final(row)

(* The entries of some items, for one reason.                                *)
LEMMA EntriesGiven ==
  ASSUME NEW S, NEW reason
  PROVE  /\ \A e \in Entries(S, reason) : e.reason = reason /\ e.item \in S
         /\ \A i \in S : \E e \in Entries(S, reason) : e.item = i
BY EntriesNameItems

LEMMA UnpaidKept ==
  ASSUME IInv, Unpaid, [Next]_vars
  PROVE  Unpaid'
<1>0. NotRunItems \intersect held = {}
  BY DEF IInv, EachItemOnce
<1>1. CASE Deny \/ Leave \/ CollectorRaises
  <2>1. \/ notRun' = notRun \union Entries({} \union pending, "whole_batch_failures")
        \/ notRun' = notRun \union Entries({} \union pending, "budget_stop")
        \/ notRun' = notRun \union Entries(held \union pending, "worker_lost")
    BY <1>1 DEF Deny, Leave, CollectorRaises, Finish, Lose
  <2>2. UNCHANGED <<paid, charged>>
    BY <1>1 DEF Deny, Leave, CollectorRaises, ledger
  <2>3. \A e \in notRun' : e \in notRun \/ e.reason # "submit_rejected"
    BY <2>1, EntriesGiven
  <2> QED BY <2>1, <2>2, <2>3 DEF Unpaid
<1>2. CASE NoBatch
  <2> DEFINE last == {i \in held : Exhausted(i)}
             withheld == last \intersect paid'
  <2>1. notRun' = notRun \union Entries(last \ withheld, "submit_rejected")
                         \union Entries(withheld, "retries_exhausted")
    BY <1>2 DEF NoBatch
  <2>2. \/ UNCHANGED <<paid, charged>>
        \/ paid' = paid \union held /\ charged' = charged \union held
    BY <1>2 DEF NoBatch, SettleFailure, NotePaid
  <2>3. \A e \in Entries(last \ withheld, "submit_rejected") : e.item \notin paid'
    BY DEF Entries
  <2>4. \A e \in Entries(withheld, "retries_exhausted") : e.reason # "submit_rejected"
    BY DEF Entries
  <2>5. \A e \in notRun : e.item \notin held
    BY <1>0 DEF NotRunItems
  <2> HIDE DEF withheld, last
  <2> QED BY <2>1, <2>2, <2>3, <2>4, <2>5 DEF Unpaid
<1>3. CASE ResultsUnavailable
  <2>1. /\ notRun' = notRun \union Entries(held, "batch_failed")
        /\ paid' = paid \union held /\ charged' = charged \union held
    BY <1>3 DEF ResultsUnavailable, SettleFailure, NotePaid
  <2>2. \A e \in Entries(held, "batch_failed") : e.reason # "submit_rejected"
    BY DEF Entries
  <2>3. \A e \in notRun : e.item \notin held
    BY <1>0 DEF NotRunItems
  <2> QED BY <2>1, <2>2, <2>3 DEF Unpaid
<1>4. CASE SettleBatch
  <2> DEFINE unpaid == With({"vote", "free", "failed"})
             costly == With({"paid", "missing"})
             last == {i \in With(Retryable) : Exhausted(i)}
  <2>1. /\ notRun' = notRun \union Entries(With({"failed"}), "batch_failed")
                            \union Entries(last, "retries_exhausted")
        /\ paid' = paid \union (held \ unpaid) /\ charged' = charged \union costly
        /\ phase = "running" /\ pc = "send" /\ Staged = held
    BY <1>4 DEF SettleBatch, NotePaid, Working
  <2>2. \A r, q \in stage : r.item = q.item => r = q
    BY <2>1 DEF IInv, UnitIsWorked, StageIsOfUnit
  <2>3. costly \subseteq held \ unpaid
    BY <2>1, <2>2 DEF With, Staged
  <2>4. /\ \A e \in Entries(With({"failed"}), "batch_failed") : e.reason = "batch_failed"
        /\ \A e \in Entries(last, "retries_exhausted") : e.reason = "retries_exhausted"
    BY DEF Entries
  <2>5. \A e \in notRun : e.item \notin held
    BY <1>0 DEF NotRunItems
  <2> HIDE DEF unpaid, costly, last
  <2> QED BY <2>1, <2>3, <2>4, <2>5 DEF Unpaid
<1>5. CASE StartRun
  BY <1>5 DEF StartRun, Unpaid
<1>6. CASE UNCHANGED <<paid, charged, notRun>>
  BY <1>6 DEF Unpaid
<1> QED
  BY <1>1, <1>2, <1>3, <1>4, <1>5, <1>6
  DEF Next, WorkerStep, CollectorStep, Grant, NoMoreItems, Submit, PollTerminal, StageRow,
      WriteVote, WriteReceipt, CollectorRaisesAgain, TornDown, CloseRun, Killed, vars, source,
      ledger

LEMMA ExplainedFrame ==
  ASSUME Explained, phase' = phase,
         plan' = plan, graded \subseteq graded', notRun \subseteq notRun',
         \A e \in notRun' \ notRun : e.reason # "retries_exhausted",
         \A i \in Item : HasFinal(i)' <=> HasFinal(i),
         plan \subseteq Item,
         ToPublish' = ToPublish, clean' = clean
  PROVE  Explained'
<1>1. \A i : GivenUp(i)' <=> GivenUp(i)
  BY DEF GivenUp
<1>2. \A row : Final(row)' <=> Final(row)
  BY DEF Final
<1> QED BY <1>1, <1>2 DEF Explained

(* Without results: the items that are given up and were paid for get a row.  *)
LEMMA FailureExplained ==
  ASSUME IInv, FinalsAreElsewhere, Explained, plan \subseteq Item,
         NoBatch \/ ResultsUnavailable
  PROVE  Explained'
<1>1. PICK step \in {"submit", "poll", "read"}, how \in {"free", "doubled"} :
        Working(step) /\ SettleFailure(how)
  BY DEF NoBatch, ResultsUnavailable
<1>2. /\ phase = "running" /\ pc \in {"submit", "poll", "read"} /\ unit' = FALSE
      /\ UNCHANGED <<phase, plan, stage, votes, graded, clean>>
  BY <1>1 DEF Working, SettleFailure, disk
<1>3. unit /\ stage = {} /\ terminals = {}
  BY <1>2 DEF IInv, UnitIsWorked, FinalsAreElsewhere, PublishedIsSettled, Publishing
<1>4. ToPublish = {} /\ ToPublish' = terminals'
  BY <1>2, <1>3 DEF ToPublish
<1>5. \A i : HasFinal(i)' <=> HasFinal(i)
  BY <1>2 DEF HasFinal
<1>6. CASE ResultsUnavailable
  <2>1. notRun' = notRun \union Entries(held, "batch_failed") /\ terminals' = terminals
    BY <1>6 DEF ResultsUnavailable
  <2>2. \A e \in Entries(held, "batch_failed") : e.reason # "retries_exhausted"
    BY DEF Entries
  <2> QED BY <1>2, <1>3, <1>4, <1>5, <2>1, <2>2, ExplainedFrame
<1>7. CASE NoBatch
  <2> DEFINE last == {i \in held : Exhausted(i)}
             withheld == last \intersect paid'
  <2>1. /\ notRun' = notRun \union Entries(last \ withheld, "submit_rejected")
                            \union Entries(withheld, "retries_exhausted")
        /\ terminals' = {TerminalRow(i) : i \in withheld}
    BY <1>7 DEF NoBatch
  <2>2. \A i \in withheld : TerminalRow(i).item = i /\ TerminalRow(i).terminal
    BY DEF TerminalRow
  <2> HIDE DEF withheld, last
  <2>3. /\ \A e \in Entries(last \ withheld, "submit_rejected") :
             e.reason # "retries_exhausted"
        /\ \A e \in Entries(withheld, "retries_exhausted") :
             e.reason = "retries_exhausted" /\ e.item \in withheld
        /\ \A i \in withheld : \E e \in Entries(withheld, "retries_exhausted") : e.item = i
    BY EntriesGiven
  <2>4. \A i : GivenUp(i)' <=> GivenUp(i) \/ i \in withheld
    BY <2>1, <2>3 DEF GivenUp
  <2>5. \A row \in ToPublish' : Final(row)' /\ row.item \in withheld
    BY <1>4, <2>1, <2>2 DEF Final
  <2>6. \A i \in withheld : \E row \in ToPublish' : row.item = i /\ Final(row)'
    BY <1>4, <2>1, <2>2 DEF Final
  <2> QED BY <1>2, <1>4, <1>5, <2>4, <2>5, <2>6 DEF Explained
<1> QED BY <1>6, <1>7

(* A settled batch: its final rows are votes or last takes, and each last     *)
(* take has one.                                                             *)
LEMMA SettleExplained ==
  ASSUME IInv, FinalsAreElsewhere, Explained, SettleBatch
  PROVE  Explained'
<1> DEFINE retry == With(Retryable)
           last == {i \in retry : Exhausted(i)}
           won == With({"vote"})
           failed == With({"failed"})
<1>1. /\ phase = "running" /\ pc = "send" /\ Publications = {} /\ unit' = FALSE
      /\ graded' = graded \union won
      /\ notRun' = notRun \union Entries(failed, "batch_failed")
                          \union Entries(last, "retries_exhausted")
      /\ UNCHANGED <<phase, plan, stage, terminals, votes, clean>>
  BY DEF SettleBatch, Working, disk
<1>2. unit /\ terminals = {}
  BY <1>1 DEF IInv, UnitIsWorked, PublishedIsSettled, Publishing
<1>3. ToPublish = {} /\ ToPublish' = stage
  BY <1>1, <1>2 DEF ToPublish
<1>4. \A row \in stage : row.terminal <=> TerminalTake(row.item, row.status)
  BY <1>1, <1>2 DEF FinalsAreElsewhere
<1>5. \A row \in stage : Final(row)' => row.item \in won \union last
  BY <1>4 DEF Final, With, TerminalTake
<1>6. \A i \in last : \E row \in stage : row.item = i /\ Final(row)'
  BY <1>4 DEF Final, With, TerminalTake
<1> HIDE DEF retry, last, won, failed
<1>7. /\ \A e \in Entries(failed, "batch_failed") : e.reason # "retries_exhausted"
      /\ \A e \in Entries(last, "retries_exhausted") :
           e.reason = "retries_exhausted" /\ e.item \in last
      /\ \A i \in last : \E e \in Entries(last, "retries_exhausted") : e.item = i
  BY EntriesGiven
<1>8. \A i : GivenUp(i)' <=> GivenUp(i) \/ i \in last
  BY <1>1, <1>7 DEF GivenUp
<1>9. \A i : HasFinal(i)' <=> HasFinal(i)
  BY <1>1 DEF HasFinal
<1> QED BY <1>1, <1>3, <1>5, <1>6, <1>8, <1>9 DEF Explained

(* A row becomes a record, and only then is done with.                       *)
LEMMA PublishingExplained ==
  ASSUME IInv, Inventory, Explained, WriteVote \/ WriteReceipt
  PROVE  Explained'
<1>1. UNCHANGED <<phase, plan, notRun, graded, unit, clean>>
  BY DEF WriteVote, WriteReceipt, source, ledger, job
<1>2. \A i : GivenUp(i)' <=> GivenUp(i)
  BY <1>1 DEF GivenUp
<1>3. \A row : Final(row)' <=> Final(row)
  BY DEF Final
<1>4. CASE WriteVote
  <2>1. PICK row \in Publications : votes' = votes \union {VoteOf(row, FALSE)}
    BY <1>4 DEF WriteVote
  <2>2. row \in ToPublish /\ ToPublish' = ToPublish
    BY <1>4 DEF WriteVote, job, Publications, ToPublish
  <2>3. VoteOf(row, FALSE).item = row.item /\ (VoteOf(row, FALSE).final => Final(row))
    BY DEF VoteOf
  <2>4. \A i : HasFinal(i)' => HasFinal(i) \/ (i = row.item /\ Final(row))
    BY <2>1, <2>3 DEF HasFinal
  <2>5. \A i : HasFinal(i) => HasFinal(i)'
    BY <2>1 DEF HasFinal
  <2> HIDE DEF Publications, ToPublish
  <2> QED BY <1>1, <1>2, <1>3, <2>2, <2>4, <2>5 DEF Explained
<1>5. CASE WriteReceipt
  <2>1. /\ writing # NoRow /\ Published(writing) /\ votes' = votes
    BY <1>5 DEF WriteReceipt
  <2>2. VoteOf(writing, FALSE) \in votes
    BY <2>1 DEF Inventory
  <2>3. Final(writing) => HasFinal(writing.item)
    BY <2>2 DEF VoteOf, HasFinal
  <2>4. ToPublish' \subseteq ToPublish /\ ToPublish \subseteq ToPublish' \union {writing}
    BY <1>1, <2>1 DEF Published, ToPublish
  <2>5. \A i : HasFinal(i)' <=> HasFinal(i)
    BY <2>1 DEF HasFinal
  <2> HIDE DEF ToPublish
  <2> QED BY <1>1, <1>2, <1>3, <2>3, <2>4, <2>5 DEF Explained
<1> QED BY <1>4, <1>5

(* A part of a vote is not final, and what fails takes no row away from an    *)
(* invocation whose writes succeeded.                                        *)
LEMMA EndingExplained ==
  ASSUME IInv, Explained, plan \subseteq Item,
         Leave \/ CollectorRaises \/ CollectorRaisesAgain \/ TornDown
  PROVE  Explained'
<1>1. \A row : VoteOf(row, TRUE).final = FALSE
  BY DEF VoteOf
<1>2. \A i : HasFinal(i)' <=> HasFinal(i)
  <2>1. votes' = votes \/ \E row : votes' = votes \union {VoteOf(row, TRUE)}
    BY DEF Leave, CollectorRaises, CollectorRaisesAgain, TornDown, LeftBehind, disk
  <2> QED BY <1>1, <2>1 DEF HasFinal
<1>3. CASE Leave \/ CollectorRaises
  <2>1. /\ phase # "idle" /\ phase' = "teardown"
        /\ UNCHANGED <<plan, graded, stage, terminals, unit>>
        /\ notRun' = notRun \union Entries(held \union pending, "worker_lost")
    BY <1>3 DEF Leave, CollectorRaises, Finish, Lose
  <2>2. \A e \in Entries(held \union pending, "worker_lost") :
          e.reason # "retries_exhausted"
    BY EntriesGiven
  <2>3. clean' = clean \/ clean' = FALSE
    BY <1>3 DEF Leave, CollectorRaises
  <2>4. \A i : GivenUp(i)' <=> GivenUp(i)
    BY <2>1, <2>2 DEF GivenUp
  <2>5. ToPublish' = ToPublish
    BY <2>1 DEF ToPublish
  <2>6. \A row : Final(row)' <=> Final(row)
    BY DEF Final
  <2> QED BY <1>2, <2>1, <2>3, <2>4, <2>5, <2>6 DEF Explained
<1>4. CASE CollectorRaisesAgain
  <2>1. /\ phase = "teardown" /\ phase' = phase /\ clean' = FALSE
        /\ \E row : Published(row)
        /\ UNCHANGED <<plan, graded, notRun, unit>>
    BY <1>4 DEF CollectorRaisesAgain, source, ledger
  <2>2. ToPublish' \subseteq ToPublish
    BY <2>1 DEF Published, ToPublish
  <2>3. \A i : GivenUp(i)' <=> GivenUp(i)
    BY <2>1 DEF GivenUp
  <2>4. \A row : Final(row)' <=> Final(row)
    BY DEF Final
  <2> QED BY <1>2, <2>1, <2>2, <2>3, <2>4 DEF Explained
<1>5. CASE TornDown
  <2>1. /\ phase # "idle" /\ Publications = {} /\ stage' = {}
        /\ UNCHANGED <<plan, graded, notRun, unit, terminals, clean>>
    BY <1>5 DEF TornDown, source, ledger
  <2>2. ToPublish = {} /\ ToPublish' = {}
    BY <2>1 DEF ToPublish, Publications
  <2>3. \A i : GivenUp(i)' <=> GivenUp(i)
    BY <2>1 DEF GivenUp
  <2> QED BY <1>2, <2>1, <2>2, <2>3 DEF Explained
<1> QED BY <1>3, <1>4, <1>5

LEMMA QuietExplained ==
  ASSUME IInv, Explained, plan \subseteq Item,
         Deny \/ Grant \/ NoMoreItems \/ Submit \/ PollTerminal \/ StageRow
  PROVE  Explained'
<1>1. /\ phase = "running" /\ Publications = {}
      /\ UNCHANGED <<phase, plan, graded, terminals, votes, clean>>
  BY DEF Deny, Grant, NoMoreItems, Submit, PollTerminal, StageRow, Working, source, job, disk,
         ledger
<1>2. ToPublish = {} /\ ToPublish' = {}
  <2>1. unit' = unit \/ unit'
    BY DEF Deny, Grant, NoMoreItems, Submit, PollTerminal, StageRow, job
  <2>2. stage' = stage \/ unit
    BY <1>1 DEF Deny, Grant, NoMoreItems, Submit, PollTerminal, StageRow, job, IInv,
                UnitIsWorked
  <2> QED BY <1>1, <2>1, <2>2 DEF ToPublish, Publications
<1>3. \A e \in notRun' \ notRun : e.reason # "retries_exhausted"
  <2>1. \/ notRun' = notRun
        \/ notRun' = notRun \union Entries({} \union pending, "whole_batch_failures")
        \/ notRun' = notRun \union Entries({} \union pending, "budget_stop")
    BY DEF Deny, Grant, NoMoreItems, Submit, PollTerminal, StageRow, Lose, source
  <2> QED BY <2>1, EntriesGiven
<1>4. notRun \subseteq notRun'
  BY DEF Deny, Grant, NoMoreItems, Submit, PollTerminal, StageRow, Lose, source
<1>5. \A i : HasFinal(i)' <=> HasFinal(i)
  BY <1>1 DEF HasFinal
<1> QED BY <1>1, <1>2, <1>3, <1>4, <1>5, ExplainedFrame

LEMMA ExplainedKept ==
  ASSUME IInv, TypeInv, FinalsAreElsewhere, Inventory, Explained, [Next]_vars
  PROVE  Explained'
<1>0. plan \subseteq Item
  BY DEF TypeInv, TypeOK
<1>1. CASE StartRun
  <2>1. /\ plan' = Unfinished /\ notRun' = {} /\ stage' = {} /\ terminals' = {}
        /\ votes' = votes
    BY <1>1 DEF StartRun
  <2> QED BY <2>1 DEF Explained, Unfinished, HasFinal, GivenUp, ToPublish
<1>2. CASE CloseRun \/ Killed
  BY <1>2 DEF CloseRun, Killed, Explained
<1>3. CASE UNCHANGED vars
  <2>1. UNCHANGED <<phase, plan, graded, notRun, votes, stage, terminals, unit, clean>>
    BY <1>3 DEF vars, source, job, disk, ledger
  <2>2. ToPublish' = ToPublish /\ \A i : HasFinal(i)' <=> HasFinal(i)
    BY <2>1 DEF ToPublish, HasFinal
  <2> QED BY <1>0, <2>1, <2>2, ExplainedFrame
<1> QED
  BY <1>0, <1>1, <1>2, <1>3, QuietExplained, FailureExplained, SettleExplained,
     PublishingExplained, EndingExplained DEF Next, WorkerStep, CollectorStep

(* "Exhausted retries are final and withheld when money was at stake": of an  *)
(* invocation whose writes succeeded, the items given up after their last     *)
(* take have final records, the others that were not run have none, and none  *)
(* that was charged is reported as rejected for free.                        *)
THEOREM ExhaustionIsFinal == Spec => []ExhaustionIsFinalIfPaid
<1>1. Init => Explained /\ Unpaid
  BY DEF Init, Explained, Unpaid
<1>2. Spec => [](Explained /\ Unpaid)
  BY <1>1, ExplainedKept, UnpaidKept, InvariantHolds, TypesHold, FinalsHold, InventoryHolds,
     PTL DEF Spec
<1>3. IInv /\ TypeInv /\ Explained /\ Unpaid => ExhaustionIsFinalIfPaid
  <2> SUFFICES ASSUME IInv, TypeInv, Explained, Unpaid, phase = "closing", clean,
                      NEW e \in notRun
               PROVE  /\ HasFinal(e.item) <=> e.reason = "retries_exhausted"
                      /\ e.reason = "submit_rejected" => e.item \notin charged
    BY DEF ExhaustionIsFinalIfPaid
  <2>1. e.item \in plan /\ e.item \in Item /\ e.item \notin graded
        /\ \A f \in notRun : f.item = e.item => f = e
    BY DEF IInv, EachItemOnce, NotRunItems, TypeInv, TypeOK
  <2>2. HasFinal(e.item) => e.reason = "retries_exhausted"
    BY <2>1 DEF Explained, GivenUp
  <2>3. ASSUME e.reason = "retries_exhausted" PROVE HasFinal(e.item)
    <3>1. ToPublish = {}
      BY DEF Explained
    <3> QED BY <2>1, <2>3, <3>1 DEF Explained, GivenUp
  <2> QED BY <2>2, <2>3 DEF Unpaid
<1> QED BY <1>2, <1>3, InvariantHolds, TypesHold, PTL
=============================================================================
