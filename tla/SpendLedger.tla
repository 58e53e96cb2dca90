----------------------------- MODULE SpendLedger -----------------------------
(***************************************************************************)
(* The spend ledger of the agentic benchmark and its arbiter: Ledger and    *)
(* LedgerService (benchmarks/agentic/ledger.py), with the part of the host  *)
(* (host.py, _supervise, _teardown, run_jobs) that calls them.              *)
(*                                                                          *)
(* Every call of the ledger runs between two awaits, so it is one action;   *)
(* jobs interleave at the provider's asyncio.Lock.  An append to a journal  *)
(* is the one step that can fail inside a call.  A journal is represented   *)
(* by what _load makes of its lines.  The process can be killed anywhere.   *)
(***************************************************************************)
EXTENDS Naturals, Sequences, FiniteSets, Functions, SequencesExt

CONSTANTS Provider, Job,
          Unit,         \* unit ids; uuid4 never gives one out twice
          ProviderOf,   \* the provider of a job's model family
          Cap,          \* hard cap of each provider
          Margin,       \* no single bound is above its provider's margin
          Budgets,      \* --confirm-max-spend of a run; None for a run without
          None

ASSUME ProviderAssumption == IsFiniteSet(Provider)
ASSUME ProviderOfAssumption == ProviderOf \in [Job -> Provider]
ASSUME CapAssumption == Cap \in [Provider -> Nat] /\ Margin \in [Provider -> Nat]
ASSUME BudgetsAssumption == Budgets \subseteq Nat \union {None} /\ None \notin Nat
ASSUME UnitAssumption == None \notin Unit \union Job

VARIABLES
  journal,    \* each provider's file, as the next _load reads it
  units,      \* what a unit's reserve line says
  phase,      \* of the process that holds the directory's lock
  spent, stops, inFlight, ceiling,   \* Ledger
  lock, queue, grantsStopped,        \* LedgerService
  state,      \* where each job is
  failing,    \* a job raised: run_jobs is cancelling the others
  billed,     \* history: what each provider has really charged
  last,       \* history: the last unit of each provider that was granted
  charge,     \* history: what the provider charged for it
  unacked     \* history: an overrun was booked and not acknowledged

ledgerVars == <<spent, stops, inFlight, ceiling>>
serviceVars == <<lock, queue, grantsStopped>>
hostVars == <<state, failing>>
history == <<billed, last, charge, unacked>>
vars == <<journal, units, phase, ledgerVars, serviceVars, hostVars, history>>

Journal == [recorded : Nat,            \* sum of the settle lines
            pending  : SUBSET Unit,    \* reserves without a settle
            overrun  : BOOLEAN,        \* _stops after the last line
            torn     : BOOLEAN]        \* some line is not JSON

Phases == {"closed", "recovering", "open", "serving"}
States == {"idle", "waiting", "granted", "charged", "lost", "ended"}

Set(f, x, v) == [f EXCEPT ![x] = v]

-----------------------------------------------------------------------------
(* _append writes and fsyncs one line.  When that raises, ftruncate takes    *)
(* the line away again; when ftruncate fails too, all or a part of the line  *)
(* stays.  _apply is how a line changes what _load will find.                *)

Appended(p, line) == journal' = Set(journal, p, line)

AppendRaises(p, line) ==
  \E left \in {journal[p], line, [journal[p] EXCEPT !.torn = TRUE]} :
    journal' = Set(journal, p, left)

ReserveLine(p, u) == [journal[p] EXCEPT !.pending = @ \union {u}]

(* Mutant of SettleLine: the booking is taken off what was spent.            *)
SettleLineTaken(p, u, booked, overrun) ==
  [journal[p] EXCEPT !.recorded = @ - booked, !.pending = @ \ {u}]

(* Mutant of SettleLine: only the stop line makes an overrun last.           *)
SettleLineAlone(p, u, booked, overrun) ==
  [journal[p] EXCEPT !.recorded = @ + booked, !.pending = @ \ {u}]

SettleLine(p, u, booked, overrun) ==
  [recorded |-> journal[p].recorded + booked,
   pending  |-> journal[p].pending \ {u},
   overrun  |-> overrun \/ journal[p].overrun,
   torn     |-> journal[p].torn]

ResumeLine(p) == [journal[p] EXCEPT !.overrun = FALSE]

(* A cap stop does not survive a reopen.                                     *)
CapStopLine(p) == journal[p]

-----------------------------------------------------------------------------
(* remaining() against a bound.                                              *)

Held == SumFunction([p \in Provider |->
          IF inFlight[p] = None THEN 0 ELSE units[inFlight[p]].bound])

(* Mutant of Fits: what the other providers hold is forgotten.               *)
FitsAlone(p, bound) ==
  /\ spent[p] + bound <= Cap[p]
  /\ ceiling # None => SumFunction(spent) + bound <= ceiling

Fits(p, bound) ==
  /\ spent[p] + bound <= Cap[p]
  /\ ceiling # None => SumFunction(spent) + Held + bound <= ceiling

Fresh == {u \in Unit : \A p \in Provider : u \notin journal[p].pending /\ u # last[p]}

(* booked_cost and settle_batch: how a unit the provider answered may be     *)
(* booked.  A single call is billed as reported, or 4xx and free, or without *)
(* usage and booked twice its bound.  A batch is the sum of such items, and  *)
(* overruns as soon as one item does.                                        *)
Bookings(unit, cost) ==
  IF unit.batch
  THEN [booked : cost .. 2 * unit.bound, overrun : {FALSE, cost > 0}]
  ELSE {[booked |-> cost, overrun |-> cost > unit.bound],
        [booked |-> 2 * unit.bound, overrun |-> FALSE]}

(* Mutant of LostBooking: a lost unit is booked at its bound.                *)
LostAtBound(u) == units[u].bound

LostBooking(u) == 2 * units[u].bound

-----------------------------------------------------------------------------
(* The run: open, recover, acknowledge, serve, close.                        *)

Closed ==
  /\ phase' = "closed"
  /\ spent' = [p \in Provider |-> 0]
  /\ stops' = [p \in Provider |-> "none"]
  /\ inFlight' = [p \in Provider |-> None]
  /\ ceiling' = None
  /\ lock' = [p \in Provider |-> None]
  /\ queue' = [p \in Provider |-> <<>>]
  /\ grantsStopped' = FALSE
  /\ state' = [j \in Job |-> "idle"]
  /\ failing' = FALSE

(* Ledger.open and the first half of _load; a corrupt line raises.           *)
Open ==
  /\ phase = "closed"
  /\ \A p \in Provider : ~journal[p].torn
  /\ phase' = "recovering"
  /\ spent' = [p \in Provider |-> journal[p].recorded]
  /\ stops' = [p \in Provider |-> IF journal[p].overrun THEN "overrun" ELSE "none"]
  /\ UNCHANGED <<journal, units, inFlight, ceiling, serviceVars, hostVars, history>>

(* Mutant of Recover: the unit is forgotten.                                 *)
RecoverFree(p, u) ==
  /\ phase = "recovering"
  /\ u \in journal[p].pending
  /\ Appended(p, SettleLine(p, u, 0, FALSE))
  /\ UNCHANGED <<units, phase, ledgerVars, serviceVars, hostVars, history>>

(* The second half of _load settles what is pending as unsettled_at_load.    *)
Recover(p, u) ==
  /\ phase = "recovering"
  /\ u \in journal[p].pending
  /\ LET line == SettleLine(p, u, LostBooking(u), FALSE) IN
     \/ /\ Appended(p, line)
        /\ spent' = Set(spent, p, spent[p] + LostBooking(u))
        /\ UNCHANGED <<phase, stops, inFlight, ceiling, serviceVars, hostVars>>
     \/ AppendRaises(p, line) /\ Closed
  /\ UNCHANGED <<units, history>>

(* The ceiling of the invocation is set after recovery.                      *)
Loaded ==
  /\ phase = "recovering"
  /\ \A p \in Provider : journal[p].pending = {}
  /\ \E b \in Budgets :
       ceiling' = IF b = None THEN None ELSE SumFunction(spent) + b
  /\ phase' = "open"
  /\ UNCHANGED <<journal, units, spent, stops, inFlight, serviceVars, hostVars,
                 history>>

(* --acknowledge-overrun.                                                    *)
Acknowledge(p) ==
  /\ phase = "open"
  /\ stops[p] = "overrun"
  /\ \/ /\ Appended(p, ResumeLine(p))
        /\ stops' = Set(stops, p, "none")
        /\ UNCHANGED <<phase, spent, inFlight, ceiling, serviceVars, hostVars>>
     \/ AppendRaises(p, ResumeLine(p)) /\ Closed
  /\ unacked' = Set(unacked, p, journal'[p].overrun)
  /\ UNCHANGED <<units, billed, last, charge>>

(* A run with a job of an overrun provider is refused.                       *)
Serve ==
  /\ phase = "open"
  /\ \A j \in Job : stops[ProviderOf[j]] # "overrun"
  /\ phase' = "serving"
  /\ UNCHANGED <<journal, units, ledgerVars, serviceVars, hostVars, history>>

Close ==
  /\ \/ phase = "open"
     \/ phase = "serving" /\ \A j \in Job : state[j] = "ended"
  /\ Closed
  /\ UNCHANGED <<journal, units, history>>

Killed ==
  /\ phase # "closed"
  /\ Closed
  /\ UNCHANGED <<journal, units, history>>

-----------------------------------------------------------------------------
(* LedgerService.reserve and reserve_batch.                                  *)

(* Before the lock: a stopped service denies, otherwise the job queues.      *)
Ask(j) ==
  /\ phase = "serving"
  /\ state[j] = "idle"
  /\ ~grantsStopped
  /\ state' = Set(state, j, "waiting")
  /\ queue' = Set(queue, ProviderOf[j], Append(queue[ProviderOf[j]], j))
  /\ UNCHANGED <<journal, units, phase, ledgerVars, lock, grantsStopped, failing,
                 history>>

(* asyncio.Lock is first come, first served.                                 *)
HasTurn(j) ==
  /\ state[j] = "waiting"
  /\ lock[ProviderOf[j]] = None
  /\ Head(queue[ProviderOf[j]]) = j

LeavesQueue(j) ==
  queue' = Set(queue, ProviderOf[j], RemoveFirst(queue[ProviderOf[j]], j))

(* Mutant of Deny: lock.release() is left out of the path without a unit.    *)
DenyKeepsLock(j) ==
  /\ HasTurn(j)
  /\ grantsStopped \/ stops[ProviderOf[j]] # "none"
  /\ LeavesQueue(j)
  /\ lock' = Set(lock, ProviderOf[j], j)
  /\ state' = Set(state, j, "idle")
  /\ UNCHANGED <<journal, units, phase, ledgerVars, grantsStopped, failing, history>>

(* The stop is looked at again under the lock; then the provider's stop.     *)
Deny(j) ==
  /\ HasTurn(j)
  /\ grantsStopped \/ stops[ProviderOf[j]] # "none"
  /\ LeavesQueue(j)
  /\ state' = Set(state, j, "idle")
  /\ UNCHANGED <<journal, units, phase, ledgerVars, lock, grantsStopped, failing,
                 history>>

(* Mutant of MayReserve: the stop is not looked at again under the lock.     *)
MayReserveUnlessCapped(j) == HasTurn(j) /\ stops[ProviderOf[j]] = "none"

MayReserve(j) ==
  /\ HasTurn(j)
  /\ ~grantsStopped
  /\ stops[ProviderOf[j]] = "none"

(* The bound does not fit: _stop in memory, then a line that says so.        *)
StopAtCap(j) ==
  LET p == ProviderOf[j] IN
  /\ MayReserve(j)
  /\ \E bound \in 1 .. Margin[p] : ~Fits(p, bound)
  /\ stops' = Set(stops, p, "cap")
  /\ \/ /\ Appended(p, CapStopLine(p))
        /\ state' = Set(state, j, "idle")
        /\ UNCHANGED failing
     \/ /\ AppendRaises(p, CapStopLine(p))
        /\ state' = Set(state, j, "ended")
        /\ failing' = TRUE
  /\ LeavesQueue(j)
  /\ UNCHANGED <<units, phase, spent, inFlight, ceiling, lock, grantsStopped,
                 history>>

(* A unit goes out only after its line is on disk.                           *)
Grant(j) ==
  LET p == ProviderOf[j] IN
  /\ MayReserve(j)
  /\ \E u \in Fresh, bound \in 1 .. Margin[p], batch \in BOOLEAN :
       /\ Fits(p, bound)
       /\ units' = Set(units, u, [bound |-> bound, batch |-> batch])
       /\ Appended(p, ReserveLine(p, u))
       /\ inFlight' = Set(inFlight, p, u)
       /\ last' = Set(last, p, u)
  /\ charge' = Set(charge, p, 0)
  /\ lock' = Set(lock, p, j)
  /\ LeavesQueue(j)
  /\ state' = Set(state, j, "granted")
  /\ UNCHANGED <<phase, spent, stops, ceiling, grantsStopped, failing, billed,
                 unacked>>

(* The append raises: the lock is released, the job fails and with it the    *)
(* run.  A line that stays behind names a unit nobody was given.             *)
GrantFails(j) ==
  LET p == ProviderOf[j] IN
  /\ MayReserve(j)
  /\ \E u \in Fresh, bound \in 1 .. Margin[p] :
       /\ Fits(p, bound)
       /\ units' = Set(units, u, [bound |-> bound, batch |-> FALSE])
       /\ AppendRaises(p, ReserveLine(p, u))
  /\ LeavesQueue(j)
  /\ state' = Set(state, j, "ended")
  /\ failing' = TRUE
  /\ UNCHANGED <<phase, ledgerVars, lock, grantsStopped, history>>

StopGrants ==
  /\ phase = "serving"
  /\ grantsStopped' = TRUE
  /\ UNCHANGED <<journal, units, phase, ledgerVars, lock, queue, hostVars, history>>

-----------------------------------------------------------------------------
(* A granted unit.                                                           *)

(* Outside the program: the worker sends the unit and the provider charges.  *)
(* The design assumes that no unit costs more than twice its bound.          *)
Charge(j) ==
  LET p == ProviderOf[j] IN
  /\ state[j] = "granted"
  /\ \E cost \in 0 .. 2 * units[inFlight[p]].bound :
       /\ charge' = Set(charge, p, cost)
       /\ billed' = Set(billed, p, billed[p] + cost)
  /\ state' = Set(state, j, "charged")
  /\ UNCHANGED <<journal, units, phase, ledgerVars, serviceVars, failing, last,
                 unacked>>

(* After the settle line: memory, and a stop line that may fail silently.    *)
Book(p, booked, overrun) ==
  /\ spent' = Set(spent, p, spent[p] + booked)
  /\ inFlight' = Set(inFlight, p, None)
  /\ stops' = IF overrun THEN Set(stops, p, "overrun") ELSE stops
  /\ unacked' = Set(unacked, p, unacked[p] \/ overrun)
  /\ UNCHANGED <<ceiling, billed, last, charge>>

(* settle and settle_batch; the line that marks an overrun repeats what the  *)
(* settle line says, and its failure is swallowed.                           *)
Settle(j) ==
  LET p == ProviderOf[j] IN
  /\ state[j] = "charged"
  /\ \E b \in Bookings(units[inFlight[p]], charge[p]) :
       LET line == SettleLine(p, inFlight[p], b.booked, b.overrun) IN
       \/ /\ \E more \in {line, [line EXCEPT !.overrun = @ \/ b.overrun],
                          [line EXCEPT !.torn = @ \/ b.overrun]} :
               Appended(p, more)
          /\ Book(p, b.booked, b.overrun)
          /\ lock' = Set(lock, p, None)
          /\ state' = Set(state, j, "idle")
          /\ UNCHANGED failing
       \/ /\ AppendRaises(p, line)
          /\ state' = Set(state, j, "lost")
          /\ failing' = TRUE
          /\ UNCHANGED <<ledgerVars, lock, history>>
  /\ UNCHANGED <<units, phase, queue, grantsStopped>>

(* The worker dies, falls silent or breaks the protocol, or is cancelled.    *)
Lose(j) ==
  /\ state[j] \in {"granted", "charged"}
  /\ state' = Set(state, j, "lost")
  /\ UNCHANGED <<journal, units, phase, ledgerVars, serviceVars, failing, history>>

(* _teardown books the open unit as worker_lost.  When that fails as well,   *)
(* the job ends and its provider stays locked.                               *)
Teardown(j) ==
  LET p == ProviderOf[j]
      u == inFlight[p]
      line == SettleLine(p, u, LostBooking(u), FALSE)
  IN
  /\ state[j] = "lost"
  /\ \/ /\ Appended(p, line)
        /\ Book(p, LostBooking(u), FALSE)
        /\ lock' = Set(lock, p, None)
        /\ UNCHANGED failing
     \/ /\ AppendRaises(p, line)
        /\ failing' = TRUE
        /\ UNCHANGED <<ledgerVars, lock, history>>
  /\ state' = Set(state, j, "ended")
  /\ UNCHANGED <<units, phase, queue, grantsStopped>>

(* A job has nothing more to ask.                                            *)
End(j) ==
  /\ phase = "serving"
  /\ state[j] = "idle"
  /\ state' = Set(state, j, "ended")
  /\ UNCHANGED <<journal, units, phase, ledgerVars, serviceVars, failing, history>>

(* gather raised: run_jobs cancels every supervisor, the waiting ones too.   *)
Cancel(j) ==
  /\ failing
  /\ \/ /\ state[j] = "waiting"
        /\ LeavesQueue(j)
        /\ state' = Set(state, j, "ended")
        /\ UNCHANGED <<journal, units, phase, ledgerVars, lock, grantsStopped,
                       failing, history>>
     \/ End(j)
     \/ Lose(j)

(* A job raises for a reason of its own, or the run is signalled.            *)
Interrupt ==
  /\ phase = "serving"
  /\ failing' = TRUE
  /\ UNCHANGED <<journal, units, phase, ledgerVars, serviceVars, state, history>>

-----------------------------------------------------------------------------
Init ==
  /\ journal = [p \in Provider |-> [recorded |-> 0, pending |-> {},
                                    overrun |-> FALSE, torn |-> FALSE]]
  /\ units = [u \in Unit |-> [bound |-> 0, batch |-> FALSE]]
  /\ phase = "closed"
  /\ spent = [p \in Provider |-> 0]
  /\ stops = [p \in Provider |-> "none"]
  /\ inFlight = [p \in Provider |-> None]
  /\ ceiling = None
  /\ lock = [p \in Provider |-> None]
  /\ queue = [p \in Provider |-> <<>>]
  /\ grantsStopped = FALSE
  /\ state = [j \in Job |-> "idle"]
  /\ failing = FALSE
  /\ billed = [p \in Provider |-> 0]
  /\ last = [p \in Provider |-> None]
  /\ charge = [p \in Provider |-> 0]
  /\ unacked = [p \in Provider |-> FALSE]

RunStep ==
  \/ Open \/ Loaded \/ Serve \/ Close \/ Killed \/ StopGrants \/ Interrupt
  \/ \E p \in Provider : Acknowledge(p) \/ \E u \in Unit : Recover(p, u)

Turn(j) == Deny(j) \/ StopAtCap(j) \/ Grant(j) \/ GrantFails(j)

JobStep(j) ==
  \/ Ask(j) \/ Turn(j) \/ Charge(j) \/ Settle(j) \/ Lose(j) \/ Teardown(j)
  \/ End(j) \/ Cancel(j)

Next == RunStep \/ \E j \in Job : JobStep(j)

Spec == Init /\ [][Next]_vars

(* The event loop runs what is ready; a worker answers or is declared lost   *)
(* after silence_s; teardown and cancellation run to their end.              *)
Fairness ==
  \A j \in Job : /\ WF_vars(Turn(j))
                 /\ WF_vars(Lose(j))
                 /\ WF_vars(Teardown(j))
                 /\ WF_vars(Cancel(j))

FairSpec == Spec /\ Fairness

-----------------------------------------------------------------------------
(* Properties.                                                               *)

(* Every variable holds a value of its kind.                                 *)
TypeOK ==
  /\ journal \in [Provider -> Journal]
  /\ units \in [Unit -> [bound : Nat, batch : BOOLEAN]]
  /\ phase \in Phases
  /\ spent \in [Provider -> Nat]
  /\ stops \in [Provider -> {"none", "cap", "overrun"}]
  /\ inFlight \in [Provider -> Unit \union {None}]
  /\ ceiling \in Nat \union {None}
  /\ lock \in [Provider -> Job \union {None}]
  /\ queue \in [Provider -> Seq(Job)]
  /\ grantsStopped \in BOOLEAN
  /\ state \in [Job -> States]
  /\ failing \in BOOLEAN
  /\ billed \in [Provider -> Nat]
  /\ last \in [Provider -> Unit \union {None}]
  /\ charge \in [Provider -> Nat]
  /\ unacked \in [Provider -> BOOLEAN]

(* "Why the budget holds": what a provider has charged, over every run,       *)
(* crash and failed write, stays at or under its cap plus its margin (design  *)
(* of the benchmark, section 12).                                            *)
BudgetHolds == \A p \in Provider : billed[p] <= Cap[p] + Margin[p]

(* What the ledger counts as spent is never below what was charged, but for  *)
(* the unit in flight: units cut short by a kill, a lost worker or a write    *)
(* that failed are all in it before the next unit starts.                    *)
SpendCoversCharges ==
  phase \in {"open", "serving"} =>
    \A p \in Provider :
      billed[p] <= spent[p] + (IF inFlight[p] = None THEN 0 ELSE charge[p])

(* One invocation books at most its confirmed budget and, for every provider, *)
(* the one bound by which its last unit may go over.                         *)
InvocationWithinBudget ==
  ceiling # None => SumFunction(spent) <= ceiling + SumFunction(Margin)

(* After stop_grants no job gets a unit, not even one that was already        *)
(* waiting for the lock.                                                     *)
NoGrantAfterStop ==
  [][grantsStopped =>
       \A j \in Job : state[j] = "waiting" => state'[j] # "granted"]_vars

(* From the booking of an overrun to its acknowledgement its provider gets no *)
(* unit: neither in the run that saw it nor in a later one, even if the line  *)
(* that marks the stop was never written.                                    *)
OverrunStops ==
  [][\A p \in Provider : unacked[p] /\ inFlight[p] = None => inFlight'[p] = None]_vars

(* Every job that waits for its provider is answered, or the run ends: no     *)
(* path through reserve or settle loses the lock while the run goes on.       *)
WaitersAnswered ==
  \A j \in Job : state[j] = "waiting" ~> state[j] # "waiting"
=============================================================================
