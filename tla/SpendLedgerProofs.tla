-------------------------- MODULE SpendLedgerProofs --------------------------
(***************************************************************************)
(* Why the budget holds, for any providers, jobs, caps and margins, over    *)
(* any number of runs, kills and failed writes.                             *)
(*                                                                          *)
(* The invariant follows the money twice: in the journals, which survive a  *)
(* kill (InJournal), and in the ledger's memory, which decides about the    *)
(* next unit (InMemory).  A unit in flight fits under the cap (Fitted), and *)
(* only the holder of the provider's lock can make it cost anything         *)
(* (Holders).  On top of it, OverrunKept follows an overrun to its           *)
(* acknowledgement and WithinCeiling the budget of one invocation, which all *)
(* providers share.                                                         *)
(***************************************************************************)
EXTENDS SpendLedger, FiniteSetTheorems, WellFoundedInduction, TLAPS

Types ==
  /\ journal \in [Provider -> Journal]
  /\ units \in [Unit -> [bound : Nat, batch : BOOLEAN]]
  /\ phase \in Phases
  /\ spent \in [Provider -> Nat]
  /\ inFlight \in [Provider -> Unit \union {None}]
  /\ lock \in [Provider -> Job \union {None}]
  /\ state \in [Job -> States]
  /\ billed \in [Provider -> Nat]
  /\ last \in [Provider -> Unit \union {None}]
  /\ charge \in [Provider -> Nat]

Bound(u) == units[u].bound
Pending(p) == journal[p].pending
Running == phase \in {"open", "serving"}

(* The settle lines cover what was charged, but for the last unit granted,    *)
(* whose reserve line then still waits for its settle.                       *)
InJournal(p) ==
  /\ last[p] \notin Pending(p) => billed[p] <= journal[p].recorded
  /\ last[p] \in Pending(p) =>
       /\ billed[p] <= journal[p].recorded + charge[p]
       /\ charge[p] <= 2 * Bound(last[p])

InMemory(p) ==
  /\ Running /\ inFlight[p] = None =>
       billed[p] <= spent[p] /\ last[p] \notin Pending(p)
  /\ Running /\ inFlight[p] # None => billed[p] <= spent[p] + charge[p]
  /\ phase = "recovering" => spent[p] = journal[p].recorded

Fitted(p) ==
  /\ inFlight[p] # None =>
       /\ inFlight[p] = last[p]
       /\ phase = "serving"
       /\ charge[p] <= 2 * Bound(last[p])
       /\ spent[p] + Bound(last[p]) <= Cap[p]
       /\ Bound(last[p]) <= Margin[p]
  /\ lock[p] = None <=> inFlight[p] = None

Holders ==
  \A j \in Job :
    LET p == ProviderOf[j] IN
    /\ state[j] \in {"granted", "charged", "lost"} => lock[p] = j
    /\ state[j] = "granted" => charge[p] = 0 /\ last[p] \in Pending(p)
    /\ state[j] # "idle" => phase = "serving"

IndInv ==
  /\ Types
  /\ \A p \in Provider : InJournal(p) /\ InMemory(p) /\ Fitted(p)
  /\ Holders
  /\ BudgetHolds

-----------------------------------------------------------------------------
(* What a failed append may leave, and what a line is.                       *)

LEMMA Constants ==
  /\ \A j \in Job : ProviderOf[j] \in Provider
  /\ \A p \in Provider : Cap[p] \in Nat /\ Margin[p] \in Nat
  /\ None \notin Unit /\ None \notin Job
BY ProviderOfAssumption, CapAssumption, UnitAssumption

LEMMA FittingFits ==
  ASSUME NEW p, NEW b, Fits(p, b)
  PROVE  spent[p] + b <= Cap[p]
BY DEF Fits

(* A failed append leaves a record that is as it was, or is the line.        *)
LEMMA Left ==
  ASSUME NEW p \in Provider, NEW line \in Journal, Types, AppendRaises(p, line)
  PROVE  \E left \in Journal :
           /\ journal' = [journal EXCEPT ![p] = left]
           /\ \/ left.recorded = journal[p].recorded /\ left.pending = journal[p].pending
              \/ left = line
<1>1. journal[p] \in Journal
  BY DEF Types
<1>2. [journal[p] EXCEPT !.torn = TRUE] \in Journal
  BY <1>1 DEF Journal
<1>3. /\ [journal[p] EXCEPT !.torn = TRUE].recorded = journal[p].recorded
      /\ [journal[p] EXCEPT !.torn = TRUE].pending = journal[p].pending
  BY <1>1 DEF Journal
<1>4. PICK left \in {journal[p], line, [journal[p] EXCEPT !.torn = TRUE]} :
        journal' = [journal EXCEPT ![p] = left]
  BY DEF AppendRaises, Set
<1> QED
  BY <1>1, <1>2, <1>3, <1>4

LEMMA ReserveLines ==
  ASSUME NEW p \in Provider, NEW u \in Unit, Types
  PROVE  /\ ReserveLine(p, u) \in Journal
         /\ ReserveLine(p, u).recorded = journal[p].recorded
         /\ ReserveLine(p, u).pending = journal[p].pending \union {u}
<1>1. journal[p] \in Journal
  BY DEF Types
<1> QED
  BY <1>1 DEF Journal, ReserveLine

LEMMA SettleLines ==
  ASSUME NEW p \in Provider, NEW u \in Unit, NEW booked \in Nat, NEW o \in BOOLEAN,
         Types
  PROVE  /\ SettleLine(p, u, booked, o) \in Journal
         /\ SettleLine(p, u, booked, o).recorded = journal[p].recorded + booked
         /\ SettleLine(p, u, booked, o).pending = journal[p].pending \ {u}
<1>1. journal[p] \in Journal
  BY DEF Types
<1>2. /\ journal[p].recorded + booked \in Nat
      /\ journal[p].pending \ {u} \in SUBSET Unit
      /\ journal[p].torn \in BOOLEAN
  BY <1>1 DEF Journal
<1>3. (o \/ journal[p].overrun) \in BOOLEAN
  OBVIOUS
<1>4. SettleLine(p, u, booked, o) \in Journal
  BY <1>2, <1>3, Zenon DEF Journal, SettleLine
<1> QED
  BY <1>4 DEF SettleLine

(* A reserve line that stays behind harms nothing: its unit is not the last   *)
(* one granted.                                                              *)
LEMMA ReserveLeft ==
  ASSUME NEW p \in Provider, NEW u \in Unit, Types,
         AppendRaises(p, ReserveLine(p, u))
  PROVE  /\ journal' \in [Provider -> Journal]
         /\ \A q \in Provider :
              /\ journal'[q].recorded = journal[q].recorded
              /\ journal'[q].pending = journal[q].pending
                   \/ journal'[q].pending = journal[q].pending \union {u}
<1>1. PICK left \in Journal :
        /\ journal' = [journal EXCEPT ![p] = left]
        /\ \/ left.recorded = journal[p].recorded /\ left.pending = journal[p].pending
           \/ left = ReserveLine(p, u)
  BY Left, ReserveLines
<1>2. \/ left.pending = journal[p].pending
      \/ left.pending = journal[p].pending \union {u}
  BY <1>1, ReserveLines
<1>3. left.recorded = journal[p].recorded
  BY <1>1, ReserveLines
<1> QED
  BY <1>1, <1>2, <1>3 DEF Types

(* A settle line, wherever its append went, and with or without a stop line. *)
SettleMayBe(p, u, booked) ==
  \/ /\ journal'[p].recorded = journal[p].recorded
     /\ journal'[p].pending = journal[p].pending
  \/ /\ journal'[p].recorded = journal[p].recorded + booked
     /\ journal'[p].pending = journal[p].pending \ {u}

LEMMA SettleLeft ==
  ASSUME NEW p \in Provider, NEW u \in Unit, NEW booked \in Nat, NEW o \in BOOLEAN, Types,
         AppendRaises(p, SettleLine(p, u, booked, o))
  PROVE  /\ journal' \in [Provider -> Journal]
         /\ SettleMayBe(p, u, booked)
         /\ \A q \in Provider \ {p} : journal'[q] = journal[q]
<1>1. PICK left \in Journal :
        /\ journal' = [journal EXCEPT ![p] = left]
        /\ \/ left.recorded = journal[p].recorded /\ left.pending = journal[p].pending
           \/ left = SettleLine(p, u, booked, o)
  BY Left, SettleLines
<1>2. SettleLine(p, u, booked, o).recorded = journal[p].recorded + booked
  BY SettleLines
<1>3. SettleLine(p, u, booked, o).pending = journal[p].pending \ {u}
  BY SettleLines
<1> QED
  BY <1>1, <1>2, <1>3 DEF Types, SettleMayBe

LEMMA SettleWritten ==
  ASSUME NEW p \in Provider, NEW u \in Unit, NEW booked \in Nat, NEW o \in BOOLEAN, Types,
         NEW line, Appended(p, line),
         \/ line = SettleLine(p, u, booked, o)
         \/ line = [SettleLine(p, u, booked, o) EXCEPT !.overrun = @ \/ o]
         \/ line = [SettleLine(p, u, booked, o) EXCEPT !.torn = @ \/ o]
  PROVE  /\ journal' \in [Provider -> Journal]
         /\ journal'[p].recorded = journal[p].recorded + booked
         /\ journal'[p].pending = journal[p].pending \ {u}
         /\ \A q \in Provider \ {p} : journal'[q] = journal[q]
<1> DEFINE settle == SettleLine(p, u, booked, o)
<1>1. /\ settle \in Journal
      /\ settle.recorded = journal[p].recorded + booked
      /\ settle.pending = journal[p].pending \ {u}
  BY SettleLines
<1> HIDE DEF settle
<1>2. /\ line \in Journal
      /\ line.recorded = settle.recorded
      /\ line.pending = settle.pending
  BY <1>1 DEF Journal, settle
<1>3. journal' = [journal EXCEPT ![p] = line]
  BY DEF Appended, Set
<1> QED
  BY <1>1, <1>2, <1>3 DEF Types

(* Lines that neither reserve nor settle.                                    *)
LEMMA MarkerLeft ==
  ASSUME NEW p \in Provider, NEW line, Types,
         line = ResumeLine(p) \/ line = CapStopLine(p),
         Appended(p, line) \/ AppendRaises(p, line)
  PROVE  /\ journal' \in [Provider -> Journal]
         /\ \A q \in Provider : /\ journal'[q].recorded = journal[q].recorded
                                /\ journal'[q].pending = journal[q].pending
<1>1. /\ line \in Journal
      /\ line.recorded = journal[p].recorded
      /\ line.pending = journal[p].pending
  <2>1. journal[p] \in Journal
    BY DEF Types
  <2>2. CASE line = CapStopLine(p)
    BY <2>1, <2>2 DEF CapStopLine
  <2>3. CASE line = ResumeLine(p)
    BY <2>1, <2>3 DEF ResumeLine, Journal
  <2> QED
    BY <2>2, <2>3
<1>2. \E left \in Journal :
        /\ journal' = [journal EXCEPT ![p] = left]
        /\ \/ left.recorded = journal[p].recorded /\ left.pending = journal[p].pending
           \/ left = line
  BY <1>1, Left DEF Appended, Set
<1> QED
  BY <1>1, <1>2 DEF Types

(* Closing forgets the memory; only the journals must be looked at.          *)
LEMMA ClosingKeeps ==
  ASSUME IndInv, Closed, UNCHANGED <<units, billed, last, charge>>,
         journal' \in [Provider -> Journal],
         \A p \in Provider : InJournal(p)'
  PROVE  IndInv'
<1>1. Types'
  BY DEF IndInv, Types, Closed, Phases, States
<1>2. \A p \in Provider : InMemory(p)' /\ Fitted(p)'
  BY DEF InMemory, Fitted, Closed, Running
<1>3. Holders'
  BY Constants DEF Holders, Closed
<1>4. BudgetHolds'
  BY DEF IndInv, BudgetHolds
<1> QED
  BY <1>1, <1>2, <1>3, <1>4 DEF IndInv

LEMMA Initially == Init => IndInv
<1> SUFFICES ASSUME Init PROVE IndInv
  OBVIOUS
<1> USE Constants DEF Init
<1>1. Types
  BY DEF Types, Journal, Phases, States
<1>2. \A p \in Provider : InJournal(p) /\ InMemory(p) /\ Fitted(p)
  BY DEF InJournal, InMemory, Fitted, Running, Pending
<1>3. Holders
  BY DEF Holders
<1>4. BudgetHolds
  BY DEF BudgetHolds
<1> QED
  BY <1>1, <1>2, <1>3, <1>4 DEF IndInv

-----------------------------------------------------------------------------
(* The steps of the run.                                                     *)

LEMMA OpenKeeps == IndInv /\ Open => IndInv'
<1> SUFFICES ASSUME IndInv, Open PROVE IndInv'
  OBVIOUS
<1> USE DEF Open, history, serviceVars, hostVars
<1>1. Types'
  BY DEF IndInv, Types, Phases, Journal
<1>2. \A p \in Provider : InJournal(p)' /\ InMemory(p)' /\ Fitted(p)'
  BY DEF IndInv, InJournal, InMemory, Fitted, Running, Pending, Bound
<1>3. Holders'
  BY Constants DEF IndInv, Holders, Pending
<1>4. BudgetHolds'
  BY DEF IndInv, BudgetHolds
<1> QED
  BY <1>1, <1>2, <1>3, <1>4 DEF IndInv

LEMMA RecoverKeeps ==
  ASSUME IndInv, NEW p \in Provider, NEW u \in Unit, Recover(p, u)
  PROVE  IndInv'
<1> DEFINE line == SettleLine(p, u, LostBooking(u), FALSE)
<1> USE DEF Recover, history
<1>t. Types /\ LostBooking(u) \in Nat /\ LostBooking(u) = 2 * Bound(u)
  BY DEF IndInv, Types, LostBooking, Bound
<1>j. ASSUME SettleMayBe(p, u, LostBooking(u)),
             journal' \in [Provider -> Journal],
             \A q \in Provider \ {p} : journal'[q] = journal[q]
      PROVE  \A q \in Provider : InJournal(q)'
  <2> TAKE q \in Provider
  <2>1. CASE q # p
    BY <1>j, <2>1 DEF IndInv, InJournal, Pending, Bound
  <2>2. CASE q = p
    BY <1>j, <1>t, <2>2 DEF SettleMayBe, IndInv, InJournal, Pending, Bound, Types, Journal
  <2> QED
    BY <2>1, <2>2
<1>1. CASE AppendRaises(p, line) /\ Closed
  <2>1. /\ journal' \in [Provider -> Journal]
        /\ SettleMayBe(p, u, LostBooking(u))
        /\ \A q \in Provider \ {p} : journal'[q] = journal[q]
    BY <1>1, <1>t, SettleLeft
  <2> QED
    BY <1>1, <1>j, <2>1, ClosingKeeps
<1>2. CASE /\ Appended(p, line)
           /\ spent' = Set(spent, p, spent[p] + LostBooking(u))
           /\ UNCHANGED <<phase, stops, inFlight, ceiling, serviceVars, hostVars>>
  <2> USE <1>2 DEF serviceVars, hostVars
  <2>1. /\ journal' \in [Provider -> Journal]
        /\ journal'[p].recorded = journal[p].recorded + LostBooking(u)
        /\ journal'[p].pending = journal[p].pending \ {u}
        /\ \A q \in Provider \ {p} : journal'[q] = journal[q]
    BY <1>t, SettleWritten
  <2>2. \A q \in Provider : InJournal(q)'
    BY <1>j, <2>1 DEF SettleMayBe
  <2>3. Types'
    BY <1>t, <2>1 DEF Types, Set
  <2>4. \A q \in Provider : InMemory(q)'
    BY <1>t, <2>1 DEF IndInv, InMemory, Running, Set, Types
  <2>5. \A q \in Provider : Fitted(q)'
    BY <1>t DEF IndInv, Fitted, Bound
  <2>6. Holders'
    BY <1>t, Constants DEF IndInv, Holders
  <2>7. BudgetHolds'
    BY DEF IndInv, BudgetHolds
  <2> QED
    BY <2>2, <2>3, <2>4, <2>5, <2>6, <2>7 DEF IndInv
<1> QED
  BY <1>1, <1>2

LEMMA LoadedKeeps == IndInv /\ Loaded => IndInv'
<1> SUFFICES ASSUME IndInv, Loaded PROVE IndInv'
  OBVIOUS
<1> USE DEF Loaded, history, serviceVars, hostVars
<1>1. Types'
  BY DEF IndInv, Types, Phases
<1>2. \A p \in Provider : InJournal(p)' /\ InMemory(p)' /\ Fitted(p)'
  BY DEF IndInv, InJournal, InMemory, Fitted, Running, Pending, Bound
<1>3. Holders'
  BY Constants DEF IndInv, Holders, Pending
<1>4. BudgetHolds'
  BY DEF IndInv, BudgetHolds
<1> QED
  BY <1>1, <1>2, <1>3, <1>4 DEF IndInv

(* Steps that change no amount, no unit and no holder.                       *)
LEMMA QuietKeeps ==
  ASSUME IndInv, journal' \in [Provider -> Journal],
         \A q \in Provider : /\ journal'[q].recorded = journal[q].recorded
                             /\ journal'[q].pending = journal[q].pending,
         UNCHANGED <<units, spent, inFlight, lock, billed, last, charge>>,
         \/ phase' = phase
         \/ phase = "open" /\ phase' = "serving",
         state' \in [Job -> States],
         \A j \in Job : \/ state'[j] = state[j]
                        \/ state'[j] \in {"idle", "waiting", "ended"}
                        \/ state'[j] = "lost" /\ state[j] \in {"granted", "charged"},
         phase' # "serving" => state' = state
  PROVE  IndInv'
<1>1. Types'
  BY DEF IndInv, Types, Phases
<1>2. \A p \in Provider : InJournal(p)' /\ InMemory(p)' /\ Fitted(p)'
  BY DEF IndInv, InJournal, InMemory, Fitted, Running, Pending, Bound
<1>3. Holders'
  BY Constants DEF IndInv, Holders, Pending
<1>4. BudgetHolds'
  BY DEF IndInv, BudgetHolds
<1> QED
  BY <1>1, <1>2, <1>3, <1>4 DEF IndInv

LEMMA AcknowledgeKeeps ==
  ASSUME IndInv, NEW p \in Provider, Acknowledge(p)
  PROVE  IndInv'
<1> USE DEF Acknowledge
<1>1. /\ journal' \in [Provider -> Journal]
      /\ \A q \in Provider : /\ journal'[q].recorded = journal[q].recorded
                             /\ journal'[q].pending = journal[q].pending
  BY MarkerLeft DEF IndInv
<1>2. CASE Closed
  <2>1. \A q \in Provider : InJournal(q)'
    BY <1>1 DEF IndInv, InJournal, Pending, Bound
  <2> QED
    BY <1>1, <1>2, <2>1, ClosingKeeps
<1>3. CASE UNCHANGED <<phase, spent, inFlight, ceiling, serviceVars, hostVars>>
  BY <1>1, <1>3, QuietKeeps DEF serviceVars, hostVars, IndInv, Types
<1> QED
  BY <1>2, <1>3

LEMMA EndingKeeps == IndInv /\ (Close \/ Killed) => IndInv'
<1> SUFFICES ASSUME IndInv, Close \/ Killed PROVE IndInv'
  OBVIOUS
<1>1. Closed /\ UNCHANGED <<journal, units, billed, last, charge>>
  BY DEF Close, Killed, history
<1>2. journal' \in [Provider -> Journal] /\ \A p \in Provider : InJournal(p)'
  BY <1>1 DEF IndInv, Types, InJournal, Pending, Bound
<1> QED
  BY <1>1, <1>2, ClosingKeeps

LEMMA RunKeeps == IndInv /\ RunStep => IndInv'
<1> SUFFICES ASSUME IndInv, RunStep PROVE IndInv'
  OBVIOUS
<1>1. CASE Serve \/ StopGrants \/ Interrupt
  BY <1>1, QuietKeeps
     DEF Serve, StopGrants, Interrupt, ledgerVars, serviceVars, hostVars, history,
         IndInv, Types
<1> QED
  BY <1>1, OpenKeeps, LoadedKeeps, EndingKeeps, AcknowledgeKeeps, RecoverKeeps DEF RunStep

-----------------------------------------------------------------------------
(* The steps of a job.                                                       *)

LEMMA QuietJobKeeps ==
  ASSUME IndInv, NEW j \in Job, Ask(j) \/ Deny(j) \/ End(j) \/ Lose(j) \/ Cancel(j)
  PROVE  IndInv'
<1>1. phase = "serving"
  BY DEF IndInv, Holders, Ask, Deny, End, Lose, Cancel, HasTurn
<1>2. UNCHANGED <<journal, units, phase, spent, inFlight, lock, billed, last, charge>>
  BY DEF Ask, Deny, End, Lose, Cancel, ledgerVars, serviceVars, history
<1>3. \/ \E s \in {"idle", "waiting", "ended"} : state' = [state EXCEPT ![j] = s]
      \/ state[j] \in {"granted", "charged"} /\ state' = [state EXCEPT ![j] = "lost"]
  BY DEF Ask, Deny, End, Lose, Cancel, Set
<1>4. /\ state' \in [Job -> States]
      /\ \A k \in Job : \/ state'[k] = state[k]
                        \/ state'[k] \in {"idle", "waiting", "ended"}
                        \/ state'[k] = "lost" /\ state[k] \in {"granted", "charged"}
  BY <1>3 DEF IndInv, Types, States
<1> QED
  BY <1>1, <1>2, <1>4, QuietKeeps DEF IndInv, Types

LEMMA StopAtCapKeeps ==
  ASSUME IndInv, NEW j \in Job, StopAtCap(j)
  PROVE  IndInv'
<1> DEFINE p == ProviderOf[j]
<1>1. p \in Provider
  BY Constants
<1>2. phase = "serving"
  BY DEF IndInv, Holders, StopAtCap, MayReserve, HasTurn
<1>3. UNCHANGED <<units, phase, spent, inFlight, lock, billed, last, charge>>
  BY DEF StopAtCap, history
<1>4. Appended(p, CapStopLine(p)) \/ AppendRaises(p, CapStopLine(p))
  BY DEF StopAtCap
<1> HIDE DEF p
<1>5. /\ journal' \in [Provider -> Journal]
      /\ \A q \in Provider : /\ journal'[q].recorded = journal[q].recorded
                             /\ journal'[q].pending = journal[q].pending
  BY <1>1, <1>4, MarkerLeft DEF IndInv
<1>6. \E s \in {"idle", "ended"} : state' = [state EXCEPT ![j] = s]
  BY DEF StopAtCap, Set
<1>7. /\ state' \in [Job -> States]
      /\ \A k \in Job : state'[k] = state[k] \/ state'[k] \in {"idle", "waiting", "ended"}
  BY <1>6 DEF IndInv, Types, States
<1> QED
  BY <1>2, <1>3, <1>5, <1>7, QuietKeeps

(* A fresh unit is neither waiting for a settle nor the last one granted, so  *)
(* writing its bound changes no other.                                       *)
LEMMA FreshUnits ==
  ASSUME Types, NEW u \in Fresh, NEW r \in [bound : Nat, batch : BOOLEAN],
         units' = Set(units, u, r)
  PROVE  /\ u \in Unit
         /\ \A q \in Provider : u \notin Pending(q) /\ u # last[q]
         /\ units' \in [Unit -> [bound : Nat, batch : BOOLEAN]]
         /\ Bound(u)' = r.bound
         /\ \A v \in Unit \ {u} : Bound(v)' = Bound(v)
<1>1. u \in Unit /\ \A q \in Provider : u \notin Pending(q) /\ u # last[q]
  BY DEF Fresh, Pending
<1> QED
  BY <1>1 DEF Types, Set, Bound

LEMMA GrantFailsKeeps ==
  ASSUME IndInv, NEW j \in Job, GrantFails(j)
  PROVE  IndInv'
<1> DEFINE p == ProviderOf[j]
<1>1. p \in Provider /\ Types
  BY Constants DEF IndInv
<1>2. PICK u \in Fresh, bound \in 1 .. Margin[p] :
        /\ units' = Set(units, u, [bound |-> bound, batch |-> FALSE])
        /\ AppendRaises(p, ReserveLine(p, u))
  BY DEF GrantFails
<1>3. /\ phase = "serving"
      /\ state' = [state EXCEPT ![j] = "ended"]
      /\ UNCHANGED <<phase, spent, inFlight, lock, billed, last, charge>>
  BY DEF GrantFails, ledgerVars, history, MayReserve, HasTurn, IndInv, Holders, Set
<1> HIDE DEF p
<1>4. [bound |-> bound, batch |-> FALSE] \in [bound : Nat, batch : BOOLEAN]
  BY <1>1, Constants
<1>5. /\ u \in Unit
      /\ \A q \in Provider : u \notin Pending(q) /\ u # last[q]
      /\ units' \in [Unit -> [bound : Nat, batch : BOOLEAN]]
      /\ \A v \in Unit \ {u} : Bound(v)' = Bound(v)
  BY <1>1, <1>2, <1>4, FreshUnits
<1>6. /\ journal' \in [Provider -> Journal]
      /\ \A q \in Provider :
           /\ journal'[q].recorded = journal[q].recorded
           /\ journal'[q].pending = journal[q].pending
                \/ journal'[q].pending = journal[q].pending \union {u}
  BY <1>1, <1>2, <1>5, ReserveLeft
<1>7. Types'
  BY <1>1, <1>3, <1>5, <1>6 DEF Types, States
<1>8. ASSUME NEW q \in Provider
      PROVE  /\ (last[q] \in Pending(q))' <=> last[q] \in Pending(q)
             /\ last[q] # None => Bound(last[q])' = Bound(last[q])
  <2>1. last'[q] = last[q] /\ last[q] # u /\ last[q] \in Unit \union {None}
    BY <1>1, <1>3, <1>5 DEF Types
  <2>2. (last[q] \in Pending(q))' <=> last[q] \in Pending(q)
    BY <1>6, <2>1 DEF Pending
  <2>3. last[q] # None => Bound(last[q])' = Bound(last[q])
    BY <1>5, <2>1 DEF Bound
  <2> QED
    BY <2>2, <2>3
<1>9. ASSUME NEW q \in Provider
      PROVE  InJournal(q)' /\ InMemory(q)' /\ Fitted(q)'
  <2>1. last[q] = None => last[q] \notin Pending(q)
    BY <1>1, Constants DEF Types, Pending, Journal
  <2>2. InJournal(q)'
    BY <1>3, <1>6, <1>8, <2>1 DEF IndInv, InJournal
  <2>3. InMemory(q)'
    BY <1>3, <1>8 DEF IndInv, InMemory, Running
  <2>4. Fitted(q)'
    BY <1>3, <1>8 DEF IndInv, Fitted
  <2> QED
    BY <2>2, <2>3, <2>4
<1>10. Holders'
  BY <1>3, <1>8, Constants DEF IndInv, Types, Holders
<1>11. BudgetHolds'
  BY <1>3 DEF IndInv, BudgetHolds
<1> QED
  BY <1>7, <1>9, <1>10, <1>11 DEF IndInv

(* Only the holder of a provider's lock has a unit of it.                    *)
LEMMA OneHolder ==
  ASSUME IndInv, NEW j \in Job, state[j] \in {"granted", "charged", "lost"}
  PROVE  LET p == ProviderOf[j] IN
         /\ p \in Provider
         /\ lock[p] = j /\ phase = "serving"
         /\ inFlight[p] = last[p] /\ last[p] \in Unit
         /\ charge[p] \in Nat /\ Bound(last[p]) \in Nat
         /\ charge[p] <= 2 * Bound(last[p])
         /\ spent[p] + Bound(last[p]) <= Cap[p] /\ Bound(last[p]) <= Margin[p]
         /\ billed[p] <= spent[p] + charge[p]
         /\ \A k \in Job \ {j} : ProviderOf[k] = p =>
              state[k] \notin {"granted", "charged", "lost"}
<1> DEFINE p == ProviderOf[j]
<1>1. p \in Provider
  BY Constants
<1>2. /\ lock[p] = j /\ phase = "serving"
      /\ \A k \in Job \ {j} : ProviderOf[k] = p =>
           state[k] \notin {"granted", "charged", "lost"}
  BY DEF IndInv, Holders
<1>3. inFlight[p] # None
  BY <1>1, <1>2, Constants DEF IndInv, Fitted
<1>4. inFlight[p] = last[p] /\ last[p] \in Unit
  BY <1>1, <1>3 DEF IndInv, Fitted, Types
<1>5. charge[p] \in Nat /\ Bound(last[p]) \in Nat
  BY <1>1, <1>4 DEF IndInv, Types, Bound
<1> QED
  BY <1>1, <1>2, <1>3, <1>4, <1>5 DEF IndInv, Fitted, InMemory, Running

LEMMA GrantKeeps ==
  ASSUME IndInv, NEW j \in Job, Grant(j)
  PROVE  IndInv'
<1> DEFINE p == ProviderOf[j]
<1>1. p \in Provider /\ Types
  BY Constants DEF IndInv
<1>2. PICK u \in Fresh, bound \in 1 .. Margin[p], batch \in BOOLEAN :
        /\ Fits(p, bound)
        /\ units' = Set(units, u, [bound |-> bound, batch |-> batch])
        /\ Appended(p, ReserveLine(p, u))
        /\ inFlight' = [inFlight EXCEPT ![p] = u]
        /\ last' = [last EXCEPT ![p] = u]
  BY DEF Grant, Set
<1>3. /\ phase = "serving"
      /\ lock[p] = None
      /\ charge' = [charge EXCEPT ![p] = 0]
      /\ lock' = [lock EXCEPT ![p] = j]
      /\ state' = [state EXCEPT ![j] = "granted"]
      /\ UNCHANGED <<phase, spent, billed>>
  BY DEF Grant, MayReserve, HasTurn, IndInv, Holders, Set
<1> HIDE DEF p
<1>4. [bound |-> bound, batch |-> batch] \in [bound : Nat, batch : BOOLEAN]
  BY <1>1, Constants
<1>5. /\ u \in Unit
      /\ \A q \in Provider : u \notin Pending(q) /\ u # last[q]
      /\ units' \in [Unit -> [bound : Nat, batch : BOOLEAN]]
      /\ Bound(u)' = bound
      /\ \A v \in Unit \ {u} : Bound(v)' = Bound(v)
  BY <1>1, <1>2, <1>4, FreshUnits
<1>6. /\ journal' = [journal EXCEPT ![p] = ReserveLine(p, u)]
      /\ ReserveLine(p, u) \in Journal
      /\ ReserveLine(p, u).recorded = journal[p].recorded
      /\ ReserveLine(p, u).pending = Pending(p) \union {u}
  BY <1>1, <1>2, <1>5, ReserveLines DEF Appended, Set, Pending
<1>7. Types'
  BY <1>1, <1>2, <1>3, <1>5, <1>6 DEF Types, States
<1>8. inFlight[p] = None /\ billed[p] <= spent[p] /\ billed[p] <= journal[p].recorded
  BY <1>1, <1>3 DEF IndInv, Fitted, InMemory, InJournal, Running
<1>9. /\ billed[p] \in Nat /\ spent[p] \in Nat /\ journal[p].recorded \in Nat
      /\ bound \in Nat /\ bound <= Margin[p] /\ spent[p] + bound <= Cap[p]
  BY <1>1, <1>2, FittingFits, Constants DEF Types, Journal
<1>10. ASSUME NEW q \in Provider, q = p
       PROVE  InJournal(q)' /\ InMemory(q)' /\ Fitted(q)'
  <2>1. /\ last'[p] = u /\ inFlight'[p] = u /\ lock'[p] = j /\ charge'[p] = 0
        /\ journal'[p] = ReserveLine(p, u)
    BY <1>1, <1>2, <1>3, <1>6 DEF Types
  <2>2. u # None /\ j # None
    BY <1>5, Constants
  <2>3. InJournal(p)'
    BY <1>3, <1>5, <1>6, <1>8, <1>9, <2>1 DEF InJournal, Pending
  <2>4. InMemory(p)'
    BY <1>3, <1>8, <1>9, <2>1, <2>2 DEF InMemory, Running
  <2>5. Fitted(p)'
    BY <1>3, <1>5, <1>9, <2>1, <2>2 DEF Fitted
  <2> QED
    BY <1>10, <2>3, <2>4, <2>5
<1>11. ASSUME NEW q \in Provider, q # p
       PROVE  InJournal(q)' /\ InMemory(q)' /\ Fitted(q)'
  <2>1. /\ UNCHANGED <<last[q], inFlight[q], lock[q], charge[q], spent[q], billed[q],
                       journal[q]>>
        /\ last[q] # u /\ last[q] \in Unit \union {None}
    BY <1>1, <1>2, <1>3, <1>5, <1>6, <1>11 DEF Types
  <2>2. last[q] # None => Bound(last[q])' = Bound(last[q])
    BY <1>5, <2>1 DEF Bound
  <2>3. last[q] = None => last[q] \notin Pending(q)
    BY <1>1, Constants DEF Types, Pending, Journal
  <2>4. InJournal(q)'
    BY <2>1, <2>2, <2>3 DEF IndInv, InJournal, Pending
  <2>5. InMemory(q)'
    BY <1>3, <2>1 DEF IndInv, InMemory, Pending, Running
  <2>6. Fitted(q)'
    BY <1>3, <2>1, <2>2 DEF IndInv, Fitted
  <2> QED
    BY <2>4, <2>5, <2>6
<1>12. Holders'
  <2> SUFFICES ASSUME NEW k \in Job
               PROVE  LET r == ProviderOf[k] IN
                      /\ state'[k] \in {"granted", "charged", "lost"} => lock'[r] = k
                      /\ state'[k] = "granted" => charge'[r] = 0 /\ last'[r] \in Pending(r)'
                      /\ state'[k] # "idle" => phase' = "serving"
    BY DEF Holders
  <2>1. CASE k = j
    BY <1>1, <1>2, <1>3, <1>6, <2>1 DEF Types, Pending, p
  <2>2. CASE k # j
    <3>1. state'[k] = state[k] /\ ProviderOf[k] \in Provider
      BY <1>3, <2>2, Constants
    <3>2. CASE ProviderOf[k] = p
      BY <1>3, <3>1, <3>2, Constants DEF IndInv, Holders
    <3>3. CASE ProviderOf[k] # p
      BY <1>1, <1>2, <1>3, <1>6, <3>1, <3>3 DEF IndInv, Holders, Pending
    <3> QED
      BY <3>2, <3>3
  <2> QED
    BY <2>1, <2>2
<1>13. BudgetHolds'
  BY <1>3 DEF IndInv, BudgetHolds
<1> QED
  BY <1>7, <1>10, <1>11, <1>12, <1>13 DEF IndInv

(* What the holder's unit costs is below twice its bound, and the bound below *)
(* the room under the cap and below the margin.                              *)
LEMMA ChargeKeeps ==
  ASSUME IndInv, NEW j \in Job, Charge(j)
  PROVE  IndInv'
<1> DEFINE p == ProviderOf[j]
           B == Bound(last[p])
<1>1. /\ p \in Provider /\ Types
      /\ lock[p] = j /\ phase = "serving"
      /\ inFlight[p] = last[p] /\ last[p] \in Unit /\ B \in Nat
      /\ spent[p] + B <= Cap[p] /\ B <= Margin[p]
      /\ \A k \in Job \ {j} : ProviderOf[k] = p =>
           state[k] \notin {"granted", "charged", "lost"}
  BY OneHolder DEF Charge, IndInv
<1>2. charge[p] = 0 /\ last[p] \in Pending(p)
  BY DEF Charge, IndInv, Holders
<1>3. PICK cost \in 0 .. 2 * B :
        /\ charge' = [charge EXCEPT ![p] = cost]
        /\ billed' = [billed EXCEPT ![p] = billed[p] + cost]
  BY <1>1 DEF Charge, Set, Bound
<1>4. /\ state' = [state EXCEPT ![j] = "charged"]
      /\ UNCHANGED <<journal, units, phase, spent, inFlight, lock, last>>
  BY DEF Charge, Set, ledgerVars, serviceVars
<1>5. last[p] # None /\ Cap[p] \in Nat /\ Margin[p] \in Nat
  BY <1>1, Constants
<1> HIDE DEF p, B
<1>6. /\ cost \in Nat /\ cost <= 2 * B
      /\ billed[p] \in Nat /\ spent[p] \in Nat /\ journal[p].recorded \in Nat
  BY <1>1, <1>3 DEF Types, Journal
<1>7. billed[p] <= spent[p] /\ billed[p] <= journal[p].recorded
  BY <1>1, <1>2, <1>5, <1>6 DEF IndInv, InMemory, InJournal, Running
<1>8. Types'
  BY <1>1, <1>3, <1>4, <1>6 DEF Types, States
<1>9. charge'[p] = cost /\ billed'[p] = billed[p] + cost
  BY <1>1, <1>3 DEF Types
<1>10. ASSUME NEW q \in Provider, q = p
       PROVE  InJournal(q)' /\ InMemory(q)' /\ Fitted(q)'
  <2>1. Bound(last[p])' = B
    BY <1>4 DEF Bound, B
  <2>2. InJournal(p)'
    BY <1>2, <1>4, <1>6, <1>7, <1>9, <2>1 DEF InJournal, Pending
  <2>3. InMemory(p)'
    BY <1>1, <1>4, <1>5, <1>6, <1>7, <1>9 DEF InMemory, Running
  <2>4. Fitted(p)'
    BY <1>1, <1>4, <1>6, <1>9, <2>1 DEF IndInv, Fitted
  <2> QED
    BY <1>10, <2>2, <2>3, <2>4
<1>11. ASSUME NEW q \in Provider, q # p
       PROVE  InJournal(q)' /\ InMemory(q)' /\ Fitted(q)'
  <2>1. charge'[q] = charge[q] /\ billed'[q] = billed[q]
    BY <1>3, <1>11 DEF Types
  <2> QED
    BY <1>4, <2>1 DEF IndInv, InJournal, InMemory, Fitted, Pending, Bound, Running
<1>12. Holders'
  <2> SUFFICES ASSUME NEW k \in Job
               PROVE  LET r == ProviderOf[k] IN
                      /\ state'[k] \in {"granted", "charged", "lost"} => lock'[r] = k
                      /\ state'[k] = "granted" => charge'[r] = 0 /\ last'[r] \in Pending(r)'
                      /\ state'[k] # "idle" => phase' = "serving"
    BY DEF Holders
  <2>1. CASE k = j
    BY <1>1, <1>4, <2>1 DEF Types, p
  <2>2. CASE k # j
    <3>1. state'[k] = state[k]
      BY <1>4, <2>2
    <3>2. CASE ProviderOf[k] = p
      BY <1>1, <1>4, <2>2, <3>1, <3>2
    <3>3. CASE ProviderOf[k] # p
      BY <1>3, <1>4, <3>1, <3>3, Constants DEF IndInv, Holders, Pending
    <3> QED
      BY <3>2, <3>3
  <2> QED
    BY <2>1, <2>2
<1>13. BudgetHolds'
  <2> SUFFICES ASSUME NEW q \in Provider
               PROVE  billed'[q] <= Cap[q] + Margin[q]
    BY DEF BudgetHolds
  <2>1. CASE q = p
    BY <1>1, <1>5, <1>6, <1>7, <1>9, <2>1
  <2>2. CASE q # p
    BY <1>3, <2>2 DEF IndInv, BudgetHolds
  <2> QED
    BY <2>1, <2>2
<1> QED
  BY <1>8, <1>10, <1>11, <1>12, <1>13 DEF IndInv

(* A settle of the holder's unit, by its worker or by the teardown: booked in *)
(* memory when the append succeeded, and nothing but the journal otherwise.  *)
LEMMA BookingKeeps ==
  ASSUME IndInv, NEW j \in Job, state[j] \in {"charged", "lost"},
         NEW p, p = ProviderOf[j], NEW booked \in Nat, charge[p] <= booked,
         journal' \in [Provider -> Journal], SettleMayBe(p, inFlight[p], booked),
         \A q \in Provider \ {p} : journal'[q] = journal[q],
         UNCHANGED <<units, phase, billed, last, charge>>,
         NEW s \in {"idle", "lost", "ended"}, state' = [state EXCEPT ![j] = s],
         \/ /\ journal'[p].pending = Pending(p) \ {inFlight[p]}
            /\ spent' = [spent EXCEPT ![p] = spent[p] + booked]
            /\ inFlight' = [inFlight EXCEPT ![p] = None]
            /\ lock' = [lock EXCEPT ![p] = None]
            /\ s # "lost"
         \/ UNCHANGED <<spent, inFlight, lock>>
  PROVE  IndInv'
<1>1. /\ p \in Provider /\ Types
      /\ lock[p] = j /\ phase = "serving"
      /\ inFlight[p] = last[p] /\ last[p] \in Unit
      /\ charge[p] \in Nat /\ billed[p] <= spent[p] + charge[p]
      /\ \A k \in Job \ {j} : ProviderOf[k] = p =>
           state[k] \notin {"granted", "charged", "lost"}
  BY OneHolder DEF IndInv
<1>2. /\ billed[p] \in Nat /\ spent[p] \in Nat /\ journal[p].recorded \in Nat
      /\ last[p] # None
  BY <1>1, Constants DEF Types, Journal
<1>3. Types'
  BY <1>1, <1>2 DEF Types, States
<1>4. ASSUME NEW q \in Provider, q = p
      PROVE  InJournal(q)' /\ InMemory(q)' /\ Fitted(q)'
  <2>1. InJournal(p)'
    BY <1>1, <1>2 DEF SettleMayBe, IndInv, InJournal, Pending, Bound
  <2>2. CASE UNCHANGED <<spent, inFlight, lock>>
    <3>1. InMemory(p)'
      BY <1>1, <1>2, <2>2 DEF InMemory, Running
    <3>2. Fitted(p)'
      BY <1>1, <2>2 DEF IndInv, Fitted, Bound
    <3> QED
      BY <1>4, <2>1, <3>1, <3>2
  <2>3. CASE /\ journal'[p].pending = Pending(p) \ {inFlight[p]}
             /\ spent' = [spent EXCEPT ![p] = spent[p] + booked]
             /\ inFlight' = [inFlight EXCEPT ![p] = None]
             /\ lock' = [lock EXCEPT ![p] = None]
    <3>1. inFlight'[p] = None /\ lock'[p] = None /\ spent'[p] = spent[p] + booked
      BY <1>1, <2>3 DEF Types
    <3>2. InMemory(p)'
      BY <1>1, <1>2, <2>3, <3>1 DEF InMemory, Running, Pending
    <3>3. Fitted(p)'
      BY <3>1 DEF Fitted
    <3> QED
      BY <1>4, <2>1, <3>2, <3>3
  <2> QED
    BY <2>2, <2>3
<1>5. ASSUME NEW q \in Provider, q # p
      PROVE  InJournal(q)' /\ InMemory(q)' /\ Fitted(q)'
  <2>1. /\ spent'[q] = spent[q] /\ inFlight'[q] = inFlight[q] /\ lock'[q] = lock[q]
        /\ journal'[q] = journal[q]
    BY <1>5 DEF IndInv, Types
  <2> QED
    BY <2>1 DEF IndInv, InJournal, InMemory, Fitted, Pending, Bound, Running
<1>6. Holders'
  <2> SUFFICES ASSUME NEW k \in Job
               PROVE  LET r == ProviderOf[k] IN
                      /\ state'[k] \in {"granted", "charged", "lost"} => lock'[r] = k
                      /\ state'[k] = "granted" => charge'[r] = 0 /\ last'[r] \in Pending(r)'
                      /\ state'[k] # "idle" => phase' = "serving"
    BY DEF Holders
  <2>1. CASE k = j
    BY <1>1, <2>1 DEF Types
  <2>2. CASE k # j
    <3>1. state'[k] = state[k] /\ ProviderOf[k] \in Provider
      BY <2>2, Constants
    <3>2. CASE ProviderOf[k] = p
      BY <1>1, <2>2, <3>1, <3>2
    <3>3. CASE ProviderOf[k] # p
      <4>1. lock'[ProviderOf[k]] = lock[ProviderOf[k]]
        BY <1>1, <3>1, <3>3 DEF Types
      <4>2. Pending(ProviderOf[k])' = Pending(ProviderOf[k])
        BY <3>1, <3>3 DEF Pending
      <4> QED
        BY <1>1, <3>1, <4>1, <4>2 DEF IndInv, Holders
    <3> QED
      BY <3>2, <3>3
  <2> QED
    BY <2>1, <2>2
<1>7. BudgetHolds'
  BY DEF IndInv, BudgetHolds
<1> QED
  BY <1>3, <1>4, <1>5, <1>6, <1>7 DEF IndInv

(* No booking is below the charge.                                           *)
LEMMA Booked ==
  ASSUME NEW p \in Provider, Types, inFlight[p] \in Unit,
         charge[p] <= 2 * Bound(inFlight[p]),
         NEW b \in Bookings(units[inFlight[p]], charge[p])
  PROVE  b.booked \in Nat /\ b.overrun \in BOOLEAN /\ charge[p] <= b.booked
<1>1. /\ charge[p] \in Nat /\ Bound(inFlight[p]) \in Nat
      /\ units[inFlight[p]].bound = Bound(inFlight[p])
  BY DEF Types, Bound
<1> DEFINE bound == units[inFlight[p]].bound
           over == charge[p] > bound
           some == charge[p] > 0
<1>2. over \in BOOLEAN
  BY <1>1, SMT
<1>3. some \in BOOLEAN
  BY <1>1, SMT
<1> HIDE DEF over, some
<1>4. CASE units[inFlight[p]].batch
  <2>1. b \in [booked : charge[p] .. 2 * bound, overrun : {FALSE, some}]
    BY <1>4, Zenon DEF Bookings, some
  <2>2. b.booked \in charge[p] .. 2 * bound
    BY <2>1, Zenon
  <2>3. b.overrun \in {FALSE, some}
    BY <2>1, Zenon
  <2>4. b.overrun \in BOOLEAN
    BY <1>3, <2>3, Zenon
  <2>5. b.booked \in Nat /\ charge[p] <= b.booked
    BY <1>1, <2>2
  <2> QED
    BY <2>4, <2>5
<1>5. CASE ~units[inFlight[p]].batch
  <2>1. \/ b = [booked |-> charge[p], overrun |-> over]
        \/ b = [booked |-> 2 * bound, overrun |-> FALSE]
    BY <1>5, Zenon DEF Bookings, over
  <2>2. b \in [booked : {charge[p], 2 * bound}, overrun : {over, FALSE}]
    <3>1. [booked |-> charge[p], overrun |-> over]
            \in [booked : {charge[p], 2 * bound}, overrun : {over, FALSE}]
      BY Zenon
    <3>2. [booked |-> 2 * bound, overrun |-> FALSE]
            \in [booked : {charge[p], 2 * bound}, overrun : {over, FALSE}]
      BY Zenon
    <3> QED
      BY <2>1, <3>1, <3>2, Zenon
  <2>3. b.booked \in {charge[p], 2 * bound}
    BY <2>2, Zenon
  <2>4. b.overrun \in {over, FALSE}
    BY <2>2, Zenon
  <2>5. b.overrun \in BOOLEAN
    BY <1>2, <2>4, Zenon
  <2>6. b.booked \in Nat /\ charge[p] <= b.booked
    BY <1>1, <2>3
  <2> QED
    BY <2>5, <2>6
<1> QED
  BY <1>4, <1>5

LEMMA SettleKeeps ==
  ASSUME IndInv, NEW j \in Job, Settle(j)
  PROVE  IndInv'
<1> DEFINE p == ProviderOf[j]
           u == inFlight[p]
<1>1. /\ p \in Provider /\ Types /\ u \in Unit /\ state[j] = "charged"
      /\ charge[p] <= 2 * Bound(u)
  BY OneHolder DEF Settle, IndInv
<1>2. UNCHANGED <<units, phase, billed, last, charge>>
  BY DEF Settle, Book, history
<1>3. PICK b \in Bookings(units[u], charge[p]) :
        LET line == SettleLine(p, u, b.booked, b.overrun) IN
        \/ /\ \E more \in {line, [line EXCEPT !.overrun = @ \/ b.overrun],
                           [line EXCEPT !.torn = @ \/ b.overrun]} :
                Appended(p, more)
           /\ Book(p, b.booked, b.overrun)
           /\ lock' = Set(lock, p, None)
           /\ state' = Set(state, j, "idle")
        \/ /\ AppendRaises(p, line)
           /\ state' = Set(state, j, "lost")
           /\ UNCHANGED <<ledgerVars, lock>>
  BY DEF Settle
<1>4. b.booked \in Nat /\ b.overrun \in BOOLEAN /\ charge[p] <= b.booked
  BY <1>1, <1>3, Booked
<1> DEFINE line == SettleLine(p, u, b.booked, b.overrun)
<1>5. CASE AppendRaises(p, line) /\ state' = Set(state, j, "lost")
           /\ UNCHANGED <<ledgerVars, lock>>
  <2>1. /\ journal' \in [Provider -> Journal]
        /\ SettleMayBe(p, u, b.booked)
        /\ \A q \in Provider \ {p} : journal'[q] = journal[q]
    BY <1>1, <1>4, <1>5, SettleLeft
  <2> QED
    BY <1>1, <1>2, <1>4, <1>5, <2>1, BookingKeeps DEF Set, ledgerVars
<1>6. CASE /\ \E more \in {line, [line EXCEPT !.overrun = @ \/ b.overrun],
                           [line EXCEPT !.torn = @ \/ b.overrun]} :
                Appended(p, more)
           /\ Book(p, b.booked, b.overrun)
           /\ lock' = Set(lock, p, None)
           /\ state' = Set(state, j, "idle")
  <2>1. /\ journal' \in [Provider -> Journal]
        /\ journal'[p].recorded = journal[p].recorded + b.booked
        /\ journal'[p].pending = journal[p].pending \ {u}
        /\ \A q \in Provider \ {p} : journal'[q] = journal[q]
    BY <1>1, <1>4, <1>6, SettleWritten
  <2>2. SettleMayBe(p, u, b.booked)
    BY <2>1 DEF SettleMayBe
  <2>3. /\ spent' = [spent EXCEPT ![p] = spent[p] + b.booked]
        /\ inFlight' = [inFlight EXCEPT ![p] = None]
        /\ lock' = [lock EXCEPT ![p] = None]
        /\ state' = [state EXCEPT ![j] = "idle"]
    BY <1>6 DEF Book, Set
  <2> QED
    BY <1>1, <1>2, <1>4, <2>1, <2>2, <2>3, BookingKeeps DEF Pending
<1> QED
  BY <1>3, <1>5, <1>6

LEMMA TeardownKeeps ==
  ASSUME IndInv, NEW j \in Job, Teardown(j)
  PROVE  IndInv'
<1> DEFINE p == ProviderOf[j]
           u == inFlight[p]
           line == SettleLine(p, u, LostBooking(u), FALSE)
<1>1. /\ p \in Provider /\ Types /\ u \in Unit /\ state[j] = "lost"
      /\ charge[p] <= LostBooking(u) /\ LostBooking(u) \in Nat
  BY OneHolder DEF Teardown, IndInv, LostBooking, Bound
<1>2. UNCHANGED <<units, phase, billed, last, charge>>
  BY DEF Teardown, Book, history
<1>3. state' = [state EXCEPT ![j] = "ended"]
  BY DEF Teardown, Set
<1>4. CASE AppendRaises(p, line) /\ UNCHANGED <<ledgerVars, lock>>
  <2>1. /\ journal' \in [Provider -> Journal]
        /\ SettleMayBe(p, u, LostBooking(u))
        /\ \A q \in Provider \ {p} : journal'[q] = journal[q]
    BY <1>1, <1>4, SettleLeft
  <2> QED
    BY <1>1, <1>2, <1>3, <1>4, <2>1, BookingKeeps DEF ledgerVars
<1>5. CASE /\ Appended(p, line) /\ Book(p, LostBooking(u), FALSE)
           /\ lock' = Set(lock, p, None)
  <2>1. /\ journal' \in [Provider -> Journal]
        /\ journal'[p].recorded = journal[p].recorded + LostBooking(u)
        /\ journal'[p].pending = journal[p].pending \ {u}
        /\ \A q \in Provider \ {p} : journal'[q] = journal[q]
    BY <1>1, <1>5, SettleWritten
  <2>2. SettleMayBe(p, u, LostBooking(u))
    BY <2>1 DEF SettleMayBe
  <2>3. /\ spent' = [spent EXCEPT ![p] = spent[p] + LostBooking(u)]
        /\ inFlight' = [inFlight EXCEPT ![p] = None]
        /\ lock' = [lock EXCEPT ![p] = None]
    BY <1>5 DEF Book, Set
  <2> QED
    BY <1>1, <1>2, <1>3, <2>1, <2>2, <2>3, BookingKeeps DEF Pending
<1> QED
  BY <1>4, <1>5 DEF Teardown

-----------------------------------------------------------------------------

(* The invariant holds in every reachable state.                             *)
THEOREM MoneyIsFollowed == Spec => []IndInv
<1>1. IndInv /\ [Next]_vars => IndInv'
  <2> SUFFICES ASSUME IndInv, [Next]_vars PROVE IndInv'
    OBVIOUS
  <2>1. CASE RunStep
    BY <2>1, RunKeeps
  <2>2. ASSUME NEW j \in Job, JobStep(j) PROVE IndInv'
    BY <2>2, QuietJobKeeps, StopAtCapKeeps, GrantKeeps, GrantFailsKeeps, ChargeKeeps,
       SettleKeeps, TeardownKeeps DEF JobStep, Turn
  <2>3. CASE UNCHANGED vars
    BY <2>3 DEF vars, ledgerVars, serviceVars, hostVars, history, IndInv, Types, InJournal,
       InMemory, Fitted, Holders, BudgetHolds, Pending, Bound, Running
  <2> QED
    BY <2>1, <2>2, <2>3 DEF Next
<1> QED
  BY Initially, <1>1, PTL DEF Spec

(* No provider ever charges more than its cap plus its margin, over any       *)
(* number of runs, kills, lost workers and failed writes of its journal.     *)
THEOREM BudgetIsKept == Spec => []BudgetHolds
<1>1. IndInv => BudgetHolds
  BY DEF IndInv
<1> QED
  BY <1>1, MoneyIsFollowed, PTL

(* What the ledger remembers as spent covers all that was charged, but for    *)
(* the unit in flight.                                                       *)
THEOREM SpendIsCovered == Spec => []SpendCoversCharges
<1>1. IndInv => SpendCoversCharges
  <2> SUFFICES ASSUME IndInv, phase \in {"open", "serving"}, NEW p \in Provider
               PROVE  billed[p] <= spent[p] + (IF inFlight[p] = None THEN 0 ELSE charge[p])
    BY DEF SpendCoversCharges
  <2>1. billed[p] \in Nat /\ spent[p] \in Nat
    BY DEF IndInv, Types
  <2> QED
    BY <2>1 DEF IndInv, InMemory, Running
<1> QED
  BY <1>1, MoneyIsFollowed, PTL

-----------------------------------------------------------------------------
(* Overruns.  The settle line that books one says so itself, so the journal    *)
(* has every overrun nobody acknowledged, and the memory of a process that    *)
(* read it stops the provider.                                               *)
OverrunKept ==
  /\ stops \in [Provider -> {"none", "cap", "overrun"}]
  /\ unacked \in [Provider -> BOOLEAN]
  /\ \A p \in Provider :
       unacked[p] => /\ journal[p].overrun
                     /\ phase # "closed" => stops[p] = "overrun"

(* A journal that loses no overrun, and a memory that loses no stop.         *)
LEMMA OverrunFrame ==
  ASSUME OverrunKept,
         unacked' \in [Provider -> BOOLEAN], \A p \in Provider : unacked'[p] => unacked[p],
         \A p \in Provider : journal[p].overrun => journal'[p].overrun,
         stops' \in [Provider -> {"none", "cap", "overrun"}],
         \A p \in Provider : phase' # "closed" /\ unacked[p] => stops'[p] = "overrun"
  PROVE  OverrunKept'
BY DEF OverrunKept

(* A failed append takes no overrun away.                                    *)
LEMMA RaisedKeepsOverruns ==
  ASSUME IndInv, NEW p \in Provider, NEW line, line.overrun = journal[p].overrun,
         AppendRaises(p, line) \/ Appended(p, line)
  PROVE  \A q \in Provider : journal[q].overrun => journal'[q].overrun
<1>1. journal \in [Provider -> Journal]
  BY DEF IndInv, Types
<1>2. PICK left : left.overrun = journal[p].overrun /\ journal' = Set(journal, p, left)
  <2>1. [journal[p] EXCEPT !.torn = TRUE].overrun = journal[p].overrun
    BY <1>1 DEF Journal
  <2> QED BY <2>1 DEF AppendRaises, Appended
<1> QED BY <1>1, <1>2 DEF Set

LEMMA ClosedKeepsOverruns ==
  ASSUME OverrunKept, Closed, unacked' = unacked,
         \A p \in Provider : journal[p].overrun => journal'[p].overrun
  PROVE  OverrunKept'
BY OverrunFrame DEF Closed, OverrunKept

LEMMA RunKeepsOverruns == IndInv /\ OverrunKept /\ RunStep => OverrunKept'
<1> SUFFICES ASSUME IndInv, OverrunKept, RunStep PROVE OverrunKept'
  OBVIOUS
<1>0. journal \in [Provider -> Journal]
  BY DEF IndInv, Types
<1>1. CASE Open
  BY <1>0, <1>1, OverrunFrame DEF Open, history, OverrunKept
<1>2. CASE Loaded \/ Serve \/ StopGrants \/ Interrupt
  <2>1. phase # "closed" /\ UNCHANGED <<journal, stops, unacked>>
    BY <1>2 DEF Loaded, Serve, StopGrants, Interrupt, ledgerVars, history
  <2> QED BY <2>1 DEF OverrunKept
<1>3. CASE Close \/ Killed
  BY <1>3, ClosedKeepsOverruns DEF Close, Killed, history
<1>4. ASSUME NEW p \in Provider, NEW u \in Unit, Recover(p, u) PROVE OverrunKept'
  <2> DEFINE line == SettleLine(p, u, LostBooking(u), FALSE)
  <2>1. line.overrun = journal[p].overrun
    BY <1>0 DEF SettleLine, Journal
  <2>2. AppendRaises(p, line) \/ Appended(p, line)
    BY <1>4 DEF Recover
  <2> HIDE DEF line
  <2>3. \A q \in Provider : journal[q].overrun => journal'[q].overrun
    BY <2>1, <2>2, RaisedKeepsOverruns
  <2>4. unacked' = unacked /\ phase = "recovering"
    BY <1>4 DEF Recover, history
  <2>5. Closed \/ UNCHANGED <<phase, stops>>
    BY <1>4 DEF Recover
  <2> QED BY <2>3, <2>4, <2>5, ClosedKeepsOverruns, OverrunFrame DEF OverrunKept
<1>5. ASSUME NEW p \in Provider, Acknowledge(p) PROVE OverrunKept'
  <2>1. PICK left : journal' = Set(journal, p, left)
    BY <1>5 DEF Acknowledge, Appended, AppendRaises
  <2>2. /\ \A q \in Provider \ {p} : journal'[q] = journal[q] /\ unacked'[q] = unacked[q]
        /\ unacked'[p] = journal'[p].overrun
        /\ unacked' \in [Provider -> BOOLEAN]
    <3>1. journal'[p].overrun \in BOOLEAN
      <4>1. CASE Appended(p, ResumeLine(p))
        BY <1>0, <4>1 DEF Appended, ResumeLine, Set, Journal
      <4>2. CASE AppendRaises(p, ResumeLine(p))
        BY <1>0, <4>2 DEF AppendRaises, ResumeLine, Set, Journal
      <4> QED BY <1>5, <4>1, <4>2 DEF Acknowledge
    <3> QED BY <1>0, <1>5, <2>1, <3>1 DEF Acknowledge, Set, OverrunKept
  <2>3. CASE Appended(p, ResumeLine(p)) /\ stops' = Set(stops, p, "none")
             /\ UNCHANGED phase
    <3>1. ~journal'[p].overrun
      BY <1>0, <2>3 DEF Appended, ResumeLine, Set, Journal
    <3> QED BY <1>5, <2>2, <2>3, <3>1 DEF Acknowledge, OverrunKept, Set
  <2>4. CASE Closed
    BY <2>2, <2>4 DEF Closed, OverrunKept
  <2> QED BY <1>5, <2>3, <2>4 DEF Acknowledge
<1> QED BY <1>1, <1>2, <1>3, <1>4, <1>5 DEF RunStep

LEMMA JobKeepsOverruns ==
  ASSUME IndInv, OverrunKept, NEW j \in Job, JobStep(j)
  PROVE  OverrunKept'
<1>0. journal \in [Provider -> Journal] /\ ProviderOf[j] \in Provider
  BY Constants DEF IndInv, Types
<1> DEFINE p == ProviderOf[j]
<1>1. CASE Ask(j) \/ Deny(j) \/ Charge(j) \/ Lose(j) \/ End(j) \/ Cancel(j)
  <2>1. UNCHANGED <<journal, phase, stops, unacked>>
    BY <1>1 DEF Ask, Deny, Charge, Lose, End, Cancel, ledgerVars, history
  <2> QED BY <2>1 DEF OverrunKept
<1>2. CASE StopAtCap(j)
  <2>1. AppendRaises(p, CapStopLine(p)) \/ Appended(p, CapStopLine(p))
    BY <1>2 DEF StopAtCap
  <2>2. \A q \in Provider : journal[q].overrun => journal'[q].overrun
    BY <1>0, <2>1, RaisedKeepsOverruns DEF CapStopLine
  <2>3. /\ stops' = Set(stops, p, "cap") /\ stops[p] = "none"
        /\ UNCHANGED <<phase, unacked>>
    BY <1>2 DEF StopAtCap, MayReserve, history
  <2> QED BY <1>0, <2>2, <2>3, OverrunFrame DEF OverrunKept, Set
<1>3. CASE Grant(j) \/ GrantFails(j)
  <2>1. PICK u \in Unit :
          AppendRaises(p, ReserveLine(p, u)) \/ Appended(p, ReserveLine(p, u))
    BY <1>3 DEF Grant, GrantFails, Fresh
  <2>2. ReserveLine(p, u).overrun = journal[p].overrun
    BY <1>0 DEF ReserveLine, Journal
  <2>3. \A q \in Provider : journal[q].overrun => journal'[q].overrun
    BY <1>0, <2>1, <2>2, RaisedKeepsOverruns
  <2>4. UNCHANGED <<phase, stops, unacked>>
    BY <1>3 DEF Grant, GrantFails, ledgerVars, history
  <2> QED BY <2>3, <2>4, OverrunFrame DEF OverrunKept
<1>4. CASE Teardown(j)
  <2> DEFINE u == inFlight[p]
             line == SettleLine(p, u, LostBooking(u), FALSE)
  <2>1. line.overrun = journal[p].overrun
    BY <1>0 DEF SettleLine, Journal
  <2>2. AppendRaises(p, line) \/ Appended(p, line)
    BY <1>4 DEF Teardown
  <2> HIDE DEF line
  <2>3. \A q \in Provider : journal[q].overrun => journal'[q].overrun
    BY <1>0, <2>1, <2>2, RaisedKeepsOverruns
  <2>4. UNCHANGED <<phase, stops>>
    BY <1>4 DEF Teardown, Book, ledgerVars
  <2>5. unacked' \in [Provider -> BOOLEAN] /\ \A q \in Provider : unacked'[q] => unacked[q]
    <3>1. unacked' \in {unacked, Set(unacked, p, unacked[p] \/ FALSE)}
      BY <1>4 DEF Teardown, Book, history
    <3> QED BY <1>0, <3>1 DEF Set, OverrunKept
  <2> QED BY <2>3, <2>4, <2>5, OverrunFrame DEF OverrunKept
<1>5. CASE Settle(j)
  <2>1. PICK b \in Bookings(units[inFlight[p]], charge[p]) :
          LET line == SettleLine(p, inFlight[p], b.booked, b.overrun) IN
          \/ /\ \E more \in {line, [line EXCEPT !.overrun = @ \/ b.overrun],
                             [line EXCEPT !.torn = @ \/ b.overrun]} :
                  Appended(p, more)
             /\ Book(p, b.booked, b.overrun)
          \/ AppendRaises(p, line) /\ UNCHANGED <<ledgerVars, history>>
    BY <1>5 DEF Settle
  <2>2. b.overrun \in BOOLEAN
    <3>1. (charge[p] > units[inFlight[p]].bound) \in BOOLEAN /\ (charge[p] > 0) \in BOOLEAN
      OBVIOUS
    <3>2. CASE units[inFlight[p]].batch
      <4> DEFINE costs == charge[p] .. 2 * units[inFlight[p]].bound
                 flags == {FALSE, charge[p] > 0}
      <4>1. b \in [booked : costs, overrun : flags]
        BY <3>2 DEF Bookings
      <4>2. flags \subseteq BOOLEAN
        BY <3>1
      <4> HIDE DEF costs, flags
      <4> QED BY <4>1, <4>2
    <3>3. CASE ~units[inFlight[p]].batch
      <4> DEFINE billedAs == [booked |-> charge[p],
                              overrun |-> charge[p] > units[inFlight[p]].bound]
                 unbilled == [booked |-> 2 * units[inFlight[p]].bound, overrun |-> FALSE]
      <4>1. b = billedAs \/ b = unbilled
        BY <3>3 DEF Bookings
      <4>2. billedAs.overrun \in BOOLEAN /\ unbilled.overrun \in BOOLEAN
        BY <3>1
      <4> HIDE DEF billedAs, unbilled
      <4> QED BY <4>1, <4>2
    <3> QED BY <3>2, <3>3
  <2> DEFINE line == SettleLine(p, inFlight[p], b.booked, b.overrun)
  <2>3. /\ line.overrun <=> (b.overrun \/ journal[p].overrun)
        /\ [line EXCEPT !.overrun = @ \/ b.overrun].overrun <=> line.overrun
        /\ [line EXCEPT !.torn = @ \/ b.overrun].overrun <=> line.overrun
        /\ [journal[p] EXCEPT !.torn = TRUE].overrun <=> journal[p].overrun
    BY <1>0, <2>2 DEF SettleLine, Journal
  <2> HIDE DEF line
  <2>4. CASE (\E more \in {line, [line EXCEPT !.overrun = @ \/ b.overrun],
                           [line EXCEPT !.torn = @ \/ b.overrun]} : Appended(p, more))
             /\ Book(p, b.booked, b.overrun)
    <3>1. PICK more : journal' = Set(journal, p, more)
                      /\ (more.overrun <=> (b.overrun \/ journal[p].overrun))
      BY <2>3, <2>4 DEF Appended
    <3>2. /\ stops' = IF b.overrun THEN Set(stops, p, "overrun") ELSE stops
          /\ unacked' = Set(unacked, p, unacked[p] \/ b.overrun)
          /\ phase' = phase
      BY <1>5, <2>4 DEF Book, Settle
    <3> QED BY <1>0, <2>2, <3>1, <3>2 DEF OverrunKept, Set
  <2>5. CASE AppendRaises(p, line) /\ UNCHANGED <<ledgerVars, history>>
    <3>1. PICK left : journal' = Set(journal, p, left)
                      /\ (journal[p].overrun => left.overrun)
      BY <2>3, <2>5 DEF AppendRaises
    <3>2. UNCHANGED <<phase, stops, unacked>>
      BY <1>5, <2>5 DEF Settle, ledgerVars, history
    <3> QED BY <1>0, <3>1, <3>2 DEF OverrunKept, Set
  <2> QED BY <2>1, <2>4, <2>5 DEF line
<1> QED BY <1>1, <1>2, <1>3, <1>4, <1>5 DEF JobStep, Turn

LEMMA OverrunInvariant == Spec => []OverrunKept
<1>1. Init => OverrunKept
  BY DEF Init, OverrunKept
<1>2. IndInv /\ OverrunKept /\ [Next]_vars => OverrunKept'
  <2>1. UNCHANGED vars /\ OverrunKept => OverrunKept'
    BY DEF vars, ledgerVars, history, OverrunKept
  <2> QED BY <2>1, RunKeepsOverruns, JobKeepsOverruns DEF Next
<1> QED BY <1>1, <1>2, MoneyIsFollowed, PTL DEF Spec

(* After an overrun its provider gets no unit, in this run or a later one,     *)
(* until someone acknowledges it; the line that marks the stop is not needed.  *)
THEOREM OverrunsStopTheProvider == Spec => OverrunStops
<1>1. IndInv /\ OverrunKept /\ [Next]_vars
        => [\A p \in Provider :
              unacked[p] /\ inFlight[p] = None => inFlight'[p] = None]_vars
  <2> SUFFICES ASSUME IndInv, OverrunKept, Next, NEW p \in Provider, unacked[p],
                      inFlight[p] = None
               PROVE  inFlight'[p] = None
    OBVIOUS
  <2>0. inFlight \in [Provider -> Unit \union {None}]
    BY DEF IndInv, Types
  <2>1. CASE RunStep
    BY <2>0, <2>1 DEF RunStep, Open, Loaded, Serve, Close, Killed, Closed, StopGrants,
       Interrupt, Acknowledge, Recover, ledgerVars
  <2>2. ASSUME NEW j \in Job, JobStep(j) PROVE inFlight'[p] = None
    <3>1. CASE Grant(j)
      <4>1. ProviderOf[j] # p
        BY <3>1 DEF Grant, MayReserve, HasTurn, OverrunKept, IndInv, Holders
      <4> QED BY <2>0, <3>1, <4>1 DEF Grant, Set
    <3>2. CASE Settle(j) \/ Teardown(j)
      BY <2>0, <3>2 DEF Settle, Teardown, Book, Set, ledgerVars
    <3>3. CASE ~Grant(j) /\ ~Settle(j) /\ ~Teardown(j)
      BY <2>2, <3>3 DEF JobStep, Turn, Ask, Deny, StopAtCap, GrantFails, Charge, Lose, End,
         Cancel, ledgerVars
    <3> QED BY <3>1, <3>2, <3>3
  <2> QED BY <2>1, <2>2 DEF Next
<1> QED BY <1>1, OverrunInvariant, MoneyIsFollowed, PTL DEF Spec, OverrunStops

-----------------------------------------------------------------------------
(* Sums over the providers.                                                  *)

(* Of finite sets, one has no strict subset among them.                      *)
LEMMA MinimalSet ==
  ASSUME NEW F, F # {}, \A A \in F : IsFiniteSet(A)
  PROVE  \E A \in F : \A B \in F : B \subseteq A => B = A
<1> DEFINE S == UNION F
           R == StrictSubsetOrdering(S)
<1>1. IsWellFoundedOn(R, FiniteSubsetsOf(S))
  BY FS_StrictSubsetOrderingWellFounded
<1>2. F \subseteq FiniteSubsetsOf(S)
  BY DEF FiniteSubsetsOf
<1>3. PICK A \in F : \A B \in F : <<B, A>> \notin R
  <2> HIDE DEF R, S
  <2> QED BY <1>1, <1>2, WFMin
<1>4. ASSUME NEW B \in F, B \subseteq A, B # A PROVE FALSE
  <2>1. <<B, A>> \in (SUBSET S) \X (SUBSET S)
    OBVIOUS
  <2> QED BY <1>3, <1>4, <2>1 DEF StrictSubsetOrdering
<1> QED BY <1>4

Picked(s) == CHOOSE x \in s : TRUE

(* it sums f over the subsets of S, one element after the other.              *)
Sums(it, f, S) ==
  /\ it \in [SUBSET S -> Nat]
  /\ \A s \in SUBSET S :
       it[s] = IF s = {} THEN 0 ELSE f[Picked(s)] + it[s \ {Picked(s)}]

(* What SumFunction computes.                                               *)
LEMMA Summed ==
  ASSUME NEW S, IsFiniteSet(S), NEW f \in [S -> Nat]
  PROVE  \E it : Sums(it, f, S) /\ SumFunction(f) = it[S]
<1> DEFINE IsIter(it) ==
      it = [s \in SUBSET S |-> IF s = {} THEN 0 ELSE f[Picked(s)] + it[s \ {Picked(s)}]]
<1>1. SumFunction(f) = (CHOOSE it : IsIter(it))[S]
  BY DEF SumFunction, SumFunctionOnSet, FoldFunctionOnSet, MapThenFoldSet, Picked
<1>2. \A s \in SUBSET S : s # {} => Picked(s) \in s
  BY DEF Picked
<1> DEFINE Until(it, n) ==
      /\ it \in [SUBSET S -> Nat]
      /\ \A s \in SUBSET S : Cardinality(s) <= n =>
           it[s] = IF s = {} THEN 0 ELSE f[Picked(s)] + it[s \ {Picked(s)}]
<1>3. \A s \in SUBSET S :
        /\ IsFiniteSet(s) /\ Cardinality(s) \in Nat
        /\ s # {} => /\ Cardinality(s) # 0
                     /\ Cardinality(s \ {Picked(s)}) = Cardinality(s) - 1
  BY <1>2, FS_Subset, FS_CardinalityType, FS_EmptySet, FS_RemoveElement
<1>4. \A n \in Nat : \E it : Until(it, n)
  <2> DEFINE Missed == {n \in Nat : ~\E it : Until(it, n)}
             F == {0 .. n : n \in Missed}
  <2> SUFFICES ASSUME Missed # {} PROVE FALSE
    OBVIOUS
  <2>1. \A A \in F : IsFiniteSet(A)
    BY FS_Interval
  <2>2. PICK A \in F : \A B \in F : B \subseteq A => B = A
    <3> HIDE DEF Missed
    <3>1. F # {}
      OBVIOUS
    <3> HIDE DEF F
    <3> QED BY <2>1, <3>1, MinimalSet
  <2>3. PICK n \in Missed : A = 0 .. n
    BY <2>2
  <2>4. CASE n = 0
    <3>1. ASSUME NEW s \in SUBSET S, Cardinality(s) <= 0 PROVE s = {}
      <4>1. Cardinality(s) \in Nat
        BY <1>3
      <4>2. Cardinality(s) = 0
        BY <3>1, <4>1
      <4> QED BY <1>3, <4>2
    <3>2. Until([s \in SUBSET S |-> 0], 0)
      BY <3>1
    <3> QED BY <2>3, <2>4, <3>2
  <2>5. CASE n # 0
    <3>1. n \in Nat /\ n - 1 \in Nat /\ 0 .. (n - 1) \subseteq 0 .. n
          /\ n \in 0 .. n /\ n \notin 0 .. (n - 1)
      BY <2>5
    <3>2. n - 1 \notin Missed
      BY <2>2, <2>3, <3>1
    <3>3. PICK it : Until(it, n - 1)
      BY <3>1, <3>2
    <3> DEFINE next == [s \in SUBSET S |->
                          IF s = {} THEN 0 ELSE f[Picked(s)] + it[s \ {Picked(s)}]]
    <3>4. ASSUME NEW s \in SUBSET S, Cardinality(s) <= n, s # {}
          PROVE  next[s] = f[Picked(s)] + next[s \ {Picked(s)}]
      <4> DEFINE rest == s \ {Picked(s)}
      <4>1. rest \in SUBSET S /\ Cardinality(rest) <= n - 1
        BY <1>3, <3>1, <3>4
      <4>2. it[rest] = next[rest]
        BY <3>3, <4>1
      <4> QED BY <3>4, <4>2
    <3>5. next \in [SUBSET S -> Nat]
      BY <1>2, <3>3
    <3>6. Until(next, n)
      BY <3>4, <3>5
    <3> QED BY <2>3, <3>6
  <2> QED BY <2>4, <2>5
<1>5. PICK it : IsIter(it)
  <2>1. Cardinality(S) \in Nat
    BY <1>3
  <2>2. PICK it : Until(it, Cardinality(S))
    BY <1>4, <2>1
  <2>3. \A s \in SUBSET S : Cardinality(s) <= Cardinality(S)
    BY FS_Subset
  <2>4. ASSUME NEW s \in SUBSET S
        PROVE  it[s] = IF s = {} THEN 0 ELSE f[Picked(s)] + it[s \ {Picked(s)}]
    BY <2>2, <2>3
  <2> QED BY <2>2, <2>4
<1> DEFINE chosen == CHOOSE g : IsIter(g)
<1>6. IsIter(chosen)
  <2> HIDE DEF IsIter
  <2> QED BY <1>5
<1>7. SumFunction(f) = chosen[S]
  BY <1>1
<1> HIDE DEF chosen
<1>8. \A s \in SUBSET S : chosen[s] \in Nat
  <2> DEFINE F == {s \in SUBSET S : chosen[s] \notin Nat}
  <2> SUFFICES ASSUME F # {} PROVE FALSE
    OBVIOUS
  <2>1. PICK s \in F : \A t \in F : t \subseteq s => t = s
    <3>1. \A A \in F : IsFiniteSet(A)
      BY <1>3
    <3> HIDE DEF F
    <3> QED BY <3>1, MinimalSet
  <2>2. s # {}
    BY <1>6, <2>1
  <2>3. chosen[s \ {Picked(s)}] \in Nat
    BY <1>2, <2>1, <2>2
  <2>4. chosen[s] = f[Picked(s)] + chosen[s \ {Picked(s)}]
    BY <1>6, <2>1, <2>2
  <2>5. f[Picked(s)] \in Nat
    BY <1>2, <2>1, <2>2
  <2> QED BY <2>1, <2>3, <2>4, <2>5
<1>9. Sums(chosen, f, S)
  BY <1>6, <1>8 DEF Sums
<1> QED BY <1>7, <1>9

(* A sum of naturals is one, and it is zero only of zeroes.                   *)
LEMMA SumNat ==
  ASSUME NEW S, IsFiniteSet(S), NEW f \in [S -> Nat]
  PROVE  SumFunction(f) \in Nat
<1>1. PICK it : Sums(it, f, S) /\ SumFunction(f) = it[S]
  BY Summed
<1> QED BY <1>1 DEF Sums

LEMMA SumZero ==
  ASSUME NEW S, IsFiniteSet(S), NEW f \in [S -> Nat], \A x \in S : f[x] = 0
  PROVE  SumFunction(f) = 0
<1>1. PICK it : Sums(it, f, S) /\ SumFunction(f) = it[S]
  BY Summed
<1> DEFINE F == {s \in SUBSET S : it[s] # 0}
<1> SUFFICES ASSUME F # {} PROVE FALSE
  BY <1>1
<1>2. PICK s \in F : \A t \in F : t \subseteq s => t = s
  <2>1. \A A \in F : IsFiniteSet(A)
    BY FS_Subset
  <2> HIDE DEF F
  <2> QED BY <2>1, MinimalSet
<1>3. s # {}
  BY <1>1, <1>2 DEF Sums
<1>4. Picked(s) \in s
  BY <1>3 DEF Picked
<1>5. it[s \ {Picked(s)}] = 0
  BY <1>2, <1>4
<1> QED BY <1>1, <1>2, <1>3, <1>4, <1>5 DEF Sums

(* Where no term is larger, the sum is not.                                  *)
LEMMA SumAtMost ==
  ASSUME NEW S, IsFiniteSet(S), NEW f \in [S -> Nat], NEW g \in [S -> Nat],
         \A x \in S : f[x] <= g[x]
  PROVE  SumFunction(f) <= SumFunction(g)
<1>1. PICK itF : Sums(itF, f, S) /\ SumFunction(f) = itF[S]
  BY Summed
<1>2. PICK itG : Sums(itG, g, S) /\ SumFunction(g) = itG[S]
  BY Summed
<1> DEFINE F == {s \in SUBSET S : ~(itF[s] <= itG[s])}
<1> SUFFICES ASSUME F # {} PROVE FALSE
  BY <1>1, <1>2
<1>3. PICK s \in F : \A t \in F : t \subseteq s => t = s
  <2>1. \A A \in F : IsFiniteSet(A)
    BY FS_Subset
  <2> HIDE DEF F
  <2> QED BY <2>1, MinimalSet
<1>4. s # {}
  <2>1. itF[{}] = 0 /\ itG[{}] = 0
    BY <1>1, <1>2 DEF Sums
  <2>2. itF[{}] <= itG[{}]
    BY <2>1
  <2> QED BY <1>3, <2>2
<1> DEFINE x == Picked(s)
           rest == s \ {x}
<1>5. x \in s
  BY <1>4 DEF Picked
<1>6. itF[rest] <= itG[rest] /\ rest \in SUBSET S
  BY <1>3, <1>5
<1>7. itF[s] = f[x] + itF[rest] /\ itG[s] = g[x] + itG[rest]
  BY <1>1, <1>2, <1>3, <1>4 DEF Sums
<1>8. /\ itF[rest] \in Nat /\ itG[rest] \in Nat /\ f[x] \in Nat /\ g[x] \in Nat
      /\ f[x] <= g[x]
  BY <1>1, <1>2, <1>3, <1>5, <1>6 DEF Sums
<1> HIDE DEF x, rest
<1>9. itF[s] <= itG[s]
  BY <1>6, <1>7, <1>8
<1> QED BY <1>3, <1>9

(* One changed term changes the sum by its own change.                       *)
LEMMA SumChanged ==
  ASSUME NEW S, IsFiniteSet(S), NEW f \in [S -> Nat], NEW g \in [S -> Nat],
         NEW p \in S, \A x \in S \ {p} : f[x] = g[x]
  PROVE  SumFunction(g) + f[p] = SumFunction(f) + g[p]
<1>1. PICK itF : Sums(itF, f, S) /\ SumFunction(f) = itF[S]
  BY Summed
<1>2. PICK itG : Sums(itG, g, S) /\ SumFunction(g) = itG[S]
  BY Summed
<1> DEFINE Agrees(s) == IF p \in s THEN itG[s] + f[p] = itF[s] + g[p] ELSE itG[s] = itF[s]
           F == {s \in SUBSET S : ~Agrees(s)}
<1> SUFFICES ASSUME F # {} PROVE FALSE
  BY <1>1, <1>2
<1>3. PICK s \in F : \A t \in F : t \subseteq s => t = s
  <2>1. \A A \in F : IsFiniteSet(A)
    BY FS_Subset
  <2> HIDE DEF F
  <2> QED BY <2>1, MinimalSet
<1>4. s # {}
  BY <1>1, <1>2, <1>3 DEF Sums
<1> DEFINE x == Picked(s)
           rest == s \ {x}
<1>5. x \in s
  BY <1>4 DEF Picked
<1>6. Agrees(rest) /\ rest \in SUBSET S
  BY <1>3, <1>5
<1>7. itF[s] = f[x] + itF[rest] /\ itG[s] = g[x] + itG[rest]
  BY <1>1, <1>2, <1>3, <1>4 DEF Sums
<1>8. /\ itF[rest] \in Nat /\ itG[rest] \in Nat /\ f[x] \in Nat /\ g[x] \in Nat
      /\ f[p] \in Nat /\ g[p] \in Nat
  BY <1>1, <1>2, <1>3, <1>5, <1>6 DEF Sums
<1>9. x # p => f[x] = g[x] /\ (p \in rest <=> p \in s)
  BY <1>3, <1>5
<1>10. x = p => p \in s /\ p \notin rest
  BY <1>5
<1> HIDE DEF x, rest
<1>11. Agrees(s)
  <2>1. CASE x = p
    BY <1>6, <1>7, <1>8, <1>10, <2>1
  <2>2. CASE x # p
    BY <1>6, <1>7, <1>8, <1>9, <2>2
  <2> QED BY <2>1, <2>2
<1> QED BY <1>3, <1>11

-----------------------------------------------------------------------------
(* The budget of an invocation.                                              *)

(* What the units in flight hold, and what a provider may have gone over     *)
(* with its last unit.                                                       *)
Holding == [p \in Provider |->
              IF inFlight[p] = None THEN 0 ELSE units[inFlight[p]].bound]
Slack == [p \in Provider |-> IF inFlight[p] = None THEN Margin[p] ELSE 0]

WithinCeiling ==
  /\ ceiling \in Nat \union {None}
  /\ ~Running => ceiling = None
  /\ ceiling # None => SumFunction(spent) + Held <= ceiling + SumFunction(Slack)

LEMMA Sizes ==
  ASSUME IndInv
  PROVE  /\ IsFiniteSet(Provider) /\ spent \in [Provider -> Nat]
         /\ Holding \in [Provider -> Nat] /\ Slack \in [Provider -> Nat]
         /\ Held = SumFunction(Holding)
<1>1. Types
  BY DEF IndInv
<1>2. Holding \in [Provider -> Nat]
  BY <1>1, Constants DEF Holding, Types
<1>3. Slack \in [Provider -> Nat]
  BY Constants DEF Slack
<1> QED BY <1>1, <1>2, <1>3, ProviderAssumption DEF Held, Holding, Types

(* A step that leaves the sums and the ceiling alone.                        *)
LEMMA CeilingFrame ==
  ASSUME IndInv, WithinCeiling, UNCHANGED <<spent, inFlight, ceiling>>,
         Running' \/ phase' = phase,
         \A p \in Provider : inFlight[p] # None =>
           units'[inFlight[p]].bound = units[inFlight[p]].bound
  PROVE  WithinCeiling'
<1>1. Held' = Held
  <2>1. [p \in Provider |-> IF inFlight'[p] = None THEN 0 ELSE units'[inFlight'[p]].bound]
          = [p \in Provider |->
               IF inFlight[p] = None THEN 0 ELSE units[inFlight[p]].bound]
    OBVIOUS
  <2> QED BY <2>1 DEF Held
<1>2. Slack' = Slack
  BY DEF Slack
<1>3. ~Running' => ~Running
  BY DEF Running
<1>4. SumFunction(spent)' = SumFunction(spent) /\ SumFunction(Slack)' = SumFunction(Slack)
  BY <1>2
<1> QED BY <1>1, <1>3, <1>4 DEF WithinCeiling

LEMMA RunWithinCeiling == IndInv /\ WithinCeiling /\ RunStep => WithinCeiling'
<1> SUFFICES ASSUME IndInv, WithinCeiling, RunStep PROVE WithinCeiling'
  OBVIOUS
<1>1. CASE Closed
  BY <1>1 DEF Closed, WithinCeiling, Running
<1>2. CASE Open \/ ((\E p \in Provider, u \in Unit : Recover(p, u)) /\ ~Closed)
  BY <1>2 DEF Open, Recover, WithinCeiling, Running
<1>3. CASE Serve \/ StopGrants \/ Interrupt
  BY <1>3, CeilingFrame DEF Serve, StopGrants, Interrupt, ledgerVars, Running
<1>4. CASE (\E p \in Provider : Acknowledge(p)) /\ ~Closed
  BY <1>4, CeilingFrame DEF Acknowledge
<1>5. CASE Loaded
  <2>1. phase = "recovering" /\ phase' = "open"
    BY <1>5 DEF Loaded
  <2>2. \A p \in Provider : inFlight[p] = None
    BY <2>1 DEF IndInv, Fitted
  <2>3. Held' = 0
    <3>1. Held' = SumFunction([p \in Provider |-> 0])
      BY <1>5, <2>2 DEF Held, Loaded
    <3> QED BY <3>1, Sizes, SumZero
  <2>4. SumFunction(Slack)' \in Nat
    <3>1. Slack' \in [Provider -> Nat]
      BY Constants DEF Slack
    <3> QED BY <3>1, Sizes, SumNat
  <2>5. SumFunction(spent) \in Nat
    BY Sizes, SumNat
  <2>6. PICK b \in Budgets : ceiling' = IF b = None THEN None ELSE SumFunction(spent) + b
    BY <1>5 DEF Loaded
  <2>7. b \in Nat \union {None} /\ spent' = spent
    BY <1>5, BudgetsAssumption DEF Loaded
  <2> QED BY <2>1, <2>3, <2>4, <2>5, <2>6, <2>7 DEF WithinCeiling, Running
<1>6. Closed \/ Open \/ Loaded \/ Serve \/ StopGrants \/ Interrupt
      \/ (\E p \in Provider : Acknowledge(p))
      \/ \E p \in Provider, u \in Unit : Recover(p, u)
  BY DEF RunStep, Close, Killed
<1> QED BY <1>1, <1>2, <1>3, <1>4, <1>5, <1>6

(* A unit goes out only if it fits with all that is in flight.                *)
LEMMA GrantWithinCeiling ==
  ASSUME IndInv, WithinCeiling, NEW j \in Job, Grant(j)
  PROVE  WithinCeiling'
<1> DEFINE p == ProviderOf[j]
<1>1. p \in Provider /\ Types
  BY Constants DEF IndInv
<1>2. PICK u \in Fresh, bound \in 1 .. Margin[p], batch \in BOOLEAN :
        /\ Fits(p, bound)
        /\ units' = Set(units, u, [bound |-> bound, batch |-> batch])
        /\ inFlight' = [inFlight EXCEPT ![p] = u]
  BY DEF Grant, Set
<1>3. lock[p] = None /\ UNCHANGED <<phase, spent, ceiling>>
  BY DEF Grant, MayReserve, HasTurn
<1> HIDE DEF p
<1>4. u \in Unit /\ inFlight[p] = None /\ bound \in Nat
      /\ \A q \in Provider : inFlight[q] \in Unit \union {None} /\ inFlight[q] # u
  BY <1>1, <1>2, <1>3, Constants DEF Fresh, IndInv, Fitted, Types
<1>5. Holding' = [Holding EXCEPT ![p] = bound]
  BY <1>1, <1>2, <1>4, Constants DEF Holding, Types, Set
<1>6. Slack' \in [Provider -> Nat]
  BY Constants DEF Slack
<1>7. SumFunction(Holding') = SumFunction(Holding) + bound
  <2>1. Holding[p] = 0
    BY <1>1, <1>4 DEF Holding
  <2>2. SumFunction(Holding') + Holding[p] = SumFunction(Holding) + Holding'[p]
    <3>1. Holding' \in [Provider -> Nat]
      BY <1>4, <1>5, Sizes
    <3>2. \A x \in Provider \ {p} : Holding[x] = Holding'[x]
      BY <1>5, Sizes
    <3> QED BY <1>1, <3>1, <3>2, Sizes, SumChanged
  <2>3. SumFunction(Holding') \in Nat /\ SumFunction(Holding) \in Nat /\ Holding'[p] = bound
    BY <1>1, <1>4, <1>5, Sizes, SumNat
  <2> QED BY <1>4, <2>1, <2>2, <2>3
<1>8. Held' = SumFunction(Holding')
  BY DEF Held, Holding
<1>9. SumFunction(spent) \in Nat /\ SumFunction(Holding) \in Nat /\ SumFunction(Slack') \in Nat
  BY <1>6, Sizes, SumNat
<1>10. ceiling # None => SumFunction(spent) + Held + bound <= ceiling
  BY <1>2 DEF Fits
<1>11. SumFunction(Slack)' = SumFunction(Slack') /\ SumFunction(spent)' = SumFunction(spent)
  BY <1>3
<1>12. Running' = Running
  BY <1>3 DEF Running
<1> QED
  BY <1>3, <1>4, <1>7, <1>8, <1>9, <1>10, <1>11, <1>12, Sizes DEF WithinCeiling

(* A unit that is over cost at most twice its bound, and its bound is no     *)
(* longer held: what it went over by is within the margin of its provider.   *)
LEMMA BookedWithinCeiling ==
  ASSUME IndInv, WithinCeiling, NEW p \in Provider, inFlight[p] # None,
         NEW booked \in Nat, booked <= 2 * Bound(inFlight[p]),
         spent' = Set(spent, p, spent[p] + booked),
         inFlight' = Set(inFlight, p, None),
         UNCHANGED <<units, phase, ceiling>>
  PROVE  WithinCeiling'
<1> DEFINE b == Bound(inFlight[p])
<1>1. b \in Nat /\ b <= Margin[p] /\ Margin[p] \in Nat
  BY Constants DEF IndInv, Types, Fitted, Bound
<1>2. spent' = [spent EXCEPT ![p] = spent[p] + booked] /\ spent' \in [Provider -> Nat]
  BY Sizes DEF Set
<1>3. SumFunction(spent') = SumFunction(spent) + booked
  <2>1. SumFunction(spent') + spent[p] = SumFunction(spent) + spent'[p]
    BY <1>2, Sizes, SumChanged
  <2>2. spent'[p] = spent[p] + booked /\ spent[p] \in Nat
    BY <1>2, Sizes
  <2>3. SumFunction(spent') \in Nat /\ SumFunction(spent) \in Nat
    BY <1>2, Sizes, SumNat
  <2> QED BY <2>1, <2>2, <2>3
<1>4. /\ Holding' = [Holding EXCEPT ![p] = 0]
      /\ Slack' = [Slack EXCEPT ![p] = Margin[p]]
      /\ Holding[p] = b /\ Slack[p] = 0
  BY DEF Holding, Slack, Set, IndInv, Types, Bound
<1>5. SumFunction(Holding') + b = SumFunction(Holding)
  <2>1. Holding' \in [Provider -> Nat]
    BY <1>4, Sizes
  <2>2. SumFunction(Holding') + Holding[p] = SumFunction(Holding) + Holding'[p]
    <3>1. \A x \in Provider \ {p} : Holding[x] = Holding'[x]
      BY <1>4, Sizes
    <3> QED BY <2>1, <3>1, Sizes, SumChanged
  <2>3. Holding'[p] = 0
    BY <1>4, Sizes
  <2>4. SumFunction(Holding) \in Nat
    BY Sizes, SumNat
  <2> QED BY <1>4, <2>2, <2>3, <2>4
<1>6. SumFunction(Slack') = SumFunction(Slack) + Margin[p]
  <2>1. Slack' \in [Provider -> Nat]
    BY <1>1, <1>4, Sizes
  <2>2. SumFunction(Slack') + Slack[p] = SumFunction(Slack) + Slack'[p]
    <3>1. \A x \in Provider \ {p} : Slack[x] = Slack'[x]
      BY <1>4, Sizes
    <3> QED BY <2>1, <3>1, Sizes, SumChanged
  <2>3. Slack'[p] = Margin[p]
    BY <1>4, Sizes
  <2>4. SumFunction(Slack') \in Nat
    BY <2>1, Sizes, SumNat
  <2> QED BY <1>4, <2>2, <2>3, <2>4
<1>7. /\ SumFunction(spent) \in Nat /\ SumFunction(Slack) \in Nat
      /\ SumFunction(Holding') \in Nat
  <2>1. Holding' \in [Provider -> Nat]
    BY <1>4, Sizes
  <2> QED BY <2>1, Sizes, SumNat
<1>8. Held' = SumFunction(Holding')
  BY DEF Held, Holding
<1>9. /\ SumFunction(Slack)' = SumFunction(Slack')
      /\ SumFunction(spent)' = SumFunction(spent')
  OBVIOUS
<1>10. Running' = Running
  BY DEF Running
<1> HIDE DEF b
<1> QED
  BY <1>1, <1>3, <1>5, <1>6, <1>7, <1>8, <1>9, <1>10, Sizes DEF WithinCeiling, b

(* No booking is above twice the bound.                                      *)
LEMMA AtMostTwice ==
  ASSUME NEW p \in Provider, Types, inFlight[p] \in Unit,
         charge[p] <= 2 * Bound(inFlight[p]),
         NEW b \in Bookings(units[inFlight[p]], charge[p])
  PROVE  b.booked <= 2 * Bound(inFlight[p])
<1> DEFINE bound == units[inFlight[p]].bound
<1>1. charge[p] \in Nat /\ bound \in Nat /\ bound = Bound(inFlight[p])
  BY DEF Types, Bound
<1>2. CASE units[inFlight[p]].batch
  <2> DEFINE flags == {FALSE, charge[p] > 0}
  <2>1. b \in [booked : charge[p] .. 2 * bound, overrun : flags]
    BY <1>2, Zenon DEF Bookings
  <2>2. b.booked \in charge[p] .. 2 * bound
    BY <2>1, Zenon
  <2> QED BY <1>1, <2>2
<1>3. CASE ~units[inFlight[p]].batch
  <2> DEFINE over == charge[p] > bound
  <2>1. \/ b = [booked |-> charge[p], overrun |-> over]
        \/ b = [booked |-> 2 * bound, overrun |-> FALSE]
    BY <1>3, Zenon DEF Bookings
  <2>2. b \in [booked : {charge[p], 2 * bound}, overrun : {over, FALSE}]
    <3>1. [booked |-> charge[p], overrun |-> over]
            \in [booked : {charge[p], 2 * bound}, overrun : {over, FALSE}]
      BY Zenon
    <3>2. [booked |-> 2 * bound, overrun |-> FALSE]
            \in [booked : {charge[p], 2 * bound}, overrun : {over, FALSE}]
      BY Zenon
    <3> QED BY <2>1, <3>1, <3>2, Zenon
  <2>3. b.booked = charge[p] \/ b.booked = 2 * bound
    BY <2>2, Zenon
  <2> QED BY <1>1, <2>3
<1> QED BY <1>2, <1>3

LEMMA SettleWithinCeiling ==
  ASSUME IndInv, WithinCeiling, NEW j \in Job, Settle(j)
  PROVE  WithinCeiling'
<1> DEFINE p == ProviderOf[j]
           u == inFlight[p]
<1>1. /\ p \in Provider /\ Types /\ u \in Unit /\ charge[p] <= 2 * Bound(u)
      /\ UNCHANGED <<units, phase>>
  BY OneHolder DEF Settle, IndInv
<1>2. PICK b \in Bookings(units[u], charge[p]) :
        Book(p, b.booked, b.overrun) \/ UNCHANGED ledgerVars
  BY DEF Settle
<1>3. CASE UNCHANGED ledgerVars
  BY <1>1, <1>3, CeilingFrame DEF ledgerVars
<1>4. CASE Book(p, b.booked, b.overrun)
  <2>1. b.booked \in Nat
    BY <1>1, Booked
  <2>2. b.booked <= 2 * Bound(u)
    BY <1>1, AtMostTwice
  <2>3. u # None
    BY <1>1, Constants
  <2> QED BY <1>1, <1>4, <2>1, <2>2, <2>3, BookedWithinCeiling DEF Book
<1> QED BY <1>2, <1>3, <1>4

LEMMA TeardownWithinCeiling ==
  ASSUME IndInv, WithinCeiling, NEW j \in Job, Teardown(j)
  PROVE  WithinCeiling'
<1> DEFINE p == ProviderOf[j]
           u == inFlight[p]
<1>1. p \in Provider /\ u \in Unit /\ Bound(u) \in Nat /\ UNCHANGED <<units, phase>>
  BY OneHolder DEF Teardown
<1>2. CASE UNCHANGED ledgerVars
  BY <1>1, <1>2, CeilingFrame DEF ledgerVars
<1>3. CASE Book(p, LostBooking(u), FALSE)
  <2>1. LostBooking(u) \in Nat /\ LostBooking(u) <= 2 * Bound(u)
    BY <1>1 DEF LostBooking, Bound
  <2>2. u # None
    BY <1>1, Constants
  <2> QED BY <1>1, <1>3, <2>1, <2>2, BookedWithinCeiling DEF Book
<1> QED BY <1>2, <1>3 DEF Teardown

LEMMA JobWithinCeiling ==
  ASSUME IndInv, WithinCeiling, NEW j \in Job, JobStep(j)
  PROVE  WithinCeiling'
<1>1. CASE Ask(j) \/ Deny(j) \/ StopAtCap(j) \/ Charge(j) \/ Lose(j) \/ End(j) \/ Cancel(j)
  <2>1. UNCHANGED <<units, phase, spent, inFlight, ceiling>>
    BY <1>1 DEF Ask, Deny, StopAtCap, Charge, Lose, End, Cancel, ledgerVars
  <2> QED BY <2>1, CeilingFrame
<1>2. CASE GrantFails(j)
  <2>1. \E u \in Fresh : \E r : units' = Set(units, u, r)
    BY <1>2 DEF GrantFails
  <2>2. PICK u \in Fresh : \E r : units' = Set(units, u, r)
    BY <2>1
  <2>3. \A p \in Provider : inFlight[p] # None => inFlight[p] # u /\ inFlight[p] \in Unit
    BY DEF IndInv, Fitted, Fresh, Types
  <2>4. \A p \in Provider : inFlight[p] # None =>
          units'[inFlight[p]].bound = units[inFlight[p]].bound
    BY <2>2, <2>3 DEF Set, IndInv, Types
  <2> QED BY <1>2, <2>4, CeilingFrame DEF GrantFails, ledgerVars
<1> QED
  BY <1>1, <1>2, GrantWithinCeiling, SettleWithinCeiling, TeardownWithinCeiling
  DEF JobStep, Turn

LEMMA CeilingInvariant == Spec => []WithinCeiling
<1>1. Init => WithinCeiling
  BY DEF Init, WithinCeiling, Running
<1>2. IndInv /\ WithinCeiling /\ [Next]_vars => WithinCeiling'
  <2>1. IndInv /\ WithinCeiling /\ UNCHANGED vars => WithinCeiling'
    BY CeilingFrame DEF vars, ledgerVars
  <2> QED BY <2>1, RunWithinCeiling, JobWithinCeiling DEF Next
<1> QED BY <1>1, <1>2, MoneyIsFollowed, PTL DEF Spec

(* One invocation books at most its budget and one bound of each provider,    *)
(* whatever the providers charge, however many units are lost, and over any   *)
(* number of providers that are at work at the same time.                    *)
THEOREM InvocationsKeepTheirBudget == Spec => []InvocationWithinBudget
<1>1. IndInv /\ WithinCeiling => InvocationWithinBudget
  <2> SUFFICES ASSUME IndInv, WithinCeiling, ceiling # None
               PROVE  SumFunction(spent) <= ceiling + SumFunction(Margin)
    BY DEF InvocationWithinBudget
  <2>1. Margin \in [Provider -> Nat]
    BY CapAssumption
  <2>2. SumFunction(Slack) <= SumFunction(Margin)
    <3>1. \A p \in Provider : Slack[p] <= Margin[p]
      BY <2>1 DEF Slack
    <3> QED BY <2>1, <3>1, Sizes, SumAtMost
  <2>3. /\ SumFunction(spent) \in Nat /\ Held \in Nat /\ SumFunction(Slack) \in Nat
        /\ SumFunction(Margin) \in Nat
    BY <2>1, Sizes, SumNat
  <2> QED BY <2>2, <2>3 DEF WithinCeiling
<1> QED BY <1>1, CeilingInvariant, MoneyIsFollowed, PTL

-----------------------------------------------------------------------------
(* After stop_grants no job gets a unit, not even one that was already        *)
(* waiting for the lock: the stop is looked at under the lock.               *)
THEOREM StoppedMeansStopped == Spec => NoGrantAfterStop
<1>1. IndInv /\ [Next]_vars =>
        [grantsStopped =>
           \A j \in Job : state[j] = "waiting" => state'[j] # "granted"]_vars
  <2> SUFFICES ASSUME IndInv, Next, grantsStopped, NEW j \in Job, state[j] = "waiting"
               PROVE  state'[j] # "granted"
    OBVIOUS
  <2>0. state \in [Job -> States]
    BY DEF IndInv, Types
  <2>1. CASE RunStep
    BY <2>1 DEF RunStep, Open, Loaded, Serve, Close, Killed, Closed, StopGrants, Interrupt,
       Acknowledge, Recover, hostVars
  <2>2. ASSUME NEW k \in Job, JobStep(k) PROVE state'[j] # "granted"
    <3>1. ~Grant(k)
      BY DEF Grant, MayReserve
    <3>2. \E x \in States \ {"granted"} : state' = [state EXCEPT ![k] = x] \/ state' = state
      BY <2>2, <3>1 DEF JobStep, Turn, Ask, Deny, StopAtCap, GrantFails, Charge, Settle,
         Lose, Teardown, End, Cancel, Set, States
    <3> QED BY <2>0, <3>2
  <2> QED BY <2>1, <2>2 DEF Next
<1> QED BY <1>1, MoneyIsFollowed, PTL DEF Spec, NoGrantAfterStop

-----------------------------------------------------------------------------
(* The types that the invariants above do not need.                          *)
Service ==
  /\ queue \in [Provider -> Seq(Job)]
  /\ grantsStopped \in BOOLEAN
  /\ failing \in BOOLEAN

(* A queue without one of its jobs is a queue of jobs.                       *)
LEMMA OneLess ==
  ASSUME NEW s \in Seq(Job), NEW j
  PROVE  RemoveFirst(s, j) \in Seq(Job)
<1> DEFINE I == {i \in 1 .. Len(s) : s[i] = j}
<1>1. CASE I = {}
  BY <1>1 DEF RemoveFirst
<1>2. CASE I # {}
  <2>1. Min(I) \in I
    <3> DEFINE F == {1 .. i : i \in I}
    <3>1. F # {}
      BY <1>2
    <3>2. \A A \in F : IsFiniteSet(A)
      BY FS_Interval
    <3>3. PICK A \in F : \A B \in F : B \subseteq A => B = A
      <4> HIDE DEF F
      <4> QED BY <3>1, <3>2, MinimalSet
    <3>4. PICK i \in I : A = 1 .. i
      OBVIOUS
    <3>5. ASSUME NEW k \in I PROVE i <= k
      <4> SUFFICES ASSUME k < i PROVE FALSE
        OBVIOUS
      <4>1. 1 .. k \in F /\ 1 .. k \subseteq 1 .. i
        OBVIOUS
      <4>2. i \in 1 .. i /\ i \notin 1 .. k
        OBVIOUS
      <4> QED BY <3>3, <3>4, <4>1, <4>2
    <3> HIDE DEF I
    <3> QED BY <3>5 DEF Min
  <2>2. RemoveFirst(s, j) = RemoveAt(s, Min(I))
    BY <1>2 DEF RemoveFirst, SelectInSeq
  <2> HIDE DEF I
  <2>3. Min(I) \in 1 .. Len(s)
    BY <2>1 DEF I
  <2>4. \A i \in 1 .. Len(s) : SubSeq(s, 1, i - 1) \o SubSeq(s, i + 1, Len(s)) \in Seq(Job)
    OBVIOUS
  <2> QED BY <2>2, <2>3, <2>4 DEF RemoveAt
<1> QED BY <1>1, <1>2

LEMMA ServiceKept ==
  ASSUME IndInv, Service, [Next]_vars
  PROVE  Service'
<1>1. CASE RunStep
  <2>1. queue' = queue \/ queue' = [p \in Provider |-> <<>>]
    BY <1>1 DEF RunStep, Open, Loaded, Serve, Close, Killed, Closed, StopGrants,
       Interrupt, Acknowledge, Recover, serviceVars
  <2>2. grantsStopped' \in {grantsStopped, TRUE, FALSE}
    BY <1>1 DEF RunStep, Open, Loaded, Serve, Close, Killed, Closed, StopGrants,
       Interrupt, Acknowledge, Recover, serviceVars
  <2>3. failing' \in {failing, TRUE, FALSE}
    BY <1>1 DEF RunStep, Open, Loaded, Serve, Close, Killed, Closed, StopGrants,
       Interrupt, Acknowledge, Recover, hostVars
  <2>4. queue' \in [Provider -> Seq(Job)]
    <3>1. <<>> \in Seq(Job)
      OBVIOUS
    <3> QED BY <2>1, <3>1 DEF Service
  <2> QED BY <2>2, <2>3, <2>4 DEF Service
<1>2. ASSUME NEW j \in Job, JobStep(j) PROVE Service'
  <2>1. queue' \in {queue, Set(queue, ProviderOf[j], Append(queue[ProviderOf[j]], j))}
        \/ LeavesQueue(j)
    BY <1>2 DEF JobStep, Turn, Ask, Deny, StopAtCap, Grant, GrantFails, Charge, Settle,
       Lose, Teardown, End, Cancel, serviceVars
  <2>2. /\ grantsStopped' = grantsStopped
        /\ failing' \in {failing, TRUE}
    BY <1>2 DEF JobStep, Turn, Ask, Deny, StopAtCap, Grant, GrantFails, Charge, Settle,
       Lose, Teardown, End, Cancel, serviceVars, hostVars
  <2>3. queue' \in [Provider -> Seq(Job)]
    <3> DEFINE q == queue[ProviderOf[j]]
               left == RemoveFirst(q, j)
    <3>1. q \in Seq(Job)
      BY Constants DEF Service
    <3>2. Append(q, j) \in Seq(Job)
      BY <3>1
    <3>3. left \in Seq(Job)
      BY <3>1, OneLess
    <3>4. queue' = queue \/ queue' = [queue EXCEPT ![ProviderOf[j]] = Append(q, j)]
          \/ queue' = [queue EXCEPT ![ProviderOf[j]] = left]
      BY <2>1 DEF LeavesQueue, Set
    <3> HIDE DEF left
    <3> QED BY <3>2, <3>3, <3>4 DEF Service
  <2> QED BY <2>2, <2>3 DEF Service
<1>3. CASE UNCHANGED vars
  BY <1>3 DEF vars, serviceVars, hostVars, Service
<1> QED BY <1>1, <1>2, <1>3 DEF Next

(* Every variable keeps its type.                                            *)
THEOREM TypeCorrect == Spec => []TypeOK
<1>1. Init => Service
  <2> SUFFICES ASSUME Init PROVE Service
    OBVIOUS
  <2>1. <<>> \in Seq(Job)
    OBVIOUS
  <2>2. queue \in [Provider -> Seq(Job)]
    BY <2>1 DEF Init
  <2>3. grantsStopped \in BOOLEAN /\ failing \in BOOLEAN
    BY DEF Init
  <2> QED BY <2>2, <2>3 DEF Service
<1>2. IndInv /\ Service /\ OverrunKept /\ WithinCeiling => TypeOK
  BY DEF TypeOK, IndInv, Types, Service, OverrunKept, WithinCeiling
<1> QED BY <1>1, <1>2, ServiceKept, OverrunInvariant, CeilingInvariant, MoneyIsFollowed,
           PTL DEF Spec
=============================================================================
