--------------------------- MODULE ServingProofs ---------------------------
(***************************************************************************)
(* For any number of servers, generations and requests: type correctness of *)
(* Serving, and the soundness of the persistent cache when index.db does     *)
(* not change between a server's open and its fingerprint.                   *)
(***************************************************************************)
EXTENDS Serving, TLAPS

(* A server that found index.db, or whose child built it, does not miss it   *)
(* when it opens it: nothing between the two takes the name away.            *)
OpenFindsIndex == \A s \in Server : pc[s] = "open" => live # None

(* What is in the cache under a fingerprint came from that build.            *)
RowsTrueToPrint == \A g \in Gen, k \in Key : rows[g][k] \in {None, g}

(* A server with the cache on is bound to the build it has open.             *)
PrintTrueToDb ==
  \A s \in Server :
    /\ pc[s] = "print" => db[s] = live
    /\ pc[s] = "purge" => print[s] = db[s]
    /\ cacheOn[s] => print[s] = db[s]
    /\ pc[s] = "store" => cacheOn[s] /\ answer[s] = db[s] /\ request[s] \in Key
    /\ pc[s] \in {"purge", "ready", "store"} \/ ~cacheOn[s]
    /\ pc[s] \notin {"off", "autobuild", "open"} => db[s] \in Gen
    /\ pc[s] \in {"off", "autobuild", "open"} => answer[s] = None

IndInv ==
  /\ TypeOK
  /\ OpenFindsIndex
  /\ RowsTrueToPrint
  /\ PrintTrueToDb
  /\ AnswerFromOpenIndex

USE DEF IndInv, TypeOK, SlotTypeOK, OpenFindsIndex, RowsTrueToPrint,
        PrintTrueToDb, AnswerFromOpenIndex, MaybeGen, Steps, Goto, NoRows

LEMMA InitInd == Init => IndInv
  BY NoneIsNoGen DEF Init, SlotInit

LEMMA StartupInd ==
  ASSUME IndInv, NEW s \in Server, Startup(s)
  PROVE  IndInv'
<1>1. CASE Start(s)
  BY <1>1 DEF Start, slotVars
<1>2. CASE AutoBuilt(s)
  BY <1>2 DEF AutoBuilt, slotVars
<1>3. CASE AutoBuildFails(s)
  BY <1>3, NoneIsNoGen DEF AutoBuildFails, Exit, slotVars
<1>4. CASE Open(s)
  BY <1>4 DEF Open, slotVars
<1>5. CASE Fingerprint(s)
  BY <1>5 DEF Fingerprint, slotVars
<1>6. CASE Purge(s)
  BY <1>6 DEF Purge, slotVars
<1>7. CASE CacheDisabled(s)
  BY <1>7 DEF CacheDisabled, slotVars
<1> QED
  BY <1>1, <1>2, <1>3, <1>4, <1>5, <1>6, <1>7 DEF Startup

LEMMA GetDocsInd ==
  ASSUME IndInv, NEW s \in Server, GetDocs(s)
  PROVE  IndInv'
<1>1. ASSUME NEW k \in Key, Hit(s, k) PROVE IndInv'
  BY <1>1 DEF Hit, Cached, slotVars
<1>2. ASSUME NEW k \in Key, Miss(s, k) PROVE IndInv'
  BY <1>2 DEF Miss, slotVars
<1>3. CASE Store(s)
  BY <1>3 DEF Store, slotVars
<1>4. CASE StoreFails(s)
  BY <1>4 DEF StoreFails, slotVars
<1> QED
  BY <1>1, <1>2, <1>3, <1>4 DEF GetDocs

(* The slot may move under running servers, but not between open and stat.   *)
LEMMA SlotMovesInd ==
  ASSUME ~SwapsDuringStartup, IndInv, SlotMoves
  PROVE  IndInv'
<1>1. SlotTypeOK' /\ (live # None => live' # None)
  BY NoneIsNoGen DEF SlotMoves, SlotNext, InstallNew, Capture, SaveBackup,
     Discard, RestoreBackup
<1>2. \A s \in Server : pc[s] = "print" => live' = live
  BY DEF SlotMoves
<1> QED
  BY <1>1, <1>2 DEF SlotMoves, serverVars

LEMMA NextInd ==
  ASSUME ~SwapsDuringStartup
  PROVE  IndInv /\ [Next]_vars => IndInv'
<1> SUFFICES ASSUME IndInv, [Next]_vars PROVE IndInv'
  OBVIOUS
<1>1. ASSUME NEW s \in Server, Stop(s) PROVE IndInv'
  BY <1>1, NoneIsNoGen DEF Stop, Exit, slotVars
<1>2. CASE UNCHANGED vars
  BY <1>2 DEF vars, slotVars, serverVars
<1> QED
  BY <1>1, <1>2, StartupInd, GetDocsInd, SlotMovesInd DEF Next

(* The cache is sound: without a publish between open and stat, a server     *)
(* never answers from another index than the one it has open, whatever       *)
(* other servers write to the shared cache (PersistentDocsCache, get_docs).  *)
THEOREM CacheIsSound ==
  ASSUME ~SwapsDuringStartup
  PROVE  Spec => []AnswerFromOpenIndex
<1>1. IndInv /\ [Next]_vars => IndInv'
  BY NextInd
<1>2. IndInv => AnswerFromOpenIndex
  OBVIOUS
<1> HIDE DEF IndInv, AnswerFromOpenIndex
<1> QED
  BY <1>1, <1>2, InitInd, PTL DEF Spec

-----------------------------------------------------------------------------
(* Types, however the slot moves.                                            *)

(* index.db, once there, stays, so what a server opens and stats is a build;  *)
(* only a server with a print has the cache on.                              *)
Bound(s) ==
  /\ pc[s] \in {"open", "print"} => live # None
  /\ pc[s] \in {"purge", "store"} \/ cacheOn[s] => print[s] \in Gen
  /\ pc[s] = "store" => request[s] \in Key

TypeInv == TypeOK /\ \A s \in Server : Bound(s)

LEMMA ServerKeepsTypes ==
  ASSUME TypeInv, NEW s \in Server, Startup(s) \/ GetDocs(s) \/ Stop(s)
  PROVE  TypeInv'
<1> USE DEF TypeInv, Bound, slotVars
<1>1. CASE Start(s)
  BY <1>1 DEF Start
<1>2. CASE AutoBuilt(s)
  BY <1>2 DEF AutoBuilt
<1>3. CASE Exit(s)
  BY <1>3, NoneIsNoGen DEF Exit
<1>4. CASE Open(s)
  BY <1>4 DEF Open
<1>5. CASE Fingerprint(s)
  BY <1>5 DEF Fingerprint
<1>6. CASE Purge(s)
  BY <1>6 DEF Purge
<1>7. CASE CacheDisabled(s)
  BY <1>7 DEF CacheDisabled
<1>8. ASSUME NEW k \in Key, Hit(s, k) PROVE TypeInv'
  BY <1>8 DEF Hit, Cached
<1>9. ASSUME NEW k \in Key, Miss(s, k) PROVE TypeInv'
  BY <1>9 DEF Miss
<1>10. CASE Store(s)
  BY <1>10 DEF Store
<1>11. CASE StoreFails(s)
  BY <1>11 DEF StoreFails
<1> QED
  BY <1>1, <1>2, <1>3, <1>4, <1>5, <1>6, <1>7, <1>8, <1>9, <1>10, <1>11
     DEF Startup, GetDocs, AutoBuildFails, Stop

(* Every variable of any servers holds a value of its kind, also when index.db *)
(* changes between a server's open and its stat.                             *)
THEOREM TypeCorrect == Spec => []TypeOK
<1>1. Init => TypeInv
  BY NoneIsNoGen DEF TypeInv, Bound, Init, SlotInit
<1>2. TypeInv /\ [Next]_vars => TypeInv'
  <2> SUFFICES ASSUME TypeInv, [Next]_vars PROVE TypeInv'
    OBVIOUS
  <2>1. CASE SlotMoves
    <3>1. SlotTypeOK' /\ (live # None => live' # None)
      BY <2>1, NoneIsNoGen DEF TypeInv, SlotMoves, SlotNext, InstallNew, Capture,
         SaveBackup, Discard, RestoreBackup
    <3> QED BY <2>1, <3>1 DEF TypeInv, Bound, SlotMoves, serverVars
  <2>2. CASE UNCHANGED vars
    BY <2>2 DEF TypeInv, Bound, vars, slotVars, serverVars
  <2> QED BY <2>1, <2>2, ServerKeepsTypes DEF Next
<1>3. TypeInv => TypeOK
  BY DEF TypeInv
<1> HIDE DEF TypeOK
<1> QED BY <1>1, <1>2, <1>3, PTL DEF Spec
=============================================================================
