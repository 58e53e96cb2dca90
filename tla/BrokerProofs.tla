----------------------------- MODULE BrokerProofs -----------------------------
(* Proofs about BrokerSetup, for any number of Apps and of open forms, and      *)
(* about Broker, for any commits, contents, pushes and installs, and any       *)
(* positive limits.                                                          *)
EXTENDS Broker, TLAPS

-----------------------------------------------------------------------------
(* Setting up the Apps.                                                      *)

(* A callback that has stored its key is the one whose key is there.         *)
StoredKeyIsThere == \A c \in callbacks : c.stored => pem[c.role] = c.app

Installed(r) == Registered(r) /\ installation[r]

(* What a step of activate rests on, the work of the steps before.           *)
Progress ==
  /\ command \in {"verifier", "check", "tags", "token"} => Installed("owner")
  /\ command \in {"check", "tags", "token"} => Installed("verifier")
  /\ command \in {"tags", "token"} => checkApp = json["verifier"]
  /\ command = "token" => tagApp = json["owner"]

Complete == \/ token
            \/ /\ Installed("owner") /\ Installed("verifier")
               /\ checkApp = json["verifier"]
               /\ tagApp = json["owner"]

Marked == /\ activated => command = "none" /\ Complete
          /\ command = "mark" => Complete

SetupInv == /\ SetupTypeOK
            /\ KeyMatchesIdentity
            /\ StoredKeyIsThere
            /\ Progress
            /\ Marked

(* Nothing is registered, installed or marked at first.                      *)
LEMMA SetupInitInv == SetupInit => SetupInv
<1> SUFFICES ASSUME SetupInit PROVE SetupInv
  OBVIOUS
<1>1. SetupTypeOK
  <2>1. forms \in [Role -> 0 .. MaxForms]
    BY AppAssumption DEF SetupInit
  <2>2. installation \in [Role -> BOOLEAN]
    BY DEF SetupInit
  <2>3. token \in BOOLEAN /\ activated \in BOOLEAN
    BY DEF SetupInit
  <2>4. /\ pem \in [Role -> App \union {None}]
        /\ json \in [Role -> App \union {None}]
    BY DEF SetupInit
  <2> QED BY <2>1, <2>2, <2>3, <2>4 DEF SetupInit, SetupTypeOK
<1>2. KeyMatchesIdentity /\ StoredKeyIsThere /\ Progress /\ Marked
  BY DEF SetupInit, KeyMatchesIdentity, StoredKeyIsThere, Progress, Marked, Registered
<1> QED BY <1>1, <1>2 DEF SetupInv

(* Whatever the setup server does, an identity keeps its key and stays what   *)
(* it was when it was written.                                               *)
LEMMA RegistrationKeepsInv == ASSUME SetupInv, RegistrationStep PROVE SetupInv'
<1> USE DEF SetupInv, Role
<1>1. CASE ShowForms
  <2>1. forms' \in [Role -> 0 .. MaxForms]
    BY <1>1, AppAssumption DEF ShowForms, SetupTypeOK
  <2> QED
    BY <1>1, <2>1 DEF ShowForms, SetupTypeOK, KeyMatchesIdentity, StoredKeyIsThere,
          Progress, Marked, Complete, Installed, Registered, binding, modeVars
<1>2. CASE ServerStops
  BY <1>2, AppAssumption DEF ServerStops, SetupTypeOK, KeyMatchesIdentity,
        StoredKeyIsThere, Progress, Marked, Complete, Installed, Registered, binding,
        modeVars
<1>3. ASSUME NEW r \in Role, Callback(r) PROVE SetupInv'
  <2>1. forms' \in [Role -> 0 .. MaxForms]
    <3>1. forms[r] \in 0 .. MaxForms /\ forms[r] > 0
      BY <1>3 DEF Callback, SetupTypeOK
    <3>2. forms[r] - 1 \in 0 .. MaxForms
      BY <3>1, AppAssumption
    <3> QED BY <1>3, <3>2 DEF Callback, SetupTypeOK
  <2>2. /\ callbacks' \subseteq Callbacks
        /\ \A c \in callbacks' : c \in callbacks \/ ~c.stored
    <3>1. CASE Registered(r)
      BY <1>3, <3>1 DEF Callback, SetupTypeOK
    <3>2. CASE ~Registered(r)
      <4> PICK a \in New :
            callbacks' = callbacks \union {[role |-> r, app |-> a, stored |-> FALSE]}
        BY <1>3, <3>2 DEF Callback
      <4> a \in App
        BY DEF New
      <4>1. [role |-> r, app |-> a, stored |-> FALSE] \in Callbacks
        BY DEF Callbacks
      <4>2. callbacks' \subseteq Callbacks
        BY <4>1 DEF SetupTypeOK
      <4>3. \A c \in callbacks' : c \in callbacks \/ ~c.stored
        OBVIOUS
      <4> QED BY <4>2, <4>3
    <3> QED BY <3>1, <3>2
  <2> QED
    BY <1>3, <2>1, <2>2 DEF Callback, SetupTypeOK, KeyMatchesIdentity, StoredKeyIsThere,
          Progress, Marked, Complete, Installed, Registered, binding, modeVars
<1>4. ASSUME NEW c \in callbacks, StoreKey(c) \/ CallbackFails(c) \/ StoreIdentity(c)
      PROVE SetupInv'
  <2> c \in Callbacks /\ c.role \in Role /\ c.app \in App /\ c.app # None
    BY AppAssumption DEF SetupTypeOK, Callbacks
  <2>1. CASE StoreKey(c) /\ pem[c.role] = None
    <3>1. pem' = [pem EXCEPT ![c.role] = c.app]
          /\ callbacks' = (callbacks \ {c}) \union {[c EXCEPT !.stored = TRUE]}
      BY <2>1 DEF StoreKey
    <3>2. ~Registered(c.role)
      BY <2>1 DEF KeyMatchesIdentity, Registered
    <3>3. SetupTypeOK'
      BY <2>1, <3>1 DEF StoreKey, SetupTypeOK, Callbacks, binding, modeVars
    <3>4. StoredKeyIsThere'
      <4> SUFFICES ASSUME NEW d \in callbacks', d.stored PROVE pem'[d.role] = d.app
        BY DEF StoredKeyIsThere
      <4>1. CASE d = [c EXCEPT !.stored = TRUE]
        BY <3>1, <4>1 DEF SetupTypeOK, Callbacks
      <4>2. CASE d \in callbacks /\ d # [c EXCEPT !.stored = TRUE]
        BY <3>1, <4>2, <2>1, AppAssumption DEF SetupTypeOK, Callbacks, StoredKeyIsThere
      <4> QED BY <3>1, <4>1, <4>2
    <3> QED
      BY <2>1, <3>1, <3>2, <3>3, <3>4 DEF StoreKey, SetupTypeOK, KeyMatchesIdentity,
            Progress, Marked, Complete, Installed, Registered, binding, modeVars
  <2>2. CASE CallbackFails(c) \/ (StoreKey(c) /\ pem[c.role] # None)
    BY <2>2 DEF StoreKey, CallbackFails, Drop, SetupTypeOK, KeyMatchesIdentity,
          StoredKeyIsThere, Progress, Marked, Complete, Installed, Registered, binding,
          modeVars
  <2>3. CASE StoreIdentity(c)
    <3>1. json' = [json EXCEPT ![c.role] = c.app] /\ pem[c.role] = c.app
          /\ callbacks' \subseteq callbacks
      BY <2>3 DEF StoreIdentity, StoredKeyIsThere, Drop
    <3>2. \A r \in Role : Registered(r) => json'[r] = json[r]
      BY <3>1 DEF KeyMatchesIdentity, Registered, SetupTypeOK
    <3>3. SetupTypeOK' /\ KeyMatchesIdentity' /\ StoredKeyIsThere'
      BY <2>3, <3>1 DEF StoreIdentity, SetupTypeOK, KeyMatchesIdentity, StoredKeyIsThere,
            Registered, binding, modeVars
    <3>4. \A r \in Role : Installed(r) => Installed(r)' /\ json'[r] = json[r]
      BY <2>3, <3>2 DEF StoreIdentity, Installed, Registered, binding
    <3>5. UNCHANGED <<command, activated, token, checkApp, tagApp>>
      BY <2>3 DEF StoreIdentity, binding, modeVars
    <3>6. Progress'
      BY <3>4, <3>5 DEF Progress
    <3>7. Complete => Complete'
      BY <3>4, <3>5 DEF Complete
    <3> QED
      BY <3>3, <3>5, <3>6, <3>7 DEF Marked
  <2> QED BY <1>4, <2>1, <2>2, <2>3
<1> QED BY <1>1, <1>2, <1>3, <1>4 DEF RegistrationStep

(* No step of a command marks what the steps before it have not completed.   *)
LEMMA CommandKeepsInv == ASSUME SetupInv, CommandStep PROVE SetupInv'
<1> USE DEF SetupInv, Role, SetupTypeOK, KeyMatchesIdentity, StoredKeyIsThere, Progress,
            Marked, Complete, Installed, Registered, registration, binding, modeVars, Goto
<1>1. CASE Activate
  BY <1>1 DEF Activate
<1>2. CASE CheckRole("owner", "verifier")
  BY <1>2 DEF CheckRole
<1>3. CASE CheckRole("verifier", "check")
  BY <1>3 DEF CheckRole
<1>4. CASE BindCheck
  BY <1>4 DEF BindCheck
<1>5. CASE BindTags
  BY <1>5 DEF BindTags
<1>6. CASE RemoveToken
  BY <1>6 DEF RemoveToken
<1>7. CASE Mark
  BY <1>7 DEF Mark
<1>8. CASE EnableTemporary
  BY <1>8 DEF EnableTemporary
<1>9. CASE StoreToken
  BY <1>9 DEF StoreToken
<1>10. CASE CommandStops
  BY <1>10 DEF CommandStops
<1>11. CASE Deactivate
  BY <1>11 DEF Deactivate
<1> QED
  BY <1>1, <1>2, <1>3, <1>4, <1>5, <1>6, <1>7, <1>8, <1>9, <1>10, <1>11 DEF CommandStep

LEMMA SetupStutters == ASSUME SetupInv, UNCHANGED setupVars PROVE SetupInv'
BY DEF setupVars, SetupInv, SetupTypeOK, KeyMatchesIdentity, StoredKeyIsThere, Progress,
       Marked, Complete, Installed, Registered

LEMMA SetupKeepsInv == ASSUME SetupInv, [SetupNext]_setupVars PROVE SetupInv'
BY RegistrationKeepsInv, CommandKeepsInv, SetupStutters DEF SetupNext

LEMMA SetupInvImplies == SetupInv => ActivatedIsComplete
BY DEF SetupInv, Marked, Complete, Installed, ActivatedIsComplete, Role

-----------------------------------------------------------------------------
(* The broker's operations.                                                  *)

Operations == [kind : Kinds, pc : Steps, head : Head, base : Base, policy : Policy,
               apps : BOOLEAN, result : Results, passed : BOOLEAN]

ReceiptRecord == [status : {"none", "in_progress", "success", "failure", "torn"},
             policy : Policy \union {None}]
Checks == [base : Base \union {None}, passed : BOOLEAN]
Circuits == [rejections : Nat, failures : Nat, cooling : BOOLEAN, torn : BOOLEAN]
Tries == [rejections : Nat, failures : Nat]

(* What the types rest on: main has one commit left for the merge.           *)
MayMerge == pr.open => main <= MaxMain

BrokerTypeOK ==
  /\ main \in Base
  /\ pr \in [head : Head, open : BOOLEAN]
  /\ ci \in {"failed", "running"}
  /\ refs \subseteq Head /\ thread \in {"open", "resolved"}
  /\ checks \in [Head -> Checks]
  /\ policy \in Policy /\ installing \in BOOLEAN
  /\ receipts \in [Head \X Base -> ReceiptRecord]
  /\ verdicts \subseteq [of : Verdicts, whole : BOOLEAN]
  /\ circuits \in [Key -> Circuits]
  /\ reruns \in [attempts : 0 .. RerunLimit, cooling : BOOLEAN, torn : BOOLEAN]
  /\ op \in {NoOp} \union Operations
  /\ approvals \subseteq Head \X Base
  /\ tried \in [Key -> Tries]
  /\ posts \in Nat
  /\ MayMerge

LEMMA TypeInit == Init => BrokerTypeOK
<1> SUFFICES ASSUME Init PROVE BrokerTypeOK
  OBVIOUS
<1> USE BrokerAssumption DEF Init
<1>1. main \in Base /\ MayMerge /\ policy \in Policy
  BY DEF Base, MayMerge, Policy
<1>2. pr \in [head : Head, open : BOOLEAN] /\ refs \subseteq Head
  OBVIOUS
<1>3. checks \in [Head -> Checks]
  BY DEF Checks
<1>4. receipts \in [Head \X Base -> ReceiptRecord]
  BY DEF ReceiptRecord
<1>5. circuits \in [Key -> Circuits] /\ tried \in [Key -> Tries]
  BY DEF Circuits, Tries
<1>6. reruns \in [attempts : 0 .. RerunLimit, cooling : BOOLEAN, torn : BOOLEAN]
  OBVIOUS
<1> QED BY <1>1, <1>2, <1>3, <1>4, <1>5, <1>6 DEF BrokerTypeOK

(* An operation under way, and the moves it makes.                           *)
LEMMA OperationType ==
  ASSUME BrokerTypeOK, op.pc \in Steps
  PROVE  /\ op \in Operations
         /\ <<op.head, op.base>> \in Head \X Base
         /\ CircuitKey(op.policy) \in Key /\ CircuitKey(policy) \in Key
BY DEF BrokerTypeOK, NoOp, Steps, Operations, CircuitKey, Key, Tree, Policy

(* A rejection or a failure is counted for the content under review.         *)
LEMMA CountedType ==
  ASSUME BrokerTypeOK, op.pc \in Steps, NEW r \in Nat, NEW f \in Nat
  PROVE  /\ Counted(r, f) => circuits' \in [Key -> Circuits]
         /\ Tried(r, f) => tried' \in [Key -> Tries]
<1>1. circuits[CircuitKey(op.policy)] \in Circuits /\ tried[CircuitKey(op.policy)] \in Tries
  BY OperationType DEF BrokerTypeOK
<1>2. Counted(r, f) => circuits' \in [Key -> Circuits]
  BY <1>1, OperationType DEF Counted, Circuits, BrokerTypeOK
<1>3. Tried(r, f) => tried' \in [Key -> Tries]
  BY <1>1, OperationType DEF Tried, Tries, BrokerTypeOK
<1> QED BY <1>2, <1>3

LEMMA StartType ==
  ASSUME BrokerTypeOK, NEW kind \in Kinds, NEW pc \in Steps, NEW h \in Head
  PROVE  Operation(kind, pc, h) \in Operations
BY DEF BrokerTypeOK, Operation, Operations, Results

LEMMA ReviewTypes == ASSUME BrokerTypeOK, ReviewStep PROVE BrokerTypeOK'
<1> USE OperationType DEF BrokerTypeOK, At, MayMerge, github, installer, history
<1>1. CASE UseVerdict \/ Refuse
  <2>1. op.pc \in Steps
    BY <1>1 DEF UseVerdict, Refuse, Steps
  <2>2. op' \in Operations
    BY <1>1, <2>1 DEF UseVerdict, Refuse, Operations, Steps, Results, Answer
  <2> QED BY <1>1, <2>2 DEF UseVerdict, Refuse
<1>2. CASE StartReview
  <2>1. op.pc \in Steps
    BY <1>2 DEF StartReview, Steps
  <2>2. op' \in Operations
    BY <1>2, <2>1 DEF StartReview, Operations, Steps
  <2> QED BY <1>2, <2>2 DEF StartReview
<1>3. CASE Approve
  <2>1. op.pc \in Steps
    BY <1>3 DEF Approve, Steps
  <2>2. op' \in Operations
    BY <1>3, <2>1 DEF Approve, Operations, Steps, Results, CleanUp
  <2>3. [of |-> Verdict(op.policy), whole |-> TRUE] \in [of : Verdicts, whole : BOOLEAN]
    BY <2>1 DEF Verdict, Verdicts, Operations
  <2> QED BY <1>3, <2>2, <2>3 DEF Approve
<1>4. CASE Reject
  <2>1. op.pc \in Steps
    BY <1>4 DEF Reject, Steps
  <2>2. op' \in Operations
    BY <1>4, <2>1 DEF Reject, Operations, Steps, Results, CleanUp
  <2>3. circuits' \in [Key -> Circuits]
    BY <1>4, <2>1, CountedType DEF Reject
  <2>4. tried' \in [Key -> Tries]
    BY <1>4, <2>1, CountedType DEF Reject
  <2> QED BY <1>4, <2>2, <2>3, <2>4 DEF Reject
<1>5. CASE ReviewFails
  <2>1. op.pc \in Steps
    BY <1>5 DEF ReviewFails, Steps
  <2>2. op' \in Operations
    BY <1>5, <2>1 DEF ReviewFails, Operations, Steps, Results, CleanUp
  <2>3. circuits' \in [Key -> Circuits]
    BY <1>5, <2>1, CountedType DEF ReviewFails
  <2>4. tried' \in [Key -> Tries]
    BY <1>5, <2>1, CountedType DEF ReviewFails
  <2> QED BY <1>5, <2>2, <2>3, <2>4 DEF ReviewFails
<1>6. CASE Cleaned
  <2>1. op.pc \in Steps
    BY <1>6 DEF Cleaned, Steps
  <2>2. op' \in Operations
    BY <1>6, <2>1 DEF Cleaned, Operations, Steps, Results, Answer
  <2>3. approvals' \subseteq Head \X Base
    BY <1>6, <2>1 DEF Cleaned, Held
  <2> QED BY <1>6, <2>2, <2>3 DEF Cleaned
<1>7. CASE CleanupFails
  <2>1. op.pc \in Steps
    BY <1>7 DEF CleanupFails, Steps
  <2>2. op' \in Operations
    BY <1>7, <2>1 DEF CleanupFails, Operations, Steps, Results, Answer
  <2>3. circuits' \in [Key -> Circuits]
    BY <1>7, <2>1, CountedType DEF CleanupFails
  <2> QED BY <1>7, <2>2, <2>3 DEF CleanupFails
<1> QED BY <1>1, <1>2, <1>3, <1>4, <1>5, <1>6, <1>7 DEF ReviewStep

LEMMA OperationTypes == ASSUME BrokerTypeOK, OperationStep PROVE BrokerTypeOK'
<1> USE OperationType DEF BrokerTypeOK, At, MayMerge, github, installer, history
<1>1. ASSUME NEW h \in Head, Verify(h) PROVE BrokerTypeOK'
  <2>1. op' \in Operations
    BY <1>1, StartType DEF Verify, Kinds, Steps
  <2>2. Receipt("in_progress") \in ReceiptRecord
    BY DEF Receipt, ReceiptRecord
  <2> QED BY <1>1, <2>1, <2>2 DEF Verify
<1>2. ASSUME NEW h \in Head, Publish(h) PROVE BrokerTypeOK'
  <2>1. op' \in Operations
    BY <1>2, StartType DEF Publish, Kinds, Steps
  <2> QED BY <1>2, <2>1 DEF Publish
<1>3. ASSUME NEW h \in Head, Gate("merge", h) \/ Gate("resolve", h) PROVE BrokerTypeOK'
  <2>1. Operation("merge", "act", h) \in Operations
        /\ Operation("resolve", "act", h) \in Operations
    BY StartType DEF Kinds, Steps
  <2>2. op' \in Operations
    BY <1>3, <2>1 DEF Gate, Operations
  <2> QED BY <1>3, <2>2 DEF Gate
<1>4. CASE PostCheck
  <2>1. op.pc \in Steps
    BY <1>4 DEF PostCheck, Steps
  <2>2. op' \in Operations
    BY <1>4, <2>1 DEF PostCheck, Operations, Steps
  <2>3. [base |-> op.base, passed |-> FALSE] \in Checks
    BY <2>1 DEF Checks
  <2> QED BY <1>4, <2>1, <2>2, <2>3 DEF PostCheck
<1>5. CASE WriteReceipt
  <2>1. op.pc \in Steps
    BY <1>5 DEF WriteReceipt, Steps
  <2>2. PICK passed \in {Stands, FALSE} :
          /\ receipts' = [receipts EXCEPT ![<<op.head, op.base>>].status =
                            IF passed THEN "success" ELSE "failure"]
          /\ op' = IF op.apps THEN [op EXCEPT !.pc = "report", !.passed = passed] ELSE NoOp
    BY <1>5 DEF WriteReceipt
  <2>3. passed \in BOOLEAN
    BY DEF Stands
  <2>4. op' \in {NoOp} \union Operations
    BY <2>1, <2>2, <2>3 DEF Operations, Steps
  <2>5. receipts' \in [Head \X Base -> ReceiptRecord]
    BY <2>1, <2>2 DEF ReceiptRecord
  <2> QED BY <1>5, <2>4, <2>5 DEF WriteReceipt
<1>6. CASE Report
  <2>1. op.pc \in Steps
    BY <1>6 DEF Report, Steps
  <2>2. op.passed \in BOOLEAN
    BY <2>1 DEF Operations
  <2>3. checks' \in [Head -> Checks]
    BY <1>6, <2>1, <2>2 DEF Report, Checks
  <2> QED BY <1>6, <2>3 DEF Report, End
<1>7. CASE Push
  <2>1. op.pc \in Steps
    BY <1>7 DEF Push, Steps
  <2>2. pr' \in [head : Head, open : BOOLEAN] /\ pr'.open = pr.open
    BY <1>7, <2>1 DEF Push
  <2> QED BY <1>7, <2>1, <2>2 DEF Push, End
<1>8. CASE Merge
  <2>1. main + 1 \in Base
    BY <1>8, BrokerAssumption DEF Merge, IsCurrent, Base
  <2>2. pr' \in [head : Head, open : BOOLEAN] /\ ~pr'.open
    BY <1>8 DEF Merge
  <2> QED BY <1>8, <2>1, <2>2 DEF Merge, End
<1>9. CASE ResolveThread
  BY <1>9 DEF ResolveThread, End
<1>10. CASE Rerun
  <2>1. op' \in Operations
    BY <1>10, StartType, BrokerAssumption DEF Rerun, Kinds, Steps
  <2>2. reruns' \in [attempts : 0 .. RerunLimit, cooling : BOOLEAN, torn : BOOLEAN]
    <3>1. reruns.attempts + 1 \in 0 .. RerunLimit
      BY <1>10, BrokerAssumption DEF Rerun
    <3>2. reruns' = [reruns EXCEPT !.attempts = @ + 1, !.cooling = TRUE]
      BY <1>10 DEF Rerun
    <3> QED BY <3>1, <3>2
  <2> QED BY <1>10, <2>1, <2>2 DEF Rerun
<1>11. CASE SendRerun
  BY <1>11 DEF SendRerun, End
<1> QED
  BY <1>1, <1>2, <1>3, <1>4, <1>5, <1>6, <1>7, <1>8, <1>9, <1>10, <1>11
     DEF OperationStep

LEMMA AroundTypes == ASSUME BrokerTypeOK, Around PROVE BrokerTypeOK'
<1> USE DEF BrokerTypeOK, At, MayMerge, github, installer, history
<1>1. CASE Stop \/ KilledWriting
  <2>1. op.pc \in Steps
    BY <1>1 DEF Stop, KilledWriting, Steps, Operations
  <2>2. approvals' \subseteq Head \X Base
    BY <1>1, <2>1, OperationType DEF Stop, KilledWriting, Held
  <2>3. CASE Stop
    BY <2>2, <2>3 DEF Stop, End
  <2>4. CASE KilledWriting
    <3>1. receipts' \in [Head \X Base -> ReceiptRecord]
      <4>1. ASSUME receipts' = [receipts EXCEPT ![<<op.head, op.base>>].status = "torn"]
            PROVE  receipts' \in [Head \X Base -> ReceiptRecord]
        BY <4>1, <2>1, OperationType DEF ReceiptRecord
      <4> QED BY <2>4, <4>1 DEF KilledWriting
    <3>2. [of |-> Verdict(op.policy), whole |-> FALSE] \in [of : Verdicts, whole : BOOLEAN]
      BY <2>1, OperationType DEF Verdict, Verdicts, Operations
    <3>3. verdicts' \subseteq [of : Verdicts, whole : BOOLEAN]
      BY <2>4, <3>2 DEF KilledWriting
    <3>4. circuits' \in [Key -> Circuits]
      <4>1. ASSUME circuits' = [circuits EXCEPT ![CircuitKey(op.policy)].torn = TRUE]
            PROVE  circuits' \in [Key -> Circuits]
        BY <4>1, <2>1, OperationType DEF Circuits
      <4> QED BY <2>4, <4>1 DEF KilledWriting, Torn
    <3>5. reruns' \in [attempts : 0 .. RerunLimit, cooling : BOOLEAN, torn : BOOLEAN]
      BY <2>4 DEF KilledWriting
    <3>6. tried' \in [Key -> Tries]
      <4>1. Tried(0, 1) \/ Tried(1, 0) \/ UNCHANGED tried
        BY <2>4 DEF KilledWriting
      <4> QED BY <2>1, <4>1, CountedType
    <3>7. UNCHANGED <<github, installer, posts>> /\ op' = NoOp
      BY <2>4 DEF KilledWriting, End
    <3> QED BY <2>2, <3>1, <3>3, <3>4, <3>5, <3>6, <3>7
  <2> QED BY <1>1, <2>3, <2>4
<1>2. CASE CoolDown
  <2>1. circuits' \in [Key -> Circuits]
    <3>1. ASSUME NEW k \in Key, circuits' = [circuits EXCEPT ![k].cooling = FALSE]
          PROVE  circuits' \in [Key -> Circuits]
      BY <3>1 DEF Circuits
    <3> QED BY <1>2, <3>1 DEF CoolDown
  <2>2. reruns' \in [attempts : 0 .. RerunLimit, cooling : BOOLEAN, torn : BOOLEAN]
    BY <1>2 DEF CoolDown
  <2> QED BY <1>2, <2>1, <2>2 DEF CoolDown
<1>3. CASE PushMain
  <2>1. main + 1 \in Base /\ main + 1 <= MaxMain
    BY <1>3, BrokerAssumption DEF PushMain, Base
  <2> QED BY <1>3, <2>1 DEF PushMain
<1>4. CASE PushHead
  <2>1. pr' \in [head : Head, open : BOOLEAN] /\ pr'.open = pr.open
    BY <1>4 DEF PushHead
  <2> QED BY <1>4, <2>1 DEF PushHead
<1>5. CASE CIFails
  BY <1>5 DEF CIFails
<1>6. CASE Install
  <2>1. policy + 1 \in Policy
    BY <1>6, BrokerAssumption DEF Install, Policy
  <2> QED BY <1>6, <2>1 DEF Install
<1>7. CASE EndInstall
  BY <1>7 DEF EndInstall
<1> QED BY <1>1, <1>2, <1>3, <1>4, <1>5, <1>6, <1>7 DEF Around

-----------------------------------------------------------------------------
(* Approvals.                                                                *)

Approved(h, b) == <<h, b>> \in approvals

(* A verdict that can be read is that of an approval that stands, or of the   *)
(* review whose account is being cleaned.                                    *)
VerdictsHold ==
  \A v \in verdicts :
    v.whole => \/ Approved(v.of.head, v.of.base)
               \/ At("cleanup") /\ op.result = "approved" /\ v.of = Verdict(op.policy)

(* So are receipts and checks that let something be done.                    *)
ReceiptsHold ==
  \A k \in Head \X Base : receipts[k].status = "success" => k \in approvals

ChecksHold ==
  \A h \in Head : checks[h].passed = TRUE => Approved(h, checks[h].base)

(* An operation that is about to use an approval has one.                    *)
OperationHolds ==
  /\ At("answer") /\ op.result = "approved" => Approved(op.head, op.base)
  /\ At("report") /\ op.passed = TRUE => Approved(op.head, op.base)
  /\ At("act") => Approved(op.head, op.base)

(* The check an operation reports on is the one it posted.                   *)
OwnCheck ==
  /\ op.pc \in Steps \ {"act"} /\ op.apps = TRUE => checks[op.head].base = op.base
  /\ At("report") => op.apps = TRUE

ApprovalInv ==
  VerdictsHold /\ ReceiptsHold /\ ChecksHold /\ OperationHolds /\ OwnCheck

LEMMA ApprovalInit == Init => ApprovalInv
BY DEF Init, ApprovalInv, VerdictsHold, ReceiptsHold, ChecksHold, OperationHolds, OwnCheck,
       At, NoOp, Steps

LEMMA ReviewApproves == ASSUME BrokerTypeOK, ApprovalInv, ReviewStep PROVE ApprovalInv'
<1> USE DEF ApprovalInv, OperationHolds, OwnCheck, At, Approved, github, history
<1> DEFINE Under == op.pc \in Steps /\ op \in Operations
<1>1. CASE UseVerdict
  <2>1. Under
    BY <1>1, OperationType DEF UseVerdict, Steps
  <2>2. PICK v \in verdicts :
          /\ v.of = Verdict(policy)
          /\ Answer(IF v.whole THEN "approved" ELSE "infrastructure")
    BY <1>1 DEF UseVerdict
  <2>3. op' = [op EXCEPT !.pc = "answer",
                         !.result = IF v.whole THEN "approved" ELSE "infrastructure"]
    BY <2>2 DEF Answer
  <2>4. v.whole => Approved(op.head, op.base)
    BY <2>2, <1>1 DEF UseVerdict, VerdictsHold, Verdict
  <2> QED
    BY <1>1, <2>1, <2>3, <2>4
       DEF UseVerdict, VerdictsHold, ReceiptsHold, ChecksHold, Operations, Steps
<1>2. CASE Refuse
  <2>1. Under
    BY <1>2, OperationType DEF Refuse, Steps
  <2>2. op' = [op EXCEPT !.pc = "answer", !.result = op'.result]
        /\ op'.result \in {"rejection", "infrastructure"}
    BY <1>2, <2>1 DEF Refuse, Answer, Operations
  <2> QED
    BY <1>2, <2>1, <2>2
       DEF Refuse, VerdictsHold, ReceiptsHold, ChecksHold, Operations, Steps
<1>3. CASE StartReview
  <2>1. Under
    BY <1>3, OperationType DEF StartReview, Steps
  <2>2. PICK pc \in {"running", "failed"} : op' = [op EXCEPT !.pc = pc, !.policy = policy]
    BY <1>3 DEF StartReview
  <2> QED
    BY <1>3, <2>1, <2>2
       DEF StartReview, VerdictsHold, ReceiptsHold, ChecksHold, Operations, Steps
<1>4. CASE Approve
  <2>1. Under
    BY <1>4, OperationType DEF Approve, Steps
  <2>2. op' = [op EXCEPT !.pc = "cleanup", !.result = "approved"]
    BY <1>4 DEF Approve, CleanUp
  <2>3. VerdictsHold'
    BY <1>4, <2>1, <2>2 DEF Approve, VerdictsHold, Verdict, Operations
  <2> QED
    BY <1>4, <2>1, <2>2, <2>3 DEF Approve, ReceiptsHold, ChecksHold, Operations, Steps
<1>5. CASE Reject \/ ReviewFails
  <2>1. Under
    BY <1>5, OperationType DEF Reject, ReviewFails, Steps
  <2>2. PICK result \in Results :
          op' = [op EXCEPT !.pc = "cleanup", !.result = result]
    BY <1>5 DEF Reject, ReviewFails, CleanUp, Results
  <2>3. op.pc \in {"running", "failed"}
    BY <1>5 DEF Reject, ReviewFails
  <2>4. UNCHANGED <<verdicts, receipts, checks, approvals>>
    BY <1>5 DEF Reject, ReviewFails
  <2> QED
    BY <2>1, <2>2, <2>3, <2>4
       DEF VerdictsHold, ReceiptsHold, ChecksHold, Operations, Steps
<1>6. CASE Cleaned
  <2>1. Under
    BY <1>6, OperationType DEF Cleaned, Steps
  <2>2. op' = [op EXCEPT !.pc = "answer", !.result = op.result]
    BY <1>6 DEF Cleaned, Answer
  <2>3. /\ approvals \subseteq approvals'
        /\ op.result = "approved" => <<op.head, op.base>> \in approvals'
    BY <1>6 DEF Cleaned, Held
  <2>4. VerdictsHold'
    BY <1>6, <2>3 DEF Cleaned, VerdictsHold, Verdict
  <2> QED
    BY <1>6, <2>1, <2>2, <2>3, <2>4 DEF Cleaned, ReceiptsHold, ChecksHold, Operations, Steps
<1>7. CASE CleanupFails
  <2>1. Under
    BY <1>7, OperationType DEF CleanupFails, Steps
  <2>2. op' = [op EXCEPT !.pc = "answer", !.result = "infrastructure"]
    BY <1>7 DEF CleanupFails, Answer
  <2>3. VerdictsHold'
    BY <1>7, <2>1, <2>2 DEF CleanupFails, VerdictsHold
  <2> QED
    BY <1>7, <2>1, <2>2, <2>3
       DEF CleanupFails, ReceiptsHold, ChecksHold, Operations, Steps
<1> QED BY <1>1, <1>2, <1>3, <1>4, <1>5, <1>6, <1>7 DEF ReviewStep

LEMMA OperationApproves == ASSUME BrokerTypeOK, ApprovalInv, OperationStep PROVE ApprovalInv'
<1> USE DEF ApprovalInv, OperationHolds, OwnCheck, At, Approved, github, history
<1> DEFINE Under == op.pc \in Steps /\ op \in Operations
<1>1. ASSUME NEW h \in Head, Verify(h) PROVE ApprovalInv'
  <2>1. op = NoOp /\ op' = Operation("verify", "post", h)
    BY <1>1 DEF Verify, Free
  <2>2. receipts' = [receipts EXCEPT ![<<h, main>>] = Receipt("in_progress")]
    BY <1>1 DEF Verify
  <2>3. ReceiptsHold'
    BY <1>1, <2>2 DEF Verify, ReceiptsHold, Receipt, BrokerTypeOK
  <2> QED
    BY <1>1, <2>1, <2>3 DEF Verify, VerdictsHold, ChecksHold, NoOp, Operation, Steps
<1>2. ASSUME NEW h \in Head, Publish(h) PROVE ApprovalInv'
  BY <1>2 DEF Publish, Free, VerdictsHold, ReceiptsHold, ChecksHold, NoOp, Operation, Steps
<1>3. ASSUME NEW h \in Head, Gate("merge", h) \/ Gate("resolve", h) PROVE ApprovalInv'
  <2>1. op = NoOp /\ op'.pc = "act" /\ op'.head = h /\ op'.base = main
    BY <1>3 DEF Gate, Free, Operation
  <2>2. Approved(h, main)
    BY <1>3, BrokerTypeOK DEF Gate, Verified, ReceiptsHold, ChecksHold, BrokerTypeOK
  <2> QED
    BY <1>3, <2>1, <2>2 DEF Gate, VerdictsHold, ReceiptsHold, ChecksHold, NoOp, Steps
<1>4. CASE PostCheck
  <2>1. Under
    BY <1>4, OperationType DEF PostCheck, Steps
  <2>2. op' = [op EXCEPT !.pc = "review", !.apps = ~token]
    BY <1>4 DEF PostCheck
  <2>3. CASE token
    <3>1. op'.apps = FALSE /\ UNCHANGED checks
      BY <1>4, <2>1, <2>2, <2>3 DEF PostCheck, Operations
    <3> QED
      BY <1>4, <2>1, <2>2, <3>1
         DEF PostCheck, VerdictsHold, ReceiptsHold, ChecksHold, Operations, Steps
  <2>4. CASE ~token
    <3>1. checks' = [checks EXCEPT ![op.head] = [base |-> op.base, passed |-> FALSE]]
      BY <1>4, <2>4 DEF PostCheck
    <3>2. ChecksHold' /\ checks'[op.head].base = op.base
      BY <1>4, <2>1, <3>1 DEF PostCheck, ChecksHold, Operations, BrokerTypeOK
    <3> QED
      BY <1>4, <2>1, <2>2, <3>2
         DEF PostCheck, VerdictsHold, ReceiptsHold, Operations, Steps
  <2> QED BY <2>3, <2>4
<1>5. CASE WriteReceipt
  <2>1. Under /\ op.pc = "answer"
    BY <1>5, OperationType DEF WriteReceipt, Steps
  <2>2. PICK passed \in {Stands, FALSE} :
          /\ receipts' = [receipts EXCEPT ![<<op.head, op.base>>].status =
                            IF passed THEN "success" ELSE "failure"]
          /\ op' = IF op.apps THEN [op EXCEPT !.pc = "report", !.passed = passed] ELSE NoOp
    BY <1>5 DEF WriteReceipt
  <2>3. passed => Approved(op.head, op.base)
    BY <2>1, <2>2 DEF Stands
  <2>4. ReceiptsHold'
    <3> SUFFICES ASSUME NEW k \in Head \X Base, receipts'[k].status = "success"
                 PROVE  k \in approvals
      BY <1>5 DEF WriteReceipt, ReceiptsHold
    <3>1. CASE k = <<op.head, op.base>>
      <4>1. receipts'[k].status = IF passed THEN "success" ELSE "failure"
        BY <2>2, <3>1 DEF BrokerTypeOK, ReceiptRecord
      <4> QED BY <2>3, <3>1, <4>1
    <3>2. CASE k # <<op.head, op.base>>
      BY <2>2, <3>2 DEF BrokerTypeOK, ReceiptsHold
    <3> QED BY <3>1, <3>2
  <2>5. CASE op' = NoOp
    BY <1>5, <2>1, <2>4, <2>5 DEF WriteReceipt, VerdictsHold, ChecksHold, NoOp, Steps
  <2>6. CASE op.apps = TRUE /\ op' = [op EXCEPT !.pc = "report", !.passed = passed]
    <3>1. /\ op'.pc = "report" /\ op'.head = op.head /\ op'.base = op.base
          /\ op'.passed = passed
      BY <2>1, <2>6 DEF Operations
    <3>2. UNCHANGED <<verdicts, checks, approvals>>
      BY <1>5 DEF WriteReceipt
    <3>3. OperationHolds' /\ OwnCheck'
      BY <2>1, <2>3, <2>6, <3>1, <3>2
    <3>4. VerdictsHold' /\ ChecksHold'
      BY <2>1, <3>2 DEF VerdictsHold, ChecksHold
    <3> QED BY <2>4, <3>3, <3>4
  <2> QED BY <2>1, <2>2, <2>5, <2>6 DEF Operations
<1>6. CASE Report
  <2>1. Under /\ op.pc = "report" /\ op' = NoOp
    BY <1>6, OperationType DEF Report, Steps, End
  <2>2. checks' = [checks EXCEPT ![op.head].passed = op.passed]
    BY <1>6 DEF Report
  <2>3. ChecksHold'
    <3> SUFFICES ASSUME NEW h \in Head, checks'[h].passed = TRUE
                 PROVE  <<h, checks'[h].base>> \in approvals
      BY <1>6 DEF Report, ChecksHold
    <3>1. checks'[h].base = checks[h].base
      BY <2>2 DEF BrokerTypeOK, Checks
    <3>2. CASE h # op.head
      BY <2>2, <3>1, <3>2 DEF BrokerTypeOK, ChecksHold
    <3>3. CASE h = op.head
      <4>1. op.passed = TRUE
        BY <2>1, <2>2, <3>3 DEF BrokerTypeOK, Checks
      <4>2. checks[op.head].base = op.base
        BY <2>1 DEF Steps
      <4> QED BY <2>1, <3>1, <3>3, <4>1, <4>2
    <3> QED BY <3>2, <3>3
  <2> QED
    BY <1>6, <2>1, <2>3 DEF Report, VerdictsHold, ReceiptsHold, NoOp, Steps
<1>7. CASE Push \/ Merge \/ ResolveThread \/ SendRerun
  <2>1. op.pc \in {"answer", "act", "rerun"} /\ op' = NoOp
    BY <1>7 DEF Push, Merge, ResolveThread, SendRerun, End
  <2>2. UNCHANGED <<verdicts, receipts, checks, approvals>>
    BY <1>7 DEF Push, Merge, ResolveThread, SendRerun
  <2> QED BY <2>1, <2>2 DEF VerdictsHold, ReceiptsHold, ChecksHold, NoOp, Steps
<1>8. CASE Rerun
  BY <1>8 DEF Rerun, Free, VerdictsHold, ReceiptsHold, ChecksHold, NoOp, Operation, Steps
<1> QED BY <1>1, <1>2, <1>3, <1>4, <1>5, <1>6, <1>7, <1>8 DEF OperationStep

LEMMA AroundApproves == ASSUME BrokerTypeOK, ApprovalInv, Around PROVE ApprovalInv'
<1> USE DEF ApprovalInv, OperationHolds, OwnCheck, At, Approved, github, history
<1>1. CASE Stop \/ KilledWriting
  <2>1. op' = NoOp /\ approvals' = Held /\ UNCHANGED checks
    BY <1>1 DEF Stop, KilledWriting, End
  <2>2. \A v \in verdicts : v.whole => Approved(v.of.head, v.of.base)'
    BY <2>1 DEF VerdictsHold, Held, Verdict
  <2>3. \A v \in verdicts' : v \in verdicts \/ v.whole = FALSE
    BY <1>1 DEF Stop, KilledWriting
  <2>4. \A k \in Head \X Base :
          receipts'[k].status = "success" => receipts[k].status = "success"
    <3>1. ASSUME receipts' = [receipts EXCEPT ![<<op.head, op.base>>].status = "torn"],
                 NEW k \in Head \X Base, receipts'[k].status = "success"
          PROVE  receipts[k].status = "success"
      BY <3>1 DEF BrokerTypeOK, ReceiptRecord
    <3> QED BY <1>1, <3>1 DEF Stop, KilledWriting
  <2>5. approvals \subseteq approvals'
    BY <2>1 DEF Held
  <2>6. VerdictsHold'
    BY <2>2, <2>3 DEF VerdictsHold
  <2> QED
    BY <2>1, <2>4, <2>5, <2>6 DEF ReceiptsHold, ChecksHold, NoOp, Steps
<1>2. CASE \/ CoolDown \/ PushMain \/ PushHead \/ CIFails \/ Install \/ EndInstall
  <2>1. UNCHANGED <<receipts, checks, approvals, op>> /\ verdicts' \subseteq verdicts
    BY <1>2 DEF CoolDown, PushMain, PushHead, CIFails, Install, EndInstall
  <2>2. VerdictsHold'
    BY <2>1 DEF VerdictsHold, Verdict
  <2> QED BY <2>1, <2>2 DEF ReceiptsHold, ChecksHold
<1> QED BY <1>1, <1>2 DEF Around

(* What is published, merged or triaged is what the operation has an          *)
(* approval for.                                                             *)
LEMMA ActsApproved ==
  ASSUME BrokerTypeOK, ApprovalInv, BrokerStep, Acts
  PROVE  <<op.head, op.base>> \in approvals
<1>1. Push \/ Merge \/ ResolveThread
  <2>1. CASE ReviewStep
    BY <2>1 DEF Acts, ReviewStep, UseVerdict, Refuse, StartReview, Approve, Reject,
                ReviewFails, Cleaned, CleanupFails, github
  <2>2. CASE OperationStep
    BY <2>2 DEF Acts, OperationStep, Verify, Publish, Gate, PostCheck, WriteReceipt, Report,
                Rerun, SendRerun, github
  <2>3. CASE Around
    <3>1. CASE PushHead
      BY <3>1 DEF PushHead, Acts, BrokerTypeOK
    <3>2. CASE Stop \/ KilledWriting \/ CoolDown \/ PushMain \/ CIFails \/ Install
               \/ EndInstall
      BY <3>2 DEF Acts, Stop, KilledWriting, CoolDown, PushMain, CIFails, Install,
                  EndInstall, github
    <3> QED BY <2>3, <3>1, <3>2 DEF Around
  <2> QED BY <2>1, <2>2, <2>3 DEF BrokerStep
<1>2. CASE Push
  BY <1>2 DEF Push, Stands, At, ApprovalInv, OperationHolds, Approved
<1>3. CASE Merge \/ ResolveThread
  BY <1>3 DEF Merge, ResolveThread, At, ApprovalInv, OperationHolds, Approved
<1> QED BY <1>1, <1>2, <1>3

-----------------------------------------------------------------------------
(* Retries.                                                                  *)

(* The circuits count at least what the reviewer was given, until one is torn, *)
(* which blocks for good.                                                    *)
TriesCounted ==
  \A k \in Key :
    /\ \/ circuits[k].torn
       \/ /\ tried[k].rejections <= circuits[k].rejections
          /\ tried[k].failures <= circuits[k].failures
    /\ tried[k].rejections <= RejectionLimit
    /\ tried[k].failures <= InfraLimit

(* A review that is under way was let through by its circuit.                *)
LetThrough ==
  op.pc \in {"running", "failed"} =>
    /\ ~circuits[CircuitKey(op.policy)].torn
    /\ circuits[CircuitKey(op.policy)].rejections < RejectionLimit
    /\ circuits[CircuitKey(op.policy)].failures < InfraLimit

(* Every request that was sent, or is about to be, is on record.             *)
PostsCounted == posts + (IF At("rerun") THEN 1 ELSE 0) <= reruns.attempts

CountInv == TriesCounted /\ LetThrough /\ PostsCounted

LEMMA CountInit == Init => CountInv
<1> SUFFICES ASSUME Init PROVE CountInv
  OBVIOUS
<1>1. TriesCounted
  BY BrokerAssumption DEF Init, TriesCounted
<1>2. LetThrough /\ PostsCounted
  BY DEF Init, LetThrough, PostsCounted, At, NoOp
<1> QED BY <1>1, <1>2 DEF CountInv

(* One more outcome of a review that was let through is within the limits.   *)
LEMMA TriedLimits ==
  ASSUME BrokerTypeOK, TriesCounted, LetThrough, op.pc \in {"running", "failed"},
         NEW r \in {0, 1}, NEW f \in {0, 1}, Tried(r, f), NEW k \in Key
  PROVE  /\ tried'[k].rejections <= RejectionLimit
         /\ tried'[k].failures <= InfraLimit
         /\ k # CircuitKey(op.policy) => tried'[k] = tried[k]
         /\ k = CircuitKey(op.policy) =>
              /\ ~circuits[k].torn
              /\ tried'[k].rejections <= circuits[k].rejections + r
              /\ tried'[k].failures <= circuits[k].failures + f
<1>1. circuits[k] \in Circuits /\ tried[k] \in Tries
  BY DEF BrokerTypeOK
<1>2. CASE k # CircuitKey(op.policy)
  <2>1. tried'[k] = tried[k]
    BY <1>2 DEF Tried, BrokerTypeOK
  <2> QED BY <1>2, <2>1 DEF TriesCounted
<1>3. CASE k = CircuitKey(op.policy)
  <2>1. /\ tried'[k].rejections = tried[k].rejections + r
        /\ tried'[k].failures = tried[k].failures + f
    BY <1>3 DEF Tried, BrokerTypeOK
  <2>2. /\ ~circuits[k].torn
        /\ circuits[k].rejections < RejectionLimit /\ circuits[k].failures < InfraLimit
    BY <1>3 DEF LetThrough
  <2>3. /\ tried[k].rejections <= circuits[k].rejections
        /\ tried[k].failures <= circuits[k].failures
    BY <2>2 DEF TriesCounted
  <2> QED BY <1>1, <1>3, <2>1, <2>2, <2>3, BrokerAssumption DEF Circuits, Tries
<1> QED BY <1>2, <1>3

LEMMA TriedCounted ==
  ASSUME BrokerTypeOK, TriesCounted, LetThrough, op.pc \in {"running", "failed"},
         NEW r \in {0, 1}, NEW f \in {0, 1}, Counted(r, f), Tried(r, f)
  PROVE  TriesCounted'
<1> SUFFICES ASSUME NEW k \in Key
             PROVE  /\ \/ circuits'[k].torn
                       \/ /\ tried'[k].rejections <= circuits'[k].rejections
                          /\ tried'[k].failures <= circuits'[k].failures
                    /\ tried'[k].rejections <= RejectionLimit
                    /\ tried'[k].failures <= InfraLimit
  BY DEF TriesCounted
<1>1. CASE k # CircuitKey(op.policy)
  <2>1. circuits'[k] = circuits[k] /\ tried'[k] = tried[k]
    BY <1>1 DEF Counted, Tried, BrokerTypeOK
  <2> QED BY <2>1 DEF TriesCounted
<1>2. CASE k = CircuitKey(op.policy)
  <2>1. /\ circuits'[k].rejections = circuits[k].rejections + r
        /\ circuits'[k].failures = circuits[k].failures + f
    BY <1>2 DEF Counted, BrokerTypeOK
  <2> QED BY <1>2, <2>1, TriedLimits
<1> QED BY <1>1, <1>2

(* Nor does an outcome that is lost as it is written down exceed them.        *)
LEMMA TornCounted ==
  ASSUME BrokerTypeOK, TriesCounted, LetThrough, op.pc \in {"running", "failed"},
         NEW r \in {0, 1}, NEW f \in {0, 1}, Torn, Tried(r, f)
  PROVE  TriesCounted'
<1> SUFFICES ASSUME NEW k \in Key
             PROVE  /\ \/ circuits'[k].torn
                       \/ /\ tried'[k].rejections <= circuits'[k].rejections
                          /\ tried'[k].failures <= circuits'[k].failures
                    /\ tried'[k].rejections <= RejectionLimit
                    /\ tried'[k].failures <= InfraLimit
  BY DEF TriesCounted
<1>1. CASE k # CircuitKey(op.policy)
  <2>1. circuits'[k] = circuits[k] /\ tried'[k] = tried[k]
    BY <1>1 DEF Torn, Tried, BrokerTypeOK
  <2> QED BY <2>1 DEF TriesCounted
<1>2. CASE k = CircuitKey(op.policy)
  <2>1. circuits'[k].torn
    BY <1>2 DEF Torn, BrokerTypeOK, Circuits
  <2> QED BY <2>1, TriedLimits
<1> QED BY <1>1, <1>2

LEMMA ReviewCounts == ASSUME BrokerTypeOK, CountInv, ReviewStep PROVE CountInv'
<1> USE DEF CountInv, LetThrough, PostsCounted, At, history
<1> DEFINE Under == op.pc \in Steps /\ op \in Operations
<1>1. CASE UseVerdict \/ Refuse
  <2>1. Under /\ op.pc = "review" /\ op'.pc = "answer"
    BY <1>1, OperationType DEF UseVerdict, Refuse, Steps, Answer, Operations
  <2> QED BY <1>1, <2>1 DEF UseVerdict, Refuse, TriesCounted
<1>2. CASE StartReview
  <2>1. Under /\ op.pc = "review"
    BY <1>2, OperationType DEF StartReview, Steps
  <2>2. /\ \E pc \in {"running", "failed"} :
             op' = [op EXCEPT !.pc = pc, !.policy = policy]
        /\ UNCHANGED <<circuits, tried, posts, reruns>>
    BY <1>2 DEF StartReview
  <2>3. /\ op'.policy = policy /\ op'.base = op.base /\ op'.head = op.head
        /\ op'.pc \in {"running", "failed"}
    BY <2>1, <2>2 DEF Operations
  <2>4. circuits[CircuitKey(policy)] \in Circuits
    BY <2>1, OperationType DEF BrokerTypeOK
  <2>5. LetThrough'
    BY <1>2, <2>2, <2>3, <2>4, BrokerAssumption
       DEF StartReview, Blocked, Circuit, CircuitKey, Circuits
  <2> QED BY <2>1, <2>2, <2>3, <2>5 DEF TriesCounted
<1>3. CASE Approve
  <2>1. Under /\ op.pc = "running" /\ op'.pc = "cleanup"
    BY <1>3, OperationType DEF Approve, Steps, CleanUp, Operations
  <2> QED BY <1>3, <2>1 DEF Approve, TriesCounted
<1>4. CASE Reject \/ ReviewFails
  <2>1. Under /\ op.pc \in {"running", "failed"} /\ op'.pc = "cleanup"
    BY <1>4, OperationType DEF Reject, ReviewFails, Steps, CleanUp, Operations
  <2>2. PICK r \in {0, 1}, f \in {0, 1} : Counted(r, f) /\ Tried(r, f)
    BY <1>4 DEF Reject, ReviewFails
  <2>3. TriesCounted'
    BY <2>1, <2>2, TriedCounted
  <2>4. UNCHANGED <<posts, reruns>>
    BY <1>4 DEF Reject, ReviewFails
  <2> QED BY <2>1, <2>3, <2>4
<1>5. CASE Cleaned
  <2>1. Under /\ op.pc = "cleanup" /\ op'.pc = "answer"
    BY <1>5, OperationType DEF Cleaned, Steps, Answer, Operations
  <2> QED BY <1>5, <2>1 DEF Cleaned, TriesCounted
<1>6. CASE CleanupFails
  <2>1. Under /\ op.pc = "cleanup" /\ op'.pc = "answer"
    BY <1>6, OperationType DEF CleanupFails, Steps, Answer, Operations
  <2>2. Counted(0, 1) /\ UNCHANGED <<tried, posts, reruns>>
    BY <1>6 DEF CleanupFails
  <2>3. TriesCounted'
    <3> SUFFICES ASSUME NEW k \in Key, ~circuits'[k].torn
                 PROVE  /\ tried[k].rejections <= circuits'[k].rejections
                        /\ tried[k].failures <= circuits'[k].failures
      BY <2>2 DEF TriesCounted
    <3>1. circuits[k] \in Circuits /\ tried[k] \in Tries
      BY DEF BrokerTypeOK
    <3>2. /\ circuits'[k].rejections >= circuits[k].rejections
          /\ circuits'[k].failures >= circuits[k].failures
          /\ circuits'[k].torn = circuits[k].torn
      BY <2>2, <3>1 DEF Counted, BrokerTypeOK, Circuits
    <3>3. circuits'[k] \in Circuits
      BY <2>1, <2>2, CountedType
    <3> QED BY <3>1, <3>2, <3>3 DEF TriesCounted, Circuits, Tries
  <2> QED BY <2>1, <2>2, <2>3
<1> QED BY <1>1, <1>2, <1>3, <1>4, <1>5, <1>6 DEF ReviewStep

LEMMA OperationCounts == ASSUME BrokerTypeOK, CountInv, OperationStep PROVE CountInv'
<1> USE DEF CountInv, LetThrough, PostsCounted, At, history
<1>1. CASE Rerun
  <2>1. op' = Operation("rerun", "rerun", Opened) /\ op = NoOp
    BY <1>1 DEF Rerun, Free
  <2>2. reruns' = [reruns EXCEPT !.attempts = @ + 1, !.cooling = TRUE]
    BY <1>1 DEF Rerun
  <2>3. PostsCounted'
    BY <1>1, <2>1, <2>2 DEF Rerun, Operation, NoOp, BrokerTypeOK
  <2> QED BY <1>1, <2>1, <2>3 DEF Rerun, TriesCounted, Operation
<1>2. CASE SendRerun
  <2>1. op' = NoOp /\ op.pc = "rerun" /\ posts' = posts + 1
        /\ UNCHANGED <<reruns, circuits, tried>>
    BY <1>2 DEF SendRerun, End
  <2> QED BY <2>1 DEF TriesCounted, NoOp, BrokerTypeOK
<1>3. ASSUME \/ \E h \in Head : \/ Verify(h) \/ Publish(h)
                                \/ Gate("merge", h) \/ Gate("resolve", h)
             \/ PostCheck \/ WriteReceipt \/ Report \/ Push \/ Merge \/ ResolveThread
      PROVE  CountInv'
  <2>1. UNCHANGED <<reruns, circuits, tried, posts>>
    BY <1>3 DEF Verify, Publish, Gate, PostCheck, WriteReceipt, Report, Push, Merge,
                ResolveThread
  <2>2. op.pc # "rerun" /\ op'.pc \notin {"running", "failed", "rerun"}
    <3>1. CASE \E h \in Head : \/ Verify(h) \/ Publish(h)
                               \/ Gate("merge", h) \/ Gate("resolve", h)
      BY <3>1 DEF Verify, Publish, Gate, Free, Operation, NoOp
    <3>2. CASE PostCheck
      <4>1. op.pc = "post" /\ op \in Operations
        BY <3>2, OperationType DEF PostCheck, Steps
      <4> QED BY <3>2, <4>1 DEF PostCheck, Operations
    <3>3. CASE WriteReceipt
      <4>1. op.pc = "answer" /\ op \in Operations
        BY <3>3, OperationType DEF WriteReceipt, Steps
      <4>2. op' = NoOp \/ op'.pc = "report"
        BY <3>3, <4>1 DEF WriteReceipt, Operations
      <4> QED BY <4>1, <4>2 DEF NoOp
    <3>4. CASE Report \/ Push \/ Merge \/ ResolveThread
      BY <3>4 DEF Report, Push, Merge, ResolveThread, End, NoOp
    <3> QED BY <1>3, <3>1, <3>2, <3>3, <3>4
  <2> QED BY <2>1, <2>2 DEF TriesCounted
<1> QED BY <1>1, <1>2, <1>3 DEF OperationStep

LEMMA AroundCounts == ASSUME BrokerTypeOK, CountInv, Around PROVE CountInv'
<1> USE DEF CountInv, LetThrough, PostsCounted, At, history
<1>1. CASE Stop \/ KilledWriting
  <2>1. op' = NoOp /\ UNCHANGED posts
    BY <1>1 DEF Stop, KilledWriting, End
  <2>2. reruns'.attempts = reruns.attempts
    BY <1>1 DEF Stop, KilledWriting, BrokerTypeOK
  <2>3. TriesCounted'
    <3>1. CASE UNCHANGED <<circuits, tried>>
      BY <3>1 DEF TriesCounted
    <3>2. CASE Torn /\ UNCHANGED tried
      <4>1. \A k \in Key : circuits'[k].torn \/ circuits'[k] = circuits[k]
        BY <3>2 DEF Torn, BrokerTypeOK, Circuits
      <4> QED BY <3>2, <4>1 DEF TriesCounted
    <3>3. CASE Torn /\ op.pc \in {"running", "failed"} /\ (Tried(0, 1) \/ Tried(1, 0))
      BY <3>3, TornCounted
    <3> QED BY <1>1, <3>1, <3>2, <3>3 DEF Stop, KilledWriting
  <2> QED BY <2>1, <2>2, <2>3 DEF NoOp, BrokerTypeOK
<1>2. CASE CoolDown
  <2>1. UNCHANGED <<tried, posts, op>>
    BY <1>2 DEF CoolDown
  <2>2. reruns'.attempts = reruns.attempts
    BY <1>2 DEF CoolDown, BrokerTypeOK
  <2>3. \A k \in Key : /\ circuits'[k].rejections = circuits[k].rejections
                       /\ circuits'[k].failures = circuits[k].failures
                       /\ circuits'[k].torn = circuits[k].torn
    <3>1. ASSUME NEW j \in Key, circuits' = [circuits EXCEPT ![j].cooling = FALSE]
          PROVE  \A k \in Key : /\ circuits'[k].rejections = circuits[k].rejections
                                /\ circuits'[k].failures = circuits[k].failures
                                /\ circuits'[k].torn = circuits[k].torn
      BY <3>1 DEF BrokerTypeOK, Circuits
    <3> QED BY <1>2, <3>1 DEF CoolDown
  <2>4. op.pc \in {"running", "failed"} => CircuitKey(op.policy) \in Key
    BY OperationType DEF Steps
  <2>5. LetThrough'
    BY <2>1, <2>3, <2>4 DEF CircuitKey
  <2>6. TriesCounted'
    BY <2>1, <2>3 DEF TriesCounted
  <2> QED BY <2>1, <2>2, <2>5, <2>6
<1>3. CASE \/ PushMain \/ PushHead \/ CIFails \/ Install \/ EndInstall
  BY <1>3 DEF PushMain, PushHead, CIFails, Install, EndInstall,
              TriesCounted, CircuitKey, github
<1> QED BY <1>1, <1>2, <1>3 DEF Around

-----------------------------------------------------------------------------
(* The theorems.                                                             *)

BrokerInv == SetupInv /\ BrokerTypeOK /\ ApprovalInv /\ CountInv

LEMMA InitInv == Init => BrokerInv
BY SetupInitInv, TypeInit, ApprovalInit, CountInit DEF Init, BrokerInv

LEMMA BrokerStepSetup == ASSUME BrokerStep PROVE UNCHANGED setupVars
<1>1. CASE ReviewStep
  BY <1>1 DEF ReviewStep, UseVerdict, Refuse, StartReview, Approve, Reject, ReviewFails,
              Cleaned, CleanupFails
<1>2. CASE OperationStep
  BY <1>2 DEF OperationStep, Verify, Publish, Gate, PostCheck, WriteReceipt, Report, Push,
              Merge, ResolveThread, Rerun, SendRerun
<1>3. CASE Around
  BY <1>3 DEF Around, Stop, KilledWriting, CoolDown, PushMain, PushHead, CIFails, Install,
              EndInstall
<1> QED BY <1>1, <1>2, <1>3 DEF BrokerStep

brokerVars == <<github, installer, receipts, verdicts, circuits, reruns, op, history>>

LEMMA BrokerStutters ==
  ASSUME BrokerTypeOK, ApprovalInv, CountInv, UNCHANGED brokerVars
  PROVE  BrokerTypeOK' /\ ApprovalInv' /\ CountInv'
<1>1. UNCHANGED <<main, pr, ci, refs, thread, checks, policy, installing, receipts, verdicts,
                  circuits, reruns, op, approvals, tried, posts>>
  BY DEF brokerVars, github, installer, history
<1>2. BrokerTypeOK'
  BY <1>1 DEF BrokerTypeOK, MayMerge
<1>3. ApprovalInv'
  BY <1>1 DEF ApprovalInv, VerdictsHold, ReceiptsHold, ChecksHold, OperationHolds, OwnCheck,
              Approved, At, Verdict
<1>4. CountInv'
  BY <1>1 DEF CountInv, TriesCounted, LetThrough, PostsCounted, At, CircuitKey
<1> QED BY <1>2, <1>3, <1>4

LEMMA StepInv == BrokerInv /\ [Next]_vars => BrokerInv'
<1> SUFFICES ASSUME BrokerInv, [Next]_vars PROVE BrokerInv'
  OBVIOUS
<1> USE DEF BrokerInv
<1>1. CASE BrokerStep
  <2>1. SetupInv'
    BY <1>1, BrokerStepSetup, SetupStutters
  <2>2. BrokerTypeOK'
    BY <1>1, ReviewTypes, OperationTypes, AroundTypes DEF BrokerStep
  <2>3. ApprovalInv'
    BY <1>1, ReviewApproves, OperationApproves, AroundApproves DEF BrokerStep
  <2>4. CountInv'
    BY <1>1, ReviewCounts, OperationCounts, AroundCounts DEF BrokerStep
  <2> QED BY <2>1, <2>2, <2>3, <2>4
<1>2. CASE SetupStep
  BY <1>2, SetupKeepsInv, BrokerStutters DEF SetupStep, brokerVars
<1>3. CASE UNCHANGED vars
  BY <1>3, SetupStutters, BrokerStutters DEF vars, brokerVars
<1> QED BY <1>1, <1>2, <1>3 DEF Next

(* Every variable holds a value of its kind, and in particular no run of CI   *)
(* is given more attempts than the limit.                                    *)
THEOREM TypeCorrect == Spec => []TypeOK
<1>1. BrokerInv => TypeOK
  BY DEF BrokerInv, SetupInv, BrokerTypeOK, TypeOK, Checks, ReceiptRecord, Circuits, Tries,
         Operations
<1> QED BY <1>1, InitInv, StepInv, PTL DEF Spec

(* An identity on disk has its own key beside it (configure_apps.py).        *)
THEOREM KeysMatch == Spec => []KeyMatchesIdentity
<1>1. BrokerInv => KeyMatchesIdentity
  BY DEF BrokerInv, SetupInv
<1> QED BY <1>1, InitInv, StepInv, PTL DEF Spec

(* The broker accepts writes only with a complete set of credentials.        *)
THEOREM ActivationIsComplete == Spec => []ActivatedIsComplete
<1>1. BrokerInv => ActivatedIsComplete
  BY SetupInvImplies DEF BrokerInv
<1> QED BY <1>1, InitInv, StepInv, PTL DEF Spec

(* Neither reviews of one content nor reruns of CI exceed their limits.      *)
THEOREM RetriesAreBounded == Spec => []RetriesBounded
<1>1. BrokerInv => RetriesBounded
  <2> SUFFICES ASSUME BrokerInv PROVE RetriesBounded
    OBVIOUS
  <2>1. posts \in Nat /\ reruns.attempts \in 0 .. RerunLimit
    BY DEF BrokerInv, BrokerTypeOK
  <2>2. posts <= RerunLimit
    BY <2>1, BrokerAssumption DEF BrokerInv, CountInv, PostsCounted
  <2> QED BY <2>2 DEF BrokerInv, CountInv, TriesCounted, RetriesBounded
<1> QED BY <1>1, InitInv, StepInv, PTL DEF Spec

(* The broker publishes, merges and triages only what was approved for this   *)
(* head and this main.                                                       *)
THEOREM ActsAreReviewed == Spec => ActedOnReviewed
<1>1. BrokerInv /\ [Next]_vars => [Acts => <<op.head, op.base>> \in approvals]_vars
  <2> SUFFICES ASSUME BrokerInv, [Next]_vars
               PROVE  (Acts => <<op.head, op.base>> \in approvals) \/ UNCHANGED vars
    OBVIOUS
  <2>1. CASE BrokerStep
    BY <2>1, ActsApproved DEF BrokerInv
  <2>2. CASE SetupStep
    BY <2>2 DEF SetupStep, Acts, github
  <2>3. CASE UNCHANGED vars
    BY <2>3
  <2> QED BY <2>1, <2>2, <2>3 DEF Next
<1> QED BY <1>1, InitInv, StepInv, PTL DEF Spec, ActedOnReviewed
=============================================================================
