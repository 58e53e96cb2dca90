------------------------------- MODULE Broker -------------------------------
(***************************************************************************)
(* The maintenance broker of ops/vision (control.py): one operation at a     *)
(* time, under one lock, publishes commits, verifies, merges and triages a   *)
(* pull request and reruns CI, on the word of a reviewer that runs           *)
(* untrusted code in a sandbox.                                             *)
(*                                                                          *)
(* GitHub, other people and the installer (install.py) go on while an        *)
(* operation is between two of its calls, and the operation can be killed    *)
(* there, or in the middle of writing a file.  A read of the pull request    *)
(* and the read of main that follows it are one step: what happens between   *)
(* them has the same effect when it happens after both.                      *)
(*                                                                          *)
(* Time is abstract: a retry_after in the future is a cooldown that is over  *)
(* at some later moment.                                                    *)
(***************************************************************************)
EXTENDS BrokerSetup

CONSTANTS
  Head,            \* commits; each with the decision given for it
  Opened,          \* the head of the pull request at the start
  TreeOf,          \* the content of a commit
  MaxPolicy,       \* bound: installs of another control.py
  MaxMain,         \* bound: pushes to main
  RejectionLimit,  \* 2 in the code
  InfraLimit,      \* 3 in the code
  RerunLimit       \* 3 in the code

Base == 0 .. MaxMain + 1    \* the last by a merge
Tree == {TreeOf[h] : h \in Head}
Policy == 0 .. MaxPolicy    \* control.py, by its hash, in the order of installing
Key == Policy \X Base \X Tree

ASSUME BrokerAssumption ==
  /\ Opened \in Head
  /\ MaxMain \in Nat /\ MaxPolicy \in Nat
  /\ {RejectionLimit, InfraLimit, RerunLimit} \subseteq Nat \ {0}

VARIABLES
  main,       \* GitHub: the commit main is at, counted
  pr,         \* GitHub: the pull request
  ci,         \* GitHub: the CI run of the first main
  refs,       \* GitHub: heads a branch has been given
  thread,     \* GitHub: a review thread of the pull request
  checks,     \* GitHub: the latest verifier check of a head
  policy,     \* control.py as it is on disk
  installing, \* the installer is between control.py and its last step
  receipts,   \* verify-<pr>-<base>-<head>.json
  verdicts,   \* review-<policy>-<base>-<head>-<decision>.json
  circuits,   \* attempts-<policy>-<base>-<tree>.json
  reruns,     \* rerun-<run>.json
  op,         \* the operation that has the lock
  approvals,  \* history: the head and main of each approval
  tried,      \* history: rejections and failures of each content, on record or not
  posts       \* history: rerun requests sent

github == <<main, pr, ci, refs, thread, checks>>
installer == <<policy, installing>>
history == <<approvals, tried, posts>>
vars == <<setupVars, github, installer, receipts, verdicts, circuits, reruns,
          op, history>>

NoOp == [pc |-> "none"]

Operation(kind, pc, h) ==
  [kind |-> kind, pc |-> pc, head |-> h, base |-> main, policy |-> policy,
   apps |-> FALSE, result |-> "none", passed |-> FALSE]

At(pc) == op.pc = pc
Step(pc) == op' = [op EXCEPT !.pc = pc]
Answer(result) == op' = [op EXCEPT !.pc = "answer", !.result = result]
CleanUp(result) == op' = [op EXCEPT !.pc = "cleanup", !.result = result]
End == op' = NoOp

Free == op = NoOp /\ activated

IsCurrent(h) == pr.head = h /\ pr.open

-----------------------------------------------------------------------------
(* verify and publish, up to the review.                                     *)

Receipt(status) == [status |-> status, policy |-> policy]

Verify(h) ==
  /\ Free /\ IsCurrent(h)
  /\ receipts[<<h, main>>].status # "torn"
  /\ receipts' = [receipts EXCEPT ![<<h, main>>] = Receipt("in_progress")]
  /\ op' = Operation("verify", "post", h)
  /\ UNCHANGED <<setupVars, github, installer, verdicts, circuits, reruns, history>>

(* With Apps an unfinished check of the head takes the place of the last.    *)
PostCheck ==
  /\ At("post")
  /\ op' = [op EXCEPT !.pc = "review", !.apps = ~token]
  /\ checks' = IF token THEN checks
               ELSE [checks EXCEPT ![op.head] = [base |-> op.base, passed |-> FALSE]]
  /\ UNCHANGED <<setupVars, main, pr, ci, refs, thread, installer, receipts, verdicts,
                 circuits, reruns, history>>

(* The commit is on GitHub and nothing refers to it yet.                     *)
Publish(h) ==
  /\ Free
  /\ h \notin refs
  /\ op' = Operation("publish", "review", h)
  /\ UNCHANGED <<setupVars, github, installer, receipts, verdicts, circuits, reruns,
                 history>>

-----------------------------------------------------------------------------
(* review.                                                                   *)

Verdict(p) == [policy |-> p, base |-> op.base, head |-> op.head]

CircuitKey(p) == <<p, op.base, TreeOf[op.head]>>

Circuit(p) == circuits[CircuitKey(p)]

(* A verdict that is there is the answer; one cut short is not readable.     *)
UseVerdict ==
  /\ At("review")
  /\ \E v \in verdicts :
       /\ v.of = Verdict(policy)
       /\ Answer(IF v.whole THEN "approved" ELSE "infrastructure")
  /\ UNCHANGED <<setupVars, github, installer, receipts, verdicts, circuits, reruns,
                 history>>

NoVerdict == \A v \in verdicts : v.of # Verdict(policy)

(* Mutant of Blocked: a breakdown too many.                                  *)
BlockedLate(c) ==
  c.torn \/ c.rejections >= RejectionLimit \/ c.failures > InfraLimit \/ c.cooling

Blocked(c) ==
  c.torn \/ c.rejections >= RejectionLimit \/ c.failures >= InfraLimit \/ c.cooling

Refuse ==
  /\ At("review") /\ NoVerdict
  /\ Blocked(Circuit(policy))
  /\ Answer(IF Circuit(policy).rejections >= RejectionLimit THEN "rejection"
            ELSE "infrastructure")
  /\ UNCHANGED <<setupVars, github, installer, receipts, verdicts, circuits, reruns,
                 history>>

(* reset_verifier, then the reviewer starts; when the reset raises, nothing  *)
(* has run and the outcome is a failure.                                     *)
StartReview ==
  /\ At("review") /\ NoVerdict
  /\ ~Blocked(Circuit(policy))
  /\ \E pc \in {"running", "failed"} :
       op' = [op EXCEPT !.pc = pc, !.policy = policy]
  /\ UNCHANGED <<setupVars, github, installer, receipts, verdicts, circuits, reruns,
                 history>>

(* A failure starts a cooldown, a rejection ends it.                         *)
Counted(rejections, failures) ==
  circuits' = [circuits EXCEPT ![CircuitKey(op.policy)] =
                 [rejections |-> @.rejections + rejections,
                  failures |-> @.failures + failures,
                  cooling |-> failures > 0, torn |-> @.torn]]

Tried(rejections, failures) ==
  tried' = [tried EXCEPT ![CircuitKey(op.policy)] =
              [rejections |-> @.rejections + rejections,
               failures |-> @.failures + failures]]

Approve ==
  /\ At("running")
  /\ verdicts' = verdicts \union {[of |-> Verdict(op.policy), whole |-> TRUE]}
  /\ CleanUp("approved")
  /\ UNCHANGED <<setupVars, github, installer, receipts, circuits, reruns, history>>

Reject ==
  /\ At("running")
  /\ Counted(1, 0) /\ Tried(1, 0)
  /\ CleanUp("rejection")
  /\ UNCHANGED <<setupVars, github, installer, receipts, verdicts, reruns, approvals,
                 posts>>

(* Timeout, exit status, malformed verdict, verdict on other commits.        *)
ReviewFails ==
  /\ op.pc \in {"running", "failed"}
  /\ Counted(0, 1) /\ Tried(0, 1)
  /\ CleanUp("infrastructure")
  /\ UNCHANGED <<setupVars, github, installer, receipts, verdicts, reruns, approvals,
                 posts>>

(* History: the approval of a review holds unless its account could not be    *)
(* cleaned.                                                                  *)
Held == IF At("cleanup") /\ op.result = "approved"
        THEN approvals \union {<<op.head, op.base>>} ELSE approvals

Cleaned ==
  /\ At("cleanup")
  /\ approvals' = Held
  /\ Answer(op.result)
  /\ UNCHANGED <<setupVars, github, installer, receipts, verdicts, circuits, reruns,
                 tried, posts>>

(* Mutant of CleanupFails: the verdict stays.                                *)
CleanupKeepsVerdict ==
  /\ At("cleanup")
  /\ Counted(0, 1)
  /\ Answer("infrastructure")
  /\ UNCHANGED <<setupVars, github, installer, receipts, verdicts, reruns, history>>

(* "Cleanup failure cannot turn approval into an authorizing response."      *)
CleanupFails ==
  /\ At("cleanup")
  /\ verdicts' = {v \in verdicts : v.of # Verdict(op.policy)}
  /\ Counted(0, 1)
  /\ Answer("infrastructure")
  /\ UNCHANGED <<setupVars, github, installer, receipts, reruns, history>>

-----------------------------------------------------------------------------
(* What the answer is used for.                                              *)

(* verify reads head and main again, publish only main.                      *)
Stands ==
  /\ op.result = "approved"
  /\ op.kind = "verify" => pr.head = op.head
  /\ main = op.base

WriteReceipt ==
  /\ At("answer") /\ op.kind = "verify"
  /\ \E passed \in {Stands, FALSE} :
       /\ receipts' = [receipts EXCEPT ![<<op.head, op.base>>].status =
                         IF passed THEN "success" ELSE "failure"]
       /\ op' = IF op.apps THEN [op EXCEPT !.pc = "report", !.passed = passed] ELSE NoOp
  /\ UNCHANGED <<setupVars, github, installer, verdicts, circuits, reruns, history>>

(* The check of the Apps mode gets its conclusion.                           *)
Report ==
  /\ At("report")
  /\ checks' = [checks EXCEPT ![op.head].passed = op.passed]
  /\ End
  /\ UNCHANGED <<setupVars, main, pr, ci, refs, thread, installer, receipts, verdicts,
                 circuits, reruns, history>>

(* Creates the branch or moves it forward, the one of the pull request or    *)
(* another.                                                                  *)
Push ==
  /\ At("answer") /\ op.kind = "publish" /\ Stands
  /\ refs' = refs \union {op.head}
  /\ pr' \in {pr, [pr EXCEPT !.head = op.head]}
  /\ End
  /\ UNCHANGED <<setupVars, main, ci, thread, checks, installer, receipts, verdicts,
                 circuits, reruns, history>>

-----------------------------------------------------------------------------
(* merge and resolve.                                                        *)

(* require_verified: the receipt, or the latest check of the verifier App.   *)
Verified(h) ==
  IF token THEN receipts[<<h, main>>] = [status |-> "success", policy |-> policy]
  ELSE /\ \A r \in Role : Registered(r)
       /\ checks[h] = [base |-> main, passed |-> TRUE]

Gate(kind, h) ==
  /\ Free /\ IsCurrent(h)
  /\ Verified(h)
  /\ op' = [Operation(kind, "act", h) EXCEPT !.apps = ~token]
  /\ UNCHANGED <<setupVars, github, installer, receipts, verdicts, circuits, reruns,
                 history>>

(* GitHub merges the head it is told and no other.                           *)
Merge ==
  /\ At("act") /\ op.kind = "merge"
  /\ IsCurrent(op.head)
  /\ pr' = [pr EXCEPT !.open = FALSE]
  /\ main' = main + 1
  /\ End
  /\ UNCHANGED <<setupVars, ci, refs, thread, checks, installer, receipts, verdicts,
                 circuits, reruns, history>>

(* The comment, then the thread.                                             *)
ResolveThread ==
  /\ At("act") /\ op.kind = "resolve"
  /\ thread = "open"
  /\ thread' = "resolved"
  /\ End
  /\ UNCHANGED <<setupVars, main, pr, ci, refs, checks, installer, receipts, verdicts,
                 circuits, reruns, history>>

-----------------------------------------------------------------------------
(* rerun of the failed jobs of a CI run of the first main.                   *)

(* "Record before sending."                                                  *)
Rerun ==
  /\ Free
  /\ ci = "failed" /\ main = 0
  /\ ~reruns.torn /\ reruns.attempts < RerunLimit /\ ~reruns.cooling
  /\ reruns' = [reruns EXCEPT !.attempts = @ + 1, !.cooling = TRUE]
  /\ op' = Operation("rerun", "rerun", Opened)
  /\ UNCHANGED <<setupVars, github, installer, receipts, verdicts, circuits, history>>

SendRerun ==
  /\ At("rerun")
  /\ posts' = posts + 1
  /\ ci' \in {"running", "failed"}
  /\ End
  /\ UNCHANGED <<setupVars, main, pr, refs, thread, checks, installer, receipts,
                 verdicts, circuits, reruns, approvals, tried>>

-----------------------------------------------------------------------------
(* Around the operation.                                                     *)

(* A call to GitHub raises where nothing catches it, publish finds the       *)
(* answer negative, or the process is killed.                                *)
Stop ==
  /\ op # NoOp
  /\ approvals' = Held
  /\ End
  /\ UNCHANGED <<setupVars, github, installer, receipts, verdicts, circuits, reruns,
                 tried, posts>>

Torn == circuits' = [circuits EXCEPT ![CircuitKey(op.policy)].torn = TRUE]

(* Killed in the middle of writing a file, which cannot be read afterwards.  *)
KilledWriting ==
  /\ \/ /\ op.pc \in {"post", "answer"} /\ op.kind = "verify"
        /\ receipts' = [receipts EXCEPT ![<<op.head, op.base>>].status = "torn"]
        /\ UNCHANGED <<verdicts, circuits, reruns, tried>>
     \/ /\ At("running")
        /\ verdicts' = verdicts \union {[of |-> Verdict(op.policy), whole |-> FALSE]}
        /\ UNCHANGED <<receipts, circuits, reruns, tried>>
     \/ /\ op.pc \in {"running", "failed"}
        /\ Torn
        /\ Tried(0, 1) \/ (At("running") /\ Tried(1, 0))
        /\ UNCHANGED <<receipts, verdicts, reruns>>
     \/ /\ At("cleanup")
        /\ Torn
        /\ verdicts' \in {verdicts, {v \in verdicts : v.of # Verdict(op.policy)}}
        /\ UNCHANGED <<receipts, reruns, tried>>
     \/ /\ At("rerun")
        /\ reruns' = [reruns EXCEPT !.torn = TRUE]
        /\ UNCHANGED <<receipts, verdicts, circuits, tried>>
  /\ approvals' = Held
  /\ End
  /\ UNCHANGED <<setupVars, github, installer, posts>>

CoolDown ==
  /\ \/ /\ reruns.cooling
        /\ reruns' = [reruns EXCEPT !.cooling = FALSE]
        /\ UNCHANGED circuits
     \/ \E k \in Key :
          /\ circuits[k].cooling
          /\ circuits' = [circuits EXCEPT ![k].cooling = FALSE]
          /\ UNCHANGED reruns
  /\ UNCHANGED <<setupVars, github, installer, receipts, verdicts, op, history>>

(* Others push to main or to the pull request.                               *)
PushMain ==
  /\ main < MaxMain
  /\ main' = main + 1
  /\ UNCHANGED <<setupVars, pr, ci, refs, thread, checks, installer, receipts, verdicts,
                 circuits, reruns, op, history>>

PushHead ==
  /\ \E h \in Head \ {pr.head} : pr' = [pr EXCEPT !.head = h]
  /\ UNCHANGED <<setupVars, main, ci, refs, thread, checks, installer, receipts, verdicts,
                 circuits, reruns, op, history>>

CIFails ==
  /\ ci = "running"
  /\ ci' = "failed"
  /\ UNCHANGED <<setupVars, main, pr, refs, thread, checks, installer, receipts, verdicts,
                 circuits, reruns, op, history>>

(* install.py does not take the lock: it replaces control.py, and goes on to *)
(* delete the verdicts unless something raises in between.                   *)
Install ==
  /\ ~installing /\ policy < MaxPolicy
  /\ policy' = policy + 1
  /\ installing' = TRUE
  /\ UNCHANGED <<setupVars, github, receipts, verdicts, circuits, reruns, op,
                 history>>

EndInstall ==
  /\ installing
  /\ verdicts' \in {verdicts, {}}
  /\ installing' = FALSE
  /\ UNCHANGED <<setupVars, github, policy, receipts, circuits, reruns, op,
                 history>>

-----------------------------------------------------------------------------
Init ==
  /\ SetupInit
  /\ main = 0
  /\ pr = [head |-> Opened, open |-> TRUE]
  /\ ci = "failed"
  /\ refs = {Opened} /\ thread = "open"
  /\ checks = [h \in Head |-> [base |-> None, passed |-> FALSE]]
  /\ policy = 0
  /\ installing = FALSE
  /\ receipts = [k \in Head \X Base |-> [status |-> "none", policy |-> None]]
  /\ verdicts = {}
  /\ circuits = [k \in Key |-> [rejections |-> 0, failures |-> 0, cooling |-> FALSE,
                                torn |-> FALSE]]
  /\ reruns = [attempts |-> 0, cooling |-> FALSE, torn |-> FALSE]
  /\ op = NoOp
  /\ approvals = {}
  /\ tried = [k \in Key |-> [rejections |-> 0, failures |-> 0]]
  /\ posts = 0

ReviewStep ==
  \/ UseVerdict \/ Refuse \/ StartReview
  \/ Approve \/ Reject \/ ReviewFails
  \/ Cleaned \/ CleanupFails

OperationStep ==
  \/ \E h \in Head : \/ Verify(h) \/ Publish(h)
                     \/ Gate("merge", h) \/ Gate("resolve", h)
  \/ PostCheck \/ WriteReceipt \/ Report \/ Push \/ Merge \/ ResolveThread
  \/ Rerun \/ SendRerun

Around ==
  \/ Stop \/ KilledWriting \/ CoolDown
  \/ PushMain \/ PushHead \/ CIFails \/ Install \/ EndInstall

BrokerStep == ReviewStep \/ OperationStep \/ Around

SetupStep ==
  /\ SetupNext
  /\ UNCHANGED <<github, installer, receipts, verdicts, circuits, reruns, op,
                 history>>

Next == SetupStep \/ BrokerStep

Spec == Init /\ [][Next]_vars

-----------------------------------------------------------------------------
(* Properties.                                                               *)

Results == {"none", "approved", "rejection", "infrastructure"}
Kinds == {"verify", "publish", "merge", "resolve", "rerun"}
Steps == {"post", "review", "running", "failed", "cleanup", "answer", "report", "act",
          "rerun"}
Verdicts == [policy : Policy, base : Base, head : Head]

(* Every variable holds a value of its kind.                                 *)
TypeOK ==
  /\ SetupTypeOK
  /\ main \in Base
  /\ pr \in [head : Head, open : BOOLEAN]
  /\ ci \in {"failed", "running"}
  /\ refs \subseteq Head /\ thread \in {"open", "resolved"}
  /\ checks \in [Head -> [base : Base \union {None}, passed : BOOLEAN]]
  /\ policy \in Policy /\ installing \in BOOLEAN
  /\ receipts \in [Head \X Base ->
       [status : {"none", "in_progress", "success", "failure", "torn"},
        policy : Policy \union {None}]]
  /\ verdicts \subseteq [of : Verdicts, whole : BOOLEAN]
  /\ circuits \in [Key -> [rejections : Nat, failures : Nat, cooling : BOOLEAN,
                           torn : BOOLEAN]]
  /\ reruns \in [attempts : 0 .. RerunLimit, cooling : BOOLEAN, torn : BOOLEAN]
  /\ op \in {NoOp} \union [kind : Kinds, pc : Steps, head : Head, base : Base,
                           policy : Policy, apps : BOOLEAN, result : Results,
                           passed : BOOLEAN]
  /\ approvals \subseteq Head \X Base
  /\ tried \in [Key -> [rejections : Nat, failures : Nat]]
  /\ posts \in Nat

Acts == refs' # refs \/ thread' # thread \/ pr'.open # pr.open

(* Whatever is published, merged or triaged was approved by a reviewer for     *)
(* exactly this head and the main that was current when the broker decided -   *)
(* over retries, pushes, installs, changes of the credential and operations    *)
(* cut short.  The cleaning of the reviewer's account did not fail after the    *)
(* approval; a kill may have kept it from being tried.                        *)
ActedOnReviewed == [][Acts => <<op.head, op.base>> \in approvals]_vars

(* "Two failed reviews of identical content open the repair circuit", so do   *)
(* three that broke down, and reruns of CI have "a three-attempt cap": one     *)
(* control.py does not have a content reviewed again after that for one main,  *)
(* under whatever commit or operation it comes back and whether or not the     *)
(* last outcome could be written down; and GitHub is not asked more often,     *)
(* although a request may fail, or the broker be killed, before it knows.      *)
RetriesBounded ==
  /\ \A k \in Key : /\ tried[k].rejections <= RejectionLimit
                    /\ tried[k].failures <= InfraLimit
  /\ posts <= RerunLimit
=============================================================================
