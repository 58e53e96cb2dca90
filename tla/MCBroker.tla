------------------------------ MODULE MCBroker ------------------------------
(* An instance of Broker: two commits of one content, one push to main and    *)
(* one install by others.                                                    *)
EXTENDS Broker, TLC

CONSTANTS h1, h2, a1, a2, a3

MCTreeOf == [h \in Head |-> "t"]

(* Bound: a behaviour is one of three stories, the registration of the Apps,  *)
(* the work of the broker, or the reruns of one CI run.  The broker works     *)
(* with both Apps registered or none and no command under way, and over a     *)
(* push to main or, with the token, an install.  What breaks down more than    *)
(* once is work with the token and no install.  A story ends when the pull    *)
(* request is merged or its thread resolved.                                 *)
Nothing == [rejections |-> 0, failures |-> 0]
AtWork == \/ receipts # [k \in Head \X Base |-> [status |-> "none", policy |-> None]]
          \/ checks # [h \in Head |-> [base |-> None, passed |-> FALSE]]
          \/ circuits # [k \in Key |-> Nothing @@ [cooling |-> FALSE, torn |-> FALSE]]
          \/ tried # [k \in Key |-> Nothing]
          \/ verdicts # {} \/ approvals # {}
          \/ main > 0 \/ pr # [head |-> Opened, open |-> TRUE]
          \/ installing \/ policy > 0 \/ (op # NoOp /\ op.kind # "rerun")
Rerunning == reruns.attempts > 0
(* Some content has broken down twice.                                       *)
Persistent == \E k \in Key : circuits[k].failures > 1
AllOrNoApps == /\ callbacks = {} /\ \A r \in Role : forms[r] = 0
               /\ \/ \A r \in Role : pem[r] = None
                  \/ \A r \in Role : json[r] # None
OneStory == /\ ~(AtWork /\ Rerunning)
            /\ AtWork \/ Rerunning => AllOrNoApps /\ command = "none"
            /\ thread = "open" /\ pr.open
            /\ policy > 0 => main = 0 /\ token
            /\ Persistent => /\ token /\ policy = 0
                              /\ \A r \in Role : pem[r] = None

(* Two states are one when they differ in what cannot matter any more: what   *)
(* is on record of a main or an install that is past, receipts and checks     *)
(* that grant nothing, and, while the broker works, what the Apps are bound   *)
(* to.                                                                       *)
LiveBase(base) == base >= main \/ (op # NoOp /\ base = op.base)
Live(base, p) ==
  LiveBase(base) /\ (p >= policy \/ (op # NoOp /\ p = op.policy))

Receipts(r) == IF r.status = "success" THEN r ELSE r.status = "torn"

(* All counts that can still change, those of the history too.               *)
Counts(k) == <<IF circuits[k].torn THEN "torn"
               ELSE IF circuits[k].rejections >= RejectionLimit THEN "open"
               ELSE circuits[k], tried[k]>>

View ==
  <<IF AtWork \/ Rerunning
    THEN <<token, activated, command, \A r \in Role : Registered(r)>> ELSE setupVars,
    main, pr, ci, refs, thread, installer, reruns, posts, op,
    [h \in Head |-> checks[h] = [base |-> main, passed |-> TRUE]],
    {a \in approvals : LiveBase(a[2])},
    [k \in {k \in Head \X Base : LiveBase(k[2])} |-> Receipts(receipts[k])],
    {v \in verdicts : Live(v.of.base, v.of.policy)},
    [k \in {k \in Key : Live(k[2], k[1])} |-> Counts(k)]>>
=============================================================================
