---------------------------- MODULE BrokerSetup ----------------------------
(***************************************************************************)
(* Giving the maintenance broker its credentials: configure_apps.py of      *)
(* ops/vision.  The setup page registers two GitHub Apps through callbacks  *)
(* that run in threads of their own; the operator then either activates     *)
(* them or enables a temporary token, one command at a time.  Each of them  *)
(* may fail at any call to GitHub and be killed between any two steps.      *)
(*                                                                          *)
(* The files in /etc/python-docs-vision are all that lasts.                 *)
(***************************************************************************)
EXTENDS Naturals, FiniteSets

CONSTANTS App,       \* what GitHub may register
          MaxForms,  \* bound: open registration forms of a role
          None

ASSUME AppAssumption == None \notin App /\ MaxForms \in Nat

Role == {"owner", "verifier"}

VARIABLES
  pem, json,    \* <role>.pem and the app_id in <role>.json
  installation, \* installation_id is in <role>.json
  forms,        \* PENDING: open forms of each role
  callbacks,    \* threads in do_GET
  checkApp,     \* GitHub: the App whose check the main ruleset requires
  tagApp,       \* GitHub: the App that may create release tags
  token, activated,  \* the two marker files
  command       \* the operator's command and its next step

setupVars == <<pem, json, installation, forms, callbacks, checkApp, tagApp,
               token, activated, command>>

registration == <<pem, json, forms, callbacks>>
binding == <<installation, checkApp, tagApp>>
modeVars == <<token, activated>>

Registered(r) == json[r] # None

-----------------------------------------------------------------------------
(* The setup server.                                                         *)

(* "/" offers a form for each role without an identity.                      *)
ShowForms ==
  /\ \E r \in Role : ~Registered(r) /\ forms[r] < MaxForms
  /\ forms' = [r \in Role |-> IF Registered(r) \/ forms[r] = MaxForms
                              THEN forms[r] ELSE forms[r] + 1]
  /\ UNCHANGED <<pem, json, callbacks, binding, modeVars, command>>

New == App \ ({c.app : c \in callbacks} \union {pem[r] : r \in Role})

(* The operator submits a form, GitHub registers an App and calls back: the  *)
(* state is used up; a role that has its identity by now is refused.         *)
Callback(r) ==
  /\ forms[r] > 0
  /\ forms' = [forms EXCEPT ![r] = @ - 1]
  /\ IF Registered(r)
     THEN UNCHANGED callbacks
     ELSE \E a \in New :
            callbacks' = callbacks \union {[role |-> r, app |-> a, stored |-> FALSE]}
  /\ UNCHANGED <<pem, json, binding, modeVars, command>>

Drop(c) == callbacks' = callbacks \ {c}

(* Mutant of StoreKey: the key file is opened for writing, there or not.     *)
StoreKeyOver(c) ==
  /\ c \in callbacks /\ ~c.stored
  /\ pem' = [pem EXCEPT ![c.role] = c.app]
  /\ callbacks' = (callbacks \ {c}) \union {[c EXCEPT !.stored = TRUE]}
  /\ UNCHANGED <<json, forms, binding, modeVars, command>>

(* The conversion answered with a key, which is stored unless there is one.  *)
StoreKey(c) ==
  /\ c \in callbacks /\ ~c.stored
  /\ IF pem[c.role] = None
     THEN /\ pem' = [pem EXCEPT ![c.role] = c.app]
          /\ callbacks' = (callbacks \ {c}) \union {[c EXCEPT !.stored = TRUE]}
     ELSE Drop(c) /\ UNCHANGED pem
  /\ UNCHANGED <<json, forms, binding, modeVars, command>>

(* Expired, refused by GitHub, of another owner, or without a valid code.    *)
CallbackFails(c) ==
  /\ c \in callbacks /\ ~c.stored
  /\ Drop(c)
  /\ UNCHANGED <<pem, json, forms, binding, modeVars, command>>

StoreIdentity(c) ==
  /\ c \in callbacks /\ c.stored
  /\ json' = [json EXCEPT ![c.role] = c.app]
  /\ Drop(c)
  /\ UNCHANGED <<pem, forms, binding, modeVars, command>>

(* Ctrl-C, or the machine goes down.                                         *)
ServerStops ==
  /\ callbacks # {} \/ \E r \in Role : forms[r] > 0
  /\ callbacks' = {}
  /\ forms' = [r \in Role |-> 0]
  /\ UNCHANGED <<pem, json, binding, modeVars, command>>

-----------------------------------------------------------------------------
(* activate.                                                                 *)

Goto(step) == command' = step

(* Mutant of Activate: the token goes first, and a marker of an earlier       *)
(* command stays.                                                            *)
ActivateKeepsMarker ==
  /\ command = "none"
  /\ token' = FALSE
  /\ Goto("owner")
  /\ UNCHANGED <<registration, binding, activated>>

Activate ==
  /\ command = "none"
  /\ activated' = FALSE
  /\ Goto("owner")
  /\ UNCHANGED <<registration, binding, token>>

(* One role: GitHub accepts the key, and owner, permissions and the one      *)
(* installation are as reviewed; the installation is then written down.      *)
CheckRole(r, next) ==
  /\ command = r
  /\ Registered(r) /\ pem[r] = json[r]
  /\ installation' = [installation EXCEPT ![r] = TRUE]
  /\ Goto(next)
  /\ UNCHANGED <<registration, checkApp, tagApp, modeVars>>

(* The verifier's check is required on main, and confirmed.                  *)
BindCheck ==
  /\ command = "check"
  /\ checkApp' = json["verifier"]
  /\ Goto("tags")
  /\ UNCHANGED <<registration, installation, tagApp, modeVars>>

BindTags ==
  /\ command = "tags"
  /\ tagApp' = json["owner"]
  /\ Goto("token")
  /\ UNCHANGED <<registration, installation, checkApp, modeVars>>

RemoveToken ==
  /\ command = "token"
  /\ token' = FALSE
  /\ Goto("mark")
  /\ UNCHANGED <<registration, binding, activated>>

Mark ==
  /\ command = "mark"
  /\ activated' = TRUE
  /\ Goto("none")
  /\ UNCHANGED <<registration, binding, token>>

(* enable_temporary.                                                         *)
EnableTemporary ==
  /\ command = "none"
  /\ \A r \in Role : ~Registered(r)
  /\ activated' = FALSE
  /\ Goto("credential")
  /\ UNCHANGED <<registration, binding, token>>

StoreToken ==
  /\ command = "credential"
  /\ token' = TRUE
  /\ Goto("mark")
  /\ UNCHANGED <<registration, binding, activated>>

(* A call raises, a check fails, or the command is killed.                   *)
CommandStops ==
  /\ command # "none"
  /\ Goto("none")
  /\ UNCHANGED <<registration, binding, modeVars>>

(* rm activated.                                                             *)
Deactivate ==
  /\ activated
  /\ activated' = FALSE
  /\ UNCHANGED <<registration, binding, token, command>>

-----------------------------------------------------------------------------
SetupInit ==
  /\ pem = [r \in Role |-> None] /\ json = [r \in Role |-> None]
  /\ installation = [r \in Role |-> FALSE]
  /\ forms = [r \in Role |-> 0]
  /\ callbacks = {}
  /\ checkApp = None /\ tagApp = None
  /\ token = FALSE /\ activated = FALSE
  /\ command = "none"

RegistrationStep ==
  \/ ShowForms \/ ServerStops
  \/ \E r \in Role : Callback(r)
  \/ \E c \in callbacks : StoreKey(c) \/ CallbackFails(c) \/ StoreIdentity(c)

CommandStep ==
  \/ Activate
  \/ CheckRole("owner", "verifier") \/ CheckRole("verifier", "check")
  \/ BindCheck \/ BindTags \/ RemoveToken \/ Mark
  \/ EnableTemporary \/ StoreToken
  \/ CommandStops \/ Deactivate

SetupNext == RegistrationStep \/ CommandStep

SetupSpec == SetupInit /\ [][SetupNext]_setupVars

-----------------------------------------------------------------------------
(* Properties.                                                               *)

Callbacks == [role : Role, app : App, stored : BOOLEAN]

SetupTypeOK ==
  /\ pem \in [Role -> App \union {None}]
  /\ json \in [Role -> App \union {None}]
  /\ installation \in [Role -> BOOLEAN]
  /\ forms \in [Role -> 0 .. MaxForms]
  /\ callbacks \subseteq Callbacks
  /\ checkApp \in App \union {None} /\ tagApp \in App \union {None}
  /\ token \in BOOLEAN /\ activated \in BOOLEAN
  /\ command \in {"none", "owner", "verifier", "check", "tags", "token", "mark",
                  "credential"}

(* An identity on disk always has its own key beside it, although two        *)
(* callbacks of one role may be answered at the same time and the server be   *)
(* stopped between the two files ("refusing credential replacement").         *)
KeyMatchesIdentity == \A r \in Role : Registered(r) => pem[r] = json[r]

(* "It sets the activation marker only after those operations succeed": while *)
(* the broker accepts writes it has the temporary token, or both Apps are      *)
(* installed and are the ones the check and the release tags are bound to -    *)
(* whatever an earlier command left behind.                                    *)
ActivatedIsComplete ==
  activated => \/ token
               \/ /\ \A r \in Role : Registered(r) /\ installation[r]
                  /\ checkApp = json["verifier"]
                  /\ tagApp = json["owner"]
=============================================================================
