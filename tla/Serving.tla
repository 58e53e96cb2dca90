------------------------------- MODULE Serving -------------------------------
(***************************************************************************)
(* MCP servers over one cache directory: server.py (app_lifespan, auto-      *)
(* build), services/persistent_cache.py and services/content.py (get_docs).  *)
(*                                                                          *)
(* Every client starts a server process of its own.  A server opens index.db *)
(* once and keeps the file it opened for life; all of them share one         *)
(* retrieved-docs-cache.sqlite3.  What happens to index.db meanwhile is the  *)
(* abstract slot of IndexSlot.tla, which Publish.tla implements: a          *)
(* generation stands for the rows of one build, and for the fingerprint of   *)
(* its file, whose mtime in nanoseconds a link, a rename and copy2 keep.     *)
(***************************************************************************)
EXTENDS IndexSlot

CONSTANTS Server,
          Key,                 \* get_docs requests: version, slug, anchor, page
          SwapsDuringStartup   \* may index.db change between open and stat?

ASSUME NoneIsNoKey == None \notin Key
ASSUME SwapsAssumption == SwapsDuringStartup \in BOOLEAN

VARIABLES
  pc,
  db,       \* db[s]: generation of the file s has open
  print,    \* print[s]: fingerprint s computed, None while or if it has none
  cacheOn,  \* s has its connection to the cache database
  request,  \* request[s]: the get_docs call in progress
  answer,   \* answer[s]: generation the last get_docs answer came from
  rows      \* retrieved_docs_cache: fingerprint, request -> generation

serverVars == <<pc, db, print, cacheOn, request, answer, rows>>
vars == <<slotVars, serverVars>>

MaybeGen == Gen \union {None}
NoRows == [k \in Key |-> None]

Steps == {"off", "autobuild", "open", "print", "purge", "ready", "store"}

-----------------------------------------------------------------------------
Goto(s, step) == pc' = [pc EXCEPT ![s] = step]

(* The process ends, or never came to serve; the lifespan's finally closes   *)
(* the cache and the database.                                               *)
Exit(s) ==
  /\ Goto(s, "off")
  /\ db' = [db EXCEPT ![s] = None]
  /\ print' = [print EXCEPT ![s] = None]
  /\ cacheOn' = [cacheOn EXCEPT ![s] = FALSE]
  /\ request' = [request EXCEPT ![s] = None]
  /\ answer' = [answer EXCEPT ![s] = None]
  /\ UNCHANGED <<rows, slotVars>>

(* index_path.exists(); without an index, build-index runs in a child.       *)
Start(s) ==
  /\ pc[s] = "off"
  /\ Goto(s, IF live # None THEN "open" ELSE "autobuild")
  /\ UNCHANGED <<db, print, cacheOn, request, answer, rows, slotVars>>

(* The child returned 0 and index_path.exists().  What the child did to the  *)
(* slot is an InstallNew step, like any other publisher's.                   *)
AutoBuilt(s) ==
  /\ pc[s] = "autobuild"
  /\ live # None
  /\ Goto(s, "open")
  /\ UNCHANGED <<db, print, cacheOn, request, answer, rows, slotVars>>

(* Disabled by the environment, or killed after 180 s.               *)
AutoBuildFails(s) == pc[s] = "autobuild" /\ Exit(s)

Open(s) ==
  /\ pc[s] = "open"
  /\ live # None
  /\ db' = [db EXCEPT ![s] = live]
  /\ Goto(s, "print")
  /\ UNCHANGED <<print, cacheOn, request, answer, rows, slotVars>>

(* PersistentDocsCache stats the path, not the file that is open.            *)
Fingerprint(s) ==
  /\ pc[s] = "print"
  /\ print' = [print EXCEPT ![s] = live]
  /\ Goto(s, "purge")
  /\ UNCHANGED <<db, cacheOn, request, answer, rows, slotVars>>

(* Rows of every other fingerprint are deleted.                              *)
Purge(s) ==
  /\ pc[s] = "purge"
  /\ rows' = [g \in Gen |-> IF g = print[s] THEN rows[g] ELSE NoRows]
  /\ cacheOn' = [cacheOn EXCEPT ![s] = TRUE]
  /\ Goto(s, "ready")
  /\ UNCHANGED <<db, print, request, answer, slotVars>>

(* OSError or sqlite3.Error in the constructor: the server does without.     *)
CacheDisabled(s) ==
  /\ pc[s] \in {"print", "purge"}
  /\ Goto(s, "ready")
  /\ UNCHANGED <<db, print, cacheOn, request, answer, rows, slotVars>>

-----------------------------------------------------------------------------
(* get_docs.  The requests of one server run one after the other; those of   *)
(* different servers interleave at the two statements on the cache.          *)

(* Mutant of Cached: the fingerprint is left out of the key.                 *)
CachedByKey(s, k) ==
  IF cacheOn[s] /\ \E g \in Gen : rows[g][k] # None
  THEN rows[CHOOSE g \in Gen : rows[g][k] # None][k] ELSE None

Cached(s, k) == IF cacheOn[s] THEN rows[print[s]][k] ELSE None

Hit(s, k) ==
  /\ pc[s] = "ready"
  /\ Cached(s, k) # None
  /\ answer' = [answer EXCEPT ![s] = Cached(s, k)]
  /\ UNCHANGED <<pc, db, print, cacheOn, request, rows, slotVars>>

(* No row, a row that does not decode, or an error of SQLite, which is       *)
(* logged and counts as a miss.  The answer comes from the open index.       *)
Miss(s, k) ==
  /\ pc[s] = "ready"
  /\ request' = [request EXCEPT ![s] = k]
  /\ answer' = [answer EXCEPT ![s] = db[s]]
  /\ Goto(s, IF cacheOn[s] THEN "store" ELSE "ready")
  /\ UNCHANGED <<db, print, cacheOn, rows, slotVars>>

(* put: INSERT OR REPLACE under the fingerprint of the constructor.          *)
Store(s) ==
  /\ pc[s] = "store"
  /\ rows' = [rows EXCEPT ![print[s]][request[s]] = answer[s]]
  /\ Goto(s, "ready")
  /\ UNCHANGED <<db, print, cacheOn, request, answer, slotVars>>

StoreFails(s) ==
  /\ pc[s] = "store"
  /\ Goto(s, "ready")
  /\ UNCHANGED <<db, print, cacheOn, request, answer, rows, slotVars>>

Stop(s) == pc[s] \notin {"off", "autobuild"} /\ Exit(s)

-----------------------------------------------------------------------------
(* Publishers and rollbacks at work.                                         *)
SlotMoves ==
  /\ SlotNext
  /\ live' # live /\ ~SwapsDuringStartup => \A s \in Server : pc[s] # "print"
  /\ UNCHANGED serverVars

Init ==
  /\ SlotInit
  /\ pc = [s \in Server |-> "off"]
  /\ db = [s \in Server |-> None]
  /\ print = [s \in Server |-> None]
  /\ cacheOn = [s \in Server |-> FALSE]
  /\ request = [s \in Server |-> None]
  /\ answer = [s \in Server |-> None]
  /\ rows = [g \in Gen |-> NoRows]

Startup(s) ==
  \/ Start(s) \/ AutoBuilt(s) \/ AutoBuildFails(s) \/ Open(s)
  \/ Fingerprint(s) \/ Purge(s) \/ CacheDisabled(s)

GetDocs(s) ==
  \/ \E k \in Key : Hit(s, k) \/ Miss(s, k)
  \/ Store(s) \/ StoreFails(s)

Next ==
  \/ \E s \in Server : Startup(s) \/ GetDocs(s) \/ Stop(s)
  \/ SlotMoves

Spec == Init /\ [][Next]_vars

-----------------------------------------------------------------------------
(* Properties.                                                               *)

(* Every variable holds a value of its kind.                                 *)
TypeOK ==
  /\ SlotTypeOK
  /\ pc \in [Server -> Steps]
  /\ db \in [Server -> MaybeGen]
  /\ print \in [Server -> MaybeGen]
  /\ cacheOn \in [Server -> BOOLEAN]
  /\ request \in [Server -> Key \union {None}]
  /\ answer \in [Server -> MaybeGen]
  /\ rows \in [Gen -> [Key -> MaybeGen]]

(* "It must never let a rebuilt index leak into a cache entry built from the *)
(* previous index": every answer of a server comes from the index it has     *)
(* open, although the cache is shared with servers that have another index   *)
(* open, write to it after it was purged, and come back after a rollback.    *)
(* True when index.db does not change between a server's open and its stat,  *)
(* contradicted otherwise.                                                   *)
AnswerFromOpenIndex ==
  \A s \in Server : answer[s] # None => answer[s] = db[s]

=============================================================================
