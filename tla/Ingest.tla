-------------------------------- MODULE Ingest --------------------------------
(***************************************************************************)
(* One run of build-index (__main__.py) over its versions, with the SQLite   *)
(* transactions of ingestion/inventory.py, ingestion/sphinx_json.py and      *)
(* storage/db.py, up to the verdict of the smoke tests (ingestion/           *)
(* publish.py).                                                              *)
(*                                                                          *)
(* Python's sqlite3 opens a transaction at the first INSERT or DELETE and    *)
(* closes it at commit() or inside executescript().  view is the database    *)
(* as the build's connection sees it, durable what has been committed.  A    *)
(* step that raises is caught per version, without a rollback.               *)
(***************************************************************************)
EXTENDS Naturals, Sequences, FiniteSets, SequencesExt

CONSTANTS Version,   \* Python versions, as numbers that order like them
          Requests   \* the version lists users pass to --versions

ASSUME VersionAssumption == Version \subseteq Nat
ASSUME RequestsAssumption == Requests \subseteq (Seq(Version) \ {<<>>})

VARIABLES
  versionList,  \* the parsed --versions
  skipContent,  \* --skip-content
  todo,         \* versions the loop has not reached
  view,         \* the database through the build's connection
  durable,      \* what is committed in it
  succeeded,    \* any_version_succeeded
  pc,
  faults,       \* history: kinds of failure this run has met
  outcome

vars == <<versionList, skipContent, todo, view, durable, succeeded, pc, faults,
          outcome>>

(* "enough" rows pass the smoke tests: 1000 symbols with asyncio.run, or ten *)
(* documents and fifty sections with an asyncio page.                        *)
Amount == {"none", "few", "enough"}

Database == [docset  : [Version -> {"none", "plain", "default"}],
             symbols : [Version -> Amount],
             docs    : [Version -> Amount],
             symFts  : SUBSET Version,    \* versions symbols_fts indexes
             docFts  : SUBSET Version,    \* versions sections_fts indexes
             tables  : BOOLEAN]           \* all the FTS tables are there

Faults == {"setup", "bootstrap", "upsert", "download", "insert", "symFts",
           "clone", "sha", "tool", "sphinx", "docFts"}

Steps == {"bootstrap", "next", "upsert", "download", "insert", "symFts",
          "content", "sphinx", "docs", "docFts", "publish", "done"}

Outcomes == {"running", "published", "rejected", "aborted"}

version == Head(todo)
Requested == ToSet(versionList)
Newest(S) == CHOOSE v \in S : \A w \in S : w <= v
With(f, v, x) == [f EXCEPT ![v] = x]

-----------------------------------------------------------------------------
(* bootstrap_schema: drop the FTS tables, executescript commits whatever is  *)
(* pending and creates them empty.                                           *)
Bootstrapped == [view EXCEPT !.symFts = {}, !.docFts = {}, !.tables = TRUE]

(* It stops among the drops, sections_fts gone and symbols_fts perhaps.      *)
Dropped(syms) ==
  [view EXCEPT !.symFts = syms, !.docFts = {}, !.tables = FALSE]

CommitView == durable' = view'

(* Mutant of DocSetReplaced: a third kind of row, for the last version.      *)
DocSetLatest ==
  LET v == version IN
  [view EXCEPT
     !.docset = With(@, v, IF Len(todo) = 1 THEN "latest" ELSE "plain"),
     !.symbols = With(@, v, "none"), !.docs = With(@, v, "none")]

(* Mutant of DocSetReplaced: DELETE FROM symbols without its WHERE.          *)
SymbolsCleared ==
  LET v == version IN
  [view EXCEPT
     !.docset = With(@, v, IF v = Newest(Requested) THEN "default" ELSE "plain"),
     !.symbols = [w \in Version |-> "none"],
     !.docs = With(@, v, "none")]

(* REPLACE deletes the row of a version seen before, and ON DELETE CASCADE   *)
(* its symbols and documents; the new symbols are cleared as well.           *)
DocSetReplaced ==
  LET v == version IN
  [view EXCEPT
     !.docset = With(@, v, IF v = Newest(Requested) THEN "default" ELSE "plain"),
     !.symbols = With(@, v, "none"),
     !.docs = With(@, v, "none")]

HasRows(f) == {v \in Version : f[v] # "none"}

-----------------------------------------------------------------------------
(* The loop of build_index.                                                  *)

Keep == UNCHANGED <<versionList, skipContent, outcome>>

(* assert_fts5_available and the bootstrap before the loop.                  *)
FirstBootstrap ==
  /\ pc = "bootstrap"
  /\ view' = Bootstrapped
  /\ CommitView
  /\ pc' = "next"
  /\ UNCHANGED <<todo, succeeded, faults>> /\ Keep

(* Without FTS5, or without the schema, the finally clause deletes the build. *)
SetupFails ==
  /\ pc = "bootstrap"
  /\ faults' = faults \union {"setup"}
  /\ pc' = "done"
  /\ outcome' = "aborted"
  /\ UNCHANGED <<versionList, skipContent, todo, view, durable, succeeded>>

(* ingest_inventory starts the next version with a bootstrap of its own.     *)
StartVersion ==
  /\ pc = "next"
  /\ todo # <<>>
  /\ view' = Bootstrapped
  /\ CommitView
  /\ pc' = "upsert"
  /\ UNCHANGED <<todo, succeeded, faults>> /\ Keep

UpsertDocSet ==
  /\ pc = "upsert"
  /\ view' = DocSetReplaced
  /\ pc' = "download"
  /\ UNCHANGED <<todo, durable, succeeded, faults>> /\ Keep

Download ==
  /\ pc = "download"
  /\ pc' = "insert"
  /\ UNCHANGED <<todo, view, durable, succeeded, faults>> /\ Keep

(* The symbols, then conn.commit().                                          *)
InsertSymbols ==
  /\ pc = "insert"
  /\ \E n \in Amount :
       view' = [view EXCEPT !.symbols = With(@, version, n)]
  /\ CommitView
  /\ pc' = "symFts"
  /\ UNCHANGED <<todo, succeeded, faults>> /\ Keep

(* Mutant of RebuildSymbolsFts: only the symbols of this version go in.       *)
IndexOwnSymbols ==
  /\ pc = "symFts"
  /\ view' = [view EXCEPT !.symFts = {version}]
  /\ CommitView
  /\ \/ /\ pc' = "next" /\ todo' = Tail(todo) /\ succeeded' = TRUE
     \/ ~skipContent /\ pc' = "content" /\ UNCHANGED <<todo, succeeded>>
  /\ UNCHANGED faults /\ Keep

(* The rebuild of symbols_fts and a commit of its own.  A symbol-only build  *)
(* is done with the version here, and so is one of unpinned source.          *)
RebuildSymbolsFts ==
  /\ pc = "symFts"
  /\ view' = [view EXCEPT !.symFts = HasRows(view.symbols)]
  /\ CommitView
  /\ \/ /\ pc' = "next" /\ todo' = Tail(todo) /\ succeeded' = TRUE
     \/ ~skipContent /\ pc' = "content" /\ UNCHANGED <<todo, succeeded>>
  /\ UNCHANGED faults /\ Keep

(* Clone, check of the pinned commit, venv, pip.                             *)
PrepareSphinx ==
  /\ pc = "content"
  /\ pc' = "sphinx"
  /\ UNCHANGED <<todo, view, durable, succeeded, faults>> /\ Keep

RunSphinx ==
  /\ pc = "sphinx"
  /\ pc' = "docs"
  /\ UNCHANGED <<todo, view, durable, succeeded, faults>> /\ Keep

(* ingest_sphinx_json_dir: each page commits or rolls back alone, so a       *)
(* broken page costs only itself.                                            *)
IngestPages ==
  /\ pc = "docs"
  /\ \E n \in Amount : view' = [view EXCEPT !.docs = With(@, version, n)]
  /\ CommitView
  /\ pc' = "next"
  /\ todo' = Tail(todo)
  /\ succeeded' = TRUE
  /\ UNCHANGED faults /\ Keep

-----------------------------------------------------------------------------
(* Failures inside the loop.  "except Exception: ... continue" goes to the   *)
(* next version and leaves any open transaction open; SQLite itself may have *)
(* rolled it back, as it does on a full disk.                                *)

Skip(fault) ==
  /\ faults' = faults \union {fault}
  /\ pc' = "next"
  /\ todo' = Tail(todo)
  /\ Keep

(* The bootstrap of a version raises: before its first drop; among the drops, *)
(* which commit one by one unless a transaction is open; in its commit, which *)
(* SQLite may turn into a rollback; or while it creates the tables anew.     *)
BootstrapFails ==
  /\ pc = "next"
  /\ todo # <<>>
  /\ \/ view' \in {view, durable} /\ UNCHANGED durable
     \/ /\ \E syms \in {view.symFts, {}} : view' = Dropped(syms)
        /\ \/ UNCHANGED durable
           \/ view = durable /\ CommitView
     \/ /\ \E b \in BOOLEAN : view' = [Bootstrapped EXCEPT !.tables = b]
        /\ CommitView
  /\ Skip("bootstrap")
  /\ UNCHANGED succeeded

(* The REPLACE raises, or what follows it does: its cascade has then been     *)
(* through the symbols already.  The bootstrap left nothing else to roll back. *)
UpsertFails ==
  /\ pc = "upsert"
  /\ view' \in {view, DocSetReplaced}
  /\ Skip("upsert")
  /\ UNCHANGED <<durable, succeeded>>

DownloadFails ==
  /\ pc = "download"
  /\ Skip("download")
  /\ UNCHANGED <<view, durable, succeeded>>

InsertFails ==
  /\ pc = "insert"
  /\ \/ \E n \in Amount :
          view' = [view EXCEPT !.symbols = With(@, version, n)]
     \/ view' = durable
  /\ Skip("insert")
  /\ UNCHANGED <<durable, succeeded>>

RebuildSymbolsFtsFails ==
  /\ pc = "symFts"
  /\ Skip("symFts")
  /\ UNCHANGED <<view, durable, succeeded>>

(* CalledProcessError of git or pip: the symbols are in, which counts.       *)
CommandFails ==
  /\ pc = "content"
  /\ Skip("clone")
  /\ succeeded' = TRUE
  /\ UNCHANGED <<view, durable>>

(* git is not installed, or the venv cannot be made: it does not count.      *)
ToolMissing ==
  /\ pc = "content"
  /\ Skip("tool")
  /\ UNCHANGED <<view, durable, succeeded>>

(* sphinx-build returns non-zero: "Version %s has SYMBOLS ONLY".             *)
SphinxFails ==
  /\ pc = "sphinx"
  /\ Skip("sphinx")
  /\ succeeded' = TRUE
  /\ UNCHANGED <<view, durable>>

(* _verify_cpython_source_sha raises SystemExit, which is not an Exception:  *)
(* the run ends and the finally clause deletes the build.                    *)
WrongSource ==
  /\ pc = "content"
  /\ faults' = faults \union {"sha"}
  /\ pc' = "done"
  /\ outcome' = "aborted"
  /\ UNCHANGED <<versionList, skipContent, todo, view, durable, succeeded>>

-----------------------------------------------------------------------------
(* After the loop.                                                           *)

NothingSucceeded ==
  /\ pc = "next"
  /\ todo = <<>>
  /\ ~succeeded
  /\ pc' = "done"
  /\ outcome' = "aborted"
  /\ UNCHANGED <<versionList, skipContent, todo, view, durable, succeeded, faults>>

(* rebuild_fts_indexes commits, which also commits what a failed last        *)
(* version left pending; it raises without the tables.  Then the connection  *)
(* closes.                                                                   *)
RebuildFts ==
  /\ pc = "next"
  /\ todo = <<>>
  /\ succeeded
  /\ view.tables
  /\ view' = [view EXCEPT !.docFts = HasRows(view.docs)]
  /\ CommitView
  /\ pc' = "publish"
  /\ UNCHANGED <<todo, succeeded, faults>> /\ Keep

RebuildFtsFails ==
  /\ pc = "next"
  /\ todo = <<>>
  /\ succeeded
  /\ faults' = faults \union {"docFts"}
  /\ pc' = "done"
  /\ outcome' = "aborted"
  /\ UNCHANGED <<versionList, skipContent, todo, view, durable, succeeded>>

-----------------------------------------------------------------------------
(* run_smoke_tests on the closed build, with the requested versions.         *)

Defaults(db) == {v \in Version : db.docset[v] = "default"}

SmokeDocSets(db) ==
  /\ \A v \in Requested : db.docset[v] # "none"
  /\ Defaults(db) = {Newest(Requested)}

SmokeSymbols(db) == \A v \in Requested : db.symbols[v] = "enough"

(* Mutant of SmokeContent: one version with documents is enough.             *)
SmokeSomeContent(db) ==
  skipContent \/ \E v \in Requested : db.docs[v] = "enough"

SmokeContent(db) == skipContent \/ \A v \in Requested : db.docs[v] = "enough"

Smoke(db) == SmokeDocSets(db) /\ SmokeSymbols(db) /\ SmokeContent(db)

PublishIndex ==
  /\ pc = "publish"
  /\ outcome' = IF Smoke(durable) THEN "published" ELSE "rejected"
  /\ pc' = "done"
  /\ UNCHANGED <<versionList, skipContent, todo, view, durable, succeeded, faults>>

-----------------------------------------------------------------------------
Empty == [docset  |-> [v \in Version |-> "none"],
          symbols |-> [v \in Version |-> "none"],
          docs    |-> [v \in Version |-> "none"],
          symFts  |-> {},
          docFts  |-> {},
          tables  |-> FALSE]

Init ==
  /\ versionList \in Requests
  /\ skipContent \in BOOLEAN
  /\ todo = versionList
  /\ view = Empty
  /\ durable = Empty
  /\ succeeded = FALSE
  /\ pc = "bootstrap"
  /\ faults = {}
  /\ outcome = "running"

VersionStep ==
  \/ StartVersion \/ UpsertDocSet \/ Download \/ InsertSymbols
  \/ RebuildSymbolsFts \/ PrepareSphinx \/ RunSphinx \/ IngestPages

VersionFailure ==
  \/ BootstrapFails \/ UpsertFails \/ DownloadFails \/ InsertFails
  \/ RebuildSymbolsFtsFails \/ CommandFails \/ ToolMissing \/ SphinxFails
  \/ WrongSource

Ending == NothingSucceeded \/ RebuildFts \/ RebuildFtsFails \/ PublishIndex

Next == FirstBootstrap \/ SetupFails \/ VersionStep \/ VersionFailure \/ Ending

Spec == Init /\ [][Next]_vars

-----------------------------------------------------------------------------
(* Properties.                                                               *)

(* Every variable holds a value of its kind.                                 *)
TypeOK ==
  /\ versionList \in Requests
  /\ skipContent \in BOOLEAN
  /\ todo \in Seq(Version)
  /\ view \in Database
  /\ durable \in Database
  /\ succeeded \in BOOLEAN
  /\ pc \in Steps
  /\ faults \subseteq Faults
  /\ outcome \in Outcomes

(* The loop goes on after a failed version, but publishing is all or nothing: *)
(* of a list without repetitions, no version that failed to download, build  *)
(* or match its pinned source is in a published index.  Two failures get     *)
(* through, and only in a symbol-only build: one after the symbols are       *)
(* committed, and one in the middle of the inserts, whose open transaction   *)
(* the next commit saves (build_index, ingest_inventory, run_smoke_tests).   *)
AllOrNothing ==
  /\ outcome = "published"
  /\ Len(versionList) = Cardinality(Requested)
  => faults \subseteq (IF skipContent THEN {"insert", "symFts"} ELSE {})

(* In a published index sections_fts indexes exactly the documents, and       *)
(* symbols_fts either exactly the symbols or nothing at all.  It indexes them *)
(* unless some version failed after it began and before its own rebuild of    *)
(* symbols_fts was done, other than in its download: a list may name a        *)
(* version twice, and then its first pass left rows that pass the smoke tests *)
(* (bootstrap_schema, ingest_inventory, rebuild_fts_indexes).                *)
PublishedFtsAgrees ==
  outcome = "published" =>
    /\ durable.docFts = HasRows(durable.docs)
    /\ durable.symFts \in {HasRows(durable.symbols), {}}
    /\ faults \intersect {"bootstrap", "upsert", "insert", "symFts"} = {} =>
         durable.symFts = HasRows(durable.symbols)

(* No step touches the rows of a version other than the one the loop is at,  *)
(* neither in the transaction nor in the file: a commit made for one version *)
(* saves nothing new of another unless that one failed with its transaction  *)
(* open.                                                                     *)
VersionsAreIsolated ==
  [][\A v \in Version :
       /\ todo # <<>> => v # version
       /\ faults \intersect {"upsert", "download", "insert"} = {}
       => /\ durable'.docset[v] = durable.docset[v]
          /\ durable'.symbols[v] = durable.symbols[v]
          /\ durable'.docs[v] = durable.docs[v]]_vars

(* Contradicted.  "For symbol-only builds: symbols_fts is searchable": the   *)
(* symbols of every requested version can be found through symbols_fts.      *)
PublishedSymbolsSearchable ==
  outcome = "published" /\ skipContent => Requested \subseteq durable.symFts
=============================================================================
