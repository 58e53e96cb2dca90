----------------------------- MODULE IngestProofs -----------------------------
(* Proofs about Ingest, for any versions and any lists of them.              *)
EXTENDS Ingest, FiniteSetTheorems, SequenceTheorems, TLAPS

Working == {"upsert", "download", "insert", "symFts", "content", "sphinx", "docs"}

(* The loop works on a version that was asked for.                           *)
AtVersion ==
  /\ pc \in Working => todo # <<>>
  /\ ToSet(todo) \subseteq Requested
  /\ pc \in {"content", "sphinx", "docs"} => ~skipContent

(* Only an open transaction sets the two databases apart, and only in the      *)
(* rows of the version at work.                                              *)
Committed ==
  faults \intersect {"upsert", "download", "insert"} = {} =>
    \A v \in Version :
      (pc \in {"download", "insert"} => v # version)
      => /\ view.docset[v] = durable.docset[v]
         /\ view.symbols[v] = durable.symbols[v]
         /\ view.docs[v] = durable.docs[v]

NoRepetition == Len(versionList) = Cardinality(Requested)

(* Of a list without repetitions, nothing is known yet of what is to come.   *)
Fresh ==
  NoRepetition /\ pc # "done" =>
    /\ IsInjective(todo)
    /\ \A v \in ToSet(todo) :
         /\ view.docs[v] = "none" /\ durable.docs[v] = "none"
         /\ v # version \/ pc \notin {"symFts", "content", "sphinx", "docs"} =>
              view.symbols[v] = "none" /\ durable.symbols[v] = "none"

Lacks(f, g) == \E v \in Requested \ ToSet(todo) : f[v] = "none" /\ g[v] = "none"

(* A version that failed stays without what it failed before.                *)
FailuresShow ==
  /\ faults \intersect {"clone", "tool", "sphinx"} # {} => ~skipContent
  /\ faults \intersect {"setup", "sha", "docFts"} # {} =>
       pc = "done" /\ outcome = "aborted"
  /\ NoRepetition /\ faults \intersect {"bootstrap", "upsert", "download"} # {}
       => Lacks(view.symbols, durable.symbols)
  /\ NoRepetition /\ faults \intersect {"insert", "symFts", "clone", "tool", "sphinx"} # {}
       => Lacks(view.docs, durable.docs)

(* The full-text tables follow the rows, or a version has no symbols.        *)
FtsFollows ==
  faults \intersect {"bootstrap", "upsert", "insert", "symFts"} = {} =>
    /\ pc \in {"content", "sphinx", "docs"} => view.symFts = HasRows(view.symbols)
    /\ pc \in {"download", "insert"} => view.symbols[version] = "none"
    /\ pc \in {"next", "publish"} =>
         \/ view.symFts = HasRows(view.symbols)
         \/ \E v \in Requested : view.symbols[v] = "none"

(* symbols_fts is whole or empty, and empty while symbols come and go.        *)
FtsWhole ==
  /\ view.symFts \in {HasRows(view.symbols), {}}
  /\ durable.symFts \in {HasRows(durable.symbols), {}}
  /\ pc \in {"upsert", "download", "insert", "symFts"} =>
       view.symFts = {} /\ durable.symFts = {}

(* What the last rebuilds of a published index made of its tables.           *)
PublishedRebuilt ==
  outcome = "published" =>
    /\ durable.docFts = HasRows(durable.docs)
    /\ faults \intersect {"bootstrap", "upsert", "insert", "symFts"} = {} =>
         durable.symFts = HasRows(durable.symbols)

(* The two ends of the loop.                                                 *)
Closed ==
  /\ pc = "bootstrap" => view = Empty
  /\ pc = "publish" => durable = view /\ view.docFts = HasRows(view.docs)

Verdict ==
  /\ outcome = "published" => Smoke(durable) /\ pc = "done"
  /\ pc \notin {"done"} => outcome = "running"

IndInv ==
  /\ TypeOK /\ AtVersion /\ Committed /\ Fresh /\ FailuresShow /\ FtsFollows
  /\ Closed /\ Verdict /\ PublishedRebuilt

-----------------------------------------------------------------------------
(* Lists of versions.                                                        *)

(* The head of a list and what is left of it.                                *)
LEMMA HeadAndTail ==
  ASSUME NEW s \in Seq(Version), s # <<>>
  PROVE  /\ Head(s) \in Version /\ Tail(s) \in Seq(Version)
         /\ ToSet(s) = ToSet(Tail(s)) \union {Head(s)}
         /\ IsInjective(s) => IsInjective(Tail(s)) /\ Head(s) \notin ToSet(Tail(s))
<1>1. /\ Head(s) \in Version /\ Tail(s) \in Seq(Version)
      /\ Len(Tail(s)) = Len(s) - 1 /\ Len(s) \in Nat \ {0}
      /\ \A i \in 1 .. Len(Tail(s)) : Tail(s)[i] = s[i + 1]
  BY HeadTailProperties, EmptySeq
<1>2. DOMAIN s = 1 .. Len(s) /\ DOMAIN Tail(s) = 1 .. Len(s) - 1 /\ Head(s) = s[1]
  BY <1>1
<1>3. ToSet(s) = ToSet(Tail(s)) \union {Head(s)}
  <2>1. ASSUME NEW i \in DOMAIN s PROVE s[i] \in ToSet(Tail(s)) \union {Head(s)}
    <3>1. CASE i = 1
      BY <3>1, <1>2
    <3>2. CASE i # 1
      <4>1. i - 1 \in DOMAIN Tail(s) /\ Tail(s)[i - 1] = s[i]
        BY <1>1, <1>2, <3>2
      <4> QED BY <4>1 DEF ToSet
    <3> QED BY <3>1, <3>2
  <2>2. ASSUME NEW i \in DOMAIN Tail(s) PROVE Tail(s)[i] \in ToSet(s)
    <3>1. i + 1 \in DOMAIN s /\ Tail(s)[i] = s[i + 1]
      BY <1>1, <1>2
    <3> QED BY <3>1 DEF ToSet
  <2>3. Head(s) \in ToSet(s)
    BY <1>1, <1>2 DEF ToSet
  <2> QED BY <2>1, <2>2, <2>3 DEF ToSet
<1>4. ASSUME IsInjective(s) PROVE IsInjective(Tail(s)) /\ Head(s) \notin ToSet(Tail(s))
  BY <1>1, <1>2, <1>4 DEF IsInjective, ToSet
<1> QED BY <1>1, <1>3, <1>4

(* A list that is as long as the set of its elements repeats none.           *)
LEMMA NoRepetitionIsInjective ==
  ASSUME NEW s \in Seq(Version), Len(s) = Cardinality(ToSet(s))
  PROVE  IsInjective(s)
<1>1. s \in Surjection(1 .. Len(s), ToSet(s))
  <2>1. DOMAIN s = 1 .. Len(s) /\ s \in [1 .. Len(s) -> Version]
    OBVIOUS
  <2>2. s \in [1 .. Len(s) -> ToSet(s)]
    BY <2>1 DEF ToSet
  <2>3. \A v \in ToSet(s) : \E i \in 1 .. Len(s) : s[i] = v
    BY <2>1 DEF ToSet
  <2> QED BY <2>2, <2>3 DEF Surjection
<1>2. IsFiniteSet(1 .. Len(s)) /\ Cardinality(1 .. Len(s)) = Len(s)
  <2>1. Len(s) \in Nat
    OBVIOUS
  <2> QED BY <2>1, FS_Interval
<1>3. s \in Injection(1 .. Len(s), ToSet(s))
  BY <1>1, <1>2, FS_Surjection
<1> QED BY <1>3 DEF Injection, IsInjective

LEMMA InitInd == Init => IndInv
<1> SUFFICES ASSUME Init PROVE IndInv
  OBVIOUS
<1>1. versionList \in Seq(Version) /\ versionList # <<>> /\ todo = versionList
  BY RequestsAssumption DEF Init
<1>2. TypeOK
  BY <1>1 DEF Init, TypeOK, Database, Amount, Steps, Outcomes, Faults, Empty
<1>3. Fresh
  <2>1. NoRepetition => IsInjective(todo)
    BY <1>1, NoRepetitionIsInjective DEF NoRepetition, Requested
  <2>2. \A v \in ToSet(todo) : v \in Version
    BY <1>1 DEF ToSet
  <2> QED BY <2>1, <2>2 DEF Init, Fresh, Empty
<1>4. AtVersion /\ Committed /\ FailuresShow /\ FtsFollows /\ Closed
  BY <1>1 DEF Init, AtVersion, Committed, FailuresShow, FtsFollows, Closed, Working,
              Requested
<1>5. Verdict /\ PublishedRebuilt
  BY DEF Init, Verdict, PublishedRebuilt
<1> QED BY <1>2, <1>3, <1>4, <1>5 DEF IndInv

-----------------------------------------------------------------------------
(* The version at work, and what a step makes of the database.               *)

LEMMA SetsOfVersions ==
  ASSUME IndInv
  PROVE  Requested \subseteq Version /\ ToSet(todo) \subseteq Version
<1>1. ASSUME NEW s \in Seq(Version) PROVE ToSet(s) \subseteq Version
  BY DEF ToSet
<1>2. todo \in Seq(Version) /\ versionList \in Seq(Version)
  BY RequestsAssumption DEF IndInv, TypeOK
<1> QED BY <1>1, <1>2 DEF Requested

LEMMA AtWork ==
  ASSUME IndInv, todo # <<>>
  PROVE  /\ version \in Version /\ version \in Requested /\ Tail(todo) \in Seq(Version)
         /\ ToSet(todo) = ToSet(Tail(todo)) \union {version}
         /\ IsInjective(todo) => IsInjective(Tail(todo)) /\ version \notin ToSet(Tail(todo))
         /\ Tail(todo) # <<>> => Head(Tail(todo)) \in ToSet(Tail(todo))
<1>1. todo \in Seq(Version) /\ ToSet(todo) \subseteq Requested
  BY DEF IndInv, TypeOK, AtVersion
<1>2. /\ version \in Version /\ Tail(todo) \in Seq(Version)
      /\ ToSet(todo) = ToSet(Tail(todo)) \union {version}
      /\ IsInjective(todo) => IsInjective(Tail(todo)) /\ version \notin ToSet(Tail(todo))
  BY <1>1, HeadAndTail DEF version
<1>3. Tail(todo) # <<>> => Head(Tail(todo)) \in ToSet(Tail(todo))
  BY <1>2, HeadAndTail
<1> QED BY <1>1, <1>2, <1>3

LEMMA TablesChange ==
  ASSUME NEW db \in Database, NEW S \in SUBSET Version
  PROVE  /\ [db EXCEPT !.symFts = S] \in Database
         /\ [db EXCEPT !.docFts = S] \in Database
         /\ \A b \in BOOLEAN :
              [db EXCEPT !.symFts = S, !.docFts = {}, !.tables = b] \in Database
BY DEF Database

LEMMA RowsChange ==
  ASSUME NEW db \in Database, NEW v \in Version, NEW n \in Amount
  PROVE  /\ [db EXCEPT !.symbols = With(@, v, n)] \in Database
         /\ [db EXCEPT !.docs = With(@, v, n)] \in Database
<1>1. /\ With(db.symbols, v, n) \in [Version -> Amount]
      /\ With(db.docs, v, n) \in [Version -> Amount]
  BY DEF Database, With
<1> QED BY <1>1 DEF Database

LEMMA DocSetChanges ==
  ASSUME NEW db \in Database, NEW v \in Version, NEW kind \in {"plain", "default"}
  PROVE  [db EXCEPT !.docset = With(@, v, kind), !.symbols = With(@, v, "none"),
                    !.docs = With(@, v, "none")] \in Database
<1>1. "none" \in Amount
  BY DEF Amount
<1>2. /\ With(db.symbols, v, "none") \in [Version -> Amount]
      /\ With(db.docs, v, "none") \in [Version -> Amount]
      /\ With(db.docset, v, kind) \in [Version -> {"none", "plain", "default"}]
  BY <1>1 DEF Database, With
<1> QED BY <1>2 DEF Database

USE DEF IndInv, Keep, Skip, CommitView, Bootstrapped, With, Working, Lacks, Requested,
        NoRepetition, HasRows

-----------------------------------------------------------------------------
(* The loop.                                                                 *)

LEMMA FirstBootstrapInd ==
  ASSUME IndInv, FirstBootstrap
  PROVE  IndInv'
<1> USE DEF FirstBootstrap
<1>1. TypeOK'
  <2>1. view' \in Database
    BY TablesChange, Zenon DEF TypeOK
  <2> QED BY <2>1 DEF TypeOK, Steps
<1>2. FtsFollows'
  <2>1. \A v \in Version : view'.symbols[v] = "none"
    BY DEF Closed, Empty
  <2>2. view'.symFts = HasRows(view'.symbols)
    BY <2>1 DEF Closed, Empty
  <2> QED BY <2>2 DEF FtsFollows
<1>3. PublishedRebuilt'
  BY DEF PublishedRebuilt, Verdict
<1>4. AtVersion' /\ Committed' /\ Fresh' /\ FailuresShow'
  BY DEF AtVersion, Committed, Fresh, FailuresShow
<1>5. Closed' /\ Verdict'
  BY DEF Closed, Verdict
<1> QED BY <1>1, <1>2, <1>3, <1>4, <1>5

LEMMA SetupFailsInd ==
  ASSUME IndInv, SetupFails
  PROVE  IndInv'
<1> USE DEF SetupFails
<1>1. TypeOK'
  BY DEF TypeOK, Steps, Outcomes, Faults
<1>2. AtVersion' /\ Committed' /\ Fresh' /\ FailuresShow'
  BY DEF AtVersion, Committed, Fresh, FailuresShow
<1>3. FtsFollows' /\ Closed' /\ Verdict' /\ PublishedRebuilt'
  BY DEF FtsFollows, Closed, Verdict, PublishedRebuilt
<1> QED BY <1>1, <1>2, <1>3

LEMMA StartVersionInd ==
  ASSUME IndInv, StartVersion
  PROVE  IndInv'
<1> USE DEF StartVersion
<1>1. TypeOK'
  <2>1. view' \in Database
    BY TablesChange, Zenon DEF TypeOK
  <2> QED BY <2>1 DEF TypeOK, Steps
<1>2. PublishedRebuilt'
  BY DEF PublishedRebuilt, Verdict
<1>3. AtVersion' /\ Committed' /\ Fresh' /\ FailuresShow'
  BY DEF AtVersion, Committed, Fresh, FailuresShow
<1>4. FtsFollows' /\ Closed' /\ Verdict'
  BY DEF FtsFollows, Closed, Verdict
<1> QED BY <1>1, <1>2, <1>3, <1>4

LEMMA UpsertDocSetInd ==
  ASSUME IndInv, UpsertDocSet
  PROVE  IndInv'
<1> USE DEF UpsertDocSet, DocSetReplaced
<1>1. version' = version
  BY DEF version
<1>2. TypeOK'
  <2>1. version \in Version
    BY AtWork DEF AtVersion
  <2>2. (IF version = Newest(Requested) THEN "default" ELSE "plain") \in {"plain", "default"}
    OBVIOUS
  <2>3. view' \in Database
    BY <2>1, <2>2, DocSetChanges, Zenon DEF TypeOK
  <2> QED BY <2>3 DEF TypeOK, Steps
<1>3. Committed'
  BY <1>1 DEF Committed
<1>4. FtsFollows'
  <2>1. version \in Version
    BY AtWork DEF AtVersion
  <2>2. view'.symbols[version] = "none"
    BY <2>1 DEF DocSetReplaced, TypeOK, Database
  <2> QED BY <1>1, <2>2 DEF FtsFollows
<1>5. AtVersion' /\ Fresh' /\ FailuresShow' /\ Closed'
  BY DEF AtVersion, Fresh, FailuresShow, Closed
<1>6. Verdict' /\ PublishedRebuilt'
  BY DEF Verdict, PublishedRebuilt
<1> QED BY <1>1, <1>2, <1>3, <1>4, <1>5, <1>6

LEMMA DownloadInd ==
  ASSUME IndInv, Download
  PROVE  IndInv'
<1> USE DEF Download
<1>1. version' = version
  BY DEF version
<1>2. TypeOK'
  BY DEF TypeOK, Steps, Outcomes, Faults
<1>3. Committed'
  BY <1>1 DEF Committed
<1>4. FtsFollows'
  BY <1>1 DEF FtsFollows
<1>5. AtVersion' /\ Fresh' /\ FailuresShow' /\ Closed'
  BY DEF AtVersion, Fresh, FailuresShow, Closed
<1>6. Verdict' /\ PublishedRebuilt'
  BY DEF Verdict, PublishedRebuilt
<1> QED BY <1>1, <1>2, <1>3, <1>4, <1>5, <1>6

LEMMA InsertSymbolsInd ==
  ASSUME IndInv, InsertSymbols
  PROVE  IndInv'
<1> USE DEF InsertSymbols
<1>1. version' = version
  BY DEF version
<1>2. TypeOK'
  <2>1. version \in Version
    BY AtWork DEF AtVersion
  <2>2. PICK n \in Amount : view' = [view EXCEPT !.symbols = With(@, version, n)]
    OBVIOUS
  <2>3. view' \in Database
    BY <2>1, <2>2, RowsChange, Zenon DEF TypeOK
  <2> QED BY <2>3 DEF TypeOK, Steps
<1>3. Fresh'
  BY <1>1 DEF Fresh
<1>4. FailuresShow'
  BY AtWork DEF FailuresShow, AtVersion
<1>5. PublishedRebuilt'
  BY DEF PublishedRebuilt, Verdict
<1>6. AtVersion' /\ Committed' /\ FtsFollows' /\ Closed'
  BY DEF AtVersion, Committed, FtsFollows, Closed
<1>7. Verdict'
  BY DEF Verdict
<1> QED BY <1>1, <1>2, <1>3, <1>4, <1>5, <1>6, <1>7

LEMMA RebuildSymbolsFtsInd ==
  ASSUME IndInv, RebuildSymbolsFts
  PROVE  IndInv'
<1> USE DEF RebuildSymbolsFts
<1>1. TypeOK'
  <2>1. view' \in Database
    <3>1. HasRows(view.symbols) \in SUBSET Version
      OBVIOUS
    <3> QED BY <3>1, TablesChange, Zenon DEF TypeOK
  <2>2. Tail(todo) \in Seq(Version)
    BY AtWork DEF AtVersion
  <2> QED BY <2>1, <2>2 DEF TypeOK, Steps
<1>2. AtVersion'
  <2>1. CASE pc' = "next"
    BY <2>1, AtWork DEF AtVersion
  <2>2. CASE pc' = "content"
    BY <2>2 DEF AtVersion
  <2> QED BY <2>1, <2>2
<1>3. Fresh'
  <2>1. CASE pc' = "next" /\ todo' = Tail(todo)
    BY <2>1, AtWork DEF Fresh, AtVersion
  <2>2. CASE pc' = "content" /\ todo' = todo
    <3>1. version' = version
      BY <2>2 DEF version
    <3> QED BY <2>2, <3>1 DEF Fresh
  <2> QED BY <2>1, <2>2
<1>4. FailuresShow'
  <2>1. CASE pc' = "next" /\ todo' = Tail(todo)
    BY <2>1, AtWork DEF FailuresShow, AtVersion
  <2>2. CASE pc' = "content" /\ todo' = todo
    BY <2>2 DEF FailuresShow
  <2> QED BY <2>1, <2>2
<1>5. PublishedRebuilt'
  BY DEF PublishedRebuilt, Verdict
<1>6. Committed' /\ FtsFollows' /\ Closed' /\ Verdict'
  BY DEF Committed, FtsFollows, Closed, Verdict
<1> QED BY <1>1, <1>2, <1>3, <1>4, <1>5, <1>6

LEMMA PrepareSphinxInd ==
  ASSUME IndInv, PrepareSphinx
  PROVE  IndInv'
<1> USE DEF PrepareSphinx
<1>1. version' = version
  BY DEF version
<1>2. TypeOK'
  BY DEF TypeOK, Steps, Outcomes, Faults
<1>3. Fresh'
  BY <1>1 DEF Fresh
<1>4. AtVersion' /\ Committed' /\ FailuresShow' /\ FtsFollows'
  BY DEF AtVersion, Committed, FailuresShow, FtsFollows
<1>5. Closed' /\ Verdict' /\ PublishedRebuilt'
  BY DEF Closed, Verdict, PublishedRebuilt
<1> QED BY <1>1, <1>2, <1>3, <1>4, <1>5

LEMMA RunSphinxInd ==
  ASSUME IndInv, RunSphinx
  PROVE  IndInv'
<1> USE DEF RunSphinx
<1>1. version' = version
  BY DEF version
<1>2. TypeOK'
  BY DEF TypeOK, Steps, Outcomes, Faults
<1>3. Fresh'
  BY <1>1 DEF Fresh
<1>4. AtVersion' /\ Committed' /\ FailuresShow' /\ FtsFollows'
  BY DEF AtVersion, Committed, FailuresShow, FtsFollows
<1>5. Closed' /\ Verdict' /\ PublishedRebuilt'
  BY DEF Closed, Verdict, PublishedRebuilt
<1> QED BY <1>1, <1>2, <1>3, <1>4, <1>5

LEMMA IngestPagesInd ==
  ASSUME IndInv, IngestPages
  PROVE  IndInv'
<1> USE DEF IngestPages
<1>1. TypeOK'
  <2>1. version \in Version /\ Tail(todo) \in Seq(Version)
    BY AtWork DEF AtVersion
  <2>2. PICK n \in Amount : view' = [view EXCEPT !.docs = With(@, version, n)]
    OBVIOUS
  <2>3. view' \in Database
    BY <2>1, <2>2, RowsChange, Zenon DEF TypeOK
  <2> QED BY <2>1, <2>3 DEF TypeOK, Steps
<1>2. AtVersion'
  BY AtWork DEF AtVersion
<1>3. Fresh'
  BY AtWork DEF Fresh, AtVersion
<1>4. FailuresShow'
  BY AtWork DEF FailuresShow, AtVersion
<1>5. PublishedRebuilt'
  BY DEF PublishedRebuilt, Verdict
<1>6. Committed' /\ FtsFollows' /\ Closed' /\ Verdict'
  BY DEF Committed, FtsFollows, Closed, Verdict
<1> QED BY <1>1, <1>2, <1>3, <1>4, <1>5, <1>6

-----------------------------------------------------------------------------
(* Failures inside the loop.                                                 *)

(* However far a bootstrap gets, it touches no row.                          *)
LEMMA BootstrapLeaves ==
  ASSUME TypeOK, BootstrapFails
  PROVE  /\ durable' \in {durable, view'}
         /\ \/ view' \in {view, durable} /\ durable' = durable
            \/ /\ view'.docset = view.docset /\ view'.symbols = view.symbols
               /\ view'.docs = view.docs /\ view'.symFts \in {view.symFts, {}}
<1>1. CASE view' \in {view, durable} /\ durable' = durable
  BY <1>1
<1>2. DOMAIN view = {"docset", "symbols", "docs", "symFts", "docFts", "tables"}
  BY DEF TypeOK, Database
<1>3. durable' \in {durable, view'}
  BY DEF BootstrapFails
<1>4. ASSUME NEW syms \in {view.symFts, {}}, view' = Dropped(syms)
      PROVE  /\ view'.docset = view.docset /\ view'.symbols = view.symbols
             /\ view'.docs = view.docs /\ view'.symFts = syms
  BY <1>2, <1>4 DEF Dropped
<1>5. ASSUME NEW b \in BOOLEAN, view' = [Bootstrapped EXCEPT !.tables = b]
      PROVE  /\ view'.docset = view.docset /\ view'.symbols = view.symbols
             /\ view'.docs = view.docs /\ view'.symFts = {}
  BY <1>2, <1>5
<1> QED BY <1>1, <1>3, <1>4, <1>5 DEF BootstrapFails

LEMMA BootstrapFailsInd ==
  ASSUME IndInv, BootstrapFails
  PROVE  IndInv'
<1> USE DEF BootstrapFails, Dropped
<1>1. view' \in Database /\ durable' \in Database
  <2>1. CASE view' \in {view, durable} /\ durable' = durable
    BY <2>1 DEF TypeOK
  <2>2. ASSUME NEW syms \in {view.symFts, {}}, view' = Dropped(syms)
        PROVE  view' \in Database
    <3>1. syms \in SUBSET Version /\ FALSE \in BOOLEAN /\ view \in Database
      BY DEF TypeOK, Database
    <3>2. view' = [view EXCEPT !.symFts = syms, !.docFts = {}, !.tables = FALSE]
      BY <2>2
    <3> QED BY <3>1, <3>2, TablesChange, Zenon
  <2>3. ASSUME NEW b \in BOOLEAN, view' = [Bootstrapped EXCEPT !.tables = b]
        PROVE  view' \in Database
    <3>1. view' = [view EXCEPT !.symFts = {}, !.docFts = {}, !.tables = b]
      BY <2>3 DEF TypeOK, Database
    <3>2. {} \in SUBSET Version /\ view \in Database
      BY DEF TypeOK
    <3> QED BY <3>1, <3>2, TablesChange, Zenon
  <2> QED BY <2>1, <2>2, <2>3 DEF TypeOK
<1>2. \A v \in Version :
        /\ \/ /\ view'.docset = view.docset /\ view'.symbols = view.symbols
              /\ view'.docs = view.docs
           \/ view' = durable /\ durable' = durable
        /\ \/ /\ durable'.docset = durable.docset /\ durable'.symbols = durable.symbols
              /\ durable'.docs = durable.docs
           \/ durable' = view' /\ view'.docset = view.docset
              /\ view'.symbols = view.symbols /\ view'.docs = view.docs
  BY DEF TypeOK, Database
<1>3. \A v \in Version :
        /\ view'.docs[v] \in {view.docs[v], durable.docs[v]}
        /\ durable'.docs[v] \in {view.docs[v], durable.docs[v]}
        /\ view'.symbols[v] \in {view.symbols[v], durable.symbols[v]}
        /\ durable'.symbols[v] \in {view.symbols[v], durable.symbols[v]}
  BY <1>2
<1>4. TypeOK'
  <2>1. Tail(todo) \in Seq(Version)
    BY AtWork DEF AtVersion
  <2> QED BY <1>1, <2>1 DEF TypeOK, Steps, Faults
<1>5. AtVersion'
  BY AtWork DEF AtVersion
<1>6. Committed'
  BY <1>2 DEF Committed
<1>7. Fresh'
  <2> SUFFICES ASSUME NoRepetition PROVE Fresh'
    BY DEF Fresh
  <2>1. \A v \in ToSet(Tail(todo)) : v \in Version \ {version} /\ v \in ToSet(todo)
    BY AtWork, SetsOfVersions DEF AtVersion, Fresh
  <2> QED BY <1>3, <2>1, AtWork DEF Fresh, AtVersion
<1>8. FailuresShow'
  <2>1. /\ ToSet(todo) \subseteq Requested
        /\ version \in Requested /\ version \in ToSet(todo) /\ version \in Version
        /\ todo' = Tail(todo) /\ ToSet(Tail(todo)) \subseteq ToSet(todo)
        /\ NoRepetition => version \notin ToSet(Tail(todo))
    BY AtWork DEF AtVersion, Fresh
  <2>2. NoRepetition => /\ view.symbols[version] = "none"
                        /\ durable.symbols[version] = "none"
    BY <2>1 DEF Fresh
  <2>3. NoRepetition => Lacks(view.symbols, durable.symbols)'
    BY <1>3, <2>1, <2>2
  <2>4. NoRepetition /\ Lacks(view.docs, durable.docs) => Lacks(view.docs, durable.docs)'
    BY <1>3, <2>1, SetsOfVersions
  <2> QED BY <2>3, <2>4 DEF FailuresShow
<1>9. FtsFollows' /\ Closed' /\ Verdict' /\ PublishedRebuilt'
  BY DEF FtsFollows, Closed, Verdict, PublishedRebuilt
<1> QED BY <1>4, <1>5, <1>6, <1>7, <1>8, <1>9

LEMMA UpsertFailsInd ==
  ASSUME IndInv, UpsertFails
  PROVE  IndInv'
<1> USE DEF UpsertFails
<1>1. /\ version \in Version /\ Tail(todo) \in Seq(Version)
      /\ ToSet(todo) \subseteq Requested
      /\ version \in Requested /\ version \in ToSet(todo)
      /\ todo' = Tail(todo) /\ ToSet(Tail(todo)) \subseteq ToSet(todo)
      /\ NoRepetition => version \notin ToSet(Tail(todo))
  BY AtWork DEF AtVersion, Fresh
<1>2. \A v \in Version :
        /\ view'.docs[v] \in {view.docs[v], "none"}
        /\ view'.symbols[v] \in {view.symbols[v], "none"}
  <2>1. CASE view' = view
    BY <2>1
  <2>2. CASE view' = DocSetReplaced
    BY <2>2 DEF TypeOK, Database, DocSetReplaced
  <2> QED BY <2>1, <2>2
<1>3. TypeOK'
  <2>1. (IF version = Newest(Requested) THEN "default" ELSE "plain") \in {"plain", "default"}
    OBVIOUS
  <2>2. DocSetReplaced \in Database
    BY <1>1, <2>1, DocSetChanges, Zenon DEF TypeOK, DocSetReplaced
  <2> QED BY <1>1, <2>2 DEF TypeOK, Steps, Faults
<1>4. AtVersion'
  BY AtWork DEF AtVersion
<1>5. Committed'
  BY DEF Committed
<1>6. Fresh'
  <2> SUFFICES ASSUME NoRepetition PROVE Fresh'
    BY DEF Fresh
  <2>1. \A v \in ToSet(Tail(todo)) : v \in Version \ {version} /\ v \in ToSet(todo)
    BY AtWork, SetsOfVersions DEF AtVersion, Fresh
  <2> QED BY <1>2, <2>1, AtWork DEF Fresh, AtVersion
<1>7. FailuresShow'
  <2>1. NoRepetition => /\ view.symbols[version] = "none"
                        /\ durable.symbols[version] = "none"
    BY <1>1 DEF Fresh
  <2>2. NoRepetition => Lacks(view.symbols, durable.symbols)'
    BY <1>1, <1>2, <2>1
  <2>3. NoRepetition /\ Lacks(view.docs, durable.docs) => Lacks(view.docs, durable.docs)'
    BY <1>1, <1>2, SetsOfVersions
  <2> QED BY <2>2, <2>3 DEF FailuresShow
<1>8. FtsFollows' /\ Closed' /\ Verdict' /\ PublishedRebuilt'
  BY DEF FtsFollows, Closed, Verdict, PublishedRebuilt
<1> QED BY <1>3, <1>4, <1>5, <1>6, <1>7, <1>8

LEMMA DownloadFailsInd ==
  ASSUME IndInv, DownloadFails
  PROVE  IndInv'
<1> USE DEF DownloadFails
<1>1. TypeOK'
  <2>1. Tail(todo) \in Seq(Version)
    BY AtWork DEF AtVersion
  <2> QED BY <2>1 DEF TypeOK, Steps, Faults
<1>2. AtVersion'
  BY AtWork DEF AtVersion
<1>3. Fresh'
  BY AtWork DEF Fresh, AtVersion
<1>4. FailuresShow'
  BY AtWork DEF FailuresShow, TypeOK, AtVersion, Fresh
<1>5. FtsFollows'
  BY AtWork DEF FtsFollows, AtVersion
<1>6. Committed' /\ Closed' /\ Verdict' /\ PublishedRebuilt'
  BY DEF Committed, Closed, Verdict, PublishedRebuilt
<1> QED BY <1>1, <1>2, <1>3, <1>4, <1>5, <1>6

LEMMA InsertFailsInd ==
  ASSUME IndInv, InsertFails
  PROVE  IndInv'
<1> USE DEF InsertFails
<1>1. \A v \in Version :
        /\ view'.docs[v] \in {view.docs[v], durable.docs[v]}
        /\ v # version => view'.symbols[v] \in {view.symbols[v], durable.symbols[v]}
  BY DEF TypeOK, Database
<1>2. TypeOK'
  <2>1. version \in Version /\ Tail(todo) \in Seq(Version)
    BY AtWork DEF AtVersion
  <2>2. ASSUME NEW n \in Amount, view' = [view EXCEPT !.symbols = With(@, version, n)]
        PROVE  view' \in Database
    BY <2>1, <2>2, RowsChange, Zenon DEF TypeOK
  <2>3. view' \in Database
    BY <2>2 DEF TypeOK
  <2> QED BY <2>1, <2>3 DEF TypeOK, Steps, Faults
<1>3. AtVersion'
  BY AtWork DEF AtVersion
<1>4. Committed'
  BY DEF Committed
<1>5. Fresh'
  <2> SUFFICES ASSUME NoRepetition PROVE Fresh'
    BY DEF Fresh
  <2>1. \A v \in ToSet(Tail(todo)) : v \in Version \ {version} /\ v \in ToSet(todo)
    BY AtWork, SetsOfVersions DEF AtVersion, Fresh
  <2> QED BY <1>1, <2>1, AtWork DEF Fresh, AtVersion
<1>6. FailuresShow'
  <2>1. /\ todo # <<>> /\ ToSet(todo) \subseteq Requested
        /\ version \in Requested /\ version \in ToSet(todo)
        /\ todo' = Tail(todo) /\ ToSet(Tail(todo)) \subseteq ToSet(todo)
        /\ NoRepetition => version \notin ToSet(Tail(todo))
    BY AtWork DEF AtVersion, Fresh
  <2>2. NoRepetition => view'.docs[version] = "none" /\ durable.docs[version] = "none"
    BY <1>1, <2>1, SetsOfVersions DEF Fresh
  <2>3. NoRepetition => Lacks(view.docs, durable.docs)'
    BY <2>1, <2>2
  <2>4. NoRepetition /\ faults \intersect {"bootstrap", "upsert", "download"} # {} =>
          Lacks(view.symbols, durable.symbols)'
    BY <1>1, <2>1, SetsOfVersions DEF FailuresShow
  <2> QED BY <2>3, <2>4 DEF FailuresShow
<1>7. FtsFollows'
  BY DEF FtsFollows
<1>8. Closed' /\ Verdict' /\ PublishedRebuilt'
  BY DEF Closed, Verdict, PublishedRebuilt
<1> QED BY <1>1, <1>2, <1>3, <1>4, <1>5, <1>6, <1>7, <1>8

LEMMA RebuildSymbolsFtsFailsInd ==
  ASSUME IndInv, RebuildSymbolsFtsFails
  PROVE  IndInv'
<1> USE DEF RebuildSymbolsFtsFails
<1>1. TypeOK'
  <2>1. Tail(todo) \in Seq(Version)
    BY AtWork DEF AtVersion
  <2> QED BY <2>1 DEF TypeOK, Steps, Faults
<1>2. AtVersion'
  BY AtWork DEF AtVersion
<1>3. Fresh'
  BY AtWork DEF Fresh, AtVersion
<1>4. FailuresShow'
  BY AtWork DEF FailuresShow, TypeOK, AtVersion, Fresh
<1>5. Committed' /\ FtsFollows' /\ Closed' /\ Verdict'
  BY DEF Committed, FtsFollows, Closed, Verdict
<1>6. PublishedRebuilt'
  BY DEF PublishedRebuilt
<1> QED BY <1>1, <1>2, <1>3, <1>4, <1>5, <1>6

LEMMA CommandFailsInd ==
  ASSUME IndInv, CommandFails
  PROVE  IndInv'
<1> USE DEF CommandFails
<1>1. TypeOK'
  <2>1. Tail(todo) \in Seq(Version)
    BY AtWork DEF AtVersion
  <2> QED BY <2>1 DEF TypeOK, Steps, Faults
<1>2. AtVersion'
  BY AtWork DEF AtVersion
<1>3. Fresh'
  BY AtWork DEF Fresh, AtVersion
<1>4. FailuresShow'
  BY AtWork DEF FailuresShow, TypeOK, AtVersion, Fresh
<1>5. Committed' /\ FtsFollows' /\ Closed' /\ Verdict'
  BY DEF Committed, FtsFollows, Closed, Verdict
<1>6. PublishedRebuilt'
  BY DEF PublishedRebuilt
<1> QED BY <1>1, <1>2, <1>3, <1>4, <1>5, <1>6

LEMMA ToolMissingInd ==
  ASSUME IndInv, ToolMissing
  PROVE  IndInv'
<1> USE DEF ToolMissing
<1>1. TypeOK'
  <2>1. Tail(todo) \in Seq(Version)
    BY AtWork DEF AtVersion
  <2> QED BY <2>1 DEF TypeOK, Steps, Faults
<1>2. AtVersion'
  BY AtWork DEF AtVersion
<1>3. Fresh'
  BY AtWork DEF Fresh, AtVersion
<1>4. FailuresShow'
  BY AtWork DEF FailuresShow, TypeOK, AtVersion, Fresh
<1>5. Committed' /\ FtsFollows' /\ Closed' /\ Verdict'
  BY DEF Committed, FtsFollows, Closed, Verdict
<1>6. PublishedRebuilt'
  BY DEF PublishedRebuilt
<1> QED BY <1>1, <1>2, <1>3, <1>4, <1>5, <1>6

LEMMA SphinxFailsInd ==
  ASSUME IndInv, SphinxFails
  PROVE  IndInv'
<1> USE DEF SphinxFails
<1>1. TypeOK'
  <2>1. Tail(todo) \in Seq(Version)
    BY AtWork DEF AtVersion
  <2> QED BY <2>1 DEF TypeOK, Steps, Faults
<1>2. AtVersion'
  BY AtWork DEF AtVersion
<1>3. Fresh'
  BY AtWork DEF Fresh, AtVersion
<1>4. FailuresShow'
  BY AtWork DEF FailuresShow, TypeOK, AtVersion, Fresh
<1>5. Committed' /\ FtsFollows' /\ Closed' /\ Verdict'
  BY DEF Committed, FtsFollows, Closed, Verdict
<1>6. PublishedRebuilt'
  BY DEF PublishedRebuilt
<1> QED BY <1>1, <1>2, <1>3, <1>4, <1>5, <1>6

LEMMA WrongSourceInd ==
  ASSUME IndInv, WrongSource
  PROVE  IndInv'
<1> USE DEF WrongSource
<1>1. TypeOK'
  BY DEF TypeOK, Steps, Outcomes, Faults
<1>2. AtVersion' /\ Committed' /\ Fresh' /\ FailuresShow'
  BY DEF AtVersion, Committed, Fresh, FailuresShow
<1>3. FtsFollows' /\ Closed' /\ Verdict' /\ PublishedRebuilt'
  BY DEF FtsFollows, Closed, Verdict, PublishedRebuilt
<1> QED BY <1>1, <1>2, <1>3

-----------------------------------------------------------------------------
(* After the loop.                                                           *)

LEMMA NothingSucceededInd ==
  ASSUME IndInv, NothingSucceeded
  PROVE  IndInv'
<1> USE DEF NothingSucceeded
<1>1. TypeOK'
  BY DEF TypeOK, Steps, Outcomes, Faults
<1>2. AtVersion' /\ Committed' /\ Fresh' /\ FailuresShow'
  BY DEF AtVersion, Committed, Fresh, FailuresShow
<1>3. FtsFollows' /\ Closed' /\ Verdict' /\ PublishedRebuilt'
  BY DEF FtsFollows, Closed, Verdict, PublishedRebuilt
<1> QED BY <1>1, <1>2, <1>3

LEMMA RebuildFtsInd ==
  ASSUME IndInv, RebuildFts
  PROVE  IndInv'
<1> USE DEF RebuildFts
<1>1. TypeOK'
  <2>1. view' \in Database
    BY TablesChange, Zenon DEF TypeOK
  <2> QED BY <2>1 DEF TypeOK, Steps
<1>2. PublishedRebuilt'
  BY DEF PublishedRebuilt, Verdict
<1>3. AtVersion' /\ Committed' /\ Fresh' /\ FailuresShow'
  BY DEF AtVersion, Committed, Fresh, FailuresShow
<1>4. FtsFollows' /\ Closed' /\ Verdict'
  BY DEF FtsFollows, Closed, Verdict
<1> QED BY <1>1, <1>2, <1>3, <1>4

LEMMA RebuildFtsFailsInd ==
  ASSUME IndInv, RebuildFtsFails
  PROVE  IndInv'
<1> USE DEF RebuildFtsFails
<1>1. TypeOK'
  BY DEF TypeOK, Steps, Outcomes, Faults
<1>2. AtVersion' /\ Committed' /\ Fresh' /\ FailuresShow'
  BY DEF AtVersion, Committed, Fresh, FailuresShow
<1>3. FtsFollows' /\ Closed' /\ Verdict' /\ PublishedRebuilt'
  BY DEF FtsFollows, Closed, Verdict, PublishedRebuilt
<1> QED BY <1>1, <1>2, <1>3

LEMMA PublishIndexInd ==
  ASSUME IndInv, PublishIndex
  PROVE  IndInv'
<1> USE DEF PublishIndex, Smoke, SmokeDocSets, SmokeSymbols, SmokeContent
<1>1. TypeOK'
  BY DEF TypeOK, Steps, Outcomes, Faults
<1>2. PublishedRebuilt'
  BY DEF PublishedRebuilt, TypeOK, FtsFollows, Closed
<1>3. AtVersion' /\ Committed' /\ Fresh' /\ FailuresShow'
  BY DEF AtVersion, Committed, Fresh, FailuresShow
<1>4. FtsFollows' /\ Closed' /\ Verdict'
  BY DEF FtsFollows, Closed, Verdict
<1> QED BY <1>1, <1>2, <1>3, <1>4

-----------------------------------------------------------------------------
(* All steps.                                                                *)

LEMMA StutterInd ==
  ASSUME IndInv, UNCHANGED vars
  PROVE  IndInv'
<1> USE DEF vars
<1>1. version' = version
  BY DEF version
<1>2. TypeOK' /\ AtVersion' /\ FailuresShow' /\ Closed'
  BY DEF TypeOK, AtVersion, FailuresShow, Closed
<1>3. Committed' /\ Fresh' /\ FtsFollows'
  BY <1>1 DEF Committed, Fresh, FtsFollows
<1>4. Verdict' /\ PublishedRebuilt'
  BY DEF Verdict, PublishedRebuilt, Smoke, SmokeDocSets, SmokeSymbols, SmokeContent,
         Defaults
<1> QED BY <1>2, <1>3, <1>4

LEMMA StepInd == IndInv /\ [Next]_vars => IndInv'
<1> SUFFICES ASSUME IndInv, [Next]_vars PROVE IndInv'
  OBVIOUS
<1> HIDE DEF IndInv
<1>1. CASE VersionStep
  BY <1>1, StartVersionInd, UpsertDocSetInd, DownloadInd, InsertSymbolsInd,
     RebuildSymbolsFtsInd, PrepareSphinxInd, RunSphinxInd, IngestPagesInd
  DEF VersionStep
<1>2. CASE VersionFailure
  BY <1>2, BootstrapFailsInd, UpsertFailsInd, DownloadFailsInd, InsertFailsInd, RebuildSymbolsFtsFailsInd, CommandFailsInd,
     ToolMissingInd, SphinxFailsInd, WrongSourceInd DEF VersionFailure
<1>3. CASE Ending
  BY <1>3, NothingSucceededInd, RebuildFtsInd, RebuildFtsFailsInd, PublishIndexInd
  DEF Ending
<1> QED BY <1>1, <1>2, <1>3, FirstBootstrapInd, SetupFailsInd, StutterInd DEF Next

LEMMA Inductive == Spec => []IndInv
<1> HIDE DEF IndInv
<1> QED BY InitInd, StepInd, PTL DEF Spec

(* Every variable of a build keeps its type: for any versions and any lists    *)
(* of them, wherever a step of a version fails.                              *)
THEOREM TypeCorrect == Spec => []TypeOK
<1>1. IndInv => TypeOK
  OBVIOUS
<1> QED BY Inductive, <1>1, PTL

(* Of a list without repetitions, however long, no version that failed is in   *)
(* a published index: it lacks rows that the smoke tests ask of every version   *)
(* that was requested, and no later version gives them to it.                *)
THEOREM PublishingIsAllOrNothing == Spec => []AllOrNothing
<1>1. ASSUME IndInv PROVE AllOrNothing
  <2> SUFFICES ASSUME outcome = "published", NoRepetition
               PROVE  faults \subseteq (IF skipContent THEN {"insert", "symFts"} ELSE {})
    BY DEF AllOrNothing
  <2>1. SmokeSymbols(durable) /\ SmokeContent(durable)
    BY <1>1 DEF Verdict, Smoke
  <2>2. faults \intersect {"bootstrap", "upsert", "download"} = {}
    BY <1>1, <2>1 DEF FailuresShow, SmokeSymbols
  <2>3. ~skipContent => faults \intersect {"insert", "symFts", "clone", "tool", "sphinx"} = {}
    BY <1>1, <2>1 DEF FailuresShow, SmokeContent
  <2>4. skipContent => faults \intersect {"clone", "tool", "sphinx"} = {}
    BY <1>1 DEF FailuresShow
  <2>5. faults \intersect {"setup", "sha", "docFts"} = {}
    BY <1>1 DEF FailuresShow
  <2> QED BY <1>1, <2>2, <2>3, <2>4, <2>5 DEF TypeOK, Faults
<1> QED BY Inductive, <1>1, PTL

(* symbols_fts is written by its rebuild and emptied by the bootstrap, and the *)
(* symbols change only after a bootstrap that was done.                      *)
LEMMA WholeStep == IndInv /\ FtsWhole /\ [Next]_vars => FtsWhole'
<1> SUFFICES ASSUME IndInv, FtsWhole, [Next]_vars PROVE FtsWhole'
  OBVIOUS
<1> USE DEF FtsWhole, TypeOK, Database
<1>1. CASE FirstBootstrap \/ SetupFails
  <2>1. CASE FirstBootstrap
    <3>1. /\ view'.symFts = {} /\ durable'.symFts = {}
      BY <2>1 DEF FirstBootstrap
    <3> QED BY <2>1, <3>1 DEF FirstBootstrap
  <2>2. CASE SetupFails
    <3>1. view' = view /\ durable' = durable /\ pc' = "done"
      BY <2>2 DEF SetupFails
    <3> QED BY <3>1
  <2> QED BY <1>1, <2>1, <2>2
<1>2. CASE StartVersion \/ UpsertDocSet \/ Download \/ InsertSymbols
  <2>1. CASE StartVersion
    BY <2>1 DEF StartVersion
  <2>2. CASE UpsertDocSet
    BY <2>2 DEF UpsertDocSet, DocSetReplaced
  <2>3. CASE Download
    BY <2>3 DEF Download
  <2>4. CASE InsertSymbols
    BY <2>4 DEF InsertSymbols
  <2> QED BY <1>2, <2>1, <2>2, <2>3, <2>4
<1>3. CASE RebuildSymbolsFts \/ PrepareSphinx \/ RunSphinx \/ IngestPages
  BY <1>3 DEF RebuildSymbolsFts, PrepareSphinx, RunSphinx, IngestPages
<1>4. CASE BootstrapFails
  <2>1. /\ pc' = "next"
        /\ \/ view' \in {view, durable}
           \/ view'.symbols = view.symbols /\ view'.symFts \in {view.symFts, {}}
        /\ durable' \in {durable, view'}
    BY <1>4, BootstrapLeaves DEF BootstrapFails
  <2> QED BY <2>1
<1>5. CASE UpsertFails \/ DownloadFails \/ InsertFails
  BY <1>5 DEF UpsertFails, DocSetReplaced, DownloadFails, InsertFails
<1>6. CASE RebuildSymbolsFtsFails \/ CommandFails \/ ToolMissing \/ SphinxFails \/ WrongSource
  BY <1>6 DEF RebuildSymbolsFtsFails, CommandFails, ToolMissing, SphinxFails, WrongSource
<1>7. CASE Ending
  BY <1>7 DEF Ending, NothingSucceeded, RebuildFts, RebuildFtsFails, PublishIndex
<1>8. CASE UNCHANGED vars
  BY <1>8 DEF vars
<1> QED BY <1>1, <1>2, <1>3, <1>4, <1>5, <1>6, <1>7, <1>8 DEF Next, VersionStep, VersionFailure

(* In a published index sections_fts indexes exactly the documents, and        *)
(* symbols_fts all the symbols or none; all of them unless a version failed     *)
(* between its start and the end of its rebuild, other than in its download.   *)
THEOREM PublishedTablesAgree == Spec => []PublishedFtsAgrees
<1>1. Init => FtsWhole
  BY DEF Init, Empty, FtsWhole
<1>2. IndInv /\ FtsWhole => PublishedFtsAgrees
  BY DEF PublishedFtsAgrees, PublishedRebuilt, FtsWhole
<1> HIDE DEF IndInv
<1> QED BY <1>1, <1>2, WholeStep, Inductive, PTL DEF Spec

(* No step of a build touches the committed rows of a version that the loop    *)
(* is not at, unless one failed with its transaction open.                   *)
THEOREM BuildsAreIsolated == Spec => VersionsAreIsolated
<1> DEFINE Isolated ==
      \A v \in Version :
        /\ todo # <<>> => v # version
        /\ faults \intersect {"upsert", "download", "insert"} = {}
        => /\ durable'.docset[v] = durable.docset[v]
           /\ durable'.symbols[v] = durable.symbols[v]
           /\ durable'.docs[v] = durable.docs[v]
<1>1. ASSUME IndInv, [Next]_vars PROVE [Isolated]_vars
  <2> SUFFICES ASSUME Next PROVE Isolated
    BY <1>1
  <2> USE <1>1
  <2>1. CASE UNCHANGED durable
    BY <2>1
  <2>2. CASE FirstBootstrap \/ StartVersion
    <3>1. view' = [view EXCEPT !.symFts = {}, !.docFts = {}, !.tables = TRUE] /\ durable' = view'
      BY <2>2 DEF FirstBootstrap, StartVersion, Bootstrapped, CommitView
    <3>2. /\ view'.docset = view.docset /\ view'.symbols = view.symbols
          /\ view'.docs = view.docs
      BY <3>1 DEF TypeOK, Database
    <3> QED BY <2>2, <3>1, <3>2 DEF FirstBootstrap, StartVersion, Committed
  <2>3. CASE InsertSymbols
    BY <2>3 DEF InsertSymbols, Committed, TypeOK, Database, AtVersion
  <2>4. CASE RebuildSymbolsFts
    BY <2>4 DEF RebuildSymbolsFts, Committed
  <2>5. CASE IngestPages
    BY <2>5 DEF IngestPages, Committed, TypeOK, Database, AtVersion
  <2>6. CASE RebuildFts
    BY <2>6 DEF RebuildFts, Committed
  <2>7. CASE BootstrapFails
    <3>1. \/ durable' = durable
          \/ /\ durable'.docset = view.docset /\ durable'.symbols = view.symbols
             /\ durable'.docs = view.docs
      BY <2>7, BootstrapLeaves DEF BootstrapFails
    <3> QED BY <2>7, <3>1 DEF BootstrapFails, Committed
  <2>8. \/ UNCHANGED durable \/ FirstBootstrap \/ StartVersion \/ InsertSymbols
        \/ RebuildSymbolsFts \/ IngestPages \/ RebuildFts \/ BootstrapFails
    BY DEF Next, SetupFails, VersionStep, VersionFailure, Ending, UpsertDocSet, Download,
           PrepareSphinx, RunSphinx, UpsertFails, DownloadFails, InsertFails,
           RebuildSymbolsFtsFails, CommandFails, ToolMissing, SphinxFails, WrongSource,
           NothingSucceeded, RebuildFtsFails, PublishIndex
  <2> QED BY <2>1, <2>2, <2>3, <2>4, <2>5, <2>6, <2>7, <2>8
<1> HIDE DEF IndInv
<1> QED BY Inductive, <1>1, PTL DEF Spec, VersionsAreIsolated
=============================================================================
