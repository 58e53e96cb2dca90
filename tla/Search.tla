------------------------------- MODULE Search -------------------------------
(***************************************************************************)
(* search_docs and compare_versions over one index: services/search.py,      *)
(* retrieval/ranker.py and query.py, services/compare.py, and as much of      *)
(* get_docs as decides whether a hit opens.  A call is one step; the index is  *)
(* read only.                                                               *)
(*                                                                          *)
(* What SQLite ranks is not modelled: a full-text query may match any rows of *)
(* the version in any order, and rows that ORDER BY leaves equal come in any   *)
(* order.  Pages are named without extension; a slug is a page with or        *)
(* without ".html".                                                         *)
(***************************************************************************)
EXTENDS Naturals, Sequences, FiniteSets, FiniteSetsExt

CONSTANTS
  Indexes,   \* [docs, sections, symbols, overlaps]: the rows of an index
  Queries,   \* [text, dotted, word, mentions]: queries, as the code reads them
  Contains,  \* <<name, part>>: the LIKE matches of names
  Maxima,    \* max_results
  MaxRows,   \* bound: rows a full-text query matches
  None

ASSUME SearchAssumption ==
  /\ Maxima \subseteq Nat \ {0} /\ MaxRows \in Nat
  /\ \A ix \in Indexes : /\ IsFiniteSet(ix.symbols)
                          /\ \A s \in ix.sections \union ix.symbols : s.anchor # None
  /\ \A q \in Queries : IsFiniteSet(q.mentions)

VARIABLES
  index,   \* the index the server has open
  answer   \* the last call and what came back

searchVars == <<index, answer>>

Silence == [tool |-> "none"]

NoIndex == [docs |-> {}, sections |-> {}, symbols |-> {}, overlaps |-> {}]

Versions == {d.version : d \in index.docs} \union {s.version : s \in index.symbols}

InVersion(rows, version) == {r \in rows : version \in {None, r.version}}

Slug(page, ext) == [page |-> page, ext |-> ext]

-----------------------------------------------------------------------------
(* get_docs: the slug as it is or without ".html", then the section.         *)

Indexed(version, slug) == \E d \in index.docs : d.version = version /\ d.slug = slug

SectionsAt(version, slug, anchor) ==
  {s \in index.sections : s.version = version /\ s.page = slug.page /\ s.anchor = anchor}

Opens(version, slug, anchor) ==
  \E candidate \in {slug, Slug(slug.page, "")} :
    /\ Indexed(version, candidate)
    /\ anchor # None => SectionsAt(version, candidate, anchor) # {}

-----------------------------------------------------------------------------
(* Hits.                                                                     *)

OrNone(anchor) == IF anchor = "" THEN None ELSE anchor

(* Mutant of SymbolAnchor: the anchor of the inventory is passed on.         *)
SymbolAnchorOfInventory(s) == OrNone(s.anchor)

(* _resolve_symbol_location: a section the page really has, or the page.      *)
SymbolAnchor(s) ==
  IF /\ Indexed(s.version, Slug(s.page, ""))
     /\ SectionsAt(s.version, Slug(s.page, ""), s.anchor) = {}
  THEN None ELSE OrNone(s.anchor)

SymbolHit(s) ==
  [title |-> s.name, version |-> s.version,
   slug |-> IF Indexed(s.version, Slug(s.page, "")) THEN Slug(s.page, "")
            ELSE Slug(s.page, "html"),
   anchor |-> SymbolAnchor(s), fragment |-> s.anchor]

SectionHit(s) ==
  [title |-> s.id, version |-> s.version, slug |-> Slug(s.page, ""),
   anchor |-> OrNone(s.anchor), fragment |-> s.anchor]

SymbolHits(ranked) == [n \in DOMAIN ranked |-> SymbolHit(ranked[n])]

SectionHits(ranked) == [n \in DOMAIN ranked |-> SectionHit(ranked[n])]

Orders(rows, size) ==
  {r \in [1 .. size -> rows] : \A m, n \in 1 .. size : m # n => r[m] # r[n]}

(* The rows a query may match, in any order.                                 *)
Matched(rows) ==
  UNION {Orders(rows, size) : size \in 0 .. Min({MaxRows, Cardinality(rows)})}

Cut(ranked, max) == SubSeq(ranked, 1, Min({max, Len(ranked)}))

-----------------------------------------------------------------------------
(* ranker.py.                                                                *)

ExactFirst(ranked, rows, name) ==
  \A n \in DOMAIN ranked :
    ranked[n].name # name =>
      \A r \in rows : r.name = name => \E m \in 1 .. n - 1 : ranked[m] = r

(* The symbols of that name, then those whose name contains it.              *)
Lookup(name, version, max) ==
  LET rows == {s \in InVersion(index.symbols, version) :
                 s.name = name \/ <<s.name, name>> \in Contains}
      size == Min({max, Cardinality(rows)})
  IN  {r \in Orders(rows, size) : ExactFirst(r, rows, name)}

Overlap(s, t) ==
  s.version = t.version /\ s.page = t.page /\ {s.id, t.id} \in index.overlaps

(* Of sections that say the same, the narrower keeps the place; ranks of the   *)
(* candidates, in the order of the list "selected".                          *)
Selected(candidates) ==
  LET Fold[n \in 0 .. Len(candidates)] ==
        IF n = 0 THEN <<>>
        ELSE LET prior == Fold[n - 1]
                 duplicates == {i \in DOMAIN prior :
                                  Overlap(candidates[prior[i]], candidates[n])}
                 first == Min(duplicates)
             IN  IF duplicates = {} THEN Append(prior, n)
                 ELSE IF candidates[n].size < candidates[prior[first]].size
                      THEN [prior EXCEPT ![first] = n] ELSE prior
  IN  Fold[Len(candidates)]

(* Sorted by rank again, and cut.                                            *)
SectionsOf(candidates, max) ==
  LET ranks == {Selected(candidates)[i] : i \in DOMAIN Selected(candidates)}
      Nth[n \in 1 .. Cardinality(ranks)] ==
        CHOOSE r \in ranks : Cardinality({q \in ranks : q <= r}) = n
  IN  [n \in 1 .. Min({max, Cardinality(ranks)}) |-> candidates[Nth[n]]]

SearchSections(version, max) ==
  {SectionHits(SectionsOf(c, max)) : c \in Matched(InVersion(index.sections, version))}

(* The section of each example that matches.                                 *)
SearchExamples(version, max) ==
  {SectionHits(Cut(e, max)) :
     e \in UNION {[1 .. size -> InVersion(index.sections, version)] : size \in 0 .. 2}}

SearchSymbols(version, max) ==
  {SymbolHits(Cut(r, max)) : r \in Matched(InVersion(index.symbols, version))}

-----------------------------------------------------------------------------
(* search.                                                                   *)

SymbolShaped(q) ==
  q.dotted \/ (q.word /\ \E s \in index.symbols : s.name = q.text)

(* Mutant of Known: counted over all versions.                               *)
KnownAnywhere(q, version) ==
  {n \in q.mentions : \E s \in index.symbols : s.name = n}

(* The identifiers of the prompt that the version has.                       *)
Known(q, version) ==
  {n \in q.mentions : \E s \in index.symbols : s.name = n /\ s.version = version}

Location(hit) ==
  <<hit.version, hit.slug.page, IF hit.anchor = None THEN hit.fragment ELSE hit.anchor>>

Spare(original, q, version, kind, max) ==
  /\ kind = "auto" /\ version # None
  /\ original # <<>> /\ Len(original) < max
  /\ Cardinality(Known(q, version)) = 1

(* _append_canonical: the one identifier the prompt names takes a free slot,   *)
(* if its place is not shown yet and the response is not too long for it.     *)
WithCanonical(original, q, version, kind, max, fits) ==
  IF ~(Spare(original, q, version, kind, max) /\ fits) THEN {original}
  ELSE LET exact == {s \in index.symbols :
                       s.version = version /\ s.name \in Known(q, version)}
           shown(hit) == \E n \in DOMAIN original : Location(original[n]) = Location(hit)
       IN  {IF shown(SymbolHit(s)) THEN original ELSE Append(original, SymbolHit(s)) :
              s \in exact}

(* The hits before the spare slot is considered.                             *)
FullText(kind, version, max) ==
  CASE kind = "example" -> SearchExamples(version, max)
    [] kind \in {"section", "page"} -> SearchSections(version, max)
    [] kind = "auto" ->
         (SearchSections(version, max) \ {<<>>}) \union SearchSymbols(version, max)

(* No full-query results, but the prompt names one symbol.                   *)
Fallback(hits, q, kind, version, max) ==
  IF hits = <<>> /\ kind = "auto" /\ version # None /\ Cardinality(Known(q, version)) = 1
  THEN LET name == CHOOSE n \in Known(q, version) : TRUE
       IN  {SymbolHits(r) : r \in Lookup(name, version, max)}
  ELSE {hits}

FastPath(q, kind, version, max) ==
  IF kind = "symbol" \/ (kind = "auto" /\ SymbolShaped(q))
  THEN {SymbolHits(r) : r \in Lookup(q.text, version, max)}
  ELSE {<<>>}

Kinds == {"auto", "page", "symbol", "section", "example"}

SearchDocs ==
  /\ index # NoIndex /\ answer = Silence
  /\ \E q \in Queries, kind \in Kinds, version \in Versions \union {None}, max \in Maxima :
       \E fits \in IF kind = "auto" THEN BOOLEAN ELSE {TRUE} :
       \E fast \in FastPath(q, kind, version, max) :
       \E found \in IF fast # <<>> \/ kind = "symbol" THEN {fast}
                    ELSE UNION {Fallback(h, q, kind, version, max) :
                                  h \in FullText(kind, version, max)} :
       \E hits \in WithCanonical(found, q, version, kind, max, fits) :
         answer' = [tool |-> "search", query |-> q, version |-> version, kind |-> kind,
                    max |-> max, fits |-> fits, found |-> found, hits |-> hits]
  /\ UNCHANGED index

-----------------------------------------------------------------------------
(* compare.                                                                  *)

Resolved(symbol, version) ==
  {s \in index.symbols : s.name = symbol /\ s.version = version}

(* _section_text: "" stands for a page or section that is not there.         *)
SectionText(s) ==
  LET at == IF Indexed(s.version, Slug(s.page, "html")) THEN Slug(s.page, "html")
            ELSE Slug(s.page, "")
      there == SectionsAt(s.version, at, s.anchor)
  IN  IF Indexed(s.version, at) /\ there # {} THEN {t.text : t \in there} ELSE {""}

(* Mutant of Difference: what cannot be read has not changed.                *)
DifferenceOfRead(text1, text2) ==
  IF "" # text1 /\ "" # text2 /\ text1 # text2 THEN "changed" ELSE "unchanged"

(* A note that the symbol is deprecated in v2 is a change by itself.         *)
Difference(text1, text2) ==
  IF "" \in {text1, text2} \/ text1 # text2 \/ text2 = "deprecated"
  THEN "changed" ELSE "unchanged"

Changes(symbol, v1, v2) ==
  LET in1 == Resolved(symbol, v1)
      in2 == Resolved(symbol, v2)
  IN  IF in1 = {} /\ in2 = {} THEN {"error"}
      ELSE IF v1 = v2 THEN {"unchanged"}
      ELSE IF in1 = {} THEN {"added"}
      ELSE IF in2 = {} THEN {"removed"}
      ELSE {Difference(t1, t2) : t1 \in UNION {SectionText(s) : s \in in1},
                                 t2 \in UNION {SectionText(s) : s \in in2}}

CompareVersions ==
  /\ index # NoIndex /\ answer = Silence
  /\ \E symbol \in UNION {q.mentions \union {q.text} : q \in Queries}, v1, v2 \in Versions :
       \E change \in Changes(symbol, v1, v2) :
         answer' = [tool |-> "compare", symbol |-> symbol, v1 |-> v1, v2 |-> v2,
                    change |-> change]
  /\ UNCHANGED index

-----------------------------------------------------------------------------
SearchInit == index = NoIndex /\ answer = Silence

OpenIndex ==
  /\ index = NoIndex
  /\ index' \in Indexes
  /\ UNCHANGED answer

(* The answer is sent and nothing is left of the call.                       *)
Send ==
  /\ answer # Silence
  /\ answer' = Silence
  /\ UNCHANGED index

SearchStep == OpenIndex \/ Send \/ SearchDocs \/ CompareVersions

SearchSpec == SearchInit /\ [][SearchStep]_searchVars

-----------------------------------------------------------------------------
(* Properties.                                                               *)

Found == answer.tool = "search"

(* search_docs "returns both" what get_docs needs: a hit whose page is in the *)
(* index opens with the hit's own version, slug and anchor, also where the    *)
(* inventory and the pages disagree about anchors.                           *)
HitsOpen ==
  Found => \A n \in DOMAIN answer.hits :
             LET hit == answer.hits[n]
             IN  Indexed(hit.version, Slug(hit.slug.page, ""))
                   => Opens(hit.version, hit.slug, hit.anchor)

ExactLeads ==
  answer.kind = "symbol" =>
    \A s \in InVersion(index.symbols, answer.version) :
      s.name = answer.query.text =>
        answer.hits # <<>> /\ answer.hits[1].title = s.name

OneIsNamed(name) ==
  /\ answer.kind = "auto" /\ answer.version # None /\ answer.fits
  /\ {name} = {n \in answer.query.mentions : Resolved(n, answer.version) # {}}

Shown(name) ==
  \E n \in DOMAIN answer.hits, s \in Resolved(name, answer.version) :
    Location(answer.hits[n]) = Location(SymbolHit(s))

EvidenceKept ==
  /\ Len(answer.hits) <= answer.max
  /\ Len(answer.hits) \in {Len(answer.found), Len(answer.found) + 1}
  /\ \A n \in DOMAIN answer.found :
       /\ answer.hits[n] = answer.found[n]
       /\ Len(answer.hits) > Len(answer.found) =>
            Location(answer.found[n]) # Location(answer.hits[Len(answer.hits)])

(* A symbol that is named is shown.  One asked for by its exact name comes     *)
(* before those that only contain it.  Where the prompt of an automatic        *)
(* search of a version names exactly one of its symbols, the place where it    *)
(* is documented is among the hits, whichever way they were found, unless      *)
(* they leave no room; but it takes "at most one spare slot without altering   *)
(* semantic evidence", and shows no place twice.                             *)
NamedSymbolShown ==
  Found =>
    /\ ExactLeads
    /\ EvidenceKept
    /\ \A name \in answer.query.mentions :
         OneIsNamed(name) => Len(answer.hits) = answer.max \/ Shown(name)

(* Of a comparison: an answer is about a symbol one of the versions has;      *)
(* "added" and "removed" are about one that only the later, or the earlier,   *)
(* has; and "unchanged" means that both were read and say the same.           *)
CompareSound ==
  answer.tool = "compare" =>
    LET in1 == Resolved(answer.symbol, answer.v1)
        in2 == Resolved(answer.symbol, answer.v2)
    IN  CASE answer.change = "error" -> in1 = {} /\ in2 = {}
          [] answer.change = "added" -> in1 = {} /\ in2 # {}
          [] answer.change = "removed" -> in1 # {} /\ in2 = {}
          [] answer.change \in {"changed", "unchanged"} ->
               /\ in1 # {} /\ in2 # {}
               /\ answer.change = "unchanged" /\ answer.v1 # answer.v2 =>
                    \E s \in in1, t \in in2 :
                      (SectionText(s) \intersect SectionText(t)) \ {""} # {}
=============================================================================
