------------------------------ MODULE MCTools ------------------------------
(* The tools of the server on small pages and indexes.  The tools share no    *)
(* state, so a behaviour uses one of them: a client reads a text, walks       *)
(* through a What's New page, or searches and compares.                      *)
EXTENDS WhatsNew, Search, TLC

Vars == <<readingVars, newsVars, searchVars>>

Init == PagingInit /\ NewsInit /\ SearchInit

Reading == /\ news = "none" /\ index = NoIndex
           /\ PagingNext /\ UNCHANGED <<newsVars, searchVars>>
Browsing == /\ reader = "none" /\ index = NoIndex
            /\ NewsStep /\ UNCHANGED <<readingVars, searchVars>>
Searching == /\ reader = "none" /\ news = "none"
             /\ SearchStep /\ UNCHANGED <<readingVars, newsVars>>

Next == Reading \/ Browsing \/ Searching

Spec == Init /\ [][Next]_Vars

-----------------------------------------------------------------------------
MCDocuments == UNION {[1 .. n -> {"mark", "other"}] : n \in 0 .. 6}

Plain(n) == [i \in 1 .. n |-> "other"]
Heading(level, says, body) == [level |-> level, says |-> says, meta |-> 2, body |-> body]
Bodies == {<<>>, Plain(1), Plain(4), Plain(7), <<"other", "mark", "mark", "mark", "escaped">>}

(* Pages whose headings differ, and pages whose bodies do.                   *)
MCPages ==
  [1 .. 3 -> {Heading(l, s, Plain(1)) : l \in 1 .. 3, s \in {Silent, "removal", "syntax"}}]
  \union UNION {[1 .. n -> {Heading(1, Silent, b) : b \in Bodies}] : n \in 0 .. 4}

MCNextCost == -1

MCContains == {<<"m.f", "m">>, <<"m.g", "m">>}

Section(id, version, anchor, size, content) ==
  [id |-> id, version |-> version, page |-> "p", anchor |-> anchor, size |-> size,
   text |-> content]
Symbol(name, version, page_, anchor) ==
  [name |-> name, version |-> version, page |-> page_, anchor |-> anchor]

Doc(version) == [version |-> version, slug |-> Slug("p", "")]

MCIndexes == {
  [docs |-> {Doc("v1"), Doc("v2")},
   sections |-> {Section("s0", "v1", "", 9, "other"), Section("s1", "v1", "m", 5, "same"),
                 Section("s2", "v1", "m.f", 2, "old"), Section("s3", "v2", "m", 5, "same"),
                 Section("s4", "v2", "m.f", 2, second)},
   symbols |-> {Symbol("m", "v1", "p", "m"), Symbol("m.f", "v1", "p", "m.f"),
                Symbol("m", "v2", "p", "m"), Symbol("m.f", "v2", "p", "m.f")} \union g,
   overlaps |-> overlaps] :
    second \in {"old", "new", "deprecated"}, g \in SUBSET {Symbol("m.g", "v1", "q", "m.g"), Symbol("m.g", "v2", "p", "m.g")},
    overlaps \in {{}, {{"s0", "s2"}, {"s1", "s2"}}}}

MCQueries == {
  [text |-> "m", dotted |-> FALSE, word |-> TRUE, mentions |-> {}],
  [text |-> "m.f", dotted |-> TRUE, word |-> FALSE, mentions |-> {"m.f"}],
  [text |-> "use m.f or m.g", dotted |-> TRUE, word |-> FALSE, mentions |-> {"m.f", "m.g"}]}
=============================================================================
