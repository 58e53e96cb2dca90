------------------------------ MODULE WhatsNew ------------------------------
(***************************************************************************)
(* whatsnew_for_version: services/whatsnew.py.  A client walks through the    *)
(* sections of the What's New page that are of the kind it asked for, by      *)
(* index, and chooses at every call how many it wants.  A call admits          *)
(* sections as long as a response with the least of each fits into Cap         *)
(* characters, and then shares what is left among their bodies, one section    *)
(* at a time; the two loops of get() are the steps of this module.            *)
(*                                                                          *)
(* A length is one of JSON: that of an empty response, of a section without   *)
(* its body, and of a body, in which an escaped character counts twice.       *)
(***************************************************************************)
EXTENDS Paging

CONSTANTS
  Pages,       \* What's New pages: sequences of rows
  NewsKinds,   \* the kinds a client asks for; AllKinds is none in particular
  AllKinds,
  Limits,      \* the max_sections it asks for
  Cap,         \* _RESULT_CHARS
  BodyChars,   \* _BODY_CHARS
  HintCost,    \* of the hint that a section is truncated
  EmptyCost,   \* of a response without sections and with next_start_index null
  NextCost     \* what a number costs more than null

(* A heading says which kind its section is of, or nothing.                  *)
Silent == "silent"

NewsRow == [level : Nat, says : STRING, meta : Nat, body : Text]

ASSUME NewsAssumption ==
  /\ Pages \subseteq Seq(NewsRow)
  /\ Limits \subseteq Nat \ {0}
  /\ {Cap, BodyChars, HintCost, EmptyCost} \subseteq Nat
  /\ NextCost \in Int

-----------------------------------------------------------------------------
(* Classification.                                                           *)

(* ancestors.pop() while the last is not above the section.                  *)
Deeper(rows, j, i) == rows[j].level >= rows[i].level

(* Row i and the rows above it, the nearest last: a stack from which the      *)
(* deeper ones are popped.                                                   *)
Ancestors(rows) ==
  LET stack[i \in 0 .. Len(rows)] ==
        IF i = 0 THEN <<>>
        ELSE LET above == stack[i - 1]
                 kept == {n \in 0 .. Len(above) : n > 0 => ~Deeper(rows, above[n], i)}
             IN  Append(SubSeq(above, 1, Max(kept)), i)
  IN  stack

(* _classify: the nearest that says something.                               *)
Kind(rows, i) ==
  LET above == Ancestors(rows)[i]
      saying == {n \in DOMAIN above : rows[above[n]].says # Silent}
  IN  IF saying = {} THEN "other" ELSE rows[above[Max(saying)]].says

(* The rows that are nonempty sections of the kind.                          *)
Matches(rows, kind) ==
  {i \in DOMAIN rows : rows[i].body # <<>> /\ kind \in {AllKinds, Kind(rows, i)}}

-----------------------------------------------------------------------------
(* Bodies.                                                                   *)

Cost(body) == Len(body) + Cardinality({i \in DOMAIN body : body[i] = "escaped"})

(* The beginning of the body, and the hint unless that is all of it.         *)
ExcerptCost(body, max) ==
  LET page == ApplyBudget(body, max, 0)
  IN  Cost(page.content) + (IF page.next > 0 THEN HintCost ELSE 0)

Minimum(body) ==
  LET least == ExcerptCost(body, 1)
  IN  IF Len(body) <= BodyChars /\ Cost(body) <= least THEN Cost(body) ELSE least

(* _fit_body: all of it, or the longest excerpt, found by bisection since a    *)
(* longer one costs more, or what there was.                                 *)
FitBody(body, share) ==
  LET fits == {m \in 1 .. Min({BodyChars, Len(body) - 1}) :
                 ExcerptCost(body, m) <= share}
  IN  IF Len(body) <= BodyChars /\ Cost(body) <= share THEN Cost(body)
      ELSE IF fits = {} THEN Minimum(body) ELSE ExcerptCost(body, Max(fits))

-----------------------------------------------------------------------------
VARIABLES
  rows, kind,  \* the page and the kind the client reads
  news,        \* "none", "ask", "admit", "share", "read" or "failed"
  start,       \* start_index
  limit,       \* max_sections
  page,        \* the admitted sections: row, minimum and present cost of the body
  length,      \* of the response as its bodies stand
  reserved,    \* the minima of the sections that have no share yet
  remaining, shared,  \* the second loop; shared sections are done
  listed       \* history: the rows the client has been given

newsVars == <<rows, kind, news, start, limit, page, length, remaining, reserved,
              shared, listed>>

NewsInit ==
  /\ rows = <<>> /\ kind = AllKinds
  /\ news = "none"
  /\ start = 0 /\ limit = 0
  /\ page = <<>> /\ length = 0
  /\ remaining = 0 /\ reserved = 0 /\ shared = 0
  /\ listed = <<>>

Count == Cardinality(Matches(rows, kind))

(* The k-th match, if there is one.                                          *)
Match(k) ==
  {i \in Matches(rows, kind) : Cardinality({j \in Matches(rows, kind) : j <= i}) = k}

StartNews ==
  /\ news = "none"
  /\ rows' \in Pages /\ kind' \in NewsKinds
  /\ news' = "ask"
  /\ UNCHANGED <<start, limit, page, length, remaining, reserved, shared, listed>>

AskNews ==
  /\ news = "ask"
  /\ limit' \in Limits
  /\ news' = "admit"
  /\ page' = <<>> /\ length' = EmptyCost /\ reserved' = 0
  /\ UNCHANGED <<rows, kind, start, remaining, shared, listed>>

(* The place among the matches of the next section to admit.                 *)
NextMatch == start + Len(page) + 1

(* Its row, if the client wants more and there is one.                       *)
Coming == IF Len(page) < limit THEN Match(NextMatch) ELSE {}

(* The response with section i more, at its least.                           *)
CandidateLength(i) ==
  length + rows[i].meta + Minimum(rows[i].body)
  + (IF NextMatch < Count THEN NextCost ELSE 0)
  - (IF page # <<>> THEN NextCost ELSE 0)

Admit ==
  /\ news = "admit"
  /\ \E i \in Coming :
       LET minimum == Minimum(rows[i].body)
       IN  /\ CandidateLength(i) <= Cap
           /\ page' = Append(page, [row |-> i, minimum |-> minimum, cost |-> minimum])
           /\ length' = CandidateLength(i)
           /\ reserved' = reserved + minimum
  /\ UNCHANGED <<rows, kind, news, start, limit, remaining, shared, listed>>

(* Not even the first section fits: an error.                                *)
RefuseNews ==
  /\ news = "admit" /\ page = <<>>
  /\ \E i \in Coming : CandidateLength(i) > Cap
  /\ news' = "failed"
  /\ UNCHANGED <<rows, kind, start, limit, page, length, remaining, reserved, shared,
                 listed>>

Close ==
  /\ news = "admit"
  /\ \A i \in Coming : page # <<>> /\ CandidateLength(i) > Cap
  /\ remaining' = Cap - length + reserved
  /\ shared' = 0
  /\ news' = "share"
  /\ UNCHANGED <<rows, kind, start, limit, page, length, reserved, listed>>

(* Mutant of Share: what the sections to come need is not kept for them.     *)
ShareGreedy(least) ==
  Max({remaining \div (Len(page) - shared), least})

(* Of what remains, its part or its minimum, and not the minima to come.     *)
Share(least) ==
  Min({Max({remaining \div (Len(page) - shared), least}),
       remaining - (reserved - least)})

ShareBody ==
  /\ news = "share" /\ shared < Len(page)
  /\ LET section == page[shared + 1]
         cost == FitBody(rows[section.row].body, Share(section.minimum))
     IN  /\ page' = [page EXCEPT ![shared + 1].cost = cost]
         /\ length' = length - section.cost + cost
         /\ remaining' = remaining - cost
         /\ reserved' = reserved - section.minimum
  /\ shared' = shared + 1
  /\ UNCHANGED <<rows, kind, news, start, limit, listed>>

(* Mutant of AnswerNews: next_start_index goes by the sections asked for.     *)
AnswerNewsByLimit ==
  /\ news = "share" /\ shared = Len(page)
  /\ listed' = listed \o [n \in DOMAIN page |-> page[n].row]
  /\ start' = start + limit
  /\ news' = IF start' < Count THEN "ask" ELSE "read"
  /\ UNCHANGED <<rows, kind, limit, page, length, remaining, reserved, shared>>

(* The client goes on at next_start_index, if there is one.                  *)
AnswerNews ==
  /\ news = "share" /\ shared = Len(page)
  /\ listed' = listed \o [n \in DOMAIN page |-> page[n].row]
  /\ start' = start + Len(page)
  /\ news' = IF page # <<>> /\ start' < Count THEN "ask" ELSE "read"
  /\ UNCHANGED <<rows, kind, limit, page, length, remaining, reserved, shared>>

NewsCall == AskNews \/ Admit \/ RefuseNews \/ Close \/ ShareBody \/ AnswerNews

NewsStep == StartNews \/ NewsCall

NewsSpec == NewsInit /\ [][NewsStep]_newsVars

-----------------------------------------------------------------------------
(* Properties.                                                               *)

(* "Cap the whole structured response, including metadata and continuation    *)
(* hints": a response is never longer than Cap, at no step of the sharing,     *)
(* and each section it holds has its indexed text in it.                      *)
WithinCap ==
  /\ page # <<>> => length <= Cap
  /\ \A n \in DOMAIN page : page[n].cost > 0

Encloses(j, i) ==
  j <= i /\ \A k \in j + 1 .. i : rows[k].level > rows[j].level

SaysOf(i) ==
  LET saying == {j \in 1 .. i : Encloses(j, i) /\ rows[j].says # Silent}
  IN  IF saying = {} THEN "other" ELSE rows[Max(saying)].says

Wanted ==
  {i \in DOMAIN rows : rows[i].body # <<>> /\ kind \in {AllKinds, SaysOf(i)}}

Given == {listed[n] : n \in DOMAIN listed}

(* "The next offset must never skip" a section: the client has been given     *)
(* the first of the sections it wants, each once and in order, however many    *)
(* fitted into a response, and all of them when it is told there are no more.  *)
(* It wants those of a kind, which for each the "nearest relevant ancestor"    *)
(* names, where headings skip levels or not.                                 *)
NothingSkipped ==
  /\ \A m, n \in DOMAIN listed : m < n => listed[m] < listed[n]
  /\ Given \subseteq Wanted /\ \A i \in Wanted \ Given, j \in Given : j < i
  /\ news \in {"ask", "admit", "share"} => Len(listed) = start
  /\ (news = "share" /\ page = <<>>) \/ news = "read" => Given = Wanted
=============================================================================
