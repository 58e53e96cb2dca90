------------------------------- MODULE Paging -------------------------------
(***************************************************************************)
(* Reading a page or a section of the documentation piece by piece:          *)
(* apply_budget of retrieval/budget.py, and the two ways a text is read       *)
(* through get_docs.  A client of the server picks the size of every piece    *)
(* anew; compare_versions wants the whole section and asks for the rest in     *)
(* one piece.                                                               *)
(*                                                                          *)
(* A character is a combining mark, one that JSON escapes, or any other.      *)
(* Positions count from 0, as in the code.                                  *)
(***************************************************************************)
EXTENDS Integers, Sequences, FiniteSetsExt

Char == {"mark", "escaped", "other"}
Text == Seq(Char)

CONSTANTS
  Documents,  \* the texts a client may open
  Sizes,      \* the max_chars it asks for
  WholeSize   \* the default max_chars, with which compare_versions begins

ASSUME PagingAssumption ==
  /\ Documents \subseteq Text
  /\ Sizes \subseteq Nat \ {0}
  /\ WholeSize \in Nat \ {0}

-----------------------------------------------------------------------------
(* apply_budget.                                                             *)

IsMark(text, i) == text[i + 1] = "mark"

(* From limit back to the first position that does not hold a mark.          *)
BackedUp(text, start, limit) ==
  Max({start} \union {e \in start + 1 .. limit : ~IsMark(text, e)})

(* The first character and its marks.                                        *)
ClusterEnd(text, start) ==
  Min({Len(text)} \union {e \in start + 1 .. Len(text) - 1 : ~IsMark(text, e)})

(* Mutant of PageEnd: nothing is done about a cluster longer than the limit.  *)
PageEndStuck(text, max, start) ==
  IF Len(text) - start <= max THEN Len(text)
  ELSE BackedUp(text, start, start + max)

PageEnd(text, max, start) ==
  LET backed == BackedUp(text, start, start + max)
  IN  IF Len(text) - start <= max THEN Len(text)
      ELSE IF backed = start THEN ClusterEnd(text, start) ELSE backed

(* next is 0 when there is no next page.                                     *)
ApplyBudget(text, max, start) ==
  IF start >= Len(text) THEN [content |-> <<>>, next |-> 0]
  ELSE LET end == PageEnd(text, max, start)
       IN  [content |-> SubSeq(text, start + 1, end),
            next |-> IF end < Len(text) THEN end ELSE 0]

-----------------------------------------------------------------------------
VARIABLES
  text,    \* the text that is read
  reader,  \* "none", a "client", or "compare"
  at,      \* start_index of the next call
  got,     \* what has been read
  calls,   \* how many pieces that took
  ended    \* no next_start_index came back

readingVars == <<text, reader, at, got, calls, ended>>

PagingInit ==
  /\ text = <<>> /\ reader = "none"
  /\ at = 0 /\ got = <<>> /\ calls = 0 /\ ended = FALSE

StartReading ==
  /\ reader = "none"
  /\ text' \in Documents
  /\ reader' \in {"client", "compare"}
  /\ UNCHANGED <<at, got, calls, ended>>

(* compare.py asks for char_count, the length of the whole text.             *)
Asked == IF reader = "client" THEN Sizes
         ELSE IF calls = 0 THEN {WholeSize} ELSE {Len(text)}

Read ==
  /\ reader # "none" /\ ~ended
  /\ \E max \in Asked :
       LET page == ApplyBudget(text, max, at)
       IN  /\ got' = got \o page.content
           /\ ended' = (page.next = 0)
           /\ at' = IF ended' THEN at ELSE page.next
  /\ calls' = calls + 1
  /\ UNCHANGED <<text, reader>>

PagingNext == StartReading \/ Read

PagingSpec == PagingInit /\ [][PagingNext]_readingVars

-----------------------------------------------------------------------------
(* Properties.                                                               *)

(* Every variable holds a value of its kind.                                 *)
ReadingTypeOK ==
  /\ text \in Text
  /\ reader \in {"none", "client", "compare"}
  /\ at \in 0 .. Len(text)
  /\ got \in Text
  /\ calls \in Nat
  /\ ended \in BOOLEAN

Joined == got = IF ended THEN text ELSE SubSeq(text, 1, at)

ClustersWhole == ~ended /\ at > 0 => ~IsMark(text, at)

MovedOn == ~ended => calls <= at

WholeInTwoCalls == reader = "compare" => calls <= 2 /\ (calls = 2 => ended)

(* The pieces join to the text: whatever sizes are asked for, what has been   *)
(* read is the beginning of the text up to the next start_index, and all of   *)
(* it when there is none, although pages end early or run over so that none   *)
(* "splits a base character from its combining marks".  Every page moves on,   *)
(* also where one character and its marks are longer than what was asked for,  *)
(* and compare_versions has the whole section after one more call.            *)
PagesJoin == Joined /\ ClustersWhole /\ MovedOn /\ WholeInTwoCalls
=============================================================================
