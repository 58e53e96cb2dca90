----------------------------- MODULE ToolsProofs ------------------------------
(* Proofs about the tools: Paging, for texts of any length, read in pieces of   *)
(* any sizes; WhatsNew, for any pages, kinds, numbers of sections asked for    *)
(* and caps; and Search, for any index, queries and maxima.                   *)
EXTENDS WhatsNew, Search, FiniteSetTheorems, SequenceTheorems, TLAPS

-----------------------------------------------------------------------------
(* Pages of a text.                                                          *)

(* Every nonempty set of naturals has a least element: the intervals from 0    *)
(* to its elements have a least one.                                         *)
LEMMA LeastNatural ==
  ASSUME NEW T \in SUBSET Nat, T # {}
  PROVE  \E x \in T : \A y \in T : x <= y
<1> DEFINE R == StrictSubsetOrdering(Nat)
           Below == {0 .. x : x \in T}
<1>1. IsWellFoundedOn(R, FiniteSubsetsOf(Nat))
  BY FS_StrictSubsetOrderingWellFounded
<1>2. Below \subseteq FiniteSubsetsOf(Nat) /\ Below # {}
  <2>1. \A x \in T : IsFiniteSet(0 .. x) /\ 0 .. x \subseteq Nat
    BY FS_Interval
  <2> QED BY <2>1 DEF FiniteSubsetsOf
<1>3. \E I \in Below : \A J \in Below : <<J, I>> \notin R
  <2> HIDE DEF R, Below
  <2> QED BY <1>1, <1>2, WFMin
<1>4. PICK x \in T : \A y \in T : <<0 .. y, 0 .. x>> \notin R
  BY <1>3
<1>5. ASSUME NEW y \in T, y < x PROVE FALSE
  <2>1. 0 .. y \subseteq 0 .. x /\ x \in 0 .. x /\ x \notin 0 .. y
    BY <1>5
  <2>2. <<0 .. y, 0 .. x>> \in (SUBSET Nat) \X (SUBSET Nat)
    OBVIOUS
  <2>3. <<0 .. y, 0 .. x>> \in R
    BY <2>1, <2>2 DEF StrictSubsetOrdering
  <2> QED BY <1>4, <2>3
<1> QED BY <1>5

(* A nonempty set of integers with an upper bound has a greatest element.    *)
LEMMA MaxOfBounded ==
  ASSUME NEW S \in SUBSET Int, NEW n \in Int, S # {}, \A x \in S : x <= n
  PROVE  Max(S) \in S /\ \A x \in S : x <= Max(S)
<1> DEFINE T == {n - x : x \in S}
<1>1. T \in SUBSET Nat /\ T # {}
  <2>1. \A x \in S : n - x \in Nat
    OBVIOUS
  <2> QED BY <2>1
<1>2. \E y \in T : \A z \in T : y <= z
  <2> HIDE DEF T
  <2> QED BY <1>1, LeastNatural
<1>3. PICK x \in S : \A z \in T : n - x <= z
  BY <1>2
<1>4. \A z \in S : z <= x
  BY <1>3
<1>5. \E m \in S : \A z \in S : m >= z
  BY <1>4
<1> QED BY <1>5 DEF Max

(* One with a lower bound has a least element.                               *)
LEMMA MinOfBounded ==
  ASSUME NEW S \in SUBSET Int, NEW n \in Int, S # {}, \A x \in S : x >= n
  PROVE  Min(S) \in S /\ \A x \in S : x >= Min(S)
<1> DEFINE T == {x - n : x \in S}
<1>1. T \in SUBSET Nat /\ T # {}
  <2>1. \A x \in S : x - n \in Nat
    OBVIOUS
  <2> QED BY <2>1
<1>2. \E y \in T : \A z \in T : y <= z
  <2> HIDE DEF T
  <2> QED BY <1>1, LeastNatural
<1>3. PICK x \in S : \A z \in T : x - n <= z
  BY <1>2
<1>4. ASSUME NEW z \in S PROVE z >= x
  <2>1. x - n <= z - n
    BY <1>3
  <2> QED BY <2>1
<1>5. \E m \in S : \A z \in S : m <= z
  BY <1>4
<1> QED BY <1>5 DEF Min

-----------------------------------------------------------------------------
(* Pages.                                                                    *)

LEMMA BackedUpBounds ==
  ASSUME NEW t \in Text, NEW first \in Nat, NEW last \in Nat, first <= last
  PROVE  /\ BackedUp(t, first, last) \in first .. last
         /\ BackedUp(t, first, last) # first => ~IsMark(t, BackedUp(t, first, last))
<1> DEFINE S == {first} \union {e \in first + 1 .. last : ~IsMark(t, e)}
<1>1. S \in SUBSET Int /\ S # {} /\ \A x \in S : x <= last
  OBVIOUS
<1>2. Max(S) \in S
  <2> last \in Int
    OBVIOUS
  <2> HIDE DEF S
  <2> QED BY <1>1, MaxOfBounded
<1>3. BackedUp(t, first, last) = Max(S)
  BY DEF BackedUp
<1>4. \A x \in S : x \in first .. last /\ (x # first => ~IsMark(t, x))
  OBVIOUS
<1> QED BY <1>2, <1>3, <1>4

LEMMA ClusterEndBounds ==
  ASSUME NEW t \in Text, NEW first \in Nat, first < Len(t)
  PROVE  /\ ClusterEnd(t, first) \in first + 1 .. Len(t)
         /\ ClusterEnd(t, first) < Len(t) => ~IsMark(t, ClusterEnd(t, first))
<1> DEFINE S == {Len(t)} \union {e \in first + 1 .. Len(t) - 1 : ~IsMark(t, e)}
<1> Len(t) \in Nat
  BY DEF Text
<1>1. S \in SUBSET Int /\ S # {} /\ \A x \in S : x >= first
  OBVIOUS
<1>2. Min(S) \in S
  <2> first \in Int
    OBVIOUS
  <2> HIDE DEF S
  <2> QED BY <1>1, MinOfBounded
<1>3. ClusterEnd(t, first) = Min(S)
  BY DEF ClusterEnd
<1>4. \A x \in S : x \in first + 1 .. Len(t) /\ (x < Len(t) => ~IsMark(t, x))
  OBVIOUS
<1> QED BY <1>2, <1>3, <1>4

(* A page moves on, ends within the text, never before a mark, and takes all  *)
(* that is left when it is given the room.                                   *)
LEMMA PageEndBounds ==
  ASSUME NEW t \in Text, NEW max \in Nat \ {0}, NEW first \in Nat, first < Len(t)
  PROVE  /\ PageEnd(t, max, first) \in first + 1 .. Len(t)
         /\ PageEnd(t, max, first) < Len(t) => ~IsMark(t, PageEnd(t, max, first))
         /\ Len(t) - first <= max => PageEnd(t, max, first) = Len(t)
<1> Len(t) \in Nat
  BY DEF Text
<1>1. CASE Len(t) - first <= max
  BY <1>1 DEF PageEnd
<1>2. CASE ~(Len(t) - first <= max)
  <2> DEFINE backed == BackedUp(t, first, first + max)
  <2>1. PageEnd(t, max, first) = IF backed = first THEN ClusterEnd(t, first) ELSE backed
    BY <1>2 DEF PageEnd
  <2>2. backed \in first .. first + max /\ (backed # first => ~IsMark(t, backed))
    <3> first + max \in Nat /\ first <= first + max
      OBVIOUS
    <3> QED BY BackedUpBounds
  <2> HIDE DEF backed
  <2>3. first + max < Len(t)
    BY <1>2
  <2> QED BY <1>2, <2>1, <2>2, <2>3, ClusterEndBounds
<1> QED BY <1>1, <1>2

LEMMA ApplyBudgetPage ==
  ASSUME NEW t \in Text, NEW max \in Nat \ {0}, NEW first \in Nat, first < Len(t)
  PROVE  LET end == PageEnd(t, max, first)
             result == ApplyBudget(t, max, first)
         IN  /\ result.content = SubSeq(t, first + 1, end)
             /\ result.next = IF end < Len(t) THEN end ELSE 0
<1>1. Len(t) \in Nat /\ ~(first >= Len(t))
  BY DEF Text
<1> QED BY <1>1 DEF ApplyBudget

-----------------------------------------------------------------------------
(* Reading.                                                                  *)

(* While there is a next page it is within the text; nothing is read before   *)
(* a text is chosen.                                                         *)
Within ==
  /\ ~ended /\ at > 0 => at < Len(text)
  /\ reader = "none" => text = <<>> /\ at = 0 /\ got = <<>> /\ calls = 0 /\ ~ended

ReadingInv == ReadingTypeOK /\ Within /\ PagesJoin

LEMMA ReadingInit == PagingInit => ReadingInv
<1> SUFFICES ASSUME PagingInit PROVE ReadingInv
  OBVIOUS
<1>1. <<>> \in Text /\ Len(<<>>) = 0 /\ SubSeq(<<>>, 1, 0) = <<>>
  BY SubSeqEmpty DEF Text
<1>2. /\ text = <<>> /\ reader = "none" /\ at = 0 /\ got = <<>> /\ calls = 0
      /\ ended = FALSE
  BY DEF PagingInit
<1>3. ReadingTypeOK
  <2>1. text \in Text /\ got \in Text
    BY <1>1, <1>2
  <2>2. at \in 0 .. Len(text) /\ calls \in Nat
    BY <1>1, <1>2
  <2> QED BY <1>2, <2>1, <2>2 DEF ReadingTypeOK
<1>4. Within /\ PagesJoin
  BY <1>1, <1>2 DEF Within, PagesJoin, Joined, ClustersWhole, MovedOn, WholeInTwoCalls
<1> QED BY <1>3, <1>4 DEF ReadingInv

LEMMA StartKeepsInv == ASSUME ReadingInv, StartReading PROVE ReadingInv'
<1>1. text' \in Text /\ reader' \in {"client", "compare"}
  BY PagingAssumption DEF StartReading
<1>2. at = 0 /\ got = <<>> /\ calls = 0 /\ ended = FALSE
  BY DEF StartReading, ReadingInv, Within, ReadingTypeOK
<1>3. UNCHANGED <<at, got, calls, ended>>
  BY DEF StartReading
<1>4. SubSeq(text', 1, 0) = <<>>
  BY SubSeqEmpty
<1>5. ReadingTypeOK'
  BY <1>1, <1>2, <1>3 DEF ReadingInv, ReadingTypeOK, Text
<1> QED BY <1>1, <1>2, <1>3, <1>4, <1>5 DEF ReadingInv, Within, PagesJoin, Joined,
              ClustersWhole, MovedOn, WholeInTwoCalls

LEMMA ReadKeepsInv == ASSUME ReadingInv, Read PROVE ReadingInv'
<1> USE DEF ReadingInv
<1>0. PICK max \in Asked :
        LET given == ApplyBudget(text, max, at)
        IN  /\ got' = got \o given.content
            /\ ended' = (given.next = 0)
            /\ at' = IF ended' THEN at ELSE given.next
  BY DEF Read
<1>1. LET given == ApplyBudget(text, max, at)
      IN  /\ got' = got \o given.content
          /\ given.next = 0 => ended' = TRUE /\ at' = at
          /\ given.next # 0 => ended' = FALSE /\ at' = given.next
  BY <1>0
<1>2. /\ reader # "none" /\ ended = FALSE
      /\ calls' = calls + 1 /\ UNCHANGED <<text, reader>>
  BY DEF Read, ReadingTypeOK
<1>3. /\ text \in Text /\ Len(text) \in Nat /\ at \in 0 .. Len(text) /\ calls \in Nat
      /\ got = SubSeq(text, 1, at) /\ calls <= at
  BY <1>2 DEF ReadingTypeOK, Text, PagesJoin, Joined, MovedOn
<1>4. at > 0 => at < Len(text)
  BY <1>2 DEF Within
<1>5. CASE Len(text) = 0
  <2>1. text = <<>> /\ at = 0 /\ got = <<>>
    BY <1>3, <1>5, EmptySeq, SubSeqEmpty DEF Text
  <2>2. ApplyBudget(text, max, at) = [content |-> <<>>, next |-> 0]
    BY <1>3, <1>5 DEF ApplyBudget
  <2>3. got' = <<>> /\ ended' = TRUE /\ at' = 0
    BY <1>1, <2>1, <2>2, ConcatEmptySeq DEF Text
  <2>4. calls' = 1
    BY <1>2, <1>3, <2>1
  <2> QED
    BY <1>2, <1>3, <2>1, <2>3, <2>4 DEF ReadingTypeOK, Within, PagesJoin, Joined,
       ClustersWhole, MovedOn, WholeInTwoCalls
<1>6. CASE Len(text) > 0
  <2> DEFINE end == PageEnd(text, max, at)
  <2>1. max \in Nat \ {0}
    BY <1>3, <1>6, PagingAssumption DEF Asked
  <2>2. at \in Nat /\ at < Len(text)
    BY <1>3, <1>4, <1>6
  <2>3. /\ end \in at + 1 .. Len(text)
        /\ end < Len(text) => ~IsMark(text, end)
        /\ Len(text) - at <= max => end = Len(text)
    BY <1>3, <2>1, <2>2, PageEndBounds
  <2>4. /\ ApplyBudget(text, max, at).content = SubSeq(text, at + 1, end)
        /\ ApplyBudget(text, max, at).next = IF end < Len(text) THEN end ELSE 0
    BY <1>3, <2>1, <2>2, ApplyBudgetPage
  <2> HIDE DEF end
  <2>5. /\ got' = got \o SubSeq(text, at + 1, end)
        /\ end < Len(text) => ended' = FALSE /\ at' = end
        /\ end = Len(text) => ended' = TRUE /\ at' = at
    BY <1>1, <1>3, <2>3, <2>4
  <2>6. got' = SubSeq(text, 1, end)
    BY <1>3, <2>2, <2>3, <2>5, ConcatAdjacentSubSeq DEF Text
  <2>7. end = Len(text) => got' = text
    BY <1>3, <2>6, SubSeqFull DEF Text
  <2>8. got' \in Text
    <3>1. \A i \in 1 .. end : text[i] \in Char
      BY <1>3, <2>3 DEF Text
    <3> QED BY <2>3, <2>6, <3>1, SubSeqProperties DEF Text
  <2>9. PagesJoin'
    <3>0. end < Len(text) \/ end = Len(text)
      BY <1>3, <2>3
    <3>1. Joined'
      BY <3>0, <1>2, <1>3, <2>3, <2>5, <2>6, <2>7 DEF Joined
    <3>2. ClustersWhole'
      BY <3>0, <1>2, <2>3, <2>5 DEF ClustersWhole
    <3>3. MovedOn'
      BY <3>0, <1>2, <1>3, <2>3, <2>5 DEF MovedOn
    <3>4. WholeInTwoCalls'
      <4> SUFFICES ASSUME reader = "compare" PROVE calls' <= 2 /\ (calls' = 2 => ended')
        BY <1>2 DEF WholeInTwoCalls
      <4>1. calls \in {0, 1}
        BY <1>2, <1>3 DEF PagesJoin, WholeInTwoCalls
      <4>2. calls = 1 => max = Len(text)
        BY DEF Asked
      <4>3. calls = 1 => end = Len(text)
        BY <1>3, <2>3, <4>2
      <4> QED BY <1>2, <1>3, <2>5, <4>1, <4>3
    <3> QED BY <3>1, <3>2, <3>3, <3>4 DEF PagesJoin
  <2>10. CASE end < Len(text)
    <3>1. at' = end /\ ended' = FALSE /\ text' = text /\ reader' = reader
      BY <1>2, <2>5, <2>10
    <3>2. at' \in 0 .. Len(text) /\ at' < Len(text) /\ calls' \in Nat
      BY <1>2, <1>3, <2>3, <2>10, <3>1
    <3>3. ReadingTypeOK'
      BY <2>8, <3>1, <3>2 DEF ReadingTypeOK
    <3>4. Within'
      BY <1>2, <3>1, <3>2 DEF Within
    <3> QED BY <2>9, <3>3, <3>4
  <2>11. CASE end = Len(text)
    BY <1>2, <1>3, <2>3, <2>5, <2>8, <2>9, <2>11 DEF ReadingTypeOK, Within
  <2> QED BY <1>3, <2>3, <2>10, <2>11
<1> QED BY <1>3, <1>5, <1>6

LEMMA ReadingKeepsInv == ReadingInv /\ [PagingNext]_readingVars => ReadingInv'
<1> SUFFICES ASSUME ReadingInv, [PagingNext]_readingVars PROVE ReadingInv'
  OBVIOUS
<1>1. CASE UNCHANGED readingVars
  BY <1>1 DEF readingVars, ReadingInv, ReadingTypeOK, Within, PagesJoin, Joined,
              ClustersWhole, MovedOn, WholeInTwoCalls, IsMark
<1> QED BY <1>1, StartKeepsInv, ReadKeepsInv DEF PagingNext

(* The pages of any text, in whatever sizes a client asks for them, join to    *)
(* the text, split no character from its marks and come to an end; and         *)
(* compare_versions has a whole section in two calls.                        *)
THEOREM PagesJoinToTheText == PagingSpec => []PagesJoin
<1>1. ReadingInv => PagesJoin
  BY DEF ReadingInv
<1> QED BY <1>1, ReadingInit, ReadingKeepsInv, PTL DEF PagingSpec

-----------------------------------------------------------------------------
(* What a body costs.                                                        *)

(* A text costs at least its characters.                                     *)
LEMMA CostBounds ==
  ASSUME NEW t \in Text
  PROVE  Cost(t) \in Nat /\ Cost(t) >= Len(t)
<1> DEFINE S == {i \in DOMAIN t : t[i] = "escaped"}
<1>1. Len(t) \in Nat /\ DOMAIN t = 1 .. Len(t)
  BY DEF Text
<1>2. IsFiniteSet(S)
  <2>1. IsFiniteSet(DOMAIN t)
    BY <1>1, FS_Interval
  <2> QED BY <2>1, FS_Subset
<1>3. Cardinality(S) \in Nat
  BY <1>2, FS_CardinalityType
<1>4. Cost(t) = Len(t) + Cardinality(S)
  BY DEF Cost
<1> HIDE DEF S
<1> QED BY <1>1, <1>3, <1>4

(* An excerpt of a nonempty body is not empty.                               *)
LEMMA ExcerptBounds ==
  ASSUME NEW b \in Text, b # <<>>, NEW max \in Nat \ {0}
  PROVE  ExcerptCost(b, max) \in Nat \ {0}
<1>1. Len(b) \in Nat \ {0}
  BY EmptySeq DEF Text
<1>2. PageEnd(b, max, 0) \in 1 .. Len(b)
  BY <1>1, PageEndBounds
<1> DEFINE end == PageEnd(b, max, 0)
           content == SubSeq(b, 1, end)
<1>3. ApplyBudget(b, max, 0).content = content
  BY <1>1, ApplyBudgetPage
<1>4. content \in Text /\ Len(content) = end
  BY <1>1, <1>2, SubSeqProperties DEF Text
<1>5. Cost(content) \in Nat /\ Cost(content) >= end
  BY <1>4, CostBounds
<1>6. ExcerptCost(b, max) =
        Cost(content) + (IF ApplyBudget(b, max, 0).next > 0 THEN HintCost ELSE 0)
  BY <1>3 DEF ExcerptCost
<1> HIDE DEF end, content
<1>7. CASE ApplyBudget(b, max, 0).next > 0
  BY <1>2, <1>5, <1>6, <1>7, NewsAssumption DEF end
<1>8. CASE ~(ApplyBudget(b, max, 0).next > 0)
  BY <1>2, <1>5, <1>6, <1>8 DEF end
<1> QED BY <1>7, <1>8

LEMMA MinimumBounds ==
  ASSUME NEW b \in Text, b # <<>>
  PROVE  Minimum(b) \in Nat \ {0}
<1>1. Cost(b) \in Nat \ {0}
  BY CostBounds, EmptySeq DEF Text
<1>2. ExcerptCost(b, 1) \in Nat \ {0}
  BY ExcerptBounds
<1> QED BY <1>1, <1>2 DEF Minimum

(* A body fits into its share, if its minimum does, and does not vanish.      *)
LEMMA FitBodyBounds ==
  ASSUME NEW b \in Text, b # <<>>, NEW share \in Int, Minimum(b) <= share
  PROVE  FitBody(b, share) \in Nat \ {0} /\ FitBody(b, share) <= share
<1>1. Cost(b) \in Nat \ {0} /\ Minimum(b) \in Nat \ {0}
  BY CostBounds, MinimumBounds, EmptySeq DEF Text
<1> DEFINE last == Min({BodyChars, Len(b) - 1})
           fits == {m \in 1 .. last : ExcerptCost(b, m) <= share}
           whole == Len(b) <= BodyChars /\ Cost(b) <= share
<1>2. FitBody(b, share) =
        IF whole THEN Cost(b)
        ELSE IF fits = {} THEN Minimum(b) ELSE ExcerptCost(b, Max(fits))
  BY DEF FitBody
<1>3. last \in Int
  <2> DEFINE S == {BodyChars, Len(b) - 1}
  <2>1. 0 \in Int /\ S \in SUBSET Int /\ S # {} /\ \A x \in S : x >= 0
    BY EmptySeq, NewsAssumption DEF Text
  <2>2. Min(S) \in S
    <3> HIDE DEF S
    <3> QED BY <2>1, MinOfBounded
  <2> QED BY <2>1, <2>2
<1> HIDE DEF last
<1>4. ASSUME fits # {} PROVE Max(fits) \in fits
  <2>1. fits \in SUBSET Int /\ \A x \in fits : x <= last
    BY <1>3
  <2> HIDE DEF fits
  <2> QED BY <1>3, <1>4, <2>1, MaxOfBounded
<1>5. CASE whole
  BY <1>1, <1>2, <1>5
<1>6. CASE ~whole /\ fits = {}
  BY <1>1, <1>2, <1>6
<1>7. CASE ~whole /\ fits # {}
  <2>1. Max(fits) \in Nat \ {0} /\ ExcerptCost(b, Max(fits)) <= share
    BY <1>3, <1>4, <1>7
  <2>2. ExcerptCost(b, Max(fits)) \in Nat \ {0}
    BY <2>1, ExcerptBounds
  <2>3. FitBody(b, share) = ExcerptCost(b, Max(fits))
    BY <1>2, <1>7
  <2> QED BY <2>1, <2>2, <2>3
<1> QED BY <1>5, <1>6, <1>7

(* A share is at least the section's minimum, and leaves the minima to come.  *)
LEMMA ShareBounds ==
  ASSUME NEW least \in Nat, remaining \in Int, reserved \in Int,
         Len(page) - shared \in Nat \ {0}, remaining >= reserved
  PROVE  /\ Share(least) \in Int
         /\ least <= Share(least)
         /\ Share(least) <= remaining - reserved + least
<1> DEFINE part == remaining \div (Len(page) - shared)
           S == {part, least}
           T == {Max(S), remaining - (reserved - least)}
<1>1. part \in Int
  OBVIOUS
<1> HIDE DEF part
<1>2. Max(S) \in Int /\ Max(S) >= least
  <2>1. \E n \in Int : \A x \in S : x <= n
    <3>1. CASE part <= least
      BY <1>1, <3>1
    <3>2. CASE ~(part <= least)
      BY <1>1, <3>2
    <3> QED BY <3>1, <3>2
  <2>2. S \in SUBSET Int /\ S # {} /\ least \in S
    BY <1>1
  <2> HIDE DEF S
  <2> QED BY <2>1, <2>2, MaxOfBounded
<1> DEFINE rest == remaining - (reserved - least)
<1>3. rest \in Int /\ rest >= least /\ rest = remaining - reserved + least
  OBVIOUS
<1>4. least \in Int /\ T \in SUBSET Int /\ T # {} /\ rest \in T /\ \A x \in T : x >= least
  BY <1>2, <1>3
<1>5. Min(T) \in T /\ Min(T) <= rest
  <2> HIDE DEF T, rest
  <2> QED BY <1>4, MinOfBounded
<1>6. Share(least) = Min(T)
  BY DEF Share, part
<1> QED BY <1>3, <1>4, <1>5, <1>6

-----------------------------------------------------------------------------
(* The invariant.  The sections that have no share yet stand at their minima,  *)
(* which are set aside in reserved; what else remains is what the response is  *)
(* short of Cap.  So no share can make the response longer than Cap.         *)

Entry == [row : DOMAIN rows, minimum : Nat \ {0}, cost : Nat \ {0}]

NewsTypeOK ==
  /\ rows \in Seq(NewsRow)
  /\ \A i \in DOMAIN rows : rows[i].meta \in Nat /\ rows[i].body \in Text
  /\ page \in Seq(Entry)
  /\ length \in Int /\ reserved \in Int /\ remaining \in Int /\ shared \in Nat

MinimaKept ==
  \A n \in DOMAIN page :
    /\ rows[page[n].row].body # <<>>
    /\ page[n].minimum = Minimum(rows[page[n].row].body)

AtMinimum(first) == \A n \in DOMAIN page : n >= first => page[n].cost = page[n].minimum

NewsInv ==
  /\ NewsTypeOK
  /\ MinimaKept
  /\ page # <<>> => length <= Cap
  /\ news = "none" => page = <<>>
  /\ news = "admit" => AtMinimum(1)
  /\ news = "share" => /\ shared <= Len(page)
                       /\ AtMinimum(shared + 1)
                       /\ remaining - reserved = Cap - length

LEMMA NewsInvInit == NewsInit => NewsInv
<1> SUFFICES ASSUME NewsInit PROVE NewsInv
  OBVIOUS
<1>1. rows = <<>> /\ page = <<>> /\ news = "none"
  BY DEF NewsInit
<1>2. DOMAIN rows = {} /\ DOMAIN page = {}
  BY <1>1
<1>3. length \in Int /\ reserved \in Int /\ remaining \in Int /\ shared \in Nat
  BY DEF NewsInit
<1>4. page \in Seq(Entry) /\ rows \in Seq(NewsRow)
  BY <1>1, EmptySeq
<1>5. NewsTypeOK
  BY <1>2, <1>3, <1>4 DEF NewsTypeOK
<1> QED BY <1>1, <1>2, <1>5 DEF NewsInv, MinimaKept, AtMinimum

LEMMA StartNewsKeepsInv == ASSUME NewsInv, StartNews PROVE NewsInv'
<1>1. rows' \in Pages /\ news' = "ask" /\ page = <<>>
  BY DEF NewsInv, StartNews
<1>2. UNCHANGED <<page, length, remaining, reserved, shared>>
  BY DEF StartNews
<1>3. page' = <<>> /\ DOMAIN page' = {}
  BY <1>1, <1>2
<1>4. page' \in Seq(Entry')
  BY <1>3, EmptySeq
<1>5. rows' \in Seq(NewsRow)
  BY <1>1, NewsAssumption
<1>6. ASSUME NEW i \in DOMAIN rows' PROVE rows'[i].meta \in Nat /\ rows'[i].body \in Text
  <2>1. rows'[i] \in NewsRow
    BY <1>5
  <2> QED BY <2>1 DEF NewsRow
<1>7. length' \in Int /\ reserved' \in Int /\ remaining' \in Int /\ shared' \in Nat
  BY <1>2 DEF NewsInv, NewsTypeOK
<1>8. NewsTypeOK'
  BY <1>4, <1>5, <1>6, <1>7 DEF NewsTypeOK
<1> QED BY <1>1, <1>3, <1>8 DEF NewsInv, MinimaKept

LEMMA AskNewsKeepsInv == ASSUME NewsInv, AskNews PROVE NewsInv'
<1>1. /\ news' = "admit" /\ page' = <<>> /\ length' = EmptyCost /\ reserved' = 0
      /\ UNCHANGED <<rows, remaining, shared>>
  BY DEF AskNews
<1>2. DOMAIN page' = {}
  BY <1>1
<1>3. page' \in Seq(Entry')
  BY <1>1, EmptySeq
<1>4. NewsTypeOK'
  BY <1>1, <1>3, NewsAssumption DEF NewsInv, NewsTypeOK
<1> QED BY <1>1, <1>2, <1>4 DEF NewsInv, MinimaKept, AtMinimum

LEMMA AdmitKeepsInv == ASSUME NewsInv, Admit PROVE NewsInv'
<1> USE DEF NewsInv
<1>1. PICK i \in Coming :
        /\ CandidateLength(i) <= Cap
        /\ page' = Append(page, [row |-> i, minimum |-> Minimum(rows[i].body),
                                 cost |-> Minimum(rows[i].body)])
        /\ length' = CandidateLength(i)
        /\ reserved' = reserved + Minimum(rows[i].body)
  BY DEF Admit
<1>2. UNCHANGED <<rows, remaining, shared>> /\ news = "admit" /\ news' = "admit"
  BY DEF Admit
<1>3. i \in DOMAIN rows /\ rows[i].body # <<>>
  BY DEF Coming, Match, Matches
<1>4. rows[i].body \in Text /\ rows[i].meta \in Nat
  BY <1>3 DEF NewsTypeOK
<1> DEFINE minimum == Minimum(rows[i].body)
           entry == [row |-> i, minimum |-> minimum, cost |-> minimum]
<1>5. minimum \in Nat \ {0}
  BY <1>3, <1>4, MinimumBounds
<1>6. CandidateLength(i) \in Int
  <2> DEFINE more == IF NextMatch < Count THEN NextCost ELSE 0
             fewer == IF page # <<>> THEN NextCost ELSE 0
  <2>1. more \in Int /\ fewer \in Int
    BY NewsAssumption
  <2>2. CandidateLength(i) = length + rows[i].meta + minimum + more - fewer
    BY DEF CandidateLength
  <2> HIDE DEF more, fewer, minimum
  <2> QED BY <1>4, <1>5, <2>1, <2>2 DEF NewsTypeOK
<1>7. page' = Append(page, entry) /\ reserved' = reserved + minimum
  BY <1>1
<1> HIDE DEF minimum
<1>8. entry \in Entry
  BY <1>3, <1>5 DEF Entry
<1>9. page \in Seq(Entry)
  BY DEF NewsTypeOK
<1>10. /\ page' \in Seq(Entry)
       /\ Len(page') = Len(page) + 1 /\ DOMAIN page' = 1 .. Len(page) + 1
       /\ DOMAIN page = 1 .. Len(page) /\ Len(page) \in Nat
       /\ \A n \in DOMAIN page : page'[n] = page[n]
       /\ page'[Len(page) + 1] = entry
  BY <1>7, <1>8, <1>9, AppendProperties
<1>11. Entry' = Entry
  BY <1>2 DEF Entry
<1>12. NewsTypeOK'
  BY <1>1, <1>2, <1>5, <1>6, <1>7, <1>10, <1>11 DEF NewsTypeOK
<1>13. \A n \in DOMAIN page' : n \in DOMAIN page \/ n = Len(page) + 1
  BY <1>10
<1>14. /\ rows[entry.row].body # <<>>
       /\ entry.minimum = Minimum(rows[entry.row].body) /\ entry.cost = entry.minimum
  BY <1>3 DEF minimum
<1> HIDE DEF entry
<1>15. MinimaKept'
  BY <1>2, <1>10, <1>13, <1>14 DEF MinimaKept
<1>16. AtMinimum(1)'
  BY <1>2, <1>10, <1>13, <1>14 DEF AtMinimum
<1> QED BY <1>1, <1>2, <1>12, <1>15, <1>16

LEMMA RefuseNewsKeepsInv == ASSUME NewsInv, RefuseNews PROVE NewsInv'
<1>1. /\ news' = "failed"
      /\ UNCHANGED <<rows, page, length, remaining, reserved, shared>>
  BY DEF RefuseNews
<1> QED BY <1>1 DEF NewsInv, NewsTypeOK, Entry, MinimaKept

LEMMA CloseKeepsInv == ASSUME NewsInv, Close PROVE NewsInv'
<1>1. /\ news = "admit" /\ news' = "share" /\ shared' = 0
      /\ remaining' = Cap - length + reserved
      /\ UNCHANGED <<rows, page, length, reserved>>
  BY DEF Close
<1>2. NewsTypeOK /\ Len(page) \in Nat /\ Cap \in Nat
  BY NewsAssumption DEF NewsInv, NewsTypeOK
<1>3. NewsTypeOK'
  BY <1>1, <1>2 DEF NewsTypeOK, Entry
<1>4. AtMinimum(1) /\ MinimaKept /\ (page # <<>> => length <= Cap)
  BY <1>1 DEF NewsInv
<1>5. MinimaKept' /\ AtMinimum(shared + 1)'
  BY <1>1, <1>4 DEF MinimaKept, AtMinimum
<1>6. remaining' - reserved' = Cap - length' /\ shared' <= Len(page')
  BY <1>1, <1>2 DEF NewsTypeOK
<1> QED BY <1>1, <1>3, <1>4, <1>5, <1>6 DEF NewsInv

LEMMA ShareBodyKeepsInv == ASSUME NewsInv, ShareBody PROVE NewsInv'
<1> USE DEF NewsInv
<1> DEFINE k == shared + 1
           section == page[k]
           body == rows[section.row].body
           least == section.minimum
           cost == FitBody(body, Share(least))
<1>1. /\ news = "share" /\ news' = "share" /\ shared < Len(page) /\ shared' = k
      /\ page' = [page EXCEPT ![k].cost = cost]
      /\ length' = length - section.cost + cost
      /\ remaining' = remaining - cost
      /\ reserved' = reserved - least
      /\ rows' = rows
  BY DEF ShareBody
<1>2. /\ page \in Seq(Entry) /\ Len(page) \in Nat /\ DOMAIN page = 1 .. Len(page)
      /\ length \in Int /\ reserved \in Int /\ remaining \in Int /\ shared \in Nat
  BY DEF NewsTypeOK
<1>3. k \in DOMAIN page
  BY <1>1, <1>2
<1>4. section \in Entry
  BY <1>2, <1>3
<1>5. /\ body \in Text /\ body # <<>>
      /\ least = Minimum(body) /\ least \in Nat /\ section.cost = least
  <2>1. section.row \in DOMAIN rows /\ least \in Nat
    BY <1>4 DEF Entry
  <2>2. k >= shared + 1
    BY <1>2
  <2> QED BY <1>1, <1>3, <2>1, <2>2 DEF NewsTypeOK, MinimaKept, AtMinimum
<1>6. length <= Cap /\ remaining - reserved = Cap - length /\ Cap \in Nat
  <2>1. page # <<>>
    BY <1>1, <1>2
  <2> QED BY <1>1, <2>1, NewsAssumption
<1>7. /\ Share(least) \in Int /\ least <= Share(least)
      /\ Share(least) <= remaining - reserved + least
  <2>1. Len(page) - shared \in Nat \ {0} /\ remaining >= reserved
    BY <1>1, <1>2, <1>6
  <2> HIDE DEF least
  <2> QED BY <1>2, <1>5, <2>1, ShareBounds
<1>8. cost \in Nat \ {0} /\ cost <= Share(least)
  BY <1>5, <1>7, FitBodyBounds
<1> DEFINE entry == [section EXCEPT !.cost = cost]
<1> HIDE DEF cost
<1>9. /\ entry \in Entry /\ entry.row = section.row /\ entry.minimum = least
  BY <1>4, <1>8 DEF Entry
<1>10. page' = [page EXCEPT ![k] = entry]
  BY <1>1
<1> HIDE DEF entry
<1>11. /\ page' \in Seq(Entry) /\ Len(page') = Len(page) /\ DOMAIN page' = DOMAIN page
       /\ page'[k] = entry
       /\ \A n \in DOMAIN page : n # k => page'[n] = page[n]
  BY <1>2, <1>3, <1>9, <1>10, ExceptSeq
<1>12. Entry' = Entry
  BY <1>1 DEF Entry
<1> HIDE DEF body
<1>13. length' \in Int /\ length' <= Cap /\ remaining' - reserved' = Cap - length'
  <2>1. length' = length - least + cost
    BY <1>1, <1>5
  <2>2. remaining' = remaining - cost /\ reserved' = reserved - least
    BY <1>1
  <2>3. /\ least \in Int /\ cost \in Int
        /\ length \in Int /\ reserved \in Int /\ remaining \in Int
    BY <1>2, <1>5, <1>8
  <2>4. cost <= remaining - reserved + least
    <3> DEFINE share == Share(least)
    <3>1. share \in Int /\ cost <= share /\ share <= remaining - reserved + least
      BY <1>7, <1>8
    <3> HIDE DEF share, section, least
    <3> QED BY <2>3, <3>1
  <2> HIDE DEF section, least
  <2> QED BY <1>6, <2>1, <2>2, <2>3, <2>4
<1>14. reserved' \in Int /\ remaining' \in Int /\ shared' \in Nat /\ shared' <= Len(page')
  <2> HIDE DEF section, least
  <2> QED BY <1>1, <1>2, <1>5, <1>8, <1>11
<1>15. NewsTypeOK'
  BY <1>1, <1>11, <1>12, <1>13, <1>14 DEF NewsTypeOK
<1>16. MinimaKept'
  <2> SUFFICES ASSUME NEW n \in DOMAIN page
               PROVE  /\ rows[page'[n].row].body # <<>>
                      /\ page'[n].minimum = Minimum(rows[page'[n].row].body)
    BY <1>1, <1>11 DEF MinimaKept
  <2>1. page'[n].row = page[n].row /\ page'[n].minimum = page[n].minimum
    BY <1>9, <1>11
  <2> QED BY <2>1 DEF MinimaKept
<1>17. AtMinimum(shared + 1)'
  <2> SUFFICES ASSUME NEW n \in DOMAIN page, n >= k + 1
               PROVE  page'[n].cost = page'[n].minimum
    BY <1>1, <1>11 DEF AtMinimum
  <2>1. n # k /\ n >= shared + 1
    BY <1>2
  <2> QED BY <1>1, <1>11, <2>1 DEF AtMinimum
<1> QED BY <1>1, <1>13, <1>14, <1>15, <1>16, <1>17

LEMMA AnswerNewsKeepsInv == ASSUME NewsInv, AnswerNews PROVE NewsInv'
<1>1. /\ news' \in {"ask", "read"}
      /\ UNCHANGED <<rows, page, length, remaining, reserved, shared>>
  BY DEF AnswerNews
<1> QED BY <1>1 DEF NewsInv, NewsTypeOK, Entry, MinimaKept

LEMMA NewsKeepsInv == NewsInv /\ [NewsStep]_newsVars => NewsInv'
<1> SUFFICES ASSUME NewsInv, [NewsStep]_newsVars PROVE NewsInv'
  OBVIOUS
<1>1. CASE UNCHANGED newsVars
  BY <1>1 DEF newsVars, NewsInv, NewsTypeOK, Entry, MinimaKept, AtMinimum
<1> QED BY <1>1, StartNewsKeepsInv, AskNewsKeepsInv, AdmitKeepsInv, RefuseNewsKeepsInv,
           CloseKeepsInv, ShareBodyKeepsInv, AnswerNewsKeepsInv DEF NewsStep, NewsCall

(* Whatever the page and however many sections a client asks for, a response   *)
(* is never longer than Cap, and no section it holds has lost its text.       *)
THEOREM ResponsesAreCapped == NewsSpec => []WithinCap
<1>1. NewsInv => WithinCap
  <2> SUFFICES ASSUME NewsInv PROVE WithinCap
    OBVIOUS
  <2>1. page \in Seq(Entry)
    BY DEF NewsInv, NewsTypeOK
  <2>2. ASSUME NEW n \in DOMAIN page PROVE page[n].cost > 0
    <3>1. page[n] \in Entry
      BY <2>1
    <3> QED BY <3>1 DEF Entry
  <2> QED BY <2>2 DEF NewsInv, WithinCap
<1> QED BY <1>1, NewsInvInit, NewsKeepsInv, PTL DEF NewsSpec

-----------------------------------------------------------------------------
(* The sections a search lists.                                              *)

(* The ranks that are selected are those of candidates.                      *)
LEMMA SelectedRanks ==
  ASSUME NEW entries, NEW c \in Seq(entries)
  PROVE  Selected(c) \in Seq(1 .. Len(c))
<1> DEFINE Best(prior, n) ==
      LET duplicates == {i \in DOMAIN prior : Overlap(c[prior[i]], c[n])}
          first == Min(duplicates)
      IN  IF duplicates = {} THEN Append(prior, n)
          ELSE IF c[n].size < c[prior[first]].size
               THEN [prior EXCEPT ![first] = n] ELSE prior
    IsFold(f, k) == f = [n \in 0 .. k |-> IF n = 0 THEN <<>> ELSE Best(f[n - 1], n)]
<1>1. Selected(c) = (CHOOSE f : IsFold(f, Len(c)))[Len(c)]
  BY DEF Selected
<1>2. Len(c) \in Nat
  OBVIOUS
<1> HIDE DEF Best
<1>3. ASSUME NEW k \in Nat PROVE \E f : IsFold(f, k)
  <2> DEFINE T == {m \in Nat : ~\E f : IsFold(f, m)}
  <2> SUFFICES ASSUME T # {} PROVE FALSE
    OBVIOUS
  <2>1. PICK m \in T : \A l \in T : m <= l
    <3>1. T \in SUBSET Nat
      OBVIOUS
    <3> HIDE DEF T
    <3> QED BY <3>1, LeastNatural
  <2>2. CASE m = 0
    <3>1. IsFold([n \in 0 .. 0 |-> <<>>], 0)
      OBVIOUS
    <3> QED BY <2>1, <2>2, <3>1
  <2>3. CASE m # 0
    <3>1. m - 1 \in Nat /\ m - 1 \notin T
      BY <2>1, <2>3
    <3>2. PICK f : IsFold(f, m - 1)
      BY <3>1
    <3> DEFINE g == [n \in 0 .. m |-> IF n < m THEN f[n] ELSE Best(f[m - 1], m)]
    <3>3. m \in Nat
      BY <2>1
    <3>4. ASSUME NEW n \in 0 .. m PROVE g[n] = IF n = 0 THEN <<>> ELSE Best(g[n - 1], n)
      BY <2>3, <3>2, <3>3
    <3>5. IsFold(g, m)
      BY <3>4
    <3> QED BY <2>1, <3>5
  <2> QED BY <2>2, <2>3
<1> DEFINE Fold == CHOOSE f : IsFold(f, Len(c))
<1>4. IsFold(Fold, Len(c))
  <2> HIDE DEF IsFold
  <2> QED BY <1>2, <1>3
<1> HIDE DEF Fold
<1>5. ASSUME NEW n \in 1 .. Len(c), NEW prior \in Seq(1 .. Len(c))
      PROVE  Best(prior, n) \in Seq(1 .. Len(c))
  <2>1. Append(prior, n) \in Seq(1 .. Len(c))
    OBVIOUS
  <2>2. ASSUME NEW i PROVE [prior EXCEPT ![i] = n] \in Seq(1 .. Len(c))
    <3>1. CASE i \in 1 .. Len(prior)
      BY <3>1, ExceptSeq
    <3>2. CASE i \notin 1 .. Len(prior)
      <4>1. [prior EXCEPT ![i] = n] = prior
        BY <3>2
      <4> QED BY <4>1
    <3> QED BY <3>1, <3>2
  <2> QED BY <2>1, <2>2 DEF Best
<1>6. \A n \in 0 .. Len(c) : Fold[n] \in Seq(1 .. Len(c))
  <2> DEFINE T == {n \in 0 .. Len(c) : Fold[n] \notin Seq(1 .. Len(c))}
  <2> SUFFICES ASSUME T # {} PROVE FALSE
    OBVIOUS
  <2>1. PICK n \in T : \A l \in T : n <= l
    <3>1. T \in SUBSET Nat
      OBVIOUS
    <3> HIDE DEF T
    <3> QED BY <3>1, LeastNatural
  <2>2. Fold[0] = <<>>
    BY <1>2, <1>4
  <2>3. n # 0
    BY <2>1, <2>2, EmptySeq
  <2>4. n - 1 \in 0 .. Len(c) /\ n - 1 \notin T /\ n \in 1 .. Len(c)
    BY <1>2, <2>1, <2>3
  <2>5. Fold[n] = Best(Fold[n - 1], n)
    BY <1>4, <2>3, <2>4
  <2> QED BY <1>5, <2>1, <2>4, <2>5
<1> QED BY <1>1, <1>2, <1>6 DEF Fold

LEMMA FunctionsAreLists ==
  ASSUME NEW n \in Nat, NEW S, NEW f \in [1 .. n -> S]
  PROVE  f \in Seq(S) /\ Len(f) = n
<1>1. f \in Seq(S)
  BY SeqDef
<1> QED BY <1>1

(* Among numbers up to k there is one of every rank.                         *)
LEMMA RankExists ==
  ASSUME NEW k \in Nat, NEW R \in SUBSET (1 .. k), NEW n \in 1 .. Cardinality(R)
  PROVE  \E r \in R : Cardinality({q \in R : q <= r}) = n
<1> DEFINE UpTo(r) == {q \in R : q <= r}
           T == {r \in R : Cardinality(UpTo(r)) >= n}
<1>1. ASSUME NEW S \in SUBSET R PROVE IsFiniteSet(S) /\ Cardinality(S) \in Nat
  <2>1. IsFiniteSet(1 .. k) /\ S \in SUBSET (1 .. k)
    BY FS_Interval
  <2> QED BY <2>1, FS_Subset, FS_CardinalityType
<1>2. n \in Nat \ {0} /\ n <= Cardinality(R)
  BY <1>1
<1>9. k \in Int /\ R \in SUBSET Int /\ \A q \in R : q \in Nat /\ q <= k
  OBVIOUS
<1>3. T # {}
  <2>1. R # {}
    BY <1>2, FS_EmptySet
  <2>2. Max(R) \in R /\ \A q \in R : q <= Max(R)
    BY <1>9, <2>1, MaxOfBounded
  <2>3. UpTo(Max(R)) = R
    BY <1>9, <2>2
  <2>4. Cardinality(UpTo(Max(R))) >= n
    BY <1>1, <1>2, <2>3
  <2> QED BY <2>2, <2>4
<1>4. PICK r \in T : \A q \in T : r <= q
  <2>1. T \subseteq R /\ T \in SUBSET Nat
    BY <1>9
  <2> HIDE DEF T
  <2> QED BY <1>3, <2>1, LeastNatural
<1>8. r \in R /\ r \in Int
  BY <1>4, <1>9
<1> DEFINE below == {q \in R : q < r}
<1>5. Cardinality(UpTo(r)) = Cardinality(below) + 1
  <2>1. UpTo(r) = below \union {r} /\ r \notin below
    <3>1. \A q \in R : q <= r <=> q < r \/ q = r
      BY <1>8, <1>9
    <3>2. ~(r < r)
      BY <1>8
    <3> QED BY <1>8, <3>1, <3>2
  <2>2. IsFiniteSet(below)
    BY <1>1
  <2> HIDE DEF below, UpTo
  <2> QED BY <2>1, <2>2, FS_AddElement
<1>6. Cardinality(below) < n
  <2>1. CASE below = {}
    BY <1>2, <2>1, FS_EmptySet
  <2>2. CASE below # {}
    <3>1. below \in SUBSET Int /\ \A q \in below : q <= k
      BY <1>9
    <3>2. Max(below) \in below /\ \A q \in below : q <= Max(below)
      <4> HIDE DEF below
      <4> QED BY <1>9, <2>2, <3>1, MaxOfBounded
    <3>3. UpTo(Max(below)) = below
      <4>1. Max(below) \in R /\ Max(below) \in Int /\ Max(below) < r
        BY <1>9, <3>2
      <4>2. \A q \in R : q < r => q <= Max(below)
        BY <3>2
      <4>3. \A q \in R : q <= Max(below) => q < r
        BY <1>8, <1>9, <4>1
      <4> QED BY <4>2, <4>3
    <3>4. Max(below) \notin T
      <4>1. Max(below) \in Int /\ Max(below) < r
        BY <1>9, <3>2
      <4> QED BY <1>4, <1>8, <4>1
    <3>5. Cardinality(below) \in Nat
      BY <1>1
    <3> QED BY <1>2, <3>2, <3>3, <3>4, <3>5
  <2> QED BY <2>1, <2>2
<1>7. Cardinality(UpTo(r)) >= n /\ Cardinality(below) \in Nat
  BY <1>1, <1>4
<1>10. Cardinality(UpTo(r)) = n
  <2>1. Cardinality(UpTo(r)) >= n
    BY <1>4
  <2> HIDE DEF UpTo, below
  <2> QED BY <1>2, <1>5, <1>6, <1>7, <2>1
<1> QED BY <1>8, <1>10

-----------------------------------------------------------------------------
(* The sections of a kind, in order.                                         *)

UpTo(S, i) == {j \in S : j <= i}

LEMMA UpToBounds ==
  ASSUME NEW k \in Nat, NEW S \in SUBSET (1 .. k)
  PROVE  /\ IsFiniteSet(S) /\ Cardinality(S) \in Nat
         /\ \A i \in S : Cardinality(UpTo(S, i)) \in 1 .. Cardinality(S)
         /\ \A i, j \in S : i < j => Cardinality(UpTo(S, i)) < Cardinality(UpTo(S, j))
<1>1. ASSUME NEW T \in SUBSET S PROVE IsFiniteSet(T) /\ Cardinality(T) \in Nat
  <2>1. IsFiniteSet(1 .. k) /\ T \in SUBSET (1 .. k)
    BY FS_Interval
  <2> QED BY <2>1, FS_Subset, FS_CardinalityType
<1>2. ASSUME NEW T \in SUBSET S, NEW R \in SUBSET T, R # T
      PROVE  Cardinality(R) < Cardinality(T)
  <2>1. IsFiniteSet(T) /\ Cardinality(T) \in Nat /\ Cardinality(R) \in Nat
    BY <1>1
  <2>2. Cardinality(R) <= Cardinality(T) /\ Cardinality(R) # Cardinality(T)
    BY <1>2, <2>1, FS_Subset
  <2> QED BY <2>1, <2>2
<1>3. \A i \in S : i \in Int /\ UpTo(S, i) \in SUBSET S /\ i \in UpTo(S, i)
  BY DEF UpTo
<1>4. ASSUME NEW i \in S PROVE Cardinality(UpTo(S, i)) \in 1 .. Cardinality(S)
  <2>1. Cardinality(UpTo(S, i)) # 0
    BY <1>1, <1>3, FS_EmptySet
  <2>2. Cardinality(UpTo(S, i)) \in Nat /\ Cardinality(S) \in Nat
    BY <1>1, <1>3
  <2>3. Cardinality(UpTo(S, i)) <= Cardinality(S)
    BY <1>1, <1>3, FS_Subset
  <2> QED BY <2>1, <2>2, <2>3
<1>5. ASSUME NEW i \in S, NEW j \in S, i < j
      PROVE  Cardinality(UpTo(S, i)) < Cardinality(UpTo(S, j))
  <2>1. UpTo(S, i) \in SUBSET UpTo(S, j)
    <3>1. ASSUME NEW x \in S, x <= i PROVE x <= j
      BY <1>5, <3>1
    <3> QED BY <3>1 DEF UpTo
  <2>2. j \in UpTo(S, j) /\ j \notin UpTo(S, i)
    BY <1>3, <1>5 DEF UpTo
  <2> QED BY <1>2, <1>3, <2>1, <2>2
<1> QED BY <1>1, <1>4, <1>5

(* Of each place there is one match, and its place follows from its row.     *)
LEMMA MatchBounds ==
  ASSUME NewsTypeOK
  PROVE  /\ Count \in Nat
         /\ \A k \in 1 .. Count : \E i : i \in Match(k)
         /\ \A k : \A i \in Match(k) : /\ k \in 1 .. Count
                                       /\ i \in Matches(rows, kind) /\ i \in DOMAIN rows
         /\ \A i \in Matches(rows, kind) : \E k \in 1 .. Count : i \in Match(k)
         /\ \A k, l : \A i \in Match(k), j \in Match(l) :
              i \in Nat /\ j \in Nat /\ (k < l => i < j) /\ (k = l => i = j)
<1> DEFINE M == Matches(rows, kind)
<1>1. Len(rows) \in Nat /\ DOMAIN rows = 1 .. Len(rows)
  BY DEF NewsTypeOK
<1>2. M \in SUBSET (1 .. Len(rows))
  BY <1>1 DEF Matches
<1>3. Count = Cardinality(M) /\ \A k : Match(k) = {i \in M : Cardinality(UpTo(M, i)) = k}
  BY DEF Count, Match, UpTo
<1>4. \A i \in M : i \in Nat /\ i \in DOMAIN rows
  BY <1>1, <1>2
<1> HIDE DEF M
<1>5. /\ Cardinality(M) \in Nat
      /\ \A i \in M : Cardinality(UpTo(M, i)) \in 1 .. Cardinality(M)
      /\ \A i, j \in M : i < j => Cardinality(UpTo(M, i)) < Cardinality(UpTo(M, j))
  BY <1>1, <1>2, UpToBounds
<1>6. ASSUME NEW k \in 1 .. Count PROVE \E i : i \in Match(k)
  <2>1. \E i \in M : Cardinality({j \in M : j <= i}) = k
    BY <1>1, <1>2, <1>3, RankExists
  <2> QED BY <1>3, <2>1 DEF UpTo
<1>7. ASSUME NEW k, NEW l, NEW i \in Match(k), NEW j \in Match(l)
      PROVE  i \in Nat /\ j \in Nat /\ (k < l => i < j) /\ (k = l => i = j)
  <2>1. i \in M /\ j \in M /\ k = Cardinality(UpTo(M, i)) /\ l = Cardinality(UpTo(M, j))
    BY <1>3
  <2>2. i \in Nat /\ j \in Nat /\ k \in Nat /\ l \in Nat
    BY <1>4, <1>5, <2>1
  <2>3. (i < j => k < l) /\ (j < i => l < k)
    BY <1>5, <2>1
  <2>4. i = j => k = l
    BY <2>1
  <2>5. i < j \/ j < i \/ i = j
    BY <2>2
  <2> QED BY <2>2, <2>3, <2>4, <2>5
<1>8. \A i \in M : \E k \in 1 .. Count : i \in Match(k)
  BY <1>3, <1>5
<1>9. ASSUME NEW k, NEW i \in Match(k) PROVE k \in 1 .. Count /\ i \in M /\ i \in DOMAIN rows
  BY <1>3, <1>4, <1>5
<1> QED BY <1>3, <1>5, <1>6, <1>7, <1>8, <1>9 DEF M

-----------------------------------------------------------------------------
(* The headings above a section.                                             *)

(* The recursion of Ancestors has a solution, so it satisfies its equation.  *)
LEMMA AncestorsUnfold ==
  ASSUME NEW k \in Nat, rows \in Seq(NewsRow), Len(rows) = k
  PROVE  /\ Ancestors(rows)[0] = <<>>
         /\ \A i \in 1 .. k :
              LET above == Ancestors(rows)[i - 1]
                  kept == {n \in 0 .. Len(above) : n > 0 => ~Deeper(rows, above[n], i)}
              IN  Ancestors(rows)[i] = Append(SubSeq(above, 1, Max(kept)), i)
<1> DEFINE Kept(above, i) ==
             {n \in 0 .. Len(above) : n > 0 => ~Deeper(rows, above[n], i)}
           Next(above, i) == Append(SubSeq(above, 1, Max(Kept(above, i))), i)
           IsStack(f, m) == f = [i \in 0 .. m |-> IF i = 0 THEN <<>> ELSE Next(f[i - 1], i)]
<1>1. Ancestors(rows) = CHOOSE f : IsStack(f, k)
  BY DEF Ancestors
<1> HIDE DEF Next
<1>2. ASSUME NEW m \in Nat PROVE \E f : IsStack(f, m)
  <2> DEFINE T == {n \in Nat : ~\E f : IsStack(f, n)}
  <2> SUFFICES ASSUME T # {} PROVE FALSE
    OBVIOUS
  <2>1. PICK n \in T : \A l \in T : n <= l
    <3>1. T \in SUBSET Nat
      OBVIOUS
    <3> HIDE DEF T
    <3> QED BY <3>1, LeastNatural
  <2>2. CASE n = 0
    <3>1. IsStack([i \in 0 .. 0 |-> <<>>], 0)
      OBVIOUS
    <3> QED BY <2>1, <2>2, <3>1
  <2>3. CASE n # 0
    <3>1. n - 1 \in Nat /\ n - 1 \notin T
      <4>1. n \in Nat
        BY <2>1
      <4> HIDE DEF T
      <4> QED BY <2>1, <2>3, <4>1
    <3>2. PICK f : IsStack(f, n - 1)
      BY <3>1
    <3> DEFINE g == [i \in 0 .. n |-> IF i < n THEN f[i] ELSE Next(f[n - 1], n)]
    <3>3. n \in Nat
      BY <2>1
    <3>4. ASSUME NEW i \in 0 .. n PROVE g[i] = IF i = 0 THEN <<>> ELSE Next(g[i - 1], i)
      BY <2>3, <3>2, <3>3
    <3>5. IsStack(g, n)
      BY <3>4
    <3> QED BY <2>1, <3>5
  <2> QED BY <2>2, <2>3
<1>3. IsStack(Ancestors(rows), k)
  <2> HIDE DEF IsStack
  <2> QED BY <1>1, <1>2
<1>4. Ancestors(rows)[0] = <<>>
  BY <1>3
<1>5. ASSUME NEW i \in 1 .. k PROVE Ancestors(rows)[i] = Next(Ancestors(rows)[i - 1], i)
  BY <1>3
<1> QED BY <1>4, <1>5 DEF Next

(* A section is one of a section's ancestors when it encloses that section.   *)
AreEnclosing(above, i) ==
  /\ above \in Seq(1 .. i)
  /\ \A m, n \in 1 .. Len(above) : m < n => above[m] < above[n]
  /\ \A j \in 1 .. i : (\E n \in 1 .. Len(above) : above[n] = j) <=> Encloses(j, i)

LEMMA AncestorsEnclose ==
  ASSUME rows \in Seq(NewsRow), NEW i \in 0 .. Len(rows)
  PROVE  AreEnclosing(Ancestors(rows)[i], i)
<1> DEFINE T == {n \in 0 .. Len(rows) : ~AreEnclosing(Ancestors(rows)[n], n)}
<1> SUFFICES ASSUME T # {} PROVE FALSE
  OBVIOUS
<1>1. /\ Len(rows) \in Nat /\ T \in SUBSET Nat
      /\ \A n \in 1 .. Len(rows) : rows[n].level \in Nat
  <2>1. ASSUME NEW n \in 1 .. Len(rows) PROVE rows[n].level \in Nat
    <3>1. rows[n] \in NewsRow
      OBVIOUS
    <3> QED BY <3>1 DEF NewsRow
  <2> QED BY <2>1
<1>2. PICK k \in T : \A l \in T : k <= l
  <2> HIDE DEF T
  <2> QED BY <1>1, LeastNatural
<1>3. k # 0
  <2>1. Ancestors(rows)[0] = <<>>
    BY <1>1, AncestorsUnfold
  <2>2. <<>> \in Seq(1 .. 0) /\ Len(<<>>) = 0
    OBVIOUS
  <2>3. AreEnclosing(<<>>, 0)
    BY <2>2 DEF AreEnclosing
  <2> QED BY <1>2, <2>1, <2>3
<1>4. /\ k \in 1 .. Len(rows) /\ k - 1 \in 0 .. Len(rows) /\ k - 1 \notin T /\ k \in Nat
  BY <1>1, <1>2, <1>3
<1> DEFINE above == Ancestors(rows)[k - 1]
           kept == {n \in 0 .. Len(above) : n > 0 => ~Deeper(rows, above[n], k)}
           last == Max(kept)
           stack == Append(SubSeq(above, 1, last), k)
<1>5. Ancestors(rows)[k] = stack
  BY <1>1, <1>4, AncestorsUnfold
<1>6. AreEnclosing(above, k - 1)
  BY <1>4
<1> HIDE DEF above
<1>7. /\ above \in Seq(1 .. k - 1) /\ Len(above) \in Nat
      /\ \A n \in 1 .. Len(above) : above[n] \in 1 .. k - 1
      /\ \A m, n \in 1 .. Len(above) : m < n => above[m] < above[n]
      /\ \A j \in 1 .. k - 1 :
           (\E n \in 1 .. Len(above) : above[n] = j) <=> Encloses(j, k - 1)
  BY <1>6 DEF AreEnclosing
<1>8. last \in kept /\ \A n \in kept : n <= last
  <2>1. /\ kept # {} /\ kept \in SUBSET Int /\ \A n \in kept : n <= Len(above)
        /\ Len(above) \in Int
    <3>1. 0 \in kept /\ Len(above) \in Int
      BY <1>7
    <3> QED BY <1>7, <3>1
  <2> HIDE DEF kept
  <2> QED BY <2>1, MaxOfBounded
<1>9. /\ last \in 0 .. Len(above)
      /\ last > 0 => rows[above[last]].level < rows[k].level
  <2>1. last \in 0 .. Len(above) /\ (last > 0 => ~Deeper(rows, above[last], k))
    BY <1>8
  <2> HIDE DEF last
  <2>2. ASSUME last > 0 PROVE rows[above[last]].level < rows[k].level
    <3>1. above[last] \in 1 .. Len(rows)
      BY <1>1, <1>4, <1>7, <2>1, <2>2
    <3>2. rows[above[last]].level \in Nat /\ rows[k].level \in Nat
      BY <1>1, <1>4, <3>1
    <3> QED BY <2>1, <2>2, <3>2 DEF Deeper
  <2> QED BY <2>1, <2>2
<1>10. ASSUME NEW n \in 1 .. Len(above), rows[above[n]].level < rows[k].level
       PROVE  n <= last
  <2>1. above[n] \in 1 .. Len(rows)
    BY <1>1, <1>4, <1>7
  <2>2. rows[above[n]].level \in Nat /\ rows[k].level \in Nat
    BY <1>1, <1>4, <2>1
  <2>3. ~Deeper(rows, above[n], k)
    BY <1>10, <2>2 DEF Deeper
  <2>4. n \in kept
    BY <1>7, <2>3
  <2> HIDE DEF kept
  <2> QED BY <1>8, <2>4
<1> HIDE DEF last
<1>11. /\ stack \in Seq(1 .. k) /\ Len(stack) = last + 1 /\ stack[last + 1] = k
       /\ \A n \in 1 .. last : stack[n] = above[n]
  <2> DEFINE part == SubSeq(above, 1, last)
  <2>1. /\ part \in Seq(1 .. k) /\ Len(part) = last
        /\ \A n \in 1 .. last : part[n] = above[n]
    <3>1. \A n \in 1 .. last : above[n] \in 1 .. k
      BY <1>4, <1>7, <1>9
    <3> QED BY <1>4, <1>7, <1>9, <3>1, SubSeqProperties
  <2>2. k \in 1 .. k
    BY <1>4
  <2> HIDE DEF part
  <2> QED BY <1>9, <2>1, <2>2, AppendProperties DEF part
<1> HIDE DEF stack
<1>12. \A n \in 1 .. Len(stack) : n \in 1 .. last \/ n = last + 1
  BY <1>9, <1>11
<1>13. ASSUME NEW n \in 1 .. last
       PROVE  stack[n] \in 1 .. k - 1 /\ n \in 1 .. Len(above)
  <2>1. n \in 1 .. Len(above)
    BY <1>7, <1>9
  <2> QED BY <1>7, <1>11, <2>1
<1>14. ASSUME NEW m \in 1 .. Len(stack), NEW n \in 1 .. Len(stack), m < n
       PROVE  stack[m] < stack[n]
  <2>1. m \in 1 .. last
    BY <1>9, <1>11, <1>14
  <2>2. CASE n \in 1 .. last
    BY <1>7, <1>11, <1>13, <1>14, <2>1, <2>2
  <2>3. CASE n = last + 1
    BY <1>4, <1>11, <1>13, <2>1, <2>3
  <2> QED BY <1>12, <2>2, <2>3
<1>15. ASSUME NEW j \in 1 .. k - 1
       PROVE  Encloses(j, k) <=> Encloses(j, k - 1) /\ rows[k].level > rows[j].level
  <2>1. j <= k /\ j <= k - 1 /\ k \in j + 1 .. k
    BY <1>4
  <2>2. \A x : x \in j + 1 .. k <=> x \in j + 1 .. k - 1 \/ x = k
    BY <1>4
  <2> QED BY <2>1, <2>2 DEF Encloses
<1>16. Encloses(k, k)
  <2>1. k <= k /\ k + 1 .. k = {}
    BY <1>4
  <2> QED BY <2>1 DEF Encloses
<1>17. ASSUME NEW j \in 1 .. k - 1
       PROVE  (\E n \in 1 .. last : above[n] = j) <=> Encloses(j, k)
  <2>0. j \in 1 .. Len(rows) /\ rows[j].level \in Nat /\ rows[k].level \in Nat
    BY <1>1, <1>4
  <2>1. ASSUME NEW n \in 1 .. last, above[n] = j PROVE Encloses(j, k)
    <3>1. n \in 1 .. Len(above) /\ last \in 1 .. Len(above) /\ last > 0
      BY <1>7, <1>9
    <3>2. Encloses(j, k - 1)
      BY <1>7, <2>1, <3>1
    <3>3. rows[above[last]].level < rows[k].level /\ above[last] \in 1 .. k - 1
      BY <1>7, <1>9, <3>1
    <3>4. CASE n = last
      BY <1>15, <2>0, <2>1, <3>2, <3>3, <3>4
    <3>5. CASE n < last
      <4>1. j < above[last]
        BY <1>7, <2>1, <3>1, <3>5
      <4>2. above[last] \in j + 1 .. k - 1
        BY <1>4, <3>3, <4>1
      <4>3. rows[above[last]].level > rows[j].level
        BY <3>2, <4>2 DEF Encloses
      <4>4. rows[above[last]].level \in Nat
        BY <1>1, <1>4, <3>3
      <4>5. rows[k].level > rows[j].level
        BY <2>0, <3>3, <4>3, <4>4
      <4> QED BY <1>15, <3>2, <4>5
    <3> QED BY <1>9, <3>4, <3>5
  <2>2. ASSUME Encloses(j, k) PROVE \E n \in 1 .. last : above[n] = j
    <3>1. Encloses(j, k - 1) /\ rows[j].level < rows[k].level
      BY <1>15, <2>0, <2>2
    <3>2. PICK n \in 1 .. Len(above) : above[n] = j
      BY <1>7, <3>1
    <3>3. n <= last
      BY <1>10, <3>1, <3>2
    <3> QED BY <1>7, <1>9, <3>2, <3>3
  <2> QED BY <2>1, <2>2
<1>18. ASSUME NEW j \in 1 .. k
       PROVE  (\E n \in 1 .. Len(stack) : stack[n] = j) <=> Encloses(j, k)
  <2>1. CASE j = k
    <3>1. last + 1 \in 1 .. Len(stack)
      BY <1>9, <1>11
    <3> QED BY <1>11, <1>16, <2>1, <3>1
  <2>2. CASE j # k
    <3>1. j \in 1 .. k - 1
      BY <1>4, <2>2
    <3>2. \A n \in 1 .. last : n \in 1 .. Len(stack) /\ stack[n] = above[n]
      BY <1>9, <1>11
    <3>3. \A n \in 1 .. Len(stack) : n \notin 1 .. last => stack[n] = k
      BY <1>11, <1>12
    <3>4. (\E n \in 1 .. Len(stack) : stack[n] = j) <=> \E n \in 1 .. last : above[n] = j
      BY <2>2, <3>2, <3>3, Zenon
    <3> QED BY <1>17, <3>1, <3>4
  <2> QED BY <2>1, <2>2
<1>19. AreEnclosing(stack, k)
  BY <1>11, <1>14, <1>18 DEF AreEnclosing
<1> QED BY <1>2, <1>5, <1>19

(* So a section's kind is what the nearest heading says that encloses it, and  *)
(* the matches are what is wanted.                                           *)
LEMMA KindIsSaid ==
  ASSUME rows \in Seq(NewsRow), NEW i \in DOMAIN rows
  PROVE  Kind(rows, i) = SaysOf(i)
<1> DEFINE above == Ancestors(rows)[i]
           ns == {n \in DOMAIN above : rows[above[n]].says # Silent}
           js == {j \in 1 .. i : Encloses(j, i) /\ rows[j].says # Silent}
<1>1. i \in Nat /\ AreEnclosing(above, i)
  <2>1. i \in 0 .. Len(rows) /\ i \in Nat
    OBVIOUS
  <2> QED BY <2>1, AncestorsEnclose
<1>2. /\ Kind(rows, i) = IF ns = {} THEN "other" ELSE rows[above[Max(ns)]].says
      /\ SaysOf(i) = IF js = {} THEN "other" ELSE rows[Max(js)].says
  BY DEF Kind, SaysOf
<1> HIDE DEF above
<1>3. /\ above \in Seq(1 .. i) /\ DOMAIN above = 1 .. Len(above) /\ Len(above) \in Nat
      /\ \A n \in 1 .. Len(above) : above[n] \in 1 .. i
      /\ \A m, n \in 1 .. Len(above) : m < n => above[m] < above[n]
      /\ \A j \in 1 .. i : (\E n \in 1 .. Len(above) : above[n] = j) <=> Encloses(j, i)
  BY <1>1 DEF AreEnclosing
<1>4. \A n \in ns : above[n] \in js
  BY <1>3
<1>5. \A j \in js : \E n \in ns : above[n] = j
  <2> SUFFICES ASSUME NEW j \in js PROVE \E n \in ns : above[n] = j
    OBVIOUS
  <2>1. j \in 1 .. i /\ Encloses(j, i) /\ rows[j].says # Silent
    OBVIOUS
  <2>2. PICK n \in 1 .. Len(above) : above[n] = j
    BY <1>3, <2>1
  <2> QED BY <1>3, <2>1, <2>2
<1>6. /\ ns \in SUBSET Int /\ js \in SUBSET Int
      /\ \A n \in ns : n \in 1 .. Len(above)
      /\ \A n \in ns : n <= Len(above)
      /\ \A j \in js : j <= i
      /\ Len(above) \in Int /\ i \in Int
  BY <1>1, <1>3
<1> HIDE DEF ns, js
<1>7. CASE ns = {}
  BY <1>2, <1>5, <1>7
<1>8. CASE ns # {}
  <2>1. Max(ns) \in ns /\ \A n \in ns : n <= Max(ns)
    BY <1>6, <1>8, MaxOfBounded
  <2>2. js # {}
    BY <1>4, <2>1
  <2>3. Max(js) \in js /\ \A j \in js : j <= Max(js)
    BY <1>6, <2>2, MaxOfBounded
  <2>4. PICK n \in ns : above[n] = Max(js)
    BY <1>5, <2>3
  <2>5. n = Max(ns)
    <3>1. above[Max(ns)] <= above[n]
      BY <1>4, <2>1, <2>3, <2>4
    <3>2. n \in 1 .. Len(above) /\ Max(ns) \in 1 .. Len(above) /\ n <= Max(ns)
      BY <1>6, <2>1
    <3>3. above[n] \in Int /\ above[Max(ns)] \in Int
      BY <1>3, <3>2
    <3>4. n < Max(ns) => above[n] < above[Max(ns)]
      BY <1>3, <3>2
    <3> QED BY <3>1, <3>2, <3>3, <3>4
  <2> QED BY <1>2, <1>8, <2>2, <2>4, <2>5
<1> QED BY <1>7, <1>8

LEMMA MatchesAreWanted ==
  ASSUME rows \in Seq(NewsRow)
  PROVE  Wanted = Matches(rows, kind)
BY KindIsSaid DEF Wanted, Matches

-----------------------------------------------------------------------------
(* What the client has been given.  The n-th row it got is the n-th match, and *)
(* the admitted sections are the matches that follow; a response without any   *)
(* comes only after the last match.                                          *)
Listed ==
  /\ start \in Nat /\ listed \in Seq(Nat)
  /\ \A n \in 1 .. Len(listed) : listed[n] \in Match(n)
  /\ news = "none" => start = 0 /\ listed = <<>>
  /\ news \in {"ask", "admit", "share"} => Len(listed) = start
  /\ news \in {"admit", "share"} =>
       /\ limit \in Nat \ {0}
       /\ \A n \in 1 .. Len(page) : page[n].row \in Match(start + n)
  /\ news = "share" /\ page = <<>> => Match(start + 1) = {}
  /\ news = "read" => Match(Len(listed) + 1) = {}

LEMMA MatchFrame ==
  ASSUME rows' = rows, kind' = kind
  PROVE  Count' = Count /\ \A k : Match(k)' = Match(k)
BY DEF Count, Match

LEMMA ListedInit == NewsInit => Listed
<1> SUFFICES ASSUME NewsInit PROVE Listed
  OBVIOUS
<1>1. news = "none" /\ start = 0 /\ listed = <<>>
  BY DEF NewsInit
<1>2. listed \in Seq(Nat) /\ Len(listed) = 0
  BY <1>1
<1> QED BY <1>1, <1>2 DEF Listed

LEMMA AskListed ==
  ASSUME NewsInv, Listed, StartNews \/ AskNews \/ RefuseNews
  PROVE  Listed'
<1>1. CASE StartNews
  <2>1. news = "none" /\ news' = "ask" /\ UNCHANGED <<start, listed>>
    BY <1>1 DEF StartNews
  <2>2. start' = 0 /\ listed' = <<>> /\ listed' \in Seq(Nat) /\ Len(listed') = 0
    BY <2>1 DEF Listed
  <2> QED BY <2>1, <2>2 DEF Listed
<1>2. CASE AskNews
  <2>1. /\ news = "ask" /\ news' = "admit" /\ limit' \in Limits /\ page' = <<>>
        /\ UNCHANGED <<rows, kind, start, listed>>
    BY <1>2 DEF AskNews
  <2>2. limit' \in Nat \ {0} /\ Len(page') = 0
    BY <2>1, NewsAssumption
  <2> QED BY <2>1, <2>2, MatchFrame DEF Listed
<1>3. CASE RefuseNews
  <2>1. news' = "failed" /\ UNCHANGED <<rows, kind, start, listed>>
    BY <1>3 DEF RefuseNews
  <2> QED BY <2>1, MatchFrame DEF Listed
<1> QED BY <1>1, <1>2, <1>3

LEMMA AdmitListed ==
  ASSUME NewsInv, Listed, Admit
  PROVE  Listed'
<1>1. PICK i \in Coming :
        page' = Append(page, [row |-> i, minimum |-> Minimum(rows[i].body),
                              cost |-> Minimum(rows[i].body)])
  BY DEF Admit
<1>2. news = "admit" /\ UNCHANGED <<rows, kind, news, start, limit, listed>>
  BY DEF Admit
<1>3. i \in Match(start + Len(page) + 1)
  BY DEF Coming, NextMatch
<1> DEFINE entry == [row |-> i, minimum |-> Minimum(rows[i].body),
                     cost |-> Minimum(rows[i].body)]
<1>4. entry.row = i /\ page' = Append(page, entry)
  BY <1>1
<1> HIDE DEF entry
<1>5. page \in Seq(Entry) /\ Len(page) \in Nat /\ start \in Nat
  BY DEF NewsInv, NewsTypeOK, Listed
<1>6. /\ Len(page') = Len(page) + 1 /\ page'[Len(page) + 1] = entry
      /\ \A n \in 1 .. Len(page) : page'[n] = page[n]
  BY <1>4, <1>5
<1>7. ASSUME NEW n \in 1 .. Len(page') PROVE page'[n].row \in Match(start + n)
  <2>1. CASE n \in 1 .. Len(page)
    BY <1>2, <1>6, <2>1 DEF Listed
  <2>2. CASE n = Len(page) + 1
    <3>1. start + n = start + Len(page) + 1
      BY <1>5, <2>2
    <3> QED BY <1>3, <1>4, <1>6, <2>2, <3>1
  <2> QED BY <1>5, <1>6, <2>1, <2>2
<1> QED BY <1>2, <1>7, MatchFrame DEF Listed

LEMMA ShareListed ==
  ASSUME NewsInv, Listed, Close \/ ShareBody
  PROVE  Listed'
<1>1. CASE Close
  <2>1. /\ news = "admit" /\ news' = "share"
        /\ UNCHANGED <<rows, kind, start, limit, page, listed>>
    BY <1>1 DEF Close
  <2>2. ASSUME page = <<>> PROVE Match(start + 1) = {}
    <3>1. limit \in Nat \ {0} /\ start \in Nat /\ Len(page) = 0
      BY <2>1, <2>2 DEF Listed
    <3>2. Coming = {}
      BY <1>1, <2>2 DEF Close
    <3>3. Coming = Match(start + 1)
      BY <3>1 DEF Coming, NextMatch
    <3> QED BY <3>2, <3>3
  <2> QED BY <2>1, <2>2, MatchFrame DEF Listed
<1>2. CASE ShareBody
  <2>1. /\ news = "share" /\ shared < Len(page)
        /\ \E cost : page' = [page EXCEPT ![shared + 1].cost = cost]
        /\ UNCHANGED <<rows, kind, news, start, limit, listed>>
    BY <1>2 DEF ShareBody
  <2>2. page \in Seq(Entry) /\ Len(page) \in Nat
    BY DEF NewsInv, NewsTypeOK
  <2>3. Len(page') = Len(page) /\ \A n \in 1 .. Len(page) : page'[n].row = page[n].row
    BY <2>1, <2>2 DEF Entry
  <2>4. page = <<>> <=> page' = <<>>
    BY <2>1, <2>2
  <2> QED BY <2>1, <2>3, <2>4, MatchFrame DEF Listed
<1> QED BY <1>1, <1>2

LEMMA SecondOfJoined ==
  ASSUME NEW S, NEW s \in Seq(S), NEW t \in Seq(S), NEW n \in 1 .. Len(t)
  PROVE  (s \o t)[Len(s) + n] = t[n]
OBVIOUS

LEMMA AnswerListed ==
  ASSUME NewsInv, Listed, AnswerNews
  PROVE  Listed'
<1> DEFINE given == [n \in DOMAIN page |-> page[n].row]
<1>1. /\ news = "share" /\ start' = start + Len(page) /\ listed' = listed \o given
      /\ news' = IF page # <<>> /\ start' < Count THEN "ask" ELSE "read"
      /\ UNCHANGED <<rows, kind>>
  BY DEF AnswerNews
<1>2. /\ page \in Seq(Entry) /\ Len(page) \in Nat /\ DOMAIN page = 1 .. Len(page)
      /\ start \in Nat /\ listed \in Seq(Nat) /\ Len(listed) = start
  BY <1>1 DEF NewsInv, NewsTypeOK, Listed
<1>3. ASSUME NEW n \in 1 .. Len(page)
      PROVE  given[n] = page[n].row /\ given[n] \in Match(start + n) /\ given[n] \in Nat
  <2>1. given[n] = page[n].row /\ page[n].row \in Match(start + n)
    BY <1>1, <1>2 DEF Listed
  <2>2. \A k : \A i \in Match(k) : i \in DOMAIN rows /\ DOMAIN rows = 1 .. Len(rows)
    BY MatchBounds DEF NewsInv, NewsTypeOK
  <2>3. given[n] \in 1 .. Len(rows) /\ given[n] \in Match(start + n)
    <3> HIDE DEF given
    <3> QED BY <2>1, <2>2
  <2> QED BY <2>1, <2>3
<1>4. given \in Seq(Nat) /\ Len(given) = Len(page)
  <2>1. given \in [1 .. Len(page) -> Nat]
    BY <1>2, <1>3
  <2> HIDE DEF given
  <2> QED BY <1>2, <2>1, FunctionsAreLists
<1> HIDE DEF given
<1>5. /\ listed' \in Seq(Nat) /\ Len(listed') = start' /\ start' \in Nat
      /\ \A n \in 1 .. Len(listed) : listed'[n] = listed[n]
      /\ \A n \in 1 .. Len(page) : listed'[start + n] = given[n]
  <2>1. /\ listed' \in Seq(Nat) /\ Len(listed') = Len(listed) + Len(given)
        /\ \A n \in 1 .. Len(listed) + Len(given) :
             listed'[n] = IF n <= Len(listed) THEN listed[n] ELSE given[n - Len(listed)]
    BY <1>1, <1>2, <1>4, ConcatProperties
  <2>2. ASSUME NEW n \in 1 .. Len(page) PROVE listed'[start + n] = given[n]
    <3>1. n \in 1 .. Len(given)
      BY <1>4
    <3>2. (listed \o given)[Len(listed) + n] = given[n]
      BY <1>2, <1>4, <3>1, SecondOfJoined
    <3> QED BY <1>1, <1>2, <3>2, Zenon
  <2> QED BY <1>1, <1>2, <1>4, <2>1, <2>2
<1>6. ASSUME NEW n \in 1 .. Len(listed') PROVE listed'[n] \in Match(n)
  <2>1. CASE n \in 1 .. Len(listed)
    BY <1>5, <2>1 DEF Listed
  <2>2. CASE n \notin 1 .. Len(listed)
    <3>1. n - start \in 1 .. Len(page) /\ n = start + (n - start)
      BY <1>1, <1>2, <1>5, <2>2
    <3> QED BY <1>3, <1>5, <3>1
  <2> QED BY <2>1, <2>2
<1>7. ASSUME news' = "read" PROVE Match(Len(listed') + 1) = {}
  <2>1. CASE page = <<>>
    <3>1. start' = start
      BY <1>1, <1>2, <2>1
    <3> QED BY <1>1, <1>5, <2>1, <3>1 DEF Listed
  <2>2. CASE page # <<>>
    <3>1. ~(start' < Count)
      BY <1>1, <1>7, <2>2
    <3>2. Count \in Nat /\ \A i \in Match(start' + 1) : start' + 1 \in 1 .. Count
      BY MatchBounds DEF NewsInv
    <3>3. start' + 1 \notin 1 .. Count
      <4>1. start' \in Nat /\ Count \in Nat
        BY <1>5, <3>2
      <4>2. \A a, b \in Nat : ~(a < b) => a + 1 \notin 1 .. b
        OBVIOUS
      <4> QED BY <3>1, <4>1, <4>2, Zenon
    <3>4. Match(start' + 1) = {}
      BY <3>2, <3>3
    <3> QED BY <1>5, <3>4
  <2> QED BY <2>1, <2>2
<1>8. news' \in {"ask", "read"}
  BY <1>1
<1> QED BY <1>1, <1>5, <1>6, <1>7, <1>8, MatchFrame DEF Listed

LEMMA ListedKept == NewsInv /\ Listed /\ [NewsStep]_newsVars => Listed'
<1> SUFFICES ASSUME NewsInv, Listed, [NewsStep]_newsVars PROVE Listed'
  OBVIOUS
<1>1. CASE UNCHANGED newsVars
  <2>1. UNCHANGED <<rows, kind, news, start, limit, page, listed>>
    BY <1>1 DEF newsVars
  <2> QED BY <2>1, MatchFrame DEF Listed
<1> QED BY <1>1, AskListed, AdmitListed, ShareListed, AnswerListed DEF NewsStep, NewsCall

LEMMA ListedSkipsNothing ==
  ASSUME NewsInv, Listed
  PROVE  NothingSkipped
<1>1. /\ Len(listed) \in Nat /\ DOMAIN listed = 1 .. Len(listed)
      /\ \A n \in 1 .. Len(listed) : listed[n] \in Match(n)
  BY DEF Listed
<1>2. Wanted = Matches(rows, kind)
  BY MatchesAreWanted DEF NewsInv, NewsTypeOK
<1>3. /\ Count \in Nat
      /\ \A k \in 1 .. Count : \E i : i \in Match(k)
      /\ \A k : \A i \in Match(k) : k \in 1 .. Count /\ i \in Wanted
      /\ \A i \in Wanted : \E k \in 1 .. Count : i \in Match(k)
      /\ \A k, l : \A i \in Match(k), j \in Match(l) :
           i \in Nat /\ j \in Nat /\ (k < l => i < j) /\ (k = l => i = j)
  BY <1>2, MatchBounds DEF NewsInv
<1>4. \A m, n \in DOMAIN listed : m < n => listed[m] < listed[n]
  BY <1>1, <1>3
<1>5. Given \subseteq Wanted
  BY <1>1, <1>3 DEF Given
<1>6. ASSUME NEW i \in Wanted \ Given
      PROVE  \E k \in 1 .. Count : k > Len(listed) /\ i \in Match(k)
  <2>1. PICK k \in 1 .. Count : i \in Match(k)
    BY <1>3
  <2>2. k \notin 1 .. Len(listed)
    <3>1. k \in 1 .. Len(listed) => i = listed[k]
      BY <1>1, <1>3, <2>1
    <3> QED BY <1>1, <3>1 DEF Given
  <2> QED BY <1>1, <1>3, <2>1, <2>2
<1>7. ASSUME NEW i \in Wanted \ Given, NEW j \in Given
      PROVE  j < i
  <2>1. PICK k \in 1 .. Count : k > Len(listed) /\ i \in Match(k)
    BY <1>6
  <2>2. PICK n \in 1 .. Len(listed) : j = listed[n]
    BY <1>1 DEF Given
  <2>3. n < k /\ j \in Match(n)
    BY <1>1, <2>1, <2>2
  <2> QED BY <1>3, <2>1, <2>3
<1>8. ASSUME Match(Len(listed) + 1) = {} PROVE Given = Wanted
  <2> SUFFICES ASSUME NEW i \in Wanted \ Given PROVE FALSE
    BY <1>5
  <2>1. PICK k \in 1 .. Count : k > Len(listed)
    BY <1>6
  <2>2. Len(listed) + 1 \in 1 .. Count
    BY <1>1, <1>3, <2>1
  <2> QED BY <1>3, <1>8, <2>2
<1>9. (news = "share" /\ page = <<>>) \/ news = "read" => Match(Len(listed) + 1) = {}
  BY DEF Listed
<1>10. news \in {"ask", "admit", "share"} => Len(listed) = start
  BY DEF Listed
<1> QED BY <1>4, <1>5, <1>7, <1>8, <1>9, <1>10 DEF NothingSkipped

(* Whatever the page, however its headings skip levels, whichever kind a client *)
(* asks for and however many sections at a time: it is given the sections of    *)
(* that kind in order, none is skipped or repeated, and it is told that there   *)
(* are no more when it has them all.                                         *)
THEOREM NoSectionIsSkipped == NewsSpec => []NothingSkipped
<1>1. NewsInv /\ Listed => NothingSkipped
  BY ListedSkipsNothing
<1> QED BY <1>1, NewsInvInit, NewsKeepsInv, ListedInit, ListedKept, PTL DEF NewsSpec

-----------------------------------------------------------------------------
(* Hits.                                                                     *)

(* A list of at most max things.                                             *)
Lists(S, max) == {s \in Seq(S) : Len(s) <= max}

Hits == {SymbolHit(s) : s \in index.symbols} \union {SectionHit(s) : s \in index.sections}

LEMMA SmallerOf ==
  ASSUME NEW m \in Nat, NEW n \in Nat
  PROVE  Min({m, n}) \in Nat /\ Min({m, n}) <= m /\ Min({m, n}) <= n
         /\ (m > 0 /\ n > 0 => Min({m, n}) > 0)
<1>1. Min({m, n}) \in {m, n} /\ \A x \in {m, n} : Min({m, n}) <= x
  <2>1. {m, n} \in SUBSET Int /\ \A x \in {m, n} : x >= 0
    OBVIOUS
  <2> QED BY <2>1, MinOfBounded
<1> QED BY <1>1

(* The sections that a search lists are among the candidates.                *)
LEMMA SectionsOfBounds ==
  ASSUME NEW entries, NEW c \in Seq(entries), NEW max \in Nat
  PROVE  SectionsOf(c, max) \in Lists(entries, max)
<1> DEFINE ranks == {Selected(c)[i] : i \in DOMAIN Selected(c)}
           Nth == [n \in 1 .. Cardinality(ranks) |->
                     CHOOSE r \in ranks : Cardinality({q \in ranks : q <= r}) = n]
           size == Min({max, Cardinality(ranks)})
<1>1. Len(c) \in Nat /\ ranks \in SUBSET (1 .. Len(c))
  BY SelectedRanks
<1>2. Cardinality(ranks) \in Nat
  <2> HIDE DEF ranks
  <2>1. IsFiniteSet(1 .. Len(c))
    BY <1>1, FS_Interval
  <2> QED BY <1>1, <2>1, FS_Subset, FS_CardinalityType
<1>3. ASSUME NEW n \in 1 .. Cardinality(ranks) PROVE Nth[n] \in ranks
  <2> HIDE DEF ranks
  <2> QED BY <1>1, RankExists
<1>4. size \in Nat /\ size <= max /\ size <= Cardinality(ranks)
  <2> HIDE DEF ranks
  <2> QED BY <1>2, SmallerOf
<1>5. SectionsOf(c, max) = [n \in 1 .. size |-> c[Nth[n]]]
  BY DEF SectionsOf
<1> HIDE DEF ranks, Nth, size
<1>6. ASSUME NEW n \in 1 .. size PROVE c[Nth[n]] \in entries
  <2>1. n \in 1 .. Cardinality(ranks)
    BY <1>2, <1>4
  <2>2. Nth[n] \in 1 .. Len(c)
    BY <1>1, <1>3, <2>1
  <2> QED BY <2>2
<1>7. SectionsOf(c, max) \in [1 .. size -> entries]
  BY <1>5, <1>6
<1> QED BY <1>4, <1>7, FunctionsAreLists DEF Lists

LEMMA SymbolHitFields ==
  ASSUME NEW s
  PROVE  /\ SymbolHit(s).title = s.name /\ SymbolHit(s).version = s.version
         /\ SymbolHit(s).slug.page = s.page /\ SymbolHit(s).anchor = SymbolAnchor(s)
BY DEF SymbolHit, Slug

LEMMA SymbolHitsAreHits ==
  ASSUME NEW max \in Nat, NEW r \in Lists(index.symbols, max)
  PROVE  /\ SymbolHits(r) \in Lists(Hits, max)
         /\ Len(SymbolHits(r)) = Len(r)
         /\ \A n \in DOMAIN r : SymbolHits(r)[n] = SymbolHit(r[n])
<1>1. Len(r) \in Nat /\ DOMAIN r = 1 .. Len(r) /\ Len(r) <= max
  BY DEF Lists
<1>2. \A n \in 1 .. Len(r) : SymbolHit(r[n]) \in Hits
  BY DEF Lists, Hits
<1>3. SymbolHits(r) \in [1 .. Len(r) -> Hits]
  BY <1>1, <1>2 DEF SymbolHits
<1> QED BY <1>1, <1>3, FunctionsAreLists DEF Lists, SymbolHits

LEMMA SectionHitsAreHits ==
  ASSUME NEW max \in Nat, NEW r \in Lists(index.sections, max)
  PROVE  SectionHits(r) \in Lists(Hits, max)
<1>1. Len(r) \in Nat /\ DOMAIN r = 1 .. Len(r) /\ Len(r) <= max
  BY DEF Lists
<1>2. \A n \in 1 .. Len(r) : SectionHit(r[n]) \in Hits
  BY DEF Lists, Hits
<1>3. SectionHits(r) \in [1 .. Len(r) -> Hits]
  BY <1>1, <1>2 DEF SectionHits
<1> QED BY <1>1, <1>3, FunctionsAreLists DEF Lists, SectionHits

LEMMA CutBounds ==
  ASSUME NEW S, NEW r \in Seq(S), NEW max \in Nat
  PROVE  Cut(r, max) \in Lists(S, max)
<1>1. Len(r) \in Nat /\ Min({max, Len(r)}) \in Nat
      /\ Min({max, Len(r)}) <= max /\ Min({max, Len(r)}) <= Len(r)
  BY SmallerOf
<1> DEFINE last == Min({max, Len(r)})
<1>2. SubSeq(r, 1, last) \in Seq(S) /\ Len(SubSeq(r, 1, last)) <= max
  <2>1. last \in Nat /\ last <= max /\ last <= Len(r) /\ 1 \in Int
    BY <1>1
  <2> HIDE DEF last
  <2>2. \A i \in 1 .. last : r[i] \in S
    BY <1>1, <2>1
  <2>3. /\ SubSeq(r, 1, last) \in Seq(S)
        /\ Len(SubSeq(r, 1, last)) = IF 1 <= last THEN last - 1 + 1 ELSE 0
    BY <2>1, <2>2, SubSeqProperties
  <2> QED BY <2>1, <2>3
<1> QED BY <1>2 DEF Cut, Lists

LEMMA MatchedAreLists ==
  ASSUME NEW entries, NEW r \in Matched(entries)
  PROVE  r \in Seq(entries)
<1>1. PICK size \in 0 .. Min({MaxRows, Cardinality(entries)}) : r \in Orders(entries, size)
  BY DEF Matched
<1>2. size \in Nat /\ r \in [1 .. size -> entries]
  BY <1>1 DEF Orders
<1> QED BY <1>2, FunctionsAreLists

(* What Lookup lists: symbols of the version, and one of that very name first.   *)
LEMMA LookupBounds ==
  ASSUME index \in Indexes, NEW max \in Nat \ {0}, NEW name, NEW version,
         NEW r \in Lookup(name, version, max)
  PROVE  /\ r \in Lists(index.symbols, max)
         /\ r \in Seq(InVersion(index.symbols, version))
         /\ (\E s \in InVersion(index.symbols, version) : s.name = name)
              => Len(r) > 0 /\ r[1].name = name
<1> DEFINE entries == {s \in InVersion(index.symbols, version) :
                      s.name = name \/ <<s.name, name>> \in Contains}
           size == Min({max, Cardinality(entries)})
<1>1. r \in [1 .. size -> entries] /\ ExactFirst(r, entries, name)
  BY DEF Lookup, Orders
<1>2. entries \subseteq InVersion(index.symbols, version) /\ entries \subseteq index.symbols
  BY DEF InVersion
<1>3. IsFiniteSet(entries) /\ Cardinality(entries) \in Nat
  <2>1. IsFiniteSet(index.symbols)
    BY SearchAssumption
  <2> HIDE DEF entries
  <2> QED BY <1>2, <2>1, FS_Subset, FS_CardinalityType
<1>4. /\ size \in Nat /\ size <= max
      /\ Cardinality(entries) > 0 => size > 0
  <2> HIDE DEF entries
  <2> QED BY <1>3, SmallerOf
<1>5. r \in Seq(entries) /\ Len(r) = size
  <2> HIDE DEF entries, size
  <2> QED BY <1>1, <1>4, FunctionsAreLists
<1>6. r \in Seq(InVersion(index.symbols, version)) /\ r \in Lists(index.symbols, max)
  <2> HIDE DEF entries, size
  <2> QED BY <1>2, <1>4, <1>5, SeqMonotonic DEF Lists
<1>7. ASSUME NEW s \in InVersion(index.symbols, version), s.name = name
      PROVE  Len(r) > 0 /\ r[1].name = name
  <2>1. s \in entries
    BY <1>7
  <2>2. Cardinality(entries) > 0
    <3> HIDE DEF entries
    <3> QED BY <1>3, <2>1, FS_EmptySet
  <2>3. Len(r) > 0 /\ 1 \in DOMAIN r
    <3> HIDE DEF entries, size
    <3> QED BY <1>1, <1>4, <1>5, <2>2
  <2>4. ~\E m \in 1 .. 1 - 1 : TRUE
    OBVIOUS
  <2> QED BY <1>1, <1>7, <2>1, <2>3, <2>4 DEF ExactFirst
<1> QED BY <1>6, <1>7

(* What the tables list, before a spare slot is used.                        *)
LEMMA FullTextBounds ==
  ASSUME NEW sort \in Kinds \ {"symbol"}, NEW version, NEW max \in Nat,
         NEW h \in FullText(sort, version, max)
  PROVE  h \in Lists(Hits, max)
<1>1. ASSUME h \in SearchSections(version, max) PROVE h \in Lists(Hits, max)
  <2>1. PICK c \in Matched(InVersion(index.sections, version)) :
          h = SectionHits(SectionsOf(c, max))
    BY <1>1 DEF SearchSections
  <2>2. SectionsOf(c, max) \in Lists(InVersion(index.sections, version), max)
    BY MatchedAreLists, SectionsOfBounds
  <2>3. SectionsOf(c, max) \in Lists(index.sections, max)
    <3>1. InVersion(index.sections, version) \subseteq index.sections
      BY DEF InVersion
    <3> QED BY <2>2, <3>1, SeqMonotonic DEF Lists
  <2> QED BY <2>1, <2>3, SectionHitsAreHits
<1>2. ASSUME h \in SearchSymbols(version, max) PROVE h \in Lists(Hits, max)
  <2>1. PICK c \in Matched(InVersion(index.symbols, version)) :
          h = SymbolHits(Cut(c, max))
    BY <1>2 DEF SearchSymbols
  <2>2. c \in Seq(index.symbols)
    <3>1. InVersion(index.symbols, version) \subseteq index.symbols
      BY DEF InVersion
    <3> QED BY <3>1, MatchedAreLists, SeqMonotonic
  <2> QED BY <2>1, <2>2, CutBounds, SymbolHitsAreHits
<1>3. ASSUME h \in SearchExamples(version, max) PROVE h \in Lists(Hits, max)
  <2>1. PICK size \in 0 .. 2 : \E e \in [1 .. size -> InVersion(index.sections, version)] :
          h = SectionHits(Cut(e, max))
    BY <1>3 DEF SearchExamples
  <2>4. PICK e \in [1 .. size -> InVersion(index.sections, version)] :
          h = SectionHits(Cut(e, max))
    BY <2>1
  <2>2. e \in [1 .. size -> index.sections]
    BY DEF InVersion
  <2>3. e \in Seq(index.sections)
    BY <2>2, FunctionsAreLists
  <2> QED BY <2>4, <2>3, CutBounds, SectionHitsAreHits
<1> QED BY <1>1, <1>2, <1>3 DEF FullText, Kinds

(* A hit whose page is in the index opens.                                   *)
LEMMA AHitOpens ==
  ASSUME index \in Indexes, NEW hit \in Hits,
         Indexed(hit.version, Slug(hit.slug.page, ""))
  PROVE  Opens(hit.version, hit.slug, hit.anchor)
<1>1. CASE \E s \in index.symbols : hit = SymbolHit(s)
  <2>1. PICK s \in index.symbols : hit = SymbolHit(s)
    BY <1>1
  <2>2. /\ hit.version = s.version /\ hit.slug.page = s.page
        /\ hit.anchor = SymbolAnchor(s)
    BY <2>1 DEF SymbolHit, Slug
  <2>3. Indexed(s.version, Slug(s.page, "")) /\ hit.slug = Slug(s.page, "")
    BY <2>1, <2>2 DEF SymbolHit
  <2>4. hit.anchor # None =>
          hit.anchor = s.anchor /\ SectionsAt(s.version, Slug(s.page, ""), s.anchor) # {}
    BY <2>2, <2>3 DEF SymbolAnchor, OrNone
  <2> QED BY <2>2, <2>3, <2>4 DEF Opens
<1>2. CASE \E s \in index.sections : hit = SectionHit(s)
  <2>1. PICK s \in index.sections : hit = SectionHit(s)
    BY <1>2
  <2>2. /\ hit.version = s.version /\ hit.slug = Slug(s.page, "")
        /\ hit.slug.page = s.page /\ hit.anchor = OrNone(s.anchor)
    BY <2>1 DEF SectionHit, Slug
  <2>3. s \in SectionsAt(s.version, Slug(s.page, ""), s.anchor)
    BY DEF SectionsAt, Slug
  <2> QED BY <2>2, <2>3 DEF Opens, OrNone
<1> QED BY <1>1, <1>2 DEF Hits

(* The one identifier of the prompt that the version has.                    *)
LEMMA OneKnown ==
  ASSUME NEW q \in Queries, NEW version
  PROVE  Cardinality(Known(q, version)) = 1 <=> \E n : Known(q, version) = {n}
<1>1. IsFiniteSet(Known(q, version))
  BY SearchAssumption, FS_Subset DEF Known
<1> QED BY <1>1, FS_Singleton

(* What SearchDocs takes for found.                                          *)
Finds(fast, q, sort, version, max) ==
  IF fast # <<>> \/ sort = "symbol" THEN {fast}
  ELSE UNION {Fallback(h, q, sort, version, max) : h \in FullText(sort, version, max)}

(* What a search finds before the spare slot: hits, as many as were asked for  *)
(* at most; of a symbol search, the exact name first; and something, if the    *)
(* prompt names one symbol of the version.                                   *)
Promising(q, sort, version, max, found) ==
  /\ found \in Lists(Hits, max)
  /\ sort = "symbol" =>
       \A s \in InVersion(index.symbols, version) :
         s.name = q.text => found # <<>> /\ found[1].title = s.name
  /\ sort = "auto" /\ version # None /\ Cardinality(Known(q, version)) = 1
       => found # <<>>

LEMMA FoundBounds ==
  ASSUME index \in Indexes,
         NEW q \in Queries, NEW sort \in Kinds, NEW version, NEW max \in Nat \ {0},
         NEW fast \in FastPath(q, sort, version, max),
         NEW found \in Finds(fast, q, sort, version, max)
  PROVE  Promising(q, sort, version, max, found)
<1>1. /\ <<>> \in Lists(Hits, max)
      /\ \A h \in Lists(Hits, max) : h # <<>> <=> Len(h) > 0
  BY EmptySeq DEF Lists
<1>2. ASSUME NEW name, NEW r \in Lookup(name, version, max)
      PROVE  /\ SymbolHits(r) \in Lists(Hits, max)
             /\ \A s \in InVersion(index.symbols, version) :
                  s.name = name => SymbolHits(r) # <<>> /\ SymbolHits(r)[1].title = s.name
  <2>1. r \in Lists(index.symbols, max)
    BY LookupBounds
  <2>2. SymbolHits(r) \in Lists(Hits, max) /\ Len(SymbolHits(r)) = Len(r)
    BY <2>1, SymbolHitsAreHits
  <2>3. ASSUME NEW s \in InVersion(index.symbols, version), s.name = name
        PROVE  SymbolHits(r) # <<>> /\ SymbolHits(r)[1].title = s.name
    <3>1. Len(r) > 0 /\ r[1].name = name
      BY <2>3, LookupBounds
    <3>2. 1 \in DOMAIN r
      BY <2>1, <3>1 DEF Lists
    <3>3. SymbolHits(r)[1].title = r[1].name
      <4>1. SymbolHits(r)[1] = SymbolHit(r[1])
        BY <2>1, <3>2, SymbolHitsAreHits
      <4> QED BY <4>1, SymbolHitFields
    <3>4. SymbolHits(r) # <<>>
      BY <1>1, <2>2, <3>1
    <3> QED BY <2>3, <3>1, <3>3, <3>4
  <2> QED BY <2>2, <2>3
<1>3. CASE fast # <<>> \/ sort = "symbol"
  <2>1. found = fast
    BY <1>3 DEF Finds
  <2>2. fast \in Lists(Hits, max)
    BY <1>1, <1>2 DEF FastPath
  <2>3. sort = "symbol" => \E r \in Lookup(q.text, version, max) : fast = SymbolHits(r)
    BY DEF FastPath
  <2> QED BY <1>2, <1>3, <2>1, <2>2, <2>3 DEF Promising
<1>4. CASE fast = <<>> /\ sort # "symbol"
  <2>1. PICK h \in FullText(sort, version, max) :
          found \in Fallback(h, q, sort, version, max)
    BY <1>4 DEF Finds
  <2>2. h \in Lists(Hits, max)
    BY <1>4, FullTextBounds
  <2> DEFINE lost == h = <<>> /\ sort = "auto" /\ version # None
                     /\ Cardinality(Known(q, version)) = 1
             name == CHOOSE n \in Known(q, version) : TRUE
  <2>3. CASE ~lost
    <3>1. found = h
      BY <2>1, <2>3 DEF Fallback
    <3> QED BY <1>4, <2>2, <2>3, <3>1 DEF Promising
  <2>4. CASE lost
    <3>1. PICK r \in Lookup(name, version, max) : found = SymbolHits(r)
      BY <2>1, <2>4 DEF Fallback
    <3>2. name \in Known(q, version)
      <4>1. \E n : Known(q, version) = {n}
        BY <2>4, OneKnown
      <4> QED BY <4>1
    <3> HIDE DEF name
    <3>3. \E s \in InVersion(index.symbols, version) : s.name = name
      BY <3>2 DEF Known, InVersion
    <3> QED BY <1>2, <1>4, <3>1, <3>3 DEF Promising
  <2> QED BY <2>3, <2>4
<1> QED BY <1>3, <1>4

-----------------------------------------------------------------------------
(* The calls.                                                                *)

SearchInv ==
  /\ index \in Indexes \union {NoIndex}
  /\ index = NoIndex => answer = Silence
  /\ HitsOpen /\ NamedSymbolShown /\ CompareSound

LEMMA SearchInvInit == SearchInit => SearchInv
BY DEF SearchInit, SearchInv, HitsOpen, NamedSymbolShown, CompareSound, Found, Silence

LEMMA SilenceKeepsInv ==
  ASSUME SearchInv, answer' = Silence, index' \in Indexes \union {NoIndex}
  PROVE  SearchInv'
BY DEF SearchInv, HitsOpen, NamedSymbolShown, CompareSound, Found, Silence

LEMMA CompareKeepsInv == ASSUME SearchInv, CompareVersions PROVE SearchInv'
<1>1. PICK symbol \in UNION {q.mentions \union {q.text} : q \in Queries},
           v1 \in Versions, v2 \in Versions :
        \E change \in Changes(symbol, v1, v2) :
          answer' = [tool |-> "compare", symbol |-> symbol, v1 |-> v1, v2 |-> v2,
                     change |-> change]
  BY DEF CompareVersions
<1>2. PICK change \in Changes(symbol, v1, v2) :
        answer' = [tool |-> "compare", symbol |-> symbol, v1 |-> v1, v2 |-> v2,
                   change |-> change]
  BY <1>1
<1>3. index' = index /\ index # NoIndex
  BY DEF CompareVersions
<1> DEFINE in1 == Resolved(symbol, v1)
           in2 == Resolved(symbol, v2)
           Same(s, t) == (SectionText(s) \intersect SectionText(t)) \ {""} # {}
<1>4. /\ change \in {"error", "added", "removed", "changed", "unchanged"}
      /\ change = "error" => in1 = {} /\ in2 = {}
      /\ change = "added" => in1 = {} /\ in2 # {}
      /\ change = "removed" => in1 # {} /\ in2 = {}
      /\ change \in {"changed", "unchanged"} => in1 # {} /\ in2 # {}
      /\ change = "unchanged" /\ v1 # v2 => \E s \in in1, t \in in2 : Same(s, t)
  <2> DEFINE readings == {Difference(t1, t2) : t1 \in UNION {SectionText(s) : s \in in1},
                                               t2 \in UNION {SectionText(s) : s \in in2}}
  <2>1. change \in IF in1 = {} /\ in2 = {} THEN {"error"}
                   ELSE IF v1 = v2 THEN {"unchanged"}
                   ELSE IF in1 = {} THEN {"added"}
                   ELSE IF in2 = {} THEN {"removed"} ELSE readings
    BY DEF Changes
  <2>2. v1 = v2 => in1 = in2
    OBVIOUS
  <2>3. ASSUME change \in readings
        PROVE  /\ change \in {"changed", "unchanged"}
               /\ change = "unchanged" => \E s \in in1, t \in in2 : Same(s, t)
    <3>1. PICK s \in in1, t \in in2 :
            \E t1 \in SectionText(s), t2 \in SectionText(t) : change = Difference(t1, t2)
      <4> HIDE DEF in1, in2
      <4> QED BY <2>3
    <3>2. PICK t1 \in SectionText(s), t2 \in SectionText(t) : change = Difference(t1, t2)
      BY <3>1
    <3>3. /\ change \in {"changed", "unchanged"}
          /\ change = "unchanged" => t1 = t2 /\ t1 # ""
      BY <3>2 DEF Difference
    <3> QED BY <3>2, <3>3
  <2> HIDE DEF in1, in2, readings, Same
  <2> QED BY <2>1, <2>2, <2>3
<1>5. CompareSound'
  <2>1. \A s : SectionText(s)' = SectionText(s)
    BY <1>3 DEF SectionText, SectionsAt, Indexed
  <2>2. /\ answer'.symbol = symbol /\ answer'.v1 = v1 /\ answer'.v2 = v2
        /\ answer'.change = change
    BY <1>2
  <2>3. /\ Resolved(answer.symbol, answer.v1)' = in1
        /\ Resolved(answer.symbol, answer.v2)' = in2
    BY <1>3, <2>2 DEF Resolved
  <2> HIDE DEF in1, in2
  <2> QED BY <1>4, <2>1, <2>2, <2>3 DEF CompareSound
<1>6. HitsOpen' /\ NamedSymbolShown'
  BY <1>2 DEF HitsOpen, NamedSymbolShown, Found
<1> QED BY <1>3, <1>5, <1>6 DEF SearchInv

(* The spare slot alters nothing of what was found, and shows the one symbol   *)
(* that is named.                                                            *)
Kept(q, sort, version, max, fits, found, hits) ==
  /\ hits \in Lists(Hits, max)
  /\ sort = "symbol" => hits = found
  /\ Len(hits) \in {Len(found), Len(found) + 1}
  /\ \A n \in DOMAIN found :
       /\ hits[n] = found[n]
       /\ Len(hits) > Len(found) => Location(found[n]) # Location(hits[Len(hits)])
  /\ sort = "auto" /\ version # None /\ fits /\ found # <<>> =>
       \A name :
         Known(q, version) = {name} =>
           \/ Len(hits) = max
           \/ \E n \in DOMAIN hits, s \in Resolved(name, version) :
                Location(hits[n]) = Location(SymbolHit(s))

LEMMA CanonicalBounds ==
  ASSUME NEW q \in Queries, NEW sort, NEW version, NEW max \in Nat, NEW fits \in BOOLEAN,
         NEW found \in Lists(Hits, max),
         NEW hits \in WithCanonical(found, q, version, sort, max, fits)
  PROVE  Kept(q, sort, version, max, fits, found, hits)
<1>1. /\ found \in Seq(Hits) /\ Len(found) \in Nat /\ Len(found) <= max
      /\ DOMAIN found = 1 .. Len(found)
  BY DEF Lists
<1>2. CASE ~(Spare(found, q, version, sort, max) /\ fits)
  <2>1. hits = found
    BY <1>2 DEF WithCanonical
  <2>2. ASSUME sort = "auto", version # None, fits, found # <<>>,
               NEW name, Known(q, version) = {name}
        PROVE  Len(found) = max
    <3>1. Cardinality(Known(q, version)) = 1
      BY <2>2, OneKnown
    <3>2. ~(Len(found) < max)
      BY <1>2, <2>2, <3>1 DEF Spare
    <3>3. \A a, b \in Nat : a <= b /\ ~(a < b) => a = b
      OBVIOUS
    <3> QED BY <1>1, <3>2, <3>3, Zenon
  <2>3. ~(Len(found) > Len(found))
    BY <1>1
  <2> QED BY <2>1, <2>2, <2>3, Zenon DEF Kept
<1>3. CASE Spare(found, q, version, sort, max) /\ fits
  <2>1. /\ Len(found) < max /\ sort = "auto"
        /\ Cardinality(Known(q, version)) = 1
    BY <1>3 DEF Spare
  <2>2. PICK name : Known(q, version) = {name}
    BY <2>1, OneKnown
  <2>3. PICK s \in index.symbols :
          /\ s.version = version /\ s.name \in Known(q, version)
          /\ hits = IF \E n \in DOMAIN found : Location(found[n]) = Location(SymbolHit(s))
                    THEN found ELSE Append(found, SymbolHit(s))
    BY <1>3 DEF WithCanonical
  <2>4. s \in Resolved(name, version)
    BY <2>2, <2>3 DEF Resolved
  <2>5. CASE \E n \in DOMAIN found : Location(found[n]) = Location(SymbolHit(s))
    <3>1. hits = found /\ \E n \in DOMAIN hits : Location(hits[n]) = Location(SymbolHit(s))
      BY <2>3, <2>5
    <3>2. \A nm : Known(q, version) = {nm} => nm = name
      BY <2>2
    <3>3. ~(Len(found) > Len(found))
      BY <1>1
    <3> QED BY <2>1, <2>4, <3>1, <3>2, <3>3, Zenon DEF Kept
  <2>6. CASE ~\E n \in DOMAIN found : Location(found[n]) = Location(SymbolHit(s))
    <3> DEFINE hit == SymbolHit(s)
    <3>1. hit \in Hits
      BY DEF Hits
    <3>2. hits = Append(found, hit)
      BY <2>3, <2>6
    <3> HIDE DEF hit
    <3>3. /\ hits \in Seq(Hits) /\ Len(hits) = Len(found) + 1
          /\ \A n \in 1 .. Len(found) : hits[n] = found[n]
          /\ hits[Len(found) + 1] = hit
      BY <1>1, <3>1, <3>2, AppendProperties
    <3>4. hits \in Lists(Hits, max) /\ Len(hits) \in DOMAIN hits
      BY <1>1, <2>1, <3>3 DEF Lists
    <3>5. \A n \in DOMAIN found : Location(found[n]) # Location(hits[Len(hits)])
      BY <2>6, <3>3 DEF hit
    <3>6. Location(hits[Len(hits)]) = Location(SymbolHit(s))
      BY <3>3 DEF hit
    <3> QED BY <1>1, <2>1, <2>2, <2>4, <3>3, <3>4, <3>5, <3>6 DEF Kept
  <2> QED BY <2>5, <2>6
<1> QED BY <1>2, <1>3

(* So the hits of a search are what the properties say, whatever the tables    *)
(* match.                                                                    *)
Sound(q, sort, version, max, fits, found, hits) ==
  /\ \A n \in DOMAIN hits :
       Indexed(hits[n].version, Slug(hits[n].slug.page, ""))
         => Opens(hits[n].version, hits[n].slug, hits[n].anchor)
  /\ sort = "symbol" =>
       \A s \in InVersion(index.symbols, version) :
         s.name = q.text => hits # <<>> /\ hits[1].title = s.name
  /\ Len(hits) <= max
  /\ Len(hits) \in {Len(found), Len(found) + 1}
  /\ \A n \in DOMAIN found :
       /\ hits[n] = found[n]
       /\ Len(hits) > Len(found) => Location(found[n]) # Location(hits[Len(hits)])
  /\ sort = "auto" /\ version # None /\ fits =>
       \A name :
         {name} = {n \in q.mentions : Resolved(n, version) # {}} =>
           \/ Len(hits) = max
           \/ \E n \in DOMAIN hits, s \in Resolved(name, version) :
                Location(hits[n]) = Location(SymbolHit(s))

LEMMA SearchesAreSound ==
  ASSUME index \in Indexes,
         NEW q \in Queries, NEW sort \in Kinds, NEW version, NEW max \in Nat \ {0},
         NEW fits \in BOOLEAN,
         NEW fast \in FastPath(q, sort, version, max),
         NEW found \in Finds(fast, q, sort, version, max),
         NEW hits \in WithCanonical(found, q, version, sort, max, fits)
  PROVE  Sound(q, sort, version, max, fits, found, hits)
<1>1. Promising(q, sort, version, max, found)
  BY FoundBounds
<1>2. found \in Lists(Hits, max) /\ max \in Nat
  BY <1>1 DEF Promising
<1>3. Kept(q, sort, version, max, fits, found, hits)
  BY <1>2, CanonicalBounds
<1>4. \A n \in DOMAIN hits :
        Indexed(hits[n].version, Slug(hits[n].slug.page, ""))
          => Opens(hits[n].version, hits[n].slug, hits[n].anchor)
  <2>1. ASSUME NEW n \in DOMAIN hits PROVE hits[n] \in Hits
    <3>1. hits \in Seq(Hits)
      BY <1>3 DEF Kept, Lists
    <3> QED BY <3>1
  <2> QED BY <2>1, AHitOpens, Zenon
<1>5. Len(hits) <= max
  BY <1>3 DEF Kept, Lists
<1>6. ASSUME NEW name, {name} = {n \in q.mentions : Resolved(n, version) # {}}
      PROVE  Known(q, version) = {name} /\ Cardinality(Known(q, version)) = 1
  <2>1. Known(q, version) = {name}
    BY <1>6 DEF Known, Resolved
  <2> QED BY <2>1, OneKnown
<1> QED BY <1>1, <1>3, <1>4, <1>5, <1>6, Zenon DEF Promising, Kept, Sound

LEMMA SearchAnswers ==
  ASSUME SearchInv, index \in Indexes, index # NoIndex, index' = index,
         NEW q, NEW sort, NEW version, NEW max, NEW fits, NEW found, NEW hits,
         Sound(q, sort, version, max, fits, found, hits),
         answer' = [tool |-> "search", query |-> q, version |-> version, kind |-> sort,
                    max |-> max, fits |-> fits, found |-> found, hits |-> hits]
  PROVE  SearchInv'
<1>1. /\ answer'.tool = "search" /\ answer'.query = q /\ answer'.version = version
      /\ answer'.kind = sort /\ answer'.max = max /\ answer'.fits = fits
      /\ answer'.found = found /\ answer'.hits = hits
  OBVIOUS
<1>2. HitsOpen'
  <2>1. /\ \A v, slug : Indexed(v, slug)' <=> Indexed(v, slug)
        /\ \A v, slug, anchor : Opens(v, slug, anchor)' <=> Opens(v, slug, anchor)
    BY DEF Opens, Indexed, SectionsAt
  <2> QED BY <1>1, <2>1 DEF Sound, HitsOpen
<1>3. ExactLeads'
  BY <1>1 DEF Sound, ExactLeads, InVersion
<1>4. EvidenceKept'
  BY <1>1 DEF Sound, EvidenceKept
<1>5. ASSUME NEW name, OneIsNamed(name)'
      PROVE  Len(hits) = max \/ Shown(name)'
  <2>1. /\ sort = "auto" /\ version # None /\ fits
        /\ {name} = {n \in q.mentions : Resolved(n, version) # {}}
    BY <1>1, <1>5 DEF OneIsNamed, Resolved
  <2>2. \/ Len(hits) = max
        \/ \E n \in DOMAIN hits, s \in Resolved(name, version) :
             Location(hits[n]) = Location(SymbolHit(s))
    BY <2>1 DEF Sound
  <2>3. \A s : SymbolHit(s)' = SymbolHit(s)
    BY DEF SymbolHit, SymbolAnchor, Indexed, SectionsAt
  <2> QED BY <1>1, <2>2, <2>3 DEF Shown, Resolved
<1>6. NamedSymbolShown'
  BY <1>1, <1>3, <1>4, <1>5 DEF NamedSymbolShown
<1>7. CompareSound'
  BY <1>1 DEF CompareSound
<1>8. index' \in Indexes \union {NoIndex} /\ index' # NoIndex
  BY DEF NoIndex
<1> QED BY <1>2, <1>6, <1>7, <1>8 DEF SearchInv

LEMMA SearchKeepsInv == ASSUME SearchInv, SearchDocs PROVE SearchInv'
<1>1. index \in Indexes /\ index # NoIndex /\ index' = index
  BY DEF SearchInv, SearchDocs
<1>2. Maxima \subseteq Nat \ {0}
  BY SearchAssumption
<1> DEFINE Answers(q, sort, version, max, fits, found, hits) ==
             answer' = [tool |-> "search", query |-> q, version |-> version,
                        kind |-> sort, max |-> max, fits |-> fits, found |-> found,
                        hits |-> hits]
           Ends(q, sort, version, max, fits) ==
             \E fast \in FastPath(q, sort, version, max) :
             \E found \in Finds(fast, q, sort, version, max) :
             \E hits \in WithCanonical(found, q, version, sort, max, fits) :
               Answers(q, sort, version, max, fits, found, hits)
<1>3. PICK q \in Queries, sort \in Kinds, version \in Versions \union {None},
           max \in Maxima :
        \E fits \in IF sort = "auto" THEN BOOLEAN ELSE {TRUE} :
          Ends(q, sort, version, max, fits)
  BY DEF SearchDocs, Finds
<1> HIDE DEF Answers, Ends
<1>4. PICK fits \in BOOLEAN : Ends(q, sort, version, max, fits)
  BY <1>3
<1>5. PICK fast \in FastPath(q, sort, version, max) :
        \E found \in Finds(fast, q, sort, version, max) :
        \E hits \in WithCanonical(found, q, version, sort, max, fits) :
          Answers(q, sort, version, max, fits, found, hits)
  BY <1>4 DEF Ends
<1>6. PICK found \in Finds(fast, q, sort, version, max) :
        \E hits \in WithCanonical(found, q, version, sort, max, fits) :
          Answers(q, sort, version, max, fits, found, hits)
  BY <1>5
<1>7. PICK hits \in WithCanonical(found, q, version, sort, max, fits) :
        Answers(q, sort, version, max, fits, found, hits)
  BY <1>6
<1>8. max \in Nat \ {0}
  BY <1>2
<1>9. Sound(q, sort, version, max, fits, found, hits)
  BY <1>1, <1>8, SearchesAreSound
<1> QED BY <1>1, <1>7, <1>9, SearchAnswers DEF Answers

LEMMA SearchStepKeepsInv == SearchInv /\ [SearchStep]_searchVars => SearchInv'
<1> SUFFICES ASSUME SearchInv, [SearchStep]_searchVars PROVE SearchInv'
  OBVIOUS
<1>1. CASE UNCHANGED searchVars
  <2>1. index' = index /\ answer' = answer
    BY <1>1 DEF searchVars
  <2>2. HitsOpen'
    <3>1. /\ \A v, slug : Indexed(v, slug)' <=> Indexed(v, slug)
          /\ \A v, slug, anchor : Opens(v, slug, anchor)' <=> Opens(v, slug, anchor)
      BY <2>1 DEF Opens, Indexed, SectionsAt
    <3> QED BY <2>1, <3>1 DEF SearchInv, HitsOpen, Found
  <2>3. NamedSymbolShown'
    <3>1. \A s : SymbolHit(s)' = SymbolHit(s)
      BY <2>1 DEF SymbolHit, SymbolAnchor, Indexed, SectionsAt
    <3>2. \A name : Shown(name)' <=> Shown(name)
      BY <2>1, <3>1 DEF Shown, Resolved
    <3>3. \A name : OneIsNamed(name)' <=> OneIsNamed(name)
      BY <2>1 DEF OneIsNamed, Resolved
    <3>4. (ExactLeads' <=> ExactLeads) /\ (EvidenceKept' <=> EvidenceKept)
      BY <2>1 DEF ExactLeads, EvidenceKept, InVersion
    <3> QED BY <2>1, <3>2, <3>3, <3>4 DEF SearchInv, NamedSymbolShown, Found
  <2>4. CompareSound'
    <3>1. \A s : SectionText(s)' = SectionText(s)
      BY <2>1 DEF SectionText, SectionsAt, Indexed
    <3>2. CompareSound
      BY DEF SearchInv
    <3> QED BY <2>1, <3>1, <3>2, Zenon DEF CompareSound, Resolved
  <2> QED BY <2>1, <2>2, <2>3, <2>4 DEF SearchInv
<1>2. CASE OpenIndex
  BY <1>2, SilenceKeepsInv DEF SearchInv, OpenIndex
<1>3. CASE Send
  BY <1>3, SilenceKeepsInv DEF SearchInv, Send
<1> QED BY <1>1, <1>2, <1>3, SearchKeepsInv, CompareKeepsInv DEF SearchStep

LEMMA SearchInvariant == SearchSpec => []SearchInv
BY SearchInvInit, SearchStepKeepsInv, PTL DEF SearchSpec

(* Every hit of every search whose page is in the index opens with its own     *)
(* version, slug and anchor, for any index and any queries.                     *)
THEOREM EveryHitOpens == SearchSpec => []HitsOpen
<1>1. SearchInv => HitsOpen
  BY DEF SearchInv
<1> QED BY <1>1, SearchInvariant, PTL

(* A symbol that is named is shown, exact names first, in a slot that was      *)
(* spare: however many rows a query matches, in whatever order.                *)
THEOREM NamedSymbolsAreShown == SearchSpec => []NamedSymbolShown
<1>1. SearchInv => NamedSymbolShown
  BY DEF SearchInv
<1> QED BY <1>1, SearchInvariant, PTL

(* A comparison says of two versions what their symbols and texts say.         *)
THEOREM ComparisonsAreSound == SearchSpec => []CompareSound
<1>1. SearchInv => CompareSound
  BY DEF SearchInv
<1> QED BY <1>1, SearchInvariant, PTL
=============================================================================
