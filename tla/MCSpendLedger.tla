---------------------------- MODULE MCSpendLedger ----------------------------
(* Small instances of SpendLedger.                                           *)
EXTENDS SpendLedger, TLC

CONSTANTS p1, p2, j1, j2, u1, u2, u3, u4

OneOf == [j \in {j1, j2} |-> p1]
EachItsOwn == [j \in {j1, j2} |-> IF j = j1 THEN p1 ELSE p2]

Caps1 == [p \in {p1} |-> 2]
Margins1 == [p \in {p1} |-> 1]
Caps2 == [p \in {p1, p2} |-> 2]
Margins2 == [p \in {p1, p2} |-> 1]

Symmetry == Permutations(Unit)

(* What no step reads: the description of a unit that is over, the ids of     *)
(* settled units and their charge.                                           *)
Live == UNION {journal[p].pending : p \in Provider}
           \union {inFlight[p] : p \in Provider}
View == <<journal, [u \in Unit \intersect Live |-> units[u]], phase, ledgerVars,
          serviceVars, hostVars, billed, unacked,
          [p \in Provider |-> IF last[p] \in Live THEN <<last[p], charge[p]>>
                              ELSE <<None, 0>>]>>
=============================================================================
