------------------------------ MODULE MCPublish ------------------------------
(* Small instances of Publish.                                              *)
EXTENDS Publish, TLC

Symmetry == Permutations(Proc) \union Permutations(Inode)

(* What no step and no property reads is left out: the content of an inode   *)
(* nothing names and of an abandoned build, the age of a file without a      *)
(* build-*.db name or by the cutoff of a sweep that is over, how a run ended *)
(* unless it published, and the history outside a swap.                      *)
View == <<names, [i \in Named \ strays |-> disk[i]],
          [c \in {p \in Proc : pc[p] = "sweep"} \union {None} |->
             aged[c] \intersect BuildNames],
          pc, src, judged,
          {p \in Proc : outcome[p] = "published"},
          {p \in Proc : disturbed[p] /\ pc[p] \in SwapSteps}>>

(* Bound: with two processes, at most one abandoned build at a time.         *)
CONSTANT MaxStrays
FewStrays == Cardinality(strays) <= MaxStrays
=============================================================================
