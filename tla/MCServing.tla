------------------------------ MODULE MCServing ------------------------------
(* Small instances of Serving.                                               *)
EXTENDS Serving, TLC

Symmetry == Permutations(Server) \union Permutations(Gen) \union Permutations(Key)
=============================================================================
