------------------------------ MODULE MCIngest ------------------------------
(* Two versions, in every order, alone and repeated.                         *)
EXTENDS Ingest

MCVersion == {12, 13}
MCRequests == {<<13>>, <<12, 13>>, <<13, 12>>, <<13, 13>>, <<12, 13, 12>>}
=============================================================================
