--------------------------- MODULE MCParentCodes ---------------------------
(* Constants for model-checking ParentCodes: requests are interchangeable. *)
EXTENDS ParentCodes, TLC

Interchangeable == Permutations(Request)
=============================================================================
