---------------------------- MODULE MCFeeLedger ----------------------------
(* FeeLedger for TLC: tabs are interchangeable. *)
EXTENDS FeeLedger, TLC

Interchangeable == Permutations(Tab)

(* The histories feed nothing back: runs that check none of them leave them *)
(* out of the state.                                                       *)
OnFile == <<view, stored, now>>
=============================================================================
