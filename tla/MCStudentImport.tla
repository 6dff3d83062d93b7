--------------------------- MODULE MCStudentImport ---------------------------
(* One upload at a time, of rows that name batches: what became of the rows *)
(* rejected as duplicates of another row of the file.                       *)
EXTENDS StudentImport, TLC

CONSTANTS a1, a2

(* Two spellings of one roll number. *)
BothFolded == a1 :> a1 @@ a2 :> a1 @@ [k \in Card |-> k]
=============================================================================
