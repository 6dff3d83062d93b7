---------------------------- MODULE StudentImport ----------------------------
(***************************************************************************)
(* Bulk admissions, POST /students/import (backend/src/students and         *)
(* backend/src/common/bulk).  An upload reads the keys already taken, then  *)
(* checks its rows in memory, then writes the good ones in one transaction; *)
(* other uploads, and retries of one whose answer was lost, run in between. *)
(*                                                                         *)
(* A file holds the rows that pass the checks which need no other row       *)
(* (dates, campus, mobile, batches that exist): one that does not is        *)
(* reported and has no other effect.  Roll numbers and cards are compared   *)
(* exactly by the database and without case by the import.                  *)
(* Op_Fault is Op with one fault, to show that a property depends on Op.    *)
(***************************************************************************)
EXTENDS Naturals, Sequences

CONSTANTS
  Request,
  Code, Card,        \* roll numbers and cards, as spelt
  Folded,            \* each of them without its case
  Batch,
  MaxRows,           \* bound on the rows of a file
  None

Row == [code : Code, card : Card, batches : SUBSET Batch]
File == UNION {[1..n -> Row] : n \in 1..MaxRows}

VARIABLES
  students,      \* card and batches of the student with each roll number
  req            \* each upload: its rows, the keys it read, what it reported

vars == <<students, req>>

Idle == [phase |-> "idle", rows |-> <<>>, taken |-> {}, cards |-> {}, dryRun |-> FALSE, created |-> {}]
Admitted == {c \in Code : students[c] # None}

Init ==
  /\ students = [c \in Code |-> None]
  /\ req = [q \in Request |-> Idle]

Upload(q, rows, dryRun) ==
  /\ req[q].phase = "idle"
  /\ req' = [req EXCEPT ![q] = [Idle EXCEPT !.phase = "reading", !.rows = rows, !.dryRun = dryRun]]
  /\ UNCHANGED students

(* One query finds the students with a roll number or card of the file.     *)
ReadKeys(q) ==
  LET rows == req[q].rows
      found == {c \in Admitted : \E i \in DOMAIN rows : rows[i].code = c \/ rows[i].card = students[c].card}
  IN /\ req[q].phase = "reading"
     /\ req' = [req EXCEPT ![q].phase = "writing", ![q].taken = {Folded[c] : c \in found},
                           ![q].cards = {Folded[students[c].card] : c \in found}]
     /\ UNCHANGED students

(* Rows clear of the keys read, and of them those clear of earlier ones.    *)
Clear(r) ==
  {i \in DOMAIN r.rows : Folded[r.rows[i].code] \notin r.taken /\ Folded[r.rows[i].card] \notin r.cards}

Clash(a, b) == Folded[a.code] = Folded[b.code] \/ Folded[a.card] = Folded[b.card]

Valid_AgainstStored(r) == Clear(r)
Valid(r) ==
  LET upTo[n \in 0..Len(r.rows)] ==
        IF n = 0 THEN {}
        ELSE IF n \in Clear(r) /\ \A i \in upTo[n - 1] : ~Clash(r.rows[i], r.rows[n])
          THEN upTo[n - 1] \cup {n}
        ELSE upTo[n - 1]
  IN upTo[Len(r.rows)]

(* Enrolments are collected by roll number while the rows are checked: the  *)
(* last clear row that names batches has its way.                           *)
Enrolment(r, code) ==
  LET naming == {i \in Clear(r) : r.rows[i].code = code /\ r.rows[i].batches # {}}
  IN IF naming = {} THEN {}
     ELSE r.rows[CHOOSE i \in naming : \A j \in naming : j <= i].batches

RowOf(r, code) == r.rows[CHOOSE i \in Valid(r) : r.rows[i].code = code]
Inserted(r) ==
  [c \in {r.rows[i].code : i \in Valid(r)} |-> [card |-> RowOf(r, c).card, batches |-> Enrolment(r, c)]]

(* The unique constraints on roll number and card. *)
Conflicts(new) ==
  \E c \in DOMAIN new : c \in Admitted \/ \E d \in Admitted : students[d].card = new[c].card

(* The answer; that of a dry run has the rows that would be admitted.       *)
Done(r) == [Idle EXCEPT !.phase = "done", !.rows = r.rows, !.dryRun = r.dryRun, !.created = Valid(r)]

Write_SkipConflicts(q) ==
  LET new == Inserted(req[q])
      fresh == {c \in DOMAIN new : c \notin Admitted /\ \A d \in Admitted : students[d].card # new[c].card}
  IN /\ req[q].phase = "writing" /\ ~req[q].dryRun
     /\ students' = [c \in Code |-> IF c \in fresh THEN new[c] ELSE students[c]]
     /\ req' = [req EXCEPT ![q] = Done(@)]

(* The transaction: all of the valid rows, or the request fails.            *)
Write(q) ==
  LET new == Inserted(req[q])
  IN /\ req[q].phase = "writing"
     /\ IF req[q].dryRun THEN
          /\ UNCHANGED students
          /\ req' = [req EXCEPT ![q] = Done(@)]
        ELSE IF Conflicts(new) THEN
          /\ UNCHANGED students
          /\ req' = [req EXCEPT ![q] = Idle]
        ELSE
          /\ students' = [c \in Code |-> IF c \in DOMAIN new THEN new[c] ELSE students[c]]
          /\ req' = [req EXCEPT ![q] = Done(@)]

(* The process stops or the transaction times out.                          *)
Fail(q) ==
  /\ req[q].phase \in {"reading", "writing"}
  /\ req' = [req EXCEPT ![q] = Idle]
  /\ UNCHANGED students

(* The answer is lost, or has been read; either way the file may be sent again. *)
Forget(q) ==
  /\ req[q].phase = "done"
  /\ req' = [req EXCEPT ![q] = Idle]
  /\ UNCHANGED students

Next == \E q \in Request :
  \/ \E rows \in File, dryRun \in BOOLEAN : Upload(q, rows, dryRun)
  \/ ReadKeys(q) \/ Write(q) \/ Fail(q) \/ Forget(q)

Spec == Init /\ [][Next]_vars

-----------------------------------------------------------------------------
(* No two students share a card; requests are well formed.                 *)
TypeOK ==
  /\ students \in [Code -> {None} \cup [card : Card, batches : SUBSET Batch]]
  /\ \A c, d \in Admitted : c # d => students[c].card # students[d].card
  /\ \A q \in Request : req[q].rows \in File \cup {<<>>} /\ req[q].created \subseteq DOMAIN req[q].rows

(* An upload admits exactly the students it reports as created, each with   *)
(* the card of its row, and changes nobody admitted before, although other  *)
(* uploads may have taken a roll number since it looked; a dry run admits   *)
(* nobody.                                                                  *)
AdmitsWhatItReports ==
  [][\A q \in Request : req'[q].phase = "done" /\ req[q].phase # "done" =>
       LET rows == req[q].rows  created == req'[q].created
       IN \A c \in Code :
            IF ~req[q].dryRun /\ \E i \in created : rows[i].code = c
              THEN /\ students[c] = None /\ students'[c] # None
                   /\ \E i \in created : rows[i].code = c /\ students'[c].card = rows[i].card
              ELSE students'[c] = students[c]]_vars

(* Each student is enrolled in the batches of the row that admitted them:   *)
(* a row rejected as a duplicate has no effect of its own (the check of a   *)
(* row is "pure").                                                          *)
EnrolledAsReported ==
  \A q \in Request : req[q].phase = "done" /\ ~req[q].dryRun =>
    \A i \in req[q].created : students[req[q].rows[i].code].batches = req[q].rows[i].batches
=============================================================================
