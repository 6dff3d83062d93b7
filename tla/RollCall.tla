------------------------------ MODULE RollCall ------------------------------
(***************************************************************************)
(* The class attendance page of the web app: a teacher marks a draft of one *)
(* batch's register on one date, and saves it over the register in the      *)
(* store.  The draft is filled when the page opens and never again, while   *)
(* the roll follows the store: a student can be admitted from the page's    *)
(* own forms, and an Undo button from another page may still be pressed.    *)
(*                                                                         *)
(* Notes, and the topics taught, are left out (Syllabus has the topics).    *)
(* One campus is in view; L, late, behaves as P and stands for it too.      *)
(* Op_Fault is Op with one fault, to show that a property depends on Op.    *)
(***************************************************************************)
EXTENDS FiniteSets, Naturals, Functions

CONSTANTS
  Student, Batch,
  Date, Today,       \* a register can be marked up to today
  MaxToasts,         \* bound on the Undo buttons shown at once
  None

Mark == {"P", "A", "E"}
StudentStatus == {"Active", "On Leave", "Inactive"}
Profile == [batches : SUBSET Batch, status : StudentStatus, joined : Date]

VARIABLES
  students,    \* the profile of each admitted student
  register,    \* the saved records of each batch and date
  page,        \* the roll call on screen and its draft
  toasts       \* the Undo buttons on screen: a profile to put back

vars == <<students, register, page, toasts>>

Admitted == DOMAIN students
Registers == Batch \X Date

RollFor(b, d) ==
  {s \in Admitted : /\ b \in students[s].batches
                    /\ students[s].status # "Inactive"
                    /\ students[s].joined <= d}

Recorded(b, d) == IF register[<<b, d>>] = None THEN {} ELSE DOMAIN register[<<b, d>>]

Roll_Current(b, d) == RollFor(b, d)
(* The current roll, and everyone recorded who has left the batch since.   *)
Roll(b, d) == RollFor(b, d) \cup (Recorded(b, d) \cap Admitted)

(* What is saved, or the defaults of a new register. *)
Baseline(b, d) ==
  IF register[<<b, d>>] # None THEN register[<<b, d>>]
  ELSE [s \in {x \in Roll(b, d) : students[x].status = "On Leave"} |-> "E"]

Dirty == page # None /\ page.marks # Baseline(page.batch, page.date)
Unmarked == Roll(page.batch, page.date) \ DOMAIN page.marks
Editing == page # None /\ page.date <= Today

Init ==
  /\ students = [s \in {} |-> None]
  /\ register = [r \in Registers |-> None]
  /\ page = None
  /\ toasts = {}

(* The page is keyed by batch and date: choosing another starts a new draft, *)
(* once the user has agreed to discard an unsaved one.                       *)
Open(b, d) ==
  /\ page' = [batch |-> b, date |-> d, marks |-> Baseline(b, d)]
  /\ UNCHANGED <<students, register, toasts>>
Leave == page # None /\ page' = None /\ UNCHANGED <<students, register, toasts>>

SetMarks(marks) == page' = [page EXCEPT !.marks = marks] /\ UNCHANGED <<students, register, toasts>>

SetMark(s, m) ==
  /\ Editing /\ s \in Roll(page.batch, page.date)
  /\ SetMarks([x \in DOMAIN page.marks \cup {s} |-> IF x = s THEN m ELSE page.marks[x]])

MarkRestPresent ==
  /\ Editing /\ Unmarked # {}
  /\ SetMarks([x \in DOMAIN page.marks \cup Unmarked |-> IF x \in Unmarked THEN "P" ELSE page.marks[x]])

Reset == Editing /\ Dirty /\ SetMarks(Baseline(page.batch, page.date))

(* What a save writes: the roll, with the unmarked left out or absent. *)
Records(fill) ==
  LET roll == Roll(page.batch, page.date)
      kept == IF fill = None THEN roll \cap DOMAIN page.marks ELSE roll
  IN [s \in kept |-> IF s \in DOMAIN page.marks THEN page.marks[s] ELSE fill]

Save(fill) ==
  LET saved == Records(fill)
  IN /\ Editing /\ Roll(page.batch, page.date) # {}
     /\ Dirty \/ register[<<page.batch, page.date>>] = None
     /\ IF Unmarked = {} THEN fill = None
        ELSE fill # None \/ Roll(page.batch, page.date) # Unmarked
     /\ register' = [register EXCEPT ![<<page.batch, page.date>>] = saved]
     /\ page' = [page EXCEPT !.marks = saved]
     /\ UNCHANGED <<students, toasts>>

(* The admission form opens over any page. *)
Admit(s, profile) ==
  /\ s \notin Admitted
  /\ students' = [x \in Admitted \cup {s} |-> IF x = s THEN profile ELSE students[x]]
  /\ UNCHANGED <<register, page, toasts>>

(* The other screens that change who is on a roll are not this page: the    *)
(* profile form, and one-click changes that leave an Undo button.           *)
UpdateStudent(s, profile) == students' = [students EXCEPT ![s] = profile]

EditStudent(s, profile) ==
  /\ page = None /\ s \in Admitted
  /\ UpdateStudent(s, profile)
  /\ UNCHANGED <<register, page, toasts>>

ShowUndo(s, field) ==
  /\ Cardinality(toasts) < MaxToasts
  /\ toasts' = toasts \cup {[student |-> s, field |-> field, value |-> students[s][field]]}

SetStatus(s, st) ==
  /\ page = None /\ s \in Admitted /\ students[s].status # st
  /\ UpdateStudent(s, [students[s] EXCEPT !.status = st])
  /\ ShowUndo(s, "status")
  /\ UNCHANGED <<register, page>>

RemoveFromBatch(s, b) ==
  /\ page = None /\ s \in Admitted
  /\ b \in students[s].batches /\ students[s].status # "Inactive"
  /\ UpdateStudent(s, [students[s] EXCEPT !.batches = @ \ {b}])
  /\ ShowUndo(s, "batches")
  /\ UNCHANGED <<register, page>>

Undo(t) ==
  /\ t \in toasts
  /\ UpdateStudent(t.student, [students[t.student] EXCEPT ![t.field] = t.value])
  /\ toasts' = toasts \ {t}
  /\ UNCHANGED <<register, page>>

Dismiss(t) == toasts' = toasts \ {t} /\ UNCHANGED <<students, register, page>>

Next ==
  \/ \E b \in Batch, d \in Date : Open(b, d)
  \/ Leave \/ MarkRestPresent \/ Reset
  \/ \E fill \in {None, "A"} : Save(fill)
  \/ \E s \in Student :
       \/ \E m \in Mark : SetMark(s, m)
       \/ \E p \in Profile : Admit(s, p) \/ EditStudent(s, p)
       \/ \E st \in StudentStatus : SetStatus(s, st)
       \/ \E b \in Batch : RemoveFromBatch(s, b)
  \/ \E t \in toasts : Undo(t) \/ Dismiss(t)

Spec == Init /\ [][Next]_vars

-----------------------------------------------------------------------------
(* The draft and the registers hold marks of admitted students. *)
TypeOK ==
  /\ Admitted \subseteq Student /\ \A s \in Admitted : students[s] \in Profile
  /\ \A r \in Registers : register[r] # None =>
       DOMAIN register[r] \subseteq Admitted /\ Range(register[r]) \subseteq Mark
  /\ page # None => /\ <<page.batch, page.date>> \in Registers
                    /\ DOMAIN page.marks \subseteq Admitted
                    /\ Range(page.marks) \subseteq Mark
  /\ Cardinality(toasts) <= MaxToasts

(* Saving a register again never drops a student recorded in it, though     *)
(* they may have left the batch, gone inactive or moved their joining date  *)
(* ("editing an old session must never silently drop their record").        *)
RecordsKept ==
  [][\A r \in Registers : register[r] # None =>
       register'[r] # None /\ DOMAIN register[r] \subseteq DOMAIN register'[r]]_vars

=============================================================================
