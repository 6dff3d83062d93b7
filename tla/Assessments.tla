----------------------------- MODULE Assessments -----------------------------
(***************************************************************************)
(* The assessment form of the web app (features/performance): a draft of a  *)
(* paper's date, maximum and marks, saved over the assessment in the store. *)
(* The draft is filled when the form opens, while the roll it is checked    *)
(* against follows the date typed and the store: RollCall says who is on a  *)
(* roll; here only since which date each student is on a batch's roll.     *)
(*                                                                         *)
(* Titles, types, topics and the start of the batch (which only narrows the *)
(* dates of an assessment) are left out.                                    *)
(* Op_Fault is Op with one fault, to show that a property depends on Op.    *)
(***************************************************************************)
EXTENDS FiniteSets, Naturals

CONSTANTS
  Student, Batch,
  Result,            \* ids of assessments
  Date, Today,
  Maximum,           \* what may be typed as maximum marks
  Mark,              \* what may be typed as marks
  MaxToasts,         \* bound on the Undo buttons shown at once
  Absent, Blank,     \* a student marked absent; an empty marks box
  None

Entry == Mark \cup {Absent, Blank}

VARIABLES
  since,       \* the date from which a student is on a batch's roll, or None
  results,     \* the assessment of each id, or None
  form,        \* the form on screen, None when closed
  toasts       \* Undo buttons: a deleted assessment

vars == <<since, results, form, toasts>>

RollFor(b, d) == {s \in Student : since[s, b] # None /\ since[s, b] <= d}
Scored(id) == IF id = None THEN {} ELSE DOMAIN results[id].scores

Roll_Current(f) == IF f.batch = None THEN {} ELSE RollFor(f.batch, f.date)
(* Who sits the paper: the roll on its date, and anyone already scored.    *)
Roll(f) == IF f.batch = None THEN {} ELSE RollFor(f.batch, f.date) \cup Scored(f.id)

ScoreFits_AnyNumber(entry, max) == entry # Blank
ScoreFits(entry, max) == entry = Absent \/ entry \in {m \in Mark : m <= max}

Init ==
  /\ since = [p \in Student \X Batch |-> None]
  /\ results = [id \in Result |-> None]
  /\ form = None
  /\ toasts = {}

Blanks == [s \in Student |-> Blank]

(* A new paper starts with the batch of the page it is opened from, or none. *)
OpenNew(b) ==
  /\ form = None
  /\ \E d \in Date, max \in Maximum :
       form' = [id |-> None, batch |-> b, date |-> d, max |-> max, entries |-> Blanks]
  /\ UNCHANGED <<since, results, toasts>>

OpenEdit(id) ==
  /\ form = None /\ results[id] # None
  /\ LET r == results[id]
     IN form' = [id |-> id, batch |-> r.batch, date |-> r.date, max |-> r.max,
                 entries |-> [s \in Student |-> IF s \in DOMAIN r.scores THEN r.scores[s] ELSE Blank]]
  /\ UNCHANGED <<since, results, toasts>>

Close == form # None /\ form' = None /\ UNCHANGED <<since, results, toasts>>

Typing == form # None /\ UNCHANGED <<since, results, toasts>>

(* A recorded assessment stays with its batch; another batch starts afresh. *)
ChangeBatch(b) ==
  /\ Typing /\ form.id = None
  /\ form' = [form EXCEPT !.batch = b, !.entries = Blanks]
ChangeDate(d) == Typing /\ form' = [form EXCEPT !.date = d]
ChangeMax(max) == Typing /\ form' = [form EXCEPT !.max = max]
PatchScore(s, entry) ==
  /\ Typing /\ s \in Roll(form)
  /\ form' = [form EXCEPT !.entries[s] = entry]
MarkRestAbsent ==
  /\ Typing
  /\ form' = [form EXCEPT !.entries =
       [s \in Student |-> IF s \in Roll(form) /\ @[s] = Blank THEN Absent ELSE @[s]]]

Payload(f) ==
  [batch |-> f.batch, date |-> f.date, max |-> f.max,
   scores |-> [s \in Roll(f) |-> f.entries[s]]]

(* onSubmit: every student on the roll has marks within the maximum, or is  *)
(* absent; an edit replaces the assessment, a new paper takes a fresh id.    *)
Submit(id) ==
  /\ form # None
  /\ form.batch # None /\ form.date <= Today /\ Roll(form) # {}
  /\ \A s \in Roll(form) : ScoreFits(form.entries[s], form.max)
  /\ IF form.id = None THEN results[id] = None ELSE id = form.id
  /\ results' = [results EXCEPT ![id] = Payload(form)]
  /\ form' = None
  /\ UNCHANGED <<since, toasts>>

(* The results dialog deletes an assessment; Undo records it again, under a  *)
(* fresh id.                                                                 *)
Delete(id) ==
  /\ form = None /\ results[id] # None
  /\ Cardinality(toasts) < MaxToasts
  /\ toasts' = toasts \cup {results[id]}
  /\ results' = [results EXCEPT ![id] = None]
  /\ UNCHANGED <<since, form>>

Undo(t, id) ==
  /\ t \in toasts /\ results[id] = None
  /\ results' = [results EXCEPT ![id] = t]
  /\ toasts' = toasts \ {t}
  /\ UNCHANGED <<since, form>>

Dismiss(t) == toasts' = toasts \ {t} /\ UNCHANGED <<since, results, form>>

(* Students join, leave and come back by other screens and their Undos.     *)
ChangeRoll(s, b, from) ==
  /\ since' = [since EXCEPT ![<<s, b>>] = from]
  /\ UNCHANGED <<results, form, toasts>>

Next ==
  \/ \E b \in Batch \cup {None} : OpenNew(b)
  \/ \E id \in Result : OpenEdit(id) \/ Submit(id) \/ Delete(id)
  \/ Close \/ MarkRestAbsent
  \/ \E b \in Batch : ChangeBatch(b)
  \/ \E d \in Date : ChangeDate(d)
  \/ \E max \in Maximum : ChangeMax(max)
  \/ \E s \in Student :
       \/ \E entry \in Entry : PatchScore(s, entry)
       \/ \E b \in Batch, from \in Date \cup {None} : ChangeRoll(s, b, from)
  \/ \E t \in toasts : Dismiss(t) \/ \E id \in Result : Undo(t, id)

Spec == Init /\ [][Next]_vars

-----------------------------------------------------------------------------
Assessment ==
  [batch : Batch, date : Date, max : Maximum,
   scores : UNION {[S -> Mark \cup {Absent}] : S \in SUBSET Student}]

(* An assessment is complete: somebody sat it, by today, and everyone has    *)
(* marks within its own maximum or is absent.                               *)
TypeOK ==
  /\ \A id \in Result : results[id] # None =>
       /\ results[id] \in Assessment /\ results[id].date <= Today
       /\ DOMAIN results[id].scores # {}
       /\ \A s \in DOMAIN results[id].scores :
            results[id].scores[s] # Absent => results[id].scores[s] <= results[id].max
  /\ toasts \subseteq Assessment

(* Saving a paper again never drops a student it has scored, whatever date   *)
(* is typed and whoever left the batch or went inactive meanwhile.          *)
ScoresKept ==
  [][\A id \in Result : results[id] # None /\ results'[id] # None =>
       DOMAIN results[id].scores \subseteq DOMAIN results'[id].scores]_vars
=============================================================================
