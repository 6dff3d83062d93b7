----------------------------- MODULE FeeLedger -----------------------------
(***************************************************************************)
(* Students, batches, invoices and payments of the front end's local-first *)
(* store (frontend/src/store/dataStore.ts) and the payment form that       *)
(* drives it.  Every store action is synchronous, so it is one step; but   *)
(* each browser tab works on the copy it loaded and writes the whole copy  *)
(* back, and nothing tells a tab what another one wrote.                   *)
(*                                                                         *)
(* Money is counted in tens, the unit fees are rounded to.  A period is a  *)
(* month, numbered from the first.  A student or a batch is active or not: *)
(* the ledger makes no other difference between their statuses.  An        *)
(* invoice's id "INV-yymm-nnnn" is its period and its number.              *)
(* Op_Fault is Op with one fault, to show that a property depends on Op.   *)
(***************************************************************************)
EXTENDS Naturals, FiniteSets, FiniteSetsExt, Functions

CONSTANTS
  Tab,            \* browser tabs open on the institute
  Batch,          \* ids of batches: uids, numbered in the order a student lists them
  Fees,           \* monthly fees a batch may have
  Concessions,    \* concessions a student may have, in percent
  ByScreen,       \* TRUE: only the store actions some screen calls
  LastPeriod,     \* bound: months that pass
  MaxStudents, MaxInvoices, MaxPayments      \* bounds on ids and records

ASSUME BoundsGiven == /\ LastPeriod \in Nat /\ MaxStudents \in Nat
                      /\ MaxInvoices \in Nat /\ MaxPayments \in Nat
ASSUME BatchesOrdered == Batch \subseteq Nat
ASSUME PricesGiven == Fees \subseteq Nat /\ Concessions \subseteq 0..100
ASSUME ByScreenGiven == ByScreen \in BOOLEAN

Period == 0..LastPeriod
discountedFee(fee, pct) == (fee * (100 - pct) + 50) \div 100

Student == [active : BOOLEAN, batches : SUBSET Batch, concession : Concessions]
BatchRow == [active : BOOLEAN, fee : Fees]
Invoice == [no : Nat \ {0}, period : Period, student : 1..MaxStudents, batch : Batch,
            amount : Nat, waived : BOOLEAN]
Payment == [receipt : Nat \ {0}, no : Nat \ {0}, period : Period,
            student : 1..MaxStudents, amount : Nat \ {0}]

VARIABLES
  view,       \* the copy of the institute each tab works on
  stored,     \* the copy in local storage
  now,        \* the current month
  numbered,   \* history: ids of every invoice ever issued
  repeated,   \* history: ids issued to two invoices
  receipts    \* history: every payment a receipt was shown for

vars == <<view, stored, now, numbered, repeated, receipts>>

EmptyInstitute == [students |-> <<>>, batches |-> <<>>, invoices |-> {}, payments |-> {}]

Id(i) == <<i.period, i.no>>
Entry(i) == <<i.period, i.no, i.student, i.batch>>
Highest(S) == Max(S \cup {0})
LastNumber(db) == Highest({i.no : i \in db.invoices})
LastReceipt(db) == Highest({p.receipt : p \in db.payments})
NextStudent(db) == Highest(DOMAIN db.students) + 1

Paid(db, i) == MapThenSumSet(LAMBDA p : p.amount, {p \in db.payments : Id(p) = Id(i)})
Balance(db, i) ==
  IF i.waived \/ Paid(db, i) >= i.amount THEN 0 ELSE i.amount - Paid(db, i)
Billed(db, s, b, period) ==
  \E i \in db.invoices : i.student = s /\ i.batch = b /\ i.period = period

(* One invoice for each <<student, batch>>, in the order of the roster and   *)
(* numbered on from the last.                                              *)
NewInvoices(db, pairs, period) ==
  LET Rank(s, b) == Cardinality({q \in pairs : q[1] < s \/ (q[1] = s /\ q[2] <= b)})
      Bill(s, b) == [no |-> LastNumber(db) + Rank(s, b), period |-> period,
                     student |-> s, batch |-> b, waived |-> FALSE,
                     amount |-> discountedFee(db.batches[b].fee, db.students[s].concession)]
  IN  {Bill(pair[1], pair[2]) : pair \in pairs}

Admit_Again(db, s, joined, period) ==
  LET pairs == {s} \X {b \in joined \cap DOMAIN db.batches : db.batches[b].active}
  IN  [db EXCEPT !.invoices = @ \cup NewInvoices(db, pairs, period)]

(* admissionInvoices, on a copy that holds the student already. *)
Admit(db, s, joined, period) ==
  LET pairs == {s} \X {b \in joined \cap DOMAIN db.batches :
                        db.batches[b].active /\ ~Billed(db, s, b, period)}
  IN  [db EXCEPT !.invoices = @ \cup NewInvoices(db, pairs, period)]

(* A store action: the tab's copy becomes db and is saved whole. *)
Save(t, db) ==
  LET fresh == {i \in db.invoices : Entry(i) \notin {Entry(j) : j \in view[t].invoices}}
      clash == {i \in fresh : \/ Id(i) \in numbered
                              \/ \E j \in fresh : j # i /\ Id(j) = Id(i)}
  IN  /\ Cardinality(db.invoices) <= MaxInvoices /\ Cardinality(db.payments) <= MaxPayments
      /\ view' = [view EXCEPT ![t] = db]
      /\ stored' = db
      /\ numbered' = numbered \cup {Id(i) : i \in fresh}
      /\ repeated' = repeated \cup {Id(i) : i \in clash}
      /\ receipts' = receipts \cup (db.payments \ view[t].payments)
      /\ now' = now

PutStudent(db, s, student) ==
  [db EXCEPT !.students = [x \in (DOMAIN @) \cup {s} |-> IF x = s THEN student ELSE @[x]]]
PutBatch(db, b, batch) ==
  [db EXCEPT !.batches = [x \in (DOMAIN @) \cup {b} |-> IF x = b THEN batch ELSE @[x]]]

Init ==
  /\ view = [t \in Tab |-> EmptyInstitute] /\ stored = EmptyInstitute
  /\ now = 0 /\ numbered = {} /\ repeated = {} /\ receipts = {}

(* Admission: joined this month, earlier, or later (billed this month).     *)
AddStudent(t, student, period) ==
  LET s == NextStudent(view[t])
      db == PutStudent(view[t], s, student)
  IN  /\ s <= MaxStudents
      /\ student.batches \subseteq DOMAIN db.batches
      /\ Save(t, IF student.active THEN Admit(db, s, student.batches, period) ELSE db)

(* issue is FALSE when a removal from a batch is undone. *)
UpdateStudent(t, s, student, issue) ==
  LET db == PutStudent(view[t], s, student)
      added == student.batches \ view[t].students[s].batches
  IN  /\ student.batches \subseteq DOMAIN db.batches
      /\ Save(t, IF student.active /\ issue THEN Admit(db, s, added, now) ELSE db)

SetStudentsStatus(t, ids, active) ==
  Save(t, [view[t] EXCEPT !.students =
             [s \in DOMAIN @ |-> IF s \in ids THEN [@[s] EXCEPT !.active = active] ELSE @[s]]])

DeleteStudents(t, ids) ==
  LET db == view[t]
  IN  /\ ~ByScreen
      /\ Save(t, [students |-> [s \in (DOMAIN db.students) \ ids |-> db.students[s]],
                  batches |-> db.batches,
                  invoices |-> {i \in db.invoices : i.student \notin ids},
                  payments |-> {p \in db.payments : p.student \notin ids}])

AddBatch(t, b, batch) ==
  /\ \A u \in Tab : b \notin DOMAIN view[u].batches
  /\ b \notin DOMAIN stored.batches
  /\ Save(t, PutBatch(view[t], b, batch))

(* archiveBatch is the update to inactive that keeps the fee. *)
UpdateBatch(t, b, batch) == Save(t, PutBatch(view[t], b, batch))

(* Every enrolment of an active student in an active batch, once a month.   *)
Unbilled(db, period) ==
  {pair \in (DOMAIN db.students) \X (DOMAIN db.batches) :
     LET s == pair[1]  b == pair[2]
     IN  /\ db.students[s].active /\ b \in db.students[s].batches
         /\ db.batches[b].active /\ ~Billed(db, s, b, period)}
IssueInvoices(t, period) ==
  /\ Unbilled(view[t], period) # {}
  /\ Save(t, [view[t] EXCEPT !.invoices =
                @ \cup NewInvoices(view[t], Unbilled(view[t], period), period)])

AddInvoice(t, s, b, period) ==
  /\ ~ByScreen
  /\ Save(t, [view[t] EXCEPT !.invoices = @ \cup NewInvoices(view[t], {<<s, b>>}, period)])

WaiveInvoice(t, i) ==
  Save(t, [view[t] EXCEPT !.invoices = (@ \ {i}) \cup {[i EXCEPT !.waived = ~@]}])

(* The payment form: unpaid invoices of one student, settled oldest first.  *)
OldestFirst(due) ==
  {order \in Bijection(1..Cardinality(due), due) :
     \A j, k \in DOMAIN order : j < k => order[j].period <= order[k].period}
allocate(db, order, amount) ==
  [k \in DOMAIN order |->
     LET before == MapThenSumSet(LAMBDA j : Balance(db, order[j]), 1..(k - 1))
     IN  IF amount <= before THEN 0 ELSE Min({amount - before, Balance(db, order[k])})]
Receipt(db, i, rank, amount) ==
  [receipt |-> LastReceipt(db) + rank, no |-> i.no, period |-> i.period,
   student |-> i.student, amount |-> amount]
Settled_All(part) == DOMAIN part
Settled(part) == {k \in DOMAIN part : part[k] > 0}
RecordPayments_Replace(t, order, part) ==
  LET db == view[t]
  IN  Save(t, [db EXCEPT !.payments =
                 {p \in @ : \A k \in DOMAIN part : Id(p) # Id(order[k])}
                   \cup {Receipt(db, order[k], k, part[k]) : k \in Settled(part)}])
RecordPayments(t, order, part) ==
  LET db == view[t]
  IN  Save(t, [db EXCEPT !.payments =
                 @ \cup {Receipt(db, order[k], k, part[k]) : k \in Settled(part)}])

TotalDue(db, due) == MapThenSumSet(LAMBDA i : Balance(db, i), due)
Pay(t) ==
  \E s \in DOMAIN view[t].students :
    \E due \in (SUBSET {i \in view[t].invoices : i.student = s /\ Balance(view[t], i) > 0}) \ {{}} :
      \E order \in OldestFirst(due), amount \in 1..TotalDue(view[t], due) :
        RecordPayments(t, order, allocate(view[t], order, amount))

Reload(t) ==
  /\ view' = [view EXCEPT ![t] = stored]
  /\ UNCHANGED <<stored, now, numbered, repeated, receipts>>

MonthPasses ==
  /\ now < LastPeriod /\ now' = now + 1
  /\ UNCHANGED <<view, stored, numbered, repeated, receipts>>

Next ==
  \/ MonthPasses
  \/ \E t \in Tab :
       \/ Reload(t) \/ Pay(t)
       \/ \E student \in Student :
            \/ \E period \in 0..now : AddStudent(t, student, period)
            \/ \E s \in DOMAIN view[t].students, issue \in BOOLEAN :
                 UpdateStudent(t, s, student, issue)
       \/ \E ids \in (SUBSET DOMAIN view[t].students) \ {{}} :
            \/ \E active \in BOOLEAN : SetStudentsStatus(t, ids, active)
            \/ DeleteStudents(t, ids)
       \/ \E b \in Batch, batch \in BatchRow : AddBatch(t, b, batch)
       \/ \E b \in DOMAIN view[t].batches, batch \in BatchRow : UpdateBatch(t, b, batch)
       \/ \E period \in Period : period <= now + 1 /\ IssueInvoices(t, period)
       \/ \E s \in DOMAIN view[t].students, b \in DOMAIN view[t].batches, period \in Period :
            AddInvoice(t, s, b, period)
       \/ \E i \in view[t].invoices : WaiveInvoice(t, i)

Spec == Init /\ [][Next]_vars

-----------------------------------------------------------------------------
(* PROPERTIES *)

WellFormed(db) ==
  /\ DOMAIN db.students \subseteq 1..MaxStudents /\ DOMAIN db.batches \subseteq Batch
  /\ \A s \in DOMAIN db.students :
       db.students[s] \in Student /\ db.students[s].batches \subseteq DOMAIN db.batches
  /\ \A b \in DOMAIN db.batches : db.batches[b] \in BatchRow
  /\ db.invoices \subseteq Invoice /\ db.payments \subseteq Payment

(* Types; a student is enrolled only in batches the institute has, in every *)
(* tab and in what is saved.                                               *)
TypeOK ==
  /\ WellFormed(stored) /\ \A t \in Tab : WellFormed(view[t])
  /\ now \in Period /\ repeated \subseteq numbered
  /\ numbered \subseteq Period \X (Nat \ {0}) /\ receipts \subseteq Payment

(* Admission, re-enrolment, monthly issue and re-activation together never  *)
(* bill one student for one batch twice in a month.                        *)
NoDoubleBilling ==
  \A i, j \in stored.invoices :
    (i.student = j.student /\ i.batch = j.batch /\ i.period = j.period) => i = j

(* Payments, spread over several invoices and interrupted by waivers and    *)
(* reinstatements, never exceed what an invoice asks for.                  *)
NeverOverpaid == \A i \in stored.invoices : Paid(stored, i) <= i.amount

(* No two invoices or payments on file share a number, whatever was deleted *)
(* before.                                                                 *)
NumbersUnique ==
  /\ \A i, j \in stored.invoices : i.no = j.no => i = j
  /\ \A p, q \in stored.payments : p.receipt = q.receipt => p = q

(* "Invoice numbers keep counting up even after records are deleted, so     *)
(* they never repeat."                                                     *)
NumbersNeverRepeat == repeated = {}

(* A payment a receipt was shown for stays on file.                         *)
ReceiptsKept == receipts \subseteq stored.payments

(* The number of a record on file is its own, nobody has paid more than is   *)
(* due, and where the screens are used in one tab, a payment that a receipt *)
(* was shown for stays.                                                    *)
ReceiptsStand ==
  /\ NumbersUnique /\ NeverOverpaid
  /\ ByScreen /\ (\A t, u \in DOMAIN view : t = u) => ReceiptsKept
=============================================================================
