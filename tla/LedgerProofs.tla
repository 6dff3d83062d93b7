---------------------------- MODULE LedgerProofs ----------------------------
(***************************************************************************)
(* Theorems about FeeLedger, for every roster, price list and number of     *)
(* months and browser tabs: nobody is billed twice for a month, where only *)
(* the operations the screens call are used (ByScreen); the numbers of      *)
(* invoices and payments on file are distinct; nobody pays more than is     *)
(* due; and one tab loses no receipt.  And the sums over finite sets that   *)
(* ScreensProofs needs too.                                                 *)
(***************************************************************************)
EXTENDS FeeLedger, FiniteSetTheorems, WellFoundedInduction, TLAPS

-----------------------------------------------------------------------------
(* Sums over finite sets.  The folds of the community modules take an       *)
(* operator, which the provers cannot; SumOf adds up a function in the same *)
(* order, so that each fold of FeeLedger can be shown to be one.  The facts *)
(* are proved by taking a smallest set they fail for.                       *)
Pick(s) == CHOOSE x \in s : TRUE
AddsUp(f, S, sum) ==
  sum = [s \in SUBSET S |-> IF s = {} THEN 0 ELSE f[Pick(s)] + sum[s \ {Pick(s)}]]
SumOf(f, S) == (CHOOSE sum : AddsUp(f, S, sum))[S]

(* The element a fold takes first is one. *)
LEMMA PickIn == \A s : s # {} => Pick(s) \in s
  BY DEF Pick

(* Among the subsets of a finite set that have a property one is smallest. *)
LEMMA SmallestSubset ==
  ASSUME NEW S, IsFiniteSet(S), NEW Bad \in SUBSET (SUBSET S), Bad # {}
  PROVE  \E T \in Bad : \A U \in Bad : U \subseteq T => U = T
<1>1. IsWellFoundedOn(StrictSubsetOrdering(S), SUBSET S)
  BY FS_StrictSubsetOrderingWellFounded, FS_FiniteSubsetsOfFinite
<1>2. PICK T \in Bad : \A U \in Bad : <<U, T>> \notin StrictSubsetOrdering(S)
  BY <1>1, WFMin
<1>3. QED BY <1>2 DEF StrictSubsetOrdering

(* What adds up a set adds up its subsets, and there is one way to do so.  *)
LEMMA AddsUpUnique ==
  ASSUME NEW f, NEW A, IsFiniteSet(A), NEW B, NEW g, AddsUp(f, A, g), NEW h, AddsUp(f, B, h)
  PROVE  \A s \in SUBSET (A \cap B) : g[s] = h[s]
<1> DEFINE Bad == {s \in SUBSET (A \cap B) : g[s] # h[s]}
<1> SUFFICES ASSUME Bad # {} PROVE FALSE
  OBVIOUS
<1>0. Bad \in SUBSET (SUBSET A)
  OBVIOUS
<1> HIDE DEF Bad
<1>1. PICK T \in Bad : \A U \in Bad : U \subseteq T => U = T
  BY <1>0, SmallestSubset
<1> USE DEF Bad
<1>2. /\ g[T] = IF T = {} THEN 0 ELSE f[Pick(T)] + g[T \ {Pick(T)}]
      /\ h[T] = IF T = {} THEN 0 ELSE f[Pick(T)] + h[T \ {Pick(T)}]
  BY DEF AddsUp
<1>3. T # {}
  BY <1>2
<1>4. T \ {Pick(T)} \notin Bad
  BY <1>1, <1>3, PickIn
<1>5. QED BY <1>2, <1>3, <1>4

(* A finite set can be added up. *)
LEMMA AddsUpExists ==
  ASSUME NEW f, NEW S, IsFiniteSet(S)
  PROVE  \E sum : AddsUp(f, S, sum)
<1> DEFINE Bad == {T \in SUBSET S : ~\E sum : AddsUp(f, T, sum)}
<1> SUFFICES ASSUME Bad # {} PROVE FALSE
  OBVIOUS
<1>0. Bad \in SUBSET (SUBSET S)
  OBVIOUS
<1> HIDE DEF Bad
<1>1. PICK T \in Bad : \A U \in Bad : U \subseteq T => U = T
  BY <1>0, SmallestSubset
<1> USE DEF Bad
<1> DEFINE part == [U \in SUBSET T |-> CHOOSE sum : AddsUp(f, U, sum)]
           whole == [U \in SUBSET T |-> IF U = {} THEN 0
                                        ELSE IF U = T THEN f[Pick(T)] + part[T \ {Pick(T)}][T \ {Pick(T)}]
                                        ELSE part[U][U]]
<1>2. \A U \in SUBSET T : U # T => AddsUp(f, U, part[U])
  BY <1>1
<1>3. \A U \in SUBSET T : IsFiniteSet(U)
  BY <1>1, FS_Subset
<1> HIDE DEF part
<1>4. ASSUME NEW U \in SUBSET T, U # {}
      PROVE  whole[U] = f[Pick(U)] + whole[U \ {Pick(U)}]
  <2> DEFINE V == U \ {Pick(U)}
  <2>1. V \in SUBSET T /\ V # U /\ V # T
    BY <1>4, PickIn
  <2>2. whole[V] = part[V][V]
    <3>1. AddsUp(f, V, part[V])
      BY <1>2, <2>1
    <3>2. V = {} => part[V][V] = 0
      BY <3>1 DEF AddsUp
    <3>3. QED BY <2>1, <3>2
  <2>3. CASE U = T
    BY <1>4, <2>2, <2>3
  <2>4. CASE U # T
    <3>1. AddsUp(f, U, part[U]) /\ AddsUp(f, V, part[V])
      BY <1>2, <2>1, <2>4
    <3>2. part[U][V] = part[V][V]
      BY <1>3, <3>1, AddsUpUnique
    <3>3. part[U][U] = f[Pick(U)] + part[U][V]
      BY <1>4, <3>1 DEF AddsUp
    <3>4. QED BY <1>4, <2>2, <2>4, <3>2, <3>3
  <2>5. QED BY <2>3, <2>4
<1>5. whole[{}] = 0
  OBVIOUS
<1>6. whole = [U \in SUBSET T |-> whole[U]]
  OBVIOUS
<1> HIDE DEF whole
<1>7. AddsUp(f, T, whole)
  BY <1>4, <1>5, <1>6 DEF AddsUp
<1>8. QED BY <1>1, <1>7

(* The sum of a set, taken apart as it is added up. *)
LEMMA SumSteps ==
  ASSUME NEW f, NEW S, IsFiniteSet(S)
  PROVE  SumOf(f, S) = IF S = {} THEN 0 ELSE f[Pick(S)] + SumOf(f, S \ {Pick(S)})
<1> DEFINE sum(T) == CHOOSE g : AddsUp(f, T, g)
           R == S \ {Pick(S)}
<1>1. IsFiniteSet(R)
  BY FS_Subset
<1>2. AddsUp(f, S, sum(S)) /\ AddsUp(f, R, sum(R))
  BY <1>1, AddsUpExists
<1>3. SumOf(f, S) = sum(S)[S] /\ SumOf(f, R) = sum(R)[R]
  BY DEF SumOf
<1> HIDE DEF sum
<1>4. sum(S)[R] = sum(R)[R]
  <2>1. R \in SUBSET (S \cap R)
    OBVIOUS
  <2>2. QED BY <1>2, <2>1, AddsUpUnique
<1>5. sum(S)[S] = IF S = {} THEN 0 ELSE f[Pick(S)] + sum(S)[R]
  BY <1>2 DEF AddsUp
<1>6. QED BY <1>3, <1>4, <1>5

(* Functions that agree on a set have the same sum. *)
LEMMA SumSame ==
  ASSUME NEW f, NEW g, NEW S, IsFiniteSet(S), \A x \in S : f[x] = g[x]
  PROVE  SumOf(f, S) = SumOf(g, S)
<1> DEFINE Bad == {T \in SUBSET S : SumOf(f, T) # SumOf(g, T)}
<1> SUFFICES ASSUME Bad # {} PROVE FALSE
  OBVIOUS
<1>0. Bad \in SUBSET (SUBSET S)
  OBVIOUS
<1> HIDE DEF Bad
<1>1. PICK T \in Bad : \A U \in Bad : U \subseteq T => U = T
  BY <1>0, SmallestSubset
<1> USE DEF Bad
<1>2. IsFiniteSet(T) /\ T \in SUBSET S
  BY <1>0, <1>1, FS_Subset
<1> DEFINE R == T \ {Pick(T)}
<1>3. /\ SumOf(f, T) = IF T = {} THEN 0 ELSE f[Pick(T)] + SumOf(f, R)
      /\ SumOf(g, T) = IF T = {} THEN 0 ELSE g[Pick(T)] + SumOf(g, R)
  BY <1>2, SumSteps
<1>4. T # {}
  BY <1>1, <1>3
<1>5. Pick(T) \in T /\ R \in SUBSET S /\ R # T
  BY <1>2, <1>4, PickIn
<1>6. R \notin Bad
  BY <1>1, <1>5
<1>7. SumOf(f, R) = SumOf(g, R)
  BY <1>5, <1>6
<1>8. QED BY <1>1, <1>2, <1>3, <1>4, <1>5, <1>7

(* A sum of natural numbers is one. *)
LEMMA SumNat ==
  ASSUME NEW f, NEW S, IsFiniteSet(S), \A x \in S : f[x] \in Nat
  PROVE  SumOf(f, S) \in Nat
<1> DEFINE Bad == {T \in SUBSET S : SumOf(f, T) \notin Nat}
<1> SUFFICES ASSUME Bad # {} PROVE FALSE
  OBVIOUS
<1>0. Bad \in SUBSET (SUBSET S)
  OBVIOUS
<1> HIDE DEF Bad
<1>1. PICK T \in Bad : \A U \in Bad : U \subseteq T => U = T
  BY <1>0, SmallestSubset
<1> USE DEF Bad
<1>2. IsFiniteSet(T) /\ T \in SUBSET S
  BY <1>0, <1>1, FS_Subset
<1> DEFINE R == T \ {Pick(T)}
<1>3. SumOf(f, T) = IF T = {} THEN 0 ELSE f[Pick(T)] + SumOf(f, R)
  BY <1>2, SumSteps
<1>4. T # {}
  BY <1>1, <1>3
<1>5. Pick(T) \in T /\ R \in SUBSET S /\ R # T
  BY <1>2, <1>4, PickIn
<1>6. R \notin Bad
  BY <1>1, <1>5
<1>7. SumOf(f, R) \in Nat
  BY <1>5, <1>6
<1>8. QED BY <1>1, <1>2, <1>3, <1>4, <1>5, <1>7

(* The order does not matter: any element may be added last. *)
LEMMA SumInsert ==
  ASSUME NEW f, NEW S, IsFiniteSet(S), NEW y, y \notin S,
         \A x \in S \cup {y} : f[x] \in Nat
  PROVE  SumOf(f, S \cup {y}) = SumOf(f, S) + f[y]
<1> DEFINE All == S \cup {y}
           Bad == {T \in SUBSET All :
                     \E z \in All \ T : SumOf(f, T \cup {z}) # SumOf(f, T) + f[z]}
<1>0. Bad \in SUBSET (SUBSET All) /\ IsFiniteSet(All)
  BY FS_AddElement
<1> SUFFICES ASSUME Bad # {} PROVE FALSE
  BY <1>0
<1> HIDE DEF Bad
<1>1. PICK T \in Bad : \A U \in Bad : U \subseteq T => U = T
  BY <1>0, SmallestSubset
<1>2. T \in SUBSET All
  BY <1>0, <1>1
<1>3. PICK z \in All \ T : SumOf(f, T \cup {z}) # SumOf(f, T) + f[z]
  BY <1>1 DEF Bad
<1> HIDE DEF All
<1> DEFINE W == T \cup {z}
           c == Pick(W)
<1>4. W \in SUBSET All /\ c \in W
  BY <1>2, <1>3, PickIn
<1>5. \A U \in SUBSET All : IsFiniteSet(U)
  BY <1>0, FS_Subset
<1>6. \A U \in SUBSET All : SumOf(f, U) \in Nat
  BY <1>5, SumNat DEF All
<1>7. SumOf(f, W) = f[c] + SumOf(f, W \ {c})
  BY <1>4, <1>5, SumSteps
<1>8. f[c] \in Nat /\ f[z] \in Nat
  BY <1>3, <1>4 DEF All
<1>9. CASE c = z
  <2>1. W \ {c} = T
    BY <1>3, <1>9
  <2>2. QED BY <1>2, <1>3, <1>6, <1>7, <1>8, <1>9, <2>1
<1>10. CASE c # z
  <2> DEFINE R == T \ {c}
  <2>1. c \in T /\ R \in SUBSET All /\ R # T /\ R \subseteq T /\ z \in All \ R /\ c \in All \ R
    BY <1>2, <1>3, <1>4, <1>10
  <2>2. R \notin Bad
    BY <1>1, <2>1
  <2>3. /\ SumOf(f, R \cup {z}) = SumOf(f, R) + f[z]
        /\ SumOf(f, R \cup {c}) = SumOf(f, R) + f[c]
    BY <2>1, <2>2 DEF Bad
  <2>4. W \ {c} = R \cup {z} /\ R \cup {c} = T
    BY <1>10, <2>1
  <2>5. SumOf(f, R) \in Nat
    BY <1>6, <2>1
  <2>6. SumOf(f, W) # SumOf(f, T) + f[z]
    BY <1>3
  <2> HIDE DEF W, c, R
  <2>7. SumOf(f, W) = f[c] + (SumOf(f, R) + f[z]) /\ SumOf(f, T) = SumOf(f, R) + f[c]
    BY <1>7, <2>3, <2>4
  <2>8. QED BY <1>8, <2>5, <2>6, <2>7
<1>11. QED BY <1>9, <1>10

-----------------------------------------------------------------------------

(* A copy of the institute, and the invoices in it, are records. *)
Shaped(db) ==
  /\ db = [students |-> db.students, batches |-> db.batches,
           invoices |-> db.invoices, payments |-> db.payments]
  /\ \A i \in db.invoices :
       i = [no |-> i.no, period |-> i.period, student |-> i.student, batch |-> i.batch,
            waived |-> i.waived, amount |-> i.amount]

SameBill(i, j) == i.student = j.student /\ i.batch = j.batch /\ i.period = j.period
Clean(db) == Shaped(db) /\ \A i, j \in db.invoices : SameBill(i, j) => i = j

(* What is saved is some tab's copy, so every copy has to be clean. *)
AllClean ==
  /\ Clean(stored)
  /\ view = [t \in Tab |-> view[t]] /\ \A t \in Tab : Clean(view[t])

(* Saving a clean copy keeps every copy clean. *)
LEMMA SaveClean ==
  ASSUME AllClean, NEW t \in Tab, NEW db, Clean(db), Save(t, db)
  PROVE  AllClean'
<1>1. view' = [view EXCEPT ![t] = db] /\ stored' = db
  BY DEF Save
<1>2. \A u \in Tab : view'[u] = IF u = t THEN db ELSE view[u]
  BY <1>1 DEF AllClean
<1>3. view' = [u \in Tab |-> view'[u]]
  BY <1>1 DEF AllClean
<1>4. \A u \in Tab : Clean(view'[u])
  BY <1>2 DEF AllClean
<1>5. QED BY <1>1, <1>3, <1>4 DEF AllClean, Clean, Shaped

(* Students, batches and payments may change as they like. *)
LEMMA OtherTables ==
  ASSUME NEW db, Clean(db), NEW x
  PROVE  /\ Clean([db EXCEPT !.students = x]) /\ [db EXCEPT !.students = x].invoices = db.invoices
         /\ Clean([db EXCEPT !.batches = x])
         /\ Clean([db EXCEPT !.payments = x])
  BY DEF Clean, Shaped

(* Invoices for pairs nobody was billed for this month keep the copy clean. *)
LEMMA BillClean ==
  ASSUME NEW db, Clean(db), NEW pairs, NEW period,
         \A p \in pairs : ~Billed(db, p[1], p[2], period),
         NEW bills, bills = NewInvoices(db, pairs, period)
  PROVE  Clean([db EXCEPT !.invoices = @ \cup bills])
<1> DEFINE Rank(s, b) == Cardinality({q \in pairs : q[1] < s \/ (q[1] = s /\ q[2] <= b)})
           Bill(s, b) == [no |-> LastNumber(db) + Rank(s, b), period |-> period,
                          student |-> s, batch |-> b, waived |-> FALSE,
                          amount |-> discountedFee(db.batches[b].fee, db.students[s].concession)]
<1>1. bills = {Bill(p[1], p[2]) : p \in pairs}
  BY DEF NewInvoices
<1>2. \A s, b : /\ Bill(s, b).student = s /\ Bill(s, b).batch = b /\ Bill(s, b).period = period
                /\ Bill(s, b) = [no |-> Bill(s, b).no, period |-> Bill(s, b).period,
                                 student |-> Bill(s, b).student, batch |-> Bill(s, b).batch,
                                 waived |-> Bill(s, b).waived, amount |-> Bill(s, b).amount]
  OBVIOUS
<1> HIDE DEF Bill
<1>3. \A i \in bills : i = Bill(i.student, i.batch) /\ i.period = period
                       /\ ~Billed(db, i.student, i.batch, period)
  BY <1>1, <1>2
<1>4. \A i \in bills, j \in db.invoices : ~SameBill(i, j) /\ ~SameBill(j, i)
  BY <1>3 DEF Billed, SameBill
<1>5. \A i, j \in bills : SameBill(i, j) => i = j
  BY <1>3 DEF SameBill
<1>6. \A i, j \in db.invoices \cup bills : SameBill(i, j) => i = j
  BY <1>4, <1>5 DEF Clean
<1>7. \A i \in bills : i = [no |-> i.no, period |-> i.period, student |-> i.student,
                            batch |-> i.batch, waived |-> i.waived, amount |-> i.amount]
  BY <1>1, <1>2
<1>8. [db EXCEPT !.invoices = @ \cup bills] =
        [students |-> db.students, batches |-> db.batches,
         invoices |-> db.invoices \cup bills, payments |-> db.payments]
  BY DEF Clean, Shaped
<1>9. QED BY <1>6, <1>7, <1>8 DEF Clean, Shaped

(* admissionInvoices keeps a copy clean. *)
LEMMA AdmitClean ==
  ASSUME NEW db, Clean(db), NEW s, NEW joined, NEW period
  PROVE  Clean(Admit(db, s, joined, period))
<1> DEFINE pairs == {s} \X {b \in joined \cap DOMAIN db.batches :
                             db.batches[b].active /\ ~Billed(db, s, b, period)}
<1>1. \A p \in pairs : ~Billed(db, p[1], p[2], period)
  OBVIOUS
<1>2. Admit(db, s, joined, period) =
        [db EXCEPT !.invoices = @ \cup NewInvoices(db, pairs, period)]
  BY DEF Admit
<1> HIDE DEF pairs
<1>3. Clean([db EXCEPT !.invoices = @ \cup NewInvoices(db, pairs, period)])
  BY <1>1, BillClean
<1>4. QED BY <1>2, <1>3

(* Waiving or reinstating changes neither the student, nor the batch, nor   *)
(* the month of an invoice.                                                *)
LEMMA WaiveClean ==
  ASSUME NEW db, Clean(db), NEW i \in db.invoices
  PROVE  Clean([db EXCEPT !.invoices = (@ \ {i}) \cup {[i EXCEPT !.waived = ~@]}])
<1> DEFINE w == [i EXCEPT !.waived = ~@]
<1>1. /\ SameBill(w, i) /\ w.student = i.student /\ w.batch = i.batch /\ w.period = i.period
      /\ w = [no |-> w.no, period |-> w.period, student |-> w.student, batch |-> w.batch,
              waived |-> w.waived, amount |-> w.amount]
  BY DEF Clean, Shaped, SameBill
<1>2. [db EXCEPT !.invoices = (@ \ {i}) \cup {w}] =
        [students |-> db.students, batches |-> db.batches,
         invoices |-> (db.invoices \ {i}) \cup {w}, payments |-> db.payments]
  BY DEF Clean, Shaped
<1> HIDE DEF w
<1>3. \A j, k \in (db.invoices \ {i}) \cup {w} : SameBill(j, k) => j = k
  BY <1>1 DEF Clean, SameBill
<1>4. \A j \in (db.invoices \ {i}) \cup {w} :
        j = [no |-> j.no, period |-> j.period, student |-> j.student, batch |-> j.batch,
             waived |-> j.waived, amount |-> j.amount]
  BY <1>1 DEF Clean, Shaped
<1>5. Clean([db EXCEPT !.invoices = (@ \ {i}) \cup {w}])
  BY <1>2, <1>3, <1>4 DEF Clean, Shaped
<1>6. QED BY <1>5 DEF w

(* Every store action, in any tab, keeps every copy clean. *)
LEMMA TabStep ==
  ASSUME AllClean, NEW t \in Tab
  PROVE  /\ Reload(t) => AllClean'
         /\ Pay(t) => AllClean'
         /\ \A student, period : AddStudent(t, student, period) => AllClean'
         /\ \A s, student, issue : UpdateStudent(t, s, student, issue) => AllClean'
         /\ \A ids, active : SetStudentsStatus(t, ids, active) => AllClean'
         /\ \A b, batch : AddBatch(t, b, batch) \/ UpdateBatch(t, b, batch) => AllClean'
         /\ \A period : IssueInvoices(t, period) => AllClean'
         /\ \A i \in view[t].invoices : WaiveInvoice(t, i) => AllClean'
<1>0. Clean(view[t]) BY DEF AllClean
<1>1. ASSUME Reload(t) PROVE AllClean'
  <2>1. view' = [view EXCEPT ![t] = stored] /\ stored' = stored
    BY <1>1 DEF Reload
  <2>2. \A u \in Tab : Clean(view'[u])
    BY <2>1 DEF AllClean
  <2>3. view' = [u \in Tab |-> view'[u]]
    BY <2>1 DEF AllClean
  <2>4. QED BY <2>1, <2>2, <2>3 DEF AllClean, Clean, Shaped
<1>2. ASSUME Pay(t) PROVE AllClean'
  <2>1. PICK order, part : RecordPayments(t, order, part)
    BY <1>2 DEF Pay
  <2>2. QED BY <1>0, <2>1, OtherTables, SaveClean DEF RecordPayments
<1>3. ASSUME NEW student, NEW period, AddStudent(t, student, period) PROVE AllClean'
  <2> DEFINE db == PutStudent(view[t], NextStudent(view[t]), student)
  <2>1. Clean(db) BY <1>0, OtherTables DEF PutStudent
  <2>2. Save(t, IF student.active THEN Admit(db, NextStudent(view[t]), student.batches, period)
                ELSE db)
    BY <1>3 DEF AddStudent
  <2> HIDE DEF db
  <2>3. QED BY <2>1, <2>2, AdmitClean, SaveClean
<1>4. ASSUME NEW s, NEW student, NEW issue, UpdateStudent(t, s, student, issue) PROVE AllClean'
  <2> DEFINE db == PutStudent(view[t], s, student)
  <2>1. Clean(db) BY <1>0, OtherTables DEF PutStudent
  <2>2. PICK added : Save(t, IF student.active /\ issue THEN Admit(db, s, added, now) ELSE db)
    BY <1>4 DEF UpdateStudent
  <2> HIDE DEF db
  <2>3. QED BY <2>1, <2>2, AdmitClean, SaveClean
<1>5. ASSUME NEW ids, NEW active, SetStudentsStatus(t, ids, active) PROVE AllClean'
  BY <1>0, <1>5, OtherTables, SaveClean DEF SetStudentsStatus
<1>6. ASSUME NEW b, NEW batch, AddBatch(t, b, batch) \/ UpdateBatch(t, b, batch) PROVE AllClean'
  BY <1>0, <1>6, OtherTables, SaveClean DEF AddBatch, UpdateBatch, PutBatch
<1>7. ASSUME NEW period, IssueInvoices(t, period) PROVE AllClean'
  <2>1. \A p \in Unbilled(view[t], period) : ~Billed(view[t], p[1], p[2], period)
    BY DEF Unbilled
  <2>2. Clean([view[t] EXCEPT !.invoices =
                 @ \cup NewInvoices(view[t], Unbilled(view[t], period), period)])
    BY <1>0, <2>1, BillClean
  <2>3. QED BY <1>7, <2>2, SaveClean DEF IssueInvoices
<1>8. ASSUME NEW i \in view[t].invoices, WaiveInvoice(t, i) PROVE AllClean'
  BY <1>0, <1>8, WaiveClean, SaveClean DEF WaiveInvoice
<1>9. QED BY <1>1, <1>2, <1>3, <1>4, <1>5, <1>6, <1>7, <1>8

(* The invariant is kept by every step; deleteStudents and addInvoice, which *)
(* no screen calls, take none.                                             *)
LEMMA StepClean ==
  ASSUME ByScreen = TRUE, AllClean, [Next]_vars
  PROVE  AllClean'
<1>1. CASE UNCHANGED vars
  BY <1>1 DEF vars, AllClean, Clean, Shaped
<1>2. CASE MonthPasses
  BY <1>2 DEF MonthPasses, AllClean, Clean, Shaped
<1>3. CASE \E t \in Tab :
       \/ Reload(t) \/ Pay(t)
       \/ \E student, period : AddStudent(t, student, period)
       \/ \E s, student, issue : UpdateStudent(t, s, student, issue)
       \/ \E ids, active : SetStudentsStatus(t, ids, active)
       \/ \E b, batch : AddBatch(t, b, batch) \/ UpdateBatch(t, b, batch)
       \/ \E period : IssueInvoices(t, period)
       \/ \E i \in view[t].invoices : WaiveInvoice(t, i)
  BY <1>3, TabStep
<1>4. QED BY <1>1, <1>2, <1>3 DEF Next, DeleteStudents, AddInvoice

(* No student is billed twice for a batch in a month, however often they    *)
(* leave and rejoin, invoices are issued, and tabs overwrite one another.  *)
THEOREM BilledOnce ==
  ASSUME ByScreen = TRUE
  PROVE  Spec => []NoDoubleBilling
<1>1. Init => AllClean
  BY DEF Init, AllClean, Clean, Shaped, EmptyInstitute
<1>2. AllClean => NoDoubleBilling
  BY DEF AllClean, Clean, SameBill, NoDoubleBilling
<1>3. AllClean /\ [Next]_vars => AllClean'
  BY StepClean
<1>4. QED BY <1>1, <1>2, <1>3, PTL DEF Spec

-----------------------------------------------------------------------------
(* Numbers.  The highest of finitely many, and no two bills of one issue    *)
(* have the same rank.                                                     *)

(* Highest is what its name says. *)
LEMMA HighestBounds ==
  ASSUME NEW S \in SUBSET Nat, NEW n \in Nat, \A x \in S : x <= n
  PROVE  Highest(S) \in Nat /\ \A x \in S : x <= Highest(S)
<1> DEFINE U == S \cup {0}
           Bounds == {k \in Nat : \A x \in U : x <= k}
           Less == OpToRel(<, Nat)
<1>1. n \in Bounds /\ Bounds \subseteq Nat
  OBVIOUS
<1>2. IsWellFoundedOn(Less, Nat)
  BY NatLessThanWellFounded
<1>3. \A j, k \in Nat : j < k => <<j, k>> \in Less
  BY DEF OpToRel
<1> HIDE DEF Less, Bounds
<1>4. PICK m \in Bounds : \A k \in Bounds : <<k, m>> \notin Less
  BY <1>1, <1>2, WFMin
<1>5. m \in Nat /\ \A x \in U : x <= m
  BY <1>4 DEF Bounds
<1>6. m \in U
  <2> SUFFICES ASSUME m \notin U PROVE FALSE
    OBVIOUS
  <2>1. m - 1 \in Nat /\ m - 1 < m /\ \A x \in U : x <= m - 1
    BY <1>5
  <2>2. m - 1 \in Bounds
    BY <2>1 DEF Bounds
  <2>3. QED BY <1>3, <1>4, <1>5, <2>1, <2>2
<1>7. \E x \in U : \A y \in U : x >= y
  BY <1>5, <1>6
<1>8. Highest(S) = CHOOSE x \in U : \A y \in U : x >= y
  BY Zenon DEF Highest, Max
<1> HIDE DEF U
<1>9. Highest(S) \in U /\ \A y \in U : Highest(S) >= y
  BY <1>7, <1>8, Zenon
<1>10. U \subseteq Nat /\ S \subseteq U
  BY DEF U
<1>11. \A h \in Nat, y \in Nat : h >= y => y <= h
  OBVIOUS
<1>12. QED BY <1>9, <1>10, <1>11, Zenon

(* The rank of a pair in the order of the roster, as NewInvoices counts it. *)
UpTo(pairs, s, b) == {q \in pairs : q[1] < s \/ (q[1] = s /\ q[2] <= b)}
RankOf(pairs, s, b) == Cardinality(UpTo(pairs, s, b))

(* Ranks are distinct, start at 1 and end at the number of pairs. *)
LEMMA RanksDistinct ==
  ASSUME NEW pairs \in SUBSET (Nat \X Nat), IsFiniteSet(pairs)
  PROVE  /\ Cardinality(pairs) \in Nat
         /\ \A p \in pairs : /\ RankOf(pairs, p[1], p[2]) \in Nat \ {0}
                             /\ RankOf(pairs, p[1], p[2]) <= Cardinality(pairs)
         /\ \A p, q \in pairs : RankOf(pairs, p[1], p[2]) = RankOf(pairs, q[1], q[2]) => p = q
<1>1. \A s, b : UpTo(pairs, s, b) \in SUBSET pairs
  BY DEF UpTo
<1>2. Cardinality(pairs) \in Nat
  BY FS_CardinalityType
<1>3. \A s, b : /\ IsFiniteSet(UpTo(pairs, s, b)) /\ RankOf(pairs, s, b) \in Nat
                /\ RankOf(pairs, s, b) <= Cardinality(pairs)
  BY <1>1, FS_Subset, FS_CardinalityType DEF RankOf
<1>4. \A p \in pairs : p \in UpTo(pairs, p[1], p[2])
  BY DEF UpTo
<1>5. \A p \in pairs : RankOf(pairs, p[1], p[2]) # 0
  BY <1>3, <1>4, FS_EmptySet DEF RankOf
<1>6. ASSUME NEW p \in pairs, NEW q \in pairs, p # q,
             p[1] < q[1] \/ (p[1] = q[1] /\ p[2] < q[2])
      PROVE  RankOf(pairs, p[1], p[2]) # RankOf(pairs, q[1], q[2])
  <2>1. UpTo(pairs, p[1], p[2]) \subseteq UpTo(pairs, q[1], q[2])
    BY <1>6 DEF UpTo
  <2>2. q \notin UpTo(pairs, p[1], p[2])
    BY <1>6 DEF UpTo
  <2>3. QED BY <1>3, <1>4, <2>1, <2>2, FS_Subset DEF RankOf
<1>7. \A p, q \in pairs : \/ p = q
                          \/ p[1] < q[1] \/ (p[1] = q[1] /\ p[2] < q[2])
                          \/ q[1] < p[1] \/ (q[1] = p[1] /\ q[2] < p[2])
  OBVIOUS
<1>8. \A p, q \in pairs : RankOf(pairs, p[1], p[2]) = RankOf(pairs, q[1], q[2]) => p = q
  BY <1>6, <1>7
<1>9. QED BY <1>2, <1>3, <1>5, <1>8

(* A copy whose invoices and payments have numbers of their own, finitely   *)
(* many, so that the next one exists.                                      *)
Listed(db) ==
  /\ DOMAIN db.students \subseteq 1..MaxStudents
  /\ DOMAIN db.batches \subseteq Batch /\ IsFiniteSet(DOMAIN db.batches)
InvoicesNumbered(db) ==
  /\ IsFiniteSet(db.invoices) /\ \A i \in db.invoices : i.no \in Nat
  /\ \E n \in Nat : \A i \in db.invoices : i.no <= n
  /\ \A i, j \in db.invoices : i.no = j.no => i = j
PaymentsNumbered(db) ==
  /\ \A p \in db.payments : p.receipt \in Nat
  /\ \E n \in Nat : \A p \in db.payments : p.receipt <= n
  /\ \A p, q \in db.payments : p.receipt = q.receipt => p = q
Numbered(db) == Shaped(db) /\ Listed(db) /\ InvoicesNumbered(db) /\ PaymentsNumbered(db)

AllNumbered ==
  /\ Numbered(stored)
  /\ view = [t \in Tab |-> view[t]] /\ \A t \in Tab : Numbered(view[t])

(* Saving such a copy keeps every copy such. *)
LEMMA SaveNumbered ==
  ASSUME AllNumbered, NEW t \in Tab, NEW db, Numbered(db), Save(t, db)
  PROVE  AllNumbered'
<1>1. view' = [view EXCEPT ![t] = db] /\ stored' = db
  BY DEF Save
<1>2. \A u \in Tab : view'[u] = IF u = t THEN db ELSE view[u]
  BY <1>1 DEF AllNumbered
<1>3. view' = [u \in Tab |-> view'[u]]
  BY <1>1 DEF AllNumbered
<1>4. \A u \in Tab : Numbered(view'[u])
  BY <1>2 DEF AllNumbered
<1>5. Numbered(stored')
  BY <1>1
<1>6. QED
  BY <1>3, <1>4, <1>5
  DEF AllNumbered, Numbered, Shaped, Listed, InvoicesNumbered, PaymentsNumbered

(* Replacing one table leaves the others as they are. *)
LEMMA TableReplaced ==
  ASSUME NEW db, Shaped(db), NEW x
  PROVE  /\ [db EXCEPT !.students = x] = [students |-> x, batches |-> db.batches,
                                          invoices |-> db.invoices, payments |-> db.payments]
         /\ [db EXCEPT !.batches = x] = [students |-> db.students, batches |-> x,
                                         invoices |-> db.invoices, payments |-> db.payments]
         /\ [db EXCEPT !.invoices = x] = [students |-> db.students, batches |-> db.batches,
                                          invoices |-> x, payments |-> db.payments]
         /\ [db EXCEPT !.payments = x] = [students |-> db.students, batches |-> db.batches,
                                          invoices |-> db.invoices, payments |-> x]
  BY DEF Shaped

(* Students and batches come and go without touching any number. *)
LEMMA RosterNumbered ==
  ASSUME NEW db, Numbered(db), NEW f
  PROVE  /\ DOMAIN f \subseteq 1..MaxStudents =>
              Numbered([db EXCEPT !.students = f]) /\ [db EXCEPT !.students = f].batches = db.batches
         /\ DOMAIN f \subseteq Batch /\ IsFiniteSet(DOMAIN f) => Numbered([db EXCEPT !.batches = f])
<1>1. /\ [db EXCEPT !.students = f] = [students |-> f, batches |-> db.batches,
                                       invoices |-> db.invoices, payments |-> db.payments]
      /\ [db EXCEPT !.batches = f] = [students |-> db.students, batches |-> f,
                                      invoices |-> db.invoices, payments |-> db.payments]
  BY TableReplaced DEF Numbered
<1>2. QED BY <1>1 DEF Numbered, Shaped, Listed, InvoicesNumbered, PaymentsNumbered

(* A new set of invoices only has to be numbered itself. *)
LEMMA InvoicesReplaced ==
  ASSUME NEW db, Numbered(db), NEW S,
         \A i \in S : i = [no |-> i.no, period |-> i.period, student |-> i.student,
                           batch |-> i.batch, waived |-> i.waived, amount |-> i.amount],
         IsFiniteSet(S), \A i \in S : i.no \in Nat, \E n \in Nat : \A i \in S : i.no <= n,
         \A i, j \in S : i.no = j.no => i = j
  PROVE  Numbered([db EXCEPT !.invoices = S])
<1>1. [db EXCEPT !.invoices = S] = [students |-> db.students, batches |-> db.batches,
                                    invoices |-> S, payments |-> db.payments]
  BY TableReplaced DEF Numbered
<1>2. QED BY <1>1 DEF Numbered, Shaped, Listed, InvoicesNumbered, PaymentsNumbered

(* Dropping invoices and payments leaves the others their numbers. *)
LEMMA DropNumbered ==
  ASSUME NEW db, Numbered(db), NEW f, DOMAIN f \subseteq 1..MaxStudents,
         NEW S \in SUBSET db.invoices, NEW P \in SUBSET db.payments
  PROVE  Numbered([students |-> f, batches |-> db.batches, invoices |-> S, payments |-> P])
<1> DEFINE new == [students |-> f, batches |-> db.batches, invoices |-> S, payments |-> P]
<1>1. Listed(new) /\ Shaped(new)
  BY DEF Numbered, Listed, Shaped
<1>2. InvoicesNumbered(new)
  BY FS_Subset DEF Numbered, InvoicesNumbered
<1>3. PaymentsNumbered(new)
  BY DEF Numbered, PaymentsNumbered
<1>4. QED BY <1>1, <1>2, <1>3 DEF Numbered

(* Invoices issued together are numbered on from the last. *)
LEMMA BillNumbers ==
  ASSUME NEW db, Numbered(db), NEW pairs \in SUBSET ((1..MaxStudents) \X Batch),
         IsFiniteSet(pairs), NEW period
  PROVE  Numbered([db EXCEPT !.invoices = @ \cup NewInvoices(db, pairs, period)])
<1> DEFINE Bill(s, b) == [no |-> LastNumber(db) + RankOf(pairs, s, b), period |-> period,
                          student |-> s, batch |-> b, waived |-> FALSE,
                          amount |-> discountedFee(db.batches[b].fee, db.students[s].concession)]
           bills == {Bill(p[1], p[2]) : p \in pairs}
           last == LastNumber(db)
<1>1. NewInvoices(db, pairs, period) = bills
  BY DEF NewInvoices, RankOf, UpTo
<1>2. last \in Nat /\ \A i \in db.invoices : i.no <= last
  <2>1. {i.no : i \in db.invoices} \in SUBSET Nat
    BY DEF Numbered, InvoicesNumbered
  <2>2. PICK n \in Nat : \A x \in {i.no : i \in db.invoices} : x <= n
    BY DEF Numbered, InvoicesNumbered
  <2>3. QED BY <2>1, <2>2, HighestBounds DEF LastNumber
<1>3. /\ Cardinality(pairs) \in Nat
      /\ \A p \in pairs : /\ RankOf(pairs, p[1], p[2]) \in Nat \ {0}
                          /\ RankOf(pairs, p[1], p[2]) <= Cardinality(pairs)
      /\ \A p, q \in pairs : RankOf(pairs, p[1], p[2]) = RankOf(pairs, q[1], q[2]) => p = q
  <2>1. \A p \in pairs : p[1] \in 1..MaxStudents /\ p[2] \in Batch /\ p = <<p[1], p[2]>>
    OBVIOUS
  <2>2. 1..MaxStudents \subseteq Nat /\ Batch \subseteq Nat
    BY BoundsGiven, BatchesOrdered
  <2>3. pairs \in SUBSET (Nat \X Nat)
    BY <2>1, <2>2
  <2>4. QED BY <2>3, RanksDistinct
<1>4. \A s, b : /\ Bill(s, b).no = last + RankOf(pairs, s, b)
                /\ Bill(s, b) = [no |-> Bill(s, b).no, period |-> Bill(s, b).period,
                                 student |-> Bill(s, b).student, batch |-> Bill(s, b).batch,
                                 waived |-> Bill(s, b).waived, amount |-> Bill(s, b).amount]
  OBVIOUS
<1>5. IsFiniteSet(bills)
  <2> DEFINE f == [p \in pairs |-> Bill(p[1], p[2])]
  <2>1. f \in Surjection(pairs, bills)
    BY DEF Surjection
  <2>2. QED BY <2>1, FS_Surjection
<1> HIDE DEF Bill, last
<1>6. \A i \in bills : \E p \in pairs : i = Bill(p[1], p[2]) /\ i.no = last + RankOf(pairs, p[1], p[2])
  BY <1>4
<1>7. \A i \in bills : i = [no |-> i.no, period |-> i.period, student |-> i.student,
                            batch |-> i.batch, waived |-> i.waived, amount |-> i.amount]
  BY <1>4
<1> HIDE DEF bills
<1>8. \A i \in bills : i.no \in Nat /\ i.no > last /\ i.no <= last + Cardinality(pairs)
  BY <1>2, <1>3, <1>6
<1>9. \A i, j \in bills : i.no = j.no => i = j
  <2> SUFFICES ASSUME NEW i \in bills, NEW j \in bills, i.no = j.no PROVE i = j
    OBVIOUS
  <2>1. PICK p \in pairs : i = Bill(p[1], p[2]) /\ i.no = last + RankOf(pairs, p[1], p[2])
    BY <1>6
  <2>2. PICK q \in pairs : j = Bill(q[1], q[2]) /\ j.no = last + RankOf(pairs, q[1], q[2])
    BY <1>6
  <2>3. RankOf(pairs, p[1], p[2]) = RankOf(pairs, q[1], q[2])
    BY <1>2, <1>3, <2>1, <2>2
  <2>4. p = q
    BY <1>3, <2>3
  <2>5. QED BY <2>1, <2>2, <2>4
<1>10. /\ IsFiniteSet(db.invoices \cup bills)
       /\ \A i \in db.invoices \cup bills :
            /\ i.no \in Nat /\ i.no <= last + Cardinality(pairs)
            /\ i = [no |-> i.no, period |-> i.period, student |-> i.student,
                    batch |-> i.batch, waived |-> i.waived, amount |-> i.amount]
  <2>1. IsFiniteSet(db.invoices \cup bills)
    BY <1>5, FS_Union DEF Numbered, InvoicesNumbered
  <2>2. \A i \in db.invoices : i.no \in Nat /\ i.no <= last + Cardinality(pairs)
    BY <1>2, <1>3 DEF Numbered, InvoicesNumbered
  <2>3. \A i \in db.invoices : i = [no |-> i.no, period |-> i.period, student |-> i.student,
                                    batch |-> i.batch, waived |-> i.waived, amount |-> i.amount]
    BY DEF Numbered, Shaped
  <2>4. QED BY <1>7, <1>8, <2>1, <2>2, <2>3
<1>11. \A i, j \in db.invoices \cup bills : i.no = j.no => i = j
  BY <1>2, <1>8, <1>9 DEF Numbered, InvoicesNumbered
<1>12. last + Cardinality(pairs) \in Nat
  BY <1>2, <1>3
<1>13. Numbered([db EXCEPT !.invoices = db.invoices \cup bills])
  BY <1>10, <1>11, <1>12, InvoicesReplaced
<1>14. QED BY <1>1, <1>13

(* admissionInvoices bills the batches of one student. *)
LEMMA AdmitNumbered ==
  ASSUME NEW db, Numbered(db), NEW s \in 1..MaxStudents, NEW joined, NEW period
  PROVE  Numbered(Admit(db, s, joined, period))
<1> DEFINE billed == {b \in joined \cap DOMAIN db.batches :
                        db.batches[b].active /\ ~Billed(db, s, b, period)}
           pairs == {s} \X billed
<1>1. billed \in SUBSET (DOMAIN db.batches) /\ IsFiniteSet(DOMAIN db.batches)
        /\ DOMAIN db.batches \subseteq Batch
  BY DEF Numbered, Listed
<1>2. Admit(db, s, joined, period) = [db EXCEPT !.invoices = @ \cup NewInvoices(db, pairs, period)]
  BY DEF Admit
<1> HIDE DEF billed
<1>3. IsFiniteSet(pairs) /\ pairs \in SUBSET ((1..MaxStudents) \X Batch)
  BY <1>1, FS_Subset, FS_Singleton, FS_Product
<1> HIDE DEF pairs
<1>4. QED BY <1>2, <1>3, BillNumbers

(* The receipts of one payment are numbered on from the last. *)
LEMMA PayNumbers ==
  ASSUME NEW db, Numbered(db), NEW n \in Nat, NEW part, DOMAIN part = 1..n, NEW order
  PROVE  Numbered([db EXCEPT !.payments =
                     @ \cup {Receipt(db, order[k], k, part[k]) : k \in Settled(part)}])
<1> DEFINE new == {Receipt(db, order[k], k, part[k]) : k \in Settled(part)}
           S == db.payments \cup new
           last == LastReceipt(db)
<1>1. last \in Nat /\ \A p \in db.payments : p.receipt <= last
  <2>1. {p.receipt : p \in db.payments} \in SUBSET Nat
    BY DEF Numbered, PaymentsNumbered
  <2>2. PICK m \in Nat : \A x \in {p.receipt : p \in db.payments} : x <= m
    BY DEF Numbered, PaymentsNumbered
  <2>3. QED BY <2>1, <2>2, HighestBounds DEF LastReceipt
<1>2. \A q \in new : \E k \in 1..n : q = Receipt(db, order[k], k, part[k]) /\ q.receipt = last + k
  BY DEF Receipt, Settled
<1> HIDE DEF new, last
<1>3. \A q \in new : q.receipt \in Nat /\ q.receipt > last /\ q.receipt <= last + n
  BY <1>1, <1>2
<1>4. \A p, q \in new : p.receipt = q.receipt => p = q
  BY <1>1, <1>2
<1>5. /\ \A p \in S : p.receipt \in Nat /\ p.receipt <= last + n
      /\ \A p, q \in S : p.receipt = q.receipt => p = q
  BY <1>1, <1>3, <1>4 DEF Numbered, PaymentsNumbered
<1> HIDE DEF S
<1>6. [db EXCEPT !.payments = S] = [students |-> db.students, batches |-> db.batches,
                                    invoices |-> db.invoices, payments |-> S]
  BY TableReplaced DEF Numbered
<1>7. Numbered([db EXCEPT !.payments = S])
  <2>1. last + n \in Nat
    BY <1>1
  <2>2. QED BY <1>5, <1>6, <2>1 DEF Numbered, Shaped, Listed, InvoicesNumbered, PaymentsNumbered
<1>8. QED BY <1>7 DEF S, new

(* Every store action numbers on, keeps a number, or drops it. *)
LEMMA TabNumbered ==
  ASSUME AllNumbered, NEW t \in Tab
  PROVE  /\ Reload(t) => AllNumbered'
         /\ Pay(t) => AllNumbered'
         /\ \A student, period : AddStudent(t, student, period) => AllNumbered'
         /\ \A s \in DOMAIN view[t].students : \A student, issue :
              UpdateStudent(t, s, student, issue) => AllNumbered'
         /\ \A ids, active : SetStudentsStatus(t, ids, active) => AllNumbered'
         /\ \A ids : DeleteStudents(t, ids) => AllNumbered'
         /\ \A b \in Batch : \A batch : AddBatch(t, b, batch) \/ UpdateBatch(t, b, batch) => AllNumbered'
         /\ \A period : IssueInvoices(t, period) => AllNumbered'
         /\ \A s \in DOMAIN view[t].students, b \in DOMAIN view[t].batches : \A period :
              AddInvoice(t, s, b, period) => AllNumbered'
         /\ \A i \in view[t].invoices : WaiveInvoice(t, i) => AllNumbered'
<1>0. Numbered(view[t]) /\ Listed(view[t]) /\ Shaped(view[t])
  BY DEF AllNumbered, Numbered
<1>1. ASSUME Reload(t) PROVE AllNumbered'
  <2>1. view' = [view EXCEPT ![t] = stored] /\ stored' = stored
    BY <1>1 DEF Reload
  <2>2. \A u \in Tab : Numbered(view'[u])
    BY <2>1 DEF AllNumbered
  <2>3. view' = [u \in Tab |-> view'[u]]
    BY <2>1 DEF AllNumbered
  <2>4. Numbered(stored')
    BY <2>1 DEF AllNumbered
  <2>5. QED
    BY <2>2, <2>3, <2>4
    DEF AllNumbered, Numbered, Shaped, Listed, InvoicesNumbered, PaymentsNumbered
<1>2. ASSUME Pay(t) PROVE AllNumbered'
  <2>1. PICK s \in DOMAIN view[t].students :
          \E due \in (SUBSET {i \in view[t].invoices : i.student = s /\ Balance(view[t], i) > 0}) \ {{}} :
            \E order \in OldestFirst(due), amount \in 1..TotalDue(view[t], due) :
              RecordPayments(t, order, allocate(view[t], order, amount))
    BY <1>2 DEF Pay
  <2>2. PICK due \in SUBSET view[t].invoices :
          \E order \in OldestFirst(due), amount \in 1..TotalDue(view[t], due) :
            RecordPayments(t, order, allocate(view[t], order, amount))
    BY <2>1
  <2>3. PICK order \in OldestFirst(due), amount \in 1..TotalDue(view[t], due) :
          RecordPayments(t, order, allocate(view[t], order, amount))
    BY <2>2
  <2> DEFINE part == allocate(view[t], order, amount)
  <2>4. Cardinality(due) \in Nat
    BY <1>0, FS_Subset, FS_CardinalityType DEF Numbered, InvoicesNumbered
  <2>5. DOMAIN part = 1..Cardinality(due)
    BY <2>3 DEF OldestFirst, allocate, Bijection, Injection
  <2>6. RecordPayments(t, order, part)
    BY <2>3
  <2> HIDE DEF part
  <2>7. QED BY <1>0, <2>4, <2>5, <2>6, PayNumbers, SaveNumbered DEF RecordPayments
<1>3. ASSUME NEW student, NEW period, AddStudent(t, student, period) PROVE AllNumbered'
  <2> DEFINE s == NextStudent(view[t])
             db == PutStudent(view[t], s, student)
  <2>1. s \in 1..MaxStudents
    <3>1. DOMAIN view[t].students \in SUBSET Nat
            /\ \A x \in DOMAIN view[t].students : x <= MaxStudents
      BY <1>0, BoundsGiven DEF Listed
    <3>2. Highest(DOMAIN view[t].students) \in Nat
      BY <3>1, BoundsGiven, HighestBounds
    <3>3. s <= MaxStudents
      BY <1>3 DEF AddStudent
    <3>4. QED BY <3>2, <3>3, BoundsGiven DEF NextStudent
  <2>2. Save(t, IF student.active THEN Admit(db, s, student.batches, period) ELSE db)
    BY <1>3 DEF AddStudent
  <2> HIDE DEF s
  <2>3. Numbered(db)
    BY <1>0, <2>1, RosterNumbered DEF PutStudent, Listed
  <2> HIDE DEF db
  <2>4. QED BY <2>1, <2>2, <2>3, AdmitNumbered, SaveNumbered
<1>4. ASSUME NEW s \in DOMAIN view[t].students, NEW student, NEW issue,
             UpdateStudent(t, s, student, issue)
      PROVE  AllNumbered'
  <2> DEFINE db == PutStudent(view[t], s, student)
  <2>1. s \in 1..MaxStudents
    BY <1>0 DEF Listed
  <2>2. PICK added : Save(t, IF student.active /\ issue THEN Admit(db, s, added, now) ELSE db)
    BY <1>4 DEF UpdateStudent
  <2>3. Numbered(db)
    BY <1>0, <2>1, RosterNumbered DEF PutStudent, Listed
  <2> HIDE DEF db
  <2>4. QED BY <2>1, <2>2, <2>3, AdmitNumbered, SaveNumbered
<1>5. ASSUME NEW ids, NEW active, SetStudentsStatus(t, ids, active) PROVE AllNumbered'
  <2> DEFINE f == [s \in DOMAIN view[t].students |->
                     IF s \in ids THEN [view[t].students[s] EXCEPT !.active = active]
                     ELSE view[t].students[s]]
  <2>1. Save(t, [view[t] EXCEPT !.students = f])
    BY <1>5 DEF SetStudentsStatus
  <2>2. DOMAIN f \subseteq 1..MaxStudents
    BY <1>0 DEF Listed
  <2> HIDE DEF f
  <2>3. QED BY <1>0, <2>1, <2>2, RosterNumbered, SaveNumbered
<1>6. ASSUME NEW ids, DeleteStudents(t, ids) PROVE AllNumbered'
  <2> DEFINE f == [s \in (DOMAIN view[t].students) \ ids |-> view[t].students[s]]
             S == {i \in view[t].invoices : i.student \notin ids}
             P == {p \in view[t].payments : p.student \notin ids}
  <2>1. Save(t, [students |-> f, batches |-> view[t].batches, invoices |-> S, payments |-> P])
    BY <1>6 DEF DeleteStudents
  <2>2. /\ DOMAIN f \subseteq 1..MaxStudents
        /\ S \in SUBSET view[t].invoices /\ P \in SUBSET view[t].payments
    BY <1>0 DEF Listed
  <2> HIDE DEF f, S, P
  <2>3. Numbered([students |-> f, batches |-> view[t].batches, invoices |-> S, payments |-> P])
    BY <1>0, <2>2, DropNumbered
  <2>4. QED BY <2>1, <2>3, SaveNumbered
<1>7. ASSUME NEW b \in Batch, NEW batch, AddBatch(t, b, batch) \/ UpdateBatch(t, b, batch)
      PROVE  AllNumbered'
  <2> DEFINE f == [x \in (DOMAIN view[t].batches) \cup {b} |->
                     IF x = b THEN batch ELSE view[t].batches[x]]
  <2>1. Save(t, [view[t] EXCEPT !.batches = f])
    BY <1>7 DEF AddBatch, UpdateBatch, PutBatch
  <2>2. DOMAIN f \subseteq Batch /\ IsFiniteSet(DOMAIN f)
    BY <1>0, FS_AddElement DEF Listed
  <2> HIDE DEF f
  <2>3. QED BY <1>0, <2>1, <2>2, RosterNumbered, SaveNumbered
<1>8. ASSUME NEW period, IssueInvoices(t, period) PROVE AllNumbered'
  <2> DEFINE all == (DOMAIN view[t].students) \X (DOMAIN view[t].batches)
             pairs == Unbilled(view[t], period)
  <2>1. IsFiniteSet(DOMAIN view[t].students) /\ IsFiniteSet(DOMAIN view[t].batches)
    BY <1>0, FS_Interval, FS_Subset, BoundsGiven DEF Listed
  <2>2. IsFiniteSet(all) /\ pairs \in SUBSET all
    BY <2>1, FS_Product DEF Unbilled
  <2>3. all \subseteq (1..MaxStudents) \X Batch
    BY <1>0 DEF Listed
  <2>4. IsFiniteSet(pairs) /\ pairs \in SUBSET ((1..MaxStudents) \X Batch)
    BY <2>2, <2>3, FS_Subset
  <2>5. Save(t, [view[t] EXCEPT !.invoices = @ \cup NewInvoices(view[t], pairs, period)])
    BY <1>8 DEF IssueInvoices
  <2> HIDE DEF pairs
  <2>6. QED BY <1>0, <2>4, <2>5, BillNumbers, SaveNumbered
<1>9. ASSUME NEW s \in DOMAIN view[t].students, NEW b \in DOMAIN view[t].batches, NEW period,
             AddInvoice(t, s, b, period)
      PROVE  AllNumbered'
  <2> DEFINE pairs == {<<s, b>>}
  <2>1. s \in 1..MaxStudents /\ b \in Batch
    BY <1>0 DEF Listed
  <2>2. Save(t, [view[t] EXCEPT !.invoices = @ \cup NewInvoices(view[t], pairs, period)])
    BY <1>9 DEF AddInvoice
  <2>3. pairs \in SUBSET ((1..MaxStudents) \X Batch)
    BY <2>1
  <2>4. IsFiniteSet(pairs)
    BY FS_Singleton
  <2> HIDE DEF pairs
  <2>5. QED BY <1>0, <2>2, <2>3, <2>4, BillNumbers, SaveNumbered
<1>10. ASSUME NEW i \in view[t].invoices, WaiveInvoice(t, i) PROVE AllNumbered'
  <2> DEFINE w == [i EXCEPT !.waived = ~@]
             S == (view[t].invoices \ {i}) \cup {w}
  <2>1. Save(t, [view[t] EXCEPT !.invoices = S])
    BY <1>10 DEF WaiveInvoice
  <2>2. /\ w.no = i.no
        /\ w = [no |-> w.no, period |-> w.period, student |-> w.student, batch |-> w.batch,
                waived |-> w.waived, amount |-> w.amount]
    BY <1>0 DEF Shaped
  <2> HIDE DEF w
  <2>3. IsFiniteSet(S)
    BY <1>0, FS_RemoveElement, FS_AddElement DEF Numbered, InvoicesNumbered
  <2>4. /\ \A j \in S : j.no \in Nat
        /\ \E n \in Nat : \A j \in S : j.no <= n
        /\ \A j, k \in S : j.no = k.no => j = k
    BY <1>0, <2>2 DEF Numbered, InvoicesNumbered
  <2>5. \A j \in S : j = [no |-> j.no, period |-> j.period, student |-> j.student,
                          batch |-> j.batch, waived |-> j.waived, amount |-> j.amount]
    BY <1>0, <2>2 DEF Shaped
  <2> HIDE DEF S
  <2>6. QED BY <1>0, <2>1, <2>3, <2>4, <2>5, InvoicesReplaced, SaveNumbered
<1>11. QED BY <1>1, <1>2, <1>3, <1>4, <1>5, <1>6, <1>7, <1>8, <1>9, <1>10

(* In every step, those of other tabs and of the store's own operations     *)
(* included, the numbers stay distinct in every copy.                      *)
LEMMA StepNumbered ==
  ASSUME AllNumbered, [Next]_vars
  PROVE  AllNumbered'
<1>1. CASE view' = view /\ stored' = stored
  BY <1>1
  DEF AllNumbered, Numbered, Shaped, Listed, InvoicesNumbered, PaymentsNumbered
<1>2. ASSUME NEW t \in Tab, NEW b \in DOMAIN view[t].batches PROVE b \in Batch
  BY <1>2 DEF AllNumbered, Numbered, Listed
<1>3. ASSUME NEW t \in Tab,
       \/ Reload(t) \/ Pay(t)
       \/ \E student, period : AddStudent(t, student, period)
       \/ \E s \in DOMAIN view[t].students : \E student, issue : UpdateStudent(t, s, student, issue)
       \/ \E ids, active : SetStudentsStatus(t, ids, active)
       \/ \E ids : DeleteStudents(t, ids)
       \/ \E b \in Batch : \E batch : AddBatch(t, b, batch) \/ UpdateBatch(t, b, batch)
       \/ \E period : IssueInvoices(t, period)
       \/ \E s \in DOMAIN view[t].students, b \in DOMAIN view[t].batches : \E period :
            AddInvoice(t, s, b, period)
       \/ \E i \in view[t].invoices : WaiveInvoice(t, i)
      PROVE AllNumbered'
  BY <1>3, TabNumbered
<1>4. QED BY <1>1, <1>2, <1>3 DEF Next, MonthPasses, vars

(* Nothing is on file in a new institute. *)
LEMMA InitNumbered == Init => AllNumbered
<1> SUFFICES ASSUME Init PROVE AllNumbered
  OBVIOUS
<1>1. Numbered(EmptyInstitute)
  <2>1. 0 \in Nat
    OBVIOUS
  <2>2. QED
    BY <2>1, FS_EmptySet
    DEF Numbered, Shaped, Listed, InvoicesNumbered, PaymentsNumbered, EmptyInstitute
<1>2. QED BY <1>1 DEF Init, AllNumbered

(* No two invoices, and no two payments, on file share a number: with any    *)
(* number of tabs that overwrite one another, whatever the store deletes.  *)
THEOREM NumbersStayUnique == Spec => []NumbersUnique
<1>1. AllNumbered => NumbersUnique
  BY DEF AllNumbered, Numbered, InvoicesNumbered, PaymentsNumbered, NumbersUnique
<1>2. AllNumbered /\ [Next]_vars => AllNumbered'
  BY StepNumbered
<1>3. QED BY InitNumbered, <1>1, <1>2, PTL DEF Spec

-----------------------------------------------------------------------------
(* Amounts.  What a copy adds up with the folds of the community modules is  *)
(* a sum as SumOf has it; and what is received for an invoice stays         *)
(* within its amount, because a payment settles at most its balance, a new  *)
(* invoice has a number no payment has, and deleting takes both.           *)

(* What a copy adds up with a fold is the sum of a function. *)
LEMMA AmountsSum ==
  ASSUME NEW P, IsFiniteSet(P), NEW f, \A p \in P : f[p] = p.amount
  PROVE  MapThenSumSet(LAMBDA p : p.amount, P) = SumOf(f, P)
<1> DEFINE Eqn(g) == g = [s \in SUBSET P |-> IF s = {} THEN 0 ELSE Pick(s).amount + g[s \ {Pick(s)}]]
<1>1. MapThenSumSet(LAMBDA p : p.amount, P) = (CHOOSE g : Eqn(g))[P]
  BY DEF MapThenSumSet, MapThenFoldSet, Pick
<1>2. ASSUME NEW g PROVE Eqn(g) <=> AddsUp(f, P, g)
  <2>1. \A s \in SUBSET P : s # {} => f[Pick(s)] = Pick(s).amount
    BY PickIn
  <2>2. QED BY <2>1 DEF AddsUp
<1> HIDE DEF Eqn
<1>3. \E g : AddsUp(f, P, g)
  BY AddsUpExists
<1>4. AddsUp(f, P, CHOOSE g : Eqn(g))
  BY <1>2, <1>3
<1>5. AddsUp(f, P, CHOOSE g : AddsUp(f, P, g))
  BY <1>3
<1>6. P \in SUBSET (P \cap P)
  OBVIOUS
<1>7. (CHOOSE g : Eqn(g))[P] = (CHOOSE g : AddsUp(f, P, g))[P]
  BY <1>4, <1>5, <1>6, AddsUpUnique
<1>8. QED BY <1>1, <1>7 DEF SumOf

(* So is what is due before an invoice. *)
DueBefore(db, order, P) == MapThenSumSet(LAMBDA j : Balance(db, order[j]), P)
(* The balances of the bills add up. *)
LEMMA BalancesSum ==
  ASSUME NEW P, IsFiniteSet(P), NEW db, NEW order, NEW f,
         \A j \in P : f[j] = Balance(db, order[j])
  PROVE  DueBefore(db, order, P) = SumOf(f, P)
<1> DEFINE Eqn(g) == g = [s \in SUBSET P |-> IF s = {} THEN 0
                                        ELSE Balance(db, order[Pick(s)]) + g[s \ {Pick(s)}]]
<1>1. DueBefore(db, order, P) = (CHOOSE g : Eqn(g))[P]
  BY DEF DueBefore, MapThenSumSet, MapThenFoldSet, Pick
<1>2. ASSUME NEW g PROVE Eqn(g) <=> AddsUp(f, P, g)
  <2>1. \A s \in SUBSET P : s # {} => f[Pick(s)] = Balance(db, order[Pick(s)])
    BY PickIn
  <2>2. QED BY <2>1 DEF AddsUp
<1> HIDE DEF Eqn
<1>3. \E g : AddsUp(f, P, g)
  BY AddsUpExists
<1>4. AddsUp(f, P, CHOOSE g : Eqn(g))
  BY <1>2, <1>3
<1>5. AddsUp(f, P, CHOOSE g : AddsUp(f, P, g))
  BY <1>3
<1>6. P \in SUBSET (P \cap P)
  OBVIOUS
<1>7. (CHOOSE g : Eqn(g))[P] = (CHOOSE g : AddsUp(f, P, g))[P]
  BY <1>4, <1>5, <1>6, AddsUpUnique
<1>8. QED BY <1>1, <1>7 DEF SumOf

(* What was received for an invoice number. *)
Received(P, id) == SumOf([p \in P |-> p.amount], {p \in P : Id(p) = id})

(* It is what the screens show as paid, a natural number, and nothing where  *)
(* no payment has the number.                                              *)
LEMMA PaidIsReceived ==
  ASSUME NEW db, IsFiniteSet(db.payments), NEW i
  PROVE  Paid(db, i) = Received(db.payments, Id(i))
<1> DEFINE M == {p \in db.payments : Id(p) = Id(i)}
           f == [p \in db.payments |-> p.amount]
<1>1. IsFiniteSet(M) /\ \A p \in M : f[p] = p.amount
  BY FS_Subset
<1>2. Paid(db, i) = MapThenSumSet(LAMBDA p : p.amount, M)
  BY DEF Paid
<1>3. Received(db.payments, Id(i)) = SumOf(f, M)
  BY DEF Received
<1> HIDE DEF M, f
<1>4. QED BY <1>1, <1>2, <1>3, AmountsSum

(* What was received is a number. *)
LEMMA ReceivedNat ==
  ASSUME NEW P, IsFiniteSet(P), \A p \in P : p.amount \in Nat, NEW id
  PROVE  /\ Received(P, id) \in Nat
         /\ (\A p \in P : Id(p) # id) => Received(P, id) = 0
<1> DEFINE M == {p \in P : Id(p) = id}
           f == [p \in P |-> p.amount]
<1>1. IsFiniteSet(M) /\ \A p \in M : f[p] \in Nat
  BY FS_Subset
<1>2. Received(P, id) = SumOf(f, M)
  BY DEF Received
<1>3. (\A p \in P : Id(p) # id) => M = {}
  OBVIOUS
<1> HIDE DEF M, f
<1>4. QED BY <1>1, <1>2, <1>3, SumNat, SumSteps

(* A typed copy whose payments are for invoices on file, of the same student, *)
(* and come to no more than they ask for.                                  *)
Sound(db) ==
  /\ WellFormed(db) /\ IsFiniteSet(db.payments)
  /\ \A p \in db.payments : \E i \in db.invoices : Id(i) = Id(p) /\ i.student = p.student
  /\ \A i \in db.invoices : Received(db.payments, Id(i)) <= i.amount

Histories ==
  /\ repeated \subseteq numbered /\ numbered \subseteq Period \X (Nat \ {0})
  /\ receipts \subseteq Payment
AllSound == now \in Period /\ Sound(stored) /\ (\A t \in Tab : Sound(view[t])) /\ Histories

(* Saving such a copy keeps every copy such. *)
LEMMA SaveSound ==
  ASSUME AllNumbered, AllSound, NEW t \in Tab, NEW db, Sound(db), Save(t, db)
  PROVE  AllSound'
<1>1. view' = [view EXCEPT ![t] = db] /\ stored' = db /\ now' = now
  BY DEF Save
<1>2. \A u \in Tab : view'[u] = IF u = t THEN db ELSE view[u]
  BY <1>1 DEF AllNumbered
<1>3. \A u \in Tab : Sound(view'[u])
  BY <1>2 DEF AllSound
<1>4. Sound(stored')
  BY <1>1
<1>5. now' \in Period
  BY <1>1 DEF AllSound
<1>6. Histories'
  <2>1. db.invoices \subseteq Invoice /\ db.payments \subseteq Payment
    BY DEF Sound, WellFormed
  <2>2. PICK fresh \in SUBSET db.invoices, clash \in SUBSET db.invoices :
          /\ clash \subseteq fresh /\ numbered' = numbered \cup {Id(i) : i \in fresh}
          /\ repeated' = repeated \cup {Id(i) : i \in clash}
    BY DEF Save
  <2>3. \A i \in Invoice : Id(i) \in Period \X (Nat \ {0})
    BY DEF Invoice, Id
  <2>4. receipts' = receipts \cup (db.payments \ view[t].payments)
    BY DEF Save
  <2>5. QED BY <2>1, <2>2, <2>3, <2>4 DEF AllSound, Histories
<1>7. QED BY <1>3, <1>4, <1>5, <1>6 DEF AllSound, Sound, WellFormed, Received

(* Students and batches change, as long as they stay what they are.         *)
LEMMA RosterSound ==
  ASSUME NEW db, Numbered(db), Sound(db), NEW f
  PROVE  /\ /\ DOMAIN f \subseteq 1..MaxStudents
            /\ \A s \in DOMAIN f : f[s] \in Student /\ f[s].batches \subseteq DOMAIN db.batches
           => Sound([db EXCEPT !.students = f])
         /\ /\ DOMAIN db.batches \subseteq DOMAIN f /\ DOMAIN f \subseteq Batch
            /\ \A b \in DOMAIN f : f[b] \in BatchRow
           => Sound([db EXCEPT !.batches = f])
<1>1. /\ [db EXCEPT !.students = f] = [students |-> f, batches |-> db.batches,
                                       invoices |-> db.invoices, payments |-> db.payments]
      /\ [db EXCEPT !.batches = f] = [students |-> db.students, batches |-> f,
                                      invoices |-> db.invoices, payments |-> db.payments]
  BY TableReplaced DEF Numbered
<1>2. QED BY <1>1 DEF Sound, WellFormed

(* A student is added or changed. *)
LEMMA PutSound ==
  ASSUME NEW db, Numbered(db), Sound(db), NEW s \in 1..MaxStudents, NEW student \in Student,
         student.batches \subseteq DOMAIN db.batches
  PROVE  /\ Numbered(PutStudent(db, s, student)) /\ Sound(PutStudent(db, s, student))
         /\ s \in DOMAIN PutStudent(db, s, student).students
<1> DEFINE f == [x \in (DOMAIN db.students) \cup {s} |-> IF x = s THEN student ELSE db.students[x]]
<1>1. PutStudent(db, s, student) = [db EXCEPT !.students = f]
  BY DEF PutStudent
<1>2. /\ DOMAIN f \subseteq 1..MaxStudents
      /\ \A x \in DOMAIN f : f[x] \in Student /\ f[x].batches \subseteq DOMAIN db.batches
  BY DEF Sound, WellFormed
<1>3. s \in DOMAIN f
  OBVIOUS
<1>4. [db EXCEPT !.students = f].students = f
  BY TableReplaced DEF Numbered
<1> HIDE DEF f
<1>5. Sound([db EXCEPT !.students = f])
  BY <1>2, RosterSound
<1>6. Numbered([db EXCEPT !.students = f])
  BY <1>2, RosterNumbered
<1>7. QED BY <1>1, <1>3, <1>4, <1>5, <1>6

(* A discounted fee is an amount. *)
LEMMA FeeNat ==
  ASSUME NEW fee \in Nat, NEW pct \in 0..100
  PROVE  discountedFee(fee, pct) \in Nat
<1> DEFINE part == 100 - pct
<1>1. part \in Nat
  OBVIOUS
<1> HIDE DEF part
<1>2. fee * part \in Nat
  BY <1>1
<1> DEFINE product == fee * part
<1>3. product \in Nat
  BY <1>2
<1> HIDE DEF product
<1>4. (product + 50) \div 100 \in Nat
  BY <1>3
<1>5. QED BY <1>4 DEF discountedFee, product, part

(* Each invoice that is issued is typed, and numbered after the last.       *)
LEMMA BillsTyped ==
  ASSUME NEW db, Numbered(db), Sound(db), IsFiniteSet(DOMAIN db.students),
         NEW pairs \in SUBSET ((DOMAIN db.students) \X (DOMAIN db.batches)), IsFiniteSet(pairs),
         NEW period \in Period
  PROVE  \A j \in NewInvoices(db, pairs, period) :
           j \in Invoice /\ \A i \in db.invoices : j.no > i.no
<1> DEFINE Bill(s, b) == [no |-> LastNumber(db) + RankOf(pairs, s, b), period |-> period,
                          student |-> s, batch |-> b, waived |-> FALSE,
                          amount |-> discountedFee(db.batches[b].fee, db.students[s].concession)]
           last == LastNumber(db)
<1>1. NewInvoices(db, pairs, period) = {Bill(p[1], p[2]) : p \in pairs}
  BY DEF NewInvoices, RankOf, UpTo
<1>2. last \in Nat /\ \A i \in db.invoices : i.no \in Nat /\ i.no <= last
  <2>1. {i.no : i \in db.invoices} \in SUBSET Nat
    BY DEF Numbered, InvoicesNumbered
  <2>2. PICK n \in Nat : \A x \in {i.no : i \in db.invoices} : x <= n
    BY DEF Numbered, InvoicesNumbered
  <2>3. QED BY <2>1, <2>2, HighestBounds DEF LastNumber
<1>3. \A p \in pairs : /\ p[1] \in DOMAIN db.students /\ p[1] \in 1..MaxStudents
                        /\ p[2] \in DOMAIN db.batches /\ p[2] \in Batch
                        /\ p = <<p[1], p[2]>>
  BY DEF Sound, WellFormed
<1>4. \A p \in pairs : RankOf(pairs, p[1], p[2]) \in Nat \ {0}
  <2>1. 1..MaxStudents \subseteq Nat /\ Batch \subseteq Nat
    BY BoundsGiven, BatchesOrdered
  <2>2. pairs \in SUBSET (Nat \X Nat)
    BY <1>3, <2>1
  <2>3. QED BY <2>2, RanksDistinct
<1>5. \A p \in pairs : discountedFee(db.batches[p[2]].fee, db.students[p[1]].concession) \in Nat
  <2>1. \A p \in pairs : /\ db.batches[p[2]].fee \in Nat
                          /\ db.students[p[1]].concession \in 0..100
    BY <1>3, PricesGiven DEF Sound, WellFormed, Student, BatchRow
  <2>2. QED BY <2>1, FeeNat
<1>6. ASSUME NEW p \in pairs
      PROVE  Bill(p[1], p[2]) \in Invoice /\ Bill(p[1], p[2]).no = last + RankOf(pairs, p[1], p[2])
  <2>1. last + RankOf(pairs, p[1], p[2]) \in Nat \ {0}
    BY <1>2, <1>4
  <2>2. QED BY <1>3, <1>5, <2>1 DEF Invoice
<1> HIDE DEF Bill, last
<1>7. QED BY <1>1, <1>2, <1>4, <1>6

(* Nothing has been received for an invoice that is just issued. *)
LEMMA BillSound ==
  ASSUME NEW db, Numbered(db), Sound(db), IsFiniteSet(DOMAIN db.students),
         NEW pairs \in SUBSET ((DOMAIN db.students) \X (DOMAIN db.batches)), IsFiniteSet(pairs),
         NEW period \in Period
  PROVE  Sound([db EXCEPT !.invoices = @ \cup NewInvoices(db, pairs, period)])
<1> DEFINE bills == NewInvoices(db, pairs, period)
<1>1. \A j \in bills : j \in Invoice /\ \A i \in db.invoices : j.no > i.no
  BY BillsTyped
<1>2. [db EXCEPT !.invoices = @ \cup bills] =
        [students |-> db.students, batches |-> db.batches,
         invoices |-> db.invoices \cup bills, payments |-> db.payments]
  BY TableReplaced DEF Numbered
<1> HIDE DEF bills
<1>3. \A p \in db.payments : p.amount \in Nat
  BY DEF Sound, WellFormed, Payment
<1>4. ASSUME NEW j \in bills
      PROVE  Received(db.payments, Id(j)) <= j.amount
  <2>1. \A p \in db.payments : Id(p) # Id(j)
    <3>1. \A i \in db.invoices : i.no \in Nat /\ j.no > i.no /\ j.no \in Nat
      BY <1>1 DEF Sound, WellFormed, Invoice
    <3>2. \A i \in db.invoices : i.no # j.no
      BY <3>1
    <3>3. QED BY <3>2 DEF Sound, Id
  <2>2. Received(db.payments, Id(j)) = 0
    BY <1>3, <2>1, ReceivedNat DEF Sound
  <2>3. j.amount \in Nat
    BY <1>1 DEF Invoice
  <2>4. QED BY <2>2, <2>3
<1>5. /\ db.invoices \cup bills \subseteq Invoice
      /\ \A j \in db.invoices \cup bills : Received(db.payments, Id(j)) <= j.amount
      /\ \A p \in db.payments : \E j \in db.invoices \cup bills : Id(j) = Id(p) /\ j.student = p.student
  BY <1>1, <1>4 DEF Sound, WellFormed
<1> DEFINE S == db.invoices \cup bills
<1> HIDE DEF S
<1>6. Sound([students |-> db.students, batches |-> db.batches,
             invoices |-> S, payments |-> db.payments])
  BY <1>5 DEF S, Sound, WellFormed
<1>7. QED BY <1>2, <1>6 DEF bills, S

(* admissionInvoices bills the batches of a student on file. *)
LEMMA AdmitSound ==
  ASSUME NEW db, Numbered(db), Sound(db), NEW s \in DOMAIN db.students, NEW joined,
         NEW period \in Period
  PROVE  Sound(Admit(db, s, joined, period))
<1> DEFINE billed == {b \in joined \cap DOMAIN db.batches :
                        db.batches[b].active /\ ~Billed(db, s, b, period)}
           pairs == {s} \X billed
<1>1. billed \in SUBSET (DOMAIN db.batches) /\ IsFiniteSet(DOMAIN db.batches)
  BY DEF Numbered, Listed
<1>2. Admit(db, s, joined, period) = [db EXCEPT !.invoices = @ \cup NewInvoices(db, pairs, period)]
  BY DEF Admit
<1> HIDE DEF billed
<1>3. IsFiniteSet(pairs) /\ pairs \in SUBSET ((DOMAIN db.students) \X (DOMAIN db.batches))
  BY <1>1, FS_Subset, FS_Singleton, FS_Product
<1> HIDE DEF pairs
<1>4. IsFiniteSet(DOMAIN db.students)
  <2>1. IsFiniteSet(1..MaxStudents)
    BY FS_Interval, BoundsGiven
  <2>2. QED BY <2>1, FS_Subset DEF Numbered, Listed
<1>5. QED BY <1>2, <1>3, <1>4, BillSound

(* Waiving and reinstating leave amounts and payments alone. *)
LEMMA WaiveSound ==
  ASSUME NEW db, Numbered(db), Sound(db), NEW i \in db.invoices
  PROVE  Sound([db EXCEPT !.invoices = (@ \ {i}) \cup {[i EXCEPT !.waived = ~@]}])
<1> DEFINE w == [i EXCEPT !.waived = ~@]
           S == (db.invoices \ {i}) \cup {w}
<1>1. w \in Invoice /\ Id(w) = Id(i) /\ w.student = i.student /\ w.amount = i.amount
  BY DEF Sound, WellFormed, Invoice, Id
<1>2. [db EXCEPT !.invoices = S] = [students |-> db.students, batches |-> db.batches,
                                    invoices |-> S, payments |-> db.payments]
  BY TableReplaced DEF Numbered
<1> HIDE DEF w
<1>3. /\ S \subseteq Invoice
      /\ \A p \in db.payments : \E j \in S : Id(j) = Id(p) /\ j.student = p.student
      /\ \A j \in S : Received(db.payments, Id(j)) <= j.amount
  BY <1>1 DEF Sound, WellFormed
<1> HIDE DEF S
<1>4. Sound([db EXCEPT !.invoices = S])
  BY <1>2, <1>3 DEF Sound, WellFormed
<1>5. QED BY <1>4 DEF S, w

(* A deleted student takes invoices and payments along. *)
LEMMA DropSound ==
  ASSUME NEW db, Numbered(db), Sound(db), NEW ids
  PROVE  Sound([students |-> [s \in (DOMAIN db.students) \ ids |-> db.students[s]],
                batches |-> db.batches,
                invoices |-> {i \in db.invoices : i.student \notin ids},
                payments |-> {p \in db.payments : p.student \notin ids}])
<1> DEFINE f == [s \in (DOMAIN db.students) \ ids |-> db.students[s]]
           S == {i \in db.invoices : i.student \notin ids}
           P == {p \in db.payments : p.student \notin ids}
           new == [students |-> f, batches |-> db.batches, invoices |-> S, payments |-> P]
<1>1. WellFormed(new)
  BY DEF Sound, WellFormed
<1>2. IsFiniteSet(P)
  BY FS_Subset DEF Sound
<1>3. \A p \in P : \E i \in S : Id(i) = Id(p) /\ i.student = p.student
  BY DEF Sound
<1>4. ASSUME NEW i \in S PROVE Received(P, Id(i)) = Received(db.payments, Id(i))
  <2> DEFINE M == {p \in P : Id(p) = Id(i)}
             g == [p \in P |-> p.amount]
             h == [p \in db.payments |-> p.amount]
  <2>1. M = {p \in db.payments : Id(p) = Id(i)}
    <3> SUFFICES ASSUME NEW p \in db.payments, Id(p) = Id(i) PROVE p.student \notin ids
      OBVIOUS
    <3>1. PICK j \in db.invoices : Id(j) = Id(p) /\ j.student = p.student
      BY DEF Sound
    <3>2. j.no = i.no
      BY <3>1 DEF Id
    <3>3. j = i
      BY <3>2 DEF Numbered, InvoicesNumbered
    <3>4. QED BY <3>1, <3>3
  <2>2. IsFiniteSet(M) /\ \A p \in M : g[p] = h[p]
    BY <1>2, FS_Subset
  <2>3. Received(P, Id(i)) = SumOf(g, M)
    BY DEF Received
  <2>4. Received(db.payments, Id(i)) = SumOf(h, M)
    BY <2>1 DEF Received
  <2> HIDE DEF M, g, h
  <2>5. QED BY <2>2, <2>3, <2>4, SumSame
<1>5. S \subseteq db.invoices
  OBVIOUS
<1> HIDE DEF f, S, P
<1>6. Sound(new)
  BY <1>1, <1>2, <1>3, <1>4, <1>5 DEF Sound
<1>7. QED BY <1>6 DEF f, S, P

(* Of two numbers, Min is one, and neither is less. *)
LEMMA MinOfTwo ==
  ASSUME NEW a \in Nat, NEW b \in Nat
  PROVE  Min({a, b}) \in {a, b} /\ Min({a, b}) <= a /\ Min({a, b}) <= b
<1> DEFINE U == {a, b}
<1>1. \E x \in U : \A y \in U : x <= y
  <2>1. CASE a <= b
    BY <2>1
  <2>2. CASE b <= a
    BY <2>2
  <2>3. QED BY <2>1, <2>2
<1>2. Min(U) = CHOOSE x \in U : \A y \in U : x <= y
  BY Zenon DEF Min
<1> HIDE DEF U
<1>3. Min(U) \in U /\ \A y \in U : Min(U) <= y
  BY <1>1, <1>2, Zenon
<1>4. QED BY <1>3 DEF U

(* A balance is what the payments leave, or nothing. *)
LEMMA BalanceLeft ==
  ASSUME NEW db, Sound(db), NEW i \in db.invoices
  PROVE  /\ Received(db.payments, Id(i)) \in Nat /\ i.amount \in Nat
         /\ Balance(db, i) \in Nat
         /\ Balance(db, i) + Received(db.payments, Id(i)) <= i.amount
<1>1. \A p \in db.payments : p.amount \in Nat
  BY DEF Sound, WellFormed, Payment
<1>2. Received(db.payments, Id(i)) \in Nat
  BY <1>1, ReceivedNat DEF Sound
<1>3. Paid(db, i) = Received(db.payments, Id(i))
  BY PaidIsReceived DEF Sound
<1>4. i.amount \in Nat /\ Received(db.payments, Id(i)) <= i.amount
  BY DEF Sound, WellFormed, Invoice
<1>5. QED BY <1>2, <1>3, <1>4 DEF Balance

(* The form gives no invoice more than its balance. *)
LEMMA PartsFit ==
  ASSUME NEW db, Sound(db), NEW n \in Nat, NEW order, DOMAIN order = 1..n,
         \A k \in 1..n : order[k] \in db.invoices, NEW amount \in Nat
  PROVE  \A k \in 1..n : /\ allocate(db, order, amount)[k] \in Nat
                         /\ allocate(db, order, amount)[k] <= Balance(db, order[k])
<1> SUFFICES ASSUME NEW k \in 1..n
             PROVE  /\ allocate(db, order, amount)[k] \in Nat
                    /\ allocate(db, order, amount)[k] <= Balance(db, order[k])
  OBVIOUS
<1> DEFINE before == DueBefore(db, order, 1..(k - 1))
           f == [j \in 1..n |-> Balance(db, order[j])]
<1>1. \A j \in 1..n : Balance(db, order[j]) \in Nat
  BY BalanceLeft
<1>2. before \in Nat
  <2> DEFINE P == 1..(k - 1)
  <2>1. P \subseteq 1..n
    OBVIOUS
  <2>2. IsFiniteSet(P)
    BY FS_Interval
  <2>3. \A j \in P : f[j] = Balance(db, order[j]) /\ f[j] \in Nat
    BY <1>1, <2>1
  <2> HIDE DEF P, f
  <2>4. DueBefore(db, order, P) = SumOf(f, P)
    BY <2>2, <2>3, BalancesSum
  <2>5. SumOf(f, P) \in Nat
    BY <2>2, <2>3, SumNat
  <2>6. QED BY <2>4, <2>5 DEF P
<1>3. allocate(db, order, amount)[k] =
        IF amount <= before THEN 0 ELSE Min({amount - before, Balance(db, order[k])})
  BY DEF allocate, DueBefore
<1> HIDE DEF before
<1>4. CASE amount <= before
  BY <1>1, <1>3, <1>4
<1>5. CASE ~(amount <= before)
  <2>1. amount - before \in Nat /\ Balance(db, order[k]) \in Nat
    BY <1>1, <1>2, <1>5
  <2>2. QED BY <1>3, <1>5, <2>1, MinOfTwo
<1>6. QED BY <1>4, <1>5

(* The receipts of one payment. *)
Receipts(db, order, part) == {Receipt(db, order[k], k, part[k]) : k \in Settled(part)}

(* A payment settles no more than is due on each of its invoices. *)
LEMMA PaySound ==
  ASSUME NEW db, Numbered(db), Sound(db), NEW n \in Nat, NEW order, DOMAIN order = 1..n,
         \A k \in 1..n : order[k] \in db.invoices,
         \A j, k \in 1..n : order[j] = order[k] => j = k,
         NEW part, DOMAIN part = 1..n,
         \A k \in 1..n : part[k] \in Nat /\ part[k] <= Balance(db, order[k])
  PROVE  Sound([db EXCEPT !.payments = @ \cup Receipts(db, order, part)])
<1> DEFINE R(k) == Receipt(db, order[k], k, part[k])
           new == {R(k) : k \in Settled(part)}
           P == db.payments \cup new
           last == LastReceipt(db)
<1>1. last \in Nat /\ \A p \in db.payments : p.receipt <= last /\ p.receipt \in Nat
  <2>1. {p.receipt : p \in db.payments} \in SUBSET Nat
    BY DEF Numbered, PaymentsNumbered
  <2>2. PICK m \in Nat : \A x \in {p.receipt : p \in db.payments} : x <= m
    BY DEF Numbered, PaymentsNumbered
  <2>3. QED BY <2>1, <2>2, HighestBounds DEF LastReceipt
<1>2. ASSUME NEW k \in Settled(part)
      PROVE  /\ k \in 1..n /\ R(k) \in Payment /\ R(k) \notin db.payments
             /\ Id(R(k)) = Id(order[k]) /\ R(k).student = order[k].student
             /\ R(k).amount = part[k]
  <2>1. k \in 1..n /\ part[k] \in Nat \ {0}
    BY DEF Settled
  <2>2. order[k] \in Invoice
    BY <2>1 DEF Sound, WellFormed
  <2>3. R(k) = [receipt |-> last + k, no |-> order[k].no, period |-> order[k].period,
                student |-> order[k].student, amount |-> part[k]]
    BY DEF Receipt
  <2> HIDE DEF R, last
  <2>4. last + k \in Nat \ {0} /\ last + k > last
    BY <1>1, <2>1
  <2>5. R(k) \in Payment
    BY <2>1, <2>2, <2>3, <2>4 DEF Invoice, Payment
  <2>6. R(k) \notin db.payments
    BY <1>1, <2>3, <2>4
  <2>7. QED BY <2>1, <2>3, <2>5, <2>6 DEF Id
<1>3. IsFiniteSet(new)
  <2> DEFINE f == [k \in Settled(part) |-> R(k)]
  <2>1. f \in Surjection(Settled(part), new)
    BY DEF Surjection
  <2>2. IsFiniteSet(1..n)
    <3>1. 1 \in Int /\ n \in Int
      OBVIOUS
    <3>2. QED BY <3>1, FS_Interval
  <2>3. IsFiniteSet(Settled(part))
    BY <2>2, FS_Subset DEF Settled
  <2>4. QED BY <2>1, <2>3, FS_Surjection
<1> HIDE DEF R, last
<1>4. P \subseteq Payment /\ IsFiniteSet(P)
  <2>1. db.payments \subseteq Payment /\ IsFiniteSet(db.payments)
    BY DEF Sound, WellFormed
  <2>2. new \subseteq Payment
    BY <1>2
  <2> HIDE DEF new
  <2>3. IsFiniteSet(db.payments \cup new)
    BY <1>3, <2>1, FS_Union
  <2>4. QED BY <2>1, <2>2, <2>3
<1>5. \A p \in P : \E i \in db.invoices : Id(i) = Id(p) /\ i.student = p.student
  BY <1>2 DEF Sound
<1>6. ASSUME NEW i \in db.invoices PROVE Received(P, Id(i)) <= i.amount
  <2> DEFINE M == {p \in db.payments : Id(p) = Id(i)}
             N == {p \in P : Id(p) = Id(i)}
             g == [p \in db.payments |-> p.amount]
             h == [p \in P |-> p.amount]
  <2>1. /\ IsFiniteSet(M) /\ M \subseteq db.payments
        /\ \A p \in M : g[p] = h[p]
        /\ \A p \in P : h[p] = p.amount /\ h[p] \in Nat
    BY <1>4, FS_Subset DEF Sound, Payment
  <2>2. Received(db.payments, Id(i)) = SumOf(g, M) /\ Received(P, Id(i)) = SumOf(h, N)
    BY DEF Received
  <2>3. \A k \in Settled(part) : Id(R(k)) = Id(i) => order[k] = i
    BY <1>2 DEF Id, Numbered, InvoicesNumbered
  <2>4. CASE \E k \in Settled(part) : order[k] = i
    <3>1. PICK k \in Settled(part) : order[k] = i
      BY <2>4
    <3>2. \A j \in Settled(part) : Id(R(j)) = Id(i) => j = k
      BY <1>2, <2>3, <3>1
    <3>3. N = M \cup {R(k)} /\ R(k) \notin M /\ R(k) \in P
      BY <1>2, <3>1, <3>2
    <3>4. h[R(k)] = part[k] /\ part[k] \in Nat /\ part[k] <= Balance(db, i)
      BY <1>2, <2>1, <3>1, <3>3
    <3> HIDE DEF M, N, g, h
    <3>5. SumOf(h, N) = SumOf(h, M) + h[R(k)]
      <4>1. \A p \in M \cup {R(k)} : h[p] \in Nat
        BY <2>1, <3>3 DEF P
      <4>2. QED BY <2>1, <3>3, <4>1, SumInsert
    <3>6. SumOf(h, M) = SumOf(g, M)
      BY <2>1, SumSame
    <3>7. Received(P, Id(i)) = Received(db.payments, Id(i)) + part[k]
      BY <2>2, <3>4, <3>5, <3>6
    <3>8. /\ Received(db.payments, Id(i)) \in Nat /\ i.amount \in Nat
          /\ Balance(db, i) \in Nat
          /\ Balance(db, i) + Received(db.payments, Id(i)) <= i.amount
      BY BalanceLeft
    <3>9. QED BY <3>4, <3>7, <3>8
  <2>5. CASE ~\E k \in Settled(part) : order[k] = i
    <3>1. N = M
      BY <2>3, <2>5
    <3> HIDE DEF M, N, g, h
    <3>2. SumOf(h, M) = SumOf(g, M)
      BY <2>1, SumSame
    <3>3. QED BY <2>2, <3>1, <3>2 DEF Sound
  <2>6. QED BY <2>4, <2>5
<1>7. [db EXCEPT !.payments = P] = [students |-> db.students, batches |-> db.batches,
                                    invoices |-> db.invoices, payments |-> P]
  BY TableReplaced DEF Numbered
<1> HIDE DEF P
<1>8. Sound([db EXCEPT !.payments = P])
  BY <1>4, <1>5, <1>6, <1>7 DEF Sound, WellFormed
<1>9. QED BY <1>8 DEF P, new, R, Receipts

(* Every store action, in any tab, keeps every copy sound. *)
LEMMA TabSound ==
  ASSUME AllNumbered, AllSound, NEW t \in Tab
  PROVE  /\ Reload(t) => AllSound'
         /\ Pay(t) => AllSound'
         /\ \A student \in Student, period \in 0..now : AddStudent(t, student, period) => AllSound'
         /\ \A s \in DOMAIN view[t].students, student \in Student : \A issue :
              UpdateStudent(t, s, student, issue) => AllSound'
         /\ \A ids : \A active \in BOOLEAN : SetStudentsStatus(t, ids, active) => AllSound'
         /\ \A ids : DeleteStudents(t, ids) => AllSound'
         /\ \A b \in Batch, batch \in BatchRow :
              AddBatch(t, b, batch) \/ UpdateBatch(t, b, batch) => AllSound'
         /\ \A period \in Period : IssueInvoices(t, period) => AllSound'
         /\ \A s \in DOMAIN view[t].students, b \in DOMAIN view[t].batches, period \in Period :
              AddInvoice(t, s, b, period) => AllSound'
         /\ \A i \in view[t].invoices : WaiveInvoice(t, i) => AllSound'
<1>0. Numbered(view[t]) /\ Listed(view[t]) /\ Sound(view[t])
  BY DEF AllNumbered, AllSound, Numbered
<1>01. IsFiniteSet(DOMAIN view[t].students) /\ IsFiniteSet(DOMAIN view[t].batches)
  <2>1. IsFiniteSet(1..MaxStudents)
    BY FS_Interval, BoundsGiven
  <2>2. QED BY <1>0, <2>1, FS_Subset DEF Listed
<1>02. now \in Period /\ 0..now \subseteq Period
  BY BoundsGiven DEF AllSound, Period
<1>1. ASSUME Reload(t) PROVE AllSound'
  <2>1. /\ view' = [view EXCEPT ![t] = stored] /\ stored' = stored /\ now' = now
        /\ Histories'
    BY <1>1 DEF Reload, AllSound, Histories
  <2>2. \A u \in Tab : Sound(view'[u])
    BY <2>1 DEF AllNumbered, AllSound
  <2>3. Sound(stored') /\ now' \in Period
    BY <2>1 DEF AllSound
  <2>4. QED BY <2>1, <2>2, <2>3 DEF AllSound, Sound, WellFormed, Received
<1>2. ASSUME Pay(t) PROVE AllSound'
  <2>1. PICK s \in DOMAIN view[t].students :
          \E due \in (SUBSET {i \in view[t].invoices : i.student = s /\ Balance(view[t], i) > 0}) \ {{}} :
            \E order \in OldestFirst(due), amount \in 1..TotalDue(view[t], due) :
              RecordPayments(t, order, allocate(view[t], order, amount))
    BY <1>2 DEF Pay
  <2>2. PICK due \in SUBSET view[t].invoices :
          \E order \in OldestFirst(due), amount \in 1..TotalDue(view[t], due) :
            RecordPayments(t, order, allocate(view[t], order, amount))
    BY <2>1
  <2>3. PICK order \in OldestFirst(due), amount \in 1..TotalDue(view[t], due) :
          RecordPayments(t, order, allocate(view[t], order, amount))
    BY <2>2
  <2> DEFINE n == Cardinality(due)
             part == allocate(view[t], order, amount)
  <2>4. n \in Nat
    BY <1>0, FS_Subset, FS_CardinalityType DEF Numbered, InvoicesNumbered
  <2>5. order \in [1..n -> due] /\ \A j, k \in 1..n : order[j] = order[k] => j = k
    <3>1. order \in Injection(1..n, due)
      BY <2>3 DEF OldestFirst, Bijection
    <3>2. QED BY <3>1 DEF Injection, IsInjective
  <2>6. DOMAIN order = 1..n /\ DOMAIN part = 1..n
    BY <2>5 DEF allocate
  <2>7. amount \in Nat
    OBVIOUS
  <2>8. RecordPayments(t, order, part)
    BY <2>3
  <2>9. \A k \in 1..n : order[k] \in view[t].invoices
    BY <2>5
  <2> HIDE DEF n
  <2>10. \A k \in 1..n : part[k] \in Nat /\ part[k] <= Balance(view[t], order[k])
    BY <1>0, <2>4, <2>6, <2>7, <2>9, PartsFit
  <2> HIDE DEF part
  <2> DEFINE db == view[t]
  <2>11. Sound([db EXCEPT !.payments = @ \cup Receipts(db, order, part)])
    <3>1. Numbered(db) /\ Sound(db) /\ \A k \in 1..n : order[k] \in db.invoices
      BY <1>0, <2>9
    <3>2. \A k \in 1..n : part[k] \in Nat /\ part[k] <= Balance(db, order[k])
      BY <2>10
    <3> HIDE DEF db
    <3>3. QED BY <2>4, <2>5, <2>6, <3>1, <3>2, PaySound
  <2>12. QED BY <2>8, <2>11, SaveSound DEF RecordPayments, Receipts
<1>3. ASSUME NEW student \in Student, NEW period \in 0..now, AddStudent(t, student, period)
      PROVE  AllSound'
  <2> DEFINE s == NextStudent(view[t])
             db == PutStudent(view[t], s, student)
  <2>1. s \in 1..MaxStudents
    <3>1. DOMAIN view[t].students \in SUBSET Nat
            /\ \A x \in DOMAIN view[t].students : x <= MaxStudents
      BY <1>0, BoundsGiven DEF Listed
    <3>2. Highest(DOMAIN view[t].students) \in Nat
      BY <3>1, BoundsGiven, HighestBounds
    <3>3. s <= MaxStudents
      BY <1>3 DEF AddStudent
    <3>4. QED BY <3>2, <3>3, BoundsGiven DEF NextStudent
  <2>2. /\ Save(t, IF student.active THEN Admit(db, s, student.batches, period) ELSE db)
        /\ student.batches \subseteq DOMAIN db.batches
    BY <1>3 DEF AddStudent
  <2>3. db.batches = view[t].batches
    BY <1>0, TableReplaced DEF PutStudent, Numbered
  <2> HIDE DEF s
  <2>4. Numbered(db) /\ Sound(db) /\ s \in DOMAIN db.students
    BY <1>0, <2>1, <2>2, <2>3, PutSound
  <2> HIDE DEF db
  <2>5. QED BY <1>02, <2>2, <2>4, AdmitSound, SaveSound
<1>4. ASSUME NEW s \in DOMAIN view[t].students, NEW student \in Student, NEW issue,
             UpdateStudent(t, s, student, issue)
      PROVE  AllSound'
  <2> DEFINE db == PutStudent(view[t], s, student)
  <2>1. s \in 1..MaxStudents
    BY <1>0 DEF Listed
  <2>2. PICK added : Save(t, IF student.active /\ issue THEN Admit(db, s, added, now) ELSE db)
    BY <1>4 DEF UpdateStudent
  <2>3. student.batches \subseteq DOMAIN db.batches
    BY <1>4 DEF UpdateStudent
  <2>4. db.batches = view[t].batches
    BY <1>0, TableReplaced DEF PutStudent, Numbered
  <2>5. Numbered(db) /\ Sound(db) /\ s \in DOMAIN db.students
    BY <1>0, <2>1, <2>3, <2>4, PutSound
  <2> HIDE DEF db
  <2>6. QED BY <1>02, <2>2, <2>5, AdmitSound, SaveSound
<1>5. ASSUME NEW ids, NEW active \in BOOLEAN, SetStudentsStatus(t, ids, active) PROVE AllSound'
  <2> DEFINE f == [s \in DOMAIN view[t].students |->
                     IF s \in ids THEN [view[t].students[s] EXCEPT !.active = active]
                     ELSE view[t].students[s]]
  <2>1. Save(t, [view[t] EXCEPT !.students = f])
    BY <1>5 DEF SetStudentsStatus
  <2>2. DOMAIN f \subseteq 1..MaxStudents
    BY <1>0 DEF Listed
  <2>3. \A s \in DOMAIN f : f[s] \in Student /\ f[s].batches \subseteq DOMAIN view[t].batches
    BY <1>0 DEF Sound, WellFormed, Student
  <2> HIDE DEF f
  <2>4. Sound([view[t] EXCEPT !.students = f])
    BY <1>0, <2>2, <2>3, RosterSound
  <2>5. QED BY <2>1, <2>4, SaveSound
<1>6. ASSUME NEW ids, DeleteStudents(t, ids) PROVE AllSound'
  BY <1>0, <1>6, DropSound, SaveSound DEF DeleteStudents
<1>7. ASSUME NEW b \in Batch, NEW batch \in BatchRow,
             AddBatch(t, b, batch) \/ UpdateBatch(t, b, batch)
      PROVE  AllSound'
  <2> DEFINE f == [x \in (DOMAIN view[t].batches) \cup {b} |->
                     IF x = b THEN batch ELSE view[t].batches[x]]
  <2>1. Save(t, [view[t] EXCEPT !.batches = f])
    BY <1>7 DEF AddBatch, UpdateBatch, PutBatch
  <2>2. /\ DOMAIN view[t].batches \subseteq DOMAIN f /\ DOMAIN f \subseteq Batch
        /\ \A x \in DOMAIN f : f[x] \in BatchRow
    BY <1>0 DEF Sound, WellFormed
  <2> HIDE DEF f
  <2>3. Sound([view[t] EXCEPT !.batches = f])
    BY <1>0, <2>2, RosterSound
  <2>4. QED BY <2>1, <2>3, SaveSound
<1>8. ASSUME NEW period \in Period, IssueInvoices(t, period) PROVE AllSound'
  <2> DEFINE all == (DOMAIN view[t].students) \X (DOMAIN view[t].batches)
             pairs == Unbilled(view[t], period)
  <2>1. pairs \in SUBSET all
    BY DEF Unbilled
  <2>2. IsFiniteSet(pairs)
    BY <1>01, <2>1, FS_Product, FS_Subset
  <2>3. Save(t, [view[t] EXCEPT !.invoices = @ \cup NewInvoices(view[t], pairs, period)])
    BY <1>8 DEF IssueInvoices
  <2> HIDE DEF pairs
  <2>4. Sound([view[t] EXCEPT !.invoices = @ \cup NewInvoices(view[t], pairs, period)])
    BY <1>0, <1>01, <2>1, <2>2, BillSound
  <2>5. QED BY <2>3, <2>4, SaveSound
<1>9. ASSUME NEW s \in DOMAIN view[t].students, NEW b \in DOMAIN view[t].batches,
             NEW period \in Period, AddInvoice(t, s, b, period)
      PROVE  AllSound'
  <2> DEFINE pairs == {<<s, b>>}
  <2>1. pairs \in SUBSET ((DOMAIN view[t].students) \X (DOMAIN view[t].batches))
    OBVIOUS
  <2>2. IsFiniteSet(pairs)
    BY FS_Singleton
  <2>3. Save(t, [view[t] EXCEPT !.invoices = @ \cup NewInvoices(view[t], pairs, period)])
    BY <1>9 DEF AddInvoice
  <2> HIDE DEF pairs
  <2>4. Sound([view[t] EXCEPT !.invoices = @ \cup NewInvoices(view[t], pairs, period)])
    BY <1>0, <1>01, <2>1, <2>2, BillSound
  <2>5. QED BY <2>3, <2>4, SaveSound
<1>10. ASSUME NEW i \in view[t].invoices, WaiveInvoice(t, i) PROVE AllSound'
  BY <1>0, <1>10, WaiveSound, SaveSound DEF WaiveInvoice
<1>11. QED BY <1>1, <1>2, <1>3, <1>4, <1>5, <1>6, <1>7, <1>8, <1>9, <1>10

(* In every step every copy stays sound. *)
LEMMA StepSound ==
  ASSUME AllNumbered, AllSound, [Next]_vars
  PROVE  AllSound'
<1>1. CASE UNCHANGED vars
  BY <1>1 DEF vars, AllSound, Histories, Sound, WellFormed, Received
<1>2. CASE MonthPasses
  <2>1. now' \in Period
    BY <1>2, BoundsGiven DEF MonthPasses, AllSound, Period
  <2>2. QED BY <1>2, <2>1 DEF MonthPasses, AllSound, Histories, Sound, WellFormed, Received
<1>3. \A t \in Tab : \A b \in DOMAIN view[t].batches : b \in Batch
  BY DEF AllNumbered, Numbered, Listed
<1>4. ASSUME NEW t \in Tab, Reload(t) \/ Pay(t) PROVE AllSound'
  BY <1>4, TabSound
<1>5. ASSUME NEW t \in Tab, NEW student \in Student,
             \/ \E period \in 0..now : AddStudent(t, student, period)
             \/ \E s \in DOMAIN view[t].students, issue \in BOOLEAN :
                  UpdateStudent(t, s, student, issue)
      PROVE  AllSound'
  BY <1>5, TabSound
<1>6. ASSUME NEW t \in Tab, NEW ids,
             (\E active \in BOOLEAN : SetStudentsStatus(t, ids, active)) \/ DeleteStudents(t, ids)
      PROVE  AllSound'
  BY <1>6, TabSound
<1>7. ASSUME NEW t \in Tab,
             \/ \E b \in Batch, batch \in BatchRow : AddBatch(t, b, batch)
             \/ \E b \in DOMAIN view[t].batches, batch \in BatchRow : UpdateBatch(t, b, batch)
      PROVE  AllSound'
  BY <1>3, <1>7, TabSound
<1>8. ASSUME NEW t \in Tab,
             \/ \E period \in Period : period <= now + 1 /\ IssueInvoices(t, period)
             \/ \E s \in DOMAIN view[t].students, b \in DOMAIN view[t].batches, period \in Period :
                  AddInvoice(t, s, b, period)
             \/ \E i \in view[t].invoices : WaiveInvoice(t, i)
      PROVE  AllSound'
  BY <1>8, TabSound
<1>9. QED BY <1>1, <1>2, <1>4, <1>5, <1>6, <1>7, <1>8 DEF Next

(* Nobody owes or has paid anything in a new institute. *)
LEMMA InitSound == Init => AllSound
<1> SUFFICES ASSUME Init PROVE AllSound
  OBVIOUS
<1>1. Sound(EmptyInstitute)
  BY FS_EmptySet DEF Sound, WellFormed, EmptyInstitute
<1>2. QED BY <1>1, BoundsGiven DEF Init, AllSound, Histories, Period

(* Every record stays what it is, in every tab and in what is saved. *)
THEOREM LedgerTyped == Spec => []TypeOK
<1>1. AllSound => TypeOK
  BY DEF AllSound, Histories, Sound, TypeOK
<1>2. AllNumbered /\ AllSound /\ [Next]_vars => (AllNumbered /\ AllSound)'
  BY StepNumbered, StepSound
<1>3. QED BY InitNumbered, InitSound, <1>1, <1>2, PTL DEF Spec

(* What is received for an invoice never exceeds its amount: with any number *)
(* of tabs, whatever is waived, reinstated, deleted or issued in between.  *)
THEOREM NobodyOverpays == Spec => []NeverOverpaid
<1>1. AllSound => NeverOverpaid
  BY PaidIsReceived DEF AllSound, Sound, NeverOverpaid
<1>2. AllNumbered /\ AllSound /\ [Next]_vars => (AllNumbered /\ AllSound)'
  BY StepNumbered, StepSound
<1>3. QED BY InitNumbered, InitSound, <1>1, <1>2, PTL DEF Spec

-----------------------------------------------------------------------------
(* Receipts.  In one tab, a payment a receipt was shown for stays on file.  *)
Kept ==
  /\ receipts \subseteq stored.payments
  /\ \A t \in Tab : receipts \subseteq view[t].payments

(* Saving a copy that drops no payment drops no receipt. *)
LEMMA SaveKeeps ==
  ASSUME AllNumbered, Kept, \A t, u \in Tab : t = u,
         NEW t \in Tab, NEW db, view[t].payments \subseteq db.payments, Save(t, db)
  PROVE  Kept'
<1>1. view' = [view EXCEPT ![t] = db] /\ stored' = db
        /\ receipts' = receipts \cup (db.payments \ view[t].payments)
  BY DEF Save
<1>2. \A u \in Tab : view'[u] = db
  BY <1>1 DEF AllNumbered
<1>3. QED BY <1>1, <1>2 DEF Kept

(* The operations of the screens add payments, or leave them alone. *)
LEMMA TablesKeepPayments ==
  ASSUME NEW db, Shaped(db), NEW x
  PROVE  /\ [db EXCEPT !.students = x].payments = db.payments /\ Shaped([db EXCEPT !.students = x])
         /\ [db EXCEPT !.batches = x].payments = db.payments
         /\ [db EXCEPT !.invoices = x].payments = db.payments
         /\ [db EXCEPT !.payments = x].payments = x
  BY DEF Shaped

(* A store action of a screen keeps the receipts of its tab. *)
LEMMA TabKeeps ==
  ASSUME AllNumbered, Kept, \A t, u \in Tab : t = u, NEW t \in Tab
  PROVE  /\ Reload(t) => Kept'
         /\ Pay(t) => Kept'
         /\ \A student, period : AddStudent(t, student, period) => Kept'
         /\ \A s, student, issue : UpdateStudent(t, s, student, issue) => Kept'
         /\ \A ids, active : SetStudentsStatus(t, ids, active) => Kept'
         /\ \A b, batch : AddBatch(t, b, batch) \/ UpdateBatch(t, b, batch) => Kept'
         /\ \A period : IssueInvoices(t, period) => Kept'
         /\ \A i \in view[t].invoices : WaiveInvoice(t, i) => Kept'
<1>0. Shaped(view[t])
  BY DEF AllNumbered, Numbered
<1>1. ASSUME NEW db, Save(t, db), db.payments = view[t].payments PROVE Kept'
  BY <1>1, SaveKeeps
<1>2. ASSUME NEW x, \/ Save(t, [view[t] EXCEPT !.students = x])
                    \/ Save(t, [view[t] EXCEPT !.batches = x])
                    \/ Save(t, [view[t] EXCEPT !.invoices = x])
      PROVE  Kept'
  BY <1>0, <1>1, <1>2, TablesKeepPayments
<1>3. ASSUME NEW x, NEW s, NEW joined, NEW period,
             Save(t, Admit([view[t] EXCEPT !.students = x], s, joined, period))
      PROVE  Kept'
  <2> DEFINE db == [view[t] EXCEPT !.students = x]
  <2>1. Shaped(db) /\ db.payments = view[t].payments
    BY <1>0, TablesKeepPayments
  <2>2. Save(t, Admit(db, s, joined, period))
    BY <1>3
  <2> HIDE DEF db
  <2>3. Admit(db, s, joined, period).payments = db.payments
    BY <2>1, TablesKeepPayments DEF Admit
  <2>4. QED BY <1>1, <2>1, <2>2, <2>3
<1>4. ASSUME Reload(t) PROVE Kept'
  BY <1>4 DEF Reload, Kept, AllNumbered
<1>5. ASSUME Pay(t) PROVE Kept'
  <2>1. PICK order, part : RecordPayments(t, order, part)
    BY <1>5 DEF Pay
  <2>2. PICK new : Save(t, [view[t] EXCEPT !.payments = view[t].payments \cup new])
    BY <2>1 DEF RecordPayments
  <2> DEFINE db == [view[t] EXCEPT !.payments = view[t].payments \cup new]
  <2>3. db.payments = view[t].payments \cup new
    BY <1>0, TablesKeepPayments
  <2>4. Save(t, db)
    BY <2>2
  <2> HIDE DEF db
  <2>5. QED BY <2>3, <2>4, SaveKeeps
<1>6. ASSUME NEW student, NEW period, AddStudent(t, student, period) PROVE Kept'
  <2>1. PICK x, s : \/ Save(t, Admit([view[t] EXCEPT !.students = x], s, student.batches, period))
                    \/ Save(t, [view[t] EXCEPT !.students = x])
    BY <1>6 DEF AddStudent, PutStudent
  <2>2. QED BY <1>2, <1>3, <2>1
<1>7. ASSUME NEW s, NEW student, NEW issue, UpdateStudent(t, s, student, issue) PROVE Kept'
  <2>1. PICK x, added : \/ Save(t, Admit([view[t] EXCEPT !.students = x], s, added, now))
                        \/ Save(t, [view[t] EXCEPT !.students = x])
    BY <1>7 DEF UpdateStudent, PutStudent
  <2>2. QED BY <1>2, <1>3, <2>1
<1>8. ASSUME NEW ids, NEW active, SetStudentsStatus(t, ids, active) PROVE Kept'
  BY <1>2, <1>8 DEF SetStudentsStatus
<1>9. ASSUME NEW b, NEW batch, AddBatch(t, b, batch) \/ UpdateBatch(t, b, batch) PROVE Kept'
  BY <1>2, <1>9 DEF AddBatch, UpdateBatch, PutBatch
<1>10. ASSUME NEW period, IssueInvoices(t, period) PROVE Kept'
  BY <1>2, <1>10 DEF IssueInvoices
<1>11. ASSUME NEW i \in view[t].invoices, WaiveInvoice(t, i) PROVE Kept'
  BY <1>2, <1>11 DEF WaiveInvoice
<1>12. QED BY <1>4, <1>5, <1>6, <1>7, <1>8, <1>9, <1>10, <1>11

(* A number names one record, nobody pays more than is due, and in one tab  *)
(* no payment a receipt was shown for is lost, whatever is billed, waived or *)
(* re-enrolled meanwhile.                                                   *)
THEOREM ReceiptsStay == Spec => []ReceiptsStand
<1> DEFINE OneTab == ByScreen = TRUE /\ \A t, u \in Tab : t = u
           Inv == AllNumbered /\ AllSound /\ (OneTab => Kept)
<1>1. Init => Inv
  BY InitNumbered, InitSound DEF Init, Kept, EmptyInstitute
<1>2. ASSUME AllNumbered, Kept, OneTab, [Next]_vars PROVE Kept'
  <2>1. CASE view' = view /\ stored' = stored /\ receipts' = receipts
    BY <1>2, <2>1 DEF Kept
  <2>2. ASSUME NEW t \in Tab,
         \/ Reload(t) \/ Pay(t)
         \/ \E student, period : AddStudent(t, student, period)
         \/ \E s, student, issue : UpdateStudent(t, s, student, issue)
         \/ \E ids, active : SetStudentsStatus(t, ids, active)
         \/ \E b, batch : AddBatch(t, b, batch) \/ UpdateBatch(t, b, batch)
         \/ \E period : IssueInvoices(t, period)
         \/ \E i \in view[t].invoices : WaiveInvoice(t, i)
        PROVE Kept'
    BY <1>2, <2>2, TabKeeps
  <2>3. QED BY <1>2, <2>1, <2>2 DEF Next, MonthPasses, DeleteStudents, AddInvoice, vars
<1>3. Inv /\ [Next]_vars => Inv'
  BY <1>2, StepNumbered, StepSound
<1>4. AllNumbered => NumbersUnique
  BY DEF AllNumbered, Numbered, InvoicesNumbered, PaymentsNumbered, NumbersUnique
<1>5. AllSound => NeverOverpaid
  BY PaidIsReceived DEF AllSound, Sound, NeverOverpaid
<1>6. AllNumbered => DOMAIN view = Tab
  BY DEF AllNumbered
<1>7. Inv => ReceiptsStand
  BY <1>4, <1>5, <1>6 DEF Kept, ReceiptsKept, ReceiptsStand
<1>8. QED BY <1>1, <1>3, <1>7, PTL DEF Spec
=============================================================================
