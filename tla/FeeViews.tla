------------------------------ MODULE FeeViews ------------------------------
(***************************************************************************)
(* What the screens of the web app make of the invoices and payments: the   *)
(* fee pages of the office, the dashboard, the student's profile, and the   *)
(* family's portal, each with sums of its own.                              *)
(*                                                                         *)
(* FeeLedger has how invoices and payments come about; here they come as    *)
(* they may.  Days are numbered; even months have MonthDays of them and odd *)
(* ones a day less.  A student's campus is theirs for good.                 *)
(* Op_Fault is Op with one fault, to show that a property depends on Op.   *)
(***************************************************************************)
EXTENDS Integers, FiniteSetsExt

CONSTANTS
  Student, Batch,
  Campus, campusOf,          \* campusOf[s] \in Campus
  Amount,                    \* what every invoice asks for
  Method,                    \* ways to pay
  DueInDays, GraceDays, MonthDays,
  LastDay, MaxInvoices, MaxPayments      \* bounds

VARIABLES invoices, payments, today

vars == <<invoices, payments, today>>

(* The calendar. *)
TwoMonths == 2 * MonthDays - 1
MonthOf(d) == 2 * (d \div TwoMonths) + (IF d % TwoMonths >= MonthDays THEN 1 ELSE 0)
DayOfMonth(d) == (d % TwoMonths) - (IF d % TwoMonths >= MonthDays THEN MonthDays ELSE 0)
StartOfMonth(m) == TwoMonths * (m \div 2) + (IF m % 2 = 1 THEN MonthDays ELSE 0)

Init == invoices = {} /\ payments = {} /\ today = 0

IssueInvoice(s, b) ==
  /\ Cardinality(invoices) < MaxInvoices
  /\ invoices' = invoices \cup
       {[no |-> Cardinality(invoices) + 1, student |-> s, batch |-> b, period |-> MonthOf(today),
         due |-> today + DueInDays, amount |-> Amount, waived |-> FALSE]}
  /\ UNCHANGED <<payments, today>>

WaiveInvoice(i) ==
  /\ invoices' = (invoices \ {i}) \cup {[i EXCEPT !.waived = ~@]}
  /\ UNCHANGED <<payments, today>>

-----------------------------------------------------------------------------
(* The rules: domain/fees.ts. *)
Sum(f) == MapThenSumSet(LAMBDA x : f[x], DOMAIN f)
Collected(pays) == Sum([p \in pays |-> p.amount])
PaidBy(pays, i) == Collected({p \in pays : p.no = i.no})

StatusOf(i, paid) ==
  IF i.waived \/ paid >= i.amount THEN "Paid"
  ELSE IF today > i.due + GraceDays THEN "Overdue" ELSE "Pending"

View(i, paid, status, balance) ==
  [invoice |-> i, paid |-> paid, status |-> status, balance |-> balance,
   late |-> IF status = "Overdue" THEN today - (i.due + GraceDays) ELSE 0]
Unsettled(i, paid) == IF paid >= i.amount THEN 0 ELSE i.amount - paid
ViewInvoice_KeepsWaived(i, pays) ==
  View(i, PaidBy(pays, i), StatusOf(i, PaidBy(pays, i)), Unsettled(i, PaidBy(pays, i)))
ViewInvoice(i, pays) ==
  View(i, PaidBy(pays, i), StatusOf(i, PaidBy(pays, i)),
       IF i.waived THEN 0 ELSE Unsettled(i, PaidBy(pays, i)))

Balances(views) == Sum([v \in views |-> v.balance])
Billed(invs) == Sum([i \in invs |-> IF i.waived THEN 0 ELSE i.amount])

(* A student's entry in the index of all fees. *)
Summary(views, overdue, pending, last) ==
  [overdue |-> overdue, pending |-> pending, outstanding |-> overdue + pending,
   status |-> IF overdue > 0 THEN "Overdue" ELSE IF pending > 0 THEN "Pending" ELSE "Paid",
   billed |-> Billed({v.invoice : v \in views}), paid |-> Sum([v \in views |-> v.paid]),
   last |-> IF views = {} THEN -1 ELSE last, invoices |-> views]
SummaryOf(views, last) ==
  Summary(views, Balances({v \in views : v.status = "Overdue"}),
          Balances({v \in views : v.status = "Pending"}), last)
FeeSummary(s, invs, pays) ==
  SummaryOf({ViewInvoice(i, pays) : i \in {j \in invs : j.student = s}},
            Max({p.date : p \in {q \in pays : q.student = s}} \cup {-1}))
FeesOf(s) == FeeSummary(s, invoices, payments)

CollectedIn(pays, m) == Collected({p \in pays : MonthOf(p.date) = m})
BilledIn(invs, m) == Billed({i \in invs : i.period = m})

RecordPayment(i, amount, method) ==
  /\ Cardinality(payments) < MaxPayments /\ amount <= ViewInvoice(i, payments).balance
  /\ payments' = payments \cup
       {[receipt |-> Cardinality(payments) + 1, no |-> i.no, student |-> i.student,
         amount |-> amount, date |-> today, method |-> method]}
  /\ UNCHANGED <<invoices, today>>

DayPasses == today < LastDay /\ today' = today + 1 /\ UNCHANGED <<invoices, payments>>

Next ==
  \/ DayPasses
  \/ \E s \in Student, b \in Batch : IssueInvoice(s, b)
  \/ \E i \in invoices :
       \/ WaiveInvoice(i)
       \/ \E amount \in 1..Amount, method \in Method : RecordPayment(i, amount, method)

Spec == Init /\ [][Next]_vars

-----------------------------------------------------------------------------
(* The fee pages, for the campus in view. *)
Students(c) == {s \in Student : campusOf[s] = c}
InvoicesOf(c) == {i \in invoices : campusOf[i.student] = c}
PaymentsOf(c) == {p \in payments : campusOf[p.student] = c}

DueRows(c) == {s \in Students(c) : FeesOf(s).outstanding > 0}
Unpaid(s) == {v \in FeesOf(s).invoices : v.balance > 0}
MostLate(s) == Max({v.late : v \in Unpaid(s)} \cup {0})
FilterDues(rows, due, b) ==
  {s \in rows : /\ due = "Overdue" => FeesOf(s).overdue > 0
                /\ due = "Pending" => FeesOf(s).pending > 0 /\ FeesOf(s).overdue = 0
                /\ b # "" => \E v \in Unpaid(s) : v.invoice.batch = b}

(* The tab of dues: who owes what, since when, and is asked for it. *)
DuesTab(c, due, b) ==
  [s \in FilterDues(DueRows(c), due, b) |->
     [pending |-> FeesOf(s).pending, overdue |-> FeesOf(s).overdue, days |-> MostLate(s)]]

InvoiceRows(c) == {ViewInvoice(i, payments) : i \in InvoicesOf(c)}
FilterInvoices(rows, status) ==
  {v \in rows : /\ status = "Waived" => v.invoice.waived
                /\ status = "Unpaid" => v.balance > 0
                /\ status = "Paid" => v.status = "Paid" /\ ~v.invoice.waived
                /\ status \in {"Pending", "Overdue"} => v.status = status}
InvoiceTotals(rows) ==
  [billed |-> Billed({v.invoice : v \in rows}), paid |-> Sum([v \in rows |-> v.paid]),
   balance |-> Balances(rows)]
(* The tab of invoices, its totals, and the buttons beside each of them. *)
InvoicesList(rows) ==
  [rows |-> rows, totals |-> InvoiceTotals(rows),
   collect |-> {v \in rows : v.balance > 0}, reinstate |-> {v \in rows : v.invoice.waived},
   waive |-> {v \in rows : v.balance > 0 /\ ~v.invoice.waived}]
InvoicesTab(c, status) == InvoicesList(FilterInvoices(InvoiceRows(c), status))

FilterPayments(rows, from, to) == {p \in rows : from <= p.date /\ p.date <= to}
PaymentsTab(c, from, to) ==
  [rows |-> FilterPayments(PaymentsOf(c), from, to),
   total |-> Collected(FilterPayments(PaymentsOf(c), from, to))]

(* Month to date against the same days of the month before. *)
ThisMonth(current) ==
  [billed |-> Billed({v.invoice : v \in current}),
   collected |-> Sum([v \in current |-> IF v.paid < v.invoice.amount THEN v.paid ELSE v.invoice.amount])]
OverviewOf(c, month, pays, views, thisMonth) ==
  [collected |-> CollectedIn(pays, month),
   prevToDate |-> Collected({p \in pays : /\ MonthOf(p.date) = month - 1
                                          /\ DayOfMonth(p.date) <= DayOfMonth(today)}),
   pending |-> Sum([s \in Students(c) |-> FeesOf(s).pending]),
   overdue |-> Sum([s \in Students(c) |-> FeesOf(s).overdue]),
   overdueStudents |-> Cardinality({s \in Students(c) : FeesOf(s).overdue > 0}),
   pendingStudents |-> Cardinality({s \in Students(c) : FeesOf(s).pending > 0}),
   billedNow |-> thisMonth.billed, collectedNow |-> thisMonth.collected,
   overdueBy |-> [b \in Batch |-> Balances({v \in views : v.status = "Overdue" /\ v.invoice.batch = b})],
   monthly |-> [m \in 0..month |-> [collected |-> CollectedIn(pays, m), billed |-> BilledIn(InvoicesOf(c), m)]]]
Overview(c) ==
  OverviewOf(c, MonthOf(today), PaymentsOf(c), InvoiceRows(c),
    ThisMonth({v \in InvoiceRows(c) : v.invoice.period = MonthOf(today) /\ ~v.invoice.waived}))

(* Its tiles and charts: the year so far, and the batches listed as overdue. *)
FeeOverview(o) ==
  [year |-> Sum([m \in DOMAIN o.monthly |-> o.monthly[m].collected]),
   worst |-> {b \in Batch : o.overdueBy[b] > 0}]

ReceiptTotal(nos) == Collected({p \in payments : p.receipt \in nos})
BalanceOnReceipt(p) == IF p.date = today THEN FeesOf(p.student).outstanding ELSE -1

(* The dashboard. *)
DashboardOf(c, pays, start, prev) ==
  [mtd |-> Collected({p \in pays : p.date >= start /\ p.date <= today}),
   prevMtd |-> Collected({p \in pays : /\ prev >= 0 /\ p.date >= prev
                                       /\ p.date <= Min({start - 1, prev + DayOfMonth(today)})}),
   outstanding |-> Sum([s \in Students(c) |-> FeesOf(s).outstanding]),
   overdue |-> {s \in Students(c) : FeesOf(s).overdue > 0},
   daysOverdue |-> [s \in Students(c) |->
     Max({v.late : v \in {w \in FeesOf(s).invoices : w.status = "Overdue"}} \cup {0})]]
DashboardFees(c) ==
  DashboardOf(c, PaymentsOf(c), StartOfMonth(MonthOf(today)),
              IF MonthOf(today) = 0 THEN -1 ELSE StartOfMonth(MonthOf(today) - 1))

(* The profile and the portal. *)
PaymentHistory(s) == {p \in payments : p.student = s}
(* The profile's tab: what may be paid, and what was. *)
FeesTab(s) ==
  [pay |-> {v \in FeesOf(s).invoices : v.balance > 0}, history |-> PaymentHistory(s),
   received |-> Collected(PaymentHistory(s))]
PortalFees(s) == FeeSummary(s, {i \in invoices : i.student = s}, PaymentHistory(s))
NextDue(s) == {v \in PortalFees(s).invoices :
                 v.balance > 0 /\ \A w \in PortalFees(s).invoices : w.balance > 0 => v.invoice.due <= w.invoice.due}
ReceiptGroups(s) ==
  {{p \in PaymentHistory(s) : p.date = q.date /\ p.method = q.method} : q \in PaymentHistory(s)}

-----------------------------------------------------------------------------
(* Invoices and payments are numbered, and no payment is of an invoice that *)
(* is not there.                                                            *)
TypeOK ==
  /\ {i.no : i \in invoices} = 1..Cardinality(invoices) /\ today \in 0..LastDay
  /\ \A i \in invoices : i.student \in Student /\ i.batch \in Batch /\ i.due \in Nat
  /\ {p.receipt : p \in payments} = 1..Cardinality(payments)
  /\ \A p \in payments : /\ p.amount \in 1..Amount /\ p.date \in 0..today
                         /\ \E i \in invoices : i.no = p.no /\ i.student = p.student

(* What is due is the same on every page of a campus, from whichever side   *)
(* it is added up, and a tile counts the rows its link leads to.            *)
DuesAgreeOn(c, o, d, rows) ==
  /\ o.pending + o.overdue = Sum([s \in rows |-> FeesOf(s).outstanding])
  /\ o.pending + o.overdue = d.outstanding
  /\ o.pending + o.overdue = InvoicesTab(c, "Unpaid").totals.balance
  /\ o.overdue = Sum([b \in Batch |-> o.overdueBy[b]])
  /\ DOMAIN DuesTab(c, "Overdue", "") = d.overdue /\ o.overdueStudents = Cardinality(d.overdue)
  /\ \A s \in d.overdue : d.daysOverdue[s] = DuesTab(c, "Overdue", "")[s].days /\ d.daysOverdue[s] > 0
  /\ \A b \in FeeOverview(o).worst : DOMAIN DuesTab(c, "Overdue", b) # {}
DuesAgree ==
  \A c \in Campus : DuesAgreeOn(c, Overview(c), DashboardFees(c), DueRows(c))

(* The filters of the dues and of the invoices split their lists: every row *)
(* is under one of them and none under two; only what is unpaid can be      *)
(* waived, and only what is waived can be reinstated.                       *)
FilterSplits(rows, shown, all) ==
  /\ UNION {shown[k] : k \in {"Paid", "Pending", "Overdue", "Waived"}} = rows
  /\ \A k, l \in {"Paid", "Pending", "Overdue", "Waived"} : k # l => shown[k] \cap shown[l] = {}
  /\ shown["Unpaid"] = shown["Pending"] \cup shown["Overdue"]
  /\ all.collect = shown["Unpaid"] /\ all.waive = shown["Unpaid"] /\ all.reinstate = shown["Waived"]
DuesSplit(dues, overdue, pending) == dues = overdue \cup pending /\ overdue \cap pending = {}
FiltersSplit ==
  \A c \in Campus :
    /\ FilterSplits(InvoiceRows(c),
         [k \in {"Paid", "Pending", "Overdue", "Waived", "Unpaid"} |-> InvoicesTab(c, k).rows],
         InvoicesTab(c, ""))
    /\ DuesSplit(DueRows(c), DOMAIN DuesTab(c, "Overdue", ""), DOMAIN DuesTab(c, "Pending", ""))

(* Money received is the same by month, by day and by receipt, in months of *)
(* different lengths too, and no more than was billed counts as collected.  *)
MoneyAgreesOn(c, o, d) ==
  /\ o.collected = d.mtd /\ o.prevToDate = d.prevMtd
  /\ FeeOverview(o).year = PaymentsTab(c, 0, today).total
  /\ o.collected = PaymentsTab(c, StartOfMonth(MonthOf(today)), today).total
  /\ o.collectedNow <= o.billedNow
MoneyAgrees == \A c \in Campus : MoneyAgreesOn(c, Overview(c), DashboardFees(c))

(* The family sees what the office sees of their child, pays nothing twice, *)
(* and is told of the bill that is most overdue whenever one is.            *)
FamilySees(s, f, tab, next) ==
  /\ f = FeesOf(s)
  /\ UNION ReceiptGroups(s) = tab.history /\ tab.received = f.paid
  /\ \A v \in f.invoices : v \in tab.pay <=> v.status # "Paid"
  /\ Sum([g \in ReceiptGroups(s) |-> Collected(g)]) = f.paid
  /\ f.outstanding > 0 <=> next # {}
  /\ f.status = "Overdue" <=> \E v \in next : v.status = "Overdue"
  /\ \A v \in next : v.late = MostLate(s)
  /\ \A p \in PaymentHistory(s) : /\ ReceiptTotal({p.receipt}) = p.amount
                                  /\ BalanceOnReceipt(p) \in {-1, f.outstanding}
FamilyAgrees ==
  \A s \in Student : FamilySees(s, PortalFees(s), FeesTab(s), NextDue(s))

FeesAgree == DuesAgree /\ FiltersSplit /\ MoneyAgrees /\ FamilyAgrees
=============================================================================
