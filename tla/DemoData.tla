------------------------------ MODULE DemoData ------------------------------
(***************************************************************************)
(* The demo institute of the web app (frontend/src/data/seed.ts): one long  *)
(* function that makes staff, batches and students up, and then derives     *)
(* registers, coverage, assessments, invoices, payments and logins from     *)
(* them, all relative to the day it is called.  A step is one of its parts; *)
(* what it draws from its generator is a choice.                            *)
(*                                                                         *)
(* A day counts from 1 June, when the academic year starts, and an hour is  *)
(* half an hour of the clock.  Left out are names, amounts (a payment is    *)
(* always of its whole invoice), marks and scores, which are drawn within   *)
(* their range for whoever is on a roll, and the activity log.              *)
(***************************************************************************)
EXTENDS FiniteSets, FiniteSetsExt, Integers, Sequences, SequencesExt

CONSTANTS
  Days,           \* when the data may be made: days of one academic year
  Hours,
  FirstWeekday,   \* the weekday of 1 June, 0 for Sunday
  Rows,           \* bound: the rows of the design that are taken
  Running,        \* bound: the active batches that are taken, in order
  Capacity,       \* bound: their seats, scaled down
  Topics,         \* bound: topics of each syllabus
  Joining,        \* bound: the days before today on which students join
  Paces           \* bound: how students who are not of the design pay

VARIABLES today, nowHM, made, unfilled, students, sessions, coverage, assessments, unpaid, accounts
vars == <<today, nowHM, made, unfilled, students, sessions, coverage, assessments, unpaid, accounts>>

(* The calendar, without leap days; a day past the end of a month is one of *)
(* the next month.                                                          *)
Passed == <<0, 30, 61, 92, 122, 153, 183, 214, 245, 273, 304, 334>>
FirstOf(m) == 365 * (m \div 12) + Passed[(m % 12) + 1]
MonthOf(d) == 12 * (d \div 365) + Cardinality({k \in 1..12 : Passed[k] <= d % 365}) - 1
DayOf(d) == d - FirstOf(MonthOf(d)) + 1
addMonths(d, n) == FirstOf(MonthOf(d) + n) + DayOf(d) - 1
weekdayOf(d) == (d + FirstWeekday) % 7
holidays == {FirstOf(2) + 14, FirstOf(4) + 1, FirstOf(6) + 24, FirstOf(7) + 25}

staff ==
  <<"admin", "faculty", "faculty", "faculty", "faculty", "faculty", "admin", "accountant", "front desk", "faculty">>
Invited == {10}
mk(subject, grade, days, from, to, member) ==
  [subject |-> subject, grade |-> grade, days |-> days, from |-> from, to |-> to, faculty |-> member]
batches(c) ==
  CASE c = "A1" -> mk("phy", 11, {1, 3, 5}, 22, 25, 1)
    [] c = "C1" -> mk("che", 12, {1, 3, 5}, 28, 31, 3)
    [] c = "S1" -> mk("bio", 10, {2, 4}, 30, 33, 5)
    [] c = "A2" -> mk("phy", 10, {2, 4, 6}, 20, 23, 4)
    [] c = "M2" -> mk("mat", 10, {2, 4, 6}, 33, 36, 2)
    [] c = "M1" -> mk("mat", 10, {1, 3, 5}, 32, 35, 2)
    [] c = "M3" -> mk("mat", 12, {1, 3, 5}, 35, 38, 2)
    [] c = "C2" -> mk("che", 11, {2, 4, 6}, 28, 31, 3)
    [] c = "B2" -> mk("bio", 12, {1, 3, 5}, 18, 21, 5)
    [] c = "A3" -> mk("phy", 12, {2, 4, 6}, 35, 38, 4)
    [] c = "E1" -> mk("eng", 10, {3, 6}, 22, 25, 6)
    [] c = "M4" -> mk("mat", 11, {2, 4, 6}, 22, 25, 2)
    [] c = "N1" -> mk("phy", 10, {0}, 20, 25, 4)
    [] c = "P1" -> mk("phy", 12, {0, 6}, 18, 24, 4)
Active == {Running[k] : k \in DOMAIN Running}
Codes == Active \cup {"P1"}                                       \* P1 is Upcoming
campus(c) == IF c = "N1" THEN "north" ELSE "central"

pinned(grade, taken, joined, status, skip) ==
  [grade |-> grade, campus |-> "central", batches |-> taken, joined |-> joined, status |-> status,
   access |-> "Active", pinned |-> TRUE, skip |-> skip, namesake |-> 0, phone |-> 0]
Design(d) ==
  <<pinned(10, {"M2"}, d - 99, "Active", 0),
    pinned(10, {"M2", "S1"}, d - 83, "Active", 0),
    pinned(11, {"A1"}, addMonths(d, -2) - 3, "Active", 1),
    pinned(10, {"M2"}, d - 102, "Active", 0),
    pinned(12, {"C1"}, addMonths(d, -4) - 12, "On Leave", 2),
    pinned(11, {"A1"}, d - 35, "Active", 0),
    pinned(10, {"M2"}, d - 80, "Active", 0)>>
DesignRows(d) == [i \in DOMAIN Rows |-> [Design(d)[Rows[i]] EXCEPT !.phone = i]]

Init ==
  /\ today \in Days /\ nowHM \in Hours
  /\ students = DesignRows(today)
  /\ unfilled = Running
  /\ made = "batches"
  /\ sessions = <<>> /\ coverage = <<>> /\ assessments = <<>> /\ unpaid = <<>> /\ accounts = {}

Roster(c) == {i \in DOMAIN students : c \in students[i].batches}
Least(seats) == (72 * seats + 50) \div 100
Seat(c) == unfilled # <<>> /\ c = Head(unfilled) /\ Cardinality(Roster(c)) < Capacity[c]

(* Students of one other batch who may take a seat in this one as well.     *)
pool(c) ==
  {i \in DOMAIN students :
     LET s == students[i]
     IN /\ ~s.pinned /\ s.grade = batches(c).grade /\ s.campus = campus(c)
        /\ Cardinality(s.batches) < 2
        /\ \A b \in s.batches : batches(b).subject # batches(c).subject}
FillFromPool(c) ==
  /\ Seat(c)
  /\ \E i \in pool(c) : students' = [students EXCEPT ![i].batches = @ \cup {c}]
  /\ UNCHANGED <<today, nowHM, made, unfilled, sessions, coverage, assessments, unpaid, accounts>>
(* Whose surname a new student may draw, beside one that matters to nobody. *)
Namesakes == {0} \cup {i \in DOMAIN students : students[i].pinned}
newStudent(c) ==
  /\ Seat(c)
  /\ \E ago \in Joining, status \in {"Active", "On Leave", "Inactive"},
        access \in {"Active", "Invited", "Not Invited"}, namesake \in Namesakes :
       students' = Append(students,
         [grade |-> batches(c).grade, campus |-> campus(c), batches |-> {c}, joined |-> today - ago,
          status |-> status, access |-> access, pinned |-> FALSE, skip |-> 0, namesake |-> namesake,
          phone |-> Len(students) + 1])
  /\ UNCHANGED <<today, nowHM, made, unfilled, sessions, coverage, assessments, unpaid, accounts>>
NextBatch ==
  /\ unfilled # <<>>
  /\ Cardinality(Roster(Head(unfilled))) >= Least(Capacity[Head(unfilled)])
  /\ unfilled' = Tail(unfilled)
  /\ UNCHANGED <<today, nowHM, made, students, sessions, coverage, assessments, unpaid, accounts>>

(* The first six in the last year register for the course that is to come.  *)
RegisterEarly ==
  LET eligible == SelectSeq([i \in DOMAIN students |-> i],
                    LAMBDA i : students[i].grade = 12 /\ students[i].status = "Active")
      first == {eligible[k] : k \in 1..Min({6, Len(eligible)})}
  IN /\ made = "batches" /\ unfilled = <<>>
     /\ made' = "students"
     /\ students' = [i \in DOMAIN students |->
          IF i \in first THEN [students[i] EXCEPT !.batches = @ \cup {"P1"}] ELSE students[i]]
     /\ UNCHANGED <<today, nowHM, unfilled, sessions, coverage, assessments, unpaid, accounts>>

(* Inactive students stopped coming a month ago.                            *)
activeOn(i, d) ==
  students[i].joined <= d /\ ~(students[i].status = "Inactive" /\ d > today - 30)
Held(c) ==
  LET batch == batches(c)
      closed == holidays
  IN {d \in 0..today : weekdayOf(d) \in batch.days /\ d \notin closed /\ ~(d = today /\ batch.to > nowHM)}
MarkRegisters ==
  /\ made = "students" /\ made' = "registers"
  /\ sessions' = [c \in Active |-> [d \in Held(c) |-> {i \in Roster(c) : activeOn(i, d)}]]
  /\ UNCHANGED <<today, nowHM, unfilled, students, coverage, assessments, unpaid, accounts>>

(* How far a batch got decides which topic each of its classes was about.   *)
Dates(c) == IF c \in DOMAIN sessions THEN DOMAIN sessions[c] ELSE {}
Reached(c) ==
  IF Dates(c) = {} THEN {0}
  ELSE {Max({1, r}) : r \in ((35 * Topics + 50) \div 100)..((65 * Topics + 50) \div 100)}
TopicOf(c, reached, d) == ((Cardinality({e \in Dates(c) : e < d}) * reached) \div Cardinality(Dates(c))) + 1
Coverage(c, reached) ==
  [t \in 1..Topics |->
     [status |-> IF t < reached THEN "Completed" ELSE IF t = reached THEN "In Progress" ELSE "Not Started",
      taught |-> {d \in Dates(c) : TopicOf(c, reached, d) = t}]]
CoverTopics ==
  /\ made = "registers" /\ made' = "coverage"
  /\ \E reached \in [Codes -> 0..Topics] :
       /\ \A c \in Codes : reached[c] \in Reached(c)
       /\ coverage' = [c \in Codes |-> Coverage(c, reached[c])]
  /\ UNCHANGED <<today, nowHM, unfilled, students, sessions, assessments, unpaid, accounts>>

(* An assessment every 18 days, over what was taught since the last one.    *)
Sat(c) == {d \in 20..(today - 1) : (d - 20) % 18 = 0}
SitAssessments ==
  /\ made = "coverage" /\ made' = "assessments"
  /\ assessments' = [c \in Active |-> [d \in Sat(c) |->
       [scored |-> {i \in Roster(c) : activeOn(i, d)},
        topics |-> {t \in 1..Topics : \E e \in coverage[c][t].taught : e > (IF d = 20 THEN 0 ELSE d - 18) /\ e <= d}]]]
  /\ UNCHANGED <<today, nowHM, unfilled, students, sessions, coverage, unpaid, accounts>>

(* Invoices: one for each month and running batch, on the day of joining.   *)
IssuedOn(i, period) == FirstOf(period) + Min({28, DayOf(students[i].joined)}) - 1
Invoices(i) ==
  {v \in (0..MonthOf(today)) \X (students[i].batches \cap Active) :
     LET on == IssuedOn(i, v[1])
     IN students[i].joined <= on /\ on <= today /\ activeOn(i, on)}
Position(c) == CHOOSE k \in DOMAIN Running : Running[k] = c
Before(v, w) == v[1] < w[1] \/ (v[1] = w[1] /\ Position(v[2]) < Position(w[2]))
Unpaid(i, pace) ==
  LET bills == Invoices(i)
      skipFrom == Cardinality(bills) - students[i].skip * Cardinality(students[i].batches \cap Active)
      pays(v) ==
        LET on == IssuedOn(i, v[1])
        IN /\ Cardinality({w \in bills : Before(w, v)}) < skipFrom
           /\ pace.payer = "defaulter" => today - on >= 45
           /\ on + pace.delay <= today
  IN {v \in bills : ~pays(v)}
PaceOf(i) == IF students[i].pinned THEN {[payer |-> "prompt", delay |-> 0]} ELSE Paces
CollectFees ==
  /\ made = "assessments" /\ made' = "fees"
  /\ \E pace \in [DOMAIN students -> UNION {PaceOf(i) : i \in DOMAIN students}] :
       /\ \A i \in DOMAIN students : pace[i] \in PaceOf(i)
       /\ unpaid' = [i \in DOMAIN students |-> Unpaid(i, pace[i])]
  /\ UNCHANGED <<today, nowHM, unfilled, students, sessions, coverage, assessments, accounts>>

(* A namesake of each student of the design becomes a sibling.              *)
Sibling(i) ==
  {j \in DOMAIN students : students[j].namesake = i /\ students[j].status = "Active"
                           /\ students[j].campus = students[i].campus}
ShareGuardians ==
  /\ made = "fees" /\ made' = "families"
  /\ students' = [j \in DOMAIN students |->
       IF \E i \in DOMAIN students : students[i].pinned /\ Sibling(i) # {} /\ j = Min(Sibling(i))
         THEN [students[j] EXCEPT !.phone = students[students[j].namesake].phone] ELSE students[j]]
  /\ UNCHANGED <<today, nowHM, unfilled, sessions, coverage, assessments, unpaid, accounts>>

(* A login for each student asked in, and one for each of their guardians,  *)
(* whose state is that of the first child.                                  *)
OpenAccounts ==
  LET invited == {i \in DOMAIN students : students[i].access # "Not Invited"}
      children(phone) == {i \in invited : students[i].phone = phone}
  IN /\ made = "families" /\ made' = "accounts"
     /\ accounts' =
          {[role |-> "student", students |-> {i}, status |-> students[i].access] : i \in invited}
          \cup {[role |-> "parent", students |-> children(students[i].phone),
                 status |-> students[Min(children(students[i].phone))].access] : i \in invited}
     /\ UNCHANGED <<today, nowHM, unfilled, students, sessions, coverage, assessments, unpaid>>

Next ==
  \/ \E c \in Codes : FillFromPool(c) \/ newStudent(c)
  \/ NextBatch \/ RegisterEarly \/ MarkRegisters \/ CoverTopics \/ SitAssessments
  \/ CollectFees \/ ShareGuardians \/ OpenAccounts
Spec == Init /\ [][Next]_vars
-----------------------------------------------------------------------------
(* No batch is overfilled, and students are in classes of their own grade   *)
(* and campus, of different subjects but for the course that is to come.    *)
RollsFit ==
  /\ \A c \in Active :
       /\ Cardinality(Roster(c)) <= Capacity[c]
       /\ \A i \in Roster(c) : students[i].grade = batches(c).grade /\ students[i].campus = campus(c)
  /\ \A i \in DOMAIN students : \A b, c \in students[i].batches \ {"P1"} :
       b # c => batches(b).subject # batches(c).subject

(* Topics were taught one after the other by as many classes as were held,  *)
(* up to the one in progress, unless a batch met less often than it is said *)
(* to have finished topics; and a test is about topics begun before it.     *)
CoverageFollowsClasses ==
  coverage # <<>> => \A c \in DOMAIN coverage :
    LET taught(t) == coverage[c][t].taught
        begun == {t \in 1..Topics : coverage[c][t].status # "Not Started"}
    IN /\ UNION {taught(t) : t \in begun} = Dates(c)
       /\ \A t, u \in 1..Topics : t < u => \A d \in taught(t), e \in taught(u) : d < e
       /\ Cardinality(Dates(c)) >= Cardinality(begun) => \A t \in begun : taught(t) # {}
       /\ c \in DOMAIN assessments => \A d \in DOMAIN assessments[c] :
            /\ assessments[c][d].topics \subseteq begun
            /\ \A t \in assessments[c][d].topics : Min(taught(t)) <= d

(* The fee states of the design, on any day of the year: its third student  *)
(* owes the last month, which is not overdue; its fifth owes the last two,  *)
(* of which one is overdue at least; the others owe nothing.                *)
Overdue(i) == {v \in unpaid[i] : today > IssuedOn(i, v[1]) + 7 + 3}
Latest(i, n) ==
  LET bills == Invoices(i) IN {v \in bills : Cardinality({w \in bills : Before(v, w)}) < n}
FeesAsDrawn ==
  unpaid # <<>> => \A k \in DOMAIN Rows :
    /\ unpaid[k] = Latest(k, CASE Rows[k] = 3 -> 1 [] Rows[k] = 5 -> 2 [] OTHER -> 0)
    /\ Rows[k] = 3 => Overdue(k) = {}
    /\ Rows[k] = 5 /\ Invoices(k) # {} => Overdue(k) # {}

(* A student who can sign in has a guardian who can, and each student asked *)
(* in is the child of one guardian's account.                               *)
FamiliesSignIn ==
  made = "accounts" => \A i \in DOMAIN students : students[i].access # "Not Invited" =>
    \E guardian \in accounts :
      /\ {a \in accounts : a.role = "parent" /\ i \in a.students} = {guardian}
      /\ students[i].access = "Active" => guardian.status = "Active"

(* Classes are taught by active members who may teach, and but for the      *)
(* course that is to come nobody teaches two at a time.                     *)
Meet(b, c) ==
  /\ batches(b).days \cap batches(c).days # {}
  /\ batches(b).from < batches(c).to /\ batches(c).from < batches(b).to
Timetabled ==
  LET all == {"A1", "A2", "A3", "M1", "M2", "M3", "M4", "C1", "C2", "S1", "B2", "E1", "N1", "P1"}
  IN made = "accounts" => \A b \in all :
    /\ staff[batches(b).faculty] \in {"admin", "faculty"} /\ batches(b).faculty \notin Invited
    /\ \A c \in all \ {b} :
         Meet(b, c) /\ "P1" \notin {b, c} => batches(b).faculty # batches(c).faculty

(* The demo institute is consistent on whatever day it is made, at each of  *)
(* its parts.                                                               *)
Consistent == Timetabled /\ RollsFit /\ CoverageFollowsClasses /\ FeesAsDrawn /\ FamiliesSignIn
=============================================================================
