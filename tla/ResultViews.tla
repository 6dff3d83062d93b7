---------------------------- MODULE ResultViews ----------------------------
(***************************************************************************)
(* What the screens of the web app make of the marks: the performance       *)
(* report, the dialog of one assessment, the batch page, the student's      *)
(* profile and the portal.                                                  *)
(*                                                                         *)
(* Assessments has how marks are recorded; here they are recorded as they   *)
(* come.  A score is counted in percent of the marks to be had, an average  *)
(* is the pair of the percents added up and their number.  Days stand for   *)
(* months where the report goes by month.                                   *)
(* Op_Fault is Op with one fault, to show that a property depends on Op.   *)
(***************************************************************************)
EXTENDS Integers, FiniteSetsExt

CONSTANTS
  Student, Batch,
  subjectOf,            \* the subject a batch teaches
  Day, MaxMarks, Marks, \* dates, full marks, and the marks given
  MaxTests, MaxChanges  \* bounds

Absent == -1            \* a null score
PassMark == 40
AtRiskBelow == 50
MaxCompare == 3

VARIABLES
  assessments,
  students,             \* those on file: their batches, and whether they are active
  changes

vars == <<assessments, students, changes>>
OnFile == DOMAIN students

Init ==
  /\ assessments = {}
  /\ students = [s \in Student |-> [batches |-> Batch, active |-> TRUE]]
  /\ changes = 0

addAssessment(b, date, max, scores) ==
  /\ Cardinality(assessments) < MaxTests
  /\ assessments' = assessments \cup
       {[id |-> Cardinality(assessments) + 1, batch |-> b, date |-> date, max |-> max, scores |-> scores]}
  /\ UNCHANGED <<students, changes>>

ChangeStudent(s, batches, active) ==
  /\ changes < MaxChanges /\ changes' = changes + 1
  /\ students' = [students EXCEPT ![s] = [batches |-> batches, active |-> active]]
  /\ UNCHANGED assessments

(* deleteStudents leaves their scores in the assessments. *)
DeleteStudent(s) ==
  /\ changes < MaxChanges /\ changes' = changes + 1
  /\ students' = [x \in OnFile \ {s} |-> students[x]]
  /\ UNCHANGED assessments

Next ==
  \/ \E b \in Batch, date \in Day, max \in MaxMarks :
       LET roll == {s \in OnFile : students[s].active /\ b \in students[s].batches}
       IN \E scores \in [roll -> {m \in Marks : m <= max}] : addAssessment(b, date, max, scores)
  \/ \E s \in OnFile :
       \/ DeleteStudent(s)
       \/ \E batches \in SUBSET Batch, active \in BOOLEAN : ChangeStudent(s, batches, active)

Spec == Init /\ [][Next]_vars

-----------------------------------------------------------------------------
(* The rules: domain/academics.ts. *)
Sum(f) == MapThenSumSet(LAMBDA x : f[x], DOMAIN f)
Percent(a, s) == (100 * a.scores[s]) \div a.max
Sat(a) == {s \in DOMAIN a.scores : a.scores[s] # Absent}
Passed(a) == {s \in Sat(a) : Percent(a, s) >= PassMark}

Stats(a) ==
  [appeared |-> Cardinality(Sat(a)), absent |-> Cardinality(DOMAIN a.scores \ Sat(a)),
   sum |-> Sum([s \in Sat(a) |-> Percent(a, s)]), passed |-> Cardinality(Passed(a)),
   highest |-> Max({a.scores[s] : s \in Sat(a)} \cup {0})]

StudentAverage(s, tests) ==
  LET sat == {a \in tests : s \in DOMAIN a.scores /\ a.scores[s] # Absent}
  IN [sum |-> Sum([a \in sat |-> Percent(a, s)]), n |-> Cardinality(sat)]

(* The same for everyone in one pass over the scripts. *)
Scripts(tests) == UNION {{<<a, s>> : s \in Sat(a)} : a \in tests}
Tally(scripts) == [sum |-> Sum([x \in scripts |-> Percent(x[1], x[2])]), n |-> Cardinality(scripts)]
OfEach(scripts) == [s \in {x[2] : x \in scripts} |-> Tally({x \in scripts : x[2] = s})]
ScoreIndex_CountsAbsent(tests) ==
  [s \in UNION {DOMAIN a.scores : a \in tests} |->
     [sum |-> Tally({x \in Scripts(tests) : x[2] = s}).sum,
      n |-> Cardinality({a \in tests : s \in DOMAIN a.scores})]]
ScoreIndex(tests) == OfEach(Scripts(tests))

AtLeast(avg, percent) == avg.sum >= percent * avg.n
Bands == <<[name |-> "A+", from |-> 90], [name |-> "A", from |-> 75], [name |-> "B", from |-> 60],
           [name |-> "C", from |-> 50], [name |-> "D", from |-> PassMark], [name |-> "E", from |-> 0]>>
GradeBand(avg) == Bands[Min({k \in 1..6 : AtLeast(avg, Bands[k].from)})].name

-----------------------------------------------------------------------------
(* The performance report, filtered by batch and dates. *)
Filtered(batches, from, to) ==
  {a \in assessments : a.batch \in batches /\ from <= a.date /\ a.date <= to}

ActiveOnly(index) == [s \in {x \in DOMAIN index \cap OnFile : students[x].active} |-> index[s]]
StudentRows(tests) == ActiveOnly(ScoreIndex(tests))

KpisOf(tests, rows, scripts) ==
  [held |-> Cardinality(tests), scripts |-> Cardinality(scripts), sum |-> Tally(scripts).sum,
   passed |-> Cardinality({x \in scripts : x[2] \in Passed(x[1])}),
   monthly |-> [m \in {a.date : a \in tests} |-> Tally({x \in scripts : x[1].date = m})],
   atRisk |-> Cardinality({s \in DOMAIN rows : ~AtLeast(rows[s], AtRiskBelow)}),
   belowPass |-> Cardinality({s \in DOMAIN rows : ~AtLeast(rows[s], PassMark)})]
Kpis(tests) == KpisOf(tests, StudentRows(tests), Scripts(tests))

CountGrades(rows) ==
  [g \in {Bands[k].name : k \in 1..6} |-> Cardinality({s \in DOMAIN rows : GradeBand(rows[s]) = g})]
GradeCounts(tests) == CountGrades(StudentRows(tests))

(* The tables below it: a row for each test, and one for each student, with *)
(* the marks half of "needs attention".                                     *)
AssessmentsTable(tests) ==
  [a \in tests |-> [appeared |-> Stats(a).appeared, roll |-> Stats(a).appeared + Stats(a).absent,
                    sum |-> Stats(a).sum, passed |-> Stats(a).passed, highest |-> Stats(a).highest]]
PerformanceOf(rows) ==
  [s \in DOMAIN rows |-> [taken |-> rows[s].n, grade |-> GradeBand(rows[s]),
                          attention |-> ~AtLeast(rows[s], AtRiskBelow)]]
StudentPerformance(tests) == PerformanceOf(StudentRows(tests))

(* The ways to put a set in order. *)
Orders(S) == {order \in [1..Cardinality(S) -> S] :
                \A j, k \in DOMAIN order : order[j] = order[k] => j = k}

(* The dialog: best first, equal scores share a rank, the absent have none. *)
Ranking(a) ==
  LET present == CHOOSE order \in Orders(Sat(a)) :
        \A j, k \in DOMAIN order : j < k => a.scores[order[j]] >= a.scores[order[k]]
      rank[k \in DOMAIN present] ==
        IF k = 1 THEN 1
        ELSE IF a.scores[present[k]] # a.scores[present[k - 1]] THEN k ELSE rank[k - 1]
  IN [s \in DOMAIN a.scores |-> IF s \in Sat(a) THEN rank[CHOOSE k \in DOMAIN present : present[k] = s] ELSE 0]

(* The lines of the trend: three slots, each with its colour. *)
ToggleCompare(slots, b) ==
  LET at == {k \in 1..MaxCompare : slots[k] = b}
      free == {k \in 1..MaxCompare : slots[k] = ""}
  IN IF at # {} THEN [slots EXCEPT ![Min(at)] = ""]
     ELSE IF free = {} THEN slots ELSE [slots EXCEPT ![Min(free)] = b]
DefaultSlots(tests) ==
  LET assessed == CHOOSE order \in Orders({a.batch : a \in tests}) : TRUE
  IN [k \in 1..MaxCompare |-> IF k \in DOMAIN assessed THEN assessed[k] ELSE ""]

TrendOf(b, m, tests) ==
  {[sum |-> Stats(a).sum, n |-> Stats(a).appeared] :
     a \in {x \in tests : x.batch = b /\ x.date = m /\ Sat(x) # {}}}

(* The batch page. *)
BatchTests(b) == {a \in assessments : a.batch = b}
BatchTrend(b) == {a \in BatchTests(b) : Sat(a) # {}}

(* One student's results, against the class. *)
SummaryOf(s, rows, sat) ==
  [average |-> StudentAverage(s, rows), missed |-> Cardinality(rows \ sat),
   best |-> Max({Percent(a, s) : a \in sat} \cup {-1}),
   above |-> Cardinality({a \in sat : Percent(a, s) * Stats(a).appeared > Stats(a).sum}),
   class |-> {<<a.id, Stats(a).sum, Stats(a).appeared>> : a \in sat}]
Summary(s, rows) == SummaryOf(s, rows, {a \in rows : s \in Sat(a)})

ProfileRows(s) == {a \in assessments : s \in DOMAIN a.scores}
ProfileResults(s) == Summary(s, ProfileRows(s))

PortalRows(s) == {a \in assessments : a.batch \in students[s].batches /\ s \in DOMAIN a.scores}
PortalResults(s) == Summary(s, PortalRows(s))
BySubject(s, sat) ==
  [x \in {subjectOf[a.batch] : a \in sat} |->
     StudentAverage(s, {a \in sat : subjectOf[a.batch] = x})]
PortalSubjects(s) == BySubject(s, {a \in PortalRows(s) : s \in Sat(a)})
Latest(s) == {a \in PortalRows(s) : \A x \in PortalRows(s) : x.date <= a.date}

-----------------------------------------------------------------------------
(* Scores are of students, out of the full marks.                           *)
TypeOK ==
  /\ {a.id : a \in assessments} = 1..Cardinality(assessments)
  /\ \A a \in assessments : /\ a.batch \in Batch /\ DOMAIN a.scores \subseteq Student
                            /\ \A s \in DOMAIN a.scores : a.scores[s] \in Absent..a.max
  /\ OnFile \subseteq Student /\ \A s \in OnFile : students[s].batches \subseteq Batch

(* The report's figures are those of the rows below them, deleted students  *)
(* included, under every filter; the filters split what they filter; and    *)
(* the grades split the students, those at risk being the two lowest.       *)
FiguresMatch(tests, k, grades, table, people, index) ==
  /\ k.scripts = Sum([a \in tests |-> table[a].appeared])
  /\ k.sum = Sum([a \in tests |-> table[a].sum])
  /\ k.passed = Sum([a \in tests |-> table[a].passed])
  /\ k.sum = Sum([m \in DOMAIN k.monthly |-> k.monthly[m].sum])
  /\ k.scripts = Sum([s \in DOMAIN index |-> index[s].n])
  /\ Sum(grades) = Cardinality(DOMAIN people)
  /\ k.atRisk = Cardinality({s \in DOMAIN people : people[s].attention})
  /\ \A a \in tests : table[a].roll = Cardinality(DOMAIN a.scores)
  /\ k.atRisk = grades["D"] + grades["E"] /\ k.belowPass = grades["E"]
FiguresOf(tests) ==
  FiguresMatch(tests, Kpis(tests), GradeCounts(tests), AssessmentsTable(tests),
               StudentPerformance(tests), ScoreIndex(tests))
ReportAgrees ==
  \A from, to \in Day :
    /\ \A tests \in {Filtered(batches, from, to) : batches \in SUBSET Batch} : FiguresOf(tests)
    /\ Filtered(Batch, from, to) = UNION {Filtered({b}, from, to) : b \in Batch}

(* A student's average is the same in the report, on the profile and, when  *)
(* they left no batch, in the portal, where the subjects add up to it.      *)
StudentSees(s, rows, p, seen, subjects) ==
  /\ s \in DOMAIN rows => rows[s] = p.average
  /\ s \in DOMAIN rows <=> students[s].active /\ p.average.n > 0
  /\ p.average.n + p.missed = Cardinality(ProfileRows(s))
  /\ students[s].batches = Batch => seen = p
  /\ seen.average.sum = Sum([x \in DOMAIN subjects |-> subjects[x].sum])
  /\ seen.above <= Cardinality(seen.class)
  /\ Latest(s) # {} <=> PortalRows(s) # {}
StudentsSee(rows) ==
  \A s \in OnFile : StudentSees(s, rows, ProfileResults(s), PortalResults(s), PortalSubjects(s))
StudentsAgree == StudentsSee(StudentRows(assessments))

(* "Standard competition ranking: equal scores share a rank (1, 2, 2, 4)",  *)
(* and the first is the highest score the table shows.                      *)
RanksRightIn(a, ranks) ==
  \A s \in DOMAIN a.scores :
    ranks[s] = IF s \notin Sat(a) THEN 0
               ELSE 1 + Cardinality({t \in Sat(a) : a.scores[t] > a.scores[s]})
RanksRight == \A a \in assessments : RanksRightIn(a, Ranking(a))

(* "removing one batch never repaints the others", nor does adding one; no  *)
(* batch is drawn twice; and both trends draw the same points.              *)
ColoursKept ==
  /\ \A b \in Batch : LET slots == DefaultSlots(assessments)  next == ToggleCompare(slots, b) IN
       /\ \A k \in 1..MaxCompare : slots[k] \notin {b, ""} => next[k] = slots[k]
       /\ \A j, k \in 1..MaxCompare : j # k /\ next[j] # "" => next[j] # next[k]
  /\ \A b \in Batch : {<<Stats(a).sum, Stats(a).appeared>> : a \in BatchTrend(b)} =
       UNION {{<<t.sum, t.n>> : t \in TrendOf(b, m, assessments)} : m \in Day}

ResultsAgree == ReportAgrees /\ StudentsAgree /\ RanksRight /\ ColoursKept
=============================================================================
