-------------------------- MODULE AttendanceViews --------------------------
(***************************************************************************)
(* What the screens of the web app make of the saved registers.  The same   *)
(* figure, how often a student came, is computed anew by the reports, the   *)
(* student's profile, the batch page, the roll call, the dashboard and the  *)
(* portal, and once more by the back end's port of the rules.               *)
(*                                                                         *)
(* RollCall has how registers come about; here they are saved as they come. *)
(* Days are numbered; a rate is the pair of classes attended and counted.   *)
(* Op_Fault is Op with one fault, to show that a property depends on Op.   *)
(***************************************************************************)
EXTENDS Integers, FiniteSetsExt

CONSTANTS
  Student, Batch,
  Marks,          \* the marks in use, among P, L, A and E
  Today,          \* days are 1..Today
  Recent,         \* the days of a window: 30 on most screens
  MaxShown,       \* MAX_SESSIONS of the register
  DashboardMin, ReportMin,   \* classes before a student can be flagged
  Threshold,      \* lowAttendanceThreshold, in percent
  MaxSaved, MaxChanges       \* bounds: registers saved, changes of the roster

VARIABLES
  sessions,       \* the marks of each saved register
  enrolled,       \* the batches of each student on file
  changes

vars == <<sessions, enrolled, changes>>

Day == 1..Today
OnFile == DOMAIN enrolled

Init ==
  /\ sessions = [k \in {} |-> {}]
  /\ enrolled = [s \in Student |-> Batch]
  /\ changes = 0

RollOf(b) == {s \in OnFile : b \in enrolled[s]}

SaveSession(b, d, records) ==
  /\ <<b, d>> \notin DOMAIN sessions /\ Cardinality(DOMAIN sessions) < MaxSaved
  /\ sessions' = [k \in DOMAIN sessions \cup {<<b, d>>} |-> IF k = <<b, d>> THEN records ELSE sessions[k]]
  /\ UNCHANGED <<enrolled, changes>>

LeaveBatch(s, b) ==
  /\ changes < MaxChanges /\ b \in enrolled[s]
  /\ enrolled' = [enrolled EXCEPT ![s] = @ \ {b}]
  /\ changes' = changes + 1
  /\ UNCHANGED sessions

(* deleteStudents leaves the student's marks in the registers. *)
DeleteStudent(s) ==
  /\ changes < MaxChanges
  /\ enrolled' = [x \in OnFile \ {s} |-> enrolled[x]]
  /\ changes' = changes + 1
  /\ UNCHANGED sessions

Next ==
  \/ \E b \in Batch, d \in Day : \E marked \in SUBSET RollOf(b) \ {{}} :
       \E records \in [marked -> Marks] : SaveSession(b, d, records)
  \/ \E s \in OnFile : DeleteStudent(s) \/ \E b \in Batch : LeaveBatch(s, b)

Spec == Init /\ [][Next]_vars

-----------------------------------------------------------------------------
(* Counts and rates. *)
Entries(keys) ==
  UNION {{[student |-> s, batch |-> k[1], day |-> k[2], mark |-> sessions[k][s]] :
            s \in DOMAIN sessions[k]} : k \in keys}

Counts(entries) == [m \in {"P", "L", "A", "E"} |-> Cardinality({e \in entries : e.mark = m})]

GroupBy(field, entries) ==
  [x \in {e[field] : e \in entries} |-> Counts({e \in entries : e[field] = x})]

Total(groups) ==
  [m \in {"P", "L", "A", "E"} |-> MapThenSumSet(LAMBDA x : groups[x][m], DOMAIN groups)]

Rate(c, late) == [attended |-> c["P"] + (IF late THEN c["L"] ELSE 0), of |-> c["P"] + c["L"] + c["A"]]

FilterSessions(w, batches) ==
  {k \in DOMAIN sessions : w.from <= k[2] /\ k[2] <= w.to /\ k[1] \in batches}

LastDays(n, end) == [from |-> end - (n - 1), to |-> end]
PreviousWindow(w) == LET n == w.to - w.from + 1 IN LastDays(n, w.from - 1)
CustomWindow(from, to) == IF from <= to THEN [from |-> from, to |-> to] ELSE [from |-> to, to |-> from]
Ever == [from |-> 1, to |-> Today]

BelowThreshold(c, late, min) ==
  LET r == Rate(c, late) IN r.of >= min /\ r.of > 0 /\ 100 * r.attended < Threshold * r.of

(* The back end rounds the percentage to a tenth first. *)
LowOnServer(c, late) ==
  LET r == Rate(c, late)
  IN r.of > 0 /\ (2000 * r.attended + r.of) \div (2 * r.of) < 10 * Threshold

(* The run of absences up to now, as the domain defines it. *)
AbsenceStreak(s, b, before) ==
  LET held == {d \in 1..(before - 1) : <<b, d>> \in DOMAIN sessions /\ s \in DOMAIN sessions[<<b, d>>]}
  IN Cardinality({d \in held : \A e \in held : e >= d => sessions[<<b, e>>][s] = "A"})

(* The same for everyone in one pass, from the latest register back. *)
Streaks_ForgetSettled(b, before) ==
  LET absent(d) == IF <<b, d>> \in DOMAIN sessions
                     THEN {s \in DOMAIN sessions[<<b, d>>] : sessions[<<b, d>>][s] = "A"} ELSE {}
  IN [s \in Student |-> Cardinality({d \in 1..(before - 1) : s \in absent(d)})]

Streaks(b, before) ==
  LET pass[d \in 1..before] ==
        IF d = before THEN [run |-> [s \in Student |-> 0], settled |-> {}]
        ELSE LET later == pass[d + 1]
                 records == IF <<b, d>> \in DOMAIN sessions THEN sessions[<<b, d>>] ELSE [s \in {} |-> "A"]
                 absent == {s \in DOMAIN records \ later.settled : records[s] = "A"}
             IN [run |-> [s \in Student |-> later.run[s] + (IF s \in absent THEN 1 ELSE 0)],
                 settled |-> later.settled \cup (DOMAIN records \ absent)]
  IN pass[1].run

-----------------------------------------------------------------------------
(* The office's screens. *)
Report(w, batches) ==
  LET seen == Entries(FilterSessions(w, batches))
      everyone == GroupBy("student", seen)
  IN [counts |-> Counts(seen), batches |-> GroupBy("batch", seen), days |-> GroupBy("day", seen),
      students |-> [s \in DOMAIN everyone \cap OnFile |-> everyone[s]]]

BelowInReport(w, late) ==
  LET rows == Report(w, Batch).students
  IN {s \in DOMAIN rows : BelowThreshold(rows[s], late, ReportMin)}

(* The register shows the last sessions only, and whoever is on the roll. *)
ShownSessions(b, w) ==
  LET all == FilterSessions(w, {b})
  IN {k \in all : Cardinality({l \in all : l[2] > k[2]}) < MaxShown}

Register(b, w) ==
  LET seen == Entries(ShownSessions(b, w))
  IN [s \in (RollOf(b) \cup {e.student : e \in seen}) \cap OnFile |->
        Counts({e \in seen : e.student = s})]

ProfileRows(s) == {e \in Entries(DOMAIN sessions) : e.student = s}
Profile(s) ==
  LET rows == ProfileRows(s)
      since(d) == {e \in rows : e.day >= d}
  IN [overall |-> Counts(rows),
      recent |-> Counts(since(Today - (Recent - 1))),
      prior |-> Counts(since(Today - (2 * Recent - 1)) \ since(Today - (Recent - 1)))]
ProfileTab(s) == GroupBy("batch", ProfileRows(s))
CalendarDay(s, d) == {<<e.batch, e.mark>> : e \in {x \in ProfileRows(s) : x.day = d}}

BatchTab(b, w) == Total([k \in FilterSessions(w, {b}) |-> Counts(Entries({k}))])
BatchStudents(b) ==
  LET index == GroupBy("student", Entries(FilterSessions(LastDays(Recent, Today), {b})))
  IN [s \in RollOf(b) |-> IF s \in DOMAIN index THEN index[s] ELSE Counts({})]

(* Beside each name of the roll call: the month before the class. *)
BesideRoll(b, d) == GroupBy("student", Entries(FilterSessions([from |-> d - Recent, to |-> d - 1], {b})))

BelowOnDashboard(late) ==
  LET index == GroupBy("student", Entries(FilterSessions(LastDays(Recent, Today), Batch)))
  IN {s \in DOMAIN index \cap OnFile : BelowThreshold(index[s], late, DashboardMin)}

-----------------------------------------------------------------------------
(* The portal's screens. *)
PortalRows(s) == {e \in Entries({k \in DOMAIN sessions : k[1] \in enrolled[s]}) : e.student = s}

PortalHome(s) == Counts({e \in PortalRows(s) : e.day >= Today - (Recent - 1)})
PortalYear(s) == Counts(PortalRows(s))
PortalSubjects(s) == [b \in enrolled[s] |-> Counts({e \in PortalRows(s) : e.batch = b})]
PortalClasses(s, d) == {e \in PortalRows(s) : e.day = d}
PortalDay(s, d) == {<<e.batch, e.mark>> : e \in PortalClasses(s, d)}

-----------------------------------------------------------------------------
(* Registers hold marks, of students who were on a roll. *)
TypeOK ==
  /\ DOMAIN sessions \subseteq Batch \X Day
  /\ \A k \in DOMAIN sessions : /\ DOMAIN sessions[k] \subseteq Student
                                /\ \A s \in DOMAIN sessions[k] : sessions[k][s] \in Marks
  /\ OnFile \subseteq Student /\ \A s \in OnFile : enrolled[s] \subseteq Batch

(* Two windows compared by a report follow each other and are as long.      *)
WindowsMeet ==
  \A from, to \in Day : LET w == CustomWindow(from, to)
                            p == PreviousWindow(w)
    IN p.to = w.from - 1 /\ p.to - p.from = w.to - w.from

(* Every screen that shows how often a student came, over the same classes, *)
(* shows the same: report, register, profile, batch page, roll call; and    *)
(* the report's parts add up to its whole, deleted students included.       *)
FiguresAgree ==
  /\ WindowsMeet
  /\ \A from, to \in Day : LET w == CustomWindow(from, to)
                               r == Report(w, Batch)
     IN /\ r.counts = Total(r.batches) /\ r.counts = Total(r.days)
        /\ \A b \in Batch : BatchTab(b, w) = Report(w, {b}).counts
  /\ \A s \in OnFile :
       /\ Profile(s).overall = Total(ProfileTab(s))
       /\ s \in DOMAIN Report(Ever, Batch).students => Report(Ever, Batch).students[s] = Profile(s).overall
       /\ s \in DOMAIN Report(LastDays(Recent, Today), Batch).students =>
            Report(LastDays(Recent, Today), Batch).students[s] = Profile(s).recent
       /\ \A b \in enrolled[s] :
            /\ BatchStudents(b)[s] = Counts({e \in ProfileRows(s) : e.batch = b /\ e.day > Today - Recent})
            /\ Cardinality(FilterSessions(Ever, {b})) <= MaxShown /\ b \in DOMAIN ProfileTab(s) =>
                 Register(b, Ever)[s] = ProfileTab(s)[b]
       /\ \A d \in Day : \A b \in enrolled[s] :
            s \in DOMAIN BesideRoll(b, d) =>
              BesideRoll(b, d)[s] = Counts({e \in ProfileRows(s) : e.batch = b /\ e.day \in (d - Recent)..(d - 1)})

(* The run of absences is the same computed for one student or for all; a   *)
(* class they were not recorded in neither counts nor ends it.              *)
StreaksAgree ==
  \A b \in Batch, before \in 1..(Today + 1) :
    \A s \in Student : Streaks(b, before)[s] = AbsenceStreak(s, b, before)

(* Whoever the dashboard flags is among those the report it links to flags, *)
(* and the back end would flag them too.                                    *)
FlagsAgree ==
  \A late \in BOOLEAN : \A s \in BelowOnDashboard(late) :
    /\ s \in BelowInReport(LastDays(Recent, Today), late)
    /\ LowOnServer(Profile(s).recent, late)

(* A family that left no batch sees what the office sees.                   *)
PortalAgrees ==
  \A s \in OnFile : enrolled[s] = Batch =>
    /\ PortalYear(s) = Profile(s).overall /\ PortalHome(s) = Profile(s).recent
    /\ PortalYear(s) = Total(PortalSubjects(s))
    /\ \A d \in Day : PortalDay(s, d) = CalendarDay(s, d)

AttendanceAgrees == FiguresAgree /\ StreaksAgree /\ FlagsAgree /\ PortalAgrees
=============================================================================
