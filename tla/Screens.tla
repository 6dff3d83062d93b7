------------------------------ MODULE Screens ------------------------------
(***************************************************************************)
(* What the web app's screens make of batches, of saved registers, of bills *)
(* and of tests, the state of each named apart from what else runs beside   *)
(* it.                                                                      *)
(***************************************************************************)
EXTENDS Integers, FiniteSets

CONSTANTS
  Week, LastDay, LastHour, Forms, Teacher, Office, Window, MaxBatches, MaxSaved, Null,
  Pupil, Course, Marks, LastClass, Recent, MaxShown, DashboardMin, ReportMin, Threshold,
  MaxRegisters, MaxLeft,
  Site, siteOf, Amount, Method, DueInDays, GraceDays, MonthDays, LastDate, MaxBills, MaxReceipts,
  teaches, TestDay, FullMarks, Scores, MaxPapers, MaxMoves

(* A school is finite; its windows have a day; a student can be flagged by  *)
(* the report as soon as by the dashboard.                                  *)
ASSUME SchoolGiven ==
  /\ IsFiniteSet(Pupil) /\ IsFiniteSet(Course)
  /\ LastClass \in Nat /\ Recent \in Nat \ {0} /\ MaxShown \in Nat
  /\ ReportMin \in Nat /\ DashboardMin \in Nat /\ ReportMin <= DashboardMin
  /\ Threshold \in Nat

(* Every month has a day, the odd ones too.                                 *)
ASSUME BillsGiven ==
  /\ Amount \in Nat \ {0} /\ DueInDays \in Nat /\ GraceDays \in Nat
  /\ MonthDays \in Nat /\ MonthDays > 1 /\ LastDate \in Nat

(* A test has marks to be had, a score is of them or none is given, and the *)
(* lines of a chart tell a batch from no batch.                             *)
ASSUME TestsGiven ==
  /\ FullMarks \subseteq Nat \ {0} /\ TestDay \subseteq Int
  /\ Scores \subseteq Nat \cup {-1} /\ "" \notin Course

(* A class ends after it starts, and meets on days of the week.             *)
ASSUME ClassesGiven ==
  /\ Week \in Nat \ {0}
  /\ \A f \in Forms : /\ f.start \in Nat /\ f.end \in Nat /\ f.start < f.end
                      /\ f.days \subseteq 0..(Week - 1)

VARIABLES
  batches, saved, clock, address, toast,
  registers, enrolled, left,
  invoices, payments, today,
  papers, pupils, moves

Days == INSTANCE Timetable WITH now <- clock, page <- address
Figures == INSTANCE AttendanceViews WITH
  Student <- Pupil, Batch <- Course, Today <- LastClass, MaxSaved <- MaxRegisters, MaxChanges <- MaxLeft,
  sessions <- registers, changes <- left

Bills == INSTANCE FeeViews WITH
  Student <- Pupil, Batch <- Course, Campus <- Site, campusOf <- siteOf,
  LastDay <- LastDate, MaxInvoices <- MaxBills, MaxPayments <- MaxReceipts

Tests == INSTANCE ResultViews WITH
  Student <- Pupil, Batch <- Course, subjectOf <- teaches, Day <- TestDay,
  MaxMarks <- FullMarks, Marks <- Scores, MaxTests <- MaxPapers, MaxChanges <- MaxMoves,
  assessments <- papers, students <- pupils, changes <- moves

(* The roll call keeps its class, and double bookings were warned about.    *)
TimetableKept == Days!TimetableKept

(* The screens agree on the classes of a day, which one is on and which is  *)
(* next.  A page or an Undo button changes nothing about that.              *)
TimetableAgrees == address = Null /\ toast = Null => Days!TimetableAgrees

(* How often a student came is the same on every screen that shows it, once *)
(* a class is in the register.                                              *)
AttendanceAgrees == DOMAIN registers # {} => Figures!AttendanceAgrees

(* What is due and what was received is the same on every screen, once      *)
(* something was billed.                                                    *)
FeesAgree == invoices # {} => Bills!FeesAgree

(* A result, an average, a grade and a rank are the same on every screen,   *)
(* once a test was marked.                                                  *)
ResultsAgree == papers # {} => Tests!ResultsAgree
=============================================================================
