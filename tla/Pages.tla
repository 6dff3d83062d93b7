------------------------------- MODULE Pages -------------------------------
(***************************************************************************)
(* Three pages of the web app that keep a draft or an order: the roll call,  *)
(* the assessment form and the syllabus.  They share no state.              *)
(***************************************************************************)
EXTENDS Integers

CONSTANTS
  Student, Class, Date, Today, MaxUndos, Nil,
  Result, Latest, Maximum, Score, Absent, Blank,
  Topic, Chapter, MaxOrder

VARIABLES
  students, register, page, undos,
  since, results, form, deleted,
  topics, follows, coverage

Rolls == INSTANCE RollCall WITH Batch <- Class, MaxToasts <- MaxUndos, None <- Nil, toasts <- undos
Results == INSTANCE Assessments WITH
  Batch <- Class, Mark <- Score, Today <- Latest, MaxToasts <- MaxUndos, None <- Nil, toasts <- deleted
Topics == INSTANCE Syllabus WITH Batch <- Class, None <- Nil

(* Saving a register or an assessment again never drops a student recorded  *)
(* in it.                                                                   *)
RecordsKept == Rolls!RecordsKept /\ Results!ScoresKept

(* Topics have different numbers and chapters are never split, so every     *)
(* screen shows the one order.                                              *)
SyllabusInOrder == Topics!OrdersDistinct /\ Topics!ChaptersTogether
=============================================================================
