SPECIFICATION MCSpec
CONSTANTS
  Tab = {t1, t2}
  One = t0
  Week = 2
  LastDay = 2
  LastHour = 2
  Forms <- DayForms
  Teacher = {"f"}
  Office = {"o"}
  Window = 1
  MaxBatches = 2
  MaxSaved = 1
  Pupil = {x1, x2}
  Course = {b1, b2}
  Marks = {"L", "A", "E"}
  LastClass = 3
  Recent = 2
  MaxShown = 1
  DashboardMin = 2
  ReportMin = 1
  Threshold = 75
  MaxRegisters = 2
  MaxLeft = 1
  Site = {x1, x2}
  siteOf <- Apart
  Amount = 2
  Method = {"Cash"}
  DueInDays = 1
  GraceDays = 0
  MonthDays = 2
  LastDate = 3
  MaxBills = 2
  MaxReceipts = 2
  teaches <- OneSubject
  TestDay = {1, 2}
  FullMarks = {5}
  Scores <- MissedOrTwo
  MaxPapers = 2
  MaxMoves = 1
  Null = Null
  x1 = x1
  x2 = x2
  b1 = b1
  b2 = b2
  Batch = {1}
  Fees = {1}
  Concessions = {0}
  ByScreen = TRUE
  LastPeriod = 1
  MaxStudents = 1
  MaxInvoices = 2
  MaxPayments = 1
SYMMETRY Alike
CHECK_DEADLOCK FALSE
VIEW MCView
INVARIANTS
  AllTypesOK
  NoDoubleBilling
  ReceiptsStand
  AttendanceAgrees
  FeesAgree
  ResultsAgree
  TimetableAgrees
PROPERTIES
  TimetableKept
