SPECIFICATION Spec
CONSTANTS
  Tab = {t1}
  Batch = {1}
  Fees = {2}
  Concessions = {0}
  ByScreen = FALSE
  LastPeriod = 0
  MaxStudents = 2
  MaxInvoices = 2
  MaxPayments = 1
SYMMETRY Interchangeable
CHECK_DEADLOCK FALSE
INVARIANTS
  NumbersNeverRepeat
