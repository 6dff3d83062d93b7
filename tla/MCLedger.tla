------------------------------ MODULE MCLedger ------------------------------
(* The web app's fees, and what its screens make of fees, registers and      *)
(* results; one part runs while the rest stays as it began.  Of the ledger:  *)
(* two tabs over two months; part payments in one tab; and, over a state of *)
(* its own, the store operations that no screen calls.  Of the screens: two  *)
(* batches on two days, or one batch on three; the families of two campuses, *)
(* or one family of two batches; the results of two batches, or of a class  *)
(* of three; and of the timetable, a column of three batches, the places    *)
(* two batches may share, and the roll-call page over two days.             *)
EXTENDS MCFeeLedger, Screens

CONSTANTS
  One,                \* the tab of the instances with one tab
  x1, x2, b1, b2      \* the students and batches of the registers and results

VARIABLES
  instance,
  view2, stored2, now2, numbered2, repeated2, receipts2

ledger2 == <<view2, stored2, now2, numbered2, repeated2, receipts2>>
attended == <<registers, enrolled, left>>
billed == <<invoices, payments, today>>
scored == <<papers, pupils, moves>>
timetable == <<batches, saved, clock, address, toast>>

Payments == INSTANCE FeeLedger WITH
  Tab <- {One}, Fees <- {2}, Concessions <- {0, 50}, MaxPayments <- 3
Store == INSTANCE FeeLedger WITH
  Tab <- {One}, ByScreen <- FALSE, LastPeriod <- 0, MaxStudents <- 2, MaxPayments <- 2,
  view <- view2, stored <- stored2, now <- now2,
  numbered <- numbered2, repeated <- repeated2, receipts <- receipts2

(* One more class of a batch than Figures has, and another mark.            *)
Streak == INSTANCE AttendanceViews WITH
  Student <- Pupil, Batch <- {b1}, Marks <- {"P", "A", "E"}, Today <- LastClass, MaxSaved <- 3, MaxChanges <- 0,
  sessions <- registers, changes <- left

Families == INSTANCE FeeViews WITH
  Student <- Pupil, Batch <- {b1}, Campus <- Site, campusOf <- siteOf,
  LastDay <- 3, MaxInvoices <- 2, MaxPayments <- 1
Family == INSTANCE FeeViews WITH
  Student <- {x1}, Batch <- Course, Campus <- {x1}, campusOf <- siteOf,
  LastDay <- 2, MaxInvoices <- 2, MaxPayments <- 2
Apart == [x \in Pupil |-> x]

Class == INSTANCE ResultViews WITH
  Student <- {"s1", "s2", "s3"}, Batch <- {b1}, subjectOf <- teaches,
  Day <- {1}, MaxMarks <- {4, 5}, Marks <- {-1, 1, 4}, MaxTests <- 2, MaxChanges <- 0,
  assessments <- papers, students <- pupils, changes <- moves
OneSubject == [b \in {b1, b2} |-> "m"]
MissedOrTwo == {-1, 2}

Entered(days, start, end, teacher, room, campus, status) ==
  [days |-> days, start |-> start, end |-> end, teacher |-> teacher, room |-> room,
   campus |-> campus, status |-> status, from |-> 1]
Grid == INSTANCE Timetable WITH
  Week <- 1, LastDay <- 1, LastHour <- 2,
  Forms <- {Entered({0}, t[1], t[2], "f", "r", "c", "Active") : t \in {<<0, 1>>, <<0, 2>>, <<1, 3>>, <<2, 3>>}},
  Teacher <- {}, Office <- {}, Window <- 1, MaxBatches <- 3, MaxSaved <- 0, now <- clock, page <- address
Places == INSTANCE Timetable WITH
  Week <- 2, LastDay <- 1, LastHour <- 2,
  Forms <- {Entered(days, t[1], t[2], p[1], p[2], p[3], "Active") :
              days \in {{0}, {0, 1}}, t \in {<<0, 1>>, <<0, 2>>, <<1, 2>>},
              p \in {<<"f", "r", "c">>, <<"f", "s", "c">>, <<"g", "s", "c">>, <<"g", "s", "d">>}}
           \cup {Entered({1}, 0, 2, p[1], p[2], "c", "Upcoming") : p \in {<<"f", "r">>, <<"g", "s">>}},
  Teacher <- {}, Office <- {}, Window <- 1, MaxBatches <- 2, MaxSaved <- 0, now <- clock, page <- address
DayForms ==
  {Entered({0, 1}, 0, 1, "f", "r", "c", "Active"),
   [Entered({0}, 1, 2, "g", "r", "c", "Active") EXCEPT !.from = 2]}

MCInit ==
  /\ Store!Init
  /\ \/ instance = "payments" /\ Payments!Init
     \/ instance \in {"tabs", "store", "figures", "streak", "families", "family", "results", "class",
                      "grid", "places", "days"}
        /\ Init
  /\ IF instance = "streak" THEN Streak!Init ELSE Figures!Init
  /\ Family!Init
  /\ IF instance = "class" THEN Class!Init ELSE Tests!Init
  /\ Days!Init
MCNext ==
  /\ UNCHANGED instance
  /\ \/ instance = "tabs" /\ Next /\ UNCHANGED <<ledger2, attended, billed, scored, timetable>>
     \/ instance = "payments" /\ Payments!Next /\ UNCHANGED <<ledger2, attended, billed, scored, timetable>>
     \/ instance = "store" /\ Store!Next /\ UNCHANGED <<vars, attended, billed, scored, timetable>>
     \/ instance = "figures" /\ Figures!Next /\ UNCHANGED <<vars, ledger2, billed, scored, timetable>>
     \/ instance = "streak" /\ Streak!Next /\ UNCHANGED <<vars, ledger2, billed, scored, timetable>>
     \/ instance = "families" /\ Families!Next /\ UNCHANGED <<vars, ledger2, attended, scored, timetable>>
     \/ instance = "family" /\ Family!Next /\ UNCHANGED <<vars, ledger2, attended, scored, timetable>>
     \/ instance = "results" /\ Tests!Next /\ UNCHANGED <<vars, ledger2, attended, billed, timetable>>
     \/ instance = "class" /\ Class!Next /\ UNCHANGED <<vars, ledger2, attended, billed, timetable>>
     \/ /\ \/ instance = "grid" /\ Grid!Next
           \/ instance = "places" /\ Places!Next
           \/ instance = "days" /\ Days!Next
        /\ UNCHANGED <<vars, ledger2, attended, billed, scored>>
MCSpec == MCInit /\ [][MCNext]_<<instance, vars, ledger2, attended, billed, scored, timetable>>

(* Only one part runs, so its tabs, or its students and batches, may change *)
(* places together.                                                         *)
Alike ==
  {p \in Permutations(Tab \cup {x1, x2, b1, b2}) :
     \/ \A v \in DOMAIN p : p[v] = v
     \/ \A pair \in {Tab, {x1, x2}, {b1, b2}} : \A v \in pair : p[v] \in pair \ {v}}

(* The part that runs; only the part payments are checked against the       *)
(* receipts shown, and only the page of two days follows the clock.         *)
MCView ==
  <<instance,
    IF instance = "tabs" THEN OnFile
    ELSE IF instance = "payments" THEN <<OnFile, receipts>>
    ELSE IF instance = "store" THEN <<view2, stored2, now2>>
    ELSE IF instance \in {"grid", "places", "days"}
           THEN <<batches, saved, address, toast, IF instance = "days" THEN clock ELSE 0>>
    ELSE <<attended, billed, scored>>>>
-----------------------------------------------------------------------------
(* Types, in the part that runs, and numbers: each names one invoice or     *)
(* payment on file, whatever the operations of the store that no screen     *)
(* calls deleted before.                                                    *)
AllTypesOK ==
  /\ instance = "tabs" => TypeOK
  /\ instance = "payments" => Payments!TypeOK
  /\ instance = "store" => Store!TypeOK /\ Store!NumbersUnique
  /\ instance = "figures" => Figures!TypeOK
  /\ instance = "streak" => Streak!TypeOK
  /\ instance = "families" => Families!TypeOK
  /\ instance = "family" => Family!TypeOK
  /\ instance = "results" => Tests!TypeOK
  /\ instance = "class" => Class!TypeOK
  /\ instance = "grid" => Grid!TypeOK
  /\ instance = "places" => Places!TypeOK
  /\ instance = "days" => Days!TypeOK
=============================================================================
