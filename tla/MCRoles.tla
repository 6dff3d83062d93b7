------------------------------ MODULE MCRoles ------------------------------
(* StaffRoles twice, and the tables it is kept in; one part runs while the   *)
(* rest stays as it began.  Of StaffRoles: one request at a time in an       *)
(* institute without an owner, or two interleaved requests in one with.  Of  *)
(* the database: the demo seed beside an institute whose requests, and the   *)
(* demo's own, it may interleave with; scripts that stop and run again; the  *)
(* load test's database; two requests of one institute.  And the migration   *)
(* that made rows of roles, over three members of two institutes.  Last, the *)
(* web app's demo data: the rows of the design, from the first weeks of a    *)
(* year to its last; two batches in their first weeks; and students drawn.   *)
EXTENDS MCStaffRoles, StaffOverlap

VARIABLES
  part,               \* which of them runs
  staff3, roles3, applied3,
  today, nowHM, made, unfilled, students, sessions, coverage, assessments, unpaid, accounts

OneOther == <<"B">>

vars2 == <<roles2, perms2, default2, status2, roleOf2, invited2, client2>>
rows == <<db2, gone2, script2, runs2, requests2, asked2>>
legacy == <<staff3, roles3, applied3>>
drawn == <<today, nowHM, made, unfilled, students, sessions, coverage, assessments, unpaid, accounts>>

Again == INSTANCE Database WITH
  Others <- <<>>, Runnable <- {"seed", "bootstrap"}, MaxRuns <- 2, MaxRequests <- 0,
  db <- db2, gone <- gone2, script <- script2, runs <- runs2, requests <- requests2, asked <- asked2
Scratch == INSTANCE Database WITH
  Others <- <<>>, Runnable <- {"bootstrap", "load"}, MaxRuns <- 3, MaxRequests <- 0,
  db <- db2, gone <- gone2, script <- script2, runs <- runs2, requests <- requests2, asked <- asked2
Office == INSTANCE Database WITH
  Others <- <<"B">>, Runnable <- {"bootstrap"}, MaxRuns <- 1, MaxRequests <- 2,
  db <- db2, gone <- gone2, script <- script2, runs <- runs2, requests <- requests2, asked <- asked2
Legacy == INSTANCE RoleMigration WITH
  Tenants <- {"A", "B"}, Members <- {"s1", "s2", "s3"}, staff <- staff3, roleRows <- roles3, applied <- applied3
Design == INSTANCE DemoData WITH
  Days <- 0..45 \cup {d \in 46..364 : d % 5 = 0} \cup 271..283, Hours <- {20}, FirstWeekday <- 1, Rows <- <<1, 2, 3, 4, 5, 6, 7>>,
  Running <- <<"A1", "M2", "C1", "S1">>, Capacity <- [A1 |-> 2, M2 |-> 4, C1 |-> 1, S1 |-> 1],
  Topics <- 2, Joining <- {}, Paces <- {}
Weeks == INSTANCE DemoData WITH
  Days <- {2, 24}, Hours <- {34, 36}, FirstWeekday <- 1, Rows <- <<1>>,
  Running <- <<"M2", "M1">>, Capacity <- [M2 |-> 2, M1 |-> 1], Topics <- 3, Joining <- {3},
  Paces <- {[payer |-> "defaulter", delay |-> 0]}
Drawn == INSTANCE DemoData WITH
  Days <- {40}, Hours <- {20}, FirstWeekday <- 1, Rows <- <<5>>,
  Running <- <<"M3", "A3">>, Capacity <- [M3 |-> 1, A3 |-> 1], Topics <- 2, Joining <- {3, 35},
  Paces <- {[payer |-> "late", delay |-> 6]}

MCInit ==
  /\ Init /\ Two!Init
  /\ \/ part = "legacy" /\ Legacy!Init
     \/ /\ part \in {"one", "two", "demo", "again", "scratch", "office", "design", "weeks", "drawn"}
        /\ staff3 = <<>> /\ roles3 = {} /\ applied3 = "no"
  /\ IF part = "design" THEN Design!Init ELSE IF part = "weeks" THEN Weeks!Init ELSE Drawn!Init
  /\ IF part \in {"demo", "office"} THEN Tables!Init ELSE Again!Init
MCNext ==
  /\ UNCHANGED part
  /\ \/ part = "one" /\ Next /\ UNCHANGED <<vars2, rows, legacy, drawn>>
     \/ part = "two" /\ Two!Next /\ UNCHANGED <<vars, rows, legacy, drawn>>
     \/ part = "demo" /\ Tables!Next /\ UNCHANGED <<vars, vars2, legacy, drawn>>
     \/ part = "again" /\ Again!Next /\ UNCHANGED <<vars, vars2, legacy, drawn>>
     \/ part = "scratch" /\ Scratch!Next /\ UNCHANGED <<vars, vars2, legacy, drawn>>
     \/ part = "office" /\ Office!Next /\ UNCHANGED <<vars, vars2, legacy, drawn>>
     \/ part = "legacy" /\ Legacy!Next /\ UNCHANGED <<vars, vars2, rows, drawn>>
     \/ /\ \/ part = "design" /\ Design!Next
           \/ part = "weeks" /\ Weeks!Next
           \/ part = "drawn" /\ Drawn!Next
        /\ UNCHANGED <<vars, vars2, rows, legacy>>
     \/ part \notin {"one", "two"} /\ UNCHANGED <<vars, vars2, rows, legacy, drawn>>   \* scripts end
MCSpec == MCInit /\ [][MCNext]_<<part, vars, vars2, rows, legacy, drawn>>

(* A script runs again from wherever it stopped; the migration leaves       *)
(* everybody what they were; and the web app's demo data is consistent       *)
(* whenever it is made.                                                     *)
TablesSound ==
  /\ part \in {"demo", "again", "scratch", "office"} /\ script2 # Tables!NoScript => Tables!ScriptsRunAgain
  /\ part = "legacy" => Legacy!Backfilled
  /\ part = "design" => Design!Consistent
  /\ part = "weeks" => Weeks!Consistent
  /\ part = "drawn" => Drawn!Consistent
=============================================================================
