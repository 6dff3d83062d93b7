------------------------------- MODULE MCWeb -------------------------------
(* The web app's store, one part of which runs while the rest stays as it    *)
(* began: roles and staff of an institute without an owner, and of one with *)
(* an owner and a batch; the roll call; one syllabus; the assessment form;  *)
(* and four lists: the roster, one searched by words, staff and batches.    *)
EXTENDS StoreRoles, Pages, TLC

CONSTANTS m, t, s1, s2, s3, s4, b1, x1, x2

VARIABLES
  part,                                                        \* which of them
  permissions2, status2, roleOf2, teacher2, batch2, toasts2, me2,
  status3, address, field, table, selected, asked, toasts3, box, changes

roles2 == <<permissions2, status2, roleOf2, teacher2, batch2, toasts2, me2>>
rolls == <<students, register, page, undos>>
syllabus == <<topics, follows, coverage>>
marks == <<since, results, form, deleted>>
list == <<status3, address, field, table, selected, asked, toasts3, box, changes>>

Owned == INSTANCE StoreRoles WITH
  Staff <- {s1, s4}, Owner <- {s1}, Batch <- {b1}, MaxToasts <- 1, Requires <- {<<m, t>>},
  permissions <- permissions2, status <- status2, roleOf <- roleOf2,
  teacher <- teacher2, batch <- batch2, toasts <- toasts2, me <- me2
Roster == INSTANCE Lists WITH
  Screen <- "students", Row <- 1..2, Word <- {}, matches <- <<>>, Group <- {}, group <- <<"", "">>,
  Usual <- {"Active"}, Sizes <- {2}, FirstSize <- 1, Columns <- {"status"}, MaxResults <- 1,
  MaxChanges <- 1, MaxToasts <- 1, status <- status3, toasts <- toasts3
Searched == INSTANCE Lists WITH
  Screen <- "students", Row <- 1..2, Word <- {"a", "b"}, matches <- [a |-> {1}, b |-> {2}], Group <- {}, group <- <<"", "">>,
  Usual <- {"Active"}, Sizes <- {}, FirstSize <- 1, Columns <- {}, MaxResults <- 1,
  MaxChanges <- 0, MaxToasts <- 0, status <- status3, toasts <- toasts3
Directory == INSTANCE Lists WITH
  Screen <- "staff", Row <- 1..2, Word <- {"a"}, matches <- [a |-> {2}], Group <- {}, group <- <<"", "">>,
  Usual <- {"Invited"}, Sizes <- {}, FirstSize <- 1, Columns <- {}, MaxResults <- 1,
  MaxChanges <- 1, MaxToasts <- 1, status <- status3, toasts <- toasts3
Batches == INSTANCE Lists WITH
  Screen <- "batches", Row <- 1..2, Word <- {}, matches <- <<>>, Group <- {"g"}, group <- <<"g", "h">>,
  Usual <- {"Active", "Upcoming"}, Sizes <- {}, FirstSize <- 1, Columns <- {}, MaxResults <- 1,
  MaxChanges <- 1, MaxToasts <- 1, status <- status3, toasts <- toasts3

(* s1 set the institute up: which member did makes no difference.           *)
MCInit ==
  /\ Init /\ status[s1] = "Active"
  /\ Owned!Init /\ Rolls!Init /\ Topics!Init /\ Results!Init
  /\ \/ part \in {"roles", "owned roles", "rolls", "syllabus", "results"} /\ Searched!Init /\ status3 = <<"", "">>
     \/ part = "roster" /\ Roster!Init
     \/ part = "searched" /\ Searched!Init
     \/ part = "directory" /\ Directory!Init /\ status3 = <<"Invited", "">>
     \/ part = "batches" /\ Batches!Init
MCNext ==
  /\ UNCHANGED part
  /\ \/ part = "roles" /\ Next /\ UNCHANGED <<roles2, rolls, syllabus, marks, list>>
     \/ part = "owned roles" /\ Owned!Next /\ UNCHANGED <<vars, rolls, syllabus, marks, list>>
     \/ part = "rolls" /\ Rolls!Next /\ UNCHANGED <<vars, roles2, syllabus, marks, list>>
     \/ part = "syllabus" /\ Topics!Next /\ UNCHANGED <<vars, roles2, rolls, marks, list>>
     \/ part = "results" /\ Results!Next /\ UNCHANGED <<vars, roles2, rolls, syllabus, list>>
     \/ /\ \/ part = "roster" /\ Roster!Next
           \/ part = "searched" /\ Searched!Next
           \/ part = "directory" /\ Directory!Next
           \/ part = "batches" /\ Batches!Next
        /\ UNCHANGED <<vars, roles2, rolls, syllabus, marks>>
MCSpec == MCInit /\ [][MCNext]_<<part, vars, roles2, rolls, syllabus, marks, list>>

Interchangeable == Permutations({s2, s3}) \cup Permutations({x1, x2})
-----------------------------------------------------------------------------
(* Types, in the part that runs.                                            *)
AllTypesOK ==
  /\ part = "roles" => TypeOK
  /\ part = "owned roles" => Owned!TypeOK
  /\ part = "rolls" => Rolls!TypeOK
  /\ part = "syllabus" => Topics!TypeOK
  /\ part = "results" => Results!TypeOK
  /\ part = "roster" => Roster!TypeOK
  /\ part = "searched" => Searched!TypeOK
  /\ part = "directory" => Directory!TypeOK
  /\ part = "batches" => Batches!TypeOK

(* A list shows every row that its address asks for on one page, whatever    *)
(* pause, effect or Undo is outstanding, and counts what it shows.          *)
ListsAgree ==
  /\ part = "roster" => Roster!ListsAgree
  /\ part = "searched" => Searched!ListsAgree
  /\ part = "directory" => Directory!ListsAgree
  /\ part = "batches" => Batches!ListsAgree
=============================================================================
