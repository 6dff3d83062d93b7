---------------------------- MODULE StaffOverlap ----------------------------
(***************************************************************************)
(* Roles and staff of two institutes: one of any kind, and one that has an  *)
(* owner, of a state of its own, whose requests may overlap.  Beside them,  *)
(* again of a state of their own, the tables of the database.               *)
(***************************************************************************)
EXTENDS StaffRoles

CONSTANTS
  Clients,      \* the clients of the institute with an owner
  Together,     \* the requests they make
  AtOnce,       \* bound on those handled at once
  OtherCodes,   \* codes of the institutes that are in the database from the start
  Jobs,         \* the scripts that write to it
  MaxJobs, MaxCalls   \* bounds on their runs and on requests

VARIABLES
  roles2, perms2, default2, status2, roleOf2, invited2, client2,
  db2, gone2, script2, runs2, requests2, asked2

Two == INSTANCE StaffRoles WITH
  Owner <- {Founder}, Client <- Clients, MaxInFlight <- AtOnce, Commands <- Together,
  roles <- roles2, perms <- perms2, default <- default2, status <- status2,
  roleOf <- roleOf2, invited <- invited2, client <- client2
Tables == INSTANCE Database WITH
  Others <- OtherCodes, Runnable <- Jobs, MaxRuns <- MaxJobs, MaxRequests <- MaxCalls,
  db <- db2, gone <- gone2, script <- script2, runs <- runs2, requests <- requests2, asked <- asked2

(* Overlapping requests, also of two administrators acting on each other,   *)
(* keep an administrator, the Administrator role's markers, and nobody on a *)
(* role that was deleted meanwhile; and no step of theirs touches the owner. *)
OverlapsKeepRoles ==
  [](Two!HasActiveAdmin /\ Two!AdminRoleIntact /\ Two!NoOrphanedStaff) /\ Two!OwnerUntouched

(* No row refers to one of another institute or to one that is gone, so an  *)
(* institute can always be deleted whole, and what was recorded of students *)
(* and batches goes only with it, whoever writes and wherever they stop.    *)
InstitutesKept == [](Tables!TypeOK /\ Tables!InstitutesApart) /\ Tables!HistoryKept
=============================================================================
