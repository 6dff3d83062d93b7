------------------------------ MODULE Services ------------------------------
(***************************************************************************)
(* Four parts of the system that keep something for a caller who comes     *)
(* back: the web app's session, the portal's logins, the operator's        *)
(* registry of clients, and bulk admissions.  They share no state.         *)
(***************************************************************************)
EXTENDS Naturals

CONSTANTS
  Request, MaxTokens, Null,
  Account, Parent, MaxAttempts, MaxIssued,
  Tenant, Script, MaxVersion, MaxRuns,
  Code, Folded, Card, Batch, MaxRows

VARIABLES
  session, accepted, issued, req,
  accounts, pending, holder, sent, spent, misused,
  db, role, registry, release, script, runs, unrecorded,
  students, upload

Http == INSTANCE SessionClient WITH None <- Null
Portal == INSTANCE PortalAccounts WITH None <- Null, session <- holder, issued <- sent
Scripts == INSTANCE Provisioning WITH Client <- Tenant, None <- Null
Imports == INSTANCE StudentImport WITH None <- Null, req <- upload

(* Once a 401 has arrived, the token it refused is never the session's.     *)
RefusedTokenGone == Http!RefusedTokenGone

(* A code or link of the portal is accepted once at most, and never after a *)
(* newer one replaced it.                                                   *)
CredentialsSingleUse == Portal!CredentialsSingleUse

(* What the registry of clients says can be used, however many scripts and  *)
(* deploys stopped half-way, and is accurate unless its database was moved  *)
(* with nothing to record it; a client's record goes only after its         *)
(* database.                                                                *)
RegistryAccurate ==
  [](Scripts!RegisteredUsable /\ Scripts!RecordedUnlessCutShort) /\ Scripts!RecordOutlivesDatabase

(* An upload admits exactly the students it reports.                        *)
AdmitsWhatItReports == Imports!AdmitsWhatItReports
=============================================================================
