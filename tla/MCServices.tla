----------------------------- MODULE MCServices -----------------------------
(* What happens between calls, one part of which runs while the rest stays   *)
(* as it began: requests of the web app and their session; student and      *)
(* parent logins; the operator's scripts; bulk admissions; the wizard.      *)
EXTENDS Services, TLC

CONSTANTS manager, teacher

VARIABLES
  part,                                                       \* which of them
  user, filled, complete, deferred, url, from

client == <<session, accepted, issued, req>>
portal == <<accounts, pending, holder, sent, spent, misused>>
scripts == <<db, role, registry, release, script, runs, unrecorded>>
imports == <<students, upload>>
wizard == <<user, filled, complete, deferred, url, from>>

Wizard == INSTANCE Setup WITH None <- Null, Manager <- manager, Teacher <- teacher
SameCase == [c \in Code \cup Card |-> c]

MCInit ==
  /\ part \in {"client", "portal", "scripts", "imports", "wizard"}
  /\ Http!Init /\ Portal!Init /\ Scripts!Init /\ Imports!Init
  /\ Wizard!Init /\ (part # "wizard" => complete)
MCNext ==
  /\ UNCHANGED part
  /\ \/ part = "client" /\ Http!Next /\ UNCHANGED <<portal, scripts, imports, wizard>>
     \/ part = "portal" /\ Portal!Next /\ UNCHANGED <<client, scripts, imports, wizard>>
     \/ part = "scripts" /\ Scripts!Next /\ UNCHANGED <<client, portal, imports, wizard>>
     \/ part = "imports" /\ Imports!Next /\ UNCHANGED <<client, portal, scripts, wizard>>
     \/ part = "wizard" /\ Wizard!Next /\ UNCHANGED <<client, portal, scripts, imports>>

(* Timers fire and effects run; nothing else is assumed to happen.          *)
MCSpec ==
  /\ MCInit /\ [][MCNext]_<<part, client, portal, scripts, imports, wizard>>
  /\ \A q \in Request : WF_client(Http!Timeout(q))
  /\ WF_portal(Portal!EndRevoked)
  /\ WF_wizard(Wizard!Redirect)
-----------------------------------------------------------------------------
(* Types, in every part.                                                    *)
AllTypesOK == Http!TypeOK /\ Portal!TypeOK /\ Scripts!TypeOK /\ Imports!TypeOK
              /\ Wizard!TypeOK

(* Every request of the web app settles, and the redirects of the guards    *)
(* around the setup wizard come to rest.                                    *)
RequestsAndRedirectsSettle == Http!RequestsSettle /\ Wizard!RedirectsSettle

(* Nobody stays signed in to a disabled account.                            *)
RevokedSessionsEnd == Portal!RevokedSessionsEnd
=============================================================================
