------------------------------ MODULE RoleRules ------------------------------
(***************************************************************************)
(* What the role rules of the web app promise, whatever roles the institute *)
(* defines (the list at the top of frontend/src/domain/roles.ts): only      *)
(* access is in view, what each active member of staff may do.  A change is *)
(* made by someone signed in who manages staff & roles; it never touches    *)
(* their own access or the owner's, and always leaves an administrator.     *)
(***************************************************************************)
CONSTANTS
  Staff, Permission, Manage,
  Owner,             \* the members who set the institute up
  None               \* nobody is signed in

VARIABLES
  access,            \* what each member may do; empty unless active
  me                 \* who is signed in

Administrators(acc) == {s \in Staff : Manage \in acc[s]}

Init ==
  /\ access \in [Staff -> SUBSET Permission]
  /\ Administrators(access) # {}
  /\ me = None

SignIn(s) == me' = s /\ access[s] # {} /\ UNCHANGED access
SignOut == me' = None /\ UNCHANGED access

ChangeAccess ==
  /\ me \in Administrators(access)
  /\ access' \in [Staff -> SUBSET Permission]
  /\ Administrators(access') # {}
  /\ \A s \in Owner \cup {me} : access'[s] = access[s]
  /\ UNCHANGED me

Next == (\E s \in Staff : SignIn(s)) \/ SignOut \/ ChangeAccess

Spec == Init /\ [][Next]_<<access, me>>
=============================================================================
