--------------------------- MODULE PortalAccounts ---------------------------
(***************************************************************************)
(* The logins of students and parents in the web app without an API         *)
(* (frontend/src/services/portalAuth.ts and the accounts in the store), in  *)
(* one tab that the office, students and parents use in turn.  Every call   *)
(* waits first and then runs without interruption, so it is one step, at a  *)
(* time when somebody else may have signed in or changed the account.       *)
(*                                                                         *)
(* One-time codes and e-mailed links are numbered as they are issued; one   *)
(* that has run out is as good as none.  The institute code, how a login is *)
(* matched to an account, and password rules are left out.                  *)
(* Op_Fault is Op with one fault, to show that a property depends on Op.    *)
(***************************************************************************)
EXTENDS Naturals

CONSTANTS
  Account,           \* one for each student, and for each guardian's number
  Parent,            \* those of parents
  MaxAttempts,       \* OTP_MAX_ATTEMPTS
  MaxIssued,         \* bound on the codes and links issued
  None

Status == {"Invited", "Active", "Disabled"}
Login == [status : Status, password : BOOLEAN, email : BOOLEAN, token : 0..MaxIssued]

VARIABLES
  accounts,      \* each account: token is its link, 0 for none
  pending,       \* the one-time code of each account, and wrong tries
  session,       \* who is signed in: "staff", an account or nobody
  issued,        \* the last code or link issued
  spent,         \* history: those used, replaced, run out or blocked
  misused        \* history: those accepted although spent

vars == <<accounts, pending, session, issued, spent, misused>>

Init ==
  /\ accounts = [a \in Account |-> None]
  /\ pending = [a \in Account |-> None]
  /\ session = None
  /\ issued = 0 /\ spent = {} /\ misused = {}

CodeOf(a) == IF pending[a] = None THEN 0 ELSE pending[a].code
Put(a, login) == accounts' = [accounts EXCEPT ![a] = login]
Drop(a) == pending' = [pending EXCEPT ![a] = None]

Retire(k) == spent' = spent \cup {k}
Issue(old) == issued < MaxIssued /\ issued' = issued + 1 /\ Retire(old)
Accept(k) ==
  /\ misused' = IF k \in spent THEN misused \cup {k} ELSE misused
  /\ Retire(k)

-----------------------------------------------------------------------------
(* The office: App access on a student's profile. *)

Office == session = "staff"

(* An account that is not active gets a new link; its password stays.       *)
Invite(a, email) ==
  /\ Office
  /\ IF accounts[a] = None
       THEN Put(a, [status |-> "Invited", password |-> FALSE, email |-> email, token |-> issued + 1])
            /\ Issue(0)
     ELSE /\ accounts[a].status # "Active"
          /\ Put(a, [accounts[a] EXCEPT !.status = "Invited", !.token = issued + 1])
          /\ Issue(accounts[a].token)
  /\ UNCHANGED <<pending, session, misused>>

Toggle(a) ==
  /\ Office /\ accounts[a] # None
  /\ Put(a, [accounts[a] EXCEPT !.status = IF @ = "Disabled" THEN "Active" ELSE "Disabled"])
  /\ UNCHANGED <<pending, session, issued, spent, misused>>

-----------------------------------------------------------------------------
(* Signing in *)

Usable(a) == accounts[a] # None /\ accounts[a].status = "Active"

StaffSignIn == session' = "staff" /\ UNCHANGED <<accounts, pending, issued, spent, misused>>
SignOut == session' = None /\ UNCHANGED <<accounts, pending, issued, spent, misused>>

SignInWithPassword(a) ==
  /\ Usable(a) /\ accounts[a].password
  /\ session' = a
  /\ UNCHANGED <<accounts, pending, issued, spent, misused>>

requestParentOtp(a) ==
  /\ a \in Parent /\ Usable(a)
  /\ pending' = [pending EXCEPT ![a] = [code |-> issued + 1, attempts |-> 0]]
  /\ Issue(CodeOf(a))
  /\ UNCHANGED <<accounts, session, misused>>

(* The account's status is not looked at again.                             *)
verifyParentOtp(a, k) ==
  /\ accounts[a] # None /\ pending[a] # None
  /\ IF pending[a].attempts >= MaxAttempts
       THEN Drop(a) /\ Retire(CodeOf(a)) /\ UNCHANGED <<session, misused>>
     ELSE IF k # CodeOf(a)
       THEN /\ pending' = [pending EXCEPT ![a].attempts = @ + 1]
            /\ UNCHANGED <<session, spent, misused>>
     ELSE Drop(a) /\ Accept(k) /\ session' = a
  /\ UNCHANGED <<accounts, issued>>

-----------------------------------------------------------------------------
(* Activation and recovery.  Either page takes either kind of link.         *)

activateAccount_KeepLink(a, k, email) ==
  /\ accounts[a] # None /\ k # 0 /\ accounts[a].token = k
  /\ a \in Parent => email \/ accounts[a].email
  /\ Put(a, [accounts[a] EXCEPT !.status = "Active", !.password = TRUE, !.email = email \/ @])
  /\ session' = a
  /\ Accept(k)
  /\ UNCHANGED <<pending, issued>>

activateAccount(a, k, email) ==
  /\ accounts[a] # None /\ k # 0 /\ accounts[a].token = k
  /\ a \in Parent => email \/ accounts[a].email
  /\ Put(a, [status |-> "Active", password |-> TRUE, email |-> email \/ accounts[a].email, token |-> 0])
  /\ session' = a
  /\ Accept(k)
  /\ UNCHANGED <<pending, issued>>

requestPasswordReset(a) ==
  /\ accounts[a] # None /\ accounts[a].status # "Disabled" /\ accounts[a].email
  /\ Put(a, [accounts[a] EXCEPT !.token = issued + 1])
  /\ Issue(accounts[a].token)
  /\ UNCHANGED <<pending, session, misused>>

resetPassword(a, k) ==
  /\ accounts[a] # None /\ k # 0 /\ accounts[a].token = k
  /\ Put(a, [accounts[a] EXCEPT !.password = TRUE, !.status = "Active", !.token = 0])
  /\ Accept(k)
  /\ UNCHANGED <<pending, session, issued>>

-----------------------------------------------------------------------------
(* The profile page, time and the browser *)

InPortal(a) == session = a /\ accounts[a] # None /\ accounts[a].status # "Disabled"

SetPassword(a) ==
  /\ InPortal(a)
  /\ Put(a, [accounts[a] EXCEPT !.password = TRUE])
  /\ UNCHANGED <<pending, session, issued, spent, misused>>

SetEmail(a, email) ==
  /\ InPortal(a) /\ (a \in Parent => email)
  /\ Put(a, [accounts[a] EXCEPT !.email = email])
  /\ UNCHANGED <<pending, session, issued, spent, misused>>

EndRevoked_RemovedOnly ==
  /\ session \in Account /\ accounts[session] = None
  /\ session' = None
  /\ UNCHANGED <<accounts, pending, issued, spent, misused>>

(* The guard around the portal's pages signs a disabled account out.        *)
EndRevoked ==
  /\ session \in Account
  /\ accounts[session] = None \/ accounts[session].status = "Disabled"
  /\ session' = None
  /\ UNCHANGED <<accounts, pending, issued, spent, misused>>

CodeRunsOut(a) ==
  /\ pending[a] # None
  /\ Drop(a) /\ Retire(CodeOf(a))
  /\ UNCHANGED <<accounts, session, issued, misused>>

LinkRunsOut(a) ==
  /\ accounts[a] # None /\ accounts[a].token # 0
  /\ Put(a, [accounts[a] EXCEPT !.token = 0]) /\ Retire(accounts[a].token)
  /\ UNCHANGED <<pending, session, issued, misused>>

(* Codes are in memory only; the accounts and the session are stored.       *)
Reload ==
  /\ pending' = [a \in Account |-> None]
  /\ spent' = spent \cup {CodeOf(a) : a \in Account}
  /\ UNCHANGED <<accounts, session, issued, misused>>

Next ==
  \/ StaffSignIn \/ SignOut \/ EndRevoked \/ Reload
  \/ \E a \in Account :
       \/ Toggle(a) \/ SignInWithPassword(a) \/ requestParentOtp(a) \/ requestPasswordReset(a)
       \/ SetPassword(a) \/ CodeRunsOut(a) \/ LinkRunsOut(a)
       \/ \E email \in BOOLEAN : Invite(a, email) \/ SetEmail(a, email)
       \/ \E k \in 0..issued :
            \/ verifyParentOtp(a, k) \/ resetPassword(a, k)
            \/ \E email \in BOOLEAN : activateAccount(a, k, email)

(* React runs the effect of a guard that has been rendered.                 *)
Fairness == WF_vars(EndRevoked)
Spec == Init /\ [][Next]_vars /\ Fairness

-----------------------------------------------------------------------------
(* The accounts are well formed, and only parents sign in by code.         *)
TypeOK ==
  /\ accounts \in [Account -> {None} \cup Login]
  /\ pending \in [Account -> {None} \cup [code : 1..MaxIssued, attempts : 0..MaxAttempts]]
  /\ \A a \in Account : pending[a] # None => a \in Parent
  /\ session \in {None, "staff"} \cup Account
  /\ issued \in 0..MaxIssued

(* A code or link is accepted once at most, and never after a newer one     *)
(* replaced it, whichever page it is used on and whatever the office did    *)
(* to the account in between.                                               *)
CredentialsSingleUse == misused = {}

(* Nobody stays signed in to a disabled account, even who got in with a     *)
(* code asked for before it was disabled.                                   *)
RevokedSessionsEnd ==
  \A a \in Account :
    (session = a /\ accounts[a].status = "Disabled")
      ~> (session # a \/ accounts[a].status # "Disabled")
=============================================================================
