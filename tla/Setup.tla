-------------------------------- MODULE Setup --------------------------------
(***************************************************************************)
(* The first-run setup wizard of the web app (features/onboarding) and the  *)
(* route guards around it (app/router.tsx): which page one browser shows    *)
(* while an institute is set up, left for later, finished and run again.    *)
(* A guard answers a page by a redirect, which another guard may answer     *)
(* with the next; the browser takes no click in between.                    *)
(*                                                                         *)
(* Of the institute only what each step has filled in matters.  Every page  *)
(* of the app shell but Settings is "dashboard".                            *)
(* Op_Fault is Op with one fault, to show that a property depends on Op.    *)
(***************************************************************************)
EXTENDS Sequences, Naturals

CONSTANTS
  Manager,       \* someone who may change the institute's settings
  Teacher,       \* someone who may not
  None

Steps == <<"institute", "branding", "campuses", "academics", "rules", "team", "done">>
Step == {Steps[i] : i \in DOMAIN Steps}
Required == {"institute", "campuses"}
Form == Step \ {"done"}
Fillable == Form \ {"rules"}
Shell == {"dashboard", "settings"}

VARIABLES
  user,          \* who is signed in
  filled,        \* the steps whose data the institute has
  complete,      \* settings.setupCompletedAt is set
  deferred,      \* the "finish later" mark of this browser session
  url,           \* path, and on /setup the step and rerun parameters
  from           \* where the login page goes once someone has signed in

vars == <<user, filled, complete, deferred, url, from>>

Go(path) == url' = [path |-> path, step |-> None, rerun |-> FALSE]

Done == IF complete THEN filled \cup {"rules", "done"} ELSE filled
First(S) == Steps[CHOOSE i \in DOMAIN Steps :
                    Steps[i] \in S /\ \A j \in 1..(i - 1) : Steps[j] \notin S]
ResumeStep ==
  IF complete THEN "done"
  ELSE IF Required \ Done # {} THEN First(Required \ Done)
  ELSE First((Form \ Done) \cup {"done"})

Index(s) == CHOOSE i \in DOMAIN Steps : Steps[i] = s
StepAt(i) == Steps[IF i < 1 THEN 1 ELSE IF i > Len(Steps) THEN Len(Steps) ELSE i]

Init ==
  /\ user = None /\ deferred = FALSE
  /\ filled \in {{}, Fillable} /\ complete \in BOOLEAN
  /\ complete => filled = Fillable
  /\ url = [path |-> "login", step |-> None, rerun |-> FALSE]
  /\ from = "dashboard"

CanManage == user = Manager
Intercepts_Everyone == ~complete /\ ~deferred
Intercepts == ~complete /\ CanManage /\ ~deferred    \* RequireSetupDone
Refuses == ~CanManage \/ (complete /\ ~url.rerun)   \* RequireSetupAccess

(* Each guard, and the effect that pins the step opened into the URL.       *)
RequireAuth ==
  /\ user = None /\ url.path # "login"
  /\ Go("login") /\ from' = url.path
LoginPage == user # None /\ url.path = "login" /\ Go(from) /\ UNCHANGED from
RequireSetupDone ==
  /\ user # None /\ url.path \in Shell /\ Intercepts
  /\ Go("setup") /\ UNCHANGED from
RequireSetupAccess ==
  /\ user # None /\ url.path = "setup" /\ Refuses
  /\ Go("dashboard") /\ UNCHANGED from
PinStep ==
  /\ user # None /\ url.path = "setup" /\ ~Refuses /\ url.step = None
  /\ url' = [url EXCEPT !.step = IF url.rerun THEN "institute" ELSE ResumeStep]
  /\ UNCHANGED from

Redirect ==
  /\ RequireAuth \/ LoginPage \/ RequireSetupDone \/ RequireSetupAccess \/ PinStep
  /\ UNCHANGED <<user, filled, complete, deferred>>

(* The page on screen is the one the guards let through. *)
Settled ==
  IF user = None THEN url.path = "login"
  ELSE \/ url.path \in Shell /\ ~Intercepts
       \/ url.path = "setup" /\ ~Refuses /\ url.step # None

SignIn(u) ==
  /\ Settled /\ user = None
  /\ user' = u
  /\ Go(from)
  /\ UNCHANGED <<filled, complete, deferred, from>>

(* The page left may or may not have asked for a sign-in of its own first.  *)
SignOut ==
  /\ Settled /\ user # None
  /\ user' = None
  /\ Go("login") /\ from' \in {"dashboard", url.path}
  /\ UNCHANGED <<filled, complete, deferred>>

(* A link, a bookmark or the address bar; a new tab has nothing deferred.    *)
Visit(path, step, rerun) ==
  /\ Settled
  /\ path # "setup" => step = None /\ ~rerun
  /\ url' = [path |-> path, step |-> step, rerun |-> rerun]
  /\ from' = "dashboard"
  /\ deferred' \in {deferred, FALSE}
  /\ UNCHANGED <<user, filled, complete>>

Wizard == Settled /\ url.path = "setup"
GoTo(s) == url' = [url EXCEPT !.step = s] /\ UNCHANGED <<user, complete, deferred, from>>

(* What a step's own form stores: a required one is refused without its      *)
(* data; the logo, the subjects and the team may be left empty.              *)
Save(s) ==
  \/ s \in Fillable /\ filled' = filled \cup {s}
  \/ s \notin Required /\ UNCHANGED filled
  \/ s = "branding" /\ filled' = filled \ {s}

Proceed == Wizard /\ url.step # "done" /\ Save(url.step) /\ GoTo(StepAt(Index(url.step) + 1))
Skip ==
  /\ Wizard /\ url.step \notin Required \cup {"done"}
  /\ GoTo(StepAt(Index(url.step) + 1)) /\ UNCHANGED filled
Back ==
  /\ Wizard /\ url.step # "institute"
  /\ IF url.step = "branding" THEN Save("branding") ELSE UNCHANGED filled
  /\ GoTo(StepAt(Index(url.step) - 1))
Jump(s) ==
  /\ Wizard /\ (s \in Done \/ Index(s) <= Index(url.step))
  /\ GoTo(s) /\ UNCHANGED filled

(* "Finish later" marks the browser session, unless its storage is blocked; *)
(* a re-run goes back to the settings it came from.                         *)
Leave ==
  /\ Wizard
  /\ IF url.rerun THEN Go("settings") /\ UNCHANGED deferred
     ELSE /\ url.step \notin {"institute", "done"}
          /\ Go("dashboard") /\ deferred' \in {TRUE, deferred}
  /\ UNCHANGED <<user, filled, complete, from>>

(* Any way out of the closing screen completes setup. *)
Finish ==
  /\ Wizard /\ url.step = "done"
  /\ complete' = TRUE /\ deferred' = FALSE
  /\ Go("dashboard")
  /\ UNCHANGED <<user, filled, from>>

Next ==
  \/ Redirect
  \/ \E u \in {Manager, Teacher} : SignIn(u)
  \/ \E path \in Shell \cup {"setup", "login"}, step \in Step \cup {None}, rerun \in BOOLEAN :
       Visit(path, step, rerun)
  \/ SignOut \/ Proceed \/ Skip \/ Back \/ Leave \/ Finish
  \/ \E s \in Step : Jump(s)

Spec == Init /\ [][Next]_vars /\ WF_vars(Redirect)

-----------------------------------------------------------------------------
(* Types; the wizard is shown only to those who may manage settings.       *)
TypeOK ==
  /\ user \in {Manager, Teacher, None}
  /\ filled \subseteq Fillable /\ complete \in BOOLEAN /\ deferred \in BOOLEAN
  /\ url \in [path : Shell \cup {"setup", "login"}, step : Step \cup {None}, rerun : BOOLEAN]
  /\ from \in Shell \cup {"setup"}
  /\ Wizard => CanManage

(* "the shell's setup guard can't loop": whoever opens whatever page in      *)
(* whatever state of the setup, the guards' redirects come to an end.       *)
RedirectsSettle == []<>Settled
=============================================================================
