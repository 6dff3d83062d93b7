---------------------------- MODULE SessionClient ----------------------------
(***************************************************************************)
(* The HTTP client of the web app and the session it acts for               *)
(* (frontend/src/services/http.ts, services/auth.ts, store/sessionStore.ts, *)
(* with an API configured).  A request takes the token when it is sent; by  *)
(* the time its answer arrives the user may have signed out and in again.   *)
(* The network loses and delays answers, a timer aborts slow requests.      *)
(* Op_Fault is Op with one fault, to show that a property depends on Op.    *)
(***************************************************************************)
EXTENDS Naturals

CONSTANTS
  Request,           \* requests that may be under way at once
  MaxTokens,         \* bound on the sessions the server opens
  None

Token == 1..MaxTokens
HttpStatus == {"ok", "unauthorised", "error"}
Outcome == {"data", "no data", "ApiError", "timeout", "offline"}

VARIABLES
  session,       \* the token in the session store
  accepted,      \* tokens the server accepts
  issued,        \* how many it has issued
  req            \* each request: the token sent, how far it is, its answer

vars == <<session, accepted, issued, req>>

Idle == [phase |-> "idle", token |-> None, signIn |-> FALSE, status |-> None, outcome |-> None]
InFlight(q) == req[q].phase \in {"sent", "answered", "body"}
Settle(q, outcome) == [req EXCEPT ![q].phase = "settled", ![q].outcome = outcome]

Init ==
  /\ session = None
  /\ accepted = {}
  /\ issued = 0
  /\ req = [q \in Request |-> Idle]

(* A request, or the sign-in form's, which only shows without a session.    *)
Send(q, signIn) ==
  /\ ~InFlight(q)
  /\ signIn => session = None
  /\ req' = [req EXCEPT ![q] = [Idle EXCEPT !.phase = "sent", !.token = session, !.signIn = signIn]]
  /\ UNCHANGED <<session, accepted, issued>>

(* The server decides; a good sign-in opens a session with a new token.     *)
Serve(q) ==
  /\ req[q].phase = "sent"
  /\ \E status \in HttpStatus :
       /\ status = "ok" => IF req[q].signIn THEN issued < MaxTokens ELSE req[q].token \in accepted
       /\ status = "unauthorised" => req[q].signIn \/ req[q].token \notin accepted
       /\ req' = [req EXCEPT ![q].phase = "answered", ![q].status = status,
                             ![q].token = IF req[q].signIn /\ status = "ok" THEN issued + 1 ELSE @]
       /\ IF req[q].signIn /\ status = "ok"
            THEN issued' = issued + 1 /\ accepted' = accepted \cup {issued + 1}
            ELSE UNCHANGED <<accepted, issued>>
  /\ UNCHANGED session

Revoke(t) == accepted' = accepted \ {t} /\ UNCHANGED <<session, issued, req>>

Headers_KeepSession(q) ==
  /\ req[q].phase = "answered"
  /\ req' = [req EXCEPT ![q].phase = "body"]
  /\ UNCHANGED <<session, accepted, issued>>

(* The status line arrives: a 401 signs out whoever is signed in by now.    *)
Headers(q) ==
  /\ req[q].phase = "answered"
  /\ req' = [req EXCEPT ![q].phase = "body"]
  /\ session' = IF req[q].status = "unauthorised" THEN None ELSE session
  /\ UNCHANGED <<accepted, issued>>

(* The body arrives, or what is left of it when the connection broke: a     *)
(* body that cannot be read counts as none.                                 *)
Result(q, data) == IF req[q].status # "ok" THEN "ApiError" ELSE data

Body(q, data) ==
  /\ req[q].phase = "body"
  /\ req' = Settle(q, Result(q, data))
  /\ session' = IF req[q].signIn /\ Result(q, data) = "data" THEN req[q].token ELSE session
  /\ UNCHANGED <<accepted, issued>>

Timeout_UntilHeaders(q) ==
  /\ req[q].phase \in {"sent", "answered"}
  /\ req' = Settle(q, "timeout")
  /\ UNCHANGED <<session, accepted, issued>>

(* The timer aborts the request, or only the reading of its body.           *)
Timeout(q) ==
  /\ InFlight(q)
  /\ req' = Settle(q, IF req[q].phase = "body" THEN Result(q, "no data") ELSE "timeout")
  /\ UNCHANGED <<session, accepted, issued>>

Offline(q) ==
  /\ req[q].phase \in {"sent", "answered"}
  /\ req' = Settle(q, "offline")
  /\ UNCHANGED <<session, accepted, issued>>

SignOut == session' = None /\ UNCHANGED <<accepted, issued, req>>

Next ==
  \/ SignOut
  \/ \E t \in Token : Revoke(t)
  \/ \E q \in Request :
       \/ \E signIn \in BOOLEAN : Send(q, signIn)
       \/ Serve(q) \/ Headers(q) \/ Timeout(q) \/ Offline(q)
       \/ \E data \in {"data", "no data"} : Body(q, data)

(* Timers fire: the browser runs the callback of every timeout that is due. *)
Fairness == \A q \in Request : WF_vars(Timeout(q))
Spec == Init /\ [][Next]_vars
FairSpec == Spec /\ Fairness

-----------------------------------------------------------------------------
(* Every request carries a token that was issued, and settles one way.     *)
TypeOK ==
  /\ session \in {None} \cup 1..issued
  /\ accepted \subseteq 1..issued /\ issued \in 0..MaxTokens
  /\ \A q \in Request : /\ req[q].token \in {None} \cup 1..issued
                        /\ req[q].status \in {None} \cup HttpStatus
                        /\ req[q].outcome \in {None} \cup Outcome

(* Once a 401 has arrived, the token it refused is never the session's      *)
(* again, whatever other answers were on their way.                         *)
RefusedTokenGone ==
  \A q \in Request :
    /\ req[q].status = "unauthorised"
    /\ req[q].phase = "body" \/ req[q].outcome = "ApiError"
    => req[q].token = None \/ session # req[q].token

(* Every request settles, also one the server never answers or whose body   *)
(* never ends ("instead of hanging the UI").                                *)
RequestsSettle == \A q \in Request : InFlight(q) ~> req[q].phase = "settled"
=============================================================================
