--------------------------- MODULE ServicesProofs ---------------------------
(***************************************************************************)
(* What happens between calls, for any number of requests, accounts,        *)
(* clients and rows: a token that a 401 refused stays out of the session,   *)
(* a portal credential is accepted once, the registry of clients stays      *)
(* accurate while one script runs at a time, and an upload admits what it   *)
(* reports.  Each part is proved of its own specification.  Last, what      *)
(* StaffRolesProofs says of overlapping requests about roles and staff, and *)
(* DatabaseProofs of the database's tables, carried over to where they run. *)
(***************************************************************************)
EXTENDS Services, StaffOverlap, Integers, Sequences, TLAPS

-----------------------------------------------------------------------------
(* The session of the web app. *)

NullIsNoAnswer == Null \notin Nat \cup Http!HttpStatus \cup Http!Outcome

Stages == {"idle", "sent", "answered", "body", "settled"}
Requests == [phase : Stages, token : {Null} \cup Nat, signIn : BOOLEAN,
             status : {Null} \cup Http!HttpStatus, outcome : {Null} \cup Http!Outcome]

(* A sign-in whose answer is on its way holds a token that is nobody's yet. *)
Fresh(q) ==
  req[q].signIn /\ req[q].status = "ok" /\ req[q].phase \in {"answered", "body"} =>
    /\ req[q].token # Null /\ req[q].token # session
    /\ \A r \in Request : r # q => req[r].token # req[q].token

ClientTyped ==
  /\ req \in [Request -> Requests]
  /\ issued \in Nat
  /\ session \in {Null} \cup 1..issued
  /\ \A q \in Request : req[q].token \in {Null} \cup 1..issued
  /\ \A q \in Request : req[q].phase \in {"idle", "sent"} => req[q].status = Null
  /\ \A q \in Request : req[q].phase # "settled" => req[q].outcome = Null

ClientInv == ClientTyped /\ (\A q \in Request : Fresh(q)) /\ RefusedTokenGone

Fields == {"phase", "token", "signIn", "status", "outcome"}
(* A request is rebuilt from its fields. *)
LEMMA WholeRequest ==
  ASSUME NEW x, DOMAIN x = Fields, x = [f \in DOMAIN x |-> x[f]]
  PROVE  x = [phase |-> x.phase, token |-> x.token, signIn |-> x.signIn, status |-> x.status,
              outcome |-> x.outcome]
  BY DEF Fields

(* Nobody is signed in at first. *)
LEMMA ClientInit == NullIsNoAnswer /\ Http!Init => ClientInv
<1> SUFFICES ASSUME NullIsNoAnswer, Http!Init PROVE ClientInv
  OBVIOUS
<1>1. \A q \in Request : req[q] = [phase |-> "idle", token |-> Null, signIn |-> FALSE,
                                   status |-> Null, outcome |-> Null]
  BY DEF Http!Init, Http!Idle
<1>2. ClientTyped
  <2>1. req \in [Request -> Requests]
    <3>1. req = [q \in Request |-> req[q]]
      BY DEF Http!Init
    <3>2. [phase |-> "idle", token |-> Null, signIn |-> FALSE, status |-> Null, outcome |-> Null]
            \in Requests
      BY Zenon DEF Requests, Stages
    <3>3. QED BY <1>1, <3>1, <3>2
  <2>2. QED BY <1>1, <2>1 DEF Http!Init, ClientTyped
<1>3. \A q \in Request : Fresh(q)
  BY <1>1 DEF Fresh
<1>4. RefusedTokenGone
  BY <1>1 DEF RefusedTokenGone, Http!RefusedTokenGone, NullIsNoAnswer, Http!HttpStatus
<1>5. QED BY <1>2, <1>3, <1>4 DEF ClientInv

(* A request is sent with the token in the session. *)
LEMMA SendSafe ==
  ASSUME NullIsNoAnswer, ClientInv, NEW q \in Request, NEW signIn \in BOOLEAN, Http!Send(q, signIn)
  PROVE  ClientInv'
<1> DEFINE x == [Http!Idle EXCEPT !.phase = "sent", !.token = session, !.signIn = signIn]
<1>1. req' = [req EXCEPT ![q] = x] /\ session' = session /\ issued' = issued
  BY DEF Http!Send
<1>2. /\ x.phase = "sent" /\ x.token = session /\ x.signIn = signIn /\ x.status = Null
      /\ x.outcome = Null /\ DOMAIN x = Fields /\ x = [f \in DOMAIN x |-> x[f]]
  BY DEF Http!Idle, Fields
<1> HIDE DEF x
<1>3. /\ req'[q] = [phase |-> "sent", token |-> session, signIn |-> signIn,
                    status |-> Null, outcome |-> Null]
      /\ \A r \in Request : r # q => req'[r] = req[r]
      /\ req' = [r \in Request |-> req'[r]]
  BY <1>1, <1>2, WholeRequest DEF ClientInv, ClientTyped
<1>4. ClientTyped'
  BY <1>1, <1>3 DEF ClientInv, ClientTyped, Requests, Stages
<1>5. ASSUME NEW r \in Request PROVE Fresh(r)'
  <2>1. CASE r = q
    BY <1>3, <2>1 DEF Fresh
  <2>2. CASE r # q
    <3>1. req'[r] = req[r] /\ Fresh(r)
      BY <1>3, <2>2 DEF ClientInv
    <3>2. QED BY <1>1, <1>3, <3>1 DEF Fresh
  <2>3. QED BY <2>1, <2>2
<1>6. RefusedTokenGone'
  <2>1. req'[q].status # "unauthorised"
    BY <1>3 DEF NullIsNoAnswer, Http!HttpStatus
  <2>2. QED BY <1>1, <1>3, <2>1 DEF ClientInv, RefusedTokenGone, Http!RefusedTokenGone
<1>7. QED BY <1>4, <1>5, <1>6 DEF ClientInv

(* What an answer, or its loss, leaves of a request. *)
LEMMA SettledRequest ==
  ASSUME ClientTyped, NEW q \in Request, NEW o, req' = Http!Settle(q, o)
  PROVE  /\ req'[q] = [phase |-> "settled", token |-> req[q].token, signIn |-> req[q].signIn,
                       status |-> req[q].status, outcome |-> o]
         /\ \A r \in Request : r # q => req'[r] = req[r]
         /\ req' = [r \in Request |-> req'[r]]
<1>1. req' = [req EXCEPT ![q].phase = "settled", ![q].outcome = o]
  BY DEF Http!Settle
<1>2. /\ req'[q].phase = "settled" /\ req'[q].token = req[q].token /\ req'[q].signIn = req[q].signIn
      /\ req'[q].status = req[q].status /\ req'[q].outcome = o
      /\ DOMAIN req'[q] = Fields
  BY <1>1 DEF ClientTyped, Requests, Fields
<1>3. req'[q] = [f \in DOMAIN req'[q] |-> req'[q][f]]
  BY <1>1 DEF ClientTyped, Requests, Fields
<1>4. /\ \A r \in Request : r # q => req'[r] = req[r]
      /\ req' = [r \in Request |-> req'[r]]
  BY <1>1 DEF ClientTyped
<1>5. QED BY <1>2, <1>3, <1>4, WholeRequest

(* An answer's headers change one request. *)
LEMMA HeadersRequest ==
  ASSUME ClientTyped, NEW q \in Request, Http!Headers(q)
  PROVE  /\ req'[q] = [phase |-> "body", token |-> req[q].token, signIn |-> req[q].signIn,
                       status |-> req[q].status, outcome |-> req[q].outcome]
         /\ \A r \in Request : r # q => req'[r] = req[r]
         /\ req' = [r \in Request |-> req'[r]]
<1>1. req' = [req EXCEPT ![q].phase = "body"]
  BY DEF Http!Headers
<1>2. /\ req'[q].phase = "body" /\ req'[q].token = req[q].token /\ req'[q].signIn = req[q].signIn
      /\ req'[q].status = req[q].status /\ req'[q].outcome = req[q].outcome
      /\ DOMAIN req'[q] = Fields
  BY <1>1 DEF ClientTyped, Requests, Fields
<1>3. req'[q] = [f \in DOMAIN req'[q] |-> req'[q][f]]
  BY <1>1 DEF ClientTyped, Requests, Fields
<1>4. /\ \A r \in Request : r # q => req'[r] = req[r]
      /\ req' = [r \in Request |-> req'[r]]
  BY <1>1 DEF ClientTyped
<1>5. QED BY <1>2, <1>3, <1>4, WholeRequest

(* The server answers one request. *)
LEMMA ServedRequest ==
  ASSUME ClientTyped, NEW q \in Request, Http!Serve(q)
  PROVE  \E answer \in Http!HttpStatus :
           LET opens == req[q].signIn /\ answer = "ok"
           IN /\ req'[q] = [phase |-> "answered",
                            token |-> IF opens THEN issued + 1 ELSE req[q].token,
                            signIn |-> req[q].signIn, status |-> answer, outcome |-> req[q].outcome]
              /\ issued' = IF opens THEN issued + 1 ELSE issued
              /\ \A r \in Request : r # q => req'[r] = req[r]
              /\ req' = [r \in Request |-> req'[r]]
<1>1. PICK answer \in Http!HttpStatus :
        /\ req' = [req EXCEPT ![q].phase = "answered", ![q].status = answer,
                              ![q].token = IF req[q].signIn /\ answer = "ok" THEN issued + 1 ELSE @]
        /\ IF req[q].signIn /\ answer = "ok"
             THEN issued' = issued + 1 /\ accepted' = accepted \cup {issued + 1}
             ELSE UNCHANGED <<accepted, issued>>
  BY DEF Http!Serve
<1> DEFINE token == IF req[q].signIn /\ answer = "ok" THEN issued + 1 ELSE req[q].token
<1>2. req' = [req EXCEPT ![q].phase = "answered", ![q].status = answer, ![q].token = token]
  BY <1>1
<1> HIDE DEF token
<1>3. /\ req'[q].phase = "answered" /\ req'[q].token = token /\ req'[q].signIn = req[q].signIn
      /\ req'[q].status = answer /\ req'[q].outcome = req[q].outcome
      /\ DOMAIN req'[q] = Fields
  BY <1>2 DEF ClientTyped, Requests, Fields
<1>4. req'[q] = [f \in DOMAIN req'[q] |-> req'[q][f]]
  BY <1>2 DEF ClientTyped, Requests, Fields
<1>5. /\ \A r \in Request : r # q => req'[r] = req[r]
      /\ req' = [r \in Request |-> req'[r]]
  BY <1>2 DEF ClientTyped
<1>6. req'[q] = [phase |-> "answered", token |-> token, signIn |-> req[q].signIn,
                 status |-> answer, outcome |-> req[q].outcome]
  BY <1>3, <1>4, WholeRequest
<1>7. issued' = IF req[q].signIn /\ answer = "ok" THEN issued + 1 ELSE issued
  BY <1>1
<1>8. QED BY <1>5, <1>6, <1>7 DEF token

(* What the server answers is not yet in the session. *)
LEMMA ServeSafe ==
  ASSUME NullIsNoAnswer, ClientInv, NEW q \in Request, Http!Serve(q)
  PROVE  ClientInv'
<1>1. req[q].phase = "sent" /\ session' = session
  BY DEF Http!Serve
<1>2. PICK answer \in Http!HttpStatus :
        LET opens == req[q].signIn /\ answer = "ok"
        IN /\ req'[q] = [phase |-> "answered",
                         token |-> IF opens THEN issued + 1 ELSE req[q].token,
                         signIn |-> req[q].signIn, status |-> answer, outcome |-> req[q].outcome]
           /\ issued' = IF opens THEN issued + 1 ELSE issued
           /\ \A r \in Request : r # q => req'[r] = req[r]
           /\ req' = [r \in Request |-> req'[r]]
  BY ServedRequest DEF ClientInv
<1> DEFINE opens == req[q].signIn /\ answer = "ok"
           token == IF opens THEN issued + 1 ELSE req[q].token
<1>3. /\ req'[q] = [phase |-> "answered", token |-> token, signIn |-> req[q].signIn,
                    status |-> answer, outcome |-> req[q].outcome]
      /\ issued' = IF opens THEN issued + 1 ELSE issued
      /\ \A r \in Request : r # q => req'[r] = req[r]
      /\ req' = [r \in Request |-> req'[r]]
  BY <1>2
<1>4. /\ req[q] \in Requests /\ issued \in Nat /\ req[q].outcome = Null
      /\ req[q].token \in {Null} \cup 1..issued /\ session \in {Null} \cup 1..issued
      /\ \A r \in Request : req[r].token \in {Null} \cup 1..issued
  BY <1>1 DEF ClientInv, ClientTyped
<1>5. issued' \in Nat /\ issued <= issued' /\ token \in {Null} \cup 1..issued'
  BY <1>3, <1>4
<1>6. opens => token # Null /\ token # session /\ \A r \in Request : req[r].token # token
  BY <1>4 DEF NullIsNoAnswer
<1>7. opens <=> req[q].signIn /\ answer = "ok"
  OBVIOUS
<1> HIDE DEF opens, token
<1>8. req'[q] \in Requests
  BY <1>3, <1>4, <1>5 DEF Requests, Stages
<1>9. ClientTyped'
  <2>1. req' \in [Request -> Requests]
    BY <1>3, <1>8 DEF ClientInv, ClientTyped
  <2>2. \A r \in Request : req'[r].token \in {Null} \cup 1..issued'
    BY <1>3, <1>4, <1>5
  <2>3. session' \in {Null} \cup 1..issued'
    BY <1>1, <1>4, <1>5
  <2>4. QED BY <1>3, <1>4, <1>5, <2>1, <2>2, <2>3 DEF ClientInv, ClientTyped
<1>10. ASSUME NEW r \in Request PROVE Fresh(r)'
  <2>1. CASE r = q
    BY <1>1, <1>3, <1>6, <1>7, <2>1 DEF Fresh
  <2>2. CASE r # q
    <3>1. req'[r] = req[r] /\ Fresh(r)
      BY <1>3, <2>2 DEF ClientInv
    <3>2. SUFFICES ASSUME req[r].signIn, req[r].status = "ok", req[r].phase \in {"answered", "body"}
                   PROVE  /\ req[r].token # Null /\ req[r].token # session
                          /\ \A p \in Request : p # r => req'[p].token # req[r].token
      BY <1>1, <3>1 DEF Fresh
    <3>3. /\ req[r].token # Null /\ req[r].token # session
          /\ \A p \in Request : p # r => req[p].token # req[r].token
      BY <3>1, <3>2 DEF Fresh
    <3>4. token # req[r].token
      <4>1. CASE opens
        BY <1>6, <4>1
      <4>2. CASE ~opens
        BY <2>2, <3>3, <4>2 DEF token
      <4>3. QED BY <4>1, <4>2
    <3>5. QED BY <1>3, <3>3, <3>4
  <2>3. QED BY <2>1, <2>2
<1>11. RefusedTokenGone'
  <2>1. Null # "ApiError"
    BY DEF NullIsNoAnswer, Http!Outcome
  <2>2. req'[q].phase # "body" /\ req'[q].outcome # "ApiError"
    BY <1>3, <1>4, <2>1
  <2>3. QED BY <1>1, <1>3, <2>2 DEF ClientInv, RefusedTokenGone, Http!RefusedTokenGone
<1>12. QED BY <1>9, <1>10, <1>11 DEF ClientInv

(* A refusal drops the token it refused. *)
LEMMA HeadersSafe ==
  ASSUME NullIsNoAnswer, ClientInv, NEW q \in Request, Http!Headers(q)
  PROVE  ClientInv'
<1>1. /\ req[q].phase = "answered" /\ issued' = issued
      /\ session' = IF req[q].status = "unauthorised" THEN Null ELSE session
  BY DEF Http!Headers
<1>2. /\ req'[q] = [phase |-> "body", token |-> req[q].token, signIn |-> req[q].signIn,
                    status |-> req[q].status, outcome |-> req[q].outcome]
      /\ \A r \in Request : r # q => req'[r] = req[r]
      /\ req' = [r \in Request |-> req'[r]]
  BY HeadersRequest DEF ClientInv
<1>3. /\ req[q] \in Requests /\ issued \in Nat /\ req[q].outcome = Null
      /\ session' \in {Null, session} /\ session \in {Null} \cup 1..issued
      /\ \A r \in Request : req[r].token \in {Null} \cup 1..issued
  BY <1>1 DEF ClientInv, ClientTyped
<1>4. req'[q] \in Requests
  BY <1>2, <1>3 DEF Requests, Stages
<1>5. ClientTyped'
  <2>1. req' \in [Request -> Requests]
    BY <1>2, <1>4 DEF ClientInv, ClientTyped
  <2>2. \A r \in Request : req'[r].token \in {Null} \cup 1..issued'
    BY <1>1, <1>2, <1>3
  <2>3. QED BY <1>1, <1>2, <1>3, <2>1, <2>2 DEF ClientInv, ClientTyped
<1>6. \A r \in Request : /\ req'[r].token = req[r].token /\ req'[r].signIn = req[r].signIn
                         /\ req'[r].status = req[r].status /\ req'[r].outcome = req[r].outcome
                         /\ req'[r].phase \in {"answered", "body"} => req[r].phase \in {"answered", "body"}
                         /\ r # q => req'[r].phase = req[r].phase
  BY <1>1, <1>2
<1>7. ASSUME NEW r \in Request PROVE Fresh(r)'
  <2>1. Fresh(r)
    BY DEF ClientInv
  <2>2. QED BY <1>1, <1>6, <2>1 DEF Fresh
<1>8. ASSUME NEW r \in Request, req'[r].status = "unauthorised",
             req'[r].phase = "body" \/ req'[r].outcome = "ApiError"
      PROVE  req'[r].token = Null \/ session' # req'[r].token
  <2>1. CASE r = q
    BY <1>1, <1>6, <1>8, <2>1
  <2>2. CASE r # q
    <3>1. req[r].token = Null \/ session # req[r].token
      BY <1>6, <1>8, <2>2 DEF ClientInv, RefusedTokenGone, Http!RefusedTokenGone
    <3>2. QED BY <1>3, <1>6, <3>1
  <2>3. QED BY <2>1, <2>2
<1>9. QED BY <1>5, <1>7, <1>8 DEF ClientInv, RefusedTokenGone, Http!RefusedTokenGone

(* A request that settles, having signed in or not. *)
LEMMA SettleSafe ==
  ASSUME NullIsNoAnswer, ClientInv, NEW q \in Request, NEW o \in Http!Outcome,
         req' = Http!Settle(q, o), issued' = issued, Http!InFlight(q),
         o = "ApiError" => req[q].phase = "body",
         \/ session' = session
         \/ /\ session' = req[q].token /\ req[q].phase = "body"
            /\ req[q].signIn /\ req[q].status = "ok"
  PROVE  ClientInv'
<1>1. /\ req'[q] = [phase |-> "settled", token |-> req[q].token, signIn |-> req[q].signIn,
                    status |-> req[q].status, outcome |-> o]
      /\ \A r \in Request : r # q => req'[r] = req[r]
      /\ req' = [r \in Request |-> req'[r]]
  BY SettledRequest DEF ClientInv
<1>2. /\ req[q] \in Requests /\ issued \in Nat
      /\ session \in {Null} \cup 1..issued
      /\ \A r \in Request : req[r].token \in {Null} \cup 1..issued
  BY DEF ClientInv, ClientTyped
<1>3. req'[q] \in Requests
  BY <1>1, <1>2 DEF Requests, Stages
<1>4. ClientTyped'
  <2>1. req' \in [Request -> Requests]
    BY <1>1, <1>3 DEF ClientInv, ClientTyped
  <2>2. \A r \in Request : req'[r].token \in {Null} \cup 1..issued'
    BY <1>1, <1>2
  <2>3. session' \in {Null} \cup 1..issued'
    BY <1>2
  <2>4. QED BY <1>1, <1>2, <2>1, <2>2, <2>3 DEF ClientInv, ClientTyped
<1>5. \A r \in Request : /\ req'[r].token = req[r].token /\ req'[r].signIn = req[r].signIn
                         /\ req'[r].status = req[r].status
                         /\ r # q => req'[r] = req[r]
  BY <1>1
<1>6. ASSUME NEW r \in Request, r # q, req[r].signIn, req[r].status = "ok",
             req[r].phase \in {"answered", "body"}
      PROVE  req[r].token # Null /\ req[r].token # session' /\ req[r].token # session
             /\ \A p \in Request : p # r => req[p].token # req[r].token
  <2>1. /\ req[r].token # Null /\ req[r].token # session
        /\ \A p \in Request : p # r => req[p].token # req[r].token
    BY <1>6 DEF ClientInv, Fresh
  <2>2. QED BY <1>6, <2>1
<1>7. ASSUME NEW r \in Request PROVE Fresh(r)'
  <2>1. CASE r = q
    BY <1>1, <2>1 DEF Fresh
  <2>2. CASE r # q
    BY <1>5, <1>6, <2>2 DEF Fresh
  <2>3. QED BY <2>1, <2>2
<1>8. ASSUME NEW r \in Request, req'[r].status = "unauthorised",
             req'[r].phase = "body" \/ req'[r].outcome = "ApiError"
      PROVE  req'[r].token = Null \/ session' # req'[r].token
  <2>1. req[r].status = "unauthorised" /\ (req[r].phase = "body" \/ req[r].outcome = "ApiError")
    BY <1>1, <1>5, <1>8
  <2>2. req[r].token = Null \/ session # req[r].token
    BY <2>1 DEF ClientInv, RefusedTokenGone, Http!RefusedTokenGone
  <2>3. CASE session' = session
    BY <1>5, <2>2, <2>3
  <2>4. CASE session' # session
    <3>1. req[q].signIn /\ req[q].status = "ok" /\ req[q].phase = "body" /\ session' = req[q].token
      BY <2>4
    <3>2. r # q
      BY <2>1, <3>1
    <3>3. req[r].token # req[q].token
      BY <3>1, <3>2 DEF ClientInv, Fresh
    <3>4. QED BY <1>5, <3>1, <3>3
  <2>5. QED BY <2>3, <2>4
<1>9. QED BY <1>4, <1>7, <1>8 DEF ClientInv, RefusedTokenGone, Http!RefusedTokenGone

(* Every step of the client keeps refused tokens out. *)
LEMMA ClientStep ==
  ASSUME NullIsNoAnswer, ClientInv, [Http!Next]_(Http!vars)
  PROVE  ClientInv'
<1>1. ASSUME NEW q \in Request, NEW data \in {"data", "no data"}, Http!Body(q, data)
      PROVE  ClientInv'
  <2> DEFINE o == Http!Result(q, data)
  <2>1. /\ req' = Http!Settle(q, o) /\ issued' = issued /\ req[q].phase = "body"
        /\ session' = IF req[q].signIn /\ o = "data" THEN req[q].token ELSE session
    BY <1>1 DEF Http!Body
  <2>2. o \in Http!Outcome /\ (o = "data" => req[q].status = "ok")
    BY DEF Http!Result, Http!Outcome
  <2> HIDE DEF o
  <2>3. Http!InFlight(q)
    BY <2>1 DEF Http!InFlight
  <2>4. QED BY <2>1, <2>2, <2>3, SettleSafe
<1>2. ASSUME NEW q \in Request, Http!Timeout(q)
      PROVE  ClientInv'
  <2> DEFINE o == IF req[q].phase = "body" THEN Http!Result(q, "no data") ELSE "timeout"
  <2>1. req' = Http!Settle(q, o) /\ issued' = issued /\ session' = session /\ Http!InFlight(q)
    BY <1>2 DEF Http!Timeout
  <2>2. o \in Http!Outcome /\ (o = "ApiError" => req[q].phase = "body")
    BY DEF Http!Result, Http!Outcome
  <2> HIDE DEF o
  <2>3. QED BY <2>1, <2>2, SettleSafe
<1>3. ASSUME NEW q \in Request, Http!Offline(q)
      PROVE  ClientInv'
  <2>1. req' = Http!Settle(q, "offline") /\ issued' = issued /\ session' = session
        /\ Http!InFlight(q) /\ "offline" \in Http!Outcome
    BY <1>3 DEF Http!Offline, Http!InFlight, Http!Outcome
  <2>2. QED BY <2>1, SettleSafe
<1>4. CASE Http!SignOut
  <2>1. session' = Null /\ issued' = issued /\ req' = req
    BY <1>4 DEF Http!SignOut
  <2>2. \A q \in Request : Fresh(q)'
    BY <2>1 DEF ClientInv, Fresh
  <2>3. RefusedTokenGone'
    BY <2>1 DEF ClientInv, RefusedTokenGone, Http!RefusedTokenGone
  <2>4. QED BY <2>1, <2>2, <2>3 DEF ClientInv, ClientTyped
<1>5. CASE session' = session /\ issued' = issued /\ req' = req
  BY <1>5 DEF ClientInv, ClientTyped, Fresh, RefusedTokenGone, Http!RefusedTokenGone
<1>6. CASE \E t \in Http!Token : Http!Revoke(t)
  BY <1>5, <1>6 DEF Http!Revoke
<1>7. CASE UNCHANGED Http!vars
  BY <1>5, <1>7 DEF Http!vars
<1>8. QED
  BY <1>1, <1>2, <1>3, <1>4, <1>6, <1>7, SendSafe, ServeSafe, HeadersSafe DEF Http!Next

(* Once a 401 has arrived, the token it refused is never the session's       *)
(* again, whatever other answers, sign-ins and time-outs are on their way,   *)
(* for any number of requests.                                               *)
THEOREM RefusedTokensStayGone ==
  ASSUME NullIsNoAnswer PROVE Http!Spec => []RefusedTokenGone
<1>1. Http!Init => ClientInv
  BY ClientInit
<1>2. ClientInv /\ [Http!Next]_(Http!vars) => ClientInv'
  BY ClientStep
<1>3. ClientInv => RefusedTokenGone
  BY DEF ClientInv
<1>4. QED BY <1>1, <1>2, <1>3, PTL DEF Http!Spec

-----------------------------------------------------------------------------
(* The credentials of the portal. *)

LoginFields == {"status", "password", "email", "token"}
CodeFields == {"code", "attempts"}
IsLogin(x) == DOMAIN x = LoginFields /\ x = [f \in LoginFields |-> x[f]] /\ x.token \in Nat
IsCode(x) == DOMAIN x = CodeFields /\ x = [f \in CodeFields |-> x[f]] /\ x.code \in Nat \ {0}
             /\ x.attempts \in Nat

(* Null is neither an account nor a code. *)
NullIsNoLogin == \A S : Null \notin [LoginFields -> S] /\ Null \notin [CodeFields -> S]

(* An account is told from none. *)
LEMMA LoginNotNone ==
  ASSUME NullIsNoLogin, NEW x PROVE (IsLogin(x) => x # Null) /\ (IsCode(x) => x # Null)
<1>1. ASSUME IsLogin(x) PROVE x # Null
  <2> DEFINE S == {x[f] : f \in LoginFields}
  <2>1. x \in [LoginFields -> S]
    BY <1>1 DEF IsLogin
  <2> HIDE DEF S
  <2>2. QED BY <2>1 DEF NullIsNoLogin
<1>2. ASSUME IsCode(x) PROVE x # Null
  <2> DEFINE S == {x[f] : f \in CodeFields}
  <2>1. x \in [CodeFields -> S]
    BY <1>2 DEF IsCode
  <2> HIDE DEF S
  <2>2. QED BY <2>1 DEF NullIsNoLogin
<1>3. QED BY <1>1, <1>2

(* Each account has a place for a code and one for a link; zero is none.     *)
Places == Account \X {"code", "link"}
LinkOf(a) == IF accounts[a] = Null THEN 0 ELSE accounts[a].token
Live == [p \in Places |-> IF p[2] = "code" THEN Portal!CodeOf(p[1]) ELSE LinkOf(p[1])]

(* What is live is not spent and in one place, and nothing lies ahead of     *)
(* the count.                                                                *)
Current(live, n, used) ==
  /\ n \in Nat /\ used \subseteq 0..n
  /\ live \in [Places -> Nat]
  /\ \A p \in Places : live[p] <= n
  /\ \A p \in Places : live[p] # 0 => live[p] \notin used
  /\ \A p, q \in Places : p # q /\ live[p] # 0 => live[p] # live[q]

(* A new credential is the only current one of its kind. *)
LEMMA IssueCurrent ==
  ASSUME NEW live, NEW n, NEW used, Current(live, n, used), NEW p \in Places
  PROVE  Current([live EXCEPT ![p] = n + 1], n + 1, used \cup {live[p]})
<1> DEFINE next == [live EXCEPT ![p] = n + 1]
<1>1. n \in Nat /\ live \in [Places -> Nat] /\ used \subseteq 0..n /\ \A q \in Places : live[q] <= n
  BY DEF Current
<1>2. next \in [Places -> Nat] /\ next[p] = n + 1 /\ \A q \in Places : q # p => next[q] = live[q]
  BY <1>1
<1> HIDE DEF next
<1>3. used \cup {live[p]} \subseteq 0..(n + 1) /\ n + 1 \in Nat
  <2>1. live[p] \in 0..n /\ 0..n \subseteq 0..(n + 1) /\ n + 1 \in Nat
    BY <1>1
  <2>2. QED BY <1>1, <2>1
<1>4. \A q \in Places : next[q] <= n + 1
  BY <1>1, <1>2
<1>5. \A q \in Places : next[q] # 0 => next[q] \notin used \cup {live[p]}
  <2> SUFFICES ASSUME NEW q \in Places, next[q] # 0 PROVE next[q] \notin used /\ next[q] # live[p]
    OBVIOUS
  <2>1. CASE q = p
    BY <1>1, <1>2, <2>1
  <2>2. CASE q # p
    BY <1>2, <2>2 DEF Current
  <2>3. QED BY <2>1, <2>2
<1>6. \A q, r \in Places : q # r /\ next[q] # 0 => next[q] # next[r]
  <2> SUFFICES ASSUME NEW q \in Places, NEW r \in Places, q # r, next[q] # 0 PROVE next[q] # next[r]
    OBVIOUS
  <2>1. CASE q = p
    <3>1. next[q] = n + 1 /\ next[r] = live[r] /\ live[r] <= n /\ live[r] \in Nat
      BY <1>1, <1>2, <2>1
    <3>2. QED BY <1>1, <3>1
  <2>2. CASE r = p
    <3>1. next[r] = n + 1 /\ next[q] = live[q] /\ live[q] <= n /\ live[q] \in Nat
      BY <1>1, <1>2, <2>2
    <3>2. QED BY <1>1, <3>1
  <2>3. CASE q # p /\ r # p
    BY <1>2, <2>3 DEF Current
  <2>4. QED BY <2>1, <2>2, <2>3
<1>7. Current(next, n + 1, used \cup {live[p]})
  BY <1>2, <1>3, <1>4, <1>5, <1>6 DEF Current
<1>8. QED BY <1>7 DEF next

(* Credentials of any places are used up, or run out. *)
LEMMA RetireCurrent ==
  ASSUME NEW live, NEW n, NEW used, Current(live, n, used), NEW P \in SUBSET Places
  PROVE  Current([p \in Places |-> IF p \in P THEN 0 ELSE live[p]], n, used \cup {live[p] : p \in P})
<1> DEFINE next == [p \in Places |-> IF p \in P THEN 0 ELSE live[p]]
           gone == {live[p] : p \in P}
<1>1. n \in Nat /\ live \in [Places -> Nat] /\ used \subseteq 0..n /\ \A q \in Places : live[q] <= n
  BY DEF Current
<1>2. next \in [Places -> Nat] /\ \A q \in Places : next[q] # 0 => q \notin P /\ next[q] = live[q]
  BY <1>1
<1>3. \A q \in Places : next[q] = 0 \/ next[q] = live[q]
  OBVIOUS
<1>4. gone \subseteq 0..n
  BY <1>1
<1>5. \A q \in Places : next[q] <= n
  BY <1>1, <1>3
<1>6. \A q \in Places : next[q] # 0 => next[q] \notin used \cup gone
  <2> SUFFICES ASSUME NEW q \in Places, next[q] # 0 PROVE next[q] \notin used \cup gone
    OBVIOUS
  <2>1. q \notin P /\ next[q] = live[q] /\ live[q] # 0
    BY <1>2
  <2>2. \A p \in P : live[q] # live[p]
    BY <2>1 DEF Current
  <2>3. QED BY <2>1, <2>2 DEF Current
<1>7. \A q, r \in Places : q # r /\ next[q] # 0 => next[q] # next[r]
  <2> SUFFICES ASSUME NEW q \in Places, NEW r \in Places, q # r, next[q] # 0 PROVE next[q] # next[r]
    OBVIOUS
  <2>1. next[q] = live[q] /\ live[q] # live[r]
    BY <1>2 DEF Current
  <2>2. QED BY <1>3, <2>1
<1> HIDE DEF next, gone
<1>8. used \cup gone \subseteq 0..n
  BY <1>1, <1>4
<1>9. Current(next, n, used \cup gone)
  BY <1>1, <1>2, <1>5, <1>6, <1>7, <1>8 DEF Current
<1>10. QED BY <1>9 DEF next, gone

(* Retiring a credential leaves the others. *)
LEMMA RetireOne ==
  ASSUME NEW live, NEW n, NEW used, Current(live, n, used), NEW p \in Places
  PROVE  Current([live EXCEPT ![p] = 0], n, used \cup {live[p]})
<1>1. Current([q \in Places |-> IF q \in {p} THEN 0 ELSE live[q]], n, used \cup {live[q] : q \in {p}})
  BY RetireCurrent
<1>2. [q \in Places |-> IF q \in {p} THEN 0 ELSE live[q]] = [live EXCEPT ![p] = 0]
  BY DEF Current
<1>3. {live[q] : q \in {p}} = {live[p]}
  OBVIOUS
<1>4. QED BY <1>1, <1>2, <1>3

PortalTyped ==
  /\ accounts = [a \in Account |-> accounts[a]]
  /\ pending = [a \in Account |-> pending[a]]
  /\ \A a \in Account : accounts[a] # Null => IsLogin(accounts[a])
  /\ \A a \in Account : pending[a] # Null => IsCode(pending[a])

PortalInv == PortalTyped /\ Current(Live, sent, spent) /\ misused = {}

(* An account is written, with the link x.token. *)
LEMMA LinkWritten ==
  ASSUME NullIsNoLogin, PortalTyped, NEW a \in Account, NEW x, IsLogin(x),
         accounts' = [accounts EXCEPT ![a] = x], pending' = pending
  PROVE  /\ PortalTyped'
         /\ Live' = [Live EXCEPT ![<<a, "link">>] = x.token]
<1>1. x # Null /\ accounts'[a] = x /\ (\A b \in Account : b # a => accounts'[b] = accounts[b])
      /\ accounts' = [b \in Account |-> accounts'[b]]
  BY LoginNotNone DEF PortalTyped
<1>2. PortalTyped'
  BY <1>1 DEF PortalTyped
<1>3. \A p \in Places : Live'[p] = IF p = <<a, "link">> THEN x.token ELSE Live[p]
  <2> SUFFICES ASSUME NEW p \in Places PROVE Live'[p] = IF p = <<a, "link">> THEN x.token ELSE Live[p]
    OBVIOUS
  <2>1. p[1] \in Account /\ p[2] \in {"code", "link"} /\ p = <<p[1], p[2]>>
    BY DEF Places
  <2>2. /\ Live'[p] = IF p[2] = "code" THEN Portal!CodeOf(p[1])' ELSE LinkOf(p[1])'
        /\ Live[p] = IF p[2] = "code" THEN Portal!CodeOf(p[1]) ELSE LinkOf(p[1])
    BY DEF Live
  <2>3. Portal!CodeOf(p[1])' = Portal!CodeOf(p[1])
    BY DEF Portal!CodeOf
  <2>4. LinkOf(p[1])' = IF p[1] = a THEN x.token ELSE LinkOf(p[1])
    BY <1>1, <2>1 DEF LinkOf
  <2>5. QED BY <2>1, <2>2, <2>3, <2>4
<1>4. Live' = [p \in Places |-> Live'[p]] /\ Live = [p \in Places |-> Live[p]]
  BY DEF Live
<1>5. Live' = [Live EXCEPT ![<<a, "link">>] = x.token]
  BY <1>3, <1>4
<1>6. QED BY <1>2, <1>5

(* A code is written, or taken away. *)
LEMMA CodeWritten ==
  ASSUME NullIsNoLogin, PortalTyped, NEW a \in Account, NEW y, y = Null \/ IsCode(y),
         pending' = [pending EXCEPT ![a] = y], accounts' = accounts
  PROVE  /\ PortalTyped'
         /\ Live' = [Live EXCEPT ![<<a, "code">>] = IF y = Null THEN 0 ELSE y.code]
<1>1. pending'[a] = y /\ (\A b \in Account : b # a => pending'[b] = pending[b])
      /\ pending' = [b \in Account |-> pending'[b]]
  BY DEF PortalTyped
<1>2. PortalTyped'
  BY <1>1 DEF PortalTyped
<1> DEFINE k == IF y = Null THEN 0 ELSE y.code
<1>3. \A p \in Places : Live'[p] = IF p = <<a, "code">> THEN k ELSE Live[p]
  <2> SUFFICES ASSUME NEW p \in Places PROVE Live'[p] = IF p = <<a, "code">> THEN k ELSE Live[p]
    OBVIOUS
  <2>1. p[1] \in Account /\ p[2] \in {"code", "link"} /\ p = <<p[1], p[2]>>
    BY DEF Places
  <2>2. /\ Live'[p] = IF p[2] = "code" THEN Portal!CodeOf(p[1])' ELSE LinkOf(p[1])'
        /\ Live[p] = IF p[2] = "code" THEN Portal!CodeOf(p[1]) ELSE LinkOf(p[1])
    BY DEF Live
  <2>3. LinkOf(p[1])' = LinkOf(p[1])
    BY DEF LinkOf
  <2>4. Portal!CodeOf(p[1])' = IF p[1] = a THEN k ELSE Portal!CodeOf(p[1])
    BY <1>1, <2>1 DEF Portal!CodeOf
  <2> HIDE DEF k
  <2>5. QED BY <2>1, <2>2, <2>3, <2>4
<1>4. Live' = [p \in Places |-> Live'[p]] /\ Live = [p \in Places |-> Live[p]]
  BY DEF Live
<1> HIDE DEF k
<1>5. Live' = [Live EXCEPT ![<<a, "code">>] = k]
  BY <1>3, <1>4
<1>6. QED BY <1>2, <1>5 DEF k

(* What each place holds. *)
LEMMA Held ==
  ASSUME NEW a \in Account
  PROVE  /\ <<a, "code">> \in Places /\ <<a, "link">> \in Places
         /\ Live[<<a, "code">>] = Portal!CodeOf(a) /\ Live[<<a, "link">>] = LinkOf(a)
<1>1. <<a, "code">> \in Places /\ <<a, "link">> \in Places
  BY DEF Places
<1>2. QED BY <1>1 DEF Live

(* A live credential has not been spent. *)
LEMMA AcceptSafe ==
  ASSUME PortalInv, NEW p \in Places, Live[p] # 0, Portal!Accept(Live[p])
  PROVE  misused' = {} /\ spent' = spent \cup {Live[p]}
  BY DEF PortalInv, Current, Portal!Accept, Portal!Retire

(* A step that changes one account leaves the others. *)
LEMMA LoginChanged ==
  ASSUME NEW x, IsLogin(x)
  PROVE  /\ \A v : LET y == [x EXCEPT !.status = v] IN IsLogin(y) /\ y.token = x.token
         /\ \A v : LET y == [x EXCEPT !.password = v] IN IsLogin(y) /\ y.token = x.token
         /\ \A v : LET y == [x EXCEPT !.email = v] IN IsLogin(y) /\ y.token = x.token
         /\ \A k \in Nat : LET y == [x EXCEPT !.token = k] IN IsLogin(y) /\ y.token = k
         /\ \A v : \A k \in Nat :
              LET y == [x EXCEPT !.status = v, !.token = k] IN IsLogin(y) /\ y.token = k
         /\ \A u, v : \A k \in Nat :
              LET y == [x EXCEPT !.password = u, !.status = v, !.token = k] IN IsLogin(y) /\ y.token = k
  BY DEF IsLogin, LoginFields

(* A guess changes the attempts alone. *)
LEMMA CodeTried ==
  ASSUME NEW y, IsCode(y)
  PROVE  LET z == [y EXCEPT !.attempts = @ + 1] IN IsCode(z) /\ z.code = y.code
  BY DEF IsCode, CodeFields

(* Issuing for an account. *)
LEMMA IssueAt ==
  ASSUME PortalInv, NEW p \in Places, PortalTyped', Live' = [Live EXCEPT ![p] = sent + 1],
         Portal!Issue(Live[p]), misused' = misused
  PROVE  PortalInv'
<1> DEFINE live == Live
           liveN == Live'
           used == spent
<1>1. Current(live, sent, used) /\ liveN = [live EXCEPT ![p] = sent + 1]
  BY DEF PortalInv
<1> HIDE DEF live, liveN
<1>2. Current([live EXCEPT ![p] = sent + 1], sent + 1, used \cup {live[p]})
  BY <1>1, IssueCurrent
<1>3. Current(liveN, sent + 1, spent \cup {live[p]})
  BY <1>1, <1>2
<1>4. sent' = sent + 1 /\ spent' = spent \cup {live[p]}
  BY DEF Portal!Issue, Portal!Retire, live
<1>5. Current(liveN, sent', spent')
  BY <1>3, <1>4
<1>6. QED BY <1>5 DEF PortalInv, liveN, Current

(* Retiring for an account. *)
LEMMA RetireAt ==
  ASSUME PortalInv, NEW p \in Places, PortalTyped', Live' = [Live EXCEPT ![p] = 0],
         sent' = sent, spent' = spent \cup {Live[p]}, misused' = {}
  PROVE  PortalInv'
<1> DEFINE live == Live
           liveN == Live'
           used == spent
<1>1. Current(live, sent, used) /\ liveN = [live EXCEPT ![p] = 0] /\ spent' = used \cup {live[p]}
  BY DEF PortalInv
<1> HIDE DEF live, liveN, used
<1>2. Current([live EXCEPT ![p] = 0], sent, used \cup {live[p]})
  BY <1>1, RetireOne
<1>3. Current(liveN, sent', spent')
  BY <1>1, <1>2
<1>4. QED BY <1>3 DEF PortalInv, liveN, Current

(* Changing an account, its credentials left alone. *)
LEMMA SameAt ==
  ASSUME PortalInv, PortalTyped', Live' = Live, sent' = sent, spent' = spent, misused' = misused
  PROVE  PortalInv'
  BY DEF PortalInv, Current

(* The same link, or the same code, written again. *)
LEMMA SameLink ==
  ASSUME NullIsNoLogin, PortalInv, NEW a \in Account, accounts[a] # Null,
         NEW x, IsLogin(x), x.token = accounts[a].token,
         accounts' = [accounts EXCEPT ![a] = x],
         pending' = pending, sent' = sent, spent' = spent, misused' = misused
  PROVE  PortalInv'
<1>1. PortalTyped' /\ Live' = [Live EXCEPT ![<<a, "link">>] = x.token]
  BY LinkWritten DEF PortalInv
<1>2. Live[<<a, "link">>] = x.token /\ <<a, "link">> \in Places
  BY Held DEF LinkOf
<1>3. Live' = Live
  BY <1>1, <1>2 DEF Live
<1>4. QED BY <1>1, <1>3, SameAt

(* An invitation replaces the account's link. *)
LEMMA InviteSafe ==
  ASSUME NullIsNoLogin, PortalInv, NEW a \in Account, NEW email \in BOOLEAN, Portal!Invite(a, email)
  PROVE  PortalInv'
<1>1. /\ sent \in Nat /\ pending' = pending /\ misused' = misused
      /\ <<a, "link">> \in Places /\ Live[<<a, "link">>] = LinkOf(a)
  BY Held DEF PortalInv, Current, Portal!Invite
<1>2. CASE accounts[a] = Null
  <2> DEFINE x == [status |-> "Invited", password |-> FALSE, email |-> email, token |-> sent + 1]
  <2>1. accounts' = [accounts EXCEPT ![a] = x] /\ Portal!Issue(Live[<<a, "link">>])
    BY <1>1, <1>2 DEF Portal!Invite, Portal!Put, LinkOf
  <2>2. IsLogin(x) /\ x.token = sent + 1
    BY <1>1 DEF IsLogin, LoginFields
  <2> HIDE DEF x
  <2>3. PortalTyped' /\ Live' = [Live EXCEPT ![<<a, "link">>] = sent + 1]
    BY <1>1, <2>1, <2>2, LinkWritten DEF PortalInv
  <2>4. QED BY <1>1, <2>1, <2>3, IssueAt
<1>3. CASE accounts[a] # Null
  <2> DEFINE x == [accounts[a] EXCEPT !.status = "Invited", !.token = sent + 1]
  <2>1. accounts' = [accounts EXCEPT ![a] = x] /\ Portal!Issue(Live[<<a, "link">>])
    BY <1>1, <1>3 DEF Portal!Invite, Portal!Put, LinkOf
  <2>2. IsLogin(accounts[a])
    BY <1>3 DEF PortalInv, PortalTyped
  <2>3. IsLogin(x) /\ x.token = sent + 1
    <3> DEFINE l == accounts[a]
    <3> HIDE DEF l
    <3>1. IsLogin(l) /\ sent + 1 \in Nat
      BY <1>1, <2>2 DEF l
    <3> DEFINE z == [l EXCEPT !.status = "Invited", !.token = sent + 1]
    <3>2. IsLogin(z) /\ z.token = sent + 1
      BY <3>1, LoginChanged
    <3>3. QED BY <3>2 DEF l
  <2> HIDE DEF x
  <2>4. PortalTyped' /\ Live' = [Live EXCEPT ![<<a, "link">>] = sent + 1]
    BY <1>1, <2>1, <2>3, LinkWritten DEF PortalInv
  <2>5. QED BY <1>1, <2>1, <2>4, IssueAt
<1>4. QED BY <1>2, <1>3

(* Access is switched off and on. *)
LEMMA ToggleSafe ==
  ASSUME NullIsNoLogin, PortalInv, NEW a \in Account, Portal!Toggle(a)
  PROVE  PortalInv'
<1> DEFINE l == accounts[a]
           v == IF l.status = "Disabled" THEN "Active" ELSE "Disabled"
           x == [l EXCEPT !.status = v]
<1>1. /\ accounts[a] # Null /\ accounts' = [accounts EXCEPT ![a] = x]
      /\ pending' = pending /\ sent' = sent /\ spent' = spent /\ misused' = misused
  BY DEF Portal!Toggle, Portal!Put
<1>2. IsLogin(l)
  BY <1>1 DEF PortalInv, PortalTyped
<1>3. IsLogin(x) /\ x.token = l.token
  <2> HIDE DEF l, v
  <2>1. QED BY <1>2, LoginChanged
<1> HIDE DEF x
<1>4. QED BY <1>1, <1>3, SameLink

(* A parent asks for a code. *)
LEMMA CodeRequested ==
  ASSUME NullIsNoLogin, PortalInv, NEW a \in Account, Portal!requestParentOtp(a)
  PROVE  PortalInv'
<1> DEFINE y == [code |-> sent + 1, attempts |-> 0]
<1>1. /\ pending' = [pending EXCEPT ![a] = y] /\ accounts' = accounts /\ misused' = misused
      /\ Portal!Issue(Portal!CodeOf(a)) /\ sent \in Nat
      /\ <<a, "code">> \in Places /\ Live[<<a, "code">>] = Portal!CodeOf(a)
  BY Held DEF Portal!requestParentOtp, PortalInv, Current
<1>2. IsCode(y) /\ y.code = sent + 1
  BY <1>1 DEF IsCode, CodeFields
<1> HIDE DEF y
<1>3. y # Null
  BY <1>2, LoginNotNone
<1>4. PortalTyped' /\ Live' = [Live EXCEPT ![<<a, "code">>] = sent + 1]
  BY <1>1, <1>2, <1>3, CodeWritten DEF PortalInv
<1>5. QED BY <1>1, <1>4, IssueAt

(* A code is used, blocked, or runs out. *)
LEMMA CodeDropped ==
  ASSUME NullIsNoLogin, PortalInv, NEW a \in Account, Portal!Drop(a), accounts' = accounts,
         sent' = sent, spent' = spent \cup {Portal!CodeOf(a)}, misused' = {}
  PROVE  PortalInv'
<1>1. pending' = [pending EXCEPT ![a] = Null]
  BY DEF Portal!Drop
<1>2. PortalTyped' /\ Live' = [Live EXCEPT ![<<a, "code">>] = 0]
  <2> DEFINE y == Null
  <2>1. y = Null /\ pending' = [pending EXCEPT ![a] = y]
    BY <1>1
  <2> HIDE DEF y
  <2>2. PortalTyped' /\ Live' = [Live EXCEPT ![<<a, "code">>] = IF y = Null THEN 0 ELSE y.code]
    BY <2>1, CodeWritten DEF PortalInv
  <2>3. QED BY <2>1, <2>2
<1>3. <<a, "code">> \in Places /\ Live[<<a, "code">>] = Portal!CodeOf(a)
  BY Held
<1>4. QED BY <1>2, <1>3, RetireAt

(* A right code is spent, a wrong one costs an attempt. *)
LEMMA CodeVerified ==
  ASSUME NullIsNoLogin, PortalInv, NEW a \in Account, NEW k, Portal!verifyParentOtp(a, k)
  PROVE  PortalInv'
<1>1. accounts' = accounts /\ sent' = sent /\ pending[a] # Null
  BY DEF Portal!verifyParentOtp
<1>2. IsCode(pending[a]) /\ Portal!CodeOf(a) = pending[a].code /\ misused = {}
  BY <1>1 DEF PortalInv, PortalTyped, Portal!CodeOf
<1>3. CASE pending[a].attempts >= MaxAttempts
  BY <1>1, <1>2, <1>3, CodeDropped DEF Portal!verifyParentOtp, Portal!Retire
<1>4. CASE ~(pending[a].attempts >= MaxAttempts) /\ k # Portal!CodeOf(a)
  <2> DEFINE c == pending[a]
             y == [c EXCEPT !.attempts = @ + 1]
  <2>1. /\ pending' = [pending EXCEPT ![a].attempts = @ + 1]
        /\ spent' = spent /\ misused' = misused
    BY <1>4 DEF Portal!verifyParentOtp
  <2>2. pending' = [pending EXCEPT ![a] = y]
    BY <2>1
  <2>3. IsCode(y) /\ y.code = c.code
    <3> HIDE DEF c
    <3>1. QED BY <1>2, CodeTried DEF c
  <2> HIDE DEF y
  <2>4. y # Null
    BY <2>3, LoginNotNone
  <2>5. PortalTyped' /\ Live' = [Live EXCEPT ![<<a, "code">>] = y.code]
    BY <1>1, <2>2, <2>3, <2>4, CodeWritten DEF PortalInv
  <2>6. Live[<<a, "code">>] = y.code /\ <<a, "code">> \in Places
    BY <1>2, <2>3, Held
  <2>7. Live' = Live
    BY <2>5, <2>6 DEF Live
  <2>8. QED BY <1>1, <2>1, <2>5, <2>7, SameAt
<1>5. CASE ~(pending[a].attempts >= MaxAttempts) /\ k = Portal!CodeOf(a)
  <2>1. Portal!Drop(a) /\ Portal!Accept(k)
    BY <1>5 DEF Portal!verifyParentOtp
  <2>2. <<a, "code">> \in Places /\ Live[<<a, "code">>] = k /\ k # 0
    BY <1>2, <1>5, Held DEF IsCode
  <2>3. misused' = {} /\ spent' = spent \cup {k}
    BY <2>1, <2>2, AcceptSafe
  <2>4. QED BY <1>1, <1>5, <2>1, <2>3, CodeDropped
<1>6. QED BY <1>3, <1>4, <1>5

(* A link is taken out of an account, used or run out. *)
LEMMA LinkTaken ==
  ASSUME NullIsNoLogin, PortalInv, NEW a \in Account, accounts[a] # Null,
         NEW x, IsLogin(x), x.token = 0, accounts' = [accounts EXCEPT ![a] = x],
         pending' = pending, sent' = sent,
         spent' = spent \cup {accounts[a].token}, misused' = {}
  PROVE  PortalInv'
<1>1. PortalTyped' /\ Live' = [Live EXCEPT ![<<a, "link">>] = 0]
  BY LinkWritten DEF PortalInv
<1>2. <<a, "link">> \in Places /\ Live[<<a, "link">>] = accounts[a].token
  BY Held DEF LinkOf
<1>3. QED BY <1>1, <1>2, RetireAt

(* A link that was used is spent. *)
LEMMA LinkUsed ==
  ASSUME PortalInv, NEW a \in Account, accounts[a] # Null, NEW k, k # 0, accounts[a].token = k,
         Portal!Accept(k)
  PROVE  spent' = spent \cup {accounts[a].token} /\ misused' = {}
<1>1. <<a, "link">> \in Places /\ Live[<<a, "link">>] = k
  BY Held DEF LinkOf
<1>2. QED BY <1>1, AcceptSafe

(* A student activates the account. *)
LEMMA Activated ==
  ASSUME NullIsNoLogin, PortalInv, NEW a \in Account, NEW k, NEW email \in BOOLEAN,
         Portal!activateAccount(a, k, email)
  PROVE  PortalInv'
<1> DEFINE x == [status |-> "Active", password |-> TRUE, email |-> email \/ accounts[a].email,
                 token |-> 0]
<1>1. /\ accounts[a] # Null /\ k # 0 /\ accounts[a].token = k /\ Portal!Accept(k)
      /\ accounts' = [accounts EXCEPT ![a] = x] /\ pending' = pending /\ sent' = sent
  BY DEF Portal!activateAccount, Portal!Put
<1>2. IsLogin(x) /\ x.token = 0
  <2> DEFINE e == email \/ accounts[a].email
  <2> HIDE DEF e
  <2>1. IsLogin([status |-> "Active", password |-> TRUE, email |-> e, token |-> 0])
    BY DEF IsLogin, LoginFields
  <2>2. QED BY <2>1 DEF e
<1> HIDE DEF x
<1>3. QED BY <1>1, <1>2, LinkUsed, LinkTaken

(* A reset is asked for. *)
LEMMA ResetAsked ==
  ASSUME NullIsNoLogin, PortalInv, NEW a \in Account, Portal!requestPasswordReset(a)
  PROVE  PortalInv'
<1> DEFINE l == accounts[a]
           x == [l EXCEPT !.token = sent + 1]
<1>1. /\ accounts[a] # Null /\ accounts' = [accounts EXCEPT ![a] = x]
      /\ pending' = pending /\ misused' = misused /\ Portal!Issue(accounts[a].token)
      /\ sent \in Nat /\ <<a, "link">> \in Places /\ Live[<<a, "link">>] = LinkOf(a)
  BY Held DEF Portal!requestPasswordReset, Portal!Put, PortalInv, Current
<1>2. IsLogin(l) /\ LinkOf(a) = accounts[a].token
  BY <1>1 DEF PortalInv, PortalTyped, LinkOf
<1>3. IsLogin(x) /\ x.token = sent + 1
  <2> HIDE DEF l
  <2>1. sent + 1 \in Nat
    BY <1>1
  <2>2. QED BY <1>2, <2>1, LoginChanged
<1> HIDE DEF x
<1>4. PortalTyped' /\ Live' = [Live EXCEPT ![<<a, "link">>] = sent + 1]
  BY <1>1, <1>3, LinkWritten DEF PortalInv
<1>5. QED BY <1>1, <1>2, <1>4, IssueAt

(* A reset is done. *)
LEMMA ResetDone ==
  ASSUME NullIsNoLogin, PortalInv, NEW a \in Account, NEW k, Portal!resetPassword(a, k)
  PROVE  PortalInv'
<1> DEFINE l == accounts[a]
           x == [l EXCEPT !.password = TRUE, !.status = "Active", !.token = 0]
<1>1. /\ accounts[a] # Null /\ k # 0 /\ accounts[a].token = k /\ Portal!Accept(k)
      /\ accounts' = [accounts EXCEPT ![a] = x] /\ pending' = pending /\ sent' = sent
  BY DEF Portal!resetPassword, Portal!Put
<1>2. IsLogin(l)
  BY <1>1 DEF PortalInv, PortalTyped
<1>3. IsLogin(x) /\ x.token = 0
  <2> HIDE DEF l
  <2>1. QED BY <1>2, LoginChanged
<1> HIDE DEF x
<1>4. QED BY <1>1, <1>3, LinkUsed, LinkTaken

(* The profile changes. *)
LEMMA ProfileChanged ==
  ASSUME NullIsNoLogin, PortalInv, NEW a \in Account, NEW email \in BOOLEAN,
         Portal!SetPassword(a) \/ Portal!SetEmail(a, email)
  PROVE  PortalInv'
<1> DEFINE l == accounts[a]
           x == [l EXCEPT !.password = TRUE]
           y == [l EXCEPT !.email = email]
<1>1. /\ accounts[a] # Null
      /\ accounts' = [accounts EXCEPT ![a] = x] \/ accounts' = [accounts EXCEPT ![a] = y]
      /\ pending' = pending /\ sent' = sent /\ spent' = spent /\ misused' = misused
  BY DEF Portal!SetPassword, Portal!SetEmail, Portal!InPortal, Portal!Put
<1>2. IsLogin(l)
  BY <1>1 DEF PortalInv, PortalTyped
<1>3. IsLogin(x) /\ x.token = l.token /\ IsLogin(y) /\ y.token = l.token
  <2> HIDE DEF l
  <2>1. QED BY <1>2, LoginChanged
<1> HIDE DEF x, y
<1>4. QED BY <1>1, <1>3, SameLink

(* A link runs out. *)
LEMMA LinkRunsOutSafe ==
  ASSUME NullIsNoLogin, PortalInv, NEW a \in Account, Portal!LinkRunsOut(a)
  PROVE  PortalInv'
<1> DEFINE l == accounts[a]
           x == [l EXCEPT !.token = 0]
<1>1. /\ accounts[a] # Null /\ accounts' = [accounts EXCEPT ![a] = x]
      /\ pending' = pending /\ sent' = sent /\ misused' = {}
      /\ spent' = spent \cup {accounts[a].token}
  BY DEF Portal!LinkRunsOut, Portal!Put, Portal!Retire, PortalInv
<1>2. IsLogin(l)
  BY <1>1 DEF PortalInv, PortalTyped
<1>3. IsLogin(x) /\ x.token = 0
  <2> HIDE DEF l
  <2>1. QED BY <1>2, LoginChanged
<1> HIDE DEF x
<1>4. QED BY <1>1, <1>3, LinkTaken

(* The page is loaded again. *)
LEMMA ReloadSafe ==
  ASSUME NullIsNoLogin, PortalInv, Portal!Reload
  PROVE  PortalInv'
<1> DEFINE P == {<<a, "code">> : a \in Account}
           live == Live
           next == [p \in Places |-> IF p \in P THEN 0 ELSE live[p]]
<1>1. /\ pending' = [a \in Account |-> Null] /\ accounts' = accounts /\ sent' = sent
      /\ misused' = misused /\ spent' = spent \cup {Portal!CodeOf(a) : a \in Account}
  BY DEF Portal!Reload
<1>2. PortalTyped'
  BY <1>1 DEF PortalInv, PortalTyped
<1>3. \A p \in Places : Live'[p] = IF p \in P THEN 0 ELSE Live[p]
  <2> SUFFICES ASSUME NEW p \in Places PROVE Live'[p] = IF p \in P THEN 0 ELSE Live[p]
    OBVIOUS
  <2>1. p[1] \in Account /\ p[2] \in {"code", "link"} /\ p = <<p[1], p[2]>>
    BY DEF Places
  <2>2. /\ Live'[p] = IF p[2] = "code" THEN Portal!CodeOf(p[1])' ELSE LinkOf(p[1])'
        /\ Live[p] = IF p[2] = "code" THEN Portal!CodeOf(p[1]) ELSE LinkOf(p[1])
    BY DEF Live
  <2>3. LinkOf(p[1])' = LinkOf(p[1]) /\ Portal!CodeOf(p[1])' = 0
    BY <1>1, <2>1 DEF LinkOf, Portal!CodeOf
  <2>4. p \in P <=> p[2] = "code"
    BY <2>1
  <2>5. QED BY <2>2, <2>3, <2>4
<1>4. Live' = next
  BY <1>3 DEF Live
<1>5. P \in SUBSET Places /\ \A a \in Account : live[<<a, "code">>] = Portal!CodeOf(a)
  BY Held DEF Places
<1>6. {live[p] : p \in P} = {Portal!CodeOf(a) : a \in Account}
  <2> HIDE DEF live
  <2>1. QED BY <1>5
<1> DEFINE used == spent
<1>7. Current(live, sent, used)
  BY DEF PortalInv
<1> HIDE DEF live, P, used
<1>8. Current(next, sent, used \cup {live[p] : p \in P})
  BY <1>5, <1>7, RetireCurrent
<1>9. spent' = used \cup {live[p] : p \in P}
  BY <1>1, <1>6 DEF used
<1> HIDE DEF next
<1>10. Current(next, sent', spent')
  BY <1>1, <1>8, <1>9
<1>11. QED BY <1>1, <1>2, <1>4, <1>10 DEF PortalInv, Current

(* Every step of the portal keeps the credentials. *)
LEMMA PortalStep ==
  ASSUME NullIsNoLogin, PortalInv, [Portal!Next]_(Portal!vars)
  PROVE  PortalInv'
<1>1. CASE UNCHANGED <<accounts, pending, sent, spent, misused>>
  <2>1. PortalTyped' /\ Live' = Live
    BY <1>1 DEF PortalInv, PortalTyped, Live, LinkOf, Portal!CodeOf
  <2>2. QED BY <1>1, <2>1, SameAt
<1>2. CASE Portal!StaffSignIn \/ Portal!SignOut \/ Portal!EndRevoked
           \/ \E a \in Account : Portal!SignInWithPassword(a)
  BY <1>1, <1>2 DEF Portal!StaffSignIn, Portal!SignOut, Portal!EndRevoked, Portal!SignInWithPassword
<1>3. ASSUME NEW a \in Account, Portal!CodeRunsOut(a) PROVE PortalInv'
  BY <1>3, CodeDropped DEF Portal!CodeRunsOut, Portal!Retire, PortalInv
<1>4. ASSUME NEW a \in Account, Portal!SetPassword(a) PROVE PortalInv'
  BY <1>4, ProfileChanged
<1>5. CASE UNCHANGED Portal!vars
  BY <1>1, <1>5 DEF Portal!vars
<1>6. CASE \E a \in Account :
             \/ Portal!Toggle(a) \/ Portal!requestParentOtp(a) \/ Portal!requestPasswordReset(a)
             \/ Portal!SetPassword(a) \/ Portal!CodeRunsOut(a) \/ Portal!LinkRunsOut(a)
  BY <1>3, <1>4, <1>6, ToggleSafe, CodeRequested, ResetAsked, LinkRunsOutSafe
<1>7. CASE \E a \in Account, email \in BOOLEAN : Portal!Invite(a, email) \/ Portal!SetEmail(a, email)
  BY <1>7, InviteSafe, ProfileChanged
<1>8. CASE \E a \in Account, k \in 0..sent :
             \/ Portal!verifyParentOtp(a, k) \/ Portal!resetPassword(a, k)
             \/ \E email \in BOOLEAN : Portal!activateAccount(a, k, email)
  BY <1>8, CodeVerified, ResetDone, Activated
<1>9. QED BY <1>2, <1>5, <1>6, <1>7, <1>8, ReloadSafe DEF Portal!Next

(* A one-time code or an e-mailed link is accepted once at most, and never   *)
(* after a newer one replaced it or it ran out, whatever the office does to  *)
(* the account, for any number of accounts, codes and tries.                 *)
THEOREM CredentialsUsedOnce ==
  ASSUME NullIsNoLogin PROVE Portal!Spec => []CredentialsSingleUse
<1>1. Portal!Init => PortalInv
  <2> SUFFICES ASSUME Portal!Init PROVE PortalInv
    OBVIOUS
  <2>1. PortalTyped /\ sent = 0 /\ spent = {} /\ misused = {}
    BY DEF Portal!Init, PortalTyped
  <2>2. Live \in [Places -> Nat] /\ \A p \in Places : Live[p] = 0
    BY DEF Portal!Init, Live, LinkOf, Portal!CodeOf, Places
  <2>3. QED BY <2>1, <2>2 DEF PortalInv, Current
<1>2. PortalInv /\ [Portal!Next]_(Portal!vars) => PortalInv'
  BY PortalStep
<1>3. PortalInv => CredentialsSingleUse
  BY DEF PortalInv, CredentialsSingleUse, Portal!CredentialsSingleUse
<1>4. QED BY <1>1, <1>2, <1>3, PTL DEF Portal!Spec

-----------------------------------------------------------------------------
(* The registry of clients. *)

(* The operator runs one script at a time. *)
OneScript == \A s, t \in Script : s = t

DbFields == {"stage", "version", "failed"}
EntryFields == {"password", "version"}
ScriptFields == {"client", "pc", "password", "keepRole", "copy", "todo", "version"}
IsDb(x) == DOMAIN x = DbFields /\ x = [f \in DbFields |-> x[f]]
           /\ x.version \in Nat /\ x.version <= release /\ x.stage \in Scripts!Stage
           /\ x.failed \in BOOLEAN /\ (x.failed => x.version < release)
IsEntry(x) == DOMAIN x = EntryFields /\ x = [f \in EntryFields |-> x[f]] /\ x.version \in Nat
IsScript(x) == DOMAIN x = ScriptFields /\ x = [f \in ScriptFields |-> x[f]]

(* Null is no database, entry or script. *)
NullIsNoRecord ==
  \A S : Null \notin [DbFields -> S] \cup [EntryFields -> S] \cup [ScriptFields -> S]

(* A record is told from none. *)
LEMMA RecordNotNone ==
  ASSUME NullIsNoRecord, NEW x
  PROVE  (IsDb(x) => x # Null) /\ (IsEntry(x) => x # Null) /\ (IsScript(x) => x # Null)
<1>1. ASSUME NEW F, x = [f \in F |-> x[f]] PROVE x \in [F -> {x[f] : f \in F}]
  BY <1>1
<1>2. ASSUME NEW F, F \in {DbFields, EntryFields, ScriptFields}, x = [f \in F |-> x[f]] PROVE x # Null
  <2> DEFINE S == {x[f] : f \in F}
  <2>1. x \in [F -> S]
    BY <1>1, <1>2
  <2> HIDE DEF S
  <2>2. QED BY <1>2, <2>1 DEF NullIsNoRecord
<1>3. QED BY <1>2 DEF IsDb, IsEntry, IsScript

RegistryTyped ==
  /\ db = [c \in Tenant |-> db[c]]
  /\ role = [c \in Tenant |-> role[c]]
  /\ registry = [c \in Tenant |-> registry[c]]
  /\ release \in Nat
  /\ \A c \in Tenant : db[c] # Null => IsDb(db[c])
  /\ \A c \in Tenant : registry[c] # Null => IsEntry(registry[c])

(* What a script has done by the point it has come to. *)
Creating(x) ==
  /\ x.pc \in {"check", "role", "database", "build", "register"} => registry[x.client] = Null
  /\ x.pc \in {"role", "database"} => db[x.client] = Null
  /\ x.pc \in {"database", "build", "register"} => role[x.client] = x.password
  /\ x.pc = "build" => /\ db[x.client] # Null
                       /\ db[x.client].stage \notin {"open", "shut"} =>
                            db[x.client].version = x.version /\ x.version = release
  /\ x.pc = "register" => /\ db[x.client] # Null /\ db[x.client].stage = "ready"
                          /\ db[x.client].version = x.version /\ x.version = release
Dropping(x) == x.pc \in {"dropRole", "deregister"} => db[x.client] = Null
Migrating(x) ==
  /\ x.pc \in {"deploy", "record"} => registry[x.client] # Null
  /\ x.pc \in {"next", "deploy", "record"} =>
       x.todo \subseteq Tenant /\ \A c \in x.todo : registry[c] # Null
  /\ x.pc = "deploy" => /\ db[x.client] # Null /\ x.version <= db[x.client].version
                        /\ registry[x.client].version # x.version => x.client \in unrecorded
  /\ x.pc = "record" => /\ db[x.client] # Null /\ db[x.client].version = release
                        /\ x.version <= release
                        /\ x.version # release => x.client \in unrecorded
Pcs == {"check", "role", "database", "build", "register", "dump", "drop", "dropRole", "deregister",
        "next", "deploy", "record"}
Doing(x) ==
  /\ x.copy = registry /\ x.version \in Nat /\ x.pc \in Pcs
  /\ x.pc # "next" => x.client \in Tenant
  /\ Creating(x) /\ Dropping(x) /\ Migrating(x)

RegistryInv ==
  /\ RegistryTyped
  /\ script = [s \in Script |-> script[s]]
  /\ \A s \in Script : script[s] # Null => IsScript(script[s]) /\ Doing(script[s])
  /\ Scripts!RegisteredUsable /\ Scripts!RecordedUnlessCutShort

(* Script x, or none, is deploying to c or about to record it. *)
Handles(x, c) == x # Null /\ x.pc \in {"deploy", "record"} /\ x.client = c
Busy(s) == script[s] # Null /\ script[s].pc \in {"deploy", "record"}

(* The one script has come to x, or ended. *)
LEMMA ScriptComes ==
  ASSUME OneScript, RegistryInv, NEW s \in Script, NEW x, x # Null => IsScript(x) /\ Doing(x)',
         script' = [script EXCEPT ![s] = x], RegistryTyped', (Scripts!RegisteredUsable)',
         \A c \in Tenant : registry'[c] # Null /\ db'[c] # Null /\ registry'[c].version # db'[c].version
                             => c \in unrecorded' \/ Handles(x, c)
  PROVE  RegistryInv'
<1>1. script'[s] = x /\ script' = [t \in Script |-> script'[t]] /\ \A t \in Script : t = s
  BY DEF RegistryInv, OneScript
<1>2. \A t \in Script : (script[t] # Null => IsScript(script[t]) /\ Doing(script[t]))'
  <2> SUFFICES ASSUME NEW t \in Script, script'[t] # Null
               PROVE  (IsScript(script[t]) /\ Doing(script[t]))'
    OBVIOUS
  <2>1. script'[t] = x
    BY <1>1
  <2>2. IsScript(script'[t])
    BY <2>1
  <2>3. Doing(script[t])'
    BY <2>1 DEF Doing, Creating, Dropping, Migrating
  <2>4. QED BY <2>2, <2>3 DEF IsScript
<1>3. (Scripts!RecordedUnlessCutShort)'
  BY <1>1 DEF Scripts!RecordedUnlessCutShort, Handles
<1>4. QED BY <1>1, <1>2, <1>3 DEF RegistryInv

(* Where it was. *)
LEMMA ScriptWas ==
  ASSUME NullIsNoRecord, OneScript, RegistryInv, NEW s \in Script
  PROVE  /\ script[s] # Null => IsScript(script[s]) /\ Doing(script[s])
         /\ \A c \in Tenant : registry[c] # Null /\ db[c] # Null /\ registry[c].version # db[c].version
                             => c \in unrecorded \/ Handles(script[s], c)
         /\ \A c \in Tenant : registry[c] # Null /\ db[c] # Null =>
              /\ db[c].stage = "ready" /\ role[c] = registry[c].password
              /\ registry[c].version <= db[c].version
         /\ RegistryTyped
<1>1. \A t \in Script : t = s
  BY DEF OneScript
<1>2. \A c \in Tenant : registry[c] # Null /\ db[c] # Null /\ registry[c].version # db[c].version
                          => c \in unrecorded \/ Handles(script[s], c)
  BY <1>1 DEF RegistryInv, Scripts!RecordedUnlessCutShort, Handles
<1>3. QED BY <1>2 DEF RegistryInv, Scripts!RegisteredUsable

(* Whom a script leaves behind if it stops here is known. *)
LEMMA LeftKnown ==
  ASSUME NullIsNoRecord, OneScript, RegistryInv, NEW s \in Script
  PROVE  \A c \in Tenant : registry[c] # Null /\ db[c] # Null /\ registry[c].version # db[c].version
                             => c \in unrecorded \cup Scripts!LeftBehind(s)
<1> SUFFICES ASSUME NEW c \in Tenant, registry[c] # Null, db[c] # Null,
                    registry[c].version # db[c].version, c \notin unrecorded
             PROVE  c \in Scripts!LeftBehind(s)
  OBVIOUS
<1>1. Handles(script[s], c) /\ Doing(script[s])
  BY ScriptWas DEF Handles
<1>2. CASE script[s].pc = "record"
  BY <1>1, <1>2 DEF Handles, Scripts!LeftBehind, Scripts!At
<1>3. CASE script[s].pc = "deploy"
  <2>1. db[c].version # script[s].version
    BY <1>1, <1>3 DEF Handles, Doing, Migrating
  <2>2. QED BY <1>1, <1>3, <2>1 DEF Handles, Scripts!LeftBehind, Scripts!At
<1>4. QED BY <1>1, <1>2, <1>3 DEF Handles

(* Having changed nothing but itself, and leaving nobody behind unknown.    *)
LEMMA ScriptMoves ==
  ASSUME NullIsNoRecord, OneScript, RegistryInv, NEW s \in Script, NEW x,
         x # Null => IsScript(x) /\ Doing(x),
         ~Busy(s) \/ unrecorded' = unrecorded \cup Scripts!LeftBehind(s),
         unrecorded \subseteq unrecorded',
         script' = [script EXCEPT ![s] = x], UNCHANGED <<db, role, registry, release>>
  PROVE  RegistryInv'
<1>1. RegistryTyped' /\ (Scripts!RegisteredUsable)'
  BY DEF RegistryInv, RegistryTyped, IsDb, IsEntry, Scripts!RegisteredUsable
<1>2. x # Null => Doing(x)'
  BY DEF Doing, Creating, Dropping, Migrating
<1>3. \A c \in Tenant : registry'[c] # Null /\ db'[c] # Null /\ registry'[c].version # db'[c].version
                          => c \in unrecorded'
  <2>1. CASE ~Busy(s)
    BY <2>1, ScriptWas DEF Busy, Handles
  <2>2. CASE unrecorded' = unrecorded \cup Scripts!LeftBehind(s)
    BY <2>2, LeftKnown
  <2>3. QED BY <2>1, <2>2
<1>4. QED BY <1>1, <1>2, <1>3, ScriptComes

(* A script moves on. *)
LEMMA PcMoved ==
  ASSUME NEW x, IsScript(x), NEW p
  PROVE  LET y == [x EXCEPT !.pc = p]
         IN /\ IsScript(y) /\ y.pc = p /\ y.client = x.client /\ y.password = x.password
            /\ y.copy = x.copy /\ y.todo = x.todo /\ y.version = x.version
            /\ y.keepRole = x.keepRole
  BY DEF IsScript, ScriptFields

(* A script starts. *)
LEMMA Started ==
  ASSUME NEW c, NEW p, NEW pw, NEW k, NEW td
  PROVE  LET y == [client |-> c, pc |-> p, password |-> pw, keepRole |-> k,
                   copy |-> registry, todo |-> td, version |-> 0]
         IN /\ IsScript(y) /\ y.pc = p /\ y.client = c /\ y.password = pw
            /\ y.copy = registry /\ y.todo = td /\ y.version = 0
  BY DEF IsScript, ScriptFields

(* Starting keeps the invariant. *)
LEMMA StartSafe ==
  ASSUME NullIsNoRecord, OneScript, RegistryInv, NEW s \in Script,
         \/ \E c \in Tenant : Scripts!StartCreate(s, c)
         \/ \E c \in Tenant, skip, keep \in BOOLEAN : Scripts!StartDrop(s, c, skip, keep)
         \/ \E only \in SUBSET Tenant : Scripts!StartMigrate(s, only)
  PROVE  RegistryInv'
<1> USE DEF Doing, Creating, Dropping, Migrating, Pcs
<1>1. script[s] = Null /\ UNCHANGED <<db, role, registry, release, unrecorded>>
  BY DEF Scripts!StartCreate, Scripts!StartDrop, Scripts!StartMigrate, Scripts!Start
<1>2. ~Busy(s)
  BY <1>1 DEF Busy
<1>3. ASSUME NEW c \in Tenant, Scripts!StartCreate(s, c) PROVE RegistryInv'
  <2> DEFINE x == [client |-> c, pc |-> "check", password |-> runs + 1, keepRole |-> FALSE,
                   copy |-> registry, todo |-> {}, version |-> 0]
  <2>1. script' = [script EXCEPT ![s] = x] /\ registry[c] = Null
    BY <1>3 DEF Scripts!StartCreate, Scripts!Start
  <2>2. IsScript(x) /\ x.pc = "check" /\ x.client = c /\ x.copy = registry /\ x.version = 0
    BY Started
  <2> HIDE DEF x
  <2>3. Doing(x)
    BY <2>1, <2>2
  <2>4. QED BY <1>1, <1>2, <2>1, <2>2, <2>3, ScriptMoves
<1>4. ASSUME NEW c \in Tenant, NEW skip \in BOOLEAN, NEW keep \in BOOLEAN, Scripts!StartDrop(s, c, skip, keep)
      PROVE  RegistryInv'
  <2> DEFINE p == IF skip THEN "drop" ELSE "dump"
             x == [client |-> c, pc |-> p, password |-> Null, keepRole |-> keep,
                   copy |-> registry, todo |-> {}, version |-> 0]
  <2>1. script' = [script EXCEPT ![s] = x] /\ p \in {"drop", "dump"}
    BY <1>4 DEF Scripts!StartDrop, Scripts!Start
  <2>2. IsScript(x) /\ x.pc = p /\ x.client = c /\ x.copy = registry /\ x.version = 0
    BY Started
  <2> HIDE DEF x, p
  <2>3. Doing(x)
    BY <2>1, <2>2
  <2>4. QED BY <1>1, <1>2, <2>1, <2>2, <2>3, ScriptMoves
<1>5. ASSUME NEW only \in SUBSET Tenant, Scripts!StartMigrate(s, only) PROVE RegistryInv'
  <2> DEFINE targets == {c \in only : registry[c] # Null}
             x == [client |-> Null, pc |-> "next", password |-> Null, keepRole |-> FALSE,
                   copy |-> registry, todo |-> targets, version |-> 0]
  <2>1. script' = [script EXCEPT ![s] = x] /\ targets \subseteq Tenant
        /\ \A c \in targets : registry[c] # Null
    BY <1>5 DEF Scripts!StartMigrate
  <2>2. /\ IsScript(x) /\ x.pc = "next" /\ x.copy = registry /\ x.version = 0
        /\ x.todo = targets
    BY Started
  <2> HIDE DEF x, targets
  <2>3. Doing(x)
    BY <2>1, <2>2
  <2>4. QED BY <1>1, <1>2, <2>1, <2>2, <2>3, ScriptMoves
<1>6. QED BY <1>3, <1>4, <1>5

(* A stop at any point keeps it. *)
LEMMA CrashSafe ==
  ASSUME NullIsNoRecord, OneScript, RegistryInv, NEW s \in Script, Scripts!Crash(s)
  PROVE  RegistryInv'
<1> DEFINE x == Null
<1>1. /\ script' = [script EXCEPT ![s] = x] /\ UNCHANGED <<db, role, registry, release>>
      /\ unrecorded' = unrecorded \cup Scripts!LeftBehind(s)
      /\ unrecorded \subseteq unrecorded' /\ x = Null
  BY DEF Scripts!Crash, Scripts!Ends, Scripts!Unrecorded
<1> HIDE DEF x
<1>2. QED BY <1>1, ScriptMoves

(* A script that ends short of recording. *)
LEMMA EndSafe ==
  ASSUME NullIsNoRecord, OneScript, RegistryInv, NEW s \in Script, Scripts!Ends(s),
         ~Busy(s), UNCHANGED <<db, role, registry, release, unrecorded>>
  PROVE  RegistryInv'
<1> DEFINE x == Null
<1>1. script' = [script EXCEPT ![s] = x] /\ x = Null
  BY DEF Scripts!Ends
<1> HIDE DEF x
<1>2. QED BY <1>1, ScriptMoves

(* The step of a script to its point p, as a whole value. *)
LEMMA GoneTo ==
  ASSUME RegistryInv, NEW s \in Script, script[s] # Null, NEW p, Scripts!GoTo(s, p)
  PROVE  \E y : /\ script' = [script EXCEPT ![s] = y] /\ IsScript(y) /\ y.pc = p
                /\ y.client = script[s].client /\ y.password = script[s].password
                /\ y.copy = script[s].copy /\ y.todo = script[s].todo
                /\ y.version = script[s].version /\ y.keepRole = script[s].keepRole
<1> DEFINE x == script[s]
           y == [x EXCEPT !.pc = p]
<1>1. script' = [script EXCEPT ![s] = y]
  BY DEF Scripts!GoTo
<1>2. IsScript(x)
  BY DEF RegistryInv
<1>3. /\ IsScript(y) /\ y.pc = p /\ y.client = x.client /\ y.password = x.password
      /\ y.copy = x.copy /\ y.todo = x.todo /\ y.version = x.version /\ y.keepRole = x.keepRole
  <2> HIDE DEF x
  <2>1. QED BY <1>2, PcMoved
<1> HIDE DEF y
<1>4. QED BY <1>1, <1>3

(* The checks before a creation. *)
LEMMA CheckSafe ==
  ASSUME NullIsNoRecord, OneScript, RegistryInv, NEW s \in Script, Scripts!CheckDatabase(s)
  PROVE  RegistryInv'
<1> DEFINE x == script[s]
<1>1. /\ x # Null /\ x.pc = "check" /\ UNCHANGED <<db, role, registry, release, unrecorded>>
      /\ ~Busy(s) /\ Doing(x)
  BY DEF Scripts!CheckDatabase, Scripts!At, RegistryInv, Busy
<1>2. CASE db[x.client] # Null
  BY <1>1, <1>2, EndSafe DEF Scripts!CheckDatabase
<1>3. CASE db[x.client] = Null
  <2>1. Scripts!GoTo(s, "role")
    BY <1>3 DEF Scripts!CheckDatabase
  <2>2. PICK y : /\ script' = [script EXCEPT ![s] = y] /\ IsScript(y) /\ y.pc = "role"
                 /\ y.client = x.client /\ y.copy = x.copy /\ y.version = x.version
    BY <1>1, <2>1, GoneTo
  <2>3. Doing(y)
    BY <1>1, <1>3, <2>2 DEF Doing, Creating, Dropping, Migrating, Pcs
  <2>4. QED BY <1>1, <2>2, <2>3, ScriptMoves
<1>4. QED BY <1>2, <1>3

(* The dump before a drop. *)
LEMMA DumpSafe ==
  ASSUME NullIsNoRecord, OneScript, RegistryInv, NEW s \in Script, Scripts!Dump(s)
  PROVE  RegistryInv'
<1> DEFINE x == script[s]
<1>1. /\ x # Null /\ x.pc = "dump" /\ UNCHANGED <<db, role, registry, release, unrecorded>>
      /\ ~Busy(s) /\ Doing(x)
  BY DEF Scripts!Dump, Scripts!At, RegistryInv, Busy
<1>2. CASE Scripts!Ends(s)
  BY <1>1, <1>2, EndSafe
<1>3. CASE Scripts!GoTo(s, "drop")
  <2>1. PICK y : /\ script' = [script EXCEPT ![s] = y] /\ IsScript(y) /\ y.pc = "drop"
                 /\ y.client = x.client /\ y.copy = x.copy /\ y.version = x.version
    BY <1>1, <1>3, GoneTo
  <2>2. Doing(y)
    BY <1>1, <2>1 DEF Doing, Creating, Dropping, Migrating, Pcs
  <2>3. QED BY <1>1, <2>1, <2>2, ScriptMoves
<1>4. QED BY <1>2, <1>3 DEF Scripts!Dump

(* The role is created. *)
LEMMA CreateRoleSafe ==
  ASSUME NullIsNoRecord, OneScript, RegistryInv, NEW s \in Script, Scripts!CreateRole(s)
  PROVE  RegistryInv'
<1> DEFINE x == script[s]
           c == x.client
<1>1. /\ x # Null /\ x.pc = "role" /\ UNCHANGED <<db, registry, release, unrecorded>>
      /\ Scripts!GoTo(s, "database") /\ role' = [role EXCEPT ![c] = x.password]
      /\ IsScript(x) /\ Doing(x)
  BY DEF Scripts!CreateRole, Scripts!At, RegistryInv
<1>2. PICK y : /\ script' = [script EXCEPT ![s] = y] /\ IsScript(y) /\ y.pc = "database"
               /\ y.client = c /\ y.password = x.password /\ y.copy = x.copy /\ y.version = x.version
  BY <1>1, GoneTo
<1>3. c \in Tenant /\ registry[c] = Null /\ db[c] = Null /\ x.copy = registry /\ x.version \in Nat
  BY <1>1 DEF Doing, Creating
<1>4. role'[c] = x.password /\ (\A d \in Tenant : d # c => role'[d] = role[d])
      /\ role' = [d \in Tenant |-> role'[d]]
  BY <1>1, <1>3 DEF RegistryInv, RegistryTyped
<1>5. Doing(y)'
  BY <1>1, <1>2, <1>3, <1>4 DEF Doing, Creating, Dropping, Migrating, Pcs
<1>6. RegistryTyped'
  BY <1>1, <1>4 DEF RegistryInv, RegistryTyped, IsDb, IsEntry
<1>7. (Scripts!RegisteredUsable)'
  BY <1>1, <1>3, <1>4 DEF RegistryInv, Scripts!RegisteredUsable
<1>8. \A d \in Tenant : registry'[d] # Null /\ db'[d] # Null /\ registry'[d].version # db'[d].version
                          => d \in unrecorded' \/ Handles(y, d)
  BY <1>1, ScriptWas DEF Handles
<1>9. QED BY <1>2, <1>5, <1>6, <1>7, <1>8, ScriptComes

(* A script alters the database of a client that is not registered.         *)
LEMMA BuildingSafe ==
  ASSUME NullIsNoRecord, OneScript, RegistryInv, NEW s \in Script, NEW y, NEW e, NEW c \in Tenant,
         y # Null => IsScript(y) /\ Doing(y)', script' = [script EXCEPT ![s] = y],
         db' = [db EXCEPT ![c] = e], e # Null => IsDb(e),
         registry[c] = Null \/ e = Null, ~Busy(s),
         UNCHANGED <<registry, role, release, unrecorded>>
  PROVE  RegistryInv'
<1>1. db'[c] = e /\ (\A d \in Tenant : d # c => db'[d] = db[d]) /\ db' = [d \in Tenant |-> db'[d]]
  BY DEF RegistryInv, RegistryTyped
<1>2. RegistryTyped'
  BY <1>1 DEF RegistryInv, RegistryTyped, IsDb, IsEntry
<1>3. (Scripts!RegisteredUsable)'
  BY <1>1 DEF RegistryInv, Scripts!RegisteredUsable
<1>4. \A d \in Tenant : registry'[d] # Null /\ db'[d] # Null /\ registry'[d].version # db'[d].version
                          => d \in unrecorded' \/ Handles(y, d)
  BY <1>1, ScriptWas DEF Handles, Busy
<1>5. QED BY <1>2, <1>3, <1>4, ScriptComes

(* The database is created. *)
LEMMA CreateDatabaseSafe ==
  ASSUME NullIsNoRecord, OneScript, RegistryInv, NEW s \in Script, Scripts!CreateDatabase(s)
  PROVE  RegistryInv'
<1> DEFINE x == script[s]
           c == x.client
           e == [stage |-> "open", version |-> 0, failed |-> FALSE]
<1>1. /\ x # Null /\ x.pc = "database" /\ UNCHANGED <<role, registry, release, unrecorded>>
      /\ IsScript(x) /\ Doing(x)
  BY DEF Scripts!CreateDatabase, Scripts!At, RegistryInv
<1>2. /\ c \in Tenant /\ registry[c] = Null /\ db[c] = Null /\ x.copy = registry
      /\ role[c] = x.password /\ x.version \in Nat
  BY <1>1 DEF Doing, Creating
<1>3. Scripts!GoTo(s, "build") /\ db' = [db EXCEPT ![c] = e]
  BY <1>2 DEF Scripts!CreateDatabase
<1>4. PICK y : /\ script' = [script EXCEPT ![s] = y] /\ IsScript(y) /\ y.pc = "build"
               /\ y.client = c /\ y.password = x.password /\ y.copy = x.copy /\ y.version = x.version
  BY <1>1, <1>3, GoneTo
<1>5. IsDb(e) /\ e.stage = "open"
  BY DEF IsDb, DbFields, RegistryInv, RegistryTyped, Scripts!Stage, Scripts!After
<1> HIDE DEF e
<1>6. e # Null /\ db'[c] = e
  BY <1>2, <1>3, <1>5, RecordNotNone DEF RegistryInv, RegistryTyped
<1>7. Doing(y)'
  BY <1>1, <1>2, <1>4, <1>5, <1>6 DEF Doing, Creating, Dropping, Migrating, Pcs
<1>8. ~Busy(s)
  BY <1>1 DEF Busy
<1>9. QED BY <1>1, <1>2, <1>3, <1>4, <1>5, <1>7, <1>8, BuildingSafe

(* What a migration leaves of a database. *)
LEMMA StageAfter ==
  ASSUME NEW st \in Scripts!Stage, st \notin {"shut", "ready"}
  PROVE  /\ Scripts!After[st] \in Scripts!Stage \ {"open"}
         /\ Scripts!After[st] = "shut" <=> st = "open"
<1>1. Scripts!Stage = {"open", "shut", "migrated", "tenant", "campus", "roles", "owner", "ready"}
  BY DEF Scripts!Stage, Scripts!After
<1>2. CASE st = "open"
  BY <1>1, <1>2 DEF Scripts!After
<1>3. CASE st = "migrated"
  BY <1>1, <1>3 DEF Scripts!After
<1>4. CASE st = "tenant"
  BY <1>1, <1>4 DEF Scripts!After
<1>5. CASE st = "campus"
  BY <1>1, <1>5 DEF Scripts!After
<1>6. CASE st = "roles"
  BY <1>1, <1>6 DEF Scripts!After
<1>7. CASE st = "owner"
  BY <1>1, <1>7 DEF Scripts!After
<1>8. QED BY <1>1, <1>2, <1>3, <1>4, <1>5, <1>6, <1>7

(* A statement changes one database. *)
LEMMA DbChanged ==
  ASSUME NEW d, IsDb(d), release \in Nat
  PROVE  /\ \A st \in Scripts!Stage :
              LET e == [d EXCEPT !.stage = st]
              IN IsDb(e) /\ e.stage = st /\ e.version = d.version
         /\ d.version < release =>
              LET e == [d EXCEPT !.failed = TRUE]
              IN IsDb(e) /\ e.version = d.version /\ e.stage = d.stage
         /\ LET e == [d EXCEPT !.failed = FALSE]
            IN IsDb(e) /\ e.version = d.version /\ e.stage = d.stage
         /\ d.version < release =>
              LET e == [d EXCEPT !.failed = FALSE, !.version = @ + 1]
              IN IsDb(e) /\ e.version = d.version + 1 /\ e.stage = d.stage
         /\ ~d.failed /\ d.version < release =>
              LET e == [d EXCEPT !.version = @ + 1]
              IN IsDb(e) /\ e.version = d.version + 1 /\ e.stage = d.stage
<1>1. \A st \in Scripts!Stage :
        LET e == [d EXCEPT !.stage = st]
        IN IsDb(e) /\ e.stage = st /\ e.version = d.version
  BY DEF IsDb, DbFields
<1>2. d.version < release =>
        LET e == [d EXCEPT !.failed = TRUE]
        IN IsDb(e) /\ e.version = d.version /\ e.stage = d.stage
  BY DEF IsDb, DbFields
<1>3. LET e == [d EXCEPT !.failed = FALSE]
      IN IsDb(e) /\ e.version = d.version /\ e.stage = d.stage
  BY DEF IsDb, DbFields
<1>4. d.version < release =>
        LET e == [d EXCEPT !.failed = FALSE, !.version = @ + 1]
        IN IsDb(e) /\ e.version = d.version + 1 /\ e.stage = d.stage
  <2> DEFINE e == [d EXCEPT !.failed = FALSE, !.version = @ + 1]
  <2> SUFFICES ASSUME d.version < release
               PROVE  IsDb(e) /\ e.version = d.version + 1 /\ e.stage = d.stage
    OBVIOUS
  <2>1. /\ DOMAIN e = DbFields /\ e.version = d.version + 1 /\ e.stage = d.stage
        /\ e.failed = FALSE
    BY DEF IsDb, DbFields
  <2>2. e = [f \in DbFields |-> e[f]]
    BY DEF IsDb, DbFields
  <2>3. d.version + 1 \in Nat /\ d.version + 1 <= release /\ d.stage \in Scripts!Stage
    BY DEF IsDb
  <2> HIDE DEF e
  <2>4. IsDb(e)
    BY <2>1, <2>2, <2>3 DEF IsDb
  <2>5. QED BY <2>1, <2>4
<1>5. ~d.failed /\ d.version < release =>
        LET e == [d EXCEPT !.version = @ + 1]
        IN IsDb(e) /\ e.version = d.version + 1 /\ e.stage = d.stage
  BY DEF IsDb, DbFields
<1>6. QED BY <1>1, <1>2, <1>3, <1>4, <1>5

(* The tables are built. *)
LEMMA BuildSafe ==
  ASSUME NullIsNoRecord, OneScript, RegistryInv, NEW s \in Script, Scripts!Build(s)
  PROVE  RegistryInv'
<1> DEFINE x == script[s]
           c == x.client
           d == db[c]
           st == Scripts!After[d.stage]
           e == [d EXCEPT !.stage = st]
<1>1. /\ x # Null /\ x.pc = "build" /\ UNCHANGED <<role, registry, release, unrecorded>>
      /\ IsScript(x) /\ Doing(x)
  BY DEF Scripts!Build, Scripts!At, RegistryInv
<1>2. /\ c \in Tenant /\ registry[c] = Null /\ d # Null /\ x.copy = registry
      /\ role[c] = x.password /\ x.version \in Nat
      /\ d.stage \notin {"open", "shut"} => d.version = x.version /\ x.version = release
  BY <1>1 DEF Doing, Creating
<1>3. IsDb(d) /\ release \in Nat
  BY <1>2 DEF RegistryInv, RegistryTyped
<1>4. /\ d.stage \notin {"shut", "ready"} /\ db' = [db EXCEPT ![c] = e]
      /\ Scripts!GoTo(s, IF db'[c].stage = "ready" THEN "register" ELSE "build")
  BY <1>2 DEF Scripts!Build
<1>5. st \in Scripts!Stage \ {"open"} /\ (st = "shut" <=> d.stage = "open")
  BY <1>3, <1>4, StageAfter DEF IsDb
<1>6. IsDb(e) /\ e.stage = st /\ e.version = d.version
  <2> HIDE DEF d, st
  <2>1. QED BY <1>3, <1>5, DbChanged
<1> HIDE DEF e, st
<1>7. e # Null /\ db'[c] = e
  BY <1>2, <1>4, <1>6, RecordNotNone DEF RegistryInv, RegistryTyped
<1> DEFINE p == IF st = "ready" THEN "register" ELSE "build"
<1>8. PICK y : /\ script' = [script EXCEPT ![s] = y] /\ IsScript(y) /\ y.pc = p
               /\ y.client = c /\ y.password = x.password /\ y.copy = x.copy /\ y.version = x.version
  BY <1>1, <1>4, <1>6, <1>7, GoneTo
<1>9. Doing(y)'
  <2>1. st \notin {"open", "shut"} => e.version = x.version /\ x.version = release
    BY <1>2, <1>4, <1>5, <1>6
  <2>2. CASE st = "ready"
    BY <1>1, <1>2, <1>6, <1>7, <1>8, <2>1, <2>2 DEF Doing, Creating, Dropping, Migrating, Pcs
  <2>3. CASE st # "ready"
    BY <1>1, <1>2, <1>6, <1>7, <1>8, <2>1, <2>3 DEF Doing, Creating, Dropping, Migrating, Pcs
  <2>4. QED BY <2>2, <2>3
<1>10. ~Busy(s)
  BY <1>1 DEF Busy
<1>11. QED BY <1>1, <1>2, <1>4, <1>6, <1>8, <1>9, <1>10, BuildingSafe

(* The first migration of a new client. *)
LEMMA FirstDeploySafe ==
  ASSUME NullIsNoRecord, OneScript, RegistryInv, NEW s \in Script, Scripts!FirstDeploy(s)
  PROVE  RegistryInv'
<1> DEFINE x == script[s]
           c == x.client
           d == db[c]
<1>1. /\ x # Null /\ x.pc = "build" /\ UNCHANGED <<role, registry, release, unrecorded>>
      /\ IsScript(x) /\ Doing(x) /\ ~Busy(s)
  BY DEF Scripts!FirstDeploy, Scripts!At, RegistryInv, Busy
<1>2. /\ c \in Tenant /\ registry[c] = Null /\ d # Null /\ x.copy = registry
      /\ role[c] = x.password /\ x.version \in Nat /\ release \in Nat
  BY <1>1 DEF Doing, Creating, RegistryInv, RegistryTyped
<1>3. IsDb(d)
  BY <1>2 DEF RegistryInv, RegistryTyped
<1>4. CASE /\ d.version = release /\ db' = [db EXCEPT ![c].stage = "migrated"]
           /\ script' = [script EXCEPT ![s].version = release]
  <2> DEFINE e == [d EXCEPT !.stage = "migrated"]
  <2>1. db' = [db EXCEPT ![c] = e]
    BY <1>4
  <2>2. IsDb(e) /\ e.stage = "migrated" /\ e.version = release
    <3>1. "migrated" \in Scripts!Stage /\ d.version = release
      BY <1>4 DEF Scripts!Stage, Scripts!After
    <3> HIDE DEF d
    <3>2. QED BY <1>2, <1>3, <3>1, DbChanged
  <2>3. PICK y : /\ script' = [script EXCEPT ![s] = y] /\ IsScript(y) /\ y.pc = "build"
                 /\ y.client = c /\ y.password = x.password
                 /\ y.copy = x.copy /\ y.todo = x.todo /\ y.version = release
    <3> DEFINE z == [x EXCEPT !.version = release]
    <3>1. script' = [script EXCEPT ![s] = z]
      BY <1>4
    <3>2. /\ IsScript(z) /\ z.pc = "build" /\ z.client = c /\ z.password = x.password
          /\ z.copy = x.copy /\ z.todo = x.todo /\ z.version = release
      BY <1>1 DEF IsScript, ScriptFields
    <3> HIDE DEF z
    <3>3. QED BY <3>1, <3>2
  <2> HIDE DEF e
  <2>4. e # Null /\ db'[c] = e
    BY <1>2, <2>1, <2>2, RecordNotNone DEF RegistryInv, RegistryTyped
  <2>5. Doing(y)'
    BY <1>1, <1>2, <2>2, <2>3, <2>4 DEF Doing, Creating, Dropping, Migrating, Pcs
  <2>6. QED BY <1>1, <1>2, <2>1, <2>2, <2>3, <2>5, BuildingSafe
<1>5. ASSUME Scripts!Ends(s), d.version < release, db' = [db EXCEPT ![c].failed = TRUE]
      PROVE  RegistryInv'
  <2> DEFINE e == [d EXCEPT !.failed = TRUE]
             y == Null
  <2>1. db' = [db EXCEPT ![c] = e] /\ script' = [script EXCEPT ![s] = y] /\ y = Null
    BY <1>5 DEF Scripts!Ends
  <2>2. IsDb(e)
    <3>1. d.version < release
      BY <1>5
    <3> HIDE DEF d
    <3>2. QED BY <1>2, <1>3, <3>1, DbChanged
  <2> HIDE DEF e, y
  <2>3. QED BY <1>1, <1>2, <2>1, <2>2, BuildingSafe
<1>6. ASSUME Scripts!Ends(s), UNCHANGED db PROVE RegistryInv'
  BY <1>1, <1>6, EndSafe
<1>7. QED BY <1>4, <1>5, <1>6 DEF Scripts!FirstDeploy, Scripts!Fails

(* A record is written: of a finished database, with the version it has, or  *)
(* with an earlier one that is known not to be the last.                     *)
LEMMA EntryWritten ==
  ASSUME NullIsNoRecord, OneScript, RegistryInv, NEW s \in Script, NEW y, NEW e, NEW c \in Tenant,
         y # Null => IsScript(y) /\ Doing(y)', script' = [script EXCEPT ![s] = y],
         registry' = [registry EXCEPT ![c] = e],
         e # Null => /\ IsEntry(e) /\ db[c] # Null /\ db[c].stage = "ready" /\ role[c] = e.password
                     /\ e.version <= db[c].version
                     /\ e.version # db[c].version => c \in unrecorded',
         \A d \in Tenant : d # c => (d \in unrecorded <=> d \in unrecorded'),
         Handles(script[s], c) \/ ~Busy(s),
         UNCHANGED <<db, role, release>>
  PROVE  RegistryInv'
<1>1. /\ registry'[c] = e /\ (\A d \in Tenant : d # c => registry'[d] = registry[d])
      /\ registry' = [d \in Tenant |-> registry'[d]]
  BY DEF RegistryInv, RegistryTyped
<1>2. RegistryTyped'
  BY <1>1 DEF RegistryInv, RegistryTyped, IsDb, IsEntry
<1>3. (Scripts!RegisteredUsable)'
  BY <1>1 DEF RegistryInv, Scripts!RegisteredUsable
<1>4. \A d \in Tenant : registry'[d] # Null /\ db'[d] # Null /\ registry'[d].version # db'[d].version
                          => d \in unrecorded' \/ Handles(y, d)
  BY <1>1, ScriptWas DEF Handles, Busy
<1>5. QED BY <1>2, <1>3, <1>4, ScriptComes

(* The client is registered. *)
LEMMA RegisterSafe ==
  ASSUME NullIsNoRecord, OneScript, RegistryInv, NEW s \in Script, Scripts!Register(s)
  PROVE  RegistryInv'
<1> DEFINE x == script[s]
           c == x.client
           e == [password |-> x.password, version |-> x.version]
           y == Null
<1>1. /\ x # Null /\ x.pc = "register" /\ UNCHANGED <<db, role, release>>
      /\ unrecorded' = unrecorded \ {c}
      /\ registry' = [x.copy EXCEPT ![c] = e] /\ script' = [script EXCEPT ![s] = y]
      /\ IsScript(x) /\ Doing(x) /\ ~Busy(s) /\ y = Null
  BY DEF Scripts!Register, Scripts!At, Scripts!Ends, RegistryInv, Busy
<1>2. /\ c \in Tenant /\ db[c] # Null /\ db[c].stage = "ready" /\ db[c].version = x.version
      /\ role[c] = x.password /\ x.version \in Nat /\ x.copy = registry
  BY <1>1 DEF Doing, Creating
<1>3. IsEntry(e) /\ e.password = x.password /\ e.version = x.version
  BY <1>2 DEF IsEntry, EntryFields
<1>4. registry' = [registry EXCEPT ![c] = e] /\ e.version <= db[c].version
  BY <1>1, <1>2, <1>3
<1> HIDE DEF e, y
<1>5. /\ y # Null => IsScript(y) /\ Doing(y)'
      /\ e # Null => /\ IsEntry(e) /\ db[c] # Null /\ db[c].stage = "ready" /\ role[c] = e.password
                     /\ e.version <= db[c].version
                     /\ e.version # db[c].version => c \in unrecorded'
      /\ \A d \in Tenant : d # c => (d \in unrecorded <=> d \in unrecorded')
  BY <1>1, <1>2, <1>3, <1>4
<1>6. registry' = [registry EXCEPT ![c] = e] /\ script' = [script EXCEPT ![s] = y]
      /\ ~Busy(s) /\ UNCHANGED <<db, role, release>> /\ c \in Tenant
  BY <1>1, <1>2, <1>4
<1>7. QED BY <1>5, <1>6, EntryWritten

(* The database is dropped. *)
LEMMA DropDatabaseSafe ==
  ASSUME NullIsNoRecord, OneScript, RegistryInv, NEW s \in Script, Scripts!DropDatabase(s)
  PROVE  RegistryInv'
<1> DEFINE x == script[s]
           c == x.client
           p == IF x.keepRole THEN "deregister" ELSE "dropRole"
           e == Null
<1>1. /\ x # Null /\ x.pc = "drop" /\ UNCHANGED <<role, registry, release, unrecorded>>
      /\ db' = [db EXCEPT ![c] = e] /\ Scripts!GoTo(s, p) /\ e = Null
      /\ IsScript(x) /\ Doing(x) /\ ~Busy(s)
  BY DEF Scripts!DropDatabase, Scripts!At, RegistryInv, Busy
<1>2. p \in {"deregister", "dropRole"}
  OBVIOUS
<1> HIDE DEF p
<1>3. PICK y : /\ script' = [script EXCEPT ![s] = y] /\ IsScript(y) /\ y.pc = p
               /\ y.client = c /\ y.password = x.password /\ y.copy = x.copy /\ y.version = x.version
  BY <1>1, GoneTo
<1>4. c \in Tenant /\ x.copy = registry /\ x.version \in Nat
  BY <1>1 DEF Doing
<1>5. db'[c] = Null
  BY <1>1, <1>4 DEF RegistryInv, RegistryTyped
<1>6. Doing(y)'
  BY <1>1, <1>2, <1>3, <1>4, <1>5 DEF Doing, Creating, Dropping, Migrating, Pcs
<1> HIDE DEF e
<1>7. QED BY <1>1, <1>3, <1>4, <1>6, BuildingSafe

(* The role is dropped. *)
LEMMA DropRoleSafe ==
  ASSUME NullIsNoRecord, OneScript, RegistryInv, NEW s \in Script, Scripts!DropRole(s)
  PROVE  RegistryInv'
<1> DEFINE x == script[s]
           c == x.client
<1>1. /\ x # Null /\ x.pc = "dropRole" /\ UNCHANGED <<db, registry, release, unrecorded>>
      /\ Scripts!GoTo(s, "deregister") /\ role' = [role EXCEPT ![c] = Null]
      /\ IsScript(x) /\ Doing(x)
  BY DEF Scripts!DropRole, Scripts!At, RegistryInv
<1>2. PICK y : /\ script' = [script EXCEPT ![s] = y] /\ IsScript(y) /\ y.pc = "deregister"
               /\ y.client = c /\ y.password = x.password /\ y.copy = x.copy /\ y.version = x.version
  BY <1>1, GoneTo
<1>3. c \in Tenant /\ db[c] = Null /\ x.copy = registry /\ x.version \in Nat
  BY <1>1 DEF Doing, Dropping
<1>4. (\A d \in Tenant : d # c => role'[d] = role[d]) /\ role' = [d \in Tenant |-> role'[d]]
  BY <1>1, <1>3 DEF RegistryInv, RegistryTyped
<1>5. Doing(y)'
  BY <1>1, <1>2, <1>3 DEF Doing, Creating, Dropping, Migrating, Pcs
<1>6. RegistryTyped'
  BY <1>1, <1>4 DEF RegistryInv, RegistryTyped, IsDb, IsEntry
<1>7. (Scripts!RegisteredUsable)'
  BY <1>1, <1>3, <1>4 DEF RegistryInv, Scripts!RegisteredUsable
<1>8. \A d \in Tenant : registry'[d] # Null /\ db'[d] # Null /\ registry'[d].version # db'[d].version
                          => d \in unrecorded' \/ Handles(y, d)
  BY <1>1, ScriptWas DEF Handles
<1>9. QED BY <1>2, <1>5, <1>6, <1>7, <1>8, ScriptComes

(* The client leaves the registry. *)
LEMMA DeregisterSafe ==
  ASSUME NullIsNoRecord, OneScript, RegistryInv, NEW s \in Script, Scripts!Deregister(s)
  PROVE  RegistryInv' /\ \A c \in Tenant : registry[c] # Null /\ registry'[c] = Null => db[c] = Null
<1> DEFINE x == script[s]
           c == x.client
           e == Null
           y == Null
<1>1. /\ x # Null /\ x.pc = "deregister" /\ UNCHANGED <<db, role, release>>
      /\ registry' = IF x.copy[c] = Null THEN registry ELSE [x.copy EXCEPT ![c] = Null]
      /\ script' = [script EXCEPT ![s] = y] /\ unrecorded' = unrecorded \ {c}
      /\ IsScript(x) /\ Doing(x) /\ ~Busy(s) /\ y = Null /\ e = Null
  BY DEF Scripts!Deregister, Scripts!At, Scripts!Ends, RegistryInv, Busy
<1>2. c \in Tenant /\ x.copy = registry /\ db[c] = Null
  BY <1>1 DEF Doing, Dropping
<1>3. registry' = [registry EXCEPT ![c] = e]
  BY <1>1, <1>2 DEF RegistryInv, RegistryTyped
<1>4. \A d \in Tenant : d # c => registry'[d] = registry[d] /\ (d \in unrecorded <=> d \in unrecorded')
  BY <1>1, <1>3 DEF RegistryInv, RegistryTyped
<1> HIDE DEF e, y
<1>5. /\ y # Null => IsScript(y) /\ Doing(y)'
      /\ e # Null => /\ IsEntry(e) /\ db[c] # Null /\ db[c].stage = "ready" /\ role[c] = e.password
                     /\ e.version <= db[c].version
                     /\ e.version # db[c].version => c \in unrecorded'
      /\ \A d \in Tenant : d # c => (d \in unrecorded <=> d \in unrecorded')
  BY <1>1, <1>4
<1>6. RegistryInv'
  BY <1>1, <1>2, <1>3, <1>5, EntryWritten
<1>7. QED BY <1>2, <1>4, <1>6

(* The migration turns to another client. *)
LEMMA NextClientSafe ==
  ASSUME NullIsNoRecord, OneScript, RegistryInv, NEW s \in Script, Scripts!NextClient(s)
  PROVE  RegistryInv'
<1> DEFINE x == script[s]
<1>1. /\ x # Null /\ x.pc = "next" /\ UNCHANGED <<db, role, registry, release, unrecorded>>
      /\ IsScript(x) /\ Doing(x) /\ ~Busy(s)
  BY DEF Scripts!NextClient, Scripts!At, RegistryInv, Busy
<1>2. CASE x.todo = {}
  BY <1>1, <1>2, EndSafe DEF Scripts!NextClient
<1>3. CASE x.todo # {}
  <2> DEFINE behind(c) ==  /\ Scripts!Connects(c, x.copy[c].password)
                           /\ ~db[c].failed /\ db[c].version < release
             p(c) == IF behind(c) THEN "deploy" ELSE "next"
             v(c) == IF behind(c) THEN db[c].version ELSE x.version
             z(c) == [x EXCEPT !.todo = x.todo \ {c}, !.client = c, !.pc = p(c), !.version = v(c)]
  <2>1. PICK c \in x.todo : script' = [script EXCEPT ![s].todo = @ \ {c}, ![s].client = c,
                                                    ![s].pc = p(c), ![s].version = v(c)]
    BY <1>3 DEF Scripts!NextClient
  <2>2. script' = [script EXCEPT ![s] = z(c)]
    BY <2>1
  <2>3. \/ p(c) = "next" /\ v(c) = x.version
        \/ p(c) = "deploy" /\ db[c] # Null /\ v(c) = db[c].version
    BY DEF Scripts!Connects
  <2>4. PICK y : /\ script' = [script EXCEPT ![s] = y] /\ IsScript(y) /\ y.pc = p(c)
                 /\ y.client = c /\ y.copy = x.copy /\ y.todo = x.todo \ {c} /\ y.version = v(c)
    <3> HIDE DEF p, v
    <3>1. /\ IsScript(z(c)) /\ z(c).pc = p(c) /\ z(c).client = c /\ z(c).copy = x.copy
          /\ z(c).todo = x.todo \ {c} /\ z(c).version = v(c)
      BY <1>1 DEF IsScript, ScriptFields
    <3> HIDE DEF z
    <3>2. QED BY <2>2, <3>1
  <2> HIDE DEF behind, p, v, z
  <2>5. /\ x.copy = registry /\ x.version \in Nat /\ x.todo \subseteq Tenant
        /\ \A d \in x.todo : registry[d] # Null
    BY <1>1 DEF Doing, Migrating
  <2>6. c \in Tenant /\ registry[c] # Null /\ (db[c] # Null => db[c].version \in Nat)
    BY <2>5 DEF RegistryInv, RegistryTyped, IsDb
  <2>7. db[c] # Null /\ registry[c].version # db[c].version => c \in unrecorded
    BY <1>1, <2>6, ScriptWas DEF Handles
  <2>8. Doing(y)
    <3>1. CASE p(c) = "next" /\ v(c) = x.version
      BY <1>1, <2>4, <2>5, <3>1 DEF Doing, Creating, Dropping, Migrating, Pcs
    <3>2. CASE p(c) = "deploy" /\ db[c] # Null /\ v(c) = db[c].version
      BY <1>1, <2>4, <2>5, <2>6, <2>7, <3>2 DEF Doing, Creating, Dropping, Migrating, Pcs
    <3>3. QED BY <2>3, <3>1, <3>2
  <2>9. QED BY <1>1, <2>4, <2>8, ScriptMoves
<1>4. QED BY <1>2, <1>3

(* A database moves forward, or is marked: every script is where it was.    *)
LEMMA DatabaseMoved ==
  ASSUME NullIsNoRecord, RegistryInv, NEW c \in Tenant, NEW e, db[c] # Null, IsDb(e),
         e.stage = db[c].stage, db[c].version <= e.version, db' = [db EXCEPT ![c] = e],
         unrecorded \subseteq unrecorded', UNCHANGED <<role, registry, release>>
  PROVE  /\ RegistryTyped' /\ (Scripts!RegisteredUsable)'
         /\ \A x : Doing(x) => Doing(x)'
         /\ e # Null /\ db'[c] = e /\ \A b \in Tenant : b # c => db'[b] = db[b]
<1>1. /\ RegistryTyped /\ IsDb(db[c]) /\ release \in Nat /\ e # Null
      /\ \A b \in Tenant : registry[b] # Null => IsEntry(registry[b])
  BY RecordNotNone DEF RegistryInv, RegistryTyped
<1>2. db'[c] = e /\ (\A b \in Tenant : b # c => db'[b] = db[b]) /\ db' = [b \in Tenant |-> db'[b]]
  BY <1>1 DEF RegistryTyped
<1>3. RegistryTyped'
  BY <1>1, <1>2 DEF RegistryTyped, IsDb, IsEntry
<1>4. (Scripts!RegisteredUsable)'
  <2> SUFFICES ASSUME NEW b \in Tenant, registry[b] # Null, db'[b] # Null
               PROVE  /\ db'[b].stage = "ready" /\ role[b] = registry[b].password
                      /\ registry[b].version <= db'[b].version
    BY DEF Scripts!RegisteredUsable
  <2>1. CASE b # c
    BY <1>2, <2>1 DEF RegistryInv, Scripts!RegisteredUsable
  <2>2. CASE b = c
    <3>1. /\ db[c].stage = "ready" /\ role[c] = registry[c].password
          /\ registry[c].version <= db[c].version
      BY <2>2 DEF RegistryInv, Scripts!RegisteredUsable
    <3>2. registry[c].version \in Nat /\ db[c].version \in Nat /\ e.version \in Nat
      BY <1>1, <2>2 DEF IsDb, IsEntry
    <3>3. QED BY <1>2, <2>2, <3>1, <3>2
  <2>3. QED BY <2>1, <2>2
<1>5. \A b \in Tenant : db[b] # Null =>
        /\ db'[b] # Null /\ db'[b].stage = db[b].stage
        /\ db[b].version \in Nat /\ db'[b].version \in Nat
        /\ db[b].version <= db'[b].version /\ db'[b].version <= release
  <2> SUFFICES ASSUME NEW b \in Tenant, db[b] # Null
               PROVE  /\ db'[b] # Null /\ db'[b].stage = db[b].stage
                      /\ db[b].version \in Nat /\ db'[b].version \in Nat
                      /\ db[b].version <= db'[b].version /\ db'[b].version <= release
    OBVIOUS
  <2>1. IsDb(db[b])
    BY <1>1 DEF RegistryTyped
  <2>2. CASE b = c
    BY <1>1, <1>2, <2>2 DEF IsDb
  <2>3. CASE b # c
    BY <1>1, <1>2, <2>1, <2>3 DEF IsDb
  <2>4. QED BY <2>2, <2>3
<1>6. \A b \in Tenant : db[b] = Null => db'[b] = Null
  BY <1>2
<1>7. ASSUME NEW x, Doing(x) PROVE Doing(x)'
  <2>1. Creating(x)'
    BY <1>1, <1>5, <1>6, <1>7 DEF Doing, Creating
  <2>2. Dropping(x)'
    BY <1>6, <1>7 DEF Doing, Dropping
  <2>3. Migrating(x)'
    BY <1>1, <1>5, <1>7 DEF Doing, Migrating
  <2>4. QED BY <1>7, <2>1, <2>2, <2>3 DEF Doing
<1>8. QED BY <1>1, <1>2, <1>3, <1>4, <1>7

(* Outside the scripts, or within one that goes on deploying.               *)
LEMMA ForwardSafe ==
  ASSUME NullIsNoRecord, OneScript, RegistryInv, NEW c \in Tenant, NEW e, db[c] # Null, IsDb(e),
         e.stage = db[c].stage, db[c].version <= e.version, db' = [db EXCEPT ![c] = e],
         unrecorded \subseteq unrecorded', UNCHANGED <<role, registry, release, script>>,
         \/ e.version = db[c].version
         \/ registry[c] = Null
         \/ c \in unrecorded'
         \/ \E s \in Script : Handles(script[s], c)
  PROVE  RegistryInv'
<1>1. /\ RegistryTyped' /\ (Scripts!RegisteredUsable)'
      /\ \A x : Doing(x) => Doing(x)'
      /\ e # Null /\ db'[c] = e /\ \A b \in Tenant : b # c => db'[b] = db[b]
  BY DatabaseMoved
<1>2. (Scripts!RecordedUnlessCutShort)'
  <2> SUFFICES ASSUME NEW b \in Tenant, registry[b] # Null, db'[b] # Null,
                      registry[b].version # db'[b].version
               PROVE  b \in unrecorded' \/ \E s \in Script : Handles(script[s], b)
    BY DEF Scripts!RecordedUnlessCutShort, Handles
  <2>1. CASE b # c
    BY <1>1, <2>1 DEF RegistryInv, Scripts!RecordedUnlessCutShort, Handles
  <2>2. CASE b = c /\ e.version = db[c].version
    BY <1>1, <2>2 DEF RegistryInv, Scripts!RecordedUnlessCutShort, Handles
  <2>3. QED BY <2>1, <2>2
<1>3. \A s \in Script : script[s] # Null => IsScript(script[s]) /\ Doing(script[s])'
  BY <1>1 DEF RegistryInv
<1>4. QED BY <1>1, <1>2, <1>3 DEF RegistryInv, IsScript

(* One migration is applied by a deploy under way. *)
LEMMA ApplySafe ==
  ASSUME NullIsNoRecord, OneScript, RegistryInv, NEW s \in Script, Scripts!Apply(s)
  PROVE  RegistryInv'
<1> DEFINE x == script[s]
           c == x.client
           d == db[c]
           e == [d EXCEPT !.version = @ + 1]
<1>1. /\ Scripts!Reaches(s) /\ ~d.failed /\ d.version < release /\ db' = [db EXCEPT ![c] = e]
      /\ UNCHANGED <<role, registry, release, script, unrecorded>>
  BY DEF Scripts!Apply
<1>2. x # Null /\ d # Null /\ x.pc \in {"build", "deploy"}
  BY <1>1 DEF Scripts!Reaches, Scripts!At, Scripts!Connects
<1>3. Doing(x) /\ release \in Nat
  BY <1>2 DEF RegistryInv, RegistryTyped
<1>4. c \in Tenant
  BY <1>2, <1>3 DEF Doing
<1>5. IsDb(d)
  BY <1>2, <1>4 DEF RegistryInv, RegistryTyped
<1>6. IsDb(e) /\ e.version = d.version + 1 /\ e.stage = d.stage /\ d.version \in Nat
  <2>1. ~d.failed /\ d.version < release
    BY <1>1
  <2> HIDE DEF d
  <2>2. d.version \in Nat
    BY <1>5 DEF IsDb
  <2>3. QED BY <1>3, <1>5, <2>1, <2>2, DbChanged
<1>7. registry[c] = Null \/ Handles(x, c)
  BY <1>2, <1>3 DEF Doing, Creating, Handles
<1> HIDE DEF e
<1>8. d.version <= e.version
  BY <1>6
<1>9. QED BY <1>1, <1>2, <1>4, <1>6, <1>7, <1>8, ForwardSafe

(* A client's deploy has gone through. *)
LEMMA DeployedSafe ==
  ASSUME NullIsNoRecord, OneScript, RegistryInv, NEW s \in Script, Scripts!Deployed(s)
  PROVE  RegistryInv'
<1> DEFINE x == script[s]
           c == x.client
<1>1. /\ x # Null /\ x.pc = "deploy" /\ UNCHANGED <<db, role, registry, release>>
      /\ IsScript(x) /\ Doing(x) /\ db[c].version = release
  BY DEF Scripts!Deployed, Scripts!At, RegistryInv
<1>2. PICK v \in {release, x.version} :
        /\ script' = [script EXCEPT ![s].pc = "record", ![s].version = v]
        /\ unrecorded' = unrecorded \cup (IF v = release THEN {} ELSE {c})
  BY DEF Scripts!Deployed, Scripts!Unrecorded
<1>3. /\ c \in Tenant /\ registry[c] # Null /\ db[c] # Null /\ x.copy = registry /\ release \in Nat
      /\ x.version \in Nat /\ x.version <= release
      /\ x.todo \subseteq Tenant /\ \A b \in x.todo : registry[b] # Null
  BY <1>1 DEF Doing, Migrating, RegistryInv, RegistryTyped
<1>4. PICK y : /\ script' = [script EXCEPT ![s] = y] /\ IsScript(y) /\ y.pc = "record"
               /\ y.client = c /\ y.copy = x.copy /\ y.todo = x.todo /\ y.version = v
  <2> DEFINE z == [x EXCEPT !.pc = "record", !.version = v]
  <2>1. script' = [script EXCEPT ![s] = z]
    BY <1>2
  <2>2. /\ IsScript(z) /\ z.pc = "record" /\ z.client = c /\ z.copy = x.copy /\ z.todo = x.todo
        /\ z.version = v
    BY <1>1 DEF IsScript, ScriptFields
  <2> HIDE DEF z
  <2>3. QED BY <2>1, <2>2
<1>5. /\ v \in Nat /\ v <= release /\ unrecorded \subseteq unrecorded'
      /\ v # release => c \in unrecorded'
  BY <1>2, <1>3
<1>6. Doing(y)'
  BY <1>1, <1>3, <1>4, <1>5 DEF Doing, Creating, Dropping, Migrating, Pcs
<1>7. RegistryTyped' /\ (Scripts!RegisteredUsable)'
  BY <1>1 DEF RegistryInv, RegistryTyped, IsDb, IsEntry, Scripts!RegisteredUsable
<1>8. \A b \in Tenant : registry'[b] # Null /\ db'[b] # Null /\ registry'[b].version # db'[b].version
                          => b \in unrecorded' \/ Handles(y, b)
  BY <1>1, <1>4, <1>5, RecordNotNone, ScriptWas DEF Handles
<1>9. QED BY <1>4, <1>6, <1>7, <1>8, ScriptComes

(* A client's deploy has failed, perhaps with some of it applied. *)
LEMMA DeployFailsSafe ==
  ASSUME NullIsNoRecord, OneScript, RegistryInv, NEW s \in Script, Scripts!DeployFails(s)
  PROVE  RegistryInv'
<1> DEFINE x == script[s]
           c == x.client
           d == db[c]
           e == [d EXCEPT !.failed = TRUE]
<1>1. /\ x # Null /\ x.pc = "deploy" /\ UNCHANGED <<role, registry, release>>
      /\ Scripts!GoTo(s, "next") /\ Scripts!Fails(s)
      /\ unrecorded' = unrecorded \cup Scripts!LeftBehind(s) /\ IsScript(x) /\ Doing(x)
  BY DEF Scripts!DeployFails, Scripts!At, Scripts!Unrecorded, RegistryInv
<1>2. /\ c \in Tenant /\ registry[c] # Null /\ d # Null /\ x.copy = registry /\ release \in Nat
      /\ x.version \in Nat /\ x.todo \subseteq Tenant /\ \A b \in x.todo : registry[b] # Null
  BY <1>1 DEF Doing, Migrating, RegistryInv, RegistryTyped
<1>3. PICK y : /\ script' = [script EXCEPT ![s] = y] /\ IsScript(y) /\ y.pc = "next"
               /\ y.client = c /\ y.copy = x.copy /\ y.todo = x.todo /\ y.version = x.version
  BY <1>1, GoneTo
<1>4. Doing(y)
  BY <1>1, <1>2, <1>3 DEF Doing, Creating, Dropping, Migrating, Pcs
<1>5. CASE UNCHANGED db
  BY <1>1, <1>3, <1>4, <1>5, ScriptMoves
<1>6. CASE d.version < release /\ db' = [db EXCEPT ![c].failed = TRUE]
  <2>1. IsDb(d) /\ db' = [db EXCEPT ![c] = e] /\ d.version \in Nat
    BY <1>2, <1>6 DEF RegistryInv, RegistryTyped, IsDb
  <2>2. IsDb(e) /\ e.version = d.version /\ e.stage = d.stage
    <3>1. d.version < release
      BY <1>6
    <3> HIDE DEF d
    <3>2. QED BY <1>2, <2>1, <3>1, DbChanged
  <2> HIDE DEF e
  <2>3. d.version <= e.version /\ unrecorded \subseteq unrecorded'
    BY <1>1, <2>1, <2>2
  <2>4. /\ RegistryTyped' /\ (Scripts!RegisteredUsable)' /\ Doing(y)'
        /\ db'[c] = e /\ \A b \in Tenant : b # c => db'[b] = db[b]
    BY <1>1, <1>2, <1>4, <2>1, <2>2, <2>3, DatabaseMoved
  <2>5. \A b \in Tenant : registry'[b] # Null /\ db'[b] # Null /\ registry'[b].version # db'[b].version
                            => b \in unrecorded'
    BY <1>1, <1>2, <2>2, <2>4, LeftKnown
  <2>6. QED BY <1>3, <2>4, <2>5, ScriptComes
<1>7. QED BY <1>1, <1>5, <1>6 DEF Scripts!Fails

(* The version reached is recorded. *)
LEMMA RecordSafe ==
  ASSUME NullIsNoRecord, OneScript, RegistryInv, NEW s \in Script, Scripts!Record(s)
  PROVE  RegistryInv' /\ \A c \in Tenant : registry[c] # Null => registry'[c] # Null
<1> DEFINE x == script[s]
           c == x.client
           r == registry[c]
           e == [r EXCEPT !.version = x.version]
<1>1. /\ x # Null /\ x.pc = "record" /\ UNCHANGED <<db, role, release>>
      /\ IsScript(x) /\ Doing(x) /\ Handles(x, c)
      /\ unrecorded' = IF x.version = release THEN unrecorded \ {c} ELSE unrecorded
  BY DEF Scripts!Record, Scripts!At, RegistryInv, Handles
<1>2. /\ c \in Tenant /\ r # Null /\ x.copy = registry /\ db[c] # Null /\ db[c].version = release
      /\ x.version \in Nat /\ x.version <= release /\ (x.version # release => c \in unrecorded)
      /\ x.todo \subseteq Tenant /\ \A b \in x.todo : registry[b] # Null
  BY <1>1 DEF Doing, Migrating
<1>3. IsEntry(r) /\ db[c].stage = "ready" /\ role[c] = r.password
  BY <1>2, ScriptWas DEF RegistryTyped
<1>4. IsEntry(e) /\ e.password = r.password /\ e.version = x.version
  <2> HIDE DEF r
  <2>1. QED BY <1>2, <1>3 DEF IsEntry, EntryFields
<1>5. /\ registry' = [registry EXCEPT ![c] = e]
      /\ script' = [script EXCEPT ![s].copy = registry', ![s].pc = "next"]
  BY <1>2 DEF Scripts!Record
<1> HIDE DEF e
<1>6. e # Null /\ registry'[c] = e /\ \A b \in Tenant : b # c => registry'[b] = registry[b]
  BY <1>2, <1>4, <1>5, RecordNotNone DEF RegistryInv, RegistryTyped
<1>7. PICK y : /\ script' = [script EXCEPT ![s] = y] /\ IsScript(y) /\ y.pc = "next"
               /\ y.client = c /\ y.copy = registry' /\ y.todo = x.todo /\ y.version = x.version
  <2> DEFINE z == [x EXCEPT !.copy = registry', !.pc = "next"]
  <2>1. script' = [script EXCEPT ![s] = z]
    BY <1>5
  <2>2. /\ IsScript(z) /\ z.pc = "next" /\ z.client = c /\ z.copy = registry' /\ z.todo = x.todo
        /\ z.version = x.version
    BY <1>1 DEF IsScript, ScriptFields
  <2> HIDE DEF z
  <2>3. QED BY <2>1, <2>2
<1>8. \A b \in x.todo : registry'[b] # Null
  BY <1>2, <1>6
<1>9. Doing(y)'
  BY <1>1, <1>2, <1>7, <1>8 DEF Doing, Creating, Dropping, Migrating, Pcs
<1>10. /\ y # Null => IsScript(y) /\ Doing(y)'
       /\ e # Null => /\ IsEntry(e) /\ db[c] # Null /\ db[c].stage = "ready" /\ role[c] = e.password
                      /\ e.version <= db[c].version
                      /\ e.version # db[c].version => c \in unrecorded'
       /\ \A b \in Tenant : b # c => (b \in unrecorded <=> b \in unrecorded')
  BY <1>1, <1>2, <1>3, <1>4, <1>7, <1>9
<1>11. registry' = [registry EXCEPT ![c] = e] /\ script' = [script EXCEPT ![s] = y]
       /\ Handles(script[s], c) /\ UNCHANGED <<db, role, release>> /\ c \in Tenant
  BY <1>1, <1>2, <1>5, <1>7
<1>12. RegistryInv'
  BY <1>10, <1>11, EntryWritten
<1>13. QED BY <1>6, <1>12

(* A new version comes out. *)
LEMMA ReleaseSafe ==
  ASSUME NullIsNoRecord, OneScript, RegistryInv, Scripts!Release
  PROVE  RegistryInv'
<1>1. /\ UNCHANGED <<db, role, registry, script, unrecorded>> /\ release' = release + 1
      /\ \A s \in Script : script[s] = Null
  BY DEF Scripts!Release
<1>2. RegistryTyped'
  <2>1. release \in Nat /\ release' \in Nat /\ \A n \in Nat : n <= release => n <= release'
    BY <1>1 DEF RegistryInv, RegistryTyped
  <2>2. \A c \in Tenant : db[c] # Null => IsDb(db[c])'
    BY <1>1, <2>1 DEF RegistryInv, RegistryTyped, IsDb
  <2>3. QED BY <1>1, <2>1, <2>2 DEF RegistryInv, RegistryTyped, IsEntry, IsDb
<1>3. QED
  BY <1>1, <1>2 DEF RegistryInv, Scripts!RegisteredUsable, Scripts!RecordedUnlessCutShort

(* A failed migration is resolved by hand. *)
LEMMA ResolveSafe ==
  ASSUME NullIsNoRecord, OneScript, RegistryInv, NEW c \in Tenant, Scripts!Resolve(c)
  PROVE  RegistryInv'
<1> DEFINE d == db[c]
           back == [d EXCEPT !.failed = FALSE]
           on == [d EXCEPT !.failed = FALSE, !.version = @ + 1]
<1>1. /\ UNCHANGED <<role, registry, release, script>> /\ d # Null /\ d.failed
      /\ \/ db' = [db EXCEPT ![c] = back] /\ unrecorded' = unrecorded
         \/ db' = [db EXCEPT ![c] = on] /\ unrecorded' = unrecorded \cup {c}
  BY DEF Scripts!Resolve, Scripts!Unrecorded
<1>2. IsDb(d) /\ release \in Nat
  BY <1>1 DEF RegistryInv, RegistryTyped
<1>3. d.version \in Nat /\ d.version < release
  BY <1>1, <1>2 DEF IsDb
<1>4. /\ IsDb(back) /\ back.version = d.version /\ back.stage = d.stage
      /\ IsDb(on) /\ on.version = d.version + 1 /\ on.stage = d.stage
  <2> HIDE DEF d
  <2>1. QED BY <1>2, <1>3, DbChanged
<1> HIDE DEF back, on
<1>5. d.version <= back.version /\ d.version <= on.version
  BY <1>3, <1>4
<1>6. CASE db' = [db EXCEPT ![c] = back] /\ unrecorded' = unrecorded
  BY <1>1, <1>4, <1>5, <1>6, ForwardSafe
<1>7. CASE db' = [db EXCEPT ![c] = on] /\ unrecorded' = unrecorded \cup {c}
  BY <1>1, <1>4, <1>5, <1>7, ForwardSafe
<1>8. QED BY <1>1, <1>6, <1>7

(* A migration is applied by hand, or fails. *)
LEMMA DeployByHandSafe ==
  ASSUME NullIsNoRecord, OneScript, RegistryInv, NEW c \in Tenant, Scripts!DeployByHand(c)
  PROVE  RegistryInv'
<1> DEFINE d == db[c]
           on == [d EXCEPT !.version = @ + 1]
           stuck == [d EXCEPT !.failed = TRUE]
<1>1. /\ UNCHANGED <<role, registry, release, script>> /\ d # Null /\ ~d.failed
      /\ d.version < release
      /\ \/ db' = [db EXCEPT ![c] = on] /\ unrecorded' = unrecorded \cup {c}
         \/ db' = [db EXCEPT ![c] = stuck] /\ unrecorded' = unrecorded
  BY DEF Scripts!DeployByHand, Scripts!Unrecorded
<1>2. IsDb(d) /\ release \in Nat /\ d.version \in Nat
  BY <1>1 DEF RegistryInv, RegistryTyped, IsDb
<1>3. /\ IsDb(on) /\ on.version = d.version + 1 /\ on.stage = d.stage
      /\ IsDb(stuck) /\ stuck.version = d.version /\ stuck.stage = d.stage
  <2>1. ~d.failed /\ d.version < release
    BY <1>1
  <2> HIDE DEF d
  <2>2. QED BY <1>2, <2>1, DbChanged
<1> HIDE DEF on, stuck
<1>4. d.version <= on.version /\ d.version <= stuck.version
  BY <1>2, <1>3
<1>5. CASE db' = [db EXCEPT ![c] = on] /\ unrecorded' = unrecorded \cup {c}
  BY <1>1, <1>3, <1>4, <1>5, ForwardSafe
<1>6. CASE db' = [db EXCEPT ![c] = stuck] /\ unrecorded' = unrecorded
  BY <1>1, <1>3, <1>4, <1>6, ForwardSafe
<1>7. QED BY <1>1, <1>5, <1>6

(* A record goes only after its database has. *)
Outlives == \A c \in Tenant : registry[c] # Null /\ registry'[c] = Null => db[c] = Null

(* Every step keeps the registry accurate. *)
LEMMA RegistryStep ==
  ASSUME NullIsNoRecord, OneScript, RegistryInv, [Scripts!Next]_(Scripts!vars)
  PROVE  RegistryInv' /\ Outlives
<1>0. registry' = registry => Outlives
  BY DEF Outlives
<1>1. ASSUME NEW s \in Script,
             \/ Scripts!Crash(s) \/ Scripts!CheckDatabase(s) \/ Scripts!CreateRole(s)
             \/ Scripts!CreateDatabase(s) \/ Scripts!Build(s) \/ Scripts!FirstDeploy(s)
             \/ Scripts!Dump(s) \/ Scripts!DropDatabase(s) \/ Scripts!DropRole(s)
             \/ Scripts!NextClient(s) \/ Scripts!Apply(s) \/ Scripts!Deployed(s)
             \/ Scripts!DeployFails(s)
      PROVE  RegistryInv' /\ Outlives
  <2>1. registry' = registry
    BY <1>1 DEF Scripts!Crash, Scripts!CheckDatabase, Scripts!CreateRole, Scripts!CreateDatabase,
         Scripts!Build, Scripts!FirstDeploy, Scripts!Dump, Scripts!DropDatabase, Scripts!DropRole,
         Scripts!NextClient, Scripts!Apply, Scripts!Deployed, Scripts!DeployFails
  <2>2. RegistryInv'
    BY <1>1, CrashSafe, CheckSafe, CreateRoleSafe, CreateDatabaseSafe, BuildSafe, FirstDeploySafe,
       DumpSafe, DropDatabaseSafe, DropRoleSafe, NextClientSafe, ApplySafe, DeployedSafe,
       DeployFailsSafe
  <2>3. QED BY <1>0, <2>1, <2>2
<1>2. ASSUME NEW s \in Script, Scripts!Register(s)
      PROVE  RegistryInv' /\ Outlives
  <2>1. RegistryInv'
    BY <1>2, RegisterSafe
  <2>2. script[s] # Null /\ script[s].copy = registry /\ script[s].client \in Tenant
    BY <1>2 DEF Scripts!Register, Scripts!At, RegistryInv, Doing
  <2>3. PICK c \in Tenant : (\E e : registry' = [registry EXCEPT ![c] = e]) /\ registry[c] = Null
    <3>1. registry[script[s].client] = Null
      BY <1>2 DEF Scripts!Register, Scripts!At, RegistryInv, Doing, Creating
    <3>2. QED BY <1>2, <2>2, <3>1 DEF Scripts!Register
  <2>4. Outlives
    BY <2>3 DEF Outlives, RegistryInv, RegistryTyped
  <2>5. QED BY <2>1, <2>4
<1>3. ASSUME NEW s \in Script, Scripts!Deregister(s)
      PROVE  RegistryInv' /\ Outlives
  BY <1>3, DeregisterSafe DEF Outlives
<1>4. ASSUME NEW s \in Script, Scripts!Record(s)
      PROVE  RegistryInv' /\ Outlives
  BY <1>4, RecordSafe DEF Outlives
<1>5. CASE Scripts!Release
  BY <1>0, <1>5, ReleaseSafe DEF Scripts!Release
<1>6. ASSUME NEW c \in Tenant, Scripts!Resolve(c) \/ Scripts!DeployByHand(c)
      PROVE  RegistryInv' /\ Outlives
  BY <1>0, <1>6, ResolveSafe, DeployByHandSafe DEF Scripts!Resolve, Scripts!DeployByHand
<1>7. ASSUME NEW s \in Script,
             \/ \E c \in Tenant : Scripts!StartCreate(s, c)
             \/ \E c \in Tenant, skip, keep \in BOOLEAN : Scripts!StartDrop(s, c, skip, keep)
             \/ \E only \in SUBSET Tenant : Scripts!StartMigrate(s, only)
      PROVE  RegistryInv' /\ Outlives
  <2>1. registry' = registry
    BY <1>7 DEF Scripts!StartCreate, Scripts!StartDrop, Scripts!StartMigrate, Scripts!Start
  <2>2. QED BY <1>0, <1>7, <2>1, StartSafe
<1>8. CASE UNCHANGED Scripts!vars
  <2>1. UNCHANGED <<db, role, registry, release, script, unrecorded>>
    BY <1>8 DEF Scripts!vars
  <2>2. RegistryTyped'
    BY <2>1 DEF RegistryInv, RegistryTyped, IsDb, IsEntry
  <2>3. RegistryInv'
    BY <2>1, <2>2 DEF RegistryInv, Doing, Creating, Dropping, Migrating, IsScript,
         Scripts!RegisteredUsable, Scripts!RecordedUnlessCutShort
  <2>4. QED BY <1>0, <2>1, <2>3
<1>9. QED
  BY <1>1, <1>2, <1>3, <1>4, <1>5, <1>6, <1>7, <1>8
     DEF Scripts!Next, Scripts!ScriptStep, Scripts!ByHand

(* While the operator runs one script at a time, and however many scripts   *)
(* and deploys stop or fail half-way, whatever is resolved or deployed by    *)
(* hand: what is registered is finished, opened by the password on file and  *)
(* at the version on file or known to have moved with nothing to record it;  *)
(* and a record goes only after its database, for any number of clients,     *)
(* releases and runs.                                                        *)
THEOREM RegistryStaysAccurate ==
  ASSUME NullIsNoRecord, OneScript PROVE Scripts!Spec => RegistryAccurate
<1> DEFINE Kept == \A c \in Tenant : registry[c] # Null /\ registry'[c] = Null => db[c] = Null
<1>1. Scripts!Init => RegistryInv
  BY DEF Scripts!Init, RegistryInv, RegistryTyped, Scripts!RegisteredUsable,
         Scripts!RecordedUnlessCutShort
<1>2. RegistryInv /\ [Scripts!Next]_(Scripts!vars) => RegistryInv' /\ [Kept]_(Scripts!vars)
  BY RegistryStep DEF Outlives
<1>3. RegistryInv => Scripts!RegisteredUsable /\ Scripts!RecordedUnlessCutShort
  BY DEF RegistryInv
<1> HIDE DEF Kept
<1>4. Scripts!Spec => [](Scripts!RegisteredUsable /\ Scripts!RecordedUnlessCutShort)
                      /\ [][Kept]_(Scripts!vars)
  BY <1>1, <1>2, <1>3, PTL DEF Scripts!Spec
<1>5. QED BY <1>4 DEF RegistryAccurate, Scripts!RecordOutlivesDatabase, Kept

-----------------------------------------------------------------------------
(* Bulk admissions. *)

(* Null is no student. *)
NullIsNoStudent == \A S : Null \notin [{"card", "batches"} -> S]

UploadsInv == upload = [q \in Request |-> upload[q]]

(* What the upload q, done at this step, has written. *)
Written(q) ==
  LET rows == upload[q].rows  created == upload'[q].created
  IN \A c \in Code :
       IF ~upload[q].dryRun /\ \E i \in created : rows[i].code = c
         THEN /\ students[c] = Null /\ students'[c] # Null
              /\ \E i \in created : rows[i].code = c /\ students'[c].card = rows[i].card
         ELSE students'[c] = students[c]

(* Writing admits the rows that were reported ready. *)
LEMMA WriteAdmits ==
  ASSUME NullIsNoStudent, UploadsInv, NEW q \in Request, Imports!Write(q),
         upload'[q].phase = "done"
  PROVE  Written(q)
<1> DEFINE r == upload[q]
           new == Imports!Inserted(r)
           valid == Imports!Valid(r)
           done == Imports!Done(r)
<1>1. done.phase = "done" /\ done.rows = r.rows /\ done.created = valid
  BY DEF Imports!Done, Imports!Idle
<1>2. CASE r.dryRun
  BY <1>2 DEF Imports!Write, Written
<1>3. CASE ~r.dryRun /\ Imports!Conflicts(new)
  <2>1. upload' = [upload EXCEPT ![q] = Imports!Idle]
    BY <1>3 DEF Imports!Write
  <2>2. upload'[q].phase = "idle"
    BY <2>1 DEF UploadsInv, Imports!Idle
  <2>3. QED BY <2>2
<1>4. CASE ~r.dryRun /\ ~Imports!Conflicts(new)
  <2>1. /\ students' = [c \in Code |-> IF c \in DOMAIN new THEN new[c] ELSE students[c]]
        /\ upload' = [upload EXCEPT ![q] = done]
    BY <1>4 DEF Imports!Write
  <2>2. upload'[q].created = valid
    BY <1>1, <2>1 DEF UploadsInv
  <2>3. /\ DOMAIN new = {r.rows[i].code : i \in valid}
        /\ \A c \in DOMAIN new :
             new[c] = [card |-> Imports!RowOf(r, c).card, batches |-> Imports!Enrolment(r, c)]
    BY DEF Imports!Inserted
  <2>4. \A c \in DOMAIN new : c \notin Imports!Admitted
    BY <1>4 DEF Imports!Conflicts
  <2> HIDE DEF new, valid, done
  <2>5. ASSUME NEW c \in Code, NEW i \in valid, r.rows[i].code = c
        PROVE  /\ students[c] = Null /\ students'[c] # Null
               /\ \E j \in valid : r.rows[j].code = c /\ students'[c].card = r.rows[j].card
    <3>1. c \in DOMAIN new /\ students'[c] = new[c]
      BY <2>1, <2>3, <2>5
    <3>2. students[c] = Null
      BY <2>4, <3>1 DEF Imports!Admitted
    <3> DEFINE j == CHOOSE k \in valid : r.rows[k].code = c
    <3>3. j \in valid /\ r.rows[j].code = c
      BY <2>5, Zenon
    <3>4. Imports!RowOf(r, c) = r.rows[j]
      BY DEF Imports!RowOf, valid
    <3> DEFINE b == Imports!Enrolment(r, c)
    <3> HIDE DEF j, b
    <3>5. students'[c] = [card |-> r.rows[j].card, batches |-> b]
      BY <2>3, <3>1, <3>4 DEF b
    <3>6. students'[c] # Null
      <4> DEFINE z == [card |-> r.rows[j].card, batches |-> b]
                 S == {z.card, z.batches}
      <4>1. z \in [{"card", "batches"} -> S]
        OBVIOUS
      <4> HIDE DEF z, S
      <4>2. z # Null
        BY <4>1 DEF NullIsNoStudent
      <4>3. QED BY <3>5, <4>2 DEF z
    <3>7. QED BY <3>2, <3>3, <3>5, <3>6
  <2>6. ASSUME NEW c \in Code, ~\E i \in valid : r.rows[i].code = c
        PROVE  students'[c] = students[c]
    BY <2>1, <2>3, <2>6
  <2>7. QED BY <1>4, <2>2, <2>5, <2>6 DEF Written
<1>5. QED BY <1>2, <1>3, <1>4

(* Every step of an upload keeps the invariant; its last admits what it reports. *)
LEMMA UploadsStep ==
  ASSUME NullIsNoStudent, UploadsInv, [Imports!Next]_(Imports!vars)
  PROVE  /\ UploadsInv'
         /\ \A q \in Request : upload'[q].phase = "done" /\ upload[q].phase # "done" => Written(q)
<1>1. CASE UNCHANGED Imports!vars
  BY <1>1 DEF Imports!vars, UploadsInv
<1>2. ASSUME NEW p \in Request,
             \/ \E rows \in Imports!File, dryRun \in BOOLEAN : Imports!Upload(p, rows, dryRun)
             \/ Imports!ReadKeys(p) \/ Imports!Write(p) \/ Imports!Fail(p) \/ Imports!Forget(p)
      PROVE  /\ UploadsInv'
             /\ \A q \in Request : upload'[q].phase = "done" /\ upload[q].phase # "done" => Written(q)
  <2>1. UploadsInv' /\ \A q \in Request : q # p => upload'[q] = upload[q]
    BY <1>2 DEF UploadsInv, Imports!Upload, Imports!ReadKeys, Imports!Write, Imports!Fail,
         Imports!Forget
  <2>2. CASE \E rows \in Imports!File, dryRun \in BOOLEAN : Imports!Upload(p, rows, dryRun)
    <3>1. PICK rows \in Imports!File, dryRun \in BOOLEAN : Imports!Upload(p, rows, dryRun)
      BY <2>2
    <3> DEFINE y == [Imports!Idle EXCEPT !.phase = "reading", !.rows = rows, !.dryRun = dryRun]
    <3>2. upload' = [upload EXCEPT ![p] = y]
      BY <3>1 DEF Imports!Upload
    <3>3. y.phase = "reading"
      BY DEF Imports!Idle
    <3> HIDE DEF y
    <3>4. upload'[p].phase = "reading"
      BY <3>2, <3>3 DEF UploadsInv
    <3>5. QED BY <2>1, <3>4
  <2>3. CASE Imports!Fail(p) \/ Imports!Forget(p)
    <3>1. upload'[p].phase = "idle"
      BY <2>3 DEF UploadsInv, Imports!Fail, Imports!Forget, Imports!Idle
    <3>2. QED BY <2>1, <3>1
  <2>4. CASE Imports!ReadKeys(p)
    <3>1. \E t, c : upload' = [upload EXCEPT ![p].phase = "writing", ![p].taken = t, ![p].cards = c]
      BY <2>4 DEF Imports!ReadKeys
    <3>2. PICK t, c : upload' = [upload EXCEPT ![p].phase = "writing", ![p].taken = t, ![p].cards = c]
      BY <3>1
    <3> DEFINE z == [upload[p] EXCEPT !.phase = "writing", !.taken = t, !.cards = c]
    <3>3. upload'[p] = z
      BY <3>2 DEF UploadsInv
    <3>4. upload[p].phase = "reading"
      BY <2>4 DEF Imports!ReadKeys
    <3>5. z.phase # "done"
      BY <3>4
    <3> HIDE DEF z
    <3>6. QED BY <2>1, <3>3, <3>5
  <2>5. CASE Imports!Write(p)
    BY <2>1, <2>5, WriteAdmits
  <2>6. QED BY <1>2, <2>1, <2>2, <2>3, <2>4, <2>5
<1>3. QED BY <1>1, <1>2 DEF Imports!Next

(* An upload admits exactly the students it reports, each with the card of   *)
(* its row, and touches nobody admitted before, for any files and any number *)
(* of uploads at a time.                                                     *)
THEOREM ImportsAdmitWhatTheyReport ==
  ASSUME NullIsNoStudent PROVE Imports!Spec => AdmitsWhatItReports
<1> DEFINE Kept == \A q \in Request : upload'[q].phase = "done" /\ upload[q].phase # "done" =>
                     LET rows == upload[q].rows  created == upload'[q].created
                     IN \A c \in Code :
                          IF ~upload[q].dryRun /\ \E i \in created : rows[i].code = c
                            THEN /\ students[c] = Null /\ students'[c] # Null
                                 /\ \E i \in created : rows[i].code = c
                                                       /\ students'[c].card = rows[i].card
                            ELSE students'[c] = students[c]
<1>1. Imports!Init => UploadsInv
  BY DEF Imports!Init, UploadsInv
<1>2. UploadsInv /\ [Imports!Next]_(Imports!vars) => UploadsInv' /\ [Kept]_(Imports!vars)
  BY UploadsStep DEF Written
<1> HIDE DEF Kept
<1>3. Imports!Spec => [][Kept]_(Imports!vars)
  BY <1>1, <1>2, PTL DEF Imports!Spec
<1>4. QED BY <1>3 DEF AdmitsWhatItReports, Imports!AdmitsWhatItReports, Kept

-----------------------------------------------------------------------------
(* Requests about roles and staff that overlap: what is proved of StaffRoles *)
(* holds of its instance here, which has the same text.                     *)
Proved == INSTANCE StaffRolesProofs WITH
  Owner <- {Founder}, Client <- Clients, MaxInFlight <- AtOnce, Commands <- Together,
  roles <- roles2, perms <- perms2, default <- default2, status <- status2,
  roleOf <- roleOf2, invited <- invited2, client <- client2

(* An institute whose founder is its owner keeps an administrator, the      *)
(* Administrator role, everybody's role and its owner, whatever requests    *)
(* overlap and however many.                                                *)
THEOREM OverlapsKept ==
  ASSUME Together \subseteq Two!Command
  PROVE  Two!Spec => OverlapsKeepRoles
<1>1. Two!Init => Proved!Init
  BY DEF Two!SystemRoles, Two!NoCommand, Two!NoRequest, Two!Init, Proved!SystemRoles,
         Proved!NoCommand, Proved!NoRequest, Proved!Init
<1>2. [Two!Next]_(Two!vars) => [Proved!Next]_(Proved!vars)
  BY DEF Two!Cardinality, Two!SystemRoles, Two!AdminMarkers, Two!NoCommand, Two!tables,
         Two!vars, Two!Effective, Two!HasMarkers, Two!ActiveAdmins, Two!PermsAfter,
         Two!RoleOfAfter, Two!StatusAfter, Two!AdminRemains, Two!NoRequest, Two!Advance,
         Two!Finish, Two!Refuse, Two!InFlight, Two!SignIn, Two!Activate, Two!Guard,
         Two!IsOwner, Two!OwnRole, Two!MayGrant, Two!InUse, Two!MayUpdateRole,
         Two!MayRemoveRole, Two!MayInvite, Two!NewRole, Two!NewStatus, Two!MayUpdateStaff,
         Two!MayRemoveStaff, Two!Accepts, Two!Resolved, Two!PhaseAfterLoad, Two!Load,
         Two!PassesAdminCheck, Two!CheckAdmins, Two!FreshRole, Two!FreshStaff, Two!Writing,
         Two!CreateRole, Two!RoleTableFull, Two!UpdateRole, Two!ClearDefaults,
         Two!SetDefault, Two!ReassignMembers, Two!DeleteRole, Two!Invite,
         Two!InviteRejected, Two!SendInvitation, Two!UpdateStaff, Two!RemoveStaff,
         Two!Write, Two!Next, Proved!Cardinality, Proved!SystemRoles, Proved!AdminMarkers,
         Proved!NoCommand, Proved!tables, Proved!vars, Proved!Effective, Proved!HasMarkers,
         Proved!ActiveAdmins, Proved!PermsAfter, Proved!RoleOfAfter, Proved!StatusAfter,
         Proved!AdminRemains, Proved!NoRequest, Proved!Advance, Proved!Finish,
         Proved!Refuse, Proved!InFlight, Proved!SignIn, Proved!Activate, Proved!Guard,
         Proved!IsOwner, Proved!OwnRole, Proved!MayGrant, Proved!InUse,
         Proved!MayUpdateRole, Proved!MayRemoveRole, Proved!MayInvite, Proved!NewRole,
         Proved!NewStatus, Proved!MayUpdateStaff, Proved!MayRemoveStaff, Proved!Accepts,
         Proved!Resolved, Proved!PhaseAfterLoad, Proved!Load, Proved!PassesAdminCheck,
         Proved!CheckAdmins, Proved!FreshRole, Proved!FreshStaff, Proved!Writing,
         Proved!CreateRole, Proved!RoleTableFull, Proved!UpdateRole, Proved!ClearDefaults,
         Proved!SetDefault, Proved!ReassignMembers, Proved!DeleteRole, Proved!Invite,
         Proved!InviteRejected, Proved!SendInvitation, Proved!UpdateStaff,
         Proved!RemoveStaff, Proved!Write, Proved!Next
<1>3. Proved!Spec =>
        [](Proved!HasActiveAdmin /\ Proved!AdminRoleIntact /\ Proved!NoOrphanedStaff)
          /\ Proved!OwnerUntouched
  BY Proved!OverlapsSafe, RolesDistinct, StaffGiven, MarkersGiven, NoneFresh
  DEF AdminMarkers, Status,
      Two!AdminMarkers, Two!Status, Two!Kinds, Two!Body, Two!Command, Proved!AdminMarkers,
      Proved!Status, Proved!Kinds, Proved!Body, Proved!Command
<1>4. Proved!HasActiveAdmin /\ Proved!AdminRoleIntact /\ Proved!NoOrphanedStaff
        => Two!HasActiveAdmin /\ Two!AdminRoleIntact /\ Two!NoOrphanedStaff
  BY DEF Two!AdminMarkers, Two!HasMarkers, Two!ActiveAdmins, Two!HasActiveAdmin,
         Two!AdminRoleIntact, Two!NoOrphanedStaff, Proved!AdminMarkers, Proved!HasMarkers,
         Proved!ActiveAdmins, Proved!HasActiveAdmin, Proved!AdminRoleIntact,
         Proved!NoOrphanedStaff
<1>5. Proved!OwnerUntouched => Two!OwnerUntouched
  BY DEF Two!vars, Two!OwnerUntouched, Proved!vars, Proved!OwnerUntouched
<1>6. QED
  BY <1>1, <1>2, <1>3, <1>4, <1>5, PTL DEF Two!Spec, Proved!Spec, OverlapsKeepRoles

-----------------------------------------------------------------------------
(* The tables of the database: what is proved of them holds of their        *)
(* instance here, which has the same text, definition by definition.        *)
Stored == INSTANCE DatabaseProofs WITH
  Others <- OtherCodes, Runnable <- Jobs, MaxRuns <- MaxJobs, MaxRequests <- MaxCalls,
  db <- db2, gone <- gone2, script <- script2, runs <- runs2, requests <- requests2, asked <- asked2

(* Whichever scripts and requests run, however many, and wherever they      *)
(* stop: no row refers to one of another institute or to one that is gone,  *)
(* and what was recorded of students goes only with the whole institute.    *)
THEOREM InstitutesStayApart == Tables!Spec => InstitutesKept
<1>1. Tables!Init = Stored!Init
  BY DEF Tables!Init, Stored!Init, Tables!NoScript, Stored!NoScript, Tables!Nested,
         Stored!Nested, Tables!Bootstrap, Stored!Bootstrap, Tables!Plus, Stored!Plus,
         Tables!Null, Stored!Null, Tables!Row, Stored!Row, Tables!RoleRow, Stored!RoleRow,
         Tables!StaffRow, Stored!StaffRow, Tables!Code, Stored!Code, Tables!Key, Stored!Key,
         Tables!Named, Stored!Named, Tables!KeyFirst, Stored!KeyFirst, Tables!KeyLast,
         Stored!KeyLast
<1>2. \A S : Tables!Along(S) = Stored!Along(S)
  BY DEF Tables!Along, Stored!Along, Tables!Cascading, Stored!Cascading, Tables!Restricted,
         Stored!Restricted, Tables!SetNull, Stored!SetNull, Tables!TableOf, Stored!TableOf,
         Tables!RestrictFirst, Stored!RestrictFirst, Tables!RestrictNext, Stored!RestrictNext,
         Tables!RestrictLast, Stored!RestrictLast, Tables!RestrictRole, Stored!RestrictRole
<1>3. \A S : Tables!Cascaded(S) = Stored!Cascaded(S)
  BY <1>2 DEF Tables!Cascaded, Stored!Cascaded
<1>4. \A rows : Tables!Accepted(rows) = Stored!Accepted(rows)
  BY DEF Tables!Accepted, Stored!Accepted, Tables!Null, Stored!Null, Tables!Required,
         Stored!Required, Tables!TenantOf, Stored!TenantOf, Tables!TableOf, Stored!TableOf,
         Tables!Tenants, Stored!Tenants, Tables!Plus, Stored!Plus, Tables!RequiredFirst,
         Stored!RequiredFirst, Tables!RequiredNext, Stored!RequiredNext, Tables!RequiredLast,
         Stored!RequiredLast, Tables!RequiredRole, Stored!RequiredRole
<1>5. \A S : Tables!Deletable(S) = Stored!Deletable(S)
  BY DEF Tables!Deletable, Stored!Deletable, Tables!Restricted, Stored!Restricted,
         Tables!Refers, Stored!Refers, Tables!RestrictFirst, Stored!RestrictFirst,
         Tables!RestrictNext, Stored!RestrictNext, Tables!RestrictLast, Stored!RestrictLast,
         Tables!RestrictRole, Stored!RestrictRole, Tables!TableOf, Stored!TableOf
<1>6. \A S : Tables!Delete(S) = Stored!Delete(S)
  BY DEF Tables!Delete, Stored!Delete, Tables!Null, Stored!Null
<1>7. \A rows : Tables!Insert(rows) = Stored!Insert(rows)
  BY DEF Tables!Insert, Stored!Insert, Tables!Plus, Stored!Plus
<1>8. \A st : Tables!Taken(st) = Stored!Taken(st)
  BY <1>4, <1>3, <1>5 DEF Tables!Taken, Stored!Taken, Tables!RestrictRole, Stored!RestrictRole,
         Tables!Refers, Stored!Refers, Tables!TableOf, Stored!TableOf
<1>9. \A st : Tables!Execute(st) = Stored!Execute(st)
  BY <1>3, <1>6, <1>7 DEF Tables!Execute, Stored!Execute, Tables!RestrictRole,
         Stored!RestrictRole, Tables!TableOf, Stored!TableOf, Tables!Refers, Stored!Refers
<1>10. \A n, code : Tables!SeedTenant(n, code) = Stored!SeedTenant(n, code)
  BY DEF Tables!SeedTenant, Stored!SeedTenant, Tables!Row, Stored!Row, Tables!Nested,
         Stored!Nested, Tables!Key, Stored!Key, Tables!Plus, Stored!Plus, Tables!KeyFirst,
         Stored!KeyFirst, Tables!KeyLast, Stored!KeyLast
<1>11. \A n : Tables!SeedSyllabus(n) = Stored!SeedSyllabus(n)
  BY DEF Tables!SeedSyllabus, Stored!SeedSyllabus, Tables!Row, Stored!Row, Tables!SUBJECTS,
         Stored!SUBJECTS, Tables!SYLLABUS, Stored!SYLLABUS, Tables!Subject, Stored!Subject,
         Tables!Key, Stored!Key, Tables!Named, Stored!Named, Tables!KeyFirst, Stored!KeyFirst,
         Tables!KeyLast, Stored!KeyLast
<1>12. \A n : Tables!SeedRoles(n) = Stored!SeedRoles(n)
  BY DEF Tables!SeedRoles, Stored!SeedRoles, Tables!Row, Stored!Row, Tables!CUSTOM_ROLES,
         Stored!CUSTOM_ROLES, Tables!Key, Stored!Key, Tables!KeyFirst, Stored!KeyFirst,
         Tables!KeyLast, Stored!KeyLast
<1>13. \A n : Tables!SeedStaff(n) = Stored!SeedStaff(n)
  BY DEF Tables!SeedStaff, Stored!SeedStaff, Tables!Row, Stored!Row, Tables!STAFF, Stored!STAFF,
         Tables!Subject, Stored!Subject, Tables!RoleRow, Stored!RoleRow, Tables!StaffRow,
         Stored!StaffRow, Tables!Nested, Stored!Nested, Tables!Teaches, Stored!Teaches,
         Tables!Key, Stored!Key, Tables!Named, Stored!Named, Tables!Plus, Stored!Plus,
         Tables!KeyFirst, Stored!KeyFirst, Tables!KeyLast, Stored!KeyLast
<1>14. \A n : Tables!SeedBatches(n) = Stored!SeedBatches(n)
  BY DEF Tables!SeedBatches, Stored!SeedBatches, Tables!Row, Stored!Row, Tables!BATCHES,
         Stored!BATCHES, Tables!Subject, Stored!Subject, Tables!StaffRow, Stored!StaffRow,
         Tables!Campus, Stored!Campus, Tables!Key, Stored!Key, Tables!Named, Stored!Named,
         Tables!KeyFirst, Stored!KeyFirst, Tables!KeyLast, Stored!KeyLast
<1>15. \A n : Tables!SeedStudents(n) = Stored!SeedStudents(n)
  BY DEF Tables!SeedStudents, Stored!SeedStudents, Tables!Row, Stored!Row, Tables!STUDENTS,
         Stored!STUDENTS, Tables!Batch, Stored!Batch, Tables!Student, Stored!Student,
         Tables!Campus, Stored!Campus, Tables!Nested, Stored!Nested, Tables!Joins, Stored!Joins,
         Tables!Key, Stored!Key, Tables!Named, Stored!Named, Tables!Plus, Stored!Plus,
         Tables!KeyFirst, Stored!KeyFirst, Tables!KeyLast, Stored!KeyLast
<1>16. \A n : Tables!SeedCoverage(n) = Stored!SeedCoverage(n)
  BY DEF Tables!SeedCoverage, Stored!SeedCoverage, Tables!Row, Stored!Row, Tables!SYLLABUS,
         Stored!SYLLABUS, Tables!Topic, Stored!Topic, Tables!Batch, Stored!Batch, Tables!Key,
         Stored!Key, Tables!Subject, Stored!Subject, Tables!Named, Stored!Named,
         Tables!KeyFirst, Stored!KeyFirst, Tables!KeyLast, Stored!KeyLast
<1>17. \A n : Tables!SeedSession(n) = Stored!SeedSession(n)
  BY DEF Tables!SeedSession, Stored!SeedSession, Tables!Topic, Stored!Topic, Tables!StaffRow,
         Stored!StaffRow, Tables!Batch, Stored!Batch, Tables!Student, Stored!Student,
         Tables!Register, Stored!Register, Tables!Subject, Stored!Subject, Tables!Named,
         Stored!Named, Tables!Row, Stored!Row, Tables!Only, Stored!Only, Tables!Nested,
         Stored!Nested, Tables!Key, Stored!Key, Tables!Plus, Stored!Plus, Tables!KeyFirst,
         Stored!KeyFirst, Tables!KeyLast, Stored!KeyLast
<1>18. \A n : Tables!SeedAssessment(n) = Stored!SeedAssessment(n)
  BY DEF Tables!SeedAssessment, Stored!SeedAssessment, Tables!Row, Stored!Row, Tables!Only,
         Stored!Only, Tables!Topic, Stored!Topic, Tables!Batch, Stored!Batch, Tables!Student,
         Stored!Student, Tables!Nested, Stored!Nested, Tables!Key, Stored!Key, Tables!Subject,
         Stored!Subject, Tables!Named, Stored!Named, Tables!Plus, Stored!Plus, Tables!KeyFirst,
         Stored!KeyFirst, Tables!KeyLast, Stored!KeyLast
<1>19. \A n : Tables!SeedFees(n) = Stored!SeedFees(n)
  BY DEF Tables!SeedFees, Stored!SeedFees, Tables!Named, Stored!Named, Tables!StaffRow,
         Stored!StaffRow, Tables!Batch, Stored!Batch, Tables!Student, Stored!Student,
         Tables!Invoice, Stored!Invoice, Tables!Payment, Stored!Payment, Tables!Row, Stored!Row,
         Tables!Key, Stored!Key, Tables!KeyFirst, Stored!KeyFirst, Tables!KeyLast,
         Stored!KeyLast
<1>20. \A n : Tables!SeedPortal(n) = Stored!SeedPortal(n)
  BY DEF Tables!SeedPortal, Stored!SeedPortal, Tables!Student, Stored!Student,
         Tables!PortalAccountOf, Stored!PortalAccountOf, Tables!Named, Stored!Named, Tables!Row,
         Stored!Row, Tables!Account, Stored!Account, Tables!Nested, Stored!Nested, Tables!Key,
         Stored!Key, Tables!Plus, Stored!Plus, Tables!KeyFirst, Stored!KeyFirst, Tables!KeyLast,
         Stored!KeyLast
<1>21. \A n : Tables!createInvitation(n) = Stored!createInvitation(n)
  BY DEF Tables!createInvitation, Stored!createInvitation, Tables!Null, Stored!Null,
         Tables!StaffRow, Stored!StaffRow, Tables!Account, Stored!Account, Tables!Code,
         Stored!Code, Tables!Named, Stored!Named, Tables!Row, Stored!Row, Tables!Key,
         Stored!Key, Tables!KeyFirst, Stored!KeyFirst, Tables!KeyLast, Stored!KeyLast
<1>22. \A n : Tables!Seed(n) = Stored!Seed(n)
  BY <1>10, <1>11, <1>12, <1>13, <1>14, <1>15, <1>16, <1>17, <1>18, <1>19, <1>20, <1>21 DEF
         Tables!Seed, Stored!Seed
<1>23. \A n, code : Tables!Bootstrap(n, code) = Stored!Bootstrap(n, code)
  BY DEF Tables!Bootstrap, Stored!Bootstrap, Tables!Null, Stored!Null, Tables!Plus, Stored!Plus,
         Tables!Row, Stored!Row, Tables!RoleRow, Stored!RoleRow, Tables!StaffRow,
         Stored!StaffRow, Tables!Code, Stored!Code, Tables!Key, Stored!Key, Tables!Named,
         Stored!Named, Tables!KeyFirst, Stored!KeyFirst, Tables!KeyLast, Stored!KeyLast
<1>24. \A n : Tables!LoadReference(n) = Stored!LoadReference(n)
  BY DEF Tables!LoadReference, Stored!LoadReference, Tables!Row, Stored!Row, Tables!Subject,
         Stored!Subject, Tables!RoleRow, Stored!RoleRow, Tables!StaffRow, Stored!StaffRow,
         Tables!Batch, Stored!Batch, Tables!Campus, Stored!Campus, Tables!Nested, Stored!Nested,
         Tables!Key, Stored!Key, Tables!Named, Stored!Named, Tables!Plus, Stored!Plus,
         Tables!KeyFirst, Stored!KeyFirst, Tables!KeyLast, Stored!KeyLast
<1>25. \A n : Tables!LoadStudents(n) = Stored!LoadStudents(n)
  BY DEF Tables!LoadStudents, Stored!LoadStudents, Tables!In, Stored!In, Tables!Student,
         Stored!Student, Tables!Campus, Stored!Campus, Tables!Nested, Stored!Nested,
         Tables!Joins, Stored!Joins, Tables!TableOf, Stored!TableOf, Tables!RowsOf,
         Stored!RowsOf, Tables!Named, Stored!Named, Tables!Plus, Stored!Plus, Tables!Row,
         Stored!Row, Tables!TenantOf, Stored!TenantOf, Tables!Key, Stored!Key, Tables!KeyFirst,
         Stored!KeyFirst, Tables!KeyLast, Stored!KeyLast
<1>26. \A n : Tables!LoadRegisters(n) = Stored!LoadRegisters(n)
  BY DEF Tables!LoadRegisters, Stored!LoadRegisters, Tables!Row, Stored!Row, Tables!In,
         Stored!In, Tables!Nested, Stored!Nested, Tables!Enrolled, Stored!Enrolled, Tables!Key,
         Stored!Key, Tables!TableOf, Stored!TableOf, Tables!RowsOf, Stored!RowsOf, Tables!Plus,
         Stored!Plus, Tables!KeyFirst, Stored!KeyFirst, Tables!KeyLast, Stored!KeyLast,
         Tables!TenantOf, Stored!TenantOf
<1>27. \A n : Tables!LoadFees(n) = Stored!LoadFees(n)
  BY DEF Tables!LoadFees, Stored!LoadFees, Tables!In, Stored!In, Tables!Nested, Stored!Nested,
         Tables!Invoice, Stored!Invoice, Tables!Payment, Stored!Payment, Tables!Enrolled,
         Stored!Enrolled, Tables!CollectedBy, Stored!CollectedBy, Tables!TableOf,
         Stored!TableOf, Tables!RowsOf, Stored!RowsOf, Tables!Plus, Stored!Plus, Tables!Row,
         Stored!Row, Tables!Null, Stored!Null, Tables!TenantOf, Stored!TenantOf, Tables!Key,
         Stored!Key, Tables!KeyFirst, Stored!KeyFirst, Tables!KeyLast, Stored!KeyLast
<1>28. \A n : Tables!LoadAssessments(n) = Stored!LoadAssessments(n)
  BY DEF Tables!LoadAssessments, Stored!LoadAssessments, Tables!Row, Stored!Row, Tables!In,
         Stored!In, Tables!Nested, Stored!Nested, Tables!Enrolled, Stored!Enrolled, Tables!Key,
         Stored!Key, Tables!TableOf, Stored!TableOf, Tables!RowsOf, Stored!RowsOf, Tables!Plus,
         Stored!Plus, Tables!KeyFirst, Stored!KeyFirst, Tables!KeyLast, Stored!KeyLast,
         Tables!TenantOf, Stored!TenantOf
<1>29. \A n : Tables!Load(n) = Stored!Load(n)
  BY <1>24, <1>25, <1>26, <1>27, <1>28 DEF Tables!Load, Stored!Load
<1>30. \A s : Tables!Statements(s) = Stored!Statements(s)
  BY <1>22, <1>23, <1>29 DEF Tables!Statements, Stored!Statements
<1>31. \A s : Tables!Pending(s) = Stored!Pending(s)
  BY <1>30 DEF Tables!Pending, Stored!Pending
<1>32. Tables!RunStatement = Stored!RunStatement
  BY <1>4, <1>7, <1>30, <1>31 DEF Tables!RunStatement, Stored!RunStatement, Tables!NoScript,
         Stored!NoScript
<1>33. Tables!BeginSeed = Stored!BeginSeed
  BY <1>3, <1>5, <1>6 DEF Tables!BeginSeed, Stored!BeginSeed, Tables!RowsOf, Stored!RowsOf,
         Tables!Fresh, Stored!Fresh, Tables!Coded, Stored!Coded, Tables!TenantOf,
         Stored!TenantOf, Tables!Max, Stored!Max, Tables!Tenants, Stored!Tenants,
         Tables!TableOf, Stored!TableOf
<1>34. Tables!BeginBootstrap = Stored!BeginBootstrap
  BY DEF Tables!BeginBootstrap, Stored!BeginBootstrap, Tables!Fresh, Stored!Fresh, Tables!Coded,
         Stored!Coded, Tables!Max, Stored!Max, Tables!TenantOf, Stored!TenantOf, Tables!Tenants,
         Stored!Tenants, Tables!TableOf, Stored!TableOf
<1>35. Tables!BeginLoad = Stored!BeginLoad
  BY DEF Tables!BeginLoad, Stored!BeginLoad, Tables!In, Stored!In, Tables!RoleRow,
         Stored!RoleRow, Tables!StaffRow, Stored!StaffRow, Tables!Coded, Stored!Coded,
         Tables!TableOf, Stored!TableOf, Tables!RowsOf, Stored!RowsOf, Tables!Named,
         Stored!Named, Tables!TenantOf, Stored!TenantOf, Tables!Tenants, Stored!Tenants
<1>36. Tables!BeginScript = Stored!BeginScript
  BY <1>33, <1>34, <1>35 DEF Tables!BeginScript, Stored!BeginScript, Tables!NoScript,
         Stored!NoScript
<1>37. Tables!ScriptStops = Stored!ScriptStops
  BY DEF Tables!ScriptStops, Stored!ScriptStops, Tables!NoScript, Stored!NoScript
<1>38. Tables!Request = Stored!Request
  BY DEF Tables!Request, Stored!Request, Tables!Null, Stored!Null, Tables!TenantOf,
         Stored!TenantOf, Tables!Tenants, Stored!Tenants, Tables!invite, Stored!invite,
         Tables!updateSubjects, Stored!updateSubjects, Tables!removeStaff, Stored!removeStaff,
         Tables!removeRole, Stored!removeRole, Tables!importStudent, Stored!importStudent,
         Tables!signIn, Stored!signIn, Tables!OnFile, Stored!OnFile, Tables!TableOf,
         Stored!TableOf, Tables!Row, Stored!Row, Tables!Create, Stored!Create, Tables!StaffRow,
         Stored!StaffRow, Tables!Nested, Stored!Nested, Tables!Teaches, Stored!Teaches,
         Tables!Code, Stored!Code, Tables!Finds, Stored!Finds, Tables!Label, Stored!Label,
         Tables!Proceed, Stored!Proceed, Tables!Clear, Stored!Clear, Tables!RowsOf,
         Stored!RowsOf, Tables!Drop, Stored!Drop, Tables!In, Stored!In, Tables!Move,
         Stored!Move, Tables!Student, Stored!Student, Tables!Joins, Stored!Joins, Tables!Key,
         Stored!Key, Tables!Named, Stored!Named, Tables!Plus, Stored!Plus, Tables!KeyFirst,
         Stored!KeyFirst, Tables!KeyLast, Stored!KeyLast
<1>39. Tables!Write = Stored!Write
  BY <1>8, <1>9 DEF Tables!Write, Stored!Write
<1>40. Tables!Next = Stored!Next
  BY <1>36, <1>32, <1>37, <1>38, <1>39 DEF Tables!Next, Stored!Next
<1>41. Stored!Spec => [](Stored!TypeOK /\ Stored!InstitutesApart) /\ Stored!HistoryKept
  BY Stored!RowsTyped, Stored!RowsApart, Stored!RowsKept, PTL
<1>42. Stored!TypeOK => Tables!TypeOK
  BY DEF Tables!TypeOK, Stored!TypeOK, Tables!TableOf, Stored!TableOf, Tables!Schema,
         Stored!Schema, Tables!Null, Stored!Null
<1>43. Stored!InstitutesApart => Tables!InstitutesApart
  BY <1>3, <1>5 DEF Tables!InstitutesApart, Stored!InstitutesApart, Tables!Deletable,
         Stored!Deletable, Tables!Refers, Stored!Refers, Tables!TableOf, Stored!TableOf,
         Tables!Restricted, Stored!Restricted, Tables!RestrictRole, Stored!RestrictRole,
         Tables!RestrictLast, Stored!RestrictLast, Tables!RestrictNext, Stored!RestrictNext,
         Tables!RestrictFirst, Stored!RestrictFirst, Tables!Cascaded, Stored!Cascaded,
         Tables!Along, Stored!Along, Tables!Cascading, Stored!Cascading, Tables!SetNull,
         Stored!SetNull, Tables!Tenants, Stored!Tenants, Tables!RowsOf, Stored!RowsOf,
         Tables!TenantOf, Stored!TenantOf, Tables!Null, Stored!Null
<1>44. Stored!HistoryKept => Tables!HistoryKept
  <2> DEFINE
        Before ==
          \A id \in DOMAIN db2 \ DOMAIN db2' :
               Stored!TableOf(id) \in Stored!History =>
                 \E t \in Stored!Tenants : Stored!TenantOf(t) = Stored!TenantOf(id) /\ t \notin DOMAIN db2'
        After ==
          \A id \in DOMAIN db2 \ DOMAIN db2' :
               Tables!TableOf(id) \in Tables!History =>
                 \E t \in Tables!Tenants : Tables!TenantOf(t) = Tables!TenantOf(id) /\ t \notin DOMAIN db2'
  <2>1. Before => After
    BY DEF Tables!History, Stored!History, Tables!Tenants, Stored!Tenants,
           Tables!TableOf, Stored!TableOf, Tables!TenantOf, Stored!TenantOf
  <2> HIDE DEF Before, After
  <2>2. [Before]_(Stored!vars) => [After]_(Tables!vars)
    BY <2>1 DEF Tables!vars, Stored!vars
  <2>3. [][Before]_(Stored!vars) => [][After]_(Tables!vars)
    BY <2>2, PTL
  <2>4. QED BY <2>3 DEF Before, After, Stored!HistoryKept, Tables!HistoryKept
<1>45. Tables!Init => Stored!Init
  BY <1>1
<1>46. [Tables!Next]_(Tables!vars) => [Stored!Next]_(Stored!vars)
  BY <1>40 DEF Tables!vars, Stored!vars
<1>47. QED
  BY <1>41, <1>42, <1>43, <1>44, <1>45, <1>46, PTL DEF Tables!Spec, Stored!Spec, InstitutesKept
=============================================================================
