--------------------------- MODULE SessionsProofs ---------------------------
(***************************************************************************)
(* Theorems about Sessions, for every set of accounts, tokens and links    *)
(* and any number of overlapping requests.                                 *)
(***************************************************************************)
EXTENDS Sessions, TLAPS

(* What a request in flight knows: the account it acts for, the account of *)
(* the token it holds, and that the link it is about to spend is consumed. *)
Named ==
  \A q \in Request :
    /\ req[q].pc # "idle" => req[q].acct \in Account
    /\ req[q].token # None => req[q].acct \in Account /\ holder[req[q].token] = req[q].acct
    /\ req[q].pc \in {"reusing", "rereading", "linking", "leaving"} => req[q].token \in Token
    /\ req[q].pc \in {"spending", "writing"} => req[q].link \in Link
    /\ req[q].link # None => linkFor[req[q].link] # None
    /\ req[q].pc = "writing" => req[q].link \in consumed

Typed == TypeOK /\ Named

(* A token is exchanged for one of the same account. *)
SameAccount ==
  \A t \in Token : from[t] # None => holder[t] # None /\ holder[from[t]] = holder[t]

(* The first state satisfies every invariant proved here. *)
LEMMA InitTyped == Init => Typed /\ SameAccount /\ RotatedIsRetired /\ SpentIsConsumed
  BY NoneFresh DEF Init, Typed, TypeOK, Named, SameAccount, RotatedIsRetired, SpentIsConsumed,
     Live, HasRow, Idle, Requests, Phase, Status, Purpose, Cause, Account

(* The record of a request that is not in flight is well typed. *)
LEMMA IdleTyped == Idle \in Requests
  BY DEF Idle, Requests, Phase

(* The bookkeeping steps of a request, apart from the tables. *)
LEMMA FinishTyped ==
  ASSUME Typed, NEW q \in Request, Finish(q)
  PROVE  /\ req' \in [Request -> Requests]
         /\ \A p \in Request : req'[p] = IF p = q THEN Idle ELSE req[p]
  BY IdleTyped DEF Typed, TypeOK, Finish

(* A request that moves to its next statement keeps its fields and its type. *)
LEMMA AdvanceTyped ==
  ASSUME Typed, NEW q \in Request, NEW pc \in Phase, Advance(q, pc)
  PROVE  /\ req' \in [Request -> Requests]
         /\ \A p \in Request :
              IF p = q THEN /\ req'[q].pc = pc /\ req'[q].acct = req[q].acct
                            /\ req'[q].token = req[q].token /\ req'[q].link = req[q].link
              ELSE req'[p] = req[p]
<1>1. req \in [Request -> Requests] /\ req[q] \in Requests
  BY DEF Typed, TypeOK
<1>2. [req[q] EXCEPT !.pc = pc] \in Requests
  BY <1>1 DEF Requests
<1>3. req' = [req EXCEPT ![q] = [req[q] EXCEPT !.pc = pc]]
  BY DEF Advance
<1>4. req' \in [Request -> Requests]
  BY <1>1, <1>2, <1>3
<1>5. \A p \in Request \ {q} : req'[p] = req[p]
  BY <1>1, <1>3
<1>6. req'[q] = [req[q] EXCEPT !.pc = pc]
  BY <1>1, <1>3
<1>7. /\ req'[q].pc = pc /\ req'[q].acct = req[q].acct
      /\ req'[q].token = req[q].token /\ req'[q].link = req[q].link
  BY <1>1, <1>6 DEF Requests
<1>8. QED BY <1>4, <1>5, <1>7

(* issueRefreshToken: the request finishes, or holds both tokens. *)
LEMMA IssueSteps ==
  ASSUME Typed, NEW q \in Request, Issue(q)
  PROVE  \E t \in Token :
           /\ holder[t] = None
           /\ holder' = [holder EXCEPT ![t] = req[q].acct]
           /\ from' = [from EXCEPT ![t] = req[q].token]
           /\ ended' = [ended EXCEPT ![t] = req[q].ended]
           /\ req' \in [Request -> Requests]
           /\ \A p \in Request \ {q} : req'[p] = req[p]
           /\ \/ req[q].token = None /\ req'[q] = Idle
              \/ /\ req[q].token # None /\ req'[q].pc = "linking"
                 /\ req'[q].acct = req[q].acct /\ req'[q].token = req[q].token
                 /\ req'[q].link = req[q].link
<1>1. PICK t \in Token :
        /\ holder[t] = None
        /\ holder' = [holder EXCEPT ![t] = req[q].acct]
        /\ from' = [from EXCEPT ![t] = req[q].token]
        /\ ended' = [ended EXCEPT ![t] = req[q].ended]
        /\ IF req[q].token = None THEN Finish(q)
           ELSE req' = [req EXCEPT ![q].pc = "linking", ![q].next = t]
  BY DEF Issue
<1>2. req \in [Request -> Requests] /\ req[q] \in Requests
  BY DEF Typed, TypeOK
<1> DEFINE after == [pc |-> "linking", acct |-> req[q].acct, token |-> req[q].token,
                     next |-> t, link |-> req[q].link, for |-> req[q].for,
                     ended |-> req[q].ended]
<1>3. after \in Requests
  BY <1>2 DEF Requests, Phase
<1>4. CASE req[q].token = None
  BY <1>1, <1>4, FinishTyped
<1>5. CASE req[q].token # None
  <2>1. req' = [req EXCEPT ![q] = after]
    BY <1>1, <1>2, <1>5 DEF Requests
  <2>2. req' \in [Request -> Requests] /\ req'[q] = after /\ \A p \in Request \ {q} : req'[p] = req[p]
    BY <1>2, <1>3, <2>1
  <2>3. QED BY <1>1, <1>5, <2>2
<1>6. QED BY <1>4, <1>5

(* Ending sessions changes, of the other requests, only what is to become of *)
(* the sessions they create.                                               *)
LEMMA MarkSteps ==
  ASSUME Typed, NEW q \in Request, NEW a, NEW cause \in Cause, NEW then \in Requests,
         Mark(a, cause, q, then)
  PROVE  /\ req' \in [Request -> Requests] /\ ended' \in [Token -> SUBSET Cause]
         /\ req'[q] = then
         /\ \A p \in Request \ {q} :
              /\ req'[p].pc = req[p].pc /\ req'[p].acct = req[p].acct
              /\ req'[p].token = req[p].token /\ req'[p].link = req[p].link
<1> DEFINE Marked(p) == [req[p] EXCEPT !.ended = Ends(req[p].ended, cause)]
<1>1. \A S \in SUBSET Cause : Ends(S, cause) \in SUBSET Cause
  BY DEF Ends
<1>2. ended' \in [Token -> SUBSET Cause]
  BY <1>1 DEF Mark, Typed, TypeOK
<1>3. \A p \in Request : Marked(p) \in Requests
  BY <1>1 DEF Typed, TypeOK, Requests
<1>4. \A p \in Request : /\ Marked(p).pc = req[p].pc /\ Marked(p).acct = req[p].acct
                          /\ Marked(p).token = req[p].token /\ Marked(p).link = req[p].link
  BY DEF Typed, TypeOK, Requests
<1>5. req' = [p \in Request |-> IF p = q THEN then
                               ELSE IF req[p].acct = a THEN Marked(p) ELSE req[p]]
  BY DEF Mark
<1> HIDE DEF Marked
<1>6. req' \in [Request -> Requests]
  BY <1>3, <1>5 DEF Typed, TypeOK
<1>7. QED BY <1>2, <1>4, <1>5, <1>6

(* A request whose last statement ends the sessions of its account. *)
LEMMA EndSessionsTyped ==
  ASSUME Typed, NEW q \in Request, req[q].acct \in Account, NEW cause \in Cause,
         Mark(req[q].acct, cause, q, Idle), revoked' = revoked \cup SessionsOf(req[q].acct),
         UNCHANGED <<accounts, holder, expired, rotatedTo, from, links>>
  PROVE  Typed'
<1>1. /\ req' \in [Request -> Requests] /\ ended' \in [Token -> SUBSET Cause]
      /\ req'[q] = Idle
      /\ \A p \in Request \ {q} :
           /\ req'[p].pc = req[p].pc /\ req'[p].acct = req[p].acct
           /\ req'[p].token = req[p].token /\ req'[p].link = req[p].link
  BY MarkSteps, IdleTyped
<1>2. SessionsOf(req[q].acct) \subseteq {t \in Token : holder[t] # None}
  BY NoneFresh DEF SessionsOf
<1>3. TypeOK'
  BY <1>1, <1>2 DEF Typed, TypeOK, accounts, links
<1>4. Named'
  <2> SUFFICES ASSUME NEW p \in Request PROVE Named!(p)'
    BY DEF Named
  <2>1. CASE p = q
    BY <1>1, <2>1 DEF Idle
  <2>2. CASE p # q
    BY <1>1, <2>2 DEF Typed, Named, links
  <2>3. QED BY <2>1, <2>2
<1>5. QED BY <1>3, <1>4 DEF Typed

(* The first statement of every handler keeps the types. *)
LEMMA ArriveTyped ==
  ASSUME Typed, NEW q \in Request, Arrive(q)
  PROVE  Typed'
<1>1. ASSUME NEW a \in Account, SignIn(q, a) PROVE Typed'
  BY <1>1, NoneFresh DEF SignIn, Asks, Typed, TypeOK, Named, Idle, Requests, Phase,
     accounts, tokens, links
<1>2. ASSUME NEW a \in Portal, CodeSignIn(q, a) PROVE Typed'
  BY <1>2, NoneFresh DEF CodeSignIn, Asks, Typed, TypeOK, Named, Idle, Requests, Phase, Status,
     Account, tokens, links
<1>3. ASSUME NEW t \in Token, Refresh(q, t) PROVE Typed'
  BY <1>3, NoneFresh DEF Refresh, HasRow, Typed, TypeOK, Named, Idle, Requests, Phase,
     accounts, tokens, links
<1>4. ASSUME NEW t \in Token, Logout(q, t) PROVE Typed'
  BY <1>4, NoneFresh DEF Logout, Live, HasRow, Typed, TypeOK, Named, Idle, Requests, Phase,
     accounts, tokens, links
<1>5. ASSUME NEW a \in Account, NEW for \in Purpose, AskForLink(q, a, for) PROVE Typed'
  BY <1>5, NoneFresh DEF AskForLink, Typed, TypeOK, Named, Idle, Requests, Phase,
     accounts, tokens, links
<1>6. ASSUME NEW l \in Link, OpenLink(q, l) PROVE Typed'
  BY <1>6, NoneFresh DEF OpenLink, LinkLive, Typed, TypeOK, Named, Idle, Requests, Phase,
     accounts, tokens, links
<1>7. QED BY <1>1, <1>2, <1>3, <1>4, <1>5, <1>6 DEF Arrive

(* Every later statement of a handler, and a failure, keeps the types. *)
LEMMA ContinueTyped ==
  ASSUME Typed, NEW q \in Request, Continue(q)
  PROVE  Typed'
<1> USE NoneFresh
<1>1. ASSUME EndAllOnReuse(q) PROVE Typed'
  <2>1. Mark(req[q].acct, "reuse", q, Idle) /\ "reuse" \in Cause
    BY <1>1 DEF EndAllOnReuse, Cause
  <2>2. req[q].acct \in Account
    BY <1>1 DEF EndAllOnReuse, Typed, Named
  <2>3. QED BY <1>1, <2>1, <2>2, EndSessionsTyped DEF EndAllOnReuse
<1>2. ASSUME Reread(q) PROVE Typed'
  BY <1>2, FinishTyped, AdvanceTyped DEF Reread, Typed, TypeOK, Named, Idle, Phase,
     accounts, tokens, links
<1>3. ASSUME Issue(q) PROVE Typed'
  <2>1. PICK t \in Token :
          /\ holder[t] = None
          /\ holder' = [holder EXCEPT ![t] = req[q].acct]
          /\ from' = [from EXCEPT ![t] = req[q].token]
          /\ ended' = [ended EXCEPT ![t] = req[q].ended]
          /\ req' \in [Request -> Requests]
          /\ \A p \in Request \ {q} : req'[p] = req[p]
          /\ \/ req[q].token = None /\ req'[q] = Idle
             \/ /\ req[q].token # None /\ req'[q].pc = "linking"
                /\ req'[q].acct = req[q].acct /\ req'[q].token = req[q].token
                /\ req'[q].link = req[q].link
    BY <1>3, IssueSteps
  <2>2. req[q] \in Requests /\ req[q].acct \in Account
    BY <1>3 DEF Issue, Typed, TypeOK, Named
  <2>3. \A u \in Token : holder[u] # None => holder'[u] = holder[u]
    BY <2>1 DEF Typed, TypeOK
  <2>4. TypeOK'
    BY <1>3, <2>1, <2>2 DEF Issue, Typed, TypeOK, Requests, accounts, links
  <2>5. \A p \in Request : req[p].token # None => req[p].token \in Token /\ holder[req[p].token] # None
    BY NoneFresh DEF Typed, TypeOK, Named, Requests
  <2>6. Named'
    BY <1>3, <2>1, <2>2, <2>3, <2>5 DEF Issue, Typed, TypeOK, Named, Idle, Requests, links
  <2>7. QED BY <2>4, <2>6 DEF Typed
<1>4. ASSUME IssueRejected(q) PROVE Typed'
  BY <1>4, FinishTyped DEF IssueRejected, Typed, TypeOK, Named, Idle, accounts, tokens, links
<1>5. ASSUME LinkRotation(q) PROVE Typed'
  BY <1>5, FinishTyped DEF LinkRotation, HasRow, Typed, TypeOK, Named, Idle, Requests, accounts, links
<1>6. ASSUME Revoke(q) PROVE Typed'
  BY <1>6, FinishTyped DEF Revoke, HasRow, Typed, TypeOK, Named, Idle, accounts, links
<1>7. ASSUME ReplaceLinks(q) PROVE Typed'
  BY <1>7, AdvanceTyped DEF ReplaceLinks, LinkLive, Typed, TypeOK, Named, Phase, accounts, tokens
<1>8. ASSUME MintLink(q) PROVE Typed'
  BY <1>8, FinishTyped DEF MintLink, Typed, TypeOK, Named, Idle, Requests, accounts, tokens
<1>9. ASSUME MintRejected(q) PROVE Typed'
  BY <1>9, FinishTyped DEF MintRejected, Typed, TypeOK, Named, Idle, accounts, tokens, links
<1>10. ASSUME ConsumeLink(q) PROVE Typed'
  BY <1>10, FinishTyped, AdvanceTyped DEF ConsumeLink, Typed, TypeOK, Named, Idle, Phase,
     accounts, tokens
<1>11. ASSUME WritePassword(q) PROVE Typed'
  <2>1. req[q] \in Requests /\ req[q].acct \in Account /\ req[q].link \in Link
    BY <1>11 DEF WritePassword, Typed, TypeOK, Named
  <2>2. /\ req' \in [Request -> Requests]
        /\ ended' \in [Token -> SUBSET Cause]
        /\ \A p \in Request : /\ req'[p].acct = req[p].acct /\ req'[p].token = req[p].token
                              /\ req'[p].link = req[p].link
        /\ \A p \in Request \ {q} : req'[p].pc = req[p].pc
        /\ req'[q].pc \in {"revoking", "issuing"}
    <3>1. CASE req[q].for = "reset"
      <4>1. [req[q] EXCEPT !.pc = "revoking"] \in Requests
        BY <2>1 DEF Requests, Phase
      <4>2. Mark(req[q].acct, "resetting", q, [req[q] EXCEPT !.pc = "revoking"])
        BY <1>11, <3>1 DEF WritePassword
      <4>3. /\ req' \in [Request -> Requests] /\ ended' \in [Token -> SUBSET Cause]
            /\ req'[q] = [req[q] EXCEPT !.pc = "revoking"]
            /\ \A p \in Request \ {q} :
                 /\ req'[p].pc = req[p].pc /\ req'[p].acct = req[p].acct
                 /\ req'[p].token = req[p].token /\ req'[p].link = req[p].link
        BY <4>1, <4>2, MarkSteps DEF Cause
      <4>4. /\ req'[q].acct = req[q].acct /\ req'[q].token = req[q].token
            /\ req'[q].link = req[q].link /\ req'[q].pc = "revoking"
        BY <2>1, <4>3 DEF Requests
      <4>5. QED BY <4>3, <4>4
    <3>2. CASE req[q].for # "reset"
      BY <1>11, <3>2, AdvanceTyped DEF WritePassword, Phase, Typed, TypeOK
    <3>3. QED BY <3>1, <3>2
  <2>3. status' \in [Account -> Status \cup {"Absent"}] /\ password' \subseteq Account
    BY <1>11, <2>1 DEF WritePassword, StatusAfterPassword, Typed, TypeOK, Status
  <2>4. TypeOK'
    BY <1>11, <2>1, <2>2, <2>3 DEF WritePassword, Typed, TypeOK
  <2>5. Named'
    BY <1>11, <2>2 DEF WritePassword, Typed, Named
  <2>6. QED BY <2>4, <2>5 DEF Typed
<1>12. ASSUME WriteRejected(q) PROVE Typed'
  BY <1>12, FinishTyped DEF WriteRejected, Typed, TypeOK, Named, Idle, accounts, tokens, links
<1>13. ASSUME EndAllOnReset(q) PROVE Typed'
  <2>1. Mark(req[q].acct, "reset", q, Idle) /\ "reset" \in Cause
    BY <1>13 DEF EndAllOnReset, Cause
  <2>2. req[q].acct \in Account
    BY <1>13 DEF EndAllOnReset, Typed, Named
  <2>3. QED BY <1>13, <2>1, <2>2, EndSessionsTyped DEF EndAllOnReset
<1>14. ASSUME Abort(q) PROVE Typed'
  BY <1>14, FinishTyped DEF Abort, Typed, TypeOK, Named, Idle, accounts, tokens, links
<1>15. QED
  BY <1>1, <1>2, <1>3, <1>4, <1>5, <1>6, <1>7, <1>8, <1>9, <1>10, <1>11, <1>12, <1>13, <1>14
  DEF Continue

(* Every step, those of administrators and of time included, keeps the types. *)
LEMMA StepTyped == Typed /\ [Next]_vars => Typed'
<1> SUFFICES ASSUME Typed, [Next]_vars PROVE Typed'
  OBVIOUS
<1>1. ASSUME NEW q \in Request, Arrive(q) \/ Continue(q) PROVE Typed'
  BY <1>1, ArriveTyped, ContinueTyped
<1>2. ASSUME NEW a \in Staff, SetStatus(a) \/ Remove(a) PROVE Typed'
  BY <1>2 DEF SetStatus, Remove, Exists, Typed, TypeOK, Named, Account, Status, tokens, links
<1>3. ASSUME NEW t \in Token, TokenExpires(t) PROVE Typed'
  BY <1>3 DEF TokenExpires, Live, HasRow, Typed, TypeOK, Named, accounts, links
<1>4. ASSUME NEW l \in Link, LinkExpires(l) PROVE Typed'
  BY <1>4 DEF LinkExpires, LinkLive, Typed, TypeOK, Named, accounts, tokens
<1>5. ASSUME UNCHANGED vars PROVE Typed'
  BY <1>5 DEF vars, Typed, TypeOK, Named
<1>6. QED BY <1>1, <1>2, <1>3, <1>4, <1>5 DEF Next

(* The tables and the requests keep their types, and no request acts for an *)
(* account, a token or a link that was never issued.                       *)
THEOREM TypeCorrect == Spec => []TypeOK
<1>1. Typed => TypeOK BY DEF Typed
<1>2. QED BY InitTyped, StepTyped, <1>1, PTL DEF Spec

(* A link that has written a password is consumed, whatever fails or        *)
(* overlaps: markLinkTokenConsumed runs before the update of the account.  *)
THEOREM SpentLinksConsumed == Spec => []SpentIsConsumed
<1>1. ASSUME Typed, SpentIsConsumed, [Next]_vars PROVE SpentIsConsumed'
  <2>1. consumed \subseteq consumed'
    BY <1>1 DEF Next, Arrive, Continue, vars, accounts, tokens, links, SignIn, CodeSignIn,
       Refresh, Logout, AskForLink, OpenLink, EndAllOnReuse, Reread, Issue, IssueRejected,
       LinkRotation, Revoke, ReplaceLinks, MintLink, MintRejected, ConsumeLink, WritePassword,
       WriteRejected, EndAllOnReset, Abort, SetStatus, Remove, TokenExpires, LinkExpires
  <2>2. spent' \subseteq consumed
    <3>1. CASE \E q \in Request : WritePassword(q)
      BY <1>1, <3>1 DEF WritePassword, Typed, Named, SpentIsConsumed
    <3>2. CASE ~\E q \in Request : WritePassword(q)
      BY <1>1, <3>2 DEF Next, Arrive, Continue, vars, accounts, tokens, links, SignIn, CodeSignIn,
         Refresh, Logout, AskForLink, OpenLink, EndAllOnReuse, Reread, Issue, IssueRejected,
         LinkRotation, Revoke, ReplaceLinks, MintLink, MintRejected, ConsumeLink,
         WriteRejected, EndAllOnReset, Abort, SetStatus, Remove, TokenExpires, LinkExpires,
         SpentIsConsumed
    <3>3. QED BY <3>1, <3>2
  <2>3. QED BY <2>1, <2>2 DEF SpentIsConsumed
<1>2. QED BY <1>1, InitTyped, StepTyped, PTL DEF Spec

(* Only issueRefreshToken gives a token an owner or a predecessor. *)
LEMMA IssuedOnlyByIssue ==
  ASSUME [Next]_vars, ~\E q \in Request : Issue(q)
  PROVE  UNCHANGED <<holder, from>>
  BY DEF Next, Arrive, Continue, vars, accounts, tokens, links, SignIn, CodeSignIn,
     Refresh, Logout, AskForLink, OpenLink, EndAllOnReuse, Reread, IssueRejected,
     LinkRotation, Revoke, ReplaceLinks, MintLink, MintRejected, ConsumeLink, WritePassword,
     WriteRejected, EndAllOnReset, Abort, SetStatus, Remove, TokenExpires, LinkExpires

(* No statement clears revokedAt. *)
LEMMA RevokedForGood == [Next]_vars => revoked \subseteq revoked'
  BY DEF Next, Arrive, Continue, vars, accounts, tokens, links, SignIn, CodeSignIn,
     Refresh, Logout, AskForLink, OpenLink, EndAllOnReuse, Reread, Issue, IssueRejected,
     LinkRotation, Revoke, ReplaceLinks, MintLink, MintRejected, ConsumeLink, WritePassword,
     WriteRejected, EndAllOnReset, Abort, SetStatus, Remove, TokenExpires, LinkExpires

(* A deleted account never comes back, so its tokens stay dead. *)
LEMMA AbsentForGood ==
  ASSUME Typed, [Next]_vars, NEW a \in Account, ~Exists(a)
  PROVE  ~Exists(a)'
<1>1. CASE UNCHANGED status
  BY <1>1 DEF Exists
<1>2. ASSUME NEW q \in Request, NEW b \in Portal, CodeSignIn(q, b) PROVE ~Exists(a)'
  BY <1>2 DEF CodeSignIn, Exists, Typed, TypeOK
<1>3. ASSUME NEW q \in Request, WritePassword(q) PROVE ~Exists(a)'
  BY <1>3 DEF WritePassword, Exists, Typed, TypeOK
<1>4. ASSUME NEW b \in Staff, SetStatus(b) \/ Remove(b) PROVE ~Exists(a)'
  BY <1>4 DEF SetStatus, Remove, Exists, Typed, TypeOK
<1>5. QED
  BY <1>1, <1>2, <1>3, <1>4
  DEF Next, Arrive, Continue, vars, accounts, tokens, links, SignIn,
     Refresh, Logout, AskForLink, OpenLink, EndAllOnReuse, Reread, Issue, IssueRejected,
     LinkRotation, Revoke, ReplaceLinks, MintLink, MintRejected, ConsumeLink,
     WriteRejected, EndAllOnReset, Abort, TokenExpires, LinkExpires

(* Only linkRotation ends the interval in which both tokens are live. *)
LEMMA LinkingLasts ==
  ASSUME Typed, Failures = FALSE, [Next]_vars,
         NEW q \in Request, req[q].pc = "linking", ~LinkRotation(q)
  PROVE  req'[q].pc = "linking" /\ req'[q].token = req[q].token
<1>1. ASSUME NEW p \in Request, p # q, NEW a, NEW cause \in Cause,
             NEW then \in Requests, Mark(a, cause, p, then)
      PROVE  req'[q].pc = req[q].pc /\ req'[q].token = req[q].token
  BY <1>1, MarkSteps
<1>2. ASSUME NEW p \in Request, p # q, EndAllOnReuse(p) \/ EndAllOnReset(p)
      PROVE  req'[q].pc = req[q].pc /\ req'[q].token = req[q].token
  <2>1. {"reuse", "reset"} \subseteq Cause
    BY DEF Cause
  <2>2. \E cause \in {"reuse", "reset"} : Mark(req[p].acct, cause, p, Idle)
    BY <1>2 DEF EndAllOnReuse, EndAllOnReset
  <2>3. QED BY <1>1, <1>2, <2>1, <2>2, IdleTyped
<1>3. ASSUME NEW p \in Request, p # q, WritePassword(p)
      PROVE  req'[q].pc = req[q].pc /\ req'[q].token = req[q].token
  <2>1. CASE req[p].for = "reset"
    <3>1. Mark(req[p].acct, "resetting", p, [req[p] EXCEPT !.pc = "revoking"])
      BY <1>3, <2>1 DEF WritePassword
    <3>2. [req[p] EXCEPT !.pc = "revoking"] \in Requests
      BY DEF Typed, TypeOK, Requests, Phase
    <3>3. QED BY <1>1, <1>3, <3>1, <3>2 DEF Cause
  <2>2. CASE req[p].for # "reset"
    BY <1>3, <2>2 DEF WritePassword, Advance, Typed, TypeOK
  <2>3. QED BY <2>1, <2>2
<1> USE DEF Typed, TypeOK
<1>4. req[q] \in Requests /\ req[q] # Idle
  BY DEF Idle
<1>5. ASSUME NEW p \in Request, Arrive(p) PROVE req'[q] = req[q]
  BY <1>4, <1>5 DEF Arrive, SignIn, CodeSignIn, Asks, Refresh, Logout, AskForLink, OpenLink
<1>6. ASSUME NEW p \in Request, Continue(p), p = q PROVE FALSE
  BY <1>6 DEF Continue, EndAllOnReuse, Reread, Issue, IssueRejected, Revoke, ReplaceLinks,
     MintLink, MintRejected, ConsumeLink, WritePassword, WriteRejected, EndAllOnReset, Abort
<1>7. ASSUME NEW p \in Request, p # q, Continue(p)
      PROVE  req'[q].pc = req[q].pc /\ req'[q].token = req[q].token
  <2>1. CASE EndAllOnReuse(p) \/ EndAllOnReset(p) \/ WritePassword(p)
    BY <1>2, <1>3, <1>7, <2>1
  <2>2. CASE ~EndAllOnReuse(p) /\ ~EndAllOnReset(p) /\ ~WritePassword(p)
    BY <1>7, <2>2 DEF Continue, Finish, Advance, Reread, Issue, IssueRejected, LinkRotation,
       Revoke, ReplaceLinks, MintLink, MintRejected, ConsumeLink, WriteRejected, Abort
  <2>3. QED BY <2>1, <2>2
<1>8. CASE UNCHANGED req
  BY <1>8
<1>9. QED
  BY <1>5, <1>6, <1>7, <1>8
  DEF Next, vars, SetStatus, Remove, TokenExpires, LinkExpires

(* A token belongs to the account of the token it was exchanged for. *)
LEMMA StepSameAccount ==
  ASSUME Typed, SameAccount, [Next]_vars
  PROVE  SameAccount'
<1>1. CASE ~\E q \in Request : Issue(q)
  BY <1>1, IssuedOnlyByIssue DEF SameAccount
<1>2. ASSUME NEW q \in Request, Issue(q) PROVE SameAccount'
  <2>1. PICK t \in Token : /\ holder[t] = None
                           /\ holder' = [holder EXCEPT ![t] = req[q].acct]
                           /\ from' = [from EXCEPT ![t] = req[q].token]
    BY <1>2, IssueSteps
  <2>2. /\ req[q].acct \in Account
        /\ req[q].token # None => holder[req[q].token] = req[q].acct /\ req[q].token \in Token
    BY <1>2 DEF Issue, Typed, TypeOK, Named, Requests
  <2>3. QED BY <2>1, <2>2, NoneFresh DEF SameAccount, Typed, TypeOK
<1>3. QED BY <1>1, <1>2

(* Every step of a system without failures keeps RotatedIsRetired. *)
LEMMA StepRetires ==
  ASSUME Typed, SameAccount, RotatedIsRetired, Failures = FALSE, [Next]_vars
  PROVE  RotatedIsRetired'
<1> SUFFICES ASSUME NEW t \in Token, Live(t)', from'[t] # None
             PROVE  \/ from'[t] \in revoked'
                    \/ \E q \in Request : req'[q].pc = "linking" /\ req'[q].token = from'[t]
  BY DEF RotatedIsRetired
<1>1. ASSUME NEW q \in Request, Issue(q), holder[t] = None
      PROVE  \E p \in Request : req'[p].pc = "linking" /\ req'[p].token = from'[t]
  <2>1. PICK u \in Token :
          /\ holder' = [holder EXCEPT ![u] = req[q].acct]
          /\ from' = [from EXCEPT ![u] = req[q].token]
          /\ \/ req[q].token = None /\ req'[q] = Idle
             \/ /\ req[q].token # None /\ req'[q].pc = "linking"
                /\ req'[q].token = req[q].token
    BY <1>1, IssueSteps
  <2>2. u = t
    BY <1>1, <2>1 DEF Live, HasRow, Typed, TypeOK
  <2>3. QED BY <2>1, <2>2 DEF Typed, TypeOK
<1>2. ASSUME holder[t] # None, holder'[t] = holder[t], from'[t] = from[t]
      PROVE  \/ from'[t] \in revoked'
             \/ \E q \in Request : req'[q].pc = "linking" /\ req'[q].token = from'[t]
  <2>1. holder[t] \in Account /\ Exists(holder[t]) /\ Live(t)
    BY <1>2, AbsentForGood, RevokedForGood DEF Live, HasRow, Exists, Typed, TypeOK
  <2>2. CASE from[t] \in revoked
    BY <1>2, <2>2, RevokedForGood
  <2>3. ASSUME NEW q \in Request, req[q].pc = "linking", req[q].token = from[t]
        PROVE  \/ from'[t] \in revoked'
               \/ \E p \in Request : req'[p].pc = "linking" /\ req'[p].token = from'[t]
    <3>1. CASE LinkRotation(q)
      <4>1. HasRow(req[q].token)
        BY <1>2, <2>1, <2>3 DEF HasRow, SameAccount
      <4>2. QED BY <1>2, <2>3, <3>1, <4>1 DEF LinkRotation
    <3>2. CASE ~LinkRotation(q)
      BY <1>2, <2>3, <3>2, LinkingLasts
    <3>3. QED BY <3>1, <3>2
  <2>4. QED BY <1>2, <2>1, <2>2, <2>3 DEF RotatedIsRetired
<1>3. CASE \E q \in Request : Issue(q)
  <2>1. PICK q \in Request : Issue(q)
    BY <1>3
  <2>2. PICK u \in Token :
          /\ holder[u] = None
          /\ holder' = [holder EXCEPT ![u] = req[q].acct]
          /\ from' = [from EXCEPT ![u] = req[q].token]
    BY <2>1, IssueSteps
  <2>3. CASE holder[t] = None
    BY <1>1, <2>1, <2>3
  <2>4. CASE holder[t] # None
    BY <1>2, <2>2, <2>4 DEF Typed, TypeOK
  <2>5. QED BY <2>3, <2>4
<1>4. CASE ~\E q \in Request : Issue(q)
  <2>1. holder' = holder /\ from' = from
    BY <1>4, IssuedOnlyByIssue
  <2>2. holder[t] # None
    BY <2>1 DEF Live, HasRow
  <2>3. QED BY <1>2, <2>1, <2>2
<1>5. QED BY <1>3, <1>4

(* While statements do not fail, a token that was exchanged for a live one  *)
(* is revoked, or its exchange is about to revoke it: markRotated is never *)
(* lost, however many refreshes, sign-outs, resets and removals overlap.   *)
THEOREM RotationRetires ==
  ASSUME Failures = FALSE
  PROVE  Spec => []RotatedIsRetired
<1> DEFINE Inv == Typed /\ SameAccount /\ RotatedIsRetired
<1>1. Init => Inv
  BY InitTyped
<1>2. Inv /\ [Next]_vars => Inv'
  BY StepTyped, StepSameAccount, StepRetires
<1>3. Inv => RotatedIsRetired
  OBVIOUS
<1>4. QED BY <1>1, <1>2, <1>3, PTL DEF Spec

(* A request that takes no step keeps its place and what it acts on. *)
LEMMA Bystander ==
  ASSUME Typed, [Next]_vars, NEW q \in Request, ~Arrive(q), ~Continue(q)
  PROVE  /\ req'[q].pc = req[q].pc /\ req'[q].acct = req[q].acct
         /\ req'[q].token = req[q].token /\ req'[q].link = req[q].link
<1>1. ASSUME NEW p \in Request, p # q, Arrive(p) PROVE req'[q] = req[q]
  BY <1>1 DEF Arrive, SignIn, CodeSignIn, Asks, Refresh, Logout, AskForLink, OpenLink, Typed, TypeOK
<1>2. ASSUME NEW p \in Request, p # q, NEW a, NEW cause \in Cause, NEW then \in Requests,
             Mark(a, cause, p, then)
      PROVE  /\ req'[q].pc = req[q].pc /\ req'[q].acct = req[q].acct
             /\ req'[q].token = req[q].token /\ req'[q].link = req[q].link
  BY <1>2, MarkSteps
<1>3. ASSUME NEW p \in Request, p # q, Continue(p)
      PROVE  /\ req'[q].pc = req[q].pc /\ req'[q].acct = req[q].acct
             /\ req'[q].token = req[q].token /\ req'[q].link = req[q].link
  <2>1. CASE EndAllOnReuse(p)
    BY <1>2, <1>3, <2>1, IdleTyped DEF EndAllOnReuse, Cause
  <2>2. CASE EndAllOnReset(p)
    BY <1>2, <1>3, <2>2, IdleTyped DEF EndAllOnReset, Cause
  <2>3. CASE WritePassword(p) /\ req[p].for = "reset"
    <3>1. [req[p] EXCEPT !.pc = "revoking"] \in Requests
      BY DEF Typed, TypeOK, Requests, Phase
    <3>2. QED BY <1>2, <1>3, <2>3, <3>1 DEF WritePassword, Cause
  <2>4. CASE WritePassword(p) /\ req[p].for # "reset"
    BY <1>3, <2>4 DEF WritePassword, Advance, Typed, TypeOK
  <2>5. CASE ~EndAllOnReuse(p) /\ ~EndAllOnReset(p) /\ ~WritePassword(p)
    BY <1>3, <2>5 DEF Continue, Finish, Advance, Reread, Issue, IssueRejected, LinkRotation,
       Revoke, ReplaceLinks, MintLink, MintRejected, ConsumeLink, WriteRejected, Abort, Typed, TypeOK
  <2>6. QED BY <2>1, <2>2, <2>3, <2>4, <2>5
<1>4. CASE UNCHANGED req
  BY <1>4
<1>5. QED
  BY <1>1, <1>3, <1>4
  DEF Next, vars, SetStatus, Remove, TokenExpires, LinkExpires

(* A handler keeps the token it was given until it is done. *)
LEMMA SameToken ==
  ASSUME Typed, NEW q \in Request, Continue(q)
  PROVE  /\ req'[q] = Idle \/ req'[q].token = req[q].token
         /\ req[q].pc # "idle"
         /\ req'[q].pc \in {"idle", "issuing", "linking", "minting", "writing", "revoking"}
         /\ req'[q].pc = "linking" => Issue(q)
         /\ req[q].pc = "linking" => LinkRotation(q) \/ Abort(q)
<1>1. ASSUME Finish(q) PROVE req'[q] = Idle
  BY <1>1 DEF Finish, Typed, TypeOK
<1>2. ASSUME NEW pc \in {"issuing", "minting", "writing"}, Advance(q, pc)
      PROVE  req'[q].token = req[q].token /\ req'[q].pc = pc
  BY <1>2, AdvanceTyped DEF Phase
<1>3. CASE Issue(q)
  <2>1. req[q].pc = "issuing"
    BY <1>3 DEF Issue
  <2>2. req'[q] = Idle \/ (req'[q].pc = "linking" /\ req'[q].token = req[q].token)
    BY <1>3, IssueSteps
  <2>3. QED BY <1>3, <2>1, <2>2 DEF Idle
<1>4. CASE EndAllOnReuse(q) \/ EndAllOnReset(q)
  <2>1. req[q].pc \in {"reusing", "revoking"}
    BY <1>4 DEF EndAllOnReuse, EndAllOnReset
  <2>2. req'[q] = Idle
    BY <1>4 DEF EndAllOnReuse, EndAllOnReset, Mark
  <2>3. QED BY <2>1, <2>2 DEF Idle
<1>5. CASE WritePassword(q)
  <2>1. CASE req[q].for = "reset"
    BY <1>5, <2>1 DEF WritePassword, Mark, Typed, TypeOK, Requests
  <2>2. CASE req[q].for # "reset"
    BY <1>2, <1>5, <2>2 DEF WritePassword
  <2>3. QED BY <2>1, <2>2
<1>6. CASE ~Issue(q) /\ ~EndAllOnReuse(q) /\ ~EndAllOnReset(q) /\ ~WritePassword(q)
  BY <1>1, <1>2, <1>6 DEF Continue, Reread, IssueRejected, LinkRotation, Revoke, ReplaceLinks,
     MintLink, MintRejected, ConsumeLink, WriteRejected, Abort, Idle
<1>7. QED BY <1>3, <1>4, <1>5, <1>6

-----------------------------------------------------------------------------
(* Requests that do not share a token exchange it once.  Two requests never *)
(* hold one token; a token that was exchanged is revoked, gone with its     *)
(* account, or held by the request that is about to revoke it; and a request *)
(* that holds a token it accepted is the first to exchange it.              *)
Unshared ==
  \A p, q \in Request : req[p].token # None /\ req[p].token = req[q].token => p = q

Exchanged ==
  \A u \in Token : from[u] # None =>
    \/ from[u] \in revoked
    \/ ~HasRow(from[u])
    \/ \E q \in Request : req[q].pc = "linking" /\ req[q].token = from[u]

FirstExchange ==
  \A q \in Request : req[q].token # None /\ req[q].pc \notin {"reusing", "linking"} =>
    \A u \in Token : from[u] # req[q].token

(* A request that arrives with a token found it live, or found it reused,  *)
(* and no other request holds it.                                          *)
LEMMA ArriveToken ==
  ASSUME Typed, SharedTokens = FALSE, NEW q \in Request, Arrive(q)
  PROVE  /\ \A p \in Request \ {q} : req'[p] = req[p]
         /\ req'[q].token # None =>
              /\ req'[q].token \in Token
              /\ \A p \in Request : req[p].token # req'[q].token
              /\ req'[q].pc # "reusing" => Live(req'[q].token)
<1> USE DEF Typed, TypeOK
<1>1. ASSUME NEW a \in Account, SignIn(q, a) \/ \E for \in Purpose : AskForLink(q, a, for)
      PROVE  req'[q].token = None /\ \A p \in Request \ {q} : req'[p] = req[p]
  BY <1>1 DEF SignIn, Asks, AskForLink, Idle
<1>2. ASSUME NEW a \in Portal, CodeSignIn(q, a)
      PROVE  req'[q].token = None /\ \A p \in Request \ {q} : req'[p] = req[p]
  BY <1>2 DEF CodeSignIn, Asks, Idle
<1>3. ASSUME NEW l \in Link, OpenLink(q, l)
      PROVE  req'[q].token = None /\ \A p \in Request \ {q} : req'[p] = req[p]
  BY <1>3 DEF OpenLink, Idle
<1>4. ASSUME NEW t \in Token, Refresh(q, t)
      PROVE  /\ req'[q].token = t /\ \A p \in Request \ {q} : req'[p] = req[p]
             /\ \A p \in Request : req[p].token # t
             /\ req'[q].pc # "reusing" => Live(t)
  BY <1>4 DEF Refresh, Live, Idle
<1>5. ASSUME NEW t \in Token, Logout(q, t)
      PROVE  /\ req'[q].token = t /\ \A p \in Request \ {q} : req'[p] = req[p]
             /\ \A p \in Request : req[p].token # t
             /\ Live(t)
  BY <1>5 DEF Logout, Idle
<1>6. QED BY <1>1, <1>2, <1>3, <1>4, <1>5 DEF Arrive

(* Only an arriving request takes a token up, and then no other holds it. *)
LEMMA UnsharedStep ==
  ASSUME Typed, Unshared, SharedTokens = FALSE, [Next]_vars
  PROVE  Unshared'
<1>1. ASSUME NEW q \in Request, Arrive(q)
      PROVE  /\ req'[q].token = None \/ \A p \in Request : req[p].token # req'[q].token
             /\ \A p \in Request \ {q} : req'[p] = req[p]
  BY <1>1, ArriveToken
<1>2. ASSUME NEW q \in Request
      PROVE  \/ req'[q].token = req[q].token
             \/ req'[q].token = None
             \/ Arrive(q)
  BY Bystander, SameToken DEF Idle
<1>3. CASE \E q \in Request : Arrive(q)
  BY <1>1, <1>3 DEF Unshared
<1>4. CASE ~\E q \in Request : Arrive(q)
  BY <1>2, <1>4 DEF Unshared
<1>5. QED BY <1>3, <1>4

(* A token that has no row has none for good. *)
LEMMA GoneForGood ==
  ASSUME Typed, [Next]_vars, NEW t \in Token, holder[t] # None
  PROVE  holder'[t] = holder[t] /\ (~HasRow(t) => ~HasRow(t)')
<1>1. holder'[t] = holder[t]
  <2>1. CASE \E q \in Request : Issue(q)
    BY <2>1, IssueSteps DEF Typed, TypeOK
  <2>2. CASE ~\E q \in Request : Issue(q)
    BY <2>2, IssuedOnlyByIssue
  <2>3. QED BY <2>1, <2>2
<1>2. holder[t] \in Account
  BY DEF Typed, TypeOK
<1>3. QED BY <1>1, <1>2, AbsentForGood DEF HasRow, Exists

(* What the predecessor of a token may be after a step. *)
LEMMA PredecessorStep ==
  ASSUME Typed, [Next]_vars, NEW u \in Token
  PROVE  \/ from'[u] = from[u]
         \/ \E q \in Request : /\ Issue(q)
                               /\ from'[u] = req[q].token
                               /\ \A v \in Token \ {u} : from'[v] = from[v]
<1>1. CASE \E q \in Request : Issue(q)
  BY <1>1, IssueSteps DEF Typed, TypeOK
<1>2. CASE ~\E q \in Request : Issue(q)
  BY <1>2, IssuedOnlyByIssue
<1>3. QED BY <1>1, <1>2

(* linkRotation revokes the token, or its account is gone. *)
LEMMA ExchangedStep ==
  ASSUME Typed, SameAccount, Exchanged, Failures = FALSE, [Next]_vars
  PROVE  Exchanged'
<1> SUFFICES ASSUME NEW u \in Token, from'[u] # None
             PROVE  \/ from'[u] \in revoked'
                    \/ ~HasRow(from[u])'
                    \/ \E q \in Request : req'[q].pc = "linking" /\ req'[q].token = from'[u]
  BY DEF Exchanged
<1>1. CASE from'[u] = from[u]
  <2>1. from[u] \in Token /\ holder[from[u]] # None
    BY <1>1 DEF Typed, TypeOK, SameAccount
  <2>2. CASE from[u] \in revoked
    BY <1>1, <2>2, RevokedForGood
  <2>3. CASE ~HasRow(from[u])
    BY <1>1, <2>1, <2>3, GoneForGood
  <2>4. ASSUME NEW q \in Request, req[q].pc = "linking", req[q].token = from[u], HasRow(from[u])
        PROVE  \/ from[u] \in revoked'
               \/ \E p \in Request : req'[p].pc = "linking" /\ req'[p].token = from[u]
    <3>1. CASE LinkRotation(q)
      BY <2>4, <3>1 DEF LinkRotation
    <3>2. CASE ~LinkRotation(q)
      BY <2>4, <3>2, LinkingLasts
    <3>3. QED BY <3>1, <3>2
  <2>5. QED BY <1>1, <2>2, <2>3, <2>4 DEF Exchanged
<1>2. CASE from'[u] # from[u]
  <2>1. PICK q \in Request : Issue(q) /\ from'[u] = req[q].token
    BY <1>2, PredecessorStep
  <2>2. req'[q].pc = "linking" /\ req'[q].token = req[q].token
    BY <2>1, IssueSteps
  <2>3. QED BY <2>1, <2>2
<1>3. QED BY <1>1, <1>2

(* A token that a request takes up has not been exchanged: consumeRefresh-  *)
(* Token found it live, and nobody else holds it.                          *)
LEMMA FirstExchangeStep ==
  ASSUME Typed, Unshared, Exchanged, FirstExchange, SharedTokens = FALSE, [Next]_vars
  PROVE  FirstExchange'
<1> SUFFICES ASSUME NEW q \in Request, req'[q].token # None,
                    req'[q].pc \notin {"reusing", "linking"},
                    NEW u \in Token, from'[u] = req'[q].token
             PROVE  FALSE
  BY DEF FirstExchange
<1>1. CASE Arrive(q)
  <2>1. req'[q].token \in Token /\ Live(req'[q].token)
          /\ \A p \in Request : req[p].token # req'[q].token
    BY <1>1, ArriveToken
  <2>2. from'[u] = from[u]
    BY <1>1 DEF Arrive, SignIn, CodeSignIn, Asks, Refresh, Logout, AskForLink, OpenLink, tokens
  <2>3. QED BY <2>1, <2>2 DEF Exchanged, Live
<1>2. CASE ~Arrive(q)
  <2>1. /\ req'[q].token = req[q].token
        /\ req[q].pc \notin {"reusing", "linking"}
        /\ ~Issue(q)
    <3>1. CASE Continue(q)
      <4>1. req'[q] # Idle
        BY DEF Idle
      <4>2. req[q].pc # "reusing"
        BY <3>1, <4>1 DEF Continue, EndAllOnReuse, Mark, Reread, Issue, IssueRejected, LinkRotation,
           Revoke, ReplaceLinks, MintLink, MintRejected, ConsumeLink, WritePassword, WriteRejected,
           EndAllOnReset, Abort, Finish, Typed, TypeOK
      <4>3. ~LinkRotation(q) /\ ~Abort(q)
        BY <4>1 DEF LinkRotation, Abort, Finish, Typed, TypeOK
      <4>4. ~Issue(q)
        BY <4>1, IssueSteps
      <4>5. QED BY <3>1, <4>1, <4>2, <4>3, <4>4, SameToken
    <3>2. CASE ~Continue(q)
      BY <1>2, <3>2, Bystander DEF Continue
    <3>3. QED BY <3>1, <3>2
  <2>2. CASE from'[u] = from[u]
    BY <2>1, <2>2 DEF FirstExchange
  <2>3. CASE from'[u] # from[u]
    <3>1. PICK p \in Request : Issue(p) /\ from'[u] = req[p].token
      BY <2>3, PredecessorStep
    <3>2. QED BY <2>1, <3>1 DEF Unshared
  <2>4. QED BY <2>2, <2>3
<1>3. QED BY <1>1, <1>2

(* Only the first exchange of a token gives it a successor. *)
LEMMA OneSuccessorStep ==
  ASSUME Typed, FirstExchange, OneSuccessor, [Next]_vars
  PROVE  OneSuccessor'
<1> SUFFICES ASSUME NEW t \in Token, NEW u \in Token, t # u,
                    from'[t] # None, from'[t] = from'[u]
             PROVE  FALSE
  BY DEF OneSuccessor
<1>1. CASE from'[t] = from[t] /\ from'[u] = from[u]
  BY <1>1 DEF OneSuccessor
<1>2. ASSUME NEW v \in Token, NEW w \in Token, v # w, from'[v] # None, from'[v] # from[v],
             from'[v] = from'[w]
      PROVE  FALSE
  <2>1. PICK q \in Request : Issue(q) /\ from'[v] = req[q].token /\ from'[w] = from[w]
    BY <1>2, PredecessorStep
  <2>2. QED BY <1>2, <2>1 DEF FirstExchange, Issue
<1>3. QED BY <1>1, <1>2

(* As long as no statement fails and no token is presented by two requests  *)
(* at once, every token is exchanged at most once and is then retired,     *)
(* however many refreshes, sign-outs, resets and removals overlap.         *)
THEOREM TokensExchangedOnce ==
  ASSUME Failures = FALSE, SharedTokens = FALSE
  PROVE  Spec => []ExchangedOnce
<1> DEFINE Inv == /\ Typed /\ SameAccount /\ RotatedIsRetired
                  /\ Unshared /\ Exchanged /\ FirstExchange /\ OneSuccessor
<1>1. Init => Inv
  BY InitTyped DEF Init, Idle, Unshared, Exchanged, FirstExchange, OneSuccessor
<1>2. Inv /\ [Next]_vars => Inv'
  BY StepTyped, StepSameAccount, StepRetires, UnsharedStep, ExchangedStep, FirstExchangeStep,
     OneSuccessorStep
<1>3. Inv => ExchangedOnce
  BY DEF ExchangedOnce
<1>4. QED BY <1>1, <1>2, <1>3, PTL DEF Spec

-----------------------------------------------------------------------------
(* One request at a time: while a handler runs, nothing else does but time  *)
(* and an administrator.                                                   *)
Alone == \A p, q \in Request : p = q

(* What a request is when it arrives: it will not spend a consumed link, and *)
(* the session it may create is one that nobody ended.                     *)
LEMMA ArriveRecord ==
  ASSUME Typed, NEW q \in Request, Arrive(q)
  PROVE  /\ req'[q].pc \in {"issuing", "reusing", "rereading", "leaving", "replacing", "spending"}
         /\ req'[q].pc = "spending" => req'[q].link \notin consumed
         /\ \/ req'[q].pc = "reusing"
            \/ req'[q].ended = {}
            \/ \E t \in Token : Live(t) /\ req'[q].ended = ended[t]
<1> USE DEF Typed, TypeOK
<1>1. ASSUME NEW a, NEW pc, Asks(q, pc, a) PROVE req'[q].pc = pc /\ req'[q].ended = {}
  BY <1>1 DEF Asks, Idle
<1>2. ASSUME NEW t \in Token, Refresh(q, t)
      PROVE  \/ req'[q].pc = "reusing"
             \/ (req'[q].pc = "rereading" /\ Live(t) /\ req'[q].ended = ended[t])
  BY <1>2 DEF Refresh, Live, Idle
<1>3. ASSUME NEW t \in Token, Logout(q, t) PROVE req'[q].pc = "leaving" /\ req'[q].ended = {}
  BY <1>3 DEF Logout, Idle
<1>4. ASSUME NEW a \in Account, NEW for \in Purpose, AskForLink(q, a, for)
      PROVE  req'[q].pc = "replacing" /\ req'[q].ended = {}
  BY <1>4 DEF AskForLink, Idle
<1>5. ASSUME NEW l \in Link, OpenLink(q, l)
      PROVE  req'[q].pc = "spending" /\ req'[q].ended = {} /\ req'[q].link \notin consumed
  BY <1>5 DEF OpenLink, LinkLive, Idle
<1>6. QED BY <1>1, <1>2, <1>3, <1>4, <1>5 DEF Arrive, SignIn, CodeSignIn

(* No live session, and none that a request is about to create, is one that *)
(* a reset or the reuse of a token has ended.                              *)
Unended(causes) == causes \cap {"reset", "reuse"} = {}
UnendedWork ==
  /\ \A t \in Token : Live(t) => Unended(ended[t])
  /\ \A q \in Request : req[q].pc # "reusing" => Unended(req[q].ended)

(* While at most one request is in flight, what a handler does to ended.    *)
LEMMA AloneEnds ==
  ASSUME Typed, Alone, NEW q \in Request, NEW cause \in Cause, NEW then \in Requests,
         Mark(req[q].acct, cause, q, then)
  PROVE  /\ \A p \in Request : req'[p] = then
         /\ \A t \in Token : ended'[t] = IF holder[t] = req[q].acct THEN Ends(ended[t], cause)
                                         ELSE ended[t]
  BY DEF Mark, Alone

(* A statement that ends the sessions of an account leaves none of them live. *)
LEMMA EndAllStep ==
  ASSUME Typed, Alone, UnendedWork, NEW q \in Request, EndAllOnReuse(q) \/ EndAllOnReset(q)
  PROVE  UnendedWork'
<1>1. /\ \E cause \in {"reuse", "reset"} : Mark(req[q].acct, cause, q, Idle)
      /\ revoked' = revoked \cup SessionsOf(req[q].acct)
      /\ holder' = holder /\ status' = status
  BY DEF EndAllOnReuse, EndAllOnReset, accounts
<1>2. PICK cause \in Cause : Mark(req[q].acct, cause, q, Idle)
  BY <1>1 DEF Cause
<1>3. /\ \A p \in Request : req'[p] = Idle
      /\ \A t \in Token : holder[t] # req[q].acct => ended'[t] = ended[t]
  BY <1>2, AloneEnds, IdleTyped
<1>4. \A t \in Token : Live(t)' => Live(t) /\ holder[t] # req[q].acct
  BY <1>1 DEF Live, HasRow, Exists, SessionsOf
<1>5. QED BY <1>3, <1>4 DEF UnendedWork, Unended, Idle

(* Whatever else happens, a session is live only if it was, or was just     *)
(* created by a request that nobody ended.                                 *)
LEMMA UnendedStep ==
  ASSUME Typed, Alone, UnendedWork, [Next]_vars
  PROVE  UnendedWork'
<1>1. ASSUME NEW t \in Token, Live(t)', holder[t] # None PROVE Live(t)
  BY <1>1, GoneForGood, RevokedForGood DEF Live
<1>2. ASSUME UNCHANGED <<holder, ended>>,
             \A q \in Request : \/ req'[q].pc = "reusing" \/ Unended(req'[q].ended)
      PROVE  UnendedWork'
  BY <1>1, <1>2 DEF UnendedWork, Live, HasRow
<1>3. ASSUME NEW q \in Request, Arrive(q) PROVE UnendedWork'
  <2>1. UNCHANGED <<holder, ended>> /\ Unended({})
    BY <1>3 DEF Arrive, SignIn, CodeSignIn, Refresh, Logout, AskForLink, OpenLink, tokens, Unended
  <2>2. req'[q].pc = "reusing" \/ Unended(req'[q].ended)
    BY <1>3, <2>1, ArriveRecord DEF UnendedWork
  <2>3. QED BY <1>2, <2>1, <2>2 DEF Alone
<1>4. ASSUME NEW q \in Request, Issue(q) PROVE UnendedWork'
  <2>1. PICK t \in Token :
          /\ holder[t] = None
          /\ holder' = [holder EXCEPT ![t] = req[q].acct]
          /\ ended' = [ended EXCEPT ![t] = req[q].ended]
    BY <1>4, IssueSteps
  <2>2. Unended(req'[q].ended) /\ Unended(req[q].ended)
    BY <1>4 DEF Issue, UnendedWork, Finish, Idle, Unended, Typed, TypeOK, Requests
  <2>3. \A u \in Token : Live(u)' => u = t \/ holder[u] # None
    BY <2>1 DEF Live, HasRow, Typed, TypeOK
  <2>4. \A u \in Token : Live(u)' => Unended(ended'[u])
    BY <1>1, <2>1, <2>2, <2>3 DEF UnendedWork, Typed, TypeOK
  <2>5. QED BY <2>2, <2>4 DEF UnendedWork, Alone
<1>5. ASSUME NEW q \in Request, WritePassword(q) PROVE UnendedWork'
  <2>1. Unended(req[q].ended) /\ holder' = holder
    BY <1>5 DEF WritePassword, UnendedWork
  <2>2. CASE req[q].for = "reset"
    <3>1. Mark(req[q].acct, "resetting", q, [req[q] EXCEPT !.pc = "revoking"])
      BY <1>5, <2>2 DEF WritePassword
    <3>2. [req[q] EXCEPT !.pc = "revoking"] \in Requests
            /\ [req[q] EXCEPT !.pc = "revoking"].ended = req[q].ended
      BY DEF Typed, TypeOK, Requests, Phase
    <3>3. /\ \A p \in Request : req'[p] = [req[q] EXCEPT !.pc = "revoking"]
          /\ \A t \in Token : ended'[t] \subseteq ended[t] \cup {"resetting"}
      BY <3>1, <3>2, AloneEnds DEF Cause, Ends
    <3>4. \A t \in Token : Unended(ended[t]) => Unended(ended'[t])
      BY <3>3 DEF Unended
    <3>5. \A t \in Token : Live(t)' => Live(t)
      BY <1>1, <2>1 DEF Live, HasRow
    <3>6. QED BY <2>1, <3>2, <3>3, <3>4, <3>5 DEF UnendedWork
  <2>3. CASE req[q].for # "reset"
    <3>1. ended' = ended /\ req'[q].ended = req[q].ended
      BY <1>5, <2>3 DEF WritePassword, Advance, Typed, TypeOK, Requests
    <3>2. QED BY <1>2, <2>1, <3>1 DEF Alone
  <2>4. QED BY <2>2, <2>3
<1>6. ASSUME NEW q \in Request, Continue(q), ~EndAllOnReuse(q), ~EndAllOnReset(q), ~Issue(q),
             ~WritePassword(q)
      PROVE  UnendedWork'
  <2>1. UNCHANGED <<holder, ended>>
    BY <1>6 DEF Continue, Reread, IssueRejected, LinkRotation,
       Revoke, ReplaceLinks, MintLink, MintRejected, ConsumeLink, WriteRejected, Abort, tokens
  <2>2. \/ Finish(q)
        \/ /\ req[q].pc # "reusing"
           /\ \E pc \in {"issuing", "minting", "writing"} : Advance(q, pc)
    BY <1>6 DEF Continue, Reread, IssueRejected, LinkRotation,
       Revoke, ReplaceLinks, MintLink, MintRejected, ConsumeLink, WriteRejected, Abort
  <2>3. Unended(req'[q].ended)
    <3>1. CASE Finish(q)
      BY <3>1 DEF Finish, Idle, Unended, Typed, TypeOK
    <3>2. CASE req[q].pc # "reusing" /\ \E pc \in {"issuing", "minting", "writing"} : Advance(q, pc)
      BY <3>2 DEF Advance, UnendedWork, Typed, TypeOK, Requests
    <3>3. QED BY <2>2, <3>1, <3>2
  <2>4. QED BY <1>2, <2>1, <2>3 DEF Alone
<1>7. CASE UNCHANGED <<holder, ended, req>>
  BY <1>2, <1>7 DEF UnendedWork
<1>8. QED
  BY <1>3, <1>4, <1>5, <1>6, <1>7, EndAllStep
  DEF Next, Continue, vars, SetStatus, Remove, TokenExpires, LinkExpires, tokens

(* With one request at a time, whatever fails in it: once a reset is done,  *)
(* or a revoked token was presented again, no session it ends is live.     *)
THEOREM EndedSessionsStayEnded ==
  ASSUME Alone
  PROVE  Spec => []EndedStayEnded
<1>1. Init => Typed /\ UnendedWork
  BY InitTyped DEF Init, Idle, UnendedWork, Unended, Live, HasRow
<1>2. Typed /\ UnendedWork /\ [Next]_vars => (Typed /\ UnendedWork)'
  BY StepTyped, UnendedStep
<1>3. UnendedWork => EndedStayEnded
  BY DEF UnendedWork, Unended, EndedStayEnded, ResetEndsSessions, ReuseEndsSessions
<1>4. QED BY <1>1, <1>2, <1>3, PTL DEF Spec

-----------------------------------------------------------------------------
(* issueLinkToken has consumed the links that its new one replaces. *)
Replaced ==
  \A q \in Request : req[q].pc = "minting" =>
    ~\E l \in Link : /\ LinkLive(l) /\ purpose[l] = req[q].for
                     /\ Email[linkFor[l]] = Email[req[q].acct]

(* Only mintLink makes a link live. *)
LEMMA LinkLiveStep ==
  ASSUME Typed, [Next]_vars, NEW l \in Link, LinkLive(l)'
  PROVE  \/ LinkLive(l) /\ linkFor'[l] = linkFor[l] /\ purpose'[l] = purpose[l]
         \/ \E q \in Request :
              /\ MintLink(q) /\ linkFor[l] = None
              /\ linkFor'[l] = req[q].acct /\ purpose'[l] = req[q].for
              /\ \A m \in Link \ {l} : linkFor'[m] = linkFor[m] /\ purpose'[m] = purpose[m]
              /\ consumed' = consumed /\ status' = status
<1>1. ASSUME NEW q \in Request, MintLink(q)
      PROVE  \/ LinkLive(l) /\ linkFor'[l] = linkFor[l] /\ purpose'[l] = purpose[l]
             \/ /\ linkFor[l] = None
                /\ linkFor'[l] = req[q].acct /\ purpose'[l] = req[q].for
                /\ \A m \in Link \ {l} : linkFor'[m] = linkFor[m] /\ purpose'[m] = purpose[m]
                /\ consumed' = consumed /\ status' = status
  BY <1>1 DEF MintLink, LinkLive, Exists, accounts, Typed, TypeOK
<1>2. CASE linkFor' = linkFor /\ purpose' = purpose /\ consumed \subseteq consumed'
  <2>1. linkFor[l] \in Account /\ Exists(linkFor[l])' /\ l \notin consumed
    BY <1>2 DEF LinkLive, Exists, Typed, TypeOK
  <2>2. Exists(linkFor[l])
    BY <1>2, <2>1, AbsentForGood DEF Exists
  <2>3. QED BY <1>2, <2>1, <2>2, NoneFresh DEF LinkLive
<1>3. QED
  BY <1>1, <1>2 DEF Next, Arrive, Continue, vars, accounts, tokens, links, SignIn, CodeSignIn,
     Refresh, Logout, AskForLink, OpenLink, EndAllOnReuse, Reread, Issue, IssueRejected,
     LinkRotation, Revoke, ReplaceLinks, MintRejected, ConsumeLink, WritePassword,
     WriteRejected, EndAllOnReset, Abort, SetStatus, Remove, TokenExpires, LinkExpires

(* Between the two statements of issueLinkToken no other link appears. *)
LEMMA ReplacedStep ==
  ASSUME Typed, Alone, Replaced, [Next]_vars
  PROVE  Replaced'
<1> SUFFICES ASSUME NEW q \in Request, req'[q].pc = "minting", NEW l \in Link, LinkLive(l)',
                    purpose'[l] = req'[q].for, Email[linkFor'[l]] = Email[req'[q].acct]
             PROVE  FALSE
  BY DEF Replaced
<1>1. CASE ReplaceLinks(q)
  <2>1. /\ req'[q].for = req[q].for /\ req'[q].acct = req[q].acct
        /\ linkFor' = linkFor /\ purpose' = purpose /\ status' = status
    BY <1>1 DEF ReplaceLinks, Advance, accounts, Typed, TypeOK, Requests
  <2>2. QED BY <1>1, <2>1 DEF ReplaceLinks, LinkLive, Exists
<1>2. CASE ~ReplaceLinks(q)
  <2>1. ~Arrive(q)
    BY ArriveRecord
  <2>2. ASSUME Continue(q) PROVE FALSE
    <3>1. ~Finish(q) /\ \A pc \in {"issuing", "writing"} : ~Advance(q, pc)
      BY FinishTyped, AdvanceTyped DEF Idle, Phase
    <3>2. ~Issue(q)
      BY IssueSteps DEF Idle
    <3>3. ~EndAllOnReuse(q) /\ ~EndAllOnReset(q)
      BY DEF EndAllOnReuse, EndAllOnReset, Mark, Idle
    <3>4. ~WritePassword(q)
      <4>1. CASE req[q].for = "reset"
        BY <4>1 DEF WritePassword, Mark, Typed, TypeOK, Requests
      <4>2. CASE req[q].for # "reset"
        BY <3>1, <4>2 DEF WritePassword
      <4>3. QED BY <4>1, <4>2
    <3>5. QED
      BY <1>2, <2>2, <3>1, <3>2, <3>3, <3>4 DEF Continue, Reread, IssueRejected, LinkRotation,
         Revoke, MintLink, MintRejected, ConsumeLink, WriteRejected, Abort
  <2>3. req' = req
    BY <2>1, <2>2 DEF Alone, Next, vars, SetStatus, Remove, TokenExpires, LinkExpires
  <2>4. ASSUME NEW p \in Request, MintLink(p) PROVE FALSE
    BY <2>2, <2>4 DEF Alone, Continue
  <2>5. LinkLive(l) /\ linkFor'[l] = linkFor[l] /\ purpose'[l] = purpose[l]
    BY <2>4, LinkLiveStep
  <2>6. QED BY <2>3, <2>5 DEF Replaced
<1>3. QED BY <1>1, <1>2

(* A new link is alone, because those before it are consumed. *)
LEMMA NewestStep ==
  ASSUME Typed, Replaced, OnlyNewestLink, [Next]_vars
  PROVE  OnlyNewestLink'
<1> SUFFICES ASSUME NEW l \in Link, NEW m \in Link, l # m, LinkLive(l)', LinkLive(m)',
                    purpose'[l] = purpose'[m], Email[linkFor'[l]] = Email[linkFor'[m]]
             PROVE  FALSE
  BY DEF OnlyNewestLink
<1>1. ASSUME NEW i \in Link, NEW j \in Link, i # j, LinkLive(i)', LinkLive(j)',
             purpose'[i] = purpose'[j], Email[linkFor'[i]] = Email[linkFor'[j]],
             ~LinkLive(i)
      PROVE  FALSE
  <2>1. PICK q \in Request :
          /\ MintLink(q) /\ linkFor[i] = None
          /\ linkFor'[i] = req[q].acct /\ purpose'[i] = req[q].for
          /\ linkFor'[j] = linkFor[j] /\ purpose'[j] = purpose[j]
          /\ consumed' = consumed /\ status' = status
    BY <1>1, LinkLiveStep
  <2>2. LinkLive(j)
    BY <1>1, <2>1 DEF LinkLive, Exists
  <2>3. QED BY <1>1, <2>1, <2>2 DEF Replaced, MintLink
<1>2. CASE LinkLive(l) /\ LinkLive(m)
  <2>1. linkFor[l] # None /\ linkFor[m] # None
    BY <1>2 DEF LinkLive
  <2>2. \A i \in {l, m} : linkFor'[i] = linkFor[i] /\ purpose'[i] = purpose[i]
    BY <2>1, LinkLiveStep
  <2>3. QED BY <1>2, <2>2 DEF OnlyNewestLink
<1>3. QED BY <1>1, <1>2

(* With one request at a time, only the newest link for a purpose is valid, *)
(* even when issueLinkToken fails between its two statements.              *)
THEOREM NewestLinkOnly ==
  ASSUME Alone
  PROVE  Spec => []OnlyNewestLink
<1> DEFINE Inv == Typed /\ Replaced /\ OnlyNewestLink
<1>1. Init => Inv
  BY InitTyped DEF Init, Idle, Replaced, OnlyNewestLink, LinkLive
<1>2. Inv /\ [Next]_vars => Inv'
  BY StepTyped, ReplacedStep, NewestStep
<1>3. Inv => OnlyNewestLink
  OBVIOUS
<1>4. QED BY <1>1, <1>2, <1>3, PTL DEF Spec

-----------------------------------------------------------------------------
(* The link that a handler is about to spend has not been spent. *)
Unspent ==
  \A q \in Request : req[q].pc \in {"spending", "writing"} => req[q].link \notin spent

(* No other handler spends it meanwhile. *)
LEMMA UnspentStep ==
  ASSUME Typed, Alone, SpentIsConsumed, Unspent, [Next]_vars
  PROVE  Unspent'
<1> SUFFICES ASSUME NEW q \in Request, req'[q].pc \in {"spending", "writing"}
             PROVE  req'[q].link \notin spent'
  BY DEF Unspent
<1>1. CASE Arrive(q)
  <2>1. spent' = spent
    BY <1>1 DEF Arrive, SignIn, CodeSignIn, Refresh, Logout, AskForLink, OpenLink, links
  <2>2. req'[q].link \notin consumed
    BY <1>1, ArriveRecord
  <2>3. QED BY <2>1, <2>2 DEF SpentIsConsumed
<1>2. CASE ~Arrive(q)
  <2>1. ~WritePassword(q)
    <3>1. CASE req[q].for = "reset"
      BY <3>1 DEF WritePassword, Mark, Typed, TypeOK, Requests
    <3>2. CASE req[q].for # "reset"
      BY <3>2, AdvanceTyped DEF WritePassword, Phase
    <3>3. QED BY <3>1, <3>2
  <2>2. spent' = spent
    BY <1>2, <2>1 DEF Alone, Next, Continue, vars, links,
       EndAllOnReuse, Reread, Issue, IssueRejected, LinkRotation, Revoke, ReplaceLinks, MintLink,
       MintRejected, ConsumeLink, WriteRejected, EndAllOnReset, Abort,
       SetStatus, Remove, TokenExpires, LinkExpires
  <2>3. ASSUME Continue(q) PROVE req[q].pc = "spending" /\ req'[q].link = req[q].link
    <3>1. ~Finish(q) /\ \A pc \in {"issuing", "minting"} : ~Advance(q, pc)
      BY FinishTyped, AdvanceTyped DEF Idle, Phase
    <3>2. ~Issue(q)
      BY IssueSteps DEF Idle
    <3>3. ~EndAllOnReuse(q) /\ ~EndAllOnReset(q)
      BY DEF EndAllOnReuse, EndAllOnReset, Mark, Idle
    <3>4. ConsumeLink(q)
      BY <2>1, <2>3, <3>1, <3>2, <3>3 DEF Continue, Reread, IssueRejected, LinkRotation,
         Revoke, ReplaceLinks, MintLink, MintRejected, WriteRejected, Abort
    <3>5. QED BY <3>1, <3>4, AdvanceTyped DEF ConsumeLink, Phase
  <2>4. CASE Continue(q)
    BY <2>2, <2>3, <2>4 DEF Unspent
  <2>5. CASE ~Continue(q)
    BY <1>2, <2>2, <2>5, Bystander DEF Unspent
  <2>6. QED BY <2>4, <2>5
<1>3. QED BY <1>1, <1>2

(* With one request at a time, a link writes a password once, although it   *)
(* is looked up, consumed and spent in three statements that may fail.     *)
THEOREM LinksSpentOnce ==
  ASSUME Alone
  PROVE  Spec => LinkSpentOnce
<1> DEFINE Once == \A q \in Request :
                     req[q].pc = "writing" /\ req'[q].pc \in {"revoking", "issuing"} =>
                       req[q].link \notin spent
<1>1. Init => Typed /\ SpentIsConsumed /\ Unspent
  BY InitTyped DEF Init, Idle, Unspent
<1>2. Typed /\ SpentIsConsumed /\ Unspent /\ [Next]_vars => Typed' /\ Unspent'
  BY StepTyped, UnspentStep
<1>3. Unspent => [Once]_vars
  BY DEF Unspent
<1>4. QED BY <1>1, <1>2, <1>3, SpentLinksConsumed, PTL DEF Spec, LinkSpentOnce
=============================================================================
