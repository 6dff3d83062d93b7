------------------------------ MODULE Sessions ------------------------------
(***************************************************************************)
(* Sign-ins, refresh tokens and e-mailed links of one active institute, as *)
(* AuthService, TokensService and the link half of OtpService              *)
(* (backend/src/auth) handle them.  A request is one call in flight; no    *)
(* handler opens a transaction, so another request may run at every await: *)
(*                                                                         *)
(*   reusing    refresh found its token revoked, all sessions are to end   *)
(*   rereading  refresh accepted its token, the account is read next       *)
(*   issuing    the sign-in checks passed, the argon2 hash is computed     *)
(*   linking    refresh created the new token, the old one is live still   *)
(*   leaving    logout read its token, the row is updated next             *)
(*   replacing / minting     issueLinkToken's two statements               *)
(*   spending / writing / revoking                                         *)
(*              a link was accepted: consume it, write the password, end   *)
(*              the sessions (a reset) or sign in (an activation)          *)
(*                                                                         *)
(* A refusal that has written nothing leaves no trace and is no step.      *)
(* Passwords, addresses and token values are abstracted to who holds them: *)
(* a client presents any id ever issued.  A row deleted with its account   *)
(* keeps its owner here; HasRow says whether the database still has it.    *)
(* Op_Fault is Op with one fault, to show that a property depends on Op.   *)
(***************************************************************************)
EXTENDS FiniteSets

CONSTANTS
  Staff, Portal,      \* the two kinds of account
  Email,              \* the address of each account, lower-cased
  Token, Link,        \* ids of refresh tokens and links: bound how many are issued
  Request,            \* ids of requests in flight: bounds how many overlap
  SharedTokens,       \* may two requests in flight present one refresh token?
  Failures,           \* may a statement fail, or the process stop, between two writes?
  None

Account == Staff \cup Portal
Status == {"Invited", "Active", "Inactive"}
Purpose == {"activation", "reset"}
Cause == {"resetting", "reset", "reuse"}
Phase == {"idle", "reusing", "rereading", "issuing", "linking", "leaving",
          "replacing", "minting", "spending", "writing", "revoking"}

ASSUME KindsApart == Staff \cap Portal = {}
ASSUME AddressGiven == DOMAIN Email = Account
ASSUME NoneFresh == None \notin Account \cup Token \cup Link \cup Purpose
ASSUME Switches == SharedTokens \in BOOLEAN /\ Failures \in BOOLEAN

VARIABLES
  status,      \* status of each account; "Absent" once its row is deleted
  password,    \* accounts with a passwordHash
  holder,      \* refresh_tokens: the account of each token, None before it is issued
  revoked,     \* tokens whose revokedAt is set
  expired,     \* tokens past expiresAt
  rotatedTo,   \* replacedById
  from,        \* history: the token presented to get this one, None for a sign-in
  ended,       \* history: why the session this token belongs to has been ended
  linkFor,     \* one_time_codes: the account of each link, None before it is issued
  purpose,     \* what the link is for
  consumed,    \* links whose consumedAt is set
  late,        \* links past expiresAt
  spent,       \* history: links a password was written for
  req          \* the requests in flight

accounts == <<status, password>>
tokens == <<holder, revoked, expired, rotatedTo, from, ended>>
links == <<linkFor, purpose, consumed, late, spent>>
vars == <<status, password, holder, revoked, expired, rotatedTo, from, ended,
          linkFor, purpose, consumed, late, spent, req>>

Exists(a) == status[a] # "Absent"
HasRow(t) == holder[t] # None /\ Exists(holder[t])
Live(t) == HasRow(t) /\ t \notin revoked
SessionsOf(a) == {t \in Token : holder[t] = a}
LinkLive(l) == linkFor[l] # None /\ Exists(linkFor[l]) /\ l \notin consumed

Idle == [pc |-> "idle", acct |-> None, token |-> None, next |-> None,
         link |-> None, for |-> None, ended |-> {}]
Asks(q, pc, a) ==
  /\ req[q] = Idle
  /\ req' = [req EXCEPT ![q] = [Idle EXCEPT !.pc = pc, !.acct = a]]
Advance(q, pc) == req' = [req EXCEPT ![q].pc = pc]
Finish(q) == req' = [req EXCEPT ![q] = Idle]

(* Accounts as an administrator and the seed leave them; nobody signed in. *)
Init ==
  /\ status \in [Account -> Status]
  /\ password \in SUBSET {a \in Account : status[a] # "Invited"}
  /\ holder = [t \in Token |-> None] /\ revoked = {} /\ expired = {}
  /\ rotatedTo = [t \in Token |-> None]
  /\ from = [t \in Token |-> None] /\ ended = [t \in Token |-> {}]
  /\ linkFor = [l \in Link |-> None] /\ purpose = [l \in Link |-> None]
  /\ consumed = {} /\ late = {} /\ spent = {}
  /\ req = [q \in Request |-> Idle]

(* staffLogin, studentLogin, parentLogin: password verified, account Active. *)
SignIn(q, a) ==
  /\ status[a] = "Active" /\ a \in password
  /\ Asks(q, "issuing", a)
  /\ UNCHANGED <<accounts, tokens, links>>

(* verifyParentOtp once the code is accepted: it stands for the password,   *)
(* and an invited parent becomes active.                                   *)
CodeSignIn(q, a) ==
  /\ status[a] \in {"Invited", "Active"}
  /\ status' = [status EXCEPT ![a] = "Active"]
  /\ Asks(q, "issuing", a)
  /\ UNCHANGED <<password, tokens, links>>

(* refresh: consumeRefreshToken decides on the row it reads. *)
Refresh(q, t) ==
  /\ HasRow(t)
  /\ SharedTokens \/ \A p \in Request : req[p].token # t
  /\ t \in revoked \/ t \notin expired
  /\ req[q] = Idle
  /\ req' = [req EXCEPT ![q] =
       [Idle EXCEPT !.pc = IF t \in revoked THEN "reusing" ELSE "rereading",
                    !.acct = holder[t], !.token = t, !.ended = ended[t]]]
  /\ UNCHANGED <<accounts, tokens, links>>

(* Every session of the account ends for this cause, those that requests   *)
(* are about to create included; the request itself goes on as `then`.  A  *)
(* reset ends the sessions begun before it wrote the password.             *)
Ends(causes, cause) ==
  IF cause = "reset" /\ "resetting" \notin causes THEN causes ELSE causes \cup {cause}
Mark(a, cause, q, then) ==
  /\ ended' = [t \in Token |-> IF holder[t] = a THEN Ends(ended[t], cause) ELSE ended[t]]
  /\ req' = [p \in Request |-> IF p = q THEN then
                               ELSE IF req[p].acct = a THEN [req[p] EXCEPT !.ended = Ends(@, cause)]
                               ELSE req[p]]

EndAllOnReuse_OneToken(q) ==
  /\ req[q].pc = "reusing"
  /\ revoked' = revoked \cup {rotatedTo[req[q].token]}
  /\ Mark(req[q].acct, "reuse", q, Idle)
  /\ UNCHANGED <<accounts, holder, expired, rotatedTo, from, links>>

EndAllOnReuse(q) ==
  /\ req[q].pc = "reusing"
  /\ revoked' = revoked \cup SessionsOf(req[q].acct)
  /\ Mark(req[q].acct, "reuse", q, Idle)
  /\ UNCHANGED <<accounts, holder, expired, rotatedTo, from, links>>

Reread(q) ==
  /\ req[q].pc = "rereading"
  /\ IF status[req[q].acct] = "Active" THEN Advance(q, "issuing") ELSE Finish(q)
  /\ UNCHANGED <<accounts, tokens, links>>

(* issueRefreshToken; a refresh goes on to retire the token it presented. *)
Issue(q) ==
  LET r == req[q]
  IN /\ r.pc = "issuing"
     /\ Exists(r.acct)
     /\ \E t \in Token :
          /\ holder[t] = None
          /\ holder' = [holder EXCEPT ![t] = r.acct]
          /\ from' = [from EXCEPT ![t] = r.token]
          /\ ended' = [ended EXCEPT ![t] = r.ended]
          /\ IF r.token = None THEN Finish(q)
             ELSE req' = [req EXCEPT ![q].pc = "linking", ![q].next = t]
     /\ UNCHANGED <<accounts, revoked, expired, rotatedTo, links>>

(* The foreign key fails once the account is deleted; or bound: Token is used up. *)
IssueRejected(q) ==
  /\ req[q].pc = "issuing"
  /\ Exists(req[q].acct) => \A t \in Token : holder[t] # None
  /\ Finish(q)
  /\ UNCHANGED <<accounts, tokens, links>>

(* linkRotation: markRotated writes whatever the row says by now. *)
LinkRotation_NotRevoked(q) ==
  LET r == req[q]
  IN /\ r.pc = "linking"
     /\ rotatedTo' = [rotatedTo EXCEPT ![r.token] = r.next]
     /\ Finish(q)
     /\ UNCHANGED <<accounts, holder, revoked, expired, from, ended, links>>

LinkRotation(q) ==
  LET r == req[q]
  IN /\ r.pc = "linking"
     /\ IF HasRow(r.token)
          THEN /\ revoked' = revoked \cup {r.token}
               /\ rotatedTo' = [rotatedTo EXCEPT ![r.token] = r.next]
          ELSE UNCHANGED <<revoked, rotatedTo>>
     /\ Finish(q)
     /\ UNCHANGED <<accounts, holder, expired, from, ended, links>>

(* logout: revoke reads the row, verifies the secret, then updates it. *)
Logout(q, t) ==
  /\ Live(t)
  /\ SharedTokens \/ \A p \in Request : req[p].token # t
  /\ req[q] = Idle
  /\ req' = [req EXCEPT ![q] = [Idle EXCEPT !.pc = "leaving", !.acct = holder[t], !.token = t]]
  /\ UNCHANGED <<accounts, tokens, links>>

Revoke(q) ==
  /\ req[q].pc = "leaving"
  /\ revoked' = revoked \cup {t \in {req[q].token} : HasRow(t)}
  /\ Finish(q)
  /\ UNCHANGED <<accounts, holder, expired, rotatedTo, from, ended, links>>

(* forgotPassword for any account on file, resendInvitation for invited staff. *)
AskForLink(q, a, for) ==
  /\ Exists(a)
  /\ for = "activation" => a \in Staff /\ status[a] = "Invited"
  /\ req[q] = Idle
  /\ req' = [req EXCEPT ![q] = [Idle EXCEPT !.pc = "replacing", !.acct = a, !.for = for]]
  /\ UNCHANGED <<accounts, tokens, links>>

(* issueLinkToken consumes the earlier links of the same address first. *)
ReplaceLinks_SameAccount(q) ==
  /\ req[q].pc = "replacing"
  /\ consumed' = consumed \cup {l \in Link : LinkLive(l) /\ purpose[l] = req[q].for /\ linkFor[l] = req[q].acct}
  /\ Advance(q, "minting")
  /\ UNCHANGED <<accounts, tokens, linkFor, purpose, late, spent>>

ReplaceLinks(q) ==
  /\ req[q].pc = "replacing"
  /\ consumed' = consumed \cup
       {l \in Link : LinkLive(l) /\ purpose[l] = req[q].for
                       /\ Email[linkFor[l]] = Email[req[q].acct]}
  /\ Advance(q, "minting")
  /\ UNCHANGED <<accounts, tokens, linkFor, purpose, late, spent>>

MintLink(q) ==
  /\ req[q].pc = "minting"
  /\ Exists(req[q].acct)
  /\ \E l \in Link :
       /\ linkFor[l] = None
       /\ linkFor' = [linkFor EXCEPT ![l] = req[q].acct]
       /\ purpose' = [purpose EXCEPT ![l] = req[q].for]
  /\ Finish(q)
  /\ UNCHANGED <<accounts, tokens, consumed, late, spent>>

(* As for tokens: the foreign key, or the bound on Link. *)
MintRejected(q) ==
  /\ req[q].pc = "minting"
  /\ Exists(req[q].acct) => \A l \in Link : linkFor[l] # None
  /\ Finish(q)
  /\ UNCHANGED <<accounts, tokens, links>>

(* activate and resetPassword: findLinkToken and the password policy passed. *)
OpenLink(q, l) ==
  /\ LinkLive(l) /\ l \notin late
  /\ req[q] = Idle
  /\ req' = [req EXCEPT ![q] = [Idle EXCEPT !.pc = "spending", !.acct = linkFor[l],
                                            !.link = l, !.for = purpose[l]]]
  /\ UNCHANGED <<accounts, tokens, links>>

(* markLinkTokenConsumed comes before the password is written. *)
ConsumeLink_Skipped(q) ==
  /\ req[q].pc = "spending"
  /\ IF Exists(req[q].acct) THEN Advance(q, "writing") ELSE Finish(q)
  /\ UNCHANGED <<accounts, tokens, links>>

ConsumeLink(q) ==
  /\ req[q].pc = "spending"
  /\ IF Exists(req[q].acct)
       THEN consumed' = consumed \cup {req[q].link} /\ Advance(q, "writing")
       ELSE UNCHANGED consumed /\ Finish(q)
  /\ UNCHANGED <<accounts, tokens, linkFor, purpose, late, spent>>

StatusAfterPassword(a, for) ==
  IF for = "activation" \/ a \in Portal THEN "Active" ELSE status[a]

WritePassword(q) ==
  LET r == req[q]
  IN /\ r.pc = "writing"
     /\ Exists(r.acct)
     /\ password' = password \cup {r.acct}
     /\ status' = [status EXCEPT ![r.acct] = StatusAfterPassword(r.acct, r.for)]
     /\ spent' = spent \cup {r.link}
     /\ IF r.for = "reset" THEN Mark(r.acct, "resetting", q, [r EXCEPT !.pc = "revoking"])
                           ELSE Advance(q, "issuing") /\ UNCHANGED ended
     /\ UNCHANGED <<holder, revoked, expired, rotatedTo, from, linkFor, purpose, consumed, late>>

WriteRejected(q) ==
  /\ req[q].pc = "writing" /\ ~Exists(req[q].acct)
  /\ Finish(q)
  /\ UNCHANGED <<accounts, tokens, links>>

(* revokeAllForPrincipal *)
EndAllOnReset_RotatedOnly(q) ==
  /\ req[q].pc = "revoking"
  /\ revoked' = revoked \cup {t \in SessionsOf(req[q].acct) : from[t] # None}
  /\ Mark(req[q].acct, "reset", q, Idle)
  /\ UNCHANGED <<accounts, holder, expired, rotatedTo, from, links>>

EndAllOnReset(q) ==
  /\ req[q].pc = "revoking"
  /\ revoked' = revoked \cup SessionsOf(req[q].acct)
  /\ Mark(req[q].acct, "reset", q, Idle)
  /\ UNCHANGED <<accounts, holder, expired, rotatedTo, from, links>>

(* A failed statement or a stopped process: what was written stays written. *)
Abort(q) ==
  /\ Failures /\ req[q].pc # "idle"
  /\ Finish(q)
  /\ UNCHANGED <<accounts, tokens, links>>

(* StaffService.update and remove, as far as the sessions see them. *)
SetStatus(a) ==
  /\ status[a] \in {"Active", "Inactive"}
  /\ status' = [status EXCEPT ![a] = IF @ = "Active" THEN "Inactive" ELSE "Active"]
  /\ UNCHANGED <<password, tokens, links, req>>

Remove(a) ==
  /\ Exists(a)
  /\ status' = [status EXCEPT ![a] = "Absent"]
  /\ UNCHANGED <<password, tokens, links, req>>

(* Time passes: expiresAt is behind now. *)
TokenExpires(t) ==
  /\ Live(t) /\ t \notin expired
  /\ expired' = expired \cup {t}
  /\ UNCHANGED <<accounts, holder, revoked, rotatedTo, from, ended, links, req>>

LinkExpires(l) ==
  /\ LinkLive(l) /\ l \notin late
  /\ late' = late \cup {l}
  /\ UNCHANGED <<accounts, tokens, linkFor, purpose, consumed, spent, req>>

Arrive(q) ==
  \/ \E a \in Account : SignIn(q, a)
  \/ \E a \in Portal : CodeSignIn(q, a)
  \/ \E t \in Token : Refresh(q, t) \/ Logout(q, t)
  \/ \E a \in Account, for \in Purpose : AskForLink(q, a, for)
  \/ \E l \in Link : OpenLink(q, l)

Continue(q) ==
  \/ EndAllOnReuse(q) \/ Reread(q) \/ Issue(q) \/ IssueRejected(q)
  \/ LinkRotation(q) \/ Revoke(q)
  \/ ReplaceLinks(q) \/ MintLink(q) \/ MintRejected(q)
  \/ ConsumeLink(q) \/ WritePassword(q) \/ WriteRejected(q) \/ EndAllOnReset(q)
  \/ Abort(q)

Next ==
  \/ \E q \in Request : Arrive(q) \/ Continue(q)
  \/ \E a \in Staff : SetStatus(a) \/ Remove(a)
  \/ \E t \in Token : TokenExpires(t)
  \/ \E l \in Link : LinkExpires(l)

Spec == Init /\ [][Next]_vars

-----------------------------------------------------------------------------
Requests == [pc : Phase, acct : Account \cup {None}, token : Token \cup {None},
             next : Token \cup {None}, link : Link \cup {None},
             for : Purpose \cup {None}, ended : SUBSET Cause]

(* Types of the tables and of the requests in flight; a request past its    *)
(* first read names what it was asked about, and only issued ids have data. *)
TypeOK ==
  /\ status \in [Account -> Status \cup {"Absent"}]
  /\ password \subseteq Account
  /\ holder \in [Token -> Account \cup {None}]
  /\ revoked \subseteq {t \in Token : holder[t] # None}
  /\ expired \subseteq {t \in Token : holder[t] # None}
  /\ rotatedTo \in [Token -> Token \cup {None}]
  /\ from \in [Token -> Token \cup {None}]
  /\ ended \in [Token -> SUBSET Cause]
  /\ linkFor \in [Link -> Account \cup {None}]
  /\ purpose \in [Link -> Purpose \cup {None}]
  /\ consumed \subseteq {l \in Link : linkFor[l] # None}
  /\ late \subseteq {l \in Link : linkFor[l] # None}
  /\ spent \subseteq Link
  /\ req \in [Request -> Requests]

(* TokensService: while no statement fails, a token that was exchanged for a *)
(* live one is revoked itself, or its exchange is about to revoke it, however *)
(* many refreshes, sign-outs and resets overlap.                           *)
RotatedIsRetired ==
  \A t \in Token : Live(t) /\ from[t] # None =>
    \/ from[t] \in revoked
    \/ \E q \in Request : req[q].pc = "linking" /\ req[q].token = from[t]

(* API.md: every refresh rotates the token, so no token is ever exchanged  *)
(* twice.  consumeRefreshToken only reads: what protects the token is that *)
(* it is not presented again before markRotated.                           *)
OneSuccessor ==
  \A t, u \in Token : from[t] # None /\ from[t] = from[u] => t = u

(* Overlapping requests that do not present one token twice exchange every  *)
(* token once, and leave none live that they have exchanged.               *)
ExchangedOnce == OneSuccessor /\ RotatedIsRetired

(* resetPassword: once a password reset is done, no session that began      *)
(* before it wrote the password is live, not even one renewed meanwhile.   *)
ResetEndsSessions == \A t \in Token : Live(t) => "reset" \notin ended[t]

(* API.md: reuse of a rotated token revokes every session of the principal. *)
ReuseEndsSessions == \A t \in Token : Live(t) => "reuse" \notin ended[t]

(* With one request at a time no session that a reset, or the reuse of one  *)
(* of its tokens, was to end goes on.                                       *)
EndedStayEnded == ResetEndsSessions /\ ReuseEndsSessions

(* markLinkTokenConsumed: a link is spent once, it cannot be replayed. *)
LinkSpentOnce ==
  [][\A q \in Request : req[q].pc = "writing" /\ req'[q].pc \in {"revoking", "issuing"} =>
       req[q].link \notin spent]_vars

(* Whatever fails between two statements, a link that has written a         *)
(* password is consumed: retrying the call cannot write another one.       *)
SpentIsConsumed == spent \subseteq consumed

(* issueLinkToken: only the newest link for a purpose stays valid. *)
OnlyNewestLink ==
  \A l, m \in Link :
    LinkLive(l) /\ LinkLive(m) /\ purpose[l] = purpose[m]
      /\ Email[linkFor[l]] = Email[linkFor[m]] => l = m
=============================================================================
