---------------------------- MODULE ParentCodes ----------------------------
(***************************************************************************)
(* The six-digit codes a parent signs in with: the numeric half of          *)
(* OtpService (backend/src/auth/otp.service.ts), called by requestParentOtp *)
(* and verifyParentOtp, for one phone number of one institute.  Codes are   *)
(* numbered in the order their rows are created; the number stands for the  *)
(* digits, so typing code n matches row n only.  A request in flight goes   *)
(* through                                                                  *)
(*                                                                         *)
(*   hashing / creating    issueNumericCode before each of its statements   *)
(*   comparing             verifyNumericCode awaits argon2 with the row read *)
(*   missed / matched      the comparison is done, the row is written next  *)
(*   burning               the row read was expired or had no attempt left  *)
(*                                                                         *)
(* What follows a match, the sign-in itself, is CodeSignIn of Sessions.     *)
(* Op_Fault is Op with one fault, to show that a property depends on Op.   *)
(***************************************************************************)
EXTENDS Naturals, FiniteSets

CONSTANTS
  Request,        \* requests in flight
  MaxCodes,       \* bound: codes issued
  MaxAttempts,    \* config otp.maxAttempts
  MaxTries        \* bound on the history counter of comparisons

ASSUME LimitsGiven == /\ MaxCodes \in Nat /\ MaxAttempts \in Nat \ {0}
                      /\ MaxTries \in Nat /\ MaxTries > MaxAttempts

Code == 1..MaxCodes
Phase == {"idle", "hashing", "creating", "comparing", "missed", "matched", "burning"}

VARIABLES
  issued,      \* rows created so far
  deleted,     \* rows that purgeExpired removed
  consumed,    \* rows whose consumedAt is set
  expired,     \* rows past expiresAt
  attempts,    \* the attempts column
  wrong,       \* history: wrong codes compared with each row
  signIns,     \* history: sign-ins each row has let through
  shared,      \* history: rows two verifications worked on at once
  raced,       \* history: two codes were asked for at once
  req

rows == <<issued, deleted, consumed, expired, attempts>>
histories == <<wrong, signIns, shared, raced>>
vars == <<issued, deleted, consumed, expired, attempts, wrong, signIns, shared, raced, req>>

Idle == [pc |-> "idle", row |-> 0, seen |-> 0, typed |-> 0]
Rows == (1..issued) \ deleted
Usable == Rows \ consumed

Init ==
  /\ issued = 0 /\ deleted = {} /\ consumed = {} /\ expired = {}
  /\ attempts = [n \in Code |-> 0]
  /\ wrong = [n \in Code |-> 0] /\ signIns = [n \in Code |-> 0]
  /\ shared = {} /\ raced = FALSE
  /\ req = [q \in Request |-> Idle]

Advance(q, pc) == req' = [req EXCEPT ![q].pc = pc]
Finish(q) == req' = [req EXCEPT ![q] = Idle]

Issuing == {q \in Request : req[q].pc \in {"hashing", "creating"}}

(* requestParentOtp for a number on file. *)
AskForCode(q) ==
  /\ req[q] = Idle
  /\ issued + Cardinality(Issuing) < MaxCodes
  /\ Advance(q, "hashing")
  /\ raced' = (raced \/ Issuing # {})
  /\ UNCHANGED <<rows, wrong, signIns, shared>>

(* issueNumericCode: earlier codes are invalidated, then the row is created. *)
InvalidateEarlier_Newest(q) ==
  /\ req[q].pc = "hashing"
  /\ consumed' = consumed \cup (Usable \cap {issued - 1})
  /\ Advance(q, "creating")
  /\ UNCHANGED <<issued, deleted, expired, attempts, histories>>

InvalidateEarlier(q) ==
  /\ req[q].pc = "hashing"
  /\ consumed' = consumed \cup Usable
  /\ Advance(q, "creating")
  /\ UNCHANGED <<issued, deleted, expired, attempts, histories>>

CreateCode(q) ==
  /\ req[q].pc = "creating"
  /\ issued' = issued + 1
  /\ Finish(q)
  /\ UNCHANGED <<deleted, consumed, expired, attempts, histories>>

(* verifyNumericCode reads the newest row that is not consumed. *)
NextStep(n) ==
  IF n \in expired \/ attempts[n] >= MaxAttempts THEN "burning" ELSE "comparing"

TypeCode(q, typed) ==
  /\ req[q] = Idle
  /\ \E n \in Usable :
       /\ \A m \in Usable : m <= n
       /\ req' = [req EXCEPT ![q] =
            [pc |-> NextStep(n), row |-> n, seen |-> attempts[n], typed |-> typed]]
       /\ shared' = shared \cup {m \in {n} : \E p \in Request : req[p].row = m}
  /\ UNCHANGED <<rows, wrong, signIns, raced>>

Compare(q) ==
  /\ req[q].pc = "comparing"
  /\ IF req[q].typed = req[q].row
       THEN Advance(q, "matched") /\ UNCHANGED wrong
       ELSE /\ Advance(q, "missed")
            /\ wrong' = [wrong EXCEPT ![req[q].row] = IF @ < MaxTries THEN @ + 1 ELSE @]
  /\ UNCHANGED <<rows, signIns, shared, raced>>

(* The update of a row that has gone is an error; the request ends with it. *)
CountMiss_Reopens(q) ==
  LET n == req[q].row
  IN /\ req[q].pc = "missed"
     /\ attempts' = [attempts EXCEPT ![n] = req[q].seen + 1]
     /\ consumed' = IF req[q].seen + 1 >= MaxAttempts THEN consumed \cup {n} ELSE consumed \ {n}
     /\ Finish(q)
     /\ UNCHANGED <<issued, deleted, expired, histories>>

CountMiss_AddsOne(q) ==
  LET n == req[q].row
  IN /\ req[q].pc = "missed"
     /\ attempts' = [attempts EXCEPT ![n] = @ + 1]
     /\ consumed' = IF attempts[n] + 1 >= MaxAttempts THEN consumed \cup {n} ELSE consumed
     /\ Finish(q)
     /\ UNCHANGED <<issued, deleted, expired, histories>>

CountMiss_NeverBurns(q) ==
  /\ req[q].pc = "missed"
  /\ attempts' = [attempts EXCEPT ![req[q].row] = req[q].seen]
  /\ Finish(q)
  /\ UNCHANGED <<issued, deleted, consumed, expired, histories>>

CountMiss(q) ==
  LET n == req[q].row
      tried == req[q].seen + 1
  IN /\ req[q].pc = "missed"
     /\ IF n \in Rows
          THEN /\ attempts' = [attempts EXCEPT ![n] = tried]
               /\ consumed' = IF tried >= MaxAttempts THEN consumed \cup {n} ELSE consumed
          ELSE UNCHANGED <<attempts, consumed>>
     /\ Finish(q)
     /\ UNCHANGED <<issued, deleted, expired, histories>>

Accept_NotConsumed(q) ==
  LET n == req[q].row
  IN /\ req[q].pc = "matched"
     /\ attempts' = [attempts EXCEPT ![n] = req[q].seen + 1]
     /\ signIns' = [signIns EXCEPT ![n] = IF @ < 2 THEN @ + 1 ELSE @]
     /\ Finish(q)
     /\ UNCHANGED <<issued, deleted, consumed, expired, wrong, shared, raced>>

Accept(q) ==
  LET n == req[q].row
  IN /\ req[q].pc = "matched"
     /\ IF n \in Rows
          THEN /\ consumed' = consumed \cup {n}
               /\ attempts' = [attempts EXCEPT ![n] = req[q].seen + 1]
               /\ signIns' = [signIns EXCEPT ![n] = IF @ < 2 THEN @ + 1 ELSE @]
          ELSE UNCHANGED <<attempts, consumed, signIns>>
     /\ Finish(q)
     /\ UNCHANGED <<issued, deleted, expired, wrong, shared, raced>>

Burn(q) ==
  /\ req[q].pc = "burning"
  /\ consumed' = consumed \cup ({req[q].row} \cap Rows)
  /\ Finish(q)
  /\ UNCHANGED <<issued, deleted, expired, attempts, histories>>

(* Time: expiresAt passes; a day later purgeExpired drops the row. *)
Expire(n) ==
  /\ n \in Rows \ expired
  /\ expired' = expired \cup {n}
  /\ UNCHANGED <<issued, deleted, consumed, attempts, histories, req>>

PurgeExpired ==
  /\ expired \cap Rows # {}
  /\ deleted' = deleted \cup (expired \cap Rows)
  /\ UNCHANGED <<issued, consumed, expired, attempts, histories, req>>

Next ==
  \/ \E q \in Request :
       \/ AskForCode(q) \/ InvalidateEarlier(q) \/ CreateCode(q)
       \/ \E typed \in 0..issued : TypeCode(q, typed)
       \/ Compare(q) \/ CountMiss(q) \/ Accept(q) \/ Burn(q)
  \/ \E n \in Code : Expire(n)
  \/ PurgeExpired

Spec == Init /\ [][Next]_vars

-----------------------------------------------------------------------------
(* Types, and the attempts column never passes the cap, whatever overlaps. *)
TypeOK ==
  /\ issued \in 0..MaxCodes
  /\ deleted \subseteq 1..issued /\ consumed \subseteq 1..issued /\ expired \subseteq 1..issued
  /\ attempts \in [Code -> 0..MaxAttempts]
  /\ wrong \in [Code -> 0..MaxTries]
  /\ signIns \in [Code -> 0..2]
  /\ shared \subseteq 1..issued /\ raced \in BOOLEAN
  /\ req \in [Request -> [pc : Phase, row : 0..issued, seen : 0..MaxAttempts, typed : 0..issued]]

(* A code that was used, burnt or replaced stays so: a verification that   *)
(* read the row before and writes its attempts afterwards does not reopen it. *)
ConsumedForGood == [][consumed \subseteq consumed']_vars

(* "a 5-attempt cap": no code is compared with more wrong guesses than the  *)
(* cap allows.                                                             *)
AttemptsCapped == \A n \in Code : wrong[n] <= MaxAttempts

(* The cap holds for every code that is verified by one request at a time,  *)
(* whatever is asked for, replaced, burnt or purged meanwhile.             *)
CappedUnlessShared == \A n \in Code \ shared : wrong[n] <= MaxAttempts

(* "consumes it on success": such a code lets at most one sign-in through,  *)
(* and none once its attempts are used up.                                 *)
OnceUnlessShared ==
  \A n \in Code \ shared : signIns[n] <= 1 /\ (signIns[n] = 1 => wrong[n] < MaxAttempts)

(* issueNumericCode: only the newest SMS works, unless two were asked for at *)
(* once; a late write of a verification never brings an older one back.    *)
NewestUnlessRaced == raced \/ Cardinality(Usable) <= 1
=============================================================================
