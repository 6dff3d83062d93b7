-------------------------- MODULE ParentCodesProofs --------------------------
(***************************************************************************)
(* What a parent's one-time codes keep however many requests overlap, for   *)
(* any number of codes, any cap and any finite number of requests.  A       *)
(* verification writes what it read before it awaited the comparison; the   *)
(* invariants say what that reading is still worth when it writes.  Last,   *)
(* what SessionsProofs says of refresh tokens, of the sessions beside them. *)
(***************************************************************************)
EXTENDS AuthOverlap, FiniteSetTheorems, TLAPS

Working == {"comparing", "missed", "matched"}

(* Codes are never more than the bound, the ones being made included.      *)
Room == issued + Cardinality(Issuing) <= MaxCodes

(* A verification under way has a row, and read one with attempts left.     *)
Within ==
  \A q \in Request :
    /\ req[q].pc \in {"idle", "hashing", "creating"} => req[q].row = 0
    /\ req[q].pc \in Working => req[q].row \in 1..issued /\ req[q].seen < MaxAttempts

Typed == TypeOK /\ Room /\ Within

LEMMA InitTyped == ASSUME IsFiniteSet(Request), Init PROVE Typed
<1>1. Issuing = {}
  BY DEF Init, Issuing, Idle
<1>2. Cardinality(Issuing) = 0
  BY <1>1, FS_EmptySet
<1>3. TypeOK
  <2>1. issued = 0 /\ raced = FALSE /\ 0 \in 0..MaxCodes /\ 0 \in 0..MaxAttempts /\ 0 \in 0..MaxTries
    BY LimitsGiven DEF Init
  <2>2. attempts \in [Code -> 0..MaxAttempts] /\ wrong \in [Code -> 0..MaxTries] /\ signIns \in [Code -> 0..2]
    BY <2>1 DEF Init
  <2>3. req \in [Request -> [pc : Phase, row : 0..issued, seen : 0..MaxAttempts, typed : 0..issued]]
    BY <2>1 DEF Init, Idle, Phase
  <2> QED
    BY <2>1, <2>2, <2>3 DEF Init, TypeOK
<1>4. Room
  BY <1>2, LimitsGiven DEF Init, Room
<1>5. Within
  BY DEF Init, Within, Idle, Working
<1> QED
  BY <1>3, <1>4, <1>5 DEF Typed

(* Who is issuing a code changes with the request that takes the step.     *)
LEMMA IssuingCounts ==
  ASSUME IsFiniteSet(Request), Room, TypeOK
  PROVE  /\ IsFiniteSet(Issuing) /\ Cardinality(Issuing) \in Nat
         /\ issued <= MaxCodes
         /\ \A q \in Issuing : issued < MaxCodes /\ Cardinality(Issuing \ {q}) = Cardinality(Issuing) - 1
         /\ \A q \in Request \ Issuing : Cardinality(Issuing \cup {q}) = Cardinality(Issuing) + 1
<1>1. IsFiniteSet(Issuing)
  BY FS_Subset DEF Issuing
<1>2. Cardinality(Issuing) \in Nat
  BY <1>1, FS_CardinalityType
<1>3. issued \in Nat /\ MaxCodes \in Nat
  BY LimitsGiven DEF TypeOK
<1>4. ASSUME NEW q \in Issuing
      PROVE  issued < MaxCodes /\ Cardinality(Issuing \ {q}) = Cardinality(Issuing) - 1
  <2>1. Cardinality(Issuing \ {q}) = Cardinality(Issuing) - 1
    BY <1>1, FS_RemoveElement
  <2>2. Cardinality(Issuing \ {q}) \in Nat
    BY <1>1, FS_RemoveElement, FS_CardinalityType
  <2> QED
    BY <1>2, <1>3, <2>1, <2>2 DEF Room
<1>5. ASSUME NEW q \in Request \ Issuing
      PROVE  Cardinality(Issuing \cup {q}) = Cardinality(Issuing) + 1
  BY <1>1, FS_AddElement
<1> QED
  BY <1>1, <1>2, <1>3, <1>4, <1>5 DEF Room

(* A step that neither makes codes nor starts or ends issuing one.          *)
LEMMA SameIssuing ==
  ASSUME NEW q \in Request, Room, issued' = issued,
         \A p \in Request \ {q} : req'[p] = req[p],
         req[q].pc \notin {"hashing", "creating"}, req'[q].pc \notin {"hashing", "creating"}
  PROVE  Room'
<1>1. Issuing' = Issuing
  BY DEF Issuing
<1> QED
  BY <1>1 DEF Room

LEMMA NextTyped ==
  ASSUME IsFiniteSet(Request), Typed, [Next]_vars
  PROVE  Typed'
<1> USE DEF Typed
<1>0. issued \in Nat /\ MaxCodes \in Nat /\ MaxAttempts \in Nat /\ MaxAttempts > 0 /\ MaxTries \in Nat
  BY LimitsGiven DEF TypeOK
<1>1. ASSUME NEW q \in Request, AskForCode(q) PROVE Typed'
  <2>1. \A p \in Request : req'[p] = IF p = q THEN [req[q] EXCEPT !.pc = "hashing"] ELSE req[p]
    BY <1>1 DEF AskForCode, Advance, TypeOK
  <2>2. TypeOK' /\ Within'
    BY <1>1, <2>1 DEF AskForCode, Advance, Idle, rows, TypeOK, Within, Working, Phase
  <2>3. Issuing' = Issuing \cup {q} /\ q \notin Issuing
    BY <1>1, <2>1 DEF AskForCode, Idle, Issuing, TypeOK
  <2>4. Room'
    BY <1>0, <1>1, <2>3, IssuingCounts DEF AskForCode, rows, Room
  <2> QED
    BY <2>2, <2>4
<1>2. ASSUME NEW q \in Request, InvalidateEarlier(q) PROVE Typed'
  <2>1. \A p \in Request : req'[p] = IF p = q THEN [req[q] EXCEPT !.pc = "creating"] ELSE req[p]
    BY <1>2 DEF InvalidateEarlier, Advance, TypeOK
  <2>2. TypeOK'
    BY <1>2, <2>1 DEF InvalidateEarlier, Advance, Usable, Rows, histories, TypeOK, Phase
  <2>3. Within'
    BY <1>2, <2>1 DEF InvalidateEarlier, TypeOK, Within, Working
  <2>4. Issuing' = Issuing
    BY <1>2, <2>1 DEF InvalidateEarlier, Issuing, TypeOK
  <2> QED
    BY <1>2, <2>2, <2>3, <2>4 DEF InvalidateEarlier, Room
<1>3. ASSUME NEW q \in Request, CreateCode(q) PROVE Typed'
  <2>1. \A p \in Request : req'[p] = IF p = q THEN Idle ELSE req[p]
    BY <1>3 DEF CreateCode, Finish, TypeOK
  <2>2. q \in Issuing /\ Issuing' = Issuing \ {q} /\ issued' = issued + 1
    BY <1>3, <2>1 DEF CreateCode, Idle, Issuing, TypeOK
  <2>3. issued < MaxCodes /\ Room'
    BY <1>0, <2>2, IssuingCounts DEF Room
  <2>4. \A n : n \in 1..issued => n \in 1..(issued + 1)
    BY <1>0
  <2>5. TypeOK'
    <3>1. issued' \in 0..MaxCodes
      BY <1>0, <2>2, <2>3
    <3>2. deleted' \subseteq 1..issued' /\ consumed' \subseteq 1..issued'
          /\ expired' \subseteq 1..issued' /\ shared' \subseteq 1..issued'
      BY <1>3, <2>2, <2>4 DEF CreateCode, histories, TypeOK
    <3>3. req' \in [Request -> [pc : Phase, row : 0..issued', seen : 0..MaxAttempts, typed : 0..issued']]
      BY <1>0, <1>3, <2>2 DEF CreateCode, Finish, Idle, TypeOK, Phase
    <3> QED
      BY <1>3, <3>1, <3>2, <3>3 DEF CreateCode, histories, TypeOK
  <2>6. Within'
    BY <1>0, <2>1, <2>2, <2>4 DEF Idle, Within, Working, TypeOK
  <2> QED
    BY <2>3, <2>5, <2>6
<1>4. ASSUME NEW q \in Request, NEW typed \in 0..issued, TypeCode(q, typed) PROVE Typed'
  <2>1. PICK n \in Usable :
          /\ req' = [req EXCEPT ![q] =
               [pc |-> NextStep(n), row |-> n, seen |-> attempts[n], typed |-> typed]]
          /\ shared' = shared \cup {m \in {n} : \E p \in Request : req[p].row = m}
    BY <1>4 DEF TypeCode
  <2>2. n \in 1..issued /\ n \in Code /\ attempts[n] \in 0..MaxAttempts
    BY <1>0, <2>1 DEF Usable, Rows, Code, TypeOK
  <2>3. /\ NextStep(n) \in {"burning", "comparing"}
        /\ NextStep(n) = "comparing" => attempts[n] < MaxAttempts
    BY <1>0, <2>2 DEF NextStep
  <2>4. TypeOK'
    <3>1. shared' \subseteq 1..issued
      BY <2>1, <2>2 DEF TypeOK
    <3>2. req' \in [Request -> [pc : Phase, row : 0..issued, seen : 0..MaxAttempts, typed : 0..issued]]
      BY <1>0, <2>1, <2>2, <2>3 DEF TypeOK, Phase
    <3> QED
      BY <1>4, <3>1, <3>2 DEF TypeCode, rows, TypeOK
  <2>5. Within'
    BY <1>0, <1>4, <2>1, <2>2, <2>3 DEF TypeCode, rows, TypeOK, Within, Working
  <2>6. Room'
    <3>1. /\ \A p \in Request \ {q} : req'[p] = req[p]
          /\ req'[q].pc = NextStep(n) /\ req[q].pc = "idle" /\ issued' = issued
      BY <1>4, <2>1 DEF TypeCode, rows, Idle, TypeOK
    <3> QED
      BY <2>3, <3>1, SameIssuing
  <2> QED
    BY <2>4, <2>5, <2>6
<1>5. ASSUME NEW q \in Request, Compare(q) PROVE Typed'
  <2>1. PICK pc \in {"matched", "missed"} : req' = [req EXCEPT ![q].pc = pc]
    BY <1>5 DEF Compare, Advance
  <2>2. req[q].row \in Code /\ \A n \in Code : wrong[n] \in 0..MaxTries
    BY <1>0, <1>5 DEF Compare, Within, Working, Code, TypeOK
  <2>3. wrong' \in [Code -> 0..MaxTries]
    BY <1>0, <1>5, <2>2 DEF Compare, TypeOK
  <2>4. TypeOK'
    BY <1>5, <2>1, <2>3 DEF Compare, rows, TypeOK, Phase
  <2>5. Within'
    BY <1>5, <2>1 DEF Compare, rows, TypeOK, Within, Working
  <2>6. Room'
    <3>1. /\ \A p \in Request \ {q} : req'[p] = req[p]
          /\ req'[q].pc = pc /\ req[q].pc = "comparing" /\ issued' = issued
      BY <1>5, <2>1 DEF Compare, rows, TypeOK
    <3> QED
      BY <3>1, SameIssuing
  <2> QED
    BY <2>4, <2>5, <2>6
<1>6. ASSUME NEW q \in Request, CountMiss(q) \/ Accept(q) \/ Burn(q) PROVE Typed'
  <2>1. req' = [req EXCEPT ![q] = Idle] /\ issued' = issued
    BY <1>6 DEF CountMiss, Accept, Burn, Finish
  <2>2. req[q].pc \notin {"hashing", "creating"}
    BY <1>6 DEF CountMiss, Accept, Burn
  <2>3. Room'
    <3>1. (\A p \in Request \ {q} : req'[p] = req[p]) /\ req'[q].pc = "idle"
      BY <2>1 DEF Idle, TypeOK
    <3> QED
      BY <2>1, <2>2, <3>1, SameIssuing
  <2>4. Within'
    BY <2>1 DEF Idle, TypeOK, Within, Working
  <2>5. req' \in [Request -> [pc : Phase, row : 0..issued, seen : 0..MaxAttempts, typed : 0..issued]]
    BY <1>0, <2>1 DEF Idle, TypeOK, Phase
  <2>6. consumed' \subseteq 1..issued
    BY <1>6 DEF CountMiss, Accept, Burn, Rows, TypeOK
  <2>7. req[q].pc \in Working => req[q].seen + 1 \in 0..MaxAttempts
    BY <1>0 DEF Within, TypeOK
  <2>8. attempts' \in [Code -> 0..MaxAttempts]
    BY <1>6, <2>7 DEF CountMiss, Accept, Burn, TypeOK, Working
  <2>9. signIns' \in [Code -> 0..2]
    BY <1>6 DEF CountMiss, Accept, Burn, histories, TypeOK
  <2> QED
    BY <1>6, <2>1, <2>3, <2>4, <2>5, <2>6, <2>8, <2>9 DEF CountMiss, Accept, Burn, histories, TypeOK
<1>7. ASSUME (\E n \in Code : Expire(n)) \/ PurgeExpired PROVE Typed'
  <2>1. req' = req /\ issued' = issued
    BY <1>7 DEF Expire, PurgeExpired
  <2>2. Room' /\ Within'
    BY <2>1 DEF Room, Issuing, Within
  <2>3. TypeOK'
    BY <1>7 DEF Expire, PurgeExpired, Rows, histories, TypeOK
  <2> QED
    BY <2>2, <2>3
<1>8. ASSUME UNCHANGED vars PROVE Typed'
  BY <1>8 DEF vars, TypeOK, Room, Issuing, Within
<1> QED
  BY <1>1, <1>2, <1>3, <1>4, <1>5, <1>6, <1>7, <1>8 DEF Next

(* Types hold in every reachable state, and with them the attempts column   *)
(* never passes the cap, whatever overlaps.                                 *)
THEOREM TypeCorrect == ASSUME IsFiniteSet(Request) PROVE Spec => []TypeOK
<1>1. Init => Typed
  BY InitTyped
<1>2. Typed /\ [Next]_vars => Typed'
  BY NextTyped
<1>3. Typed => TypeOK
  BY DEF Typed
<1> QED
  BY <1>1, <1>2, <1>3, PTL DEF Spec
-----------------------------------------------------------------------------
(* A code that one verification at a time has worked on: while one works on *)
(* it, what it read counts every wrong guess before its own; when none does *)
(* and the code can still be typed, the attempts column does.               *)
Sole == \A n \in Code \ shared : \A p, q \in Request : req[p].row = n /\ req[q].row = n => p = q

CountedBy(q) ==
  LET n == req[q].row
  IN n \in Code \ shared =>
       /\ req[q].pc \in {"comparing", "matched"} => wrong[n] <= req[q].seen
       /\ req[q].pc = "missed" => wrong[n] <= req[q].seen + 1
Free(n) == \A q \in Request : req[q].row # n
Counted ==
  /\ \A q \in Request : CountedBy(q)
  /\ \A n \in Usable \ shared : Free(n) => wrong[n] <= attempts[n]
  /\ \A n \in Code : n > issued => wrong[n] = 0 /\ signIns[n] = 0

(* A sign-in uses the code up.                                              *)
UsedUp == \A n \in Code \ shared : signIns[n] # 0 => n \in consumed /\ Free(n)

Sound == Sole /\ Counted /\ UsedUp /\ CappedUnlessShared /\ OnceUnlessShared

LEMMA InitSound == Init => Sound
BY LimitsGiven DEF Init, Sound, Sole, Counted, CountedBy, UsedUp, Free, Usable, Rows, Idle, Code,
   CappedUnlessShared, OnceUnlessShared

(* Steps that write no guess, sign-in or row of a verification.             *)
LEMMA SoundKept ==
  ASSUME Typed, Sound, UNCHANGED <<wrong, attempts, signIns, shared>>,
         \A q \in Request : req'[q].row = req[q].row,
         \A q \in Request : req'[q].pc \in Working => req'[q] = req[q],
         Usable' \subseteq Usable, consumed \subseteq consumed', issued' = issued
  PROVE  Sound'
<1>1. Sole' /\ UsedUp'
  BY DEF Sound, Sole, UsedUp, Free
<1>2. \A q \in Request : CountedBy(q)'
  BY DEF Sound, Counted, CountedBy, Working
<1>3. Counted'
  BY <1>2 DEF Sound, Counted, Free
<1> QED
  BY <1>1, <1>3 DEF Sound, CappedUnlessShared, OnceUnlessShared

LEMMA NextSound ==
  ASSUME IsFiniteSet(Request), Typed, Typed', Sound, [Next]_vars
  PROVE  Sound'
<1>0. /\ MaxCodes \in Nat /\ MaxAttempts \in Nat \ {0} /\ MaxTries \in Nat /\ issued \in Nat
      /\ \A n \in Code : n \in Nat \ {0} /\ wrong[n] \in Nat /\ attempts[n] \in Nat /\ signIns[n] \in Nat
      /\ \A q \in Request : req[q].seen \in Nat /\ req[q].row \in Nat
      /\ Usable \subseteq 1..issued /\ 1..issued \subseteq Code
  <2>1. MaxCodes \in Nat /\ MaxAttempts \in Nat \ {0} /\ MaxTries \in Nat /\ issued \in Nat
    BY LimitsGiven DEF Typed, TypeOK
  <2>2. \A n \in Code : n \in Nat \ {0} /\ wrong[n] \in Nat /\ attempts[n] \in Nat /\ signIns[n] \in Nat
    <3>1. Code \subseteq Nat \ {0}
      BY <2>1 DEF Code
    <3>2. wrong \in [Code -> Nat] /\ attempts \in [Code -> Nat] /\ signIns \in [Code -> Nat]
      BY <2>1 DEF Typed, TypeOK
    <3> QED
      BY <3>1, <3>2
  <2>3. \A q \in Request : req[q].seen \in Nat /\ req[q].row \in Nat
    BY <2>1 DEF Typed, TypeOK
  <2>4. Usable \subseteq 1..issued /\ 1..issued \subseteq Code
    BY <2>1 DEF Typed, TypeOK, Code, Usable, Rows
  <2> QED
    BY <2>1, <2>2, <2>3, <2>4
<1>1. ASSUME NEW q \in Request, AskForCode(q) PROVE Sound'
  <2>1. \A p \in Request : req'[p].row = req[p].row /\ (req'[p].pc \in Working => req'[p] = req[p])
    BY <1>1 DEF AskForCode, Advance, Typed, TypeOK, Working
  <2> QED
    BY <1>1, <2>1, SoundKept DEF AskForCode, rows, Usable, Rows
<1>2. ASSUME NEW q \in Request, InvalidateEarlier(q) PROVE Sound'
  <2>1. \A p \in Request : req'[p].row = req[p].row /\ (req'[p].pc \in Working => req'[p] = req[p])
    BY <1>2 DEF InvalidateEarlier, Advance, Typed, TypeOK, Working
  <2> QED
    BY <1>2, <2>1, SoundKept DEF InvalidateEarlier, histories, Usable, Rows
<1>3. ASSUME NEW q \in Request, CreateCode(q) PROVE Sound'
  <2>1. \A p \in Request : req'[p].row = req[p].row /\ (req'[p].pc \in Working => req'[p] = req[p])
    BY <1>3 DEF CreateCode, Finish, Idle, Typed, TypeOK, Within, Working
  <2>2. UNCHANGED <<wrong, attempts, signIns, shared, consumed, deleted>> /\ issued' = issued + 1
    BY <1>3 DEF CreateCode, histories
  <2>3. Sole' /\ UsedUp' /\ CappedUnlessShared' /\ OnceUnlessShared'
    BY <2>1, <2>2 DEF Sound, Sole, UsedUp, Free, CappedUnlessShared, OnceUnlessShared
  <2>4. \A p \in Request : CountedBy(p)'
    BY <2>1, <2>2 DEF Sound, Counted, CountedBy, Working
  <2>5. Usable' \subseteq Usable \cup {issued + 1} /\ issued + 1 \in Code
    BY <1>0, <2>2, LimitsGiven DEF Usable, Rows, Typed, TypeOK, Code
  <2>6. \A n \in Usable' \ shared' : Free(n)' => wrong'[n] <= attempts'[n]
    <3> SUFFICES ASSUME NEW n \in Usable' \ shared', Free(n)' PROVE wrong'[n] <= attempts'[n]
      OBVIOUS
    <3>1. CASE n = issued + 1
      BY <1>0, <2>2, <2>5, <3>1 DEF Sound, Counted
    <3>2. CASE n # issued + 1
      BY <2>1, <2>2, <2>5, <3>2 DEF Sound, Counted, Free
    <3> QED
      BY <3>1, <3>2
  <2>7. \A n \in Code : n > issued' => wrong'[n] = 0 /\ signIns'[n] = 0
    BY <1>0, <2>2 DEF Sound, Counted
  <2> QED
    BY <2>3, <2>4, <2>6, <2>7 DEF Sound, Counted
<1>4. ASSUME NEW q \in Request, NEW typed \in 0..issued, TypeCode(q, typed) PROVE Sound'
  <2>1. PICK n \in Usable :
          /\ req' = [req EXCEPT ![q] =
               [pc |-> NextStep(n), row |-> n, seen |-> attempts[n], typed |-> typed]]
          /\ shared' = shared \cup {m \in {n} : \E p \in Request : req[p].row = m}
    BY <1>4 DEF TypeCode
  <2>2. /\ UNCHANGED <<issued, deleted, consumed, attempts, wrong, signIns>>
        /\ n \in Code /\ n # 0 /\ req[q].row = 0
    BY <1>0, <1>4 DEF TypeCode, rows, Idle
  <2>3. /\ \A p \in Request \ {q} : req'[p] = req[p]
        /\ req'[q].row = n /\ req'[q].seen = attempts[n] /\ req'[q].pc \in {"burning", "comparing"}
    BY <2>1 DEF Typed, TypeOK, NextStep
  <2>4. shared \subseteq shared' /\ (n \notin shared' => Free(n))
    BY <2>1 DEF Free
  <2>5. n \notin shared' => wrong[n] <= attempts[n]
    BY <2>4 DEF Sound, Counted
  <2>6. Sole'
    BY <2>2, <2>3, <2>4 DEF Sound, Sole, Free
  <2>7. UsedUp'
    BY <2>2, <2>3, <2>4 DEF Sound, UsedUp, Free, Usable
  <2>8. \A p \in Request : CountedBy(p)'
    BY <2>2, <2>3, <2>4, <2>5 DEF Sound, Counted, CountedBy
  <2>9. \A m \in Usable' \ shared' : Free(m)' => wrong'[m] <= attempts'[m]
    <3> SUFFICES ASSUME NEW m \in Usable' \ shared', Free(m)' PROVE wrong'[m] <= attempts'[m]
      OBVIOUS
    <3>1. m \in Usable \ shared /\ m # n
      BY <2>2, <2>3, <2>4 DEF Free, Usable, Rows
    <3>2. m # 0
      BY <1>0, <3>1
    <3>3. Free(m)
      BY <2>2, <2>3, <3>2 DEF Free
    <3> QED
      BY <2>2, <3>1, <3>3 DEF Sound, Counted
  <2> QED
    BY <2>2, <2>4, <2>6, <2>7, <2>8, <2>9 DEF Sound, Counted, CappedUnlessShared, OnceUnlessShared
<1>5. ASSUME NEW q \in Request, Compare(q) PROVE Sound'
  <2> DEFINE n == req[q].row
  <2>1. PICK pc \in {"matched", "missed"} : req' = [req EXCEPT ![q].pc = pc]
    BY <1>5 DEF Compare, Advance
  <2>2. /\ UNCHANGED <<issued, deleted, consumed, attempts, signIns, shared>>
        /\ req[q].pc = "comparing" /\ n \in 1..issued /\ n \in Code /\ req[q].seen < MaxAttempts
    BY <1>0, <1>5 DEF Compare, rows, Typed, Within, Working
  <2>3. /\ \A p \in Request \ {q} : req'[p] = req[p]
        /\ req'[q].row = n /\ req'[q].seen = req[q].seen /\ req'[q].pc = pc
        /\ \A p \in Request : req'[p].row = req[p].row
    BY <2>1 DEF Typed, TypeOK
  <2>4. /\ pc = "matched" => wrong' = wrong
        /\ \A m \in Code \ {n} : wrong'[m] = wrong[m]
        /\ wrong'[n] <= wrong[n] + 1
    <3>1. CASE req[q].typed = req[q].row
      BY <1>0, <1>5, <2>2, <3>1 DEF Compare
    <3>2. CASE req[q].typed # req[q].row
      <4>1. wrong' = [wrong EXCEPT ![n] = IF @ < MaxTries THEN @ + 1 ELSE @] /\ pc = "missed"
        BY <1>5, <2>1, <3>2 DEF Compare, Advance, Typed, TypeOK
      <4> QED
        BY <1>0, <2>2, <4>1 DEF Typed, TypeOK
    <3> QED
      BY <3>1, <3>2
  <2>5. n \notin shared => wrong[n] <= req[q].seen /\ signIns[n] = 0
    BY <2>2 DEF Sound, Counted, CountedBy, UsedUp, Free
  <2>6. wrong'[n] \in Nat
    BY <2>2 DEF Typed, TypeOK
  <2>7. Sole' /\ UsedUp'
    BY <2>2, <2>3 DEF Sound, Sole, UsedUp, Free
  <2>8. \A p \in Request : CountedBy(p)'
    <3> SUFFICES ASSUME NEW p \in Request, req[p].row \in Code \ shared
                 PROVE  CountedBy(p)'
      BY <2>2, <2>3 DEF CountedBy
    <3>1. CASE p = q
      BY <1>0, <2>2, <2>3, <2>4, <2>5, <2>6, <3>1 DEF CountedBy
    <3>2. CASE p # q
      BY <2>2, <2>3, <2>4, <3>2 DEF Sound, Sole, Counted, CountedBy
    <3> QED
      BY <3>1, <3>2
  <2>9. \A m \in Usable' \ shared' : Free(m)' => wrong'[m] <= attempts'[m]
    BY <1>0, <2>2, <2>3, <2>4 DEF Sound, Counted, Free, Usable, Rows
  <2>10. \A m \in Code : m > issued' => wrong'[m] = 0 /\ signIns'[m] = 0
    BY <1>0, <2>2, <2>4 DEF Sound, Counted
  <2>11. CappedUnlessShared' /\ OnceUnlessShared'
    BY <1>0, <2>2, <2>4, <2>5, <2>6 DEF Sound, CappedUnlessShared, OnceUnlessShared
  <2> QED
    BY <2>7, <2>8, <2>9, <2>10, <2>11 DEF Sound, Counted
<1>6. ASSUME NEW q \in Request, CountMiss(q) \/ Accept(q) \/ Burn(q) PROVE Sound'
  <2> DEFINE n == req[q].row
  <2>1. /\ UNCHANGED <<issued, deleted, wrong, shared>> /\ req' = [req EXCEPT ![q] = Idle]
        /\ consumed \subseteq consumed'
    BY <1>6 DEF CountMiss, Accept, Burn, Finish, histories
  <2>2. /\ \A p \in Request \ {q} : req'[p] = req[p]
        /\ req'[q] = Idle /\ req'[q].row = 0 /\ req'[q].pc = "idle"
    BY <2>1 DEF Idle, Typed, TypeOK
  <2>3. \A m \in Code \ {n} : attempts'[m] = attempts[m] /\ signIns'[m] = signIns[m]
    BY <1>6 DEF CountMiss, Accept, Burn, histories, Typed, TypeOK
  <2>4. Sole'
    BY <1>0, <2>1, <2>2 DEF Sound, Sole
  <2>5. \A p \in Request : CountedBy(p)'
    BY <2>1, <2>2 DEF Sound, Counted, CountedBy
  <2>6. n \in Usable' \ shared => wrong[n] <= attempts'[n]
    <3> SUFFICES ASSUME n \in Usable' \ shared PROVE wrong[n] <= attempts'[n]
      OBVIOUS
    <3>1. n \in Rows /\ n \notin consumed' /\ n \in Code
      BY <1>0, <2>1 DEF Usable, Rows
    <3>2. CountMiss(q)
      BY <1>6, <3>1 DEF Accept, Burn
    <3>3. attempts'[n] = req[q].seen + 1
      BY <3>1, <3>2 DEF CountMiss, Typed, TypeOK
    <3> QED
      BY <3>1, <3>2, <3>3 DEF CountMiss, Sound, Counted, CountedBy
  <2>7. \A m \in Usable' \ shared' : Free(m)' => wrong'[m] <= attempts'[m]
    <3> SUFFICES ASSUME NEW m \in Usable' \ shared, Free(m)' PROVE wrong[m] <= attempts'[m]
      BY <2>1
    <3>1. CASE m = n
      BY <2>6, <3>1
    <3>2. CASE m # n
      <4>1. m \in Usable \ shared /\ m \in Code \ {n} /\ Free(m)
        BY <1>0, <2>1, <2>2, <3>2 DEF Usable, Rows, Free
      <4> QED
        BY <2>3, <4>1 DEF Sound, Counted
    <3> QED
      BY <3>1, <3>2
  <2>8. \/ signIns' = signIns
        \/ /\ n \in Rows /\ n \in consumed' /\ req[q].pc = "matched"
           /\ signIns'[n] = IF signIns[n] < 2 THEN signIns[n] + 1 ELSE signIns[n]
    <3>1. CASE CountMiss(q) \/ Burn(q)
      BY <3>1 DEF CountMiss, Burn, histories
    <3>2. CASE Accept(q)
      BY <1>0, <3>2 DEF Accept, Rows, Typed, TypeOK
    <3> QED
      BY <1>6, <3>1, <3>2
  <2>9. n \in Code \ shared => signIns[n] = 0 /\ (req[q].pc = "matched" => wrong[n] < MaxAttempts)
    <3>1. n \in Code \ shared /\ req[q].pc = "matched" => wrong[n] <= req[q].seen /\ req[q].seen < MaxAttempts
      BY DEF Sound, Counted, CountedBy, Typed, Within, Working
    <3> QED
      BY <1>0, <3>1 DEF Sound, UsedUp, Free
  <2>10. \A m \in Code \ shared : m = n => Free(m)'
    <3> SUFFICES ASSUME NEW m \in Code \ shared, m = n, NEW p \in Request PROVE req'[p].row # m
      BY DEF Free
    <3>1. CASE p = q
      BY <1>0, <2>2, <3>1
    <3>2. CASE p # q
      BY <2>2, <3>2 DEF Sound, Sole
    <3> QED
      BY <3>1, <3>2
  <2>11. UsedUp'
    <3> SUFFICES ASSUME NEW m \in Code \ shared, signIns'[m] # 0
                 PROVE  m \in consumed' /\ Free(m)'
      BY <2>1 DEF UsedUp
    <3>1. CASE m = n
      <4>1. signIns[n] = 0 /\ signIns'[n] # 0 /\ n \in Code \ shared
        BY <2>9, <3>1
      <4>2. n \in consumed'
        BY <2>8, <4>1
      <4> QED
        BY <2>10, <3>1, <4>2
    <3>2. CASE m # n
      BY <1>0, <2>1, <2>2, <2>3, <3>2 DEF Sound, UsedUp, Free
    <3> QED
      BY <3>1, <3>2
  <2>12. OnceUnlessShared' /\ CappedUnlessShared'
    <3>1. \A m \in Code \ shared : signIns'[m] <= 1 /\ (signIns'[m] = 1 => wrong[m] < MaxAttempts)
      <4> SUFFICES ASSUME NEW m \in Code \ shared
                   PROVE  signIns'[m] <= 1 /\ (signIns'[m] = 1 => wrong[m] < MaxAttempts)
        OBVIOUS
      <4>1. CASE m = n
        BY <2>8, <2>9, <4>1
      <4>2. CASE m # n
        BY <2>3, <4>2 DEF Sound, OnceUnlessShared
      <4> QED
        BY <4>1, <4>2
    <3> QED
      BY <2>1, <3>1 DEF Sound, OnceUnlessShared, CappedUnlessShared
  <2>13. \A m \in Code : m > issued' => wrong'[m] = 0 /\ signIns'[m] = 0
    <3> SUFFICES ASSUME NEW m \in Code, m > issued PROVE wrong[m] = 0 /\ signIns'[m] = 0
      BY <2>1
    <3>1. m # n
      BY DEF Typed, TypeOK
    <3> QED
      BY <2>3, <3>1 DEF Sound, Counted
  <2> QED
    BY <2>4, <2>5, <2>7, <2>11, <2>12, <2>13 DEF Sound, Counted
<1>7. ASSUME (\E n \in Code : Expire(n)) \/ PurgeExpired PROVE Sound'
  BY <1>7, SoundKept DEF Expire, PurgeExpired, histories, Usable, Rows
<1>8. ASSUME UNCHANGED vars PROVE Sound'
  BY <1>8, SoundKept DEF vars, Usable, Rows
<1> QED
  BY <1>1, <1>2, <1>3, <1>4, <1>5, <1>6, <1>7, <1>8 DEF Next

LEMMA AlwaysSound == ASSUME IsFiniteSet(Request) PROVE Spec => []Sound
<1>1. Init => Typed /\ Sound
  BY InitTyped, InitSound
<1>2. (Typed /\ Sound) /\ [Next]_vars => (Typed /\ Sound)'
  BY NextTyped, NextSound
<1> QED
  BY <1>1, <1>2, PTL DEF Spec

(* A code that one request at a time verifies is never compared with more   *)
(* wrong guesses than the cap, whatever is asked for, replaced, burnt or    *)
(* purged meanwhile.                                                        *)
THEOREM GuessesCapped == ASSUME IsFiniteSet(Request) PROVE Spec => []CappedUnlessShared
<1>1. Sound => CappedUnlessShared
  BY DEF Sound
<1> QED
  BY <1>1, AlwaysSound, PTL

(* Such a code lets one sign-in through at most, and none with its attempts *)
(* used up.                                                                 *)
THEOREM SignsInOnce == ASSUME IsFiniteSet(Request) PROVE Spec => []OnceUnlessShared
<1>1. Sound => OnceUnlessShared
  BY DEF Sound
<1> QED
  BY <1>1, AlwaysSound, PTL
-----------------------------------------------------------------------------
(* While no two codes were asked for at once, only one request makes a code, *)
(* and by the time it creates the row every earlier one is used up.          *)
Single ==
  ~raced =>
    /\ \A p, q \in Issuing : p = q
    /\ \A q \in Request : req[q].pc = "creating" => Usable = {}
    /\ \A m, n \in Usable : m = n

LEMMA SingleKept ==
  ASSUME Single, raced' = raced, Usable' \subseteq Usable, Issuing' \subseteq Issuing,
         \A q \in Request : req'[q].pc = "creating" => req[q].pc = "creating"
  PROVE  Single'
BY DEF Single

LEMMA NextSingle == ASSUME Typed, Single, [Next]_vars PROVE Single'
<1>1. ASSUME NEW q \in Request, AskForCode(q) PROVE Single'
  <2>1. /\ \A p \in Request : req'[p] = IF p = q THEN [req[q] EXCEPT !.pc = "hashing"] ELSE req[p]
        /\ raced' = (raced \/ Issuing # {}) /\ Usable' = Usable
    BY <1>1 DEF AskForCode, Advance, rows, Usable, Rows, Typed, TypeOK
  <2>2. Issuing = {} => Issuing' \subseteq {q} /\ \A p \in Request : req'[p].pc # "creating"
    BY <2>1 DEF Issuing, Typed, TypeOK
  <2> QED
    BY <2>1, <2>2 DEF Single
<1>2. ASSUME NEW q \in Request, InvalidateEarlier(q) PROVE Single'
  <2>1. \A p \in Request : req'[p] = IF p = q THEN [req[q] EXCEPT !.pc = "creating"] ELSE req[p]
    BY <1>2 DEF InvalidateEarlier, Advance, Typed, TypeOK
  <2>2. Issuing' = Issuing /\ Usable' = {} /\ raced' = raced
    BY <1>2, <2>1 DEF InvalidateEarlier, histories, Issuing, Usable, Rows, Typed, TypeOK
  <2> QED
    BY <2>2 DEF Single
<1>3. ASSUME NEW q \in Request, CreateCode(q) PROVE Single'
  <2>1. \A p \in Request : req'[p] = IF p = q THEN Idle ELSE req[p]
    BY <1>3 DEF CreateCode, Finish, Typed, TypeOK
  <2>2. q \in Issuing /\ Issuing' = Issuing \ {q} /\ issued' = issued + 1 /\ raced' = raced
    BY <1>3, <2>1 DEF CreateCode, histories, Idle, Issuing, Typed, TypeOK
  <2>3. Usable' \subseteq Usable \cup {issued + 1}
    BY <1>3, <2>2 DEF CreateCode, Usable, Rows, Typed, TypeOK
  <2>4. ~raced => Usable = {} /\ Issuing' = {}
    BY <1>3, <2>2 DEF CreateCode, Single
  <2>5. ~raced => \A p \in Request : req'[p].pc # "creating"
    BY <2>4 DEF Issuing
  <2> QED
    BY <2>2, <2>3, <2>4, <2>5 DEF Single
<1>4. ASSUME NEW q \in Request, NEW typed \in 0..issued, TypeCode(q, typed) PROVE Single'
  <2>1. PICK n \in Usable :
          req' = [req EXCEPT ![q] = [pc |-> NextStep(n), row |-> n, seen |-> attempts[n], typed |-> typed]]
    BY <1>4 DEF TypeCode
  <2>2. \A p \in Request : req'[p].pc \in {"hashing", "creating"} => req'[p].pc = req[p].pc
    BY <2>1 DEF NextStep, Typed, TypeOK
  <2> QED
    BY <1>4, <2>2, SingleKept DEF TypeCode, rows, Issuing, Usable, Rows
<1>5. ASSUME NEW q \in Request, Compare(q) PROVE Single'
  <2>1. PICK pc \in {"matched", "missed"} : req' = [req EXCEPT ![q].pc = pc]
    BY <1>5 DEF Compare, Advance
  <2>2. \A p \in Request : req'[p].pc \in {"hashing", "creating"} => req'[p].pc = req[p].pc
    BY <2>1 DEF Typed, TypeOK
  <2> QED
    BY <1>5, <2>2, SingleKept DEF Compare, rows, Issuing, Usable, Rows
<1>6. ASSUME NEW q \in Request, CountMiss(q) \/ Accept(q) \/ Burn(q) PROVE Single'
  <2>1. req' = [req EXCEPT ![q] = Idle] /\ raced' = raced
    BY <1>6 DEF CountMiss, Accept, Burn, Finish, histories
  <2>2. \A p \in Request : req'[p].pc \in {"hashing", "creating"} => req'[p].pc = req[p].pc
    BY <2>1 DEF Idle, Typed, TypeOK
  <2>3. Usable' \subseteq Usable
    BY <1>6 DEF CountMiss, Accept, Burn, Usable, Rows
  <2> QED
    BY <2>1, <2>2, <2>3, SingleKept DEF Issuing
<1>7. ASSUME (\E n \in Code : Expire(n)) \/ PurgeExpired \/ UNCHANGED vars PROVE Single'
  BY <1>7, SingleKept DEF Expire, PurgeExpired, vars, histories, Issuing, Usable, Rows
<1> QED
  BY <1>1, <1>2, <1>3, <1>4, <1>5, <1>6, <1>7 DEF Next

(* Only the newest code works, unless two were asked for at once: no late   *)
(* write of a verification brings an older one back.                        *)
THEOREM OnlyNewest == ASSUME IsFiniteSet(Request) PROVE Spec => []NewestUnlessRaced
<1>1. Init => Typed /\ Single
  <2>1. Init => Usable = {} /\ Issuing = {}
    BY DEF Init, Usable, Rows, Issuing, Idle
  <2> QED
    BY <2>1, InitTyped DEF Single
<1>2. (Typed /\ Single) /\ [Next]_vars => (Typed /\ Single)'
  BY NextTyped, NextSingle
<1>3. Single => NewestUnlessRaced
  <2>1. Cardinality({}) = 0 /\ \A m : Cardinality({m}) = 1
    BY FS_EmptySet, FS_Singleton
  <2>2. ASSUME \A m, n \in Usable : m = n PROVE Cardinality(Usable) <= 1
    <3>1. CASE Usable = {}
      BY <2>1, <3>1
    <3>2. ASSUME NEW m \in Usable PROVE Cardinality(Usable) <= 1
      <4>1. Usable = {m}
        BY <2>2
      <4>2. Cardinality(Usable) = 1
        BY <2>1, <4>1
      <4> QED
        BY <4>2
    <3> QED
      BY <3>1, <3>2
  <2>3. CASE raced
    BY <2>3 DEF NewestUnlessRaced
  <2>4. CASE ~raced
    <3>1. Single => \A m, n \in Usable : m = n
      BY <2>4 DEF Single
    <3> QED
      BY <3>1, <2>2 DEF NewestUnlessRaced
  <2> QED
    BY <2>3, <2>4
<1> QED
  BY <1>1, <1>2, <1>3, PTL DEF Spec

(* A code that was used, burnt or replaced stays so, whatever a             *)
(* verification that read the row before writes afterwards.                 *)
THEOREM ConsumedStays == Spec => ConsumedForGood
<1>1. [Next]_vars => [consumed \subseteq consumed']_vars
  BY DEF Next, AskForCode, InvalidateEarlier, CreateCode, TypeCode, Compare, CountMiss, Accept, Burn,
     Expire, PurgeExpired, rows, vars
<1> QED
  BY <1>1, PTL DEF Spec, ConsumedForGood

-----------------------------------------------------------------------------
(* The sessions beside them: what is proved of every set of accounts. *)
Proved == INSTANCE SessionsProofs WITH
  Staff <- Member, Portal <- Family, Email <- Address,
  SharedTokens <- FALSE, Failures <- FALSE,
  expired <- expired2, consumed <- consumed2, req <- req2

(* However many refreshes, sign-outs, resets and removals overlap, a token   *)
(* is exchanged once, and is dead then or about to be.                      *)
THEOREM RotationOnce ==
  ASSUME Member \cap Family = {}, DOMAIN Address = Member \cup Family,
         None \notin Overlapping!Account \cup Token \cup Link \cup Overlapping!Purpose
  PROVE  Overlapping!Spec => []ExchangedOnce
<1>1. Overlapping!Init => Proved!Init
  BY DEF Overlapping!Init, Overlapping!Idle, Overlapping!Account, Overlapping!Status,
         Proved!Init, Proved!Idle, Proved!Account, Proved!Status
<1>2. [Overlapping!Next]_(Overlapping!vars) => [Proved!Next]_(Proved!vars)
  BY DEF Overlapping!vars, Overlapping!accounts, Overlapping!tokens, Overlapping!links,
         Overlapping!Account, Overlapping!Purpose, Overlapping!Exists, Overlapping!HasRow,
         Overlapping!Live, Overlapping!SessionsOf, Overlapping!LinkLive, Overlapping!Idle,
         Overlapping!Asks, Overlapping!Advance, Overlapping!Finish, Overlapping!SignIn,
         Overlapping!CodeSignIn, Overlapping!Refresh, Overlapping!Ends, Overlapping!Mark,
         Overlapping!EndAllOnReuse, Overlapping!Reread, Overlapping!Issue,
         Overlapping!IssueRejected, Overlapping!LinkRotation, Overlapping!Logout,
         Overlapping!Revoke, Overlapping!AskForLink, Overlapping!ReplaceLinks,
         Overlapping!MintLink, Overlapping!MintRejected, Overlapping!OpenLink,
         Overlapping!ConsumeLink, Overlapping!StatusAfterPassword,
         Overlapping!WritePassword, Overlapping!WriteRejected, Overlapping!EndAllOnReset,
         Overlapping!Abort, Overlapping!SetStatus, Overlapping!Remove,
         Overlapping!TokenExpires, Overlapping!LinkExpires, Overlapping!Arrive,
         Overlapping!Continue, Overlapping!Next, Proved!vars, Proved!accounts,
         Proved!tokens, Proved!links, Proved!Account, Proved!Purpose, Proved!Exists,
         Proved!HasRow, Proved!Live, Proved!SessionsOf, Proved!LinkLive, Proved!Idle,
         Proved!Asks, Proved!Advance, Proved!Finish, Proved!SignIn, Proved!CodeSignIn,
         Proved!Refresh, Proved!Ends, Proved!Mark, Proved!EndAllOnReuse, Proved!Reread,
         Proved!Issue, Proved!IssueRejected, Proved!LinkRotation, Proved!Logout,
         Proved!Revoke, Proved!AskForLink, Proved!ReplaceLinks, Proved!MintLink,
         Proved!MintRejected, Proved!OpenLink, Proved!ConsumeLink,
         Proved!StatusAfterPassword, Proved!WritePassword, Proved!WriteRejected,
         Proved!EndAllOnReset, Proved!Abort, Proved!SetStatus, Proved!Remove,
         Proved!TokenExpires, Proved!LinkExpires, Proved!Arrive, Proved!Continue,
         Proved!Next
<1>3. Proved!Spec => []Proved!ExchangedOnce
  BY Proved!TokensExchangedOnce
  DEF Overlapping!Account, Proved!Account, Overlapping!Purpose, Proved!Purpose
<1>4. Proved!ExchangedOnce => ExchangedOnce
  BY DEF ExchangedOnce, Overlapping!ExchangedOnce, Overlapping!OneSuccessor, Overlapping!RotatedIsRetired,
         Overlapping!Live, Overlapping!HasRow, Overlapping!Exists, Proved!ExchangedOnce,
         Proved!OneSuccessor, Proved!RotatedIsRetired, Proved!Live, Proved!HasRow,
         Proved!Exists
<1>5. QED
  BY <1>1, <1>2, <1>3, <1>4, PTL DEF Overlapping!Spec, Proved!Spec
=============================================================================
