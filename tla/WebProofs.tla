----------------------------- MODULE WebProofs -----------------------------
(***************************************************************************)
(* What the web app's pages and its store keep: the roll call and the      *)
(* assessment form everybody on record, the syllabus page the order of its  *)
(* topics, and the store the role rules, for any staff, roles and           *)
(* permissions and any number of Undo buttons.                              *)
(***************************************************************************)
EXTENDS StoreRoles, Pages, Sequences, FiniteSetTheorems, TLAPS

(* Nil is not a register, so that the two can be told apart. *)
NilIsNone == \A S : Nil \notin [S -> Rolls!Mark]

Registered(r) == register[r] # Nil

RollInv ==
  /\ register = [r \in Rolls!Registers |-> register[r]]
  /\ \A r \in Rolls!Registers : Registered(r) =>
       register[r] \in [DOMAIN register[r] -> Rolls!Mark] /\ DOMAIN register[r] \subseteq DOMAIN students
  /\ page # Nil =>
       /\ <<page.batch, page.date>> \in Rolls!Registers
       /\ page = [batch |-> page.batch, date |-> page.date, marks |-> page.marks]
       /\ page.marks \in [DOMAIN page.marks -> Rolls!Mark]
       /\ Rolls!Recorded(page.batch, page.date) \subseteq DOMAIN page.marks

(* The page is closed at first. *)
LEMMA RollInit == Rolls!Init => RollInv
  BY DEF Rolls!Init, RollInv, Registered, Rolls!Registers

(* What is saved holds marks, of everyone recorded before. *)
LEMMA SaveRecords ==
  ASSUME RollInv, NEW fill \in {Nil, "A"}, page # Nil
  PROVE  /\ Rolls!Records(fill) \in [DOMAIN Rolls!Records(fill) -> Rolls!Mark]
         /\ DOMAIN Rolls!Records(fill) \subseteq DOMAIN students
         /\ Rolls!Recorded(page.batch, page.date) \subseteq DOMAIN Rolls!Records(fill)
<1> DEFINE roll == Rolls!Roll(page.batch, page.date)
           kept == IF fill = Nil THEN roll \cap DOMAIN page.marks ELSE roll
<1>1. Rolls!Records(fill) = [s \in kept |-> IF s \in DOMAIN page.marks THEN page.marks[s] ELSE fill]
  BY DEF Rolls!Records
<1>2. Rolls!Recorded(page.batch, page.date) \subseteq DOMAIN students
  BY DEF RollInv, Rolls!Recorded, Registered
<1>3. /\ roll \subseteq DOMAIN students /\ Rolls!Recorded(page.batch, page.date) \subseteq roll
      /\ Rolls!Recorded(page.batch, page.date) \subseteq DOMAIN page.marks
  BY <1>2 DEF Rolls!Roll, Rolls!RollFor, Rolls!Admitted, RollInv
<1> HIDE DEF roll
<1>4. page.marks \in [DOMAIN page.marks -> Rolls!Mark] /\ "A" \in Rolls!Mark
  BY DEF RollInv, Rolls!Mark
<1>5. QED BY <1>1, <1>3, <1>4

(* What the page starts from holds marks, of everyone recorded. *)
LEMMA BaselineRecords ==
  ASSUME RollInv, NEW b \in Class, NEW d \in Date
  PROVE  /\ Rolls!Baseline(b, d) \in [DOMAIN Rolls!Baseline(b, d) -> Rolls!Mark]
         /\ Rolls!Recorded(b, d) \subseteq DOMAIN Rolls!Baseline(b, d)
<1>1. <<b, d>> \in Rolls!Registers
  BY DEF Rolls!Registers
<1>2. CASE Registered(<<b, d>>)
  BY <1>1, <1>2 DEF RollInv, Rolls!Baseline, Rolls!Recorded, Registered
<1>3. CASE ~Registered(<<b, d>>)
  BY <1>1, <1>3 DEF Rolls!Baseline, Rolls!Recorded, Rolls!Mark, Registered
<1>4. QED BY <1>2, <1>3

(* A step that changes only the students forgets none. *)
LEMMA StudentsChange ==
  ASSUME RollInv, DOMAIN students \subseteq DOMAIN students', UNCHANGED <<register, page>>
  PROVE  RollInv'
  BY DEF RollInv, Rolls!Recorded, Rolls!Registers, Rolls!Mark, Registered

(* A new draft holds marks, of everyone recorded. *)
LEMMA DraftChange ==
  ASSUME RollInv, UNCHANGED <<register, students>>, NEW b \in Class, NEW d \in Date, NEW marks,
         marks \in [DOMAIN marks -> Rolls!Mark], Rolls!Recorded(b, d) \subseteq DOMAIN marks,
         page' = [batch |-> b, date |-> d, marks |-> marks]
  PROVE  RollInv'
<1>1. /\ <<page'.batch, page'.date>> \in Rolls!Registers
      /\ page' = [batch |-> page'.batch, date |-> page'.date, marks |-> page'.marks]
      /\ page'.marks \in [DOMAIN page'.marks -> Rolls!Mark]
      /\ Rolls!Recorded(page'.batch, page'.date) \subseteq DOMAIN page'.marks
  BY DEF Rolls!Registers
<1>2. QED BY <1>1 DEF RollInv, Rolls!Recorded, Rolls!Registers, Rolls!Mark, Registered

(* The same, of the batch and day on screen. *)
LEMMA MarksChange ==
  ASSUME RollInv, page # Nil, NEW marks, Rolls!SetMarks(marks),
         marks \in [DOMAIN marks -> Rolls!Mark],
         Rolls!Recorded(page.batch, page.date) \subseteq DOMAIN marks
  PROVE  RollInv' /\ UNCHANGED register
<1>1. page.batch \in Class /\ page.date \in Date
  BY DEF RollInv, Rolls!Registers
<1>2. page' = [batch |-> page.batch, date |-> page.date, marks |-> marks]
  BY DEF Rolls!SetMarks, RollInv
<1>3. UNCHANGED <<register, students>>
  BY DEF Rolls!SetMarks
<1>4. QED BY <1>1, <1>2, <1>3, DraftChange

KeepsRecords ==
  \A r \in Rolls!Registers : register[r] # Nil =>
    register'[r] # Nil /\ DOMAIN register[r] \subseteq DOMAIN register'[r]

(* Every step of the roll call keeps the records. *)
LEMMA RollStep ==
  ASSUME NilIsNone, RollInv, [Rolls!Next]_(Rolls!vars)
  PROVE  RollInv' /\ KeepsRecords
<1>1. UNCHANGED register => KeepsRecords
  BY DEF KeepsRecords
<1>2. CASE UNCHANGED Rolls!vars
  BY <1>1, <1>2, StudentsChange DEF Rolls!vars
<1>3. ASSUME NEW b \in Class, NEW d \in Date, Rolls!Open(b, d) PROVE RollInv' /\ KeepsRecords
  BY <1>1, <1>3, BaselineRecords, DraftChange DEF Rolls!Open
<1>4. CASE Rolls!Leave
  BY <1>1, <1>4 DEF Rolls!Leave, RollInv, Rolls!Registers, Rolls!Mark, Registered
<1>5. CASE Rolls!MarkRestPresent
  <2> DEFINE marks == [x \in DOMAIN page.marks \cup Rolls!Unmarked |->
                         IF x \in Rolls!Unmarked THEN "P" ELSE page.marks[x]]
  <2>1. page # Nil /\ Rolls!SetMarks(marks)
    BY <1>5 DEF Rolls!MarkRestPresent, Rolls!Editing
  <2>2. marks \in [DOMAIN marks -> Rolls!Mark]
        /\ Rolls!Recorded(page.batch, page.date) \subseteq DOMAIN marks
    BY <2>1 DEF RollInv, Rolls!Mark
  <2> HIDE DEF marks
  <2>3. QED BY <1>1, <2>1, <2>2, MarksChange
<1>6. CASE Rolls!Reset
  <2>1. page # Nil /\ Rolls!SetMarks(Rolls!Baseline(page.batch, page.date))
    BY <1>6 DEF Rolls!Reset, Rolls!Editing
  <2>2. page.batch \in Class /\ page.date \in Date
    BY <2>1 DEF RollInv, Rolls!Registers
  <2>3. QED BY <1>1, <2>1, <2>2, BaselineRecords, MarksChange
<1>7. ASSUME NEW fill \in {Nil, "A"}, Rolls!Save(fill) PROVE RollInv' /\ KeepsRecords
  <2> DEFINE records == Rolls!Records(fill)
             here == <<page.batch, page.date>>
  <2>1. /\ page # Nil /\ UNCHANGED students
        /\ register' = [register EXCEPT ![here] = records]
        /\ page' = [page EXCEPT !.marks = records]
    BY <1>7 DEF Rolls!Save, Rolls!Editing
  <2>2. /\ records \in [DOMAIN records -> Rolls!Mark] /\ DOMAIN records \subseteq DOMAIN students
        /\ Rolls!Recorded(page.batch, page.date) \subseteq DOMAIN records
    BY <2>1, SaveRecords
  <2> HIDE DEF records
  <2>3. records # Nil
    BY <2>2 DEF NilIsNone
  <2>4. here \in Rolls!Registers
    BY <2>1 DEF RollInv
  <2>5. \A r \in Rolls!Registers : register'[r] = IF r = here THEN records ELSE register[r]
    BY <2>1 DEF RollInv
  <2>6. KeepsRecords
    BY <2>2, <2>3, <2>5 DEF KeepsRecords, Rolls!Recorded
  <2>7. page' = [batch |-> page.batch, date |-> page.date, marks |-> records]
    BY <2>1 DEF RollInv
  <2>8. register' = [r \in Rolls!Registers |-> register'[r]]
    BY <2>1 DEF RollInv
  <2>9. \A r \in Rolls!Registers : register'[r] # Nil =>
          register'[r] \in [DOMAIN register'[r] -> Rolls!Mark] /\ DOMAIN register'[r] \subseteq DOMAIN students'
    BY <2>1, <2>2, <2>5 DEF RollInv, Registered
  <2>10. /\ <<page'.batch, page'.date>> \in Rolls!Registers
         /\ page' = [batch |-> page'.batch, date |-> page'.date, marks |-> page'.marks]
         /\ page'.marks \in [DOMAIN page'.marks -> Rolls!Mark]
         /\ (IF register'[<<page'.batch, page'.date>>] = Nil THEN {}
             ELSE DOMAIN register'[<<page'.batch, page'.date>>]) \subseteq DOMAIN page'.marks
    BY <2>2, <2>4, <2>5, <2>7
  <2>11. RollInv'
    BY <2>8, <2>9, <2>10 DEF RollInv, Rolls!Recorded, Rolls!Registers, Rolls!Mark, Registered
  <2>12. QED BY <2>6, <2>11
<1>8. ASSUME NEW s \in Student, NEW m \in Rolls!Mark, Rolls!SetMark(s, m)
      PROVE  RollInv' /\ KeepsRecords
  <2> DEFINE marks == [x \in DOMAIN page.marks \cup {s} |-> IF x = s THEN m ELSE page.marks[x]]
  <2>1. page # Nil /\ Rolls!SetMarks(marks)
    BY <1>8 DEF Rolls!SetMark, Rolls!Editing
  <2>2. marks \in [DOMAIN marks -> Rolls!Mark]
        /\ Rolls!Recorded(page.batch, page.date) \subseteq DOMAIN marks
    BY <2>1 DEF RollInv
  <2> HIDE DEF marks
  <2>3. QED BY <1>1, <2>1, <2>2, MarksChange
<1>9. ASSUME DOMAIN students \subseteq DOMAIN students', UNCHANGED <<register, page>>
      PROVE  RollInv' /\ KeepsRecords
  BY <1>1, <1>9, StudentsChange
<1>10. ASSUME NEW s \in Student,
              \/ \E p \in Rolls!Profile : Rolls!Admit(s, p) \/ Rolls!EditStudent(s, p)
              \/ \E st \in Rolls!StudentStatus : Rolls!SetStatus(s, st)
              \/ \E b \in Class : Rolls!RemoveFromBatch(s, b)
       PROVE  RollInv' /\ KeepsRecords
  BY <1>9, <1>10
  DEF Rolls!Admit, Rolls!EditStudent, Rolls!SetStatus, Rolls!RemoveFromBatch, Rolls!UpdateStudent,
      Rolls!Admitted
<1>11. ASSUME NEW t \in undos, Rolls!Undo(t) \/ Rolls!Dismiss(t) PROVE RollInv' /\ KeepsRecords
  BY <1>9, <1>11 DEF Rolls!Undo, Rolls!Dismiss, Rolls!UpdateStudent
<1>12. QED BY <1>2, <1>3, <1>4, <1>5, <1>6, <1>7, <1>8, <1>10, <1>11 DEF Rolls!Next

-----------------------------------------------------------------------------
(* The assessment form. *)

ResultsInv == results = [id \in Result |-> results[id]]
KeepsScores ==
  \A id \in Result : results[id] # Nil /\ results'[id] # Nil =>
    DOMAIN results[id].scores \subseteq DOMAIN results'[id].scores

(* Every step of the assessment form keeps the scores. *)
LEMMA ResultStep ==
  ASSUME ResultsInv, [Results!Next]_(Results!vars)
  PROVE  ResultsInv' /\ KeepsScores
<1>1. CASE UNCHANGED results
  BY <1>1 DEF ResultsInv, KeepsScores
<1>2. ASSUME NEW id \in Result, Results!Submit(id) PROVE ResultsInv' /\ KeepsScores
  <2>1. /\ results' = [results EXCEPT ![id] = Results!Payload(form)]
        /\ form.batch # Nil
        /\ IF form.id = Nil THEN results[id] = Nil ELSE id = form.id
    BY <1>2 DEF Results!Submit
  <2>2. DOMAIN Results!Payload(form).scores = Results!Roll(form)
    BY DEF Results!Payload
  <2>3. results[id] # Nil => DOMAIN results[id].scores \subseteq Results!Roll(form)
    BY <2>1 DEF Results!Roll, Results!Scored
  <2>4. \A x \in Result : results'[x] = IF x = id THEN Results!Payload(form) ELSE results[x]
    BY <2>1 DEF ResultsInv
  <2>5. ResultsInv'
    BY <2>1 DEF ResultsInv
  <2>6. QED BY <2>2, <2>3, <2>4, <2>5 DEF KeepsScores
<1>3. ASSUME NEW id \in Result, Results!Delete(id) PROVE ResultsInv' /\ KeepsScores
  BY <1>3 DEF Results!Delete, ResultsInv, KeepsScores
<1>4. ASSUME NEW t \in deleted, NEW id \in Result, Results!Undo(t, id)
      PROVE  ResultsInv' /\ KeepsScores
  BY <1>4 DEF Results!Undo, ResultsInv, KeepsScores
<1>5. QED BY <1>1, <1>2, <1>3, <1>4
  DEF Results!Next, Results!vars, Results!OpenNew, Results!OpenEdit, Results!Close, Results!Typing,
      Results!ChangeBatch, Results!ChangeDate, Results!ChangeMax, Results!PatchScore,
      Results!MarkRestAbsent, Results!Dismiss, Results!ChangeRoll

(* Saving a register or a paper again never drops a student recorded in it,  *)
(* though they left the batch, went inactive or moved their joining date    *)
(* while the draft was open.                                               *)
THEOREM RecordsSurvive ==
  ASSUME NilIsNone
  PROVE  Rolls!Spec /\ Results!Spec => RecordsKept
<1>1. RollInv /\ [Rolls!Next]_(Rolls!vars) => RollInv' /\ [KeepsRecords]_(Rolls!vars)
  BY RollStep
<1>2. Rolls!Spec => Rolls!RecordsKept
  BY RollInit, <1>1, PTL DEF Rolls!Spec, Rolls!RecordsKept, KeepsRecords
<1>3. Results!Init => ResultsInv
  BY DEF Results!Init, ResultsInv
<1>4. ResultsInv /\ [Results!Next]_(Results!vars) => ResultsInv' /\ [KeepsScores]_(Results!vars)
  BY ResultStep
<1>5. Results!Spec => Results!ScoresKept
  BY <1>3, <1>4, PTL DEF Results!Spec, Results!ScoresKept, KeepsScores
<1>6. QED BY <1>2, <1>5 DEF RecordsKept

-----------------------------------------------------------------------------
(* The syllabus. *)

NilIsNoTopic == MaxOrder \in Nat \ {0} /\ Nil \notin [chapter : Chapter, order : 1..MaxOrder]
SyllabusTyped == topics \in [Topic -> {Nil} \cup [chapter : Chapter, order : 1..MaxOrder]]

(* The last number in use is the greatest, or zero. *)
LEMMA LastIsGreatest ==
  ASSUME NilIsNoTopic, SyllabusTyped, NEW ts \in SUBSET Topics!Present
  PROVE  /\ Topics!Last(ts) \in 0..MaxOrder
         /\ Topics!Last(ts) = 0 \/ \E t \in ts : topics[t].order = Topics!Last(ts)
         /\ \A t \in ts : topics[t].order <= Topics!Last(ts)
<1> DEFINE Bounds == {n \in Nat : \A t \in ts : topics[t].order <= n}
           Less == OpToRel(<, Nat)
           Good(n) == /\ n = 0 \/ \E t \in ts : topics[t].order = n
                      /\ \A t \in ts : topics[t].order <= n
<1>1. \A t \in ts : topics[t].order \in 1..MaxOrder
  BY DEF NilIsNoTopic, SyllabusTyped, Topics!Present
<1>2. MaxOrder \in Bounds /\ Bounds \subseteq Nat
  BY <1>1 DEF NilIsNoTopic
<1>3. \A j, k \in Nat : j < k => <<j, k>> \in Less
  BY DEF OpToRel
<1>4. IsWellFoundedOn(Less, Nat)
  BY NatLessThanWellFounded
<1> HIDE DEF Less, Bounds
<1>5. PICK m \in Bounds : \A k \in Bounds : <<k, m>> \notin Less
  BY <1>2, <1>4, WFMin
<1>6. m \in Nat /\ \A t \in ts : topics[t].order <= m
  BY <1>5 DEF Bounds
<1>7. Good(m)
  <2> SUFFICES ASSUME m # 0, ~\E t \in ts : topics[t].order = m PROVE FALSE
    BY <1>6
  <2>1. m - 1 \in Nat /\ m - 1 < m /\ \A t \in ts : topics[t].order <= m - 1
    BY <1>1, <1>6
  <2>2. m - 1 \in Bounds
    BY <2>1 DEF Bounds
  <2>3. QED BY <1>3, <1>5, <1>6, <2>1, <2>2
<1>8. m \in 0..MaxOrder
  BY <1>1, <1>6, <1>7 DEF NilIsNoTopic
<1>9. Topics!Last(ts) = CHOOSE n \in 0..MaxOrder : Good(n)
  BY DEF Topics!Last
<1> HIDE DEF Good
<1>10. Topics!Last(ts) \in 0..MaxOrder /\ Good(Topics!Last(ts))
  BY <1>7, <1>8, <1>9, Zenon
<1>11. QED BY <1>10 DEF Good

(* What the screens rely on, of the rows of any state. *)
Rows == [Topic -> {Nil} \cup [chapter : Chapter, order : 1..MaxOrder]]
InUse(rows) == {t \in Topic : rows[t] # Nil}
InOrder(rows) ==
  /\ \A t, u \in InUse(rows) : t # u => rows[t].order # rows[u].order
  /\ \A x, y, v \in InUse(rows) :
       rows[x].chapter = rows[y].chapter /\ rows[x].order < rows[v].order
         /\ rows[v].order < rows[y].order => rows[v].chapter = rows[x].chapter

SyllabusInv == topics \in Rows /\ InOrder(topics)

(* The invariant says of the topics what the property says. *)
LEMMA InvIsInOrder == SyllabusInv => SyllabusTyped /\ SyllabusInOrder
  BY DEF SyllabusInv, SyllabusTyped, Rows, InOrder, InUse, SyllabusInOrder, Topics!Present,
         Topics!OrdersDistinct, Topics!ChaptersTogether

(* A row of the syllabus. *)
Place(r) == r \in [chapter : Chapter, order : 1..MaxOrder]

(* Of numbers and chapters alone: t joins S at n, behind the members of its *)
(* chapter c, in front of all that are shifted by one.                      *)
Joins(S, t, n, c, ch, old, new) ==
  /\ t \notin S /\ n \in Nat
  /\ old \in [S -> Nat] /\ new \in [S \cup {t} -> Nat]
  /\ ch[t] = c /\ new[t] = n
  /\ \A u \in S : old[u] >= n => new[u] = old[u] + 1
  /\ \A u \in S : old[u] < n => new[u] = old[u]
  /\ \A u, v \in S : u # v => old[u] # old[v]
  /\ \A a, b, d \in S : ch[a] = ch[b] /\ old[a] < old[d] /\ old[d] < old[b] => ch[d] = ch[a]
  /\ \A u \in S : ch[u] = c => old[u] < n
  /\ \/ \E w \in S : ch[w] = c /\ old[w] = n - 1
     \/ \A u \in S : ch[u] # c /\ old[u] < n

(* Then no number is given twice and no chapter is split. *)
LEMMA JoinedInOrder ==
  ASSUME NEW S, NEW t, NEW n, NEW c, NEW ch, NEW old, NEW new, Joins(S, t, n, c, ch, old, new)
  PROVE  /\ \A u, v \in S \cup {t} : u # v => new[u] # new[v]
         /\ \A x, y, v \in S \cup {t} :
              ch[x] = ch[y] /\ new[x] < new[v] /\ new[v] < new[y] => ch[v] = ch[x]
<1> USE DEF Joins
<1>1. \A u \in S : old[u] \in Nat /\ new[u] \in Nat
  OBVIOUS
<1>2. \A u, v \in S \cup {t} : u # v => new[u] # new[v]
  <2> SUFFICES ASSUME NEW u \in S \cup {t}, NEW v \in S \cup {t}, u # v PROVE new[u] # new[v]
    OBVIOUS
  <2>1. CASE u \in S /\ v \in S
    BY <1>1, <2>1
  <2>2. CASE u = t
    BY <1>1, <2>2
  <2>3. CASE v = t
    BY <1>1, <2>3
  <2>4. QED BY <2>1, <2>2, <2>3
<1>3. ASSUME NEW x \in S \cup {t}, NEW y \in S \cup {t}, NEW v \in S \cup {t},
             ch[x] = ch[y], new[x] < new[v], new[v] < new[y]
      PROVE  ch[v] = ch[x]
  <2>1. CASE x # t /\ y # t /\ v # t
    <3>1. x \in S /\ y \in S /\ v \in S
      BY <2>1
    <3>2. old[x] < old[v] /\ old[v] < old[y]
      BY <1>1, <1>3, <3>1
    <3>3. QED BY <1>3, <3>1, <3>2
  <2>2. CASE v = t
    <3>1. x \in S /\ y \in S
      BY <1>1, <1>3, <2>2
    <3>2. old[x] < n /\ old[y] >= n
      BY <1>1, <1>3, <2>2, <3>1
    <3>3. PICK w \in S : ch[w] = c /\ old[w] = n - 1
      BY <1>1, <3>1, <3>2
    <3>4. x = w \/ old[x] < old[w]
      BY <1>1, <3>1, <3>2, <3>3
    <3>5. old[w] < old[y]
      BY <1>1, <3>1, <3>2, <3>3
    <3>6. QED BY <1>3, <2>2, <3>1, <3>3, <3>4, <3>5
  <2>3. CASE y = t /\ x # t /\ v # t
    <3>1. x \in S /\ v \in S /\ ch[x] = c
      BY <1>3, <2>3
    <3>2. old[x] < n /\ new[v] < n
      BY <1>3, <2>3, <3>1
    <3>3. old[v] = new[v] /\ old[x] = new[x]
      BY <1>1, <3>1, <3>2
    <3>4. PICK w \in S : ch[w] = c /\ old[w] = n - 1
      BY <3>1
    <3>5. v = w \/ old[v] < old[w]
      BY <1>1, <3>1, <3>2, <3>3, <3>4
    <3>6. QED BY <1>3, <3>1, <3>3, <3>4, <3>5
  <2>4. CASE x = t
    <3>1. y \in S /\ ch[y] = c
      BY <1>1, <1>3, <2>4
    <3>2. new[y] < n
      BY <3>1
    <3>3. new[v] \in Nat
      OBVIOUS
    <3>4. QED BY <1>1, <1>3, <2>4, <3>1, <3>2, <3>3
  <2>5. QED BY <2>1, <2>2, <2>3, <2>4
<1>4. QED BY <1>2, <1>3

(* The rows with t put at n in chapter c, the rest shifted. *)
Shifts(rows, rowsN, t, c, n, others) ==
  /\ rows \in Rows /\ InOrder(rows)
  /\ t \in Topic /\ c \in Chapter /\ n \in 1..MaxOrder
  /\ others = InUse(rows) \ {t}
  /\ \A u \in others : rows[u].order < MaxOrder
  /\ \A u \in others : rows[u].chapter = c => rows[u].order < n
  /\ \/ \E w \in others : rows[w].chapter = c /\ rows[w].order = n - 1
     \/ \A u \in others : rows[u].chapter # c /\ rows[u].order < n
  /\ rowsN = [u \in Topic |-> IF u = t THEN [chapter |-> c, order |-> n]
                              ELSE IF rows[u] # Nil /\ rows[u].order >= n
                                THEN [rows[u] EXCEPT !.order = @ + 1] ELSE rows[u]]

(* Making room behind a topic keeps the order. *)
LEMMA ShiftedInOrder ==
  ASSUME NilIsNoTopic, NEW rows, NEW rowsN, NEW t, NEW c, NEW n, NEW others,
         Shifts(rows, rowsN, t, c, n, others)
  PROVE  rowsN \in Rows /\ InOrder(rowsN)
<1> USE DEF Shifts
<1>1. \A u \in others : Place(rows[u]) /\ rows[u] # Nil /\ u \in Topic /\ u # t
  BY DEF Rows, InUse, Place
<1>2. ASSUME NEW u \in others
      PROVE  /\ rowsN[u].chapter = rows[u].chapter
             /\ rows[u].order >= n => rowsN[u].order = rows[u].order + 1
             /\ rows[u].order < n => rowsN[u].order = rows[u].order
             /\ rows[u].order \in Nat /\ rowsN[u].order \in Nat /\ Place(rowsN[u])
  <2>1. /\ rows[u] = [chapter |-> rows[u].chapter, order |-> rows[u].order]
        /\ rows[u].chapter \in Chapter /\ rows[u].order \in 1..MaxOrder /\ rows[u].order < MaxOrder
    BY <1>1 DEF Place
  <2>2. [rows[u] EXCEPT !.order = @ + 1] = [chapter |-> rows[u].chapter, order |-> rows[u].order + 1]
    BY <2>1
  <2>3. CASE rows[u].order >= n
    <3>1. rowsN[u] = [chapter |-> rows[u].chapter, order |-> rows[u].order + 1]
      BY <1>1, <2>2, <2>3
    <3>2. rows[u].order + 1 \in 1..MaxOrder /\ rows[u].order \in Nat /\ rows[u].order + 1 \in Nat
      BY <2>1 DEF NilIsNoTopic
    <3>3. ~(rows[u].order < n)
      BY <2>1, <2>3
    <3>4. QED BY <2>1, <3>1, <3>2, <3>3 DEF Place
  <2>4. CASE rows[u].order < n
    <3>1. ~(rows[u].order >= n)
      BY <2>1, <2>4
    <3>2. rowsN[u] = rows[u]
      BY <1>1, <3>1
    <3>3. QED BY <1>1, <2>1, <3>1, <3>2
  <2>5. QED BY <2>1, <2>3, <2>4
<1>3. rowsN[t] = [chapter |-> c, order |-> n] /\ Place(rowsN[t])
  BY DEF Place
<1>4. \A u \in Topic \ (others \cup {t}) : rowsN[u] = Nil
  BY DEF InUse
<1>5. DOMAIN rowsN = Topic /\ rowsN = [u \in Topic |-> rowsN[u]]
  OBVIOUS
<1>6. rowsN \in Rows
  <2> SUFFICES \A u \in Topic : rowsN[u] \in {Nil} \cup [chapter : Chapter, order : 1..MaxOrder]
    BY <1>5 DEF Rows
  <2>1. \A u \in Topic : u \in others \/ u = t \/ u \in Topic \ (others \cup {t})
    OBVIOUS
  <2>2. QED BY <1>2, <1>3, <1>4, <2>1 DEF Place
<1>7. InUse(rowsN) = others \cup {t}
  <2>1. \A r : Place(r) => r # Nil
    BY DEF Place, NilIsNoTopic
  <2>2. \A u \in others \cup {t} : u \in Topic /\ rowsN[u] # Nil
    BY <1>1, <1>2, <1>3, <2>1
  <2>3. QED BY <1>4, <2>2 DEF InUse
<1> DEFINE old == [u \in others |-> rows[u].order]
           new == [u \in others \cup {t} |-> rowsN[u].order]
           ch == [u \in others \cup {t} |-> rowsN[u].chapter]
<1>8. t \notin others /\ rowsN[t].order = n /\ rowsN[t].chapter = c /\ n \in Nat
  BY <1>1, <1>3
<1>9. /\ \A u \in others : old[u] = rows[u].order /\ new[u] = rowsN[u].order /\ ch[u] = rows[u].chapter
      /\ new[t] = n /\ ch[t] = c
      /\ old \in [others -> Nat] /\ new \in [others \cup {t} -> Nat]
  BY <1>2, <1>8
<1>10. /\ \A u, v \in others : u # v => old[u] # old[v]
       /\ \A a, b, d \in others : ch[a] = ch[b] /\ old[a] < old[d] /\ old[d] < old[b] => ch[d] = ch[a]
  <2>1. /\ \A u, v \in others : u # v => rows[u].order # rows[v].order
        /\ \A x, y, v \in others :
             rows[x].chapter = rows[y].chapter /\ rows[x].order < rows[v].order
               /\ rows[v].order < rows[y].order => rows[v].chapter = rows[x].chapter
    BY DEF InOrder
  <2>2. \A u \in others : old[u] = rows[u].order /\ ch[u] = rows[u].chapter
    BY <1>9
  <2> HIDE DEF old, ch
  <2>3. \A u, v \in others : u # v => old[u] # old[v]
    BY <2>1, <2>2
  <2>4. ASSUME NEW a \in others, NEW b \in others, NEW d \in others,
               ch[a] = ch[b], old[a] < old[d], old[d] < old[b]
        PROVE  ch[d] = ch[a]
    <3>1. rows[a].chapter = rows[b].chapter /\ rows[a].order < rows[d].order
          /\ rows[d].order < rows[b].order
      BY <2>2, <2>4
    <3>2. rows[d].chapter = rows[a].chapter
      BY <2>1, <3>1
    <3>3. QED BY <2>2, <3>2
  <2>5. QED BY <2>3, <2>4
<1>11. /\ \A u \in others : ch[u] = c => old[u] < n
       /\ \/ \E w \in others : ch[w] = c /\ old[w] = n - 1
          \/ \A u \in others : ch[u] # c /\ old[u] < n
  <2>1. \A u \in others : ch[u] = rows[u].chapter /\ old[u] = rows[u].order
    BY <1>9
  <2> HIDE DEF old, ch
  <2>2. QED BY <2>1
<1>12. /\ \A u \in others : old[u] >= n => new[u] = old[u] + 1
       /\ \A u \in others : old[u] < n => new[u] = old[u]
  <2> HIDE DEF old, new
  <2>1. ASSUME NEW u \in others
        PROVE  (old[u] >= n => new[u] = old[u] + 1) /\ (old[u] < n => new[u] = old[u])
    <3>1. old[u] = rows[u].order /\ new[u] = rowsN[u].order
      BY <1>9
    <3>2. QED BY <1>2, <3>1
  <2>2. QED BY <2>1
<1>13. /\ \A u, v \in others \cup {t} : u # v => new[u] # new[v]
       /\ \A x, y, v \in others \cup {t} :
            ch[x] = ch[y] /\ new[x] < new[v] /\ new[v] < new[y] => ch[v] = ch[x]
  <2> HIDE DEF old, new, ch, Shifts
  <2>1. Joins(others, t, n, c, ch, old, new)
    BY <1>8, <1>9, <1>10, <1>11, <1>12 DEF Joins
  <2>2. QED BY <2>1, JoinedInOrder
<1>14. \A u \in others \cup {t} : new[u] = rowsN[u].order /\ ch[u] = rowsN[u].chapter
  OBVIOUS
<1> HIDE DEF new, ch
<1>15. InOrder(rowsN)
  BY <1>7, <1>13, <1>14 DEF InOrder
<1>16. QED BY <1>6, <1>15

(* A topic that joins a chapter stands behind its topics, in front of all    *)
(* that are shifted; so no number is given twice and no chapter is split.  *)
LEMMA InsertedInOrder ==
  ASSUME NilIsNoTopic, SyllabusInv, Topics!Room, NEW t \in Topic, NEW c \in Chapter,
         topics' = Topics!Inserted(c, t)
  PROVE  SyllabusInv'
<1> DEFINE others == Topics!Present \ {t}
           fellows == {u \in others : topics[u].chapter = c}
           n == Topics!InsertionOrder(c, t)
<1>1. \A u \in others : u \in Topic /\ Place(topics[u]) /\ topics[u].order < MaxOrder
  BY DEF Topics!Present, SyllabusInv, Rows, Place, Topics!Room
<1>2. n = IF fellows # {} THEN Topics!Last(fellows) + 1 ELSE Topics!Last(others) + 1
  BY DEF Topics!InsertionOrder
<1>3. /\ n \in 1..MaxOrder
      /\ fellows # {} => \E w \in fellows : topics[w].order = n - 1
      /\ \A u \in fellows : topics[u].order < n
      /\ fellows = {} => \A u \in others : topics[u].order < n
  <2>1. CASE fellows # {}
    <3> DEFINE last == Topics!Last(fellows)
    <3>1. fellows \in SUBSET Topics!Present
      OBVIOUS
    <3>2. /\ last \in 0..MaxOrder
          /\ last = 0 \/ \E u \in fellows : topics[u].order = last
          /\ \A u \in fellows : topics[u].order <= last
      BY <3>1, LastIsGreatest, InvIsInOrder
    <3>3. \A u \in fellows : topics[u].order \in 1..MaxOrder /\ topics[u].order < MaxOrder
      BY <1>1 DEF Place
    <3>4. n = last + 1
      BY <1>2, <2>1
    <3> HIDE DEF last, n, fellows
    <3>5. QED BY <2>1, <3>2, <3>3, <3>4 DEF NilIsNoTopic
  <2>2. CASE fellows = {}
    <3> DEFINE last == Topics!Last(others)
    <3>1. others \in SUBSET Topics!Present
      OBVIOUS
    <3>2. /\ last \in 0..MaxOrder
          /\ last = 0 \/ \E u \in others : topics[u].order = last
          /\ \A u \in others : topics[u].order <= last
      BY <3>1, LastIsGreatest, InvIsInOrder
    <3>3. \A u \in others : topics[u].order \in 1..MaxOrder /\ topics[u].order < MaxOrder
      BY <1>1 DEF Place
    <3>4. n = last + 1
      BY <1>2, <2>2
    <3>5. last < MaxOrder \/ last = 0
      BY <3>2, <3>3
    <3>6. \A u \in fellows : FALSE
      BY <2>2
    <3> HIDE DEF last, n, others, fellows
    <3>7. QED BY <2>2, <3>2, <3>3, <3>4, <3>5, <3>6 DEF NilIsNoTopic
  <2>3. QED BY <2>1, <2>2
<1>4. topics \in Rows /\ InOrder(topics) /\ others = InUse(topics) \ {t}
  BY DEF SyllabusInv, InUse, Topics!Present
<1>5. topics' = [u \in Topic |-> IF u = t THEN [chapter |-> c, order |-> n]
                                 ELSE IF topics[u] # Nil /\ topics[u].order >= n
                                   THEN [topics[u] EXCEPT !.order = @ + 1] ELSE topics[u]]
  BY DEF Topics!Inserted
<1>6. \A u \in others : u \in fellows <=> topics[u].chapter = c
  OBVIOUS
<1> HIDE DEF n
<1>7. /\ \A u \in others : topics[u].order < MaxOrder
      /\ \A u \in others : topics[u].chapter = c => topics[u].order < n
      /\ \/ \E w \in others : topics[w].chapter = c /\ topics[w].order = n - 1
         \/ \A u \in others : topics[u].chapter # c /\ topics[u].order < n
  BY <1>1, <1>3, <1>6
<1> HIDE DEF others, fellows
<1>8. n \in 1..MaxOrder
  BY <1>3
<1>9. topics' \in Rows /\ InOrder(topics')
  <2> DEFINE rows == topics
             rowsN == topics'
  <2>1. /\ rows \in Rows /\ InOrder(rows) /\ others = InUse(rows) \ {t}
        /\ \A u \in others : rows[u].order < MaxOrder
        /\ \A u \in others : rows[u].chapter = c => rows[u].order < n
        /\ \/ \E w \in others : rows[w].chapter = c /\ rows[w].order = n - 1
           \/ \A u \in others : rows[u].chapter # c /\ rows[u].order < n
    BY <1>4, <1>7
  <2>2. rowsN = [u \in Topic |-> IF u = t THEN [chapter |-> c, order |-> n]
                                 ELSE IF rows[u] # Nil /\ rows[u].order >= n
                                   THEN [rows[u] EXCEPT !.order = @ + 1] ELSE rows[u]]
    BY <1>5
  <2> HIDE DEF rows, rowsN
  <2>3. Shifts(rows, rowsN, t, c, n, others)
    BY <1>8, <2>1, <2>2 DEF Shifts
  <2>4. rowsN \in Rows /\ InOrder(rowsN)
    BY <2>3, ShiftedInOrder
  <2>5. QED BY <2>4 DEF rowsN
<1>10. QED BY <1>9 DEF SyllabusInv, Rows, InOrder, InUse

Swapped(rows, t, u) == [rows EXCEPT ![t].order = rows[u].order, ![u].order = rows[t].order]
Dropped(rows, t) == [rows EXCEPT ![t] = Nil]

(* Two topics of a chapter trade their numbers. *)
LEMMA SwappedInOrder ==
  ASSUME NilIsNoTopic, NEW rows \in Rows, InOrder(rows), NEW rowsN,
         NEW t \in InUse(rows), NEW u \in InUse(rows), rows[t].chapter = rows[u].chapter, t # u,
         rowsN = Swapped(rows, t, u)
  PROVE  rowsN \in Rows /\ InOrder(rowsN)
<1> DEFINE Other(x) == IF x = t THEN u ELSE IF x = u THEN t ELSE x
<1>1. ASSUME NEW x \in InUse(rows)
      PROVE  /\ rows[x] = [chapter |-> rows[x].chapter, order |-> rows[x].order]
             /\ rows[x].chapter \in Chapter /\ rows[x].order \in 1..MaxOrder /\ x \in Topic
  BY DEF Rows, InUse
<1>2. DOMAIN rowsN = Topic /\ rowsN = [x \in Topic |-> rowsN[x]]
  BY DEF Rows, Swapped
<1>3. ASSUME NEW x \in Topic, x # t, x # u PROVE rowsN[x] = rows[x]
  BY <1>3 DEF Rows, InUse, Swapped
<1>4. rowsN[t] = [rows[t] EXCEPT !.order = rows[u].order]
  BY DEF Rows, InUse, Swapped
<1>5. rowsN[u] = [rows[u] EXCEPT !.order = rows[t].order]
  BY DEF Rows, InUse, Swapped
<1>6. ASSUME NEW x \in InUse(rows)
      PROVE  /\ rowsN[x].chapter = rows[x].chapter
             /\ rowsN[x].order = rows[Other(x)].order
             /\ rowsN[x] \in [chapter : Chapter, order : 1..MaxOrder]
             /\ rows[Other(x)].chapter = rows[x].chapter /\ Other(x) \in InUse(rows)
  <2>1. ASSUME NEW y \in InUse(rows), NEW n
        PROVE  [rows[y] EXCEPT !.order = n] = [chapter |-> rows[y].chapter, order |-> n]
    <3> DEFINE c == rows[y].chapter
               o == rows[y].order
    <3>1. rows[y] = [chapter |-> c, order |-> o]
      BY <1>1
    <3> HIDE DEF c, o
    <3>2. [[chapter |-> c, order |-> o] EXCEPT !.order = n] = [chapter |-> c, order |-> n]
      OBVIOUS
    <3>3. QED BY <3>1, <3>2 DEF c
  <2>2. CASE x = t
    <3>1. rowsN[x] = [chapter |-> rows[t].chapter, order |-> rows[u].order] /\ Other(x) = u
      BY <1>4, <2>1, <2>2
    <3>2. QED BY <1>1, <2>2, <3>1
  <2>3. CASE x = u /\ x # t
    <3>1. rowsN[x] = [chapter |-> rows[u].chapter, order |-> rows[t].order] /\ Other(x) = t
      BY <1>5, <2>1, <2>3
    <3>2. QED BY <1>1, <2>3, <3>1
  <2>4. CASE x # t /\ x # u
    <3>1. rowsN[x] = rows[x] /\ Other(x) = x
      BY <1>1, <1>3, <2>4
    <3>2. rows[x] \in [chapter : Chapter, order : 1..MaxOrder]
      BY DEF Rows, InUse
    <3>3. QED BY <3>1, <3>2
  <2>5. QED BY <2>2, <2>3, <2>4
<1>7. \A x \in InUse(rows) : rowsN[x] \in [chapter : Chapter, order : 1..MaxOrder]
  BY <1>6
<1>8. \A x \in Topic \ InUse(rows) : rowsN[x] = Nil
  BY <1>3 DEF InUse
<1>9. rowsN \in Rows
  BY <1>2, <1>7, <1>8 DEF Rows
<1>10. InUse(rowsN) = InUse(rows)
  BY <1>7, <1>8, <1>1 DEF InUse, NilIsNoTopic
<1>11. \A x, y \in InUse(rows) : x # y => Other(x) # Other(y)
  OBVIOUS
<1> HIDE DEF Other
<1>12. \A x \in InUse(rows) : /\ rowsN[x].order = rows[Other(x)].order
                              /\ rowsN[x].chapter = rows[Other(x)].chapter
                              /\ Other(x) \in InUse(rows)
  <2> SUFFICES ASSUME NEW x \in InUse(rows)
               PROVE  /\ rowsN[x].order = rows[Other(x)].order
                      /\ rowsN[x].chapter = rows[Other(x)].chapter /\ Other(x) \in InUse(rows)
    OBVIOUS
  <2>1. QED BY <1>6
<1>13. \A x, y \in InUse(rows) : x # y => rowsN[x].order # rowsN[y].order
  <2> SUFFICES ASSUME NEW x \in InUse(rows), NEW y \in InUse(rows), x # y
               PROVE  rowsN[x].order # rowsN[y].order
    OBVIOUS
  <2>1. rows[Other(x)].order # rows[Other(y)].order
    BY <1>11, <1>12 DEF InOrder
  <2>2. QED BY <1>12, <2>1
<1>14. \A x, y, v \in InUse(rows) :
         rowsN[x].chapter = rowsN[y].chapter /\ rowsN[x].order < rowsN[v].order
           /\ rowsN[v].order < rowsN[y].order => rowsN[v].chapter = rowsN[x].chapter
  <2> SUFFICES ASSUME NEW x \in InUse(rows), NEW y \in InUse(rows), NEW v \in InUse(rows),
                      rowsN[x].chapter = rowsN[y].chapter, rowsN[x].order < rowsN[v].order,
                      rowsN[v].order < rowsN[y].order
               PROVE  rowsN[v].chapter = rowsN[x].chapter
    OBVIOUS
  <2> DEFINE a == Other(x)
             b == Other(y)
             d == Other(v)
  <2>1. /\ a \in InUse(rows) /\ rowsN[x].order = rows[a].order /\ rowsN[x].chapter = rows[a].chapter
        /\ b \in InUse(rows) /\ rowsN[y].order = rows[b].order /\ rowsN[y].chapter = rows[b].chapter
        /\ d \in InUse(rows) /\ rowsN[v].order = rows[d].order /\ rowsN[v].chapter = rows[d].chapter
    BY <1>12
  <2> HIDE DEF a, b, d
  <2>2. rows[a].chapter = rows[b].chapter /\ rows[a].order < rows[d].order
        /\ rows[d].order < rows[b].order
    BY <2>1
  <2>3. rows[d].chapter = rows[a].chapter
    BY <2>1, <2>2 DEF InOrder
  <2>4. QED BY <2>1, <2>3
<1>15. QED BY <1>9, <1>10, <1>13, <1>14 DEF InOrder

(* A topic is deleted. *)
LEMMA DroppedInOrder ==
  ASSUME NEW rows \in Rows, InOrder(rows), NEW rowsN, NEW t \in Topic, rowsN = Dropped(rows, t)
  PROVE  rowsN \in Rows /\ InOrder(rowsN)
<1>1. rowsN \in Rows
  BY DEF Rows, Dropped
<1>2. InUse(rowsN) = InUse(rows) \ {t} /\ \A u \in InUse(rowsN) : rowsN[u] = rows[u]
  BY DEF Rows, InUse, Dropped
<1>3. \A x, y \in InUse(rowsN) : x # y => rowsN[x].order # rowsN[y].order
  <2>1. \A x \in InUse(rowsN) : x \in InUse(rows) /\ rowsN[x] = rows[x]
    BY <1>2
  <2>2. \A x, y \in InUse(rows) : x # y => rows[x].order # rows[y].order
    BY DEF InOrder
  <2>3. QED BY <2>1, <2>2
<1>4. \A x, y, v \in InUse(rowsN) :
         rowsN[x].chapter = rowsN[y].chapter /\ rowsN[x].order < rowsN[v].order
           /\ rowsN[v].order < rowsN[y].order => rowsN[v].chapter = rowsN[x].chapter
  <2> SUFFICES ASSUME NEW x \in InUse(rowsN), NEW y \in InUse(rowsN), NEW v \in InUse(rowsN),
                      rowsN[x].chapter = rowsN[y].chapter, rowsN[x].order < rowsN[v].order,
                      rowsN[v].order < rowsN[y].order
               PROVE  rowsN[v].chapter = rowsN[x].chapter
    OBVIOUS
  <2>1. /\ x \in InUse(rows) /\ y \in InUse(rows) /\ v \in InUse(rows)
        /\ rowsN[x] = rows[x] /\ rowsN[y] = rows[y] /\ rowsN[v] = rows[v]
    BY <1>2
  <2>2. rows[v].chapter = rows[x].chapter
    BY <2>1 DEF InOrder
  <2>3. QED BY <2>1, <2>2
<1>5. QED BY <1>1, <1>3, <1>4 DEF InOrder

(* Every step of the syllabus page keeps the order. *)
LEMMA SyllabusStep ==
  ASSUME NilIsNoTopic, SyllabusInv, [Topics!Next]_(Topics!vars)
  PROVE  SyllabusInv'
<1> DEFINE rows == topics
           rowsN == topics'
<1>0. topics' = topics => SyllabusInv'
  BY DEF SyllabusInv, Rows, InOrder, InUse
<1>1. rowsN \in Rows /\ InOrder(rowsN) => SyllabusInv'
  BY DEF SyllabusInv, Rows, InOrder, InUse
<1>2. rows \in Rows /\ InOrder(rows)
  BY DEF SyllabusInv
<1>3. ASSUME NEW t \in Topic, NEW c \in Chapter, Topics!AddTopic(t, c) \/ Topics!EditTopic(t, c)
      PROVE  SyllabusInv'
  BY <1>3, InsertedInOrder DEF Topics!AddTopic, Topics!EditTopic
<1>4. ASSUME NEW t \in Topic, NEW dir \in {-1, 1}, Topics!Move(t, dir)
      PROVE  SyllabusInv'
  <2>1. PICK u \in Topics!Nearest(t, Topics!Neighbours(t, dir), dir) :
          topics' = [topics EXCEPT ![t].order = topics[u].order, ![u].order = topics[t].order]
    BY <1>4 DEF Topics!Move
  <2>2. /\ t \in InUse(rows) /\ u \in InUse(rows) /\ rows[t].chapter = rows[u].chapter
        /\ dir * (rows[u].order - rows[t].order) > 0
    BY <1>4 DEF Topics!Move, Topics!Nearest, Topics!Neighbours, Topics!Present, InUse
  <2>3. t # u
    <3>1. rows[t].order \in Int
      BY <1>2, <2>2 DEF Rows, InUse
    <3>2. QED BY <2>2, <3>1
  <2>4. rowsN = Swapped(rows, t, u)
    BY <2>1 DEF Swapped
  <2> HIDE DEF rows, rowsN
  <2>5. rowsN \in Rows /\ InOrder(rowsN)
    BY <1>2, <2>2, <2>3, <2>4, SwappedInOrder
  <2>6. QED BY <1>1, <2>5
<1>5. ASSUME NEW t \in Topic, Topics!DeleteTopic(t)
      PROVE  SyllabusInv'
  <2>1. rowsN = Dropped(rows, t)
    BY <1>5 DEF Topics!DeleteTopic, Dropped
  <2> HIDE DEF rows, rowsN
  <2>2. QED BY <1>1, <1>2, <2>1, DroppedInOrder
<1>6. ASSUME NEW b \in Class, \/ Topics!Follow(b) \/ Topics!Unfollow(b)
                              \/ \E t \in Topic, st \in Topics!Coverage : Topics!SetCoverage(b, t, st)
                              \/ \E ts \in SUBSET Topic : Topics!SaveSession(b, ts)
      PROVE  topics' = topics
  BY <1>6 DEF Topics!Follow, Topics!Unfollow, Topics!SetCoverage, Topics!SaveSession
<1>7. CASE UNCHANGED Topics!vars
  BY <1>0, <1>7 DEF Topics!vars
<1>8. QED BY <1>0, <1>3, <1>4, <1>5, <1>6, <1>7 DEF Topics!Next

(* Whatever topics are added, moved to another chapter, sorted and deleted   *)
(* on the syllabus page: no two of its topics have the same number and no    *)
(* chapter is split, for every number of topics, chapters and batches.       *)
THEOREM SyllabusStaysInOrder ==
  ASSUME NilIsNoTopic PROVE Topics!Spec => []SyllabusInOrder
<1>1. Topics!Init => SyllabusInv
  BY DEF Topics!Init, SyllabusInv, Rows, InOrder, InUse
<1>2. SyllabusInv /\ [Topics!Next]_(Topics!vars) => SyllabusInv'
  BY SyllabusStep
<1>3. SyllabusInv => SyllabusInOrder
  BY InvIsInOrder
<1>4. QED BY <1>1, <1>2, <1>3, PTL DEF Topics!Spec

-----------------------------------------------------------------------------
(* Roles and staff.  An Undo checks little itself, so the invariant says    *)
(* what the toast still on screen knows: who signed in manages staff &      *)
(* roles, and it touches neither them nor the owner.                        *)
Typed ==
  /\ permissions \in [Role -> SUBSET Permission]
  /\ status \in [Staff -> StaffStatus \cup {"Absent"}]
  /\ roleOf \in [Staff -> Role]
  /\ me \in Staff \cup {None}

SignedInActive == me # None => status[me] = "Active"
OwnerActive == \A s \in Owner : status[s] = "Active" /\ \A u \in Owner : u = s

ToastSafe(t) ==
  /\ t.kind \in {"role", "status"} => Managing
  /\ t.kind = "role" =>
       t.perms \subseteq Permission /\ t.moved \subseteq Staff /\ (me \in Owner \/ me \notin t.moved)
  /\ t.kind = "status" =>
       t.staff \in Staff \ (Owner \cup {me}) /\ t.previous \in StaffStatus
ToastsSafe == \A t \in toasts : ToastSafe(t)

IInv ==
  Typed /\ SignedInActive /\ OwnerActive /\ RolesInUseExist /\ AdminsNeverGone /\ ToastsSafe

(* What a permission implies is a permission.                               *)
LEMMA RequiredTyped ==
  ASSUME NEW ps \in SUBSET Permission
  PROVE  WithRequired(ps) \in SUBSET Permission /\ ps \subseteq WithRequired(ps)
BY PermissionsGiven DEF WithRequired

LEMMA InitSafe == Init => IInv
<1> SUFFICES ASSUME Init PROVE IInv
  OBVIOUS
<1>1. PICK founder \in Staff :
        /\ Owner \subseteq {founder}
        /\ status = [s \in Staff |-> IF s = founder THEN "Active" ELSE "Absent"]
        /\ roleOf = [s \in Staff |-> IF s = founder THEN AdminRole ELSE FacultyRole]
  BY DEF Init
<1>2. Typed
  BY <1>1, RolesGiven, PermissionsGiven DEF Init, Typed, StaffStatus
<1>3. permissions[AdminRole] = Permission /\ Manage \in Permission
  BY RolesGiven, PermissionsGiven DEF Init
<1>4. RolesInUseExist
  BY <1>1, <1>3, RolesGiven DEF RolesInUseExist, staff, roles
<1>5. AdminsNeverGone
  BY <1>1, <1>3 DEF AdminsNeverGone, AdminsRemain, ActiveAdministrators, PermissionsOf
<1>6. SignedInActive /\ OwnerActive /\ ToastsSafe
  BY <1>1, StaffGiven DEF Init, SignedInActive, OwnerActive, ToastsSafe
<1> QED
  BY <1>2, <1>4, <1>5, <1>6 DEF IInv

-----------------------------------------------------------------------------
(* What the person signed in may do is theirs while their role is alone, or *)
(* while they are the owner.                                               *)
OwnUntouched ==
  me # None /\ me \notin Owner =>
    roleOf'[me] = roleOf[me] /\ permissions'[roleOf[me]] = permissions[roleOf[me]]

LEMMA MineKept ==
  ASSUME me' = me, OwnUntouched
  PROVE  Mine' = Mine /\ Managing' = Managing
BY DEF OwnUntouched, Mine, Managing, PermissionsOf

LEMMA ToastsKept ==
  ASSUME ToastsSafe, me' = me, OwnUntouched,
         \A t \in toasts' : t \in toasts \/ ToastSafe(t)
  PROVE  ToastsSafe'
<1>1. Managing' = Managing
  BY MineKept
<1> SUFFICES ASSUME NEW t \in toasts' PROVE ToastSafe(t)'
  BY DEF ToastsSafe
<1>2. ToastSafe(t)
  BY DEF ToastsSafe
<1> QED
  BY <1>1, <1>2 DEF ToastSafe

(* The parts of the invariant that a change of the tables must keep.        *)
LEMMA Assemble ==
  ASSUME IInv, Typed', me' = me, OwnUntouched,
         me # None => status'[me] = status[me],
         \A s \in Owner : status'[s] = status[s],
         RolesInUseExist', AdminsNeverGone',
         \A t \in toasts' : t \in toasts \/ ToastSafe(t)
  PROVE  IInv'
<1>1. ToastsSafe'
  BY ToastsKept DEF IInv
<1>2. SignedInActive' /\ OwnerActive'
  BY DEF IInv, SignedInActive, OwnerActive
<1> QED
  BY <1>1, <1>2 DEF IInv

(* Signing in or out, and what changes neither roles nor staff.             *)
LEMMA QuietSafe ==
  ASSUME IInv, UNCHANGED <<permissions, status, roleOf>>
  PROVE  /\ \A user \in Staff \cup {None} : Sign(user) => IInv'
         /\ (me' = me /\ \A t \in toasts' : t \in toasts \/ ToastSafe(t)) => IInv'
<1>1. Typed /\ RolesInUseExist' /\ AdminsNeverGone' /\ OwnerActive'
  BY DEF IInv, RolesInUseExist, AdminsNeverGone, OwnerActive, roles, staff, AdminsRemain,
         ActiveAdministrators, PermissionsOf
<1>2. ASSUME NEW user \in Staff \cup {None}, Sign(user) PROVE IInv'
  <2>1. Typed' /\ SignedInActive' /\ ToastsSafe'
    BY <1>1, <1>2 DEF Sign, Typed, SignedInActive, ToastsSafe, IInv
  <2> QED
    BY <1>1, <2>1 DEF IInv
<1>3. ASSUME me' = me, \A t \in toasts' : t \in toasts \/ ToastSafe(t) PROVE IInv'
  <2>1. OwnUntouched
    BY DEF OwnUntouched
  <2> QED
    BY <1>1, <1>3, <2>1, Assemble DEF Typed
<1> QED
  BY <1>2, <1>3

(* Whoever signed in is active, so has a role.                              *)
LEMMA MeTyped ==
  ASSUME IInv, me # None
  PROVE  /\ me \in Staff /\ status[me] = "Active" /\ roleOf[me] \in roles
         /\ Mine \in SUBSET Permission
BY StaffGiven DEF IInv, Typed, SignedInActive, RolesInUseExist, staff, roles, Mine, PermissionsOf

LEMMA AddRoleSafe ==
  ASSUME IInv, NEW r \in Role, NEW ps \in SUBSET Permission, AddRole(r, ps)
  PROVE  IInv' /\ OwnUntouched
<1>1. Typed' /\ WithRequired(ps) # {}
  BY RequiredTyped DEF AddRole, MayAddRole, IInv, Typed
<1>2. \A s \in staff : roleOf[s] # r
  BY DEF IInv, RolesInUseExist, AddRole
<1>3. RolesInUseExist'
  BY <1>1, <1>2 DEF IInv, Typed, RolesInUseExist, AddRole, roles, staff
<1>4. AdminsNeverGone'
  BY <1>1, <1>2 DEF IInv, Typed, AdminsNeverGone, AdminsRemain, ActiveAdministrators, PermissionsOf,
                    AddRole, staff
<1>5. OwnUntouched
  BY <1>2, MeTyped DEF OwnUntouched, AddRole, IInv, Typed, staff
<1> QED
  BY <1>1, <1>3, <1>4, <1>5, Assemble DEF AddRole

LEMMA UpdateRoleSafe ==
  ASSUME IInv, NEW r \in Role, NEW ps \in SUBSET Permission, UpdateRole(r, ps)
  PROVE  IInv' /\ OwnUntouched
<1>1. Typed' /\ WithRequired(ps) # {}
  BY RequiredTyped DEF UpdateRole, MayUpdateRole, IInv, Typed
<1>2. RolesInUseExist'
  BY <1>1 DEF IInv, Typed, RolesInUseExist, UpdateRole, roles, staff
<1>3. AdminsNeverGone'
  BY DEF AdminsNeverGone, UpdateRole, MayUpdateRole
<1>4. OwnUntouched
  BY MeTyped DEF OwnUntouched, UpdateRole, MayUpdateRole, OwnRole, IInv, Typed
<1> QED
  BY <1>1, <1>2, <1>3, <1>4, Assemble DEF UpdateRole

LEMMA ReassignTyped ==
  ASSUME Typed, NEW to \in Role, NEW r \in Role
  PROVE  Reassigned(r, to) \in [Staff -> Role]
BY DEF Typed, Reassigned

LEMMA DeleteRoleSafe ==
  ASSUME IInv, NEW r \in Role, NEW to \in Role, DeleteRole(r, to)
  PROVE  IInv' /\ OwnUntouched
<1>1. Typed'
  BY ReassignTyped DEF DeleteRole, IInv, Typed
<1>2. \A s \in staff : roleOf'[s] = IF roleOf[s] = r THEN to ELSE roleOf[s]
  BY DEF DeleteRole, Reassigned, staff
<1>3. RolesInUseExist'
  BY <1>2 DEF IInv, Typed, RolesInUseExist, DeleteRole, MayDeleteRole, roles, staff
<1>4. AdminsNeverGone'
  BY DEF AdminsNeverGone, DeleteRole, MayDeleteRole
<1>5. me # None /\ Managing
  BY DEF DeleteRole, MayDeleteRole, Managing
<1>6. me \in Owner \/ roleOf[me] # r
  BY DEF DeleteRole, MayDeleteRole, OwnRole
<1>7. OwnUntouched
  BY <1>2, <1>5, <1>6, MeTyped DEF OwnUntouched, DeleteRole, IInv, Typed, staff
<1>8. \A t \in toasts' : t \in toasts \/ ToastSafe(t)
  BY <1>5, <1>6 DEF DeleteRole, Show, ToastSafe, Holders, staff, IInv, Typed, roles
<1> QED
  BY <1>1, <1>3, <1>4, <1>7, <1>8, Assemble DEF DeleteRole

(* Undo moves people only to the role it recreates, which nobody held.      *)
LEMMA UndoDeleteRoleSafe ==
  ASSUME IInv, NEW t \in toasts, NEW r \in Role, UndoDeleteRole(t, r)
  PROVE  IInv' /\ OwnUntouched
<1> DEFINE perms == [permissions EXCEPT ![r] = WithRequired(t.perms)]
           back(m) == [s \in Staff |-> IF s \in m THEN r ELSE roleOf[s]]
<1>1. /\ t.perms \in SUBSET Permission /\ t.moved \subseteq Staff
      /\ me # None /\ Managing /\ (me \in Owner \/ me \notin t.moved)
  BY DEF UndoDeleteRole, IInv, ToastsSafe, ToastSafe, Managing
<1>2. PICK m \in SUBSET (t.moved \cap staff) :
        /\ m # {} => AdminsRemain(status, back(m), perms)
        /\ roleOf' = back(m)
  BY DEF UndoDeleteRole
<1>3. permissions' = perms /\ r \notin roles /\ WithRequired(t.perms) # {} /\ WithRequired(t.perms) \in SUBSET Permission
  BY <1>1, RequiredTyped DEF UndoDeleteRole, MayAddRole
<1>4. Typed'
  BY <1>2, <1>3 DEF UndoDeleteRole, IInv, Typed
<1>5. \A s \in staff : roleOf[s] # r
  BY <1>3 DEF IInv, RolesInUseExist
<1>6. RolesInUseExist'
  BY <1>2, <1>3 DEF IInv, Typed, RolesInUseExist, UndoDeleteRole, roles, staff
<1>7. AdminsNeverGone'
  <2>1. CASE m # {}
    BY <1>2, <1>3, <2>1 DEF AdminsNeverGone, UndoDeleteRole
  <2>2. CASE m = {}
    <3>1. roleOf' = roleOf
      BY <1>2, <2>2 DEF IInv, Typed
    <3> QED
      BY <1>3, <1>5, <3>1 DEF IInv, Typed, AdminsNeverGone, AdminsRemain, ActiveAdministrators,
                              PermissionsOf, UndoDeleteRole, staff
  <2> QED
    BY <2>1, <2>2
<1>8. OwnUntouched
  BY <1>1, <1>2, <1>3, <1>5, MeTyped DEF OwnUntouched, IInv, Typed, staff
<1>9. \A u \in toasts' : u \in toasts
  BY DEF UndoDeleteRole
<1> QED
  BY <1>4, <1>6, <1>7, <1>8, <1>9, Assemble DEF UndoDeleteRole

(* A newcomer is invited, so administers nothing yet.                       *)
LEMMA InviteSafe ==
  ASSUME IInv, NEW s \in Staff, NEW r \in Role, Invite(s, r) \/ InviteTeam(s, r)
  PROVE  IInv'
<1>1. /\ s \notin staff /\ r \in roles /\ UNCHANGED <<permissions, toasts, me>>
      /\ status' = [status EXCEPT ![s] = "Invited"] /\ roleOf' = [roleOf EXCEPT ![s] = r]
  BY DEF Invite, InviteTeam, AssignmentBlocked
<1>2. Typed'
  BY <1>1 DEF IInv, Typed, StaffStatus
<1>3. RolesInUseExist'
  BY <1>1 DEF IInv, Typed, RolesInUseExist, staff, roles
<1>4. \A u \in Staff : status[u] = "Active" => u # s
  BY <1>1 DEF staff
<1>5. AdminsNeverGone'
  BY <1>1, <1>4 DEF IInv, Typed, AdminsNeverGone, AdminsRemain, ActiveAdministrators, PermissionsOf
<1>6. OwnUntouched /\ (me # None => status'[me] = status[me])
  BY <1>1, <1>4, MeTyped DEF OwnUntouched, IInv, Typed
<1>7. \A o \in Owner : status'[o] = status[o]
  BY <1>1, <1>4, StaffGiven DEF IInv, OwnerActive, Typed
<1> QED
  BY <1>1, <1>2, <1>3, <1>5, <1>6, <1>7, Assemble

(* updateStaff on a member who is neither signed in nor the owner.          *)
LEMMA StoreUpdateSafe ==
  ASSUME IInv, NEW s \in Staff, NEW r \in Role, NEW st \in StaffStatus, StoreUpdate(s, r, st),
         r \in roles,
         (r = roleOf[s] /\ st = status[s]) \/ s \notin Owner \cup {me},
         me' = me, permissions' = permissions,
         \A t \in toasts' : t \in toasts \/ ToastSafe(t)
  PROVE  IInv' /\ OwnUntouched
<1>1. CASE UNCHANGED <<status, roleOf>>
  BY <1>1, QuietSafe DEF OwnUntouched
<1>2. CASE /\ s \in staff /\ status' = [status EXCEPT ![s] = st] /\ roleOf' = [roleOf EXCEPT ![s] = r]
           /\ AdminsRemain(status', roleOf', permissions)
  <2>1. Typed'
    BY <1>2 DEF IInv, Typed
  <2>2. RolesInUseExist' /\ AdminsNeverGone'
    BY <1>2 DEF IInv, Typed, RolesInUseExist, AdminsNeverGone, staff, roles
  <2>3. /\ OwnUntouched /\ (me # None => status'[me] = status[me])
        /\ \A o \in Owner : status'[o] = status[o]
    BY <1>2, StaffGiven DEF OwnUntouched, IInv, Typed
  <2> QED
    BY <2>1, <2>2, <2>3, Assemble
<1> QED
  BY <1>1, <1>2 DEF StoreUpdate

(* A member whose access the screens let one change is somebody else, and   *)
(* not the owner: the owner may only be changed by the owner.               *)
LEMMA Unlocked ==
  ASSUME IInv, NEW s \in Staff, ~AccessLocked(s)
  PROVE  s \notin Owner \cup {me}
BY DEF AccessLocked, IInv, OwnerActive

LEMMA SaveStaffSafe ==
  ASSUME IInv, NEW s \in Staff, NEW r \in Role, NEW st \in StaffStatus, SaveStaff(s, r, st)
  PROVE  IInv' /\ OwnUntouched
<1>1. (r = roleOf[s] /\ st = status[s]) \/ s \notin Owner \cup {me}
  BY Unlocked DEF SaveStaff
<1>2. r \in roles
  BY DEF SaveStaff, AssignmentBlocked, IInv, RolesInUseExist
<1>3. StoreUpdate(s, r, st) /\ UNCHANGED <<permissions, toasts, me>>
  BY DEF SaveStaff
<1> QED
  BY <1>1, <1>2, <1>3, StoreUpdateSafe

LEMMA SetStatusSafe ==
  ASSUME IInv, NEW s \in Staff, SetStatus(s)
  PROVE  IInv' /\ OwnUntouched
<1> DEFINE st == IF status[s] = "Inactive" THEN "Active" ELSE "Inactive"
           toast == [kind |-> "status", staff |-> s, previous |-> status[s]]
<1>1. s \in staff /\ s \notin Owner \cup {me} /\ Managing
  BY Unlocked DEF SetStatus
<1>2. StoreUpdate(s, roleOf[s], st) /\ UNCHANGED <<permissions, me>> /\ toasts' = toasts \cup {toast}
  BY DEF SetStatus, Show
<1>3. roleOf[s] \in roles /\ roleOf[s] \in Role /\ st \in StaffStatus /\ status[s] \in StaffStatus
  BY <1>1 DEF IInv, Typed, RolesInUseExist, staff, StaffStatus
<1>4. ToastSafe(toast)
  BY <1>1, <1>3 DEF ToastSafe
<1>5. \A t \in toasts' : t \in toasts \/ ToastSafe(t)
  BY <1>2, <1>4
<1> HIDE DEF st, toast
<1> QED
  BY <1>1, <1>2, <1>3, <1>5, StoreUpdateSafe

(* Undo of a status change: the toast knows it is neither one's own nor the *)
(* owner's.                                                                *)
LEMMA UndoSetStatusSafe ==
  ASSUME IInv, NEW t \in toasts, UndoSetStatus(t)
  PROVE  IInv' /\ OwnUntouched
<1>1. t.staff \in Staff /\ t.staff \notin Owner \cup {me} /\ t.previous \in StaffStatus
  BY DEF UndoSetStatus, IInv, ToastsSafe, ToastSafe
<1>2. /\ StoreUpdate(t.staff, roleOf[t.staff], t.previous)
      /\ UNCHANGED <<permissions, me>> /\ \A u \in toasts' : u \in toasts
  BY DEF UndoSetStatus
<1>3. CASE t.staff \in staff
  <2>1. roleOf[t.staff] \in roles /\ roleOf[t.staff] \in Role
    BY <1>1, <1>3 DEF IInv, Typed, RolesInUseExist
  <2> QED
    BY <1>1, <1>2, <2>1, StoreUpdateSafe
<1>4. CASE t.staff \notin staff
  <2>1. UNCHANGED <<status, roleOf>>
    BY <1>2, <1>4 DEF StoreUpdate
  <2> QED
    BY <1>2, <2>1, QuietSafe DEF OwnUntouched
<1> QED
  BY <1>3, <1>4

LEMMA RemoveStaffSafe ==
  ASSUME IInv, NEW s \in Staff, RemoveStaff(s)
  PROVE  IInv' /\ OwnUntouched
<1>1. /\ s \in staff /\ s \notin Owner \cup {me} /\ UNCHANGED <<permissions, roleOf, toasts, me>>
      /\ status' = [status EXCEPT ![s] = "Absent"] /\ AdminsRemain(status', roleOf, permissions)
  BY Unlocked DEF RemoveStaff
<1>2. Typed' /\ RolesInUseExist' /\ AdminsNeverGone'
  BY <1>1 DEF IInv, Typed, RolesInUseExist, AdminsNeverGone, staff, roles
<1>3. /\ OwnUntouched /\ (me # None => status'[me] = status[me])
      /\ \A o \in Owner : status'[o] = status[o]
  BY <1>1, MeTyped, StaffGiven DEF OwnUntouched, IInv, Typed
<1> QED
  BY <1>1, <1>2, <1>3, Assemble

LEMMA BatchSafe ==
  ASSUME IInv, NEW b \in Batch,
         \/ \E s \in Staff, st \in BatchStatus : SaveBatch(b, s, st)
         \/ ArchiveBatch(b)
         \/ RestoreBatch(b)
  PROVE  IInv'
<1>1. UNCHANGED <<permissions, status, roleOf>> /\ me' = me
  BY DEF SaveBatch, ArchiveBatch, RestoreBatch
<1>2. ToastSafe([kind |-> "batch", batch |-> b])
  BY DEF ToastSafe
<1>3. \A t \in toasts' : t \in toasts \/ ToastSafe(t)
  BY <1>2 DEF SaveBatch, ArchiveBatch, RestoreBatch, Show
<1> QED
  BY <1>1, <1>3, QuietSafe

(* One step of the screens keeps the invariant.                             *)
LEMMA StepSafe == IInv /\ [Next]_vars => IInv'
<1> SUFFICES ASSUME IInv, [Next]_vars PROVE IInv'
  OBVIOUS
<1>1. ASSUME NEW user \in Staff \cup {None}, Sign(user) PROVE IInv'
  BY <1>1, QuietSafe DEF Sign, school
<1>2. ASSUME NEW t \in toasts, Dismiss(t) PROVE IInv'
  BY <1>2, QuietSafe DEF Dismiss, school
<1>3. ASSUME NEW t \in toasts, UndoSetStatus(t) \/ \E r \in Role : UndoDeleteRole(t, r) PROVE IInv'
  BY <1>3, UndoSetStatusSafe, UndoDeleteRoleSafe
<1>4. ASSUME NEW r \in Role, NEW ps \in SUBSET Permission, AddRole(r, ps) \/ UpdateRole(r, ps)
      PROVE  IInv'
  BY <1>4, AddRoleSafe, UpdateRoleSafe
<1>5. ASSUME NEW r \in Role, NEW to \in Role, DeleteRole(r, to) PROVE IInv'
  BY <1>5, DeleteRoleSafe
<1>6. ASSUME NEW s \in Staff, NEW r \in Role, Invite(s, r) \/ InviteTeam(s, r) PROVE IInv'
  BY <1>6, InviteSafe
<1>7. ASSUME NEW s \in Staff, NEW r \in Role, NEW st \in StaffStatus, SaveStaff(s, r, st) PROVE IInv'
  BY <1>7, SaveStaffSafe
<1>8. ASSUME NEW s \in Staff, SetStatus(s) \/ RemoveStaff(s) PROVE IInv'
  BY <1>8, SetStatusSafe, RemoveStaffSafe
<1>9. ASSUME NEW b \in Batch,
             \/ \E s \in Staff, st \in BatchStatus : SaveBatch(b, s, st)
             \/ ArchiveBatch(b)
             \/ RestoreBatch(b)
      PROVE  IInv'
  BY <1>9, BatchSafe
<1>10. CASE UNCHANGED vars
  <2>1. UNCHANGED <<permissions, status, roleOf>> /\ me' = me /\ \A t \in toasts' : t \in toasts
    BY <1>10 DEF vars
  <2> QED
    BY <2>1, QuietSafe
<1> QED
  BY <1>1, <1>2, <1>3, <1>4, <1>5, <1>6, <1>7, <1>8, <1>9, <1>10 DEF Next

(* No member is ever left on a role that no longer exists (deleteRole and   *)
(* its Undo), whatever the sizes of the tables.                             *)
THEOREM RolesExist == Spec => []RolesInUseExist
<1>1. IInv => RolesInUseExist
  BY DEF IInv
<1> QED
  BY <1>1, InitSafe, StepSafe, PTL DEF Spec

(* There is always an active administrator (checkAdminsRemain), Undo of a   *)
(* status change or of a deleted role included.                             *)
THEOREM AdminsRemainForever == Spec => []AdminsNeverGone
<1>1. IInv => AdminsNeverGone
  BY DEF IInv
<1> QED
  BY <1>1, InitSafe, StepSafe, PTL DEF Spec

-----------------------------------------------------------------------------
(* What may be granted: a step that changes a role is made by someone who   *)
(* holds every permission the role gains (checkEscalation).                 *)
LEMMA StepGrants ==
  IInv /\ [Next]_vars => \A r \in Role : permissions'[r] \ permissions[r] \subseteq Mine
<1> SUFFICES ASSUME IInv, [Next]_vars, NEW q \in Role
             PROVE  permissions'[q] \ permissions[q] \subseteq Mine
  OBVIOUS
<1>1. permissions \in [Role -> SUBSET Permission]
  BY DEF IInv, Typed
<1>2. ASSUME NEW ps \in SUBSET Permission, MayAddRole(ps)
      PROVE  WithRequired(ps) \subseteq Mine
  BY <1>2, RequiredTyped DEF MayAddRole, Escalates, Mine, PermissionsOf, Managing
<1>3. ASSUME NEW t \in toasts, NEW r \in Role, UndoDeleteRole(t, r)
      PROVE  permissions'[q] \ permissions[q] \subseteq Mine
  <2>1. t.perms \in SUBSET Permission /\ MayAddRole(t.perms)
        /\ permissions' = [permissions EXCEPT ![r] = WithRequired(t.perms)]
    BY <1>3 DEF UndoDeleteRole, IInv, ToastsSafe, ToastSafe
  <2> QED
    BY <1>1, <1>2, <2>1
<1>4. ASSUME NEW r \in Role, NEW ps \in SUBSET Permission, AddRole(r, ps)
      PROVE  permissions'[q] \ permissions[q] \subseteq Mine
  BY <1>1, <1>2, <1>4 DEF AddRole
<1>5. ASSUME NEW r \in Role, NEW ps \in SUBSET Permission, UpdateRole(r, ps)
      PROVE  permissions'[q] \ permissions[q] \subseteq Mine
  <2>1. WithRequired(ps) \ permissions[r] \subseteq Mine
    BY <1>5, RequiredTyped DEF UpdateRole, MayUpdateRole, Escalates, Mine, PermissionsOf, Managing
  <2> QED
    BY <1>1, <1>5, <2>1 DEF UpdateRole
<1>6. ASSUME NEW r \in Role, NEW to \in Role, DeleteRole(r, to)
      PROVE  permissions'[q] \ permissions[q] \subseteq Mine
  BY <1>1, <1>6 DEF DeleteRole
<1>7. CASE permissions' = permissions
  BY <1>7
<1>8. \/ permissions' = permissions
      \/ \E t \in toasts, r \in Role : UndoDeleteRole(t, r)
      \/ \E r \in Role, ps \in SUBSET Permission : AddRole(r, ps) \/ UpdateRole(r, ps)
      \/ \E r, to \in Role : DeleteRole(r, to)
  BY DEF Next, vars, school, Sign, Dismiss, UndoSetStatus, Invite, InviteTeam, SaveStaff, SetStatus,
         RemoveStaff, SaveBatch, ArchiveBatch, RestoreBatch
<1> QED
  BY <1>3, <1>4, <1>5, <1>6, <1>7, <1>8

(* No role ever gains a permission that the person signed in does not hold. *)
THEOREM PowersKept == Spec => RolesGainOwnPowers
<1>1. IInv /\ [Next]_vars => [\A r \in Role : permissions'[r] \ permissions[r] \subseteq Mine]_vars
  BY StepGrants
<1> QED
  BY <1>1, InitSafe, StepSafe, PTL DEF Spec, RolesGainOwnPowers

-----------------------------------------------------------------------------
(* The refinement: what each active member may do, as the rules see it.     *)
LEMMA AccessTyped == ASSUME Typed PROVE Access \in [Staff -> SUBSET Permission]
BY DEF Typed, Access, PermissionsOf

LEMMA InitAllowed == Init => Rules!Init
<1> SUFFICES ASSUME Init PROVE Rules!Init
  OBVIOUS
<1>1. IInv /\ me = None
  BY InitSafe DEF Init
<1>2. Access \in [Staff -> SUBSET Permission]
  BY <1>1, AccessTyped DEF IInv
<1>3. PICK s \in Staff : status[s] = "Active" /\ Manage \in PermissionsOf(s, roleOf, permissions)
  BY <1>1 DEF IInv, AdminsNeverGone, AdminsRemain, ActiveAdministrators
<1>4. Manage \in Access[s]
  BY <1>3 DEF Access
<1> QED
  BY <1>1, <1>2, <1>4 DEF Rules!Init, Rules!Administrators

LEMMA ChangeAllowed ==
  ASSUME IInv, IInv', me' = me, Managing, OwnUntouched
  PROVE  Rules!ChangeAccess
<1>1. Access' \in [Staff -> SUBSET Permission]
  BY DEF IInv, Typed, Access, PermissionsOf
<1>2. Mine' = Mine
  BY MineKept
<1>3. me \in Staff /\ status[me] = "Active" /\ status'[me] = "Active"
  BY MeTyped DEF IInv, SignedInActive, Managing
<1>4. Access[me] = Mine /\ Access'[me] = Mine
  BY <1>2, <1>3, StaffGiven DEF Access, Mine, Managing
<1>5. \A s \in Owner : Access[s] = Permission /\ Access'[s] = Permission
  BY StaffGiven DEF IInv, OwnerActive, Access, PermissionsOf
<1>6. PICK s \in Staff :
        status'[s] = "Active" /\ Manage \in PermissionsOf(s, roleOf', permissions')
  BY DEF IInv, AdminsNeverGone, AdminsRemain, ActiveAdministrators, PermissionsOf
<1>7. Manage \in Access'[s]
  BY <1>6 DEF Access, PermissionsOf
<1>8. me \in Rules!Administrators(Access)
  BY <1>3, <1>4 DEF Rules!Administrators, Managing
<1> QED
  BY <1>1, <1>4, <1>5, <1>7, <1>8 DEF Rules!ChangeAccess, Rules!Administrators

LEMMA SignAllowed ==
  ASSUME IInv, NEW user \in Staff \cup {None}, Sign(user)
  PROVE  Rules!Next
<1>1. Access' = Access /\ me' = user
  BY DEF Sign, school, Access, PermissionsOf
<1>2. CASE user = None
  BY <1>1, <1>2 DEF Rules!Next, Rules!SignOut
<1>3. CASE user # None
  <2>1. user \in Staff /\ status[user] = "Active"
    BY <1>3 DEF Sign
  <2>2. Access[user] # {}
    BY <2>1, PermissionsGiven DEF IInv, RolesInUseExist, staff, roles, Access, PermissionsOf
  <2> QED
    BY <1>1, <2>1, <2>2 DEF Rules!Next, Rules!SignIn
<1> QED
  BY <1>2, <1>3

(* Inviting somebody, and what concerns batches, changes nobody's access.   *)
LEMMA AccessUnchanged ==
  ASSUME IInv,
         \/ \E s \in Staff, r \in Role : Invite(s, r) \/ InviteTeam(s, r)
         \/ UNCHANGED <<permissions, status, roleOf, me>>
  PROVE  UNCHANGED <<Access, me>>
<1>1. CASE UNCHANGED <<permissions, status, roleOf, me>>
  BY <1>1 DEF Access, PermissionsOf
<1>2. ASSUME NEW s \in Staff, NEW r \in Role, Invite(s, r) \/ InviteTeam(s, r)
      PROVE  UNCHANGED <<Access, me>>
  <2>1. /\ status[s] = "Absent" /\ UNCHANGED <<permissions, me>>
        /\ status' = [status EXCEPT ![s] = "Invited"] /\ roleOf' = [roleOf EXCEPT ![s] = r]
    BY <1>2 DEF Invite, InviteTeam, staff
  <2>2. \A u \in Staff : \/ u = s /\ status[u] # "Active" /\ status'[u] # "Active"
                         \/ status'[u] = status[u] /\ roleOf'[u] = roleOf[u]
    BY <2>1 DEF IInv, Typed
  <2> QED
    BY <2>1, <2>2 DEF Access, PermissionsOf
<1> QED
  BY <1>1, <1>2

LEMMA StepAllowed == IInv /\ IInv' /\ [Next]_vars => [Rules!Next]_<<Access, me>>
<1> SUFFICES ASSUME IInv, IInv', [Next]_vars PROVE Rules!Next \/ UNCHANGED <<Access, me>>
  OBVIOUS
<1>1. ASSUME me' = me, Managing, OwnUntouched PROVE Rules!Next
  BY <1>1, ChangeAllowed DEF Rules!Next
<1>2. ASSUME NEW t \in toasts, UndoSetStatus(t) \/ \E r \in Role : UndoDeleteRole(t, r)
      PROVE  Rules!Next
  <2>1. Managing /\ me' = me
    BY <1>2 DEF UndoSetStatus, UndoDeleteRole, IInv, ToastsSafe, ToastSafe
  <2> QED
    BY <1>1, <1>2, <2>1, UndoSetStatusSafe, UndoDeleteRoleSafe
<1>3. ASSUME NEW r \in Role, NEW ps \in SUBSET Permission, AddRole(r, ps) \/ UpdateRole(r, ps)
      PROVE  Rules!Next
  <2>1. Managing /\ me' = me
    BY <1>3 DEF AddRole, UpdateRole, MayAddRole, MayUpdateRole
  <2> QED
    BY <1>1, <1>3, <2>1, AddRoleSafe, UpdateRoleSafe
<1>4. ASSUME NEW r \in Role, NEW to \in Role, DeleteRole(r, to) PROVE Rules!Next
  <2>1. Managing /\ me' = me
    BY <1>4 DEF DeleteRole, MayDeleteRole
  <2> QED
    BY <1>1, <1>4, <2>1, DeleteRoleSafe
<1>5. ASSUME NEW s \in Staff, NEW r \in Role, NEW st \in StaffStatus, SaveStaff(s, r, st)
      PROVE  Rules!Next
  <2>1. Managing /\ me' = me
    BY <1>5 DEF SaveStaff
  <2> QED
    BY <1>1, <1>5, <2>1, SaveStaffSafe
<1>6. ASSUME NEW s \in Staff, SetStatus(s) \/ RemoveStaff(s) PROVE Rules!Next
  <2>1. Managing /\ me' = me
    BY <1>6 DEF SetStatus, RemoveStaff
  <2> QED
    BY <1>1, <1>6, <2>1, SetStatusSafe, RemoveStaffSafe
<1>7. ASSUME \/ \E t \in toasts : Dismiss(t)
             \/ \E b \in Batch, s \in Staff, st \in BatchStatus : SaveBatch(b, s, st)
             \/ \E b \in Batch : ArchiveBatch(b) \/ RestoreBatch(b)
             \/ UNCHANGED vars
      PROVE  UNCHANGED <<Access, me>>
  <2>1. UNCHANGED <<permissions, status, roleOf, me>>
    BY <1>7 DEF Dismiss, school, SaveBatch, ArchiveBatch, RestoreBatch, vars
  <2> QED
    BY <2>1, AccessUnchanged
<1>8. ASSUME \E s \in Staff, r \in Role : Invite(s, r) \/ InviteTeam(s, r)
      PROVE  UNCHANGED <<Access, me>>
  BY <1>8, AccessUnchanged
<1> QED
  BY <1>2, <1>3, <1>4, <1>5, <1>6, <1>7, <1>8, SignAllowed DEF Next

(* The store implements the role rules of domain/roles.ts: every sequence   *)
(* of its actions is a sequence of allowed changes of access.               *)
THEOREM RulesImplemented == Spec => RulesKept
<1>1. Spec => []IInv
  BY InitSafe, StepSafe, PTL DEF Spec
<1> QED
  BY <1>1, InitAllowed, StepAllowed, PTL DEF Spec, RulesKept, Rules!Spec
=============================================================================
