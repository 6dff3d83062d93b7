---------------------------- MODULE ScreensProofs ----------------------------
(***************************************************************************)
(* All screens show the same of a student's attendance, of what is due and *)
(* was received, and of the marks, for every school; the timetable keeps    *)
(* the class in view and the form's warning of a double booking, and all    *)
(* screens make the same of it.                                             *)
(***************************************************************************)
EXTENDS LedgerProofs, Screens, Sequences

-----------------------------------------------------------------------------
(* Attendance: the figures that the screens compute from the registers.     *)

(* Two sets that share nothing have as many members as they have together. *)
LEMMA TwoParts ==
  ASSUME NEW S, IsFiniteSet(S), NEW T, IsFiniteSet(T), S \cap T = {}
  PROVE  /\ Cardinality(S \cup T) = Cardinality(S) + Cardinality(T)
         /\ Cardinality(S) \in Nat /\ Cardinality(T) \in Nat
<1>1. Cardinality(S \cup T) = Cardinality(S) + Cardinality(T) - Cardinality(S \cap T)
  BY FS_Union, SMT
<1>2. Cardinality(S \cap T) = 0
  BY FS_EmptySet
<1>3. Cardinality(S) \in Nat /\ Cardinality(T) \in Nat
  BY FS_CardinalityType
<1>4. QED BY <1>1, <1>2, <1>3

(* Parts of a set that share nothing add up to it. *)
LEMMA PartsCount ==
  ASSUME NEW X, IsFiniteSet(X), NEW G, \A x \in X : IsFiniteSet(G[x]),
         \A x, y \in X : x # y => G[x] \cap G[y] = {},
         NEW f, \A x \in X : f[x] = Cardinality(G[x])
  PROVE  SumOf(f, X) = Cardinality(UNION {G[x] : x \in X})
<1> DEFINE All(T) == UNION {G[x] : x \in T}
           Bad == {T \in SUBSET X : SumOf(f, T) # Cardinality(All(T))}
<1> SUFFICES ASSUME Bad # {} PROVE FALSE
  OBVIOUS
<1>0. Bad \in SUBSET (SUBSET X)
  OBVIOUS
<1> HIDE DEF Bad
<1>1. PICK T \in Bad : \A U \in Bad : U \subseteq T => U = T
  BY <1>0, SmallestSubset
<1> USE DEF Bad
<1> DEFINE c == Pick(T)
           R == T \ {c}
<1>2. IsFiniteSet(T) /\ T \in SUBSET X
  BY <1>0, <1>1, FS_Subset
<1>3. SumOf(f, T) = IF T = {} THEN 0 ELSE f[c] + SumOf(f, R)
  BY <1>2, SumSteps
<1>4. T # {}
  <2>1. All({}) = {}
    OBVIOUS
  <2>2. QED BY <1>1, <1>3, <2>1, FS_EmptySet
<1>5. c \in T /\ R \in SUBSET X /\ R # T /\ R \subseteq T
  BY <1>2, <1>4, PickIn
<1>6. R \notin Bad
  BY <1>1, <1>5
<1>7. SumOf(f, R) = Cardinality(All(R))
  BY <1>5, <1>6
<1>8. IsFiniteSet(All(R))
  <2> DEFINE Img == {G[x] : x \in R}
             h == [x \in R |-> G[x]]
  <2>1. h \in Surjection(R, Img)
    BY DEF Surjection
  <2>2. IsFiniteSet(R)
    BY <1>2, FS_Subset
  <2>3. IsFiniteSet(Img)
    BY <2>1, <2>2, FS_Surjection
  <2>4. \A S \in Img : IsFiniteSet(S)
    BY <1>5
  <2> HIDE DEF Img
  <2>5. IsFiniteSet(UNION Img)
    BY <2>3, <2>4, FS_UNION
  <2>6. QED BY <2>5 DEF Img
<1>9. All(T) = All(R) \cup G[c] /\ All(R) \cap G[c] = {}
  BY <1>2, <1>5
<1>10. IsFiniteSet(G[c])
  BY <1>2, <1>5
<1> HIDE DEF All
<1>11. Cardinality(All(T)) = Cardinality(All(R)) + Cardinality(G[c])
  BY <1>8, <1>9, <1>10, TwoParts
<1>12. Cardinality(All(R)) \in Nat /\ Cardinality(G[c]) \in Nat /\ f[c] = Cardinality(G[c])
  BY <1>2, <1>5, <1>8, <1>10, FS_CardinalityType
<1>13. SumOf(f, T) = Cardinality(All(T))
  BY <1>3, <1>4, <1>7, <1>11, <1>12
<1>14. QED BY <1>1, <1>13

(* The screens count by the same definition as the theorems about sets. *)
LEMMA SameCount == \A S : Figures!Cardinality(S) = Cardinality(S)
  BY DEF Figures!Cardinality, Cardinality

Kinds == {"P", "L", "A", "E"}

(* A total is the sum of its groups. *)
LEMMA TotalIsSum ==
  ASSUME NEW groups, IsFiniteSet(DOMAIN groups), NEW m \in Kinds,
         NEW f, \A x \in DOMAIN groups : f[x] = groups[x][m]
  PROVE  Figures!Total(groups)[m] = SumOf(f, DOMAIN groups)
<1> DEFINE P == DOMAIN groups
           Eqn(g) == g = [s \in SUBSET P |-> IF s = {} THEN 0 ELSE groups[Pick(s)][m] + g[s \ {Pick(s)}]]
<1>1. Figures!Total(groups)[m] = Figures!MapThenSumSet(LAMBDA x : groups[x][m], P)
  BY DEF Figures!Total, Kinds
<1>2. Figures!MapThenSumSet(LAMBDA x : groups[x][m], P) = (CHOOSE g : Eqn(g))[P]
  BY DEF Figures!MapThenSumSet, Figures!MapThenFoldSet, Pick
<1>3. ASSUME NEW g PROVE Eqn(g) <=> AddsUp(f, P, g)
  <2>1. \A s \in SUBSET P : s # {} => f[Pick(s)] = groups[Pick(s)][m]
    BY PickIn
  <2>2. QED BY <2>1 DEF AddsUp
<1> HIDE DEF Eqn
<1>4. \E g : AddsUp(f, P, g)
  BY AddsUpExists
<1>5. AddsUp(f, P, CHOOSE g : Eqn(g))
  BY <1>3, <1>4
<1>6. AddsUp(f, P, CHOOSE g : AddsUp(f, P, g))
  BY <1>4
<1>7. P \in SUBSET (P \cap P)
  OBVIOUS
<1>8. (CHOOSE g : Eqn(g))[P] = (CHOOSE g : AddsUp(f, P, g))[P]
  BY <1>5, <1>6, <1>7, AddsUpUnique
<1>9. QED BY <1>1, <1>2, <1>8 DEF SumOf

(* The total of the counts of such parts is the count of the whole. *)
LEMMA TotalOfParts ==
  ASSUME NEW X, IsFiniteSet(X), NEW G, \A x \in X : IsFiniteSet(G[x]),
         \A x, y \in X : x # y => G[x] \cap G[y] = {},
         NEW groups, DOMAIN groups = X, \A x \in X : groups[x] = Figures!Counts(G[x])
  PROVE  Figures!Total(groups) = Figures!Counts(UNION {G[x] : x \in X})
<1> DEFINE W == UNION {G[x] : x \in X}
<1>1. ASSUME NEW m \in Kinds
      PROVE  Figures!Total(groups)[m] = Figures!Counts(W)[m]
  <2> DEFINE H == [x \in X |-> {e \in G[x] : e.mark = m}]
             f == [x \in X |-> Cardinality(H[x])]
  <2>1. \A x \in X : f[x] = groups[x][m]
    <3> SUFFICES ASSUME NEW x \in X PROVE f[x] = groups[x][m]
      OBVIOUS
    <3>1. groups[x][m] = Figures!Counts(G[x])[m]
      OBVIOUS
    <3>2. Figures!Counts(G[x])[m] = Cardinality({e \in G[x] : e.mark = m})
      BY SameCount DEF Figures!Counts, Kinds
    <3>3. QED BY <3>1, <3>2
  <2>2. Figures!Total(groups)[m] = SumOf(f, X)
    BY <2>1, TotalIsSum
  <2>3. \A x \in X : IsFiniteSet(H[x])
    BY FS_Subset
  <2>4. \A x, y \in X : x # y => H[x] \cap H[y] = {}
    OBVIOUS
  <2>5. UNION {H[x] : x \in X} = {e \in W : e.mark = m}
    OBVIOUS
  <2>6. \A x \in X : f[x] = Cardinality(H[x])
    OBVIOUS
  <2> HIDE DEF H, f
  <2>7. SumOf(f, X) = Cardinality(UNION {H[x] : x \in X})
    BY <2>3, <2>4, <2>6, PartsCount
  <2>8. QED BY <2>2, <2>5, <2>7, SameCount DEF Figures!Counts, Kinds
<1>2. /\ Figures!Total(groups) = [m \in Kinds |-> Figures!Total(groups)[m]]
      /\ Figures!Counts(W) = [m \in Kinds |-> Figures!Counts(W)[m]]
  BY DEF Figures!Total, Figures!Counts, Kinds
<1>3. QED BY <1>1, <1>2

(* Everything in the registers. *)
Book == Figures!Entries(DOMAIN registers)

(* A student has one mark in a register: the entries are as many. *)
LEMMA BookIs ==
  ASSUME Figures!TypeOK
  PROVE  /\ \A e : e \in Book <=>
              \E k \in DOMAIN registers : \E s \in DOMAIN registers[k] :
                e = [student |-> s, batch |-> k[1], day |-> k[2], mark |-> registers[k][s]]
         /\ \A e \in Book : /\ e.student \in Pupil /\ e.batch \in Course /\ e.day \in 1..LastClass
                            /\ <<e.batch, e.day>> \in DOMAIN registers
                            /\ e.student \in DOMAIN registers[<<e.batch, e.day>>]
                            /\ e.mark = registers[<<e.batch, e.day>>][e.student]
<1>1. \A k \in DOMAIN registers :
        k = <<k[1], k[2]>> /\ k[1] \in Course /\ k[2] \in 1..LastClass /\ DOMAIN registers[k] \subseteq Pupil
  BY DEF Figures!TypeOK, Figures!Day
<1>2. \A e : e \in Book <=>
        \E k \in DOMAIN registers : \E s \in DOMAIN registers[k] :
          e = [student |-> s, batch |-> k[1], day |-> k[2], mark |-> registers[k][s]]
  BY DEF Book, Figures!Entries
<1>3. QED BY <1>1, <1>2

(* The entries of some registers are the entries of the book in them. *)
LEMMA EntriesOf ==
  ASSUME Figures!TypeOK, NEW keys \in SUBSET (DOMAIN registers)
  PROVE  Figures!Entries(keys) = {e \in Book : <<e.batch, e.day>> \in keys}
<1>1. \A e : e \in Figures!Entries(keys) <=>
        \E k \in keys : \E s \in DOMAIN registers[k] :
          e = [student |-> s, batch |-> k[1], day |-> k[2], mark |-> registers[k][s]]
  BY DEF Figures!Entries
<1>2. \A k \in DOMAIN registers : k = <<k[1], k[2]>>
  BY DEF Figures!TypeOK
<1>3. ASSUME NEW e \in Figures!Entries(keys) PROVE e \in Book /\ <<e.batch, e.day>> \in keys
  BY <1>1, <1>2, BookIs
<1>4. ASSUME NEW e \in Book, <<e.batch, e.day>> \in keys PROVE e \in Figures!Entries(keys)
  <2>1. PICK k \in DOMAIN registers : \E s \in DOMAIN registers[k] :
          e = [student |-> s, batch |-> k[1], day |-> k[2], mark |-> registers[k][s]]
    BY BookIs
  <2>2. k = <<e.batch, e.day>>
    BY <1>2, <2>1
  <2>3. QED BY <1>1, <1>4, <2>1, <2>2
<1>5. QED BY <1>3, <1>4

(* The book of a finite school is finite. *)
LEMMA BookFinite ==
  ASSUME Figures!TypeOK
  PROVE  IsFiniteSet(DOMAIN registers) /\ \A T \in SUBSET Book : IsFiniteSet(T)
<1> DEFINE At == {p \in Pupil \X (DOMAIN registers) : p[1] \in DOMAIN registers[p[2]]}
           h == [p \in At |-> [student |-> p[1], batch |-> p[2][1], day |-> p[2][2],
                               mark |-> registers[p[2]][p[1]]]]
<1>1. DOMAIN registers \in SUBSET (Course \X (1..LastClass))
  BY DEF Figures!TypeOK, Figures!Day
<1>2. IsFiniteSet(Course \X (1..LastClass))
  <2>1. IsFiniteSet(1..LastClass)
    BY SchoolGiven, FS_Interval
  <2>2. QED BY <2>1, SchoolGiven, FS_Product
<1>3. IsFiniteSet(DOMAIN registers)
  BY <1>1, <1>2, FS_Subset
<1>4. IsFiniteSet(Pupil \X (DOMAIN registers))
  BY <1>3, SchoolGiven, FS_Product
<1>5. IsFiniteSet(At)
  BY <1>4, FS_Subset
<1>6. h \in Surjection(At, Book)
  <2>1. \A p \in At : h[p] \in Book
    BY BookIs
  <2>2. ASSUME NEW e \in Book PROVE \E p \in At : h[p] = e
    <3>1. PICK k \in DOMAIN registers : \E s \in DOMAIN registers[k] :
            e = [student |-> s, batch |-> k[1], day |-> k[2], mark |-> registers[k][s]]
      BY BookIs
    <3>2. PICK s \in DOMAIN registers[k] :
            e = [student |-> s, batch |-> k[1], day |-> k[2], mark |-> registers[k][s]]
      BY <3>1
    <3>3. <<s, k>> \in At
      BY <3>1, <3>2 DEF Figures!TypeOK
    <3>4. h[<<s, k>>] = e
      BY <3>2, <3>3
    <3>5. QED BY <3>3, <3>4
  <2> HIDE DEF h, At
  <2>3. DOMAIN h = At /\ h = [p \in At |-> h[p]]
    BY DEF h
  <2>4. QED BY <2>1, <2>2, <2>3 DEF Surjection
<1> HIDE DEF h, At
<1>7. IsFiniteSet(Book)
  BY <1>5, <1>6, FS_Surjection
<1>8. QED BY <1>3, <1>7, FS_Subset

(* The groups of any entries add up to them. *)
LEMMA GroupsAddUp ==
  ASSUME NEW entries, IsFiniteSet(entries), NEW field
  PROVE  Figures!Total(Figures!GroupBy(field, entries)) = Figures!Counts(entries)
<1> DEFINE X == {e[field] : e \in entries}
           G == [x \in X |-> {e \in entries : e[field] = x}]
           h == [e \in entries |-> e[field]]
           groups == Figures!GroupBy(field, entries)
<1>1. h \in Surjection(entries, X)
  BY DEF Surjection
<1>2. IsFiniteSet(X)
  BY <1>1, FS_Surjection
<1>3. \A x \in X : IsFiniteSet(G[x])
  BY FS_Subset
<1>4. \A x, y \in X : x # y => G[x] \cap G[y] = {}
  OBVIOUS
<1>5. DOMAIN groups = X /\ \A x \in X : groups[x] = Figures!Counts(G[x])
  BY DEF Figures!GroupBy
<1>6. /\ \A e \in entries : e[field] \in X /\ e \in G[e[field]]
      /\ \A x \in X : G[x] \subseteq entries
  OBVIOUS
<1> HIDE DEF X, G, groups
<1>7. Figures!Total(groups) = Figures!Counts(UNION {G[x] : x \in X})
  BY <1>2, <1>3, <1>4, <1>5, TotalOfParts
<1>8. UNION {G[x] : x \in X} = entries
  BY <1>6
<1>9. QED BY <1>7, <1>8 DEF groups

(* The windows of the screens. *)
LEMMA WindowIs ==
  ASSUME NEW from \in Figures!Day, NEW to \in Figures!Day
  PROVE  /\ Figures!CustomWindow(from, to).from \in Figures!Day
         /\ Figures!CustomWindow(from, to).to \in Figures!Day
  BY DEF Figures!CustomWindow

(* The window before one ends where it starts, and is as long. *)
LEMMA WindowsAlwaysMeet == Figures!WindowsMeet
<1> SUFFICES ASSUME NEW from \in Figures!Day, NEW to \in Figures!Day
             PROVE  LET w == Figures!CustomWindow(from, to)
                        p == Figures!PreviousWindow(w)
                    IN  p.to = w.from - 1 /\ p.to - p.from = w.to - w.from
  BY DEF Figures!WindowsMeet
<1>1. Figures!CustomWindow(from, to).from \in Int /\ Figures!CustomWindow(from, to).to \in Int
  BY WindowIs, SchoolGiven DEF Figures!Day
<1>2. QED BY <1>1 DEF Figures!PreviousWindow, Figures!LastDays

(* The day of an entry is a day, its batch a batch. *)
LEMMA BookTyped ==
  ASSUME Figures!TypeOK
  PROVE  \A e \in Book : e.batch \in Course /\ e.day \in Int /\ 1 <= e.day /\ e.day <= LastClass
<1>1. \A e \in Book : e.batch \in Course /\ e.day \in 1..LastClass
  BY BookIs
<1>2. QED BY <1>1, SchoolGiven

(* What a screen saw: the entries of some batches in a window. *)
Seen(w, courses) == {e \in Book : w.from <= e.day /\ e.day <= w.to /\ e.batch \in courses}

(* It is what the filter of the reports leaves. *)
LEMMA SeenIs ==
  ASSUME Figures!TypeOK, NEW w, NEW courses
  PROVE  /\ Figures!Entries(Figures!FilterSessions(w, courses)) = Seen(w, courses)
         /\ IsFiniteSet(Seen(w, courses))
<1> DEFINE keys == Figures!FilterSessions(w, courses)
<1>1. keys \in SUBSET (DOMAIN registers)
  BY DEF Figures!FilterSessions
<1>2. Figures!Entries(keys) = {e \in Book : <<e.batch, e.day>> \in keys}
  BY <1>1, EntriesOf
<1>3. \A e \in Book : <<e.batch, e.day>> \in keys
                        <=> w.from <= e.day /\ e.day <= w.to /\ e.batch \in courses
  BY BookIs DEF Figures!FilterSessions
<1>4. IsFiniteSet(Seen(w, courses))
  BY BookFinite DEF Seen
<1>5. QED BY <1>2, <1>3, <1>4 DEF Seen

(* The report's parts add up, and so do the batch page's classes. *)
LEMMA ReportAddsUp ==
  ASSUME Figures!TypeOK, NEW w, NEW courses
  PROVE  LET r == Figures!Report(w, courses)
         IN  r.counts = Figures!Total(r.batches) /\ r.counts = Figures!Total(r.days)
<1> DEFINE seen == Figures!Entries(Figures!FilterSessions(w, courses))
<1>1. IsFiniteSet(seen)
  BY SeenIs
<1> HIDE DEF seen
<1>2. /\ Figures!Total(Figures!GroupBy("batch", seen)) = Figures!Counts(seen)
      /\ Figures!Total(Figures!GroupBy("day", seen)) = Figures!Counts(seen)
  BY <1>1, GroupsAddUp, Zenon
<1>3. LET r == Figures!Report(w, courses)
      IN  /\ r.counts = Figures!Counts(seen)
          /\ r.batches = Figures!GroupBy("batch", seen)
          /\ r.days = Figures!GroupBy("day", seen)
  BY DEF Figures!Report, seen
<1>4. QED BY <1>2, <1>3

(* The register of each batch adds up to the report of all. *)
LEMMA BatchTabAddsUp ==
  ASSUME Figures!TypeOK, NEW w, NEW b
  PROVE  Figures!BatchTab(b, w) = Figures!Report(w, {b}).counts
<1> DEFINE keys == Figures!FilterSessions(w, {b})
           G == [k \in keys |-> Figures!Entries({k})]
           groups == [k \in keys |-> Figures!Counts(Figures!Entries({k}))]
<1>1. keys \in SUBSET (DOMAIN registers)
  BY DEF Figures!FilterSessions
<1>2. IsFiniteSet(keys)
  BY <1>1, BookFinite, FS_Subset
<1>3. \A k \in keys : G[k] = {e \in Book : <<e.batch, e.day>> = k}
  <2>1. \A k \in keys : {k} \in SUBSET (DOMAIN registers)
    BY <1>1
  <2>2. \A k \in keys : Figures!Entries({k}) = {e \in Book : <<e.batch, e.day>> \in {k}}
    BY <2>1, EntriesOf
  <2>3. QED BY <2>2
<1>4. Figures!Entries(keys) = {e \in Book : <<e.batch, e.day>> \in keys}
  BY <1>1, EntriesOf
<1>5. DOMAIN groups = keys /\ \A k \in keys : groups[k] = Figures!Counts(G[k])
  OBVIOUS
<1>6. Figures!BatchTab(b, w) = Figures!Total(groups)
  BY DEF Figures!BatchTab
<1>7. Figures!Report(w, {b}).counts = Figures!Counts(Figures!Entries(keys))
  BY DEF Figures!Report
<1> HIDE DEF keys, G, groups
<1>8. \A k \in keys : IsFiniteSet(G[k])
  BY <1>3, BookFinite
<1>9. \A k, l \in keys : k # l => G[k] \cap G[l] = {}
  BY <1>3
<1>10. UNION {G[k] : k \in keys} = Figures!Entries(keys)
  <2>1. ASSUME NEW e \in Figures!Entries(keys) PROVE \E k \in keys : e \in G[k]
    BY <1>3, <1>4
  <2>2. \A k \in keys : \A e \in G[k] : e \in Figures!Entries(keys)
    BY <1>3, <1>4
  <2>3. QED BY <2>1, <2>2
<1>11. Figures!Total(groups) = Figures!Counts(UNION {G[k] : k \in keys})
  BY <1>2, <1>5, <1>8, <1>9, TotalOfParts
<1>12. QED BY <1>6, <1>7, <1>10, <1>11

(* A student's own entries. *)
Own(s) == {e \in Book : e.student = s}

(* They are the rows of the student's profile. *)
LEMMA OwnIs ==
  ASSUME Figures!TypeOK, NEW s
  PROVE  Figures!ProfileRows(s) = Own(s) /\ IsFiniteSet(Own(s))
  BY BookFinite DEF Figures!ProfileRows, Own, Book

(* What is grouped by student is each one's own. *)
LEMMA OwnGroup ==
  ASSUME NEW entries, NEW s
  PROVE  /\ s \in DOMAIN Figures!GroupBy("student", entries) <=> \E e \in entries : e.student = s
         /\ s \in DOMAIN Figures!GroupBy("student", entries) =>
              Figures!GroupBy("student", entries)[s] = Figures!Counts({e \in entries : e.student = s})
  BY DEF Figures!GroupBy

(* The profile's parts, and its whole and recent part as reported. *)
LEMMA ProfileAgrees ==
  ASSUME Figures!TypeOK, NEW s \in Figures!OnFile
  PROVE  /\ Figures!Profile(s).overall = Figures!Total(Figures!ProfileTab(s))
         /\ s \in DOMAIN Figures!Report(Figures!Ever, Course).students =>
              Figures!Report(Figures!Ever, Course).students[s] = Figures!Profile(s).overall
         /\ s \in DOMAIN Figures!Report(Figures!LastDays(Recent, LastClass), Course).students =>
              Figures!Report(Figures!LastDays(Recent, LastClass), Course).students[s]
                = Figures!Profile(s).recent
<1> DEFINE month == Figures!LastDays(Recent, LastClass)
<1>1. Figures!Profile(s).overall = Figures!Total(Figures!ProfileTab(s))
  <2>1. Figures!Total(Figures!GroupBy("batch", Own(s))) = Figures!Counts(Own(s))
    BY OwnIs, GroupsAddUp, Zenon
  <2>2. QED BY <2>1, OwnIs DEF Figures!Profile, Figures!ProfileTab
<1>2. /\ Figures!Profile(s).overall = Figures!Counts(Own(s))
      /\ Figures!Profile(s).recent = Figures!Counts({e \in Own(s) : e.day >= LastClass - (Recent - 1)})
  BY OwnIs DEF Figures!Profile
<1>3. ASSUME NEW w, s \in DOMAIN Figures!Report(w, Course).students
      PROVE  Figures!Report(w, Course).students[s]
               = Figures!Counts({e \in Seen(w, Course) : e.student = s})
  <2>1. Figures!Report(w, Course).students
          = [x \in DOMAIN Figures!GroupBy("student", Seen(w, Course)) \cap Figures!OnFile |->
               Figures!GroupBy("student", Seen(w, Course))[x]]
    BY SeenIs DEF Figures!Report
  <2>2. QED BY <1>3, <2>1, OwnGroup
<1>4. {e \in Seen(Figures!Ever, Course) : e.student = s} = Own(s)
  <2>1. \A e \in Book : Figures!Ever.from <= e.day /\ e.day <= Figures!Ever.to /\ e.batch \in Course
    BY BookTyped DEF Figures!Ever
  <2>2. QED BY <2>1 DEF Seen, Own
<1>5. {e \in Seen(month, Course) : e.student = s} = {e \in Own(s) : e.day >= LastClass - (Recent - 1)}
  <2>1. \A e \in Book : month.from <= e.day /\ e.day <= month.to /\ e.batch \in Course
                          <=> e.day >= LastClass - (Recent - 1)
    BY BookTyped, SchoolGiven DEF Figures!LastDays
  <2> HIDE DEF month
  <2>2. QED BY <2>1 DEF Seen, Own
<1>6. QED BY <1>1, <1>2, <1>3, <1>4, <1>5

(* The batch page, for each of its students. *)
LEMMA BatchPageAgrees ==
  ASSUME Figures!TypeOK, NEW s \in Figures!OnFile, NEW b \in enrolled[s]
  PROVE  Figures!BatchStudents(b)[s]
           = Figures!Counts({e \in Figures!ProfileRows(s) : e.batch = b /\ e.day > LastClass - Recent})
<1> DEFINE seen == Seen(Figures!LastDays(Recent, LastClass), {b})
           mine == {e \in Figures!ProfileRows(s) : e.batch = b /\ e.day > LastClass - Recent}
<1>1. s \in Figures!RollOf(b)
  BY DEF Figures!RollOf
<1>2. Figures!BatchStudents(b)[s]
        = IF s \in DOMAIN Figures!GroupBy("student", seen) THEN Figures!GroupBy("student", seen)[s]
          ELSE Figures!Counts({})
  BY <1>1, SeenIs DEF Figures!BatchStudents
<1>3. {e \in seen : e.student = s} = mine
  <2> DEFINE month == Figures!LastDays(Recent, LastClass)
  <2>1. \A e \in Book : month.from <= e.day /\ e.day <= month.to <=> e.day > LastClass - Recent
    BY BookTyped, SchoolGiven DEF Figures!LastDays
  <2> HIDE DEF month
  <2>2. {e \in Seen(month, {b}) : e.student = s} = mine
    BY <2>1, OwnIs DEF Seen, Own
  <2>3. QED BY <2>2 DEF month
<1> HIDE DEF seen, mine
<1>4. s \notin DOMAIN Figures!GroupBy("student", seen) => mine = {}
  BY <1>3, OwnGroup
<1>5. s \in DOMAIN Figures!GroupBy("student", seen) =>
        Figures!GroupBy("student", seen)[s] = Figures!Counts(mine)
  BY <1>3, OwnGroup
<1>6. Figures!BatchStudents(b)[s] = Figures!Counts(mine)
  BY <1>2, <1>4, <1>5
<1>7. QED BY <1>6 DEF mine

(* The register, where it shows every class. *)
LEMMA RegisterAgrees ==
  ASSUME Figures!TypeOK, NEW s \in Figures!OnFile, NEW b \in enrolled[s],
         Cardinality(Figures!FilterSessions(Figures!Ever, {b})) <= MaxShown,
         b \in DOMAIN Figures!ProfileTab(s)
  PROVE  Figures!Register(b, Figures!Ever)[s] = Figures!ProfileTab(s)[b]
<1> DEFINE all == Figures!FilterSessions(Figures!Ever, {b})
           seen == Seen(Figures!Ever, {b})
<1>1. all \in SUBSET (DOMAIN registers) /\ IsFiniteSet(all)
  BY BookFinite, FS_Subset DEF Figures!FilterSessions
<1>2. ASSUME NEW k \in all PROVE Figures!Cardinality({l \in all : l[2] > k[2]}) < MaxShown
  <2> DEFINE after == {l \in all : l[2] > k[2]}
  <2>1. k[2] \in Int
    <3>1. k \in Course \X (1..LastClass)
      BY <1>1, <1>2 DEF Figures!TypeOK, Figures!Day
    <3>2. QED BY <3>1
  <2>2. after \in SUBSET all /\ after # all
    BY <2>1
  <2> HIDE DEF after
  <2>3. /\ Cardinality(after) \in Nat /\ Cardinality(all) \in Nat
        /\ Cardinality(after) <= Cardinality(all) /\ Cardinality(after) # Cardinality(all)
    BY <1>1, <2>2, FS_Subset, FS_CardinalityType
  <2>4. Cardinality(after) < MaxShown
    BY <2>3, SchoolGiven
  <2>5. QED BY <2>4, SameCount DEF after
<1>3. Figures!ShownSessions(b, Figures!Ever) = all
  BY <1>2 DEF Figures!ShownSessions
<1>4. s \in Figures!RollOf(b)
  BY DEF Figures!RollOf
<1>5. Figures!Register(b, Figures!Ever)[s] = Figures!Counts({e \in seen : e.student = s})
  BY <1>3, <1>4, SeenIs DEF Figures!Register, Figures!OnFile
<1>6. Figures!ProfileTab(s)[b] = Figures!Counts({e \in Own(s) : e.batch = b})
  BY OwnIs DEF Figures!ProfileTab, Figures!GroupBy
<1>7. {e \in seen : e.student = s} = {e \in Own(s) : e.batch = b}
  <2>1. \A e \in Book : Figures!Ever.from <= e.day /\ e.day <= Figures!Ever.to
    BY BookTyped DEF Figures!Ever
  <2>2. QED BY <2>1 DEF Seen, Own
<1>8. QED BY <1>5, <1>6, <1>7

(* The month before a class, beside each name of the roll call. *)
LEMMA RollCallAgrees ==
  ASSUME Figures!TypeOK, NEW s, NEW b, NEW d \in Figures!Day,
         s \in DOMAIN Figures!BesideRoll(b, d)
  PROVE  Figures!BesideRoll(b, d)[s]
           = Figures!Counts({e \in Figures!ProfileRows(s) : e.batch = b /\ e.day \in (d - Recent)..(d - 1)})
<1> DEFINE w == [from |-> d - Recent, to |-> d - 1]
<1>1. Figures!BesideRoll(b, d) = Figures!GroupBy("student", Seen(w, {b}))
  BY SeenIs DEF Figures!BesideRoll
<1>2. {e \in Seen(w, {b}) : e.student = s}
        = {e \in Figures!ProfileRows(s) : e.batch = b /\ e.day \in (d - Recent)..(d - 1)}
  <2>1. \A e \in Book : w.from <= e.day /\ e.day <= w.to <=> e.day \in (d - Recent)..(d - 1)
    BY BookTyped, SchoolGiven DEF Figures!Day
  <2> HIDE DEF w
  <2>2. QED BY <2>1, OwnIs DEF Seen, Own
<1> DEFINE seen == Seen(w, {b})
<1>3. s \in DOMAIN Figures!GroupBy("student", seen)
  BY <1>1
<1> HIDE DEF seen
<1>4. Figures!GroupBy("student", seen)[s] = Figures!Counts({e \in seen : e.student = s})
  BY <1>3, OwnGroup
<1>5. QED BY <1>1, <1>2, <1>4 DEF seen

(* Every screen shows the same figures. *)
LEMMA ScreensAgree == ASSUME Figures!TypeOK PROVE Figures!FiguresAgree
<1>1. ASSUME NEW from \in Figures!Day, NEW to \in Figures!Day
      PROVE  LET w == Figures!CustomWindow(from, to)
                 r == Figures!Report(w, Course)
             IN  /\ r.counts = Figures!Total(r.batches) /\ r.counts = Figures!Total(r.days)
                 /\ \A b \in Course : Figures!BatchTab(b, w) = Figures!Report(w, {b}).counts
  BY ReportAddsUp, BatchTabAddsUp, Zenon
<1>2. ASSUME NEW s \in Figures!OnFile, NEW b \in enrolled[s],
             Figures!Cardinality(Figures!FilterSessions(Figures!Ever, {b})) <= MaxShown,
             b \in DOMAIN Figures!ProfileTab(s)
      PROVE  Figures!Register(b, Figures!Ever)[s] = Figures!ProfileTab(s)[b]
  BY <1>2, SameCount, RegisterAgrees
<1>3. QED
  BY <1>1, <1>2, WindowsAlwaysMeet, ProfileAgrees, BatchPageAgrees, RollCallAgrees
  DEF Figures!FiguresAgree

(* Whether a class was one the student was recorded in; and whether it      *)
(* leaves a run of absences standing.                                       *)
Held(s, b, d) == <<b, d>> \in DOMAIN registers /\ s \in DOMAIN registers[<<b, d>>]
Missed(s, b, d) == Held(s, b, d) => registers[<<b, d>>][s] = "A"

(* The run of absences from a day on, and who has come since.               *)
RunFrom(s, b, d, before) ==
  {e \in d..(before - 1) : Held(s, b, e) /\ \A f \in e..(before - 1) : Missed(s, b, f)}
CameSince(b, d, before) == {s \in Pupil : \E e \in d..(before - 1) : ~Missed(s, b, e)}
StateAt(b, d, before) ==
  [run |-> [s \in Pupil |-> Figures!Cardinality(RunFrom(s, b, d, before))],
   settled |-> CameSince(b, d, before)]

(* One register more, as the pass over them takes it.                       *)
OneMore(later, b, d) ==
  LET records == IF <<b, d>> \in DOMAIN registers THEN registers[<<b, d>>] ELSE [s \in {} |-> "A"]
      absent == {s \in DOMAIN records \ later.settled : records[s] = "A"}
  IN [run |-> [s \in Pupil |-> later.run[s] + (IF s \in absent THEN 1 ELSE 0)],
      settled |-> later.settled \cup (DOMAIN records \ absent)]
Walks(pass, b, before) ==
  pass = [d \in 1..before |-> IF d = before THEN [run |-> [s \in Pupil |-> 0], settled |-> {}]
                              ELSE OneMore(pass[d + 1], b, d)]

(* The roll call takes one pass over the registers. *)
LEMMA StreaksWalk ==
  ASSUME NEW b, NEW before
  PROVE  Figures!Streaks(b, before) = (CHOOSE pass : Walks(pass, b, before))[1].run
  BY DEF Figures!Streaks, Walks, OneMore

(* A streak is the run that ends at the class before. *)
LEMMA RunIsStreak ==
  ASSUME NEW s, NEW b, NEW before \in Nat
  PROVE  Figures!AbsenceStreak(s, b, before) = Figures!Cardinality(RunFrom(s, b, 1, before))
<1> DEFINE held == {d \in 1..(before - 1) : Held(s, b, d)}
           streak == {d \in held : \A e \in held : e >= d => registers[<<b, e>>][s] = "A"}
<1>1. Figures!AbsenceStreak(s, b, before) = Figures!Cardinality(streak)
  BY DEF Figures!AbsenceStreak, Held
<1>2. ASSUME NEW d \in 1..(before - 1)
      PROVE  (\A e \in held : e >= d => registers[<<b, e>>][s] = "A")
               <=> \A f \in d..(before - 1) : Missed(s, b, f)
  BY DEF Missed
<1>3. streak = RunFrom(s, b, 1, before)
  BY <1>2 DEF RunFrom
<1>4. QED BY <1>1, <1>3

(* A run is longer by a class that was missed, and ends at one that was not. *)
LEMMA RunStep ==
  ASSUME NEW s \in Pupil, NEW b, NEW before \in Nat, NEW d \in 1..(before - 1)
  PROVE  Figures!Cardinality(RunFrom(s, b, d, before))
           = Figures!Cardinality(RunFrom(s, b, d + 1, before))
             + (IF Held(s, b, d) /\ registers[<<b, d>>][s] = "A" /\ s \notin CameSince(b, d + 1, before)
                THEN 1 ELSE 0)
<1> DEFINE grows == Held(s, b, d) /\ registers[<<b, d>>][s] = "A" /\ s \notin CameSince(b, d + 1, before)
           R == RunFrom(s, b, d + 1, before)
<1>1. \A e : e \in d..(before - 1) <=> e = d \/ e \in (d + 1)..(before - 1)
  OBVIOUS
<1>2. d \in RunFrom(s, b, d, before) <=> grows
  <2>1. d \in RunFrom(s, b, d, before)
          <=> Held(s, b, d) /\ \A f \in d..(before - 1) : Missed(s, b, f)
    BY <1>1 DEF RunFrom
  <2>2. (\A f \in d..(before - 1) : Missed(s, b, f))
          <=> Missed(s, b, d) /\ \A f \in (d + 1)..(before - 1) : Missed(s, b, f)
    BY <1>1
  <2>3. s \notin CameSince(b, d + 1, before) <=> \A f \in (d + 1)..(before - 1) : Missed(s, b, f)
    BY DEF CameSince
  <2>4. QED BY <2>1, <2>2, <2>3 DEF Missed
<1>3. \A e \in (d + 1)..(before - 1) : e \in RunFrom(s, b, d, before) <=> e \in R
  BY <1>1 DEF RunFrom
<1>4. RunFrom(s, b, d, before) = IF grows THEN R \cup {d} ELSE R
  <2>1. RunFrom(s, b, d, before) \subseteq d..(before - 1) /\ R \subseteq (d + 1)..(before - 1)
    BY DEF RunFrom
  <2>2. \A e : e \in RunFrom(s, b, d, before) <=> e \in R \/ (e = d /\ grows)
    BY <1>1, <1>2, <1>3, <2>1
  <2> HIDE DEF R, grows
  <2>3. QED BY <2>2
<1>5. d \notin R /\ IsFiniteSet(R)
  <2>1. IsFiniteSet((d + 1)..(before - 1))
    BY FS_Interval
  <2>2. R \in SUBSET ((d + 1)..(before - 1)) /\ d \notin (d + 1)..(before - 1)
    BY DEF RunFrom
  <2> HIDE DEF R
  <2>3. QED BY <2>1, <2>2, FS_Subset
<1> HIDE DEF R, grows
<1>6. Cardinality(R) \in Nat /\ Cardinality(R \cup {d}) = Cardinality(R) + 1
  BY <1>5, FS_AddElement, FS_CardinalityType
<1>7. Cardinality(RunFrom(s, b, d, before)) = Cardinality(R) + (IF grows THEN 1 ELSE 0)
  BY <1>4, <1>6
<1>8. QED BY <1>7, SameCount DEF R, grows

(* The closed form is what the pass computes, step by step. *)
LEMMA StateWalks ==
  ASSUME Figures!TypeOK, NEW b, NEW before \in Nat
  PROVE  Walks([d \in 1..before |-> StateAt(b, d, before)], b, before)
<1>1. StateAt(b, before, before) = [run |-> [s \in Pupil |-> 0], settled |-> {}]
  <2>1. before..(before - 1) = {}
    OBVIOUS
  <2>2. CameSince(b, before, before) = {} /\ \A s : RunFrom(s, b, before, before) = {}
    BY <2>1 DEF CameSince, RunFrom
  <2>3. Figures!Cardinality({}) = 0
    BY SameCount, FS_EmptySet
  <2>4. QED BY <2>2, <2>3 DEF StateAt
<1>2. ASSUME NEW d \in 1..before, d # before
      PROVE  StateAt(b, d, before) = OneMore(StateAt(b, d + 1, before), b, d)
  <2> DEFINE records == IF <<b, d>> \in DOMAIN registers THEN registers[<<b, d>>] ELSE [s \in {} |-> "A"]
             came == CameSince(b, d + 1, before)
             absent == {s \in DOMAIN records \ came : records[s] = "A"}
  <2>1. d \in 1..(before - 1)
    BY <1>2
  <2>2. \A s : /\ s \in DOMAIN records <=> Held(s, b, d)
               /\ Held(s, b, d) => records[s] = registers[<<b, d>>][s]
               /\ Held(s, b, d) => s \in Pupil
    BY DEF Held, Figures!TypeOK
  <2> HIDE DEF records
  <2>3. \A s : s \in absent <=> Held(s, b, d) /\ registers[<<b, d>>][s] = "A" /\ s \notin came
    BY <2>2
  <2> HIDE DEF absent
  <2>4. \A s \in Pupil : Figures!Cardinality(RunFrom(s, b, d, before))
          = Figures!Cardinality(RunFrom(s, b, d + 1, before)) + (IF s \in absent THEN 1 ELSE 0)
    BY <2>1, <2>3, RunStep
  <2>5. CameSince(b, d, before) = came \cup (DOMAIN records \ absent)
    <3>1. \A s \in Pupil : s \in CameSince(b, d, before) <=> s \in came \/ ~Missed(s, b, d)
      <4>1. \A e : e \in d..(before - 1) <=> e = d \/ e \in (d + 1)..(before - 1)
        BY <2>1
      <4>2. QED BY <4>1 DEF CameSince
    <3>2. CameSince(b, d, before) \subseteq Pupil /\ came \subseteq Pupil
      BY DEF CameSince
    <3>3. \A s : ~Missed(s, b, d) => s \in DOMAIN records \ absent
      BY <2>2, <2>3 DEF Missed
    <3>4. \A s \in DOMAIN records \ absent : s \in Pupil /\ (s \in came \/ ~Missed(s, b, d))
      BY <2>2, <2>3 DEF Missed
    <3> HIDE DEF came
    <3>5. QED BY <3>1, <3>2, <3>3, <3>4
  <2>6. OneMore(StateAt(b, d + 1, before), b, d)
          = [run |-> [s \in Pupil |-> Figures!Cardinality(RunFrom(s, b, d + 1, before))
                                      + (IF s \in absent THEN 1 ELSE 0)],
             settled |-> came \cup (DOMAIN records \ absent)]
    BY DEF OneMore, StateAt, records, absent
  <2>7. QED BY <2>4, <2>5, <2>6 DEF StateAt
<1> DEFINE states == [d \in 1..before |-> StateAt(b, d, before)]
<1>3. states = [d \in 1..before |-> IF d = before THEN [run |-> [s \in Pupil |-> 0], settled |-> {}]
                                    ELSE OneMore(states[d + 1], b, d)]
  <2>1. \A d \in 1..before : d # before => states[d + 1] = StateAt(b, d + 1, before)
    OBVIOUS
  <2>2. \A d \in 1..before : StateAt(b, d, before)
          = IF d = before THEN [run |-> [s \in Pupil |-> 0], settled |-> {}]
            ELSE OneMore(states[d + 1], b, d)
    BY <1>1, <1>2, <2>1
  <2>3. QED BY <2>2, Zenon
<1>4. QED BY <1>3, Zenon DEF Walks

(* There is one way to walk. *)
LEMMA OneWalk ==
  ASSUME NEW b, NEW before \in Nat, NEW g, Walks(g, b, before), NEW h, Walks(h, b, before)
  PROVE  g = h
<1> DEFINE Span == 1..before
           Bad == {T \in SUBSET Span : \E d \in 1..before : T = d..before /\ g[d] # h[d]}
<1>1. /\ DOMAIN g = 1..before /\ DOMAIN h = 1..before
      /\ \A d \in 1..before : d # before => /\ g[d] = OneMore(g[d + 1], b, d)
                                           /\ h[d] = OneMore(h[d + 1], b, d)
      /\ before \in 1..before => g[before] = h[before]
      /\ g = [d \in DOMAIN g |-> g[d]] /\ h = [d \in DOMAIN h |-> h[d]]
  BY DEF Walks
<1>2. ASSUME Bad # {} PROVE FALSE
  <2>1. IsFiniteSet(Span) /\ Bad \in SUBSET (SUBSET Span)
    BY FS_Interval
  <2> HIDE DEF Bad, Span
  <2>2. PICK T \in Bad : \A U \in Bad : U \subseteq T => U = T
    BY <1>2, <2>1, SmallestSubset
  <2> USE DEF Bad, Span
  <2>3. PICK d \in 1..before : T = d..before /\ g[d] # h[d]
    BY <2>2
  <2>4. d # before /\ g[d + 1] # h[d + 1]
    BY <1>1, <2>3
  <2>5. (d + 1)..before \in Bad
    BY <2>3, <2>4
  <2>6. (d + 1)..before \subseteq T /\ (d + 1)..before # T
    BY <2>3
  <2>7. QED BY <2>2, <2>5, <2>6
<1>3. ASSUME NEW d \in 1..before, g[d] # h[d] PROVE FALSE
  <2>1. d..before \in Bad
    BY <1>3
  <2>2. QED BY <1>2, <2>1
<1>4. QED BY <1>1, <1>3

(* The run of absences is the same computed for one student or for all. *)
LEMMA StreaksAlike == ASSUME Figures!TypeOK PROVE Figures!StreaksAgree
<1> SUFFICES ASSUME NEW b \in Course, NEW before \in 1..(LastClass + 1), NEW s \in Pupil
             PROVE  Figures!Streaks(b, before)[s] = Figures!AbsenceStreak(s, b, before)
  BY DEF Figures!StreaksAgree
<1> DEFINE states == [d \in 1..before |-> StateAt(b, d, before)]
           found == CHOOSE pass : Walks(pass, b, before)
<1>1. before \in Nat /\ 1 \in 1..before
  BY SchoolGiven
<1>2. Walks(states, b, before)
  BY <1>1, StateWalks
<1>3. states[1] = StateAt(b, 1, before)
  BY <1>1
<1> HIDE DEF states
<1>4. Walks(found, b, before)
  BY <1>2
<1> HIDE DEF found
<1>5. found = states
  BY <1>1, <1>2, <1>4, OneWalk
<1>6. Figures!Streaks(b, before)[s] = found[1].run[s]
  BY StreaksWalk DEF found
<1>7. states[1].run[s] = Figures!Cardinality(RunFrom(s, b, 1, before))
  BY <1>3 DEF StateAt
<1>8. QED BY <1>1, <1>5, <1>6, <1>7, RunIsStreak

(* The classes a rate counts are among the entries. *)
LEMMA RateBounds ==
  ASSUME NEW entries, IsFiniteSet(entries), NEW late \in BOOLEAN
  PROVE  LET r == Figures!Rate(Figures!Counts(entries), late)
         IN  /\ r.of \in Nat /\ r.attended \in Nat
             /\ r.attended <= r.of /\ r.of <= Cardinality(entries)
<1> DEFINE Of(m) == {e \in entries : e.mark = m}
           c == Figures!Counts(entries)
           r == Figures!Rate(c, late)
<1>1. IsFiniteSet(Of("P")) /\ IsFiniteSet(Of("L")) /\ IsFiniteSet(Of("A"))
  BY FS_Subset
<1>2. Of("P") \cap Of("L") = {} /\ (Of("P") \cup Of("L")) \cap Of("A") = {}
  OBVIOUS
<1>3. (Of("P") \cup Of("L")) \cup Of("A") \in SUBSET entries
  OBVIOUS
<1>4. /\ c["P"] = Cardinality(Of("P")) /\ c["L"] = Cardinality(Of("L")) /\ c["A"] = Cardinality(Of("A"))
  BY SameCount DEF Figures!Counts
<1> HIDE DEF Of, c
<1>5. /\ Cardinality(Of("P") \cup Of("L")) = c["P"] + c["L"]
      /\ c["P"] \in Nat /\ c["L"] \in Nat /\ IsFiniteSet(Of("P") \cup Of("L"))
  <2>1. IsFiniteSet(Of("P") \cup Of("L"))
    BY <1>1, FS_Union
  <2>2. QED BY <1>1, <1>2, <1>4, <2>1, TwoParts
<1>6. /\ Cardinality((Of("P") \cup Of("L")) \cup Of("A")) = Cardinality(Of("P") \cup Of("L")) + c["A"]
      /\ c["A"] \in Nat
  <2> DEFINE X == Of("P") \cup Of("L")
             Y == Of("A")
  <2>1. IsFiniteSet(X) /\ IsFiniteSet(Y) /\ X \cap Y = {}
    BY <1>1, <1>2, <1>5
  <2>2. c["A"] = Cardinality(Y)
    BY <1>4
  <2> HIDE DEF X, Y
  <2>3. Cardinality(X \cup Y) = Cardinality(X) + Cardinality(Y) /\ Cardinality(Y) \in Nat
    BY <2>1, TwoParts
  <2>4. QED BY <2>2, <2>3 DEF X, Y
<1>7. Cardinality((Of("P") \cup Of("L")) \cup Of("A")) <= Cardinality(entries)
  BY <1>3, FS_Subset
<1>8. Cardinality(entries) \in Nat
  BY FS_CardinalityType
<1>9. r.of = c["P"] + c["L"] + c["A"] /\ r.attended = c["P"] + (IF late THEN c["L"] ELSE 0)
  BY DEF Figures!Rate
<1> HIDE DEF r
<1>10. r.of \in Nat /\ r.attended \in Nat /\ r.attended <= r.of /\ r.of <= Cardinality(entries)
  BY <1>5, <1>6, <1>7, <1>8, <1>9
<1>11. QED BY <1>10 DEF r, c

(* A month of classes is at most one of each batch on each day. *)
LastMonth(s) == {e \in Own(s) : e.day >= LastClass - (Recent - 1)}

(* So many classes a student can have at most. *)
LEMMA MonthBound ==
  ASSUME Figures!TypeOK, NEW s
  PROVE  /\ IsFiniteSet(LastMonth(s))
         /\ Cardinality(LastMonth(s)) <= Recent * Cardinality(Course)
<1> DEFINE Span == (LastClass - (Recent - 1))..LastClass
           At == Course \X Span
           h == [e \in LastMonth(s) |-> <<e.batch, e.day>>]
<1>1. IsFiniteSet(LastMonth(s))
  BY BookFinite DEF LastMonth, Own
<1>2. IsFiniteSet(Span) /\ Cardinality(Span) = Recent
  <2>1. LastClass - (Recent - 1) \in Int /\ LastClass \in Int
    BY SchoolGiven
  <2>2. /\ IsFiniteSet(Span)
        /\ Cardinality(Span) = IF LastClass - (Recent - 1) > LastClass THEN 0
                                 ELSE LastClass - (LastClass - (Recent - 1)) + 1
    BY <2>1, FS_Interval
  <2> HIDE DEF Span
  <2>3. QED BY <2>2, SchoolGiven
<1>3. \A e \in LastMonth(s) : h[e] \in At
  <2>1. \A e \in LastMonth(s) : e \in Book /\ e.day >= LastClass - (Recent - 1)
    BY DEF LastMonth, Own
  <2>2. QED BY <2>1, BookTyped, SchoolGiven
<1>4. \A e, x \in LastMonth(s) : h[e] = h[x] => e = x
  <2>1. ASSUME NEW e \in LastMonth(s)
        PROVE  e = [student |-> s, batch |-> e.batch, day |-> e.day,
                    mark |-> registers[<<e.batch, e.day>>][s]]
    <3>1. e \in Book /\ e.student = s
      BY DEF LastMonth, Own
    <3>2. PICK k \in DOMAIN registers : \E x \in DOMAIN registers[k] :
            e = [student |-> x, batch |-> k[1], day |-> k[2], mark |-> registers[k][x]]
      BY <3>1, BookIs
    <3>3. k = <<e.batch, e.day>>
      BY <3>2 DEF Figures!TypeOK
    <3>4. QED BY <3>1, <3>2, <3>3
  <2>2. QED BY <2>1
<1>5. IsFiniteSet(At) /\ Cardinality(At) = Cardinality(Course) * Cardinality(Span)
  <2> HIDE DEF Span
  <2>1. QED BY <1>2, SchoolGiven, FS_Product
<1>6. h \in Injection(LastMonth(s), At)
  <2>1. h \in [LastMonth(s) -> At]
    BY <1>3
  <2> HIDE DEF h, At
  <2>2. QED BY <1>4, <2>1 DEF Injection, IsInjective
<1> HIDE DEF h, At, Span
<1>7. Cardinality(LastMonth(s)) <= Cardinality(At)
  BY <1>5, <1>6, FS_Injection
<1>8. Cardinality(Course) \in Nat
  BY SchoolGiven, FS_CardinalityType
<1>9. Cardinality(Course) * Recent = Recent * Cardinality(Course)
  BY <1>8, SchoolGiven
<1>10. QED BY <1>1, <1>2, <1>5, <1>7, <1>9

(* The back end rounds a percentage to a tenth before it compares it.  That *)
(* flags the same students where no rate of a month's classes is less than  *)
(* the threshold and rounds to it.                                          *)
RoundingHarmless ==
  \A n \in 1..(Recent * Cardinality(Course)) : \A a \in 0..n :
    100 * a < Threshold * n => 2000 * a + n < 20 * (Threshold * n)

(* So it is for three quarters, the default, and fewer than 500 classes.    *)
LEMMA DefaultIsHarmless ==
  ASSUME Threshold = 75, Recent * Cardinality(Course) < 500
  PROVE  RoundingHarmless
<1> DEFINE most == Recent * Cardinality(Course)
<1>1. most \in Int
  <2>1. Cardinality(Course) \in Nat
    BY SchoolGiven, FS_CardinalityType
  <2>2. QED BY <2>1, SchoolGiven
<1> HIDE DEF most
<1>2. \A n \in 1..most : \A a \in 0..n :
        n < 500 /\ 100 * a < 75 * n => 2000 * a + n < 20 * (75 * n)
  BY <1>1
<1>3. QED BY <1>1, <1>2 DEF RoundingHarmless, most

(* What is less than a multiple is divided to less than the factor. *)
LEMMA DividedBelow ==
  ASSUME NEW x \in Nat, NEW m \in Nat \ {0}, NEW q \in Nat, x < q * m
  PROVE  x \div m < q
<1>1. x \div m \in Int /\ m * (x \div m) <= x
  BY SMT
<1>2. SUFFICES ASSUME x \div m >= q PROVE FALSE
  BY <1>1
<1>3. m * (x \div m) >= m * q
  BY <1>1, <1>2
<1>4. QED BY <1>1, <1>3

(* Whoever is flagged on the dashboard is flagged on the report, and by the *)
(* back end.                                                                *)
LEMMA FlagsAlike ==
  ASSUME Figures!TypeOK, RoundingHarmless
  PROVE  Figures!FlagsAgree
<1> DEFINE month == Figures!LastDays(Recent, LastClass)
           seen == Seen(month, Course)
           index == Figures!GroupBy("student", seen)
<1> SUFFICES ASSUME NEW late \in BOOLEAN, NEW s \in Figures!BelowOnDashboard(late)
             PROVE  /\ s \in Figures!BelowInReport(month, late)
                    /\ Figures!LowOnServer(Figures!Profile(s).recent, late)
  BY DEF Figures!FlagsAgree
<1>1. Figures!Entries(Figures!FilterSessions(month, Course)) = seen
  BY SeenIs
<1>2. /\ s \in DOMAIN index \cap Figures!OnFile
      /\ Figures!BelowThreshold(index[s], late, DashboardMin)
  BY <1>1 DEF Figures!BelowOnDashboard
<1>3. Figures!Report(month, Course).students = [x \in DOMAIN index \cap Figures!OnFile |-> index[x]]
  BY <1>1 DEF Figures!Report
<1>4. {e \in seen : e.student = s} = LastMonth(s)
  <2>1. \A e \in Book : month.from <= e.day /\ e.day <= month.to /\ e.batch \in Course
                          <=> e.day >= LastClass - (Recent - 1)
    BY BookTyped, SchoolGiven DEF Figures!LastDays
  <2> HIDE DEF month
  <2>2. QED BY <2>1 DEF Seen, Own, LastMonth
<1> HIDE DEF month
<1> HIDE DEF seen
<1>5. index[s] = Figures!Counts(LastMonth(s))
  BY <1>2, <1>4, OwnGroup
<1> HIDE DEF index
<1> DEFINE c == Figures!Counts(LastMonth(s))
           r == Figures!Rate(c, late)
<1>6. /\ r.of \in Nat /\ r.attended \in Nat /\ r.attended <= r.of
      /\ r.of <= Recent * Cardinality(Course)
  <2>1. /\ IsFiniteSet(LastMonth(s))
        /\ Cardinality(LastMonth(s)) <= Recent * Cardinality(Course)
    BY MonthBound
  <2>2. /\ r.of \in Nat /\ r.attended \in Nat /\ r.attended <= r.of
        /\ r.of <= Cardinality(LastMonth(s))
    BY <2>1, RateBounds
  <2>3. /\ Cardinality(LastMonth(s)) \in Nat /\ Recent \in Nat /\ Cardinality(Course) \in Nat
    BY <2>1, SchoolGiven, FS_CardinalityType
  <2> HIDE DEF r
  <2>4. Recent * Cardinality(Course) \in Nat
    BY <2>3
  <2>5. QED BY <2>1, <2>2, <2>3, <2>4
<1>7. r.of >= DashboardMin /\ r.of > 0 /\ 100 * r.attended < Threshold * r.of
  BY <1>2, <1>5 DEF Figures!BelowThreshold
<1>8. s \in Figures!BelowInReport(month, late)
  <2>1. r.of >= ReportMin
    <3> HIDE DEF r
    <3>1. QED BY <1>6, <1>7, SchoolGiven
  <2>2. Figures!BelowThreshold(index[s], late, ReportMin)
    BY <1>5, <1>7, <2>1 DEF Figures!BelowThreshold
  <2>3. QED BY <1>2, <1>3, <2>2 DEF Figures!BelowInReport
<1>9. Figures!LowOnServer(c, late)
  <2> DEFINE n == r.of
             a == r.attended
             tn == Threshold * n
  <2>1. Figures!LowOnServer(c, late) <=> n > 0 /\ (2000 * a + n) \div (2 * n) < 10 * Threshold
    BY DEF Figures!LowOnServer
  <2> HIDE DEF r, c
  <2>2. n \in Nat /\ a \in Nat /\ a <= n /\ n <= Recent * Cardinality(Course) /\ n > 0
        /\ 100 * a < tn
    BY <1>6, <1>7
  <2> HIDE DEF n, a
  <2>3. n \in 1..(Recent * Cardinality(Course)) /\ a \in 0..n
    <3>1. Recent * Cardinality(Course) \in Int
      <4>1. Cardinality(Course) \in Nat
        BY SchoolGiven, FS_CardinalityType
      <4>2. QED BY <4>1, SchoolGiven
    <3>2. QED BY <2>2, <3>1
  <2>4. 2000 * a + n < 20 * tn
    BY <2>2, <2>3 DEF RoundingHarmless
  <2>5. 20 * tn = (10 * Threshold) * (2 * n)
    BY <2>2, SchoolGiven
  <2> DEFINE x == 2000 * a + n
             m == 2 * n
             q == 10 * Threshold
  <2>6. x \in Nat /\ m \in Nat \ {0} /\ q \in Nat /\ x < q * m
    BY <2>2, <2>4, <2>5, SchoolGiven
  <2> HIDE DEF x, m, q
  <2>7. x \div m < q
    BY <2>6, DividedBelow
  <2>8. QED BY <2>1, <2>2, <2>7 DEF x, m, q
<1>10. Figures!Profile(s).recent = c
  BY OwnIs DEF Figures!Profile, LastMonth
<1>11. QED BY <1>8, <1>9, <1>10

(* A family that left no batch sees what the office sees. *)
LEMMA PortalAlike == ASSUME Figures!TypeOK PROVE Figures!PortalAgrees
<1> SUFFICES ASSUME NEW s \in Figures!OnFile, enrolled[s] = Course
             PROVE  /\ Figures!PortalYear(s) = Figures!Profile(s).overall
                    /\ Figures!PortalHome(s) = Figures!Profile(s).recent
                    /\ Figures!PortalYear(s) = Figures!Total(Figures!PortalSubjects(s))
                    /\ \A d \in Figures!Day : Figures!PortalDay(s, d) = Figures!CalendarDay(s, d)
  BY DEF Figures!PortalAgrees
<1>1. Figures!PortalRows(s) = Own(s)
  <2>1. {k \in DOMAIN registers : k[1] \in enrolled[s]} = DOMAIN registers
    BY DEF Figures!TypeOK
  <2>2. QED BY <2>1 DEF Figures!PortalRows, Own, Book
<1>2. Figures!ProfileRows(s) = Own(s) /\ IsFiniteSet(Own(s))
  BY OwnIs
<1>3. /\ Figures!PortalYear(s) = Figures!Profile(s).overall
      /\ Figures!PortalHome(s) = Figures!Profile(s).recent
  BY <1>1, <1>2 DEF Figures!PortalYear, Figures!PortalHome, Figures!Profile
<1>4. \A d \in Figures!Day : Figures!PortalDay(s, d) = Figures!CalendarDay(s, d)
  BY <1>1, <1>2 DEF Figures!PortalDay, Figures!PortalClasses, Figures!CalendarDay
<1>5. Figures!PortalYear(s) = Figures!Total(Figures!PortalSubjects(s))
  <2> DEFINE groups == Figures!PortalSubjects(s)
             G == [b \in Course |-> {e \in Own(s) : e.batch = b}]
  <2>1. DOMAIN groups = Course /\ \A b \in Course : groups[b] = Figures!Counts(G[b])
    BY <1>1 DEF Figures!PortalSubjects
  <2>2. \A b \in Course : IsFiniteSet(G[b])
    BY <1>2, FS_Subset
  <2>3. \A b, x \in Course : b # x => G[b] \cap G[x] = {}
    OBVIOUS
  <2>4. \A b \in Course : G[b] \subseteq Own(s)
    OBVIOUS
  <2>5. \A e \in Own(s) : e.batch \in Course /\ e \in G[e.batch]
    BY BookTyped DEF Own
  <2> HIDE DEF groups, G
  <2>6. UNION {G[b] : b \in Course} = Own(s)
    BY <2>4, <2>5
  <2>7. Figures!Total(groups) = Figures!Counts(UNION {G[b] : b \in Course})
    BY <2>1, <2>2, <2>3, SchoolGiven, TotalOfParts
  <2>8. QED BY <1>1, <2>6, <2>7 DEF Figures!PortalYear, groups
<1>6. QED BY <1>3, <1>4, <1>5

(* Registers hold marks of pupils, under a batch and a day. *)
THEOREM RegistersTyped == Figures!Spec => []Figures!TypeOK
<1> USE DEF Figures!TypeOK, Figures!OnFile
<1>1. Figures!Init => Figures!TypeOK
  BY DEF Figures!Init
<1>2. Figures!TypeOK /\ [Figures!Next]_Figures!vars => Figures!TypeOK'
  <2> SUFFICES ASSUME Figures!TypeOK, [Figures!Next]_Figures!vars PROVE Figures!TypeOK'
    OBVIOUS
  <2>1. ASSUME NEW b \in Course, NEW d \in Figures!Day, NEW marked \in SUBSET Figures!RollOf(b),
               NEW records \in [marked -> Marks], Figures!SaveSession(b, d, records)
        PROVE  Figures!TypeOK'
    <3>1. DOMAIN records \subseteq Pupil /\ \A s \in DOMAIN records : records[s] \in Marks
      BY DEF Figures!RollOf
    <3>2. DOMAIN registers' = DOMAIN registers \cup {<<b, d>>}
      BY <2>1 DEF Figures!SaveSession
    <3>3. \A k \in DOMAIN registers' :
            registers'[k] = IF k = <<b, d>> THEN records ELSE registers[k]
      BY <2>1 DEF Figures!SaveSession
    <3>4. enrolled' = enrolled
      BY <2>1 DEF Figures!SaveSession
    <3>5. DOMAIN registers' \subseteq Course \X Figures!Day
      BY <3>2
    <3>6. \A k \in DOMAIN registers' :
            DOMAIN registers'[k] \subseteq Pupil /\ \A s \in DOMAIN registers'[k] : registers'[k][s] \in Marks
      BY <3>1, <3>2, <3>3
    <3>7. QED BY <3>4, <3>5, <3>6 DEF Figures!Day
  <2>2. ASSUME NEW s \in Figures!OnFile, Figures!DeleteStudent(s) PROVE Figures!TypeOK'
    BY <2>2 DEF Figures!DeleteStudent, Figures!Day
  <2>3. ASSUME NEW s \in Figures!OnFile, NEW b \in Course, Figures!LeaveBatch(s, b)
        PROVE  Figures!TypeOK'
    BY <2>3 DEF Figures!LeaveBatch, Figures!Day
  <2>4. CASE UNCHANGED Figures!vars
    BY <2>4 DEF Figures!vars, Figures!Day
  <2>5. QED BY <2>1, <2>2, <2>3, <2>4 DEF Figures!Next
<1>3. QED BY <1>1, <1>2, PTL DEF Figures!Spec

(* How often a student came is the same on the reports, the register, the   *)
(* profile, the batch page, the roll call, the dashboard and the portal, of *)
(* every school and whatever registers it saved.                            *)
THEOREM AttendanceFiguresAgree ==
  ASSUME RoundingHarmless
  PROVE  Figures!Spec => []AttendanceAgrees
<1>1. Figures!TypeOK => AttendanceAgrees
  BY ScreensAgree, StreaksAlike, FlagsAlike, PortalAlike
  DEF AttendanceAgrees, Figures!AttendanceAgrees
<1>2. QED BY <1>1, RegistersTyped, PTL

-----------------------------------------------------------------------------
(* The screens of fees. *)

(* Sums that are taken apart, put together or compared. *)
LEMMA SumEmpty == \A f, S : S = {} => SumOf(f, S) = 0
  BY FS_EmptySet, SumSteps

(* A sum without one of its parts. *)
LEMMA SumWithout ==
  ASSUME NEW f, NEW S, IsFiniteSet(S), NEW y \in S, \A x \in S : f[x] \in Nat
  PROVE  /\ SumOf(f, S) = SumOf(f, S \ {y}) + f[y]
         /\ SumOf(f, S \ {y}) \in Nat /\ IsFiniteSet(S \ {y})
<1>1. IsFiniteSet(S \ {y}) /\ y \notin S \ {y} /\ S = (S \ {y}) \cup {y}
  BY FS_Subset
<1> DEFINE R == S \ {y}
<1>2. IsFiniteSet(R) /\ y \notin R /\ S = R \cup {y} /\ \A x \in R \cup {y} : f[x] \in Nat
  BY <1>1
<1> HIDE DEF R
<1>3. SumOf(f, R \cup {y}) = SumOf(f, R) + f[y]
  BY <1>2, SumInsert
<1>4. SumOf(f, R) \in Nat
  BY <1>2, SumNat
<1>5. QED BY <1>2, <1>3, <1>4 DEF R

(* A sum of sums. *)
LEMMA SumAdd ==
  ASSUME NEW S, IsFiniteSet(S), NEW f, NEW g, NEW h,
         \A x \in S : f[x] \in Nat /\ g[x] \in Nat /\ h[x] = f[x] + g[x]
  PROVE  SumOf(h, S) = SumOf(f, S) + SumOf(g, S)
<1> DEFINE Bad == {T \in SUBSET S : SumOf(h, T) # SumOf(f, T) + SumOf(g, T)}
<1> SUFFICES ASSUME Bad # {} PROVE FALSE
  OBVIOUS
<1>0. Bad \in SUBSET (SUBSET S)
  OBVIOUS
<1> HIDE DEF Bad
<1>1. PICK T \in Bad : \A U \in Bad : U \subseteq T => U = T
  BY <1>0, SmallestSubset
<1> USE DEF Bad
<1>2. IsFiniteSet(T) /\ T \in SUBSET S
  BY <1>0, <1>1, FS_Subset
<1>3. T # {}
  <2>1. T = {} => SumOf(h, T) = 0 /\ SumOf(f, T) = 0 /\ SumOf(g, T) = 0
    BY SumEmpty
  <2>2. QED BY <1>1, <2>1
<1>4. PICK y \in T : TRUE
  BY <1>3
<1> DEFINE R == T \ {y}
<1>5. /\ SumOf(h, T) = SumOf(h, R) + h[y] /\ SumOf(f, T) = SumOf(f, R) + f[y]
      /\ SumOf(g, T) = SumOf(g, R) + g[y]
      /\ SumOf(f, R) \in Nat /\ SumOf(g, R) \in Nat
  <2>1. \A x \in T : h[x] \in Nat
    BY <1>2
  <2>2. QED BY <1>2, <1>4, <2>1, SumWithout
<1>6. R \in SUBSET S /\ R \subseteq T /\ R # T
  BY <1>2, <1>4
<1>7. SumOf(h, R) = SumOf(f, R) + SumOf(g, R)
  BY <1>1, <1>6
<1>8. h[y] = f[y] + g[y] /\ f[y] \in Nat /\ g[y] \in Nat
  BY <1>2, <1>4
<1>9. QED BY <1>1, <1>5, <1>7, <1>8

(* A sum is no more than one of larger parts. *)
LEMMA SumLeq ==
  ASSUME NEW S, IsFiniteSet(S), NEW f, NEW g,
         \A x \in S : f[x] \in Nat /\ g[x] \in Nat /\ f[x] <= g[x]
  PROVE  SumOf(f, S) <= SumOf(g, S)
<1> DEFINE d == [x \in S |-> g[x] - f[x]]
<1>1. \A x \in S : f[x] \in Nat /\ d[x] \in Nat /\ g[x] = f[x] + d[x]
  OBVIOUS
<1> HIDE DEF d
<1>2. SumOf(g, S) = SumOf(f, S) + SumOf(d, S)
  BY <1>1, SumAdd
<1>3. SumOf(f, S) \in Nat /\ SumOf(d, S) \in Nat
  BY <1>1, SumNat
<1>4. QED BY <1>2, <1>3

(* A sum is at least each of its parts, and nothing where all are. *)
LEMMA SumMember ==
  ASSUME NEW S, IsFiniteSet(S), NEW f, \A x \in S : f[x] \in Nat
  PROVE  /\ SumOf(f, S) \in Nat
         /\ \A x \in S : f[x] <= SumOf(f, S)
         /\ SumOf(f, S) > 0 <=> \E x \in S : f[x] > 0
<1>1. SumOf(f, S) \in Nat
  BY SumNat
<1>2. ASSUME NEW x \in S PROVE f[x] <= SumOf(f, S)
  <2>1. SumOf(f, S) = SumOf(f, S \ {x}) + f[x] /\ SumOf(f, S \ {x}) \in Nat
    BY SumWithout
  <2>2. QED BY <2>1
<1>3. ASSUME \A x \in S : f[x] = 0 PROVE SumOf(f, S) = 0
  <2> DEFINE none == [x \in S |-> 0]
  <2>1. \A x \in S : none[x] \in Nat /\ f[x] = none[x] + none[x]
    BY <1>3
  <2> HIDE DEF none
  <2>2. SumOf(f, S) = SumOf(none, S) + SumOf(none, S)
    BY <2>1, SumAdd
  <2>3. SumOf(f, S) = SumOf(none, S)
    <3>1. \A x \in S : f[x] = none[x]
      BY <1>3 DEF none
    <3>2. QED BY <3>1, SumSame
  <2>4. SumOf(none, S) \in Nat
    BY <1>1, <2>3
  <2>5. \A a, b : a \in Nat /\ b = a /\ b = a + a => b = 0
    OBVIOUS
  <2>6. QED BY <2>2, <2>3, <2>4, <2>5
<1>4. SumOf(f, S) > 0 => \E x \in S : f[x] > 0
  <2>1. (\A x \in S : ~(f[x] > 0)) => \A x \in S : f[x] = 0
    OBVIOUS
  <2>2. QED BY <1>3, <2>1
<1>5. (\E x \in S : f[x] > 0) => SumOf(f, S) > 0
  BY <1>1, <1>2
<1>6. QED BY <1>1, <1>2, <1>4, <1>5

(* The sum of two sets that share nothing. *)
LEMMA SumJoin ==
  ASSUME NEW S, IsFiniteSet(S), NEW T, IsFiniteSet(T), S \cap T = {}, NEW f, \A x \in S \cup T : f[x] \in Nat
  PROVE  SumOf(f, S \cup T) = SumOf(f, S) + SumOf(f, T)
<1> DEFINE Bad == {U \in SUBSET T : SumOf(f, S \cup U) # SumOf(f, S) + SumOf(f, U)}
<1> SUFFICES ASSUME Bad # {} PROVE FALSE
  OBVIOUS
<1>0. Bad \in SUBSET (SUBSET T)
  OBVIOUS
<1> HIDE DEF Bad
<1>1. PICK U \in Bad : \A V \in Bad : V \subseteq U => V = U
  BY <1>0, SmallestSubset
<1> USE DEF Bad
<1>2. IsFiniteSet(U) /\ U \in SUBSET T
  BY <1>0, <1>1, FS_Subset
<1>3. SumOf(f, S) \in Nat
  BY SumNat
<1>4. U # {}
  <2>1. U = {} => S \cup U = S
    OBVIOUS
  <2>2. U = {} => SumOf(f, U) = 0
    BY SumEmpty
  <2>3. U = {} => SumOf(f, S \cup U) = SumOf(f, S) + SumOf(f, U)
    BY <1>3, <2>1, <2>2
  <2>4. QED BY <1>1, <2>3
<1>5. PICK y \in U : TRUE
  BY <1>4
<1> DEFINE R == U \ {y}
<1>6. SumOf(f, U) = SumOf(f, R) + f[y] /\ SumOf(f, R) \in Nat
  BY <1>2, <1>5, SumWithout
<1>7. R \in SUBSET T /\ R \subseteq U /\ R # U
  BY <1>2, <1>5
<1>8. SumOf(f, S \cup R) = SumOf(f, S) + SumOf(f, R)
  BY <1>1, <1>7
<1>9. SumOf(f, S \cup U) = SumOf(f, S \cup R) + f[y]
  <2> DEFINE W == S \cup R
  <2>1. IsFiniteSet(W)
    BY <1>2, FS_Subset, FS_Union
  <2>2. y \notin W /\ S \cup U = W \cup {y} /\ \A x \in W \cup {y} : f[x] \in Nat
    BY <1>2, <1>5
  <2> HIDE DEF W
  <2>3. SumOf(f, W \cup {y}) = SumOf(f, W) + f[y]
    BY <2>1, <2>2, SumInsert
  <2>4. QED BY <2>2, <2>3 DEF W
<1>10. f[y] \in Nat
  BY <1>2, <1>5
<1>11. QED BY <1>1, <1>3, <1>6, <1>8, <1>9, <1>10

(* What is nothing may be left out. *)
LEMMA SumDrop ==
  ASSUME NEW S, IsFiniteSet(S), NEW T \in SUBSET S, NEW f,
         \A x \in S : f[x] \in Nat, \A x \in S \ T : f[x] = 0
  PROVE  SumOf(f, S) = SumOf(f, T)
<1> DEFINE R == S \ T
<1>1. IsFiniteSet(T) /\ IsFiniteSet(R)
  BY FS_Subset
<1>2. T \cap R = {} /\ S = T \cup R
  OBVIOUS
<1>3. (\A x \in R : f[x] \in Nat /\ ~(f[x] > 0)) /\ \A x \in T \cup R : f[x] \in Nat
  OBVIOUS
<1> HIDE DEF R
<1>4. SumOf(f, T \cup R) = SumOf(f, T) + SumOf(f, R)
  BY <1>1, <1>2, <1>3, SumJoin
<1>5. SumOf(f, R) \in Nat /\ ~(SumOf(f, R) > 0) /\ SumOf(f, T) \in Nat
  BY <1>1, <1>3, SumMember
<1>6. QED BY <1>2, <1>4, <1>5

(* Finitely many finite parts make a finite whole. *)
LEMMA WholeFinite ==
  ASSUME NEW X, IsFiniteSet(X), NEW G, \A x \in X : IsFiniteSet(G[x])
  PROVE  IsFiniteSet(UNION {G[x] : x \in X})
<1> DEFINE Img == {G[x] : x \in X}
           h == [x \in X |-> G[x]]
<1>1. h \in Surjection(X, Img)
  BY DEF Surjection
<1>2. IsFiniteSet(Img)
  BY <1>1, FS_Surjection
<1>3. \A S \in Img : IsFiniteSet(S)
  OBVIOUS
<1> HIDE DEF Img
<1>4. QED BY <1>2, <1>3, FS_UNION DEF Img

(* The sums of parts that share nothing add up to that of the whole. *)
LEMMA SumParts ==
  ASSUME NEW X, IsFiniteSet(X), NEW G, \A x \in X : IsFiniteSet(G[x]),
         \A x, y \in X : x # y => G[x] \cap G[y] = {},
         NEW f, \A x \in X : \A e \in G[x] : f[e] \in Nat,
         NEW g, \A x \in X : g[x] = SumOf(f, G[x])
  PROVE  SumOf(g, X) = SumOf(f, UNION {G[x] : x \in X})
<1> DEFINE All(T) == UNION {G[x] : x \in T}
           Bad == {T \in SUBSET X : SumOf(g, T) # SumOf(f, All(T))}
<1> SUFFICES ASSUME Bad # {} PROVE FALSE
  OBVIOUS
<1>0. Bad \in SUBSET (SUBSET X)
  OBVIOUS
<1> HIDE DEF Bad
<1>1. PICK T \in Bad : \A U \in Bad : U \subseteq T => U = T
  BY <1>0, SmallestSubset
<1> USE DEF Bad
<1>2. IsFiniteSet(T) /\ T \in SUBSET X
  BY <1>0, <1>1, FS_Subset
<1>3. T # {}
  <2>1. All({}) = {}
    OBVIOUS
  <2>2. QED BY <1>1, <2>1, SumEmpty
<1>4. PICK c \in T : TRUE
  BY <1>3
<1> DEFINE R == T \ {c}
<1>5. R \in SUBSET X /\ R # T /\ R \subseteq T /\ IsFiniteSet(R)
  BY <1>2, <1>4, FS_Subset
<1>6. SumOf(g, R) = SumOf(f, All(R))
  BY <1>1, <1>5
<1>7. \A x \in X : g[x] \in Nat
  BY SumNat
<1>8. SumOf(g, T) = SumOf(g, R) + g[c]
  BY <1>2, <1>4, <1>7, SumWithout
<1>9. IsFiniteSet(All(R))
  BY <1>5, WholeFinite
<1>10. All(T) = All(R) \cup G[c] /\ All(R) \cap G[c] = {} /\ IsFiniteSet(G[c])
  BY <1>2, <1>4
<1>11. \A e \in All(R) \cup G[c] : f[e] \in Nat
  BY <1>2, <1>4
<1>12. g[c] = SumOf(f, G[c])
  BY <1>2, <1>4
<1> DEFINE rest == All(R)
           part == G[c]
<1>13. /\ IsFiniteSet(rest) /\ IsFiniteSet(part) /\ rest \cap part = {}
       /\ \A e \in rest \cup part : f[e] \in Nat
  BY <1>9, <1>10, <1>11
<1>14. All(T) = rest \cup part /\ g[c] = SumOf(f, part) /\ SumOf(g, R) = SumOf(f, rest)
  BY <1>6, <1>10, <1>12
<1>15. SumOf(g, T) # SumOf(f, All(T))
  BY <1>1
<1> HIDE DEF All, rest, part
<1>16. SumOf(f, rest \cup part) = SumOf(f, rest) + SumOf(f, part)
  BY <1>13, SumJoin
<1>17. QED BY <1>8, <1>14, <1>15, <1>16

(* Adding up under other names. *)
LEMMA SumRenamed ==
  ASSUME NEW X, IsFiniteSet(X), NEW n, \A x, y \in X : n[x] = n[y] => x = y,
         NEW f, NEW g, \A x \in X : g[x] = f[n[x]] /\ g[x] \in Nat
  PROVE  SumOf(g, X) = SumOf(f, {n[x] : x \in X})
<1> DEFINE G == [x \in X |-> {n[x]}]
<1>1. \A x \in X : IsFiniteSet(G[x]) /\ G[x] = {n[x]}
  BY FS_Singleton
<1>2. UNION {G[x] : x \in X} = {n[x] : x \in X}
  OBVIOUS
<1> HIDE DEF G
<1>3. \A x, y \in X : x # y => G[x] \cap G[y] = {}
  BY <1>1
<1>4. \A x \in X : \A e \in G[x] : f[e] \in Nat
  BY <1>1
<1>5. ASSUME NEW x \in X PROVE g[x] = SumOf(f, G[x])
  <2> DEFINE y == n[x]
             one == {y}
  <2>1. IsFiniteSet(one) /\ y \in one /\ one \ {y} = {} /\ G[x] = one /\ f[y] = g[x]
        /\ \A z \in one : f[z] \in Nat
    BY <1>1
  <2> HIDE DEF y, one
  <2>2. SumOf(f, one) = SumOf(f, one \ {y}) + f[y]
    BY <2>1, SumWithout
  <2>3. SumOf(f, {}) = 0 /\ g[x] \in Nat
    BY SumEmpty
  <2>4. QED BY <2>1, <2>2, <2>3
<1>6. SumOf(g, X) = SumOf(f, UNION {G[x] : x \in X})
  BY <1>1, <1>3, <1>4, <1>5, SumParts
<1>7. QED BY <1>2, <1>6

(* The folds of the fee screens are such sums. *)
LEMMA BillsSum ==
  ASSUME NEW f, IsFiniteSet(DOMAIN f)
  PROVE  Bills!Sum(f) = SumOf(f, DOMAIN f)
<1> DEFINE P == DOMAIN f
           Eqn(g) == g = [s \in SUBSET P |-> IF s = {} THEN 0 ELSE f[Pick(s)] + g[s \ {Pick(s)}]]
<1>1. Bills!Sum(f) = Bills!MapThenSumSet(LAMBDA x : f[x], P)
  BY DEF Bills!Sum
<1>2. Bills!MapThenSumSet(LAMBDA x : f[x], P) = (CHOOSE g : Eqn(g))[P]
  BY DEF Bills!MapThenSumSet, Bills!MapThenFoldSet, Pick
<1>3. ASSUME NEW g PROVE Eqn(g) <=> AddsUp(f, P, g)
  BY DEF AddsUp
<1> HIDE DEF Eqn
<1>4. \E g : AddsUp(f, P, g)
  BY AddsUpExists
<1>5. AddsUp(f, P, CHOOSE g : Eqn(g))
  BY <1>3, <1>4
<1>6. AddsUp(f, P, CHOOSE g : AddsUp(f, P, g))
  BY <1>4
<1>7. P \in SUBSET (P \cap P)
  OBVIOUS
<1>8. (CHOOSE g : Eqn(g))[P] = (CHOOSE g : AddsUp(f, P, g))[P]
  BY <1>5, <1>6, <1>7, AddsUpUnique
<1>9. QED BY <1>1, <1>2, <1>8 DEF SumOf

(* The sum of a function that agrees with another on the set. *)
LEMMA BillsSumOf ==
  ASSUME NEW S, IsFiniteSet(S), NEW f, DOMAIN f = S, NEW g, \A x \in S : f[x] = g[x]
  PROVE  Bills!Sum(f) = SumOf(g, S)
<1>1. Bills!Sum(f) = SumOf(f, S)
  BY BillsSum
<1>2. SumOf(f, S) = SumOf(g, S)
  BY SumSame
<1>3. QED BY <1>1, <1>2

(* The screens' count is the count. *)
LEMMA BillsCount == \A S : Bills!Cardinality(S) = Cardinality(S)
  BY DEF Bills!Cardinality, Cardinality

(* A number names one invoice or one payment, a payment is of an invoice of *)
(* its student, and nothing happens in the future.                          *)
BillRecord == [no : Nat, student : Pupil, batch : Course, period : Int, due : Nat,
            amount : Nat, waived : BOOLEAN]
PaymentRecord == [receipt : Nat, no : Nat, student : Pupil, amount : Nat, date : Nat, method : Method]
BillsInv ==
  /\ IsFiniteSet(invoices) /\ IsFiniteSet(payments) /\ today \in Nat
  /\ \A i \in invoices : i \in BillRecord /\ i.no <= Cardinality(invoices)
  /\ \A i, j \in invoices : i.no = j.no => i = j
  /\ \A p \in payments : /\ p \in PaymentRecord /\ p.receipt <= Cardinality(payments) /\ p.date <= today
                         /\ \E i \in invoices : i.no = p.no /\ i.student = p.student
  /\ \A p, q \in payments : p.receipt = q.receipt => p = q

(* What was received, and what each bill shows. *)
MoneyIn == [p \in payments |-> p.amount]
Views == {Bills!ViewInvoice(i, payments) : i \in invoices}
Owed == [v \in Views |-> v.balance]

(* What was received in a set of payments. *)
LEMMA CollectedIs ==
  ASSUME BillsInv, NEW T \in SUBSET payments
  PROVE  /\ Bills!Collected(T) = SumOf(MoneyIn, T) /\ SumOf(MoneyIn, T) \in Nat
         /\ IsFiniteSet(T) /\ \A p \in T : MoneyIn[p] = p.amount /\ p.amount \in Nat
<1>1. IsFiniteSet(T)
  BY FS_Subset DEF BillsInv
<1>2. \A p \in T : MoneyIn[p] = p.amount /\ p.amount \in Nat
  BY DEF BillsInv, MoneyIn, PaymentRecord
<1> DEFINE f == [p \in T |-> p.amount]
<1>3. Bills!Collected(T) = Bills!Sum(f)
  BY DEF Bills!Collected
<1>4. DOMAIN f = T /\ \A p \in T : f[p] = MoneyIn[p]
  BY <1>2
<1> HIDE DEF f
<1>5. Bills!Sum(f) = SumOf(MoneyIn, T)
  BY <1>1, <1>4, BillsSumOf
<1>6. SumOf(MoneyIn, T) \in Nat
  BY <1>1, <1>2, SumNat
<1>7. QED BY <1>1, <1>2, <1>3, <1>5, <1>6

(* What a bill shows. *)
LEMMA ViewIs ==
  ASSUME BillsInv, NEW i \in invoices
  PROVE  LET v == Bills!ViewInvoice(i, payments)
         IN  /\ v.invoice = i /\ v.paid = Bills!PaidBy(payments, i)
             /\ v.paid \in Nat /\ v.balance \in Nat /\ v.late \in Nat
             /\ v.status \in {"Paid", "Pending", "Overdue"}
             /\ v.status = "Paid" <=> v.balance = 0
             /\ i.waived => v.status = "Paid"
             /\ v.status = "Overdue" <=> v.balance > 0 /\ today > i.due + GraceDays
             /\ v.late = IF v.status = "Overdue" THEN today - (i.due + GraceDays) ELSE 0
             /\ v.status = "Overdue" <=> v.late > 0
<1> DEFINE v == Bills!ViewInvoice(i, payments)
           paid == Bills!PaidBy(payments, i)
<1>1. paid \in Nat
  BY CollectedIs DEF Bills!PaidBy
<1>2. /\ i.amount \in Nat /\ i.due \in Nat /\ i.waived \in BOOLEAN /\ today \in Nat /\ GraceDays \in Nat
  BY BillsGiven DEF BillsInv, BillRecord
<1>3. /\ v.invoice = i /\ v.paid = paid
      /\ v.status = IF i.waived \/ paid >= i.amount THEN "Paid"
                    ELSE IF today > i.due + GraceDays THEN "Overdue" ELSE "Pending"
      /\ v.balance = IF i.waived THEN 0 ELSE IF paid >= i.amount THEN 0 ELSE i.amount - paid
      /\ v.late = IF v.status = "Overdue" THEN today - (i.due + GraceDays) ELSE 0
  BY DEF Bills!ViewInvoice, Bills!View, Bills!StatusOf, Bills!Unsettled
<1> HIDE DEF v, paid
<1>4. CASE i.waived \/ paid >= i.amount
  <2>1. v.status = "Paid" /\ v.balance = 0 /\ v.late = 0
    BY <1>2, <1>3, <1>4
  <2>2. QED BY <1>1, <1>3, <2>1 DEF v, paid
<1>5. CASE ~(i.waived \/ paid >= i.amount)
  <2>1. v.balance = i.amount - paid /\ v.balance \in Nat /\ v.balance > 0
    BY <1>1, <1>2, <1>3, <1>5
  <2>2. v.status = IF today > i.due + GraceDays THEN "Overdue" ELSE "Pending"
    BY <1>3, <1>5
  <2>3. v.late \in Nat /\ (v.late > 0 <=> today > i.due + GraceDays)
    BY <1>2, <1>3, <2>2
  <2>4. QED BY <1>1, <1>3, <1>5, <2>1, <2>2, <2>3 DEF v, paid
<1>6. QED BY <1>4, <1>5

(* What every bill shows, and that no two bills show as one. *)
LEMMA ViewsAre ==
  ASSUME BillsInv
  PROVE  /\ IsFiniteSet(Views)
         /\ \A v \in Views :
              /\ v.invoice \in invoices /\ v.invoice \in BillRecord
              /\ v = Bills!ViewInvoice(v.invoice, payments)
              /\ v.paid = Bills!PaidBy(payments, v.invoice)
              /\ v.paid \in Nat /\ v.balance \in Nat /\ v.late \in Nat
              /\ v.status \in {"Paid", "Pending", "Overdue"}
              /\ v.status = "Paid" <=> v.balance = 0
              /\ v.invoice.waived => v.status = "Paid"
              /\ v.status = "Overdue" <=> v.balance > 0 /\ today > v.invoice.due + GraceDays
              /\ v.late = IF v.status = "Overdue" THEN today - (v.invoice.due + GraceDays) ELSE 0
              /\ v.status = "Overdue" <=> v.late > 0
         /\ \A i \in invoices : Bills!ViewInvoice(i, payments) \in Views
                                /\ Bills!ViewInvoice(i, payments).invoice = i
         /\ \A v, w \in Views : v.invoice = w.invoice => v = w
<1> DEFINE h == [i \in invoices |-> Bills!ViewInvoice(i, payments)]
<1>1. h \in Surjection(invoices, Views)
  BY DEF Surjection, Views
<1>2. IsFiniteSet(Views)
  BY <1>1, FS_Surjection DEF BillsInv
<1>3. ASSUME NEW v \in Views
      PROVE  \E i \in invoices : v = Bills!ViewInvoice(i, payments) /\ i \in BillRecord
  BY DEF Views, BillsInv
<1>4. \A i \in invoices : Bills!ViewInvoice(i, payments) \in Views
  BY DEF Views
<1>5. QED BY <1>2, <1>3, <1>4, ViewIs

(* What is due on a set of bills. *)
LEMMA BalancesAre ==
  ASSUME BillsInv, NEW T \in SUBSET Views
  PROVE  /\ Bills!Balances(T) = SumOf(Owed, T) /\ SumOf(Owed, T) \in Nat
         /\ IsFiniteSet(T) /\ \A v \in T : Owed[v] = v.balance /\ v.balance \in Nat
         /\ Bills!Balances(T) > 0 <=> \E v \in T : v.balance > 0
<1>1. IsFiniteSet(T)
  BY ViewsAre, FS_Subset
<1>2. \A v \in T : Owed[v] = v.balance /\ v.balance \in Nat
  BY ViewsAre DEF Owed
<1> DEFINE f == [v \in T |-> v.balance]
<1>3. Bills!Balances(T) = Bills!Sum(f)
  BY DEF Bills!Balances
<1>4. DOMAIN f = T /\ \A v \in T : f[v] = Owed[v]
  BY <1>2
<1> HIDE DEF f
<1>5. Bills!Sum(f) = SumOf(Owed, T)
  BY <1>1, <1>4, BillsSumOf
<1>6. SumOf(Owed, T) \in Nat /\ (SumOf(Owed, T) > 0 <=> \E v \in T : Owed[v] > 0)
  BY <1>1, <1>2, SumMember
<1>7. QED BY <1>1, <1>2, <1>3, <1>5, <1>6

(* The bills of one student, and of one campus. *)
ViewsOf(s) == {v \in Views : v.invoice.student = s}
ViewsAt(c) == {v \in Views : siteOf[v.invoice.student] = c}
With(S, status) == {v \in S : v.status = status}

(* What is due is either overdue or pending. *)
LEMMA SplitOwed ==
  ASSUME BillsInv, NEW S \in SUBSET Views
  PROVE  /\ Bills!Balances(S) = Bills!Balances(With(S, "Overdue")) + Bills!Balances(With(S, "Pending"))
         /\ Bills!Balances(With(S, "Overdue")) \in Nat /\ Bills!Balances(With(S, "Pending")) \in Nat
         /\ Bills!Balances(S) > 0 <=> \E v \in S : v.balance > 0
         /\ Bills!Balances(With(S, "Overdue")) > 0 <=> \E v \in S : v.status = "Overdue"
         /\ Bills!Balances(With(S, "Pending")) > 0 <=> \E v \in S : v.status = "Pending"
<1> DEFINE late == With(S, "Overdue")
           due == With(S, "Pending")
           both == late \cup due
<1>1. \A v \in S : /\ v.balance \in Nat /\ v.status \in {"Paid", "Pending", "Overdue"}
                   /\ v.status = "Paid" <=> v.balance = 0
  BY ViewsAre
<1>2. /\ late \in SUBSET Views /\ due \in SUBSET Views /\ late \cap due = {} /\ both \in SUBSET S
      /\ \A v \in S \ both : v.balance = 0
      /\ \A v \in late : v.balance > 0 /\ v \in S /\ v.status = "Overdue"
      /\ \A v \in due : v.balance > 0 /\ v \in S /\ v.status = "Pending"
      /\ \A v \in S : (v.status = "Overdue" => v \in late) /\ (v.status = "Pending" => v \in due)
  BY <1>1 DEF With
<1>3. /\ Bills!Balances(S) = SumOf(Owed, S) /\ IsFiniteSet(S)
      /\ \A v \in S : Owed[v] = v.balance /\ v.balance \in Nat
      /\ Bills!Balances(S) > 0 <=> \E v \in S : v.balance > 0
  BY BalancesAre
<1> HIDE DEF late, due
<1>4. /\ Bills!Balances(late) = SumOf(Owed, late) /\ SumOf(Owed, late) \in Nat /\ IsFiniteSet(late)
      /\ Bills!Balances(late) > 0 <=> \E v \in late : v.balance > 0
  BY <1>2, BalancesAre
<1>5. /\ Bills!Balances(due) = SumOf(Owed, due) /\ SumOf(Owed, due) \in Nat /\ IsFiniteSet(due)
      /\ Bills!Balances(due) > 0 <=> \E v \in due : v.balance > 0
  BY <1>2, BalancesAre
<1>6. \A v \in both : Owed[v] \in Nat
  BY <1>2, <1>3
<1>7. SumOf(Owed, both) = SumOf(Owed, late) + SumOf(Owed, due)
  BY <1>2, <1>4, <1>5, <1>6, SumJoin
<1>8. SumOf(Owed, S) = SumOf(Owed, both)
  <2>1. (\A v \in S : Owed[v] \in Nat) /\ \A v \in S \ both : Owed[v] = 0
    BY <1>2, <1>3
  <2> HIDE DEF both
  <2>2. QED BY <1>2, <1>3, <2>1, SumDrop
<1>9. /\ (\E v \in late : v.balance > 0) <=> \E v \in S : v.status = "Overdue"
      /\ (\E v \in due : v.balance > 0) <=> \E v \in S : v.status = "Pending"
  BY <1>2
<1>10. QED BY <1>3, <1>4, <1>5, <1>7, <1>8, <1>9 DEF late, due

(* A student's entry in the index. *)
LEMMA FeesAre ==
  ASSUME BillsInv, NEW s
  PROVE  LET f == Bills!FeesOf(s)
         IN  /\ f.invoices = ViewsOf(s)
             /\ f.overdue = Bills!Balances(With(ViewsOf(s), "Overdue")) /\ f.overdue \in Nat
             /\ f.pending = Bills!Balances(With(ViewsOf(s), "Pending")) /\ f.pending \in Nat
             /\ f.outstanding = f.overdue + f.pending
             /\ f.outstanding = Bills!Balances(ViewsOf(s))
             /\ f.outstanding > 0 <=> \E v \in ViewsOf(s) : v.balance > 0
             /\ f.overdue > 0 <=> \E v \in ViewsOf(s) : v.status = "Overdue"
             /\ f.pending > 0 <=> \E v \in ViewsOf(s) : v.status = "Pending"
             /\ f.status = IF f.overdue > 0 THEN "Overdue" ELSE IF f.pending > 0 THEN "Pending" ELSE "Paid"
             /\ f.paid = Bills!Sum([v \in ViewsOf(s) |-> v.paid])
<1> DEFINE mine == {Bills!ViewInvoice(i, payments) : i \in {j \in invoices : j.student = s}}
           f == Bills!FeesOf(s)
<1>1. mine = ViewsOf(s)
  BY ViewsAre DEF Views, ViewsOf
<1>2. /\ f.invoices = mine
      /\ f.overdue = Bills!Balances({v \in mine : v.status = "Overdue"})
      /\ f.pending = Bills!Balances({v \in mine : v.status = "Pending"})
      /\ f.outstanding = f.overdue + f.pending
      /\ f.status = IF f.overdue > 0 THEN "Overdue" ELSE IF f.pending > 0 THEN "Pending" ELSE "Paid"
      /\ f.paid = Bills!Sum([v \in mine |-> v.paid])
  BY DEF Bills!FeesOf, Bills!FeeSummary, Bills!SummaryOf, Bills!Summary
<1> HIDE DEF mine, f
<1>3. ViewsOf(s) \in SUBSET Views
  BY DEF ViewsOf
<1>4. /\ f.overdue = Bills!Balances(With(ViewsOf(s), "Overdue"))
      /\ f.pending = Bills!Balances(With(ViewsOf(s), "Pending"))
  BY <1>1, <1>2 DEF With
<1>5. QED BY <1>1, <1>2, <1>3, <1>4, SplitOwed DEF f

(* What is due may be added up by any key of the bills.                     *)
LEMMA OwedByKey ==
  ASSUME BillsInv, NEW X, IsFiniteSet(X), NEW T \in SUBSET Views,
         NEW key, \A v \in T : key[v] \in X,
         NEW f, \A x \in X : f[x] = Bills!Balances({v \in T : key[v] = x})
  PROVE  SumOf(f, X) = Bills!Balances(T) /\ \A x \in X : f[x] \in Nat
<1> DEFINE G == [x \in X |-> {v \in T : key[v] = x}]
<1>1. \A x \in X : G[x] = {v \in T : key[v] = x} /\ G[x] \in SUBSET Views
  OBVIOUS
<1>2. UNION {G[x] : x \in X} = T /\ \A x, y \in X : x # y => G[x] \cap G[y] = {}
  OBVIOUS
<1> HIDE DEF G
<1>3. \A x \in X : f[x] = SumOf(Owed, G[x]) /\ IsFiniteSet(G[x]) /\ f[x] \in Nat
                   /\ \A v \in G[x] : Owed[v] \in Nat
  <2> SUFFICES ASSUME NEW x \in X
               PROVE  /\ f[x] = SumOf(Owed, G[x]) /\ IsFiniteSet(G[x]) /\ f[x] \in Nat
                      /\ \A v \in G[x] : Owed[v] \in Nat
    OBVIOUS
  <2>1. f[x] = Bills!Balances(G[x])
    BY <1>1
  <2>2. G[x] \in SUBSET Views
    BY <1>1
  <2>3. QED BY <2>1, <2>2, BalancesAre
<1>4. SumOf(f, X) = SumOf(Owed, UNION {G[x] : x \in X})
  BY <1>2, <1>3, SumParts
<1>5. QED BY <1>2, <1>3, <1>4, BalancesAre

(* The rows of a campus.                                                    *)
LEMMA RowsAre ==
  ASSUME BillsInv, NEW c
  PROVE  /\ Bills!InvoiceRows(c) = ViewsAt(c) /\ ViewsAt(c) \in SUBSET Views
         /\ IsFiniteSet(Bills!Students(c)) /\ Bills!Students(c) = {s \in Pupil : siteOf[s] = c}
         /\ \A v \in ViewsAt(c) : v.invoice.student \in Bills!Students(c)
         /\ \A s \in Bills!Students(c) : \A v \in ViewsOf(s) : v \in ViewsAt(c)
         /\ \A v \in ViewsAt(c) : v \in ViewsOf(v.invoice.student)
<1>1. Bills!Students(c) = {s \in Pupil : siteOf[s] = c}
  BY DEF Bills!Students
<1>2. IsFiniteSet(Bills!Students(c))
  BY <1>1, SchoolGiven, FS_Subset
<1>3. Bills!InvoiceRows(c) = ViewsAt(c)
  BY ViewsAre DEF Bills!InvoiceRows, Bills!InvoicesOf, ViewsAt, Views
<1>4. \A v \in Views : v.invoice.student \in Pupil
  BY ViewsAre DEF BillRecord
<1>5. QED BY <1>1, <1>2, <1>3, <1>4 DEF ViewsAt, ViewsOf

(* What the students of a campus owe is what its bills do. *)
LEMMA CampusOwes ==
  ASSUME BillsInv, NEW c, NEW T \in SUBSET ViewsAt(c),
         NEW f, DOMAIN f = Bills!Students(c),
         \A s \in Bills!Students(c) : f[s] = Bills!Balances({v \in T : v.invoice.student = s})
  PROVE  Bills!Sum(f) = Bills!Balances(T) /\ \A s \in Bills!Students(c) : f[s] \in Nat
<1> DEFINE X == Bills!Students(c)
           key == [v \in Views |-> v.invoice.student]
<1>1. T \in SUBSET Views /\ IsFiniteSet(X) /\ \A v \in T : v.invoice.student \in X
  BY RowsAre
<1>2. \A v \in T : key[v] = v.invoice.student /\ key[v] \in X
  BY <1>1
<1> HIDE DEF key
<1>3. \A s \in X : f[s] = Bills!Balances({v \in T : key[v] = s})
  <2> SUFFICES ASSUME NEW s \in X PROVE f[s] = Bills!Balances({v \in T : key[v] = s})
    OBVIOUS
  <2>1. {v \in T : key[v] = s} = {v \in T : v.invoice.student = s}
    BY <1>2
  <2>2. QED BY <2>1
<1> HIDE DEF X
<1>4. SumOf(f, X) = Bills!Balances(T) /\ \A s \in X : f[s] \in Nat
  BY <1>1, <1>2, <1>3, OwedByKey
<1>5. Bills!Sum(f) = SumOf(f, X)
  BY <1>1, BillsSum DEF X
<1>6. QED BY <1>4, <1>5 DEF X

(* The tiles of the overview and of the dashboard are what the campus owes. *)
LEMMA TilesAre ==
  ASSUME BillsInv, NEW c
  PROVE  /\ Bills!Sum([s \in Bills!Students(c) |-> Bills!FeesOf(s).pending])
              = Bills!Balances(With(ViewsAt(c), "Pending"))
         /\ Bills!Sum([s \in Bills!Students(c) |-> Bills!FeesOf(s).overdue])
              = Bills!Balances(With(ViewsAt(c), "Overdue"))
         /\ Bills!Sum([s \in Bills!Students(c) |-> Bills!FeesOf(s).outstanding])
              = Bills!Balances(ViewsAt(c))
<1> DEFINE S == Bills!Students(c)
<1>1. ASSUME NEW s \in S
      PROVE  /\ With(ViewsOf(s), "Pending") = {v \in With(ViewsAt(c), "Pending") : v.invoice.student = s}
             /\ With(ViewsOf(s), "Overdue") = {v \in With(ViewsAt(c), "Overdue") : v.invoice.student = s}
             /\ ViewsOf(s) = {v \in ViewsAt(c) : v.invoice.student = s}
  <2>1. \A v \in Views : v \in ViewsOf(s) <=> v \in ViewsAt(c) /\ v.invoice.student = s
    BY RowsAre DEF ViewsOf
  <2>2. ViewsOf(s) \in SUBSET Views /\ ViewsAt(c) \in SUBSET Views
    BY DEF ViewsOf, ViewsAt
  <2>3. ViewsOf(s) = {v \in ViewsAt(c) : v.invoice.student = s}
    BY <2>1, <2>2
  <2>4. QED BY <2>3 DEF With
<1>2. \A T : With(T, "Pending") \in SUBSET T /\ With(T, "Overdue") \in SUBSET T /\ T \in SUBSET T
  BY DEF With
<1>3. ASSUME NEW T \in SUBSET ViewsAt(c), NEW f, DOMAIN f = S,
             \A s \in S : f[s] = Bills!Balances({v \in T : v.invoice.student = s})
      PROVE  Bills!Sum(f) = Bills!Balances(T)
  BY <1>3, CampusOwes
<1> HIDE DEF S
<1>4. Bills!Sum([s \in S |-> Bills!FeesOf(s).pending]) = Bills!Balances(With(ViewsAt(c), "Pending"))
  <2> DEFINE f == [s \in S |-> Bills!FeesOf(s).pending]
             T == With(ViewsAt(c), "Pending")
  <2>1. \A s \in S : f[s] = Bills!Balances({v \in T : v.invoice.student = s})
    BY <1>1, FeesAre
  <2>2. DOMAIN f = S /\ T \in SUBSET ViewsAt(c)
    BY <1>2
  <2> HIDE DEF f, T
  <2>3. Bills!Sum(f) = Bills!Balances(T)
    BY <1>3, <2>1, <2>2
  <2>4. QED BY <2>3 DEF f, T
<1>5. Bills!Sum([s \in S |-> Bills!FeesOf(s).overdue]) = Bills!Balances(With(ViewsAt(c), "Overdue"))
  <2> DEFINE f == [s \in S |-> Bills!FeesOf(s).overdue]
             T == With(ViewsAt(c), "Overdue")
  <2>1. \A s \in S : f[s] = Bills!Balances({v \in T : v.invoice.student = s})
    BY <1>1, FeesAre
  <2>2. DOMAIN f = S /\ T \in SUBSET ViewsAt(c)
    BY <1>2
  <2> HIDE DEF f, T
  <2>3. Bills!Sum(f) = Bills!Balances(T)
    BY <1>3, <2>1, <2>2
  <2>4. QED BY <2>3 DEF f, T
<1>6. Bills!Sum([s \in S |-> Bills!FeesOf(s).outstanding]) = Bills!Balances(ViewsAt(c))
  <2> DEFINE f == [s \in S |-> Bills!FeesOf(s).outstanding]
             T == ViewsAt(c)
  <2>1. \A s \in S : f[s] = Bills!Balances({v \in T : v.invoice.student = s})
    BY <1>1, FeesAre
  <2>2. DOMAIN f = S /\ T \in SUBSET ViewsAt(c)
    OBVIOUS
  <2> HIDE DEF f, T
  <2>3. Bills!Sum(f) = Bills!Balances(T)
    BY <1>3, <2>1, <2>2
  <2>4. QED BY <2>3 DEF f, T
<1>7. QED BY <1>4, <1>5, <1>6 DEF S

(* The largest and the smallest of finitely many numbers.                   *)
LEMMA LargestIs ==
  ASSUME NEW S, IsFiniteSet(S), S # {}, \A y \in S : y \in Int
  PROVE  Bills!Max(S) \in S /\ \A y \in S : y <= Bills!Max(S)
<1> DEFINE Largest(T) == \E x \in T : \A y \in T : y <= x
           Bad == {T \in SUBSET S : T # {} /\ ~Largest(T)}
<1>1. Largest(S)
  <2> SUFFICES ASSUME Bad # {} PROVE FALSE
    OBVIOUS
  <2>0. Bad \in SUBSET (SUBSET S)
    OBVIOUS
  <2> HIDE DEF Bad
  <2>1. PICK T \in Bad : \A U \in Bad : U \subseteq T => U = T
    BY <2>0, SmallestSubset
  <2> USE DEF Bad
  <2>2. PICK z \in T : TRUE
    BY <2>1
  <2> DEFINE R == T \ {z}
  <2>3. R \in SUBSET S /\ R \subseteq T /\ R # T
    BY <2>0, <2>1, <2>2
  <2>4. R = {} \/ Largest(R)
    BY <2>1, <2>3
  <2>5. z \in Int /\ \A y \in T : y \in Int
    BY <2>0, <2>1, <2>2
  <2>6. R # {}
    <3>1. R = {} => \A y \in T : y = z
      OBVIOUS
    <3>2. QED BY <2>1, <2>2, <2>5, <3>1
  <2>7. PICK x \in R : \A y \in R : y <= x
    BY <2>4, <2>6
  <2>8. x \in Int /\ x \in T
    BY <2>5
  <2>9. CASE z <= x
    <3>1. \A y \in T : y <= x
      BY <2>7, <2>9
    <3>2. QED BY <2>1, <2>8, <3>1
  <2>10. CASE ~(z <= x)
    <3>1. \A y \in T : y <= z
      BY <2>5, <2>7, <2>8, <2>10
    <3>2. QED BY <2>1, <2>2, <3>1
  <2>11. QED BY <2>9, <2>10
<1>2. \E x \in S : \A y \in S : x >= y
  BY <1>1
<1>3. Bills!Max(S) = CHOOSE x \in S : \A y \in S : x >= y
  BY DEF Bills!Max
<1>4. Bills!Max(S) \in S /\ \A y \in S : Bills!Max(S) >= y
  BY <1>2, <1>3
<1>5. QED BY <1>4

(* How late a student is, by what is unpaid and by what is overdue.         *)
LEMMA LatestIs ==
  ASSUME BillsInv, NEW s
  PROVE  /\ Bills!Max({v.late : v \in {w \in Bills!FeesOf(s).invoices : w.status = "Overdue"}} \cup {0})
              = Bills!MostLate(s)
         /\ Bills!MostLate(s) \in Nat
         /\ Bills!MostLate(s) = 0 \/ \E v \in ViewsOf(s) : v.balance > 0 /\ v.late = Bills!MostLate(s)
         /\ \A v \in ViewsOf(s) : v.balance > 0 => v.late <= Bills!MostLate(s)
         /\ Bills!Unpaid(s) = {v \in ViewsOf(s) : v.balance > 0}
<1> DEFINE A == {v.late : v \in {w \in Bills!FeesOf(s).invoices : w.status = "Overdue"}} \cup {0}
           B == {v.late : v \in Bills!Unpaid(s)} \cup {0}
           U == {v \in ViewsOf(s) : v.balance > 0}
<1>1. Bills!FeesOf(s).invoices = ViewsOf(s) /\ Bills!Unpaid(s) = U /\ ViewsOf(s) \in SUBSET Views
  <2>1. Bills!FeesOf(s).invoices = ViewsOf(s)
    BY FeesAre
  <2>2. Bills!Unpaid(s) = U
    BY <2>1 DEF Bills!Unpaid
  <2>3. QED BY <2>1, <2>2 DEF ViewsOf
<1>2. \A v \in ViewsOf(s) : /\ v.late \in Nat /\ v.balance \in Nat
                            /\ v.status = "Overdue" => v.balance > 0
                            /\ v.status # "Overdue" => v.late = 0
  BY <1>1, ViewsAre
<1>3. A = B
  BY <1>1, <1>2
<1>4. B \in SUBSET Nat /\ B # {}
  BY <1>1, <1>2
<1>5. IsFiniteSet(B)
  <2> DEFINE h == [v \in U |-> v.late]
             L == {v.late : v \in U}
  <2>1. h \in Surjection(U, L)
    BY DEF Surjection
  <2>2. IsFiniteSet(U)
    BY <1>1, ViewsAre, FS_Subset
  <2>3. IsFiniteSet(L)
    BY <2>1, <2>2, FS_Surjection
  <2>4. B = L \cup {0}
    BY <1>1
  <2> HIDE DEF L, B
  <2>5. IsFiniteSet(L \cup {0})
    BY <2>3, FS_AddElement
  <2>6. QED BY <2>4, <2>5
<1>6. Bills!MostLate(s) = Bills!Max(B)
  BY DEF Bills!MostLate
<1>7. \A y \in B : y \in Int
  BY <1>4
<1> HIDE DEF A, B
<1>8. Bills!Max(B) \in B /\ \A y \in B : y <= Bills!Max(B)
  BY <1>4, <1>5, <1>7, LargestIs
<1>9. Bills!Max(A) = Bills!MostLate(s) /\ Bills!MostLate(s) \in Nat
  BY <1>3, <1>4, <1>6, <1>8
<1>10. /\ Bills!MostLate(s) = 0 \/ \E v \in ViewsOf(s) : v.balance > 0 /\ v.late = Bills!MostLate(s)
       /\ \A v \in ViewsOf(s) : v.balance > 0 => v.late <= Bills!MostLate(s)
  BY <1>1, <1>6, <1>8 DEF B
<1>11. QED BY <1>1, <1>9, <1>10 DEF A

(* What is due is the same on every page of a campus.                       *)
LEMMA DuesAlike == ASSUME BillsInv PROVE Bills!DuesAgree
<1> SUFFICES ASSUME NEW c \in Site
             PROVE  Bills!DuesAgreeOn(c, Bills!Overview(c), Bills!DashboardFees(c), Bills!DueRows(c))
  BY DEF Bills!DuesAgree
<1> DEFINE o == Bills!Overview(c)
           d == Bills!DashboardFees(c)
           rows == Bills!DueRows(c)
           S == Bills!Students(c)
           A == ViewsAt(c)
<1>1. /\ o.pending = Bills!Sum([s \in S |-> Bills!FeesOf(s).pending])
      /\ o.overdue = Bills!Sum([s \in S |-> Bills!FeesOf(s).overdue])
      /\ o.overdueStudents = Bills!Cardinality({s \in S : Bills!FeesOf(s).overdue > 0})
      /\ o.overdueBy = [b \in Course |->
           Bills!Balances({v \in Bills!InvoiceRows(c) : v.status = "Overdue" /\ v.invoice.batch = b})]
  BY DEF Bills!Overview, Bills!OverviewOf
<1>2. /\ d.outstanding = Bills!Sum([s \in S |-> Bills!FeesOf(s).outstanding])
      /\ d.overdue = {s \in S : Bills!FeesOf(s).overdue > 0}
      /\ d.daysOverdue = [s \in S |->
           Bills!Max({v.late : v \in {w \in Bills!FeesOf(s).invoices : w.status = "Overdue"}} \cup {0})]
  BY DEF Bills!DashboardFees, Bills!DashboardOf
<1>3. rows = {s \in S : Bills!FeesOf(s).outstanding > 0}
  BY DEF Bills!DueRows
<1>4. Bills!FeeOverview(o).worst = {b \in Course : o.overdueBy[b] > 0}
  BY DEF Bills!FeeOverview
<1>5. \A b : DOMAIN Bills!DuesTab(c, "Overdue", b) =
                {s \in rows : Bills!FeesOf(s).overdue > 0 /\ (b # "" => \E v \in Bills!Unpaid(s) : v.invoice.batch = b)}
  BY DEF Bills!DuesTab, Bills!FilterDues
<1>6. \A s \in DOMAIN Bills!DuesTab(c, "Overdue", "") : Bills!DuesTab(c, "Overdue", "")[s].days = Bills!MostLate(s)
  BY DEF Bills!DuesTab
<1>7. Bills!InvoicesTab(c, "Unpaid").totals.balance
        = Bills!Balances(Bills!FilterInvoices(Bills!InvoiceRows(c), "Unpaid"))
  BY DEF Bills!InvoicesTab, Bills!InvoicesList, Bills!InvoiceTotals
<1>8. Bills!FilterInvoices(A, "Unpaid") = {v \in A : v.balance > 0}
  BY DEF Bills!FilterInvoices
<1>14. \A s : /\ Bills!FeesOf(s).overdue \in Nat /\ Bills!FeesOf(s).pending \in Nat
              /\ Bills!FeesOf(s).outstanding = Bills!FeesOf(s).overdue + Bills!FeesOf(s).pending
              /\ Bills!FeesOf(s).overdue > 0 <=> \E v \in ViewsOf(s) : v.status = "Overdue"
  BY FeesAre
<1> HIDE DEF o, d, rows, S
<1>9. o.pending + o.overdue = Bills!Balances(A) /\ d.outstanding = Bills!Balances(A)
      /\ o.overdue = Bills!Balances(With(A, "Overdue"))
  <2>1. /\ o.pending = Bills!Balances(With(A, "Pending")) /\ d.outstanding = Bills!Balances(A)
        /\ o.overdue = Bills!Balances(With(A, "Overdue"))
    BY <1>1, <1>2, TilesAre DEF S
  <2>2. A \in SUBSET Views
    BY RowsAre
  <2>3. /\ Bills!Balances(A) = Bills!Balances(With(A, "Overdue")) + Bills!Balances(With(A, "Pending"))
        /\ Bills!Balances(With(A, "Overdue")) \in Nat /\ Bills!Balances(With(A, "Pending")) \in Nat
    BY <2>2, SplitOwed
  <2>4. QED BY <2>1, <2>3
<1>10. Bills!Sum([s \in rows |-> Bills!FeesOf(s).outstanding]) = Bills!Balances(A)
  <2> DEFINE f == [s \in S |-> Bills!FeesOf(s).outstanding]
             g == [s \in rows |-> Bills!FeesOf(s).outstanding]
  <2>1. Bills!Sum(f) = Bills!Balances(A)
    BY TilesAre DEF S
  <2>2. /\ DOMAIN f = S /\ DOMAIN g = rows /\ rows \in SUBSET S
        /\ \A s \in rows : g[s] = f[s]
    BY <1>3
  <2>3. \A s \in S : f[s] \in Nat /\ (s \notin rows => f[s] = 0)
    <3>1. \A s \in S : f[s] = Bills!FeesOf(s).outstanding /\ (s \in rows <=> f[s] > 0)
      BY <1>3
    <3>2. \A s : Bills!FeesOf(s).outstanding \in Nat
      BY <1>14
    <3> HIDE DEF f
    <3>3. QED BY <3>1, <3>2
  <2>4. IsFiniteSet(S)
    BY RowsAre DEF S
  <2> HIDE DEF f, g
  <2>5. IsFiniteSet(rows)
    BY <2>2, <2>4, FS_Subset
  <2>6. Bills!Sum(f) = SumOf(f, S) /\ Bills!Sum(g) = SumOf(f, rows)
    BY <2>2, <2>4, <2>5, BillsSumOf
  <2>7. SumOf(f, S) = SumOf(f, rows)
    BY <2>2, <2>3, <2>4, SumDrop
  <2>8. QED BY <2>1, <2>6, <2>7 DEF g
<1>11. Bills!InvoicesTab(c, "Unpaid").totals.balance = Bills!Balances(A)
  <2> DEFINE open == {v \in A : v.balance > 0}
  <2>1. A \in SUBSET Views /\ open \in SUBSET Views /\ open \in SUBSET A
    BY RowsAre
  <2>2. \A v \in A : v.balance \in Nat
    BY <2>1, ViewsAre
  <2>3. Bills!InvoicesTab(c, "Unpaid").totals.balance = Bills!Balances(open)
    BY <1>7, <1>8, RowsAre
  <2>4. \A v \in A \ open : v.balance = 0
    BY <2>2
  <2> HIDE DEF open
  <2>5. /\ Bills!Balances(open) = SumOf(Owed, open) /\ Bills!Balances(A) = SumOf(Owed, A) /\ IsFiniteSet(A)
        /\ \A v \in A : Owed[v] = v.balance
    BY <2>1, BalancesAre
  <2>6. (\A v \in A : Owed[v] \in Nat) /\ \A v \in A \ open : Owed[v] = 0
    BY <2>2, <2>4, <2>5
  <2>7. SumOf(Owed, A) = SumOf(Owed, open)
    BY <2>1, <2>5, <2>6, SumDrop
  <2>8. QED BY <2>3, <2>5, <2>7
<1>12. o.overdueBy = [b \in Course |-> Bills!Balances({v \in With(A, "Overdue") : v.invoice.batch = b})]
  <2>1. ASSUME NEW b \in Course
        PROVE  {v \in Bills!InvoiceRows(c) : v.status = "Overdue" /\ v.invoice.batch = b}
                 = {v \in With(A, "Overdue") : v.invoice.batch = b}
    BY RowsAre DEF With
  <2>2. QED BY <1>1, <2>1
<1>13. o.overdue = Bills!Sum([b \in Course |-> o.overdueBy[b]])
  <2> DEFINE T == With(A, "Overdue")
             key == [v \in Views |-> v.invoice.batch]
             f == [b \in Course |-> o.overdueBy[b]]
  <2>1. T \in SUBSET Views
    BY RowsAre DEF With
  <2>2. \A v \in T : key[v] = v.invoice.batch /\ key[v] \in Course
    BY <2>1, ViewsAre DEF BillRecord
  <2>3. \A b \in Course : f[b] = Bills!Balances({v \in T : key[v] = b})
    <3> SUFFICES ASSUME NEW b \in Course PROVE f[b] = Bills!Balances({v \in T : key[v] = b})
      OBVIOUS
    <3>1. {v \in T : key[v] = b} = {v \in T : v.invoice.batch = b}
      BY <2>2
    <3>2. f[b] = Bills!Balances({v \in T : v.invoice.batch = b})
      BY <1>12
    <3>3. QED BY <3>1, <3>2
  <2>4. DOMAIN f = Course /\ IsFiniteSet(Course)
    BY SchoolGiven
  <2> HIDE DEF T, key, f
  <2>5. SumOf(f, Course) = Bills!Balances(T)
    BY <2>1, <2>2, <2>3, <2>4, OwedByKey
  <2>6. Bills!Sum(f) = SumOf(f, Course)
    BY <2>4, BillsSum
  <2>7. QED BY <1>9, <2>5, <2>6 DEF f, T
<1>15. d.overdue = DOMAIN Bills!DuesTab(c, "Overdue", "")
  <2>1. \A s \in S : Bills!FeesOf(s).overdue > 0 => s \in rows
    BY <1>3, <1>14
  <2>2. DOMAIN Bills!DuesTab(c, "Overdue", "") = {s \in rows : Bills!FeesOf(s).overdue > 0}
    BY <1>5
  <2>3. QED BY <1>2, <1>3, <2>1, <2>2
<1>16. o.overdueStudents = Bills!Cardinality(d.overdue)
  BY <1>1, <1>2
<1>17. ASSUME NEW s \in d.overdue
       PROVE  d.daysOverdue[s] = Bills!DuesTab(c, "Overdue", "")[s].days /\ d.daysOverdue[s] > 0
  <2>1. s \in S /\ Bills!FeesOf(s).overdue > 0
    BY <1>2
  <2>2. d.daysOverdue[s] = Bills!MostLate(s)
    BY <1>2, <2>1, LatestIs
  <2>3. Bills!DuesTab(c, "Overdue", "")[s].days = Bills!MostLate(s)
    BY <1>6, <1>15
  <2>4. PICK v \in ViewsOf(s) : v.status = "Overdue"
    BY <1>14, <2>1
  <2>5. v.balance > 0 /\ v.late > 0 /\ v.late \in Nat
    BY <2>4, ViewsAre DEF ViewsOf
  <2>6. v.late <= Bills!MostLate(s) /\ Bills!MostLate(s) \in Nat
    <3>1. (\A w \in ViewsOf(s) : w.balance > 0 => w.late <= Bills!MostLate(s)) /\ Bills!MostLate(s) \in Nat
      BY LatestIs
    <3>2. QED BY <2>4, <2>5, <3>1
  <2>7. Bills!MostLate(s) > 0
    BY <2>5, <2>6
  <2> DEFINE shown == Bills!DuesTab(c, "Overdue", "")[s].days
  <2>8. shown = Bills!MostLate(s) /\ d.daysOverdue[s] = Bills!MostLate(s)
    BY <2>2, <2>3
  <2> HIDE DEF shown
  <2>9. d.daysOverdue[s] = shown /\ d.daysOverdue[s] > 0
    BY <2>7, <2>8
  <2>10. QED BY <2>9 DEF shown
<1>18. ASSUME NEW b \in Bills!FeeOverview(o).worst
       PROVE  DOMAIN Bills!DuesTab(c, "Overdue", b) # {}
  <2> DEFINE T == {v \in With(A, "Overdue") : v.invoice.batch = b}
  <2>1. b \in Course /\ Bills!Balances(T) > 0
    BY <1>4, <1>12
  <2>2. T \in SUBSET Views
    BY RowsAre DEF With
  <2>3. PICK v \in T : v.balance > 0
    BY <2>1, <2>2, BalancesAre
  <2>4. v \in A /\ v.status = "Overdue" /\ v.invoice.batch = b
    BY <2>3 DEF With
  <2> DEFINE s == v.invoice.student
  <2>5. s \in S /\ v \in ViewsOf(s)
    BY <2>4, RowsAre DEF S
  <2>6. Bills!FeesOf(s).overdue > 0 /\ s \in rows
    BY <1>3, <1>14, <2>4, <2>5
  <2>7. v \in Bills!Unpaid(s)
    BY <2>3, <2>5, LatestIs
  <2>8. QED BY <1>5, <2>4, <2>6, <2>7
<1>19. QED BY <1>9, <1>10, <1>11, <1>13, <1>15, <1>16, <1>17, <1>18 DEF Bills!DuesAgreeOn, o, d, rows, S

(* The filters split their lists.                                           *)
LEMMA FiltersAlike == ASSUME BillsInv PROVE Bills!FiltersSplit
<1> SUFFICES ASSUME NEW c \in Site
             PROVE  /\ Bills!FilterSplits(Bills!InvoiceRows(c),
                         [k \in {"Paid", "Pending", "Overdue", "Waived", "Unpaid"} |-> Bills!InvoicesTab(c, k).rows],
                         Bills!InvoicesTab(c, ""))
                    /\ Bills!DuesSplit(Bills!DueRows(c), DOMAIN Bills!DuesTab(c, "Overdue", ""),
                                       DOMAIN Bills!DuesTab(c, "Pending", ""))
  BY DEF Bills!FiltersSplit
<1> DEFINE rows == Bills!InvoiceRows(c)
           shown == [k \in {"Paid", "Pending", "Overdue", "Waived", "Unpaid"} |-> Bills!InvoicesTab(c, k).rows]
           all == Bills!InvoicesTab(c, "")
<1>1. \A v \in rows : /\ v.status \in {"Paid", "Pending", "Overdue"}
                      /\ v.balance > 0 <=> v.status # "Paid"
                      /\ v.invoice.waived => v.status = "Paid"
                      /\ v.invoice.waived \in BOOLEAN
  <2>1. \A v \in rows : v \in Views
    BY RowsAre
  <2>2. \A v \in Views : v.balance \in Nat /\ (v.status = "Paid" <=> v.balance = 0)
                         /\ v.invoice.waived \in BOOLEAN
    BY ViewsAre DEF BillRecord
  <2> HIDE DEF rows
  <2>3. \A v \in rows : v.status \in {"Paid", "Pending", "Overdue"} /\ (v.invoice.waived => v.status = "Paid")
    BY <2>1, ViewsAre
  <2>4. QED BY <2>1, <2>2, <2>3
<1>2. Bills!FilterSplits(rows, shown, all)
  <2>1. \A k : Bills!InvoicesTab(c, k).rows = Bills!FilterInvoices(rows, k)
    BY DEF Bills!InvoicesTab, Bills!InvoicesList
  <2>2. /\ shown["Paid"] = Bills!FilterInvoices(rows, "Paid")
        /\ shown["Pending"] = Bills!FilterInvoices(rows, "Pending")
        /\ shown["Overdue"] = Bills!FilterInvoices(rows, "Overdue")
        /\ shown["Waived"] = Bills!FilterInvoices(rows, "Waived")
        /\ shown["Unpaid"] = Bills!FilterInvoices(rows, "Unpaid")
    BY <2>1
  <2>3. Bills!FilterInvoices(rows, "") = rows
    BY DEF Bills!FilterInvoices
  <2>4. all = Bills!InvoicesList(rows)
    BY <2>3 DEF Bills!InvoicesTab
  <2> HIDE DEF rows, shown, all
  <2>5. /\ all.collect = {v \in rows : v.balance > 0}
        /\ all.reinstate = {v \in rows : v.invoice.waived}
        /\ all.waive = {v \in rows : v.balance > 0 /\ ~v.invoice.waived}
    BY <2>4 DEF Bills!InvoicesList
  <2>6. /\ shown["Paid"] = {v \in rows : v.status = "Paid" /\ ~v.invoice.waived}
        /\ shown["Pending"] = {v \in rows : v.status = "Pending"}
        /\ shown["Overdue"] = {v \in rows : v.status = "Overdue"}
        /\ shown["Waived"] = {v \in rows : v.invoice.waived}
        /\ shown["Unpaid"] = {v \in rows : v.balance > 0}
    BY <2>2 DEF Bills!FilterInvoices
  <2> DEFINE paid == shown["Paid"]
             pending == shown["Pending"]
             overdue == shown["Overdue"]
             waived == shown["Waived"]
             unpaid == shown["Unpaid"]
  <2>7. /\ paid \cup pending \cup overdue \cup waived = rows
        /\ paid \cap pending = {} /\ paid \cap overdue = {} /\ paid \cap waived = {}
        /\ pending \cap overdue = {} /\ pending \cap waived = {} /\ overdue \cap waived = {}
    BY <1>1, <2>6
  <2>8. unpaid = pending \cup overdue /\ all.collect = unpaid /\ all.waive = unpaid /\ all.reinstate = waived
    BY <1>1, <2>5, <2>6
  <2>9. UNION {shown[k] : k \in {"Paid", "Pending", "Overdue", "Waived"}} = rows
    <3>1. {shown[k] : k \in {"Paid", "Pending", "Overdue", "Waived"}} = {paid, pending, overdue, waived}
      OBVIOUS
    <3> HIDE DEF paid, pending, overdue, waived
    <3>2. QED BY <2>7, <3>1
  <2>10. \A k, l \in {"Paid", "Pending", "Overdue", "Waived"} : k # l => shown[k] \cap shown[l] = {}
    BY <2>7
  <2>11. QED BY <2>8, <2>9, <2>10 DEF Bills!FilterSplits
<1>3. Bills!DuesSplit(Bills!DueRows(c), DOMAIN Bills!DuesTab(c, "Overdue", ""), DOMAIN Bills!DuesTab(c, "Pending", ""))
  <2> DEFINE due == Bills!DueRows(c)
  <2>1. DOMAIN Bills!DuesTab(c, "Overdue", "") = {s \in due : Bills!FeesOf(s).overdue > 0}
    BY DEF Bills!DuesTab, Bills!FilterDues
  <2>2. DOMAIN Bills!DuesTab(c, "Pending", "") = {s \in due : Bills!FeesOf(s).pending > 0 /\ Bills!FeesOf(s).overdue = 0}
    BY DEF Bills!DuesTab, Bills!FilterDues
  <2>3. \A s \in due : Bills!FeesOf(s).outstanding > 0
    BY DEF Bills!DueRows
  <2>4. \A s : /\ Bills!FeesOf(s).overdue \in Nat /\ Bills!FeesOf(s).pending \in Nat
               /\ Bills!FeesOf(s).outstanding = Bills!FeesOf(s).overdue + Bills!FeesOf(s).pending
    BY FeesAre
  <2> HIDE DEF due
  <2> DEFINE A == {s \in due : Bills!FeesOf(s).overdue > 0}
             B == {s \in due : Bills!FeesOf(s).pending > 0 /\ Bills!FeesOf(s).overdue = 0}
  <2>5. due = A \cup B /\ A \cap B = {}
    BY <2>3, <2>4
  <2>6. QED BY <2>1, <2>2, <2>5 DEF Bills!DuesSplit, due
<1>4. QED BY <1>2, <1>3

(* The calendar: a month is the days from its first to the next one's.      *)
LEMMA DivMod ==
  ASSUME NEW n \in Nat, NEW k \in Nat, k > 0
  PROVE  /\ n \div k \in Nat /\ n % k \in Nat /\ n % k < k
         /\ n = k * (n \div k) + (n % k)
<1>1. n % k \in Int /\ 0 <= n % k /\ n % k < k
  BY SMT
<1>2. n \div k \in Int /\ k * (n \div k) + (n % k) = n
  BY SMT
<1>3. n \div k >= 0
  <2> SUFFICES ASSUME n \div k < 0 PROVE FALSE
    BY <1>2
  <2>1. \A q, r, m \in Int : q < 0 /\ m > 0 /\ r < m => m * q + r < 0
    OBVIOUS
  <2>2. QED BY <1>1, <1>2, <2>1
<1>4. QED BY <1>1, <1>2, <1>3

(* Every second month is even. *)
LEMMA Halves ==
  \A q \in Nat : /\ (2 * q) \div 2 = q /\ (2 * q) % 2 = 0
                 /\ (2 * q + 1) \div 2 = q /\ (2 * q + 1) % 2 = 1
  OBVIOUS

(* More months are more days. *)
LEMMA Times == \A k, a, b \in Nat : a < b => k * b >= k * a + k
  OBVIOUS

(* A month more. *)
LEMMA TimesNext == \A k, a \in Nat : k * (a + 1) = k * a + k /\ k * a \in Nat
  OBVIOUS

(* A day is so many days after the first of its month.                      *)
LEMMA DaysIn ==
  ASSUME NEW d \in Nat
  PROVE  LET m == Bills!MonthOf(d)
         IN  /\ m \in Nat /\ Bills!DayOfMonth(d) \in Nat
             /\ Bills!StartOfMonth(m) \in Nat
             /\ d = Bills!StartOfMonth(m) + Bills!DayOfMonth(d)
             /\ d < Bills!StartOfMonth(m + 1)
<1> DEFINE T == Bills!TwoMonths
           q == d \div T
           r == d % T
           m == Bills!MonthOf(d)
<1>1. T \in Nat /\ T = 2 * MonthDays - 1 /\ T > MonthDays /\ T > 0 /\ MonthDays \in Nat
  BY BillsGiven DEF Bills!TwoMonths
<1>2. /\ m = 2 * q + (IF r >= MonthDays THEN 1 ELSE 0)
      /\ Bills!DayOfMonth(d) = r - (IF r >= MonthDays THEN MonthDays ELSE 0)
  BY DEF Bills!MonthOf, Bills!DayOfMonth
<1>3. \A k : Bills!StartOfMonth(k) = T * (k \div 2) + (IF k % 2 = 1 THEN MonthDays ELSE 0)
  BY DEF Bills!StartOfMonth
<1> HIDE DEF T
<1>4. q \in Nat /\ r \in Nat /\ r < T /\ d = T * q + r
  BY <1>1, DivMod
<1> HIDE DEF q, r, m
<1>5. T * q \in Nat /\ T * (q + 1) = T * q + T
  BY <1>1, <1>4, TimesNext
<1>6. CASE r >= MonthDays
  <2>1. m = 2 * q + 1 /\ Bills!DayOfMonth(d) = r - MonthDays /\ m + 1 = 2 * (q + 1) /\ q + 1 \in Nat
    BY <1>1, <1>2, <1>4, <1>6
  <2>2. Bills!StartOfMonth(m) = T * q + MonthDays
    <3>1. m \div 2 = q /\ m % 2 = 1
      BY <1>4, <2>1, Halves
    <3>2. QED BY <1>3, <3>1
  <2>3. Bills!StartOfMonth(m + 1) = T * (q + 1) + 0
    <3>1. (m + 1) \div 2 = q + 1 /\ (m + 1) % 2 = 0
      BY <2>1, Halves
    <3>2. QED BY <1>3, <3>1
  <2>4. QED BY <1>1, <1>4, <1>5, <1>6, <2>1, <2>2, <2>3 DEF m
<1>7. CASE ~(r >= MonthDays)
  <2>1. m = 2 * q /\ Bills!DayOfMonth(d) = r /\ m + 1 = 2 * q + 1
    BY <1>1, <1>2, <1>4, <1>7
  <2>2. Bills!StartOfMonth(m) = T * q + 0
    <3>1. m \div 2 = q /\ m % 2 = 0
      BY <1>4, <2>1, Halves
    <3>2. QED BY <1>3, <3>1
  <2>3. Bills!StartOfMonth(m + 1) = T * q + MonthDays
    <3>1. (m + 1) \div 2 = q /\ (m + 1) % 2 = 1
      BY <1>4, <2>1, Halves
    <3>2. QED BY <1>3, <3>1
  <2>4. QED BY <1>1, <1>4, <1>5, <1>7, <2>1, <2>2, <2>3 DEF m
<1>8. QED BY <1>6, <1>7

(* The firsts of the months are in their order.                             *)
LEMMA MonthsInOrder ==
  ASSUME NEW a \in Nat, NEW b \in Nat, a <= b
  PROVE  /\ Bills!StartOfMonth(a) \in Nat /\ Bills!StartOfMonth(b) \in Nat
         /\ Bills!StartOfMonth(a) <= Bills!StartOfMonth(b)
<1> DEFINE T == Bills!TwoMonths
           p == a \div 2
           q == b \div 2
<1>1. T \in Nat /\ T > MonthDays /\ T > 0 /\ MonthDays \in Nat
  BY BillsGiven DEF Bills!TwoMonths
<1>2. /\ Bills!StartOfMonth(a) = T * p + (IF a % 2 = 1 THEN MonthDays ELSE 0)
      /\ Bills!StartOfMonth(b) = T * q + (IF b % 2 = 1 THEN MonthDays ELSE 0)
  BY DEF Bills!StartOfMonth
<1>3. /\ p \in Nat /\ q \in Nat /\ p <= q
      /\ p = q /\ a % 2 = 1 => b % 2 = 1
  OBVIOUS
<1> HIDE DEF T, p, q
<1>4. T * p \in Nat /\ T * q \in Nat
  BY <1>1, <1>3, TimesNext
<1>5. p < q => T * q >= T * p + T
  BY <1>1, <1>3, Times
<1>6. p = q => T * q = T * p
  OBVIOUS
<1> DEFINE x == T * p
           y == T * q
<1>7. x \in Nat /\ y \in Nat /\ (p < q => y >= x + T) /\ (p = q => y = x)
  BY <1>4, <1>5, <1>6
<1>8. /\ Bills!StartOfMonth(a) = x + (IF a % 2 = 1 THEN MonthDays ELSE 0)
      /\ Bills!StartOfMonth(b) = y + (IF b % 2 = 1 THEN MonthDays ELSE 0)
  BY <1>2
<1> HIDE DEF x, y
<1>9. QED BY <1>1, <1>3, <1>7, <1>8

(* Which days are of a month.                                               *)
LEMMA MonthIs ==
  ASSUME NEW d \in Nat, NEW m \in Nat
  PROVE  Bills!MonthOf(d) = m <=> Bills!StartOfMonth(m) <= d /\ d < Bills!StartOfMonth(m + 1)
<1> DEFINE k == Bills!MonthOf(d)
<1>1. /\ k \in Nat /\ Bills!StartOfMonth(k) \in Nat /\ Bills!StartOfMonth(k) <= d
      /\ d < Bills!StartOfMonth(k + 1)
  BY DaysIn
<1> HIDE DEF k
<1>2. k = m => Bills!StartOfMonth(m) <= d /\ d < Bills!StartOfMonth(m + 1)
  BY <1>1
<1>3. ASSUME k < m PROVE ~(Bills!StartOfMonth(m) <= d)
  <2>1. k + 1 <= m /\ k + 1 \in Nat
    BY <1>1, <1>3
  <2>2. /\ Bills!StartOfMonth(k + 1) <= Bills!StartOfMonth(m)
        /\ Bills!StartOfMonth(k + 1) \in Nat /\ Bills!StartOfMonth(m) \in Nat
    BY <2>1, MonthsInOrder
  <2>3. QED BY <1>1, <2>2
<1>4. ASSUME m < k PROVE ~(d < Bills!StartOfMonth(m + 1))
  <2>1. m + 1 <= k /\ m + 1 \in Nat
    BY <1>1, <1>4
  <2>2. /\ Bills!StartOfMonth(m + 1) <= Bills!StartOfMonth(k)
        /\ Bills!StartOfMonth(m + 1) \in Nat /\ Bills!StartOfMonth(k) \in Nat
    BY <1>1, <2>1, MonthsInOrder
  <2>3. QED BY <1>1, <2>2
<1>5. k = m \/ k < m \/ m < k
  BY <1>1
<1>6. QED BY <1>2, <1>3, <1>4, <1>5 DEF k

(* Of the days up to one: those of its month, and how far months go.        *)
LEMMA DaysUpTo ==
  ASSUME NEW t \in Nat, NEW d \in Nat, d <= t
  PROVE  /\ Bills!MonthOf(d) = Bills!MonthOf(t) <=> d >= Bills!StartOfMonth(Bills!MonthOf(t))
         /\ Bills!MonthOf(d) \in 0..Bills!MonthOf(t)
<1> DEFINE m == Bills!MonthOf(t)
           k == Bills!MonthOf(d)
<1>1. /\ m \in Nat /\ k \in Nat /\ t < Bills!StartOfMonth(m + 1)
      /\ Bills!StartOfMonth(m) \in Nat /\ Bills!StartOfMonth(k) <= d
  <2>1. m \in Nat /\ t < Bills!StartOfMonth(m + 1) /\ Bills!StartOfMonth(m) \in Nat
    BY DaysIn
  <2>2. /\ k \in Nat /\ Bills!DayOfMonth(d) \in Nat /\ Bills!StartOfMonth(k) \in Nat
        /\ d = Bills!StartOfMonth(k) + Bills!DayOfMonth(d)
    BY DaysIn
  <2> HIDE DEF m, k
  <2>3. Bills!StartOfMonth(k) <= d
    BY <2>2
  <2>4. QED BY <2>1, <2>2, <2>3
<1>2. Bills!StartOfMonth(m + 1) \in Nat
  BY <1>1, MonthsInOrder
<1>3. d < Bills!StartOfMonth(m + 1)
  BY <1>1, <1>2
<1>4. k = m <=> Bills!StartOfMonth(m) <= d /\ d < Bills!StartOfMonth(m + 1)
  BY <1>1, MonthIs
<1>5. ASSUME m < k PROVE FALSE
  <2>1. m + 1 \in Nat /\ m + 1 <= k
    BY <1>1, <1>5
  <2>2. Bills!StartOfMonth(m + 1) <= Bills!StartOfMonth(k) /\ Bills!StartOfMonth(k) \in Nat
    BY <1>1, <2>1, MonthsInOrder
  <2>3. QED BY <1>1, <1>2, <1>3, <2>2
<1>6. k \in 0..m
  BY <1>1, <1>5
<1>7. QED BY <1>1, <1>3, <1>4, <1>6

(* What a month collects at most is what it billed.                         *)
LEMMA CollectedOfBilled ==
  ASSUME BillsInv, NEW T \in SUBSET Views, \A v \in T : ~v.invoice.waived
  PROVE  Bills!ThisMonth(T).collected <= Bills!ThisMonth(T).billed
<1> DEFINE bills == {v.invoice : v \in T}
           part == [v \in T |-> IF v.paid < v.invoice.amount THEN v.paid ELSE v.invoice.amount]
           asked == [v \in T |-> v.invoice.amount]
           of == [v \in T |-> v.invoice]
           amounts == [i \in bills |-> IF i.waived THEN 0 ELSE i.amount]
<1>1. /\ Bills!ThisMonth(T).collected = Bills!Sum(part) /\ Bills!ThisMonth(T).billed = Bills!Billed(bills)
      /\ Bills!Billed(bills) = Bills!Sum(amounts)
  BY DEF Bills!ThisMonth, Bills!Billed
<1>2. IsFiniteSet(T) /\ \A v \in T : v.paid \in Nat /\ v.invoice \in BillRecord
  BY ViewsAre, FS_Subset
<1>3. \A v \in T : v.invoice.amount \in Nat
  BY <1>2 DEF BillRecord
<1>4. \A v \in T : part[v] \in Nat /\ asked[v] \in Nat /\ part[v] <= asked[v]
  BY <1>2, <1>3
<1>5. DOMAIN part = T /\ DOMAIN amounts = bills
  OBVIOUS
<1>6. \A v \in T : asked[v] = amounts[of[v]]
  <2>1. \A v \in T : of[v] = v.invoice /\ of[v] \in bills /\ ~of[v].waived /\ asked[v] = of[v].amount
    OBVIOUS
  <2>2. \A i \in bills : ~i.waived => amounts[i] = i.amount
    OBVIOUS
  <2> HIDE DEF of, bills, amounts, asked
  <2>3. QED BY <2>1, <2>2
<1>7. {of[v] : v \in T} = bills /\ \A v, w \in T : of[v] = of[w] => v = w
  <2>1. {of[v] : v \in T} = bills
    OBVIOUS
  <2>2. \A v, w \in T : of[v] = of[w] => v = w
    BY ViewsAre
  <2>3. QED BY <2>1, <2>2
<1>8. IsFiniteSet(bills)
  <2>1. of \in Surjection(T, bills)
    BY <1>7 DEF Surjection
  <2> HIDE DEF bills, of
  <2>2. QED BY <1>2, <2>1, FS_Surjection
<1> HIDE DEF part, asked, of, amounts, bills
<1>9. Bills!Sum(part) = SumOf(part, T) /\ Bills!Sum(amounts) = SumOf(amounts, bills)
  BY <1>2, <1>5, <1>8, BillsSumOf
<1>10. SumOf(asked, T) = SumOf(amounts, {of[v] : v \in T})
  BY <1>2, <1>4, <1>6, <1>7, SumRenamed
<1>11. SumOf(part, T) <= SumOf(asked, T)
  BY <1>2, <1>4, SumLeq
<1>12. QED BY <1>1, <1>7, <1>9, <1>10, <1>11

(* Money received is the same by month, by day and in the year.             *)
LEMMA MoneyAlike == ASSUME BillsInv PROVE Bills!MoneyAgrees
<1> SUFFICES ASSUME NEW c \in Site
             PROVE  Bills!MoneyAgreesOn(c, Bills!Overview(c), Bills!DashboardFees(c))
  BY DEF Bills!MoneyAgrees
<1> DEFINE o == Bills!Overview(c)
           d == Bills!DashboardFees(c)
           P == Bills!PaymentsOf(c)
           month == Bills!MonthOf(today)
           start == Bills!StartOfMonth(month)
           prev == IF month = 0 THEN -1 ELSE Bills!StartOfMonth(month - 1)
           dom == Bills!DayOfMonth(today)
           In(m) == {p \in P : Bills!MonthOf(p.date) = m}
<1>1. P \in SUBSET payments /\ (\A p \in P : p.date \in Nat /\ p.date <= today) /\ today \in Nat
  BY DEF Bills!PaymentsOf, BillsInv, PaymentRecord
<1>2. /\ o.collected = Bills!Collected(In(month))
      /\ o.prevToDate = Bills!Collected({p \in P : Bills!MonthOf(p.date) = month - 1
                                                   /\ Bills!DayOfMonth(p.date) <= dom})
      /\ o.monthly = [m \in 0..month |->
           [collected |-> Bills!CollectedIn(P, m), billed |-> Bills!BilledIn(Bills!InvoicesOf(c), m)]]
  BY DEF Bills!Overview, Bills!OverviewOf, Bills!CollectedIn
<1>3. /\ d.mtd = Bills!Collected({p \in P : p.date >= start /\ p.date <= today})
      /\ d.prevMtd = Bills!Collected({p \in P : /\ prev >= 0 /\ p.date >= prev
                                                /\ p.date <= Bills!Min({start - 1, prev + dom})})
  BY DEF Bills!DashboardFees, Bills!DashboardOf
<1>4. \A from, to : Bills!PaymentsTab(c, from, to).total
                       = Bills!Collected({p \in P : from <= p.date /\ p.date <= to})
  BY DEF Bills!PaymentsTab, Bills!FilterPayments
<1>5. Bills!FeeOverview(o).year = Bills!Sum([m \in DOMAIN o.monthly |-> o.monthly[m].collected])
  BY DEF Bills!FeeOverview
<1>6. o.collectedNow <= o.billedNow
  <2> DEFINE T == {v \in Bills!InvoiceRows(c) : v.invoice.period = Bills!MonthOf(today) /\ ~v.invoice.waived}
  <2>1. o.collectedNow = Bills!ThisMonth(T).collected /\ o.billedNow = Bills!ThisMonth(T).billed
    BY DEF Bills!Overview, Bills!OverviewOf
  <2>2. T \in SUBSET Views /\ \A v \in T : ~v.invoice.waived
    BY RowsAre
  <2> HIDE DEF T, o
  <2>3. QED BY <2>1, <2>2, CollectedOfBilled
<1> HIDE DEF o, d, P
<1>7. \A p \in P : /\ Bills!MonthOf(p.date) = month <=> p.date >= start
                   /\ Bills!MonthOf(p.date) \in 0..month
  BY <1>1, DaysUpTo
<1>8. month \in Nat /\ start \in Nat /\ dom \in Nat
  BY <1>1, DaysIn
<1> HIDE DEF month, start, dom, prev
<1>9. o.collected = d.mtd
  <2>1. In(month) = {p \in P : p.date >= start /\ p.date <= today}
    BY <1>1, <1>7
  <2>2. QED BY <1>2, <1>3, <2>1
<1>10. o.collected = Bills!PaymentsTab(c, start, today).total
  <2>1. In(month) = {p \in P : start <= p.date /\ p.date <= today}
    BY <1>1, <1>7, <1>8
  <2>2. QED BY <1>2, <1>4, <2>1
<1>11. o.prevToDate = d.prevMtd
  <2> DEFINE A == {p \in P : Bills!MonthOf(p.date) = month - 1 /\ Bills!DayOfMonth(p.date) <= dom}
             B == {p \in P : /\ prev >= 0 /\ p.date >= prev
                             /\ p.date <= Bills!Min({start - 1, prev + dom})}
  <2>1. CASE month = 0
    <3>1. ~(prev >= 0)
      BY <2>1 DEF prev
    <3>2. \A p \in P : Bills!MonthOf(p.date) # month - 1
      BY <1>7, <2>1
    <3>3. A = {} /\ B = {}
      BY <3>1, <3>2
    <3>4. QED BY <1>2, <1>3, <3>3
  <2>2. CASE month # 0
    <3> DEFINE k == month - 1
    <3>1. k \in Nat /\ k + 1 = month /\ k <= month
      BY <1>8, <2>2
    <3>2. prev = Bills!StartOfMonth(k) /\ prev \in Nat
      BY <1>8, <2>2, <3>1, MonthsInOrder DEF prev
    <3>3. start = Bills!StartOfMonth(k + 1)
      BY <3>1 DEF start
    <3> HIDE DEF k
    <3>4. \A y \in Int : y <= Bills!Min({start - 1, prev + dom}) <=> y <= start - 1 /\ y <= prev + dom
      <4>1. \A x, z \in Int : /\ Bills!Min({x, z}) \in {x, z}
                              /\ Bills!Min({x, z}) <= x /\ Bills!Min({x, z}) <= z
        <5> SUFFICES ASSUME NEW x \in Int, NEW z \in Int
                     PROVE  \E y \in {x, z} : \A w \in {x, z} : y <= w
          BY DEF Bills!Min
        <5>1. CASE x <= z
          BY <5>1
        <5>2. CASE ~(x <= z)
          BY <5>2
        <5>3. QED BY <5>1, <5>2
      <4> DEFINE x == start - 1
                 z == prev + dom
      <4>2. x \in Int /\ z \in Int
        BY <1>8, <3>2
      <4> HIDE DEF x, z
      <4>3. \A y \in Int : y <= Bills!Min({x, z}) <=> y <= x /\ y <= z
        <5> DEFINE w == Bills!Min({x, z})
        <5>1. w \in {x, z} /\ w <= x /\ w <= z
          BY <4>1, <4>2
        <5> HIDE DEF w
        <5>2. \A y \in Int : y <= w <=> y <= x /\ y <= z
          BY <4>2, <5>1
        <5>3. QED BY <5>2 DEF w
      <4>4. QED BY <4>3 DEF x, z
    <3>5. ASSUME NEW p \in P PROVE p \in A <=> p \in B
      <4>1. p.date \in Nat /\ (Bills!MonthOf(p.date) = k <=> prev <= p.date /\ p.date < start)
        BY <1>1, <3>1, <3>2, <3>3, MonthIs
      <4>2. Bills!MonthOf(p.date) = k => p.date = prev + Bills!DayOfMonth(p.date) /\ Bills!DayOfMonth(p.date) \in Nat
        BY <4>1, <3>2, DaysIn
      <4>3. p \in A <=> Bills!MonthOf(p.date) = k /\ Bills!DayOfMonth(p.date) <= dom
        BY DEF k
      <4>4. p \in B <=> prev <= p.date /\ p.date <= start - 1 /\ p.date <= prev + dom
        BY <3>2, <3>4, <4>1
      <4> HIDE DEF A, B
      <4>5. QED BY <1>8, <3>2, <4>1, <4>2, <4>3, <4>4
    <3>6. A = B
      BY <3>5
    <3>7. QED BY <1>2, <1>3, <3>6
  <2>3. QED BY <2>1, <2>2
<1>12. Bills!FeeOverview(o).year = Bills!PaymentsTab(c, 0, today).total
  <2> DEFINE X == 0..month
             G == [m \in X |-> In(m)]
             f == [m \in DOMAIN o.monthly |-> o.monthly[m].collected]
  <2>1. DOMAIN f = X /\ \A m \in X : f[m] = Bills!Collected(In(m))
    BY <1>2 DEF Bills!CollectedIn
  <2>2. IsFiniteSet(X)
    BY <1>8, FS_Interval
  <2>3. \A m \in X : G[m] = In(m) /\ In(m) \in SUBSET payments
    BY <1>1
  <2>4. UNION {G[m] : m \in X} = P /\ \A m, n \in X : m # n => G[m] \cap G[n] = {}
    <3>1. \A p \in P : Bills!MonthOf(p.date) \in X
      BY <1>7
    <3> HIDE DEF X
    <3>2. QED BY <3>1
  <2>5. P = {p \in P : 0 <= p.date /\ p.date <= today}
    BY <1>1
  <2>6. Bills!PaymentsTab(c, 0, today).total = Bills!Collected(P)
    BY <1>4, <2>5
  <2> HIDE DEF G, f, X, In
  <2>7. ASSUME NEW m \in X
        PROVE  f[m] = SumOf(MoneyIn, G[m]) /\ IsFiniteSet(G[m]) /\ \A p \in G[m] : MoneyIn[p] \in Nat
    BY <2>1, <2>3, CollectedIs
  <2>8. SumOf(f, X) = SumOf(MoneyIn, UNION {G[m] : m \in X})
    BY <2>2, <2>4, <2>7, SumParts
  <2>9. Bills!Sum(f) = SumOf(f, X)
    BY <2>1, <2>2, BillsSumOf
  <2>10. Bills!Collected(P) = SumOf(MoneyIn, P)
    BY <1>1, CollectedIs
  <2>11. QED BY <1>5, <2>4, <2>6, <2>8, <2>9, <2>10 DEF f
<1>13. Bills!StartOfMonth(Bills!MonthOf(today)) = start
  BY DEF start, month
<1>14. QED BY <1>6, <1>9, <1>10, <1>11, <1>12, <1>13 DEF Bills!MoneyAgreesOn, o, d

(* The payments of a student are those of their bills.                      *)
LEMMA HistoryIs ==
  ASSUME BillsInv, NEW s
  PROVE  /\ Bills!PaymentHistory(s) \in SUBSET payments
         /\ \A p \in payments : p \in Bills!PaymentHistory(s) <=> p.student = s
         /\ \A i \in invoices, p \in payments : p.no = i.no => p.student = i.student
         /\ \A p \in payments : \E i \in invoices : i.no = p.no /\ i.student = p.student
<1>1. \A p \in payments : \E i \in invoices : i.no = p.no /\ i.student = p.student
  BY DEF BillsInv
<1>2. \A i, j \in invoices : i.no = j.no => i = j
  BY DEF BillsInv
<1>3. \A i \in invoices, p \in payments : p.no = i.no => p.student = i.student
  BY <1>1, <1>2
<1>4. QED BY <1>1, <1>3 DEF Bills!PaymentHistory

(* The portal's own sums come to the office's.                              *)
LEMMA PortalIs == ASSUME BillsInv, NEW s PROVE Bills!PortalFees(s) = Bills!FeesOf(s)
<1> DEFINE history == Bills!PaymentHistory(s)
           own == {i \in invoices : i.student = s}
<1>1. Bills!PortalFees(s) = Bills!FeeSummary(s, own, history)
  BY DEF Bills!PortalFees
<1>2. Bills!FeesOf(s) = Bills!FeeSummary(s, invoices, payments)
  BY DEF Bills!FeesOf
<1>3. {j \in own : j.student = s} = own /\ {j \in invoices : j.student = s} = own
  OBVIOUS
<1>4. {q \in history : q.student = s} = history /\ {q \in payments : q.student = s} = history
  BY HistoryIs
<1>5. ASSUME NEW i \in own PROVE Bills!ViewInvoice(i, history) = Bills!ViewInvoice(i, payments)
  <2>1. {p \in history : p.no = i.no} = {p \in payments : p.no = i.no}
    BY HistoryIs
  <2>2. Bills!PaidBy(history, i) = Bills!PaidBy(payments, i)
    BY <2>1 DEF Bills!PaidBy
  <2>3. QED BY <2>2 DEF Bills!ViewInvoice
<1> HIDE DEF history, own
<1>6. {Bills!ViewInvoice(i, history) : i \in own} = {Bills!ViewInvoice(i, payments) : i \in own}
  BY <1>5
<1>7. Bills!FeeSummary(s, own, history) = Bills!FeeSummary(s, invoices, payments)
  BY <1>3, <1>4, <1>6 DEF Bills!FeeSummary
<1>8. QED BY <1>1, <1>2, <1>7

(* What a student paid, by bill and in all.                                 *)
LEMMA PaidInAll ==
  ASSUME BillsInv, NEW s
  PROVE  Bills!FeesOf(s).paid = Bills!Collected(Bills!PaymentHistory(s))
<1> DEFINE X == ViewsOf(s)
           H == Bills!PaymentHistory(s)
           G == [v \in X |-> {p \in payments : p.no = v.invoice.no}]
           f == [v \in X |-> v.paid]
<1>1. Bills!FeesOf(s).paid = Bills!Sum(f)
  BY FeesAre
<1>2. X \in SUBSET Views /\ IsFiniteSet(X) /\ \A v \in X : v.invoice \in invoices /\ v.invoice.student = s
  BY ViewsAre, FS_Subset DEF ViewsOf
<1>3. ASSUME NEW v \in X PROVE G[v] \in SUBSET payments /\ f[v] = Bills!Collected(G[v])
  BY <1>2, ViewsAre DEF Bills!PaidBy
<1>4. \A v, w \in X : v # w => G[v] \cap G[w] = {}
  <2>1. \A v, w \in X : v.invoice.no = w.invoice.no => v = w
    <3>1. \A v, w \in Views : v.invoice = w.invoice => v = w
      BY ViewsAre
    <3>2. \A i, j \in invoices : i.no = j.no => i = j
      BY DEF BillsInv
    <3>3. QED BY <1>2, <3>1, <3>2
  <2> HIDE DEF X
  <2>2. QED BY <2>1
<1>5. UNION {G[v] : v \in X} = H
  <2>1. ASSUME NEW p \in H PROVE \E v \in X : p \in G[v]
    <3>1. PICK i \in invoices : i.no = p.no /\ i.student = s /\ p \in payments
      BY HistoryIs
    <3> DEFINE v == Bills!ViewInvoice(i, payments)
    <3>2. v \in Views /\ v.invoice = i
      BY ViewsAre
    <3>3. v \in X
      BY <3>1, <3>2 DEF ViewsOf
    <3> HIDE DEF v, X
    <3>4. p \in G[v]
      BY <3>1, <3>2, <3>3
    <3>5. QED BY <3>3, <3>4
  <2>2. ASSUME NEW v \in X, NEW p \in G[v] PROVE p \in H
    BY <1>2, HistoryIs
  <2> HIDE DEF X, G, H
  <2>3. QED BY <2>1, <2>2
<1>6. DOMAIN f = X
  OBVIOUS
<1> HIDE DEF f, G, X, H
<1>7. ASSUME NEW v \in X
      PROVE  f[v] = SumOf(MoneyIn, G[v]) /\ IsFiniteSet(G[v]) /\ \A p \in G[v] : MoneyIn[p] \in Nat
  BY <1>3, CollectedIs
<1>8. SumOf(f, X) = SumOf(MoneyIn, UNION {G[v] : v \in X})
  BY <1>2, <1>4, <1>7, SumParts
<1>9. Bills!Sum(f) = SumOf(f, X)
  BY <1>2, <1>6, BillsSumOf
<1>10. H \in SUBSET payments
  BY HistoryIs DEF H
<1>11. Bills!Collected(H) = SumOf(MoneyIn, H)
  BY <1>10, CollectedIs
<1>12. QED BY <1>1, <1>5, <1>8, <1>9, <1>11 DEF H

(* The receipts of a day and a way to pay hold every payment once.          *)
LEMMA ReceiptsAre ==
  ASSUME BillsInv, NEW s
  PROVE  /\ UNION Bills!ReceiptGroups(s) = Bills!PaymentHistory(s)
         /\ Bills!Sum([g \in Bills!ReceiptGroups(s) |-> Bills!Collected(g)])
              = Bills!Collected(Bills!PaymentHistory(s))
<1> DEFINE H == Bills!PaymentHistory(s)
           X == Bills!ReceiptGroups(s)
           f == [g \in X |-> Bills!Collected(g)]
           G == [g \in X |-> g]
<1>1. X = {{p \in H : p.date = q.date /\ p.method = q.method} : q \in H}
  BY DEF Bills!ReceiptGroups
<1>2. H \in SUBSET payments
  BY HistoryIs
<1> HIDE DEF X, H
<1>3. UNION X = H /\ X \in SUBSET (SUBSET H)
  BY <1>1
<1>4. \A g, h \in X : g # h => g \cap h = {}
  <2> SUFFICES ASSUME NEW g \in X, NEW h \in X, NEW p \in g, p \in h PROVE g = h
    OBVIOUS
  <2>1. p \in H
    BY <1>3
  <2>2. g = {e \in H : e.date = p.date /\ e.method = p.method}
    BY <1>1
  <2>3. h = {e \in H : e.date = p.date /\ e.method = p.method}
    BY <1>1
  <2>4. QED BY <2>2, <2>3
<1>5. IsFiniteSet(X)
  <2>1. IsFiniteSet(H)
    BY <1>2, FS_Subset DEF BillsInv
  <2>2. IsFiniteSet(SUBSET H)
    BY <2>1, FS_SUBSET
  <2>3. QED BY <1>3, <2>2, FS_Subset
<1>6. ASSUME NEW g \in X
      PROVE  f[g] = SumOf(MoneyIn, G[g]) /\ IsFiniteSet(G[g]) /\ G[g] = g /\ \A p \in G[g] : MoneyIn[p] \in Nat
  <2>1. g \in SUBSET payments
    BY <1>2, <1>3
  <2>2. QED BY <2>1, CollectedIs
<1>7. UNION {G[g] : g \in X} = H /\ \A g, h \in X : g # h => G[g] \cap G[h] = {}
  BY <1>3, <1>4
<1>8. DOMAIN f = X
  OBVIOUS
<1> HIDE DEF f, G
<1>9. SumOf(f, X) = SumOf(MoneyIn, UNION {G[g] : g \in X})
  BY <1>5, <1>6, <1>7, SumParts
<1>10. Bills!Sum(f) = SumOf(f, X)
  BY <1>5, <1>8, BillsSumOf
<1>11. Bills!Collected(H) = SumOf(MoneyIn, H)
  BY <1>2, CollectedIs
<1>12. QED BY <1>3, <1>7, <1>9, <1>10, <1>11 DEF X, H, f

(* The bill the family is told of is as late as any.                        *)
LEMMA NextIs ==
  ASSUME BillsInv, NEW s
  PROVE  /\ Bills!FeesOf(s).outstanding > 0 <=> Bills!NextDue(s) # {}
         /\ Bills!FeesOf(s).status = "Overdue" <=> \E v \in Bills!NextDue(s) : v.status = "Overdue"
         /\ \A v \in Bills!NextDue(s) : v.late = Bills!MostLate(s)
<1> DEFINE U == {v \in ViewsOf(s) : v.balance > 0}
           next == Bills!NextDue(s)
<1>1. next = {v \in U : \A w \in U : v.invoice.due <= w.invoice.due}
  <2>1. Bills!PortalFees(s).invoices = ViewsOf(s)
    BY PortalIs, FeesAre
  <2>2. QED BY <2>1 DEF Bills!NextDue
<1>2. U \in SUBSET Views /\ IsFiniteSet(U)
  BY ViewsAre, FS_Subset DEF ViewsOf
<1>3. \A v \in U : /\ v.invoice.due \in Nat /\ v.balance > 0 /\ v.late \in Nat
                   /\ v.status = "Overdue" <=> today > v.invoice.due + GraceDays
                   /\ v.late = IF v.status = "Overdue" THEN today - (v.invoice.due + GraceDays) ELSE 0
  <2>1. \A v \in U : v.invoice \in BillRecord /\ v.balance > 0 /\ v.late \in Nat
    BY <1>2, ViewsAre
  <2>2. \A v \in U : v.invoice.due \in Nat
    BY <2>1 DEF BillRecord
  <2>3. \A v \in U : v.status = "Overdue" <=> v.balance > 0 /\ today > v.invoice.due + GraceDays
    BY <1>2, ViewsAre
  <2>4. \A v \in U : v.late = IF v.status = "Overdue" THEN today - (v.invoice.due + GraceDays) ELSE 0
    BY <1>2, ViewsAre
  <2> HIDE DEF U
  <2>5. QED BY <2>1, <2>2, <2>3, <2>4
<1>4. /\ Bills!FeesOf(s).outstanding > 0 <=> U # {}
      /\ Bills!FeesOf(s).status = "Overdue" <=> \E v \in U : v.status = "Overdue"
  <2>1. /\ Bills!FeesOf(s).overdue > 0 <=> \E v \in ViewsOf(s) : v.status = "Overdue"
        /\ Bills!FeesOf(s).status = IF Bills!FeesOf(s).overdue > 0 THEN "Overdue"
                                    ELSE IF Bills!FeesOf(s).pending > 0 THEN "Pending" ELSE "Paid"
        /\ Bills!FeesOf(s).outstanding > 0 <=> \E v \in ViewsOf(s) : v.balance > 0
    BY FeesAre
  <2>2. \A v \in ViewsOf(s) : v.status = "Overdue" => v.balance > 0
    BY ViewsAre DEF ViewsOf
  <2>3. QED BY <2>1, <2>2
<1>5. /\ \A v \in U : v.late <= Bills!MostLate(s)
      /\ Bills!MostLate(s) = 0 \/ \E v \in U : v.late = Bills!MostLate(s)
      /\ Bills!MostLate(s) \in Nat
  BY LatestIs
<1>6. today \in Nat /\ GraceDays \in Nat
  BY BillsGiven DEF BillsInv
<1> HIDE DEF U, next
<1>7. U # {} => next # {}
  <2> SUFFICES ASSUME U # {} PROVE next # {}
    OBVIOUS
  <2> DEFINE D == {0 - v.invoice.due : v \in U}
             h == [v \in U |-> 0 - v.invoice.due]
  <2>1. h \in Surjection(U, D)
    BY DEF Surjection
  <2>2. IsFiniteSet(D) /\ D # {}
    BY <1>2, <2>1, FS_Surjection
  <2>3. \A y \in D : y \in Int
    BY <1>3
  <2>4. \A v \in U : 0 - v.invoice.due \in D
    OBVIOUS
  <2>5. \A y \in D : \E v \in U : y = 0 - v.invoice.due
    OBVIOUS
  <2> HIDE DEF D
  <2>6. Bills!Max(D) \in D /\ \A y \in D : y <= Bills!Max(D)
    BY <2>2, <2>3, LargestIs
  <2>7. PICK v \in U : Bills!Max(D) = 0 - v.invoice.due
    BY <2>5, <2>6
  <2>8. \A w \in U : v.invoice.due <= w.invoice.due
    <3> SUFFICES ASSUME NEW w \in U PROVE v.invoice.due <= w.invoice.due
      OBVIOUS
    <3>1. 0 - w.invoice.due <= 0 - v.invoice.due
      BY <2>4, <2>6, <2>7
    <3>2. QED BY <1>3, <3>1
  <2>9. QED BY <1>1, <2>8
<1>8. \A v \in next, w \in U : v \in U /\ v.invoice.due <= w.invoice.due
  BY <1>1
<1>9. \A v \in next, w \in U : w.status = "Overdue" => v.status = "Overdue" /\ v.late >= w.late
  <2> SUFFICES ASSUME NEW v \in next, NEW w \in U, w.status = "Overdue"
               PROVE  v.status = "Overdue" /\ v.late >= w.late
    OBVIOUS
  <2>1. v \in U /\ v.invoice.due <= w.invoice.due
    BY <1>8
  <2>2. v.invoice.due \in Nat /\ w.invoice.due \in Nat /\ today > w.invoice.due + GraceDays
    BY <1>3, <2>1
  <2>3. v.status = "Overdue"
    BY <1>3, <1>6, <2>1, <2>2
  <2>4. v.late = today - (v.invoice.due + GraceDays) /\ w.late = today - (w.invoice.due + GraceDays)
    BY <1>3, <2>1, <2>3
  <2>5. QED BY <1>6, <2>1, <2>2, <2>3, <2>4
<1>10. ASSUME NEW v \in next PROVE v.late = Bills!MostLate(s)
  <2>1. v \in U /\ v.late \in Nat /\ v.late <= Bills!MostLate(s)
    BY <1>1, <1>3, <1>5
  <2>2. CASE Bills!MostLate(s) = 0
    BY <2>1, <2>2
  <2>3. CASE Bills!MostLate(s) # 0
    <3>1. PICK w \in U : w.late = Bills!MostLate(s)
      BY <1>5, <2>3
    <3>2. w.status = "Overdue"
      BY <1>3, <2>3, <3>1
    <3>3. v.late >= w.late
      BY <1>9, <3>2
    <3>4. QED BY <1>5, <2>1, <3>1, <3>3
  <2>4. QED BY <2>2, <2>3
<1>11. next \in SUBSET U
  BY <1>1
<1>12. (\E v \in U : v.status = "Overdue") <=> \E v \in next : v.status = "Overdue"
  BY <1>7, <1>9, <1>11
<1>13. Bills!FeesOf(s).outstanding > 0 <=> next # {}
  BY <1>4, <1>7, <1>11
<1>14. Bills!FeesOf(s).status = "Overdue" <=> \E v \in next : v.status = "Overdue"
  BY <1>4, <1>12
<1>15. QED BY <1>10, <1>13, <1>14 DEF next

(* The family sees what the office sees.                                    *)
LEMMA FamilyAlike == ASSUME BillsInv PROVE Bills!FamilyAgrees
<1> SUFFICES ASSUME NEW s \in Pupil
             PROVE  Bills!FamilySees(s, Bills!PortalFees(s), Bills!FeesTab(s), Bills!NextDue(s))
  BY DEF Bills!FamilyAgrees
<1> DEFINE f == Bills!FeesOf(s)
           tab == Bills!FeesTab(s)
           H == Bills!PaymentHistory(s)
<1>1. Bills!PortalFees(s) = f
  BY PortalIs
<1>2. /\ tab.pay = {v \in f.invoices : v.balance > 0} /\ tab.history = H
      /\ tab.received = Bills!Collected(H)
  BY DEF Bills!FeesTab
<1>3. \A v \in f.invoices : v.balance \in Nat /\ (v.status = "Paid" <=> v.balance = 0)
  <2>1. f.invoices = ViewsOf(s)
    BY FeesAre
  <2>2. \A v \in ViewsOf(s) : v.balance \in Nat /\ (v.status = "Paid" <=> v.balance = 0)
    BY ViewsAre DEF ViewsOf
  <2>3. QED BY <2>1, <2>2
<1>4. f.paid = Bills!Collected(H)
  BY PaidInAll
<1> HIDE DEF f, tab
<1>5. \A v \in f.invoices : v \in tab.pay <=> v.status # "Paid"
  BY <1>2, <1>3
<1>6. ASSUME NEW p \in H
      PROVE  Bills!ReceiptTotal({p.receipt}) = p.amount /\ Bills!BalanceOnReceipt(p) \in {-1, f.outstanding}
  <2>1. p \in payments /\ p.student = s
    BY HistoryIs
  <2>2. {q \in payments : q.receipt \in {p.receipt}} = {p}
    BY <2>1 DEF BillsInv
  <2>3. Bills!ReceiptTotal({p.receipt}) = Bills!Collected({p})
    BY <2>2 DEF Bills!ReceiptTotal
  <2> DEFINE one == {p}
  <2>4. one \in SUBSET payments /\ p \in one /\ one \ {p} = {}
    BY <2>1
  <2> HIDE DEF one
  <2>5. /\ Bills!Collected(one) = SumOf(MoneyIn, one) /\ IsFiniteSet(one)
        /\ \A q \in one : MoneyIn[q] = q.amount /\ MoneyIn[q] \in Nat
    BY <2>4, CollectedIs
  <2>6. SumOf(MoneyIn, one) = SumOf(MoneyIn, one \ {p}) + MoneyIn[p]
    BY <2>4, <2>5, SumWithout
  <2>7. SumOf(MoneyIn, {}) = 0
    BY SumEmpty
  <2>8. Bills!Collected(one) = p.amount
    BY <2>4, <2>5, <2>6, <2>7
  <2>9. Bills!BalanceOnReceipt(p) \in {-1, f.outstanding}
    BY <2>1 DEF Bills!BalanceOnReceipt, f
  <2>10. QED BY <2>3, <2>8, <2>9 DEF one
<1>7. /\ UNION Bills!ReceiptGroups(s) = tab.history /\ tab.received = f.paid
      /\ Bills!Sum([g \in Bills!ReceiptGroups(s) |-> Bills!Collected(g)]) = f.paid
  BY <1>2, <1>4, ReceiptsAre
<1>8. /\ f.outstanding > 0 <=> Bills!NextDue(s) # {}
      /\ f.status = "Overdue" <=> \E v \in Bills!NextDue(s) : v.status = "Overdue"
      /\ \A v \in Bills!NextDue(s) : v.late = Bills!MostLate(s)
  BY NextIs DEF f
<1>9. Bills!FamilySees(s, f, tab, Bills!NextDue(s))
  BY <1>5, <1>6, <1>7, <1>8 DEF Bills!FamilySees, f
<1>10. QED BY <1>1, <1>9 DEF tab

(* What issuing, waiving, paying and the passing of a day leave true.       *)
AllBills == BillsInv /\ Bills!TypeOK

(* Before the first bill. *)
LEMMA BillsStart == Bills!Init => AllBills
<1> SUFFICES ASSUME Bills!Init PROVE AllBills
  OBVIOUS
<1>1. invoices = {} /\ payments = {} /\ today = 0 /\ Cardinality({}) = 0 /\ IsFiniteSet({})
  BY FS_EmptySet DEF Bills!Init
<1>2. BillsInv
  BY <1>1 DEF BillsInv
<1>3. {i.no : i \in invoices} = {} /\ {p.receipt : p \in payments} = {}
  BY <1>1
<1>4. /\ Bills!Cardinality(invoices) = 0 /\ Bills!Cardinality(payments) = 0
      /\ 1..0 = {} /\ 0 \in 0..LastDate
  BY <1>1, BillsCount, BillsGiven
<1>5. Bills!TypeOK
  BY <1>1, <1>3, <1>4 DEF Bills!TypeOK
<1>6. QED BY <1>2, <1>5 DEF AllBills

(* The numbers go on from one to the next. *)
LEMMA OneMoreNumber ==
  ASSUME NEW S, IsFiniteSet(S), NEW x, x \notin S
  PROVE  /\ IsFiniteSet(S \cup {x}) /\ Cardinality(S \cup {x}) = Cardinality(S) + 1
         /\ 1..Cardinality(S \cup {x}) = (1..Cardinality(S)) \cup {Cardinality(S) + 1}
<1>1. /\ IsFiniteSet(S \cup {x}) /\ Cardinality(S \cup {x}) = Cardinality(S) + 1
      /\ Cardinality(S) \in Nat
  BY FS_AddElement, FS_CardinalityType
<1>2. \A k \in Nat : 1..(k + 1) = (1..k) \cup {k + 1}
  OBVIOUS
<1>3. QED BY <1>1, <1>2

(* A new bill has the next number, and keeps to its student. *)
LEMMA IssueKeeps ==
  ASSUME AllBills, NEW s \in Pupil, NEW b \in Course, Bills!IssueInvoice(s, b)
  PROVE  AllBills'
<1> DEFINE x == [no |-> Bills!Cardinality(invoices) + 1, student |-> s, batch |-> b,
                 period |-> Bills!MonthOf(today), due |-> today + DueInDays, amount |-> Amount, waived |-> FALSE]
<1>1. invoices' = invoices \cup {x} /\ payments' = payments /\ today' = today
  BY DEF Bills!IssueInvoice
<1>2. BillsInv /\ IsFiniteSet(invoices) /\ Cardinality(invoices) \in Nat /\ today \in Nat
  BY FS_CardinalityType DEF AllBills, BillsInv
<1>3. x \in BillRecord /\ x.no = Cardinality(invoices) + 1 /\ x.student = s /\ x.batch = b /\ x.due \in Nat
  <2>1. Bills!MonthOf(today) \in Int /\ today + DueInDays \in Nat /\ Amount \in Nat
    BY <1>2, DaysIn, BillsGiven
  <2>2. Bills!Cardinality(invoices) + 1 \in Nat
    BY <1>2, BillsCount
  <2>3. QED BY <2>1, <2>2, BillsCount DEF BillRecord
<1> HIDE DEF x
<1>4. (\A i \in invoices : i \in BillRecord /\ i.no <= Cardinality(invoices)) /\ \A i \in invoices : i.no \in Nat
  BY <1>2 DEF BillsInv, BillRecord
<1>5. x \notin invoices /\ \A i \in invoices : i.no # x.no
  BY <1>2, <1>3, <1>4
<1>6. {i.no : i \in invoices} = 1..Cardinality(invoices)
  BY BillsCount DEF AllBills, Bills!TypeOK
<1>7. {i.no : i \in invoices \cup {x}} = {i.no : i \in invoices} \cup {Cardinality(invoices) + 1}
  BY <1>3
<1>8. /\ IsFiniteSet(invoices \cup {x}) /\ Cardinality(invoices \cup {x}) = Cardinality(invoices) + 1
      /\ {i.no : i \in invoices \cup {x}} = 1..Cardinality(invoices \cup {x})
  <2>1. /\ IsFiniteSet(invoices \cup {x}) /\ Cardinality(invoices \cup {x}) = Cardinality(invoices) + 1
        /\ 1..Cardinality(invoices \cup {x}) = (1..Cardinality(invoices)) \cup {Cardinality(invoices) + 1}
    BY <1>2, <1>5, OneMoreNumber
  <2>2. QED BY <1>6, <1>7, <2>1
<1>9. BillsInv'
  <2>1. IsFiniteSet(invoices') /\ IsFiniteSet(payments') /\ today' \in Nat
    BY <1>1, <1>2, <1>8 DEF BillsInv
  <2>2. Cardinality(invoices') = Cardinality(invoices) + 1
    BY <1>1, <1>8
  <2>3. \A i \in invoices' : i \in BillRecord /\ i.no <= Cardinality(invoices')
    BY <1>1, <1>2, <1>3, <1>4, <2>2
  <2>4. \A i, j \in invoices' : i.no = j.no => i = j
    BY <1>1, <1>2, <1>5 DEF BillsInv
  <2>5. \A p \in payments' : /\ p \in PaymentRecord /\ p.receipt <= Cardinality(payments') /\ p.date <= today'
                             /\ \E i \in invoices' : i.no = p.no /\ i.student = p.student
    BY <1>1, <1>2 DEF BillsInv
  <2>6. \A p, q \in payments' : p.receipt = q.receipt => p = q
    BY <1>1, <1>2 DEF BillsInv
  <2>7. QED BY <2>1, <2>3, <2>4, <2>5, <2>6 DEF BillsInv
<1>10. Bills!TypeOK'
  <2>1. {i.no : i \in invoices'} = 1..Bills!Cardinality(invoices')
    BY <1>1, <1>8, BillsCount
  <2>2. \A i \in invoices' : i.student \in Pupil /\ i.batch \in Course /\ i.due \in Nat
    BY <1>1, <1>3 DEF AllBills, Bills!TypeOK
  <2>3. /\ {p.receipt : p \in payments'} = 1..Bills!Cardinality(payments') /\ today' \in 0..LastDate
        /\ \A p \in payments' : /\ p.amount \in 1..Amount /\ p.date \in 0..today'
                                /\ \E i \in invoices' : i.no = p.no /\ i.student = p.student
    BY <1>1 DEF AllBills, Bills!TypeOK
  <2>4. QED BY <2>1, <2>2, <2>3 DEF Bills!TypeOK
<1>11. QED BY <1>9, <1>10 DEF AllBills

(* A bill that is waived or reinstated keeps its number and student. *)
LEMMA WaiveKeeps ==
  ASSUME AllBills, NEW i \in invoices, Bills!WaiveInvoice(i)
  PROVE  AllBills'
<1> DEFINE x == [i EXCEPT !.waived = ~@]
<1>1. invoices' = (invoices \ {i}) \cup {x} /\ payments' = payments /\ today' = today
  BY DEF Bills!WaiveInvoice
<1>2. /\ BillsInv /\ IsFiniteSet(invoices) /\ Cardinality(invoices) \in Nat /\ i \in BillRecord
      /\ i.no <= Cardinality(invoices)
  BY FS_CardinalityType DEF AllBills, BillsInv
<1>3. x \in BillRecord /\ x.no = i.no /\ x.student = i.student /\ x.batch = i.batch /\ x.due = i.due
  BY <1>2 DEF BillRecord
<1> HIDE DEF x
<1>4. \A j \in invoices : j.no = i.no => j = i
  BY <1>2 DEF BillsInv
<1>5. IsFiniteSet(invoices') /\ Cardinality(invoices') = Cardinality(invoices)
  <2> DEFINE R == invoices \ {i}
  <2>1. IsFiniteSet(R) /\ Cardinality(R) = Cardinality(invoices) - 1
    BY <1>2, FS_RemoveElement
  <2>2. x \notin R
    BY <1>3, <1>4
  <2> HIDE DEF R
  <2>3. IsFiniteSet(R \cup {x}) /\ Cardinality(R \cup {x}) = Cardinality(R) + 1
    BY <2>1, <2>2, FS_AddElement
  <2>4. QED BY <1>1, <1>2, <2>1, <2>3 DEF R
<1>6. BillsInv'
  <2>1. IsFiniteSet(payments') /\ today' \in Nat
    BY <1>1, <1>2 DEF BillsInv
  <2>2. \A j \in invoices' : j \in BillRecord /\ j.no <= Cardinality(invoices')
    BY <1>1, <1>2, <1>3, <1>5 DEF BillsInv
  <2>3. \A j, k \in invoices' : j.no = k.no => j = k
    BY <1>1, <1>2, <1>3, <1>4 DEF BillsInv
  <2>4. \A p \in payments' : /\ p \in PaymentRecord /\ p.receipt <= Cardinality(payments') /\ p.date <= today'
    BY <1>1, <1>2 DEF BillsInv
  <2>5. ASSUME NEW p \in payments' PROVE \E j \in invoices' : j.no = p.no /\ j.student = p.student
    <3>1. PICK j \in invoices : j.no = p.no /\ j.student = p.student
      BY <1>1, <1>2 DEF BillsInv
    <3>2. CASE j = i
      BY <1>1, <1>3, <3>1, <3>2
    <3>3. CASE j # i
      BY <1>1, <3>1, <3>3
    <3>4. QED BY <3>2, <3>3
  <2>6. \A p, q \in payments' : p.receipt = q.receipt => p = q
    BY <1>1, <1>2 DEF BillsInv
  <2>7. QED BY <1>5, <2>1, <2>2, <2>3, <2>4, <2>5, <2>6 DEF BillsInv
<1>7. Bills!TypeOK'
  <2>1. {j.no : j \in invoices'} = {j.no : j \in invoices}
    BY <1>1, <1>3
  <2>2. {j.no : j \in invoices'} = 1..Bills!Cardinality(invoices')
    BY <1>5, <2>1, BillsCount DEF AllBills, Bills!TypeOK
  <2>3. \A j \in invoices' : j.student \in Pupil /\ j.batch \in Course /\ j.due \in Nat
    BY <1>1, <1>3 DEF AllBills, Bills!TypeOK
  <2>4. /\ {p.receipt : p \in payments'} = 1..Bills!Cardinality(payments') /\ today' \in 0..LastDate
        /\ \A p \in payments' : p.amount \in 1..Amount /\ p.date \in 0..today'
    BY <1>1 DEF AllBills, Bills!TypeOK
  <2>5. \A p \in payments' : \E j \in invoices' : j.no = p.no /\ j.student = p.student
    BY <1>6 DEF BillsInv
  <2>6. QED BY <2>2, <2>3, <2>4, <2>5 DEF Bills!TypeOK
<1>8. QED BY <1>6, <1>7 DEF AllBills

(* A payment has the next receipt, and is of a bill of its student. *)
LEMMA PayKeeps ==
  ASSUME AllBills, NEW i \in invoices, NEW amount \in 1..Amount, NEW method \in Method,
         Bills!RecordPayment(i, amount, method)
  PROVE  AllBills'
<1> DEFINE x == [receipt |-> Bills!Cardinality(payments) + 1, no |-> i.no, student |-> i.student,
                 amount |-> amount, date |-> today, method |-> method]
<1>1. payments' = payments \cup {x} /\ invoices' = invoices /\ today' = today
  BY DEF Bills!RecordPayment
<1>2. /\ BillsInv /\ IsFiniteSet(payments) /\ Cardinality(payments) \in Nat /\ today \in Nat
      /\ i \in BillRecord
  BY FS_CardinalityType DEF AllBills, BillsInv
<1>3. /\ x \in PaymentRecord /\ x.receipt = Cardinality(payments) + 1 /\ x.no = i.no /\ x.student = i.student
      /\ x.date = today /\ x.amount = amount /\ amount \in Nat
  <2>1. i.no \in Nat /\ i.student \in Pupil /\ amount \in Nat
    BY <1>2, BillsGiven DEF BillRecord
  <2>2. Bills!Cardinality(payments) + 1 \in Nat
    BY <1>2, BillsCount
  <2>3. QED BY <1>2, <2>1, <2>2, BillsCount DEF PaymentRecord
<1> HIDE DEF x
<1>4. (\A p \in payments : p \in PaymentRecord /\ p.receipt <= Cardinality(payments)) /\ \A p \in payments : p.receipt \in Nat
  BY <1>2 DEF BillsInv, PaymentRecord
<1>5. x \notin payments /\ \A p \in payments : p.receipt # x.receipt
  BY <1>2, <1>3, <1>4
<1>6. {p.receipt : p \in payments} = 1..Cardinality(payments)
  BY BillsCount DEF AllBills, Bills!TypeOK
<1>7. {p.receipt : p \in payments \cup {x}} = {p.receipt : p \in payments} \cup {Cardinality(payments) + 1}
  BY <1>3
<1>8. /\ IsFiniteSet(payments \cup {x}) /\ Cardinality(payments \cup {x}) = Cardinality(payments) + 1
      /\ {p.receipt : p \in payments \cup {x}} = 1..Cardinality(payments \cup {x})
  <2>1. /\ IsFiniteSet(payments \cup {x}) /\ Cardinality(payments \cup {x}) = Cardinality(payments) + 1
        /\ 1..Cardinality(payments \cup {x}) = (1..Cardinality(payments)) \cup {Cardinality(payments) + 1}
    BY <1>2, <1>5, OneMoreNumber
  <2>2. QED BY <1>6, <1>7, <2>1
<1>9. BillsInv'
  <2>1. IsFiniteSet(invoices') /\ IsFiniteSet(payments') /\ today' \in Nat
    BY <1>1, <1>2, <1>8 DEF BillsInv
  <2>2. Cardinality(payments') = Cardinality(payments) + 1
    BY <1>1, <1>8
  <2>3. /\ \A j \in invoices' : j \in BillRecord /\ j.no <= Cardinality(invoices')
        /\ \A j, k \in invoices' : j.no = k.no => j = k
    BY <1>1, <1>2 DEF BillsInv
  <2>4. \A p \in payments' : /\ p \in PaymentRecord /\ p.receipt <= Cardinality(payments') /\ p.date <= today'
    BY <1>1, <1>2, <1>3, <1>4, <2>2 DEF BillsInv
  <2>5. \A p \in payments' : \E j \in invoices' : j.no = p.no /\ j.student = p.student
    BY <1>1, <1>2, <1>3 DEF BillsInv
  <2>6. \A p, q \in payments' : p.receipt = q.receipt => p = q
    BY <1>1, <1>2, <1>5 DEF BillsInv
  <2>7. QED BY <2>1, <2>3, <2>4, <2>5, <2>6 DEF BillsInv
<1>10. Bills!TypeOK'
  <2>1. {p.receipt : p \in payments'} = 1..Bills!Cardinality(payments')
    BY <1>1, <1>8, BillsCount
  <2>2. /\ {j.no : j \in invoices'} = 1..Bills!Cardinality(invoices') /\ today' \in 0..LastDate
        /\ \A j \in invoices' : j.student \in Pupil /\ j.batch \in Course /\ j.due \in Nat
    BY <1>1 DEF AllBills, Bills!TypeOK
  <2>3. today \in 0..today
    BY <1>2
  <2>4. \A p \in payments' : p.amount \in 1..Amount /\ p.date \in 0..today'
    BY <1>1, <1>3, <2>3 DEF AllBills, Bills!TypeOK
  <2>5. \A p \in payments' : \E j \in invoices' : j.no = p.no /\ j.student = p.student
    BY <1>9 DEF BillsInv
  <2>6. QED BY <2>1, <2>2, <2>4, <2>5 DEF Bills!TypeOK
<1>11. QED BY <1>9, <1>10 DEF AllBills

(* Nothing that happened moves into the future. *)
LEMMA DayKeeps == ASSUME AllBills, Bills!DayPasses PROVE AllBills'
<1>1. invoices' = invoices /\ payments' = payments /\ today' = today + 1 /\ today < LastDate
  BY DEF Bills!DayPasses
<1>2. today \in Nat /\ today' \in Nat /\ today' \in 0..LastDate /\ today <= today'
  BY <1>1, BillsGiven DEF AllBills, BillsInv
<1>3. BillsInv'
  <2>1. \A p \in payments' : p \in PaymentRecord /\ p.receipt <= Cardinality(payments') /\ p.date <= today
    BY <1>1 DEF AllBills, BillsInv
  <2>2. \A p \in payments' : p.date \in Nat
    BY <2>1 DEF PaymentRecord
  <2>3. \A p \in payments' : p.date <= today'
    BY <1>2, <2>1, <2>2
  <2>4. QED BY <1>1, <1>2, <2>1, <2>3 DEF AllBills, BillsInv
<1>4. Bills!TypeOK'
  <2>1. \A p \in payments' : p.date \in 0..today
    BY <1>1 DEF AllBills, Bills!TypeOK
  <2>2. \A p \in payments' : p.date \in 0..today'
    BY <1>2, <2>1
  <2>3. QED BY <1>1, <1>2, <2>2 DEF AllBills, Bills!TypeOK
<1>5. QED BY <1>3, <1>4 DEF AllBills

(* So does every step. *)
LEMMA BillsStep == AllBills /\ [Bills!Next]_(Bills!vars) => AllBills'
<1> SUFFICES ASSUME AllBills, [Bills!Next]_(Bills!vars) PROVE AllBills'
  OBVIOUS
<1>1. CASE Bills!DayPasses
  BY <1>1, DayKeeps
<1>2. CASE \E s \in Pupil, b \in Course : Bills!IssueInvoice(s, b)
  BY <1>2, IssueKeeps
<1>3. CASE \E i \in invoices : Bills!WaiveInvoice(i)
  BY <1>3, WaiveKeeps
<1>4. CASE \E i \in invoices : \E amount \in 1..Amount, method \in Method : Bills!RecordPayment(i, amount, method)
  BY <1>4, PayKeeps
<1>5. CASE UNCHANGED Bills!vars
  BY <1>5 DEF Bills!vars, AllBills, BillsInv, Bills!TypeOK
<1>6. QED BY <1>1, <1>2, <1>3, <1>4, <1>5 DEF Bills!Next

(* Bills and payments are typed, and numbered from one.                     *)
THEOREM BillsNumbered == Bills!Spec => []Bills!TypeOK
<1>1. AllBills => Bills!TypeOK
  BY DEF AllBills
<1>2. QED BY BillsStart, BillsStep, <1>1, PTL DEF Bills!Spec

(* What is due and what was received is the same on every screen, for any   *)
(* students, batches, campuses, calendar and amount.                        *)
THEOREM FeeFiguresAgree == Bills!Spec => []FeesAgree
<1>1. AllBills => FeesAgree
  BY DuesAlike, FiltersAlike, MoneyAlike, FamilyAlike DEF AllBills, FeesAgree, Bills!FeesAgree
<1>2. QED BY BillsStart, BillsStep, <1>1, PTL DEF Bills!Spec

-----------------------------------------------------------------------------
(* The screens of results.                                                  *)

(* The same members under other names are as many. *)
LEMMA CountRenamed ==
  ASSUME NEW X, IsFiniteSet(X), NEW n, \A x, y \in X : n[x] = n[y] => x = y
  PROVE  IsFiniteSet({n[x] : x \in X}) /\ Cardinality({n[x] : x \in X}) = Cardinality(X)
<1> DEFINE h == [x \in X |-> n[x]]
           Y == {n[x] : x \in X}
<1>1. h \in Surjection(X, Y) /\ h \in Injection(X, Y)
  BY DEF Surjection, Injection, IsInjective
<1> HIDE DEF h, Y
<1>2. IsFiniteSet(Y) /\ Cardinality(Y) = Cardinality(X)
  BY <1>1, FS_Surjection
<1>3. QED BY <1>2 DEF Y

(* A test has a number, and of each student on its roll a score or none. *)
PapersInv ==
  /\ IsFiniteSet(papers)
  /\ \A a \in papers : /\ a.id \in Nat /\ a.id <= Cardinality(papers)
                       /\ a.batch \in Course /\ a.date \in TestDay /\ a.max \in Nat \ {0}
                       /\ DOMAIN a.scores \subseteq Pupil
                       /\ \A s \in DOMAIN a.scores : a.scores[s] \in Int /\ -1 <= a.scores[s] /\ a.scores[s] <= a.max
  /\ \A a, b \in papers : a.id = b.id => a = b
  /\ DOMAIN pupils \subseteq Pupil
  /\ \A s \in DOMAIN pupils : pupils[s].batches \subseteq Course

(* The count and the folds of these screens are those of the theorems. *)
LEMMA TestsCount == \A S : Tests!Cardinality(S) = Cardinality(S)
  BY DEF Tests!Cardinality, Cardinality

(* Each fold is the sum of the theorems. *)
LEMMA TestsSum ==
  ASSUME NEW f, IsFiniteSet(DOMAIN f)
  PROVE  Tests!Sum(f) = SumOf(f, DOMAIN f)
<1> DEFINE P == DOMAIN f
           Eqn(g) == g = [s \in SUBSET P |-> IF s = {} THEN 0 ELSE f[Pick(s)] + g[s \ {Pick(s)}]]
<1>1. Tests!Sum(f) = Tests!MapThenSumSet(LAMBDA x : f[x], P)
  BY DEF Tests!Sum
<1>2. Tests!MapThenSumSet(LAMBDA x : f[x], P) = (CHOOSE g : Eqn(g))[P]
  BY DEF Tests!MapThenSumSet, Tests!MapThenFoldSet, Pick
<1>3. ASSUME NEW g PROVE Eqn(g) <=> AddsUp(f, P, g)
  BY DEF AddsUp
<1> HIDE DEF Eqn
<1>4. \E g : AddsUp(f, P, g)
  BY AddsUpExists
<1>5. AddsUp(f, P, CHOOSE g : Eqn(g))
  BY <1>3, <1>4
<1>6. AddsUp(f, P, CHOOSE g : AddsUp(f, P, g))
  BY <1>4
<1>7. P \in SUBSET (P \cap P)
  OBVIOUS
<1>8. (CHOOSE g : Eqn(g))[P] = (CHOOSE g : AddsUp(f, P, g))[P]
  BY <1>5, <1>6, <1>7, AddsUpUnique
<1>9. QED BY <1>1, <1>2, <1>8 DEF SumOf

(* The sum of a function that agrees with another on the set. *)
LEMMA TestsSumOf ==
  ASSUME NEW S, IsFiniteSet(S), NEW f, DOMAIN f = S, NEW g, \A x \in S : f[x] = g[x]
  PROVE  Tests!Sum(f) = SumOf(g, S)
<1>1. Tests!Sum(f) = SumOf(f, S)
  BY TestsSum
<1>2. SumOf(f, S) = SumOf(g, S)
  BY SumSame
<1>3. QED BY <1>1, <1>2

(* Who sat a test, and their marks in percent. *)
LEMMA SatIs ==
  ASSUME PapersInv, NEW a \in papers
  PROVE  /\ IsFiniteSet(DOMAIN a.scores) /\ IsFiniteSet(Tests!Sat(a))
         /\ Tests!Sat(a) \subseteq DOMAIN a.scores /\ Tests!Sat(a) \subseteq Pupil
         /\ \A s \in Tests!Sat(a) : a.scores[s] \in Nat /\ Tests!Percent(a, s) \in Nat
<1>1. DOMAIN a.scores \in SUBSET Pupil /\ Tests!Sat(a) \in SUBSET (DOMAIN a.scores)
  BY DEF PapersInv, Tests!Sat
<1>2. IsFiniteSet(DOMAIN a.scores)
  BY <1>1, SchoolGiven, FS_Subset
<1>3. IsFiniteSet(Tests!Sat(a))
  BY <1>1, <1>2, FS_Subset
<1>4. ASSUME NEW s \in Tests!Sat(a) PROVE a.scores[s] \in Nat /\ Tests!Percent(a, s) \in Nat
  <2>1. a.scores[s] \in Int /\ -1 <= a.scores[s] /\ a.scores[s] # -1 /\ a.max \in Nat /\ a.max > 0
    BY DEF PapersInv, Tests!Sat, Tests!Absent
  <2>2. 100 * a.scores[s] \in Nat /\ a.scores[s] \in Nat
    BY <2>1
  <2>3. (100 * a.scores[s]) \div a.max \in Nat
    BY <2>1, <2>2, DivMod
  <2>4. QED BY <2>2, <2>3 DEF Tests!Percent
<1>5. QED BY <1>1, <1>2, <1>3, <1>4

(* Every script, and its marks. *)
Scripts == Tests!Scripts(papers)
MarkOf == [x \in Scripts |-> Tests!Percent(x[1], x[2])]

(* A script is a test and one who sat it. *)
LEMMA ScriptsAre ==
  ASSUME PapersInv
  PROVE  /\ IsFiniteSet(Scripts)
         /\ \A x \in Scripts : /\ x = <<x[1], x[2]>> /\ x[1] \in papers /\ x[2] \in Tests!Sat(x[1])
                               /\ MarkOf[x] = Tests!Percent(x[1], x[2]) /\ MarkOf[x] \in Nat
         /\ \A a \in papers : \A s : <<a, s>> \in Scripts <=> s \in Tests!Sat(a)
         /\ \A tests \in SUBSET papers : Tests!Scripts(tests) = {x \in Scripts : x[1] \in tests}
<1> DEFINE G == [a \in papers |-> {<<a, s>> : s \in Tests!Sat(a)}]
<1>1. Scripts = UNION {G[a] : a \in papers}
  BY DEF Scripts, Tests!Scripts
<1>2. ASSUME NEW a \in papers PROVE IsFiniteSet(G[a])
  <2> DEFINE S == Tests!Sat(a)
             n == [s \in S |-> <<a, s>>]
  <2>1. IsFiniteSet(S) /\ \A x, y \in S : n[x] = n[y] => x = y
    BY SatIs
  <2>2. G[a] = {n[s] : s \in S}
    OBVIOUS
  <2> HIDE DEF S, n
  <2>3. QED BY <2>1, <2>2, CountRenamed
<1>3. IsFiniteSet(papers)
  BY DEF PapersInv
<1>4. ASSUME NEW x \in Scripts
      PROVE  x = <<x[1], x[2]>> /\ x[1] \in papers /\ x[2] \in Tests!Sat(x[1])
  BY <1>1
<1>5. \A x \in Scripts : MarkOf[x] = Tests!Percent(x[1], x[2]) /\ MarkOf[x] \in Nat
  BY <1>4, SatIs DEF MarkOf
<1>6. \A a \in papers : \A s : <<a, s>> \in Scripts <=> s \in Tests!Sat(a)
  BY <1>1
<1>7. ASSUME NEW tests \in SUBSET papers
      PROVE  Tests!Scripts(tests) = {x \in Scripts : x[1] \in tests}
  BY DEF Scripts, Tests!Scripts
<1> HIDE DEF G
<1>8. IsFiniteSet(Scripts)
  BY <1>1, <1>2, <1>3, WholeFinite
<1>9. QED BY <1>4, <1>5, <1>6, <1>7, <1>8

(* What some scripts come to. *)
LEMMA TallyIs ==
  ASSUME PapersInv, NEW T \in SUBSET Scripts
  PROVE  /\ IsFiniteSet(T) /\ \A x \in T : MarkOf[x] \in Nat
         /\ Tests!Tally(T) = [sum |-> SumOf(MarkOf, T), n |-> Cardinality(T)]
         /\ SumOf(MarkOf, T) \in Nat /\ Cardinality(T) \in Nat
<1>1. IsFiniteSet(T) /\ \A x \in T : MarkOf[x] \in Nat /\ MarkOf[x] = Tests!Percent(x[1], x[2])
  BY ScriptsAre, FS_Subset
<1> DEFINE f == [x \in T |-> Tests!Percent(x[1], x[2])]
<1>2. Tests!Tally(T) = [sum |-> Tests!Sum(f), n |-> Tests!Cardinality(T)]
  BY DEF Tests!Tally
<1>3. DOMAIN f = T /\ \A x \in T : f[x] = MarkOf[x]
  BY <1>1
<1> HIDE DEF f
<1>4. Tests!Sum(f) = SumOf(MarkOf, T)
  BY <1>1, <1>3, TestsSumOf
<1>5. SumOf(MarkOf, T) \in Nat /\ Cardinality(T) \in Nat
  BY <1>1, SumNat, FS_CardinalityType
<1>6. QED BY <1>1, <1>2, <1>4, <1>5, TestsCount

(* The figures of one test are those of its scripts. *)
LEMMA StatsAre ==
  ASSUME PapersInv, NEW a \in papers
  PROVE  LET T == {x \in Scripts : x[1] = a}
         IN  /\ Tests!Stats(a).sum = SumOf(MarkOf, T) /\ Tests!Stats(a).appeared = Cardinality(T)
             /\ Tests!Stats(a).passed = Cardinality({x \in T : x[2] \in Tests!Passed(a)})
             /\ Tests!Stats(a).appeared + Tests!Stats(a).absent = Cardinality(DOMAIN a.scores)
             /\ Tests!Stats(a).appeared \in Nat /\ Tests!Stats(a).sum \in Nat
             /\ Tests!Stats(a).appeared = 0 <=> Tests!Sat(a) = {}
<1> DEFINE S == Tests!Sat(a)
           P == Tests!Passed(a)
           n == [s \in S |-> <<a, s>>]
           g == [s \in S |-> Tests!Percent(a, s)]
           T == {x \in Scripts : x[1] = a}
           U == {x \in T : x[2] \in P}
<1>1. /\ IsFiniteSet(S) /\ P \in SUBSET S /\ S \in SUBSET (DOMAIN a.scores) /\ IsFiniteSet(DOMAIN a.scores)
      /\ \A x, y \in S : n[x] = n[y] => x = y
      /\ \A s \in S : g[s] \in Nat
  BY SatIs DEF Tests!Passed
<1>2. T = {n[s] : s \in S} /\ U = {n[s] : s \in P} /\ T \in SUBSET Scripts
  <2>1. \A s : <<a, s>> \in Scripts <=> s \in S
    BY ScriptsAre
  <2>2. \A x \in T : x = <<a, x[2]>> /\ x[2] \in S
    BY ScriptsAre
  <2>3. \A s \in S : n[s] = <<a, s>> /\ n[s] \in T
    BY <2>1
  <2>4. T = {n[s] : s \in S}
    BY <2>2, <2>3
  <2>5. U = {n[s] : s \in P}
    <3>1. \A s \in P : s \in S /\ n[s][2] = s
      BY <1>1, <2>3
    <3> HIDE DEF n, T, S, P
    <3>2. \A x \in U : x[2] \in P /\ x = n[x[2]]
      BY <1>1, <2>2, <2>3
    <3>3. \A s \in P : n[s] \in U
      BY <2>3, <3>1
    <3> HIDE DEF U
    <3>4. QED BY <3>2, <3>3
  <2>6. QED BY <2>4, <2>5
<1>3. \A s \in S : g[s] = MarkOf[n[s]]
  <2>1. \A s \in S : n[s] \in Scripts /\ n[s][1] = a /\ n[s][2] = s
    BY ScriptsAre
  <2>2. QED BY <2>1, ScriptsAre
<1>4. /\ Tests!Stats(a).sum = Tests!Sum(g) /\ Tests!Stats(a).appeared = Cardinality(S)
      /\ Tests!Stats(a).passed = Cardinality(P)
      /\ Tests!Stats(a).absent = Cardinality(DOMAIN a.scores \ S)
  BY TestsCount DEF Tests!Stats
<1>5. DOMAIN g = S
  OBVIOUS
<1> HIDE DEF S, P, n, g, T, U
<1>6. Tests!Sum(g) = SumOf(g, S)
  BY <1>1, <1>5, TestsSum
<1>7. SumOf(g, S) = SumOf(MarkOf, T)
  BY <1>1, <1>2, <1>3, SumRenamed
<1>8. Cardinality(T) = Cardinality(S) /\ Cardinality(U) = Cardinality(P)
  <2>1. IsFiniteSet(P) /\ \A x, y \in P : n[x] = n[y] => x = y
    BY <1>1, FS_Subset
  <2>2. QED BY <1>1, <1>2, <2>1, CountRenamed
<1>9. Cardinality(S) + Cardinality(DOMAIN a.scores \ S) = Cardinality(DOMAIN a.scores)
  <2> DEFINE R == DOMAIN a.scores \ S
  <2>1. IsFiniteSet(R) /\ S \cap R = {} /\ S \cup R = DOMAIN a.scores
    BY <1>1, FS_Subset
  <2> HIDE DEF R
  <2>2. Cardinality(S \cup R) = Cardinality(S) + Cardinality(R)
    BY <1>1, <2>1, TwoParts
  <2>3. QED BY <2>1, <2>2 DEF R
<1>10. SumOf(g, S) \in Nat /\ Cardinality(S) \in Nat /\ (Cardinality(S) = 0 <=> S = {})
  BY <1>1, SumNat, FS_CardinalityType, FS_EmptySet
<1>11. QED BY <1>4, <1>6, <1>7, <1>8, <1>9, <1>10 DEF T, U, P, S

(* Scripts under any heading add up to what they come to together. *)
LEMMA HeadingsAddUp ==
  ASSUME PapersInv, NEW W \in SUBSET Scripts, NEW c, NEW X, IsFiniteSet(X), \A x \in W : c[x] \in X,
         NEW G, \A k \in X : \A x : x \in G[k] <=> x \in W /\ c[x] = k,
         NEW f, \A k \in X : f[k] = SumOf(MarkOf, G[k]),
         NEW h, \A k \in X : h[k] = Cardinality(G[k])
  PROVE  SumOf(f, X) = SumOf(MarkOf, W) /\ SumOf(h, X) = Cardinality(W)
<1>1. /\ \A k \in X : G[k] \in SUBSET W /\ IsFiniteSet(G[k])
      /\ \A k \in X : \A x \in G[k] : MarkOf[x] \in Nat
  <2>1. IsFiniteSet(W) /\ \A x \in W : MarkOf[x] \in Nat
    BY TallyIs
  <2>2. \A k \in X : G[k] \in SUBSET W
    OBVIOUS
  <2>3. QED BY <2>1, <2>2, FS_Subset
<1>2. \A j, k \in X : j # k => G[j] \cap G[k] = {}
  OBVIOUS
<1>3. UNION {G[k] : k \in X} = W
  BY <1>1
<1>4. SumOf(f, X) = SumOf(MarkOf, UNION {G[k] : k \in X})
  BY <1>1, <1>2, SumParts
<1>5. SumOf(h, X) = Cardinality(UNION {G[k] : k \in X})
  BY <1>1, <1>2, PartsCount
<1>6. QED BY <1>3, <1>4, <1>5

(* Finitely many things have finitely many headings. *)
LEMMA HeadingsFinite ==
  ASSUME NEW S, IsFiniteSet(S), NEW c
  PROVE  IsFiniteSet({c[x] : x \in S})
<1> DEFINE h == [x \in S |-> c[x]]
           X == {c[x] : x \in S}
<1>1. h \in Surjection(S, X)
  BY DEF Surjection
<1> HIDE DEF h, X
<1>2. IsFiniteSet(X)
  BY <1>1, FS_Surjection
<1>3. QED BY <1>2 DEF X

(* The letters of the report. *)
Grades == {"A+", "A", "B", "C", "D", "E"}

(* Whoever has sat a test has one grade; the two lowest are below the lines *)
(* that the report counts.                                                  *)
LEMMA GradeIs ==
  ASSUME NEW avg, avg.sum \in Nat, avg.n \in Nat
  PROVE  /\ Tests!GradeBand(avg) \in Grades
         /\ Tests!GradeBand(avg) = "E" <=> ~Tests!AtLeast(avg, Tests!PassMark)
         /\ Tests!GradeBand(avg) \in {"D", "E"} <=> ~Tests!AtLeast(avg, Tests!AtRiskBelow)
<1> DEFINE S == {k \in 1..6 : Tests!AtLeast(avg, Tests!Bands[k].from)}
           m == Tests!Min(S)
<1>1. /\ Tests!Bands[1].from = 90 /\ Tests!Bands[2].from = 75 /\ Tests!Bands[3].from = 60
      /\ Tests!Bands[4].from = 50 /\ Tests!Bands[5].from = 40 /\ Tests!Bands[6].from = 0
  BY DEF Tests!Bands, Tests!PassMark
<1>2. /\ Tests!Bands[1].name = "A+" /\ Tests!Bands[2].name = "A" /\ Tests!Bands[3].name = "B"
      /\ Tests!Bands[4].name = "C" /\ Tests!Bands[5].name = "D" /\ Tests!Bands[6].name = "E"
  BY DEF Tests!Bands
<1>3. /\ 1 \in S <=> avg.sum >= 90 * avg.n
      /\ 2 \in S <=> avg.sum >= 75 * avg.n
      /\ 3 \in S <=> avg.sum >= 60 * avg.n
      /\ 4 \in S <=> avg.sum >= 50 * avg.n
      /\ 5 \in S <=> avg.sum >= 40 * avg.n
      /\ 6 \in S <=> avg.sum >= 0 * avg.n
  BY <1>1 DEF Tests!AtLeast
<1>4. \A k : k \in S => k \in 1..6
  OBVIOUS
<1>5. Tests!GradeBand(avg) = Tests!Bands[m].name
  BY DEF Tests!GradeBand
<1>6. m = CHOOSE x \in S : \A y \in S : x <= y
  BY DEF Tests!Min
<1> HIDE DEF S, m
<1>7. 6 \in S
  BY <1>3
<1>8. \E x \in S : \A y \in S : x <= y
  <2>1. CASE 1 \in S BY <1>4, <2>1
  <2>2. CASE 1 \notin S /\ 2 \in S BY <1>4, <2>2
  <2>3. CASE 1 \notin S /\ 2 \notin S /\ 3 \in S BY <1>4, <2>3
  <2>4. CASE 1 \notin S /\ 2 \notin S /\ 3 \notin S /\ 4 \in S BY <1>4, <2>4
  <2>5. CASE 1 \notin S /\ 2 \notin S /\ 3 \notin S /\ 4 \notin S /\ 5 \in S BY <1>4, <2>5
  <2>6. CASE 1 \notin S /\ 2 \notin S /\ 3 \notin S /\ 4 \notin S /\ 5 \notin S BY <1>4, <1>7, <2>6
  <2>7. QED BY <2>1, <2>2, <2>3, <2>4, <2>5, <2>6
<1>9. m \in S /\ \A y \in S : m <= y
  BY <1>6, <1>8
<1>10. m \in 1..6
  BY <1>4, <1>9
<1>11. m > 5 <=> ~(avg.sum >= 40 * avg.n)
  <2>1. avg.sum >= 40 * avg.n => m <= 5
    BY <1>3, <1>9
  <2>2. ASSUME ~(avg.sum >= 40 * avg.n) PROVE m > 5
    <3>1. 1 \notin S /\ 2 \notin S /\ 3 \notin S /\ 4 \notin S /\ 5 \notin S
      BY <1>3, <2>2
    <3>2. QED BY <1>9, <1>10, <3>1
  <2>3. QED BY <1>10, <2>1, <2>2
<1>12. m > 4 <=> ~(avg.sum >= 50 * avg.n)
  <2>1. avg.sum >= 50 * avg.n => m <= 4
    BY <1>3, <1>9
  <2>2. ASSUME ~(avg.sum >= 50 * avg.n) PROVE m > 4
    <3>1. 1 \notin S /\ 2 \notin S /\ 3 \notin S /\ 4 \notin S
      BY <1>3, <2>2
    <3>2. QED BY <1>9, <1>10, <3>1
  <2>3. QED BY <1>10, <2>1, <2>2
<1>13. m = 1 \/ m = 2 \/ m = 3 \/ m = 4 \/ m = 5 \/ m = 6
  BY <1>10
<1> DEFINE grade == Tests!GradeBand(avg)
<1>14. /\ m = 1 => grade = "A+"
       /\ m = 2 => grade = "A"
       /\ m = 3 => grade = "B"
       /\ m = 4 => grade = "C"
       /\ m = 5 => grade = "D"
       /\ m = 6 => grade = "E"
  BY <1>2, <1>5
<1> HIDE DEF grade
<1>15. grade \in Grades /\ (grade = "E" <=> m > 5) /\ (grade \in {"D", "E"} <=> m > 4)
  BY <1>13, <1>14 DEF Grades
<1>16. QED BY <1>11, <1>12, <1>15 DEF grade, Tests!AtLeast, Tests!PassMark, Tests!AtRiskBelow

(* The index of some tests, for each who sat one. *)
LEMMA IndexIs ==
  ASSUME PapersInv, NEW tests \in SUBSET papers
  PROVE  LET W == Tests!Scripts(tests)
             index == Tests!ScoreIndex(tests)
         IN  /\ W \in SUBSET Scripts /\ IsFiniteSet(W)
             /\ DOMAIN index = {x[2] : x \in W} /\ IsFiniteSet(DOMAIN index)
             /\ \A s \in DOMAIN index :
                  /\ index[s] = Tests!Tally({x \in W : x[2] = s})
                  /\ index[s].sum = SumOf(MarkOf, {x \in W : x[2] = s}) /\ index[s].sum \in Nat
                  /\ index[s].n = Cardinality({x \in W : x[2] = s}) /\ index[s].n \in Nat
<1> DEFINE W == Tests!Scripts(tests)
           index == Tests!ScoreIndex(tests)
           c == [x \in W |-> x[2]]
<1>1. W \in SUBSET Scripts
  BY ScriptsAre
<1>2. IsFiniteSet(W)
  BY <1>1, TallyIs
<1>3. /\ DOMAIN index = {x[2] : x \in W}
      /\ \A s \in DOMAIN index : index[s] = Tests!Tally({x \in W : x[2] = s})
  BY DEF Tests!ScoreIndex, Tests!OfEach
<1>4. {x[2] : x \in W} = {c[x] : x \in W}
  OBVIOUS
<1> HIDE DEF W, index, c
<1>5. IsFiniteSet(DOMAIN index)
  <2>1. IsFiniteSet({c[x] : x \in W})
    BY <1>2, HeadingsFinite
  <2>2. QED BY <1>3, <1>4, <2>1
<1>6. ASSUME NEW s \in DOMAIN index
      PROVE  /\ index[s] = Tests!Tally({x \in W : x[2] = s})
             /\ index[s].sum = SumOf(MarkOf, {x \in W : x[2] = s}) /\ index[s].sum \in Nat
             /\ index[s].n = Cardinality({x \in W : x[2] = s}) /\ index[s].n \in Nat
  <2> DEFINE T == {x \in W : x[2] = s}
  <2>1. T \in SUBSET Scripts /\ index[s] = Tests!Tally(T)
    BY <1>1, <1>3
  <2> HIDE DEF T
  <2>2. /\ Tests!Tally(T) = [sum |-> SumOf(MarkOf, T), n |-> Cardinality(T)]
        /\ SumOf(MarkOf, T) \in Nat /\ Cardinality(T) \in Nat
    BY <2>1, TallyIs
  <2>3. /\ index[s].sum = SumOf(MarkOf, T) /\ index[s].sum \in Nat
        /\ index[s].n = Cardinality(T) /\ index[s].n \in Nat
    BY <2>1, <2>2
  <2>4. QED BY <2>1, <2>3 DEF T
<1>7. QED BY <1>1, <1>2, <1>3, <1>5, <1>6 DEF W, index

(* Each student of the report has one grade. *)
LEMMA GradesSplit ==
  ASSUME PapersInv, NEW tests \in SUBSET papers
  PROVE  LET rows == Tests!StudentRows(tests)
             grades == Tests!GradeCounts(tests)
         IN  /\ Tests!Sum(grades) = Cardinality(DOMAIN rows)
             /\ grades["E"] = Cardinality({s \in DOMAIN rows : ~Tests!AtLeast(rows[s], Tests!PassMark)})
             /\ grades["D"] + grades["E"]
                  = Cardinality({s \in DOMAIN rows : ~Tests!AtLeast(rows[s], Tests!AtRiskBelow)})
<1> DEFINE rows == Tests!StudentRows(tests)
           index == Tests!ScoreIndex(tests)
           grades == Tests!GradeCounts(tests)
           D == DOMAIN rows
           G == [g \in Grades |-> {s \in D : Tests!GradeBand(rows[s]) = g}]
<1>1. D \in SUBSET (DOMAIN index) /\ \A s \in D : rows[s] = index[s]
  BY DEF Tests!StudentRows, Tests!ActiveOnly
<1>2. IsFiniteSet(D) /\ \A s \in D : rows[s].sum \in Nat /\ rows[s].n \in Nat
  <2>1. IsFiniteSet(DOMAIN index) /\ \A s \in DOMAIN index : index[s].sum \in Nat /\ index[s].n \in Nat
    BY IndexIs
  <2> HIDE DEF index, rows
  <2>2. QED BY <1>1, <2>1, FS_Subset
<1>3. {Tests!Bands[k].name : k \in 1..6} = Grades
  <2>1. /\ Tests!Bands[1].name = "A+" /\ Tests!Bands[2].name = "A" /\ Tests!Bands[3].name = "B"
        /\ Tests!Bands[4].name = "C" /\ Tests!Bands[5].name = "D" /\ Tests!Bands[6].name = "E"
    BY DEF Tests!Bands
  <2>2. 1..6 = {1, 2, 3, 4, 5, 6}
    OBVIOUS
  <2>3. QED BY <2>1, <2>2 DEF Grades
<1>4. DOMAIN grades = Grades /\ \A g \in Grades : grades[g] = Cardinality(G[g])
  BY <1>3, TestsCount DEF Tests!GradeCounts, Tests!CountGrades
<1>5. \A s \in D : /\ Tests!GradeBand(rows[s]) \in Grades
                   /\ Tests!GradeBand(rows[s]) = "E" <=> ~Tests!AtLeast(rows[s], Tests!PassMark)
                   /\ Tests!GradeBand(rows[s]) \in {"D", "E"} <=> ~Tests!AtLeast(rows[s], Tests!AtRiskBelow)
  <2> HIDE DEF rows
  <2>1. QED BY <1>2, GradeIs
<1> HIDE DEF rows, index, grades
<1>6. IsFiniteSet(Grades)
  <2> DEFINE h == [k \in 1..6 |-> Tests!Bands[k].name]
  <2>1. h \in Surjection(1..6, Grades)
    BY <1>3 DEF Surjection
  <2>2. IsFiniteSet(1..6)
    <3> DEFINE last == 6
    <3>1. last \in Int
      OBVIOUS
    <3> HIDE DEF last
    <3>2. IsFiniteSet(1..last)
      BY <3>1, FS_Interval
    <3>3. QED BY <3>2 DEF last
  <2> HIDE DEF h
  <2>3. QED BY <2>1, <2>2, FS_Surjection
<1>7. \A g \in Grades : IsFiniteSet(G[g])
  BY <1>2, FS_Subset
<1>8. \A g, k \in Grades : g # k => G[g] \cap G[k] = {}
  OBVIOUS
<1>9. UNION {G[g] : g \in Grades} = D
  BY <1>5
<1>10. G["E"] = {s \in D : ~Tests!AtLeast(rows[s], Tests!PassMark)}
  BY <1>5 DEF Grades
<1>11. G["D"] \cup G["E"] = {s \in D : ~Tests!AtLeast(rows[s], Tests!AtRiskBelow)}
  BY <1>5 DEF Grades
<1> HIDE DEF G
<1>12. Tests!Sum(grades) = SumOf(grades, Grades)
  BY <1>4, <1>6, TestsSum
<1>13. SumOf(grades, Grades) = Cardinality(D)
  BY <1>4, <1>6, <1>7, <1>8, <1>9, PartsCount
<1>14. "D" \in Grades /\ "E" \in Grades
  BY DEF Grades
<1>15. Cardinality(G["D"] \cup G["E"]) = Cardinality(G["D"]) + Cardinality(G["E"])
  <2> DEFINE low == "D"
             lowest == "E"
  <2>1. low \in Grades /\ lowest \in Grades /\ low # lowest
    BY DEF Grades
  <2> HIDE DEF low, lowest
  <2>2. IsFiniteSet(G[low]) /\ IsFiniteSet(G[lowest]) /\ G[low] \cap G[lowest] = {}
    BY <1>7, <1>8, <2>1
  <2>3. Cardinality(G[low] \cup G[lowest]) = Cardinality(G[low]) + Cardinality(G[lowest])
    BY <2>2, TwoParts
  <2>4. QED BY <2>3 DEF low, lowest
<1>16. grades["D"] = Cardinality(G["D"]) /\ grades["E"] = Cardinality(G["E"])
  BY <1>4, <1>14
<1>17. QED BY <1>10, <1>11, <1>12, <1>13, <1>15, <1>16 DEF rows, grades

(* The totals of the report are the sums of the column below. *)
LEMMA ColumnsAddUp ==
  ASSUME PapersInv, NEW tests \in SUBSET papers
  PROVE  LET W == Tests!Scripts(tests)
             table == Tests!AssessmentsTable(tests)
         IN  /\ Cardinality(W) = Tests!Sum([a \in tests |-> table[a].appeared])
             /\ SumOf(MarkOf, W) = Tests!Sum([a \in tests |-> table[a].sum])
             /\ Cardinality({x \in W : x[2] \in Tests!Passed(x[1])})
                  = Tests!Sum([a \in tests |-> table[a].passed])
             /\ \A a \in tests : table[a].roll = Cardinality(DOMAIN a.scores)
<1> DEFINE W == Tests!Scripts(tests)
           V == {x \in W : x[2] \in Tests!Passed(x[1])}
           c == [x \in W |-> x[1]]
           G == [a \in tests |-> {x \in W : c[x] = a}]
           table == Tests!AssessmentsTable(tests)
           appeared == [a \in tests |-> table[a].appeared]
           sums == [a \in tests |-> table[a].sum]
           passed == [a \in tests |-> table[a].passed]
<1>1. W = {x \in Scripts : x[1] \in tests} /\ W \in SUBSET Scripts /\ V \in SUBSET W
  BY ScriptsAre
<1>2. IsFiniteSet(tests) /\ IsFiniteSet(W) /\ IsFiniteSet(V)
  <2>1. IsFiniteSet(tests) /\ IsFiniteSet(W)
    BY <1>1, TallyIs, FS_Subset DEF PapersInv
  <2> HIDE DEF W, V
  <2>2. IsFiniteSet(V)
    BY <1>1, <2>1, FS_Subset
  <2>3. QED BY <2>1, <2>2
<1>3. ASSUME NEW a \in tests
      PROVE  /\ {x \in W : c[x] = a} = {x \in Scripts : x[1] = a}
             /\ {x \in V : c[x] = a} = {x \in {y \in Scripts : y[1] = a} : x[2] \in Tests!Passed(a)}
  BY <1>1
<1>4. \A x \in W : c[x] \in tests
  BY <1>1
<1>5. \A a \in tests : /\ appeared[a] = Tests!Stats(a).appeared /\ sums[a] = Tests!Stats(a).sum
                       /\ passed[a] = Tests!Stats(a).passed
                       /\ table[a].roll = Tests!Stats(a).appeared + Tests!Stats(a).absent
  BY DEF Tests!AssessmentsTable
<1>6. DOMAIN appeared = tests /\ DOMAIN sums = tests /\ DOMAIN passed = tests
  OBVIOUS
<1> HIDE DEF W, V, c, table, appeared, sums, passed
<1>7. \A a \in tests : /\ appeared[a] = Cardinality({x \in W : c[x] = a})
                       /\ sums[a] = SumOf(MarkOf, {x \in W : c[x] = a})
                       /\ passed[a] = Cardinality({x \in V : c[x] = a})
                       /\ table[a].roll = Cardinality(DOMAIN a.scores)
  <2> SUFFICES ASSUME NEW a \in tests
               PROVE  /\ appeared[a] = Cardinality({x \in W : c[x] = a})
                      /\ sums[a] = SumOf(MarkOf, {x \in W : c[x] = a})
                      /\ passed[a] = Cardinality({x \in V : c[x] = a})
                      /\ table[a].roll = Cardinality(DOMAIN a.scores)
    OBVIOUS
  <2>1. a \in papers
    BY <1>1
  <2> DEFINE T == {x \in Scripts : x[1] = a}
  <2>2. /\ Tests!Stats(a).sum = SumOf(MarkOf, T) /\ Tests!Stats(a).appeared = Cardinality(T)
        /\ Tests!Stats(a).passed = Cardinality({x \in T : x[2] \in Tests!Passed(a)})
        /\ Tests!Stats(a).appeared + Tests!Stats(a).absent = Cardinality(DOMAIN a.scores)
    BY <2>1, StatsAre
  <2>3. {x \in W : c[x] = a} = T /\ {x \in V : c[x] = a} = {x \in T : x[2] \in Tests!Passed(a)}
    BY <1>3
  <2>4. /\ appeared[a] = Tests!Stats(a).appeared /\ sums[a] = Tests!Stats(a).sum
        /\ passed[a] = Tests!Stats(a).passed
        /\ table[a].roll = Tests!Stats(a).appeared + Tests!Stats(a).absent
    BY <1>5
  <2> HIDE DEF T
  <2>5. QED BY <2>2, <2>3, <2>4
<1>8. SumOf(sums, tests) = SumOf(MarkOf, W) /\ SumOf(appeared, tests) = Cardinality(W)
  <2>1. \A a \in tests : \A x : x \in G[a] <=> x \in W /\ c[x] = a
    OBVIOUS
  <2>2. \A a \in tests : appeared[a] = Cardinality(G[a]) /\ sums[a] = SumOf(MarkOf, G[a])
    BY <1>7
  <2>3. W \in SUBSET Scripts /\ IsFiniteSet(tests) /\ \A x \in W : c[x] \in tests
    BY <1>1, <1>2, <1>4
  <2> HIDE DEF G
  <2>4. QED BY <2>1, <2>2, <2>3, HeadingsAddUp
<1>9. SumOf(passed, tests) = Cardinality(V)
  <2> DEFINE H == [a \in tests |-> {x \in V : c[x] = a}]
  <2>1. \A a \in tests : IsFiniteSet(H[a])
    BY <1>2, FS_Subset
  <2>2. \A a, b \in tests : a # b => H[a] \cap H[b] = {}
    OBVIOUS
  <2>3. \A a \in tests : passed[a] = Cardinality(H[a])
    BY <1>7
  <2>4. UNION {H[a] : a \in tests} = V
    BY <1>1, <1>4
  <2> HIDE DEF H
  <2>5. QED BY <1>2, <2>1, <2>2, <2>3, <2>4, PartsCount
<1>10. /\ Tests!Sum(appeared) = SumOf(appeared, tests) /\ Tests!Sum(sums) = SumOf(sums, tests)
       /\ Tests!Sum(passed) = SumOf(passed, tests)
  BY <1>2, <1>6, TestsSum
<1>11. QED BY <1>7, <1>8, <1>9, <1>10 DEF W, V, table, appeared, sums, passed

(* The report by month and by student comes to the same. *)
LEMMA IndexAddsUp ==
  ASSUME PapersInv, NEW tests \in SUBSET papers
  PROVE  LET W == Tests!Scripts(tests)
             index == Tests!ScoreIndex(tests)
             monthly == Tests!Kpis(tests).monthly
         IN  /\ SumOf(MarkOf, W) = Tests!Sum([m \in DOMAIN monthly |-> monthly[m].sum])
             /\ Cardinality(W) = Tests!Sum([s \in DOMAIN index |-> index[s].n])
<1> DEFINE W == Tests!Scripts(tests)
           index == Tests!ScoreIndex(tests)
           monthly == Tests!Kpis(tests).monthly
           M == {a.date : a \in tests}
           byMonth == [x \in W |-> x[1].date]
           byStudent == [x \in W |-> x[2]]
           sums == [m \in DOMAIN monthly |-> monthly[m].sum]
           counts == [s \in DOMAIN index |-> index[s].n]
<1>1. W \in SUBSET Scripts /\ IsFiniteSet(W) /\ \A x \in W : x[1] \in tests
  BY IndexIs, ScriptsAre
<1>2. IsFiniteSet(tests)
  BY FS_Subset DEF PapersInv
<1>3. IsFiniteSet(M)
  <2> DEFINE d == [a \in tests |-> a.date]
  <2>1. M = {d[a] : a \in tests}
    OBVIOUS
  <2> HIDE DEF M, d
  <2>2. IsFiniteSet({d[a] : a \in tests})
    BY <1>2, HeadingsFinite
  <2>3. QED BY <2>1, <2>2
<1>4. DOMAIN monthly = M /\ \A m \in M : monthly[m] = Tests!Tally({x \in W : x[1].date = m})
  BY DEF Tests!Kpis, Tests!KpisOf
<1>5. \A x \in W : byMonth[x] = x[1].date /\ byMonth[x] \in M /\ byStudent[x] = x[2]
  BY <1>1
<1>6. DOMAIN sums = DOMAIN monthly /\ DOMAIN counts = DOMAIN index
  OBVIOUS
<1>7. \A m \in DOMAIN monthly : sums[m] = monthly[m].sum
  OBVIOUS
<1>8. \A s \in DOMAIN index : counts[s] = index[s].n
  OBVIOUS
<1>9. /\ DOMAIN index = {x[2] : x \in W} /\ IsFiniteSet(DOMAIN index)
      /\ \A s \in DOMAIN index : /\ index[s].sum = SumOf(MarkOf, {x \in W : x[2] = s})
                                 /\ index[s].n = Cardinality({x \in W : x[2] = s})
  BY IndexIs
<1> HIDE DEF W, index, monthly, M, byMonth, byStudent, sums, counts
<1> DEFINE G == [m \in M |-> {x \in W : byMonth[x] = m}]
           h == [m \in M |-> Cardinality(G[m])]
<1>10. ASSUME NEW m \in M PROVE sums[m] = SumOf(MarkOf, G[m])
  <2> DEFINE T == {x \in W : x[1].date = m}
  <2>1. G[m] = T /\ T \in SUBSET Scripts
    BY <1>1, <1>5
  <2>2. sums[m] = Tests!Tally(T).sum
    BY <1>4, <1>7
  <2> HIDE DEF T, G
  <2>3. QED BY <2>1, <2>2, TallyIs
<1>11. SumOf(sums, M) = SumOf(MarkOf, W)
  <2>1. \A m \in M : h[m] = Cardinality(G[m]) /\ \A x : x \in G[m] <=> x \in W /\ byMonth[x] = m
    OBVIOUS
  <2> HIDE DEF h, G
  <2>2. QED BY <1>1, <1>3, <1>5, <1>10, <2>1, HeadingsAddUp
<1>12. SumOf(counts, DOMAIN index) = Cardinality(W)
  <2> DEFINE X == DOMAIN index
             H == [s \in X |-> {x \in W : x[2] = s}]
             f == [s \in X |-> SumOf(MarkOf, H[s])]
  <2>1. \A s \in X : f[s] = SumOf(MarkOf, H[s]) /\ \A x : x \in H[s] <=> x \in W /\ byStudent[x] = s
    BY <1>5
  <2>2. \A x \in W : byStudent[x] \in X
    BY <1>5, <1>9
  <2>3. \A s \in X : counts[s] = Cardinality(H[s])
    BY <1>8, <1>9
  <2>4. IsFiniteSet(X)
    BY <1>9
  <2> HIDE DEF f, X, H
  <2>5. SumOf(counts, X) = Cardinality(W)
    BY <1>1, <2>1, <2>2, <2>3, <2>4, HeadingsAddUp
  <2>6. QED BY <2>5 DEF X
<1>13. Tests!Sum(sums) = SumOf(sums, M) /\ Tests!Sum(counts) = SumOf(counts, DOMAIN index)
  BY <1>3, <1>4, <1>6, <1>9, TestsSum
<1>14. QED BY <1>11, <1>12, <1>13 DEF W, index, monthly, sums, counts

(* The report agrees with itself under every filter, and the filters split  *)
(* the tests.                                                               *)
LEMMA ReportAlike == ASSUME PapersInv PROVE Tests!ReportAgrees
<1>1. ASSUME NEW from \in TestDay, NEW to \in TestDay, NEW chosen \in SUBSET Course
      PROVE  Tests!FiguresOf(Tests!Filtered(chosen, from, to))
  <2> DEFINE tests == Tests!Filtered(chosen, from, to)
             k == Tests!Kpis(tests)
             grades == Tests!GradeCounts(tests)
             table == Tests!AssessmentsTable(tests)
             people == Tests!StudentPerformance(tests)
             index == Tests!ScoreIndex(tests)
             rows == Tests!StudentRows(tests)
             W == Tests!Scripts(tests)
  <2>1. tests \in SUBSET papers
    BY DEF Tests!Filtered
  <2> HIDE DEF tests
  <2>2. W \in SUBSET Scripts
    BY <2>1, IndexIs
  <2>3. /\ k.scripts = Cardinality(W) /\ k.sum = Tests!Tally(W).sum
        /\ k.passed = Cardinality({x \in W : x[2] \in Tests!Passed(x[1])})
        /\ k.atRisk = Cardinality({s \in DOMAIN rows : ~Tests!AtLeast(rows[s], Tests!AtRiskBelow)})
        /\ k.belowPass = Cardinality({s \in DOMAIN rows : ~Tests!AtLeast(rows[s], Tests!PassMark)})
    BY TestsCount DEF Tests!Kpis, Tests!KpisOf
  <2>4. Tests!Tally(W).sum = SumOf(MarkOf, W)
    BY <2>2, TallyIs
  <2>5. /\ DOMAIN people = DOMAIN rows
        /\ \A s \in DOMAIN rows : people[s].attention = ~Tests!AtLeast(rows[s], Tests!AtRiskBelow)
    BY DEF Tests!StudentPerformance, Tests!PerformanceOf
  <2>6. {s \in DOMAIN people : people[s].attention} = {s \in DOMAIN rows : ~Tests!AtLeast(rows[s], Tests!AtRiskBelow)}
    BY <2>5
  <2>7. /\ Cardinality(W) = Tests!Sum([a \in tests |-> table[a].appeared])
        /\ SumOf(MarkOf, W) = Tests!Sum([a \in tests |-> table[a].sum])
        /\ Cardinality({x \in W : x[2] \in Tests!Passed(x[1])})
             = Tests!Sum([a \in tests |-> table[a].passed])
        /\ \A a \in tests : table[a].roll = Cardinality(DOMAIN a.scores)
    BY <2>1, ColumnsAddUp
  <2>8. /\ SumOf(MarkOf, W) = Tests!Sum([m \in DOMAIN k.monthly |-> k.monthly[m].sum])
        /\ Cardinality(W) = Tests!Sum([s \in DOMAIN index |-> index[s].n])
    BY <2>1, IndexAddsUp
  <2>9. /\ Tests!Sum(grades) = Cardinality(DOMAIN rows)
        /\ grades["E"] = Cardinality({s \in DOMAIN rows : ~Tests!AtLeast(rows[s], Tests!PassMark)})
        /\ grades["D"] + grades["E"]
             = Cardinality({s \in DOMAIN rows : ~Tests!AtLeast(rows[s], Tests!AtRiskBelow)})
    BY <2>1, GradesSplit
  <2> HIDE DEF k, grades, table, people, index, rows, W
  <2>10. Tests!FiguresMatch(tests, k, grades, table, people, index)
    BY <2>3, <2>4, <2>5, <2>6, <2>7, <2>8, <2>9, TestsCount DEF Tests!FiguresMatch
  <2>11. Tests!FiguresOf(tests)
    BY <2>10 DEF Tests!FiguresOf, k, grades, table, people, index
  <2>12. QED BY <2>11 DEF tests
<1>2. ASSUME NEW from \in TestDay, NEW to \in TestDay
      PROVE  Tests!Filtered(Course, from, to) = UNION {Tests!Filtered({b}, from, to) : b \in Course}
  <2> DEFINE each == {Tests!Filtered({b}, from, to) : b \in Course}
  <2>1. \A chosen, a : a \in Tests!Filtered(chosen, from, to)
          <=> a \in papers /\ a.batch \in chosen /\ from <= a.date /\ a.date <= to
    BY DEF Tests!Filtered
  <2>2. \A a : a \in UNION each <=> \E b \in Course : a \in Tests!Filtered({b}, from, to)
    OBVIOUS
  <2> HIDE DEF each
  <2>3. \A a : a \in UNION each <=> a \in Tests!Filtered(Course, from, to)
    <3>1. \A b, a : a \in Tests!Filtered({b}, from, to)
            <=> a \in papers /\ a.batch = b /\ from <= a.date /\ a.date <= to
      BY <2>1
    <3>2. ASSUME NEW a \in UNION each PROVE a \in Tests!Filtered(Course, from, to)
      <4>1. PICK b \in Course : a \in Tests!Filtered({b}, from, to)
        BY <2>2, <3>2
      <4>2. QED BY <2>1, <3>1, <4>1
    <3>3. ASSUME NEW a \in Tests!Filtered(Course, from, to) PROVE a \in UNION each
      <4>1. a.batch \in Course /\ a \in Tests!Filtered({a.batch}, from, to)
        BY <2>1, <3>1, <3>3
      <4>2. QED BY <2>2, <4>1
    <3>4. QED BY <3>2, <3>3
  <2>4. Tests!Filtered(Course, from, to) = UNION each
    BY <2>3
  <2>5. QED BY <2>4 DEF each
<1>3. ASSUME NEW from \in TestDay, NEW to \in TestDay,
             NEW tests \in {Tests!Filtered(chosen, from, to) : chosen \in SUBSET Course}
      PROVE  Tests!FiguresOf(tests)
  <2>1. PICK chosen \in SUBSET Course : tests = Tests!Filtered(chosen, from, to)
    BY <1>3, Zenon
  <2>2. QED BY <1>1, <2>1
<1>4. QED BY <1>2, <1>3, Zenon DEF Tests!ReportAgrees

(* A student's average over some tests is that of their scripts. *)
ScriptsBy(s, tests) == {x \in Scripts : x[1] \in tests /\ x[2] = s}
SatBy(s, tests) == {a \in tests : s \in Tests!Sat(a)}

(* The average over some tests is the sum and the number of those scripts. *)
LEMMA AverageIs ==
  ASSUME PapersInv, NEW s, NEW tests \in SUBSET papers
  PROVE  /\ Tests!StudentAverage(s, tests) = Tests!Tally(ScriptsBy(s, tests))
         /\ Tests!StudentAverage(s, tests).sum = SumOf(MarkOf, ScriptsBy(s, tests))
         /\ Tests!StudentAverage(s, tests).n = Cardinality(SatBy(s, tests))
         /\ IsFiniteSet(SatBy(s, tests)) /\ ScriptsBy(s, tests) \in SUBSET Scripts
<1> DEFINE S == SatBy(s, tests)
           T == ScriptsBy(s, tests)
           n == [a \in S |-> <<a, s>>]
           g == [a \in S |-> Tests!Percent(a, s)]
<1>1. S \in SUBSET papers /\ IsFiniteSet(S) /\ T \in SUBSET Scripts
  BY FS_Subset DEF PapersInv, SatBy, ScriptsBy
<1>2. {a \in tests : s \in DOMAIN a.scores /\ a.scores[s] # Tests!Absent} = S
  BY DEF SatBy, Tests!Sat
<1>3. Tests!StudentAverage(s, tests) = [sum |-> Tests!Sum(g), n |-> Cardinality(S)]
  BY <1>2, TestsCount, Zenon DEF Tests!StudentAverage
<1>4. T = {n[a] : a \in S}
  <2>1. \A x \in T : x = <<x[1], s>> /\ x[1] \in S
    BY ScriptsAre DEF ScriptsBy, SatBy
  <2>2. \A a \in S : n[a] = <<a, s>> /\ n[a] \in T
    BY ScriptsAre DEF ScriptsBy, SatBy
  <2> HIDE DEF S, T, n
  <2>3. \A x \in T : x[1] \in S /\ x = n[x[1]]
    BY <2>1, <2>2
  <2>4. QED BY <2>2, <2>3
<1>5. ASSUME NEW a \in S PROVE g[a] = MarkOf[n[a]] /\ g[a] \in Nat
  <2>1. a \in papers /\ s \in Tests!Sat(a)
    BY DEF SatBy
  <2>2. <<a, s>> \in Scripts
    BY <2>1, ScriptsAre
  <2> DEFINE x == <<a, s>>
  <2>3. x \in Scripts /\ x[1] = a /\ x[2] = s /\ n[a] = x /\ g[a] = Tests!Percent(a, s)
    BY <2>2
  <2> HIDE DEF x, n, g
  <2>4. MarkOf[x] = Tests!Percent(x[1], x[2]) /\ MarkOf[x] \in Nat
    BY <2>3, ScriptsAre
  <2>5. QED BY <2>3, <2>4
<1>6. \A a, b \in S : n[a] = n[b] => a = b
  OBVIOUS
<1>7. DOMAIN g = S
  OBVIOUS
<1> HIDE DEF S, T, n, g
<1>8. Tests!Sum(g) = SumOf(g, S)
  BY <1>1, <1>7, TestsSum
<1>9. SumOf(g, S) = SumOf(MarkOf, T)
  BY <1>1, <1>4, <1>5, <1>6, SumRenamed
<1>10. Cardinality(T) = Cardinality(S)
  BY <1>1, <1>4, <1>6, CountRenamed
<1>11. Tests!Tally(T) = [sum |-> SumOf(MarkOf, T), n |-> Cardinality(T)]
  BY <1>1, TallyIs
<1>12. QED BY <1>1, <1>3, <1>8, <1>9, <1>10, <1>11 DEF S, T

(* What is above the average of the class was sat. *)
LEMMA AboveIs ==
  ASSUME PapersInv, NEW s, NEW tests \in SUBSET papers
  PROVE  Tests!Summary(s, tests).above <= Cardinality(Tests!Summary(s, tests).class)
<1> DEFINE S == SatBy(s, tests)
           A == {a \in S : Tests!Percent(a, s) * Tests!Stats(a).appeared > Tests!Stats(a).sum}
           n == [a \in S |-> <<a.id, Tests!Stats(a).sum, Tests!Stats(a).appeared>>]
<1>1. S \in SUBSET papers /\ IsFiniteSet(S) /\ A \in SUBSET S
  BY AverageIs DEF SatBy
<1>2. /\ Tests!Summary(s, tests).above = Tests!Cardinality(A)
      /\ Tests!Summary(s, tests).class = {<<a.id, Tests!Stats(a).sum, Tests!Stats(a).appeared>> : a \in S}
  BY DEF Tests!Summary, Tests!SummaryOf, SatBy
<1>3. {<<a.id, Tests!Stats(a).sum, Tests!Stats(a).appeared>> : a \in S} = {n[a] : a \in S}
  BY Zenon
<1>4. \A a, b \in S : n[a] = n[b] => a = b
  <2>1. \A a \in S : n[a][1] = a.id
    OBVIOUS
  <2> HIDE DEF n
  <2>2. QED BY <1>1, <2>1 DEF PapersInv
<1> HIDE DEF S, A, n
<1>5. Cardinality({n[a] : a \in S}) = Cardinality(S)
  BY <1>1, <1>4, CountRenamed
<1>6. Cardinality(A) <= Cardinality(S)
  BY <1>1, FS_Subset
<1>7. QED BY <1>2, <1>3, <1>5, <1>6, TestsCount

(* The subjects add up to the average. *)
LEMMA SubjectsAddUp ==
  ASSUME PapersInv, NEW s, NEW tests \in SUBSET papers
  PROVE  LET subjects == Tests!BySubject(s, SatBy(s, tests))
         IN  Tests!StudentAverage(s, tests).sum
               = Tests!Sum([x \in DOMAIN subjects |-> subjects[x].sum])
<1> DEFINE S == SatBy(s, tests)
           subjects == Tests!BySubject(s, S)
           X == {teaches[a.batch] : a \in S}
           T == ScriptsBy(s, tests)
           c == [x \in T |-> teaches[x[1].batch]]
           G == [k \in X |-> {x \in T : c[x] = k}]
           sums == [x \in DOMAIN subjects |-> subjects[x].sum]
           h == [k \in X |-> Cardinality(G[k])]
<1>1. S \in SUBSET papers /\ IsFiniteSet(S) /\ T \in SUBSET Scripts
  BY AverageIs DEF SatBy
<1>2. DOMAIN subjects = X /\ \A k \in X : subjects[k] = Tests!StudentAverage(s, {a \in S : teaches[a.batch] = k})
  BY Zenon DEF Tests!BySubject
<1>3. DOMAIN sums = X /\ \A k \in X : sums[k] = subjects[k].sum
  BY <1>2
<1>4. IsFiniteSet(X)
  <2> DEFINE d == [a \in S |-> teaches[a.batch]]
  <2>1. X = {d[a] : a \in S}
    OBVIOUS
  <2> HIDE DEF S, X, d
  <2>2. IsFiniteSet({d[a] : a \in S})
    BY <1>1, HeadingsFinite
  <2>3. QED BY <2>1, <2>2
<1>5. \A x \in T : x[1] \in S /\ c[x] = teaches[x[1].batch] /\ c[x] \in X
  <2>1. \A x \in T : x[1] \in tests /\ x[2] = s /\ x[2] \in Tests!Sat(x[1])
    BY ScriptsAre DEF ScriptsBy
  <2>2. \A x \in T : x[1] \in S
    BY <2>1 DEF SatBy
  <2> HIDE DEF S, T
  <2>3. QED BY <2>2
<1>6. \A k \in X : h[k] = Cardinality(G[k]) /\ \A x : x \in G[k] <=> x \in T /\ c[x] = k
  OBVIOUS
<1>7. ASSUME NEW k \in X PROVE sums[k] = SumOf(MarkOf, G[k])
  <2> DEFINE R == {a \in S : teaches[a.batch] = k}
  <2>1. R \in SUBSET papers
    BY <1>1
  <2>2. ScriptsBy(s, R) = G[k]
    <3>1. \A x : x \in ScriptsBy(s, R) <=> x \in Scripts /\ x[1] \in R /\ x[2] = s
      BY DEF ScriptsBy
    <3>2. \A x : x \in T <=> x \in Scripts /\ x[1] \in tests /\ x[2] = s
      BY DEF ScriptsBy
    <3>3. S \subseteq tests
      BY DEF SatBy
    <3> HIDE DEF S, T, c, G, X
    <3>4. \A x : x \in ScriptsBy(s, R) <=> x \in T /\ c[x] = k
      BY <1>5, <3>1, <3>2, <3>3
    <3>5. QED BY <1>6, <3>4
  <2>3. subjects[k] = Tests!StudentAverage(s, R)
    BY <1>2
  <2> HIDE DEF R, G, subjects, sums
  <2>4. Tests!StudentAverage(s, R).sum = SumOf(MarkOf, ScriptsBy(s, R))
    BY <2>1, AverageIs
  <2>5. QED BY <1>3, <2>2, <2>3, <2>4
<1> HIDE DEF S, X, T, c, G, sums, h, subjects
<1>8. SumOf(sums, X) = SumOf(MarkOf, T)
  <2>1. T \in SUBSET Scripts /\ \A x \in T : c[x] \in X
    BY <1>1, <1>5
  <2>2. QED BY <1>4, <1>6, <1>7, <2>1, HeadingsAddUp
<1>9. Tests!Sum(sums) = SumOf(sums, X)
  BY <1>3, <1>4, TestsSum
<1>10. Tests!StudentAverage(s, tests).sum = SumOf(MarkOf, T)
  BY AverageIs DEF T
<1>11. QED BY <1>8, <1>9, <1>10 DEF sums, subjects, S

(* Where there are tests there is a latest one. *)
LEMMA LatestTest ==
  ASSUME PapersInv, NEW R \in SUBSET papers, R # {}
  PROVE  \E a \in R : \A x \in R : x.date <= a.date
<1> DEFINE d == [a \in R |-> a.date]
           D == {d[a] : a \in R}
<1>1. IsFiniteSet(R)
  BY FS_Subset DEF PapersInv
<1>2. D # {} /\ \A y \in D : y \in Int
  <2>1. \A a \in R : d[a] \in Int
    BY TestsGiven DEF PapersInv
  <2> HIDE DEF d
  <2>2. QED BY <2>1
<1>3. \A a \in R : d[a] = a.date /\ d[a] \in D
  OBVIOUS
<1>4. \A y \in D : \E a \in R : a.date = y
  OBVIOUS
<1>5. IsFiniteSet(D)
  <2> HIDE DEF d
  <2>1. QED BY <1>1, HeadingsFinite
<1> HIDE DEF d, D
<1>6. Bills!Max(D) \in D /\ \A y \in D : y <= Bills!Max(D)
  BY <1>2, <1>5, LargestIs
<1>7. QED BY <1>3, <1>4, <1>6

(* A student's average is the same in the report, on the profile and in the *)
(* portal.                                                                  *)
LEMMA StudentsAlike == ASSUME PapersInv PROVE Tests!StudentsAgree
<1> SUFFICES ASSUME NEW s \in DOMAIN pupils
             PROVE  Tests!StudentSees(s, Tests!StudentRows(papers), Tests!ProfileResults(s),
                                      Tests!PortalResults(s), Tests!PortalSubjects(s))
  BY DEF Tests!StudentsAgree, Tests!StudentsSee, Tests!OnFile
<1> DEFINE rows == Tests!StudentRows(papers)
           index == Tests!ScoreIndex(papers)
           P == Tests!ProfileRows(s)
           Q == Tests!PortalRows(s)
           p == Tests!ProfileResults(s)
           seen == Tests!PortalResults(s)
           subjects == Tests!PortalSubjects(s)
           S == SatBy(s, P)
<1>1. /\ P = {a \in papers : s \in DOMAIN a.scores}
      /\ Q = {a \in papers : a.batch \in pupils[s].batches /\ s \in DOMAIN a.scores}
  BY DEF Tests!ProfileRows, Tests!PortalRows
<1>2. P \in SUBSET papers /\ Q \in SUBSET papers
  BY <1>1
<1>3. /\ p = Tests!Summary(s, P) /\ seen = Tests!Summary(s, Q)
      /\ subjects = Tests!BySubject(s, SatBy(s, Q))
  BY DEF Tests!ProfileResults, Tests!PortalResults, Tests!PortalSubjects, SatBy
<1>4. /\ p.average = Tests!StudentAverage(s, P) /\ p.missed = Cardinality(P \ S)
      /\ seen.average = Tests!StudentAverage(s, Q)
  BY <1>3, TestsCount DEF Tests!Summary, Tests!SummaryOf, SatBy
<1>5. ScriptsBy(s, P) = {x \in Scripts : x[2] = s}
  <2>1. \A x \in Scripts : x[1] \in papers /\ x[2] \in DOMAIN x[1].scores
    BY ScriptsAre, SatIs
  <2>2. QED BY <1>1, <2>1 DEF ScriptsBy
<1>6. /\ DOMAIN rows = {x \in DOMAIN index : x \in DOMAIN pupils /\ pupils[x].active}
      /\ \A x \in DOMAIN rows : rows[x] = index[x]
  BY DEF Tests!StudentRows, Tests!ActiveOnly, Tests!OnFile
<1>7. /\ DOMAIN index = {x[2] : x \in Scripts}
      /\ \A t \in DOMAIN index : index[t] = Tests!Tally({x \in Scripts : x[2] = t})
  BY IndexIs DEF Scripts
<1>8. Tests!StudentAverage(s, P) = Tests!Tally({x \in Scripts : x[2] = s})
  BY <1>2, <1>5, AverageIs
<1>9. Tests!StudentAverage(s, P).n = Cardinality(S) /\ IsFiniteSet(S) /\ S \subseteq P /\ IsFiniteSet(P)
  BY <1>2, AverageIs, FS_Subset DEF SatBy, PapersInv
<1>10. s \in DOMAIN index <=> S # {}
  <2>1. ASSUME s \in DOMAIN index PROVE S # {}
    <3>1. PICK x \in Scripts : x[2] = s
      BY <1>7, <2>1
    <3>2. x[1] \in papers /\ s \in Tests!Sat(x[1]) /\ s \in DOMAIN x[1].scores
      BY <3>1, ScriptsAre, SatIs
    <3>3. QED BY <1>1, <3>2 DEF SatBy
  <2>2. ASSUME NEW a \in S PROVE s \in DOMAIN index
    <3>1. <<a, s>> \in Scripts
      BY <1>2, ScriptsAre DEF SatBy
    <3> DEFINE x == <<a, s>>
    <3>2. x \in Scripts /\ x[2] = s
      BY <3>1
    <3> HIDE DEF x
    <3>3. QED BY <1>7, <3>2
  <2>3. QED BY <2>1, <2>2
<1>11. Cardinality(S) \in Nat /\ (Cardinality(S) > 0 <=> S # {})
  <2> HIDE DEF S
  <2>1. QED BY <1>9, FS_CardinalityType, FS_EmptySet
<1>12. Cardinality(S) + Cardinality(P \ S) = Cardinality(P)
  <2> DEFINE R == P \ S
  <2> HIDE DEF S, P
  <2>1. IsFiniteSet(R) /\ S \cap R = {} /\ S \cup R = P
    BY <1>9, FS_Subset
  <2> HIDE DEF R
  <2>2. Cardinality(S \cup R) = Cardinality(S) + Cardinality(R)
    BY <1>9, <2>1, TwoParts
  <2>3. QED BY <2>1, <2>2 DEF R
<1>13. pupils[s].batches = Course => Q = P
  BY <1>1 DEF PapersInv
<1>14. seen.average.sum = Tests!Sum([x \in DOMAIN subjects |-> subjects[x].sum])
  <2> DEFINE R == Q
  <2>1. R \in SUBSET papers
    BY <1>2
  <2> HIDE DEF R
  <2>2. LET found == Tests!BySubject(s, SatBy(s, R))
        IN  Tests!StudentAverage(s, R).sum = Tests!Sum([x \in DOMAIN found |-> found[x].sum])
    BY <2>1, SubjectsAddUp
  <2>3. QED BY <1>3, <1>4, <2>2, Zenon DEF R
<1>15. seen.above <= Tests!Cardinality(seen.class)
  BY <1>2, <1>3, AboveIs, TestsCount
<1>16. Tests!Latest(s) # {} <=> Q # {}
  <2>1. Tests!Latest(s) = {a \in Q : \A x \in Q : x.date <= a.date}
    BY DEF Tests!Latest
  <2> HIDE DEF Q
  <2>2. QED BY <1>2, <2>1, LatestTest
<1> HIDE DEF rows, index, P, Q, p, seen, subjects, S
<1>17. s \in DOMAIN rows => rows[s] = p.average
  BY <1>4, <1>6, <1>7, <1>8
<1>18. s \in DOMAIN rows <=> pupils[s].active /\ p.average.n > 0
  BY <1>4, <1>6, <1>9, <1>10, <1>11
<1>19. p.average.n + p.missed = Tests!Cardinality(Tests!ProfileRows(s))
  BY <1>4, <1>9, <1>12, TestsCount DEF P
<1>20. pupils[s].batches = Course => seen = p
  BY <1>3, <1>13
<1>21. Tests!Latest(s) # {} <=> Tests!PortalRows(s) # {}
  BY <1>16 DEF Q
<1>22. Tests!StudentSees(s, rows, p, seen, subjects)
  BY <1>14, <1>15, <1>17, <1>18, <1>19, <1>20, <1>21 DEF Tests!StudentSees
<1>23. QED BY <1>22 DEF rows, p, seen, subjects

(* What passes from each number to the next holds of all up to n. *)
LEMMA Upwards ==
  ASSUME NEW n \in Nat, NEW Good, \A k \in 1..n : k = 1 \/ k - 1 \in Good => k \in Good
  PROVE  \A k \in 1..n : k \in Good
<1> DEFINE Span == 1..n
           Bad == {T \in SUBSET Span : \E k \in 1..n : T = 1..k /\ k \notin Good}
<1>1. ASSUME Bad # {} PROVE FALSE
  <2>1. IsFiniteSet(Span) /\ Bad \in SUBSET (SUBSET Span)
    BY FS_Interval
  <2> HIDE DEF Bad, Span
  <2>2. PICK T \in Bad : \A U \in Bad : U \subseteq T => U = T
    BY <1>1, <2>1, SmallestSubset
  <2> USE DEF Bad, Span
  <2>3. PICK k \in 1..n : T = 1..k /\ k \notin Good
    BY <2>2
  <2>4. k # 1 /\ k - 1 \in 1..n /\ k - 1 \notin Good
    BY <2>3
  <2>5. 1..(k - 1) \in Bad
    BY <2>3, <2>4
  <2>6. 1..(k - 1) \subseteq T /\ 1..(k - 1) # T
    BY <2>3
  <2>7. QED BY <2>2, <2>5, <2>6
<1>2. ASSUME NEW k \in 1..n, k \notin Good PROVE FALSE
  <2>1. 1..k \in Bad
    BY <1>2
  <2>2. QED BY <1>1, <2>1
<1>3. QED BY <1>2

(* An order of S in which v never rises. *)
Falling(order, v) == \A j, k \in DOMAIN order : j < k => v[order[j]] >= v[order[k]]

(* What an order of a set is. *)
LEMMA OrderIs ==
  ASSUME NEW S
  PROVE  \A order : order \in Tests!Orders(S) <=>
           /\ order \in [1..Cardinality(S) -> S]
           /\ \A j, k \in 1..Cardinality(S) : order[j] = order[k] => j = k
  BY TestsCount DEF Tests!Orders

(* There is one for every finite set and all numbers: the lowest goes last. *)
LEMMA FallingExists ==
  ASSUME NEW S, IsFiniteSet(S), NEW v, \A x \in S : v[x] \in Int
  PROVE  \E order \in Tests!Orders(S) : Falling(order, v)
<1> DEFINE Ordered(T) == \E order \in Tests!Orders(T) : Falling(order, v)
           Bad == {T \in SUBSET S : ~Ordered(T)}
<1> SUFFICES ASSUME Bad # {} PROVE FALSE
  OBVIOUS
<1>0. Bad \in SUBSET (SUBSET S)
  OBVIOUS
<1> HIDE DEF Bad
<1>1. PICK T \in Bad : \A U \in Bad : U \subseteq T => U = T
  BY <1>0, SmallestSubset
<1> USE DEF Bad
<1>2. IsFiniteSet(T) /\ T \in SUBSET S /\ ~Ordered(T)
  BY <1>0, <1>1, FS_Subset
<1>3. T # {}
  <2> SUFFICES ASSUME T = {} PROVE FALSE
    OBVIOUS
  <2> DEFINE order == [k \in 1..0 |-> k]
  <2>1. Cardinality(T) = 0 /\ \A k : k \notin 1..0
    BY FS_EmptySet
  <2>2. order \in [1..Cardinality(T) -> T] /\ DOMAIN order = 1..0
    BY <2>1
  <2>3. order \in Tests!Orders(T)
    BY <2>1, <2>2, OrderIs
  <2>4. Falling(order, v)
    BY <2>1, <2>2 DEF Falling
  <2>5. QED BY <1>2, <2>3, <2>4
<1>4. PICK z \in T : \A x \in T : v[z] <= v[x]
  <2> DEFINE d == [x \in T |-> -v[x]]
             D == {d[x] : x \in T}
  <2>1. \A x \in T : v[x] \in Int /\ d[x] = -v[x] /\ d[x] \in D
    BY <1>2
  <2>2. \A y \in D : y \in Int /\ \E x \in T : d[x] = y
    BY <2>1
  <2>3. D # {}
    BY <1>3
  <2> HIDE DEF d
  <2>4. IsFiniteSet(D)
    BY <1>2, HeadingsFinite
  <2> HIDE DEF D
  <2>5. Bills!Max(D) \in D /\ \A y \in D : y <= Bills!Max(D)
    BY <2>2, <2>3, <2>4, LargestIs
  <2>6. PICK x \in T : d[x] = Bills!Max(D)
    BY <2>2, <2>5
  <2>7. \A y \in T : d[y] <= d[x]
    BY <2>1, <2>5, <2>6
  <2>8. \A y \in T : v[x] <= v[y]
    BY <2>1, <2>7
  <2>9. QED BY <2>8
<1> DEFINE R == T \ {z}
           n == Cardinality(R)
<1>5. R \in SUBSET S /\ R \subseteq T /\ R # T /\ IsFiniteSet(R)
  BY <1>2, <1>4, FS_Subset
<1>6. Ordered(R)
  BY <1>1, <1>5
<1>7. n \in Nat /\ Cardinality(T) = n + 1
  <2>1. z \notin R /\ T = R \cup {z}
    BY <1>4
  <2> HIDE DEF R
  <2>2. Cardinality(R \cup {z}) = Cardinality(R) + 1 /\ Cardinality(R) \in Nat
    BY <1>5, <2>1, FS_AddElement, FS_CardinalityType
  <2>3. QED BY <2>1, <2>2
<1>8. PICK order \in Tests!Orders(R) : Falling(order, v)
  BY <1>6
<1>9. /\ order \in [1..n -> R] /\ DOMAIN order = 1..n
      /\ \A j, k \in 1..n : order[j] = order[k] => j = k
      /\ \A j, k \in 1..n : j < k => v[order[j]] >= v[order[k]]
  <2> HIDE DEF R
  <2>1. order \in [1..n -> R] /\ \A j, k \in 1..n : order[j] = order[k] => j = k
    BY OrderIs
  <2> HIDE DEF n
  <2>2. DOMAIN order = 1..n
    BY <2>1
  <2>3. QED BY <1>8, <2>1, <2>2 DEF Falling
<1> DEFINE longer == [k \in 1..(n + 1) |-> IF k = n + 1 THEN z ELSE order[k]]
<1>10. /\ DOMAIN longer = 1..(n + 1) /\ longer[n + 1] = z
       /\ \A k \in 1..n : longer[k] = order[k] /\ longer[k] \in R
       /\ \A k \in 1..(n + 1) : k = n + 1 \/ k \in 1..n
  <2> HIDE DEF R, n
  <2>1. \A k \in 1..n : k \in 1..(n + 1) /\ k # n + 1 /\ order[k] \in R
    BY <1>7, <1>9
  <2>2. n + 1 \in 1..(n + 1) /\ \A k \in 1..(n + 1) : k = n + 1 \/ k \in 1..n
    BY <1>7
  <2>3. QED BY <2>1, <2>2
<1>11. \A x \in R : x \in T /\ x # z /\ v[x] >= v[z]
  <2>1. \A x \in T : v[x] \in Int
    BY <1>2
  <2>2. QED BY <1>4, <2>1
<1>12. longer \in [1..(n + 1) -> T]
  BY <1>4, <1>10, <1>11
<1> HIDE DEF longer, R, n
<1>13. \A j, k \in 1..(n + 1) : longer[j] = longer[k] => j = k
  BY <1>9, <1>10, <1>11
<1>14. \A j, k \in 1..(n + 1) : j < k => v[longer[j]] >= v[longer[k]]
  <2> SUFFICES ASSUME NEW j \in 1..(n + 1), NEW k \in 1..(n + 1), j < k
               PROVE  v[longer[j]] >= v[longer[k]]
    OBVIOUS
  <2>1. j \in 1..n
    BY <1>7
  <2>2. CASE k = n + 1
    BY <1>10, <1>11, <2>1, <2>2
  <2>3. CASE k \in 1..n
    BY <1>9, <1>10, <2>1, <2>3
  <2>4. QED BY <1>10, <2>2, <2>3
<1>15. longer \in Tests!Orders(T) /\ Falling(longer, v)
  BY <1>7, <1>10, <1>12, <1>13, <1>14, OrderIs DEF Falling
<1>16. QED BY <1>2, <1>15

(* An order of a finite set leaves nobody out. *)
LEMMA OrderReaches ==
  ASSUME NEW S, IsFiniteSet(S), NEW order \in Tests!Orders(S)
  PROVE  \A x \in S : \E k \in 1..Cardinality(S) : order[k] = x
<1> DEFINE n == Cardinality(S)
<1>1. n \in Nat
  BY FS_CardinalityType
<1>2. order \in [1..n -> S] /\ \A j, k \in 1..n : order[j] = order[k] => j = k
  BY OrderIs
<1> HIDE DEF n
<1>3. IsFiniteSet(1..n) /\ Cardinality(1..n) = n
  BY <1>1, FS_Interval
<1>4. order \in Injection(1..n, S)
  BY <1>2 DEF Injection, IsInjective
<1>5. order \in Surjection(1..n, S)
  BY <1>3, <1>4, FS_Injection DEF n
<1>6. QED BY <1>5 DEF Surjection, n

(* The ranks of an order: one for the first of each score. *)
RanksIn(rank, order, a) ==
  rank = [k \in DOMAIN order |->
            IF k = 1 THEN 1
            ELSE IF a.scores[order[k]] # a.scores[order[k - 1]] THEN k ELSE rank[k - 1]]
BestFirst(a) ==
  CHOOSE order \in Tests!Orders(Tests!Sat(a)) :
    \A j, k \in DOMAIN order : j < k => a.scores[order[j]] >= a.scores[order[k]]

(* The dialog gives everybody the rank of their place. *)
LEMMA RankingIs ==
  ASSUME NEW a
  PROVE  Tests!Ranking(a) =
           [s \in DOMAIN a.scores |->
              IF s \in Tests!Sat(a)
              THEN (CHOOSE rank : RanksIn(rank, BestFirst(a), a))
                     [CHOOSE k \in DOMAIN BestFirst(a) : BestFirst(a)[k] = s]
              ELSE 0]
  BY DEF Tests!Ranking, RanksIn, BestFirst

(* The first place of the score at place k. *)
FirstOf(v, order, f, k) ==
  f \in 1..k /\ v[order[f]] = v[order[k]] /\ \A j \in 1..(f - 1) : v[order[j]] > v[order[k]]

(* It starts anew where the score falls, and is that before where it does   *)
(* not.                                                                     *)
LEMMA FirstStep ==
  ASSUME NEW S, NEW n \in Nat, NEW order \in [1..n -> S], NEW v, \A x \in S : v[x] \in Int,
         \A j, k \in 1..n : j < k => v[order[j]] >= v[order[k]],
         NEW k \in 1..n
  PROVE  /\ k = 1 => FirstOf(v, order, 1, k)
         /\ k # 1 /\ v[order[k]] # v[order[k - 1]] => FirstOf(v, order, k, k)
         /\ \A f : k # 1 /\ v[order[k]] = v[order[k - 1]] /\ FirstOf(v, order, f, k - 1) => FirstOf(v, order, f, k)
<1>1. \A j \in 1..n : v[order[j]] \in Int
  OBVIOUS
<1>2. k = 1 => FirstOf(v, order, 1, k)
  BY DEF FirstOf
<1>3. ASSUME k # 1, v[order[k]] # v[order[k - 1]] PROVE FirstOf(v, order, k, k)
  <2>1. k - 1 \in 1..n /\ v[order[k - 1]] >= v[order[k]]
    BY <1>3
  <2>2. v[order[k - 1]] > v[order[k]]
    BY <1>1, <1>3, <2>1
  <2>3. ASSUME NEW j \in 1..(k - 1) PROVE v[order[j]] > v[order[k]]
    <3>1. j = k - 1 \/ v[order[j]] >= v[order[k - 1]]
      BY <2>1
    <3>2. v[order[j]] \in Int /\ v[order[k]] \in Int /\ v[order[k - 1]] \in Int
      BY <1>1, <2>1
    <3>3. QED BY <2>2, <3>1, <3>2
  <2>4. QED BY <2>3 DEF FirstOf
<1>4. ASSUME NEW f, k # 1, v[order[k]] = v[order[k - 1]], FirstOf(v, order, f, k - 1)
      PROVE  FirstOf(v, order, f, k)
  <2>1. f \in 1..k
    BY <1>4 DEF FirstOf
  <2>2. QED BY <1>4, <2>1 DEF FirstOf
<1>5. QED BY <1>2, <1>3, <1>4

(* There is one, and it is the rank. *)
LEMMA RankIsFirst ==
  ASSUME NEW S, NEW n \in Nat, NEW order \in [1..n -> S], NEW a, \A x \in S : a.scores[x] \in Int,
         \A j, k \in 1..n : j < k => a.scores[order[j]] >= a.scores[order[k]]
  PROVE  /\ \E rank : RanksIn(rank, order, a)
         /\ \A rank : RanksIn(rank, order, a) => \A k \in 1..n : FirstOf(a.scores, order, rank[k], k)
<1> DEFINE v == a.scores
<1>0. DOMAIN order = 1..n
  OBVIOUS
<1>1. ASSUME NEW k \in 1..n
      PROVE  /\ k = 1 => FirstOf(v, order, 1, k)
             /\ k # 1 /\ v[order[k]] # v[order[k - 1]] => FirstOf(v, order, k, k)
             /\ \A f : k # 1 /\ v[order[k]] = v[order[k - 1]] /\ FirstOf(v, order, f, k - 1)
                         => FirstOf(v, order, f, k)
  <2>1. (\A x \in S : v[x] \in Int) /\ \A i, j \in 1..n : i < j => v[order[i]] >= v[order[j]]
    OBVIOUS
  <2> HIDE DEF v
  <2>2. QED BY <2>1, FirstStep
<1>2. \A k \in 1..n : \E f : FirstOf(v, order, f, k)
  <2> DEFINE Good == {k \in 1..n : \E f : FirstOf(v, order, f, k)}
  <2>1. \A k \in 1..n : k = 1 \/ k - 1 \in Good => k \in Good
    <3> HIDE DEF v
    <3>1. QED BY <1>1
  <2> HIDE DEF Good
  <2>2. \A k \in 1..n : k \in Good
    BY <2>1, Upwards
  <2>3. QED BY <2>2 DEF Good
<1>3. ASSUME NEW k \in 1..n, NEW f, FirstOf(v, order, f, k), NEW g, FirstOf(v, order, g, k)
      PROVE  f = g
  <2>1. f \in 1..k /\ g \in 1..k /\ order[f] \in S /\ order[g] \in S
    BY <1>3 DEF FirstOf
  <2>2. v[order[f]] = v[order[k]] /\ v[order[g]] = v[order[k]] /\ v[order[k]] \in Int
    BY <1>3 DEF FirstOf
  <2>3. f < g => v[order[f]] > v[order[k]]
    BY <1>3, <2>1 DEF FirstOf
  <2>4. g < f => v[order[g]] > v[order[k]]
    BY <1>3, <2>1 DEF FirstOf
  <2> HIDE DEF v
  <2>5. QED BY <2>1, <2>2, <2>3, <2>4
<1>4. \E rank : RanksIn(rank, order, a)
  <2> DEFINE rank == [k \in 1..n |-> CHOOSE f : FirstOf(v, order, f, k)]
  <2>1. \A k \in 1..n : FirstOf(v, order, rank[k], k)
    BY <1>2
  <2> DEFINE next == [k \in 1..n |-> IF k = 1 THEN 1
                                     ELSE IF v[order[k]] # v[order[k - 1]] THEN k ELSE rank[k - 1]]
  <2>2. ASSUME NEW k \in 1..n PROVE rank[k] = next[k]
    <3>1. next[k] = IF k = 1 THEN 1 ELSE IF v[order[k]] # v[order[k - 1]] THEN k ELSE rank[k - 1]
      OBVIOUS
    <3>2. k # 1 => k - 1 \in 1..n
      OBVIOUS
    <3> HIDE DEF rank, next, v
    <3>3. FirstOf(v, order, next[k], k)
      BY <1>1, <2>1, <3>1, <3>2
    <3>4. QED BY <1>3, <2>1, <3>3
  <2>3. rank = [k \in 1..n |-> rank[k]] /\ next = [k \in 1..n |-> next[k]]
    OBVIOUS
  <2>4. rank = next
    <3> HIDE DEF rank, next
    <3>1. QED BY <2>2, <2>3
  <2> HIDE DEF rank
  <2>5. rank = [k \in DOMAIN order |->
                  IF k = 1 THEN 1
                  ELSE IF a.scores[order[k]] # a.scores[order[k - 1]] THEN k ELSE rank[k - 1]]
    BY <1>0, <2>4, Zenon
  <2>6. RanksIn(rank, order, a)
    BY <2>5, Zenon DEF RanksIn
  <2>7. QED BY <2>6
<1>5. ASSUME NEW rank, RanksIn(rank, order, a)
      PROVE  \A k \in 1..n : FirstOf(v, order, rank[k], k)
  <2>1. \A k \in 1..n :
          rank[k] = IF k = 1 THEN 1 ELSE IF v[order[k]] # v[order[k - 1]] THEN k ELSE rank[k - 1]
    BY <1>0, <1>5 DEF RanksIn
  <2> DEFINE Good == {k \in 1..n : FirstOf(v, order, rank[k], k)}
  <2>2. \A k \in 1..n : k = 1 \/ k - 1 \in Good => k \in Good
    <3> HIDE DEF v
    <3>1. QED BY <1>1, <2>1
  <2> HIDE DEF Good
  <2>3. \A k \in 1..n : k \in Good
    BY <2>2, Upwards
  <2>4. QED BY <2>3 DEF Good
<1>6. QED BY <1>4, <1>5

(* A rank is one more than those who did better. *)
LEMMA RanksAlike == ASSUME PapersInv PROVE Tests!RanksRight
<1> SUFFICES ASSUME NEW a \in papers PROVE Tests!RanksRightIn(a, Tests!Ranking(a))
  BY DEF Tests!RanksRight
<1> DEFINE S == Tests!Sat(a)
           v == a.scores
           n == Cardinality(S)
           order == BestFirst(a)
           rank == CHOOSE g : RanksIn(g, order, a)
<1>1. /\ IsFiniteSet(S) /\ S \subseteq DOMAIN a.scores /\ n \in Nat
      /\ \A x \in S : v[x] \in Int
  BY SatIs, FS_CardinalityType
<1>2. order \in Tests!Orders(S) /\ \A j, k \in DOMAIN order : j < k => v[order[j]] >= v[order[k]]
  <2>1. \E o \in Tests!Orders(S) : Falling(o, v)
    <3> HIDE DEF S, v
    <3>1. QED BY <1>1, FallingExists
  <2>2. \E o \in Tests!Orders(S) : \A j, k \in DOMAIN o : j < k => a.scores[o[j]] >= a.scores[o[k]]
    BY <2>1 DEF Falling
  <2>3. QED BY <2>2, Zenon DEF BestFirst
<1>3. Tests!Ranking(a) =
        [s \in DOMAIN a.scores |->
           IF s \in S THEN rank[CHOOSE k \in DOMAIN order : order[k] = s] ELSE 0]
  BY RankingIs
<1> HIDE DEF S, order, rank
<1>4. /\ order \in [1..n -> S] /\ \A j, k \in 1..n : order[j] = order[k] => j = k
      /\ \A x \in S : \E k \in 1..n : order[k] = x
  BY <1>1, <1>2, OrderIs, OrderReaches
<1> HIDE DEF n
<1>5. DOMAIN order = 1..n /\ \A j, k \in 1..n : j < k => v[order[j]] >= v[order[k]]
  BY <1>2, <1>4
<1>6. \A k \in 1..n : FirstOf(v, order, rank[k], k)
  <2>1. \A x \in S : a.scores[x] \in Int
    BY <1>1
  <2>2. /\ \E g : RanksIn(g, order, a)
        /\ \A g : RanksIn(g, order, a) => \A k \in 1..n : FirstOf(a.scores, order, g[k], k)
    <3>1. \A j, k \in 1..n : j < k => a.scores[order[j]] >= a.scores[order[k]]
      BY <1>5
    <3>2. QED BY <1>1, <1>4, <2>1, <3>1, RankIsFirst
  <2>3. RanksIn(rank, order, a)
    BY <2>2 DEF rank
  <2>4. QED BY <2>2, <2>3
<1>7. ASSUME NEW s \in S
      PROVE  Tests!Ranking(a)[s] = 1 + Cardinality({t \in S : a.scores[t] > a.scores[s]})
  <2> DEFINE k == CHOOSE i \in DOMAIN order : order[i] = s
             f == rank[k]
             above == {t \in S : v[t] > v[s]}
  <2>1. Tests!Ranking(a)[s] = f
    BY <1>1, <1>3
  <2>2. k \in 1..n /\ order[k] = s
    <3>1. \E i \in DOMAIN order : order[i] = s
      BY <1>4, <1>5
    <3>2. QED BY <1>5, <3>1
  <2> HIDE DEF k, f
  <2>3. FirstOf(v, order, f, k)
    BY <1>6, <2>2 DEF f
  <2>4. /\ f \in Nat /\ f >= 1 /\ f <= n /\ v[order[f]] = v[s]
        /\ \A j \in 1..(f - 1) : v[order[j]] > v[s] /\ j \in 1..n
    BY <1>1, <2>2, <2>3 DEF FirstOf
  <2>5. ASSUME NEW j \in 1..n, v[order[j]] > v[s] PROVE j \in 1..(f - 1)
    <3>1. f <= j => v[order[j]] <= v[s]
      <4>1. f \in 1..n /\ order[f] \in S /\ order[j] \in S
        BY <1>4, <2>4
      <4>2. v[order[f]] \in Int /\ v[order[j]] \in Int
        BY <1>1, <4>1
      <4>3. f < j => v[order[f]] >= v[order[j]]
        BY <1>5, <4>1
      <4> HIDE DEF v
      <4>4. QED BY <2>4, <4>1, <4>2, <4>3
    <3>2. v[order[j]] \in Int /\ v[s] \in Int
      BY <1>1, <1>4
    <3> HIDE DEF v
    <3>3. QED BY <2>4, <2>5, <3>1, <3>2
  <2> DEFINE X == 1..(f - 1)
             name == [j \in X |-> order[j]]
  <2>6. IsFiniteSet(X) /\ Cardinality(X) = f - 1
    BY <2>4, FS_Interval
  <2>7. \A i, j \in X : name[i] = name[j] => i = j
    BY <1>4, <2>4
  <2>8. above = {name[j] : j \in X}
    <3>1. \A j \in X : name[j] = order[j] /\ name[j] \in above
      BY <1>4, <2>4
    <3>2. \A t \in above : \E j \in X : order[j] = t
      BY <1>4, <2>5
    <3> HIDE DEF above, X, name
    <3>3. QED BY <3>1, <3>2
  <2> HIDE DEF above, X, name
  <2>9. Cardinality(above) = f - 1
    BY <2>6, <2>7, <2>8, CountRenamed
  <2>10. Tests!Ranking(a)[s] = 1 + Cardinality(above)
    BY <2>1, <2>4, <2>9
  <2>11. QED BY <2>10 DEF above
<1>8. ASSUME NEW s \in DOMAIN a.scores, s \notin S PROVE Tests!Ranking(a)[s] = 0
  BY <1>3, <1>8
<1>9. ASSUME NEW s \in DOMAIN a.scores
      PROVE  Tests!Ranking(a)[s] = IF s \notin S THEN 0
               ELSE 1 + Tests!Cardinality({t \in S : a.scores[t] > a.scores[s]})
  <2>1. CASE s \in S
    BY <1>7, <2>1, TestsCount
  <2>2. CASE s \notin S
    BY <1>8, <2>2
  <2>3. QED BY <2>1, <2>2
<1>10. QED BY <1>9 DEF Tests!RanksRightIn, S

(* One of at most three slots is the first.                                 *)
LEMMA FirstSlot ==
  ASSUME NEW K, K \subseteq 1..3, K # {}
  PROVE  Tests!Min(K) \in K
<1>1. \E x \in K : \A y \in K : x <= y
  <2>1. \A k \in K : k = 1 \/ k = 2 \/ k = 3
    OBVIOUS
  <2>2. CASE 1 \in K
    BY <2>1, <2>2
  <2>3. CASE 1 \notin K /\ 2 \in K
    BY <2>1, <2>3
  <2>4. CASE 1 \notin K /\ 2 \notin K
    <3>1. \A k \in K : k = 3
      BY <2>1, <2>4
    <3>2. PICK k \in K : TRUE
      OBVIOUS
    <3>3. k = 3 /\ \A y \in K : k <= y
      BY <3>1
    <3>4. QED BY <3>3
  <2>5. QED BY <2>2, <2>3, <2>4
<1>2. QED BY <1>1 DEF Tests!Min

(* Choosing a batch, or no longer, leaves the others their colours. *)
LEMMA ToggleKeeps ==
  ASSUME PapersInv, NEW b \in Course
  PROVE  LET slots == Tests!DefaultSlots(papers)
             next == Tests!ToggleCompare(slots, b)
         IN  /\ \A k \in 1..3 : slots[k] \notin {b, ""} => next[k] = slots[k]
             /\ \A j, k \in 1..3 : j # k /\ next[j] # "" => next[j] # next[k]
<1> DEFINE B == {a.batch : a \in papers}
           n == Cardinality(B)
           assessed == CHOOSE order \in Tests!Orders(B) : TRUE
           none == ""
           slots == Tests!DefaultSlots(papers)
           next == Tests!ToggleCompare(slots, b)
           at == {k \in 1..3 : slots[k] = b}
           free == {k \in 1..3 : slots[k] = none}
<1>1. IsFiniteSet(B) /\ B \subseteq Course
  <2> DEFINE d == [a \in papers |-> a.batch]
  <2>1. B = {d[a] : a \in papers}
    OBVIOUS
  <2>2. B \subseteq Course
    BY DEF PapersInv
  <2> HIDE DEF B, d
  <2>3. IsFiniteSet({d[a] : a \in papers})
    BY HeadingsFinite DEF PapersInv
  <2>4. QED BY <2>1, <2>2, <2>3
<1>2. assessed \in Tests!Orders(B)
  <2> DEFINE v == [x \in B |-> 0]
  <2>1. \A x \in B : v[x] \in Int
    OBVIOUS
  <2> HIDE DEF v, B
  <2>2. \E order \in Tests!Orders(B) : Falling(order, v)
    BY <1>1, <2>1, FallingExists
  <2>3. QED BY <2>2
<1>3. slots = [k \in 1..3 |-> IF k \in DOMAIN assessed THEN assessed[k] ELSE none]
  BY DEF Tests!DefaultSlots, Tests!MaxCompare
<1>4. next = IF at # {} THEN [slots EXCEPT ![Tests!Min(at)] = none]
             ELSE IF free = {} THEN slots ELSE [slots EXCEPT ![Tests!Min(free)] = b]
  BY DEF Tests!ToggleCompare, Tests!MaxCompare
<1>5. none \notin Course
  BY TestsGiven
<1>6. at \subseteq 1..3 /\ free \subseteq 1..3
  OBVIOUS
<1>7. (\A k \in at : slots[k] = b) /\ \A k \in free : slots[k] = none
  OBVIOUS
<1>8. \A k \in 1..3 : slots[k] = b => k \in at
  OBVIOUS
<1> HIDE DEF B, assessed, none, slots, next, at, free
<1>9. assessed \in [1..n -> B] /\ \A j, k \in 1..n : assessed[j] = assessed[k] => j = k
  BY <1>2, OrderIs
<1> HIDE DEF n
<1>10. /\ DOMAIN slots = 1..3
       /\ \A k \in 1..3 : slots[k] = none \/ (k \in 1..n /\ slots[k] = assessed[k] /\ slots[k] \in Course)
  BY <1>1, <1>3, <1>9
<1>11. \A j, k \in 1..3 : j # k /\ slots[j] # none => slots[j] # slots[k]
  BY <1>9, <1>10
<1>12. /\ \A k \in 1..3 : slots[k] \notin {b, none} => next[k] = slots[k]
       /\ \A j, k \in 1..3 : j # k /\ next[j] # none => next[j] # next[k]
  <2>1. CASE at # {}
    <3> DEFINE m == Tests!Min(at)
    <3>1. m \in at
      BY <1>6, <2>1, FirstSlot
    <3>2. next = [slots EXCEPT ![m] = none] /\ m \in 1..3 /\ slots[m] = b
      BY <1>4, <1>6, <1>7, <2>1, <3>1
    <3> HIDE DEF m
    <3>3. next[m] = none /\ \A k \in 1..3 : k # m => next[k] = slots[k]
      BY <1>10, <3>2
    <3>4. QED BY <1>11, <3>2, <3>3
  <2>2. CASE at = {} /\ free = {}
    BY <1>4, <1>11, <2>2
  <2>3. CASE at = {} /\ free # {}
    <3> DEFINE m == Tests!Min(free)
    <3>1. m \in free
      BY <1>6, <2>3, FirstSlot
    <3>2. next = [slots EXCEPT ![m] = b] /\ m \in 1..3 /\ slots[m] = none
      BY <1>4, <1>6, <1>7, <2>3, <3>1
    <3> HIDE DEF m
    <3>3. next[m] = b /\ \A k \in 1..3 : k # m => next[k] = slots[k]
      BY <1>10, <3>2
    <3>4. \A k \in 1..3 : slots[k] # b
      BY <1>8, <2>3
    <3>5. QED BY <1>11, <3>2, <3>3, <3>4
  <2>4. QED BY <2>1, <2>2, <2>3
<1>13. QED BY <1>12 DEF slots, next, none

(* Colours stay, and both trends draw the same points. *)
LEMMA ColoursStay == ASSUME PapersInv PROVE Tests!ColoursKept
<1>1. ASSUME NEW b \in Course
      PROVE  {<<Tests!Stats(a).sum, Tests!Stats(a).appeared>> : a \in Tests!BatchTrend(b)} =
               UNION {{<<t.sum, t.n>> : t \in Tests!TrendOf(b, m, papers)} : m \in TestDay}
  <2> DEFINE pt == [a \in papers |-> <<Tests!Stats(a).sum, Tests!Stats(a).appeared>>]
             line == [a \in papers |-> [sum |-> Tests!Stats(a).sum, n |-> Tests!Stats(a).appeared]]
             dots == {<<Tests!Stats(a).sum, Tests!Stats(a).appeared>> : a \in Tests!BatchTrend(b)}
             month == [m \in TestDay |-> {<<t.sum, t.n>> : t \in Tests!TrendOf(b, m, papers)}]
  <2>1. \A a : a \in Tests!BatchTrend(b) <=> a \in papers /\ a.batch = b /\ Tests!Sat(a) # {}
    BY DEF Tests!BatchTrend, Tests!BatchTests
  <2>2. \A x : x \in dots <=> \E a \in papers : a.batch = b /\ Tests!Sat(a) # {} /\ x = pt[a]
    BY <2>1
  <2>3. \A m, t : t \in Tests!TrendOf(b, m, papers)
          <=> \E a \in papers : a.batch = b /\ a.date = m /\ Tests!Sat(a) # {} /\ t = line[a]
    BY DEF Tests!TrendOf
  <2>4. \A a \in papers : <<line[a].sum, line[a].n>> = pt[a]
    OBVIOUS
  <2>5. \A m \in TestDay : \A x : x \in month[m] <=> \E t \in Tests!TrendOf(b, m, papers) : x = <<t.sum, t.n>>
    OBVIOUS
  <2>6. UNION {{<<t.sum, t.n>> : t \in Tests!TrendOf(b, m, papers)} : m \in TestDay} = UNION {month[m] : m \in TestDay}
    OBVIOUS
  <2> HIDE DEF pt, line, dots, month
  <2>7. \A m \in TestDay : \A x : x \in month[m]
          <=> \E a \in papers : a.batch = b /\ a.date = m /\ Tests!Sat(a) # {} /\ x = pt[a]
    <3> SUFFICES ASSUME NEW m \in TestDay, NEW x
                 PROVE  x \in month[m]
                          <=> \E a \in papers : a.batch = b /\ a.date = m /\ Tests!Sat(a) # {} /\ x = pt[a]
      OBVIOUS
    <3>1. ASSUME x \in month[m]
          PROVE  \E a \in papers : a.batch = b /\ a.date = m /\ Tests!Sat(a) # {} /\ x = pt[a]
      <4>1. PICK t \in Tests!TrendOf(b, m, papers) : x = <<t.sum, t.n>>
        BY <2>5, <3>1, Zenon
      <4>2. PICK a \in papers : a.batch = b /\ a.date = m /\ Tests!Sat(a) # {} /\ t = line[a]
        <5>1. t \in Tests!TrendOf(b, m, papers)
          BY <4>1
        <5>2. QED BY <2>3, <5>1
      <4>3. x = pt[a]
        BY <2>4, <4>1, <4>2
      <4>4. QED BY <4>2, <4>3
    <3>2. ASSUME NEW a \in papers, a.batch = b, a.date = m, Tests!Sat(a) # {}, x = pt[a]
          PROVE  x \in month[m]
      <4>1. line[a] \in Tests!TrendOf(b, m, papers)
        BY <2>3, <3>2, Zenon
      <4>2. x = <<line[a].sum, line[a].n>>
        BY <2>4, <3>2
      <4>3. QED BY <2>5, <4>1, <4>2, Zenon
    <3>3. QED BY <3>1, <3>2
  <2>8. \A a \in papers : a.date \in TestDay
    BY DEF PapersInv
  <2>9. dots = UNION {month[m] : m \in TestDay}
    <3>1. ASSUME NEW x \in dots PROVE x \in UNION {month[m] : m \in TestDay}
      <4>1. PICK a \in papers : a.batch = b /\ Tests!Sat(a) # {} /\ x = pt[a]
        BY <2>2
      <4>2. a.date \in TestDay /\ x \in month[a.date]
        BY <2>7, <2>8, <4>1
      <4>3. QED BY <4>2
    <3>2. ASSUME NEW m \in TestDay, NEW x \in month[m] PROVE x \in dots
      BY <2>2, <2>7
    <3>3. QED BY <3>1, <3>2
  <2>10. QED BY <2>6, <2>9 DEF dots
<1>2. ASSUME NEW b \in Course
      PROVE  LET slots == Tests!DefaultSlots(papers)
                 next == Tests!ToggleCompare(slots, b)
             IN  /\ \A k \in 1..3 : slots[k] \notin {b, ""} => next[k] = slots[k]
                 /\ \A j, k \in 1..3 : j # k /\ next[j] # "" => next[j] # next[k]
  BY ToggleKeeps
<1>3. QED BY <1>1, <1>2, Zenon DEF Tests!ColoursKept, Tests!MaxCompare

(* What a test, a change of batches and a deletion leave true.              *)
AllTests == PapersInv /\ Tests!TypeOK

(* Before the first test. *)
LEMMA TestsStart == Tests!Init => AllTests
<1> SUFFICES ASSUME Tests!Init PROVE AllTests
  OBVIOUS
<1>1. papers = {} /\ Cardinality({}) = 0 /\ IsFiniteSet({}) /\ 1..0 = {}
  BY FS_EmptySet DEF Tests!Init
<1>2. DOMAIN pupils = Pupil /\ \A s \in Pupil : pupils[s].batches \subseteq Course
  BY DEF Tests!Init
<1>3. PapersInv
  BY <1>1, <1>2 DEF PapersInv
<1>4. {a.id : a \in papers} = {} /\ Tests!Cardinality(papers) = 0
  BY <1>1, TestsCount
<1>5. Tests!TypeOK
  BY <1>1, <1>2, <1>4 DEF Tests!TypeOK, Tests!OnFile
<1>6. QED BY <1>3, <1>5 DEF AllTests

(* The next test has the next number, and the roll of its batch. *)
LEMMA TestKeeps ==
  ASSUME AllTests, NEW b \in Course, NEW date \in TestDay, NEW max \in FullMarks,
         NEW roll, roll \subseteq DOMAIN pupils,
         NEW scores \in [roll -> {m \in Scores : m <= max}],
         Tests!addAssessment(b, date, max, scores)
  PROVE  AllTests'
<1> DEFINE x == [id |-> Tests!Cardinality(papers) + 1, batch |-> b, date |-> date, max |-> max, scores |-> scores]
<1>1. papers' = papers \cup {x} /\ pupils' = pupils
  BY DEF Tests!addAssessment
<1>2. PapersInv /\ IsFiniteSet(papers) /\ Cardinality(papers) \in Nat
  BY FS_CardinalityType DEF AllTests, PapersInv
<1>3. /\ x.id = Cardinality(papers) + 1 /\ x.batch = b /\ x.date = date /\ x.max = max /\ x.scores = scores
  BY TestsCount
<1>4. max \in Nat \ {0} /\ DOMAIN scores \subseteq Pupil
  BY <1>2, TestsGiven DEF PapersInv
<1>5. ASSUME NEW s \in DOMAIN scores PROVE scores[s] \in Int /\ -1 <= scores[s] /\ scores[s] <= max
  <2>1. scores[s] \in Nat \cup {-1} /\ scores[s] <= max
    BY TestsGiven
  <2>2. QED BY <2>1
<1> HIDE DEF x
<1>6. \A a \in papers : a.id \in Nat /\ a.id <= Cardinality(papers)
  BY <1>2 DEF PapersInv
<1>7. x \notin papers /\ \A a \in papers : a.id # x.id
  BY <1>2, <1>3, <1>6
<1>8. {a.id : a \in papers} = 1..Cardinality(papers)
  BY TestsCount DEF AllTests, Tests!TypeOK
<1>9. {a.id : a \in papers \cup {x}} = {a.id : a \in papers} \cup {Cardinality(papers) + 1}
  BY <1>3
<1>10. /\ IsFiniteSet(papers \cup {x}) /\ Cardinality(papers \cup {x}) = Cardinality(papers) + 1
       /\ {a.id : a \in papers \cup {x}} = 1..Cardinality(papers \cup {x})
  <2>1. /\ IsFiniteSet(papers \cup {x}) /\ Cardinality(papers \cup {x}) = Cardinality(papers) + 1
        /\ 1..Cardinality(papers \cup {x}) = (1..Cardinality(papers)) \cup {Cardinality(papers) + 1}
    BY <1>2, <1>7, OneMoreNumber
  <2>2. QED BY <1>8, <1>9, <2>1
<1>11. PapersInv'
  <2>1. IsFiniteSet(papers') /\ Cardinality(papers') = Cardinality(papers) + 1
    BY <1>1, <1>10
  <2>2. /\ x.id \in Nat /\ x.id <= Cardinality(papers')
        /\ x.batch \in Course /\ x.date \in TestDay /\ x.max \in Nat \ {0}
        /\ DOMAIN x.scores \subseteq Pupil
        /\ \A s \in DOMAIN x.scores : x.scores[s] \in Int /\ -1 <= x.scores[s] /\ x.scores[s] <= x.max
    BY <1>2, <1>3, <1>4, <1>5, <2>1
  <2>3. ASSUME NEW a \in papers
        PROVE  /\ a.id \in Nat /\ a.id <= Cardinality(papers')
               /\ a.batch \in Course /\ a.date \in TestDay /\ a.max \in Nat \ {0}
               /\ DOMAIN a.scores \subseteq Pupil
               /\ \A s \in DOMAIN a.scores : a.scores[s] \in Int /\ -1 <= a.scores[s] /\ a.scores[s] <= a.max
    <3>1. a.id \in Nat /\ a.id <= Cardinality(papers')
      BY <1>2, <1>6, <2>1
    <3>2. QED BY <1>2, <3>1 DEF PapersInv
  <2>4. \A a, c \in papers' : a.id = c.id => a = c
    BY <1>1, <1>2, <1>7 DEF PapersInv
  <2>5. DOMAIN pupils' \subseteq Pupil /\ \A s \in DOMAIN pupils' : pupils'[s].batches \subseteq Course
    BY <1>1, <1>2 DEF PapersInv
  <2>6. \A a \in papers' : a = x \/ a \in papers
    BY <1>1
  <2>7. QED BY <2>1, <2>2, <2>3, <2>4, <2>5, <2>6 DEF PapersInv
<1>12. Tests!TypeOK'
  <2>1. {a.id : a \in papers'} = 1..Tests!Cardinality(papers')
    BY <1>1, <1>10, TestsCount
  <2>2. ASSUME NEW a \in papers'
        PROVE  /\ a.batch \in Course /\ DOMAIN a.scores \subseteq Pupil
               /\ \A s \in DOMAIN a.scores : a.scores[s] \in -1..a.max
    BY <1>11 DEF PapersInv
  <2>3. QED BY <1>11, <2>1, <2>2 DEF Tests!TypeOK, Tests!Absent, Tests!OnFile, PapersInv
<1>13. QED BY <1>11, <1>12 DEF AllTests

(* Who is on file, and where, touches no test. *)
LEMMA MovesKeep ==
  ASSUME AllTests, papers' = papers, DOMAIN pupils' \subseteq Pupil,
         \A s \in DOMAIN pupils' : pupils'[s].batches \subseteq Course
  PROVE  AllTests'
  BY DEF AllTests, PapersInv, Tests!TypeOK, Tests!OnFile

(* So does every step. *)
LEMMA TestsStep == AllTests /\ [Tests!Next]_(Tests!vars) => AllTests'
<1> SUFFICES ASSUME AllTests, [Tests!Next]_(Tests!vars) PROVE AllTests'
  OBVIOUS
<1>1. DOMAIN pupils \subseteq Pupil /\ \A s \in DOMAIN pupils : pupils[s].batches \subseteq Course
  BY DEF AllTests, PapersInv
<1>2. ASSUME NEW b \in Course, NEW date \in TestDay, NEW max \in FullMarks,
             \E scores \in [{s \in DOMAIN pupils : pupils[s].active /\ b \in pupils[s].batches} ->
                              {m \in Scores : m <= max}] : Tests!addAssessment(b, date, max, scores)
      PROVE  AllTests'
  <2> DEFINE roll == {s \in DOMAIN pupils : pupils[s].active /\ b \in pupils[s].batches}
  <2>1. PICK scores \in [roll -> {m \in Scores : m <= max}] : Tests!addAssessment(b, date, max, scores)
    BY <1>2
  <2>2. roll \subseteq DOMAIN pupils
    OBVIOUS
  <2> HIDE DEF roll
  <2>3. QED BY <2>1, <2>2, TestKeeps
<1>3. ASSUME NEW s \in DOMAIN pupils, Tests!DeleteStudent(s) PROVE AllTests'
  <2>1. papers' = papers /\ pupils' = [x \in DOMAIN pupils \ {s} |-> pupils[x]]
    BY <1>3 DEF Tests!DeleteStudent, Tests!OnFile
  <2>2. DOMAIN pupils' \subseteq Pupil /\ \A x \in DOMAIN pupils' : pupils'[x].batches \subseteq Course
    BY <1>1, <2>1
  <2>3. QED BY <2>1, <2>2, MovesKeep
<1>4. ASSUME NEW s \in DOMAIN pupils, NEW joined \in SUBSET Course, NEW active \in BOOLEAN,
             Tests!ChangeStudent(s, joined, active)
      PROVE  AllTests'
  <2>1. papers' = papers /\ pupils' = [pupils EXCEPT ![s] = [batches |-> joined, active |-> active]]
    BY <1>4 DEF Tests!ChangeStudent
  <2>2. DOMAIN pupils' = DOMAIN pupils /\ \A x \in DOMAIN pupils : x # s => pupils'[x] = pupils[x]
    BY <2>1
  <2>3. pupils'[s].batches = joined
    BY <2>1
  <2>4. DOMAIN pupils' \subseteq Pupil /\ \A x \in DOMAIN pupils' : pupils'[x].batches \subseteq Course
    BY <1>1, <2>2, <2>3
  <2>5. QED BY <2>1, <2>4, MovesKeep
<1>5. CASE UNCHANGED Tests!vars
  BY <1>5 DEF Tests!vars, AllTests, PapersInv, Tests!TypeOK, Tests!OnFile
<1>6. QED BY <1>2, <1>3, <1>4, <1>5 DEF Tests!Next, Tests!OnFile

(* Tests are typed, numbered from one, and scored within their marks.       *)
THEOREM TestsNumbered == Tests!Spec => []Tests!TypeOK
<1>1. AllTests => Tests!TypeOK
  BY DEF AllTests
<1>2. QED BY TestsStart, TestsStep, <1>1, PTL DEF Tests!Spec

(* A result, an average, a grade and a rank are the same on every screen,   *)
(* for any students, batches, subjects, days, full marks and scores.        *)
THEOREM ResultFiguresAgree == Tests!Spec => []ResultsAgree
<1>1. AllTests => ResultsAgree
  BY ReportAlike, StudentsAlike, RanksAlike, ColoursStay DEF AllTests, ResultsAgree, Tests!ResultsAgree
<1>2. QED BY TestsStart, TestsStep, <1>1, PTL DEF Tests!Spec

-----------------------------------------------------------------------------
(* The timetable.  Null is not the number of a batch, and what is entered of *)
(* a batch has the fields of one.                                           *)
NullIsNoBatch == Null \notin Int

Entered(field) == {f[field] : f \in Forms}
Slot == [start : Int, end : Int, days : Entered("days"), from : Entered("from"),
          teacher : Entered("teacher"), room : Entered("room"), campus : Entered("campus"),
          status : Entered("status") \cup {"Active", "Archived"}]
FormsAreBatches == Forms \subseteq Slot

(* The order of a day's list. *)
Quadruple == Int \X Int \X Int \X Int

Before(x, y) ==
  \/ x[1] < y[1]
  \/ x[1] = y[1] /\ x[2] < y[2]
  \/ x[1] = y[1] /\ x[2] = y[2] /\ x[3] < y[3]
  \/ x[1] = y[1] /\ x[2] = y[2] /\ x[3] = y[3] /\ x[4] < y[4]

(* The order by four numbers, the first that differs deciding. *)
LEMMA EarlierSpelt ==
  \A x, y \in Quadruple : Days!Earlier(x, y) <=> Before(x, y)
<1> SUFFICES ASSUME NEW x \in Quadruple, NEW y \in Quadruple
             PROVE  Days!Earlier(x, y) <=> Before(x, y)
  OBVIOUS
<1>1. PICK x1 \in Int, x2 \in Int, x3 \in Int, x4 \in Int : x = <<x1, x2, x3, x4>>
  BY DEF Quadruple
<1>2. PICK y1 \in Int, y2 \in Int, y3 \in Int, y4 \in Int : y = <<y1, y2, y3, y4>>
  BY DEF Quadruple
<1>3. Days!Earlier(x, y) <=> \E i \in {1, 2, 3, 4} : x[i] < y[i] /\ \A j \in 1..(i - 1) : x[j] = y[j]
  <2>1. DOMAIN x = {1, 2, 3, 4}
    BY <1>1
  <2>2. QED BY <2>1 DEF Days!Earlier
<1>4. /\ \A j \in 1..(1 - 1) : x[j] = y[j]
      /\ (\A j \in 1..(2 - 1) : x[j] = y[j]) <=> x[1] = y[1]
      /\ (\A j \in 1..(3 - 1) : x[j] = y[j]) <=> x[1] = y[1] /\ x[2] = y[2]
      /\ (\A j \in 1..(4 - 1) : x[j] = y[j]) <=> x[1] = y[1] /\ x[2] = y[2] /\ x[3] = y[3]
  <2>1. 1..0 = {} /\ 1..1 = {1} /\ 1..2 = {1, 2} /\ 1..3 = {1, 2, 3}
    OBVIOUS
  <2>2. QED BY <2>1
<1>5. QED BY <1>3, <1>4 DEF Before

(* It is a strict order, total on classes with different numbers. *)
LEMMA EarlierOrders ==
  ASSUME NEW x \in Quadruple, NEW y \in Quadruple, NEW z \in Quadruple
  PROVE  /\ x[4] # y[4] => Days!Earlier(x, y) \/ Days!Earlier(y, x)
         /\ Days!Earlier(x, y) /\ Days!Earlier(y, z) => Days!Earlier(x, z)
<1>1. \A q \in Quadruple : q[1] \in Int /\ q[2] \in Int /\ q[3] \in Int /\ q[4] \in Int
  BY DEF Quadruple
<1>2. /\ x[1] \in Int /\ x[2] \in Int /\ x[3] \in Int /\ x[4] \in Int
      /\ y[1] \in Int /\ y[2] \in Int /\ y[3] \in Int /\ y[4] \in Int
      /\ z[1] \in Int /\ z[2] \in Int /\ z[3] \in Int /\ z[4] \in Int
  BY <1>1
<1>3. x[4] # y[4] => Before(x, y) \/ Before(y, x)
  BY <1>2 DEF Before
<1>4. Before(x, y) /\ Before(y, z) => Before(x, z)
  BY <1>2 DEF Before
<1>5. QED BY <1>3, <1>4, EarlierSpelt

(* Of finitely many classes one is the first, and one the last. *)
Ranked(S, r) == r \in [S -> Quadruple] /\ \A b \in S : r[b][4] = b

(* A smallest list without a first class would lose one by a class less. *)
LEMMA SomeFirst ==
  ASSUME NEW S, S # {}, IsFiniteSet(S), NEW r, Ranked(S, r)
  PROVE  \E b \in S : \A c \in S \ {b} : Days!Earlier(r[b], r[c])
<1> DEFINE IsFirst(b, T) == \A c \in T \ {b} : Days!Earlier(r[b], r[c])
           Bad == {T \in SUBSET S : T # {} /\ \A b \in T : ~IsFirst(b, T)}
<1> SUFFICES ASSUME Bad # {} PROVE FALSE
  OBVIOUS
<1>1. Bad \in SUBSET (SUBSET S)
  OBVIOUS
<1> HIDE DEF Bad
<1>2. PICK T \in Bad : \A U \in Bad : U \subseteq T => U = T
  BY <1>1, SmallestSubset
<1> USE DEF Bad
<1>3. PICK x \in T : TRUE
  OBVIOUS
<1>4. CASE T = {x}
  BY <1>4
<1>5. CASE T # {x}
  <2>1. T \ {x} # {} /\ T \ {x} # T /\ T \ {x} \in SUBSET S
    BY <1>3, <1>5
  <2>2. T \ {x} \notin Bad
    BY <1>2, <2>1
  <2>3. PICK b \in T \ {x} : IsFirst(b, T \ {x})
    BY <2>1, <2>2
  <2>4. \A c \in S : r[c] \in Quadruple /\ r[c][4] = c
    BY DEF Ranked
  <2>5. x \in S /\ b \in S /\ b # x
    BY <1>3, <2>3
  <2>7. CASE Days!Earlier(r[b], r[x])
    <3>1. IsFirst(b, T)
      BY <2>3, <2>7
    <3>2. QED BY <2>3, <3>1
  <2>8. CASE ~Days!Earlier(r[b], r[x])
    <3>1. Days!Earlier(r[x], r[b])
      BY <2>4, <2>5, <2>8, EarlierOrders
    <3>2. ASSUME NEW c \in T \ {x} PROVE Days!Earlier(r[x], r[c])
      <4>1. c \in S
        OBVIOUS
      <4>2. c # b => Days!Earlier(r[b], r[c])
        BY <2>3
      <4>3. QED BY <2>4, <2>5, <3>1, <4>1, <4>2, EarlierOrders
    <3>3. QED BY <1>3, <3>2
  <2>9. QED BY <2>7, <2>8
<1>6. QED BY <1>4, <1>5

(* The same from the other end. *)
LEMMA SomeLast ==
  ASSUME NEW S, S # {}, IsFiniteSet(S), NEW r, Ranked(S, r)
  PROVE  \E b \in S : \A c \in S \ {b} : Days!Earlier(r[c], r[b])
<1> DEFINE IsLast(b, T) == \A c \in T \ {b} : Days!Earlier(r[c], r[b])
           Bad == {T \in SUBSET S : T # {} /\ \A b \in T : ~IsLast(b, T)}
<1> SUFFICES ASSUME Bad # {} PROVE FALSE
  OBVIOUS
<1>1. Bad \in SUBSET (SUBSET S)
  OBVIOUS
<1> HIDE DEF Bad
<1>2. PICK T \in Bad : \A U \in Bad : U \subseteq T => U = T
  BY <1>1, SmallestSubset
<1> USE DEF Bad
<1>3. PICK x \in T : TRUE
  OBVIOUS
<1>4. CASE T = {x}
  BY <1>4
<1>5. CASE T # {x}
  <2>1. T \ {x} # {} /\ T \ {x} # T /\ T \ {x} \in SUBSET S
    BY <1>3, <1>5
  <2>2. T \ {x} \notin Bad
    BY <1>2, <2>1
  <2>3. PICK b \in T \ {x} : IsLast(b, T \ {x})
    BY <2>1, <2>2
  <2>4. \A c \in S : r[c] \in Quadruple /\ r[c][4] = c
    BY DEF Ranked
  <2>5. x \in S /\ b \in S /\ b # x
    BY <1>3, <2>3
  <2>7. CASE Days!Earlier(r[x], r[b])
    <3>1. IsLast(b, T)
      BY <2>3, <2>7
    <3>2. QED BY <2>3, <3>1
  <2>8. CASE ~Days!Earlier(r[x], r[b])
    <3>1. Days!Earlier(r[b], r[x])
      BY <2>4, <2>5, <2>8, EarlierOrders
    <3>2. ASSUME NEW c \in T \ {x} PROVE Days!Earlier(r[c], r[x])
      <4>1. c \in S
        OBVIOUS
      <4>2. c # b => Days!Earlier(r[c], r[b])
        BY <2>3
      <4>3. QED BY <2>4, <2>5, <3>1, <4>1, <4>2, EarlierOrders
    <3>3. QED BY <1>3, <3>2
  <2>9. QED BY <2>7, <2>8
<1>6. QED BY <1>4, <1>5

Timetabled(bs) == bs \in Seq(Slot)
Timed(ss) == \A k \in DOMAIN ss : ss[k].start \in Int

(* The batches are numbered from 1. *)
LEMMA BookSpelt ==
  ASSUME NEW bs, Timetabled(bs)
  PROVE  Len(bs) \in Nat /\ DOMAIN bs = 1..Len(bs) /\ \A b \in DOMAIN bs : b \in Int /\ bs[b] \in Slot
  BY DEF Timetabled

(* The first and the last of a list are on it. *)
LEMMA EndsAreListed ==
  ASSUME NEW bs, Timetabled(bs), NEW ss, Timed(ss), NEW d, NEW S, S # {}, S \subseteq DOMAIN bs
  PROVE  Days!FirstOf(S, d, bs, ss) \in S /\ Days!LastOf(S, d, bs, ss) \in S
<1> DEFINE r == [b \in S |-> Days!Rank(b, d, bs, ss)]
<1>1. /\ Len(bs) \in Nat /\ S \subseteq 1..Len(bs)
      /\ \A b \in S : b \in Int /\ bs[b] \in Slot
  BY BookSpelt
<1>2. IsFiniteSet(S)
  BY <1>1, FS_Interval, FS_Subset
<1>3. ASSUME NEW b \in S
      PROVE  Days!Rank(b, d, bs, ss) \in Quadruple /\ Days!Rank(b, d, bs, ss)[4] = b
  <2>1. bs[b].start \in Int
    BY <1>1 DEF Slot
  <2>2. (IF <<b, d>> \in DOMAIN ss THEN ss[<<b, d>>].start ELSE bs[b].start) \in Int
    BY <2>1 DEF Timed
  <2>3. (IF b \in Days!Extras(d, bs, ss) THEN 1 ELSE 0) \in Int
    OBVIOUS
  <2>4. QED BY <1>1, <2>1, <2>2, <2>3 DEF Days!Rank, Quadruple
<1>4. Ranked(S, r)
  BY <1>3 DEF Ranked
<1>5. \A b \in S : r[b] = Days!Rank(b, d, bs, ss)
  OBVIOUS
<1> HIDE DEF r
<1>6. PICK first \in S : \A c \in S \ {first} : Days!Earlier(r[first], r[c])
  BY <1>2, <1>4, SomeFirst
<1>7. PICK last \in S : \A c \in S \ {last} : Days!Earlier(r[c], r[last])
  BY <1>2, <1>4, SomeLast
<1>8. \E b \in S : \A c \in S \ {b} : Days!Earlier(Days!Rank(b, d, bs, ss), Days!Rank(c, d, bs, ss))
  BY <1>5, <1>6
<1>9. \E b \in S : \A c \in S \ {b} : Days!Earlier(Days!Rank(c, d, bs, ss), Days!Rank(b, d, bs, ss))
  BY <1>5, <1>7
<1>10. QED BY <1>8, <1>9 DEF Days!FirstOf, Days!LastOf

(* The class a day opens by itself is one of its list. *)
LEMMA DefaultIsListed ==
  ASSUME NEW bs, Timetabled(bs), NEW ss, Timed(ss), NEW d, NEW t, NEW S, S \subseteq DOMAIN bs
  PROVE  Days!DefaultClass(S, d, bs, ss, t) \in S \cup {Null}
<1> DEFINE of(status) == Days!OfStatus(S, status, d, bs, ss, t)
<1>1. \A status : of(status) \subseteq S
  BY DEF Days!OfStatus
<1>2. \A T \in SUBSET S : T # {} => Days!FirstOf(T, d, bs, ss) \in S /\ Days!LastOf(T, d, bs, ss) \in S
  BY EndsAreListed
<1>3. Days!DefaultClass(S, d, bs, ss, t) =
        IF of("live") # {} THEN Days!FirstOf(of("live"), d, bs, ss)
        ELSE IF of("missed") # {} THEN Days!LastOf(of("missed"), d, bs, ss)
        ELSE IF of("upcoming") # {} THEN Days!FirstOf(of("upcoming"), d, bs, ss)
        ELSE IF S # {} THEN Days!FirstOf(S, d, bs, ss) ELSE Null
  BY DEF Days!DefaultClass
<1> HIDE DEF of
<1>4. QED BY <1>1, <1>2, <1>3

(* The page's address, and that it names the class in view. *)
Address(p) == p = [field \in {"viewer", "date", "batch", "all"} |-> p[field]]
Names(p, bs, ss, t) == Days!Selected(p, bs, ss, t) # Null => Days!Requested(p, bs, ss, t) # Null

(* A class on view can be asked for. *)
LEMMA InViewCanBeAsked ==
  ASSUME NullIsNoBatch, NEW bs, Timetabled(bs), NEW ss, Timed(ss), NEW t, NEW p, NEW q, q.date = p.date,
         Days!Selected(p, bs, ss, t) # Null, q.batch = Days!Selected(p, bs, ss, t)
  PROVE  Days!Requested(q, bs, ss, t) = Days!Selected(p, bs, ss, t)
<1> DEFINE all == Days!ClassEntriesFor(Days!DateOf(p, t), bs, ss)
           listed == Days!Listed(p, bs, ss, t)
           chosen == Days!DefaultClass(listed, Days!DateOf(p, t), bs, ss, t)
<1>1. Days!DateOf(q, t) = Days!DateOf(p, t)
  BY DEF Days!DateOf
<1>2. all \subseteq DOMAIN bs /\ listed \subseteq all
  BY DEF Days!ClassEntriesFor, Days!ClassesOn, Days!Extras, Days!Listed
<1>3. CASE Days!Requested(p, bs, ss, t) # Null
  BY <1>1, <1>3 DEF Days!Selected, Days!Requested
<1>4. CASE Days!Requested(p, bs, ss, t) = Null
  <2>1. Days!Selected(p, bs, ss, t) = chosen
    BY <1>4 DEF Days!Selected
  <2> HIDE DEF listed
  <2>2. chosen \in listed \cup {Null}
    BY <1>2, DefaultIsListed
  <2>3. q.batch \in all
    BY <1>2, <2>1, <2>2
  <2>4. QED BY <1>1, <2>1, <2>3 DEF Days!Requested
<1>5. QED BY <1>3, <1>4

(* What is pinned names the class in view, and leaves it in view. *)
LEMMA PinnedNames ==
  ASSUME NullIsNoBatch, NEW bs, Timetabled(bs), NEW ss, Timed(ss), NEW t, NEW p, p # Null, Address(p)
  PROVE  LET q == Days!Pinned(p, bs, ss, t)
         IN Address(q) /\ Names(q, bs, ss, t)
<1> DEFINE q == Days!Pinned(p, bs, ss, t)
           was == Days!Selected(p, bs, ss, t)
<1>1. CASE was = Null
  BY <1>1 DEF Days!Pinned, Names
<1>2. CASE was # Null
  <2>1. q = [p EXCEPT !.batch = was]
    BY <1>2 DEF Days!Pinned
  <2> HIDE DEF q, was
  <2>2. Address(q) /\ q.batch = was /\ q.date = p.date
    BY <2>1 DEF Address
  <2> USE DEF was
  <2>3. Days!Requested(q, bs, ss, t) = was
    BY <1>2, <2>2, InViewCanBeAsked
  <2>4. QED BY <1>2, <2>2, <2>3 DEF Names, q
<1>3. QED BY <1>1, <1>2

(* While batches are added and put back, and registers saved, what can be   *)
(* asked for on a day still can.                                            *)
Grown(bs, ss, bt, st) ==
  /\ DOMAIN bs \subseteq DOMAIN bt /\ DOMAIN ss \subseteq DOMAIN st
  /\ \A b \in DOMAIN bs : /\ bt[b].days = bs[b].days /\ bt[b].from = bs[b].from
                          /\ bt[b].status # bs[b].status => bt[b].status # "Archived"

(* So the class in view stays in view. *)
LEMMA ViewStays ==
  ASSUME NullIsNoBatch, NEW bs, Timetabled(bs), NEW ss, NEW t, NEW bt, NEW st, NEW u, Grown(bs, ss, bt, st),
         u.day = t.day, NEW p, p # Null, Address(p), Names(p, bs, ss, t), Days!Selected(p, bs, ss, t) # Null
  PROVE  /\ Days!Pinned(p, bt, st, u) = p
         /\ Days!Selected(p, bt, st, u) = Days!Selected(p, bs, ss, t)
<1>1. Days!DateOf(p, u) = Days!DateOf(p, t)
  BY DEF Days!DateOf
<1>2. Days!Requested(p, bs, ss, t) # Null /\ Days!Selected(p, bs, ss, t) = p.batch
  BY DEF Names, Days!Selected
<1>3. /\ p.batch # Null
      /\ \/ p.batch \in Days!ClassEntriesFor(Days!DateOf(p, t), bs, ss)
         \/ p.batch \in DOMAIN bs /\ bs[p.batch].status # "Archived"
  BY <1>2 DEF Days!Requested
<1>4. \/ p.batch \in Days!ClassEntriesFor(Days!DateOf(p, t), bt, st)
      \/ p.batch \in DOMAIN bt /\ bt[p.batch].status # "Archived"
  BY <1>3 DEF Days!ClassEntriesFor, Days!ClassesOn, Days!Extras, Grown
<1>5. Days!Requested(p, bt, st, u) = p.batch
  BY <1>1, <1>4 DEF Days!Requested
<1>6. Days!Selected(p, bt, st, u) = p.batch
  BY <1>3, <1>5 DEF Days!Selected
<1>7. [p EXCEPT !.batch = p.batch] = p
  BY DEF Address
<1>8. QED BY <1>2, <1>3, <1>6, <1>7 DEF Days!Pinned

DayInv ==
  /\ Timetabled(batches) /\ Timed(saved)
  /\ clock = [day |-> clock.day, hour |-> clock.hour]
  /\ address # Null => Address(address) /\ Names(address, batches, saved, clock)
  /\ toast # Null => toast.batch \in DOMAIN batches /\ toast.status # "Archived"
                      /\ toast.status \in Entered("status") \cup {"Active", "Archived"}

(* A batch whose status changes is one, and its other fields stay. *)
LEMMA StatusChange ==
  ASSUME Timetabled(batches), NEW b \in DOMAIN batches,
         NEW st \in Entered("status") \cup {"Active", "Archived"},
         batches' = [batches EXCEPT ![b].status = st]
  PROVE  /\ Timetabled(batches') /\ DOMAIN batches' = DOMAIN batches
         /\ \A c \in DOMAIN batches : c # b => batches'[c] = batches[c]
         /\ batches'[b].status = st
         /\ \A field \in {"start", "end", "days", "from", "teacher", "room", "campus"} :
              batches'[b][field] = batches[b][field]
<1>1. batches[b] \in Slot /\ DOMAIN batches = 1..Len(batches) /\ Len(batches) \in Nat
  BY BookSpelt
<1> DEFINE e == [batches[b] EXCEPT !.status = st]
<1>2. e \in Slot
  BY <1>1 DEF Slot
<1>3. e.status = st /\ \A field \in {"start", "end", "days", "from", "teacher", "room", "campus"} :
                          e[field] = batches[b][field]
  BY <1>1 DEF Slot
<1>4. batches' = [batches EXCEPT ![b] = e]
  OBVIOUS
<1> HIDE DEF e
<1>5. Timetabled(batches')
  BY <1>2, <1>4 DEF Timetabled
<1>6. DOMAIN batches' = DOMAIN batches /\ batches'[b] = e /\ \A c \in DOMAIN batches : c # b => batches'[c] = batches[c]
  BY <1>1, <1>4
<1>7. QED BY <1>3, <1>5, <1>6

(* A new batch comes after the others. *)
LEMMA BatchAdded ==
  ASSUME Timetabled(batches), NEW e \in Slot, batches' = Append(batches, e)
  PROVE  /\ Timetabled(batches') /\ DOMAIN batches' = DOMAIN batches \cup {Len(batches) + 1}
         /\ \A c \in DOMAIN batches : c < Len(batches) + 1 /\ batches'[c] = batches[c]
  BY BookSpelt DEF Timetabled

KeepsRoll ==
  LET was == Days!Selected(address, batches, saved, clock) IN
  address # Null /\ was # Null /\ clock'.day = clock.day /\ <<batches, saved, clock>>' # <<batches, saved, clock>> =>
    address' # Null /\ Days!Selected(address', batches', saved', clock') = was

Warned(a, b) ==
  \/ \E x \in {a, b} \cap DOMAIN batches : batches[x].status = "Archived"
  \/ b \in Days!FindClashes(batches'[a], batches, a)
  \/ a \in Days!FindClashes(batches'[b], batches, b)
NewlyBookedTwice(a, b) ==
  a < b /\ Days!BookedTwice(batches', a, b)
    /\ ~(b \in DOMAIN batches /\ Days!BookedTwice(batches, a, b))
WarnsFirst == \A a, b \in DOMAIN batches' : NewlyBookedTwice(a, b) => Warned(a, b)

(* The page that follows the store names its class and keeps it for the day. *)
LEMMA RenderKeeps ==
  ASSUME NullIsNoBatch, DayInv, Timetabled(batches'), Timed(saved'), Days!Render, Grown(batches, saved, batches', saved')
  PROVE  /\ address' # Null => Address(address') /\ Names(address', batches', saved', clock')
         /\ KeepsRoll
<1>1. address' = Days!Pinned(address, batches', saved', clock')
  BY DEF Days!Render
<1>2. CASE address = Null
  BY <1>1, <1>2 DEF Days!Pinned, KeepsRoll
<1>3. CASE address # Null
  <2>1. Address(address) /\ Names(address, batches, saved, clock) /\ Timetabled(batches)
    BY <1>3 DEF DayInv
  <2>2. PICK bt, st, u : bt = batches' /\ st = saved' /\ u = clock'
    OBVIOUS
  <2>3. LET q == Days!Pinned(address, bt, st, u) IN Address(q) /\ Names(q, bt, st, u)
    BY <1>3, <2>1, <2>2, PinnedNames
  <2>4. ASSUME Days!Selected(address, batches, saved, clock) # Null, clock'.day = clock.day
        PROVE  /\ Days!Pinned(address, bt, st, u) = address
               /\ Days!Selected(address, bt, st, u) = Days!Selected(address, batches, saved, clock)
    <3>1. Grown(batches, saved, bt, st) /\ u.day = clock.day
      BY <2>2, <2>4
    <3>2. QED BY <1>3, <2>1, <2>4, <3>1, ViewStays
  <2>5. address' # Null => Address(address') /\ Names(address', batches', saved', clock')
    BY <1>1, <2>2, <2>3
  <2>6. KeepsRoll
    BY <1>1, <1>3, <2>2, <2>4 DEF KeepsRoll
  <2>7. QED BY <2>5, <2>6
<1>4. QED BY <1>2, <1>3

(* Two batches that are booked twice meet in a day at an hour. *)
LEMMA BookedTwiceClashes ==
  ASSUME NEW bs, Timetabled(bs), NEW cs, Timetabled(cs), NEW a \in DOMAIN bs, NEW b \in DOMAIN bs, a # b,
         Days!BookedTwice(bs, a, b)
  PROVE  /\ b \in DOMAIN cs /\ cs[b] = bs[b] => b \in Days!FindClashes(bs[a], cs, a)
         /\ a \in DOMAIN cs /\ cs[a] = bs[a] => a \in Days!FindClashes(bs[b], cs, b)
<1>1. /\ bs[a].start \in Int /\ bs[a].end \in Int /\ bs[b].start \in Int /\ bs[b].end \in Int
  BY BookSpelt DEF Slot
<1>2. PICK w \in bs[a].days \cap bs[b].days, h \in Days!Hour :
        {bs[a].start, bs[b].start} \subseteq 0..h /\ h < bs[a].end /\ h < bs[b].end
  BY DEF Days!BookedTwice
<1>3. h \in Int /\ bs[a].start <= h /\ bs[b].start <= h
  BY <1>1, <1>2 DEF Days!Hour
<1>4. bs[a].start < bs[b].end /\ bs[b].start < bs[a].end
  BY <1>1, <1>2, <1>3
<1>5. Days!ClashDays(bs[a], bs[b]) # {} /\ Days!ClashDays(bs[b], bs[a]) # {}
  BY <1>2, <1>4 DEF Days!ClashDays
<1>6. /\ bs[a].status # "Archived" /\ bs[b].status # "Archived"
      /\ bs[a].teacher = bs[b].teacher \/ (bs[a].room = bs[b].room /\ bs[a].campus = bs[b].campus)
  BY DEF Days!BookedTwice
<1>7. QED BY <1>5, <1>6 DEF Days!FindClashes

(* Whether two batches are booked twice is a matter of their fields. *)
LEMMA SameFieldsSameBooking ==
  ASSUME NEW bs, NEW cs, NEW a, NEW b, Days!BookedTwice(cs, a, b),
         bs[a].status # "Archived", bs[b].status # "Archived",
         \A x \in {a, b} : \A field \in {"start", "end", "days", "teacher", "room", "campus"} :
           bs[x][field] = cs[x][field]
  PROVE  Days!BookedTwice(bs, a, b)
<1>1. /\ bs[a].start = cs[a].start /\ bs[a].end = cs[a].end /\ bs[a].days = cs[a].days
      /\ bs[b].start = cs[b].start /\ bs[b].end = cs[b].end /\ bs[b].days = cs[b].days
      /\ bs[a].teacher = cs[a].teacher /\ bs[a].room = cs[a].room /\ bs[a].campus = cs[a].campus
      /\ bs[b].teacher = cs[b].teacher /\ bs[b].room = cs[b].room /\ bs[b].campus = cs[b].campus
  OBVIOUS
<1>2. QED BY <1>1 DEF Days!BookedTwice

(* Archiving, and putting back what was archived, book nobody unseen. *)
LEMMA StatusWarns ==
  ASSUME Timetabled(batches), NEW x \in DOMAIN batches,
         NEW st \in Entered("status") \cup {"Active", "Archived"},
         batches' = [batches EXCEPT ![x].status = st]
  PROVE  WarnsFirst
<1>1. /\ DOMAIN batches' = DOMAIN batches
      /\ \A c \in DOMAIN batches : c # x => batches'[c] = batches[c]
      /\ \A field \in {"start", "end", "days", "from", "teacher", "room", "campus"} :
           batches'[x][field] = batches[x][field]
  BY StatusChange
<1>2. SUFFICES ASSUME NEW a \in DOMAIN batches, NEW b \in DOMAIN batches, NewlyBookedTwice(a, b), ~Warned(a, b)
               PROVE  FALSE
  BY <1>1 DEF WarnsFirst
<1>3. batches[a].status # "Archived" /\ batches[b].status # "Archived"
  BY <1>2 DEF Warned
<1>4. \A y \in {a, b} : \A field \in {"start", "end", "days", "teacher", "room", "campus"} :
        batches[y][field] = batches'[y][field]
  BY <1>1
<1>5. PICK cs : cs = batches'
  OBVIOUS
<1>6. Days!BookedTwice(cs, a, b)
  BY <1>2, <1>5 DEF NewlyBookedTwice
<1>7. Days!BookedTwice(batches, a, b)
  BY <1>3, <1>4, <1>5, <1>6, SameFieldsSameBooking
<1>8. QED BY <1>2, <1>7 DEF NewlyBookedTwice

(* Nothing on file changes. *)
LEMMA NothingOnFile ==
  ASSUME UNCHANGED <<batches, saved, clock>> PROVE KeepsRoll /\ WarnsFirst
  BY DEF KeepsRoll, WarnsFirst, NewlyBookedTwice

(* The page's own steps leave what is on file alone. *)
LEMMA Pinning ==
  ASSUME NullIsNoBatch, DayInv, NEW p, Address(p), Days!Show(p)
  PROVE  DayInv' /\ KeepsRoll /\ WarnsFirst
<1>1. address' = Days!Pinned(p, batches, saved, clock) /\ UNCHANGED <<batches, saved, clock, toast>>
  BY DEF Days!Show
<1>2. CASE p = Null
  <2>1. address' = Null
    BY <1>1, <1>2 DEF Days!Pinned
  <2>2. QED BY <1>1, <2>1, NothingOnFile DEF DayInv, Timetabled, Timed
<1>3. CASE p # Null
  <2>1. Address(Days!Pinned(p, batches, saved, clock)) /\ Names(Days!Pinned(p, batches, saved, clock), batches, saved, clock)
    BY <1>3, PinnedNames DEF DayInv
  <2>2. QED BY <1>1, <2>1, NothingOnFile DEF DayInv, Timetabled, Timed
<1>4. QED BY <1>2, <1>3

(* There is no batch at first. *)
LEMMA DayInit == Days!Init => DayInv
  BY DEF Days!Init, DayInv, Timetabled, Timed

(* Every step keeps the invariant, the class in view and the warnings. *)
LEMMA DayStep ==
  ASSUME NullIsNoBatch, FormsAreBatches, DayInv, [Days!Next]_(Days!vars)
  PROVE  DayInv' /\ [KeepsRoll]_(Days!vars) /\ [WarnsFirst]_(Days!vars)
<1>0. CASE UNCHANGED Days!vars
  BY <1>0 DEF Days!vars, DayInv, Timetabled, Timed
<1>a. Timetabled(batches) /\ Timed(saved) /\ Len(batches) \in Nat /\ DOMAIN batches = 1..Len(batches)
      /\ \A b \in DOMAIN batches : b \in Int /\ batches[b] \in Slot
  BY BookSpelt DEF DayInv
<1>1. ASSUME NEW f \in Forms, Days!AddBatch(f)
      PROVE  DayInv' /\ KeepsRoll /\ WarnsFirst
  <2>1. f \in Slot /\ batches' = Append(batches, f)
    BY <1>1 DEF FormsAreBatches, Days!AddBatch
  <2>2. /\ Timetabled(batches') /\ DOMAIN batches' = DOMAIN batches \cup {Len(batches) + 1}
        /\ \A c \in DOMAIN batches : c < Len(batches) + 1 /\ batches'[c] = batches[c]
    BY <1>a, <2>1, BatchAdded
  <2>3. Days!Render /\ UNCHANGED <<saved, clock, toast>> /\ Timed(saved')
    BY <1>1, <1>a DEF Days!AddBatch, Timed
  <2>4. Grown(batches, saved, batches', saved')
    BY <2>2, <2>3 DEF Grown
  <2>5. /\ address' # Null => Address(address') /\ Names(address', batches', saved', clock')
        /\ KeepsRoll
    BY <2>2, <2>3, <2>4, RenderKeeps
  <2>6. WarnsFirst
    <3>1. SUFFICES ASSUME NEW a \in DOMAIN batches', NEW b \in DOMAIN batches', NewlyBookedTwice(a, b)
                   PROVE  Warned(a, b)
      BY DEF WarnsFirst
    <3>2. a < b /\ Days!BookedTwice(batches', a, b)
      BY <3>1 DEF NewlyBookedTwice
    <3>3. a \in DOMAIN batches /\ batches'[a] = batches[a]
      BY <1>a, <2>2, <3>1, <3>2
    <3>4. PICK bs : bs = batches'
      OBVIOUS
    <3>5. a \in DOMAIN bs /\ b \in DOMAIN bs /\ a # b /\ Timetabled(bs) /\ Days!BookedTwice(bs, a, b)
          /\ batches[a] = bs[a]
      BY <1>a, <2>2, <3>1, <3>2, <3>3, <3>4
    <3>6. a \in Days!FindClashes(bs[b], batches, b)
      BY <1>a, <3>3, <3>5, BookedTwiceClashes
    <3>7. QED BY <3>4, <3>6 DEF Warned
  <2>7. DayInv'
    BY <2>2, <2>3, <2>5 DEF DayInv
  <2>8. QED BY <2>5, <2>6, <2>7
<1>2. ASSUME NEW f \in Forms, NEW x \in DOMAIN batches, Days!UpdateBatch(x, f)
      PROVE  DayInv' /\ KeepsRoll /\ WarnsFirst
  <2>1. /\ address = Null /\ batches' = [batches EXCEPT ![x] = f] /\ f \in Slot
        /\ UNCHANGED <<saved, clock, address, toast>>
    BY <1>2 DEF FormsAreBatches, Days!UpdateBatch
  <2>2. Timetabled(batches')
    BY <1>a, <2>1 DEF Timetabled
  <2>3. DOMAIN batches' = DOMAIN batches /\ \A c \in DOMAIN batches : c # x => batches'[c] = batches[c]
    BY <1>a, <2>1
  <2>4. WarnsFirst
    <3>1. SUFFICES ASSUME NEW a \in DOMAIN batches, NEW b \in DOMAIN batches, NewlyBookedTwice(a, b)
                   PROVE  Warned(a, b)
      BY <2>3 DEF WarnsFirst
    <3>2. a < b /\ Days!BookedTwice(batches', a, b)
      BY <3>1 DEF NewlyBookedTwice
    <3>3. PICK bs : bs = batches'
      OBVIOUS
    <3>4. a \in DOMAIN bs /\ b \in DOMAIN bs /\ a # b /\ Timetabled(bs) /\ Days!BookedTwice(bs, a, b)
          /\ (batches[a] = bs[a] \/ batches[b] = bs[b])
      BY <1>a, <2>2, <2>3, <3>1, <3>2, <3>3
    <3>5. b \in Days!FindClashes(bs[a], batches, a) \/ a \in Days!FindClashes(bs[b], batches, b)
      BY <1>a, <3>1, <3>4, BookedTwiceClashes
    <3>6. QED BY <3>3, <3>5 DEF Warned
  <2>5. KeepsRoll
    BY <2>1 DEF KeepsRoll
  <2>6. DayInv'
    BY <2>1, <2>2, <2>3 DEF DayInv, Timed
  <2>7. QED BY <2>4, <2>5, <2>6
<1>3. ASSUME NEW x \in DOMAIN batches, Days!ArchiveBatch(x)
      PROVE  DayInv' /\ KeepsRoll /\ WarnsFirst
  <2>1. /\ address = Null /\ batches' = [batches EXCEPT ![x].status = "Archived"]
        /\ batches[x].status # "Archived" /\ toast' = [batch |-> x, status |-> batches[x].status]
        /\ UNCHANGED <<saved, clock, address>>
    BY <1>3 DEF Days!ArchiveBatch
  <2>2. "Archived" \in Entered("status") \cup {"Active", "Archived"}
    OBVIOUS
  <2>3. Timetabled(batches') /\ DOMAIN batches' = DOMAIN batches
    BY <1>a, <2>1, <2>2, StatusChange
  <2>4. WarnsFirst
    BY <1>a, <2>1, <2>2, StatusWarns
  <2>5. KeepsRoll
    BY <2>1 DEF KeepsRoll
  <2>6. batches[x].status \in Entered("status") \cup {"Active", "Archived"}
    BY <1>a DEF Slot
  <2>7. DayInv'
    BY <2>1, <2>3, <2>6 DEF DayInv, Timed
  <2>8. QED BY <2>4, <2>5, <2>7
<1>4. ASSUME NEW x \in DOMAIN batches, Days!RestoreBatch(x)
      PROVE  DayInv' /\ KeepsRoll /\ WarnsFirst
  <2>1. /\ address = Null /\ batches' = [batches EXCEPT ![x].status = "Active"]
        /\ UNCHANGED <<saved, clock, address, toast>>
    BY <1>4 DEF Days!RestoreBatch
  <2>2. "Active" \in Entered("status") \cup {"Active", "Archived"}
    OBVIOUS
  <2>3. Timetabled(batches') /\ DOMAIN batches' = DOMAIN batches
    BY <1>a, <2>1, <2>2, StatusChange
  <2>4. WarnsFirst
    BY <1>a, <2>1, <2>2, StatusWarns
  <2>5. KeepsRoll
    BY <2>1 DEF KeepsRoll
  <2>6. DayInv'
    BY <2>1, <2>3 DEF DayInv, Timed
  <2>7. QED BY <2>4, <2>5, <2>6
<1>5. ASSUME Days!Undo
      PROVE  DayInv' /\ KeepsRoll /\ WarnsFirst
  <2>1. /\ toast # Null /\ batches' = [batches EXCEPT ![toast.batch].status = toast.status]
        /\ toast' = Null /\ UNCHANGED <<saved, clock>> /\ Days!Render
    BY <1>5 DEF Days!Undo
  <2>2. /\ toast.batch \in DOMAIN batches /\ toast.status # "Archived"
        /\ toast.status \in Entered("status") \cup {"Active", "Archived"}
    BY <2>1 DEF DayInv
  <2>3. PICK x \in DOMAIN batches, st \in Entered("status") \cup {"Active", "Archived"} :
          x = toast.batch /\ st = toast.status
    BY <2>2
  <2>4. batches' = [batches EXCEPT ![x].status = st]
    BY <2>1, <2>3
  <2>5. /\ Timetabled(batches') /\ DOMAIN batches' = DOMAIN batches
        /\ \A c \in DOMAIN batches : c # x => batches'[c] = batches[c]
        /\ batches'[x].status = st
        /\ \A field \in {"start", "end", "days", "from", "teacher", "room", "campus"} :
             batches'[x][field] = batches[x][field]
    BY <1>a, <2>4, StatusChange
  <2>6. WarnsFirst
    BY <1>a, <2>4, StatusWarns
  <2>7. Timed(saved')
    BY <1>a, <2>1 DEF Timed
  <2>8. Grown(batches, saved, batches', saved')
    <3>1. batches'[x].days = batches[x].days /\ batches'[x].from = batches[x].from
      BY <2>5
    <3>2. QED BY <2>1, <2>2, <2>3, <2>5, <3>1 DEF Grown
  <2>9. /\ address' # Null => Address(address') /\ Names(address', batches', saved', clock')
        /\ KeepsRoll
    BY <2>1, <2>5, <2>7, <2>8, RenderKeeps
  <2>10. DayInv'
    BY <2>1, <2>5, <2>7, <2>9 DEF DayInv
  <2>11. QED BY <2>6, <2>9, <2>10
<1>6. ASSUME Days!ToastExpires \/ Days!Leave
      PROVE  DayInv' /\ KeepsRoll /\ WarnsFirst
  <2>1. UNCHANGED <<batches, saved, clock>>
    BY <1>6 DEF Days!ToastExpires, Days!Leave
  <2>2. DayInv'
    BY <1>6 DEF Days!ToastExpires, Days!Leave, DayInv, Timetabled, Timed
  <2>3. QED BY <2>1, <2>2, NothingOnFile
<1>7. ASSUME Days!Tick
      PROVE  DayInv' /\ KeepsRoll /\ WarnsFirst
  <2>1. UNCHANGED <<batches, saved, toast>> /\ Days!Render
    BY <1>7 DEF Days!Tick
  <2>2. clock' = [day |-> clock'.day, hour |-> clock'.hour]
    <3>1. clock = [day |-> clock.day, hour |-> clock.hour]
      BY DEF DayInv
    <3>2. \/ clock' = [clock EXCEPT !.hour = @ + 1]
          \/ clock' = [day |-> clock.day + 1, hour |-> 0]
      BY <1>7 DEF Days!Tick
    <3>3. QED BY <3>1, <3>2
  <2>3. Timetabled(batches') /\ Timed(saved') /\ Grown(batches, saved, batches', saved')
    BY <1>a, <2>1 DEF Timetabled, Timed, Grown
  <2>4. /\ address' # Null => Address(address') /\ Names(address', batches', saved', clock')
        /\ KeepsRoll
    BY <2>1, <2>3, RenderKeeps
  <2>5. WarnsFirst
    BY <2>1 DEF WarnsFirst, NewlyBookedTwice
  <2>6. DayInv'
    BY <2>1, <2>2, <2>3, <2>4 DEF DayInv
  <2>7. QED BY <2>4, <2>5, <2>6
<1>8. ASSUME NEW k, address # Null, k[1] = Days!Selected(address, batches, saved, clock), k[1] # Null,
             Days!SaveSession(k)
      PROVE  DayInv' /\ KeepsRoll /\ WarnsFirst
  <2>1. UNCHANGED <<batches, clock, toast>> /\ Days!Render
    BY <1>8 DEF Days!SaveSession
  <2>2. k[1] \in DOMAIN batches
    <3>1. Days!Requested(address, batches, saved, clock) # Null
      BY <1>8 DEF DayInv, Names
    <3>2. QED BY <1>8, <3>1 DEF Days!Requested, Days!Selected, Days!ClassEntriesFor, Days!ClassesOn, Days!Extras
  <2>3. batches[k[1]].start \in Int
    BY <1>a, <2>2 DEF Slot
  <2>4. DOMAIN saved' = DOMAIN saved \cup {k} /\ Timed(saved')
    BY <1>a, <1>8, <2>3 DEF Days!SaveSession, Timed
  <2>5. Timetabled(batches') /\ Grown(batches, saved, batches', saved')
    BY <1>a, <2>1, <2>4 DEF Timetabled, Grown
  <2>6. /\ address' # Null => Address(address') /\ Names(address', batches', saved', clock')
        /\ KeepsRoll
    BY <2>1, <2>4, <2>5, RenderKeeps
  <2>7. WarnsFirst
    BY <2>1 DEF WarnsFirst, NewlyBookedTwice
  <2>8. DayInv'
    BY <2>1, <2>4, <2>5, <2>6 DEF DayInv
  <2>9. QED BY <2>6, <2>7, <2>8
<1>9. ASSUME NEW p, Address(p), Days!Show(p)
      PROVE  DayInv' /\ KeepsRoll /\ WarnsFirst
  BY <1>9, Pinning
<1>10. ASSUME NEW viewer, NEW d, NEW b, Days!Open(viewer, d, b)
       PROVE  DayInv' /\ KeepsRoll /\ WarnsFirst
  <2>1. Address([viewer |-> viewer, date |-> d, batch |-> b, all |-> FALSE])
    BY DEF Address
  <2>2. QED BY <1>9, <1>10, <2>1 DEF Days!Open
<1>11. ASSUME NEW d, Days!GoToDate(d)
       PROVE  DayInv' /\ KeepsRoll /\ WarnsFirst
  <2> DEFINE date == IF d = clock.day THEN 0 ELSE d
             b == IF address.batch # Null /\ address.batch \in Days!ClassEntriesFor(d, batches, saved)
                    THEN address.batch ELSE Null
             p == [address EXCEPT !.date = date, !.batch = b]
  <2>1. Address(address) /\ Days!Show(p)
    BY <1>11 DEF DayInv, Days!GoToDate, Address
  <2> HIDE DEF date, b
  <2>2. Address(p)
    BY <2>1 DEF Address
  <2> HIDE DEF p
  <2>3. QED BY <1>9, <2>1, <2>2
<1>12. ASSUME NEW b, Days!SelectBatch(b)
       PROVE  DayInv' /\ KeepsRoll /\ WarnsFirst
  <2>1. Address(address) /\ Days!Show([address EXCEPT !.batch = b])
    BY <1>12 DEF DayInv, Days!SelectBatch
  <2>2. Address([address EXCEPT !.batch = b])
    BY <2>1 DEF Address
  <2>3. QED BY <1>9, <2>1, <2>2
<1>13. ASSUME NEW all, Days!ShowAll(all)
       PROVE  DayInv' /\ KeepsRoll /\ WarnsFirst
  <2> DEFINE p == [address EXCEPT !.all = all, !.batch = Null]
  <2>1. Address(address) /\ Days!Show(p)
    BY <1>13 DEF DayInv, Days!ShowAll
  <2>2. Address(p)
    BY <2>1 DEF Address
  <2> HIDE DEF p
  <2>3. QED BY <1>9, <2>1, <2>2
<1>14. ASSUME Days!Next
       PROVE  DayInv' /\ KeepsRoll /\ WarnsFirst
  <2>1. ASSUME NEW k, address # Null, k = <<Days!Selected(address, batches, saved, clock), Days!DateOf(address, clock)>>,
               Days!Selected(address, batches, saved, clock) # Null, Days!SaveSession(k)
        PROVE  DayInv' /\ KeepsRoll /\ WarnsFirst
    <3>1. k[1] = Days!Selected(address, batches, saved, clock) /\ k[1] # Null
      BY <2>1
    <3>2. QED BY <1>8, <2>1, <3>1
  <2>2. QED BY <1>1, <1>2, <1>3, <1>4, <1>5, <1>6, <1>7, <1>10, <1>11, <1>12, <1>13, <1>14, <2>1 DEF Days!Next
<1>15. QED BY <1>0, <1>14

(* While a roll call is open its class stays in view for the day, whatever  *)
(* is saved, added or put back under it; and two batches come to share a    *)
(* teacher or a room at one hour only past the form's warning or out of the *)
(* archive: for every week, clock, form, number of batches and registers.   *)
THEOREM TimetableStaysKept ==
  ASSUME NullIsNoBatch, FormsAreBatches
  PROVE  Days!Spec => TimetableKept
<1>1. DayInv /\ [Days!Next]_(Days!vars) => DayInv' /\ [KeepsRoll]_(Days!vars) /\ [WarnsFirst]_(Days!vars)
  BY DayStep
<1>2. Days!Spec => [][KeepsRoll]_(Days!vars) /\ [][WarnsFirst]_(Days!vars)
  BY DayInit, <1>1, PTL DEF Days!Spec
<1>3. Days!RollStays <=> [][KeepsRoll]_(Days!vars)
  BY PTL DEF Days!RollStays, KeepsRoll
<1>4. WarnsFirst =>
        \A a, b \in DOMAIN batches' :
          a < b /\ Days!BookedTwice(batches', a, b) /\ ~(b \in DOMAIN batches /\ Days!BookedTwice(batches, a, b)) =>
            \/ \E x \in {a, b} \cap DOMAIN batches : batches[x].status = "Archived"
            \/ b \in Days!FindClashes(batches'[a], batches, a)
            \/ a \in Days!FindClashes(batches'[b], batches, b)
  BY DEF WarnsFirst, NewlyBookedTwice, Warned
<1>5. [][WarnsFirst]_(Days!vars) => Days!DoubleBookingsWarned
  BY <1>4, PTL DEF Days!DoubleBookingsWarned
<1>6. QED BY <1>2, <1>3, <1>5 DEF TimetableKept, Days!TimetableKept

-----------------------------------------------------------------------------
(* What the screens make of the timetable.                                 *)

(* The weekly grid counts as the theorems do. *)
LEMMA DaysCount == \A S : Days!Cardinality(S) = Cardinality(S)
  BY DEF Days!Cardinality, Cardinality

(* Of a finite set of numbers one is the least. *)
LEMMA LeastIs ==
  ASSUME NEW S, IsFiniteSet(S), S # {}, \A y \in S : y \in Int
  PROVE  Days!Min(S) \in S /\ \A y \in S : Days!Min(S) <= y
<1> DEFINE d == [y \in S |-> -y]
           D == {d[y] : y \in S}
<1>1. \A y \in S : d[y] = -y /\ d[y] \in D
  OBVIOUS
<1>2. \A z \in D : z \in Int /\ \E y \in S : d[y] = z
  OBVIOUS
<1>3. D # {}
  OBVIOUS
<1> HIDE DEF d
<1>4. IsFiniteSet(D)
  BY HeadingsFinite
<1> HIDE DEF D
<1>5. Bills!Max(D) \in D /\ \A z \in D : z <= Bills!Max(D)
  BY <1>2, <1>3, <1>4, LargestIs
<1>6. PICK x \in S : d[x] = Bills!Max(D)
  BY <1>2, <1>5
<1>7. \A y \in S : d[y] <= d[x]
  BY <1>1, <1>5, <1>6
<1>8. \A y \in S : x <= y
  BY <1>1, <1>7
<1>9. Days!Min(S) = CHOOSE z \in S : \A y \in S : z <= y
  BY DEF Days!Min
<1>10. QED BY <1>8, <1>9

(* And one is the greatest. *)
LEMMA MostIs ==
  ASSUME NEW S, IsFiniteSet(S), S # {}, \A y \in S : y \in Int
  PROVE  Days!Max(S) \in S /\ \A y \in S : y <= Days!Max(S)
<1>1. Bills!Max(S) \in S /\ \A y \in S : y <= Bills!Max(S)
  BY LargestIs
<1>2. Days!Max(S) = Bills!Max(S)
  BY DEF Days!Max, Bills!Max
<1>3. QED BY <1>1, <1>2

(* A block takes the first lane free at its start, of those in use and the  *)
(* one beside them.                                                         *)
LEMMA PlaceIs ==
  ASSUME NEW width \in Nat, NEW ends, DOMAIN ends = 1..width, \A l \in 1..width : ends[l] \in Int, NEW start \in Int
  PROVE  LET lane == Days!Place(ends, start)
         IN /\ lane \in 1..(width + 1)
            /\ lane <= width => ends[lane] <= start
            /\ \A l \in 1..(lane - 1) : l \in 1..width /\ ends[l] > start
<1> DEFINE free == {l \in 1..width : ends[l] <= start}
           lane == Days!Place(ends, start)
<1>1. lane = IF free = {} THEN Cardinality(1..width) + 1 ELSE Days!Min(free)
  BY DaysCount DEF Days!Place
<1>2. Cardinality(1..width) = width
  BY FS_Interval
<1>3. CASE free = {}
  <2>1. lane = width + 1
    BY <1>1, <1>2, <1>3
  <2>2. \A l \in 1..width : ~(ends[l] <= start)
    BY <1>3
  <2>3. QED BY <2>1, <2>2
<1>4. CASE free # {}
  <2>1. IsFiniteSet(free)
    BY FS_Interval, FS_Subset
  <2>2. \A y \in free : y \in Int
    OBVIOUS
  <2>3. lane = Days!Min(free)
    BY <1>1, <1>4
  <2> HIDE DEF lane
  <2>4. lane \in free /\ \A y \in free : lane <= y
    <3> HIDE DEF free
    <3>1. QED BY <1>4, <2>1, <2>2, <2>3, LeastIs
  <2>5. ASSUME NEW l \in 1..(lane - 1) PROVE l \in 1..width /\ ends[l] > start
    <3>1. l \in 1..width /\ l \notin free
      BY <2>4
    <3>2. QED BY <3>1
  <2>6. QED BY <2>4, <2>5 DEF lane
<1>5. QED BY <1>3, <1>4

(* The n blocks of a column start at s and end at e, sorted by their starts. *)
Hours(s, e, n) ==
  /\ n \in Nat /\ s \in [1..n -> Nat] /\ e \in [1..n -> Nat]
  /\ \A j \in 1..n : s[j] < e[j]
  /\ \A j, k \in 1..n : j < k => s[j] <= s[k]

(* Clusters C and lanes L of the first i blocks, which start at s and end   *)
(* at e: a later cluster starts when the earlier ones are over, a lane is   *)
(* taken when it is free, and every lane before it is busy then.            *)
InLanes(s, e, C, L, i) ==
  /\ \A j \in 1..i : C[j] \in Nat /\ L[j] \in Nat \ {0}
  /\ \A j, k \in 1..i : j < k => /\ C[j] <= C[k]
                                 /\ C[j] < C[k] \/ L[j] = L[k] => e[j] <= s[k]
  /\ \A k \in 1..i : \A l \in 1..(L[k] - 1) : \E j \in 1..(k - 1) : C[j] = C[k] /\ L[j] = l /\ e[j] > s[k]

(* The lanes of cluster c in use, up to block i, end at ends.               *)
Ends(ends, c, width, e, C, L, i) ==
  /\ width \in Nat /\ DOMAIN ends = 1..width
  /\ \A l \in 1..width : ends[l] \in Int /\ \E j \in 1..i : C[j] = c /\ L[j] = l /\ e[j] = ends[l]
  /\ \A j \in 1..i : C[j] = c => L[j] \in 1..width /\ e[j] <= ends[L[j]]

(* What the pass over the blocks knows after block i.                       *)
Knows(q, e, C, L, i) ==
  /\ q.cluster \in Nat /\ q.until \in Int
  /\ i = 0 => q.until = -1
  /\ i # 0 => C[i] = q.cluster
  /\ \A j \in 1..i : C[j] <= q.cluster /\ e[j] <= q.until
  /\ \E width : Ends(q.ends, q.cluster, width, e, C, L, i)

(* The next block opens a cluster or goes beside those of the last one.     *)
LEMMA NextBlock ==
  ASSUME NEW n, NEW s, NEW e, NEW C, NEW L, Hours(s, e, n),
         NEW i \in 1..n, NEW q, NEW b,
         batches[b].start = s[i], batches[b].end = e[i],
         C[i] = Days!Laid(q, b).cluster, L[i] = Days!Laid(q, b).lane,
         InLanes(s, e, C, L, i - 1), Knows(q, e, C, L, i - 1)
  PROVE  InLanes(s, e, C, L, i) /\ Knows(Days!Laid(q, b), e, C, L, i)
<1> DEFINE r == Days!Laid(q, b)
           fresh == s[i] >= q.until
           ends == IF fresh THEN <<>> ELSE q.ends
           lane == Days!Place(ends, s[i])
<1>1. /\ r.cluster = q.cluster + IF fresh THEN 1 ELSE 0
      /\ r.lane = lane
      /\ r.until = IF e[i] > q.until THEN e[i] ELSE q.until
      /\ r.ends = [l \in DOMAIN ends \cup {lane} |-> IF l = lane THEN e[i] ELSE ends[l]]
  BY DEF Days!Laid
<1>2. /\ s[i] \in Nat /\ e[i] \in Nat /\ s[i] < e[i] /\ q.cluster \in Nat /\ q.until \in Int /\ i \in Nat
      /\ \A j \in 1..(i - 1) : j \in 1..n /\ j \in 1..i /\ s[j] \in Nat /\ e[j] \in Nat /\ s[j] <= s[i]
      /\ \A j \in 1..i : j = i \/ j \in 1..(i - 1)
  BY DEF Knows, Hours
<1>3. /\ \A j \in 1..(i - 1) : C[j] \in Nat /\ L[j] \in Nat \ {0} /\ C[j] <= q.cluster /\ e[j] <= q.until
      /\ i # 1 => C[i - 1] = q.cluster /\ i - 1 \in 1..(i - 1)
      /\ i = 1 => q.until = -1
  BY <1>2 DEF Knows, InLanes
<1>4. PICK old : Ends(q.ends, q.cluster, old, e, C, L, i - 1)
  BY DEF Knows
<1> HIDE DEF r
<1>5. PICK width : Ends(ends, r.cluster, width, e, C, L, i - 1)
  <2>1. CASE fresh
    <3>1. r.cluster = q.cluster + 1 /\ ends = <<>>
      BY <1>1, <2>1
    <3>2. DOMAIN ends = 1..0
      BY <3>1
    <3>3. ASSUME NEW j \in 1..(i - 1) PROVE C[j] # r.cluster
      <4>1. C[j] \in Nat /\ C[j] <= q.cluster /\ q.cluster \in Nat
        BY <1>2, <1>3
      <4>2. QED BY <3>1, <4>1
    <3>4. Ends(ends, r.cluster, 0, e, C, L, i - 1)
      BY <3>2, <3>3 DEF Ends
    <3>5. QED BY <3>4
  <2>2. CASE ~fresh
    <3>1. r.cluster = q.cluster /\ ends = q.ends
      BY <1>1, <1>2, <2>2
    <3>2. QED BY <1>4, <3>1
  <2>3. QED BY <2>1, <2>2
<1>6. /\ r.cluster \in Nat
      /\ \A j \in 1..(i - 1) : C[j] <= r.cluster /\ (C[j] < r.cluster => e[j] <= s[i])
  <2>1. CASE fresh
    <3>1. r.cluster = q.cluster + 1
      BY <1>1, <2>1
    <3>2. ASSUME NEW j \in 1..(i - 1) PROVE C[j] <= r.cluster /\ e[j] <= s[i]
      <4>1. C[j] \in Nat /\ C[j] <= q.cluster /\ e[j] <= q.until /\ e[j] \in Nat
        BY <1>2, <1>3
      <4>2. s[i] >= q.until /\ s[i] \in Nat /\ q.until \in Int /\ q.cluster \in Nat
        BY <1>2, <2>1
      <4>3. C[j] <= r.cluster
        BY <3>1, <4>1, <4>2
      <4>4. e[j] <= s[i]
        BY <4>1, <4>2
      <4>5. QED BY <4>3, <4>4
    <3>3. QED BY <1>2, <3>1, <3>2
  <2>2. CASE ~fresh
    <3>1. r.cluster = q.cluster
      BY <1>1, <1>2, <2>2
    <3>2. ASSUME NEW j \in 1..(i - 1), C[j] < r.cluster PROVE e[j] <= s[i]
      <4>1. i # 1 /\ C[i - 1] = q.cluster /\ i - 1 \in 1..(i - 1)
        BY <1>2, <1>3, <2>2
      <4>2. j < i - 1 /\ C[j] < C[i - 1]
        BY <1>2, <1>3, <3>1, <3>2, <4>1
      <4>3. e[j] <= s[i - 1]
        BY <4>1, <4>2 DEF InLanes
      <4>4. s[i - 1] <= s[i] /\ s[i - 1] \in Nat
        BY <1>2, <4>1
      <4>5. s[i] \in Nat /\ e[j] \in Nat
        BY <1>2
      <4>6. QED BY <4>3, <4>4, <4>5
    <3>3. QED BY <1>2, <1>3, <3>1, <3>2
  <2>3. QED BY <2>1, <2>2
<1> HIDE DEF ends, fresh
<1>7. /\ lane \in 1..(width + 1)
      /\ lane <= width => ends[lane] <= s[i]
      /\ \A l \in 1..(lane - 1) : l \in 1..width /\ ends[l] > s[i]
  <2>1. width \in Nat /\ DOMAIN ends = 1..width /\ \A l \in 1..width : ends[l] \in Int
    BY <1>5 DEF Ends
  <2>2. s[i] \in Int
    BY <1>2
  <2>3. QED BY <2>1, <2>2, PlaceIs
<1> HIDE DEF lane
<1>8. width \in Nat /\ lane \in Nat \ {0} /\ C[i] = r.cluster /\ L[i] = lane
  BY <1>1, <1>5, <1>7 DEF Ends, r
<1>9. ASSUME NEW j \in 1..(i - 1)
      PROVE  C[j] <= C[i] /\ (C[j] < C[i] \/ L[j] = L[i] => e[j] <= s[i])
  <2>1. CASE C[j] < r.cluster
    BY <1>2, <1>3, <1>6, <1>8, <2>1
  <2>2. CASE C[j] = r.cluster /\ L[j] = lane
    <3>1. lane \in 1..width /\ e[j] <= ends[lane] /\ ends[lane] \in Int
      BY <1>5, <2>2 DEF Ends
    <3>2. e[j] <= s[i]
      <4>1. ends[lane] <= s[i] /\ s[i] \in Nat /\ e[j] \in Nat
        BY <1>2, <1>7, <3>1
      <4>2. QED BY <3>1, <4>1
    <3>3. C[j] = C[i] /\ C[i] \in Nat
      BY <1>6, <1>8, <2>2
    <3>4. QED BY <3>2, <3>3
  <2>3. C[j] \in Nat /\ C[j] <= r.cluster /\ r.cluster \in Nat
    BY <1>3, <1>6
  <2>4. C[i] = r.cluster /\ L[i] = lane
    BY <1>8
  <2>5. CASE C[j] # r.cluster
    <3>1. C[j] < r.cluster
      BY <2>3, <2>5
    <3>2. QED BY <2>1, <3>1
  <2>6. CASE C[j] = r.cluster /\ L[j] # lane
    BY <2>3, <2>4, <2>6
  <2>7. QED BY <2>2, <2>5, <2>6
<1>10. ASSUME NEW l \in 1..(L[i] - 1)
       PROVE  \E j \in 1..(i - 1) : C[j] = C[i] /\ L[j] = l /\ e[j] > s[i]
  <2>1. l \in 1..width /\ ends[l] > s[i]
    BY <1>7, <1>8
  <2>2. PICK j \in 1..(i - 1) : C[j] = r.cluster /\ L[j] = l /\ e[j] = ends[l]
    BY <1>5, <2>1 DEF Ends
  <2>3. QED BY <1>8, <2>1, <2>2
<1>11. InLanes(s, e, C, L, i)
  <2>1. \A j \in 1..i : C[j] \in Nat /\ L[j] \in Nat \ {0}
    BY <1>2, <1>3, <1>6, <1>8
  <2>2. ASSUME NEW j \in 1..i, NEW k \in 1..i, j < k
        PROVE  C[j] <= C[k] /\ (C[j] < C[k] \/ L[j] = L[k] => e[j] <= s[k])
    <3>1. j \in 1..(i - 1)
      BY <1>2, <2>2
    <3>2. CASE k = i
      BY <1>9, <3>1, <3>2
    <3>3. CASE k \in 1..(i - 1)
      BY <2>2, <3>1, <3>3 DEF InLanes
    <3>4. QED BY <1>2, <3>2, <3>3
  <2>3. ASSUME NEW k \in 1..i, NEW l \in 1..(L[k] - 1)
        PROVE  \E j \in 1..(k - 1) : C[j] = C[k] /\ L[j] = l /\ e[j] > s[k]
    <3>1. CASE k = i
      BY <1>10, <2>3, <3>1
    <3>2. CASE k \in 1..(i - 1)
      BY <2>3, <3>2 DEF InLanes
    <3>3. QED BY <1>2, <3>1, <3>2
  <2>4. QED BY <2>1, <2>2, <2>3 DEF InLanes
<1>12. r.until \in Int /\ \A j \in 1..i : C[j] <= r.cluster /\ e[j] <= r.until
  <2>1. r.until \in Int /\ q.until <= r.until /\ e[i] <= r.until
    BY <1>1, <1>2
  <2>2. ASSUME NEW j \in 1..(i - 1) PROVE C[j] <= r.cluster /\ e[j] <= r.until
    <3>1. C[j] <= r.cluster /\ e[j] <= q.until /\ e[j] \in Nat /\ q.until \in Int
      BY <1>2, <1>3, <1>6
    <3>2. QED BY <2>1, <3>1
  <2>3. C[i] <= r.cluster
    BY <1>6, <1>8
  <2>4. ASSUME NEW j \in 1..i PROVE C[j] <= r.cluster /\ e[j] <= r.until
    BY <1>2, <2>1, <2>2, <2>3
  <2>5. QED BY <2>1, <2>4
<1>13. \E w : Ends(r.ends, r.cluster, w, e, C, L, i)
  <2> DEFINE w == IF lane = width + 1 THEN width + 1 ELSE width
  <2>1. w \in Nat /\ 1..width \cup {lane} = 1..w /\ lane \in 1..w /\ \A l \in 1..w : l # lane => l \in 1..width
    <3>1. lane \in 1..(width + 1) /\ width \in Nat
      BY <1>7, <1>8
    <3>2. CASE lane = width + 1
      <4>1. w = width + 1
        BY <3>2
      <4> HIDE DEF w
      <4>2. QED BY <3>1, <3>2, <4>1
    <3>3. CASE lane # width + 1
      <4>1. w = width /\ lane \in 1..width
        BY <3>1, <3>3
      <4> HIDE DEF w
      <4>2. QED BY <3>1, <4>1
    <3>4. QED BY <3>2, <3>3
  <2>2. DOMAIN r.ends = 1..w /\ r.ends[lane] = e[i] /\ \A l \in 1..w : l # lane => r.ends[l] = ends[l]
    BY <1>1, <1>5, <2>1 DEF Ends
  <2> HIDE DEF w
  <2>3. ASSUME NEW l \in 1..w
        PROVE  r.ends[l] \in Int /\ \E j \in 1..i : C[j] = r.cluster /\ L[j] = l /\ e[j] = r.ends[l]
    <3>1. CASE l = lane
      BY <1>2, <1>8, <2>2, <3>1
    <3>2. CASE l # lane
      <4>1. l \in 1..width /\ r.ends[l] = ends[l]
        BY <2>1, <2>2, <3>2
      <4>2. PICK j \in 1..(i - 1) : C[j] = r.cluster /\ L[j] = l /\ e[j] = ends[l]
        BY <1>5, <4>1 DEF Ends
      <4>3. ends[l] \in Int
        BY <1>5, <4>1 DEF Ends
      <4>4. QED BY <1>2, <4>1, <4>2, <4>3
    <3>3. QED BY <3>1, <3>2
  <2>4. ASSUME NEW j \in 1..i, C[j] = r.cluster
        PROVE  L[j] \in 1..w /\ e[j] <= r.ends[L[j]]
    <3>1. CASE j = i
      BY <1>2, <1>8, <2>1, <2>2, <3>1
    <3>2. CASE j \in 1..(i - 1)
      <4>1. L[j] \in 1..width /\ e[j] <= ends[L[j]]
        BY <1>5, <2>4, <3>2 DEF Ends
      <4>2. CASE L[j] = lane
        <5>1. lane <= width /\ ends[lane] <= s[i]
          BY <1>7, <1>8, <4>1, <4>2
        <5>2. ends[lane] \in Int /\ s[i] < e[i] /\ e[j] \in Nat
          BY <1>2, <1>5, <3>2, <4>1, <4>2 DEF Ends
        <5>3. s[i] \in Nat /\ e[i] \in Nat /\ r.ends[lane] = e[i] /\ lane \in 1..w
          BY <1>2, <2>1, <2>2
        <5>4. e[j] <= e[i]
          BY <4>1, <4>2, <5>1, <5>2, <5>3
        <5>5. QED BY <4>2, <5>3, <5>4
      <4>3. CASE L[j] # lane
        <5>1. r.ends[L[j]] = ends[L[j]] /\ L[j] \in 1..w
          BY <1>7, <1>8, <2>1, <2>2, <4>1, <4>3
        <5>2. QED BY <4>1, <5>1
      <4>4. QED BY <4>2, <4>3
    <3>3. QED BY <1>2, <3>1, <3>2
  <2>5. QED BY <2>1, <2>2, <2>3, <2>4 DEF Ends
<1>14. QED BY <1>2, <1>6, <1>8, <1>11, <1>12, <1>13 DEF Knows, r

(* Of finitely many members in a row one is the last. *)
LEMMA OneIsLast ==
  ASSUME NEW S, S # {}, IsFiniteSet(S), NEW R,
         \A x, y \in S : x # y => <<x, y>> \in R \/ <<y, x>> \in R,
         \A x, y, z \in S : <<x, y>> \in R /\ <<y, z>> \in R => <<x, z>> \in R
  PROVE  \E x \in S : \A y \in S \ {x} : <<y, x>> \in R
<1> DEFINE IsLast(x, T) == \A y \in T \ {x} : <<y, x>> \in R
           Bad == {T \in SUBSET S : T # {} /\ \A x \in T : ~IsLast(x, T)}
<1> SUFFICES ASSUME Bad # {} PROVE FALSE
  OBVIOUS
<1>1. Bad \in SUBSET (SUBSET S)
  OBVIOUS
<1> HIDE DEF Bad
<1>2. PICK T \in Bad : \A U \in Bad : U \subseteq T => U = T
  BY <1>1, SmallestSubset
<1> USE DEF Bad
<1>3. PICK x \in T : TRUE
  OBVIOUS
<1>4. CASE T = {x}
  BY <1>4
<1>5. CASE T # {x}
  <2>1. T \ {x} # {} /\ T \ {x} # T /\ T \ {x} \in SUBSET S
    BY <1>3, <1>5
  <2>2. T \ {x} \notin Bad
    BY <1>2, <2>1
  <2>3. PICK b \in T \ {x} : IsLast(b, T \ {x})
    BY <2>1, <2>2
  <2>4. x \in S /\ b \in S /\ b # x
    BY <1>3, <2>3
  <2>5. CASE <<x, b>> \in R
    <3>1. IsLast(b, T)
      BY <2>3, <2>5
    <3>2. QED BY <2>3, <3>1
  <2>6. CASE <<x, b>> \notin R
    <3>1. <<b, x>> \in R
      BY <2>4, <2>6
    <3>2. ASSUME NEW c \in T \ {x} PROVE <<c, x>> \in R
      <4>1. c \in S
        OBVIOUS
      <4>2. c # b => <<c, b>> \in R
        BY <2>3
      <4>3. QED BY <2>4, <3>1, <4>1, <4>2
    <3>3. QED BY <1>3, <3>2
  <2>7. QED BY <2>5, <2>6
<1>6. QED BY <1>4, <1>5

(* So they can be listed in that order, the last one last. *)
InRow(order, R, n) == \A j, k \in 1..n : j < k => <<order[j], order[k]>> \in R
LEMMA RowExists ==
  ASSUME NEW S, IsFiniteSet(S), NEW R,
         \A x, y \in S : x # y => <<x, y>> \in R \/ <<y, x>> \in R,
         \A x, y, z \in S : <<x, y>> \in R /\ <<y, z>> \in R => <<x, z>> \in R
  PROVE  \E order \in [1..Cardinality(S) -> S] : InRow(order, R, Cardinality(S))
<1> DEFINE Lined(T) == \E order \in [1..Cardinality(T) -> T] : InRow(order, R, Cardinality(T))
           Bad == {T \in SUBSET S : ~Lined(T)}
<1> SUFFICES ASSUME Bad # {} PROVE FALSE
  OBVIOUS
<1>0. Bad \in SUBSET (SUBSET S)
  OBVIOUS
<1> HIDE DEF Bad
<1>1. PICK T \in Bad : \A U \in Bad : U \subseteq T => U = T
  BY <1>0, SmallestSubset
<1> USE DEF Bad
<1>2. IsFiniteSet(T) /\ T \in SUBSET S /\ ~Lined(T)
  BY <1>0, <1>1, FS_Subset
<1>3. T # {}
  <2> SUFFICES ASSUME T = {} PROVE FALSE
    OBVIOUS
  <2> DEFINE order == [k \in 1..0 |-> k]
  <2>1. Cardinality(T) = 0 /\ \A k : k \notin 1..0
    BY FS_EmptySet
  <2>2. order \in [1..Cardinality(T) -> T] /\ InRow(order, R, Cardinality(T))
    BY <2>1 DEF InRow
  <2>3. QED BY <1>2, <2>2
<1>4. PICK z \in T : \A y \in T \ {z} : <<y, z>> \in R
  <2>1. /\ \A x, y \in T : x # y => <<x, y>> \in R \/ <<y, x>> \in R
        /\ \A x, y, w \in T : <<x, y>> \in R /\ <<y, w>> \in R => <<x, w>> \in R
    BY <1>2
  <2>2. IsFiniteSet(T)
    BY <1>2
  <2> HIDE DEF Lined, Bad
  <2>3. QED BY <1>3, <2>1, <2>2, OneIsLast
<1> DEFINE U == T \ {z}
           n == Cardinality(U)
<1>5. U \in SUBSET S /\ U \subseteq T /\ U # T /\ IsFiniteSet(U)
  BY <1>2, <1>4, FS_Subset
<1>6. Lined(U)
  BY <1>1, <1>5
<1>7. n \in Nat /\ Cardinality(T) = n + 1
  <2>1. z \notin U /\ T = U \cup {z}
    BY <1>4
  <2> HIDE DEF U
  <2>2. Cardinality(U \cup {z}) = Cardinality(U) + 1 /\ Cardinality(U) \in Nat
    BY <1>5, <2>1, FS_AddElement, FS_CardinalityType
  <2>3. QED BY <2>1, <2>2
<1>8. PICK order \in [1..n -> U] : InRow(order, R, n)
  BY <1>6
<1> DEFINE longer == [k \in 1..(n + 1) |-> IF k = n + 1 THEN z ELSE order[k]]
<1>9. \A x \in U : x \in T /\ <<x, z>> \in R
  BY <1>4
<1> HIDE DEF U, n
<1>10. /\ longer[n + 1] = z
       /\ \A k \in 1..n : longer[k] = order[k] /\ longer[k] \in U
       /\ \A k \in 1..(n + 1) : k = n + 1 \/ k \in 1..n
  <2>1. \A k \in 1..n : k \in 1..(n + 1) /\ k # n + 1 /\ order[k] \in U
    BY <1>7, <1>8
  <2>2. n + 1 \in 1..(n + 1) /\ \A k \in 1..(n + 1) : k = n + 1 \/ k \in 1..n
    BY <1>7
  <2>3. QED BY <2>1, <2>2
<1>11. longer \in [1..(n + 1) -> T]
  BY <1>4, <1>9, <1>10
<1> HIDE DEF longer
<1>12. InRow(longer, R, n + 1)
  <2> SUFFICES ASSUME NEW j \in 1..(n + 1), NEW k \in 1..(n + 1), j < k
               PROVE  <<longer[j], longer[k]>> \in R
    BY DEF InRow
  <2>1. j \in 1..n
    BY <1>7
  <2>2. CASE k = n + 1
    BY <1>9, <1>10, <2>1, <2>2
  <2>3. CASE k \in 1..n
    <3>1. <<order[j], order[k]>> \in R
      BY <1>8, <2>1, <2>3 DEF InRow
    <3>2. QED BY <1>10, <2>1, <2>3, <3>1
  <2>4. QED BY <1>10, <2>2, <2>3
<1>13. QED BY <1>2, <1>7, <1>11, <1>12

(* The pass over the blocks. *)
Passes(p, order, n) ==
  p = [i \in 0..n |-> IF i = 0 THEN [cluster |-> 0, lane |-> 0, until |-> -1, ends |-> <<>>]
                      ELSE Days!Laid(p[i - 1], order[i])]

(* There is one over every list. *)
LEMMA PassExists ==
  ASSUME NEW n \in Nat, NEW order
  PROVE  \E p : Passes(p, order, n)
<1> DEFINE first == [cluster |-> 0, lane |-> 0, until |-> -1, ends |-> <<>>]
           Good == {k \in 1..n : \E p : Passes(p, order, k)}
           start == [i \in 0..0 |-> first]
<1>1. Passes(start, order, 0)
  <2>1. \A i \in 0..0 : i = 0
    OBVIOUS
  <2>2. start = [i \in 0..0 |-> IF i = 0 THEN first ELSE Days!Laid(start[i - 1], order[i])]
    BY <2>1
  <2>3. QED BY <2>2 DEF Passes
<1> HIDE DEF start
<1>2. ASSUME NEW k \in 1..n, k = 1 \/ k - 1 \in Good PROVE k \in Good
  <2>1. PICK p : Passes(p, order, k - 1)
    BY <1>1, <1>2
  <2> DEFINE q == [i \in 0..k |-> IF i = k THEN Days!Laid(p[k - 1], order[k]) ELSE p[i]]
  <2>2. k \in Nat \ {0} /\ k - 1 \in 0..k /\ k - 1 # k
    OBVIOUS
  <2> HIDE DEF first
  <2>3. ASSUME NEW i \in 0..k
        PROVE  q[i] = IF i = 0 THEN first ELSE Days!Laid(q[i - 1], order[i])
    <3>1. CASE i = k
      <4>1. q[k] = Days!Laid(p[k - 1], order[k]) /\ q[k - 1] = p[k - 1]
        BY <2>2
      <4>2. QED BY <2>2, <3>1, <4>1
    <3>2. CASE i # k
      <4>1. i \in 0..(k - 1) /\ q[i] = p[i]
        BY <2>2, <3>2
      <4>2. p[i] = IF i = 0 THEN first ELSE Days!Laid(p[i - 1], order[i])
        BY <2>1, <4>1 DEF Passes, first
      <4>3. i # 0 => i - 1 \in 0..k /\ i - 1 # k
        BY <2>2, <4>1
      <4>4. i # 0 => q[i - 1] = p[i - 1]
        BY <4>3
      <4>5. QED BY <4>1, <4>2, <4>4
    <3>3. QED BY <3>1, <3>2
  <2>4. q = [i \in 0..k |-> q[i]]
    OBVIOUS
  <2> HIDE DEF q
  <2>5. q = [i \in 0..k |-> IF i = 0 THEN first ELSE Days!Laid(q[i - 1], order[i])]
    BY <2>3, <2>4
  <2>6. QED BY <2>5 DEF Passes, first
<1> HIDE DEF Good
<1>3. \A k \in 1..n : k \in Good
  BY <1>2, Upwards
<1>4. QED BY <1>1, <1>3 DEF Good

(* Times s and e of the batches in order; clusters C and lanes L of a pass p. *)
TimesOf(s, e, order, n) == \A i \in 1..n : batches[order[i]].start = s[i] /\ batches[order[i]].end = e[i]
PlacesOf(C, L, p, n) == \A i \in 1..n : C[i] = p[i].cluster /\ L[i] = p[i].lane

(* What it gives is in lanes. *)
LEMMA PassInLanes ==
  ASSUME NEW n \in Nat, NEW order, NEW s, NEW e, Hours(s, e, n), TimesOf(s, e, order, n),
         NEW p, Passes(p, order, n), NEW C, NEW L, PlacesOf(C, L, p, n)
  PROVE  InLanes(s, e, C, L, n)
<1> DEFINE Good == {k \in 1..n : InLanes(s, e, C, L, k) /\ Knows(p[k], e, C, L, k)}
<1>1. /\ p[0] = [cluster |-> 0, lane |-> 0, until |-> -1, ends |-> <<>>]
      /\ \A i \in 1..n : p[i] = Days!Laid(p[i - 1], order[i])
  BY DEF Passes
<1>2. InLanes(s, e, C, L, 0)
  BY DEF InLanes
<1>3. Knows(p[0], e, C, L, 0)
  <2>1. DOMAIN p[0].ends = 1..0 /\ p[0].cluster = 0 /\ p[0].until = -1
    BY <1>1
  <2>2. Ends(p[0].ends, p[0].cluster, 0, e, C, L, 0)
    BY <2>1 DEF Ends
  <2>3. QED BY <2>1, <2>2 DEF Knows
<1>4. ASSUME NEW k \in 1..n, k = 1 \/ k - 1 \in Good PROVE k \in Good
  <2>1. InLanes(s, e, C, L, k - 1) /\ Knows(p[k - 1], e, C, L, k - 1)
    BY <1>2, <1>3, <1>4
  <2>2. p[k] = Days!Laid(p[k - 1], order[k]) /\ C[k] = p[k].cluster /\ L[k] = p[k].lane
    BY <1>1 DEF PlacesOf
  <2>3. batches[order[k]].start = s[k] /\ batches[order[k]].end = e[k]
    BY DEF TimesOf
  <2>4. C[k] = Days!Laid(p[k - 1], order[k]).cluster /\ L[k] = Days!Laid(p[k - 1], order[k]).lane
    BY <2>2
  <2>5. InLanes(s, e, C, L, k) /\ Knows(Days!Laid(p[k - 1], order[k]), e, C, L, k)
    BY <2>1, <2>3, <2>4, NextBlock
  <2>6. QED BY <2>2, <2>5
<1> HIDE DEF Good
<1>5. \A k \in 1..n : k \in Good
  BY <1>4, Upwards
<1>6. CASE n = 0
  BY <1>2, <1>6
<1>7. CASE n # 0
  BY <1>5, <1>7 DEF Good
<1>8. QED BY <1>6, <1>7

(* The order by three numbers, the first that differs deciding. *)
LEMMA EarlierOfThree ==
  ASSUME NEW x1 \in Int, NEW x2 \in Int, NEW x3 \in Int, NEW y1 \in Int, NEW y2 \in Int, NEW y3 \in Int
  PROVE  Days!Earlier(<<x1, x2, x3>>, <<y1, y2, y3>>) <=>
           x1 < y1 \/ (x1 = y1 /\ (x2 < y2 \/ (x2 = y2 /\ x3 < y3)))
<1> DEFINE x == <<x1, x2, x3>>
           y == <<y1, y2, y3>>
<1>1. Days!Earlier(x, y) <=> \E i \in {1, 2, 3} : x[i] < y[i] /\ \A j \in 1..(i - 1) : x[j] = y[j]
  <2>1. DOMAIN x = {1, 2, 3}
    OBVIOUS
  <2>2. QED BY <2>1 DEF Days!Earlier
<1>2. /\ \A j \in 1..(1 - 1) : x[j] = y[j]
      /\ (\A j \in 1..(2 - 1) : x[j] = y[j]) <=> x[1] = y[1]
      /\ (\A j \in 1..(3 - 1) : x[j] = y[j]) <=> x[1] = y[1] /\ x[2] = y[2]
  <2>1. 1..0 = {} /\ 1..1 = {1} /\ 1..2 = {1, 2}
    OBVIOUS
  <2>2. QED BY <2>1
<1>3. x[1] = x1 /\ x[2] = x2 /\ x[3] = x3 /\ y[1] = y1 /\ y[2] = y2 /\ y[3] = y3
  OBVIOUS
<1> HIDE DEF x, y
<1>4. Days!Earlier(x, y) <=> \/ x[1] < y[1]
                             \/ x[2] < y[2] /\ x[1] = y[1]
                             \/ x[3] < y[3] /\ x[1] = y[1] /\ x[2] = y[2]
  BY <1>1, <1>2
<1>5. QED BY <1>3, <1>4 DEF x, y

(* The blocks of a column are sorted by their starts, and none is left out. *)
LEMMA ColumnSorted ==
  ASSUME NEW S, IsFiniteSet(S), \A b \in S : b \in Int /\ batches[b].start \in Int /\ batches[b].end \in Int
  PROVE  LET order == Days!InOrder(S)
             n == Cardinality(S)
         IN /\ order \in [1..n -> S]
            /\ \A j, k \in 1..n : j < k => batches[order[j]].start <= batches[order[k]].start
            /\ \A j, k \in 1..n : order[j] = order[k] => j = k
            /\ \A b \in S : \E k \in 1..n : order[k] = b
<1> DEFINE key == [b \in S |-> <<batches[b].start, batches[b].end, b>>]
           R == {p \in S \X S : Days!Earlier(key[p[1]], key[p[2]])}
           n == Cardinality(S)
<1>1. ASSUME NEW b \in S, NEW c \in S
      PROVE  <<b, c>> \in R <=>
               \/ batches[b].start < batches[c].start
               \/ /\ batches[b].start = batches[c].start
                  /\ batches[b].end < batches[c].end \/ (batches[b].end = batches[c].end /\ b < c)
  <2>1. <<b, c>> \in R <=> Days!Earlier(<<batches[b].start, batches[b].end, b>>, <<batches[c].start, batches[c].end, c>>)
    OBVIOUS
  <2>2. PICK b1 \in Int, b2 \in Int, b3 \in Int : b1 = batches[b].start /\ b2 = batches[b].end /\ b3 = b
    OBVIOUS
  <2>3. PICK c1 \in Int, c2 \in Int, c3 \in Int : c1 = batches[c].start /\ c2 = batches[c].end /\ c3 = c
    OBVIOUS
  <2>4. Days!Earlier(<<b1, b2, b3>>, <<c1, c2, c3>>) <=> b1 < c1 \/ (b1 = c1 /\ (b2 < c2 \/ (b2 = c2 /\ b3 < c3)))
    BY EarlierOfThree
  <2> HIDE DEF R
  <2>5. QED BY <2>1, <2>2, <2>3, <2>4
<1>2. ASSUME NEW order \in [1..n -> S]
      PROVE  InRow(order, R, n) <=>
               \A j, k \in DOMAIN order : j < k =>
                 Days!Earlier(<<batches[order[j]].start, batches[order[j]].end, order[j]>>,
                              <<batches[order[k]].start, batches[order[k]].end, order[k]>>)
  <2>1. DOMAIN order = 1..n /\ \A j \in 1..n : order[j] \in S
    OBVIOUS
  <2>2. ASSUME NEW j \in 1..n, NEW k \in 1..n
        PROVE  <<order[j], order[k]>> \in R <=>
                 Days!Earlier(<<batches[order[j]].start, batches[order[j]].end, order[j]>>,
                              <<batches[order[k]].start, batches[order[k]].end, order[k]>>)
    BY <2>1
  <2> HIDE DEF R
  <2>3. QED BY <2>1, <2>2 DEF InRow
<1> HIDE DEF R
<1>3. \A b, c \in S : b # c => <<b, c>> \in R \/ <<c, b>> \in R
  BY <1>1
<1>4. \A b, c, d \in S : <<b, c>> \in R /\ <<c, d>> \in R => <<b, d>> \in R
  <2> SUFFICES ASSUME NEW b \in S, NEW c \in S, NEW d \in S, <<b, c>> \in R, <<c, d>> \in R
               PROVE  <<b, d>> \in R
    OBVIOUS
  <2>1. \A z \in {b, c, d} : z \in Int /\ batches[z].start \in Int /\ batches[z].end \in Int
    OBVIOUS
  <2>2. QED BY <1>1, <2>1
<1>5. \E order \in [1..n -> S] : InRow(order, R, n)
  BY <1>3, <1>4, RowExists
<1>6. Days!Cardinality(S) = n
  BY DaysCount
<1> DEFINE order == Days!InOrder(S)
<1> HIDE DEF n
<1>7. order \in [1..n -> S] /\ InRow(order, R, n)
  <2>1. order = CHOOSE o \in [1..n -> S] : \A j, k \in DOMAIN o : j < k =>
                 Days!Earlier(<<batches[o[j]].start, batches[o[j]].end, o[j]>>,
                              <<batches[o[k]].start, batches[o[k]].end, o[k]>>)
    BY <1>6 DEF Days!InOrder
  <2> HIDE DEF order
  <2>2. \E o \in [1..n -> S] : \A j, k \in DOMAIN o : j < k =>
                 Days!Earlier(<<batches[o[j]].start, batches[o[j]].end, o[j]>>,
                              <<batches[o[k]].start, batches[o[k]].end, o[k]>>)
    BY <1>2, <1>5
  <2>3. order \in [1..n -> S] /\ \A j, k \in DOMAIN order : j < k =>
                 Days!Earlier(<<batches[order[j]].start, batches[order[j]].end, order[j]>>,
                              <<batches[order[k]].start, batches[order[k]].end, order[k]>>)
    BY <2>1, <2>2
  <2>4. QED BY <1>2, <2>3
<1> HIDE DEF order
<1>8. n \in Nat
  BY FS_CardinalityType DEF n
<1>9. ASSUME NEW j \in 1..n, NEW k \in 1..n, j < k
      PROVE  batches[order[j]].start <= batches[order[k]].start /\ order[j] # order[k]
  <2>1. order[j] \in S /\ order[k] \in S /\ <<order[j], order[k]>> \in R
    BY <1>7, <1>9 DEF InRow
  <2>2. QED BY <1>1, <2>1
<1>10. \A j, k \in 1..n : order[j] = order[k] => j = k
  <2> SUFFICES ASSUME NEW j \in 1..n, NEW k \in 1..n, order[j] = order[k], j # k PROVE FALSE
    OBVIOUS
  <2>1. j < k \/ k < j
    BY <1>8
  <2>2. QED BY <1>9, <2>1
<1>11. \A b \in S : \E k \in 1..n : order[k] = b
  <2>1. IsFiniteSet(1..n) /\ Cardinality(1..n) = n
    BY <1>8, FS_Interval
  <2>2. order \in Injection(1..n, S)
    BY <1>7, <1>10 DEF Injection, IsInjective
  <2>3. order \in Surjection(1..n, S)
    BY <2>1, <2>2, FS_Injection DEF n
  <2>4. QED BY <2>3 DEF Surjection
<1>12. QED BY <1>7, <1>9, <1>10, <1>11 DEF order, n

(* What is told of batches by number: their times. *)
HoursKnown ==
  /\ Timetabled(batches)
  /\ \A b \in DOMAIN batches : batches[b].start \in Nat /\ batches[b].end \in Nat /\ batches[b].start < batches[b].end

(* The n blocks of a column in order, with clusters C and lanes L. *)
Column(w, n, order, C, L) ==
  LET s == [i \in 1..n |-> batches[order[i]].start]
      e == [i \in 1..n |-> batches[order[i]].end]
  IN /\ n \in Nat /\ order \in [1..n -> Days!ByDay(w)]
     /\ InLanes(s, e, C, L, n)
     /\ \A j, k \in 1..n : order[j] = order[k] => j = k
     /\ \A b \in Days!ByDay(w) : \E k \in 1..n : order[k] = b
     /\ \A j, k \in 1..n : j < k => s[j] <= s[k]
     /\ Days!PackBlocks(w) = [i \in 1..n |-> [batch |-> order[i], lane |-> L[i], cluster |-> C[i]]]
LEMMA ColumnIs == ASSUME HoursKnown, NEW w PROVE \E n, order, C, L : Column(w, n, order, C, L)
<1> DEFINE S == Days!ByDay(w)
           n == Cardinality(S)
           order == Days!InOrder(S)
           s == [i \in 1..n |-> batches[order[i]].start]
           e == [i \in 1..n |-> batches[order[i]].end]
<1>1. S \subseteq DOMAIN batches
  BY DEF Days!ByDay
<1>2. Len(batches) \in Nat /\ DOMAIN batches = 1..Len(batches)
  BY BookSpelt DEF HoursKnown
<1> HIDE DEF S
<1>3. IsFiniteSet(S)
  <2>1. IsFiniteSet(DOMAIN batches)
    BY <1>2, FS_Interval
  <2>2. QED BY <1>1, <2>1, FS_Subset
<1>4. \A b \in S : b \in Int /\ batches[b].start \in Nat /\ batches[b].end \in Nat /\ batches[b].start < batches[b].end
  BY <1>1, <1>2 DEF HoursKnown
<1>5. /\ order \in [1..n -> S]
      /\ \A j, k \in 1..n : j < k => batches[order[j]].start <= batches[order[k]].start
      /\ \A j, k \in 1..n : order[j] = order[k] => j = k
      /\ \A b \in S : \E k \in 1..n : order[k] = b
  <2>1. \A b \in S : b \in Int /\ batches[b].start \in Int /\ batches[b].end \in Int
    BY <1>4
  <2>2. QED BY <1>3, <2>1, ColumnSorted
<1>6. n \in Nat
  BY <1>3, FS_CardinalityType
<1>7. Days!PackBlocks(w) = Days!Packed(order)
  BY DEF Days!PackBlocks, S
<1> HIDE DEF n, order
<1> DEFINE first == [cluster |-> 0, lane |-> 0, until |-> -1, ends |-> <<>>]
           Pass(p) == p = [i \in {0} \cup DOMAIN order |-> IF i = 0 THEN first ELSE Days!Laid(p[i - 1], order[i])]
           pass == CHOOSE p : Pass(p)
<1>8. DOMAIN order = 1..n /\ {0} \cup DOMAIN order = 0..n
  BY <1>5, <1>6
<1>9. \A p : Pass(p) <=> Passes(p, order, n)
  BY <1>8 DEF Passes
<1>10. Days!Packed(order) = [i \in DOMAIN order |-> [batch |-> order[i], lane |-> pass[i].lane, cluster |-> pass[i].cluster]]
  BY DEF Days!Packed
<1> HIDE DEF Pass
<1>11. \E p : Pass(p)
  BY <1>6, <1>9, PassExists
<1>12. Passes(pass, order, n)
  BY <1>9, <1>11
<1> HIDE DEF pass
<1> DEFINE C == [i \in 1..n |-> pass[i].cluster]
           L == [i \in 1..n |-> pass[i].lane]
<1>13. /\ s \in [1..n -> Nat] /\ e \in [1..n -> Nat]
       /\ \A i \in 1..n : batches[order[i]].start = s[i] /\ batches[order[i]].end = e[i] /\ s[i] < e[i]
       /\ \A j, k \in 1..n : j < k => s[j] <= s[k]
       /\ \A i \in 1..n : C[i] = pass[i].cluster /\ L[i] = pass[i].lane
  BY <1>4, <1>5
<1>14. InLanes(s, e, C, L, n)
  <2> HIDE DEF s, e, C, L
  <2>1. TimesOf(s, e, order, n)
    BY <1>13 DEF TimesOf
  <2>2. Hours(s, e, n)
    BY <1>6, <1>13 DEF Hours
  <2>3. PlacesOf(C, L, pass, n)
    BY <1>13 DEF PlacesOf
  <2> HIDE DEF first
  <2>4. QED BY <1>6, <1>12, <2>1, <2>2, <2>3, PassInLanes, Zenon
<1>15. Days!PackBlocks(w) = [i \in 1..n |-> [batch |-> order[i], lane |-> L[i], cluster |-> C[i]]]
  BY <1>7, <1>8, <1>10
<1>16. \A j, k \in 1..n : j < k => s[j] <= s[k]
  BY <1>13
<1> HIDE DEF C, L
<1>17. /\ InLanes(s, e, C, L, n)
       /\ \A j, k \in 1..n : order[j] = order[k] => j = k
       /\ \A b \in Days!ByDay(w) : \E k \in 1..n : order[k] = b
       /\ \A j, k \in 1..n : j < k => s[j] <= s[k]
       /\ Days!PackBlocks(w) = [i \in 1..n |-> [batch |-> order[i], lane |-> L[i], cluster |-> C[i]]]
  BY <1>5, <1>14, <1>15, <1>16 DEF S
<1>18. order \in [1..n -> Days!ByDay(w)]
  BY <1>5 DEF S
<1>19. Column(w, n, order, C, L)
  BY <1>6, <1>17, <1>18 DEF Column
<1>20. QED BY <1>19

(* Blocks in their lanes, sorted by their starts. *)
Sorted(n, s, e, C, L) == Hours(s, e, n) /\ InLanes(s, e, C, L, n)

(* Whether block j is on, in the cluster of block m, when that one starts. *)
OnWith(j, m, n, s, e, C) == j \in 1..n /\ C[j] = C[m] /\ s[j] <= s[m] /\ s[m] < e[j]

(* The widest moment of a cluster is the start of the block in its last     *)
(* lane: every lane before that one is busy then.                           *)
LEMMA WidestMoment ==
  ASSUME NEW n, NEW s, NEW e, NEW C, NEW L, Sorted(n, s, e, C, L),
         NEW m \in 1..n, \A j \in 1..n : C[j] = C[m] => L[j] <= L[m],
         NEW K, \A j : j \in K <=> OnWith(j, m, n, s, e, C)
  PROVE  Cardinality(K) = L[m]
<1>0. /\ n \in Nat /\ s \in [1..n -> Nat] /\ e \in [1..n -> Nat]
      /\ \A j \in 1..n : s[j] < e[j]
      /\ \A j, k \in 1..n : j < k => s[j] <= s[k]
      /\ \A j : j \in K <=> j \in 1..n /\ C[j] = C[m] /\ s[j] <= s[m] /\ s[m] < e[j]
  BY DEF Sorted, Hours, OnWith
<1>1. /\ \A j \in 1..n : C[j] \in Nat /\ L[j] \in Nat \ {0} /\ s[j] \in Nat /\ e[j] \in Nat
      /\ \A j, k \in 1..n : j < k /\ L[j] = L[k] => e[j] <= s[k]
  BY <1>0 DEF Sorted, InLanes
<1>2. ASSUME NEW j \in K, NEW k \in K, L[j] = L[k] PROVE j = k
  <2>1. j \in 1..n /\ k \in 1..n /\ s[j] <= s[m] /\ s[m] < e[j] /\ s[k] <= s[m] /\ s[m] < e[k]
    BY <1>0
  <2>2. ~(e[j] <= s[k]) /\ ~(e[k] <= s[j])
    BY <1>1, <2>1
  <2>3. QED BY <1>1, <1>2, <2>1, <2>2
<1>3. ASSUME NEW j \in K PROVE L[j] \in 1..L[m]
  <2>1. j \in 1..n /\ C[j] = C[m]
    BY <1>0
  <2>2. L[j] <= L[m] /\ L[j] \in Nat \ {0} /\ L[m] \in Nat
    BY <1>1, <2>1
  <2>3. QED BY <2>2
<1>4. ASSUME NEW l \in 1..L[m] PROVE \E j \in K : L[j] = l
  <2>1. CASE l = L[m]
    <3>1. s[m] <= s[m] /\ s[m] < e[m]
      BY <1>0, <1>1
    <3>2. m \in K
      BY <1>0, <3>1
    <3>3. QED BY <2>1, <3>2
  <2>2. CASE l # L[m]
    <3>1. l \in 1..(L[m] - 1)
      BY <1>1, <2>2
    <3>2. PICK j \in 1..(m - 1) : C[j] = C[m] /\ L[j] = l /\ e[j] > s[m]
      BY <3>1 DEF Sorted, InLanes
    <3>3. j \in 1..n /\ j < m /\ s[j] <= s[m]
      BY <1>0
    <3>4. QED BY <1>0, <1>1, <3>2, <3>3
  <2>3. QED BY <2>1, <2>2
<1>5. IsFiniteSet(K)
  <2>1. K \subseteq 1..n
    BY <1>0
  <2>2. QED BY <1>0, <2>1, FS_Interval, FS_Subset
<1> DEFINE h == [j \in K |-> L[j]]
           Y == {h[j] : j \in K}
<1>6. Y = 1..L[m]
  BY <1>3, <1>4
<1>7. \A j, k \in K : h[j] = h[k] => j = k
  BY <1>2
<1> HIDE DEF h
<1>8. Cardinality(Y) = Cardinality(K)
  BY <1>5, <1>7, CountRenamed
<1>9. Cardinality(1..L[m]) = L[m]
  <2>1. PICK most \in Nat : most = L[m]
    BY <1>1
  <2>2. Cardinality(1..most) = most
    BY FS_Interval
  <2>3. QED BY <2>1, <2>2
<1>10. QED BY <1>6, <1>8, <1>9

(* No block hides another, and no lane is wasted. *)
LEMMA ColumnsApart == ASSUME HoursKnown PROVE Days!BlocksApart
<1>1. SUFFICES ASSUME NEW w \in 0..(Week - 1)
      PROVE  LET blocks == Days!PackBlocks(w) IN
        /\ {blocks[i].batch : i \in DOMAIN blocks} = Days!ByDay(w)
        /\ \A i, j \in DOMAIN blocks :
             i # j /\ Days!Overlap(batches[blocks[i].batch], batches[blocks[j].batch]) =>
               blocks[i].lane # blocks[j].lane /\ blocks[i].cluster = blocks[j].cluster
        /\ \A i \in DOMAIN blocks : \E h \in {batches[b].start : b \in Days!ByDay(w)} :
             Days!Lanes(blocks, blocks[i]) = Days!Cardinality({j \in DOMAIN blocks :
               blocks[j].cluster = blocks[i].cluster
                 /\ batches[blocks[j].batch].start <= h /\ h < batches[blocks[j].batch].end})
  BY DEF Days!BlocksApart
<1>2. PICK n, order, C, L : Column(w, n, order, C, L)
  BY ColumnIs
<1> DEFINE s == [i \in 1..n |-> batches[order[i]].start]
           e == [i \in 1..n |-> batches[order[i]].end]
           blocks == Days!PackBlocks(w)
<1>3. /\ n \in Nat /\ order \in [1..n -> Days!ByDay(w)]
      /\ InLanes(s, e, C, L, n)
      /\ \A b \in Days!ByDay(w) : \E k \in 1..n : order[k] = b
      /\ \A j, k \in 1..n : j < k => s[j] <= s[k]
      /\ blocks = [i \in 1..n |-> [batch |-> order[i], lane |-> L[i], cluster |-> C[i]]]
  BY <1>2 DEF Column
<1>4. /\ DOMAIN blocks = 1..n
      /\ \A i \in 1..n : blocks[i].batch = order[i] /\ blocks[i].lane = L[i] /\ blocks[i].cluster = C[i]
  BY <1>3
<1>5. \A i \in 1..n : order[i] \in Days!ByDay(w)
  BY <1>3
<1>6. /\ s \in [1..n -> Nat] /\ e \in [1..n -> Nat]
      /\ \A i \in 1..n : s[i] = batches[order[i]].start /\ e[i] = batches[order[i]].end
      /\ \A i \in 1..n : s[i] < e[i]
  BY <1>5 DEF HoursKnown, Days!ByDay
<1> HIDE DEF blocks, s, e
<1>7. {blocks[i].batch : i \in DOMAIN blocks} = Days!ByDay(w)
  BY <1>3, <1>4, <1>5
<1>8. ASSUME NEW i \in 1..n, NEW j \in 1..n, i < j, s[j] < e[i]
      PROVE  L[i] # L[j] /\ C[i] = C[j]
  <2>1. C[i] \in Nat /\ C[j] \in Nat /\ C[i] <= C[j] /\ (C[i] < C[j] \/ L[i] = L[j] => e[i] <= s[j])
    BY <1>3, <1>8 DEF InLanes
  <2>2. s[j] \in Nat /\ e[i] \in Nat
    BY <1>6
  <2>3. QED BY <1>8, <2>1, <2>2
<1>9. ASSUME NEW i \in DOMAIN blocks, NEW j \in DOMAIN blocks,
             i # j, Days!Overlap(batches[blocks[i].batch], batches[blocks[j].batch])
      PROVE  blocks[i].lane # blocks[j].lane /\ blocks[i].cluster = blocks[j].cluster
  <2>1. i \in 1..n /\ j \in 1..n
    BY <1>4
  <2>2. s[i] < e[j] /\ s[j] < e[i]
    BY <1>4, <1>6, <1>9, <2>1 DEF Days!Overlap
  <2>3. i < j \/ j < i
    BY <1>9, <2>1
  <2>4. QED BY <1>4, <1>8, <2>1, <2>2, <2>3
<1>10. ASSUME NEW i \in DOMAIN blocks
       PROVE  \E h \in {batches[b].start : b \in Days!ByDay(w)} :
             Days!Lanes(blocks, blocks[i]) = Days!Cardinality({j \in DOMAIN blocks :
               blocks[j].cluster = blocks[i].cluster
                 /\ batches[blocks[j].batch].start <= h /\ h < batches[blocks[j].batch].end})
  <2> DEFINE same == {j \in 1..n : C[j] = C[i]}
             lanes == {L[j] : j \in same}
             most == Days!Max(lanes)
  <2>1. i \in 1..n
    BY <1>4
  <2>2. Days!Lanes(blocks, blocks[i]) = most
    <3>1. {j \in DOMAIN blocks : blocks[j].cluster = blocks[i].cluster} = same
      BY <1>4, <2>1
    <3>2. {blocks[k].lane : k \in same} = lanes
      BY <1>4
    <3>3. QED BY <3>1, <3>2 DEF Days!Lanes
  <2>3. \A j \in same : j \in 1..n /\ L[j] \in Nat
    BY <1>3 DEF InLanes
  <2>4. IsFiniteSet(same)
    BY <1>3, FS_Interval, FS_Subset
  <2>5. i \in same
    BY <2>1
  <2>6. \A j \in same : C[j] = C[i]
    OBVIOUS
  <2>7. \A j \in 1..n : C[j] = C[i] => j \in same
    OBVIOUS
  <2> HIDE DEF same
  <2>8. IsFiniteSet(lanes)
    BY <2>4, HeadingsFinite
  <2>9. lanes # {} /\ \A y \in lanes : y \in Int
    BY <2>3, <2>5
  <2>10. \A j \in same : L[j] \in lanes
    OBVIOUS
  <2>11. \A y \in lanes : \E j \in same : y = L[j]
    OBVIOUS
  <2> HIDE DEF lanes
  <2>12. most \in lanes /\ \A y \in lanes : y <= most
    BY <2>8, <2>9, MostIs
  <2>13. PICK m \in same : most = L[m]
    BY <2>11, <2>12
  <2>14. m \in 1..n /\ C[m] = C[i] /\ \A j \in 1..n : C[j] = C[m] => L[j] <= L[m]
    BY <2>3, <2>6, <2>7, <2>10, <2>12, <2>13
  <2> DEFINE K == {j \in 1..n : C[j] = C[m] /\ s[j] <= s[m] /\ s[m] < e[j]}
  <2>15. Cardinality(K) = L[m]
    <3>1. Sorted(n, s, e, C, L)
      BY <1>3, <1>6 DEF Sorted, Hours
    <3>2. \A j : j \in K <=> OnWith(j, m, n, s, e, C)
      BY DEF OnWith
    <3>3. m \in 1..n /\ \A j \in 1..n : C[j] = C[m] => L[j] <= L[m]
      BY <2>14
    <3> HIDE DEF K
    <3>4. QED BY <3>1, <3>2, <3>3, WidestMoment
  <2>16. K = {j \in DOMAIN blocks : blocks[j].cluster = blocks[i].cluster
               /\ batches[blocks[j].batch].start <= s[m] /\ s[m] < batches[blocks[j].batch].end}
    BY <1>4, <1>6, <2>1, <2>14
  <2>17. s[m] \in {batches[b].start : b \in Days!ByDay(w)}
    BY <1>5, <1>6, <2>14
  <2>18. QED BY <2>2, <2>13, <2>15, <2>16, <2>17, DaysCount
<1>11. QED BY <1>7, <1>9, <1>10 DEF blocks

(* Nor is Null the dashboard's card of a class.                             *)
NullIsNoCard == \A class, kind : [class |-> class, kind |-> kind] # Null

(* The times of batches and of saved registers, and the clock.              *)
TimesKnown ==
  /\ HoursKnown /\ Timed(saved)
  /\ \A b \in DOMAIN batches : batches[b].days \subseteq 0..(Week - 1)
  /\ IsFiniteSet(DOMAIN saved)
  /\ \A k \in DOMAIN saved : k[2] \in Int /\ k[2] <= clock.day
  /\ clock.day \in Int /\ clock.hour \in Int

(* The classes on the card that are on, to come and over are those left.    *)
LEMMA CardCovers ==
  ASSUME NullIsNoCard, TimesKnown, NEW viewer
  PROVE  /\ Days!FastAttendance(viewer) = Null <=> Days!Pending(viewer) = {}
         /\ Days!FastAttendance(viewer) # Null /\ Days!FastAttendance(viewer).kind = "live" =>
              LET live == {b \in Days!Pending(viewer) : batches[b].start <= clock.hour /\ batches[b].end >= clock.hour}
              IN live # {} /\ Days!FastAttendance(viewer).class = Days!FirstOf(live, clock.day, batches, saved)
<1> DEFINE P == Days!Pending(viewer)
           live == {b \in P : batches[b].start <= clock.hour /\ batches[b].end >= clock.hour}
           next == {b \in P : batches[b].start > clock.hour}
           overdue == {b \in P : batches[b].end < clock.hour}
           first(S) == Days!FirstOf(S, clock.day, batches, saved)
           card == Days!FastAttendance(viewer)
<1>1. card = IF live # {} THEN [class |-> first(live), kind |-> "live"]
             ELSE IF next # {} THEN [class |-> first(next), kind |-> "next"]
             ELSE IF overdue # {} THEN [class |-> first(overdue), kind |-> "overdue"] ELSE Null
  BY DEF Days!FastAttendance
<1>2. P \subseteq DOMAIN batches
  BY DEF Days!Pending, Days!ClassesOn
<1>3. \A b \in P : batches[b].start \in Nat /\ batches[b].end \in Nat /\ clock.hour \in Int
  BY <1>2 DEF TimesKnown, HoursKnown
<1>4. \A b \in P : b \in live \/ b \in next \/ b \in overdue
  BY <1>3
<1>5. live \subseteq P /\ next \subseteq P /\ overdue \subseteq P
  OBVIOUS
<1> HIDE DEF P, live, next, overdue, first, card
<1>6. card = Null <=> live = {} /\ next = {} /\ overdue = {}
  BY <1>1 DEF NullIsNoCard
<1>7. card = Null <=> P = {}
  BY <1>4, <1>5, <1>6
<1>8. card # Null /\ card.kind = "live" => live # {} /\ card.class = first(live)
  BY <1>1
<1>9. QED BY <1>7, <1>8 DEF P, live, first, card

(* The roll call opened from the menu has its classes of today. *)
LEMMA OpenedToday ==
  ASSUME NullIsNoBatch, TimesKnown, NEW viewer
  PROVE  LET opened == [viewer |-> viewer, date |-> 0, batch |-> Null, all |-> FALSE]
             listed == {b \in Days!ClassEntriesFor(clock.day, batches, saved) : viewer \in Teacher => batches[b].teacher = viewer}
         IN /\ Days!Listed(opened, batches, saved, clock) = listed
            /\ Days!Selected(opened, batches, saved, clock) = Days!DefaultClass(listed, clock.day, batches, saved, clock)
            /\ Days!OfStatus(listed, "live", clock.day, batches, saved, clock) =
                 {b \in listed : /\ b \in Days!ClassesOn(clock.day, batches) /\ <<b, clock.day>> \notin DOMAIN saved
                                 /\ batches[b].start <= clock.hour /\ batches[b].end >= clock.hour}
<1> DEFINE opened == [viewer |-> viewer, date |-> 0, batch |-> Null, all |-> FALSE]
           all == Days!ClassEntriesFor(clock.day, batches, saved)
           listed == {b \in all : viewer \in Teacher => batches[b].teacher = viewer}
<1>1. Days!DateOf(opened, clock) = clock.day
  BY DEF Days!DateOf
<1>2. Days!Listed(opened, batches, saved, clock) = listed
  BY <1>1 DEF Days!Listed
<1>3. Len(batches) \in Nat /\ DOMAIN batches = 1..Len(batches)
  BY BookSpelt DEF TimesKnown, HoursKnown
<1>4. all \subseteq DOMAIN batches
  BY DEF Days!ClassEntriesFor, Days!ClassesOn, Days!Extras
<1>5. Null \notin DOMAIN batches
  BY <1>3 DEF NullIsNoBatch
<1>6. Days!Requested(opened, batches, saved, clock) = Null
  BY <1>1, <1>4, <1>5 DEF Days!Requested
<1>7. Days!Selected(opened, batches, saved, clock) = Days!DefaultClass(listed, clock.day, batches, saved, clock)
  BY <1>1, <1>2, <1>6 DEF Days!Selected
<1>8. ASSUME NEW b \in listed
      PROVE  Days!ClassStatus(b, clock.day, batches, saved, clock) = "live" <=>
               /\ b \in Days!ClassesOn(clock.day, batches) /\ <<b, clock.day>> \notin DOMAIN saved
               /\ batches[b].start <= clock.hour /\ batches[b].end >= clock.hour
  <2>1. b \in Days!ClassesOn(clock.day, batches) \/ <<b, clock.day>> \in DOMAIN saved
    BY DEF Days!ClassEntriesFor, Days!Extras
  <2>2. batches[b].start \in Nat /\ batches[b].end \in Nat /\ clock.hour \in Int /\ clock.day \in Int
    BY <1>4 DEF TimesKnown, HoursKnown
  <2>3. CASE <<b, clock.day>> \in DOMAIN saved
    BY <2>3 DEF Days!ClassStatus
  <2>4. CASE <<b, clock.day>> \notin DOMAIN saved
    BY <2>1, <2>2, <2>4 DEF Days!ClassStatus
  <2>5. QED BY <2>3, <2>4
<1> HIDE DEF listed
<1>9. Days!OfStatus(listed, "live", clock.day, batches, saved, clock) =
        {b \in listed : /\ b \in Days!ClassesOn(clock.day, batches) /\ <<b, clock.day>> \notin DOMAIN saved
                        /\ batches[b].start <= clock.hour /\ batches[b].end >= clock.hour}
  BY <1>8 DEF Days!OfStatus
<1>10. QED BY <1>2, <1>7, <1>9 DEF listed

(* The card's class in progress is the one the roll call opens. *)
LEMMA CardOpens == ASSUME NullIsNoBatch, NullIsNoCard, TimesKnown PROVE Days!CardOpensClass
<1> SUFFICES ASSUME NEW viewer
             PROVE  LET card == Days!FastAttendance(viewer)
                        opened == [viewer |-> viewer, date |-> 0, batch |-> Null, all |-> FALSE]
                    IN /\ card = Null <=> Days!Pending(viewer) = {}
                       /\ card # Null /\ card.kind = "live" /\ card.class \in Days!Listed(opened, batches, saved, clock) =>
                            card.class = Days!Selected(opened, batches, saved, clock)
  BY DEF Days!CardOpensClass
<1> DEFINE card == Days!FastAttendance(viewer)
           opened == [viewer |-> viewer, date |-> 0, batch |-> Null, all |-> FALSE]
           listed == {b \in Days!ClassEntriesFor(clock.day, batches, saved) : viewer \in Teacher => batches[b].teacher = viewer}
           on(b) == batches[b].start <= clock.hour /\ batches[b].end >= clock.hour
           unmarked == {b \in Days!ClassesOn(clock.day, batches) : <<b, clock.day>> \notin DOMAIN saved}
           mine == {b \in unmarked : viewer \in Teacher /\ batches[b].teacher = viewer}
           live == {b \in Days!Pending(viewer) : on(b)}
           rolled == {b \in listed : b \in unmarked /\ on(b)}
           first(S) == Days!FirstOf(S, clock.day, batches, saved)
<1>1. card = Null <=> Days!Pending(viewer) = {}
  BY CardCovers
<1>2. /\ Days!Listed(opened, batches, saved, clock) = listed
      /\ Days!Selected(opened, batches, saved, clock) = Days!DefaultClass(listed, clock.day, batches, saved, clock)
      /\ Days!OfStatus(listed, "live", clock.day, batches, saved, clock) = rolled
  <2>1. {b \in listed : /\ b \in Days!ClassesOn(clock.day, batches) /\ <<b, clock.day>> \notin DOMAIN saved
                        /\ batches[b].start <= clock.hour /\ batches[b].end >= clock.hour} = rolled
    OBVIOUS
  <2>2. QED BY <2>1, OpenedToday
<1>3. rolled # {} => Days!Selected(opened, batches, saved, clock) = first(rolled)
  <2> HIDE DEF listed, rolled
  <2>1. QED BY <1>2 DEF Days!DefaultClass
<1>4. ASSUME card # Null, card.kind = "live", card.class \in listed
      PROVE  card.class = Days!Selected(opened, batches, saved, clock)
  <2>1. live # {} /\ card.class = first(live)
    BY <1>4, CardCovers
  <2>2. Days!Pending(viewer) = IF mine # {} THEN mine ELSE unmarked
    BY DEF Days!Pending
  <2>3. live \subseteq unmarked /\ unmarked \subseteq DOMAIN batches
    BY <2>2 DEF Days!ClassesOn
  <2>4. card.class \in live
    <3>1. live \subseteq DOMAIN batches
      BY <2>3
    <3>2. Timetabled(batches) /\ Timed(saved)
      BY DEF TimesKnown, HoursKnown
    <3> HIDE DEF live, card
    <3>3. QED BY <2>1, <3>1, <3>2, EndsAreListed
  <2>5. unmarked \subseteq Days!ClassEntriesFor(clock.day, batches, saved)
    BY DEF Days!ClassEntriesFor
  <2>6. viewer \in Teacher => mine # {}
    BY <1>4, <2>3, <2>4
  <2>7. live = rolled
    <3>1. CASE viewer \in Teacher
      BY <2>2, <2>5, <2>6, <3>1
    <3>2. CASE viewer \notin Teacher
      BY <2>2, <2>5, <3>2
    <3>3. QED BY <3>1, <3>2
  <2>8. QED BY <1>3, <2>1, <2>7
<1>5. QED BY <1>1, <1>2, <1>4

(* With nothing marked, the order of classes is the same on any day. *)
LEMMA UnmarkedOrder ==
  ASSUME NEW d, NEW e, NEW bs, NEW S
  PROVE  Days!FirstOf(S, d, bs, [k \in {} |-> Null]) = Days!FirstOf(S, e, bs, [k \in {} |-> Null])
<1> DEFINE none == [k \in {} |-> Null]
<1>1. DOMAIN none = {}
  OBVIOUS
<1> HIDE DEF none
<1>2. \A b : Days!Rank(b, d, bs, none) = <<bs[b].start, 0, bs[b].start, b>>
  BY <1>1 DEF Days!Rank, Days!Extras
<1>3. \A b : Days!Rank(b, e, bs, none) = <<bs[b].start, 0, bs[b].start, b>>
  BY <1>1 DEF Days!Rank, Days!Extras
<1>4. \A b : Days!Rank(b, d, bs, none) = Days!Rank(b, e, bs, none)
  BY <1>2, <1>3
<1>5. Days!FirstOf(S, d, bs, none) = Days!FirstOf(S, e, bs, none)
  BY <1>4 DEF Days!FirstOf
<1>6. QED BY <1>5 DEF none

(* The classes a family has still to come on a day. *)
OnDay(d, mine, rest) == IF d = clock.day THEN rest ELSE Days!Mine(d, mine)

(* The classes of a week ahead are those. *)
WeekAhead(S, mine, rest) ==
  \A x : x \in S <=> /\ x \in (clock.day..(clock.day + Week - 1)) \X mine
                     /\ x[2] \in OnDay(x[1], mine, rest)

(* The first of some classes, each with its day. *)
FirstIn(S) ==
  <<Days!Min({x[1] : x \in S}),
    Days!FirstOf({x[2] : x \in {y \in S : y[1] = Days!Min({z[1] : z \in S})}}, 1, batches, [k \in {} |-> Null])>>

(* The first class two weeks ahead is the first one of a week ahead, if     *)
(* that week has any.                                                       *)
LEMMA FirstWithinWeek ==
  ASSUME TimesKnown, NEW mine, NEW rest, rest \subseteq Days!Mine(clock.day, mine), NEW S, S # {},
         WeekAhead(S, mine, rest)
  PROVE  Days!FirstAhead(mine, rest) = FirstIn(S)
<1>0. \A x : x \in S <=> /\ x \in (clock.day..(clock.day + Week - 1)) \X mine
                         /\ x[2] \in OnDay(x[1], mine, rest)
  BY DEF WeekAhead
<1> DEFINE days == {d \in clock.day..(clock.day + 2 * Week) : OnDay(d, mine, rest) # {}}
           firsts == {x[1] : x \in S}
           d1 == Days!Min(firsts)
           d2 == Days!Min(days)
           of1 == {x[2] : x \in {y \in S : y[1] = d1}}
<1>1. clock.day \in Int /\ Week \in Nat \ {0}
  BY ClassesGiven DEF TimesKnown
<1>2. Days!FirstAhead(mine, rest) =
        IF days = {} THEN Null
        ELSE <<d2, Days!FirstOf(OnDay(d2, mine, rest), d2, batches, [k \in {} |-> Null])>>
  BY DEF Days!FirstAhead, OnDay
<1>3. \A d : \A b \in OnDay(d, mine, rest) : b \in mine
  BY DEF OnDay, Days!Mine
<1>4. \A d : d \in firsts <=> d \in clock.day..(clock.day + Week - 1) /\ OnDay(d, mine, rest) # {}
  <2>1. ASSUME NEW d \in firsts PROVE d \in clock.day..(clock.day + Week - 1) /\ OnDay(d, mine, rest) # {}
    <3>1. PICK x \in S : d = x[1]
      OBVIOUS
    <3>2. QED BY <1>0, <3>1
  <2>2. ASSUME NEW d \in clock.day..(clock.day + Week - 1), OnDay(d, mine, rest) # {} PROVE d \in firsts
    <3>1. PICK b \in OnDay(d, mine, rest) : TRUE
      BY <2>2
    <3>2. <<d, b>> \in (clock.day..(clock.day + Week - 1)) \X mine
      BY <1>3, <3>1
    <3>3. <<d, b>> \in S /\ <<d, b>>[1] = d
      BY <1>0, <3>1, <3>2
    <3> DEFINE x == <<d, b>>
    <3> HIDE DEF x
    <3>4. x \in S /\ x[1] = d
      BY <3>3 DEF x
    <3>5. QED BY <3>4
  <2>3. QED BY <2>1, <2>2
<1>5. firsts # {}
  OBVIOUS
<1>6. \A d : d \in days <=> d \in clock.day..(clock.day + 2 * Week) /\ OnDay(d, mine, rest) # {}
  OBVIOUS
<1>7. \A x : x \in of1 <=> \E y \in S : y[1] = d1 /\ x = y[2]
  OBVIOUS
<1> HIDE DEF firsts, days, d1, d2, of1
<1>8. firsts \subseteq days /\ \A d \in days : d \in Int
  BY <1>1, <1>4, <1>6
<1>9. IsFiniteSet(days) /\ IsFiniteSet(firsts)
  <2>1. days \subseteq clock.day..(clock.day + 2 * Week)
    BY <1>6
  <2>2. clock.day + 2 * Week \in Int
    BY <1>1
  <2>3. IsFiniteSet(days)
    BY <1>1, <2>1, <2>2, FS_Interval, FS_Subset
  <2>4. QED BY <1>8, <2>3, FS_Subset
<1>10. d2 \in days /\ \A d \in days : d2 <= d
  <2>1. days # {}
    BY <1>5, <1>8
  <2>2. QED BY <1>8, <1>9, <2>1, LeastIs DEF d2
<1>11. d1 \in firsts /\ \A d \in firsts : d1 <= d
  <2>1. \A d \in firsts : d \in Int
    BY <1>8
  <2>2. QED BY <1>5, <1>9, <2>1, LeastIs DEF d1
<1>12. d1 = d2
  <2>1. d1 \in Int /\ d2 \in Int /\ d2 <= d1 /\ d1 <= clock.day + Week - 1
    BY <1>1, <1>4, <1>8, <1>10, <1>11
  <2>2. d2 \in clock.day..(clock.day + Week - 1)
    BY <1>1, <1>6, <1>10, <2>1
  <2>3. d2 \in firsts
    BY <1>4, <1>6, <1>10, <2>2
  <2>4. QED BY <1>11, <2>1, <2>3
<1>13. of1 = OnDay(d1, mine, rest)
  <2>1. ASSUME NEW b \in of1 PROVE b \in OnDay(d1, mine, rest)
    BY <1>0, <1>7
  <2>2. ASSUME NEW b \in OnDay(d1, mine, rest) PROVE b \in of1
    <3>1. d1 \in clock.day..(clock.day + Week - 1)
      BY <1>4, <1>11
    <3>2. <<d1, b>> \in (clock.day..(clock.day + Week - 1)) \X mine
      BY <1>3, <3>1
    <3> DEFINE x == <<d1, b>>
    <3>3. x \in (clock.day..(clock.day + Week - 1)) \X mine /\ x[1] = d1 /\ x[2] = b
      BY <3>2
    <3> HIDE DEF x
    <3>4. x \in S
      BY <1>0, <3>3
    <3>5. QED BY <1>7, <3>3, <3>4
  <2>3. QED BY <2>1, <2>2
<1>14. Days!FirstAhead(mine, rest) = <<d1, Days!FirstOf(of1, d1, batches, [k \in {} |-> Null])>>
  BY <1>2, <1>10, <1>12, <1>13
<1>15. Days!FirstOf(of1, d1, batches, [k \in {} |-> Null]) = Days!FirstOf(of1, 1, batches, [k \in {} |-> Null])
  BY UnmarkedOrder
<1>16. Days!FirstAhead(mine, rest) = <<d1, Days!FirstOf(of1, 1, batches, [k \in {} |-> Null])>>
  BY <1>14, <1>15
<1>17. QED BY <1>16 DEF d1, of1, firsts, FirstIn

(* The family's screens agree with each other and with the office's. *)
LEMMA FamilySees == ASSUME TimesKnown PROVE Days!FamilyAgrees
<1> SUFFICES ASSUME NEW mine \in SUBSET DOMAIN batches
    PROVE  LET home == Days!NextOnHome(mine)
               later == {x \in Days!Upcoming(mine) : x[1] > clock.day \/ batches[x[2]].start > clock.hour}
               first(S) == <<Days!Min({x[1] : x \in S}),
                 Days!FirstOf({x[2] : x \in {y \in S : y[1] = Days!Min({z[1] : z \in S})}}, 1, batches, [k \in {} |-> Null])>>
           IN /\ Days!Upcoming(mine) # {} => home = first(Days!Upcoming(mine))
              /\ later # {} => Days!NextOnTimetable(mine) = first(later)
              /\ home # Null => Days!CalendarDot(home[1], mine)
              /\ \A d \in Days!Day : \A b \in Days!PortalWeek(d, mine, FALSE) :
                   /\ Days!PortalRow(b, d).live => Days!ClassStatus(b, d, batches, saved, clock) \in {"live", "marked"}
                   /\ Days!PortalRow(b, d).past => Days!ClassStatus(b, d, batches, saved, clock) # "upcoming"
                   /\ b \in Days!ByDay(Days!WeekdayOf(d)) /\ b \in Days!ClassEntriesFor(d, batches, saved)
  BY DEF Days!FamilyAgrees
<1> DEFINE ahead == clock.day..(clock.day + Week - 1)
           ending == {b \in Days!Mine(clock.day, mine) : batches[b].end > clock.hour}
           starting == {b \in Days!Mine(clock.day, mine) : batches[b].start > clock.hour}
           up == Days!Upcoming(mine)
           later == {x \in up : x[1] > clock.day \/ batches[x[2]].start > clock.hour}
           home == Days!NextOnHome(mine)
<1>1. clock.day \in Int /\ clock.hour \in Int /\ Week \in Nat \ {0}
  BY ClassesGiven DEF TimesKnown
<1>2. \A b \in mine : batches[b].start \in Nat /\ batches[b].end \in Nat /\ batches[b].start < batches[b].end
  BY DEF TimesKnown, HoursKnown
<1>3. \A d : Days!Mine(d, mine) \subseteq mine
  BY DEF Days!Mine
<1>4. \A x : x \in up <=> x \in ahead \X mine /\ x[2] \in OnDay(x[1], mine, ending)
  <2>1. ASSUME NEW x \in ahead \X mine
        PROVE  (x[2] \in Days!Mine(x[1], mine) /\ (x[1] # clock.day \/ batches[x[2]].end > clock.hour))
                 <=> x[2] \in OnDay(x[1], mine, ending)
    BY DEF OnDay
  <2>2. QED BY <2>1 DEF Days!Upcoming
<1>5. \A x : x \in later <=> x \in ahead \X mine /\ x[2] \in OnDay(x[1], mine, starting)
  <2>1. ASSUME NEW x \in ahead \X mine
        PROVE  (x[2] \in OnDay(x[1], mine, ending) /\ (x[1] > clock.day \/ batches[x[2]].start > clock.hour))
                 <=> x[2] \in OnDay(x[1], mine, starting)
    <3>1. x[1] \in ahead /\ x[2] \in mine
      OBVIOUS
    <3>2. x[1] > clock.day <=> x[1] # clock.day
      BY <1>1, <3>1
    <3>3. batches[x[2]].start > clock.hour => batches[x[2]].end > clock.hour
      BY <1>1, <1>2, <3>1
    <3>4. QED BY <3>2, <3>3 DEF OnDay
  <2> HIDE DEF up, ahead, starting, ending
  <2>2. QED BY <1>4, <2>1
<1> HIDE DEF up, later
<1>6. up # {} => home = FirstIn(up)
  <2> SUFFICES ASSUME up # {} PROVE home = FirstIn(up)
    OBVIOUS
  <2>1. ending \subseteq Days!Mine(clock.day, mine) /\ home = Days!FirstAhead(mine, ending)
    BY DEF Days!NextOnHome
  <2>2. WeekAhead(up, mine, ending)
    BY <1>4 DEF WeekAhead
  <2> HIDE DEF ending, home
  <2>3. QED BY <2>1, <2>2, FirstWithinWeek
<1>7. later # {} => Days!NextOnTimetable(mine) = FirstIn(later)
  <2> SUFFICES ASSUME later # {} PROVE Days!NextOnTimetable(mine) = FirstIn(later)
    OBVIOUS
  <2>1. starting \subseteq Days!Mine(clock.day, mine) /\ Days!NextOnTimetable(mine) = Days!FirstAhead(mine, starting)
    BY DEF Days!NextOnTimetable
  <2>2. WeekAhead(later, mine, starting)
    BY <1>5 DEF WeekAhead
  <2> HIDE DEF starting
  <2>3. QED BY <2>1, <2>2, FirstWithinWeek
<1>8. home # Null => Days!CalendarDot(home[1], mine)
  <2> DEFINE days == {d \in clock.day..(clock.day + 2 * Week) : OnDay(d, mine, ending) # {}}
  <2>1. home = IF days = {} THEN Null
               ELSE <<Days!Min(days), Days!FirstOf(OnDay(Days!Min(days), mine, ending), Days!Min(days), batches, [k \in {} |-> Null])>>
    BY DEF Days!NextOnHome, Days!FirstAhead, OnDay
  <2>2. IsFiniteSet(days)
    <3>1. days \subseteq clock.day..(clock.day + 2 * Week) /\ clock.day + 2 * Week \in Int
      BY <1>1
    <3>2. QED BY <1>1, <3>1, FS_Interval, FS_Subset
  <2>3. \A d \in days : d \in Int /\ d >= clock.day /\ Days!Mine(d, mine) # {}
    BY <1>1 DEF OnDay
  <2> HIDE DEF days
  <2>4. days # {} => Days!Min(days) \in days
    BY <2>2, <2>3, LeastIs
  <2>5. home # Null => home[1] \in days
    BY <2>1, <2>4
  <2>6. QED BY <2>3, <2>5 DEF Days!CalendarDot
<1>9. ASSUME NEW d \in Days!Day, NEW b \in Days!PortalWeek(d, mine, FALSE)
      PROVE  /\ Days!PortalRow(b, d).live => Days!ClassStatus(b, d, batches, saved, clock) \in {"live", "marked"}
             /\ Days!PortalRow(b, d).past => Days!ClassStatus(b, d, batches, saved, clock) # "upcoming"
             /\ b \in Days!ByDay(Days!WeekdayOf(d)) /\ b \in Days!ClassEntriesFor(d, batches, saved)
  <2>1. b \in mine /\ b \in Days!ClassesOn(d, batches)
    BY DEF Days!PortalWeek, Days!Mine
  <2>2. batches[b].start \in Nat /\ batches[b].end \in Nat /\ batches[b].start < batches[b].end
    BY <1>2, <2>1
  <2>3. Days!PortalRow(b, d).live => Days!ClassStatus(b, d, batches, saved, clock) \in {"live", "marked"}
    <3>1. Days!PortalRow(b, d).live => d = clock.day /\ batches[b].start <= clock.hour /\ batches[b].end > clock.hour
      BY DEF Days!PortalRow
    <3>2. d = clock.day => ~(d > clock.day) /\ ~(d < clock.day)
      BY <1>1
    <3>3. batches[b].start <= clock.hour => ~(clock.hour < batches[b].start)
      BY <1>1, <2>2
    <3>4. batches[b].end > clock.hour => ~(clock.hour > batches[b].end)
      BY <1>1, <2>2
    <3>5. QED BY <3>1, <3>2, <3>3, <3>4 DEF Days!ClassStatus
  <2>4. Days!PortalRow(b, d).past => Days!ClassStatus(b, d, batches, saved, clock) # "upcoming"
    <3>1. Days!PortalRow(b, d).past => d = clock.day /\ batches[b].end <= clock.hour
      BY DEF Days!PortalRow
    <3>2. batches[b].end <= clock.hour => ~(clock.hour < batches[b].start)
      BY <1>1, <2>2
    <3>3. QED BY <3>1, <3>2 DEF Days!ClassStatus
  <2>5. QED BY <2>1, <2>3, <2>4 DEF Days!ByDay, Days!ClassesOn, Days!ClassEntriesFor
<1>10. QED BY <1>6, <1>7, <1>8, <1>9 DEF up, later, FirstIn

(* The workloads' sum is that of the theorems. *)
LEMMA DaysSum ==
  ASSUME NEW f, IsFiniteSet(DOMAIN f)
  PROVE  Days!Sum(f) = SumOf(f, DOMAIN f)
<1> DEFINE P == DOMAIN f
           Eqn(g) == g = [s \in SUBSET P |-> IF s = {} THEN 0 ELSE f[Pick(s)] + g[s \ {Pick(s)}]]
<1>1. Days!Sum(f) = Days!MapThenSumSet(LAMBDA x : f[x], P)
  BY DEF Days!Sum
<1>2. Days!MapThenSumSet(LAMBDA x : f[x], P) = (CHOOSE g : Eqn(g))[P]
  BY DEF Days!MapThenSumSet, Days!MapThenFoldSet, Pick
<1>3. ASSUME NEW g PROVE Eqn(g) <=> AddsUp(f, P, g)
  BY DEF AddsUp
<1> HIDE DEF Eqn
<1>4. \E g : AddsUp(f, P, g)
  BY AddsUpExists
<1>5. AddsUp(f, P, CHOOSE g : Eqn(g))
  BY <1>3, <1>4
<1>6. AddsUp(f, P, CHOOSE g : AddsUp(f, P, g))
  BY <1>4
<1>7. P \in SUBSET (P \cap P)
  OBVIOUS
<1>8. (CHOOSE g : Eqn(g))[P] = (CHOOSE g : AddsUp(f, P, g))[P]
  BY <1>5, <1>6, <1>7, AddsUpUnique
<1>9. QED BY <1>1, <1>2, <1>8 DEF SumOf

(* Finitely many members, in parts by a key. *)
ByKey(W, c, X, G) ==
  /\ IsFiniteSet(W) /\ IsFiniteSet(X) /\ \A x \in W : c[x] \in X
  /\ \A k \in X : \A x : x \in G[k] <=> x \in W /\ c[x] = k

(* What is summed by a key is summed together. *)
LEMMA ByKeySums ==
  ASSUME NEW W, NEW c, NEW X, NEW G, ByKey(W, c, X, G),
         NEW v, \A x \in W : v[x] \in Nat, NEW f, \A k \in X : f[k] = SumOf(v, G[k])
  PROVE  SumOf(f, X) = SumOf(v, W)
<1>1. \A k \in X : G[k] \in SUBSET W
  BY DEF ByKey
<1>2. IsFiniteSet(X) /\ \A k \in X : IsFiniteSet(G[k])
  BY <1>1, FS_Subset DEF ByKey
<1>3. \A j, k \in X : j # k => G[j] \cap G[k] = {}
  BY DEF ByKey
<1>4. UNION {G[k] : k \in X} = W
  BY <1>1 DEF ByKey
<1>5. \A k \in X : \A x \in G[k] : v[x] \in Nat
  BY <1>1
<1>6. SumOf(f, X) = SumOf(v, UNION {G[k] : k \in X})
  BY <1>2, <1>3, <1>5, SumParts
<1>7. QED BY <1>4, <1>6

(* And counted. *)
LEMMA ByKeyCounts ==
  ASSUME NEW W, NEW c, NEW X, NEW G, ByKey(W, c, X, G), NEW h, \A k \in X : h[k] = Cardinality(G[k])
  PROVE  SumOf(h, X) = Cardinality(W)
<1>1. \A k \in X : G[k] \in SUBSET W
  BY DEF ByKey
<1>2. IsFiniteSet(X) /\ \A k \in X : IsFiniteSet(G[k])
  BY <1>1, FS_Subset DEF ByKey
<1>3. \A j, k \in X : j # k => G[j] \cap G[k] = {}
  BY DEF ByKey
<1>4. UNION {G[k] : k \in X} = W
  BY <1>1 DEF ByKey
<1>5. SumOf(h, X) = Cardinality(UNION {G[k] : k \in X})
  BY <1>2, <1>3, PartsCount
<1>6. QED BY <1>4, <1>5

(* The teachers' hours and classes are the batches' and the registers'. *)
LEMMA WorkloadSum == ASSUME TimesKnown PROVE Days!WorkloadAddsUp
<1> DEFINE teachers == {batches[b].teacher : b \in DOMAIN batches} \cup {saved[k].teacher : k \in DOMAIN saved}
           active == {b \in DOMAIN batches : batches[b].status = "Active"}
           recent == {k \in DOMAIN saved : clock.day - Window < k[2]}
           by == [b \in active |-> batches[b].teacher]
           of == [k \in recent |-> saved[k].teacher]
           Taught == [f \in teachers |-> {b \in active : batches[b].teacher = f}]
           Had == [f \in teachers |-> {k \in recent : saved[k].teacher = f}]
           weekly == [b \in active |-> Days!WeeklyHours(b)]
           hours == [f \in teachers |-> Days!Workload(f).hours]
           held == [f \in teachers |-> Days!Workload(f).held]
<1>1. Len(batches) \in Nat /\ DOMAIN batches = 1..Len(batches)
  BY BookSpelt DEF TimesKnown, HoursKnown
<1>2. IsFiniteSet(DOMAIN batches) /\ IsFiniteSet(DOMAIN saved)
  BY <1>1, FS_Interval DEF TimesKnown
<1>3. IsFiniteSet(active) /\ IsFiniteSet(recent)
  BY <1>2, FS_Subset
<1>4. IsFiniteSet(teachers)
  <2> DEFINE first == [b \in DOMAIN batches |-> batches[b].teacher]
             second == [k \in DOMAIN saved |-> saved[k].teacher]
  <2>1. teachers = {first[b] : b \in DOMAIN batches} \cup {second[k] : k \in DOMAIN saved}
    OBVIOUS
  <2> HIDE DEF first, second, teachers
  <2>2. IsFiniteSet({first[b] : b \in DOMAIN batches}) /\ IsFiniteSet({second[k] : k \in DOMAIN saved})
    BY <1>2, HeadingsFinite
  <2>3. QED BY <2>1, <2>2, FS_Union
<1>5. \A k \in recent : k[2] <= clock.day
  BY DEF TimesKnown
<1>6. ASSUME NEW b \in active PROVE weekly[b] \in Nat
  <2>1. /\ batches[b].days \subseteq 0..(Week - 1) /\ batches[b].start \in Nat /\ batches[b].end \in Nat
        /\ batches[b].start < batches[b].end
    BY DEF TimesKnown, HoursKnown
  <2>2. IsFiniteSet(batches[b].days)
    <3>1. IsFiniteSet(0..(Week - 1))
      BY ClassesGiven, FS_Interval
    <3>2. QED BY <2>1, <3>1, FS_Subset
  <2>3. Days!Cardinality(batches[b].days) \in Nat
    BY <2>2, DaysCount, FS_CardinalityType
  <2>4. batches[b].end - batches[b].start \in Nat
    BY <2>1
  <2>5. weekly[b] = Days!Cardinality(batches[b].days) * (batches[b].end - batches[b].start)
    BY DEF Days!WeeklyHours
  <2>6. \A x, y \in Nat : x * y \in Nat
    OBVIOUS
  <2> HIDE DEF weekly
  <2>7. QED BY <2>3, <2>4, <2>5, <2>6
<1>7. /\ \A b \in active : by[b] \in teachers
      /\ \A k \in recent : of[k] \in teachers
      /\ \A f \in teachers : \A b : b \in Taught[f] <=> b \in active /\ by[b] = f
      /\ \A f \in teachers : \A k : k \in Had[f] <=> k \in recent /\ of[k] = f
  OBVIOUS
<1>8. \A f \in teachers : Taught[f] \subseteq active
  OBVIOUS
<1>9. ASSUME NEW f \in teachers
      PROVE  /\ hours[f] = Days!Sum([b \in Taught[f] |-> Days!WeeklyHours(b)])
             /\ held[f] = Cardinality(Had[f])
  <2>1. {b \in DOMAIN batches : batches[b].teacher = f /\ batches[b].status = "Active"} = Taught[f]
    OBVIOUS
  <2>2. {k \in DOMAIN saved : saved[k].teacher = f /\ clock.day - Window < k[2] /\ k[2] <= clock.day} = Had[f]
    BY <1>5
  <2>3. hours[f] = Days!Workload(f).hours /\ held[f] = Days!Workload(f).held
    OBVIOUS
  <2> HIDE DEF Taught, Had, hours, held
  <2>4. /\ Days!Workload(f).hours = Days!Sum([b \in Taught[f] |-> Days!WeeklyHours(b)])
        /\ Days!Workload(f).held = Days!Cardinality(Had[f])
    BY <2>1, <2>2 DEF Days!Workload
  <2>5. QED BY <2>3, <2>4, DaysCount
<1>10. \A b \in active : weekly[b] = Days!WeeklyHours(b)
  OBVIOUS
<1>11. DOMAIN weekly = active /\ DOMAIN hours = teachers /\ DOMAIN held = teachers
  OBVIOUS
<1>12. Days!WorkloadAddsUp <=> /\ Days!Sum(hours) = Days!Sum(weekly)
                               /\ Days!Sum(held) = Days!Cardinality(recent)
  BY DEF Days!WorkloadAddsUp
<1> HIDE DEF teachers, active, recent, by, of, Taught, Had, weekly, hours, held
<1>13. \A f \in teachers : IsFiniteSet(Taught[f])
  BY <1>3, <1>8, FS_Subset
<1>14. \A f \in teachers : hours[f] = SumOf(weekly, Taught[f])
  <2> SUFFICES ASSUME NEW f \in teachers PROVE hours[f] = SumOf(weekly, Taught[f])
    OBVIOUS
  <2> DEFINE S == Taught[f]
             own == [b \in S |-> Days!WeeklyHours(b)]
  <2>1. IsFiniteSet(S) /\ DOMAIN own = S /\ \A b \in S : own[b] = weekly[b]
    BY <1>8, <1>10, <1>13
  <2>2. hours[f] = Days!Sum(own)
    BY <1>9
  <2> HIDE DEF S, own
  <2>3. Days!Sum(own) = SumOf(own, S)
    BY <2>1, DaysSum
  <2>4. SumOf(own, S) = SumOf(weekly, S)
    BY <2>1, SumSame
  <2>5. QED BY <2>2, <2>3, <2>4 DEF S
<1>15. SumOf(hours, teachers) = SumOf(weekly, active)
  <2>1. ByKey(active, by, teachers, Taught)
    BY <1>3, <1>4, <1>7 DEF ByKey
  <2>2. QED BY <1>6, <1>14, <2>1, ByKeySums
<1>16. SumOf(held, teachers) = Cardinality(recent)
  <2>1. ByKey(recent, of, teachers, Had)
    BY <1>3, <1>4, <1>7 DEF ByKey
  <2>2. \A f \in teachers : held[f] = Cardinality(Had[f])
    BY <1>9
  <2>3. QED BY <2>1, <2>2, ByKeyCounts
<1>17. /\ Days!Sum(hours) = SumOf(hours, teachers) /\ Days!Sum(weekly) = SumOf(weekly, active)
       /\ Days!Sum(held) = SumOf(held, teachers)
  BY <1>3, <1>4, <1>11, DaysSum
<1>18. QED BY <1>12, <1>15, <1>16, <1>17, DaysCount

(* The times of batches, of registers and of the page in view. *)
BatchTimes(bs) ==
  \A b \in DOMAIN bs : /\ bs[b].start \in Nat /\ bs[b].end \in Nat /\ bs[b].start < bs[b].end
                       /\ bs[b].days \subseteq 0..(Week - 1)
TimesInv ==
  /\ BatchTimes(batches)
  /\ IsFiniteSet(DOMAIN saved)
  /\ \A k \in DOMAIN saved : k[2] \in Int /\ k[2] <= clock.day
  /\ clock.day \in Int /\ clock.hour \in Int
  /\ address # Null => address.date \in Int

(* Pinning a class leaves the date of the page. *)
LEMMA PinnedDate ==
  ASSUME NEW p, p # Null => Address(p) /\ p.date \in Int, NEW bs, NEW ss, NEW t
  PROVE  Days!Pinned(p, bs, ss, t) # Null => Days!Pinned(p, bs, ss, t).date \in Int
<1>1. CASE p = Null \/ Days!Selected(p, bs, ss, t) = Null
  BY <1>1 DEF Days!Pinned
<1>2. CASE p # Null /\ Days!Selected(p, bs, ss, t) # Null
  <2>1. Days!Pinned(p, bs, ss, t) = [p EXCEPT !.batch = Days!Selected(p, bs, ss, t)]
    BY <1>2 DEF Days!Pinned
  <2>2. [p EXCEPT !.batch = Days!Selected(p, bs, ss, t)].date = p.date
    BY <1>2 DEF Address
  <2>3. QED BY <1>2, <2>1, <2>2
<1>3. QED BY <1>1, <1>2

(* So does the page that follows the store. *)
LEMMA RenderedDate ==
  ASSUME DayInv, TimesInv, Days!Render
  PROVE  address' # Null => address'.date \in Int
<1>1. address # Null => Address(address) /\ address.date \in Int
  BY DEF DayInv, TimesInv
<1>2. PICK bs, ss, t : bs = batches' /\ ss = saved' /\ t = clock'
  OBVIOUS
<1>3. address' = Days!Pinned(address, bs, ss, t)
  BY <1>2 DEF Days!Render
<1>4. QED BY <1>1, <1>3, PinnedDate

(* Another status leaves the times. *)
LEMMA StatusTimes ==
  ASSUME DayInv, TimesInv, NEW x \in DOMAIN batches, NEW st \in Entered("status") \cup {"Active", "Archived"},
         batches' = [batches EXCEPT ![x].status = st]
  PROVE  BatchTimes(batches')
<1>1. Timetabled(batches)
  BY DEF DayInv
<1>2. /\ DOMAIN batches' = DOMAIN batches
      /\ \A c \in DOMAIN batches : c # x => batches'[c] = batches[c]
      /\ \A field \in {"start", "end", "days", "from", "teacher", "room", "campus"} :
           batches'[x][field] = batches[x][field]
  BY <1>1, StatusChange
<1>3. /\ batches'[x].start = batches[x].start /\ batches'[x].end = batches[x].end
      /\ batches'[x].days = batches[x].days
  BY <1>2
<1>4. QED BY <1>2, <1>3 DEF TimesInv, BatchTimes

(* What is shown names a day. *)
LEMMA ShownTimes ==
  ASSUME DayInv, TimesInv, NEW p, Address(p), p.date \in Int, Days!Show(p)
  PROVE  TimesInv'
<1>1. address' = Days!Pinned(p, batches, saved, clock) /\ UNCHANGED <<batches, saved, clock>>
  BY DEF Days!Show
<1>2. address' # Null => address'.date \in Int
  BY <1>1, PinnedDate
<1>3. QED BY <1>1, <1>2 DEF TimesInv, BatchTimes

(* There is no batch and no register at first. *)
LEMMA TimesInit == Days!Init => TimesInv
<1> SUFFICES ASSUME Days!Init PROVE TimesInv
  OBVIOUS
<1>1. batches = <<>> /\ DOMAIN saved = {} /\ clock.day = 1 /\ clock.hour = 0 /\ address = Null
  BY DEF Days!Init
<1>2. DOMAIN batches = {}
  BY <1>1
<1>3. QED BY <1>1, <1>2, FS_EmptySet DEF TimesInv, BatchTimes

(* Every step keeps the times. *)
LEMMA TimesStep ==
  ASSUME NullIsNoBatch, FormsAreBatches, DayInv, TimesInv, [Days!Next]_(Days!vars)
  PROVE  TimesInv'
<1>0. CASE UNCHANGED Days!vars
  BY <1>0 DEF Days!vars, TimesInv, BatchTimes
<1>a. /\ Timetabled(batches) /\ Len(batches) \in Nat /\ DOMAIN batches = 1..Len(batches)
      /\ address # Null => Address(address) /\ address.date \in Int
      /\ clock = [day |-> clock.day, hour |-> clock.hour] /\ clock.day \in Int /\ clock.hour \in Int
  BY BookSpelt DEF DayInv, TimesInv
<1>b. \A f \in Forms : f \in Slot /\ f.start \in Nat /\ f.end \in Nat /\ f.start < f.end /\ f.days \subseteq 0..(Week - 1)
  BY ClassesGiven DEF FormsAreBatches
<1>1. ASSUME NEW f \in Forms, Days!AddBatch(f) PROVE TimesInv'
  <2>1. batches' = Append(batches, f) /\ UNCHANGED <<saved, clock>> /\ Days!Render
    BY <1>1 DEF Days!AddBatch
  <2>2. DOMAIN batches' = 1..(Len(batches) + 1)
    BY <1>a, <1>b, <2>1 DEF Timetabled
  <2>3. batches'[Len(batches) + 1] = f /\ \A c \in DOMAIN batches : batches'[c] = batches[c]
    BY <1>a, <1>b, <2>1 DEF Timetabled
  <2>4. \A b \in DOMAIN batches' : b = Len(batches) + 1 \/ b \in DOMAIN batches
    BY <1>a, <2>2
  <2>5. BatchTimes(batches')
    BY <1>b, <2>3, <2>4 DEF TimesInv, BatchTimes
  <2>6. QED BY <2>1, <2>5, RenderedDate DEF TimesInv
<1>2. ASSUME NEW f \in Forms, NEW x \in DOMAIN batches, Days!UpdateBatch(x, f) PROVE TimesInv'
  <2>1. batches' = [batches EXCEPT ![x] = f] /\ UNCHANGED <<saved, clock, address>>
    BY <1>2 DEF Days!UpdateBatch
  <2>2. DOMAIN batches' = DOMAIN batches /\ batches'[x] = f /\ \A c \in DOMAIN batches : c # x => batches'[c] = batches[c]
    BY <1>a, <2>1
  <2>3. BatchTimes(batches')
    BY <1>b, <2>2 DEF TimesInv, BatchTimes
  <2>4. QED BY <2>1, <2>3 DEF TimesInv
<1>3. ASSUME NEW x \in DOMAIN batches, Days!ArchiveBatch(x) \/ Days!RestoreBatch(x) PROVE TimesInv'
  <2>1. UNCHANGED <<saved, clock, address>>
    BY <1>3 DEF Days!ArchiveBatch, Days!RestoreBatch
  <2>2. PICK st \in Entered("status") \cup {"Active", "Archived"} : batches' = [batches EXCEPT ![x].status = st]
    BY <1>3 DEF Days!ArchiveBatch, Days!RestoreBatch
  <2>3. BatchTimes(batches')
    BY <2>2, StatusTimes
  <2>4. QED BY <2>1, <2>3 DEF TimesInv
<1>4. ASSUME Days!Undo PROVE TimesInv'
  <2>1. /\ toast # Null /\ batches' = [batches EXCEPT ![toast.batch].status = toast.status]
        /\ UNCHANGED <<saved, clock>> /\ Days!Render
    BY <1>4 DEF Days!Undo
  <2>2. PICK x \in DOMAIN batches, st \in Entered("status") \cup {"Active", "Archived"} :
          x = toast.batch /\ st = toast.status
    BY <2>1 DEF DayInv
  <2>3. batches' = [batches EXCEPT ![x].status = st]
    BY <2>1, <2>2
  <2>4. BatchTimes(batches')
    BY <2>3, StatusTimes
  <2>5. QED BY <2>1, <2>4, RenderedDate DEF TimesInv
<1>5. ASSUME Days!ToastExpires \/ Days!Leave PROVE TimesInv'
  BY <1>5 DEF Days!ToastExpires, Days!Leave, TimesInv, BatchTimes
<1>6. ASSUME Days!Tick PROVE TimesInv'
  <2>1. UNCHANGED <<batches, saved>> /\ Days!Render
    BY <1>6 DEF Days!Tick
  <2>2. clock'.day \in Int /\ clock'.hour \in Int /\ clock.day <= clock'.day
    <3>1. \/ clock' = [clock EXCEPT !.hour = @ + 1]
          \/ clock' = [day |-> clock.day + 1, hour |-> 0]
      BY <1>6 DEF Days!Tick
    <3>2. CASE clock' = [clock EXCEPT !.hour = @ + 1]
      <4>1. clock'.day = clock.day /\ clock'.hour = clock.hour + 1
        BY <1>a, <3>2
      <4>2. QED BY <1>a, <4>1
    <3>3. CASE clock' = [day |-> clock.day + 1, hour |-> 0]
      BY <1>a, <3>3
    <3>4. QED BY <3>1, <3>2, <3>3
  <2>3. ASSUME NEW k \in DOMAIN saved PROVE k[2] \in Int /\ k[2] <= clock'.day
    <3>1. k[2] \in Int /\ k[2] <= clock.day
      BY DEF TimesInv
    <3>2. QED BY <1>a, <2>2, <3>1
  <2>4. QED BY <2>1, <2>2, <2>3, RenderedDate DEF TimesInv, BatchTimes
<1>7. ASSUME NEW k, address # Null, k[2] = Days!DateOf(address, clock), Days!SaveSession(k) PROVE TimesInv'
  <2>1. /\ UNCHANGED <<batches, clock>> /\ Days!Render /\ k[2] <= clock.day
        /\ DOMAIN saved' = DOMAIN saved \cup {k}
    BY <1>7 DEF Days!SaveSession
  <2>2. k[2] \in Int
    BY <1>a, <1>7 DEF Days!DateOf
  <2>3. IsFiniteSet(DOMAIN saved')
    <3>1. IsFiniteSet(DOMAIN saved)
      BY DEF TimesInv
    <3>2. QED BY <2>1, <3>1, FS_AddElement
  <2>4. QED BY <2>1, <2>2, <2>3, RenderedDate DEF TimesInv, BatchTimes
<1>8. ASSUME NEW p, Address(p), p.date \in Int, Days!Show(p) PROVE TimesInv'
  BY <1>8, ShownTimes
<1>9. ASSUME NEW viewer, NEW d \in Int, NEW b, Days!Open(viewer, d, b) PROVE TimesInv'
  <2> DEFINE p == [viewer |-> viewer, date |-> d, batch |-> b, all |-> FALSE]
  <2>1. Address(p) /\ p.date = d
    BY DEF Address
  <2>2. Days!Show(p)
    BY <1>9 DEF Days!Open
  <2> HIDE DEF p
  <2>3. QED BY <1>8, <2>1, <2>2
<1>10. ASSUME NEW d \in Int, Days!GoToDate(d) PROVE TimesInv'
  <2> DEFINE date == IF d = clock.day THEN 0 ELSE d
             b == IF address.batch # Null /\ address.batch \in Days!ClassEntriesFor(d, batches, saved)
                    THEN address.batch ELSE Null
             p == [address EXCEPT !.date = date, !.batch = b]
  <2>1. Address(address) /\ Days!Show(p)
    BY <1>10 DEF DayInv, Days!GoToDate, Address
  <2>2. date \in Int
    OBVIOUS
  <2> HIDE DEF date, b
  <2>3. Address(p) /\ p.date = date
    BY <2>1 DEF Address
  <2> HIDE DEF p
  <2>4. QED BY <1>8, <2>1, <2>2, <2>3
<1>11. ASSUME NEW b, Days!SelectBatch(b) PROVE TimesInv'
  <2> DEFINE p == [address EXCEPT !.batch = b]
  <2>1. address # Null /\ Days!Show(p)
    BY <1>11 DEF Days!SelectBatch
  <2>2. Address(p) /\ p.date = address.date
    BY <1>a, <2>1 DEF Address
  <2> HIDE DEF p
  <2>3. QED BY <1>8, <1>a, <2>1, <2>2
<1>12. ASSUME NEW all, Days!ShowAll(all) PROVE TimesInv'
  <2> DEFINE p == [address EXCEPT !.all = all, !.batch = Null]
  <2>1. address # Null /\ Days!Show(p)
    BY <1>12 DEF Days!ShowAll
  <2>2. Address(p) /\ p.date = address.date
    BY <1>a, <2>1 DEF Address
  <2> HIDE DEF p
  <2>3. QED BY <1>8, <1>a, <2>1, <2>2
<1>13. ASSUME Days!Next PROVE TimesInv'
  <2>1. ASSUME address # Null, Days!SaveSession(<<Days!Selected(address, batches, saved, clock), Days!DateOf(address, clock)>>)
        PROVE  TimesInv'
    <3> DEFINE k == <<Days!Selected(address, batches, saved, clock), Days!DateOf(address, clock)>>
    <3>1. k[2] = Days!DateOf(address, clock)
      OBVIOUS
    <3>2. Days!SaveSession(k)
      BY <2>1
    <3> HIDE DEF k
    <3>3. QED BY <1>7, <2>1, <3>1, <3>2
  <2>2. 0 \in Int /\ clock.day \in Int /\ \A d \in Days!Day : d \in Int
    BY <1>a DEF Days!Day
  <2>3. QED BY <1>1, <1>2, <1>3, <1>4, <1>5, <1>6, <1>9, <1>10, <1>11, <1>12, <1>13, <2>1, <2>2 DEF Days!Next
<1>14. QED BY <1>0, <1>13

(* The weekly grid hides no block and wastes no lane, the roster's card     *)
(* opens its class, the family's and the office's screens name the same     *)
(* next class, and the teachers' workloads add up: for every week, clock,   *)
(* form, number of batches and registers.                                   *)
THEOREM TimetableFiguresAgree ==
  ASSUME NullIsNoBatch, NullIsNoCard, FormsAreBatches
  PROVE  Days!Spec => []TimetableAgrees
<1>1. Days!Init => DayInv /\ TimesInv
  BY DayInit, TimesInit
<1>2. DayInv /\ TimesInv /\ [Days!Next]_(Days!vars) => (DayInv /\ TimesInv)'
  BY DayStep, TimesStep
<1>3. DayInv /\ TimesInv => TimetableAgrees
  <2> SUFFICES ASSUME DayInv, TimesInv PROVE TimetableAgrees
    OBVIOUS
  <2>1. HoursKnown
    BY DEF DayInv, TimesInv, BatchTimes, HoursKnown
  <2>2. TimesKnown
    BY <2>1 DEF DayInv, TimesInv, BatchTimes, TimesKnown
  <2>3. Days!BlocksApart /\ Days!CardOpensClass /\ Days!FamilyAgrees /\ Days!WorkloadAddsUp
    BY <2>1, <2>2, ColumnsApart, CardOpens, FamilySees, WorkloadSum
  <2>4. QED BY <2>3 DEF TimetableAgrees, Days!TimetableAgrees
<1>4. QED BY <1>1, <1>2, <1>3, PTL DEF Days!Spec
=============================================================================
