--------------------------- MODULE DatabaseProofs ---------------------------
(***************************************************************************)
(* Proofs about Database: whoever writes, and wherever a script or a        *)
(* request stops, institutes stay apart, and what was recorded of students  *)
(* and batches goes only with its institute.  The theorems are at the end.  *)
(***************************************************************************)
EXTENDS Database, SequenceTheorems, TLAPS

-----------------------------------------------------------------------------
(* Rows as the schema has them, each referring within its institute. *)
Refs(n, table, refs) ==
  /\ table \in DOMAIN Schema /\ DOMAIN refs = DOMAIN Schema[table]
  /\ \A c \in DOMAIN refs :
       refs[c] = Null \/ (TenantOf(refs[c]) = n /\ TableOf(refs[c]) = Schema[table][c])
Fits(id, refs) == Refs(TenantOf(id), TableOf(id), refs)
Whole(rows) == \A id \in DOMAIN rows : Fits(id, rows[id])

(* A series of k statements, each of whole rows. *)
Series(s, k) == (\E S : s \in Seq(S)) /\ Len(s) = k /\ \A i \in 1..k : Whole(s[i])

LEMMA SchemaFirst ==
  /\ {"tenants", "institute_settings", "campuses", "roles", "staff", "staff_subjects", "students",
      "student_batches", "subjects", "topics", "batches", "batch_topic_coverage",
      "attendance_sessions"} \subseteq DOMAIN Schema
  /\ \A t \in {"tenants", "institute_settings", "campuses", "roles", "subjects"} : DOMAIN Schema[t] = {}
  /\ Schema["staff"] = [roleId |-> "roles"]
  /\ Schema["staff_subjects"] = [staffId |-> "staff", subjectId |-> "subjects"]
  /\ Schema["students"] = [campusId |-> "campuses"]
  /\ Schema["student_batches"] = [studentId |-> "students", batchId |-> "batches"]
  /\ Schema["topics"] = [subjectId |-> "subjects"]
  /\ Schema["batches"] = [campusId |-> "campuses", subjectId |-> "subjects", facultyId |-> "staff"]
  /\ Schema["batch_topic_coverage"] = [batchId |-> "batches", topicId |-> "topics"]
  /\ Schema["attendance_sessions"] = [batchId |-> "batches", facultyId |-> "staff", markedById |-> "staff"]
  BY DEF Schema

LEMMA SchemaLast ==
  /\ {"attendance_session_topics", "attendance_records", "fee_invoices", "payments", "assessments",
      "assessment_topics", "assessment_scores", "portal_accounts", "portal_account_students",
      "refresh_tokens", "one_time_codes"} \subseteq DOMAIN Schema
  /\ DOMAIN Schema["portal_accounts"] = {}
  /\ Schema["attendance_session_topics"] = [sessionId |-> "attendance_sessions", topicId |-> "topics"]
  /\ Schema["attendance_records"] = [sessionId |-> "attendance_sessions", studentId |-> "students"]
  /\ Schema["fee_invoices"] = [studentId |-> "students", batchId |-> "batches"]
  /\ Schema["payments"] = [invoiceId |-> "fee_invoices", studentId |-> "students", collectedById |-> "staff"]
  /\ Schema["assessments"] = [batchId |-> "batches"]
  /\ Schema["assessment_topics"] = [assessmentId |-> "assessments", topicId |-> "topics"]
  /\ Schema["assessment_scores"] = [assessmentId |-> "assessments", studentId |-> "students"]
  /\ Schema["portal_account_students"] = [portalAccountId |-> "portal_accounts", studentId |-> "students"]
  /\ Schema["refresh_tokens"] = [staffId |-> "staff", portalAccountId |-> "portal_accounts"]
  /\ Schema["one_time_codes"] = [staffId |-> "staff", portalAccountId |-> "portal_accounts"]
  BY DEF Schema

LEMMA NoNullTable == "" \notin DOMAIN Schema /\ TableOf(Null) = ""
  BY DEF Schema, TableOf, Null

(* A row is whole when what it refers to is of its institute. *)
LEMMA RowWhole ==
  ASSUME NEW n, NEW table, NEW label, NEW refs, Refs(n, table, refs)
  PROVE  Whole(Row(n, table, label, refs))
  BY DEF Whole, Fits, Row, TenantOf, TableOf

LEMMA PlusWhole ==
  ASSUME NEW f, NEW g, Whole(f), Whole(g)
  PROVE  Whole(Plus(f, g))
  BY DEF Whole, Plus

LEMMA NestedWhole ==
  ASSUME NEW rows, NEW children, Whole(rows), \A r \in children : Whole(r)
  PROVE  Whole(Nested(rows, children))
<1> DEFINE owner(id) == CHOOSE r \in children : id \in DOMAIN r
           below == [id \in UNION {DOMAIN r : r \in children} |-> owner(id)[id]]
<1>1. ASSUME NEW id \in DOMAIN below
      PROVE  Fits(id, below[id])
  <2>1. owner(id) \in children /\ id \in DOMAIN owner(id)
    BY <1>1
  <2>2. below[id] = owner(id)[id]
    BY <1>1
  <2>3. QED BY <2>1, <2>2 DEF Whole
<1>2. Whole(below)
  BY <1>1 DEF Whole
<1>3. QED BY <1>2, PlusWhole DEF Nested

LEMMA NoRows == Whole(<<>>)
  BY DEF Whole

(* Series of statements, by their parts. *)
LEMMA Listed ==
  ASSUME NEW k \in Nat, NEW s, s = [i \in 1..k |-> s[i]], \A i \in 1..k : Whole(s[i])
  PROVE  Series(s, k)
<1> DEFINE S == {s[i] : i \in 1..k}
<1>1. s \in [1..k -> S]
  OBVIOUS
<1>2. s \in Seq(S)
  BY <1>1, SeqDef
<1>3. Len(s) = k
  BY <1>1, <1>2
<1>4. QED BY <1>2, <1>3 DEF Series

LEMMA OneStatement ==
  ASSUME NEW rows, Whole(rows)
  PROVE  Series(<<rows>>, 1)
<1>1. <<rows>> \in Seq({rows}) /\ Len(<<rows>>) = 1 /\ <<rows>>[1] = rows
  OBVIOUS
<1>2. \A i \in 1..1 : i = 1
  OBVIOUS
<1>3. QED BY <1>1, <1>2 DEF Series

LEMMA TwoStatements ==
  ASSUME NEW a, NEW b, Whole(a), Whole(b)
  PROVE  Series(<<a, b>>, 2)
<1> DEFINE s == <<a, b>>
<1>1. s = [i \in 1..2 |-> s[i]] /\ s[1] = a /\ s[2] = b
  OBVIOUS
<1>2. \A i \in 1..2 : i = 1 \/ i = 2
  OBVIOUS
<1>3. \A i \in 1..2 : Whole(s[i])
  BY <1>1, <1>2
<1> HIDE DEF s
<1>4. Series(s, 2)
  BY <1>1, <1>3, Listed
<1>5. QED BY <1>4 DEF s

LEMMA ThreeStatements ==
  ASSUME NEW a, NEW b, NEW c, Whole(a), Whole(b), Whole(c)
  PROVE  Series(<<a, b, c>>, 3)
<1> DEFINE s == <<a, b, c>>
<1>1. s = [i \in 1..3 |-> s[i]] /\ s[1] = a /\ s[2] = b /\ s[3] = c
  OBVIOUS
<1>2. \A i \in 1..3 : i = 1 \/ i = 2 \/ i = 3
  OBVIOUS
<1>3. \A i \in 1..3 : Whole(s[i])
  BY <1>1, <1>2
<1> HIDE DEF s
<1>4. Series(s, 3)
  BY <1>1, <1>3, Listed
<1>5. QED BY <1>4 DEF s

LEMMA Concatenated ==
  ASSUME NEW s, NEW t, NEW k \in Nat, NEW m \in Nat, Series(s, k), Series(t, m)
  PROVE  Series(s \o t, k + m)
<1>1. PICK S : s \in Seq(S)
  BY DEF Series
<1>2. PICK T : t \in Seq(T)
  BY DEF Series
<1>3. s \in Seq(S \cup T) /\ t \in Seq(S \cup T) /\ Len(s) = k /\ Len(t) = m
  BY <1>1, <1>2 DEF Series
<1>4. /\ s \o t \in Seq(S \cup T) /\ Len(s \o t) = k + m
      /\ \A i \in 1..(k + m) : (s \o t)[i] = IF i <= k THEN s[i] ELSE t[i - k]
  BY <1>3, ConcatProperties
<1>5. \A i \in 1..(k + m) : Whole((s \o t)[i])
  BY <1>4 DEF Series
<1>6. QED BY <1>4, <1>5 DEF Series

-----------------------------------------------------------------------------
(* A key of an institute's table, or none. *)
Of(id, n, table) == id = Null \/ (TenantOf(id) = n /\ TableOf(id) = table)

LEMMA Keys ==
  ASSUME NEW n
  PROVE  /\ \A t, l : Of(Named(n, t, l), n, t)
         /\ \A l : Of(Subject(n, l), n, "subjects")
         /\ \A s, l : Of(Topic(n, s, l), n, "topics")
         /\ \A l : Of(RoleRow(n, l), n, "roles")
         /\ \A l : Of(StaffRow(n, l), n, "staff")
         /\ \A l : Of(Batch(n, l), n, "batches")
         /\ \A l : Of(Student(n, l), n, "students")
         /\ \A l : Of(Campus(n, l), n, "campuses")
         /\ \A l : Of(Account(n, l), n, "portal_accounts")
<1>1. \A t, l : Of(Named(n, t, l), n, t)
  BY DEF Of, TenantOf, TableOf, Named
<1>2. \A s, l : Of(Topic(n, s, l), n, "topics")
  BY DEF Of, TenantOf, TableOf, Topic
<1>3. QED BY <1>1, <1>2 DEF Subject, RoleRow, StaffRow, Batch, Student, Campus, Account

LEMMA OnlyRow ==
  ASSUME NEW n, NEW table, NEW label, NEW refs
  PROVE  TenantOf(Only(Row(n, table, label, refs))) = n /\ TableOf(Only(Row(n, table, label, refs))) = table
<1> DEFINE id == <<n, table, label, [i \in DOMAIN Key(table) |-> refs[Key(table)[i]]]>>
<1>1. DOMAIN Row(n, table, label, refs) = {id}
  BY DEF Row
<1>2. Only(Row(n, table, label, refs)) = id
  BY <1>1 DEF Only
<1>3. QED BY <1>2 DEF TenantOf, TableOf

(* A row that refers to nothing. *)
LEMMA PlainWhole ==
  ASSUME NEW n, NEW label,
         NEW table \in {"tenants", "institute_settings", "campuses", "roles", "subjects", "portal_accounts"}
  PROVE  Whole(Row(n, table, label, <<>>))
<1>1. table \in DOMAIN Schema /\ DOMAIN Schema[table] = {}
  BY SchemaFirst, SchemaLast
<1>2. Refs(n, table, <<>>)
  BY <1>1 DEF Refs
<1>3. QED BY <1>2, RowWhole

LEMMA StaffWhole ==
  ASSUME NEW n, NEW label, NEW role, Of(role, n, "roles")
  PROVE  Whole(Row(n, "staff", label, [roleId |-> role]))
<1>1. Refs(n, "staff", [roleId |-> role])
  BY SchemaFirst DEF Refs, Of
<1>2. QED BY <1>1, RowWhole

LEMMA TeachesWhole ==
  ASSUME NEW n, NEW member, NEW subjects, Of(member, n, "staff"),
         \A s \in subjects : Of(s, n, "subjects"), NEW r \in Teaches(n, member, subjects)
  PROVE  Whole(r)
<1>1. PICK s \in subjects : r = Row(n, "staff_subjects", "", [staffId |-> member, subjectId |-> s])
  BY DEF Teaches
<1>2. Refs(n, "staff_subjects", [staffId |-> member, subjectId |-> s])
  BY SchemaFirst DEF Refs, Of
<1>3. QED BY <1>1, <1>2, RowWhole

LEMMA StudentWhole ==
  ASSUME NEW n, NEW label, NEW campus, Of(campus, n, "campuses")
  PROVE  Whole(Row(n, "students", label, [campusId |-> campus]))
<1>1. Refs(n, "students", [campusId |-> campus])
  BY SchemaFirst DEF Refs, Of
<1>2. QED BY <1>1, RowWhole

LEMMA JoinsWhole ==
  ASSUME NEW n, NEW student, NEW batches, Of(student, n, "students"),
         \A b \in batches : Of(b, n, "batches"), NEW r \in Joins(n, student, batches)
  PROVE  Whole(r)
<1>1. PICK b \in batches : r = Row(n, "student_batches", "", [studentId |-> student, batchId |-> b])
  BY DEF Joins
<1>2. Refs(n, "student_batches", [studentId |-> student, batchId |-> b])
  BY SchemaFirst DEF Refs, Of
<1>3. QED BY <1>1, <1>2, RowWhole

LEMMA TopicWhole ==
  ASSUME NEW n, NEW label, NEW subject, Of(subject, n, "subjects")
  PROVE  Whole(Row(n, "topics", label, [subjectId |-> subject]))
<1>1. Refs(n, "topics", [subjectId |-> subject])
  BY SchemaFirst DEF Refs, Of
<1>2. QED BY <1>1, RowWhole

LEMMA BatchWhole ==
  ASSUME NEW n, NEW label, NEW campus, NEW subject, NEW faculty,
         Of(campus, n, "campuses"), Of(subject, n, "subjects"), Of(faculty, n, "staff")
  PROVE  Whole(Row(n, "batches", label, [campusId |-> campus, subjectId |-> subject, facultyId |-> faculty]))
<1>1. Refs(n, "batches", [campusId |-> campus, subjectId |-> subject, facultyId |-> faculty])
  BY SchemaFirst DEF Refs, Of
<1>2. QED BY <1>1, RowWhole

LEMMA CoverageWhole ==
  ASSUME NEW n, NEW batch, NEW topic, Of(batch, n, "batches"), Of(topic, n, "topics")
  PROVE  Whole(Row(n, "batch_topic_coverage", "", [batchId |-> batch, topicId |-> topic]))
<1>1. Refs(n, "batch_topic_coverage", [batchId |-> batch, topicId |-> topic])
  BY SchemaFirst DEF Refs, Of
<1>2. QED BY <1>1, RowWhole

LEMMA SessionWhole ==
  ASSUME NEW n, NEW day, NEW batch, NEW by, Of(batch, n, "batches"), Of(by, n, "staff")
  PROVE  Whole(Row(n, "attendance_sessions", day, [batchId |-> batch, facultyId |-> by, markedById |-> by]))
<1>1. Refs(n, "attendance_sessions", [batchId |-> batch, facultyId |-> by, markedById |-> by])
  BY SchemaFirst DEF Refs, Of
<1>2. QED BY <1>1, RowWhole

LEMMA RecordWhole ==
  ASSUME NEW n, NEW session, NEW student, Of(session, n, "attendance_sessions"), Of(student, n, "students")
  PROVE  Whole(Row(n, "attendance_records", "", [sessionId |-> session, studentId |-> student]))
<1>1. Refs(n, "attendance_records", [sessionId |-> session, studentId |-> student])
  BY SchemaLast DEF Refs, Of
<1>2. QED BY <1>1, RowWhole

LEMMA CoveredWhole ==
  ASSUME NEW n, NEW session, NEW topic, Of(session, n, "attendance_sessions"), Of(topic, n, "topics")
  PROVE  Whole(Row(n, "attendance_session_topics", "", [sessionId |-> session, topicId |-> topic]))
<1>1. Refs(n, "attendance_session_topics", [sessionId |-> session, topicId |-> topic])
  BY SchemaLast DEF Refs, Of
<1>2. QED BY <1>1, RowWhole

LEMMA InvoiceWhole ==
  ASSUME NEW n, NEW no, NEW student, NEW batch, Of(student, n, "students"), Of(batch, n, "batches")
  PROVE  Whole(Invoice(n, no, student, batch))
<1>1. Refs(n, "fee_invoices", [studentId |-> student, batchId |-> batch])
  BY SchemaLast DEF Refs, Of
<1>2. QED BY <1>1, RowWhole DEF Invoice

LEMMA PaymentWhole ==
  ASSUME NEW n, NEW no, NEW invoice, NEW student, NEW by,
         Of(invoice, n, "fee_invoices"), Of(student, n, "students"), Of(by, n, "staff")
  PROVE  Whole(Payment(n, no, invoice, student, by))
<1>1. Refs(n, "payments", [invoiceId |-> invoice, studentId |-> student, collectedById |-> by])
  BY SchemaLast DEF Refs, Of
<1>2. QED BY <1>1, RowWhole DEF Payment

LEMMA TestWhole ==
  ASSUME NEW n, NEW label, NEW batch, Of(batch, n, "batches")
  PROVE  Whole(Row(n, "assessments", label, [batchId |-> batch]))
<1>1. Refs(n, "assessments", [batchId |-> batch])
  BY SchemaLast DEF Refs, Of
<1>2. QED BY <1>1, RowWhole

LEMMA TestTopicWhole ==
  ASSUME NEW n, NEW test, NEW topic, Of(test, n, "assessments"), Of(topic, n, "topics")
  PROVE  Whole(Row(n, "assessment_topics", "", [assessmentId |-> test, topicId |-> topic]))
<1>1. Refs(n, "assessment_topics", [assessmentId |-> test, topicId |-> topic])
  BY SchemaLast DEF Refs, Of
<1>2. QED BY <1>1, RowWhole

LEMMA ScoreWhole ==
  ASSUME NEW n, NEW test, NEW student, Of(test, n, "assessments"), Of(student, n, "students")
  PROVE  Whole(Row(n, "assessment_scores", "", [assessmentId |-> test, studentId |-> student]))
<1>1. Refs(n, "assessment_scores", [assessmentId |-> test, studentId |-> student])
  BY SchemaLast DEF Refs, Of
<1>2. QED BY <1>1, RowWhole

LEMMA ChildWhole ==
  ASSUME NEW n, NEW account, NEW student, Of(account, n, "portal_accounts"), Of(student, n, "students")
  PROVE  Whole(Row(n, "portal_account_students", "", [portalAccountId |-> account, studentId |-> student]))
<1>1. Refs(n, "portal_account_students", [portalAccountId |-> account, studentId |-> student])
  BY SchemaLast DEF Refs, Of
<1>2. QED BY <1>1, RowWhole

LEMMA CredentialWhole ==
  ASSUME NEW n, NEW label, NEW member, NEW account, NEW table \in {"refresh_tokens", "one_time_codes"},
         Of(member, n, "staff"), Of(account, n, "portal_accounts")
  PROVE  Whole(Row(n, table, label, [staffId |-> member, portalAccountId |-> account]))
<1>1. Refs(n, table, [staffId |-> member, portalAccountId |-> account])
  BY SchemaLast DEF Refs, Of
<1>2. QED BY <1>1, RowWhole

-----------------------------------------------------------------------------
(* The demo seed: each of its parts, and all of it. *)
LEMMA SeedTenantSeries ==
  ASSUME NEW n, NEW code
  PROVE  Series(SeedTenant(n, code), 1)
<1> DEFINE below == {Row(n, "institute_settings", "", <<>>),
                     Row(n, "campuses", "central", <<>>), Row(n, "campuses", "north", <<>>)}
<1>1. \A r \in below : Whole(r)
  BY PlainWhole
<1>2. Whole(Row(n, "tenants", code, <<>>))
  BY PlainWhole
<1>3. Whole(Nested(Row(n, "tenants", code, <<>>), below))
  BY <1>1, <1>2, NestedWhole
<1>4. QED BY <1>3, OneStatement DEF SeedTenant

LEMMA SeedSyllabusSeries ==
  ASSUME NEW n
  PROVE  Series(SeedSyllabus(n), 4)
<1> DEFINE topics == [i \in DOMAIN SYLLABUS |-> Row(n, "topics", SYLLABUS[i], [subjectId |-> Subject(n, SUBJECTS[1])])]
<1>1. DOMAIN SYLLABUS = 1..2
  BY DEF SYLLABUS
<1>2. \A i \in 1..2 : Whole(topics[i])
  BY <1>1, TopicWhole, Keys
<1>3. Series(topics, 2)
  BY <1>1, <1>2, Listed
<1>4. \A i : Series(<<Row(n, "subjects", SUBJECTS[i], <<>>)>>, 1)
  BY PlainWhole, OneStatement
<1>5. Series(<<Row(n, "subjects", SUBJECTS[1], <<>>)>> \o topics, 1 + 2)
  BY <1>3, <1>4, Concatenated
<1>6. Series((<<Row(n, "subjects", SUBJECTS[1], <<>>)>> \o topics) \o <<Row(n, "subjects", SUBJECTS[2], <<>>)>>, 3 + 1)
  BY <1>5, <1>4, Concatenated
<1>7. QED BY <1>6 DEF SeedSyllabus

LEMMA SeedRolesSeries ==
  ASSUME NEW n
  PROVE  Series(SeedRoles(n), 3)
<1> DEFINE custom == [i \in DOMAIN CUSTOM_ROLES |-> Row(n, "roles", CUSTOM_ROLES[i], <<>>)]
           system == <<Row(n, "roles", "admin", <<>>), Row(n, "roles", "faculty", <<>>)>>
<1>1. DOMAIN CUSTOM_ROLES = 1..1
  BY DEF CUSTOM_ROLES
<1>2. \A i \in 1..1 : Whole(custom[i])
  BY <1>1, PlainWhole
<1>3. Series(custom, 1)
  BY <1>1, <1>2, Listed
<1>4. Whole(Row(n, "roles", "admin", <<>>)) /\ Whole(Row(n, "roles", "faculty", <<>>))
  BY PlainWhole
<1>5. Series(system, 2)
  BY <1>4, TwoStatements
<1>6. Series(system \o custom, 2 + 1)
  BY <1>3, <1>5, Concatenated
<1>7. QED BY <1>6 DEF SeedRoles

LEMMA SeedStaffSeries ==
  ASSUME NEW n
  PROVE  Series(SeedStaff(n), 4)
<1>1. DOMAIN STAFF = 1..4
  BY DEF STAFF
<1>2. ASSUME NEW i \in 1..4
      PROVE  Whole(SeedStaff(n)[i])
  <2> DEFINE taught == {Subject(n, s) : s \in STAFF[i].subjects}
             row == Row(n, "staff", STAFF[i].key, [roleId |-> RoleRow(n, STAFF[i].role)])
  <2>1. Whole(row)
    BY StaffWhole, Keys
  <2>2. \A s \in taught : Of(s, n, "subjects")
    BY Keys
  <2>3. Of(StaffRow(n, STAFF[i].key), n, "staff")
    BY Keys
  <2>4. \A r \in Teaches(n, StaffRow(n, STAFF[i].key), taught) : Whole(r)
    BY <2>2, <2>3, TeachesWhole
  <2>5. Whole(Nested(row, Teaches(n, StaffRow(n, STAFF[i].key), taught)))
    BY <2>1, <2>4, NestedWhole
  <2>6. QED BY <1>1, <2>5 DEF SeedStaff
<1>3. SeedStaff(n) = [i \in 1..4 |-> SeedStaff(n)[i]]
  BY <1>1 DEF SeedStaff
<1>4. QED BY <1>2, <1>3, Listed

LEMMA SeedBatchesSeries ==
  ASSUME NEW n
  PROVE  Series(SeedBatches(n), 2)
<1>1. DOMAIN BATCHES = 1..2
  BY DEF BATCHES
<1>2. ASSUME NEW i \in 1..2
      PROVE  Whole(SeedBatches(n)[i])
  <2>1. /\ Of(Campus(n, "central"), n, "campuses") /\ Of(Subject(n, BATCHES[i].subject), n, "subjects")
        /\ Of(StaffRow(n, BATCHES[i].faculty), n, "staff")
    BY Keys
  <2>2. QED BY <1>1, <2>1, BatchWhole DEF SeedBatches
<1>3. SeedBatches(n) = [i \in 1..2 |-> SeedBatches(n)[i]]
  BY <1>1 DEF SeedBatches
<1>4. QED BY <1>2, <1>3, Listed

LEMMA SeedStudentsSeries ==
  ASSUME NEW n
  PROVE  Series(SeedStudents(n), 2)
<1>1. DOMAIN STUDENTS = 1..2
  BY DEF STUDENTS
<1>2. ASSUME NEW i \in 1..2
      PROVE  Whole(SeedStudents(n)[i])
  <2> DEFINE row == Row(n, "students", STUDENTS[i].code, [campusId |-> Campus(n, STUDENTS[i].campus)])
  <2>1. Whole(row)
    BY StudentWhole, Keys
  <2>2. \A b \in {Batch(n, b) : b \in STUDENTS[i].batches} : Of(b, n, "batches")
    BY Keys
  <2>3. Of(Student(n, STUDENTS[i].code), n, "students")
    BY Keys
  <2>4. \A r \in Joins(n, Student(n, STUDENTS[i].code), {Batch(n, b) : b \in STUDENTS[i].batches}) : Whole(r)
    BY <2>2, <2>3, JoinsWhole
  <2>5. Whole(Nested(row, Joins(n, Student(n, STUDENTS[i].code), {Batch(n, b) : b \in STUDENTS[i].batches})))
    BY <2>1, <2>4, NestedWhole
  <2>6. QED BY <1>1, <2>5 DEF SeedStudents
<1>3. SeedStudents(n) = [i \in 1..2 |-> SeedStudents(n)[i]]
  BY <1>1 DEF SeedStudents
<1>4. QED BY <1>2, <1>3, Listed

LEMMA SeedCoverageSeries ==
  ASSUME NEW n
  PROVE  Series(SeedCoverage(n), 2)
<1>1. DOMAIN SYLLABUS = 1..2
  BY DEF SYLLABUS
<1>2. ASSUME NEW i \in 1..2
      PROVE  Whole(SeedCoverage(n)[i])
  <2>1. Of(Batch(n, "m2"), n, "batches") /\ Of(Topic(n, "mat", SYLLABUS[i]), n, "topics")
    BY Keys
  <2>2. QED BY <1>1, <2>1, CoverageWhole DEF SeedCoverage
<1>3. SeedCoverage(n) = [i \in 1..2 |-> SeedCoverage(n)[i]]
  BY <1>1 DEF SeedCoverage
<1>4. QED BY <1>2, <1>3, Listed

LEMMA SeedSessionSeries ==
  ASSUME NEW n
  PROVE  Series(SeedSession(n), 1)
<1> DEFINE batch == Batch(n, "m2")  by == StaffRow(n, "st-02")
           topics == {Topic(n, "mat", "1")}  present == {Student(n, "1042"), Student(n, "1055")}
           refs == [batchId |-> batch, facultyId |-> by, markedById |-> by]
           session == Row(n, "attendance_sessions", "yesterday", refs)
           covered == {Row(n, "attendance_session_topics", "", [sessionId |-> Only(session), topicId |-> t]) : t \in topics}
           marked == {Row(n, "attendance_records", "", [sessionId |-> Only(session), studentId |-> s]) : s \in present}
<1>1. Of(batch, n, "batches") /\ Of(by, n, "staff")
  BY Keys
<1>2. Whole(session)
  BY <1>1, SessionWhole
<1>3. Of(Only(session), n, "attendance_sessions")
  BY OnlyRow DEF Of
<1>4. (\A t \in topics : Of(t, n, "topics")) /\ (\A s \in present : Of(s, n, "students"))
  BY Keys
<1>5. \A r \in covered : Whole(r)
  BY <1>3, <1>4, CoveredWhole
<1>6. \A r \in marked : Whole(r)
  BY <1>3, <1>4, RecordWhole
<1>7. Whole(Nested(session, covered \cup marked))
  BY <1>2, <1>5, <1>6, NestedWhole
<1>8. Register(n, batch, "yesterday", by, topics, present) = Nested(session, covered \cup marked)
  BY DEF Register
<1>9. QED BY <1>7, <1>8, OneStatement DEF SeedSession

LEMMA SeedAssessmentSeries ==
  ASSUME NEW n
  PROVE  Series(SeedAssessment(n), 1)
<1> DEFINE test == Row(n, "assessments", "m2", [batchId |-> Batch(n, "m2")])
           topics == {Row(n, "assessment_topics", "", [assessmentId |-> Only(test), topicId |-> Topic(n, "mat", "1")])}
           scores == {Row(n, "assessment_scores", "", [assessmentId |-> Only(test), studentId |-> Student(n, s)]) :
                        s \in {"1042", "1055"}}
<1>1. /\ Of(Batch(n, "m2"), n, "batches") /\ Of(Topic(n, "mat", "1"), n, "topics")
      /\ \A s : Of(Student(n, s), n, "students")
  BY Keys
<1>2. Whole(test)
  BY <1>1, TestWhole
<1>3. Of(Only(test), n, "assessments")
  BY OnlyRow DEF Of
<1>4. \A r \in topics : Whole(r)
  BY <1>1, <1>3, TestTopicWhole
<1>5. \A r \in scores : Whole(r)
  BY <1>1, <1>3, ScoreWhole
<1>6. Whole(Nested(test, topics \cup scores))
  BY <1>2, <1>4, <1>5, NestedWhole
<1>7. QED BY <1>6, OneStatement DEF SeedAssessment

LEMMA SeedFeesSeries ==
  ASSUME NEW n
  PROVE  Series(SeedFees(n), 3)
<1>1. /\ \A s : Of(Student(n, s), n, "students")
      /\ Of(Batch(n, "m2"), n, "batches") /\ Of(StaffRow(n, "st-08"), n, "staff")
      /\ Of(Named(n, "fee_invoices", "INV-1"), n, "fee_invoices")
  BY Keys
<1>2. \A no, s : Whole(Invoice(n, no, Student(n, s), Batch(n, "m2")))
  BY <1>1, InvoiceWhole
<1>3. Whole(Payment(n, "RCPT-1", Named(n, "fee_invoices", "INV-1"), Student(n, "1042"), StaffRow(n, "st-08")))
  BY <1>1, PaymentWhole
<1>4. QED BY <1>2, <1>3, ThreeStatements DEF SeedFees

LEMMA SeedPortalSeries ==
  ASSUME NEW n
  PROVE  Series(SeedPortal(n), 2)
<1>1. ASSUME NEW login, NEW children, \A s \in children : Of(s, n, "students")
      PROVE  Whole(PortalAccountOf(n, login, children))
  <2>1. Whole(Row(n, "portal_accounts", login, <<>>))
    BY PlainWhole
  <2>2. Of(Account(n, login), n, "portal_accounts")
    BY Keys
  <2>3. \A s \in children :
          Whole(Row(n, "portal_account_students", "", [portalAccountId |-> Account(n, login), studentId |-> s]))
    BY <1>1, <2>2, ChildWhole
  <2>4. QED BY <2>1, <2>3, NestedWhole DEF PortalAccountOf
<1>2. \A s : Of(Student(n, s), n, "students")
  BY Keys
<1>3. /\ Whole(PortalAccountOf(n, "1042", {Student(n, "1042")}))
      /\ Whole(PortalAccountOf(n, "phone", {Student(n, "1042"), Student(n, "1055")}))
  BY <1>1, <1>2
<1>4. QED BY <1>3, TwoStatements DEF SeedPortal

LEMMA InvitationSeries ==
  ASSUME NEW n
  PROVE  Series(createInvitation(n), 2)
<1>1. Of(Account(n, "1042"), n, "portal_accounts") /\ Of(StaffRow(n, "st-10"), n, "staff")
  BY Keys
<1>2. Of(Null, n, "staff") /\ Of(Null, n, "portal_accounts")
  BY DEF Of
<1>3. /\ Whole(Code(n, "seed-1", Null, Account(n, "1042")))
      /\ Whole(Code(n, "seed-2", StaffRow(n, "st-10"), Null))
  BY <1>1, <1>2, CredentialWhole DEF Code
<1>4. QED BY <1>3, TwoStatements DEF createInvitation

LEMMA SeedSeries ==
  ASSUME NEW n
  PROVE  Series(Seed(n), 27)
<1>1. Series(SeedTenant(n, "APEX") \o SeedSyllabus(n), 5)
  BY SeedTenantSeries, SeedSyllabusSeries, Concatenated
<1>2. Series(SeedTenant(n, "APEX") \o SeedSyllabus(n) \o SeedRoles(n), 8)
  BY <1>1, SeedRolesSeries, Concatenated
<1>3. Series(SeedTenant(n, "APEX") \o SeedSyllabus(n) \o SeedRoles(n) \o SeedStaff(n), 12)
  BY <1>2, SeedStaffSeries, Concatenated
<1> DEFINE staffed == SeedTenant(n, "APEX") \o SeedSyllabus(n) \o SeedRoles(n) \o SeedStaff(n)
<1>4. Series(staffed \o SeedBatches(n), 14)
  BY <1>3, SeedBatchesSeries, Concatenated
<1>5. Series(staffed \o SeedBatches(n) \o SeedStudents(n), 16)
  BY <1>4, SeedStudentsSeries, Concatenated
<1>6. Series(staffed \o SeedBatches(n) \o SeedStudents(n) \o SeedCoverage(n), 18)
  BY <1>5, SeedCoverageSeries, Concatenated
<1> DEFINE taught == staffed \o SeedBatches(n) \o SeedStudents(n) \o SeedCoverage(n)
<1>7. Series(taught \o SeedSession(n), 19)
  BY <1>6, SeedSessionSeries, Concatenated
<1>8. Series(taught \o SeedSession(n) \o SeedAssessment(n), 20)
  BY <1>7, SeedAssessmentSeries, Concatenated
<1>9. Series(taught \o SeedSession(n) \o SeedAssessment(n) \o SeedFees(n), 23)
  BY <1>8, SeedFeesSeries, Concatenated
<1> DEFINE paid == taught \o SeedSession(n) \o SeedAssessment(n) \o SeedFees(n)
<1>10. Series(paid \o SeedPortal(n), 25)
  BY <1>9, SeedPortalSeries, Concatenated
<1>11. Series(paid \o SeedPortal(n) \o createInvitation(n), 27)
  BY <1>10, InvitationSeries, Concatenated
<1>12. QED BY <1>11 DEF Seed

LEMMA BootstrapSeries ==
  ASSUME NEW n, NEW code
  PROVE  Series(Bootstrap(n, code), 6)
<1> DEFINE s == Bootstrap(n, code)
<1>1. /\ s = [i \in 1..6 |-> s[i]]
      /\ s[1] = Plus(Row(n, "tenants", code, <<>>), Row(n, "institute_settings", "", <<>>))
      /\ s[2] = Row(n, "campuses", "main", <<>>) /\ s[3] = Row(n, "roles", "admin", <<>>)
      /\ s[4] = Row(n, "roles", "faculty", <<>>)
      /\ s[5] = Row(n, "staff", "owner", [roleId |-> RoleRow(n, "admin")])
      /\ s[6] = Code(n, "owner", StaffRow(n, "owner"), Null)
  BY DEF Bootstrap
<1> HIDE DEF s
<1>2. Whole(s[1])
  BY <1>1, PlainWhole, PlusWhole
<1>3. Whole(s[2]) /\ Whole(s[3]) /\ Whole(s[4])
  BY <1>1, PlainWhole
<1>4. Whole(s[5])
  <2>1. Of(RoleRow(n, "admin"), n, "roles")
    BY Keys
  <2>2. \A label : Whole(Row(n, "staff", label, [roleId |-> RoleRow(n, "admin")]))
    BY <2>1, StaffWhole
  <2>3. QED BY <1>1, <2>2
<1>5. Of(Null, n, "portal_accounts") /\ Of(StaffRow(n, "owner"), n, "staff")
  BY Keys DEF Of
<1>6. Whole(s[6])
  <2>1. \A label : Whole(Code(n, label, StaffRow(n, "owner"), Null))
    BY <1>5, CredentialWhole DEF Code
  <2>2. QED BY <1>1, <2>1
<1>7. \A i \in 1..6 : i = 1 \/ i = 2 \/ i = 3 \/ i = 4 \/ i = 5 \/ i = 6
  OBVIOUS
<1>8. \A i \in 1..6 : Whole(s[i])
  BY <1>2, <1>3, <1>4, <1>6, <1>7
<1>9. Series(s, 6)
  BY <1>1, <1>8, Listed
<1>10. QED BY <1>9 DEF s

-----------------------------------------------------------------------------
(* What holds of the rows on file, in every state: each is whole, refers to *)
(* rows on file, has its institute, was never deleted before; and nobody is *)
(* enrolled in no batch.                                                    *)
Present == \A id \in DOMAIN db : \A c \in DOMAIN db[id] : db[id][c] = Null \/ db[id][c] \in DOMAIN db
Tenanted == \A id \in DOMAIN db : \E t \in Tenants : TenantOf(t) = TenantOf(id)
Joined == \A id \in DOMAIN db : TableOf(id) = "student_batches" => db[id].batchId # Null
DbSound == Whole(db) /\ Present /\ Tenanted /\ Joined /\ DOMAIN db \cap gone = {}

LEMMA NullAbsent ==
  ASSUME Whole(db)
  PROVE  Null \notin DOMAIN db
  BY NoNullTable DEF Whole, Fits, Refs

LEMMA InOf ==
  ASSUME NEW n, NEW table, NEW id \in In(n, table)
  PROVE  id \in DOMAIN db /\ TenantOf(id) = n /\ TableOf(id) = table /\ Of(id, n, table)
  BY DEF In, RowsOf, Of

LEMMA RefOf ==
  ASSUME Whole(db), NEW id \in DOMAIN db, NEW c \in DOMAIN Schema[TableOf(id)]
  PROVE  c \in DOMAIN db[id] /\ Of(db[id][c], TenantOf(id), Schema[TableOf(id)][c])
  BY DEF Whole, Fits, Refs, Of

LEMMA EnrolledOf ==
  ASSUME DbSound, NEW n, NEW batch, Of(batch, n, "batches"), NEW s \in Enrolled(batch)
  PROVE  Of(s, n, "students")
<1>1. PICK e \in DOMAIN db : TableOf(e) = "student_batches" /\ db[e].batchId = batch /\ s = db[e].studentId
  BY DEF Enrolled
<1>2. batch # Null
  BY <1>1 DEF DbSound, Joined
<1>3. Of(db[e].batchId, TenantOf(e), "batches") /\ Of(db[e].studentId, TenantOf(e), "students")
  BY <1>1, RefOf, SchemaFirst DEF DbSound
<1>4. QED BY <1>1, <1>2, <1>3 DEF Of

LEMMA ReferenceSeries ==
  ASSUME NEW n
  PROVE  Series(LoadReference(n), 5)
<1> DEFINE topics == {Row(n, "topics", label, [subjectId |-> Subject(n, "S1")]) : label \in {"1", "2"}}
           batches == [id \in {Batch(n, "B1"), Batch(n, "B2")} |->
                         [campusId |-> Campus(n, IF id[3] = "B1" THEN "main" ELSE "2"),
                          subjectId |-> Subject(n, "S1"), facultyId |-> StaffRow(n, "faculty1")]]
           s == LoadReference(n)
<1>1. /\ s = [i \in 1..5 |-> s[i]]
      /\ s[1] = Row(n, "campuses", "2", <<>>) /\ s[2] = Row(n, "subjects", "S1", <<>>)
      /\ s[3] = Nested(<<>>, topics)
      /\ s[4] = Row(n, "staff", "faculty1", [roleId |-> RoleRow(n, "faculty")])
      /\ s[5] = batches
  BY DEF LoadReference
<1>2. Whole(Nested(<<>>, topics))
  <2>1. \A r \in topics : Whole(r)
    BY TopicWhole, Keys
  <2>2. QED BY <2>1, NoRows, NestedWhole
<1>3. Whole(batches)
  <2> SUFFICES ASSUME NEW id \in DOMAIN batches
               PROVE  Fits(id, batches[id])
    BY DEF Whole
  <2>1. TenantOf(id) = n /\ TableOf(id) = "batches"
    BY DEF Batch, Named, TenantOf, TableOf
  <2>2. PICK campus : Of(campus, n, "campuses") /\ batches[id] =
          [campusId |-> campus, subjectId |-> Subject(n, "S1"), facultyId |-> StaffRow(n, "faculty1")]
    BY Keys
  <2>3. Of(Subject(n, "S1"), n, "subjects") /\ Of(StaffRow(n, "faculty1"), n, "staff")
    BY Keys
  <2>4. Refs(n, "batches", batches[id])
    BY <2>2, <2>3, SchemaFirst DEF Refs, Of
  <2>5. QED BY <2>1, <2>4 DEF Fits
<1> HIDE DEF s
<1>4. Whole(s[1]) /\ Whole(s[2])
  BY <1>1, PlainWhole
<1>5. Whole(s[4])
  BY <1>1, StaffWhole, Keys
<1>6. \A i \in 1..5 : i = 1 \/ i = 2 \/ i = 3 \/ i = 4 \/ i = 5
  OBVIOUS
<1>7. \A i \in 1..5 : Whole(s[i])
  BY <1>1, <1>2, <1>3, <1>4, <1>5, <1>6
<1>8. Series(s, 5)
  BY <1>1, <1>7, Listed
<1>9. QED BY <1>8 DEF s

LEMMA LoadStudentsSeries ==
  ASSUME DbSound, NEW n
  PROVE  Series(LoadStudents(n), 2)
<1> DEFINE students == [id \in {Student(n, "1"), Student(n, "2")} |->
                          [campusId |-> Campus(n, IF id[3] = "1" THEN "2" ELSE "main")]]
           joins == UNION {Joins(n, s, In(n, "batches")) : s \in In(n, "students")}
<1>1. Whole(students)
  <2> SUFFICES ASSUME NEW id \in DOMAIN students
               PROVE  Fits(id, students[id])
    BY DEF Whole
  <2>1. TenantOf(id) = n /\ TableOf(id) = "students"
    BY DEF Student, Named, TenantOf, TableOf
  <2>2. PICK campus : Of(campus, n, "campuses") /\ students[id] = [campusId |-> campus]
    BY Keys
  <2>3. Refs(n, "students", students[id])
    BY <2>2, SchemaFirst DEF Refs, Of
  <2>4. QED BY <2>1, <2>3 DEF Fits
<1>2. \A r \in joins : Whole(r)
  BY InOf, JoinsWhole
<1>3. Whole(Nested(<<>>, joins))
  BY <1>2, NoRows, NestedWhole
<1>4. QED BY <1>1, <1>3, TwoStatements DEF LoadStudents

LEMMA LoadRegistersSeries ==
  ASSUME DbSound, NEW n
  PROVE  Series(LoadRegisters(n), 2)
<1> DEFINE days == {Row(n, "attendance_sessions", "day",
                        [batchId |-> b, facultyId |-> db[b].facultyId, markedById |-> db[b].facultyId]) :
                      b \in In(n, "batches")}
           marks == UNION {{Row(n, "attendance_records", "", [sessionId |-> x, studentId |-> s]) :
                              s \in Enrolled(db[x].batchId)} : x \in In(n, "attendance_sessions")}
<1>1. ASSUME NEW b \in In(n, "batches")
      PROVE  Of(b, n, "batches") /\ Of(db[b].facultyId, n, "staff")
  BY InOf, RefOf, SchemaFirst DEF DbSound
<1>2. \A r \in days : Whole(r)
  BY <1>1, SessionWhole
<1>3. ASSUME NEW x \in In(n, "attendance_sessions"), NEW s \in Enrolled(db[x].batchId)
      PROVE  Of(x, n, "attendance_sessions") /\ Of(s, n, "students")
  <2>1. Of(x, n, "attendance_sessions") /\ Of(db[x].batchId, n, "batches")
    BY InOf, RefOf, SchemaFirst DEF DbSound
  <2>2. QED BY <2>1, EnrolledOf
<1>4. \A r \in marks : Whole(r)
  BY <1>3, RecordWhole
<1>5. Whole(Nested(<<>>, days)) /\ Whole(Nested(<<>>, marks))
  BY <1>2, <1>4, NoRows, NestedWhole
<1>6. QED BY <1>5, TwoStatements DEF LoadRegisters

LEMMA LoadFeesSeries ==
  ASSUME DbSound, NEW n
  PROVE  Series(LoadFees(n), 2)
<1> DEFINE enrolled == UNION {Enrolled(b) : b \in In(n, "batches")}
           batchOf(s) == CHOOSE b \in In(n, "batches") : s \in Enrolled(b)
           invoices == {Invoice(n, s[3], s, batchOf(s)) : s \in enrolled}
           payments == {Payment(n, i[3], i, db[i].studentId, CollectedBy(n)) : i \in In(n, "fee_invoices")}
<1>1. ASSUME NEW s \in enrolled
      PROVE  Whole(Invoice(n, s[3], s, batchOf(s)))
  <2>1. batchOf(s) \in In(n, "batches") /\ s \in Enrolled(batchOf(s))
    BY <1>1
  <2>2. Of(batchOf(s), n, "batches")
    BY <2>1, InOf
  <2>3. Of(s, n, "students")
    BY <2>1, <2>2, EnrolledOf
  <2>4. QED BY <2>2, <2>3, InvoiceWhole
<1>2. Of(CollectedBy(n), n, "staff")
  BY InOf DEF CollectedBy, Of
<1>3. ASSUME NEW i \in In(n, "fee_invoices")
      PROVE  Whole(Payment(n, i[3], i, db[i].studentId, CollectedBy(n)))
  <2>1. Of(i, n, "fee_invoices") /\ Of(db[i].studentId, n, "students")
    BY InOf, RefOf, SchemaLast DEF DbSound
  <2>2. QED BY <1>2, <2>1, PaymentWhole
<1>4. Whole(Nested(<<>>, invoices)) /\ Whole(Nested(<<>>, payments))
  BY <1>1, <1>3, NoRows, NestedWhole
<1>5. QED BY <1>4, TwoStatements DEF LoadFees

LEMMA LoadAssessmentsSeries ==
  ASSUME DbSound, NEW n
  PROVE  Series(LoadAssessments(n), 2)
<1> DEFINE tests == {Row(n, "assessments", b[3], [batchId |-> b]) : b \in In(n, "batches")}
           scores == UNION {{Row(n, "assessment_scores", "", [assessmentId |-> a, studentId |-> s]) :
                               s \in Enrolled(db[a].batchId)} : a \in In(n, "assessments")}
<1>1. \A r \in tests : Whole(r)
  BY InOf, TestWhole
<1>2. ASSUME NEW a \in In(n, "assessments"), NEW s \in Enrolled(db[a].batchId)
      PROVE  Of(a, n, "assessments") /\ Of(s, n, "students")
  <2>1. Of(a, n, "assessments") /\ Of(db[a].batchId, n, "batches")
    BY InOf, RefOf, SchemaLast DEF DbSound
  <2>2. QED BY <2>1, EnrolledOf
<1>3. \A r \in scores : Whole(r)
  BY <1>2, ScoreWhole
<1>4. Whole(Nested(<<>>, tests)) /\ Whole(Nested(<<>>, scores))
  BY <1>1, <1>3, NoRows, NestedWhole
<1>5. QED BY <1>4, TwoStatements DEF LoadAssessments

LEMMA LoadSeries ==
  ASSUME DbSound, NEW n
  PROVE  Series(Load(n), 13)
<1>1. Series(LoadReference(n) \o LoadStudents(n), 7)
  BY ReferenceSeries, LoadStudentsSeries, Concatenated
<1>2. Series(LoadReference(n) \o LoadStudents(n) \o LoadRegisters(n), 9)
  BY <1>1, LoadRegistersSeries, Concatenated
<1> DEFINE begun == LoadReference(n) \o LoadStudents(n) \o LoadRegisters(n)
<1>3. Series(begun \o LoadFees(n), 11)
  BY <1>2, LoadFeesSeries, Concatenated
<1>4. Series(begun \o LoadFees(n) \o LoadAssessments(n), 13)
  BY <1>3, LoadAssessmentsSeries, Concatenated
<1>5. QED BY <1>4 DEF Load

-----------------------------------------------------------------------------
(* Inserting and deleting rows. *)
LEMMA RequiredBatch == "student_batches" \in DOMAIN Required /\ "batchId" \in Required["student_batches"]
<1>1. "student_batches" \in DOMAIN RequiredFirst /\ "batchId" \in RequiredFirst["student_batches"]
  BY DEF RequiredFirst
<1>2. QED BY <1>1 DEF Required, Plus

LEMMA InsertSound ==
  ASSUME DbSound, NEW rows, Whole(rows), Accepted(rows), Insert(rows)
  PROVE  DbSound'
<1>1. /\ DOMAIN db' = DOMAIN db \cup DOMAIN rows /\ gone' = gone
      /\ DOMAIN rows \cap DOMAIN db = {} /\ DOMAIN rows \cap gone = {}
      /\ \A id \in DOMAIN db : db'[id] = db[id]
      /\ \A id \in DOMAIN rows : db'[id] = rows[id]
  BY DEF Insert, Plus, Accepted
<1>2. Whole(db')
  BY <1>1 DEF DbSound, Whole
<1>3. Present'
  <2>1. \A id \in DOMAIN rows : \A c \in DOMAIN rows[id] : rows[id][c] = Null \/ rows[id][c] \in DOMAIN db'
    BY <1>1 DEF Accepted
  <2>2. QED BY <1>1, <2>1 DEF DbSound, Present
<1>4. Tenanted'
  <2>1. \A id \in DOMAIN rows : \E t \in DOMAIN db' : TableOf(t) = "tenants" /\ TenantOf(t) = TenantOf(id)
    BY <1>1 DEF Accepted
  <2>2. \A id \in DOMAIN db : \E t \in DOMAIN db' : TableOf(t) = "tenants" /\ TenantOf(t) = TenantOf(id)
    BY <1>1 DEF DbSound, Tenanted, Tenants
  <2>3. QED BY <1>1, <2>1, <2>2 DEF Tenanted, Tenants
<1>5. Joined'
  <2>1. ASSUME NEW id \in DOMAIN rows, TableOf(id) = "student_batches"
        PROVE  rows[id].batchId # Null
    <3>1. "batchId" \in DOMAIN rows[id]
      BY <2>1, SchemaFirst DEF Whole, Fits, Refs
    <3>2. QED BY <2>1, <3>1, RequiredBatch DEF Accepted
  <2>2. QED BY <1>1, <2>1 DEF DbSound, Joined
<1>6. (DOMAIN db \cap gone = {})'
  BY <1>1 DEF DbSound
<1>7. QED BY <1>2, <1>3, <1>4, <1>5, <1>6 DEF DbSound

(* Rows may go when no institute goes without all its rows, and no batch    *)
(* without its enrolments.                                                  *)
LEMMA DeleteSound ==
  ASSUME DbSound, NEW S \in SUBSET DOMAIN db, Delete(S),
         \A id \in DOMAIN db \ S : \E t \in Tenants \ S : TenantOf(t) = TenantOf(id),
         \A id \in DOMAIN db \ S : TableOf(id) = "student_batches" => db[id].batchId \notin S
  PROVE  DbSound'
<1>1. /\ DOMAIN db' = DOMAIN db \ S /\ gone' = gone \cup S
      /\ \A id \in DOMAIN db \ S :
           /\ DOMAIN db'[id] = DOMAIN db[id]
           /\ \A c \in DOMAIN db[id] : db'[id][c] = IF db[id][c] \in S THEN Null ELSE db[id][c]
  BY DEF Delete
<1>2. Whole(db')
  BY <1>1 DEF DbSound, Whole, Fits, Refs
<1>3. Present'
  BY <1>1 DEF DbSound, Present
<1>4. Tenanted'
  BY <1>1 DEF Tenanted, Tenants
<1>5. Joined'
  <2>1. ASSUME NEW id \in DOMAIN db \ S, TableOf(id) = "student_batches"
        PROVE  db'[id].batchId # Null
    <3>1. "batchId" \in DOMAIN db[id]
      BY <2>1, SchemaFirst DEF DbSound, Whole, Fits, Refs
    <3>2. QED BY <1>1, <2>1, <3>1 DEF DbSound, Joined
  <2>2. QED BY <1>1, <2>1 DEF Joined
<1>6. (DOMAIN db \cap gone = {})'
  BY <1>1 DEF DbSound
<1>7. QED BY <1>2, <1>3, <1>4, <1>5, <1>6 DEF DbSound

(* An institute goes whole, and takes nothing else along. *)
LEMMA InstituteClosed ==
  ASSUME DbSound, NEW n
  PROVE  Cascaded(RowsOf(n)) = RowsOf(n) /\ Deletable(RowsOf(n))
<1>1. ASSUME NEW id \in DOMAIN db \ RowsOf(n), NEW c \in DOMAIN db[id], db[id][c] \in RowsOf(n)
      PROVE  FALSE
  <2>1. db[id][c] # Null
    BY <1>1, NullAbsent DEF DbSound, RowsOf
  <2>2. TenantOf(db[id][c]) = TenantOf(id)
    BY <2>1, <1>1 DEF DbSound, Whole, Fits, Refs
  <2>3. QED BY <1>1, <2>2 DEF RowsOf
<1>2. Along(RowsOf(n)) = RowsOf(n)
  BY <1>1 DEF Along, Cascading
<1>3. Deletable(RowsOf(n))
  BY <1>1 DEF Deletable, Refers
<1>4. QED BY <1>2, <1>3 DEF Cascaded

(* Members of staff, roles, and what is deleted along with them. *)
Loose == {"staff", "roles", "staff_subjects", "notifications", "refresh_tokens", "one_time_codes"}

LEMMA LooseTables ==
  ASSUME NEW table \in DOMAIN Schema, NEW c \in DOMAIN Schema[table],
         Schema[table][c] \in Loose, <<table, c>> \notin Restricted \cup SetNull
  PROVE  table \in Loose
<1>1. CASE table \in {"tenants", "institute_settings", "campuses", "roles", "subjects", "portal_accounts"}
  BY <1>1, SchemaFirst, SchemaLast
<1>2. CASE table \in {"students", "student_batches", "topics", "batch_topic_coverage"}
  BY <1>2, SchemaFirst DEF Loose
<1>3. CASE table \in {"batches", "attendance_sessions"}
  BY <1>3, SchemaFirst DEF Loose, Restricted, RestrictFirst, RestrictNext
<1>4. CASE table \in {"attendance_session_topics", "attendance_records", "fee_invoices", "assessments",
                      "assessment_topics", "assessment_scores", "portal_account_students"}
  BY <1>4, SchemaLast DEF Loose
<1>5. CASE table = "payments"
  BY <1>5, SchemaLast DEF Loose, Restricted, RestrictNext
<1>6. CASE table = "activity_log"
  <2>1. Schema["activity_log"] = [actorId |-> "staff"]
    BY DEF Schema
  <2>2. QED BY <1>6, <2>1 DEF SetNull
<1>7. CASE table \in Loose
  BY <1>7
<1>8. QED BY <1>1, <1>2, <1>3, <1>4, <1>5, <1>6, <1>7 DEF Schema, Loose

LEMMA AlongLoose ==
  ASSUME Whole(db), NEW S \in SUBSET DOMAIN db, \A id \in S : TableOf(id) \in Loose
  PROVE  Along(S) \in SUBSET DOMAIN db /\ \A id \in Along(S) : TableOf(id) \in Loose
<1>1. ASSUME NEW id \in DOMAIN db, Cascading(id, S)
      PROVE  TableOf(id) \in Loose
  <2>1. PICK c \in DOMAIN db[id] : db[id][c] \in S /\ <<TableOf(id), c>> \notin Restricted \cup SetNull
    BY <1>1 DEF Cascading
  <2>2. TableOf(id) \in DOMAIN Schema /\ c \in DOMAIN Schema[TableOf(id)]
    BY DEF Whole, Fits, Refs
  <2>3. db[id][c] # Null
    BY <2>1, NullAbsent
  <2>4. TableOf(db[id][c]) = Schema[TableOf(id)][c]
    BY <2>3 DEF Whole, Fits, Refs
  <2>5. QED BY <2>1, <2>2, <2>4, LooseTables
<1>2. QED BY <1>1 DEF Along

LEMMA CascadedLoose ==
  ASSUME Whole(db), NEW id \in DOMAIN db, TableOf(id) \in Loose
  PROVE  Cascaded({id}) \in SUBSET DOMAIN db /\ \A x \in Cascaded({id}) : TableOf(x) \in Loose
<1> DEFINE L(S) == S \in SUBSET DOMAIN db /\ \A x \in S : TableOf(x) \in Loose
<1>1. \A S : L(S) => L(Along(S))
  BY AlongLoose
<1>2. L({id})
  OBVIOUS
<1> HIDE DEF L
<1>3. L(Cascaded({id}))
  BY <1>1, <1>2 DEF Cascaded
<1>4. QED BY <1>3 DEF L

(* Loose rows may always go. *)
LEMMA DeleteLoose ==
  ASSUME DbSound, NEW S \in SUBSET DOMAIN db, \A id \in S : TableOf(id) \in Loose, Delete(S)
  PROVE  DbSound'
<1>1. \A t \in Tenants : t \notin S
  BY DEF Tenants, Loose
<1>2. ASSUME NEW id \in DOMAIN db, TableOf(id) = "student_batches"
      PROVE  db[id].batchId \notin S
  <2>1. Of(db[id].batchId, TenantOf(id), "batches") /\ db[id].batchId # Null
    BY <1>2, RefOf, SchemaFirst DEF DbSound, Joined
  <2>2. QED BY <2>1 DEF Of, Loose
<1>3. \A id \in DOMAIN db \ S : \E t \in Tenants \ S : TenantOf(t) = TenantOf(id)
  BY <1>1 DEF DbSound, Tenanted
<1>4. QED BY <1>2, <1>3, DeleteSound

-----------------------------------------------------------------------------
(* What requests and scripts carry between their steps: statements that     *)
(* insert whole rows, delete a member or a role, or move members to another *)
(* role of their institute; and scripts stand within their statements.      *)
Proper(st) ==
  /\ st.do \in {"create", "drop", "clear", "move"}
  /\ st.do = "create" => Whole(st.rows)
  /\ st.do = "drop" => TableOf(st.where) \in {"staff", "roles"}
  /\ st.do = "move" => st.where # Null /\ st.to # Null /\ Of(st.to, TenantOf(st.where), "roles")
Carried(r) ==
  \E k, a, b : Proper(a) /\ Proper(b) /\ r \in {[no |-> k, todo |-> <<a>>], [no |-> k, todo |-> <<a, b>>]}
RequestsSound == \A r \in requests : Carried(r)

Steps == [seed |-> 27, bootstrap |-> 6, load |-> 13]
ScriptSound ==
  script = NoScript
  \/ \E name \in DOMAIN Steps : \E n : \E i \in 1..Steps[name] : script = [name |-> name, of |-> n, at |-> i]

(* The inductive invariant. *)
Sound == DbSound /\ RequestsSound /\ ScriptSound

(* A statement the database takes leaves the rows sound, and deletes only   *)
(* loose rows.                                                              *)
LEMMA ExecuteSound ==
  ASSUME DbSound, NEW st, Proper(st), Taken(st), Execute(st)
  PROVE  DbSound' /\ \A id \in DOMAIN db \ DOMAIN db' : TableOf(id) \in Loose
<1>1. CASE st.do = "create"
  <2>1. Accepted(st.rows) /\ Insert(st.rows) /\ Whole(st.rows)
    BY <1>1 DEF Taken, Execute, Proper
  <2>2. QED BY <2>1, InsertSound DEF Insert, Plus
<1>2. CASE st.do = "drop"
  <2>1. st.where \in DOMAIN db /\ Delete(Cascaded({st.where})) /\ TableOf(st.where) \in Loose
    BY <1>2 DEF Taken, Execute, Proper, Loose
  <2>2. Cascaded({st.where}) \in SUBSET DOMAIN db /\ \A x \in Cascaded({st.where}) : TableOf(x) \in Loose
    BY <2>1, CascadedLoose DEF DbSound
  <2>3. QED BY <2>1, <2>2, DeleteLoose DEF Delete
<1>3. CASE st.do = "clear"
  <2> DEFINE S == {id \in DOMAIN db : TableOf(id) = "staff_subjects" /\ db[id].staffId = st.where}
  <2>1. Delete(S)
    BY <1>3 DEF Execute
  <2>2. S \in SUBSET DOMAIN db /\ \A x \in S : TableOf(x) \in Loose
    BY DEF Loose
  <2>3. QED BY <2>1, <2>2, DeleteLoose DEF Delete
<1>4. CASE st.do = "move"
  <2>1. /\ gone' = gone /\ DOMAIN db' = DOMAIN db
        /\ \A id \in DOMAIN db :
             db'[id] = IF Refers(id, {st.where}, RestrictRole) THEN [db[id] EXCEPT !.roleId = st.to] ELSE db[id]
    BY <1>4 DEF Execute
  <2>2. ASSUME NEW id \in DOMAIN db, Refers(id, {st.where}, RestrictRole)
        PROVE  /\ TableOf(id) = "staff" /\ DOMAIN db[id] = {"roleId"}
               /\ TenantOf(id) = TenantOf(st.where) /\ st.to \in DOMAIN db
               /\ DOMAIN db'[id] = {"roleId"} /\ db'[id]["roleId"] = st.to
    <3>1. TableOf(id) = "staff" /\ db[id]["roleId"] = st.where /\ "roleId" \in DOMAIN db[id]
      BY <2>2 DEF Refers, RestrictRole
    <3>2. DOMAIN db[id] = {"roleId"} /\ Of(db[id]["roleId"], TenantOf(id), "roles")
      BY <3>1, SchemaFirst, RefOf DEF DbSound, Whole, Fits, Refs
    <3>3. TenantOf(id) = TenantOf(st.where) /\ st.to \in DOMAIN db
      BY <1>4, <2>2, <3>1, <3>2 DEF Proper, Of, Taken
    <3>4. QED BY <2>1, <2>2, <3>1, <3>2, <3>3
  <2>3. Whole(db')
    <3>1. ASSUME NEW id \in DOMAIN db, Refers(id, {st.where}, RestrictRole)
          PROVE  Fits(id, db'[id])
      <4>1. /\ TableOf(id) = "staff" /\ TenantOf(id) = TenantOf(st.where)
            /\ DOMAIN db'[id] = {"roleId"} /\ db'[id]["roleId"] = st.to
        BY <2>2, <3>1
      <4>2. st.to # Null /\ TenantOf(st.to) = TenantOf(st.where) /\ TableOf(st.to) = "roles"
        BY <1>4 DEF Proper, Of
      <4>3. "staff" \in DOMAIN Schema /\ DOMAIN Schema["staff"] = {"roleId"} /\ Schema["staff"]["roleId"] = "roles"
        BY SchemaFirst
      <4>4. QED BY <4>1, <4>2, <4>3 DEF Fits, Refs
    <3>2. ASSUME NEW id \in DOMAIN db, ~Refers(id, {st.where}, RestrictRole)
          PROVE  Fits(id, db'[id])
      BY <2>1, <3>2 DEF DbSound, Whole
    <3>3. QED BY <2>1, <3>1, <3>2 DEF Whole
  <2>4. Present'
    BY <2>1, <2>2 DEF DbSound, Present
  <2>5. Tenanted' /\ (DOMAIN db \cap gone = {})'
    BY <2>1 DEF DbSound, Tenanted, Tenants
  <2>6. Joined'
    BY <2>1, <2>2 DEF DbSound, Joined
  <2>7. QED BY <2>1, <2>3, <2>4, <2>5, <2>6 DEF DbSound
<1>5. QED BY <1>1, <1>2, <1>3, <1>4 DEF Proper

-----------------------------------------------------------------------------
(* The first state. *)
LEMMA PlainKey ==
  ASSUME NEW n, NEW table, NEW label, NEW refs, Key(table) = <<>>
  PROVE  Named(n, table, label) \in DOMAIN Row(n, table, label, refs)
<1>1. [i \in DOMAIN Key(table) |-> refs[Key(table)[i]]] = <<>>
  OBVIOUS
<1>2. QED BY <1>1 DEF Row, Named

LEMMA PlainTables == Key("tenants") = <<>> /\ Key("roles") = <<>> /\ Key("staff") = <<>>
  BY DEF Key, KeyFirst, KeyLast

LEMMA OfRow ==
  ASSUME NEW n, NEW table, NEW label, NEW refs, NEW id \in DOMAIN Row(n, table, label, refs)
  PROVE  TenantOf(id) = n /\ TableOf(id) = table /\ Row(n, table, label, refs)[id] = refs
  BY DEF Row, TenantOf, TableOf

LEMMA BootstrapRows ==
  ASSUME NEW n, NEW code, NEW i \in 1..6, NEW id \in DOMAIN Bootstrap(n, code)[i]
  PROVE  /\ TenantOf(id) = n /\ TableOf(id) # "student_batches"
         /\ Named(n, "tenants", code) \in DOMAIN Bootstrap(n, code)[1]
         /\ \A c \in DOMAIN Bootstrap(n, code)[i][id] :
              \/ Bootstrap(n, code)[i][id][c] = Null
              \/ Bootstrap(n, code)[i][id][c] \in DOMAIN Bootstrap(n, code)[3]
              \/ Bootstrap(n, code)[i][id][c] \in DOMAIN Bootstrap(n, code)[5]
<1> DEFINE s == Bootstrap(n, code)
           tenant == Row(n, "tenants", code, <<>>)
           settings == Row(n, "institute_settings", "", <<>>)
           campus == Row(n, "campuses", "main", <<>>)
           admin == Row(n, "roles", "admin", <<>>)
           faculty == Row(n, "roles", "faculty", <<>>)
           owner == Row(n, "staff", "owner", [roleId |-> RoleRow(n, "admin")])
           sent == Row(n, "one_time_codes", "owner", [staffId |-> StaffRow(n, "owner"), portalAccountId |-> Null])
<1>1. \A x \in DOMAIN tenant : TenantOf(x) = n /\ TableOf(x) = "tenants" /\ tenant[x] = <<>>
  BY OfRow
<1>2. \A x \in DOMAIN settings : TenantOf(x) = n /\ TableOf(x) = "institute_settings" /\ settings[x] = <<>>
  <2>1. \A l : \A x \in DOMAIN Row(n, "institute_settings", l, <<>>) :
          TenantOf(x) = n /\ TableOf(x) = "institute_settings" /\ Row(n, "institute_settings", l, <<>>)[x] = <<>>
    BY OfRow
  <2>2. QED BY <2>1
<1>3. \A x \in DOMAIN campus : TenantOf(x) = n /\ TableOf(x) = "campuses" /\ campus[x] = <<>>
  BY OfRow
<1>4. \A x \in DOMAIN admin : TenantOf(x) = n /\ TableOf(x) = "roles" /\ admin[x] = <<>>
  BY OfRow
<1>5. \A x \in DOMAIN faculty : TenantOf(x) = n /\ TableOf(x) = "roles" /\ faculty[x] = <<>>
  BY OfRow
<1>6. \A x \in DOMAIN owner : TenantOf(x) = n /\ TableOf(x) = "staff" /\ owner[x] = [roleId |-> RoleRow(n, "admin")]
  BY OfRow
<1>7. \A x \in DOMAIN sent : /\ TenantOf(x) = n /\ TableOf(x) = "one_time_codes"
                             /\ sent[x] = [staffId |-> StaffRow(n, "owner"), portalAccountId |-> Null]
  BY OfRow
<1>8. Named(n, "tenants", code) \in DOMAIN tenant
  BY PlainTables, PlainKey, Zenon
<1>9. RoleRow(n, "admin") \in DOMAIN admin
  BY PlainTables, PlainKey, Zenon DEF RoleRow
<1>10. StaffRow(n, "owner") \in DOMAIN owner
  BY PlainTables, PlainKey, Zenon DEF StaffRow
<1>11. /\ s[1] = Plus(tenant, settings) /\ s[2] = campus /\ s[3] = admin /\ s[4] = faculty
       /\ s[5] = owner /\ s[6] = sent /\ id \in DOMAIN s[i]
  BY DEF Bootstrap, Code
<1> HIDE DEF s, tenant, settings, campus, admin, faculty, owner, sent
<1>12. \/ i = 1 /\ s[i][id] = <<>> /\ TenantOf(id) = n /\ TableOf(id) \in {"tenants", "institute_settings"}
       \/ i \in {2, 3, 4} /\ s[i][id] = <<>> /\ TenantOf(id) = n /\ TableOf(id) \in {"campuses", "roles"}
       \/ i = 5 /\ s[i][id] = [roleId |-> RoleRow(n, "admin")] /\ TenantOf(id) = n /\ TableOf(id) = "staff"
       \/ i = 6 /\ s[i][id] = [staffId |-> StaffRow(n, "owner"), portalAccountId |-> Null]
              /\ TenantOf(id) = n /\ TableOf(id) = "one_time_codes"
  <2>1. i = 1 \/ i = 2 \/ i = 3 \/ i = 4 \/ i = 5 \/ i = 6
    OBVIOUS
  <2>2. CASE i = 1
    BY <1>1, <1>2, <1>11, <2>2 DEF Plus
  <2>3. CASE i = 2
    BY <1>3, <1>11, <2>3
  <2>4. CASE i = 3
    BY <1>4, <1>11, <2>4
  <2>5. CASE i = 4
    BY <1>5, <1>11, <2>5
  <2>6. CASE i = 5
    BY <1>6, <1>11, <2>6
  <2>7. CASE i = 6
    BY <1>7, <1>11, <2>7
  <2>8. QED BY <2>1, <2>2, <2>3, <2>4, <2>5, <2>6, <2>7
<1>13. TenantOf(id) = n /\ TableOf(id) # "student_batches"
  BY <1>12
<1>14. \A c \in DOMAIN s[i][id] : s[i][id][c] = Null \/ s[i][id][c] \in DOMAIN s[3] \/ s[i][id][c] \in DOMAIN s[5]
  BY <1>9, <1>10, <1>11, <1>12
<1>15. Named(n, "tenants", code) \in DOMAIN s[1]
  BY <1>8, <1>11 DEF Plus
<1>16. QED BY <1>13, <1>14, <1>15 DEF s

LEMMA PlusLast ==
  ASSUME NEW f, NEW g, NEW x \in DOMAIN g, x \notin DOMAIN f
  PROVE  Plus(f, g)[x] = g[x]
  BY DEF Plus

LEMMA InitSound ==
  ASSUME Init
  PROVE  Sound
<1> DEFINE child(n, i) == Bootstrap(n, Others[n])[i]
           children == {child(n, i) : n \in DOMAIN Others, i \in 1..6}
<1>1. \A n : \A i \in 1..6 : Whole(child(n, i))
  BY BootstrapSeries DEF Series
<1>2. DOMAIN db = UNION {DOMAIN r : r \in children}
  BY DEF Init, Nested, Plus
<1>3. \A id \in DOMAIN db : \E n \in DOMAIN Others : \E i \in 1..6 :
        id \in DOMAIN child(n, i) /\ db[id] = child(n, i)[id]
  <2> SUFFICES ASSUME NEW id \in DOMAIN db
               PROVE  \E r \in children : id \in DOMAIN r /\ db[id] = r[id]
    OBVIOUS
  <2> DEFINE owner(x) == CHOOSE r \in children : x \in DOMAIN r
             below == [x \in UNION {DOMAIN r : r \in children} |-> owner(x)[x]]
  <2>1. owner(id) \in children /\ id \in DOMAIN owner(id)
    BY <1>2
  <2>2. db = Plus(<<>>, below)
    BY DEF Init, Nested
  <2>3. below[id] = owner(id)[id]
    BY <1>2
  <2>4. db[id] = below[id]
    <3>1. id \in DOMAIN below /\ id \notin DOMAIN <<>>
      BY <1>2
    <3> HIDE DEF below
    <3>2. QED BY <2>2, <3>1, PlusLast
  <2> HIDE DEF owner, below
  <2>5. QED BY <2>1, <2>3, <2>4
<1>4. \A n \in DOMAIN Others : \A i \in 1..6 : DOMAIN child(n, i) \subseteq DOMAIN db
  BY <1>2
<1>5. Whole(db)
  BY <1>1, <1>3 DEF Whole
<1>6. Present
  BY <1>3, <1>4, BootstrapRows DEF Present
<1>7. Tenanted
  <2> SUFFICES ASSUME NEW id \in DOMAIN db
               PROVE  \E t \in Tenants : TenantOf(t) = TenantOf(id)
    BY DEF Tenanted
  <2>1. PICK n \in DOMAIN Others : \E i \in 1..6 : id \in DOMAIN child(n, i)
    BY <1>3
  <2>2. TenantOf(id) = n /\ Named(n, "tenants", Others[n]) \in DOMAIN child(n, 1)
    BY <2>1, BootstrapRows
  <2>3. Named(n, "tenants", Others[n]) \in DOMAIN db
    BY <1>4, <2>2
  <2>4. QED BY <2>2, <2>3 DEF Tenants, Named, TenantOf, TableOf
<1>8. Joined
  BY <1>3, BootstrapRows DEF Joined
<1>9. QED BY <1>5, <1>6, <1>7, <1>8 DEF Init, Sound, DbSound, RequestsSound, ScriptSound

-----------------------------------------------------------------------------
(* Requests carry proper statements only. *)
LEMMA ProperCreate ==
  ASSUME NEW rows, Whole(rows)
  PROVE  Proper(Create(rows))
  BY DEF Proper, Create

LEMMA ProperOther ==
  /\ \A id : TableOf(id) \in {"staff", "roles"} => Proper(Drop(id))
  /\ \A id : Proper(Clear(id))
  /\ \A from, to : from # Null /\ to # Null /\ Of(to, TenantOf(from), "roles") => Proper(Move(from, to))
  BY DEF Proper, Drop, Clear, Move

LEMMA ProceedSound ==
  ASSUME Sound, NEW a, NEW b, Proper(a), Proper(b), Proceed(<<a>>) \/ Proceed(<<a, b>>)
  PROVE  RequestsSound' /\ UNCHANGED <<db, gone, script>>
<1>1. UNCHANGED <<db, gone, script>>
  BY DEF Proceed
<1>2. \E todo \in {<<a>>, <<a, b>>} : requests' = requests \cup {[no |-> asked, todo |-> todo]}
  BY DEF Proceed
<1>3. \A todo \in {<<a>>, <<a, b>>} : Carried([no |-> asked, todo |-> todo])
  BY DEF Carried
<1>4. \A r \in requests' : Carried(r)
  BY <1>2, <1>3 DEF Sound, RequestsSound
<1>5. QED BY <1>1, <1>4 DEF RequestsSound

LEMMA FoundOf ==
  ASSUME DbSound, NEW n, NEW table, NEW id \in OnFile(table), Finds(n, id)
  PROVE  Of(id, n, table) /\ id # Null /\ TableOf(id) = table /\ TenantOf(id) = n
  BY NullAbsent DEF DbSound, OnFile, Finds, Of

LEMMA RequestSound ==
  ASSUME Sound, Request
  PROVE  RequestsSound' /\ UNCHANGED <<db, gone, script>>
<1> USE DEF Sound
<1>1. PICK n \in {TenantOf(t) : t \in Tenants} :
    \/ \E role \in OnFile("roles") :
         \/ \E subjects \in {{}} \cup {{s} : s \in OnFile("subjects")} : invite(n, role, subjects)
         \/ \E target \in OnFile("roles") : removeRole(n, role, target)
    \/ \E member \in OnFile("staff") :
         \/ removeStaff(n, member) \/ signIn(n, member, Null)
         \/ \E s \in OnFile("subjects") : updateSubjects(n, member, {s})
    \/ \E campus \in OnFile("campuses"), b \in OnFile("batches") : importStudent(n, campus, {b})
    \/ \E account \in OnFile("portal_accounts") : signIn(n, Null, account)
  BY DEF Request
<1>2. ASSUME NEW role \in OnFile("roles"), NEW subjects \in {{}} \cup {{s} : s \in OnFile("subjects")},
             invite(n, role, subjects)
      PROVE  RequestsSound' /\ UNCHANGED <<db, gone, script>>
  <2> DEFINE member == StaffRow(n, Label)
             row == Row(n, "staff", Label, [roleId |-> role])
             joined == Nested(row, Teaches(n, member, subjects))
             sent == Code(n, Label, member, Null)
  <2>1. Of(role, n, "roles") /\ \A s \in subjects : Of(s, n, "subjects")
    BY <1>2, FoundOf DEF invite
  <2>2. Of(member, n, "staff") /\ Of(Null, n, "portal_accounts")
    BY Keys DEF Of
  <2>3. Whole(row)
    BY <2>1, StaffWhole
  <2>4. \A r \in Teaches(n, member, subjects) : Whole(r)
    BY <2>1, <2>2, TeachesWhole
  <2>5. Whole(joined)
    BY <2>3, <2>4, NestedWhole
  <2>6. Whole(sent)
    BY <2>2, CredentialWhole DEF Code
  <2>7. Proper(Create(joined)) /\ Proper(Create(sent))
    BY <2>5, <2>6, ProperCreate
  <2>8. Proceed(<<Create(joined), Create(sent)>>)
    BY <1>2 DEF invite
  <2>9. QED BY <2>7, <2>8, ProceedSound
<1>3. ASSUME NEW role \in OnFile("roles"), NEW target \in OnFile("roles"), removeRole(n, role, target)
      PROVE  RequestsSound' /\ UNCHANGED <<db, gone, script>>
  <2>1. /\ role # Null /\ TableOf(role) = "roles" /\ TenantOf(role) = n
        /\ target # Null /\ Of(target, n, "roles")
    BY <1>3, FoundOf DEF removeRole
  <2>2. Proper(Move(role, target)) /\ Proper(Drop(role))
    BY <2>1, ProperOther
  <2>3. Proceed(<<Move(role, target), Drop(role)>>) \/ Proceed(<<Drop(role)>>)
    BY <1>3 DEF removeRole
  <2>4. QED BY <2>2, <2>3, ProceedSound
<1>4. ASSUME NEW member \in OnFile("staff"), removeStaff(n, member)
      PROVE  RequestsSound' /\ UNCHANGED <<db, gone, script>>
  <2>1. Proper(Drop(member))
    BY ProperOther DEF OnFile
  <2>2. Proceed(<<Drop(member)>>)
    BY <1>4 DEF removeStaff
  <2>3. QED BY <2>1, <2>2, ProceedSound
<1>5. ASSUME NEW member, NEW account, signIn(n, member, account),
             Of(member, n, "staff"), Of(account, n, "portal_accounts")
      PROVE  RequestsSound' /\ UNCHANGED <<db, gone, script>>
  <2> DEFINE row == Row(n, "refresh_tokens", Label, [staffId |-> member, portalAccountId |-> account])
  <2>1. Whole(row)
    BY <1>5, CredentialWhole
  <2>2. Proper(Create(row))
    BY <2>1, ProperCreate
  <2>3. Proceed(<<Create(row)>>)
    BY <1>5 DEF signIn
  <2>4. QED BY <2>2, <2>3, ProceedSound
<1>6. ASSUME NEW member \in OnFile("staff"), signIn(n, member, Null)
      PROVE  RequestsSound' /\ UNCHANGED <<db, gone, script>>
  <2>1. Finds(n, member)
    BY <1>6, NullAbsent DEF signIn, OnFile, DbSound
  <2>2. Of(member, n, "staff") /\ Of(Null, n, "portal_accounts")
    BY <2>1, FoundOf DEF Of
  <2>3. QED BY <1>5, <1>6, <2>2
<1>7. ASSUME NEW account \in OnFile("portal_accounts"), signIn(n, Null, account)
      PROVE  RequestsSound' /\ UNCHANGED <<db, gone, script>>
  <2>1. Finds(n, account)
    BY <1>7 DEF signIn
  <2>2. Of(account, n, "portal_accounts") /\ Of(Null, n, "staff")
    BY <2>1, FoundOf DEF Of
  <2>3. QED BY <1>5, <1>7, <2>2
<1>8. ASSUME NEW member \in OnFile("staff"), NEW s \in OnFile("subjects"), updateSubjects(n, member, {s})
      PROVE  RequestsSound' /\ UNCHANGED <<db, gone, script>>
  <2> DEFINE rows == Nested(<<>>, Teaches(n, member, {s}))
  <2>1. Of(member, n, "staff") /\ Of(s, n, "subjects")
    BY <1>8, FoundOf DEF updateSubjects
  <2>2. \A r \in Teaches(n, member, {s}) : Whole(r)
    BY <2>1, TeachesWhole
  <2>3. Whole(rows)
    BY <2>2, NoRows, NestedWhole
  <2>4. Proper(Clear(member)) /\ Proper(Create(rows))
    BY <2>3, ProperCreate, ProperOther
  <2>5. Proceed(<<Clear(member), Create(rows)>>)
    BY <1>8 DEF updateSubjects
  <2>6. QED BY <2>4, <2>5, ProceedSound
<1>9. ASSUME NEW campus \in OnFile("campuses"), NEW b \in OnFile("batches"), importStudent(n, campus, {b})
      PROVE  RequestsSound' /\ UNCHANGED <<db, gone, script>>
  <2> DEFINE row == Row(n, "students", Label, [campusId |-> campus])
             rows == Nested(row, Joins(n, Student(n, Label), {b}))
  <2>1. Of(campus, n, "campuses") /\ Of(b, n, "batches") /\ Of(Student(n, Label), n, "students")
    BY <1>9, FoundOf, Keys DEF importStudent
  <2>2. \A r \in Joins(n, Student(n, Label), {b}) : Whole(r)
    BY <2>1, JoinsWhole
  <2>3. Whole(rows)
    BY <2>1, <2>2, StudentWhole, NestedWhole
  <2>4. Proper(Create(rows))
    BY <2>3, ProperCreate
  <2>5. Proceed(<<Create(rows)>>)
    BY <1>9 DEF importStudent
  <2>6. QED BY <2>4, <2>5, ProceedSound
<1>10. QED BY <1>1, <1>2, <1>3, <1>4, <1>6, <1>7, <1>8, <1>9

LEMMA WriteSound ==
  ASSUME Sound, Write
  PROVE  Sound' /\ \A id \in DOMAIN db \ DOMAIN db' : TableOf(id) \in Loose
<1>1. PICK r \in requests :
    /\ IF Taken(Head(r.todo))
         THEN /\ Execute(Head(r.todo))
              /\ requests' = (requests \ {r}) \cup
                   (IF Len(r.todo) = 1 THEN {} ELSE {[r EXCEPT !.todo = Tail(@)]})
         ELSE requests' = requests \ {r} /\ UNCHANGED <<db, gone>>
    /\ UNCHANGED <<script, runs, asked>>
  BY DEF Write
<1>2. PICK k, a, b : Proper(a) /\ Proper(b) /\ r \in {[no |-> k, todo |-> <<a>>], [no |-> k, todo |-> <<a, b>>]}
  BY DEF Sound, RequestsSound, Carried
<1>3. Head(r.todo) = a
  BY <1>2
<1>4. Len(r.todo) = 1 \/ [r EXCEPT !.todo = Tail(@)] = [no |-> k, todo |-> <<b>>]
  <2>1. CASE r = [no |-> k, todo |-> <<a>>]
    BY <2>1
  <2>2. CASE r = [no |-> k, todo |-> <<a, b>>]
    <3>1. r.todo = <<a, b>> /\ Tail(<<a, b>>) = <<b>>
      BY <2>2
    <3>2. [r EXCEPT !.todo = <<b>>] = [no |-> k, todo |-> <<b>>]
      BY <2>2
    <3>3. QED BY <3>1, <3>2
  <2>3. QED BY <1>2, <2>1, <2>2
<1>5. RequestsSound'
  <2>1. Carried([no |-> k, todo |-> <<b>>])
    BY <1>2 DEF Carried
  <2>2. \A q \in requests' : q \in requests \/ q = [no |-> k, todo |-> <<b>>]
    BY <1>1, <1>4
  <2>3. QED BY <2>1, <2>2 DEF Sound, RequestsSound
<1>6. DbSound' /\ \A id \in DOMAIN db \ DOMAIN db' : TableOf(id) \in Loose
  <2>1. CASE Taken(a)
    BY <1>1, <1>2, <1>3, <2>1, ExecuteSound DEF Sound
  <2>2. CASE ~Taken(a)
    <3>1. UNCHANGED <<db, gone>>
      BY <1>1, <1>3, <2>2
    <3>2. QED BY <3>1 DEF Sound, DbSound, Present, Tenanted, Tenants, Joined
  <2>3. QED BY <2>1, <2>2
<1>7. ScriptSound'
  BY <1>1 DEF Sound, ScriptSound
<1>8. QED BY <1>5, <1>6, <1>7 DEF Sound

-----------------------------------------------------------------------------
(* Scripts begin, insert their statements, and stop. *)
LEMMA StatementsSeries ==
  ASSUME DbSound, NEW name \in DOMAIN Steps, NEW n, NEW i
  PROVE  Series(Statements([name |-> name, of |-> n, at |-> i]), Steps[name])
<1> DEFINE s == [name |-> name, of |-> n, at |-> i]
<1>1. CASE name = "seed"
  <2>1. Statements(s) = Seed(n) /\ Steps[name] = 27
    BY <1>1 DEF Statements, Steps
  <2>2. QED BY <2>1, SeedSeries
<1>2. CASE name = "bootstrap"
  <2>1. Statements(s) = Bootstrap(n, "APEX") /\ Steps[name] = 6
    BY <1>2 DEF Statements, Steps
  <2>2. \A code : Series(Bootstrap(n, code), 6)
    BY BootstrapSeries
  <2>3. QED BY <2>1, <2>2
<1>3. CASE name = "load"
  <2>1. Statements(s) = Load(n) /\ Steps[name] = 13
    BY <1>3 DEF Statements, Steps
  <2>2. QED BY <2>1, LoadSeries
<1>4. QED BY <1>1, <1>2, <1>3 DEF Steps

LEMMA RunStatementSound ==
  ASSUME Sound, RunStatement
  PROVE  Sound' /\ DOMAIN db \subseteq DOMAIN db'
<1>1. script # NoScript /\ UNCHANGED <<runs, requests, asked>>
  BY DEF RunStatement
<1>2. PICK name \in DOMAIN Steps : \E n : \E i \in 1..Steps[name] : script = [name |-> name, of |-> n, at |-> i]
  BY <1>1 DEF Sound, ScriptSound
<1>3. PICK n : \E i \in 1..Steps[name] : script = [name |-> name, of |-> n, at |-> i]
  BY <1>2
<1>4. PICK i \in 1..Steps[name] : script = [name |-> name, of |-> n, at |-> i]
  BY <1>3
<1>5. Series(Statements(script), Steps[name])
  BY <1>4, StatementsSeries DEF Sound
<1>6. script.at = i /\ Len(Statements(script)) = Steps[name] /\ Whole(Statements(script)[i])
  BY <1>4, <1>5 DEF Series
<1>7. Whole(Pending(script))
  BY <1>6 DEF Pending, Whole
<1>8. RequestsSound'
  BY <1>1 DEF Sound, RequestsSound
<1>9. CASE Accepted(Pending(script))
  <2>1. /\ Insert(Pending(script))
        /\ script' = IF script.at = Len(Statements(script)) THEN NoScript ELSE [script EXCEPT !.at = @ + 1]
    BY <1>9 DEF RunStatement
  <2>2. DbSound' /\ DOMAIN db \subseteq DOMAIN db'
    BY <1>7, <1>9, <2>1, InsertSound DEF Sound, Insert, Plus
  <2>3. ScriptSound'
    <3>1. CASE i = Steps[name]
      BY <1>6, <2>1, <3>1 DEF ScriptSound
    <3>2. CASE i # Steps[name]
      <4>1. Steps[name] \in Nat
        BY DEF Steps
      <4>2. i + 1 \in 1..Steps[name]
        BY <3>2, <4>1
      <4>3. script' = [name |-> name, of |-> n, at |-> i + 1]
        BY <1>4, <1>6, <2>1, <3>2
      <4>4. QED BY <4>2, <4>3 DEF ScriptSound
    <3>3. QED BY <3>1, <3>2
  <2>4. QED BY <1>8, <2>2, <2>3 DEF Sound
<1>10. CASE ~Accepted(Pending(script))
  <2>1. script' = NoScript /\ UNCHANGED <<db, gone>>
    BY <1>10 DEF RunStatement
  <2>2. QED BY <1>8, <2>1 DEF Sound, ScriptSound, DbSound, Present, Tenanted, Tenants, Joined
<1>11. QED BY <1>9, <1>10

(* The rows that go when the demo is rebuilt: its institutes, whole. *)
LEMMA BeginSeedSound ==
  ASSUME Sound, BeginSeed
  PROVE  /\ DbSound' /\ ScriptSound'
         /\ \A id \in DOMAIN db \ DOMAIN db' :
              \E t \in Tenants : TenantOf(t) = TenantOf(id) /\ t \notin DOMAIN db'
<1> DEFINE S == {id \in DOMAIN db : TenantOf(id) \in Coded("APEX")}
           W == UNION {Cascaded(RowsOf(n)) : n \in Coded("APEX")}
<1>1. \A n : Cascaded(RowsOf(n)) = RowsOf(n)
  BY InstituteClosed DEF Sound
<1>2. W = S
  <2>1. \A x : x \in W <=> \E n \in Coded("APEX") : x \in Cascaded(RowsOf(n))
    OBVIOUS
  <2>2. \A x, n : x \in Cascaded(RowsOf(n)) <=> x \in DOMAIN db /\ TenantOf(x) = n
    BY <1>1 DEF RowsOf
  <2>3. \A x : x \in W <=> x \in S
    BY <2>1, <2>2
  <2>4. QED BY <2>3
<1>3. Delete(S)
  BY <1>2 DEF BeginSeed
<1>4. \A id \in DOMAIN db \ S : \E t \in Tenants \ S : TenantOf(t) = TenantOf(id)
  BY DEF Sound, DbSound, Tenanted
<1>5. ASSUME NEW id \in DOMAIN db \ S, TableOf(id) = "student_batches"
      PROVE  db[id].batchId \notin S
  <2>1. Of(db[id].batchId, TenantOf(id), "batches") /\ db[id].batchId # Null
    BY <1>5, RefOf, SchemaFirst DEF Sound, DbSound, Joined
  <2>2. QED BY <2>1 DEF Of
<1>6. DbSound'
  BY <1>3, <1>4, <1>5, DeleteSound DEF Sound
<1>7. ScriptSound'
  <2>1. script' = [name |-> "seed", of |-> Fresh, at |-> 1]
    BY DEF BeginSeed
  <2>2. "seed" \in DOMAIN Steps /\ 1 \in 1..Steps["seed"]
    BY DEF Steps
  <2>3. QED BY <2>1, <2>2 DEF ScriptSound
<1>8. ASSUME NEW id \in DOMAIN db \ DOMAIN db'
      PROVE  \E t \in Tenants : TenantOf(t) = TenantOf(id) /\ t \notin DOMAIN db'
  <2>1. DOMAIN db' = DOMAIN db \ S /\ id \in S
    BY <1>3 DEF Delete
  <2>2. PICK t \in Tenants : TenantOf(t) = TenantOf(id)
    BY DEF Sound, DbSound, Tenanted
  <2>3. t \in S
    BY <2>1, <2>2 DEF Tenants
  <2>4. QED BY <2>1, <2>2, <2>3
<1>9. QED BY <1>6, <1>7, <1>8

LEMMA BeginScriptSound ==
  ASSUME Sound, BeginScript
  PROVE  /\ Sound'
         /\ \A id \in DOMAIN db \ DOMAIN db' :
              \E t \in Tenants : TenantOf(t) = TenantOf(id) /\ t \notin DOMAIN db'
<1>1. RequestsSound'
  BY DEF BeginScript, Sound, RequestsSound
<1>2. CASE BeginSeed
  BY <1>1, <1>2, BeginSeedSound DEF Sound
<1>3. ASSUME BeginBootstrap \/ BeginLoad
      PROVE  UNCHANGED <<db, gone>> /\ ScriptSound'
  <2>1. UNCHANGED <<db, gone>> /\ \E name \in {"bootstrap", "load"} : \E n : script' = [name |-> name, of |-> n, at |-> 1]
    BY <1>3 DEF BeginBootstrap, BeginLoad
  <2>2. \A name \in {"bootstrap", "load"} : name \in DOMAIN Steps /\ 1 \in 1..Steps[name]
    BY DEF Steps
  <2>3. QED BY <2>1, <2>2 DEF ScriptSound
<1>4. CASE BeginBootstrap \/ BeginLoad
  BY <1>1, <1>3, <1>4 DEF Sound, DbSound, Present, Tenanted, Tenants, Joined
<1>5. QED BY <1>2, <1>4 DEF BeginScript

-----------------------------------------------------------------------------
(* What a step may take away. *)
LEMMA NextSound ==
  ASSUME Sound, [Next]_vars
  PROVE  /\ Sound'
         /\ \A id \in DOMAIN db \ DOMAIN db' :
              TableOf(id) \in Loose \/ \E t \in Tenants : TenantOf(t) = TenantOf(id) /\ t \notin DOMAIN db'
<1>1. CASE BeginScript
  BY <1>1, BeginScriptSound
<1>2. CASE RunStatement
  BY <1>2, RunStatementSound
<1>3. CASE ScriptStops
  BY <1>3 DEF ScriptStops, Sound, DbSound, Present, Tenanted, Tenants, Joined, RequestsSound, ScriptSound
<1>4. CASE Request
  BY <1>4, RequestSound DEF Sound, DbSound, Present, Tenanted, Tenants, Joined, ScriptSound
<1>5. CASE Write
  BY <1>5, WriteSound
<1>6. CASE UNCHANGED vars
  BY <1>6 DEF vars, Sound, DbSound, Present, Tenanted, Tenants, Joined, RequestsSound, ScriptSound
<1>7. QED BY <1>1, <1>2, <1>3, <1>4, <1>5, <1>6 DEF Next

(* Every row is whole and refers to rows that are there, whatever runs.     *)
THEOREM RowsSound == Spec => []Sound
<1>1. Init => Sound
  BY InitSound
<1>2. Sound /\ [Next]_vars => Sound'
  BY NextSound
<1>3. QED BY <1>1, <1>2, PTL DEF Spec

LEMMA SoundTyped ==
  ASSUME Sound
  PROVE  TypeOK
<1>1. ASSUME NEW id \in DOMAIN db
      PROVE  /\ TableOf(id) \in DOMAIN Schema /\ DOMAIN db[id] = DOMAIN Schema[TableOf(id)]
             /\ \A c \in DOMAIN db[id] : db[id][c] # Null => TableOf(db[id][c]) = Schema[TableOf(id)][c]
  BY DEF Sound, DbSound, Whole, Fits, Refs
<1>2. script.name \in {"seed", "bootstrap", "load", ""}
  <2>1. CASE script = NoScript
    BY <2>1 DEF NoScript
  <2>2. CASE script # NoScript
    <3>1. PICK name \in DOMAIN Steps : \E n : \E i \in 1..Steps[name] : script = [name |-> name, of |-> n, at |-> i]
      BY <2>2 DEF Sound, ScriptSound
    <3>2. script.name = name
      BY <3>1
    <3>3. QED BY <3>2 DEF Steps
  <2>3. QED BY <2>1, <2>2
<1>3. DOMAIN db \cap gone = {}
  BY DEF Sound, DbSound
<1>4. QED BY <1>1, <1>2, <1>3 DEF TypeOK

LEMMA SoundApart ==
  ASSUME Sound
  PROVE  InstitutesApart
<1>1. ASSUME NEW id \in DOMAIN db, NEW c \in DOMAIN db[id]
      PROVE  db[id][c] = Null \/ (db[id][c] \in DOMAIN db /\ TenantOf(db[id][c]) = TenantOf(id))
  BY DEF Sound, DbSound, Present, Whole, Fits, Refs
<1>2. \A t \in Tenants : Cascaded(RowsOf(TenantOf(t))) = RowsOf(TenantOf(t)) /\ Deletable(RowsOf(TenantOf(t)))
  BY InstituteClosed DEF Sound
<1>3. \A id \in DOMAIN db : \E t \in Tenants : TenantOf(t) = TenantOf(id)
  BY DEF Sound, DbSound, Tenanted
<1>4. QED BY <1>1, <1>2, <1>3 DEF InstitutesApart

(* Rows are of known tables and refer to rows of the tables their columns   *)
(* name (schema.prisma), and no key that was deleted is on file again.      *)
THEOREM RowsTyped == Spec => []TypeOK
  BY RowsSound, SoundTyped, PTL

(* No row refers to one that is gone or to another institute's, and every   *)
(* row's institute is there: so an institute can be deleted whole, and      *)
(* nothing else goes with it ("every child row cascades", prisma/seed.ts).  *)
THEOREM RowsApart == Spec => []InstitutesApart
  BY RowsSound, SoundApart, PTL

(* Students, batches, registers, fees and results go only with their        *)
(* institute, whatever requests and scripts do and wherever they stop.      *)
THEOREM RowsKept == Spec => HistoryKept
<1>1. Sound /\ [Next]_vars =>
        [\A id \in DOMAIN db \ DOMAIN db' :
           TableOf(id) \in History => \E t \in Tenants : TenantOf(t) = TenantOf(id) /\ t \notin DOMAIN db']_vars
  <2>1. \A table \in History : table \notin Loose
    BY DEF History, Loose
  <2>2. QED BY <2>1, NextSound
<1>2. QED BY <1>1, RowsSound, PTL DEF Spec, HistoryKept
=============================================================================
