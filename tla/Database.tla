------------------------------ MODULE Database ------------------------------
(***************************************************************************)
(* The rows of the back end's database: what refers to what                 *)
(* (prisma/schema.prisma), what the constraints refuse and delete           *)
(* (prisma/migrations), and who writes: the demo seed, the bootstrap of an  *)
(* institute, the generator of the load test, and the requests of the API,  *)
(* each a series of statements between which others run.  The scripts may   *)
(* stop anywhere and be run again.                                          *)
(*                                                                         *)
(* A row is known by its institute, its table and its unique key: a label   *)
(* and the rows its key takes in.  All else about a row is what it refers   *)
(* to.  An institute is a number; a rebuilt one has a new number.           *)
(* Op_Fault is Op with one fault, to show that a property depends on Op.   *)
(***************************************************************************)
EXTENDS Integers, FiniteSets, Sequences, FiniteSetsExt, TLC

CONSTANTS
  Others,        \* codes of the institutes that are there from the start, in order
  Runnable,      \* the scripts that run, among seed, bootstrap and load
  MaxRuns, MaxRequests      \* bounds

VARIABLES
  db,            \* rows on file, each with the rows it refers to
  gone,          \* keys of the rows deleted; bound: none is used again
  script,        \* the script that runs, its institute and its next statement
  runs,          \* scripts begun
  requests,      \* requests that have read, and the statements they still have
  asked          \* requests begun

vars == <<db, gone, script, runs, requests, asked>>

Null == <<0, "", "", <<>>>>
NoScript == [name |-> "", of |-> 0, at |-> 0]

(* Two functions taken together, the first where both are defined. *)
Plus(f, g) == [x \in DOMAIN f \cup DOMAIN g |-> IF x \in DOMAIN f THEN f[x] ELSE g[x]]

-----------------------------------------------------------------------------
(* Tables and what their columns refer to; every table but tenants also     *)
(* refers to the institute.                                                 *)
Schema ==
  [tenants |-> <<>>, institute_settings |-> <<>>, campuses |-> <<>>, roles |-> <<>>,
   staff |-> [roleId |-> "roles"],
   staff_subjects |-> [staffId |-> "staff", subjectId |-> "subjects"],
   students |-> [campusId |-> "campuses"],
   student_batches |-> [studentId |-> "students", batchId |-> "batches"],
   subjects |-> <<>>, topics |-> [subjectId |-> "subjects"],
   batches |-> [campusId |-> "campuses", subjectId |-> "subjects", facultyId |-> "staff"],
   batch_topic_coverage |-> [batchId |-> "batches", topicId |-> "topics"],
   attendance_sessions |-> [batchId |-> "batches", facultyId |-> "staff", markedById |-> "staff"],
   attendance_session_topics |-> [sessionId |-> "attendance_sessions", topicId |-> "topics"],
   attendance_records |-> [sessionId |-> "attendance_sessions", studentId |-> "students"],
   fee_invoices |-> [studentId |-> "students", batchId |-> "batches"],
   payments |-> [invoiceId |-> "fee_invoices", studentId |-> "students", collectedById |-> "staff"],
   assessments |-> [batchId |-> "batches"],
   assessment_topics |-> [assessmentId |-> "assessments", topicId |-> "topics"],
   assessment_scores |-> [assessmentId |-> "assessments", studentId |-> "students"],
   notifications |-> [staffId |-> "staff"], activity_log |-> [actorId |-> "staff"],
   portal_accounts |-> <<>>,
   portal_account_students |-> [portalAccountId |-> "portal_accounts", studentId |-> "students"],
   refresh_tokens |-> [staffId |-> "staff", portalAccountId |-> "portal_accounts"],
   one_time_codes |-> [staffId |-> "staff", portalAccountId |-> "portal_accounts"]]

(* Columns that may not be null. *)
RequiredFirst ==
  [staff_subjects |-> {"staffId", "subjectId"}, students |-> {"campusId"},
   student_batches |-> {"studentId", "batchId"}]
RequiredNext ==
  [topics |-> {"subjectId"}, batches |-> {"campusId", "subjectId", "facultyId"},
   batch_topic_coverage |-> {"batchId", "topicId"},
   attendance_sessions |-> {"batchId", "facultyId", "markedById"},
   attendance_session_topics |-> {"sessionId", "topicId"},
   attendance_records |-> {"sessionId", "studentId"},
   fee_invoices |-> {"studentId", "batchId"}]
RequiredLast ==
  [payments |-> {"invoiceId", "studentId", "collectedById"}, assessments |-> {"batchId"},
   assessment_topics |-> {"assessmentId", "topicId"}, assessment_scores |-> {"assessmentId", "studentId"},
   portal_account_students |-> {"portalAccountId", "studentId"}]
RequiredRole == [staff |-> {"roleId"}]
Required == Plus(RequiredFirst, Plus(RequiredNext, Plus(RequiredLast, RequiredRole)))

(* The rows a unique key takes in besides its label; the primary key, where *)
(* a table has one of two columns.                                          *)
KeyFirst ==
  [staff_subjects |-> <<"staffId", "subjectId">>, student_batches |-> <<"studentId", "batchId">>,
   topics |-> <<"subjectId">>, batch_topic_coverage |-> <<"batchId", "topicId">>,
   attendance_sessions |-> <<"batchId">>]
KeyLast ==
  [attendance_session_topics |-> <<"sessionId", "topicId">>,
   attendance_records |-> <<"sessionId", "studentId">>,
   assessment_topics |-> <<"assessmentId", "topicId">>,
   assessment_scores |-> <<"assessmentId", "studentId">>,
   portal_account_students |-> <<"portalAccountId", "studentId">>]
Key(table) ==
  IF table \in DOMAIN KeyFirst THEN KeyFirst[table]
  ELSE IF table \in DOMAIN KeyLast THEN KeyLast[table] ELSE <<>>

(* References that stop the deletion of what they refer to, or are cleared  *)
(* by it; all others are deleted along with it.                             *)
RestrictFirst_NoFaculty ==
  {<<"students", "campusId">>, <<"batches", "campusId">>, <<"batches", "subjectId">>,
   <<"attendance_sessions", "batchId">>}
RestrictFirst ==
  {<<"students", "campusId">>, <<"batches", "campusId">>, <<"batches", "subjectId">>,
   <<"batches", "facultyId">>, <<"attendance_sessions", "batchId">>}
RestrictNext ==
  {<<"attendance_sessions", "facultyId">>, <<"attendance_sessions", "markedById">>,
   <<"fee_invoices", "studentId">>, <<"fee_invoices", "batchId">>,
   <<"payments", "invoiceId">>, <<"payments", "studentId">>, <<"payments", "collectedById">>}
RestrictLast == {<<"assessments", "batchId">>}
RestrictRole == {<<"staff", "roleId">>}
Restricted == RestrictFirst \cup RestrictNext \cup RestrictLast \cup RestrictRole
SetNull == {<<"activity_log", "actorId">>}

-----------------------------------------------------------------------------
(* Rows and statements. *)
TenantOf(id) == id[1]
TableOf(id) == id[2]
Named(n, table, label) == <<n, table, label, <<>>>>
Row(n, table, label, refs) ==
  [id \in {<<n, table, label, [i \in DOMAIN Key(table) |-> refs[Key(table)[i]]]>>} |-> refs]
Only(rows) == CHOOSE id \in DOMAIN rows : TRUE

RowsOf(n) == {id \in DOMAIN db : TenantOf(id) = n}
In(n, table) == {id \in RowsOf(n) : TableOf(id) = table}
Tenants == {id \in DOMAIN db : TableOf(id) = "tenants"}

Accepted(rows) ==
  LET there == DOMAIN db \cup DOMAIN rows
  IN /\ DOMAIN rows \cap (DOMAIN db \cup gone) = {}
     /\ \A id \in DOMAIN rows :
          /\ \E t \in there : TableOf(t) = "tenants" /\ TenantOf(t) = TenantOf(id)
          /\ TableOf(id) = "tenants" => \A t \in Tenants : t[3] # id[3]
          /\ \A c \in DOMAIN rows[id] :
               IF rows[id][c] = Null
                 THEN TableOf(id) \notin DOMAIN Required \/ c \notin Required[TableOf(id)]
                 ELSE rows[id][c] \in there

Refers(id, S, rules) == \E c \in DOMAIN db[id] : db[id][c] \in S /\ <<TableOf(id), c>> \in rules
Cascading(id, S) ==
  \E c \in DOMAIN db[id] : db[id][c] \in S /\ <<TableOf(id), c>> \notin Restricted \cup SetNull

(* What goes with the rows of S: a chain of references has at most six. *)
Along(S) == S \cup {id \in DOMAIN db \ S : Cascading(id, S)}
Cascaded(S) == Along(Along(Along(Along(Along(Along(S))))))
Deletable(S) == \A id \in DOMAIN db \ S : ~Refers(id, S, Restricted)

Delete(S) ==
  /\ db' = [id \in DOMAIN db \ S |-> [c \in DOMAIN db[id] |-> IF db[id][c] \in S THEN Null ELSE db[id][c]]]
  /\ gone' = gone \cup S
Insert(rows) == db' = Plus(db, rows) /\ gone' = gone

(* A statement, and whether the database takes it. *)
Create(rows) == [do |-> "create", rows |-> rows, where |-> Null, to |-> Null]
Drop(id) == [do |-> "drop", rows |-> <<>>, where |-> id, to |-> Null]
Clear(id) == [do |-> "clear", rows |-> <<>>, where |-> id, to |-> Null]
Move(from, to) == [do |-> "move", rows |-> <<>>, where |-> from, to |-> to]

Taken(st) ==
  \/ st.do = "create" /\ Accepted(st.rows)
  \/ st.do = "drop" /\ st.where \in DOMAIN db /\ Deletable(Cascaded({st.where}))
  \/ st.do = "clear"
  \/ st.do = "move" /\ (st.to \in DOMAIN db \/ \A id \in DOMAIN db : ~Refers(id, {st.where}, RestrictRole))
Execute(st) ==
  \/ st.do = "create" /\ Insert(st.rows)
  \/ st.do = "drop" /\ Delete(Cascaded({st.where}))
  \/ st.do = "clear" /\ Delete({id \in DOMAIN db : TableOf(id) = "staff_subjects" /\ db[id].staffId = st.where})
  \/ /\ st.do = "move" /\ gone' = gone
     /\ db' = [id \in DOMAIN db |-> IF Refers(id, {st.where}, RestrictRole)
                                      THEN [db[id] EXCEPT !.roleId = st.to] ELSE db[id]]

-----------------------------------------------------------------------------
(* The demo seed: prisma/seed.ts, with as many of everything as differ in   *)
(* what they refer to.                                                      *)
SUBJECTS == <<"mat", "phy">>
SYLLABUS == <<"1", "2">>             \* the topics of "mat"
CUSTOM_ROLES == <<"accountant">>
STAFF ==
  <<[key |-> "st-01", role |-> "admin", subjects |-> {}],
    [key |-> "st-02", role |-> "faculty", subjects |-> {"mat"}],
    [key |-> "st-08", role |-> "accountant", subjects |-> {}],
    [key |-> "st-10", role |-> "faculty", subjects |-> {"mat"}]>>
BATCHES ==
  <<[key |-> "m2", subject |-> "mat", faculty |-> "st-02", upcoming |-> FALSE],
    [key |-> "p9", subject |-> "phy", faculty |-> "st-02", upcoming |-> TRUE]>>
STUDENTS ==
  <<[code |-> "1042", campus |-> "central", batches |-> {"m2"}, pays |-> TRUE],
    [code |-> "1055", campus |-> "north", batches |-> {"m2", "p9"}, pays |-> FALSE]>>

Subject(n, key) == Named(n, "subjects", key)
Topic(n, subject, order) == <<n, "topics", order, <<Subject(n, subject)>>>>
RoleRow(n, key) == Named(n, "roles", key)
StaffRow(n, key) == Named(n, "staff", key)
Batch(n, key) == Named(n, "batches", key)
Student(n, code) == Named(n, "students", code)
Campus(n, name) == Named(n, "campuses", name)
Account(n, login) == Named(n, "portal_accounts", login)

(* Rows created along with the one they belong to. *)
Nested(rows, children) ==
  Plus(rows, [id \in UNION {DOMAIN r : r \in children} |-> (CHOOSE r \in children : id \in DOMAIN r)[id]])
Teaches(n, member, subjects) ==
  {Row(n, "staff_subjects", "", [staffId |-> member, subjectId |-> s]) : s \in subjects}
Joins(n, student, batches) ==
  {Row(n, "student_batches", "", [studentId |-> student, batchId |-> b]) : b \in batches}

SeedTenant(n, code) ==
  <<Nested(Row(n, "tenants", code, <<>>),
           {Row(n, "institute_settings", "", <<>>),
            Row(n, "campuses", "central", <<>>), Row(n, "campuses", "north", <<>>)})>>
SeedSyllabus(n) ==
  <<Row(n, "subjects", SUBJECTS[1], <<>>)>>
    \o [i \in DOMAIN SYLLABUS |-> Row(n, "topics", SYLLABUS[i], [subjectId |-> Subject(n, SUBJECTS[1])])]
    \o <<Row(n, "subjects", SUBJECTS[2], <<>>)>>
SeedRoles(n) ==
  <<Row(n, "roles", "admin", <<>>), Row(n, "roles", "faculty", <<>>)>>
    \o [i \in DOMAIN CUSTOM_ROLES |-> Row(n, "roles", CUSTOM_ROLES[i], <<>>)]
SeedStaff(n) ==
  [i \in DOMAIN STAFF |->
     Nested(Row(n, "staff", STAFF[i].key, [roleId |-> RoleRow(n, STAFF[i].role)]),
            Teaches(n, StaffRow(n, STAFF[i].key), {Subject(n, s) : s \in STAFF[i].subjects}))]
SeedBatches(n) ==
  [i \in DOMAIN BATCHES |->
     Row(n, "batches", BATCHES[i].key,
         [campusId |-> Campus(n, "central"), subjectId |-> Subject(n, BATCHES[i].subject),
          facultyId |-> StaffRow(n, BATCHES[i].faculty)])]
SeedStudents(n) ==
  [i \in DOMAIN STUDENTS |->
     Nested(Row(n, "students", STUDENTS[i].code, [campusId |-> Campus(n, STUDENTS[i].campus)]),
            Joins(n, Student(n, STUDENTS[i].code), {Batch(n, b) : b \in STUDENTS[i].batches}))]
SeedCoverage(n) ==
  [i \in DOMAIN SYLLABUS |->
     Row(n, "batch_topic_coverage", "", [batchId |-> Batch(n, "m2"), topicId |-> Topic(n, "mat", SYLLABUS[i])])]

Register(n, batch, day, by, topics, students) ==
  LET session == Row(n, "attendance_sessions", day, [batchId |-> batch, facultyId |-> by, markedById |-> by])
  IN Nested(session,
       {Row(n, "attendance_session_topics", "", [sessionId |-> Only(session), topicId |-> t]) : t \in topics}
       \cup {Row(n, "attendance_records", "", [sessionId |-> Only(session), studentId |-> s]) : s \in students})
SeedSession(n) ==
  <<Register(n, Batch(n, "m2"), "yesterday", StaffRow(n, "st-02"), {Topic(n, "mat", "1")},
             {Student(n, "1042"), Student(n, "1055")})>>
SeedAssessment(n) ==
  LET test == Row(n, "assessments", "m2", [batchId |-> Batch(n, "m2")])
  IN <<Nested(test,
        {Row(n, "assessment_topics", "", [assessmentId |-> Only(test), topicId |-> Topic(n, "mat", "1")])}
        \cup {Row(n, "assessment_scores", "", [assessmentId |-> Only(test), studentId |-> Student(n, s)]) :
                 s \in {"1042", "1055"}})>>

(* One invoice for each student and batch that has begun, and its payment.  *)
Invoice(n, no, student, batch) == Row(n, "fee_invoices", no, [studentId |-> student, batchId |-> batch])
Payment(n, no, invoice, student, by) ==
  Row(n, "payments", no, [invoiceId |-> invoice, studentId |-> student, collectedById |-> by])
SeedFees(n) ==
  <<Invoice(n, "INV-1", Student(n, "1042"), Batch(n, "m2")),
    Payment(n, "RCPT-1", Named(n, "fee_invoices", "INV-1"), Student(n, "1042"), StaffRow(n, "st-08")),
    Invoice(n, "INV-2", Student(n, "1055"), Batch(n, "m2"))>>

PortalAccountOf(n, login, children) ==
  Nested(Row(n, "portal_accounts", login, <<>>),
    {Row(n, "portal_account_students", "", [portalAccountId |-> Account(n, login), studentId |-> s]) :
       s \in children})
SeedPortal(n) ==
  <<PortalAccountOf(n, "1042", {Student(n, "1042")}),
    PortalAccountOf(n, "phone", {Student(n, "1042"), Student(n, "1055")})>>
Code(n, label, member, account) == Row(n, "one_time_codes", label, [staffId |-> member, portalAccountId |-> account])
createInvitation(n) ==
  <<Code(n, "seed-1", Null, Account(n, "1042")), Code(n, "seed-2", StaffRow(n, "st-10"), Null)>>

Seed(n) ==
  SeedTenant(n, "APEX") \o SeedSyllabus(n) \o SeedRoles(n) \o SeedStaff(n) \o SeedBatches(n)
    \o SeedStudents(n) \o SeedCoverage(n) \o SeedSession(n) \o SeedAssessment(n) \o SeedFees(n)
    \o SeedPortal(n) \o createInvitation(n)

(* The bootstrap, which only adds what is missing. *)
Bootstrap(n, code) ==
  <<Plus(Row(n, "tenants", code, <<>>), Row(n, "institute_settings", "", <<>>)),
    Row(n, "campuses", "main", <<>>), Row(n, "roles", "admin", <<>>), Row(n, "roles", "faculty", <<>>),
    Row(n, "staff", "owner", [roleId |-> RoleRow(n, "admin")]),
    Code(n, "owner", StaffRow(n, "owner"), Null)>>

(* The load test's generator: reference data, then rows made of rows; what  *)
(* is there already is left alone.                                          *)
LoadReference(n) ==
  <<Row(n, "campuses", "2", <<>>),
    Row(n, "subjects", "S1", <<>>),
    Nested(<<>>, {Row(n, "topics", label, [subjectId |-> Subject(n, "S1")]) : label \in {"1", "2"}}),
    Row(n, "staff", "faculty1", [roleId |-> RoleRow(n, "faculty")]),
    [id \in {Batch(n, "B1"), Batch(n, "B2")} |->
       [campusId |-> Campus(n, IF id[3] = "B1" THEN "main" ELSE "2"), subjectId |-> Subject(n, "S1"),
        facultyId |-> StaffRow(n, "faculty1")]]>>
LoadStudents(n) ==
  <<[id \in {Student(n, "1"), Student(n, "2")} |-> [campusId |-> Campus(n, IF id[3] = "1" THEN "2" ELSE "main")]],
    Nested(<<>>, UNION {Joins(n, s, In(n, "batches")) : s \in In(n, "students")})>>
Enrolled(id) == {db[e].studentId : e \in {x \in DOMAIN db : TableOf(x) = "student_batches" /\ db[x].batchId = id}}
LoadRegisters(n) ==
  <<Nested(<<>>, {Row(n, "attendance_sessions", "day",
                      [batchId |-> b, facultyId |-> db[b].facultyId, markedById |-> db[b].facultyId]) :
                    b \in In(n, "batches")}),
    Nested(<<>>, UNION {{Row(n, "attendance_records", "", [sessionId |-> x, studentId |-> s]) :
                          s \in Enrolled(db[x].batchId)} : x \in In(n, "attendance_sessions")})>>
CollectedBy(n) == IF In(n, "staff") = {} THEN Null ELSE CHOOSE m \in In(n, "staff") : TRUE
LoadFees(n) ==
  <<Nested(<<>>, {Invoice(n, s[3], s, CHOOSE b \in In(n, "batches") : s \in Enrolled(b)) :
                    s \in UNION {Enrolled(b) : b \in In(n, "batches")}}),
    Nested(<<>>, {Payment(n, i[3], i, db[i].studentId, CollectedBy(n)) :
                    i \in In(n, "fee_invoices")})>>
LoadAssessments(n) ==
  <<Nested(<<>>, {Row(n, "assessments", b[3], [batchId |-> b]) : b \in In(n, "batches")}),
    Nested(<<>>, UNION {{Row(n, "assessment_scores", "", [assessmentId |-> a, studentId |-> s]) :
                          s \in Enrolled(db[a].batchId)} : a \in In(n, "assessments")})>>
Load(n) == LoadReference(n) \o LoadStudents(n) \o LoadRegisters(n) \o LoadFees(n) \o LoadAssessments(n)

-----------------------------------------------------------------------------
(* A script begins, runs one statement after the other, and ends where it   *)
(* is refused, is stopped, or is done.                                      *)
Statements(s) ==
  IF s.name = "seed" THEN Seed(s.of) ELSE IF s.name = "load" THEN Load(s.of) ELSE Bootstrap(s.of, "APEX")
(* What the next statement inserts. *)
Pending(s) ==
  IF s.name = "seed" THEN Statements(s)[s.at]
  ELSE [id \in DOMAIN Statements(s)[s.at] \ DOMAIN db |-> Statements(s)[s.at][id]]

Fresh == Max({TenantOf(id) : id \in DOMAIN db \cup gone} \cup {0}) + 1
Coded(code) == {TenantOf(t) : t \in {x \in Tenants : x[3] = code}}

(* "the APEX tenant is deleted and rebuilt (every child row cascades)". *)
BeginSeed_Over ==
  /\ script' = [name |-> "seed", of |-> Fresh, at |-> 1] /\ UNCHANGED <<db, gone>>
BeginSeed ==
  /\ script' = [name |-> "seed", of |-> Fresh, at |-> 1]
  /\ \A n \in Coded("APEX") : Deletable(Cascaded(RowsOf(n)))
  /\ Delete(UNION {Cascaded(RowsOf(n)) : n \in Coded("APEX")})
BeginBootstrap ==
  /\ script' = [name |-> "bootstrap", of |-> Max(Coded("APEX") \cup {IF Coded("APEX") = {} THEN Fresh ELSE 0}), at |-> 1]
  /\ UNCHANGED <<db, gone>>
(* On the institute the bootstrap just made, in a database of its own. *)
BeginLoad ==
  \E n \in Coded("APEX") :
    /\ {RoleRow(n, "faculty"), StaffRow(n, "owner")} \subseteq DOMAIN db /\ In(n, "subjects") = {}
    /\ script' = [name |-> "load", of |-> n, at |-> 1] /\ UNCHANGED <<db, gone>>

BeginScript ==
  /\ script = NoScript /\ runs < MaxRuns /\ runs' = runs + 1 /\ UNCHANGED <<requests, asked>>
  /\ \/ "seed" \in Runnable /\ BeginSeed
     \/ "bootstrap" \in Runnable /\ BeginBootstrap
     \/ "load" \in Runnable /\ BeginLoad
RunStatement ==
  /\ script # NoScript /\ UNCHANGED <<runs, requests, asked>>
  /\ IF Accepted(Pending(script))
       THEN /\ Insert(Pending(script))
            /\ script' = IF script.at = Len(Statements(script)) THEN NoScript ELSE [script EXCEPT !.at = @ + 1]
       ELSE script' = NoScript /\ UNCHANGED <<db, gone>>
ScriptStops ==
  /\ script # NoScript /\ script' = NoScript /\ UNCHANGED <<db, gone, runs, requests, asked>>

-----------------------------------------------------------------------------
(* Requests: what one finds decides the statements it goes on with.  Only   *)
(* rows of the institute one signed in to are found.                        *)
Finds(n, id) == id \in DOMAIN db /\ TenantOf(id) = n

Label == ToString(asked)
Proceed(todo) ==
  /\ asked < MaxRequests /\ asked' = asked + 1
  /\ requests' = requests \cup {[no |-> asked, todo |-> todo]}
  /\ UNCHANGED <<db, gone, script, runs>>

invite(n, role, subjects) ==
  /\ Finds(n, role) /\ \A s \in subjects : Finds(n, s)
  /\ LET member == StaffRow(n, Label)
     IN Proceed(<<Create(Nested(Row(n, "staff", Label, [roleId |-> role]), Teaches(n, member, subjects))),
                  Create(Code(n, Label, member, Null))>>)
updateSubjects(n, member, subjects) ==
  /\ Finds(n, member) /\ \A s \in subjects : Finds(n, s)
  /\ Proceed(<<Clear(member), Create(Nested(<<>>, Teaches(n, member, subjects)))>>)
removeStaff(n, member) ==
  /\ Finds(n, member)
  /\ \A id \in RowsOf(n) : TableOf(id) \in {"batches", "attendance_sessions", "payments"} =>
       \A c \in DOMAIN db[id] : db[id][c] # member
  /\ Proceed(<<Drop(member)>>)
removeRole(n, role, target) ==
  /\ Finds(n, role) /\ Finds(n, target) /\ role # target /\ role[3] \notin {"admin", "faculty"}
  /\ Proceed(IF \E id \in In(n, "staff") : db[id].roleId = role
                THEN <<Move(role, target), Drop(role)>> ELSE <<Drop(role)>>)
importStudent(n, campus, batches) ==
  /\ Finds(n, campus) /\ \A b \in batches : Finds(n, b)
  /\ Proceed(<<Create(Nested(Row(n, "students", Label, [campusId |-> campus]),
                             Joins(n, Student(n, Label), batches)))>>)
signIn(n, member, account) ==
  /\ Finds(n, IF member = Null THEN account ELSE member)
  /\ Proceed(<<Create(Row(n, "refresh_tokens", Label, [staffId |-> member, portalAccountId |-> account]))>>)

OnFile(table) == {id \in DOMAIN db : TableOf(id) = table}
Request ==
  \E n \in {TenantOf(t) : t \in Tenants} :
    \/ \E role \in OnFile("roles") :
         \/ \E subjects \in {{}} \cup {{s} : s \in OnFile("subjects")} : invite(n, role, subjects)
         \/ \E target \in OnFile("roles") : removeRole(n, role, target)
    \/ \E member \in OnFile("staff") :
         \/ removeStaff(n, member) \/ signIn(n, member, Null)
         \/ \E s \in OnFile("subjects") : updateSubjects(n, member, {s})
    \/ \E campus \in OnFile("campuses"), b \in OnFile("batches") : importStudent(n, campus, {b})
    \/ \E account \in OnFile("portal_accounts") : signIn(n, Null, account)
Write ==
  \E r \in requests :
    /\ IF Taken(Head(r.todo))
         THEN /\ Execute(Head(r.todo))
              /\ requests' = (requests \ {r}) \cup
                   (IF Len(r.todo) = 1 THEN {} ELSE {[r EXCEPT !.todo = Tail(@)]})
         ELSE requests' = requests \ {r} /\ UNCHANGED <<db, gone>>
    /\ UNCHANGED <<script, runs, asked>>

Init ==
  /\ db = Nested(<<>>, {Bootstrap(n, Others[n])[i] : n \in DOMAIN Others, i \in 1..6})
  /\ gone = {} /\ script = NoScript /\ runs = 0 /\ requests = {} /\ asked = 0

Next == BeginScript \/ RunStatement \/ ScriptStops \/ Request \/ Write

Spec == Init /\ [][Next]_vars

-----------------------------------------------------------------------------
(* Rows are of known tables and refer to rows of the table their column     *)
(* names; no deleted key is on file.                                        *)
TypeOK ==
  /\ LET schema == Schema
     IN \A id \in DOMAIN db :
          /\ TableOf(id) \in DOMAIN schema /\ DOMAIN db[id] = DOMAIN schema[TableOf(id)]
          /\ \A c \in DOMAIN db[id] :
               db[id][c] # Null => TableOf(db[id][c]) = schema[TableOf(id)][c]
  /\ DOMAIN db \cap gone = {} /\ script.name \in {"seed", "bootstrap", "load", ""}

(* "Every tenant-owned row": whoever writes, no row refers to one that is   *)
(* not there or to one of another institute, so an institute can always be  *)
(* deleted whole, and nothing else goes with it.                            *)
InstitutesApart ==
  /\ \A id \in DOMAIN db : \A c \in DOMAIN db[id] :
       db[id][c] = Null \/ (db[id][c] \in DOMAIN db /\ TenantOf(db[id][c]) = TenantOf(id))
  /\ \A t \in Tenants : Cascaded(RowsOf(TenantOf(t))) = RowsOf(TenantOf(t)) /\ Deletable(RowsOf(TenantOf(t)))
  /\ \A id \in DOMAIN db : \E t \in Tenants : TenantOf(t) = TenantOf(id)

(* A script may be run again wherever the last run stopped: no statement of *)
(* it is refused, unless a request took away what it stands on.             *)
ScriptsRunAgain ==
  script # NoScript /\ {id \in gone : TenantOf(id) = script.of} = {} => Accepted(Pending(script))

(* Students, batches and what is recorded of them go only with their        *)
(* institute.                                                               *)
History ==
  {"students", "student_batches", "batches", "attendance_sessions", "attendance_records",
   "fee_invoices", "payments", "assessments", "assessment_scores"}
HistoryKept ==
  [][\A id \in DOMAIN db \ DOMAIN db' :
       TableOf(id) \in History => \E t \in Tenants : TenantOf(t) = TenantOf(id) /\ t \notin DOMAIN db']_vars
=============================================================================
