# Attendance management: specifications, model checks and proofs

TLA+ modules for the attendance-management system in `src/`: a NestJS and
Prisma back end (`src/backend`) that keeps institutes, their staff, roles,
students and accounts, and a React front end (`src/frontend`) that today works
on a local-first store of its own (batches, registers, fees, results) and on a
simulated back end. TLC checks each module on small instances; the theorems in
the `*Proofs` modules are checked by TLAPS and hold for every value of the
constants.

| Module | Models | Checked by | Proved in |
|---|---|---|---|
| `StaffRoles` | roles and staff endpoints, permission guard | `roles`, `roles_reassign` | `StaffRolesProofs` |
| `Sessions` | sign-in, refresh tokens, e-mailed links | `sessions_serial`, `auth_overlap`, `sessions_reset_race` | `SessionsProofs` |
| `ParentCodes` | numeric one-time codes sent to parents | `auth_overlap`, `codes_lost_attempt` | `ParentCodesProofs` |
| `StudentImport` | bulk admissions | `services`, `import_duplicates` | `ServicesProofs` |
| `Provisioning` | the operator's create, drop and migrate scripts, and repairs by hand | `services`, `registry_repaired` | `ServicesProofs` |
| `Database` | the tables, their constraints, the seed, bootstrap and load-test scripts, and requests that share them | `roles` | `DatabaseProofs` |
| `RoleMigration` | the migration that made rows of the staff roles | `roles` | |
| `RoleRules` | abstract: what the web app's role rules promise | refined in `web` | refined in `WebProofs` |
| `StoreRoles` | roles, staff and batch teachers of the web app, Undo toasts | `web` | `WebProofs` |
| `FeeLedger` | students, batches, invoices, payments of the web app | `ledger`, `ledger_deleted` | `LedgerProofs` |
| `AttendanceViews` | how often a student came, as every screen computes it | `ledger` | `ScreensProofs` |
| `FeeViews` | dues, receipts and totals, as every screen computes them | `ledger` | `ScreensProofs` |
| `ResultViews` | results, averages, grades and ranks, as every screen computes them | `ledger` | `ScreensProofs` |
| `Timetable` | batches, double bookings, the roll-call page, and the timetable on every screen | `ledger` | `ScreensProofs` |
| `RollCall` | the open register, its saving, changes of the roster | `web` | `WebProofs` |
| `Syllabus` | topics, their order, and each batch's coverage | `web` | `WebProofs` |
| `Assessments` | the assessment form and its marks | `web` | `WebProofs` |
| `PortalAccounts` | student and parent logins of the web app | `services` | `ServicesProofs` |
| `Lists` | the lists of students, staff and batches: search, filters, pages, selection, bulk actions | `web` | |
| `DemoData` | how the web app's demo institute is made up | `roles` | |
| `SessionClient` | the HTTP client and the session it acts for | `services` | `ServicesProofs` |
| `Setup` | the setup wizard and the route guards around it | `services` | |

`MC...` modules give a module the definitions TLC needs (request sets,
symmetry, views); five of them (`MCRoles`, `MCAuth`, `MCLedger`, `MCWeb`,
`MCServices`) put several instances side by side, of which a behaviour runs one
that its initial state names. The instances whose properties are also proved are
declared in a module of their own, which the `MC` module and the proofs both
extend, so that both are about the same formula: `Pages` (roll call, assessments,
syllabus) for `WebProofs`; `Screens` (the timetable, attendance, fees, results)
for `ScreensProofs`, which takes what it needs of sums from `LedgerProofs`;
`Services` and
`StaffOverlap` (overlapping requests about roles and staff, beside the database's
tables) for `ServicesProofs`; `AuthOverlap` (overlapping requests about sessions,
beside the codes) for `ParentCodesProofs`. `PROJECT.json` lists the runs, the source lines
of every definition, the findings and the hazards. Every property has an
operator `Op_Fault`: the model's `Op` with one plausible bug, with which the
property fails. The `Op_Fault` operators are not part of any specification.

    tlc -workers 2 -config Roles.cfg MCRoles
    tlapm StaffRolesProofs.tla

## 1. Inventory

### 1.1 What the parts keep, do and promise

**Roles and staff administration** (`backend/src/roles`, `backend/src/staff`).
State: the `roles` table (permissions, default flag, two system roles) and the
`staff` table (status, role, owner flag). Operations: create, update and remove
a role, with reassignment of its members; invite, resend, update and remove a
member. Hard: no handler opens a transaction. Each reads, awaits the
administrator check on a snapshot, and writes in later statements, while any
other request runs in between; the caller's role id comes from a token up to 15
minutes old. Correct if the institute keeps an active administrator, keeps its
Administrator role, has one default role, no member on a deleted role, and
nobody hands out more than they hold.

**Guards** (`backend/src/common/authz`, `roles/permission-resolver.service.ts`).
State: the permissions of the caller, read once per request. They decide who
may call a handler; what they read may have changed when the handler writes.

**Sign-in, sessions, links** (`backend/src/auth`). State: `refresh_tokens`
(owner, revoked, expiry, replaced by) and the link rows of `one_time_codes`.
Operations: sign-in by password or code, refresh with rotation and reuse
detection, logout, asking for and opening activation and reset links. Hard: two
calls with one token or link, a refresh in flight while a reset or a reuse ends
the sessions, a process that stops between two statements. Correct if a token
has one successor, an ended session stays ended, a link is spent once.

**Parent codes** (`backend/src/auth/otp.service.ts`). State: numeric rows of
`one_time_codes` with attempts, expiry and consumption. Operations: issue,
verify, burn, purge. Hard: the argon2 comparison is awaited between the read
and the write of a row. Correct if guesses are capped, a code works once and
only the newest code works.

**Fee ledger** (`frontend/src/store/dataStore.ts`, `domain/fees.ts`,
`features/fees`). State: students with their batches and concession, batches
with their fee, invoices, payments; one copy per browser tab and one in local
storage. Operations: admit and edit students, change batches, issue, waive and
reinstate invoices, record payments over several invoices, delete. Hard: every
write saves the whole copy, and no tab hears of another's; bills come from four
operations. Correct if nobody is billed twice for a month, no invoice is
overpaid, payments name invoices on file, and numbers do not repeat.

**Roles and staff of the web app** (`domain/roles.ts`, `features/faculty`,
`features/batches`, `features/onboarding/steps/TeamStep.tsx`, `dataStore.ts`).
State: roles, staff, the teacher of each batch, the toasts on screen, who is
signed in. Operations: those of the roles panel, the staff directory and its
forms, the wizard's team step, the batch form, and Undo. Some rules are in the
store (`domain/roles.ts`), some only in the screens (`staffRules.ts`). Hard: an
Undo button writes values read before other edits. Correct if it keeps the
promises listed at the top of `domain/roles.ts`.

**Portal accounts of the web app** (`services/portalAuth.ts`): logins of
students and parents, one-time codes and links in the browser. Hard: every call
waits before it reads, while the office may change the account. Correct if a
code or a link works once and a disabled account is signed out.

**Roll call** (`features/attendance/useRollCall.ts`, `domain/attendance.ts`): a
draft register of a batch and day. Hard: the roster changes under the draft and
between two savings. Correct if saving a register again drops nobody.

**Timetable** (`features/batches/schedule.ts`, `features/attendance`
pages, `components/layout`, portal). State: the batches with their days, hours,
room, campus, teacher and status, who marked which register when, the clock, the
address of the roll-call page. Operations: the batch form, archive, Undo and
restore; opening the roll call from four screens, moving its day or class,
saving. Hard: the page opens a class by itself, by a rule that the clock and
each saving change; the next class is found by six loops. Correct if the roll is
not swapped under the teacher, screens name the same class, blocks of the grid
do not hide one another, and a double booking was warned of.

**Syllabus and assessments** (`features/topics`, `features/performance`):
topics that two screens renumber, coverage rows that the roll call and the
checklist move, and papers whose roll follows the date typed. Correct if topics
keep one order with whole chapters, and no marks are lost.

**Session client** (`services/http.ts`, `services/auth.ts`,
`store/sessionStore.ts`): attaches the session to each request, aborts slow
ones and signs out on a 401. Hard: answers that arrive in another session, and
headers without a body. Correct if a refused token is gone and every request
settles.

**Screens** (`features/dashboard`, `attendance`, `fees`, `performance`,
`students/profile`, `batches`, `portal`). State: none but the filters. The same
figure (how often a student came, what is due, what came in, an average) is
computed anew by up to eight screens, in loops of their own over different
indexes. Hard: marks of deleted or moved students, waivers after part payments,
months of different lengths, absent scores. Correct if screens that show the
same figure show the same number, and parts add up to their whole.

**Lists** (`features/students`, `features/faculty`, `features/batches`,
`components/ui`). State: what the address filters by, the text of the search
box and the pause it waits for (250 ms, in the top bar 120 ms), the table's
order and page, the rows selected, the row a dialog asks about. Operations:
filter, search, sort, page, select, archive one or many, edit, remove, Undo.
Hard: the list shrinks under the page, the selection and an open Undo; the box
and the address follow each other by effects. Correct if each row is on one
page, no page is empty, tabs count what the list shows, and the box shows what
is searched for.

**Demo data** (`data/seed.ts`): one function that makes a whole institute up,
relative to the day it is called: staff, batches, students, registers, coverage,
assessments, invoices, logins. Hard: it is tested on one day, and run on any.
Correct if it is consistent on whatever day it is made.

**Setup wizard** (`features/onboarding`, `app/router.tsx`): pages that redirect
to one another. Correct if the redirects come to rest.

**Bulk import** (`backend/src/students`, `common/bulk`): one upload reads keys,
checks rows in memory and writes in one transaction. Hard: another upload, or
the retry of one whose answer was lost, in between. Correct if it admits the
students it reports.

**Provisioning** (`backend/scripts`): scripts over a registry file, databases
and their roles, which stop half-way and are run again; a rollout deploys one
migration after another, may fail part-way, and is then repaired by hand.
Correct if what is in the registry can be used, a record outlives its database,
and the version on record is the database's unless the database moved with
nothing to record it.

**Database** (`backend/prisma`, `scripts/lib`). State: 26 tables whose rows
refer to one another, each to its institute. Writers: the demo seed, which
deletes and rebuilds an institute; the bootstrap, which adds what is missing;
the load test's generator; the requests. Hard: a script is a hundred statements
without a transaction, stopped anywhere and run again, perhaps beside requests;
what a delete takes along, or is refused for, is decided by some fifty foreign
keys in three migrations. Correct if no row ever refers to another institute or
to nothing, an institute can always be deleted whole, a script can always be run
again, and what was recorded of students and batches goes only with its
institute.

**Tenancy** (`backend/src/tenancy`, `prisma/tenant-scope.ts`): the institute of
a request, a one-minute cache of institutes, and the rewriting that confines
every query to the institute.

**The rest**: pagination, configuration, health, logging, mail and
SMS, password hashing.

### 1.2 How they interact

The guard runs before every role and staff handler and shares the tables with
them; `StaffRoles` holds both, with `Activate` for what a link does to a
member. `Sessions` sees staff administration as `SetStatus` and `Remove`, and
the parent's code sign-in as `CodeSignIn`, whose other half is `Accept` of
`ParentCodes`. `StaffRoles` sees sign-in as `SignIn`, which fixes the role id
of the token. The front end shares no state with the back end at this commit
beyond the rules it repeats. Inside the front end the store is one state, but
few operations cross the parts: `RollCall` has the profile edits that change a
roll and `Assessments` only their effect on one, `StoreRoles` has the part of a
batch that names its teacher, `FeeLedger` the part that bills, `Syllabus` the
part that says which topics it follows.

### 1.3 Components and hazards

`PROJECT.json` lists the 20 components with what is left out of each, and 40
hazards at the lines where they bite. They are of few kinds: *check, then
write* (a decision on a row read earlier: administrator check, refresh token,
link, code), *two statements that should be one* (default flag, replacing links
and codes, reassign then delete), *stale copies* (token's role, cached access,
a tab's copy), *stops between statements*, and *sequences nobody tests*
(deactivate then activate, leave and rejoin, waive and reinstate around part
payments, delete then issue, Undo after another edit).

## 2. How the models correspond to the code

**Steps.** In the back end a step is the code between two awaits of a
statement: one Prisma call, with the checks on what it returned. `pc` of a
request names the await it is at. A read followed at once by a check is one
step with that check, since nothing else of the request happens in between. In
`Sessions` and `ParentCodes` a refusal that has written nothing is no step: it
would leave the state as it was. A statement the database rejects (foreign key,
row gone) ends the request and leaves what it wrote before. The front end's
store actions are synchronous: one step each.

**Data.** Ids are model values; a row that does not exist is `"Absent"`, or an
id outside the table. Permissions are a set holding the two marker permissions
the rules test and at most one more. Passwords, code digits and token secrets
are reduced to who has them: a client presents any id ever issued. Money in
`FeeLedger` is counted in tens, the unit fees are rounded to; due dates, the
derived Overdue label, names and notes are left out. History variables
(`ended`, `from`, `spent`, `wrong`, `signIns`, `shared`, `raced`, `numbered`,
`repeated`, `receipts`) record what a property relates to the past; no guard
reads them.

**StaffRoles.** `Guard` is `PermissionsGuard`, `Load` the reads and refusals of
each handler, `CheckAdmins` `assertAdminRemains`, and the actions of `Write`
its statements in order: `CreateRole`, `UpdateRole`, `ClearDefaults` and
`SetDefault` (`makeDefault`), `ReassignMembers` and `DeleteRole`, `Invite` and
`SendInvitation`, `UpdateStaff`, `RemoveStaff`. `PermsAfter`, `RoleOfAfter` and
`StatusAfter` are the pending change that `countActiveAdminsAfter` simulates.
The schema's constraints are in the writes: `Restrict` on a member's role,
cascade from a member to its links.

The founder may or may not be an owner. `isOwner` is set by provisioning and by
the migration `20260929101500_roles_as_data` only, the migration marks an owner
only where it finds one, and `backend/test/app.e2e-spec.ts:547` tests "the shape
an institute has if its founding account was never marked as owner"; so
`Owner = {}` is an institute the program can be in.

**Sessions.** `Refresh` is `consumeRefreshToken`; `EndAllOnReuse`, `Reread`,
`Issue`, `LinkRotation` what follows it; `Logout` and `Revoke` sign out;
`AskForLink`, `ReplaceLinks`, `MintLink` are `issueLinkToken` with its callers;
`OpenLink`, `ConsumeLink`, `WritePassword`, `EndAllOnReset` are `activate` and
`resetPassword`. `Abort` is a failing statement or a stopped process, at any
await, when `Failures` is TRUE. `ended[t]` says what has ended the session of
token `t`: `WritePassword` of a reset marks the live tokens `"resetting"` and
`EndAllOnReset`, when it ends them, `"reset"`, so that a reset promises nothing
before its last statement has run. `SharedTokens` says whether clients may present
one token in two requests at once.

**ParentCodes.** `InvalidateEarlier` and `CreateCode` are `issueNumericCode`;
`TypeCode`, `Compare`, `CountMiss`, `Accept`, `Burn` are `verifyNumericCode`;
`seen` is the attempts value read before the comparison. `shared` holds the
codes that two verifications have worked on at once, `raced` says that two
requests for a code have overlapped; the properties except exactly these two
cases. `PurgeExpired` is the
clean-up that deletes old rows; it may come any time after expiry, where the
code waits a day more.

**StoreRoles.** Each action is a screen's handler with the store action it calls:
its guard is what the screen offers (`AccessLocked`, `OwnRole`,
`AssignmentBlocked`) and what the store refuses (`MayAddRole`, `MayUpdateRole`,
`MayDeleteRole`). `Show` adds an Undo toast, `UndoDeleteRole` and
`UndoSetStatus` press it; `StoreUpdate` is `updateStaff`, which keeps the
administrator check and no other. A toast lives 4.5 seconds; nobody signs in or
out while one is shown.

**RoleRules** is the abstract specification: access alone, changed by an
administrator, never their own or the owner's, always leaving an
administrator. The mapping (`Access`) gives each active member the permissions
of their role, or all of them to the owner. `RulesKept` is the refinement.

**RollCall, Assessments, Syllabus.** The draft on the page is state, its roll is
computed from the store each time. `Save` and `Submit` write what the form
shows; `EditStudent`, `SetStatus`, `RemoveFromBatch` and their `Undo` are the
screens that change a roll. In `Syllabus` a topic form and an arrow renumber in
one step what the code does in one handler.

**PortalAccounts, SessionClient.** A call that waits and then reads is one step
taken at any later time; a request of the client is four (sent, headers, body,
settled), which the server, the network and the timer interleave.

**Setup.** A page is a path with the wizard's step; `RequireAuth`,
`LoginPage`, `RequireSetupDone`, `RequireSetupAccess` and `PinStep` are the
redirects, the other actions are clicks, taken when the page has settled.

**StudentImport.** `ReadKeys` is what an upload reads of the table, `Valid`
what it checks in memory, `Write` the transaction with the conflicts the
database ignores, `Fail` its rollback, `Forget` an answer that is lost or read.
`Folded` is what the check compares, roll numbers and cards without case, and
the table compares them as they are; a dry run checks and reports, and writes
nothing.

**Provisioning.** One action for each statement of a script; `script[s].pc` is
the next. `Crash` may take any of them; nothing resumes by itself: a script is
run again from its start. Both the file's and the script's copy of the registry
are state. `Apply` is one migration of a `prisma migrate deploy` (external):
other scripts, a stop or a failure (`Fails`) may come between two of them, and
what was applied stays applied. `Resolve` is either repair of
`backend/docs/OPERATIONS.md:196` and `DeployByHand` the deploy that follows it, or one that
outlives the script it was started by. `unrecorded` is a history variable: the
clients whose database moved when no step was left to record it. `MCProvisioning`
adds another, the clients repaired by hand while no script ran.

**Database.** A row is a key (institute, table, label and the rows its unique
key takes in) with the rows its columns refer to; nothing else of it is kept.
`Schema` has the references, `Required`, `Key`, `Restricted` and `SetNull` the
constraints as the migrations leave them; every other reference cascades.
`Accepted`, `Deletable`, `Cascaded` and `Delete` are what PostgreSQL does with
them (external). `Seed`, `Bootstrap` and `Load` are the scripts as sequences of
the rows each statement inserts, with one of everything that differs in what it
refers to; `BeginSeed` is the delete that the seed starts with, `RunStatement`
one statement, `ScriptStops` a stop. A request (`invite`, `removeStaff`, ...)
reads in one step and writes statement by statement in later ones, so what it
found may be gone by then. A deleted row's key is not used again (ids are
random). Notifications and the activity log have no writer at this commit,
batches no writer but the scripts.

**RoleMigration.** One step from any staff table of the old kind: applied whole
or refused.

**FeeLedger.** Each action is a store action; `Save` is `persist`, which writes
the tab's whole copy. `Admit` is `admissionInvoices`, `NewInvoices` the
numbering of `invoiceId`, `allocate` the split of the payment form. `Pay`
combines the form (unpaid invoices of one student, oldest first, at most their
total) with `recordPayments`. `Reload` is opening the page again. `ByScreen`
leaves out `deleteStudents` and `addInvoice`, which the store offers and no
screen calls.

**AttendanceViews, FeeViews, ResultViews.** Their steps are the few that change
what is shown (`SaveSession`, `IssueInvoice`, `RecordPayment`, `addAssessment`,
a student who leaves or is deleted, a day that passes), with any content; their
substance is one operator per screen, the figures it shows as a function of the
store, computed the way that screen's loops do. A rate is kept as the pair of
its numerator and denominator, so that agreement is exact and rounding, which
all screens do alike, does not hide a difference. Charts show the numbers that
the operators have. The calendar of `FeeViews` has months of two lengths, since
month-to-date comparisons clamp to the shorter one.

**Timetable.** `Open`, `GoToDate`, `SelectBatch`, `ShowAll` are what can be done
to the roll-call page's address; `Render` is React's effect that pins the class
found into the address after each change. `AddBatch` to `RestoreBatch` are the
batch's screens with the Undo toast. Days are numbered, hours are the unit of
time. The other operators are screens: `Packed` the grid's lanes, one pass
(`Laid` a block, `Place` its lane) over a column that `InOrder` has sorted; the
flag `fresh` is the code's `flush`. `FastAttendance` is
the roster's card; `Upcoming`, `NextOnHome` and `NextOnTimetable` the profile and
the portal.

**Lists.** One module for three screens; `Screen` says which, and with it which
statuses hide a row and which buttons there are. `Type`, `PauseEnds` and
`FollowAddress` are `DebouncedSearch`, `FollowLength` is `usePagination`'s
effect; both effects run after the screen has changed, and other events may come
between. `Filtered`, `Sorted`, `PageItems` are what a screen computes; `Store`
may refuse a change, for the reasons that `StoreRoles` has.

**DemoData.** One step for each part of the function, and one for each student
it seats; what it draws from its generator is a choice. Days are counted from 1
June, with the calendar's months; the seven students and the batches of the
design are the source's own.

## 3. Runs

A run marked *refuted* checks one sentence of a document or a comment that the
code, run as the model runs it, does not keep; section 5 has the sentences.

| Run | Instance | Shows |
|---|---|---|
| `roles` | 2 staff, 3 roles: no owner and 1 request at a time, every request; or an owner and 2 requests interleaved. Tables: the demo seed and a request, beside another institute; seed and bootstrap stopped and run again; bootstrap and load test, 3 runs; 2 requests overlapping; the migration over 3 members of 2 institutes. The demo institute: the design's rows on days from the first week of a year to its last; two batches in their first weeks; students drawn | an active administrator, at most one default, grants within the caller's access; under overlap an administrator, the Administrator role and the foreign key survive and the owner is untouched; institutes stay apart, can be deleted whole, and history goes only with its institute (`InstitutesKept`); scripts run again from any stop, the migration keeps everybody's role or is refused, and the demo institute is consistent whenever it is made (`TablesSound`) |
| `roles_reassign` | a clerk removes a role | refuted: moves within the caller's access |
| `sessions_serial` | a staff member and a parent with one address, 3 tokens, 2 links, 1 request that may fail or stop anywhere | a session ended by a reset or a reuse stays ended (`EndedStayEnded`), one live link per purpose, a link is spent once and only when consumed |
| `auth_overlap` | 2 codes, cap 2, 2 requests; or 3 tokens, 2 requests, no token in both | stale writes reopen no code; the cap, single use and replacement, except for a code shared or raced; one successor per token, an exchanged token is retired |
| `sessions_reset_race` | a refresh in flight | refuted: a reset ends every session |
| `codes_lost_attempt` | 2 wrong guesses together | refuted: the cap |
| `ledger` | 2 tabs and 2 months; or part payments of 2 invoices with concessions; or the store with deletions and manual invoices; registers of 2 batches on 3 days, 2 of them saved, or of one on 3; the invoices of 2 families over 4 days, or of one over 3; 2 tests of 2 batches, or of a class of 3; a column of 3 batches, 2 batches with the places they may share, the roll-call page over 2 days | no double billing and no overpayment in the copy on file, receipts kept in one tab, numbers unique on file; attendance, fees, results and the timetable are the same on every screen that shows them; the roll is not swapped, double bookings are warned of |
| `ledger_deleted` | the newest invoice's student deleted | refuted: numbers never repeat |
| `web` | roles of 3 staff without an owner, and of an owner with a batch; a register of 2 students and 2 dates; 3 topics in 2 chapters; an assessment of 2 students; a roster, one that is searched, a staff directory, a list of batches | roles in use exist, edits hand out only what the editor has, `RoleRules` is implemented with and without an owner, no record or mark is dropped, topics keep their order; lists show each row on one page, and what their tabs and boxes say (`ListsAgree`) |
| `services` | 2 requests of the client; a student's and a parent's login; 2 clients and a script; 2 uploads of 2 rows; the wizard for a manager and a teacher | refused tokens are gone, requests and redirects settle, credentials work once, revoked sessions end, the registry is accurate, uploads admit what they report |
| `import_duplicates` | 1 upload of 2 rows with batches | refuted: a student has the batches of the row admitted |
| `registry_repaired` | 1 client, 2 releases, repairs while no script runs | refuted: a rerun records the version of a client repaired by hand |

**Why the bounds are enough.** Each hazard above involves two requests, two
tabs, or one request and an administrator, so two requests or tabs reach it.
Two staff are what it takes for each administrator to remove the other; three
roles are the two system roles and one that can be created, edited, reassigned
and removed (an id is used again after a removal, so sequences are not cut
short), in the web app three staff let two edit while the third is edited.
Two tokens make a session and its successor, three a chain or a
second session; two links or codes make a replacement, and two accounts with
one address a replacement across accounts. The attempts cap is 2
instead of 5: the argument is about passing it by one. `MaxTries`
exceeds `MaxAttempts`, so that an
excess is visible. In `FeeLedger` two invoices and three part payments let a
payment end in the middle of an invoice and a waiver fall before or after it;
two months make a bill old. One toast at a time is enough for an Undo to come
after any number of other edits. Three topics are
what it takes to put one between two others; two dates, to save a register or a
paper before and after a student is on its roll; one register keeps its student
while another leaves. In the tables the chains of references are at most six long, and the demo's rows have each kind
of reference; one request beside the seed meets each of its fifty states. Two rows on
pages of one make a second page that the next change empties; the days of the demo's design lie in
the short and the long months, before and after a bill's grace period. Three releases let a
client be two behind, so that a deploy stops or fails between its migrations, and
a client be built at any of them; two runs of `client:create` make two clients, or
one again after a stop or a drop (a third run takes the run past its time). `Token`, `Link`, `MaxCodes` and the `Max...` bounds
of the ledger end histories: those runs turn deadlock checking off, because the
model stops where the system would go on; `web` and `services` hold bounded
parts of the same kind. The `StaffRoles` runs reuse ids and check deadlock.

**Symmetry and views.** Tokens, links, requests and tabs are only compared and
quantified over, so permuting them is sound; students and batches in
`FeeLedger` are numbered, since invoices are numbered in their order, and are
not symmetric; those of `AttendanceViews` and `ResultViews` are. `services` has liveness properties and no symmetry. `ledger`
looks only at the part that runs, and there leaves out the histories its
properties do not read (`VIEW MCView`); no guard reads them. `sessions_serial` leaves out which token replaced which, and
what was recorded of tokens and links that are dead (`VIEW Ahead`): a dead row
never lives again, refresh looks at no expiry of a revoked token, and the
properties of that run speak of live rows and of the writing of a password.

**Fairness and liveness.** The handlers of the back end are straight lines of
awaits that end in success or in an error: there is no retry, no queue, no
background job and no lock to wait for, so they make no promise that another
step must keep, and their modules state no fairness. What may be left undone is
modelled as a stop. The web app promises three things, each kept by one kind of
step that its runtime takes by itself, and only those are assumed (weakly)
fair in `services`:

* `Timeout(q)`: the timer of `http.ts:31` fires. `RequestsAndRedirectsSettle`: every request
  settles, whether or not the server ever answers; no answer is assumed. This
  leans on the timer staying armed until the body has been read.
* `EndRevoked`: React runs the effect of a guard it has rendered
  (`router.tsx:76`). `RevokedSessionsEnd`: whoever is signed in to a disabled
  account is signed out.
* `Redirect`: React renders the page a `Navigate` or an effect names.
  The same property: the guards' redirects come to an end.

No user, server, network or operator is assumed to act.

## 4. Proofs

All of section 4 holds for every value of the constants that meets the named
assumptions of the modules (ids distinct from `None`, markers among the
permissions, bounds natural numbers) and the hypotheses a theorem names. Where a
variable holds a record or `None`, the hypothesis is that `None` is no such
record (`NilIsNone`, `NilIsNoTopic`, `NullIsNoBatch`, `NullIsNoAnswer`,
`NullIsNoLogin`, `NullIsNoRecord`, `NullIsNoStudent`); the code has `null`,
`undefined` or no row there.

**StaffRoles.** `TypeCorrect`: `Spec => []TypeOK`. `TypeOK` is not inductive
alone: a write uses the body its request arrived with, so `Typed` adds
`Requests`, that a busy client has a well-formed command and a known caller.

`OwnerKeepsAdmin`: when the founder is an owner, `[]HasActiveAdmin`, whatever
overlaps. The invariant `FounderSafe` says that the founder is active and that
no request past its checks would set another status for, or delete, an owner;
the checks that refuse both are made on `isOwner`, which nothing changes, so
they cannot go stale.

`SerialKeepsAdmin`: with `MaxInFlight = 1` and finitely many clients,
`[]HasActiveAdmin` without an owner. `OneAtATime` says that two busy clients
are the same; `Remains` says that there is an administrator and that a request
past its check leaves one (its promise still holds when it writes, because
nothing else has written; `ActivateRemains` covers the opening of an
invitation, which only adds). One of the two hypotheses is needed: with
`Owner = {}`, two clients and `MaxInFlight = 2` TLC finds two administrators
demoting each other (section 5).

`RolesSurviveOverlap` and, with an owner, `OverlapsSafe`
hold with any overlap; `OverlapsKept` (`ServicesProofs`) is the latter of the
instance that `roles` runs (`OverlapsKeepRoles`): its text is that of the
instance that has the theorems, so its steps are theirs. `RolesSound` is the invariant: what a request past its
checks may still write (`Careful`: a system role is not removed, the
Administrator role keeps its markers, an owner is not touched) rests on what
never changes, so no other request makes it stale. `NoOrphanedStaff` needs the
schema: a role is deleted only while nobody has it. `SerialDefault`
(`[]AtMostOneDefault`) and `SerialGrants` (`GrantsWithinAccess`) are of one
request at a time: `Unshared` says that between clearing and setting the only
default can be the one about to be set, `WithinAccess` that a decided grant lies
within the access read and the role's powers, which nothing has written since.

**Sessions.** `TypeCorrect`; `Typed` adds `Named`, that a request past its
first read names an account and the row it is about. `SpentLinksConsumed`:
`[]SpentIsConsumed` with any interleaving and with failures, since a request
reaches `writing` only over `ConsumeLink`. `RotationRetires`: without failures,
`[]RotatedIsRetired`; it needs `SameAccount`, that a token and its predecessor
belong to one account, so that the predecessor's row is there when the
successor's is.

`TokensExchangedOnce`: `[]ExchangedOnce` without failures and without two
requests that hold one token. `Exchanged` says that a token with a successor is
revoked, gone, or about to be linked by its one request; `FirstExchange`, that a
request on its way to an exchange has a token without successor. Both hypotheses
are needed (section 5); `RotationOnce` (`ParentCodesProofs`) is the same of the
instance that `auth_overlap` runs, which meets them. With one request at a time (`Alone`), and failures
allowed: `EndedSessionsStayEnded` (`UnendedWork`: nothing live, and no request at
work, belongs to an ended session), `NewestLinkOnly` (`Replaced`: who mints a
link has replaced the others of that address and purpose), `LinksSpentOnce`
(`Unspent`: a link being consumed was not spent).

**StoreRoles** (`WebProofs`). One invariant, `IInv`, carries four theorems: `RolesExist`
(`[]RolesInUseExist`), `AdminsRemainForever` (`[]AdminsNeverGone`),
`PowersKept` (`RolesGainOwnPowers`) and `RulesImplemented`, the refinement
`Spec => RulesKept`, for every number of staff, roles and permissions and
every set of owners. `IInv` adds to the types that whoever is signed in and the
owner are active, that a role in use exists, that an administrator remains, and
what an Undo toast knows when it was shown (`ToastsSafe`: a toast about a
member names neither the person signed in nor an owner, since pressing it
repeats a write the screen had checked for somebody else). A step of the store
is then matched against `RoleRules`: an operation either changes nobody's
access, or satisfies `ChangeAccess`. Taking `s = me` out of `AccessLocked`
makes the proof fail, as it makes the run fail.

**FeeLedger.** `BilledOnce`: when `ByScreen`, `[]NoDoubleBilling`. The
invariant `AllClean` says that *every* copy, each tab's and the stored one, has
no two invoices for a student, batch and month: what is saved is some tab's
whole copy, so the property of the stored one alone is not inductive.
`BillClean` is the heart: bills for pairs that were not billed keep a copy
clean; admission, re-enrolment and monthly issue are instances of it, and
`WaiveClean` covers the waiver. It needs nothing about numbers: the property
holds even where numbers repeat.

`NumbersStayUnique`: `AllNumbered`, again of every copy, since each copy takes
the next number from its own greatest; a bill's number is that greatest plus its
rank among the bills issued together (`RankOf`). `LedgerTyped` and
`NobodyOverpays` come from `AllSound`: each copy is well formed, each payment
names an invoice of its student, and what was received on an invoice is at most
its amount. A payment over several invoices is the hard step: the part
for each is cut at what is left after the older ones, and the sum of the new receipts
of one invoice is at most its balance. Sums are folds over sets; the provers
cannot use the library's induction for them, so a fold is shown to be `SumOf`,
and for each fact a smallest set is taken for which it fails.
`ReceiptsStay`: `[]ReceiptsStand`, which is the above and that in one tab no
receipt is lost; the copy in memory and the stored one then keep every receipt
handed out (`Kept`). With two tabs the later writer drops the other's receipts,
so the property speaks of one tab.

**AttendanceViews** (`ScreensProofs`). `RegistersTyped`, and `AttendanceFiguresAgree`:
`[]AttendanceAgrees`, for any roster, batches, days and windows. Typing is the
whole inductive invariant, the rest is about the figures of one state. Every
screen groups the entries of some registers, a mark of a student each (`Book`),
and counts them; so the lemmas say which entries a screen takes (`SeenIs`,
`OwnIs`, `OwnGroup`) and that the counts of groups that share nothing add up to
the count of the whole (`PartsCount`, `TotalOfParts`). That is an induction over
finite sets, done as above: a smallest set for which it fails has a member, and
without it the sum is right. The roll call finds streaks by one backward pass
over the registers, the other screens by filtering: `StateWalks` is a pass that
keeps the runs since a student last came, `OneWalk` that there is no other. The
flags need the assumption `RoundingHarmless`: the back end rounds a rate to a
tenth of a percent before it compares, the web app does not, so that a threshold
of 63 with 17 of 27 classes attended is below on one side only. It holds where
the threshold is 75, the product's default, and fewer than 500 classes are
looked at (`DefaultIsHarmless`).

**FeeViews** (`ScreensProofs`). `BillsNumbered`, and `FeeFiguresAgree`: `[]FeesAgree`, for any
students, batches, campuses, amount, due and grace days and any calendar whose
long months have at least two days. The invariant (`AllBills`) is that numbers name
one bill and one payment, a payment is of a bill of its own student, and none is
dated after today; without the second the portal, which reads one student's
payments only, would not come to the office's sums (`PortalIs`). The
sums are again folds over sets: `OwedByKey` adds what is due by any key of
the bills (student, batch), `SumParts` what was received by month, bill and
receipt, `SumRenamed` turns the sum over the shown bills into one over the
invoices. Month to date: `MonthIs` says that the days of a month are those from
its first to the next one's, for months of two lengths, so that the overview,
which compares months and days of months, and the dashboard, which compares
dates, take the same payments, and the clamp of the dashboard to a shorter month
changes nothing. Of the bills next due (`NextIs`): whoever has something unpaid has one,
as late as any bill of theirs, because lateness only falls with the due date.

**ResultViews** (`ScreensProofs`). `TestsNumbered`, and `ResultFiguresAgree`: `[]ResultsAgree`, for
any students, batches, subjects, days, full marks above zero and scores up to
them. The invariant (`AllTests`, with `PapersInv`) is that a number names one
test and that a roll has only students with a score or an absence within the
full marks; it says nothing of who is on file, so that the figures agree
whoever left or was deleted. All of them are made of scripts, pairs of a test
and one who sat it: the table adds them by test, the index by student, the chart
by month, the portal by subject, and `HeadingsAddUp` says that any heading under
which each script falls once gives the same total. `GradeIs` goes through the
bands: whoever has sat a test has one letter, and the two lowest are those below
the lines the report counts. A ranking is a recursive function over the places
of an order, best first; `FallingExists` is that a finite set has such an order
(by a smallest set without one, whose lowest member goes last), `FirstStep` and
`RankIsFirst` that a rank is the first place of its score, from which
`RanksAlike` counts who did better. `ToggleKeeps` is about the colours: the slots
hold each batch once, and only the one that is toggled changes.

**ParentCodes.** Five theorems, for any number of codes, any cap and any finite
set of requests: `TypeCorrect`, `GuessesCapped`, `SignsInOnce`, `OnlyNewest`,
`ConsumedStays`. Their subject is what a verification still knows when it
writes, since it read the row before it awaited the comparison. `Within` says
that it read a row with attempts left; `Sole`, that it is the only one at work
on its row unless the row is `shared`; `Counted`, that what it read is then
still the count in the row, so the count follows the wrong guesses; `UsedUp`,
that a count at the cap, or a sign-in, has consumed the row. `Single` carries
`OnlyNewest`: unless two requests were `raced`, one request issues at a time,
nothing is usable while it creates, and a row reopened by a late write would
be a second usable one. The two exceptions are needed, as `codes_lost_attempt`
shows of the first.

**RollCall, Assessments** (`WebProofs`). `RecordsSurvive`: `RecordsKept`. The
invariant is that the draft on screen already has everybody recorded for its
batch and day. It is needed because the roster is read again at each step: what
is saved is the draft's marks of the roll, and the roll has who is recorded
besides who is admitted.

**Syllabus.** `SyllabusStaysInOrder`: `[]SyllabusInOrder`. Distinct numbers alone
are not inductive with whole chapters: a new topic goes behind the last of its
chapter and the rest move up by one (`Shifts`), which splits no chapter only
because chapters were whole; a swap exchanges the numbers of neighbours, who are
of one chapter (`SwappedInOrder`); a deletion leaves a gap (`DroppedInOrder`).

**Timetable** (`ScreensProofs`). `TimetableStaysKept`: `TimetableKept`, for any forms, clock and
number of batches. Its invariant is that the address of an open roll call names
the class in view whenever there is one (`Names`). The class that a day opens by
itself is one of its list, because a finite list has a first and a last class in
the order by time and number (`SomeFirst`, `SomeLast`, again by a smallest list
without one); what is pinned can be asked for again; and adding, saving and Undo
take away nothing that can be asked for on that day (`Grown`, `ViewStays`).
Warnings: a pair that meets in a day at an hour is what `FindClashes` looks for,
and only the archive's two ways back add a pair past it.

`TimetableFiguresAgree`: `[]TimetableAgrees`, for any forms whose classes end
after they start (`ClassesGiven`), any week, clock and number of batches; `Null`
is neither a batch's number nor a record the dashboard's card shows. Its invariant adds to
the types what days and hours the clock, the batches and the registers can have (`TimesInv`).
The rest is about one state:

* *The grid* (`ColumnsApart`). A column has a sorted list of its blocks
  (`RowExists`, by a smallest list; `OneIsLast`). The pass over it keeps `Knows`:
  the lanes of a cluster are `1..n`, each ends when the last block laid in it
  does, and a new cluster begins where every earlier block is over. So blocks
  that overlap are of one cluster, and the later one found the other's lane taken
  (`NextBlock`, `InLanes`). That no lane is wasted is `WidestMoment`: when the
  first block in the last lane was laid no other lane was free, so at its start
  every lane of the cluster holds a block that is on.
* *The card* (`CardOpens`). The dashboard looks for what is in progress, the roll
  call for the first class live, then the others; `CardCovers` and `OpenedToday`
  say that both take the first by time of the same classes.
* *The family* (`FamilySees`). A class meets at most a week from now
  (`FirstWithinWeek`), so the profile, which looks a week ahead, and the portal,
  which looks two, find the same one; two orders by time agree where nothing is
  marked (`UnmarkedOrder`).
* *The workload* (`WorkloadSum`). Batches and registers have one teacher each;
  hours and classes added by teacher are those added by batch or register
  (`ByKeySums`, `ByKeyCounts`).

**SessionClient, PortalAccounts, Provisioning, StudentImport** (`ServicesProofs`).
`RefusedTokensStayGone`: a sign-in whose answer is on its way holds a token
nobody has yet (`Fresh`), so it cannot bring back one that was refused.
`CredentialsUsedOnce`: each account has at most one link and one code, no two
places hold one credential, and none of these is spent (`Current`); reading any
of them on another page changes nothing of that. `RegistryStaysAccurate`, with
one script at a time (`OneScript`) stopped or failing anywhere, between two
migrations of a deploy too, and any migration resolved or deployed by hand
meanwhile: `Doing` says what a script
has done by each of its points, for instance that a password it made is the role's
before it registers, and that the copy of the registry it read is the registry.
The version a deploying script read before (`script[s].version`) tells whether it
leaves anything applied behind (`LeftBehind`), and a migration left half done is
one still to be applied (`TypeOK`), so resolving it never passes the release.
The property names the gaps the code leaves open (`unrecorded`) and shows
that there is no other; section 5 says what the documents expect of them.
Without `OneScript` it is false (section 5). `ImportsAdmitWhatTheyReport`: the
transaction writes every row the check found valid, or, when another upload has
taken one of their keys since, none; with any overlap.

**Database.** `InstitutesStayApart` (`ServicesProofs`): `InstitutesKept` of the
instance `Tables`, from `RowsSound`, `RowsTyped`, `RowsApart` and `RowsKept`
(`DatabaseProofs`), the text of the two instances being the same, definition by
definition. They hold for any institutes there from the start, any scripts, any
number of runs and of requests at once. That no reference dangles is not
inductive: a request or a script inserts what it read long before, so `Sound`
also says that each statement still to come is of whole rows (`Carried`,
`ScriptSound`; a row is whole when what it refers to is a key of its institute
and of the right table), and that every row's institute is on file (`DbSound`).
Whether what an insert refers to is still there is the database's check, and
only that. `InstituteClosed`: then what goes along with an institute's rows is
just these, since every reference stays within. `LooseTables` is the other half:
the rows a request deletes are members, roles and what cascades from them, and
the foreign keys of the rest of the schema either cascade from an institute only
or restrict; taking `batches.facultyId` out of the restricting ones makes the
proof fail, as it makes the run fail. `StatementsSeries` unfolds the scripts, all
of the seed's 27 statements, the bootstrap's 6 and the generator's 13.

**Only model-checked.** The type invariants of whole runs (`AllTypesOK`
asks each part for its own, and many parts' own are proved above), `Lists` (`ListsAgree`: the pages of a sorted sequence), `Setup`, that scripts
can be run again (`ScriptsRunAgain` of `Database`), `RoleMigration`, `DemoData` (in `TablesSound`) and the rest of `SessionClient` and
`PortalAccounts`, which is liveness. In `Sessions` and `StaffRoles` the exact
exceptions under overlap are model-checked; the theorems have them as hypotheses.
Liveness under fairness, ENABLED, and what a recursive
definition computes for every input cannot be proved with the provers used and
stay with TLC; no module declares a RECURSIVE operator.

## 5. Where the code and its documents disagree

Six runs are refuted; each counterexample is a legal sequence of calls, and
`PROJECT.json` quotes the sentence and its line.

* *A non-owner may only assign a role whose capabilities they already hold*
  (`roles.service.ts:255`): `remove` with `reassignTo` does not check it
  (`roles_reassign`).
* *A password change ends every existing session* (`auth.service.ts:379`): a
  refresh in flight has passed its check before the reset and creates its token
  after it (`sessions_reset_race`).
* *A 5-attempt cap* (`otp.service.ts:7`): guesses compared at the same time
  write the same count (`codes_lost_attempt`).
* *Invoice numbers never repeat* (`dataStore.ts:225`): the highest number on
  file is not the highest ever issued (`ledger_deleted`).
* *Pure per-row check* (`bulk-import.ts:69`): the import's check records each
  row's batches under its roll number, also for a row that is rejected as a
  duplicate afterwards, whose batches the earlier student then gets
  (`import_duplicates`).
* *Afterwards, rerun `clients:migrate -- --only <CODE>` so the registry records
  the new version* (`backend/docs/OPERATIONS.md:212`): a client repaired by hand is up to
  date, and one that is gets no record (`clients-migrate.ts:164`, `:72`). Its
  record stays behind until the next release (`registry_repaired`).

Others of the same kinds were met while modelling. They bound what the passing
runs claim, and are seen by changing one constant or one hypothesis:

* *An active administrator always remains* (`roles.service.ts:15`): two
  overlapping demotions each pass the check when there is no owner
  (`roles` with `Owner = {}` for the overlapping requests).
* *Exactly one default role* (`roles.service.ts:330`): clear and set are two
  statements (`AtMostOneDefault` with two requests).
* *A non-owner grants only what they hold* (`API.md:120`): a permission taken
  away while an edit was in flight is written back (`GrantsWithinAccess` with
  two requests: a clerk's edit of a role that the owner edits meanwhile).
* *A non-owner may not edit the role they are assigned to* (`API.md:125`): the
  token's role is compared, and a token may be older than the last change of
  role, so it may be the caller's current role that is edited.
* *Inactive ends access* (`staff.service.ts:202`): opening an invitation sets
  an Inactive member Active.
* *A refresh token is exchanged once* (`tokens.service.ts:117`): two requests
  with one token both pass (`auth_overlap` with `SharedTokens = TRUE`).
  *Reuse of a rotated token* (`tokens.service.ts:135`): a signed-out token
  counts as reuse too.
* *A link cannot be replayed* (`otp.service.ts:194`), *only the newest works*
  (`otp.service.ts:60`, `:147`), *a code is single-use* (`API.md:304`): each is
  a read, an await and a write (`sessions_serial` with two requests; the
  exceptions in the properties of `auth_overlap`).
* A second tab numbers its invoices from its own copy, so two tabs issue one
  number (`NumbersNeverRepeat` with two tabs).

In the web app and the scripts:

* *Nobody may grant a permission they don't hold themselves*
  (`domain/roles.ts:11`): the wizard's team step offers and assigns any role
  (`TeamStep.tsx:73`), and `addStaff` checks none.
* The two sides define an administrator differently: `faculty.manage` alone in
  the web app, with `settings.manage` in the back end.
* A parent's code is accepted after the account was disabled (`portalAuth.ts:157`
  does not look at the status); the guard then ends the session. A Disabled
  account comes back by a reset link, Enable makes a never activated account
  Active, each of the two link pages takes either kind of link, and a guardian
  who changes phone leaves the old login linked.
* A late 401 signs out a session it does not belong to, and an answer whose body
  is cut off settles without data (`http.ts:46`).
* Setup can be finished without its required steps (`?step=done`), and a
  deferral outlives a sign-out in one tab (`setupStatus.ts:187`).
* A batch that was archived, then lost its teacher, is restored with a teacher
  who is no longer on the staff (against the comment at `dataStore.ts:662`).
* A saved register moves the coverage only of topics that have a coverage row.
* A fleet migration that stops inside a client leaves that client's record
  behind its database (`clients-migrate.ts:70`), and so does a deploy that
  fails after some of its migrations (`:72`) or that succeeds when the version
  cannot be read back; running it again does not mend the record. Overlapping scripts lose each
  other's registry entries; `client:create` refuses the database that a stopped
  run of it left, so a retry starts with `client:drop --skip-backup`.
* The import folds the case of roll numbers and cards, the database does not.
* The portal's home page counts "late" as attended whatever the setting
  (`PortalHomePage.tsx:252`); the portal's history leaves out batches the student
  left (`usePortal.ts:66`), although `usePortalDerived.ts:82` says it keeps them.
  `PortalAgrees` speaks of families that left no batch.
* The dashboard flags low attendance from 4 classes on, the report it links to
  from 3, so the link may show more students than the tile; the back end rounds to a tenth of
  a percent before it compares, so it may flag fewer at the edge. `FlagsAgree`
  has the direction that holds.
* Saving a register again overwrites `markedAt`, so a class marked on time counts
  as late once it is corrected on a later day (`useWorkload.ts:35`). The portal
  treats a class's closing minute as over, the office as live. Restoring a batch,
  and Undo of an archive, warn of no double booking.
* The performance report's "last 30 days" are 31 (`usePerformance.ts:133`).
* The dues tile counts students with anything pending, the list it opens only
  those with nothing overdue. What was paid on an invoice before it was waived
  counts as paid and not as billed.
* Typing the same search again within the pause after Reset leaves a box whose
  text the list is not filtered by (`DebouncedSearch.tsx:20`); Enter in the top
  bar within its pause opens a result of the text before.
* Bulk Archive acts on the selected rows that a filter hides since, ID cards,
  reminders and export on those listed, and export with none of them on the whole
  list (`StudentsPage.tsx:85`). The roster says that there are no students yet when all are
  inactive.
* The demo data made in early June to mid-July, or in the first days of March,
  has not the fee states of its design: its fifth student has fewer than two
  invoices, or one overdue only. Its notification of "Two monthly invoices"
  past the grace period and `seed.test.ts`, which looks at 22 September, hold on
  other days. The model's `FeesAsDrawn` asks for what holds on all.
* In the demo data, a batch that met less often than it has topics finished has
  topics completed without a class; the upcoming course double-books its teacher;
  payments are collected in part by a member without `fees.collect`.
* The web app's billing day is not capped at 28, the back end's is.
* The migration to roles selects `DISTINCT gen_random_uuid(), ...`, which makes no
  two rows equal: with two accountants, or two at the front desk, in one institute
  the unique key refuses it, against its header (`Backfilled` has both cases).
* The demo seed runs in no transaction (`seed.ts:501`): stopped half-way it leaves
  part of an institute, which the next run deletes.
* A tenant-scoped update does not look at a `tenantId` among the data it writes
  (`prisma.service.ts:9`).

## 6. Not modelled

* **Tenancy.** The query rewriting is a pure function of one query, and a
  specification of it would be its own case table; the cache promises only that
  a change shows within a minute.
* **Pagination.** No endpoint walks pages with it at this commit.
* **Mail, SMS, hashing, throttling**: libraries behind an await, which the models
  have. **Configuration, logging, health**: no state. **Load testing**: the
  generator is in `Database`, the measurements are not.
* **The content of the web app's demo data**: names, amounts, marks, the activity
  log and notifications.
* **Details no property depends on**: a change of a member's e-mail address and
  Invited set to Inactive (`Sessions`), the deletion of a student, which no screen
  does (`Assessments`), a payment dated in the past (`FeeViews`).
* **Layout, wording, drawing and exports** of the screens: the larger part of the
  front end's lines, on which no figure and no step depends.

What would come next: that a script can be run again, proved of any stop;
a theorem for the refinement of one-time tokens (issue, spend) by links and
codes one request at a time; the pages of `Lists`.
