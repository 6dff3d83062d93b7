----------------------------- MODULE Provisioning -----------------------------
(***************************************************************************)
(* The operator's scripts (backend/scripts): client:create makes a client's *)
(* role, database and institute, clients:migrate rolls a release out, and   *)
(* client:drop takes a client away.  The registry is a file each script     *)
(* reads when it starts and writes back from its own copy.  A script may    *)
(* stop between any two statements, and is then run again by hand.          *)
(*                                                                         *)
(* A password is the number of the run that made it.  The demo seed, dry    *)
(* runs and the text printed are left out; connection strings are kept in   *)
(* the registry file (--secrets file).                                      *)
(* Op_Fault is Op with one fault, to show that a property depends on Op.    *)
(***************************************************************************)
EXTENDS Naturals

CONSTANTS
  Client,            \* institute codes
  Script,            \* scripts that may run at the same time
  MaxVersion,        \* bound on the releases
  MaxRuns,           \* bound on the number of client:create runs
  None

(* How far a database has come: each stage and the one after it. *)
After == [open |-> "shut", shut |-> "migrated", migrated |-> "tenant", tenant |-> "campus",
          campus |-> "roles", roles |-> "owner", owner |-> "ready"]
Stage == DOMAIN After \cup {"ready"}

VARIABLES
  db,            \* each client's database: stage, version, a failed migration
  role,          \* the password of each database role
  registry,      \* password and last recorded version of each client
  release,       \* the last migration on disk
  script,        \* what each running script is about to do
  runs,          \* client:create runs so far
  unrecorded     \* clients whose database moved with nothing to record it

vars == <<db, role, registry, release, script, runs, unrecorded>>

Init ==
  /\ db = [c \in Client |-> None]
  /\ role = [c \in Client |-> None]
  /\ registry = [c \in Client |-> None]
  /\ release = 1
  /\ script = [s \in Script |-> None]
  /\ runs = 0
  /\ unrecorded = {}

At(s, pc) == script[s] # None /\ script[s].pc = pc
GoTo(s, pc) == script' = [script EXCEPT ![s].pc = pc]
Ends(s) == script' = [script EXCEPT ![s] = None]
Connects(c, password) == db[c] # None /\ role[c] = password
Unrecorded(C) == unrecorded' = unrecorded \cup C

(* An operator starts a script; its copy of the registry is read here. *)
Start(s, c, pc, password, keepRole) ==
  /\ script[s] = None
  /\ script' = [script EXCEPT ![s] =
       [client |-> c, pc |-> pc, password |-> password, keepRole |-> keepRole,
        copy |-> registry, todo |-> {}, version |-> 0]]
  /\ UNCHANGED <<db, role, registry, release, unrecorded>>

(* The client a script leaves behind its database when it stops or fails.   *)
LeftBehind(s) ==
  LET c == script[s].client
  IN IF \/ At(s, "record")
        \/ At(s, "deploy") /\ db[c] # None /\ db[c].version # script[s].version
     THEN {c} ELSE {}

Crash(s) ==
  /\ script[s] # None
  /\ Ends(s)
  /\ Unrecorded(LeftBehind(s))
  /\ UNCHANGED <<db, role, registry, release, runs>>

Release ==
  /\ release < MaxVersion /\ \A s \in Script : script[s] = None
  /\ release' = release + 1
  /\ UNCHANGED <<db, role, registry, script, runs, unrecorded>>

-----------------------------------------------------------------------------
(* prisma migrate deploy, of a database being built and of a client's: one  *)
(* pending migration after the other, each in a transaction of its own.     *)

Reaches(s) ==
  LET c == script[s].client
  IN \/ At(s, "build") /\ db[c] # None /\ db[c].stage = "shut" /\ Connects(c, script[s].password)
     \/ At(s, "deploy") /\ Connects(c, script[s].copy[c].password)

Apply(s) ==
  LET c == script[s].client
  IN /\ Reaches(s) /\ ~db[c].failed /\ db[c].version < release
     /\ db' = [db EXCEPT ![c].version = @ + 1]
     /\ UNCHANGED <<role, registry, release, script, runs, unrecorded>>

(* A deploy that fails keeps what it applied, and may leave the migration   *)
(* it failed in half done, which blocks the next deploy.                    *)
Fails(s) ==
  LET c == script[s].client
  IN \/ UNCHANGED db
     \/ Reaches(s) /\ db[c].version < release /\ db' = [db EXCEPT ![c].failed = TRUE]

-----------------------------------------------------------------------------
(* client:create *)

StartCreate(s, c) ==
  /\ runs < MaxRuns /\ runs' = runs + 1
  /\ registry[c] = None
  /\ Start(s, c, "check", runs + 1, FALSE)

CheckDatabase(s) ==
  /\ At(s, "check")
  /\ IF db[script[s].client] # None THEN Ends(s) ELSE GoTo(s, "role")
  /\ UNCHANGED <<db, role, registry, release, runs, unrecorded>>

(* A role left over from an earlier run gets this run's password. *)
CreateRole(s) ==
  /\ At(s, "role")
  /\ role' = [role EXCEPT ![script[s].client] = script[s].password]
  /\ GoTo(s, "database")
  /\ UNCHANGED <<db, registry, release, runs, unrecorded>>

CreateDatabase(s) ==
  LET c == script[s].client
  IN /\ At(s, "database")
     /\ IF db[c] # None THEN Ends(s) /\ UNCHANGED db
        ELSE /\ db' = [db EXCEPT ![c] = [stage |-> "open", version |-> 0, failed |-> FALSE]]
             /\ GoTo(s, "build")
     /\ UNCHANGED <<role, registry, release, runs, unrecorded>>

(* The next stage: shut the public out, then the institute's rows in order. *)
Build(s) ==
  LET c == script[s].client
  IN /\ At(s, "build")
     /\ IF db[c] = None THEN Ends(s) /\ UNCHANGED db
        ELSE /\ db[c].stage \notin {"shut", "ready"}
             /\ db' = [db EXCEPT ![c].stage = After[@]]
             /\ GoTo(s, IF db'[c].stage = "ready" THEN "register" ELSE "build")
     /\ UNCHANGED <<role, registry, release, runs, unrecorded>>

FirstDeploy(s) ==
  LET c == script[s].client
  IN /\ At(s, "build") /\ db[c] # None /\ db[c].stage = "shut"
     /\ \/ /\ Reaches(s) /\ db[c].version = release
           /\ db' = [db EXCEPT ![c].stage = "migrated"]
           /\ script' = [script EXCEPT ![s].version = release]
        \/ Ends(s) /\ Fails(s)
     /\ UNCHANGED <<role, registry, release, runs, unrecorded>>

Register(s) ==
  LET c == script[s].client
  IN /\ At(s, "register")
     /\ registry' = [script[s].copy EXCEPT ![c] =
          [password |-> script[s].password, version |-> script[s].version]]
     /\ Ends(s)
     /\ unrecorded' = unrecorded \ {c}
     /\ UNCHANGED <<db, role, release, runs>>

-----------------------------------------------------------------------------
(* client:drop *)

StartDrop(s, c, skipBackup, keepRole) ==
  /\ registry[c] # None \/ db[c] # None
  /\ skipBackup \/ registry[c] # None
  /\ Start(s, c, IF skipBackup THEN "drop" ELSE "dump", None, keepRole)
  /\ UNCHANGED runs

(* No backup, no drop: pg_dump needs the database and the password on file. *)
Dump(s) ==
  LET c == script[s].client
  IN /\ At(s, "dump")
     /\ \/ Connects(c, script[s].copy[c].password) /\ GoTo(s, "drop")
        \/ Ends(s)
     /\ UNCHANGED <<db, role, registry, release, runs, unrecorded>>

DropDatabase(s) ==
  /\ At(s, "drop")
  /\ db' = [db EXCEPT ![script[s].client] = None]
  /\ GoTo(s, IF script[s].keepRole THEN "deregister" ELSE "dropRole")
  /\ UNCHANGED <<role, registry, release, runs, unrecorded>>

DropRole(s) ==
  /\ At(s, "dropRole")
  /\ role' = [role EXCEPT ![script[s].client] = None]
  /\ GoTo(s, "deregister")
  /\ UNCHANGED <<db, registry, release, runs, unrecorded>>

Deregister(s) ==
  /\ At(s, "deregister")
  /\ registry' = IF script[s].copy[script[s].client] = None THEN registry
                 ELSE [script[s].copy EXCEPT ![script[s].client] = None]
  /\ Ends(s)
  /\ unrecorded' = unrecorded \ {script[s].client}
  /\ UNCHANGED <<db, role, release, runs>>

-----------------------------------------------------------------------------
(* clients:migrate *)

StartMigrate(s, only) ==
  LET targets == {c \in only : registry[c] # None}
  IN /\ script[s] = None /\ targets # {}
     /\ script' = [script EXCEPT ![s] =
          [client |-> None, pc |-> "next", password |-> None, keepRole |-> FALSE,
           copy |-> registry, todo |-> targets, version |-> 0]]
     /\ UNCHANGED <<db, role, registry, release, runs, unrecorded>>

(* The next client: an unreachable or half-migrated database is passed over, *)
(* and so is one that is up to date, without a look at its record.           *)
NextClient(s) ==
  /\ At(s, "next")
  /\ IF script[s].todo = {} THEN Ends(s)
     ELSE \E c \in script[s].todo :
            LET pending == /\ Connects(c, script[s].copy[c].password)
                           /\ ~db[c].failed /\ db[c].version < release
            IN script' = [script EXCEPT
                 ![s].todo = @ \ {c}, ![s].client = c,
                 ![s].pc = IF pending THEN "deploy" ELSE "next",
                 ![s].version = IF pending THEN db[c].version ELSE @]
  /\ UNCHANGED <<db, role, registry, release, runs, unrecorded>>

(* The version is read back after the deploy; if that fails, the one read   *)
(* before is taken for it.                                                  *)
Deployed(s) ==
  LET c == script[s].client
  IN /\ At(s, "deploy") /\ Reaches(s) /\ db[c].version = release
     /\ \E v \in {release, script[s].version} :
          /\ script' = [script EXCEPT ![s].pc = "record", ![s].version = v]
          /\ Unrecorded(IF v = release THEN {} ELSE {c})
     /\ UNCHANGED <<db, role, registry, release, runs>>

(* Nothing is recorded of a deploy that failed, whatever it applied.        *)
DeployFails(s) ==
  /\ At(s, "deploy")
  /\ GoTo(s, "next") /\ Fails(s)
  /\ Unrecorded(LeftBehind(s))
  /\ UNCHANGED <<role, registry, release, runs>>

Record_AfterLast(s) ==
  LET c == script[s].client
      copy == IF script[s].copy[c] = None THEN script[s].copy
              ELSE [script[s].copy EXCEPT ![c].version = script[s].version]
  IN /\ At(s, "record")
     /\ registry' = IF script[s].todo = {} THEN copy ELSE registry
     /\ script' = [script EXCEPT ![s].copy = copy, ![s].pc = "next"]
     /\ unrecorded' = IF script[s].version = release THEN unrecorded \ {c} ELSE unrecorded
     /\ UNCHANGED <<db, role, release, runs>>

Record(s) ==
  LET c == script[s].client
      copy == IF script[s].copy[c] = None THEN script[s].copy
              ELSE [script[s].copy EXCEPT ![c].version = script[s].version]
  IN /\ At(s, "record")
     /\ registry' = copy
     /\ script' = [script EXCEPT ![s].copy = copy, ![s].pc = "next"]
     /\ unrecorded' = IF script[s].version = release THEN unrecorded \ {c} ELSE unrecorded
     /\ UNCHANGED <<db, role, release, runs>>

-----------------------------------------------------------------------------
(* By hand: prisma migrate resolve, --rolled-back or --applied, after a     *)
(* failed migration, and prisma migrate deploy, one migration at a time.    *)

Resolve(c) ==
  /\ db[c] # None /\ db[c].failed
  /\ \/ db' = [db EXCEPT ![c].failed = FALSE] /\ UNCHANGED unrecorded
     \/ /\ db' = [db EXCEPT ![c].failed = FALSE, ![c].version = @ + 1]
        /\ Unrecorded({c})
  /\ UNCHANGED <<role, registry, release, script, runs>>

DeployByHand(c) ==
  /\ db[c] # None /\ ~db[c].failed /\ db[c].version < release
  /\ \/ db' = [db EXCEPT ![c].version = @ + 1] /\ Unrecorded({c})
     \/ db' = [db EXCEPT ![c].failed = TRUE] /\ UNCHANGED unrecorded
  /\ UNCHANGED <<role, registry, release, script, runs>>

-----------------------------------------------------------------------------
ByHand(c) == Resolve(c) \/ DeployByHand(c)
ScriptStep(s) ==
  \/ Crash(s)
  \/ \E c \in Client : StartCreate(s, c)
  \/ \E c \in Client, skip, keep \in BOOLEAN : StartDrop(s, c, skip, keep)
  \/ \E only \in SUBSET Client : StartMigrate(s, only)
  \/ CheckDatabase(s) \/ CreateRole(s) \/ CreateDatabase(s) \/ Build(s)
  \/ Apply(s) \/ FirstDeploy(s) \/ Register(s)
  \/ Dump(s) \/ DropDatabase(s) \/ DropRole(s) \/ Deregister(s)
  \/ NextClient(s) \/ Deployed(s) \/ DeployFails(s) \/ Record(s)

Next ==
  \/ Release
  \/ \E c \in Client : ByHand(c)
  \/ \E s \in Script : ScriptStep(s)

Spec == Init /\ [][Next]_vars

-----------------------------------------------------------------------------
(* The databases, the registry and the scripts' copies are well formed; a   *)
(* migration left half done is one that is still to be applied.            *)
Entries == [Client -> {None} \cup [password : 1..MaxRuns, version : 0..MaxVersion]]
TypeOK ==
  /\ db \in [Client -> {None} \cup [stage : Stage, version : 0..MaxVersion, failed : BOOLEAN]]
  /\ \A c \in Client : db[c] # None =>
       db[c].version <= release /\ (db[c].failed => db[c].version < release)
  /\ role \in [Client -> {None} \cup 1..MaxRuns]
  /\ registry \in Entries
  /\ release \in 1..MaxVersion /\ runs \in 0..MaxRuns /\ unrecorded \subseteq Client
  /\ \A s \in Script : script[s] # None => script[s].copy \in Entries

(* What the registry names can be used: the database is finished and shut   *)
(* to others, the password on file opens it, and the version on file has    *)
(* been applied, however many scripts stopped half-way.                     *)
RegisteredUsable ==
  \A c \in Client : registry[c] # None /\ db[c] # None =>
    /\ db[c].stage = "ready"
    /\ role[c] = registry[c].password
    /\ registry[c].version <= db[c].version

(* A record goes only after its database has gone: a failed offboarding     *)
(* leaves a record rather than an orphan.                                   *)
RecordOutlivesDatabase ==
  [][\A c \in Client : registry[c] # None /\ registry'[c] = None => db[c] = None]_vars

(* The registry's version is the database's, unless a run is deploying to   *)
(* it or about to record it, or the database moved with nothing to record   *)
(* it: the run that deployed to it stopped or failed part-way or could not  *)
(* read the version back, or a migration was applied by hand.  The record   *)
(* of the clients done earlier in an interrupted run is accurate, and the   *)
(* next release rolled out to a client makes its record accurate again.     *)
RecordedUnlessCutShort ==
  \A c \in Client : registry[c] # None /\ db[c] # None /\ registry[c].version # db[c].version =>
    \/ c \in unrecorded
    \/ \E s \in Script : script[s] # None /\ script[s].client = c /\ script[s].pc \in {"deploy", "record"}
=============================================================================
