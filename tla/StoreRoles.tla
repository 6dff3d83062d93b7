----------------------------- MODULE StoreRoles -----------------------------
(***************************************************************************)
(* Roles, staff and the teacher of each batch in the web app's store        *)
(* (frontend/src/store/dataStore.ts), as the screens of one browser change  *)
(* them.  The store runs one action at a time; what overlaps is an Undo     *)
(* button: a toast keeps what was true when it was shown, and may be        *)
(* pressed after any number of other changes.                               *)
(*                                                                         *)
(* Names are left out: a role with an unusable name is refused and changes  *)
(* nothing.  An id outside the tables stands for the next fresh uuid.  A    *)
(* toast lives 4.5 seconds, so nobody signs in or out while one is shown.   *)
(* An operator named Op_Fault is Op with one fault: a property that does    *)
(* not fail when Op_Fault takes the place of Op would say nothing about Op. *)
(***************************************************************************)
EXTENDS FiniteSets, Naturals

CONSTANTS
  Staff, Role, Permission, Batch,
  Owner,                   \* staff with isOwner
  AdminRole, FacultyRole,  \* the built-in roles
  Manage,                  \* 'faculty.manage': administers staff & roles
  Teach,                   \* 'topics.manage': may be picked as a teacher
  Configure,               \* 'settings.manage': may run the setup wizard
  LockedPermissions,       \* what the Administrator role can never lose
  FacultyPermissions,
  Requires,                \* pairs <<p, q>>: p makes no sense without q
  MaxToasts,               \* bound on the Undo buttons shown at once
  None

ASSUME RolesGiven == AdminRole \in Role /\ FacultyRole \in Role /\ AdminRole # FacultyRole
ASSUME StaffGiven == Owner \subseteq Staff /\ None \notin Staff
ASSUME PermissionsGiven ==
  /\ Manage \in Permission /\ FacultyPermissions \subseteq Permission
  /\ LockedPermissions \subseteq Permission /\ Requires \subseteq Permission \X Permission

SystemRoles == {AdminRole, FacultyRole}
StaffStatus == {"Active", "Inactive", "Invited"}
BatchStatus == {"Active", "Archived"}

VARIABLES
  permissions,   \* Role.permissions; empty for an id no role has
  status,        \* Staff.status, or "Absent"
  roleOf,        \* Staff.roleId
  teacher,       \* Batch.facultyId
  batch,         \* Batch.status, or "Absent"
  toasts,        \* what the Undo buttons on screen would do
  me             \* who is signed in

school == <<permissions, status, roleOf, teacher, batch>>
vars == <<permissions, status, roleOf, teacher, batch, toasts, me>>

roles == {r \in Role : permissions[r] # {}}
staff == {s \in Staff : status[s] # "Absent"}

WithRequired(ps) == ps \cup {pair[2] : pair \in {q \in Requires : q[1] \in ps}}

PermissionsOf(s, ro, ps) == IF s \in Owner THEN Permission ELSE ps[ro[s]]
Mine == IF me = None THEN {} ELSE PermissionsOf(me, roleOf, permissions)

(* Who could put the institute back together, on any version of the tables. *)
ActiveAdministrators(st, ro, ps) ==
  {s \in Staff : st[s] = "Active" /\ Manage \in PermissionsOf(s, ro, ps)}
AdminsRemain(st, ro, ps) == ActiveAdministrators(st, ro, ps) # {}

IsLastAdmin(s) == ActiveAdministrators(status, roleOf, permissions) = {s}

AccessLocked_OwnToo(s) ==
  \/ IsLastAdmin(s)
  \/ s \in Owner /\ me \notin Owner

(* The screens offer an action on a member's access only when it is not     *)
(* one's own, not the last administrator's, and not the owner's.            *)
AccessLocked(s) ==
  \/ s = me
  \/ IsLastAdmin(s)
  \/ s \in Owner /\ me \notin Owner

Escalates(ps) == me \notin Owner /\ ~(ps \subseteq Mine)
OwnRole(r) == me \notin Owner /\ roleOf[me] = r

(* Someone who may manage staff & roles is looking at a screen. *)
Managing == me # None /\ Manage \in Mine

MayAddRole_Unchecked(ps) == Managing /\ ps # {}
MayAddRole(ps) == Managing /\ ps # {} /\ ~Escalates(WithRequired(ps))

MayUpdateRole(r, ps) ==
  /\ Managing
  /\ r \in roles /\ ~OwnRole(r)
  /\ ps # {}
  /\ r = AdminRole => LockedPermissions \subseteq WithRequired(ps)
  /\ ~Escalates(WithRequired(ps) \ permissions[r])
  /\ AdminsRemain(status, roleOf, [permissions EXCEPT ![r] = WithRequired(ps)])

Reassigned_ActiveOnly(r, to) ==
  [s \in Staff |-> IF status[s] = "Active" /\ roleOf[s] = r THEN to ELSE roleOf[s]]
(* roleOf once the members of r have moved to another role *)
Reassigned(r, to) == [s \in Staff |-> IF s \in staff /\ roleOf[s] = r THEN to ELSE roleOf[s]]
Holders(r) == {s \in staff : roleOf[s] = r}

MayDeleteRole(r, to) ==
  /\ Managing
  /\ r \in roles \ SystemRoles /\ ~OwnRole(r)
  /\ to \in roles \ {r}
  /\ AdminsRemain(status, Reassigned(r, to), [permissions EXCEPT ![r] = {}])

AssignmentBlocked(s, r) ==
  \/ r \notin roles
  \/ Escalates(permissions[r])
  \/ s \in staff /\ ~AdminsRemain(status, [roleOf EXCEPT ![s] = r], permissions)

LiveBatchesTaughtBy(s) == {b \in Batch : teacher[b] = s /\ batch[b] \notin {"Archived", "Absent"}}

Init ==
  /\ permissions = [r \in Role |-> IF r = AdminRole THEN Permission
                                   ELSE IF r = FacultyRole THEN FacultyPermissions ELSE {}]
  /\ \E founder \in Staff :
       /\ Owner \subseteq {founder}
       /\ status = [s \in Staff |-> IF s = founder THEN "Active" ELSE "Absent"]
       /\ roleOf = [s \in Staff |-> IF s = founder THEN AdminRole ELSE FacultyRole]
  /\ teacher = [b \in Batch |-> None]
  /\ batch = [b \in Batch |-> "Absent"]
  /\ toasts = {}
  /\ me = None

Sign(user) ==
  /\ toasts = {}
  /\ user # None => me = None /\ status[user] = "Active"
  /\ me' = user
  /\ UNCHANGED <<school, toasts>>

(* A success may leave an Undo button; any toast may time out meanwhile. *)
Show(toast) ==
  /\ Cardinality(toasts) < MaxToasts
  /\ toasts' = toasts \cup {toast}
Dismiss(t) == toasts' = toasts \ {t} /\ UNCHANGED <<school, me>>

AddRole(r, ps) ==
  /\ r \in Role \ roles /\ MayAddRole(ps)
  /\ permissions' = [permissions EXCEPT ![r] = WithRequired(ps)]
  /\ UNCHANGED <<status, roleOf, teacher, batch, toasts, me>>

UpdateRole(r, ps) ==
  /\ MayUpdateRole(r, ps)
  /\ permissions' = [permissions EXCEPT ![r] = WithRequired(ps)]
  /\ UNCHANGED <<status, roleOf, teacher, batch, toasts, me>>

DeleteRole(r, to) ==
  /\ MayDeleteRole(r, to)
  /\ permissions' = [permissions EXCEPT ![r] = {}]
  /\ roleOf' = Reassigned(r, to)
  /\ Show([kind |-> "role", perms |-> permissions[r], moved |-> Holders(r)])
  /\ UNCHANGED <<status, teacher, batch, me>>

(* Undo recreates the role under a fresh id and moves its former members    *)
(* back one by one; the store refuses a move that would leave no            *)
(* administrator, so as many move as can.                                   *)
UndoDeleteRole(t, r) ==
  LET perms == [permissions EXCEPT ![r] = WithRequired(t.perms)]
      back(m) == [s \in Staff |-> IF s \in m THEN r ELSE roleOf[s]]
      remain(m) == AdminsRemain(status, back(m), perms)
  IN /\ t \in toasts /\ t.kind = "role"
     /\ r \in Role \ roles /\ MayAddRole(t.perms)
     /\ permissions' = perms
     /\ \E m \in SUBSET (t.moved \cap staff) :
          /\ m # {} => remain(m)
          /\ \A s \in (t.moved \cap staff) \ m : ~remain(m \cup {s})
          /\ roleOf' = back(m)
     /\ toasts' = toasts \ {t}
     /\ UNCHANGED <<status, teacher, batch, me>>

Invite(s, r) ==
  /\ Managing
  /\ s \in Staff \ staff /\ ~AssignmentBlocked(s, r)
  /\ status' = [status EXCEPT ![s] = "Invited"]
  /\ roleOf' = [roleOf EXCEPT ![s] = r]
  /\ UNCHANGED <<permissions, teacher, batch, toasts, me>>

(* The wizard's team step, also on a re-run, adds people on any role. *)
InviteTeam(s, r) ==
  /\ me # None /\ Configure \in Mine
  /\ s \in Staff \ staff /\ r \in roles
  /\ status' = [status EXCEPT ![s] = "Invited"]
  /\ roleOf' = [roleOf EXCEPT ![s] = r]
  /\ UNCHANGED <<permissions, teacher, batch, toasts, me>>

(* updateStaff ignores a role or status that would leave no administrator. *)
StoreUpdate(s, r, st) ==
  LET after == [status EXCEPT ![s] = st]
      moved == [roleOf EXCEPT ![s] = r]
  IN IF s \in staff /\ AdminsRemain(after, moved, permissions)
       THEN status' = after /\ roleOf' = moved
       ELSE UNCHANGED <<status, roleOf>>

(* The staff form: a changed role or status needs the member unlocked. *)
SaveStaff(s, r, st) ==
  /\ Managing
  /\ s \in staff
  /\ r # roleOf[s] => ~AccessLocked(s) /\ ~AssignmentBlocked(s, r)
  /\ st # status[s] => ~AccessLocked(s) /\ st # "Invited"
  /\ StoreUpdate(s, r, st)
  /\ UNCHANGED <<permissions, teacher, batch, toasts, me>>

SetStatus(s) ==
  LET st == IF status[s] = "Inactive" THEN "Active" ELSE "Inactive"
  IN /\ Managing
     /\ s \in staff /\ ~AccessLocked(s)
     /\ StoreUpdate(s, roleOf[s], st)
     /\ Show([kind |-> "status", staff |-> s, previous |-> status[s]])
     /\ UNCHANGED <<permissions, teacher, batch, me>>

UndoSetStatus(t) ==
  /\ t \in toasts /\ t.kind = "status"
  /\ StoreUpdate(t.staff, roleOf[t.staff], t.previous)
  /\ toasts' = toasts \ {t}
  /\ UNCHANGED <<permissions, teacher, batch, me>>

(* The screen and the store both refuse while a live batch needs them. *)
RemoveStaff(s) ==
  /\ Managing
  /\ s \in staff /\ ~AccessLocked(s)
  /\ LiveBatchesTaughtBy(s) = {}
  /\ LET after == [status EXCEPT ![s] = "Absent"]
     IN AdminsRemain(after, roleOf, permissions) /\ status' = after
  /\ UNCHANGED <<permissions, roleOf, teacher, batch, toasts, me>>

(* The batch form lists active teaching staff and the batch's own teacher. *)
SaveBatch(b, s, st) ==
  /\ me # None
  /\ \/ s = teacher[b] /\ batch[b] # "Absent"
     \/ s \in staff /\ status[s] = "Active" /\ Teach \in PermissionsOf(s, roleOf, permissions)
  /\ teacher' = [teacher EXCEPT ![b] = s]
  /\ batch' = [batch EXCEPT ![b] = st]
  /\ UNCHANGED <<permissions, status, roleOf, toasts, me>>

ArchiveBatch(b) ==
  /\ me # None
  /\ batch[b] = "Active"
  /\ batch' = [batch EXCEPT ![b] = "Archived"]
  /\ Show([kind |-> "batch", batch |-> b])
  /\ UNCHANGED <<permissions, status, roleOf, teacher, me>>

(* "Restore batch" in the menu, or Undo in the toast *)
RestoreBatch(b) ==
  /\ me # None
  /\ batch[b] = "Archived"
  /\ batch' = [batch EXCEPT ![b] = "Active"]
  /\ toasts' \in {toasts, toasts \ {[kind |-> "batch", batch |-> b]}}
  /\ UNCHANGED <<permissions, status, roleOf, teacher, me>>

Next ==
  \/ \E user \in Staff \cup {None} : Sign(user)
  \/ \E t \in toasts : Dismiss(t) \/ UndoSetStatus(t) \/ \E r \in Role : UndoDeleteRole(t, r)
  \/ \E r \in Role, ps \in SUBSET Permission : AddRole(r, ps) \/ UpdateRole(r, ps)
  \/ \E r, to \in Role : DeleteRole(r, to)
  \/ \E s \in Staff, r \in Role :
          Invite(s, r) \/ InviteTeam(s, r) \/ \E st \in StaffStatus : SaveStaff(s, r, st)
  \/ \E s \in Staff : SetStatus(s) \/ RemoveStaff(s)
  \/ \E b \in Batch, s \in Staff, st \in BatchStatus : SaveBatch(b, s, st)
  \/ \E b \in Batch : ArchiveBatch(b) \/ RestoreBatch(b)

Spec == Init /\ [][Next]_vars

-----------------------------------------------------------------------------
(* Every table row refers to rows that exist, and a toast to what it saw.  *)
TypeOK ==
  /\ permissions \in [Role -> SUBSET Permission]
  /\ LockedPermissions \subseteq permissions[AdminRole] /\ FacultyRole \in roles
  /\ status \in [Staff -> StaffStatus \cup {"Absent"}]
  /\ roleOf \in [Staff -> Role]
  /\ teacher \in [Batch -> Staff \cup {None}]
  /\ batch \in [Batch -> BatchStatus \cup {"Absent"}]
  /\ me \in Staff \cup {None}
  /\ me # None => status[me] = "Active"

(* At least one active member of staff can manage staff & roles, after any  *)
(* sequence of edits and late Undos.                                        *)
AdminsNeverGone == AdminsRemain(status, roleOf, permissions)

(* Nobody is left on a role that no longer exists: a role in use goes only  *)
(* with a reassignment, and Undo moves people to a role it has recreated.   *)
RolesInUseExist == \A s \in staff : roleOf[s] \in roles

(* No role, edited, created or restored by Undo, ever gains a permission    *)
(* that the person signed in does not hold.                                 *)
RolesGainOwnPowers ==
  [][\A r \in Role : permissions'[r] \ permissions[r] \subseteq Mine]_vars

(* The store implements the role rules: each action is one change of access *)
(* the rules allow, or changes nobody's access.                             *)
Access == [s \in Staff |-> IF status[s] = "Active" THEN PermissionsOf(s, roleOf, permissions) ELSE {}]
Rules == INSTANCE RoleRules WITH access <- Access
RulesKept == Rules!Spec
=============================================================================
