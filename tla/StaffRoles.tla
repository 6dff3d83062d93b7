----------------------------- MODULE StaffRoles -----------------------------
(***************************************************************************)
(* Roles and staff of one institute, as RolesService and StaffService      *)
(* (backend/src/roles, backend/src/staff) change them.  No handler opens a *)
(* database transaction: each awaits several statements, and every other   *)
(* request may run between two of them.  A client is a signed-in browser   *)
(* with one request in flight, whose handler goes through                  *)
(*                                                                         *)
(*   guarded   PermissionsGuard passed, the actor's access is cached       *)
(*   loaded    the target rows were read and the first checks passed       *)
(*   checked   assertAdminRemains passed on its snapshot                   *)
(*   deleting / clearing / setting / mailing                               *)
(*             the second and third statements of a multi-write handler    *)
(*                                                                         *)
(* A refused request, or one whose statement the database rejects, ends    *)
(* and leaves what it already wrote.  Names, keys, e-mail addresses and    *)
(* the subjects a member teaches are not modelled; a role or staff id that *)
(* is not in the tables stands for the next fresh uuid.                    *)
(*                                                                         *)
(* An operator named Op_Fault is Op with one fault: a property that does   *)
(* not fail when Op_Fault takes the place of Op would say nothing about Op. *)
(***************************************************************************)
EXTENDS FiniteSets, Naturals

CONSTANTS
  Staff, Role, Permission, Client,
  Owner,             \* staff whose row has isOwner
  Founder,           \* the account provisioning created
  HasHistory,        \* staff with batches, registers or receipts on file
  AdminRole, FacultyRole,
  FacultyManage, SettingsManage,
  FacultyPermissions,
  Commands,          \* the requests clients make
  MaxInFlight,       \* bound on the requests handled at once
  None               \* an optional field the caller left out

SystemRoles == {AdminRole, FacultyRole}
AdminMarkers == {FacultyManage, SettingsManage}
Status == {"Invited", "Active", "Inactive"}
Kinds == {"createRole", "updateRole", "removeRole",
          "invite", "resend", "updateStaff", "removeStaff"}

(* A request body: the role or staff id of the URL and the optional fields; *)
(* a new role comes with its permissions and an invitation with its role.  *)
Body ==
  [kind : Kinds, role : Role, staff : Staff,
   perms : {None} \cup SUBSET Permission,
   to : Role \cup {None},
   status : Status \cup {None},
   dflt : BOOLEAN \cup {None}]
Command == {cmd \in Body : /\ cmd.kind = "createRole" => cmd.perms # None
                           /\ cmd.kind = "invite" => cmd.to # None}

ASSUME RolesDistinct == AdminRole \in Role /\ FacultyRole \in Role /\ AdminRole # FacultyRole
ASSUME StaffGiven == Founder \in Staff /\ Owner \subseteq Staff /\ HasHistory \subseteq Staff
ASSUME MarkersGiven == AdminMarkers \subseteq Permission /\ FacultyPermissions \subseteq Permission
ASSUME CommandsGiven == Commands \subseteq Command
ASSUME NoneFresh == /\ None \notin Role /\ None \notin Staff /\ None \notin Status
                    /\ None \notin BOOLEAN /\ \A ps \in SUBSET Permission : ps # None

Phase == {"idle", "guarded", "loaded", "checked",
          "deleting", "clearing", "setting", "mailing"}
NoCommand == [kind |-> "none"]

VARIABLES
  roles,      \* the roles table: the ids of its rows
  perms,      \* Role.permissions; empty for an id without a row
  default,    \* the roles whose isDefault is true
  status,     \* Staff.status, or "Absent" for an id without a row
  roleOf,     \* Staff.roleId; FacultyRole for an id without a row
  invited,    \* staff with a live activation link
  client      \* the signed-in clients and their requests

tables == <<roles, perms, default, status, roleOf, invited>>
vars == <<roles, perms, default, status, roleOf, invited, client>>

Effective(s) == IF s \in Owner THEN Permission ELSE perms[roleOf[s]]

HasMarkers(ps) == AdminMarkers \subseteq ps

(* countActiveAdmins, on any snapshot of the two tables *)
ActiveAdmins(st, ro, ps) ==
  {s \in Staff : st[s] = "Active" /\ (s \in Owner \/ HasMarkers(ps[ro[s]]))}

(* The PendingChange of a command, applied to each column it can touch. *)
PermsAfter(cmd) ==
  IF cmd.kind = "updateRole" /\ cmd.perms # None THEN [perms EXCEPT ![cmd.role] = cmd.perms]
  ELSE IF cmd.kind = "removeRole" THEN [perms EXCEPT ![cmd.role] = {}]
  ELSE perms

RoleOfAfter(cmd) ==
  IF cmd.kind = "removeRole" /\ cmd.to # None
    THEN [s \in Staff |-> IF roleOf[s] = cmd.role THEN cmd.to ELSE roleOf[s]]
  ELSE IF cmd.kind = "updateStaff" /\ cmd.to # None THEN [roleOf EXCEPT ![cmd.staff] = cmd.to]
  ELSE roleOf

StatusAfter(cmd) ==
  IF cmd.kind = "updateStaff" /\ cmd.status # None THEN [status EXCEPT ![cmd.staff] = cmd.status]
  ELSE IF cmd.kind = "removeStaff" THEN [status EXCEPT ![cmd.staff] = "Absent"]
  ELSE status

AdminRemains(cmd) ==
  ActiveAdmins(StatusAfter(cmd), RoleOfAfter(cmd), PermsAfter(cmd)) # {}

NoRequest(who, tokenRole) ==
  [pc |-> "idle", who |-> who, tokenRole |-> tokenRole, access |-> {}, cmd |-> NoCommand]

Init ==
  /\ roles = SystemRoles
  /\ perms = [r \in Role |-> IF r = AdminRole THEN Permission
                             ELSE IF r = FacultyRole THEN FacultyPermissions ELSE {}]
  /\ default = {FacultyRole}
  /\ status = [s \in Staff |-> IF s = Founder THEN "Active" ELSE "Absent"]
  /\ roleOf = [s \in Staff |-> IF s = Founder THEN AdminRole ELSE FacultyRole]
  /\ invited = {}
  /\ client = [c \in Client |-> NoRequest(None, None)]

(* Request bookkeeping: the columns a step leaves alone are listed by it.  *)
Advance(c, pc) == client' = [client EXCEPT ![c].pc = pc]
Finish(c) == client' = [client EXCEPT ![c] = NoRequest(@.who, @.tokenRole)]
Refuse(c) == Finish(c) /\ UNCHANGED tables
InFlight == {c \in Client : client[c].pc # "idle"}

(* A sign-in puts the member's id and role id in the access token. *)
SignIn(c, s) ==
  /\ client[c].pc = "idle"
  /\ status[s] = "Active"
  /\ client' = [client EXCEPT ![c] = NoRequest(s, roleOf[s])]
  /\ UNCHANGED tables

(* The invitee opens the activation link and chooses a password. *)
Activate(s) ==
  /\ s \in invited
  /\ status' = [status EXCEPT ![s] = "Active"]
  /\ invited' = invited \ {s}
  /\ UNCHANGED <<roles, perms, default, roleOf, client>>

(* JwtAuthGuard trusts the token; PermissionsGuard reads the actor's row    *)
(* and keeps what it read for the rest of the request.                      *)
Guard(c, cmd) ==
  /\ client[c].pc = "idle"
  /\ client[c].who # None
  /\ Cardinality(InFlight) < MaxInFlight
  /\ status[client[c].who] = "Active"
  /\ FacultyManage \in Effective(client[c].who)
  /\ client' = [client EXCEPT ![c].pc = "guarded", ![c].cmd = cmd,
                              ![c].access = Effective(client[c].who)]
  /\ UNCHANGED tables

IsOwner(c) == client[c].who \in Owner
OwnRole(c, r) == ~IsOwner(c) /\ client[c].tokenRole = r
MayGrant_Unchecked(c, ps, had) == TRUE
MayGrant(c, ps, had) == IsOwner(c) \/ ps \subseteq client[c].access \cup had

(* The reads and checks each handler makes before its admin check and its  *)
(* writes.                                                                 *)
InUse(r) == \E s \in Staff : status[s] # "Absent" /\ roleOf[s] = r

MayUpdateRole(c, cmd) ==
  /\ cmd.role \in roles
  /\ ~OwnRole(c, cmd.role)
  /\ cmd.perms # None =>
       /\ MayGrant(c, cmd.perms, perms[cmd.role])
       /\ cmd.role = AdminRole => HasMarkers(cmd.perms)

MayRemoveRole(c, cmd) ==
  /\ cmd.role \in roles \ SystemRoles
  /\ ~OwnRole(c, cmd.role)
  /\ InUse(cmd.role) => cmd.to \in roles \ {cmd.role}

MayInvite(c, cmd) == cmd.to \in roles /\ MayGrant(c, perms[cmd.to], {})

(* The fields of a staff update that differ from the row just read. *)
NewRole(cmd) == IF cmd.to = roleOf[cmd.staff] THEN None ELSE cmd.to
NewStatus(cmd) == IF cmd.status = status[cmd.staff] THEN None ELSE cmd.status

MayUpdateStaff(c, cmd) ==
  /\ status[cmd.staff] # "Absent"
  /\ NewRole(cmd) # None =>
       /\ cmd.staff \notin Owner
       /\ IsOwner(c) \/ cmd.staff # client[c].who
       /\ cmd.to \in roles
       /\ MayGrant(c, perms[cmd.to], {})
  /\ NewStatus(cmd) # None =>
       /\ cmd.staff \notin Owner
       /\ cmd.status = "Active" => status[cmd.staff] # "Invited"
       /\ cmd.status # "Invited"

MayRemoveStaff(c, cmd) ==
  /\ status[cmd.staff] # "Absent"
  /\ cmd.staff \notin Owner \cup HasHistory \cup {client[c].who}

Accepts(c, cmd) ==
  /\ cmd.kind = "createRole"  => MayGrant(c, cmd.perms, {})
  /\ cmd.kind = "updateRole"  => MayUpdateRole(c, cmd)
  /\ cmd.kind = "removeRole"  => MayRemoveRole(c, cmd)
  /\ cmd.kind = "invite"      => MayInvite(c, cmd)
  /\ cmd.kind = "resend"      => status[cmd.staff] = "Invited"
  /\ cmd.kind = "updateStaff" => MayUpdateStaff(c, cmd)
  /\ cmd.kind = "removeStaff" => MayRemoveStaff(c, cmd)

(* The change the handler goes on to make, after what it read. *)
Resolved(cmd) ==
  IF cmd.kind = "updateStaff" THEN [cmd EXCEPT !.to = NewRole(cmd), !.status = NewStatus(cmd)]
  ELSE IF cmd.kind = "removeRole" /\ ~InUse(cmd.role) THEN [cmd EXCEPT !.to = None]
  ELSE cmd

PhaseAfterLoad(cmd) ==
  IF cmd.kind = "resend" THEN "mailing"
  ELSE IF \/ cmd.kind \in {"createRole", "invite"}
          \/ cmd.kind = "updateRole" /\ cmd.perms = None THEN "checked"
  ELSE "loaded"

Load(c) ==
  LET cmd == client[c].cmd
  IN /\ client[c].pc = "guarded"
     /\ \/ /\ Accepts(c, cmd)
           /\ client' = [client EXCEPT ![c].pc = PhaseAfterLoad(cmd), ![c].cmd = Resolved(cmd)]
           /\ UNCHANGED tables
        \/ ~Accepts(c, cmd) /\ Refuse(c)

(* assertAdminRemains; a staff update checks its role and its status apart *)
PassesAdminCheck_RoleOnly(cmd) ==
  cmd.kind = "updateStaff" /\ cmd.to # None => AdminRemains([cmd EXCEPT !.status = None])

PassesAdminCheck(cmd) ==
  IF cmd.kind = "updateStaff"
    THEN /\ cmd.to # None => AdminRemains([cmd EXCEPT !.status = None])
         /\ cmd.status \notin {None, "Active"} => AdminRemains([cmd EXCEPT !.to = None])
    ELSE AdminRemains(cmd)

CheckAdmins(c) ==
  /\ client[c].pc = "loaded"
  /\ IF PassesAdminCheck(client[c].cmd)
       THEN Advance(c, "checked") /\ UNCHANGED tables
       ELSE Refuse(c)

(* An id is fresh when no row, token or other request names it. *)
FreshRole(c, r) ==
  /\ r \notin roles
  /\ \A d \in Client : /\ client[d].tokenRole # r
                       /\ d # c /\ client[d].pc # "idle" =>
                            r \notin {client[d].cmd.role, client[d].cmd.to}
FreshStaff(c, s) ==
  /\ status[s] = "Absent"
  /\ \A d \in Client : /\ client[d].who # s
                       /\ d # c /\ client[d].pc # "idle" => client[d].cmd.staff # s

Writing(c, kind) == client[c].pc = "checked" /\ client[c].cmd.kind = kind

CreateRole(c) ==
  LET cmd == client[c].cmd
  IN /\ Writing(c, "createRole")
     /\ \E r \in Role :
          /\ FreshRole(c, r)
          /\ roles' = roles \cup {r}
          /\ perms' = [perms EXCEPT ![r] = cmd.perms]
          /\ IF cmd.dflt = TRUE
               THEN client' = [client EXCEPT ![c].pc = "clearing", ![c].cmd.role = r]
               ELSE Finish(c)
     /\ UNCHANGED <<default, status, roleOf, invited>>

(* Bound: the institute has no more roles than Role has ids. *)
RoleTableFull(c) ==
  /\ Writing(c, "createRole")
  /\ \A r \in Role : ~FreshRole(c, r)
  /\ Refuse(c)

UpdateRole(c) ==
  LET cmd == client[c].cmd
      isDefault == cmd.role \in default
  IN /\ Writing(c, "updateRole")
     /\ IF cmd.role \notin roles THEN Refuse(c)
        ELSE /\ perms' = PermsAfter(cmd)
             /\ \/ cmd.dflt = TRUE /\ ~isDefault /\ Advance(c, "clearing")
                \/ cmd.dflt = FALSE /\ isDefault /\ Advance(c, "setting")
                \/ cmd.dflt \in {None, isDefault} /\ Finish(c)
             /\ UNCHANGED <<roles, default, status, roleOf, invited>>

(* makeDefault: clear every other default, then set this one. *)
ClearDefaults_Skipped(c) ==
  client[c].pc = "clearing" /\ Advance(c, "setting") /\ UNCHANGED tables

ClearDefaults(c) ==
  /\ client[c].pc = "clearing"
  /\ default' = default \cap {client[c].cmd.role}
  /\ Advance(c, "setting")
  /\ UNCHANGED <<roles, perms, status, roleOf, invited>>

SetDefault(c) ==
  LET cmd == client[c].cmd
  IN /\ client[c].pc = "setting"
     /\ default' = IF cmd.dflt = TRUE THEN default \cup ({cmd.role} \cap roles)
                                      ELSE default \ {cmd.role}
     /\ Finish(c)
     /\ UNCHANGED <<roles, perms, status, roleOf, invited>>

(* remove: the members are moved first, where the role had any. *)
ReassignMembers(c) ==
  LET cmd == client[c].cmd
  IN /\ Writing(c, "removeRole")
     /\ IF InUse(cmd.role) /\ cmd.to # None /\ cmd.to \notin roles
          THEN Refuse(c)
          ELSE /\ roleOf' = RoleOfAfter(cmd)
               /\ Advance(c, "deleting")
               /\ UNCHANGED <<roles, perms, default, status, invited>>

(* The foreign key of staff rows is Restrict. *)
DeleteRole_NoForeignKey(c) ==
  LET r == client[c].cmd.role
  IN /\ client[c].pc = "deleting"
     /\ roles' = roles \ {r}
     /\ perms' = [perms EXCEPT ![r] = {}]
     /\ default' = default \ {r}
     /\ Finish(c)
     /\ UNCHANGED <<status, roleOf, invited>>

DeleteRole(c) ==
  LET r == client[c].cmd.role
  IN /\ client[c].pc = "deleting"
     /\ IF r \notin roles \/ InUse(r) THEN Refuse(c)
        ELSE /\ roles' = roles \ {r}
             /\ perms' = [perms EXCEPT ![r] = {}]
             /\ default' = default \ {r}
             /\ Finish(c)
             /\ UNCHANGED <<status, roleOf, invited>>

Invite(c) ==
  LET cmd == client[c].cmd
  IN /\ Writing(c, "invite")
     /\ cmd.to \in roles
     /\ \E s \in Staff :
          /\ FreshStaff(c, s)
          /\ status' = [status EXCEPT ![s] = "Invited"]
          /\ roleOf' = [roleOf EXCEPT ![s] = cmd.to]
          /\ client' = [client EXCEPT ![c].pc = "mailing", ![c].cmd.staff = s]
     /\ UNCHANGED <<roles, perms, default, invited>>

(* Bound: no more staff than Staff has ids; or the role has gone. *)
InviteRejected(c) ==
  /\ Writing(c, "invite")
  /\ client[c].cmd.to \notin roles \/ \A s \in Staff : ~FreshStaff(c, s)
  /\ Refuse(c)

(* sendInvitation: the new link replaces the old one; the mail may fail.   *)
SendInvitation(c) ==
  LET s == client[c].cmd.staff
  IN /\ client[c].pc = "mailing"
     /\ invited' \in {invited \ {s}, IF status[s] = "Absent" THEN invited ELSE invited \cup {s}}
     /\ Finish(c)
     /\ UNCHANGED <<roles, perms, default, status, roleOf>>

UpdateStaff(c) ==
  LET cmd == client[c].cmd
  IN /\ Writing(c, "updateStaff")
     /\ IF status[cmd.staff] = "Absent" \/ cmd.to \notin roles \cup {None}
          THEN Refuse(c)
          ELSE /\ status' = StatusAfter(cmd)
               /\ roleOf' = RoleOfAfter(cmd)
               /\ Finish(c)
               /\ UNCHANGED <<roles, perms, default, invited>>

(* Links cascade with the row they name. *)
RemoveStaff_KeepsLink(c) ==
  LET s == client[c].cmd.staff
  IN /\ Writing(c, "removeStaff")
     /\ status' = [status EXCEPT ![s] = "Absent"]
     /\ roleOf' = [roleOf EXCEPT ![s] = FacultyRole]
     /\ Finish(c)
     /\ UNCHANGED <<roles, perms, default, invited>>

RemoveStaff(c) ==
  LET s == client[c].cmd.staff
  IN /\ Writing(c, "removeStaff")
     /\ status' = [status EXCEPT ![s] = "Absent"]
     /\ roleOf' = [roleOf EXCEPT ![s] = FacultyRole]
     /\ invited' = invited \ {s}
     /\ Finish(c)
     /\ UNCHANGED <<roles, perms, default>>

Write(c) ==
  \/ CreateRole(c) \/ RoleTableFull(c) \/ UpdateRole(c)
  \/ ReassignMembers(c) \/ DeleteRole(c)
  \/ ClearDefaults(c) \/ SetDefault(c)
  \/ Invite(c) \/ InviteRejected(c) \/ SendInvitation(c)
  \/ UpdateStaff(c) \/ RemoveStaff(c)

Next ==
  \/ \E c \in Client, s \in Staff : SignIn(c, s)
  \/ \E s \in Staff : Activate(s)
  \/ \E c \in Client, cmd \in Commands : Guard(c, cmd)
  \/ \E c \in Client : Load(c) \/ CheckAdmins(c) \/ Write(c)

Spec == Init /\ [][Next]_vars

-----------------------------------------------------------------------------
Phases == [pc : Phase, who : Staff \cup {None}, tokenRole : Role \cup {None},
           access : SUBSET Permission, cmd : Command \cup {NoCommand}]

(* Types of the tables and of the requests in flight.  Nothing outlives the *)
(* row it belongs to: no permission, default flag or link of a deleted row. *)
TypeOK ==
  /\ roles \subseteq Role
  /\ perms \in [Role -> SUBSET Permission]
  /\ \A r \in Role \ roles : perms[r] = {}
  /\ default \subseteq roles
  /\ status \in [Staff -> Status \cup {"Absent"}]
  /\ roleOf \in [Staff -> Role]
  /\ invited \subseteq {s \in Staff : status[s] # "Absent"}
  /\ client \in [Client -> Phases]

(* roles.service.ts rule 4: the institute always keeps an active           *)
(* administrator.  Every handler checks it on a snapshot it does not hold. *)
HasActiveAdmin == ActiveAdmins(status, roleOf, perms) # {}

(* Rule 2: whatever requests overlap, the Administrator role is there and  *)
(* holds both marker permissions, so its screens can be reached again.     *)
AdminRoleIntact == AdminRole \in roles /\ HasMarkers(perms[AdminRole])

(* Nobody is left on a role that no longer exists, though remove() moves    *)
(* the members in one statement and deletes the role in another.           *)
NoOrphanedStaff == \A s \in Staff : status[s] # "Absent" => roleOf[s] \in roles

(* makeDefault: exactly one role at most is the invite form's default. *)
AtMostOneDefault == Cardinality(default) <= 1

(* The owner, once active, is never demoted, deactivated or deleted, however *)
(* long a request with an old view of the tables has been in flight.       *)
OwnerUntouched ==
  [][\A s \in Owner : status[s] = "Active" =>
       status'[s] = "Active" /\ (roleOf[s] = AdminRole => roleOf'[s] = AdminRole)]_vars

Commits(c) == client[c].pc = "checked" /\ client'[c].pc # "checked"

(* Rule 5: a non-owner's request adds to a role only permissions that the   *)
(* caller held when the request was authorised, and leaves the caller's own *)
(* role alone as long as the token, which the check compares, names it.    *)
GrantsWithinAccess ==
  [][\A c \in Client : Commits(c) /\ ~IsOwner(c) =>
       /\ \A r \in Role : perms'[r] \subseteq perms[r] \cup client[c].access
       /\ client[c].tokenRole = roleOf[client[c].who] =>
            perms'[client[c].tokenRole] = perms[client[c].tokenRole]]_vars

(* assertCanAssignRole: a non-owner moves a member only to a role whose     *)
(* permissions the caller holds.                                           *)
MovesWithinAccess ==
  [][\A c \in Client, s \in Staff : Commits(c) /\ ~IsOwner(c) /\ roleOf'[s] # roleOf[s] =>
       perms[roleOf'[s]] \subseteq client[c].access]_vars
=============================================================================
