-------------------------- MODULE StaffRolesProofs --------------------------
(***************************************************************************)
(* Theorems about StaffRoles, for every institute, catalogue of            *)
(* permissions, number of clients and number of overlapping requests.      *)
(***************************************************************************)
EXTENDS StaffRoles, FiniteSetTheorems, TLAPS

(* A request past its guard carries a well-formed body and a known caller. *)
Requests ==
  \A c \in Client : client[c].pc # "idle" =>
    client[c].cmd \in Command /\ client[c].who \in Staff

Typed == TypeOK /\ Requests

(* Provisioning leaves well-typed tables and no request in flight. *)
LEMMA InitTyped == Init => Typed
  BY RolesDistinct, StaffGiven, MarkersGiven
  DEF Init, Typed, TypeOK, Requests, NoRequest, Phases, Phase, SystemRoles, Status

(* load() turns a well-typed request into a well-typed one. *)
LEMMA ResolvedCommand ==
  ASSUME NEW cmd \in Command, TypeOK
  PROVE  /\ Resolved(cmd) \in Command
         /\ PhaseAfterLoad(cmd) \in Phase
         /\ StatusAfter(cmd) \in [Staff -> Status \cup {"Absent"}]
         /\ RoleOfAfter(cmd) \in [Staff -> Role]
<1>1. Resolved(cmd) \in Command
  BY DEF Resolved, Command, Body, NewRole, NewStatus, Kinds
<1>2. PhaseAfterLoad(cmd) \in Phase
  BY DEF PhaseAfterLoad, Phase
<1>3. StatusAfter(cmd) \in [Staff -> Status \cup {"Absent"}]
  BY DEF StatusAfter, Command, Body, TypeOK
<1>4. RoleOfAfter(cmd) \in [Staff -> Role]
  BY DEF RoleOfAfter, Command, Body, TypeOK
<1>5. QED BY <1>1, <1>2, <1>3, <1>4

(* What a step may do to a client's record without leaving its type.       *)
LEMMA RequestSteps ==
  ASSUME Typed, NEW c \in Client
  PROVE  /\ Finish(c) => Requests' /\ client' \in [Client -> Phases]
         /\ \A pc \in Phase \ {"idle"} : client[c].pc # "idle" /\ Advance(c, pc) =>
              Requests' /\ client' \in [Client -> Phases]
<1>1. ASSUME Finish(c) PROVE Requests' /\ client' \in [Client -> Phases]
  BY <1>1 DEF Finish, NoRequest, Typed, TypeOK, Requests, Phases, Phase
<1>2. ASSUME NEW pc \in Phase \ {"idle"}, client[c].pc # "idle", Advance(c, pc)
      PROVE  Requests' /\ client' \in [Client -> Phases]
  BY <1>2 DEF Advance, Typed, TypeOK, Requests, Phases
<1>3. QED BY <1>1, <1>2

(* The same for a step that also sets the access and the body. *)
LEMMA RequestReplaced ==
  ASSUME Typed, NEW c \in Client, NEW pc \in Phase, NEW access \in SUBSET Permission,
         NEW cmd \in Command, client[c].who \in Staff,
         client' = [client EXCEPT ![c].pc = pc, ![c].cmd = cmd, ![c].access = access]
  PROVE  Requests' /\ client' \in [Client -> Phases]
<1> DEFINE next == [pc |-> pc, who |-> client[c].who, tokenRole |-> client[c].tokenRole,
                    access |-> access, cmd |-> cmd]
<1>1. client[c] \in Phases /\ client \in [Client -> Phases]
  BY DEF Typed, TypeOK
<1>2. next \in Phases
  BY <1>1 DEF Phases
<1>3. client' \in [Client -> Phases] /\ client'[c] = next
  BY <1>1, <1>2 DEF Phases
<1>4. \A d \in Client \ {c} : client'[d] = client[d]
  BY <1>1
<1>5. \A d \in Client : client'[d].pc # "idle" =>
        client'[d].cmd \in Command /\ client'[d].who \in Staff
  BY <1>3, <1>4 DEF Requests, Typed
<1>6. QED BY <1>3, <1>5 DEF Requests

(* PermissionsGuard leaves a well-typed request. *)
LEMMA GuardTyped ==
  ASSUME Typed, NEW c \in Client, NEW cmd \in Commands, Guard(c, cmd)
  PROVE  Typed'
<1>1. cmd \in Command BY CommandsGiven
<1>2. client[c].who \in Staff /\ Effective(client[c].who) \subseteq Permission
  BY DEF Guard, Typed, TypeOK, Phases, Effective
<1>3. Requests' /\ client' \in [Client -> Phases]
  BY <1>1, <1>2, RequestReplaced DEF Guard, Phase
<1>4. QED BY <1>3 DEF Guard, tables, Typed, TypeOK

(* The read and the first checks keep the types. *)
LEMMA LoadTyped ==
  ASSUME Typed, NEW c \in Client, Load(c)
  PROVE  Typed'
<1> DEFINE cmd == client[c].cmd
<1>1. cmd \in Command BY DEF Load, Typed, Requests
<1>2. CASE Refuse(c)
  BY <1>2, RequestSteps DEF Refuse, tables, Typed, TypeOK
<1>3. CASE /\ client' = [client EXCEPT ![c].pc = PhaseAfterLoad(cmd), ![c].cmd = Resolved(cmd)]
           /\ UNCHANGED tables
  <2>1. Resolved(cmd) \in Command /\ PhaseAfterLoad(cmd) \in Phase
    BY <1>1, ResolvedCommand DEF Typed
  <2>2. client[c].access \in SUBSET Permission /\ client[c].who \in Staff
    BY DEF Load, Typed, TypeOK, Phases, Requests
  <2>3. client' = [client EXCEPT ![c].pc = PhaseAfterLoad(cmd), ![c].cmd = Resolved(cmd),
                                 ![c].access = client[c].access]
    BY <1>3 DEF Typed, TypeOK, Phases
  <2>4. client' \in [Client -> Phases] /\ Requests'
    BY <2>1, <2>2, <2>3, RequestReplaced
  <2>5. QED BY <1>3, <2>4 DEF tables, Typed, TypeOK
<1>4. QED BY <1>2, <1>3 DEF Load

(* Every writing statement keeps the types. *)
LEMMA WriteTyped ==
  ASSUME Typed, NEW c \in Client, CheckAdmins(c) \/ Write(c)
  PROVE  Typed'
<1> DEFINE cmd == client[c].cmd
<1>1. cmd \in Command /\ client[c].pc # "idle"
  BY DEF CheckAdmins, Write, Writing, CreateRole, RoleTableFull, UpdateRole, ReassignMembers,
         DeleteRole, ClearDefaults, SetDefault, Invite, InviteRejected, SendInvitation,
         UpdateStaff, RemoveStaff, Typed, Requests
<1>14. client[c].access \in SUBSET Permission /\ client[c].who \in Staff
  BY <1>1 DEF Typed, TypeOK, Phases, Requests
<1>2. ASSUME Refuse(c) PROVE Typed'
  BY <1>2, RequestSteps DEF Refuse, tables, Typed, TypeOK
<1>3. ASSUME CheckAdmins(c) PROVE Typed'
  BY <1>1, <1>2, <1>3, RequestSteps DEF CheckAdmins, tables, Typed, TypeOK, Phase
<1>4. ASSUME CreateRole(c) PROVE Typed'
  <2>1. PICK r \in Role : /\ FreshRole(c, r)
                          /\ roles' = roles \cup {r}
                          /\ perms' = [perms EXCEPT ![r] = cmd.perms]
                          /\ IF cmd.dflt = TRUE
                               THEN client' = [client EXCEPT ![c].pc = "clearing", ![c].cmd.role = r]
                               ELSE Finish(c)
    BY <1>4 DEF CreateRole
  <2>2. cmd.perms \in SUBSET Permission
    BY <1>1, <1>4 DEF CreateRole, Writing, Command, Body
  <2>3. client' \in [Client -> Phases] /\ Requests'
    <3>1. CASE Finish(c) BY <3>1, RequestSteps
    <3>2. CASE client' = [client EXCEPT ![c].pc = "clearing", ![c].cmd.role = r]
      <4>1. [cmd EXCEPT !.role = r] \in Command BY <1>1 DEF Command, Body
      <4>2. client' = [client EXCEPT ![c].pc = "clearing", ![c].cmd = [cmd EXCEPT !.role = r],
                                     ![c].access = client[c].access]
        BY <3>2 DEF Typed, TypeOK, Phases
      <4>3. QED BY <1>14, <4>1, <4>2, RequestReplaced DEF Phase
    <3>3. QED BY <2>1, <3>1, <3>2
  <2>4. QED BY <1>4, <2>1, <2>2, <2>3 DEF CreateRole, Typed, TypeOK
<1>5. ASSUME UpdateRole(c) PROVE Typed'
  <2>1. CASE cmd.role \notin roles BY <1>2, <1>5, <2>1 DEF UpdateRole
  <2>2. CASE cmd.role \in roles
    <3>1. client' \in [Client -> Phases] /\ Requests'
      BY <1>1, <1>5, <2>2, RequestSteps DEF UpdateRole, Phase
    <3>2. /\ perms' \in [Role -> SUBSET Permission]
          /\ \A r \in Role \ roles : perms'[r] = {}
      BY <1>1, <1>5, <2>2 DEF UpdateRole, Writing, PermsAfter, Command, Body, Typed, TypeOK
    <3>3. QED BY <1>5, <2>2, <3>1, <3>2 DEF UpdateRole, Typed, TypeOK
  <2>3. QED BY <2>1, <2>2
<1>6. ASSUME ClearDefaults(c) \/ SetDefault(c) PROVE Typed'
  <2>1. client' \in [Client -> Phases] /\ Requests'
    BY <1>1, <1>6, RequestSteps DEF ClearDefaults, SetDefault, Phase
  <2>2. QED BY <1>6, <2>1 DEF ClearDefaults, SetDefault, Typed, TypeOK
<1>7. ASSUME ReassignMembers(c) PROVE Typed'
  <2>1. CASE Refuse(c) BY <1>2, <2>1
  <2>2. CASE roleOf' = RoleOfAfter(cmd) /\ Advance(c, "deleting")
    BY <1>1, <1>7, <2>2, RequestSteps, ResolvedCommand DEF ReassignMembers, Refuse, tables, Typed, TypeOK, Phase
  <2>3. QED BY <1>7, <2>1, <2>2 DEF ReassignMembers
<1>8. ASSUME DeleteRole(c) PROVE Typed'
  <2>1. CASE Refuse(c) BY <1>2, <2>1
  <2>2. CASE ~Refuse(c)
    BY <1>8, <2>2, RequestSteps DEF DeleteRole, Typed, TypeOK
  <2>3. QED BY <2>1, <2>2
<1>9. ASSUME Invite(c) PROVE Typed'
  <2>1. PICK s \in Staff :
          /\ status' = [status EXCEPT ![s] = "Invited"]
          /\ roleOf' = [roleOf EXCEPT ![s] = cmd.to]
          /\ client' = [client EXCEPT ![c].pc = "mailing", ![c].cmd.staff = s]
    BY <1>9 DEF Invite
  <2>2. [cmd EXCEPT !.staff = s] \in Command BY <1>1 DEF Command, Body
  <2>3. client' = [client EXCEPT ![c].pc = "mailing", ![c].cmd = [cmd EXCEPT !.staff = s],
                                 ![c].access = client[c].access]
    BY <2>1 DEF Typed, TypeOK, Phases
  <2>4. client' \in [Client -> Phases] /\ Requests'
    BY <1>14, <2>2, <2>3, RequestReplaced DEF Phase
  <2>5. cmd.to \in Role
    BY <1>9 DEF Invite, Typed, TypeOK
  <2>6. QED BY <1>9, <2>1, <2>4, <2>5 DEF Invite, Typed, TypeOK, Status
<1>10. ASSUME SendInvitation(c) PROVE Typed'
  <2>1. cmd.staff \in Staff BY <1>1 DEF Command, Body
  <2>2. QED BY <1>10, <2>1, RequestSteps DEF SendInvitation, Typed, TypeOK
<1>11. ASSUME UpdateStaff(c) PROVE Typed'
  <2>1. CASE Refuse(c) BY <1>2, <2>1
  <2>2. CASE status' = StatusAfter(cmd) /\ roleOf' = RoleOfAfter(cmd) /\ Finish(c) /\ ~Refuse(c)
    <3>1. \A s \in Staff : status[s] # "Absent" => status'[s] # "Absent"
      BY <1>1, <1>11, <2>2 DEF UpdateStaff, Writing, StatusAfter, Command, Body, Status, Typed, TypeOK
    <3>2. QED BY <1>1, <1>11, <2>2, <3>1, RequestSteps, ResolvedCommand DEF UpdateStaff, Typed, TypeOK
  <2>3. QED BY <1>11, <2>1, <2>2 DEF UpdateStaff
<1>12. ASSUME RemoveStaff(c) PROVE Typed'
  <2>1. cmd.staff \in Staff BY <1>1 DEF Command, Body
  <2>2. QED BY <1>12, <2>1, RequestSteps, RolesDistinct DEF RemoveStaff, Typed, TypeOK
<1>13. QED
  BY <1>2, <1>3, <1>4, <1>5, <1>6, <1>7, <1>8, <1>9, <1>10, <1>11, <1>12
  DEF Write, RoleTableFull, InviteRejected

(* Every step keeps the types. *)
LEMMA NextTyped == Typed /\ [Next]_vars => Typed'
<1> SUFFICES ASSUME Typed, [Next]_vars PROVE Typed' OBVIOUS
<1>1. ASSUME NEW c \in Client, NEW s \in Staff, SignIn(c, s) PROVE Typed'
  BY <1>1 DEF SignIn, NoRequest, tables, Typed, TypeOK, Phases, Phase, Requests
<1>2. ASSUME NEW s \in Staff, Activate(s) PROVE Typed'
  BY <1>2 DEF Activate, Typed, TypeOK, Requests, Status
<1>3. CASE UNCHANGED vars
  BY <1>3 DEF vars, Typed, TypeOK, Requests
<1>4. QED BY <1>1, <1>2, <1>3, GuardTyped, LoadTyped, WriteTyped DEF Next

(* The tables and the requests keep their types, and no permission, default *)
(* flag or link outlives its row, whatever requests overlap.               *)
THEOREM TypeCorrect == Spec => []TypeOK
<1>1. Typed => TypeOK BY DEF Typed
<1>2. QED BY <1>1, InitTyped, NextTyped, PTL DEF Spec

-----------------------------------------------------------------------------
(***************************************************************************)
(* With an active owner, overlapping requests cannot take the last         *)
(* administrator: no request that reached its write names the owner.       *)
(***************************************************************************)
Harmless(cmd) ==
  /\ cmd.kind = "updateStaff" /\ cmd.staff = Founder => cmd.to = None /\ cmd.status = None
  /\ cmd.kind = "removeStaff" => cmd.staff # Founder

FounderSafe ==
  /\ status[Founder] = "Active"
  /\ \A c \in Client : client[c].pc \in {"loaded", "checked"} => Harmless(client[c].cmd)

(* Provisioning makes the founder an active owner. *)
LEMMA FounderSafeInit == Init => FounderSafe
  BY StaffGiven DEF Init, FounderSafe, NoRequest

(* No request past its checks can deactivate or delete an owner, so none does. *)
LEMMA FounderSafeStep ==
  ASSUME Founder \in Owner, Typed, FounderSafe, [Next]_vars
  PROVE  FounderSafe'
<1>0. client \in [Client -> Phases] /\ Founder \in Staff
  BY StaffGiven DEF Typed, TypeOK
<1>1. ASSUME NEW c \in Client, NEW cmd \in Commands, Guard(c, cmd) PROVE FounderSafe'
  BY <1>0, <1>1 DEF Guard, tables, FounderSafe, Phases
<1>2. ASSUME NEW c \in Client, Load(c) PROVE FounderSafe'
  <2> DEFINE cmd == client[c].cmd
  <2>1. CASE Refuse(c)
    BY <1>0, <2>1 DEF Refuse, Finish, NoRequest, tables, FounderSafe, Phases
  <2>2. CASE /\ Accepts(c, cmd)
             /\ client' = [client EXCEPT ![c].pc = PhaseAfterLoad(cmd), ![c].cmd = Resolved(cmd)]
             /\ UNCHANGED tables
    <3>1. cmd \in Command BY <1>2 DEF Load, Typed, Requests
    <3>2. Harmless(Resolved(cmd))
      BY <2>2, <3>1 DEF Accepts, MayUpdateStaff, MayRemoveStaff, Resolved, NewRole, NewStatus,
                        Harmless, Command, Body
    <3>3. client'[c].cmd = Resolved(cmd) /\ \A d \in Client \ {c} : client'[d] = client[d]
      BY <1>0, <2>2 DEF Phases
    <3>4. QED BY <2>2, <3>2, <3>3 DEF FounderSafe, tables, Harmless
  <2>3. QED BY <1>2, <2>1, <2>2 DEF Load
<1>3. ASSUME NEW c \in Client, CheckAdmins(c) PROVE FounderSafe'
  BY <1>0, <1>3 DEF CheckAdmins, Advance, Refuse, Finish, NoRequest, tables, FounderSafe, Phases, Harmless
<1>4. ASSUME NEW c \in Client, Write(c) PROVE FounderSafe'
  <2> DEFINE cmd == client[c].cmd
  <2>1. client'[c].pc \notin {"loaded", "checked"}
    BY <1>0, <1>4 DEF Write, Writing, CreateRole, RoleTableFull, UpdateRole, ReassignMembers,
         DeleteRole, ClearDefaults, SetDefault, Invite, InviteRejected, SendInvitation,
         UpdateStaff, RemoveStaff, Refuse, Finish, Advance, NoRequest, Phases
  <2>2. \A d \in Client \ {c} : client'[d] = client[d]
    BY <1>0, <1>4 DEF Write, Writing, CreateRole, RoleTableFull, UpdateRole, ReassignMembers,
         DeleteRole, ClearDefaults, SetDefault, Invite, InviteRejected, SendInvitation,
         UpdateStaff, RemoveStaff, Refuse, Finish, Advance, NoRequest, Phases
  <2>3. status'[Founder] = "Active"
    <3>1. CASE UpdateStaff(c)
      BY <1>0, <3>1 DEF UpdateStaff, Writing, FounderSafe, Harmless, StatusAfter, Refuse, tables, Typed, TypeOK
    <3>2. CASE RemoveStaff(c)
      BY <1>0, <3>2 DEF RemoveStaff, Writing, FounderSafe, Harmless, Typed, TypeOK
    <3>3. CASE Invite(c)
      BY <1>0, <3>3 DEF Invite, FreshStaff, FounderSafe, Typed, TypeOK
    <3>4. CASE ~(UpdateStaff(c) \/ RemoveStaff(c) \/ Invite(c))
      BY <1>4, <3>4 DEF Write, CreateRole, RoleTableFull, UpdateRole, ReassignMembers, DeleteRole,
           ClearDefaults, SetDefault, InviteRejected, SendInvitation, Refuse, tables, FounderSafe
    <3>5. QED BY <3>1, <3>2, <3>3, <3>4
  <2>4. QED BY <2>1, <2>2, <2>3 DEF FounderSafe, Harmless
<1>5. ASSUME NEW c \in Client, NEW s \in Staff, SignIn(c, s) PROVE FounderSafe'
  BY <1>0, <1>5 DEF SignIn, NoRequest, tables, FounderSafe, Phases, Harmless
<1>6. ASSUME NEW s \in Staff, Activate(s) PROVE FounderSafe'
  BY <1>0, <1>6 DEF Activate, FounderSafe, Harmless, Typed, TypeOK
<1>7. CASE UNCHANGED vars
  BY <1>7 DEF vars, FounderSafe, Harmless
<1>8. QED BY <1>1, <1>2, <1>3, <1>4, <1>5, <1>6, <1>7 DEF Next

(* An institute whose founder owns it always has an active administrator,   *)
(* however many requests overlap.                                          *)
THEOREM OwnerKeepsAdmin ==
  ASSUME Founder \in Owner
  PROVE  Spec => []HasActiveAdmin
<1>1. Init => Typed /\ FounderSafe
  BY InitTyped, FounderSafeInit
<1>2. Typed /\ FounderSafe /\ [Next]_vars => (Typed /\ FounderSafe)'
  BY NextTyped, FounderSafeStep
<1>3. FounderSafe => HasActiveAdmin
  BY StaffGiven DEF FounderSafe, HasActiveAdmin, ActiveAdmins
<1>4. QED BY <1>1, <1>2, <1>3, PTL DEF Spec

-----------------------------------------------------------------------------
(***************************************************************************)
(* Without an owner, the check is enough only while requests do not        *)
(* overlap: a request that passed it still has its answer when it writes.  *)
(***************************************************************************)
OneAtATime ==
  \A c, d \in Client : client[c].pc # "idle" /\ client[d].pc # "idle" => c = d

(* What the request in flight has established, phase by phase. *)
Remains ==
  /\ HasActiveAdmin
  /\ \A c \in Client :
       LET cmd == client[c].cmd
       IN /\ client[c].pc = "checked" => AdminRemains(cmd)
          /\ client[c].pc = "deleting" =>
               ActiveAdmins(status, roleOf, [perms EXCEPT ![cmd.role] = {}]) # {}

(* More active members with more permissions are never fewer administrators. *)
LEMMA MoreAdmins ==
  ASSUME NEW st, NEW st2, NEW ro, NEW ro2, NEW ps, NEW ps2,
         \A s \in Staff : st[s] = "Active" =>
           st2[s] = "Active" /\ (HasMarkers(ps[ro[s]]) => HasMarkers(ps2[ro2[s]])),
         ActiveAdmins(st, ro, ps) # {}
  PROVE  ActiveAdmins(st2, ro2, ps2) # {}
  BY DEF ActiveAdmins

(* The separate checks of a member's new role and new status imply the joint one. *)
LEMMA SeparateChecks ==
  ASSUME Typed, NEW cmd \in Command, HasActiveAdmin, PassesAdminCheck(cmd)
  PROVE  AdminRemains(cmd)
<1> USE DEF Command, Body, Typed, TypeOK
<1>1. CASE cmd.kind # "updateStaff"
  BY <1>1 DEF PassesAdminCheck
<1>2. CASE cmd.kind = "updateStaff"
  <2> DEFINE roleOnly == [cmd EXCEPT !.status = None]
             statusOnly == [cmd EXCEPT !.to = None]
  <2>0. /\ PermsAfter(cmd) = perms /\ PermsAfter(roleOnly) = perms /\ PermsAfter(statusOnly) = perms
        /\ StatusAfter(roleOnly) = status /\ RoleOfAfter(roleOnly) = RoleOfAfter(cmd)
        /\ RoleOfAfter(statusOnly) = roleOf /\ StatusAfter(statusOnly) = StatusAfter(cmd)
    BY <1>2 DEF PermsAfter, StatusAfter, RoleOfAfter
  <2>1. CASE cmd.status \notin {None, "Active"}
    <3>1. ActiveAdmins(StatusAfter(cmd), roleOf, perms) # {}
      BY <1>2, <2>0, <2>1 DEF PassesAdminCheck, AdminRemains
    <3>2. \A s \in Staff : StatusAfter(cmd)[s] = "Active" => RoleOfAfter(cmd)[s] = roleOf[s]
      BY <1>2, <2>1 DEF StatusAfter, RoleOfAfter
    <3>3. QED BY <2>0, <3>1, <3>2, MoreAdmins DEF AdminRemains
  <2>2. CASE cmd.status \in {None, "Active"}
    <3>1. ActiveAdmins(status, RoleOfAfter(cmd), perms) # {}
      <4>1. CASE cmd.to # None BY <1>2, <2>0, <4>1 DEF PassesAdminCheck, AdminRemains
      <4>2. CASE cmd.to = None BY <1>2, <4>2 DEF HasActiveAdmin, RoleOfAfter
      <4>3. QED BY <4>1, <4>2
    <3>2. \A s \in Staff : status[s] = "Active" => StatusAfter(cmd)[s] = "Active"
      BY <1>2, <2>2 DEF StatusAfter
    <3>3. QED BY <2>0, <3>1, <3>2, MoreAdmins DEF AdminRemains
  <2>3. QED BY <2>1, <2>2
<1>3. QED BY <1>1, <1>2

(* The tables as they are, no request past its admin check: nothing to show. *)
LEMMA QuietStep ==
  ASSUME Remains, UNCHANGED tables, NEW c \in Client,
         client'[c].pc \notin {"checked", "deleting"},
         \A d \in Client \ {c} : client'[d] = client[d]
  PROVE  Remains'
<1>1. HasActiveAdmin' BY DEF Remains, HasActiveAdmin, ActiveAdmins, tables
<1>2. ASSUME NEW d \in Client, client'[d].pc \in {"checked", "deleting"}
      PROVE  d # c /\ client'[d] = client[d]
  BY <1>2
<1>3. QED
  BY <1>1, <1>2 DEF Remains, AdminRemains, ActiveAdmins, StatusAfter, RoleOfAfter, PermsAfter, tables

(* Opening an invitation only adds an active member. *)
LEMMA ActivateRemains ==
  ASSUME Typed, Remains, NEW s \in Staff, Activate(s)
  PROVE  Remains'
<1>0. /\ status' = [status EXCEPT ![s] = "Active"] /\ status \in [Staff -> Status \cup {"Absent"}]
      /\ UNCHANGED <<roleOf, perms, client>>
  BY DEF Activate, Typed, TypeOK
<1>6. \A x \in Staff : status[x] = "Active" => status'[x] = "Active"
  BY <1>0
<1>7. ActiveAdmins(status, roleOf, perms) # {}
  BY DEF Remains, HasActiveAdmin
<1>1. HasActiveAdmin'
  BY <1>0, <1>6, <1>7 DEF HasActiveAdmin, ActiveAdmins
<1>2. ASSUME NEW cmd \in Command, AdminRemains(cmd) PROVE AdminRemains(cmd)'
  <2>1. RoleOfAfter(cmd)' = RoleOfAfter(cmd) /\ PermsAfter(cmd)' = PermsAfter(cmd)
    BY <1>0 DEF RoleOfAfter, PermsAfter
  <2>2. \A x \in Staff : StatusAfter(cmd)[x] = "Active" => StatusAfter(cmd)'[x] = "Active"
    BY <1>0 DEF StatusAfter, Command, Body
  <2>3. QED BY <1>2, <2>1, <2>2, MoreAdmins DEF AdminRemains
<1>3. ASSUME NEW c \in Client, client[c].pc = "checked" PROVE AdminRemains(client[c].cmd)'
  BY <1>0, <1>2, <1>3 DEF Remains, Typed, Requests
<1>4. ASSUME NEW c \in Client, client[c].pc = "deleting"
      PROVE  ActiveAdmins(status', roleOf, [perms EXCEPT ![client[c].cmd.role] = {}]) # {}
  <2>1. ActiveAdmins(status, roleOf, [perms EXCEPT ![client[c].cmd.role] = {}]) # {}
    BY <1>4 DEF Remains
  <2>2. QED BY <1>6, <2>1 DEF ActiveAdmins
<1>5. QED BY <1>0, <1>1, <1>3, <1>4 DEF Remains

(* A request is past the check only if the tables it would leave have an administrator. *)
LEMMA LoadRemains ==
  ASSUME Typed, OneAtATime, Remains, NEW c \in Client, Load(c) \/ CheckAdmins(c)
  PROVE  Remains'
<1> DEFINE cmd == client[c].cmd
<1>0. /\ client \in [Client -> Phases] /\ cmd \in Command
      /\ \A d \in Client \ {c} : client'[d] = client[d]
  BY DEF Load, CheckAdmins, Typed, TypeOK, Requests, Refuse, Finish, Advance
<1>1. CASE Refuse(c)
  BY <1>0, <1>1, QuietStep DEF Refuse, Finish, NoRequest, Phases
<1>2. CASE CheckAdmins(c) /\ ~Refuse(c)
  <2>1. AdminRemains(cmd) /\ UNCHANGED tables /\ client' = [client EXCEPT ![c].pc = "checked"]
    BY <1>0, <1>2, SeparateChecks DEF CheckAdmins, Advance, Remains
  <2>2. client'[c].cmd = cmd /\ client'[c].pc = "checked"
    BY <1>0, <2>1 DEF Phases
  <2>3. \A d \in Client \ {c} : client'[d].pc = "idle"
    BY <1>0, <1>2 DEF CheckAdmins, OneAtATime
  <2>4. UNCHANGED <<status, roleOf, perms>> /\ HasActiveAdmin'
    BY <2>1 DEF tables, Remains, HasActiveAdmin, ActiveAdmins
  <2>5. ASSUME NEW d \in Client, client'[d].pc \in {"checked", "deleting"}
        PROVE  client'[d].cmd = cmd /\ client'[d].pc = "checked"
    BY <2>2, <2>3, <2>5
  <2>6. QED
    BY <2>1, <2>4, <2>5 DEF Remains, AdminRemains, StatusAfter, RoleOfAfter, PermsAfter
<1>3. CASE Load(c) /\ ~Refuse(c)
  <2>1. /\ client' = [client EXCEPT ![c].pc = PhaseAfterLoad(cmd), ![c].cmd = Resolved(cmd)]
        /\ UNCHANGED tables
    BY <1>3 DEF Load
  <2>2. client'[c].cmd = Resolved(cmd) /\ client'[c].pc = PhaseAfterLoad(cmd)
    BY <1>0, <2>1 DEF Phases
  <2>3. HasActiveAdmin'
    BY <2>1 DEF Remains, HasActiveAdmin, ActiveAdmins, tables
  <2>4. \A d \in Client \ {c} : client'[d].pc = "idle"
    BY <1>0, <1>3 DEF Load, OneAtATime
  <2>5. ASSUME PhaseAfterLoad(cmd) = "checked"
        PROVE  /\ client'[c].cmd = cmd
               /\ cmd.kind \in {"createRole", "invite"} \/ (cmd.kind = "updateRole" /\ cmd.perms = None)
    <3>1. cmd.kind \in {"createRole", "invite"} \/ (cmd.kind = "updateRole" /\ cmd.perms = None)
      BY <2>5 DEF PhaseAfterLoad
    <3>2. Resolved(cmd) = cmd
      BY <3>1 DEF Resolved
    <3>3. QED BY <2>2, <3>1, <3>2
  <2>6. PhaseAfterLoad(cmd) # "deleting"
    BY DEF PhaseAfterLoad
  <2>7. QED
    BY <2>1, <2>2, <2>3, <2>4, <2>5, <2>6
    DEF Remains, HasActiveAdmin, AdminRemains, StatusAfter, RoleOfAfter, PermsAfter, tables
<1>4. QED BY <1>1, <1>2, <1>3

(* A write leaves its client past the check, so only the tables matter. *)
LEMMA WriteRemains ==
  ASSUME Typed, OneAtATime, Remains, NEW c \in Client, Write(c)
  PROVE  Remains'
<1> DEFINE cmd == client[c].cmd
<1> USE DEF Writing
<1>0. /\ client \in [Client -> Phases] /\ cmd \in Command /\ client[c].pc # "idle"
      /\ \A d \in Client \ {c} : client'[d] = client[d]
      /\ client'[c].pc # "checked"
  BY DEF Write, CreateRole, RoleTableFull, UpdateRole, ReassignMembers,
         DeleteRole, ClearDefaults, SetDefault, Invite, InviteRejected, SendInvitation,
         UpdateStaff, RemoveStaff, Refuse, Finish, Advance, NoRequest, Phases, Typed, TypeOK, Requests
<1>1. \A d \in Client \ {c} : client'[d].pc = "idle"
  BY <1>0 DEF OneAtATime
<1>2. ASSUME HasActiveAdmin', client'[c].pc # "deleting" PROVE Remains'
  BY <1>0, <1>1, <1>2 DEF Remains
<1>3. HasActiveAdmin /\ (client[c].pc = "checked" => AdminRemains(cmd))
  BY DEF Remains
<1>4. ASSUME UNCHANGED <<status, roleOf, perms>> PROVE HasActiveAdmin'
  BY <1>3, <1>4 DEF HasActiveAdmin, ActiveAdmins
<1>5. CASE Refuse(c)
  BY <1>0, <1>4, <1>5, <1>2 DEF Refuse, Finish, NoRequest, tables, Phases
<1>6. CASE CreateRole(c)
  <2>1. PICK r \in Role : r \notin roles /\ perms' = [perms EXCEPT ![r] = cmd.perms]
    BY <1>6 DEF CreateRole, FreshRole
  <2>2. \A x \in Role : perms[x] \subseteq perms'[x]
    BY <2>1 DEF Typed, TypeOK
  <2>3. HasActiveAdmin'
    BY <1>3, <1>6, <2>2 DEF CreateRole, HasActiveAdmin, ActiveAdmins, HasMarkers, Typed, TypeOK
  <2>4. client'[c].pc # "deleting"
    BY <1>0, <1>6 DEF CreateRole, Finish, NoRequest, Phases
  <2>5. QED BY <1>2, <2>3, <2>4
<1>7. CASE UpdateRole(c) /\ ~Refuse(c)
  <2>1. perms' = PermsAfter(cmd) /\ StatusAfter(cmd) = status' /\ RoleOfAfter(cmd) = roleOf'
    BY <1>7 DEF UpdateRole, StatusAfter, RoleOfAfter
  <2>2. HasActiveAdmin'
    BY <1>3, <1>7, <2>1 DEF UpdateRole, HasActiveAdmin, AdminRemains
  <2>3. client'[c].pc # "deleting"
    BY <1>0, <1>7 DEF UpdateRole, Finish, Advance, NoRequest, Phases
  <2>4. QED BY <1>2, <2>2, <2>3
<1>8. CASE ReassignMembers(c) /\ ~Refuse(c)
  <2>1. /\ roleOf' = RoleOfAfter(cmd) /\ UNCHANGED <<status, perms>>
        /\ client' = [client EXCEPT ![c].pc = "deleting"]
    BY <1>8 DEF ReassignMembers, Advance
  <2>2. StatusAfter(cmd) = status /\ PermsAfter(cmd) = [perms EXCEPT ![cmd.role] = {}]
    BY <1>8 DEF ReassignMembers, StatusAfter, PermsAfter
  <2>3. ActiveAdmins(status', roleOf', [perms' EXCEPT ![cmd.role] = {}]) # {}
    BY <1>3, <1>8, <2>1, <2>2 DEF ReassignMembers, AdminRemains
  <2>4. \A x : HasMarkers([perms EXCEPT ![cmd.role] = {}][x]) /\ x \in Role => HasMarkers(perms[x])
    BY DEF HasMarkers, AdminMarkers, Typed, TypeOK
  <2>5. HasActiveAdmin'
    <3>1. roleOf' \in [Staff -> Role] BY <1>0, <2>1, ResolvedCommand DEF Typed
    <3>2. QED BY <2>1, <2>3, <2>4, <3>1 DEF HasActiveAdmin, ActiveAdmins
  <2>6. client'[c].cmd = cmd
    BY <1>0, <2>1 DEF Phases
  <2>7. QED BY <1>0, <1>1, <2>3, <2>5, <2>6 DEF Remains
<1>9. CASE DeleteRole(c) /\ ~Refuse(c)
  <2>1. ActiveAdmins(status, roleOf, perms') # {}
    BY <1>9 DEF DeleteRole, Remains
  <2>2. HasActiveAdmin' /\ client'[c].pc = "idle"
    BY <1>0, <1>9, <2>1 DEF DeleteRole, HasActiveAdmin, Finish, NoRequest
  <2>3. QED BY <1>2, <2>2
<1>10. CASE ClearDefaults(c) \/ SetDefault(c) \/ SendInvitation(c)
  <2>1. client'[c].pc # "deleting"
    BY <1>0, <1>10 DEF ClearDefaults, SetDefault, SendInvitation, Finish, Advance, NoRequest, Phases
  <2>2. UNCHANGED <<status, roleOf, perms>>
    BY <1>10 DEF ClearDefaults, SetDefault, SendInvitation
  <2>3. QED BY <1>2, <1>4, <2>1, <2>2
<1>11. CASE Invite(c)
  <2>1. PICK s \in Staff : /\ status[s] = "Absent"
                           /\ status' = [status EXCEPT ![s] = "Invited"]
                           /\ roleOf' = [roleOf EXCEPT ![s] = cmd.to]
    BY <1>11 DEF Invite, FreshStaff
  <2>2. HasActiveAdmin'
    BY <1>3, <1>11, <2>1 DEF Invite, HasActiveAdmin, ActiveAdmins, Typed, TypeOK
  <2>3. client'[c].pc # "deleting"
    BY <1>0, <1>11 DEF Invite, Phases
  <2>4. QED BY <1>2, <2>2, <2>3
<1>12. CASE UpdateStaff(c) /\ ~Refuse(c)
  <2>1. status' = StatusAfter(cmd) /\ roleOf' = RoleOfAfter(cmd) /\ perms' = PermsAfter(cmd)
    BY <1>12 DEF UpdateStaff, PermsAfter
  <2>2. HasActiveAdmin' /\ client'[c].pc = "idle"
    BY <1>0, <1>3, <1>12, <2>1 DEF UpdateStaff, HasActiveAdmin, AdminRemains, Finish, NoRequest
  <2>3. QED BY <1>2, <2>2
<1>13. CASE RemoveStaff(c)
  <2>1. status' = StatusAfter(cmd) /\ RoleOfAfter(cmd) = roleOf /\ PermsAfter(cmd) = perms' /\ perms' = perms
    BY <1>13 DEF RemoveStaff, StatusAfter, RoleOfAfter, PermsAfter
  <2>2. \A x \in Staff : status'[x] = "Active" => roleOf'[x] = roleOf[x]
    BY <1>0, <1>13 DEF RemoveStaff, Typed, TypeOK
  <2>3. ActiveAdmins(status', roleOf, perms) # {}
    BY <1>3, <1>13, <2>1 DEF RemoveStaff, AdminRemains
  <2>4. HasActiveAdmin'
    BY <2>1, <2>2, <2>3 DEF HasActiveAdmin, ActiveAdmins
  <2>5. client'[c].pc = "idle"
    BY <1>0, <1>13 DEF RemoveStaff, Finish, NoRequest
  <2>6. QED BY <1>2, <2>4, <2>5
<1>14. QED
  BY <1>5, <1>6, <1>7, <1>8, <1>9, <1>10, <1>11, <1>12, <1>13
  DEF Write, RoleTableFull, InviteRejected

(* With MaxInFlight = 1 at most one request is ever past its guard. *)
LEMMA OneAtATimeStep ==
  ASSUME MaxInFlight = 1, IsFiniteSet(Client), Typed, OneAtATime, [Next]_vars
  PROVE  OneAtATime'
<1>0. client \in [Client -> Phases] BY DEF Typed, TypeOK
<1>1. ASSUME NEW c \in Client, NEW cmd \in Commands, Guard(c, cmd) PROVE OneAtATime'
  <2>1. InFlight = {}
    <3>1. IsFiniteSet(InFlight) BY FS_Subset DEF InFlight
    <3>2. Cardinality(InFlight) \in Nat /\ Cardinality(InFlight) < 1
      BY <1>1, <3>1, FS_CardinalityType DEF Guard
    <3>3. QED BY <3>1, <3>2, FS_EmptySet
  <2>2. \A d \in Client \ {c} : client'[d] = client[d]
    BY <1>0, <1>1 DEF Guard
  <2>3. QED BY <2>1, <2>2 DEF InFlight, OneAtATime
<1>2. ASSUME NEW c \in Client, Load(c) \/ CheckAdmins(c) \/ Write(c) PROVE OneAtATime'
  <2>1. client[c].pc # "idle" /\ \A d \in Client \ {c} : client'[d] = client[d]
    BY <1>0, <1>2 DEF Load, CheckAdmins, Write, Writing, CreateRole, RoleTableFull, UpdateRole,
         ReassignMembers, DeleteRole, ClearDefaults, SetDefault, Invite, InviteRejected,
         SendInvitation, UpdateStaff, RemoveStaff, Refuse, Finish, Advance
  <2>2. QED BY <2>1 DEF OneAtATime
<1>3. ASSUME NEW c \in Client, NEW s \in Staff, SignIn(c, s) PROVE OneAtATime'
  BY <1>0, <1>3 DEF SignIn, NoRequest, OneAtATime, Phases
<1>4. ASSUME NEW s \in Staff, Activate(s) PROVE OneAtATime'
  BY <1>4 DEF Activate, OneAtATime
<1>5. CASE UNCHANGED vars BY <1>5 DEF vars, OneAtATime
<1>6. QED BY <1>1, <1>2, <1>3, <1>4, <1>5 DEF Next

(* Every step keeps the administrator and the promise of the request past its check. *)
LEMMA RemainsStep ==
  ASSUME Typed, OneAtATime, Remains, [Next]_vars
  PROVE  Remains'
<1>0. client \in [Client -> Phases] BY DEF Typed, TypeOK
<1>1. ASSUME NEW c \in Client, NEW cmd \in Commands, Guard(c, cmd) PROVE Remains'
  BY <1>0, <1>1, QuietStep DEF Guard, Phases
<1>2. ASSUME NEW c \in Client, NEW s \in Staff, SignIn(c, s) PROVE Remains'
  BY <1>0, <1>2, QuietStep DEF SignIn, NoRequest, Phases
<1>3. CASE UNCHANGED vars
  BY <1>3 DEF vars, Remains, HasActiveAdmin, AdminRemains, StatusAfter, RoleOfAfter, PermsAfter
<1>4. QED BY <1>1, <1>2, <1>3, ActivateRemains, LoadRemains, WriteRemains DEF Next

(* An institute without an owner keeps an active administrator as long as   *)
(* its role and staff requests are handled one at a time.                  *)
THEOREM SerialKeepsAdmin ==
  ASSUME MaxInFlight = 1, IsFiniteSet(Client)
  PROVE  Spec => []HasActiveAdmin
<1>1. Init => Typed /\ OneAtATime /\ Remains
  <2> SUFFICES ASSUME Init PROVE Typed /\ OneAtATime /\ Remains OBVIOUS
  <2>1. Founder \in ActiveAdmins(status, roleOf, perms)
    BY RolesDistinct, StaffGiven, MarkersGiven DEF Init, ActiveAdmins, HasMarkers
  <2>2. QED BY <2>1, InitTyped DEF Init, NoRequest, OneAtATime, Remains, HasActiveAdmin
<1>2. Typed /\ OneAtATime /\ Remains /\ [Next]_vars => (Typed /\ OneAtATime /\ Remains)'
  BY NextTyped, OneAtATimeStep, RemainsStep
<1>3. Remains => HasActiveAdmin BY DEF Remains
<1>4. QED BY <1>1, <1>2, <1>3, PTL DEF Spec

-----------------------------------------------------------------------------
(***************************************************************************)
(* What survives any overlap: decisions made on columns that nothing       *)
(* changes (who is an owner, which roles are the system's), and statements *)
(* that the database rejects when what was read is no longer so.           *)
(***************************************************************************)
Decided == {"loaded", "checked", "deleting"}

Careful(c) ==
  LET cmd == client[c].cmd
  IN /\ client[c].pc = "deleting" => cmd.kind = "removeRole"
     /\ client[c].pc \in Decided =>
          /\ cmd.kind = "removeRole" => cmd.role \notin SystemRoles
          /\ cmd.kind = "updateRole" /\ cmd.role = AdminRole /\ cmd.perms # None => HasMarkers(cmd.perms)
          /\ cmd.kind = "updateStaff" /\ cmd.staff \in Owner => cmd.to = None /\ cmd.status = None
          /\ cmd.kind = "removeStaff" => cmd.staff \notin Owner

RolesSound ==
  /\ AdminRoleIntact /\ NoOrphanedStaff
  /\ \A c \in Client : Careful(c)

(* What a step of a request may touch besides the tables: its own record,   *)
(* of which the caller and the role in the token stay what they are.       *)
LEMMA OwnRecord ==
  ASSUME Typed, NEW c \in Client, Load(c) \/ CheckAdmins(c) \/ Write(c)
  PROVE  /\ client[c].pc # "idle" /\ client[c].cmd \in Command /\ client[c].who \in Staff
         /\ \A d \in Client \ {c} : client'[d] = client[d]
         /\ client'[c].who = client[c].who /\ client'[c].tokenRole = client[c].tokenRole
<1>1. client[c].pc # "idle"
  BY DEF Load, CheckAdmins, Write, Writing, CreateRole, RoleTableFull, UpdateRole,
         ReassignMembers, DeleteRole, ClearDefaults, SetDefault, Invite, InviteRejected,
         SendInvitation, UpdateStaff, RemoveStaff
<1>2. client[c].cmd \in Command /\ client[c].who \in Staff /\ client \in [Client -> Phases]
  BY <1>1 DEF Typed, TypeOK, Requests
<1>3. /\ \A d \in Client \ {c} : client'[d] = client[d]
      /\ client'[c].who = client[c].who /\ client'[c].tokenRole = client[c].tokenRole
  <2>1. ASSUME Finish(c) \/ \E pc : Advance(c, pc) PROVE <1>3
    BY <1>2, <2>1 DEF Finish, Advance, NoRequest, Phases
  <2>2. CASE Load(c)
    BY <1>2, <2>1, <2>2 DEF Load, Refuse, Phases
  <2>3. CASE CreateRole(c)
    BY <1>2, <2>1, <2>3 DEF CreateRole, Phases
  <2>4. CASE Invite(c)
    BY <1>2, <2>4 DEF Invite, Phases
  <2>5. QED
    BY <2>1, <2>2, <2>3, <2>4
    DEF CheckAdmins, Write, RoleTableFull, UpdateRole, ReassignMembers, DeleteRole, ClearDefaults,
        SetDefault, InviteRejected, SendInvitation, UpdateStaff, RemoveStaff, Refuse
<1>4. QED BY <1>1, <1>2, <1>3

(* The checks of a handler leave a careful request. *)
LEMMA LoadCareful ==
  ASSUME Typed, RolesSound, NEW c \in Client, Load(c) \/ CheckAdmins(c)
  PROVE  \A d \in Client : Careful(d)'
<1> DEFINE cmd == client[c].cmd
<1>1. /\ cmd \in Command /\ client \in [Client -> Phases]
      /\ \A d \in Client \ {c} : client'[d] = client[d]
  BY OwnRecord DEF Typed, TypeOK
<1>2. \A d \in Client \ {c} : Careful(d)'
  BY <1>1 DEF RolesSound, Careful
<1>3. CASE Refuse(c)
  BY <1>1, <1>2, <1>3 DEF Refuse, Finish, NoRequest, Careful, Decided
<1>4. CASE CheckAdmins(c) /\ ~Refuse(c)
  <2>1. client[c].pc = "loaded" /\ client'[c].pc = "checked" /\ client'[c].cmd = cmd
    BY <1>1, <1>4 DEF CheckAdmins, Advance, Phases
  <2>2. QED BY <1>2, <2>1 DEF RolesSound, Careful, Decided
<1>5. CASE Load(c) /\ ~Refuse(c)
  <2>1. /\ Accepts(c, cmd)
        /\ client'[c].pc = PhaseAfterLoad(cmd) /\ client'[c].cmd = Resolved(cmd)
    BY <1>1, <1>5 DEF Load, Phases
  <2>2. PhaseAfterLoad(cmd) # "deleting"
    BY DEF PhaseAfterLoad
  <2>3. /\ Resolved(cmd).kind = cmd.kind /\ Resolved(cmd).role = cmd.role
        /\ Resolved(cmd).staff = cmd.staff /\ Resolved(cmd).perms = cmd.perms
        /\ cmd.kind = "updateStaff" => Resolved(cmd).to = NewRole(cmd) /\ Resolved(cmd).status = NewStatus(cmd)
    BY <1>1 DEF Resolved, Command, Body
  <2>4. Careful(c)'
    BY <2>1, <2>2, <2>3 DEF Careful, Accepts, MayUpdateRole, MayRemoveRole, MayUpdateStaff, MayRemoveStaff
  <2>5. QED BY <1>2, <2>4
<1>6. QED BY <1>3, <1>4, <1>5

(* A statement leaves its request idle, or at a phase without promises,     *)
(* except that moving the members leads on to the deletion.                *)
LEMMA WriteCareful ==
  ASSUME Typed, RolesSound, NEW c \in Client, Write(c)
  PROVE  \A d \in Client : Careful(d)'
<1> DEFINE cmd == client[c].cmd
<1> USE DEF Writing
<1>1. /\ cmd \in Command /\ client \in [Client -> Phases]
      /\ \A d \in Client \ {c} : client'[d] = client[d]
  BY OwnRecord DEF Typed, TypeOK
<1>2. \A d \in Client \ {c} : Careful(d)'
  BY <1>1 DEF RolesSound, Careful
<1>3. CASE client'[c].pc \notin Decided
  BY <1>2, <1>3 DEF Careful, Decided
<1>4. CASE ReassignMembers(c) /\ ~Refuse(c)
  <2>1. client[c].pc = "checked" /\ cmd.kind = "removeRole"
        /\ client'[c].pc = "deleting" /\ client'[c].cmd = cmd
    BY <1>1, <1>4 DEF ReassignMembers, Advance, Phases
  <2>2. QED BY <1>2, <2>1 DEF RolesSound, Careful, Decided
<1>5. CASE ~(ReassignMembers(c) /\ ~Refuse(c))
  <2>1. client'[c].pc \notin Decided
    <3>1. ASSUME Finish(c) \/ Advance(c, "clearing") \/ Advance(c, "setting") PROVE <2>1
      BY <1>1, <3>1 DEF Finish, Advance, NoRequest, Phases, Decided
    <3>2. CASE CreateRole(c)
      BY <1>1, <3>1, <3>2 DEF CreateRole, Phases, Decided
    <3>3. CASE Invite(c)
      BY <1>1, <3>3 DEF Invite, Phases, Decided
    <3>4. QED
      BY <1>5, <3>1, <3>2, <3>3
      DEF Write, RoleTableFull, UpdateRole, DeleteRole, ClearDefaults,
          SetDefault, InviteRejected, SendInvitation, UpdateStaff, RemoveStaff, Refuse
  <2>2. QED BY <1>3, <2>1
<1>6. QED BY <1>4, <1>5

(* No statement takes the Administrator role or its markers away, leaves a  *)
(* member on a deleted role, or touches an owner.                          *)
LEMMA WriteSound ==
  ASSUME Typed, RolesSound, NEW c \in Client, Write(c)
  PROVE  /\ AdminRoleIntact' /\ NoOrphanedStaff'
         /\ \A s \in Owner : status[s] = "Active" =>
              status'[s] = "Active" /\ (roleOf[s] = AdminRole => roleOf'[s] = AdminRole)
<1> DEFINE cmd == client[c].cmd
           Untouched == \A s \in Owner : status[s] = "Active" =>
             status'[s] = "Active" /\ (roleOf[s] = AdminRole => roleOf'[s] = AdminRole)
           Goal == AdminRoleIntact' /\ NoOrphanedStaff' /\ Untouched
<1> USE DEF Writing
<1>1. cmd \in Command /\ Careful(c)
  BY OwnRecord DEF RolesSound
<1>2. TypeOK /\ AdminRoleIntact /\ NoOrphanedStaff
  BY DEF Typed, RolesSound
<1>3. ASSUME UNCHANGED <<roles, perms, status, roleOf>> PROVE Goal
  BY <1>2, <1>3 DEF AdminRoleIntact, NoOrphanedStaff
<1>4. CASE CreateRole(c)
  <2>1. PICK r \in Role : /\ r \notin roles /\ roles' = roles \cup {r}
                          /\ perms' = [perms EXCEPT ![r] = cmd.perms]
    BY <1>4 DEF CreateRole, FreshRole
  <2>2. AdminRoleIntact'
    BY <1>2, <2>1, RolesDistinct DEF AdminRoleIntact, TypeOK
  <2>3. QED BY <1>2, <1>4, <2>1, <2>2 DEF CreateRole, NoOrphanedStaff
<1>5. CASE UpdateRole(c) /\ ~Refuse(c)
  <2>1. perms' = PermsAfter(cmd) /\ UNCHANGED <<roles, status, roleOf>> /\ client[c].pc = "checked"
    BY <1>5 DEF UpdateRole
  <2>2. AdminRoleIntact'
    BY <1>1, <1>2, <1>5, <2>1, RolesDistinct
    DEF UpdateRole, PermsAfter, AdminRoleIntact, Careful, Decided, TypeOK
  <2>3. QED BY <1>2, <2>1, <2>2 DEF NoOrphanedStaff
<1>6. CASE ReassignMembers(c) /\ ~Refuse(c)
  <2>1. /\ roleOf' = RoleOfAfter(cmd) /\ UNCHANGED <<roles, perms, status>>
        /\ client[c].pc = "checked" /\ cmd.kind = "removeRole"
        /\ InUse(cmd.role) /\ cmd.to # None => cmd.to \in roles
    BY <1>6 DEF ReassignMembers
  <2>2. cmd.role \notin SystemRoles
    BY <1>1, <2>1 DEF Careful, Decided
  <2>3. \A s \in Staff : roleOf'[s] = IF cmd.to # None /\ roleOf[s] = cmd.role THEN cmd.to ELSE roleOf[s]
    BY <1>2, <2>1 DEF RoleOfAfter, TypeOK
  <2>4. NoOrphanedStaff'
    BY <1>2, <2>1, <2>3 DEF NoOrphanedStaff, InUse
  <2>5. Untouched
    BY <2>1, <2>2, <2>3, StaffGiven DEF SystemRoles
  <2>6. QED BY <1>2, <2>1, <2>4, <2>5 DEF AdminRoleIntact
<1>7. CASE DeleteRole(c) /\ ~Refuse(c)
  <2>1. /\ roles' = roles \ {cmd.role} /\ perms' = [perms EXCEPT ![cmd.role] = {}]
        /\ ~InUse(cmd.role) /\ UNCHANGED <<status, roleOf>> /\ client[c].pc = "deleting"
    BY <1>7 DEF DeleteRole
  <2>2. cmd.role \notin SystemRoles
    BY <1>1, <2>1 DEF Careful, Decided
  <2>3. QED BY <1>2, <2>1, <2>2 DEF AdminRoleIntact, NoOrphanedStaff, InUse, SystemRoles, TypeOK
<1>8. CASE Invite(c)
  <2>1. PICK s \in Staff : /\ status[s] = "Absent" /\ cmd.to \in roles
                           /\ status' = [status EXCEPT ![s] = "Invited"]
                           /\ roleOf' = [roleOf EXCEPT ![s] = cmd.to]
                           /\ UNCHANGED <<roles, perms>>
    BY <1>8 DEF Invite, FreshStaff
  <2>2. QED BY <1>2, <2>1, StaffGiven DEF AdminRoleIntact, NoOrphanedStaff, TypeOK
<1>9. CASE UpdateStaff(c) /\ ~Refuse(c)
  <2>1. /\ status' = StatusAfter(cmd) /\ roleOf' = RoleOfAfter(cmd) /\ UNCHANGED <<roles, perms>>
        /\ cmd.kind = "updateStaff" /\ cmd.to \in roles \cup {None} /\ status[cmd.staff] # "Absent"
        /\ client[c].pc = "checked"
    BY <1>9 DEF UpdateStaff
  <2>2. \A s \in Staff :
          /\ roleOf'[s] = IF cmd.to # None /\ s = cmd.staff THEN cmd.to ELSE roleOf[s]
          /\ status'[s] = IF cmd.status # None /\ s = cmd.staff THEN cmd.status ELSE status[s]
    BY <1>1, <1>2, <2>1 DEF RoleOfAfter, StatusAfter, TypeOK
  <2>3. NoOrphanedStaff'
    BY <1>2, <2>1, <2>2 DEF NoOrphanedStaff
  <2>4. Untouched
    BY <1>1, <2>1, <2>2, StaffGiven DEF Careful, Decided
  <2>5. QED BY <1>2, <2>1, <2>3, <2>4 DEF AdminRoleIntact
<1>10. CASE RemoveStaff(c)
  <2>1. /\ status' = [status EXCEPT ![cmd.staff] = "Absent"]
        /\ roleOf' = [roleOf EXCEPT ![cmd.staff] = FacultyRole]
        /\ UNCHANGED <<roles, perms>> /\ cmd.kind = "removeStaff" /\ client[c].pc = "checked"
    BY <1>10 DEF RemoveStaff
  <2>2. cmd.staff \notin Owner
    BY <1>1, <2>1 DEF Careful, Decided
  <2>3. QED BY <1>2, <2>1, <2>2, StaffGiven DEF AdminRoleIntact, NoOrphanedStaff, TypeOK
<1>11. QED
  BY <1>3, <1>4, <1>5, <1>6, <1>7, <1>8, <1>9, <1>10
  DEF Write, RoleTableFull, InviteRejected, ClearDefaults, SetDefault, SendInvitation, Refuse, tables

(* Every step keeps the roles sound and leaves the owner alone. *)
LEMMA SoundStep ==
  ASSUME Typed, RolesSound, [Next]_vars
  PROVE  /\ RolesSound'
         /\ \A s \in Owner : status[s] = "Active" =>
              status'[s] = "Active" /\ (roleOf[s] = AdminRole => roleOf'[s] = AdminRole)
<1> DEFINE Untouched == \A s \in Owner : status[s] = "Active" =>
             status'[s] = "Active" /\ (roleOf[s] = AdminRole => roleOf'[s] = AdminRole)
<1>1. TypeOK /\ AdminRoleIntact /\ NoOrphanedStaff /\ client \in [Client -> Phases]
  BY DEF Typed, TypeOK, RolesSound
<1>2. ASSUME UNCHANGED tables PROVE AdminRoleIntact' /\ NoOrphanedStaff' /\ Untouched
  BY <1>1, <1>2 DEF tables, AdminRoleIntact, NoOrphanedStaff
<1>3. ASSUME NEW c \in Client, client'[c].pc \notin Decided,
             \A d \in Client \ {c} : client'[d] = client[d]
      PROVE  \A d \in Client : Careful(d)'
  BY <1>3 DEF RolesSound, Careful, Decided
<1>4. ASSUME NEW c \in Client, NEW s \in Staff, SignIn(c, s) PROVE RolesSound' /\ Untouched
  <2>1. client'[c].pc \notin Decided /\ \A d \in Client \ {c} : client'[d] = client[d]
    BY <1>1, <1>4 DEF SignIn, NoRequest, Decided
  <2>2. QED BY <1>2, <1>3, <1>4, <2>1 DEF SignIn, RolesSound
<1>5. ASSUME NEW s \in Staff, Activate(s) PROVE RolesSound' /\ Untouched
  <2>1. /\ status[s] # "Absent" /\ status' = [status EXCEPT ![s] = "Active"]
        /\ UNCHANGED <<roles, perms, roleOf, client>>
    BY <1>1, <1>5 DEF Activate, TypeOK
  <2>2. AdminRoleIntact' /\ NoOrphanedStaff' /\ Untouched
    BY <1>1, <2>1, StaffGiven DEF AdminRoleIntact, NoOrphanedStaff, TypeOK
  <2>3. \A c \in Client : Careful(c)'
    BY <2>1 DEF RolesSound, Careful
  <2>4. QED BY <2>2, <2>3 DEF RolesSound
<1>6. ASSUME NEW c \in Client, NEW cmd \in Commands, Guard(c, cmd) PROVE RolesSound' /\ Untouched
  <2>1. client'[c].pc \notin Decided /\ \A d \in Client \ {c} : client'[d] = client[d]
    BY <1>1, <1>6 DEF Guard, Phases, Decided
  <2>2. QED BY <1>2, <1>3, <1>6, <2>1 DEF Guard, RolesSound
<1>7. ASSUME NEW c \in Client, Load(c) \/ CheckAdmins(c) PROVE RolesSound' /\ Untouched
  <2>1. UNCHANGED tables BY <1>7 DEF Load, CheckAdmins, Refuse
  <2>2. QED BY <1>2, <1>7, <2>1, LoadCareful DEF RolesSound
<1>8. ASSUME NEW c \in Client, Write(c) PROVE RolesSound' /\ Untouched
  BY <1>8, WriteCareful, WriteSound DEF RolesSound
<1>9. CASE UNCHANGED vars
  BY <1>1, <1>9 DEF vars, RolesSound, AdminRoleIntact, NoOrphanedStaff, Careful
<1>10. QED BY <1>4, <1>5, <1>6, <1>7, <1>8, <1>9 DEF Next

(* The state provisioning leaves is sound. *)
LEMMA InitSound == Init => RolesSound
  BY RolesDistinct, StaffGiven, MarkersGiven
  DEF Init, RolesSound, AdminRoleIntact, NoOrphanedStaff, HasMarkers, Careful, Decided, NoRequest, SystemRoles

(* With or without an owner, and whatever overlaps: the Administrator role  *)
(* keeps its markers, nobody is left on a deleted role, and an owner is     *)
(* neither demoted nor deactivated.                                        *)
THEOREM RolesSurviveOverlap ==
  Spec => []AdminRoleIntact /\ []NoOrphanedStaff /\ OwnerUntouched
<1>1. RolesSound => AdminRoleIntact /\ NoOrphanedStaff
  BY DEF RolesSound
<1>2. Typed /\ RolesSound /\ [Next]_vars => (Typed /\ RolesSound)'
  BY NextTyped, SoundStep
<1>3. Typed /\ RolesSound /\ [Next]_vars =>
        [\A s \in Owner : status[s] = "Active" =>
           status'[s] = "Active" /\ (roleOf[s] = AdminRole => roleOf'[s] = AdminRole)]_vars
  BY SoundStep
<1>4. QED BY <1>1, <1>2, <1>3, InitTyped, InitSound, PTL DEF Spec, OwnerUntouched

(* An institute whose founder is an owner keeps, whatever requests overlap, *)
(* an administrator, the Administrator role, everybody's role and its owner. *)
THEOREM OverlapsSafe ==
  ASSUME Founder \in Owner
  PROVE  Spec => [](HasActiveAdmin /\ AdminRoleIntact /\ NoOrphanedStaff) /\ OwnerUntouched
<1>1. Spec => []HasActiveAdmin BY OwnerKeepsAdmin
<1>2. Spec => []AdminRoleIntact /\ []NoOrphanedStaff /\ OwnerUntouched BY RolesSurviveOverlap
<1>3. QED BY <1>1, <1>2, PTL

-----------------------------------------------------------------------------
(***************************************************************************)
(* Two more promises kept while requests do not overlap: makeDefault's two *)
(* statements leave one default, and what was compared with the caller's   *)
(* access is still what is written.                                        *)
(***************************************************************************)
Unshared ==
  /\ \A r, p \in default : r = p
  /\ \A c \in Client : LET cmd == client[c].cmd IN
       /\ client[c].pc = "clearing" => cmd.dflt = TRUE
       /\ client[c].pc = "setting" /\ cmd.dflt = TRUE => default \subseteq {cmd.role}

(* What a decided request of somebody who is not an owner may write.        *)
WithinAccess(c) ==
  LET cmd == client[c].cmd
  IN client[c].pc \in {"loaded", "checked"} /\ ~IsOwner(c) =>
       /\ cmd.kind = "createRole" => cmd.perms \subseteq client[c].access
       /\ cmd.kind = "updateRole" =>
            /\ cmd.role # client[c].tokenRole
            /\ cmd.perms # None => cmd.perms \subseteq client[c].access \cup perms[cmd.role]

(* One request at a time: whoever acts, the others rest.                    *)
LEMMA OthersRest ==
  ASSUME Typed, OneAtATime, NEW c \in Client, Load(c) \/ CheckAdmins(c) \/ Write(c)
  PROVE  \A d \in Client \ {c} : client[d].pc = "idle" /\ client'[d].pc = "idle"
  BY OwnRecord DEF OneAtATime

(* The default flag is cleared before it is set.                            *)
LEMMA UnsharedStep ==
  ASSUME Typed, OneAtATime, Unshared, [Next]_vars
  PROVE  Unshared'
<1>1. client \in [Client -> Phases] /\ default \subseteq roles
  BY DEF Typed, TypeOK
<1>2. ASSUME NEW c \in Client, default' \subseteq default,
             client'[c].pc \notin {"clearing", "setting"},
             \A d \in Client \ {c} : client'[d] = client[d]
      PROVE  Unshared'
  BY <1>2 DEF Unshared
<1>3. ASSUME NEW c \in Client, NEW s \in Staff, SignIn(c, s) PROVE Unshared'
  BY <1>1, <1>2, <1>3 DEF SignIn, NoRequest, tables
<1>4. ASSUME NEW s \in Staff, Activate(s) PROVE Unshared'
  BY <1>4 DEF Activate, Unshared
<1>5. ASSUME NEW c \in Client, NEW cmd \in Commands, Guard(c, cmd) PROVE Unshared'
  BY <1>1, <1>2, <1>5 DEF Guard, Phases, tables
<1>6. CASE UNCHANGED vars
  BY <1>6 DEF vars, Unshared
<1>7. ASSUME NEW c \in Client, Load(c) \/ CheckAdmins(c) \/ Write(c) PROVE Unshared'
  <2> DEFINE cmd == client[c].cmd
  <2>1. /\ cmd \in Command /\ client[c].pc # "idle"
        /\ \A d \in Client \ {c} : client'[d] = client[d] /\ client'[d].pc = "idle"
    BY <1>7, OwnRecord, OthersRest
  <2>2. ASSUME Finish(c), \A r, p \in default' : r = p PROVE Unshared'
    BY <1>1, <2>1, <2>2 DEF Finish, NoRequest, Unshared
  <2>3. CASE Refuse(c)
    BY <1>2, <2>2, <2>3 DEF Refuse, tables, Unshared
  <2>4. CASE (Load(c) \/ CheckAdmins(c)) /\ ~Refuse(c)
    <3>1. client'[c].pc \in {"mailing", "checked", "loaded"} /\ default' = default
      BY <1>1, <2>4 DEF Load, CheckAdmins, Advance, PhaseAfterLoad, tables, Phases
    <3>2. QED BY <1>2, <2>1, <3>1
  <2>5. CASE CreateRole(c)
    <3>1. CASE Finish(c) BY <2>2, <2>5, <3>1 DEF CreateRole, Unshared
    <3>2. CASE ~Finish(c)
      <4>1. PICK r \in Role : client' = [client EXCEPT ![c].pc = "clearing", ![c].cmd.role = r]
        BY <2>5, <3>2 DEF CreateRole
      <4>2. cmd.dflt = TRUE /\ default' = default
        BY <2>5, <3>2 DEF CreateRole
      <4>3. client'[c].pc = "clearing" /\ client'[c].cmd = [cmd EXCEPT !.role = r]
        BY <1>1, <4>1 DEF Phases
      <4>4. client'[c].cmd.dflt = TRUE
        BY <2>1, <4>2, <4>3 DEF Command, Body
      <4>5. QED BY <2>1, <4>2, <4>3, <4>4 DEF Unshared
    <3>3. QED BY <3>1, <3>2
  <2>6. CASE UpdateRole(c) /\ ~Refuse(c)
    <3>1. default' = default /\ (Finish(c) \/ (cmd.dflt = TRUE /\ Advance(c, "clearing"))
                                           \/ (cmd.dflt = FALSE /\ Advance(c, "setting")))
      BY <2>6 DEF UpdateRole
    <3>2. CASE Finish(c) BY <2>2, <3>1, <3>2 DEF Unshared
    <3>3. CASE Advance(c, "clearing") /\ cmd.dflt = TRUE
      BY <1>1, <2>1, <3>1, <3>3 DEF Advance, Unshared, Phases
    <3>4. CASE Advance(c, "setting") /\ cmd.dflt = FALSE
      BY <1>1, <2>1, <3>1, <3>4 DEF Advance, Unshared, Phases
    <3>5. QED BY <3>1, <3>2, <3>3, <3>4
  <2>7. CASE ClearDefaults(c)
    BY <1>1, <2>1, <2>7 DEF ClearDefaults, Advance, Unshared, Phases
  <2>8. CASE SetDefault(c)
    <3>1. \A r, p \in default' : r = p
      BY <2>8 DEF SetDefault, Unshared
    <3>2. QED BY <2>2, <2>8, <3>1 DEF SetDefault
  <2>9. CASE ReassignMembers(c) /\ ~Refuse(c)
    BY <1>1, <1>2, <2>1, <2>9 DEF ReassignMembers, Advance, Phases
  <2>10. CASE Invite(c)
    BY <1>1, <1>2, <2>1, <2>10 DEF Invite, Phases
  <2>11. CASE (DeleteRole(c) \/ SendInvitation(c) \/ UpdateStaff(c) \/ RemoveStaff(c)) /\ ~Refuse(c)
    <3>1. Finish(c) /\ default' \subseteq default
      BY <2>11 DEF DeleteRole, SendInvitation, UpdateStaff, RemoveStaff
    <3>2. QED BY <2>2, <3>1 DEF Unshared
  <2>12. QED
    BY <1>7, <2>3, <2>4, <2>5, <2>6, <2>7, <2>8, <2>9, <2>10, <2>11
    DEF Write, RoleTableFull, InviteRejected
<1>8. QED BY <1>3, <1>4, <1>5, <1>6, <1>7 DEF Next

(* As long as requests are handled one at a time, one role at most is the   *)
(* default, although makeDefault clears and sets it in two statements.     *)
THEOREM SerialDefault ==
  ASSUME MaxInFlight = 1, IsFiniteSet(Client)
  PROVE  Spec => []AtMostOneDefault
<1>1. Init => Typed /\ OneAtATime /\ Unshared
  BY InitTyped DEF Init, NoRequest, OneAtATime, Unshared
<1>2. Typed /\ OneAtATime /\ Unshared /\ [Next]_vars => (Typed /\ OneAtATime /\ Unshared)'
  BY NextTyped, OneAtATimeStep, UnsharedStep
<1>3. Unshared => AtMostOneDefault
  <2> SUFFICES ASSUME Unshared PROVE Cardinality(default) <= 1
    BY DEF AtMostOneDefault
  <2>1. CASE default = {} BY <2>1, FS_EmptySet
  <2>2. CASE default # {}
    <3>1. PICK r \in default : TRUE BY <2>2
    <3>2. default = {r} BY <3>1 DEF Unshared
    <3>3. QED BY <3>2, FS_Singleton
  <2>3. QED BY <2>1, <2>2
<1>4. QED BY <1>1, <1>2, <1>3, PTL DEF Spec

(* The checks of a handler compare with the caller's access. *)
LEMMA WithinStep ==
  ASSUME Typed, OneAtATime, \A c \in Client : WithinAccess(c), [Next]_vars
  PROVE  \A c \in Client : WithinAccess(c)'
<1>1. client \in [Client -> Phases]
  BY DEF Typed, TypeOK
<1>2. ASSUME NEW c \in Client, client'[c].pc \notin {"loaded", "checked"},
             \A d \in Client \ {c} : client'[d] = client[d],
             perms' = perms \/ \A d \in Client \ {c} : client'[d].pc = "idle"
      PROVE  \A d \in Client : WithinAccess(d)'
  BY <1>2 DEF WithinAccess, IsOwner
<1>3. ASSUME NEW c \in Client, NEW s \in Staff, SignIn(c, s) PROVE \A d \in Client : WithinAccess(d)'
  BY <1>1, <1>2, <1>3 DEF SignIn, NoRequest, tables
<1>4. ASSUME NEW s \in Staff, Activate(s) PROVE \A d \in Client : WithinAccess(d)'
  BY <1>4 DEF Activate, WithinAccess, IsOwner
<1>5. ASSUME NEW c \in Client, NEW cmd \in Commands, Guard(c, cmd) PROVE \A d \in Client : WithinAccess(d)'
  BY <1>1, <1>2, <1>5 DEF Guard, Phases, tables
<1>6. CASE UNCHANGED vars
  BY <1>6 DEF vars, WithinAccess, IsOwner
<1>7. ASSUME NEW c \in Client, Load(c) \/ CheckAdmins(c) \/ Write(c)
      PROVE  \A d \in Client : WithinAccess(d)'
  <2> DEFINE cmd == client[c].cmd
  <2>1. /\ cmd \in Command /\ client'[c].who = client[c].who /\ client'[c].tokenRole = client[c].tokenRole
        /\ \A d \in Client \ {c} : client'[d] = client[d] /\ client'[d].pc = "idle"
    BY <1>7, OwnRecord, OthersRest
  <2>2. CASE client'[c].pc \notin {"loaded", "checked"}
    BY <1>2, <2>1, <2>2
  <2>3. CASE CheckAdmins(c) /\ ~Refuse(c)
    <3>1. /\ client[c].pc = "loaded" /\ UNCHANGED tables
          /\ client'[c] = [client[c] EXCEPT !.pc = "checked"]
      BY <1>1, <2>3 DEF CheckAdmins, Advance
    <3>2. client'[c].cmd = cmd /\ client'[c].access = client[c].access
      BY <1>1, <3>1 DEF Phases
    <3>3. WithinAccess(c) /\ perms' = perms
      BY <3>1 DEF tables
    <3>4. WithinAccess(c)'
      BY <2>1, <3>1, <3>2, <3>3 DEF WithinAccess, IsOwner
    <3>5. QED BY <2>1, <3>4 DEF WithinAccess
  <2>4. CASE Load(c) /\ ~Refuse(c)
    <3>1. /\ Accepts(c, cmd) /\ UNCHANGED tables
          /\ client'[c] = [client[c] EXCEPT !.pc = PhaseAfterLoad(cmd), !.cmd = Resolved(cmd)]
      BY <1>1, <2>4 DEF Load
    <3>2. client'[c].cmd = Resolved(cmd) /\ client'[c].access = client[c].access
      BY <1>1, <3>1 DEF Phases
    <3>3. /\ Resolved(cmd).kind = cmd.kind /\ Resolved(cmd).role = cmd.role
          /\ Resolved(cmd).perms = cmd.perms
      BY <2>1 DEF Resolved, Command, Body
    <3>4. ~IsOwner(c) =>
            /\ cmd.kind = "createRole" => cmd.perms \subseteq client[c].access
            /\ cmd.kind = "updateRole" =>
                 /\ cmd.role # client[c].tokenRole
                 /\ cmd.perms # None => cmd.perms \subseteq client[c].access \cup perms[cmd.role]
      BY <3>1 DEF Accepts, MayUpdateRole, OwnRole, MayGrant
    <3>5. WithinAccess(c)'
      BY <2>1, <3>1, <3>2, <3>3, <3>4 DEF WithinAccess, IsOwner, tables
    <3>6. QED BY <2>1, <3>5 DEF WithinAccess
  <2>5. CASE Refuse(c)
    BY <1>1, <2>2, <2>5 DEF Refuse, Finish, NoRequest
  <2>6. CASE Write(c)
    <3>1. client'[c].pc \notin {"loaded", "checked"}
      <4>1. ASSUME Finish(c) \/ Advance(c, "clearing") \/ Advance(c, "setting") \/ Advance(c, "deleting")
            PROVE  <3>1
        BY <1>1, <4>1 DEF Finish, Advance, NoRequest, Phases
      <4>2. CASE CreateRole(c)
        BY <1>1, <4>1, <4>2 DEF CreateRole, Phases
      <4>3. CASE Invite(c)
        BY <1>1, <4>3 DEF Invite, Phases
      <4>4. QED
        BY <2>6, <4>1, <4>2, <4>3
        DEF Write, RoleTableFull, UpdateRole, DeleteRole, ClearDefaults, ReassignMembers,
            SetDefault, InviteRejected, SendInvitation, UpdateStaff, RemoveStaff, Refuse
    <3>2. QED BY <2>2, <3>1
  <2>7. QED BY <1>7, <2>3, <2>4, <2>5, <2>6
<1>8. QED BY <1>3, <1>4, <1>5, <1>6, <1>7 DEF Next

(* What the first writing statement of a request does to the permissions.   *)
LEMMA CommitWithin ==
  ASSUME Typed, \A c \in Client : WithinAccess(c), [Next]_vars,
         NEW c \in Client, Commits(c), ~IsOwner(c)
  PROVE  /\ \A r \in Role : perms'[r] \subseteq perms[r] \cup client[c].access
         /\ client[c].tokenRole = roleOf[client[c].who] =>
              perms'[client[c].tokenRole] = perms[client[c].tokenRole]
<1> DEFINE cmd == client[c].cmd
           Goal == /\ \A r \in Role : perms'[r] \subseteq perms[r] \cup client[c].access
                   /\ perms'[client[c].tokenRole] = perms[client[c].tokenRole]
<1>1. perms \in [Role -> SUBSET Permission] /\ client \in [Client -> Phases]
      /\ client[c].pc = "checked" /\ client'[c].pc # "checked"
  BY DEF Typed, TypeOK, Commits
<1>2. Write(c)
  <2>1. ASSUME NEW d \in Client, NEW s \in Staff, SignIn(d, s) PROVE FALSE
    BY <1>1, <2>1 DEF SignIn
  <2>2. ASSUME NEW s \in Staff, Activate(s) PROVE FALSE
    BY <1>1, <2>2 DEF Activate
  <2>3. ASSUME NEW d \in Client, NEW new \in Commands, Guard(d, new) PROVE FALSE
    BY <1>1, <2>3 DEF Guard
  <2>4. ASSUME NEW d \in Client, Load(d) \/ CheckAdmins(d) \/ Write(d) PROVE Write(c)
    BY <1>1, <2>4, OwnRecord DEF Load, CheckAdmins
  <2>5. QED BY <1>1, <2>1, <2>2, <2>3, <2>4 DEF Next, vars
<1>3. cmd \in Command /\ WithinAccess(c)
  BY <1>2, OwnRecord
<1>4. CASE perms' = perms
  BY <1>4
<1>5. CASE CreateRole(c)
  <2>1. PICK r \in Role : r # client[c].tokenRole /\ perms' = [perms EXCEPT ![r] = cmd.perms]
    BY <1>5 DEF CreateRole, FreshRole
  <2>2. cmd.perms \subseteq client[c].access
    BY <1>1, <1>3, <1>5 DEF CreateRole, Writing, WithinAccess
  <2>3. Goal BY <1>1, <2>1, <2>2
  <2>4. QED BY <2>3
<1>6. CASE UpdateRole(c) /\ perms' # perms
  <2>1. cmd.perms # None /\ cmd.role \in Role /\ perms' = [perms EXCEPT ![cmd.role] = cmd.perms]
    BY <1>3, <1>6 DEF UpdateRole, Refuse, tables, Writing, PermsAfter, Command, Body
  <2>2. /\ cmd.role # client[c].tokenRole
        /\ cmd.perms \subseteq client[c].access \cup perms[cmd.role]
    BY <1>1, <1>3, <1>6, <2>1 DEF UpdateRole, Writing, WithinAccess
  <2>3. Goal BY <1>1, <2>1, <2>2
  <2>4. QED BY <2>3
<1>7. QED
  BY <1>1, <1>2, <1>4, <1>5, <1>6
  DEF Write, RoleTableFull, Refuse, tables, ReassignMembers, DeleteRole, ClearDefaults, SetDefault,
      Invite, InviteRejected, SendInvitation, UpdateStaff, RemoveStaff

(* As long as requests are handled one at a time, nobody but an owner adds  *)
(* to a role a permission they do not hold, or changes the role they have. *)
THEOREM SerialGrants ==
  ASSUME MaxInFlight = 1, IsFiniteSet(Client)
  PROVE  Spec => GrantsWithinAccess
<1> DEFINE Within == \A c \in Client : WithinAccess(c)
           Granted == \A c \in Client : Commits(c) /\ ~IsOwner(c) =>
             /\ \A r \in Role : perms'[r] \subseteq perms[r] \cup client[c].access
             /\ client[c].tokenRole = roleOf[client[c].who] =>
                  perms'[client[c].tokenRole] = perms[client[c].tokenRole]
<1>1. Init => Typed /\ OneAtATime /\ Within
  BY InitTyped DEF Init, NoRequest, OneAtATime, WithinAccess
<1>2. Typed /\ OneAtATime /\ Within /\ [Next]_vars => (Typed /\ OneAtATime /\ Within)'
  BY NextTyped, OneAtATimeStep, WithinStep
<1>3. Typed /\ Within /\ [Next]_vars => [Granted]_vars
  BY CommitWithin
<1>4. QED BY <1>1, <1>2, <1>3, PTL DEF Spec, GrantsWithinAccess
=============================================================================
