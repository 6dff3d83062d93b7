---------------------------- MODULE MCStaffRoles ----------------------------
(* Constants for model-checking StaffRoles: which requests the clients make. *)
EXTENDS StaffRoles

CONSTANT Clerk       \* the id of a role of the institute's own

Request(kind) ==
  [kind |-> kind, role |-> Clerk, staff |-> Founder, perms |-> None,
   to |-> None, status |-> None, dflt |-> None]

NewRoles(ps, ds) == {[Request("createRole") EXCEPT !.perms = p, !.dflt = d] : p \in ps, d \in ds}
RoleEdits(rs, ps, ds) ==
  {[Request("updateRole") EXCEPT !.role = r, !.perms = p, !.dflt = d] : r \in rs, p \in ps, d \in ds}
RoleRemovals(rs, ts) == {[Request("removeRole") EXCEPT !.role = r, !.to = t] : r \in rs, t \in ts}
Invitations(ts) == {[Request("invite") EXCEPT !.to = t] : t \in ts}
Resends(ss) == {[Request("resend") EXCEPT !.staff = s] : s \in ss}
StaffEdits(ss, ts, sts) ==
  {[Request("updateStaff") EXCEPT !.staff = s, !.to = t, !.status = st] : s \in ss, t \in ts, st \in sts}
StaffRemovals(ss) == {[Request("removeStaff") EXCEPT !.staff = s] : s \in ss}

Markers == {FacultyManage, SettingsManage}

(* Every request, with the permissions that decide who is an administrator. *)
AllCommands ==
  NewRoles({Markers, {FacultyManage}}, {TRUE, None})
    \cup RoleEdits(Role, {None, {}, {FacultyManage}, Markers}, {None})
    \cup RoleEdits(Role, {None}, {TRUE, FALSE})
    \cup RoleRemovals(Role, Role \cup {None})
    \cup Invitations(Role) \cup Resends(Staff)
    \cup StaffEdits(Staff, Role \cup {None}, Status \cup {None})
    \cup StaffRemovals(Staff)

(* Requests for two clients at once: each kind that the hazards need. *)
OverlapCommands ==
  NewRoles({Markers}, {None})
    \cup RoleEdits({AdminRole, Clerk}, {{}}, {None})
    \cup RoleRemovals({Clerk}, {AdminRole, None})
    \cup Invitations({Clerk})
    \cup StaffEdits(Staff, {Clerk, None}, {"Inactive", None})
    \cup StaffRemovals(Staff)

(* A clerk manages staff and holds nothing else. *)
ClerkCommands ==
  NewRoles({{FacultyManage}}, {None}) \cup Invitations({Clerk, FacultyRole, AdminRole})
    \cup StaffEdits(Staff, {Clerk, FacultyRole}, {None})
    \cup RoleEdits({Clerk, FacultyRole}, {{FacultyManage}, {}}, {None})
    \cup RoleRemovals({Clerk}, {AdminRole, FacultyRole})
=============================================================================
