--------------------------- MODULE RoleMigration ---------------------------
(***************************************************************************)
(* The migration 20260929101500_roles_as_data, which makes rows of the      *)
(* fixed staff roles of before.  It runs once, in one transaction: it is    *)
(* applied whole or refused by a constraint.                                *)
(* Op_Fault is Op with one fault, to show that a property depends on Op.   *)
(***************************************************************************)
EXTENDS FiniteSets

CONSTANTS Tenants, Members

OldRole == {"owner", "admin", "faculty", "accountant", "front_desk"}
NoRole == [of |-> "", key |-> "", row |-> ""]

VARIABLES staff, roleRows, applied

vars == <<staff, roleRows, applied>>

(* staff."role", before. *)
Init ==
  /\ staff \in [Members -> [of : Tenants, old : OldRole, role : {NoRole}, owner : {FALSE}]]
  /\ roleRows = {} /\ applied = "no"

(* A row for each institute; and one for each member with the old role:     *)
(* every row selected has a new id, so DISTINCT tells them all apart.       *)
SystemRows == [of : Tenants, key : {"admin", "faculty"}, row : {"system"}]
FormerRows ==
  {[of |-> staff[s].of, key |-> staff[s].old, row |-> s] :
     s \in {m \in Members : staff[m].old \in {"accountant", "front_desk"}}}
Backfill == SystemRows \cup FormerRows
Unique(rows) == \A r, q \in rows : r.of = q.of /\ r.key = q.key => r = q

KeyOf(old) == IF old = "owner" THEN "admin" ELSE old
Matching(s) == {r \in Backfill : r.of = staff[s].of /\ r.key = KeyOf(staff[s].old)}
Fallback(s) == [of |-> staff[s].of, key |-> "admin", row |-> "system"]
Updated(s) ==
  [staff[s] EXCEPT !.role = IF Matching(s) = {} THEN Fallback(s) ELSE CHOOSE r \in Matching(s) : TRUE,
                   !.owner = staff[s].old = "owner"]

Migrate ==
  /\ applied = "no"
  /\ IF Unique(Backfill)
       THEN applied' = "yes" /\ roleRows' = Backfill /\ staff' = [s \in Members |-> Updated(s)]
       ELSE applied' = "refused" /\ UNCHANGED <<staff, roleRows>>

Next == Migrate
Spec == Init /\ [][Next]_vars

-----------------------------------------------------------------------------
(* "One role row per (tenant, old enum value) that is actually in use", and *)
(* everybody keeps what they were; unless two of an institute were          *)
(* accountants, or at the front desk, when nothing is applied.              *)
Backfilled ==
  /\ applied = "yes" =>
       /\ \A s \in Members : /\ staff[s].role \in roleRows /\ staff[s].role.of = staff[s].of
                             /\ staff[s].role.key = KeyOf(staff[s].old)
                             /\ staff[s].owner <=> staff[s].old = "owner"
       /\ \A r \in roleRows : r.row # "system" => \E s \in Members : staff[s].role = r
  /\ applied = "refused" <=>
       /\ applied # "no"
       /\ \E s, m \in Members : /\ s # m /\ staff[s].of = staff[m].of /\ staff[s].old = staff[m].old
                                /\ staff[s].old \in {"accountant", "front_desk"}
=============================================================================
