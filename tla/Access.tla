------------------------------- MODULE Access -------------------------------
(***************************************************************************)
(* Who may call what: the access level, the admin roles that controllers   *)
(* assign and revoke, and the checks that every endpoint begins with.      *)
(*                                                                         *)
(* The canister keeps the assignments in a vector and takes the first that *)
(* names a principal.  They are a set here: there is one for a principal   *)
(* at most (OneRoleEach), which assignAdminRole sees to by removing before *)
(* it adds.  Who assigned a role, when, and the note are left out: no      *)
(* check reads them.                                                       *)
(***************************************************************************)
EXTENDS Integers

CONSTANTS
  Principals,   \* callers
  Controllers,  \* the controllers of the canister
  Anonymous,    \* the anonymous principal
  Grantees,     \* bound: principals that are given roles
  Levels        \* what callers pass to set_access

ASSUME AccessAssumption ==
  /\ Controllers \subseteq Principals /\ Grantees \subseteq Principals
  /\ Anonymous \in Principals /\ Levels \subseteq Nat

VARIABLES
  level,  \* access_level: 0, only controllers; 1, all except anonymous
  roles   \* admin_role_assignments

access == <<level, roles>>

AdminRoles == {"AdminQuery", "AdminUpdate"}
Assignments == [principal : Principals, role : AdminRoles]

AccessTypeOK == level \in 0 .. 1 /\ roles \subseteq Assignments

AccessInit == level = 0 /\ roles = {}

\* get_admin_role_for_principal
AssignmentsOf(p) == {a \in roles : a.principal = p}

IsCallerWhitelisted(p) == p \in Controllers \/ (level = 1 /\ p # Anonymous)

\* AdminUpdate includes AdminQuery.
HasAdminQueryRole(p) == p \in Controllers \/ AssignmentsOf(p) # {}

HasAdminUpdateRole(p) ==
  p \in Controllers \/ \E a \in AssignmentsOf(p) : a.role = "AdminUpdate"

HasAdminUpdateOrWhitelisted(p) == HasAdminUpdateRole(p) \/ IsCallerWhitelisted(p)

\* Mutant of SetAccess: the level is not checked.
SetAccessUnchecked(caller, l) ==
  caller \in Controllers /\ level' = l /\ UNCHANGED roles

\* set_access
SetAccess(caller, l) ==
  /\ caller \in Controllers
  /\ l <= 1
  /\ level' = l
  /\ UNCHANGED roles

\* Mutant of AssignAdminRole: an earlier assignment is not removed.
AssignAdminRoleAppending(caller, p, r) ==
  /\ caller \in Controllers
  /\ roles' = roles \cup {[principal |-> p, role |-> r]}
  /\ UNCHANGED level

\* assignAdminRole replaces what p had.
AssignAdminRole(caller, p, r) ==
  /\ caller \in Controllers
  /\ roles' = (roles \ AssignmentsOf(p)) \cup {[principal |-> p, role |-> r]}
  /\ UNCHANGED level

\* revokeAdminRole erases the first assignment it finds, and no other.
RevokeAdminRole(caller, p) ==
  /\ caller \in Controllers
  /\ \E a \in AssignmentsOf(p) : roles' = roles \ {a}
  /\ UNCHANGED level

AccessCall ==
  \E caller \in Principals :
    \/ \E l \in Levels : SetAccess(caller, l)
    \/ \E p \in Grantees, r \in AdminRoles : AssignAdminRole(caller, p, r)
    \/ \E p \in Grantees : RevokeAdminRole(caller, p)

\* An upgrade initialises the static variables anew.
AccessUpgrade == level' = 0 /\ roles' = {}

-----------------------------------------------------------------------------
\* No principal has two assignments, whichever was assigned, changed or revoked
\* before: the first one found is the one that counts.
OneRoleEach == \A a, b \in roles : a.principal = b.principal => a = b
=============================================================================
