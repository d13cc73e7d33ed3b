------------------------------- MODULE Access -------------------------------
(***************************************************************************)
(* Who may do one action on one resource.  A staff member may by a role, by *)
(* an override of their own or by a temporary permission; the permission   *)
(* guard of the REST server asks for these one after the other, each by a   *)
(* query of its own, while administrators and the clock change them.        *)
(***************************************************************************)
EXTENDS Naturals

CONSTANTS
  Members,     \* staff members
  Roles,
  Temporaries, \* ids of temporary permissions
  Specials,    \* ids of special access grants
  Guards,      \* requests being guarded at the same time
  Edits,       \* bound: administrative calls in progress at the same time
  MaxRows      \* bound: assignments of one role to one member, ever

ASSUME MaxRowsAssumption == MaxRows \in Nat

VARIABLES
  grants,     \* the roles that have the permission
  made,       \* made[m]: the assignments ever created for m
  active,     \* active[m]: those without revokedAt
  override,   \* override[m]: the row of m for the resource and action
  temporary,  \* temporary[m]: the state of each temporary permission of m
  special,    \* special[m]: the state of each special access grant of m
  edit,       \* the administrative calls in progress
  guard,      \* the requests in requirePermission
  seen,       \* seen[g]: the sources that allowed it at some moment of g
  held        \* held[g]: the sources that allowed it at every moment of g

rights == <<grants, made, active, override, temporary, special>>
accessVars == <<rights, edit, guard, seen, held>>

Rows == Roles \X (1..MaxRows)
Expiries == {"never", "ahead", "past"}
NoOverride == [exists |-> FALSE, granted |-> FALSE, revoked |-> FALSE, expiry |-> "never"]
Overrides == [exists: BOOLEAN, granted: BOOLEAN, revoked: BOOLEAN, expiry: Expiries]
GrantStates == {"unused", "live", "lapsed", "revoked"}

RoleAllows(m) == \E row \in active[m] : row[1] \in grants
OverrideCounts(m) ==
  /\ override[m].exists /\ ~override[m].revoked
  /\ override[m].expiry # "past"
OverrideAllows(m) == OverrideCounts(m) /\ override[m].granted
TemporaryAllows(m) == \E t \in Temporaries : temporary[m][t] = "live"

\* What allows m at this moment.
Sources(m) ==
  {s \in {"ROLE", "OVERRIDE", "TEMPORARY"} :
    \/ s = "ROLE" /\ RoleAllows(m)
    \/ s = "OVERRIDE" /\ OverrideAllows(m)
    \/ s = "TEMPORARY" /\ TemporaryAllows(m)}

NoEdit == [op |-> "none", member |-> "none", role |-> "none", number |-> 0]
NoGuard == [pc |-> "idle", member |-> "none", role |-> FALSE]

AccessInit ==
  /\ grants = {}
  /\ made = [m \in Members |-> {}]
  /\ active = made
  /\ override = [m \in Members |-> NoOverride]
  /\ temporary = [m \in Members |-> [t \in Temporaries |-> "unused"]]
  /\ special = [m \in Members |-> [x \in Specials |-> "unused"]]
  /\ edit = [c \in Edits |-> NoEdit]
  /\ guard = [g \in Guards |-> NoGuard]
  /\ seen = [g \in Guards |-> {}]
  /\ held = [g \in Guards |-> {}]

-----------------------------------------------------------------------------
\* PermissionsService.grant and revoke: the row of a role and a permission.
GrantPermission(role) ==
  /\ grants' = grants \union {role}
  /\ UNCHANGED <<made, active, override, temporary, special, edit, guard>>

RevokePermission(role) ==
  /\ role \in grants
  /\ grants' = grants \ {role}
  /\ UNCHANGED <<made, active, override, temporary, special, edit, guard>>

CreateRow(m, role) ==
  \E n \in 1..MaxRows :
    /\ <<role, n>> \notin made[m]
    /\ made' = [made EXCEPT ![m] = @ \union {<<role, n>>}]
    /\ active' = [active EXCEPT ![m] = @ \union {<<role, n>>}]

\* StaffService.assignRole does not look at the rows of the same role.
AssignRole(m, role) ==
  /\ CreateRow(m, role)
  /\ UNCHANGED <<grants, override, temporary, special, edit, guard>>

\* assignRoleToStaff revokes the rows of the role and creates one, in two statements.
BeginReassign(c, m, role) ==
  /\ edit[c].op = "none"
  /\ active' = [active EXCEPT ![m] = {row \in @ : row[1] # role}]
  /\ edit' = [edit EXCEPT ![c] = [op |-> "assign", member |-> m, role |-> role, number |-> 0]]
  /\ UNCHANGED <<grants, made, override, temporary, special, guard>>

EndReassign(c) ==
  /\ edit[c].op = "assign"
  /\ CreateRow(edit[c].member, edit[c].role)
  /\ edit' = [edit EXCEPT ![c] = NoEdit]
  /\ UNCHANGED <<grants, override, temporary, special, guard>>

\* removeRoleFromStaff finds one row of the role and revokes that row.
BeginRemove(c, m, role, n) ==
  /\ edit[c].op = "none"
  /\ <<role, n>> \in active[m]
  /\ edit' = [edit EXCEPT ![c] = [op |-> "remove", member |-> m, role |-> role, number |-> n]]
  /\ UNCHANGED <<rights, guard>>

EndRemove(c) ==
  /\ edit[c].op = "remove"
  /\ active' = [active EXCEPT ![edit[c].member] = @ \ {<<edit[c].role, edit[c].number>>}]
  /\ edit' = [edit EXCEPT ![c] = NoEdit]
  /\ UNCHANGED <<grants, made, override, temporary, special, guard>>

\* The upsert: an expiry that is not sent is left as it was, a revocation is undone.
GrantOverride(m, granted, expiry) ==
  /\ override' = [override EXCEPT ![m] =
       [exists |-> TRUE, granted |-> granted, revoked |-> FALSE,
        expiry |-> IF expiry = "unsent" THEN @.expiry ELSE expiry]]
  /\ UNCHANGED <<grants, made, active, temporary, special, edit, guard>>

RevokeOverride(m) ==
  /\ override[m].exists
  /\ override' = [override EXCEPT ![m].revoked = TRUE]
  /\ UNCHANGED <<grants, made, active, temporary, special, edit, guard>>

GrantTemporary(m, t) ==
  /\ temporary[m][t] = "unused"
  /\ temporary' = [temporary EXCEPT ![m][t] = "live"]
  /\ UNCHANGED <<grants, made, active, override, special, edit, guard>>

RevokeTemporary(m, t) ==
  /\ temporary[m][t] # "unused"
  /\ temporary' = [temporary EXCEPT ![m][t] = "revoked"]
  /\ UNCHANGED <<grants, made, active, override, special, edit, guard>>

\* Special access is recorded and revoked; no guard reads it.
GrantSpecial(m, x) ==
  /\ special[m][x] = "unused"
  /\ special' = [special EXCEPT ![m][x] = "live"]
  /\ UNCHANGED <<grants, made, active, override, temporary, edit, guard>>

RevokeSpecial(m, x) ==
  /\ special[m][x] # "unused"
  /\ special' = [special EXCEPT ![m][x] = "revoked"]
  /\ UNCHANGED <<grants, made, active, override, temporary, edit, guard>>

\* The clock.
LapseOverride(m) ==
  /\ override[m].expiry = "ahead"
  /\ override' = [override EXCEPT ![m].expiry = "past"]
  /\ UNCHANGED <<grants, made, active, temporary, special, edit, guard>>

LapseTemporary(m, t) ==
  /\ temporary[m][t] = "live"
  /\ temporary' = [temporary EXCEPT ![m][t] = "lapsed"]
  /\ UNCHANGED <<grants, made, active, override, special, edit, guard>>

LapseSpecial(m, x) ==
  /\ special[m][x] = "live"
  /\ special' = [special EXCEPT ![m][x] = "lapsed"]
  /\ UNCHANGED <<grants, made, active, override, temporary, edit, guard>>

\* processExpiredPermissions: one statement for each of the three tables.
Swept(f) == [k \in DOMAIN f |-> IF f[k] = "lapsed" THEN "revoked" ELSE f[k]]

ExpireOverrides(c) ==
  /\ edit[c].op = "none"
  /\ override' = [m \in Members |->
       IF override[m].expiry = "past" THEN [override[m] EXCEPT !.revoked = TRUE] ELSE override[m]]
  /\ edit' = [edit EXCEPT ![c].op = "temporaries"]
  /\ UNCHANGED <<grants, made, active, temporary, special, guard>>

ExpireTemporaries(c) ==
  /\ edit[c].op = "temporaries"
  /\ temporary' = [m \in Members |-> Swept(temporary[m])]
  /\ edit' = [edit EXCEPT ![c].op = "specials"]
  /\ UNCHANGED <<grants, made, active, override, special, guard>>

ExpireSpecials(c) ==
  /\ edit[c].op = "specials"
  /\ special' = [m \in Members |-> Swept(special[m])]
  /\ edit' = [edit EXCEPT ![c] = NoEdit]
  /\ UNCHANGED <<grants, made, active, override, temporary, guard>>

-----------------------------------------------------------------------------
\* requirePermission asks check, then hasOverride, then checkAccess, and stops at the first yes.
GoTo(g, pc) == guard' = [guard EXCEPT ![g].pc = pc]

BeginGuard(g, m) ==
  /\ guard[g].pc = "idle"
  /\ guard' = [guard EXCEPT ![g] = [NoGuard EXCEPT !.pc = "check", !.member = m]]
  /\ UNCHANGED <<rights, edit>>

Check(g) ==
  /\ guard[g].pc = "check"
  /\ GoTo(g, IF RoleAllows(guard[g].member) THEN "allowed" ELSE "hasOverride")
  /\ UNCHANGED <<rights, edit>>

\* Faulty: an override that counts is taken for one that grants.
AnyOverride(g) ==
  /\ guard[g].pc = "hasOverride"
  /\ GoTo(g, IF OverrideCounts(guard[g].member) THEN "allowed" ELSE "checkAccess")
  /\ UNCHANGED <<rights, edit>>

HasOverride(g) ==
  /\ guard[g].pc = "hasOverride"
  /\ GoTo(g, IF OverrideAllows(guard[g].member) THEN "allowed" ELSE "checkAccess")
  /\ UNCHANGED <<rights, edit>>

\* checkAccess asks for the roles and the override once more; the override goes before the roles.
ReadRoles(g) ==
  /\ guard[g].pc = "checkAccess"
  /\ guard' = [guard EXCEPT ![g].pc = "override", ![g].role = RoleAllows(guard[g].member)]
  /\ UNCHANGED <<rights, edit>>

ReadOverride(g) ==
  LET m == guard[g].member
      allowed == OverrideAllows(m) \/ (guard[g].role /\ ~OverrideCounts(m))
  IN /\ guard[g].pc = "override"
     /\ guard' = [guard EXCEPT ![g].role = FALSE, ![g].pc = IF allowed THEN "allowed" ELSE "temporary"]
     /\ UNCHANGED <<rights, edit>>

ReadTemporary(g) ==
  /\ guard[g].pc = "temporary"
  /\ GoTo(g, IF TemporaryAllows(guard[g].member) THEN "allowed" ELSE "refused")
  /\ UNCHANGED <<rights, edit>>

EndGuard(g) ==
  /\ guard[g].pc \in {"allowed", "refused"}
  /\ guard' = [guard EXCEPT ![g] = NoGuard]
  /\ UNCHANGED <<rights, edit>>

-----------------------------------------------------------------------------
\* What was seen and held from the first query of the guard to its last.
Watch ==
  LET Begins(g) == guard[g].pc = "idle" /\ guard'[g].pc # "idle"
      Waits(g) == guard[g].pc \in {"allowed", "refused"} /\ guard'[g].pc # "idle"
  IN /\ seen' = [g \in Guards |->
          CASE guard'[g].pc = "idle" -> {}
            [] Begins(g) -> Sources(guard'[g].member)
            [] Waits(g) -> seen[g]
            [] OTHER -> seen[g] \union Sources(guard[g].member)']
     /\ held' = [g \in Guards |->
          CASE guard'[g].pc = "idle" -> {}
            [] Begins(g) -> Sources(guard'[g].member)
            [] Waits(g) -> held[g]
            [] OTHER -> held[g] \intersect Sources(guard[g].member)']

RightsStep ==
  \/ \E role \in Roles : GrantPermission(role) \/ RevokePermission(role)
  \/ \E m \in Members :
       \/ \E role \in Roles : AssignRole(m, role)
       \/ \E granted \in BOOLEAN, expiry \in {"unsent", "ahead"} : GrantOverride(m, granted, expiry)
       \/ RevokeOverride(m)
       \/ LapseOverride(m)
       \/ \E t \in Temporaries : GrantTemporary(m, t) \/ RevokeTemporary(m, t) \/ LapseTemporary(m, t)
  \/ \E c \in Edits :
       \/ \E m \in Members, role \in Roles : BeginReassign(c, m, role)
       \/ EndReassign(c)
       \/ \E m \in Members, role \in Roles, n \in 1..MaxRows : BeginRemove(c, m, role, n)
       \/ EndRemove(c)

SpecialStep ==
  \E m \in Members, x \in Specials : GrantSpecial(m, x) \/ RevokeSpecial(m, x) \/ LapseSpecial(m, x)

SweepStep == \E c \in Edits : ExpireOverrides(c) \/ ExpireTemporaries(c) \/ ExpireSpecials(c)

GuardStep(g) ==
  \/ \E m \in Members : BeginGuard(g, m)
  \/ Check(g)
  \/ HasOverride(g)
  \/ ReadRoles(g)
  \/ ReadOverride(g)
  \/ ReadTemporary(g)
  \/ EndGuard(g)

AccessStep == RightsStep \/ SpecialStep \/ SweepStep \/ \E g \in Guards : GuardStep(g)

AccessNext == AccessStep /\ Watch

AccessSpec == AccessInit /\ [][AccessNext]_accessVars

-----------------------------------------------------------------------------
EditStates ==
  [op: {"none", "assign", "remove", "temporaries", "specials"}, member: Members \union {"none"},
   role: Roles \union {"none"}, number: Nat]

GuardStates ==
  [pc: {"idle", "check", "hasOverride", "checkAccess", "override", "temporary", "allowed", "refused"},
   member: Members \union {"none"}, role: BOOLEAN]

AccessTypeOK ==
  /\ grants \subseteq Roles
  /\ made \in [Members -> SUBSET Rows]
  /\ active \in [Members -> SUBSET Rows]
  /\ override \in [Members -> Overrides]
  /\ temporary \in [Members -> [Temporaries -> GrantStates]]
  /\ special \in [Members -> [Specials -> GrantStates]]
  /\ edit \in [Edits -> EditStates]
  /\ \A c \in Edits : edit[c].op = "assign" => edit[c].member \in Members /\ edit[c].role \in Roles
  /\ guard \in [Guards -> GuardStates]
  /\ seen \in [Guards -> SUBSET {"ROLE", "OVERRIDE", "TEMPORARY"}]
  /\ held \in [Guards -> SUBSET {"ROLE", "OVERRIDE", "TEMPORARY"}]

\* However the queries of the guard interleave with administrators, the clock and the sweep of
\* expired grants: a request is let through only if something allowed it at some moment of the
\* guard, and is refused only if nothing allowed it throughout (requirePermission, checkAccess).
GuardIsRight ==
  \A g \in Guards :
    /\ guard[g].pc = "allowed" => seen[g] # {}
    /\ guard[g].pc = "refused" => held[g] = {}
=============================================================================
