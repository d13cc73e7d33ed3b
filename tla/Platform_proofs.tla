--------------------------- MODULE Platform_proofs ---------------------------
(***************************************************************************)
(* Proofs about the parts of the platform that MCPlatform puts together,   *)
(* each for any number of its actors and of what they act upon.  A section *)
(* for each module: what its actors know at each point, the invariant that *)
(* says so, its steps, and what it implies; the last puts them together.   *)
(***************************************************************************)
EXTENDS MCPlatform, Notices_proofs, FiniteSetTheorems, TLAPS

(***************************************************************************)
(*                                 Access                                  *)
(*                                                                         *)
(* A guard reads one source of a right after another, beside the rights'   *)
(* own changes: what held throughout, and what was seen at all, is kept in *)
(* step with the answers it has had.                                       *)
(***************************************************************************)

AllSources == {"ROLE", "OVERRIDE", "TEMPORARY"}
Asking == {"check", "hasOverride", "checkAccess", "override", "temporary"}

RightsOK ==
  /\ grants \subseteq Roles
  /\ made \in [Members -> SUBSET Rows]
  /\ active \in [Members -> SUBSET Rows]
  /\ override \in [Members -> Overrides]
  /\ temporary \in [Members -> [Temporaries -> GrantStates]]
  /\ special \in [Members -> [Specials -> GrantStates]]
  /\ edit \in [Edits -> EditStates]
  /\ \A c \in Edits : edit[c].op = "assign" => edit[c].member \in Members /\ edit[c].role \in Roles

GuardOK ==
  /\ guard \in [Guards -> GuardStates]
  /\ seen \in [Guards -> SUBSET AllSources]
  /\ held \in [Guards -> SUBSET AllSources]

\* What the histories of a guard say at each point: while it asks, what held is so now and what
\* is so now was seen; each "no" rules its source out of what held; the roles it keeps were seen.
Told(g) ==
  /\ guard[g].pc \in Asking =>
       held[g] \subseteq Sources(guard[g].member) /\ Sources(guard[g].member) \subseteq seen[g]
  /\ guard[g].pc \in Asking \ {"check"} => "ROLE" \notin held[g]
  /\ guard[g].pc \in Asking \ {"check", "hasOverride"} => "OVERRIDE" \notin held[g]
  /\ guard[g].role => guard[g].pc = "override" /\ "ROLE" \in seen[g]
  /\ guard[g].pc = "allowed" => seen[g] # {}
  /\ guard[g].pc = "refused" => held[g] = {}

AllTold == \A g \in Guards : Told(g)

AccessIInv == RightsOK /\ GuardOK /\ AllTold

\* Nothing is granted at first, and nothing asked.
LEMMA AccessInitial == AccessInit => AccessIInv
<1> SUFFICES ASSUME AccessInit PROVE AccessIInv
  OBVIOUS
<1>1. RightsOK
  BY DEF AccessInit, RightsOK, NoOverride, Overrides, Expiries, GrantStates, NoEdit, EditStates
<1>2. GuardOK /\ AllTold
  BY DEF AccessInit, GuardOK, AllTold, Told, NoGuard, GuardStates, Asking
<1>3. QED BY <1>1, <1>2 DEF AccessIInv

-----------------------------------------------------------------------------
(* The rights *)

\* A row of the assignments is one of Rows.
LEMMA RowCreated ==
  ASSUME NEW m \in Members, NEW role \in Roles, CreateRow(m, role),
         made \in [Members -> SUBSET Rows], active \in [Members -> SUBSET Rows]
  PROVE  made' \in [Members -> SUBSET Rows] /\ active' \in [Members -> SUBSET Rows]
<1>1. PICK n \in 1..MaxRows :
        /\ made' = [made EXCEPT ![m] = @ \union {<<role, n>>}]
        /\ active' = [active EXCEPT ![m] = @ \union {<<role, n>>}]
  BY DEF CreateRow
<1>2. <<role, n>> \in Rows
  BY DEF Rows
<1>3. QED BY <1>1, <1>2

\* An administrator's step, the clock's and the sweep's keep the types and leave the guards alone.
LEMMA RightsStepOK == RightsOK /\ RightsStep => RightsOK' /\ UNCHANGED guard
<1> SUFFICES ASSUME RightsOK, RightsStep PROVE RightsOK' /\ UNCHANGED guard
  OBVIOUS
<1>1. ASSUME NEW role \in Roles, GrantPermission(role) \/ RevokePermission(role)
      PROVE  RightsOK' /\ UNCHANGED guard
  BY <1>1 DEF GrantPermission, RevokePermission, RightsOK
<1>2. ASSUME NEW m \in Members, NEW role \in Roles, AssignRole(m, role)
      PROVE  RightsOK' /\ UNCHANGED guard
  BY <1>2, RowCreated DEF AssignRole, RightsOK
<1>3. ASSUME NEW m \in Members, NEW granted \in BOOLEAN, NEW expiry \in {"unsent", "ahead"},
             GrantOverride(m, granted, expiry)
      PROVE  RightsOK' /\ UNCHANGED guard
  BY <1>3 DEF GrantOverride, RightsOK, Overrides, Expiries
<1>4. ASSUME NEW m \in Members, RevokeOverride(m) \/ LapseOverride(m)
      PROVE  RightsOK' /\ UNCHANGED guard
  <2>1. \E changed \in Overrides : override' = [override EXCEPT ![m] = changed]
    <3> DEFINE revoked == [override[m] EXCEPT !.revoked = TRUE]
               past == [override[m] EXCEPT !.expiry = "past"]
    <3>1. revoked \in Overrides /\ past \in Overrides
      BY DEF RightsOK, Overrides, Expiries
    <3>2. override' = [override EXCEPT ![m] = revoked] \/ override' = [override EXCEPT ![m] = past]
      BY <1>4 DEF RevokeOverride, LapseOverride
    <3>3. QED BY <3>1, <3>2
  <2>2. override' \in [Members -> Overrides]
    BY <2>1 DEF RightsOK
  <2>3. QED BY <1>4, <2>2 DEF RevokeOverride, LapseOverride, RightsOK
<1>5. ASSUME NEW m \in Members, NEW t \in Temporaries,
             GrantTemporary(m, t) \/ RevokeTemporary(m, t) \/ LapseTemporary(m, t)
      PROVE  RightsOK' /\ UNCHANGED guard
  <2>1. \E s \in GrantStates : temporary' = [temporary EXCEPT ![m][t] = s]
    BY <1>5 DEF GrantTemporary, RevokeTemporary, LapseTemporary, GrantStates
  <2>2. temporary' \in [Members -> [Temporaries -> GrantStates]]
    BY <2>1 DEF RightsOK
  <2>3. QED BY <1>5, <2>2 DEF GrantTemporary, RevokeTemporary, LapseTemporary, RightsOK
<1>6. ASSUME NEW c \in Edits, NEW m \in Members, NEW role \in Roles, BeginReassign(c, m, role)
      PROVE  RightsOK' /\ UNCHANGED guard
  BY <1>6 DEF BeginReassign, RightsOK, EditStates
<1>7. ASSUME NEW c \in Edits, EndReassign(c)
      PROVE  RightsOK' /\ UNCHANGED guard
  BY <1>7, RowCreated DEF EndReassign, RightsOK, EditStates, NoEdit
<1>8. ASSUME NEW c \in Edits, NEW m \in Members, NEW role \in Roles, NEW n \in 1..MaxRows,
             BeginRemove(c, m, role, n)
      PROVE  RightsOK' /\ UNCHANGED guard
  BY <1>8 DEF BeginRemove, RightsOK, EditStates, rights
<1>9. ASSUME NEW c \in Edits, EndRemove(c)
      PROVE  RightsOK' /\ UNCHANGED guard
  BY <1>9 DEF EndRemove, RightsOK, EditStates, NoEdit
<1>10. QED BY <1>1, <1>2, <1>3, <1>4, <1>5, <1>6, <1>7, <1>8, <1>9 DEF RightsStep

LEMMA SpecialStepOK == RightsOK /\ SpecialStep => RightsOK' /\ UNCHANGED guard
<1> SUFFICES ASSUME RightsOK, NEW m \in Members, NEW x \in Specials,
                    GrantSpecial(m, x) \/ RevokeSpecial(m, x) \/ LapseSpecial(m, x)
             PROVE  RightsOK' /\ UNCHANGED guard
  BY DEF SpecialStep
<1>1. \E s \in GrantStates : special' = [special EXCEPT ![m][x] = s]
  BY DEF GrantSpecial, RevokeSpecial, LapseSpecial, GrantStates
<1>2. special' \in [Members -> [Specials -> GrantStates]]
  BY <1>1 DEF RightsOK
<1>3. QED BY <1>2 DEF GrantSpecial, RevokeSpecial, LapseSpecial, RightsOK

LEMMA SweepStepOK == RightsOK /\ SweepStep => RightsOK' /\ UNCHANGED guard
<1> SUFFICES ASSUME RightsOK, NEW c \in Edits,
                    ExpireOverrides(c) \/ ExpireTemporaries(c) \/ ExpireSpecials(c)
             PROVE  RightsOK' /\ UNCHANGED guard
  BY DEF SweepStep
<1>1. CASE ExpireOverrides(c)
  <2>1. override' \in [Members -> Overrides]
    BY <1>1 DEF ExpireOverrides, RightsOK, Overrides
  <2>2. QED BY <1>1, <2>1 DEF ExpireOverrides, RightsOK, EditStates
<1>2. CASE ExpireTemporaries(c)
  <2>1. \A m \in Members : Swept(temporary[m]) \in [Temporaries -> GrantStates]
    BY DEF RightsOK, Swept, GrantStates
  <2>2. temporary' \in [Members -> [Temporaries -> GrantStates]]
    BY <1>2, <2>1 DEF ExpireTemporaries
  <2>3. QED BY <1>2, <2>2 DEF ExpireTemporaries, RightsOK, EditStates
<1>3. CASE ExpireSpecials(c)
  <2>1. \A m \in Members : Swept(special[m]) \in [Specials -> GrantStates]
    BY DEF RightsOK, Swept, GrantStates
  <2>2. special' \in [Members -> [Specials -> GrantStates]]
    BY <1>3, <2>1 DEF ExpireSpecials
  <2>3. QED BY <1>3, <2>2 DEF ExpireSpecials, RightsOK, EditStates, NoEdit
<1>4. QED BY <1>1, <1>2, <1>3

-----------------------------------------------------------------------------
(* The guards *)

\* Only the sources there are can be seen.
LEMMA SourcesOK == \A m : Sources(m) \subseteq AllSources /\ Sources(m)' \subseteq AllSources
BY DEF Sources, AllSources

\* A guard that is not asked anything keeps what it was told, whatever becomes of the rights.
LEMMA BystanderTold ==
  ASSUME GuardOK, Watch, NEW g \in Guards, Told(g), guard'[g] = guard[g]
  PROVE  Told(g)' /\ seen'[g] \subseteq AllSources /\ held'[g] \subseteq AllSources
<1>1. guard[g] \in GuardStates
  BY DEF GuardOK
<1>2. CASE guard[g].pc = "idle"
  <2>1. seen'[g] = {} /\ held'[g] = {}
    BY <1>2 DEF Watch
  <2>2. QED BY <1>2, <2>1 DEF Told, Asking
<1>3. CASE guard[g].pc \in {"allowed", "refused"}
  <2>1. seen'[g] = seen[g] /\ held'[g] = held[g]
    BY <1>3 DEF Watch
  <2>2. QED BY <1>3, <2>1 DEF Told, Asking, GuardOK
<1>4. CASE guard[g].pc \in Asking
  <2>1. /\ seen'[g] = seen[g] \union Sources(guard[g].member)'
        /\ held'[g] = held[g] \intersect Sources(guard[g].member)'
    BY <1>4 DEF Watch, Asking
  <2>2. Sources(guard[g].member)' \subseteq AllSources
    BY SourcesOK DEF Sources, AllSources
  <2>3. QED BY <1>4, <2>1, <2>2 DEF Told, Asking, GuardOK
<1>5. QED BY <1>1, <1>2, <1>3, <1>4 DEF GuardStates, Asking

\* A guard that begins, or goes on with a query while the rights stay as they are.
LEMMA AskedSeen ==
  ASSUME GuardOK, Watch, UNCHANGED rights, NEW g \in Guards, Told(g)
  PROVE  /\ guard[g].pc = "idle" /\ guard'[g].pc # "idle"
              => seen'[g] = Sources(guard[g].member)' /\ held'[g] = seen'[g]
         /\ guard[g].pc \in Asking /\ guard'[g].pc # "idle" /\ guard'[g].member = guard[g].member
              => /\ seen'[g] = seen[g]
                 /\ held'[g] = held[g]
                 /\ Sources(guard[g].member)' = Sources(guard[g].member)
<1>1. \A m : Sources(m)' = Sources(m)
  BY DEF rights, Sources, RoleAllows, OverrideAllows, OverrideCounts, TemporaryAllows
<1>2. guard[g].pc = "idle" /\ guard'[g].pc # "idle"
        => seen'[g] = Sources(guard'[g].member) /\ held'[g] = Sources(guard'[g].member)
  BY DEF Watch
<1>3. guard[g].pc \in Asking /\ guard'[g].pc # "idle"
        => /\ seen'[g] = seen[g] \union Sources(guard[g].member)'
           /\ held'[g] = held[g] \intersect Sources(guard[g].member)'
  BY DEF Watch, Asking
<1>4. Sources(guard[g].member)' = Sources(guard'[g].member)
  BY DEF rights, Sources, RoleAllows, OverrideAllows, OverrideCounts, TemporaryAllows
<1>5. ASSUME guard[g].pc \in Asking, guard'[g].pc # "idle", guard'[g].member = guard[g].member
      PROVE  /\ seen'[g] = seen[g]
             /\ held'[g] = held[g]
             /\ Sources(guard[g].member)' = Sources(guard[g].member)
  <2>1. Sources(guard'[g].member) = Sources(guard[g].member)
    BY <1>5
  <2>2. Sources(guard[g].member)' = Sources(guard[g].member)
    BY <1>4, <2>1
  <2>3. held[g] \subseteq Sources(guard[g].member) /\ Sources(guard[g].member) \subseteq seen[g]
    BY <1>5 DEF Told
  <2>4. seen[g] \union Sources(guard[g].member) = seen[g] /\ held[g] \intersect Sources(guard[g].member) = held[g]
    BY <2>3
  <2>5. QED BY <1>3, <1>5, <2>2, <2>4
<1>6. QED BY <1>2, <1>4, <1>5

\* A step that leaves all guards alone.
LEMMA OthersStepOK ==
  ASSUME GuardOK, AllTold, Watch, UNCHANGED guard
  PROVE  GuardOK' /\ AllTold'
<1>1. \A g \in Guards : Told(g)' /\ seen'[g] \subseteq AllSources /\ held'[g] \subseteq AllSources
  BY BystanderTold DEF AllTold
<1>2. seen' \in [Guards -> SUBSET AllSources] /\ held' \in [Guards -> SUBSET AllSources]
  BY <1>1 DEF Watch
<1>3. QED BY <1>1, <1>2 DEF GuardOK, AllTold

\* A step of one guard: the others are bystanders.
LEMMA GuardStepOK ==
  ASSUME RightsOK, GuardOK, AllTold, Watch, NEW g \in Guards, GuardStep(g)
  PROVE  RightsOK' /\ GuardOK' /\ AllTold'
<1>1. UNCHANGED rights /\ UNCHANGED edit
  BY DEF GuardStep, BeginGuard, Check, HasOverride, ReadRoles, ReadOverride, ReadTemporary, EndGuard, GoTo
<1>2. RightsOK'
  BY <1>1 DEF RightsOK, rights
<1>3. \E now \in GuardStates : guard' = [guard EXCEPT ![g] = now]
  <2>1. guard[g] \in GuardStates
    BY DEF GuardOK
  <2>2. CASE \E m \in Members : BeginGuard(g, m)
    BY <2>2 DEF BeginGuard, NoGuard, GuardStates
  <2>3. CASE EndGuard(g)
    BY <2>3 DEF EndGuard, NoGuard, GuardStates
  <2>4. CASE \E pc \in {"allowed", "hasOverride", "checkAccess", "refused"} : GoTo(g, pc)
    <3>1. PICK pc \in {"allowed", "hasOverride", "checkAccess", "refused"} : GoTo(g, pc)
      BY <2>4
    <3>2. guard' = [guard EXCEPT ![g] = [guard[g] EXCEPT !.pc = pc]]
      BY <3>1 DEF GoTo
    <3>3. [guard[g] EXCEPT !.pc = pc] \in GuardStates
      BY <2>1 DEF GuardStates
    <3>4. QED BY <3>2, <3>3
  <2>5. CASE ReadRoles(g) \/ ReadOverride(g)
    <3>1. PICK pc \in {"override", "allowed", "temporary"}, role \in BOOLEAN :
            guard' = [guard EXCEPT ![g] = [guard[g] EXCEPT !.pc = pc, !.role = role]]
      BY <2>5 DEF ReadRoles, ReadOverride, RoleAllows
    <3>2. [guard[g] EXCEPT !.pc = pc, !.role = role] \in GuardStates
      BY <2>1 DEF GuardStates
    <3>3. QED BY <3>1, <3>2
  <2>6. QED BY <2>2, <2>3, <2>4, <2>5 DEF GuardStep, Check, HasOverride, ReadTemporary
<1>4. guard' \in [Guards -> GuardStates] /\ \A h \in Guards \ {g} : guard'[h] = guard[h]
  BY <1>3 DEF GuardOK
<1>5. Told(g)' /\ seen'[g] \subseteq AllSources /\ held'[g] \subseteq AllSources
  <2> DEFINE S == Sources(guard[g].member)
             Keeps == /\ seen'[g] = seen[g] /\ held'[g] = held[g] /\ Sources(guard[g].member)' = S
                      /\ S \subseteq AllSources /\ held[g] \subseteq S /\ S \subseteq seen[g]
                      /\ seen[g] \subseteq AllSources
  <2>1. guard[g] \in GuardStates /\ Told(g)
    BY DEF GuardOK, AllTold
  <2>2. guard[g].pc \in Asking /\ guard'[g].pc # "idle" /\ guard'[g].member = guard[g].member => Keeps
    BY <1>1, <2>1, AskedSeen, SourcesOK DEF Told, GuardOK
  <2>3. CASE \E m \in Members : BeginGuard(g, m)
    <3>1. guard[g].pc = "idle" /\ guard'[g].pc = "check" /\ guard'[g].role = FALSE
      BY <2>3 DEF BeginGuard, NoGuard, GuardOK
    <3>2. seen'[g] = Sources(guard[g].member)' /\ held'[g] = seen'[g]
      BY <1>1, <2>1, <3>1, AskedSeen
    <3>3. Sources(guard[g].member)' \subseteq AllSources
      BY DEF Sources, AllSources
    <3>4. QED BY <3>1, <3>2, <3>3 DEF Told, Asking
  <2>4. CASE Check(g)
    <3>1. /\ guard[g].pc = "check" /\ guard'[g].member = guard[g].member /\ guard'[g].role = guard[g].role
          /\ guard'[g].pc = IF RoleAllows(guard[g].member) THEN "allowed" ELSE "hasOverride"
      BY <2>1, <2>4 DEF Check, GoTo, GuardOK, GuardStates
    <3>2. Keeps
      BY <2>2, <3>1 DEF Asking
    <3>3. "ROLE" \in S <=> RoleAllows(guard[g].member)
      BY DEF Sources
    <3>4. QED BY <2>1, <3>1, <3>2, <3>3 DEF Told, Asking
  <2>5. CASE HasOverride(g)
    <3>1. /\ guard[g].pc = "hasOverride" /\ guard'[g].member = guard[g].member /\ guard'[g].role = guard[g].role
          /\ guard'[g].pc = IF OverrideAllows(guard[g].member) THEN "allowed" ELSE "checkAccess"
      BY <2>1, <2>5 DEF HasOverride, GoTo, GuardOK, GuardStates
    <3>2. Keeps
      BY <2>2, <3>1 DEF Asking
    <3>3. "OVERRIDE" \in S <=> OverrideAllows(guard[g].member)
      BY DEF Sources
    <3>4. QED BY <2>1, <3>1, <3>2, <3>3 DEF Told, Asking
  <2>6. CASE ReadRoles(g)
    <3>1. /\ guard[g].pc = "checkAccess" /\ guard'[g].pc = "override" /\ guard'[g].member = guard[g].member
          /\ guard'[g].role = RoleAllows(guard[g].member)
      BY <2>1, <2>6 DEF ReadRoles, GuardOK, GuardStates
    <3>2. Keeps
      BY <2>2, <3>1 DEF Asking
    <3>3. "ROLE" \in S <=> RoleAllows(guard[g].member)
      BY DEF Sources
    <3>4. QED BY <2>1, <3>1, <3>2, <3>3 DEF Told, Asking
  <2>7. CASE ReadOverride(g)
    <3>1. /\ guard[g].pc = "override" /\ guard'[g].member = guard[g].member /\ guard'[g].role = FALSE
          /\ \/ guard'[g].pc = "temporary"
             \/ guard'[g].pc = "allowed" /\ (OverrideAllows(guard[g].member) \/ guard[g].role)
      BY <2>1, <2>7 DEF ReadOverride, GuardOK, GuardStates
    <3>2. Keeps
      BY <2>2, <3>1 DEF Asking
    <3>3. "OVERRIDE" \in S <=> OverrideAllows(guard[g].member)
      BY DEF Sources
    <3>4. QED BY <2>1, <3>1, <3>2, <3>3 DEF Told, Asking
  <2>8. CASE ReadTemporary(g)
    <3>1. /\ guard[g].pc = "temporary" /\ guard'[g].member = guard[g].member /\ guard'[g].role = guard[g].role
          /\ guard'[g].pc = IF TemporaryAllows(guard[g].member) THEN "allowed" ELSE "refused"
      BY <2>1, <2>8 DEF ReadTemporary, GoTo, GuardOK, GuardStates
    <3>2. Keeps
      BY <2>2, <3>1 DEF Asking
    <3>3. "TEMPORARY" \in S <=> TemporaryAllows(guard[g].member)
      BY DEF Sources
    <3>4. QED BY <2>1, <3>1, <3>2, <3>3 DEF Told, Asking, AllSources
  <2>9. CASE EndGuard(g)
    <3>1. guard'[g].pc = "idle" /\ guard'[g].role = FALSE
      BY <2>9 DEF EndGuard, NoGuard, GuardOK
    <3>2. seen'[g] = {} /\ held'[g] = {}
      BY <3>1 DEF Watch
    <3>3. QED BY <3>1, <3>2 DEF Told, Asking
  <2>10. QED BY <2>3, <2>4, <2>5, <2>6, <2>7, <2>8, <2>9 DEF GuardStep
<1>6. \A h \in Guards : Told(h)' /\ seen'[h] \subseteq AllSources /\ held'[h] \subseteq AllSources
  <2> SUFFICES ASSUME NEW h \in Guards, h # g
               PROVE  Told(h)' /\ seen'[h] \subseteq AllSources /\ held'[h] \subseteq AllSources
    BY <1>5
  <2>1. Told(h) /\ guard'[h] = guard[h]
    BY <1>4 DEF AllTold
  <2>2. QED BY <2>1, BystanderTold
<1>7. seen' \in [Guards -> SUBSET AllSources] /\ held' \in [Guards -> SUBSET AllSources]
  BY <1>6 DEF Watch
<1>8. QED BY <1>2, <1>4, <1>6, <1>7 DEF GuardOK, AllTold

-----------------------------------------------------------------------------
\* Every step keeps the types and what the guards were told.
LEMMA AccessStepOK == AccessIInv /\ [AccessNext]_accessVars => AccessIInv'
<1> SUFFICES ASSUME AccessIInv, [AccessNext]_accessVars PROVE AccessIInv'
  OBVIOUS
<1>1. CASE AccessNext
  <2>1. RightsOK /\ GuardOK /\ AllTold /\ Watch
    BY <1>1 DEF AccessIInv, AccessNext
  <2>2. CASE RightsStep \/ SpecialStep \/ SweepStep
    BY <2>1, <2>2, RightsStepOK, SpecialStepOK, SweepStepOK, OthersStepOK DEF AccessIInv
  <2>3. CASE \E g \in Guards : GuardStep(g)
    BY <2>1, <2>3, GuardStepOK DEF AccessIInv
  <2>4. QED BY <1>1, <2>2, <2>3 DEF AccessNext, AccessStep
<1>2. CASE UNCHANGED accessVars
  <2>1. RightsOK' /\ GuardOK'
    BY <1>2 DEF AccessIInv, RightsOK, GuardOK, accessVars, rights
  <2>2. ASSUME NEW g \in Guards PROVE Told(g)'
    <3>1. Sources(guard[g].member)' = Sources(guard[g].member)
      BY <1>2 DEF accessVars, rights, Sources, RoleAllows, OverrideAllows, OverrideCounts, TemporaryAllows
    <3>2. Told(g)
      BY DEF AccessIInv, AllTold
    <3>3. QED BY <1>2, <3>1, <3>2 DEF Told, accessVars
  <2>3. QED BY <2>1, <2>2 DEF AccessIInv, AllTold
<1>3. QED BY <1>1, <1>2

\* The types of the rights, the administrative calls and the guards.
THEOREM AccessTypes == AccessSpec => []AccessTypeOK
<1>1. AccessIInv => AccessTypeOK
  BY DEF AccessIInv, RightsOK, GuardOK, AccessTypeOK, AllSources
<1>2. QED BY AccessInitial, AccessStepOK, <1>1, PTL DEF AccessSpec

\* A request is let through only on a right that was there at some moment of the guard, and
\* refused only when none was there throughout (requirePermission, checkAccess).
THEOREM GuardsAreRight == AccessSpec => []GuardIsRight
<1>1. AccessIInv => GuardIsRight
  BY DEF AccessIInv, AllTold, Told, GuardIsRight
<1>2. QED BY AccessInitial, AccessStepOK, <1>1, PTL DEF AccessSpec

-----------------------------------------------------------------------------
(***************************************************************************)
(*                             DashboardCache                              *)
(*                                                                         *)
(* A view that met no invalidation is on its way into the tag, or in it;   *)
(* an invalidation under way has it among its keys, or has not read the    *)
(* tag yet.  A filling that runs beside an invalidation is marked so.      *)
(***************************************************************************)

Fresh(v) == cached[v].live /\ ~cached[v].loose

ReaderOK(r) ==
  /\ reader[r].pc # "idle" => reader[r].view \in Shown
  /\ reader[r].pc \in {"load", "setex"} => reader[r].tag = 1
  /\ reader[r].pc # "idle" /\ Sweeping => reader[r].loose
  /\ reader[r].pc = "setex" /\ ~reader[r].loose => reader[r].version >= swept

\* In the tag of all views, or to be added to it before anything else happens to it.
Reachable(v) == v \in listed["dashboard"] \/ \E r \in Readers : Filling(r, v) /\ reader[r].tag = 1

ViewOK(v) ==
  Fresh(v) =>
    /\ cached[v].version >= swept
    /\ Reachable(v)
    /\ \A s \in Sweepers : /\ sweeper[s].pc = "del" => v \in sweeper[s].keys
                           /\ sweeper[s].pc \in {"idle", "del"}

CacheIInv ==
  /\ CacheTypeOK
  /\ swept <= version
  /\ \A s \in Sweepers : sweeper[s].began <= version
  /\ \A r \in Readers : ReaderOK(r)
  /\ \A v \in Shown : ViewOK(v)

\* Nothing is cached at first, and nothing under way.
LEMMA CacheInitial == CacheInit => CacheIInv
<1> SUFFICES ASSUME CacheInit PROVE CacheIInv
  OBVIOUS
<1>1. CacheTypeOK
  BY VersionsAssumption
     DEF CacheInit, CacheTypeOK, Absent, IdleReader, IdleSweeper, ReaderStates, SweeperStates
<1>2. swept <= version /\ \A s \in Sweepers : sweeper[s].began <= version
  BY DEF CacheInit, IdleSweeper
<1>3. \A r \in Readers : ReaderOK(r)
  BY DEF CacheInit, IdleReader, ReaderOK
<1>4. \A v \in Shown : ViewOK(v)
  BY DEF CacheInit, Absent, ViewOK, Fresh
<1>5. QED BY <1>1, <1>2, <1>3, <1>4 DEF CacheIInv

\* The tag of all views is no view's own.
LEMMA TagIsCommon == /\ "dashboard" \in Tags /\ "dashboard" \notin Shown
                     /\ \A v : TagsOf(v)[1] = "dashboard" /\ TagsOf(v)[2] = v
BY ShownAssumption DEF Tags, TagsOf, Views

\* Who gets a reader or a sweeper to move leaves the others where they are.
LEMMA ReaderMoves ==
  ASSUME CacheTypeOK, NEW r \in Readers, NEW next \in ReaderStates, reader' = [reader EXCEPT ![r] = next]
  PROVE  /\ reader' \in [Readers -> ReaderStates] /\ reader'[r] = next
         /\ \A q \in Readers \ {r} : reader'[q] = reader[q]
BY DEF CacheTypeOK

LEMMA SweeperMoves ==
  ASSUME CacheTypeOK, NEW s \in Sweepers, NEW next \in SweeperStates, sweeper' = [sweeper EXCEPT ![s] = next]
  PROVE  /\ sweeper' \in [Sweepers -> SweeperStates] /\ sweeper'[s] = next
         /\ \A q \in Sweepers \ {s} : sweeper'[q] = sweeper[q]
BY DEF CacheTypeOK

\* A view stays reachable through every step that neither empties the tag nor stops its filling.
LEMMA StaysReachable ==
  ASSUME NEW v, NEW r, Reachable(v), listed["dashboard"] \subseteq listed'["dashboard"],
         \A q \in Readers \ {r} : reader'[q] = reader[q],
         ~(Filling(r, v) /\ reader[r].tag = 1)
  PROVE  Reachable(v)'
BY DEF Reachable, Filling

\* The database moves on: nothing that is cached or under way does.
LEMMA ChangeStep == CacheIInv /\ Change => CacheIInv'
<1> SUFFICES ASSUME CacheIInv, Change PROVE CacheIInv'
  OBVIOUS
<1>1. version \in 0..MaxVersion /\ swept \in 0..MaxVersion
  BY DEF CacheIInv, CacheTypeOK
<1>2. version' \in 0..MaxVersion /\ version <= version'
  BY <1>1, VersionsAssumption DEF Change
<1>3. CacheTypeOK'
  BY <1>2 DEF Change, CacheIInv, CacheTypeOK
<1>4. swept' <= version'
  BY <1>1, <1>2 DEF Change, CacheIInv
<1>5. ASSUME NEW s \in Sweepers PROVE sweeper'[s].began <= version'
  <2>1. sweeper[s].began \in 0..MaxVersion
    BY DEF CacheIInv, CacheTypeOK, SweeperStates
  <2>2. sweeper[s].began <= version
    BY DEF CacheIInv
  <2>3. QED BY <1>1, <1>2, <2>1, <2>2 DEF Change
<1>6. \A r \in Readers : ReaderOK(r)'
  BY DEF Change, CacheIInv, ReaderOK, Sweeping
<1>7. \A v \in Shown : ViewOK(v)'
  BY DEF Change, CacheIInv, ViewOK, Fresh, Reachable, Filling
<1>8. QED BY <1>3, <1>4, <1>5, <1>6, <1>7 DEF CacheIInv

\* A step of a reader before it lists the key, or in which it gives up.
LEMMA ReaderStep ==
  ASSUME CacheIInv, NEW r \in Readers, NEW next \in ReaderStates,
         reader' = [reader EXCEPT ![r] = next], UNCHANGED <<version, sweeper, swept>>,
         listed' \in [Tags -> SUBSET Shown],
         cached' \in [Shown -> [live: BOOLEAN, version: 0..MaxVersion, loose: BOOLEAN]],
         ReaderOK(r)', \A v \in Shown : ViewOK(v)'
  PROVE  CacheIInv'
<1>0. CacheTypeOK
  BY DEF CacheIInv
<1>1. reader' \in [Readers -> ReaderStates] /\ \A q \in Readers \ {r} : reader'[q] = reader[q]
  BY <1>0, ReaderMoves
<1>2. CacheTypeOK'
  BY <1>0, <1>1 DEF CacheTypeOK
<1>3. \A q \in Readers : ReaderOK(q)'
  BY <1>1 DEF CacheIInv, ReaderOK, Sweeping
<1>4. QED BY <1>2, <1>3 DEF CacheIInv

LEMMA GetOrSetStep == ASSUME CacheIInv, NEW r \in Readers, NEW v \in Shown, GetOrSet(r, v) PROVE CacheIInv'
<1>0. PICK busy \in BOOLEAN : busy <=> Sweeping
  BY DEF Sweeping
<1> DEFINE next == [IdleReader EXCEPT !.pc = "load", !.view = v, !.loose = busy]
<1>1. next \in ReaderStates
  <2>1. IdleReader \in ReaderStates
    BY VersionsAssumption DEF IdleReader, ReaderStates
  <2>2. QED BY <2>1 DEF ReaderStates
<1>2. reader' = [reader EXCEPT ![r] = next] /\ reader[r].pc = "idle"
  <2>1. busy = Sweeping
    BY <1>0 DEF Sweeping
  <2>2. QED BY <2>1 DEF GetOrSet
<1>3. next.pc = "load" /\ next.view = v /\ next.tag = 1 /\ (next.loose <=> Sweeping)
  BY <1>0 DEF IdleReader
<1> HIDE DEF next
<1>4. reader'[r] = next /\ \A q \in Readers \ {r} : reader'[q] = reader[q]
  BY <1>1, <1>2, ReaderMoves DEF CacheIInv
<1>5. Sweeping' <=> Sweeping
  BY DEF GetOrSet, Sweeping
<1>6. ReaderOK(r)'
  BY <1>3, <1>4, <1>5 DEF ReaderOK
<1>7. ASSUME NEW w \in Shown PROVE ViewOK(w)'
  <2>1. Reachable(w) => Reachable(w)'
    BY <1>2, <1>4, StaysReachable DEF GetOrSet, Filling
  <2>2. QED BY <2>1 DEF CacheIInv, ViewOK, Fresh, GetOrSet
<1>8. QED BY <1>1, <1>2, <1>6, <1>7, ReaderStep DEF GetOrSet, CacheIInv, CacheTypeOK

LEMMA LoadStep == ASSUME CacheIInv, NEW r \in Readers, Load(r) PROVE CacheIInv'
<1> DEFINE next == [reader[r] EXCEPT !.pc = "setex", !.version = version]
<1>0. reader[r] \in ReaderStates /\ version \in 0..MaxVersion /\ swept \in 0..MaxVersion
  BY DEF CacheIInv, CacheTypeOK
<1>1. next \in ReaderStates
  BY <1>0 DEF ReaderStates
<1>2. reader' = [reader EXCEPT ![r] = next] /\ reader[r].pc = "load"
  BY DEF Load
<1>3. /\ next.pc = "setex" /\ next.view = reader[r].view /\ next.tag = reader[r].tag
      /\ next.loose = reader[r].loose /\ next.version = version
  BY <1>0 DEF ReaderStates
<1> HIDE DEF next
<1>4. reader'[r] = next /\ \A q \in Readers \ {r} : reader'[q] = reader[q]
  BY <1>1, <1>2, ReaderMoves DEF CacheIInv
<1>5. (Sweeping' <=> Sweeping) /\ swept' = swept
  BY DEF Load, Sweeping
<1>6. version >= swept
  BY <1>0, VersionsAssumption DEF CacheIInv
<1>7. ReaderOK(r)'
  BY <1>2, <1>3, <1>4, <1>5, <1>6 DEF ReaderOK, CacheIInv
<1>8. ASSUME NEW w \in Shown PROVE ViewOK(w)'
  <2>1. Reachable(w) => Reachable(w)'
    BY <1>2, <1>4, StaysReachable DEF Load, Filling
  <2>2. QED BY <2>1 DEF CacheIInv, ViewOK, Fresh, Load
<1>9. QED BY <1>1, <1>2, <1>7, <1>8, ReaderStep DEF Load, CacheIInv, CacheTypeOK

\* What a failing call leaves cached but unlisted is marked.
LEMMA FailStep == ASSUME CacheIInv, NEW r \in Readers, Fail(r) PROVE CacheIInv'
<1>1. IdleReader \in ReaderStates
  BY VersionsAssumption DEF IdleReader, ReaderStates
<1>2. reader' = [reader EXCEPT ![r] = IdleReader]
  BY DEF Fail
<1>3. reader'[r] = IdleReader /\ \A q \in Readers \ {r} : reader'[q] = reader[q]
  BY <1>1, <1>2, ReaderMoves DEF CacheIInv
<1>4. ReaderOK(r)'
  BY <1>3 DEF ReaderOK, IdleReader
<1>5. ASSUME NEW w \in Shown
      PROVE  /\ cached'[w] \in [live: BOOLEAN, version: 0..MaxVersion, loose: BOOLEAN]
             /\ cached'[w].version = cached[w].version
             /\ Fresh(w)' => Fresh(w) /\ ~Filling(r, w)
  <2>1. cached[w] \in [live: BOOLEAN, version: 0..MaxVersion, loose: BOOLEAN]
    BY DEF CacheIInv, CacheTypeOK
  <2>2. cached'[w] = IF cached[w].live /\ Filling(r, w) THEN [cached[w] EXCEPT !.loose = TRUE] ELSE cached[w]
    BY DEF Fail
  <2>3. QED BY <2>1, <2>2 DEF Fresh
<1>6. cached' \in [Shown -> [live: BOOLEAN, version: 0..MaxVersion, loose: BOOLEAN]]
  BY <1>5 DEF Fail
<1>7. ASSUME NEW w \in Shown PROVE ViewOK(w)'
  <2>1. Reachable(w) /\ ~Filling(r, w) => Reachable(w)'
    BY <1>3, StaysReachable DEF Fail
  <2>2. QED BY <1>5, <2>1 DEF CacheIInv, ViewOK, Fail
<1>8. QED BY <1>1, <1>2, <1>4, <1>6, <1>7, ReaderStep DEF Fail, CacheIInv, CacheTypeOK

\* A key is cached before it is listed: the reader that wrote it is about to list it.
LEMMA SetExStep == ASSUME CacheIInv, NEW r \in Readers, SetEx(r) PROVE CacheIInv'
<1> DEFINE next == [reader[r] EXCEPT !.pc = "sadd"]
           entry == [live |-> TRUE, version |-> reader[r].version, loose |-> reader[r].loose]
           w == reader[r].view
<1>0. reader[r] \in ReaderStates /\ reader[r].pc = "setex" /\ ReaderOK(r)
  BY DEF CacheIInv, CacheTypeOK, SetEx
<1>1. next \in ReaderStates /\ entry \in [live: BOOLEAN, version: 0..MaxVersion, loose: BOOLEAN]
  BY <1>0 DEF ReaderStates
<1>2. w \in Shown /\ reader[r].tag = 1
  BY <1>0 DEF ReaderOK
<1>3. reader' = [reader EXCEPT ![r] = next] /\ cached' = [cached EXCEPT ![w] = entry]
  BY DEF SetEx
<1>4. /\ next.pc = "sadd" /\ next.view = w /\ next.tag = 1 /\ next.loose = reader[r].loose
      /\ entry.live /\ entry.version = reader[r].version /\ entry.loose = reader[r].loose
  BY <1>0, <1>2 DEF ReaderStates
<1> HIDE DEF next, entry
<1>5. reader'[r] = next /\ \A q \in Readers \ {r} : reader'[q] = reader[q]
  BY <1>1, <1>3, ReaderMoves DEF CacheIInv
<1>6. /\ cached' \in [Shown -> [live: BOOLEAN, version: 0..MaxVersion, loose: BOOLEAN]]
      /\ cached'[w] = entry /\ \A v \in Shown \ {w} : cached'[v] = cached[v]
  BY <1>1, <1>2, <1>3 DEF CacheIInv, CacheTypeOK
<1>7. (Sweeping' <=> Sweeping) /\ UNCHANGED <<version, listed, sweeper, swept>>
  BY DEF SetEx, Sweeping
<1>8. ReaderOK(r)'
  BY <1>0, <1>2, <1>4, <1>5, <1>7 DEF ReaderOK
<1>9. ASSUME NEW v \in Shown PROVE ViewOK(v)'
  <2>1. CASE v = w
    <3>1. Reachable(v)'
      BY <2>1, <1>4, <1>5 DEF Reachable, Filling
    <3>2. Fresh(v)' => ~Sweeping /\ cached'[v].version >= swept'
      BY <2>1, <1>0, <1>4, <1>6, <1>7 DEF Fresh, ReaderOK
    <3>3. QED BY <3>1, <3>2, <1>7 DEF ViewOK, Sweeping
  <2>2. CASE v # w
    <3>1. cached'[v] = cached[v]
      BY <1>6, <2>2
    <3>2. Reachable(v) => Reachable(v)'
      BY <1>0, <1>5, <1>7, StaysReachable DEF Filling
    <3>3. QED BY <3>1, <3>2, <1>7 DEF CacheIInv, ViewOK, Fresh
  <2>3. QED BY <2>1, <2>2
<1>10. QED BY <1>1, <1>3, <1>6, <1>7, <1>8, <1>9, ReaderStep DEF CacheIInv, CacheTypeOK

\* The common tag first, the view's own afterwards.
LEMMA SAddStep == ASSUME CacheIInv, NEW r \in Readers, SAdd(r) PROVE CacheIInv'
<1> DEFINE w == reader[r].view
           tag == TagsOf(w)[reader[r].tag]
<1>0. reader[r] \in ReaderStates /\ reader[r].pc = "sadd" /\ ReaderOK(r)
  BY DEF CacheIInv, CacheTypeOK, SAdd
<1>1. w \in Shown /\ reader[r].tag \in {1, 2}
  BY <1>0 DEF ReaderOK, ReaderStates
<1>2. tag \in Tags /\ (reader[r].tag = 1 => tag = "dashboard") /\ (reader[r].tag = 2 => tag # "dashboard")
  BY <1>1, TagIsCommon DEF Tags
<1>3. PICK rest :
        /\ rest = IF reader[r].tag < 2 THEN [reader[r] EXCEPT !.tag = reader[r].tag + 1] ELSE IdleReader
        /\ reader' = [reader EXCEPT ![r] = rest]
  BY DEF SAdd
<1>4. /\ rest \in ReaderStates
      /\ rest.pc # "idle" => rest.pc = "sadd" /\ rest.view = w /\ rest.loose = reader[r].loose
  <2>1. IdleReader \in ReaderStates /\ IdleReader.pc = "idle"
    BY VersionsAssumption DEF IdleReader, ReaderStates
  <2>2. CASE reader[r].tag = 1
    <3>1. rest = [reader[r] EXCEPT !.tag = 2]
      BY <1>3, <2>2
    <3>2. QED BY <3>1, <1>0 DEF ReaderStates
  <2>3. CASE reader[r].tag = 2
    <3>1. rest = IdleReader
      BY <1>3, <2>3
    <3>2. QED BY <3>1, <2>1
  <2>4. QED BY <1>1, <2>2, <2>3
<1>5. /\ reader' = [reader EXCEPT ![r] = rest] /\ listed' = [listed EXCEPT ![tag] = @ \union {w}]
      /\ UNCHANGED <<version, cached, sweeper, swept>>
  BY <1>3 DEF SAdd
<1> HIDE DEF tag
<1>6. reader'[r] = rest /\ \A q \in Readers \ {r} : reader'[q] = reader[q]
  BY <1>4, <1>5, ReaderMoves DEF CacheIInv
<1>7. listed' \in [Tags -> SUBSET Shown] /\ listed["dashboard"] \subseteq listed'["dashboard"]
  BY <1>1, <1>2, <1>5, TagIsCommon DEF CacheIInv, CacheTypeOK
<1>8. Sweeping' <=> Sweeping
  BY <1>5 DEF Sweeping
<1>9. ReaderOK(r)'
  BY <1>0, <1>1, <1>4, <1>6, <1>8 DEF ReaderOK
<1>10. ASSUME NEW v \in Shown PROVE ViewOK(v)'
  <2>1. Reachable(v) => Reachable(v)'
    <3>1. CASE Filling(r, v) /\ reader[r].tag = 1
      <4>1. v \in listed'["dashboard"]
        BY <3>1, <1>1, <1>2, <1>5, TagIsCommon DEF Filling, CacheIInv, CacheTypeOK
      <4>2. QED BY <4>1 DEF Reachable
    <3>2. CASE ~(Filling(r, v) /\ reader[r].tag = 1)
      BY <3>2, <1>6, <1>7, StaysReachable
    <3>3. QED BY <3>1, <3>2
  <2>2. QED BY <2>1, <1>5 DEF CacheIInv, ViewOK, Fresh
<1>11. QED BY <1>4, <1>5, <1>7, <1>9, <1>10, ReaderStep DEF CacheIInv, CacheTypeOK

\* A key that expires is not cached; a tag expires after all of its keys.
LEMMA ExpiryStep ==
  ASSUME CacheIInv, (\E v \in Shown : ExpireKey(v)) \/ (\E t \in Tags : ExpireTag(t))
  PROVE  CacheIInv'
<1>1. UNCHANGED <<version, reader, sweeper, swept>>
  BY DEF ExpireKey, ExpireTag
<1>2. Absent \in [live: BOOLEAN, version: 0..MaxVersion, loose: BOOLEAN] /\ ~Absent.live
  BY VersionsAssumption DEF Absent
<1>3. CacheTypeOK'
  BY <1>1, <1>2 DEF CacheIInv, CacheTypeOK, ExpireKey, ExpireTag
<1>4. \A r \in Readers : ReaderOK(r)'
  BY <1>1 DEF CacheIInv, ReaderOK, Sweeping
<1>5. ASSUME NEW w \in Shown PROVE ViewOK(w)'
  <2>1. CASE \E v \in Shown : ExpireKey(v)
    <3>1. PICK v \in Shown : ExpireKey(v)
      BY <2>1
    <3>2. listed' = listed /\ (Fresh(w)' => cached'[w] = cached[w])
      BY <3>1, <1>2 DEF ExpireKey, Fresh, CacheIInv, CacheTypeOK
    <3>3. Reachable(w) => Reachable(w)'
      BY <1>1, <3>2 DEF Reachable, Filling
    <3>4. QED BY <1>1, <3>2, <3>3 DEF CacheIInv, ViewOK, Fresh
  <2>2. CASE \E t \in Tags : ExpireTag(t)
    <3>1. PICK t \in Tags : ExpireTag(t)
      BY <2>2
    <3>2. cached' = cached /\ listed \in [Tags -> SUBSET Shown]
      BY <3>1 DEF ExpireTag, CacheIInv, CacheTypeOK
    <3>3. w \in listed["dashboard"] /\ cached[w].live => w \in listed'["dashboard"]
      BY <3>1, <3>2, TagIsCommon DEF ExpireTag
    <3>4. Fresh(w) /\ Reachable(w) => Reachable(w)'
      BY <1>1, <3>3 DEF Fresh, Reachable, Filling
    <3>5. QED BY <1>1, <3>2, <3>4 DEF CacheIInv, ViewOK, Fresh
  <2>3. QED BY <2>1, <2>2
<1>6. QED BY <1>1, <1>3, <1>4, <1>5 DEF CacheIInv

\* An invalidation reads the tag: what is being filled now may stay when the sweep is over.
LEMMA SMembersStep == ASSUME CacheIInv, NEW s \in Sweepers, SMembers(s) PROVE CacheIInv'
<1>0. /\ CacheTypeOK /\ sweeper[s].pc = "idle" /\ UNCHANGED <<version, listed, swept>> /\ Meet
      /\ listed["dashboard"] \subseteq Shown
  BY TagIsCommon DEF CacheIInv, CacheTypeOK, SMembers
<1>1. PICK pc \in {"del", "done"} :
        /\ listed["dashboard"] # {} => pc = "del"
        /\ sweeper' = [sweeper EXCEPT ![s] = [pc |-> pc, keys |-> listed["dashboard"], began |-> version]]
  BY DEF SMembers
<1> DEFINE next == [pc |-> pc, keys |-> listed["dashboard"], began |-> version]
<1>2. next \in SweeperStates
  BY <1>0 DEF SweeperStates, CacheTypeOK
<1>3. /\ next.pc = pc /\ next.keys = listed["dashboard"] /\ next.began = version
      /\ sweeper' = [sweeper EXCEPT ![s] = next]
  BY <1>1
<1> HIDE DEF next
<1>4. /\ sweeper' \in [Sweepers -> SweeperStates] /\ sweeper'[s] = next
      /\ \A q \in Sweepers \ {s} : sweeper'[q] = sweeper[q]
  BY <1>0, <1>2, <1>3, SweeperMoves
<1>5. ASSUME NEW r \in Readers
      PROVE  /\ reader'[r] \in ReaderStates
             /\ reader'[r].pc = reader[r].pc /\ reader'[r].view = reader[r].view
             /\ reader'[r].tag = reader[r].tag
             /\ reader'[r].pc # "idle" => reader'[r].loose
  <2>1. reader[r] \in ReaderStates
    BY <1>0 DEF CacheTypeOK
  <2>2. reader'[r] = IF reader[r].pc = "idle" THEN reader[r] ELSE [reader[r] EXCEPT !.loose = TRUE]
    BY <1>0 DEF Meet
  <2>3. QED BY <2>1, <2>2 DEF ReaderStates
<1>6. ASSUME NEW v \in Shown
      PROVE  /\ cached'[v] \in [live: BOOLEAN, version: 0..MaxVersion, loose: BOOLEAN]
             /\ cached'[v].version = cached[v].version
             /\ Fresh(v)' => Fresh(v) /\ ~\E r \in Readers : Filling(r, v)
  <2>1. cached[v] \in [live: BOOLEAN, version: 0..MaxVersion, loose: BOOLEAN]
    BY <1>0 DEF CacheTypeOK
  <2>2. cached'[v] = IF cached[v].live /\ \E r \in Readers : Filling(r, v)
                     THEN [cached[v] EXCEPT !.loose = TRUE] ELSE cached[v]
    BY <1>0 DEF Meet
  <2>3. QED BY <2>1, <2>2 DEF Fresh
<1>7. CacheTypeOK'
  <2>1. reader' \in [Readers -> ReaderStates]
    BY <1>0, <1>5 DEF Meet
  <2>2. cached' \in [Shown -> [live: BOOLEAN, version: 0..MaxVersion, loose: BOOLEAN]]
    BY <1>0, <1>6 DEF Meet
  <2>3. QED BY <2>1, <2>2, <1>0, <1>4 DEF CacheTypeOK
<1>8. \A q \in Sweepers : sweeper'[q].began <= version'
  <2>1. version <= version
    BY <1>0 DEF CacheTypeOK
  <2>2. QED BY <2>1, <1>0, <1>3, <1>4 DEF CacheIInv
<1>9. \A r \in Readers : ReaderOK(r)'
  BY <1>0, <1>5 DEF CacheIInv, ReaderOK
<1>10. ASSUME NEW v \in Shown, Fresh(v)' PROVE ViewOK(v)'
  <2>1. ViewOK(v) /\ Fresh(v) /\ v \in listed["dashboard"]
    BY <1>6, <1>10 DEF CacheIInv, ViewOK, Reachable
  <2>2. Reachable(v)'
    BY <2>1, <1>0 DEF Reachable
  <2>3. cached'[v].version >= swept'
    BY <2>1, <1>0, <1>6 DEF ViewOK
  <2>4. ASSUME NEW q \in Sweepers
        PROVE  (sweeper'[q].pc = "del" => v \in sweeper'[q].keys) /\ sweeper'[q].pc \in {"idle", "del"}
    <3>1. CASE q = s
      BY <3>1, <2>1, <1>1, <1>3, <1>4
    <3>2. CASE q # s
      BY <3>2, <2>1, <1>4 DEF ViewOK
    <3>3. QED BY <3>1, <3>2
  <2>5. QED BY <2>2, <2>3, <2>4 DEF ViewOK
<1>11. \A v \in Shown : ViewOK(v)'
  BY <1>10 DEF ViewOK
<1>12. swept' <= version'
  BY <1>0 DEF CacheIInv
<1>13. QED BY <1>7, <1>8, <1>9, <1>11, <1>12 DEF CacheIInv

\* A step of an invalidation that has read the tag: the readers under way stay marked.
LEMMA SweeperStep ==
  ASSUME CacheIInv, NEW s \in Sweepers, NEW next \in SweeperStates,
         sweeper' = [sweeper EXCEPT ![s] = next], sweeper[s].pc # "idle", next.began <= version,
         UNCHANGED <<version, reader>>, swept' \in 0..MaxVersion, swept' <= version,
         listed' \in [Tags -> SUBSET Shown],
         cached' \in [Shown -> [live: BOOLEAN, version: 0..MaxVersion, loose: BOOLEAN]],
         \A v \in Shown : ~Fresh(v)'
  PROVE  CacheIInv'
<1>1. CacheTypeOK /\ sweeper' \in [Sweepers -> SweeperStates] /\ sweeper'[s] = next
      /\ \A q \in Sweepers \ {s} : sweeper'[q] = sweeper[q]
  BY SweeperMoves DEF CacheIInv
<1>2. CacheTypeOK'
  BY <1>1 DEF CacheTypeOK
<1>3. \A q \in Sweepers : sweeper'[q].began <= version'
  BY <1>1 DEF CacheIInv
<1>4. \A r \in Readers : ReaderOK(r)'
  BY DEF CacheIInv, ReaderOK, Sweeping
<1>5. \A v \in Shown : ViewOK(v)'
  BY DEF ViewOK
<1>6. QED BY <1>2, <1>3, <1>4, <1>5 DEF CacheIInv

LEMMA DelKeysStep == ASSUME CacheIInv, NEW s \in Sweepers, DelKeys(s) PROVE CacheIInv'
<1> DEFINE next == [sweeper[s] EXCEPT !.pc = "delTag"]
<1>0. CacheTypeOK /\ sweeper[s] \in SweeperStates /\ sweeper[s].pc = "del" /\ sweeper[s].began <= version
  BY DEF CacheIInv, CacheTypeOK, DelKeys
<1>1. next \in SweeperStates /\ next.began = sweeper[s].began
  BY <1>0 DEF SweeperStates
<1>2. sweeper' = [sweeper EXCEPT ![s] = next] /\ UNCHANGED <<version, listed, reader, swept>>
  BY DEF DelKeys
<1> HIDE DEF next
<1>3. Absent \in [live: BOOLEAN, version: 0..MaxVersion, loose: BOOLEAN] /\ ~Absent.live
  BY VersionsAssumption DEF Absent
<1>4. cached' \in [Shown -> [live: BOOLEAN, version: 0..MaxVersion, loose: BOOLEAN]]
  BY <1>0, <1>3 DEF DelKeys, CacheTypeOK
<1>5. \A v \in Shown : ~Fresh(v)'
  BY <1>0, <1>3 DEF DelKeys, CacheIInv, ViewOK, Fresh
<1>6. swept \in 0..MaxVersion /\ swept <= version /\ listed \in [Tags -> SUBSET Shown]
  BY DEF CacheIInv, CacheTypeOK
<1>7. QED BY <1>0, <1>1, <1>2, <1>4, <1>5, <1>6, SweeperStep

LEMMA DelTagStep == ASSUME CacheIInv, NEW s \in Sweepers, DelTag(s) PROVE CacheIInv'
<1> DEFINE next == [sweeper[s] EXCEPT !.pc = "done"]
<1>0. CacheTypeOK /\ sweeper[s] \in SweeperStates /\ sweeper[s].pc = "delTag" /\ sweeper[s].began <= version
  BY DEF CacheIInv, CacheTypeOK, DelTag
<1>1. next \in SweeperStates /\ next.began = sweeper[s].began
  BY <1>0 DEF SweeperStates
<1>2. sweeper' = [sweeper EXCEPT ![s] = next] /\ UNCHANGED <<version, cached, reader, swept>>
  BY DEF DelTag
<1> HIDE DEF next
<1>3. listed' \in [Tags -> SUBSET Shown]
  BY <1>0 DEF DelTag, CacheTypeOK
<1>4. \A v \in Shown : ~Fresh(v)'
  BY <1>0, <1>2 DEF CacheIInv, ViewOK, Fresh
<1>5. /\ swept \in 0..MaxVersion /\ swept <= version
      /\ cached \in [Shown -> [live: BOOLEAN, version: 0..MaxVersion, loose: BOOLEAN]]
  BY DEF CacheIInv, CacheTypeOK
<1>6. QED BY <1>0, <1>1, <1>2, <1>3, <1>4, <1>5, SweeperStep

LEMMA EndSweepStep == ASSUME CacheIInv, NEW s \in Sweepers, EndSweep(s) PROVE CacheIInv'
<1>0. CacheTypeOK /\ sweeper[s] \in SweeperStates /\ sweeper[s].pc = "done" /\ sweeper[s].began <= version
  BY DEF CacheIInv, CacheTypeOK, EndSweep
<1>1. IdleSweeper \in SweeperStates /\ IdleSweeper.began = 0
  BY VersionsAssumption DEF IdleSweeper, SweeperStates
<1>2. sweeper' = [sweeper EXCEPT ![s] = IdleSweeper] /\ UNCHANGED <<version, cached, listed, reader>>
  BY DEF EndSweep
<1>3. /\ swept \in 0..MaxVersion /\ swept <= version /\ version \in 0..MaxVersion
      /\ sweeper[s].began \in 0..MaxVersion
      /\ listed \in [Tags -> SUBSET Shown]
      /\ cached \in [Shown -> [live: BOOLEAN, version: 0..MaxVersion, loose: BOOLEAN]]
  BY <1>0 DEF CacheIInv, CacheTypeOK, SweeperStates
<1>4. swept' = sweeper[s].began \/ swept' = swept
  BY DEF EndSweep
<1>5. \A v \in Shown : ~Fresh(v)'
  BY <1>0, <1>2 DEF CacheIInv, ViewOK, Fresh
<1>6. 0 <= version
  BY <1>3
<1>7. swept' \in 0..MaxVersion /\ swept' <= version
  BY <1>0, <1>3, <1>4
<1>8. QED BY <1>0, <1>1, <1>2, <1>3, <1>5, <1>6, <1>7, SweeperStep

\* Every step of a reader, a sweeper, the database and the clock.
LEMMA CacheStep == CacheIInv /\ [CacheNext]_cacheVars => CacheIInv'
<1> SUFFICES ASSUME CacheIInv, [CacheNext]_cacheVars PROVE CacheIInv'
  OBVIOUS
<1>1. CASE Change
  BY <1>1, ChangeStep
<1>2. CASE \E r \in Readers : (\E v \in Shown : GetOrSet(r, v)) \/ Load(r) \/ Fail(r) \/ SetEx(r) \/ SAdd(r)
  BY <1>2, GetOrSetStep, LoadStep, FailStep, SetExStep, SAddStep
<1>3. CASE (\E v \in Shown : ExpireKey(v)) \/ \E t \in Tags : ExpireTag(t)
  BY <1>3, ExpiryStep
<1>4. CASE \E s \in Sweepers : SMembers(s) \/ DelKeys(s) \/ DelTag(s) \/ EndSweep(s)
  BY <1>4, SMembersStep, DelKeysStep, DelTagStep, EndSweepStep
<1>5. CASE UNCHANGED cacheVars
  BY <1>5 DEF cacheVars, CacheIInv, CacheTypeOK, ReaderOK, Sweeping, ViewOK, Fresh, Reachable, Filling
<1>6. QED BY <1>1, <1>2, <1>3, <1>4, <1>5 DEF CacheNext

LEMMA CacheInvariance == CacheSpec => []CacheIInv
BY CacheInitial, CacheStep, PTL DEF CacheSpec

\* The types of the cache, its tags, and the calls of CacheService.
THEOREM CacheTypes == CacheSpec => []CacheTypeOK
<1>1. CacheIInv => CacheTypeOK
  BY DEF CacheIInv
<1>2. QED BY CacheInvariance, <1>1, PTL

\* A completed invalidation leaves no view older than its start, and the next one will find every
\* view there is, but for those whose filling met an invalidation (CacheService.set, invalidateByTag).
THEOREM SweptAreFresh == CacheSpec => []SweptViewsAreFresh
<1>1. CacheIInv => SweptViewsAreFresh
  BY DEF CacheIInv, ViewOK, Fresh, Reachable, SweptViewsAreFresh
<1>2. QED BY CacheInvariance, <1>1, PTL

-----------------------------------------------------------------------------
(***************************************************************************)
(*                                Staffing                                 *)
(*                                                                         *)
(* Between the two writes of a call no other call may have changed the     *)
(* member's flag, or the member is marked skewed; and a member that is not *)
(* skewed has one call at most between its writes, which knows the flag.   *)
(***************************************************************************)

StaffCallOK(c) ==
  /\ staffCall[c].pc # "idle" => staffCall[c].user \in Persons
  /\ staffCall[c].pc = "flag" => staffCall[c].op # "edit"

\* What is between its writes knows the member's flag, and is alone there.
BetweenOK(u) ==
  ~skewed[u] =>
    /\ \A c, d \in Between(u) : c = d
    /\ \A c \in Between(u) : (member[u] = "active") <=> (staffCall[c].op # "deactivate")
    /\ Between(u) = {} => (isStaff[u] <=> member[u] = "active")

StaffIInv ==
  /\ StaffTypeOK
  /\ \A c \in StaffCalls : StaffCallOK(c)
  /\ \A u \in Persons : BetweenOK(u)

LEMMA StaffInitial == StaffInit => StaffIInv
BY DEF StaffInit, StaffIInv, StaffTypeOK, StaffCallStates, NoCall, StaffCallOK, BetweenOK, Between

\* A call moves; the members that no call enters or leaves stay as they were.
LEMMA CallMoves ==
  ASSUME StaffIInv, NEW c \in StaffCalls, NEW next \in StaffCallStates,
         staffCall' = [staffCall EXCEPT ![c] = next],
         next.pc # "idle" => next.user \in Persons,
         next.pc = "flag" => next.op # "edit"
  PROVE  /\ staffCall' \in [StaffCalls -> StaffCallStates]
         /\ \A d \in StaffCalls : StaffCallOK(d)'
         /\ \A u \in Persons :
              Between(u)' = (Between(u) \ {c}) \union (IF next.pc = "flag" /\ next.user = u THEN {c} ELSE {})
         /\ \A u \in Persons : \A d \in Between(u) \ {c} : staffCall'[d] = staffCall[d]
         /\ staffCall'[c] = next
<1>0. staffCall \in [StaffCalls -> StaffCallStates]
  BY DEF StaffIInv, StaffTypeOK
<1>1. /\ staffCall' \in [StaffCalls -> StaffCallStates] /\ staffCall'[c] = next
      /\ \A d \in StaffCalls \ {c} : staffCall'[d] = staffCall[d]
  BY <1>0
<1>2. \A d \in StaffCalls : StaffCallOK(d)'
  BY <1>1 DEF StaffIInv, StaffCallOK
<1>3. ASSUME NEW u \in Persons
      PROVE  Between(u)' = (Between(u) \ {c}) \union (IF next.pc = "flag" /\ next.user = u THEN {c} ELSE {})
  BY <1>1 DEF Between
<1>4. \A u \in Persons : \A d \in Between(u) \ {c} : staffCall'[d] = staffCall[d]
  BY <1>1 DEF Between
<1>5. QED BY <1>1, <1>2, <1>3, <1>4

LEMMA CallLeaves ==
  ASSUME StaffIInv, NEW c \in StaffCalls, NEW next \in StaffCallStates,
         staffCall' = [staffCall EXCEPT ![c] = next],
         next.pc # "idle" => next.user \in Persons, next.pc # "flag"
  PROVE  /\ staffCall' \in [StaffCalls -> StaffCallStates]
         /\ \A d \in StaffCalls : StaffCallOK(d)'
         /\ \A u \in Persons : Between(u)' = Between(u) \ {c}
         /\ \A u \in Persons : \A d \in Between(u) \ {c} : staffCall'[d] = staffCall[d]
<1>1. \A u \in Persons :
        Between(u)' = (Between(u) \ {c}) \union (IF next.pc = "flag" /\ next.user = u THEN {c} ELSE {})
  BY CallMoves
<1>2. ASSUME NEW u \in Persons PROVE Between(u)' = Between(u) \ {c}
  BY <1>1
<1>3. QED BY <1>2, CallMoves

\* Steps before the first write and after the second.
LEMMA OutsideStep ==
  ASSUME StaffIInv, NEW c \in StaffCalls, NEW next \in StaffCallStates,
         staffCall' = [staffCall EXCEPT ![c] = next],
         next.pc # "idle" => next.user \in Persons,
         next.pc # "flag", staffCall[c].pc # "flag",
         UNCHANGED <<member, isStaff, skewed>>
  PROVE  StaffIInv'
<1>1. /\ staffCall' \in [StaffCalls -> StaffCallStates] /\ \A d \in StaffCalls : StaffCallOK(d)'
      /\ \A u \in Persons : Between(u)' = Between(u) \ {c}
      /\ \A u \in Persons : \A d \in Between(u) \ {c} : staffCall'[d] = staffCall[d]
  BY CallLeaves
<1>2. \A u \in Persons : c \notin Between(u)
  BY DEF Between
<1>3. ASSUME NEW u \in Persons PROVE BetweenOK(u)'
  <2>0. Between(u) \ {c} = Between(u)
    BY <1>2
  <2>1. Between(u)' = Between(u) /\ \A d \in Between(u) : staffCall'[d] = staffCall[d]
    BY <1>1, <2>0
  <2>2. BetweenOK(u)
    BY DEF StaffIInv
  <2>3. QED BY <2>1, <2>2 DEF BetweenOK
<1>4. QED BY <1>1, <1>3 DEF StaffIInv, StaffTypeOK

LEMMA NoCallOK == NoCall \in StaffCallStates /\ NoCall.pc = "idle" /\ NoCall.op = "none"
BY DEF NoCall, StaffCallStates

LEMMA WriteMemberStep ==
  ASSUME StaffIInv, NEW c \in StaffCalls, WriteMember(c)
  PROVE  StaffIInv'
<1>a. PICK u, op : u = staffCall[c].user /\ op = staffCall[c].op
  OBVIOUS
<1> DEFINE next == [staffCall[c] EXCEPT !.pc = NextWrite(op)]
<1>0. /\ StaffTypeOK /\ staffCall[c] \in StaffCallStates /\ staffCall[c].pc = "write" /\ u \in Persons
      /\ u = staffCall[c].user /\ op = staffCall[c].op
  BY <1>a DEF StaffIInv, StaffTypeOK, StaffCallOK, WriteMember
<1>1. next \in StaffCallStates /\ next.pc = NextWrite(op) /\ next.user = u /\ next.op = op
  BY <1>0 DEF NextWrite, StaffCallStates
<1>2. staffCall' = [staffCall EXCEPT ![c] = next] /\ UNCHANGED isStaff
  BY <1>0 DEF WriteMember, StaffTypeOK
<1>3. /\ member' \in [Persons -> {"none", "active", "inactive"}]
      /\ op = "edit" => member' = member
      /\ op # "edit" => (member'[u] = "active" <=> op # "deactivate")
      /\ \A v \in Persons \ {u} : member'[v] = member[v]
  BY <1>0 DEF WriteMember, StaffTypeOK
<1>4. /\ skewed' \in [Persons -> BOOLEAN]
      /\ op = "edit" => skewed' = skewed
      /\ op # "edit" => (skewed'[u] <=> Between(u) # {})
      /\ \A v \in Persons \ {u} : skewed'[v] = skewed[v]
  BY <1>0 DEF WriteMember, StaffTypeOK
<1>5. /\ NextWrite(op) = "flag" <=> op # "edit"
      /\ NextWrite(op) # "idle"
  BY DEF NextWrite
<1> HIDE DEF next
<1>6. CASE op = "edit"
  BY <1>0, <1>1, <1>2, <1>3, <1>4, <1>5, <1>6, OutsideStep
<1>7. CASE op # "edit"
  <2>1. /\ staffCall' \in [StaffCalls -> StaffCallStates] /\ \A d \in StaffCalls : StaffCallOK(d)'
        /\ \A v \in Persons :
             Between(v)' = (Between(v) \ {c}) \union (IF next.pc = "flag" /\ next.user = v THEN {c} ELSE {})
        /\ \A v \in Persons : \A d \in Between(v) \ {c} : staffCall'[d] = staffCall[d]
        /\ staffCall'[c] = next
    BY <1>0, <1>1, <1>2, <1>5, <1>7, CallMoves
  <2>2. \A v \in Persons : c \notin Between(v)
    BY <1>0 DEF Between
  <2>3. BetweenOK(u)'
    <3>1. Between(u)' = Between(u) \union {c}
      BY <1>0, <1>1, <1>5, <1>7, <2>1, <2>2
    <3>2. ~skewed'[u] => Between(u) = {}
      BY <1>4, <1>7
    <3>3. QED BY <1>1, <1>3, <1>7, <2>1, <3>1, <3>2 DEF BetweenOK
  <2>4. ASSUME NEW v \in Persons, v # u PROVE BetweenOK(v)'
    <3>1. Between(v)' = Between(v) /\ \A d \in Between(v) : staffCall'[d] = staffCall[d]
      BY <1>1, <2>1, <2>2, <2>4
    <3>2. BetweenOK(v) /\ member'[v] = member[v] /\ skewed'[v] = skewed[v] /\ isStaff'[v] = isStaff[v]
      BY <1>2, <1>3, <1>4, <2>4 DEF StaffIInv
    <3>3. QED BY <3>1, <3>2 DEF BetweenOK
  <2>5. StaffTypeOK'
    BY <1>0, <1>2, <1>3, <1>4, <2>1 DEF StaffTypeOK
  <2>6. QED BY <2>1, <2>3, <2>4, <2>5 DEF StaffIInv
<1>8. QED BY <1>6, <1>7

LEMMA WriteUserStep ==
  ASSUME StaffIInv, NEW c \in StaffCalls, WriteUser(c)
  PROVE  StaffIInv'
<1>a. PICK u, op : u = staffCall[c].user /\ op = staffCall[c].op
  OBVIOUS
<1> DEFINE next == [staffCall[c] EXCEPT !.pc = "tell"]
<1>0. /\ StaffTypeOK /\ staffCall[c] \in StaffCallStates /\ staffCall[c].pc = "flag" /\ u \in Persons
      /\ u = staffCall[c].user /\ op = staffCall[c].op
  BY <1>a DEF StaffIInv, StaffTypeOK, StaffCallOK, WriteUser
<1>1. next \in StaffCallStates /\ next.pc = "tell" /\ next.user = u
  BY <1>0 DEF StaffCallStates
<1>2. staffCall' = [staffCall EXCEPT ![c] = next] /\ UNCHANGED <<member, skewed>>
  BY <1>0 DEF WriteUser, StaffTypeOK
<1>3. /\ isStaff' \in [Persons -> BOOLEAN]
      /\ isStaff'[u] <=> op # "deactivate"
      /\ \A v \in Persons \ {u} : isStaff'[v] = isStaff[v]
  BY <1>0 DEF WriteUser, StaffTypeOK
<1> HIDE DEF next
<1>4. /\ staffCall' \in [StaffCalls -> StaffCallStates] /\ \A d \in StaffCalls : StaffCallOK(d)'
      /\ \A v \in Persons : Between(v)' = Between(v) \ {c}
      /\ \A v \in Persons : \A d \in Between(v) \ {c} : staffCall'[d] = staffCall[d]
  BY <1>0, <1>1, <1>2, CallLeaves
<1>5. c \in Between(u) /\ \A v \in Persons \ {u} : c \notin Between(v)
  BY <1>0 DEF Between
<1>6. BetweenOK(u)'
  <2>1. ~skewed[u] => Between(u)' = {} /\ (member[u] = "active" <=> op # "deactivate")
    <3>1. ~skewed[u] => \A d \in Between(u) : d = c
      BY <1>0, <1>5 DEF StaffIInv, BetweenOK
    <3>2. ~skewed[u] => (member[u] = "active" <=> op # "deactivate")
      BY <1>0, <1>5 DEF StaffIInv, BetweenOK
    <3>3. Between(u)' = Between(u) \ {c}
      BY <1>0, <1>4
    <3>4. QED BY <3>1, <3>2, <3>3
  <2>2. QED BY <1>2, <1>3, <2>1 DEF BetweenOK
<1>7. ASSUME NEW v \in Persons, v # u PROVE BetweenOK(v)'
  <2>1. Between(v)' = Between(v) /\ \A d \in Between(v) : staffCall'[d] = staffCall[d]
    BY <1>4, <1>5, <1>7
  <2>2. BetweenOK(v) /\ member'[v] = member[v] /\ skewed'[v] = skewed[v] /\ isStaff'[v] = isStaff[v]
    BY <1>2, <1>3, <1>7 DEF StaffIInv
  <2>3. QED BY <2>1, <2>2 DEF BetweenOK
<1>8. QED BY <1>0, <1>2, <1>3, <1>4, <1>6, <1>7 DEF StaffIInv, StaffTypeOK

LEMMA LoseCallStep ==
  ASSUME StaffIInv, NEW c \in StaffCalls, LoseCall(c)
  PROVE  StaffIInv'
<1>0. StaffTypeOK /\ staffCall' = [staffCall EXCEPT ![c] = NoCall] /\ UNCHANGED <<member, isStaff>>
  BY DEF StaffIInv, LoseCall
<1>1. CASE staffCall[c].pc # "flag"
  BY <1>0, <1>1, NoCallOK, OutsideStep DEF LoseCall
<1>2. CASE staffCall[c].pc = "flag"
  <2>0. PICK u : u = staffCall[c].user
    OBVIOUS
  <2>1. /\ staffCall' \in [StaffCalls -> StaffCallStates] /\ \A d \in StaffCalls : StaffCallOK(d)'
        /\ \A v \in Persons : Between(v)' = Between(v) \ {c}
        /\ \A v \in Persons : \A d \in Between(v) \ {c} : staffCall'[d] = staffCall[d]
    BY <1>0, NoCallOK, CallLeaves
  <2>2. skewed' = [skewed EXCEPT ![u] = TRUE] /\ \A v \in Persons \ {u} : c \notin Between(v)
    BY <1>2, <2>0 DEF LoseCall, Between
  <2>3. skewed' \in [Persons -> BOOLEAN]
    BY <1>0, <2>2 DEF StaffTypeOK
  <2>4. ASSUME NEW v \in Persons PROVE BetweenOK(v)'
    <3>1. CASE v = u
      BY <1>0, <2>2, <3>1 DEF BetweenOK, StaffTypeOK
    <3>2. CASE v # u
      <4>1. Between(v)' = Between(v) /\ \A d \in Between(v) : staffCall'[d] = staffCall[d]
        BY <2>1, <2>2, <3>2
      <4>2. BetweenOK(v) /\ member'[v] = member[v] /\ skewed'[v] = skewed[v] /\ isStaff'[v] = isStaff[v]
        BY <1>0, <2>2, <3>2 DEF StaffIInv, StaffTypeOK
      <4>3. QED BY <4>1, <4>2 DEF BetweenOK
    <3>3. QED BY <3>1, <3>2
  <2>5. QED BY <1>0, <2>1, <2>3, <2>4 DEF StaffIInv, StaffTypeOK
<1>3. QED BY <1>1, <1>2

LEMMA StaffStep == StaffIInv /\ [StaffNext]_staffVars => StaffIInv'
<1> SUFFICES ASSUME StaffIInv, [StaffNext]_staffVars PROVE StaffIInv'
  OBVIOUS
<1>0. staffCall \in [StaffCalls -> StaffCallStates]
  BY DEF StaffIInv, StaffTypeOK
<1>1. ASSUME NEW c \in StaffCalls, NEW u \in Persons,
             NEW op \in {"create", "activate", "deactivate", "edit"}, Admit(c, op, u)
      PROVE  StaffIInv'
  <2> DEFINE next == [pc |-> "write", op |-> op, user |-> u]
  <2>1. next \in StaffCallStates /\ next.user \in Persons /\ next.pc = "write"
    BY DEF StaffCallStates
  <2>2. /\ staffCall' = [staffCall EXCEPT ![c] = next] /\ staffCall[c].pc = "idle"
        /\ UNCHANGED <<member, isStaff, skewed>>
    BY <1>1, NoCallOK DEF Admit
  <2> HIDE DEF next
  <2>3. QED BY <2>1, <2>2, OutsideStep
<1>2. ASSUME NEW c \in StaffCalls, Tell(c) PROVE StaffIInv'
  BY <1>2, NoCallOK, OutsideStep DEF Tell
<1>3. ASSUME NEW c \in StaffCalls, WriteMember(c) \/ WriteUser(c) \/ LoseCall(c) PROVE StaffIInv'
  BY <1>3, WriteMemberStep, WriteUserStep, LoseCallStep
<1>4. CASE UNCHANGED staffVars
  BY <1>4 DEF staffVars, StaffIInv, StaffTypeOK, StaffCallOK, BetweenOK, Between
<1>5. QED BY <1>1, <1>2, <1>3, <1>4 DEF StaffNext

LEMMA StaffInvariance == StaffSpec => []StaffIInv
BY StaffInitial, StaffStep, PTL DEF StaffSpec

\* Every variable of the staff keeps its type.
THEOREM StaffTypes == StaffSpec => []StaffTypeOK
<1>1. StaffIInv => StaffTypeOK
  BY DEF StaffIInv
<1>2. QED BY <1>1, StaffInvariance, PTL

\* The flag the bot's guard reads is the member's own, for any number of users and of calls at
\* the same time, unless calls overlapped or one was lost (StaffService.create, update).
THEOREM FlagsAgree == StaffSpec => []StaffFlagsAgree
<1>1. StaffIInv => StaffFlagsAgree
  BY DEF StaffIInv, BetweenOK, StaffFlagsAgree
<1>2. QED BY <1>1, StaffInvariance, PTL

-----------------------------------------------------------------------------
(***************************************************************************)
(*                                  Watch                                  *)
(*                                                                         *)
(* A call that meets no other knows the status: what it has read is the    *)
(* status until it writes, and what it has written is until it tells.      *)
(***************************************************************************)

Wrote(c) == watcher[c].pc \in {"row", "tell"}

\* What a call reads of w.
StatusNow(w) == IF watched[w] = "none" /\ w \in Services THEN "UNKNOWN" ELSE watched[w]

WatcherOK(c) ==
  LET w == watcher[c].on
  IN /\ watcher[c].pc # "idle" => w \in Watched
     /\ watcher[c].pc = "write" =>
          /\ watcher[c].to \in StatusesOf(w) \union {"same"}
          /\ watcher[c].to = "same" => watcher[c].op \in {"update", "upsert"}
          /\ watcher[c].op = "upsert" => w \in Services
          /\ watcher[c].op \in {"update", "resolve"} /\ w \in Incidents => watched[w] # "none"
          /\ watcher[c].met => muddled[w]
          /\ ~watcher[c].met => watcher[c].read = StatusNow(w)
     /\ Wrote(c) =>
          /\ watcher[c].to \in StatusesOf(w) /\ watched[w] # "none"
          /\ ~watcher[c].met \/ ~muddled[w] => watched[w] = watcher[c].to

\* What a call that has met no other means for the others on its row.
PairOK(c, d) ==
  c # d /\ watcher[c].on = watcher[d].on /\ Wrote(c) /\ ~watcher[c].met =>
    ~Wrote(d) /\ (watcher[d].pc = "write" => ~watcher[d].met)

NewsOK(w) ==
  /\ watched[w] # "none" /\ ~muddled[w] /\ ~Telling(w) => news[w] = watched[w]
  /\ w \in Services /\ watched[w] = "none" => news[w] = "UNKNOWN"

WatchIInv ==
  /\ WatchTypeOK
  /\ \A c \in WatchCalls : WatcherOK(c)
  /\ \A c, d \in WatchCalls : PairOK(c, d)
  /\ \A w \in Watched : NewsOK(w)

LEMMA StatusesTyped ==
  \A w : /\ StatusesOf(w) \subseteq AllStatuses /\ "none" \notin StatusesOf(w) /\ "same" \notin StatusesOf(w)
         /\ w \in Services => "UNKNOWN" \in StatusesOf(w)
BY WatchedAssumption DEF StatusesOf, AllStatuses

LEMMA WatchTyped ==
  WatchIInv => /\ watcher \in [WatchCalls -> WatcherStates]
               /\ watched \in [Watched -> AllStatuses \union {"none"}]
               /\ news \in [Watched -> AllStatuses \union {"none"}]
               /\ muddled \in [Watched -> BOOLEAN]
               /\ \A w \in Watched : /\ watched[w] \in StatusesOf(w) \union {"none"}
                                     /\ news[w] \in StatusesOf(w) \union {"none"}
BY DEF WatchIInv, WatchTypeOK

LEMMA NotWatchingOK == NotWatching \in WatcherStates /\ NotWatching.pc = "idle" /\ NotWatching.met = FALSE
BY DEF NotWatching, WatcherStates

LEMMA WatchInitial == WatchInit => WatchIInv
<1> SUFFICES ASSUME WatchInit PROVE WatchIInv
  OBVIOUS
<1>1. WatchTypeOK
  BY StatusesTyped, NotWatchingOK DEF WatchInit, WatchTypeOK, AllStatuses
<1>2. \A c \in WatchCalls : WatcherOK(c)
  BY NotWatchingOK DEF WatchInit, WatcherOK, Wrote
<1>3. \A c, d \in WatchCalls : PairOK(c, d)
  BY NotWatchingOK DEF WatchInit, PairOK, Wrote
<1>4. \A w \in Watched : NewsOK(w)
  BY DEF WatchInit, NewsOK
<1>5. QED BY <1>1, <1>2, <1>3, <1>4 DEF WatchIInv

LEMMA WatcherMoves ==
  ASSUME WatchIInv, NEW c \in WatchCalls, NEW next \in WatcherStates, watcher' = [watcher EXCEPT ![c] = next]
  PROVE  /\ watcher' \in [WatchCalls -> WatcherStates] /\ watcher'[c] = next
         /\ \A d \in WatchCalls \ {c} : watcher'[d] = watcher[d]
BY WatchTyped

\* Steps that write no row and tell nothing: reading, the timeline, the end.
LEMMA QuietWatch ==
  ASSUME WatchIInv, NEW c \in WatchCalls, NEW next \in WatcherStates, watcher' = [watcher EXCEPT ![c] = next],
         UNCHANGED <<watched, news, muddled>>, WatcherOK(c)',
         next.pc = "write" => ~next.met,
         \/ Wrote(c) /\ next.pc \in {"row", "tell"} /\ next.on = watcher[c].on /\ next.met = watcher[c].met
         \/ ~Wrote(c) /\ next.pc \notin {"row", "tell"}
  PROVE  WatchIInv'
<1>1. /\ watcher' \in [WatchCalls -> WatcherStates] /\ watcher'[c] = next
      /\ \A d \in WatchCalls \ {c} : watcher'[d] = watcher[d]
  BY WatcherMoves
<1>2. ASSUME NEW d \in WatchCalls PROVE WatcherOK(d)'
  <2>1. CASE d = c
    BY <2>1
  <2>2. CASE d # c
    <3>1. WatcherOK(d) /\ watcher'[d] = watcher[d]
      BY <1>1, <2>2 DEF WatchIInv
    <3>2. QED BY <3>1 DEF WatcherOK, Wrote, StatusNow
  <2>3. QED BY <2>1, <2>2
<1>3. ASSUME NEW x \in WatchCalls, NEW y \in WatchCalls PROVE PairOK(x, y)'
  <2>1. PairOK(x, y)
    BY DEF WatchIInv
  <2>2. CASE x = c /\ y # c
    BY <1>1, <2>1, <2>2 DEF PairOK, Wrote
  <2>3. CASE y = c /\ x # c
    BY <1>1, <2>1, <2>3 DEF PairOK, Wrote
  <2>4. CASE x # c /\ y # c
    BY <1>1, <2>1, <2>4 DEF PairOK, Wrote
  <2>5. CASE x = y
    BY <2>5 DEF PairOK
  <2>6. QED BY <2>2, <2>3, <2>4, <2>5
<1>4. ASSUME NEW w \in Watched PROVE NewsOK(w)'
  <2>1. Telling(w)' <=> Telling(w)
    BY <1>1 DEF Telling, Wrote
  <2>2. NewsOK(w)
    BY DEF WatchIInv
  <2>3. QED BY <2>1, <2>2 DEF NewsOK
<1>5. WatchTypeOK'
  BY <1>1 DEF WatchIInv, WatchTypeOK, StatusesOf
<1>6. QED BY <1>2, <1>3, <1>4, <1>5 DEF WatchIInv

LEMMA CallsTyped ==
  ASSUME NEW w \in Watched, NEW call \in Calls(w)
  PROVE  /\ call[1] \in {"create", "update", "resolve", "upsert"}
         /\ call[2] \in StatusesOf(w) \union {"same"}
         /\ call[2] = "same" => call[1] \in {"update", "upsert"}
         /\ call[1] = "upsert" => w \in Services
<1>1. CASE w \in Incidents
  <2>1. \/ call = <<"create", "DETECTED">> \/ call = <<"resolve", "RESOLVED">>
        \/ call \in {"update"} \X (StatusesOf(w) \union {"same"})
    BY <1>1 DEF Calls
  <2>2. "DETECTED" \in StatusesOf(w) /\ "RESOLVED" \in StatusesOf(w)
    BY <1>1 DEF StatusesOf
  <2>3. CASE call = <<"create", "DETECTED">>
    BY <2>2, <2>3
  <2>4. CASE call = <<"resolve", "RESOLVED">>
    BY <2>2, <2>4
  <2>5. CASE call \in {"update"} \X (StatusesOf(w) \union {"same"})
    BY <2>5
  <2>6. QED BY <2>1, <2>3, <2>4, <2>5
<1>2. CASE w \notin Incidents
  <2>1. call \in {"upsert", "update"} \X (StatusesOf(w) \union {"same"}) /\ w \in Services
    BY <1>2 DEF Calls, Watched
  <2>2. QED BY <2>1
<1>3. QED BY <1>1, <1>2

LEMMA ReadStatusStep ==
  ASSUME WatchIInv, NEW c \in WatchCalls, NEW w \in Watched, NEW call \in Calls(w), ReadStatus(c, w, call)
  PROVE  WatchIInv'
<1> DEFINE next == [NotWatching EXCEPT !.pc = "write", !.op = call[1], !.on = w, !.to = call[2],
                      !.read = StatusNow(w)]
<1>1. call[2] \in AllStatuses \union {"same"} /\ StatusNow(w) \in AllStatuses \union {"none"}
  BY CallsTyped, StatusesTyped, WatchTyped DEF StatusNow, AllStatuses
<1>2. /\ next \in WatcherStates /\ next.pc = "write" /\ next.op = call[1] /\ next.on = w /\ next.to = call[2]
      /\ next.read = StatusNow(w) /\ next.met = FALSE
  BY <1>1, CallsTyped DEF WatcherStates, NotWatching
<1>3. watcher' = [watcher EXCEPT ![c] = next] /\ UNCHANGED <<watched, news, muddled>>
  BY DEF ReadStatus, StatusNow
<1>4. call[1] \in {"update", "resolve"} => watched[w] # "none"
  BY DEF ReadStatus
<1>5. ~Wrote(c)
  BY NotWatchingOK DEF ReadStatus, Wrote
<1> HIDE DEF next
<1>6. watcher'[c] = next
  BY <1>2, <1>3, WatcherMoves
<1>7. StatusNow(w)' = StatusNow(w)
  BY <1>3 DEF StatusNow
<1>8. WatcherOK(c)'
  BY <1>2, <1>3, <1>4, <1>6, CallsTyped DEF WatcherOK, Wrote, StatusNow
<1>9. QED BY <1>2, <1>3, <1>5, <1>8, QuietWatch

LEMMA AddRowStep == ASSUME WatchIInv, NEW c \in WatchCalls, AddRow(c) PROVE WatchIInv'
<1>0. watcher[c] \in WatcherStates /\ WatcherOK(c)
  BY WatchTyped DEF WatchIInv
<1>1. PICK p \in {"tell", "done"} :
        /\ watcher' = [watcher EXCEPT ![c] = [watcher[c] EXCEPT !.pc = p]]
        /\ UNCHANGED <<watched, news, muddled>>
        /\ watcher[c].pc = (IF p = "tell" THEN "row" ELSE "lastRow")
  BY WatchTyped DEF AddRow
<1> DEFINE next == [watcher[c] EXCEPT !.pc = p]
<1>2. /\ next \in WatcherStates /\ next.pc = p /\ next.on = watcher[c].on /\ next.met = watcher[c].met
      /\ next.to = watcher[c].to
  BY <1>0 DEF WatcherStates
<1>3. watcher' = [watcher EXCEPT ![c] = next]
  BY <1>1
<1> HIDE DEF next
<1>4. watcher'[c] = next
  BY <1>2, <1>3, WatcherMoves
<1>5. WatcherOK(c)'
  BY <1>0, <1>1, <1>2, <1>4 DEF WatcherOK, Wrote
<1>6. QED BY <1>1, <1>2, <1>3, <1>5, QuietWatch DEF Wrote

\* The end of a call, and one that is lost outside its write and its event.
LEMMA LeaveStep ==
  ASSUME WatchIInv, NEW c \in WatchCalls, watcher' = [watcher EXCEPT ![c] = NotWatching], ~Wrote(c),
         UNCHANGED <<watched, news, muddled>>
  PROVE  WatchIInv'
<1>1. watcher'[c] = NotWatching
  BY NotWatchingOK, WatcherMoves
<1>2. WatcherOK(c)'
  BY <1>1, NotWatchingOK DEF WatcherOK, Wrote
<1>3. QED BY <1>2, NotWatchingOK, QuietWatch

\* One that is lost between its write and its event: the row is muddled.
LEMMA LoseWrittenStep ==
  ASSUME WatchIInv, NEW c \in WatchCalls, NEW w \in Watched, w = watcher[c].on, Wrote(c),
         watcher' = [watcher EXCEPT ![c] = NotWatching], muddled' = [muddled EXCEPT ![w] = TRUE],
         UNCHANGED <<watched, news>>
  PROVE  WatchIInv'
<1>1. /\ watcher' \in [WatchCalls -> WatcherStates] /\ watcher'[c] = NotWatching
      /\ \A d \in WatchCalls \ {c} : watcher'[d] = watcher[d]
  BY NotWatchingOK, WatcherMoves
<1>2. /\ muddled' \in [Watched -> BOOLEAN] /\ muddled'[w]
      /\ \A v \in Watched \ {w} : muddled'[v] = muddled[v]
  BY WatchTyped
<1>3. ASSUME NEW d \in WatchCalls PROVE WatcherOK(d)'
  <2>1. CASE d = c
    BY <1>1, <2>1, NotWatchingOK DEF WatcherOK, Wrote
  <2>2. CASE d # c
    <3>1. WatcherOK(d) /\ watcher'[d] = watcher[d]
      BY <1>1, <2>2 DEF WatchIInv
    <3>2. watcher[d].pc # "idle" => watcher[d].on \in Watched
      BY <3>1 DEF WatcherOK
    <3>3. watcher[d].pc # "idle" /\ muddled[watcher[d].on] => muddled'[watcher[d].on]
      BY <1>2, <3>2
    <3>4. QED BY <3>1, <3>3 DEF WatcherOK, Wrote, StatusNow
  <2>3. QED BY <2>1, <2>2
<1>4. ASSUME NEW x \in WatchCalls, NEW y \in WatchCalls PROVE PairOK(x, y)'
  <2>1. PairOK(x, y)
    BY DEF WatchIInv
  <2>2. QED BY <1>1, <2>1, NotWatchingOK DEF PairOK, Wrote
<1>5. ASSUME NEW v \in Watched PROVE NewsOK(v)'
  <2>1. NewsOK(v)
    BY DEF WatchIInv
  <2>2. CASE v = w
    <3>1. watched[v] # "none"
      BY <2>2 DEF WatchIInv, WatcherOK
    <3>2. QED BY <1>2, <2>2, <3>1 DEF NewsOK
  <2>3. CASE v # w
    <3>1. Telling(v)' <=> Telling(v)
      BY <1>1, <2>3, NotWatchingOK DEF Telling
    <3>2. QED BY <1>2, <2>1, <2>3, <3>1 DEF NewsOK
  <2>4. QED BY <2>2, <2>3
<1>6. WatchTypeOK'
  BY <1>1, <1>2 DEF WatchIInv, WatchTypeOK, StatusesOf
<1>7. QED BY <1>3, <1>4, <1>5, <1>6 DEF WatchIInv

LEMMA LoseWatcherStep == ASSUME WatchIInv, NEW c \in WatchCalls, LoseWatcher(c) PROVE WatchIInv'
<1>1. CASE Wrote(c)
  <2>1. PICK w \in Watched : w = watcher[c].on
    BY <1>1 DEF WatchIInv, WatcherOK, Wrote
  <2>2. /\ watcher' = [watcher EXCEPT ![c] = NotWatching] /\ muddled' = [muddled EXCEPT ![w] = TRUE]
        /\ UNCHANGED <<watched, news>>
    BY <1>1, <2>1 DEF LoseWatcher, Wrote
  <2>3. QED BY <1>1, <2>1, <2>2, LoseWrittenStep
<1>2. CASE ~Wrote(c)
  BY <1>2, LeaveStep DEF LoseWatcher, Wrote
<1>3. QED BY <1>1, <1>2

LEMMA TellStatusStep == ASSUME WatchIInv, NEW c \in WatchCalls, TellStatus(c) PROVE WatchIInv'
<1>0. watcher[c].pc = "tell" /\ watcher[c] \in WatcherStates /\ WatcherOK(c)
  BY WatchTyped DEF WatchIInv, TellStatus
<1>1. PICK w \in Watched : w = watcher[c].on
  BY <1>0 DEF WatcherOK
<1>2. PICK p \in {"lastRow", "done"} : watcher' = [watcher EXCEPT ![c] = [watcher[c] EXCEPT !.pc = p]]
  BY WatchTyped DEF TellStatus
<1> DEFINE next == [watcher[c] EXCEPT !.pc = p]
<1>3. next \in WatcherStates /\ next.pc = p
  BY <1>0 DEF WatcherStates
<1>4. /\ watcher' \in [WatchCalls -> WatcherStates] /\ watcher'[c].pc = p
      /\ \A d \in WatchCalls \ {c} : watcher'[d] = watcher[d]
  BY <1>2, <1>3, WatcherMoves
<1> HIDE DEF next
<1>5. /\ watched' = watched /\ watched[w] # "none"
      /\ news' \in [Watched -> AllStatuses \union {"none"}] /\ news'[w] = watcher[c].to
      /\ news'[w] \in StatusesOf(w)
      /\ \A v \in Watched \ {w} : news'[v] = news[v]
  BY <1>0, <1>1, WatchTyped, StatusesTyped DEF TellStatus, WatcherOK, Wrote
<1>6. /\ muddled' \in [Watched -> BOOLEAN] /\ (muddled'[w] <=> muddled[w] /\ watcher[c].met)
      /\ \A v \in Watched \ {w} : muddled'[v] = muddled[v]
  <2>1. watcher[c].met \in BOOLEAN
    BY <1>0 DEF WatcherStates
  <2>2. muddled' = [muddled EXCEPT ![w] = muddled[w] /\ watcher[c].met]
    BY <1>1 DEF TellStatus
  <2>3. muddled \in [Watched -> BOOLEAN]
    BY WatchTyped
  <2>4. QED BY <2>1, <2>2, <2>3
\* Whoever has met another on this row knows that the one that tells has met one too.
<1>7. ASSUME NEW d \in WatchCalls, d # c, watcher[d].on = w, ~watcher[c].met
      PROVE  ~Wrote(d) /\ (watcher[d].pc = "write" => ~watcher[d].met)
  <2>1. PairOK(c, d)
    BY DEF WatchIInv
  <2>2. QED BY <1>0, <1>1, <1>7, <2>1 DEF PairOK, Wrote
<1>8. ASSUME NEW d \in WatchCalls PROVE WatcherOK(d)'
  <2>1. CASE d = c
    <3>1. watcher'[c].on = watcher[c].on
      BY <1>0, <1>2, WatchTyped DEF WatcherStates
    <3>2. QED BY <1>1, <1>4, <2>1, <3>1 DEF WatcherOK, Wrote
  <2>2. CASE d # c
    <3>1. WatcherOK(d) /\ watcher'[d] = watcher[d]
      BY <1>4, <2>2 DEF WatchIInv
    <3>2. CASE watcher[d].on # w
      <4>1. watcher[d].pc # "idle" => muddled'[watcher[d].on] = muddled[watcher[d].on]
        BY <1>6, <3>1, <3>2 DEF WatcherOK
      <4>2. QED BY <1>5, <3>1, <4>1 DEF WatcherOK, Wrote, StatusNow
    <3>3. CASE watcher[d].on = w /\ ~watcher[c].met
      BY <1>5, <1>7, <2>2, <3>1, <3>3 DEF WatcherOK, Wrote, StatusNow
    <3>4. CASE watcher[d].on = w /\ watcher[c].met
      BY <1>5, <1>6, <3>1, <3>4 DEF WatcherOK, Wrote, StatusNow
    <3>5. QED BY <3>2, <3>3, <3>4
  <2>3. QED BY <2>1, <2>2
<1>9. ASSUME NEW x \in WatchCalls, NEW y \in WatchCalls PROVE PairOK(x, y)'
  <2>1. PairOK(x, y)
    BY DEF WatchIInv
  <2>2. watcher'[c].on = watcher[c].on
    BY <1>0, <1>2, WatchTyped DEF WatcherStates
  <2>3. QED BY <1>4, <2>1, <2>2 DEF PairOK, Wrote
<1>10. ASSUME NEW v \in Watched PROVE NewsOK(v)'
  <2>1. NewsOK(v)
    BY DEF WatchIInv
  <2>2. CASE v = w
    <3>1. ~muddled'[w] => watched[w] = watcher[c].to
      BY <1>0, <1>1, <1>6 DEF WatcherOK, Wrote
    <3>2. QED BY <1>5, <2>2, <3>1 DEF NewsOK
  <2>3. CASE v # w
    <3>1. watcher'[c].on = w
      BY <1>0, <1>1, <1>2, WatchTyped DEF WatcherStates
    <3>2. Telling(v)' <=> Telling(v)
      BY <1>1, <1>4, <2>3, <3>1 DEF Telling
    <3>3. QED BY <1>5, <1>6, <2>1, <2>3, <3>2 DEF NewsOK
  <2>4. QED BY <2>2, <2>3
<1>11. WatchTypeOK'
  <2>1. ASSUME NEW v \in Watched
        PROVE  {watched'[v], news'[v]} \subseteq StatusesOf(v) \union {"none"}
    BY <1>5, WatchTyped
  <2>2. QED BY <1>4, <1>5, <1>6, <2>1, WatchTyped DEF WatchTypeOK, StatusesOf
<1>12. QED BY <1>8, <1>9, <1>10, <1>11 DEF WatchIInv

\* What a call writes is a status of the row.
LEMMA WrittenTyped ==
  ASSUME WatchIInv, NEW c \in WatchCalls, watcher[c].pc = "write"
  PROVE  Written(c) \in StatusesOf(watcher[c].on)
<1>1. WatcherOK(c) /\ watcher[c].on \in Watched
  BY DEF WatchIInv, WatcherOK
<1>2. watched[watcher[c].on] \in StatusesOf(watcher[c].on) \union {"none"}
  BY <1>1, WatchTyped
<1>3. CASE watcher[c].to # "same"
  BY <1>1, <1>3 DEF WatcherOK, Written
<1>4. CASE watcher[c].to = "same"
  <2>1. watched[watcher[c].on] = "none" => watcher[c].on \in Services
    BY <1>1, <1>4 DEF WatcherOK, Watched
  <2>2. QED BY <1>2, <1>4, <2>1, StatusesTyped DEF Written
<1>5. QED BY <1>3, <1>4

\* A write that nothing disturbed and that tells nothing has changed nothing.
LEMMA SilentWrite ==
  ASSUME WatchIInv, NEW c \in WatchCalls, watcher[c].pc = "write", ~watcher[c].met,
         watcher[c].op # "resolve", ~Tells(c)
  PROVE  Written(c) = StatusNow(watcher[c].on)
<1>1. WatcherOK(c) /\ watcher[c].op \in {"create", "update", "resolve", "upsert", "none"}
  BY WatchTyped DEF WatchIInv, WatcherStates
<1>2. watcher[c].op # "create" /\ watcher[c].read = StatusNow(watcher[c].on)
  BY <1>1 DEF Tells, WatcherOK
<1>3. CASE watcher[c].on \in Incidents
  <2>1. watcher[c].to \in {"same", watcher[c].read}
    BY <1>3 DEF Tells
  <2>2. watcher[c].on \notin Services
    BY <1>3, WatchedAssumption
  <2>3. StatusNow(watcher[c].on) = watched[watcher[c].on]
    BY <2>2 DEF StatusNow
  <2>4. watcher[c].to = "same" => watched[watcher[c].on] # "none"
    BY <1>1, <1>3, <2>2 DEF WatcherOK
  <2>5. QED BY <1>2, <2>1, <2>3, <2>4 DEF Written
<1>4. CASE watcher[c].on \notin Incidents
  BY <1>2, <1>4 DEF Tells
<1>5. QED BY <1>3, <1>4

LEMMA WriteStatusStep == ASSUME WatchIInv, NEW c \in WatchCalls, WriteStatus(c) PROVE WatchIInv'
<1>0. watcher[c].pc = "write" /\ watcher[c] \in WatcherStates /\ WatcherOK(c)
  BY WatchTyped DEF WatchIInv, WriteStatus
<1>1. PICK w \in Watched : w = watcher[c].on
  BY <1>0 DEF WatcherOK
<1>2. PICK s : s = Written(c)
  OBVIOUS
<1>3. s \in StatusesOf(w) /\ s \in AllStatuses /\ s # "none"
  BY <1>0, <1>1, <1>2, WrittenTyped, StatusesTyped
<1>4. /\ watched' \in [Watched -> AllStatuses \union {"none"}] /\ watched'[w] = s /\ news' = news
      /\ \A v \in Watched \ {w} : watched'[v] = watched[v]
  BY <1>1, <1>2, <1>3, WatchTyped DEF WriteStatus
<1>5. PICK o : o = Others(c)
  OBVIOUS
<1>6. \A d \in WatchCalls : d \in o <=> d # c /\ watcher[d].pc # "idle" /\ watcher[d].on = w
  BY <1>1, <1>5 DEF Others
<1>7. /\ muddled' \in [Watched -> BOOLEAN] /\ (muddled'[w] <=> muddled[w] \/ o # {})
      /\ \A v \in Watched \ {w} : muddled'[v] = muddled[v]
  <2>1. muddled' = [muddled EXCEPT ![w] = muddled[w] \/ o # {}]
    BY <1>1, <1>5 DEF WriteStatus
  <2>2. QED BY <2>1, WatchTyped
<1>8. PICK p \in {"row", "tell", "done"} :
        /\ watcher' = [d \in WatchCalls |->
             IF d = c THEN [watcher[c] EXCEPT !.met = watcher[c].met \/ o # {}, !.to = s, !.pc = p]
             ELSE IF d \in o THEN [watcher[d] EXCEPT !.met = TRUE] ELSE watcher[d]]
        /\ p = "done" => ~Tells(c) /\ watcher[c].op # "resolve"
  BY <1>2, <1>5 DEF WriteStatus
<1> DEFINE next == [watcher[c] EXCEPT !.met = watcher[c].met \/ o # {}, !.to = s, !.pc = p]
<1>9. /\ next \in WatcherStates /\ next.pc = p /\ next.on = w /\ next.to = s
      /\ (next.met <=> watcher[c].met \/ o # {})
  BY <1>0, <1>1, <1>3 DEF WatcherStates
<1>10. watcher'[c] = next
  BY <1>8
<1>11. ASSUME NEW d \in WatchCalls, d # c
       PROVE  /\ watcher'[d] \in WatcherStates
              /\ watcher'[d].pc = watcher[d].pc /\ watcher'[d].on = watcher[d].on
              /\ watcher'[d].to = watcher[d].to /\ watcher'[d].op = watcher[d].op
              /\ watcher'[d].read = watcher[d].read
              /\ (watcher'[d].met <=> watcher[d].met \/ d \in o)
  <2>1. watcher[d] \in WatcherStates
    BY WatchTyped
  <2>2. CASE d \in o
    BY <1>8, <1>11, <2>1, <2>2 DEF WatcherStates
  <2>3. CASE d \notin o
    BY <1>8, <1>11, <2>1, <2>3
  <2>4. QED BY <2>2, <2>3
<1>12. watcher' \in [WatchCalls -> WatcherStates]
  <2>1. \A d \in WatchCalls : watcher'[d] \in WatcherStates
    BY <1>9, <1>10, <1>11
  <2>2. QED BY <1>8, <2>1
<1> HIDE DEF next
<1>13. ASSUME NEW d \in WatchCalls PROVE WatcherOK(d)'
  <2>1. CASE d = c
    BY <1>1, <1>3, <1>4, <1>8, <1>9, <1>10, <2>1 DEF WatcherOK, Wrote
  <2>2. CASE d # c
    <3>1. WatcherOK(d) /\ (watcher[d].pc # "idle" => watcher[d].on \in Watched)
      BY DEF WatchIInv, WatcherOK
    <3>2. CASE d \in o
      <4>1. watcher[d].on = w /\ muddled'[w] /\ watcher'[d].met
        BY <1>6, <1>7, <1>11, <2>2, <3>2
      <4>2. QED BY <1>1, <1>3, <1>4, <1>11, <2>2, <3>1, <4>1 DEF WatcherOK, Wrote
    <3>3. CASE d \notin o
      <4>1. watcher[d].pc # "idle" =>
              /\ watcher[d].on \in Watched \ {w}
              /\ watched'[watcher[d].on] = watched[watcher[d].on]
              /\ muddled'[watcher[d].on] = muddled[watcher[d].on]
        BY <1>4, <1>6, <1>7, <2>2, <3>1, <3>3
      <4>2. watcher'[d] = watcher[d]
        BY <1>8, <2>2, <3>3
      <4>3. QED BY <3>1, <4>1, <4>2 DEF WatcherOK, Wrote, StatusNow
    <3>4. QED BY <3>2, <3>3
  <2>3. QED BY <2>1, <2>2
<1>14. ASSUME NEW x \in WatchCalls, NEW y \in WatchCalls PROVE PairOK(x, y)'
  <2>1. PairOK(x, y)
    BY DEF WatchIInv
  <2>2. SUFFICES ASSUME x # y, watcher'[x].on = watcher'[y].on, Wrote(x)', ~watcher'[x].met
                 PROVE  ~Wrote(y)' /\ (watcher'[y].pc = "write" => ~watcher'[y].met)
    BY DEF PairOK
  <2>3. CASE x = c
    <3>1. o = {} /\ y \notin o
      BY <1>9, <1>10, <2>2, <2>3
    <3>2. watcher[y].pc = "idle" /\ watcher'[y].pc = "idle"
      BY <1>6, <1>9, <1>10, <1>11, <2>2, <2>3, <3>1
    <3>3. QED BY <3>2 DEF Wrote
  <2>4. CASE x # c
    <3>1. x \notin o /\ watcher'[x].pc = watcher[x].pc /\ watcher'[x].on = watcher[x].on /\ ~watcher[x].met
      BY <1>11, <2>2, <2>4
    <3>2. watcher[x].on # w
      BY <1>6, <2>2, <2>4, <3>1 DEF Wrote
    <3>3. y # c
      BY <1>9, <1>10, <2>2, <3>1, <3>2
    <3>4. watcher[y].pc = "idle" \/ y \notin o
      BY <1>6, <1>11, <2>2, <3>1, <3>2, <3>3
    <3>5. QED BY <1>6, <1>11, <2>1, <2>2, <3>1, <3>2, <3>3, <3>4 DEF PairOK, Wrote
  <2>5. QED BY <2>3, <2>4
<1>15. ASSUME NEW v \in Watched PROVE NewsOK(v)'
  <2>1. NewsOK(v)
    BY DEF WatchIInv
  <2>2. CASE v = w
    <3>1. CASE muddled'[w] \/ p # "done"
      <4>1. p # "done" => Telling(w)'
        BY <1>8, <1>9, <1>10 DEF Telling
      <4>2. QED BY <1>3, <1>4, <2>2, <3>1, <4>1 DEF NewsOK
    <3>2. CASE ~muddled'[w] /\ p = "done"
      <4>1. ~muddled[w] /\ o = {}
        BY <1>7, <3>2
      <4>2. ~watcher[c].met
        BY <1>0, <1>1, <4>1 DEF WatcherOK
      <4>3. s = StatusNow(w)
        BY <1>0, <1>1, <1>2, <1>8, <3>2, <4>2, SilentWrite
      <4>4. ~Telling(w)
        BY <1>0, <1>6, <4>1 DEF Telling
      <4>5. news[w] = s
        BY <1>3, <2>1, <2>2, <4>1, <4>3, <4>4 DEF NewsOK, StatusNow
      <4>6. QED BY <1>3, <1>4, <2>2, <4>5 DEF NewsOK
    <3>3. QED BY <3>1, <3>2
  <2>3. CASE v # w
    <3>1. Telling(v)' <=> Telling(v)
      <4>1. watcher[c].on # v /\ watcher'[c].on # v
        BY <1>1, <1>9, <1>10, <2>3
      <4>2. QED BY <1>11, <4>1 DEF Telling
    <3>2. QED BY <1>4, <1>7, <2>1, <2>3, <3>1 DEF NewsOK
  <2>4. QED BY <2>2, <2>3
<1>16. WatchTypeOK'
  <2>1. ASSUME NEW v \in Watched
        PROVE  {watched'[v], news'[v]} \subseteq StatusesOf(v) \union {"none"}
    BY <1>3, <1>4, WatchTyped
  <2>2. QED BY <1>4, <1>7, <1>12, <2>1, WatchTyped DEF WatchTypeOK, StatusesOf
<1>17. QED BY <1>13, <1>14, <1>15, <1>16 DEF WatchIInv

LEMMA WatchStep == WatchIInv /\ [WatchNext]_watchVars => WatchIInv'
<1> SUFFICES ASSUME WatchIInv, [WatchNext]_watchVars PROVE WatchIInv'
  OBVIOUS
<1>1. ASSUME NEW c \in WatchCalls, NEW w \in Watched, NEW call \in Calls(w), ReadStatus(c, w, call)
      PROVE  WatchIInv'
  BY <1>1, ReadStatusStep
<1>2. ASSUME NEW c \in WatchCalls, WriteStatus(c) \/ AddRow(c) \/ TellStatus(c) \/ LoseWatcher(c)
      PROVE  WatchIInv'
  BY <1>2, WriteStatusStep, AddRowStep, TellStatusStep, LoseWatcherStep
<1>3. ASSUME NEW c \in WatchCalls, EndWatching(c) PROVE WatchIInv'
  BY <1>3, LeaveStep DEF EndWatching, Wrote
<1>4. CASE UNCHANGED watchVars
  <2>1. UNCHANGED <<watched, news, watcher, muddled>>
    BY <1>4 DEF watchVars
  <2>2. WatchTypeOK'
    BY <2>1 DEF WatchIInv, WatchTypeOK, StatusesOf
  <2>3. ASSUME NEW c \in WatchCalls PROVE WatcherOK(c)'
    BY <2>1 DEF WatchIInv, WatcherOK, Wrote, StatusNow, StatusesOf
  <2>4. ASSUME NEW c \in WatchCalls, NEW d \in WatchCalls PROVE PairOK(c, d)'
    BY <2>1 DEF WatchIInv, PairOK, Wrote
  <2>5. ASSUME NEW w \in Watched PROVE NewsOK(w)'
    BY <2>1 DEF WatchIInv, NewsOK, Telling
  <2>6. QED BY <2>2, <2>3, <2>4, <2>5 DEF WatchIInv
<1>5. QED BY <1>1, <1>2, <1>3, <1>4 DEF WatchNext

LEMMA WatchInvariance == WatchSpec => []WatchIInv
BY WatchInitial, WatchStep, PTL DEF WatchSpec

\* Every variable of what is watched keeps its type, and each row the statuses of its kind.
THEOREM WatchTypes == WatchSpec => []WatchTypeOK
<1>1. WatchIInv => WatchTypeOK
  BY DEF WatchIInv
<1>2. QED BY <1>1, WatchInvariance, PTL

\* Whoever follows the events knows every status, for any number of incidents, services and
\* calls, but after calls that overlapped or were lost (IncidentsService.update,
\* MonitoringService.upsertService, updateServiceStatus).
THEOREM NewsIsTrue == WatchSpec => []NewsMatchesStatus
<1>1. WatchIInv => NewsMatchesStatus
  BY DEF WatchIInv, NewsOK, NewsMatchesStatus
<1>2. QED BY <1>1, WatchInvariance, PTL

-----------------------------------------------------------------------------
(***************************************************************************)
(*                                 Records                                 *)
(*                                                                         *)
(* What a call has read of the link is no later than the link; a call that *)
(* has cleared the defaults of its board's owner and met no other since    *)
(* finds none; a decided tip has another decision under way only when the  *)
(* two were crossed.                                                       *)
(***************************************************************************)

Deciding == At("apply") \union At("dismiss")

CleanSet(c) ==
  recorder[c].cleared => recorder[c].pc = "set" /\ DefaultsOf(OwnerOf[recorder[c].board]) = {}

RecorderOK(c) ==
  /\ recorder[c].pc = "click" => recorder[c].count <= link.count /\ ~Full(recorder[c].count)
  /\ recorder[c].pc \in {"clear", "set"} => recorder[c].board \in Boards
  /\ CleanSet(c)

TipOK ==
  /\ tip.status = "PENDING" => ~tip.appliedAt /\ ~tip.dismissedAt
  /\ tip.status # "PENDING" /\ Deciding # {} => crossed

RecordsIInv ==
  /\ RecordsTypeOK
  /\ \A c \in RecordCalls : RecorderOK(c)
  /\ ClicksHold
  /\ ChosenIsDefault
  /\ TipOK
  /\ DecidedOnce

LEMMA RecorderTyped ==
  RecordsIInv => /\ recorder \in [RecordCalls -> RecorderStates]
                 /\ link \in [count: 0..(MaxClicks + MoreClicks), expired: BOOLEAN]
BY DEF RecordsIInv, RecordsTypeOK

LEMMA NotRecordingOK == NotRecording \in RecorderStates /\ NotRecording.pc = "idle" /\ ~NotRecording.cleared
<1>1. 0 \in 0..(MaxClicks + MoreClicks)
  BY ClicksAssumption
<1>2. QED BY <1>1 DEF NotRecording, RecorderStates

LEMMA RecordsInitial == RecordsInit => RecordsIInv
<1> SUFFICES ASSUME RecordsInit PROVE RecordsIInv
  OBVIOUS
<1>1. \A c \in RecordCalls : recorder[c] = NotRecording
  BY DEF RecordsInit
<1>2. RecordsTypeOK
  <2>1. 0 \in 0..(MaxClicks + MoreClicks)
    BY ClicksAssumption
  <2>2. QED BY <2>1, NotRecordingOK DEF RecordsInit, RecordsTypeOK
<1>3. \A c \in RecordCalls : RecorderOK(c)
  BY <1>1, NotRecordingOK DEF RecorderOK, CleanSet
<1>4. ClicksHold
  <2>1. At("clicked") = {}
    BY <1>1, NotRecordingOK DEF At
  <2>2. Cardinality(At("clicked")) = 0
    BY <2>1, FS_EmptySet
  <2>3. QED BY <2>2, ClicksAssumption DEF RecordsInit, ClicksHold
<1>5. ChosenIsDefault /\ TipOK /\ DecidedOnce
  BY DEF RecordsInit, ChosenIsDefault, TipOK, DecidedOnce
<1>6. QED BY <1>2, <1>3, <1>4, <1>5 DEF RecordsIInv

\* A call that moves takes part in the clicks announced and in the decisions by where it is.
LEMMA Moves ==
  ASSUME RecordsIInv, NEW c \in RecordCalls, NEW next \in RecorderStates, Step(c, next)
  PROVE  /\ recorder' \in [RecordCalls -> RecorderStates] /\ recorder'[c] = next
         /\ \A d \in RecordCalls \ {c} : recorder'[d] = recorder[d]
BY RecorderTyped DEF Step

LEMMA CountsAt ==
  ASSUME RecordsIInv, NEW c \in RecordCalls, recorder' \in [RecordCalls -> RecorderStates],
         \A d \in RecordCalls \ {c} : recorder'[d].pc = recorder[d].pc
  PROVE  /\ Cardinality(At("clicked")) \in Nat /\ Cardinality(At("clicked"))' \in Nat
         /\ Cardinality(At("clicked"))' + (IF recorder[c].pc = "clicked" THEN 1 ELSE 0)
              = Cardinality(At("clicked")) + (IF recorder'[c].pc = "clicked" THEN 1 ELSE 0)
<1> DEFINE S == At("clicked") \ {c}
<1>1. IsFiniteSet(S) /\ Cardinality(S) \in Nat /\ c \notin S
  BY RecordCallsAssumption, FS_Subset, FS_CardinalityType DEF At
<1>2. Cardinality(S \union {c}) = Cardinality(S) + 1
  BY <1>1, FS_AddElement
<1>3. At("clicked") = IF recorder[c].pc = "clicked" THEN S \union {c} ELSE S
  BY DEF At
<1>4. At("clicked")' = IF recorder'[c].pc = "clicked" THEN S \union {c} ELSE S
  BY DEF At
<1> HIDE DEF S
<1>5. Cardinality(At("clicked")) = Cardinality(S) + (IF recorder[c].pc = "clicked" THEN 1 ELSE 0)
  <2>1. CASE recorder[c].pc = "clicked"
    BY <1>2, <1>3, <2>1
  <2>2. CASE recorder[c].pc # "clicked"
    BY <1>1, <1>3, <2>2
  <2>3. QED BY <2>1, <2>2
<1>6. Cardinality(At("clicked"))' = Cardinality(S) + (IF recorder'[c].pc = "clicked" THEN 1 ELSE 0)
  BY <1>1, <1>2, <1>4
<1>7. QED BY <1>1, <1>5, <1>6

-----------------------------------------------------------------------------
(* Clicks *)

\* The part of the invariant that is about the other rows.
LEMMA OtherRows ==
  ASSUME RecordsIInv, NEW c \in RecordCalls, NEW next \in RecorderStates, Step(c, next),
         UNCHANGED <<boardVars, tipVars>>, next.pc \in {"idle", "click", "clicked"}, ~next.cleared
  PROVE  /\ \A d \in RecordCalls : /\ recorder'[d].pc \in {"clear", "set"} => recorder'[d].board \in Boards
                                   /\ CleanSet(d)'
         /\ ChosenIsDefault' /\ TipOK' /\ DecidedOnce'
<1>1. /\ recorder' \in [RecordCalls -> RecorderStates] /\ recorder'[c] = next
      /\ \A d \in RecordCalls \ {c} : recorder'[d] = recorder[d]
  BY Moves
<1>2. UNCHANGED <<board, chosen, tip, crossed>>
  BY DEF boardVars, tipVars
<1>3. \A o : DefaultsOf(o)' = DefaultsOf(o)
  BY <1>2 DEF DefaultsOf
<1>4. ASSUME NEW d \in RecordCalls
      PROVE  /\ recorder'[d].pc \in {"clear", "set"} => recorder'[d].board \in Boards
             /\ CleanSet(d)'
  <2>1. RecorderOK(d)
    BY DEF RecordsIInv
  <2>2. CASE d = c
    BY <1>1, <2>2 DEF CleanSet
  <2>3. CASE d # c
    BY <1>1, <1>3, <2>1, <2>3 DEF RecorderOK, CleanSet
  <2>4. QED BY <2>2, <2>3
<1>5. Deciding' \subseteq Deciding
  BY <1>1 DEF Deciding, At
<1>6. ChosenIsDefault' /\ DecidedOnce'
  BY <1>2, <1>3 DEF RecordsIInv, ChosenIsDefault, DecidedOnce
<1>7. TipOK'
  BY <1>2, <1>5 DEF RecordsIInv, TipOK
<1>8. QED BY <1>4, <1>6, <1>7

LEMMA OpenLinkStep == ASSUME RecordsIInv, NEW c \in RecordCalls, OpenLink(c) PROVE RecordsIInv'
<1> DEFINE next == [NotRecording EXCEPT !.pc = "click", !.count = link.count]
<1>1. next \in RecorderStates /\ next.pc = "click" /\ next.count = link.count /\ ~next.cleared
  BY NotRecordingOK, RecorderTyped DEF RecorderStates
<1>2. Step(c, next) /\ ~Full(link.count) /\ UNCHANGED <<linkVars, boardVars, tipVars>>
  BY DEF OpenLink
<1> HIDE DEF next
<1>3. UNCHANGED <<link, stale, clicked, unclicked, board, chosen, tip, crossed>>
  BY <1>2 DEF linkVars, boardVars, tipVars
<1>4. /\ recorder' \in [RecordCalls -> RecorderStates] /\ recorder'[c] = next
      /\ \A d \in RecordCalls \ {c} : recorder'[d] = recorder[d]
  BY <1>1, <1>2, Moves
<1>5. /\ \A d \in RecordCalls : /\ recorder'[d].pc \in {"clear", "set"} => recorder'[d].board \in Boards
                                /\ CleanSet(d)'
      /\ ChosenIsDefault' /\ TipOK' /\ DecidedOnce'
  BY <1>1, <1>2, OtherRows
<1>6. link.count \in Nat
  BY RecorderTyped, ClicksAssumption
<1>7. ASSUME NEW d \in RecordCalls PROVE RecorderOK(d)'
  <2>1. recorder'[d].pc = "click" => recorder'[d].count <= link.count /\ ~Full(recorder'[d].count)
    <3>1. CASE d = c
      BY <1>1, <1>2, <1>4, <1>6, <3>1
    <3>2. CASE d # c
      BY <1>4, <3>2 DEF RecordsIInv, RecorderOK
    <3>3. QED BY <3>1, <3>2
  <2>2. Full(recorder[d].count)' <=> Full(recorder'[d].count)
    BY DEF Full
  <2>3. QED BY <1>3, <1>5, <2>1, <2>2 DEF RecorderOK
<1>8. ClicksHold'
  <2>1. At("clicked")' = At("clicked")
    BY <1>1, <1>4, NotRecordingOK DEF At, OpenLink
  <2>2. QED BY <1>3, <2>1 DEF RecordsIInv, ClicksHold
<1>9. RecordsTypeOK'
  BY <1>3, <1>4 DEF RecordsIInv, RecordsTypeOK
<1>10. QED BY <1>5, <1>7, <1>8, <1>9 DEF RecordsIInv

LEMMA CountClickStep == ASSUME RecordsIInv, NEW c \in RecordCalls, CountClick(c) PROVE RecordsIInv'
<1>0. /\ recorder[c] \in RecorderStates /\ recorder[c].pc = "click" /\ RecorderOK(c)
      /\ link.count \in Nat /\ stale \in Nat /\ clicked \in Nat /\ unclicked \in Nat
      /\ recorder[c].count \in Nat
  BY RecorderTyped, ClicksAssumption DEF CountClick, RecordsIInv, RecordsTypeOK, RecorderStates
<1> DEFINE next == [recorder[c] EXCEPT !.pc = "clicked"]
<1>1. next \in RecorderStates /\ next.pc = "clicked" /\ ~next.cleared
  BY <1>0 DEF RecorderStates, RecorderOK, CleanSet
<1>2. Step(c, next) /\ UNCHANGED <<clicked, unclicked, boardVars, tipVars>>
  BY DEF CountClick
<1> HIDE DEF next
<1>3. UNCHANGED <<clicked, unclicked, board, chosen, tip, crossed>>
  BY <1>2 DEF boardVars, tipVars
<1>4. /\ recorder' \in [RecordCalls -> RecorderStates] /\ recorder'[c] = next
      /\ \A d \in RecordCalls \ {c} : recorder'[d] = recorder[d]
  BY <1>1, <1>2, Moves
<1>5. /\ \A d \in RecordCalls : /\ recorder'[d].pc \in {"clear", "set"} => recorder'[d].board \in Boards
                                /\ CleanSet(d)'
      /\ ChosenIsDefault' /\ TipOK' /\ DecidedOnce'
  BY <1>1, <1>2, OtherRows
<1>6. /\ link' \in [count: 0..(MaxClicks + MoreClicks), expired: BOOLEAN] /\ link'.count = link.count + 1
  <2>1. link.count + 1 \in 0..(MaxClicks + MoreClicks)
    BY <1>0, ClicksAssumption DEF CountClick
  <2>2. QED BY <2>1, RecorderTyped DEF CountClick
<1>7. stale' \in Nat /\ stale' = IF link.count > recorder[c].count THEN stale + 1 ELSE stale
  BY <1>0 DEF CountClick
<1>8. ASSUME NEW d \in RecordCalls PROVE RecorderOK(d)'
  <2>1. recorder'[d].pc = "click" => recorder'[d].count <= link'.count /\ ~Full(recorder'[d].count)
    <3>1. CASE d = c
      BY <1>1, <1>4, <3>1
    <3>2. CASE d # c
      <4>1. recorder[d].count \in Nat
        BY RecorderTyped, ClicksAssumption DEF RecorderStates
      <4>2. recorder[d].pc = "click" => recorder[d].count <= link.count /\ ~Full(recorder[d].count)
        BY DEF RecordsIInv, RecorderOK
      <4>3. QED BY <1>0, <1>4, <1>6, <3>2, <4>1, <4>2
    <3>3. QED BY <3>1, <3>2
  <2>2. Full(recorder[d].count)' <=> Full(recorder'[d].count)
    BY DEF Full
  <2>3. QED BY <1>5, <2>1, <2>2 DEF RecorderOK
<1>9. ClicksHold'
  <2>1. /\ Cardinality(At("clicked")) \in Nat /\ Cardinality(At("clicked"))' \in Nat
        /\ Cardinality(At("clicked"))' + (IF recorder[c].pc = "clicked" THEN 1 ELSE 0)
             = Cardinality(At("clicked")) + (IF recorder'[c].pc = "clicked" THEN 1 ELSE 0)
    BY <1>4, CountsAt
  <2>2. Cardinality(At("clicked"))' = Cardinality(At("clicked")) + 1
    BY <1>0, <1>1, <1>4, <2>1
  <2>3. /\ MaxClicks # 0 => link.count <= MaxClicks + stale
        /\ link.count = clicked + unclicked + Cardinality(At("clicked"))
    BY DEF RecordsIInv, ClicksHold
  <2>4. recorder[c].count <= link.count /\ (MaxClicks # 0 => recorder[c].count < MaxClicks)
    BY <1>0, ClicksAssumption DEF RecorderOK, Full
  <2>5. MaxClicks # 0 => link'.count <= MaxClicks + stale'
    BY <1>0, <1>6, <1>7, <2>3, <2>4, ClicksAssumption
  <2>6. link'.count = clicked' + unclicked' + Cardinality(At("clicked"))'
    BY <1>0, <1>3, <1>6, <2>1, <2>2, <2>3
  <2>7. QED BY <2>5, <2>6 DEF ClicksHold
<1>10. RecordsTypeOK'
  BY <1>3, <1>4, <1>6, <1>7 DEF RecordsIInv, RecordsTypeOK
<1>11. QED BY <1>5, <1>8, <1>9, <1>10 DEF RecordsIInv

\* A call that ends, or is lost: what it had counted is announced, or lost with it.
LEMMA CallEnds ==
  ASSUME RecordsIInv, NEW c \in RecordCalls, Step(c, NotRecording),
         UNCHANGED <<link, stale, boardVars, tipVars>>,
         clicked' \in Nat, unclicked' \in Nat,
         clicked' + unclicked' = clicked + unclicked + (IF recorder[c].pc = "clicked" THEN 1 ELSE 0)
  PROVE  RecordsIInv'
<1>0. link.count \in Nat /\ stale \in Nat /\ clicked \in Nat /\ unclicked \in Nat
  BY RecorderTyped, ClicksAssumption DEF RecordsIInv, RecordsTypeOK
<1>1. UNCHANGED <<link, stale, board, chosen, tip, crossed>>
  BY DEF boardVars, tipVars
<1>2. /\ recorder' \in [RecordCalls -> RecorderStates] /\ recorder'[c] = NotRecording
      /\ \A d \in RecordCalls \ {c} : recorder'[d] = recorder[d]
  BY NotRecordingOK, Moves
<1>3. /\ \A d \in RecordCalls : /\ recorder'[d].pc \in {"clear", "set"} => recorder'[d].board \in Boards
                                /\ CleanSet(d)'
      /\ ChosenIsDefault' /\ TipOK' /\ DecidedOnce'
  BY NotRecordingOK, OtherRows
<1>4. ASSUME NEW d \in RecordCalls PROVE RecorderOK(d)'
  <2>1. recorder'[d].pc = "click" => recorder'[d].count <= link'.count /\ ~Full(recorder'[d].count)
    <3>1. CASE d = c
      BY <1>2, <3>1, NotRecordingOK
    <3>2. CASE d # c
      BY <1>1, <1>2, <3>2 DEF RecordsIInv, RecorderOK
    <3>3. QED BY <3>1, <3>2
  <2>2. Full(recorder[d].count)' <=> Full(recorder'[d].count)
    BY DEF Full
  <2>3. QED BY <1>3, <2>1, <2>2 DEF RecorderOK
<1>5. ClicksHold'
  <2>1. /\ Cardinality(At("clicked")) \in Nat /\ Cardinality(At("clicked"))' \in Nat
        /\ Cardinality(At("clicked"))' + (IF recorder[c].pc = "clicked" THEN 1 ELSE 0)
             = Cardinality(At("clicked")) + (IF recorder'[c].pc = "clicked" THEN 1 ELSE 0)
    BY <1>2, CountsAt
  <2>2. recorder'[c].pc # "clicked"
    BY <1>2, NotRecordingOK
  <2>3. /\ MaxClicks # 0 => link.count <= MaxClicks + stale
        /\ link.count = clicked + unclicked + Cardinality(At("clicked"))
    BY DEF RecordsIInv, ClicksHold
  <2>4. link'.count = clicked' + unclicked' + Cardinality(At("clicked"))'
    <3> DEFINE n == IF recorder[c].pc = "clicked" THEN 1 ELSE 0
    <3>1. n \in Nat /\ link'.count = link.count
      BY <1>1
    <3>2. Cardinality(At("clicked"))' + n = Cardinality(At("clicked"))
      BY <2>1, <2>2
    <3>3. clicked' + unclicked' = clicked + unclicked + n
      OBVIOUS
    <3> HIDE DEF n
    <3>4. link.count = clicked + unclicked + (Cardinality(At("clicked"))' + n)
      BY <2>3, <3>2
    <3>5. clicked + unclicked + (Cardinality(At("clicked"))' + n)
            = (clicked + unclicked + n) + Cardinality(At("clicked"))'
      BY <1>0, <2>1, <3>1
    <3>6. QED BY <3>1, <3>3, <3>4, <3>5
  <2>5. QED BY <1>1, <2>3, <2>4 DEF ClicksHold
<1>6. RecordsTypeOK'
  BY <1>1, <1>2 DEF RecordsIInv, RecordsTypeOK
<1>7. QED BY <1>3, <1>4, <1>5, <1>6 DEF RecordsIInv

-----------------------------------------------------------------------------
(* The default dashboard *)

\* What is said of clicks and of recommendations, while neither is touched.
LEMMA OtherCalls ==
  ASSUME RecordsIInv, recorder' \in [RecordCalls -> RecorderStates], UNCHANGED <<linkVars, tipVars>>,
         \A d \in RecordCalls :
           \/ recorder'[d].pc = recorder[d].pc /\ recorder'[d].count = recorder[d].count
           \/ {recorder[d].pc, recorder'[d].pc} \subseteq {"idle", "clear", "set"}
  PROVE  /\ \A d \in RecordCalls :
              recorder'[d].pc = "click" => recorder'[d].count <= link'.count /\ ~Full(recorder'[d].count)
         /\ ClicksHold' /\ TipOK' /\ DecidedOnce'
<1>1. UNCHANGED <<link, stale, clicked, unclicked, tip, crossed>>
  BY DEF linkVars, tipVars
<1>2. ASSUME NEW d \in RecordCalls
      PROVE  recorder'[d].pc = "click" => recorder'[d].count <= link'.count /\ ~Full(recorder'[d].count)
  BY <1>1 DEF RecordsIInv, RecorderOK
<1>3. At("clicked")' = At("clicked") /\ At("apply")' = At("apply") /\ At("dismiss")' = At("dismiss")
  BY DEF At
<1>4. ClicksHold'
  BY <1>1, <1>3 DEF RecordsIInv, ClicksHold
<1>5. TipOK' /\ DecidedOnce'
  BY <1>1, <1>3 DEF RecordsIInv, TipOK, DecidedOnce, Deciding
<1>6. QED BY <1>2, <1>4, <1>5

LEMMA DisturbedOK ==
  ASSUME RecordsIInv, NEW owners
  PROVE  /\ Disturbed(owners) \in [RecordCalls -> RecorderStates]
         /\ \A d \in RecordCalls :
              LET after == Disturbed(owners)[d]
              IN /\ after.pc = recorder[d].pc /\ after.count = recorder[d].count
                 /\ after.board = recorder[d].board
                 /\ after.cleared => recorder[d].cleared /\ OwnerOf[recorder[d].board] \notin owners
BY RecorderTyped DEF Disturbed, RecorderStates

\* A step on the dashboards leaves what is said of them, and of nothing else.
LEMMA BoardMove ==
  ASSUME RecordsIInv, recorder' \in [RecordCalls -> RecorderStates], UNCHANGED <<linkVars, tipVars>>,
         board' \in [Boards -> {"none", "plain", "default"}], chosen' \in [Owners -> Boards \union {"none"}],
         \A d \in RecordCalls :
           /\ \/ recorder'[d].pc = recorder[d].pc /\ recorder'[d].count = recorder[d].count
              \/ {recorder[d].pc, recorder'[d].pc} \subseteq {"idle", "clear", "set"}
           /\ recorder'[d].pc \in {"clear", "set"} => recorder'[d].board \in Boards
           /\ CleanSet(d)',
         ChosenIsDefault'
  PROVE  RecordsIInv'
<1>1. /\ \A d \in RecordCalls :
           recorder'[d].pc = "click" => recorder'[d].count <= link'.count /\ ~Full(recorder'[d].count)
      /\ ClicksHold' /\ TipOK' /\ DecidedOnce'
  BY OtherCalls
<1>2. ASSUME NEW d \in RecordCalls PROVE RecorderOK(d)'
  <2>1. Full(recorder[d].count)' <=> Full(recorder'[d].count)
    BY DEF Full
  <2>2. QED BY <1>1, <2>1 DEF RecorderOK
<1>3. RecordsTypeOK'
  BY DEF RecordsIInv, RecordsTypeOK, linkVars, tipVars
<1>4. QED BY <1>1, <1>2, <1>3 DEF RecordsIInv

\* A write on the boards of some owners disturbs the calls on their boards, and no others.
LEMMA BoardsWritten ==
  ASSUME RecordsIInv, NEW owners, NEW calls \in SUBSET RecordCalls,
         \A d \in calls : recorder'[d] = Disturbed(owners)[d],
         \A b \in Boards : OwnerOf[b] \notin owners => board'[b] = board[b]
  PROVE  /\ \A o \in Owners : o \notin owners => DefaultsOf(o)' = DefaultsOf(o)
         /\ \A d \in calls : /\ recorder'[d].pc = recorder[d].pc /\ recorder'[d].count = recorder[d].count
                             /\ recorder'[d].pc \in {"clear", "set"} => recorder'[d].board \in Boards
                             /\ CleanSet(d)'
<1>1. \A o \in Owners : o \notin owners => DefaultsOf(o)' = DefaultsOf(o)
  BY DEF DefaultsOf
<1>2. ASSUME NEW d \in calls
      PROVE  /\ recorder'[d].pc = recorder[d].pc /\ recorder'[d].count = recorder[d].count
             /\ recorder'[d].pc \in {"clear", "set"} => recorder'[d].board \in Boards
             /\ CleanSet(d)'
  <2>1. RecorderOK(d)
    BY DEF RecordsIInv
  <2>2. /\ recorder'[d].pc = recorder[d].pc /\ recorder'[d].count = recorder[d].count
        /\ recorder'[d].board = recorder[d].board
        /\ recorder'[d].cleared => recorder[d].cleared /\ OwnerOf[recorder[d].board] \notin owners
    BY DisturbedOK
  <2>3. ASSUME recorder'[d].cleared
        PROVE  recorder'[d].pc = "set" /\ DefaultsOf(OwnerOf[recorder[d].board])' = {}
    <3>1. /\ recorder[d].pc = "set" /\ recorder[d].board \in Boards
          /\ DefaultsOf(OwnerOf[recorder[d].board]) = {} /\ OwnerOf[recorder[d].board] \notin owners
      BY <2>1, <2>2, <2>3 DEF RecorderOK, CleanSet
    <3>2. PICK o \in Owners : o = OwnerOf[recorder[d].board]
      BY <3>1, OwnersAssumption
    <3>3. DefaultsOf(o)' = DefaultsOf(o)
      BY <1>1, <3>1, <3>2
    <3>4. DefaultsOf(OwnerOf[recorder[d].board])' = DefaultsOf(o)'
      BY <2>2, <3>2 DEF DefaultsOf
    <3>5. QED BY <2>2, <3>1, <3>2, <3>3, <3>4
  <2>4. CleanSet(d)'
    BY <2>2, <2>3 DEF CleanSet, DefaultsOf
  <2>5. QED BY <2>1, <2>2, <2>4 DEF RecorderOK
<1>3. QED BY <1>1, <1>2

\* What was chosen for the owners whose boards are not written stays so.
LEMMA UnsettledOK ==
  ASSUME RecordsTypeOK, ChosenIsDefault, NEW owners, chosen' = Unsettled(owners),
         \A o \in Owners : o \notin owners => DefaultsOf(o)' = DefaultsOf(o)
  PROVE  chosen' \in [Owners -> Boards \union {"none"}] /\ ChosenIsDefault'
BY DEF RecordsTypeOK, ChosenIsDefault, Unsettled

LEMMA EditBoardStep ==
  ASSUME RecordsIInv, NEW b \in Boards, NEW to \in {"none", "plain", "default"}, EditBoard(b, to)
  PROVE  RecordsIInv'
<1>0. RecordsTypeOK /\ ChosenIsDefault /\ \A d \in RecordCalls : RecorderOK(d)
  BY DEF RecordsIInv
<1>1. board' \in [Boards -> {"none", "plain", "default"}] /\ UNCHANGED <<linkVars, tipVars>>
  BY <1>0 DEF EditBoard, RecordsTypeOK
<1>2. CASE to = board[b]
  <2>1. UNCHANGED <<board, recorder, chosen>>
    BY <1>0, <1>2 DEF EditBoard, RecordsTypeOK
  <2>2. \A o : DefaultsOf(o)' = DefaultsOf(o)
    BY <2>1 DEF DefaultsOf
  <2>3. ChosenIsDefault'
    BY <1>0, <2>1, <2>2 DEF ChosenIsDefault
  <2>4. \A d \in RecordCalls : CleanSet(d)'
    BY <1>0, <2>1, <2>2 DEF RecorderOK, CleanSet
  <2>5. QED BY <1>0, <1>1, <2>1, <2>3, <2>4, BoardMove DEF RecordsTypeOK, RecorderOK
<1>3. CASE to # board[b]
  <2> DEFINE owners == {OwnerOf[b]}
  <2>1. recorder' = Disturbed(owners) /\ chosen' = Unsettled(owners)
    BY <1>3 DEF EditBoard
  <2>2. \A a \in Boards : OwnerOf[a] \notin owners => board'[a] = board[a]
    BY <1>0 DEF EditBoard, RecordsTypeOK
  <2> HIDE DEF owners
  <2>3. /\ \A o \in Owners : o \notin owners => DefaultsOf(o)' = DefaultsOf(o)
        /\ \A d \in RecordCalls :
             /\ recorder'[d].pc = recorder[d].pc /\ recorder'[d].count = recorder[d].count
             /\ recorder'[d].pc \in {"clear", "set"} => recorder'[d].board \in Boards
             /\ CleanSet(d)'
    BY <2>1, <2>2, BoardsWritten
  <2>4. chosen' \in [Owners -> Boards \union {"none"}] /\ ChosenIsDefault'
    BY <1>0, <2>1, <2>3, UnsettledOK
  <2>5. recorder' \in [RecordCalls -> RecorderStates]
    BY <2>1, DisturbedOK
  <2>6. QED BY <1>1, <2>3, <2>4, <2>5, BoardMove
<1>4. QED BY <1>2, <1>3

LEMMA FindBoardStep ==
  ASSUME RecordsIInv, NEW c \in RecordCalls, NEW b \in Boards, NEW sent \in Owners \union {"missing"},
         FindBoard(c, b, sent)
  PROVE  RecordsIInv'
<1>0. RecordsTypeOK /\ ChosenIsDefault /\ \A d \in RecordCalls : RecorderOK(d)
  BY DEF RecordsIInv
<1> DEFINE next == [NotRecording EXCEPT !.pc = "clear", !.board = b, !.sent = sent]
<1>1. next \in RecorderStates /\ next.pc = "clear" /\ next.board = b /\ ~next.cleared
  BY NotRecordingOK DEF RecorderStates
<1>2. Step(c, next) /\ UNCHANGED <<linkVars, boardVars, tipVars>> /\ recorder[c].pc = "idle"
  BY NotRecordingOK DEF FindBoard
<1> HIDE DEF next
<1>3. /\ recorder' \in [RecordCalls -> RecorderStates] /\ recorder'[c] = next
      /\ \A d \in RecordCalls \ {c} : recorder'[d] = recorder[d]
  BY <1>1, <1>2, Moves
<1>4. UNCHANGED <<board, chosen>>
  BY <1>2 DEF boardVars
<1>5. \A o : DefaultsOf(o)' = DefaultsOf(o)
  BY <1>4 DEF DefaultsOf
<1>6. ChosenIsDefault'
  BY <1>0, <1>4, <1>5 DEF ChosenIsDefault
<1>7. ASSUME NEW d \in RecordCalls
      PROVE  /\ \/ recorder'[d].pc = recorder[d].pc /\ recorder'[d].count = recorder[d].count
                \/ {recorder[d].pc, recorder'[d].pc} \subseteq {"idle", "clear", "set"}
             /\ recorder'[d].pc \in {"clear", "set"} => recorder'[d].board \in Boards
             /\ CleanSet(d)'
  <2>1. CASE d = c
    BY <1>1, <1>2, <1>3, <2>1 DEF CleanSet
  <2>2. CASE d # c
    BY <1>0, <1>3, <1>5, <2>2 DEF RecorderOK, CleanSet
  <2>3. QED BY <2>1, <2>2
<1>8. QED BY <1>0, <1>2, <1>3, <1>4, <1>6, <1>7, BoardMove DEF RecordsTypeOK

LEMMA ClearDefaultsStep == ASSUME RecordsIInv, NEW c \in RecordCalls, ClearDefaults(c) PROVE RecordsIInv'
<1>0. /\ RecordsTypeOK /\ ChosenIsDefault /\ recorder[c] \in RecorderStates /\ recorder[c].pc = "clear"
      /\ recorder[c].board \in Boards
  BY RecorderTyped DEF RecordsIInv, RecorderOK, ClearDefaults, Cleared
<1> DEFINE owners == Named(recorder[c].sent)
           next == [recorder[c] EXCEPT !.pc = "set", !.cleared = OwnerOf[recorder[c].board] \in owners]
<1>1. PICK o \in Owners : o = OwnerOf[recorder[c].board]
  BY <1>0, OwnersAssumption
<1>2. /\ next \in RecorderStates /\ next.pc = "set" /\ next.board = recorder[c].board
      /\ next.cleared => o \in owners
  <2>1. PICK flag \in BOOLEAN : flag = (OwnerOf[recorder[c].board] \in owners)
    <3>1. CASE OwnerOf[recorder[c].board] \in owners
      <4>1. TRUE = (OwnerOf[recorder[c].board] \in owners)
        BY <3>1
      <4>2. QED BY <4>1
    <3>2. CASE OwnerOf[recorder[c].board] \notin owners
      <4>1. FALSE = (OwnerOf[recorder[c].board] \in owners)
        BY <3>2
      <4>2. QED BY <4>1
    <3>3. QED BY <3>1, <3>2
  <2>2. next = [recorder[c] EXCEPT !.pc = "set", !.cleared = flag]
    BY <2>1
  <2> HIDE DEF next
  <2>3. next \in RecorderStates /\ next.pc = "set" /\ next.board = recorder[c].board /\ next.cleared = flag
    BY <1>0, <2>2 DEF RecorderStates
  <2>4. QED BY <1>1, <2>1, <2>3
<1>3. /\ recorder' = [Disturbed(owners) EXCEPT ![c] = next] /\ chosen' = Unsettled(owners)
      /\ UNCHANGED <<linkVars, tipVars>>
  BY DEF ClearDefaults, Cleared
<1>4. /\ board' \in [Boards -> {"none", "plain", "default"}]
      /\ \A a \in Boards : OwnerOf[a] \notin owners => board'[a] = board[a]
      /\ \A a \in Boards : OwnerOf[a] \in owners => board'[a] # "default"
  BY <1>0 DEF ClearDefaults, Cleared, RecordsTypeOK
<1> HIDE DEF owners, next
<1>5. /\ recorder' \in [RecordCalls -> RecorderStates]
      /\ \A p \in Owners : p \notin owners => DefaultsOf(p)' = DefaultsOf(p)
      /\ \A d \in RecordCalls \ {c} :
           /\ recorder'[d].pc = recorder[d].pc /\ recorder'[d].count = recorder[d].count
           /\ recorder'[d].pc \in {"clear", "set"} => recorder'[d].board \in Boards
           /\ CleanSet(d)'
  <2>1. recorder' \in [RecordCalls -> RecorderStates] /\ \A d \in RecordCalls \ {c} : recorder'[d] = Disturbed(owners)[d]
    BY <1>2, <1>3, DisturbedOK
  <2>2. QED BY <1>4, <2>1, BoardsWritten
<1>6. recorder'[c] = next
  BY <1>2, <1>3, DisturbedOK
<1>7. CleanSet(c)'
  <2>1. o \in owners => DefaultsOf(o)' = {}
    BY <1>4 DEF DefaultsOf
  <2>2. DefaultsOf(OwnerOf[recorder[c].board])' = DefaultsOf(o)'
    BY <1>1, <1>2, <1>6 DEF DefaultsOf
  <2>3. recorder'[c].pc = "set" /\ (recorder'[c].cleared => o \in owners)
    BY <1>2, <1>6
  <2>4. QED BY <2>1, <2>2, <2>3 DEF CleanSet
<1>8. ASSUME NEW d \in RecordCalls
      PROVE  /\ \/ recorder'[d].pc = recorder[d].pc /\ recorder'[d].count = recorder[d].count
                \/ {recorder[d].pc, recorder'[d].pc} \subseteq {"idle", "clear", "set"}
             /\ recorder'[d].pc \in {"clear", "set"} => recorder'[d].board \in Boards
             /\ CleanSet(d)'
  <2>1. CASE d = c
    BY <1>0, <1>2, <1>6, <1>7, <2>1
  <2>2. CASE d # c
    BY <1>5, <2>2
  <2>3. QED BY <2>1, <2>2
<1>9. chosen' \in [Owners -> Boards \union {"none"}] /\ ChosenIsDefault'
  BY <1>0, <1>3, <1>5, UnsettledOK
<1>10. QED BY <1>3, <1>4, <1>5, <1>8, <1>9, BoardMove

LEMMA SetDefaultStep == ASSUME RecordsIInv, NEW c \in RecordCalls, SetDefault(c) PROVE RecordsIInv'
<1>0. /\ RecordsTypeOK /\ ChosenIsDefault /\ RecorderOK(c) /\ recorder[c].pc = "set"
      /\ recorder[c].board \in Boards
  BY DEF RecordsIInv, RecorderOK, SetDefault
<1>1. PICK b \in Boards, o \in Owners : b = recorder[c].board /\ o = OwnerOf[b]
  BY <1>0, OwnersAssumption
<1> DEFINE owners == {o}
<1>2. /\ recorder' = [Disturbed(owners) EXCEPT ![c] = NotRecording] /\ UNCHANGED <<linkVars, tipVars>>
      /\ board' = [board EXCEPT ![b] = "default"]
      /\ chosen' = [chosen EXCEPT ![o] = IF recorder[c].cleared THEN b ELSE "none"]
  BY <1>1 DEF SetDefault
<1>3. /\ board' \in [Boards -> {"none", "plain", "default"}] /\ chosen' \in [Owners -> Boards \union {"none"}]
      /\ \A a \in Boards : OwnerOf[a] \notin owners => board'[a] = board[a]
  BY <1>0, <1>1, <1>2 DEF RecordsTypeOK
<1>4. /\ recorder' \in [RecordCalls -> RecorderStates]
      /\ \A p \in Owners : p # o => DefaultsOf(p)' = DefaultsOf(p)
      /\ \A d \in RecordCalls \ {c} :
           /\ recorder'[d].pc = recorder[d].pc /\ recorder'[d].count = recorder[d].count
           /\ recorder'[d].pc \in {"clear", "set"} => recorder'[d].board \in Boards
           /\ CleanSet(d)'
  <2>1. recorder' \in [RecordCalls -> RecorderStates] /\ \A d \in RecordCalls \ {c} : recorder'[d] = Disturbed(owners)[d]
    BY <1>2, NotRecordingOK, DisturbedOK
  <2>2. /\ \A p \in Owners : p \notin owners => DefaultsOf(p)' = DefaultsOf(p)
        /\ \A d \in RecordCalls \ {c} :
             /\ recorder'[d].pc = recorder[d].pc /\ recorder'[d].count = recorder[d].count
             /\ recorder'[d].pc \in {"clear", "set"} => recorder'[d].board \in Boards
             /\ CleanSet(d)'
    BY <1>3, <2>1, BoardsWritten
  <2>3. QED BY <2>1, <2>2
<1>5. recorder'[c] = NotRecording
  BY <1>2, DisturbedOK
<1>6. ASSUME NEW d \in RecordCalls
      PROVE  /\ \/ recorder'[d].pc = recorder[d].pc /\ recorder'[d].count = recorder[d].count
                \/ {recorder[d].pc, recorder'[d].pc} \subseteq {"idle", "clear", "set"}
             /\ recorder'[d].pc \in {"clear", "set"} => recorder'[d].board \in Boards
             /\ CleanSet(d)'
  <2>1. CASE d = c
    BY <1>0, <1>5, <2>1, NotRecordingOK DEF CleanSet
  <2>2. CASE d # c
    BY <1>4, <2>2
  <2>3. QED BY <2>1, <2>2
<1>7. ChosenIsDefault'
  <2>1. ASSUME NEW p \in Owners, chosen'[p] # "none" PROVE DefaultsOf(p)' = {chosen'[p]}
    <3>1. CASE p # o
      <4>1. chosen'[p] = chosen[p]
        BY <1>0, <1>2, <3>1 DEF RecordsTypeOK
      <4>2. QED BY <1>0, <1>4, <2>1, <3>1, <4>1 DEF ChosenIsDefault
    <3>2. CASE p = o
      <4>1. chosen'[o] = IF recorder[c].cleared THEN b ELSE "none"
        BY <1>0, <1>2 DEF RecordsTypeOK
      <4>2. recorder[c].cleared /\ chosen'[o] = b
        BY <2>1, <3>2, <4>1
      <4>3. DefaultsOf(o) = {}
        BY <1>0, <1>1, <4>2 DEF RecorderOK, CleanSet
      <4>4. DefaultsOf(o)' = {b}
        BY <1>0, <1>1, <1>2, <4>3 DEF DefaultsOf, RecordsTypeOK
      <4>5. QED BY <3>2, <4>2, <4>4
    <3>3. QED BY <3>1, <3>2
  <2>2. QED BY <2>1 DEF ChosenIsDefault
<1>8. QED BY <1>2, <1>3, <1>4, <1>6, <1>7, BoardMove

-----------------------------------------------------------------------------
(* Recommendations *)

\* What is said of clicks and of dashboards, while a call decides.
LEMMA TipMove ==
  ASSUME RecordsIInv, NEW c \in RecordCalls, NEW next \in RecorderStates, Step(c, next),
         recorder[c].pc \in {"idle", "apply", "dismiss"}, next.pc \in {"idle", "apply", "dismiss"}, ~next.cleared,
         UNCHANGED <<linkVars, boardVars>>,
         tip' \in [status: {"PENDING", "APPLIED", "DISMISSED"}, appliedAt: BOOLEAN, dismissedAt: BOOLEAN],
         crossed' \in BOOLEAN, TipOK', DecidedOnce'
  PROVE  RecordsIInv'
<1>1. /\ recorder' \in [RecordCalls -> RecorderStates] /\ recorder'[c] = next
      /\ \A d \in RecordCalls \ {c} : recorder'[d] = recorder[d]
  BY Moves
<1>2. UNCHANGED <<link, stale, clicked, unclicked, board, chosen>>
  BY DEF linkVars, boardVars
<1>3. (\A o : DefaultsOf(o)' = DefaultsOf(o)) /\ At("clicked")' = At("clicked")
  BY <1>1, <1>2 DEF DefaultsOf, At
<1>4. ClicksHold' /\ ChosenIsDefault'
  BY <1>2, <1>3 DEF RecordsIInv, ClicksHold, ChosenIsDefault
<1>5. ASSUME NEW d \in RecordCalls PROVE RecorderOK(d)'
  <2>1. Full(recorder[d].count)' <=> Full(recorder'[d].count)
    BY DEF Full
  <2>2. CASE d = c
    BY <1>1, <2>2 DEF RecorderOK, CleanSet
  <2>3. CASE d # c
    <3>1. RecorderOK(d) /\ recorder'[d] = recorder[d]
      BY <1>1, <2>3 DEF RecordsIInv
    <3>2. QED BY <1>2, <1>3, <2>1, <3>1 DEF RecorderOK, CleanSet
  <2>4. QED BY <2>2, <2>3
<1>6. RecordsTypeOK'
  BY <1>1, <1>2 DEF RecordsIInv, RecordsTypeOK
<1>7. QED BY <1>4, <1>5, <1>6 DEF RecordsIInv

LEMMA FindTipStep ==
  ASSUME RecordsIInv, NEW c \in RecordCalls, NEW decision \in {"apply", "dismiss"}, FindTip(c, decision)
  PROVE  RecordsIInv'
<1> DEFINE next == [NotRecording EXCEPT !.pc = decision]
<1>1. next \in RecorderStates /\ next.pc = decision /\ ~next.cleared
  BY NotRecordingOK DEF RecorderStates
<1>2. /\ Step(c, next) /\ UNCHANGED <<linkVars, boardVars, tipVars>> /\ recorder[c].pc = "idle"
      /\ tip.status = "PENDING"
  BY NotRecordingOK DEF FindTip
<1> HIDE DEF next
<1>3. UNCHANGED <<tip, crossed>> /\ RecordsTypeOK
  BY <1>2 DEF tipVars, RecordsIInv
<1>4. TipOK' /\ DecidedOnce'
  BY <1>2, <1>3 DEF RecordsIInv, TipOK, DecidedOnce
<1>5. QED BY <1>1, <1>2, <1>3, <1>4, TipMove DEF RecordsTypeOK

LEMMA DecideTipStep == ASSUME RecordsIInv, NEW c \in RecordCalls, DecideTip(c) PROVE RecordsIInv'
<1>0. RecordsTypeOK /\ TipOK /\ DecidedOnce /\ recorder[c].pc \in {"apply", "dismiss"}
  BY DEF RecordsIInv, DecideTip
<1>1. Step(c, NotRecording) /\ UNCHANGED <<linkVars, boardVars>>
  BY DEF DecideTip
<1>2. /\ recorder'[c] = NotRecording /\ \A d \in RecordCalls \ {c} : recorder'[d] = recorder[d]
  BY <1>1, NotRecordingOK, Moves
<1>3. c \in Deciding /\ Deciding' = Deciding \ {c} /\ (crossed' <=> crossed \/ Deciding # {c})
  BY <1>0, <1>2, NotRecordingOK DEF Deciding, At, DecideTip
<1>4. crossed' \in BOOLEAN
  BY DEF DecideTip
<1>5. /\ tip' \in [status: {"PENDING", "APPLIED", "DISMISSED"}, appliedAt: BOOLEAN, dismissedAt: BOOLEAN]
      /\ tip'.status # "PENDING"
      /\ tip'.appliedAt /\ tip'.dismissedAt => tip.appliedAt \/ tip.dismissedAt
  BY <1>0 DEF DecideTip, RecordsTypeOK
<1>6. TipOK'
  BY <1>3, <1>5 DEF TipOK
<1>7. DecidedOnce'
  <2>1. tip.appliedAt \/ tip.dismissedAt => crossed
    BY <1>0, <1>3 DEF TipOK
  <2>2. QED BY <1>3, <1>5, <2>1 DEF DecidedOnce
<1>8. QED BY <1>0, <1>1, <1>4, <1>5, <1>6, <1>7, NotRecordingOK, TipMove

-----------------------------------------------------------------------------
(* The invariant *)

LEMMA RecordsStep == RecordsIInv /\ [RecordsNext]_recordVars => RecordsIInv'
<1> SUFFICES ASSUME RecordsIInv, [RecordsNext]_recordVars PROVE RecordsIInv'
  OBVIOUS
<1>0. RecordsTypeOK /\ clicked \in Nat /\ unclicked \in Nat
  BY DEF RecordsIInv, RecordsTypeOK
<1>1. CASE ExpireLink
  <2>1. /\ link' \in [count: 0..(MaxClicks + MoreClicks), expired: BOOLEAN] /\ link'.count = link.count
        /\ UNCHANGED <<stale, clicked, unclicked, board, chosen, tip, crossed, recorder>>
    BY <1>0, <1>1 DEF ExpireLink, RecordsTypeOK, boardVars, tipVars
  <2>2. UNCHANGED <<At("clicked"), Deciding>> /\ \A o : DefaultsOf(o)' = DefaultsOf(o)
    BY <2>1 DEF At, DefaultsOf, Deciding
  <2>3. ASSUME NEW d \in RecordCalls PROVE RecorderOK(d)'
    BY <2>1, <2>2 DEF RecordsIInv, RecorderOK, CleanSet, Full
  <2>4. ClicksHold' /\ ChosenIsDefault' /\ TipOK' /\ DecidedOnce'
    BY <2>1, <2>2 DEF RecordsIInv, ClicksHold, ChosenIsDefault, TipOK, DecidedOnce
  <2>5. RecordsTypeOK'
    BY <1>0, <2>1 DEF RecordsTypeOK
  <2>6. QED BY <2>3, <2>4, <2>5 DEF RecordsIInv
<1>2. ASSUME NEW c \in RecordCalls, OpenLink(c) \/ CountClick(c) PROVE RecordsIInv'
  BY <1>2, OpenLinkStep, CountClickStep
<1>3. ASSUME NEW c \in RecordCalls, TellClick(c) PROVE RecordsIInv'
  <2>1. /\ Step(c, NotRecording) /\ UNCHANGED <<link, stale, boardVars, tipVars>> /\ recorder[c].pc = "clicked"
        /\ clicked' = clicked + 1 /\ unclicked' = unclicked
    BY <1>3 DEF TellClick
  <2>2. clicked' \in Nat /\ unclicked' \in Nat
        /\ clicked' + unclicked' = clicked + unclicked + (IF recorder[c].pc = "clicked" THEN 1 ELSE 0)
    BY <1>0, <2>1
  <2>3. QED BY <2>1, <2>2, CallEnds
<1>4. ASSUME NEW c \in RecordCalls, LoseRecorder(c) PROVE RecordsIInv'
  <2>1. /\ Step(c, NotRecording) /\ UNCHANGED <<link, stale, boardVars, tipVars>>
        /\ unclicked' = (IF recorder[c].pc = "clicked" THEN unclicked + 1 ELSE unclicked) /\ clicked' = clicked
    BY <1>4 DEF LoseRecorder
  <2>2. clicked' \in Nat /\ unclicked' \in Nat
        /\ clicked' + unclicked' = clicked + unclicked + (IF recorder[c].pc = "clicked" THEN 1 ELSE 0)
    BY <1>0, <2>1
  <2>3. QED BY <2>1, <2>2, CallEnds
<1>5. ASSUME NEW b \in Boards, NEW to \in {"none", "plain", "default"}, EditBoard(b, to) PROVE RecordsIInv'
  BY <1>5, EditBoardStep
<1>6. ASSUME NEW c \in RecordCalls,
             (\E b \in Boards, sent \in Owners \union {"missing"} : FindBoard(c, b, sent)) \/ ClearDefaults(c) \/ SetDefault(c)
      PROVE  RecordsIInv'
  BY <1>6, FindBoardStep, ClearDefaultsStep, SetDefaultStep
<1>7. ASSUME NEW c \in RecordCalls,
             (\E decision \in {"apply", "dismiss"} : FindTip(c, decision)) \/ DecideTip(c)
      PROVE  RecordsIInv'
  BY <1>7, FindTipStep, DecideTipStep
<1>8. CASE UNCHANGED recordVars
  <2>1. UNCHANGED <<link, stale, clicked, unclicked, board, chosen, tip, crossed, recorder>>
    BY <1>8 DEF recordVars, linkVars, boardVars, tipVars
  <2>2. UNCHANGED <<At("clicked"), Deciding>> /\ \A o : DefaultsOf(o)' = DefaultsOf(o)
    BY <2>1 DEF At, DefaultsOf, Deciding
  <2>3. ASSUME NEW d \in RecordCalls PROVE RecorderOK(d)'
    BY <2>1, <2>2 DEF RecordsIInv, RecorderOK, CleanSet, Full
  <2>4. ClicksHold' /\ ChosenIsDefault' /\ TipOK' /\ DecidedOnce'
    BY <2>1, <2>2 DEF RecordsIInv, ClicksHold, ChosenIsDefault, TipOK, DecidedOnce
  <2>5. RecordsTypeOK'
    BY <1>0, <2>1 DEF RecordsTypeOK
  <2>6. QED BY <2>3, <2>4, <2>5 DEF RecordsIInv
<1>9. QED
  BY <1>1, <1>2, <1>3, <1>4, <1>5, <1>6, <1>7, <1>8 DEF RecordsNext, LinkStep, BoardStep, TipStep

LEMMA RecordsInvariance == RecordsSpec => []RecordsIInv
BY RecordsInitial, RecordsStep, PTL DEF RecordsSpec

\* Every variable of the records keeps its type.
THEOREM RecordsTypes == RecordsSpec => []RecordsTypeOK
<1>1. RecordsIInv => RecordsTypeOK
  BY DEF RecordsIInv
<1>2. QED BY <1>1, RecordsInvariance, PTL

\* The clicks of a link run over its limit by those of calls that had read an older count alone,
\* and each is announced once or was lost, for any limit and number of calls
\* (DeepLinkService.resolveLink).
THEOREM ClicksAreBounded == RecordsSpec => []ClicksHold
<1>1. RecordsIInv => ClicksHold
  BY DEF RecordsIInv
<1>2. QED BY <1>1, RecordsInvariance, PTL

\* A dashboard made the default by a request that names its owner, or nobody, and that met no
\* other stays the only default of its owner until another write touches that owner's boards,
\* whatever is asked for other owners, for any owners, dashboards and number of calls
\* (AnalyticsService.setDefaultDashboard).
THEOREM DefaultIsAlone == RecordsSpec => []ChosenIsDefault
<1>1. RecordsIInv => ChosenIsDefault
  BY DEF RecordsIInv
<1>2. QED BY <1>1, RecordsInvariance, PTL

\* A recommendation carries both stamps only when two decisions overlapped, for any number of
\* calls (AiService.applyRecommendation, dismissRecommendation).
THEOREM TipsAreDecidedOnce == RecordsSpec => []DecidedOnce
<1>1. RecordsIInv => DecidedOnce
  BY DEF RecordsIInv
<1>2. QED BY <1>1, RecordsInvariance, PTL

-----------------------------------------------------------------------------
(***************************************************************************)
(*                                   Bot                                   *)
(*                                                                         *)
(* Where the handling of an update is says what its text can be and how    *)
(* many writes it may have made.                                           *)
(***************************************************************************)

Handlers == Public \union ForStaff \union {NoHandler}

BotUpdates ==
  [pc: {"none", "guard", "run", "reply", "report", "done"}, handler: Handlers, given: 0..4, page: 0..12,
   named: Namings, sendable: BOOLEAN, text: Texts, answer: Texts, written: Nat,
   granted: {"none", "role", "override", "temporary"}, failures: 0..MaxSlips, restarts: 0..MaxRestarts]

\* A handler of the table has what the types ask for, and those of moderation alone ask for
\* arguments without catching.
HandlerOK(h) ==
  /\ h.args \in 0..4 /\ h.pages \subseteq 0..12
  /\ h.args = 0 \/ h.catches \/ h \in ModerationCommands

\* The text that is about to be sent agrees with what was done.
TextOK(now) ==
  /\ now.handler.args = 0 => now.named # "unknown"
  /\ now.pc \in {"guard", "run"} => now.text = "none" /\ now.written <= now.restarts
  /\ now.pc = "reply" =>
       /\ now.text \in {"refused", "usage", "result", "error"}
       /\ now.text \in {"refused", "usage", "error"} => now.written <= now.restarts
       /\ now.text = "result" /\ now.handler.writes => now.written > 0
       /\ now.text = "error" => ~now.handler.catches
  /\ now.pc = "report" =>
       /\ now.text = "error" /\ now.handler.catches
       /\ now.failures >= 1 \/ ~now.sendable \/ (now.named # "known" /\ now.written <= now.restarts)
  /\ now.pc \notin {"none", "done"} => now.answer = "none"
  /\ now.written <= 1 + now.restarts

\* The property, of one update.
AnswerOK(done) ==
  done.pc = "done" =>
    /\ done.answer = "result" /\ done.handler.writes => done.written > 0
    /\ done.answer \in {"refused", "usage"} => done.written <= done.restarts
    /\ done.answer = "error" /\ done.sendable /\ done.failures = 0 => done.written <= done.restarts
    /\ done.written <= 1 + done.restarts
    /\ done.answer = "none" => SilenceIsExplained(done)

UpdateOK(now) == now \in BotUpdates /\ TextOK(now) /\ AnswerOK(now)

BotIInv == update \in [Updates -> BotUpdates] /\ \A u \in Updates : UpdateOK(update[u])

LEMMA BotTyped == BotIInv => BotTypeOK
BY DEF BotIInv, BotTypeOK, BotUpdates, Handlers

LEMMA NoUpdateOK == UpdateOK(NoUpdate)
<1>1. NoUpdate \in BotUpdates
  BY BotBoundsAssumption DEF NoUpdate, NoHandler, BotUpdates, Texts, Namings, Handlers
<1>2. TextOK(NoUpdate) /\ AnswerOK(NoUpdate)
  BY DEF NoUpdate, NoHandler, TextOK, AnswerOK
<1>3. QED BY <1>1, <1>2 DEF UpdateOK

LEMMA BotInitial == BotInit => BotIInv
<1>1. NoUpdate \in BotUpdates
  BY NoUpdateOK DEF UpdateOK
<1>2. QED BY <1>1, NoUpdateOK DEF BotInit, BotIInv

\* A step handles one update.
LEMMA Turns ==
  ASSUME BotIInv, NEW u \in Updates, NEW now, UpdateOK(now), Turn(u, now)
  PROVE  BotIInv'
<1>1. update' \in [Updates -> BotUpdates] /\ \A v \in Updates : update'[v] = IF v = u THEN now ELSE update[v]
  BY DEF BotIInv, Turn, UpdateOK
<1>2. \A v \in Updates : UpdateOK(update'[v])
  BY <1>1 DEF BotIInv
<1>3. QED BY <1>1, <1>2 DEF BotIInv

LEMMA HandlerTyped ==
  ASSUME NEW names, NEW args \in 0..4, NEW writes, NEW catches, args = 0 \/ catches
  PROVE  \A h \in Handler(names, args, writes, catches) : HandlerOK(h)
BY DEF Handler, HandlerOK

LEMMA ModerationTyped == \A h \in ModerationCommands : HandlerOK(h) /\ ~h.catches
<1>1. \A h \in ModerationCommands : h.args \in {1, 2} /\ h.pages = {0} /\ ~h.catches
  BY DEF ModerationCommands, Handler
<1>2. QED BY <1>1 DEF HandlerOK

LEMMA Few == 0 \in 0..4 /\ 1 \in 0..4 /\ 2 \in 0..4 /\ 3 \in 0..4 /\ 4 \in 0..4
OBVIOUS

LEMMA ReadsTyped == ASSUME NEW names PROVE \A h \in Reads(names) \union Asks(names) : HandlerOK(h)
BY HandlerTyped, Few DEF Reads, Asks

LEMMA PageTyped ==
  ASSUME NEW name, NEW pages \in SUBSET (0..12), NEW h \in Page(name, pages)
  PROVE  HandlerOK(h)
<1>1. h.args = 0 /\ h.pages = pages
  BY DEF Page
<1>2. QED BY <1>1, Few DEF HandlerOK

LEMMA TableTyped == \A h \in Public \union ForStaff : HandlerOK(h)
<1>1. \A h \in StartCommand \union HelpCommand \union StaffCommand \union CaseCommands : HandlerOK(h)
  BY HandlerTyped, ReadsTyped, Few DEF StartCommand, HelpCommand, StaffCommand, CaseCommands
<1>2. \A h \in TicketCommands \union InvestigationCommands \union ModerationCommands \union DepartmentCommands :
        HandlerOK(h)
  BY HandlerTyped, ModerationTyped, Few DEF TicketCommands, InvestigationCommands, DepartmentCommands
<1>3. \A h \in SecurityCommands \union MonitoringCommands \union AiCommands \union ExecutiveCommands :
        HandlerOK(h)
  BY ReadsTyped DEF SecurityCommands, MonitoringCommands, AiCommands, ExecutiveCommands
<1>4. \A h \in IncidentCommands \union AuditCommands \union LockdownCommands \union PremiumCommands :
        HandlerOK(h)
  BY HandlerTyped, ReadsTyped, Few DEF IncidentCommands, AuditCommands, LockdownCommands, PremiumCommands
<1>5. \A h \in SyncCommands \union DashboardCommands \union GovernanceCommands \union DashboardCommand :
        HandlerOK(h)
  BY HandlerTyped, ReadsTyped, Few DEF SyncCommands, DashboardCommands, GovernanceCommands, DashboardCommand
<1>6. \A h \in GuideCommands : HandlerOK(h)
  <2>1. /\ 1..12 \in SUBSET (0..12) /\ {11} \in SUBSET (0..12) /\ {12} \in SUBSET (0..12)
        /\ 1..11 \in SUBSET (0..12) /\ 2..12 \in SUBSET (0..12) /\ {1} \in SUBSET (0..12)
    OBVIOUS
  <2>2. QED BY <2>1, PageTyped DEF GuideCommands
<1>7. QED BY <1>1, <1>2, <1>3, <1>4, <1>5, <1>6 DEF Public, ForStaff

\* A handler's writing puts one more write into the update, and nothing else that is said of it.
LEMMA AfterWriteTyped ==
  ASSUME NEW now \in BotUpdates
  PROVE  /\ AfterWrite(now) \in BotUpdates /\ AfterWrite(now).written = now.written + 1
         /\ AfterWrite(now).pc = now.pc /\ AfterWrite(now).text = now.text /\ AfterWrite(now).handler = now.handler
         /\ AfterWrite(now).answer = now.answer /\ AfterWrite(now).failures = now.failures
         /\ AfterWrite(now).restarts = now.restarts /\ AfterWrite(now).named = now.named
         /\ AfterWrite(now).sendable = now.sendable
<1>1. Granted(now) \in {"none", "role", "override", "temporary"}
  BY DEF Granted, BotUpdates
<1>2. now.written + 1 \in Nat
  BY DEF BotUpdates
<1>3. PICK count \in Nat, table \in {"none", "role", "override", "temporary"} :
        count = now.written + 1 /\ table = Granted(now)
  BY <1>1, <1>2
<1>4. AfterWrite(now) = [now EXCEPT !.written = count, !.granted = table]
  BY <1>3 DEF AfterWrite
<1>5. QED BY <1>3, <1>4 DEF BotUpdates

\* What is about to be said, of what has been done so far.
LEMMA SayingOK ==
  ASSUME BotIInv, NEW u \in Updates, NEW now \in BotUpdates, NEW text \in {"refused", "usage", "result", "error"},
         now.handler.args = 0 => now.named # "unknown", now.answer = "none", now.written <= 1 + now.restarts,
         text \in {"refused", "usage", "error"} => now.written <= now.restarts,
         text = "result" /\ now.handler.writes => now.written > 0,
         text = "error" => ~now.handler.catches,
         Turn(u, Saying(now, text))
  PROVE  BotIInv'
<1> DEFINE next == Saying(now, text)
<1>1. next \in BotUpdates
  BY DEF BotUpdates, Saying, Texts
<1>2. /\ next.pc = "reply" /\ next.text = text /\ next.handler = now.handler /\ next.answer = now.answer
      /\ next.written = now.written /\ next.restarts = now.restarts /\ next.named = now.named
  BY DEF BotUpdates, Saying
<1> HIDE DEF next
<1>3. TextOK(next) /\ AnswerOK(next)
  BY <1>2 DEF TextOK, AnswerOK
<1>4. QED BY <1>1, <1>3, Turns DEF UpdateOK, next

\* What throws is reported when its handler catches, and is silent when it does not.
LEMMA ThrowsOK ==
  ASSUME BotIInv, NEW u \in Updates, NEW now \in BotUpdates, now.handler = update[u].handler,
         Turn(u, Throws(u, now)),
         now.handler.args = 0 => now.named # "unknown", now.answer = "none", now.written <= 1 + now.restarts,
         now.failures >= 1 \/ ~now.sendable \/ (now.named # "known" /\ now.written <= now.restarts),
         now.handler.catches \/ now.failures >= 1 \/ ~now.sendable \/ now.named = "invalid"
  PROVE  BotIInv'
<1> DEFINE next == Throws(u, now)
<1>1. (IF update[u].handler.catches THEN "report" ELSE "done") \in {"report", "done"} /\ "error" \in Texts
  BY DEF Texts
<1>2. next \in BotUpdates
  BY <1>1 DEF Throws, BotUpdates
<1>3. /\ next.pc = (IF next.handler.catches THEN "report" ELSE "done") /\ next.text = "error"
      /\ next.handler = now.handler /\ next.answer = "none" /\ next.written = now.written
      /\ next.restarts = now.restarts /\ next.failures = now.failures /\ next.named = now.named
      /\ next.sendable = now.sendable
  BY DEF Throws, BotUpdates
<1>4. Turn(u, next) /\ now.failures \in Nat
  BY DEF BotUpdates
<1> HIDE DEF next
<1>5. TextOK(next) /\ AnswerOK(next)
  BY <1>3, <1>4 DEF TextOK, AnswerOK, SilenceIsExplained
<1>6. QED BY <1>2, <1>4, <1>5, Turns DEF UpdateOK

LEMMA ArriveStep ==
  ASSUME BotIInv, NEW u \in Updates, NEW h \in Public \union ForStaff, NEW named \in Namings, NEW sendable \in BOOLEAN,
         NEW n \in 0..h.args, NEW p \in h.pages, Arrive(u, h, n, p, named, sendable)
  PROVE  BotIInv'
<1> DEFINE now == [NoUpdate EXCEPT !.pc = IF h \in Public THEN "run" ELSE "guard", !.handler = h, !.given = n,
                     !.page = p, !.named = named, !.sendable = sendable]
<1>1. n \in 0..4 /\ p \in 0..12
  BY TableTyped DEF HandlerOK
<1>2. now \in BotUpdates
  <2>1. NoUpdate \in BotUpdates
    BY NoUpdateOK DEF UpdateOK
  <2>2. h \in Handlers /\ (IF h \in Public THEN "run" ELSE "guard") \in {"run", "guard"}
    BY DEF Handlers
  <2>3. QED BY <1>1, <2>1, <2>2 DEF BotUpdates
<1>3. h.args = 0 => named # "unknown"
  BY DEF Arrive
<1>4. TextOK(now) /\ AnswerOK(now)
  BY <1>3 DEF TextOK, AnswerOK, NoUpdate
<1> HIDE DEF now
<1>5. Turn(u, now)
  BY DEF Arrive, now
<1>6. QED BY <1>2, <1>4, <1>5, Turns DEF UpdateOK

LEMMA FailedTyped ==
  ASSUME BotIInv, NEW u \in Updates, Failing(u)
  PROVE  /\ Failed(u) \in BotUpdates /\ Failed(u).failures = update[u].failures + 1
         /\ Failed(u).failures \in Nat /\ update[u].failures \in Nat
         /\ Failed(u).pc = update[u].pc /\ Failed(u).handler = update[u].handler /\ Failed(u).text = update[u].text
         /\ Failed(u).answer = update[u].answer /\ Failed(u).written = update[u].written
         /\ Failed(u).restarts = update[u].restarts /\ Failed(u).named = update[u].named
         /\ Failed(u).sendable = update[u].sendable /\ Failed(u).given = update[u].given
<1>1. update[u] \in BotUpdates
  BY DEF BotIInv
<1>2. update[u].failures + 1 \in 0..MaxSlips /\ update[u].failures \in Nat
  BY <1>1, BotBoundsAssumption DEF Failing, BotUpdates
<1>3. Failed(u) = [update[u] EXCEPT !.failures = update[u].failures + 1]
  BY DEF Failed
<1>4. QED BY <1>1, <1>2, <1>3 DEF BotUpdates

\* The handling that ends with a failure of its guard, or of what the guard answers.
LEMMA GuardFails ==
  ASSUME BotIInv, NEW u \in Updates, Failing(u), update[u].pc \notin {"none", "done"}, update[u].text # "error",
         Turn(u, [Failed(u) EXCEPT !.pc = "done"])
  PROVE  BotIInv'
<1> DEFINE now == [Failed(u) EXCEPT !.pc = "done"]
<1>0. update[u] \in BotUpdates /\ TextOK(update[u])
  BY DEF BotIInv, UpdateOK
<1>1. now \in BotUpdates
  BY FailedTyped DEF BotUpdates
<1>2. /\ now.pc = "done" /\ now.text # "error" /\ now.answer = "none" /\ now.failures >= 1
      /\ now.written <= 1 + now.restarts /\ now.failures \in Nat
      /\ now.handler.args = 0 => now.named # "unknown"
  BY <1>0, FailedTyped DEF BotUpdates, TextOK
<1> HIDE DEF now
<1>3. TextOK(now) /\ AnswerOK(now)
  BY <1>2 DEF TextOK, AnswerOK, SilenceIsExplained
<1>4. QED BY <1>1, <1>3, Turns DEF UpdateOK, now

LEMMA IdentifyStep == ASSUME BotIInv, NEW u \in Updates, NEW known \in BOOLEAN, Identify(u, known) PROVE BotIInv'
<1>0. /\ update[u] \in BotUpdates /\ update[u].pc = "guard" /\ update[u].text = "none"
      /\ update[u].written <= update[u].restarts /\ update[u].written <= 1 + update[u].restarts
      /\ update[u].answer = "none"
      /\ update[u].handler.args = 0 => update[u].named # "unknown"
  BY DEF BotIInv, UpdateOK, TextOK, Identify
<1>1. CASE known
  <2> DEFINE now == [update[u] EXCEPT !.pc = "run"]
  <2>1. Turn(u, now) /\ now \in BotUpdates
    BY <1>0, <1>1 DEF Identify, BotUpdates
  <2>2. TextOK(now) /\ AnswerOK(now)
    BY <1>0 DEF TextOK, AnswerOK, BotUpdates
  <2>3. QED BY <2>1, <2>2, Turns DEF UpdateOK
<1>2. CASE ~known
  <2>1. Turn(u, Saying(update[u], "refused"))
    BY <1>2 DEF Identify
  <2>2. QED BY <1>0, <2>1, SayingOK
<1>3. QED BY <1>1, <1>2

\* What is known of an update before its handler runs.
LEMMA Running ==
  ASSUME BotIInv, NEW u \in Updates, update[u].pc = "run"
  PROVE  /\ update[u] \in BotUpdates /\ update[u].text = "none" /\ update[u].answer = "none"
         /\ update[u].written <= update[u].restarts /\ update[u].written <= 1 + update[u].restarts
         /\ update[u].written \in Nat /\ update[u].restarts \in Nat
         /\ update[u].handler.args = 0 => update[u].named # "unknown"
BY DEF BotIInv, UpdateOK, TextOK, BotUpdates

LEMMA UsageStep == ASSUME BotIInv, NEW u \in Updates, Usage(u) PROVE BotIInv'
BY Running, SayingOK DEF Usage

LEMMA RunStep == ASSUME BotIInv, NEW u \in Updates, Run(u) PROVE BotIInv'
<1>0. /\ update[u].pc = "run"
      /\ Turn(u, Saying(AfterService(update[u]), "result"))
  BY DEF Run
<1>1. CASE update[u].handler.writes
  <2>1. PICK now : now = AfterWrite(update[u])
    OBVIOUS
  <2>2. /\ now \in BotUpdates /\ now.written = update[u].written + 1 /\ now.handler = update[u].handler
        /\ now.answer = update[u].answer /\ now.restarts = update[u].restarts /\ now.named = update[u].named
    BY <1>0, <2>1, Running, AfterWriteTyped
  <2>3. now.written <= 1 + now.restarts /\ now.written > 0
    BY <1>0, <2>2, Running
  <2>4. Turn(u, Saying(now, "result"))
    BY <1>0, <1>1, <2>1 DEF AfterService
  <2>5. QED BY <1>0, <2>2, <2>3, <2>4, Running, SayingOK
<1>2. CASE ~update[u].handler.writes
  <2>1. Turn(u, Saying(update[u], "result"))
    BY <1>0, <1>2 DEF AfterService
  <2>2. QED BY <1>0, <1>2, <2>1, Running, SayingOK
<1>3. QED BY <1>1, <1>2

LEMMA NotFoundStep == ASSUME BotIInv, NEW u \in Updates, NotFound(u) PROVE BotIInv'
<1>0. update[u].pc = "run"
  BY DEF NotFound
<1>1. CASE update[u].handler \in ModerationCommands /\ Turn(u, Saying(update[u], "error"))
  BY <1>0, <1>1, Running, ModerationTyped, SayingOK
<1>2. CASE Turn(u, Saying(update[u], "usage"))
  BY <1>0, <1>2, Running, SayingOK
<1>3. QED BY <1>1, <1>2 DEF NotFound

LEMMA RejectedStep == ASSUME BotIInv, NEW u \in Updates, Rejected(u) PROVE BotIInv'
<1>0. /\ update[u].pc = "run" /\ Turn(u, Throws(u, update[u])) /\ update[u].named # "known"
      /\ update[u].handler \notin ModerationCommands \/ update[u].named = "invalid"
      /\ update[u].named \in {"unknown", "invalid"}
  BY DEF Rejected
<1>1. CASE update[u].named = "invalid"
  BY <1>0, <1>1, Running, ThrowsOK
<1>2. CASE update[u].named = "unknown"
  <2>1. update[u].handler.args # 0 /\ update[u] \in BotUpdates
    BY <1>0, <1>2, Running
  <2>2. update[u].handler \in Public \union ForStaff
    BY <2>1 DEF BotUpdates, Handlers, NoHandler
  <2>3. update[u].handler.catches
    BY <1>0, <1>2, <2>1, <2>2, TableTyped DEF HandlerOK
  <2>4. QED BY <1>0, <1>2, <2>3, Running, ThrowsOK
<1>3. QED BY <1>0, <1>1, <1>2

LEMMA FailRunStep == ASSUME BotIInv, NEW u \in Updates, FailRun(u) PROVE BotIInv'
<1>0. Failing(u) /\ Failed(u).pc = "run"
  BY DEF FailRun
<1>1. PICK now : now = Failed(u)
  OBVIOUS
<1>2. /\ now \in BotUpdates /\ now.failures >= 1 /\ now.handler = update[u].handler /\ now.named = update[u].named
      /\ now.written = update[u].written /\ now.restarts = update[u].restarts /\ now.answer = update[u].answer
      /\ now.pc = update[u].pc /\ now.pc = "run"
  BY <1>0, <1>1, FailedTyped
<1>3. Turn(u, Throws(u, now)) \/ Turn(u, Throws(u, AfterWrite(now)))
  BY <1>1 DEF FailRun
<1>4. /\ now.answer = "none" /\ now.written <= now.restarts /\ now.written \in Nat /\ now.restarts \in Nat
      /\ now.handler.args = 0 => now.named # "unknown"
  BY <1>2, Running
<1>5. CASE Turn(u, Throws(u, AfterWrite(now)))
  <2>1. PICK after : after = AfterWrite(now)
    OBVIOUS
  <2>2. /\ after \in BotUpdates /\ after.written = now.written + 1 /\ after.handler = now.handler
        /\ after.answer = now.answer /\ after.failures = now.failures /\ after.restarts = now.restarts
        /\ after.named = now.named
    BY <1>2, <2>1, AfterWriteTyped
  <2>3. after.written <= 1 + after.restarts
    BY <1>4, <2>2
  <2>4. Turn(u, Throws(u, after))
    BY <1>5, <2>1
  <2>5. QED BY <1>2, <1>4, <2>2, <2>3, <2>4, ThrowsOK
<1>6. CASE Turn(u, Throws(u, now))
  <2>1. now.written <= 1 + now.restarts
    BY <1>4
  <2>2. QED BY <1>2, <1>4, <1>6, <2>1, ThrowsOK
<1>7. QED BY <1>3, <1>5, <1>6

LEMMA ReplyStep == ASSUME BotIInv, NEW u \in Updates, Reply(u) PROVE BotIInv'
<1> DEFINE now == [update[u] EXCEPT !.pc = "done", !.answer = update[u].text]
<1>0. update[u] \in BotUpdates /\ TextOK(update[u]) /\ update[u].pc = "reply"
  BY DEF BotIInv, UpdateOK, Reply
<1>1. Turn(u, now)
  BY DEF Reply
<1>2. now \in BotUpdates
  BY <1>0 DEF BotUpdates
<1>3. /\ now.pc = "done" /\ now.answer = update[u].text /\ now.text = update[u].text
      /\ now.handler = update[u].handler /\ now.written = update[u].written /\ now.named = update[u].named
      /\ now.restarts = update[u].restarts /\ now.failures = update[u].failures
  BY <1>0 DEF BotUpdates
<1>4. update[u].text # "none"
  BY <1>0 DEF TextOK
<1>5. TextOK(now) /\ AnswerOK(now)
  BY <1>0, <1>3, <1>4 DEF TextOK, AnswerOK
<1> HIDE DEF now
<1>6. QED BY <1>1, <1>2, <1>5, Turns DEF UpdateOK

LEMMA RefuseReplyStep == ASSUME BotIInv, NEW u \in Updates, RefuseReply(u) PROVE BotIInv'
<1>0. /\ update[u] \in BotUpdates /\ TextOK(update[u]) /\ update[u].pc = "reply" /\ ~update[u].sendable
      /\ Turn(u, Throws(u, update[u]))
  BY DEF BotIInv, UpdateOK, RefuseReply, Refuses
<1>1. /\ update[u].handler.args = 0 => update[u].named # "unknown"
      /\ update[u].answer = "none" /\ update[u].written <= 1 + update[u].restarts
  BY <1>0 DEF TextOK
<1>2. QED BY <1>0, <1>1, ThrowsOK

LEMMA FailReplyStep == ASSUME BotIInv, NEW u \in Updates, FailReply(u) PROVE BotIInv'
<1>0. update[u] \in BotUpdates /\ TextOK(update[u]) /\ update[u].pc = "reply" /\ Failing(u)
  BY DEF BotIInv, UpdateOK, FailReply
<1>1. CASE update[u].text = "refused"
  BY <1>0, <1>1, GuardFails DEF FailReply
<1>2. CASE update[u].text # "refused"
  <2>1. PICK now : now = Failed(u)
    OBVIOUS
  <2>2. /\ now \in BotUpdates /\ now.failures >= 1 /\ now.handler = update[u].handler
        /\ now.named = update[u].named /\ now.written = update[u].written /\ now.restarts = update[u].restarts
        /\ now.answer = update[u].answer
    BY <1>0, <2>1, FailedTyped
  <2>3. /\ now.handler.args = 0 => now.named # "unknown"
        /\ now.answer = "none" /\ now.written <= 1 + now.restarts
    BY <1>0, <2>2 DEF TextOK
  <2>4. Turn(u, Throws(u, now))
    BY <1>2, <2>1 DEF FailReply
  <2>5. QED BY <2>2, <2>3, <2>4, ThrowsOK
<1>3. QED BY <1>1, <1>2

LEMMA ReportStep == ASSUME BotIInv, NEW u \in Updates, Report(u) PROVE BotIInv'
<1>0. update[u] \in BotUpdates /\ TextOK(update[u]) /\ update[u].pc = "report"
  BY DEF BotIInv, UpdateOK, Report
<1>1. PICK said : said = IF update[u].handler.name \in Buttons THEN "acknowledged" ELSE "error"
  OBVIOUS
<1>2. said \in {"acknowledged", "error"}
  BY <1>1
<1>3. CASE Turn(u, [update[u] EXCEPT !.pc = "done", !.answer = said])
  <2> DEFINE now == [update[u] EXCEPT !.pc = "done", !.answer = said]
  <2>1. now \in BotUpdates
    BY <1>0, <1>2 DEF BotUpdates, Texts
  <2>2. /\ now.pc = "done" /\ now.answer = said /\ now.handler = update[u].handler
        /\ now.written = update[u].written /\ now.named = update[u].named /\ now.sendable = update[u].sendable
        /\ now.restarts = update[u].restarts /\ now.failures = update[u].failures
    BY <1>0 DEF BotUpdates
  <2>3. Turn(u, now)
    BY <1>3
  <2> HIDE DEF now
  <2>4. now.failures \in Nat
    BY <2>1 DEF BotUpdates
  <2>5. TextOK(now) /\ AnswerOK(now)
    BY <1>0, <1>2, <2>2, <2>4 DEF TextOK, AnswerOK
  <2>6. QED BY <2>1, <2>3, <2>5, Turns DEF UpdateOK
<1>4. CASE Failing(u) /\ Turn(u, [Failed(u) EXCEPT !.pc = "done"])
  <2> DEFINE now == [Failed(u) EXCEPT !.pc = "done"]
  <2>1. now \in BotUpdates /\ Turn(u, now)
    BY <1>4, FailedTyped DEF BotUpdates
  <2>2. /\ now.pc = "done" /\ now.answer = "none" /\ now.text = "error" /\ now.handler = update[u].handler
        /\ now.failures = update[u].failures + 1 /\ update[u].failures \in Nat
        /\ now.named = update[u].named /\ now.sendable = update[u].sendable
        /\ now.written = update[u].written /\ now.restarts = update[u].restarts
    BY <1>0, <1>4, FailedTyped DEF BotUpdates, TextOK
  <2> HIDE DEF now
  <2>3. /\ update[u].handler.catches /\ update[u].written <= 1 + update[u].restarts
        /\ update[u].failures >= 1 \/ ~update[u].sendable \/ update[u].named # "known"
        /\ update[u].handler.args = 0 => update[u].named # "unknown"
    BY <1>0 DEF TextOK
  <2>4. SilenceIsExplained(now)
    BY <2>2, <2>3 DEF SilenceIsExplained
  <2>5. TextOK(now) /\ AnswerOK(now)
    BY <2>2, <2>3, <2>4 DEF TextOK, AnswerOK
  <2>6. QED BY <2>1, <2>5, Turns DEF UpdateOK
<1>5. QED BY <1>1, <1>3, <1>4 DEF Report

LEMMA AgainStep == ASSUME BotIInv, NEW u \in Updates, Again(u) PROVE BotIInv'
<1> DEFINE now == [update[u] EXCEPT !.pc = IF update[u].handler \in Public THEN "run" ELSE "guard",
                                    !.text = "none", !.restarts = update[u].restarts + 1]
<1>1. /\ Turn(u, now) /\ update[u].pc \notin {"none", "done"} /\ update[u].restarts < MaxRestarts
      /\ update[u] \in BotUpdates /\ TextOK(update[u])
  BY DEF BotIInv, UpdateOK, Again
<1>2. now \in BotUpdates
  <2>1. update[u].restarts + 1 \in 0..MaxRestarts
    BY <1>1, BotBoundsAssumption DEF BotUpdates
  <2>2. (IF update[u].handler \in Public THEN "run" ELSE "guard") \in {"run", "guard"} /\ "none" \in Texts
    BY DEF Texts
  <2>3. QED BY <1>1, <2>1, <2>2 DEF BotUpdates
<1>3. /\ now.pc \in {"guard", "run"} /\ now.text = "none" /\ now.answer = "none"
      /\ now.written <= now.restarts /\ now.written \in Nat /\ now.restarts \in Nat
      /\ now.handler.args = 0 => now.named # "unknown"
  BY <1>1 DEF BotUpdates, TextOK
<1> HIDE DEF now
<1>4. TextOK(now) /\ AnswerOK(now)
  BY <1>3 DEF TextOK, AnswerOK
<1>5. QED BY <1>1, <1>2, <1>4, Turns DEF UpdateOK

LEMMA BotStep == BotIInv /\ [BotNext]_botVars => BotIInv'
<1> SUFFICES ASSUME BotIInv, [BotNext]_botVars PROVE BotIInv'
  OBVIOUS
<1>1. ASSUME NEW u \in Updates, FailIdentify(u) PROVE BotIInv'
  <2>1. update[u].text # "error"
    BY <1>1 DEF BotIInv, UpdateOK, TextOK, FailIdentify
  <2>2. QED BY <1>1, <2>1, GuardFails DEF FailIdentify
<1>2. CASE UNCHANGED botVars
  BY <1>2 DEF botVars, BotIInv
<1>3. QED
  BY <1>1, <1>2, ArriveStep, IdentifyStep, UsageStep, RunStep, NotFoundStep, RejectedStep, FailRunStep, ReplyStep,
     RefuseReplyStep, FailReplyStep, ReportStep, AgainStep
  DEF BotNext

LEMMA BotInvariance == BotSpec => []BotIInv
BY BotInitial, BotStep, PTL DEF BotSpec

\* Every variable of the bot keeps its type.
THEOREM BotTypes == BotSpec => []BotTypeOK
BY BotInvariance, BotTyped, PTL

\* The answer a chat gets agrees with what was done, for any number of updates at the same time
\* and any bounds of failures and restarts (the command handlers, staffGuard, bot.catch).
THEOREM AnswersAreTrue == BotSpec => []AnswersTellTheEffect
<1>1. BotIInv => AnswersTellTheEffect
  BY DEF BotIInv, UpdateOK, AnswerOK, AnswersTellTheEffect
<1>2. QED BY <1>1, BotInvariance, PTL
-----------------------------------------------------------------------------
(***************************************************************************)
(*                                 Router                                  *)
(*                                                                         *)
(* What a request has passed are guards of its route, all of them once it  *)
(* reaches the handler; an outcome comes with its status.                  *)
(***************************************************************************)

\* What is so of a request where it is.
RequestOK(q) ==
  /\ q \in HttpStates
  /\ q.pc \in {"idle", "guards", "handler"} => q.outcome = "none" /\ q.status = 0
  /\ q.pc = "idle" => q.passed = {}
  /\ q.pc \in {"guards", "handler"} =>
       q.endpoint \in Endpoints /\ q.route = FirstMatch[q.endpoint] /\ q.passed \subseteq Routes[q.route].guards
  /\ q.pc = "handler" => q.passed = Routes[q.route].guards
  /\ "permission" \in q.passed => IsAskable(q.route)
  /\ q.pc = "auditing" => q.status \notin Answered
  /\ q.pc # "done" => q.audited = "none"
  /\ SuccessIsEarned(q)

HttpIInv == http \in [HttpRequests -> HttpStates] /\ \A r \in HttpRequests : RequestOK(http[r])

LEMMA HttpInitial == HttpInit => HttpIInv
<1>1. Unsent \in HttpStates
  BY DEF Unsent, HttpStates
<1>2. 0 \notin Answered
  BY DEF Answered
<1>3. RequestOK(Unsent)
  BY <1>1, <1>2 DEF RequestOK, SuccessIsEarned, Unsent
<1>4. QED BY <1>1, <1>3 DEF HttpInit, HttpIInv

\* The server tells a success from a refusal by the number.
LEMMA Successes == \A status \in Statuses : status < 400 <=> status \in Answered
BY DEF Statuses, Answered

\* A step of one request leaves the others where they are.
LEMMA RequestMoves ==
  ASSUME HttpIInv, NEW r \in HttpRequests, NEW next, RequestOK(next), http' = [http EXCEPT ![r] = next]
  PROVE  HttpIInv'
BY DEF HttpIInv, RequestOK, SuccessIsEarned

LEMMA Refusals == {401, 403, 404, 500} \subseteq Statuses \ Answered
BY DEF Statuses, Answered

\* A refusal, by the server or by a guard, is no success.
LEMMA AnswerStep ==
  ASSUME HttpIInv, NEW r \in HttpRequests, NEW status \in Statuses \ Answered,
         http[r].pc \in {"idle", "guards"}, Answer(r, status)
  PROVE  HttpIInv'
<1> DEFINE next == [http[r] EXCEPT !.status = status, !.pc = "auditing"]
<1>0. RequestOK(http[r]) /\ http[r] \in HttpStates
  BY DEF HttpIInv, RequestOK
<1>1. status \in Statuses /\ status \notin Answered
  OBVIOUS
<1>2. http' = [http EXCEPT ![r] = next]
  BY <1>1, Successes DEF Answer
<1>3. next \in HttpStates
  BY <1>0, <1>1 DEF HttpStates
<1>4. /\ next.status = status /\ next.pc = "auditing" /\ next.outcome = http[r].outcome
      /\ next.passed = http[r].passed /\ next.route = http[r].route /\ next.audited = http[r].audited
  BY <1>0 DEF HttpStates
<1> HIDE DEF next
<1>5. RequestOK(next)
  BY <1>0, <1>1, <1>3, <1>4 DEF RequestOK, SuccessIsEarned
<1>6. QED BY <1>2, <1>5, RequestMoves

LEMMA ReceiveStep ==
  ASSUME HttpIInv, NEW r \in HttpRequests, NEW e \in Endpoints \union {Unknown}, Receive(r, e)
  PROVE  HttpIInv'
<1>0. RequestOK(http[r]) /\ http[r] \in HttpStates /\ http[r].pc = "idle"
  BY DEF HttpIInv, RequestOK, Receive
<1>1. CASE e = Unknown /\ Answer(r, 404)
  BY <1>0, <1>1, Refusals, AnswerStep
<1>2. ASSUME NEW pc \in {"guards", "lost"}, e \in Endpoints,
             http' = [http EXCEPT ![r].endpoint = e, ![r].route = FirstMatch[e], ![r].pc = pc]
      PROVE  HttpIInv'
  <2> DEFINE next == [http[r] EXCEPT !.endpoint = e, !.route = FirstMatch[e], !.pc = pc]
  <2>1. http' = [http EXCEPT ![r] = next]
    BY <1>2
  <2>2. FirstMatch[e] \in Endpoints
    BY <1>2, RoutesAssumption
  <2>3. next \in HttpStates
    BY <1>0, <1>2, <2>2 DEF HttpStates
  <2>4. /\ next.endpoint = e /\ next.route = FirstMatch[e] /\ next.pc = pc
        /\ next.outcome = http[r].outcome /\ next.status = http[r].status /\ next.passed = http[r].passed
        /\ next.audited = http[r].audited
    BY <1>0 DEF HttpStates
  <2> HIDE DEF next
  <2>5. RequestOK(next)
    BY <1>0, <1>2, <2>3, <2>4 DEF RequestOK, SuccessIsEarned
  <2>6. QED BY <2>1, <2>5, RequestMoves
<1>3. QED BY <1>1, <1>2 DEF Receive

\* A guard that lets the request on is one of its route's.
LEMMA GuardPassed ==
  ASSUME HttpIInv, NEW r \in HttpRequests, http[r].pc = "guards",
         NEW passed \in {{"auth"}, {"auth", "permission"}}, passed \subseteq Routes[http[r].route].guards,
         "permission" \in passed => IsAskable(http[r].route),
         http' = [http EXCEPT ![r].passed = passed]
  PROVE  HttpIInv'
<1> DEFINE next == [http[r] EXCEPT !.passed = passed]
<1>0. RequestOK(http[r]) /\ http[r] \in HttpStates
  BY DEF HttpIInv, RequestOK
<1>1. http' = [http EXCEPT ![r] = next]
  OBVIOUS
<1>2. next \in HttpStates
  BY <1>0 DEF HttpStates
<1>3. /\ next.endpoint = http[r].endpoint /\ next.route = http[r].route /\ next.pc = "guards"
      /\ next.outcome = http[r].outcome /\ next.status = http[r].status /\ next.passed = passed
      /\ next.audited = http[r].audited
  BY <1>0 DEF HttpStates
<1> HIDE DEF next
<1>4. RequestOK(next)
  BY <1>0, <1>2, <1>3 DEF RequestOK, SuccessIsEarned
<1>5. QED BY <1>1, <1>4, RequestMoves

LEMMA GuardsStep ==
  ASSUME HttpIInv, NEW r \in HttpRequests, Authenticate(r) \/ Authorize(r)
  PROVE  HttpIInv'
<1>0. /\ RequestOK(http[r]) /\ http[r].pc = "guards"
      /\ Routes[http[r].route].guards \in {{}, {"auth"}, {"auth", "permission"}}
  BY RoutesAssumption DEF HttpIInv, RequestOK, Authenticate, Authorize
<1>1. CASE Authenticate(r)
  <2>1. "auth" \in Routes[http[r].route].guards
    BY <1>1 DEF Authenticate, Guarding
  <2>2. CASE http' = [http EXCEPT ![r].passed = {"auth"}]
    BY <1>0, <2>1, <2>2, GuardPassed
  <2>3. CASE Answer(r, 401)
    BY <1>0, <2>3, Refusals, AnswerStep
  <2>4. QED BY <1>1, <2>2, <2>3 DEF Authenticate
<1>2. CASE Authorize(r)
  <2>1. "permission" \in Routes[http[r].route].guards
    BY <1>2 DEF Authorize, Guarding
  <2>2. {"auth", "permission"} \subseteq Routes[http[r].route].guards
    BY <1>0, <2>1
  <2>3. CASE IsAskable(http[r].route) /\ http' = [http EXCEPT ![r].passed = {"auth", "permission"}]
    BY <1>0, <2>2, <2>3, GuardPassed
  <2>4. ASSUME NEW status \in {401, 403, 404, 500}, Answer(r, status) PROVE HttpIInv'
    BY <1>0, <2>4, Refusals, AnswerStep
  <2>5. QED BY <1>2, <2>3, <2>4 DEF Authorize
<1>3. QED BY <1>1, <1>2

LEMMA CallStep == ASSUME HttpIInv, NEW r \in HttpRequests, Call(r) PROVE HttpIInv'
<1> DEFINE next == [http[r] EXCEPT !.pc = "handler"]
<1>0. RequestOK(http[r]) /\ http[r] \in HttpStates /\ http[r].pc = "guards"
  BY DEF HttpIInv, RequestOK, Call
<1>1. http' = [http EXCEPT ![r] = next]
  BY DEF Call
<1>2. next \in HttpStates
  BY <1>0 DEF HttpStates
<1>3. /\ next.endpoint = http[r].endpoint /\ next.route = http[r].route /\ next.pc = "handler"
      /\ next.outcome = http[r].outcome /\ next.status = http[r].status /\ next.passed = http[r].passed
      /\ next.audited = http[r].audited
  BY <1>0 DEF HttpStates
<1> HIDE DEF next
<1>4. http[r].passed = Routes[http[r].route].guards
  BY <1>0 DEF RequestOK, Call, Guarding
<1>5. RequestOK(next)
  BY <1>0, <1>2, <1>3, <1>4 DEF RequestOK, SuccessIsEarned
<1>6. QED BY <1>1, <1>5, RequestMoves

\* Only what the endpoint's own handler has done is a success.
LEMMA RespondStep ==
  ASSUME HttpIInv, NEW r \in HttpRequests, NEW outcome \in {"done", "refused", "crashed"}, Respond(r, outcome)
  PROVE  HttpIInv'
<1> DEFINE route == http[r].route
           status == StatusOf(Routes[route].handler, outcome)
           pc == IF status < 400 THEN "done" ELSE "auditing"
           next == [http[r] EXCEPT !.outcome = outcome, !.status = status, !.pc = pc]
<1>0. RequestOK(http[r]) /\ http[r] \in HttpStates /\ http[r].pc = "handler" /\ outcome \in Outcomes(r)
  BY DEF HttpIInv, RequestOK, Respond
<1>1. /\ http[r].endpoint \in Endpoints /\ route \in Endpoints
      /\ http[r].passed = Routes[route].guards
  BY <1>0, RoutesAssumption DEF RequestOK
<1>2. status \in Statuses /\ (status \in Answered <=> outcome = "done")
  <2>1. CASE outcome = "done"
    <3>1. status = Routes[route].handler.code
      BY <2>1 DEF StatusOf
    <3>2. QED BY <1>1, <2>1, <3>1, RoutesAssumption DEF Answered, Statuses
  <2>2. CASE outcome # "done"
    <3>1. Declined \in Statuses \ Answered /\ 500 \in Statuses \ Answered
      BY DEF Declined, Answered, Statuses
    <3>2. status \in Statuses \ Answered
      BY <1>1, <2>2, <3>1, RoutesAssumption DEF StatusOf
    <3>3. QED BY <2>2, <3>2
  <2>3. QED BY <2>1, <2>2
<1>3. http' = [http EXCEPT ![r] = next]
  BY DEF Respond
<1>4. outcome = "done" => route = http[r].endpoint /\ IsServed(http[r].endpoint) /\ IsOpen(http[r].endpoint)
  <2>1. outcome = "done" => route = http[r].endpoint /\ IsServed(http[r].endpoint)
    BY <1>0 DEF Outcomes, IsServed, RequestOK
  <2>2. outcome = "done" => IsOpen(http[r].endpoint)
    BY <1>0, <1>1, <2>1 DEF RequestOK, IsOpen
  <2>3. QED BY <2>1, <2>2
<1>5. /\ pc \in {"done", "auditing"}
      /\ pc = "done" <=> status \in Answered
  BY <1>2, Successes
<1> HIDE DEF status, pc
<1>6. next \in HttpStates
  BY <1>0, <1>2, <1>5 DEF HttpStates
<1>7. /\ next.endpoint = http[r].endpoint /\ next.pc = pc /\ next.outcome = outcome /\ next.status = status
      /\ next.passed = http[r].passed /\ next.route = route /\ next.audited = http[r].audited
  BY <1>0 DEF HttpStates
<1> HIDE DEF next
<1>8. RequestOK(next)
  BY <1>0, <1>1, <1>2, <1>4, <1>5, <1>6, <1>7 DEF RequestOK, SuccessIsEarned
<1>9. QED BY <1>3, <1>8, RequestMoves

LEMMA AuditStep == ASSUME HttpIInv, NEW r \in HttpRequests, Audit(r) PROVE HttpIInv'
<1>0. RequestOK(http[r]) /\ http[r] \in HttpStates /\ http[r].pc = "auditing"
  BY DEF HttpIInv, RequestOK, Audit
<1>1. PICK fate \in {"failed", "staff", "anonymous"} :
        /\ http' = [http EXCEPT ![r].pc = "done", ![r].audited = fate]
        /\ fate = "staff" => "auth" \in http[r].passed
  BY DEF Audit
<1> DEFINE next == [http[r] EXCEPT !.pc = "done", !.audited = fate]
<1>2. http' = [http EXCEPT ![r] = next]
  BY <1>1
<1>3. next \in HttpStates
  BY <1>0 DEF HttpStates
<1>4. /\ next.endpoint = http[r].endpoint /\ next.pc = "done" /\ next.outcome = http[r].outcome
      /\ next.status = http[r].status /\ next.passed = http[r].passed /\ next.audited = fate
      /\ next.route = http[r].route /\ next.endpoint = http[r].endpoint
  BY <1>0 DEF HttpStates
<1> HIDE DEF next
<1>5. RequestOK(next)
  BY <1>0, <1>1, <1>3, <1>4 DEF RequestOK, SuccessIsEarned
<1>6. QED BY <1>2, <1>5, RequestMoves

\* Every step of the server.
LEMMA HttpStep == HttpIInv /\ [HttpNext]_httpVars => HttpIInv'
<1> SUFFICES ASSUME HttpIInv, [HttpNext]_httpVars PROVE HttpIInv'
  OBVIOUS
<1>1. CASE HttpNext
  BY <1>1, ReceiveStep, GuardsStep, CallStep, RespondStep, AuditStep DEF HttpNext
<1>2. CASE UNCHANGED httpVars
  BY <1>2 DEF httpVars, HttpIInv, RequestOK, SuccessIsEarned
<1>3. QED BY <1>1, <1>2

LEMMA HttpInvariance == HttpSpec => []HttpIInv
BY HttpInitial, HttpStep, PTL DEF HttpSpec

\* The types of a request on its way.
THEOREM HttpTypes == HttpSpec => []HttpTypeOK
<1>1. HttpIInv => HttpTypeOK
  BY DEF HttpIInv, RequestOK, HttpTypeOK
<1>2. QED BY HttpInvariance, <1>1, PTL

\* Any number of requests at the same time: a success was earned by the service, by its own route
\* and by every guard of it, and every other answer is in the audit log (createServer,
\* handleController).
THEOREM EndpointsAreAnswered == HttpSpec => []EndpointsAnswer
<1>1. HttpIInv => EndpointsAnswer
  BY DEF HttpIInv, RequestOK, EndpointsAnswer
<1>2. QED BY HttpInvariance, <1>1, PTL

-----------------------------------------------------------------------------
(***************************************************************************)
(*                              The platform                               *)
(*                                                                         *)
(* A step of the platform is a step of the part in focus, beside which the *)
(* other parts stand still: the platform runs each part by its own rules.  *)
(***************************************************************************)

\* Each focus lets its part take that part's own steps, and the others none.
LEMMA PlatformStep ==
  ASSUME [PlatformNext]_platformVars
  PROVE  /\ [HttpNext]_httpVars /\ [AccessNext]_accessVars /\ [NoticesNext]_noticeVars
         /\ [CacheNext]_cacheVars /\ [StaffNext]_staffVars /\ [WatchNext]_watchVars
         /\ [RecordsNext]_recordVars /\ [BotNext]_botVars
<1>1. CASE HttpFocus
  BY <1>1 DEF HttpFocus
<1>2. CASE AccessFocus
  BY <1>2 DEF AccessFocus, AccessNext, AccessStep
<1>3. CASE NoticesFocus
  BY <1>3 DEF NoticesFocus
<1>4. CASE CacheFocus
  BY <1>4 DEF CacheFocus
<1>5. CASE StaffFocus
  BY <1>5 DEF StaffFocus
<1>6. CASE WatchFocus
  BY <1>6 DEF WatchFocus
<1>7. CASE RecordsFocus
  BY <1>7 DEF RecordsFocus, RecordsNext
<1>8. CASE BotFocus
  BY <1>8 DEF BotFocus
<1>9. CASE UNCHANGED platformVars
  BY <1>9 DEF platformVars
<1>10. QED BY <1>1, <1>2, <1>3, <1>4, <1>5, <1>6, <1>7, <1>8, <1>9 DEF PlatformNext

\* What is proved of a part on its own is so of the platform that runs all of them.
THEOREM PartsAreTheirOwn ==
  PlatformSpec => /\ HttpSpec /\ AccessSpec /\ NoticesSpec /\ CacheSpec
                  /\ StaffSpec /\ WatchSpec /\ RecordsSpec /\ BotSpec
<1>1. PlatformInit => /\ HttpInit /\ AccessInit /\ NoticesInit /\ CacheInit
                      /\ StaffInit /\ WatchInit /\ RecordsInit /\ BotInit
  BY DEF PlatformInit
<1>2. QED BY <1>1, PlatformStep, PTL
          DEF PlatformSpec, HttpSpec, AccessSpec, NoticesSpec, CacheSpec, StaffSpec, WatchSpec, RecordsSpec, BotSpec

\* The types of all parts: requests, rights, notices, cache, staff, watched services, records, updates.
THEOREM PlatformTypes == PlatformSpec => []PlatformTypeOK
<1>1. HttpTypeOK /\ AccessTypeOK /\ NoticesTypeOK /\ CacheTypeOK
        /\ StaffTypeOK /\ WatchTypeOK /\ RecordsTypeOK /\ BotTypeOK => PlatformTypeOK
  BY DEF PlatformTypeOK
<1>2. QED BY <1>1, PartsAreTheirOwn, HttpTypes, AccessTypes, NoticesTypes, CacheTypes, StaffTypes,
             WatchTypes, RecordsTypes, BotTypes, PTL
=============================================================================
