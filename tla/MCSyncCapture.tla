--------------------------- MODULE MCSyncCapture ---------------------------
(* SyncCapture for TLC: payloads as the modules build them.                *)
EXTENDS SyncCapture, TLC

Symmetry == Permutations(Handlers)

MCNames == SideEffectNames \union {"ticket:replied"}

\* Two tickets, one user who replies to both; an audit log of a staff member;
\* a notification; and an event with none of the candidates.
MCModuleEvents ==
  {[name |-> "ticket:replied", payload |-> [ticketId |-> "t1", userId |-> "u"]],
   [name |-> "audit:logged", payload |-> [auditId |-> "a", staffId |-> "u"]],
   [name |-> "ticket:replied", payload |-> [note |-> "u"]]}

\* ADMIN_SYNC_REFERENCE.md:99: the set "skips events created as sync
\* side-effects", and :59 sends all other module events: what a module emits
\* itself is not skipped.
OnlySideEffectsAreSkipped ==
  [][\A m \in ModuleEvents : Emit(m) => m.name \notin syncOrigin]_vars
=============================================================================
