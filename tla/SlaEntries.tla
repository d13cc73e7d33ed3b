----------------------------- MODULE SlaEntries -----------------------------
(***************************************************************************)
(* Service level agreements: entries are started and resolved by staff     *)
(* while the breach check (every 5 minutes, and POST                       *)
(* /api/sla/check-breaches) reads the ACTIVE ones and writes BREACHED over *)
(* those that are late, one after the other, announcing each.              *)
(***************************************************************************)
EXTENDS Naturals

CONSTANTS
  Entries,    \* the entries that may be started
  Resolvers,  \* bound: resolve calls at the same time
  Checks,     \* bound: runs of checkForBreaches at the same time
  MaxMishaps  \* bound: crashes and database calls that throw

NotStarted == "unstarted"
NoEntry == "none"
SlaStatuses == {"ACTIVE", "BREACHED", "RESOLVED"}

VARIABLES
  sla,         \* the status column
  late,        \* the entries whose deadline has passed
  breachedAt,  \* the entries with a time of breach
  resolvedAt,  \* the entries with a time of resolution
  resolver,    \* the entry that a resolve call is about to write
  check,       \* the runs of checkForBreaches in progress
  alarmed,     \* entries for which sla:breached was emitted
  mishaps,
  \* history
  checked,     \* entries that a completed check had to find late
  silent       \* entries whose announcement was lost

columns == <<sla, late, breachedAt, resolvedAt>>
slaHistory == <<checked, silent>>
slaVars == <<columns, resolver, check, alarmed, mishaps, slaHistory>>

\* now: the entries that were late as the check took the time; done: those
\* RESOLVED then, due: those late and not RESOLVED as it read (history);
\* page: those still to write; cur: the one written and to be announced.
CheckState ==
  [at : {"idle", "read", "loop", "alarm"}, now : SUBSET Entries,
   done : SUBSET Entries, due : SUBSET Entries, page : SUBSET Entries,
   cur : Entries \union {NoEntry}]
NoCheck ==
  [at |-> "idle", now |-> {}, done |-> {}, due |-> {}, page |-> {}, cur |-> NoEntry]

Started == {e \in Entries : sla[e] # NotStarted}
Running == {e \in Entries : sla[e] = "ACTIVE"}
Resolved == {e \in Entries : sla[e] = "RESOLVED"}

SlaInit ==
  /\ sla = [e \in Entries |-> NotStarted]
  /\ late = {} /\ breachedAt = {} /\ resolvedAt = {}
  /\ resolver = [c \in Resolvers |-> NoEntry]
  /\ check = [r \in Checks |-> NoCheck]
  /\ alarmed = {}
  /\ mishaps = 0
  /\ checked = {}
  /\ silent = {}

-----------------------------------------------------------------------------

\* The deadline that the caller gives lies ahead.
StartSla(e) ==
  /\ e \notin Started
  /\ sla' = [sla EXCEPT ![e] = "ACTIVE"]
  /\ UNCHANGED <<late, breachedAt, resolvedAt, resolver, check, alarmed, mishaps, slaHistory>>

DeadlinePasses(e) ==
  /\ e \in Started \ late
  /\ late' = late \union {e}
  /\ UNCHANGED <<sla, breachedAt, resolvedAt, resolver, check, alarmed, mishaps, slaHistory>>

\* resolveSla: a BREACHED entry can be resolved, too.
BeginResolve(c, e) ==
  /\ resolver[c] = NoEntry
  /\ e \in Started \ Resolved
  /\ resolver' = [resolver EXCEPT ![c] = e]
  /\ UNCHANGED <<columns, check, alarmed, mishaps, slaHistory>>

\* Faulty: the breach is taken back.
ResolveClean(c) ==
  LET e == resolver[c] IN
  /\ e # NoEntry
  /\ sla' = [sla EXCEPT ![e] = "RESOLVED"]
  /\ resolvedAt' = resolvedAt \union {e}
  /\ breachedAt' = breachedAt \ {e}
  /\ resolver' = [resolver EXCEPT ![c] = NoEntry]
  /\ UNCHANGED <<late, check, alarmed, mishaps, slaHistory>>

Resolve(c) ==
  LET e == resolver[c] IN
  /\ e # NoEntry
  /\ sla' = [sla EXCEPT ![e] = "RESOLVED"]
  /\ resolvedAt' = resolvedAt \union {e}
  /\ resolver' = [resolver EXCEPT ![c] = NoEntry]
  /\ UNCHANGED <<late, breachedAt, check, alarmed, mishaps, slaHistory>>

-----------------------------------------------------------------------------
(* checkForBreaches *)

StartCheck(r) ==
  /\ check[r] = NoCheck
  /\ check' = [check EXCEPT ![r] =
       [NoCheck EXCEPT !.at = "read", !.now = late, !.done = Resolved]]
  /\ UNCHANGED <<columns, resolver, alarmed, mishaps, slaHistory>>

\* On to the rest of the list, or to the end of the run.
Loop(r, d, rest) ==
  /\ check' = [check EXCEPT ![r] =
       IF rest = {} THEN NoCheck
       ELSE [@ EXCEPT !.at = "loop", !.due = d, !.page = rest, !.cur = NoEntry]]
  /\ checked' = IF rest = {} THEN checked \union d ELSE checked

\* Faulty: whatever is not BREACHED is read, resolved entries too.
ReadUnbreached(r) ==
  /\ check[r].at = "read"
  /\ Loop(r, check[r].now \ Resolved, {e \in check[r].now : sla[e] # "BREACHED"})
  /\ UNCHANGED <<columns, resolver, alarmed, mishaps, silent>>

\* findMany of the ACTIVE; those that are not late, or have a time of breach,
\* are passed with no await.
ReadActive(r) ==
  /\ check[r].at = "read"
  /\ Loop(r, check[r].now \ Resolved, (Running \intersect check[r].now) \ breachedAt)
  /\ UNCHANGED <<columns, resolver, alarmed, mishaps, silent>>

\* Faulty: the time of the breach is not written.
BreachStatusOnly(r) ==
  /\ check[r].at = "loop"
  /\ \E e \in check[r].page :
       /\ sla' = [sla EXCEPT ![e] = "BREACHED"]
       /\ check' = [check EXCEPT ![r].at = "alarm", ![r].cur = e, ![r].page = @ \ {e}]
  /\ UNCHANGED <<late, breachedAt, resolvedAt, resolver, alarmed, mishaps, slaHistory>>

\* Faulty: the status is not written.
BreachTimeOnly(r) ==
  /\ check[r].at = "loop"
  /\ \E e \in check[r].page :
       /\ breachedAt' = breachedAt \union {e}
       /\ check' = [check EXCEPT ![r].at = "alarm", ![r].cur = e, ![r].page = @ \ {e}]
  /\ UNCHANGED <<sla, late, resolvedAt, resolver, alarmed, mishaps, slaHistory>>

\* The update: whatever the status is by now.
Breach(r) ==
  /\ check[r].at = "loop"
  /\ \E e \in check[r].page :
       /\ sla' = [sla EXCEPT ![e] = "BREACHED"]
       /\ breachedAt' = breachedAt \union {e}
       /\ check' = [check EXCEPT ![r].at = "alarm", ![r].cur = e, ![r].page = @ \ {e}]
  /\ UNCHANGED <<late, resolvedAt, resolver, alarmed, mishaps, slaHistory>>

\* Faulty: only the first breach of a run is announced.
AlarmOnce(r) ==
  /\ check[r].at = "alarm"
  /\ alarmed' = IF check[r].page = {} THEN alarmed \union {check[r].cur} ELSE alarmed
  /\ Loop(r, check[r].due, check[r].page)
  /\ UNCHANGED <<columns, resolver, mishaps, silent>>

\* sla:breached, then the next entry.
Alarm(r) ==
  /\ check[r].at = "alarm"
  /\ alarmed' = alarmed \union {check[r].cur}
  /\ Loop(r, check[r].due, check[r].page)
  /\ UNCHANGED <<columns, resolver, mishaps, silent>>

-----------------------------------------------------------------------------
(* Faults *)

Mishap ==
  /\ mishaps < MaxMishaps
  /\ mishaps' = mishaps + 1

\* A database call throws; the rest of the list waits for the next run.
ResolveFails(c) ==
  /\ resolver[c] # NoEntry
  /\ Mishap
  /\ resolver' = [resolver EXCEPT ![c] = NoEntry]
  /\ UNCHANGED <<columns, check, alarmed, slaHistory>>

CheckFails(r) ==
  /\ check[r].at \in {"read", "loop"}
  /\ Mishap
  /\ check' = [check EXCEPT ![r] = NoCheck]
  /\ UNCHANGED <<columns, resolver, alarmed, slaHistory>>

\* The process dies and is restarted.
SlaRestart ==
  /\ Mishap
  /\ resolver' = [c \in Resolvers |-> NoEntry]
  /\ check' = [r \in Checks |-> NoCheck]
  /\ silent' = silent \union {check[r].cur : r \in {q \in Checks : check[q].at = "alarm"}}
  /\ UNCHANGED <<columns, alarmed, checked>>

-----------------------------------------------------------------------------

CheckStep(r) == ReadActive(r) \/ Breach(r) \/ Alarm(r) \/ CheckFails(r)

SlaNext ==
  \/ \E e \in Entries : StartSla(e) \/ DeadlinePasses(e)
  \/ \E c \in Resolvers : (\E e \in Entries : BeginResolve(c, e)) \/ Resolve(c) \/ ResolveFails(c)
  \/ \E r \in Checks : StartCheck(r) \/ CheckStep(r)
  \/ SlaRestart

SlaSpec == SlaInit /\ [][SlaNext]_slaVars

-----------------------------------------------------------------------------
(* Properties *)

\* Rows, calls and checks have values of their kinds; only entries that were
\* started are late, breached or resolved.
SlaTypeOK ==
  /\ sla \in [Entries -> SlaStatuses \union {NotStarted}]
  /\ late \subseteq Started
  /\ breachedAt \subseteq late
  /\ resolvedAt \subseteq Started
  /\ resolver \in [Resolvers -> Started \union {NoEntry}]
  /\ check \in [Checks -> CheckState]
  /\ alarmed \subseteq breachedAt
  /\ mishaps \in Nat
  /\ checked \subseteq Entries
  /\ silent \subseteq Entries

\* A check writes BREACHED over a resolution only if the two overlap: what
\* was RESOLVED when the check began is not in its list.
ResolutionHolds ==
  \A r \in Checks : check[r].page \intersect check[r].done = {}

\* A breach is never missed: an entry that was late when a check began and
\* not resolved when it looked has a time of breach once that check is over,
\* and keeps it if it is resolved later.
CheckedIsBreached ==
  /\ checked \subseteq breachedAt
  /\ checked \intersect Running = {}

\* Every breach is announced, or its check is about to, or died.
BreachIsAnnounced ==
  \A e \in breachedAt :
    \/ e \in alarmed \union silent
    \/ \E r \in Checks : check[r].at = "alarm" /\ check[r].cur = e

\* What is late is found to be in the end, unless it is resolved before.
LateIsBreached ==
  \A e \in Entries : e \in late \intersect Running ~> e \notin Running
=============================================================================
