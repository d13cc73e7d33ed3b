--------------------------- MODULE Subscriptions ---------------------------
(***************************************************************************)
(* Premium subscriptions: users and staff create and cancel them while the *)
(* expiry task (every 30 minutes, and POST /api/premium/expire) reads the  *)
(* ACTIVE ones whose period is over, writes EXPIRED over all of them, and  *)
(* announces each.  A subscription is a row for a user and a plan; there   *)
(* is at most one for each such pair, and none is ever deleted.            *)
(***************************************************************************)
EXTENDS Naturals

CONSTANTS
  Pairs,      \* pairs of a user and a plan
  Requests,   \* bound: create and cancel calls at the same time
  Sweeps,     \* bound: runs of expireSubscriptions at the same time
  MaxFaults   \* bound: crashes and database calls that throw

Absent == "absent"
NoPair == "none"
Statuses == {"ACTIVE", "EXPIRED", "CANCELLED", "TRIALING"}

VARIABLES
  subscription,  \* the status column
  ended,         \* the pairs whose currentPeriodEnd has passed
  request,       \* the create and cancel calls in progress
  sweep,         \* the runs of expireSubscriptions in progress
  announced,     \* pairs for which subscription:expired was emitted
  faults,
  \* history
  swept,         \* pairs that were over when a sweep began that completed
  unannounced    \* pairs whose announcement was lost

rows == <<subscription, ended>>
history == <<swept, unannounced>>
vars == <<rows, request, sweep, announced, faults, history>>

RequestState ==
  [at : {"idle", "create", "cancel"}, pair : Pairs \union {NoPair},
   status : {"ACTIVE", "TRIALING", "none"}]
NoRequest == [at |-> "idle", pair |-> NoPair, status |-> "none"]

\* now: the pairs that were over as the sweep took the time; over: those that
\* were no longer ACTIVE then (history); page: those it still has to treat.
SweepState ==
  [at : {"idle", "read", "write", "announce"}, now : SUBSET Pairs,
   over : SUBSET Pairs, page : SUBSET Pairs]
NoSweep == [at |-> "idle", now |-> {}, over |-> {}, page |-> {}]

Present == {p \in Pairs : subscription[p] # Absent}
Active == {p \in Pairs : subscription[p] = "ACTIVE"}

Init ==
  /\ subscription = [p \in Pairs |-> Absent]
  /\ ended = {}
  /\ request = [c \in Requests |-> NoRequest]
  /\ sweep = [r \in Sweeps |-> NoSweep]
  /\ announced = {}
  /\ faults = 0
  /\ swept = {}
  /\ unannounced = {}

-----------------------------------------------------------------------------
(* Requests *)

\* createSubscription refuses an ACTIVE row, but no other.
BeginCreate(c, p, s) ==
  /\ request[c] = NoRequest
  /\ p \notin Active
  /\ request' = [request EXCEPT ![c] = [at |-> "create", pair |-> p, status |-> s]]
  /\ UNCHANGED <<rows, sweep, announced, faults, history>>

\* cancelSubscription only needs a row.
BeginCancel(c, p) ==
  /\ request[c] = NoRequest
  /\ p \in Present
  /\ request' = [request EXCEPT ![c] = [at |-> "cancel", pair |-> p, status |-> "none"]]
  /\ UNCHANGED <<rows, sweep, announced, faults, history>>

FinishRequest(c) == request' = [request EXCEPT ![c] = NoRequest]

\* Faulty: an upsert, which brings an old row back.
InsertOrRenew(c) ==
  /\ request[c].at = "create"
  /\ subscription' = [subscription EXCEPT ![request[c].pair] = request[c].status]
  /\ FinishRequest(c)
  /\ UNCHANGED <<ended, sweep, announced, faults, history>>

\* The insert fails if the pair has a row, whatever its status.
Insert(c) ==
  LET p == request[c].pair IN
  /\ request[c].at = "create"
  /\ IF p \in Present
       THEN UNCHANGED subscription
       ELSE subscription' = [subscription EXCEPT ![p] = request[c].status]
  /\ FinishRequest(c)
  /\ UNCHANGED <<ended, sweep, announced, faults, history>>

Cancel(c) ==
  /\ request[c].at = "cancel"
  /\ subscription' = [subscription EXCEPT ![request[c].pair] = "CANCELLED"]
  /\ FinishRequest(c)
  /\ UNCHANGED <<ended, sweep, announced, faults, history>>

PeriodEnds(p) ==
  /\ p \in Present \ ended
  /\ ended' = ended \union {p}
  /\ UNCHANGED <<subscription, request, sweep, announced, faults, history>>

-----------------------------------------------------------------------------
(* expireSubscriptions *)

StartSweep(r) ==
  /\ sweep[r] = NoSweep
  /\ sweep' = [sweep EXCEPT ![r] =
       [at |-> "read", now |-> ended, over |-> Present \ Active, page |-> {}]]
  /\ UNCHANGED <<rows, request, announced, faults, history>>

FinishSweep(r) ==
  /\ sweep' = [sweep EXCEPT ![r] = NoSweep]
  /\ swept' = swept \union sweep[r].now

\* Faulty: the subscriptions on trial are read, in place of the ACTIVE ones.
ReadTrials(r) ==
  LET list == {p \in sweep[r].now : subscription[p] = "TRIALING"} IN
  /\ sweep[r].at = "read"
  /\ IF list = {}
       THEN FinishSweep(r)
       ELSE /\ sweep' = [sweep EXCEPT ![r].at = "write", ![r].page = list]
            /\ UNCHANGED swept
  /\ UNCHANGED <<rows, request, announced, faults, unannounced>>

\* Faulty: the query leaves out the status.
ReadEnded(r) ==
  /\ sweep[r].at = "read"
  /\ IF sweep[r].now = {}
       THEN FinishSweep(r)
       ELSE /\ sweep' = [sweep EXCEPT ![r].at = "write", ![r].page = sweep[r].now]
            /\ UNCHANGED swept
  /\ UNCHANGED <<rows, request, announced, faults, unannounced>>

\* findMany: a subscription on trial is never in the list.
ReadExpired(r) ==
  LET list == Active \intersect sweep[r].now IN
  /\ sweep[r].at = "read"
  /\ IF list = {}
       THEN FinishSweep(r)
       ELSE /\ sweep' = [sweep EXCEPT ![r].at = "write", ![r].page = list]
            /\ UNCHANGED swept
  /\ UNCHANGED <<rows, request, announced, faults, unannounced>>

\* updateMany by id: whatever the status is by now.
WriteExpired(r) ==
  /\ sweep[r].at = "write"
  /\ subscription' =
       [p \in Pairs |-> IF p \in sweep[r].page THEN "EXPIRED" ELSE subscription[p]]
  /\ sweep' = [sweep EXCEPT ![r].at = "announce"]
  /\ UNCHANGED <<ended, request, announced, faults, history>>

\* Faulty: one event for the whole list.
AnnounceOne(r) ==
  /\ sweep[r].at = "announce"
  /\ \E p \in sweep[r].page : announced' = announced \union {p}
  /\ FinishSweep(r)
  /\ UNCHANGED <<rows, request, faults, unannounced>>

\* subscription:expired, for one row after the other.
Announce(r) ==
  /\ sweep[r].at = "announce"
  /\ \E p \in sweep[r].page :
       /\ announced' = announced \union {p}
       /\ IF sweep[r].page = {p}
            THEN FinishSweep(r)
            ELSE sweep' = [sweep EXCEPT ![r].page = @ \ {p}] /\ UNCHANGED swept
  /\ UNCHANGED <<rows, request, faults, unannounced>>

-----------------------------------------------------------------------------
(* Faults *)

Fault ==
  /\ faults < MaxFaults
  /\ faults' = faults + 1

\* What a sweep has written and not announced is not announced any more.
Unannounced(r) == IF sweep[r].at = "announce" THEN sweep[r].page ELSE {}

\* A database call throws.
RequestFails(c) ==
  /\ request[c].at # "idle"
  /\ Fault
  /\ FinishRequest(c)
  /\ UNCHANGED <<rows, sweep, announced, history>>

SweepFails(r) ==
  /\ sweep[r].at \in {"read", "write"}
  /\ Fault
  /\ sweep' = [sweep EXCEPT ![r] = NoSweep]
  /\ UNCHANGED <<rows, request, announced, history>>

\* The process dies and is restarted.
Restart ==
  /\ Fault
  /\ request' = [c \in Requests |-> NoRequest]
  /\ sweep' = [r \in Sweeps |-> NoSweep]
  /\ unannounced' = unannounced \union UNION {Unannounced(r) : r \in Sweeps}
  /\ UNCHANGED <<rows, announced, swept>>

-----------------------------------------------------------------------------

RequestStep(c) ==
  \/ \E p \in Pairs : (\E s \in {"ACTIVE", "TRIALING"} : BeginCreate(c, p, s)) \/ BeginCancel(c, p)
  \/ Insert(c)
  \/ Cancel(c)
  \/ RequestFails(c)

SweepStep(r) == ReadExpired(r) \/ WriteExpired(r) \/ Announce(r) \/ SweepFails(r)

Next ==
  \/ \E c \in Requests : RequestStep(c)
  \/ \E p \in Pairs : PeriodEnds(p)
  \/ \E r \in Sweeps : StartSweep(r) \/ SweepStep(r)
  \/ Restart

Spec == Init /\ [][Next]_vars

-----------------------------------------------------------------------------
(* Properties *)

\* Rows, calls and sweeps have values of their kinds; only a subscription that
\* exists has a period that can end.
TypeOK ==
  /\ subscription \in [Pairs -> Statuses \union {Absent}]
  /\ ended \subseteq Present
  /\ request \in [Requests -> RequestState]
  /\ \A c \in Requests : request[c].at # "idle" => request[c].pair \in Pairs
  /\ \A c \in Requests : request[c].at = "create" => request[c].status # "none"
  /\ sweep \in [Sweeps -> SweepState]
  /\ announced \subseteq Pairs
  /\ faults \in Nat
  /\ swept \subseteq Pairs
  /\ unannounced \subseteq Pairs

\* A sweep writes EXPIRED over a cancellation only if the two overlap: what
\* was no longer ACTIVE when the sweep began is not in its list, since no row
\* becomes ACTIVE again.
CancellationHolds ==
  \A r \in Sweeps : sweep[r].page \intersect sweep[r].over = {}

\* No premium beyond its period: what was over when a sweep began that then
\* completed is not ACTIVE, whatever was created, cancelled or swept since.
SweptIsOver == \A p \in swept : subscription[p] # "ACTIVE"

\* Every expiry is announced, or its sweep is on the way to do so or died;
\* and nothing else is: what was announced is EXPIRED, or cancelled since.
ExpiryIsAnnounced ==
  /\ \A p \in Pairs : subscription[p] = "EXPIRED" =>
       \/ p \in announced \union unannounced
       \/ \E r \in Sweeps : p \in Unannounced(r)
  /\ \A p \in announced : subscription[p] \in {"EXPIRED", "CANCELLED"}

\* What is over is swept in the end, unless it is cancelled before. (One on
\* trial is never swept: this is said of the ACTIVE only.)
EndedIsSwept ==
  \A p \in Pairs : p \in ended \intersect Active ~> p \notin Active
=============================================================================
