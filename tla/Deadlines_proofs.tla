--------------------------- MODULE Deadlines_proofs ---------------------------
(***************************************************************************)
(* Proofs about the two tasks of the scheduler, which share no state.      *)
(*                                                                         *)
(* Subscriptions, for any number of pairs, calls and sweeps.  The heart is *)
(* that no row becomes ACTIVE again: the insert of a pair that has a row   *)
(* fails.  So what was over when a sweep began stays over.                 *)
(*                                                                         *)
(* SlaEntries, for any number of entries, resolve calls and checks.  No    *)
(* entry becomes ACTIVE again, and a time of breach is never taken back:   *)
(* so the list of a check stays complete while it is treated, whatever is  *)
(* resolved or found late by another check meanwhile.                      *)
(***************************************************************************)
EXTENDS MCDeadlines, TLAPS

(***************************************************************************)
(*                             Subscriptions                               *)
(***************************************************************************)
\* A cancel call has found its row, and rows are never deleted.
RequestOK(c) == request[c].at = "cancel" => request[c].pair \in Present

\* What the locals of a sweep have to do with the rows.
SweepOK(r) ==
  /\ sweep[r].now \subseteq Present
  /\ sweep[r].over \subseteq Present \ Active
  /\ sweep[r].page \subseteq sweep[r].now \ sweep[r].over
  /\ sweep[r].at \in {"idle", "read"} => sweep[r].page = {}
  /\ sweep[r].at = "write" => sweep[r].now \intersect Active \subseteq sweep[r].page
  /\ sweep[r].at = "announce" =>
       /\ sweep[r].now \intersect Active = {}
       /\ \A p \in sweep[r].page : subscription[p] \in {"EXPIRED", "CANCELLED"}

IInv ==
  /\ TypeOK
  /\ \A c \in Requests : RequestOK(c)
  /\ \A r \in Sweeps : SweepOK(r)
  /\ swept \subseteq Present \ Active
  /\ ExpiryIsAnnounced

USE DEF Statuses, Absent, NoPair, RequestState, SweepState, NoRequest, NoSweep

LEMMA Initial == Init => IInv
BY DEF Init, IInv, TypeOK, RequestOK, SweepOK, ExpiryIsAnnounced, Unannounced, Present, Active

(***************************************************************************)
(* Requests: rows are added, or end; sweeps do not move.                   *)
(***************************************************************************)

\* A call begins or is given up: no row changes.
LEMMA RequestMoves ==
  ASSUME IInv, UNCHANGED <<rows, sweep, announced, history>>, faults' \in Nat,
         request' \in [Requests -> RequestState],
         \A c \in Requests : request'[c].at # "idle" => request'[c].pair \in Pairs,
         \A c \in Requests : request'[c].at = "create" => request'[c].status # "none",
         \A c \in Requests : RequestOK(c)'
  PROVE  IInv'
<1>1. TypeOK'
  BY DEF IInv, TypeOK, rows, history, Present
<1>2. \A r \in Sweeps : SweepOK(r)'
  BY DEF IInv, SweepOK, rows, Present, Active
<1>3. (swept \subseteq Present \ Active)' /\ ExpiryIsAnnounced'
  BY DEF IInv, ExpiryIsAnnounced, Unannounced, rows, history, Present, Active
<1> QED BY <1>1, <1>2, <1>3 DEF IInv

LEMMA BeginCreateStep ==
  ASSUME IInv, NEW c \in Requests, NEW p \in Pairs, NEW s \in {"ACTIVE", "TRIALING"},
         BeginCreate(c, p, s)
  PROVE  IInv'
<1>1. request' \in [Requests -> RequestState]
  BY DEF IInv, TypeOK, BeginCreate
<1>2. \A d \in Requests : RequestOK(d)'
  BY DEF IInv, TypeOK, BeginCreate, RequestOK, rows, Present
<1> QED BY <1>1, <1>2, RequestMoves DEF IInv, TypeOK, BeginCreate

LEMMA BeginCancelStep ==
  ASSUME IInv, NEW c \in Requests, NEW p \in Pairs, BeginCancel(c, p)
  PROVE  IInv'
<1>1. request' \in [Requests -> RequestState]
  BY DEF IInv, TypeOK, BeginCancel
<1>2. \A d \in Requests : RequestOK(d)'
  BY DEF IInv, TypeOK, BeginCancel, RequestOK, rows, Present
<1> QED BY <1>1, <1>2, RequestMoves DEF IInv, TypeOK, BeginCancel

LEMMA RequestFailsStep ==
  ASSUME IInv, NEW c \in Requests, RequestFails(c)
  PROVE  IInv'
<1>1. request' \in [Requests -> RequestState]
  BY DEF IInv, TypeOK, RequestFails, FinishRequest
<1>2. \A d \in Requests : RequestOK(d)'
  BY DEF IInv, TypeOK, RequestFails, FinishRequest, RequestOK, rows, Present
<1>3. faults' \in Nat
  BY DEF IInv, TypeOK, RequestFails, Fault
<1> QED BY <1>1, <1>2, <1>3, RequestMoves DEF IInv, TypeOK, RequestFails, FinishRequest

\* Rows are inserted or cancelled, and no row becomes ACTIVE again.
LEMMA RowsMove ==
  ASSUME IInv, UNCHANGED <<ended, sweep, announced, faults, history>>,
         NEW c \in Requests, request' = [request EXCEPT ![c] = NoRequest],
         subscription' \in [Pairs -> Statuses \union {Absent}],
         Present \subseteq Present',
         \A p \in Present : subscription'[p] \in {subscription[p], "CANCELLED"},
         \A p \in Pairs \ Present : subscription'[p] # "EXPIRED"
  PROVE  IInv'
<1>1. TypeOK'
  BY DEF IInv, TypeOK, history
<1>2. \A d \in Requests : RequestOK(d)'
  BY DEF IInv, TypeOK, RequestOK
<1>3. (Present \ Active) \subseteq (Present \ Active)'
  BY DEF Present, Active
<1>4. Present \intersect Active' \subseteq Active
  BY DEF Present, Active
<1>5. ASSUME NEW r \in Sweeps PROVE SweepOK(r)'
  <2>1. SweepOK(r) /\ sweep[r] \in SweepState
    BY DEF IInv, TypeOK
  <2>2. \A p \in sweep[r].page : p \in Present /\ subscription'[p] \in {subscription[p], "CANCELLED"}
    BY <2>1 DEF SweepOK
  <2> QED BY <2>1, <2>2, <1>3, <1>4 DEF SweepOK
<1>6. (swept \subseteq Present \ Active)'
  BY <1>3 DEF IInv, history
<1>7. ExpiryIsAnnounced'
  <2>1. \A p \in announced : p \in Present
    BY DEF IInv, TypeOK, ExpiryIsAnnounced, Present
  <2>2. \A p \in Pairs : subscription'[p] = "EXPIRED" => subscription[p] = "EXPIRED"
    BY DEF Present
  <2> QED BY <2>1, <2>2 DEF IInv, TypeOK, ExpiryIsAnnounced, Unannounced, history
<1> QED BY <1>1, <1>2, <1>5, <1>6, <1>7 DEF IInv

LEMMA InsertStep ==
  ASSUME IInv, NEW c \in Requests, Insert(c)
  PROVE  IInv'
<1> DEFINE p == request[c].pair
<1>1. p \in Pairs /\ request[c].status \in {"ACTIVE", "TRIALING"}
  BY DEF IInv, TypeOK, Insert
<1>2. CASE p \in Present
  BY <1>2, RowsMove DEF IInv, TypeOK, Insert, FinishRequest, Present
<1>3. CASE p \notin Present
  <2>1. subscription' = [subscription EXCEPT ![p] = request[c].status]
    BY <1>3 DEF Insert
  <2>2. subscription' \in [Pairs -> Statuses \union {Absent}]
    BY <1>1, <2>1 DEF IInv, TypeOK
  <2>3. /\ Present \subseteq Present'
        /\ \A q \in Present : subscription'[q] = subscription[q]
        /\ \A q \in Pairs \ Present : subscription'[q] # "EXPIRED"
    BY <1>1, <1>3, <2>1 DEF IInv, TypeOK, Present
  <2> QED BY <2>2, <2>3, RowsMove DEF Insert, FinishRequest
<1> QED BY <1>2, <1>3

LEMMA CancelStep ==
  ASSUME IInv, NEW c \in Requests, Cancel(c)
  PROVE  IInv'
<1> DEFINE p == request[c].pair
<1>1. p \in Present
  BY DEF IInv, RequestOK, Cancel
<1>2. subscription' = [subscription EXCEPT ![p] = "CANCELLED"]
  BY DEF Cancel
<1>3. subscription' \in [Pairs -> Statuses \union {Absent}]
  BY <1>2 DEF IInv, TypeOK
<1>4. /\ Present \subseteq Present'
      /\ \A q \in Present : subscription'[q] \in {subscription[q], "CANCELLED"}
      /\ \A q \in Pairs \ Present : subscription'[q] # "EXPIRED"
  BY <1>1, <1>2 DEF IInv, TypeOK, Present
<1> QED BY <1>3, <1>4, RowsMove DEF Cancel, FinishRequest

LEMMA PeriodEndsStep ==
  ASSUME IInv, NEW p \in Pairs, PeriodEnds(p)
  PROVE  IInv'
<1>1. TypeOK' /\ \A c \in Requests : RequestOK(c)'
  BY DEF IInv, TypeOK, PeriodEnds, RequestOK, history, Present
<1>2. \A r \in Sweeps : SweepOK(r)'
  BY DEF IInv, SweepOK, PeriodEnds, Present, Active
<1>3. (swept \subseteq Present \ Active)' /\ ExpiryIsAnnounced'
  BY DEF IInv, ExpiryIsAnnounced, Unannounced, PeriodEnds, history, Present, Active
<1> QED BY <1>1, <1>2, <1>3 DEF IInv

(***************************************************************************)
(* Sweeps: one of them moves.                                              *)
(***************************************************************************)

LEMMA StartSweepStep ==
  ASSUME IInv, NEW r \in Sweeps, StartSweep(r)
  PROVE  IInv'
<1> DEFINE s == [at |-> "read", now |-> ended, over |-> Present \ Active, page |-> {}]
<1>1. sweep' = [sweep EXCEPT ![r] = s]
  BY DEF StartSweep
<1>2. s \in SweepState
  BY DEF IInv, TypeOK, Present
<1>3. TypeOK' /\ \A c \in Requests : RequestOK(c)'
  BY <1>1, <1>2 DEF IInv, TypeOK, StartSweep, rows, history, RequestOK, Present
<1>4. ASSUME NEW q \in Sweeps PROVE SweepOK(q)'
  <2>1. CASE q = r
    <3>1. sweep'[q] = s
      BY <1>1, <2>1 DEF IInv, TypeOK
    <3> QED BY <3>1 DEF IInv, TypeOK, SweepOK, StartSweep, rows, Present, Active
  <2>2. CASE q # r
    BY <1>1, <2>2 DEF IInv, TypeOK, SweepOK, StartSweep, rows, Present, Active
  <2> QED BY <2>1, <2>2
<1>5. ExpiryIsAnnounced'
  <2>1. \A q \in Sweeps : Unannounced(q)' = Unannounced(q)
    BY <1>1 DEF IInv, TypeOK, Unannounced, StartSweep
  <2> QED BY <2>1 DEF IInv, ExpiryIsAnnounced, StartSweep, rows, history
<1>6. (swept \subseteq Present \ Active)'
  BY DEF IInv, StartSweep, rows, history, Present, Active
<1> QED BY <1>3, <1>4, <1>5, <1>6 DEF IInv

\* A sweep that moves to a state s that is in order.
LEMMA SweepMoves ==
  ASSUME IInv, NEW r \in Sweeps, NEW s \in SweepState, sweep' = [sweep EXCEPT ![r] = s],
         UNCHANGED <<rows, request>>, faults' \in Nat, SweepOK(r)',
         announced' \subseteq Pairs, unannounced' \subseteq Pairs,
         swept' \subseteq Present \ Active, ExpiryIsAnnounced'
  PROVE  IInv'
<1>1. TypeOK' /\ \A c \in Requests : RequestOK(c)'
  BY DEF IInv, TypeOK, rows, RequestOK, Present
<1>2. ASSUME NEW q \in Sweeps, q # r PROVE SweepOK(q)'
  BY <1>2 DEF IInv, TypeOK, SweepOK, rows, Present, Active
<1>3. (swept \subseteq Present \ Active)'
  BY DEF rows, Present, Active
<1> QED BY <1>1, <1>2, <1>3 DEF IInv

\* When a sweep finishes, what was over as it began is not ACTIVE.
LEMMA FinishedIsOver ==
  ASSUME IInv, NEW r \in Sweeps, sweep[r].now \intersect Active = {}
  PROVE  swept \union sweep[r].now \subseteq Present \ Active
BY DEF IInv, SweepOK

LEMMA ReadExpiredStep ==
  ASSUME IInv, NEW r \in Sweeps, ReadExpired(r)
  PROVE  IInv'
<1> DEFINE list == Active \intersect sweep[r].now
           s == [sweep[r] EXCEPT !.at = "write", !.page = list]
<1>0. SweepOK(r) /\ sweep[r] \in SweepState /\ sweep[r].at = "read"
  BY DEF IInv, TypeOK, ReadExpired
<1>1. CASE list = {}
  <2>1. sweep' = [sweep EXCEPT ![r] = NoSweep] /\ swept' = swept \union sweep[r].now
    BY <1>1 DEF ReadExpired, FinishSweep
  <2>2. SweepOK(r)'
    BY <2>1 DEF IInv, TypeOK, SweepOK
  <2>3. ExpiryIsAnnounced'
    <3>1. \A q \in Sweeps : Unannounced(q)' = Unannounced(q)
      BY <1>0, <2>1 DEF IInv, TypeOK, Unannounced
    <3> QED BY <3>1 DEF IInv, ExpiryIsAnnounced, ReadExpired, rows
  <2>4. swept' \subseteq Present \ Active
    BY <1>1, <2>1, FinishedIsOver
  <2> QED BY <2>1, <2>2, <2>3, <2>4, SweepMoves DEF IInv, TypeOK, ReadExpired
<1>2. CASE list # {}
  <2>1. sweep' = [sweep EXCEPT ![r] = s] /\ UNCHANGED swept
    BY <1>2 DEF ReadExpired
  <2>2. s \in SweepState
    BY <1>0 DEF Active
  <2>3. SweepOK(r)'
    <3>1. sweep'[r] = s
      BY <2>1 DEF IInv, TypeOK
    <3>2. UNCHANGED <<Present, Active, subscription>>
      BY DEF ReadExpired, rows, Present, Active
    <3> QED BY <1>0, <3>1, <3>2 DEF SweepOK
  <2>4. ExpiryIsAnnounced'
    <3>1. \A q \in Sweeps : Unannounced(q)' = Unannounced(q)
      BY <1>0, <2>1 DEF IInv, TypeOK, Unannounced
    <3> QED BY <3>1 DEF IInv, ExpiryIsAnnounced, ReadExpired, rows
  <2> QED BY <2>1, <2>2, <2>3, <2>4, SweepMoves DEF IInv, TypeOK, ReadExpired
<1> QED BY <1>1, <1>2

LEMMA WriteExpiredStep ==
  ASSUME IInv, NEW r \in Sweeps, WriteExpired(r)
  PROVE  IInv'
<1> DEFINE list == sweep[r].page
           s == [sweep[r] EXCEPT !.at = "announce"]
<1>0. SweepOK(r) /\ sweep[r] \in SweepState /\ sweep[r].at = "write"
  BY DEF IInv, TypeOK, WriteExpired
<1>1. /\ sweep' = [sweep EXCEPT ![r] = s] /\ s \in SweepState
      /\ sweep'[r] = s /\ s.at = "announce" /\ s.now = sweep[r].now
      /\ s.over = sweep[r].over /\ s.page = list
  BY <1>0 DEF WriteExpired, IInv, TypeOK
<1> HIDE DEF s
<1>2. list \subseteq Present /\ list \subseteq Pairs
  BY <1>0 DEF SweepOK
<1>3. \A p \in Pairs : subscription'[p] = IF p \in list THEN "EXPIRED" ELSE subscription[p]
  BY DEF WriteExpired
<1>4. Present' = Present /\ Active' = Active \ list
  BY <1>2, <1>3 DEF Present, Active, IInv, TypeOK
<1>5. TypeOK'
  <2>1. subscription' \in [Pairs -> Statuses \union {Absent}]
    BY DEF WriteExpired, IInv, TypeOK
  <2> QED BY <1>1, <1>4, <2>1 DEF WriteExpired, IInv, TypeOK, history
<1>6. \A c \in Requests : RequestOK(c)'
  BY <1>4 DEF IInv, RequestOK, WriteExpired
<1>7. ASSUME NEW q \in Sweeps PROVE SweepOK(q)'
  <2>1. CASE q = r
    BY <1>0, <1>1, <1>2, <1>3, <1>4, <2>1 DEF SweepOK
  <2>2. CASE q # r
    <3>1. sweep'[q] = sweep[q] /\ sweep[q].page \subseteq Pairs
      BY <1>1, <2>2 DEF IInv, TypeOK
    <3>2. SweepOK(q)
      BY DEF IInv
    <3> QED BY <1>3, <1>4, <3>1, <3>2 DEF SweepOK
  <2> QED BY <2>1, <2>2
<1>8. (swept \subseteq Present \ Active)'
  BY <1>4 DEF IInv, WriteExpired, history
<1>9. ExpiryIsAnnounced'
  <2>1. \A q \in Sweeps : Unannounced(q) \subseteq Unannounced(q)'
    BY <1>0, <1>1 DEF IInv, TypeOK, Unannounced
  <2>2. Unannounced(r)' = list
    BY <1>1 DEF Unannounced
  <2> QED BY <1>3, <2>1, <2>2 DEF IInv, TypeOK, ExpiryIsAnnounced, WriteExpired, history
<1> QED BY <1>5, <1>6, <1>7, <1>8, <1>9 DEF IInv

LEMMA AnnounceStep ==
  ASSUME IInv, NEW r \in Sweeps, Announce(r)
  PROVE  IInv'
<1>0. SweepOK(r) /\ sweep[r] \in SweepState /\ sweep[r].at = "announce"
  BY DEF IInv, TypeOK, Announce
<1>1. PICK p \in sweep[r].page :
        /\ announced' = announced \union {p}
        /\ IF sweep[r].page = {p}
             THEN FinishSweep(r)
             ELSE sweep' = [sweep EXCEPT ![r].page = @ \ {p}] /\ UNCHANGED swept
  BY DEF Announce
<1>2. p \in Pairs /\ subscription[p] \in {"EXPIRED", "CANCELLED"}
  BY <1>0 DEF SweepOK
<1> DEFINE s == [sweep[r] EXCEPT !.page = @ \ {p}]
<1>3. s \in SweepState
  BY <1>0
<1>4. CASE sweep[r].page = {p}
  <2>1. sweep' = [sweep EXCEPT ![r] = NoSweep] /\ swept' = swept \union sweep[r].now
    BY <1>1, <1>4 DEF FinishSweep
  <2>2. SweepOK(r)'
    BY <2>1 DEF IInv, TypeOK, SweepOK
  <2>3. ExpiryIsAnnounced'
    <3>1. \A q \in Sweeps : Unannounced(q) \subseteq Unannounced(q)' \union {p}
      BY <1>0, <1>4, <2>1 DEF IInv, TypeOK, Unannounced
    <3> QED BY <1>1, <1>2, <3>1 DEF IInv, ExpiryIsAnnounced, Announce, rows
  <2>4. swept' \subseteq Present \ Active
    BY <1>0, <2>1, FinishedIsOver DEF SweepOK
  <2> QED BY <1>1, <1>2, <2>1, <2>2, <2>3, <2>4, SweepMoves DEF IInv, TypeOK, Announce
<1>5. CASE sweep[r].page # {p}
  <2>1. sweep' = [sweep EXCEPT ![r] = s] /\ UNCHANGED swept
    BY <1>1, <1>5
  <2>2. SweepOK(r)'
    <3>1. sweep'[r] = s
      BY <2>1 DEF IInv, TypeOK
    <3>2. UNCHANGED <<Present, Active, subscription>>
      BY DEF Announce, rows, Present, Active
    <3> QED BY <1>0, <3>1, <3>2 DEF SweepOK
  <2>3. ExpiryIsAnnounced'
    <3>1. \A q \in Sweeps : Unannounced(q) \subseteq Unannounced(q)' \union {p}
      BY <1>0, <2>1 DEF IInv, TypeOK, Unannounced
    <3> QED BY <1>1, <1>2, <3>1 DEF IInv, ExpiryIsAnnounced, Announce, rows
  <2> QED BY <1>1, <1>2, <1>3, <2>1, <2>2, <2>3, SweepMoves DEF IInv, TypeOK, Announce
<1> QED BY <1>4, <1>5

(***************************************************************************)
(* Faults                                                                  *)
(***************************************************************************)

LEMMA SweepFailsStep ==
  ASSUME IInv, NEW r \in Sweeps, SweepFails(r)
  PROVE  IInv'
<1>1. sweep' = [sweep EXCEPT ![r] = NoSweep] /\ faults' \in Nat
  BY DEF SweepFails, Fault, IInv, TypeOK
<1>2. SweepOK(r)'
  BY <1>1 DEF IInv, TypeOK, SweepOK
<1>3. ExpiryIsAnnounced'
  <2>1. \A q \in Sweeps : Unannounced(q)' = Unannounced(q)
    BY <1>1 DEF IInv, TypeOK, Unannounced, SweepFails
  <2> QED BY <2>1 DEF IInv, ExpiryIsAnnounced, SweepFails, rows, history
<1> QED BY <1>1, <1>2, <1>3, SweepMoves DEF IInv, TypeOK, SweepFails, history

LEMMA RestartStep ==
  ASSUME IInv, Restart
  PROVE  IInv'
<1>1. UNION {Unannounced(r) : r \in Sweeps} \subseteq Pairs
  BY DEF IInv, TypeOK, Unannounced
<1>2. TypeOK' /\ \A c \in Requests : RequestOK(c)'
  BY <1>1 DEF Restart, Fault, IInv, TypeOK, RequestOK, rows, Present
<1>3. \A r \in Sweeps : SweepOK(r)'
  BY DEF Restart, SweepOK
<1>4. (swept \subseteq Present \ Active)'
  BY DEF IInv, Restart, rows, Present, Active
<1>5. ExpiryIsAnnounced'
  <2>1. \A r \in Sweeps : Unannounced(r) \subseteq unannounced'
    BY DEF Restart
  <2> QED BY <2>1 DEF IInv, ExpiryIsAnnounced, Restart, rows
<1> QED BY <1>2, <1>3, <1>4, <1>5 DEF IInv

-----------------------------------------------------------------------------

LEMMA Step == IInv /\ [Next]_vars => IInv'
<1> SUFFICES ASSUME IInv, [Next]_vars PROVE IInv'
  OBVIOUS
<1>1. ASSUME NEW c \in Requests, RequestStep(c) PROVE IInv'
  BY <1>1, BeginCreateStep, BeginCancelStep, InsertStep, CancelStep, RequestFailsStep
     DEF RequestStep
<1>2. ASSUME NEW p \in Pairs, PeriodEnds(p) PROVE IInv'
  BY <1>2, PeriodEndsStep
<1>3. ASSUME NEW r \in Sweeps, StartSweep(r) \/ SweepStep(r) PROVE IInv'
  BY <1>3, StartSweepStep, ReadExpiredStep, WriteExpiredStep, AnnounceStep, SweepFailsStep
     DEF SweepStep
<1>4. CASE Restart
  BY <1>4, RestartStep
<1>5. CASE UNCHANGED vars
  <2>1. TypeOK' /\ \A c \in Requests : RequestOK(c)'
    BY <1>5 DEF vars, rows, history, IInv, TypeOK, RequestOK, Present
  <2>2. \A r \in Sweeps : SweepOK(r)'
    BY <1>5 DEF vars, rows, IInv, SweepOK, Present, Active
  <2>3. (swept \subseteq Present \ Active)' /\ ExpiryIsAnnounced'
    BY <1>5 DEF vars, rows, history, IInv, ExpiryIsAnnounced, Unannounced, Present, Active
  <2> QED BY <2>1, <2>2, <2>3 DEF IInv
<1> QED BY <1>1, <1>2, <1>3, <1>4, <1>5 DEF Next

LEMMA Invariance == Spec => []IInv
BY Initial, Step, PTL DEF Spec

\* Every reachable state of the subscriptions is well typed.
THEOREM TypeCorrect == Spec => []TypeOK
<1>1. IInv => TypeOK BY DEF IInv
<1> QED BY <1>1, Invariance, PTL

\* A sweep expires nothing that was cancelled before it began, for any number
\* of sweeps and calls at once.
THEOREM CancellationIsRespected == Spec => []CancellationHolds
<1>1. IInv => CancellationHolds BY DEF IInv, SweepOK, CancellationHolds
<1> QED BY <1>1, Invariance, PTL

\* What a completed sweep found over is never ACTIVE again.
THEOREM SweepsAreFinal == Spec => []SweptIsOver
<1>1. IInv => SweptIsOver BY DEF IInv, SweptIsOver, Present, Active, TypeOK
<1> QED BY <1>1, Invariance, PTL

\* Expiries and their announcements agree.
THEOREM ExpiriesAreAnnounced == Spec => []ExpiryIsAnnounced
<1>1. IInv => ExpiryIsAnnounced BY DEF IInv
<1> QED BY <1>1, Invariance, PTL

(***************************************************************************)
(*                              SLA entries                                *)
(***************************************************************************)
\* What the locals of a check have to do with the rows.
CheckOK(r) ==
  /\ check[r].now \subseteq late
  /\ check[r].done \subseteq Started \ Running
  /\ check[r].page \subseteq check[r].now \ check[r].done
  /\ check[r].at \in {"idle", "read"} => check[r].page = {}
  /\ check[r].at \in {"loop", "alarm"} =>
       /\ check[r].due \subseteq check[r].page \union breachedAt
       /\ check[r].due \intersect Running \subseteq check[r].page
  /\ check[r].at = "alarm" => check[r].cur \in breachedAt

\* The time of breach says no less than the status.
BreachesDated ==
  /\ \A e \in Entries : sla[e] = "BREACHED" => e \in breachedAt
  /\ breachedAt \intersect Running = {}

SlaIInv ==
  /\ SlaTypeOK
  /\ \A r \in Checks : CheckOK(r)
  /\ BreachesDated
  /\ CheckedIsBreached
  /\ BreachIsAnnounced

USE DEF SlaStatuses, NotStarted, NoEntry, CheckState, NoCheck

LEMMA SlaInitial == SlaInit => SlaIInv
BY DEF SlaInit, SlaIInv, SlaTypeOK, CheckOK, BreachesDated, CheckedIsBreached, BreachIsAnnounced,
       Started, Running

(***************************************************************************)
(* The staff and the clock                                                 *)
(***************************************************************************)

\* Entries are added, become late or are resolved; checks do not move.
LEMMA EntriesMove ==
  ASSUME SlaIInv, UNCHANGED <<breachedAt, check, alarmed, slaHistory>>, SlaTypeOK',
         late \subseteq late', Started \subseteq Started',
         Started \intersect Running' \subseteq Running,
         \A e \in Entries : sla'[e] = "BREACHED" => sla[e] = "BREACHED"
  PROVE  SlaIInv'
<1>1. breachedAt \subseteq Started /\ Started \subseteq Entries /\ late \subseteq Started
  BY DEF SlaIInv, SlaTypeOK, Started
<1>2. ASSUME NEW r \in Checks PROVE CheckOK(r)'
  <2>1. CheckOK(r) /\ check[r] \in CheckState
    BY DEF SlaIInv, SlaTypeOK
  <2>2. check[r].at \in {"loop", "alarm"} =>
          check[r].due \intersect Running' \subseteq check[r].page
    BY <1>1, <2>1 DEF CheckOK
  <2>3. check[r].done \subseteq (Started \ Running)'
    BY <2>1 DEF CheckOK
  <2> QED BY <2>1, <2>2, <2>3 DEF CheckOK
<1>3. BreachesDated'
  BY <1>1 DEF SlaIInv, BreachesDated
<1>4. CheckedIsBreached' /\ BreachIsAnnounced'
  BY <1>1 DEF SlaIInv, CheckedIsBreached, BreachIsAnnounced, slaHistory
<1> QED BY <1>2, <1>3, <1>4 DEF SlaIInv

LEMMA StartSlaStep ==
  ASSUME SlaIInv, NEW e \in Entries, StartSla(e)
  PROVE  SlaIInv'
<1>1. sla' = [sla EXCEPT ![e] = "ACTIVE"] /\ sla[e] = "unstarted"
  BY DEF StartSla, Started
<1>2. /\ Started \subseteq Started'
      /\ Started \intersect Running' \subseteq Running
      /\ \A f \in Entries : sla'[f] = "BREACHED" => sla[f] = "BREACHED"
  BY <1>1 DEF SlaIInv, SlaTypeOK, Started, Running
<1>3. SlaTypeOK'
  BY <1>1, <1>2 DEF SlaIInv, SlaTypeOK, StartSla, slaHistory
<1> QED BY <1>2, <1>3, EntriesMove DEF StartSla, slaHistory

LEMMA DeadlinePassesStep ==
  ASSUME SlaIInv, NEW e \in Entries, DeadlinePasses(e)
  PROVE  SlaIInv'
<1>1. UNCHANGED <<Started, Running>>
  BY DEF DeadlinePasses, Started, Running
<1>2. SlaTypeOK'
  BY <1>1 DEF SlaIInv, SlaTypeOK, DeadlinePasses, slaHistory
<1> QED BY <1>1, <1>2, EntriesMove DEF DeadlinePasses, slaHistory

LEMMA BeginResolveStep ==
  ASSUME SlaIInv, NEW c \in Resolvers, NEW e \in Entries, BeginResolve(c, e)
  PROVE  SlaIInv'
<1>1. UNCHANGED <<Started, Running>>
  BY DEF BeginResolve, columns, Started, Running
<1>2. SlaTypeOK'
  BY <1>1 DEF SlaIInv, SlaTypeOK, BeginResolve, columns, slaHistory
<1> QED BY <1>1, <1>2, EntriesMove DEF BeginResolve, columns, slaHistory

LEMMA ResolveStep ==
  ASSUME SlaIInv, NEW c \in Resolvers, Resolve(c)
  PROVE  SlaIInv'
<1> DEFINE e == resolver[c]
<1>1. sla' = [sla EXCEPT ![e] = "RESOLVED"] /\ e \in Started
  BY DEF Resolve, SlaIInv, SlaTypeOK
<1>2. /\ Started' = Started
      /\ Started \intersect Running' \subseteq Running
      /\ \A f \in Entries : sla'[f] = "BREACHED" => sla[f] = "BREACHED"
  BY <1>1 DEF SlaIInv, SlaTypeOK, Started, Running
<1>3. SlaTypeOK'
  BY <1>1, <1>2 DEF SlaIInv, SlaTypeOK, Resolve, slaHistory
<1> QED BY <1>2, <1>3, EntriesMove DEF Resolve, slaHistory

LEMMA ResolveFailsStep ==
  ASSUME SlaIInv, NEW c \in Resolvers, ResolveFails(c)
  PROVE  SlaIInv'
<1>1. UNCHANGED <<Started, Running>>
  BY DEF ResolveFails, columns, Started, Running
<1>2. SlaTypeOK'
  BY <1>1 DEF SlaIInv, SlaTypeOK, ResolveFails, Mishap, columns, slaHistory
<1> QED BY <1>1, <1>2, EntriesMove DEF ResolveFails, columns, slaHistory

(***************************************************************************)
(* Checks: one of them moves.                                              *)
(***************************************************************************)

LEMMA CheckMoves ==
  ASSUME SlaIInv, NEW r \in Checks, NEW k \in CheckState, check' = [check EXCEPT ![r] = k],
         UNCHANGED <<columns, resolver>>, mishaps' \in Nat, CheckOK(r)',
         alarmed' \subseteq breachedAt, silent' \subseteq Entries,
         checked' \subseteq breachedAt, BreachIsAnnounced'
  PROVE  SlaIInv'
<1>1. UNCHANGED <<Started, Running, breachedAt, late, sla>>
  BY DEF columns, Started, Running
<1>2. SlaTypeOK'
  BY <1>1 DEF SlaIInv, SlaTypeOK, columns, Started
<1>3. ASSUME NEW q \in Checks, q # r PROVE CheckOK(q)'
  <2>1. check'[q] = check[q]
    BY <1>3 DEF SlaIInv, SlaTypeOK
  <2> QED BY <1>1, <2>1 DEF SlaIInv, CheckOK
<1>4. BreachesDated' /\ CheckedIsBreached'
  BY <1>1 DEF SlaIInv, BreachesDated, CheckedIsBreached
<1> QED BY <1>2, <1>3, <1>4 DEF SlaIInv

LEMMA StartCheckStep ==
  ASSUME SlaIInv, NEW r \in Checks, StartCheck(r)
  PROVE  SlaIInv'
<1> DEFINE k == [NoCheck EXCEPT !.at = "read", !.now = late, !.done = Resolved]
<1>1. check' = [check EXCEPT ![r] = k]
  BY DEF StartCheck
<1>2. k \in CheckState
  BY DEF SlaIInv, SlaTypeOK, Resolved, Started
<1>3. CheckOK(r)'
  <2>1. check'[r] = k
    BY <1>1 DEF SlaIInv, SlaTypeOK
  <2> QED BY <2>1 DEF CheckOK, StartCheck, columns, Resolved, Started, Running
<1>4. BreachIsAnnounced'
  BY <1>1 DEF SlaIInv, SlaTypeOK, BreachIsAnnounced, StartCheck, columns, slaHistory
<1> QED BY <1>1, <1>2, <1>3, <1>4, CheckMoves
    DEF SlaIInv, SlaTypeOK, StartCheck, CheckedIsBreached, slaHistory

\* On to a list of which nothing that had to be found is missing.
LEMMA LoopMoves ==
  ASSUME SlaIInv, NEW r \in Checks, NEW d \in SUBSET Entries, NEW rest \in SUBSET Entries,
         Loop(r, d, rest), UNCHANGED <<columns, resolver, mishaps, silent>>,
         rest \subseteq check[r].now \ check[r].done,
         d \subseteq rest \union breachedAt, d \intersect Running \subseteq rest,
         alarmed' \subseteq breachedAt,
         \A e \in breachedAt : e \in alarmed' \union silent
           \/ \E q \in Checks \ {r} : check[q].at = "alarm" /\ check[q].cur = e
  PROVE  SlaIInv'
<1> DEFINE k == IF rest = {} THEN NoCheck
                ELSE [check[r] EXCEPT !.at = "loop", !.due = d, !.page = rest, !.cur = NoEntry]
<1>1. check' = [check EXCEPT ![r] = k]
  BY DEF Loop
<1>2. k \in CheckState
  <2>1. check[r] \in CheckState
    BY DEF SlaIInv, SlaTypeOK
  <2> QED BY <2>1
<1>3. check'[r] = k
  BY <1>1 DEF SlaIInv, SlaTypeOK
<1>4. UNCHANGED <<Started, Running, breachedAt, late>>
  BY DEF columns, Started, Running
<1>5. CheckOK(r)'
  <2>1. CASE rest = {}
    BY <1>3, <2>1 DEF CheckOK
  <2>2. CASE rest # {}
    <3>1. CheckOK(r) /\ check[r] \in CheckState
      BY DEF SlaIInv, SlaTypeOK
    <3> QED BY <1>3, <1>4, <2>2, <3>1 DEF CheckOK
  <2> QED BY <2>1, <2>2
<1>6. checked' \subseteq breachedAt
  BY DEF Loop, SlaIInv, CheckedIsBreached
<1>7. BreachIsAnnounced'
  BY <1>1, <1>4 DEF SlaIInv, SlaTypeOK, BreachIsAnnounced
<1> QED BY <1>1, <1>2, <1>5, <1>6, <1>7, CheckMoves DEF SlaIInv, SlaTypeOK

LEMMA ReadActiveStep ==
  ASSUME SlaIInv, NEW r \in Checks, ReadActive(r)
  PROVE  SlaIInv'
<1> DEFINE d == check[r].now \ Resolved
           rest == (Running \intersect check[r].now) \ breachedAt
<1>1. CheckOK(r) /\ check[r] \in CheckState /\ check[r].at = "read"
  BY DEF SlaIInv, SlaTypeOK, ReadActive
<1>2. d \subseteq Entries /\ rest \subseteq Entries
  BY <1>1
<1>3. rest \subseteq check[r].now \ check[r].done
  BY <1>1 DEF CheckOK
<1>4. d \subseteq rest \union breachedAt
  <2>1. d \subseteq Started \ Resolved
    BY <1>1 DEF CheckOK, SlaIInv, SlaTypeOK
  <2> QED BY <2>1 DEF SlaIInv, BreachesDated, SlaTypeOK, Started, Running, Resolved
<1>5. d \intersect Running \subseteq rest
  BY DEF SlaIInv, BreachesDated
<1>6. \A e \in breachedAt : e \in alarmed' \union silent
        \/ \E q \in Checks \ {r} : check[q].at = "alarm" /\ check[q].cur = e
  BY <1>1 DEF SlaIInv, BreachIsAnnounced, ReadActive
<1> QED BY <1>2, <1>3, <1>4, <1>5, <1>6, LoopMoves DEF ReadActive, SlaIInv, SlaTypeOK

LEMMA BreachStep ==
  ASSUME SlaIInv, NEW r \in Checks, Breach(r)
  PROVE  SlaIInv'
<1>1. PICK e \in check[r].page :
        /\ sla' = [sla EXCEPT ![e] = "BREACHED"]
        /\ breachedAt' = breachedAt \union {e}
        /\ check' = [check EXCEPT ![r].at = "alarm", ![r].cur = e, ![r].page = @ \ {e}]
  BY DEF Breach
<1> DEFINE k == [check[r] EXCEPT !.at = "alarm", !.cur = e, !.page = @ \ {e}]
<1>2. CheckOK(r) /\ check[r] \in CheckState /\ check[r].at = "loop"
  BY DEF SlaIInv, SlaTypeOK, Breach
<1>3. e \in Entries /\ e \in late /\ e \in Started
  BY <1>2 DEF CheckOK, SlaIInv, SlaTypeOK
<1>4. /\ check' = [check EXCEPT ![r] = k] /\ k \in CheckState /\ check'[r] = k
      /\ k.at = "alarm" /\ k.cur = e /\ k.page = check[r].page \ {e}
      /\ k.now = check[r].now /\ k.done = check[r].done /\ k.due = check[r].due
  BY <1>1, <1>2, <1>3 DEF SlaIInv, SlaTypeOK
<1> HIDE DEF k
<1>5. Started' = Started /\ Running' = Running \ {e} /\ UNCHANGED <<late, alarmed, slaHistory>>
  BY <1>1, <1>3 DEF SlaIInv, SlaTypeOK, Started, Running, Breach
<1>6. SlaTypeOK'
  BY <1>1, <1>3, <1>4, <1>5 DEF SlaIInv, SlaTypeOK, Breach, slaHistory
<1>7. ASSUME NEW q \in Checks PROVE CheckOK(q)'
  <2>1. CASE q = r
    BY <1>1, <1>2, <1>4, <1>5, <2>1 DEF CheckOK
  <2>2. CASE q # r
    <3>1. check'[q] = check[q] /\ CheckOK(q)
      BY <1>4, <2>2 DEF SlaIInv, SlaTypeOK
    <3>2. breachedAt \subseteq breachedAt' /\ Running' \subseteq Running
      BY <1>1, <1>5
    <3>3. check[q].done \subseteq (Started \ Running)'
      BY <1>5, <3>1 DEF CheckOK
    <3> QED BY <1>5, <3>1, <3>2, <3>3 DEF CheckOK
  <2> QED BY <2>1, <2>2
<1>8. BreachesDated' /\ CheckedIsBreached'
  BY <1>1, <1>3, <1>5 DEF SlaIInv, SlaTypeOK, BreachesDated, CheckedIsBreached, slaHistory
<1>9. BreachIsAnnounced'
  <2>1. ASSUME NEW f \in breachedAt
        PROVE  f \in alarmed' \union silent'
               \/ \E q \in Checks : check'[q].at = "alarm" /\ check'[q].cur = f
    <3>1. CASE f \in alarmed \union silent
      BY <1>5, <3>1 DEF slaHistory
    <3>2. CASE \E q \in Checks : check[q].at = "alarm" /\ check[q].cur = f
      BY <1>2, <1>4, <3>2 DEF SlaIInv, SlaTypeOK
    <3> QED BY <3>1, <3>2 DEF SlaIInv, BreachIsAnnounced
  <2>2. check'[r].at = "alarm" /\ check'[r].cur = e
    BY <1>4
  <2> QED BY <1>1, <2>1, <2>2 DEF BreachIsAnnounced
<1> QED BY <1>6, <1>7, <1>8, <1>9 DEF SlaIInv

LEMMA AlarmStep ==
  ASSUME SlaIInv, NEW r \in Checks, Alarm(r)
  PROVE  SlaIInv'
<1>1. CheckOK(r) /\ check[r] \in CheckState /\ check[r].at = "alarm"
  BY DEF SlaIInv, SlaTypeOK, Alarm
<1>2. alarmed' \subseteq breachedAt
  BY <1>1 DEF CheckOK, Alarm, SlaIInv, SlaTypeOK
<1>3. \A e \in breachedAt : e \in alarmed' \union silent
        \/ \E q \in Checks \ {r} : check[q].at = "alarm" /\ check[q].cur = e
  BY DEF SlaIInv, BreachIsAnnounced, Alarm
<1> QED BY <1>1, <1>2, <1>3, LoopMoves DEF CheckOK, Alarm

LEMMA CheckFailsStep ==
  ASSUME SlaIInv, NEW r \in Checks, CheckFails(r)
  PROVE  SlaIInv'
<1>1. check' = [check EXCEPT ![r] = NoCheck] /\ mishaps' \in Nat
  BY DEF CheckFails, Mishap, SlaIInv, SlaTypeOK
<1>2. CheckOK(r)'
  BY <1>1 DEF SlaIInv, SlaTypeOK, CheckOK
<1>3. BreachIsAnnounced'
  BY <1>1 DEF SlaIInv, SlaTypeOK, BreachIsAnnounced, CheckFails, columns, slaHistory
<1> QED BY <1>1, <1>2, <1>3, CheckMoves
    DEF SlaIInv, SlaTypeOK, CheckFails, CheckedIsBreached, slaHistory

LEMMA SlaRestartStep ==
  ASSUME SlaIInv, SlaRestart
  PROVE  SlaIInv'
<1> DEFINE alarming == {q \in Checks : check[q].at = "alarm"}
<1>1. UNCHANGED <<Started, Running, breachedAt, late, sla>>
  BY DEF SlaRestart, columns, Started, Running
<1>2. {check[r].cur : r \in alarming} \subseteq Entries
  BY DEF SlaIInv, SlaTypeOK, CheckOK, Started
<1>3. SlaTypeOK'
  BY <1>1, <1>2 DEF SlaRestart, Mishap, SlaIInv, SlaTypeOK, columns
<1>4. \A r \in Checks : CheckOK(r)'
  BY DEF SlaRestart, CheckOK
<1>5. BreachesDated' /\ CheckedIsBreached'
  BY <1>1 DEF SlaIInv, BreachesDated, CheckedIsBreached, SlaRestart
<1>6. BreachIsAnnounced'
  BY <1>1 DEF SlaIInv, BreachIsAnnounced, SlaRestart
<1> QED BY <1>3, <1>4, <1>5, <1>6 DEF SlaIInv

-----------------------------------------------------------------------------

LEMMA SlaStep == SlaIInv /\ [SlaNext]_slaVars => SlaIInv'
<1> SUFFICES ASSUME SlaIInv, [SlaNext]_slaVars PROVE SlaIInv'
  OBVIOUS
<1>1. ASSUME NEW e \in Entries, StartSla(e) \/ DeadlinePasses(e) PROVE SlaIInv'
  BY <1>1, StartSlaStep, DeadlinePassesStep
<1>2. ASSUME NEW c \in Resolvers,
             (\E e \in Entries : BeginResolve(c, e)) \/ Resolve(c) \/ ResolveFails(c)
      PROVE  SlaIInv'
  BY <1>2, BeginResolveStep, ResolveStep, ResolveFailsStep
<1>3. ASSUME NEW r \in Checks, StartCheck(r) \/ CheckStep(r) PROVE SlaIInv'
  BY <1>3, StartCheckStep, ReadActiveStep, BreachStep, AlarmStep, CheckFailsStep DEF CheckStep
<1>4. CASE SlaRestart
  BY <1>4, SlaRestartStep
<1>5. CASE UNCHANGED slaVars
  <2>1. SlaTypeOK'
    BY <1>5 DEF slaVars, columns, slaHistory, SlaIInv, SlaTypeOK, Started
  <2>2. \A r \in Checks : CheckOK(r)'
    BY <1>5 DEF slaVars, columns, SlaIInv, CheckOK, Started, Running
  <2>3. BreachesDated' /\ CheckedIsBreached' /\ BreachIsAnnounced'
    BY <1>5 DEF slaVars, columns, slaHistory, SlaIInv, BreachesDated, CheckedIsBreached,
                BreachIsAnnounced, Running
  <2> QED BY <2>1, <2>2, <2>3 DEF SlaIInv
<1> QED BY <1>1, <1>2, <1>3, <1>4, <1>5 DEF SlaNext

LEMMA SlaInvariance == SlaSpec => []SlaIInv
BY SlaInitial, SlaStep, PTL DEF SlaSpec

\* Every reachable state of the SLA entries is well typed; only late entries
\* have a time of breach.
THEOREM SlaTypeCorrect == SlaSpec => []SlaTypeOK
<1>1. SlaIInv => SlaTypeOK BY DEF SlaIInv
<1> QED BY <1>1, SlaInvariance, PTL

\* A check declares nothing breached that was resolved before it began.
THEOREM ResolutionIsRespected == SlaSpec => []ResolutionHolds
<1>1. SlaIInv => ResolutionHolds BY DEF SlaIInv, CheckOK, ResolutionHolds
<1> QED BY <1>1, SlaInvariance, PTL

\* A completed check misses no breach, whatever is resolved or checked at the
\* same time, and a breach is on record for good.
THEOREM NoBreachIsMissed == SlaSpec => []CheckedIsBreached
<1>1. SlaIInv => CheckedIsBreached BY DEF SlaIInv
<1> QED BY <1>1, SlaInvariance, PTL

\* Every breach is announced, or its check is about to, or died.
THEOREM BreachesAreAnnounced == SlaSpec => []BreachIsAnnounced
<1>1. SlaIInv => BreachIsAnnounced BY DEF SlaIInv
<1> QED BY <1>1, SlaInvariance, PTL

-----------------------------------------------------------------------------
(***************************************************************************)
(*                             The scheduler                               *)
(***************************************************************************)
\* Each task takes its own steps, beside which the other one rests: what is proved of a task on
\* its own is so of the scheduler that runs both.
THEOREM TasksAreTheirOwn == TasksSpec => Spec /\ SlaSpec
<1>1. TasksInit => Init /\ SlaInit
  BY DEF TasksInit
<1>2. [TasksNext]_taskVars => [Next]_vars /\ [SlaNext]_slaVars
  BY DEF TasksNext, SlaRests, PremiumRests, taskVars
<1>3. QED BY <1>1, <1>2, PTL DEF TasksSpec, Spec, SlaSpec
=============================================================================
