---------------------------- MODULE SyncPipeline ----------------------------
(***************************************************************************)
(* The synchronisation pipeline between the bot and SPNET-ADMIN: the table *)
(* sync_events, the batch processor that a 30 s timer starts, the inbound  *)
(* service it calls, and the operators who change rows through the REST    *)
(* API while a batch is suspended at an await.                             *)
(*                                                                         *)
(* The process is single-threaded: between two awaits nothing else runs.   *)
(* So an action is what happens from the return of one awaited call up to  *)
(* the return of the next, and pc[b] names the call batch b waits for.     *)
(*                                                                         *)
(*   fetch     findMany of the PENDING rows                                *)
(*   post      the HTTP POST to SPNET-ADMIN                                *)
(*   dispatch  BotNotificationDispatcher.dispatch (inbound events)         *)
(*   mark      markProcessed; if it throws, handleFailure is next          *)
(*   confirm   markProcessed of InboundSyncService, inside its try block   *)
(*   reject    markFailed of InboundSyncService                            *)
(*   fail      the write of handleFailure: FAILED or DLQ                   *)
(*                                                                         *)
(* A database call either throws and has changed nothing, or takes effect. *)
(* Event numbers are the order of createdAt; a row may become visible      *)
(* after one with a higher number. Rows are never deleted.                 *)
(***************************************************************************)
EXTENDS Naturals, FiniteSets

CONSTANTS
  Batches,        \* invocations of processBatch
  MaxEvents,      \* bound: rows inserted in one behaviour
  MaxRetries,     \* MAX_RETRIES
  BatchLimit,     \* rows read by one batch, 50 in the code
  UrlConfigured,  \* is SPNET_ADMIN_API_URL set
  MaxWrites,      \* bound: writes by operators
  MaxFaults       \* bound: crashes and database calls that throw

ASSUME BoundsAssumption ==
  /\ MaxEvents \in Nat /\ MaxWrites \in Nat /\ MaxFaults \in Nat
  /\ BatchLimit \in Nat \ {0}
  /\ UrlConfigured \in BOOLEAN

\* An event that the pipeline has not failed before does not reach the DLQ.
ASSUME RetriesAssumption == MaxRetries \in Nat /\ MaxRetries > 1

Events == 1..MaxEvents
NoEvent == 0

(***************************************************************************)
(* The columns source, target, eventType and payload never change and only *)
(* decide the route of a row. "outbound" is every row that is not          *)
(* spnetgram -> adminbot, the rows of the webhook (source spnet-admin)     *)
(* included; the others are inbound rows whose type is unsupported, whose  *)
(* payload misses a required field, or which are valid.                    *)
(***************************************************************************)
Kinds == {"outbound", "unsupported", "invalid", "valid"}
Absent == "absent"

\* Acknowledged as PROCESSED although nothing is sent or dispatched.
NoEffect == {"unsupported"} \union (IF UrlConfigured THEN {} ELSE {"outbound"})

Outcomes == {"PROCESSED", "FAILED", "DLQ"}
Statuses == {"PENDING"} \union Outcomes
Pcs == {"idle", "fetch", "post", "dispatch", "mark", "confirm", "reject", "fail"}

VARIABLES
  kind,        \* Events -> Kinds, or Absent before the row is inserted
  status,      \* the status column
  retry,       \* the retryCount column
  retrying,    \* events whose retryFromDlq has passed its status check
  processing,  \* the flag SyncProcessor.processing
  pc,          \* where each batch is
  cur,         \* the event a batch is at
  todo,        \* the events of its page still to come
  seenRetry,   \* retryCount as the batch read it
  \* history
  handled,     \* the events of its page a batch has finished with
  writer,      \* who wrote the status column last
  attempts,    \* how often the effect of an event was attempted
  effected,    \* events accepted by SPNET-ADMIN, or dispatched
  requeues,    \* how often an operator set an event to PENDING
  writes,      \* writes of operators so far
  faults       \* crashes and failed database calls so far

table == <<kind, status, retry, writer>>
batchVars == <<processing, pc, cur, todo, seenRetry, handled>>
history == <<attempts, effected>>
operatorVars == <<retrying, requeues, writes>>
vars == <<table, batchVars, history, operatorVars, faults>>

Inserted == {e \in Events : kind[e] # Absent}
Pending == {e \in Inserted : status[e] = "PENDING"}

Init ==
  /\ kind = [e \in Events |-> Absent]
  /\ status = [e \in Events |-> "PENDING"]
  /\ retry = [e \in Events |-> 0]
  /\ writer = [e \in Events |-> "pipeline"]
  /\ retrying = {}
  /\ processing = FALSE
  /\ pc = [b \in Batches |-> "idle"]
  /\ cur = [b \in Batches |-> NoEvent]
  /\ todo = [b \in Batches |-> {}]
  /\ seenRetry = [b \in Batches |-> [e \in Events |-> 0]]
  /\ handled = [b \in Batches |-> {}]
  /\ attempts = [e \in Events |-> 0]
  /\ effected = {}
  /\ requeues = [e \in Events |-> 0]
  /\ writes = 0
  /\ faults = 0

-----------------------------------------------------------------------------
(* Rows and who writes them *)

WriteStatus(e, s, by) ==
  /\ status' = [status EXCEPT ![e] = s]
  /\ writer' = [writer EXCEPT ![e] = by]

\* createEvent: called by onModuleEvent, POST /api/sync/events, the webhook.
CreateEvent(e, k) ==
  /\ kind[e] = Absent
  /\ kind' = [kind EXCEPT ![e] = k]
  /\ UNCHANGED <<status, retry, writer, batchVars, history, operatorVars, faults>>

\* An operator's write that sets PENDING asks for the effect once more.
OperatorWrite(e, s) ==
  /\ e \in Inserted
  /\ WriteStatus(e, s, "operator")
  /\ requeues' = IF s = "PENDING" THEN [requeues EXCEPT ![e] = @ + 1] ELSE requeues
  /\ UNCHANGED <<kind, batchVars, history, faults>>

\* PUT /api/sync/events/:id, with or without a retryCount.
UpdateEvent(e, s, r) ==
  /\ writes < MaxWrites
  /\ writes' = writes + 1
  /\ OperatorWrite(e, s)
  /\ retry' = [retry EXCEPT ![e] = r]
  /\ UNCHANGED retrying

\* POST /api/sync/events/:id/processed and /failed.
MarkByOperator(e, s) ==
  /\ writes < MaxWrites
  /\ writes' = writes + 1
  /\ OperatorWrite(e, s)
  /\ UNCHANGED <<retry, retrying>>

\* retryFromDlq: the status is checked before an await and reset after it.
RetryFromDlqCheck(e) ==
  /\ writes < MaxWrites
  /\ e \in Inserted \ retrying
  /\ status[e] = "DLQ"
  /\ retrying' = retrying \union {e}
  /\ writes' = writes + 1
  /\ UNCHANGED <<table, batchVars, history, requeues, faults>>

RetryFromDlqReset(e) ==
  /\ e \in retrying
  /\ OperatorWrite(e, "PENDING")
  /\ retry' = [retry EXCEPT ![e] = 0]
  /\ retrying' = retrying \ {e}
  /\ UNCHANGED writes

-----------------------------------------------------------------------------
(* processBatch *)

Goto(b, l) == pc' = [pc EXCEPT ![b] = l]

\* The await a row leads to: processEvent and InboundSyncService.processEvent.
Route(k) ==
  CASE k = "outbound" -> IF UrlConfigured THEN "post" ELSE "mark"
    [] k = "unsupported" -> "mark"
    [] k = "invalid" -> "reject"
    [] OTHER -> "dispatch"

\* Faulty: the flag is not reset on the way out.
EndBatchKeepingFlag(b) ==
  /\ UNCHANGED processing
  /\ Goto(b, "idle")
  /\ cur' = [cur EXCEPT ![b] = NoEvent]
  /\ todo' = [todo EXCEPT ![b] = {}]
  /\ seenRetry' = [seenRetry EXCEPT ![b] = [e \in Events |-> 0]]
  /\ handled' = [handled EXCEPT ![b] = {}]

\* The finally block.
EndBatch(b) ==
  /\ processing' = FALSE
  /\ Goto(b, "idle")
  /\ cur' = [cur EXCEPT ![b] = NoEvent]
  /\ todo' = [todo EXCEPT ![b] = {}]
  /\ seenRetry' = [seenRetry EXCEPT ![b] = [e \in Events |-> 0]]
  /\ handled' = [handled EXCEPT ![b] = {}]

\* The next iteration of the for loop, oldest event first.
TakeNext(b, rest) ==
  \E e \in rest :
    /\ \A f \in rest : e <= f
    /\ Goto(b, Route(kind[e]))
    /\ cur' = [cur EXCEPT ![b] = e]
    /\ todo' = [todo EXCEPT ![b] = rest \ {e}]

\* Faulty: the current event may be taken once more.
AdvanceWithoutProgress(b) ==
  \/ /\ todo[b] = {}
     /\ EndBatch(b)
  \/ /\ TakeNext(b, todo[b] \union {cur[b]})
     /\ UNCHANGED <<processing, seenRetry, handled>>

Advance(b) ==
  \/ /\ todo[b] = {}
     /\ EndBatch(b)
  \/ /\ TakeNext(b, todo[b])
     /\ handled' = [handled EXCEPT ![b] = @ \union {cur[b]}]
     /\ UNCHANGED <<processing, seenRetry>>

\* Faulty: no test of the flag.
TickAlways(b) ==
  /\ pc[b] = "idle"
  /\ processing' = TRUE
  /\ Goto(b, "fetch")
  /\ UNCHANGED <<table, cur, todo, seenRetry, handled, history, operatorVars, faults>>

\* setInterval and setImmediate; a tick during a batch returns at once.
Tick(b) ==
  /\ pc[b] = "idle"
  /\ ~processing
  /\ processing' = TRUE
  /\ Goto(b, "fetch")
  /\ UNCHANGED <<table, cur, todo, seenRetry, handled, history, operatorVars, faults>>

\* The oldest PENDING rows, as many as the limit allows.
IsPage(S) ==
  /\ S \subseteq Pending
  /\ \A e \in S, f \in Pending \ S : e < f
  /\ IF Cardinality(Pending) <= BatchLimit
       THEN S = Pending
       ELSE Cardinality(S) = BatchLimit

Fetch(b) ==
  /\ pc[b] = "fetch"
  /\ \/ /\ Pending = {}
        /\ EndBatch(b)
     \/ \E S \in SUBSET Pending :
          /\ IsPage(S)
          /\ TakeNext(b, S)
          /\ seenRetry' = [seenRetry EXCEPT ![b] =
                             [e \in Events |-> IF e \in S THEN retry[e] ELSE 0]]
          /\ UNCHANGED <<processing, handled>>
  /\ UNCHANGED <<table, history, operatorVars, faults>>

Attempt(e) == attempts' = [attempts EXCEPT ![e] = @ + 1]
TakeEffect(e) == effected' = effected \union {e}

\* Faulty: response.ok is not looked at.
PostIgnoringStatus(b) ==
  /\ pc[b] = "post"
  /\ Attempt(cur[b])
  /\ \/ TakeEffect(cur[b]) /\ Goto(b, "mark")
     \/ UNCHANGED effected /\ Goto(b, "mark")
  /\ UNCHANGED <<table, processing, cur, todo, seenRetry, handled, operatorVars, faults>>

(***************************************************************************)
(* The POST: SPNET-ADMIN accepts and its 2xx answer arrives, or it accepts *)
(* and the answer is lost, or the call fails before SPNET-ADMIN accepts.   *)
(***************************************************************************)
Post(b) ==
  /\ pc[b] = "post"
  /\ Attempt(cur[b])
  /\ \/ TakeEffect(cur[b]) /\ Goto(b, "mark")
     \/ TakeEffect(cur[b]) /\ Goto(b, "fail")
     \/ UNCHANGED effected /\ Goto(b, "fail")
  /\ UNCHANGED <<table, processing, cur, todo, seenRetry, handled, operatorVars, faults>>

\* dispatch of an inbound event: it resolves, or throws after its retries.
Dispatch(b) ==
  /\ pc[b] = "dispatch"
  /\ Attempt(cur[b])
  /\ \/ TakeEffect(cur[b]) /\ Goto(b, "confirm")
     \/ UNCHANGED effected /\ Goto(b, "reject")
  /\ UNCHANGED <<table, processing, cur, todo, seenRetry, handled, operatorVars, faults>>

\* markProcessed, after a delivery or instead of one.
Mark(b) ==
  /\ pc[b] \in {"mark", "confirm"}
  /\ WriteStatus(cur[b], "PROCESSED", "pipeline")
  /\ Advance(b)
  /\ UNCHANGED <<kind, retry, history, operatorVars, faults>>

\* markFailed of the inbound service: retryCount stays as it is.
Reject(b) ==
  /\ pc[b] = "reject"
  /\ WriteStatus(cur[b], "FAILED", "pipeline")
  /\ Advance(b)
  /\ UNCHANGED <<kind, retry, history, operatorVars, faults>>

\* handleFailure and moveToDlq, from the retryCount the batch read.
Fail(b) ==
  LET e == cur[b]
      newRetryCount == seenRetry[b][e] + 1
  IN
  /\ pc[b] = "fail"
  /\ WriteStatus(e, IF newRetryCount >= MaxRetries THEN "DLQ" ELSE "FAILED", "pipeline")
  /\ retry' = [retry EXCEPT ![e] = newRetryCount]
  /\ Advance(b)
  /\ UNCHANGED <<kind, history, operatorVars, faults>>

-----------------------------------------------------------------------------
(* Faults *)

Fault ==
  /\ faults < MaxFaults
  /\ faults' = faults + 1

\* getPendingEvents throws: the outer catch, then the finally block.
FetchError(b) ==
  /\ pc[b] = "fetch"
  /\ Fault
  /\ EndBatch(b)
  /\ UNCHANGED <<table, history, operatorVars>>

\* markProcessed or markFailed throws: on to the handler around it.
WriteError(b) ==
  /\ \/ pc[b] \in {"mark", "reject"} /\ Goto(b, "fail")
     \/ pc[b] = "confirm" /\ Goto(b, "reject")
  /\ Fault
  /\ UNCHANGED <<table, processing, cur, todo, seenRetry, handled, history, operatorVars>>

\* Faulty: the errors of updateEvent are swallowed like those of moveToDlq.
FailErrorSwallowed(b) ==
  /\ pc[b] = "fail"
  /\ Fault
  /\ Advance(b)
  /\ UNCHANGED <<table, history, operatorVars>>

\* moveToDlq swallows the error; the one of updateEvent ends the whole batch.
FailError(b) ==
  /\ pc[b] = "fail"
  /\ Fault
  /\ IF seenRetry[b][cur[b]] + 1 >= MaxRetries
       THEN Advance(b)
       ELSE EndBatch(b)
  /\ UNCHANGED <<table, history, operatorVars>>

\* The process dies and is restarted: only the table survives.
Crash ==
  /\ \E b \in Batches : pc[b] # "idle"
  /\ Fault
  /\ processing' = FALSE
  /\ pc' = [b \in Batches |-> "idle"]
  /\ cur' = [b \in Batches |-> NoEvent]
  /\ todo' = [b \in Batches |-> {}]
  /\ seenRetry' = [b \in Batches |-> [e \in Events |-> 0]]
  /\ handled' = [b \in Batches |-> {}]
  /\ retrying' = {}
  /\ UNCHANGED <<table, history, requeues, writes>>

-----------------------------------------------------------------------------

BatchStep(b) ==
  \/ Fetch(b) \/ Post(b) \/ Dispatch(b) \/ Mark(b) \/ Reject(b) \/ Fail(b)
  \/ FetchError(b) \/ WriteError(b) \/ FailError(b)

OperatorStep(e) ==
  \/ \E s \in Statuses, r \in 0..MaxRetries \union {retry[e]} : UpdateEvent(e, s, r)
  \/ \E s \in {"PROCESSED", "FAILED"} : MarkByOperator(e, s)
  \/ RetryFromDlqCheck(e)
  \/ RetryFromDlqReset(e)

Next ==
  \/ \E e \in Events, k \in Kinds : CreateEvent(e, k)
  \/ \E e \in Events : OperatorStep(e)
  \/ \E b \in Batches : Tick(b)
  \/ \E b \in Batches : BatchStep(b)
  \/ Crash

Spec == Init /\ [][Next]_vars

(***************************************************************************)
(* The timer keeps firing, and every awaited call settles: Prisma calls    *)
(* have a pool timeout, fetch the header timeout of the platform. Nothing  *)
(* is assumed of users, operators and crashes.                             *)
(***************************************************************************)
Fairness ==
  /\ WF_vars(\E b \in Batches : Tick(b))
  /\ \A b \in Batches : WF_vars(BatchStep(b))

FairSpec == Spec /\ Fairness

-----------------------------------------------------------------------------
(* Properties *)

\* Every column, flag and local variable has a value the code can give it.
TypeOK ==
  /\ kind \in [Events -> Kinds \union {Absent}]
  /\ status \in [Events -> Statuses]
  /\ retry \in [Events -> Nat]
  /\ writer \in [Events -> {"pipeline", "operator"}]
  /\ retrying \subseteq Inserted
  /\ processing \in BOOLEAN
  /\ pc \in [Batches -> Pcs]
  /\ cur \in [Batches -> Events \union {NoEvent}]
  /\ todo \in [Batches -> SUBSET Events]
  /\ seenRetry \in [Batches -> [Events -> Nat]]
  /\ handled \in [Batches -> SUBSET Events]
  /\ attempts \in [Events -> Nat]
  /\ effected \subseteq Events
  /\ requeues \in [Events -> Nat]
  /\ writes \in Nat
  /\ faults \in Nat

\* The processing flag is a lock: at most one batch is between its awaits,
\* and the flag is set exactly while one is. A path that left it set would
\* stop synchronisation for good, a path that missed it would let two
\* batches deliver the same rows.
FlagIsLock ==
  /\ \A b1, b2 \in Batches : pc[b1] # "idle" /\ pc[b2] # "idle" => b1 = b2
  /\ processing <=> \E b \in Batches : pc[b] # "idle"

\* A row that the pipeline recorded as PROCESSED has had its effect, however
\* deliveries, failures, crashes and operators' writes interleave.
EffectBeforeProcessed ==
  \A e \in Inserted :
    status[e] = "PROCESSED" /\ writer[e] = "pipeline"
      => e \in effected \/ kind[e] \in NoEffect

\* Delivery is at least once, and every repetition has a cause: the effect
\* of an event is attempted at most once, plus once for each crash or
\* failed database call and for each time an operator queued it again.
RepeatsHaveACause ==
  \A e \in Events : attempts[e] <= 1 + requeues[e] + faults

\* A batch leaves no row behind: an event it has finished with is PENDING
\* only if an operator queued it again. (moveToDlq swallows its own errors,
\* so this needs that no event created as PENDING is one failure from the DLQ.)
NoRowLeftPending ==
  \A b \in Batches : \A e \in handled[b] :
    status[e] = "PENDING" => writer[e] = "operator"

\* The pipeline implements the outbox: one recorded outcome for each event,
\* revised only by operators, and PROCESSED only with its effect.
Outbox == INSTANCE SyncOutbox
OutboxSpec == Outbox!Spec

\* Every waiting event is decided in the end, poisonous ones and failing
\* databases notwithstanding: nothing blocks the head of the queue.
PendingDrains ==
  \A e \in Events : e \in Pending ~> e \notin Pending
=============================================================================
