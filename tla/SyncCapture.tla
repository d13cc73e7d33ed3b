---------------------------- MODULE SyncCapture ----------------------------
(***************************************************************************)
(* How events enter the outbox, and what recording an outcome sets off:    *)
(*                                                                         *)
(*   - onModuleEvent captures the events of the modules as outbound rows,  *)
(*     unless their name is marked as sync-origin, no id is found in their *)
(*     payload, or a PENDING row of the last five minutes has their key;   *)
(*   - the consumers of sync:event:processed, :failed and :dlq notify      *)
(*     users and write audit logs, which emit notification:sent and        *)
(*     audit:logged on the same bus: the names they mark beforehand.       *)
(*                                                                         *)
(* The batches are those of SyncOutbox, which SyncPipeline implements.     *)
(* Between two awaits nothing else runs: an emission runs onModuleEvent up *)
(* to its first await in the step that emits.                              *)
(***************************************************************************)
EXTENDS Naturals, Sequences

CONSTANTS
  MaxRows,        \* bound: rows inserted in one behaviour
  Handlers,       \* bound: invocations of onModuleEvent at the same time
  Consumers,      \* bound: consumers of outcomes at the same time
  Names, Ids,     \* event types and entity ids
  ModuleEvents,   \* what modules emit: records of a name and a payload
  LogId,          \* the id of an audit log the consumers write
  MaxEmissions,   \* bound: events emitted by modules and rows from outside
  MaxInterventions  \* bound: writes by operators and restarts

Events == 1..MaxRows
NoId == "none"
Absent == "absent"

\* source and target: adminbot to spnetgram, spnetgram to adminbot, and the
\* rows of the webhook, spnet-admin to adminbot.
Kinds == {"outbound", "inbound", "webhook"}

\* An inbound row of an unsupported type is acknowledged with no effect.
NoEffect == {"inbound"}

SideEffectNames == {"notification:sent", "audit:logged"}

ASSUME NamesAssumption ==
  /\ SideEffectNames \subseteq Names
  /\ LogId \in Ids /\ NoId \notin Ids
  /\ \A m \in ModuleEvents : m.name \in Names

VARIABLES
  kind, status, writer, effected,   \* the rows, as SyncOutbox has them
  rowName,     \* the eventType column
  rowId,       \* the entityId column
  fresh,       \* rows created less than IDEMPOTENCY_WINDOW_MS ago
  syncOrigin,  \* the set syncOriginEvents
  handler,     \* the invocations of onModuleEvent
  consumer,    \* the invocations of the sync:event:* consumers
  \* history
  depth,       \* how many sync side effects led to a row
  emissions, interventions

outbox == <<kind, status, writer, effected>>
columns == <<rowName, rowId, fresh, depth>>
vars == <<outbox, columns, syncOrigin, handler, consumer,
          emissions, interventions>>

Outbox == INSTANCE SyncOutbox
Inserted == {e \in Events : kind[e] # Absent}

HandlerState ==
  [pc : {"idle", "check", "insert"}, name : Names \union {NoId}, id : Ids \union {NoId},
   depth : Nat, saw : SUBSET Events]
ConsumerState ==
  [pc : {"idle", "lookup", "notify", "audit"}, row : Events \union {0},
   cause : {"none", "processed", "failed", "dlq"}]

IdleHandler == [pc |-> "idle", name |-> NoId, id |-> NoId, depth |-> 0, saw |-> {}]
IdleConsumer == [pc |-> "idle", row |-> 0, cause |-> "none"]

Init ==
  /\ Outbox!Init
  /\ rowName = [e \in Events |-> NoId]
  /\ rowId = [e \in Events |-> NoId]
  /\ fresh = {}
  /\ syncOrigin = {}
  /\ handler = [h \in Handlers |-> IdleHandler]
  /\ consumer = [c \in Consumers |-> IdleConsumer]
  /\ depth = [e \in Events |-> 0]
  /\ emissions = 0
  /\ interventions = 0

-----------------------------------------------------------------------------
(* onModuleEvent *)

\* The fields of a payload in the order in which they are tried as its id.
IdCandidates ==
  <<"userId", "staffId", "caseId", "ticketId", "investigationId", "accountId",
    "reportId", "eventId", "alertId", "incidentId", "subscriptionId", "recordId",
    "requestId", "summaryId", "recommendationId", "dashboardId", "deeplinkId",
    "transactionId", "serviceId", "slaId", "auditId", "notificationId",
    "departmentId", "planId">>

GuessEntityId(payload) ==
  LET found == {i \in DOMAIN IdCandidates : IdCandidates[i] \in DOMAIN payload}
  IN IF found = {} THEN NoId
     ELSE payload[IdCandidates[CHOOSE i \in found : \A j \in found : i <= j]]

\* The payloads of modules carry ids.
ASSUME PayloadAssumption ==
  \A m \in ModuleEvents : GuessEntityId(m.payload) \in Ids \union {NoId}

\* Up to the first await: d side effects led to this emission.
OnModuleEvent(name, id, d) ==
  \/ /\ name \in syncOrigin
     /\ UNCHANGED handler
  \/ /\ name \notin syncOrigin
     /\ id = NoId
     /\ UNCHANGED handler
  \/ /\ name \notin syncOrigin
     /\ id # NoId
     /\ \E h \in Handlers :
          /\ handler[h].pc = "idle"
          /\ handler' = [handler EXCEPT ![h] =
               [pc |-> "check", name |-> name, id |-> id, depth |-> d, saw |-> {}]]

\* A module emits an event after it wrote its own rows.
Emit(m) ==
  /\ emissions < MaxEmissions
  /\ emissions' = emissions + 1
  /\ OnModuleEvent(m.name, GuessEntityId(m.payload), 0)
  /\ UNCHANGED <<outbox, columns, syncOrigin, consumer, interventions>>

OfKey(name, id) == {e \in Inserted : rowName[e] = name /\ rowId[e] = id}

\* Faulty: the stub that finds no duplicate.
NoDuplicates(name, id) == {}

\* checkIdempotency: whatever the source and the target of the row.
Duplicates(name, id) ==
  {e \in OfKey(name, id) : status[e] = "PENDING" /\ e \in fresh}

CheckIdempotency(h) ==
  /\ handler[h].pc = "check"
  /\ IF Duplicates(handler[h].name, handler[h].id) # {}
       THEN handler' = [handler EXCEPT ![h] = IdleHandler]
       ELSE handler' = [handler EXCEPT ![h].pc = "insert",
                          ![h].saw = OfKey(handler[h].name, handler[h].id)]
  /\ UNCHANGED <<outbox, columns, syncOrigin, consumer, emissions, interventions>>

\* The columns of a new row; rows are numbered as they are inserted.
Insert(e, k, name, id, d) ==
  /\ \A f \in Events : f < e => f \in Inserted
  /\ Outbox!Submit(e, k)
  /\ rowName' = [rowName EXCEPT ![e] = name]
  /\ rowId' = [rowId EXCEPT ![e] = id]
  /\ fresh' = fresh \union {e}
  /\ depth' = [depth EXCEPT ![e] = d]

CreateCaptured(h) ==
  /\ handler[h].pc = "insert"
  /\ \E e \in Events :
       Insert(e, "outbound", handler[h].name, handler[h].id, handler[h].depth)
  /\ handler' = [handler EXCEPT ![h] = IdleHandler]
  /\ UNCHANGED <<syncOrigin, consumer, emissions, interventions>>

\* A database call throws: the event is logged and lost.
LoseEvent(h) ==
  /\ handler[h].pc # "idle"
  /\ handler' = [handler EXCEPT ![h] = IdleHandler]
  /\ UNCHANGED <<outbox, columns, syncOrigin, consumer, emissions, interventions>>

\* Five minutes pass.
WindowPasses(e) ==
  /\ e \in fresh
  /\ fresh' = fresh \ {e}
  /\ UNCHANGED <<outbox, rowName, rowId, depth, syncOrigin, handler, consumer,
                 emissions, interventions>>

-----------------------------------------------------------------------------
(* Rows from outside and the outcomes of all rows *)

\* POST /api/sync/events and the webhook.
Arrive(k, name, id) ==
  /\ emissions < MaxEmissions
  /\ emissions' = emissions + 1
  /\ \E e \in Events : Insert(e, k, name, id, 0)
  /\ UNCHANGED <<syncOrigin, handler, consumer, interventions>>

\* Faulty: the name is not added.
MarkNothing(name) == UNCHANGED syncOrigin

MarkAsSyncOrigin(name) == syncOrigin' = syncOrigin \union {name}

\* The consumers start; the one of sync:event:dlq needs no lookup.
StartConsumer(e, cause) ==
  \E c \in Consumers :
    /\ consumer[c].pc = "idle"
    /\ IF cause = "dlq"
         THEN /\ MarkAsSyncOrigin("audit:logged")
              /\ consumer' = [consumer EXCEPT ![c] = [pc |-> "audit", row |-> e, cause |-> cause]]
         ELSE /\ UNCHANGED syncOrigin
              /\ consumer' = [consumer EXCEPT ![c] = [pc |-> "lookup", row |-> e, cause |-> cause]]

\* The effect of an inbound row is a notification: the dispatcher creates it
\* with no mark. Its user need not be the entity of the row.
TakeEffect(e) ==
  /\ Outbox!TakeEffect(e)
  /\ IF kind[e] = "inbound"
       THEN \E user \in Ids : OnModuleEvent("notification:sent", user, depth[e] + 1)
       ELSE UNCHANGED handler
  /\ UNCHANGED <<columns, syncOrigin, consumer, emissions, interventions>>

\* markProcessed and moveToDlq emit, markFailed of the inbound service too,
\* but not the updateEvent of handleFailure.
RecordOutcome(e, o) ==
  /\ Outbox!RecordOutcome(e, o)
  /\ \/ o = "PROCESSED" /\ StartConsumer(e, "processed")
     \/ o = "FAILED" /\ kind[e] = "inbound" /\ StartConsumer(e, "failed")
     \/ o = "FAILED" /\ UNCHANGED <<syncOrigin, consumer>>
     \/ o = "DLQ" /\ StartConsumer(e, "dlq")
  /\ UNCHANGED <<columns, handler, emissions, interventions>>

\* Operators mark rows through the service, or update them with no event.
Override(e, s) ==
  /\ interventions < MaxInterventions
  /\ interventions' = interventions + 1
  /\ Outbox!Override(e, s)
  /\ \/ s = "PROCESSED" /\ StartConsumer(e, "processed")
     \/ s = "FAILED" /\ StartConsumer(e, "failed")
     \/ UNCHANGED <<syncOrigin, consumer>>
  /\ UNCHANGED <<columns, handler, emissions>>

-----------------------------------------------------------------------------
(* The consumers of sync:event:* *)

Await(c, l) == consumer' = [consumer EXCEPT ![c].pc = l]
Done(c) == consumer' = [consumer EXCEPT ![c] = IdleConsumer]

\* The row is read, and the name of the side effect marked before it happens.
Lookup(c) ==
  LET k == kind[consumer[c].row]
      failed == consumer[c].cause = "failed"
  IN
  /\ consumer[c].pc = "lookup"
  /\ \/ /\ failed \/ k = "inbound"
        /\ MarkAsSyncOrigin("notification:sent")
        /\ Await(c, "notify")
     \/ /\ ~failed /\ k = "outbound"
        /\ MarkAsSyncOrigin("audit:logged")
        /\ Await(c, "audit")
     \/ /\ ~failed /\ k = "webhook"
        /\ Done(c)
        /\ UNCHANGED syncOrigin
  /\ UNCHANGED <<outbox, columns, handler, emissions, interventions>>

\* notificationsService.create for the user with the entity id of the row.
Notify(c) ==
  LET e == consumer[c].row IN
  /\ consumer[c].pc = "notify"
  /\ OnModuleEvent("notification:sent", rowId[e], depth[e] + 1)
  /\ IF consumer[c].cause = "failed"
       THEN MarkAsSyncOrigin("audit:logged") /\ Await(c, "audit")
       ELSE UNCHANGED syncOrigin /\ Done(c)
  /\ UNCHANGED <<outbox, columns, emissions, interventions>>

Audit(c) ==
  /\ consumer[c].pc = "audit"
  /\ OnModuleEvent("audit:logged", LogId, depth[consumer[c].row] + 1)
  /\ Done(c)
  /\ UNCHANGED <<outbox, columns, syncOrigin, emissions, interventions>>

\* An awaited call throws (an entity id need not be a user's): logged.
ConsumerThrows(c) ==
  /\ consumer[c].pc # "idle"
  /\ Done(c)
  /\ UNCHANGED <<outbox, columns, syncOrigin, handler, emissions, interventions>>

\* A restart forgets the handlers, the consumers and the marked names.
Crash ==
  /\ interventions < MaxInterventions
  /\ \/ syncOrigin # {}
     \/ \E h \in Handlers : handler[h].pc # "idle"
     \/ \E c \in Consumers : consumer[c].pc # "idle"
  /\ interventions' = interventions + 1
  /\ syncOrigin' = {}
  /\ handler' = [h \in Handlers |-> IdleHandler]
  /\ consumer' = [c \in Consumers |-> IdleConsumer]
  /\ UNCHANGED <<outbox, columns, emissions>>

-----------------------------------------------------------------------------

RowStep(e) ==
  \/ WindowPasses(e)
  \/ TakeEffect(e)
  \/ \E o \in Outbox!Outcomes : RecordOutcome(e, o)
  \/ \E s \in Outbox!Statuses : Override(e, s)

Next ==
  \/ \E m \in ModuleEvents : Emit(m)
  \/ \E k \in Kinds, name \in Names, id \in Ids : Arrive(k, name, id)
  \/ \E h \in Handlers : CheckIdempotency(h) \/ CreateCaptured(h) \/ LoseEvent(h)
  \/ \E e \in Events : RowStep(e)
  \/ \E c \in Consumers : Lookup(c) \/ Notify(c) \/ Audit(c) \/ ConsumerThrows(c)
  \/ Crash

Spec == Init /\ [][Next]_vars

-----------------------------------------------------------------------------
(* Properties *)

\* Every column and every local variable has a value of its kind, and only
\* the names of the two side effects are ever marked as sync-origin.
TypeOK ==
  /\ kind \in [Events -> Kinds \union {Absent}]
  /\ status \in [Events -> Outbox!Statuses]
  /\ writer \in [Events -> Outbox!Writers]
  /\ effected \subseteq Events
  /\ rowName \in [Events -> Names \union {NoId}]
  /\ rowId \in [Events -> Ids \union {NoId}]
  /\ fresh \subseteq Inserted
  /\ syncOrigin \subseteq SideEffectNames
  /\ handler \in [Handlers -> HandlerState]
  /\ consumer \in [Consumers -> ConsumerState]
  /\ depth \in [Events -> Nat]

\* Synchronising never feeds itself: a row that a side effect of another row
\* led to is the notification of an inbound event, and nothing that happens
\* to that row leads to a third one.
ChainsAreShort ==
  \A e \in Inserted :
    /\ depth[e] <= 1
    /\ depth[e] = 1 => rowName[e] = "notification:sent"

\* Deduplication fails only in a race: when an event is captured although a
\* row of its key existed as it was checked, that row is no duplicate of it,
\* unless an operator put it back to PENDING since.
DedupHolds ==
  \A h \in Handlers : handler[h].pc = "insert" =>
    \A e \in handler[h].saw :
      status[e] = "PENDING" /\ e \in fresh => writer[e] = "operator"
=============================================================================
