------------------------------- MODULE Notices -------------------------------
(***************************************************************************)
(* BotNotificationDispatcher: an event from SPNET-ADMIN becomes notices to *)
(* the user it names or to an audience of staff, each stored and then sent *)
(* by Telegram, with retries around the store and around the sending.  The *)
(* sync pipeline dispatches an event again when a dispatch has thrown or   *)
(* was cut off.                                                            *)
(***************************************************************************)
EXTENDS Naturals, FiniteSets

CONSTANTS
  Recipients,    \* users
  Dispatches,    \* events being dispatched at the same time
  MaxAttempts,   \* deliverWithRetry and deliverViaTelegram: 3
  MaxDeliveries, \* bound: times the pipeline dispatches one event
  MaxNoticeSlips       \* bound: calls of the database and of Telegram that fail

ASSUME AttemptsAssumption == MaxAttempts \in Nat \ {0}
ASSUME NoticeBoundsAssumption == MaxDeliveries \in Nat /\ MaxNoticeSlips \in Nat
ASSUME DispatchesAssumption == IsFiniteSet(Dispatches)

Nobody == "nobody"       \* the payload names no one
Stranger == "stranger"   \* an id that is no user's: a staffId taken for one

ASSUME RecipientsAssumption == Nobody \notin Recipients /\ Stranger \notin Recipients

\* What buildDispatchInfo makes of an event type and its payload.
Events ==
  [kind: {"unmapped", "personal", "security"}, target: Recipients \union {Nobody, Stranger},
   department: BOOLEAN]

VARIABLES
  job,        \* the dispatches
  deliveries, \* deliveries[d]: times d was dispatched
  slips,
  addressed,  \* addressed[u]: calls of deliverWithRetry for u
  created,    \* created[u]: rows of u in notifications
  unheard,    \* unheard[u]: rows written whose insert reported an error
  lost,       \* lost[u]: calls given up or cut off
  messages,   \* messages[u]: Telegram messages u got
  unconfirmed \* unconfirmed[u]: messages u got whose sending reported an error

noticeCounts == <<addressed, created, unheard, lost, messages, unconfirmed>>
noticeVars == <<job, deliveries, slips, noticeCounts>>

AnyEvent == [kind |-> "unmapped", target |-> Nobody, department |-> FALSE]
IdleJob == [pc |-> "idle", event |-> AnyEvent, left |-> {}, to |-> Nobody, attempt |-> 1,
            got |-> {}, missed |-> {}, unreached |-> {}]

NoticesInit ==
  /\ job = [d \in Dispatches |-> IdleJob]
  /\ deliveries = [d \in Dispatches |-> 0]
  /\ slips = 0
  /\ addressed = [u \in Recipients |-> 0]
  /\ created = addressed /\ unheard = addressed /\ lost = addressed
  /\ messages = addressed /\ unconfirmed = addressed

Bump(f, u) == IF u \in Recipients THEN [f EXCEPT ![u] = @ + 1] ELSE f
PutJob(d, changed) == job' = [job EXCEPT ![d] = changed]
Direct(d) == job[d].event.target # Nobody

NoticeSlip == slips < MaxNoticeSlips /\ slips' = slips + 1

\* dispatch and dispatchBroadcast: who is told.
Addressee(e) == IF e.kind = "unmapped" THEN Nobody ELSE e.target
FirstStep(e) ==
  IF Addressee(e) # Nobody THEN "insert" ELSE IF e.kind = "security" THEN "audience" ELSE "resolved"

Dispatch(d, e) ==
  LET first == [IdleJob EXCEPT !.event = e, !.pc = FirstStep(e), !.to = Addressee(e)]
  IN /\ job[d].pc \in {"idle", "rejected"}
     /\ deliveries[d] < MaxDeliveries
     /\ job[d] # IdleJob => e = job[d].event
     /\ PutJob(d, first)
     /\ deliveries' = [deliveries EXCEPT ![d] = @ + 1]
     /\ addressed' = Bump(addressed, first.to)
     /\ UNCHANGED <<slips, created, unheard, lost, messages, unconfirmed>>

\* notifyExecutives or notifyRole, and then notifyDepartment: who is active is read once.
ReadAudience(d, audience) ==
  /\ \/ job[d].pc = "audience" /\ PutJob(d, [job[d] EXCEPT !.pc = "next", !.left = audience])
     \/ job[d].pc = "department" /\ PutJob(d, [job[d] EXCEPT !.pc = "last", !.left = audience])
  /\ UNCHANGED <<deliveries, slips, noticeCounts>>

\* The query fails, and the dispatch with it.
FailAudience(d) ==
  /\ job[d].pc \in {"audience", "department"}
  /\ NoticeSlip
  /\ PutJob(d, [job[d] EXCEPT !.pc = "rejected"])
  /\ UNCHANGED <<deliveries, noticeCounts>>

NextRecipient(d, u) ==
  /\ job[d].pc \in {"next", "last"}
  /\ u \in job[d].left
  /\ PutJob(d, [job[d] EXCEPT !.pc = IF @ = "next" THEN "insert" ELSE "insertLast",
               !.to = u, !.attempt = 1, !.left = @ \ {u}])
  /\ addressed' = Bump(addressed, u)
  /\ UNCHANGED <<deliveries, slips, created, unheard, lost, messages, unconfirmed>>

EndAudience(d) ==
  /\ job[d].pc \in {"next", "last"}
  /\ job[d].left = {}
  /\ PutJob(d, [job[d] EXCEPT !.pc = IF @ = "next" /\ job[d].event.department
                                  THEN "department" ELSE "resolved"])
  /\ UNCHANGED <<deliveries, slips, noticeCounts>>

\* Faulty: one attempt too many.
MoreLeft(d) == job[d].attempt <= MaxAttempts

\* The two loops count their attempts alike.
AttemptsLeft(d) == job[d].attempt < MaxAttempts

Inserting(d) == job[d].pc \in {"insert", "insertLast"}
Sending(d) == job[d].pc \in {"send", "sendLast"}
InLast(d) == job[d].pc \in {"insertLast", "sendLast"}

\* After a recipient.
Delivered(d) ==
  [job[d] EXCEPT !.pc = IF Direct(d) THEN "resolved" ELSE IF InLast(d) THEN "last" ELSE "next",
     !.got = @ \union {job[d].to}, !.to = Nobody]
\* After one whose message Telegram did not take: create returns all the same.
Unreached(d) == [Delivered(d) EXCEPT !.unreached = job[d].unreached \union {job[d].to}]
\* A broadcast catches what deliverWithRetry throws in the end.
Missed(d) ==
  [job[d] EXCEPT !.pc = IF Direct(d) THEN "rejected" ELSE IF InLast(d) THEN "last" ELSE "next",
     !.missed = @ \union {job[d].to}, !.to = Nobody]

\* NotificationsService.create: the row, and then Telegram.
InsertNotice(d) ==
  /\ Inserting(d)
  /\ job[d].to \in Recipients
  /\ created' = Bump(created, job[d].to)
  /\ PutJob(d, [job[d] EXCEPT !.pc = IF InLast(d) THEN "sendLast" ELSE "send", !.attempt = 1])
  /\ UNCHANGED <<deliveries, slips, addressed, unheard, lost, messages, unconfirmed>>

\* Faulty: the dispatch that has failed for good is reported as done.
SilentFailInsert(d) ==
  /\ Inserting(d)
  /\ \/ UNCHANGED <<created, unheard>>
     \/ job[d].to \in Recipients /\ created' = Bump(created, job[d].to) /\ unheard' = Bump(unheard, job[d].to)
  /\ IF job[d].to = Stranger THEN UNCHANGED slips ELSE NoticeSlip
  /\ IF AttemptsLeft(d)
     THEN PutJob(d, [job[d] EXCEPT !.attempt = @ + 1]) /\ UNCHANGED lost
     ELSE PutJob(d, [Missed(d) EXCEPT !.pc = "resolved"]) /\ lost' = Bump(lost, job[d].to)
  /\ UNCHANGED <<deliveries, addressed, messages, unconfirmed>>

\* The insert throws, with or without its row; a row for an id that is no user's never gets in.
FailInsert(d) ==
  /\ Inserting(d)
  /\ \/ UNCHANGED <<created, unheard>>
     \/ job[d].to \in Recipients /\ created' = Bump(created, job[d].to) /\ unheard' = Bump(unheard, job[d].to)
  /\ IF job[d].to = Stranger THEN UNCHANGED slips ELSE NoticeSlip
  /\ IF AttemptsLeft(d)
     THEN PutJob(d, [job[d] EXCEPT !.attempt = @ + 1]) /\ UNCHANGED lost
     ELSE PutJob(d, Missed(d)) /\ lost' = Bump(lost, job[d].to)
  /\ UNCHANGED <<deliveries, addressed, messages, unconfirmed>>

\* deliverViaTelegram: also when there is no bot token or no Telegram id.
SendNotice(d) ==
  /\ Sending(d)
  /\ \/ messages' = Bump(messages, job[d].to)
     \/ UNCHANGED messages
  /\ PutJob(d, Delivered(d))
  /\ UNCHANGED <<deliveries, slips, addressed, created, unheard, lost, unconfirmed>>

\* Faulty: the failure reaches deliverWithRetry, which stores the notice again.
RethrowFailSend(d) ==
  /\ Sending(d)
  /\ NoticeSlip
  /\ \/ messages' = Bump(messages, job[d].to) /\ unconfirmed' = Bump(unconfirmed, job[d].to)
     \/ UNCHANGED <<messages, unconfirmed>>
  /\ PutJob(d, IF AttemptsLeft(d)
            THEN [job[d] EXCEPT !.attempt = @ + 1, !.pc = IF InLast(d) THEN "insertLast" ELSE "insert"]
            ELSE Delivered(d))
  /\ UNCHANGED <<deliveries, addressed, created, unheard, lost>>

\* After the last attempt the failure is logged, and create returns as after a message sent.
FailSend(d) ==
  /\ Sending(d)
  /\ NoticeSlip
  /\ \/ messages' = Bump(messages, job[d].to) /\ unconfirmed' = Bump(unconfirmed, job[d].to)
     \/ UNCHANGED <<messages, unconfirmed>>
  /\ PutJob(d, IF AttemptsLeft(d) THEN [job[d] EXCEPT !.attempt = @ + 1] ELSE Unreached(d))
  /\ UNCHANGED <<deliveries, addressed, created, unheard, lost>>

\* The process ends during the dispatch, or after it and before markProcessed, or markProcessed
\* throws: the event is still to be processed.
CutOff(d) ==
  /\ job[d].pc \notin {"idle", "rejected"}
  /\ NoticeSlip
  /\ PutJob(d, [job[d] EXCEPT !.pc = "rejected"])
  /\ lost' = IF Inserting(d) THEN Bump(lost, job[d].to) ELSE lost
  /\ UNCHANGED <<deliveries, addressed, created, unheard, messages, unconfirmed>>

NoticesNext ==
  \E d \in Dispatches :
    \/ \E e \in Events : Dispatch(d, e)
    \/ \E audience \in SUBSET Recipients : ReadAudience(d, audience)
    \/ FailAudience(d)
    \/ \E u \in Recipients : NextRecipient(d, u)
    \/ EndAudience(d)
    \/ InsertNotice(d)
    \/ FailInsert(d)
    \/ SendNotice(d)
    \/ FailSend(d)
    \/ CutOff(d)

NoticesSpec == NoticesInit /\ [][NoticesNext]_noticeVars

-----------------------------------------------------------------------------
JobStates ==
  [pc: {"idle", "audience", "department", "next", "last", "insert", "insertLast", "send",
        "sendLast", "resolved", "rejected"},
   event: Events, left: SUBSET Recipients, to: Recipients \union {Nobody, Stranger},
   attempt: 1..MaxAttempts, got: SUBSET Recipients, missed: SUBSET (Recipients \union {Stranger}),
   unreached: SUBSET Recipients]

NoticesTypeOK ==
  /\ job \in [Dispatches -> JobStates]
  /\ deliveries \in [Dispatches -> 0..MaxDeliveries]
  /\ slips \in 0..MaxNoticeSlips
  /\ \A f \in {addressed, created, unheard, lost, messages, unconfirmed} : f \in [Recipients -> Nat]

InsertingFor(u) == {d \in Dispatches : Inserting(d) /\ job[d].to = u}
SendingTo(u) == {d \in Dispatches : Sending(d) /\ job[d].to = u}

\* Through retries, redeliveries, crashes and dispatches at the same time the accounts of every
\* user are square: each time they were to be told has its row, is being stored, or was given
\* up or cut off, and no row is there beyond these but from inserts that reported an error
\* after writing; likewise nobody gets more messages than rows whose insert succeeded, but for
\* messages whose sending had reported an error (deliverWithRetry, deliverViaTelegram).
NoticesAddUp ==
  \A u \in Recipients :
    /\ addressed[u] + unheard[u] = created[u] + lost[u] + Cardinality(InsertingFor(u))
    /\ messages[u] + unheard[u] + Cardinality(SendingTo(u)) <= created[u] + unconfirmed[u]

\* What the pipeline sees of a dispatch.
PhaseOf(j) == IF j.pc \in {"idle", "resolved", "rejected"} THEN j.pc ELSE "working"
StoredOf(j) ==
  IF j.pc = "rejected" THEN {}
  ELSE j.got \union (IF j.pc \in {"send", "sendLast"} THEN {j.to} ELSE {})

phases == [d \in Dispatches |-> PhaseOf(job[d])]
addressees == [d \in Dispatches |-> Addressee(job[d].event)]
stored == [d \in Dispatches |-> StoredOf(job[d])]

\* The dispatcher keeps its promise to the pipeline: an event that names someone is reported
\* as processed only when a notice for that user is stored; a broadcast is, whoever was missed
\* (dispatch, dispatchBroadcast, deliverWithRetry).  Of Telegram it promises nothing: see
\* UnreachedEventsFail.
Board ==
  INSTANCE NoticeBoard
    WITH Users <- Recipients,
         Jobs <- Dispatches,
         Targets <- Recipients \union {Nobody, Stranger},
         phase <- phases,
         named <- addressees,
         stored <- stored,
         rows <- created
NoticePromise == Board!Spec

\* "After 3 failed attempts: logged as error, exception propagates to InboundSyncService ->
\* event marked FAILED" (ADMIN_SYNC_REFERENCE.md:144): an event whose user no Telegram message
\* reached is not reported as processed.
UnreachedEventsFail ==
  \A d \in Dispatches : Direct(d) /\ job[d].pc = "resolved" => job[d].unreached = {}
=============================================================================
