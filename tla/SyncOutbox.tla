----------------------------- MODULE SyncOutbox -----------------------------
(***************************************************************************)
(* What the synchronisation outbox (table sync_events) promises to the     *)
(* rest of the bot and to SPNET-ADMIN, with nothing said about batches,    *)
(* retries or awaits:                                                      *)
(*                                                                         *)
(*   - a submitted event waits as PENDING until its outcome is recorded;   *)
(*   - the pipeline records an outcome once: only an operator (the REST    *)
(*     API, a retry from the dead letter queue) changes it afterwards;     *)
(*   - an event is recorded as PROCESSED only when its effect took place   *)
(*     (SPNET-ADMIN accepted it, or its notifications were dispatched),    *)
(*     unless it is one of the kinds that are acknowledged with no effect; *)
(*   - FAILED is final unless an operator steps in, so only an event that  *)
(*     an operator put back can fail its way into the dead letter queue.   *)
(*                                                                         *)
(* SyncPipeline implements it: see Outbox in that module.                  *)
(***************************************************************************)
CONSTANTS
  Events,     \* the rows that can be inserted
  Kinds,      \* what a row is: its source, target, event type and payload
  Absent,     \* the kind of a row that has not been inserted
  NoEffect    \* the kinds that are acknowledged without any effect

Outcomes == {"PROCESSED", "FAILED", "DLQ"}
Statuses == {"PENDING"} \union Outcomes
Writers  == {"pipeline", "operator"}

VARIABLES
  kind,       \* Events -> Kinds \union {Absent}
  status,     \* the status column
  writer,     \* who wrote the status column last
  effected    \* the events whose effect has taken place

vars == <<kind, status, writer, effected>>

Init ==
  /\ kind = [e \in Events |-> Absent]
  /\ status = [e \in Events |-> "PENDING"]
  /\ writer = [e \in Events |-> "pipeline"]
  /\ effected = {}

Inserted == {e \in Events : kind[e] # Absent}

Submit(e, k) ==
  /\ e \notin Inserted
  /\ kind' = [kind EXCEPT ![e] = k]
  /\ UNCHANGED <<status, writer, effected>>

\* The effect may happen again: delivery is at least once.
TakeEffect(e) ==
  /\ e \in Inserted
  /\ effected' = effected \union {e}
  /\ UNCHANGED <<kind, status, writer>>

\* The pipeline may not revise an outcome of its own.
Undecided(e) == status[e] = "PENDING" \/ writer[e] = "operator"

RecordOutcome(e, o) ==
  /\ e \in Inserted
  /\ Undecided(e)
  /\ o = "PROCESSED" => e \in effected \/ kind[e] \in NoEffect
  /\ o = "DLQ" => writer[e] = "operator"
  /\ status' = [status EXCEPT ![e] = o]
  /\ writer' = [writer EXCEPT ![e] = "pipeline"]
  /\ UNCHANGED <<kind, effected>>

Override(e, s) ==
  /\ e \in Inserted
  /\ status' = [status EXCEPT ![e] = s]
  /\ writer' = [writer EXCEPT ![e] = "operator"]
  /\ UNCHANGED <<kind, effected>>

Next ==
  \E e \in Events :
    \/ \E k \in Kinds : Submit(e, k)
    \/ TakeEffect(e)
    \/ \E o \in Outcomes : RecordOutcome(e, o)
    \/ \E s \in Statuses : Override(e, s)

Spec == Init /\ [][Next]_vars
=============================================================================
