------------------------- MODULE SyncCapture_proofs -------------------------
(***************************************************************************)
(* Proofs about SyncCapture, for any number of rows, handlers, consumers,  *)
(* events, operators' writes and restarts.                                 *)
(***************************************************************************)
EXTENDS SyncCapture, TLAPS

USE DEF HandlerState, ConsumerState

\* A side effect that is still to happen has been marked, and none of them
\* is on its way into the table except the notification of an inbound row.
Chains ==
  /\ \A e \in Events : kind[e] # "outbound" => depth[e] = 0
  /\ \A h \in Handlers :
       /\ handler[h].depth <= 1
       /\ handler[h].depth = 1 => handler[h].name = "notification:sent"
  /\ \A c \in Consumers :
       /\ consumer[c].pc # "idle" => consumer[c].row \in Events
       /\ consumer[c].pc = "notify" => "notification:sent" \in syncOrigin
       /\ consumer[c].pc = "audit" => "audit:logged" \in syncOrigin

\* A handler has seen rows that exist.
SawInserted == \A h \in Handlers : handler[h].saw \subseteq Inserted

IInv == TypeOK /\ ChainsAreShort /\ DedupHolds /\ Chains /\ SawInserted

\* Nothing is captured, marked or running at first.
THEOREM InitIInv == Init => IInv
<1> SUFFICES ASSUME Init PROVE IInv
  OBVIOUS
<1> USE DEF Init, Outbox!Init, Inserted
<1>1. Inserted = {}
  OBVIOUS
<1>2. TypeOK
  BY DEF TypeOK, IdleHandler, IdleConsumer, Outbox!Statuses, Outbox!Outcomes, Outbox!Writers
<1>3. ChainsAreShort /\ DedupHolds /\ Chains /\ SawInserted
  BY <1>1 DEF ChainsAreShort, DedupHolds, Chains, SawInserted, IdleHandler, IdleConsumer
<1>4. QED BY <1>2, <1>3 DEF IInv

-----------------------------------------------------------------------------
(* The parts of an action *)

\* An emission that is no third link of a chain leaves the handlers as the
\* invariant wants them; one that is marked as sync-origin changes nothing.
LEMMA EmissionKeeps ==
  ASSUME IInv, NEW name \in Names, NEW id \in Ids \union {NoId}, NEW d \in Nat,
         name \in syncOrigin \/ (d <= 1 /\ (d = 1 => name = "notification:sent")),
         OnModuleEvent(name, id, d)
  PROVE  \/ handler' = handler
         \/ \E h \in Handlers : handler' = [handler EXCEPT ![h] =
              [pc |-> "check", name |-> name, id |-> id, depth |-> d, saw |-> {}]]
            /\ d <= 1 /\ (d = 1 => name = "notification:sent")
BY DEF OnModuleEvent

\* What the invariant says of the handlers is preserved by an emission when
\* the rows stay as they are.
LEMMA EmissionIInv ==
  ASSUME IInv, NEW name \in Names, NEW id \in Ids \union {NoId}, NEW d \in Nat,
         name \in syncOrigin \/ (d <= 1 /\ (d = 1 => name = "notification:sent")),
         OnModuleEvent(name, id, d)
  PROVE  /\ handler' \in [Handlers -> HandlerState]
         /\ \A h \in Handlers :
              /\ handler'[h].depth <= 1
              /\ handler'[h].depth = 1 => handler'[h].name = "notification:sent"
              /\ handler'[h].saw \subseteq Inserted
              /\ handler'[h].pc = "insert" => handler'[h] = handler[h]
<1>1. CASE handler' = handler
  BY <1>1 DEF IInv, TypeOK, Chains, SawInserted
<1>2. ASSUME NEW g \in Handlers, d <= 1 /\ (d = 1 => name = "notification:sent"),
             handler' = [handler EXCEPT ![g] =
               [pc |-> "check", name |-> name, id |-> id, depth |-> d, saw |-> {}]]
      PROVE  /\ handler' \in [Handlers -> HandlerState]
             /\ \A h \in Handlers :
                  /\ handler'[h].depth <= 1
                  /\ handler'[h].depth = 1 => handler'[h].name = "notification:sent"
                  /\ handler'[h].saw \subseteq Inserted
                  /\ handler'[h].pc = "insert" => handler'[h] = handler[h]
  BY <1>2 DEF IInv, TypeOK, Chains, SawInserted
<1>3. QED BY <1>1, <1>2, EmissionKeeps

\* An emission, whatever the consumers do in the same step, when the rows
\* stay as they are and no mark is removed.
LEMMA EmitterIInv ==
  ASSUME IInv, NEW name \in Names, NEW id \in Ids \union {NoId}, NEW d \in Nat,
         name \in syncOrigin \/ (d <= 1 /\ (d = 1 => name = "notification:sent")),
         OnModuleEvent(name, id, d),
         UNCHANGED <<kind, status, writer, columns>>,
         effected' \subseteq Events,
         syncOrigin \subseteq syncOrigin', syncOrigin' \subseteq SideEffectNames,
         consumer' \in [Consumers -> ConsumerState],
         \A c \in Consumers :
           /\ consumer'[c].pc # "idle" => consumer'[c].row \in Events
           /\ consumer'[c].pc = "notify" => "notification:sent" \in syncOrigin'
           /\ consumer'[c].pc = "audit" => "audit:logged" \in syncOrigin'
  PROVE  IInv'
<1> USE DEF columns
<1>1. Inserted' = Inserted
  BY DEF Inserted
<1>2. /\ handler' \in [Handlers -> HandlerState]
      /\ \A h \in Handlers :
           /\ handler'[h].depth <= 1
           /\ handler'[h].depth = 1 => handler'[h].name = "notification:sent"
           /\ handler'[h].saw \subseteq Inserted
           /\ handler'[h].pc = "insert" => handler'[h] = handler[h]
  BY EmissionIInv
<1>3. TypeOK'
  BY <1>1, <1>2 DEF IInv, TypeOK
<1>4. ChainsAreShort'
  BY <1>1 DEF IInv, ChainsAreShort
<1>5. DedupHolds'
  BY <1>2 DEF IInv, DedupHolds
<1>6. Chains'
  BY <1>2 DEF IInv, Chains
<1>7. SawInserted'
  BY <1>1, <1>2 DEF SawInserted
<1>8. QED BY <1>3, <1>4, <1>5, <1>6, <1>7 DEF IInv

\* A new row: it takes over the depth of what led to it.
LEMMA InsertIInv ==
  ASSUME IInv, NEW e \in Events, NEW k \in Kinds,
         NEW name \in Names \union {NoId}, NEW id \in Ids \union {NoId}, NEW d \in Nat,
         Insert(e, k, name, id, d),
         d <= 1, d = 1 => name = "notification:sent" /\ k = "outbound",
         UNCHANGED <<syncOrigin, consumer>>,
         \/ handler' = handler
         \/ \E h \in Handlers : handler' = [handler EXCEPT ![h] = IdleHandler]
  PROVE  IInv'
<1> USE DEF Insert, Outbox!Submit, Outbox!Inserted
<1>1. Absent \notin Kinds /\ kind[e] = Absent /\ Inserted' = Inserted \union {e} /\ e \notin Inserted
  <2>1. kind \in [Events -> Kinds \union {Absent}] /\ Absent \notin Kinds
    BY DEF IInv, TypeOK, Kinds, Absent
  <2>2. kind[e] = Absent /\ e \notin Inserted
    BY <2>1 DEF Inserted
  <2>3. \A f \in Events : f # e => kind'[f] = kind[f]
    BY <2>1
  <2>4. kind'[e] = k
    BY <2>1
  <2>5. QED BY <2>1, <2>2, <2>3, <2>4 DEF Inserted
<1>2. \A h \in Handlers : handler'[h] = handler[h] \/ handler'[h] = IdleHandler
  BY DEF IInv, TypeOK
<1>3. handler' \in [Handlers -> HandlerState]
  <2>1. IdleHandler \in HandlerState
    BY DEF IdleHandler
  <2>2. QED BY <2>1 DEF IInv, TypeOK
<1>4. TypeOK'
  BY <1>1, <1>3 DEF IInv, TypeOK
<1>5. ChainsAreShort'
  <2>1. ASSUME NEW f \in Inserted'
        PROVE  depth'[f] <= 1 /\ (depth'[f] = 1 => rowName'[f] = "notification:sent")
    <3>1. CASE f = e
      BY <3>1 DEF IInv, TypeOK
    <3>2. CASE f # e
      BY <1>1, <2>1, <3>2 DEF IInv, TypeOK, ChainsAreShort
    <3>3. QED BY <3>1, <3>2
  <2>2. QED BY <2>1 DEF ChainsAreShort
<1>6. DedupHolds'
  <2>1. ASSUME NEW h \in Handlers, handler'[h].pc = "insert", NEW f \in handler'[h].saw,
               status'[f] = "PENDING" /\ f \in fresh'
        PROVE  writer'[f] = "operator"
    <3>1. handler'[h] = handler[h]
      BY <1>2, <2>1 DEF IdleHandler
    <3>2. f \in Inserted /\ f # e
      BY <1>1, <2>1, <3>1 DEF IInv, SawInserted
    <3>3. QED BY <2>1, <3>1, <3>2 DEF IInv, DedupHolds
  <2>2. QED BY <2>1 DEF DedupHolds
<1>7. Chains'
  <2>1. \A f \in Events : kind'[f] # "outbound" => depth'[f] = 0
    BY DEF IInv, TypeOK, Chains
  <2>2. \A h \in Handlers :
          /\ handler'[h].depth <= 1
          /\ handler'[h].depth = 1 => handler'[h].name = "notification:sent"
    BY <1>2 DEF IInv, Chains, IdleHandler
  <2>3. QED BY <2>1, <2>2 DEF IInv, Chains
<1>8. SawInserted'
  BY <1>1, <1>2 DEF IInv, SawInserted, IdleHandler
<1>9. QED BY <1>4, <1>5, <1>6, <1>7, <1>8 DEF IInv

\* A step of a handler that ends it, or of a consumer or row that keeps the
\* rows inserted, the handlers and the marks as the invariant wants them.
LEMMA QuietIInv ==
  ASSUME IInv,
         UNCHANGED <<kind, rowName, rowId, depth>>,
         status' \in [Events -> Outbox!Statuses], writer' \in [Events -> Outbox!Writers],
         effected' \subseteq Events, fresh' \subseteq fresh,
         \A e \in Events : \/ status'[e] = status[e] /\ writer'[e] = writer[e]
                           \/ status'[e] # "PENDING"
                           \/ writer'[e] = "operator",
         \A h \in Handlers : handler'[h] = handler[h] \/ handler'[h] = IdleHandler,
         handler' \in [Handlers -> HandlerState],
         syncOrigin' \subseteq SideEffectNames,
         consumer' \in [Consumers -> ConsumerState],
         \A c \in Consumers :
           /\ consumer'[c].pc # "idle" => consumer'[c].row \in Events
           /\ consumer'[c].pc = "notify" => "notification:sent" \in syncOrigin'
           /\ consumer'[c].pc = "audit" => "audit:logged" \in syncOrigin'
  PROVE  IInv'
<1>1. Inserted' = Inserted
  BY DEF Inserted
<1>2. TypeOK'
  BY <1>1 DEF IInv, TypeOK
<1>3. ChainsAreShort'
  BY <1>1 DEF IInv, ChainsAreShort
<1>4. DedupHolds'
  <2>1. ASSUME NEW h \in Handlers, handler'[h].pc = "insert", NEW f \in handler'[h].saw,
               status'[f] = "PENDING" /\ f \in fresh'
        PROVE  writer'[f] = "operator"
    <3>1. handler'[h] = handler[h]
      BY <2>1 DEF IdleHandler
    <3>2. f \in Events
      BY <3>1, <2>1 DEF IInv, SawInserted, Inserted
    <3>3. QED BY <2>1, <3>1, <3>2 DEF IInv, DedupHolds
  <2>2. QED BY <2>1 DEF DedupHolds
<1>5. Chains'
  <2>1. \A h \in Handlers :
          /\ handler'[h].depth <= 1
          /\ handler'[h].depth = 1 => handler'[h].name = "notification:sent"
    BY DEF IInv, Chains, IdleHandler
  <2>2. QED BY <2>1 DEF IInv, Chains
<1>6. SawInserted'
  BY <1>1 DEF IInv, SawInserted, IdleHandler
<1>7. QED BY <1>2, <1>3, <1>4, <1>5, <1>6 DEF IInv

-----------------------------------------------------------------------------
(* Every step *)

\* A record of consumer c in a new state, the others as they are.
LEMMA ConsumerFacts ==
  ASSUME IInv, NEW c \in Consumers,
         NEW r \in ConsumerState,
         consumer' = [consumer EXCEPT ![c] = r],
         syncOrigin \subseteq syncOrigin',
         r.pc # "idle" => r.row \in Events,
         r.pc = "notify" => "notification:sent" \in syncOrigin',
         r.pc = "audit" => "audit:logged" \in syncOrigin'
  PROVE  /\ consumer' \in [Consumers -> ConsumerState]
         /\ \A a \in Consumers :
              /\ consumer'[a].pc # "idle" => consumer'[a].row \in Events
              /\ consumer'[a].pc = "notify" => "notification:sent" \in syncOrigin'
              /\ consumer'[a].pc = "audit" => "audit:logged" \in syncOrigin'
<1>1. consumer \in [Consumers -> ConsumerState]
  BY DEF IInv, TypeOK
<1>2. \A a \in Consumers : consumer'[a] = IF a = c THEN r ELSE consumer[a]
  BY <1>1
<1>3. \A a \in Consumers :
        /\ consumer'[a].pc # "idle" => consumer'[a].row \in Events
        /\ consumer'[a].pc = "notify" => "notification:sent" \in syncOrigin'
        /\ consumer'[a].pc = "audit" => "audit:logged" \in syncOrigin'
  BY <1>2 DEF IInv, Chains
<1>4. QED BY <1>1, <1>3

\* What starts a consumer marks audit logs if it skips the lookup.
LEMMA StartConsumerFacts ==
  ASSUME IInv, NEW e \in Events, NEW cause \in {"processed", "failed", "dlq"},
         StartConsumer(e, cause)
  PROVE  /\ consumer' \in [Consumers -> ConsumerState]
         /\ syncOrigin' \subseteq SideEffectNames
         /\ \A a \in Consumers :
              /\ consumer'[a].pc # "idle" => consumer'[a].row \in Events
              /\ consumer'[a].pc = "notify" => "notification:sent" \in syncOrigin'
              /\ consumer'[a].pc = "audit" => "audit:logged" \in syncOrigin'
<1>1. PICK c \in Consumers :
        IF cause = "dlq"
          THEN /\ MarkAsSyncOrigin("audit:logged")
               /\ consumer' = [consumer EXCEPT ![c] = [pc |-> "audit", row |-> e, cause |-> cause]]
          ELSE /\ UNCHANGED syncOrigin
               /\ consumer' = [consumer EXCEPT ![c] = [pc |-> "lookup", row |-> e, cause |-> cause]]
  BY DEF StartConsumer
<1>2. CASE cause = "dlq"
  <2>1. /\ syncOrigin \subseteq syncOrigin' /\ "audit:logged" \in syncOrigin'
        /\ syncOrigin' \subseteq SideEffectNames
    BY <1>1, <1>2 DEF MarkAsSyncOrigin, IInv, TypeOK, SideEffectNames
  <2>2. QED
    BY <1>1, <1>2, <2>1, ConsumerFacts
<1>3. CASE cause # "dlq"
  <2>1. UNCHANGED syncOrigin /\ syncOrigin \subseteq SideEffectNames
    BY <1>1, <1>3 DEF IInv, TypeOK
  <2>2. QED
    BY <1>1, <1>3, <2>1, ConsumerFacts
<1>4. QED BY <1>2, <1>3

\* A module emits: depth 0.
LEMMA EmitIInv == ASSUME IInv, NEW m \in ModuleEvents, Emit(m) PROVE IInv'
<1>1. m.name \in Names /\ GuessEntityId(m.payload) \in Ids \union {NoId}
  BY NamesAssumption, PayloadAssumption
<1>2. UNCHANGED <<kind, status, writer, columns, effected, syncOrigin, consumer>>
      /\ OnModuleEvent(m.name, GuessEntityId(m.payload), 0)
  BY DEF Emit, outbox
<1>3. effected' \subseteq Events /\ syncOrigin' \subseteq SideEffectNames
  BY <1>2 DEF IInv, TypeOK
<1>4. consumer' \in [Consumers -> ConsumerState]
  BY <1>2 DEF IInv, TypeOK
<1>5. \A c \in Consumers :
        /\ consumer'[c].pc # "idle" => consumer'[c].row \in Events
        /\ consumer'[c].pc = "notify" => "notification:sent" \in syncOrigin'
        /\ consumer'[c].pc = "audit" => "audit:logged" \in syncOrigin'
  BY <1>2 DEF IInv, Chains
<1>6. QED BY <1>1, <1>2, <1>3, <1>4, <1>5, EmitterIInv

\* The check: a handler that goes on has seen no duplicate.
LEMMA CheckIInv == ASSUME IInv, NEW h \in Handlers, CheckIdempotency(h) PROVE IInv'
<1> DEFINE name == handler[h].name
           id == handler[h].id
<1>1. UNCHANGED <<kind, status, writer, effected, rowName, rowId, fresh, depth,
                  syncOrigin, consumer>>
  BY DEF CheckIdempotency, outbox, columns
<1>2. Inserted' = Inserted
  BY <1>1 DEF Inserted
<1>3. CASE Duplicates(name, id) # {}
  <2>1. handler' = [handler EXCEPT ![h] = IdleHandler]
    BY <1>3 DEF CheckIdempotency
  <2>2. handler' \in [Handlers -> HandlerState]
    BY <2>1 DEF IInv, TypeOK, IdleHandler
  <2>3. \A g \in Handlers : handler'[g] = handler[g] \/ handler'[g] = IdleHandler
    BY <2>1 DEF IInv, TypeOK
  <2>4. TypeOK' /\ ChainsAreShort'
    BY <1>1, <1>2, <2>2 DEF IInv, TypeOK, ChainsAreShort
  <2>5. DedupHolds'
    BY <1>1, <2>3 DEF IInv, DedupHolds, IdleHandler
  <2>6. Chains' /\ SawInserted'
    BY <1>1, <1>2, <2>3 DEF IInv, Chains, SawInserted, IdleHandler
  <2>7. QED BY <2>4, <2>5, <2>6 DEF IInv
<1>4. CASE Duplicates(name, id) = {}
  <2>1. handler' = [handler EXCEPT ![h].pc = "insert", ![h].saw = OfKey(name, id)]
    BY <1>4 DEF CheckIdempotency
  <2>2. handler \in [Handlers -> HandlerState]
    BY DEF IInv, TypeOK
  <2> DEFINE r == [handler[h] EXCEPT !.pc = "insert", !.saw = OfKey(name, id)]
  <2>3. handler' = [handler EXCEPT ![h] = r]
    BY <2>1, <2>2
  <2>4. OfKey(name, id) \subseteq Inserted /\ Inserted \subseteq Events
    BY DEF OfKey, Inserted
  <2>5. \A e \in OfKey(name, id) : ~(status[e] = "PENDING" /\ e \in fresh)
    BY <1>4 DEF Duplicates
  <2>6. r \in HandlerState /\ r.depth = handler[h].depth /\ r.name = handler[h].name
        /\ r.saw = OfKey(name, id)
    BY <2>2, <2>4
  <2> HIDE DEF r
  <2>7. handler' \in [Handlers -> HandlerState]
        /\ \A g \in Handlers :
             \/ handler'[g] = handler[g]
             \/ /\ handler'[g].depth = handler[g].depth /\ handler'[g].name = handler[g].name
                /\ handler'[g].saw = OfKey(name, id)
    BY <2>2, <2>3, <2>6
  <2>8. TypeOK' /\ ChainsAreShort'
    BY <1>1, <1>2, <2>7 DEF IInv, TypeOK, ChainsAreShort
  <2>9. DedupHolds'
    BY <1>1, <2>5, <2>7 DEF IInv, DedupHolds
  <2>10. Chains'
    BY <1>1, <2>7 DEF IInv, Chains
  <2>11. SawInserted'
    BY <1>2, <2>4, <2>7 DEF IInv, SawInserted
  <2>12. QED BY <2>8, <2>9, <2>10, <2>11 DEF IInv
<1>5. QED BY <1>3, <1>4

\* The captured row takes over name and depth of its handler.
LEMMA CreateIInv == ASSUME IInv, NEW h \in Handlers, CreateCaptured(h) PROVE IInv'
<1>1. PICK e \in Events : Insert(e, "outbound", handler[h].name, handler[h].id, handler[h].depth)
  BY DEF CreateCaptured
<1>2. /\ handler[h].name \in Names \union {NoId} /\ handler[h].id \in Ids \union {NoId}
      /\ handler[h].depth \in Nat /\ "outbound" \in Kinds
  BY DEF IInv, TypeOK, Kinds
<1>3. handler[h].depth <= 1 /\ (handler[h].depth = 1 => handler[h].name = "notification:sent")
  BY DEF IInv, Chains
<1>4. UNCHANGED <<syncOrigin, consumer>> /\ handler' = [handler EXCEPT ![h] = IdleHandler]
  BY DEF CreateCaptured
<1>5. QED BY <1>1, <1>2, <1>3, <1>4, InsertIInv

\* A row from outside starts a chain of its own.
LEMMA ArriveIInv ==
  ASSUME IInv, NEW k \in Kinds, NEW name \in Names, NEW id \in Ids, Arrive(k, name, id)
  PROVE  IInv'
<1>1. PICK e \in Events : Insert(e, k, name, id, 0)
  BY DEF Arrive
<1>2. UNCHANGED <<syncOrigin, consumer, handler>>
  BY DEF Arrive
<1>3. QED BY <1>1, <1>2, InsertIInv

\* A handler or a consumer gives up.
LEMMA GiveUpIInv ==
  ASSUME IInv, (\E h \in Handlers : LoseEvent(h)) \/ (\E c \in Consumers : ConsumerThrows(c))
  PROVE  IInv'
<1>1. UNCHANGED <<kind, status, writer, effected, rowName, rowId, fresh, depth, syncOrigin>>
  BY DEF LoseEvent, ConsumerThrows, outbox, columns
<1>2. \A h \in Handlers : handler'[h] = handler[h] \/ handler'[h] = IdleHandler
  BY DEF LoseEvent, ConsumerThrows, IInv, TypeOK
<1>3. handler' \in [Handlers -> HandlerState]
  BY DEF LoseEvent, ConsumerThrows, IInv, TypeOK, IdleHandler
<1>4. /\ consumer' \in [Consumers -> ConsumerState]
      /\ \A c \in Consumers : consumer'[c] = consumer[c] \/ consumer'[c] = IdleConsumer
  BY DEF LoseEvent, ConsumerThrows, Done, IInv, TypeOK, IdleConsumer
<1>5. \A c \in Consumers :
        /\ consumer'[c].pc # "idle" => consumer'[c].row \in Events
        /\ consumer'[c].pc = "notify" => "notification:sent" \in syncOrigin'
        /\ consumer'[c].pc = "audit" => "audit:logged" \in syncOrigin'
  BY <1>1, <1>4 DEF IInv, Chains, IdleConsumer
<1>6. QED BY <1>1, <1>2, <1>3, <1>4, <1>5, QuietIInv DEF IInv, TypeOK

\* Five minutes pass for a row.
LEMMA WindowIInv == ASSUME IInv, NEW e \in Events, WindowPasses(e) PROVE IInv'
<1>1. /\ UNCHANGED <<kind, status, writer, effected, rowName, rowId, depth, syncOrigin,
                     handler, consumer>>
      /\ fresh' \subseteq fresh
  BY DEF WindowPasses, outbox
<1>2. \A c \in Consumers :
        /\ consumer'[c].pc # "idle" => consumer'[c].row \in Events
        /\ consumer'[c].pc = "notify" => "notification:sent" \in syncOrigin'
        /\ consumer'[c].pc = "audit" => "audit:logged" \in syncOrigin'
  BY <1>1 DEF IInv, Chains
<1>3. QED BY <1>1, <1>2, QuietIInv DEF IInv, TypeOK

\* The effect of a row: only an inbound row notifies, and it has depth 0.
LEMMA TakeEffectIInv == ASSUME IInv, NEW e \in Events, TakeEffect(e) PROVE IInv'
<1>1. /\ UNCHANGED <<kind, status, writer, columns, syncOrigin, consumer>>
      /\ effected' = effected \union {e}
  BY DEF TakeEffect, Outbox!TakeEffect
<1>2. /\ effected' \subseteq Events /\ syncOrigin' \subseteq SideEffectNames
      /\ consumer' \in [Consumers -> ConsumerState]
  BY <1>1 DEF IInv, TypeOK
<1>3. \A c \in Consumers :
        /\ consumer'[c].pc # "idle" => consumer'[c].row \in Events
        /\ consumer'[c].pc = "notify" => "notification:sent" \in syncOrigin'
        /\ consumer'[c].pc = "audit" => "audit:logged" \in syncOrigin'
  BY <1>1 DEF IInv, Chains
<1>4. CASE kind[e] = "inbound"
  <2>1. PICK user \in Ids : OnModuleEvent("notification:sent", user, depth[e] + 1)
    BY <1>4 DEF TakeEffect
  <2>2. depth[e] + 1 = 1 /\ "notification:sent" \in Names
    BY <1>4, NamesAssumption DEF IInv, Chains, SideEffectNames
  <2>3. OnModuleEvent("notification:sent", user, 1)
    BY <2>1, <2>2
  <2>4. QED BY <1>1, <1>2, <1>3, <2>2, <2>3, EmitterIInv
<1>5. CASE kind[e] # "inbound"
  <2>1. UNCHANGED handler
    BY <1>5 DEF TakeEffect
  <2>2. QED BY <1>1, <1>2, <1>3, <2>1, QuietIInv DEF IInv, TypeOK, columns
<1>6. QED BY <1>4, <1>5

\* An outcome or an operator's write, and the consumer it may start.
LEMMA OutcomeIInv ==
  ASSUME IInv, NEW e \in Events,
         NEW s \in Outbox!Statuses, NEW by \in Outbox!Writers,
         s # "PENDING" \/ by = "operator",
         status' = [status EXCEPT ![e] = s], writer' = [writer EXCEPT ![e] = by],
         UNCHANGED <<kind, effected, columns, handler>>,
         \/ UNCHANGED <<syncOrigin, consumer>>
         \/ \E cause \in {"processed", "failed", "dlq"} : StartConsumer(e, cause)
  PROVE  IInv'
<1>1. /\ status' \in [Events -> Outbox!Statuses] /\ writer' \in [Events -> Outbox!Writers]
      /\ effected' \subseteq Events /\ fresh' \subseteq fresh
      /\ UNCHANGED <<kind, rowName, rowId, depth>>
  BY DEF IInv, TypeOK, columns
<1>2. \A f \in Events : \/ status'[f] = status[f] /\ writer'[f] = writer[f]
                        \/ status'[f] # "PENDING"
                        \/ writer'[f] = "operator"
  BY DEF IInv, TypeOK
<1>3. /\ consumer' \in [Consumers -> ConsumerState]
      /\ syncOrigin' \subseteq SideEffectNames
      /\ \A a \in Consumers :
           /\ consumer'[a].pc # "idle" => consumer'[a].row \in Events
           /\ consumer'[a].pc = "notify" => "notification:sent" \in syncOrigin'
           /\ consumer'[a].pc = "audit" => "audit:logged" \in syncOrigin'
  <2>1. CASE UNCHANGED <<syncOrigin, consumer>>
    BY <2>1 DEF IInv, TypeOK, Chains
  <2>2. CASE \E cause \in {"processed", "failed", "dlq"} : StartConsumer(e, cause)
    BY <2>2, StartConsumerFacts
  <2>3. QED BY <2>1, <2>2
<1>4. QED BY <1>1, <1>2, <1>3, QuietIInv DEF IInv, TypeOK

\* The steps of the rows.
LEMMA RowStepIInv == ASSUME IInv, NEW e \in Events, RowStep(e) PROVE IInv'
<1>1. CASE WindowPasses(e)
  BY <1>1, WindowIInv
<1>2. CASE TakeEffect(e)
  BY <1>2, TakeEffectIInv
<1>3. ASSUME NEW o \in Outbox!Outcomes, RecordOutcome(e, o) PROVE IInv'
  <2>1. o \in Outbox!Statuses /\ o # "PENDING" /\ "pipeline" \in Outbox!Writers
    BY DEF Outbox!Statuses, Outbox!Outcomes, Outbox!Writers
  <2>2. /\ status' = [status EXCEPT ![e] = o] /\ writer' = [writer EXCEPT ![e] = "pipeline"]
        /\ UNCHANGED <<kind, effected, columns, handler>>
    BY <1>3 DEF RecordOutcome, Outbox!RecordOutcome
  <2>3. \/ UNCHANGED <<syncOrigin, consumer>>
        \/ \E cause \in {"processed", "failed", "dlq"} : StartConsumer(e, cause)
    BY <1>3 DEF RecordOutcome
  <2>4. QED BY <2>1, <2>2, <2>3, OutcomeIInv
<1>4. ASSUME NEW s \in Outbox!Statuses, Override(e, s) PROVE IInv'
  <2>1. "operator" \in Outbox!Writers
    BY DEF Outbox!Writers
  <2>2. /\ status' = [status EXCEPT ![e] = s] /\ writer' = [writer EXCEPT ![e] = "operator"]
        /\ UNCHANGED <<kind, effected, columns, handler>>
    BY <1>4 DEF Override, Outbox!Override
  <2>3. \/ UNCHANGED <<syncOrigin, consumer>>
        \/ \E cause \in {"processed", "failed", "dlq"} : StartConsumer(e, cause)
    BY <1>4 DEF Override
  <2>4. QED BY <2>1, <2>2, <2>3, OutcomeIInv
<1>5. QED BY <1>1, <1>2, <1>3, <1>4 DEF RowStep

\* The lookup marks the name of the side effect that the next step has.
LEMMA LookupIInv == ASSUME IInv, NEW c \in Consumers, Lookup(c) PROVE IInv'
<1>1. UNCHANGED <<kind, status, writer, effected, columns, rowName, rowId, fresh, depth, handler>>
  BY DEF Lookup, outbox, columns
<1>2. consumer[c] \in ConsumerState
      /\ consumer[c].row \in Events
  BY DEF Lookup, IInv, TypeOK, Chains
<1>3. \E r \in ConsumerState :
        /\ consumer' = [consumer EXCEPT ![c] = r]
        /\ syncOrigin \subseteq syncOrigin'
        /\ syncOrigin' \subseteq SideEffectNames
        /\ r.pc # "idle" => r.row \in Events
        /\ r.pc = "notify" => "notification:sent" \in syncOrigin'
        /\ r.pc = "audit" => "audit:logged" \in syncOrigin'
  <2>0. syncOrigin \subseteq SideEffectNames
    BY DEF IInv, TypeOK
  <2>1. CASE MarkAsSyncOrigin("notification:sent") /\ Await(c, "notify")
    <3> DEFINE r == [consumer[c] EXCEPT !.pc = "notify"]
    <3>1. consumer' = [consumer EXCEPT ![c] = r]
      BY <2>1 DEF Await
    <3>2. r \in ConsumerState /\ r.pc = "notify" /\ r.row \in Events
      BY <2>0, <1>2
    <3>3. /\ syncOrigin \subseteq syncOrigin' /\ "notification:sent" \in syncOrigin'
          /\ syncOrigin' \subseteq SideEffectNames
      BY <2>0, <1>2, <2>1 DEF MarkAsSyncOrigin, SideEffectNames
    <3> HIDE DEF r
    <3>4. QED BY <3>1, <3>2, <3>3
  <2>2. CASE MarkAsSyncOrigin("audit:logged") /\ Await(c, "audit")
    <3> DEFINE r == [consumer[c] EXCEPT !.pc = "audit"]
    <3>1. consumer' = [consumer EXCEPT ![c] = r]
      BY <2>2 DEF Await
    <3>2. r \in ConsumerState /\ r.pc = "audit" /\ r.row \in Events
      BY <2>0, <1>2
    <3>3. /\ syncOrigin \subseteq syncOrigin' /\ "audit:logged" \in syncOrigin'
          /\ syncOrigin' \subseteq SideEffectNames
      BY <2>0, <1>2, <2>2 DEF MarkAsSyncOrigin, SideEffectNames
    <3> HIDE DEF r
    <3>4. QED BY <3>1, <3>2, <3>3
  <2>3. CASE UNCHANGED syncOrigin /\ Done(c)
    <3>1. IdleConsumer \in ConsumerState /\ IdleConsumer.pc = "idle"
      BY DEF IdleConsumer
    <3>2. QED BY <2>0, <2>3, <3>1 DEF Done
  <2>4. QED BY <2>1, <2>2, <2>3 DEF Lookup
<1>4. QED
  <2>1. /\ consumer' \in [Consumers -> ConsumerState]
        /\ syncOrigin' \subseteq SideEffectNames
        /\ \A a \in Consumers :
             /\ consumer'[a].pc # "idle" => consumer'[a].row \in Events
             /\ consumer'[a].pc = "notify" => "notification:sent" \in syncOrigin'
             /\ consumer'[a].pc = "audit" => "audit:logged" \in syncOrigin'
    BY <1>3, ConsumerFacts
  <2>2. QED BY <1>1, <2>1, QuietIInv DEF IInv, TypeOK

\* A side effect of a consumer is skipped: its name has been marked.
LEMMA SideEffectIInv ==
  ASSUME IInv, NEW c \in Consumers, Notify(c) \/ Audit(c)
  PROVE  IInv'
<1>1. UNCHANGED <<kind, status, writer, effected, columns>>
  BY DEF Notify, Audit, outbox
<1>2. consumer[c].row \in Events /\ syncOrigin \subseteq SideEffectNames
  BY DEF Notify, Audit, IInv, TypeOK, Chains
<1>3. UNCHANGED handler
  <2>1. CASE Notify(c)
    <3>1. "notification:sent" \in syncOrigin
      BY <2>1 DEF Notify, IInv, Chains
    <3>2. QED BY <2>1, <3>1 DEF Notify, OnModuleEvent
  <2>2. CASE Audit(c)
    <3>1. "audit:logged" \in syncOrigin
      BY <2>2 DEF Audit, IInv, Chains
    <3>2. QED BY <2>2, <3>1 DEF Audit, OnModuleEvent
  <2>3. QED BY <2>1, <2>2
<1>4. consumer[c] \in ConsumerState
  BY DEF IInv, TypeOK
<1>5. \E r \in ConsumerState :
        /\ consumer' = [consumer EXCEPT ![c] = r]
        /\ syncOrigin \subseteq syncOrigin'
        /\ syncOrigin' \subseteq SideEffectNames
        /\ r.pc # "idle" => r.row \in Events
        /\ r.pc = "notify" => "notification:sent" \in syncOrigin'
        /\ r.pc = "audit" => "audit:logged" \in syncOrigin'
  <2>1. CASE MarkAsSyncOrigin("audit:logged") /\ Await(c, "audit")
    <3> DEFINE r == [consumer[c] EXCEPT !.pc = "audit"]
    <3>1. consumer' = [consumer EXCEPT ![c] = r]
      BY <2>1 DEF Await
    <3>2. r \in ConsumerState /\ r.pc = "audit" /\ r.row \in Events
      BY <1>2, <1>4
    <3>3. /\ syncOrigin \subseteq syncOrigin' /\ "audit:logged" \in syncOrigin'
          /\ syncOrigin' \subseteq SideEffectNames
      BY <1>2, <1>4, <2>1 DEF MarkAsSyncOrigin, SideEffectNames
    <3> HIDE DEF r
    <3>4. QED BY <3>1, <3>2, <3>3
  <2>2. CASE UNCHANGED syncOrigin /\ Done(c)
    <3>1. IdleConsumer \in ConsumerState /\ IdleConsumer.pc = "idle"
      BY DEF IdleConsumer
    <3>2. QED BY <1>2, <2>2, <3>1 DEF Done
  <2>3. QED BY <2>1, <2>2 DEF Notify, Audit
<1>6. /\ consumer' \in [Consumers -> ConsumerState]
      /\ syncOrigin' \subseteq SideEffectNames
      /\ \A a \in Consumers :
           /\ consumer'[a].pc # "idle" => consumer'[a].row \in Events
           /\ consumer'[a].pc = "notify" => "notification:sent" \in syncOrigin'
           /\ consumer'[a].pc = "audit" => "audit:logged" \in syncOrigin'
  BY <1>5, ConsumerFacts
<1>7. QED BY <1>1, <1>3, <1>6, QuietIInv DEF IInv, TypeOK, columns

\* After a restart nothing runs, so nothing needs a mark.
LEMMA CrashIInv == ASSUME IInv, Crash PROVE IInv'
<1>1. /\ UNCHANGED <<kind, status, writer, effected, rowName, rowId, fresh, depth>>
      /\ syncOrigin' = {}
      /\ \A h \in Handlers : handler'[h] = IdleHandler
      /\ \A c \in Consumers : consumer'[c] = IdleConsumer
  BY DEF Crash, outbox, columns
<1>2. handler' \in [Handlers -> HandlerState]
  BY DEF Crash, IdleHandler
<1>3. consumer' \in [Consumers -> ConsumerState]
  BY DEF Crash, IdleConsumer
<1>4. QED BY <1>1, <1>2, <1>3, QuietIInv DEF IInv, TypeOK, IdleConsumer

\* Every step preserves the invariant.
LEMMA NextIInv == IInv /\ [Next]_vars => IInv'
<1> SUFFICES ASSUME IInv, [Next]_vars PROVE IInv'
  OBVIOUS
<1>1. CASE \E m \in ModuleEvents : Emit(m)
  BY <1>1, EmitIInv
<1>2. CASE \E k \in Kinds, name \in Names, id \in Ids : Arrive(k, name, id)
  BY <1>2, ArriveIInv
<1>3. CASE \E h \in Handlers : CheckIdempotency(h) \/ CreateCaptured(h)
  BY <1>3, CheckIInv, CreateIInv
<1>4. CASE (\E h \in Handlers : LoseEvent(h)) \/ (\E c \in Consumers : ConsumerThrows(c))
  BY <1>4, GiveUpIInv
<1>5. CASE \E e \in Events : RowStep(e)
  BY <1>5, RowStepIInv
<1>6. CASE \E c \in Consumers : Lookup(c) \/ Notify(c) \/ Audit(c)
  BY <1>6, LookupIInv, SideEffectIInv
<1>7. CASE Crash
  BY <1>7, CrashIInv
<1>8. CASE UNCHANGED vars
  BY <1>8 DEF vars, outbox, columns, IInv, TypeOK, ChainsAreShort, DedupHolds, Chains,
              SawInserted, Inserted
<1>9. QED BY <1>1, <1>2, <1>3, <1>4, <1>5, <1>6, <1>7, <1>8 DEF Next

\* The invariant holds in every reachable state.
THEOREM Invariance == Spec => []IInv
BY InitIInv, NextIInv, PTL DEF Spec

\* Every reachable state is well typed; no third name is ever marked.
THEOREM TypeCorrect == Spec => []TypeOK
<1>1. IInv => TypeOK
  BY DEF IInv
<1>2. QED BY <1>1, Invariance, PTL

\* Synchronising never feeds itself, however many rows and consumers.
THEOREM NoFeedback == Spec => []ChainsAreShort
<1>1. IInv => ChainsAreShort
  BY DEF IInv
<1>2. QED BY <1>1, Invariance, PTL

\* An event is captured beside a duplicate only in a race.
THEOREM DedupOutsideRaces == Spec => []DedupHolds
<1>1. IInv => DedupHolds
  BY DEF IInv
<1>2. QED BY <1>1, Invariance, PTL
=============================================================================
