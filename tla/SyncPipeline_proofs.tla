------------------------ MODULE SyncPipeline_proofs ------------------------
(***************************************************************************)
(* Proofs about SyncPipeline, for any number of events, batches, operators' *)
(* writes and faults, any page size and any MAX_RETRIES above one.         *)
(***************************************************************************)
EXTENDS SyncPipeline, TLAPS

Active(b) == pc[b] \notin {"idle", "fetch"}

\* The event a batch is at, and those it has still to come to.
Ahead(b) == IF Active(b) THEN todo[b] \union {cur[b]} ELSE {}

\* What the program counter of a batch says of its local variables.
BatchShape ==
  \A b \in Batches :
    /\ ~Active(b) => cur[b] = NoEvent /\ todo[b] = {} /\ handled[b] = {}
    /\ Active(b) => cur[b] \in Inserted
    /\ todo[b] \subseteq Inserted
    /\ handled[b] \subseteq Inserted
    /\ \A e \in todo[b] : cur[b] < e
    /\ pc[b] \in {"mark", "confirm"} => cur[b] \in effected \/ kind[cur[b]] \in NoEffect

\* A row that has not been inserted.
RowShape == \A e \in Events : kind[e] = Absent => status[e] = "PENDING"

\* An outcome is never recorded over one that the pipeline has recorded.
AheadUndecided ==
  \A b \in Batches : \A e \in Ahead(b) : status[e] = "PENDING" \/ writer[e] = "operator"

\* Only an operator gives a PENDING row a failed attempt; a batch that read
\* one read it from such a row.
FreshRetries ==
  /\ \A e \in Events : status[e] = "PENDING" /\ writer[e] = "pipeline" => retry[e] = 0
  /\ \A b \in Batches : \A e \in Ahead(b) : writer[e] = "pipeline" => seenRetry[b][e] = 0

\* The effect of e will be attempted again unless something intervenes.
Spent(e) == \E b \in Batches : cur[b] = e /\ pc[b] \in {"mark", "confirm", "reject", "fail"}

Due(e) ==
  \/ status[e] = "PENDING" /\ ~Spent(e)
  \/ \E b \in Batches : e \in todo[b]
  \/ \E b \in Batches : cur[b] = e /\ pc[b] \in {"post", "dispatch"}

\* An attempt that is due has been paid for already.
Credit ==
  \A e \in Events :
    /\ attempts[e] <= 1 + requeues[e] + faults
    /\ Due(e) => attempts[e] <= requeues[e] + faults

IInv ==
  /\ TypeOK
  /\ FlagIsLock
  /\ BatchShape
  /\ RowShape
  /\ EffectBeforeProcessed
  /\ AheadUndecided
  /\ FreshRetries
  /\ NoRowLeftPending
  /\ Credit

-----------------------------------------------------------------------------

\* The empty table with no batch running satisfies the inductive invariant.
THEOREM InitIInv == Init => IInv
<1> SUFFICES ASSUME Init PROVE IInv
  OBVIOUS
<1> USE DEF Init, Events, NoEvent
<1>1. TypeOK
  BY DEF TypeOK, Inserted, Statuses, Outcomes, Pcs, Kinds, Absent
<1>2. FlagIsLock /\ BatchShape /\ RowShape
  BY DEF FlagIsLock, BatchShape, RowShape, Active
<1>3. EffectBeforeProcessed
  BY DEF EffectBeforeProcessed, Inserted
<1>. AheadUndecided /\ FreshRetries /\ NoRowLeftPending
  BY DEF AheadUndecided, FreshRetries, NoRowLeftPending, Ahead, Active
<1>4. Credit
  BY BoundsAssumption DEF Credit
<1>5. QED BY <1>1, <1>2, <1>3, <1>4 DEF IInv

-----------------------------------------------------------------------------
(* Steps that leave the batches alone *)

\* An insert during a batch: the new row is on no page.
LEMMA CreateEventIInv ==
  ASSUME IInv, NEW e \in Events, NEW k \in Kinds, CreateEvent(e, k)
  PROVE  IInv'
<1> USE DEF CreateEvent, batchVars, history, operatorVars
<1> SUFFICES IInv'
  OBVIOUS
<1>1. TypeOK'
  BY DEF IInv, TypeOK, Inserted
<1>2. Inserted' = Inserted \union {e} /\ e \notin Inserted /\ k # Absent
  BY DEF IInv, TypeOK, Inserted, Kinds, Absent
<1>3. FlagIsLock'
  BY DEF IInv, FlagIsLock
<1>4. \A f \in Inserted : kind'[f] = kind[f]
  BY <1>2 DEF IInv, TypeOK, Inserted
<1>5. BatchShape'
  BY <1>2, <1>4 DEF IInv, TypeOK, BatchShape, Active
<1>6. RowShape' /\ EffectBeforeProcessed'
  BY <1>2, <1>4 DEF IInv, TypeOK, RowShape, EffectBeforeProcessed, Inserted
<1>7. AheadUndecided' /\ FreshRetries' /\ NoRowLeftPending'
  BY DEF IInv, AheadUndecided, FreshRetries, NoRowLeftPending, Ahead, Active
<1>8. Credit'
  BY DEF IInv, Credit, Due, Spent
<1>9. QED
  BY <1>1, <1>3, <1>5, <1>6, <1>7, <1>8 DEF IInv

\* An operator's write under a running batch, whatever row it hits.
LEMMA OperatorWriteIInv ==
  ASSUME IInv, NEW e \in Events, NEW s \in Statuses, OperatorWrite(e, s),
         NEW r \in Nat, retry' = retry \/ retry' = [retry EXCEPT ![e] = r],
         retrying' \subseteq retrying, writes' \in Nat
  PROVE  IInv'
<1> USE DEF OperatorWrite, WriteStatus, batchVars, history
<1>1. TypeOK'
  BY DEF IInv, TypeOK, Inserted
<1>2. /\ Inserted' = Inserted
      /\ status'[e] = s /\ writer'[e] = "operator"
      /\ \A f \in Events \ {e} : /\ status'[f] = status[f] /\ writer'[f] = writer[f]
                                  /\ retry'[f] = retry[f] /\ requeues'[f] = requeues[f]
      /\ requeues'[e] = IF s = "PENDING" THEN requeues[e] + 1 ELSE requeues[e]
  BY DEF IInv, TypeOK, Inserted
<1>3. FlagIsLock' /\ BatchShape'
  BY <1>2 DEF IInv, FlagIsLock, BatchShape, Active
<1>4. RowShape' /\ EffectBeforeProcessed'
  BY <1>2 DEF IInv, RowShape, EffectBeforeProcessed, Inserted
<1>5. AheadUndecided' /\ NoRowLeftPending' /\ FreshRetries'
  <2>1. \A b \in Batches : Ahead(b) \subseteq Events /\ handled[b] \subseteq Events
    BY DEF IInv, TypeOK, BatchShape, Ahead, Active, Inserted
  <2>2. QED
    BY <1>2, <2>1 DEF IInv, AheadUndecided, FreshRetries, NoRowLeftPending, Ahead, Active
<1>6. Credit'
  <2> SUFFICES ASSUME NEW f \in Events
               PROVE  /\ attempts[f] <= 1 + requeues'[f] + faults
                      /\ Due(f)' => attempts[f] <= requeues'[f] + faults
    BY DEF Credit
  <2>1. attempts[f] \in Nat /\ requeues[f] \in Nat /\ faults \in Nat
    BY DEF IInv, TypeOK
  <2>2. attempts[f] <= 1 + requeues[f] + faults
    BY DEF IInv, Credit
  <2>3. CASE f = e /\ s = "PENDING"
    BY <1>2, <2>1, <2>2, <2>3
  <2>4. CASE ~(f = e /\ s = "PENDING")
    <3>1. Due(f)' => Due(f)
      BY <1>2, <2>4 DEF Due, Spent
    <3>2. QED BY <1>2, <2>1, <2>2, <2>4, <3>1 DEF IInv, Credit
  <2>5. QED BY <2>3, <2>4
<1>7. QED BY <1>1, <1>3, <1>4, <1>5, <1>6 DEF IInv

-----------------------------------------------------------------------------
(* The loop of a batch *)

\* The lock: what FlagIsLock and BatchShape say when b is running.
LEMMA OnlyBatch ==
  ASSUME IInv, NEW b \in Batches, pc[b] # "idle", NEW c \in Batches, c # b
  PROVE  /\ pc[c] = "idle" /\ ~Active(c)
         /\ cur[c] = NoEvent /\ todo[c] = {} /\ handled[c] = {} /\ Ahead(c) = {}
         /\ processing
BY DEF IInv, FlagIsLock, BatchShape, Active, Ahead

\* What the end of an iteration does to the loop, whatever it wrote before.
LEMMA AdvanceFacts ==
  ASSUME IInv, NEW b \in Batches, Active(b), Advance(b),
         UNCHANGED kind, effected \subseteq effected'
  PROVE  /\ processing' \in BOOLEAN /\ pc' \in [Batches -> Pcs]
         /\ cur' \in [Batches -> Events \union {NoEvent}]
         /\ todo' \in [Batches -> SUBSET Events]
         /\ seenRetry' \in [Batches -> [Events -> Nat]]
         /\ handled' \in [Batches -> SUBSET Events]
         /\ FlagIsLock' /\ BatchShape'
         /\ \A c \in Batches : /\ handled'[c] \subseteq handled[c] \union {cur[b]}
                              /\ Ahead(c)' \subseteq Ahead(c) \ {cur[b]}
                              /\ \A e \in Ahead(c)' : seenRetry'[c][e] = seenRetry[c][e]
         /\ \A e \in Events \ {cur[b]} : Due(e)' /\ status'[e] = status[e] => Due(e)
         /\ ~(\E c \in Batches : cur[b] \in todo'[c] \/ cur'[c] = cur[b])
<1>1. /\ Inserted' = Inserted
      /\ kind \in [Events -> Kinds \union {Absent}]
      /\ processing \in BOOLEAN /\ pc \in [Batches -> Pcs]
      /\ cur \in [Batches -> Events \union {NoEvent}]
      /\ todo \in [Batches -> SUBSET Events]
      /\ seenRetry \in [Batches -> [Events -> Nat]]
      /\ handled \in [Batches -> SUBSET Events]
      /\ cur[b] \in Inserted /\ cur[b] \in Events /\ cur[b] \in Nat /\ cur[b] # NoEvent
      /\ todo[b] \subseteq Inserted /\ todo[b] \subseteq Events
      /\ Inserted \subseteq Events
      /\ \A e \in todo[b] : cur[b] < e
      /\ handled[b] \subseteq Inserted
      /\ pc[b] \notin {"idle", "fetch"}
  <2>1. /\ Inserted' = Inserted /\ Inserted \subseteq Events
        /\ kind \in [Events -> Kinds \union {Absent}]
        /\ processing \in BOOLEAN /\ pc \in [Batches -> Pcs]
        /\ cur \in [Batches -> Events \union {NoEvent}]
        /\ todo \in [Batches -> SUBSET Events]
        /\ seenRetry \in [Batches -> [Events -> Nat]]
        /\ handled \in [Batches -> SUBSET Events]
    BY DEF IInv, TypeOK, Inserted
  <2>2. /\ cur[b] \in Inserted /\ todo[b] \subseteq Inserted /\ handled[b] \subseteq Inserted
        /\ \A e \in todo[b] : cur[b] < e
        /\ pc[b] \notin {"idle", "fetch"}
    BY DEF IInv, BatchShape, Active
  <2>3. cur[b] \in Nat /\ cur[b] # NoEvent
    BY <2>1, <2>2, BoundsAssumption DEF Events, NoEvent
  <2>4. QED BY <2>1, <2>2, <2>3
<1>2. \A c \in Batches \ {b} : /\ pc[c] = "idle" /\ ~Active(c) /\ cur[c] = NoEvent
                              /\ todo[c] = {} /\ handled[c] = {} /\ Ahead(c) = {}
  BY <1>1, OnlyBatch
<1>3. processing
  BY <1>1 DEF IInv, FlagIsLock
<1>4. \A e \in Events \ {cur[b]} : ~Spent(e)
  BY <1>1, <1>2 DEF Spent
<1>5. CASE todo[b] = {} /\ EndBatch(b)
  <2>1. /\ processing' = FALSE
        /\ pc' = [pc EXCEPT ![b] = "idle"]
        /\ cur' = [cur EXCEPT ![b] = NoEvent]
        /\ todo' = [todo EXCEPT ![b] = {}]
        /\ seenRetry' = [seenRetry EXCEPT ![b] = [e \in Events |-> 0]]
        /\ handled' = [handled EXCEPT ![b] = {}]
    BY <1>5 DEF EndBatch, Goto
  <2>2. \A c \in Batches : /\ pc'[c] = "idle" /\ ~Active(c)' /\ cur'[c] = NoEvent
                          /\ todo'[c] = {} /\ handled'[c] = {} /\ Ahead(c)' = {}
    BY <1>1, <1>2, <2>1 DEF Active, Ahead
  <2>3. /\ pc' \in [Batches -> Pcs]
        /\ cur' \in [Batches -> Events \union {NoEvent}]
        /\ todo' \in [Batches -> SUBSET Events]
        /\ seenRetry' \in [Batches -> [Events -> Nat]]
        /\ handled' \in [Batches -> SUBSET Events]
    BY <1>1, <2>1 DEF Pcs
  <2>4. FlagIsLock' /\ BatchShape'
    BY <2>1, <2>2 DEF FlagIsLock, BatchShape
  <2>5. \A e \in Events \ {cur[b]} : Due(e)' /\ status'[e] = status[e] => Due(e)
    BY <1>4, <2>2 DEF Due
  <2>6. QED
    BY <1>1, <2>1, <2>2, <2>3, <2>4, <2>5
<1>6. CASE /\ TakeNext(b, todo[b]) /\ handled' = [handled EXCEPT ![b] = @ \union {cur[b]}]
           /\ UNCHANGED <<processing, seenRetry>>
  <2>1. PICK e \in todo[b] : /\ \A f \in todo[b] : e <= f
                             /\ pc' = [pc EXCEPT ![b] = Route(kind[e])]
                             /\ cur' = [cur EXCEPT ![b] = e]
                             /\ todo' = [todo EXCEPT ![b] = todo[b] \ {e}]
    BY <1>6 DEF TakeNext, Goto
  <2>2. e \in Inserted /\ e \in Events /\ cur[b] < e /\ kind[e] \in Kinds
    BY <1>1 DEF Inserted
  <2>3. /\ Route(kind[e]) \in Pcs \ {"idle", "fetch", "confirm", "fail"}
        /\ Route(kind[e]) = "mark" => kind[e] \in NoEffect
    BY <2>2 DEF Route, Pcs, Kinds, NoEffect
  <2>4. \A c \in Batches \ {b} : /\ pc'[c] = "idle" /\ ~Active(c)' /\ cur'[c] = NoEvent
                                /\ todo'[c] = {} /\ handled'[c] = {} /\ Ahead(c)' = {}
    BY <1>1, <1>2, <1>6, <2>1 DEF Active, Ahead
  <2>5. /\ pc'[b] = Route(kind[e]) /\ Active(b)' /\ cur'[b] = e
        /\ todo'[b] = todo[b] \ {e} /\ handled'[b] = handled[b] \union {cur[b]}
        /\ Ahead(b)' = todo[b]
    BY <1>1, <1>6, <2>1, <2>3 DEF Active, Ahead
  <2>6. /\ pc' \in [Batches -> Pcs]
        /\ cur' \in [Batches -> Events \union {NoEvent}]
        /\ todo' \in [Batches -> SUBSET Events]
        /\ handled' \in [Batches -> SUBSET Events]
    BY <1>1, <1>6, <2>1, <2>2, <2>3
  <2>7. FlagIsLock'
    BY <1>3, <1>6, <2>3, <2>4, <2>5 DEF FlagIsLock
  <2>8. BatchShape'
    <3> SUFFICES ASSUME NEW c \in Batches
                 PROVE  /\ ~Active(c)' => cur'[c] = NoEvent /\ todo'[c] = {} /\ handled'[c] = {}
                        /\ Active(c)' => cur'[c] \in Inserted
                        /\ todo'[c] \subseteq Inserted
                        /\ handled'[c] \subseteq Inserted
                        /\ \A f \in todo'[c] : cur'[c] < f
                        /\ pc'[c] \in {"mark", "confirm"}
                             => cur'[c] \in effected' \/ kind'[cur'[c]] \in NoEffect
      BY <1>1 DEF BatchShape
    <3>1. CASE c # b
      BY <2>4, <3>1
    <3>2. CASE c = b
      BY <1>1, <2>1, <2>2, <2>3, <2>5, <3>2 DEF Events
    <3>3. QED BY <3>1, <3>2
  <2>9. \A c \in Batches : /\ handled'[c] \subseteq handled[c] \union {cur[b]}
                          /\ Ahead(c)' \subseteq Ahead(c) \ {cur[b]}
                          /\ \A f \in Ahead(c)' : seenRetry'[c][f] = seenRetry[c][f]
    BY <1>1, <1>6, <2>4, <2>5 DEF Ahead, Active
  <2>10. \A f \in Events \ {cur[b]} : Due(f)' /\ status'[f] = status[f] => Due(f)
    BY <1>1, <1>4, <2>1, <2>4, <2>5 DEF Due
  <2>11. ~(\E c \in Batches : cur[b] \in todo'[c] \/ cur'[c] = cur[b])
    BY <1>1, <2>2, <2>4, <2>5
  <2>12. QED
    BY <1>1, <1>6, <2>6, <2>7, <2>8, <2>9, <2>10, <2>11
<1>7. QED BY <1>5, <1>6 DEF Advance

\* The end of an iteration that records an outcome.
LEMMA OutcomeIInv ==
  ASSUME IInv, NEW b \in Batches, Active(b), Advance(b),
         NEW e \in Events, e = cur[b],
         NEW o \in Outcomes, WriteStatus(e, o, "pipeline"),
         o = "PROCESSED" => e \in effected \/ kind[e] \in NoEffect,
         NEW r \in Nat, retry' = retry \/ retry' = [retry EXCEPT ![e] = r],
         UNCHANGED <<kind, history, operatorVars, faults>>
  PROVE  IInv'
<1> USE DEF WriteStatus, history, operatorVars
<1>1. /\ Inserted' = Inserted /\ Inserted \subseteq Events
      /\ e \in Inserted /\ e \in Events
      /\ UNCHANGED <<attempts, effected, retrying, requeues, writes, faults>>
  BY DEF IInv, TypeOK, BatchShape, Inserted
<1>2. /\ status'[e] = o /\ writer'[e] = "pipeline" /\ o # "PENDING"
      /\ \A f \in Events \ {e} : /\ status'[f] = status[f] /\ writer'[f] = writer[f]
                                  /\ retry'[f] = retry[f]
  BY <1>1 DEF IInv, TypeOK, Outcomes
<1>3. TypeOK'
  <2>1. /\ status' \in [Events -> Statuses]
        /\ writer' \in [Events -> {"pipeline", "operator"}]
        /\ retry' \in [Events -> Nat]
    BY <1>1 DEF IInv, TypeOK, Statuses
  <2>2. QED BY <1>1, <2>1, AdvanceFacts DEF IInv, TypeOK
<1>4. FlagIsLock' /\ BatchShape'
  BY AdvanceFacts
<1>5. RowShape' /\ EffectBeforeProcessed'
  BY <1>1, <1>2 DEF IInv, RowShape, EffectBeforeProcessed, Inserted
<1>6. \A c \in Batches : Ahead(c) \subseteq Events /\ handled[c] \subseteq Events
  BY DEF IInv, TypeOK, BatchShape, Ahead, Active, Inserted
<1>7. AheadUndecided'
  BY <1>1, <1>2, <1>6, AdvanceFacts DEF IInv, AheadUndecided
<1>8. FreshRetries'
  <2>1. \A f \in Events : status'[f] = "PENDING" /\ writer'[f] = "pipeline" => retry'[f] = 0
    BY <1>2 DEF IInv, FreshRetries
  <2>2. \A c \in Batches : \A f \in Ahead(c)' :
          /\ f \in Ahead(c) /\ f \in Events \ {e}
          /\ seenRetry'[c][f] = seenRetry[c][f]
    BY <1>6, AdvanceFacts
  <2>3. QED BY <1>2, <2>1, <2>2 DEF IInv, FreshRetries
<1>9. NoRowLeftPending'
  BY <1>1, <1>2, <1>6, AdvanceFacts DEF IInv, NoRowLeftPending
<1>10. ~Due(e)'
  <2>1. ~(\E c \in Batches : e \in todo'[c] \/ cur'[c] = e)
    BY AdvanceFacts
  <2>2. QED BY <1>2, <2>1 DEF Due
<1>11. \A f \in Events \ {e} : Due(f)' => Due(f)
  BY <1>2, AdvanceFacts
<1>12. Credit'
  BY <1>1, <1>10, <1>11 DEF IInv, Credit
<1>13. QED
  BY <1>3, <1>4, <1>5, <1>7, <1>8, <1>9, <1>12 DEF IInv

\* An attempt, whatever comes of it.
LEMMA AttemptIInv ==
  ASSUME IInv, NEW b \in Batches, pc[b] \in {"post", "dispatch"},
         NEW e \in Events, e = cur[b], Attempt(e),
         NEW l \in {"mark", "confirm", "reject", "fail"}, Goto(b, l),
         \/ effected' = effected \union {e}
         \/ effected' = effected /\ l \in {"reject", "fail"},
         UNCHANGED <<table, processing, cur, todo, seenRetry, handled, operatorVars, faults>>
  PROVE  IInv'
<1> USE DEF Attempt, Goto, table, operatorVars
<1>1. /\ Inserted' = Inserted /\ Inserted \subseteq Events
      /\ e \in Inserted /\ e \in Events /\ e \notin todo[b]
      /\ \A c \in Batches \ {b} : /\ pc[c] = "idle" /\ cur[c] # e /\ e \notin todo[c]
                                  /\ pc'[c] = pc[c]
      /\ pc'[b] = l /\ Active(b) /\ processing
      /\ effected \subseteq effected' /\ effected' \subseteq Events
  <2>1. Inserted' = Inserted /\ Inserted \subseteq Events
    BY DEF Inserted
  <2>2. Active(b) /\ e \in Inserted /\ \A f \in todo[b] : e < f
    BY DEF IInv, BatchShape, Active
  <2>3. e \in Nat /\ e # NoEvent
    BY BoundsAssumption DEF Events, NoEvent
  <2>4. \A c \in Batches \ {b} : pc[c] = "idle" /\ cur[c] = NoEvent /\ todo[c] = {}
    BY OnlyBatch
  <2>5. processing
    BY DEF IInv, FlagIsLock
  <2>6. \A c \in Batches \ {b} : pc'[c] = pc[c]
    BY DEF IInv, TypeOK
  <2>7. pc'[b] = l
    BY DEF IInv, TypeOK
  <2>8. effected \subseteq effected' /\ effected' \subseteq Events
    BY <2>3 DEF IInv, TypeOK
  <2>9. QED BY <2>1, <2>2, <2>3, <2>4, <2>5, <2>6, <2>7, <2>8
<1>2. TypeOK'
  BY <1>1 DEF IInv, TypeOK, Pcs
<1>3. FlagIsLock'
  BY <1>1 DEF IInv, FlagIsLock
<1>4. \A c \in Batches : Active(c)' <=> Active(c)
  BY <1>1 DEF Active
<1>5. BatchShape'
  BY <1>1, <1>4 DEF IInv, BatchShape
<1>6. RowShape' /\ EffectBeforeProcessed'
  BY <1>1 DEF IInv, RowShape, EffectBeforeProcessed
<1>7. AheadUndecided' /\ FreshRetries' /\ NoRowLeftPending'
  BY <1>4 DEF IInv, AheadUndecided, FreshRetries, NoRowLeftPending, Ahead
<1>8. Credit'
  <2>1. /\ attempts'[e] = attempts[e] + 1
        /\ \A f \in Events \ {e} : attempts'[f] = attempts[f]
        /\ \A f \in Events : attempts[f] \in Nat /\ requeues[f] \in Nat
        /\ faults \in Nat
    BY <1>1 DEF IInv, TypeOK
  <2>2. Due(e)
    BY DEF Due
  <2>3. ~Due(e)'
    BY <1>1 DEF Due, Spent
  <2>4. \A f \in Events \ {e} : Due(f)' => Due(f)
    BY <1>1 DEF Due, Spent
  <2>5. QED
    BY <1>1, <2>1, <2>2, <2>3, <2>4 DEF IInv, Credit
<1>9. QED
  BY <1>2, <1>3, <1>5, <1>6, <1>7, <1>8 DEF IInv

\* Reading a page.
LEMMA FetchIInv ==
  ASSUME IInv, NEW b \in Batches, Fetch(b)
  PROVE  IInv'
<1> USE DEF Fetch, table, history, operatorVars
<1>1. /\ Inserted' = Inserted /\ Inserted \subseteq Events /\ Pending \subseteq Inserted
      /\ pc[b] = "fetch" /\ ~Active(b) /\ processing
      /\ cur[b] = NoEvent /\ todo[b] = {} /\ handled[b] = {}
      /\ \A c \in Batches \ {b} : /\ pc[c] = "idle" /\ ~Active(c) /\ cur[c] = NoEvent
                                  /\ todo[c] = {} /\ handled[c] = {} /\ Ahead(c) = {}
      /\ UNCHANGED <<kind, status, retry, writer, attempts, effected, retrying, requeues,
                     writes, faults>>
  <2>1. pc[b] = "fetch" /\ ~Active(b) /\ processing
    BY DEF IInv, FlagIsLock, Active
  <2>2. cur[b] = NoEvent /\ todo[b] = {} /\ handled[b] = {}
    BY <2>1 DEF IInv, BatchShape
  <2>3. \A c \in Batches \ {b} : /\ pc[c] = "idle" /\ ~Active(c) /\ cur[c] = NoEvent
                                /\ todo[c] = {} /\ handled[c] = {} /\ Ahead(c) = {}
    BY <2>1, OnlyBatch
  <2>4. QED BY <2>1, <2>2, <2>3 DEF Inserted, Pending
<1>2. /\ RowShape' /\ EffectBeforeProcessed'
      /\ \A e \in Events : status[e] = "PENDING" /\ writer[e] = "pipeline" => retry[e] = 0
      /\ \A e \in Events : ~Spent(e)
  <2>1. \A e \in Events : ~Spent(e)
    BY <1>1 DEF Spent
  <2>2. QED BY <1>1, <2>1 DEF IInv, RowShape, EffectBeforeProcessed, FreshRetries
<1>3. CASE Pending = {} /\ EndBatch(b)
  <2>1. /\ processing' = FALSE
        /\ pc' = [pc EXCEPT ![b] = "idle"]
        /\ cur' = [cur EXCEPT ![b] = NoEvent]
        /\ todo' = [todo EXCEPT ![b] = {}]
        /\ seenRetry' = [seenRetry EXCEPT ![b] = [e \in Events |-> 0]]
        /\ handled' = [handled EXCEPT ![b] = {}]
    BY <1>3 DEF EndBatch, Goto
  <2>2. TypeOK'
    BY <1>1, <2>1 DEF IInv, TypeOK, Pcs
  <2>3. \A c \in Batches : /\ pc'[c] = "idle" /\ ~Active(c)' /\ cur'[c] = NoEvent
                          /\ todo'[c] = {} /\ handled'[c] = {} /\ Ahead(c)' = {}
    BY <1>1, <2>1 DEF IInv, TypeOK, Active, Ahead
  <2>4. FlagIsLock' /\ BatchShape' /\ AheadUndecided' /\ FreshRetries' /\ NoRowLeftPending'
    BY <1>1, <1>2, <2>1, <2>3
    DEF FlagIsLock, BatchShape, AheadUndecided, FreshRetries, NoRowLeftPending
  <2>5. \A e \in Events : Due(e)' => Due(e)
    BY <1>1, <1>2, <2>3 DEF Due
  <2>6. Credit'
    BY <1>1, <2>5 DEF IInv, Credit
  <2>7. QED BY <1>2, <2>2, <2>4, <2>6 DEF IInv
<1>4. CASE \E S \in SUBSET Pending :
             /\ IsPage(S)
             /\ TakeNext(b, S)
             /\ seenRetry' = [seenRetry EXCEPT ![b] =
                                [f \in Events |-> IF f \in S THEN retry[f] ELSE 0]]
             /\ UNCHANGED <<processing, handled>>
  <2>. PICK S \in SUBSET Pending :
             /\ TakeNext(b, S)
             /\ seenRetry' = [seenRetry EXCEPT ![b] =
                                [f \in Events |-> IF f \in S THEN retry[f] ELSE 0]]
             /\ UNCHANGED <<processing, handled>>
    BY <1>4
  <2>1. PICK e \in S :
             /\ \A f \in S : e <= f
             /\ pc' = [pc EXCEPT ![b] = Route(kind[e])]
             /\ cur' = [cur EXCEPT ![b] = e]
             /\ todo' = [todo EXCEPT ![b] = S \ {e}]
             /\ seenRetry' = [seenRetry EXCEPT ![b] =
                                [f \in Events |-> IF f \in S THEN retry[f] ELSE 0]]
             /\ UNCHANGED <<processing, handled>>
    BY DEF TakeNext, Goto
  <2>2. /\ S \subseteq Inserted /\ S \subseteq Events /\ e \in Events
        /\ kind[e] \in Kinds
        /\ \A f \in S : status[f] = "PENDING"
    BY <1>1 DEF Pending, Inserted, IInv, TypeOK
  <2>3. /\ Route(kind[e]) \in Pcs \ {"idle", "fetch", "confirm", "fail"}
        /\ Route(kind[e]) = "mark" => kind[e] \in NoEffect
    BY <2>2 DEF Route, Pcs, Kinds, NoEffect
  <2>4. \A c \in Batches \ {b} : /\ pc'[c] = "idle" /\ ~Active(c)' /\ cur'[c] = NoEvent
                                /\ todo'[c] = {} /\ handled'[c] = {} /\ Ahead(c)' = {}
    BY <1>1, <2>1 DEF IInv, TypeOK, Active, Ahead
  <2>5. /\ pc'[b] = Route(kind[e]) /\ Active(b)' /\ cur'[b] = e
        /\ todo'[b] = S \ {e} /\ handled'[b] = {} /\ Ahead(b)' = S
        /\ \A f \in S : seenRetry'[b][f] = retry[f]
    BY <1>1, <2>1, <2>2, <2>3 DEF IInv, TypeOK, Active, Ahead
  <2>6. TypeOK'
    <3>1. [f \in Events |-> IF f \in S THEN retry[f] ELSE 0] \in [Events -> Nat]
      BY DEF IInv, TypeOK
    <3>2. QED BY <1>1, <2>1, <2>2, <2>3, <3>1 DEF IInv, TypeOK
  <2>7. FlagIsLock'
    BY <1>1, <2>1, <2>3, <2>4, <2>5 DEF FlagIsLock
  <2>8. BatchShape'
    <3>1. \A f \in S \ {e} : e < f
      BY <2>1, <2>2 DEF Events
    <3>2. QED BY <1>1, <2>2, <2>3, <2>4, <2>5, <3>1 DEF BatchShape
  <2>9. AheadUndecided' /\ FreshRetries' /\ NoRowLeftPending'
    <3>1. \A c \in Batches : c = b \/ c \in Batches \ {b}
      OBVIOUS
    <3>2. QED
      BY <1>1, <1>2, <2>2, <2>4, <2>5, <3>1 DEF AheadUndecided, FreshRetries, NoRowLeftPending
  <2>10. \A f \in Events : Due(f)' => Due(f)
    BY <1>1, <1>2, <2>1, <2>2, <2>4, <2>5 DEF Due
  <2>11. Credit'
    BY <1>1, <2>10 DEF IInv, Credit
  <2>12. QED BY <1>2, <2>6, <2>7, <2>8, <2>9, <2>11 DEF IInv
<1>5. QED BY <1>3, <1>4

\* A tick takes the free lock.
LEMMA TickIInv ==
  ASSUME IInv, NEW b \in Batches, Tick(b)
  PROVE  IInv'
<1> USE DEF Tick, Goto, table, history, operatorVars
<1>1. /\ pc'[b] = "fetch" /\ pc[b] = "idle"
      /\ \A c \in Batches \ {b} : pc'[c] = "idle" /\ pc[c] = "idle"
  BY DEF IInv, TypeOK, FlagIsLock
<1>2. \A c \in Batches : ~Active(c) /\ ~Active(c)'
  BY <1>1 DEF Active
<1>3. TypeOK'
  BY DEF IInv, TypeOK, Pcs, Inserted
<1>4. FlagIsLock'
  BY <1>1 DEF FlagIsLock
<1>5. BatchShape' /\ RowShape' /\ EffectBeforeProcessed'
  BY <1>1, <1>2 DEF IInv, BatchShape, RowShape, EffectBeforeProcessed, Inserted
<1>6. AheadUndecided' /\ FreshRetries' /\ NoRowLeftPending'
  BY <1>2 DEF IInv, AheadUndecided, FreshRetries, NoRowLeftPending, Ahead
<1>7. Credit'
  BY <1>1 DEF IInv, Credit, Due, Spent
<1>8. QED BY <1>3, <1>4, <1>5, <1>6, <1>7 DEF IInv

-----------------------------------------------------------------------------
(* Faults: each pays for one more attempt of every event *)

\* One more fault and no more attempts: the bound on attempts grows.
LEMMA FaultCredit ==
  ASSUME IInv, Fault, UNCHANGED <<attempts, requeues>>
  PROVE  Credit'
<1>1. \A e \in Events : /\ attempts[e] \in Nat /\ requeues[e] \in Nat
                       /\ attempts[e] <= 1 + requeues[e] + faults
  BY DEF IInv, TypeOK, Credit
<1>2. faults \in Nat /\ faults' = faults + 1
  BY DEF IInv, TypeOK, Fault
<1>3. QED BY <1>1, <1>2 DEF Credit

\* The batches end and the table stays.
LEMMA AbortIInv ==
  ASSUME IInv, Fault, UNCHANGED <<table, history, requeues, writes>>,
         retrying' \subseteq retrying, processing' = FALSE,
         pc' = [b \in Batches |-> "idle"], cur' = [b \in Batches |-> NoEvent],
         todo' = [b \in Batches |-> {}], handled' = [b \in Batches |-> {}],
         seenRetry' \in [Batches -> [Events -> Nat]]
  PROVE  IInv'
<1> USE DEF table, history
<1>1. \A b \in Batches : ~Active(b)' /\ Ahead(b)' = {}
  BY DEF Active, Ahead
<1>2. TypeOK'
  <2>1. Inserted' = Inserted
    BY DEF Inserted
  <2>2. retrying' \subseteq Inserted' /\ effected' \subseteq Events
    BY <2>1 DEF IInv, TypeOK
  <2>3. pc' \in [Batches -> Pcs] /\ cur' \in [Batches -> Events \union {NoEvent}]
    BY DEF Pcs
  <2>4. todo' \in [Batches -> SUBSET Events] /\ handled' \in [Batches -> SUBSET Events]
    OBVIOUS
  <2>5. /\ kind' \in [Events -> Kinds \union {Absent}] /\ status' \in [Events -> Statuses]
        /\ retry' \in [Events -> Nat] /\ writer' \in [Events -> {"pipeline", "operator"}]
        /\ attempts' \in [Events -> Nat] /\ requeues' \in [Events -> Nat] /\ writes' \in Nat
    BY DEF IInv, TypeOK
  <2>6. faults' \in Nat
    BY DEF IInv, TypeOK, Fault
  <2>7. processing' \in BOOLEAN
    OBVIOUS
  <2>8. QED BY <2>2, <2>3, <2>4, <2>5, <2>6, <2>7 DEF TypeOK
<1>3. FlagIsLock' /\ BatchShape' /\ RowShape' /\ EffectBeforeProcessed'
  BY <1>1 DEF IInv, FlagIsLock, BatchShape, RowShape, EffectBeforeProcessed, Inserted
<1>4. AheadUndecided' /\ FreshRetries' /\ NoRowLeftPending'
  BY <1>1 DEF IInv, AheadUndecided, FreshRetries, NoRowLeftPending
<1>5. QED BY <1>2, <1>3, <1>4, FaultCredit DEF IInv

\* The finally block of the running batch leaves every batch idle.
LEMMA EndBatchAborts ==
  ASSUME IInv, NEW b \in Batches, pc[b] # "idle", EndBatch(b)
  PROVE  /\ processing' = FALSE
         /\ pc' = [c \in Batches |-> "idle"] /\ cur' = [c \in Batches |-> NoEvent]
         /\ todo' = [c \in Batches |-> {}] /\ handled' = [c \in Batches |-> {}]
         /\ seenRetry' \in [Batches -> [Events -> Nat]]
<1>1. \A c \in Batches \ {b} : /\ pc[c] = "idle" /\ cur[c] = NoEvent
                              /\ todo[c] = {} /\ handled[c] = {}
  BY OnlyBatch
<1>2. /\ pc \in [Batches -> Pcs] /\ cur \in [Batches -> Events \union {NoEvent}]
      /\ todo \in [Batches -> SUBSET Events] /\ handled \in [Batches -> SUBSET Events]
      /\ seenRetry \in [Batches -> [Events -> Nat]]
  BY DEF IInv, TypeOK
<1>3. QED BY <1>1, <1>2 DEF EndBatch, Goto

\* A write that throws leaves its event to the handler around it.
LEMMA WriteErrorIInv ==
  ASSUME IInv, NEW b \in Batches, WriteError(b)
  PROVE  IInv'
<1> USE DEF WriteError, Goto, table, history, operatorVars
<1>1. PICK l \in {"fail", "reject"} : pc' = [pc EXCEPT ![b] = l]
  OBVIOUS
<1>2. /\ pc[b] \in {"mark", "confirm", "reject"} /\ pc'[b] = l /\ pc'[b] # "idle"
      /\ \A c \in Batches \ {b} : pc'[c] = pc[c]
      /\ pc \in [Batches -> Pcs]
  BY <1>1 DEF IInv, TypeOK
<1>3. \A c \in Batches : (Active(c)' <=> Active(c)) /\ (pc'[c] = "idle" <=> pc[c] = "idle")
  BY <1>2 DEF Active
<1>4. TypeOK'
  BY <1>1 DEF IInv, TypeOK, Pcs, Inserted, Fault
<1>5. FlagIsLock' /\ BatchShape' /\ RowShape' /\ EffectBeforeProcessed'
  BY <1>2, <1>3 DEF IInv, FlagIsLock, BatchShape, RowShape, EffectBeforeProcessed, Inserted
<1>6. AheadUndecided' /\ FreshRetries' /\ NoRowLeftPending'
  BY <1>3 DEF IInv, AheadUndecided, FreshRetries, NoRowLeftPending, Ahead
<1>7. QED BY <1>4, <1>5, <1>6, FaultCredit DEF IInv

\* handleFailure that throws: only the swallowed error of moveToDlq goes on.
LEMMA FailErrorIInv ==
  ASSUME IInv, NEW b \in Batches, FailError(b)
  PROVE  IInv'
<1> USE DEF FailError
<1>1. CASE seenRetry[b][cur[b]] + 1 < MaxRetries
  <2>1. EndBatch(b) /\ pc[b] # "idle"
    <3>1. seenRetry[b][cur[b]] + 1 \in Nat
      BY DEF IInv, BatchShape, Active, TypeOK, Inserted
    <3>2. QED BY <1>1, <3>1, RetriesAssumption
  <2>2. QED BY <2>1, EndBatchAborts, AbortIInv DEF operatorVars
<1>2. CASE seenRetry[b][cur[b]] + 1 >= MaxRetries
  <2> USE DEF table, history, operatorVars
  <2>1. Advance(b) /\ Active(b) /\ cur[b] \in Events /\ cur[b] \in Ahead(b)
    BY <1>2 DEF IInv, BatchShape, Active, Inserted, Ahead
  <2>2. writer[cur[b]] = "operator"
    BY <1>2, <2>1, RetriesAssumption DEF IInv, FreshRetries, TypeOK
  <2>3. \A c \in Batches : Ahead(c) \subseteq Events /\ handled[c] \subseteq Events
    BY DEF IInv, TypeOK, BatchShape, Ahead, Active, Inserted
  <2>4. TypeOK'
    BY <2>1, AdvanceFacts DEF IInv, TypeOK, Inserted, Fault
  <2>5. FlagIsLock' /\ BatchShape'
    BY <2>1, AdvanceFacts
  <2>6. RowShape' /\ EffectBeforeProcessed'
    BY DEF IInv, RowShape, EffectBeforeProcessed, Inserted
  <2>7. AheadUndecided'
    BY <2>1, <2>3, AdvanceFacts DEF IInv, AheadUndecided
  <2>8. FreshRetries'
    <3>1. \A c \in Batches : \A f \in Ahead(c)' :
            f \in Ahead(c) /\ seenRetry'[c][f] = seenRetry[c][f]
      BY <2>1, AdvanceFacts
    <3>2. QED BY <3>1 DEF IInv, FreshRetries
  <2>9. NoRowLeftPending'
    BY <2>1, <2>2, AdvanceFacts DEF IInv, NoRowLeftPending
  <2>10. QED BY <2>4, <2>5, <2>6, <2>7, <2>8, <2>9, FaultCredit DEF IInv
<1>3. QED
  <2>1. seenRetry[b][cur[b]] \in Nat
    BY DEF IInv, BatchShape, Active, TypeOK, Inserted
  <2>2. QED BY <1>1, <1>2, <2>1, RetriesAssumption

-----------------------------------------------------------------------------
(* Every step *)

\* Every operation of an operator.
LEMMA OperatorStepIInv ==
  ASSUME IInv, NEW e \in Events, OperatorStep(e)
  PROVE  IInv'
<1> USE DEF Statuses, Outcomes
<1>1. retry[e] \in Nat /\ writes \in Nat /\ 0..MaxRetries \subseteq Nat
  BY RetriesAssumption DEF IInv, TypeOK
<1>2. ASSUME NEW s \in Statuses, NEW r \in 0..MaxRetries \union {retry[e]}, UpdateEvent(e, s, r)
      PROVE  IInv'
  <2>1. /\ OperatorWrite(e, s) /\ r \in Nat /\ retry' = [retry EXCEPT ![e] = r]
        /\ retrying' \subseteq retrying /\ writes' \in Nat
    BY <1>1, <1>2 DEF UpdateEvent
  <2>2. QED BY <2>1, OperatorWriteIInv
<1>3. ASSUME NEW s \in {"PROCESSED", "FAILED"}, MarkByOperator(e, s)
      PROVE  IInv'
  <2>1. /\ OperatorWrite(e, s) /\ 0 \in Nat /\ retry' = retry
        /\ retrying' \subseteq retrying /\ writes' \in Nat /\ s \in Statuses
    BY <1>1, <1>3 DEF MarkByOperator
  <2>2. QED BY <2>1, OperatorWriteIInv
<1>4. CASE RetryFromDlqCheck(e)
  <2> USE <1>4 DEF RetryFromDlqCheck, table, batchVars, history
  <2>1. TypeOK'
    BY <1>1 DEF IInv, TypeOK, Inserted
  <2>2. FlagIsLock' /\ BatchShape' /\ RowShape' /\ EffectBeforeProcessed'
    BY DEF IInv, FlagIsLock, BatchShape, RowShape, EffectBeforeProcessed, Inserted, Active
  <2>3. AheadUndecided' /\ FreshRetries' /\ NoRowLeftPending'
    BY DEF IInv, AheadUndecided, FreshRetries, NoRowLeftPending, Ahead, Active
  <2>4. Credit'
    BY DEF IInv, Credit, Due, Spent
  <2>5. QED BY <2>1, <2>2, <2>3, <2>4 DEF IInv
<1>5. CASE RetryFromDlqReset(e)
  <2>1. /\ OperatorWrite(e, "PENDING") /\ 0 \in Nat /\ retry' = [retry EXCEPT ![e] = 0]
        /\ retrying' \subseteq retrying /\ writes' \in Nat /\ "PENDING" \in Statuses
    BY <1>1, <1>5 DEF RetryFromDlqReset
  <2>2. QED BY <2>1, OperatorWriteIInv
<1>6. QED BY <1>2, <1>3, <1>4, <1>5 DEF OperatorStep

\* Every step of a batch.
LEMMA BatchStepIInv ==
  ASSUME IInv, NEW b \in Batches, BatchStep(b)
  PROVE  IInv'
<1>1. CASE Fetch(b)
  BY <1>1, FetchIInv
<1>2. CASE Post(b) \/ Dispatch(b)
  <2>1. pc[b] \in {"post", "dispatch"} /\ Active(b) /\ cur[b] \in Events
    BY <1>2 DEF Post, Dispatch, IInv, BatchShape, Active, Inserted
  <2>2. PICK l \in {"mark", "confirm", "reject", "fail"} :
          /\ Goto(b, l)
          /\ \/ effected' = effected \union {cur[b]}
             \/ effected' = effected /\ l \in {"reject", "fail"}
    BY <1>2 DEF Post, Dispatch, TakeEffect
  <2>3. /\ Attempt(cur[b])
        /\ UNCHANGED <<table, processing, cur, todo, seenRetry, handled, operatorVars, faults>>
    BY <1>2 DEF Post, Dispatch
  <2>4. QED BY <2>1, <2>2, <2>3, AttemptIInv
<1>3. CASE Mark(b) \/ Reject(b) \/ Fail(b)
  <2>1. Active(b) /\ cur[b] \in Events /\ Advance(b)
    BY <1>3 DEF Mark, Reject, Fail, IInv, BatchShape, Active, Inserted
  <2>2. seenRetry[b][cur[b]] + 1 \in Nat
    BY <2>1 DEF IInv, TypeOK
  <2>3. pc[b] \in {"mark", "confirm"} => cur[b] \in effected \/ kind[cur[b]] \in NoEffect
    BY DEF IInv, BatchShape
  <2>4. UNCHANGED <<kind, history, operatorVars, faults>>
    BY <1>3 DEF Mark, Reject, Fail
  <2>5. /\ \E o \in Outcomes :
             /\ WriteStatus(cur[b], o, "pipeline")
             /\ o = "PROCESSED" => cur[b] \in effected \/ kind[cur[b]] \in NoEffect
        /\ \E r \in Nat : retry' = retry \/ retry' = [retry EXCEPT ![cur[b]] = r]
    BY <1>3, <2>2, <2>3 DEF Mark, Reject, Fail, Outcomes
  <2>6. QED BY <2>1, <2>4, <2>5, OutcomeIInv
<1>4. CASE FetchError(b)
  BY <1>4, EndBatchAborts, AbortIInv DEF FetchError, operatorVars
<1>5. CASE WriteError(b)
  BY <1>5, WriteErrorIInv
<1>6. CASE FailError(b)
  BY <1>6, FailErrorIInv
<1>7. QED BY <1>1, <1>2, <1>3, <1>4, <1>5, <1>6 DEF BatchStep

\* A crash empties the memory and keeps the table.
LEMMA CrashIInv == IInv /\ Crash => IInv'
<1> SUFFICES ASSUME IInv, Crash PROVE IInv'
  OBVIOUS
<1>1. [b \in Batches |-> [e \in Events |-> 0]] \in [Batches -> [Events -> Nat]]
  OBVIOUS
<1>2. QED BY <1>1, AbortIInv DEF Crash

\* Every step of the pipeline preserves the inductive invariant.
LEMMA NextIInv == IInv /\ [Next]_vars => IInv'
<1> SUFFICES ASSUME IInv, [Next]_vars PROVE IInv'
  OBVIOUS
<1>1. CASE \E e \in Events, k \in Kinds : CreateEvent(e, k)
  BY <1>1, CreateEventIInv
<1>2. CASE \E e \in Events : OperatorStep(e)
  BY <1>2, OperatorStepIInv
<1>3. CASE \E b \in Batches : Tick(b)
  BY <1>3, TickIInv
<1>4. CASE \E b \in Batches : BatchStep(b)
  BY <1>4, BatchStepIInv
<1>5. CASE Crash
  BY <1>5, CrashIInv
<1>6. CASE UNCHANGED vars
  <2> USE <1>6 DEF vars, table, batchVars, history, operatorVars
  <2>1. TypeOK' /\ FlagIsLock' /\ BatchShape' /\ RowShape' /\ EffectBeforeProcessed'
    BY DEF IInv, TypeOK, FlagIsLock, BatchShape, RowShape, EffectBeforeProcessed, Inserted, Active
  <2>2. AheadUndecided' /\ FreshRetries' /\ NoRowLeftPending' /\ Credit'
    BY DEF IInv, AheadUndecided, FreshRetries, NoRowLeftPending, Ahead, Active, Credit, Due, Spent
  <2>3. QED BY <2>1, <2>2 DEF IInv
<1>7. QED BY <1>1, <1>2, <1>3, <1>4, <1>5, <1>6 DEF Next

\* IInv is inductive, so it holds in every reachable state.
THEOREM Invariance == Spec => []IInv
BY InitIInv, NextIInv, PTL DEF Spec

\* Every reachable state is well typed.
THEOREM TypeCorrect == Spec => []TypeOK
<1>1. IInv => TypeOK
  BY DEF IInv
<1>2. QED BY <1>1, Invariance, PTL

\* The processing flag is a lock, whatever fails.
THEOREM LockCorrect == Spec => []FlagIsLock
<1>1. IInv => FlagIsLock
  BY DEF IInv
<1>2. QED BY <1>1, Invariance, PTL

\* What the pipeline recorded as PROCESSED has had its effect.
THEOREM NoFalseSuccess == Spec => []EffectBeforeProcessed
<1>1. IInv => EffectBeforeProcessed
  BY DEF IInv
<1>2. QED BY <1>1, Invariance, PTL

\* An effect is repeated only after a fault or at an operator's request.
THEOREM AtLeastOnceAccounted == Spec => []RepeatsHaveACause
<1>1. IInv => RepeatsHaveACause
  BY DEF IInv, Credit, RepeatsHaveACause
<1>2. QED BY <1>1, Invariance, PTL

\* A batch leaves no row of its page PENDING that no operator queued again.
THEOREM PageIsCleared == Spec => []NoRowLeftPending
<1>1. IInv => NoRowLeftPending
  BY DEF IInv
<1>2. QED BY <1>1, Invariance, PTL

-----------------------------------------------------------------------------
(* Refinement *)

\* The writes of the pipeline are outcomes the outbox allows.
LEMMA OutcomeRefines ==
  ASSUME IInv, NEW b \in Batches, Active(b),
         NEW e \in Events, e = cur[b],
         NEW o \in Outcomes, WriteStatus(e, o, "pipeline"),
         o = "PROCESSED" => e \in effected \/ kind[e] \in NoEffect,
         o = "DLQ" => writer[e] = "operator",
         UNCHANGED <<kind, effected>>
  PROVE  Outbox!Next
<1>1. e \in Inserted /\ (status[e] = "PENDING" \/ writer[e] = "operator")
  BY DEF IInv, BatchShape, AheadUndecided, Ahead
<1>2. Outbox!RecordOutcome(e, o)
  BY <1>1 DEF Outbox!RecordOutcome, Outbox!Undecided, Outbox!Inserted, Inserted, WriteStatus
<1>3. QED BY <1>2 DEF Outbox!Next, Outbox!Outcomes, Outcomes

\* What operators write are overrides of the outbox.
LEMMA OperatorWriteRefines ==
  ASSUME NEW e \in Events, NEW s \in Statuses, OperatorWrite(e, s)
  PROVE  Outbox!Next
<1>1. Outbox!Override(e, s)
  BY DEF OperatorWrite, WriteStatus, history, Outbox!Override, Outbox!Inserted, Inserted
<1>2. QED BY <1>1 DEF Outbox!Next, Outbox!Statuses, Outbox!Outcomes, Statuses, Outcomes

\* Every step of the pipeline is a step of the outbox or a stutter.
LEMMA StepRefines == IInv /\ [Next]_vars => [Outbox!Next]_Outbox!vars
<1> SUFFICES ASSUME IInv, [Next]_vars
             PROVE  Outbox!Next \/ UNCHANGED <<kind, status, writer, effected>>
  BY DEF Outbox!vars
<1> USE DEF table, history
<1>1. ASSUME NEW e \in Events, NEW k \in Kinds, CreateEvent(e, k)
      PROVE  Outbox!Next
  <2>1. Outbox!Submit(e, k)
    BY <1>1 DEF CreateEvent, Outbox!Submit, Outbox!Inserted
  <2>2. QED BY <2>1 DEF Outbox!Next
<1>2. ASSUME NEW e \in Events, OperatorStep(e)
      PROVE  Outbox!Next \/ UNCHANGED <<kind, status, writer, effected>>
  <2>1. CASE \E s \in Statuses : OperatorWrite(e, s)
    BY <2>1, OperatorWriteRefines
  <2>2. CASE RetryFromDlqCheck(e)
    BY <2>2 DEF RetryFromDlqCheck
  <2>3. QED
    BY <1>2, <2>1, <2>2
    DEF OperatorStep, UpdateEvent, MarkByOperator, RetryFromDlqReset, Statuses, Outcomes
<1>3. ASSUME NEW b \in Batches, Tick(b) \/ Fetch(b)
      PROVE  UNCHANGED <<kind, status, writer, effected>>
  BY <1>3 DEF Tick, Fetch
<1>4. ASSUME NEW b \in Batches, Post(b) \/ Dispatch(b)
      PROVE  Outbox!Next \/ UNCHANGED <<kind, status, writer, effected>>
  <2>1. UNCHANGED <<kind, status, writer>>
    BY <1>4 DEF Post, Dispatch
  <2>2. cur[b] \in Inserted /\ cur[b] \in Events
    BY <1>4 DEF Post, Dispatch, IInv, BatchShape, Active, Inserted
  <2>3. CASE effected' = effected
    BY <2>1, <2>3
  <2>4. CASE effected' = effected \union {cur[b]}
    <3>1. Outbox!TakeEffect(cur[b])
      BY <2>1, <2>2, <2>4 DEF Outbox!TakeEffect, Outbox!Inserted, Inserted
    <3>2. QED BY <2>2, <3>1 DEF Outbox!Next
  <2>5. QED BY <1>4, <2>3, <2>4 DEF Post, Dispatch, TakeEffect
<1>5. ASSUME NEW b \in Batches, Mark(b) \/ Reject(b) \/ Fail(b)
      PROVE  Outbox!Next
  <2>1. Active(b) /\ cur[b] \in Events
    BY <1>5 DEF Mark, Reject, Fail, IInv, BatchShape, Active, Inserted
  <2>2. pc[b] \in {"mark", "confirm"} => cur[b] \in effected \/ kind[cur[b]] \in NoEffect
    BY DEF IInv, BatchShape
  <2>3. UNCHANGED <<kind, effected>>
    BY <1>5 DEF Mark, Reject, Fail
  <2>4. \E o \in Outcomes :
          /\ WriteStatus(cur[b], o, "pipeline")
          /\ o = "PROCESSED" => cur[b] \in effected \/ kind[cur[b]] \in NoEffect
          /\ o = "DLQ" => writer[cur[b]] = "operator"
    <3>1. CASE Mark(b) \/ Reject(b)
      BY <2>2, <3>1 DEF Mark, Reject, Outcomes
    <3>2. CASE Fail(b)
      <4>1. writer[cur[b]] = "pipeline" => seenRetry[b][cur[b]] + 1 < MaxRetries
        BY <2>1, RetriesAssumption DEF IInv, FreshRetries, Ahead
      <4>2. writer[cur[b]] \in {"pipeline", "operator"}
        BY <2>1 DEF IInv, TypeOK
      <4>3. seenRetry[b][cur[b]] + 1 \in Nat
        BY <2>1 DEF IInv, TypeOK
      <4>4. QED BY <3>2, <4>1, <4>2, <4>3, RetriesAssumption DEF Fail, Outcomes
    <3>3. QED BY <1>5, <3>1, <3>2
  <2>5. QED BY <2>1, <2>3, <2>4, OutcomeRefines
<1>6. ASSUME NEW b \in Batches, FetchError(b) \/ WriteError(b) \/ FailError(b)
      PROVE  UNCHANGED <<kind, status, writer, effected>>
  BY <1>6 DEF FetchError, WriteError, FailError
<1>7. CASE Crash
  BY <1>7 DEF Crash
<1>8. CASE UNCHANGED vars
  BY <1>8 DEF vars
<1>9. QED BY <1>1, <1>2, <1>3, <1>4, <1>5, <1>6, <1>7, <1>8 DEF Next, BatchStep

\* The pipeline implements the outbox.
THEOREM PipelineImplementsOutbox == Spec => OutboxSpec
<1>1. Init => Outbox!Init
  BY DEF Init, Outbox!Init
<1>2. QED
  BY <1>1, StepRefines, Invariance, PTL DEF Spec, OutboxSpec, Outbox!Spec
=============================================================================
