--------------------------- MODULE Notices_proofs ---------------------------
(***************************************************************************)
(* Proofs about Notices, for any number of users and of dispatches at the  *)
(* same time: the accounts of notices and messages are square, and the     *)
(* dispatcher implements NoticeBoard.                                      *)
(***************************************************************************)
EXTENDS Notices, FiniteSetTheorems, TLAPS

\* Whom a dispatch is telling, by where it is.
JobOK(d) ==
  /\ Inserting(d) => job[d].to \in Recipients \union {Stranger}
  /\ Sending(d) => job[d].to \in Recipients
  /\ (Inserting(d) \/ Sending(d)) /\ Direct(d) => job[d].to = job[d].event.target
  /\ job[d].pc \in {"audience", "department", "next", "last", "insertLast", "sendLast"} => ~Direct(d)
  /\ job[d].event.kind = "unmapped" => job[d].pc \in {"idle", "resolved", "rejected"}

\* The accounts of one user.
Square(u) ==
  /\ addressed[u] + unheard[u] = created[u] + lost[u] + Cardinality(InsertingFor(u))
  /\ messages[u] + unheard[u] + Cardinality(SendingTo(u)) <= created[u] + unconfirmed[u]

NoticesIInv ==
  /\ NoticesTypeOK
  /\ \A d \in Dispatches : JobOK(d)
  /\ \A u \in Recipients : Square(u)

LEMMA Counts ==
  ASSUME NoticesTypeOK, NEW u \in Recipients
  PROVE  /\ addressed[u] \in Nat /\ created[u] \in Nat /\ unheard[u] \in Nat
         /\ lost[u] \in Nat /\ messages[u] \in Nat /\ unconfirmed[u] \in Nat
BY DEF NoticesTypeOK

LEMMA SquareIsAddUp == NoticesAddUp <=> \A u \in Recipients : Square(u)
BY DEF NoticesAddUp, Square

-----------------------------------------------------------------------------
(* Counting *)

\* Bump adds one for a user, and nothing for what is no user.
LEMMA BumpAdds ==
  ASSUME NEW f \in [Recipients -> Nat], NEW x
  PROVE  /\ Bump(f, x) \in [Recipients -> Nat]
         /\ \A u \in Recipients : Bump(f, x)[u] = IF u = x THEN f[u] + 1 ELSE f[u]
BY DEF Bump

\* Two sets that differ in d at most.
LEMMA CountMoves ==
  ASSUME NEW S, NEW T, NEW d, IsFiniteSet(S), T \ {d} = S \ {d}
  PROVE  /\ Cardinality(S) \in Nat /\ Cardinality(T) \in Nat
         /\ Cardinality(T) + (IF d \in S THEN 1 ELSE 0) = Cardinality(S) + (IF d \in T THEN 1 ELSE 0)
<1>1. IsFiniteSet(S \ {d}) /\ Cardinality(S \ {d}) \in Nat
  BY FS_Subset, FS_CardinalityType
<1>2. Cardinality(S) = Cardinality(S \ {d}) + (IF d \in S THEN 1 ELSE 0)
  <2>1. CASE d \in S
    <3>1. S = (S \ {d}) \union {d}
      BY <2>1
    <3>2. Cardinality((S \ {d}) \union {d}) = Cardinality(S \ {d}) + 1
      BY <1>1, FS_AddElement
    <3>3. QED BY <1>1, <2>1, <3>1, <3>2
  <2>2. CASE d \notin S
    <3>1. S = S \ {d}
      BY <2>2
    <3>2. QED BY <1>1, <2>2, <3>1
  <2>3. QED BY <2>1, <2>2
<1>3. Cardinality(T) = Cardinality(S \ {d}) + (IF d \in T THEN 1 ELSE 0)
  <2>1. CASE d \in T
    <3>1. T = (S \ {d}) \union {d}
      BY <2>1
    <3>2. Cardinality((S \ {d}) \union {d}) = Cardinality(S \ {d}) + 1
      BY <1>1, FS_AddElement
    <3>3. QED BY <1>1, <2>1, <3>1, <3>2
  <2>2. CASE d \notin T
    <3>1. T = S \ {d}
      BY <2>2
    <3>2. QED BY <1>1, <2>2, <3>1
  <2>3. QED BY <2>1, <2>2
<1>4. QED BY <1>1, <1>2, <1>3

\* What dispatch d counts for in the accounts of u.
Ins(d, u) == IF Inserting(d) /\ job[d].to = u THEN 1 ELSE 0
Snd(d, u) == IF Sending(d) /\ job[d].to = u THEN 1 ELSE 0

\* A step moves one dispatch.
LEMMA JobMoves ==
  ASSUME NoticesIInv, NEW d \in Dispatches, NEW j \in JobStates, job' = [job EXCEPT ![d] = j], JobOK(d)'
  PROVE  /\ job' \in [Dispatches -> JobStates]
         /\ job'[d] = j
         /\ \A x \in Dispatches : JobOK(x)'
<1>0. job \in [Dispatches -> JobStates]
  BY DEF NoticesIInv, NoticesTypeOK
<1>1. job' \in [Dispatches -> JobStates] /\ job'[d] = j /\ \A x \in Dispatches \ {d} : job'[x] = job[x]
  BY <1>0
<1>2. ASSUME NEW x \in Dispatches PROVE JobOK(x)'
  BY <1>1 DEF NoticesIInv, JobOK, Inserting, Sending, Direct
<1>3. QED BY <1>1, <1>2

LEMMA CountsFollow ==
  ASSUME NoticesTypeOK, NEW d \in Dispatches, NEW j, job' = [job EXCEPT ![d] = j], NEW u \in Recipients
  PROVE  /\ Cardinality(InsertingFor(u)) \in Nat /\ Cardinality(InsertingFor(u))' \in Nat
         /\ Cardinality(InsertingFor(u))' + Ins(d, u) = Cardinality(InsertingFor(u)) + Ins(d, u)'
         /\ Cardinality(SendingTo(u)) \in Nat /\ Cardinality(SendingTo(u))' \in Nat
         /\ Cardinality(SendingTo(u))' + Snd(d, u) = Cardinality(SendingTo(u)) + Snd(d, u)'
<1>1. \A x \in Dispatches \ {d} : job'[x] = job[x]
  BY DEF NoticesTypeOK
<1>2. /\ Cardinality(InsertingFor(u)) \in Nat /\ Cardinality(InsertingFor(u))' \in Nat
      /\ Cardinality(InsertingFor(u))' + Ins(d, u) = Cardinality(InsertingFor(u)) + Ins(d, u)'
  <2> DEFINE S == InsertingFor(u)
             T == InsertingFor(u)'
  <2>1. IsFiniteSet(S)
    BY DispatchesAssumption, FS_Subset DEF InsertingFor
  <2>2. T \ {d} = S \ {d}
    BY <1>1 DEF InsertingFor, Inserting
  <2>3. (d \in S <=> Inserting(d) /\ job[d].to = u) /\ (d \in T <=> Inserting(d)' /\ job'[d].to = u)
    BY DEF InsertingFor, Inserting
  <2> HIDE DEF S, T
  <2>4. /\ Cardinality(S) \in Nat /\ Cardinality(T) \in Nat
        /\ Cardinality(T) + (IF d \in S THEN 1 ELSE 0) = Cardinality(S) + (IF d \in T THEN 1 ELSE 0)
    BY <2>1, <2>2, CountMoves
  <2>5. Ins(d, u) = (IF d \in S THEN 1 ELSE 0) /\ Ins(d, u)' = (IF d \in T THEN 1 ELSE 0)
    BY <2>3 DEF Ins
  <2>6. QED BY <2>4, <2>5 DEF S, T
<1>3. /\ Cardinality(SendingTo(u)) \in Nat /\ Cardinality(SendingTo(u))' \in Nat
      /\ Cardinality(SendingTo(u))' + Snd(d, u) = Cardinality(SendingTo(u)) + Snd(d, u)'
  <2> DEFINE S == SendingTo(u)
             T == SendingTo(u)'
  <2>1. IsFiniteSet(S)
    BY DispatchesAssumption, FS_Subset DEF SendingTo
  <2>2. T \ {d} = S \ {d}
    BY <1>1 DEF SendingTo, Sending
  <2>3. (d \in S <=> Sending(d) /\ job[d].to = u) /\ (d \in T <=> Sending(d)' /\ job'[d].to = u)
    BY DEF SendingTo, Sending
  <2> HIDE DEF S, T
  <2>4. /\ Cardinality(S) \in Nat /\ Cardinality(T) \in Nat
        /\ Cardinality(T) + (IF d \in S THEN 1 ELSE 0) = Cardinality(S) + (IF d \in T THEN 1 ELSE 0)
    BY <2>1, <2>2, CountMoves
  <2>5. Snd(d, u) = (IF d \in S THEN 1 ELSE 0) /\ Snd(d, u)' = (IF d \in T THEN 1 ELSE 0)
    BY <2>3 DEF Snd
  <2>6. QED BY <2>4, <2>5 DEF S, T
<1>4. QED BY <1>2, <1>3

-----------------------------------------------------------------------------
(* The steps *)

LEMMA IdleOK == IdleJob \in JobStates /\ 1 \in 1..MaxAttempts
BY AttemptsAssumption DEF IdleJob, AnyEvent, JobStates, Events

LEMMA NoticesInitial == NoticesInit => NoticesIInv
<1> SUFFICES ASSUME NoticesInit PROVE NoticesIInv
  OBVIOUS
<1>1. \A d \in Dispatches : job[d] = IdleJob
  BY DEF NoticesInit
<1>2. IdleJob \in JobStates
  BY IdleOK
<1>3. NoticesTypeOK
  BY <1>2, NoticeBoundsAssumption DEF NoticesInit, NoticesTypeOK
<1>4. ASSUME NEW d \in Dispatches PROVE JobOK(d) /\ ~Inserting(d) /\ ~Sending(d)
  <2>1. job[d].pc = "idle" /\ job[d].event.kind = "unmapped"
    BY <1>1 DEF IdleJob, AnyEvent
  <2>2. QED BY <2>1 DEF JobOK, Inserting, Sending, Direct
<1>5. ASSUME NEW u \in Recipients PROVE Square(u)
  <2>1. InsertingFor(u) = {} /\ SendingTo(u) = {}
    BY <1>4 DEF InsertingFor, SendingTo
  <2>2. QED BY <2>1, FS_EmptySet DEF NoticesInit, Square
<1>6. QED BY <1>3, <1>4, <1>5 DEF NoticesIInv

\* A step of one dispatch keeps the accounts square when it moves both sides by the same.
LEMMA MoveStep ==
  ASSUME NoticesIInv, NEW d \in Dispatches, NEW j \in JobStates, job' = [job EXCEPT ![d] = j], JobOK(d)',
         deliveries' \in [Dispatches -> 0..MaxDeliveries], slips' \in 0..MaxNoticeSlips,
         addressed' \in [Recipients -> Nat], created' \in [Recipients -> Nat],
         unheard' \in [Recipients -> Nat], lost' \in [Recipients -> Nat],
         messages' \in [Recipients -> Nat], unconfirmed' \in [Recipients -> Nat],
         \A u \in Recipients :
           addressed'[u] + unheard'[u] + created[u] + lost[u] + Ins(d, u)
             = addressed[u] + unheard[u] + created'[u] + lost'[u] + Ins(d, u)',
         \A u \in Recipients :
           messages'[u] + unheard'[u] + Snd(d, u)' + created[u] + unconfirmed[u]
             <= messages[u] + unheard[u] + Snd(d, u) + created'[u] + unconfirmed'[u]
  PROVE  NoticesIInv'
<1>1. job' \in [Dispatches -> JobStates] /\ \A x \in Dispatches : JobOK(x)'
  BY JobMoves
<1>2. NoticesTypeOK'
  BY <1>1 DEF NoticesTypeOK
<1>3. ASSUME NEW u \in Recipients PROVE Square(u)'
  <2>1. /\ Cardinality(InsertingFor(u)) \in Nat /\ Cardinality(InsertingFor(u))' \in Nat
        /\ Cardinality(InsertingFor(u))' + Ins(d, u) = Cardinality(InsertingFor(u)) + Ins(d, u)'
        /\ Cardinality(SendingTo(u)) \in Nat /\ Cardinality(SendingTo(u))' \in Nat
        /\ Cardinality(SendingTo(u))' + Snd(d, u) = Cardinality(SendingTo(u)) + Snd(d, u)'
    BY CountsFollow DEF NoticesIInv
  <2>2. /\ addressed[u] + unheard[u] = created[u] + lost[u] + Cardinality(InsertingFor(u))
        /\ messages[u] + unheard[u] + Cardinality(SendingTo(u)) <= created[u] + unconfirmed[u]
    BY DEF NoticesIInv, Square
  <2>3. /\ addressed[u] \in Nat /\ created[u] \in Nat /\ unheard[u] \in Nat
        /\ lost[u] \in Nat /\ messages[u] \in Nat /\ unconfirmed[u] \in Nat
    BY Counts DEF NoticesIInv
  <2>4. /\ addressed'[u] \in Nat /\ created'[u] \in Nat /\ unheard'[u] \in Nat
        /\ lost'[u] \in Nat /\ messages'[u] \in Nat /\ unconfirmed'[u] \in Nat
    OBVIOUS
  <2>5. /\ Ins(d, u) \in {0, 1} /\ Ins(d, u)' \in {0, 1}
        /\ Snd(d, u) \in {0, 1} /\ Snd(d, u)' \in {0, 1}
    BY DEF Ins, Snd
  <2>6. addressed'[u] + unheard'[u] = created'[u] + lost'[u] + Cardinality(InsertingFor(u))'
    BY <2>1, <2>2, <2>3, <2>4, <2>5
  <2>7. messages'[u] + unheard'[u] + Cardinality(SendingTo(u))' <= created'[u] + unconfirmed'[u]
    BY <2>1, <2>2, <2>3, <2>4, <2>5
  <2>8. QED BY <2>6, <2>7 DEF Square
<1>4. QED BY <1>1, <1>2, <1>3 DEF NoticesIInv

\* Steps that touch no count.
LEMMA QuietStep ==
  ASSUME NoticesIInv, NEW d \in Dispatches, NEW j \in JobStates, job' = [job EXCEPT ![d] = j], JobOK(d)',
         deliveries' = deliveries, slips' \in 0..MaxNoticeSlips, UNCHANGED noticeCounts,
         ~Inserting(d), ~Sending(d), ~Inserting(d)', ~Sending(d)'
  PROVE  NoticesIInv'
<1>1. \A u \in Recipients : Ins(d, u) = 0 /\ Ins(d, u)' = 0 /\ Snd(d, u) = 0 /\ Snd(d, u)' = 0
  BY DEF Ins, Snd
<1>2. NoticesTypeOK
  BY DEF NoticesIInv
<1>3. ASSUME NEW u \in Recipients
      PROVE  /\ addressed[u] \in Nat /\ created[u] \in Nat /\ unheard[u] \in Nat
             /\ lost[u] \in Nat /\ messages[u] \in Nat /\ unconfirmed[u] \in Nat
  BY <1>2, Counts
<1>4. \A u \in Recipients :
        /\ addressed'[u] + unheard'[u] + created[u] + lost[u] + Ins(d, u)
             = addressed[u] + unheard[u] + created'[u] + lost'[u] + Ins(d, u)'
        /\ messages'[u] + unheard'[u] + Snd(d, u)' + created[u] + unconfirmed[u]
             <= messages[u] + unheard[u] + Snd(d, u) + created'[u] + unconfirmed'[u]
  BY <1>1, <1>3 DEF noticeCounts
<1>5. /\ deliveries' \in [Dispatches -> 0..MaxDeliveries]
      /\ addressed' \in [Recipients -> Nat] /\ created' \in [Recipients -> Nat]
      /\ unheard' \in [Recipients -> Nat] /\ lost' \in [Recipients -> Nat]
      /\ messages' \in [Recipients -> Nat] /\ unconfirmed' \in [Recipients -> Nat]
  BY <1>2 DEF NoticesTypeOK, noticeCounts
<1>6. QED BY <1>4, <1>5, MoveStep

LEMMA ReadAudienceStep ==
  ASSUME NoticesIInv, NEW d \in Dispatches, NEW audience \in SUBSET Recipients, ReadAudience(d, audience)
  PROVE  NoticesIInv'
<1>0. job \in [Dispatches -> JobStates] /\ slips \in 0..MaxNoticeSlips
  BY DEF NoticesIInv, NoticesTypeOK
<1>1. PICK p \in {"next", "last"} :
        /\ job' = [job EXCEPT ![d] = [job[d] EXCEPT !.pc = p, !.left = audience]]
        /\ job[d].pc \in {"audience", "department"}
  BY DEF ReadAudience, PutJob
<1> DEFINE j == [job[d] EXCEPT !.pc = p, !.left = audience]
<1>2. j \in JobStates
  BY <1>0 DEF JobStates
<1>3. job'[d] = j
  BY <1>0, <1>1
<1>4. JobOK(d)' /\ ~Inserting(d)' /\ ~Sending(d)' /\ ~Inserting(d) /\ ~Sending(d)
  BY <1>0, <1>1, <1>3 DEF NoticesIInv, JobOK, Inserting, Sending, Direct, JobStates
<1>5. QED BY <1>0, <1>1, <1>2, <1>4, QuietStep DEF ReadAudience

LEMMA FailAudienceStep == ASSUME NoticesIInv, NEW d \in Dispatches, FailAudience(d) PROVE NoticesIInv'
<1>0. job \in [Dispatches -> JobStates] /\ slips' \in 0..MaxNoticeSlips
  BY NoticeBoundsAssumption DEF NoticesIInv, NoticesTypeOK, FailAudience, NoticeSlip
<1> DEFINE j == [job[d] EXCEPT !.pc = "rejected"]
<1>1. job' = [job EXCEPT ![d] = j] /\ job[d].pc \in {"audience", "department"}
  BY DEF FailAudience, PutJob
<1>2. j \in JobStates
  BY <1>0 DEF JobStates
<1>3. job'[d] = j
  BY <1>0, <1>1
<1>4. JobOK(d)' /\ ~Inserting(d)' /\ ~Sending(d)' /\ ~Inserting(d) /\ ~Sending(d)
  BY <1>0, <1>1, <1>3 DEF NoticesIInv, JobOK, Inserting, Sending, Direct, JobStates
<1>5. QED BY <1>0, <1>1, <1>2, <1>4, QuietStep DEF FailAudience

LEMMA EndAudienceStep == ASSUME NoticesIInv, NEW d \in Dispatches, EndAudience(d) PROVE NoticesIInv'
<1>0. job \in [Dispatches -> JobStates] /\ slips \in 0..MaxNoticeSlips
  BY DEF NoticesIInv, NoticesTypeOK
<1>1. PICK p \in {"department", "resolved"} :
        job' = [job EXCEPT ![d] = [job[d] EXCEPT !.pc = p]] /\ job[d].pc \in {"next", "last"}
  BY DEF EndAudience, PutJob
<1> DEFINE j == [job[d] EXCEPT !.pc = p]
<1>2. j \in JobStates
  BY <1>0 DEF JobStates
<1>3. job'[d] = j
  BY <1>0, <1>1
<1>4. JobOK(d)' /\ ~Inserting(d)' /\ ~Sending(d)' /\ ~Inserting(d) /\ ~Sending(d)
  BY <1>0, <1>1, <1>3 DEF NoticesIInv, JobOK, Inserting, Sending, Direct, JobStates
<1>5. QED BY <1>0, <1>1, <1>2, <1>4, QuietStep DEF EndAudience

\* Someone is to be told: dispatch of an event that names them, or the next of an audience.
LEMMA AddressStep ==
  ASSUME NoticesIInv, NEW d \in Dispatches, NEW j \in JobStates, job' = [job EXCEPT ![d] = j], JobOK(d)',
         deliveries' \in [Dispatches -> 0..MaxDeliveries], addressed' = Bump(addressed, j.to),
         UNCHANGED <<slips, created, unheard, lost, messages, unconfirmed>>,
         ~Inserting(d), ~Sending(d), ~Sending(d)', j.to \in Recipients => Inserting(d)'
  PROVE  NoticesIInv'
<1>1. NoticesTypeOK
  BY DEF NoticesIInv
<1>2. /\ addressed' \in [Recipients -> Nat]
      /\ \A u \in Recipients : addressed'[u] = IF u = j.to THEN addressed[u] + 1 ELSE addressed[u]
  BY <1>1, BumpAdds DEF NoticesTypeOK
<1>3. job'[d] = j
  BY JobMoves
<1>4. \A u \in Recipients : /\ Ins(d, u) = 0 /\ Snd(d, u) = 0 /\ Snd(d, u)' = 0
                            /\ Ins(d, u)' = IF u = j.to THEN 1 ELSE 0
  BY <1>3 DEF Ins, Snd
<1>5. ASSUME NEW u \in Recipients
      PROVE  /\ addressed[u] \in Nat /\ created[u] \in Nat /\ unheard[u] \in Nat
             /\ lost[u] \in Nat /\ messages[u] \in Nat /\ unconfirmed[u] \in Nat
  BY <1>1, Counts
<1>6. \A u \in Recipients :
        /\ addressed'[u] + unheard'[u] + created[u] + lost[u] + Ins(d, u)
             = addressed[u] + unheard[u] + created'[u] + lost'[u] + Ins(d, u)'
        /\ messages'[u] + unheard'[u] + Snd(d, u)' + created[u] + unconfirmed[u]
             <= messages[u] + unheard[u] + Snd(d, u) + created'[u] + unconfirmed'[u]
  BY <1>2, <1>4, <1>5
<1>7. /\ slips' \in 0..MaxNoticeSlips /\ created' \in [Recipients -> Nat]
      /\ unheard' \in [Recipients -> Nat] /\ lost' \in [Recipients -> Nat]
      /\ messages' \in [Recipients -> Nat] /\ unconfirmed' \in [Recipients -> Nat]
  BY <1>1 DEF NoticesTypeOK
<1>8. QED BY <1>2, <1>6, <1>7, MoveStep

LEMMA DispatchStep ==
  ASSUME NoticesIInv, NEW d \in Dispatches, NEW e \in Events, Dispatch(d, e)
  PROVE  NoticesIInv'
<1> DEFINE j == [IdleJob EXCEPT !.event = e, !.pc = FirstStep(e), !.to = Addressee(e)]
<1>0. job \in [Dispatches -> JobStates] /\ deliveries \in [Dispatches -> 0..MaxDeliveries]
  BY DEF NoticesIInv, NoticesTypeOK
<1>1. /\ FirstStep(e) \in {"insert", "audience", "resolved"}
      /\ Addressee(e) \in Recipients \union {Nobody, Stranger}
      /\ FirstStep(e) = "insert" => e.kind # "unmapped" /\ Addressee(e) = e.target /\ Addressee(e) # Nobody
      /\ FirstStep(e) = "audience" => e.kind # "unmapped" /\ e.target = Nobody
      /\ Addressee(e) # Nobody => FirstStep(e) = "insert"
  BY DEF Events, FirstStep, Addressee
<1>2. j \in JobStates /\ j.pc = FirstStep(e) /\ j.to = Addressee(e) /\ j.event = e
  BY <1>1, IdleOK DEF JobStates
<1>3. /\ job' = [job EXCEPT ![d] = j] /\ addressed' = Bump(addressed, j.to)
      /\ job[d].pc \in {"idle", "rejected"} /\ deliveries[d] < MaxDeliveries
      /\ deliveries' = [deliveries EXCEPT ![d] = @ + 1]
      /\ UNCHANGED <<slips, created, unheard, lost, messages, unconfirmed>>
  BY DEF Dispatch, PutJob
<1> HIDE DEF j
<1>4. job'[d].pc = FirstStep(e) /\ job'[d].to = Addressee(e) /\ job'[d].event = e
  BY <1>0, <1>2, <1>3
<1>5. JobOK(d)' /\ ~Sending(d)'
  BY <1>1, <1>4 DEF JobOK, Inserting, Sending, Direct
<1>6. ~Inserting(d) /\ ~Sending(d)
  BY <1>3 DEF Inserting, Sending
<1>7. j.to \in Recipients => Inserting(d)'
  BY <1>1, <1>2, <1>4, RecipientsAssumption DEF Inserting
<1>8. deliveries' \in [Dispatches -> 0..MaxDeliveries]
  BY <1>0, <1>3, NoticeBoundsAssumption
<1>9. QED BY <1>2, <1>3, <1>5, <1>6, <1>7, <1>8, AddressStep

LEMMA NextRecipientStep ==
  ASSUME NoticesIInv, NEW d \in Dispatches, NEW u \in Recipients, NextRecipient(d, u)
  PROVE  NoticesIInv'
<1>0. job \in [Dispatches -> JobStates] /\ deliveries \in [Dispatches -> 0..MaxDeliveries]
  BY DEF NoticesIInv, NoticesTypeOK
<1>1. PICK p \in {"insert", "insertLast"} :
        job' = [job EXCEPT ![d] = [job[d] EXCEPT !.pc = p, !.to = u, !.attempt = 1, !.left = @ \ {u}]]
  BY DEF NextRecipient, PutJob
<1> DEFINE j == [job[d] EXCEPT !.pc = p, !.to = u, !.attempt = 1, !.left = @ \ {u}]
<1>2. job[d].pc \in {"next", "last"} /\ addressed' = Bump(addressed, u)
  BY DEF NextRecipient
<1>3. j \in JobStates /\ j.to = u
  <2>1. job[d] \in JobStates /\ 1 \in 1..MaxAttempts
    BY <1>0, IdleOK
  <2>2. QED BY <2>1 DEF JobStates
<1>4. job'[d] = j
  BY <1>0, <1>1
<1>5. JobOK(d)' /\ Inserting(d)' /\ ~Sending(d)' /\ ~Inserting(d) /\ ~Sending(d)
  BY <1>0, <1>1, <1>2, <1>4 DEF NoticesIInv, JobOK, Inserting, Sending, Direct, JobStates
<1>6. UNCHANGED <<deliveries, slips, created, unheard, lost, messages, unconfirmed>>
  BY DEF NextRecipient
<1> HIDE DEF j
<1>7. job' = [job EXCEPT ![d] = j] /\ addressed' = Bump(addressed, j.to)
  BY <1>1, <1>2, <1>3 DEF j
<1>8. QED BY <1>0, <1>3, <1>5, <1>6, <1>7, AddressStep

\* Where a dispatch is after a recipient it has told, or missed.
LEMMA AfterRecipient ==
  ASSUME NoticesIInv, NEW d \in Dispatches, Inserting(d) \/ Sending(d)
  PROVE  /\ Delivered(d).to = Nobody /\ Delivered(d).event = job[d].event
         /\ Delivered(d).pc \in {"resolved", "next", "last"}
         /\ Delivered(d).pc = "resolved" <=> Direct(d)
         /\ Sending(d) => Delivered(d) \in JobStates
         /\ Missed(d).to = Nobody /\ Missed(d).event = job[d].event
         /\ Missed(d).pc \in {"rejected", "next", "last"}
         /\ Missed(d).pc = "rejected" <=> Direct(d)
         /\ Inserting(d) => Missed(d) \in JobStates
<1>1. job[d] \in JobStates /\ JobOK(d)
  BY DEF NoticesIInv, NoticesTypeOK
<1>2. /\ Delivered(d).to = Nobody /\ Delivered(d).event = job[d].event
      /\ Delivered(d).pc = IF Direct(d) THEN "resolved" ELSE IF InLast(d) THEN "last" ELSE "next"
      /\ Missed(d).to = Nobody /\ Missed(d).event = job[d].event
      /\ Missed(d).pc = IF Direct(d) THEN "rejected" ELSE IF InLast(d) THEN "last" ELSE "next"
  BY <1>1 DEF Delivered, Missed, JobStates
<1>3. Sending(d) => Delivered(d) \in JobStates
  <2>1. Sending(d) => job[d].to \in Recipients
    BY <1>1 DEF JobOK
  <2>2. QED BY <1>1, <2>1 DEF Delivered, JobStates
<1>4. Inserting(d) => Missed(d) \in JobStates
  <2>1. Inserting(d) => job[d].to \in Recipients \union {Stranger}
    BY <1>1 DEF JobOK
  <2>2. QED BY <1>1, <2>1 DEF Missed, JobStates
<1>5. QED BY <1>2, <1>3, <1>4

\* Giving up on Telegram puts a user among the unreached, and changes nothing else.
LEMMA UnreachedTyped ==
  ASSUME NoticesIInv, NEW d \in Dispatches, Sending(d)
  PROVE  /\ Unreached(d) \in JobStates /\ Unreached(d).event = job[d].event
         /\ Unreached(d).pc = Delivered(d).pc /\ Unreached(d).got = Delivered(d).got
<1>1. Delivered(d) \in JobStates /\ Delivered(d).event = job[d].event
  BY AfterRecipient
<1>2. job[d].to \in Recipients /\ job[d] \in JobStates
  BY DEF NoticesIInv, NoticesTypeOK, JobOK
<1>3. job[d].unreached \union {job[d].to} \in SUBSET Recipients
  BY <1>2 DEF JobStates
<1> HIDE DEF Delivered
<1>4. QED BY <1>1, <1>3 DEF Unreached, JobStates

\* No one is being told by a dispatch that goes on to the next, or has ended.
LEMMA AtRest ==
  ASSUME NoticesIInv, NEW d \in Dispatches, NEW j \in JobStates, job' = [job EXCEPT ![d] = j],
         j.event = job[d].event, j.event.kind # "unmapped",
         \/ j.pc \in {"resolved", "rejected"}
         \/ j.pc \in {"next", "last"} /\ ~Direct(d)
  PROVE  JobOK(d)' /\ ~Inserting(d)' /\ ~Sending(d)'
<1>1. job'[d] = j
  BY DEF NoticesIInv, NoticesTypeOK
<1>2. QED BY <1>1 DEF JobOK, Inserting, Sending, Direct

LEMMA InsertNoticeStep == ASSUME NoticesIInv, NEW d \in Dispatches, InsertNotice(d) PROVE NoticesIInv'
<1>0. NoticesTypeOK /\ job[d] \in JobStates /\ job \in [Dispatches -> JobStates] /\ JobOK(d)
  BY DEF NoticesIInv, NoticesTypeOK
<1>1. PICK p :
        /\ p \in {"send", "sendLast"}
        /\ job' = [job EXCEPT ![d] = [job[d] EXCEPT !.pc = p, !.attempt = 1]]
        /\ p = "sendLast" => InLast(d)
  BY DEF InsertNotice, PutJob
<1> DEFINE j == [job[d] EXCEPT !.pc = p, !.attempt = 1]
<1>2. j \in JobStates /\ j.to = job[d].to /\ j.event = job[d].event /\ j.pc = p
  BY <1>0, <1>1, IdleOK DEF JobStates
<1>3. job' = [job EXCEPT ![d] = j] /\ job'[d] = j
  BY <1>0, <1>1
<1> HIDE DEF j
<1>4. Inserting(d) /\ job[d].to \in Recipients /\ created' = Bump(created, job[d].to)
  BY DEF InsertNotice
<1>5. JobOK(d)' /\ Sending(d)' /\ ~Inserting(d)' /\ ~Sending(d)
  BY <1>0, <1>1, <1>2, <1>3, <1>4 DEF JobOK, Inserting, Sending, Direct, InLast
<1>6. \A u \in Recipients : /\ Ins(d, u) = (IF u = job[d].to THEN 1 ELSE 0) /\ Snd(d, u) = 0
                            /\ Ins(d, u)' = 0 /\ Snd(d, u)' = (IF u = job[d].to THEN 1 ELSE 0)
  BY <1>2, <1>3, <1>4, <1>5 DEF Ins, Snd
<1>7. /\ created' \in [Recipients -> Nat]
      /\ \A u \in Recipients : created'[u] = IF u = job[d].to THEN created[u] + 1 ELSE created[u]
  BY <1>0, <1>4, BumpAdds DEF NoticesTypeOK
<1>8. UNCHANGED <<deliveries, slips, addressed, unheard, lost, messages, unconfirmed>>
  BY DEF InsertNotice
<1>9. ASSUME NEW u \in Recipients
      PROVE  /\ addressed'[u] + unheard'[u] + created[u] + lost[u] + Ins(d, u)
                  = addressed[u] + unheard[u] + created'[u] + lost'[u] + Ins(d, u)'
             /\ messages'[u] + unheard'[u] + Snd(d, u)' + created[u] + unconfirmed[u]
                  <= messages[u] + unheard[u] + Snd(d, u) + created'[u] + unconfirmed'[u]
  <2>1. /\ addressed[u] \in Nat /\ created[u] \in Nat /\ unheard[u] \in Nat
        /\ lost[u] \in Nat /\ messages[u] \in Nat /\ unconfirmed[u] \in Nat
    BY <1>0, Counts
  <2>2. /\ addressed'[u] = addressed[u] /\ unheard'[u] = unheard[u] /\ lost'[u] = lost[u]
        /\ messages'[u] = messages[u] /\ unconfirmed'[u] = unconfirmed[u]
    BY <1>8
  <2>3. CASE u = job[d].to
    <3>1. created'[u] = created[u] + 1
      BY <1>7, <2>3
    <3>2. Ins(d, u) = 1 /\ Ins(d, u)' = 0 /\ Snd(d, u) = 0 /\ Snd(d, u)' = 1
      BY <1>6, <2>3
    <3>3. QED BY <2>1, <2>2, <3>1, <3>2
  <2>4. CASE u # job[d].to
    <3>1. created'[u] = created[u]
      BY <1>7, <2>4
    <3>2. Ins(d, u) = 0 /\ Ins(d, u)' = 0 /\ Snd(d, u) = 0 /\ Snd(d, u)' = 0
      BY <1>6, <2>4
    <3>3. QED BY <2>1, <2>2, <3>1, <3>2
  <2>5. QED BY <2>3, <2>4
<1>10. /\ deliveries' \in [Dispatches -> 0..MaxDeliveries] /\ slips' \in 0..MaxNoticeSlips
       /\ addressed' \in [Recipients -> Nat] /\ unheard' \in [Recipients -> Nat]
       /\ lost' \in [Recipients -> Nat] /\ messages' \in [Recipients -> Nat]
       /\ unconfirmed' \in [Recipients -> Nat]
  BY <1>0, <1>8 DEF NoticesTypeOK
<1>11. QED BY <1>2, <1>3, <1>5, <1>7, <1>9, <1>10, MoveStep

LEMMA FailInsertStep == ASSUME NoticesIInv, NEW d \in Dispatches, FailInsert(d) PROVE NoticesIInv'
<1>0. NoticesTypeOK /\ job[d] \in JobStates /\ job \in [Dispatches -> JobStates] /\ JobOK(d)
  BY DEF NoticesIInv, NoticesTypeOK
<1>1. Inserting(d) /\ ~Sending(d) /\ job[d].event.kind # "unmapped"
  BY <1>0 DEF FailInsert, JobOK, Inserting, Sending
<1>2. UNCHANGED <<deliveries, addressed, messages, unconfirmed>>
  BY DEF FailInsert
<1>3. slips' \in 0..MaxNoticeSlips
  BY <1>0, NoticeBoundsAssumption DEF FailInsert, NoticeSlip, NoticesTypeOK
<1>4. /\ created' \in [Recipients -> Nat] /\ unheard' \in [Recipients -> Nat]
      /\ \A u \in Recipients : created'[u] + unheard[u] = created[u] + unheard'[u]
  <2>1. ASSUME NEW u \in Recipients PROVE created[u] \in Nat /\ unheard[u] \in Nat
    BY <1>0, Counts
  <2>2. created \in [Recipients -> Nat] /\ unheard \in [Recipients -> Nat]
    BY <1>0 DEF NoticesTypeOK
  <2>3. CASE UNCHANGED <<created, unheard>>
    BY <2>1, <2>2, <2>3
  <2>4. CASE created' = Bump(created, job[d].to) /\ unheard' = Bump(unheard, job[d].to)
    <3>1. /\ created' \in [Recipients -> Nat]
          /\ \A u \in Recipients : created'[u] = IF u = job[d].to THEN created[u] + 1 ELSE created[u]
      BY <2>2, <2>4, BumpAdds
    <3>2. /\ unheard' \in [Recipients -> Nat]
          /\ \A u \in Recipients : unheard'[u] = IF u = job[d].to THEN unheard[u] + 1 ELSE unheard[u]
      BY <2>2, <2>4, BumpAdds
    <3>3. QED BY <2>1, <3>1, <3>2
  <2>5. QED BY <2>3, <2>4 DEF FailInsert
<1>5. \A u \in Recipients : Ins(d, u) = (IF u = job[d].to THEN 1 ELSE 0) /\ Snd(d, u) = 0
  BY <1>1 DEF Ins, Snd
<1>6. PICK j \in JobStates :
        /\ job' = [job EXCEPT ![d] = j] /\ JobOK(d)'
        /\ lost' \in [Recipients -> Nat]
        /\ \A u \in Recipients : Snd(d, u)' = 0 /\ lost'[u] + Ins(d, u)' = lost[u] + Ins(d, u)
  <2>1. lost \in [Recipients -> Nat] /\ \A u \in Recipients : lost[u] \in Nat
    BY <1>0 DEF NoticesTypeOK
  <2>2. CASE AttemptsLeft(d)
    <3> DEFINE j == [job[d] EXCEPT !.attempt = @ + 1]
    <3>1. job' = [job EXCEPT ![d] = j] /\ lost' = lost
      BY <2>2 DEF FailInsert, PutJob
    <3>2. job[d].attempt + 1 \in 1..MaxAttempts
      <4>1. job[d].attempt \in 1..MaxAttempts
        BY <1>0 DEF JobStates
      <4>2. QED BY <2>2, <4>1, AttemptsAssumption DEF AttemptsLeft
    <3>3. j \in JobStates /\ j.pc = job[d].pc /\ j.to = job[d].to /\ j.event = job[d].event
      BY <1>0, <3>2 DEF JobStates
    <3>4. job'[d] = j
      BY <1>0, <3>1
    <3> HIDE DEF j
    <3>5. JobOK(d)' /\ Inserting(d)' /\ ~Sending(d)'
      BY <1>0, <1>1, <3>3, <3>4 DEF JobOK, Inserting, Sending, Direct
    <3>6. \A u \in Recipients : Ins(d, u)' = Ins(d, u) /\ Snd(d, u)' = 0
      BY <1>5, <3>3, <3>4, <3>5 DEF Ins, Snd
    <3>7. QED BY <2>1, <3>1, <3>3, <3>5, <3>6
  <2>3. CASE ~AttemptsLeft(d)
    <3>1. job' = [job EXCEPT ![d] = Missed(d)] /\ lost' = Bump(lost, job[d].to)
      BY <2>3 DEF FailInsert, PutJob
    <3>2. /\ Missed(d) \in JobStates /\ Missed(d).event = job[d].event
          /\ \/ Missed(d).pc \in {"resolved", "rejected"}
             \/ Missed(d).pc \in {"next", "last"} /\ ~Direct(d)
      <4>1. /\ Missed(d) \in JobStates /\ Missed(d).event = job[d].event
            /\ Missed(d).pc \in {"rejected", "next", "last"} /\ (Missed(d).pc = "rejected" <=> Direct(d))
        BY <1>1, AfterRecipient
      <4>2. QED BY <4>1 DEF Direct
    <3>3. JobOK(d)' /\ ~Inserting(d)' /\ ~Sending(d)'
      BY <1>1, <3>1, <3>2, AtRest
    <3>4. \A u \in Recipients : Ins(d, u)' = 0 /\ Snd(d, u)' = 0
      BY <3>3 DEF Ins, Snd
    <3>5. /\ lost' \in [Recipients -> Nat]
          /\ \A u \in Recipients : lost'[u] = IF u = job[d].to THEN lost[u] + 1 ELSE lost[u]
      BY <2>1, <3>1, BumpAdds
    <3>6. \A u \in Recipients : lost'[u] + Ins(d, u)' = lost[u] + Ins(d, u)
      BY <1>5, <2>1, <3>4, <3>5
    <3>7. QED BY <3>1, <3>2, <3>3, <3>4, <3>5, <3>6
  <2>4. QED BY <2>2, <2>3
<1>7. ASSUME NEW u \in Recipients
      PROVE  /\ addressed[u] \in Nat /\ created[u] \in Nat /\ unheard[u] \in Nat
             /\ lost[u] \in Nat /\ messages[u] \in Nat /\ unconfirmed[u] \in Nat
             /\ created'[u] \in Nat /\ unheard'[u] \in Nat /\ lost'[u] \in Nat
             /\ Ins(d, u) \in {0, 1} /\ Ins(d, u)' \in {0, 1}
  <2>1. Ins(d, u) \in {0, 1} /\ Ins(d, u)' \in {0, 1}
    BY DEF Ins
  <2>2. QED BY <1>0, <1>4, <1>6, <2>1, Counts
<1>8. \A u \in Recipients :
        /\ addressed'[u] + unheard'[u] + created[u] + lost[u] + Ins(d, u)
             = addressed[u] + unheard[u] + created'[u] + lost'[u] + Ins(d, u)'
        /\ messages'[u] + unheard'[u] + Snd(d, u)' + created[u] + unconfirmed[u]
             <= messages[u] + unheard[u] + Snd(d, u) + created'[u] + unconfirmed'[u]
  BY <1>2, <1>4, <1>5, <1>6, <1>7
<1>9. /\ deliveries' \in [Dispatches -> 0..MaxDeliveries] /\ addressed' \in [Recipients -> Nat]
      /\ messages' \in [Recipients -> Nat] /\ unconfirmed' \in [Recipients -> Nat]
  BY <1>0, <1>2 DEF NoticesTypeOK
<1>10. QED BY <1>3, <1>4, <1>6, <1>8, <1>9, MoveStep

\* A message that got through, or one that may have, and the dispatch goes on or tries again.
LEMMA SendingStep ==
  ASSUME NoticesIInv, NEW d \in Dispatches, NEW j \in JobStates, Sending(d),
         job' = [job EXCEPT ![d] = j], JobOK(d)',
         ~Inserting(d)', \A u \in Recipients : Snd(d, u)' \in {0, Snd(d, u)},
         \/ UNCHANGED <<messages, unconfirmed>>
         \/ messages' = Bump(messages, job[d].to) /\ unconfirmed' = Bump(unconfirmed, job[d].to)
         \/ /\ messages' = Bump(messages, job[d].to) /\ unconfirmed' = unconfirmed
            /\ ~Sending(d)',
         slips' \in 0..MaxNoticeSlips, UNCHANGED <<deliveries, addressed, created, unheard, lost>>
  PROVE  NoticesIInv'
<1>1. NoticesTypeOK
  BY DEF NoticesIInv
<1>2. \A u \in Recipients : /\ Ins(d, u) = 0 /\ Ins(d, u)' = 0
                            /\ Snd(d, u) = (IF u = job[d].to THEN 1 ELSE 0)
  BY DEF Ins, Snd, Inserting, Sending
<1>3. messages \in [Recipients -> Nat] /\ unconfirmed \in [Recipients -> Nat]
  BY <1>1 DEF NoticesTypeOK
<1>4. /\ messages' \in [Recipients -> Nat] /\ unconfirmed' \in [Recipients -> Nat]
      /\ \A u \in Recipients :
           messages'[u] + Snd(d, u)' + unconfirmed[u] <= messages[u] + Snd(d, u) + unconfirmed'[u]
  <2>1. ASSUME NEW u \in Recipients
        PROVE  messages[u] \in Nat /\ unconfirmed[u] \in Nat /\ Snd(d, u) \in {0, 1} /\ Snd(d, u)' \in {0, Snd(d, u)}
    BY <1>2, <1>3
  <2>2. CASE UNCHANGED <<messages, unconfirmed>>
    BY <1>3, <2>1, <2>2
  <2>3. CASE messages' = Bump(messages, job[d].to)
    <3>1. /\ messages' \in [Recipients -> Nat]
          /\ \A u \in Recipients : messages'[u] = IF u = job[d].to THEN messages[u] + 1 ELSE messages[u]
      BY <1>3, <2>3, BumpAdds
    <3>2. \A u \in Recipients : messages'[u] = messages[u] + Snd(d, u)
      BY <1>2, <2>1, <3>1
    <3>3. CASE unconfirmed' = Bump(unconfirmed, job[d].to)
      <4>1. /\ unconfirmed' \in [Recipients -> Nat]
            /\ \A u \in Recipients : unconfirmed'[u] = IF u = job[d].to THEN unconfirmed[u] + 1 ELSE unconfirmed[u]
        BY <1>3, <3>3, BumpAdds
      <4>2. \A u \in Recipients : unconfirmed'[u] = unconfirmed[u] + Snd(d, u)
        BY <1>2, <2>1, <4>1
      <4>3. QED BY <2>1, <3>1, <3>2, <4>1, <4>2
    <3>4. CASE unconfirmed' = unconfirmed /\ ~Sending(d)'
      <4>1. \A u \in Recipients : Snd(d, u)' = 0
        BY <3>4 DEF Snd
      <4>2. QED BY <1>3, <2>1, <3>1, <3>2, <3>4, <4>1
    <3>5. CASE UNCHANGED <<messages, unconfirmed>>
      BY <1>3, <2>1, <3>5
    <3>6. QED BY <3>3, <3>4, <3>5
  <2>4. QED BY <2>2, <2>3
<1>5. ASSUME NEW u \in Recipients
      PROVE  /\ addressed'[u] + unheard'[u] + created[u] + lost[u] + Ins(d, u)
                  = addressed[u] + unheard[u] + created'[u] + lost'[u] + Ins(d, u)'
             /\ messages'[u] + unheard'[u] + Snd(d, u)' + created[u] + unconfirmed[u]
                  <= messages[u] + unheard[u] + Snd(d, u) + created'[u] + unconfirmed'[u]
  <2>1. /\ addressed[u] \in Nat /\ created[u] \in Nat /\ unheard[u] \in Nat
        /\ lost[u] \in Nat /\ messages[u] \in Nat /\ unconfirmed[u] \in Nat
    BY <1>1, Counts
  <2>2. messages'[u] \in Nat /\ unconfirmed'[u] \in Nat /\ Snd(d, u) \in {0, 1} /\ Snd(d, u)' \in {0, 1}
    BY <1>2, <1>4
  <2>3. messages'[u] + Snd(d, u)' + unconfirmed[u] <= messages[u] + Snd(d, u) + unconfirmed'[u]
    BY <1>4
  <2>4. QED BY <1>2, <2>1, <2>2, <2>3
<1>6. /\ deliveries' \in [Dispatches -> 0..MaxDeliveries]
      /\ addressed' \in [Recipients -> Nat] /\ created' \in [Recipients -> Nat]
      /\ unheard' \in [Recipients -> Nat] /\ lost' \in [Recipients -> Nat]
  BY <1>1 DEF NoticesTypeOK
<1>7. QED BY <1>4, <1>5, <1>6, MoveStep

\* After a recipient whose message was sent, or given up.
LEMMA DeliveredAtRest ==
  ASSUME NoticesIInv, NEW d \in Dispatches, Sending(d), NEW j \in {Delivered(d), Unreached(d)},
         job' = [job EXCEPT ![d] = j]
  PROVE  /\ j \in JobStates /\ JobOK(d)' /\ ~Inserting(d)' /\ ~Sending(d)'
         /\ \A u \in Recipients : Snd(d, u)' \in {0, Snd(d, u)}
<1>1. job[d].event.kind # "unmapped"
  BY DEF NoticesIInv, JobOK, Sending
<1>2. /\ Delivered(d) \in JobStates /\ Delivered(d).event = job[d].event /\ Delivered(d).to = Nobody
      /\ Delivered(d).pc \in {"resolved", "next", "last"} /\ (Delivered(d).pc = "resolved" <=> Direct(d))
  BY AfterRecipient
<1>3. Unreached(d) \in JobStates /\ Unreached(d).event = job[d].event /\ Unreached(d).pc = Delivered(d).pc
  BY <1>2, UnreachedTyped
<1>4. /\ j \in JobStates /\ j.event = job[d].event
      /\ j.pc \in {"resolved", "next", "last"} /\ (j.pc = "resolved" <=> Direct(d))
  BY <1>2, <1>3
<1>5. JobOK(d)' /\ ~Inserting(d)' /\ ~Sending(d)'
  BY <1>1, <1>4, AtRest
<1>6. QED BY <1>4, <1>5 DEF Snd

LEMMA SendNoticeStep == ASSUME NoticesIInv, NEW d \in Dispatches, SendNotice(d) PROVE NoticesIInv'
<1>1. /\ Sending(d) /\ job' = [job EXCEPT ![d] = Delivered(d)]
      /\ UNCHANGED <<deliveries, slips, addressed, created, unheard, lost, unconfirmed>>
      /\ \/ messages' = Bump(messages, job[d].to)
         \/ UNCHANGED messages
  BY DEF SendNotice, PutJob
<1>2. /\ Delivered(d) \in JobStates /\ JobOK(d)' /\ ~Inserting(d)' /\ ~Sending(d)'
      /\ \A u \in Recipients : Snd(d, u)' \in {0, Snd(d, u)}
  BY <1>1, DeliveredAtRest
<1>3. slips' \in 0..MaxNoticeSlips
  BY <1>1 DEF NoticesIInv, NoticesTypeOK
<1>4. QED BY <1>1, <1>2, <1>3, SendingStep

LEMMA FailSendStep == ASSUME NoticesIInv, NEW d \in Dispatches, FailSend(d) PROVE NoticesIInv'
<1>0. NoticesTypeOK /\ job[d] \in JobStates /\ job \in [Dispatches -> JobStates] /\ JobOK(d)
  BY DEF NoticesIInv, NoticesTypeOK
<1>1. /\ Sending(d) /\ UNCHANGED <<deliveries, addressed, created, unheard, lost>>
      /\ \/ UNCHANGED <<messages, unconfirmed>>
         \/ messages' = Bump(messages, job[d].to) /\ unconfirmed' = Bump(unconfirmed, job[d].to)
  BY DEF FailSend
<1>2. slips' \in 0..MaxNoticeSlips
  BY <1>0, NoticeBoundsAssumption DEF FailSend, NoticeSlip, NoticesTypeOK
<1>3. CASE AttemptsLeft(d)
  <2> DEFINE j == [job[d] EXCEPT !.attempt = @ + 1]
  <2>1. job' = [job EXCEPT ![d] = j]
    BY <1>3 DEF FailSend, PutJob
  <2>2. job[d].attempt + 1 \in 1..MaxAttempts
    <3>1. job[d].attempt \in 1..MaxAttempts
      BY <1>0 DEF JobStates
    <3>2. QED BY <1>3, <3>1, AttemptsAssumption DEF AttemptsLeft
  <2>3. j \in JobStates /\ j.pc = job[d].pc /\ j.to = job[d].to /\ j.event = job[d].event
    BY <1>0, <2>2 DEF JobStates
  <2>4. job'[d] = j
    BY <1>0, <2>1
  <2> HIDE DEF j
  <2>5. JobOK(d)' /\ ~Inserting(d)' /\ \A u \in Recipients : Snd(d, u)' = Snd(d, u)
    BY <1>0, <1>1, <2>3, <2>4 DEF JobOK, Inserting, Sending, Direct, Snd
  <2>6. QED BY <1>1, <1>2, <2>1, <2>3, <2>5, SendingStep
<1>4. CASE ~AttemptsLeft(d)
  <2>1. job' = [job EXCEPT ![d] = Unreached(d)]
    BY <1>4 DEF FailSend, PutJob
  <2>2. /\ Unreached(d) \in JobStates /\ JobOK(d)' /\ ~Inserting(d)' /\ ~Sending(d)'
        /\ \A u \in Recipients : Snd(d, u)' \in {0, Snd(d, u)}
    BY <1>1, <2>1, DeliveredAtRest
  <2>3. QED BY <1>1, <1>2, <2>1, <2>2, SendingStep
<1>5. QED BY <1>3, <1>4

LEMMA CutOffStep == ASSUME NoticesIInv, NEW d \in Dispatches, CutOff(d) PROVE NoticesIInv'
<1>0. NoticesTypeOK /\ job[d] \in JobStates /\ job \in [Dispatches -> JobStates]
  BY DEF NoticesIInv, NoticesTypeOK
<1> DEFINE j == [job[d] EXCEPT !.pc = "rejected"]
<1>1. /\ job' = [job EXCEPT ![d] = j]
      /\ lost' = IF Inserting(d) THEN Bump(lost, job[d].to) ELSE lost
      /\ UNCHANGED <<deliveries, addressed, created, unheard, messages, unconfirmed>>
  BY DEF CutOff, PutJob
<1>2. slips' \in 0..MaxNoticeSlips
  BY <1>0, NoticeBoundsAssumption DEF CutOff, NoticeSlip, NoticesTypeOK
<1>3. j \in JobStates /\ j.pc = "rejected" /\ job'[d] = j
  BY <1>0, <1>1 DEF JobStates
<1> HIDE DEF j
<1>4. JobOK(d)' /\ ~Inserting(d)' /\ ~Sending(d)'
  BY <1>3 DEF JobOK, Inserting, Sending, Direct
<1>5. \A u \in Recipients : /\ Ins(d, u) = IF Inserting(d) /\ u = job[d].to THEN 1 ELSE 0
                            /\ Snd(d, u) \in {0, 1} /\ Ins(d, u)' = 0 /\ Snd(d, u)' = 0
  BY <1>4 DEF Ins, Snd
<1>6. lost' \in [Recipients -> Nat] /\ \A u \in Recipients : lost'[u] = lost[u] + Ins(d, u)
  <2>1. lost \in [Recipients -> Nat]
    BY <1>0 DEF NoticesTypeOK
  <2>2. CASE Inserting(d)
    <3>1. /\ lost' \in [Recipients -> Nat]
          /\ \A u \in Recipients : lost'[u] = IF u = job[d].to THEN lost[u] + 1 ELSE lost[u]
      BY <1>1, <2>1, <2>2, BumpAdds
    <3>2. QED BY <1>5, <2>1, <2>2, <3>1
  <2>3. CASE ~Inserting(d)
    BY <1>1, <1>5, <2>1, <2>3
  <2>4. QED BY <2>2, <2>3
<1>7. ASSUME NEW u \in Recipients
      PROVE  /\ addressed'[u] + unheard'[u] + created[u] + lost[u] + Ins(d, u)
                  = addressed[u] + unheard[u] + created'[u] + lost'[u] + Ins(d, u)'
             /\ messages'[u] + unheard'[u] + Snd(d, u)' + created[u] + unconfirmed[u]
                  <= messages[u] + unheard[u] + Snd(d, u) + created'[u] + unconfirmed'[u]
  <2>1. /\ addressed[u] \in Nat /\ created[u] \in Nat /\ unheard[u] \in Nat
        /\ lost[u] \in Nat /\ messages[u] \in Nat /\ unconfirmed[u] \in Nat
    BY <1>0, Counts
  <2>2. Ins(d, u) \in Nat /\ Ins(d, u)' = 0 /\ Snd(d, u) \in {0, 1} /\ Snd(d, u)' = 0
    BY <1>5
  <2>3. QED BY <1>1, <1>6, <2>1, <2>2
<1>8. /\ deliveries' \in [Dispatches -> 0..MaxDeliveries]
      /\ addressed' \in [Recipients -> Nat] /\ created' \in [Recipients -> Nat]
      /\ unheard' \in [Recipients -> Nat] /\ messages' \in [Recipients -> Nat]
      /\ unconfirmed' \in [Recipients -> Nat]
  BY <1>0, <1>1 DEF NoticesTypeOK
<1>9. QED BY <1>1, <1>2, <1>3, <1>4, <1>6, <1>7, <1>8, MoveStep

LEMMA NoticesStep == NoticesIInv /\ [NoticesNext]_noticeVars => NoticesIInv'
<1> SUFFICES ASSUME NoticesIInv, [NoticesNext]_noticeVars PROVE NoticesIInv'
  OBVIOUS
<1>1. ASSUME NEW d \in Dispatches, NEW e \in Events, Dispatch(d, e) PROVE NoticesIInv'
  BY <1>1, DispatchStep
<1>2. ASSUME NEW d \in Dispatches, NEW audience \in SUBSET Recipients, ReadAudience(d, audience)
      PROVE  NoticesIInv'
  BY <1>2, ReadAudienceStep
<1>3. ASSUME NEW d \in Dispatches, NEW u \in Recipients, NextRecipient(d, u) PROVE NoticesIInv'
  BY <1>3, NextRecipientStep
<1>4. ASSUME NEW d \in Dispatches, FailAudience(d) \/ EndAudience(d) \/ CutOff(d) PROVE NoticesIInv'
  BY <1>4, FailAudienceStep, EndAudienceStep, CutOffStep
<1>5. ASSUME NEW d \in Dispatches, InsertNotice(d) \/ FailInsert(d) PROVE NoticesIInv'
  BY <1>5, InsertNoticeStep, FailInsertStep
<1>6. ASSUME NEW d \in Dispatches, SendNotice(d) \/ FailSend(d) PROVE NoticesIInv'
  BY <1>6, SendNoticeStep, FailSendStep
<1>7. CASE UNCHANGED noticeVars
  <2>1. UNCHANGED <<job, deliveries, slips, addressed, created, unheard, lost, messages, unconfirmed>>
    BY <1>7 DEF noticeVars, noticeCounts
  <2>2. NoticesTypeOK'
    BY <2>1 DEF NoticesIInv, NoticesTypeOK
  <2>3. \A d \in Dispatches : JobOK(d)'
    BY <2>1 DEF NoticesIInv, JobOK, Inserting, Sending, Direct
  <2>4. ASSUME NEW u \in Recipients PROVE Square(u)'
    <3>1. InsertingFor(u)' = InsertingFor(u) /\ SendingTo(u)' = SendingTo(u)
      BY <2>1 DEF InsertingFor, SendingTo, Inserting, Sending
    <3>2. Square(u)
      BY DEF NoticesIInv
    <3>3. QED BY <2>1, <3>1, <3>2 DEF Square
  <2>5. QED BY <2>2, <2>3, <2>4 DEF NoticesIInv
<1>8. QED BY <1>1, <1>2, <1>3, <1>4, <1>5, <1>6, <1>7 DEF NoticesNext

THEOREM NoticesInvariance == NoticesSpec => []NoticesIInv
BY NoticesInitial, NoticesStep, PTL DEF NoticesSpec

-----------------------------------------------------------------------------
(* Safety *)

\* Every variable of the dispatcher keeps its type: no attempt is counted beyond the limit of
\* deliverWithRetry and deliverViaTelegram.
THEOREM NoticesTypes == NoticesSpec => []NoticesTypeOK
<1>1. NoticesIInv => NoticesTypeOK
  BY DEF NoticesIInv
<1>2. QED BY <1>1, NoticesInvariance, PTL

\* The accounts of every user are square, for any number of dispatches at the same time
\* (deliverWithRetry, deliverViaTelegram).
THEOREM AccountsAreSquare == NoticesSpec => []NoticesAddUp
<1>1. NoticesIInv => NoticesAddUp
  BY SquareIsAddUp DEF NoticesIInv
<1>2. QED BY <1>1, NoticesInvariance, PTL

-----------------------------------------------------------------------------
(* Refinement *)

\* A step of one dispatch, as the pipeline sees it.
LEMMA BoardMoves ==
  ASSUME NoticesIInv, NEW d \in Dispatches, NEW j, job' = [job EXCEPT ![d] = j]
  PROVE  /\ phases' = [phases EXCEPT ![d] = PhaseOf(j)]
         /\ addressees' = [addressees EXCEPT ![d] = Addressee(j.event)]
         /\ stored' = [stored EXCEPT ![d] = StoredOf(j)]
         /\ phases[d] = PhaseOf(job[d]) /\ addressees[d] = Addressee(job[d].event)
         /\ stored[d] = StoredOf(job[d])
<1>1. job \in [Dispatches -> JobStates]
  BY DEF NoticesIInv, NoticesTypeOK
<1>2. \A x \in Dispatches : job'[x] = IF x = d THEN j ELSE job[x]
  BY <1>1
<1>3. phases' = [phases EXCEPT ![d] = PhaseOf(j)] /\ phases[d] = PhaseOf(job[d])
  BY <1>2 DEF phases, PhaseOf
<1>4. /\ addressees' = [addressees EXCEPT ![d] = Addressee(j.event)]
      /\ addressees[d] = Addressee(job[d].event)
  <2>1. addressees' = [x \in Dispatches |-> Addressee(job'[x].event)]
    BY DEF addressees, Addressee
  <2>2. addressees = [x \in Dispatches |-> Addressee(job[x].event)]
    BY DEF addressees
  <2>3. \A x \in Dispatches : Addressee(job'[x].event) = IF x = d THEN Addressee(j.event)
                                                          ELSE Addressee(job[x].event)
    BY <1>2
  <2>4. QED BY <2>1, <2>2, <2>3
<1>5. stored' = [stored EXCEPT ![d] = StoredOf(j)] /\ stored[d] = StoredOf(job[d])
  BY <1>2 DEF stored, StoredOf
<1>6. QED BY <1>3, <1>4, <1>5

\* A step that changes nothing the pipeline sees.
LEMMA BoardStutters ==
  ASSUME NoticesIInv, NEW d \in Dispatches, NEW j, job' = [job EXCEPT ![d] = j], UNCHANGED created,
         j.event = job[d].event, PhaseOf(j) = PhaseOf(job[d]), StoredOf(j) = StoredOf(job[d])
  PROVE  UNCHANGED <<phases, addressees, stored, created>>
<1>1. UNCHANGED phases
  BY BoardMoves DEF phases
<1>2. UNCHANGED addressees
  BY BoardMoves DEF addressees
<1>3. UNCHANGED stored
  BY BoardMoves DEF stored
<1>4. QED BY <1>1, <1>2, <1>3

LEMMA DispatchRefines ==
  ASSUME NoticesIInv, NEW d \in Dispatches, NEW e \in Events, Dispatch(d, e)
  PROVE  Board!Next
<1> DEFINE j == [IdleJob EXCEPT !.event = e, !.pc = FirstStep(e), !.to = Addressee(e)]
<1>1. job' = [job EXCEPT ![d] = j] /\ UNCHANGED created /\ job[d].pc \in {"idle", "rejected"}
  BY DEF Dispatch, PutJob
<1>2. /\ j.event = e /\ j.got = {} /\ j.pc = FirstStep(e)
      /\ FirstStep(e) \in {"insert", "audience", "resolved"}
      /\ FirstStep(e) = "resolved" => Addressee(e) = Nobody
  BY DEF IdleJob, FirstStep
<1>3. Addressee(e) \in Recipients \union {Nobody, Stranger}
  BY DEF Addressee, Events
<1>4. job[d].pc = "rejected" => e = job[d].event
  BY DEF Dispatch, IdleJob
<1> HIDE DEF j
<1>5. /\ phases' = [phases EXCEPT ![d] = PhaseOf(j)]
      /\ addressees' = [addressees EXCEPT ![d] = Addressee(e)]
      /\ stored' = [stored EXCEPT ![d] = StoredOf(j)]
      /\ phases[d] = PhaseOf(job[d]) /\ addressees[d] = Addressee(job[d].event)
  BY <1>1, <1>2, BoardMoves
<1>6. /\ phases[d] \in {"idle", "rejected"}
      /\ phases[d] = "rejected" => Addressee(e) = addressees[d]
  BY <1>1, <1>4, <1>5 DEF PhaseOf
<1>7. /\ StoredOf(j) = {}
      /\ PhaseOf(j) \in {"working"} \union (IF Addressee(e) = Nobody THEN {"resolved"} ELSE {})
  BY <1>2 DEF StoredOf, PhaseOf
<1>8. Board!Begin(d, Addressee(e))
  BY <1>1, <1>5, <1>6, <1>7 DEF Board!Begin
<1>9. QED BY <1>3, <1>8 DEF Board!Next

\* A dispatch that throws, or is cut off.
LEMMA RejectRefines ==
  ASSUME NoticesIInv, NEW d \in Dispatches, NEW j, job' = [job EXCEPT ![d] = j], UNCHANGED created,
         j.event = job[d].event, j.pc = "rejected", job[d].pc \notin {"idle", "rejected"}
  PROVE  Board!Next
<1>1. /\ phases' = [phases EXCEPT ![d] = "rejected"] /\ phases[d] \in {"working", "resolved"}
      /\ stored' = [stored EXCEPT ![d] = {}]
  BY BoardMoves DEF PhaseOf, StoredOf
<1>2. UNCHANGED addressees
  BY BoardMoves DEF addressees
<1>3. Board!Reject(d)
  BY <1>1, <1>2 DEF Board!Reject
<1>4. QED BY <1>3 DEF Board!Next

\* A dispatch that is done: the event names nobody, or the one it names has the notice.
LEMMA ResolveRefines ==
  ASSUME NoticesIInv, NEW d \in Dispatches, NEW j, job' = [job EXCEPT ![d] = j], UNCHANGED created,
         j.event = job[d].event, j.pc = "resolved", job[d].pc \notin {"idle", "rejected", "resolved"},
         StoredOf(j) = StoredOf(job[d]),
         Addressee(j.event) # Nobody => Addressee(j.event) \in StoredOf(j)
  PROVE  Board!Next
<1>1. /\ phases' = [phases EXCEPT ![d] = "resolved"] /\ phases[d] = "working"
      /\ addressees[d] # Nobody => addressees[d] \in stored[d]
  BY BoardMoves DEF PhaseOf
<1>2. UNCHANGED addressees
  BY BoardMoves DEF addressees
<1>3. UNCHANGED stored
  BY BoardMoves DEF stored
<1>4. Board!Resolve(d)
  BY <1>1, <1>2, <1>3 DEF Board!Resolve
<1>5. QED BY <1>4 DEF Board!Next

LEMMA AudienceRefines ==
  ASSUME NoticesIInv, NEW d \in Dispatches,
         \/ \E audience \in SUBSET Recipients : ReadAudience(d, audience)
         \/ \E u \in Recipients : NextRecipient(d, u)
         \/ EndAudience(d)
  PROVE  Board!Next \/ UNCHANGED <<phases, addressees, stored, created>>
<1>0. job[d] \in JobStates /\ JobOK(d) /\ UNCHANGED created
  BY DEF NoticesIInv, NoticesTypeOK, ReadAudience, NextRecipient, EndAudience, noticeCounts
<1>1. PICK j :
        /\ job' = [job EXCEPT ![d] = j] /\ j.event = job[d].event /\ j.got = job[d].got
        /\ job[d].pc \in {"audience", "department", "next", "last"}
        /\ j.pc \in {"next", "last", "insert", "insertLast", "department", "resolved"}
  <2>1. CASE \E audience \in SUBSET Recipients : ReadAudience(d, audience)
    <3>1. PICK p \in {"next", "last"}, audience \in SUBSET Recipients :
            /\ job' = [job EXCEPT ![d] = [job[d] EXCEPT !.pc = p, !.left = audience]]
            /\ job[d].pc \in {"audience", "department"}
      BY <2>1 DEF ReadAudience, PutJob
    <3> DEFINE k == [job[d] EXCEPT !.pc = p, !.left = audience]
    <3>2. k.event = job[d].event /\ k.got = job[d].got /\ k.pc = p
      BY <1>0 DEF JobStates
    <3> HIDE DEF k
    <3>3. job' = [job EXCEPT ![d] = k]
      BY <3>1 DEF k
    <3>4. QED BY <3>1, <3>2, <3>3
  <2>2. CASE \E u \in Recipients : NextRecipient(d, u)
    <3>1. PICK p \in {"insert", "insertLast"}, u \in Recipients :
            /\ job' = [job EXCEPT ![d] = [job[d] EXCEPT !.pc = p, !.to = u, !.attempt = 1,
                                                         !.left = @ \ {u}]]
            /\ job[d].pc \in {"next", "last"}
      BY <2>2 DEF NextRecipient, PutJob
    <3> DEFINE k == [job[d] EXCEPT !.pc = p, !.to = u, !.attempt = 1, !.left = @ \ {u}]
    <3>2. k.event = job[d].event /\ k.got = job[d].got /\ k.pc = p
      BY <1>0 DEF JobStates
    <3>3. job' = [job EXCEPT ![d] = k]
      BY <3>1
    <3> HIDE DEF k
    <3>4. QED BY <3>1, <3>2, <3>3
  <2>3. CASE EndAudience(d)
    <3>1. PICK p \in {"department", "resolved"} :
            job' = [job EXCEPT ![d] = [job[d] EXCEPT !.pc = p]] /\ job[d].pc \in {"next", "last"}
      BY <2>3 DEF EndAudience, PutJob
    <3> DEFINE k == [job[d] EXCEPT !.pc = p]
    <3>2. k.event = job[d].event /\ k.got = job[d].got /\ k.pc = p
      BY <1>0 DEF JobStates
    <3>3. job' = [job EXCEPT ![d] = k]
      BY <3>1
    <3> HIDE DEF k
    <3>4. QED BY <3>1, <3>2, <3>3
  <2>4. QED BY <2>1, <2>2, <2>3
<1>2. StoredOf(j) = StoredOf(job[d])
  BY <1>1 DEF StoredOf
<1>3. CASE j.pc = "resolved"
  <2>1. Addressee(j.event) = Nobody
    BY <1>0, <1>1 DEF JobOK, Direct, Addressee
  <2>2. QED BY <1>0, <1>1, <1>2, <1>3, <2>1, ResolveRefines
<1>4. CASE j.pc # "resolved"
  <2>1. PhaseOf(j) = PhaseOf(job[d])
    BY <1>1, <1>4 DEF PhaseOf
  <2>2. QED BY <1>0, <1>1, <1>2, <2>1, BoardStutters
<1>5. QED BY <1>3, <1>4

LEMMA InsertNoticeRefines == ASSUME NoticesIInv, NEW d \in Dispatches, InsertNotice(d) PROVE Board!Next
<1>0. job[d] \in JobStates /\ created \in [Recipients -> Nat]
  BY DEF NoticesIInv, NoticesTypeOK
<1>1. PICK p \in {"send", "sendLast"} :
        job' = [job EXCEPT ![d] = [job[d] EXCEPT !.pc = p, !.attempt = 1]]
  BY DEF InsertNotice, PutJob
<1> DEFINE j == [job[d] EXCEPT !.pc = p, !.attempt = 1]
<1>2. j.pc = p /\ j.event = job[d].event /\ j.to = job[d].to /\ j.got = job[d].got
  BY <1>0 DEF JobStates
<1>3. job' = [job EXCEPT ![d] = j]
  BY <1>1
<1> HIDE DEF j
<1>4. Inserting(d) /\ job[d].to \in Recipients /\ created' = [created EXCEPT ![job[d].to] = @ + 1]
  BY DEF InsertNotice, Bump
<1>5. /\ PhaseOf(j) = "working" /\ PhaseOf(job[d]) = "working"
      /\ StoredOf(j) = StoredOf(job[d]) \union {job[d].to}
  BY <1>2, <1>4 DEF PhaseOf, StoredOf, Inserting
<1>6. /\ phases[d] = "working" /\ phases' = [phases EXCEPT ![d] = "working"]
      /\ stored' = [stored EXCEPT ![d] = stored[d] \union {job[d].to}]
      /\ addressees' = [addressees EXCEPT ![d] = addressees[d]]
  <2>1. /\ phases' = [phases EXCEPT ![d] = PhaseOf(j)] /\ stored' = [stored EXCEPT ![d] = StoredOf(j)]
        /\ addressees' = [addressees EXCEPT ![d] = Addressee(j.event)]
        /\ phases[d] = PhaseOf(job[d]) /\ addressees[d] = Addressee(job[d].event)
        /\ stored[d] = StoredOf(job[d])
    BY <1>3, BoardMoves
  <2>2. QED BY <1>2, <1>5, <2>1
<1>7. UNCHANGED phases /\ UNCHANGED addressees
  <2>1. phases' = phases
    BY <1>6 DEF phases
  <2>2. addressees' = addressees
    BY <1>6 DEF addressees
  <2>3. QED BY <2>1, <2>2
<1>8. Board!Store(d, job[d].to)
  BY <1>4, <1>6, <1>7 DEF Board!Store
<1>9. QED BY <1>4, <1>8 DEF Board!Next

LEMMA FailInsertRefines ==
  ASSUME NoticesIInv, NEW d \in Dispatches, FailInsert(d)
  PROVE  Board!Next \/ UNCHANGED <<phases, addressees, stored, created>>
<1>0. job[d] \in JobStates /\ JobOK(d) /\ created \in [Recipients -> Nat] /\ Inserting(d)
  BY DEF NoticesIInv, NoticesTypeOK, FailInsert
<1>1. PICK j :
        /\ job' = [job EXCEPT ![d] = j] /\ j.event = job[d].event
        /\ \/ j.pc = job[d].pc /\ j.got = job[d].got
           \/ j.pc = "rejected"
           \/ j.pc \in {"next", "last"} /\ j.got = job[d].got
  <2>1. CASE AttemptsLeft(d)
    <3> DEFINE k == [job[d] EXCEPT !.attempt = @ + 1]
    <3>1. job' = [job EXCEPT ![d] = k]
      BY <2>1 DEF FailInsert, PutJob
    <3>2. k.pc = job[d].pc /\ k.event = job[d].event /\ k.got = job[d].got
      BY <1>0 DEF JobStates
    <3> HIDE DEF k
    <3>3. QED BY <3>1, <3>2
  <2>2. CASE ~AttemptsLeft(d)
    <3>1. job' = [job EXCEPT ![d] = Missed(d)]
      BY <2>2 DEF FailInsert, PutJob
    <3>2. /\ Missed(d).event = job[d].event /\ Missed(d).got = job[d].got
          /\ Missed(d).pc \in {"rejected", "next", "last"}
      BY <1>0 DEF Missed, JobStates
    <3>3. QED BY <3>1, <3>2
  <2>3. QED BY <2>1, <2>2
<1>2. PhaseOf(job[d]) = "working" /\ StoredOf(job[d]) = job[d].got
  BY <1>0 DEF PhaseOf, StoredOf, Inserting
<1>3. \/ PhaseOf(j) = "working" /\ StoredOf(j) = job[d].got
      \/ PhaseOf(j) = "rejected" /\ StoredOf(j) = {}
  BY <1>0, <1>1 DEF PhaseOf, StoredOf, Inserting
<1>4. UNCHANGED addressees
  BY <1>1, BoardMoves DEF addressees
<1>5. /\ phases[d] = "working"
      /\ \/ UNCHANGED <<phases, stored>>
         \/ phases' = [phases EXCEPT ![d] = "rejected"] /\ stored' = [stored EXCEPT ![d] = {}]
  <2>1. /\ phases' = [phases EXCEPT ![d] = PhaseOf(j)] /\ stored' = [stored EXCEPT ![d] = StoredOf(j)]
        /\ phases[d] = "working" /\ stored[d] = job[d].got
    BY <1>1, <1>2, BoardMoves
  <2>2. CASE PhaseOf(j) = "working" /\ StoredOf(j) = job[d].got
    <3>1. phases' = phases
      BY <2>1, <2>2 DEF phases
    <3>2. stored' = stored
      BY <2>1, <2>2 DEF stored
    <3>3. QED BY <2>1, <3>1, <3>2
  <2>3. CASE PhaseOf(j) = "rejected" /\ StoredOf(j) = {}
    BY <2>1, <2>3
  <2>4. QED BY <1>3, <2>2, <2>3
<1>6. CASE created' = created
  <2>1. Board!Reject(d) \/ UNCHANGED <<phases, stored>>
    BY <1>4, <1>5, <1>6 DEF Board!Reject
  <2>2. QED BY <1>4, <1>6, <2>1 DEF Board!Next
<1>7. CASE job[d].to \in Recipients /\ created' = Bump(created, job[d].to)
  <2>1. created' = [created EXCEPT ![job[d].to] = @ + 1]
    BY <1>7 DEF Bump
  <2>2. Board!Stray(d, job[d].to)
    BY <1>4, <1>5, <2>1 DEF Board!Stray
  <2>3. QED BY <1>7, <2>2 DEF Board!Next
<1>8. QED BY <1>6, <1>7 DEF FailInsert

\* A message sent, given up, or to be tried again.
LEMMA SendingRefines ==
  ASSUME NoticesIInv, NEW d \in Dispatches, SendNotice(d) \/ FailSend(d)
  PROVE  Board!Next \/ UNCHANGED <<phases, addressees, stored, created>>
<1>0. job[d] \in JobStates /\ JobOK(d) /\ Sending(d) /\ job[d].to \in Recipients /\ UNCHANGED created
  BY DEF NoticesIInv, NoticesTypeOK, JobOK, SendNotice, FailSend
<1>1. CASE \E j \in {Delivered(d), Unreached(d)} : job' = [job EXCEPT ![d] = j]
  <2>0. PICK j \in {Delivered(d), Unreached(d)} : job' = [job EXCEPT ![d] = j]
    BY <1>1
  <2>1. /\ Delivered(d).event = job[d].event /\ Delivered(d).got = job[d].got \union {job[d].to}
        /\ Delivered(d).pc = IF Direct(d) THEN "resolved" ELSE IF InLast(d) THEN "last" ELSE "next"
    BY <1>0 DEF Delivered, JobStates
  <2>2. j.event = job[d].event /\ j.got = Delivered(d).got /\ j.pc = Delivered(d).pc
    BY <1>0, <2>0, <2>1, UnreachedTyped
  <2>3. StoredOf(j) = StoredOf(job[d]) /\ job[d].to \in StoredOf(j)
    BY <1>0, <2>1, <2>2 DEF StoredOf, Sending
  <2>4. CASE Direct(d)
    <3>1. Addressee(job[d].event) = job[d].to
      BY <1>0, <2>4 DEF JobOK, Addressee, Sending, Direct
    <3>2. job[d].pc \notin {"idle", "rejected", "resolved"}
      BY <1>0 DEF Sending
    <3>3. QED BY <1>0, <2>0, <2>1, <2>2, <2>3, <2>4, <3>1, <3>2, ResolveRefines
  <2>5. CASE ~Direct(d)
    <3>1. PhaseOf(j) = PhaseOf(job[d])
      BY <1>0, <2>1, <2>2, <2>5 DEF PhaseOf, Sending
    <3>2. QED BY <1>0, <2>0, <2>1, <2>2, <2>3, <3>1, BoardStutters
  <2>6. QED BY <2>4, <2>5
<1>2. CASE job' = [job EXCEPT ![d] = [job[d] EXCEPT !.attempt = @ + 1]]
  <2> DEFINE j == [job[d] EXCEPT !.attempt = @ + 1]
  <2>1. j.event = job[d].event /\ j.got = job[d].got /\ j.pc = job[d].pc /\ j.to = job[d].to
    BY <1>0 DEF JobStates
  <2>2. job' = [job EXCEPT ![d] = j]
    BY <1>2
  <2> HIDE DEF j
  <2>3. PhaseOf(j) = PhaseOf(job[d]) /\ StoredOf(j) = StoredOf(job[d])
    BY <2>1 DEF PhaseOf, StoredOf
  <2>4. QED BY <1>0, <2>1, <2>2, <2>3, BoardStutters
<1>3. QED BY <1>1, <1>2 DEF SendNotice, FailSend, PutJob

LEMMA StepRefines == NoticesIInv /\ [NoticesNext]_noticeVars => [Board!Next]_Board!boardVars
<1> SUFFICES ASSUME NoticesIInv, [NoticesNext]_noticeVars
             PROVE  Board!Next \/ UNCHANGED <<phases, addressees, stored, created>>
  BY DEF Board!boardVars
<1>1. ASSUME NEW d \in Dispatches, NEW e \in Events, Dispatch(d, e) PROVE Board!Next
  BY <1>1, DispatchRefines
<1>2. ASSUME NEW d \in Dispatches, FailAudience(d) \/ CutOff(d) PROVE Board!Next
  <2> DEFINE j == [job[d] EXCEPT !.pc = "rejected"]
  <2>1. job' = [job EXCEPT ![d] = j] /\ UNCHANGED created /\ job[d].pc \notin {"idle", "rejected"}
    BY <1>2 DEF FailAudience, CutOff, PutJob, noticeCounts
  <2>2. job[d] \in JobStates
    BY DEF NoticesIInv, NoticesTypeOK
  <2>3. j.event = job[d].event /\ j.pc = "rejected"
    BY <2>2 DEF JobStates
  <2> HIDE DEF j
  <2>4. QED BY <2>1, <2>3, RejectRefines
<1>3. ASSUME NEW d \in Dispatches,
             \/ \E audience \in SUBSET Recipients : ReadAudience(d, audience)
             \/ \E u \in Recipients : NextRecipient(d, u)
             \/ EndAudience(d)
      PROVE  Board!Next \/ UNCHANGED <<phases, addressees, stored, created>>
  BY <1>3, AudienceRefines
<1>4. ASSUME NEW d \in Dispatches, InsertNotice(d) PROVE Board!Next
  BY <1>4, InsertNoticeRefines
<1>5. ASSUME NEW d \in Dispatches, FailInsert(d) \/ SendNotice(d) \/ FailSend(d)
      PROVE  Board!Next \/ UNCHANGED <<phases, addressees, stored, created>>
  BY <1>5, FailInsertRefines, SendingRefines
<1>6. CASE UNCHANGED noticeVars
  <2>1. UNCHANGED <<job, created>>
    BY <1>6 DEF noticeVars, noticeCounts
  <2>2. UNCHANGED phases
    BY <2>1 DEF phases, PhaseOf
  <2>3. UNCHANGED addressees
    BY <2>1 DEF addressees, Addressee
  <2>4. UNCHANGED stored
    BY <2>1 DEF stored, StoredOf
  <2>5. QED BY <2>1, <2>2, <2>3, <2>4
<1>7. QED BY <1>1, <1>2, <1>3, <1>4, <1>5, <1>6 DEF NoticesNext

\* The dispatcher implements the notice board: an event that names a user is reported as
\* processed only when that user has the notice, whatever fails in between (dispatch,
\* dispatchBroadcast, deliverWithRetry).
THEOREM DispatcherKeepsPromise == NoticesSpec => NoticePromise
<1>1. NoticesInit => Board!Init
  <2> SUFFICES ASSUME NoticesInit PROVE Board!Init
    OBVIOUS
  <2>1. phases = [d \in Dispatches |-> "idle"]
    BY DEF NoticesInit, phases, PhaseOf, IdleJob
  <2>2. addressees = [d \in Dispatches |-> Nobody]
    BY DEF NoticesInit, addressees, Addressee, IdleJob, AnyEvent
  <2>3. stored = [d \in Dispatches |-> {}]
    BY DEF NoticesInit, stored, StoredOf, IdleJob
  <2>4. created = [u \in Recipients |-> 0]
    BY DEF NoticesInit
  <2>5. QED BY <2>1, <2>2, <2>3, <2>4 DEF Board!Init
<1>2. QED
  BY <1>1, StepRefines, NoticesInvariance, PTL DEF NoticesSpec, NoticePromise, Board!Spec

=============================================================================
