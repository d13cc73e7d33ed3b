-------------------------- MODULE Workflow_proofs --------------------------
(***************************************************************************)
(* Proofs about Workflow and Moderation, for any number of items, pieces   *)
(* of evidence, users and calls.  A call that is about to write a status   *)
(* read its item before it ended (the table leads out of no final status); *)
(* a call that is about to write a list read one whose difference to the   *)
(* list of now is what raced will say.                                     *)
(***************************************************************************)
EXTENDS MCWorkflow, TLAPS

\* Where a call is says what it holds.
CallOK(c) ==
  /\ call[c].at = "transition" => call[c].to \in Statuses /\ ~call[c].over
  /\ call[c].at \in {"update", "reply"} =>
       call[c].item \in Tickets /\ call[c].to \in TicketStatuses
  /\ call[c].at = "reply" => call[c].to = "WAITING_REPLY"
  /\ call[c].at \in {"add", "remove"} =>
       ~call[c].over /\ call[c].seen \subseteq added[call[c].item]
  /\ call[c].at = "add" => call[c].piece \notin added[call[c].item]
  /\ call[c].at = "remove" => call[c].piece \in call[c].seen

\* No two calls are adding the same piece.
PiecesDiffer ==
  \A c, d \in Calls :
    c # d /\ call[c].at = "add" /\ call[d].at = "add" => call[c].piece # call[d].piece

\* Only what was added is in a list or removed.
ListsOK ==
  \A i \in Investigations : evidence[i] \subseteq added[i] /\ removed[i] \subseteq added[i]

IInv ==
  /\ TypeOK
  /\ \A c \in Calls : CallOK(c)
  /\ PiecesDiffer
  /\ ListsOK
  /\ EndHolds
  /\ ClosingIsPublished
  /\ EvidenceIsKept

USE DEF Absent, None, NoCall

\* The table leads to statuses, and out of no final one.
LEMMA Table ==
  ASSUME NEW i \in Items, NEW s
  PROVE  /\ Transitions(i, s) \subseteq Statuses
         /\ s \in Final(i) => Transitions(i, s) = {}
         /\ Closing(i) \in Final(i)
         /\ Closing(i) \in Publishing(i)
         /\ Closing(i) # Absent /\ Absent \notin Publishing(i)
         /\ First(i) \in Statuses /\ First(i) # Closing(i) /\ First(i) \notin Publishing(i)
BY KindsAssumption DEF Items, Transitions, TicketTransitions, CaseTransitions,
   InvestigationTransitions, Statuses, TicketStatuses, CaseStatuses, InvestigationStatuses,
   Final, Closing, Publishing, First

LEMMA Initial == Init => IInv
<1> SUFFICES ASSUME Init PROVE IInv
  OBVIOUS
<1>1. TypeOK
  BY DEF Init, TypeOK, CallState, Present
<1>2. \A c \in Calls : CallOK(c)
  BY DEF Init, CallOK
<1>3. EndHolds /\ ClosingIsPublished
  BY Table DEF Init, EndHolds, ClosingIsPublished
<1> QED BY <1>1, <1>2, <1>3 DEF Init, IInv, PiecesDiffer, ListsOK, EvidenceIsKept

(***************************************************************************)
(* What a call that moves leaves alone                                     *)
(***************************************************************************)

\* One call moves: the others are as they were.
LEMMA CallMoves ==
  ASSUME IInv, NEW c \in Calls, NEW k \in CallState, call' = [call EXCEPT ![c] = k],
         UNCHANGED added, CallOK(c)',
         k.at = "add" => \A d \in Calls : call[d].piece # k.piece
  PROVE  (\A d \in Calls : CallOK(d)') /\ PiecesDiffer'
<1>1. call \in [Calls -> CallState] /\ call'[c] = k /\ \A d \in Calls : d # c => call'[d] = call[d]
  BY DEF IInv, TypeOK
<1>2. ASSUME NEW d \in Calls, d # c PROVE CallOK(d)'
  BY <1>1, <1>2 DEF IInv, CallOK
<1>3. PiecesDiffer'
  BY <1>1 DEF IInv, PiecesDiffer
<1> QED BY <1>2, <1>3

\* A call that is over leaves the others as they were.
LEMMA CallEnds ==
  ASSUME IInv, NEW c \in Calls, End(c), UNCHANGED added
  PROVE  /\ \A d \in Calls : CallOK(d)'
         /\ PiecesDiffer'
         /\ call' \in [Calls -> CallState] /\ call'[c] = NoCall
         /\ \A d \in Calls : d # c => call'[d] = call[d]
<1>1. NoCall \in CallState
  BY DEF CallState
<1>2. call' = [call EXCEPT ![c] = NoCall] /\ call'[c] = NoCall
  BY DEF End, IInv, TypeOK
<1>3. CallOK(c)'
  BY <1>2 DEF CallOK
<1>4. (\A d \in Calls : CallOK(d)') /\ PiecesDiffer'
  BY <1>1, <1>2, <1>3, CallMoves
<1> QED BY <1>1, <1>2, <1>4 DEF IInv, TypeOK

\* Calls and items do not touch the lists, nor the lists the items.
LEMMA FilesStay ==
  ASSUME IInv, UNCHANGED files
  PROVE  ListsOK' /\ EvidenceIsKept' /\ UNCHANGED added
BY DEF IInv, files, ListsOK, EvidenceIsKept

LEMMA ItemsStay ==
  ASSUME IInv, UNCHANGED items, published \subseteq published', unpublished \subseteq unpublished',
         \A d \in Calls : call[d].at = "publish" =>
           call'[d] = call[d] \/ call[d].item \in published' \union unpublished'
  PROVE  EndHolds' /\ ClosingIsPublished' /\ UNCHANGED <<status, Present>>
<1>1. UNCHANGED <<status, dated, byUpdate, revised, Present>>
  BY DEF items, Present
<1>2. ASSUME NEW i \in Items \ byUpdate, status[i] \in Publishing(i)
      PROVE  \/ i \in published' \union unpublished'
             \/ \E c \in Calls : call'[c].at = "publish" /\ call'[c].item = i
  BY <1>2 DEF IInv, ClosingIsPublished
<1>3. EndHolds'
  BY <1>1 DEF IInv, EndHolds
<1>4. ClosingIsPublished'
  BY <1>1, <1>2 DEF ClosingIsPublished
<1> QED BY <1>1, <1>3, <1>4

(***************************************************************************)
(* Items are created, and calls begin                                      *)
(***************************************************************************)

LEMMA CreateStep ==
  ASSUME IInv, NEW i \in Items, Create(i)
  PROVE  IInv'
<1>1. First(i) \in Statuses /\ First(i) # Closing(i) /\ First(i) \notin Publishing(i)
  BY Table
<1>2. /\ status' = [status EXCEPT ![i] = First(i)] /\ status[i] = Absent
      /\ i \notin dated /\ \A c \in Calls : call[c].at # "idle" => call[c].item # i
      /\ UNCHANGED <<dated, byUpdate, revised, files, call, published, unpublished, losses>>
  BY DEF Create, Present, IInv, TypeOK
<1>3. Present \subseteq Present'
  BY <1>1, <1>2 DEF Present, IInv, TypeOK, Statuses, TicketStatuses, CaseStatuses,
     InvestigationStatuses
<1>4. TypeOK'
  BY <1>1, <1>2, <1>3 DEF IInv, TypeOK, files
<1>5. (\A c \in Calls : CallOK(c)') /\ PiecesDiffer'
  BY <1>2 DEF IInv, CallOK, PiecesDiffer, files
<1>6. EndHolds'
  BY <1>1, <1>2 DEF IInv, TypeOK, EndHolds
<1>7. ClosingIsPublished'
  BY <1>1, <1>2 DEF IInv, TypeOK, ClosingIsPublished
<1> QED BY <1>2, <1>4, <1>5, <1>6, <1>7, FilesStay DEF IInv

LEMMA BeginStep ==
  ASSUME IInv, NEW c \in Calls, NEW i \in Items, NEW k \in CallState, Begin(c, i, k),
         k.item = i, k.at \in {"transition", "update", "reply", "add", "remove"},
         k.at = "add" => \A d \in Calls : call[d].piece # k.piece,
         k.at \in {"add", "remove"} => i \in Investigations /\ k.piece \in Evidence,
         CallOK(c)'
  PROVE  IInv'
<1>1. /\ call[c] = NoCall /\ i \in Present /\ call' = [call EXCEPT ![c] = k]
      /\ UNCHANGED <<items, files, published, unpublished, losses>>
      /\ call'[c] = k /\ \A d \in Calls : d # c => call'[d] = call[d]
  BY DEF Begin, IInv, TypeOK
<1>2. EndHolds' /\ ClosingIsPublished' /\ UNCHANGED <<status, Present>>
  BY <1>1, ItemsStay
<1>3. ListsOK' /\ EvidenceIsKept' /\ UNCHANGED added
  BY <1>1, FilesStay
<1>4. (\A d \in Calls : CallOK(d)') /\ PiecesDiffer'
  BY <1>1, <1>3, CallMoves
<1>5. TypeOK'
  BY <1>1, <1>2 DEF IInv, TypeOK, items, files
<1> QED BY <1>2, <1>3, <1>4, <1>5 DEF IInv

\* A call that is recorded is a call.
LEMMA NewCalls ==
  ASSUME IInv, NEW i \in Items
  PROVE  /\ \A a \in {"transition", "update", "reply"}, s \in Statuses :
              StatusCall(a, i, s) \in CallState
         /\ \A a \in {"add", "remove"}, e \in Evidence :
              i \in Investigations => ListCall(a, i, e) \in CallState
<1>1. Over(i) \in BOOLEAN
  BY DEF Over
<1>2. i \in Investigations => evidence[i] \in SUBSET Evidence
  BY DEF IInv, TypeOK
<1> QED BY <1>1, <1>2 DEF StatusCall, ListCall, CallState

LEMMA BeginTransitionStep ==
  ASSUME IInv, NEW c \in Calls, NEW i \in Items, NEW s \in Statuses, BeginTransition(c, i, s)
  PROVE  IInv'
<1> DEFINE k == StatusCall("transition", i, s)
<1>1. ~Over(i) /\ Begin(c, i, k)
  BY Table DEF BeginTransition, Over
<1>2. k \in CallState
  BY NewCalls
<1>3. /\ k.at = "transition" /\ k.item = i /\ k.to = s /\ ~k.over
  BY <1>1 DEF StatusCall
<1> HIDE DEF k
<1>4. call'[c] = k
  BY <1>1 DEF Begin, IInv, TypeOK
<1>5. CallOK(c)'
  BY <1>3, <1>4 DEF CallOK
<1> QED BY <1>1, <1>2, <1>3, <1>5, BeginStep

LEMMA BeginOverrideStep ==
  ASSUME IInv, NEW c \in Calls, NEW i \in Tickets, NEW s \in TicketStatuses,
         BeginUpdate(c, i, s) \/ BeginReply(c, i)
  PROVE  IInv'
<1>1. PICK a \in {"update", "reply"}, t \in TicketStatuses :
        Begin(c, i, StatusCall(a, i, t)) /\ (a = "reply" => t = "WAITING_REPLY")
  BY DEF BeginUpdate, BeginReply, TicketStatuses
<1> DEFINE k == StatusCall(a, i, t)
<1>2. i \in Items /\ t \in Statuses
  BY DEF Items, Statuses
<1>3. k \in CallState
  BY <1>2, NewCalls
<1>4. k.at = a /\ k.item = i /\ k.to = t
  BY DEF StatusCall
<1> HIDE DEF k
<1>5. Begin(c, i, k)
  BY <1>1 DEF k
<1>6. call'[c] = k
  BY <1>3, <1>5 DEF Begin, IInv, TypeOK
<1>7. CallOK(c)'
  BY <1>1, <1>4, <1>6 DEF CallOK
<1> QED BY <1>2, <1>3, <1>4, <1>5, <1>7, BeginStep

LEMMA BeginListStep ==
  ASSUME IInv, NEW c \in Calls, NEW i \in Investigations, NEW e \in Evidence,
         BeginAdd(c, i, e) \/ BeginRemove(c, i, e)
  PROVE  IInv'
<1>1. PICK a \in {"add", "remove"} :
        /\ Begin(c, i, ListCall(a, i, e))
        /\ ~Over(i)
        /\ a = "add" => e \notin added[i] /\ \A d \in Calls : call[d].piece # e
        /\ a = "remove" => e \in evidence[i]
  BY DEF BeginAdd, BeginRemove, Fresh
<1> DEFINE k == ListCall(a, i, e)
<1>2. i \in Items
  BY DEF Items
<1>3. k \in CallState
  BY <1>2, NewCalls
<1>4. k.at = a /\ k.item = i /\ k.piece = e /\ k.seen = evidence[i] /\ ~k.over
  BY <1>1 DEF ListCall
<1> HIDE DEF k
<1>5. Begin(c, i, k)
  BY <1>1 DEF k
<1>6. call'[c] = k /\ added' = added /\ evidence[i] \subseteq added[i]
  BY <1>3, <1>5 DEF Begin, IInv, TypeOK, ListsOK, files
<1>7. CallOK(c)'
  BY <1>1, <1>4, <1>6 DEF CallOK
<1> QED BY <1>1, <1>2, <1>3, <1>4, <1>5, <1>7, BeginStep

(***************************************************************************)
(* Statuses are written and published                                      *)
(***************************************************************************)

\* Item i gets status s, with the date if it is the closing one; the call is
\* over, or about to publish.
LEMMA StatusMoves ==
  ASSUME IInv, NEW c \in Calls, NEW i \in Present, NEW s \in Statuses, NEW k \in CallState,
         status' = [status EXCEPT ![i] = s],
         dated \subseteq dated', dated' \subseteq dated \union {i},
         s = Closing(i) => i \in dated' \union byUpdate',
         i \in dated' \ revised' => s = Closing(i),
         revised' \subseteq dated', \A j \in dated : j # i => (j \in revised <=> j \in revised'),
         byUpdate' \subseteq Tickets, byUpdate \ {i} \subseteq byUpdate',
         call[c].item = i, call[c].at # "publish",
         call' = [call EXCEPT ![c] = k],
         k = NoCall \/ (k.at = "publish" /\ k.item = i),
         s \in Publishing(i) => i \in byUpdate' \/ k.at = "publish",
         UNCHANGED <<files, published, unpublished, losses>>
  PROVE  IInv'
<1>1. i \in Items /\ Present \subseteq Present' /\ i \in Present'
  BY DEF Present, IInv, TypeOK, Statuses, TicketStatuses, CaseStatuses, InvestigationStatuses
<1>2. call'[c] = k /\ \A d \in Calls : d # c => call'[d] = call[d]
  BY DEF IInv, TypeOK
<1>3. k.at \in {"idle", "publish"} /\ (k.at = "publish" => k.item = i)
  OBVIOUS
<1>4. status' \in [Items -> Statuses \union {Absent}] /\ status'[i] = s
      /\ \A j \in Items : j # i => status'[j] = status[j]
  BY <1>1 DEF IInv, TypeOK
<1>5. TypeOK'
  <2>1. dated' \subseteq Present' /\ revised' \subseteq dated' /\ byUpdate' \subseteq Tickets
    BY <1>1 DEF IInv, TypeOK
  <2>2. call' \in [Calls -> CallState]
    BY DEF IInv, TypeOK
  <2>3. \A d \in Calls : /\ call'[d].at # "idle" => call'[d].item \in Present'
                         /\ call'[d].at \in {"add", "remove"} =>
                              call'[d].item \in Investigations /\ call'[d].piece \in Evidence
    BY <1>1, <1>2, <1>3 DEF IInv, TypeOK
  <2> QED BY <1>4, <2>1, <2>2, <2>3 DEF IInv, TypeOK, files
<1>6. CallOK(c)'
  BY <1>2, <1>3 DEF CallOK
<1>7. ListsOK' /\ EvidenceIsKept' /\ UNCHANGED added
  BY FilesStay
<1>8. (\A d \in Calls : CallOK(d)') /\ PiecesDiffer'
  BY <1>3, <1>6, <1>7, CallMoves
<1>9. EndHolds'
  <2>1. ASSUME NEW j \in dated' \ revised' PROVE status'[j] = Closing(j)
    <3>1. CASE j = i
      BY <1>4, <3>1
    <3>2. CASE j # i
      <4>1. j \in dated \ revised /\ j \in Items
        BY <3>2 DEF IInv, TypeOK, Present
      <4> QED BY <1>4, <3>2, <4>1 DEF IInv, EndHolds
    <3> QED BY <3>1, <3>2
  <2>2. ASSUME NEW j \in Items \ byUpdate', status'[j] = Closing(j) PROVE j \in dated'
    <3>1. CASE j = i
      BY <1>4, <2>2, <3>1
    <3>2. CASE j # i
      BY <1>4, <2>2, <3>2 DEF IInv, EndHolds
    <3> QED BY <3>1, <3>2
  <2> QED BY <2>1, <2>2 DEF EndHolds
<1>10. ClosingIsPublished'
  <2> SUFFICES ASSUME NEW j \in Items \ byUpdate', status'[j] \in Publishing(j)
               PROVE  \/ j \in published \union unpublished
                      \/ \E d \in Calls : call'[d].at = "publish" /\ call'[d].item = j
    BY DEF ClosingIsPublished, Publishing
  <2>1. CASE j = i
    BY <1>2, <1>3, <1>4, <2>1
  <2>2. CASE j # i
    <3>1. \/ j \in published \union unpublished
          \/ \E d \in Calls : call[d].at = "publish" /\ call[d].item = j
      BY <1>4, <2>2 DEF IInv, ClosingIsPublished
    <3> QED BY <1>2, <3>1
  <2> QED BY <2>1, <2>2
<1> QED BY <1>5, <1>7, <1>8, <1>9, <1>10 DEF IInv

LEMMA WriteStatusStep ==
  ASSUME IInv, NEW c \in Calls, WriteStatus(c)
  PROVE  IInv'
<1> DEFINE i == call[c].item
           s == call[c].to
           k == IF s \in Publishing(i) THEN [call[c] EXCEPT !.at = "publish"] ELSE NoCall
<1>1. call[c] \in CallState /\ call[c].at = "transition" /\ i \in Present /\ i \in Items
      /\ s \in Statuses /\ ~call[c].over
  BY DEF WriteStatus, IInv, TypeOK, CallOK, Present
<1>2. k \in CallState /\ (k = NoCall \/ (k.at = "publish" /\ k.item = i))
      /\ (s \in Publishing(i) => k.at = "publish")
  BY <1>1 DEF CallState
<1>3. call' = [call EXCEPT ![c] = k]
  BY DEF WriteStatus, End
<1>4. Closing(i) \in Final(i)
  BY <1>1, Table
<1>5. /\ status' = [status EXCEPT ![i] = s]
      /\ dated' = IF s = Closing(i) THEN dated \union {i} ELSE dated
      /\ byUpdate' = byUpdate \ {i}
      /\ revised' = IF s = Closing(i) THEN revised \ {i}
                    ELSE IF i \in dated /\ Over(i) THEN revised \union {i} ELSE revised
      /\ UNCHANGED <<files, published, unpublished, losses>>
  BY <1>1 DEF WriteStatus
<1>6. i \in dated' \ revised' => s = Closing(i)
  BY <1>4, <1>5 DEF IInv, EndHolds, Over
<1>7. byUpdate' \subseteq Tickets /\ byUpdate \ {i} \subseteq byUpdate' /\ revised' \subseteq dated'
      /\ \A j \in dated : j # i => (j \in revised <=> j \in revised')
  BY <1>5 DEF IInv, TypeOK
<1> HIDE DEF k, i, s
<1>8. call[c].item = i
  BY DEF i
<1>9. dated \subseteq dated' /\ dated' \subseteq dated \union {i} /\ (s = Closing(i) => i \in dated')
  BY <1>5
<1> QED BY <1>1, <1>2, <1>3, <1>5, <1>6, <1>7, <1>8, <1>9, StatusMoves

LEMMA OverrideStep ==
  ASSUME IInv, NEW c \in Calls, WriteUpdate(c) \/ WriteWaiting(c)
  PROVE  IInv'
<1> DEFINE i == call[c].item
           s == call[c].to
<1>1. call[c].at \in {"update", "reply"} /\ i \in Present /\ i \in Tickets /\ i \in Items
      /\ s \in Statuses
  BY DEF WriteUpdate, WriteWaiting, IInv, TypeOK, CallOK, Present, Statuses
<1>2. /\ status' = [status EXCEPT ![i] = s]
      /\ revised' = IF s = Closing(i) THEN revised \ {i}
                    ELSE IF i \in dated THEN revised \union {i} ELSE revised
      /\ call' = [call EXCEPT ![c] = NoCall]
      /\ UNCHANGED <<dated, files, published, unpublished, losses>>
  BY DEF WriteUpdate, WriteWaiting, WritePast, End
<1>3. \/ byUpdate' = byUpdate \union {i}
      \/ byUpdate' = byUpdate \ {i} /\ s = "WAITING_REPLY"
  BY DEF WriteUpdate, WriteWaiting, CallOK, IInv
<1>4. "WAITING_REPLY" \notin Publishing(i) /\ "WAITING_REPLY" # Closing(i)
  BY <1>1, KindsAssumption DEF Publishing, Closing
<1>5. (s = Closing(i) => i \in byUpdate') /\ (s \in Publishing(i) => i \in byUpdate')
  BY <1>3, <1>4
<1>6. NoCall \in CallState
  BY DEF CallState
<1>7. byUpdate' \subseteq Tickets /\ byUpdate \ {i} \subseteq byUpdate' /\ revised' \subseteq dated'
      /\ \A j \in dated : j # i => (j \in revised <=> j \in revised')
  BY <1>1, <1>2, <1>3 DEF IInv, TypeOK
<1>8. i \in dated' \ revised' => s = Closing(i)
  BY <1>2
<1> HIDE DEF i, s
<1>9. call[c].item = i /\ call[c].at # "publish"
  BY <1>1 DEF i
<1> QED BY <1>1, <1>2, <1>5, <1>6, <1>7, <1>8, <1>9, StatusMoves

\* A call is over and says no more than that, or its item is published.
LEMMA CallLeaves ==
  ASSUME IInv, NEW c \in Calls, End(c), UNCHANGED <<items, files>>,
         published \subseteq published', published' \subseteq Items,
         unpublished \subseteq unpublished', unpublished' \subseteq Items, losses' \in Nat,
         call[c].at = "publish" => call[c].item \in published' \union unpublished'
  PROVE  IInv'
<1>1. ListsOK' /\ EvidenceIsKept' /\ UNCHANGED added
  BY FilesStay
<1>2. /\ (\A d \in Calls : CallOK(d)') /\ PiecesDiffer'
      /\ call' \in [Calls -> CallState] /\ call'[c] = NoCall
      /\ \A d \in Calls : d # c => call'[d] = call[d]
  BY <1>1, CallEnds
<1>3. EndHolds' /\ ClosingIsPublished' /\ UNCHANGED <<status, Present>>
  BY <1>2, ItemsStay
<1>4. TypeOK'
  BY <1>2, <1>3 DEF IInv, TypeOK, items, files
<1> QED BY <1>1, <1>2, <1>3, <1>4 DEF IInv

LEMMA PublishStep ==
  ASSUME IInv, NEW c \in Calls, Publish(c)
  PROVE  IInv'
<1>1. call[c].item \in Items /\ published \subseteq Items /\ unpublished \subseteq Items
      /\ losses \in Nat
  BY DEF Publish, IInv, TypeOK, Present
<1> QED BY <1>1, CallLeaves DEF Publish

LEMMA LoseStep ==
  ASSUME IInv, NEW c \in Calls, Lose(c)
  PROVE  IInv'
<1>1. call[c].at = "publish" => call[c].item \in Items
  BY DEF IInv, TypeOK, Present
<1>2. published \subseteq Items /\ unpublished \subseteq Items /\ losses \in Nat
  BY DEF IInv, TypeOK
<1> QED BY <1>1, <1>2, CallLeaves DEF Lose

(***************************************************************************)
(* Lists are written                                                       *)
(***************************************************************************)

\* The list of i becomes what the call had read, with or without piece e.
LEMMA ListMoves ==
  ASSUME IInv, NEW c \in Calls, NEW list \in SUBSET Evidence, WriteList(c, list),
         call[c].at \in {"add", "remove"},
         added' \in [Investigations -> SUBSET Evidence],
         removed' \in [Investigations -> SUBSET Evidence],
         \A j \in Investigations : j # call[c].item =>
           added'[j] = added[j] /\ removed'[j] = removed[j],
         added[call[c].item] \subseteq added'[call[c].item],
         list \subseteq added'[call[c].item],
         removed'[call[c].item] \subseteq added'[call[c].item],
         \A d \in Calls : call[d].at = "add" /\ d # c => call[d].piece \notin added'[call[d].item],
         \A e \in Evidence : e # call[c].piece =>
           /\ e \in list <=> e \in call[c].seen
           /\ e \in added[call[c].item] \ removed[call[c].item]
                <=> e \in added'[call[c].item] \ removed'[call[c].item],
         call[c].piece \in list
           <=> call[c].piece \in added'[call[c].item] \ removed'[call[c].item]
  PROVE  IInv'
<1> DEFINE i == call[c].item
<1>1. call[c] \in CallState /\ i \in Investigations /\ call[c].piece \in Evidence
  BY DEF IInv, TypeOK
<1>2. /\ evidence' = [evidence EXCEPT ![i] = list]
      /\ replaced' = replaced \ {i}
      /\ raced' = [raced EXCEPT ![i] =
           @ \union (call[c].seen \ evidence[i]) \union (evidence[i] \ call[c].seen)]
      /\ End(c)
      /\ UNCHANGED <<items, published, unpublished, losses>>
  BY DEF WriteList
<1>3. /\ evidence' \in [Investigations -> SUBSET Evidence] /\ evidence'[i] = list
      /\ \A j \in Investigations : j # i => evidence'[j] = evidence[j] /\ raced'[j] = raced[j]
  BY <1>1, <1>2 DEF IInv, TypeOK
<1>4. call[c].seen \subseteq Evidence
  BY <1>1 DEF CallState
<1>5. /\ raced' \in [Investigations -> SUBSET Evidence]
      /\ raced'[i] = raced[i] \union (call[c].seen \ evidence[i]) \union (evidence[i] \ call[c].seen)
  <2>1. evidence[i] \subseteq Evidence /\ raced \in [Investigations -> SUBSET Evidence]
    BY <1>1 DEF IInv, TypeOK
  <2> QED BY <1>1, <1>2, <1>4, <2>1
<1>6. call' = [call EXCEPT ![c] = NoCall] /\ call'[c] = NoCall
      /\ \A d \in Calls : d # c => call'[d] = call[d]
  BY <1>2 DEF End, IInv, TypeOK
<1>7. EndHolds' /\ ClosingIsPublished' /\ UNCHANGED <<status, Present>>
  BY <1>2, <1>6, ItemsStay
<1>8. TypeOK'
  <2>1. call' \in [Calls -> CallState]
    BY <1>6 DEF IInv, TypeOK, CallState
  <2>2. \A d \in Calls : /\ call'[d].at # "idle" => call'[d].item \in Present'
                         /\ call'[d].at \in {"add", "remove"} =>
                              call'[d].item \in Investigations /\ call'[d].piece \in Evidence
    BY <1>6, <1>7 DEF IInv, TypeOK
  <2> QED BY <1>2, <1>3, <1>5, <1>7, <2>1, <2>2 DEF IInv, TypeOK, items
<1>9. ASSUME NEW d \in Calls PROVE CallOK(d)'
  <2>1. CASE d = c
    BY <1>6, <2>1 DEF CallOK
  <2>2. CASE d # c
    <3>1. CallOK(d) /\ call'[d] = call[d]
      BY <1>6, <2>2 DEF IInv
    <3>2. call[d].at \in {"add", "remove"} => added[call[d].item] \subseteq added'[call[d].item]
      BY DEF IInv, TypeOK
    <3> QED BY <2>2, <3>1, <3>2 DEF CallOK
  <2> QED BY <2>1, <2>2
<1>10. PiecesDiffer'
  BY <1>6 DEF IInv, PiecesDiffer
<1>11. ListsOK'
  BY <1>3 DEF IInv, ListsOK
<1>12. EvidenceIsKept'
  <2> SUFFICES ASSUME NEW j \in Investigations, NEW e \in Evidence \ raced'[j]
               PROVE  e \in evidence'[j] <=> e \in added'[j] \ removed'[j]
    BY DEF EvidenceIsKept
  <2>1. CASE j # i
    BY <1>3, <2>1 DEF IInv, EvidenceIsKept
  <2>2. CASE j = i /\ e = call[c].piece
    BY <1>3, <2>2
  <2>3. CASE j = i /\ e # call[c].piece
    <3>1. e \notin raced[i] /\ (e \in call[c].seen <=> e \in evidence[i])
      BY <1>5, <2>3
    <3>2. e \in evidence[i] <=> e \in added[i] \ removed[i]
      BY <1>1, <3>1 DEF IInv, EvidenceIsKept
    <3> QED BY <1>3, <2>3, <3>1, <3>2
  <2> QED BY <2>1, <2>2, <2>3
<1> QED BY <1>7, <1>8, <1>9, <1>10, <1>11, <1>12 DEF IInv

LEMMA WriteAddedStep ==
  ASSUME IInv, NEW c \in Calls, WriteAdded(c)
  PROVE  IInv'
<1> DEFINE i == call[c].item
           e == call[c].piece
           list == call[c].seen \union {e}
<1>1. /\ call[c] \in CallState /\ i \in Investigations /\ e \in Evidence /\ call[c].at = "add"
      /\ call[c].seen \subseteq added[i] /\ e \notin added[i] /\ removed[i] \subseteq added[i]
  BY DEF WriteAdded, IInv, TypeOK, CallOK, ListsOK
<1>2. list \in SUBSET Evidence
  BY <1>1 DEF CallState
<1>3. added' = [added EXCEPT ![i] = @ \union {e}] /\ UNCHANGED removed /\ WriteList(c, list)
  BY DEF WriteAdded
<1>4. /\ added' \in [Investigations -> SUBSET Evidence]
      /\ removed' \in [Investigations -> SUBSET Evidence]
      /\ added'[i] = added[i] \union {e}
      /\ \A j \in Investigations : j # i => added'[j] = added[j] /\ removed'[j] = removed[j]
  BY <1>1, <1>3 DEF IInv, TypeOK
<1>5. ASSUME NEW d \in Calls, call[d].at = "add", d # c
      PROVE  call[d].piece \notin added'[call[d].item]
  <2>1. call[d].piece # e /\ call[d].item \in Investigations
        /\ call[d].piece \notin added[call[d].item]
    BY <1>1, <1>5 DEF IInv, TypeOK, CallOK, PiecesDiffer
  <2> QED BY <1>4, <2>1
<1> HIDE DEF list
<1>6. \A f \in Evidence : f # e =>
        /\ f \in list <=> f \in call[c].seen
        /\ f \in added[i] \ removed[i] <=> f \in added'[i] \ removed'[i]
  BY <1>3, <1>4 DEF list
<1>7. list \subseteq added'[i] /\ removed'[i] \subseteq added'[i] /\ added[i] \subseteq added'[i]
      /\ (e \in list <=> e \in added'[i] \ removed'[i])
  BY <1>1, <1>3, <1>4 DEF list
<1> QED BY <1>1, <1>2, <1>3, <1>4, <1>5, <1>6, <1>7, ListMoves

LEMMA WriteRemovedStep ==
  ASSUME IInv, NEW c \in Calls, WriteRemoved(c)
  PROVE  IInv'
<1> DEFINE i == call[c].item
           e == call[c].piece
           list == call[c].seen \ {e}
<1>1. /\ call[c] \in CallState /\ i \in Investigations /\ e \in Evidence /\ call[c].at = "remove"
      /\ call[c].seen \subseteq added[i] /\ e \in added[i] /\ removed[i] \subseteq added[i]
  BY DEF WriteRemoved, IInv, TypeOK, CallOK, ListsOK
<1>2. list \in SUBSET Evidence
  BY <1>1 DEF CallState
<1>3. removed' = [removed EXCEPT ![i] = @ \union {e}] /\ UNCHANGED added /\ WriteList(c, list)
  BY DEF WriteRemoved
<1>4. /\ added' \in [Investigations -> SUBSET Evidence]
      /\ removed' \in [Investigations -> SUBSET Evidence]
      /\ removed'[i] = removed[i] \union {e}
      /\ \A j \in Investigations : j # i => added'[j] = added[j] /\ removed'[j] = removed[j]
  BY <1>1, <1>3 DEF IInv, TypeOK
<1>5. \A d \in Calls : call[d].at = "add" /\ d # c => call[d].piece \notin added'[call[d].item]
  BY <1>3 DEF IInv, CallOK
<1> HIDE DEF list
<1>6. \A f \in Evidence : f # e =>
        /\ f \in list <=> f \in call[c].seen
        /\ f \in added[i] \ removed[i] <=> f \in added'[i] \ removed'[i]
  BY <1>3, <1>4 DEF list
<1>7. list \subseteq added'[i] /\ removed'[i] \subseteq added'[i] /\ added[i] \subseteq added'[i]
      /\ (e \in list <=> e \in added'[i] \ removed'[i])
  BY <1>1, <1>3, <1>4 DEF list
<1> QED BY <1>1, <1>2, <1>3, <1>4, <1>5, <1>6, <1>7, ListMoves

LEMMA ReplaceStep ==
  ASSUME IInv, NEW i \in Investigations, Replace(i)
  PROVE  IInv'
<1>1. /\ evidence' = [evidence EXCEPT ![i] = {}]
      /\ replaced' = replaced \union {i}
      /\ removed' = [removed EXCEPT ![i] = @ \union evidence[i]]
      /\ UNCHANGED <<items, call, published, unpublished, losses, added, raced>>
  BY DEF Replace
<1>2. /\ evidence' \in [Investigations -> SUBSET Evidence] /\ evidence'[i] = {}
      /\ removed' \in [Investigations -> SUBSET Evidence]
      /\ removed'[i] = removed[i] \union evidence[i]
      /\ \A j \in Investigations : j # i => evidence'[j] = evidence[j] /\ removed'[j] = removed[j]
  BY <1>1 DEF IInv, TypeOK
<1>3. EndHolds' /\ ClosingIsPublished' /\ UNCHANGED <<status, Present>>
  BY <1>1, ItemsStay
<1>4. TypeOK'
  BY <1>1, <1>2, <1>3 DEF IInv, TypeOK, items
<1>5. (\A d \in Calls : CallOK(d)') /\ PiecesDiffer'
  BY <1>1 DEF IInv, CallOK, PiecesDiffer
<1>6. ListsOK'
  BY <1>1, <1>2 DEF IInv, ListsOK
<1>7. EvidenceIsKept'
  BY <1>1, <1>2 DEF IInv, EvidenceIsKept
<1> QED BY <1>3, <1>4, <1>5, <1>6, <1>7 DEF IInv

-----------------------------------------------------------------------------

LEMMA Step == IInv /\ [Next]_vars => IInv'
<1> SUFFICES ASSUME IInv, [Next]_vars PROVE IInv'
  OBVIOUS
<1>1. ASSUME NEW i \in Items, Create(i) PROVE IInv'
  BY <1>1, CreateStep
<1>2. ASSUME NEW i \in Investigations, Replace(i) PROVE IInv'
  BY <1>2, ReplaceStep
<1>3. ASSUME NEW c \in Calls, Transition(c) PROVE IInv'
  BY <1>3, BeginTransitionStep, WriteStatusStep, PublishStep DEF Transition
<1>4. ASSUME NEW c \in Calls, Override(c) PROVE IInv'
  <2>1. "OPEN" \in TicketStatuses
    BY DEF TicketStatuses
  <2> QED BY <1>4, <2>1, BeginOverrideStep, OverrideStep DEF Override
<1>5. ASSUME NEW c \in Calls, Document(c) PROVE IInv'
  BY <1>5, BeginListStep, WriteAddedStep, WriteRemovedStep DEF Document
<1>6. ASSUME NEW c \in Calls, Lose(c) PROVE IInv'
  BY <1>6, LoseStep
<1>7. CASE UNCHANGED vars
  <2>1. ListsOK' /\ EvidenceIsKept'
    BY <1>7, FilesStay DEF vars
  <2>2. EndHolds' /\ ClosingIsPublished' /\ UNCHANGED <<status, Present>>
    BY <1>7, ItemsStay DEF vars
  <2>3. TypeOK'
    BY <1>7, <2>2 DEF IInv, TypeOK, vars, items, files
  <2>4. (\A d \in Calls : CallOK(d)') /\ PiecesDiffer'
    BY <1>7 DEF IInv, CallOK, PiecesDiffer, vars, files
  <2> QED BY <2>1, <2>2, <2>3, <2>4 DEF IInv
<1> QED BY <1>1, <1>2, <1>3, <1>4, <1>5, <1>6, <1>7 DEF Next

LEMMA Invariance == Spec => []IInv
BY Initial, Step, PTL DEF Spec

\* Every reachable state is well typed.
THEOREM TypeCorrect == Spec => []TypeOK
<1>1. IInv => TypeOK BY DEF IInv
<1> QED BY <1>1, Invariance, PTL

\* The date of an end and the status agree, for any number of racing calls.
THEOREM EndsAreRespected == Spec => []EndHolds
<1>1. IInv => EndHolds BY DEF IInv
<1> QED BY <1>1, Invariance, PTL

\* Every end that no update made is published, or its call was lost.
THEOREM EndsArePublished == Spec => []ClosingIsPublished
<1>1. IInv => ClosingIsPublished BY DEF IInv
<1> QED BY <1>1, Invariance, PTL

\* No evidence is lost or comes back but in a race of two calls on its list.
THEOREM NoEvidenceIsLost == Spec => []EvidenceIsKept
<1>1. IInv => EvidenceIsKept BY DEF IInv
<1> QED BY <1>1, Invariance, PTL

\* Once an investigation is over, only calls that began before, or an update,
\* change its evidence.
THEOREM EvidenceStaysSealed == Spec => EvidenceIsSealed
<1> DEFINE Sealed ==
      \A i \in Investigations :
        Over(i) /\ evidence'[i] # evidence[i] =>
          \/ i \in replaced'
          \/ \E c \in Calls :
               call[c].item = i /\ call[c].at \in {"add", "remove"} /\ ~call[c].over
<1>1. IInv /\ [Next]_vars => [Sealed]_vars
  <2> SUFFICES ASSUME IInv, Next, NEW i \in Investigations, evidence'[i] # evidence[i]
               PROVE  \/ i \in replaced'
                      \/ \E c \in Calls :
                           call[c].item = i /\ call[c].at \in {"add", "remove"} /\ ~call[c].over
    OBVIOUS
  <2>1. CASE UNCHANGED files
    BY <2>1 DEF files
  <2>2. ASSUME NEW j \in Investigations, Replace(j) PROVE i \in replaced'
    BY <2>2 DEF Replace, IInv, TypeOK
  <2>3. ASSUME NEW c \in Calls, WriteAdded(c) \/ WriteRemoved(c)
        PROVE  call[c].item = i /\ call[c].at \in {"add", "remove"} /\ ~call[c].over
    BY <2>3 DEF WriteAdded, WriteRemoved, WriteList, IInv, TypeOK, CallOK
  <2>4. UNCHANGED files \/ (\E j \in Investigations : Replace(j))
        \/ (\E c \in Calls : WriteAdded(c) \/ WriteRemoved(c))
    BY DEF Next, Create, Transition, Override, Document, Lose, BeginTransition, BeginUpdate,
       BeginReply, BeginAdd, BeginRemove, Begin, WriteStatus, Publish, WriteUpdate,
       WriteWaiting, WritePast
  <2> QED BY <2>1, <2>2, <2>3, <2>4
<1>2. Spec => [][Sealed]_vars
  BY <1>1, Invariance, PTL DEF Spec
<1> QED BY <1>2 DEF EvidenceIsSealed

(***************************************************************************)
(* Moderation                                                              *)
(***************************************************************************)

ModTypeOK ==
  /\ userStatus \in [Users -> UserStatuses]
  /\ heard \in [Users -> UserStatuses]
  /\ ordered \in [Users -> UserStatuses]
  /\ actor \in [Actors -> ActorState]
  /\ \A a \in Actors : actor[a] # Rest => actor[a].at # "idle" /\ actor[a].user \in Users
  /\ \A a \in Actors : actor[a].at \in {"apply", "set", "announce"} => actor[a].to \in UserStatuses

Agree(u) == userStatus[u] = ordered[u] /\ heard[u] = ordered[u]

\* How far the only call at a user has come.
ActorOK(a) ==
  LET u == actor[a].user IN
  /\ actor[a].at \in {"record", "set"} => Agree(u) /\ actor[a].was = userStatus[u]
  /\ actor[a].at = "apply" =>
       /\ heard[u] = userStatus[u] /\ actor[a].was = userStatus[u]
       /\ ordered[u] = actor[a].to
  /\ actor[a].at = "announce" => userStatus[u] = actor[a].to /\ ordered[u] = actor[a].to

Calm == Users \ (crossed \union dropped)

\* A calm user has at most one call.
Alone ==
  \A a, b \in Actors : a # b /\ actor[a].user = actor[b].user => actor[a].user \notin Calm

ModInv ==
  /\ ModTypeOK
  /\ Alone
  /\ \A a \in Actors : actor[a].user \in Calm => ActorOK(a)
  /\ StatusIsHeard

USE DEF NoUser, Rest

LEMMA ModInitial == ModInit => ModInv
<1> SUFFICES ASSUME ModInit PROVE ModInv
  OBVIOUS
<1>1. Rest \in ActorState /\ \A a \in Actors : actor[a] = Rest
  BY DEF ModInit, ActorState
<1>2. ModTypeOK
  <2>1. actor \in [Actors -> ActorState]
    BY <1>1 DEF ModInit
  <2> QED BY <1>1, <2>1 DEF ModInit, ModTypeOK, UserStatuses
<1>3. "none" \notin Calm
  BY UsersAssumption DEF Calm
<1>4. Alone /\ \A a \in Actors : actor[a].user \in Calm => ActorOK(a)
  BY <1>1, <1>3 DEF Alone
<1>5. StatusIsHeard
  BY DEF ModInit, StatusIsHeard
<1> QED BY <1>2, <1>4, <1>5 DEF ModInv

LEMMA EnterStep ==
  ASSUME ModInv, NEW a \in Actors, NEW u \in Users, NEW p \in {"record", "set"},
         NEW s \in UserStatuses \union {"none"}, p = "set" => s \in UserStatuses, Enter(a, u, p, s)
  PROVE  ModInv'
<1> DEFINE k == [at |-> p, user |-> u, was |-> userStatus[u], to |-> s]
<1>1. userStatus[u] \in UserStatuses
  BY DEF ModInv, ModTypeOK
<1>2. k \in ActorState
  BY <1>1 DEF ActorState
<1>3. k.at = p /\ k.user = u /\ k.was = userStatus[u] /\ k.to = s
  OBVIOUS
<1>4. /\ actor[a] = Rest /\ actor' = [actor EXCEPT ![a] = k]
      /\ crossed' = IF Busy(u) THEN crossed \union {u} ELSE crossed
      /\ UNCHANGED <<userStatus, heard, drops, ordered, dropped>>
  BY DEF Enter
<1> HIDE DEF k
<1>5. /\ actor' \in [Actors -> ActorState] /\ actor'[a] = k
      /\ \A b \in Actors : b # a => actor'[b] = actor[b]
  BY <1>2, <1>4 DEF ModInv, ModTypeOK
<1>6. ModTypeOK'
  BY <1>3, <1>4, <1>5 DEF ModInv, ModTypeOK
<1>7. Calm' \subseteq Calm /\ (u \in Calm' => \A b \in Actors : actor[b].user # u)
  BY <1>4 DEF Calm, Busy
<1>8. Alone'
  BY <1>3, <1>5, <1>7 DEF ModInv, Alone
<1>9. ASSUME NEW b \in Actors, actor'[b].user \in Calm' PROVE ActorOK(b)'
  <2>1. CASE b = a
    <3>1. ~Busy(u) /\ u \in Calm
      BY <1>3, <1>5, <1>7, <1>9, <2>1 DEF Busy
    <3>2. Agree(u)
      BY <3>1 DEF ModInv, StatusIsHeard, Agree, Calm
    <3> QED BY <1>3, <1>4, <1>5, <2>1, <3>2 DEF ActorOK, Agree
  <2>2. CASE b # a
    BY <1>4, <1>5, <1>7, <1>9, <2>2 DEF ModInv, ActorOK, Agree
  <2> QED BY <2>1, <2>2
<1>10. StatusIsHeard'
  <2>1. \A v \in Users : ~Busy(v)' => ~Busy(v)
    BY <1>4, <1>5, UsersAssumption DEF Busy
  <2> QED BY <1>4, <1>7, <2>1 DEF ModInv, StatusIsHeard, Calm
<1> QED BY <1>6, <1>8, <1>9, <1>10 DEF ModInv

\* A call at user u goes on to k, or is over; nobody else's status changes.
LEMMA ActorMoves ==
  ASSUME ModInv, NEW a \in Actors, NEW u, u = actor[a].user, NEW k \in ActorState,
         actor[a] # Rest,
         actor' = [actor EXCEPT ![a] = k],
         k # Rest => k.at # "idle" /\ k.user = u,
         k.at \in {"apply", "set", "announce"} => k.to \in UserStatuses,
         crossed' = crossed, dropped \subseteq dropped',
         userStatus' \in [Users -> UserStatuses], heard' \in [Users -> UserStatuses],
         ordered' \in [Users -> UserStatuses],
         \A v \in Users : v # u =>
           userStatus'[v] = userStatus[v] /\ heard'[v] = heard[v] /\ ordered'[v] = ordered[v],
         u \in Calm' => (k = Rest => Agree(u)') /\ (k # Rest => ActorOK(a)')
  PROVE  ModInv'
<1>1. /\ actor' \in [Actors -> ActorState] /\ actor'[a] = k /\ u \in Users
      /\ \A b \in Actors : b # a => actor'[b] = actor[b]
  BY DEF ModInv, ModTypeOK
<1>2. ModTypeOK'
  BY <1>1 DEF ModInv, ModTypeOK
<1>3. Calm' \subseteq Calm /\ "none" \notin Calm
  BY UsersAssumption DEF Calm
<1>4. k.user = u \/ k.user = "none"
  OBVIOUS
<1>5. Alone'
  BY <1>1, <1>3, <1>4 DEF ModInv, Alone
<1>6. ASSUME NEW b \in Actors, actor'[b].user \in Calm' PROVE ActorOK(b)'
  <2>1. CASE b = a
    BY <1>1, <1>3, <1>4, <1>6, <2>1
  <2>2. CASE b # a
    <3>1. actor'[b] = actor[b] /\ actor[b].user \in Calm /\ actor[b].user \in Users
      BY <1>1, <1>3, <1>6, <2>2 DEF Calm
    <3>2. actor[b].user # u
      BY <2>2, <3>1 DEF ModInv, Alone
    <3> QED BY <3>1, <3>2 DEF ModInv, ActorOK, Agree
  <2> QED BY <2>1, <2>2
<1>7. StatusIsHeard'
  <2> SUFFICES ASSUME NEW v \in Calm', ~Busy(v)'
               PROVE  userStatus'[v] = ordered'[v] /\ heard'[v] = ordered'[v]
    BY DEF StatusIsHeard, Calm
  <2>1. CASE v = u
    BY <1>1, <2>1 DEF Busy, Agree
  <2>2. CASE v # u
    <3>1. v \in Users /\ v \in Calm /\ ~Busy(v)
      BY <1>1, <1>3, <2>2 DEF Busy, Calm
    <3> QED BY <2>2, <3>1 DEF ModInv, StatusIsHeard, Calm
  <2> QED BY <2>1, <2>2
<1> QED BY <1>2, <1>5, <1>6, <1>7 DEF ModInv

LEMMA ActorStep ==
  ASSUME ModInv, NEW a \in Actors,
         Record(a) \/ Apply(a) \/ Set(a) \/ AnnounceStatus(a) \/ Drop(a)
  PROVE  ModInv'
<1> PICK u : u = actor[a].user
  OBVIOUS
<1> DEFINE c == actor[a]
           apply == [at |-> "apply", user |-> c.user, was |-> c.was, to |-> c.to]
           announce == [at |-> "announce", user |-> c.user, was |-> c.was, to |-> c.to]
<1>1. /\ c \in ActorState /\ c # Rest /\ u \in Users /\ Rest \in ActorState
      /\ userStatus \in [Users -> UserStatuses] /\ heard \in [Users -> UserStatuses]
      /\ ordered \in [Users -> UserStatuses] /\ actor \in [Actors -> ActorState]
  BY DEF ModInv, ModTypeOK, ActorState, Record, Apply, Set, AnnounceStatus, Drop
<1>2. /\ apply \in ActorState /\ announce \in ActorState
      /\ [c EXCEPT !.at = "apply"] = apply /\ [c EXCEPT !.at = "announce"] = announce
  BY <1>1 DEF ActorState
<1>3. u \in Calm => ActorOK(a)
  BY DEF ModInv
<1>4. c.at \in {"apply", "set", "announce"} => c.to \in UserStatuses
  BY DEF ModInv, ModTypeOK
<1>5. CASE Record(a)
  <2>1. CASE c.to = "none"
    <3>1. actor' = [actor EXCEPT ![a] = Rest] /\ UNCHANGED <<userStatus, heard, ordered, crossed, dropped>>
      BY <1>5, <2>1 DEF Record, Leave
    <3>2. u \in Calm' => Agree(u)'
      BY <1>3, <1>5, <3>1 DEF Record, ActorOK, Agree, Calm
    <3> QED BY <1>1, <3>1, <3>2, ActorMoves
  <2>2. CASE c.to # "none"
    <3>1. /\ actor' = [actor EXCEPT ![a] = apply]
          /\ ordered' = [ordered EXCEPT ![u] = c.to]
          /\ UNCHANGED <<userStatus, heard, crossed, dropped>>
      BY <1>2, <1>5, <2>2 DEF Record
    <3>2. c.to \in UserStatuses /\ actor'[a] = apply
      BY <1>1, <2>2, <3>1 DEF ActorState
    <3>3. u \in Calm' => ActorOK(a)'
      BY <1>1, <1>3, <1>5, <3>1, <3>2 DEF Record, ActorOK, Agree, Calm
    <3> QED BY <1>1, <1>2, <3>1, <3>2, <3>3, ActorMoves
  <2> QED BY <2>1, <2>2
<1>6. CASE Apply(a)
  <2>0. /\ c.at = "apply" /\ c.to \in UserStatuses
        /\ userStatus' = [userStatus EXCEPT ![u] = c.to]
        /\ UNCHANGED <<heard, ordered, crossed, dropped>>
    BY <1>4, <1>6 DEF Apply
  <2>1. CASE c.was = c.to
    <3>1. actor' = [actor EXCEPT ![a] = Rest]
      BY <1>6, <2>1 DEF Apply, Leave
    <3>2. u \in Calm' => Agree(u)'
      BY <1>1, <1>3, <2>0, <2>1 DEF ActorOK, Agree, Calm
    <3> QED BY <1>1, <2>0, <3>1, <3>2, ActorMoves
  <2>2. CASE c.was # c.to
    <3>1. actor' = [actor EXCEPT ![a] = announce]
      BY <1>2, <1>6, <2>2 DEF Apply
    <3>2. u \in Calm' => ActorOK(a)'
      BY <1>1, <1>3, <2>0, <3>1 DEF ActorOK, Calm
    <3> QED BY <1>1, <1>2, <2>0, <3>1, <3>2, ActorMoves
  <2> QED BY <2>1, <2>2
<1>7. CASE Set(a)
  <2>1. /\ c.to \in UserStatuses
        /\ userStatus' = [userStatus EXCEPT ![u] = c.to]
        /\ ordered' = [ordered EXCEPT ![u] = c.to]
        /\ actor' = [actor EXCEPT ![a] = announce]
        /\ UNCHANGED <<heard, crossed, dropped>>
    BY <1>2, <1>4, <1>7 DEF Set
  <2>2. ActorOK(a)'
    BY <1>1, <2>1 DEF ActorOK
  <2> QED BY <1>1, <1>2, <2>1, <2>2, ActorMoves
<1>8. CASE AnnounceStatus(a)
  <2>1. /\ c.at = "announce" /\ c.to \in UserStatuses
        /\ heard' = [heard EXCEPT ![u] = c.to]
        /\ actor' = [actor EXCEPT ![a] = Rest]
        /\ UNCHANGED <<userStatus, ordered, crossed, dropped>>
    BY <1>4, <1>8 DEF AnnounceStatus, Leave
  <2>2. u \in Calm' => Agree(u)'
    BY <1>1, <1>3, <2>1 DEF ActorOK, Agree, Calm
  <2> QED BY <1>1, <2>1, <2>2, ActorMoves
<1>9. CASE Drop(a)
  <2>1. /\ actor' = [actor EXCEPT ![a] = Rest]
        /\ dropped' = IF c.at \in {"apply", "announce"} THEN dropped \union {u} ELSE dropped
        /\ UNCHANGED <<userStatus, heard, ordered, crossed>>
    BY <1>9 DEF Drop, Leave
  <2>2. c.at \in {"record", "apply", "set", "announce"}
    BY <1>1 DEF ModInv, ModTypeOK, ActorState
  <2>3. u \in Calm' => Agree(u)'
    BY <1>3, <2>1, <2>2 DEF ActorOK, Agree, Calm
  <2> QED BY <1>1, <2>1, <2>3, ActorMoves
<1> QED BY <1>5, <1>6, <1>7, <1>8, <1>9

LEMMA ModStep == ModInv /\ [ModNext]_modVars => ModInv'
<1> SUFFICES ASSUME ModInv, [ModNext]_modVars PROVE ModInv'
  OBVIOUS
<1>1. ASSUME NEW a \in Actors, NEW u \in Users, BeginAction(a, u) PROVE ModInv'
  <2>1. PICK t \in DOMAIN ActionStatus : Enter(a, u, "record", ActionStatus[t])
    BY <1>1 DEF BeginAction
  <2>2. ActionStatus[t] \in UserStatuses \union {"none"}
    BY DEF ActionStatus, UserStatuses
  <2> QED BY <2>1, <2>2, EnterStep
<1>2. ASSUME NEW a \in Actors, NEW u \in Users, NEW s \in UserStatuses, BeginSet(a, u, s)
      PROVE  ModInv'
  BY <1>2, EnterStep DEF BeginSet
<1>3. CASE UNCHANGED modVars
  BY <1>3 DEF modVars, ModInv, ModTypeOK, Alone, Calm, ActorOK, Agree, StatusIsHeard, Busy
<1> QED BY <1>1, <1>2, <1>3, ActorStep DEF ModNext

\* The moderation record, the status of a user and what the other system was
\* told of it agree whenever no call is at the user, except for users whose
\* calls overlapped or were cut off between their writes
\* (moderation.service.ts, UsersService.updateStatus).
THEOREM ChangesAreHeard == ModSpec => []StatusIsHeard
<1>1. ModInv => StatusIsHeard
  BY DEF ModInv
<1> QED BY <1>1, ModInitial, ModStep, PTL DEF ModSpec

-----------------------------------------------------------------------------
(***************************************************************************)
(*                         Items and users together                        *)
(***************************************************************************)
\* A step is one of the items' services or one of the users' and moderation services, beside which
\* the others stand still: what is proved of each on its own is so of the two together.
THEOREM ServicesAreTheirOwn == FocusSpec => Spec /\ ModSpec
<1>1. FocusInit => Init /\ ModInit
  BY DEF FocusInit
<1>2. [FocusNext]_<<vars, modVars, focus>> => [Next]_vars /\ [ModNext]_modVars
  BY DEF FocusNext
<1>3. QED BY <1>1, <1>2, PTL DEF FocusSpec, Spec, ModSpec
=============================================================================
