------------------------------ MODULE Workflow ------------------------------
(***************************************************************************)
(* Tickets, cases and investigations: each has a status that moves along a *)
(* table of transitions, checked against the status as read and written    *)
(* after an await; a ticket is also moved by replies and by updates, past  *)
(* the table.  The evidence of an investigation is one column, a list that *)
(* is read, changed and written back as a whole.                           *)
(***************************************************************************)
EXTENDS Naturals

CONSTANTS
  Tickets, Cases, Investigations,
  Evidence,   \* the ids that evidence may be given
  Calls,      \* bound: calls in progress at the same time
  MaxLosses   \* bound: calls lost to a throw or a crash

Items == Tickets \union Cases \union Investigations

ASSUME KindsAssumption ==
  /\ Tickets \intersect Cases = {}
  /\ Tickets \intersect Investigations = {}
  /\ Cases \intersect Investigations = {}

Absent == "absent"
TicketStatuses == {"OPEN", "IN_PROGRESS", "WAITING_REPLY", "RESOLVED", "CLOSED"}
CaseStatuses ==
  {"OPEN", "INVESTIGATING", "PENDING_EVIDENCE", "RESOLVED", "DISMISSED", "APPEALED"}
InvestigationStatuses == {"DRAFT", "ACTIVE", "SUSPENDED", "COMPLETED", "ARCHIVED"}
Statuses == TicketStatuses \union CaseStatuses \union InvestigationStatuses

TicketTransitions(s) ==
  CASE s = "OPEN" -> {"IN_PROGRESS", "CLOSED"}
    [] s = "IN_PROGRESS" -> {"WAITING_REPLY", "RESOLVED", "CLOSED"}
    [] s = "WAITING_REPLY" -> {"IN_PROGRESS", "CLOSED"}
    [] s = "RESOLVED" -> {"CLOSED"}
    [] OTHER -> {}

\* Faulty: what was dismissed can be appealed.
AppealableTransitions(s) ==
  CASE s = "OPEN" -> {"INVESTIGATING", "DISMISSED"}
    [] s = "INVESTIGATING" -> {"PENDING_EVIDENCE", "RESOLVED", "DISMISSED"}
    [] s = "PENDING_EVIDENCE" -> {"INVESTIGATING", "DISMISSED"}
    [] s = "RESOLVED" -> {"DISMISSED"}
    [] s = "DISMISSED" -> {"APPEALED"}
    [] s = "APPEALED" -> {"INVESTIGATING"}
    [] OTHER -> {}

\* Nothing leads to APPEALED.
CaseTransitions(s) ==
  CASE s = "OPEN" -> {"INVESTIGATING", "DISMISSED"}
    [] s = "INVESTIGATING" -> {"PENDING_EVIDENCE", "RESOLVED", "DISMISSED"}
    [] s = "PENDING_EVIDENCE" -> {"INVESTIGATING", "DISMISSED"}
    [] s = "RESOLVED" -> {"DISMISSED"}
    [] s = "APPEALED" -> {"INVESTIGATING"}
    [] OTHER -> {}

InvestigationTransitions(s) ==
  CASE s = "DRAFT" -> {"ACTIVE", "ARCHIVED"}
    [] s = "ACTIVE" -> {"SUSPENDED", "COMPLETED", "ARCHIVED"}
    [] s = "SUSPENDED" -> {"ACTIVE", "COMPLETED", "ARCHIVED"}
    [] OTHER -> {}

Transitions(i, s) ==
  CASE i \in Tickets -> TicketTransitions(s)
    [] i \in Cases -> CaseTransitions(s)
    [] OTHER -> InvestigationTransitions(s)

First(i) == IF i \in Investigations THEN "DRAFT" ELSE "OPEN"

\* The status that comes with a date: closedAt, completedAt.
Closing(i) ==
  CASE i \in Tickets -> "CLOSED"
    [] i \in Cases -> "DISMISSED"
    [] OTHER -> "COMPLETED"

\* The statuses whose setting is published: ticket:closed, case:closed,
\* investigation:completed.
Publishing(i) ==
  IF i \in Investigations THEN {"COMPLETED"} ELSE {Closing(i), "RESOLVED"}

\* The statuses that nothing in the table leads out of.
Final(i) == IF i \in Investigations THEN {"COMPLETED", "ARCHIVED"} ELSE {Closing(i)}

VARIABLES
  status,
  dated,        \* items with a closedAt or completedAt
  evidence,     \* the list of each investigation
  replaced,     \* investigations whose evidence was replaced by a record
  call,         \* the calls in progress
  published,    \* items whose end was published
  losses,
  \* history
  byUpdate,     \* tickets whose status was last written by an update
  revised,      \* ended items that were written since: see WriteStatus
  unpublished,  \* items whose publication was lost
  added, removed,  \* evidence for which addEvidence, removeEvidence completed
  raced         \* evidence that changed while another call was at the list

items == <<status, dated, byUpdate, revised>>
files == <<evidence, replaced, added, removed, raced>>
vars == <<items, files, call, published, unpublished, losses>>

None == "none"

\* to: the status to write; piece: the evidence to add or remove; seen: the
\* list as read; over: the item had a final status as it was read (history).
CallState ==
  [at : {"idle", "transition", "publish", "update", "reply", "add", "remove"},
   item : Items \union {None}, to : Statuses \union {None},
   piece : Evidence \union {None}, seen : SUBSET Evidence, over : BOOLEAN]
NoCall ==
  [at |-> "idle", item |-> None, to |-> None, piece |-> None, seen |-> {}, over |-> FALSE]

Present == {i \in Items : status[i] # Absent}
Over(i) == status[i] \in Final(i)

Init ==
  /\ status = [i \in Items |-> Absent]
  /\ dated = {} /\ byUpdate = {} /\ revised = {}
  /\ evidence = [i \in Investigations |-> {}]
  /\ replaced = {}
  /\ added = [i \in Investigations |-> {}]
  /\ removed = [i \in Investigations |-> {}]
  /\ raced = [i \in Investigations |-> {}]
  /\ call = [c \in Calls |-> NoCall]
  /\ published = {} /\ unpublished = {}
  /\ losses = 0

-----------------------------------------------------------------------------

Create(i) ==
  /\ i \notin Present
  /\ status' = [status EXCEPT ![i] = First(i)]
  /\ UNCHANGED <<dated, byUpdate, revised, files, call, published, unpublished, losses>>

\* A call has read its item.
Begin(c, i, k) ==
  /\ call[c] = NoCall
  /\ i \in Present
  /\ call' = [call EXCEPT ![c] = k]
  /\ UNCHANGED <<items, files, published, unpublished, losses>>

\* A call that will write a status, and one that will write a list.
StatusCall(a, i, s) ==
  [at |-> a, item |-> i, to |-> s, piece |-> None, seen |-> {}, over |-> Over(i)]
ListCall(a, i, e) ==
  [at |-> a, item |-> i, to |-> None, piece |-> e, seen |-> evidence[i], over |-> Over(i)]

End(c) == call' = [call EXCEPT ![c] = NoCall]

-----------------------------------------------------------------------------
(* Status *)

\* transitionStatus
BeginTransition(c, i, s) ==
  /\ s \in Transitions(i, status[i])
  /\ Begin(c, i, StatusCall("transition", i, s))

\* The write, whatever the status is by now. If the item has ended since it
\* was read, its end is revised.
WriteStatus(c) ==
  LET i == call[c].item
      s == call[c].to
  IN
  /\ call[c].at = "transition"
  /\ status' = [status EXCEPT ![i] = s]
  /\ dated' = IF s = Closing(i) THEN dated \union {i} ELSE dated
  /\ byUpdate' = byUpdate \ {i}
  /\ revised' =
       IF s = Closing(i) THEN revised \ {i}
       ELSE IF i \in dated /\ Over(i) /\ ~call[c].over THEN revised \union {i} ELSE revised
  /\ IF s \in Publishing(i)
       THEN call' = [call EXCEPT ![c].at = "publish"]
       ELSE End(c)
  /\ UNCHANGED <<files, published, unpublished, losses>>

\* Faulty: resolved items are not published.
PublishClosed(c) ==
  /\ call[c].at = "publish"
  /\ published' =
       IF call[c].to = "RESOLVED" THEN published ELSE published \union {call[c].item}
  /\ End(c)
  /\ UNCHANGED <<items, files, unpublished, losses>>

Publish(c) ==
  /\ call[c].at = "publish"
  /\ published' = published \union {call[c].item}
  /\ End(c)
  /\ UNCHANGED <<items, files, unpublished, losses>>

\* The status of a ticket is written past the table.
WritePast(c) ==
  LET i == call[c].item
      s == call[c].to
  IN
  /\ status' = [status EXCEPT ![i] = s]
  /\ revised' =
       IF s = Closing(i) THEN revised \ {i}
       ELSE IF i \in dated THEN revised \union {i} ELSE revised
  /\ End(c)
  /\ UNCHANGED <<dated, files, published, unpublished, losses>>

\* update with a status
BeginUpdate(c, i, s) ==
  /\ i \in Tickets
  /\ Begin(c, i, StatusCall("update", i, s))

WriteUpdate(c) ==
  /\ call[c].at = "update"
  /\ WritePast(c)
  /\ byUpdate' = byUpdate \union {call[c].item}

\* addReply by another user than the reporter; a reporter's own reply does
\* not touch the ticket.
BeginReply(c, i) ==
  /\ i \in Tickets
  /\ Begin(c, i, StatusCall("reply", i, "WAITING_REPLY"))

WriteWaiting(c) ==
  /\ call[c].at = "reply"
  /\ WritePast(c)
  /\ byUpdate' = byUpdate \ {call[c].item}

-----------------------------------------------------------------------------
(* Evidence *)

\* An id that no evidence has.
Fresh(i) == {e \in Evidence \ added[i] : \A c \in Calls : call[c].piece # e}

\* addEvidence, on a list: on a record, the spread throws.
BeginAdd(c, i, e) ==
  /\ i \in Investigations \ replaced
  /\ ~Over(i)
  /\ e \in Fresh(i)
  /\ Begin(c, i, ListCall("add", i, e))

\* Faulty: the status is not looked at.
BeginRemoveAlways(c, i, e) ==
  /\ i \in Investigations \ replaced
  /\ e \in evidence[i]
  /\ Begin(c, i, ListCall("remove", i, e))

\* removeEvidence
BeginRemove(c, i, e) ==
  /\ i \in Investigations \ replaced
  /\ ~Over(i)
  /\ e \in evidence[i]
  /\ Begin(c, i, ListCall("remove", i, e))

\* The list is written as a whole; what has changed since it was read is
\* taken back.
WriteList(c, list) ==
  LET i == call[c].item IN
  /\ evidence' = [evidence EXCEPT ![i] = list]
  /\ replaced' = replaced \ {i}
  /\ raced' = [raced EXCEPT ![i] =
       @ \union (call[c].seen \ evidence[i]) \union (evidence[i] \ call[c].seen)]
  /\ End(c)
  /\ UNCHANGED <<items, published, unpublished, losses>>

\* Faulty: the evidence that there was is left out.
WriteAddedOnly(c) ==
  /\ call[c].at = "add"
  /\ WriteList(c, {call[c].piece})
  /\ added' = [added EXCEPT ![call[c].item] = @ \union {call[c].piece}]
  /\ UNCHANGED removed

WriteAdded(c) ==
  /\ call[c].at = "add"
  /\ WriteList(c, call[c].seen \union {call[c].piece})
  /\ added' = [added EXCEPT ![call[c].item] = @ \union {call[c].piece}]
  /\ UNCHANGED removed

WriteRemoved(c) ==
  /\ call[c].at = "remove"
  /\ WriteList(c, call[c].seen \ {call[c].piece})
  /\ removed' = [removed EXCEPT ![call[c].item] = @ \union {call[c].piece}]
  /\ UNCHANGED added

\* update with evidence: a record takes the place of the list, whatever the
\* status. Its check and its write are one step here: they do not depend on
\* each other.
Replace(i) ==
  /\ i \in Investigations \intersect Present
  /\ evidence' = [evidence EXCEPT ![i] = {}]
  /\ replaced' = replaced \union {i}
  /\ removed' = [removed EXCEPT ![i] = @ \union evidence[i]]
  /\ UNCHANGED <<items, call, published, unpublished, losses, added, raced>>

-----------------------------------------------------------------------------

\* A database call throws, or the process dies: nothing is kept in memory, so
\* the calls are all that a crash can lose.
Lose(c) ==
  /\ call[c] # NoCall
  /\ losses < MaxLosses
  /\ losses' = losses + 1
  /\ unpublished' =
       IF call[c].at = "publish" THEN unpublished \union {call[c].item} ELSE unpublished
  /\ End(c)
  /\ UNCHANGED <<items, files, published>>

Transition(c) ==
  \/ \E i \in Items, s \in Statuses : BeginTransition(c, i, s)
  \/ WriteStatus(c)
  \/ Publish(c)

Override(c) ==
  \/ \E i \in Tickets :
       \/ \E s \in TicketStatuses : BeginUpdate(c, i, s)
       \/ BeginReply(c, i)
  \/ WriteUpdate(c)
  \/ WriteWaiting(c)

Document(c) ==
  \/ \E i \in Investigations, e \in Evidence : BeginAdd(c, i, e) \/ BeginRemove(c, i, e)
  \/ WriteAdded(c)
  \/ WriteRemoved(c)

Next ==
  \/ \E i \in Items : Create(i)
  \/ \E i \in Investigations : Replace(i)
  \/ \E c \in Calls : Transition(c) \/ Override(c) \/ Document(c) \/ Lose(c)

Spec == Init /\ [][Next]_vars

-----------------------------------------------------------------------------
(* Properties *)

\* Items, lists and calls have values of their kinds, and only items that
\* exist have calls, dates or evidence.
TypeOK ==
  /\ status \in [Items -> Statuses \union {Absent}]
  /\ dated \subseteq Present /\ revised \subseteq dated /\ byUpdate \subseteq Tickets
  /\ evidence \in [Investigations -> SUBSET Evidence]
  /\ added \in [Investigations -> SUBSET Evidence]
  /\ removed \in [Investigations -> SUBSET Evidence]
  /\ raced \in [Investigations -> SUBSET Evidence]
  /\ replaced \subseteq Investigations
  /\ call \in [Calls -> CallState]
  /\ \A c \in Calls : call[c].at # "idle" => call[c].item \in Present
  /\ \A c \in Calls :
       call[c].at \in {"add", "remove"} =>
         call[c].item \in Investigations /\ call[c].piece \in Evidence
  /\ published \subseteq Items /\ unpublished \subseteq Items
  /\ losses \in Nat

\* The date and the status agree: an item with a closedAt or completedAt has
\* the status that goes with it, unless a transition that overlapped the end,
\* or on a ticket a reply or an update, was written over it; and an item with
\* that status has the date, unless it is a ticket that an update closed.
EndHolds ==
  /\ \A i \in dated \ revised : status[i] = Closing(i)
  /\ \A i \in Items \ byUpdate : status[i] = Closing(i) => i \in dated

\* The other system hears of every end: an item that is closed or resolved
\* was published, is about to be, or its call was lost; tickets that an update
\* closed are not published at all.
ClosingIsPublished ==
  \A i \in Items \ byUpdate : status[i] \in Publishing(i) =>
    \/ i \in published \union unpublished
    \/ \E c \in Calls : call[c].at = "publish" /\ call[c].item = i

\* What was added and not removed is in the list, and nothing else, but for
\* evidence that changed while another call was at the same list.
EvidenceIsKept ==
  \A i \in Investigations :
    \A e \in Evidence \ raced[i] : e \in evidence[i] <=> e \in added[i] \ removed[i]

\* The evidence of a completed or archived investigation does not change but
\* by a call that read it before, or by an update.
EvidenceIsSealed ==
  [][\A i \in Investigations :
       Over(i) /\ evidence'[i] # evidence[i] =>
         \/ i \in replaced'
         \/ \E c \in Calls :
              call[c].item = i /\ call[c].at \in {"add", "remove"} /\ ~call[c].over]_vars
=============================================================================
