------------------------------ MODULE Records ------------------------------
(***************************************************************************)
(* Rows that are read, checked and then written by another call, of        *)
(* DeepLinkService (clicks), AnalyticsService (the default dashboard) and  *)
(* AiService (recommendations).                                            *)
(***************************************************************************)
EXTENDS Naturals, FiniteSets

CONSTANTS
  MaxClicks,   \* maxClicks of the link, 0 when it has none
  MoreClicks,  \* bound: clicks counted beyond it
  Boards,      \* dashboards
  Owners,      \* what ownerId may be, NULL included
  OwnerOf,     \* ownerId of each dashboard, which no call changes
  RecordCalls  \* calls in progress at the same time

ASSUME ClicksAssumption == MaxClicks \in Nat /\ MoreClicks \in Nat
ASSUME OwnersAssumption == OwnerOf \in [Boards -> Owners] /\ "missing" \notin Owners
ASSUME RecordCallsAssumption == IsFiniteSet(RecordCalls)

VARIABLES
  link,      \* the link: clickCount, whether expiresAt has passed
  stale,     \* clicks counted by calls that had read an older count
  clicked,   \* deeplink:clicked events
  unclicked, \* clicks counted whose event was lost
  board,     \* board[b]: "none", or whether it is its owner's default
  chosen,    \* chosen[o]: the board of o last made the default by a call that named o or nobody
             \* and that met no other, until another write touches the boards of o
  tip,       \* a recommendation: its status and the two stamps
  crossed,   \* two decisions overlapped on it
  recorder   \* the calls

linkVars == <<link, stale, clicked, unclicked>>
boardVars == <<board, chosen>>
tipVars == <<tip, crossed>>
recordVars == <<linkVars, boardVars, tipVars, recorder>>

\* sent is the ownerId of the request, missing when its body has none; cleared says that the
\* defaults of the board's owner are, since nothing else has touched that owner's boards.
NotRecording == [pc |-> "idle", count |-> 0, board |-> "none", sent |-> "missing", cleared |-> FALSE]

RecordsInit ==
  /\ link = [count |-> 0, expired |-> FALSE]
  /\ stale = 0 /\ clicked = 0 /\ unclicked = 0
  /\ board = [b \in Boards |-> "none"] /\ chosen = [o \in Owners |-> "none"]
  /\ tip = [status |-> "PENDING", appliedAt |-> FALSE, dismissedAt |-> FALSE] /\ crossed = FALSE
  /\ recorder = [c \in RecordCalls |-> NotRecording]

Step(c, changed) == recorder' = [recorder EXCEPT ![c] = changed]
At(pc) == {c \in RecordCalls : recorder[c].pc = pc}

\* Faulty: the last click allowed is counted once more.
LooseFull(count) == MaxClicks # 0 /\ count > MaxClicks

\* link.maxClicks && link.clickCount >= link.maxClicks
Full(count) == MaxClicks # 0 /\ count >= MaxClicks

\* resolveLink: the link is read and found to be open.
OpenLink(c) ==
  /\ recorder[c] = NotRecording
  /\ ~link.expired /\ ~Full(link.count)
  /\ Step(c, [NotRecording EXCEPT !.pc = "click", !.count = link.count])
  /\ UNCHANGED <<linkVars, boardVars, tipVars>>

CountClick(c) ==
  /\ recorder[c].pc = "click"
  /\ link.count < MaxClicks + MoreClicks
  /\ link' = [link EXCEPT !.count = @ + 1]
  /\ stale' = IF link.count > recorder[c].count THEN stale + 1 ELSE stale
  /\ Step(c, [recorder[c] EXCEPT !.pc = "clicked"])
  /\ UNCHANGED <<clicked, unclicked, boardVars, tipVars>>

TellClick(c) ==
  /\ recorder[c].pc = "clicked"
  /\ clicked' = clicked + 1
  /\ Step(c, NotRecording)
  /\ UNCHANGED <<link, stale, unclicked, boardVars, tipVars>>

\* expiresAt has come, or deactivateLink has set it to now.
ExpireLink ==
  /\ ~link.expired
  /\ link' = [link EXCEPT !.expired = TRUE]
  /\ UNCHANGED <<stale, clicked, unclicked, boardVars, tipVars, recorder>>

-----------------------------------------------------------------------------
DefaultsOf(o) == {b \in Boards : board[b] = "default" /\ OwnerOf[b] = o}

\* Prisma leaves a filter out whose value is undefined.
Named(sent) == IF sent = "missing" THEN Owners ELSE {sent}

\* A write has touched the boards of these owners.
Unsettled(owners) == [o \in Owners |-> IF o \in owners THEN "none" ELSE chosen[o]]
Disturbed(owners) ==
  [c \in RecordCalls |->
     [recorder[c] EXCEPT !.cleared = recorder[c].cleared /\ OwnerOf[recorder[c].board] \notin owners]]

\* createDashboard, updateDashboard (which may leave isDefault as it is) and deleteDashboard.
EditBoard(b, to) ==
  /\ board[b] # "none" \/ to # "none"
  /\ board' = [board EXCEPT ![b] = to]
  /\ IF to = board[b] THEN UNCHANGED <<recorder, chosen>>
     ELSE recorder' = Disturbed({OwnerOf[b]}) /\ chosen' = Unsettled({OwnerOf[b]})
  /\ UNCHANGED <<linkVars, tipVars>>

\* setDefaultDashboard: the dashboard is read, the defaults of the owner that the request names,
\* whoever the dashboard's is, are cleared, and it becomes one.
FindBoard(c, b, sent) ==
  /\ recorder[c] = NotRecording
  /\ board[b] # "none"
  /\ Step(c, [NotRecording EXCEPT !.pc = "clear", !.board = b, !.sent = sent])
  /\ UNCHANGED <<linkVars, boardVars, tipVars>>

Cleared(c, boards) ==
  LET owners == Named(recorder[c].sent)
  IN /\ recorder[c].pc = "clear"
     /\ board' = [b \in Boards |-> IF b \in boards /\ board[b] = "default" THEN "plain" ELSE board[b]]
     /\ recorder' = [Disturbed(owners) EXCEPT ![c] =
                       [recorder[c] EXCEPT !.pc = "set", !.cleared = OwnerOf[recorder[c].board] \in owners]]
     /\ chosen' = Unsettled(owners)
     /\ UNCHANGED <<linkVars, tipVars>>

\* Faulty: only the dashboard itself is cleared.
ClearItself(c) == Cleared(c, {recorder[c].board})

ClearDefaults(c) == Cleared(c, {b \in Boards : OwnerOf[b] \in Named(recorder[c].sent)})

\* It throws when the dashboard is gone.
SetDefault(c) ==
  LET b == recorder[c].board
  IN /\ recorder[c].pc = "set"
     /\ board[b] # "none"
     /\ board' = [board EXCEPT ![b] = "default"]
     /\ chosen' = [chosen EXCEPT ![OwnerOf[b]] = IF recorder[c].cleared THEN b ELSE "none"]
     /\ recorder' = [Disturbed({OwnerOf[b]}) EXCEPT ![c] = NotRecording]
     /\ UNCHANGED <<linkVars, tipVars>>

-----------------------------------------------------------------------------
\* Faulty: what has been decided is decided again.
FindAnyTip(c, decision) ==
  /\ recorder[c] = NotRecording
  /\ Step(c, [NotRecording EXCEPT !.pc = decision])
  /\ UNCHANGED <<linkVars, boardVars, tipVars>>

\* applyRecommendation and dismissRecommendation: PENDING is checked on the row that is read.
FindTip(c, decision) ==
  /\ recorder[c] = NotRecording
  /\ tip.status = "PENDING"
  /\ Step(c, [NotRecording EXCEPT !.pc = decision])
  /\ UNCHANGED <<linkVars, boardVars, tipVars>>

DecideTip(c) ==
  /\ recorder[c].pc \in {"apply", "dismiss"}
  /\ tip' = IF recorder[c].pc = "apply" THEN [tip EXCEPT !.status = "APPLIED", !.appliedAt = TRUE]
            ELSE [tip EXCEPT !.status = "DISMISSED", !.dismissedAt = TRUE]
  /\ crossed' = (crossed \/ (At("apply") \union At("dismiss")) # {c})
  /\ Step(c, NotRecording)
  /\ UNCHANGED <<linkVars, boardVars>>

-----------------------------------------------------------------------------
\* A call of the database fails, or the process ends.
LoseRecorder(c) ==
  /\ recorder[c] # NotRecording
  /\ unclicked' = IF recorder[c].pc = "clicked" THEN unclicked + 1 ELSE unclicked
  /\ Step(c, NotRecording)
  /\ UNCHANGED <<link, stale, clicked, boardVars, tipVars>>

LinkStep == ExpireLink \/ \E c \in RecordCalls : OpenLink(c) \/ CountClick(c) \/ TellClick(c)

BoardStep ==
  \/ \E b \in Boards, to \in {"none", "plain", "default"} : EditBoard(b, to)
  \/ \E c \in RecordCalls :
       \/ \E b \in Boards, sent \in Owners \union {"missing"} : FindBoard(c, b, sent)
       \/ ClearDefaults(c) \/ SetDefault(c)

TipStep ==
  \E c \in RecordCalls : (\E decision \in {"apply", "dismiss"} : FindTip(c, decision)) \/ DecideTip(c)

RecordsNext == LinkStep \/ BoardStep \/ TipStep \/ \E c \in RecordCalls : LoseRecorder(c)

RecordsSpec == RecordsInit /\ [][RecordsNext]_recordVars

-----------------------------------------------------------------------------
RecorderStates ==
  [pc: {"idle", "click", "clicked", "clear", "set", "apply", "dismiss"}, count: 0..(MaxClicks + MoreClicks),
   board: Boards \union {"none"}, sent: Owners \union {"missing"}, cleared: BOOLEAN]

RecordsTypeOK ==
  /\ link \in [count: 0..(MaxClicks + MoreClicks), expired: BOOLEAN]
  /\ stale \in Nat /\ clicked \in Nat /\ unclicked \in Nat
  /\ board \in [Boards -> {"none", "plain", "default"}] /\ chosen \in [Owners -> Boards \union {"none"}]
  /\ tip \in [status: {"PENDING", "APPLIED", "DISMISSED"}, appliedAt: BOOLEAN, dismissedAt: BOOLEAN]
  /\ crossed \in BOOLEAN
  /\ recorder \in [RecordCalls -> RecorderStates]

\* Clicks run over the limit by no more than those of calls that had read an older count, and
\* every click is announced once or was lost on the way (DeepLinkService.resolveLink).
ClicksHold ==
  /\ MaxClicks # 0 => link.count <= MaxClicks + stale
  /\ link.count = clicked + unclicked + Cardinality(At("clicked"))

\* A dashboard made the default by a request that names its owner, or nobody, and that met no
\* other is the only default of its owner until another write touches that owner's boards, and
\* a request that names another owner is no such write, wherever it sets or clears
\* (AnalyticsService.setDefaultDashboard).  What a request leaves that names the wrong owner is
\* not promised: it sets a second default beside the one it did not clear.
ChosenIsDefault == \A o \in Owners : chosen[o] # "none" => DefaultsOf(o) = {chosen[o]}

\* A recommendation is applied or dismissed, and carries both stamps only when the two calls
\* overlapped (AiService.applyRecommendation, dismissRecommendation).
DecidedOnce == tip.appliedAt /\ tip.dismissedAt => crossed
=============================================================================
