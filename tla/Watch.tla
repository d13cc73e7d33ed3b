------------------------------- MODULE Watch -------------------------------
(***************************************************************************)
(* What IncidentsService and MonitoringService keep under watch: a status  *)
(* is read, then written, and a change of it is announced when the written *)
(* status differs from the one that was read.                              *)
(***************************************************************************)
EXTENDS Naturals

CONSTANTS
  Incidents,  \* rows of Incident
  Services,   \* rows of ServiceStatus, each with its name
  WatchCalls  \* calls in progress at the same time

ASSUME WatchedAssumption == Incidents \intersect Services = {}

Watched == Incidents \union Services

StatusesOf(w) == IF w \in Incidents THEN {"DETECTED", "INVESTIGATING", "RESOLVED"} ELSE {"UNKNOWN", "UP", "DOWN"}

VARIABLES
  watched, \* watched[w]: its status, "none" while there is no row
  news,    \* news[w]: the status that the last event about w stated
  watcher, \* the calls
  muddled  \* muddled[w]: since the last event of an undisturbed call, calls on w overlapped,
           \* or one was lost between its write and its event

watchVars == <<watched, news, watcher, muddled>>

NotWatching == [pc |-> "idle", op |-> "none", on |-> "none", to |-> "same", read |-> "none", met |-> FALSE]

WatchInit ==
  /\ watched = [w \in Watched |-> "none"]
  /\ news = [w \in Watched |-> IF w \in Services THEN "UNKNOWN" ELSE "none"]
  /\ watcher = [c \in WatchCalls |-> NotWatching]
  /\ muddled = [w \in Watched |-> FALSE]

\* IncidentsService.create, update and resolve; upsertService and updateServiceStatus.  The
\* status that update is given may be undefined, and is then left as it is.
Calls(w) ==
  IF w \in Incidents
  THEN {<<"create", "DETECTED">>, <<"resolve", "RESOLVED">>}
       \union ({"update"} \X (StatusesOf(w) \union {"same"}))
  ELSE {"upsert", "update"} \X (StatusesOf(w) \union {"same"})

\* The row is read; create reads nothing.  A service that has no row counts as UNKNOWN.
ReadStatus(c, w, call) ==
  /\ watcher[c] = NotWatching
  /\ call[1] = "create" => watched[w] = "none"
  /\ call[1] \in {"update", "resolve"} => watched[w] # "none"
  /\ watcher' = [watcher EXCEPT ![c] = [NotWatching EXCEPT !.pc = "write", !.op = call[1], !.on = w, !.to = call[2],
                   !.read = IF watched[w] = "none" /\ w \in Services THEN "UNKNOWN" ELSE watched[w]]]
  /\ UNCHANGED <<watched, news, muddled>>

Written(c) ==
  LET now == watched[watcher[c].on]
  IN IF watcher[c].to # "same" THEN watcher[c].to ELSE IF now = "none" THEN "UNKNOWN" ELSE now

Others(c) == {d \in WatchCalls \ {c} : watcher[d].pc # "idle" /\ watcher[d].on = watcher[c].on}

\* Faulty: a service's event follows a change away from UNKNOWN alone.
ShyTells(c) == watcher[c].read = "UNKNOWN" /\ Written(c) # watcher[c].read

\* Whether an event follows the write.
Tells(c) ==
  \/ watcher[c].op \in {"create", "resolve"}
  \/ IF watcher[c].on \in Incidents THEN watcher[c].to \notin {"same", watcher[c].read}
     ELSE Written(c) # watcher[c].read

WriteStatus(c) ==
  LET w == watcher[c].on
  IN /\ watcher[c].pc = "write"
     /\ watcher[c].op = "create" => watched[w] = "none"
     /\ watched' = [watched EXCEPT ![w] = Written(c)]
     /\ watcher' = [d \in WatchCalls |->
          IF d = c
          THEN [watcher[c] EXCEPT !.met = @ \/ Others(c) # {}, !.to = Written(c),
                  !.pc = IF watcher[c].op = "resolve" THEN "row" ELSE IF Tells(c) THEN "tell" ELSE "done"]
          ELSE IF d \in Others(c) THEN [watcher[d] EXCEPT !.met = TRUE] ELSE watcher[d]]
     /\ muddled' = [muddled EXCEPT ![w] = @ \/ Others(c) # {}]
     /\ UNCHANGED news

\* The row of the timeline: before the event of resolve, after that of create.
AddRow(c) ==
  /\ watcher[c].pc \in {"row", "lastRow"}
  /\ watcher' = [watcher EXCEPT ![c].pc = IF @ = "row" THEN "tell" ELSE "done"]
  /\ UNCHANGED <<watched, news, muddled>>

\* incident:created, updated, resolved; monitoring:status:changed.
TellStatus(c) ==
  LET w == watcher[c].on
  IN /\ watcher[c].pc = "tell"
     /\ news' = [news EXCEPT ![w] = watcher[c].to]
     /\ muddled' = [muddled EXCEPT ![w] = @ /\ watcher[c].met]
     /\ watcher' = [watcher EXCEPT ![c].pc = IF watcher[c].op = "create" THEN "lastRow" ELSE "done"]
     /\ UNCHANGED watched

EndWatching(c) ==
  /\ watcher[c].pc = "done"
  /\ watcher' = [watcher EXCEPT ![c] = NotWatching]
  /\ UNCHANGED <<watched, news, muddled>>

\* A call of the database fails, or the process ends.
LoseWatcher(c) ==
  LET w == watcher[c].on
  IN /\ watcher[c] # NotWatching
     /\ muddled' = IF watcher[c].pc \in {"row", "tell"} THEN [muddled EXCEPT ![w] = TRUE] ELSE muddled
     /\ watcher' = [watcher EXCEPT ![c] = NotWatching]
     /\ UNCHANGED <<watched, news>>

WatchNext ==
  \E c \in WatchCalls :
    \/ \E w \in Watched : \E call \in Calls(w) : ReadStatus(c, w, call)
    \/ WriteStatus(c)
    \/ AddRow(c)
    \/ TellStatus(c)
    \/ EndWatching(c)
    \/ LoseWatcher(c)

WatchSpec == WatchInit /\ [][WatchNext]_watchVars

-----------------------------------------------------------------------------
AllStatuses == {"DETECTED", "INVESTIGATING", "RESOLVED", "UNKNOWN", "UP", "DOWN"}
WatcherStates ==
  [pc: {"idle", "write", "row", "tell", "lastRow", "done"},
   op: {"none", "create", "update", "resolve", "upsert"}, on: Watched \union {"none"},
   to: AllStatuses \union {"same"}, read: AllStatuses \union {"none"}, met: BOOLEAN]

WatchTypeOK ==
  /\ watched \in [Watched -> AllStatuses \union {"none"}]
  /\ news \in [Watched -> AllStatuses \union {"none"}]
  /\ \A w \in Watched : {watched[w], news[w]} \subseteq StatusesOf(w) \union {"none"}
  /\ muddled \in [Watched -> BOOLEAN]
  /\ watcher \in [WatchCalls -> WatcherStates]

Telling(w) == \E c \in WatchCalls : watcher[c].on = w /\ watcher[c].pc \in {"row", "tell"}

\* Whoever follows the events knows every status, but while an event is under way, and after
\* calls that overlapped or were lost: then the news stays wrong until a call that meets no
\* other changes the status again (IncidentsService.update, MonitoringService.upsertService,
\* updateServiceStatus).
NewsMatchesStatus ==
  \A w \in Watched :
    watched[w] # "none" /\ ~muddled[w] /\ ~Telling(w) => news[w] = watched[w]
=============================================================================
