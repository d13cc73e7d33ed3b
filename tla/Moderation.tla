----------------------------- MODULE Moderation -----------------------------
(***************************************************************************)
(* The status of users.  A moderation action is recorded and then sets the *)
(* status of its target; USERS:UPDATE sets it directly.  Both announce the *)
(* change as user:status:changed, which the other system follows; both     *)
(* work with the status as they read it at the start.                      *)
(***************************************************************************)
EXTENDS Naturals

CONSTANTS
  Users,     \* the targets; a moderator is somebody else
  Actors,    \* bound: calls in progress at the same time
  MaxDrops   \* bound: calls lost to a throw or a crash

UserStatuses == {"ACTIVE", "BANNED", "LIMITED"}

\* ACTION_STATUS_MAP; WARN and SHADOWBAN set no status.
ActionStatus ==
  [BAN |-> "BANNED", UNBAN |-> "ACTIVE", MUTE |-> "LIMITED", UNMUTE |-> "ACTIVE",
   SUSPEND |-> "LIMITED", UNSUSPEND |-> "ACTIVE", FREEZE |-> "LIMITED",
   UNFREEZE |-> "ACTIVE", WARN |-> "none", SHADOWBAN |-> "none"]

NoUser == "none"

ASSUME UsersAssumption == NoUser \notin Users

VARIABLES
  userStatus,
  heard,     \* the status last announced
  actor,     \* the calls in progress
  drops,
  \* history
  ordered,   \* the status that the last action on record stands for
  crossed,   \* users with two calls at the same time
  dropped    \* users on whom a call was lost after its first write

modVars == <<userStatus, heard, actor, drops, ordered, crossed, dropped>>

ActorState ==
  [at : {"idle", "record", "apply", "set", "announce"}, user : Users \union {NoUser},
   was : UserStatuses \union {"none"}, to : UserStatuses \union {"none"}]
Rest == [at |-> "idle", user |-> NoUser, was |-> "none", to |-> "none"]

Busy(u) == \E a \in Actors : actor[a].user = u

ModInit ==
  /\ userStatus = [u \in Users |-> "ACTIVE"]
  /\ heard = [u \in Users |-> "ACTIVE"]
  /\ ordered = [u \in Users |-> "ACTIVE"]
  /\ actor = [a \in Actors |-> Rest]
  /\ drops = 0
  /\ crossed = {} /\ dropped = {}

-----------------------------------------------------------------------------

\* The target is read.
Enter(a, u, p, s) ==
  /\ actor[a] = Rest
  /\ actor' = [actor EXCEPT ![a] = [at |-> p, user |-> u, was |-> userStatus[u], to |-> s]]
  /\ crossed' = IF Busy(u) THEN crossed \union {u} ELSE crossed
  /\ UNCHANGED <<userStatus, heard, drops, ordered, dropped>>

Leave(a) == actor' = [actor EXCEPT ![a] = Rest]

\* ModerationService.create
BeginAction(a, u) == \E t \in DOMAIN ActionStatus : Enter(a, u, "record", ActionStatus[t])

\* The action is inserted.
Record(a) ==
  /\ actor[a].at = "record"
  /\ IF actor[a].to = "none"
       THEN Leave(a) /\ UNCHANGED ordered
       ELSE /\ actor' = [actor EXCEPT ![a].at = "apply"]
            /\ ordered' = [ordered EXCEPT ![actor[a].user] = actor[a].to]
  /\ UNCHANGED <<userStatus, heard, drops, crossed, dropped>>

\* Faulty: only a ban is announced.
ApplyBan(a) ==
  /\ actor[a].at = "apply"
  /\ userStatus' = [userStatus EXCEPT ![actor[a].user] = actor[a].to]
  /\ IF actor[a].to # "BANNED"
       THEN Leave(a)
       ELSE actor' = [actor EXCEPT ![a].at = "announce"]
  /\ UNCHANGED <<heard, drops, ordered, crossed, dropped>>

\* The status is written; if it is the one that was read, that is all.
Apply(a) ==
  /\ actor[a].at = "apply"
  /\ userStatus' = [userStatus EXCEPT ![actor[a].user] = actor[a].to]
  /\ IF actor[a].was = actor[a].to
       THEN Leave(a)
       ELSE actor' = [actor EXCEPT ![a].at = "announce"]
  /\ UNCHANGED <<heard, drops, ordered, crossed, dropped>>

\* UsersService.updateStatus: announces in any case.
BeginSet(a, u, s) == Enter(a, u, "set", s)

Set(a) ==
  /\ actor[a].at = "set"
  /\ userStatus' = [userStatus EXCEPT ![actor[a].user] = actor[a].to]
  /\ ordered' = [ordered EXCEPT ![actor[a].user] = actor[a].to]
  /\ actor' = [actor EXCEPT ![a].at = "announce"]
  /\ UNCHANGED <<heard, drops, crossed, dropped>>

\* user:status:changed
AnnounceStatus(a) ==
  /\ actor[a].at = "announce"
  /\ heard' = [heard EXCEPT ![actor[a].user] = actor[a].to]
  /\ Leave(a)
  /\ UNCHANGED <<userStatus, drops, ordered, crossed, dropped>>

\* A database call throws, or the process dies.
Drop(a) ==
  /\ actor[a] # Rest
  /\ drops < MaxDrops
  /\ drops' = drops + 1
  /\ dropped' =
       IF actor[a].at \in {"apply", "announce"} THEN dropped \union {actor[a].user} ELSE dropped
  /\ Leave(a)
  /\ UNCHANGED <<userStatus, heard, ordered, crossed>>

ModNext ==
  \E a \in Actors :
    \/ \E u \in Users : BeginAction(a, u) \/ \E s \in UserStatuses : BeginSet(a, u, s)
    \/ Record(a) \/ Apply(a) \/ Set(a) \/ AnnounceStatus(a) \/ Drop(a)

ModSpec == ModInit /\ [][ModNext]_modVars

-----------------------------------------------------------------------------
(* Properties *)

\* The record, the user and what was announced of the user agree whenever no
\* call is at the user, unless two calls once were at the same time, or one
\* was lost between its writes.
StatusIsHeard ==
  \A u \in Users \ (crossed \union dropped) : ~Busy(u) =>
    userStatus[u] = ordered[u] /\ heard[u] = ordered[u]
=============================================================================
