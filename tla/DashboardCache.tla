--------------------------- MODULE DashboardCache ---------------------------
(***************************************************************************)
(* The views of DashboardService, each kept in Redis for some time under a *)
(* key that is listed in two tags, and the invalidation of the tag that    *)
(* all of them share.  Every command to Redis is a step of its own.        *)
(***************************************************************************)
EXTENDS Naturals

CONSTANTS
  Shown,      \* the views that are asked for
  Readers,    \* getOrSet calls in progress at the same time
  Sweepers,   \* invalidateByTag calls in progress at the same time
  MaxVersion  \* bound: changes of the database

Views == {"staff", "moderation", "tickets", "cases", "kpi", "security", "health"}

ASSUME ShownAssumption == Shown \subseteq Views
ASSUME VersionsAssumption == MaxVersion \in Nat

\* Faulty: a view is listed under its own tag alone.
OwnTag(v) == <<v, v>>

\* Only the first of its two tags is ever invalidated.
TagsOf(v) == <<"dashboard", v>>
Absent == [live |-> FALSE, version |-> 0, loose |-> FALSE]

VARIABLES
  version,  \* of the data that the views are computed from
  cached,   \* cached[v]: the value of the key of v
  listed,   \* listed[t]: the keys in the set of tag t
  reader,   \* the getOrSet calls
  sweeper,  \* the invalidateByTag calls
  swept     \* the version when the last completed invalidation began

cacheVars == <<version, cached, listed, reader, sweeper, swept>>

Tags == {"dashboard"} \union Shown
IdleReader == [pc |-> "idle", view |-> "none", version |-> 0, tag |-> 1, loose |-> FALSE]
IdleSweeper == [pc |-> "idle", keys |-> {}, began |-> 0]

CacheInit ==
  /\ version = 0
  /\ cached = [v \in Shown |-> Absent]
  /\ listed = [t \in Tags |-> {}]
  /\ reader = [r \in Readers |-> IdleReader]
  /\ sweeper = [s \in Sweepers |-> IdleSweeper]
  /\ swept = 0

Filling(r, v) == reader[r].pc = "sadd" /\ reader[r].view = v
Sweeping == \E s \in Sweepers : sweeper[s].pc # "idle"

\* Staff, tickets, cases and the rest change, and no cached view with them.
Change ==
  /\ version < MaxVersion
  /\ version' = version + 1
  /\ UNCHANGED <<cached, listed, reader, sweeper, swept>>

\* getOrSet: a hit is returned as it is.
GetOrSet(r, v) ==
  /\ reader[r].pc = "idle"
  /\ ~cached[v].live
  /\ reader' = [reader EXCEPT ![r] = [IdleReader EXCEPT !.pc = "load", !.view = v, !.loose = Sweeping]]
  /\ UNCHANGED <<version, cached, listed, sweeper, swept>>

Load(r) ==
  /\ reader[r].pc = "load"
  /\ reader' = [reader EXCEPT ![r].pc = "setex", ![r].version = version]
  /\ UNCHANGED <<version, cached, listed, sweeper, swept>>

\* The queries or Redis fail, and the call with them; what it cached may be left unlisted.
Fail(r) ==
  /\ reader[r].pc # "idle"
  /\ cached' = [v \in Shown |-> IF cached[v].live /\ Filling(r, v) THEN [cached[v] EXCEPT !.loose = TRUE] ELSE cached[v]]
  /\ reader' = [reader EXCEPT ![r] = IdleReader]
  /\ UNCHANGED <<version, listed, sweeper, swept>>

SetEx(r) ==
  /\ reader[r].pc = "setex"
  /\ cached' = [cached EXCEPT ![reader[r].view] =
       [live |-> TRUE, version |-> reader[r].version, loose |-> reader[r].loose]]
  /\ reader' = [reader EXCEPT ![r].pc = "sadd"]
  /\ UNCHANGED <<version, listed, sweeper, swept>>

SAdd(r) ==
  LET tags == TagsOf(reader[r].view)
      tag == tags[reader[r].tag]
  IN /\ reader[r].pc = "sadd"
     /\ listed' = [listed EXCEPT ![tag] = @ \union {reader[r].view}]
     /\ reader' = [reader EXCEPT ![r] =
          IF reader[r].tag < 2 THEN [@ EXCEPT !.tag = reader[r].tag + 1] ELSE IdleReader]
     /\ UNCHANGED <<version, cached, sweeper, swept>>

\* The ttl of a key; a tag outlives every key it lists by an hour.
ExpireKey(v) ==
  /\ cached[v].live
  /\ cached' = [cached EXCEPT ![v] = Absent]
  /\ UNCHANGED <<version, listed, reader, sweeper, swept>>

ExpireTag(t) ==
  /\ \A v \in listed[t] : ~cached[v].live
  /\ listed[t] # {}
  /\ listed' = [listed EXCEPT ![t] = {}]
  /\ UNCHANGED <<version, cached, reader, sweeper, swept>>

\* The calls that are under way, and what they have cached, have met an invalidation.
Meet ==
  /\ reader' = [r \in Readers |-> IF reader[r].pc = "idle" THEN reader[r] ELSE [reader[r] EXCEPT !.loose = TRUE]]
  /\ cached' = [v \in Shown |->
       IF cached[v].live /\ \E r \in Readers : Filling(r, v)
       THEN [cached[v] EXCEPT !.loose = TRUE] ELSE cached[v]]

\* invalidateByTag, called by processExpiredPermissions.
SMembers(s) ==
  /\ sweeper[s].pc = "idle"
  /\ sweeper' = [sweeper EXCEPT ![s] =
       [pc |-> IF listed["dashboard"] = {} THEN "done" ELSE "del", keys |-> listed["dashboard"], began |-> version]]
  /\ Meet
  /\ UNCHANGED <<version, listed, swept>>

DelKeys(s) ==
  /\ sweeper[s].pc = "del"
  /\ cached' = [v \in Shown |-> IF v \in sweeper[s].keys THEN Absent ELSE cached[v]]
  /\ sweeper' = [sweeper EXCEPT ![s].pc = "delTag"]
  /\ UNCHANGED <<version, listed, reader, swept>>

DelTag(s) ==
  /\ sweeper[s].pc = "delTag"
  /\ listed' = [listed EXCEPT !["dashboard"] = {}]
  /\ sweeper' = [sweeper EXCEPT ![s].pc = "done"]
  /\ UNCHANGED <<version, cached, reader, swept>>

EndSweep(s) ==
  /\ sweeper[s].pc = "done"
  /\ sweeper' = [sweeper EXCEPT ![s] = IdleSweeper]
  /\ swept' = IF sweeper[s].began > swept THEN sweeper[s].began ELSE swept
  /\ UNCHANGED <<version, cached, listed, reader>>

CacheNext ==
  \/ Change
  \/ \E r \in Readers :
       \/ \E v \in Shown : GetOrSet(r, v)
       \/ Load(r) \/ Fail(r) \/ SetEx(r) \/ SAdd(r)
  \/ \E v \in Shown : ExpireKey(v)
  \/ \E t \in Tags : ExpireTag(t)
  \/ \E s \in Sweepers : SMembers(s) \/ DelKeys(s) \/ DelTag(s) \/ EndSweep(s)

CacheSpec == CacheInit /\ [][CacheNext]_cacheVars

-----------------------------------------------------------------------------
ReaderStates ==
  [pc: {"idle", "load", "setex", "sadd"}, view: Shown \union {"none"}, version: 0..MaxVersion, tag: 1..2,
   loose: BOOLEAN]
SweeperStates == [pc: {"idle", "del", "delTag", "done"}, keys: SUBSET Shown, began: 0..MaxVersion]

CacheTypeOK ==
  /\ version \in 0..MaxVersion /\ swept \in 0..MaxVersion
  /\ cached \in [Shown -> [live: BOOLEAN, version: 0..MaxVersion, loose: BOOLEAN]]
  /\ listed \in [Tags -> SUBSET Shown]
  /\ reader \in [Readers -> ReaderStates]
  /\ sweeper \in [Sweepers -> SweeperStates]

\* An invalidation that has completed leaves no view older than its own start, and the next one
\* will find every view that is cached: but for views whose filling met an invalidation on its
\* way, which stay, unlisted, until their ttl (CacheService.set, invalidateByTag).
SweptViewsAreFresh ==
  \A v \in Shown :
    cached[v].live /\ ~cached[v].loose =>
      /\ cached[v].version >= swept
      /\ v \in listed["dashboard"] \/ \E r \in Readers : Filling(r, v)
=============================================================================
