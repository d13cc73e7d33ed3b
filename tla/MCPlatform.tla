----------------------------- MODULE MCPlatform -----------------------------
(***************************************************************************)
(* The REST surface, the rights, the staff, the notices, the dashboard's   *)
(* cache, the records and the Telegram bot share no state with each other  *)
(* that their properties speak of, so TLC explores them one at a time.     *)
(***************************************************************************)
EXTENDS Router, Access, Notices, DashboardCache, Staffing, Watch, Records, Bot

\* Two owners of dashboards, one of whom has one board and the other the rest.
CONSTANT SomeBoard, SomeOwner
MCOwnerOf == [b \in Boards |-> IF b = SomeBoard THEN SomeOwner ELSE CHOOSE o \in Owners : o # SomeOwner]

VARIABLE focus

platformVars ==
  <<httpVars, accessVars, noticeVars, cacheVars, staffVars, watchVars, recordVars, botVars, focus>>

PlatformInit ==
  /\ HttpInit /\ AccessInit /\ NoticesInit /\ CacheInit /\ StaffInit /\ WatchInit /\ RecordsInit /\ BotInit
  /\ focus \in {"http", "rights", "special access", "notices", "cache", "staff", "clicks", "defaults",
                "recommendations", "bot"} \union Watched

HttpFocus ==
  focus = "http" /\ HttpNext
  /\ UNCHANGED <<accessVars, noticeVars, cacheVars, staffVars, watchVars, recordVars, botVars>>
AccessFocus ==
  /\ \/ focus = "rights" /\ (RightsStep \/ SweepStep \/ \E g \in Guards : GuardStep(g))
     \/ focus = "special access" /\ (SpecialStep \/ SweepStep)
  /\ Watch
  /\ UNCHANGED <<httpVars, noticeVars, cacheVars, staffVars, watchVars, recordVars, botVars>>
NoticesFocus ==
  focus = "notices" /\ NoticesNext
  /\ UNCHANGED <<httpVars, accessVars, cacheVars, staffVars, watchVars, recordVars, botVars>>
CacheFocus ==
  focus = "cache" /\ CacheNext
  /\ UNCHANGED <<httpVars, accessVars, noticeVars, staffVars, watchVars, recordVars, botVars>>
StaffFocus ==
  focus = "staff" /\ StaffNext
  /\ UNCHANGED <<httpVars, accessVars, noticeVars, cacheVars, watchVars, recordVars, botVars>>
WatchFocus ==
  /\ focus \in Watched /\ WatchNext /\ \A c \in WatchCalls : watcher'[c].on \in {"none", focus}
  /\ UNCHANGED <<httpVars, accessVars, noticeVars, cacheVars, staffVars, recordVars, botVars>>
RecordsFocus ==
  /\ \/ focus = "clicks" /\ LinkStep
     \/ focus = "defaults" /\ BoardStep
     \/ focus = "recommendations" /\ TipStep
     \/ focus \in {"clicks", "defaults", "recommendations"} /\ \E c \in RecordCalls : LoseRecorder(c)
  /\ UNCHANGED <<httpVars, accessVars, noticeVars, cacheVars, staffVars, watchVars, botVars>>
BotFocus ==
  focus = "bot" /\ BotNext
  /\ UNCHANGED <<httpVars, accessVars, noticeVars, cacheVars, staffVars, watchVars, recordVars>>

PlatformNext ==
  /\ UNCHANGED focus
  /\ \/ HttpFocus \/ AccessFocus \/ NoticesFocus \/ CacheFocus
     \/ StaffFocus \/ WatchFocus \/ RecordsFocus \/ BotFocus

PlatformSpec == PlatformInit /\ [][PlatformNext]_platformVars

PlatformTypeOK ==
  /\ HttpTypeOK /\ AccessTypeOK /\ NoticesTypeOK /\ CacheTypeOK
  /\ StaffTypeOK /\ WatchTypeOK /\ RecordsTypeOK /\ BotTypeOK
=============================================================================
