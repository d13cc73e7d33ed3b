---------------------------- MODULE MCDocumented ----------------------------
(***************************************************************************)
(* Statements of the documentation about the REST server, the bot, the     *)
(* dispatcher and the sessions, put to the test one after the other.  The  *)
(* four share no state, so a behaviour that refutes every statement in     *)
(* turn holds a counterexample to each of them.                            *)
(***************************************************************************)
EXTENDS Router, Bot, Notices, Sessions

\* What Router, Bot, Notices and Sessions say that the documentation states, with its lines.
Order == <<"permissions open", "endpoints succeed", "commands catch", "arguments are validated",
           "commands are listed", "temporary access ends", "overrides are overrides",
           "unreached events fail", "refresh works", "revoked sessions end">>

Holds(statement) ==
  CASE statement = "permissions open" -> ListedPermissionsOpen
    [] statement = "endpoints succeed" -> ListedEndpointsSucceed
    [] statement = "commands catch" -> CommandsCatch
    [] statement = "arguments are validated" -> ArgumentsAreValidated
    [] statement = "commands are listed" -> CommandsAreListed
    [] statement = "temporary access ends" -> TemporaryAccessEnds
    [] statement = "overrides are overrides" -> OverridesAreOverrides
    [] statement = "unreached events fail" -> UnreachedEventsFail
    [] statement = "refresh works" -> RefreshWorks
    [] statement = "revoked sessions end" -> RevokedSessionsEnd

VARIABLE refuted  \* the statements that a counterexample was seen of, in their order

documentedVars == <<httpVars, botVars, noticeVars, sessionVars, refuted>>

DocumentedInit == HttpInit /\ BotInit /\ NoticesInit /\ SessionsInit /\ refuted = <<>>

OnTrial == Order[Len(refuted) + 1]

\* The part that the statement on trial is about goes on until it refutes it.
Trying(first, last) == /\ Len(refuted) + 1 \in first..last
                       /\ Holds(OnTrial)
                       /\ UNCHANGED refuted
TryHttp == Trying(1, 2) /\ HttpNext /\ UNCHANGED <<botVars, noticeVars, sessionVars>>
TryBot == Trying(3, 7) /\ BotNext /\ UNCHANGED <<httpVars, noticeVars, sessionVars>>
TryNotices == Trying(8, 8) /\ NoticesNext /\ UNCHANGED <<httpVars, botVars, sessionVars>>
TrySessions == Trying(9, 10) /\ SessionsNext /\ UNCHANGED <<httpVars, botVars, noticeVars>>

\* The next statement is tried with another request and another update.
TakeNext ==
  /\ refuted # Order /\ ~Holds(OnTrial)
  /\ refuted' = Append(refuted, OnTrial)
  /\ http' = [r \in HttpRequests |-> Unsent]
  /\ update' = [u \in Updates |-> NoUpdate]
  /\ UNCHANGED <<noticeVars, sessionVars>>

DocumentedSpec ==
  DocumentedInit /\ [][TryHttp \/ TryBot \/ TryNotices \/ TrySessions \/ TakeNext]_documentedVars

\* At least one of the statements, which are quoted where they are defined, is true of the program.
\* A behaviour that violates this refutes them all.
SomeStatementHolds == refuted # Order
=============================================================================
