-------------------------------- MODULE Bot --------------------------------
(***************************************************************************)
(* The Telegram bot: its commands and buttons in the order in which they   *)
(* are registered (what comes after staffGuard is for staff), what each    *)
(* asks for, whether it changes anything and whether it catches what is    *)
(* thrown, and the handling of updates: what an update asks for may not    *)
(* exist, and Telegram may not take the text of the answer, without any    *)
(* failure.  Telegraf and Telegram are external: an update whose handling  *)
(* did not end is handed out again.                                        *)
(***************************************************************************)
EXTENDS Naturals

CONSTANTS
  Updates,     \* updates handled at the same time
  MaxSlips,    \* bound: failures of the database and of Telegram for one update
  MaxRestarts  \* bound: times the process ends while it handles one update

ASSUME BotBoundsAssumption == MaxSlips \in Nat /\ MaxRestarts \in Nat

\* A handler: the arguments it wants, whether it changes data, whether it catches.
Handler(names, args, writes, catches) ==
  [name: names, args: {args}, writes: {writes}, catches: {catches}, pages: {{0}}]
Reads(names) == Handler(names, 0, FALSE, TRUE)
Asks(names) == Handler(names, 1, FALSE, TRUE)

StartCommand == Handler({"start"}, 0, TRUE, FALSE)
HelpCommand == Reads({"help", "help_cat", "help_main"})

StaffCommand == Handler({"staff"}, 0, FALSE, FALSE)
CaseCommands == Handler({"cases"}, 0, FALSE, FALSE)
TicketCommands == Handler({"tickets"}, 0, FALSE, FALSE)
InvestigationCommands == Handler({"investigations"}, 0, FALSE, FALSE)
\* They take a status that may be left out, and ask the database for it as it is.
Listings == CaseCommands \union TicketCommands \union InvestigationCommands
DepartmentCommands == Handler({"departments"}, 0, FALSE, FALSE)
ModerationCommands ==
  Handler({"warn", "mute"}, 2, TRUE, FALSE) \union Handler({"ban", "unban", "unmute"}, 1, TRUE, FALSE)
SecurityCommands == Reads({"security", "securitylogs", "risk", "fraud", "sessionaudit"})
MonitoringCommands == Reads({"stats", "system", "health", "latency", "services"})
IncidentCommands ==
  Reads({"incident"}) \union Asks({"incidentstatus", "incidenttimeline"})
  \union Handler({"resolveincident"}, 1, TRUE, TRUE)
AiCommands == Reads({"summarize", "ticketsummary", "recommendation"})
ExecutiveCommands == Reads({"executivedashboard", "companyreport"})
AuditCommands == Reads({"audit"}) \union Asks({"audituser", "auditstaff"})
LockdownCommands == Handler({"lockdown", "liftlockdown"}, 0, TRUE, TRUE)
SyncCommands == Reads({"syncstatus", "deeplinks"})
DashboardCommands == Reads({"staffdashboard", "activedashboard"})
GovernanceCommands ==
  Handler({"grantpermission", "revokepermission"}, 3, TRUE, TRUE)
  \union Handler({"grantrole", "revokerole"}, 2, TRUE, TRUE)
  \union Handler({"temporaryaccess"}, 4, TRUE, TRUE) \union Asks({"accessaudit"})
DashboardCommand == Reads({"dashboard"})
PremiumCommands == Reads({"premium", "plans", "mypremium"}) \union Handler({"requestpremium"}, 2, TRUE, TRUE)

\* The pages of PAGE_ORDER that hold a bare <...>, which is no tag that Telegram knows: staff,
\* moderation, premium, security, system and commands.
RefusedPages == {2, 5, 6, 8, 10, 11}

\* buildPage and the handlers that show a page: a button Previous or Next carries the page it is on.
Page(name, pages) == {[name |-> name, args |-> 0, writes |-> FALSE, catches |-> TRUE, pages |-> pages]}
GuideCommands ==
  Page("guide", 1..12) \union Page("commands", {11}) \union Page("examples", {12})
  \union Page("guide_prev", 1..11) \union Page("guide_next", 2..12) \union Page("guide_main", {1})

Public == StartCommand \union HelpCommand
ForStaff ==
  UNION {StaffCommand, CaseCommands, TicketCommands, InvestigationCommands, ModerationCommands, DepartmentCommands,
         SecurityCommands, MonitoringCommands, IncidentCommands, AiCommands, ExecutiveCommands, AuditCommands,
         LockdownCommands, SyncCommands, DashboardCommands, GovernanceCommands, DashboardCommand,
         PremiumCommands, GuideCommands}

\* What shows its text in the message that holds the button.
Buttons == {"help_cat", "help_main", "guide_prev", "guide_next", "guide_main"}

VARIABLE update

botVars == <<update>>

\* named: whether what the arguments name exists and is acceptable; sendable: whether Telegram
\* takes the answer's text; granted: the table in which a permission was put.
NoHandler == [name |-> "none", args |-> 0, writes |-> FALSE, catches |-> FALSE, pages |-> {0}]
NoUpdate == [pc |-> "none", handler |-> NoHandler, given |-> 0, page |-> 0, named |-> "known", sendable |-> TRUE,
             text |-> "none", answer |-> "none", written |-> 0, granted |-> "none", failures |-> 0, restarts |-> 0]

BotInit == update = [u \in Updates |-> NoUpdate]

Turn(u, changed) == update' = [update EXCEPT ![u] = changed]
Failing(u) == update[u].failures < MaxSlips
Failed(u) == [update[u] EXCEPT !.failures = @ + 1]
\* What a handler that does not catch throws goes to bot.catch, which logs it.
Throws(u, now) == [now EXCEPT !.pc = IF update[u].handler.catches THEN "report" ELSE "done", !.text = "error"]

\* A staff member's permissions are granted to his first role, by every command that grants one.
Granting == {"grantpermission", "temporaryaccess"}
Granted(now) == IF now.handler.name \in Granting THEN "role" ELSE now.granted
AfterWrite(now) == [now EXCEPT !.written = now.written + 1, !.granted = Granted(now)]
AfterService(now) == IF now.handler.writes THEN AfterWrite(now) ELSE now

Enough(now) == now.given >= now.handler.args
Saying(now, text) == [now EXCEPT !.pc = "reply", !.text = text]

\* Composer: the first handler of the name; one that is for staff stands behind the guard.  Of
\* the texts that are not built from data only some pages are refused, and a message that a button
\* would leave as it is.
Arrive(u, h, n, p, named, sendable) ==
  /\ update[u].pc \in {"none", "done"}
  /\ n <= h.args /\ p \in h.pages
  /\ h.args = 0 \/ n < h.args => named = "known" \/ (named = "invalid" /\ h \in Listings)
  /\ sendable => p \notin RefusedPages
  /\ h \in HelpCommand \union GuideCommands /\ h.name \notin Buttons => (sendable <=> p \notin RefusedPages)
  /\ Turn(u, [NoUpdate EXCEPT !.pc = IF h \in Public THEN "run" ELSE "guard", !.handler = h, !.given = n,
                !.page = p, !.named = named, !.sendable = sendable])

\* staffGuard: the user is looked up, and must have isStaff.
Identify(u, isStaff) ==
  /\ update[u].pc = "guard"
  /\ Turn(u, IF isStaff THEN [update[u] EXCEPT !.pc = "run"]
             ELSE Saying(update[u], "refused"))

FailIdentify(u) ==
  /\ update[u].pc = "guard" /\ Failing(u)
  /\ Turn(u, [Failed(u) EXCEPT !.pc = "done"])

\* The usage is replied when arguments are missing.
Usage(u) ==
  /\ update[u].pc = "run" /\ ~Enough(update[u])
  /\ Turn(u, Saying(update[u], "usage"))

\* Faulty: the services are called before the arguments are counted.
EagerRun(u) ==
  LET now == update[u]
  IN /\ now.pc = "run" /\ now.named = "known"
     /\ Turn(u, Saying(AfterService(now), IF Enough(now) THEN "result" ELSE "usage"))

\* The services are called, and their result is replied.
Run(u) ==
  LET now == update[u]
  IN /\ now.pc = "run" /\ Enough(now) /\ now.named = "known"
     /\ Turn(u, Saying(AfterService(now), "result"))

\* The user who is meant does not exist: the moderation commands answer so themselves, and
\* /temporaryaccess tells hours that are no positive number.
NotFound(u) ==
  LET now == update[u]
  IN /\ now.pc = "run"
     /\ \/ /\ now.named = "unknown" /\ now.handler \in ModerationCommands
           /\ Turn(u, Saying(now, "error"))
        \/ /\ now.named = "invalid" /\ now.handler.name = "temporaryaccess"
           /\ Turn(u, Saying(now, "usage"))

\* A service throws at what is not there (NotFoundError, no active role) or not acceptable (a
\* moderator's own user, a length, a status or an action that is none), before it writes.
Rejected(u) ==
  LET now == update[u]
  IN /\ now.pc = "run"
     /\ \/ now.named = "unknown" /\ now.handler \notin ModerationCommands
        \/ now.named = "invalid" /\ now.handler.name # "temporaryaccess"
     /\ Turn(u, Throws(u, now))

\* The database fails: a write may have been made.
FailRun(u) ==
  LET now == Failed(u)
  IN /\ now.pc = "run" /\ Enough(now) /\ Failing(u)
     /\ \/ Turn(u, Throws(u, now))
        \/ now.handler.writes /\ now.named = "known" /\ Turn(u, Throws(u, AfterWrite(now)))

\* The usage and the guard's refusal are fixed texts.
Refuses(now) == ~now.sendable /\ now.text \in {"result", "error"}

\* Telegram takes the reply, all parts of it.
Reply(u) ==
  /\ update[u].pc = "reply"
  /\ ~Refuses(update[u])
  /\ Turn(u, [update[u] EXCEPT !.pc = "done", !.answer = update[u].text])

\* It does not take the text.
RefuseReply(u) ==
  /\ update[u].pc = "reply"
  /\ Refuses(update[u])
  /\ Turn(u, Throws(u, update[u]))

\* It fails: the guard's own reply is outside the handler.
FailReply(u) ==
  /\ update[u].pc = "reply"
  /\ Failing(u)
  /\ Turn(u, IF update[u].text = "refused" THEN [Failed(u) EXCEPT !.pc = "done"] ELSE Throws(u, Failed(u)))

\* errorCard, or answerCbQuery for a button, which says nothing.
Report(u) ==
  /\ update[u].pc = "report"
  /\ \/ Turn(u, [update[u] EXCEPT !.pc = "done",
                   !.answer = IF update[u].handler.name \in Buttons THEN "acknowledged" ELSE "error"])
     \/ Failing(u) /\ Turn(u, [Failed(u) EXCEPT !.pc = "done"])

\* The process ends; Telegram hands the update out again.
Again(u) ==
  LET now == update[u]
  IN /\ now.pc \notin {"none", "done"} /\ now.restarts < MaxRestarts
     /\ Turn(u, [now EXCEPT !.pc = IF now.handler \in Public THEN "run" ELSE "guard", !.text = "none",
                   !.restarts = now.restarts + 1])

Namings == {"known", "unknown", "invalid"}

BotNext ==
  \E u \in Updates :
    \/ \E h \in Public \union ForStaff, named \in Namings, sendable \in BOOLEAN :
         \E n \in 0..h.args, p \in h.pages : Arrive(u, h, n, p, named, sendable)
    \/ \E isStaff \in BOOLEAN : Identify(u, isStaff)
    \/ FailIdentify(u)
    \/ Usage(u)
    \/ Run(u)
    \/ NotFound(u)
    \/ Rejected(u)
    \/ FailRun(u)
    \/ Reply(u)
    \/ RefuseReply(u)
    \/ FailReply(u)
    \/ Report(u)
    \/ Again(u)

BotSpec == BotInit /\ [][BotNext]_botVars

-----------------------------------------------------------------------------
Texts == {"none", "refused", "usage", "result", "error", "acknowledged"}

BotTypeOK ==
  update \in [Updates ->
    [pc: {"none", "guard", "run", "reply", "report", "done"}, handler: Public \union ForStaff \union {NoHandler},
     given: 0..4, page: 0..12, named: Namings, sendable: BOOLEAN, text: Texts, answer: Texts, written: Nat,
     granted: {"none", "role", "override", "temporary"}, failures: 0..MaxSlips, restarts: 0..MaxRestarts]]

\* An update stays without an answer for these reasons alone: Telegram or the database failed
\* it, twice when its handler catches what is thrown, once when what it asked for was at fault
\* too; or its handler does not catch, and Telegram refused the text or the service refused what
\* was asked.
SilenceIsExplained(done) ==
  LET caught == done.text = "error" /\ done.handler.catches
  IN \/ done.failures > IF caught THEN 1 ELSE 0
     \/ caught /\ done.failures = 1 /\ (done.named # "known" \/ ~done.sendable)
     \/ done.text = "error" /\ ~caught /\ (done.named = "invalid" \/ ~done.sendable)

\* What the chat is answered agrees with what was done: a refusal and a usage come with no
\* write unless an earlier handling of the update made it, nor does an error when nothing failed
\* and Telegram takes the text; a result comes with a write, and no update makes more writes
\* than the times it is handled; and what gets no answer has one of the reasons above.  It speaks of
\* whether something was written, not of what: see TemporaryAccessEnds, OverridesAreOverrides.
AnswersTellTheEffect ==
  \A u \in Updates :
    LET done == update[u]
    IN done.pc = "done" =>
         /\ done.answer = "result" /\ done.handler.writes => done.written > 0
         /\ done.answer \in {"refused", "usage"} => done.written <= done.restarts
         /\ done.answer = "error" /\ done.sendable /\ done.failures = 0 => done.written <= done.restarts
         /\ done.written <= 1 + done.restarts
         /\ done.answer = "none" => SilenceIsExplained(done)

\* "/temporaryaccess ... Grant time-bound temporary access" (COMMAND_REFERENCE.md:32).
TemporaryAccessEnds ==
  \A u \in Updates :
    update[u].answer = "result" /\ update[u].handler.name = "temporaryaccess" =>
      update[u].granted = "temporary"

\* "/grantpermission ... Grant a specific permission override" (COMMAND_REFERENCE.md:30).
OverridesAreOverrides ==
  \A u \in Updates :
    update[u].answer = "result" /\ update[u].handler.name = "grantpermission" => update[u].granted = "override"

\* "Commands with try-catch: 51/53 (start, help have minimal logic)" (BOT_FINAL_AUDIT.md:76):
\* any other command whose service throws reaches its catch, which answers unless that fails too.
CommandsCatch ==
  \A u \in Updates :
    LET done == update[u]
    IN done.pc = "done" /\ done.handler \notin Public /\ done.text = "error" =>
         done.answer # "none" \/ done.failures > 1 \/ ~done.sendable

\* "Argument parsing in bot commands: all commands parse and validate args"
\* (BOT_FINAL_AUDIT.md:157): arguments that are not acceptable are answered, when nothing fails.
ArgumentsAreValidated ==
  \A u \in Updates :
    LET done == update[u]
    IN done.pc = "done" /\ done.named = "invalid" /\ done.failures = 0 /\ done.sendable =>
         done.answer # "none"

\* "/commands output now lists all 53 unique commands" (BOT_FINAL_AUDIT.md:88): a member of the
\* staff who asks for the list gets it when nothing fails.
CommandsAreListed ==
  \A u \in Updates :
    LET done == update[u]
    IN done.pc = "done" /\ done.handler.name = "commands" /\ done.failures = 0 =>
         done.answer \in {"refused", "result"}
=============================================================================
