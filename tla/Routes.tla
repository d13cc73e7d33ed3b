------------------------------- MODULE Routes -------------------------------
(***************************************************************************)
(* The tables of the REST server: what each handler of a controller reads  *)
(* of its argument and answers, and the routes in the order in which they  *)
(* are registered.  A path is its segments after /api/<resource>; what a   *)
(* handler reads is "body", "query" or a parameter of the path.            *)
(***************************************************************************)
EXTENDS Sequences, TLC

Params == {":accountId", ":actorId", ":code", ":departmentId", ":evidenceId", ":feature", ":id",
  ":investigationId", ":metric", ":moderatorId", ":rcaId", ":referenceId", ":reportId", ":resource",
  ":resourceId", ":staffId", ":status", ":targetId", ":targetType", ":telegramId", ":userId"}

\* Any 4xx by which a service, or the controller for it, declines.
Declined == 400
\* The handler lets what its service throws go to the error handler.
Thrown == 0

Answers(names, reads) == [h \in names |-> [reads |-> reads, code |-> 200, fails |-> Thrown]]
Creates(names, reads) == [h \in names |-> [reads |-> reads, code |-> 201, fails |-> Thrown]]
\* The same handlers, which catch whatever is thrown and answer status.
Caught(status, handlers) == [h \in DOMAIN handlers |-> [handlers[h] EXCEPT !.fails = status]]

HealthController ==
  Caught(503, Answers({"check", "checkLiveness", "checkReadiness"}, {}))

AuthController ==
  Caught(401, Answers({"login", "refresh"}, {"body"})) @@ Answers({"logout", "revokeAll"}, {})

WebhookController == Caught(500, Answers({"createEvent"}, {"body"}))

UsersController ==
  Caught(Declined, Answers({"getById"}, {":id"})
                   @@ Answers({"updateStatus", "updateIntelligence"}, {":id", "body"}))
  @@ Answers({"getByTelegramId"}, {":telegramId"}) @@ Creates({"upsert"}, {"body"})
  @@ Answers({"list", "search"}, {"query"})

StaffController ==
  Caught(Declined, Answers({"getById", "activate", "deactivate"}, {":id"})
                   @@ Answers({"update", "assignRole"}, {":id", "body"}))
  @@ Answers({"getByUserId"}, {":userId"}) @@ Answers({"list"}, {"query"})
  @@ Creates({"create"}, {"body"})

PermissionsController ==
  Caught(Declined, Answers({"getByStaff", "listByStaffMember"}, {":staffId"})
                   @@ Creates({"grant", "assignRoleToStaff"}, {"body"})
                   @@ Answers({"revoke", "removeRoleFromStaff"}, {"body"}))
  @@ Answers({"list", "check"}, {"query"})

ModerationController ==
  Caught(Declined, Creates({"create"}, {"body"}) @@ Answers({"getById"}, {":id"}))
  @@ Answers({"list"}, {"query"}) @@ Answers({"listByModerator"}, {":moderatorId"})
  @@ Answers({"listByTarget", "getTargetSummary"}, {":targetId"})

CasesController ==
  Creates({"create"}, {"body"}) @@ Answers({"getById"}, {":id"}) @@ Answers({"list"}, {"query"})
  @@ Answers({"update"}, {":id", "body"}) @@ Answers({"assign", "transitionStatus"}, {"body"})

TicketsController == CasesController @@ Creates({"addReply"}, {"body"})

InvestigationsController ==
  CasesController @@ Creates({"addEvidence"}, {"body"})
  @@ Answers({"removeEvidence"}, {":investigationId", ":evidenceId"})
  @@ Answers({"getEvidence"}, {":investigationId"})

SlaController ==
  Creates({"startSla"}, {"body"}) @@ Answers({"getSla", "resolveSla"}, {":id"})
  @@ Answers({"getSlasByTarget", "getCompliance"}, {":targetType", ":targetId"})
  @@ Answers({"listActiveSlas"}, {"query"}) @@ Answers({"checkBreaches"}, {})

AuditController ==
  Answers({"getById", "getExportStatus"}, {":id"}) @@ Answers({"query"}, {"query"})
  @@ Answers({"findByStaff"}, {":staffId"}) @@ Answers({"findByActor"}, {":actorId"})
  @@ Answers({"findByTarget"}, {":targetId"})
  @@ Answers({"findByResource"}, {":resource", ":resourceId"})
  @@ Answers({"generateComplianceReport"}, {"fromDate"})
  @@ Creates({"create", "exportLogs"}, {"body"})

NotificationsController ==
  Creates({"create"}, {"body"}) @@ Answers({"getById", "markAsRead", "delete"}, {":id"})
  @@ Answers({"listByUser"}, {":userId", "query"})
  @@ Answers({"markAllAsRead", "getUnreadCount"}, {":userId"})

DepartmentsController ==
  Creates({"create", "addStaff"}, {"body"}) @@ Answers({"getById", "getStaff"}, {":id"})
  @@ Answers({"list"}, {"query"}) @@ Answers({"update"}, {":id", "body"})
  @@ Answers({"removeStaff"}, {":departmentId", ":staffId"})

PremiumController ==
  Creates({"createPlan", "createSubscription"}, {"body"})
  @@ Answers({"getPlan", "getSubscription", "cancelSubscription"}, {":id"})
  @@ Answers({"listPlans", "listSubscriptions"}, {"query"})
  @@ Answers({"updatePlan"}, {":id", "body"})
  @@ Answers({"checkFeature"}, {":userId", ":feature"}) @@ Answers({"expireSubscriptions"}, {})

EconomyController ==
  Answers({"ensureAccount", "getAccount", "getBalance"}, {":userId"})
  @@ Answers({"getAccountById", "freezeAccount", "unfreezeAccount"}, {":id"})
  @@ Creates({"createTransaction"}, {"body"}) @@ Answers({"transfer"}, {"body"})
  @@ Answers({"listTransactions"}, {":accountId", "query"})

KpiController ==
  Creates({"createDefinition", "createRecord", "createTarget"}, {"body"})
  @@ Answers({"getDefinition", "getRecord"}, {":id"})
  @@ Answers({"listDefinitions", "listRecords", "listTargets"}, {"query"})
  @@ Answers({"updateDefinition"}, {":id", "body"}) @@ Answers({"getStaffSummary"}, {":staffId"})

ApprovalsController ==
  Creates({"createRequest"}, {"body"}) @@ Answers({"getById"}, {":id"})
  @@ Answers({"getByReference"}, {":referenceId"}) @@ Answers({"list"}, {"query"})
  @@ Answers({"getPendingForApprover"}, {":userId"})
  @@ Answers({"approveStep", "rejectStep", "requestInfo"}, {"body"})
  @@ Answers({"cancelRequest"}, {":id", "body"})

SecurityController ==
  Creates({"record", "registerDevice", "recordLogin"}, {"body"}) @@ Answers({"getById"}, {":id"})
  @@ Answers({"query", "loginHistory", "recentFailed"}, {"query"})
  @@ Answers({"deactivateDevice"}, {":sessionId"}) @@ Answers({"listSessions"}, {":userId"})

MonitoringController ==
  Answers({"upsertService"}, {"body"}) @@ Answers({"getService", "getAlert"}, {":id"})
  @@ Answers({"listServices", "listAlerts"}, {"query"})
  @@ Answers({"updateStatus"}, {":id", "body"}) @@ Creates({"triggerAlert"}, {"body"})
  @@ Answers({"acknowledgeAlert"}, {":alertId", "body"}) @@ Answers({"byStatus"}, {":status"})

IncidentsController ==
  Creates({"create", "addTimeline", "createReport"}, {"body"}) @@ Creates({"createRca"}, {"body"})
  @@ Answers({"getById", "resolve", "getReport"}, {":id"}) @@ Answers({"list"}, {"query"})
  @@ Answers({"update"}, {":id", "body"})
  @@ Answers({"getTimeline", "getReports", "getRca"}, {":incidentId"})
  @@ Answers({"approveRca"}, {":rcaId", "body"})

AiController ==
  Creates({"createSummary", "createRecommendation"}, {"body"})
  @@ Answers({"getSummary", "getRecommendation", "dismiss"}, {":id"})
  @@ Answers({"querySummaries", "list"}, {"query"}) @@ Answers({"apply"}, {":id", "body"})
  @@ Answers({"byTarget"}, {":targetType", ":targetId"})

AnalyticsController ==
  Creates({"recordMetric", "createDashboard"}, {"body"})
  @@ Answers({"queryMetrics", "listDashboards"}, {"query"})
  @@ Answers({"aggregation"}, {":metric", "query"})
  @@ Answers({"getDashboard", "deleteDashboard"}, {":id"})
  @@ Answers({"updateDashboard", "setDefault"}, {":id", "body"})

SyncController ==
  Creates({"createEvent"}, {"body"}) @@ Answers({"getEvent", "markProcessed"}, {":id"})
  @@ Answers({"list", "pendingEvents", "failedEvents"}, {"query"})
  @@ Answers({"update", "markFailed"}, {":id", "body"})

DeepLinkController ==
  Creates({"createLink"}, {"body"}) @@ Answers({"getLink", "deactivate"}, {":id"})
  @@ Answers({"getByCode", "resolve"}, {":code"}) @@ Answers({"listLinks"}, {"query"})

DashboardController ==
  Answers({"staffOverview", "kpiSummary", "securitySummary", "systemHealth"}, {})
  @@ Answers({"moderationStats", "ticketStats", "caseStats"}, {"query"})
  @@ Answers({"snapshot"}, {"body"})

GovernanceController ==
  Caught(Declined,
    Answers({"checkAccess", "revokeOverride", "validateSensitiveAction"}, {"body"})
    @@ Creates({"grantTemporaryPermission", "grantOverride", "grantSpecialAccess",
                "configureSensitiveAction", "createAuditExport"}, {"body"})
    @@ Answers({"revokeTemporaryPermission", "revokeSpecialAccess", "getAuditExport"}, {":id"}))
  @@ Answers({"listOverrides", "listTemporaryPermissions"}, {"query"})
  @@ Answers({"listSensitiveActions", "processExpired"}, {})

NoPermission == "none"

\* A route: its guards, in the order tried, the permission that withPermission asks for, and what
\* it hands to its handler.
Route(method, path, handler, gives, guards, action) ==
  [method |-> method, path |-> path, handler |-> handler, guards |-> guards,
   resource |-> NoPermission, action |-> action,
   args |-> gives \union {path[i] : i \in {j \in DOMAIN path : path[j] \in Params}}]

Guarded(method, path, handler, gives, action) ==
  Route(method, path, handler, gives, {"auth", "permission"}, action)

Get(path, handler, gives) == Route("GET", path, handler, gives, {"auth"}, NoPermission)
Post(path, handler, gives, action) == Guarded("POST", path, handler, gives, action)
Put(path, handler, gives, action) == Guarded("PUT", path, handler, gives, action)
\* The body of a DELETE is never read.
Delete(path, handler, gives, action) ==
  Guarded("DELETE", path, handler, gives \ {"body"}, action)
Probe(path, handler, gives) == Route("GET", path, handler, gives, {}, NoPermission)
Open(path, handler, gives) == Route("POST", path, handler, gives, {}, NoPermission)
Own(path, handler, gives) == Route("POST", path, handler, gives, {"auth"}, NoPermission)

\* A route that asks for a permission on another resource than the one of its path.
On(resource, route) == [route EXCEPT !.resource = resource]

Served(resource, controller, routes) ==
  [i \in DOMAIN routes |->
     [routes[i] EXCEPT !.path = <<resource>> \o @, !.handler = controller[@],
                       !.resource = IF @ = NoPermission THEN resource ELSE @]]

\* The enums of the table of permissions.
PermissionAction ==
  {"CREATE", "READ", "UPDATE", "DELETE", "APPROVE", "REJECT", "ASSIGN", "ESCALATE"}
PermissionResource ==
  {"users", "staff", "moderation", "cases", "tickets", "sla", "audit", "investigations",
   "notifications", "settings", "departments", "premium", "economy", "kpi", "approvals",
   "security", "monitoring", "incidents", "analytics", "sync", "dashboard"}

HealthRoutes == Served("health", HealthController, <<
  Probe(<<>>, "check", {}), Probe(<<"live">>, "checkLiveness", {}),
  Probe(<<"ready">>, "checkReadiness", {})>>)

AuthRoutes == Served("auth", AuthController, <<
  Open(<<"login">>, "login", {"body"}), Open(<<"refresh">>, "refresh", {"body"}),
  Own(<<"logout">>, "logout", {}), Own(<<"revoke-all">>, "revokeAll", {})>>)

UsersRoutes == Served("users", UsersController, <<
  Get(<<>>, "list", {"query"}), Get(<<"search">>, "search", {"query"}),
  Get(<<":id">>, "getById", {}), Get(<<"telegram", ":telegramId">>, "getByTelegramId", {}),
  Post(<<>>, "upsert", {"body"}, "CREATE"), Put(<<":id", "status">>, "updateStatus", {"body"}, "UPDATE"),
  Put(<<":id", "intelligence">>, "updateIntelligence", {"body"}, "UPDATE")>>)

StaffRoutes == Served("staff", StaffController, <<
  Get(<<>>, "list", {"query"}), Get(<<":id">>, "getById", {}),
  Get(<<"user", ":userId">>, "getByUserId", {}), Post(<<>>, "create", {"body"}, "CREATE"),
  Put(<<":id">>, "update", {"body"}, "UPDATE"), Post(<<":id", "role">>, "assignRole", {"body"}, "UPDATE"),
  Post(<<":id", "activate">>, "activate", {}, "UPDATE"), Post(<<":id", "deactivate">>, "deactivate", {}, "UPDATE")>>)

PermissionsRoutes == Served("permissions", PermissionsController, <<
  Get(<<"staff", ":staffId">>, "getByStaff", {}), Get(<<"check">>, "check", {"query"}),
  Post(<<"grant">>, "grant", {"body"}, "GRANT"), Post(<<"revoke">>, "revoke", {"body"}, "REVOKE"),
  Get(<<>>, "list", {"query"}), On("staff", Post(<<"assign-role">>, "assignRoleToStaff", {"body"}, "UPDATE")),
  On("staff", Post(<<"remove-role">>, "removeRoleFromStaff", {"body"}, "UPDATE"))>>)

ModerationRoutes == Served("moderation", ModerationController, <<
  Get(<<":id">>, "getById", {}), Get(<<"target", ":targetId">>, "listByTarget", {}),
  Get(<<"moderator", ":moderatorId">>, "listByModerator", {}),
  Get(<<"target", ":targetId", "summary">>, "getTargetSummary", {}), Post(<<>>, "create", {"body"}, "CREATE")>>)

CasesRoutes == Served("cases", CasesController, <<
  Get(<<>>, "list", {"query"}), Get(<<":id">>, "getById", {}), Post(<<>>, "create", {"body"}, "CREATE"),
  Put(<<":id">>, "update", {"body"}, "UPDATE"), Post(<<":id", "assign">>, "assign", {"body"}, "UPDATE"),
  Post(<<":id", "transition">>, "transitionStatus", {"body"}, "UPDATE")>>)

TicketsRoutes == Served("tickets", TicketsController, <<
  Get(<<>>, "list", {"query"}), Get(<<":id">>, "getById", {}), Post(<<>>, "create", {"body"}, "CREATE"),
  Put(<<":id">>, "update", {"body"}, "UPDATE"), Post(<<":id", "assign">>, "assign", {"body"}, "UPDATE"),
  Post(<<":id", "transition">>, "transitionStatus", {"body"}, "UPDATE"),
  Post(<<":id", "reply">>, "addReply", {"body"}, "UPDATE")>>)

InvestigationsRoutes == Served("investigations", InvestigationsController, <<
  Get(<<>>, "list", {"query"}), Get(<<":id">>, "getById", {}), Post(<<>>, "create", {"body"}, "CREATE"),
  Put(<<":id">>, "update", {"body"}, "UPDATE"), Post(<<":id", "transition">>, "transitionStatus", {"body"}, "UPDATE"),
  Post(<<":id", "assign">>, "assign", {"body"}, "UPDATE"),
  Post(<<":id", "evidence">>, "addEvidence", {"body"}, "UPDATE"),
  Delete(<<":investigationId", "evidence", ":evidenceId">>, "removeEvidence", {}, "DELETE"),
  Get(<<":investigationId", "evidence">>, "getEvidence", {})>>)

SlaRoutes == Served("sla", SlaController, <<
  Get(<<>>, "listActiveSlas", {"query"}), Get(<<":id">>, "getSla", {}),
  Post(<<>>, "startSla", {"body"}, "CREATE"), Post(<<"check-breaches">>, "checkBreaches", {}, "UPDATE"),
  Post(<<":id", "resolve">>, "resolveSla", {}, "UPDATE"),
  Get(<<"target", ":targetType", ":targetId">>, "getSlasByTarget", {}),
  Get(<<"target", ":targetType", ":targetId", "compliance">>, "getCompliance", {})>>)

AuditRoutes == Served("audit", AuditController, <<
  Get(<<>>, "query", {"query"}), Get(<<":id">>, "getById", {}),
  Get(<<"staff", ":staffId">>, "findByStaff", {}), Get(<<"actor", ":actorId">>, "findByActor", {}),
  Get(<<"target", ":targetId">>, "findByTarget", {}),
  Get(<<"resource", ":resource", ":resourceId">>, "findByResource", {}),
  Get(<<"compliance-report">>, "generateComplianceReport", {"query"}),
  Post(<<"export">>, "exportLogs", {"body"}, "EXPORT"), Get(<<"export", ":id">>, "getExportStatus", {})>>)

NotificationsRoutes == Served("notifications", NotificationsController, <<
  Get(<<"user", ":userId">>, "listByUser", {"query"}), Get(<<":id">>, "getById", {}),
  Post(<<>>, "create", {"body"}, "CREATE"), Post(<<":id", "read">>, "markAsRead", {}, "UPDATE"),
  Post(<<"user", ":userId", "read-all">>, "markAllAsRead", {}, "UPDATE"),
  Get(<<"user", ":userId", "unread-count">>, "getUnreadCount", {}), Delete(<<":id">>, "delete", {}, "DELETE")>>)

DepartmentsRoutes == Served("departments", DepartmentsController, <<
  Get(<<>>, "list", {"query"}), Get(<<":id">>, "getById", {}),
  Get(<<":id", "staff">>, "getStaff", {}), Post(<<>>, "create", {"body"}, "CREATE"),
  Put(<<":id">>, "update", {"body"}, "UPDATE"), Post(<<"staff">>, "addStaff", {"body"}, "UPDATE"),
  Delete(<<":departmentId", "staff", ":staffId">>, "removeStaff", {}, "DELETE")>>)

PremiumRoutes == Served("premium", PremiumController, <<
  Get(<<"plans">>, "listPlans", {"query"}), Get(<<"plans", ":id">>, "getPlan", {}),
  Post(<<"plans">>, "createPlan", {"body"}, "CREATE"), Put(<<"plans", ":id">>, "updatePlan", {"body"}, "UPDATE"),
  Get(<<"subscriptions">>, "listSubscriptions", {"query"}),
  Get(<<"subscriptions", ":id">>, "getSubscription", {}),
  Post(<<"subscriptions">>, "createSubscription", {"body"}, "CREATE"),
  Post(<<"subscriptions", ":id", "cancel">>, "cancelSubscription", {}, "UPDATE"),
  Get(<<"check", ":userId", ":feature">>, "checkFeature", {}),
  Post(<<"expire">>, "expireSubscriptions", {}, "UPDATE")>>)

EconomyRoutes == Served("economy", EconomyController, <<
  Post(<<"accounts", ":userId">>, "ensureAccount", {}, "CREATE"),
  Get(<<"accounts", ":userId">>, "getAccount", {}),
  Get(<<"accounts", "id", ":id">>, "getAccountById", {}),
  Get(<<"accounts", ":userId", "balance">>, "getBalance", {}),
  Get(<<"accounts", ":accountId", "transactions">>, "listTransactions", {"query"}),
  Post(<<"transactions">>, "createTransaction", {"body"}, "CREATE"),
  Post(<<"transfer">>, "transfer", {"body"}, "CREATE"),
  Post(<<"accounts", ":id", "freeze">>, "freezeAccount", {}, "UPDATE"),
  Post(<<"accounts", ":id", "unfreeze">>, "unfreezeAccount", {}, "UPDATE")>>)

KpiRoutes == Served("kpi", KpiController, <<
  Get(<<"definitions">>, "listDefinitions", {"query"}),
  Get(<<"definitions", ":id">>, "getDefinition", {}),
  Post(<<"definitions">>, "createDefinition", {"body"}, "CREATE"),
  Put(<<"definitions", ":id">>, "updateDefinition", {"body"}, "UPDATE"),
  Get(<<"records">>, "listRecords", {"query"}), Get(<<"records", ":id">>, "getRecord", {}),
  Post(<<"records">>, "createRecord", {"body"}, "CREATE"), Get(<<"targets">>, "listTargets", {"query"}),
  Post(<<"targets">>, "createTarget", {"body"}, "CREATE"),
  Get(<<"staff", ":staffId", "summary">>, "getStaffSummary", {})>>)

ApprovalsRoutes == Served("approvals", ApprovalsController, <<
  Get(<<>>, "list", {"query"}), Get(<<":id">>, "getById", {}),
  Get(<<"reference", ":referenceId">>, "getByReference", {}),
  Get(<<"pending", ":userId">>, "getPendingForApprover", {}), Post(<<>>, "createRequest", {"body"}, "CREATE"),
  Post(<<":id", "cancel">>, "cancelRequest", {"body"}, "UPDATE"),
  Post(<<"steps", "approve">>, "approveStep", {"body"}, "APPROVE"),
  Post(<<"steps", "reject">>, "rejectStep", {"body"}, "REJECT"),
  Post(<<"steps", "request-info">>, "requestInfo", {"body"}, "UPDATE")>>)

SecurityRoutes == Served("security", SecurityController, <<
  Post(<<"events">>, "record", {"body"}, "CREATE"), Get(<<"events">>, "query", {"query"}),
  Get(<<"events", ":id">>, "getById", {}), Post(<<"devices">>, "registerDevice", {"body"}, "CREATE"),
  Post(<<"devices", ":id", "deactivate">>, "deactivateDevice", {}, "UPDATE"),
  Get(<<"devices", "user", ":userId">>, "listSessions", {}),
  Post(<<"login-history">>, "recordLogin", {"body"}, "CREATE"),
  Get(<<"login-history">>, "loginHistory", {"query"}),
  Get(<<"login-history", "recent-failed">>, "recentFailed", {})>>)

MonitoringRoutes == Served("monitoring", MonitoringController, <<
  Post(<<"services">>, "upsertService", {"body"}, "CREATE"), Get(<<"services">>, "listServices", {"query"}),
  Get(<<"services", ":id">>, "getService", {}),
  Put(<<"services", ":id", "status">>, "updateStatus", {"body"}, "UPDATE"),
  Get(<<"services", "status", ":status">>, "byStatus", {}),
  Post(<<"alerts">>, "triggerAlert", {"body"}, "CREATE"), Get(<<"alerts">>, "listAlerts", {"query"}),
  Get(<<"alerts", ":id">>, "getAlert", {}),
  Post(<<"alerts", ":id", "acknowledge">>, "acknowledgeAlert", {"body"}, "UPDATE")>>)

IncidentsRoutes == Served("incidents", IncidentsController, <<
  Post(<<>>, "create", {"body"}, "CREATE"), Get(<<>>, "list", {"query"}), Get(<<":id">>, "getById", {}),
  Put(<<":id">>, "update", {"body"}, "UPDATE"), Post(<<":id", "resolve">>, "resolve", {}, "UPDATE"),
  Post(<<":id", "timeline">>, "addTimeline", {"body"}, "UPDATE"),
  Get(<<":id", "timeline">>, "getTimeline", {}),
  Post(<<":id", "reports">>, "createReport", {"body"}, "UPDATE"), Get(<<":id", "reports">>, "getReports", {}),
  Get(<<"reports", ":reportId">>, "getReport", {}), Post(<<":id", "rca">>, "createRca", {"body"}, "UPDATE"),
  Get(<<":id", "rca">>, "getRca", {}), Post(<<"rca", ":rcaId", "approve">>, "approveRca", {"body"}, "UPDATE")>>)

AiRoutes == Served("ai", AiController, <<
  Post(<<"summaries">>, "createSummary", {"body"}, "CREATE"),
  Get(<<"summaries">>, "querySummaries", {"query"}), Get(<<"summaries", ":id">>, "getSummary", {}),
  Get(<<"summaries", "target", ":targetType", ":targetId">>, "byTarget", {}),
  Post(<<"recommendations">>, "createRecommendation", {"body"}, "CREATE"),
  Get(<<"recommendations">>, "list", {"query"}),
  Get(<<"recommendations", ":id">>, "getRecommendation", {}),
  Post(<<"recommendations", ":id", "apply">>, "apply", {"body"}, "UPDATE"),
  Post(<<"recommendations", ":id", "dismiss">>, "dismiss", {}, "UPDATE")>>)

AnalyticsRoutes == Served("analytics", AnalyticsController, <<
  Post(<<"metrics">>, "recordMetric", {"body"}, "CREATE"), Get(<<"metrics">>, "queryMetrics", {"query"}),
  Get(<<"metrics", "aggregation", ":metric">>, "aggregation", {"query"}),
  Post(<<"dashboards">>, "createDashboard", {"body"}, "CREATE"),
  Get(<<"dashboards">>, "listDashboards", {"query"}),
  Get(<<"dashboards", ":id">>, "getDashboard", {}),
  Put(<<"dashboards", ":id">>, "updateDashboard", {"body"}, "UPDATE"),
  Delete(<<"dashboards", ":id">>, "deleteDashboard", {}, "DELETE"),
  Post(<<"dashboards", ":id", "set-default">>, "setDefault", {"body"}, "UPDATE")>>)

SyncRoutes == Served("sync", SyncController, <<
  Post(<<"events">>, "createEvent", {"body"}, "CREATE"), Get(<<"events">>, "list", {"query"}),
  Get(<<"events", ":id">>, "getEvent", {}), Put(<<"events", ":id">>, "update", {"body"}, "UPDATE"),
  Post(<<"events", ":id", "processed">>, "markProcessed", {}, "UPDATE"),
  Post(<<"events", ":id", "failed">>, "markFailed", {"body"}, "UPDATE"),
  Get(<<"events", "pending">>, "pendingEvents", {}),
  Get(<<"events", "failed">>, "failedEvents", {"query"})>>)

WebhookRoutes == Served("webhooks", WebhookController, <<
  Open(<<"spnet-admin">>, "createEvent", {"body"})>>)

DeepLinkRoutes == Served("deeplinks", DeepLinkController, <<
  Post(<<>>, "createLink", {"body"}, "CREATE"), Get(<<>>, "listLinks", {"query"}),
  Get(<<":id">>, "getLink", {}), Get(<<"code", ":code">>, "getByCode", {}),
  Post(<<"resolve", ":code">>, "resolve", {}, "READ"), Post(<<":id", "deactivate">>, "deactivate", {}, "UPDATE")>>)

DashboardRoutes == Served("dashboard", DashboardController, <<
  Get(<<"staff-overview">>, "staffOverview", {}),
  Get(<<"moderation-stats">>, "moderationStats", {"query"}),
  Get(<<"ticket-stats">>, "ticketStats", {"query"}), Get(<<"case-stats">>, "caseStats", {"query"}),
  Get(<<"kpi-summary">>, "kpiSummary", {}), Get(<<"security-summary">>, "securitySummary", {}),
  Get(<<"system-health">>, "systemHealth", {}), Get(<<"snapshot">>, "snapshot", {"query"})>>)

GovernanceRoutes == Served("governance", GovernanceController, <<
  Post(<<"check-access">>, "checkAccess", {"body"}, "READ"),
  Post(<<"temporary-permissions">>, "grantTemporaryPermission", {"body"}, "CREATE"),
  Delete(<<"temporary-permissions", ":id">>, "revokeTemporaryPermission", {}, "DELETE"),
  Post(<<"overrides">>, "grantOverride", {"body"}, "CREATE"),
  Delete(<<"overrides">>, "revokeOverride", {"body"}, "DELETE"),
  Post(<<"special-access">>, "grantSpecialAccess", {"body"}, "CREATE"),
  Delete(<<"special-access", ":id">>, "revokeSpecialAccess", {}, "DELETE"),
  Get(<<"overrides">>, "listOverrides", {"query"}),
  Get(<<"temporary-permissions">>, "listTemporaryPermissions", {"query"}),
  Post(<<"sensitive-actions">>, "configureSensitiveAction", {"body"}, "CREATE"),
  Get(<<"sensitive-actions">>, "listSensitiveActions", {}),
  Post(<<"validate-sensitive-action">>, "validateSensitiveAction", {"body"}, "READ"),
  Post(<<"audit-exports">>, "createAuditExport", {"body"}, "CREATE"),
  Get(<<"audit-exports", ":id">>, "getAuditExport", {}),
  Post(<<"process-expired">>, "processExpired", {}, "UPDATE")>>)

Routes ==
  HealthRoutes \o AuthRoutes \o UsersRoutes \o StaffRoutes \o PermissionsRoutes
  \o ModerationRoutes \o CasesRoutes \o TicketsRoutes \o InvestigationsRoutes \o SlaRoutes
  \o AuditRoutes \o NotificationsRoutes \o DepartmentsRoutes \o PremiumRoutes \o EconomyRoutes
  \o KpiRoutes \o ApprovalsRoutes \o SecurityRoutes \o MonitoringRoutes \o IncidentsRoutes
  \o AiRoutes \o AnalyticsRoutes \o SyncRoutes \o WebhookRoutes \o DeepLinkRoutes
  \o DashboardRoutes \o GovernanceRoutes
=============================================================================
