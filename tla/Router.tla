------------------------------- MODULE Router -------------------------------
(***************************************************************************)
(* The REST server: a request is given to the first registered route that  *)
(* its method and path match, passes that route's guards, is answered once *)
(* by the route's handler, and an answer of 400 or more leaves a row in    *)
(* the audit log.  What the guards and the services decide is an input:    *)
(* modules Access and Sessions say how the guards decide.                  *)
(***************************************************************************)
EXTENDS Routes, Naturals

CONSTANTS
  HttpRequests  \* the requests being served at the same time

\* An endpoint is the method and the path of some route, which the API promises to serve.
Endpoints == DOMAIN Routes
Unknown == 0   \* a request that no route was registered for

Answered == {200, 201}
Statuses == {200, 201, 400, 401, 403, 404, 500, 503}

Unsent == [pc |-> "idle", endpoint |-> Unknown, route |-> Unknown, passed |-> {},
           outcome |-> "none", status |-> 0, audited |-> "none"]

VARIABLE http

httpVars == <<http>>

HttpStates ==
  [pc: {"idle", "guards", "handler", "lost", "auditing", "done"},
   endpoint: Endpoints \union {Unknown}, route: Endpoints \union {Unknown},
   passed: SUBSET {"auth", "permission"}, outcome: {"none", "done", "refused", "crashed"},
   status: Statuses \union {0}, audited: {"none", "anonymous", "staff", "failed"}]

HttpInit == http = [r \in HttpRequests |-> Unsent]

\* A parameter stands for any segment; the values sent for parameters are no words of a path.
Matches(route, endpoint) ==
  LET sent == Routes[endpoint].path
      pattern == Routes[route].path
  IN /\ Routes[route].method = Routes[endpoint].method
     /\ Len(pattern) = Len(sent)
     /\ \A i \in DOMAIN pattern : pattern[i] \in Params \/ pattern[i] = sent[i]

FirstMatch ==
  [e \in Endpoints |-> CHOOSE r \in Endpoints : Matches(r, e) /\ \A q \in Endpoints : Matches(q, e) => r <= q]

\* What every route of the table has in common.
ASSUME RoutesAssumption ==
  /\ Unknown \notin Endpoints
  /\ \A e \in Endpoints :
       /\ FirstMatch[e] \in Endpoints
       /\ Routes[e].guards \in {{}, {"auth"}, {"auth", "permission"}}
       /\ Routes[e].handler.code \in Answered
       /\ Routes[e].handler.fails \in (Statuses \ Answered) \union {Thrown}

Answer(r, status) ==
  http' = [http EXCEPT ![r].status = status, ![r].pc = IF status < 400 THEN "done" ELSE "auditing"]

\* createServer: the loop over the routes.
Receive(r, e) ==
  /\ http[r].pc = "idle"
  /\ \/ /\ e \in Endpoints
        /\ http' = [http EXCEPT ![r].endpoint = e, ![r].route = FirstMatch[e], ![r].pc = "guards"]
     \* A parameter that cannot be decoded throws before any handler of errors: no answer is sent.
     \/ /\ e \in Endpoints /\ Routes[FirstMatch[e]].args \intersect Params # {}
        /\ http' = [http EXCEPT ![r].endpoint = e, ![r].route = FirstMatch[e], ![r].pc = "lost"]
     \/ e = Unknown /\ Answer(r, 404)

\* Faulty: a route that is not registered by withPermission.
OnlyAuthenticating(r) == (Routes[http[r].route].guards \ {"permission"}) \ http[r].passed

Guarding(r) == Routes[http[r].route].guards \ http[r].passed

\* authGuard answers 401 whatever fails in it.
Authenticate(r) ==
  /\ http[r].pc = "guards" /\ "auth" \in Guarding(r)
  /\ \/ http' = [http EXCEPT ![r].passed = {"auth"}]
     \/ Answer(r, 401)

\* The guard hands its words to Prisma, which refuses a query with one that its enum lacks.
IsAskable(route) ==
  Routes[route].resource \in PermissionResource /\ Routes[route].action \in PermissionAction

\* withPermission: a token without a subject gets 401; the guard's own failure goes to the error
\* handler, and every staff member ends there when a permission cannot be asked for.
Authorize(r) ==
  /\ http[r].pc = "guards" /\ Guarding(r) = {"permission"}
  /\ \/ IsAskable(http[r].route) /\ http' = [http EXCEPT ![r].passed = {"auth", "permission"}]
     \/ IsAskable(http[r].route) /\ \E status \in {403, 404} : Answer(r, status)
     \/ \E status \in {401, 500} : Answer(r, status)

Call(r) ==
  /\ http[r].pc = "guards" /\ Guarding(r) = {}
  /\ http' = [http EXCEPT ![r].pc = "handler"]

\* What reaches the handler of another endpoint names nothing the service has, and what the
\* handler was not given makes it throw.
Outcomes(r) ==
  LET route == http[r].route
  IN IF ~ (Routes[route].handler.reads \subseteq Routes[route].args) THEN {"crashed"}
     ELSE IF route # http[r].endpoint THEN {"refused", "crashed"}
     ELSE {"done", "refused", "crashed"}

\* handleController and errorHandler.
StatusOf(handler, outcome) ==
  IF outcome = "done" THEN handler.code
  ELSE IF handler.fails # Thrown THEN handler.fails
  ELSE IF outcome = "refused" THEN Declined ELSE 500

Respond(r, outcome) ==
  /\ http[r].pc = "handler"
  /\ outcome \in Outcomes(r)
  /\ LET status == StatusOf(Routes[http[r].route].handler, outcome)
     IN http' = [http EXCEPT ![r].outcome = outcome, ![r].status = status,
                             ![r].pc = IF status < 400 THEN "done" ELSE "auditing"]

\* auditMiddleware: the row names the staff member once the token was accepted; nobody awaits it.
Audit(r) ==
  /\ http[r].pc = "auditing"
  /\ \E fate \in {"failed", IF "auth" \in http[r].passed THEN "staff" ELSE "anonymous"} :
       http' = [http EXCEPT ![r].pc = "done", ![r].audited = fate]

HttpNext ==
  \E r \in HttpRequests :
    \/ \E e \in Endpoints \union {Unknown} : Receive(r, e)
    \/ Authenticate(r)
    \/ Authorize(r)
    \/ Call(r)
    \/ \E outcome \in {"done", "refused", "crashed"} : Respond(r, outcome)
    \/ Audit(r)

HttpSpec == HttpInit /\ [][HttpNext]_httpVars

-----------------------------------------------------------------------------
HttpTypeOK == http \in [HttpRequests -> HttpStates]

\* An endpoint is given to its own route, with all that its handler reads.
IsServed(e) == FirstMatch[e] = e /\ Routes[e].handler.reads \subseteq Routes[e].args

\* The permission that guards it, if one does, can be asked for.
IsOpen(e) == "permission" \in Routes[e].guards => IsAskable(e)

\* An answered request got a success only if the service did what it was asked, its own route
\* served it and it passed every guard of that route; every other answer is in the audit log,
\* under the name of a staff member only if the token was accepted, unless that write failed.
\* The guards are those of the endpoint asked for, whichever route answers (server.ts, the guards
\* and the controllers it calls).
SuccessIsEarned(q) ==
  /\ q.status \in Answered <=> q.outcome = "done"
  /\ q.outcome = "done" =>
       q.passed = Routes[q.endpoint].guards /\ IsServed(q.endpoint) /\ IsOpen(q.endpoint)
  /\ q.pc = "done" => (q.status \in Answered <=> q.audited = "none")
  /\ q.audited = "staff" => "auth" \in q.passed

EndpointsAnswer == \A r \in HttpRequests : SuccessIsEarned(http[r])

\* API_REFERENCE.md:134, 228, 232, 246, 258, 260-261, 263, 304-305, 329, 339 and COMMAND_REFERENCE.md:286,
\* 444-445 list every endpoint of the table as one the server answers: a request that has passed
\* its guards and got to a handler may succeed.  A route registered earlier hides three of them,
\* and nine handlers read what their route does not hand them (server.ts:511-520).
ListedEndpointsSucceed ==
  \A r \in HttpRequests : http[r].pc = "handler" => "done" \in Outcomes(r)

\* API_REFERENCE.md:59-60, 135, 270-278, 311-316 and 335-349 name the permission that opens each
\* guarded endpoint: it can open it for somebody.  The enums of the database have no such action
\* (GRANT, REVOKE, EXPORT) or resource (PERMISSIONS, AI, DEEPLINKS, GOVERNANCE), so the guard of
\* 21 endpoints never lets a request through (permission-guard.ts:26, permissions.service.ts:122).
ListedPermissionsOpen ==
  \A r \in HttpRequests :
    http[r].pc = "guards" /\ Guarding(r) = {"permission"} => IsAskable(http[r].route)
=============================================================================
