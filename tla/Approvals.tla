----------------------------- MODULE Approvals -----------------------------
(***************************************************************************)
(* One approval request, its steps, and the calls of ApprovalsService that *)
(* decide them.  A call checks, writes the step, and writes the request;   *)
(* every database call is awaited, and other calls run in between: none of *)
(* the writes checks again what the call read at its start.                *)
(*                                                                         *)
(* A call is known by the status it is to write: approveStep APPROVED,     *)
(* rejectStep REJECTED, requestInfo REQUIRE_INFO, cancelRequest CANCELLED. *)
(***************************************************************************)
EXTENDS Naturals

CONSTANTS
  Steps,   \* the steps a request may have
  Named,   \* those with an approverId; the others require a role
  Calls    \* bound: calls of the service at the same time

Absent == "absent"
NoStep == "none"

ASSUME StepsAssumption == Named \subseteq Steps /\ NoStep \notin Steps

RequestStatuses == {"PENDING", "APPROVED", "REJECTED", "CANCELLED", "REQUIRE_INFO"}
Resolved == {"APPROVED", "REJECTED", "CANCELLED"}
StepVerdicts == {"APPROVED", "REJECTED", "REQUIRE_INFO"}
Verdicts == StepVerdicts \union {"CANCELLED"}

VARIABLES
  request,      \* status of the request
  step,         \* status of its steps
  call,         \* the calls in progress
  resolutions,  \* outcomes emitted as approval:request:resolved
  published,    \* outcomes emitted as approval:approved, approval:rejected
  \* history
  approvedOnce, \* the steps that have been approved
  cut           \* the points at which calls were lost

vars == <<request, step, call, resolutions, published, approvedOnce, cut>>
history == <<approvedOnce, cut>>
emitted == <<resolutions, published>>

Present == {s \in Steps : step[s] # Absent}

\* Where a call waits: its next database call or emission.
Points == {"idle", "step", "resolve", "request", "announce", "publish"}
CallState ==
  [at : Points, verdict : Verdicts \union {"none"}, step : Steps \union {NoStep},
   began : RequestStatuses \union {Absent}]
Idle == [at |-> "idle", verdict |-> "none", step |-> NoStep, began |-> Absent]

Init ==
  /\ request = Absent
  /\ step = [s \in Steps |-> Absent]
  /\ call = [c \in Calls |-> Idle]
  /\ resolutions = {}
  /\ published = {}
  /\ approvedOnce = {}
  /\ cut = {}

-----------------------------------------------------------------------------

\* createRequest: the request and its steps are one nested create.
CreateRequest(T) ==
  /\ request = Absent
  /\ T # {}
  /\ request' = "PENDING"
  /\ step' = [s \in Steps |-> IF s \in T THEN "PENDING" ELSE Absent]
  /\ UNCHANGED <<call, emitted, history>>

Start(c, point, v, s) ==
  /\ call[c] = Idle
  /\ call' = [call EXCEPT ![c] =
       [at |-> point, verdict |-> v, step |-> s, began |-> request]]
  /\ UNCHANGED <<request, step, emitted, history>>

\* Faulty: only the step is checked.
BeginUnchecked(c, s, v) ==
  /\ step[s] = "PENDING"
  /\ Start(c, "step", v, s)

\* approveStep, rejectStep and requestInfo check the step; the first two also
\* check the request.  (The step is read before its request, but a request
\* that is PENDING has always been: it is as if both were read at once.)
Begin(c, s, v) ==
  /\ step[s] = "PENDING"
  /\ v # "REQUIRE_INFO" => request = "PENDING"
  /\ Start(c, "step", v, s)

\* cancelRequest by the requester.
BeginCancel(c) ==
  /\ request \in {"PENDING", "REQUIRE_INFO"}
  /\ Start(c, "request", "CANCELLED", NoStep)

Move(c, point) == call' = [call EXCEPT ![c].at = point]
Finish(c) == call' = [call EXCEPT ![c] = Idle]

WriteStep(c) ==
  LET v == call[c].verdict IN
  /\ call[c].at = "step"
  /\ step' = [step EXCEPT ![call[c].step] = v]
  /\ IF v = "APPROVED"
       THEN Move(c, "resolve") /\ approvedOnce' = approvedOnce \union {call[c].step}
       ELSE Move(c, "request") /\ UNCHANGED approvedOnce
  /\ UNCHANGED <<request, emitted, cut>>

PendingSteps == {s \in Present : step[s] = "PENDING"}
ApprovedSteps == {s \in Present : step[s] = "APPROVED"}

\* Faulty: no step is pending, so all are taken to be approved.
NonePending == PendingSteps = {}

AllApproved == PendingSteps = {} /\ ApprovedSteps = Present

\* Faulty: the approver of a step resolves the request only if the step was
\* the only one.
ResolveSingle(c) ==
  /\ call[c].at = "resolve"
  /\ IF AllApproved /\ Present = {call[c].step} THEN Move(c, "request") ELSE Finish(c)
  /\ UNCHANGED <<request, step, emitted, history>>

\* checkRequestResolution reads the steps, and not the request's status.
CheckRequestResolution(c) ==
  /\ call[c].at = "resolve"
  /\ IF AllApproved THEN Move(c, "request") ELSE Finish(c)
  /\ UNCHANGED <<request, step, emitted, history>>

WriteRequest(c) ==
  /\ call[c].at = "request"
  /\ request' = call[c].verdict
  /\ IF call[c].verdict = "REQUIRE_INFO" THEN Finish(c) ELSE Move(c, "announce")
  /\ UNCHANGED <<step, emitted, history>>

\* approval:request:resolved
Announce(c) ==
  LET v == call[c].verdict IN
  /\ call[c].at = "announce"
  /\ resolutions' = resolutions \union {v}
  /\ IF v = "CANCELLED" THEN Finish(c) ELSE Move(c, "publish")
  /\ UNCHANGED <<request, step, published, history>>

\* approval:approved, on behalf of the first step with an approver, or
\* approval:rejected.
Publish(c) ==
  LET v == call[c].verdict IN
  /\ call[c].at = "publish"
  /\ IF v = "APPROVED" => Present \intersect Named # {}
       THEN published' = published \union {v}
       ELSE UNCHANGED published
  /\ Finish(c)
  /\ UNCHANGED <<request, step, resolutions, history>>

\* A database call throws, or the process stops.
Fail(c) ==
  /\ call[c].at # "idle"
  /\ cut' = cut \union {call[c].at}
  /\ Finish(c)
  /\ UNCHANGED <<request, step, emitted, approvedOnce>>

-----------------------------------------------------------------------------

Continue(c) ==
  WriteStep(c) \/ CheckRequestResolution(c) \/ WriteRequest(c) \/ Announce(c) \/ Publish(c)

Next ==
  \/ \E T \in SUBSET Steps : CreateRequest(T)
  \/ \E c \in Calls, s \in Steps, v \in StepVerdicts : Begin(c, s, v)
  \/ \E c \in Calls : BeginCancel(c) \/ Continue(c) \/ Fail(c)

Spec == Init /\ [][Next]_vars

-----------------------------------------------------------------------------
(* Properties *)

\* Statuses and local variables have values of their kinds; a request has
\* steps as soon as it exists, and none before.
TypeOK ==
  /\ request \in RequestStatuses \union {Absent}
  /\ step \in [Steps -> StepVerdicts \union {"PENDING", Absent}]
  /\ call \in [Calls -> CallState]
  /\ resolutions \subseteq Resolved
  /\ published \subseteq {"APPROVED", "REJECTED"}
  /\ approvedOnce \subseteq Present
  /\ cut \subseteq Points
  /\ request = Absent <=> Present = {}

\* However approvals, rejections and cancellations race, a request is only
\* approved, and only announced or published as approved, when each of its
\* steps has been approved.
ApprovedByAll ==
  (request = "APPROVED" \/ "APPROVED" \in resolutions \union published)
    => approvedOnce = Present

\* Whoever decides the last step settles the request, also when the last
\* steps are decided at once: while no call is running, and none was lost
\* between its two writes, a PENDING request still has a step to decide, and
\* none that was refused.
PendingHasWork ==
  /\ \A c \in Calls : call[c] = Idle
  /\ cut \intersect {"resolve", "request"} = {}
  /\ request = "PENDING"
  => /\ PendingSteps # {}
     /\ Present = PendingSteps \union ApprovedSteps

\* A resolved request changes only through calls that began before it was
\* resolved, or through requestInfo, the one call that does not check; and
\* one that waits for information is left only by its cancellation, or by
\* calls that had found it PENDING: no call resumes it.
MayOverwrite(c) ==
  /\ call[c].at = "request"
  /\ call[c].began \notin Resolved \/ call[c].verdict = "REQUIRE_INFO"

MayLeave(c) ==
  /\ call[c].at = "request"
  /\ call[c].began = "PENDING" \/ call[c].verdict = "CANCELLED"

ResolvedChangesOnlyInRaces ==
  [][/\ request \in Resolved /\ request' # request => \E c \in Calls : MayOverwrite(c)
     /\ request = "REQUIRE_INFO" /\ request' # request => \E c \in Calls : MayLeave(c)]_vars

\* BOT_ADMIN_INTEGRATION_AUDIT.md:143: "[all steps approved] -> Event:
\* approval:approved", for every request that was approved with no fault.
ApprovedIsPublished ==
  /\ \A c \in Calls : call[c] = Idle
  /\ cut = {}
  /\ request = "APPROVED"
  => "APPROVED" \in published
=============================================================================
