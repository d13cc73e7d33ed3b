-------------------------- MODULE Approvals_proofs --------------------------
(***************************************************************************)
(* Proofs about Approvals, for any set of steps and any number of calls at *)
(* the same time.                                                          *)
(***************************************************************************)
EXTENDS Approvals, TLAPS

\* What a call knows at each point: what it checked, and, once it carries an
\* approval of the request, that each step has been approved.
CallOK(c) ==
  /\ call[c].at = "idle" => call[c] = Idle
  /\ call[c].at # "idle" => request # Absent
  /\ call[c].at = "step" => call[c].verdict \in StepVerdicts /\ call[c].step \in Present
  /\ call[c].at = "resolve" => call[c].verdict = "APPROVED"
  /\ call[c].at = "request" => call[c].verdict \in Verdicts
  /\ call[c].at = "announce" => call[c].verdict \in Resolved
  /\ call[c].at = "publish" => call[c].verdict \in {"APPROVED", "REJECTED"}
  /\ call[c].at # "idle" /\ call[c].verdict # "REQUIRE_INFO" => call[c].began \notin Resolved
  /\ call[c].at # "idle" /\ call[c].verdict \in {"APPROVED", "REJECTED"} => call[c].began = "PENDING"
  /\ call[c].at \in {"request", "announce", "publish"} /\ call[c].verdict = "APPROVED"
       => approvedOnce = Present

CallsOK == \A c \in Calls : CallOK(c)

ApprovalsRecorded == ApprovedSteps \subseteq approvedOnce

\* A PENDING request none of whose calls was lost between its two writes.
Unhindered == request = "PENDING" /\ cut \intersect {"resolve", "request"} = {}

\* A refusal of a step is followed by a write of the request ...
RefusalGoesOn ==
  Unhindered /\ (\E s \in Present : step[s] \in {"REJECTED", "REQUIRE_INFO"})
    => \E c \in Calls : call[c].at = "request"

\* ... and so is the approval of the last step.
ApprovalGoesOn ==
  Unhindered /\ AllApproved => \E c \in Calls : call[c].at \in {"resolve", "request"}

\* What is emitted is about a request that exists.
NothingTooEarly == request = Absent => resolutions = {} /\ published = {}

IInv ==
  /\ TypeOK
  /\ NothingTooEarly
  /\ CallsOK
  /\ ApprovalsRecorded
  /\ ApprovedByAll
  /\ RefusalGoesOn
  /\ ApprovalGoesOn

\* There is no request at first, and no call.
THEOREM InitIInv == Init => IInv
<1> SUFFICES ASSUME Init PROVE IInv
  OBVIOUS
<1>1. Present = {}
  BY DEF Init, Present
<1>2. TypeOK
  BY <1>1 DEF Init, TypeOK, CallState, Idle, RequestStatuses, Points
<1>3. CallsOK
  BY DEF Init, CallsOK, CallOK, Idle
<1>4. /\ NothingTooEarly /\ ApprovalsRecorded /\ ApprovedByAll
      /\ RefusalGoesOn /\ ApprovalGoesOn
  BY <1>1 DEF Init, NothingTooEarly, ApprovalsRecorded, ApprovedByAll, RefusalGoesOn, ApprovalGoesOn,
              Unhindered, ApprovedSteps, Absent
<1>5. QED BY <1>2, <1>3, <1>4 DEF IInv

-----------------------------------------------------------------------------
(* The calls *)

\* What moving a call to its next point changes.
LEMMA Moved ==
  ASSUME call \in [Calls -> CallState], NEW c \in Calls, NEW p \in Points, Move(c, p)
  PROVE  /\ call' \in [Calls -> CallState]
         /\ call'[c].at = p
         /\ call'[c].verdict = call[c].verdict
         /\ call'[c].step = call[c].step
         /\ call'[c].began = call[c].began
         /\ \A d \in Calls : d # c => call'[d] = call[d]
<1> DEFINE r == [call[c] EXCEPT !.at = p]
<1>1. r \in CallState /\ r.at = p /\ r.verdict = call[c].verdict
      /\ r.step = call[c].step /\ r.began = call[c].began
  BY DEF CallState
<1>2. call' = [call EXCEPT ![c] = r]
  BY DEF Move
<1> HIDE DEF r
<1>3. QED BY <1>1, <1>2

\* What ending a call changes.
LEMMA Finished ==
  ASSUME call \in [Calls -> CallState], NEW c \in Calls, Finish(c)
  PROVE  /\ call' \in [Calls -> CallState]
         /\ call'[c] = Idle
         /\ \A d \in Calls : d # c => call'[d] = call[d]
<1>1. Idle \in CallState
  BY DEF Idle, CallState, Points
<1>2. QED BY <1>1 DEF Finish

\* A step that leaves the columns alone keeps what the invariant says of the
\* calls that stay where they are.
LEMMA OthersKeep ==
  ASSUME CallsOK, NEW d \in Calls, call'[d] = call[d],
         Present' = Present, request # Absent => request' # Absent,
         approvedOnce \subseteq approvedOnce', approvedOnce' \subseteq Present
  PROVE  CallOK(d)'
BY DEF CallsOK, CallOK

-----------------------------------------------------------------------------
(* The actions *)

\* A new request has no step that is decided.
LEMMA CreateIInv == ASSUME IInv, NEW T \in SUBSET Steps, CreateRequest(T) PROVE IInv'
<1> USE DEF IInv, CreateRequest, emitted, history
<1>1. Present' = T /\ T # {} /\ Present = {} /\ approvedOnce = {}
  BY DEF Present, TypeOK, Absent
<1>2. TypeOK'
  BY <1>1 DEF TypeOK, RequestStatuses, Absent
<1>3. CallsOK'
  <2>1. \A c \in Calls : call'[c] = Idle /\ Idle.at = "idle"
    BY DEF CallsOK, CallOK, TypeOK, CallState, Idle
  <2>2. QED BY <2>1 DEF CallsOK, CallOK
<1>4. \A s \in Present' : step'[s] = "PENDING"
  BY <1>1
<1>5. ApprovalsRecorded' /\ RefusalGoesOn' /\ ApprovalGoesOn'
  BY <1>1, <1>4 DEF ApprovalsRecorded, RefusalGoesOn, ApprovalGoesOn, ApprovedSteps,
                    PendingSteps, AllApproved
<1>6. ApprovedByAll' /\ NothingTooEarly'
  BY DEF ApprovedByAll, NothingTooEarly, Absent
<1>7. QED BY <1>2, <1>3, <1>5, <1>6

\* A call starts with what it has checked.
LEMMA StartIInv ==
  ASSUME IInv, NEW c \in Calls, NEW p \in {"step", "request"}, NEW v \in Verdicts,
         NEW s \in Steps \union {NoStep}, Start(c, p, v, s),
         request # Absent,
         v # "REQUIRE_INFO" => request \notin Resolved,
         v \in {"APPROVED", "REJECTED"} => request = "PENDING",
         p = "step" => v \in StepVerdicts /\ s \in Present,
         p = "request" => v = "CANCELLED"
  PROVE  IInv'
<1> USE DEF IInv, emitted, history
<1> DEFINE r == [at |-> p, verdict |-> v, step |-> s, began |-> request]
<1>1. r \in CallState /\ r.at = p /\ r.verdict = v /\ r.step = s /\ r.began = request
  BY DEF CallState, TypeOK, Points
<1>2. call[c] = Idle /\ call' = [call EXCEPT ![c] = r]
      /\ UNCHANGED <<request, step, resolutions, published, approvedOnce, cut>>
  BY DEF Start
<1> HIDE DEF r
<1>3. Present' = Present /\ ApprovedSteps' = ApprovedSteps /\ PendingSteps' = PendingSteps
  BY <1>2 DEF Present, ApprovedSteps, PendingSteps
<1>4. call'[c] = r /\ (\A d \in Calls : d # c => call'[d] = call[d])
  BY <1>1, <1>2 DEF TypeOK
<1>5. TypeOK'
  BY <1>1, <1>2, <1>3 DEF TypeOK
<1>6. CallsOK'
  <2>1. CallOK(c)'
    BY <1>1, <1>2, <1>3, <1>4 DEF CallOK
  <2>2. ASSUME NEW d \in Calls, d # c PROVE CallOK(d)'
    BY <2>2, <1>2, <1>3, <1>4, OthersKeep DEF TypeOK
  <2>3. QED BY <2>1, <2>2 DEF CallsOK
<1>7. NothingTooEarly' /\ ApprovalsRecorded' /\ ApprovedByAll'
  BY <1>2, <1>3 DEF NothingTooEarly, ApprovalsRecorded, ApprovedByAll
<1>8. \A d \in Calls : call[d].at \in {"resolve", "request"} => call'[d] = call[d]
  BY <1>2, <1>4 DEF Idle
<1>9. RefusalGoesOn' /\ ApprovalGoesOn'
  BY <1>2, <1>3, <1>8 DEF RefusalGoesOn, ApprovalGoesOn, Unhindered, AllApproved
<1>10. QED BY <1>5, <1>6, <1>7, <1>9

\* approveStep, rejectStep, requestInfo, up to their first write.
LEMMA BeginIInv ==
  ASSUME IInv, NEW c \in Calls, NEW s \in Steps, NEW v \in StepVerdicts, Begin(c, s, v)
  PROVE  IInv'
<1>1. s \in Present
  BY DEF Begin, Present, Absent
<1>2. request # Absent
  BY <1>1 DEF IInv, TypeOK
<1>3. v # "REQUIRE_INFO" => request \notin Resolved
  BY DEF Begin, Resolved
<1>4. QED BY <1>1, <1>2, <1>3, StartIInv DEF Begin, Verdicts

\* cancelRequest, up to its write.
LEMMA BeginCancelIInv == ASSUME IInv, NEW c \in Calls, BeginCancel(c) PROVE IInv'
<1>1. request # Absent /\ request \notin Resolved
  BY DEF BeginCancel, Absent, Resolved
<1>2. QED BY <1>1, StartIInv DEF BeginCancel, Verdicts

\* The decision of a step: an approval is recorded, a refusal is followed by
\* the write of the request, and a call at "resolve" follows the approval.
LEMMA WriteStepIInv == ASSUME IInv, NEW c \in Calls, WriteStep(c) PROVE IInv'
<1> USE DEF IInv, emitted
<1> DEFINE v == call[c].verdict
           s == call[c].step
<1>1. /\ call[c].at = "step" /\ v \in StepVerdicts /\ s \in Present /\ s \in Steps
      /\ request # Absent
      /\ v # "REQUIRE_INFO" => call[c].began \notin Resolved
      /\ v \in {"APPROVED", "REJECTED"} => call[c].began = "PENDING"
  BY DEF WriteStep, CallsOK, CallOK, Present
<1>2. UNCHANGED <<request, resolutions, published, cut>>
  BY DEF WriteStep
<1>3. step' = [step EXCEPT ![s] = v]
  BY DEF WriteStep
<1>4. Present' = Present
  BY <1>1, <1>3 DEF Present, TypeOK, StepVerdicts, Absent
<1>5. /\ v = "APPROVED" => Move(c, "resolve") /\ approvedOnce' = approvedOnce \union {s}
      /\ v # "APPROVED" => Move(c, "request") /\ approvedOnce' = approvedOnce
  BY DEF WriteStep
<1>6. approvedOnce \subseteq approvedOnce' /\ approvedOnce' \subseteq Present
  BY <1>1, <1>5 DEF TypeOK
<1>7. /\ call' \in [Calls -> CallState]
      /\ v = "APPROVED" => call'[c].at = "resolve"
      /\ v # "APPROVED" => call'[c].at = "request"
      /\ call'[c].verdict = v /\ call'[c].began = call[c].began
      /\ \A d \in Calls : d # c => call'[d] = call[d]
  BY <1>5, Moved DEF TypeOK, Points
<1>8. \A t \in Steps : step'[t] = IF t = s THEN v ELSE step[t]
  BY <1>1, <1>3 DEF TypeOK
<1> HIDE DEF v, s
<1>9. TypeOK'
  <2>1. step' \in [Steps -> StepVerdicts \union {"PENDING", Absent}]
    BY <1>1, <1>3 DEF TypeOK
  <2>2. QED BY <2>1, <1>2, <1>4, <1>6, <1>7 DEF TypeOK
<1>10. CallsOK'
  <2>1. CallOK(c)'
    BY <1>1, <1>2, <1>7 DEF CallOK, Verdicts
  <2>2. ASSUME NEW d \in Calls, d # c PROVE CallOK(d)'
    BY <2>2, <1>2, <1>4, <1>6, <1>7, OthersKeep
  <2>3. QED BY <2>1, <2>2 DEF CallsOK
<1>11. ApprovalsRecorded'
  BY <1>1, <1>4, <1>5, <1>6, <1>8 DEF ApprovalsRecorded, ApprovedSteps, Present
<1>12. ApprovedByAll' /\ NothingTooEarly'
  BY <1>2, <1>4, <1>6 DEF ApprovedByAll, NothingTooEarly
<1>13. RefusalGoesOn'
  <2>1. CASE v = "APPROVED"
    <3>1. \A t \in Present : step'[t] \in {"REJECTED", "REQUIRE_INFO"}
            => step[t] \in {"REJECTED", "REQUIRE_INFO"}
      BY <2>1, <1>8 DEF Present
    <3>2. \A d \in Calls : call[d].at = "request" => call'[d].at = "request"
      BY <1>1, <1>7
    <3>3. QED BY <3>1, <3>2, <1>2, <1>4 DEF RefusalGoesOn, Unhindered
  <2>2. CASE v # "APPROVED"
    BY <2>2, <1>7 DEF RefusalGoesOn
  <2>3. QED BY <2>1, <2>2
<1>14. ApprovalGoesOn'
  BY <1>7 DEF ApprovalGoesOn
<1>15. QED BY <1>9, <1>10, <1>11, <1>12, <1>13, <1>14

\* A call that finds all steps approved goes on to say so.
LEMMA ResolveIInv == ASSUME IInv, NEW c \in Calls, CheckRequestResolution(c) PROVE IInv'
<1> USE DEF IInv, CheckRequestResolution, emitted, history
<1>1. UNCHANGED <<request, step, resolutions, published, approvedOnce, cut>>
  OBVIOUS
<1>2. Present' = Present /\ ApprovedSteps' = ApprovedSteps /\ PendingSteps' = PendingSteps
  BY <1>1 DEF Present, ApprovedSteps, PendingSteps
<1>3. call[c].at = "resolve" /\ call[c].verdict = "APPROVED" /\ request # Absent
      /\ call[c].began \notin Resolved /\ call[c].began = "PENDING"
  BY DEF CallsOK, CallOK
<1>4. /\ call' \in [Calls -> CallState]
      /\ \A d \in Calls : d # c => call'[d] = call[d]
      /\ \/ ~AllApproved /\ call'[c] = Idle
         \/ /\ AllApproved /\ call'[c].at = "request"
            /\ call'[c].verdict = "APPROVED" /\ call'[c].began \notin Resolved /\ call'[c].began = "PENDING"
  BY <1>3, Moved, Finished DEF TypeOK, Points
<1>5. AllApproved => approvedOnce = Present
  BY DEF AllApproved, ApprovalsRecorded, TypeOK
<1>6. TypeOK'
  BY <1>1, <1>2, <1>4 DEF TypeOK
<1>7. CallsOK'
  <2>1. CallOK(c)'
    BY <1>1, <1>2, <1>3, <1>4, <1>5 DEF CallOK, Idle, Verdicts, StepVerdicts
  <2>2. ASSUME NEW d \in Calls, d # c PROVE CallOK(d)'
    BY <2>2, <1>1, <1>2, <1>4, OthersKeep DEF TypeOK
  <2>3. QED BY <2>1, <2>2 DEF CallsOK
<1>8. ApprovalsRecorded' /\ ApprovedByAll' /\ NothingTooEarly'
  BY <1>1, <1>2 DEF ApprovalsRecorded, ApprovedByAll, NothingTooEarly
<1>9. RefusalGoesOn'
  <2>1. \A d \in Calls : call[d].at = "request" => call'[d].at = "request"
    BY <1>3, <1>4
  <2>2. QED BY <2>1, <1>1, <1>2 DEF RefusalGoesOn, Unhindered
<1>10. ApprovalGoesOn'
  BY <1>1, <1>2, <1>4 DEF ApprovalGoesOn, Unhindered, AllApproved
<1>11. QED BY <1>6, <1>7, <1>8, <1>9, <1>10

\* The write of the request: it leaves PENDING for good.
LEMMA WriteRequestIInv == ASSUME IInv, NEW c \in Calls, WriteRequest(c) PROVE IInv'
<1> USE DEF IInv, WriteRequest, emitted, history
<1>1. UNCHANGED <<step, resolutions, published, approvedOnce, cut>>
  OBVIOUS
<1>2. Present' = Present /\ ApprovedSteps' = ApprovedSteps
  BY <1>1 DEF Present, ApprovedSteps
<1>3. /\ call[c].at = "request" /\ call[c].verdict \in Verdicts /\ request # Absent
      /\ call[c].verdict # "REQUIRE_INFO" => call[c].began \notin Resolved
      /\ call[c].verdict \in {"APPROVED", "REJECTED"} => call[c].began = "PENDING"
      /\ call[c].verdict = "APPROVED" => approvedOnce = Present
  BY DEF CallsOK, CallOK
<1>4. request' = call[c].verdict /\ request' \in RequestStatuses
      /\ request' # "PENDING" /\ request' # Absent
  BY <1>3 DEF Verdicts, StepVerdicts, RequestStatuses, Absent
<1>5. /\ call' \in [Calls -> CallState]
      /\ \A d \in Calls : d # c => call'[d] = call[d]
      /\ \/ call[c].verdict = "REQUIRE_INFO" /\ call'[c] = Idle
         \/ /\ call[c].verdict # "REQUIRE_INFO" /\ call'[c].at = "announce"
            /\ call'[c].verdict = call[c].verdict /\ call'[c].began = call[c].began
  BY Moved, Finished DEF TypeOK, Points
<1>6. Present # {}
  BY <1>3 DEF TypeOK
<1>7. TypeOK'
  BY <1>1, <1>2, <1>4, <1>5, <1>6 DEF TypeOK
<1>8. CallsOK'
  <2>1. CallOK(c)'
    BY <1>1, <1>2, <1>3, <1>4, <1>5 DEF CallOK, Idle, Verdicts, StepVerdicts, Resolved
  <2>2. ASSUME NEW d \in Calls, d # c PROVE CallOK(d)'
    BY <2>2, <1>1, <1>2, <1>4, <1>5, OthersKeep DEF TypeOK
  <2>3. QED BY <2>1, <2>2 DEF CallsOK
<1>9. ApprovalsRecorded' /\ ApprovedByAll' /\ NothingTooEarly'
  BY <1>1, <1>2, <1>3, <1>4 DEF ApprovalsRecorded, ApprovedByAll, NothingTooEarly
<1>10. RefusalGoesOn' /\ ApprovalGoesOn'
  BY <1>4 DEF RefusalGoesOn, ApprovalGoesOn, Unhindered
<1>11. QED BY <1>7, <1>8, <1>9, <1>10

\* An outcome is announced and published after it was written.
LEMMA EmitIInv ==
  ASSUME IInv, NEW c \in Calls, Announce(c) \/ Publish(c)
  PROVE  IInv'
<1> USE DEF IInv, history
<1> DEFINE v == call[c].verdict
<1>1. UNCHANGED <<request, step, approvedOnce, cut>>
  BY DEF Announce, Publish
<1>2. Present' = Present /\ ApprovedSteps' = ApprovedSteps /\ PendingSteps' = PendingSteps
  BY <1>1 DEF Present, ApprovedSteps, PendingSteps
<1>3. /\ call[c].at \in {"announce", "publish"} /\ request # Absent
      /\ call[c].at = "announce" => v \in Resolved
      /\ call[c].at = "publish" => v \in {"APPROVED", "REJECTED"}
      /\ v = "APPROVED" => approvedOnce = Present
      /\ v # "REQUIRE_INFO" => call[c].began \notin Resolved
      /\ v \in {"APPROVED", "REJECTED"} => call[c].began = "PENDING"
  BY DEF Announce, Publish, CallsOK, CallOK
<1>4. /\ resolutions' \subseteq Resolved
      /\ published' \subseteq {"APPROVED", "REJECTED"}
      /\ "APPROVED" \in resolutions' \union published'
           => "APPROVED" \in resolutions \union published \/ v = "APPROVED"
  BY <1>3 DEF Announce, Publish, TypeOK
<1>5. /\ call' \in [Calls -> CallState]
      /\ \A d \in Calls : d # c => call'[d] = call[d]
      /\ \/ call'[c] = Idle
         \/ /\ call[c].at = "announce" /\ call'[c].at = "publish" /\ v # "CANCELLED"
            /\ call'[c].verdict = v /\ call'[c].began = call[c].began
  BY Moved, Finished DEF Announce, Publish, TypeOK, Points
<1> HIDE DEF v
<1>6. TypeOK'
  BY <1>1, <1>2, <1>4, <1>5 DEF TypeOK
<1>7. CallsOK'
  <2>1. CallOK(c)'
    BY <1>1, <1>2, <1>3, <1>5 DEF CallOK, Idle, Resolved
  <2>2. ASSUME NEW d \in Calls, d # c PROVE CallOK(d)'
    BY <2>2, <1>1, <1>2, <1>5, OthersKeep DEF TypeOK
  <2>3. QED BY <2>1, <2>2 DEF CallsOK
<1>8. ApprovalsRecorded' /\ ApprovedByAll' /\ NothingTooEarly'
  BY <1>1, <1>2, <1>3, <1>4 DEF ApprovalsRecorded, ApprovedByAll, NothingTooEarly
<1>9. \A d \in Calls : call[d].at \in {"resolve", "request"} => call'[d] = call[d]
  BY <1>3, <1>5
<1>10. RefusalGoesOn' /\ ApprovalGoesOn'
  BY <1>1, <1>2, <1>9 DEF RefusalGoesOn, ApprovalGoesOn, Unhindered, AllApproved
<1>11. QED BY <1>6, <1>7, <1>8, <1>10

\* A lost call leaves a trace if the request depended on it.
LEMMA FailIInv == ASSUME IInv, NEW c \in Calls, Fail(c) PROVE IInv'
<1> USE DEF IInv, Fail, emitted
<1>1. UNCHANGED <<request, step, resolutions, published, approvedOnce>>
      /\ cut' = cut \union {call[c].at}
  OBVIOUS
<1>2. Present' = Present /\ ApprovedSteps' = ApprovedSteps /\ PendingSteps' = PendingSteps
  BY <1>1 DEF Present, ApprovedSteps, PendingSteps
<1>3. /\ call' \in [Calls -> CallState]
      /\ call'[c] = Idle
      /\ \A d \in Calls : d # c => call'[d] = call[d]
  BY Finished DEF TypeOK
<1>4. call[c].at \in Points
  BY DEF TypeOK, CallState
<1>5. TypeOK'
  BY <1>1, <1>2, <1>3, <1>4 DEF TypeOK
<1>6. CallsOK'
  <2>1. CallOK(c)'
    BY <1>3 DEF CallOK, Idle
  <2>2. ASSUME NEW d \in Calls, d # c PROVE CallOK(d)'
    BY <2>2, <1>1, <1>2, <1>3, OthersKeep DEF TypeOK
  <2>3. QED BY <2>1, <2>2 DEF CallsOK
<1>7. ApprovalsRecorded' /\ ApprovedByAll' /\ NothingTooEarly'
  BY <1>1, <1>2 DEF ApprovalsRecorded, ApprovedByAll, NothingTooEarly
<1>8. Unhindered' => Unhindered /\ call[c].at \notin {"resolve", "request"}
  BY <1>1 DEF Unhindered
<1>9. Unhindered' => \A d \in Calls :
        call[d].at \in {"resolve", "request"} => call'[d] = call[d]
  BY <1>3, <1>8
<1>10. RefusalGoesOn' /\ ApprovalGoesOn'
  BY <1>1, <1>2, <1>8, <1>9 DEF RefusalGoesOn, ApprovalGoesOn, AllApproved
<1>11. QED BY <1>5, <1>6, <1>7, <1>10

-----------------------------------------------------------------------------

\* Every step preserves the invariant.
LEMMA NextIInv == IInv /\ [Next]_vars => IInv'
<1> SUFFICES ASSUME IInv, [Next]_vars PROVE IInv'
  OBVIOUS
<1>1. CASE \E T \in SUBSET Steps : CreateRequest(T)
  BY <1>1, CreateIInv
<1>2. CASE \E c \in Calls, s \in Steps, v \in StepVerdicts : Begin(c, s, v)
  BY <1>2, BeginIInv
<1>3. ASSUME NEW c \in Calls, BeginCancel(c) \/ Continue(c) \/ Fail(c) PROVE IInv'
  BY <1>3, BeginCancelIInv, WriteStepIInv, ResolveIInv, WriteRequestIInv, EmitIInv, FailIInv
     DEF Continue
<1>4. CASE UNCHANGED vars
  BY <1>4 DEF vars, IInv, TypeOK, NothingTooEarly, CallsOK, CallOK, ApprovalsRecorded,
              ApprovedByAll, RefusalGoesOn, ApprovalGoesOn, Unhindered, AllApproved,
              ApprovedSteps, PendingSteps, Present
<1>5. QED BY <1>1, <1>2, <1>3, <1>4 DEF Next

\* The invariant holds in every reachable state.
THEOREM Invariance == Spec => []IInv
BY InitIInv, NextIInv, PTL DEF Spec

\* Every reachable state is well typed, and a request is never without steps.
THEOREM TypeCorrect == Spec => []TypeOK
<1>1. IInv => TypeOK
  BY DEF IInv
<1>2. QED BY <1>1, Invariance, PTL

\* No request is approved, announced or published as approved, before each of
\* its steps has been approved, however many calls race.
THEOREM ApprovalIsComplete == Spec => []ApprovedByAll
<1>1. IInv => ApprovedByAll
  BY DEF IInv
<1>2. QED BY <1>1, Invariance, PTL

\* No resolution is lost, however many approvers decide the last steps at once.
THEOREM NoLostResolution == Spec => []PendingHasWork
<1>1. ASSUME IInv PROVE PendingHasWork
  <2> SUFFICES ASSUME \A c \in Calls : call[c] = Idle, Unhindered
               PROVE  PendingSteps # {} /\ Present = PendingSteps \union ApprovedSteps
    BY DEF PendingHasWork, Unhindered
  <2>1. \A c \in Calls : call[c].at = "idle"
    BY DEF Idle
  <2>2. \A s \in Present : step[s] \in {"PENDING", "APPROVED"}
    BY <1>1, <2>1 DEF IInv, RefusalGoesOn, TypeOK, Present, StepVerdicts
  <2>3. Present = PendingSteps \union ApprovedSteps
    BY <2>2 DEF PendingSteps, ApprovedSteps
  <2>4. ~AllApproved
    BY <1>1, <2>1 DEF IInv, ApprovalGoesOn
  <2>5. QED BY <2>3, <2>4 DEF AllApproved
<1>2. QED BY <1>1, Invariance, PTL

\* A resolved request changes only in a race or through requestInfo.
THEOREM ResolutionIsRespected == Spec => ResolvedChangesOnlyInRaces
<1>1. ASSUME IInv, [Next]_vars, request \in Resolved \union {"REQUIRE_INFO"}, request' # request
      PROVE  \E c \in Calls : (request \in Resolved => MayOverwrite(c)) /\ (request = "REQUIRE_INFO" => MayLeave(c))
  <2>1. request # Absent
    BY <1>1 DEF Resolved, Absent
  <2>2. PICK c \in Calls : WriteRequest(c)
    BY <1>1, <2>1 DEF Next, vars, CreateRequest, Begin, BeginCancel, Start, Continue,
         WriteStep, CheckRequestResolution, Announce, Publish, Fail
  <2>3. call[c].at = "request" /\ call[c].verdict \in Verdicts /\ request' = call[c].verdict
    BY <1>1, <2>2 DEF WriteRequest, IInv, CallsOK, CallOK
  <2>4. request \in Resolved => MayOverwrite(c)
    BY <1>1, <2>3 DEF MayOverwrite, IInv, CallsOK, CallOK
  <2>5. request = "REQUIRE_INFO" => MayLeave(c)
    BY <1>1, <2>3 DEF MayLeave, IInv, CallsOK, CallOK, Verdicts, StepVerdicts
  <2>6. QED BY <2>4, <2>5
<1>2. IInv /\ [Next]_vars =>
        /\ request \in Resolved /\ request' # request => \E c \in Calls : MayOverwrite(c)
        /\ request = "REQUIRE_INFO" /\ request' # request => \E c \in Calls : MayLeave(c)
  BY <1>1
<1>3. QED BY <1>2, Invariance, PTL DEF Spec, ResolvedChangesOnlyInRaces
=============================================================================
