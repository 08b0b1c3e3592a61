---------------------------- MODULE WorkflowRun ----------------------------
(***************************************************************************)
(* A workflow definition (engine/model.go), the events of one run of it,   *)
(* and the state the engine derives from them: applyOne of                 *)
(* engine/engine.go, which GetRun folds over the run's history.            *)
(*                                                                         *)
(* Abstracted: titles, fields, reasons, comments and task outputs, which   *)
(* no transition reads; UpdatedAt and Current, which are reported to       *)
(* clients only; case folding of approver names.                           *)
(***************************************************************************)
EXTENDS Integers, Sequences

CONSTANTS
    Steps,        \* the step names of the workflow
    NoStep,       \* the empty step name: "no further step"
    Initial,      \* WorkflowDef.Initial
    Kind,         \* StepDef.Kind
    NextStep,     \* StepDef.Next
    OnError,      \* StepDef.OnError
    MaxAttempts,  \* StepDef.Retry.MaxAttempts
    RetryDelay,   \* StepDef.Retry.Delay
    DelayOf,      \* StepDef.Delay.Duration
    People,       \* users and roles
    Nobody,       \* the empty user
    Chain,        \* StepDef.Approval.Chain: the links [user, role] in order
    SLAs,         \* WorkflowDef.SLAs: records [duration, onBreach] in order
    AttemptCap    \* bound: StepState.Attempt is counted up to this value

NoTime == -1      \* a nil time.Time: no due date, no wait

Link == [user : People \union {Nobody}, role : People \union {Nobody}]

\* What RegisterWorkflow and dsl.Compile guarantee of a deployed workflow.
ASSUME WorkflowAssumption ==
    /\ NoStep \notin Steps /\ Nobody \notin People
    /\ Initial \in Steps
    /\ Kind \in [Steps -> {"task", "approval", "delay"}]
    /\ NextStep \in [Steps -> Steps \union {NoStep}]
    /\ OnError \in [Steps -> Steps \union {NoStep}]
    /\ MaxAttempts \in [Steps -> Nat]
    /\ RetryDelay \in [Steps -> Nat]
    /\ DelayOf \in [Steps -> Nat]
    /\ Chain \in [Steps -> Seq(Link)]
    /\ \A s \in Steps : Kind[s] = "approval" => Chain[s] # <<>>
    /\ SLAs \in Seq([duration : Nat, onBreach : Steps \union {NoStep}])

\* handleTaskFailure compares Attempt with MaxAttempts only, so a count that stops
\* above every MaxAttempts answers the comparison as the unbounded one does.
ASSUME AttemptCapAssumption ==
    AttemptCap \in Nat \ {0} /\ \A s \in Steps : MaxAttempts[s] <= AttemptCap

-----------------------------------------------------------------------------
EventTypes == {"TICKET_CREATED", "RUN_STARTED", "TICKET_ASSIGNED",
               "STEP_SCHEDULED", "STEP_STARTED", "STEP_COMPLETED", "STEP_FAILED",
               "TIMER_FIRED", "APPROVAL_REQUESTED", "APPROVAL_GRANTED",
               "APPROVAL_REJECTED", "SLA_BREACHED", "RUN_FAILING",
               "RUN_COMPLETED", "RUN_FAILED", "RUN_CANCELLED"}

\* index is the chain index of an approval event and the SLA of a breach; wait is
\* DueAt - At of a STEP_SCHEDULED; at is the engine clock when it was appended.
Event == [type : EventTypes, step : Steps \union {NoStep}, index : Nat,
          by : People \union {Nobody}, wait : Nat \union {NoTime}, at : Nat]

StepEvent(type, s) ==
    [type |-> type, step |-> s, index |-> 0, by |-> Nobody, wait |-> NoTime, at |-> 0]

RunEvent(type) == StepEvent(type, NoStep)

Scheduled(s, wait) == [StepEvent("STEP_SCHEDULED", s) EXCEPT !.wait = wait]

Requested(s, i) == [StepEvent("APPROVAL_REQUESTED", s) EXCEPT !.index = i]

Decided(type, s, i, by) == [StepEvent(type, s) EXCEPT !.index = i, !.by = by]

Breached(i) == [RunEvent("SLA_BREACHED") EXCEPT !.index = i]

-----------------------------------------------------------------------------
StepStatuses == {"ABSENT", "PENDING", "RUNNING", "WAITING", "COMPLETED", "FAILED"}
ApprovalStatuses == {"none", "pending", "granted", "rejected"}
RunStatuses == {"NONE", "ACTIVE", "COMPLETED", "FAILED", "CANCELLED"}
TerminalStatuses == {"COMPLETED", "FAILED", "CANCELLED"}

\* "ABSENT" is a name missing from run.Steps, approval "none" a nil *ApprovalState.
StepState == [status : StepStatuses, attempt : 0 .. AttemptCap, dueAt : Nat \union {NoTime},
              approval : ApprovalStatuses, index : Nat, decidedBy : People \union {Nobody}]

Run == [status : RunStatuses, failed : BOOLEAN, createdAt : Nat,
        steps : [Steps -> StepState]]

NewStep == [status |-> "ABSENT", attempt |-> 0, dueAt |-> NoTime,
            approval |-> "none", index |-> 0, decidedBy |-> Nobody]

NewRun == [status |-> "NONE", failed |-> FALSE, createdAt |-> 0,
           steps |-> [s \in Steps |-> NewStep]]

Terminal(r) == r.status \in TerminalStatuses

\* The part of applyOne that updates the step an event names.  A DueAt is set by an
\* event that carries one and never cleared; a grant marks whichever link is
\* current, not the one the event names.  (A decision is only appended for a step
\* whose approval state exists, so the nil checks of applyOne always succeed.)
applyStep(st, e) ==
    CASE e.type = "STEP_SCHEDULED" ->
            [st EXCEPT !.status = IF Kind[e.step] = "task" THEN "PENDING" ELSE "WAITING",
                       !.dueAt  = IF e.wait = NoTime THEN @ ELSE e.at + e.wait]
      [] e.type = "STEP_STARTED" ->
            [st EXCEPT !.status = "RUNNING",
                       !.attempt = IF @ < AttemptCap THEN @ + 1 ELSE @]
      [] e.type = "STEP_COMPLETED" -> [st EXCEPT !.status = "COMPLETED"]
      [] e.type = "STEP_FAILED" -> [st EXCEPT !.status = "FAILED"]
      [] e.type = "APPROVAL_REQUESTED" ->
            [st EXCEPT !.status = "WAITING", !.approval = "pending", !.index = e.index]
      [] e.type = "APPROVAL_GRANTED" ->
            [st EXCEPT !.approval = "granted", !.decidedBy = e.by]
      [] e.type = "APPROVAL_REJECTED" ->
            [st EXCEPT !.status = "FAILED", !.approval = "rejected", !.decidedBy = e.by]
      [] OTHER -> st

\* Mutant of ensureStep: the step is created with the run's status.
ensureStepActive(st) == IF st.status = "ABSENT" THEN [st EXCEPT !.status = "ACTIVE"] ELSE st

\* ensureStep(first, PENDING) of RUN_STARTED: creates the step, changes no other.
ensureStep(st) == IF st.status = "ABSENT" THEN [st EXCEPT !.status = "PENDING"] ELSE st

applyOne(r, e) ==
    CASE e.type = "TICKET_CREATED" -> [r EXCEPT !.createdAt = e.at]
      [] e.type = "RUN_STARTED" ->
            [r EXCEPT !.status = "ACTIVE", !.steps[Initial] = ensureStep(@)]
      [] e.type = "RUN_COMPLETED" -> [r EXCEPT !.status = "COMPLETED"]
      [] e.type = "RUN_FAILED"    -> [r EXCEPT !.status = "FAILED", !.failed = TRUE]
      [] e.type = "RUN_CANCELLED" -> [r EXCEPT !.status = "CANCELLED"]
      [] e.type = "RUN_FAILING"   -> [r EXCEPT !.failed = TRUE]
      [] OTHER -> IF e.step \in Steps THEN [r EXCEPT !.steps[e.step] = applyStep(@, e)] ELSE r

\* authorizeApprover: the link's user if it names one, else its role.
Authorized(s, i, by) ==
    /\ i < Len(Chain[s]) /\ by # Nobody
    /\ LET link == Chain[s][i + 1]
       IN  by = (IF link.user # Nobody THEN link.user ELSE link.role)
=============================================================================
