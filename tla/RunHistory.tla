----------------------------- MODULE RunHistory -----------------------------
(***************************************************************************)
(* What the engine promises of the history of a run, whoever writes it and *)
(* however the writers interleave or die: an event is only ever recorded   *)
(* when the events before it justify it under the workflow definition.     *)
(* Steps may be executed more than once (tasks are delivered at least      *)
(* once), so the promise speaks of which events there are, not how many.   *)
(***************************************************************************)
EXTENDS WorkflowRun

VARIABLE history   \* the set of events recorded so far

Has(type) == \E e \in history : e.type = type
HasFor(type, s) == \E e \in history : e.type = type /\ e.step = s

\* Step s has been reached: as the first step, or after a completed or a failed one.
Reached(s) ==
    \/ s = Initial /\ Has("RUN_STARTED")
    \/ \E p \in Steps : NextStep[p] = s /\ HasFor("STEP_COMPLETED", p)
    \/ \E p \in Steps : OnError[p] = s /\ HasFor("STEP_FAILED", p) /\ HasFor("RUN_FAILING", p)

\* At time t the SLA i is overdue.
Overdue(i, t) == \E x \in history : x.type = "TICKET_CREATED" /\ t > x.at + SLAs[i].duration

\* Step s is the escalation of an SLA that is overdue.
Escalated(s, t) == \E i \in DOMAIN SLAs : SLAs[i].onBreach = s /\ Overdue(i, t)

\* A failed attempt is retried, if the policy allows more than one attempt.
Retried(s) ==
    Kind[s] = "task" /\ MaxAttempts[s] > 1 /\ HasFor("STEP_STARTED", s) /\ HasFor("STEP_FAILED", s)

Justified(e) ==
    LET s == e.step IN
    CASE e.type = "TICKET_CREATED"  -> history = {}
      [] e.type = "RUN_STARTED"     -> Has("TICKET_CREATED") /\ ~Has("RUN_STARTED")
      [] e.type = "TICKET_ASSIGNED" -> HasFor("STEP_SCHEDULED", Initial)
      [] e.type = "STEP_SCHEDULED"  ->
            /\ Reached(s) \/ Retried(s) \/ Escalated(s, e.at)
            /\ Kind[s] = "approval" => HasFor("APPROVAL_REQUESTED", s)
      [] e.type \in {"STEP_STARTED", "STEP_FAILED"} ->
            Kind[s] = "task" /\ (Reached(s) \/ HasFor("STEP_SCHEDULED", s))
      [] e.type = "STEP_COMPLETED"  ->
            HasFor([task |-> "STEP_STARTED", delay |-> "TIMER_FIRED",
                    approval |-> "APPROVAL_GRANTED"][Kind[s]], s)
      [] e.type = "TIMER_FIRED"     ->
            \E x \in history : /\ x.type = "STEP_SCHEDULED" /\ x.step = s
                               /\ e.at >= x.at + DelayOf[s]
      [] e.type = "APPROVAL_REQUESTED" ->
            IF e.index = 0 THEN Reached(s) \/ Escalated(s, e.at)
            ELSE /\ HasFor("APPROVAL_GRANTED", s) /\ e.index < Len(Chain[s])
                 /\ \E x \in history : x.type = e.type /\ x.step = s /\ x.index = e.index - 1
      [] e.type \in {"APPROVAL_GRANTED", "APPROVAL_REJECTED"} ->
            /\ Authorized(s, e.index, e.by)
            /\ \E x \in history : x.type = "APPROVAL_REQUESTED" /\ x.step = s /\ x.index = e.index
      [] e.type = "SLA_BREACHED"    -> Overdue(e.index, e.at)
      [] e.type = "RUN_FAILING"     -> HasFor("STEP_FAILED", s)
      [] e.type = "RUN_COMPLETED"   -> NextStep[s] = NoStep /\ HasFor("STEP_COMPLETED", s)
      [] e.type = "RUN_FAILED"      -> Has("RUN_FAILING") \/ Has("APPROVAL_REJECTED")
      [] e.type = "RUN_CANCELLED"   -> Has("TICKET_CREATED")

HistoryInit == history = {}

HistoryNext ==
    \E e \in history' \ history : Justified(e) /\ history' = history \union {e}

HistorySpec == HistoryInit /\ [][HistoryNext]_history
=============================================================================
