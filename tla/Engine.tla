------------------------------- MODULE Engine -------------------------------
(***************************************************************************)
(* The workflow engine (engine/engine.go, engine/sla.go) executing one     *)
(* run: the goroutines that act on it, the in-memory task channel between  *)
(* them and the event log they share.                                      *)
(*                                                                         *)
(* A goroutine is the list of what it still has to do, work[t].  Between   *)
(* two entries every other goroutine may act, so an entry is what the code *)
(* does between two accesses to shared state: one append to the log, one   *)
(* GetRun and the decisions taken on its result, one channel operation, one*)
(* call of a task handler.  What a function reads and uses later travels in*)
(* the entry, and may be stale by then.                                    *)
(*                                                                         *)
(* GetRun replays the whole history through applyOne.  The replay of       *)
(* history followed by one more event is applyOne of the replay, so the    *)
(* derived state `run' is kept up to date by each append.  `log' keeps     *)
(* which events were recorded, and when; the order is what EventLog is for.*)
(***************************************************************************)
EXTENDS WorkflowRun, FiniteSets

CONSTANTS
    Workers, Clients, Timer,  \* goroutines: WorkerPool.loop, API calls, timerLoop
    QueueCap,                 \* capacity of the task channel (1024 in the code)
    SweepBound,               \* bound: sweep and Recover run while fewer tasks are in flight
    Calls,                    \* the API calls clients make besides CreateTicket
    MaxTime,                  \* bound: the clock stops here
    FaultKinds, MaxFaults     \* which faults may happen, and how many in all

Threads == Workers \union Clients \union {Timer}

ASSUME EngineAssumption ==
    /\ Timer \notin Workers \union Clients /\ Workers \intersect Clients = {}
    /\ Calls \subseteq {"Approve", "Reject", "Cancel", "Recover"}
    /\ QueueCap \in Nat \ {0} /\ SweepBound \in Nat /\ MaxTime \in Nat
    /\ FaultKinds \subseteq {"crash", "disconnect", "dberror"} /\ MaxFaults \in Nat

VARIABLES
    log,       \* the events recorded for the run
    run,       \* what GetRun derives from them
    work,      \* work[t]: what goroutine t still has to do, first entry first
    queue,     \* WorkerPool.tasks
    now,       \* the engine clock
    handlers,  \* have the task handlers been registered since the process started?
    faults     \* number of faults so far

vars == <<log, run, work, queue, now, handlers, faults>>

-----------------------------------------------------------------------------
\* The entries of work.  failed is run.Failed as it was read and attempt the step's
\* attempts; todo of a scan holds the ready-looking steps with their due dates, todo of
\* approvals the granted links, todo of flag the SLAs to flag; active the steps that
\* were under way.
FlagLoop      == [op : {"flag"}, active : SUBSET Steps, todo : SUBSET (DOMAIN SLAs)]
ScanLoop      == [op : {"scan"}, failed : BOOLEAN,
                  todo : SUBSET [step : Steps, due : Nat \union {NoTime}]]
ApprovalsLoop == [op : {"approvals"}, failed : BOOLEAN,
                  todo : SUBSET [step : Steps, index : Nat]]

Instr ==
         [op : {"append"}, ev : Event]
  \union [op : {"dispatch"}]
  \union [op : {"checkSLA"}, active : SUBSET Steps]
  \union FlagLoop \union ScanLoop \union ApprovalsLoop
  \union [op : {"handler"}, failed : BOOLEAN, step : Steps, attempt : 0 .. AttemptCap]
  \union [op : {"granted"}, step : Steps]

\* A loop over what is left in todo.
Loop(i) == IF i.todo = {} THEN <<>> ELSE <<i>>

append(e) == [op |-> "append", ev |-> e]
GetRunAndDispatch == [op |-> "dispatch"]

\* Mutant of scheduleStep: (re)starts the run with the step.
scheduleStepRestarts(s) == <<append(RunEvent("RUN_STARTED")), append(Scheduled(s, NoTime))>>

\* scheduleStep: an approval's first link is requested before the step is scheduled.
scheduleStep(s) ==
    CASE Kind[s] = "approval" -> <<append(Requested(s, 0)), append(Scheduled(s, NoTime))>>
      [] Kind[s] = "delay"    -> <<append(Scheduled(s, DelayOf[s]))>>
      [] Kind[s] = "task"     -> <<append(Scheduled(s, NoTime))>>

\* Mutant of advance: Next and OnError are swapped.
advanceSwapped(failed, s, succeeded) ==
    LET next == IF succeeded THEN OnError[s] ELSE NextStep[s]
    IN  IF next = NoStep
        THEN <<append(StepEvent(IF succeeded THEN "RUN_COMPLETED" ELSE "RUN_FAILED", s))>>
        ELSE scheduleStep(next) \o <<GetRunAndDispatch>>

\* Mutant of advance: returns when there is no further step.
advanceForgetsEnd(failed, s, succeeded) ==
    LET next == IF succeeded THEN NextStep[s] ELSE OnError[s]
    IN  IF next = NoStep THEN <<>> ELSE scheduleStep(next) \o <<GetRunAndDispatch>>

\* advance, given run.Failed of the caller's copy of the run.
advance(failed, s, succeeded) ==
    LET next == IF succeeded THEN NextStep[s] ELSE OnError[s]
    IN  IF next = NoStep
        THEN <<append(StepEvent(IF succeeded /\ ~failed THEN "RUN_COMPLETED" ELSE "RUN_FAILED", s))>>
        ELSE scheduleStep(next) \o <<GetRunAndDispatch>>

failStep(failed, s) ==
    <<append(StepEvent("STEP_FAILED", s)), append(StepEvent("RUN_FAILING", s))>>
        \o advance(failed, s, FALSE)

\* Mutant of handleTaskFailure: the step is not rescheduled.
handleTaskFailureNoRetry(r, s) ==
    IF r.steps[s].attempt < MaxAttempts[s]
    THEN <<append(StepEvent("STEP_FAILED", s))>>
    ELSE failStep(r.failed, s)

\* Mutant of handleTaskFailure: counts retries, not attempts.
handleTaskFailureOffByOne(r, s) ==
    IF r.steps[s].attempt + 1 < MaxAttempts[s]
    THEN <<append(StepEvent("STEP_FAILED", s)), append(Scheduled(s, NoTime)), GetRunAndDispatch>>
    ELSE failStep(r.failed, s)

\* handleTaskFailure on the run r that was read after the handler returned.
handleTaskFailure(r, s) ==
    IF r.steps[s].attempt < (IF MaxAttempts[s] = 0 THEN 1 ELSE MaxAttempts[s])
    THEN <<append(StepEvent("STEP_FAILED", s)),
           append(Scheduled(s, IF RetryDelay[s] > 0 THEN RetryDelay[s] ELSE NoTime)),
           GetRunAndDispatch>>
    ELSE failStep(r.failed, s)

fireTimer(failed, s) ==
    <<append(StepEvent("TIMER_FIRED", s)), append(StepEvent("STEP_COMPLETED", s))>>
        \o advance(failed, s, TRUE)

\* Mutant of advanceApproval: forgets the last link.
advanceApprovalOffByOne(failed, s, i) ==
    IF i + 2 < Len(Chain[s])
    THEN <<append(Requested(s, i + 1))>>
    ELSE <<append(StepEvent("STEP_COMPLETED", s))>> \o advance(failed, s, TRUE)

\* advanceApproval of a granted link i.
advanceApproval(failed, s, i) ==
    IF i + 1 < Len(Chain[s])
    THEN <<append(Requested(s, i + 1))>>
    ELSE <<append(StepEvent("STEP_COMPLETED", s))>> \o advance(failed, s, TRUE)

\* The two loops of dispatch on a copy r of the run.  Whether a step is due is
\* decided when the loop reaches it.
ReadyTasks(r) == {s \in Steps : Kind[s] = "task" /\ r.steps[s].status = "PENDING"}
ArmedTimers(r) == {s \in Steps : /\ Kind[s] = "delay" /\ r.steps[s].status = "WAITING"
                                 /\ r.steps[s].dueAt # NoTime}
GrantedLinks(r) == {s \in Steps : /\ Kind[s] = "approval" /\ r.steps[s].status = "WAITING"
                                  /\ r.steps[s].approval = "granted"}
ActiveSteps(r) == {s \in Steps : r.steps[s].status \in {"PENDING", "RUNNING", "WAITING"}}

Scan(r, due) ==
    [op |-> "scan", failed |-> r.failed, todo |->
        {[step |-> s, due |-> due[s]] : s \in ReadyTasks(r) \union ArmedTimers(r)}]

\* Mutant of DueDates: DueAt is not looked at.
DueDatesIgnored(r) == [s \in Steps |-> NoTime]

DueDates(r) == [s \in Steps |-> r.steps[s].dueAt]

dispatch(r) ==
    IF Terminal(r) THEN <<>> ELSE
        (IF SLAs = <<>> \/ r.status # "ACTIVE" THEN <<>>
         ELSE <<[op |-> "checkSLA", active |-> ActiveSteps(r)]>>)
     \o Loop(Scan(r, DueDates(r)))
     \o Loop([op |-> "approvals", failed |-> r.failed, todo |->
                {[step |-> s, index |-> r.steps[s].index] : s \in GrantedLinks(r)}])

\* dispatchAfter submits a pending task whether or not its backoff has elapsed.
dispatchAfter(r) ==
    IF Terminal(r) THEN <<>>
    ELSE Loop(Scan(r, [s \in Steps |-> IF Kind[s] = "task" THEN NoTime ELSE r.steps[s].dueAt]))

-----------------------------------------------------------------------------
\* append stamps every event from the engine clock.  The stamp is kept where
\* something depends on it: creation, timers, deadlines and their escalations.
Timed(e) ==
    \/ e.type \in {"TICKET_CREATED", "TIMER_FIRED", "SLA_BREACHED"}
    \/ e.wait # NoTime
    \/ /\ e.type \in {"STEP_SCHEDULED", "APPROVAL_REQUESTED"}
       /\ \E i \in DOMAIN SLAs : SLAs[i].onBreach = e.step
Stamp(e) == IF Timed(e) THEN [e EXCEPT !.at = now] ELSE e

Record(e) ==
    /\ log' = log \union {Stamp(e)}
    /\ run' = applyOne(run, Stamp(e))

Idle(t) == work[t] = <<>>

At(t, op) == work[t] # <<>> /\ Head(work[t]).op = op

\* Goroutine t replaces its first entry by the entries of more.
Continue(t, more) == work' = [work EXCEPT ![t] = more \o Tail(@)]

Begin(t, todo) == work' = [work EXCEPT ![t] = todo]

\* CreateTicket, up to and including the first append (which also saves the
\* ticket row); the first of the run's events.
CreateTicket(c) ==
    /\ Idle(c) /\ handlers /\ log = {}
    /\ Record(RunEvent("TICKET_CREATED"))
    /\ Begin(c, <<append(RunEvent("RUN_STARTED"))>> \o scheduleStep(Initial)
                    \o <<append(RunEvent("TICKET_ASSIGNED")), GetRunAndDispatch>>)
    /\ UNCHANGED <<queue, now, handlers, faults>>

\* Mutant of MayDecide: authorizeApprover is not called.
MayDecideUnchecked(c, s, by) ==
    /\ Idle(c) /\ handlers /\ log # {}
    /\ run.steps[s].status # "ABSENT" /\ run.steps[s].approval = "pending"

\* The checks of Approve and Reject, on the run they read.  The run's own status is
\* not among them.
MayDecide(c, s, by) ==
    /\ Idle(c) /\ handlers /\ log # {}
    /\ run.steps[s].status # "ABSENT" /\ run.steps[s].approval = "pending"
    /\ Authorized(s, run.steps[s].index, by)

Approve(c, s, by) ==
    /\ MayDecide(c, s, by)
    /\ Begin(c, <<append(Decided("APPROVAL_GRANTED", s, run.steps[s].index, by)),
                  [op |-> "granted", step |-> s]>>)
    /\ UNCHANGED <<log, run, queue, now, handlers, faults>>

\* The rest of Approve: GetRun after the grant, advanceApproval, dispatchAfter.
Granted(t) ==
    /\ At(t, "granted")
    /\ LET s == Head(work[t]).step
       IN  Continue(t, (IF run.steps[s].approval # "granted" THEN <<>>
                        ELSE advanceApproval(run.failed, s, run.steps[s].index))
                       \o dispatchAfter(run))
    /\ UNCHANGED <<log, run, queue, now, handlers, faults>>

Reject(c, s, by) ==
    /\ MayDecide(c, s, by)
    /\ Begin(c, <<append(Decided("APPROVAL_REJECTED", s, run.steps[s].index, by)),
                  append(StepEvent("RUN_FAILED", s))>>)
    /\ UNCHANGED <<log, run, queue, now, handlers, faults>>

Cancel(c) ==
    /\ Idle(c) /\ handlers /\ log # {} /\ ~Terminal(run)
    /\ Begin(c, <<append(RunEvent("RUN_CANCELLED"))>>)
    /\ UNCHANGED <<log, run, queue, now, handlers, faults>>

\* Tasks in the channel or with a worker.
InFlight == Len(queue) + Cardinality({w \in Workers : ~Idle(w)})

\* Recover (a call) and sweep (the timer) dispatch every run of the log.
Recover(c) ==
    /\ Idle(c) /\ handlers /\ log # {} /\ dispatch(run) # <<>>
    /\ InFlight < SweepBound
    /\ Begin(c, dispatch(run))
    /\ UNCHANGED <<log, run, queue, now, handlers, faults>>

\* Mutant of sweep: replays the runs and does not dispatch them.
sweepForgets == Idle(Timer) /\ UNCHANGED vars

sweep ==
    /\ Idle(Timer) /\ log # {} /\ dispatch(run) # <<>>
    /\ InFlight < SweepBound
    /\ Begin(Timer, dispatch(run))
    /\ UNCHANGED <<log, run, queue, now, handlers, faults>>

AppendEvent(t) ==
    /\ At(t, "append")
    /\ Record(Head(work[t]).ev)
    /\ Continue(t, <<>>)
    /\ UNCHANGED <<queue, now, handlers, faults>>

Dispatch(t) ==
    /\ At(t, "dispatch")
    /\ Continue(t, dispatch(run))
    /\ UNCHANGED <<log, run, queue, now, handlers, faults>>

\* CheckSLA reads the clock and the breaches on record once, for the whole loop.
CheckSLA(t) ==
    /\ At(t, "checkSLA")
    /\ LET Flagged == {e.index : e \in {x \in log : x.type = "SLA_BREACHED"}}
           Overdue == {i \in DOMAIN SLAs : now > run.createdAt + SLAs[i].duration}
       IN  Continue(t, Loop([op |-> "flag", active |-> Head(work[t]).active,
                             todo |-> Overdue \ Flagged]))
    /\ UNCHANGED <<log, run, queue, now, handlers, faults>>

\* One iteration of that loop is about the next SLA, i: after flagging it, jumpTo its
\* escalation step unless the step was already under way when the run was read.
Escalate(t, i) ==
    LET cur == Head(work[t])
    IN  /\ \A j \in cur.todo : i <= j
        /\ Continue(t, (IF SLAs[i].onBreach \in cur.active \union {NoStep} THEN <<>>
                        ELSE scheduleStep(SLAs[i].onBreach) \o <<GetRunAndDispatch>>)
                       \o Loop([cur EXCEPT !.todo = @ \ {i}]))

Flag(t) ==
    /\ At(t, "flag")
    /\ \E i \in Head(work[t]).todo : Record(Breached(i)) /\ Escalate(t, i)
    /\ UNCHANGED <<queue, now, handlers, faults>>

\* One iteration of the first loop of dispatch, over a map, hence in any order:
\* Submit a task (blocks while the channel is full) or fire a timer, if due.
ScanStep(t) ==
    /\ At(t, "scan")
    /\ LET cur == Head(work[t])
       IN  \/ /\ cur.todo = {}    \* what Disconnect leaves of other entries
              /\ Continue(t, <<>>)
              /\ UNCHANGED queue
           \/ \E item \in cur.todo :
                LET rest == Loop([cur EXCEPT !.todo = @ \ {item}])
                IN  \/ /\ item.due > now
                       /\ Continue(t, rest)
                       /\ UNCHANGED queue
                    \/ /\ item.due <= now /\ Kind[item.step] = "task"
                       /\ Len(queue) < QueueCap
                       /\ queue' = queue \o <<item.step>>
                       /\ Continue(t, rest)
                    \/ /\ item.due <= now /\ Kind[item.step] = "delay"
                       /\ Continue(t, fireTimer(cur.failed, item.step) \o rest)
                       /\ UNCHANGED queue
    /\ UNCHANGED <<log, run, now, handlers, faults>>

\* One iteration of the second loop of dispatch.
ApprovalStep(t) ==
    /\ At(t, "approvals")
    /\ LET cur == Head(work[t])
       IN  \E item \in cur.todo :
               Continue(t, advanceApproval(cur.failed, item.step, item.index)
                           \o Loop([cur EXCEPT !.todo = @ \ {item}]))
    /\ UNCHANGED <<log, run, queue, now, handlers, faults>>

\* A worker receives a task; executeTask reads the run and looks the handler up.
\* Whether the step is still pending is not checked.
executeTask(w) ==
    /\ Idle(w) /\ queue # <<>>
    /\ queue' = Tail(queue)
    /\ LET s == Head(queue)
       IN  Begin(w, IF handlers
                    THEN <<append(StepEvent("STEP_STARTED", s)),
                           [op |-> "handler", step |-> s, failed |-> run.failed,
                            attempt |-> run.steps[s].attempt]>>
                    ELSE failStep(run.failed, s))
    /\ UNCHANGED <<log, run, now, handlers, faults>>

\* Mutant of Handler: executeTask returns the handler's error without recording it.
HandlerErrorLost(w) ==
    /\ At(w, "handler")
    /\ LET s == Head(work[w]).step
       IN  \/ Continue(w, <<append(StepEvent("STEP_COMPLETED", s))>>
                            \o advance(Head(work[w]).failed, s, TRUE))
           \/ Continue(w, <<>>)
    /\ UNCHANGED <<log, run, queue, now, handlers, faults>>

\* The task handler, not part of the engine, returns a result or an error.
Handler(w) ==
    /\ At(w, "handler")
    /\ LET s == Head(work[w]).step
       IN  \/ Continue(w, <<append(StepEvent("STEP_COMPLETED", s))>>
                            \o advance(Head(work[w]).failed, s, TRUE))
           \/ Continue(w, handleTaskFailure(run, s))
    /\ UNCHANGED <<log, run, queue, now, handlers, faults>>

-----------------------------------------------------------------------------
\* Time passes; what passes before the run exists makes no difference to it.
Tick ==
    /\ now < MaxTime /\ log # {}
    /\ now' = now + 1
    /\ UNCHANGED <<log, run, work, queue, handlers, faults>>

\* main registers the handlers after NewEngine has started the workers and the timer.
RegisterTasks ==
    /\ ~handlers
    /\ handlers' = TRUE
    /\ UNCHANGED <<log, run, work, queue, now, faults>>

\* The process dies and is started again: only the log survives.
Crash ==
    /\ "crash" \in FaultKinds /\ faults < MaxFaults
    /\ faults' = faults + 1
    /\ work' = [t \in Threads |-> <<>>]
    /\ queue' = <<>>
    /\ handlers' = FALSE
    /\ UNCHANGED <<log, run, now>>

\* What is left of an entry once the caller's context is cancelled: every access to
\* the database fails from then on, while the loops still submit tasks.
Survivor(i) ==
    [op |-> "scan", failed |-> FALSE, todo |->
        IF i.op = "scan" THEN {item \in i.todo : Kind[item.step] = "task"} ELSE {}]

Disconnect(c) ==
    /\ "disconnect" \in FaultKinds /\ faults < MaxFaults
    /\ ~Idle(c)
    /\ faults' = faults + 1
    /\ work' = [work EXCEPT ![c] = [i \in 1 .. Len(@) |-> Survivor(@[i])]]
    /\ UNCHANGED <<log, run, queue, now, handlers>>

-----------------------------------------------------------------------------
\* An access to the database fails while the process and its callers live on.
DbError ==
    /\ "dberror" \in FaultKinds /\ faults < MaxFaults
    /\ faults' = faults + 1
    /\ UNCHANGED <<now, handlers>>

\* An error ends every function up to the loop that called for it: CheckSLA and
\* dispatch ignore the errors of what they call, everybody else returns them.
IsLoop(i) == i.op \in {"flag", "scan", "approvals"}

AfterError(todo) ==
    LET loops == {n \in 1 .. Len(todo) : IsLoop(todo[n])}
        first == CHOOSE n \in loops : \A m \in loops : n <= m
    IN  IF loops = {} THEN <<>> ELSE SubSeq(todo, first, Len(todo))

\* An append fails, or is recorded and its answer is lost.
AppendFails(t) ==
    /\ At(t, "append") /\ DbError
    /\ work' = [work EXCEPT ![t] = AfterError(Tail(@))]
    /\ Record(Head(work[t]).ev) \/ UNCHANGED <<log, run>>
    /\ UNCHANGED queue

\* The append of CheckSLA fails: the escalation goes on unflagged.
FlagFails(t) ==
    /\ At(t, "flag") /\ DbError
    /\ \E i \in Head(work[t]).todo : Escalate(t, i)
    /\ UNCHANGED <<log, run, queue>>

\* GetRun, or the history for CheckSLA, is not read: the caller does without.
ReadFails(t) ==
    /\ At(t, "dispatch") \/ At(t, "checkSLA") \/ At(t, "granted")
    /\ DbError
    /\ Continue(t, <<>>)
    /\ UNCHANGED <<log, run, queue>>

\* executeTask cannot read the run or the ticket: the task is gone from the channel.
TaskLost(w) ==
    /\ Idle(w) /\ queue # <<>> /\ DbError
    /\ queue' = Tail(queue)
    /\ UNCHANGED <<log, run, work>>

\* The run cannot be read again after the handler failed: the failure is handled on
\* the run as it was before the attempt.
RefreshFails(w) ==
    /\ At(w, "handler") /\ DbError
    /\ LET h == Head(work[w])
           stale == [run EXCEPT !.failed = h.failed, !.steps[h.step].attempt = h.attempt]
       IN  Continue(w, handleTaskFailure(stale, h.step))
    /\ UNCHANGED <<log, run, queue>>

-----------------------------------------------------------------------------
Init ==
    /\ log = {} /\ run = NewRun
    /\ work = [t \in Threads |-> <<>>]
    /\ queue = <<>> /\ now = 0 /\ handlers = FALSE /\ faults = 0

\* A goroutine goes on with what it has to do.
Proceed(t) ==
    \/ AppendEvent(t) \/ Dispatch(t) \/ CheckSLA(t) \/ Flag(t) \/ ScanStep(t)
    \/ ApprovalStep(t) \/ Granted(t) \/ Handler(t)

\* The calls of somebody who decides.
Decide(c, s, by) ==
    \/ "Approve" \in Calls /\ Approve(c, s, by)
    \/ "Reject" \in Calls /\ Reject(c, s, by)

Call(c) ==
    \/ CreateTicket(c)
    \/ "Cancel" \in Calls /\ Cancel(c)
    \/ "Recover" \in Calls /\ Recover(c)
    \/ \E s \in Steps, by \in People : Decide(c, s, by)

Next ==
    \/ \E t \in Threads : Proceed(t)
    \/ \E t \in Threads : AppendFails(t) \/ FlagFails(t) \/ ReadFails(t)
    \/ \E c \in Clients : Call(c) \/ Disconnect(c)
    \/ \E w \in Workers : executeTask(w) \/ TaskLost(w) \/ RefreshFails(w)
    \/ sweep \/ Tick \/ RegisterTasks \/ Crash

\* The Go scheduler runs every goroutine that can run, the ticker keeps ticking,
\* handlers return and main registers them.  Clients owe nobody a call.
Fairness ==
    /\ \A t \in Threads : WF_vars(Proceed(t))
    /\ \A w \in Workers : WF_vars(executeTask(w))
    /\ WF_vars(sweep) /\ WF_vars(Tick) /\ WF_vars(RegisterTasks)

Spec == Init /\ [][Next]_vars /\ Fairness

-----------------------------------------------------------------------------
TypeOK ==
    /\ log \subseteq Event
    /\ run \in Run
    /\ work \in [Threads -> Seq(Instr)]
    /\ queue \in Seq(Steps)
    /\ now \in Nat
    /\ handlers \in BOOLEAN
    /\ faults \in Nat

Recorded(type) == \E e \in log : e.type = type
RecordedFor(type, s) == \E e \in log : e.type = type /\ e.step = s

\* Whatever the interleaving of workers, clients, timer and crashes, the history
\* is one that the workflow allows: see RunHistory.
Legal == INSTANCE RunHistory WITH history <- log
FollowsWorkflow == Legal!HistorySpec

\* Nobody has anything left to do for the run.
Quiet == handlers /\ queue = <<>> /\ \A t \in Threads : Idle(t)

\* The run waits for something that the next sweep or a client's call will move on.
Resumable ==
    \/ ReadyTasks(run) # {} \/ ArmedTimers(run) # {} \/ GrantedLinks(run) # {}
    \/ \E s \in Steps : Kind[s] = "approval" /\ run.steps[s].approval = "pending"

\* Without faults, a run that has not ended never comes to rest in a state that sweep
\* and Recover pass over: no race of duplicate executions, timers and decisions
\* loses it.
NeverStranded == faults = 0 /\ Quiet /\ log # {} /\ ~Terminal(run) => Resumable

\* Without faults, a step reads RUNNING only while a goroutine is executing it, or is
\* about to record how the execution ended.
NoOrphanedStep ==
    faults = 0 => \A s \in Steps : run.steps[s].status = "RUNNING" =>
        \E w \in Workers : \E i \in DOMAIN work[w] :
            \/ work[w][i].op = "handler" /\ work[w][i].step = s
            \/ /\ work[w][i].op = "append" /\ work[w][i].ev.step = s
               /\ work[w][i].ev.type \in {"STEP_COMPLETED", "STEP_FAILED"}

\* An approval step completes only when every link of its chain has been granted.
AllLinksGranted ==
    \A s \in Steps : Kind[s] = "approval" /\ RecordedFor("STEP_COMPLETED", s) =>
        \A i \in 0 .. (Len(Chain[s]) - 1) :
            \E e \in log : e.type = "APPROVAL_GRANTED" /\ e.step = s /\ e.index = i

\* A link that reads as granted was granted by the approver it requires.
GrantedByApprover ==
    \A s \in Steps : run.steps[s].approval = "granted" =>
        Authorized(s, run.steps[s].index, run.steps[s].decidedBy)

\* Whoever reads as having granted or rejected an approval may decide one of its links,
\* and that link had been requested; also when decisions on the same run overlap.
DecidedByApprover ==
    \A s \in Steps : run.steps[s].approval \in {"granted", "rejected"} =>
        \E e \in log : /\ e.type = "APPROVAL_REQUESTED" /\ e.step = s
                       /\ Authorized(s, e.index, run.steps[s].decidedBy)

\* Without a restart, a run is put on the failure path by a task only after the
\* task was attempted as often as its retry policy says.
RetriesExhausted ==
    faults = 0 => \A s \in Steps : RecordedFor("RUN_FAILING", s) =>
        run.steps[s].attempt >= 1 /\ run.steps[s].attempt >= MaxAttempts[s]

\* Once started, a run that has ended is never active again.
EndedStaysEnded ==
    [][Recorded("RUN_STARTED") /\ Terminal(run) => Terminal(run')]_vars

Due(s) == run.steps[s].dueAt <= now

\* A run of tasks and delays comes to an end, unless the process dies under it or it
\* waits for a time that the bounded clock does not reach.
RunEnds ==
    log # {} ~> (Terminal(run) \/ faults > 0 \/ \E s \in Steps : run.steps[s].dueAt > MaxTime)

\* A pending task whose backoff has elapsed is picked up (or given a new backoff by
\* a duplicate execution), also when the process dies with the task in its channel.
PendingIsPickedUp ==
    \A s \in Steps :
        (s \in ReadyTasks(run) /\ Due(s)) ~> (s \notin ReadyTasks(run) \/ ~Due(s) \/ Terminal(run))

\* A delay that is due fires, although nobody but the timer's sweep looks at it.
DelayFires ==
    \A s \in Steps :
        (s \in ArmedTimers(run) /\ Due(s)) ~> (RecordedFor("STEP_COMPLETED", s) \/ Terminal(run))

\* A granted link is acted upon even when the caller of Approve is gone right after
\* its grant was recorded.
GrantIsActedUpon ==
    \A s \in Steps :
        s \in GrantedLinks(run) ~> (s \notin GrantedLinks(run) \/ Terminal(run))

\* An SLA that is overdue while the run is active is flagged.
OverdueIsFlagged ==
    \A i \in DOMAIN SLAs :
        (run.status = "ACTIVE" /\ now > run.createdAt + SLAs[i].duration)
            ~> (Terminal(run) \/ \E e \in log : e.type = "SLA_BREACHED" /\ e.index = i)
=============================================================================
