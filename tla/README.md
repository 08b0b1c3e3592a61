# TPT Conduit: TLA+ verification project

TPT Conduit (`src/`) is an event-sourced workflow engine in Go. A *ticket* starts a
*run* of a *workflow*; the run's state is never stored but derived by replaying an
append-only event log. This directory holds TLA+ modules that model the engine, its
event log and its worker pool, TLC configurations that check them on small
instances, and proofs that TLAPS checks for every value of the constants.

## 1. Inventory

| Component | Source | State | Operations | Interacts with |
|---|---|---|---|---|
| Engine | `engine/engine.go` | handlers, workflow cache, clock; the run only in the log | `CreateTicket`, `Approve`, `Reject`, `Cancel`, `dispatch`, `dispatchAfter`, `executeTask`, `advance`, `failStep`, `handleTaskFailure`, `fireTimer`, `advanceApproval`, `sweep`, `Recover`, `Close` | appends to and replays the log; submits to the pool; called back by the workers |
| Run model, replay | `engine/model.go`, `applyOne` | `WorkflowRun`, `StepState`, `ApprovalState` | fold of `applyOne` over the history | read by every engine operation |
| SLA | `engine/sla.go` | breaches on record | `CheckSLA`, `jumpTo` | first thing `dispatch` does; dispatches again itself |
| Worker pool | `engine/worker.go` | bounded channel, `closeCh`, wait group | `loop`, `Submit`, `Stop` | executes `executeTask`, which submits again |
| Event log | `engine/eventlog.go`, `engine/eventlog_pg.go`, `engine/schema.sql` | history and sequence counter per run | `Append`, `History`, `Runs` | shared by all goroutines (and processes, for PostgreSQL) |
| Stores | `engine/store.go`, `engine/eventlog_pg.go` | tickets, workflow definitions | upserts and reads | engine |
| Routing | `engine/routing.go`, `engine/util.go` | none | `Apply`, `matchRule` | `CreateTicket` |
| DSL, registry | `engine/dsl/*.go` | definitions by name and version | `Compile`, `LoadDir`, `Latest`, `Resolve` | `RegisterWorkflow` at boot |
| API | `api/` | none | GraphQL and gRPC handlers, authentication | engine, with the caller's context; reads log and stores run by run |
| Server | `cmd/conduit-server/main.go` | none | boot: engine, workflows, handlers, API | all |
| TypeScript DSL, web frontend, generated code | `ts/`, `web/`, `api/proto/*.pb.go` | none of the run's | | API |

What is hard in this code:

- **Goroutines without a lock on the run.** Workers, API calls and the timer loop read
  a run (`GetRun`), decide on the copy and append later. Nothing orders these
  read-decide-append sequences; any number may be under way for one run.
- **At-least-once delivery.** A step is submitted by every dispatch that reads it
  PENDING, and `executeTask` does not check that it still is.
- **Crashes, lost callers, failing accesses.** An operation is several appends, and may
  stop after any of them: the process dies, the caller's context is cancelled, or one
  access to the database fails. What follows an error differs from caller to caller: some
  return it, the loops of `dispatch` and `CheckSLA` drop it and go on.
- **A value changes its form on the way.** The number a rule compares is an `int` from
  YAML, a `float64` from JSON and from the store, its spelling from a GraphQL literal.
- **Requests read while others write half.** A listing of runs is one read per run beside
  creations that fail between the ticket row and the last event.
- **Only the sweep remembers.** Due timers, elapsed backoffs, overdue SLAs and grants
  whose caller is gone are looked at by the periodic sweep and nothing else.
- **A bounded channel whose receivers are also senders.**
- **Sequence numbers under concurrent transactions** in PostgreSQL.
- **A deployment while the engine already runs.** The timer loop starts with the engine,
  before the definitions are registered; loading a definition is a read of the store and a
  later write of the cache, registering one a write of the cache and a later write of the
  store.

What makes the components correct: the history is always one the workflow allows; a run
that has not ended can be resumed; approvals are granted by the right people, in order;
timers and SLAs act, and never early; the log has no gap, loses nothing it acknowledged
and behaves like its in-memory reference; only complete definitions are executed and every
run's definition can be loaded; a ticket that is acknowledged is complete, routed the same
way by every transport and never hidden by another that is not; shutdown ends. `PROJECT.json` lists the
hazards line by line with the properties that watch them.

## 2. Modules

| Module | Models | Role |
|---|---|---|
| `WorkflowRun` | `model.go`, `applyOne`, `ensureStep`, `authorizeApprover` | definitions shared by the next two |
| `RunHistory` | what the engine promises of a history | abstract specification |
| `Engine` | `engine.go`, `sla.go`, the channel of `worker.go` | detailed specification, implements `RunHistory` |
| `MCEngine` | | workflows for TLC, and documented claims the code does not keep |
| `EventLog` | `InMemoryEventLog` | abstract specification of a log |
| `PgEventLog` | `PostgresEventLog` | detailed specification, implements `EventLog` |
| `WorkerPool` | `worker.go`, `Engine.Close`, `timerLoop` | submission and shutdown |
| `Definitions` | `dsl/dsl.go`, the version order of `dsl/loader.go` | operators: the compiler as a function of the authored workflow |
| `Deployment` | boot of `conduit-server`, `LoadDir`, `RegisterAll`, `RegisterWorkflow`, `loadWorkflow`, the store of definitions | restarts on changing directories |
| `MCDeployment` | | directories for TLC, and a documented claim the code does not keep |
| `Routing` | `routing.go`, `util.go`, the conversions of YAML, JSON, GraphQL and the store | operators |
| `Api` | the GraphQL and gRPC handlers, `CreateTicket` and the reads of the engine on the ticket rows, the definitions and the log | requests beside each other, failing accesses, restarts |
| `MCApi` | | rules and requests for TLC |
| `EngineProofs`, `EngineRefinementProofs`, `EngineApprovalProofs`, `EngineProgressProofs` | | theorems about `Engine` |
| `PgEventLogProofs`, `DeploymentProofs`, `WorkerPoolProofs`, `ApiProofs` | | theorems about the module in the name |

### Engine

`log` is the set of the run's events, `run` their replay, `queue` the task channel, `now`
the engine clock, `handlers` whether `main` has registered the task handlers since the
process started, `faults` the number of faults so far. `work[t]` is what goroutine `t`
still has to do: a list of entries, each what the code does between two accesses to
shared state. A Go function that appends three events and then dispatches is the list of
these four entries; calling a function in the middle puts its entries in front of the
rest, as the call stack does. What was read earlier and is used later (`run.Failed`, the
items of a loop, the active steps) travels in the entry and may be stale.

| Action | Code |
|---|---|
| `CreateTicket`, `Approve`, `Reject`, `Cancel`, `Recover` | the methods of these names up to their first append; the rest of them are entries |
| `Granted` | `Approve` after its append |
| `AppendEvent` | one `append` |
| `Dispatch` | `GetRun` followed by `dispatch` |
| `CheckSLA`, `Flag` | `CheckSLA`: the reads, then one iteration of its loop with `jumpTo` |
| `ScanStep`, `ApprovalStep` | one iteration of the first and the second loop of `dispatch` (and of `dispatchAfter`) |
| `executeTask`, `Handler` | the receive and `executeTask` up to and from the return of the task handler |
| `sweep` | a tick of `timerLoop` |
| `Tick`, `RegisterTasks`, `Crash`, `Disconnect` | the clock, `main`, a killed process, a cancelled caller |
| `AppendFails` | an `append` that returns an error, whether or not the event was recorded |
| `FlagFails` | the append of SLA_BREACHED fails; `CheckSLA` ignores the error and escalates |
| `ReadFails`, `TaskLost`, `RefreshFails` | a failing read before `dispatch`, in `CheckSLA` or in `Approve`; in `executeTask` before the attempt, and after the handler failed |

An error ends every function up to the loop that called for it: `AfterError` drops the
entries up to the first loop (`scan`, `approvals`, `flag`), which the code continues.

Abstractions, and why they lose nothing the properties speak of:

- One run of one fixed workflow. Runs share only the channel and the store; a sweep over
  several runs is a sequence of dispatches.
- `run` is kept by applying each appended event, which is what replaying the history
  gives; `log` keeps which events there are, as no operation depends on more of the
  order than the replay does (`CheckSLA` asks for membership).
- The clock is read together with the append that records the time (`scheduleStep`,
  `handleTaskFailure`), and saving the ticket row together with `TICKET_CREATED`.
- The receive of a task and the replay `executeTask` begins with are one step, as are the
  return of the handler and the replay after an error.
- Event payloads keep the step, the chain index, the decider, the due date; names are
  compared exactly (the code folds case); SLAs are told apart by position.
- `Attempt` is counted up to `AttemptCap`, above every `MaxAttempts`: it is only ever
  compared with these.
- A cancelled caller is modelled for the PostgreSQL log, where every statement of a
  cancelled context fails; the loops still submit tasks (`Survivor`).
- A failing access is one access. A failed read by the sweep itself is a sweep that did
  not come yet.

`RunHistory` justifies an escalation by the deadline that has passed and not by a recorded
breach: with `FlagFails` the code escalates without one.

### PgEventLog

`next` and `table` are the committed `event_seq` and `events`, `holder` the row locks,
`tx[s]` the transaction of session `s`. Each round trip of `Append` is an action;
`Rollback` may follow any of them, `Commit(s, "error")` is a commit whose answer is lost,
`Crash` ends all open transactions. Readers see `table`: the refinement mapping `Mirror`
is what `History` (rows in order of `seq`) and `Runs` return.

### WorkerPool

The channel as a counter, what each goroutine is at, and the calls of `Close`. A worker
chooses between `closeCh` and the channel when both are ready, as `select` does.

### Definitions and Deployment

`Definitions` translates the compiler: `Compiles` is the conjunction of its error returns,
`Compile` the definition it makes, `Usable` what the engine relies on, which is what
`WorkflowAssumption` of `Engine` asks of a workflow. A file that is not YAML is
`Unparsable`, a text that is no duration `Malformed`. A version is a sequence of
components, each with its number, if it has one, and the rank of its text.

`Deployment` follows `main`: `NewEngine` (from then on the timer loop and the workers run),
`LoadFile` for each file, `LoadDir`, then per definition, in any order, `RegisterWorkflow`
(the write of the cache) and `StoreWorkflow` (the write of the store), then `Serve`. A file
that does not parse or a definition without its initial step ends the process
(`log.Fatalf`), and `Stop` may end it anywhere. `ReadStore` and `FillCache` are the two
halves of `loadWorkflow` after a miss; a hit changes nothing. Before the server listens only
the engine's own goroutines load, and only definitions of existing runs. A process with the
in-memory store is one start.

### Routing and Api

`Routing` is `Apply` with `matchRule`, `equal` and `toString`, and the form a written value
has taken when they see it (`parseLiteral`, `fromJSON`, `fromYAML`, `throughStore`). Every
number of JSON, the definitions in the store included, becomes a `float64`: an integer of
absolute value up to `MaxExact` (2^53 in the program) keeps its value, one beyond is rounded
to the nearest value that there is, to the even one of two (`NearestMultiple`). An integer of
YAML stays an `int`, and a number in a GraphQL document becomes its spelling.

`Api` keeps the tables (`tickets`, `log`), how the process came to know each definition
(`cache`: compiled at the start or read back from the store), and per goroutine the request
it serves (`call`), one database access at a time:

| Action | Code |
|---|---|
| `CreateTicket` (a request), `Load` | the resolver or handler with its own checks; `loadWorkflow`, the new id, `Apply` |
| `SaveTicket`, `AppendEvent` | `SaveTicket`, then each `append` of `CreateTicket` up to TICKET_ASSIGNED |
| `History`, `Row`, `Definition` | the three reads of `GetRun`, which `CreateTicket` ends with as well |
| `ReadOne`, `ReadAll`, `ReadTable`, `ListRuns` | every query of the two transports: `ticket`, `run`, `events`, `tickets`, `runs`, `workflows`, `workflow` |
| `ReadFails`, `WriteFails`, `Restart` | a failing access, with or without its effect, and a new process on a directory that may lack definitions |

`log` holds the events of a creation only: what happens to a run afterwards is `Engine`'s,
and so are the decisions clients take (`Approve`, `Reject`, `Cancel`). `owed` is a history
variable: the runs that were there when a read began, less those the answer gives and those
whose own access failed.

## 3. Runs

| Run | Instance | Checks |
|---|---|---|
| `Tasks` | two workers, a task tried twice with an error handler; worker symmetry | `TypeOK`, `NeverStranded`, `NoOrphanedStep`, `RetriesExhausted`, `FollowsWorkflow`, `EndedStaysEnded` |
| `Crash` | two workers, a delay then a task with backoff, one crash | `RunEnds`, `DelayFires`, `PendingIsPickedUp` |
| `Review` | chain of two links (a user, a role) then a task; one client that approves, rejects, cancels, recovers; one crash, disconnect or failing access | `NeverStranded`, `AllLinksGranted`, `GrantedByApprover`, `DecidedByApprover`, `FollowsWorkflow`, `GrantIsActedUpon` |
| `SLA` | a delay, an SLA that starts a task; one failing access | `FollowsWorkflow`, `OverdueIsFlagged`, `DelayFires`, `PendingIsPickedUp` |
| `PgEventLog` | two sessions, two runs, two payloads, two events per run | `TypeOK`, `NoGaps`, `Serialized`, `NoLeakedLock`, `AckedIsDurable`, `AppendOnly`, `MirrorsInMemory`, `AppendReturns` |
| `Pool` | two workers, a client, the timer, two `Close` calls, a channel of two | `TypeOK`, `NoTaskAfterClose`, `CloseReturns` |
| `Deployment` | three starts on twelve directories: older, newer and doubled definitions, three versions, one file per mistake; two runs; sweep, worker, request | `TypeOK`, `DefinitionsUsable`, `RunsResolvable`, `StoreIsDeployed`, `LatestIsHighest` |
| `Api` | two requests at a time, two ids, four requests (two sets of fields, no fields, an unknown workflow) by three transports, four rules, one fault | `TypeOK`, `CreationInOrder`, `AcknowledgedIsComplete`, `ReadsFindRuns`, `RoutedAlike` |

`CreationInOrder` says that no abandoned creation leaves a run whose ticket is missing;
`ReadsFindRuns` that a listing beside it leaves out no other run; `RoutedAlike` that two
tickets of one request are routed alike, as long as each number of the request is an integer
up to `MaxExact`, spelt as the engine renders it, or has become the same Go value for both,
and the numbers of the rules are up to `MaxExact`. The conditions are needed. A GraphQL
literal `1.0` stays `1.0` and is no match for a rule's 1. An integer beyond 2^53 has two
renderings: 9007199254740993 in a compiled rule or a literal, 9007199254740992 once it went
through JSON or the store, so that the same ticket may be routed differently after a restart,
against "deterministic so that replays route identically" (`routing.go`) and "canonical"
(`util.go`).

`FollowsWorkflow` is the refinement of `RunHistory`: every event ever recorded is justified
by the ones before it, e.g. a step is scheduled only when the first step, a completed
predecessor, a failed one with its error handler, or a breached SLA leads to it; a timer
fires no earlier than its due date; a run is COMPLETED only through a last step that
completed. It holds under duplicates, crashes, disconnects and failing accesses (`Tasks`,
`Review`, `SLA`; for `Crash` too, by the theorem).

Four runs are expected to be violated. Each states what the repository says of itself, and
TLC finds an execution of the code that contradicts it:

| Run | The repository says | What happens |
|---|---|---|
| `ClaimCrashResumes` | "A process can crash at any moment and resume exactly where it left off via `Engine.Recover`" (`README.md`) | a crash while a handler runs leaves the step RUNNING; nothing resumes it |
| `ClaimCancel` | "Cancel terminates a run." | a worker that finishes later completes it |
| `ClaimAllLinks` | "Approve first two links; run stays waiting until the last." (`approval_test.go`) | two concurrent approvals of link 0 complete a chain of two links |
| `ClaimRegistered` | "RegisterWorkflow makes a workflow definition available to the engine." | after a restart on a changed directory, a sweep that read the stored definition first fills the cache last: the old definition is executed until the next restart |

`AllLinksGranted` holds in `Review`, where decisions are made one at a time, and fails in
`ClaimAllLinks`, where two callers overlap: the difference is the unlocked
read-decide-append of `Approve`. `DecidedByApprover` is what remains true of overlapping
decisions: a grant may count for the wrong link, but nobody reads as having decided an
approval who may decide none of its requested links.

Other behaviours of the model that a maintainer should know: two dispatches of
a run, or the nested one of an escalation, may flag an SLA twice, although the comment calls
`CheckSLA` idempotent; a failed append of
SLA_BREACHED escalates unflagged; an error of a worker's own append after STEP_STARTED
leaves the step RUNNING for good, without any crash, although the comment in
`WorkerPool.loop` says that errors are recorded as step failures; and, all of the
unlocked read-decide-append, a caller
that goes away inside `CreateTicket`, which its comment calls fully atomic, leaves a run
without a scheduled first step; a duplicate execution with an old copy of the run completes
it after RUN_FAILING was recorded "so it terminates FAILED"; a task with one allowed attempt
may be started twice (a sweep resubmits it while it still reads PENDING, or the read after
the failed attempt fails); a sweep between `NewEngine` and the registration of the handlers fails a pending
task for good; `Approve` and `Reject` racing on one link may both be recorded, and the run
complete after it failed; all workers may block in `Submit` on a full channel; `Stop` leaves tasks in the channel; `Close` does
not wait for a sweep under way. The server never calls `Recover`: after a restart it is
the sweep that resumes the runs, with the same `dispatch`. The example in the comment
on `compareVersions`, "1.2.10 > 1.10.0", is the contrary of what the code answers, and with
components that are not numbers its order is not transitive, so that `Latest` may depend on
the order of the map (1.9, 1.10, 1.5a).

### Bounds

| Bound | Where | Why it is enough |
|---|---|---|
| `AttemptCap` | `applyStep` | see above: answers every comparison as the unbounded count does |
| `SweepBound` | `sweep`, `Recover` | a sweep starts only while fewer tasks are in the channel or with a worker; two lets the same task be executed twice at once, and a third copy repeats the pattern; one in the SLA run, whose subject is the sweep and not duplicates |
| `QueueCap` | `ScanStep` | larger than what `SweepBound` lets accumulate, as 1024 is in practice; the full channel is the subject of `Pool` |
| `MaxTime` | `Tick` | at least one tick past every deadline of the workflow (the SLA run's is 0), so that due, not yet due and overdue all occur |
| `MaxFaults` | `Crash`, `Disconnect`, `DbError`, `Fault` | one fault at every point of every interleaving; the theorems hold for every value |
| `Clients`, `Ids` | `Api` | a creation beside a read or another creation, an id that is listed beside one that is half created; the theorems hold for any sets |
| `MaxEvents` | `PgEventLog` | a first event, which creates the counter row, and one that meets it; the theorems hold for every value |
| `MaxStarts` | `NewEngine` | a first deployment, a second over it, and a third after a failed one; the theorems hold for every value |
| `MaxExact` | `float64` | 8 where the program has 2^53, a `float64` of three bits: the largest exact integer, 8, and the first that is rounded, 9, both occur (TLC's integers have 32 bits); the theorem holds for every power of two |
| `Calls` | `Call` | which calls clients make: races of tasks, timers and SLAs need none but `CreateTicket` |

Deadlock is not checked in the engine runs, as a run that has ended leaves nothing to do,
nor in the deployment runs, where the last start that `MaxStarts` allows may end.

### Fairness

Every goroutine that can proceed does (`WF` of `Proceed` and `executeTask`: the Go
scheduler, and handlers that return); the ticker keeps ticking and `main` registers the
handlers (`WF` of `sweep`, `Tick`, `RegisterTasks`). Clients owe no call, and faults none
either. In `PgEventLog` every round trip is answered and PostgreSQL grants a row lock to
its waiters in turn (`SF` of `Reserve`). In `WorkerPool`, Go's `select` chooses at random
among the ready cases, so that a worker offered `closeCh` again and again takes it (`SF` of
`Exit`), and an execution submits finitely often (`SF` of `Finish`).

## 4. Theorems

`PgEventLogProofs` proves of `PgEventLog`, for any runs, payloads, sessions and bound,
from `SessionAssumption` and `MaxEventsAssumption` only:

- `NoGapsHolds`, `SerializedHolds`, `AckedIsDurableHolds`: `Spec => []...` of the
  invariants. None is inductive alone. The inductive invariant `IInv` is their conjunction
  with `TypeOK`, `NoLeakedLock` and `NoEarlyAnswer` (an open transaction has not answered
  yet): the number of a commit is fresh because its session holds the lock
  (`Serialized`), the lock has one holder whose transaction is open (`NoLeakedLock`), and
  the next number is free because the numbers have no gap (`NoGaps`).
- `AppendOnlyHolds`: the action property, from `IInv` and what a commit writes
  (`CommitWrites`).
- `MirrorsInMemoryHolds`: the refinement of `EventLog`; a commit is one append of the
  reference log, every other step changes nothing a reader sees.
- `TypeCorrect`: `[]TypeOK`, a part of `IInv`.

`EngineProofs` proves `TypeCorrect`: `Spec => []TypeOK` of `Engine`, for every workflow
that satisfies `WorkflowAssumption`, any sets of workers and clients, any bounds and
faults. `TypeOK` is inductive. The work is in the entries: each function that produces
them (`scheduleStep`, `advance`, `handleTaskFailure`, `dispatch`, ...) has a lemma that its
result is a sequence of entries, so that no goroutine ever holds an entry that no action
handles, and `applyOneType` shows that the replay of any event is a run.

It also proves, from the same assumptions:

- `EndedStaysEndedHolds`: the action property `EndedStaysEnded`. RUN_STARTED is the only
  event that makes a run active, so the invariant has to say that it is recorded once
  (`StartsOnce`): whoever still has to append it is alone, and it is not in the log. That
  in turn needs that no goroutine has it anywhere but as its first entry (`OpensFirst`),
  which is why the lemmas on types give the functions' results the sharper type
  `Later`: entries that start neither a run nor an attempt. `NextShape` then sums up what a
  step can do to the entries and to the log, once for both theorems.
- `NoOrphanedStepHolds`: `[]NoOrphanedStep`. A step becomes RUNNING by a worker whose next
  entry is the handler (`StartsAttempt`); without a fault only the worker itself changes
  its entries (`WorkerMoves`), a handler's result is recorded first of all
  (`HandlerFinishes`), and a step that another duplicate has ended does not read RUNNING
  (`RunningAfter`).

`EngineRefinementProofs` proves `FollowsWorkflowHolds`, from the same assumptions: `Engine`
implements `RunHistory`. `RunHistory` asks of a recorded event that the events before it
justify it, but the engine decides to append an event long before it does, on a copy of the
run that may be stale. The invariant `LegalInv` therefore looks ahead. Besides `HistoryInv`
it says:

- of the log (`SoundLog`): every event on record is warranted by the others;
- of the run (`SoundRun`): what a step reads as follows from what is on record;
- of what each goroutine has to do (`SoundWork`): every event it will append is warranted by
  what is on record and what the goroutine appends before it (`Acts`), and what a loop
  remembers from its read of the run is on record (`Loops`);
- of the channel: a queued task has been scheduled, or is about to be (`Begun`).

Staleness does no harm because a warrant speaks of the facts of the log only, that there is
an event of some type for some step and link, and of the clock: facts are never taken back
and time does not run backwards, so whatever is warranted stays so (`WarrantedGrows`, `SoundGrows` and their
kin), whoever else appends meanwhile. Each function that produces entries has a lemma that
they are sound; `RecordLegal` and `WarrantedJustified` turn a warrant into the justification
`RunHistory` asks for, when the event is recorded. Every other step leaves the history as it
is.

`EngineApprovalProofs` is about the links of an approval. From the same assumptions alone it
proves `DecidedByApproverHolds`, `Spec => []DecidedByApprover`: whoever a step names is on
record with the decision (`Signed`), and a decision on record is warranted (`LegalInv`).

The two stronger properties do not hold of every workflow, because `Approve` decides on the
run it read, while `applyOne` marks whichever link is current when the grant is recorded.
The theorems `AllLinksGrantedHolds` and `GrantedByApproverHolds` have the form
`Sheltered /\ Spec => []...`. `Sheltered` says that every approval has a chain of one link,
or a chain of two links while decisions are taken one after the other and nothing leads back
to the step; the instance of `Review` is of the second kind. It says nothing about workers,
timers, sweeps, calls of `Recover` and `Cancel`, SLAs or faults, and nothing about clients
where the chains have one link. Each condition it makes is needed for `GrantedByApprover`;
where one is dropped TLC finds a violation:

- decisions that overlap: the execution of `ClaimAllLinks`, which violates `AllLinksGranted`
  as well;
- an approval of two links that a task leads to: when the task is executed twice, the second
  execution schedules the step again and requests link 0 while link 1 is current;
- three links: `approvalStep` of a stale sweep requests link 1 again after link 1 was granted
  and link 2 requested; a grant of link 2 on its way then marks link 1. (The chain still
  completes only with all three grants on record, in the instance of `Review` with one more
  link and no faults.)

The inductive invariant `ApprovalInv` adds to `LegalInv` what a hypothesis like this buys:

- what is on record is in order (`InOrder`): a link is requested after the one before it was
  granted, and a step completed after all its links were;
- what a step reads is true (`SoundApproval`): the link that reads as granted is the one
  granted on record, and the first of two links, while it is asked for, was not;
- what goroutines have to do (`Harmless`) grants nothing, and requests a further link or
  completes a step only when the links before are granted on record. Exempt is what only one
  goroutine at a time can have in hand (`Hand`): a grant of the link that is current, and
  the opening of a run whose first step is an approval.

Every step of the engine is shown either to record nothing that touches a link (`Stays`) or
to be one of the appends, which `RecordKeeps` takes one kind of event at a time.

`EngineProgressProofs` proves of `Engine`, from the same assumptions, `NeverStrandedHolds`
and `RetriesExhaustedHolds`. Neither is inductive: a step that begins or ends an execution,
or records a decision, takes the run out of the states a sweep passes on from. The invariant
`ProgressInv` adds to `LegalInv`, as long as there was no fault:

- a goroutine that is to append such an event has a later entry that makes up for it
  (`Fine`): one that schedules a step, requests an approval or ends the run, or the task
  handler that leads to one;
- a run that is active and not resumable has a goroutine with such an entry (`MovesOn`), and
  one with a rejected approval a goroutine that will fail it (`RejectedFails`), whatever a
  stale duplicate schedules meanwhile;
- the handlers are registered before the first ticket is created, so that no task fails for
  want of one;
- RUN_FAILING is on record, or about to be appended, only for a step whose attempts are used
  up (`RetriedEnough`): the count never goes down, and the retry decision is taken on a read
  that follows the attempt.

A step is either gentle (`GentleStep`: it adds entries that break nothing, and records at
most a minor event) or one of the appends (`Appending`); the two cases share the bookkeeping
of who still has which entry.

`DeploymentProofs` proves of `Deployment`, for any directories, files, goroutines and
number of starts, from `EmptyAssumption` (the empty string is not a kind of step),
`DeploymentAssumption` (a directory is a sequence), `VersionAssumption` and
`NumericAssumption` (a version is a sequence of components, and what `Atoi` can read of them
are integers):

- `DefinitionsUsableHolds`: by `CompileUsable`, what `Compile` accepts and makes is `Usable`
  once its initial step exists. The invariant adds what a definition is while it is in the
  registry (compiled), half registered (with its initial step) and on its way from the
  store to the cache (usable).
- `RunsResolvableHolds`: not inductive, since a ticket is created from the cache. `AheadInv`
  says that the cache knows no key the store lacks, but for the one being registered, and
  that none is when the server listens; `LoadsInv` that what is being loaded is stored.
- `StoreIsDeployedHolds`: a second invariant, `MainInv`, follows `main`. Of the files walked
  so far the registry has the last of each key (`ParsedInv`), and what is registered and no
  longer to do is stored as it is in the registry (`StoredInv`).
- `TypeCorrect`: `[]TypeOK`, from both.
- `LatestIsHighestHolds`: a version of numbers is read as an infinite sequence, zero from its
  end on (`HigherAnywhere`), on which `compareVersions` decides `Higher` (`CompareNumbers`,
  by the first place where two versions differ). "Not higher" is transitive
  (`NotHigherTransitive`), which is what versions with text components lack, so the loop of
  `Latest` keeps a version than which none it has met is higher (`LatestOfNumbers`), and it
  meets all (`OrderMeetsAll`). `Latest` is a recursive function: that the loop is defined
  (`LoopDefined`) and what it keeps are shown by a first iteration at which it would go
  wrong (`FirstPosition`). The invariant `VersionsInv` adds that the registry is finite.

`WorkerPoolProofs` proves of `WorkerPool`, for any workers, clients, callers of `Close` and
any capacity, from `PoolAssumption`: `TypeCorrect`, the channel's capacity included, and
`NoTaskAfterCloseHolds`. The invariant adds that only one caller gets past the `closed` flag
and that the pool is closed before anybody waits or leaves.

`ApiProofs` proves of `Api`, for any clients, ids, rules, requests and number of faults,
from `ApiAssumption` and `RoutingAssumption`: `CreationInOrderHolds`, `AcknowledgedIsCompleteHolds`,
`ReadsFindRunsHolds`, `RoutedAlikeHolds` and `TypeCorrect`. The inductive invariant `IInv`
has three parts:

- of the tables (`TablesOK`): where there is no row there are no events; the events of a run
  are a prefix of the creation of its row; every row is a ticket `NewTicket` makes.
- of a request (`CallOK`): a creation past its row has appended exactly the events it
  counts; a read owes only runs of the log that it has still to read.
- of two requests: the ids that creations in progress claim are distinct, which is what
  keeps one creation's events out of another's run.

`RoutedAlikeHolds` needs in addition that whether a rule matches does not depend on the form
of a value. Its hypotheses are part of the property: the numbers of the rules (`RulesHeld`)
are among those `float64` keeps (`HeldExact`), and those of the request are, too, and are
spelt as `toString` spells them (`Held`, `Plain`), or both tickets have the same value. The
renderings of what `fromJSON`, `fromYAML`, `throughStore` and `parseLiteral` make of such
values agree; of others they do not. `RoutingAssumption` says that `MaxExact` is a power of
two.

Only model-checked is liveness (`RunEnds`, `PendingIsPickedUp`, `DelayFires`,
`GrantIsActedUpon`, `OverdueIsFlagged`, `AppendReturns`, `CloseReturns`), which is out of the
prover's reach. Beyond `Sheltered`, `AllLinksGranted` and `GrantedByApprover` are no theorems,
as above; what holds of every grant, that it was given by somebody whom the link it names
authorizes, is part of `FollowsWorkflow`.

## 5. Not modelled

How YAML is parsed; how requests are decoded and answers mapped to messages, error codes
among them, and the check of credentials: functions of one request that keep no state.
Configuration and schema creation. Generated code, the TypeScript DSL (a builder of
definitions) and the web frontend (pages over the API). Field values that are null, lists,
objects, fractions or numbers beyond int64. Of the deployment, the replacement of a definition under the runs that use it:
`Engine` has one definition. A malformed `retry_delay` is modelled (`parseDelay`), but
nothing in the repository says what it should do.

## 6. Plan

Done: the log and its PostgreSQL implementation with proofs; the engine with SLA,
approvals, retries, timers, crashes, cancelled callers and failing accesses, and proofs of
its types, its refinement of `RunHistory` and seven of its properties; the worker pool, the
compiler, the registry and deployment, routing and the API over the tables, with proofs.

Next, in this order:

1. Redeployment under running instances: a run of `Engine` whose definition `Deployment`
   replaces.
2. A run with a chain of three links, where a stale sweep is enough to misplace a grant; a
   second run that shares the channel.
