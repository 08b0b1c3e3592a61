---------------------------- MODULE EngineProofs ----------------------------
(***************************************************************************)
(* Proofs about Engine, for every workflow and any number of goroutines,   *)
(* faults and events.                                                      *)
(***************************************************************************)
EXTENDS Engine, SequenceTheorems, WellFoundedInduction, TLAPS

-----------------------------------------------------------------------------
\* The two events that open something, a run and an attempt, are appended only at the
\* beginning of what a goroutine is given to do: whatever it has to do later, or does on
\* account of what it reads on the way, appends other events.
Starts == {"RUN_STARTED", "STEP_STARTED"}

FollowUp == {e \in Event : e.type \notin Starts}

Later == {i \in Instr : i.op = "append" => i.ev \in FollowUp}

\* Goroutine t goes on, or begins, with such entries only.
GoesOn(t) == \E more \in Seq(Later) :
    \/ work[t] # <<>> /\ Continue(t, more)
    \/ work[t] = <<>> /\ Begin(t, more)

-----------------------------------------------------------------------------
\* The constructors of events build events.

LEMMA StepEventType ==
    ASSUME NEW type \in EventTypes, NEW s \in Steps \union {NoStep}
    PROVE  StepEvent(type, s) \in Event
BY DEF StepEvent, Event, NoTime

LEMMA EventTypesMembers ==
    {"TICKET_CREATED", "RUN_STARTED", "TICKET_ASSIGNED", "STEP_SCHEDULED", "STEP_STARTED",
     "STEP_COMPLETED", "STEP_FAILED", "TIMER_FIRED", "APPROVAL_REQUESTED", "APPROVAL_GRANTED",
     "APPROVAL_REJECTED", "SLA_BREACHED", "RUN_FAILING", "RUN_COMPLETED", "RUN_FAILED",
     "RUN_CANCELLED"} \subseteq EventTypes
BY DEF EventTypes

LEMMA FollowUpTypes ==
    {"TICKET_CREATED", "TICKET_ASSIGNED", "STEP_SCHEDULED", "STEP_COMPLETED", "STEP_FAILED",
     "TIMER_FIRED", "APPROVAL_REQUESTED", "APPROVAL_GRANTED", "APPROVAL_REJECTED",
     "SLA_BREACHED", "RUN_FAILING", "RUN_COMPLETED", "RUN_FAILED", "RUN_CANCELLED"}
        \subseteq EventTypes \ Starts
BY DEF EventTypes, Starts

LEMMA StepFollowUp ==
    ASSUME NEW type \in EventTypes \ Starts, NEW s \in Steps \union {NoStep}
    PROVE  StepEvent(type, s) \in FollowUp
BY StepEventType DEF StepEvent, FollowUp

LEMMA RunFollowUp ==
    ASSUME NEW type \in EventTypes \ Starts
    PROVE  RunEvent(type) \in FollowUp
BY StepFollowUp DEF RunEvent

LEMMA RunEventType ==
    ASSUME NEW type \in EventTypes
    PROVE  RunEvent(type) \in Event
BY StepEventType DEF RunEvent

LEMMA ScheduledType ==
    ASSUME NEW s \in Steps, NEW wait \in Nat \union {NoTime}
    PROVE  Scheduled(s, wait) \in FollowUp
<1>1. StepEvent("STEP_SCHEDULED", s) \in FollowUp
  BY StepFollowUp, FollowUpTypes
<1> QED BY <1>1 DEF Scheduled, FollowUp, Event

LEMMA RequestedType ==
    ASSUME NEW s \in Steps, NEW i \in Nat
    PROVE  Requested(s, i) \in FollowUp
<1>1. StepEvent("APPROVAL_REQUESTED", s) \in FollowUp
  BY StepFollowUp, FollowUpTypes
<1> QED BY <1>1 DEF Requested, FollowUp, Event

LEMMA DecidedType ==
    ASSUME NEW type \in EventTypes \ Starts, NEW s \in Steps, NEW i \in Nat, NEW by \in People
    PROVE  Decided(type, s, i, by) \in FollowUp
<1>1. StepEvent(type, s) \in FollowUp
  BY StepFollowUp
<1> QED BY <1>1 DEF Decided, FollowUp, Event

LEMMA BreachedType ==
    ASSUME NEW i \in Nat
    PROVE  Breached(i) \in Event
<1>1. RunEvent("SLA_BREACHED") \in Event
  BY RunEventType, EventTypesMembers
<1> QED BY <1>1 DEF Breached, Event

LEMMA StampType ==
    ASSUME NEW e \in Event, now \in Nat
    PROVE  Stamp(e) \in Event
BY DEF Stamp, Event

-----------------------------------------------------------------------------
\* applyOne keeps a run a run.

LEMMA ApplyStepType ==
    ASSUME NEW st \in StepState, NEW e \in Event, e.step \in Steps
    PROVE  applyStep(st, e) \in StepState
<1>1. /\ e.at \in Nat /\ e.wait \in Nat \union {NoTime} /\ e.index \in Nat
      /\ e.by \in People \union {Nobody}
  BY DEF Event
<1>2. CASE e.type = "STEP_SCHEDULED"
  <2>1. (IF e.wait = NoTime THEN st.dueAt ELSE e.at + e.wait) \in Nat \union {NoTime}
    BY <1>1 DEF StepState, NoTime
  <2>2. (IF Kind[e.step] = "task" THEN "PENDING" ELSE "WAITING") \in StepStatuses
    BY DEF StepStatuses
  <2>3. applyStep(st, e) =
            [st EXCEPT !.status = IF Kind[e.step] = "task" THEN "PENDING" ELSE "WAITING",
                       !.dueAt  = IF e.wait = NoTime THEN @ ELSE e.at + e.wait]
    BY <1>2 DEF applyStep
  <2> QED BY <2>1, <2>2, <2>3 DEF StepState
<1>3. CASE e.type = "STEP_STARTED"
  <2>1. (IF st.attempt < AttemptCap THEN st.attempt + 1 ELSE st.attempt) \in 0 .. AttemptCap
    BY AttemptCapAssumption DEF StepState
  <2>2. applyStep(st, e) =
            [st EXCEPT !.status = "RUNNING",
                       !.attempt = IF @ < AttemptCap THEN @ + 1 ELSE @]
    BY <1>3 DEF applyStep
  <2> QED BY <2>1, <2>2 DEF StepState, StepStatuses
<1>4. CASE e.type = "STEP_COMPLETED"
  BY <1>4 DEF applyStep, StepState, StepStatuses
<1>5. CASE e.type = "STEP_FAILED"
  BY <1>5 DEF applyStep, StepState, StepStatuses
<1>6. CASE e.type = "APPROVAL_REQUESTED"
  BY <1>1, <1>6 DEF applyStep, StepState, StepStatuses, ApprovalStatuses
<1>7. CASE e.type = "APPROVAL_GRANTED"
  BY <1>1, <1>7 DEF applyStep, StepState, ApprovalStatuses
<1>8. CASE e.type = "APPROVAL_REJECTED"
  BY <1>1, <1>8 DEF applyStep, StepState, StepStatuses, ApprovalStatuses
<1>9. CASE e.type \notin {"STEP_SCHEDULED", "STEP_STARTED", "STEP_COMPLETED", "STEP_FAILED",
                          "APPROVAL_REQUESTED", "APPROVAL_GRANTED", "APPROVAL_REJECTED"}
  BY <1>9 DEF applyStep
<1> QED BY <1>2, <1>3, <1>4, <1>5, <1>6, <1>7, <1>8, <1>9

LEMMA ApplyOneType ==
    ASSUME NEW r \in Run, NEW e \in Event
    PROVE  applyOne(r, e) \in Run
<1>1. CASE e.type = "TICKET_CREATED"
  BY <1>1 DEF applyOne, Run, Event
<1>2. CASE e.type = "RUN_STARTED"
  <2>1. ensureStep(r.steps[Initial]) \in StepState
    BY WorkflowAssumption DEF ensureStep, Run, StepState, StepStatuses
  <2>2. [r.steps EXCEPT ![Initial] = ensureStep(@)] \in [Steps -> StepState]
    BY <2>1, WorkflowAssumption DEF Run
  <2>3. applyOne(r, e) = [r EXCEPT !.status = "ACTIVE", !.steps[Initial] = ensureStep(@)]
    BY <1>2 DEF applyOne
  <2>4. applyOne(r, e) = [r EXCEPT !.status = "ACTIVE",
                                   !.steps = [r.steps EXCEPT ![Initial] = ensureStep(@)]]
    BY <2>3 DEF Run
  <2> QED BY <2>2, <2>4 DEF Run, RunStatuses
<1>3. CASE e.type \in {"RUN_COMPLETED", "RUN_FAILED", "RUN_CANCELLED", "RUN_FAILING"}
  BY <1>3 DEF applyOne, Run, RunStatuses
<1>4. CASE e.type \notin {"TICKET_CREATED", "RUN_STARTED", "RUN_COMPLETED", "RUN_FAILED",
                          "RUN_CANCELLED", "RUN_FAILING"}
  <2>1. applyOne(r, e) =
          IF e.step \in Steps THEN [r EXCEPT !.steps[e.step] = applyStep(@, e)] ELSE r
    BY <1>4 DEF applyOne
  <2>2. CASE e.step \in Steps
    <3>1. applyStep(r.steps[e.step], e) \in StepState
      BY <2>2, ApplyStepType DEF Run
    <3> QED BY <2>1, <2>2, <3>1 DEF Run
  <2> QED BY <2>1, <2>2
<1> QED BY <1>1, <1>2, <1>3, <1>4

-----------------------------------------------------------------------------
\* Everything a goroutine is given to do is a sequence of entries.

LEMMA AppendInstr == ASSUME NEW e \in FollowUp PROVE append(e) \in Later
BY DEF append, Later, FollowUp, Instr

LEMMA DispatchInstr == GetRunAndDispatch \in Later
BY DEF GetRunAndDispatch, Later, Instr

LEMMA OneEntry == ASSUME NEW i \in Later PROVE <<i>> \in Seq(Later)
OBVIOUS

LEMMA TwoEntries == ASSUME NEW i \in Later, NEW j \in Later PROVE <<i, j>> \in Seq(Later)
OBVIOUS

LEMMA LoopsLater == FlagLoop \union ScanLoop \union ApprovalsLoop \subseteq Later
<1>1. \A i \in FlagLoop \union ScanLoop \union ApprovalsLoop : i.op # "append"
  BY DEF FlagLoop, ScanLoop, ApprovalsLoop
<1>2. FlagLoop \union ScanLoop \union ApprovalsLoop \subseteq Instr
  BY DEF Instr
<1> QED BY <1>1, <1>2 DEF Later

LEMMA LoopType == ASSUME NEW i \in Later PROVE Loop(i) \in Seq(Later)
BY EmptySeq DEF Loop

LEMMA scheduleStepType ==
    ASSUME NEW s \in Steps
    PROVE  scheduleStep(s) \in Seq(Later)
<1>1. Kind[s] \in {"task", "approval", "delay"} /\ DelayOf[s] \in Nat
  BY WorkflowAssumption
<1>2. append(Requested(s, 0)) \in Later /\ append(Scheduled(s, NoTime)) \in Later
  BY RequestedType, ScheduledType, AppendInstr
<1>3. append(Scheduled(s, DelayOf[s])) \in Later
  BY <1>1, ScheduledType, AppendInstr
<1> QED BY <1>1, <1>2, <1>3, OneEntry, TwoEntries DEF scheduleStep

LEMMA advanceType ==
    ASSUME NEW failed \in BOOLEAN, NEW s \in Steps, NEW succeeded \in BOOLEAN
    PROVE  advance(failed, s, succeeded) \in Seq(Later)
<1> DEFINE nxt == IF succeeded THEN NextStep[s] ELSE OnError[s]
<1>1. nxt \in Steps \union {NoStep}
  BY WorkflowAssumption
<1>2. CASE nxt = NoStep
  <2>1. StepEvent(IF succeeded /\ ~failed THEN "RUN_COMPLETED" ELSE "RUN_FAILED", s) \in FollowUp
    BY StepFollowUp, FollowUpTypes
  <2> QED BY <1>2, <2>1, AppendInstr, OneEntry DEF advance
<1>3. CASE nxt \in Steps
  <2>1. scheduleStep(nxt) \in Seq(Later)
    BY <1>3, scheduleStepType
  <2>2. <<GetRunAndDispatch>> \in Seq(Later)
    BY DispatchInstr, OneEntry
  <2>3. advance(failed, s, succeeded) = scheduleStep(nxt) \o <<GetRunAndDispatch>>
    BY <1>3, WorkflowAssumption DEF advance
  <2> QED BY <2>1, <2>2, <2>3, ConcatProperties
<1> QED BY <1>1, <1>2, <1>3

LEMMA failStepType ==
    ASSUME NEW failed \in BOOLEAN, NEW s \in Steps
    PROVE  failStep(failed, s) \in Seq(Later)
<1>1. append(StepEvent("STEP_FAILED", s)) \in Later /\ append(StepEvent("RUN_FAILING", s)) \in Later
  BY StepFollowUp, FollowUpTypes, AppendInstr
<1>2. <<append(StepEvent("STEP_FAILED", s)), append(StepEvent("RUN_FAILING", s))>> \in Seq(Later)
  BY <1>1, TwoEntries
<1>3. advance(failed, s, FALSE) \in Seq(Later)
  BY advanceType
<1> QED BY <1>2, <1>3, ConcatProperties DEF failStep

LEMMA handleTaskFailureType ==
    ASSUME NEW r \in Run, NEW s \in Steps
    PROVE  handleTaskFailure(r, s) \in Seq(Later)
<1>1. failStep(r.failed, s) \in Seq(Later)
  BY failStepType DEF Run
<1>2. append(StepEvent("STEP_FAILED", s)) \in Later
  BY StepFollowUp, FollowUpTypes, AppendInstr
<1>3. append(Scheduled(s, IF RetryDelay[s] > 0 THEN RetryDelay[s] ELSE NoTime)) \in Later
  BY WorkflowAssumption, ScheduledType, AppendInstr
<1>4. <<append(StepEvent("STEP_FAILED", s)),
        append(Scheduled(s, IF RetryDelay[s] > 0 THEN RetryDelay[s] ELSE NoTime)),
        GetRunAndDispatch>> \in Seq(Later)
  BY <1>2, <1>3, DispatchInstr
<1> QED BY <1>1, <1>4 DEF handleTaskFailure

LEMMA fireTimerType ==
    ASSUME NEW failed \in BOOLEAN, NEW s \in Steps
    PROVE  fireTimer(failed, s) \in Seq(Later)
<1>1. append(StepEvent("TIMER_FIRED", s)) \in Later /\ append(StepEvent("STEP_COMPLETED", s)) \in Later
  BY StepFollowUp, FollowUpTypes, AppendInstr
<1>2. <<append(StepEvent("TIMER_FIRED", s)), append(StepEvent("STEP_COMPLETED", s))>> \in Seq(Later)
  BY <1>1, TwoEntries
<1>3. advance(failed, s, TRUE) \in Seq(Later)
  BY advanceType
<1> QED BY <1>2, <1>3, ConcatProperties DEF fireTimer

LEMMA CompleteType ==
    ASSUME NEW failed \in BOOLEAN, NEW s \in Steps
    PROVE  <<append(StepEvent("STEP_COMPLETED", s))>> \o advance(failed, s, TRUE) \in Seq(Later)
<1>1. <<append(StepEvent("STEP_COMPLETED", s))>> \in Seq(Later)
  BY StepFollowUp, FollowUpTypes, AppendInstr, OneEntry
<1>2. advance(failed, s, TRUE) \in Seq(Later)
  BY advanceType
<1> QED BY <1>1, <1>2, ConcatProperties

LEMMA advanceApprovalType ==
    ASSUME NEW failed \in BOOLEAN, NEW s \in Steps, NEW i \in Nat
    PROVE  advanceApproval(failed, s, i) \in Seq(Later)
<1>1. <<append(Requested(s, i + 1))>> \in Seq(Later)
  BY RequestedType, AppendInstr, OneEntry
<1> QED BY <1>1, CompleteType DEF advanceApproval

LEMMA ScanType ==
    ASSUME NEW r \in Run, NEW due \in [Steps -> Nat \union {NoTime}]
    PROVE  Scan(r, due) \in Later
<1>1. ReadyTasks(r) \union ArmedTimers(r) \subseteq Steps
  BY DEF ReadyTasks, ArmedTimers
<1>2. {[step |-> s, due |-> due[s]] : s \in ReadyTasks(r) \union ArmedTimers(r)}
          \subseteq [step : Steps, due : Nat \union {NoTime}]
  BY <1>1
<1> QED BY <1>2 DEF Scan, Later, Instr, ScanLoop, Run

LEMMA dispatchType ==
    ASSUME NEW r \in Run
    PROVE  dispatch(r) \in Seq(Later)
<1> DEFINE sla == IF SLAs = <<>> \/ r.status # "ACTIVE" THEN <<>>
                  ELSE <<[op |-> "checkSLA", active |-> ActiveSteps(r)]>>
           appr == [op |-> "approvals", failed |-> r.failed, todo |->
                      {[step |-> s, index |-> r.steps[s].index] : s \in GrantedLinks(r)}]
<1>1. sla \in Seq(Later)
  <2>1. [op |-> "checkSLA", active |-> ActiveSteps(r)] \in Later
    BY DEF ActiveSteps, Later, Instr
  <2> QED BY <2>1, EmptySeq, OneEntry
<1>2. Loop(Scan(r, DueDates(r))) \in Seq(Later)
  <2>1. DueDates(r) \in [Steps -> Nat \union {NoTime}]
    BY DEF DueDates, Run, StepState
  <2> QED BY <2>1, ScanType, LoopType
<1>3. Loop(appr) \in Seq(Later)
  <2>1. GrantedLinks(r) \subseteq Steps /\ r.failed \in BOOLEAN
    BY DEF GrantedLinks, Run
  <2>2. \A s \in Steps : r.steps[s].index \in Nat
    BY DEF Run, StepState
  <2>3. {[step |-> s, index |-> r.steps[s].index] : s \in GrantedLinks(r)}
            \subseteq [step : Steps, index : Nat]
    BY <2>1, <2>2
  <2>4. appr \in Later
    BY <2>1, <2>3 DEF Later, Instr, ApprovalsLoop
  <2> QED BY <2>4, LoopType
<1>4. dispatch(r) = IF Terminal(r) THEN <<>>
                    ELSE (sla \o Loop(Scan(r, DueDates(r)))) \o Loop(appr)
  BY DEF dispatch
<1> HIDE DEF sla, appr
<1>5. sla \o Loop(Scan(r, DueDates(r))) \in Seq(Later)
  BY <1>1, <1>2, ConcatProperties
<1> QED BY <1>3, <1>4, <1>5, ConcatProperties, EmptySeq

LEMMA dispatchAfterType ==
    ASSUME NEW r \in Run
    PROVE  dispatchAfter(r) \in Seq(Later)
<1> DEFINE due == [s \in Steps |-> IF Kind[s] = "task" THEN NoTime ELSE r.steps[s].dueAt]
<1>1. due \in [Steps -> Nat \union {NoTime}]
  BY DEF Run, StepState
<1> HIDE DEF due
<1>2. Loop(Scan(r, due)) \in Seq(Later)
  BY <1>1, ScanType, LoopType
<1> QED BY <1>2, EmptySeq DEF dispatchAfter, due

-----------------------------------------------------------------------------
\* Each action keeps the types.

LEMMA RecordType ==
    ASSUME TypeOK, NEW e \in Event, Record(e)
    PROVE  log' \subseteq Event /\ run' \in Run
<1>1. Stamp(e) \in Event
  BY StampType DEF TypeOK
<1> QED BY <1>1, ApplyOneType DEF Record, TypeOK

LEMMA LaterSeq ==
    ASSUME NEW todo \in Seq(Later)
    PROVE  todo \in Seq(Instr)
<1>1. Len(todo) \in Nat /\ \A n \in 1 .. Len(todo) : todo[n] \in Instr
  BY ElementOfSeq, LenProperties DEF Later
<1>2. todo \in [1 .. Len(todo) -> Instr]
  BY <1>1, LenProperties
<1> QED BY <1>1, <1>2, SeqDef

LEMMA ContinueType ==
    ASSUME TypeOK, NEW t \in Threads, NEW more \in Seq(Later), work[t] # <<>>, Continue(t, more)
    PROVE  GoesOn(t) /\ work' \in [Threads -> Seq(Instr)]
<1>1. work[t] \in Seq(Instr)
  BY DEF TypeOK
<1>2. Tail(work[t]) \in Seq(Instr)
  BY <1>1
<1>3. more \o Tail(work[t]) \in Seq(Instr)
  BY <1>2, LaterSeq, ConcatProperties
<1>4. work' \in [Threads -> Seq(Instr)]
  BY <1>3 DEF Continue, TypeOK
<1>5. GoesOn(t)
  BY DEF GoesOn
<1> QED BY <1>4, <1>5

LEMMA BeginType ==
    ASSUME TypeOK, NEW t \in Threads, NEW todo \in Seq(Later), work[t] = <<>>, Begin(t, todo)
    PROVE  GoesOn(t) /\ work' \in [Threads -> Seq(Instr)]
<1>1. work' \in [Threads -> Seq(Instr)]
  BY LaterSeq DEF Begin, TypeOK
<1>2. GoesOn(t)
  BY DEF GoesOn
<1> QED BY <1>1, <1>2

LEMMA HeadType ==
    ASSUME TypeOK, NEW t \in Threads, NEW o, At(t, o)
    PROVE  /\ work[t] # <<>> /\ Head(work[t]) \in Instr
           /\ o = "append" => Head(work[t]).ev \in Event
           /\ o = "checkSLA" => Head(work[t]).active \in SUBSET Steps
           /\ o = "flag" => Head(work[t]) \in FlagLoop
           /\ o = "scan" => Head(work[t]) \in ScanLoop
           /\ o = "approvals" => Head(work[t]) \in ApprovalsLoop
           /\ o = "handler" => /\ Head(work[t]).step \in Steps /\ Head(work[t]).failed \in BOOLEAN
                              /\ Head(work[t]).attempt \in 0 .. AttemptCap
           /\ o = "granted" => Head(work[t]).step \in Steps
<1> DEFINE h == Head(work[t])
<1>1. work[t] \in Seq(Instr) /\ work[t] # <<>> /\ h.op = o
  BY DEF TypeOK, At
<1>2. h \in Instr
  BY <1>1
<1> HIDE DEF h
<1>3. h \in FlagLoop => h.op = "flag"
  BY DEF FlagLoop
<1>4. h \in ScanLoop => h.op = "scan"
  BY DEF ScanLoop
<1>5. h \in ApprovalsLoop => h.op = "approvals"
  BY DEF ApprovalsLoop
<1>6. /\ o = "flag" => h \in FlagLoop
      /\ o = "scan" => h \in ScanLoop
      /\ o = "approvals" => h \in ApprovalsLoop
  BY <1>1, <1>2, <1>3, <1>4, <1>5 DEF Instr
<1>7. /\ o = "append" => h.ev \in Event
      /\ o = "checkSLA" => h.active \in SUBSET Steps
      /\ o = "handler" => h.step \in Steps /\ h.failed \in BOOLEAN /\ h.attempt \in 0 .. AttemptCap
      /\ o = "granted" => h.step \in Steps
  <2>1. CASE h \in FlagLoop \union ScanLoop \union ApprovalsLoop
    BY <1>1, <1>3, <1>4, <1>5, <2>1
  <2>2. CASE h \notin FlagLoop \union ScanLoop \union ApprovalsLoop
    BY <1>1, <1>2, <2>2 DEF Instr
  <2> QED BY <2>1, <2>2
<1> QED BY <1>1, <1>2, <1>6, <1>7 DEF h

LEMMA ThreadsMembers == Workers \subseteq Threads /\ Clients \subseteq Threads /\ Timer \in Threads
BY DEF Threads

\* CreateTicket begins with the event that starts the run.
LEMMA CreateTicketType ==
    ASSUME TypeOK, NEW c \in Clients, CreateTicket(c)
    PROVE  /\ TypeOK'
           /\ \E more \in Seq(Later) : Begin(c, <<append(RunEvent("RUN_STARTED"))>> \o more)
<1> DEFINE more == scheduleStep(Initial) \o <<append(RunEvent("TICKET_ASSIGNED")), GetRunAndDispatch>>
<1>1. RunEvent("TICKET_CREATED") \in Event /\ RunEvent("RUN_STARTED") \in Event
  BY RunEventType, EventTypesMembers
<1>2. <<append(RunEvent("RUN_STARTED"))>> \in Seq(Instr)
  BY <1>1 DEF append, Instr
<1>3. scheduleStep(Initial) \in Seq(Later)
  BY scheduleStepType, WorkflowAssumption
<1>4. <<append(RunEvent("TICKET_ASSIGNED")), GetRunAndDispatch>> \in Seq(Later)
  BY RunFollowUp, FollowUpTypes, AppendInstr, DispatchInstr, TwoEntries
<1>5. more \in Seq(Later)
  BY <1>3, <1>4, ConcatProperties
<1>6. Begin(c, <<append(RunEvent("RUN_STARTED"))>> \o more)
  <2>1. <<append(RunEvent("RUN_STARTED"))>> \o more =
           <<append(RunEvent("RUN_STARTED"))>> \o scheduleStep(Initial)
               \o <<append(RunEvent("TICKET_ASSIGNED")), GetRunAndDispatch>>
    BY <1>2, <1>3, <1>4, LaterSeq, ConcatAssociative
  <2> QED BY <2>1 DEF CreateTicket
<1> HIDE DEF more
<1>7. <<append(RunEvent("RUN_STARTED"))>> \o more \in Seq(Instr)
  BY <1>2, <1>5, LaterSeq, ConcatProperties
<1>8. work' \in [Threads -> Seq(Instr)]
  BY <1>6, <1>7, ThreadsMembers DEF Begin, TypeOK
<1>9. log' \subseteq Event /\ run' \in Run
  BY <1>1, RecordType DEF CreateTicket
<1> QED BY <1>5, <1>6, <1>8, <1>9 DEF CreateTicket, TypeOK

LEMMA DecideType ==
    ASSUME TypeOK, NEW c \in Clients, NEW s \in Steps, NEW by \in People,
           Approve(c, s, by) \/ Reject(c, s, by)
    PROVE  TypeOK' /\ GoesOn(c)
<1>1. run.steps[s].index \in Nat
  BY DEF TypeOK, Run, StepState
<1>2. CASE Approve(c, s, by)
  <2>1. append(Decided("APPROVAL_GRANTED", s, run.steps[s].index, by)) \in Later
    BY <1>1, DecidedType, FollowUpTypes, AppendInstr
  <2>2. [op |-> "granted", step |-> s] \in Later
    BY DEF Later, Instr
  <2>3. GoesOn(c) /\ work' \in [Threads -> Seq(Instr)]
    BY <1>2, <2>1, <2>2, TwoEntries, BeginType, ThreadsMembers DEF Approve, MayDecide, Idle
  <2> QED BY <1>2, <2>3 DEF Approve, TypeOK
<1>3. CASE Reject(c, s, by)
  <2>1. append(Decided("APPROVAL_REJECTED", s, run.steps[s].index, by)) \in Later
    BY <1>1, DecidedType, FollowUpTypes, AppendInstr
  <2>2. append(StepEvent("RUN_FAILED", s)) \in Later
    BY StepFollowUp, FollowUpTypes, AppendInstr
  <2>3. GoesOn(c) /\ work' \in [Threads -> Seq(Instr)]
    BY <1>3, <2>1, <2>2, TwoEntries, BeginType, ThreadsMembers DEF Reject, MayDecide, Idle
  <2> QED BY <1>3, <2>3 DEF Reject, TypeOK
<1> QED BY <1>2, <1>3

LEMMA CancelType == ASSUME TypeOK, NEW c \in Clients, Cancel(c) PROVE TypeOK' /\ GoesOn(c)
<1>1. <<append(RunEvent("RUN_CANCELLED"))>> \in Seq(Later)
  BY RunFollowUp, FollowUpTypes, AppendInstr, OneEntry
<1>2. GoesOn(c) /\ work' \in [Threads -> Seq(Instr)]
  BY <1>1, BeginType, ThreadsMembers DEF Cancel, Idle
<1> QED BY <1>2 DEF Cancel, TypeOK

LEMMA RecoverType == ASSUME TypeOK, NEW c \in Clients, Recover(c) PROVE TypeOK' /\ GoesOn(c)
<1>1. dispatch(run) \in Seq(Later)
  BY dispatchType DEF TypeOK
<1>2. GoesOn(c) /\ work' \in [Threads -> Seq(Instr)]
  BY <1>1, BeginType, ThreadsMembers DEF Recover, Idle
<1> QED BY <1>2 DEF Recover, TypeOK

LEMMA AppendEventType == ASSUME TypeOK, NEW t \in Threads, AppendEvent(t) PROVE TypeOK' /\ GoesOn(t)
<1>1. work[t] # <<>> /\ Head(work[t]).ev \in Event
  BY HeadType DEF AppendEvent
<1>2. log' \subseteq Event /\ run' \in Run
  BY <1>1, RecordType DEF AppendEvent
<1>3. GoesOn(t) /\ work' \in [Threads -> Seq(Instr)]
  BY <1>1, ContinueType, EmptySeq DEF AppendEvent
<1> QED BY <1>2, <1>3 DEF AppendEvent, TypeOK

LEMMA DispatchType == ASSUME TypeOK, NEW t \in Threads, Dispatch(t) PROVE TypeOK' /\ GoesOn(t)
<1>1. work[t] # <<>>
  BY DEF Dispatch, At
<1>2. dispatch(run) \in Seq(Later)
  BY dispatchType DEF TypeOK
<1>3. GoesOn(t) /\ work' \in [Threads -> Seq(Instr)]
  BY <1>1, <1>2, ContinueType DEF Dispatch
<1> QED BY <1>3 DEF Dispatch, TypeOK

LEMMA GrantedType == ASSUME TypeOK, NEW t \in Threads, Granted(t) PROVE TypeOK' /\ GoesOn(t)
<1> DEFINE s == Head(work[t]).step
           adv == IF run.steps[s].approval # "granted" THEN <<>>
                  ELSE advanceApproval(run.failed, s, run.steps[s].index)
<1>1. work[t] # <<>> /\ s \in Steps
  BY HeadType DEF Granted
<1>2. run \in Run /\ run.failed \in BOOLEAN /\ run.steps[s].index \in Nat
  BY <1>1 DEF TypeOK, Run, StepState
<1>3. advanceApproval(run.failed, s, run.steps[s].index) \in Seq(Later)
  BY <1>1, <1>2, advanceApprovalType
<1>4. adv \o dispatchAfter(run) \in Seq(Later)
  BY <1>2, <1>3, dispatchAfterType, EmptySeq, ConcatProperties
<1>5. Continue(t, adv \o dispatchAfter(run))
  BY DEF Granted
<1> HIDE DEF adv
<1>6. GoesOn(t) /\ work' \in [Threads -> Seq(Instr)]
  BY <1>1, <1>4, <1>5, ContinueType
<1> QED BY <1>6 DEF Granted, TypeOK

LEMMA CheckSLAType == ASSUME TypeOK, NEW t \in Threads, CheckSLA(t) PROVE TypeOK' /\ GoesOn(t)
<1>1. work[t] # <<>> /\ Head(work[t]).active \in SUBSET Steps
  BY HeadType DEF CheckSLA
<1>2. PICK todo \in SUBSET (DOMAIN SLAs) :
          Continue(t, Loop([op |-> "flag", active |-> Head(work[t]).active, todo |-> todo]))
  BY DEF CheckSLA
<1>3. [op |-> "flag", active |-> Head(work[t]).active, todo |-> todo] \in Later
  BY <1>1 DEF Later, Instr, FlagLoop
<1>4. GoesOn(t) /\ work' \in [Threads -> Seq(Instr)]
  BY <1>1, <1>2, <1>3, LoopType, ContinueType
<1> QED BY <1>4 DEF CheckSLA, TypeOK

LEMMA EscalateType ==
    ASSUME TypeOK, NEW t \in Threads, At(t, "flag"), NEW i \in Head(work[t]).todo, Escalate(t, i)
    PROVE  GoesOn(t) /\ work' \in [Threads -> Seq(Instr)] /\ i \in Nat
<1> DEFINE cur == Head(work[t])
           jump == IF SLAs[i].onBreach \in cur.active \union {NoStep} THEN <<>>
                   ELSE scheduleStep(SLAs[i].onBreach) \o <<GetRunAndDispatch>>
<1>1. work[t] # <<>> /\ cur \in FlagLoop
  BY HeadType
<1>2. i \in DOMAIN SLAs
  BY <1>1 DEF FlagLoop
<1>3. i \in Nat /\ SLAs[i].onBreach \in Steps \union {NoStep}
  <2>1. SLAs \in Seq([duration : Nat, onBreach : Steps \union {NoStep}])
    BY WorkflowAssumption
  <2>2. i \in 1 .. Len(SLAs) /\ Len(SLAs) \in Nat
    BY <1>2, <2>1, LenProperties
  <2>3. SLAs[i] \in [duration : Nat, onBreach : Steps \union {NoStep}]
    BY <2>1, <2>2, ElementOfSeq
  <2> QED BY <2>2, <2>3
<1>4. jump \in Seq(Later)
  <2>1. <<GetRunAndDispatch>> \in Seq(Later)
    BY DispatchInstr, OneEntry
  <2>2. SLAs[i].onBreach \in Steps => scheduleStep(SLAs[i].onBreach) \o <<GetRunAndDispatch>> \in Seq(Later)
    BY <2>1, scheduleStepType, ConcatProperties
  <2> QED BY <1>3, <2>2, EmptySeq
<1>5. [cur EXCEPT !.todo = @ \ {i}] \in Later
  <2>1. [cur EXCEPT !.todo = @ \ {i}] \in FlagLoop
    BY <1>1 DEF FlagLoop
  <2> QED BY <2>1, LoopsLater
<1>6. Continue(t, jump \o Loop([cur EXCEPT !.todo = @ \ {i}]))
  BY DEF Escalate
<1> HIDE DEF jump, cur
<1>7. jump \o Loop([cur EXCEPT !.todo = @ \ {i}]) \in Seq(Later)
  BY <1>4, <1>5, LoopType, ConcatProperties
<1> QED BY <1>1, <1>3, <1>6, <1>7, ContinueType

LEMMA FlagType == ASSUME TypeOK, NEW t \in Threads, Flag(t) PROVE TypeOK' /\ GoesOn(t)
<1>1. At(t, "flag")
  BY DEF Flag
<1>2. PICK i \in Head(work[t]).todo : Record(Breached(i)) /\ Escalate(t, i)
  BY DEF Flag
<1>3. GoesOn(t) /\ work' \in [Threads -> Seq(Instr)] /\ i \in Nat
  BY <1>1, <1>2, EscalateType
<1>4. log' \subseteq Event /\ run' \in Run
  BY <1>2, <1>3, BreachedType, RecordType
<1> QED BY <1>3, <1>4 DEF Flag, TypeOK

LEMMA ScanStepType == ASSUME TypeOK, NEW t \in Threads, ScanStep(t) PROVE TypeOK' /\ GoesOn(t)
<1> DEFINE cur == Head(work[t])
           rest(item) == Loop([cur EXCEPT !.todo = @ \ {item}])
<1>1. work[t] # <<>> /\ cur \in ScanLoop /\ cur.failed \in BOOLEAN
  BY HeadType DEF ScanStep, ScanLoop
<1>2. \A item \in cur.todo : item.step \in Steps
  BY <1>1 DEF ScanLoop
<1>3. ASSUME NEW item PROVE rest(item) \in Seq(Later)
  <2>1. [cur EXCEPT !.todo = @ \ {item}] \in ScanLoop
    BY <1>1 DEF ScanLoop
  <2>2. [cur EXCEPT !.todo = @ \ {item}] \in Later
    BY <2>1, LoopsLater
  <2> QED BY <2>2, LoopType
<1>4. \/ Continue(t, <<>>) /\ UNCHANGED queue
      \/ \E item \in cur.todo : Continue(t, rest(item)) /\ UNCHANGED queue
      \/ \E item \in cur.todo : Continue(t, rest(item)) /\ queue' = queue \o <<item.step>>
      \/ \E item \in cur.todo : /\ Continue(t, fireTimer(cur.failed, item.step) \o rest(item))
                               /\ UNCHANGED queue
  BY DEF ScanStep
<1> HIDE DEF cur, rest
<1>5. GoesOn(t) /\ work' \in [Threads -> Seq(Instr)] /\ queue' \in Seq(Steps)
  <2>1. queue \in Seq(Steps)
    BY DEF TypeOK
  <2>2. CASE Continue(t, <<>>) /\ UNCHANGED queue
    BY <1>1, <2>1, <2>2, EmptySeq, ContinueType
  <2>3. ASSUME NEW item \in cur.todo, Continue(t, rest(item)), UNCHANGED queue
        PROVE  GoesOn(t) /\ work' \in [Threads -> Seq(Instr)] /\ queue' \in Seq(Steps)
    BY <1>1, <1>3, <2>1, <2>3, ContinueType
  <2>4. ASSUME NEW item \in cur.todo, Continue(t, rest(item)), queue' = queue \o <<item.step>>
        PROVE  GoesOn(t) /\ work' \in [Threads -> Seq(Instr)] /\ queue' \in Seq(Steps)
    <3>1. <<item.step>> \in Seq(Steps)
      BY <1>2
    <3>2. queue' \in Seq(Steps)
      BY <2>1, <2>4, <3>1, ConcatProperties
    <3> QED BY <1>1, <1>3, <2>4, <3>2, ContinueType
  <2>5. ASSUME NEW item \in cur.todo, UNCHANGED queue,
               Continue(t, fireTimer(cur.failed, item.step) \o rest(item))
        PROVE  GoesOn(t) /\ work' \in [Threads -> Seq(Instr)] /\ queue' \in Seq(Steps)
    <3>1. fireTimer(cur.failed, item.step) \in Seq(Later)
      BY <1>1, <1>2, fireTimerType
    <3>2. fireTimer(cur.failed, item.step) \o rest(item) \in Seq(Later)
      BY <1>3, <3>1, ConcatProperties
    <3> QED BY <1>1, <2>1, <2>5, <3>2, ContinueType
  <2> QED BY <1>4, <2>2, <2>3, <2>4, <2>5
<1> QED BY <1>5 DEF ScanStep, TypeOK

LEMMA ApprovalStepType == ASSUME TypeOK, NEW t \in Threads, ApprovalStep(t) PROVE TypeOK' /\ GoesOn(t)
<1> DEFINE cur == Head(work[t])
<1>1. work[t] # <<>> /\ cur \in ApprovalsLoop /\ cur.failed \in BOOLEAN
  BY HeadType DEF ApprovalStep, ApprovalsLoop
<1>2. PICK item \in cur.todo :
        Continue(t, advanceApproval(cur.failed, item.step, item.index)
                    \o Loop([cur EXCEPT !.todo = @ \ {item}]))
  BY DEF ApprovalStep
<1>3. item.step \in Steps /\ item.index \in Nat
  BY <1>1 DEF ApprovalsLoop
<1>4. advanceApproval(cur.failed, item.step, item.index) \in Seq(Later)
  BY <1>1, <1>3, advanceApprovalType
<1>5. [cur EXCEPT !.todo = @ \ {item}] \in Later
  <2>1. [cur EXCEPT !.todo = @ \ {item}] \in ApprovalsLoop
    BY <1>1 DEF ApprovalsLoop
  <2> QED BY <2>1, LoopsLater
<1>6. advanceApproval(cur.failed, item.step, item.index)
        \o Loop([cur EXCEPT !.todo = @ \ {item}]) \in Seq(Later)
  BY <1>4, <1>5, LoopType, ConcatProperties
<1>7. GoesOn(t) /\ work' \in [Threads -> Seq(Instr)]
  BY <1>1, <1>2, <1>6, ContinueType
<1> QED BY <1>7 DEF ApprovalStep, TypeOK

\* An execution begins with the event that starts the attempt, and its handler next.
Attempts(w) ==
    \E s \in Steps, h \in Later :
        /\ h.op = "handler" /\ h.step = s
        /\ Begin(w, <<append(StepEvent("STEP_STARTED", s)), h>>)

LEMMA executeTaskType ==
    ASSUME TypeOK, NEW w \in Workers, executeTask(w)
    PROVE  TypeOK' /\ (Attempts(w) \/ GoesOn(w))
<1> DEFINE s == Head(queue)
           h == [op |-> "handler", step |-> s, failed |-> run.failed,
                 attempt |-> run.steps[s].attempt]
<1>1. s \in Steps /\ Tail(queue) \in Seq(Steps) /\ run.failed \in BOOLEAN
  BY DEF executeTask, TypeOK, Run
<1>2. run.steps[s].attempt \in 0 .. AttemptCap
  BY <1>1 DEF TypeOK, Run, StepState
<1>3. h \in Later /\ h.op = "handler" /\ h.step = s
  BY <1>1, <1>2 DEF Later, Instr
<1>4. <<append(StepEvent("STEP_STARTED", s)), h>> \in Seq(Instr)
  <2>1. append(StepEvent("STEP_STARTED", s)) \in Instr
    BY <1>1, StepEventType, EventTypesMembers DEF append, Instr
  <2> QED BY <1>3, <2>1 DEF Later
<1>5. failStep(run.failed, s) \in Seq(Later)
  BY <1>1, failStepType
<1>6. Begin(w, IF handlers THEN <<append(StepEvent("STEP_STARTED", s)), h>>
               ELSE failStep(run.failed, s))
  BY DEF executeTask
<1> HIDE DEF h
<1>7. work' \in [Threads -> Seq(Instr)] /\ (Attempts(w) \/ GoesOn(w))
  <2>1. CASE handlers
    BY <1>1, <1>3, <1>4, <1>6, <2>1, ThreadsMembers DEF Begin, TypeOK, Attempts
  <2>2. CASE ~handlers
    BY <1>5, <1>6, <2>2, BeginType, ThreadsMembers DEF executeTask, Idle
  <2> QED BY <2>1, <2>2
<1> QED BY <1>1, <1>7 DEF executeTask, TypeOK

LEMMA HandlerType == ASSUME TypeOK, NEW w \in Threads, Handler(w) PROVE TypeOK' /\ GoesOn(w)
<1> DEFINE s == Head(work[w]).step
<1>1. work[w] # <<>> /\ s \in Steps /\ Head(work[w]).failed \in BOOLEAN
  BY HeadType DEF Handler
<1>2. <<append(StepEvent("STEP_COMPLETED", s))>> \o advance(Head(work[w]).failed, s, TRUE) \in Seq(Later)
  BY <1>1, CompleteType
<1>3. handleTaskFailure(run, s) \in Seq(Later)
  BY <1>1, handleTaskFailureType DEF TypeOK
<1>4. GoesOn(w) /\ work' \in [Threads -> Seq(Instr)]
  BY <1>1, <1>2, <1>3, ContinueType DEF Handler
<1> QED BY <1>4 DEF Handler, TypeOK

LEMMA EnvironmentType ==
    ASSUME TypeOK, Tick \/ RegisterTasks \/ Crash
    PROVE  TypeOK'
<1>1. CASE Tick
  BY <1>1 DEF Tick, TypeOK
<1>2. CASE RegisterTasks
  BY <1>2 DEF RegisterTasks, TypeOK
<1>3. CASE Crash
  <2>1. work' \in [Threads -> Seq(Instr)] /\ queue' \in Seq(Steps)
    BY <1>3, EmptySeq DEF Crash
  <2>2. faults' \in Nat
    BY <1>3 DEF Crash, TypeOK
  <2>4. handlers' \in BOOLEAN
    BY <1>3 DEF Crash
  <2>3. log' \subseteq Event /\ run' \in Run /\ now' \in Nat
    BY <1>3 DEF Crash, TypeOK
  <2> QED BY <2>1, <2>2, <2>3, <2>4 DEF TypeOK
<1> QED BY <1>1, <1>2, <1>3

LEMMA DisconnectType ==
    ASSUME TypeOK, NEW c \in Clients, Disconnect(c)
    PROVE  TypeOK' /\ \E todo \in Seq(Later) : Begin(c, todo)
<1>1. work[c] \in Seq(Instr) /\ Len(work[c]) \in Nat
  BY ThreadsMembers DEF TypeOK
<1>2. ASSUME NEW i \in Instr PROVE Survivor(i) \in Later
  <2>1. i.op = "scan" => i \in ScanLoop
    BY DEF Instr, FlagLoop, ApprovalsLoop
  <2>2. i.op = "scan" => {item \in i.todo : Kind[item.step] = "task"} \subseteq [step : Steps, due : Nat \union {NoTime}]
    BY <2>1 DEF ScanLoop
  <2>3. Survivor(i) \in ScanLoop
    BY <2>2 DEF Survivor, ScanLoop
  <2> QED BY <2>3, LoopsLater
<1> DEFINE todo == [i \in 1 .. Len(work[c]) |-> Survivor(work[c][i])]
<1>3. todo \in Seq(Later)
  <2>1. \A i \in 1 .. Len(work[c]) : Survivor(work[c][i]) \in Later
    BY <1>1, <1>2
  <2>2. todo \in [1 .. Len(work[c]) -> Later]
    BY <2>1
  <2>3. \A n \in Nat : [1 .. n -> Later] \subseteq Seq(Later)
    BY SeqDef
  <2> QED BY <1>1, <2>2, <2>3
<1>4. Begin(c, todo)
  BY DEF Disconnect, Begin
<1> HIDE DEF todo
<1>5. work' \in [Threads -> Seq(Instr)]
  BY <1>3, <1>4, LaterSeq, ThreadsMembers DEF Begin, TypeOK
<1> QED BY <1>3, <1>4, <1>5 DEF Disconnect, TypeOK

\* A set of positions has a first one.
LEMMA FirstPosition ==
    ASSUME NEW T, T \subseteq Nat, T # {}
    PROVE  \E x \in T : \A y \in T : x <= y
<1> DEFINE R == {ss \in Nat \X Nat : ss[1] < ss[2]}
<1>1. IsWellFoundedOn(R, Nat)
  BY NatLessThanWellFounded DEF OpToRel
<1> HIDE DEF R
<1>2. PICK x \in T : \A y \in T : <<y, x>> \notin R
  BY <1>1, WFMin
<1>3. \A y \in T : ~(y < x)
  BY <1>2 DEF R
<1> QED BY <1>2, <1>3

LEMMA AfterErrorType ==
    ASSUME NEW S, NEW todo \in Seq(S)
    PROVE  AfterError(todo) \in Seq(S)
<1> DEFINE loops == {n \in 1 .. Len(todo) : IsLoop(todo[n])}
           first == CHOOSE n \in loops : \A m \in loops : n <= m
<1>1. CASE loops = {}
  BY <1>1, EmptySeq DEF AfterError
<1>2. CASE loops # {}
  <2>1. Len(todo) \in Nat /\ loops \subseteq Nat
    BY LenProperties
  <2>2. PICK n \in loops : \A m \in loops : n <= m
    BY <1>2, <2>1, FirstPosition
  <2>3. first \in loops
    BY <2>2
  <2>4. first \in 1 .. Len(todo)
    BY <2>3
  <2>5. SubSeq(todo, first, Len(todo)) \in Seq(S)
    <3> HIDE DEF first
    <3> QED BY <2>1, <2>4, SubSeqProperties
  <2> QED BY <1>2, <2>5 DEF AfterError
<1> QED BY <1>1, <1>2

LEMMA DbErrorType == ASSUME TypeOK, DbError PROVE now' \in Nat /\ handlers' \in BOOLEAN /\ faults' \in Nat
BY DEF DbError, TypeOK

LEMMA AppendFailsType == ASSUME TypeOK, NEW t \in Threads, AppendFails(t) PROVE TypeOK'
<1>1. work[t] # <<>> /\ Head(work[t]).ev \in Event
  BY HeadType DEF AppendFails
<1>2. log' \subseteq Event /\ run' \in Run
  <2>1. CASE Record(Head(work[t]).ev)
    BY <1>1, <2>1, RecordType
  <2>2. CASE UNCHANGED <<log, run>>
    BY <2>2 DEF TypeOK
  <2> QED BY <2>1, <2>2 DEF AppendFails
<1>3. Tail(work[t]) \in Seq(Instr)
  BY <1>1 DEF TypeOK
<1>4. AfterError(Tail(work[t])) \in Seq(Instr)
  BY <1>3, AfterErrorType
<1>5. work' \in [Threads -> Seq(Instr)]
  BY <1>4 DEF AppendFails, TypeOK
<1>6. now' \in Nat /\ handlers' \in BOOLEAN /\ faults' \in Nat
  BY DbErrorType DEF AppendFails
<1> QED BY <1>2, <1>5, <1>6 DEF AppendFails, TypeOK

LEMMA FlagFailsType == ASSUME TypeOK, NEW t \in Threads, FlagFails(t) PROVE TypeOK' /\ GoesOn(t)
<1>1. GoesOn(t) /\ work' \in [Threads -> Seq(Instr)]
  BY EscalateType DEF FlagFails
<1>2. now' \in Nat /\ handlers' \in BOOLEAN /\ faults' \in Nat
  BY DbErrorType DEF FlagFails
<1> QED BY <1>1, <1>2 DEF FlagFails, TypeOK

LEMMA ReadFailsType == ASSUME TypeOK, NEW t \in Threads, ReadFails(t) PROVE TypeOK' /\ GoesOn(t)
<1>1. work[t] # <<>>
  BY DEF ReadFails, At
<1>2. GoesOn(t) /\ work' \in [Threads -> Seq(Instr)]
  BY <1>1, ContinueType, EmptySeq DEF ReadFails
<1>3. now' \in Nat /\ handlers' \in BOOLEAN /\ faults' \in Nat
  BY DbErrorType DEF ReadFails
<1> QED BY <1>2, <1>3 DEF ReadFails, TypeOK

LEMMA TaskLostType == ASSUME TypeOK, NEW w \in Workers, TaskLost(w) PROVE TypeOK'
<1>1. queue' \in Seq(Steps)
  BY DEF TaskLost, TypeOK
<1>2. now' \in Nat /\ handlers' \in BOOLEAN /\ faults' \in Nat
  BY DbErrorType DEF TaskLost
<1> QED BY <1>1, <1>2 DEF TaskLost, TypeOK

LEMMA RefreshFailsType == ASSUME TypeOK, NEW w \in Workers, RefreshFails(w) PROVE TypeOK' /\ GoesOn(w)
<1> DEFINE h == Head(work[w])
           stale == [run EXCEPT !.failed = h.failed, !.steps[h.step].attempt = h.attempt]
<1>1. w \in Threads
  BY ThreadsMembers
<1>2. /\ work[w] # <<>> /\ h.step \in Steps /\ h.failed \in BOOLEAN
      /\ h.attempt \in 0 .. AttemptCap
  BY <1>1, HeadType DEF RefreshFails
<1>3. stale \in Run
  <2> DEFINE r == [run EXCEPT !.failed = h.failed]
             st == [r.steps[h.step] EXCEPT !.attempt = h.attempt]
  <2>1. r \in Run
    BY <1>2 DEF TypeOK, Run
  <2> HIDE DEF r, h
  <2>2. st \in StepState
    BY <1>2, <2>1 DEF Run, StepState
  <2>3. [r.steps EXCEPT ![h.step] = st] \in [Steps -> StepState]
    BY <1>2, <2>1, <2>2 DEF Run
  <2>4. [r EXCEPT !.steps = [r.steps EXCEPT ![h.step] = st]] \in Run
    BY <2>1, <2>3 DEF Run
  <2>5. stale = [r EXCEPT !.steps = [r.steps EXCEPT ![h.step] = st]]
    BY DEF r, h
  <2> QED BY <2>4, <2>5
<1>4. Continue(w, handleTaskFailure(stale, h.step))
  BY DEF RefreshFails
<1> HIDE DEF stale, h
<1>5. handleTaskFailure(stale, h.step) \in Seq(Later)
  BY <1>2, <1>3, handleTaskFailureType
<1>6. GoesOn(w) /\ work' \in [Threads -> Seq(Instr)]
  BY <1>1, <1>2, <1>4, <1>5, ContinueType
<1>7. now' \in Nat /\ handlers' \in BOOLEAN /\ faults' \in Nat
  BY DbErrorType DEF RefreshFails
<1> QED BY <1>6, <1>7 DEF RefreshFails, TypeOK

LEMMA InitType == Init => TypeOK
<1>1. NewStep \in StepState
  BY AttemptCapAssumption DEF NewStep, StepState, StepStatuses, ApprovalStatuses
<1>2. NewRun \in Run
  BY <1>1 DEF NewRun, Run, RunStatuses
<1> SUFFICES ASSUME Init PROVE TypeOK
    OBVIOUS
<1>3. work \in [Threads -> Seq(Instr)] /\ queue \in Seq(Steps)
  BY EmptySeq DEF Init
<1>4. log \subseteq Event /\ run \in Run
  BY <1>2 DEF Init
<1>5. now \in Nat /\ faults \in Nat /\ handlers \in BOOLEAN
  BY DEF Init
<1> QED BY <1>3, <1>4, <1>5 DEF TypeOK

LEMMA NextType == TypeOK /\ [Next]_vars => TypeOK'
<1> SUFFICES ASSUME TypeOK, [Next]_vars PROVE TypeOK'
    OBVIOUS
<1>1. ASSUME NEW t \in Threads, Proceed(t) PROVE TypeOK'
  BY <1>1, AppendEventType, DispatchType, CheckSLAType, FlagType, ScanStepType,
     ApprovalStepType, GrantedType, HandlerType DEF Proceed
<1>2. ASSUME NEW c \in Clients, Call(c) PROVE TypeOK'
  BY <1>2, CreateTicketType, CancelType, RecoverType, DecideType DEF Call, Decide
<1>3. CASE sweep
  <2>1. dispatch(run) \in Seq(Later)
    BY dispatchType DEF TypeOK
  <2>2. work' \in [Threads -> Seq(Instr)]
    BY <1>3, <2>1, BeginType, ThreadsMembers DEF sweep, Idle
  <2> QED BY <1>3, <2>2 DEF sweep, TypeOK
<1>4. CASE UNCHANGED vars
  BY <1>4 DEF vars, TypeOK
<1>5. ASSUME NEW c \in Clients, Disconnect(c) PROVE TypeOK'
  BY <1>5, DisconnectType
<1>6. ASSUME NEW w \in Workers, executeTask(w) \/ TaskLost(w) \/ RefreshFails(w) PROVE TypeOK'
  BY <1>6, executeTaskType, TaskLostType, RefreshFailsType
<1>8. ASSUME NEW t \in Threads, AppendFails(t) \/ FlagFails(t) \/ ReadFails(t) PROVE TypeOK'
  BY <1>8, AppendFailsType, FlagFailsType, ReadFailsType
<1>7. CASE Tick \/ RegisterTasks \/ Crash
  BY <1>7, EnvironmentType
<1> QED BY <1>1, <1>2, <1>3, <1>4, <1>5, <1>6, <1>7, <1>8 DEF Next

\* Engine keeps its types, whatever the workflow and however many goroutines
\* interleave on the run, crash, or lose their callers or single database accesses.
THEOREM TypeCorrect == Spec => []TypeOK
BY InitType, NextType, PTL DEF Spec

-----------------------------------------------------------------------------
(***************************************************************************)
(* What no interleaving of the engine's goroutines can do to a run: revive *)
(* it once it has ended or, without faults, leave a step marked as running *)
(* that nobody executes.  Both rest on what a goroutine's entries look     *)
(* like: the event that starts the run and the event that starts an        *)
(* attempt can only come first.                                            *)
(***************************************************************************)

Opens(t, type) == At(t, "append") /\ Head(work[t]).ev.type = type

OpensFirst == \A t \in Threads : work[t] # <<>> => Tail(work[t]) \in Seq(Later)

\* The run is started once: whoever still has to start it is alone, and it is not started.
StartsOnce ==
    \A t \in Threads : Opens(t, "RUN_STARTED") =>
        /\ log # {} /\ ~Recorded("RUN_STARTED")
        /\ \A u \in Threads : Opens(u, "RUN_STARTED") => u = t

\* Worker w executes step s, or is about to record how the execution ended.
Finishing(i, s) ==
    \/ i.op = "handler" /\ i.step = s
    \/ i.op = "append" /\ i.ev.step = s /\ i.ev.type \in {"STEP_COMPLETED", "STEP_FAILED"}

Executes(w, s) == \E i \in DOMAIN work[w] : Finishing(work[w][i], s)

\* Who starts an attempt is a worker that goes on to call the handler.
StartsAttempt ==
    \A t \in Threads : Opens(t, "STEP_STARTED") =>
        /\ t \in Workers /\ Len(work[t]) > 1
        /\ work[t][2].op = "handler" /\ work[t][2].step = Head(work[t]).ev.step

HistoryInv == TypeOK /\ OpensFirst /\ StartsOnce /\ StartsAttempt

-----------------------------------------------------------------------------
\* What a step does to the entries of the goroutines: one of them gets later entries
\* only, a ticket is created, an attempt is begun, or all of them are gone.

Goes(t) == \E todo \in Seq(Later) : Begin(t, todo)

StepShape ==
    \/ UNCHANGED work
    \/ \E t \in Threads : Goes(t)
    \/ \E c \in Clients : CreateTicket(c) /\ \E more \in Seq(Later) :
           Begin(c, <<append(RunEvent("RUN_STARTED"))>> \o more)
    \/ \E w \in Workers : Attempts(w)
    \/ work' = [t \in Threads |-> <<>>]

LEMMA GoesOnGoes ==
    ASSUME TypeOK, OpensFirst, NEW t \in Threads, GoesOn(t)
    PROVE  Goes(t)
<1>1. PICK more \in Seq(Later) : \/ work[t] # <<>> /\ Continue(t, more)
                                 \/ work[t] = <<>> /\ Begin(t, more)
  BY DEF GoesOn
<1>2. CASE work[t] # <<>> /\ Continue(t, more)
  <2>1. Tail(work[t]) \in Seq(Later)
    BY <1>2 DEF OpensFirst
  <2>2. more \o Tail(work[t]) \in Seq(Later)
    BY <2>1, ConcatProperties
  <2> QED BY <1>2, <2>2 DEF Continue, Begin, Goes
<1>3. CASE work[t] = <<>> /\ Begin(t, more)
  BY <1>3 DEF Goes
<1> QED BY <1>1, <1>2, <1>3

\* No step but CreateTicket and those of a goroutine whose next entry says so records an
\* event that opens something.
Records ==
    \/ UNCHANGED <<log, run>>
    \/ \E e \in FollowUp : Record(e)
    \/ \E t \in Threads : (AppendEvent(t) \/ AppendFails(t)) /\ Record(Head(work[t]).ev)

LEMMA ProceedShape ==
    ASSUME TypeOK, OpensFirst, NEW t \in Threads, Proceed(t)
    PROVE  GoesOn(t) /\ Records
<1>1. CASE AppendEvent(t)
  BY <1>1, AppendEventType DEF Records, AppendEvent
<1>2. CASE Dispatch(t) \/ CheckSLA(t) \/ ScanStep(t) \/ ApprovalStep(t) \/ Granted(t) \/ Handler(t)
  <2>1. GoesOn(t)
    BY <1>2, DispatchType, CheckSLAType, ScanStepType, ApprovalStepType, GrantedType, HandlerType
  <2>2. UNCHANGED <<log, run>>
    BY <1>2 DEF Dispatch, CheckSLA, ScanStep, ApprovalStep, Granted, Handler
  <2> QED BY <2>1, <2>2 DEF Records
<1>3. CASE Flag(t)
  <2>1. PICK i \in Head(work[t]).todo : Record(Breached(i)) /\ Escalate(t, i)
    BY <1>3 DEF Flag
  <2>2. i \in Nat
    BY <1>3, <2>1, EscalateType DEF Flag
  <2>3. Breached(i) \in FollowUp
    BY <2>2, BreachedType DEF FollowUp, Starts, Breached, RunEvent, StepEvent
  <2> QED BY <1>3, <2>1, <2>3, FlagType DEF Records
<1> QED BY <1>1, <1>2, <1>3 DEF Proceed

LEMMA AppendFailsShape ==
    ASSUME TypeOK, OpensFirst, NEW t \in Threads, AppendFails(t)
    PROVE  Goes(t) /\ Records
<1>1. work[t] # <<>> /\ Tail(work[t]) \in Seq(Later)
  BY DEF AppendFails, At, OpensFirst
<1>2. AfterError(Tail(work[t])) \in Seq(Later)
  BY <1>1, AfterErrorType
<1>3. Goes(t)
  BY <1>2 DEF AppendFails, Begin, Goes
<1>4. Records
  BY DEF AppendFails, Records
<1> QED BY <1>3, <1>4

LEMMA NextShape ==
    ASSUME TypeOK, OpensFirst, [Next]_vars
    PROVE  StepShape /\ Records
<1>1. ASSUME NEW t \in Threads, Proceed(t) PROVE StepShape /\ Records
  BY <1>1, ProceedShape, GoesOnGoes DEF StepShape
<1>2. ASSUME NEW t \in Threads, AppendFails(t) PROVE StepShape /\ Records
  BY <1>2, AppendFailsShape DEF StepShape
<1>3. ASSUME NEW t \in Threads, FlagFails(t) \/ ReadFails(t) PROVE StepShape /\ Records
  <2>1. GoesOn(t)
    BY <1>3, FlagFailsType, ReadFailsType
  <2>2. UNCHANGED <<log, run>>
    BY <1>3 DEF FlagFails, ReadFails
  <2> QED BY <2>1, <2>2, GoesOnGoes DEF StepShape, Records
<1>4. ASSUME NEW c \in Clients, CreateTicket(c) PROVE StepShape /\ Records
  <2>1. RunEvent("TICKET_CREATED") \in FollowUp /\ Record(RunEvent("TICKET_CREATED"))
    BY <1>4, RunFollowUp, FollowUpTypes DEF CreateTicket
  <2> QED BY <1>4, <2>1, CreateTicketType DEF StepShape, Records
<1>5. ASSUME NEW c \in Clients, Cancel(c) \/ Recover(c) PROVE StepShape /\ Records
  <2>1. GoesOn(c) /\ UNCHANGED <<log, run>>
    BY <1>5, CancelType, RecoverType DEF Cancel, Recover
  <2> QED BY <2>1, GoesOnGoes, ThreadsMembers DEF StepShape, Records
<1>6. ASSUME NEW c \in Clients, NEW s \in Steps, NEW by \in People, Decide(c, s, by)
      PROVE  StepShape /\ Records
  <2>1. GoesOn(c) /\ UNCHANGED <<log, run>>
    BY <1>6, DecideType DEF Decide, Approve, Reject
  <2> QED BY <2>1, GoesOnGoes, ThreadsMembers DEF StepShape, Records
<1>7. ASSUME NEW c \in Clients, Disconnect(c) PROVE StepShape /\ Records
  <2>1. Goes(c) /\ UNCHANGED <<log, run>>
    BY <1>7, DisconnectType DEF Goes, Disconnect
  <2> QED BY <2>1, ThreadsMembers DEF StepShape, Records
<1>8. ASSUME NEW w \in Workers, executeTask(w) PROVE StepShape /\ Records
  <2>1. (Attempts(w) \/ GoesOn(w)) /\ UNCHANGED <<log, run>>
    BY <1>8, executeTaskType DEF executeTask
  <2> QED BY <2>1, GoesOnGoes, ThreadsMembers DEF StepShape, Records
<1>9. ASSUME NEW w \in Workers, RefreshFails(w) PROVE StepShape /\ Records
  <2>1. GoesOn(w) /\ UNCHANGED <<log, run>>
    BY <1>9, RefreshFailsType DEF RefreshFails
  <2> QED BY <2>1, GoesOnGoes, ThreadsMembers DEF StepShape, Records
<1>10. CASE sweep
  <2>1. dispatch(run) \in Seq(Later)
    BY dispatchType DEF TypeOK
  <2>2. GoesOn(Timer) /\ UNCHANGED <<log, run>>
    BY <1>10, <2>1, BeginType, ThreadsMembers DEF sweep, Idle
  <2> QED BY <2>2, GoesOnGoes, ThreadsMembers DEF StepShape, Records
<1>11. ASSUME NEW w \in Workers, TaskLost(w) PROVE StepShape /\ Records
  BY <1>11 DEF TaskLost, StepShape, Records
<1>12. CASE Tick \/ RegisterTasks \/ UNCHANGED vars
  BY <1>12 DEF Tick, RegisterTasks, vars, StepShape, Records
<1>13. CASE Crash
  BY <1>13 DEF Crash, StepShape, Records
<1> QED BY <1>1, <1>2, <1>3, <1>4, <1>5, <1>6, <1>7, <1>8, <1>9, <1>10, <1>11, <1>12, <1>13
        DEF Next, Call

-----------------------------------------------------------------------------
\* Entries after a step: either as before, or opening nothing, or one of the two openings.

LEMMA LaterOpensNothing ==
    ASSUME NEW t \in Threads, NEW type \in Starts, NEW todo \in Seq(Later),
           TypeOK, Begin(t, todo)
    PROVE  /\ ~Opens(t, type)'
           /\ work'[t] # <<>> => Tail(work'[t]) \in Seq(Later)
           /\ \A u \in Threads : u # t => work'[u] = work[u]
<1>1. work'[t] = todo /\ \A u \in Threads : u # t => work'[u] = work[u]
  BY DEF Begin, TypeOK
<1>2. CASE todo = <<>>
  BY <1>1, <1>2 DEF Opens, At
<1>3. CASE todo # <<>>
  <2>1. Head(todo) \in Later /\ Tail(todo) \in Seq(Later)
    BY <1>3
  <2>2. Head(todo).op = "append" => Head(todo).ev.type \notin Starts
    BY <2>1 DEF Later, FollowUp
  <2> QED BY <1>1, <1>3, <2>1, <2>2 DEF Opens, At
<1> QED BY <1>1, <1>2, <1>3

\* CreateTicket leaves the start of the run as its client's next entry.
LEMMA CreatedWork ==
    ASSUME TypeOK, NEW c \in Clients, NEW more \in Seq(Later),
           Begin(c, <<append(RunEvent("RUN_STARTED"))>> \o more)
    PROVE  /\ work'[c] # <<>> /\ Tail(work'[c]) = more
           /\ Head(work'[c]) = append(RunEvent("RUN_STARTED"))
           /\ \A u \in Threads : u # c => work'[u] = work[u]
<1> DEFINE start == append(RunEvent("RUN_STARTED"))
<1> HIDE DEF start
<1>1. Len(<<start>> \o more) = 1 + Len(more) /\ Len(more) \in Nat
  BY ConcatProperties, LenProperties
<1>2. Tail(<<start>> \o more) = more /\ Head(<<start>> \o more) = start
  OBVIOUS
<1>3. work'[c] = <<start>> \o more /\ \A u \in Threads : u # c => work'[u] = work[u]
  BY ThreadsMembers DEF Begin, TypeOK, start
<1>4. <<start>> \o more # <<>>
  BY <1>1
<1> QED BY <1>2, <1>3, <1>4 DEF start

\* executeTask leaves the start of an attempt, then its handler.
LEMMA AttemptedWork ==
    ASSUME TypeOK, NEW w \in Workers, NEW s \in Steps, NEW h \in Later,
           Begin(w, <<append(StepEvent("STEP_STARTED", s)), h>>)
    PROVE  /\ work'[w] # <<>> /\ Tail(work'[w]) \in Seq(Later) /\ Len(work'[w]) = 2
           /\ Head(work'[w]) = append(StepEvent("STEP_STARTED", s)) /\ work'[w][2] = h
           /\ \A u \in Threads : u # w => work'[u] = work[u]
<1>1. work'[w] = <<append(StepEvent("STEP_STARTED", s)), h>>
      /\ \A u \in Threads : u # w => work'[u] = work[u]
  BY ThreadsMembers DEF Begin, TypeOK
<1>2. Tail(<<append(StepEvent("STEP_STARTED", s)), h>>) = <<h>>
  OBVIOUS
<1>3. <<h>> \in Seq(Later)
  BY OneEntry
<1> QED BY <1>1, <1>2, <1>3

LEMMA EventFields ==
    /\ append(RunEvent("RUN_STARTED")).op = "append"
    /\ append(RunEvent("RUN_STARTED")).ev.type = "RUN_STARTED"
    /\ \A s \in Steps : /\ append(StepEvent("STEP_STARTED", s)).op = "append"
                        /\ append(StepEvent("STEP_STARTED", s)).ev.type = "STEP_STARTED"
                        /\ append(StepEvent("STEP_STARTED", s)).ev.step = s
BY DEF append, RunEvent, StepEvent

LEMMA OpensFirstNext ==
    ASSUME HistoryInv, StepShape
    PROVE  OpensFirst'
<1>1. CASE UNCHANGED work
  BY <1>1 DEF HistoryInv, OpensFirst
<1>2. ASSUME NEW t \in Threads, Goes(t) PROVE OpensFirst'
  <2>1. PICK todo \in Seq(Later) : Begin(t, todo)
    BY <1>2 DEF Goes
  <2> QED BY <2>1, LaterOpensNothing DEF HistoryInv, OpensFirst, Starts
<1>3. ASSUME NEW c \in Clients, NEW more \in Seq(Later),
             Begin(c, <<append(RunEvent("RUN_STARTED"))>> \o more)
      PROVE  OpensFirst'
  BY <1>3, CreatedWork DEF HistoryInv, OpensFirst
<1>4. ASSUME NEW w \in Workers, Attempts(w) PROVE OpensFirst'
  BY <1>4, AttemptedWork DEF HistoryInv, OpensFirst, Attempts
<1>5. CASE work' = [t \in Threads |-> <<>>]
  BY <1>5 DEF OpensFirst
<1> QED BY <1>1, <1>2, <1>3, <1>4, <1>5 DEF StepShape

\* What opens something after a step did so before it, or has just begun.
LEMMA OpenedBefore ==
    ASSUME HistoryInv, StepShape, NEW t \in Threads, NEW type \in Starts, Opens(t, type)'
    PROVE  \/ Opens(t, type) /\ work'[t] = work[t]
           \/ type = "RUN_STARTED" /\ t \in Clients /\ CreateTicket(t)
              /\ \A u \in Threads : u # t => work'[u] = work[u]
           \/ type = "STEP_STARTED" /\ t \in Workers /\ Len(work'[t]) > 1
              /\ work'[t][2].op = "handler" /\ work'[t][2].step = Head(work'[t]).ev.step
<1>1. ASSUME work'[t] = work[t] PROVE Opens(t, type)
  BY <1>1 DEF Opens, At
<1>2. CASE UNCHANGED work
  BY <1>1, <1>2
<1>3. ASSUME NEW u \in Threads, Goes(u) PROVE Opens(t, type) /\ work'[t] = work[t]
  <2>1. PICK todo \in Seq(Later) : Begin(u, todo)
    BY <1>3 DEF Goes
  <2>2. u # t
    BY <2>1, LaterOpensNothing DEF HistoryInv
  <2> QED BY <1>1, <2>1, <2>2, LaterOpensNothing DEF HistoryInv
<1>4. ASSUME NEW c \in Clients, CreateTicket(c), NEW more \in Seq(Later),
             Begin(c, <<append(RunEvent("RUN_STARTED"))>> \o more)
      PROVE  \/ Opens(t, type) /\ work'[t] = work[t]
             \/ type = "RUN_STARTED" /\ t \in Clients /\ CreateTicket(t)
                /\ \A u \in Threads : u # t => work'[u] = work[u]
  <2>1. /\ Head(work'[c]) = append(RunEvent("RUN_STARTED"))
        /\ \A u \in Threads : u # c => work'[u] = work[u]
    BY <1>4, CreatedWork DEF HistoryInv
  <2>2. t = c => type = "RUN_STARTED"
    BY <2>1, EventFields DEF Opens, At
  <2> QED BY <1>1, <1>4, <2>1, <2>2
<1>5. ASSUME NEW w \in Workers, NEW s \in Steps, NEW h \in Later, h.op = "handler", h.step = s,
             Begin(w, <<append(StepEvent("STEP_STARTED", s)), h>>)
      PROVE  \/ Opens(t, type) /\ work'[t] = work[t]
             \/ type = "STEP_STARTED" /\ t \in Workers /\ Len(work'[t]) > 1
                /\ work'[t][2].op = "handler" /\ work'[t][2].step = Head(work'[t]).ev.step
  <2>1. /\ Head(work'[w]) = append(StepEvent("STEP_STARTED", s)) /\ work'[w][2] = h
        /\ Len(work'[w]) = 2 /\ \A u \in Threads : u # w => work'[u] = work[u]
    BY <1>5, AttemptedWork DEF HistoryInv
  <2>2. t = w => type = "STEP_STARTED" /\ Head(work'[t]).ev.step = s
    BY <2>1, EventFields DEF Opens, At
  <2> QED BY <1>1, <1>5, <2>1, <2>2
<1>6. CASE work' = [u \in Threads |-> <<>>]
  BY <1>6 DEF Opens, At
<1> QED BY <1>2, <1>3, <1>4, <1>5, <1>6 DEF StepShape, Attempts

LEMMA StartsAttemptNext ==
    ASSUME HistoryInv, StepShape
    PROVE  StartsAttempt'
<1> SUFFICES ASSUME NEW t \in Threads, Opens(t, "STEP_STARTED")'
             PROVE  /\ t \in Workers /\ Len(work'[t]) > 1
                    /\ work'[t][2].op = "handler" /\ work'[t][2].step = Head(work'[t]).ev.step
  BY DEF StartsAttempt
<1> QED BY OpenedBefore DEF HistoryInv, StartsAttempt, Starts

\* What a step records.
LEMMA RecordedNext ==
    ASSUME HistoryInv, Records, NEW e, e \in log', e.type = "RUN_STARTED", ~Recorded("RUN_STARTED")
    PROVE  \E t \in Threads : Opens(t, "RUN_STARTED") /\ work'[t] # work[t]
<1>1. e \notin log
  BY DEF Recorded
<1>2. \A f \in Event : Stamp(f).type = f.type
  BY DEF Stamp, Event
<1>3. ~\E f \in FollowUp : Record(f)
  BY <1>1, <1>2 DEF Record, FollowUp, Starts
<1>4. PICK t \in Threads : (AppendEvent(t) \/ AppendFails(t)) /\ Record(Head(work[t]).ev)
  BY <1>1, <1>3 DEF Records
<1>5. At(t, "append") /\ Head(work[t]).ev \in Event
  BY <1>4, HeadType DEF AppendEvent, AppendFails, HistoryInv
<1>6. Opens(t, "RUN_STARTED")
  BY <1>1, <1>2, <1>4, <1>5 DEF Record, Opens
<1>7. ASSUME work'[t] = work[t] PROVE FALSE
  <2>1. Tail(work[t]) \in Seq(Later) /\ work[t] \in Seq(Instr) /\ work[t] # <<>>
    BY <1>5 DEF HistoryInv, OpensFirst, At, TypeOK
  <2>2. Goes(t)
    BY <1>4, AppendFailsShape, ProceedShape, GoesOnGoes DEF Proceed, HistoryInv
  <2>3. ~Opens(t, "RUN_STARTED")'
    BY <2>2, LaterOpensNothing DEF Goes, HistoryInv, Starts
  <2> QED BY <1>6, <1>7, <2>3 DEF Opens, At
<1> QED BY <1>6, <1>7

LEMMA StartsOnceNext ==
    ASSUME HistoryInv, StepShape, Records
    PROVE  StartsOnce'
<1> SUFFICES ASSUME NEW t \in Threads, Opens(t, "RUN_STARTED")'
             PROVE  /\ log' # {} /\ ~Recorded("RUN_STARTED")'
                    /\ \A u \in Threads : Opens(u, "RUN_STARTED")' => u = t
  BY DEF StartsOnce
<1>1. "RUN_STARTED" \in Starts /\ "RUN_STARTED" # "STEP_STARTED"
  BY DEF Starts
<1>2. log \subseteq log'
  BY DEF Records, Record
<1>3. CASE Opens(t, "RUN_STARTED") /\ work'[t] = work[t]
  <2>1. log # {} /\ ~Recorded("RUN_STARTED") /\ \A u \in Threads : Opens(u, "RUN_STARTED") => u = t
    BY <1>3 DEF HistoryInv, StartsOnce
  <2>2. ~Recorded("RUN_STARTED")'
    BY <1>3, <2>1, RecordedNext DEF Recorded
  <2>3. ASSUME NEW u \in Threads, Opens(u, "RUN_STARTED")' PROVE u = t
    <3>1. ~CreateTicket(u)
      BY <2>1 DEF CreateTicket
    <3>2. Opens(u, "RUN_STARTED")
      BY <1>1, <2>3, <3>1, OpenedBefore
    <3> QED BY <2>1, <3>2
  <2> QED BY <1>2, <2>1, <2>2, <2>3
<1>4. CASE CreateTicket(t) /\ \A u \in Threads : u # t => work'[u] = work[u]
  <2>1. log = {} /\ Record(RunEvent("TICKET_CREATED"))
    BY <1>4 DEF CreateTicket
  <2>2. log' = {Stamp(RunEvent("TICKET_CREATED"))}
    BY <2>1 DEF Record
  <2>3. Stamp(RunEvent("TICKET_CREATED")).type = "TICKET_CREATED"
    BY DEF Stamp, RunEvent, StepEvent
  <2>4. ASSUME NEW u \in Threads, Opens(u, "RUN_STARTED")', u # t PROVE FALSE
    <3>1. Opens(u, "RUN_STARTED")
      BY <1>4, <2>4 DEF Opens, At
    <3> QED BY <2>1, <3>1 DEF HistoryInv, StartsOnce
  <2> QED BY <2>2, <2>3, <2>4 DEF Recorded
<1> QED BY <1>1, <1>3, <1>4, OpenedBefore

LEMMA HistoryInvNext == HistoryInv /\ [Next]_vars => HistoryInv'
<1> SUFFICES ASSUME HistoryInv, [Next]_vars PROVE HistoryInv'
    OBVIOUS
<1>1. StepShape /\ Records
  BY NextShape DEF HistoryInv
<1>2. TypeOK'
  BY NextType DEF HistoryInv
<1> QED BY <1>1, <1>2, OpensFirstNext, StartsAttemptNext, StartsOnceNext DEF HistoryInv

LEMMA HistoryInvInit == Init => HistoryInv
<1> SUFFICES ASSUME Init PROVE HistoryInv
    OBVIOUS
<1>1. TypeOK
  BY InitType
<1>2. \A t \in Threads : work[t] = <<>>
  BY DEF Init
<1> QED BY <1>1, <1>2 DEF HistoryInv, OpensFirst, StartsOnce, StartsAttempt, Opens, At

LEMMA HistoryInvariance == Spec => []HistoryInv
BY HistoryInvInit, HistoryInvNext, PTL DEF Spec

-----------------------------------------------------------------------------
\* The status of a run and of its steps, event by event.

LEMMA StampKeeps ==
    ASSUME NEW e \in Event
    PROVE  Stamp(e).type = e.type /\ Stamp(e).step = e.step
BY DEF Stamp, Event

LEMMA TerminalKept ==
    ASSUME NEW r \in Run, NEW e \in Event, e.type # "RUN_STARTED", Terminal(r)
    PROVE  Terminal(applyOne(r, e))
<1>1. CASE e.type \in {"TICKET_CREATED", "RUN_FAILING"}
  BY <1>1 DEF applyOne, Run, Terminal
<1>2. CASE e.type \in {"RUN_COMPLETED", "RUN_FAILED", "RUN_CANCELLED"}
  BY <1>2 DEF applyOne, Run, Terminal, TerminalStatuses
<1>3. CASE e.type \notin {"TICKET_CREATED", "RUN_FAILING", "RUN_COMPLETED", "RUN_FAILED",
                          "RUN_CANCELLED", "RUN_STARTED"}
  BY <1>3 DEF applyOne, Run, Terminal
<1> QED BY <1>1, <1>2, <1>3

\* A step reads RUNNING after an event only if that event starts an attempt of it, or if
\* it did before and the event does not end one.
LEMMA RunningAfter ==
    ASSUME NEW r \in Run, NEW e \in Event, NEW s \in Steps,
           applyOne(r, e).steps[s].status = "RUNNING"
    PROVE  \/ e.type = "STEP_STARTED" /\ e.step = s
           \/ /\ r.steps[s].status = "RUNNING"
              /\ ~(e.step = s /\ e.type \in {"STEP_COMPLETED", "STEP_FAILED"})
<1> DEFINE RunTypes == {"TICKET_CREATED", "RUN_COMPLETED", "RUN_FAILED", "RUN_CANCELLED",
                        "RUN_FAILING"}
<1>1. CASE e.type \in RunTypes
  BY <1>1 DEF applyOne, Run
<1>2. CASE e.type = "RUN_STARTED"
  <2>1. applyOne(r, e).steps = [r.steps EXCEPT ![Initial] = ensureStep(@)]
    BY <1>2 DEF applyOne, Run
  <2>2. ensureStep(r.steps[Initial]).status = "RUNNING" => r.steps[Initial].status = "RUNNING"
    BY WorkflowAssumption DEF ensureStep, Run, StepState
  <2> QED BY <1>2, <2>1, <2>2, WorkflowAssumption DEF Run
<1>3. CASE e.type \notin RunTypes \union {"RUN_STARTED"}
  <2>1. applyOne(r, e) = IF e.step \in Steps THEN [r EXCEPT !.steps[e.step] = applyStep(@, e)] ELSE r
    BY <1>3 DEF applyOne
  <2>2. CASE e.step # s
    BY <2>1, <2>2 DEF Run
  <2>3. CASE e.step = s
    <3>1. applyStep(r.steps[s], e).status = "RUNNING"
      BY <2>1, <2>3 DEF Run
    <3>2. r.steps[s] \in StepState
      BY DEF Run
    <3>3. CASE e.type \in {"STEP_SCHEDULED", "STEP_COMPLETED", "STEP_FAILED", "APPROVAL_REQUESTED",
                           "APPROVAL_REJECTED"}
      BY <3>1, <3>2, <3>3 DEF applyStep, StepState
    <3>4. CASE e.type \notin {"STEP_SCHEDULED", "STEP_COMPLETED", "STEP_FAILED",
                              "APPROVAL_REQUESTED", "APPROVAL_REJECTED", "STEP_STARTED"}
      BY <3>1, <3>2, <3>4 DEF applyStep, StepState
    <3>5. CASE e.type = "STEP_STARTED"
      BY <2>3, <3>5
    <3> QED BY <3>3, <3>4, <3>5
  <2> QED BY <2>2, <2>3
<1> QED BY <1>1, <1>2, <1>3

-----------------------------------------------------------------------------
\* No interleaving of workers, callers, timers, crashes and failing accesses revives a run
\* that has ended: RUN_STARTED is recorded once, and no other event makes a run active.
THEOREM EndedStaysEndedHolds == Spec => EndedStaysEnded
<1>1. ASSUME HistoryInv, [Next]_vars, Recorded("RUN_STARTED"), Terminal(run)
      PROVE  Terminal(run')
  <2>1. Records
    BY <1>1, NextShape DEF HistoryInv
  <2>2. ASSUME NEW e \in Event, e.type # "RUN_STARTED", Record(e) PROVE Terminal(run')
    <3>1. Stamp(e) \in Event /\ Stamp(e).type # "RUN_STARTED"
      BY <1>1, <2>2, StampType, StampKeeps DEF HistoryInv, TypeOK
    <3> QED BY <1>1, <2>2, <3>1, TerminalKept DEF Record, HistoryInv, TypeOK
  <2>3. CASE UNCHANGED <<log, run>>
    BY <1>1, <2>3 DEF Terminal
  <2>4. CASE \E e \in FollowUp : Record(e)
    BY <2>2, <2>4 DEF FollowUp, Starts
  <2>5. ASSUME NEW t \in Threads, AppendEvent(t) \/ AppendFails(t), Record(Head(work[t]).ev)
        PROVE  Terminal(run')
    <3>1. At(t, "append") /\ Head(work[t]).ev \in Event
      BY <1>1, <2>5, HeadType DEF AppendEvent, AppendFails, HistoryInv
    <3>2. ~Opens(t, "RUN_STARTED")
      BY <1>1 DEF HistoryInv, StartsOnce
    <3> QED BY <2>2, <2>5, <3>1, <3>2 DEF Opens
  <2> QED BY <2>1, <2>3, <2>4, <2>5 DEF Records
<1>2. HistoryInv /\ [Next]_vars
          => [Recorded("RUN_STARTED") /\ Terminal(run) => Terminal(run')]_vars
  BY <1>1
<1> QED BY <1>2, HistoryInvariance, PTL DEF Spec, EndedStaysEnded

-----------------------------------------------------------------------------
LEMMA LeadsWith ==
    ASSUME NEW S, NEW x \in Seq(S), NEW y \in Seq(S), x # <<>>
    PROVE  x \o y # <<>> /\ (x \o y)[1] = x[1]
<1>1. Len(x) \in Nat /\ Len(y) \in Nat /\ Len(x) > 0 /\ Len(x \o y) = Len(x) + Len(y)
  BY ConcatProperties, LenProperties, EmptySeq
<1>2. (x \o y)[1] = x[1]
  BY <1>1, ConcatProperties
<1> QED BY <1>1, <1>2

\* The handler's result is recorded first of all.
LEMMA HandlerFinishes ==
    ASSUME TypeOK, NEW w \in Threads, Handler(w)
    PROVE  \E more \in Seq(Later) : /\ Continue(w, more) /\ more # <<>>
                                    /\ Finishing(more[1], Head(work[w]).step)
<1> DEFINE s == Head(work[w]).step
           done == append(StepEvent("STEP_COMPLETED", s))
           failed == append(StepEvent("STEP_FAILED", s))
<1>1. work[w] # <<>> /\ s \in Steps /\ Head(work[w]).failed \in BOOLEAN
  BY HeadType DEF Handler
<1>2. Finishing(done, s) /\ Finishing(failed, s)
  BY DEF Finishing, append, StepEvent
<1>3. CASE Continue(w, <<done>> \o advance(Head(work[w]).failed, s, TRUE))
  <2>1. <<done>> \o advance(Head(work[w]).failed, s, TRUE) \in Seq(Later)
    BY <1>1, CompleteType
  <2>2. <<done>> \in Seq(Later) /\ advance(Head(work[w]).failed, s, TRUE) \in Seq(Later)
    BY <1>1, advanceType, StepFollowUp, FollowUpTypes, AppendInstr, OneEntry
  <2> HIDE DEF done
  <2>3. /\ <<done>> \o advance(Head(work[w]).failed, s, TRUE) # <<>>
        /\ (<<done>> \o advance(Head(work[w]).failed, s, TRUE))[1] = done
    BY <2>2
  <2> QED BY <1>2, <1>3, <2>1, <2>3
<1>4. CASE Continue(w, handleTaskFailure(run, s))
  <2>1. handleTaskFailure(run, s) \in Seq(Later)
    BY <1>1, handleTaskFailureType DEF TypeOK
  <2>2. handleTaskFailure(run, s) # <<>> /\ handleTaskFailure(run, s)[1] = failed
    <3>1. <<failed, append(StepEvent("RUN_FAILING", s))>> \in Seq(Later)
          /\ advance(run.failed, s, FALSE) \in Seq(Later)
      <4>1. append(StepEvent("RUN_FAILING", s)) \in Later /\ failed \in Later
        BY <1>1, StepFollowUp, FollowUpTypes, AppendInstr
      <4>2. run.failed \in BOOLEAN
        BY DEF TypeOK, Run
      <4> HIDE DEF failed
      <4> QED BY <1>1, <4>1, <4>2, advanceType, TwoEntries
    <3> HIDE DEF failed
    <3>2. failStep(run.failed, s) =
            <<failed, append(StepEvent("RUN_FAILING", s))>> \o advance(run.failed, s, FALSE)
      BY DEF failStep, failed
    <3>3. failStep(run.failed, s) # <<>> /\ failStep(run.failed, s)[1] = failed
      BY <3>1, <3>2, LeadsWith
    <3>4. \/ handleTaskFailure(run, s) = failStep(run.failed, s)
          \/ \E a, b : handleTaskFailure(run, s) = <<failed, a, b>>
      BY Zenon DEF handleTaskFailure, failed
    <3> QED BY <3>3, <3>4
  <2> QED BY <1>2, <1>4, <2>1, <2>2
<1> QED BY <1>3, <1>4 DEF Handler

\* A worker that goes on keeps what it has to do later.
LEMMA ExecutesKept ==
    ASSUME TypeOK, NEW t \in Threads, NEW more \in Seq(Later), Continue(t, more),
           NEW i \in DOMAIN work[t], i # 1, NEW s \in Steps, Finishing(work[t][i], s)
    PROVE  Executes(t, s)'
<1>1. work[t] \in Seq(Instr) /\ i \in 2 .. Len(work[t]) /\ Len(work[t]) \in Nat
  BY LenProperties DEF TypeOK
<1>2. Tail(work[t]) \in Seq(Instr) /\ Len(Tail(work[t])) = Len(work[t]) - 1
      /\ Tail(work[t])[i - 1] = work[t][i]
  BY <1>1, HeadTailProperties
<1>3. more \in Seq(Instr) /\ Len(more) \in Nat
  BY LaterSeq, LenProperties
<1>4. work'[t] = more \o Tail(work[t])
  BY DEF Continue, TypeOK
<1> DEFINE later == Tail(work[t])
           n == Len(more) + i - 1
<1> HIDE DEF later
<1>a. /\ more \o later \in Seq(Instr) /\ Len(more \o later) = Len(more) + Len(later)
      /\ \A j \in 1 .. Len(more) + Len(later) :
            (more \o later)[j] = IF j <= Len(more) THEN more[j] ELSE later[j - Len(more)]
  BY <1>2, <1>3, ConcatProperties DEF later
<1>b. /\ n \in 1 .. Len(more) + Len(later) /\ ~(n <= Len(more)) /\ n - Len(more) = i - 1
  BY <1>1, <1>2, <1>3 DEF later
<1>5. /\ Len(work'[t]) = Len(more) + Len(work[t]) - 1
      /\ work'[t][Len(more) + i - 1] = work[t][i]
      /\ work'[t] \in Seq(Instr)
  BY <1>1, <1>2, <1>3, <1>4, <1>a, <1>b DEF later
<1>6. Len(more) + i - 1 \in DOMAIN work'[t]
  BY <1>1, <1>3, <1>5, LenProperties
<1> QED BY <1>5, <1>6 DEF Executes, Finishing

LEMMA HeadIsFirst ==
    ASSUME TypeOK, NEW t \in Threads, work[t] # <<>>
    PROVE  Head(work[t]) = work[t][1] /\ work[t] \in Seq(Instr) /\ Len(work[t]) \in Nat
BY LenProperties DEF TypeOK

\* Without a fault, only a worker's own entries change what it has to do.
LEMMA WorkerMoves ==
    ASSUME HistoryInv, Next, UNCHANGED faults, NEW w \in Workers, work[w] # <<>>,
           work'[w] # work[w]
    PROVE  Proceed(w)
<1>1. ASSUME NEW t \in Threads, Proceed(t) PROVE t = w
  <2>1. PICK todo \in Seq(Later) : Begin(t, todo)
    BY <1>1, ProceedShape, GoesOnGoes DEF HistoryInv, Goes
  <2> QED BY <2>1, ThreadsMembers DEF Begin, HistoryInv, TypeOK
<1>2. ASSUME NEW t \in Threads, work[t] = <<>>, NEW todo, Begin(t, todo) PROVE FALSE
  BY <1>2, ThreadsMembers DEF Begin, HistoryInv, TypeOK
<1>3. ASSUME NEW c \in Clients, Call(c) PROVE FALSE
  <2>1. CASE CreateTicket(c)
    BY <1>2, <2>1, ThreadsMembers DEF CreateTicket, Idle
  <2>2. CASE Cancel(c) \/ Recover(c)
    BY <1>2, <2>2, ThreadsMembers DEF Cancel, Recover, Idle
  <2>3. ASSUME NEW s \in Steps, NEW by \in People, Decide(c, s, by) PROVE FALSE
    BY <1>2, <2>3, ThreadsMembers DEF Decide, Approve, Reject, MayDecide, Idle
  <2> QED BY <1>3, <2>1, <2>2, <2>3 DEF Call
<1>4. ASSUME NEW v \in Workers, executeTask(v) PROVE FALSE
  BY <1>2, <1>4, ThreadsMembers DEF executeTask, Idle
<1>5. CASE sweep
  BY <1>2, <1>5, ThreadsMembers DEF sweep, Idle
<1>6. CASE Tick \/ RegisterTasks
  BY <1>6 DEF Tick, RegisterTasks
<1>7. faults' # faults + 1
  BY DEF HistoryInv, TypeOK
<1>8. ASSUME NEW t \in Threads, AppendFails(t) \/ FlagFails(t) \/ ReadFails(t) PROVE FALSE
  BY <1>7, <1>8 DEF AppendFails, FlagFails, ReadFails, DbError
<1>9. ASSUME NEW v, TaskLost(v) \/ RefreshFails(v) \/ Disconnect(v) \/ Crash PROVE FALSE
  BY <1>7, <1>9 DEF TaskLost, RefreshFails, Disconnect, Crash, DbError
<1> QED BY <1>1, <1>3, <1>4, <1>5, <1>6, <1>8, <1>9 DEF Next

\* Faults are counted and not forgotten.
LEMMA FaultsCounted ==
    ASSUME TypeOK, [Next]_vars, faults' = 0
    PROVE  faults = 0
<1>1. faults \in Nat
  BY DEF TypeOK
<1>2. faults' = faults \/ faults' = faults + 1
  <2>1. ASSUME NEW t \in Threads, Proceed(t) PROVE faults' = faults
    BY <2>1 DEF Proceed, AppendEvent, Dispatch, CheckSLA, Flag, ScanStep, ApprovalStep, Granted,
                Handler
  <2>2. ASSUME NEW t \in Threads, AppendFails(t) \/ FlagFails(t) \/ ReadFails(t)
        PROVE  faults' = faults + 1
    BY <2>2 DEF AppendFails, FlagFails, ReadFails, DbError
  <2>3. ASSUME NEW c \in Clients, Call(c) PROVE faults' = faults
    BY <2>3 DEF Call, CreateTicket, Cancel, Recover, Decide, Approve, Reject
  <2>4. ASSUME NEW w, Disconnect(w) \/ TaskLost(w) \/ RefreshFails(w) PROVE faults' = faults + 1
    BY <2>4 DEF Disconnect, TaskLost, RefreshFails, DbError
  <2>5. ASSUME NEW w \in Workers, executeTask(w) PROVE faults' = faults
    BY <2>5 DEF executeTask
  <2>6. CASE sweep \/ Tick \/ RegisterTasks \/ Crash \/ UNCHANGED vars
    BY <2>6 DEF sweep, Tick, RegisterTasks, Crash, vars
  <2> QED BY <2>1, <2>2, <2>3, <2>4, <2>5, <2>6 DEF Next
<1> QED BY <1>1, <1>2

\* A step becomes RUNNING by the worker whose next entry is the handler.
LEMMA NewlyRunning ==
    ASSUME HistoryInv, NEW t \in Threads, AppendEvent(t), NEW s \in Steps,
           Head(work[t]).ev.type = "STEP_STARTED", Head(work[t]).ev.step = s
    PROVE  t \in Workers /\ Executes(t, s)'
<1>1. Opens(t, "STEP_STARTED") /\ work[t] # <<>>
  BY DEF AppendEvent, Opens, At
<1>2. /\ t \in Workers /\ Len(work[t]) > 1 /\ work[t][2].op = "handler" /\ work[t][2].step = s
  BY <1>1 DEF HistoryInv, StartsAttempt
<1>3. 2 \in DOMAIN work[t] /\ Finishing(work[t][2], s)
  BY <1>1, <1>2, HeadIsFirst DEF HistoryInv, Finishing
<1>4. <<>> \in Seq(Later) /\ Continue(t, <<>>)
  BY EmptySeq DEF AppendEvent
<1>5. PICK more \in Seq(Later) : Continue(t, more)
  BY <1>4
<1>6. TypeOK
  BY DEF HistoryInv
<1> QED BY <1>2, <1>3, <1>5, <1>6, ExecutesKept

\* A worker that executes a step goes on to end the execution, or has just ended it.
LEMMA StillExecutes ==
    ASSUME HistoryInv, NEW w \in Workers, Proceed(w), NEW s \in Steps,
           NEW i \in DOMAIN work[w], Finishing(work[w][i], s)
    PROVE  \/ Executes(w, s)'
           \/ /\ AppendEvent(w) /\ Head(work[w]).ev.step = s
              /\ Head(work[w]).ev.type \in {"STEP_COMPLETED", "STEP_FAILED"}
<1>1. w \in Threads /\ TypeOK /\ OpensFirst
  BY ThreadsMembers DEF HistoryInv
<1>2. work[w] \in Seq(Instr) /\ work[w] # <<>>
  BY <1>1 DEF TypeOK
<1>3. CASE i # 1
  <2>1. PICK more \in Seq(Later) : Continue(w, more)
    BY <1>1, <1>2, ProceedShape DEF GoesOn
  <2> QED BY <1>1, <1>3, <2>1, ExecutesKept
<1>4. CASE i = 1 /\ work[w][i].op = "append"
  <2>1. Head(work[w]).op = "append"
    BY <1>1, <1>2, <1>4, HeadIsFirst
  <2>2. AppendEvent(w)
    BY <2>1 DEF Proceed, At, Dispatch, CheckSLA, Flag, ScanStep, ApprovalStep, Granted, Handler
  <2> QED BY <1>1, <1>2, <1>4, <2>2, HeadIsFirst DEF Finishing
<1>5. CASE i = 1 /\ work[w][i].op = "handler"
  <2>1. Head(work[w]).op = "handler" /\ Head(work[w]).step = s
    BY <1>1, <1>2, <1>5, HeadIsFirst DEF Finishing
  <2>2. Handler(w)
    BY <2>1 DEF Proceed, At, Dispatch, CheckSLA, Flag, ScanStep, ApprovalStep, Granted, AppendEvent
  <2>3. PICK more \in Seq(Later) : /\ Continue(w, more) /\ more # <<>> /\ Finishing(more[1], s)
    BY <1>1, <2>1, <2>2, HandlerFinishes
  <2>4. Tail(work[w]) \in Seq(Instr) /\ more \in Seq(Instr)
    BY <1>2, LaterSeq
  <2>5. work'[w] = more \o Tail(work[w])
    BY <1>1, <2>3 DEF Continue, TypeOK
  <2>6. work'[w] # <<>> /\ work'[w][1] = more[1] /\ work'[w] \in Seq(Instr)
    BY <2>3, <2>4, <2>5, LeadsWith, ConcatProperties
  <2>7. 1 \in DOMAIN work'[w]
    BY <2>6, LenProperties, EmptySeq
  <2> QED BY <2>3, <2>6, <2>7 DEF Executes, Finishing
<1> QED BY <1>3, <1>4, <1>5 DEF Finishing

LEMMA NoOrphanedNext ==
    ASSUME HistoryInv, NoOrphanedStep, [Next]_vars
    PROVE  NoOrphanedStep'
<1> SUFFICES ASSUME faults' = 0, NEW s \in Steps, run'.steps[s].status = "RUNNING"
             PROVE  \E w \in Workers : Executes(w, s)'
  BY DEF NoOrphanedStep, Executes, Finishing
<1>1. faults = 0 /\ TypeOK
  BY FaultsCounted DEF HistoryInv
<1>2. ASSUME run.steps[s].status = "RUNNING"
      PROVE  \/ \E w \in Workers : Executes(w, s)'
             \/ \E t \in Threads : /\ AppendEvent(t) /\ Head(work[t]).ev.step = s
                                   /\ Head(work[t]).ev.type \in {"STEP_COMPLETED", "STEP_FAILED"}
  <2>1. PICK w \in Workers : \E i \in DOMAIN work[w] : Finishing(work[w][i], s)
    BY <1>1, <1>2 DEF NoOrphanedStep, Finishing
  <2>2. PICK i \in DOMAIN work[w] : Finishing(work[w][i], s)
    BY <2>1
  <2>3. CASE work'[w] = work[w]
    BY <2>2, <2>3 DEF Executes, Finishing
  <2>4. CASE work'[w] # work[w]
    <3>1. work[w] # <<>> /\ Next
      <4>1. work[w] \in Seq(Instr)
        BY <1>1, ThreadsMembers DEF TypeOK
      <4> QED BY <2>2, <2>4, <4>1 DEF vars
    <3>2. Proceed(w)
      BY <1>1, <2>4, <3>1, WorkerMoves
    <3> QED BY <2>2, <3>2, StillExecutes, ThreadsMembers
  <2> QED BY <2>3, <2>4
<1>3. ASSUME NEW e \in Event, Record(e)
      PROVE  \/ e.type = "STEP_STARTED" /\ e.step = s
             \/ /\ run.steps[s].status = "RUNNING"
                /\ ~(e.step = s /\ e.type \in {"STEP_COMPLETED", "STEP_FAILED"})
  <2>1. /\ Stamp(e) \in Event /\ Stamp(e).type = e.type /\ Stamp(e).step = e.step
        /\ run' = applyOne(run, Stamp(e)) /\ run \in Run
    BY <1>1, <1>3, StampType, StampKeeps DEF Record, TypeOK
  <2> QED BY <2>1, RunningAfter
<1>4. ASSUME NEW t \in Threads, AppendEvent(t)
      PROVE  /\ Record(Head(work[t]).ev) /\ Head(work[t]).ev \in Event
  BY <1>1, <1>4, HeadType DEF AppendEvent
<1>5. ASSUME run.steps[s].status = "RUNNING" PROVE \E w \in Workers : Executes(w, s)'
  BY <1>2, <1>3, <1>4, <1>5
<1>6. ASSUME run.steps[s].status # "RUNNING" PROVE \E w \in Workers : Executes(w, s)'
  <2>1. Records
    BY NextShape DEF HistoryInv
  <2>2. ASSUME NEW e \in FollowUp, Record(e) PROVE FALSE
    BY <1>3, <1>6, <2>2 DEF FollowUp, Starts
  <2>3. ~\E t \in Threads : AppendFails(t)
    BY <1>1 DEF AppendFails, DbError, TypeOK
  <2>4. ASSUME NEW t \in Threads, AppendEvent(t) PROVE \E w \in Workers : Executes(w, s)'
    BY <1>3, <1>4, <1>6, <2>4, NewlyRunning
  <2> QED BY <1>6, <2>1, <2>2, <2>3, <2>4 DEF Records
<1> QED BY <1>5, <1>6

\* Without faults, however many duplicates of a task are executed at once, a step that reads
\* RUNNING is being executed, or the end of its execution is about to be recorded.
THEOREM NoOrphanedStepHolds == Spec => []NoOrphanedStep
<1>1. Init => NoOrphanedStep
  <2> SUFFICES ASSUME Init, NEW s \in Steps, run.steps[s].status = "RUNNING" PROVE FALSE
    BY DEF NoOrphanedStep
  <2>1. run.steps[s].status = "ABSENT"
    BY DEF Init, NewRun, NewStep
  <2> QED BY <2>1
<1>2. HistoryInv /\ NoOrphanedStep /\ [Next]_vars => NoOrphanedStep'
  BY NoOrphanedNext
<1> QED BY <1>1, <1>2, HistoryInvariance, PTL DEF Spec
=============================================================================
