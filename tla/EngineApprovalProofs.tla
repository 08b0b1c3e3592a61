------------------------- MODULE EngineApprovalProofs -------------------------
(***************************************************************************)
(* What an approval says of its links: whoever reads as having decided it  *)
(* was entitled to, for every workflow and any overlap of decisions; that  *)
(* a link reads as granted by the approver it requires, and that no step   *)
(* completes before all its links are granted, where the code keeps that.  *)
(*                                                                         *)
(* It does not keep it everywhere, because Approve decides on the run it   *)
(* read and a grant marks whichever link is current when it is recorded: a *)
(* second decision, or the request of a link, may come in between.         *)
(* Sheltered is where none can that matters.                               *)
(***************************************************************************)
EXTENDS EngineRefinementProofs

\* Nothing goes on to step s: it is scheduled when the run starts, or never.
ScheduledOnce(s) ==
    /\ \A p \in Steps : NextStep[p] # s /\ OnError[p] # s
    /\ \A i \in DOMAIN SLAs : SLAs[i].onBreach # s

\* Decisions are taken one after the other.
OneByOne == \A c, d \in Clients : c = d

\* A chain of one link has no other link to be mistaken for.  One of two links has, but its
\* last one can only be requested again, not left.
Sheltered ==
    \A s \in Steps : Kind[s] = "approval" =>
        \/ Len(Chain[s]) = 1
        \/ Len(Chain[s]) = 2 /\ ScheduledOnce(s) /\ OneByOne

GrantedLink(F, s, i) == <<"APPROVAL_GRANTED", s, i>> \in F

AllGranted(F, s) ==
    Kind[s] = "approval" => \A i \in 0 .. (Len(Chain[s]) - 1) : GrantedLink(F, s, i)

\* Entries that grant no link, and neither open the first of two nor go on from a link, or end
\* its step, unless it is granted on record.
Harmless(F) ==
    {i \in Instr :
        /\ i.op = "append" =>
              /\ i.ev.type # "APPROVAL_GRANTED"
              /\ i.ev.type = "APPROVAL_REQUESTED" =>
                    IF i.ev.index = 0 THEN Len(Chain[i.ev.step]) # 2
                    ELSE GrantedLink(F, i.ev.step, i.ev.index - 1)
              /\ i.ev.type = "STEP_COMPLETED" => AllGranted(F, i.ev.step)
        /\ i.op = "approvals" => \A item \in i.todo : GrantedLink(F, item.step, item.index)}

\* A link is requested, and its step completed, after the links before it were granted.
InOrder(F) ==
    \A f \in F :
        /\ f[1] = "APPROVAL_REQUESTED" /\ f[3] # 0 => GrantedLink(F, f[2], f[3] - 1)
        /\ f[1] = "STEP_COMPLETED" => AllGranted(F, f[2])

\* The first of the two links of s is not granted.
Unanswered(F, s) == Len(Chain[s]) = 2 => ~GrantedLink(F, s, 0)

\* What reads as granted was granted as it reads; the first of two links, while it is asked
\* for, was not granted.
SoundApproval(F, L, st, s) ==
    /\ st.approval = "granted" =>
          \E e \in L : /\ e.type = "APPROVAL_GRANTED" /\ e.step = s
                       /\ e.index = st.index /\ e.by = st.decidedBy
    /\ st.approval = "pending" /\ st.index = 0 => Unanswered(F, s)

\* Client t is about to grant the link that is current.
Answering(F, t) ==
    /\ t \in Clients
    /\ \E s \in Steps, by \in People :
          /\ Kind[s] = "approval"
          /\ work[t] = <<append(Decided("APPROVAL_GRANTED", s, run.steps[s].index, by)),
                         [op |-> "granted", step |-> s]>>
          /\ run.steps[s].index = 0 => Unanswered(F, s)

\* Client t is about to request the first of the two links that the run begins with.
Opens1(F, todo) ==
    /\ todo # <<>> /\ Head(todo) = append(Requested(Initial, 0))
    /\ Tail(todo) \in Seq(Harmless(F))

Opening(F, t) ==
    /\ t \in Clients
    /\ Kind[Initial] = "approval" /\ Len(Chain[Initial]) = 2 /\ ~ToldLink(F, Initial, 0)
    /\ \/ Opens1(F, work[t])
       \/ /\ work[t] # <<>> /\ Head(work[t]) = append(RunEvent("RUN_STARTED"))
          /\ Opens1(F, Tail(work[t]))

ApprovalInv ==
    /\ LegalInv /\ Sheltered
    /\ InOrder(Facts(log))
    /\ \A s \in Steps : SoundApproval(Facts(log), log, run.steps[s], s)
    /\ \A t \in Threads : \/ work[t] \in Seq(Harmless(Facts(log)))
                          \/ Answering(Facts(log), t) \/ Opening(Facts(log), t)

-----------------------------------------------------------------------------
\* Harmless entries, and the functions that make nothing else.

LEMMA LinkGrows ==
    ASSUME NEW F, NEW G, F \subseteq G
    PROVE  /\ \A s, i : GrantedLink(F, s, i) => GrantedLink(G, s, i)
           /\ \A s : AllGranted(F, s) => AllGranted(G, s)
BY DEF GrantedLink, AllGranted

LEMMA HarmlessGrows ==
    ASSUME NEW F, NEW G, F \subseteq G
    PROVE  /\ Harmless(F) \subseteq Harmless(G)
           /\ \A todo \in Seq(Harmless(F)) : todo \in Seq(Harmless(G))
<1>1. /\ \A s, i : GrantedLink(F, s, i) => GrantedLink(G, s, i)
      /\ \A s : AllGranted(F, s) => AllGranted(G, s)
  BY LinkGrows
<1>2. Harmless(F) \subseteq Harmless(G)
  BY <1>1 DEF Harmless
<1>3. ASSUME NEW todo \in Seq(Harmless(F)) PROVE todo \in Seq(Harmless(G))
  <2>1. \A n \in 1 .. Len(todo) : todo[n] \in Harmless(G)
    BY <1>2, ElementOfSeq
  <2>2. todo = [n \in 1 .. Len(todo) |-> todo[n]] /\ Len(todo) \in Nat
    BY LenProperties
  <2> QED BY <2>1, <2>2, SeqDef
<1> QED BY <1>2, <1>3

\* Of what a goroutine may append, three kinds of events matter here.
LEMMA PlainEntry ==
    ASSUME NEW F, NEW e \in Event,
           e.type \notin {"APPROVAL_GRANTED", "APPROVAL_REQUESTED", "STEP_COMPLETED"}
    PROVE  append(e) \in Harmless(F)
<1>1. append(e) \in Instr /\ append(e).op = "append" /\ append(e).ev = e
  BY AppendEntry
<1> QED BY <1>1 DEF Harmless

LEMMA PlainStepEntry ==
    ASSUME NEW F, NEW type \in EventTypes, NEW s \in Steps \union {NoStep},
           type \notin {"APPROVAL_GRANTED", "APPROVAL_REQUESTED", "STEP_COMPLETED"}
    PROVE  append(StepEvent(type, s)) \in Harmless(F)
BY StepEventFields, PlainEntry

LEMMA CompletedEntry ==
    ASSUME NEW F, NEW s \in Steps, AllGranted(F, s)
    PROVE  append(StepEvent("STEP_COMPLETED", s)) \in Harmless(F)
<1> DEFINE e == StepEvent("STEP_COMPLETED", s)
<1>1. e \in Event /\ e.type = "STEP_COMPLETED" /\ e.step = s
  BY StepEventFields, EventTypesMembers
<1> HIDE DEF e
<1>2. append(e) \in Instr /\ append(e).op = "append" /\ append(e).ev = e
  BY <1>1, AppendEntry
<1>3. append(e) \in Harmless(F)
  BY <1>1, <1>2 DEF Harmless
<1> QED BY <1>3 DEF e

LEMMA RequestedEntry ==
    ASSUME NEW F, NEW s \in Steps, NEW i \in Nat,
           IF i = 0 THEN Len(Chain[s]) # 2 ELSE GrantedLink(F, s, i - 1)
    PROVE  append(Requested(s, i)) \in Harmless(F)
<1> DEFINE e == Requested(s, i)
<1>1. e \in Event /\ e.type = "APPROVAL_REQUESTED" /\ e.step = s /\ e.index = i
  BY RequestedFields
<1> HIDE DEF e
<1>2. append(e) \in Instr /\ append(e).op = "append" /\ append(e).ev = e
  BY <1>1, AppendEntry
<1>3. append(e) \in Harmless(F)
  BY <1>1, <1>2 DEF Harmless
<1> QED BY <1>3 DEF e

LEMMA ScheduledEntry ==
    ASSUME NEW F, NEW s \in Steps, NEW wait \in Nat \union {NoTime}
    PROVE  append(Scheduled(s, wait)) \in Harmless(F)
BY ScheduledFields, PlainEntry

LEMMA OtherEntry ==
    ASSUME NEW F, NEW i \in Instr, i.op \notin {"append", "approvals"}
    PROVE  i \in Harmless(F)
BY DEF Harmless

LEMMA DispatchHarmless == ASSUME NEW F PROVE <<GetRunAndDispatch>> \in Seq(Harmless(F))
<1>1. GetRunAndDispatch \in Instr /\ GetRunAndDispatch.op = "dispatch"
  BY DEF GetRunAndDispatch, Instr
<1>2. GetRunAndDispatch \in Harmless(F)
  BY <1>1, OtherEntry
<1> QED BY <1>2

\* A step that something goes on to is no approval of two links.
LEMMA ShelteredLeads ==
    ASSUME Sheltered, NEW s \in Steps, ~ScheduledOnce(s), Kind[s] = "approval"
    PROVE  Len(Chain[s]) # 2
BY DEF Sheltered

LEMMA scheduleStepHarmless ==
    ASSUME NEW F, NEW s \in Steps, Kind[s] = "approval" => Len(Chain[s]) # 2
    PROVE  scheduleStep(s) \in Seq(Harmless(F))
<1>1. Kind[s] \in {"task", "approval", "delay"} /\ DelayOf[s] \in Nat
  BY WorkflowAssumption
<1>2. \A wait \in Nat \union {NoTime} : append(Scheduled(s, wait)) \in Harmless(F)
  BY ScheduledEntry
<1>3. CASE Kind[s] = "approval"
  <2>1. append(Requested(s, 0)) \in Harmless(F)
    BY <1>3, RequestedEntry
  <2>2. append(Scheduled(s, NoTime)) \in Harmless(F)
    BY <1>2
  <2>3. scheduleStep(s) = <<append(Requested(s, 0)), append(Scheduled(s, NoTime))>>
    BY <1>3 DEF scheduleStep
  <2> QED BY <2>1, <2>2, <2>3
<1>4. CASE Kind[s] = "delay"
  BY <1>1, <1>2, <1>4 DEF scheduleStep
<1>5. CASE Kind[s] = "task"
  BY <1>2, <1>5 DEF scheduleStep
<1> QED BY <1>1, <1>3, <1>4, <1>5

LEMMA advanceHarmless ==
    ASSUME Sheltered, NEW F, NEW failed \in BOOLEAN, NEW s \in Steps, NEW succeeded \in BOOLEAN
    PROVE  advance(failed, s, succeeded) \in Seq(Harmless(F))
<1> DEFINE nxt == IF succeeded THEN NextStep[s] ELSE OnError[s]
<1>1. nxt \in Steps \union {NoStep} /\ NoStep \notin Steps
  BY WorkflowAssumption
<1>2. CASE nxt = NoStep
  <2> DEFINE type == IF succeeded /\ ~failed THEN "RUN_COMPLETED" ELSE "RUN_FAILED"
  <2>1. type \in EventTypes /\ type \in {"RUN_COMPLETED", "RUN_FAILED"}
    BY EventTypesMembers
  <2>2. advance(failed, s, succeeded) = <<append(StepEvent(type, s))>>
    BY <1>2 DEF advance
  <2> HIDE DEF type
  <2>3. append(StepEvent(type, s)) \in Harmless(F)
    BY <2>1, PlainStepEntry
  <2> QED BY <2>2, <2>3
<1>3. CASE nxt \in Steps
  <2>1. ~ScheduledOnce(nxt)
    BY <1>3 DEF ScheduledOnce
  <2>2. advance(failed, s, succeeded) = scheduleStep(nxt) \o <<GetRunAndDispatch>>
    BY <1>1, <1>3 DEF advance
  <2> HIDE DEF nxt
  <2>3. scheduleStep(nxt) \in Seq(Harmless(F))
    BY <1>3, <2>1, ShelteredLeads, scheduleStepHarmless
  <2> QED BY <2>2, <2>3, DispatchHarmless, ConcatProperties
<1> QED BY <1>1, <1>2, <1>3

LEMMA CompleteHarmless ==
    ASSUME Sheltered, NEW F, NEW failed \in BOOLEAN, NEW s \in Steps, AllGranted(F, s)
    PROVE  <<append(StepEvent("STEP_COMPLETED", s))>> \o advance(failed, s, TRUE)
               \in Seq(Harmless(F))
<1>1. append(StepEvent("STEP_COMPLETED", s)) \in Harmless(F)
  BY CompletedEntry
<1>2. <<append(StepEvent("STEP_COMPLETED", s))>> \in Seq(Harmless(F))
  BY <1>1
<1> QED BY <1>2, advanceHarmless, ConcatProperties

LEMMA failStepHarmless ==
    ASSUME Sheltered, NEW F, NEW failed \in BOOLEAN, NEW s \in Steps
    PROVE  failStep(failed, s) \in Seq(Harmless(F))
<1>1. append(StepEvent("STEP_FAILED", s)) \in Harmless(F)
      /\ append(StepEvent("RUN_FAILING", s)) \in Harmless(F)
  BY PlainStepEntry, EventTypesMembers
<1>2. <<append(StepEvent("STEP_FAILED", s)), append(StepEvent("RUN_FAILING", s))>>
          \in Seq(Harmless(F))
  BY <1>1
<1> QED BY <1>2, advanceHarmless, ConcatProperties DEF failStep

LEMMA handleTaskFailureHarmless ==
    ASSUME Sheltered, NEW F, NEW r \in Run, NEW s \in Steps
    PROVE  handleTaskFailure(r, s) \in Seq(Harmless(F))
<1> DEFINE wait == IF RetryDelay[s] > 0 THEN RetryDelay[s] ELSE NoTime
<1>1. \/ handleTaskFailure(r, s) = failStep(r.failed, s)
      \/ handleTaskFailure(r, s) = <<append(StepEvent("STEP_FAILED", s)),
                                     append(Scheduled(s, wait)), GetRunAndDispatch>>
  BY Zenon DEF handleTaskFailure
<1>2. r.failed \in BOOLEAN /\ wait \in Nat \union {NoTime}
  BY WorkflowAssumption DEF Run
<1> HIDE DEF wait
<1>3. append(StepEvent("STEP_FAILED", s)) \in Harmless(F) /\ append(Scheduled(s, wait)) \in Harmless(F)
  BY <1>2, PlainStepEntry, ScheduledEntry, EventTypesMembers
<1>4. GetRunAndDispatch \in Harmless(F)
  <2>1. GetRunAndDispatch \in Instr /\ GetRunAndDispatch.op = "dispatch"
    BY DEF GetRunAndDispatch, Instr
  <2> QED BY <2>1, OtherEntry
<1>5. <<append(StepEvent("STEP_FAILED", s)), append(Scheduled(s, wait)), GetRunAndDispatch>>
          \in Seq(Harmless(F))
  BY <1>3, <1>4
<1> QED BY <1>1, <1>2, <1>5, failStepHarmless

LEMMA fireTimerHarmless ==
    ASSUME Sheltered, NEW F, NEW failed \in BOOLEAN, NEW s \in Steps, Kind[s] = "delay"
    PROVE  fireTimer(failed, s) \in Seq(Harmless(F))
<1>1. AllGranted(F, s)
  BY DEF AllGranted
<1>2. append(StepEvent("TIMER_FIRED", s)) \in Harmless(F)
      /\ append(StepEvent("STEP_COMPLETED", s)) \in Harmless(F)
  BY <1>1, PlainStepEntry, CompletedEntry, EventTypesMembers
<1>3. <<append(StepEvent("TIMER_FIRED", s)), append(StepEvent("STEP_COMPLETED", s))>>
          \in Seq(Harmless(F))
  BY <1>2
<1> QED BY <1>3, advanceHarmless, ConcatProperties DEF fireTimer

LEMMA advanceApprovalHarmless ==
    ASSUME Sheltered, NEW F, NEW failed \in BOOLEAN, NEW s \in Steps, NEW i \in Nat,
           GrantedLink(F, s, i), ~(i + 1 < Len(Chain[s])) => AllGranted(F, s)
    PROVE  advanceApproval(failed, s, i) \in Seq(Harmless(F))
<1>1. CASE i + 1 < Len(Chain[s])
  <2>1. (i + 1) - 1 = i /\ i + 1 # 0 /\ i + 1 \in Nat
    OBVIOUS
  <2>2. append(Requested(s, i + 1)) \in Harmless(F)
    BY <2>1, RequestedEntry
  <2> QED BY <1>1, <2>2 DEF advanceApproval
<1>2. CASE ~(i + 1 < Len(Chain[s]))
  BY <1>2, CompleteHarmless DEF advanceApproval
<1> QED BY <1>1, <1>2

LEMMA LoopHarmless == ASSUME NEW F, NEW i \in Harmless(F) PROVE Loop(i) \in Seq(Harmless(F))
BY EmptySeq DEF Loop

LEMMA ScanHarmless ==
    ASSUME NEW F, NEW r \in Run, NEW due \in [Steps -> Nat \union {NoTime}]
    PROVE  Loop(Scan(r, due)) \in Seq(Harmless(F))
<1>1. Scan(r, due) \in Instr /\ Scan(r, due).op = "scan"
  BY ScanType DEF Later, Scan
<1> QED BY <1>1, OtherEntry, LoopHarmless

LEMMA dispatchHarmless ==
    ASSUME NEW F, NEW r \in Run, \A s \in GrantedLinks(r) : GrantedLink(F, s, r.steps[s].index)
    PROVE  dispatch(r) \in Seq(Harmless(F))
<1> DEFINE chk == [op |-> "checkSLA", active |-> ActiveSteps(r)]
           sla == IF SLAs = <<>> \/ r.status # "ACTIVE" THEN <<>> ELSE <<chk>>
           scan == Loop(Scan(r, DueDates(r)))
           i == [op |-> "approvals", failed |-> r.failed, todo |->
                   {[step |-> s, index |-> r.steps[s].index] : s \in GrantedLinks(r)}]
<1>1. sla \in Seq(Harmless(F))
  <2>1. chk \in Instr /\ chk.op = "checkSLA"
    BY DEF ActiveSteps, Instr
  <2> HIDE DEF chk
  <2>2. chk \in Harmless(F)
    BY <2>1, OtherEntry
  <2>3. <<chk>> \in Seq(Harmless(F))
    BY <2>2
  <2> QED BY <2>3, EmptySeq
<1>2. scan \in Seq(Harmless(F))
  <2>1. DueDates(r) \in [Steps -> Nat \union {NoTime}]
    BY DEF DueDates, Run, StepState
  <2> QED BY <2>1, ScanHarmless
<1>3. Loop(i) \in Seq(Harmless(F))
  <2>1. /\ i.op = "approvals"
        /\ i.todo = {[step |-> s, index |-> r.steps[s].index] : s \in GrantedLinks(r)}
    OBVIOUS
  <2>2. i \in Instr
    <3>1. \A s \in GrantedLinks(r) : s \in Steps /\ r.steps[s].index \in Nat
      BY DEF GrantedLinks, Run, StepState
    <3>2. {[step |-> s, index |-> r.steps[s].index] : s \in GrantedLinks(r)}
              \subseteq [step : Steps, index : Nat]
      BY <3>1
    <3>3. r.failed \in BOOLEAN
      BY DEF Run
    <3> QED BY <3>2, <3>3 DEF Instr, ApprovalsLoop
  <2> HIDE DEF i
  <2>3. \A item \in i.todo : GrantedLink(F, item.step, item.index)
    BY <2>1
  <2>4. i \in Harmless(F)
    BY <2>1, <2>2, <2>3 DEF Harmless
  <2> QED BY <2>4, LoopHarmless
<1>4. dispatch(r) = IF Terminal(r) THEN <<>> ELSE (sla \o scan) \o Loop(i)
  BY DEF dispatch
<1> HIDE DEF sla, scan, i
<1>5. (sla \o scan) \o Loop(i) \in Seq(Harmless(F)) /\ <<>> \in Seq(Harmless(F))
  BY <1>1, <1>2, <1>3, ConcatProperties, EmptySeq
<1> QED BY <1>4, <1>5

LEMMA dispatchAfterHarmless ==
    ASSUME NEW F, NEW r \in Run
    PROVE  dispatchAfter(r) \in Seq(Harmless(F))
<1> DEFINE due == [s \in Steps |-> IF Kind[s] = "task" THEN NoTime ELSE r.steps[s].dueAt]
<1>1. due \in [Steps -> Nat \union {NoTime}]
  BY DEF Run, StepState
<1>2. dispatchAfter(r) = IF Terminal(r) THEN <<>> ELSE Loop(Scan(r, due))
  BY DEF dispatchAfter
<1> HIDE DEF due
<1> QED BY <1>1, <1>2, ScanHarmless, EmptySeq

-----------------------------------------------------------------------------
\* What the log tells of a step's links.

LEMMA LinkFacts ==
    ASSUME LegalInv
    PROVE  LET F == Facts(log)
           IN  /\ \A s, i : ToldLink(F, s, i) =>
                     s \in Steps /\ Kind[s] = "approval" /\ i \in Nat /\ i < Len(Chain[s])
               /\ \A s : ToldFor(F, "APPROVAL_REQUESTED", s) => s \in Steps /\ Kind[s] = "approval"
               /\ \A s, i : GrantedLink(F, s, i) => ToldLink(F, s, i)
<1> DEFINE F == Facts(log)
<1>1. /\ log \in SUBSET Event
      /\ \A e \in log : e.type # "TICKET_CREATED" => Warranted(F, log, now, e)
  BY RunIsSound DEF SoundLog
<1>2. \A s, i : ToldLink(F, s, i) <=>
         \E e \in log : e.type = "APPROVAL_REQUESTED" /\ e.step = s /\ e.index = i
  BY FactsOfLog
<1>3. \A s : ToldFor(F, "APPROVAL_REQUESTED", s) <=>
         \E e \in log : e.type = "APPROVAL_REQUESTED" /\ e.step = s
  BY FactsOfLog
<1>4. \A s, i : GrantedLink(F, s, i) => \E e \in log : /\ e.type = "APPROVAL_GRANTED"
                                                       /\ e.step = s /\ e.index = i
  BY DEF GrantedLink, F, Facts, Fact
<1> HIDE DEF F
<1>5. ASSUME NEW e \in log, e.type = "APPROVAL_REQUESTED"
      PROVE  /\ e.step \in Steps /\ Kind[e.step] = "approval" /\ e.index \in Nat
             /\ e.index < Len(Chain[e.step])
  <2>1. Warranted(F, log, now, e) /\ e.index \in Nat
    BY <1>1, <1>5 DEF Event
  <2>2. /\ e.step \in Steps /\ Kind[e.step] = "approval"
        /\ e.index # 0 => e.index < Len(Chain[e.step])
    BY <1>5, <2>1 DEF Warranted
  <2>3. Len(Chain[e.step]) \in Nat /\ Len(Chain[e.step]) # 0
    <3>1. Chain[e.step] \in Seq(Link) /\ Chain[e.step] # <<>>
      BY <2>2, WorkflowAssumption
    <3> QED BY <3>1, EmptySeq, LenProperties
  <2> QED BY <2>1, <2>2, <2>3
<1>6. ASSUME NEW e \in log, e.type = "APPROVAL_GRANTED"
      PROVE  ToldLink(F, e.step, e.index)
  <2>1. Warranted(F, log, now, e)
    BY <1>1, <1>6
  <2> QED BY <1>6, <2>1 DEF Warranted
<1> QED BY <1>2, <1>3, <1>4, <1>5, <1>6 DEF F

\* The fact of an event, by its parts.
LEMMA FactParts ==
    ASSUME NEW e
    PROVE  /\ Fact(e)[1] = e.type /\ Fact(e)[2] = e.step /\ Fact(e)[3] = e.index
           /\ \A s, i : Fact(e) = <<"APPROVAL_GRANTED", s, i>> <=>
                            e.type = "APPROVAL_GRANTED" /\ e.step = s /\ e.index = i
           /\ \A s, i : Fact(e) = <<"APPROVAL_REQUESTED", s, i>> <=>
                            e.type = "APPROVAL_REQUESTED" /\ e.step = s /\ e.index = i
BY DEF Fact

\* In a sheltered chain a link is requested after the one before it was granted, so with the
\* last link all are granted.
LEMMA ShelteredLinks ==
    ASSUME LegalInv, Sheltered, InOrder(Facts(log)), NEW s, NEW i
    PROVE  LET F == Facts(log)
           IN  /\ ToldLink(F, s, i) /\ i # 0 =>
                     /\ i = 1 /\ Len(Chain[s]) = 2 /\ GrantedLink(F, s, 0)
                     /\ ScheduledOnce(s) /\ OneByOne
               /\ ToldLink(F, s, i) => i \in {0, 1}
               /\ GrantedLink(F, s, i) /\ ~(i + 1 < Len(Chain[s])) => AllGranted(F, s)
<1> DEFINE F == Facts(log)
<1>1. /\ ToldLink(F, s, i) =>
            s \in Steps /\ Kind[s] = "approval" /\ i \in Nat /\ i < Len(Chain[s])
      /\ GrantedLink(F, s, i) => ToldLink(F, s, i)
  BY LinkFacts
<1>2. InOrder(F)
  OBVIOUS
<1> HIDE DEF F
<1>3. ToldLink(F, s, i) /\ i # 0 => GrantedLink(F, s, i - 1)
  <2> SUFFICES ASSUME ToldLink(F, s, i), i # 0 PROVE GrantedLink(F, s, i - 1)
    OBVIOUS
  <2> DEFINE f == <<"APPROVAL_REQUESTED", s, i>>
  <2>1. f \in F /\ f[1] = "APPROVAL_REQUESTED" /\ f[2] = s /\ f[3] = i
    BY DEF ToldLink
  <2> HIDE DEF f
  <2> QED BY <1>2, <2>1 DEF InOrder
<1>4. ToldLink(F, s, i) /\ i # 0 =>
         /\ i = 1 /\ Len(Chain[s]) = 2 /\ GrantedLink(F, s, 0) /\ ScheduledOnce(s) /\ OneByOne
  <2> SUFFICES ASSUME ToldLink(F, s, i), i # 0
               PROVE  /\ i = 1 /\ Len(Chain[s]) = 2 /\ GrantedLink(F, s, 0)
                      /\ ScheduledOnce(s) /\ OneByOne
    OBVIOUS
  <2>1. s \in Steps /\ Kind[s] = "approval" /\ i \in Nat /\ i < Len(Chain[s])
    BY <1>1
  <2>2. Len(Chain[s]) = 2 /\ ScheduledOnce(s) /\ OneByOne /\ i = 1
    <3> DEFINE n == Len(Chain[s])
    <3>1. n = 1 \/ (n = 2 /\ ScheduledOnce(s) /\ OneByOne)
      BY <2>1, Zenon DEF Sheltered
    <3>2. i \in Nat /\ i < n
      BY <2>1
    <3> HIDE DEF n
    <3>3. n = 2 /\ i = 1
      BY <3>1, <3>2
    <3> QED BY <3>1, <3>3 DEF n
  <2>3. i - 1 = 0
    BY <2>2
  <2>4. GrantedLink(F, s, i - 1)
    BY <1>3
  <2>5. GrantedLink(F, s, 0)
    BY <2>3, <2>4, Zenon
  <2> QED BY <2>2, <2>5
<1>5. GrantedLink(F, s, i) /\ ~(i + 1 < Len(Chain[s])) => AllGranted(F, s)
  <2> SUFFICES ASSUME GrantedLink(F, s, i), ~(i + 1 < Len(Chain[s])),
                      NEW k \in 0 .. (Len(Chain[s]) - 1)
               PROVE  GrantedLink(F, s, k)
    BY DEF AllGranted
  <2>1. s \in Steps /\ Kind[s] = "approval" /\ i \in Nat /\ i < Len(Chain[s])
    BY <1>1
  <2>2. Len(Chain[s]) = 1 \/ Len(Chain[s]) = 2
    BY <2>1 DEF Sheltered
  <2>3. CASE k = i
    BY <2>3
  <2>4. CASE k # i
    <3> DEFINE n == Len(Chain[s])
    <3>1. /\ i \in Nat /\ i < n /\ ~(i + 1 < n) /\ (n = 1 \/ n = 2)
          /\ k \in 0 .. (n - 1)
      BY <2>1, <2>2
    <3> HIDE DEF n
    <3>2. k = 0 /\ i # 0
      BY <2>4, <3>1
    <3>3. GrantedLink(F, s, 0)
      BY <1>1, <1>4, <3>2, Zenon
    <3> QED BY <3>2, <3>3, Zenon
  <2> QED BY <2>3, <2>4
<1> QED BY <1>1, <1>4, <1>5 DEF F

-----------------------------------------------------------------------------
\* The hands of the goroutines.

Hand(F, t) == work[t] \in Seq(Harmless(F)) \/ Answering(F, t) \/ Opening(F, t)

LEMMA ApprovalParts ==
    ASSUME ApprovalInv
    PROVE  /\ LegalInv /\ Sheltered /\ InOrder(Facts(log)) /\ TypeOK
           /\ \A s \in Steps : SoundApproval(Facts(log), log, run.steps[s], s)
           /\ \A t \in Threads : Hand(Facts(log), t)
BY RunIsSound DEF ApprovalInv, Hand

\* Who is about to grant a link, or to open a chain, begins with an append.
LEMMA AnsweringWork ==
    ASSUME NEW F, NEW t, Answering(F, t)
    PROVE  /\ work[t] # <<>> /\ Head(work[t]).op = "append" /\ Head(work[t]).ev.type = "APPROVAL_GRANTED"
           /\ Tail(work[t]) \in Seq(Harmless(F))
<1>1. PICK s \in Steps, by \in People :
         work[t] = <<append(Decided("APPROVAL_GRANTED", s, run.steps[s].index, by)),
                     [op |-> "granted", step |-> s]>>
  BY DEF Answering
<1> DEFINE a == append(Decided("APPROVAL_GRANTED", s, run.steps[s].index, by))
           g == [op |-> "granted", step |-> s]
<1>2. a.op = "append" /\ a.ev.type = "APPROVAL_GRANTED"
  BY DEF append, Decided, StepEvent
<1>3. g \in Harmless(F)
  <2>1. g \in Instr /\ g.op = "granted"
    BY DEF Instr
  <2> HIDE DEF g
  <2> QED BY <2>1, OtherEntry
<1> HIDE DEF a, g
<1>4. work[t] = <<a, g>>
  BY <1>1 DEF a, g
<1>5. <<a, g>> # <<>> /\ Head(<<a, g>>) = a /\ Tail(<<a, g>>) = <<g>>
  OBVIOUS
<1>6. <<g>> \in Seq(Harmless(F))
  BY <1>3
<1> QED BY <1>2, <1>4, <1>5, <1>6

LEMMA OpeningWork ==
    ASSUME NEW F, NEW t, Opening(F, t)
    PROVE  /\ work[t] # <<>> /\ Head(work[t]).op = "append"
           /\ \/ Opens1(F, work[t])
              \/ Head(work[t]) = append(RunEvent("RUN_STARTED")) /\ Opens1(F, Tail(work[t]))
<1>1. append(Requested(Initial, 0)).op = "append" /\ append(RunEvent("RUN_STARTED")).op = "append"
  BY DEF append
<1> QED BY <1>1 DEF Opening, Opens1

LEMMA HarmlessHand ==
    ASSUME ApprovalInv, NEW t \in Threads, work[t] # <<>>, Head(work[t]).op # "append"
    PROVE  /\ Head(work[t]) \in Harmless(Facts(log)) /\ Tail(work[t]) \in Seq(Harmless(Facts(log)))
           /\ work[t] \in Seq(Harmless(Facts(log)))
<1>1. work[t] \in Seq(Harmless(Facts(log)))
  BY ApprovalParts, AnsweringWork, OpeningWork DEF Hand
<1> QED BY <1>1, HeadTailProperties

\* A step that records nothing gives goroutines harmless entries, or a link to grant.
Stays ==
    /\ UNCHANGED <<log, run>>
    /\ \A t \in Threads : \/ work'[t] = work[t]
                          \/ work'[t] \in Seq(Harmless(Facts(log)))
                          \/ Answering(Facts(log), t)'

LEMMA StaysKeeps ==
    ASSUME ApprovalInv, LegalInv', Stays
    PROVE  ApprovalInv'
<1>1. log' = log /\ run' = run /\ Facts(log') = Facts(log)
  BY DEF Stays
<1>2. Sheltered' /\ InOrder(Facts(log'))
  BY <1>1, ApprovalParts DEF Sheltered, OneByOne, ScheduledOnce
<1>3. ASSUME NEW s \in Steps PROVE SoundApproval(Facts(log'), log', run'.steps[s], s)
  BY <1>1, ApprovalParts
<1>4. ASSUME NEW t \in Threads PROVE Hand(Facts(log), t)'
  <2>1. CASE work'[t] = work[t]
    <3>1. Hand(Facts(log), t)
      BY ApprovalParts
    <3>2. Answering(Facts(log), t) => Answering(Facts(log), t)'
      BY <1>1, <2>1 DEF Answering
    <3>3. Opening(Facts(log), t) => Opening(Facts(log), t)'
      BY <1>1, <2>1 DEF Opening
    <3>4. work[t] \in Seq(Harmless(Facts(log))) => work'[t] \in Seq(Harmless(Facts(log')))
      BY <1>1, <2>1
    <3> QED BY <3>1, <3>2, <3>3, <3>4 DEF Hand
  <2>2. CASE work'[t] \in Seq(Harmless(Facts(log)))
    BY <1>1, <2>2 DEF Hand
  <2>3. CASE Answering(Facts(log), t)'
    BY <2>3 DEF Hand
  <2> QED BY <2>1, <2>2, <2>3 DEF Stays
<1> QED BY <1>2, <1>3, <1>4 DEF ApprovalInv, Hand

LEMMA BeginStays ==
    ASSUME ApprovalInv, UNCHANGED <<log, run>>, NEW t \in Threads, NEW todo, Begin(t, todo),
           todo \in Seq(Harmless(Facts(log)))
    PROVE  Stays
<1>1. \A u \in Threads : work'[u] = IF u = t THEN todo ELSE work[u]
  BY ApprovalParts DEF Begin, TypeOK
<1> QED BY <1>1 DEF Stays

LEMMA ContinueStays ==
    ASSUME ApprovalInv, UNCHANGED <<log, run>>, NEW t \in Threads, work[t] # <<>>,
           Head(work[t]).op # "append", NEW more, Continue(t, more),
           more \in Seq(Harmless(Facts(log)))
    PROVE  Stays
<1>1. Tail(work[t]) \in Seq(Harmless(Facts(log)))
  BY HarmlessHand
<1>2. more \o Tail(work[t]) \in Seq(Harmless(Facts(log)))
  BY <1>1, ConcatProperties
<1>3. Begin(t, more \o Tail(work[t]))
  BY DEF Continue, Begin
<1> QED BY <1>2, <1>3, BeginStays

-----------------------------------------------------------------------------
\* The steps that record nothing, one by one.

LEMMA GrantedRun ==
    ASSUME ApprovalInv, NEW s \in Steps, run.steps[s].approval = "granted"
    PROVE  GrantedLink(Facts(log), s, run.steps[s].index)
<1>1. PICK e \in log : /\ e.type = "APPROVAL_GRANTED" /\ e.step = s
                       /\ e.index = run.steps[s].index
  BY ApprovalParts DEF SoundApproval
<1>2. Fact(e) = <<"APPROVAL_GRANTED", s, run.steps[s].index>>
  BY <1>1 DEF Fact
<1> QED BY <1>1, <1>2 DEF GrantedLink, Facts

LEMMA DispatchedHarmless ==
    ASSUME ApprovalInv
    PROVE  dispatch(run) \in Seq(Harmless(Facts(log)))
<1>1. \A s \in GrantedLinks(run) : GrantedLink(Facts(log), s, run.steps[s].index)
  BY GrantedRun DEF GrantedLinks
<1>2. run \in Run
  BY ApprovalParts, RunIsSound
<1> QED BY <1>1, <1>2, dispatchHarmless

LEMMA DispatchStays == ASSUME ApprovalInv, NEW t \in Threads, Dispatch(t) PROVE Stays
<1>1. /\ work[t] # <<>> /\ Head(work[t]).op # "append" /\ Continue(t, dispatch(run))
      /\ UNCHANGED <<log, run>>
  BY DEF Dispatch, At
<1> QED BY <1>1, DispatchedHarmless, ContinueStays

LEMMA SweepStays ==
    ASSUME ApprovalInv, NEW t \in Threads, Begin(t, dispatch(run)), UNCHANGED <<log, run>>
    PROVE  Stays
BY DispatchedHarmless, BeginStays

LEMMA CheckSLAStays == ASSUME ApprovalInv, NEW t \in Threads, CheckSLA(t) PROVE Stays
<1>1. /\ work[t] # <<>> /\ Head(work[t]).op # "append" /\ Head(work[t]).active \in SUBSET Steps
      /\ UNCHANGED <<log, run>>
  BY ApprovalParts, HeadType DEF CheckSLA, At
<1>2. PICK todo \in SUBSET (DOMAIN SLAs) :
        Continue(t, Loop([op |-> "flag", active |-> Head(work[t]).active, todo |-> todo]))
  BY DEF CheckSLA
<1> DEFINE i == [op |-> "flag", active |-> Head(work[t]).active, todo |-> todo]
<1>3. i \in Instr /\ i.op = "flag"
  BY <1>1 DEF Instr, FlagLoop
<1>4. Continue(t, Loop(i))
  BY <1>2
<1> HIDE DEF i
<1>5. Loop(i) \in Seq(Harmless(Facts(log)))
  BY <1>3, OtherEntry, LoopHarmless
<1> QED BY <1>1, <1>4, <1>5, ContinueStays

LEMMA ScanStepStays == ASSUME ApprovalInv, NEW t \in Threads, ScanStep(t) PROVE Stays
<1> DEFINE F == Facts(log)
           cur == Head(work[t])
           rest(item) == [cur EXCEPT !.todo = @ \ {item}]
<1>1. /\ work[t] # <<>> /\ cur \in ScanLoop /\ cur.failed \in BOOLEAN /\ cur.op = "scan"
      /\ cur.op # "append" /\ UNCHANGED <<log, run>>
  BY ApprovalParts, HeadType DEF ScanStep, ScanLoop, At
<1>2. \A item \in cur.todo : item.step \in Steps
  BY <1>1 DEF ScanLoop
<1>3. ASSUME NEW item PROVE Loop(rest(item)) \in Seq(Harmless(F))
  <2> DEFINE i == rest(item)
  <2>1. i \in ScanLoop /\ i.op = "scan"
    BY <1>1 DEF ScanLoop
  <2> HIDE DEF i, cur, F
  <2>2. i \in Instr
    BY <2>1 DEF Instr
  <2>3. Loop(i) \in Seq(Harmless(F))
    BY <2>1, <2>2, OtherEntry, LoopHarmless
  <2> QED BY <2>3 DEF i
<1>4. \/ Continue(t, <<>>)
      \/ \E item \in cur.todo : Continue(t, Loop(rest(item)))
      \/ \E item \in cur.todo : /\ Kind[item.step] = "delay"
                                /\ Continue(t, fireTimer(cur.failed, item.step) \o Loop(rest(item)))
  BY DEF ScanStep
<1> HIDE DEF rest, F, cur
<1>5. ASSUME NEW item \in cur.todo, Kind[item.step] = "delay"
      PROVE  fireTimer(cur.failed, item.step) \o Loop(rest(item)) \in Seq(Harmless(F))
  BY <1>1, <1>2, <1>3, <1>5, ApprovalParts, fireTimerHarmless, ConcatProperties
<1>6. \E more \in Seq(Harmless(F)) : Continue(t, more)
  BY <1>3, <1>4, <1>5, EmptySeq
<1> QED BY <1>1, <1>6, ContinueStays DEF F, cur

LEMMA ApprovalStepStays == ASSUME ApprovalInv, NEW t \in Threads, ApprovalStep(t) PROVE Stays
<1> DEFINE F == Facts(log)
           cur == Head(work[t])
<1>1. /\ work[t] # <<>> /\ cur \in ApprovalsLoop /\ cur.failed \in BOOLEAN /\ cur.op = "approvals"
      /\ cur.op # "append" /\ UNCHANGED <<log, run>>
  BY ApprovalParts, HeadType DEF ApprovalStep, ApprovalsLoop, At
<1>2. PICK item \in cur.todo :
        Continue(t, advanceApproval(cur.failed, item.step, item.index)
                    \o Loop([cur EXCEPT !.todo = @ \ {item}]))
  BY DEF ApprovalStep
<1> DEFINE rest == [cur EXCEPT !.todo = @ \ {item}]
<1>3. item.step \in Steps /\ item.index \in Nat
  BY <1>1 DEF ApprovalsLoop
<1>4. cur \in Harmless(F)
  BY <1>1, HarmlessHand
<1>5. \A x \in cur.todo : GrantedLink(F, x.step, x.index)
  BY <1>1, <1>4 DEF Harmless
<1>6. /\ rest \in ApprovalsLoop /\ rest.op = "approvals" /\ rest.todo \subseteq cur.todo
  BY <1>1 DEF ApprovalsLoop
<1> HIDE DEF cur, rest
<1>7. ~(item.index + 1 < Len(Chain[item.step])) => AllGranted(F, item.step)
  BY <1>5, ApprovalParts, ShelteredLinks
<1>8. advanceApproval(cur.failed, item.step, item.index) \in Seq(Harmless(F))
  BY <1>1, <1>3, <1>5, <1>7, ApprovalParts, advanceApprovalHarmless
<1> HIDE DEF F
<1>9. Loop(rest) \in Seq(Harmless(F))
  <2>1. rest \in Instr
    BY <1>6 DEF Instr
  <2>2. rest \in Harmless(F)
    BY <1>5, <1>6, <2>1 DEF Harmless
  <2> QED BY <2>2, LoopHarmless
<1>10. advanceApproval(cur.failed, item.step, item.index) \o Loop(rest) \in Seq(Harmless(F))
  BY <1>8, <1>9, ConcatProperties
<1> QED BY <1>1, <1>2, <1>10, ContinueStays DEF cur, rest, F

LEMMA GrantedStays == ASSUME ApprovalInv, NEW t \in Threads, Granted(t) PROVE Stays
<1> DEFINE F == Facts(log)
           s == Head(work[t]).step
           i == run.steps[s].index
           adv == IF run.steps[s].approval # "granted" THEN <<>>
                  ELSE advanceApproval(run.failed, s, i)
<1>1. /\ work[t] # <<>> /\ s \in Steps /\ Head(work[t]).op # "append"
      /\ UNCHANGED <<log, run>> /\ Continue(t, adv \o dispatchAfter(run))
  BY ApprovalParts, HeadType DEF Granted, At
<1>2. run \in Run /\ i \in Nat /\ run.failed \in BOOLEAN
  BY <1>1, ApprovalParts, RunIsSound DEF Run, StepState
<1> HIDE DEF s
<1>3. adv \in Seq(Harmless(F))
  <2>1. CASE run.steps[s].approval = "granted"
    <3>1. GrantedLink(F, s, i)
      BY <1>1, <2>1, GrantedRun
    <3> HIDE DEF i
    <3>2. ~(i + 1 < Len(Chain[s])) => AllGranted(F, s)
      BY <3>1, ApprovalParts, ShelteredLinks
    <3> HIDE DEF F
    <3>3. advanceApproval(run.failed, s, i) \in Seq(Harmless(F))
      BY <1>1, <1>2, <3>1, <3>2, ApprovalParts, advanceApprovalHarmless
    <3> QED BY <2>1, <3>3
  <2>2. CASE run.steps[s].approval # "granted"
    BY <2>2, EmptySeq
  <2> QED BY <2>1, <2>2
<1>4. dispatchAfter(run) \in Seq(Harmless(F))
  BY <1>2, dispatchAfterHarmless
<1> HIDE DEF F, adv
<1>5. adv \o dispatchAfter(run) \in Seq(Harmless(F))
  BY <1>3, <1>4, ConcatProperties
<1> QED BY <1>1, <1>5, ContinueStays DEF F

\* What executes a task completes no approval.
LEMMA HandlerStays == ASSUME ApprovalInv, NEW t \in Threads, Handler(t) PROVE Stays
<1> DEFINE F == Facts(log)
           h == Head(work[t])
           s == h.step
<1>1. /\ work[t] # <<>> /\ h.op = "handler" /\ h.op # "append" /\ s \in Steps
      /\ h.failed \in BOOLEAN /\ UNCHANGED <<log, run>>
  BY ApprovalParts, HeadType DEF Handler, At
<1>2. Kind[s] = "task"
  BY <1>1, ApprovalParts, HeadSound DEF Sound, Begun
<1>3. \/ Continue(t, <<append(StepEvent("STEP_COMPLETED", s))>> \o advance(h.failed, s, TRUE))
      \/ Continue(t, handleTaskFailure(run, s))
  BY DEF Handler
<1>4. run \in Run
  BY ApprovalParts, RunIsSound
<1> HIDE DEF F, h, s
<1>5. <<append(StepEvent("STEP_COMPLETED", s))>> \o advance(h.failed, s, TRUE) \in Seq(Harmless(F))
  <2>1. AllGranted(F, s)
    BY <1>2 DEF AllGranted
  <2> QED BY <1>1, <2>1, ApprovalParts, CompleteHarmless
<1>6. handleTaskFailure(run, s) \in Seq(Harmless(F))
  BY <1>1, <1>4, ApprovalParts, handleTaskFailureHarmless
<1> QED BY <1>1, <1>3, <1>5, <1>6, ContinueStays DEF F, h

LEMMA RefreshFailsStays == ASSUME ApprovalInv, NEW w \in Workers, RefreshFails(w) PROVE Stays
<1> DEFINE F == Facts(log)
           h == Head(work[w])
           s == h.step
           stale == [run EXCEPT !.failed = h.failed, !.steps[h.step].attempt = h.attempt]
<1>1. /\ work[w] # <<>> /\ h.op = "handler" /\ h.op # "append" /\ s \in Steps
      /\ h.failed \in BOOLEAN /\ h.attempt \in 0 .. AttemptCap /\ w \in Threads
      /\ UNCHANGED <<log, run>>
  BY ApprovalParts, ThreadsMembers, HeadType DEF RefreshFails, At
<1>2. Continue(w, handleTaskFailure(stale, s))
  BY DEF RefreshFails
<1>3. stale \in Run
  <2> DEFINE q == [run EXCEPT !.failed = h.failed]
             st == [q.steps[s] EXCEPT !.attempt = h.attempt]
             x == [q EXCEPT !.steps = [q.steps EXCEPT ![s] = st]]
  <2>1. run \in Run
    BY ApprovalParts, RunIsSound
  <2>2. q \in Run
    BY <1>1, <2>1 DEF Run
  <2>3. stale = x
    OBVIOUS
  <2> HIDE DEF q, s
  <2>4. st \in StepState
    BY <1>1, <2>2 DEF Run, StepState
  <2> HIDE DEF st
  <2>5. [q.steps EXCEPT ![s] = st] \in [Steps -> StepState]
    BY <1>1, <2>2, <2>4 DEF Run
  <2>6. x \in Run
    BY <2>2, <2>5 DEF Run
  <2> HIDE DEF x
  <2> QED BY <2>3, <2>6
<1> HIDE DEF F, s, stale, h
<1>4. handleTaskFailure(stale, s) \in Seq(Harmless(F))
  BY <1>1, <1>3, ApprovalParts, handleTaskFailureHarmless
<1> QED BY <1>1, <1>2, <1>4, ContinueStays DEF F, h

LEMMA executeTaskStays == ASSUME ApprovalInv, NEW w \in Workers, executeTask(w) PROVE Stays
<1> DEFINE F == Facts(log)
           s == Head(queue)
           a == append(StepEvent("STEP_STARTED", s))
           h == [op |-> "handler", step |-> s, failed |-> run.failed,
                 attempt |-> run.steps[s].attempt]
<1>1. queue # <<>> /\ queue' = Tail(queue) /\ UNCHANGED <<log, run>> /\ w \in Threads
  BY ThreadsMembers DEF executeTask
<1>2. s \in Steps
  BY <1>1, ApprovalParts, RunIsSound, QueueHead
<1>3. run \in Run /\ run.failed \in BOOLEAN /\ run.steps[s].attempt \in 0 .. AttemptCap
  BY <1>2, ApprovalParts, RunIsSound DEF Run, StepState
<1>4. h \in Instr /\ h.op = "handler"
  BY <1>2, <1>3 DEF Instr
<1>5. Begin(w, IF handlers THEN <<a, h>> ELSE failStep(run.failed, s))
  BY DEF executeTask
<1> HIDE DEF F, s
<1>6. a \in Harmless(F)
  BY <1>2, PlainStepEntry, EventTypesMembers
<1> HIDE DEF a, h
<1>7. <<a, h>> \in Seq(Harmless(F))
  <2>1. h \in Harmless(F)
    BY <1>4, OtherEntry
  <2> QED BY <1>6, <2>1
<1>8. failStep(run.failed, s) \in Seq(Harmless(F))
  BY <1>2, <1>3, ApprovalParts, failStepHarmless
<1> QED BY <1>1, <1>5, <1>7, <1>8, BeginStays DEF F

LEMMA CancelStays == ASSUME ApprovalInv, NEW c \in Clients, Cancel(c) PROVE Stays
<1> DEFINE a == append(RunEvent("RUN_CANCELLED"))
<1>1. Begin(c, <<a>>) /\ c \in Threads /\ UNCHANGED <<log, run>>
  BY ThreadsMembers DEF Cancel
<1>2. a \in Harmless(Facts(log))
  BY PlainStepEntry, EventTypesMembers DEF RunEvent
<1> HIDE DEF a
<1>3. <<a>> \in Seq(Harmless(Facts(log)))
  BY <1>2
<1> QED BY <1>1, <1>3, BeginStays

LEMMA DecidedFields ==
    ASSUME NEW type \in {"APPROVAL_GRANTED", "APPROVAL_REJECTED"}, NEW s \in Steps,
           NEW i \in Nat, NEW by \in People
    PROVE  LET e == Decided(type, s, i, by)
           IN  e \in Event /\ e.type = type /\ e.step = s /\ e.index = i /\ e.by = by
<1>1. StepEvent(type, s) \in Event /\ StepEvent(type, s).type = type
      /\ StepEvent(type, s).step = s
  BY StepEventFields, EventTypesMembers
<1>2. Decided(type, s, i, by) = [StepEvent(type, s) EXCEPT !.index = i, !.by = by]
  BY DEF Decided
<1> QED BY <1>1, <1>2 DEF Event

LEMMA RejectStays ==
    ASSUME ApprovalInv, NEW c \in Clients, NEW s \in Steps, NEW by \in People, Reject(c, s, by)
    PROVE  Stays
<1> DEFINE e == Decided("APPROVAL_REJECTED", s, run.steps[s].index, by)
           b == append(StepEvent("RUN_FAILED", s))
<1>1. Begin(c, <<append(e), b>>) /\ c \in Threads /\ UNCHANGED <<log, run>>
  BY ThreadsMembers DEF Reject
<1>2. e \in Event /\ e.type = "APPROVAL_REJECTED"
  <2>1. run.steps[s].index \in Nat
    BY ApprovalParts, RunIsSound DEF Run, StepState
  <2> QED BY <2>1, DecidedFields
<1> HIDE DEF e
<1>3. append(e) \in Harmless(Facts(log)) /\ b \in Harmless(Facts(log))
  BY <1>2, PlainEntry, PlainStepEntry, EventTypesMembers
<1> HIDE DEF b
<1>4. <<append(e), b>> \in Seq(Harmless(Facts(log)))
  BY <1>3
<1> QED BY <1>1, <1>4, BeginStays

\* Approve is about the link that is current, and while it is asked for it was not granted.
LEMMA ApproveStays ==
    ASSUME ApprovalInv, NEW c \in Clients, NEW s \in Steps, NEW by \in People, Approve(c, s, by)
    PROVE  Stays
<1> DEFINE todo == <<append(Decided("APPROVAL_GRANTED", s, run.steps[s].index, by)),
                     [op |-> "granted", step |-> s]>>
<1>1. /\ Begin(c, todo) /\ c \in Threads /\ UNCHANGED <<log, run>>
      /\ run.steps[s].approval = "pending"
  BY ThreadsMembers DEF Approve, MayDecide
<1>2. \A u \in Threads : work'[u] = IF u = c THEN todo ELSE work[u]
  BY <1>1, ApprovalParts DEF Begin, TypeOK
<1>3. Kind[s] = "approval"
  <2>1. SoundStep(Facts(log), log, run.steps[s], s)
    BY ApprovalParts, RunIsSound
  <2>2. ToldFor(Facts(log), "APPROVAL_REQUESTED", s)
    BY <1>1, <2>1 DEF SoundStep
  <2> QED BY <2>2, ApprovalParts, LinkFacts
<1>4. run.steps[s].index = 0 => Unanswered(Facts(log), s)
  BY <1>1, ApprovalParts DEF SoundApproval
<1>5. Answering(Facts(log), c)'
  BY <1>1, <1>2, <1>3, <1>4 DEF Answering
<1> HIDE DEF todo
<1> QED BY <1>1, <1>2, <1>5 DEF Stays

LEMMA EscalateHarmless ==
    ASSUME ApprovalInv, NEW t \in Threads, At(t, "flag"), NEW i \in Head(work[t]).todo, Escalate(t, i)
    PROVE  /\ i \in Nat
           /\ \E more \in Seq(Harmless(Facts(log))) : Continue(t, more)
<1> DEFINE F == Facts(log)
           cur == Head(work[t])
           s == SLAs[i].onBreach
           jump == IF s \in cur.active \union {NoStep} THEN <<>>
                   ELSE scheduleStep(s) \o <<GetRunAndDispatch>>
           rest == [cur EXCEPT !.todo = @ \ {i}]
<1>1. cur \in FlagLoop
  BY ApprovalParts, HeadType
<1>2. i \in DOMAIN SLAs /\ i \in Nat /\ s \in Steps \union {NoStep}
  BY <1>1, SLAType DEF FlagLoop
<1>3. Continue(t, jump \o Loop(rest))
  BY DEF Escalate
<1>4. Loop(rest) \in Seq(Harmless(F))
  <2>1. rest \in FlagLoop /\ rest.op = "flag"
    BY <1>1 DEF FlagLoop
  <2> HIDE DEF rest, F
  <2>2. rest \in Instr
    BY <2>1 DEF Instr
  <2> QED BY <2>1, <2>2, OtherEntry, LoopHarmless
<1>5. s \in Steps => ~ScheduledOnce(s)
  BY <1>2 DEF ScheduledOnce
<1> HIDE DEF F, cur, rest, s
<1>6. jump \in Seq(Harmless(F))
  <2>1. CASE s \in Steps
    <3>1. scheduleStep(s) \in Seq(Harmless(F))
      BY <1>5, <2>1, ApprovalParts, ShelteredLeads, scheduleStepHarmless
    <3>2. scheduleStep(s) \o <<GetRunAndDispatch>> \in Seq(Harmless(F))
      BY <3>1, DispatchHarmless, ConcatProperties
    <3> QED BY <3>2, EmptySeq
  <2>2. CASE s = NoStep
    BY <2>2, EmptySeq
  <2> QED BY <1>2, <2>1, <2>2
<1> HIDE DEF jump
<1>7. jump \o Loop(rest) \in Seq(Harmless(F))
  BY <1>4, <1>6, ConcatProperties
<1> QED BY <1>2, <1>3, <1>7 DEF F

LEMMA FlagFailsStays == ASSUME ApprovalInv, NEW t \in Threads, FlagFails(t) PROVE Stays
<1>1. PICK i \in Head(work[t]).todo : Escalate(t, i)
  BY DEF FlagFails
<1>2. At(t, "flag") /\ UNCHANGED <<log, run>> /\ work[t] # <<>> /\ Head(work[t]).op # "append"
  BY DEF FlagFails, At
<1>3. PICK more \in Seq(Harmless(Facts(log))) : Continue(t, more)
  BY <1>1, <1>2, EscalateHarmless
<1> QED BY <1>2, <1>3, ContinueStays

LEMMA ReadFailsStays == ASSUME ApprovalInv, NEW t \in Threads, ReadFails(t) PROVE Stays
<1>1. /\ work[t] # <<>> /\ Head(work[t]).op # "append" /\ Continue(t, <<>>)
      /\ UNCHANGED <<log, run>>
  BY DEF ReadFails, At
<1> QED BY <1>1, EmptySeq, ContinueStays

LEMMA DisconnectStays == ASSUME ApprovalInv, NEW c \in Clients, Disconnect(c) PROVE Stays
<1> DEFINE todo == [n \in 1 .. Len(work[c]) |-> Survivor(work[c][n])]
<1>1. Begin(c, todo) /\ c \in Threads /\ UNCHANGED <<log, run>>
  BY ThreadsMembers DEF Disconnect, Begin
<1>2. work[c] \in Seq(Instr) /\ Len(work[c]) \in Nat
  BY <1>1, ApprovalParts, LenProperties DEF TypeOK
<1>3. ASSUME NEW i \in Instr PROVE Survivor(i) \in Harmless(Facts(log))
  <2>1. Survivor(i) \in ScanLoop /\ Survivor(i).op = "scan"
    <3>1. i.op = "scan" => i \in ScanLoop
      BY DEF Instr, FlagLoop, ApprovalsLoop
    <3> QED BY <3>1 DEF Survivor, ScanLoop
  <2>2. Survivor(i) \in Instr
    BY <2>1 DEF Instr
  <2> QED BY <2>1, <2>2, OtherEntry
<1>4. \A n \in 1 .. Len(work[c]) : work[c][n] \in Instr
  BY <1>2, ElementOfSeq
<1>5. \A n \in 1 .. Len(work[c]) : Survivor(work[c][n]) \in Harmless(Facts(log))
  BY <1>3, <1>4
<1>6. todo \in Seq(Harmless(Facts(log)))
  BY <1>2, <1>5, SeqDef
<1> HIDE DEF todo
<1> QED BY <1>1, <1>6, BeginStays

LEMMA EnvironmentStays ==
    ASSUME ApprovalInv, \/ Tick \/ RegisterTasks \/ Crash \/ UNCHANGED vars
                        \/ \E w \in Workers : TaskLost(w)
    PROVE  Stays
<1>1. CASE Crash
  BY <1>1, EmptySeq DEF Crash, Stays
<1>2. CASE UNCHANGED <<log, run, work>>
  BY <1>2 DEF Stays
<1> QED BY <1>1, <1>2 DEF Tick, RegisterTasks, vars, TaskLost

-----------------------------------------------------------------------------
\* What recording an event changes.

LEMMA DecidedAfter ==
    ASSUME NEW r \in Run, NEW d \in Event, NEW s \in Steps
    PROVE  applyOne(r, d).steps[s].decidedBy =
              IF Is(d, "APPROVAL_GRANTED", s) \/ Is(d, "APPROVAL_REJECTED", s) THEN d.by
              ELSE r.steps[s].decidedBy
<1> DEFINE a == r.steps[s]
           b == applyOne(r, d).steps[s]
<1>1. a \in StepState
  BY DEF Run
<1>2. CASE d.type = "RUN_STARTED"
  <2>1. b = IF s = Initial THEN ensureStep(a) ELSE a
    BY <1>2 DEF applyOne, Run
  <2>2. ~Is(d, "APPROVAL_GRANTED", s) /\ ~Is(d, "APPROVAL_REJECTED", s)
    BY <1>2 DEF Is
  <2> HIDE DEF a, b
  <2>3. b.decidedBy = a.decidedBy
    BY <1>1, <2>1 DEF ensureStep, StepState
  <2> QED BY <2>2, <2>3 DEF a, b
<1>3. CASE d.type \in {"TICKET_CREATED", "RUN_COMPLETED", "RUN_FAILED", "RUN_CANCELLED", "RUN_FAILING"}
  <2>1. b = a
    BY <1>3 DEF applyOne, Run
  <2>2. ~Is(d, "APPROVAL_GRANTED", s) /\ ~Is(d, "APPROVAL_REJECTED", s)
    BY <1>3 DEF Is
  <2> QED BY <2>1, <2>2
<1>4. CASE d.type \notin {"TICKET_CREATED", "RUN_STARTED", "RUN_COMPLETED", "RUN_FAILED",
                          "RUN_CANCELLED", "RUN_FAILING"}
  <2>1. applyOne(r, d) =
          IF d.step \in Steps THEN [r EXCEPT !.steps[d.step] = applyStep(@, d)] ELSE r
    BY <1>4 DEF applyOne
  <2>2. b = IF d.step = s THEN applyStep(a, d) ELSE a
    BY <2>1 DEF Run
  <2> HIDE DEF a, b
  <2>3. applyStep(a, d).decidedBy =
          IF d.type \in {"APPROVAL_GRANTED", "APPROVAL_REJECTED"} THEN d.by ELSE a.decidedBy
    BY <1>1 DEF applyStep, StepState
  <2> QED BY <2>2, <2>3 DEF Is, a, b
<1> QED BY <1>2, <1>3, <1>4

LEMMA AddedLinks ==
    ASSUME NEW F, NEW e
    PROVE  LET G == F \union {Fact(e)}
           IN  /\ \A s, i : GrantedLink(G, s, i) =>
                     GrantedLink(F, s, i) \/ (e.type = "APPROVAL_GRANTED" /\ e.step = s /\ e.index = i)
               /\ \A s, i : ToldLink(G, s, i) =>
                     ToldLink(F, s, i) \/ (e.type = "APPROVAL_REQUESTED" /\ e.step = s /\ e.index = i)
BY FactParts DEF GrantedLink, ToldLink

\* An event that goroutine t records: a harmless one, the grant of the link that is current,
\* or the first request of the links that the run begins with.
Fits(t, e) ==
    \/ append(e) \in Harmless(Facts(log))
    \/ t \in Clients /\ e.type = "APPROVAL_GRANTED" /\ e.index = run.steps[e.step].index
    \/ /\ t \in Clients /\ e.type = "APPROVAL_REQUESTED" /\ e.step = Initial /\ e.index = 0
       /\ ~ToldLink(Facts(log), Initial, 0)

LEMMA FitsParts ==
    ASSUME NEW t, NEW e \in Event, Fits(t, e)
    PROVE  /\ e.type = "APPROVAL_GRANTED" => t \in Clients /\ e.index = run.steps[e.step].index
           /\ e.type = "APPROVAL_REQUESTED" /\ e.index # 0 =>
                 GrantedLink(Facts(log), e.step, e.index - 1)
           /\ e.type = "APPROVAL_REQUESTED" /\ e.index = 0 /\ Len(Chain[e.step]) = 2 =>
                 t \in Clients /\ e.step = Initial /\ ~ToldLink(Facts(log), Initial, 0)
           /\ e.type = "STEP_COMPLETED" => AllGranted(Facts(log), e.step)
<1>1. append(e).op = "append" /\ append(e).ev = e
  BY AppendEntry
<1> DEFINE F == Facts(log)
<1>2. CASE append(e) \in Harmless(F)
  <2> DEFINE i == append(e)
  <2>1. i \in Harmless(F) /\ i.op = "append" /\ i.ev = e
    BY <1>1, <1>2
  <2> HIDE DEF i, F
  <2>2. /\ e.type # "APPROVAL_GRANTED"
        /\ e.type = "APPROVAL_REQUESTED" =>
              IF e.index = 0 THEN Len(Chain[e.step]) # 2
              ELSE GrantedLink(F, e.step, e.index - 1)
        /\ e.type = "STEP_COMPLETED" => AllGranted(F, e.step)
    BY <2>1 DEF Harmless
  <2> QED BY <2>2 DEF F
<1>3. CASE append(e) \notin Harmless(F)
  BY <1>3 DEF Fits
<1> QED BY <1>2, <1>3

LEMMA RecordInOrder ==
    ASSUME ApprovalInv, NEW t, NEW e \in Event, Record(e), Fits(t, e)
    PROVE  InOrder(Facts(log'))
<1> DEFINE F == Facts(log)
           G == F \union {Fact(e)}
<1>1. Facts(log') = G
  BY FactsAfter
<1>2. /\ \A s, i : GrantedLink(F, s, i) => GrantedLink(G, s, i)
      /\ \A s : AllGranted(F, s) => AllGranted(G, s)
  BY LinkGrows
<1>3. InOrder(F)
  BY ApprovalParts
<1>4. /\ e.type = "APPROVAL_REQUESTED" /\ e.index # 0 => GrantedLink(F, e.step, e.index - 1)
      /\ e.type = "STEP_COMPLETED" => AllGranted(F, e.step)
  BY FitsParts
<1>5. Fact(e)[1] = e.type /\ Fact(e)[2] = e.step /\ Fact(e)[3] = e.index
  BY FactParts
<1>6. \A f \in G : f \in F \/ f = Fact(e)
  OBVIOUS
<1> HIDE DEF F, G
<1>7. ASSUME NEW f \in G
      PROVE  /\ f[1] = "APPROVAL_REQUESTED" /\ f[3] # 0 => GrantedLink(G, f[2], f[3] - 1)
             /\ f[1] = "STEP_COMPLETED" => AllGranted(G, f[2])
  <2>1. CASE f \in F
    BY <1>2, <1>3, <2>1 DEF InOrder
  <2>2. CASE f = Fact(e)
    <3> DEFINE g == Fact(e)
    <3>1. g[1] = e.type /\ g[2] = e.step /\ g[3] = e.index /\ f = g
      BY <1>5, <2>2
    <3> HIDE DEF g
    <3> QED BY <1>2, <1>4, <3>1
  <2> QED BY <1>6, <2>1, <2>2
<1> QED BY <1>1, <1>7 DEF InOrder

LEMMA RecordApproval ==
    ASSUME ApprovalInv, NEW t, NEW e \in Event, Record(e), Fits(t, e), NEW s \in Steps
    PROVE  SoundApproval(Facts(log'), log', run'.steps[s], s)
<1> DEFINE F == Facts(log)
           G == F \union {Fact(e)}
           d == Stamp(e)
           a == run.steps[s]
           b == applyOne(run, d).steps[s]
<1>1. /\ log' = log \union {d} /\ run' = applyOne(run, d) /\ run \in Run /\ d \in Event
      /\ d.type = e.type /\ d.step = e.step /\ d.index = e.index /\ d.by = e.by
      /\ Facts(log') = G
  BY ApprovalParts, RunIsSound, StampType, StampFields, FactsAfter DEF Record
<1>2. /\ Is(d, "APPROVAL_REQUESTED", s) => b.approval = "pending" /\ b.index = d.index
      /\ Is(d, "APPROVAL_GRANTED", s) => b.approval = "granted" /\ b.index = a.index
      /\ Is(d, "APPROVAL_REJECTED", s) => b.approval = "rejected" /\ b.index = a.index
      /\ \/ b.approval = a.approval /\ b.index = a.index
         \/ Is(d, "APPROVAL_REQUESTED", s) \/ Is(d, "APPROVAL_GRANTED", s)
         \/ Is(d, "APPROVAL_REJECTED", s)
  BY <1>1, StepAfter
<1>3. b.decidedBy = IF Is(d, "APPROVAL_GRANTED", s) \/ Is(d, "APPROVAL_REJECTED", s) THEN d.by
                    ELSE a.decidedBy
  BY <1>1, DecidedAfter
<1>4. SoundApproval(F, log, a, s)
  BY ApprovalParts
<1>5. /\ e.type = "APPROVAL_GRANTED" => e.index = run.steps[e.step].index
      /\ e.type = "APPROVAL_REQUESTED" /\ e.index = 0 /\ Len(Chain[e.step]) = 2 =>
            e.step = Initial /\ ~ToldLink(F, Initial, 0)
  BY FitsParts
<1>6. /\ \A i : GrantedLink(G, s, i) =>
            GrantedLink(F, s, i) \/ (e.type = "APPROVAL_GRANTED" /\ e.step = s /\ e.index = i)
      /\ GrantedLink(F, s, 0) => ToldLink(F, s, 0)
  BY AddedLinks, ApprovalParts, LinkFacts
<1>7. run'.steps[s] = b
  BY <1>1
<1> HIDE DEF F, G, d, b
<1>8. b.approval = "granted" =>
         \E x \in log' : /\ x.type = "APPROVAL_GRANTED" /\ x.step = s
                         /\ x.index = b.index /\ x.by = b.decidedBy
  <2> SUFFICES ASSUME b.approval = "granted"
               PROVE  \E x \in log' : /\ x.type = "APPROVAL_GRANTED" /\ x.step = s
                                      /\ x.index = b.index /\ x.by = b.decidedBy
    OBVIOUS
  <2>1. CASE Is(d, "APPROVAL_GRANTED", s)
    <3>1. /\ d \in log' /\ d.type = "APPROVAL_GRANTED" /\ d.step = s
          /\ d.index = b.index /\ d.by = b.decidedBy
      BY <1>1, <1>2, <1>3, <1>5, <2>1 DEF Is
    <3> QED BY <3>1
  <2>2. CASE ~Is(d, "APPROVAL_GRANTED", s)
    <3>1. a.approval = "granted" /\ b.index = a.index /\ b.decidedBy = a.decidedBy
      BY <1>2, <1>3, <2>2
    <3>2. PICK x \in log : /\ x.type = "APPROVAL_GRANTED" /\ x.step = s
                           /\ x.index = a.index /\ x.by = a.decidedBy
      BY <1>4, <3>1 DEF SoundApproval
    <3> QED BY <1>1, <3>1, <3>2
  <2> QED BY <2>1, <2>2
<1>9. b.approval = "pending" /\ b.index = 0 => Unanswered(G, s)
  <2> SUFFICES ASSUME b.approval = "pending", b.index = 0, Len(Chain[s]) = 2
               PROVE  ~GrantedLink(G, s, 0)
    BY DEF Unanswered
  <2>1. CASE Is(d, "APPROVAL_REQUESTED", s)
    <3>1. e.type = "APPROVAL_REQUESTED" /\ e.step = s /\ e.index = 0
      BY <1>1, <1>2, <2>1 DEF Is
    <3>2. ~ToldLink(F, s, 0)
      BY <1>5, <3>1
    <3> QED BY <1>6, <3>1, <3>2
  <2>2. CASE ~Is(d, "APPROVAL_REQUESTED", s)
    <3>1. a.approval = "pending" /\ a.index = 0 /\ ~Is(d, "APPROVAL_GRANTED", s)
      BY <1>2, <2>2
    <3>2. ~GrantedLink(F, s, 0)
      BY <1>4, <3>1 DEF SoundApproval, Unanswered
    <3>3. ~(e.type = "APPROVAL_GRANTED" /\ e.step = s)
      BY <1>1, <3>1 DEF Is
    <3> QED BY <1>6, <3>2, <3>3
  <2> QED BY <2>1, <2>2
<1> QED BY <1>1, <1>7, <1>8, <1>9 DEF SoundApproval

\* Another client that is about to grant the current link still is: no other link becomes
\* current, and nobody else grants the first of two.
LEMMA RecordAnswering ==
    ASSUME ApprovalInv, NEW t, NEW e \in Event, Record(e), Warranted(Facts(log), log, now, e),
           Fits(t, e), NEW u \in Threads, u # t, work'[u] = work[u], Answering(Facts(log), u)
    PROVE  Answering(Facts(log), u)'
<1> DEFINE F == Facts(log)
           G == F \union {Fact(e)}
           d == Stamp(e)
<1>1. /\ run' = applyOne(run, d) /\ run \in Run /\ d \in Event
      /\ d.type = e.type /\ d.step = e.step /\ d.index = e.index
      /\ Facts(log') = G
  BY ApprovalParts, RunIsSound, StampType, StampFields, FactsAfter DEF Record
<1>2. PICK s \in Steps, by \in People :
         /\ Kind[s] = "approval"
         /\ work[u] = <<append(Decided("APPROVAL_GRANTED", s, run.steps[s].index, by)),
                        [op |-> "granted", step |-> s]>>
         /\ run.steps[s].index = 0 => Unanswered(F, s)
  BY DEF Answering
<1> DEFINE i == run.steps[s].index
           j == applyOne(run, d).steps[s].index
           x == Decided("APPROVAL_GRANTED", s, i, by)
<1>3. i \in Nat /\ u \in Clients
  BY <1>1 DEF Run, StepState, Answering
<1>4. ToldLink(F, s, i)
  <2>1. x \in Event /\ x.type = "APPROVAL_GRANTED" /\ x.step = s /\ x.index = i
    BY <1>3, DecidedFields
  <2> DEFINE g == [op |-> "granted", step |-> s]
  <2>2. work[u] = <<append(x), g>>
    BY <1>2
  <2> HIDE DEF x, g, F, i
  <2>3. work[u] # <<>> /\ Head(work[u]) = append(x)
    BY <2>2
  <2>4. append(x).op = "append" /\ append(x).ev = x
    BY <2>1, AppendEntry
  <2>5. Sound(F, log, now, append(x))
    BY <2>3, ApprovalParts, HeadSound DEF F
  <2>6. Warranted(F, log, now, x)
    BY <2>4, <2>5 DEF Sound
  <2> QED BY <2>1, <2>6 DEF Warranted
<1>5. /\ ToldLink(F, s, i) /\ i # 0 =>
            i = 1 /\ Len(Chain[s]) = 2 /\ GrantedLink(F, s, 0)
      /\ GrantedLink(F, s, 0) => ToldLink(F, s, 0)
      /\ i < Len(Chain[s])
  BY <1>4, ApprovalParts, ShelteredLinks, LinkFacts
<1>6. j = i \/ (Is(d, "APPROVAL_REQUESTED", s) /\ j = d.index)
  <2>1. LET a == run.steps[s]
            b == applyOne(run, d).steps[s]
        IN  /\ Is(d, "APPROVAL_REQUESTED", s) => b.approval = "pending" /\ b.index = d.index
            /\ Is(d, "APPROVAL_GRANTED", s) => b.approval = "granted" /\ b.index = a.index
            /\ Is(d, "APPROVAL_REJECTED", s) => b.approval = "rejected" /\ b.index = a.index
            /\ \/ b.approval = a.approval /\ b.index = a.index
               \/ Is(d, "APPROVAL_REQUESTED", s) \/ Is(d, "APPROVAL_GRANTED", s)
               \/ Is(d, "APPROVAL_REJECTED", s)
    BY <1>1, StepAfter
  <2> QED BY <2>1
<1>7. /\ e.type = "APPROVAL_GRANTED" => t \in Clients
      /\ e.type = "APPROVAL_REQUESTED" /\ e.index # 0 => GrantedLink(F, e.step, e.index - 1)
      /\ e.type = "APPROVAL_REQUESTED" /\ e.index = 0 /\ Len(Chain[e.step]) = 2 =>
            e.step = Initial /\ ~ToldLink(F, Initial, 0)
  BY FitsParts
<1>8. e.type = "APPROVAL_REQUESTED" /\ e.index # 0 => e.index < Len(Chain[e.step]) /\ e.index \in Nat
  BY DEF Warranted, Event
<1>9. /\ Len(Chain[s]) = 1 \/ Len(Chain[s]) = 2
      /\ Len(Chain[s]) = 2 => OneByOne
  <2>1. Sheltered
    BY ApprovalParts
  <2>2. \/ Len(Chain[s]) = 1
        \/ Len(Chain[s]) = 2 /\ OneByOne
    BY <1>2, <2>1, Zenon DEF Sheltered
  <2> DEFINE m == Len(Chain[s])
  <2>3. m = 1 \/ (m = 2 /\ OneByOne)
    BY <2>2
  <2> HIDE DEF m
  <2>4. (m = 1 \/ m = 2) /\ (m = 2 => OneByOne)
    BY <2>3
  <2> QED BY <2>4 DEF m
<1>10. \A k : GrantedLink(G, s, k) =>
          GrantedLink(F, s, k) \/ (e.type = "APPROVAL_GRANTED" /\ e.step = s /\ e.index = k)
  BY AddedLinks
<1> DEFINE n == Len(Chain[s])
<1> HIDE DEF F, G, d, i, j, n
<1>11. Unanswered(F, s) <=> (n = 2 => ~GrantedLink(F, s, 0))
  BY DEF Unanswered, n
<1>12. j = i
  <2>1. CASE Is(d, "APPROVAL_REQUESTED", s) /\ j = d.index
    <3>1. e.type = "APPROVAL_REQUESTED" /\ e.step = s /\ j = e.index
      BY <1>1, <2>1 DEF Is
    <3>2. CASE n = 1
      <4>1. i < 1 /\ (j # 0 => j < 1 /\ j \in Nat)
        BY <1>5, <1>8, <3>1, <3>2 DEF n
      <4> QED BY <1>3, <4>1
    <3>3. CASE n = 2
      <4>1. CASE j = 0
        <5>1. s = Initial /\ ~ToldLink(F, s, 0)
          BY <1>7, <3>1, <3>3, <4>1 DEF n
        <5> QED BY <1>4, <1>5, <4>1, <5>1
      <4>2. CASE j # 0
        <5>1. j < n /\ j \in Nat
          BY <1>8, <3>1, <4>2 DEF n
        <5>2. j = 1 /\ j - 1 = 0
          BY <3>3, <4>2, <5>1
        <5>3. GrantedLink(F, s, j - 1)
          BY <1>7, <3>1, <4>2
        <5>4. GrantedLink(F, s, 0)
          BY <5>2, <5>3, Zenon
        <5>5. i # 0
          BY <1>2, <1>11, <3>3, <5>4 DEF i, F
        <5> QED BY <1>4, <1>5, <5>2, <5>5
      <4> QED BY <4>1, <4>2
    <3> QED BY <1>9, <3>2, <3>3 DEF n
  <2> QED BY <1>6, <2>1
<1>13. j = 0 => Unanswered(G, s)
  <2> SUFFICES ASSUME j = 0, n = 2, GrantedLink(G, s, 0) PROVE FALSE
    BY DEF Unanswered, n
  <2>1. ~GrantedLink(F, s, 0)
    BY <1>2, <1>11, <1>12 DEF i, F
  <2>2. t \in Clients
    BY <1>7, <1>10, <2>1
  <2> QED BY <1>3, <1>9, <2>2 DEF n, OneByOne
<1>14. run'.steps[s].index = i
  BY <1>1, <1>12 DEF j
<1>15. /\ work'[u] = <<append(Decided("APPROVAL_GRANTED", s, run'.steps[s].index, by)),
                       [op |-> "granted", step |-> s]>>
       /\ run'.steps[s].index = 0 => Unanswered(Facts(log'), s)
  BY <1>1, <1>2, <1>12, <1>13, <1>14 DEF i
<1> QED BY <1>2, <1>3, <1>15 DEF Answering

LEMMA RecordOpening ==
    ASSUME ApprovalInv, NEW t, NEW e \in Event, Record(e), Fits(t, e),
           NEW u \in Threads, u # t, work'[u] = work[u], Opening(Facts(log), u)
    PROVE  Opening(Facts(log), u)'
<1> DEFINE F == Facts(log)
           G == F \union {Fact(e)}
<1>1. Facts(log') = G /\ F \subseteq G
  BY FactsAfter
<1>2. u \in Clients /\ Kind[Initial] = "approval" /\ Len(Chain[Initial]) = 2 /\ ~ToldLink(F, Initial, 0)
  BY DEF Opening
<1>3. OneByOne
  <2>1. Initial \in Steps
    BY WorkflowAssumption
  <2> QED BY <1>2, <2>1, ApprovalParts DEF Sheltered
<1>4. /\ e.type = "APPROVAL_REQUESTED" /\ e.index = 0 /\ Len(Chain[e.step]) = 2 => t \in Clients
  BY FitsParts
<1>5. ~ToldLink(G, Initial, 0)
  <2>1. ToldLink(G, Initial, 0) =>
          ToldLink(F, Initial, 0) \/ (e.type = "APPROVAL_REQUESTED" /\ e.step = Initial /\ e.index = 0)
    BY AddedLinks
  <2> QED BY <1>2, <1>3, <1>4, <2>1 DEF OneByOne
<1>6. \A todo : Opens1(F, todo) => Opens1(G, todo)
  BY <1>1, HarmlessGrows DEF Opens1
<1>7. \/ Opens1(F, work[u])
      \/ /\ work[u] # <<>> /\ Head(work[u]) = append(RunEvent("RUN_STARTED"))
         /\ Opens1(F, Tail(work[u]))
  BY DEF Opening
<1> HIDE DEF F, G
<1> QED BY <1>1, <1>2, <1>5, <1>6, <1>7 DEF Opening

LEMMA RecordKeeps ==
    ASSUME ApprovalInv, LegalInv', NEW t \in Threads, NEW e \in Event, Record(e), Fits(t, e),
           Warranted(Facts(log), log, now, e), \A u \in Threads : u # t => work'[u] = work[u],
           Hand(Facts(log), t)'
    PROVE  ApprovalInv'
<1>1. InOrder(Facts(log')) /\ \A s \in Steps : SoundApproval(Facts(log'), log', run'.steps[s], s)
  BY RecordInOrder, RecordApproval
<1>2. Sheltered'
  BY ApprovalParts DEF Sheltered, OneByOne, ScheduledOnce
<1>3. Facts(log) \subseteq Facts(log')
  BY FactsAfter
<1>4. ASSUME NEW u \in Threads, u # t PROVE Hand(Facts(log), u)'
  <2>1. Hand(Facts(log), u) /\ work'[u] = work[u]
    BY <1>4, ApprovalParts
  <2>2. work[u] \in Seq(Harmless(Facts(log))) => work'[u] \in Seq(Harmless(Facts(log')))
    BY <1>3, <2>1, HarmlessGrows
  <2>3. Answering(Facts(log), u) => Answering(Facts(log), u)'
    BY <1>4, <2>1, RecordAnswering
  <2>4. Opening(Facts(log), u) => Opening(Facts(log), u)'
    BY <1>4, <2>1, RecordOpening
  <2> QED BY <2>1, <2>2, <2>3, <2>4 DEF Hand
<1>5. \A u \in Threads : Hand(Facts(log), u)'
  BY <1>4
<1> QED BY <1>1, <1>2, <1>5 DEF ApprovalInv, Hand

-----------------------------------------------------------------------------
\* The steps that record an event, one by one.

LEMMA AppendFits ==
    ASSUME ApprovalInv, NEW t \in Threads, At(t, "append")
    PROVE  LET e == Head(work[t]).ev
           IN  /\ e \in Event /\ Warranted(Facts(log), log, now, e) /\ Fits(t, e)
<1> DEFINE F == Facts(log)
           h == Head(work[t])
           e == h.ev
<1>1. work[t] # <<>> /\ h.op = "append" /\ e \in Event
  BY ApprovalParts, HeadType DEF At
<1>2. Warranted(F, log, now, e)
  BY <1>1, ApprovalParts, HeadSound DEF Sound
<1>3. Hand(F, t)
  BY ApprovalParts
<1>4. CASE work[t] \in Seq(Harmless(F))
  <2>1. h \in Harmless(F)
    BY <1>1, <1>4, HeadTailProperties
  <2>2. append(e) \in Instr /\ append(e).op = "append" /\ append(e).ev = e
    BY <1>1, AppendEntry
  <2> HIDE DEF h, F
  <2>3. append(e) \in Harmless(F)
    BY <1>1, <2>1, <2>2 DEF Harmless
  <2> QED BY <1>1, <1>2, <2>3 DEF Fits, h, F
<1>5. CASE Answering(F, t)
  <2>1. PICK s \in Steps, by \in People :
           work[t] = <<append(Decided("APPROVAL_GRANTED", s, run.steps[s].index, by)),
                       [op |-> "granted", step |-> s]>>
    BY <1>5 DEF Answering
  <2> DEFINE x == Decided("APPROVAL_GRANTED", s, run.steps[s].index, by)
             g == [op |-> "granted", step |-> s]
  <2>2. run.steps[s].index \in Nat
    BY ApprovalParts, RunIsSound DEF Run, StepState
  <2>3. /\ x \in Event /\ x.type = "APPROVAL_GRANTED" /\ x.step = s
        /\ x.index = run.steps[s].index
    BY <2>2, DecidedFields
  <2>4. work[t] = <<append(x), g>>
    BY <2>1
  <2> HIDE DEF x, g
  <2>5. e = x
    BY <2>4 DEF append
  <2>6. t \in Clients
    BY <1>5 DEF Answering
  <2>7. e.type = "APPROVAL_GRANTED" /\ e.index = run.steps[e.step].index
    BY <2>3, <2>5
  <2> QED BY <1>1, <1>2, <2>6, <2>7 DEF Fits
<1>6. CASE Opening(F, t)
  <2>1. t \in Clients /\ ~ToldLink(F, Initial, 0)
    BY <1>6 DEF Opening
  <2>2. CASE h = append(Requested(Initial, 0))
    <3>1. e = Requested(Initial, 0)
      BY <2>2 DEF append
    <3>2. e.type = "APPROVAL_REQUESTED" /\ e.step = Initial /\ e.index = 0
      BY <3>1, WorkflowAssumption, RequestedFields
    <3> QED BY <1>1, <1>2, <2>1, <3>2 DEF Fits
  <2>3. CASE h = append(RunEvent("RUN_STARTED"))
    <3>1. e = RunEvent("RUN_STARTED")
      BY <2>3 DEF append
    <3>2. append(e) \in Harmless(F)
      BY <3>1, PlainStepEntry, EventTypesMembers DEF RunEvent
    <3> QED BY <1>1, <1>2, <3>2 DEF Fits
  <2> QED BY <1>6, <2>2, <2>3, OpeningWork DEF Opens1
<1> QED BY <1>3, <1>4, <1>5, <1>6 DEF Hand

LEMMA AppendEventKeeps ==
    ASSUME ApprovalInv, LegalInv', NEW t \in Threads, AppendEvent(t)
    PROVE  ApprovalInv'
<1> DEFINE F == Facts(log)
           e == Head(work[t]).ev
<1>1. At(t, "append") /\ Record(e) /\ work[t] # <<>>
  BY DEF AppendEvent, At
<1>2. e \in Event /\ Warranted(F, log, now, e) /\ Fits(t, e)
  BY <1>1, AppendFits
<1>3. \A u \in Threads : work'[u] = IF u = t THEN Tail(work[t]) ELSE work[u]
  <2>1. work[t] \in Seq(Instr)
    BY ApprovalParts DEF TypeOK
  <2>2. <<>> \o Tail(work[t]) = Tail(work[t])
    BY <1>1, <2>1, ConcatEmptySeq
  <2> QED BY <2>2, ApprovalParts DEF AppendEvent, Continue, TypeOK
<1>4. F \subseteq Facts(log') /\ Facts(log') = F \union {Fact(e)}
  BY <1>1, <1>2, FactsAfter
<1>5. \A todo \in Seq(Harmless(F)) : todo \in Seq(Harmless(Facts(log')))
  BY <1>4, HarmlessGrows
<1>6. Hand(F, t)'
  <2>1. CASE Tail(work[t]) \in Seq(Harmless(F))
    BY <1>3, <1>5, <2>1 DEF Hand
  <2>2. CASE work[t] \in Seq(Harmless(F))
    BY <1>1, <2>1, <2>2, HeadTailProperties
  <2>3. CASE Answering(F, t)
    BY <2>1, <2>3, AnsweringWork
  <2>4. CASE Opening(F, t)
    <3>1. CASE Opens1(F, work[t])
      BY <2>1, <3>1 DEF Opens1
    <3>2. CASE Head(work[t]) = append(RunEvent("RUN_STARTED")) /\ Opens1(F, Tail(work[t]))
      <4>1. e = RunEvent("RUN_STARTED")
        BY <3>2 DEF append
      <4>2. e.type = "RUN_STARTED"
        BY <4>1, StepEventFields, EventTypesMembers DEF RunEvent
      <4>3. t \in Clients /\ Kind[Initial] = "approval" /\ Len(Chain[Initial]) = 2 /\ ~ToldLink(F, Initial, 0)
        BY <2>4 DEF Opening
      <4> HIDE DEF e, F
      <4>4. ~ToldLink(F \union {Fact(e)}, Initial, 0)
        BY <4>2, <4>3, AddedLinks
      <4>5. Opens1(Facts(log'), work'[t])
        <5>1. work'[t] = Tail(work[t])
          BY <1>3
        <5> QED BY <1>5, <3>2, <5>1 DEF Opens1
      <4>6. Opening(F, t)'
        BY <1>4, <4>3, <4>4, <4>5 DEF Opening, F
      <4> QED BY <4>6 DEF Hand, F
    <3> QED BY <2>4, <3>1, <3>2, OpeningWork
  <2>5. Hand(F, t)
    BY ApprovalParts
  <2> QED BY <2>2, <2>3, <2>4, <2>5 DEF Hand
<1>7. \A u \in Threads : u # t => work'[u] = work[u]
  BY <1>3
<1> HIDE DEF e
<1> QED BY <1>1, <1>2, <1>6, <1>7, RecordKeeps

\* After an error only loops are left, and they are harmless.
LEMMA AfterErrorHarmless ==
    ASSUME ApprovalInv, NEW t \in Threads, At(t, "append")
    PROVE  AfterError(Tail(work[t])) \in Seq(Harmless(Facts(log)))
<1> DEFINE F == Facts(log)
           a == append(Requested(Initial, 0))
           S == Harmless(F) \union {a}
           rest == AfterError(Tail(work[t]))
<1>1. work[t] # <<>> /\ Head(work[t]).op = "append" /\ Hand(F, t)
  BY ApprovalParts DEF At
<1>2. CASE Tail(work[t]) \in Seq(Harmless(F))
  BY <1>2, AfterErrorType
<1>3. CASE Opens1(F, Tail(work[t]))
  <2> DEFINE todo == Tail(work[t])
  <2>1. todo # <<>> /\ Head(todo) = a /\ Tail(todo) \in Seq(Harmless(F)) /\ todo \in Seq(Instr)
    <3>1. work[t] \in Seq(Instr)
      BY ApprovalParts DEF TypeOK
    <3> QED BY <1>1, <1>3, <3>1, HeadTailProperties DEF Opens1
  <2> HIDE DEF todo, a, F
  <2>2. \A n \in 1 .. Len(todo) : todo[n] \in S
    <3>1. /\ Len(todo) \in Nat /\ Len(todo) > 0 /\ todo[1] = a
          /\ Len(Tail(todo)) = Len(todo) - 1
          /\ \A n \in 1 .. Len(Tail(todo)) : Tail(todo)[n] = todo[n + 1]
      BY <2>1, EmptySeq, LenProperties, HeadTailProperties
    <3>2. \A n \in 1 .. Len(Tail(todo)) : Tail(todo)[n] \in Harmless(F)
      BY <2>1, ElementOfSeq
    <3>3. ASSUME NEW n \in 1 .. Len(todo) PROVE todo[n] \in S
      <4>1. CASE n = 1
        BY <3>1, <4>1
      <4>2. CASE n # 1
        <5>1. n - 1 \in 1 .. Len(Tail(todo)) /\ (n - 1) + 1 = n
          BY <3>1, <4>2
        <5>2. todo[n] = Tail(todo)[n - 1]
          BY <3>1, <5>1
        <5> QED BY <3>2, <5>1, <5>2
      <4> QED BY <4>1, <4>2
    <3> QED BY <3>3
  <2>3. todo \in Seq(S)
    <3>1. todo = [n \in 1 .. Len(todo) |-> todo[n]] /\ Len(todo) \in Nat
      BY <2>1, LenProperties
    <3> HIDE DEF S
    <3> QED BY <2>2, <3>1, SeqDef
  <2> HIDE DEF S
  <2>4. AfterError(todo) \in Seq(S)
    BY <2>3, AfterErrorType
  <2>5. Loops(F, log, now, AfterError(todo))
    BY <1>1, ApprovalParts, HeadSound DEF todo, F
  <2>6. rest \in Seq(S) /\ Loops(F, log, now, rest)
    BY <2>4, <2>5 DEF todo
  <2> HIDE DEF rest
  <2>7. \A n \in 1 .. Len(rest) : rest[n] \in S /\ IsLoop(rest[n])
    BY <2>6, ElementOfSeq DEF Loops
  <2>8. \A i \in S : IsLoop(i) => i \in Harmless(F)
    BY DEF IsLoop, S, a, append
  <2>9. \A n \in 1 .. Len(rest) : rest[n] \in Harmless(F)
    BY <2>7, <2>8
  <2>10. rest = [n \in 1 .. Len(rest) |-> rest[n]] /\ Len(rest) \in Nat
    BY <2>6, LenProperties
  <2>11. rest \in Seq(Harmless(F))
    BY <2>9, <2>10, SeqDef
  <2> QED BY <2>11 DEF rest, F
<1>4. Tail(work[t]) \in Seq(Harmless(F)) \/ Opens1(F, Tail(work[t]))
  <2>1. CASE work[t] \in Seq(Harmless(F))
    BY <1>1, <2>1, HeadTailProperties
  <2>2. CASE Answering(F, t)
    BY <2>2, AnsweringWork
  <2>3. CASE Opening(F, t)
    BY <2>3, OpeningWork DEF Opens1
  <2> QED BY <1>1, <2>1, <2>2, <2>3 DEF Hand
<1> QED BY <1>2, <1>3, <1>4

LEMMA AppendFailsKeeps ==
    ASSUME ApprovalInv, LegalInv', NEW t \in Threads, AppendFails(t)
    PROVE  ApprovalInv'
<1> DEFINE F == Facts(log)
           e == Head(work[t]).ev
           rest == AfterError(Tail(work[t]))
<1>1. At(t, "append") /\ Begin(t, rest)
  BY DEF AppendFails, Begin
<1>2. e \in Event /\ Warranted(F, log, now, e) /\ Fits(t, e)
  BY <1>1, AppendFits
<1>3. rest \in Seq(Harmless(F))
  BY <1>1, AfterErrorHarmless
<1>4. \A u \in Threads : work'[u] = IF u = t THEN rest ELSE work[u]
  BY <1>1, ApprovalParts DEF Begin, TypeOK
<1>5. CASE UNCHANGED <<log, run>>
  <2>1. Stays
    BY <1>1, <1>3, <1>5, BeginStays
  <2> QED BY <2>1, StaysKeeps
<1>6. CASE Record(e)
  <2>1. F \subseteq Facts(log')
    BY <1>2, <1>6, FactsAfter
  <2>2. rest \in Seq(Harmless(Facts(log')))
    BY <1>3, <2>1, HarmlessGrows
  <2>3. Hand(F, t)'
    BY <1>4, <2>2 DEF Hand
  <2>4. \A u \in Threads : u # t => work'[u] = work[u]
    BY <1>4
  <2> HIDE DEF e, rest
  <2> QED BY <1>2, <1>6, <2>3, <2>4, RecordKeeps
<1> QED BY <1>5, <1>6 DEF AppendFails

LEMMA FlagKeeps ==
    ASSUME ApprovalInv, LegalInv', NEW t \in Threads, Flag(t)
    PROVE  ApprovalInv'
<1> DEFINE F == Facts(log)
<1>1. At(t, "flag") /\ work[t] # <<>> /\ Head(work[t]).op # "append"
  BY DEF Flag, At
<1>2. PICK i \in Head(work[t]).todo : Record(Breached(i)) /\ Escalate(t, i)
  BY DEF Flag
<1> DEFINE e == Breached(i)
<1>3. i \in Nat /\ Late(log, now, i) /\ Told(F, "RUN_STARTED")
  BY <1>1, <1>2, ApprovalParts, EscalateSound
<1>4. PICK more \in Seq(Harmless(F)) : Continue(t, more)
  BY <1>1, <1>2, EscalateHarmless
<1>5. e \in Event /\ e.type = "SLA_BREACHED" /\ e.index = i
  BY <1>3, BreachedType DEF Breached, RunEvent, StepEvent
<1>6. Record(e)
  BY <1>2
<1> HIDE DEF e
<1>7. Warranted(F, log, now, e)
  BY <1>3, <1>5 DEF Warranted
<1>8. Fits(t, e)
  BY <1>5, PlainEntry DEF Fits
<1>9. Tail(work[t]) \in Seq(Harmless(F))
  BY <1>1, HarmlessHand
<1>10. more \o Tail(work[t]) \in Seq(Harmless(Facts(log')))
  <2>1. F \subseteq Facts(log')
    BY <1>5, <1>6, FactsAfter
  <2>2. more \o Tail(work[t]) \in Seq(Harmless(F))
    BY <1>9, ConcatProperties
  <2> QED BY <2>1, <2>2, HarmlessGrows
<1>11. \A u \in Threads : work'[u] = IF u = t THEN more \o Tail(work[t]) ELSE work[u]
  BY <1>4, ApprovalParts DEF Continue, TypeOK
<1>12. Hand(F, t)' /\ \A u \in Threads : u # t => work'[u] = work[u]
  BY <1>10, <1>11 DEF Hand
<1> QED BY <1>5, <1>6, <1>7, <1>8, <1>12, RecordKeeps

\* The run begins with harmless entries, or with the first of two links.
LEMMA CreateTicketKeeps ==
    ASSUME ApprovalInv, LegalInv', NEW c \in Clients, CreateTicket(c)
    PROVE  ApprovalInv'
<1> DEFINE d == RunEvent("TICKET_CREATED")
           start == append(RunEvent("RUN_STARTED"))
           a == append(RunEvent("TICKET_ASSIGNED"))
           end == <<a, GetRunAndDispatch>>
           todo == <<start>> \o scheduleStep(Initial) \o end
           F == Facts(log')
<1>1. /\ d \in Event /\ d.type = "TICKET_CREATED"
      /\ RunEvent("RUN_STARTED") \in Event /\ RunEvent("TICKET_ASSIGNED") \in Event
  BY StepEventFields, EventTypesMembers DEF RunEvent
<1>2. log = {} /\ Record(d) /\ Begin(c, todo) /\ c \in Threads
  BY ThreadsMembers DEF CreateTicket
<1>3. start \in Harmless(F) /\ a \in Harmless(F) /\ start \in Instr /\ a \in Instr
  <2>1. start \in Harmless(F) /\ a \in Harmless(F)
    BY PlainStepEntry, EventTypesMembers DEF RunEvent
  <2> QED BY <1>1, <2>1, AppendEntry
<1> HIDE DEF d, a, start
<1>4. Facts(log') = Facts(log) \union {Fact(d)}
  BY <1>1, <1>2, FactsAfter
<1>5. ~ToldLink(F, Initial, 0)
  <2>1. ~ToldLink(Facts(log), Initial, 0)
    BY <1>2 DEF ToldLink, Facts
  <2>2. ToldLink(Facts(log) \union {Fact(d)}, Initial, 0) =>
           ToldLink(Facts(log), Initial, 0)
           \/ (d.type = "APPROVAL_REQUESTED" /\ d.step = Initial /\ d.index = 0)
    BY AddedLinks
  <2> QED BY <1>1, <1>4, <2>1, <2>2
<1> HIDE DEF F
<1>6. end \in Seq(Harmless(F)) /\ end \in Seq(Instr)
  <2>1. GetRunAndDispatch \in Instr /\ GetRunAndDispatch.op = "dispatch"
    BY DEF GetRunAndDispatch, Instr
  <2>2. GetRunAndDispatch \in Harmless(F)
    BY <2>1, OtherEntry
  <2> QED BY <1>3, <2>1, <2>2
<1> HIDE DEF end
<1>7. Initial \in Steps /\ scheduleStep(Initial) \in Seq(Instr)
  BY WorkflowAssumption, scheduleStepType, LaterSeq
<1>8. \A u \in Threads : work'[u] = IF u = c THEN todo ELSE work[u]
  BY <1>2, ApprovalParts DEF Begin, TypeOK
<1>9. Hand(Facts(log), c)'
  <2>1. CASE Kind[Initial] = "approval" => Len(Chain[Initial]) # 2
    <3>1. scheduleStep(Initial) \in Seq(Harmless(F))
      BY <1>7, <2>1, scheduleStepHarmless
    <3>2. <<start>> \in Seq(Harmless(F))
      BY <1>3
    <3>3. todo \in Seq(Harmless(F))
      BY <1>6, <3>1, <3>2, ConcatProperties
    <3> HIDE DEF todo
    <3>4. work'[c] \in Seq(Harmless(F))
      BY <1>2, <1>8, <3>3
    <3> QED BY <3>4 DEF Hand, F
  <2>2. CASE Kind[Initial] = "approval" /\ Len(Chain[Initial]) = 2
    <3> DEFINE r == append(Requested(Initial, 0))
               q == append(Scheduled(Initial, NoTime))
    <3>1. scheduleStep(Initial) = <<r, q>>
      BY <2>2 DEF scheduleStep
    <3>2. q \in Harmless(F) /\ q \in Instr
      <4>1. NoTime \in Nat \union {NoTime}
        OBVIOUS
      <4>2. Scheduled(Initial, NoTime) \in Event
        BY <1>7, <4>1, ScheduledFields
      <4> QED BY <1>7, <4>1, <4>2, ScheduledEntry, AppendEntry
    <3>3. r \in Instr
      BY <1>7, RequestedFields, AppendEntry
    <3> HIDE DEF r, q
    <3>4. /\ todo = (<<start>> \o <<r, q>>) \o end
          /\ <<start>> \in Seq(Instr) /\ <<r, q>> \in Seq(Instr) /\ <<start>> # <<>> /\ <<r, q>> # <<>>
          /\ Head(<<start>>) = start /\ Tail(<<start>>) = <<>>
          /\ Head(<<r, q>>) = r /\ Tail(<<r, q>>) = <<q>> /\ <<q>> \in Seq(Harmless(F))
      BY <1>3, <3>1, <3>2, <3>3
    <3> DEFINE more == <<r, q>> \o end
    <3>5. more \in Seq(Instr) /\ todo = <<start>> \o more
      <4> DEFINE one == <<start>>
                 two == <<r, q>>
      <4>1. one \in Seq(Instr) /\ two \in Seq(Instr) /\ end \in Seq(Instr) /\ todo = (one \o two) \o end
        BY <1>6, <3>4
      <4> HIDE DEF one, two, todo
      <4>2. two \o end \in Seq(Instr)
        BY <4>1, ConcatProperties
      <4>3. (one \o two) \o end = one \o (two \o end)
        BY <4>1, ConcatAssociative
      <4> QED BY <4>1, <4>2, <4>3 DEF one, two
    <3>6. Head(todo) = start /\ Tail(todo) = more
      <4>1. Head(<<start>> \o more) = start /\ Tail(<<start>> \o more) = <<>> \o more
        BY <3>4, <3>5, ConcatHead
      <4>2. <<>> \o more = more
        BY <3>5, ConcatEmptySeq
      <4> QED BY <3>5, <4>1, <4>2
    <3>7. Head(more) = r /\ Tail(more) = <<q>> \o end
      BY <1>6, <3>4, ConcatHead
    <3>8. Tail(more) \in Seq(Harmless(F))
      BY <1>6, <3>4, <3>7, ConcatProperties
    <3>9. more # <<>> /\ todo # <<>>
      <4>1. Len(more) = 2 + Len(end) /\ Len(end) \in Nat /\ Len(todo) = 1 + Len(more)
        BY <1>6, <3>4, <3>5, ConcatProperties, LenProperties
      <4> HIDE DEF more, todo
      <4> QED BY <4>1
    <3> HIDE DEF more, todo
    <3>10. work'[c] = todo
      BY <1>2, <1>8
    <3>11. Opening(Facts(log), c)'
      BY <1>5, <2>2, <3>6, <3>7, <3>8, <3>9, <3>10 DEF Opening, Opens1, F, r, start
    <3> QED BY <3>11 DEF Hand
  <2> QED BY <2>1, <2>2
<1>10. Fits(c, d) /\ Warranted(Facts(log), log, now, d)
  BY <1>1, <1>2, PlainEntry DEF Fits, Warranted
<1>11. \A u \in Threads : u # c => work'[u] = work[u]
  BY <1>8
<1> HIDE DEF todo
<1> QED BY <1>1, <1>2, <1>9, <1>10, <1>11, RecordKeeps

-----------------------------------------------------------------------------
LEMMA ApprovalInvInit == Sheltered /\ Init => ApprovalInv
<1> SUFFICES ASSUME Sheltered, Init PROVE ApprovalInv
  OBVIOUS
<1>1. LegalInv
  BY LegalInvInit
<1>2. InOrder(Facts(log))
  BY DEF Init, InOrder, Facts
<1>3. ASSUME NEW s \in Steps PROVE SoundApproval(Facts(log), log, run.steps[s], s)
  BY DEF Init, NewRun, NewStep, SoundApproval
<1>4. \A t \in Threads : work[t] \in Seq(Harmless(Facts(log)))
  BY EmptySeq DEF Init
<1> QED BY <1>1, <1>2, <1>3, <1>4 DEF ApprovalInv

LEMMA ApprovalInvNext == ApprovalInv /\ [Next]_vars => ApprovalInv'
<1> SUFFICES ASSUME ApprovalInv, [Next]_vars PROVE ApprovalInv'
  OBVIOUS
<1>1. LegalInv'
  BY ApprovalParts, LegalInvNext
<1>2. ASSUME Stays PROVE ApprovalInv'
  BY <1>1, <1>2, StaysKeeps
<1>3. ASSUME NEW t \in Threads, Proceed(t) PROVE ApprovalInv'
  BY <1>1, <1>2, <1>3, AppendEventKeeps, FlagKeeps, DispatchStays, CheckSLAStays, ScanStepStays,
     ApprovalStepStays, GrantedStays, HandlerStays DEF Proceed
<1>4. ASSUME NEW t \in Threads, AppendFails(t) \/ FlagFails(t) \/ ReadFails(t) PROVE ApprovalInv'
  BY <1>1, <1>2, <1>4, AppendFailsKeeps, FlagFailsStays, ReadFailsStays
<1>5. ASSUME NEW c \in Clients, Call(c) \/ Disconnect(c) PROVE ApprovalInv'
  <2>1. ASSUME NEW s \in Steps, NEW by \in People, Decide(c, s, by) PROVE Stays
    BY <2>1, ApproveStays, RejectStays DEF Decide
  <2>2. CASE Recover(c)
    BY <1>2, <2>2, SweepStays, ThreadsMembers DEF Recover
  <2> QED BY <1>1, <1>2, <1>5, <2>1, <2>2, CreateTicketKeeps, CancelStays, DisconnectStays DEF Call
<1>6. ASSUME NEW w \in Workers, executeTask(w) \/ TaskLost(w) \/ RefreshFails(w) PROVE ApprovalInv'
  BY <1>2, <1>6, executeTaskStays, RefreshFailsStays, EnvironmentStays
<1>7. CASE sweep
  BY <1>2, <1>7, SweepStays, ThreadsMembers DEF sweep
<1>8. CASE Tick \/ RegisterTasks \/ Crash \/ UNCHANGED vars
  BY <1>2, <1>8, EnvironmentStays
<1> QED BY <1>3, <1>4, <1>5, <1>6, <1>7, <1>8 DEF Next

\* In a sheltered workflow every grant that is on its way is one of the link that is current,
\* and a link is only left once its grant is on record.
THEOREM ApprovalInvariance == Sheltered /\ Spec => []ApprovalInv
BY ApprovalInvInit, ApprovalInvNext, PTL DEF Spec

\* An approval step of a sheltered workflow completes only after each of its links was granted,
\* whatever tasks, timers, sweeps, crashes, lost calls and lost answers of the database do.
THEOREM AllLinksGrantedHolds == Sheltered /\ Spec => []AllLinksGranted
<1>1. ApprovalInv => AllLinksGranted
  <2> SUFFICES ASSUME ApprovalInv, NEW s \in Steps, Kind[s] = "approval",
                      RecordedFor("STEP_COMPLETED", s), NEW i \in 0 .. (Len(Chain[s]) - 1)
               PROVE  \E e \in log : e.type = "APPROVAL_GRANTED" /\ e.step = s /\ e.index = i
    BY DEF AllLinksGranted
  <2>1. PICK x \in log : x.type = "STEP_COMPLETED" /\ x.step = s
    BY DEF RecordedFor
  <2> DEFINE f == Fact(x)
  <2>2. f \in Facts(log) /\ f[1] = "STEP_COMPLETED" /\ f[2] = s
    BY <2>1, FactParts DEF Facts
  <2> HIDE DEF f
  <2>3. AllGranted(Facts(log), s)
    BY <2>2, ApprovalParts DEF InOrder
  <2>4. GrantedLink(Facts(log), s, i)
    BY <2>3 DEF AllGranted
  <2>5. PICK e \in log : Fact(e) = <<"APPROVAL_GRANTED", s, i>>
    BY <2>4 DEF GrantedLink, Facts
  <2> QED BY <2>5, FactParts
<1> QED BY <1>1, ApprovalInvInit, ApprovalInvNext, PTL DEF Spec

\* A link of a sheltered workflow that reads as granted was granted by the user, or the role,
\* that it names.
THEOREM GrantedByApproverHolds == Sheltered /\ Spec => []GrantedByApprover
<1>1. ApprovalInv => GrantedByApprover
  <2> SUFFICES ASSUME ApprovalInv, NEW s \in Steps, run.steps[s].approval = "granted"
               PROVE  Authorized(s, run.steps[s].index, run.steps[s].decidedBy)
    BY DEF GrantedByApprover
  <2>1. PICK e \in log : /\ e.type = "APPROVAL_GRANTED" /\ e.step = s
                         /\ e.index = run.steps[s].index /\ e.by = run.steps[s].decidedBy
    BY ApprovalParts DEF SoundApproval
  <2>2. Warranted(Facts(log), log, now, e)
    BY <2>1, ApprovalParts, RunIsSound DEF SoundLog
  <2> QED BY <2>1, <2>2 DEF Warranted
<1> QED BY <1>1, ApprovalInvInit, ApprovalInvNext, PTL DEF Spec

-----------------------------------------------------------------------------
\* Without any condition on the workflow: who reads as having decided is on record with the
\* decision.
Signed(L, st, s) ==
    st.approval \in {"granted", "rejected"} =>
        \E e \in L : /\ e.type \in {"APPROVAL_GRANTED", "APPROVAL_REJECTED"}
                     /\ e.step = s /\ e.by = st.decidedBy

DecidedInv == LegalInv /\ \A s \in Steps : Signed(log, run.steps[s], s)

LEMMA RecordSigned ==
    ASSUME TypeOK, NEW e \in Event, Record(e), NEW s \in Steps, Signed(log, run.steps[s], s)
    PROVE  Signed(log', run'.steps[s], s)
<1> DEFINE d == Stamp(e)
           a == run.steps[s]
           b == applyOne(run, d).steps[s]
<1>1. log' = log \union {d} /\ run' = applyOne(run, d) /\ run \in Run /\ d \in Event
  BY StampType DEF Record, TypeOK
<1>2. /\ Is(d, "APPROVAL_REQUESTED", s) => b.approval = "pending"
      /\ \/ b.approval = a.approval
         \/ Is(d, "APPROVAL_REQUESTED", s) \/ Is(d, "APPROVAL_GRANTED", s)
         \/ Is(d, "APPROVAL_REJECTED", s)
  BY <1>1, StepAfter
<1>3. b.decidedBy = IF Is(d, "APPROVAL_GRANTED", s) \/ Is(d, "APPROVAL_REJECTED", s) THEN d.by
                    ELSE a.decidedBy
  BY <1>1, DecidedAfter
<1>4. Signed(log, a, s)
  OBVIOUS
<1> HIDE DEF d, a, b
<1>5. Signed(log', b, s)
  <2>1. CASE Is(d, "APPROVAL_GRANTED", s) \/ Is(d, "APPROVAL_REJECTED", s)
    BY <1>1, <1>3, <2>1 DEF Signed, Is
  <2>2. CASE ~(Is(d, "APPROVAL_GRANTED", s) \/ Is(d, "APPROVAL_REJECTED", s))
    BY <1>1, <1>2, <1>3, <1>4, <2>2 DEF Signed
  <2> QED BY <2>1, <2>2
<1> QED BY <1>1, <1>5 DEF b

LEMMA DecidedInvNext == DecidedInv /\ [Next]_vars => DecidedInv'
<1> SUFFICES ASSUME DecidedInv, [Next]_vars PROVE DecidedInv'
  OBVIOUS
<1>1. LegalInv /\ LegalInv' /\ TypeOK
  BY LegalInvNext, RunIsSound DEF DecidedInv
<1>2. Noted
  BY <1>1, NextConforms, RunIsSound DEF Conforms, LegalInv, HistoryInv
<1>3. ASSUME NEW s \in Steps PROVE Signed(log', run'.steps[s], s)
  <2>1. Signed(log, run.steps[s], s)
    BY DEF DecidedInv
  <2>2. CASE UNCHANGED <<log, run>>
    BY <2>1, <2>2
  <2>3. ASSUME NEW e \in Event, Record(e) PROVE Signed(log', run'.steps[s], s)
    BY <1>1, <2>1, <2>3, RecordSigned
  <2> QED BY <1>2, <2>2, <2>3 DEF Noted
<1> QED BY <1>1, <1>3 DEF DecidedInv

\* For every workflow and however decisions overlap: nobody reads as having granted or rejected
\* an approval but who may decide one of its links that was requested.
THEOREM DecidedByApproverHolds == Spec => []DecidedByApprover
<1>1. Init => DecidedInv
  <2>1. ASSUME Init, NEW s \in Steps PROVE Signed(log, run.steps[s], s)
    BY <2>1 DEF Init, NewRun, NewStep, Signed
  <2> QED BY <2>1, LegalInvInit DEF DecidedInv
<1>2. DecidedInv => DecidedByApprover
  <2> SUFFICES ASSUME DecidedInv, NEW s \in Steps, run.steps[s].approval \in {"granted", "rejected"}
               PROVE  \E x \in log : /\ x.type = "APPROVAL_REQUESTED" /\ x.step = s
                                     /\ Authorized(s, x.index, run.steps[s].decidedBy)
    BY DEF DecidedByApprover
  <2>1. PICK e \in log : /\ e.type \in {"APPROVAL_GRANTED", "APPROVAL_REJECTED"}
                         /\ e.step = s /\ e.by = run.steps[s].decidedBy
    BY DEF DecidedInv, Signed
  <2>2. LegalInv /\ SoundLog(log, now)
    BY RunIsSound DEF DecidedInv
  <2>3. Warranted(Facts(log), log, now, e)
    BY <2>1, <2>2 DEF SoundLog
  <2>4. Authorized(s, e.index, e.by) /\ ToldLink(Facts(log), s, e.index)
    BY <2>1, <2>3 DEF Warranted
  <2>5. PICK x \in log : x.type = "APPROVAL_REQUESTED" /\ x.step = s /\ x.index = e.index
    BY <2>4, FactsOfLog
  <2> QED BY <2>1, <2>4, <2>5
<1> QED BY <1>1, <1>2, DecidedInvNext, PTL DEF Spec
=============================================================================
