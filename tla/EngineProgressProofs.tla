------------------------- MODULE EngineProgressProofs -------------------------
(***************************************************************************)
(* Without faults, no interleaving of the engine's goroutines loses a run, *)
(* or gives it up before a task was attempted as often as its retry policy *)
(* says.                                                                   *)
(*                                                                         *)
(* A goroutine may take a run out of the states that sweep passes on from: *)
(* it starts or ends an execution, or records a decision.  But then it has *)
(* an entry left that makes up for it: one that schedules a step, requests *)
(* an approval or ends the run, or the handler that leads to one.          *)
(***************************************************************************)
EXTENDS EngineRefinementProofs

\* Events after which the run may wait for nothing that somebody will move on, and events
\* that end it.
Breaking == {"RUN_STARTED", "STEP_STARTED", "STEP_COMPLETED", "STEP_FAILED",
             "APPROVAL_GRANTED", "APPROVAL_REJECTED"}
Ending == {"RUN_COMPLETED", "RUN_FAILED", "RUN_CANCELLED"}
Opening == {"STEP_SCHEDULED", "APPROVAL_REQUESTED"}

\* Events that change neither the steps of the run nor its status.
Minor == {"TICKET_CREATED", "TICKET_ASSIGNED", "TIMER_FIRED", "SLA_BREACHED", "RUN_FAILING"}

Appends(i, types) == i.op = "append" /\ i.ev.type \in types

\* Entry i makes up for whatever was done before it, for the event e.
Secures(i) == i.op = "handler" \/ Appends(i, Opening \union Ending)

MakesUp(e, i) ==
    CASE e.type = "APPROVAL_GRANTED"  -> i.op = "granted" /\ i.step = e.step
      [] e.type = "APPROVAL_REJECTED" -> Appends(i, {"RUN_FAILED"})
      [] OTHER -> Secures(i)

\* Step s of run r was attempted as often as its retry policy says.
Exhausted(r, s) == r.steps[s].attempt >= 1 /\ r.steps[s].attempt >= MaxAttempts[s]

\* What every goroutine has to do: it makes up for what it breaks, and fails a run only for
\* a task that is not to be retried.
Fine(r, todo) ==
    \A n \in 1 .. Len(todo) :
        /\ Appends(todo[n], Breaking) =>
              \E m \in 1 .. Len(todo) : n < m /\ MakesUp(todo[n].ev, todo[m])
        /\ Appends(todo[n], {"RUN_FAILING"}) =>
              todo[n].ev.step \in Steps /\ Exhausted(r, todo[n].ev.step)

Secured(todo) == \E m \in 1 .. Len(todo) : Secures(todo[m])

\* A goroutine that has todo left to do does not leave the run r stranded.
Rescues(r, i) ==
    \/ Secures(i)
    \/ i.op = "granted" /\ r.steps[i.step].approval = "granted"
Rescued(r, todo) == \E m \in 1 .. Len(todo) : Rescues(r, todo[m])

WillFail(todo) == \E m \in 1 .. Len(todo) : Appends(todo[m], {"RUN_FAILED"})

-----------------------------------------------------------------------------
\* The invariant.  Handlers are registered before the first ticket is created, and a run
\* whose approval was rejected fails, whatever a stale duplicate schedules meanwhile.

RetriedEnough ==
    \A e \in log : e.type = "RUN_FAILING" => e.step \in Steps /\ Exhausted(run, e.step)

RejectedFails ==
    \A s \in Steps : run.steps[s].approval = "rejected" =>
        Terminal(run) \/ \E t \in Threads : WillFail(work[t])

MovesOn == Terminal(run) \/ Resumable \/ \E t \in Threads : Rescued(run, work[t])

Progress ==
    /\ log # {} => handlers /\ MovesOn
    /\ \A t \in Threads : Fine(run, work[t])
    /\ RetriedEnough /\ RejectedFails

ProgressInv == LegalInv /\ (faults = 0 => Progress)

-----------------------------------------------------------------------------
\* Sequences of entries.

Calm == {i \in Instr : ~Appends(i, Breaking \union {"RUN_FAILING"})}

LEMMA CalmSeq ==
    ASSUME NEW todo \in Seq(Calm)
    PROVE  todo \in Seq(Instr) /\ \A r : Fine(r, todo)
<1>1. Len(todo) \in Nat /\ \A n \in 1 .. Len(todo) : todo[n] \in Calm
  BY ElementOfSeq, LenProperties
<1>2. \A n \in 1 .. Len(todo) : todo[n] \in Instr
  BY <1>1 DEF Calm
<1>3. todo \in Seq(Instr)
  <2>1. todo \in [1 .. Len(todo) -> Instr]
    BY <1>2, LenProperties
  <2>2. \A n \in Nat : [1 .. n -> Instr] \subseteq Seq(Instr)
    BY SeqDef
  <2> QED BY <1>1, <2>1, <2>2
<1>4. \A n \in 1 .. Len(todo) : ~Appends(todo[n], Breaking) /\ ~Appends(todo[n], {"RUN_FAILING"})
  BY <1>1 DEF Calm, Appends
<1> QED BY <1>3, <1>4 DEF Fine

\* Positions of a concatenation.
LEMMA ConcatPositions ==
    ASSUME NEW p \in Seq(Instr), NEW q \in Seq(Instr)
    PROVE  /\ p \o q \in Seq(Instr) /\ Len(p \o q) = Len(p) + Len(q)
           /\ Len(p) \in Nat /\ Len(q) \in Nat
           /\ \A n \in 1 .. Len(p) : n \in 1 .. Len(p \o q) /\ (p \o q)[n] = p[n]
           /\ \A n \in 1 .. Len(q) :
                 Len(p) + n \in 1 .. Len(p \o q) /\ (p \o q)[Len(p) + n] = q[n]
           /\ \A n \in 1 .. Len(p \o q) :
                 n \in 1 .. Len(p) \/ \E m \in 1 .. Len(q) : n = Len(p) + m
<1>1. Len(p) \in Nat /\ Len(q) \in Nat
  BY LenProperties
<1>2. /\ p \o q \in Seq(Instr) /\ Len(p \o q) = Len(p) + Len(q)
      /\ \A i \in 1 .. Len(p) + Len(q) :
            (p \o q)[i] = IF i <= Len(p) THEN p[i] ELSE q[i - Len(p)]
  BY ConcatProperties
<1>3. ASSUME NEW n \in 1 .. Len(p) PROVE n \in 1 .. Len(p \o q) /\ (p \o q)[n] = p[n]
  BY <1>1, <1>2
<1>4. ASSUME NEW n \in 1 .. Len(q)
      PROVE  Len(p) + n \in 1 .. Len(p \o q) /\ (p \o q)[Len(p) + n] = q[n]
  <2>1. Len(p) + n \in 1 .. Len(p) + Len(q) /\ ~(Len(p) + n <= Len(p)) /\ Len(p) + n - Len(p) = n
    BY <1>1
  <2> QED BY <1>2, <2>1
<1>5. ASSUME NEW n \in 1 .. Len(p \o q), n \notin 1 .. Len(p)
      PROVE  \E m \in 1 .. Len(q) : n = Len(p) + m
  <2>1. n - Len(p) \in 1 .. Len(q) /\ n = Len(p) + (n - Len(p))
    BY <1>1, <1>2, <1>5
  <2> QED BY <2>1
<1> QED BY <1>1, <1>2, <1>3, <1>4, <1>5

LEMMA FineJoin ==
    ASSUME NEW r, NEW p \in Seq(Instr), NEW q \in Seq(Instr), Fine(r, p), Fine(r, q)
    PROVE  Fine(r, p \o q)
<1> DEFINE w == p \o q
           Good(n) == /\ Appends(w[n], Breaking) =>
                            \E m \in 1 .. Len(w) : n < m /\ MakesUp(w[n].ev, w[m])
                      /\ Appends(w[n], {"RUN_FAILING"}) =>
                            w[n].ev.step \in Steps /\ Exhausted(r, w[n].ev.step)
<1>1. /\ Len(p) \in Nat /\ Len(q) \in Nat
      /\ \A n \in 1 .. Len(p) : n \in 1 .. Len(w) /\ w[n] = p[n]
      /\ \A n \in 1 .. Len(q) : Len(p) + n \in 1 .. Len(w) /\ w[Len(p) + n] = q[n]
      /\ \A n \in 1 .. Len(w) : n \in 1 .. Len(p) \/ \E m \in 1 .. Len(q) : n = Len(p) + m
  BY ConcatPositions
<1> HIDE DEF w
<1>2. ASSUME NEW n \in 1 .. Len(p) PROVE Good(n)
  BY <1>1 DEF Fine
<1>3. ASSUME NEW k \in 1 .. Len(q) PROVE Good(Len(p) + k)
  <2>1. w[Len(p) + k] = q[k]
    BY <1>1
  <2>2. ASSUME Appends(q[k], Breaking)
        PROVE  \E m \in 1 .. Len(w) : Len(p) + k < m /\ MakesUp(q[k].ev, w[m])
    <3>1. PICK m \in 1 .. Len(q) : k < m /\ MakesUp(q[k].ev, q[m])
      BY <2>2 DEF Fine
    <3>2. Len(p) + m \in 1 .. Len(w) /\ w[Len(p) + m] = q[m] /\ Len(p) + k < Len(p) + m
      BY <1>1, <3>1
    <3> QED BY <3>1, <3>2
  <2>3. Appends(q[k], {"RUN_FAILING"}) => q[k].ev.step \in Steps /\ Exhausted(r, q[k].ev.step)
    BY DEF Fine
  <2> QED BY <2>1, <2>2, <2>3
<1>4. ASSUME NEW n \in 1 .. Len(w) PROVE Good(n)
  <2>1. CASE n \in 1 .. Len(p)
    BY <1>2, <2>1
  <2>2. CASE n \notin 1 .. Len(p)
    <3>1. PICK m \in 1 .. Len(q) : n = Len(p) + m
      BY <1>1, <2>2
    <3> HIDE DEF Good
    <3> QED BY <1>3, <3>1
  <2> QED BY <2>1, <2>2
<1> QED BY <1>4 DEF Fine, w

LEMMA FineCons ==
    ASSUME NEW r, NEW i \in Instr, NEW q \in Seq(Instr), Fine(r, q),
           Appends(i, Breaking) => \E m \in 1 .. Len(q) : MakesUp(i.ev, q[m]),
           Appends(i, {"RUN_FAILING"}) => i.ev.step \in Steps /\ Exhausted(r, i.ev.step)
    PROVE  Fine(r, <<i>> \o q) /\ <<i>> \o q \in Seq(Instr)
<1> DEFINE p == <<i>>
           w == p \o q
           Good(n) == /\ Appends(w[n], Breaking) =>
                            \E m \in 1 .. Len(w) : n < m /\ MakesUp(w[n].ev, w[m])
                      /\ Appends(w[n], {"RUN_FAILING"}) =>
                            w[n].ev.step \in Steps /\ Exhausted(r, w[n].ev.step)
<1>1. p \in Seq(Instr) /\ Len(p) = 1 /\ p[1] = i
  OBVIOUS
<1> HIDE DEF p
<1>2. /\ w \in Seq(Instr) /\ Len(q) \in Nat /\ 1 \in 1 .. Len(w) /\ w[1] = i
      /\ \A n \in 1 .. Len(q) : 1 + n \in 1 .. Len(w) /\ w[1 + n] = q[n]
      /\ \A n \in 1 .. Len(w) : n = 1 \/ \E m \in 1 .. Len(q) : n = 1 + m
  <2>1. 1 \in 1 .. Len(p)
    BY <1>1
  <2>2. \A n \in 1 .. Len(p) : n = 1
    BY <1>1
  <2>3. /\ w \in Seq(Instr) /\ Len(q) \in Nat
        /\ \A n \in 1 .. Len(p) : n \in 1 .. Len(w) /\ w[n] = p[n]
        /\ \A n \in 1 .. Len(q) : Len(p) + n \in 1 .. Len(w) /\ w[Len(p) + n] = q[n]
        /\ \A n \in 1 .. Len(w) : n \in 1 .. Len(p) \/ \E m \in 1 .. Len(q) : n = Len(p) + m
    BY <1>1, ConcatPositions
  <2> HIDE DEF w
  <2>4. 1 \in 1 .. Len(w) /\ w[1] = i
    BY <1>1, <2>1, <2>3
  <2>5. \A n \in 1 .. Len(q) : 1 + n \in 1 .. Len(w) /\ w[1 + n] = q[n]
    BY <1>1, <2>3
  <2>6. \A n \in 1 .. Len(w) : n = 1 \/ \E m \in 1 .. Len(q) : n = 1 + m
    BY <1>1, <2>2, <2>3
  <2> QED BY <2>3, <2>4, <2>5, <2>6
<1> HIDE DEF w
<1>3. Good(1)
  <2>1. ASSUME Appends(i, Breaking) PROVE \E m \in 1 .. Len(w) : 1 < m /\ MakesUp(i.ev, w[m])
    <3>1. PICK m \in 1 .. Len(q) : MakesUp(i.ev, q[m])
      BY <2>1
    <3>2. 1 + m \in 1 .. Len(w) /\ w[1 + m] = q[m] /\ 1 < 1 + m
      BY <1>2
    <3> QED BY <3>1, <3>2
  <2> QED BY <1>2, <2>1
<1>4. ASSUME NEW k \in 1 .. Len(q) PROVE Good(1 + k)
  <2>1. w[1 + k] = q[k]
    BY <1>2
  <2>2. ASSUME Appends(q[k], Breaking)
        PROVE  \E m \in 1 .. Len(w) : 1 + k < m /\ MakesUp(q[k].ev, w[m])
    <3>1. PICK m \in 1 .. Len(q) : k < m /\ MakesUp(q[k].ev, q[m])
      BY <2>2 DEF Fine
    <3>2. 1 + m \in 1 .. Len(w) /\ w[1 + m] = q[m] /\ 1 + k < 1 + m
      BY <1>2, <3>1
    <3> QED BY <3>1, <3>2
  <2>3. Appends(q[k], {"RUN_FAILING"}) => q[k].ev.step \in Steps /\ Exhausted(r, q[k].ev.step)
    BY DEF Fine
  <2> QED BY <2>1, <2>2, <2>3
<1>5. \A n \in 1 .. Len(w) : Good(n)
  BY <1>2, <1>3, <1>4
<1> QED BY <1>2, <1>5 DEF Fine, w, p

\* What one of two parts has, the whole has.
LEMMA JoinHas ==
    ASSUME NEW p \in Seq(Instr), NEW q \in Seq(Instr)
    PROVE  /\ Secured(p) \/ Secured(q) => Secured(p \o q)
           /\ \A r : Rescued(r, p) \/ Rescued(r, q) => Rescued(r, p \o q)
           /\ WillFail(p) \/ WillFail(q) => WillFail(p \o q)
<1>1. /\ \A n \in 1 .. Len(p) : n \in 1 .. Len(p \o q) /\ (p \o q)[n] = p[n]
      /\ \A n \in 1 .. Len(q) : Len(p) + n \in 1 .. Len(p \o q) /\ (p \o q)[Len(p) + n] = q[n]
  BY ConcatPositions
<1>2. Secured(p) \/ Secured(q) => Secured(p \o q)
  BY <1>1 DEF Secured
<1>3. \A r : Rescued(r, p) \/ Rescued(r, q) => Rescued(r, p \o q)
  BY <1>1 DEF Rescued
<1>4. WillFail(p) \/ WillFail(q) => WillFail(p \o q)
  BY <1>1 DEF WillFail
<1> QED BY <1>2, <1>3, <1>4

\* A first entry, and what is left after it.
LEMMA TailHas ==
    ASSUME NEW todo \in Seq(Instr), todo # <<>>, NEW r, Fine(r, todo)
    PROVE  /\ Tail(todo) \in Seq(Instr) /\ Head(todo) \in Instr /\ Fine(r, Tail(todo))
           /\ Appends(Head(todo), Breaking) =>
                 \E m \in 1 .. Len(Tail(todo)) : MakesUp(Head(todo).ev, Tail(todo)[m])
           /\ Appends(Head(todo), {"RUN_FAILING"}) =>
                 Head(todo).ev.step \in Steps /\ Exhausted(r, Head(todo).ev.step)
           /\ Rescued(r, todo) => Rescues(r, Head(todo)) \/ Rescued(r, Tail(todo))
           /\ WillFail(todo) => Appends(Head(todo), {"RUN_FAILED"}) \/ WillFail(Tail(todo))
<1> DEFINE h == Head(todo)
           q == Tail(todo)
<1>1. /\ Len(todo) \in Nat /\ Len(todo) > 0 /\ q \in Seq(Instr) /\ h \in Instr /\ h = todo[1]
      /\ Len(q) = Len(todo) - 1 /\ \A n \in 1 .. Len(q) : q[n] = todo[n + 1]
  BY HeadTailProperties, LenProperties, EmptySeq
<1> HIDE DEF h, q
<1>2. ASSUME NEW n \in 1 .. Len(todo), n # 1 PROVE n - 1 \in 1 .. Len(q) /\ q[n - 1] = todo[n]
  BY <1>1, <1>2
<1>3. 1 \in 1 .. Len(todo)
  BY <1>1
<1>4. ASSUME NEW n \in 1 .. Len(q)
      PROVE  /\ Appends(q[n], Breaking) =>
                   \E m \in 1 .. Len(q) : n < m /\ MakesUp(q[n].ev, q[m])
             /\ Appends(q[n], {"RUN_FAILING"}) =>
                   q[n].ev.step \in Steps /\ Exhausted(r, q[n].ev.step)
  <2>1. n + 1 \in 1 .. Len(todo) /\ q[n] = todo[n + 1]
    BY <1>1
  <2>2. ASSUME Appends(q[n], Breaking)
        PROVE  \E m \in 1 .. Len(q) : n < m /\ MakesUp(q[n].ev, q[m])
    <3>1. PICK m \in 1 .. Len(todo) : n + 1 < m /\ MakesUp(q[n].ev, todo[m])
      BY <2>1, <2>2 DEF Fine
    <3>2. m # 1 /\ n < m - 1
      BY <1>1, <3>1
    <3> QED BY <1>2, <3>1, <3>2
  <2> QED BY <2>1, <2>2 DEF Fine
<1>5. Fine(r, q)
  BY <1>4 DEF Fine
<1>6. ASSUME Appends(h, Breaking) PROVE \E m \in 1 .. Len(q) : MakesUp(h.ev, q[m])
  <2>1. PICK m \in 1 .. Len(todo) : 1 < m /\ MakesUp(h.ev, todo[m])
    BY <1>1, <1>3, <1>6 DEF Fine
  <2>2. m # 1
    BY <2>1
  <2> QED BY <1>2, <2>1, <2>2
<1>7. Appends(h, {"RUN_FAILING"}) => h.ev.step \in Steps /\ Exhausted(r, h.ev.step)
  BY <1>1, <1>3 DEF Fine
<1>8. Rescued(r, todo) => Rescues(r, h) \/ Rescued(r, q)
  BY <1>1, <1>2 DEF Rescued
<1>9. WillFail(todo) => Appends(h, {"RUN_FAILED"}) \/ WillFail(q)
  BY <1>1, <1>2 DEF WillFail
<1> QED BY <1>1, <1>5, <1>6, <1>7, <1>8, <1>9 DEF h, q

-----------------------------------------------------------------------------
\* What the functions of the engine make.

LEMMA AppendCalm ==
    ASSUME NEW e \in Event, e.type \notin Breaking, e.type # "RUN_FAILING"
    PROVE  append(e) \in Calm /\ (e.type \in Opening \union Ending => Secures(append(e)))
<1>1. append(e) \in Instr /\ append(e).op = "append" /\ append(e).ev = e
  BY AppendEntry
<1> QED BY <1>1 DEF Calm, Appends, Secures

LEMMA OtherCalm == ASSUME NEW i \in Instr, i.op # "append" PROVE i \in Calm
BY DEF Calm, Appends

LEMMA LoopCalm == ASSUME NEW i \in Calm PROVE Loop(i) \in Seq(Calm)
BY EmptySeq DEF Loop

LEMMA HeadHas ==
    ASSUME NEW i, NEW todo, Len(todo) \in Nat \ {0}, todo[1] = i
    PROVE  /\ Secures(i) => Secured(todo)
           /\ Appends(i, {"RUN_FAILED"}) => WillFail(todo)
<1>1. 1 \in 1 .. Len(todo)
  OBVIOUS
<1> QED BY <1>1 DEF Secured, WillFail

LEMMA scheduleStepCalm ==
    ASSUME NEW s \in Steps
    PROVE  scheduleStep(s) \in Seq(Calm) /\ Secured(scheduleStep(s))
<1>1. Kind[s] \in {"task", "approval", "delay"} /\ DelayOf[s] \in Nat
  BY WorkflowAssumption
<1>2. append(Requested(s, 0)) \in Calm /\ Secures(append(Requested(s, 0)))
  BY RequestedFields, AppendCalm DEF Breaking, Opening
<1>3. append(Scheduled(s, NoTime)) \in Calm /\ Secures(append(Scheduled(s, NoTime)))
  BY ScheduledFields, AppendCalm DEF Breaking, Opening
<1>4. append(Scheduled(s, DelayOf[s])) \in Calm /\ Secures(append(Scheduled(s, DelayOf[s])))
  BY <1>1, ScheduledFields, AppendCalm DEF Breaking, Opening
<1>5. PICK i \in Calm, j \in Calm : /\ Secures(i)
                                    /\ scheduleStep(s) = <<i, j>> \/ scheduleStep(s) = <<i>>
  BY <1>1, <1>2, <1>3, <1>4 DEF scheduleStep
<1>6. CASE scheduleStep(s) = <<i, j>>
  BY <1>5, <1>6, HeadHas
<1>7. CASE scheduleStep(s) = <<i>>
  BY <1>5, <1>7, HeadHas
<1> QED BY <1>5, <1>6, <1>7

LEMMA DispatchCalm == GetRunAndDispatch \in Calm
BY OtherCalm DEF GetRunAndDispatch, Instr

\* What comes after has what is needed, as well.
LEMMA SecuredJoin ==
    ASSUME NEW p \in Seq(Calm), NEW q \in Seq(Calm), Secured(p) \/ Secured(q)
    PROVE  p \o q \in Seq(Calm) /\ Secured(p \o q)
BY CalmSeq, JoinHas, ConcatProperties

LEMMA advanceCalm ==
    ASSUME NEW failed \in BOOLEAN, NEW s \in Steps, NEW succeeded \in BOOLEAN
    PROVE  advance(failed, s, succeeded) \in Seq(Calm) /\ Secured(advance(failed, s, succeeded))
<1> DEFINE nxt == IF succeeded THEN NextStep[s] ELSE OnError[s]
<1>1. nxt \in Steps \union {NoStep}
  BY WorkflowAssumption
<1>2. CASE nxt = NoStep
  <2> DEFINE type == IF succeeded /\ ~failed THEN "RUN_COMPLETED" ELSE "RUN_FAILED"
             e == StepEvent(type, s)
  <2>1. e \in Event /\ e.type \in {"RUN_COMPLETED", "RUN_FAILED"}
    BY StepEventFields, EventTypesMembers
  <2>2. advance(failed, s, succeeded) = <<append(e)>>
    BY <1>2 DEF advance
  <2> HIDE DEF type, e
  <2>3. append(e) \in Calm /\ Secures(append(e))
    BY <2>1, AppendCalm DEF Breaking, Ending
  <2> QED BY <2>2, <2>3, HeadHas
<1>3. CASE nxt \in Steps
  <2>1. advance(failed, s, succeeded) = scheduleStep(nxt) \o <<GetRunAndDispatch>>
    BY <1>3, WorkflowAssumption DEF advance
  <2> HIDE DEF nxt
  <2>2. scheduleStep(nxt) \in Seq(Calm) /\ Secured(scheduleStep(nxt))
    BY <1>3, scheduleStepCalm
  <2>3. <<GetRunAndDispatch>> \in Seq(Calm)
    BY DispatchCalm
  <2> QED BY <2>1, <2>2, <2>3, SecuredJoin
<1> QED BY <1>1, <1>2, <1>3

\* Before something that makes up for it, any event may be appended.
LEMMA ConsFine ==
    ASSUME NEW r, NEW e \in Event, NEW q \in Seq(Instr), Fine(r, q), Secured(q),
           e.type \notin {"APPROVAL_GRANTED", "APPROVAL_REJECTED"},
           e.type = "RUN_FAILING" => e.step \in Steps /\ Exhausted(r, e.step)
    PROVE  LET todo == <<append(e)>> \o q
           IN  todo \in Seq(Instr) /\ Fine(r, todo) /\ Secured(todo)
<1> DEFINE i == append(e)
<1>1. i \in Instr /\ i.op = "append" /\ i.ev = e
  BY AppendEntry
<1> HIDE DEF i
<1>2. Appends(i, Breaking) => \E m \in 1 .. Len(q) : MakesUp(i.ev, q[m])
  BY <1>1 DEF MakesUp, Secured
<1>3. Appends(i, {"RUN_FAILING"}) => i.ev.step \in Steps /\ Exhausted(r, i.ev.step)
  BY <1>1 DEF Appends
<1>4. Fine(r, <<i>> \o q) /\ <<i>> \o q \in Seq(Instr)
  BY <1>1, <1>2, <1>3, FineCons
<1>5. <<i>> \in Seq(Instr)
  BY <1>1
<1> QED BY <1>4, <1>5, JoinHas DEF i

LEMMA CompleteFine ==
    ASSUME NEW r, NEW failed \in BOOLEAN, NEW s \in Steps
    PROVE  LET todo == <<append(StepEvent("STEP_COMPLETED", s))>> \o advance(failed, s, TRUE)
           IN  todo \in Seq(Instr) /\ Fine(r, todo) /\ Secured(todo)
<1> DEFINE q == advance(failed, s, TRUE)
           e == StepEvent("STEP_COMPLETED", s)
<1>1. q \in Seq(Instr) /\ Fine(r, q) /\ Secured(q)
  BY advanceCalm, CalmSeq
<1>2. e \in Event /\ e.type = "STEP_COMPLETED"
  BY StepEventFields, EventTypesMembers
<1> HIDE DEF q, e
<1> QED BY <1>1, <1>2, ConsFine DEF q, e

\* A step is failed for a task that is not to be retried.
LEMMA failStepFine ==
    ASSUME NEW r, NEW failed \in BOOLEAN, NEW s \in Steps, Exhausted(r, s)
    PROVE  LET todo == failStep(failed, s)
           IN  todo \in Seq(Instr) /\ Fine(r, todo) /\ Secured(todo)
<1> DEFINE q == advance(failed, s, FALSE)
           a == StepEvent("STEP_FAILED", s)
           b == StepEvent("RUN_FAILING", s)
<1>1. q \in Seq(Instr) /\ Fine(r, q) /\ Secured(q)
  BY advanceCalm, CalmSeq
<1>2. a \in Event /\ a.type = "STEP_FAILED" /\ b \in Event /\ b.type = "RUN_FAILING" /\ b.step = s
  BY StepEventFields, EventTypesMembers
<1>3. failStep(failed, s) = <<append(a), append(b)>> \o q
  BY DEF failStep
<1> HIDE DEF q, a, b
<1> DEFINE p == <<append(b)>> \o q
<1>4. p \in Seq(Instr) /\ Fine(r, p) /\ Secured(p)
  BY <1>1, <1>2, ConsFine
<1>5. append(a) \in Instr /\ append(b) \in Instr
  BY <1>2, AppendEntry
<1>6. failStep(failed, s) = <<append(a)>> \o p
  BY <1>1, <1>3, <1>5, ConcatPair
<1> HIDE DEF p
<1> QED BY <1>2, <1>4, <1>6, ConsFine

LEMMA handleTaskFailureFine ==
    ASSUME NEW r \in Run, NEW s \in Steps
    PROVE  LET todo == handleTaskFailure(r, s)
           IN  todo \in Seq(Instr) /\ Fine(r, todo) /\ Secured(todo)
<1> DEFINE limit == IF MaxAttempts[s] = 0 THEN 1 ELSE MaxAttempts[s]
           wait == IF RetryDelay[s] > 0 THEN RetryDelay[s] ELSE NoTime
           a == StepEvent("STEP_FAILED", s)
           b == Scheduled(s, wait)
           d == GetRunAndDispatch
<1>1. r.steps[s].attempt \in Nat /\ MaxAttempts[s] \in Nat /\ r.failed \in BOOLEAN
  BY WorkflowAssumption, AttemptCapAssumption DEF Run, StepState
<1>2. CASE r.steps[s].attempt < limit
  <2>1. handleTaskFailure(r, s) = <<append(a), append(b), d>>
    BY <1>2, Zenon DEF handleTaskFailure
  <2>2. wait \in Nat \union {NoTime}
    BY WorkflowAssumption
  <2> HIDE DEF wait
  <2>3. b \in Event /\ b.type = "STEP_SCHEDULED"
    BY <2>2, ScheduledFields
  <2>4. a \in Event /\ a.type = "STEP_FAILED"
    BY StepEventFields, EventTypesMembers
  <2>5. d \in Calm
    BY DispatchCalm
  <2> HIDE DEF a, b, d
  <2>6. append(b) \in Calm /\ Secures(append(b))
    BY <2>3, AppendCalm DEF Breaking, Opening
  <2> DEFINE q == <<append(b)>> \o <<d>>
  <2>7. <<append(b)>> \in Seq(Calm) /\ <<d>> \in Seq(Calm) /\ Secured(<<append(b)>>)
    BY <2>5, <2>6, HeadHas
  <2>8. q \in Seq(Calm) /\ Secured(q)
    BY <2>7, SecuredJoin
  <2>9. append(a) \in Instr /\ append(b) \in Instr /\ d \in Instr
    BY <2>4, <2>3, <2>5, AppendEntry DEF Calm
  <2>10. handleTaskFailure(r, s) = <<append(a)>> \o q
    BY <2>1, <2>9, ConcatTriple
  <2> HIDE DEF q
  <2>11. q \in Seq(Instr) /\ Fine(r, q)
    BY <2>8, CalmSeq
  <2> QED BY <2>4, <2>8, <2>10, <2>11, ConsFine
<1>3. CASE ~(r.steps[s].attempt < limit)
  <2>1. handleTaskFailure(r, s) = failStep(r.failed, s)
    BY <1>3, Zenon DEF handleTaskFailure
  <2>2. Exhausted(r, s)
    BY <1>1, <1>3 DEF Exhausted
  <2> QED BY <1>1, <2>1, <2>2, failStepFine
<1> QED BY <1>2, <1>3

LEMMA fireTimerFine ==
    ASSUME NEW r, NEW failed \in BOOLEAN, NEW s \in Steps
    PROVE  LET todo == fireTimer(failed, s)
           IN  todo \in Seq(Instr) /\ Fine(r, todo) /\ Secured(todo)
<1> DEFINE a == StepEvent("TIMER_FIRED", s)
           b == StepEvent("STEP_COMPLETED", s)
           x == advance(failed, s, TRUE)
           q == <<append(b)>> \o x
<1>1. q \in Seq(Instr) /\ Fine(r, q) /\ Secured(q)
  BY CompleteFine
<1>2. a \in Event /\ a.type = "TIMER_FIRED" /\ b \in Event
  BY StepEventFields, EventTypesMembers
<1>3. fireTimer(failed, s) = <<append(a), append(b)>> \o x
  BY DEF fireTimer
<1>4. x \in Seq(Instr)
  BY advanceCalm, CalmSeq
<1> HIDE DEF x, a, b
<1>5. append(a) \in Instr /\ append(b) \in Instr
  BY <1>2, AppendEntry
<1>6. fireTimer(failed, s) = <<append(a)>> \o q
  BY <1>3, <1>4, <1>5, ConcatPair
<1> HIDE DEF q
<1> QED BY <1>1, <1>2, <1>6, ConsFine

LEMMA advanceApprovalFine ==
    ASSUME NEW r, NEW failed \in BOOLEAN, NEW s \in Steps, NEW i \in Nat
    PROVE  LET todo == advanceApproval(failed, s, i)
           IN  todo \in Seq(Instr) /\ Fine(r, todo) /\ Secured(todo)
<1> DEFINE a == append(Requested(s, i + 1))
<1>1. a \in Calm /\ Secures(a)
  BY RequestedFields, AppendCalm DEF Breaking, Opening
<1> HIDE DEF a
<1>2. <<a>> \in Seq(Instr) /\ Fine(r, <<a>>) /\ Secured(<<a>>)
  <2>1. <<a>> \in Seq(Calm) /\ Len(<<a>>) = 1 /\ <<a>>[1] = a
    BY <1>1
  <2>2. Secured(<<a>>)
    BY <1>1, <2>1, HeadHas
  <2> QED BY <2>1, <2>2, CalmSeq
<1> QED BY <1>2, CompleteFine DEF advanceApproval, a

LEMMA ScanCalm ==
    ASSUME NEW r \in Run, NEW due \in [Steps -> Nat \union {NoTime}]
    PROVE  Loop(Scan(r, due)) \in Seq(Calm)
<1>1. Scan(r, due) \in Instr /\ Scan(r, due).op = "scan"
  BY ScanType DEF Later, Scan
<1> QED BY <1>1, OtherCalm, LoopCalm

LEMMA dispatchCalm ==
    ASSUME NEW r \in Run
    PROVE  dispatch(r) \in Seq(Calm)
<1> DEFINE sla == IF SLAs = <<>> \/ r.status # "ACTIVE" THEN <<>>
                  ELSE <<[op |-> "checkSLA", active |-> ActiveSteps(r)]>>
           appr == [op |-> "approvals", failed |-> r.failed, todo |->
                      {[step |-> s, index |-> r.steps[s].index] : s \in GrantedLinks(r)}]
<1>1. sla \in Seq(Calm)
  <2>1. [op |-> "checkSLA", active |-> ActiveSteps(r)] \in Calm
    BY OtherCalm DEF ActiveSteps, Instr
  <2> QED BY <2>1, EmptySeq
<1>2. Loop(Scan(r, DueDates(r))) \in Seq(Calm)
  <2>1. DueDates(r) \in [Steps -> Nat \union {NoTime}]
    BY DEF DueDates, Run, StepState
  <2> QED BY <2>1, ScanCalm
<1>3. Loop(appr) \in Seq(Calm)
  <2>1. GrantedLinks(r) \subseteq Steps /\ r.failed \in BOOLEAN
    BY DEF GrantedLinks, Run
  <2>2. \A s \in Steps : r.steps[s].index \in Nat
    BY DEF Run, StepState
  <2>3. {[step |-> s, index |-> r.steps[s].index] : s \in GrantedLinks(r)}
            \subseteq [step : Steps, index : Nat]
    BY <2>1, <2>2
  <2>4. appr \in Instr /\ appr.op = "approvals"
    BY <2>1, <2>3 DEF Instr, ApprovalsLoop
  <2> QED BY <2>4, OtherCalm, LoopCalm
<1>4. dispatch(r) = IF Terminal(r) THEN <<>>
                    ELSE (sla \o Loop(Scan(r, DueDates(r)))) \o Loop(appr)
  BY DEF dispatch
<1> HIDE DEF sla, appr
<1>5. sla \o Loop(Scan(r, DueDates(r))) \in Seq(Calm)
  BY <1>1, <1>2, ConcatProperties
<1> QED BY <1>3, <1>4, <1>5, ConcatProperties, EmptySeq

LEMMA dispatchAfterCalm ==
    ASSUME NEW r \in Run
    PROVE  dispatchAfter(r) \in Seq(Calm)
<1> DEFINE due == [s \in Steps |-> IF Kind[s] = "task" THEN NoTime ELSE r.steps[s].dueAt]
<1>1. due \in [Steps -> Nat \union {NoTime}]
  BY DEF Run, StepState
<1> HIDE DEF due
<1>2. Loop(Scan(r, due)) \in Seq(Calm)
  BY <1>1, ScanCalm
<1> QED BY <1>2, EmptySeq DEF dispatchAfter, due

-----------------------------------------------------------------------------
\* Steps that change neither the steps of the run nor its status.

\* Goroutine t goes on with todo, which does what the entries it replaces would have done.
Gentle(t, todo) ==
    /\ Begin(t, todo) /\ todo \in Seq(Instr)
    /\ Fine(run, todo)
    /\ Rescued(run, work[t]) => Rescued(run, todo)
    /\ WillFail(work[t]) => WillFail(todo)

RecordsMinor ==
    \E d \in Event :
        /\ log' = log \union {d} /\ run' = applyOne(run, d) /\ d.type \in Minor
        /\ d.type = "RUN_FAILING" => d.step \in Steps /\ Exhausted(run, d.step)

\* log and run stay, or a minor event is recorded.  The first event of a run comes from a
\* goroutine that goes on to schedule its first step.
GentleStep(t, todo) ==
    /\ Gentle(t, todo)
    /\ UNCHANGED <<log, run>> \/ RecordsMinor
    /\ UNCHANGED handlers
    /\ log = {} /\ log' # {} => handlers /\ Secured(todo)

LEMMA MinorKeeps ==
    ASSUME NEW r \in Run, NEW d \in Event, d.type \in Minor
    PROVE  applyOne(r, d).steps = r.steps /\ applyOne(r, d).status = r.status
<1>1. CASE d.type \in {"TICKET_CREATED", "RUN_FAILING"}
  BY <1>1 DEF applyOne, Run
<1>2. CASE d.type \notin {"TICKET_CREATED", "RUN_FAILING"}
  <2>1. applyOne(r, d) =
            IF d.step \in Steps THEN [r EXCEPT !.steps[d.step] = applyStep(@, d)] ELSE r
    BY <1>2 DEF applyOne, Minor
  <2>2. applyStep(r.steps[d.step], d) = r.steps[d.step]
    BY <1>2 DEF applyStep, Minor
  <2>3. r.steps \in [Steps -> StepState] /\ r = [r EXCEPT !.steps = r.steps]
    BY DEF Run
  <2>4. CASE d.step \in Steps
    <3>1. [r.steps EXCEPT ![d.step] = r.steps[d.step]] = r.steps
      BY <2>3, <2>4
    <3>2. applyOne(r, d) = [r EXCEPT !.steps = [r.steps EXCEPT ![d.step] = r.steps[d.step]]]
      BY <2>1, <2>2, <2>4
    <3> QED BY <2>3, <3>1, <3>2
  <2> QED BY <2>1, <2>4
<1> QED BY <1>1, <1>2

LEMMA SecuredRescued == ASSUME NEW r, NEW todo, Secured(todo) PROVE Rescued(r, todo)
BY DEF Secured, Rescued, Rescues

LEMMA FineKept ==
    ASSUME NEW r, NEW r2, NEW todo, Fine(r, todo),
           \A s \in Steps : Exhausted(r, s) => Exhausted(r2, s)
    PROVE  Fine(r2, todo)
BY DEF Fine

LEMMA GentleKeeps ==
    ASSUME LegalInv, Progress, NEW t \in Threads, NEW todo, GentleStep(t, todo)
    PROVE  Progress'
<1>1. /\ run \in Run /\ work \in [Threads -> Seq(Instr)]
  BY RunIsSound DEF TypeOK
<1>2. run'.steps = run.steps /\ run'.status = run.status
  BY <1>1, MinorKeeps DEF GentleStep, RecordsMinor
<1>3. /\ \A s \in Steps : Exhausted(run, s) <=> Exhausted(run', s)
      /\ \A i : Rescues(run, i) <=> Rescues(run', i)
      /\ Terminal(run) <=> Terminal(run')
      /\ Resumable <=> Resumable'
  <2>1. Terminal(run) <=> Terminal(run')
    BY <1>2 DEF Terminal
  <2>2. \A s \in Steps : Exhausted(run, s) <=> Exhausted(run', s)
    BY <1>2 DEF Exhausted
  <2>3. \A i : Rescues(run, i) <=> Rescues(run', i)
    BY <1>2 DEF Rescues
  <2>4. ReadyTasks(run)' = ReadyTasks(run) /\ ArmedTimers(run)' = ArmedTimers(run)
        /\ GrantedLinks(run)' = GrantedLinks(run)
    BY <1>2 DEF ReadyTasks, ArmedTimers, GrantedLinks
  <2> QED BY <1>2, <2>1, <2>2, <2>3, <2>4 DEF Resumable
<1>4. work'[t] = todo /\ \A u \in Threads : u # t => work'[u] = work[u]
  BY <1>1 DEF GentleStep, Gentle, Begin
<1>5. /\ Fine(run, todo) /\ (Rescued(run, work[t]) => Rescued(run, todo))
      /\ WillFail(work[t]) => WillFail(todo)
  BY DEF GentleStep, Gentle
<1>6. \A w : Rescued(run, w) => Rescued(run', w)
  BY <1>3 DEF Rescued
<1>7. \A u \in Threads : Fine(run', work'[u])
  <2>1. \A u \in Threads : Fine(run, work'[u])
    BY <1>4, <1>5 DEF Progress
  <2> QED BY <1>3, <2>1, FineKept
<1>8. log' # {} => handlers' /\ MovesOn'
  <2>1. CASE log # {}
    <3>1. handlers /\ MovesOn
      BY <2>1 DEF Progress
    <3>2. ASSUME NEW u \in Threads, Rescued(run, work[u]) PROVE Rescued(run', work'[u])
      BY <1>4, <1>5, <1>6, <3>2
    <3> QED BY <1>3, <3>1, <3>2 DEF MovesOn, GentleStep
  <2>2. CASE log = {} /\ log' # {}
    <3>1. handlers /\ Secured(todo)
      BY <2>2 DEF GentleStep
    <3>2. Rescued(run', work'[t])
      BY <1>4, <3>1, SecuredRescued
    <3> QED BY <3>1, <3>2 DEF MovesOn, GentleStep
  <2> QED BY <2>1, <2>2
<1>9. RetriedEnough'
  <2>1. \A e \in log' : e.type = "RUN_FAILING" => e.step \in Steps /\ Exhausted(run, e.step)
    BY DEF GentleStep, RecordsMinor, Progress, RetriedEnough
  <2> QED BY <1>3, <2>1 DEF RetriedEnough
<1>10. RejectedFails'
  <2>1. ASSUME NEW u \in Threads, WillFail(work[u]) PROVE WillFail(work'[u])
    BY <1>4, <1>5, <2>1
  <2> QED BY <1>2, <1>3, <2>1 DEF RejectedFails, Progress
<1> QED BY <1>7, <1>8, <1>9, <1>10 DEF Progress

\* A goroutine replaces its first entry, which is no append.
LEMMA ContinueGentle ==
    ASSUME TypeOK, NEW t \in Threads, Fine(run, work[t]), NEW o, o # "append", At(t, o),
           NEW more \in Seq(Instr), Fine(run, more),
           Rescues(run, Head(work[t])) => Secured(more), Continue(t, more)
    PROVE  \E todo : Gentle(t, todo)
<1> DEFINE w == work[t]
<1>1. w \in Seq(Instr) /\ w # <<>> /\ Head(w).op # "append"
  BY DEF TypeOK, At
<1>2. /\ Tail(w) \in Seq(Instr) /\ Fine(run, Tail(w))
      /\ Rescued(run, w) => Rescues(run, Head(w)) \/ Rescued(run, Tail(w))
      /\ WillFail(w) => Appends(Head(w), {"RUN_FAILED"}) \/ WillFail(Tail(w))
  BY <1>1, TailHas
<1> DEFINE todo == more \o Tail(w)
<1>3. Begin(t, todo)
  BY DEF Continue, Begin
<1> HIDE DEF w
<1>4. todo \in Seq(Instr) /\ Fine(run, todo)
  BY <1>2, FineJoin, ConcatProperties
<1>5. Rescued(run, w) => Rescued(run, todo)
  BY <1>2, JoinHas, SecuredRescued DEF w
<1>6. WillFail(w) => WillFail(todo)
  BY <1>1, <1>2, JoinHas DEF Appends
<1> QED BY <1>3, <1>4, <1>5, <1>6 DEF Gentle, w

\* An idle goroutine begins something.
LEMMA BeginGentle ==
    ASSUME NEW t \in Threads, Idle(t), NEW todo \in Seq(Instr), Fine(run, todo), Begin(t, todo)
    PROVE  Gentle(t, todo)
<1>1. Len(work[t]) = 0
  BY DEF Idle
<1>2. ~Rescued(run, work[t]) /\ ~WillFail(work[t])
  BY <1>1 DEF Rescued, WillFail
<1> QED BY <1>2 DEF Gentle

LEMMA StillGentle ==
    ASSUME NEW t \in Threads, NEW todo, Gentle(t, todo), UNCHANGED <<log, run, handlers>>
    PROVE  GentleStep(t, todo)
BY DEF GentleStep

LEMMA NoRescue ==
    ASSUME NEW t, NEW o, At(t, o), o \notin {"append", "handler", "granted"}
    PROVE  ~Rescues(run, Head(work[t]))
BY DEF At, Rescues, Secures, Appends

LEMMA LoopsCalm ==
    ASSUME NEW i \in FlagLoop \union ScanLoop \union ApprovalsLoop
    PROVE  i \in Calm /\ Loop(i) \in Seq(Calm)
<1>1. i \in Instr /\ i.op # "append"
  BY DEF FlagLoop, ScanLoop, ApprovalsLoop, Instr
<1> QED BY <1>1, OtherCalm, LoopCalm

LEMMA EmptyFine == <<>> \in Seq(Instr) /\ \A r : Fine(r, <<>>)
<1>1. <<>> \in Seq(Calm)
  BY EmptySeq
<1> QED BY <1>1, CalmSeq

\* What the steps of a goroutine make, step by step.

LEMMA DispatchGentle ==
    ASSUME LegalInv, Progress, NEW t \in Threads, Dispatch(t)
    PROVE  \E todo : GentleStep(t, todo)
<1>1. TypeOK /\ run \in Run /\ Fine(run, work[t])
  BY RunIsSound DEF Progress
<1>2. At(t, "dispatch") /\ Continue(t, dispatch(run)) /\ UNCHANGED <<log, run, handlers>>
  BY DEF Dispatch
<1>3. dispatch(run) \in Seq(Instr) /\ Fine(run, dispatch(run))
  BY <1>1, dispatchCalm, CalmSeq
<1>4. ~Rescues(run, Head(work[t]))
  BY <1>2, NoRescue
<1>5. \E todo : Gentle(t, todo)
  BY <1>1, <1>2, <1>3, <1>4, ContinueGentle
<1> QED BY <1>2, <1>5, StillGentle

LEMMA CheckSLAGentle ==
    ASSUME LegalInv, Progress, NEW t \in Threads, CheckSLA(t)
    PROVE  \E todo : GentleStep(t, todo)
<1>1. TypeOK /\ Fine(run, work[t])
  BY RunIsSound DEF Progress
<1>2. At(t, "checkSLA") /\ UNCHANGED <<log, run, handlers>>
  BY DEF CheckSLA
<1>3. Head(work[t]).active \in SUBSET Steps
  BY <1>1, <1>2, HeadType
<1>4. PICK todo \in SUBSET (DOMAIN SLAs) :
          Continue(t, Loop([op |-> "flag", active |-> Head(work[t]).active, todo |-> todo]))
  BY DEF CheckSLA
<1> DEFINE i == [op |-> "flag", active |-> Head(work[t]).active, todo |-> todo]
<1>5. i \in FlagLoop
  BY <1>3 DEF FlagLoop
<1> HIDE DEF i
<1>6. Loop(i) \in Seq(Instr) /\ Fine(run, Loop(i))
  BY <1>5, LoopsCalm, CalmSeq
<1>7. ~Rescues(run, Head(work[t]))
  BY <1>2, NoRescue
<1>8. \E x : Gentle(t, x)
  BY <1>1, <1>2, <1>4, <1>6, <1>7, ContinueGentle DEF i
<1> QED BY <1>2, <1>8, StillGentle

LEMMA FlagGentle ==
    ASSUME LegalInv, Progress, NEW t \in Threads, Flag(t)
    PROVE  \E todo : GentleStep(t, todo)
<1> DEFINE cur == Head(work[t])
<1>1. TypeOK /\ Fine(run, work[t])
  BY RunIsSound DEF Progress
<1>2. At(t, "flag") /\ UNCHANGED handlers
  BY DEF Flag
<1>3. PICK i \in cur.todo : Record(Breached(i)) /\ Escalate(t, i)
  BY DEF Flag
<1>4. cur \in FlagLoop
  BY <1>1, <1>2, HeadType
<1>5. i \in DOMAIN SLAs
  BY <1>4 DEF FlagLoop
<1> DEFINE rest == [cur EXCEPT !.todo = @ \ {i}]
           jump == IF SLAs[i].onBreach \in cur.active \union {NoStep} THEN <<>>
                   ELSE scheduleStep(SLAs[i].onBreach) \o <<GetRunAndDispatch>>
<1>6. jump \in Seq(Calm)
  <2>1. <<GetRunAndDispatch>> \in Seq(Calm)
    BY DispatchCalm
  <2>2. SLAs[i].onBreach \in Steps =>
            scheduleStep(SLAs[i].onBreach) \o <<GetRunAndDispatch>> \in Seq(Calm)
    BY <2>1, scheduleStepCalm, ConcatProperties
  <2>3. SLAs[i].onBreach \in Steps \union {NoStep}
    BY <1>5, SLAType
  <2> QED BY <2>2, <2>3, EmptySeq
<1>7. Loop(rest) \in Seq(Calm)
  <2>1. rest \in FlagLoop
    BY <1>4 DEF FlagLoop
  <2> QED BY <2>1, LoopsCalm
<1>8. Continue(t, jump \o Loop(rest))
  BY <1>3 DEF Escalate
<1>9. ~Rescues(run, cur)
  BY <1>2, NoRescue
<1>10. log # {}
  <2>1. Told(Facts(log), "RUN_STARTED")
    BY <1>2, HeadSound DEF At, Sound
  <2> QED BY <2>1, FactsOfLog
<1> HIDE DEF jump, rest, cur
<1>11. jump \o Loop(rest) \in Seq(Instr) /\ Fine(run, jump \o Loop(rest))
  BY <1>6, <1>7, CalmSeq, ConcatProperties
<1>12. PICK todo : Gentle(t, todo)
  BY <1>1, <1>2, <1>8, <1>9, <1>11, ContinueGentle DEF cur
<1>13. RecordsMinor
  <2>1. Breached(i) \in Event /\ Breached(i).type = "SLA_BREACHED" /\ now \in Nat
    BY <1>5, SLAType, BreachedType, RunIsSound DEF Breached, RunEvent, StepEvent
  <2>2. Stamp(Breached(i)) \in Event /\ Stamp(Breached(i)).type = "SLA_BREACHED"
    BY <2>1, StampType, StampFields
  <2> QED BY <1>3, <2>2 DEF Record, RecordsMinor, Minor
<1> QED BY <1>2, <1>10, <1>12, <1>13 DEF GentleStep

LEMMA ScanStepGentle ==
    ASSUME LegalInv, Progress, NEW t \in Threads, ScanStep(t)
    PROVE  \E todo : GentleStep(t, todo)
<1> DEFINE cur == Head(work[t])
           rest(item) == Loop([cur EXCEPT !.todo = @ \ {item}])
<1>1. TypeOK /\ Fine(run, work[t])
  BY RunIsSound DEF Progress
<1>2. At(t, "scan") /\ UNCHANGED <<log, run, handlers>>
  BY DEF ScanStep
<1>3. cur \in ScanLoop
  BY <1>1, <1>2, HeadType
<1>4. cur.failed \in BOOLEAN /\ \A item \in cur.todo : item.step \in Steps
  BY <1>3 DEF ScanLoop
<1>5. ASSUME NEW item PROVE rest(item) \in Seq(Instr) /\ Fine(run, rest(item))
  <2>1. [cur EXCEPT !.todo = @ \ {item}] \in ScanLoop
    BY <1>3 DEF ScanLoop
  <2> QED BY <2>1, LoopsCalm, CalmSeq
<1>6. \/ Continue(t, <<>>)
      \/ \E item \in cur.todo : Continue(t, rest(item))
      \/ \E item \in cur.todo : Continue(t, fireTimer(cur.failed, item.step) \o rest(item))
  BY DEF ScanStep
<1>7. ~Rescues(run, cur)
  BY <1>2, NoRescue
<1> HIDE DEF cur, rest
<1>8. ASSUME NEW item \in cur.todo
      PROVE  LET more == fireTimer(cur.failed, item.step) \o rest(item)
             IN  more \in Seq(Instr) /\ Fine(run, more)
  <2>1. fireTimer(cur.failed, item.step) \in Seq(Instr) /\ Fine(run, fireTimer(cur.failed, item.step))
    BY <1>4, fireTimerFine
  <2> QED BY <1>5, <2>1, FineJoin, ConcatProperties
<1>9. PICK more \in Seq(Instr) : Continue(t, more) /\ Fine(run, more)
  BY <1>5, <1>6, <1>8, EmptyFine
<1>10. \E todo : Gentle(t, todo)
  BY <1>1, <1>2, <1>7, <1>9, ContinueGentle DEF cur
<1> QED BY <1>2, <1>10, StillGentle

LEMMA ApprovalStepGentle ==
    ASSUME LegalInv, Progress, NEW t \in Threads, ApprovalStep(t)
    PROVE  \E todo : GentleStep(t, todo)
<1> DEFINE cur == Head(work[t])
<1>1. TypeOK /\ Fine(run, work[t])
  BY RunIsSound DEF Progress
<1>2. At(t, "approvals") /\ UNCHANGED <<log, run, handlers>>
  BY DEF ApprovalStep
<1>3. cur \in ApprovalsLoop
  BY <1>1, <1>2, HeadType
<1>4. PICK item \in cur.todo :
        Continue(t, advanceApproval(cur.failed, item.step, item.index)
                    \o Loop([cur EXCEPT !.todo = @ \ {item}]))
  BY DEF ApprovalStep
<1> DEFINE rest == Loop([cur EXCEPT !.todo = @ \ {item}])
           adv == advanceApproval(cur.failed, item.step, item.index)
<1>5. rest \in Seq(Instr) /\ Fine(run, rest)
  <2>1. [cur EXCEPT !.todo = @ \ {item}] \in ApprovalsLoop
    BY <1>3 DEF ApprovalsLoop
  <2> QED BY <2>1, LoopsCalm, CalmSeq
<1>6. adv \in Seq(Instr) /\ Fine(run, adv)
  <2>1. cur.failed \in BOOLEAN /\ item.step \in Steps /\ item.index \in Nat
    BY <1>3 DEF ApprovalsLoop
  <2> QED BY <2>1, advanceApprovalFine
<1>7. ~Rescues(run, cur)
  BY <1>2, NoRescue
<1> HIDE DEF cur, rest, adv
<1>8. adv \o rest \in Seq(Instr) /\ Fine(run, adv \o rest)
  BY <1>5, <1>6, FineJoin, ConcatProperties
<1>9. Continue(t, adv \o rest)
  BY <1>4 DEF adv, rest, cur
<1>10. \E todo : Gentle(t, todo)
  BY <1>1, <1>2, <1>7, <1>8, <1>9, ContinueGentle DEF cur
<1> QED BY <1>2, <1>10, StillGentle

LEMMA GrantedGentle ==
    ASSUME LegalInv, Progress, NEW t \in Threads, Granted(t)
    PROVE  \E todo : GentleStep(t, todo)
<1> DEFINE s == Head(work[t]).step
           adv == IF run.steps[s].approval # "granted" THEN <<>>
                  ELSE advanceApproval(run.failed, s, run.steps[s].index)
           aft == dispatchAfter(run)
<1>1. TypeOK /\ Fine(run, work[t]) /\ run \in Run
  BY RunIsSound DEF Progress
<1>2. At(t, "granted") /\ UNCHANGED <<log, run, handlers>> /\ Continue(t, adv \o aft)
  BY DEF Granted
<1>3. s \in Steps
  BY <1>1, <1>2, HeadType
<1>4. run.failed \in BOOLEAN /\ run.steps[s].index \in Nat
  BY <1>1, <1>3 DEF Run, StepState
<1>5. aft \in Seq(Instr) /\ Fine(run, aft)
  BY <1>1, dispatchAfterCalm, CalmSeq
<1>6. /\ adv \in Seq(Instr) /\ Fine(run, adv)
      /\ run.steps[s].approval = "granted" => Secured(adv)
  BY <1>3, <1>4, advanceApprovalFine, EmptyFine
<1>7. Rescues(run, Head(work[t])) => run.steps[s].approval = "granted"
  BY <1>2 DEF Rescues, Secures, Appends, At
<1> HIDE DEF adv, aft
<1>8. /\ adv \o aft \in Seq(Instr) /\ Fine(run, adv \o aft)
      /\ Rescues(run, Head(work[t])) => Secured(adv \o aft)
  BY <1>5, <1>6, <1>7, FineJoin, JoinHas, ConcatProperties
<1>9. \E todo : Gentle(t, todo)
  BY <1>1, <1>2, <1>8, ContinueGentle
<1> QED BY <1>2, <1>9, StillGentle

LEMMA HandlerGentle ==
    ASSUME LegalInv, Progress, NEW t \in Threads, Handler(t)
    PROVE  \E todo : GentleStep(t, todo)
<1> DEFINE s == Head(work[t]).step
           done == <<append(StepEvent("STEP_COMPLETED", s))>> \o advance(Head(work[t]).failed, s, TRUE)
<1>1. TypeOK /\ Fine(run, work[t]) /\ run \in Run
  BY RunIsSound DEF Progress
<1>2. /\ At(t, "handler") /\ UNCHANGED <<log, run, handlers>>
      /\ Continue(t, done) \/ Continue(t, handleTaskFailure(run, s))
  BY DEF Handler
<1>3. s \in Steps /\ Head(work[t]).failed \in BOOLEAN
  BY <1>1, <1>2, HeadType
<1>4. done \in Seq(Instr) /\ Fine(run, done) /\ Secured(done)
  BY <1>3, CompleteFine
<1>5. LET todo == handleTaskFailure(run, s)
      IN  todo \in Seq(Instr) /\ Fine(run, todo) /\ Secured(todo)
  BY <1>1, <1>3, handleTaskFailureFine
<1> HIDE DEF done
<1>6. PICK more \in Seq(Instr) : Continue(t, more) /\ Fine(run, more) /\ Secured(more)
  BY <1>2, <1>4, <1>5
<1>7. \E todo : Gentle(t, todo)
  BY <1>1, <1>2, <1>6, ContinueGentle
<1> QED BY <1>2, <1>7, StillGentle

-----------------------------------------------------------------------------
\* What begins: executions, calls and sweeps.

LEMMA executeTaskGentle ==
    ASSUME LegalInv, Progress, NEW t \in Workers, executeTask(t)
    PROVE  \E todo : GentleStep(t, todo)
<1> DEFINE s == Head(queue)
           e == StepEvent("STEP_STARTED", s)
           h == [op |-> "handler", step |-> s, failed |-> run.failed,
                 attempt |-> run.steps[s].attempt]
           todo == <<append(e), h>>
<1>1. TypeOK /\ run \in Run /\ run.failed \in BOOLEAN /\ t \in Threads
  BY RunIsSound, ThreadsMembers
<1>2. Idle(t) /\ queue # <<>> /\ queue' = Tail(queue) /\ UNCHANGED <<log, run, handlers>>
  BY DEF executeTask
<1>3. s \in Steps /\ Begun(Facts(log), s)
  BY <1>1, <1>2, RunIsSound, QueueHead
<1>4. handlers
  <2>1. Told(Facts(log), "RUN_STARTED")
    BY <1>3, RunIsSound, BegunLeads
  <2> QED BY <2>1, FactsOfLog DEF Progress
<1>5. Begin(t, todo)
  BY <1>4 DEF executeTask
<1>6. h \in Instr /\ h.op = "handler"
  BY <1>1, <1>3 DEF Instr, Run, StepState
<1>7. e \in Event /\ e.type = "STEP_STARTED"
  BY <1>3, StepEventFields, EventTypesMembers
<1> HIDE DEF h, e, s
<1>8. h \in Calm /\ Secures(h)
  BY <1>6, OtherCalm DEF Secures
<1>9. <<h>> \in Seq(Instr) /\ Fine(run, <<h>>) /\ Secured(<<h>>)
  <2>1. <<h>> \in Seq(Calm) /\ Len(<<h>>) = 1 /\ <<h>>[1] = h
    BY <1>8
  <2>2. Secured(<<h>>)
    BY <1>8, <2>1, HeadHas
  <2> QED BY <2>1, <2>2, CalmSeq
<1>10. LET x == <<append(e)>> \o <<h>>
       IN  x \in Seq(Instr) /\ Fine(run, x) /\ Secured(x)
  BY <1>7, <1>9, ConsFine
<1>11. todo \in Seq(Instr) /\ Fine(run, todo)
  BY <1>10, ConcatOne
<1> HIDE DEF todo
<1> QED BY <1>1, <1>2, <1>5, <1>11, BeginGentle, StillGentle

LEMMA RecoverGentle ==
    ASSUME LegalInv, NEW t \in Threads, Idle(t), Begin(t, dispatch(run)),
           UNCHANGED <<log, run, handlers>>
    PROVE  \E todo : GentleStep(t, todo)
<1>1. dispatch(run) \in Seq(Instr) /\ Fine(run, dispatch(run))
  BY RunIsSound, dispatchCalm, CalmSeq
<1> QED BY <1>1, BeginGentle, StillGentle

LEMMA CancelGentle ==
    ASSUME LegalInv, NEW t \in Threads, Cancel(t)
    PROVE  \E todo : GentleStep(t, todo)
<1> DEFINE e == RunEvent("RUN_CANCELLED")
<1>1. e \in Event /\ e.type = "RUN_CANCELLED"
  BY StepEventFields, EventTypesMembers DEF RunEvent
<1>2. Idle(t) /\ Begin(t, <<append(e)>>) /\ UNCHANGED <<log, run, handlers>>
  BY DEF Cancel
<1> HIDE DEF e
<1>3. append(e) \in Calm
  BY <1>1, AppendCalm DEF Breaking
<1>4. <<append(e)>> \in Seq(Calm)
  BY <1>3
<1>5. <<append(e)>> \in Seq(Instr) /\ Fine(run, <<append(e)>>)
  BY <1>4, CalmSeq
<1> QED BY <1>2, <1>5, BeginGentle, StillGentle

\* A decision is followed by what it asks for.
LEMMA DecideGentle ==
    ASSUME LegalInv, NEW t \in Threads, NEW s \in Steps, NEW by \in People, Decide(t, s, by)
    PROVE  \E todo : GentleStep(t, todo)
<1>1. run.steps[s].index \in Nat
  BY RunIsSound DEF Run, StepState
<1>2. ASSUME NEW e \in Event, NEW i \in Instr, e.type # "RUN_FAILING", MakesUp(e, i),
             Idle(t), Begin(t, <<append(e), i>>), <<i>> \in Seq(Calm),
             UNCHANGED <<log, run, handlers>>
      PROVE  \E todo : GentleStep(t, todo)
  <2> DEFINE a == append(e)
             q == <<i>>
  <2>1. a \in Instr /\ a.op = "append" /\ a.ev = e
    BY AppendEntry
  <2>2. q \in Seq(Instr) /\ Fine(run, q) /\ Len(q) = 1 /\ q[1] = i
    BY <1>2, CalmSeq
  <2>3. Begin(t, <<a>> \o q)
    BY <1>2, ConcatOne
  <2> HIDE DEF a, q
  <2>4. \E m \in 1 .. Len(q) : MakesUp(a.ev, q[m])
    BY <1>2, <2>1, <2>2
  <2>5. ~Appends(a, {"RUN_FAILING"})
    BY <1>2, <2>1 DEF Appends
  <2>6. <<a>> \o q \in Seq(Instr) /\ Fine(run, <<a>> \o q)
    BY <2>1, <2>2, <2>4, <2>5, FineCons
  <2> QED BY <1>2, <2>3, <2>6, BeginGentle, StillGentle
<1>3. CASE Approve(t, s, by)
  <2> DEFINE e == Decided("APPROVAL_GRANTED", s, run.steps[s].index, by)
             i == [op |-> "granted", step |-> s]
  <2>1. e \in Event
    BY <1>1, FollowUpTypes, DecidedType DEF FollowUp
  <2>2. e.type = "APPROVAL_GRANTED" /\ e.step = s
    BY DEF Decided, StepEvent
  <2>3. i \in Instr /\ i.op = "granted" /\ i.step = s
    BY DEF Instr
  <2>4. Idle(t) /\ Begin(t, <<append(e), i>>) /\ UNCHANGED <<log, run, handlers>>
    BY <1>3 DEF Approve, MayDecide
  <2> HIDE DEF e, i
  <2>5. MakesUp(e, i)
    BY <2>2, <2>3 DEF MakesUp
  <2>6. <<i>> \in Seq(Calm)
    BY <2>3, OtherCalm
  <2> QED BY <1>2, <2>1, <2>2, <2>3, <2>4, <2>5, <2>6
<1>4. CASE Reject(t, s, by)
  <2> DEFINE e == Decided("APPROVAL_REJECTED", s, run.steps[s].index, by)
             d == StepEvent("RUN_FAILED", s)
             i == append(d)
  <2>1. e \in Event
    BY <1>1, FollowUpTypes, DecidedType DEF FollowUp
  <2>2. e.type = "APPROVAL_REJECTED"
    BY DEF Decided, StepEvent
  <2>3. d \in Event /\ d.type = "RUN_FAILED"
    BY StepEventFields, EventTypesMembers
  <2>4. i \in Instr /\ i.op = "append" /\ i.ev = d
    BY <2>3, AppendEntry
  <2>5. Idle(t) /\ Begin(t, <<append(e), i>>) /\ UNCHANGED <<log, run, handlers>>
    BY <1>4 DEF Reject, MayDecide
  <2>6. i \in Calm
    BY <2>3, AppendCalm DEF Breaking
  <2> HIDE DEF e, i, d
  <2>7. MakesUp(e, i)
    BY <2>2, <2>3, <2>4 DEF MakesUp, Appends
  <2>8. <<i>> \in Seq(Calm)
    BY <2>6
  <2> QED BY <1>2, <2>1, <2>2, <2>4, <2>5, <2>7, <2>8
<1> QED BY <1>3, <1>4 DEF Decide

LEMMA CreateTicketGentle ==
    ASSUME LegalInv, NEW t \in Threads, CreateTicket(t)
    PROVE  \E todo : GentleStep(t, todo)
<1> DEFINE a == RunEvent("RUN_STARTED")
           b == RunEvent("TICKET_ASSIGNED")
           c == RunEvent("TICKET_CREATED")
           p == scheduleStep(Initial)
           z == <<append(b), GetRunAndDispatch>>
<1>1. /\ a \in Event /\ a.type = "RUN_STARTED" /\ b \in Event /\ b.type = "TICKET_ASSIGNED"
      /\ c \in Event /\ c.type = "TICKET_CREATED"
  BY StepEventFields, EventTypesMembers DEF RunEvent
<1>2. p \in Seq(Calm) /\ Secured(p)
  BY WorkflowAssumption, scheduleStepCalm
<1>3. /\ Idle(t) /\ handlers /\ log = {} /\ UNCHANGED handlers /\ Record(c)
      /\ Begin(t, <<append(a)>> \o p \o z)
  BY DEF CreateTicket
<1>4. append(a) \in Instr /\ append(b) \in Calm /\ GetRunAndDispatch \in Calm
  BY <1>1, AppendEntry, AppendCalm, DispatchCalm DEF Breaking
<1>5. z \in Seq(Calm)
  BY <1>4
<1> HIDE DEF a, b, c, p, z
<1> DEFINE q == p \o z
<1>6. q \in Seq(Calm) /\ Secured(q)
  BY <1>2, <1>5, SecuredJoin
<1>7. <<append(a)>> \o p \o z = <<append(a)>> \o q
  <2>1. <<append(a)>> \in Seq(Instr) /\ p \in Seq(Instr) /\ z \in Seq(Instr)
    BY <1>2, <1>4, <1>5, CalmSeq
  <2> QED BY <2>1, ConcatAssociative
<1> HIDE DEF q
<1> DEFINE todo == <<append(a)>> \o q
<1>8. todo \in Seq(Instr) /\ Fine(run, todo) /\ Secured(todo)
  BY <1>1, <1>6, CalmSeq, ConsFine
<1>9. Begin(t, todo)
  BY <1>3, <1>7
<1> HIDE DEF todo
<1>10. Gentle(t, todo)
  BY <1>3, <1>8, <1>9, BeginGentle
<1>11. RecordsMinor
  <2>1. Stamp(c) \in Event /\ Stamp(c).type = "TICKET_CREATED"
    BY <1>1, RunIsSound, StampType, StampFields
  <2> QED BY <1>3, <2>1 DEF Record, RecordsMinor, Minor
<1> QED BY <1>3, <1>8, <1>10, <1>11 DEF GentleStep

-----------------------------------------------------------------------------
\* A goroutine appends what it has to append next.

LEMMA ScheduledAfter ==
    ASSUME NEW r \in Run, NEW d \in Event, d.type = "STEP_SCHEDULED", d.step \in Steps
    PROVE  LET a == r.steps[d.step]
               b == applyOne(r, d).steps[d.step]
           IN  /\ b.status = IF Kind[d.step] = "task" THEN "PENDING" ELSE "WAITING"
               /\ d.wait # NoTime => b.dueAt = d.at + d.wait
               /\ b.approval = a.approval
<1>1. applyOne(r, d) = [r EXCEPT !.steps[d.step] = applyStep(@, d)]
  BY DEF applyOne
<1>2. applyOne(r, d).steps[d.step] = applyStep(r.steps[d.step], d)
  BY <1>1 DEF Run
<1>3. r.steps[d.step] \in StepState
  BY DEF Run
<1>4. applyStep(r.steps[d.step], d) =
        [r.steps[d.step] EXCEPT !.status = IF Kind[d.step] = "task" THEN "PENDING" ELSE "WAITING",
                                !.dueAt  = IF d.wait = NoTime THEN @ ELSE d.at + d.wait]
  BY DEF applyStep
<1> QED BY <1>2, <1>3, <1>4 DEF StepState

LEMMA EndingEnds ==
    ASSUME NEW r \in Run, NEW d \in Event, d.type \in Ending
    PROVE  Terminal(applyOne(r, d))
BY DEF Ending, applyOne, Terminal, TerminalStatuses, Run

\* What was told of an approval, was told of a run that had started.
LEMMA OpenedOnce ==
    ASSUME LegalInv, NEW t \in Threads, At(t, "append"), NEW s \in Steps,
           run.steps[s].approval # "none"
    PROVE  Head(work[t]).ev.type # "RUN_STARTED"
<1>1. ToldFor(Facts(log), "APPROVAL_REQUESTED", s)
  BY RunIsSound DEF SoundStep
<1>2. Told(Facts(log), "RUN_STARTED")
  BY <1>1, RunIsSound, StartedBefore
<1>3. Recorded("RUN_STARTED")
  BY <1>2, FactsOfLog DEF Recorded
<1> QED BY <1>3 DEF LegalInv, HistoryInv, StartsOnce, Opens

\* What appending the event d does: the goroutine's other entries stay.
Appending(t, d) ==
    /\ d \in Event /\ log' = log \union {d} /\ run' = applyOne(run, d)
    /\ At(t, "append")
    /\ LET e == Head(work[t]).ev
       IN  d.type = e.type /\ d.step = e.step /\ d.wait = e.wait
    /\ work'[t] = Tail(work[t]) /\ \A u \in Threads : u # t => work'[u] = work[u]

LEMMA AppendEventAppends ==
    ASSUME LegalInv, NEW t \in Threads, AppendEvent(t)
    PROVE  Appending(t, Stamp(Head(work[t]).ev))
<1> DEFINE e == Head(work[t]).ev
<1>1. At(t, "append") /\ Record(e) /\ Continue(t, <<>>)
  BY DEF AppendEvent
<1>2. TypeOK /\ now \in Nat
  BY RunIsSound
<1>3. e \in Event
  BY <1>1, <1>2, HeadType
<1>4. /\ Stamp(e) \in Event /\ Stamp(e).type = e.type /\ Stamp(e).step = e.step
      /\ Stamp(e).wait = e.wait
  BY <1>2, <1>3, StampType, StampFields
<1>5. work[t] \in Seq(Instr) /\ work[t] # <<>> /\ work \in [Threads -> Seq(Instr)]
  BY <1>1, <1>2 DEF At, TypeOK
<1>6. Tail(work[t]) \in Seq(Instr)
  BY <1>5
<1>7. <<>> \o Tail(work[t]) = Tail(work[t])
  BY <1>6, ConcatEmptySeq
<1>8. work'[t] = Tail(work[t]) /\ \A u \in Threads : u # t => work'[u] = work[u]
  BY <1>1, <1>5, <1>7 DEF Continue
<1> QED BY <1>1, <1>4, <1>8 DEF Appending, Record

LEMMA AppendRejected ==
    ASSUME LegalInv, Progress, NEW t \in Threads, NEW d, Appending(t, d)
    PROVE  RejectedFails'
<1> DEFINE w == work[t]
           q == Tail(w)
<1>1. /\ w \in Seq(Instr) /\ w # <<>> /\ Fine(run, w) /\ run \in Run /\ d \in Event
      /\ run' = applyOne(run, d) /\ Head(w).op = "append" /\ d.type = Head(w).ev.type
      /\ work'[t] = q /\ \A u \in Threads : u # t => work'[u] = work[u]
  BY RunIsSound DEF Appending, At, TypeOK, Progress
<1>2. /\ Appends(Head(w), Breaking) => \E m \in 1 .. Len(q) : MakesUp(Head(w).ev, q[m])
      /\ WillFail(w) => Appends(Head(w), {"RUN_FAILED"}) \/ WillFail(q)
  BY <1>1, TailHas
<1> SUFFICES ASSUME NEW s \in Steps, run'.steps[s].approval = "rejected"
             PROVE  Terminal(run') \/ \E u \in Threads : WillFail(work'[u])
  BY DEF RejectedFails
<1> HIDE DEF w, q
<1>3. \/ run.steps[s].approval = "rejected"
      \/ d.type = "APPROVAL_REJECTED"
  <2>1. LET a == run.steps[s]
            b == applyOne(run, d).steps[s]
        IN  /\ Is(d, "APPROVAL_REQUESTED", s) => b.approval = "pending"
            /\ Is(d, "APPROVAL_GRANTED", s) => b.approval = "granted"
            /\ \/ b.approval = a.approval
               \/ Is(d, "APPROVAL_REQUESTED", s) \/ Is(d, "APPROVAL_GRANTED", s)
               \/ Is(d, "APPROVAL_REJECTED", s)
    BY <1>1, StepAfter
  <2> QED BY <1>1, <2>1 DEF Is
<1>4. CASE run.steps[s].approval = "rejected"
  <2>1. d.type # "RUN_STARTED"
    BY <1>1, <1>4, OpenedOnce DEF Appending, w
  <2>2. Terminal(run) \/ \E u \in Threads : WillFail(work[u])
    BY <1>4 DEF Progress, RejectedFails
  <2>3. CASE Terminal(run)
    BY <1>1, <2>1, <2>3, TerminalKept
  <2>4. ASSUME NEW u \in Threads, u # t, WillFail(work[u])
        PROVE  \E v \in Threads : WillFail(work'[v])
    BY <1>1, <2>4
  <2>5. CASE WillFail(w)
    <3>1. CASE WillFail(q)
      BY <1>1, <3>1
    <3>2. CASE Appends(Head(w), {"RUN_FAILED"})
      <4>1. d.type \in Ending
        BY <1>1, <3>2 DEF Appends, Ending
      <4> QED BY <1>1, <4>1, EndingEnds
    <3> QED BY <1>2, <2>5, <3>1, <3>2
  <2> QED BY <2>2, <2>3, <2>4, <2>5 DEF w
<1>5. CASE d.type = "APPROVAL_REJECTED"
  <2>1. Appends(Head(w), Breaking)
    BY <1>1, <1>5 DEF Appends, Breaking
  <2>2. PICK m \in 1 .. Len(q) : MakesUp(Head(w).ev, q[m])
    BY <1>2, <2>1
  <2>3. Appends(q[m], {"RUN_FAILED"})
    BY <1>1, <1>5, <2>2 DEF MakesUp
  <2> QED BY <1>1, <2>3 DEF WillFail
<1> QED BY <1>3, <1>4, <1>5

\* A scheduled step waits for somebody; or its approval was rejected, and the run fails.
LEMMA ScheduledMovesOn ==
    ASSUME LegalInv, NEW t \in Threads, NEW d, Appending(t, d), d.type = "STEP_SCHEDULED",
           RejectedFails'
    PROVE  MovesOn'
<1> DEFINE e == Head(work[t]).ev
           s == d.step
           F == Facts(log)
<1>1. /\ run \in Run /\ d \in Event /\ run' = applyOne(run, d)
      /\ d.type = e.type /\ s = e.step /\ d.wait = e.wait /\ Head(work[t]).op = "append"
  BY RunIsSound DEF Appending, At
<1>2. Warranted(F, log, now, e)
  BY <1>1, HeadSound DEF Appending, At, Sound
<1>3. /\ s \in Steps
      /\ Kind[s] = "approval" => ToldFor(F, "APPROVAL_REQUESTED", s)
      /\ Kind[s] = "delay" => d.wait = DelayOf[s]
  BY <1>1, <1>2 DEF Warranted
<1>4. /\ run'.steps[s].status = IF Kind[s] = "task" THEN "PENDING" ELSE "WAITING"
      /\ d.wait # NoTime => run'.steps[s].dueAt = d.at + d.wait
      /\ run'.steps[s].approval = run.steps[s].approval
  BY <1>1, <1>3, ScheduledAfter
<1>5. Kind[s] \in {"task", "approval", "delay"} /\ DelayOf[s] \in Nat /\ d.at \in Nat
  BY <1>1, <1>3, WorkflowAssumption DEF Event
<1>6. run.steps[s].approval \in {"none", "pending", "granted", "rejected"}
      /\ (ToldFor(F, "APPROVAL_REQUESTED", s) => run.steps[s].approval # "none")
  BY <1>1, <1>3, RunIsSound DEF Run, StepState, ApprovalStatuses, SoundStep
<1> HIDE DEF e, s, F
<1>7. CASE Kind[s] = "task"
  <2>1. s \in ReadyTasks(run)'
    BY <1>3, <1>4, <1>7 DEF ReadyTasks
  <2> QED BY <2>1 DEF MovesOn, Resumable
<1>8. CASE Kind[s] = "delay"
  <2>1. run'.steps[s].dueAt # NoTime
    BY <1>3, <1>4, <1>5, <1>8 DEF NoTime
  <2>2. s \in ArmedTimers(run)'
    BY <1>3, <1>4, <1>8, <2>1 DEF ArmedTimers
  <2> QED BY <2>2 DEF MovesOn, Resumable
<1>9. CASE Kind[s] = "approval"
  <2>1. run'.steps[s].approval \in {"pending", "granted", "rejected"}
    BY <1>3, <1>4, <1>6, <1>9
  <2>2. CASE run'.steps[s].approval = "pending"
    BY <1>3, <1>9, <2>2 DEF MovesOn, Resumable
  <2>3. CASE run'.steps[s].approval = "granted"
    <3>1. s \in GrantedLinks(run)'
      BY <1>3, <1>4, <1>9, <2>3 DEF GrantedLinks
    <3> QED BY <3>1 DEF MovesOn, Resumable
  <2>4. CASE run'.steps[s].approval = "rejected"
    <3>1. Terminal(run') \/ \E u \in Threads : WillFail(work'[u])
      BY <1>3, <2>4 DEF RejectedFails
    <3>2. ASSUME NEW todo, WillFail(todo) PROVE Rescued(run', todo)
      <4>1. \A i : Appends(i, {"RUN_FAILED"}) => Rescues(run', i)
        BY DEF Appends, Rescues, Secures, Ending
      <4> QED BY <3>2, <4>1 DEF WillFail, Rescued
    <3> QED BY <3>1, <3>2 DEF MovesOn
  <2> QED BY <2>1, <2>2, <2>3, <2>4
<1> QED BY <1>5, <1>7, <1>8, <1>9

LEMMA AppendMovesOn ==
    ASSUME LegalInv, Progress, NEW t \in Threads, NEW d, Appending(t, d), RejectedFails'
    PROVE  log # {} /\ MovesOn'
<1> DEFINE w == work[t]
           q == Tail(w)
           e == Head(w).ev
<1>1. /\ w \in Seq(Instr) /\ w # <<>> /\ Fine(run, w) /\ run \in Run /\ d \in Event
      /\ run' = applyOne(run, d) /\ Head(w).op = "append" /\ d.type = e.type /\ d.step = e.step
      /\ work'[t] = q /\ \A u \in Threads : u # t => work'[u] = work[u]
  BY RunIsSound DEF Appending, At, TypeOK, Progress
<1>2. /\ Appends(Head(w), Breaking) => \E m \in 1 .. Len(q) : MakesUp(Head(w).ev, q[m])
      /\ Rescued(run, w) => Rescues(run, Head(w)) \/ Rescued(run, q)
  BY <1>1, TailHas
<1>3. e.type # "TICKET_CREATED" /\ Warranted(Facts(log), log, now, e)
  BY <1>1, HeadSound DEF Sound
<1>4. log # {}
  <2>1. CASE e.type \in {"RUN_STARTED", "RUN_CANCELLED"}
    BY <1>3, <2>1 DEF Warranted
  <2>2. CASE e.type \notin {"RUN_STARTED", "RUN_CANCELLED"}
    <3>1. Told(Facts(log), "RUN_STARTED")
      BY <1>3, <2>2 DEF Warranted
    <3> QED BY <3>1, FactsOfLog
  <2> QED BY <2>1, <2>2
<1>5. /\ e.type \in {"APPROVAL_REQUESTED", "APPROVAL_GRANTED"} => d.step \in Steps
      /\ e.type = "APPROVAL_REQUESTED" => Kind[d.step] = "approval"
  BY <1>1, <1>3 DEF Warranted
<1>6. /\ e.type = "APPROVAL_REQUESTED" => run'.steps[d.step].approval = "pending"
      /\ e.type = "APPROVAL_GRANTED" => run'.steps[d.step].approval = "granted"
  BY <1>1, <1>5, StepAfter DEF Is
<1> HIDE DEF w, q
<1>7. CASE d.type \in Ending
  BY <1>1, <1>4, <1>7, EndingEnds DEF MovesOn
<1>8. CASE d.type \in Opening
  <2>1. CASE d.type = "STEP_SCHEDULED"
    BY <1>4, <2>1, ScheduledMovesOn
  <2>2. CASE d.type = "APPROVAL_REQUESTED"
    BY <1>1, <1>4, <1>5, <1>6, <2>2 DEF MovesOn, Resumable
  <2> QED BY <1>8, <2>1, <2>2 DEF Opening
<1>9. CASE d.type \in Breaking
  <2>1. PICK m \in 1 .. Len(q) : MakesUp(e, q[m])
    BY <1>1, <1>2, <1>9 DEF Appends
  <2>2. Rescues(run', q[m])
    <3>1. CASE e.type = "APPROVAL_GRANTED"
      BY <1>1, <1>6, <2>1, <3>1 DEF MakesUp, Rescues
    <3>2. CASE e.type = "APPROVAL_REJECTED"
      BY <2>1, <3>2 DEF MakesUp, Rescues, Secures, Appends, Ending
    <3>3. CASE e.type \notin {"APPROVAL_GRANTED", "APPROVAL_REJECTED"}
      BY <2>1, <3>3 DEF MakesUp, Rescues
    <3> QED BY <3>1, <3>2, <3>3
  <2>3. Rescued(run', q)
    BY <2>2 DEF Rescued
  <2> QED BY <1>1, <1>4, <2>3 DEF MovesOn
<1>10. CASE d.type \in Minor
  <2>1. run'.steps = run.steps /\ run'.status = run.status
    BY <1>1, <1>10, MinorKeeps
  <2>2. \A i : Rescues(run, i) => Rescues(run', i)
    BY <2>1 DEF Rescues
  <2>3. Terminal(run) => Terminal(run')
    BY <2>1 DEF Terminal
  <2>4. Resumable => Resumable'
    <3>1. ReadyTasks(run)' = ReadyTasks(run) /\ ArmedTimers(run)' = ArmedTimers(run)
          /\ GrantedLinks(run)' = GrantedLinks(run)
      BY <2>1 DEF ReadyTasks, ArmedTimers, GrantedLinks
    <3> QED BY <2>1, <3>1 DEF Resumable
  <2>5. ~Rescues(run, Head(w))
    BY <1>1, <1>10 DEF Rescues, Secures, Appends, Minor, Opening, Ending
  <2>6. ASSUME NEW u \in Threads, Rescued(run, work[u]) PROVE Rescued(run', work'[u])
    <3>1. \A todo : Rescued(run, todo) => Rescued(run', todo)
      BY <2>2 DEF Rescued
    <3>2. Rescued(run, work'[u])
      BY <1>1, <1>2, <2>5, <2>6 DEF w
    <3> QED BY <3>1, <3>2
  <2> QED BY <1>4, <2>3, <2>4, <2>6 DEF Progress, MovesOn
<1>11. d.type \in Breaking \union Ending \union Opening \union Minor
  <2>1. d.type \in EventTypes
    BY <1>1 DEF Event
  <2> QED BY <2>1 DEF EventTypes, Breaking, Ending, Opening, Minor
<1> QED BY <1>4, <1>7, <1>8, <1>9, <1>10, <1>11

LEMMA AppendKeeps ==
    ASSUME LegalInv, Progress, NEW t \in Threads, NEW d, Appending(t, d), handlers' = handlers
    PROVE  Progress'
<1> DEFINE w == work[t]
           q == Tail(w)
           e == Head(w).ev
<1>1. /\ w \in Seq(Instr) /\ w # <<>> /\ Fine(run, w) /\ run \in Run /\ d \in Event
      /\ log' = log \union {d} /\ run' = applyOne(run, d) /\ Head(w).op = "append"
      /\ d.type = e.type /\ d.step = e.step
      /\ work'[t] = q /\ \A u \in Threads : u # t => work'[u] = work[u]
  BY RunIsSound DEF Appending, At, TypeOK, Progress
<1>2. /\ Fine(run, q)
      /\ Appends(Head(w), {"RUN_FAILING"}) => e.step \in Steps /\ Exhausted(run, e.step)
  BY <1>1, TailHas
<1> HIDE DEF w, q
<1>3. ASSUME NEW s \in Steps, Exhausted(run, s) PROVE Exhausted(run', s)
  <2>1. run'.steps[s].attempt >= run.steps[s].attempt
    BY <1>1, StepAfter
  <2>2. run' \in Run
    BY <1>1, ApplyOneType
  <2>3. run.steps[s].attempt \in Nat /\ run'.steps[s].attempt \in Nat /\ MaxAttempts[s] \in Nat
    <3>1. run.steps[s] \in StepState /\ run'.steps[s] \in StepState
      BY <1>1, <2>2 DEF Run
    <3>2. \A st \in StepState : st.attempt \in Nat
      BY AttemptCapAssumption DEF StepState
    <3> QED BY <3>1, <3>2, WorkflowAssumption
  <2> QED BY <1>3, <2>1, <2>3 DEF Exhausted
<1>4. RejectedFails'
  BY AppendRejected
<1>5. log # {} /\ MovesOn'
  BY <1>4, AppendMovesOn
<1>6. handlers'
  BY <1>5 DEF Progress
<1>7. \A u \in Threads : Fine(run', work'[u])
  <2>1. \A u \in Threads : Fine(run, work'[u])
    BY <1>1, <1>2 DEF Progress
  <2> QED BY <1>3, <2>1, FineKept
<1>8. RetriedEnough'
  <2>1. d.type = "RUN_FAILING" => d.step \in Steps /\ Exhausted(run, d.step)
    BY <1>1, <1>2 DEF Appends
  <2>2. \A x \in log : x.type = "RUN_FAILING" => x.step \in Steps /\ Exhausted(run, x.step)
    BY DEF Progress, RetriedEnough
  <2>3. \A x \in log' : x.type = "RUN_FAILING" => x.step \in Steps /\ Exhausted(run, x.step)
    BY <1>1, <2>1, <2>2
  <2> QED BY <1>3, <2>3 DEF RetriedEnough
<1> QED BY <1>4, <1>5, <1>6, <1>7, <1>8 DEF Progress

-----------------------------------------------------------------------------
\* The invariant, for every step without a fault.

LEMMA EnvironmentKeeps ==
    ASSUME Progress, UNCHANGED <<log, run, work>>, handlers => handlers'
    PROVE  Progress'
<1>1. Resumable' <=> Resumable
  BY DEF Resumable, ReadyTasks, ArmedTimers, GrantedLinks
<1> QED BY <1>1 DEF Progress, MovesOn, RetriedEnough, RejectedFails

LEMMA StepGentle ==
    ASSUME LegalInv, Progress, [Next]_vars, faults' = faults
    PROVE  \/ UNCHANGED <<log, run, work>> /\ (handlers => handlers')
           \/ \E t \in Threads : AppendEvent(t)
           \/ \E t \in Threads : \E todo : GentleStep(t, todo)
<1> DEFINE Goal == \/ UNCHANGED <<log, run, work>> /\ (handlers => handlers')
                   \/ \E t \in Threads : AppendEvent(t)
                   \/ \E t \in Threads : \E todo : GentleStep(t, todo)
<1> SUFFICES Goal
  OBVIOUS
<1>1. ASSUME NEW t \in Threads, Proceed(t) PROVE Goal
  BY <1>1, DispatchGentle, CheckSLAGentle, FlagGentle, ScanStepGentle, ApprovalStepGentle,
     GrantedGentle, HandlerGentle DEF Proceed
<1>2. ~DbError
  <2>1. faults \in Nat
    BY RunIsSound DEF TypeOK
  <2> QED BY <2>1 DEF DbError
<1>3. ASSUME NEW c \in Clients, Call(c) PROVE Goal
  <2>1. c \in Threads
    BY ThreadsMembers
  <2>2. CASE CreateTicket(c)
    BY <2>1, <2>2, CreateTicketGentle
  <2>3. CASE Cancel(c)
    BY <2>1, <2>3, CancelGentle
  <2>4. CASE Recover(c)
    BY <2>1, <2>4, RecoverGentle DEF Recover
  <2>5. ASSUME NEW s \in Steps, NEW by \in People, Decide(c, s, by) PROVE Goal
    BY <2>1, <2>5, DecideGentle
  <2> QED BY <1>3, <2>2, <2>3, <2>4, <2>5 DEF Call
<1>4. ASSUME NEW w \in Workers, executeTask(w) PROVE Goal
  BY <1>4, executeTaskGentle, ThreadsMembers
<1>5. CASE sweep
  BY <1>5, RecoverGentle, ThreadsMembers DEF sweep
<1>6. CASE Tick \/ RegisterTasks \/ UNCHANGED vars
  BY <1>6 DEF Tick, RegisterTasks, vars
<1>7. ~Crash /\ \A c : ~Disconnect(c)
  <2>1. faults \in Nat
    BY RunIsSound DEF TypeOK
  <2> QED BY <2>1 DEF Crash, Disconnect
<1>8. \A t : ~AppendFails(t) /\ ~FlagFails(t) /\ ~ReadFails(t) /\ ~TaskLost(t) /\ ~RefreshFails(t)
  BY <1>2 DEF AppendFails, FlagFails, ReadFails, TaskLost, RefreshFails
<1> HIDE DEF Goal
<1>9. \/ \E t \in Threads : Proceed(t)
      \/ \E c \in Clients : Call(c)
      \/ \E w \in Workers : executeTask(w)
      \/ sweep \/ Tick \/ RegisterTasks \/ UNCHANGED vars
  BY <1>7, <1>8 DEF Next
<1> QED BY <1>1, <1>3, <1>4, <1>5, <1>6, <1>9

LEMMA ProgressInvNext == ProgressInv /\ [Next]_vars => ProgressInv'
<1> SUFFICES ASSUME ProgressInv, [Next]_vars PROVE ProgressInv'
  OBVIOUS
<1>1. LegalInv /\ LegalInv'
  BY LegalInvNext DEF ProgressInv
<1>2. ASSUME faults' = 0 PROVE Progress'
  <2>1. faults = 0
    BY <1>1, <1>2, RunIsSound, FaultsCounted
  <2>2. Progress
    BY <2>1 DEF ProgressInv
  <2>3. ASSUME NEW t \in Threads, AppendEvent(t) PROVE Progress'
    <3>1. Appending(t, Stamp(Head(work[t]).ev)) /\ handlers' = handlers
      BY <1>1, <2>3, AppendEventAppends DEF AppendEvent
    <3> QED BY <1>1, <2>2, <3>1, AppendKeeps
  <2>4. ASSUME NEW t \in Threads, NEW todo, GentleStep(t, todo) PROVE Progress'
    BY <1>1, <2>2, <2>4, GentleKeeps
  <2>5. \/ UNCHANGED <<log, run, work>> /\ (handlers => handlers')
        \/ \E t \in Threads : AppendEvent(t)
        \/ \E t \in Threads : \E todo : GentleStep(t, todo)
    BY <1>1, <1>2, <2>1, <2>2, StepGentle
  <2> QED BY <2>2, <2>3, <2>4, <2>5, EnvironmentKeeps
<1> QED BY <1>1, <1>2 DEF ProgressInv

LEMMA ProgressInvInit == Init => ProgressInv
<1> SUFFICES ASSUME Init PROVE ProgressInv
  OBVIOUS
<1>1. log = {} /\ run = NewRun /\ work = [t \in Threads |-> <<>>]
  BY DEF Init
<1>2. \A t \in Threads : Fine(run, work[t])
  BY <1>1, EmptyFine
<1>3. RetriedEnough
  BY <1>1 DEF RetriedEnough
<1>4. RejectedFails
  BY <1>1 DEF RejectedFails, NewRun, NewStep
<1> QED BY <1>1, <1>2, <1>3, <1>4, LegalInvInit DEF ProgressInv, Progress

LEMMA ProgressInvariance == Spec => []ProgressInv
BY ProgressInvInit, ProgressInvNext, PTL DEF Spec

\* A run is put on the failure path (RUN_FAILING by failStep) only for a task attempted as
\* often as handleTaskFailure grants it, whatever stale copy of the run a duplicate execution
\* decides on; for a process that has not lost anything.
THEOREM RetriesExhaustedHolds == Spec => []RetriesExhausted
<1>1. ProgressInv => RetriesExhausted
  <2> SUFFICES ASSUME ProgressInv, faults = 0, NEW s \in Steps, RecordedFor("RUN_FAILING", s)
               PROVE  run.steps[s].attempt >= 1 /\ run.steps[s].attempt >= MaxAttempts[s]
    BY DEF RetriesExhausted
  <2>1. RetriedEnough
    BY DEF ProgressInv, Progress
  <2>2. PICK e \in log : e.type = "RUN_FAILING" /\ e.step = s
    BY DEF RecordedFor
  <2>3. Exhausted(run, s)
    BY <2>1, <2>2 DEF RetriedEnough
  <2> QED BY <2>3 DEF Exhausted
<1> QED BY <1>1, ProgressInvariance, PTL

\* Without faults, when no goroutine has anything left to do for a run that has not ended,
\* the run waits for something that dispatch (for sweep and Recover) or a decision will
\* move on: no race between executions, timers, decisions and sweeps loses it.
THEOREM NeverStrandedHolds == Spec => []NeverStranded
<1>1. ProgressInv => NeverStranded
  <2> SUFFICES ASSUME ProgressInv, faults = 0, Quiet, log # {}, ~Terminal(run)
               PROVE  Resumable
    BY DEF NeverStranded
  <2>1. MovesOn
    BY DEF ProgressInv, Progress
  <2>2. ASSUME NEW t \in Threads PROVE ~Rescued(run, work[t])
    <3>1. Len(work[t]) = 0
      BY DEF Quiet, Idle
    <3> QED BY <3>1 DEF Rescued
  <2> QED BY <2>1, <2>2 DEF MovesOn
<1> QED BY <1>1, ProgressInvariance, PTL
=============================================================================
