------------------------ MODULE EngineRefinementProofs ------------------------
(***************************************************************************)
(* The engine keeps the promise of RunHistory, for every workflow and any  *)
(* number of goroutines, faults and events: whatever a goroutine still has *)
(* to append is justified by what is on record by the time it appends it.  *)
(*                                                                         *)
(* Most of a justification is which events there are, not when they were   *)
(* recorded.  So it is stated of facts: the type, step and index of the    *)
(* events on record, and of those the goroutine appends before.  Deadlines *)
(* are the exception and are looked up in the log itself.                  *)
(***************************************************************************)
EXTENDS EngineProofs

Fact(e) == <<e.type, e.step, e.index>>
Facts(L) == {Fact(e) : e \in L}

Told(F, type) == \E f \in F : f[1] = type
ToldFor(F, type, s) == \E f \in F : f[1] = type /\ f[2] = s
ToldLink(F, s, i) == <<"APPROVAL_REQUESTED", s, i>> \in F

\* By the log L it is, at time t, too late for the SLA i, or time for the delay s.
Late(L, t, i) ==
    i \in DOMAIN SLAs /\ \E x \in L : x.type = "TICKET_CREATED" /\ t > x.at + SLAs[i].duration
Elapsed(L, t, s) ==
    \E x \in L : x.type = "STEP_SCHEDULED" /\ x.step = s /\ t >= x.at + DelayOf[s]

\* What leads to step s: the workflow, a retry, a breached SLA.
ReachedBy(F, s) ==
    \/ s = Initial /\ Told(F, "RUN_STARTED")
    \/ \E p \in Steps : NextStep[p] = s /\ ToldFor(F, "STEP_COMPLETED", p)
    \/ \E p \in Steps :
          OnError[p] = s /\ ToldFor(F, "STEP_FAILED", p) /\ ToldFor(F, "RUN_FAILING", p)
RetriedBy(F, s) ==
    /\ Kind[s] = "task" /\ MaxAttempts[s] > 1
    /\ ToldFor(F, "STEP_STARTED", s) /\ ToldFor(F, "STEP_FAILED", s)
EscalatedBy(L, t, s) == \E i \in DOMAIN SLAs : SLAs[i].onBreach = s /\ Late(L, t, i)

\* A task that may be executed, a run that fails.
Begun(F, s) == Kind[s] = "task" /\ (ReachedBy(F, s) \/ ToldFor(F, "STEP_SCHEDULED", s))
Fails(F) == Told(F, "RUN_FAILING") \/ Told(F, "APPROVAL_REJECTED")

Ends(kind) == CASE kind = "task" -> "STEP_STARTED" [] kind = "delay" -> "TIMER_FIRED"
                [] kind = "approval" -> "APPROVAL_GRANTED"

\* The facts F, the log L and the time t allow for the event e.  Besides what RunHistory
\* asks for: a delay is scheduled with its own wait, only approvals are requested, and
\* everything but a start or a cancellation happens to a run that was started.
Warranted(F, L, t, e) ==
    LET s == e.step IN
    /\ e.type \notin {"TICKET_CREATED", "RUN_STARTED", "RUN_CANCELLED"} => Told(F, "RUN_STARTED")
    /\ e.type \in {"RUN_STARTED", "RUN_CANCELLED"} => L # {}
    /\ e.type = "TICKET_CREATED" => L = {}
    /\ e.type = "TICKET_ASSIGNED" => ToldFor(F, "STEP_SCHEDULED", Initial)
    /\ e.type = "STEP_SCHEDULED" =>
          /\ s \in Steps /\ (ReachedBy(F, s) \/ RetriedBy(F, s) \/ EscalatedBy(L, t, s))
          /\ Kind[s] = "approval" => ToldFor(F, "APPROVAL_REQUESTED", s)
          /\ Kind[s] = "delay" => e.wait = DelayOf[s]
    /\ e.type \in {"STEP_STARTED", "STEP_FAILED"} => s \in Steps /\ Begun(F, s)
    /\ e.type = "STEP_COMPLETED" => s \in Steps /\ ToldFor(F, Ends(Kind[s]), s)
    /\ e.type = "TIMER_FIRED" => s \in Steps /\ Elapsed(L, t, s)
    /\ e.type = "APPROVAL_REQUESTED" =>
          /\ s \in Steps /\ Kind[s] = "approval"
          /\ e.index = 0 => ReachedBy(F, s) \/ EscalatedBy(L, t, s)
          /\ e.index # 0 => /\ ToldFor(F, "APPROVAL_GRANTED", s) /\ e.index < Len(Chain[s])
                            /\ ToldLink(F, s, e.index - 1)
    /\ e.type \in {"APPROVAL_GRANTED", "APPROVAL_REJECTED"} =>
          s \in Steps /\ Authorized(s, e.index, e.by) /\ ToldLink(F, s, e.index)
    /\ e.type = "SLA_BREACHED" => Late(L, t, e.index)
    /\ e.type = "RUN_FAILING" => s \in Steps /\ ToldFor(F, "STEP_FAILED", s)
    /\ e.type = "RUN_COMPLETED" =>
          s \in Steps /\ NextStep[s] = NoStep /\ ToldFor(F, "STEP_COMPLETED", s)
    /\ e.type = "RUN_FAILED" => Fails(F)

\* They allow for the entry i: what it remembers of the run it was made of still holds.
Sound(F, L, t, i) ==
    /\ i.op = "append" => i.ev.type # "TICKET_CREATED" /\ Warranted(F, L, t, i.ev)
    /\ i.op \in {"checkSLA", "flag"} => Told(F, "RUN_STARTED")
    /\ i.op = "flag" => \A k \in i.todo : Late(L, t, k)
    /\ i.op \in {"scan", "approvals", "handler"} => (i.failed => Fails(F))
    /\ i.op = "scan" => \A item \in i.todo :
          \/ Begun(F, item.step)
          \/ Kind[item.step] = "delay" /\ item.due # NoTime /\ Elapsed(L, item.due, item.step)
    /\ i.op = "approvals" => \A item \in i.todo :
          /\ Kind[item.step] = "approval" /\ ToldFor(F, "APPROVAL_GRANTED", item.step)
          /\ ToldLink(F, item.step, item.index)
    /\ i.op = "handler" => ToldFor(F, "STEP_STARTED", i.step) /\ Begun(F, i.step)

\* Entries a function makes: appends, each of them sound after the ones before it, and at
\* most one more entry that is no loop; and what is left of the loops that called it.
Before(p, n) == {Fact(p[m].ev) : m \in 1 .. n - 1}

Acts(F, L, t, p) ==
    /\ p \in Seq(Instr)
    /\ \A n \in 1 .. Len(p) : /\ ~IsLoop(p[n]) /\ Sound(F \union Before(p, n), L, t, p[n])
                              /\ p[n].op # "append" => n = Len(p)

Loops(F, L, t, q) ==
    /\ q \in Seq(Instr)
    /\ \A n \in 1 .. Len(q) : IsLoop(q[n]) /\ Sound(F, L, t, q[n])

SoundWork(F, L, t, todo) ==
    \E p, q \in Seq(Instr) : todo = p \o q /\ Acts(F, L, t, p) /\ Loops(F, L, t, q)

-----------------------------------------------------------------------------
\* The log and the run derived from it.

\* Every event on record is warranted by all of them, and the first is the ticket's.
SoundLog(L, t) ==
    /\ \A e \in L : e.type # "TICKET_CREATED" => Warranted(Facts(L), L, t, e)
    /\ L # {} => \E e \in L : e.type = "TICKET_CREATED"

\* What the run says of a step is on record.
SoundStep(F, L, st, s) ==
    /\ st.status = "PENDING" /\ Kind[s] = "task" => Begun(F, s)
    /\ Kind[s] = "delay" /\ st.dueAt # NoTime => Elapsed(L, st.dueAt, s)
    /\ st.approval # "none" => ToldFor(F, "APPROVAL_REQUESTED", s)
    /\ st.approval = "granted" => ToldFor(F, "APPROVAL_GRANTED", s)
    /\ ToldFor(F, "APPROVAL_REQUESTED", s) => st.approval # "none" /\ ToldLink(F, s, st.index)
    /\ ToldFor(F, "STEP_STARTED", s) => st.attempt >= 1

SoundRun(F, L, r) ==
    /\ \A s \in Steps : SoundStep(F, L, r.steps[s], s)
    /\ r.failed => Fails(F)
    /\ r.status = "ACTIVE" => Told(F, "RUN_STARTED")
    /\ \A e \in L : e.type = "TICKET_CREATED" => e.at = r.createdAt

LegalInv ==
    /\ HistoryInv
    /\ SoundLog(log, now)
    /\ SoundRun(Facts(log), log, run)
    /\ \A t \in Threads : SoundWork(Facts(log), log, now, work[t])
    /\ \A n \in 1 .. Len(queue) : Begun(Facts(log), queue[n])

-----------------------------------------------------------------------------
\* What the facts, the log and the time allow for, more facts, a longer log and a later
\* time allow for too.

LEMMA SLAType ==
    ASSUME NEW i \in DOMAIN SLAs
    PROVE  i \in Nat /\ SLAs[i].duration \in Nat /\ SLAs[i].onBreach \in Steps \union {NoStep}
<1>1. SLAs \in Seq([duration : Nat, onBreach : Steps \union {NoStep}])
  BY WorkflowAssumption
<1>2. i \in 1 .. Len(SLAs) /\ Len(SLAs) \in Nat
  BY <1>1, LenProperties
<1>3. SLAs[i] \in [duration : Nat, onBreach : Steps \union {NoStep}]
  BY <1>1, <1>2, ElementOfSeq
<1> QED BY <1>2, <1>3

LEMMA FactsGrow ==
    ASSUME NEW F, NEW G, F \subseteq G
    PROVE  /\ \A type : Told(F, type) => Told(G, type)
           /\ \A type, s : ToldFor(F, type, s) => ToldFor(G, type, s)
           /\ \A s, i : ToldLink(F, s, i) => ToldLink(G, s, i)
           /\ \A s : ReachedBy(F, s) => ReachedBy(G, s)
           /\ \A s : RetriedBy(F, s) => RetriedBy(G, s)
           /\ \A s : Begun(F, s) => Begun(G, s)
           /\ Fails(F) => Fails(G)
<1>1. \A type : Told(F, type) => Told(G, type)
  BY DEF Told
<1>2. \A type, s : ToldFor(F, type, s) => ToldFor(G, type, s)
  BY DEF ToldFor
<1>3. \A s, i : ToldLink(F, s, i) => ToldLink(G, s, i)
  BY DEF ToldLink
<1>4. \A s : ReachedBy(F, s) => ReachedBy(G, s)
  BY <1>1, <1>2 DEF ReachedBy
<1>5. \A s : RetriedBy(F, s) => RetriedBy(G, s)
  BY <1>2 DEF RetriedBy
<1>6. \A s : Begun(F, s) => Begun(G, s)
  BY <1>2, <1>4 DEF Begun
<1> QED BY <1>1, <1>2, <1>3, <1>4, <1>5, <1>6 DEF Fails

LEMMA TimeGrows ==
    ASSUME NEW L, NEW M \in SUBSET Event, L \subseteq M, NEW t \in Int, NEW u \in Int, t <= u
    PROVE  /\ \A i : Late(L, t, i) => Late(M, u, i)
           /\ \A s \in Steps : Elapsed(L, t, s) => Elapsed(M, u, s)
           /\ \A s : EscalatedBy(L, t, s) => EscalatedBy(M, u, s)
           /\ \A v : \A s : Elapsed(L, v, s) => Elapsed(M, v, s)
<1>1. \A x \in M : x.at \in Nat
  BY DEF Event
<1>2. \A i : Late(L, t, i) => Late(M, u, i)
  BY <1>1, SLAType DEF Late
<1>3. \A s \in Steps : Elapsed(L, t, s) => Elapsed(M, u, s)
  <2>1. \A s \in Steps : DelayOf[s] \in Nat
    BY WorkflowAssumption
  <2> QED BY <1>1, <2>1 DEF Elapsed
<1>4. \A s : EscalatedBy(L, t, s) => EscalatedBy(M, u, s)
  BY <1>2 DEF EscalatedBy
<1>5. \A v : \A s : Elapsed(L, v, s) => Elapsed(M, v, s)
  BY DEF Elapsed
<1> QED BY <1>2, <1>3, <1>4, <1>5

LEMMA WarrantedGrows ==
    ASSUME NEW F, NEW G, F \subseteq G,
           NEW L, NEW M \in SUBSET Event, L \subseteq M, NEW t \in Int, NEW u \in Int, t <= u,
           NEW e, e.type # "TICKET_CREATED", Warranted(F, L, t, e)
    PROVE  Warranted(G, M, u, e)
<1>1. /\ \A type : Told(F, type) => Told(G, type)
      /\ \A type, s : ToldFor(F, type, s) => ToldFor(G, type, s)
      /\ \A s, i : ToldLink(F, s, i) => ToldLink(G, s, i)
      /\ \A s : ReachedBy(F, s) => ReachedBy(G, s)
      /\ \A s : RetriedBy(F, s) => RetriedBy(G, s)
      /\ \A s : Begun(F, s) => Begun(G, s)
      /\ Fails(F) => Fails(G)
  BY FactsGrow
<1>2. /\ \A i : Late(L, t, i) => Late(M, u, i)
      /\ \A s \in Steps : Elapsed(L, t, s) => Elapsed(M, u, s)
      /\ \A s : EscalatedBy(L, t, s) => EscalatedBy(M, u, s)
  BY TimeGrows
<1> QED BY <1>1, <1>2 DEF Warranted

LEMMA SoundGrows ==
    ASSUME NEW F, NEW G, F \subseteq G,
           NEW L, NEW M \in SUBSET Event, L \subseteq M, NEW t \in Int, NEW u \in Int, t <= u,
           NEW i \in Instr, Sound(F, L, t, i)
    PROVE  Sound(G, M, u, i)
<1>1. i.op = "append" => i.ev.type # "TICKET_CREATED" /\ Warranted(G, M, u, i.ev)
  BY WarrantedGrows DEF Sound
<1>2. i.op \in {"checkSLA", "flag"} => Told(G, "RUN_STARTED")
  BY FactsGrow DEF Sound
<1>3. i.op = "flag" => \A k \in i.todo : Late(M, u, k)
  BY TimeGrows DEF Sound
<1>4. i.op \in {"scan", "approvals", "handler"} => (i.failed => Fails(G))
  BY FactsGrow DEF Sound
<1>5. i.op = "scan" => \A item \in i.todo :
          \/ Begun(G, item.step)
          \/ Kind[item.step] = "delay" /\ item.due # NoTime /\ Elapsed(M, item.due, item.step)
  <2> SUFFICES ASSUME i.op = "scan", NEW item \in i.todo
               PROVE  \/ Begun(G, item.step)
                      \/ /\ Kind[item.step] = "delay" /\ item.due # NoTime
                         /\ Elapsed(M, item.due, item.step)
    OBVIOUS
  <2>3. Begun(F, item.step) => Begun(G, item.step)
    BY FactsGrow
  <2>4. Elapsed(L, item.due, item.step) => Elapsed(M, item.due, item.step)
    BY TimeGrows
  <2> QED BY <2>3, <2>4 DEF Sound
<1>6. i.op = "approvals" => \A item \in i.todo :
          /\ Kind[item.step] = "approval" /\ ToldFor(G, "APPROVAL_GRANTED", item.step)
          /\ ToldLink(G, item.step, item.index)
  BY FactsGrow DEF Sound
<1>7. i.op = "handler" => ToldFor(G, "STEP_STARTED", i.step) /\ Begun(G, i.step)
  BY FactsGrow DEF Sound
<1> QED BY <1>1, <1>2, <1>3, <1>4, <1>5, <1>6, <1>7 DEF Sound

LEMMA ActsGrow ==
    ASSUME NEW F, NEW G, F \subseteq G,
           NEW L, NEW M \in SUBSET Event, L \subseteq M, NEW t \in Int, NEW u \in Int, t <= u,
           NEW p, Acts(F, L, t, p)
    PROVE  Acts(G, M, u, p)
<1> SUFFICES ASSUME NEW n \in 1 .. Len(p) PROVE Sound(G \union Before(p, n), M, u, p[n])
  BY DEF Acts
<1>1. p[n] \in Instr /\ Sound(F \union Before(p, n), L, t, p[n])
  BY ElementOfSeq DEF Acts
<1>2. F \union Before(p, n) \subseteq G \union Before(p, n)
  OBVIOUS
<1> QED BY <1>1, <1>2, SoundGrows

LEMMA LoopsGrow ==
    ASSUME NEW F, NEW G, F \subseteq G,
           NEW L, NEW M \in SUBSET Event, L \subseteq M, NEW t \in Int, NEW u \in Int, t <= u,
           NEW q, Loops(F, L, t, q)
    PROVE  Loops(G, M, u, q)
<1> SUFFICES ASSUME NEW n \in 1 .. Len(q) PROVE Sound(G, M, u, q[n])
  BY DEF Loops
<1>1. q[n] \in Instr /\ Sound(F, L, t, q[n])
  BY ElementOfSeq DEF Loops
<1> QED BY <1>1, SoundGrows

LEMMA SoundWorkGrows ==
    ASSUME NEW F, NEW G, F \subseteq G,
           NEW L, NEW M \in SUBSET Event, L \subseteq M, NEW t \in Int, NEW u \in Int, t <= u,
           NEW todo, SoundWork(F, L, t, todo)
    PROVE  SoundWork(G, M, u, todo)
BY ActsGrow, LoopsGrow DEF SoundWork

-----------------------------------------------------------------------------
\* How such sequences of entries are put together and taken apart.

LEMMA EmptySound == ASSUME NEW F, NEW L, NEW t PROVE Acts(F, L, t, <<>>) /\ Loops(F, L, t, <<>>)
BY EmptySeq DEF Acts, Loops

LEMMA ActsOne ==
    ASSUME NEW F, NEW L, NEW t, NEW i \in Instr, ~IsLoop(i), Sound(F, L, t, i)
    PROVE  Acts(F, L, t, <<i>>)
<1>1. <<i>> \in Seq(Instr) /\ Len(<<i>>) = 1 /\ <<i>>[1] = i
  OBVIOUS
<1>2. F \union Before(<<i>>, 1) = F
  BY DEF Before
<1>3. \A n \in 1 .. 1 : n = 1
  OBVIOUS
<1> QED BY <1>1, <1>2, <1>3 DEF Acts

\* An append comes before whatever its event warrants.
LEMMA ActsCons ==
    ASSUME NEW F, NEW L, NEW t, NEW e \in Event, e.type # "TICKET_CREATED",
           Warranted(F, L, t, e), NEW p, Acts(F \union {Fact(e)}, L, t, p)
    PROVE  Acts(F, L, t, <<append(e)>> \o p)
<1> DEFINE a == append(e)
<1>1. a \in Instr /\ a.op = "append" /\ a.ev = e /\ ~IsLoop(a)
  BY DEF append, Instr, IsLoop
<1>2. Sound(F, L, t, a)
  BY <1>1 DEF Sound
<1> HIDE DEF a
<1> DEFINE w == <<a>> \o p
<1>3. p \in Seq(Instr) /\ <<a>> \in Seq(Instr) /\ Len(<<a>>) = 1 /\ <<a>>[1] = a
      /\ Len(p) \in Nat
  BY <1>1, LenProperties DEF Acts
<1>4. /\ w \in Seq(Instr) /\ Len(w) = 1 + Len(p)
      /\ \A n \in 1 .. 1 + Len(p) : w[n] = IF n <= 1 THEN <<a>>[n] ELSE p[n - 1]
  BY <1>3, ConcatProperties
<1> HIDE DEF w
<1>5. w[1] = a /\ \A n \in 2 .. Len(w) : n - 1 \in 1 .. Len(p) /\ w[n] = p[n - 1]
  BY <1>3, <1>4
<1>6. ASSUME NEW n \in 1 .. Len(w)
      PROVE  /\ ~IsLoop(w[n]) /\ Sound(F \union Before(w, n), L, t, w[n])
             /\ w[n].op # "append" => n = Len(w)
  <2>1. CASE n = 1
    <3>1. F \union Before(w, 1) = F
      BY DEF Before
    <3> QED BY <1>1, <1>2, <1>5, <2>1, <3>1
  <2>2. CASE n # 1
    <3>1. n \in 2 .. Len(w)
      BY <1>3, <1>4, <2>2
    <3>2. n - 1 \in 1 .. Len(p) /\ w[n] = p[n - 1]
      BY <1>5, <3>1
    <3>3. /\ ~IsLoop(p[n - 1])
          /\ Sound((F \union {Fact(e)}) \union Before(p, n - 1), L, t, p[n - 1])
          /\ p[n - 1].op # "append" => n - 1 = Len(p)
      BY <3>2 DEF Acts
    <3>4. Before(w, n) = {Fact(e)} \union Before(p, n - 1)
      <4>1. ASSUME NEW m \in 1 .. n - 1 PROVE Fact(w[m].ev) \in {Fact(e)} \union Before(p, n - 1)
        <5>1. CASE m = 1
          BY <1>1, <1>5, <5>1
        <5>2. CASE m # 1
          <6>1. m - 1 \in 1 .. (n - 1) - 1 /\ m \in 2 .. Len(w)
            BY <3>1, <5>2
          <6> QED BY <1>5, <6>1 DEF Before
        <5> QED BY <5>1, <5>2
      <4>2. Fact(e) \in Before(w, n)
        <5>1. 1 \in 1 .. n - 1
          BY <3>1
        <5> QED BY <1>1, <1>5, <5>1 DEF Before
      <4>3. ASSUME NEW m \in 1 .. (n - 1) - 1 PROVE Fact(p[m].ev) \in Before(w, n)
        <5>1. m + 1 \in 1 .. n - 1 /\ m + 1 \in 2 .. Len(w) /\ (m + 1) - 1 = m
          BY <1>3, <3>1
        <5>2. w[m + 1] = p[m]
          BY <1>5, <5>1
        <5> QED BY <5>1, <5>2 DEF Before
      <4> QED BY <4>1, <4>2, <4>3 DEF Before
    <3>5. F \union Before(w, n) = (F \union {Fact(e)}) \union Before(p, n - 1)
      BY <3>4
    <3>6. n - 1 = Len(p) => n = Len(w)
      BY <1>3, <1>4, <3>1
    <3> QED BY <3>2, <3>3, <3>5, <3>6
  <2> QED BY <2>1, <2>2
<1>7. Acts(F, L, t, w)
  BY <1>4, <1>6 DEF Acts
<1> QED BY <1>7 DEF w, a

LEMMA ActsHead ==
    ASSUME NEW F, NEW L, NEW t, NEW p, Acts(F, L, t, p), p # <<>>
    PROVE  /\ Sound(F, L, t, Head(p)) /\ ~IsLoop(Head(p))
           /\ Head(p).op = "append" => Acts(F \union {Fact(Head(p).ev)}, L, t, Tail(p))
           /\ Head(p).op # "append" => Tail(p) = <<>>
<1>1. p \in Seq(Instr)
  BY DEF Acts
<1>2. /\ Len(p) \in Nat /\ Len(p) > 0 /\ Head(p) = p[1] /\ Tail(p) \in Seq(Instr)
      /\ Len(Tail(p)) = Len(p) - 1
      /\ \A n \in 1 .. Len(Tail(p)) : Tail(p)[n] = p[n + 1]
  BY <1>1, HeadTailProperties, EmptySeq
<1> DEFINE r == Tail(p)
           e == Head(p).ev
<1>3. 1 \in 1 .. Len(p) /\ F \union Before(p, 1) = F
  BY <1>2 DEF Before
<1>4. Sound(F, L, t, Head(p)) /\ ~IsLoop(Head(p)) /\ (Head(p).op # "append" => Len(p) = 1)
  BY <1>2, <1>3 DEF Acts
<1>5. Len(p) = 1 => Tail(p) = <<>>
  <2>1. Len(p) = 1 => ~(Len(Tail(p)) \in Nat \ {0})
    BY <1>2
  <2> QED BY <1>2, <2>1, EmptySeq
<1>6. ASSUME NEW n \in 1 .. Len(r)
      PROVE  /\ ~IsLoop(r[n]) /\ Sound((F \union {Fact(e)}) \union Before(r, n), L, t, r[n])
             /\ r[n].op # "append" => n = Len(r)
  <2>1. n + 1 \in 1 .. Len(p) /\ r[n] = p[n + 1] /\ n \in Nat
    BY <1>2
  <2>2. /\ ~IsLoop(p[n + 1]) /\ Sound(F \union Before(p, n + 1), L, t, p[n + 1])
        /\ p[n + 1].op # "append" => n + 1 = Len(p)
    BY <2>1 DEF Acts
  <2>3. Before(p, n + 1) \subseteq {Fact(e)} \union Before(r, n)
    <3> SUFFICES ASSUME NEW m \in 1 .. (n + 1) - 1
                 PROVE  Fact(p[m].ev) \in {Fact(e)} \union Before(r, n)
      BY DEF Before
    <3>1. CASE m = 1
      BY <1>2, <3>1
    <3>2. CASE m # 1
      <4>1. m - 1 \in 1 .. n - 1 /\ m - 1 \in 1 .. Len(r) /\ (m - 1) + 1 = m
        BY <1>2, <2>1, <3>2
      <4>2. r[m - 1] = p[m]
        BY <1>2, <4>1
      <4> QED BY <4>1, <4>2 DEF Before
    <3> QED BY <3>1, <3>2
  <2>4. {Fact(e)} \union Before(r, n) \subseteq Before(p, n + 1)
    <3>1. Fact(e) \in Before(p, n + 1)
      <4>1. 1 \in 1 .. (n + 1) - 1
        BY <2>1
      <4> QED BY <1>2, <4>1 DEF Before
    <3>2. ASSUME NEW m \in 1 .. n - 1 PROVE Fact(r[m].ev) \in Before(p, n + 1)
      <4>1. m + 1 \in 1 .. (n + 1) - 1 /\ m \in 1 .. Len(r)
        BY <1>2, <2>1
      <4>2. r[m] = p[m + 1]
        BY <1>2, <4>1
      <4> QED BY <4>1, <4>2 DEF Before
    <3> QED BY <3>1, <3>2 DEF Before
  <2>5. F \union Before(p, n + 1) = (F \union {Fact(e)}) \union Before(r, n)
    BY <2>3, <2>4
  <2>6. n + 1 = Len(p) => n = Len(r)
    <3>1. Len(r) = Len(p) - 1 /\ Len(p) \in Nat /\ n \in Nat
      BY <1>2, <2>1
    <3> HIDE DEF r
    <3> QED BY <3>1
  <2> QED BY <2>1, <2>2, <2>5, <2>6
<1>7. Acts(F \union {Fact(e)}, L, t, r)
  BY <1>2, <1>6 DEF Acts
<1> QED BY <1>4, <1>5, <1>7

LEMMA LoopsHead ==
    ASSUME NEW F, NEW L, NEW t, NEW q, Loops(F, L, t, q), q # <<>>
    PROVE  IsLoop(Head(q)) /\ Sound(F, L, t, Head(q)) /\ Loops(F, L, t, Tail(q))
<1>1. /\ q \in Seq(Instr) /\ Len(q) \in Nat \ {0} /\ Head(q) = q[1] /\ Tail(q) \in Seq(Instr)
      /\ Len(Tail(q)) = Len(q) - 1
      /\ \A n \in 1 .. Len(Tail(q)) : Tail(q)[n] = q[n + 1]
  BY HeadTailProperties, EmptySeq DEF Loops
<1>2. 1 \in 1 .. Len(q)
  BY <1>1
<1>3. \A n \in 1 .. Len(Tail(q)) : n + 1 \in 1 .. Len(q) /\ Tail(q)[n] = q[n + 1]
  BY <1>1
<1> QED BY <1>1, <1>2, <1>3 DEF Loops

LEMMA LoopsJoin ==
    ASSUME NEW F, NEW L, NEW t, NEW p, NEW q, Loops(F, L, t, p), Loops(F, L, t, q)
    PROVE  Loops(F, L, t, p \o q)
<1>1. p \in Seq(Instr) /\ q \in Seq(Instr) /\ Len(p) \in Nat /\ Len(q) \in Nat
  BY LenProperties DEF Loops
<1>2. /\ p \o q \in Seq(Instr) /\ Len(p \o q) = Len(p) + Len(q)
      /\ \A i \in 1 .. Len(p) + Len(q) :
            (p \o q)[i] = IF i <= Len(p) THEN p[i] ELSE q[i - Len(p)]
  BY <1>1, ConcatProperties
<1>3. ASSUME NEW n \in 1 .. Len(p) + Len(q)
      PROVE  IsLoop((p \o q)[n]) /\ Sound(F, L, t, (p \o q)[n])
  <2>1. CASE n <= Len(p)
    <3>1. n \in 1 .. Len(p) /\ (p \o q)[n] = p[n]
      BY <1>1, <1>2, <2>1
    <3> QED BY <3>1 DEF Loops
  <2>2. CASE ~(n <= Len(p))
    <3>1. n - Len(p) \in 1 .. Len(q) /\ (p \o q)[n] = q[n - Len(p)]
      BY <1>1, <1>2, <2>2
    <3> QED BY <3>1 DEF Loops
  <2> QED BY <2>1, <2>2
<1> QED BY <1>2, <1>3 DEF Loops

LEMMA LoopsOne ==
    ASSUME NEW F, NEW L, NEW t, NEW i \in Instr, IsLoop(i), Sound(F, L, t, i)
    PROVE  Loops(F, L, t, <<i>>) /\ Loops(F, L, t, Loop(i))
<1>1. <<i>> \in Seq(Instr) /\ Len(<<i>>) = 1 /\ <<i>>[1] = i /\ \A n \in 1 .. 1 : n = 1
  OBVIOUS
<1>2. Loops(F, L, t, <<i>>)
  BY <1>1 DEF Loops
<1> QED BY <1>2, EmptySound DEF Loop

\* An error leaves exactly the loops.
LEMMA AfterErrorLoops ==
    ASSUME NEW p \in Seq(Instr), NEW q \in Seq(Instr),
           \A n \in 1 .. Len(p) : ~IsLoop(p[n]), \A n \in 1 .. Len(q) : IsLoop(q[n])
    PROVE  AfterError(p \o q) = q
<1> DEFINE w == p \o q
           loops == {n \in 1 .. Len(w) : IsLoop(w[n])}
           first == CHOOSE n \in loops : \A m \in loops : n <= m
<1>1. /\ Len(p) \in Nat /\ Len(q) \in Nat /\ w \in Seq(Instr) /\ Len(w) = Len(p) + Len(q)
      /\ \A i \in 1 .. Len(p) + Len(q) : w[i] = IF i <= Len(p) THEN p[i] ELSE q[i - Len(p)]
  BY ConcatProperties, LenProperties
<1>2. AfterError(w) = IF loops = {} THEN <<>> ELSE SubSeq(w, first, Len(w))
  BY DEF AfterError
<1> HIDE DEF w
<1>3. \A n \in 1 .. Len(w) : IsLoop(w[n]) <=> n > Len(p)
  <2> SUFFICES ASSUME NEW n \in 1 .. Len(w) PROVE IsLoop(w[n]) <=> n > Len(p)
    OBVIOUS
  <2>1. CASE n <= Len(p)
    <3>1. n \in 1 .. Len(p) /\ w[n] = p[n] /\ ~(n > Len(p))
      BY <1>1, <2>1
    <3> QED BY <3>1
  <2>2. CASE n > Len(p)
    <3>1. n - Len(p) \in 1 .. Len(q) /\ w[n] = q[n - Len(p)]
      BY <1>1, <2>2
    <3> QED BY <2>2, <3>1
  <2> QED BY <1>1, <2>1, <2>2
<1>4. loops = (Len(p) + 1) .. Len(w)
  BY <1>1, <1>3
<1>5. CASE q = <<>>
  <2>1. Len(q) = 0
    BY <1>5
  <2>2. loops = {}
    BY <1>1, <1>4, <2>1
  <2> QED BY <1>2, <1>5, <2>2 DEF w
<1>6. CASE q # <<>>
  <2>1. Len(q) > 0
    BY <1>1, <1>6, EmptySeq
  <2>2. Len(p) + 1 \in loops /\ \A m \in loops : Len(p) + 1 <= m
    BY <1>1, <1>4, <2>1
  <2>3. first \in loops /\ \A m \in loops : first <= m
    BY <2>2
  <2>4. first = Len(p) + 1
    <3>1. first \in (Len(p) + 1) .. Len(w)
      BY <1>4, <2>3
    <3>2. first <= Len(p) + 1
      BY <2>2, <2>3
    <3> HIDE DEF first
    <3> QED BY <1>1, <3>1, <3>2
  <2>5. SubSeq(w, Len(p) + 1, Len(w)) = q
    <3>1. \A i \in Len(p) + 1 .. Len(w) : w[i] \in Instr
      <4>1. \A i \in 1 .. Len(w) : w[i] \in Instr
        BY <1>1, ElementOfSeq
      <4> QED BY <1>1, <4>1
    <3>2. Len(p) + 1 \in Int /\ Len(w) \in Int
      BY <1>1
    <3> DEFINE x == SubSeq(w, Len(p) + 1, Len(w))
    <3>3. /\ x \in Seq(Instr)
          /\ Len(x) = IF Len(p) + 1 <= Len(w) THEN Len(w) - (Len(p) + 1) + 1 ELSE 0
          /\ \A i \in 1 .. Len(w) - (Len(p) + 1) + 1 : x[i] = w[(Len(p) + 1) + i - 1]
      BY <3>1, <3>2, SubSeqProperties
    <3> HIDE DEF x
    <3>4. Len(x) = Len(q)
      BY <1>1, <2>1, <3>3
    <3>5. ASSUME NEW i \in 1 .. Len(x) PROVE x[i] = q[i]
      <4>1. x[i] = w[(Len(p) + 1) + i - 1]
        BY <1>1, <3>3, <3>4
      <4>2. (Len(p) + 1) + i - 1 = Len(p) + i /\ Len(p) + i \in 1 .. Len(p) + Len(q)
            /\ ~(Len(p) + i <= Len(p)) /\ (Len(p) + i) - Len(p) = i
        BY <1>1, <3>4
      <4> QED BY <1>1, <4>1, <4>2
    <3> QED BY <3>3, <3>4, <3>5, SeqEqual DEF x
  <2> HIDE DEF first
  <2> QED BY <1>2, <2>2, <2>4, <2>5 DEF w
<1> QED BY <1>5, <1>6

LEMMA ConcatHead ==
    ASSUME NEW p \in Seq(Instr), NEW q \in Seq(Instr), p # <<>>
    PROVE  Head(p \o q) = Head(p) /\ Tail(p \o q) = Tail(p) \o q
<1> DEFINE w == p \o q
<1>1. /\ Len(p) \in Nat /\ Len(p) > 0 /\ Len(q) \in Nat /\ Head(p) = p[1]
      /\ Tail(p) \in Seq(Instr) /\ Len(Tail(p)) = Len(p) - 1
      /\ \A n \in 1 .. Len(Tail(p)) : Tail(p)[n] = p[n + 1]
  BY LenProperties, HeadTailProperties, EmptySeq
<1>2. /\ w \in Seq(Instr) /\ Len(w) = Len(p) + Len(q)
      /\ \A n \in 1 .. Len(p) + Len(q) : w[n] = IF n <= Len(p) THEN p[n] ELSE q[n - Len(p)]
  BY ConcatProperties
<1>3. /\ Tail(p) \o q \in Seq(Instr) /\ Len(Tail(p) \o q) = Len(p) - 1 + Len(q)
      /\ \A n \in 1 .. Len(p) - 1 + Len(q) :
            (Tail(p) \o q)[n] = IF n <= Len(p) - 1 THEN Tail(p)[n] ELSE q[n - (Len(p) - 1)]
  BY <1>1, ConcatProperties
<1> HIDE DEF w
<1>4. w # <<>>
  BY <1>1, <1>2
<1>5. /\ Head(w) = w[1] /\ Tail(w) \in Seq(Instr) /\ Len(Tail(w)) = Len(w) - 1
      /\ \A n \in 1 .. Len(Tail(w)) : Tail(w)[n] = w[n + 1]
  BY <1>2, <1>4, HeadTailProperties
<1>6. Head(w) = Head(p)
  BY <1>1, <1>2, <1>5
<1>7. ASSUME NEW n \in 1 .. Len(Tail(w)) PROVE Tail(w)[n] = (Tail(p) \o q)[n]
  <2>1. n + 1 \in 1 .. Len(p) + Len(q) /\ n \in 1 .. Len(p) - 1 + Len(q)
    BY <1>1, <1>2, <1>5
  <2>2. CASE n <= Len(p) - 1
    <3>1. n + 1 <= Len(p) /\ n \in 1 .. Len(Tail(p))
      BY <1>1, <2>1, <2>2
    <3> QED BY <1>1, <1>2, <1>3, <1>5, <2>1, <2>2, <3>1
  <2>3. CASE ~(n <= Len(p) - 1)
    <3>1. ~(n + 1 <= Len(p)) /\ (n + 1) - Len(p) = n - (Len(p) - 1)
      BY <1>1, <2>1, <2>3
    <3> QED BY <1>2, <1>3, <1>5, <2>1, <2>3, <3>1
  <2> QED BY <2>2, <2>3
<1>8. Tail(w) = Tail(p) \o q
  <2>1. Len(Tail(w)) = Len(Tail(p) \o q)
    BY <1>1, <1>2, <1>3, <1>5
  <2> QED BY <1>3, <1>5, <1>7, <2>1, SeqEqual
<1> QED BY <1>6, <1>8 DEF w

\* What is left when the first entry is done, or has failed.
LEMMA WorkHead ==
    ASSUME NEW F, NEW L \in SUBSET Event, NEW t \in Int, NEW todo, todo # <<>>,
           SoundWork(F, L, t, todo)
    PROVE  LET h == Head(todo)
           IN  /\ Sound(F, L, t, h)
               /\ h.op # "append" => Loops(F, L, t, Tail(todo))
               /\ h.op = "append" =>
                     /\ SoundWork(F \union {Fact(h.ev)}, L, t, Tail(todo))
                     /\ Loops(F, L, t, AfterError(Tail(todo)))
<1>1. PICK p, q \in Seq(Instr) : todo = p \o q /\ Acts(F, L, t, p) /\ Loops(F, L, t, q)
  BY DEF SoundWork
<1>2. CASE p = <<>>
  <2>1. todo = q
    BY <1>1, <1>2, ConcatEmptySeq
  <2>2. IsLoop(Head(todo)) /\ Sound(F, L, t, Head(todo)) /\ Loops(F, L, t, Tail(todo))
    BY <1>1, <2>1, LoopsHead
  <2> QED BY <2>2 DEF IsLoop
<1>3. CASE p # <<>>
  <2>1. Head(todo) = Head(p) /\ Tail(todo) = Tail(p) \o q
    BY <1>1, <1>3, ConcatHead
  <2>2. /\ Sound(F, L, t, Head(p)) /\ ~IsLoop(Head(p))
        /\ Head(p).op = "append" => Acts(F \union {Fact(Head(p).ev)}, L, t, Tail(p))
        /\ Head(p).op # "append" => Tail(p) = <<>>
    BY <1>1, <1>3, ActsHead
  <2>3. ASSUME Head(p).op # "append" PROVE Loops(F, L, t, Tail(todo))
    BY <1>1, <2>1, <2>2, <2>3, ConcatEmptySeq
  <2>4. ASSUME Head(p).op = "append"
        PROVE  /\ SoundWork(F \union {Fact(Head(p).ev)}, L, t, Tail(todo))
               /\ Loops(F, L, t, AfterError(Tail(todo)))
    <3>1. Loops(F \union {Fact(Head(p).ev)}, L, t, q)
      BY <1>1, LoopsGrow
    <3>2. Acts(F \union {Fact(Head(p).ev)}, L, t, Tail(p)) /\ Tail(p) \in Seq(Instr)
      BY <2>2, <2>4 DEF Acts
    <3>3. AfterError(Tail(p) \o q) = q
      BY <1>1, <3>2, AfterErrorLoops DEF Acts, Loops
    <3> QED BY <1>1, <2>1, <3>1, <3>2, <3>3 DEF SoundWork
  <2> QED BY <2>1, <2>2, <2>3, <2>4
<1> QED BY <1>2, <1>3

\* What a loop's entry makes is done before what is left of the loops.
LEMMA WorkJoin ==
    ASSUME NEW F, NEW L, NEW t, NEW more, SoundWork(F, L, t, more),
           NEW rest, Loops(F, L, t, rest)
    PROVE  SoundWork(F, L, t, more \o rest)
<1>1. PICK p, q \in Seq(Instr) : more = p \o q /\ Acts(F, L, t, p) /\ Loops(F, L, t, q)
  BY DEF SoundWork
<1>2. Loops(F, L, t, q \o rest) /\ rest \in Seq(Instr) /\ q \o rest \in Seq(Instr)
  BY <1>1, LoopsJoin, ConcatProperties DEF Loops
<1>3. more \o rest = p \o (q \o rest)
  BY <1>1, <1>2, ConcatAssociative
<1> QED BY <1>1, <1>2, <1>3 DEF SoundWork

LEMMA WorkMake ==
    ASSUME NEW F, NEW L, NEW t, NEW p, Acts(F, L, t, p), NEW q, Loops(F, L, t, q)
    PROVE  SoundWork(F, L, t, p \o q) /\ SoundWork(F, L, t, p) /\ SoundWork(F, L, t, q)
<1>1. p \in Seq(Instr) /\ q \in Seq(Instr) /\ <<>> \in Seq(Instr)
  BY EmptySeq DEF Acts, Loops
<1>2. p = p \o <<>> /\ q = <<>> \o q
  BY <1>1, ConcatEmptySeq
<1> QED BY <1>1, <1>2, EmptySound DEF SoundWork

-----------------------------------------------------------------------------
\* What each function of the engine appends is sound, given why it is called.

LEMMA ConcatOne ==
    ASSUME NEW i, NEW j
    PROVE  <<i>> \o <<j>> = <<i, j>>
<1> DEFINE S == {i, j}
           x == <<i, j>>
           y == <<i>> \o <<j>>
<1>1. <<i>> \in Seq(S) /\ <<j>> \in Seq(S) /\ Len(<<i>>) = 1 /\ Len(<<j>>) = 1
      /\ <<i>>[1] = i /\ <<j>>[1] = j
  OBVIOUS
<1>2. y \in Seq(S) /\ Len(y) = 2 /\ y[1] = i /\ y[2] = j
  BY <1>1, ConcatProperties
<1>3. x \in Seq(S) /\ Len(x) = 2 /\ x[1] = i /\ x[2] = j
  OBVIOUS
<1> HIDE DEF S, x, y
<1>4. \A n \in 1 .. Len(x) : x[n] = y[n]
  BY <1>2, <1>3
<1>5. x = y
  BY <1>2, <1>3, <1>4, SeqEqual
<1> QED BY <1>5 DEF x, y

LEMMA ConcatPair ==
    ASSUME NEW i \in Instr, NEW j \in Instr, NEW q \in Seq(Instr)
    PROVE  <<i, j>> \o q = <<i>> \o (<<j>> \o q)
<1>1. <<i>> \in Seq(Instr) /\ <<j>> \in Seq(Instr)
  OBVIOUS
<1>2. <<i, j>> = <<i>> \o <<j>>
  BY ConcatOne
<1> QED BY <1>1, <1>2, ConcatAssociative

LEMMA ConcatTriple ==
    ASSUME NEW i \in Instr, NEW j \in Instr, NEW k \in Instr
    PROVE  <<i, j, k>> = <<i>> \o (<<j>> \o <<k>>)
<1> DEFINE x == <<i, j>> \o <<k>>
           y == <<i, j, k>>
<1>1. <<i, j>> \in Seq(Instr) /\ Len(<<i, j>>) = 2 /\ <<k>> \in Seq(Instr) /\ Len(<<k>>) = 1
      /\ <<i, j>>[1] = i /\ <<i, j>>[2] = j /\ <<k>>[1] = k
  OBVIOUS
<1>2. x \in Seq(Instr) /\ Len(x) = 3 /\ x[1] = i /\ x[2] = j /\ x[3] = k
  BY <1>1, ConcatProperties
<1>3. y \in Seq(Instr) /\ Len(y) = 3 /\ y[1] = i /\ y[2] = j /\ y[3] = k
  OBVIOUS
<1> HIDE DEF x, y
<1>4. x = y
  <2>1. \A n \in 1 .. Len(x) : x[n] = y[n]
    BY <1>2, <1>3
  <2> QED BY <1>2, <1>3, <2>1, SeqEqual
<1> QED BY <1>1, <1>4, ConcatPair DEF x, y

LEMMA AppendEntry ==
    ASSUME NEW e \in Event
    PROVE  append(e) \in Instr /\ append(e).op = "append" /\ append(e).ev = e
BY DEF append, Instr

LEMMA FactAdded ==
    ASSUME NEW F, NEW e
    PROVE  LET G == F \union {Fact(e)}
           IN  /\ F \subseteq G /\ Told(G, e.type) /\ ToldFor(G, e.type, e.step)
               /\ e.type = "APPROVAL_REQUESTED" => ToldLink(G, e.step, e.index)
<1> DEFINE f == Fact(e)
           G == F \union {f}
<1>1. f[1] = e.type /\ f[2] = e.step
  BY DEF Fact
<1>2. e.type = "APPROVAL_REQUESTED" => f = <<"APPROVAL_REQUESTED", e.step, e.index>>
  BY DEF Fact
<1> HIDE DEF f
<1>3. F \subseteq G /\ f \in G
  OBVIOUS
<1> HIDE DEF G
<1>4. Told(G, e.type) /\ ToldFor(G, e.type, e.step)
  BY <1>1, <1>3 DEF Told, ToldFor
<1>5. e.type = "APPROVAL_REQUESTED" => ToldLink(G, e.step, e.index)
  BY <1>2, <1>3 DEF ToldLink
<1> QED BY <1>3, <1>4, <1>5 DEF G, f

LEMMA DispatchActs == ASSUME NEW F, NEW L, NEW t PROVE Acts(F, L, t, <<GetRunAndDispatch>>)
<1>1. /\ GetRunAndDispatch \in Instr /\ ~IsLoop(GetRunAndDispatch)
      /\ Sound(F, L, t, GetRunAndDispatch)
  BY DEF GetRunAndDispatch, Instr, IsLoop, Sound
<1> QED BY <1>1, ActsOne

\* Events without a wait or an index, by the fields a justification looks at.
LEMMA StepEventFields ==
    ASSUME NEW type \in EventTypes, NEW s \in Steps \union {NoStep}
    PROVE  LET e == StepEvent(type, s)
           IN  e \in Event /\ e.type = type /\ e.step = s /\ e.index = 0
BY StepEventType DEF StepEvent

LEMMA ScheduledFields ==
    ASSUME NEW s \in Steps, NEW wait \in Nat \union {NoTime}
    PROVE  LET e == Scheduled(s, wait)
           IN  /\ e \in Event /\ e.type = "STEP_SCHEDULED" /\ e.step = s /\ e.wait = wait
BY ScheduledType DEF Scheduled, StepEvent, FollowUp

LEMMA RequestedFields ==
    ASSUME NEW s \in Steps, NEW i \in Nat
    PROVE  LET e == Requested(s, i)
           IN  /\ e \in Event /\ e.type = "APPROVAL_REQUESTED" /\ e.step = s /\ e.index = i
BY RequestedType DEF Requested, StepEvent, FollowUp

\* scheduleStep is called for a step that the workflow or a breached SLA leads to.
LEMMA scheduleStepActs ==
    ASSUME NEW F, NEW L, NEW t, NEW s \in Steps, Told(F, "RUN_STARTED"),
           ReachedBy(F, s) \/ EscalatedBy(L, t, s), NEW q,
           \A G : F \subseteq G /\ ToldFor(G, "STEP_SCHEDULED", s) => Acts(G, L, t, q)
    PROVE  Acts(F, L, t, scheduleStep(s) \o q)
<1>1. Kind[s] \in {"task", "approval", "delay"} /\ DelayOf[s] \in Nat
  BY WorkflowAssumption
<1>2. ASSUME NEW G, F \subseteq G, NEW wait \in Nat \union {NoTime},
             Kind[s] = "approval" => ToldFor(G, "APPROVAL_REQUESTED", s),
             Kind[s] = "delay" => wait = DelayOf[s]
      PROVE  Acts(G, L, t, <<append(Scheduled(s, wait))>> \o q)
  <2> DEFINE e == Scheduled(s, wait)
  <2>1. e \in Event /\ e.type = "STEP_SCHEDULED" /\ e.step = s /\ e.wait = wait
    BY ScheduledFields
  <2> HIDE DEF e
  <2>2. Told(G, "RUN_STARTED") /\ (ReachedBy(F, s) => ReachedBy(G, s))
    BY <1>2, FactsGrow
  <2>3. Warranted(G, L, t, e)
    BY <1>2, <2>1, <2>2 DEF Warranted
  <2>4. F \subseteq G \union {Fact(e)} /\ ToldFor(G \union {Fact(e)}, "STEP_SCHEDULED", s)
    BY <1>2, <2>1, FactAdded
  <2>5. Acts(G \union {Fact(e)}, L, t, q)
    BY <2>4
  <2> QED BY <2>1, <2>3, <2>5, ActsCons DEF e
<1>3. CASE Kind[s] = "task"
  BY <1>2, <1>3 DEF scheduleStep
<1>4. CASE Kind[s] = "delay"
  BY <1>1, <1>2, <1>4 DEF scheduleStep
<1>5. CASE Kind[s] = "approval"
  <2> DEFINE e == Requested(s, 0)
             r == <<append(Scheduled(s, NoTime))>> \o q
  <2>1. e \in Event /\ e.type = "APPROVAL_REQUESTED" /\ e.step = s /\ e.index = 0
    BY RequestedFields
  <2>2. append(e) \in Instr /\ append(Scheduled(s, NoTime)) \in Instr
    BY <2>1, AppendEntry, ScheduledFields
  <2>3. q \in Seq(Instr)
    <3> DEFINE d == Scheduled(s, NoTime)
    <3>1. d.type = "STEP_SCHEDULED" /\ d.step = s
      BY ScheduledFields
    <3> HIDE DEF d
    <3>2. F \subseteq F \union {Fact(d)} /\ ToldFor(F \union {Fact(d)}, "STEP_SCHEDULED", s)
      BY <3>1, FactAdded
    <3>3. Acts(F \union {Fact(d)}, L, t, q)
      BY <3>2
    <3> QED BY <3>3 DEF Acts
  <2>4. scheduleStep(s) \o q = <<append(e)>> \o r
    <3>1. scheduleStep(s) = <<append(e), append(Scheduled(s, NoTime))>>
      BY <1>5 DEF scheduleStep
    <3> HIDE DEF e
    <3> QED BY <2>2, <2>3, <3>1, ConcatPair
  <2> HIDE DEF e, r
  <2>5. Warranted(F, L, t, e)
    BY <1>5, <2>1 DEF Warranted
  <2>6. F \subseteq F \union {Fact(e)} /\ ToldFor(F \union {Fact(e)}, "APPROVAL_REQUESTED", s)
    BY <2>1, FactAdded
  <2>7. Acts(F \union {Fact(e)}, L, t, r)
    BY <1>2, <1>5, <2>6 DEF r
  <2> QED BY <2>1, <2>4, <2>5, <2>7, ActsCons
<1> QED BY <1>1, <1>3, <1>4, <1>5

\* advance follows a completed or a failed step, on a run that reads as failed only if it is.
LEMMA advanceActs ==
    ASSUME NEW F, NEW L, NEW t, NEW s \in Steps, Told(F, "RUN_STARTED"),
           NEW failed \in BOOLEAN, failed => Fails(F), NEW succeeded \in BOOLEAN,
           succeeded => ToldFor(F, "STEP_COMPLETED", s),
           ~succeeded => ToldFor(F, "STEP_FAILED", s) /\ ToldFor(F, "RUN_FAILING", s)
    PROVE  Acts(F, L, t, advance(failed, s, succeeded))
<1> DEFINE nxt == IF succeeded THEN NextStep[s] ELSE OnError[s]
<1>1. nxt \in Steps \union {NoStep}
  BY WorkflowAssumption
<1>2. CASE nxt = NoStep
  <2> DEFINE type == IF succeeded /\ ~failed THEN "RUN_COMPLETED" ELSE "RUN_FAILED"
             e == StepEvent(type, s)
  <2>1. e \in Event /\ e.type = type /\ e.step = s
    BY StepEventFields, EventTypesMembers
  <2>2. ~succeeded => Fails(F)
    BY DEF Fails, Told, ToldFor
  <2>3. /\ type = "RUN_COMPLETED" => NextStep[s] = NoStep /\ ToldFor(F, "STEP_COMPLETED", s)
        /\ type = "RUN_FAILED" => Fails(F)
        /\ type \in {"RUN_COMPLETED", "RUN_FAILED"}
    BY <1>2, <2>2
  <2>4. advance(failed, s, succeeded) = <<append(e)>>
    BY <1>2 DEF advance
  <2> HIDE DEF type, e
  <2>5. Warranted(F, L, t, e) /\ e.type # "TICKET_CREATED"
    BY <2>1, <2>3 DEF Warranted
  <2>6. append(e) \in Instr /\ ~IsLoop(append(e)) /\ Sound(F, L, t, append(e))
    BY <2>1, <2>5, AppendEntry DEF Sound, IsLoop
  <2> QED BY <2>4, <2>6, ActsOne
<1>3. CASE nxt \in Steps
  <2>1. ReachedBy(F, nxt)
    BY <1>3 DEF ReachedBy
  <2>2. advance(failed, s, succeeded) = scheduleStep(nxt) \o <<GetRunAndDispatch>>
    BY <1>3, WorkflowAssumption DEF advance
  <2> HIDE DEF nxt
  <2> QED BY <1>3, <2>1, <2>2, scheduleStepActs, DispatchActs
<1> QED BY <1>1, <1>2, <1>3

\* The append of a step's event, before what it warrants.
LEMMA ActsStepEvent ==
    ASSUME NEW F, NEW L, NEW t, NEW type \in EventTypes \ {"TICKET_CREATED"}, NEW s \in Steps,
           Warranted(F, L, t, StepEvent(type, s)), NEW p,
           \A G : F \subseteq G /\ ToldFor(G, type, s) => Acts(G, L, t, p)
    PROVE  Acts(F, L, t, <<append(StepEvent(type, s))>> \o p)
<1> DEFINE e == StepEvent(type, s)
<1>1. e \in Event /\ e.type = type /\ e.step = s /\ Warranted(F, L, t, e)
  BY StepEventFields
<1> HIDE DEF e
<1>2. F \subseteq F \union {Fact(e)} /\ ToldFor(F \union {Fact(e)}, type, s)
  BY <1>1, FactAdded
<1>3. Acts(F \union {Fact(e)}, L, t, p)
  BY <1>2
<1> QED BY <1>1, <1>3, ActsCons DEF e

\* The end of a step that has been executed, has waited or was approved.
LEMMA CompleteActs ==
    ASSUME NEW F, NEW L, NEW t, NEW s \in Steps, Told(F, "RUN_STARTED"),
           NEW failed \in BOOLEAN, failed => Fails(F), ToldFor(F, Ends(Kind[s]), s)
    PROVE  Acts(F, L, t, <<append(StepEvent("STEP_COMPLETED", s))>> \o advance(failed, s, TRUE))
<1> DEFINE e == StepEvent("STEP_COMPLETED", s)
<1>1. e.type = "STEP_COMPLETED" /\ e.step = s
  BY StepEventFields, EventTypesMembers
<1> HIDE DEF e
<1>2. Warranted(F, L, t, e)
  BY <1>1 DEF Warranted
<1>3. ASSUME NEW G, F \subseteq G, ToldFor(G, "STEP_COMPLETED", s)
      PROVE  Acts(G, L, t, advance(failed, s, TRUE))
  <2>1. Told(G, "RUN_STARTED") /\ (failed => Fails(G))
    BY <1>3, FactsGrow
  <2> QED BY <1>3, <2>1, advanceActs
<1> QED BY <1>2, <1>3, ActsStepEvent, EventTypesMembers DEF e

LEMMA failStepActs ==
    ASSUME NEW F, NEW L, NEW t, NEW s \in Steps, Told(F, "RUN_STARTED"),
           NEW failed \in BOOLEAN, failed => Fails(F), Begun(F, s)
    PROVE  Acts(F, L, t, failStep(failed, s))
<1> DEFINE a == StepEvent("STEP_FAILED", s)
           b == StepEvent("RUN_FAILING", s)
           p == advance(failed, s, FALSE)
<1>1. /\ a \in Event /\ a.type = "STEP_FAILED" /\ a.step = s
      /\ b \in Event /\ b.type = "RUN_FAILING" /\ b.step = s
  BY StepEventFields, EventTypesMembers
<1>2. failStep(failed, s) = <<append(a), append(b)>> \o p
  BY DEF failStep
<1> HIDE DEF a, b, p
<1>3. Warranted(F, L, t, a)
  BY <1>1 DEF Warranted
<1>4. ASSUME NEW G, F \subseteq G, ToldFor(G, "STEP_FAILED", s)
      PROVE  Acts(G, L, t, <<append(b)>> \o p)
  <2>1. Told(G, "RUN_STARTED")
    BY <1>4, FactsGrow
  <2>2. Warranted(G, L, t, b)
    BY <1>1, <1>4, <2>1 DEF Warranted
  <2>3. ASSUME NEW H, G \subseteq H, ToldFor(H, "RUN_FAILING", s)
        PROVE  Acts(H, L, t, p)
    <3>1. Told(H, "RUN_STARTED") /\ (failed => Fails(H))
      BY <1>4, <2>3, FactsGrow
    <3>2. ToldFor(H, "STEP_FAILED", s)
      BY <1>4, <2>3, FactsGrow
    <3> QED BY <2>3, <3>1, <3>2, advanceActs DEF p
  <2> QED BY <2>2, <2>3, ActsStepEvent, EventTypesMembers DEF b
<1>5. Acts(F, L, t, <<append(a)>> \o (<<append(b)>> \o p))
  BY <1>3, <1>4, ActsStepEvent, EventTypesMembers DEF a
<1>6. p \in Seq(Instr)
  BY advanceType, LaterSeq DEF p
<1>7. append(a) \in Instr /\ append(b) \in Instr
  BY <1>1, AppendEntry
<1> QED BY <1>2, <1>5, <1>6, <1>7, ConcatPair

\* The failed attempt of a task is retried or fails the step; the task may be scheduled for
\* the same reason that it was.
LEMMA handleTaskFailureActs ==
    ASSUME NEW F, NEW L, NEW t, NEW s \in Steps, NEW r \in Run, Told(F, "RUN_STARTED"),
           r.failed => Fails(F), Begun(F, s),
           ReachedBy(F, s) \/ RetriedBy(F, s) \/ EscalatedBy(L, t, s)
    PROVE  Acts(F, L, t, handleTaskFailure(r, s))
<1> DEFINE a == StepEvent("STEP_FAILED", s)
           wait == IF RetryDelay[s] > 0 THEN RetryDelay[s] ELSE NoTime
           b == Scheduled(s, wait)
           d == GetRunAndDispatch
<1>1. \/ handleTaskFailure(r, s) = failStep(r.failed, s)
      \/ handleTaskFailure(r, s) = <<append(a), append(b), d>>
  BY Zenon DEF handleTaskFailure
<1>2. r.failed \in BOOLEAN
  BY DEF Run
<1>3. /\ a \in Event /\ a.type = "STEP_FAILED" /\ a.step = s
      /\ b \in Event /\ b.type = "STEP_SCHEDULED" /\ b.step = s
  <2>1. wait \in Nat \union {NoTime}
    BY WorkflowAssumption
  <2> HIDE DEF wait
  <2> QED BY <2>1, StepEventFields, ScheduledFields, EventTypesMembers
<1>4. d \in Instr
  BY DEF GetRunAndDispatch, Instr
<1> HIDE DEF b, d, a
<1>5. append(a) \in Instr /\ append(b) \in Instr /\ <<d>> \in Seq(Instr)
  BY <1>3, <1>4, AppendEntry
<1>6. <<append(a), append(b), d>> = <<append(a)>> \o (<<append(b)>> \o <<d>>)
  BY <1>4, <1>5, ConcatTriple
<1>7. Warranted(F, L, t, a)
  BY <1>3 DEF Warranted
<1>8. ASSUME NEW G, F \subseteq G
      PROVE  Acts(G, L, t, <<append(b)>> \o <<d>>)
  <2>1. Told(G, "RUN_STARTED") /\ (ReachedBy(G, s) \/ RetriedBy(G, s) \/ EscalatedBy(L, t, s))
    BY <1>8, FactsGrow
  <2>2. Warranted(G, L, t, b)
    BY <1>3, <2>1 DEF Warranted, Begun
  <2>3. Acts(G \union {Fact(b)}, L, t, <<d>>)
    BY DispatchActs DEF d
  <2> QED BY <1>3, <2>2, <2>3, ActsCons
<1>9. Acts(F, L, t, <<append(a)>> \o (<<append(b)>> \o <<d>>))
  BY <1>7, <1>8, ActsStepEvent, EventTypesMembers DEF a
<1> QED BY <1>1, <1>2, <1>6, <1>9, failStepActs

\* fireTimer is called when the delay of the step has elapsed.
LEMMA fireTimerActs ==
    ASSUME NEW F, NEW L, NEW t, NEW s \in Steps, Kind[s] = "delay", Told(F, "RUN_STARTED"),
           NEW failed \in BOOLEAN, failed => Fails(F), Elapsed(L, t, s)
    PROVE  Acts(F, L, t, fireTimer(failed, s))
<1> DEFINE a == StepEvent("TIMER_FIRED", s)
           b == append(StepEvent("STEP_COMPLETED", s))
           p == advance(failed, s, TRUE)
<1>1. a \in Event /\ a.type = "TIMER_FIRED" /\ a.step = s
  BY StepEventFields, EventTypesMembers
<1>2. b \in Instr /\ p \in Seq(Instr)
  BY StepEventFields, EventTypesMembers, AppendEntry, advanceType, LaterSeq
<1>3. fireTimer(failed, s) = <<append(a), b>> \o p
  BY DEF fireTimer
<1>4. ASSUME NEW G, F \subseteq G, ToldFor(G, "TIMER_FIRED", s) PROVE Acts(G, L, t, <<b>> \o p)
  <2>1. Told(G, "RUN_STARTED") /\ (failed => Fails(G))
    BY <1>4, FactsGrow
  <2>2. ToldFor(G, Ends(Kind[s]), s)
    BY <1>4 DEF Ends
  <2> QED BY <2>1, <2>2, CompleteActs
<1> HIDE DEF a, b, p
<1>5. Warranted(F, L, t, a)
  BY <1>1 DEF Warranted
<1>6. Acts(F, L, t, <<append(a)>> \o (<<b>> \o p))
  BY <1>4, <1>5, ActsStepEvent, EventTypesMembers DEF a
<1>7. append(a) \in Instr
  BY <1>1, AppendEntry
<1> QED BY <1>2, <1>3, <1>6, <1>7, ConcatPair

\* advanceApproval requests the link after a granted one, or ends the step.
LEMMA advanceApprovalActs ==
    ASSUME NEW F, NEW L, NEW t, NEW s \in Steps, Kind[s] = "approval", Told(F, "RUN_STARTED"),
           NEW failed \in BOOLEAN, failed => Fails(F), ToldFor(F, "APPROVAL_GRANTED", s),
           NEW i \in Nat, ToldLink(F, s, i)
    PROVE  Acts(F, L, t, advanceApproval(failed, s, i))
<1>1. CASE i + 1 < Len(Chain[s])
  <2> DEFINE e == Requested(s, i + 1)
  <2>1. e \in Event /\ e.type = "APPROVAL_REQUESTED" /\ e.step = s /\ e.index = i + 1
    BY RequestedFields
  <2>2. advanceApproval(failed, s, i) = <<append(e)>>
    BY <1>1 DEF advanceApproval
  <2> HIDE DEF e
  <2>3. (i + 1) - 1 = i /\ i + 1 # 0
    OBVIOUS
  <2>4. Warranted(F, L, t, e)
    BY <1>1, <2>1, <2>3 DEF Warranted
  <2>5. append(e) \in Instr /\ ~IsLoop(append(e)) /\ Sound(F, L, t, append(e))
    BY <2>1, <2>4, AppendEntry DEF Sound, IsLoop
  <2> QED BY <2>2, <2>5, ActsOne
<1>2. CASE ~(i + 1 < Len(Chain[s]))
  <2>1. ToldFor(F, Ends(Kind[s]), s)
    BY DEF Ends
  <2> QED BY <1>2, <2>1, CompleteActs DEF advanceApproval
<1> QED BY <1>1, <1>2

-----------------------------------------------------------------------------
\* The facts of a log are its events.

LEMMA FactsOfLog ==
    ASSUME NEW L
    PROVE  /\ \A type : Told(Facts(L), type) <=> \E e \in L : e.type = type
           /\ \A type, s : ToldFor(Facts(L), type, s)
                               <=> \E e \in L : e.type = type /\ e.step = s
           /\ \A s, i : ToldLink(Facts(L), s, i) <=>
                  \E e \in L : e.type = "APPROVAL_REQUESTED" /\ e.step = s /\ e.index = i
<1>1. ASSUME NEW e PROVE Fact(e)[1] = e.type /\ Fact(e)[2] = e.step
  BY DEF Fact
<1>2. \A f : f \in Facts(L) <=> \E e \in L : f = Fact(e)
  BY DEF Facts
<1>3. \A type : Told(Facts(L), type) <=> \E e \in L : e.type = type
  BY <1>1, <1>2 DEF Told
<1>4. \A type, s : ToldFor(Facts(L), type, s) <=> \E e \in L : e.type = type /\ e.step = s
  BY <1>1, <1>2 DEF ToldFor
<1>5. \A s, i : ToldLink(Facts(L), s, i) <=>
         \E e \in L : e.type = "APPROVAL_REQUESTED" /\ e.step = s /\ e.index = i
  BY <1>2 DEF ToldLink, Fact
<1> QED BY <1>3, <1>4, <1>5

\* Of a run that was not started there is no more than its ticket and its cancellation.
LEMMA StartedBefore ==
    ASSUME NEW L \in SUBSET Event, NEW t, SoundLog(L, t)
    PROVE  LET F == Facts(L)
           IN  /\ \A type : Told(F, type) /\ type \notin {"TICKET_CREATED", "RUN_CANCELLED"}
                               => Told(F, "RUN_STARTED")
               /\ \A type, s : ToldFor(F, type, s) /\ type \notin {"TICKET_CREATED", "RUN_CANCELLED"}
                                  => Told(F, "RUN_STARTED")
               /\ \A s : Begun(F, s) => Told(F, "RUN_STARTED")
               /\ \A u, s : Elapsed(L, u, s) => Told(F, "RUN_STARTED")
               /\ Fails(F) => Told(F, "RUN_STARTED")
<1> DEFINE F == Facts(L)
           Ok(type) == type \notin {"TICKET_CREATED", "RUN_CANCELLED"}
<1>1. ASSUME NEW e \in L, Ok(e.type) PROVE Told(F, "RUN_STARTED")
  <2>1. CASE e.type = "RUN_STARTED"
    BY <2>1, FactsOfLog
  <2>2. CASE e.type # "RUN_STARTED"
    <3>1. Warranted(F, L, t, e)
      BY <1>1 DEF SoundLog
    <3> HIDE DEF F
    <3> QED BY <1>1, <2>2, <3>1 DEF Warranted
  <2> QED BY <2>1, <2>2
<1>2. \A type : Told(F, type) <=> \E e \in L : e.type = type
  BY FactsOfLog
<1>3. \A type, s : ToldFor(F, type, s) <=> \E e \in L : e.type = type /\ e.step = s
  BY FactsOfLog
<1> HIDE DEF F
<1>4. \A type : Told(F, type) /\ Ok(type) => Told(F, "RUN_STARTED")
  BY <1>1, <1>2
<1>5. \A type, s : ToldFor(F, type, s) /\ Ok(type) => Told(F, "RUN_STARTED")
  BY <1>1, <1>3
<1>6. \A s : Begun(F, s) => Told(F, "RUN_STARTED")
  BY <1>5 DEF Begun, ReachedBy
<1>7. \A u, s : Elapsed(L, u, s) => Told(F, "RUN_STARTED")
  BY <1>1 DEF Elapsed
<1>8. Fails(F) => Told(F, "RUN_STARTED")
  BY <1>4 DEF Fails
<1> QED BY <1>4, <1>5, <1>6, <1>7, <1>8 DEF F

\* What dispatch and dispatchAfter make of the run as it is.
LEMMA ScanSound ==
    ASSUME NEW F, NEW L, NEW t, NEW r \in Run, SoundRun(F, L, r),
           NEW due \in [Steps -> Nat \union {NoTime}],
           \A s \in Steps : Kind[s] = "delay" => due[s] = r.steps[s].dueAt
    PROVE  Loops(F, L, t, Loop(Scan(r, due)))
<1> DEFINE i == Scan(r, due)
<1>1. i \in Instr
  BY ScanType DEF Later
<1>2. i.op = "scan" /\ i.failed = r.failed
      /\ i.todo = {[step |-> s, due |-> due[s]] : s \in ReadyTasks(r) \union ArmedTimers(r)}
  BY DEF Scan
<1> HIDE DEF i
<1>3. ASSUME NEW item \in i.todo
      PROVE  \/ Begun(F, item.step)
             \/ Kind[item.step] = "delay" /\ item.due # NoTime /\ Elapsed(L, item.due, item.step)
  <2>1. PICK s \in ReadyTasks(r) \union ArmedTimers(r) : item.step = s /\ item.due = due[s]
    BY <1>2
  <2>2. s \in Steps /\ SoundStep(F, L, r.steps[s], s)
    BY DEF ReadyTasks, ArmedTimers, SoundRun
  <2>3. CASE s \in ReadyTasks(r)
    BY <2>1, <2>2, <2>3 DEF ReadyTasks, SoundStep
  <2>4. CASE s \in ArmedTimers(r)
    BY <2>1, <2>2, <2>4 DEF ArmedTimers, SoundStep
  <2> QED BY <2>3, <2>4
<1>4. i.failed => Fails(F)
  BY <1>2 DEF SoundRun
<1>5. IsLoop(i) /\ Sound(F, L, t, i)
  BY <1>2, <1>3, <1>4 DEF IsLoop, Sound
<1> QED BY <1>1, <1>5, LoopsOne DEF i

LEMMA dispatchWork ==
    ASSUME NEW F, NEW L, NEW t, NEW r \in Run, SoundRun(F, L, r)
    PROVE  SoundWork(F, L, t, dispatch(r))
<1> DEFINE chk == [op |-> "checkSLA", active |-> ActiveSteps(r)]
           sla == IF SLAs = <<>> \/ r.status # "ACTIVE" THEN <<>> ELSE <<chk>>
           scan == Loop(Scan(r, DueDates(r)))
           i == [op |-> "approvals", failed |-> r.failed, todo |->
                   {[step |-> s, index |-> r.steps[s].index] : s \in GrantedLinks(r)}]
<1>1. Acts(F, L, t, sla)
  <2>1. CASE r.status = "ACTIVE"
    <3>1. Told(F, "RUN_STARTED")
      BY <2>1 DEF SoundRun
    <3>2. chk \in Instr /\ chk.op = "checkSLA"
      BY DEF ActiveSteps, Instr
    <3> HIDE DEF chk
    <3>3. ~IsLoop(chk) /\ Sound(F, L, t, chk)
      BY <3>1, <3>2 DEF IsLoop, Sound
    <3> QED BY <3>2, <3>3, ActsOne, EmptySound
  <2>2. CASE r.status # "ACTIVE"
    BY <2>2, EmptySound
  <2> QED BY <2>1, <2>2
<1>2. Loops(F, L, t, scan)
  <2>1. DueDates(r) \in [Steps -> Nat \union {NoTime}]
    BY DEF DueDates, Run, StepState
  <2>2. \A s \in Steps : DueDates(r)[s] = r.steps[s].dueAt
    BY DEF DueDates
  <2> QED BY <2>1, <2>2, ScanSound
<1>3. Loops(F, L, t, Loop(i))
  <2>1. /\ i.op = "approvals" /\ i.failed = r.failed
        /\ i.todo = {[step |-> s, index |-> r.steps[s].index] : s \in GrantedLinks(r)}
    OBVIOUS
  <2>2. i \in Instr
    <3>1. \A s \in GrantedLinks(r) : s \in Steps /\ r.steps[s].index \in Nat
      BY DEF GrantedLinks, Run, StepState
    <3>2. {[step |-> s, index |-> r.steps[s].index] : s \in GrantedLinks(r)}
              \subseteq [step : Steps, index : Nat]
      BY <3>1
    <3>3. r.failed \in BOOLEAN
      BY DEF Run
    <3> QED BY <3>2, <3>3 DEF Instr, ApprovalsLoop
  <2> HIDE DEF i
  <2>3. ASSUME NEW item \in i.todo
        PROVE  /\ Kind[item.step] = "approval" /\ ToldFor(F, "APPROVAL_GRANTED", item.step)
               /\ ToldLink(F, item.step, item.index)
    <3>1. PICK s \in GrantedLinks(r) : item.step = s /\ item.index = r.steps[s].index
      BY <2>1
    <3>2. s \in Steps /\ Kind[s] = "approval" /\ r.steps[s].approval = "granted"
      BY DEF GrantedLinks
    <3> QED BY <3>1, <3>2 DEF SoundRun, SoundStep
  <2>4. i.failed => Fails(F)
    BY <2>1 DEF SoundRun
  <2>5. IsLoop(i) /\ Sound(F, L, t, i)
    BY <2>1, <2>3, <2>4 DEF IsLoop, Sound
  <2> QED BY <2>2, <2>5, LoopsOne
<1>4. dispatch(r) = IF Terminal(r) THEN <<>> ELSE (sla \o scan) \o Loop(i)
  BY DEF dispatch
<1> HIDE DEF sla, scan, i
<1>5. SoundWork(F, L, t, (sla \o scan) \o Loop(i)) /\ SoundWork(F, L, t, <<>>)
  BY <1>1, <1>2, <1>3, WorkMake, WorkJoin, EmptySound
<1> QED BY <1>4, <1>5

LEMMA dispatchAfterWork ==
    ASSUME NEW F, NEW L, NEW t, NEW r \in Run, SoundRun(F, L, r)
    PROVE  Loops(F, L, t, dispatchAfter(r))
<1> DEFINE due == [s \in Steps |-> IF Kind[s] = "task" THEN NoTime ELSE r.steps[s].dueAt]
<1>1. due \in [Steps -> Nat \union {NoTime}]
  BY DEF Run, StepState
<1>2. \A s \in Steps : Kind[s] = "delay" => due[s] = r.steps[s].dueAt
  OBVIOUS
<1>3. dispatchAfter(r) = IF Terminal(r) THEN <<>> ELSE Loop(Scan(r, due))
  BY DEF dispatchAfter
<1> HIDE DEF due
<1> QED BY <1>1, <1>2, <1>3, ScanSound, EmptySound

\* A disconnected caller goes on with its loops over the tasks they had read.
LEMMA SurvivorWork ==
    ASSUME NEW F, NEW L, NEW t, NEW todo, SoundWork(F, L, t, todo)
    PROVE  Loops(F, L, t, [n \in 1 .. Len(todo) |-> Survivor(todo[n])])
<1> DEFINE w == [n \in 1 .. Len(todo) |-> Survivor(todo[n])]
<1>1. PICK p, q \in Seq(Instr) : todo = p \o q /\ Acts(F, L, t, p) /\ Loops(F, L, t, q)
  BY DEF SoundWork
<1>2. /\ todo \in Seq(Instr) /\ Len(todo) = Len(p) + Len(q)
      /\ Len(p) \in Nat /\ Len(q) \in Nat /\ Len(todo) \in Nat
      /\ \A n \in 1 .. Len(p) + Len(q) : todo[n] = IF n <= Len(p) THEN p[n] ELSE q[n - Len(p)]
  BY <1>1, ConcatProperties, LenProperties
<1>3. ASSUME NEW n \in 1 .. Len(todo)
      PROVE  todo[n] \in Instr /\ (todo[n].op = "scan" => Sound(F, L, t, todo[n]))
  <2>1. todo[n] \in Instr
    BY <1>2, ElementOfSeq
  <2>2. CASE n <= Len(p)
    <3>1. n \in 1 .. Len(p) /\ todo[n] = p[n]
      BY <1>2, <2>2
    <3>2. ~IsLoop(todo[n])
      BY <1>1, <3>1 DEF Acts
    <3> QED BY <2>1, <3>2 DEF IsLoop
  <2>3. CASE ~(n <= Len(p))
    <3>1. n - Len(p) \in 1 .. Len(q) /\ todo[n] = q[n - Len(p)]
      BY <1>2, <2>3
    <3> QED BY <1>1, <2>1, <3>1 DEF Loops
  <2> QED BY <2>2, <2>3
<1>4. ASSUME NEW i \in Instr, i.op = "scan" => Sound(F, L, t, i)
      PROVE  Survivor(i) \in Instr /\ IsLoop(Survivor(i)) /\ Sound(F, L, t, Survivor(i))
  <2> DEFINE v == Survivor(i)
  <2>1. /\ v.op = "scan" /\ v.failed = FALSE
        /\ v.todo = IF i.op = "scan" THEN {item \in i.todo : Kind[item.step] = "task"} ELSE {}
    BY DEF Survivor
  <2>2. v \in Instr
    <3>1. i.op = "scan" => i \in ScanLoop
      BY DEF Instr, FlagLoop, ApprovalsLoop
    <3>2. v \in ScanLoop
      BY <3>1 DEF Survivor, ScanLoop
    <3> QED BY <3>2 DEF Instr
  <2> HIDE DEF v
  <2>3. \A item \in v.todo : Begun(F, item.step)
    BY <1>4, <2>1 DEF Sound
  <2>4. IsLoop(v) /\ Sound(F, L, t, v)
    BY <2>1, <2>3 DEF IsLoop, Sound
  <2> QED BY <2>2, <2>4 DEF v
<1>5. \A n \in 1 .. Len(todo) :
          w[n] \in Instr /\ IsLoop(w[n]) /\ Sound(F, L, t, w[n])
  BY <1>3, <1>4
<1>6. w \in Seq(Instr) /\ Len(w) = Len(todo)
  <2>1. w \in [1 .. Len(todo) -> Instr]
    BY <1>5
  <2>2. w \in Seq(Instr)
    <3>1. \A n \in Nat : [1 .. n -> Instr] \subseteq Seq(Instr)
      BY SeqDef
    <3> QED BY <1>2, <2>1, <3>1
  <2>3. DOMAIN w = 1 .. Len(todo) /\ DOMAIN w = 1 .. Len(w) /\ Len(w) \in Nat
    BY <2>2, LenProperties
  <2> HIDE DEF w
  <2> QED BY <1>2, <2>2, <2>3
<1> HIDE DEF w
<1>7. Loops(F, L, t, w)
  BY <1>5, <1>6 DEF Loops
<1> QED BY <1>7 DEF w

-----------------------------------------------------------------------------
\* Recording a warranted event is a step of RunHistory.

LEMMA StampFields ==
    ASSUME NEW e \in Event
    PROVE  LET d == Stamp(e)
           IN  /\ d.type = e.type /\ d.step = e.step /\ d.index = e.index
               /\ d.by = e.by /\ d.wait = e.wait /\ Fact(d) = Fact(e)
               /\ Timed(e) => d.at = now
BY DEF Stamp, Event, Fact

LEMMA FactsAfter ==
    ASSUME NEW e \in Event, Record(e)
    PROVE  Facts(log') = Facts(log) \union {Fact(e)} /\ log \subseteq log'
<1>1. log' = log \union {Stamp(e)} /\ Fact(Stamp(e)) = Fact(e)
  BY StampFields DEF Record
<1> QED BY <1>1 DEF Facts

\* The promise, in terms of the facts of the log.
LEMMA LegalNames ==
    /\ \A type : Legal!Has(type) <=> Told(Facts(log), type)
    /\ \A type, s : Legal!HasFor(type, s) <=> ToldFor(Facts(log), type, s)
    /\ \A s : Legal!Reached(s) <=> ReachedBy(Facts(log), s)
    /\ \A s : Legal!Retried(s) <=> RetriedBy(Facts(log), s)
    /\ \A i, t : Late(log, t, i) => Legal!Overdue(i, t)
    /\ \A s, t : EscalatedBy(log, t, s) => Legal!Escalated(s, t)
<1>1. \A type : Legal!Has(type) <=> Told(Facts(log), type)
  BY FactsOfLog DEF Legal!Has
<1>2. \A type, s : Legal!HasFor(type, s) <=> ToldFor(Facts(log), type, s)
  BY FactsOfLog DEF Legal!HasFor
<1>3. \A s : Legal!Reached(s) <=> ReachedBy(Facts(log), s)
  BY <1>1, <1>2 DEF Legal!Reached, ReachedBy
<1>4. \A s : Legal!Retried(s) <=> RetriedBy(Facts(log), s)
  BY <1>2 DEF Legal!Retried, RetriedBy
<1>5. \A i, t : Late(log, t, i) => Legal!Overdue(i, t)
  BY DEF Legal!Overdue, Late
<1>6. \A s, t : EscalatedBy(log, t, s) => Legal!Escalated(s, t)
  BY <1>5 DEF Legal!Escalated, EscalatedBy
<1> QED BY <1>1, <1>2, <1>3, <1>4, <1>5, <1>6

LEMMA WarrantedJustified ==
    ASSUME TypeOK, SoundLog(log, now), NEW e \in Event,
           Warranted(Facts(log), log, now, e), e.type = "RUN_STARTED" => ~Recorded("RUN_STARTED")
    PROVE  Legal!Justified(Stamp(e))
<1> DEFINE d == Stamp(e)
           F == Facts(log)
           s == e.step
<1>1. /\ d.type = e.type /\ d.step = e.step /\ d.index = e.index
      /\ d.by = e.by /\ d.wait = e.wait /\ (Timed(e) => d.at = now)
  BY StampFields
<1>2. Warranted(F, log, now, e)
  OBVIOUS
<1>3. /\ \A type : Legal!Has(type) <=> Told(F, type)
      /\ \A type, x : Legal!HasFor(type, x) <=> ToldFor(F, type, x)
      /\ \A x : Legal!Reached(x) <=> ReachedBy(F, x)
      /\ \A x : Legal!Retried(x) <=> RetriedBy(F, x)
      /\ \A i, t : Late(log, t, i) => Legal!Overdue(i, t)
      /\ \A x, t : EscalatedBy(log, t, x) => Legal!Escalated(x, t)
  BY LegalNames
<1>4. EscalatedBy(log, now, s) /\ e.type \in {"STEP_SCHEDULED", "APPROVAL_REQUESTED"}
          => Legal!Escalated(s, d.at)
  <2>1. EscalatedBy(log, now, s) /\ e.type \in {"STEP_SCHEDULED", "APPROVAL_REQUESTED"} => Timed(e)
    BY DEF Timed, EscalatedBy
  <2> QED BY <1>1, <1>3, <2>1
<1>5. \A x, i : ToldLink(F, x, i) <=>
         \E y \in log : y.type = "APPROVAL_REQUESTED" /\ y.step = x /\ y.index = i
  BY FactsOfLog
<1>6. log # {} => Legal!Has("TICKET_CREATED")
  BY DEF SoundLog, Legal!Has
<1>7. e.type = "RUN_STARTED" => ~Legal!Has("RUN_STARTED")
  BY DEF Recorded, Legal!Has
<1>8. e.type \in EventTypes
  BY DEF Event
<1> SUFFICES Legal!Justified(d)
  OBVIOUS
<1> HIDE DEF d, F
<1>9. CASE e.type = "TICKET_CREATED"
  <2>1. log = {}
    BY <1>2, <1>9 DEF Warranted
  <2> QED BY <1>1, <1>9, <2>1 DEF Legal!Justified
<1>10. CASE e.type = "RUN_STARTED"
  <2>1. Legal!Has("TICKET_CREATED") /\ ~Legal!Has("RUN_STARTED")
    BY <1>2, <1>6, <1>7, <1>10 DEF Warranted
  <2> QED BY <1>1, <1>10, <2>1 DEF Legal!Justified
<1>11. CASE e.type = "RUN_CANCELLED"
  <2>1. Legal!Has("TICKET_CREATED")
    BY <1>2, <1>6, <1>11 DEF Warranted
  <2> QED BY <1>1, <1>11, <2>1 DEF Legal!Justified
<1>12. CASE e.type = "TICKET_ASSIGNED"
  <2>1. Legal!HasFor("STEP_SCHEDULED", Initial)
    BY <1>2, <1>3, <1>12 DEF Warranted
  <2> QED BY <1>1, <1>12, <2>1 DEF Legal!Justified
<1>13. CASE e.type = "STEP_SCHEDULED"
  <2>1. /\ Legal!Reached(s) \/ Legal!Retried(s) \/ Legal!Escalated(s, d.at)
        /\ Kind[s] = "approval" => Legal!HasFor("APPROVAL_REQUESTED", s)
    BY <1>2, <1>3, <1>4, <1>13 DEF Warranted
  <2> QED BY <1>1, <1>13, <2>1 DEF Legal!Justified
<1>14. CASE e.type \in {"STEP_STARTED", "STEP_FAILED"}
  <2>1. Kind[s] = "task" /\ (Legal!Reached(s) \/ Legal!HasFor("STEP_SCHEDULED", s))
    BY <1>2, <1>3, <1>14 DEF Warranted, Begun
  <2> QED BY <1>1, <1>14, <2>1 DEF Legal!Justified
<1>15. CASE e.type = "STEP_COMPLETED"
  <2>1. s \in Steps /\ Legal!HasFor(Ends(Kind[s]), s)
    BY <1>2, <1>3, <1>15 DEF Warranted
  <2>2. Kind[s] \in {"task", "approval", "delay"}
    BY <2>1, WorkflowAssumption
  <2>3. Ends(Kind[s]) = [task |-> "STEP_STARTED", delay |-> "TIMER_FIRED",
                         approval |-> "APPROVAL_GRANTED"][Kind[s]]
    BY <2>2 DEF Ends
  <2>4. Legal!HasFor([task |-> "STEP_STARTED", delay |-> "TIMER_FIRED",
                      approval |-> "APPROVAL_GRANTED"][Kind[s]], s)
    BY <2>1, <2>3
  <2> QED BY <1>1, <1>15, <2>4 DEF Legal!Justified
<1>16. CASE e.type = "TIMER_FIRED"
  <2>1. Elapsed(log, now, s) /\ d.at = now
    BY <1>1, <1>2, <1>16 DEF Warranted, Timed
  <2> QED BY <1>1, <1>16, <2>1 DEF Legal!Justified, Elapsed
<1>17. CASE e.type = "APPROVAL_REQUESTED" /\ e.index = 0
  <2>1. Legal!Reached(s) \/ Legal!Escalated(s, d.at)
    BY <1>2, <1>3, <1>4, <1>17 DEF Warranted
  <2> QED BY <1>1, <1>17, <2>1 DEF Legal!Justified
<1>18. CASE e.type = "APPROVAL_REQUESTED" /\ e.index # 0
  <2>1. /\ Legal!HasFor("APPROVAL_GRANTED", s) /\ e.index < Len(Chain[s])
        /\ \E x \in log : x.type = "APPROVAL_REQUESTED" /\ x.step = s /\ x.index = e.index - 1
    BY <1>2, <1>3, <1>5, <1>18 DEF Warranted
  <2> QED BY <1>1, <1>18, <2>1 DEF Legal!Justified
<1>19. CASE e.type \in {"APPROVAL_GRANTED", "APPROVAL_REJECTED"}
  <2>1. /\ Authorized(s, e.index, e.by)
        /\ \E x \in log : x.type = "APPROVAL_REQUESTED" /\ x.step = s /\ x.index = e.index
    BY <1>2, <1>5, <1>19 DEF Warranted
  <2>2. Legal!Authorized(s, e.index, e.by)
    BY <2>1 DEF Authorized, Legal!Authorized
  <2> QED BY <1>1, <1>19, <2>1, <2>2 DEF Legal!Justified
<1>20. CASE e.type = "SLA_BREACHED"
  <2>1. Legal!Overdue(e.index, now) /\ d.at = now
    BY <1>1, <1>2, <1>3, <1>20 DEF Warranted, Timed
  <2> QED BY <1>1, <1>20, <2>1 DEF Legal!Justified
<1>21. CASE e.type = "RUN_FAILING"
  <2>1. Legal!HasFor("STEP_FAILED", s)
    BY <1>2, <1>3, <1>21 DEF Warranted
  <2> QED BY <1>1, <1>21, <2>1 DEF Legal!Justified
<1>22. CASE e.type = "RUN_COMPLETED"
  <2>1. NextStep[s] = NoStep /\ Legal!HasFor("STEP_COMPLETED", s)
    BY <1>2, <1>3, <1>22 DEF Warranted
  <2> QED BY <1>1, <1>22, <2>1 DEF Legal!Justified
<1>23. CASE e.type = "RUN_FAILED"
  <2>1. Legal!Has("RUN_FAILING") \/ Legal!Has("APPROVAL_REJECTED")
    BY <1>2, <1>3, <1>23 DEF Warranted, Fails
  <2> QED BY <1>1, <1>23, <2>1 DEF Legal!Justified
<1> QED BY <1>8, <1>9, <1>10, <1>11, <1>12, <1>13, <1>14, <1>15, <1>16, <1>17,
           <1>18, <1>19, <1>20, <1>21, <1>22, <1>23 DEF EventTypes

LEMMA RecordLegal ==
    ASSUME TypeOK, SoundLog(log, now), NEW e \in Event, Record(e),
           Warranted(Facts(log), log, now, e), e.type = "RUN_STARTED" => ~Recorded("RUN_STARTED")
    PROVE  [Legal!HistoryNext]_log
<1>1. log' = log \union {Stamp(e)}
  BY DEF Record
<1>2. Legal!Justified(Stamp(e))
  BY WarrantedJustified
<1>3. CASE Stamp(e) \in log
  BY <1>1, <1>3
<1>4. CASE Stamp(e) \notin log
  BY <1>1, <1>2, <1>4 DEF Legal!HistoryNext
<1> QED BY <1>3, <1>4

-----------------------------------------------------------------------------
\* Recording a warranted event keeps the log and the run sound.

\* The event d is of that type and about step s.
Is(d, type, s) == d.type = type /\ d.step = s

StepTypes == {"STEP_SCHEDULED", "STEP_STARTED", "APPROVAL_REQUESTED", "APPROVAL_GRANTED",
              "APPROVAL_REJECTED"}

LEMMA FactAddedOnly ==
    ASSUME NEW F, NEW d, NEW type, NEW s, ToldFor(F \union {Fact(d)}, type, s)
    PROVE  ToldFor(F, type, s) \/ Is(d, type, s)
<1> DEFINE f == Fact(d)
<1>1. f[1] = d.type /\ f[2] = d.step
  BY DEF Fact
<1> HIDE DEF f
<1>2. PICK g \in F \union {f} : g[1] = type /\ g[2] = s
  BY DEF ToldFor, f
<1> QED BY <1>1, <1>2 DEF ToldFor, Is

\* What an event changes of a step.
LEMMA StepAfter ==
    ASSUME NEW r \in Run, NEW d \in Event, NEW s \in Steps
    PROVE  LET a == r.steps[s]
               b == applyOne(r, d).steps[s]
           IN  /\ b.status = "PENDING" =>
                     \/ a.status = "PENDING" \/ Is(d, "STEP_SCHEDULED", s)
                     \/ d.type = "RUN_STARTED" /\ s = Initial
               /\ \/ b.dueAt = a.dueAt
                  \/ Is(d, "STEP_SCHEDULED", s) /\ d.wait # NoTime /\ b.dueAt = d.at + d.wait
               /\ Is(d, "APPROVAL_REQUESTED", s) => b.approval = "pending" /\ b.index = d.index
               /\ Is(d, "APPROVAL_GRANTED", s) => b.approval = "granted" /\ b.index = a.index
               /\ Is(d, "APPROVAL_REJECTED", s) => b.approval = "rejected" /\ b.index = a.index
               /\ \/ b.approval = a.approval /\ b.index = a.index
                  \/ Is(d, "APPROVAL_REQUESTED", s) \/ Is(d, "APPROVAL_GRANTED", s)
                  \/ Is(d, "APPROVAL_REJECTED", s)
               /\ Is(d, "STEP_STARTED", s) => b.attempt >= 1
               /\ b.attempt >= a.attempt
<1> DEFINE a == r.steps[s]
           b == applyOne(r, d).steps[s]
<1>1. a \in StepState /\ b \in StepState
  BY ApplyOneType DEF Run
<1>2. CASE d.type = "RUN_STARTED"
  <2>1. b = IF s = Initial THEN ensureStep(a) ELSE a
    BY <1>2 DEF applyOne, Run
  <2> HIDE DEF a, b
  <2>2. /\ b.dueAt = a.dueAt /\ b.approval = a.approval /\ b.index = a.index
        /\ b.attempt = a.attempt /\ (b.status = "PENDING" => a.status = "PENDING" \/ s = Initial)
    BY <1>1, <2>1 DEF ensureStep, StepState
  <2>3. \A type : Is(d, type, s) => type = "RUN_STARTED"
    BY <1>2 DEF Is
  <2> QED BY <1>1, <1>2, <2>2, <2>3 DEF StepState, a, b
<1>3. ASSUME b = a, \A type \in StepTypes : ~Is(d, type, s)
      PROVE  /\ b.status = "PENDING" => a.status = "PENDING"
             /\ b.dueAt = a.dueAt /\ b.approval = a.approval /\ b.index = a.index
             /\ b.attempt >= a.attempt
  BY <1>1, <1>3 DEF StepState
<1>4. CASE d.type \in {"TICKET_CREATED", "RUN_COMPLETED", "RUN_FAILED", "RUN_CANCELLED", "RUN_FAILING"}
  <2>1. b = a
    BY <1>4 DEF applyOne, Run
  <2>2. \A type \in StepTypes : ~Is(d, type, s)
    BY <1>4 DEF Is, StepTypes
  <2> HIDE DEF a, b
  <2> QED BY <1>3, <2>1, <2>2 DEF a, b, StepTypes
<1>5. CASE d.type \notin {"TICKET_CREATED", "RUN_STARTED", "RUN_COMPLETED", "RUN_FAILED",
                          "RUN_CANCELLED", "RUN_FAILING"}
  <2>1. applyOne(r, d) =
          IF d.step \in Steps THEN [r EXCEPT !.steps[d.step] = applyStep(@, d)] ELSE r
    BY <1>5 DEF applyOne
  <2>2. b = IF d.step = s THEN applyStep(a, d) ELSE a
    BY <2>1 DEF Run
  <2>3. CASE d.step # s
    <3>1. \A type \in StepTypes : ~Is(d, type, s)
      BY <2>3 DEF Is
    <3> HIDE DEF a, b
    <3> QED BY <1>3, <2>2, <2>3, <3>1 DEF a, b, StepTypes
  <2>4. CASE d.step = s
    <3>1. b = applyStep(a, d) /\ \A type : Is(d, type, s) <=> d.type = type
      BY <2>2, <2>4 DEF Is
    <3> HIDE DEF a, b
    <3>2. CASE d.type \notin StepTypes
      <4>1. b = a \/ (b.status \in {"COMPLETED", "FAILED"} /\ b.dueAt = a.dueAt
                      /\ b.approval = a.approval /\ b.index = a.index /\ b.attempt = a.attempt)
        BY <1>1, <3>1, <3>2 DEF applyStep, StepTypes, StepState
      <4> QED BY <1>1, <3>1, <3>2, <4>1 DEF StepTypes, StepState, a, b
    <3>3. CASE d.type = "STEP_SCHEDULED"
      <4>1. /\ b.dueAt = IF d.wait = NoTime THEN a.dueAt ELSE d.at + d.wait
            /\ b.approval = a.approval /\ b.index = a.index /\ b.attempt = a.attempt
        BY <1>1, <3>1, <3>3 DEF applyStep, StepState
      <4> QED BY <1>1, <3>1, <3>3, <4>1 DEF StepState, a, b
    <3>4. CASE d.type = "STEP_STARTED"
      <4>1. /\ b.dueAt = a.dueAt /\ b.approval = a.approval /\ b.index = a.index
            /\ b.attempt = IF a.attempt < AttemptCap THEN a.attempt + 1 ELSE a.attempt
            /\ b.status = "RUNNING"
        BY <1>1, <3>1, <3>4 DEF applyStep, StepState
      <4>2. b.attempt >= 1 /\ b.attempt >= a.attempt
        BY <1>1, <4>1, AttemptCapAssumption DEF StepState
      <4> QED BY <1>1, <3>1, <3>4, <4>1, <4>2 DEF a, b
    <3>5. CASE d.type \in {"APPROVAL_REQUESTED", "APPROVAL_GRANTED", "APPROVAL_REJECTED"}
      <4>1. /\ b.dueAt = a.dueAt /\ b.attempt = a.attempt
            /\ b.status = "PENDING" => a.status = "PENDING"
            /\ d.type = "APPROVAL_REQUESTED" => b.approval = "pending" /\ b.index = d.index
            /\ d.type = "APPROVAL_GRANTED" => b.approval = "granted" /\ b.index = a.index
            /\ d.type = "APPROVAL_REJECTED" => b.approval = "rejected" /\ b.index = a.index
        BY <1>1, <3>1, <3>5 DEF applyStep, StepState
      <4> QED BY <1>1, <3>1, <3>5, <4>1 DEF StepState, a, b
    <3> QED BY <3>2, <3>3, <3>4, <3>5 DEF StepTypes
  <2> QED BY <2>3, <2>4
<1> QED BY <1>2, <1>4, <1>5

LEMMA SoundStepKept ==
    ASSUME NEW L \in SUBSET Event, NEW M \in SUBSET Event, L \subseteq M,
           NEW r \in Run, NEW s \in Steps, SoundStep(Facts(L), L, r.steps[s], s),
           NEW d \in M, NEW t, Warranted(Facts(L), L, t, d)
    PROVE  SoundStep(Facts(L) \union {Fact(d)}, M, applyOne(r, d).steps[s], s)
<1> DEFINE F == Facts(L)
           G == F \union {Fact(d)}
           a == r.steps[s]
           b == applyOne(r, d).steps[s]
<1>1. /\ b.status = "PENDING" =>
            \/ a.status = "PENDING" \/ Is(d, "STEP_SCHEDULED", s)
            \/ d.type = "RUN_STARTED" /\ s = Initial
      /\ \/ b.dueAt = a.dueAt
         \/ Is(d, "STEP_SCHEDULED", s) /\ d.wait # NoTime /\ b.dueAt = d.at + d.wait
      /\ Is(d, "APPROVAL_REQUESTED", s) => b.approval = "pending" /\ b.index = d.index
      /\ Is(d, "APPROVAL_GRANTED", s) => b.approval = "granted" /\ b.index = a.index
      /\ Is(d, "APPROVAL_REJECTED", s) => b.approval = "rejected" /\ b.index = a.index
      /\ \/ b.approval = a.approval /\ b.index = a.index
         \/ Is(d, "APPROVAL_REQUESTED", s) \/ Is(d, "APPROVAL_GRANTED", s)
         \/ Is(d, "APPROVAL_REJECTED", s)
      /\ Is(d, "STEP_STARTED", s) => b.attempt >= 1
      /\ b.attempt >= a.attempt
  BY StepAfter
<1>2. /\ a.attempt \in Nat /\ b.attempt \in Nat /\ SoundStep(F, L, a, s)
  BY ApplyOneType DEF Run, StepState
<1>3. /\ Told(F, "RUN_STARTED") => Told(G, "RUN_STARTED")
      /\ \A type : ToldFor(F, type, s) => ToldFor(G, type, s)
      /\ \A i : ToldLink(F, s, i) => ToldLink(G, s, i)
      /\ Begun(F, s) => Begun(G, s)
  BY FactsGrow
<1>4. /\ Told(G, d.type)
      /\ \A type : Is(d, type, s) => ToldFor(G, type, s)
      /\ Is(d, "APPROVAL_REQUESTED", s) => ToldLink(G, s, d.index)
  BY FactAdded DEF Is
<1>5. \A type : ToldFor(G, type, s) => ToldFor(F, type, s) \/ Is(d, type, s)
  BY FactAddedOnly
<1>6. \A i : ToldLink(F, s, i) => ToldFor(F, "APPROVAL_REQUESTED", s)
  BY FactsOfLog
<1>7. Is(d, "APPROVAL_GRANTED", s) \/ Is(d, "APPROVAL_REJECTED", s) => ToldFor(F, "APPROVAL_REQUESTED", s)
  BY <1>6 DEF Is, Warranted
<1>8. \A u : Elapsed(L, u, s) => Elapsed(M, u, s)
  BY DEF Elapsed
<1>9. Kind[s] = "delay" /\ Is(d, "STEP_SCHEDULED", s) => Elapsed(M, d.at + d.wait, s)
  <2> SUFFICES ASSUME Kind[s] = "delay", Is(d, "STEP_SCHEDULED", s)
               PROVE  Elapsed(M, d.at + d.wait, s)
    OBVIOUS
  <2>1. d.wait = DelayOf[s] /\ DelayOf[s] \in Nat /\ d.at \in Nat
    BY WorkflowAssumption DEF Is, Warranted, Event
  <2> QED BY <2>1 DEF Elapsed, Is
<1> HIDE DEF F, G, a, b
<1>10. b.status = "PENDING" /\ Kind[s] = "task" => Begun(G, s)
  BY <1>1, <1>2, <1>3, <1>4 DEF SoundStep, Begun, ReachedBy
<1>11. Kind[s] = "delay" /\ b.dueAt # NoTime => Elapsed(M, b.dueAt, s)
  BY <1>1, <1>2, <1>8, <1>9 DEF SoundStep
<1>12. b.approval # "none" => ToldFor(G, "APPROVAL_REQUESTED", s)
  BY <1>1, <1>2, <1>3, <1>4, <1>7 DEF SoundStep
<1>13. b.approval = "granted" => ToldFor(G, "APPROVAL_GRANTED", s)
  BY <1>1, <1>2, <1>3, <1>4 DEF SoundStep
<1>14. ToldFor(G, "APPROVAL_REQUESTED", s) => b.approval # "none" /\ ToldLink(G, s, b.index)
  BY <1>1, <1>2, <1>3, <1>4, <1>5, <1>7 DEF SoundStep
<1>15. ToldFor(G, "STEP_STARTED", s) => b.attempt >= 1
  BY <1>1, <1>2, <1>5 DEF SoundStep
<1> QED BY <1>10, <1>11, <1>12, <1>13, <1>14, <1>15 DEF SoundStep, F, G, b

\* What an event changes of the run besides its steps.
LEMMA RunAfter ==
    ASSUME NEW r \in Run, NEW d \in Event
    PROVE  LET b == applyOne(r, d)
           IN  /\ b.failed => r.failed \/ d.type \in {"RUN_FAILING", "RUN_FAILED"}
               /\ b.status = "ACTIVE" => r.status = "ACTIVE" \/ d.type = "RUN_STARTED"
               /\ b.createdAt = IF d.type = "TICKET_CREATED" THEN d.at ELSE r.createdAt
<1>1. CASE d.type = "TICKET_CREATED"
  BY <1>1 DEF applyOne, Run
<1>2. CASE d.type = "RUN_STARTED"
  BY <1>2 DEF applyOne, Run
<1>3. CASE d.type \in {"RUN_COMPLETED", "RUN_FAILED", "RUN_CANCELLED", "RUN_FAILING"}
  BY <1>3 DEF applyOne, Run
<1>4. CASE d.type \notin {"TICKET_CREATED", "RUN_STARTED", "RUN_COMPLETED", "RUN_FAILED",
                          "RUN_CANCELLED", "RUN_FAILING"}
  <2>1. applyOne(r, d) =
          IF d.step \in Steps THEN [r EXCEPT !.steps[d.step] = applyStep(@, d)] ELSE r
    BY <1>4 DEF applyOne
  <2> QED BY <1>4, <2>1 DEF Run
<1> QED BY <1>1, <1>2, <1>3, <1>4

LEMMA RecordSoundLog ==
    ASSUME TypeOK, SoundLog(log, now), NEW e \in Event, Record(e),
           Warranted(Facts(log), log, now, e)
    PROVE  SoundLog(log', now)
<1> DEFINE d == Stamp(e)
<1>1. /\ log' = log \union {d} /\ log \in SUBSET Event /\ now \in Int /\ d \in Event
      /\ log' \in SUBSET Event /\ Facts(log) \subseteq Facts(log') /\ now <= now
  <2>1. log' = log \union {d}
    BY DEF Record
  <2>2. log \in SUBSET Event /\ now \in Int /\ now <= now
    BY DEF TypeOK
  <2>3. d \in Event
    BY <2>2, StampType DEF TypeOK
  <2>4. Facts(log) \subseteq Facts(log')
    BY FactsAfter
  <2> HIDE DEF d
  <2> QED BY <2>1, <2>2, <2>3, <2>4
<1>2. ASSUME NEW x \in log', x.type # "TICKET_CREATED"
      PROVE  Warranted(Facts(log), log, now, x)
  <2>1. CASE x \in log
    BY <1>2, <2>1 DEF SoundLog
  <2>2. CASE x = d
    <3>1. d.type = e.type /\ d.step = e.step /\ d.index = e.index /\ d.by = e.by /\ d.wait = e.wait
      BY StampFields
    <3> HIDE DEF d
    <3> QED BY <2>2, <3>1 DEF Warranted
  <2> QED BY <1>1, <2>1, <2>2
<1>3. ASSUME NEW x \in log', x.type # "TICKET_CREATED"
      PROVE  Warranted(Facts(log'), log', now, x)
  <2>1. Warranted(Facts(log), log, now, x)
    BY <1>2, <1>3
  <2> HIDE DEF d
  <2> QED BY <1>1, <1>3, <2>1, WarrantedGrows
<1>4. \E x \in log' : x.type = "TICKET_CREATED"
  <2>1. CASE log # {}
    BY <1>1, <2>1 DEF SoundLog
  <2>2. CASE log = {}
    <3>1. \A type : ~Told(Facts(log), type)
      BY <2>2, FactsOfLog
    <3>2. e.type = "TICKET_CREATED"
      BY <2>2, <3>1 DEF Warranted
    <3>3. d.type = "TICKET_CREATED"
      BY <3>2, StampFields
    <3> QED BY <1>1, <3>3
  <2> QED BY <2>1, <2>2
<1> QED BY <1>3, <1>4 DEF SoundLog

LEMMA RecordSoundRun ==
    ASSUME TypeOK, SoundRun(Facts(log), log, run), NEW e \in Event, Record(e),
           Warranted(Facts(log), log, now, e)
    PROVE  SoundRun(Facts(log'), log', run')
<1> DEFINE d == Stamp(e)
           F == Facts(log)
           G == F \union {Fact(d)}
<1>1. /\ log' = log \union {d} /\ run' = applyOne(run, d) /\ run \in Run
      /\ log \in SUBSET Event /\ d \in Event /\ log' \in SUBSET Event
      /\ d.type = e.type /\ d.step = e.step /\ d.index = e.index /\ d.by = e.by /\ d.wait = e.wait
      /\ Facts(log') = G
  BY StampType, StampFields, FactsAfter, RecordType DEF Record, TypeOK
<1>2. Warranted(F, log, now, d)
  <2> HIDE DEF d, F
  <2>1. Warranted(F, log, now, e)
    BY DEF F
  <2> QED BY <1>1, <2>1 DEF Warranted
<1>3. ASSUME NEW s \in Steps PROVE SoundStep(G, log', run'.steps[s], s)
  <2>1. SoundStep(F, log, run.steps[s], s) /\ d \in log' /\ log \subseteq log'
    BY <1>1 DEF SoundRun
  <2> HIDE DEF d
  <2> QED BY <1>1, <1>2, <2>1, SoundStepKept
<1>4. /\ run'.failed => run.failed \/ d.type \in {"RUN_FAILING", "RUN_FAILED"}
      /\ run'.status = "ACTIVE" => run.status = "ACTIVE" \/ d.type = "RUN_STARTED"
      /\ run'.createdAt = IF d.type = "TICKET_CREATED" THEN d.at ELSE run.createdAt
  BY <1>1, RunAfter
<1>5. Told(G, d.type) /\ (Told(F, "RUN_STARTED") => Told(G, "RUN_STARTED")) /\ (Fails(F) => Fails(G))
  BY FactAdded, FactsGrow
<1>6. SoundRun(F, log, run)
  OBVIOUS
<1> HIDE DEF d, F, G
<1>7. run'.failed => Fails(G)
  BY <1>2, <1>4, <1>5, <1>6 DEF SoundRun, Fails, Warranted
<1>8. run'.status = "ACTIVE" => Told(G, "RUN_STARTED")
  BY <1>4, <1>5, <1>6 DEF SoundRun
<1>9. \A x \in log' : x.type = "TICKET_CREATED" => x.at = run'.createdAt
  <2>1. d.type = "TICKET_CREATED" => log = {}
    BY <1>2 DEF Warranted
  <2> QED BY <1>1, <1>4, <1>6, <2>1 DEF SoundRun
<1> QED BY <1>1, <1>3, <1>7, <1>8, <1>9 DEF SoundRun

-----------------------------------------------------------------------------
\* A step keeps the invariant and the promise if what it records is warranted by what is on
\* record, and if what it gives a goroutine to do is sound by what is on record afterwards.

Noted ==
    \/ UNCHANGED <<log, run>>
    \/ \E e \in Event : /\ Record(e) /\ now' = now /\ Warranted(Facts(log), log, now, e)
                        /\ e.type = "RUN_STARTED" => ~Recorded("RUN_STARTED")

Assigned ==
    \/ UNCHANGED work
    \/ \E t \in Threads : \E todo :
          Begin(t, todo) /\ SoundWork(Facts(log'), log', now', todo)
    \/ work' = [t \in Threads |-> <<>>]

Submitted == \A n \in 1 .. Len(queue') : Begun(Facts(log), queue'[n])

Conforms == Noted /\ Assigned /\ Submitted /\ now <= now'

LEMMA SoundLogLater ==
    ASSUME NEW L \in SUBSET Event, NEW t \in Int, NEW u \in Int, t <= u, SoundLog(L, t)
    PROVE  SoundLog(L, u)
<1>1. ASSUME NEW e \in L, e.type # "TICKET_CREATED" PROVE Warranted(Facts(L), L, u, e)
  <2>1. Warranted(Facts(L), L, t, e)
    BY <1>1 DEF SoundLog
  <2> QED BY <1>1, <2>1, WarrantedGrows
<1> QED BY <1>1 DEF SoundLog

LEMMA LogGrows ==
    ASSUME TypeOK, Noted
    PROVE  log \subseteq log' /\ Facts(log) \subseteq Facts(log')
<1>1. log \subseteq log'
  BY DEF Noted, Record
<1> QED BY <1>1 DEF Facts

\* What was sound before the step is sound after it.
LEMMA WorkKept ==
    ASSUME TypeOK, TypeOK', Noted, now <= now'
    PROVE  /\ \A todo : SoundWork(Facts(log), log, now, todo)
                            => SoundWork(Facts(log'), log', now', todo)
           /\ \A todo : Loops(Facts(log), log, now, todo) => Loops(Facts(log'), log', now', todo)
           /\ \A s : Begun(Facts(log), s) => Begun(Facts(log'), s)
<1>1. /\ log \subseteq log' /\ Facts(log) \subseteq Facts(log') /\ log' \in SUBSET Event
      /\ now \in Int /\ now' \in Int
  BY LogGrows DEF TypeOK
<1>2. ASSUME NEW todo, SoundWork(Facts(log), log, now, todo)
      PROVE  SoundWork(Facts(log'), log', now', todo)
  BY <1>1, <1>2, SoundWorkGrows
<1>3. ASSUME NEW todo, Loops(Facts(log), log, now, todo)
      PROVE  Loops(Facts(log'), log', now', todo)
  BY <1>1, <1>3, LoopsGrow
<1>4. \A s : Begun(Facts(log), s) => Begun(Facts(log'), s)
  BY <1>1, FactsGrow
<1> QED BY <1>2, <1>3, <1>4

LEMMA ConformsKeeps ==
    ASSUME LegalInv, HistoryInv', Conforms
    PROVE  LegalInv' /\ [Legal!HistoryNext]_log
<1>1. TypeOK /\ TypeOK' /\ Noted /\ now <= now' /\ Assigned /\ Submitted /\ SoundLog(log, now)
  BY DEF LegalInv, HistoryInv, Conforms
<1>2. log \in SUBSET Event /\ now \in Int /\ now' \in Int
  BY <1>1 DEF TypeOK
<1>3. [Legal!HistoryNext]_log
  <2>1. ASSUME NEW e \in Event, Record(e), Warranted(Facts(log), log, now, e),
               e.type = "RUN_STARTED" => ~Recorded("RUN_STARTED")
        PROVE  [Legal!HistoryNext]_log
    BY <1>1, <2>1, RecordLegal
  <2> QED BY <1>1, <2>1 DEF Noted
<1>4. SoundLog(log', now')
  <2>1. ASSUME NEW e \in Event, Record(e), Warranted(Facts(log), log, now, e), now' = now
        PROVE  SoundLog(log', now')
    BY <1>1, <2>1, RecordSoundLog
  <2>2. SoundLog(log, now')
    BY <1>1, <1>2, SoundLogLater
  <2> QED BY <1>1, <2>1, <2>2 DEF Noted
<1>5. SoundRun(Facts(log'), log', run')
  <2>1. SoundRun(Facts(log), log, run)
    BY DEF LegalInv
  <2>2. ASSUME NEW e \in Event, Record(e), Warranted(Facts(log), log, now, e)
        PROVE  SoundRun(Facts(log'), log', run')
    BY <1>1, <2>1, <2>2, RecordSoundRun
  <2> QED BY <1>1, <2>1, <2>2 DEF Noted
<1>6. ASSUME NEW t \in Threads PROVE SoundWork(Facts(log'), log', now', work'[t])
  <2>1. SoundWork(Facts(log'), log', now', work[t])
    BY <1>1, WorkKept DEF LegalInv
  <2>2. SoundWork(Facts(log'), log', now', <<>>)
    BY EmptySound, WorkMake
  <2>3. ASSUME NEW u \in Threads, NEW todo, Begin(u, todo),
               SoundWork(Facts(log'), log', now', todo)
        PROVE  SoundWork(Facts(log'), log', now', work'[t])
    <3>1. work'[t] = IF t = u THEN todo ELSE work[t]
      BY <1>1, <2>3 DEF Begin, TypeOK
    <3> QED BY <2>1, <2>3, <3>1
  <2> QED BY <1>1, <2>1, <2>2, <2>3 DEF Assigned
<1>7. \A n \in 1 .. Len(queue') : Begun(Facts(log'), queue'[n])
  BY <1>1, WorkKept DEF Submitted
<1> QED BY <1>3, <1>4, <1>5, <1>6, <1>7 DEF LegalInv

-----------------------------------------------------------------------------
\* A goroutine that goes on, or begins, with what is sound.

LEMMA HeadSound ==
    ASSUME LegalInv, NEW t \in Threads, work[t] # <<>>
    PROVE  /\ Sound(Facts(log), log, now, Head(work[t]))
           /\ Head(work[t]).op # "append" => Loops(Facts(log), log, now, Tail(work[t]))
           /\ Head(work[t]).op = "append" =>
                 /\ SoundWork(Facts(log) \union {Fact(Head(work[t]).ev)}, log, now, Tail(work[t]))
                 /\ Loops(Facts(log), log, now, AfterError(Tail(work[t])))
<1>1. log \in SUBSET Event /\ now \in Int
  BY DEF LegalInv, HistoryInv, TypeOK
<1>2. SoundWork(Facts(log), log, now, work[t])
  BY DEF LegalInv
<1> QED BY <1>1, <1>2, WorkHead

LEMMA BeginSound ==
    ASSUME LegalInv, TypeOK', Noted, now <= now', NEW t \in Threads, NEW todo, Begin(t, todo),
           SoundWork(Facts(log), log, now, todo)
    PROVE  Assigned
<1>1. SoundWork(Facts(log'), log', now', todo)
  BY WorkKept DEF LegalInv, HistoryInv
<1> QED BY <1>1 DEF Assigned

LEMMA ContinueSound ==
    ASSUME LegalInv, TypeOK', Noted, now <= now', NEW t \in Threads, work[t] # <<>>,
           Head(work[t]).op # "append", NEW more, Continue(t, more),
           SoundWork(Facts(log), log, now, more)
    PROVE  Assigned
<1>1. Loops(Facts(log), log, now, Tail(work[t]))
  BY HeadSound
<1>2. SoundWork(Facts(log), log, now, more \o Tail(work[t]))
  BY <1>1, WorkJoin
<1>3. Begin(t, more \o Tail(work[t]))
  BY DEF Continue, Begin
<1> QED BY <1>2, <1>3, BeginSound

\* A step that records nothing and submits nothing.
LEMMA SilentContinues ==
    ASSUME LegalInv, TypeOK', UNCHANGED <<log, run, queue, now>>, NEW t \in Threads, work[t] # <<>>,
           Head(work[t]).op # "append", NEW more, Continue(t, more),
           SoundWork(Facts(log), log, now, more)
    PROVE  Conforms
<1>1. Noted /\ now <= now' /\ Submitted
  BY DEF Noted, LegalInv, HistoryInv, TypeOK, Submitted
<1> QED BY <1>1, ContinueSound DEF Conforms

LEMMA SilentBegins ==
    ASSUME LegalInv, TypeOK', UNCHANGED <<log, run, queue, now>>, NEW t \in Threads, NEW todo,
           Begin(t, todo), SoundWork(Facts(log), log, now, todo)
    PROVE  Conforms
<1>1. Noted /\ now <= now' /\ Submitted
  BY DEF Noted, LegalInv, HistoryInv, TypeOK, Submitted
<1> QED BY <1>1, BeginSound DEF Conforms

-----------------------------------------------------------------------------
\* The steps of a goroutine conform, one by one.

LEMMA AppendConforms ==
    ASSUME LegalInv, TypeOK', NEW t \in Threads, AppendEvent(t) \/ AppendFails(t)
    PROVE  Conforms
<1> DEFINE h == Head(work[t])
           e == h.ev
<1>1. work[t] # <<>> /\ h.op = "append" /\ e \in Event /\ UNCHANGED <<queue, now>>
  BY HeadType DEF AppendEvent, AppendFails, At, LegalInv, HistoryInv, DbError
<1>2. /\ Sound(Facts(log), log, now, h)
      /\ SoundWork(Facts(log) \union {Fact(e)}, log, now, Tail(work[t]))
      /\ Loops(Facts(log), log, now, AfterError(Tail(work[t])))
  BY <1>1, HeadSound
<1>3. e.type # "TICKET_CREATED" /\ Warranted(Facts(log), log, now, e)
  BY <1>1, <1>2 DEF Sound
<1>4. e.type = "RUN_STARTED" => ~Recorded("RUN_STARTED")
  BY <1>1 DEF LegalInv, HistoryInv, StartsOnce, Opens, At
<1>5. Noted
  BY <1>1, <1>3, <1>4 DEF AppendEvent, AppendFails, Noted
<1>6. now <= now' /\ Submitted
  BY <1>1 DEF LegalInv, HistoryInv, TypeOK, Submitted
<1>7. CASE AppendEvent(t)
  <2>1. Facts(log') = Facts(log) \union {Fact(e)} /\ log \subseteq log'
    BY <1>1, <1>7, FactsAfter DEF AppendEvent
  <2>2. log' \in SUBSET Event /\ now \in Int /\ now <= now /\ now' = now
    BY <1>1 DEF TypeOK, LegalInv, HistoryInv
  <2>3. SoundWork(Facts(log'), log', now', Tail(work[t]))
    <3> HIDE DEF e
    <3> QED BY <1>2, <2>1, <2>2, SoundWorkGrows
  <2>4. <<>> \o Tail(work[t]) = Tail(work[t])
    BY <1>1, ConcatEmptySeq DEF LegalInv, HistoryInv, TypeOK
  <2>5. Begin(t, Tail(work[t]))
    BY <1>7, <2>4 DEF AppendEvent, Continue, Begin
  <2> QED BY <1>5, <1>6, <2>3, <2>5 DEF Conforms, Assigned
<1>8. CASE AppendFails(t)
  <2>1. Begin(t, AfterError(Tail(work[t])))
    BY <1>8 DEF AppendFails, Begin
  <2>2. SoundWork(Facts(log), log, now, AfterError(Tail(work[t])))
    BY <1>2, EmptySound, WorkMake
  <2> QED BY <1>5, <1>6, <2>1, <2>2, BeginSound DEF Conforms
<1> QED BY <1>7, <1>8

LEMMA RunIsSound ==
    ASSUME LegalInv
    PROVE  /\ run \in Run /\ SoundRun(Facts(log), log, run) /\ SoundLog(log, now)
           /\ log \in SUBSET Event /\ now \in Nat /\ TypeOK
           /\ \A n \in 1 .. Len(queue) : Begun(Facts(log), queue[n])
           /\ run.failed \in BOOLEAN /\ (run.failed => Fails(Facts(log)))
           /\ \A s \in Steps : SoundStep(Facts(log), log, run.steps[s], s)
BY DEF LegalInv, HistoryInv, TypeOK, SoundRun, Run

LEMMA DispatchConforms ==
    ASSUME LegalInv, TypeOK', NEW t \in Threads, Dispatch(t)
    PROVE  Conforms
<1>1. SoundWork(Facts(log), log, now, dispatch(run))
  BY RunIsSound, dispatchWork
<1>2. /\ work[t] # <<>> /\ Head(work[t]).op # "append" /\ Continue(t, dispatch(run))
      /\ UNCHANGED <<log, run, queue, now>>
  BY DEF Dispatch, At
<1> QED BY <1>1, <1>2, SilentContinues

LEMMA RecoverConforms ==
    ASSUME LegalInv, TypeOK', NEW t \in Threads, Begin(t, dispatch(run)),
           UNCHANGED <<log, run, queue, now>>
    PROVE  Conforms
<1>1. SoundWork(Facts(log), log, now, dispatch(run))
  BY RunIsSound, dispatchWork
<1> QED BY <1>1, SilentBegins

LEMMA CheckSLAConforms ==
    ASSUME LegalInv, TypeOK', NEW t \in Threads, CheckSLA(t)
    PROVE  Conforms
<1> DEFINE F == Facts(log)
<1>1. /\ work[t] # <<>> /\ Head(work[t]).op # "append" /\ Head(work[t]).active \in SUBSET Steps
      /\ Head(work[t]).op = "checkSLA" /\ UNCHANGED <<log, run, queue, now>>
  BY RunIsSound, HeadType DEF CheckSLA, At
<1>2. PICK todo \in SUBSET (DOMAIN SLAs) :
        /\ Continue(t, Loop([op |-> "flag", active |-> Head(work[t]).active, todo |-> todo]))
        /\ \A i \in todo : now > run.createdAt + SLAs[i].duration
  BY DEF CheckSLA
<1> DEFINE i == [op |-> "flag", active |-> Head(work[t]).active, todo |-> todo]
<1>3. i \in Instr /\ IsLoop(i) /\ i.op = "flag" /\ i.todo = todo
  BY <1>1 DEF Instr, FlagLoop, IsLoop
<1>4. Told(F, "RUN_STARTED")
  BY <1>1, HeadSound DEF Sound
<1>5. PICK x \in log : x.type = "TICKET_CREATED" /\ x.at = run.createdAt
  <2>1. log # {}
    BY <1>4, FactsOfLog
  <2> QED BY <2>1, RunIsSound DEF SoundLog, SoundRun
<1>6. \A k \in todo : Late(log, now, k)
  BY <1>2, <1>5 DEF Late
<1> HIDE DEF i, F
<1>7. Sound(F, log, now, i)
  BY <1>3, <1>4, <1>6 DEF Sound
<1>8. SoundWork(F, log, now, Loop(i))
  BY <1>3, <1>7, LoopsOne, EmptySound, WorkMake
<1> QED BY <1>1, <1>2, <1>8, SilentContinues DEF i, F

LEMMA EscalateSound ==
    ASSUME LegalInv, NEW t \in Threads, At(t, "flag"), NEW i \in Head(work[t]).todo, Escalate(t, i)
    PROVE  /\ Late(log, now, i) /\ Told(Facts(log), "RUN_STARTED") /\ i \in Nat
           /\ \E more : Continue(t, more) /\ SoundWork(Facts(log), log, now, more)
<1> DEFINE F == Facts(log)
           cur == Head(work[t])
           s == SLAs[i].onBreach
           jump == IF s \in cur.active \union {NoStep} THEN <<>>
                   ELSE scheduleStep(s) \o <<GetRunAndDispatch>>
           rest == [cur EXCEPT !.todo = @ \ {i}]
<1>1. work[t] # <<>> /\ cur \in FlagLoop /\ cur.op = "flag"
  BY RunIsSound, HeadType DEF At
<1>2. i \in DOMAIN SLAs /\ i \in Nat /\ s \in Steps \union {NoStep}
  BY <1>1, SLAType DEF FlagLoop
<1>3. Sound(F, log, now, cur)
  BY <1>1, HeadSound
<1>4. Told(F, "RUN_STARTED") /\ \A k \in cur.todo : Late(log, now, k)
  BY <1>1, <1>3 DEF Sound
<1>5. Continue(t, jump \o Loop(rest))
  BY DEF Escalate
<1>6. rest \in Instr /\ IsLoop(rest) /\ rest.op = "flag" /\ rest.todo \subseteq cur.todo
  <2>1. rest \in FlagLoop /\ rest.op = "flag" /\ rest.todo \subseteq cur.todo
    BY <1>1 DEF FlagLoop
  <2> HIDE DEF rest
  <2> QED BY <2>1 DEF Instr, IsLoop
<1>7. i \in cur.todo
  OBVIOUS
<1> HIDE DEF F, cur, rest, s
<1>8. Loops(F, log, now, Loop(rest))
  <2>1. Sound(F, log, now, rest)
    BY <1>4, <1>6 DEF Sound
  <2> QED BY <1>6, <2>1, LoopsOne
<1>9. Acts(F, log, now, jump)
  <2>1. CASE s \in Steps
    <3>1. EscalatedBy(log, now, s)
      BY <1>2, <1>4, <1>7 DEF EscalatedBy, s
    <3>2. Acts(F, log, now, scheduleStep(s) \o <<GetRunAndDispatch>>)
      BY <1>4, <2>1, <3>1, DispatchActs, scheduleStepActs
    <3> QED BY <3>2, EmptySound
  <2>2. CASE s = NoStep
    BY <2>2, EmptySound
  <2> QED BY <1>2, <2>1, <2>2
<1> HIDE DEF jump
<1>10. SoundWork(F, log, now, jump \o Loop(rest))
  BY <1>8, <1>9, WorkMake
<1> QED BY <1>2, <1>4, <1>5, <1>7, <1>10 DEF F

LEMMA FlagConforms ==
    ASSUME LegalInv, TypeOK', NEW t \in Threads, Flag(t) \/ FlagFails(t)
    PROVE  Conforms
<1>1. At(t, "flag") /\ UNCHANGED <<queue, now>>
  BY DEF Flag, FlagFails, DbError
<1>2. PICK i \in Head(work[t]).todo :
        Escalate(t, i) /\ (Record(Breached(i)) \/ UNCHANGED <<log, run>>)
  BY DEF Flag, FlagFails
<1>3. Late(log, now, i) /\ Told(Facts(log), "RUN_STARTED") /\ i \in Nat
  BY <1>1, <1>2, EscalateSound
<1>4. PICK more : Continue(t, more) /\ SoundWork(Facts(log), log, now, more)
  BY <1>1, <1>2, EscalateSound
<1>5. Noted
  <2>1. Breached(i) \in Event
    BY <1>3, BreachedType
  <2>2. Breached(i).type = "SLA_BREACHED" /\ Breached(i).index = i
    BY DEF Breached, RunEvent, StepEvent
  <2>3. Warranted(Facts(log), log, now, Breached(i))
    BY <1>3, <2>2 DEF Warranted
  <2> QED BY <1>1, <1>2, <2>1, <2>2, <2>3 DEF Noted
<1>6. now <= now' /\ Submitted
  BY <1>1, RunIsSound DEF Submitted
<1>7. work[t] # <<>> /\ Head(work[t]).op # "append"
  BY <1>1 DEF At
<1> QED BY <1>4, <1>5, <1>6, <1>7, ContinueSound DEF Conforms

LEMMA ReadFailsConforms ==
    ASSUME LegalInv, TypeOK', NEW t \in Threads, ReadFails(t)
    PROVE  Conforms
<1>1. /\ work[t] # <<>> /\ Head(work[t]).op # "append" /\ Continue(t, <<>>)
      /\ UNCHANGED <<log, run, queue, now>>
  BY DEF ReadFails, At, DbError
<1>2. SoundWork(Facts(log), log, now, <<>>)
  BY EmptySound, WorkMake
<1> QED BY <1>1, <1>2, SilentContinues

LEMMA ScanStepConforms ==
    ASSUME LegalInv, TypeOK', NEW t \in Threads, ScanStep(t)
    PROVE  Conforms
<1> DEFINE F == Facts(log)
           cur == Head(work[t])
           rest(item) == [cur EXCEPT !.todo = @ \ {item}]
<1>1. /\ work[t] # <<>> /\ cur \in ScanLoop /\ cur.failed \in BOOLEAN /\ cur.op = "scan"
      /\ UNCHANGED <<log, run, now>>
  BY RunIsSound, HeadType DEF ScanStep, ScanLoop, At
<1>2. \A item \in cur.todo : item.step \in Steps /\ item.due \in Nat \union {NoTime}
  BY <1>1 DEF ScanLoop
<1>3. /\ cur.failed => Fails(F)
      /\ \A item \in cur.todo :
            \/ Begun(F, item.step)
            \/ Kind[item.step] = "delay" /\ item.due # NoTime /\ Elapsed(log, item.due, item.step)
  BY <1>1, HeadSound DEF Sound
<1>4. ASSUME NEW item PROVE Loops(F, log, now, Loop(rest(item)))
  <2> DEFINE i == rest(item)
  <2>1. i \in ScanLoop /\ i.op = "scan" /\ i.todo \subseteq cur.todo /\ i.failed = cur.failed
    BY <1>1 DEF ScanLoop
  <2> HIDE DEF i, cur, F
  <2>2. i \in Instr /\ IsLoop(i)
    BY <2>1 DEF Instr, IsLoop
  <2>3. Sound(F, log, now, i)
    BY <1>3, <2>1 DEF Sound
  <2> QED BY <2>2, <2>3, LoopsOne DEF i
<1>5. ASSUME NEW item \in cur.todo, item.due <= now, Kind[item.step] = "delay"
      PROVE  Acts(F, log, now, fireTimer(cur.failed, item.step))
  <2>1. item.due # NoTime /\ Elapsed(log, item.due, item.step)
    BY <1>3, <1>5 DEF Begun
  <2>2. item.due \in Int /\ now \in Int /\ log \in SUBSET Event
    BY <1>2, <2>1, RunIsSound DEF NoTime
  <2>3. Elapsed(log, now, item.step) /\ item.step \in Steps
    BY <1>2, <1>5, <2>1, <2>2, TimeGrows
  <2>4. Told(F, "RUN_STARTED")
    BY <2>1, RunIsSound, StartedBefore
  <2> HIDE DEF cur, F
  <2> QED BY <1>1, <1>3, <1>5, <2>3, <2>4, fireTimerActs
<1>6. \/ Continue(t, <<>>) /\ UNCHANGED queue
      \/ \E item \in cur.todo : Continue(t, Loop(rest(item))) /\ UNCHANGED queue
      \/ \E item \in cur.todo : /\ Continue(t, Loop(rest(item))) /\ Kind[item.step] = "task"
                                /\ queue' = queue \o <<item.step>>
      \/ \E item \in cur.todo : /\ item.due <= now /\ Kind[item.step] = "delay"
                                /\ Continue(t, fireTimer(cur.failed, item.step) \o Loop(rest(item)))
                                /\ UNCHANGED queue
  BY DEF ScanStep
<1> HIDE DEF cur, rest, F
<1>7. cur.op # "append"
  BY <1>1
<1>8. CASE Continue(t, <<>>) /\ UNCHANGED queue
  BY <1>1, <1>7, <1>8, EmptySound, WorkMake, SilentContinues DEF cur
<1>9. ASSUME NEW item \in cur.todo, Continue(t, Loop(rest(item))), UNCHANGED queue
      PROVE  Conforms
  <2>1. SoundWork(F, log, now, Loop(rest(item)))
    BY <1>4, EmptySound, WorkMake
  <2> QED BY <1>1, <1>7, <1>9, <2>1, SilentContinues DEF cur, F
<1>10. ASSUME NEW item \in cur.todo, Continue(t, Loop(rest(item))), Kind[item.step] = "task",
              queue' = queue \o <<item.step>>
       PROVE  Conforms
  <2>1. SoundWork(F, log, now, Loop(rest(item)))
    BY <1>4, EmptySound, WorkMake
  <2>2. Noted /\ now <= now'
    BY <1>1, RunIsSound DEF Noted
  <2>3. Begun(F, item.step) /\ item.step \in Steps
    BY <1>2, <1>3, <1>10
  <2>4. Submitted
    <3>1. queue \in Seq(Steps) /\ Len(queue) \in Nat
      BY RunIsSound, LenProperties DEF TypeOK
    <3>2. /\ Len(queue') = Len(queue) + 1 /\ queue'[Len(queue) + 1] = item.step
          /\ \A n \in 1 .. Len(queue) : queue'[n] = queue[n]
      BY <1>10, <2>3, <3>1
    <3>3. \A n \in 1 .. Len(queue) : Begun(F, queue[n])
      BY RunIsSound DEF F
    <3>4. ASSUME NEW n \in 1 .. Len(queue') PROVE Begun(F, queue'[n])
      <4>1. n \in 1 .. Len(queue) \/ n = Len(queue) + 1
        BY <3>1, <3>2
      <4> QED BY <2>3, <3>2, <3>3, <4>1
    <3> QED BY <3>4 DEF Submitted, F
  <2> QED BY <1>1, <1>7, <1>10, <2>1, <2>2, <2>4, ContinueSound DEF Conforms, cur, F
<1>11. ASSUME NEW item \in cur.todo, item.due <= now, Kind[item.step] = "delay", UNCHANGED queue,
              Continue(t, fireTimer(cur.failed, item.step) \o Loop(rest(item)))
       PROVE  Conforms
  <2>1. SoundWork(F, log, now, fireTimer(cur.failed, item.step) \o Loop(rest(item)))
    BY <1>4, <1>5, <1>11, WorkMake
  <2> QED BY <1>1, <1>7, <1>11, <2>1, SilentContinues DEF cur, F
<1> QED BY <1>6, <1>8, <1>9, <1>10, <1>11

LEMMA ApprovalStepConforms ==
    ASSUME LegalInv, TypeOK', NEW t \in Threads, ApprovalStep(t)
    PROVE  Conforms
<1> DEFINE F == Facts(log)
           cur == Head(work[t])
<1>1. /\ work[t] # <<>> /\ cur \in ApprovalsLoop /\ cur.failed \in BOOLEAN /\ cur.op = "approvals"
      /\ UNCHANGED <<log, run, queue, now>>
  BY RunIsSound, HeadType DEF ApprovalStep, ApprovalsLoop, At
<1>2. PICK item \in cur.todo :
        Continue(t, advanceApproval(cur.failed, item.step, item.index)
                    \o Loop([cur EXCEPT !.todo = @ \ {item}]))
  BY DEF ApprovalStep
<1> DEFINE rest == [cur EXCEPT !.todo = @ \ {item}]
<1>3. item.step \in Steps /\ item.index \in Nat
  BY <1>1 DEF ApprovalsLoop
<1>4. /\ cur.failed => Fails(F)
      /\ \A x \in cur.todo : /\ Kind[x.step] = "approval" /\ ToldFor(F, "APPROVAL_GRANTED", x.step)
                             /\ ToldLink(F, x.step, x.index)
  BY <1>1, HeadSound DEF Sound
<1>5. /\ rest \in ApprovalsLoop /\ rest.op = "approvals" /\ rest.todo \subseteq cur.todo
      /\ rest.failed = cur.failed
  BY <1>1 DEF ApprovalsLoop
<1>6. Told(F, "RUN_STARTED")
  BY <1>4, RunIsSound, StartedBefore
<1> HIDE DEF cur, rest, F
<1>7. Loops(F, log, now, Loop(rest))
  <2>1. rest \in Instr /\ IsLoop(rest)
    BY <1>5 DEF Instr, IsLoop
  <2>2. Sound(F, log, now, rest)
    BY <1>4, <1>5 DEF Sound
  <2> QED BY <2>1, <2>2, LoopsOne
<1>8. Acts(F, log, now, advanceApproval(cur.failed, item.step, item.index))
  BY <1>1, <1>3, <1>4, <1>6, advanceApprovalActs
<1>9. SoundWork(F, log, now, advanceApproval(cur.failed, item.step, item.index) \o Loop(rest))
  BY <1>7, <1>8, WorkMake
<1>10. cur.op # "append"
  BY <1>1
<1> QED BY <1>1, <1>2, <1>9, <1>10, SilentContinues DEF cur, rest, F

LEMMA GrantedConforms ==
    ASSUME LegalInv, TypeOK', NEW t \in Threads, Granted(t)
    PROVE  Conforms
<1> DEFINE F == Facts(log)
           s == Head(work[t]).step
           st == run.steps[s]
           adv == IF st.approval # "granted" THEN <<>> ELSE advanceApproval(run.failed, s, st.index)
<1>1. /\ work[t] # <<>> /\ s \in Steps /\ Head(work[t]).op # "append"
      /\ UNCHANGED <<log, run, queue, now>> /\ Continue(t, adv \o dispatchAfter(run))
  BY RunIsSound, HeadType DEF Granted, At
<1>2. SoundStep(F, log, st, s) /\ st.index \in Nat
  BY <1>1, RunIsSound DEF Run, StepState
<1> HIDE DEF F, s, st
<1>3. Acts(F, log, now, adv)
  <2>1. CASE st.approval = "granted"
    <3>1. ToldFor(F, "APPROVAL_REQUESTED", s) /\ ToldFor(F, "APPROVAL_GRANTED", s)
          /\ ToldLink(F, s, st.index)
      BY <1>2, <2>1 DEF SoundStep
    <3>2. Kind[s] = "approval"
      <4>1. PICK x \in log : x.type = "APPROVAL_REQUESTED" /\ x.step = s
        BY <3>1, FactsOfLog DEF F
      <4>2. Warranted(F, log, now, x)
        BY <4>1, RunIsSound DEF SoundLog, F
      <4> QED BY <4>1, <4>2 DEF Warranted
    <3>3. Told(F, "RUN_STARTED")
      BY <3>1, RunIsSound, StartedBefore DEF F
    <3>4. run.failed \in BOOLEAN /\ (run.failed => Fails(F))
      BY RunIsSound DEF F
    <3> QED BY <1>1, <1>2, <2>1, <3>1, <3>2, <3>3, <3>4, advanceApprovalActs
  <2>2. CASE st.approval # "granted"
    BY <2>2, EmptySound
  <2> QED BY <2>1, <2>2
<1>4. Loops(F, log, now, dispatchAfter(run))
  BY RunIsSound, dispatchAfterWork DEF F
<1> HIDE DEF adv
<1>5. SoundWork(F, log, now, adv \o dispatchAfter(run))
  BY <1>3, <1>4, WorkMake
<1> QED BY <1>1, <1>5, SilentContinues DEF F

\* What may be executed was reached, or scheduled for a reason.
LEMMA BegunLeads ==
    ASSUME NEW L \in SUBSET Event, NEW t, SoundLog(L, t), NEW s, Begun(Facts(L), s)
    PROVE  /\ Told(Facts(L), "RUN_STARTED")
           /\ ReachedBy(Facts(L), s) \/ RetriedBy(Facts(L), s) \/ EscalatedBy(L, t, s)
<1>1. ReachedBy(Facts(L), s) \/ \E x \in L : x.type = "STEP_SCHEDULED" /\ x.step = s
  BY FactsOfLog DEF Begun
<1>2. ASSUME NEW x \in L, x.type = "STEP_SCHEDULED", x.step = s
      PROVE  ReachedBy(Facts(L), s) \/ RetriedBy(Facts(L), s) \/ EscalatedBy(L, t, s)
  <2>1. Warranted(Facts(L), L, t, x)
    BY <1>2 DEF SoundLog
  <2> QED BY <1>2, <2>1 DEF Warranted
<1> QED BY <1>1, <1>2, StartedBefore

LEMMA HandlerConforms ==
    ASSUME LegalInv, TypeOK', NEW t \in Threads, Handler(t)
    PROVE  Conforms
<1> DEFINE F == Facts(log)
           h == Head(work[t])
           s == h.step
<1>1. /\ work[t] # <<>> /\ h.op = "handler" /\ s \in Steps /\ h.failed \in BOOLEAN
      /\ UNCHANGED <<log, run, queue, now>>
  BY RunIsSound, HeadType DEF Handler, At
<1>2. ToldFor(F, "STEP_STARTED", s) /\ Begun(F, s) /\ (h.failed => Fails(F))
  BY <1>1, HeadSound DEF Sound
<1>3. /\ Told(F, "RUN_STARTED")
      /\ ReachedBy(F, s) \/ RetriedBy(F, s) \/ EscalatedBy(log, now, s)
  BY <1>2, RunIsSound, BegunLeads
<1>4. \/ Continue(t, <<append(StepEvent("STEP_COMPLETED", s))>> \o advance(h.failed, s, TRUE))
      \/ Continue(t, handleTaskFailure(run, s))
  BY DEF Handler
<1>5. Kind[s] = "task" /\ Ends(Kind[s]) = "STEP_STARTED"
  BY <1>2 DEF Begun, Ends
<1>6. run.failed => Fails(F)
  BY RunIsSound
<1> HIDE DEF F, h, s
<1>7. SoundWork(F, log, now,
                <<append(StepEvent("STEP_COMPLETED", s))>> \o advance(h.failed, s, TRUE))
  BY <1>1, <1>2, <1>3, <1>5, CompleteActs, EmptySound, WorkMake
<1>8. SoundWork(F, log, now, handleTaskFailure(run, s))
  BY <1>1, <1>2, <1>3, <1>6, RunIsSound, handleTaskFailureActs, EmptySound, WorkMake
<1>9. h.op # "append"
  BY <1>1
<1> QED BY <1>1, <1>4, <1>7, <1>8, <1>9, SilentContinues DEF F, h

LEMMA RefreshFailsConforms ==
    ASSUME LegalInv, TypeOK', NEW w \in Workers, RefreshFails(w)
    PROVE  Conforms
<1> DEFINE F == Facts(log)
           h == Head(work[w])
           s == h.step
           stale == [run EXCEPT !.failed = h.failed, !.steps[h.step].attempt = h.attempt]
<1>1. /\ w \in Threads /\ work[w] # <<>> /\ h.op = "handler" /\ s \in Steps
      /\ h.failed \in BOOLEAN /\ h.attempt \in 0 .. AttemptCap
      /\ UNCHANGED <<log, run, queue, now>>
  BY RunIsSound, HeadType, ThreadsMembers DEF RefreshFails, At, DbError
<1>2. ToldFor(F, "STEP_STARTED", s) /\ Begun(F, s) /\ (h.failed => Fails(F))
  BY <1>1, HeadSound DEF Sound
<1>3. /\ Told(F, "RUN_STARTED")
      /\ ReachedBy(F, s) \/ RetriedBy(F, s) \/ EscalatedBy(log, now, s)
  BY <1>2, RunIsSound, BegunLeads
<1>4. Continue(w, handleTaskFailure(stale, s))
  BY DEF RefreshFails
<1> HIDE DEF F, h
<1>5. stale \in Run /\ stale.failed = h.failed
  <2> DEFINE q == [run EXCEPT !.failed = h.failed]
             st == [q.steps[s] EXCEPT !.attempt = h.attempt]
             x == [q EXCEPT !.steps = [q.steps EXCEPT ![s] = st]]
  <2>1. run \in Run
    BY RunIsSound
  <2>2. q \in Run /\ q.failed = h.failed
    BY <1>1, <2>1 DEF Run
  <2>3. stale = x
    OBVIOUS
  <2> HIDE DEF q, s
  <2>4. st \in StepState
    BY <1>1, <2>2 DEF Run, StepState
  <2> HIDE DEF st
  <2>5. [q.steps EXCEPT ![s] = st] \in [Steps -> StepState]
    BY <1>1, <2>2, <2>4 DEF Run
  <2>6. x \in Run /\ x.failed = h.failed
    BY <2>2, <2>5 DEF Run
  <2> HIDE DEF x
  <2> QED BY <2>3, <2>6
<1> HIDE DEF stale, s
<1>6. SoundWork(F, log, now, handleTaskFailure(stale, s))
  BY <1>1, <1>2, <1>3, <1>5, handleTaskFailureActs, EmptySound, WorkMake
<1>7. h.op # "append"
  BY <1>1
<1> QED BY <1>1, <1>4, <1>6, <1>7, SilentContinues DEF F, h

-----------------------------------------------------------------------------
\* The workers, the clients and the environment.

LEMMA QueueHead ==
    ASSUME TypeOK, queue # <<>>, NEW F, \A n \in 1 .. Len(queue) : Begun(F, queue[n]),
           queue' = Tail(queue)
    PROVE  /\ Head(queue) \in Steps /\ Begun(F, Head(queue))
           /\ \A n \in 1 .. Len(queue') : Begun(F, queue'[n])
<1>1. queue \in Seq(Steps) /\ Len(queue) \in Nat /\ Len(queue) > 0 /\ Head(queue) = queue[1]
  BY LenProperties, EmptySeq DEF TypeOK
<1>2. Len(queue') = Len(queue) - 1 /\ \A n \in 1 .. Len(queue') : queue'[n] = queue[n + 1]
  BY <1>1, HeadTailProperties
<1>3. ASSUME NEW n \in 1 .. Len(queue') PROVE Begun(F, queue'[n])
  BY <1>1, <1>2
<1> QED BY <1>1, <1>3

LEMMA executeTaskConforms ==
    ASSUME LegalInv, TypeOK', NEW w \in Workers, executeTask(w)
    PROVE  Conforms
<1> DEFINE F == Facts(log)
           s == Head(queue)
           e == StepEvent("STEP_STARTED", s)
           h == [op |-> "handler", step |-> s, failed |-> run.failed,
                 attempt |-> run.steps[s].attempt]
<1>1. queue # <<>> /\ queue' = Tail(queue) /\ UNCHANGED <<log, run, now>>
  BY DEF executeTask
<1>2. s \in Steps /\ Begun(F, s) /\ Submitted
  BY <1>1, RunIsSound, QueueHead DEF Submitted
<1>3. Told(F, "RUN_STARTED")
  BY <1>2, RunIsSound, BegunLeads
<1>4. run.failed \in BOOLEAN /\ (run.failed => Fails(F)) /\ run.steps[s].attempt \in 0 .. AttemptCap
  BY <1>2, RunIsSound DEF Run, StepState
<1>5. Noted /\ now <= now'
  BY <1>1, RunIsSound DEF Noted
<1>6. h \in Instr /\ ~IsLoop(h) /\ h.op = "handler" /\ h.step = s /\ h.failed = run.failed
  BY <1>2, <1>4 DEF Instr, IsLoop
<1>7. Begin(w, IF handlers THEN <<append(e), h>> ELSE failStep(run.failed, s))
  BY DEF executeTask
<1>8. e \in Event /\ e.type = "STEP_STARTED" /\ e.step = s
  BY <1>2, StepEventFields, EventTypesMembers
<1>9. "STEP_STARTED" \in EventTypes \ {"TICKET_CREATED"}
  BY EventTypesMembers
<1> HIDE DEF F, s, h
<1>10. ASSUME NEW G, F \subseteq G, ToldFor(G, "STEP_STARTED", s) PROVE Acts(G, log, now, <<h>>)
  <2>1. Begun(G, s) /\ (run.failed => Fails(G))
    BY <1>2, <1>4, <1>10, FactsGrow
  <2>2. Sound(G, log, now, h)
    BY <1>6, <1>10, <2>1 DEF Sound
  <2> QED BY <1>6, <2>2, ActsOne
<1>11. SoundWork(F, log, now, <<append(e), h>>)
  <2>1. Warranted(F, log, now, e)
    <3> HIDE DEF e
    <3> QED BY <1>2, <1>3, <1>8 DEF Warranted
  <2>2. Acts(F, log, now, <<append(e)>> \o <<h>>)
    BY <1>2, <1>9, <1>10, <2>1, ActsStepEvent
  <2>3. <<append(e)>> \o <<h>> = <<append(e), h>>
    BY ConcatOne
  <2> QED BY <2>2, <2>3, EmptySound, WorkMake
<1>12. SoundWork(F, log, now, failStep(run.failed, s))
  BY <1>2, <1>3, <1>4, failStepActs, EmptySound, WorkMake
<1> HIDE DEF e
<1>13. Assigned
  BY <1>5, <1>7, <1>11, <1>12, ThreadsMembers, BeginSound DEF F
<1> QED BY <1>2, <1>5, <1>13 DEF Conforms

LEMMA TaskLostConforms ==
    ASSUME LegalInv, TypeOK', NEW w \in Workers, TaskLost(w)
    PROVE  Conforms
<1>1. queue # <<>> /\ queue' = Tail(queue) /\ UNCHANGED <<log, run, now, work>>
  BY DEF TaskLost, DbError
<1>2. Submitted
  BY <1>1, RunIsSound, QueueHead DEF Submitted
<1> QED BY <1>1, <1>2, RunIsSound DEF Conforms, Noted, Assigned

LEMMA DisconnectConforms ==
    ASSUME LegalInv, TypeOK', NEW c \in Clients, Disconnect(c)
    PROVE  Conforms
<1> DEFINE todo == [n \in 1 .. Len(work[c]) |-> Survivor(work[c][n])]
<1>1. Begin(c, todo) /\ c \in Threads /\ UNCHANGED <<log, run, queue, now>>
  BY ThreadsMembers DEF Disconnect, Begin
<1>2. SoundWork(Facts(log), log, now, work[c])
  BY <1>1 DEF LegalInv
<1>3. Loops(Facts(log), log, now, todo)
  BY <1>2, SurvivorWork
<1> HIDE DEF todo
<1>4. SoundWork(Facts(log), log, now, todo)
  BY <1>3, EmptySound, WorkMake
<1> QED BY <1>1, <1>4, SilentBegins

LEMMA EnvironmentConforms ==
    ASSUME LegalInv, TypeOK', Tick \/ RegisterTasks \/ Crash \/ UNCHANGED vars
    PROVE  Conforms
<1>1. UNCHANGED <<log, run>> /\ now <= now'
  BY RunIsSound DEF Tick, RegisterTasks, Crash, vars, TypeOK
<1>2. CASE UNCHANGED <<work, queue>>
  BY <1>1, <1>2, RunIsSound DEF Conforms, Noted, Assigned, Submitted
<1>3. CASE Crash
  <2>1. work' = [t \in Threads |-> <<>>] /\ Len(queue') = 0
    BY <1>3 DEF Crash
  <2> QED BY <1>1, <2>1 DEF Conforms, Noted, Assigned, Submitted
<1> QED BY <1>2, <1>3 DEF Tick, RegisterTasks, vars

\* The run is started after its ticket is on record, and its first step is scheduled next.
LEMMA CreateTicketConforms ==
    ASSUME LegalInv, TypeOK', NEW c \in Clients, CreateTicket(c)
    PROVE  Conforms
<1> DEFINE d == RunEvent("TICKET_CREATED")
           e == RunEvent("RUN_STARTED")
           a == RunEvent("TICKET_ASSIGNED")
           more == scheduleStep(Initial) \o <<append(a), GetRunAndDispatch>>
           todo == <<append(e)>> \o scheduleStep(Initial) \o <<append(a), GetRunAndDispatch>>
           F == Facts(log')
<1>1. /\ d \in Event /\ e \in Event /\ a \in Event
      /\ d.type = "TICKET_CREATED" /\ e.type = "RUN_STARTED" /\ a.type = "TICKET_ASSIGNED"
  BY StepEventFields, EventTypesMembers DEF RunEvent
<1>2. /\ log = {} /\ Record(d) /\ Begin(c, todo) /\ UNCHANGED <<queue, now>> /\ c \in Threads
  BY ThreadsMembers DEF CreateTicket
<1> HIDE DEF d, e, a
<1>3. Noted
  <2>1. Warranted(Facts(log), log, now, d)
    BY <1>1, <1>2 DEF Warranted
  <2> QED BY <1>1, <1>2, <2>1 DEF Noted
<1>4. log' # {}
  BY <1>2 DEF Record
<1> HIDE DEF F
<1>5. ASSUME NEW G, ToldFor(G, "STEP_SCHEDULED", Initial), Told(G, "RUN_STARTED")
      PROVE  Acts(G, log', now, <<append(a), GetRunAndDispatch>>)
  <2>1. Warranted(G, log', now, a)
    BY <1>1, <1>5 DEF Warranted
  <2>2. Acts(G, log', now, <<append(a)>> \o <<GetRunAndDispatch>>)
    BY <1>1, <2>1, DispatchActs, ActsCons
  <2>3. <<append(a)>> \o <<GetRunAndDispatch>> = <<append(a), GetRunAndDispatch>>
    BY ConcatOne
  <2> QED BY <2>2, <2>3
<1>6. Acts(F, log', now, <<append(e)>> \o more)
  <2> DEFINE G == F \union {Fact(e)}
  <2>1. Told(G, "RUN_STARTED")
    BY <1>1, FactAdded
  <2>2. Warranted(F, log', now, e)
    BY <1>1, <1>4 DEF Warranted
  <2> HIDE DEF G
  <2>3. Initial \in Steps /\ ReachedBy(G, Initial)
    BY <2>1, WorkflowAssumption DEF ReachedBy
  <2>4. \A H : G \subseteq H /\ ToldFor(H, "STEP_SCHEDULED", Initial)
                  => Acts(H, log', now, <<append(a), GetRunAndDispatch>>)
    BY <1>5, <2>1, FactsGrow
  <2>5. Acts(G, log', now, more)
    BY <2>1, <2>3, <2>4, scheduleStepActs
  <2> HIDE DEF more
  <2> QED BY <1>1, <2>2, <2>5, ActsCons DEF G
<1>7. todo = <<append(e)>> \o more
  <2>1. /\ <<append(e)>> \in Seq(Instr) /\ scheduleStep(Initial) \in Seq(Instr)
        /\ <<append(a), GetRunAndDispatch>> \in Seq(Instr)
    <3>1. append(e) \in Instr /\ append(a) \in Instr /\ GetRunAndDispatch \in Instr
      BY <1>1, AppendEntry, DispatchInstr DEF Later
    <3> QED BY <3>1, scheduleStepType, LaterSeq, WorkflowAssumption
  <2> QED BY <2>1, ConcatAssociative
<1> HIDE DEF todo, more
<1>8. SoundWork(F, log', now', todo)
  BY <1>2, <1>6, <1>7, EmptySound, WorkMake
<1>9. Submitted /\ now <= now'
  BY <1>2, RunIsSound DEF Submitted
<1> QED BY <1>2, <1>3, <1>8, <1>9 DEF Conforms, Assigned, F

LEMMA CancelConforms ==
    ASSUME LegalInv, TypeOK', NEW c \in Clients, Cancel(c)
    PROVE  Conforms
<1> DEFINE e == RunEvent("RUN_CANCELLED")
<1>1. /\ log # {} /\ Begin(c, <<append(e)>>) /\ c \in Threads /\ UNCHANGED <<log, run, queue, now>>
  BY ThreadsMembers DEF Cancel
<1>2. e \in Event /\ e.type = "RUN_CANCELLED"
  BY StepEventFields, EventTypesMembers DEF RunEvent
<1> HIDE DEF e
<1>3. Sound(Facts(log), log, now, append(e)) /\ ~IsLoop(append(e)) /\ append(e) \in Instr
  BY <1>1, <1>2, AppendEntry DEF Sound, IsLoop, Warranted
<1>4. SoundWork(Facts(log), log, now, <<append(e)>>)
  BY <1>3, ActsOne, EmptySound, WorkMake
<1> QED BY <1>1, <1>4, SilentBegins

\* A decision is taken on a link that was requested, by somebody it may be taken by.
LEMMA DecideConforms ==
    ASSUME LegalInv, TypeOK', NEW c \in Clients, NEW s \in Steps, NEW by \in People,
           Approve(c, s, by) \/ Reject(c, s, by)
    PROVE  Conforms
<1> DEFINE F == Facts(log)
           i == run.steps[s].index
           e(type) == Decided(type, s, i, by)
           g == [op |-> "granted", step |-> s]
           b == StepEvent("RUN_FAILED", s)
           DecisionTypes == {"APPROVAL_GRANTED", "APPROVAL_REJECTED"}
<1>1. /\ run.steps[s].approval = "pending" /\ Authorized(s, i, by) /\ c \in Threads
      /\ UNCHANGED <<log, run, queue, now>>
  BY ThreadsMembers DEF Approve, Reject, MayDecide
<1>2. \/ Begin(c, <<append(e("APPROVAL_GRANTED")), g>>)
      \/ Begin(c, <<append(e("APPROVAL_REJECTED")), append(b)>>)
  BY DEF Approve, Reject
<1>3. i \in Nat /\ SoundStep(F, log, run.steps[s], s)
  BY RunIsSound DEF Run, StepState
<1>4. ToldLink(F, s, i) /\ ToldFor(F, "APPROVAL_REQUESTED", s)
  BY <1>1, <1>3 DEF SoundStep
<1>5. Told(F, "RUN_STARTED")
  BY <1>4, RunIsSound, StartedBefore
<1>6. ASSUME NEW type \in DecisionTypes
      PROVE  /\ e(type) \in Event /\ e(type).type = type /\ e(type).step = s
             /\ e(type).index = i /\ e(type).by = by
  <2>1. StepEvent(type, s) \in Event /\ StepEvent(type, s).type = type
        /\ StepEvent(type, s).step = s
    BY <1>6, StepEventFields, EventTypesMembers
  <2>2. e(type) = [StepEvent(type, s) EXCEPT !.index = i, !.by = by]
    BY DEF Decided
  <2> HIDE DEF i, e
  <2> QED BY <1>3, <2>1, <2>2 DEF Event
<1>7. /\ b \in Event /\ b.type = "RUN_FAILED" /\ b.step = s
      /\ g \in Instr /\ g.op = "granted" /\ ~IsLoop(g)
  BY StepEventFields, EventTypesMembers DEF Instr, IsLoop
<1> HIDE DEF F, i, e, g, b
<1>8. ASSUME NEW type \in DecisionTypes PROVE Warranted(F, log, now, e(type))
  BY <1>1, <1>4, <1>5, <1>6, <1>8 DEF Warranted
<1>9. SoundWork(F, log, now, <<append(e("APPROVAL_GRANTED")), g>>)
  <2> DEFINE d == e("APPROVAL_GRANTED")
  <2>1. d \in Event /\ d.type # "TICKET_CREATED" /\ Warranted(F, log, now, d)
    BY <1>6, <1>8
  <2> HIDE DEF d
  <2>2. Acts(F \union {Fact(d)}, log, now, <<g>>)
    BY <1>7, ActsOne DEF Sound
  <2>3. Acts(F, log, now, <<append(d)>> \o <<g>>)
    BY <2>1, <2>2, ActsCons
  <2>4. <<append(d)>> \o <<g>> = <<append(d), g>>
    BY ConcatOne
  <2> QED BY <2>3, <2>4, EmptySound, WorkMake DEF d
<1>10. SoundWork(F, log, now, <<append(e("APPROVAL_REJECTED")), append(b)>>)
  <2> DEFINE d == e("APPROVAL_REJECTED")
             G == F \union {Fact(d)}
  <2>1. d \in Event /\ d.type = "APPROVAL_REJECTED" /\ Warranted(F, log, now, d)
    BY <1>6, <1>8
  <2> HIDE DEF d
  <2>2. Told(G, "APPROVAL_REJECTED") /\ Told(G, "RUN_STARTED")
    BY <1>5, <2>1, FactAdded, FactsGrow
  <2> HIDE DEF G
  <2>3. Warranted(G, log, now, b)
    BY <1>7, <2>2 DEF Warranted, Fails
  <2>4. append(b) \in Instr /\ ~IsLoop(append(b)) /\ Sound(G, log, now, append(b))
    BY <1>7, <2>3, AppendEntry DEF Sound, IsLoop
  <2>5. Acts(G, log, now, <<append(b)>>)
    BY <2>4, ActsOne
  <2>6. Acts(F, log, now, <<append(d)>> \o <<append(b)>>)
    BY <2>1, <2>5, ActsCons DEF G
  <2>7. <<append(d)>> \o <<append(b)>> = <<append(d), append(b)>>
    BY ConcatOne
  <2> QED BY <2>6, <2>7, EmptySound, WorkMake DEF d
<1> QED BY <1>1, <1>2, <1>9, <1>10, SilentBegins DEF F

-----------------------------------------------------------------------------
LEMMA NextConforms ==
    ASSUME LegalInv, TypeOK', [Next]_vars
    PROVE  Conforms
<1>1. ASSUME NEW t \in Threads, Proceed(t) PROVE Conforms
  BY <1>1, AppendConforms, DispatchConforms, CheckSLAConforms, FlagConforms, ScanStepConforms,
     ApprovalStepConforms, GrantedConforms, HandlerConforms DEF Proceed
<1>2. ASSUME NEW t \in Threads, AppendFails(t) \/ FlagFails(t) \/ ReadFails(t) PROVE Conforms
  BY <1>2, AppendConforms, FlagConforms, ReadFailsConforms
<1>3. ASSUME NEW c \in Clients, Call(c) \/ Disconnect(c) PROVE Conforms
  <2>1. CASE Recover(c)
    BY <2>1, RecoverConforms, ThreadsMembers DEF Recover
  <2>2. ASSUME NEW s \in Steps, NEW by \in People, Decide(c, s, by) PROVE Conforms
    BY <2>2, DecideConforms DEF Decide
  <2> QED BY <1>3, <2>1, <2>2, CreateTicketConforms, CancelConforms, DisconnectConforms DEF Call
<1>4. ASSUME NEW w \in Workers, executeTask(w) \/ TaskLost(w) \/ RefreshFails(w) PROVE Conforms
  BY <1>4, executeTaskConforms, TaskLostConforms, RefreshFailsConforms
<1>5. CASE sweep
  BY <1>5, RecoverConforms, ThreadsMembers DEF sweep
<1>6. CASE Tick \/ RegisterTasks \/ Crash \/ UNCHANGED vars
  BY <1>6, EnvironmentConforms
<1> QED BY <1>1, <1>2, <1>3, <1>4, <1>5, <1>6 DEF Next

LEMMA LegalInvInit == Init => LegalInv
<1> SUFFICES ASSUME Init PROVE LegalInv
  OBVIOUS
<1>1. HistoryInv
  BY HistoryInvInit
<1>2. log = {} /\ run = NewRun /\ queue = <<>> /\ Facts(log) = {}
  BY DEF Init, Facts
<1>3. SoundLog(log, now)
  BY <1>2 DEF SoundLog
<1>4. SoundRun(Facts(log), log, run)
  <2>1. ASSUME NEW s \in Steps PROVE SoundStep({}, {}, NewStep, s)
    BY DEF SoundStep, NewStep, ToldFor
  <2> QED BY <1>2, <2>1 DEF SoundRun, NewRun
<1>5. \A t \in Threads : SoundWork(Facts(log), log, now, work[t])
  BY EmptySound, WorkMake DEF Init
<1>6. \A n \in 1 .. Len(queue) : Begun(Facts(log), queue[n])
  BY <1>2
<1> QED BY <1>1, <1>3, <1>4, <1>5, <1>6 DEF LegalInv

LEMMA LegalInvNext == LegalInv /\ [Next]_vars => LegalInv' /\ [Legal!HistoryNext]_log
<1> SUFFICES ASSUME LegalInv, [Next]_vars PROVE LegalInv' /\ [Legal!HistoryNext]_log
  OBVIOUS
<1>1. HistoryInv'
  BY HistoryInvNext DEF LegalInv
<1>2. Conforms
  BY <1>1, NextConforms DEF HistoryInv
<1> QED BY <1>1, <1>2, ConformsKeeps

\* In every reachable state, what goroutines still have to append, what the task channel holds
\* and what the run says of its steps are justified by the events on record.
THEOREM LegalInvariance == Spec => []LegalInv
BY LegalInvInit, LegalInvNext, PTL DEF Spec

\* The engine implements RunHistory: whatever workers, timers, clients, crashes, cancelled
\* calls and failing accesses to the database do, it records an event only when the events on
\* record justify it under the workflow.
THEOREM FollowsWorkflowHolds == Spec => FollowsWorkflow
<1>1. Init => Legal!HistoryInit
  BY DEF Init, Legal!HistoryInit
<1> QED BY <1>1, LegalInvInit, LegalInvNext, PTL DEF Spec, FollowsWorkflow, Legal!HistorySpec
=============================================================================
