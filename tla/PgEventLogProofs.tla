-------------------------- MODULE PgEventLogProofs --------------------------
(***************************************************************************)
(* The Postgres event log is correct for any number of runs, sessions and  *)
(* events: its invariants hold, its history is append-only and it          *)
(* implements the in-memory reference log.                                 *)
(***************************************************************************)
EXTENDS PgEventLog, SequenceTheorems, TLAPS

\* Between Begin and the end of the transaction the caller has no answer yet.
NoEarlyAnswer == \A s \in Sessions : tx[s].phase # "idle" => tx[s].reply = "none"

\* The inductive invariant: the run-time invariants support each other, and
\* AckedIsDurable needs NoEarlyAnswer, since Reserve changes the number that the
\* answer would refer to.
IInv == TypeOK /\ NoGaps /\ Serialized /\ NoLeakedLock /\ AckedIsDurable /\ NoEarlyAnswer

LEMMA EndedType ==
    ASSUME NEW t \in Tx, NEW answer \in Replies
    PROVE  /\ Ended(t, answer) \in Tx
           /\ Ended(t, answer).phase = "idle"
           /\ Ended(t, answer).reply = answer
           /\ Ended(t, answer).run = t.run
           /\ Ended(t, answer).seq = t.seq
           /\ Ended(t, answer).payload = t.payload
BY DEF Ended, Tx, Phases

LEMMA InitIInv == Init => IInv
<1> SUFFICES ASSUME Init PROVE IInv
    OBVIOUS
<1>1. TypeOK
  BY DEF Init, TypeOK, Tx, Phases, Replies, Event
<1>2. NoGaps
  <2>1. DOMAIN <<>> = 1 .. 0
    OBVIOUS
  <2>2. \A r \in Runs : table[r] = <<>> /\ next[r] = 1
    BY DEF Init
  <2>3. 1 .. 0 = {} /\ 1 - 1 = 0
    OBVIOUS
  <2> QED BY <2>1, <2>2, <2>3 DEF NoGaps
<1>3. Serialized /\ NoLeakedLock /\ AckedIsDurable /\ NoEarlyAnswer
  BY DEF Init, Serialized, NoLeakedLock, AckedIsDurable, NoEarlyAnswer
<1> QED BY <1>1, <1>2, <1>3 DEF IInv

LEMMA BeginIInv ==
    ASSUME IInv, NEW s \in Sessions, NEW r \in Runs, NEW p \in Payloads, Begin(s, r, p)
    PROVE  IInv'
<1> USE DEF IInv
<1>1. TypeOK'
  BY DEF Begin, TypeOK, Tx, Phases, Replies
<1>2. NoGaps'
  BY DEF Begin, NoGaps
<1>3. Serialized' /\ NoLeakedLock' /\ AckedIsDurable' /\ NoEarlyAnswer'
  BY SessionAssumption
     DEF Begin, TypeOK, Tx, Serialized, NoLeakedLock, AckedIsDurable, NoEarlyAnswer, Row
<1> QED BY <1>1, <1>2, <1>3

LEMMA ReserveIInv ==
    ASSUME IInv, NEW s \in Sessions, Reserve(s)
    PROVE  IInv'
<1> USE DEF IInv
<1>1. TypeOK'
  <2>1. tx[s] \in Tx /\ tx[s].run \in Runs /\ next[tx[s].run] \in Nat
    BY DEF TypeOK, Tx
  <2>2. tx' \in [Sessions -> Tx]
    BY <2>1 DEF Reserve, TypeOK, Tx, Phases
  <2> QED BY <2>1, <2>2 DEF Reserve, TypeOK
<1>2. NoGaps'
  BY DEF Reserve, NoGaps
<1>3. Serialized' /\ NoLeakedLock'
  BY SessionAssumption DEF Reserve, TypeOK, Tx, Serialized, NoLeakedLock
<1>4. AckedIsDurable' /\ NoEarlyAnswer'
  BY DEF Reserve, TypeOK, Tx, AckedIsDurable, NoEarlyAnswer, Row
<1> QED BY <1>1, <1>2, <1>3, <1>4

LEMMA InsertIInv ==
    ASSUME IInv, NEW s \in Sessions, Insert(s)
    PROVE  IInv'
<1> USE DEF IInv
<1>1. TypeOK'
  <2>1. tx[s] \in Tx /\ tx[s].run \in Runs /\ next[tx[s].run] \in Nat
    BY DEF TypeOK, Tx
  <2>2. tx' \in [Sessions -> Tx]
    BY <2>1 DEF Insert, TypeOK, Tx, Phases
  <2> QED BY <2>1, <2>2 DEF Insert, TypeOK
<1>2. NoGaps'
  BY DEF Insert, NoGaps
<1>3. Serialized' /\ NoLeakedLock'
  BY SessionAssumption DEF Insert, TypeOK, Tx, Serialized, NoLeakedLock
<1>4. AckedIsDurable' /\ NoEarlyAnswer'
  BY DEF Insert, TypeOK, Tx, AckedIsDurable, NoEarlyAnswer, Row
<1> QED BY <1>1, <1>2, <1>3, <1>4

\* What a commit writes: one new row, directly after the last one.
LEMMA CommitWrites ==
    ASSUME IInv, NEW s \in Sessions, NEW answer \in Replies, Commit(s, answer)
    PROVE  /\ tx[s].run \in Runs
           /\ tx[s].seq = next[tx[s].run]
           /\ holder[tx[s].run] = s
           /\ Row(s) \in Event
           /\ DOMAIN table' = Runs
           /\ \A r \in Runs \ {tx[s].run} : table'[r] = table[r] /\ next'[r] = next[r]
           /\ next'[tx[s].run] = next[tx[s].run] + 1
           /\ table'[tx[s].run] =
                [i \in 1 .. next[tx[s].run] |->
                    IF i = next[tx[s].run] THEN Row(s) ELSE table[tx[s].run][i]]
<1>1. /\ tx[s].run \in Runs
      /\ tx[s].seq = next[tx[s].run]
      /\ holder[tx[s].run] = s
  BY DEF IInv, TypeOK, Tx, Commit, Serialized
<1>2. Row(s) \in Event
  BY <1>1 DEF IInv, TypeOK, Tx, Row, Event
<1>3. next[tx[s].run] \in Nat \ {0}
  BY <1>1 DEF IInv, TypeOK
<1>4. DOMAIN table[tx[s].run] \union {next[tx[s].run]} = 1 .. next[tx[s].run]
  BY <1>1, <1>3 DEF IInv, NoGaps
<1> QED BY <1>1, <1>2, <1>3, <1>4 DEF IInv, TypeOK, Commit

LEMMA CommitIInv ==
    ASSUME IInv, NEW s \in Sessions, NEW answer \in {"ok", "error"}, Commit(s, answer)
    PROVE  IInv'
<1> DEFINE r == tx[s].run
           q == next[r]
<1>1. answer \in Replies
  BY DEF Replies
<1>2. /\ r \in Runs /\ tx[s].seq = q /\ holder[r] = s /\ Row(s) \in Event
      /\ DOMAIN table' = Runs
      /\ \A x \in Runs \ {r} : table'[x] = table[x] /\ next'[x] = next[x]
      /\ next'[r] = q + 1
      /\ table'[r] = [i \in 1 .. q |-> IF i = q THEN Row(s) ELSE table[r][i]]
  BY <1>1, CommitWrites
<1>3. q \in Nat \ {0} /\ DOMAIN table[r] = 1 .. (q - 1)
  BY <1>2 DEF IInv, TypeOK, NoGaps
<1>4. Row(s).seq = q
  BY <1>2 DEF Row
<1> HIDE DEF r, q
<1>5. TypeOK'
  <2>1. next' \in [Runs -> Nat \ {0}]
    BY <1>2, <1>3 DEF IInv, TypeOK, Commit
  <2>4. tx' \in [Sessions -> Tx]
    BY <1>1, EndedType DEF IInv, TypeOK, Commit, Answer
  <2>2. holder' \in [Runs -> Sessions \union {NoSession}]
    BY DEF IInv, TypeOK, Commit, Release
  <2>3. ASSUME NEW x \in Runs
        PROVE  DOMAIN table'[x] \subseteq Nat \ {0} /\ table'[x] \in [DOMAIN table'[x] -> Event]
    <3>1. CASE x = r
      <4>1. DOMAIN table'[x] = 1 .. q /\ 1 .. q \subseteq Nat \ {0}
        BY <1>2, <1>3, <3>1
      <4>2. \A i \in 1 .. q : i = q \/ i \in 1 .. (q - 1)
        BY <1>3
      <4>3. \A i \in 1 .. (q - 1) : table[r][i] \in Event
        BY <1>2, <1>3 DEF IInv, TypeOK
      <4> QED BY <1>2, <3>1, <4>1, <4>2, <4>3
    <3>2. CASE x # r
      BY <1>2, <3>2 DEF IInv, TypeOK
    <3> QED BY <3>1, <3>2
  <2> QED BY <1>2, <2>1, <2>2, <2>3, <2>4 DEF TypeOK
<1>6. NoGaps'
  <2>1. DOMAIN table'[r] = 1 .. (next'[r] - 1)
    BY <1>2, <1>3
  <2>2. \A i \in DOMAIN table'[r] : table'[r][i].seq = i
    BY <1>2, <1>3, <1>4 DEF IInv, NoGaps
  <2> QED BY <1>2, <2>1, <2>2 DEF IInv, NoGaps
<1>7. Serialized' /\ NoLeakedLock'
  <2>1. \A x \in Sessions \ {s} : tx'[x] = tx[x]
    BY DEF Commit, Answer, IInv, TypeOK
  <2>2. tx'[s].phase = "idle"
    BY <1>1, EndedType DEF Commit, Answer, IInv, TypeOK
  <2>3. \A x \in Runs : holder'[x] = IF holder[x] = s THEN NoSession ELSE holder[x]
    BY DEF Commit, Release
  <2>4. \A x \in Sessions \ {s} : tx[x].phase \in {"reserved", "inserted"} => tx[x].run # r
    BY <1>2 DEF IInv, Serialized
  <2>5. Serialized'
    <3> SUFFICES ASSUME NEW x \in Sessions, tx'[x].phase \in {"reserved", "inserted"}
                 PROVE  holder'[tx'[x].run] = x /\ tx'[x].seq = next'[tx'[x].run]
      BY DEF Serialized
    <3>1. x # s /\ tx'[x] = tx[x]
      BY <2>1, <2>2
    <3>2. tx[x].run # r /\ tx[x].run \in Runs
      BY <2>4, <3>1 DEF IInv, TypeOK, Tx
    <3>3. holder[tx[x].run] = x /\ tx[x].seq = next[tx[x].run]
      BY <3>1 DEF IInv, Serialized
    <3>4. holder'[tx[x].run] = x
      BY <2>3, <3>1, <3>2, <3>3
    <3>5. next'[tx[x].run] = next[tx[x].run]
      BY <1>2, <3>2
    <3> QED BY <3>1, <3>3, <3>4, <3>5
  <2>6. NoLeakedLock'
    BY <2>1, <2>3, SessionAssumption DEF IInv, NoLeakedLock, TypeOK
  <2> QED BY <2>5, <2>6
<1>8. AckedIsDurable' /\ NoEarlyAnswer'
  <2>1. \A x \in Sessions \ {s} : tx'[x] = tx[x]
    BY DEF Commit, Answer, IInv, TypeOK
  <2>2. /\ tx'[s].phase = "idle" /\ tx'[s].run = r /\ tx'[s].seq = q
        /\ tx'[s].payload = tx[s].payload
    BY <1>1, <1>2, EndedType DEF Commit, Answer, IInv, TypeOK, r
  <2>3. q \in DOMAIN table'[r] /\ table'[r][q] = Row(s)
    BY <1>2, <1>3
  <2>4. \A x \in Runs : \A i \in DOMAIN table[x] : i \in DOMAIN table'[x] /\ table'[x][i] = table[x][i]
    BY <1>2, <1>3
  <2>5. ASSUME NEW x \in Sessions, tx'[x].reply = "ok"
        PROVE  tx'[x].seq \in DOMAIN table'[tx'[x].run] /\ table'[tx'[x].run][tx'[x].seq] = Row(x)'
    <3>1. CASE x = s
      BY <1>2, <2>2, <2>3, <3>1 DEF Row
    <3>2. CASE x # s
      BY <2>1, <2>4, <2>5, <3>2 DEF IInv, AckedIsDurable, Row, TypeOK, Tx
    <3> QED BY <3>1, <3>2
  <2> QED BY <2>1, <2>2, <2>5 DEF IInv, AckedIsDurable, NoEarlyAnswer
<1> QED BY <1>5, <1>6, <1>7, <1>8 DEF IInv

LEMMA RollbackIInv ==
    ASSUME IInv, NEW s \in Sessions, Rollback(s)
    PROVE  IInv'
<1>1. /\ tx' \in [Sessions -> Tx]
      /\ \A x \in Sessions \ {s} : tx'[x] = tx[x]
      /\ tx'[s].phase = "idle" /\ tx'[s].reply = "error"
  <2>1. tx[s] \in Tx /\ "error" \in Replies
    BY DEF IInv, TypeOK, Replies
  <2> QED BY <2>1, EndedType DEF IInv, TypeOK, Rollback, Answer
<1> USE DEF IInv, Rollback, Release
<1>2. TypeOK'
  BY <1>1 DEF TypeOK
<1>3. NoGaps'
  BY DEF NoGaps
<1>4. Serialized' /\ NoLeakedLock'
  BY <1>1, SessionAssumption DEF TypeOK, Tx, Serialized, NoLeakedLock
<1>5. AckedIsDurable' /\ NoEarlyAnswer'
  BY <1>1 DEF AckedIsDurable, NoEarlyAnswer, Row
<1> QED BY <1>2, <1>3, <1>4, <1>5

LEMMA CrashIInv == IInv /\ Crash => IInv'
<1> SUFFICES ASSUME IInv, Crash PROVE IInv'
    OBVIOUS
<1>1. /\ tx' \in [Sessions -> Tx]
      /\ \A x \in Sessions : tx'[x].phase = "idle" /\ tx'[x].reply = "none"
  <2>1. "none" \in Replies
    BY DEF Replies
  <2> QED BY <2>1, EndedType DEF IInv, TypeOK, Crash
<1> USE DEF IInv, Crash
<1>2. TypeOK'
  BY <1>1 DEF TypeOK
<1>3. NoGaps'
  BY DEF NoGaps
<1>4. Serialized' /\ NoLeakedLock' /\ AckedIsDurable' /\ NoEarlyAnswer'
  BY <1>1 DEF Serialized, NoLeakedLock, AckedIsDurable, NoEarlyAnswer
<1> QED BY <1>2, <1>3, <1>4

LEMMA StutterIInv == IInv /\ UNCHANGED vars => IInv'
BY DEF IInv, vars, TypeOK, NoGaps, Serialized, NoLeakedLock, AckedIsDurable, NoEarlyAnswer, Row

LEMMA NextIInv == IInv /\ [Next]_vars => IInv'
BY BeginIInv, ReserveIInv, InsertIInv, CommitIInv, RollbackIInv, CrashIInv, StutterIInv
   DEF Next

\* The inductive invariant holds in every state of every execution.
THEOREM IInvHolds == Spec => []IInv
BY InitIInv, NextIInv, PTL DEF Spec

\* Rows, counters, locks and transactions stay well typed whatever the sessions do and lose.
THEOREM TypeCorrect == Spec => []TypeOK
<1>1. IInv => TypeOK
  BY DEF IInv
<1> QED BY <1>1, IInvHolds, PTL

\* PostgresEventLog: for every number of runs and concurrent sessions, with rollbacks
\* and crashes anywhere, the sequence numbers of a run have no gap and no duplicate.
THEOREM NoGapsHolds == Spec => []NoGaps
<1>1. IInv => NoGaps
  BY DEF IInv
<1> QED BY <1>1, IInvHolds, PTL

\* An append that was acknowledged stays in the history under its number.
THEOREM AckedIsDurableHolds == Spec => []AckedIsDurable
<1>1. IInv => AckedIsDurable
  BY DEF IInv
<1> QED BY <1>1, IInvHolds, PTL

\* Appends to one run are serialised by the counter's row lock, and the lock is
\* never left behind by a finished transaction.
THEOREM SerializedHolds == Spec => [](Serialized /\ NoLeakedLock)
<1>1. IInv => Serialized /\ NoLeakedLock
  BY DEF IInv
<1> QED BY <1>1, IInvHolds, PTL

\* A step that is not a commit leaves what a reader can see alone.
LEMMA OnlyCommitWrites ==
    ASSUME [Next]_vars
    PROVE  \/ \E s \in Sessions, answer \in {"ok", "error"} : Commit(s, answer)
           \/ UNCHANGED <<next, table>>
BY DEF Next, vars, Begin, Reserve, Insert, Rollback, Crash

\* No step changes or removes a committed row.
THEOREM AppendOnlyHolds == Spec => AppendOnly
<1> DEFINE Keeps(r) == /\ DOMAIN table[r] \subseteq DOMAIN table'[r]
                       /\ \A i \in DOMAIN table[r] : table'[r][i] = table[r][i]
<1>1. ASSUME IInv, [Next]_vars
      PROVE  [\A r \in Runs : Keeps(r)]_vars
  <2>1. CASE UNCHANGED <<next, table>>
    BY <2>1
  <2>2. ASSUME NEW s \in Sessions, NEW answer \in {"ok", "error"}, Commit(s, answer)
        PROVE  \A r \in Runs : Keeps(r)
    <3>1. answer \in Replies
      BY DEF Replies
    <3>2. DOMAIN table[tx[s].run] = 1 .. (next[tx[s].run] - 1) /\ next[tx[s].run] \in Nat \ {0}
      BY <1>1, <2>2, <3>1, CommitWrites DEF IInv, NoGaps, TypeOK
    <3>3. ASSUME NEW r \in Runs PROVE Keeps(r)
      <4>1. CASE r = tx[s].run
        <5>1. table'[r] = [i \in 1 .. next[r] |-> IF i = next[r] THEN Row(s) ELSE table[r][i]]
          BY <1>1, <2>2, <3>1, <4>1, CommitWrites
        <5> QED BY <3>2, <4>1, <5>1
      <4>2. CASE r # tx[s].run
        <5>1. \A x \in Runs \ {tx[s].run} : table'[x] = table[x] /\ next'[x] = next[x]
          BY <1>1, <2>2, <3>1, CommitWrites
        <5> QED BY <4>2, <5>1
      <4> QED BY <4>1, <4>2
    <3> QED BY <3>3
  <2> QED BY <1>1, <2>1, <2>2, OnlyCommitWrites
<1> QED BY <1>1, IInvHolds, PTL DEF Spec, AppendOnly

\* PostgresEventLog implements the in-memory reference log under the mapping of
\* PgEventLog: a commit is one append, every other step is invisible.
THEOREM MirrorsInMemoryHolds == Spec => MirrorsInMemory
<1>1. Init => Mirror!LogInit
  <2> SUFFICES ASSUME Init PROVE Mirror!LogInit
      OBVIOUS
  <2>1. \A r \in Runs : next[r] = 1
    BY DEF Init
  <2>2. [r \in Runs |-> next[r] - 1] = [r \in Runs |-> 0]
    BY <2>1
  <2>3. {r \in Runs : next[r] > 1} = {}
    BY <2>1
  <2> QED BY <2>2, <2>3 DEF Init, Mirror!LogInit
<1>2. ASSUME IInv, [Next]_vars
      PROVE  [Mirror!LogNext]_(Mirror!logVars)
  <2>1. CASE UNCHANGED <<next, table>>
    BY <2>1 DEF Mirror!logVars
  <2>2. ASSUME NEW s \in Sessions, NEW answer \in {"ok", "error"}, Commit(s, answer)
        PROVE  Mirror!LogNext
    <3> DEFINE r == tx[s].run
               q == next[r]
               n == [x \in Runs |-> next[x] - 1]
    <3>1. answer \in Replies
      BY DEF Replies
    <3>2. /\ r \in Runs /\ tx[s].seq = q /\ Row(s) \in Event
          /\ DOMAIN table' = Runs
          /\ \A x \in Runs \ {r} : table'[x] = table[x] /\ next'[x] = next[x]
          /\ next'[r] = q + 1
          /\ table'[r] = [i \in 1 .. q |-> IF i = q THEN Row(s) ELSE table[r][i]]
      BY <1>2, <2>2, <3>1, CommitWrites
    <3>3. /\ q \in Nat \ {0} /\ DOMAIN table[r] = 1 .. (q - 1)
          /\ table[r] \in [DOMAIN table[r] -> Event]
          /\ next \in [Runs -> Nat \ {0}] /\ DOMAIN table = Runs
          /\ tx[s].payload \in Payloads
      BY <1>2, <3>2 DEF IInv, TypeOK, NoGaps, Tx
    <3>4. [x \in Runs |-> next'[x] - 1] = [n EXCEPT ![r] = @ + 1]
      <4>1. \A x \in Runs : next'[x] - 1 = IF x = r THEN (next[x] - 1) + 1 ELSE next[x] - 1
        BY <3>2, <3>3
      <4>2. [n EXCEPT ![r] = @ + 1] = [x \in Runs |-> IF x = r THEN (next[x] - 1) + 1 ELSE next[x] - 1]
        BY <3>2
      <4> QED BY <4>1, <4>2
    <3>5. table'[r] = Append(table[r], [seq |-> n[r] + 1, payload |-> tx[s].payload])
      <4>1. [seq |-> n[r] + 1, payload |-> tx[s].payload] = Row(s)
        BY <3>2, <3>3 DEF Row
      <4>2. q - 1 \in Nat /\ table[r] \in [1 .. (q - 1) -> Event]
        BY <3>3
      <4>3. table[r] \in Seq(Event) /\ Len(table[r]) = q - 1
        BY <4>2
      <4>4. Append(table[r], Row(s)) \in Seq(Event) /\ Len(Append(table[r], Row(s))) = q
        BY <3>2, <3>3, <4>3
      <4>5. \A i \in 1 .. q : table'[r][i] = Append(table[r], Row(s))[i]
        BY <3>2, <3>3, <4>3
      <4>6. table'[r] \in Seq(Event) /\ Len(table'[r]) = q
        <5>1. \A i \in 1 .. q : (IF i = q THEN Row(s) ELSE table[r][i]) \in Event
          BY <3>2, <3>3, <4>2
        <5>2. table'[r] \in [1 .. q -> Event]
          BY <3>2, <5>1
        <5>3. q \in Nat
          BY <3>3
        <5> HIDE DEF r, q
        <5> QED BY <5>2, <5>3
      <4> QED BY <4>1, <4>4, <4>5, <4>6, SeqEqual
    <3>6. table' = [table EXCEPT ![r] = Append(@, [seq |-> n[r] + 1, payload |-> tx[s].payload])]
      BY <2>2, <3>2, <3>3, <3>5 DEF Commit
    <3>7. {x \in Runs : next'[x] > 1} = {x \in Runs : next[x] > 1} \union {r}
      BY <3>2, <3>3
    <3>8. r \in Runs /\ tx[s].payload \in Payloads
      BY <3>2, <3>3
    <3> QED BY <3>4, <3>6, <3>7, <3>8 DEF Mirror!LogNext, Mirror!AppendEvent
  <2> QED BY <1>2, <2>1, <2>2, OnlyCommitWrites
<1> QED BY <1>1, <1>2, IInvHolds, PTL DEF Spec, MirrorsInMemory, Mirror!LogSpec

=============================================================================
