----------------------------- MODULE PgEventLog -----------------------------
(***************************************************************************)
(* PostgresEventLog.Append (engine/eventlog_pg.go): each append is one     *)
(* transaction of one session, in four round trips - begin, reserve the    *)
(* next sequence number of the run in event_seq (which locks that run's    *)
(* counter row until the transaction ends), insert the row into events,    *)
(* commit.  Sessions interleave between the round trips; any of them may   *)
(* roll back, lose the answer to its commit, or die with the process.      *)
(***************************************************************************)
EXTENDS Naturals, Sequences

CONSTANTS Runs, Payloads,
          Sessions,     \* goroutines that call Append
          NoSession,    \* the holder of a free row lock
          MaxEvents     \* bound: no append begins once a run has this many events

ASSUME SessionAssumption == NoSession \notin Sessions
ASSUME MaxEventsAssumption == MaxEvents \in Nat

VARIABLES
    next,     \* event_seq.next_seq as committed (1 where the row does not exist)
    table,    \* the committed rows of events: table[r] maps seq to the row
    holder,   \* holder[r]: the session with the lock on run r's counter row
    tx        \* tx[s]: the transaction of session s and its last answer

vars == <<next, table, holder, tx>>

Event == [seq : Nat \ {0}, payload : Payloads]

Phases == {"idle", "begun", "reserved", "inserted"}
Replies == {"none", "ok", "error"}
Tx == [phase : Phases, run : Runs, payload : Payloads, seq : Nat, reply : Replies]

TypeOK ==
    /\ next \in [Runs -> Nat \ {0}]
    /\ DOMAIN table = Runs
    /\ \A r \in Runs : /\ DOMAIN table[r] \subseteq Nat \ {0}
                       /\ table[r] \in [DOMAIN table[r] -> Event]
    /\ holder \in [Runs -> Sessions \union {NoSession}]
    /\ tx \in [Sessions -> Tx]

Init ==
    /\ next = [r \in Runs |-> 1]
    /\ table = [r \in Runs |-> <<>>]
    /\ holder = [r \in Runs |-> NoSession]
    /\ tx \in [Sessions -> [phase : {"idle"}, run : Runs, payload : Payloads,
                            seq : {0}, reply : {"none"}]]

\* The row of (run_id, seq) that session s has written or will write.
Row(s) == [seq |-> tx[s].seq, payload |-> tx[s].payload]

\* Whatever ends a transaction releases the row lock it holds.
Release(s) == holder' = [r \in Runs |-> IF holder[r] = s THEN NoSession ELSE holder[r]]

\* The transaction t once its Append has returned.
Ended(t, answer) == [t EXCEPT !.phase = "idle", !.reply = answer]

Answer(s, answer) == tx' = [tx EXCEPT ![s] = Ended(tx[s], answer)]

\* BeginTx: no lock is taken yet.
Begin(s, r, p) ==
    /\ tx[s].phase = "idle"
    /\ next[r] <= MaxEvents
    /\ tx' = [tx EXCEPT ![s] = [phase |-> "begun", run |-> r, payload |-> p,
                                seq |-> 0, reply |-> "none"]]
    /\ UNCHANGED <<next, table, holder>>

\* Mutant of Reserve: RETURNING next_seq - 2.
ReserveOffByOne(s) ==
    /\ tx[s].phase = "begun" /\ holder[tx[s].run] = NoSession
    /\ holder' = [holder EXCEPT ![tx[s].run] = s]
    /\ tx' = [tx EXCEPT ![s].phase = "reserved", ![s].seq = next[tx[s].run] - 1]
    /\ UNCHANGED <<next, table>>

\* Mutant of Reserve: the number is taken on the pool instead of the transaction, so
\* that a rollback does not give it back.
ReserveEager(s) ==
    /\ tx[s].phase = "begun" /\ holder[tx[s].run] = NoSession
    /\ next' = [next EXCEPT ![tx[s].run] = @ + 1]
    /\ tx' = [tx EXCEPT ![s].phase = "reserved", ![s].seq = next[tx[s].run]]
    /\ UNCHANGED <<holder, table>>

\* Mutant of Reserve: SELECT max(seq) + 1, which locks nothing.
ReserveUnlocked(s) ==
    /\ tx[s].phase = "begun"
    /\ tx' = [tx EXCEPT ![s].phase = "reserved", ![s].seq = next[tx[s].run]]
    /\ UNCHANGED <<next, table, holder>>

\* INSERT INTO event_seq ... ON CONFLICT DO UPDATE ... RETURNING next_seq - 1:
\* waits for the row lock, then reads the committed counter.  The increment
\* becomes visible to others at commit only.
Reserve(s) ==
    /\ tx[s].phase = "begun"
    /\ holder[tx[s].run] = NoSession
    /\ holder' = [holder EXCEPT ![tx[s].run] = s]
    /\ tx' = [tx EXCEPT ![s].phase = "reserved", ![s].seq = next[tx[s].run]]
    /\ UNCHANGED <<next, table>>

\* Mutant of Insert: Append returns before the commit.
InsertAnswers(s) ==
    /\ tx[s].phase = "reserved"
    /\ tx' = [tx EXCEPT ![s].phase = "inserted", ![s].reply = "ok"]
    /\ UNCHANGED <<next, table, holder>>

\* INSERT INTO events: PRIMARY KEY (run_id, seq) refuses a number already used.
Insert(s) ==
    /\ tx[s].phase = "reserved"
    /\ tx[s].seq \notin DOMAIN table[tx[s].run]
    /\ tx' = [tx EXCEPT ![s].phase = "inserted"]
    /\ UNCHANGED <<next, table, holder>>

\* The database commits.  When the connection is lost before the answer arrives
\* Append reports an error although the event is durable.
Commit(s, answer) ==
    LET r == tx[s].run
        q == tx[s].seq
    IN  /\ tx[s].phase = "inserted"
        /\ next' = [next EXCEPT ![r] = q + 1]
        /\ table' = [table EXCEPT ![r] =
                       [i \in DOMAIN table[r] \union {q} |->
                            IF i = q THEN Row(s) ELSE table[r][i]]]
        /\ Answer(s, answer)
        /\ Release(s)

\* Mutant of Rollback: the error path returns without ending the transaction.
RollbackLeaks(s) ==
    /\ tx[s].phase # "idle"
    /\ Answer(s, "error")
    /\ UNCHANGED <<next, table, holder>>

\* A failed round trip or a cancelled context: the deferred tx.Rollback().
Rollback(s) ==
    /\ tx[s].phase # "idle"
    /\ Answer(s, "error")
    /\ Release(s)
    /\ UNCHANGED <<next, table>>

\* The process dies: the database rolls back every open transaction, and no
\* caller is left to hold an answer.
Crash ==
    /\ tx' = [s \in Sessions |-> Ended(tx[s], "none")]
    /\ holder' = [r \in Runs |-> NoSession]
    /\ UNCHANGED <<next, table>>

Step(s) ==
    \/ Reserve(s)
    \/ Insert(s)
    \/ Commit(s, "ok")

Next ==
    \/ \E s \in Sessions :
        \/ \E r \in Runs, p \in Payloads : Begin(s, r, p)
        \/ Reserve(s)
        \/ Insert(s)
        \/ \E answer \in {"ok", "error"} : Commit(s, answer)
        \/ Rollback(s)
    \/ Crash

\* Every round trip is answered, and PostgreSQL hands a row lock to the waiting
\* transactions in turn, so none waits for ever.
Fairness == \A s \in Sessions : SF_vars(Reserve(s)) /\ WF_vars(Step(s))

Spec == Init /\ [][Next]_vars /\ Fairness

-----------------------------------------------------------------------------
\* The counter and the table agree: the numbers of a run are 1 .. next-1 with no
\* gap, although transactions roll back between reserving and committing, and
\* each row carries its own number.  History's ORDER BY seq relies on it.
NoGaps ==
    \A r \in Runs :
        /\ DOMAIN table[r] = 1 .. (next[r] - 1)
        /\ \A i \in DOMAIN table[r] : table[r][i].seq = i

\* The row lock serialises the appends of a run: a transaction that has reserved a
\* number holds its run's lock, and its number is the one after the last row, so
\* that the primary key never refuses an insert ("concurrent appends to the same
\* run_id are serialized and never collide").
Serialized ==
    \A s \in Sessions : tx[s].phase \in {"reserved", "inserted"} =>
        /\ holder[tx[s].run] = s
        /\ tx[s].seq = next[tx[s].run]

\* A lock is held only by the open transaction that took it: no answer, failure
\* or crash leaves a run's counter locked.
NoLeakedLock ==
    \A r \in Runs : holder[r] # NoSession =>
        /\ tx[holder[r]].phase \in {"reserved", "inserted"}
        /\ tx[holder[r]].run = r

\* An Append that returned without error is in the history under the number it
\* returned, whatever the other sessions did since.
AckedIsDurable ==
    \A s \in Sessions : tx[s].reply = "ok" =>
        /\ tx[s].seq \in DOMAIN table[tx[s].run]
        /\ table[tx[s].run][tx[s].seq] = Row(s)

\* Committed rows are never changed or removed, by commits, rollbacks or crashes:
\* a History that was read once is a prefix of every later one.
AppendOnly ==
    [][\A r \in Runs : /\ DOMAIN table[r] \subseteq DOMAIN table'[r]
                       /\ \A i \in DOMAIN table[r] : table'[r][i] = table[r][i]]_vars

\* The Postgres log "mirrors exactly" the in-memory reference implementation: each
\* of its steps is one append of EventLog or changes nothing a reader can see.
Mirror == INSTANCE EventLog WITH
    seq <- [r \in Runs |-> next[r] - 1],
    events <- table,
    runs <- {r \in Runs : next[r] > 1}

MirrorsInMemory == Mirror!LogSpec

\* Every Append returns: no session waits for ever for a row lock.
AppendReturns ==
    \A s \in Sessions : tx[s].phase = "begun" ~> tx[s].phase = "idle"
=============================================================================
