----------------------------- MODULE ApiProofs -----------------------------
(***************************************************************************)
(* Proofs about Api, for any clients, ids, workflows, rules and requests,  *)
(* and any number of faults.                                               *)
(***************************************************************************)
EXTENDS Api, SequenceTheorems, WellFoundedInduction, TLAPS

-----------------------------------------------------------------------------
(***************************************************************************)
(* The creation of a ticket as a sequence, and its prefixes.               *)
(***************************************************************************)
CreationEvents(t) ==
    [type : {"TICKET_CREATED", "RUN_STARTED", "APPROVAL_REQUESTED", "STEP_SCHEDULED",
             "TICKET_ASSIGNED"},
     ticket : {t}]

LEMMA ShortSequences ==
    ASSUME NEW S, NEW a \in S, NEW b \in S
    PROVE  /\ <<>> \in Seq(S) /\ Len(<<>>) = 0
           /\ <<a>> \in Seq(S) /\ Len(<<a>>) = 1
           /\ <<a, b>> \in Seq(S) /\ Len(<<a, b>>) = 2
OBVIOUS

LEMMA CreationType ==
    ASSUME NEW t
    PROVE  /\ Creation(t) \in Seq(CreationEvents(t))
           /\ Len(Creation(t)) \in {4, 5}
<1> DEFINE event(type) == [type |-> type, ticket |-> t]
           created == event("TICKET_CREATED")
           started == event("RUN_STARTED")
           requested == event("APPROVAL_REQUESTED")
           scheduled == event("STEP_SCHEDULED")
           assigned == event("TICKET_ASSIGNED")
           first == <<created, started>>
           second == IF t.workflow \in Approval THEN <<requested>> ELSE <<>>
           third == <<scheduled, assigned>>
<1>0. /\ created \in CreationEvents(t) /\ started \in CreationEvents(t)
      /\ requested \in CreationEvents(t)
      /\ scheduled \in CreationEvents(t) /\ assigned \in CreationEvents(t)
  BY DEF CreationEvents
<1>1. Creation(t) = first \o second \o third
  BY DEF Creation
<1> HIDE DEF created, started, requested, scheduled, assigned
<1>2. first \in Seq(CreationEvents(t)) /\ Len(first) = 2
  BY <1>0, ShortSequences
<1>3. second \in Seq(CreationEvents(t)) /\ Len(second) \in {0, 1}
  <2>1. requested \in CreationEvents(t)
    BY <1>0
  <2>2. CASE t.workflow \in Approval
    BY <2>1, <2>2, ShortSequences
  <2>3. CASE t.workflow \notin Approval
    BY <2>1, <2>3, ShortSequences
  <2> QED BY <2>2, <2>3
<1>4. third \in Seq(CreationEvents(t)) /\ Len(third) = 2
  BY <1>0, ShortSequences
<1> HIDE DEF first, second, third
<1>5. /\ first \o second \in Seq(CreationEvents(t))
      /\ Len(first \o second) = Len(first) + Len(second)
  BY <1>2, <1>3, ConcatProperties
<1>6. /\ (first \o second) \o third \in Seq(CreationEvents(t))
      /\ Len((first \o second) \o third) = Len(first \o second) + Len(third)
  BY <1>4, <1>5, ConcatProperties
<1> QED BY <1>1, <1>2, <1>3, <1>4, <1>5, <1>6

LEMMA CreationLength ==
    ASSUME NEW t
    PROVE  /\ Len(Creation(t)) \in Nat
           /\ 0 < Len(Creation(t)) /\ Len(Creation(t)) <= 5
<1> DEFINE n == Len(Creation(t))
<1>1. n \in {4, 5}
  BY CreationType
<1> HIDE DEF n
<1>2. n \in Nat /\ 0 < n /\ n <= 5
  BY <1>1
<1> QED BY <1>2 DEF n

\* prefix is what an interrupted creation of t has in the log.
Prefix(prefix, t, n) == n \in Nat /\ prefix = SubSeq(Creation(t), 1, n)

LEMMA PrefixStarts ==
    ASSUME NEW t
    PROVE  Prefix(<<>>, t, 0)
BY CreationType, SubSeqEmpty DEF Prefix

LEMMA PrefixLength ==
    ASSUME NEW t, NEW prefix, NEW n, Prefix(prefix, t, n), n <= Len(Creation(t))
    PROVE  Len(prefix) = n /\ (prefix = <<>> <=> n = 0)
<1>1. /\ Len(Creation(t)) \in Nat /\ n \in Nat
      /\ Creation(t) \in Seq(CreationEvents(t))
      /\ 1..n \subseteq 1..Len(Creation(t))
  BY CreationType DEF Prefix
<1>2. prefix \in Seq(CreationEvents(t)) /\ Len(prefix) = n
  BY <1>1, SubSeqProperties DEF Prefix
<1> QED BY <1>2, EmptySeq

LEMMA PrefixGrows ==
    ASSUME NEW t, NEW prefix, NEW n, Prefix(prefix, t, n), n < Len(Creation(t))
    PROVE  Prefix(Append(prefix, Creation(t)[n + 1]), t, n + 1)
<1>1. /\ Creation(t) \in Seq(CreationEvents(t)) /\ Len(Creation(t)) \in Nat /\ n \in Nat
      /\ n + 1 \in 1..Len(Creation(t))
  BY CreationType DEF Prefix
<1>2. SubSeq(Creation(t), 1, n + 1) = SubSeq(Creation(t), 1, n) \o <<Creation(t)[n + 1]>>
  BY <1>1, SubSeqRecursiveSecond
<1>3. /\ prefix \in Seq(CreationEvents(t))
      /\ Creation(t)[n + 1] \in CreationEvents(t)
  BY <1>1, SubSeqProperties DEF Prefix
<1>4. Append(prefix, Creation(t)[n + 1]) = prefix \o <<Creation(t)[n + 1]>>
  BY <1>3, AppendIsConcat
<1> QED BY <1>1, <1>2, <1>4 DEF Prefix

LEMMA PrefixEnds ==
    ASSUME NEW t, NEW prefix, NEW n, Prefix(prefix, t, n), n = Len(Creation(t))
    PROVE  prefix = Creation(t)
BY CreationType, SubSeqFull DEF Prefix

-----------------------------------------------------------------------------
(***************************************************************************)
(* The inductive invariant.                                                *)
(***************************************************************************)
\* What a row and the log of its run have in common.
RowOK(row, events) ==
    \/ row = None /\ events = <<>>
    \/ /\ IsTicket(row)
       /\ \E n \in 0..Len(Creation(row)) : Prefix(events, row, n)

TablesOK ==
    /\ DOMAIN tickets = Ids /\ DOMAIN log = Ids
    /\ \A id \in Ids : RowOK(tickets[id], log[id])
    /\ cache \in [Workflows -> {"absent", "compiled", "stored"}]

\* The stages in which a creation has chosen its ids, and those after its last event.
Created == {"history", "row", "definition", "ok"}
Claiming == {"save", "append"} \union Created

\* A request that creates a ticket.
CreateOK(k) ==
    /\ k.stage \in {"load", "failed"} \union Claiming
    /\ k.owed = {}
    /\ k.stage \in {"load"} => k.transport \in Transports /\ k.ticket.input \in Inputs
    /\ k.stage \in Claiming => k.id \in Ids /\ IsTicket(k.ticket)
    /\ k.stage \in {"load", "save"} => k.done = 0
    /\ k.stage = "save" => tickets[k.id] = None
    /\ k.stage = "append" => /\ tickets[k.id] = k.ticket
                             /\ k.done < Len(Creation(k.ticket))
                             /\ Prefix(log[k.id], k.ticket, k.done)
    /\ k.stage \in Created => /\ tickets[k.id] = k.ticket
                              /\ log[k.id] = Creation(k.ticket)

\* The runs a read still owes are in the log, and ahead of it.
ReadOK(k) ==
    /\ k.stage \notin {"load", "save", "append"}
    /\ k.owed \subseteq Logged
    /\ k.stage \in Statuses \union {"workflows"} => k.owed = {}
    /\ k.stage = "runs" => k.op = "runs"
    /\ k.stage \in {"ticket", "events"} => k.op # "runs" /\ k.owed \subseteq {k.id}
    /\ k.stage = "history" => k.owed \subseteq (IF k.op = "runs" THEN k.todo ELSE {k.id})
    /\ k.stage \in {"row", "definition"} =>
            k.owed \subseteq {k.id} \union (IF k.op = "runs" THEN k.todo ELSE {})

CallOK(k) ==
    /\ DOMAIN k = DOMAIN Idle
    /\ k.stage \in Stages \union Statuses \union {"idle"}
    /\ k.todo \subseteq Ids
    /\ k.op = "create" => CreateOK(k)
    /\ k.op # "create" => ReadOK(k)

Claims(k) == k.op = "create" /\ k.stage \in Claiming

IInv ==
    /\ TablesOK
    /\ DOMAIN call = Clients
    /\ \A c \in Clients : CallOK(call[c])
    /\ \A c, d \in Clients :
            c # d /\ Claims(call[c]) /\ Claims(call[d]) => call[c].id # call[d].id

-----------------------------------------------------------------------------
\* Requests that read.
LEMMA IdleOK == CallOK(Idle) /\ ~Claims(Idle) /\ Idle.op = "none" /\ Idle.stage = "idle"
BY DEF CallOK, ReadOK, Idle, Statuses, Claims

\* A step that changes one call and neither table, and claims no new id.
LEMMA OneCall ==
    ASSUME IInv, NEW c \in Clients, NEW k, call' = [call EXCEPT ![c] = k],
           UNCHANGED <<tickets, log>>, CallOK(k),
           cache' \in [Workflows -> {"absent", "compiled", "stored"}],
           Claims(k) => Claims(call[c]) /\ k.id = call[c].id
    PROVE  IInv'
<1>1. TablesOK'
  BY DEF IInv, TablesOK
<1>2. \A d \in Clients : call'[d] = IF d = c THEN k ELSE call[d]
  BY DEF IInv
<1>3. \A d \in Clients : CallOK(call'[d])
  BY <1>2 DEF IInv
<1>4. \A d \in Clients : CallOK(call[d])'
  BY <1>3 DEF CallOK, CreateOK, ReadOK, Logged
<1>5. ASSUME NEW d \in Clients, NEW e \in Clients, d # e, Claims(call'[d]), Claims(call'[e])
      PROVE  call'[d].id # call'[e].id
  BY <1>2, <1>5 DEF IInv
<1> QED BY <1>1, <1>4, <1>5 DEF IInv, Claims

\* An answer is right: a creation's, because it has everything; a read's, if it owes no
\* more than is given.
LEMMA ReturnKeeps ==
    ASSUME IInv, NEW c \in Clients, NEW status \in Statuses, NEW given,
           Return(c, status, given), UNCHANGED <<tickets, log>>,
           cache' \in [Workflows -> {"absent", "compiled", "stored"}],
           call[c].op = "create" /\ status = "ok" => call[c].stage \in Created,
           call[c].op # "create" => call[c].owed \subseteq given
    PROVE  IInv'
<1>1. CASE status = "ok" /\ call[c].op = "create"
  <2> DEFINE k == [Idle EXCEPT !.stage = status, !.op = "create",
                               !.id = call[c].id, !.ticket = call[c].ticket]
  <2>1. call' = [call EXCEPT ![c] = k]
    BY <1>1 DEF Return
  <2>2. CallOK(call[c]) /\ CreateOK(call[c]) /\ call[c].stage \in Created
    BY <1>1 DEF IInv, CallOK
  <2>3. /\ DOMAIN k = DOMAIN Idle /\ k.stage = "ok" /\ k.op = "create" /\ k.id = call[c].id
        /\ k.ticket = call[c].ticket /\ k.todo = {} /\ k.owed = {}
    BY <1>1 DEF Idle
  <2> HIDE DEF k
  <2>4. CallOK(k)
    BY <2>2, <2>3 DEF CallOK, CreateOK, Created, Claiming, Statuses
  <2>5. Claims(call[c])
    BY <1>1, <2>2 DEF Claims, Claiming
  <2> QED BY <2>1, <2>3, <2>4, <2>5, OneCall
<1>2. CASE ~(status = "ok" /\ call[c].op = "create")
  <2> DEFINE k == [Idle EXCEPT !.stage = status, !.owed = call[c].owed \ given]
  <2>1. call' = [call EXCEPT ![c] = k]
    BY <1>2 DEF Return
  <2>2. CallOK(call[c])
    BY DEF IInv
  <2>3. /\ DOMAIN k = DOMAIN Idle /\ k.stage = status /\ k.op = "none" /\ k.todo = {}
        /\ k.owed = call[c].owed \ given
    BY DEF Idle
  <2>4. k.owed = {}
    BY <2>2, <2>3 DEF CallOK, CreateOK
  <2> HIDE DEF k
  <2>5. CallOK(k) /\ ~Claims(k)
    BY <2>3, <2>4 DEF CallOK, ReadOK, Claims, Statuses
  <2> QED BY <2>1, <2>5, OneCall
<1> QED BY <1>1, <1>2

LEMMA FailKeeps ==
    ASSUME IInv, NEW c \in Clients, Fail(c), UNCHANGED <<tickets, log>>,
           cache' \in [Workflows -> {"absent", "compiled", "stored"}],
           call[c].op # "create" => call[c].owed = {}
    PROVE  IInv'
<1>1. "failed" \in Statuses
  BY DEF Statuses
<1> QED BY <1>1, ReturnKeeps DEF Fail

\* A request that has arrived.
LEMMA ReceiveKeeps ==
    ASSUME IInv, NEW c \in Clients, NEW k, Receive(c, k), CallOK(k), ~Claims(k)
    PROVE  IInv'
<1>1. cache \in [Workflows -> {"absent", "compiled", "stored"}]
  BY DEF IInv, TablesOK
<1> QED BY <1>1, OneCall DEF Receive

LEMMA CreateTicketKeeps ==
    ASSUME IInv, NEW c \in Clients, NEW transport \in Transports, NEW input \in Inputs,
           CreateTicket(c, transport, input)
    PROVE  IInv'
<1> DEFINE k == [Idle EXCEPT !.op = "create", !.transport = transport,
                             !.ticket = [input |-> input],
                             !.stage = IF Refused(transport, input) THEN "failed" ELSE "load"]
<1>1. Receive(c, k)
  BY DEF CreateTicket
<1>2. /\ DOMAIN k = DOMAIN Idle /\ k.op = "create" /\ k.transport = transport
      /\ k.ticket.input = input /\ k.stage \in {"failed", "load"} /\ k.todo = {} /\ k.owed = {}
      /\ k.done = 0
  BY DEF Idle
<1> HIDE DEF k
<1>3. CallOK(k) /\ ~Claims(k)
  BY <1>2 DEF CallOK, CreateOK, Claims, Stages, Statuses, Claiming, Created
<1> QED BY <1>1, <1>3, ReceiveKeeps

LEMMA ReadOneKeeps ==
    ASSUME IInv, NEW c \in Clients, NEW id \in Ids, ReadOne(c, id)
    PROVE  IInv'
<1>1. PICK stage \in {"ticket", "history", "events"} :
        Receive(c, [Idle EXCEPT !.op = "one", !.id = id, !.stage = stage,
                                !.owed = {id} \intersect Logged])
  BY DEF ReadOne
<1> DEFINE k == [Idle EXCEPT !.op = "one", !.id = id, !.stage = stage,
                             !.owed = {id} \intersect Logged]
<1>2. /\ DOMAIN k = DOMAIN Idle /\ k.op = "one" /\ k.id = id /\ k.stage = stage
      /\ k.todo = {} /\ k.owed = {id} \intersect Logged
  BY DEF Idle
<1>3. Receive(c, k)
  BY <1>1
<1> HIDE DEF k
<1>4. CallOK(k) /\ ~Claims(k)
  BY <1>2 DEF CallOK, ReadOK, Claims, Stages, Statuses
<1> QED BY <1>3, <1>4, ReceiveKeeps

LEMMA ReadAllKeeps ==
    ASSUME IInv, NEW c \in Clients, ReadAll(c)
    PROVE  IInv'
<1>1. ASSUME NEW stage \in {"tickets", "runs"},
             Receive(c, [Idle EXCEPT !.op = stage, !.stage = stage, !.owed = Logged])
      PROVE  IInv'
  <2> DEFINE k == [Idle EXCEPT !.op = stage, !.stage = stage, !.owed = Logged]
  <2>1. /\ DOMAIN k = DOMAIN Idle /\ k.op = stage /\ k.stage = stage
        /\ k.todo = {} /\ k.owed = Logged
    BY DEF Idle
  <2>2. Receive(c, k)
    BY <1>1
  <2> HIDE DEF k
  <2>3. CallOK(k) /\ ~Claims(k)
    BY <2>1 DEF CallOK, ReadOK, Claims, Stages, Statuses
  <2> QED BY <2>2, <2>3, ReceiveKeeps
<1>2. ASSUME Receive(c, [Idle EXCEPT !.op = "workflows", !.stage = "workflows"])
      PROVE  IInv'
  <2> DEFINE k == [Idle EXCEPT !.op = "workflows", !.stage = "workflows"]
  <2>1. /\ DOMAIN k = DOMAIN Idle /\ k.op = "workflows" /\ k.stage = "workflows"
        /\ k.todo = {} /\ k.owed = {}
    BY DEF Idle
  <2>2. Receive(c, k)
    BY <1>2
  <2> HIDE DEF k
  <2>3. CallOK(k) /\ ~Claims(k)
    BY <2>1 DEF CallOK, ReadOK, Claims, Stages, Statuses
  <2> QED BY <2>2, <2>3, ReceiveKeeps
<1>3. ASSUME NEW w \in Workflows,
             Receive(c, [Idle EXCEPT !.op = "workflow", !.workflow = w, !.stage = "definition"])
      PROVE  IInv'
  <2> DEFINE k == [Idle EXCEPT !.op = "workflow", !.workflow = w, !.stage = "definition"]
  <2>1. /\ DOMAIN k = DOMAIN Idle /\ k.op = "workflow" /\ k.stage = "definition"
        /\ k.todo = {} /\ k.owed = {}
    BY DEF Idle
  <2>2. Receive(c, k)
    BY <1>3
  <2> HIDE DEF k
  <2>3. CallOK(k) /\ ~Claims(k)
    BY <2>1 DEF CallOK, ReadOK, Claims, Stages, Statuses
  <2> QED BY <2>2, <2>3, ReceiveKeeps
<1> QED BY <1>1, <1>2, <1>3 DEF ReadAll

-----------------------------------------------------------------------------
\* The steps of a creation.
LEMMA IdleDomain ==
    DOMAIN Idle = {"stage", "op", "transport", "ticket", "id", "workflow", "done", "todo", "owed"}
BY DEF Idle

\* What a creation that has its ids writes under them does not concern the other calls.
LEMMA OtherCalls ==
    ASSUME IInv, NEW c \in Clients, NEW d \in Clients, d # c, Claims(call[c]),
           call'[d] = call[d], Logged \subseteq Logged',
           \A id \in Ids \ {call[c].id} : tickets'[id] = tickets[id] /\ log'[id] = log[id]
    PROVE  CallOK(call[d])'
<1>1. CallOK(call[d]) /\ (Claims(call[d]) => call[d].id # call[c].id)
  BY DEF IInv
<1>2. CASE call[d].op = "create"
  <2>1. CreateOK(call[d])
    BY <1>1, <1>2 DEF CallOK
  <2>2. call[d].stage \in Claiming =>
            /\ call[d].id \in Ids
            /\ tickets'[call[d].id] = tickets[call[d].id] /\ log'[call[d].id] = log[call[d].id]
    BY <1>1, <1>2, <2>1 DEF CreateOK, Claims
  <2>3. CreateOK(call[d])'
    BY <2>1, <2>2 DEF CreateOK, Claiming
  <2> QED BY <1>1, <1>2, <2>3 DEF CallOK
<1>3. CASE call[d].op # "create"
  BY <1>1, <1>3 DEF CallOK, ReadOK
<1> QED BY <1>2, <1>3

\* A step of c that keeps its ids, or takes ids that nobody has.
LEMMA ClaimsStayApart ==
    ASSUME IInv, NEW c \in Clients, \A d \in Clients \ {c} : call'[d] = call[d],
           \A d \in Clients \ {c} : Claims(call[d]) => call'[c].id # call[d].id
    PROVE  \A d, e \in Clients :
               d # e /\ Claims(call[d])' /\ Claims(call[e])' => call'[d].id # call'[e].id
BY DEF IInv, Claims

LEMMA LoadKeeps ==
    ASSUME IInv, NEW c \in Clients, Load(c)
    PROVE  IInv'
<1> DEFINE input == call[c].ticket.input
<1>1. /\ CallOK(call[c]) /\ call[c].stage = "load" /\ call[c].op = "create"
      /\ CreateOK(call[c]) /\ input \in Inputs /\ call[c].transport \in Transports
      /\ UNCHANGED <<tickets, log>> /\ cache \in [Workflows -> {"absent", "compiled", "stored"}]
  BY DEF IInv, TablesOK, CallOK, ReadOK, CreateOK, Load, At
<1>2. ASSUME Fail(c), UNCHANGED cache
      PROVE  IInv'
  BY <1>1, <1>2, FailKeeps
<1>3. ASSUME input.workflow \in Workflows, loadWorkflow(input.workflow), NEW id \in Fresh,
             call' = [call EXCEPT ![c].stage = "save", ![c].id = id, ![c].transport = "none",
                        ![c].ticket = NewTicket(call[c].transport, input,
                                        RulesOf(input.workflow, cache'[input.workflow]))]
      PROVE  IInv'
  <2> DEFINE t == NewTicket(call[c].transport, input,
                            RulesOf(input.workflow, cache'[input.workflow]))
             k == [call[c] EXCEPT !.stage = "save", !.id = id, !.transport = "none",
                                  !.ticket = t]
  <2>1. /\ cache' \in [Workflows -> {"absent", "compiled", "stored"}]
        /\ cache'[input.workflow] \in {"compiled", "stored"}
    BY <1>1, <1>3 DEF loadWorkflow
  <2>2. IsTicket(t)
    BY <1>1, <1>3, <2>1 DEF IsTicket
  <2> HIDE DEF t
  <2>3. call' = [call EXCEPT ![c] = k]
    BY <1>3 DEF IInv, t
  <2>4. /\ DOMAIN k = DOMAIN Idle /\ k.stage = "save" /\ k.op = "create" /\ k.id = id
        /\ k.ticket = t /\ k.todo = call[c].todo /\ k.owed = {} /\ k.done = 0
    BY <1>1, IdleDomain DEF CallOK, CreateOK
  <2> HIDE DEF k
  <2>5. id \in Ids /\ tickets[id] = None
    BY DEF Fresh
  <2>6. CallOK(k)
    BY <1>1, <2>2, <2>4, <2>5 DEF CallOK, CreateOK, Claiming, Created, Stages
  <2>7. ASSUME NEW d \in Clients \ {c}, Claims(call[d])
        PROVE  id # call[d].id
    <3>1. CreateOK(call[d]) /\ call[d].stage \in Claiming
      BY <2>7 DEF IInv, CallOK, Claims
    <3>2. CASE call[d].stage = "save"
      BY <3>2 DEF Fresh, At
    <3>3. CASE call[d].stage # "save"
      <4>1. tickets[call[d].id] = call[d].ticket /\ IsTicket(call[d].ticket)
        BY <3>1, <3>3 DEF CreateOK, Claiming
      <4> QED BY <4>1, <2>5, ApiAssumption
    <3> QED BY <3>2, <3>3
  <2>8. \A d \in Clients : call'[d] = IF d = c THEN k ELSE call[d]
    BY <2>3 DEF IInv
  <2>9. TablesOK'
    BY <1>1, <2>1 DEF IInv, TablesOK
  <2>10. \A d \in Clients : CallOK(call[d])'
    BY <1>1, <2>6, <2>8 DEF IInv, CallOK, CreateOK, ReadOK, Logged
  <2>11. DOMAIN call' = Clients
    BY <2>3 DEF IInv
  <2> QED BY <2>4, <2>7, <2>8, <2>9, <2>10, <2>11, ClaimsStayApart DEF IInv
<1> QED BY <1>2, <1>3 DEF Load

\* Writes of a creation leave the tables in order, and nothing of another run changes.
OwnWrite(c) ==
    /\ Claims(call[c])
    /\ TablesOK'
    /\ Logged \subseteq Logged'
    /\ \A id \in Ids \ {call[c].id} : tickets'[id] = tickets[id] /\ log'[id] = log[id]

LEMMA RowWritten ==
    ASSUME IInv, NEW c \in Clients, At(c, "save"), UNCHANGED <<log, cache>>,
           tickets' = [tickets EXCEPT ![call[c].id] = call[c].ticket]
    PROVE  /\ OwnWrite(c)
           /\ tickets'[call[c].id] = call[c].ticket /\ log'[call[c].id] = <<>>
<1> DEFINE id == call[c].id
           t == call[c].ticket
<1>1. /\ Claims(call[c]) /\ id \in Ids /\ IsTicket(t) /\ tickets[id] = None
      /\ DOMAIN tickets = Ids /\ DOMAIN log = Ids
  BY DEF IInv, CallOK, ReadOK, CreateOK, At, Claims, Claiming, TablesOK
<1>2. log[id] = <<>>
  BY <1>1, ApiAssumption DEF IInv, TablesOK, RowOK
<1>3. Len(Creation(t)) \in Nat
  BY CreationType
<1>4. RowOK(t, <<>>)
  BY <1>1, <1>3, PrefixStarts DEF RowOK
<1>5. TablesOK'
  BY <1>1, <1>2, <1>4 DEF IInv, TablesOK
<1> QED BY <1>1, <1>2, <1>5 DEF OwnWrite, Logged

LEMMA EventWritten ==
    ASSUME IInv, NEW c \in Clients, At(c, "append"), UNCHANGED <<tickets, cache>>, Written(c)
    PROVE  /\ OwnWrite(c)
           /\ call[c].done + 1 <= Len(Creation(call[c].ticket))
           /\ Prefix(log'[call[c].id], call[c].ticket, call[c].done + 1)
<1> DEFINE id == call[c].id
           t == call[c].ticket
           n == call[c].done
<1>1. /\ Claims(call[c]) /\ id \in Ids /\ IsTicket(t) /\ tickets[id] = t
      /\ n < Len(Creation(t)) /\ Prefix(log[id], t, n)
      /\ DOMAIN tickets = Ids /\ DOMAIN log = Ids
  BY DEF IInv, CallOK, ReadOK, CreateOK, At, Claims, Claiming, TablesOK
<1>2. Len(Creation(t)) \in Nat /\ n \in Nat
  BY <1>1, CreationType DEF Prefix
<1>3. log'[id] = Append(log[id], Creation(t)[n + 1])
  BY <1>1 DEF Written
<1>4. \A i \in Ids \ {id} : log'[i] = log[i]
  BY <1>1 DEF Written
<1>5. Prefix(log'[id], t, n + 1) /\ n + 1 \in 0..Len(Creation(t))
  BY <1>1, <1>2, <1>3, PrefixGrows
<1>6. log'[id] # <<>>
  BY <1>2, <1>5, PrefixLength
<1>7. RowOK(t, log'[id])
  BY <1>1, <1>5 DEF RowOK
<1>8. DOMAIN log' = Ids
  BY <1>1 DEF Written
<1>9. TablesOK'
  BY <1>1, <1>4, <1>7, <1>8 DEF IInv, TablesOK
<1> QED BY <1>1, <1>2, <1>4, <1>5, <1>6, <1>9 DEF OwnWrite, Logged

\* The creation goes on after its write, or gives up.
LEMMA WriteKeeps ==
    ASSUME IInv, NEW c \in Clients, NEW k, OwnWrite(c), call' = [call EXCEPT ![c] = k],
           CallOK(call[c])', Claims(k) => k.id = call[c].id
    PROVE  IInv'
<1>1. \A d \in Clients : call'[d] = IF d = c THEN k ELSE call[d]
  BY DEF IInv
<1>2. \A d \in Clients : CallOK(call[d])'
  <2>1. ASSUME NEW d \in Clients PROVE CallOK(call[d])'
    <3>1. CASE d = c
      BY <3>1
    <3>2. CASE d # c
      BY <1>1, <3>2, OtherCalls DEF OwnWrite
    <3> QED BY <3>1, <3>2
  <2> QED BY <2>1
<1>3. ASSUME NEW d \in Clients, NEW e \in Clients, d # e, Claims(call'[d]), Claims(call'[e])
      PROVE  call'[d].id # call'[e].id
  BY <1>1, <1>3 DEF IInv, OwnWrite
<1> QED BY <1>1, <1>2, <1>3 DEF IInv, OwnWrite, Claims

LEMMA SaveTicketKeeps ==
    ASSUME IInv, NEW c \in Clients, SaveTicket(c)
    PROVE  IInv'
<1> DEFINE k == [call[c] EXCEPT !.stage = "append"]
<1>1. OwnWrite(c) /\ tickets'[call[c].id] = call[c].ticket /\ log'[call[c].id] = <<>>
  BY RowWritten DEF SaveTicket
<1>2. /\ CallOK(call[c]) /\ CreateOK(call[c]) /\ call[c].op = "create" /\ call[c].stage = "save"
      /\ call[c].done = 0 /\ IsTicket(call[c].ticket) /\ call[c].id \in Ids
  BY <1>1 DEF OwnWrite, Claims, IInv, CallOK, CreateOK, SaveTicket, At, Claiming
<1>3. call' = [call EXCEPT ![c] = k]
  BY DEF SaveTicket, IInv
<1>4. /\ call'[c] = k /\ DOMAIN k = DOMAIN Idle
      /\ k.stage = "append" /\ k.op = "create" /\ k.id = call[c].id
      /\ k.ticket = call[c].ticket /\ k.todo = call[c].todo /\ k.owed = {} /\ k.done = 0
  BY <1>2, <1>3, IdleDomain DEF IInv, CallOK, CreateOK
<1> HIDE DEF k
<1>5. Prefix(<<>>, call[c].ticket, 0) /\ 0 < Len(Creation(call[c].ticket))
  <2>1. Prefix(<<>>, call[c].ticket, 0)
    BY PrefixStarts
  <2>2. 0 < Len(Creation(call[c].ticket))
    BY CreationLength
  <2> QED BY <2>1, <2>2
<1>6. CreateOK(call[c])'
  <2>1. call'[c].stage = "append" /\ call'[c].id = call[c].id /\ call'[c].ticket = call[c].ticket
        /\ call'[c].done = 0 /\ call'[c].owed = {}
    BY <1>4
  <2>2. Prefix(log'[call'[c].id], call'[c].ticket, call'[c].done)
    BY <1>1, <1>5, <2>1
  <2>3. call'[c].done < Len(Creation(call'[c].ticket))
    BY <1>5, <2>1
  <2> QED BY <1>1, <1>2, <2>1, <2>2, <2>3 DEF CreateOK, Claiming, Created
<1>7. CallOK(call[c])'
  BY <1>2, <1>4, <1>6 DEF CallOK, Stages
<1> QED BY <1>1, <1>3, <1>4, <1>7, WriteKeeps

LEMMA AppendEventKeeps ==
    ASSUME IInv, NEW c \in Clients, AppendEvent(c)
    PROVE  IInv'
<1> DEFINE n == call[c].done + 1
           t == call[c].ticket
           stage == IF n = Len(Creation(t)) THEN "history" ELSE "append"
           k == [call[c] EXCEPT !.done = n, !.stage = stage]
<1>1. OwnWrite(c) /\ n <= Len(Creation(t)) /\ Prefix(log'[call[c].id], t, n)
  BY EventWritten DEF AppendEvent
<1>2. /\ CallOK(call[c]) /\ CreateOK(call[c]) /\ call[c].op = "create"
      /\ call[c].stage = "append" /\ IsTicket(t) /\ call[c].id \in Ids
      /\ tickets'[call[c].id] = t
  BY <1>1 DEF OwnWrite, Claims, IInv, CallOK, CreateOK, AppendEvent, At, Claiming
<1>3. call' = [call EXCEPT ![c] = k]
  BY DEF AppendEvent, IInv
<1>4. /\ call'[c] = k /\ DOMAIN k = DOMAIN Idle
      /\ k.stage = stage /\ k.op = "create" /\ k.id = call[c].id
      /\ k.ticket = t /\ k.todo = call[c].todo /\ k.owed = {} /\ k.done = n
  BY <1>2, <1>3, IdleDomain DEF IInv, CallOK, CreateOK
<1> HIDE DEF k
<1>5. CASE n = Len(Creation(t))
  <2>1. log'[call[c].id] = Creation(t)
    BY <1>1, <1>5, PrefixEnds
  <2> QED
    <3>1. k.stage = "history"
      BY <1>4, <1>5
    <3>2. CallOK(call[c])'
      BY <1>2, <1>4, <2>1, <3>1 DEF CallOK, CreateOK, Claiming, Created, Stages
    <3> QED BY <1>1, <1>3, <1>4, <3>2, WriteKeeps
<1>6. CASE n # Len(Creation(t))
  <2>1. Len(Creation(t)) \in Nat /\ n \in Nat
    BY <1>1, CreationType DEF Prefix
  <2>2. k.stage = "append" /\ n < Len(Creation(t))
    BY <1>1, <1>4, <1>6, <2>1
  <2>3. CallOK(call[c])'
    BY <1>1, <1>2, <1>4, <2>2 DEF CallOK, CreateOK, Claiming, Created, Stages
  <2> QED BY <1>1, <1>3, <1>4, <2>3, WriteKeeps
<1> QED BY <1>5, <1>6

-----------------------------------------------------------------------------
\* The reads.  The hypotheses say what a read deals with in the step.
LEMMA OnwardsKeeps ==
    ASSUME IInv, NEW c \in Clients, NEW todo \in SUBSET Ids, NEW given,
           Onwards(c, todo, given), UNCHANGED <<tickets, log>>,
           cache' \in [Workflows -> {"absent", "compiled", "stored"}],
           call[c].op = "runs", call[c].owed \ given \subseteq todo
    PROVE  IInv'
<1>1. CASE todo = {}
  <2>1. Return(c, "ok", given) /\ "ok" \in Statuses /\ call[c].owed \subseteq given
    BY <1>1 DEF Onwards, Statuses
  <2> QED BY <2>1, ReturnKeeps
<1>2. CASE todo # {}
  <2> DEFINE owed == call[c].owed \ given
             k == [call[c] EXCEPT !.stage = "history", !.todo = todo, !.owed = owed]
  <2>1. call' = [call EXCEPT ![c] = k]
    BY <1>2 DEF Onwards, IInv
  <2>2. CallOK(call[c]) /\ ReadOK(call[c])
    BY DEF IInv, CallOK
  <2>3. /\ DOMAIN k = DOMAIN Idle /\ k.stage = "history" /\ k.op = "runs"
        /\ k.todo = todo /\ k.owed = owed
    BY <2>2, IdleDomain DEF CallOK
  <2> HIDE DEF k
  <2>4. CallOK(k) /\ ~Claims(k)
    BY <2>2, <2>3 DEF CallOK, ReadOK, Claims, Stages, Statuses
  <2> QED BY <2>1, <2>4, OneCall
<1> QED BY <1>1, <1>2

LEMMA FoundKeeps ==
    ASSUME IInv, NEW c \in Clients, Found(c), UNCHANGED <<tickets, log>>,
           cache' \in [Workflows -> {"absent", "compiled", "stored"}],
           call[c].stage \in {"ticket", "definition"}
    PROVE  IInv'
<1>1. CallOK(call[c])
  BY DEF IInv
<1>2. CASE call[c].op = "runs"
  <2>1. Onwards(c, call[c].todo, {call[c].id})
    BY <1>2 DEF Found
  <2>2. /\ call[c].todo \in SUBSET Ids
        /\ call[c].owed \ {call[c].id} \subseteq call[c].todo
    BY <1>1, <1>2 DEF CallOK, ReadOK
  <2> QED BY <1>2, <2>1, <2>2, OnwardsKeeps
<1>3. CASE call[c].op # "runs"
  <2>1. Return(c, "ok", {call[c].id}) /\ "ok" \in Statuses
    BY <1>3 DEF Found, Statuses
  <2>2. call[c].op = "create" => call[c].stage \in Created
    BY <1>1 DEF CallOK, CreateOK, Claiming, Created
  <2>3. call[c].op # "create" => call[c].owed \subseteq {call[c].id}
    BY <1>1, <1>3 DEF CallOK, ReadOK
  <2> QED BY <2>1, <2>2, <2>3, ReturnKeeps
<1> QED BY <1>2, <1>3

LEMMA NotReadKeeps ==
    ASSUME IInv, NEW c \in Clients, NEW id, NEW missed,
           NotRead(c, id, missed), UNCHANGED <<tickets, log>>,
           cache' \in [Workflows -> {"absent", "compiled", "stored"}],
           call[c].op = "runs" => call[c].owed \ missed \subseteq call[c].todo \ {id},
           call[c].op \notin {"runs", "create"} => call[c].owed \subseteq missed
    PROVE  IInv'
<1>1. CallOK(call[c])
  BY DEF IInv
<1>2. CASE call[c].op = "runs"
  <2>1. Onwards(c, call[c].todo \ {id}, missed)
    BY <1>2 DEF NotRead
  <2>2. call[c].todo \ {id} \in SUBSET Ids
    BY <1>1 DEF CallOK
  <2> QED BY <1>2, <2>1, <2>2, OnwardsKeeps
<1>3. CASE call[c].op # "runs"
  <2>1. Return(c, "failed", missed) /\ "failed" \in Statuses
    BY <1>3 DEF NotRead, Statuses
  <2> QED BY <1>3, <2>1, ReturnKeeps
<1> QED BY <1>2, <1>3

\* A call that goes on to the next read of the run it reads.
LEMMA GoesOn ==
    ASSUME IInv, NEW c \in Clients, NEW k, call' = [call EXCEPT ![c] = k],
           UNCHANGED <<tickets, log, cache>>,
           DOMAIN k = DOMAIN Idle, k.op = call[c].op, k.ticket = call[c].ticket,
           k.owed = call[c].owed, k.todo \subseteq call[c].todo,
           call[c].stage \in {"history", "row"}, k.stage \in {"row", "definition"},
           k.op = "create" => k.id = call[c].id,
           k.op # "create" => k.owed \subseteq {k.id} \union (IF k.op = "runs" THEN k.todo ELSE {})
    PROVE  IInv'
<1>1. CallOK(call[c])
  BY DEF IInv
<1>2. CallOK(k) /\ (Claims(k) => Claims(call[c]) /\ k.id = call[c].id)
  <2>1. CASE k.op = "create"
    <3>1. CreateOK(call[c]) /\ CreateOK(k)
      BY <1>1, <2>1 DEF CallOK, CreateOK, Created, Claiming
    <3> QED BY <1>1, <2>1, <3>1 DEF CallOK, CreateOK, Claims, Stages, Created, Claiming
  <2>2. CASE k.op # "create"
    BY <1>1, <2>2 DEF CallOK, ReadOK, Claims, Stages, Statuses
  <2> QED BY <2>1, <2>2
<1>3. cache \in [Workflows -> {"absent", "compiled", "stored"}]
  BY DEF IInv, TablesOK
<1> QED BY <1>2, <1>3, OneCall

LEMMA HistoryKeeps ==
    ASSUME IInv, NEW c \in Clients, History(c)
    PROVE  IInv'
<1>1. /\ CallOK(call[c]) /\ call[c].stage = "history"
      /\ UNCHANGED <<tickets, log, cache>>
      /\ cache \in [Workflows -> {"absent", "compiled", "stored"}]
  BY DEF IInv, TablesOK, History, At
<1>2. ASSUME NEW id \in Target(c),
             call' = [call EXCEPT ![c].id = id, ![c].todo = @ \ {id}, ![c].stage = "row"]
      PROVE  IInv'
  <2> DEFINE k == [call[c] EXCEPT !.id = id, !.todo = @ \ {id}, !.stage = "row"]
  <2>1. call' = [call EXCEPT ![c] = k]
    BY <1>2 DEF IInv
  <2>2. /\ DOMAIN k = DOMAIN Idle /\ k.op = call[c].op /\ k.ticket = call[c].ticket
        /\ k.owed = call[c].owed /\ k.todo = call[c].todo \ {id} /\ k.stage = "row"
        /\ k.id = id
    BY <1>1, IdleDomain DEF CallOK
  <2> HIDE DEF k
  <2>3. k.op # "runs" => k.id = call[c].id
    BY <2>2 DEF Target
  <2>4. k.op # "create" => k.owed \subseteq {k.id} \union (IF k.op = "runs" THEN k.todo ELSE {})
    BY <1>1, <2>2, <2>3 DEF CallOK, ReadOK
  <2> QED BY <1>1, <2>1, <2>2, <2>3, <2>4, GoesOn
<1>3. ASSUME NEW id \in Target(c), id \notin Logged, NotRead(c, id, {})
      PROVE  IInv'
  <2>1. call[c].op = "runs" => call[c].owed \ {} \subseteq call[c].todo \ {id}
    BY <1>1, <1>3 DEF CallOK, ReadOK
  <2>2. call[c].op \notin {"runs", "create"} => call[c].owed \subseteq {}
    BY <1>1, <1>3 DEF CallOK, ReadOK, Target
  <2> QED BY <1>1, <1>3, <2>1, <2>2, NotReadKeeps
<1> QED BY <1>1, <1>2, <1>3 DEF History

\* A run in the log has its row.
LEMMA LoggedHasRow ==
    ASSUME IInv, NEW id \in Logged
    PROVE  tickets[id] # None
BY ApiAssumption DEF IInv, TablesOK, RowOK, Logged

LEMMA RowKeeps ==
    ASSUME IInv, NEW c \in Clients, Row(c)
    PROVE  IInv'
<1>1. /\ CallOK(call[c]) /\ call[c].stage = "row"
      /\ UNCHANGED <<tickets, log, cache>>
      /\ cache \in [Workflows -> {"absent", "compiled", "stored"}]
  BY DEF IInv, TablesOK, Row, At
<1>2. ASSUME call' = [call EXCEPT ![c].workflow = tickets[call[c].id].workflow,
                                  ![c].stage = "definition"]
      PROVE  IInv'
  <2> DEFINE k == [call[c] EXCEPT !.workflow = tickets[call[c].id].workflow,
                                  !.stage = "definition"]
  <2>1. call' = [call EXCEPT ![c] = k]
    BY <1>2 DEF IInv
  <2>2. /\ DOMAIN k = DOMAIN Idle /\ k.op = call[c].op /\ k.ticket = call[c].ticket
        /\ k.owed = call[c].owed /\ k.todo = call[c].todo /\ k.stage = "definition"
        /\ k.id = call[c].id
    BY <1>1, IdleDomain DEF CallOK
  <2> HIDE DEF k
  <2>3. k.op # "create" => k.owed \subseteq {k.id} \union (IF k.op = "runs" THEN k.todo ELSE {})
    BY <1>1, <2>2 DEF CallOK, ReadOK
  <2> QED BY <1>1, <2>1, <2>2, <2>3, GoesOn
<1>3. ASSUME tickets[call[c].id] = None, NotRead(c, call[c].id, {})
      PROVE  IInv'
  <2>1. call[c].id \notin Logged
    BY <1>3, LoggedHasRow
  <2>2. call[c].op = "runs" => call[c].owed \ {} \subseteq call[c].todo \ {call[c].id}
    BY <1>1, <2>1 DEF CallOK, ReadOK
  <2>3. call[c].op \notin {"runs", "create"} => call[c].owed \subseteq {}
    BY <1>1, <2>1 DEF CallOK, ReadOK
  <2> QED BY <1>1, <1>3, <2>2, <2>3, NotReadKeeps
<1> QED BY <1>2, <1>3 DEF Row

LEMMA DefinitionKeeps ==
    ASSUME IInv, NEW c \in Clients, Definition(c)
    PROVE  IInv'
<1>1. cache' \in [Workflows -> {"absent", "compiled", "stored"}]
  BY DEF IInv, TablesOK, Definition, loadWorkflow
<1>2. call[c].stage \in {"ticket", "definition"}
  BY DEF Definition, At
<1> QED BY <1>1, <1>2, FoundKeeps DEF Definition

LEMMA ReadTableKeeps ==
    ASSUME IInv, NEW c \in Clients, ReadTable(c)
    PROVE  IInv'
<1>1. /\ CallOK(call[c]) /\ UNCHANGED <<tickets, log, cache>>
      /\ cache' \in [Workflows -> {"absent", "compiled", "stored"}]
      /\ "ok" \in Statuses
  BY DEF IInv, TablesOK, ReadTable, Statuses
<1>2. CASE At(c, "ticket") /\ tickets[call[c].id] # None /\ Found(c)
  BY <1>1, <1>2, FoundKeeps DEF At
<1>3. CASE At(c, "ticket") /\ tickets[call[c].id] = None /\ NotRead(c, call[c].id, {})
  <2>1. call[c].id \notin Logged
    BY <1>3, LoggedHasRow
  <2>2. call[c].op # "runs" /\ call[c].op # "create" /\ call[c].owed \subseteq {}
    BY <1>1, <1>3, <2>1 DEF CallOK, ReadOK, CreateOK, At, Claiming, Created
  <2> QED BY <1>1, <1>3, <2>2, NotReadKeeps
<1>4. CASE At(c, "events") /\ Return(c, "ok", {call[c].id} \intersect Logged)
  <2>1. call[c].op # "create" /\ call[c].owed \subseteq {call[c].id} \intersect Logged
    BY <1>1, <1>4 DEF CallOK, ReadOK, CreateOK, At, Claiming, Created
  <2> QED BY <1>1, <1>4, <2>1, ReturnKeeps
<1>5. CASE At(c, "tickets") /\ Return(c, "ok", {id \in Ids : tickets[id] # None})
  <2>1. call[c].op # "create" /\ call[c].owed \subseteq Logged
    BY <1>1, <1>5 DEF CallOK, ReadOK, CreateOK, At, Claiming, Created
  <2>2. Logged \subseteq {id \in Ids : tickets[id] # None}
    BY LoggedHasRow DEF Logged
  <2> QED BY <1>1, <1>5, <2>1, <2>2, ReturnKeeps
<1>6. CASE At(c, "workflows") /\ Return(c, "ok", {})
  <2>1. call[c].op # "create" /\ call[c].owed \subseteq {}
    BY <1>1, <1>6 DEF CallOK, ReadOK, CreateOK, At, Claiming, Created
  <2> QED BY <1>1, <1>6, <2>1, ReturnKeeps
<1> QED BY <1>2, <1>3, <1>4, <1>5, <1>6 DEF ReadTable

LEMMA ListRunsKeeps ==
    ASSUME IInv, NEW c \in Clients, ListRuns(c)
    PROVE  IInv'
<1>1. /\ Onwards(c, Logged, {}) /\ UNCHANGED <<tickets, log, cache>>
      /\ cache' \in [Workflows -> {"absent", "compiled", "stored"}]
      /\ Logged \in SUBSET Ids
  BY DEF IInv, TablesOK, ListRuns, Logged
<1>2. call[c].op = "runs" /\ call[c].owed \ {} \subseteq Logged
  BY DEF IInv, CallOK, ReadOK, CreateOK, ListRuns, At, Claiming, Created
<1> QED BY <1>1, <1>2, OnwardsKeeps

-----------------------------------------------------------------------------
\* Faults.
LEMMA ReadFailsKeeps ==
    ASSUME IInv, NEW c \in Clients, ReadFails(c)
    PROVE  IInv'
<1>1. /\ CallOK(call[c]) /\ UNCHANGED <<tickets, log, cache>>
      /\ cache' \in [Workflows -> {"absent", "compiled", "stored"}]
      /\ "failed" \in Statuses
  BY DEF IInv, TablesOK, ReadFails, Statuses
<1>2. CASE At(c, "load") /\ Fail(c)
  <2>1. call[c].op = "create"
    BY <1>1, <1>2 DEF CallOK, ReadOK, At
  <2> QED BY <1>1, <1>2, <2>1, FailKeeps
<1>3. ASSUME call[c].stage \in {"history", "row", "definition", "ticket", "events"},
             NEW id \in (IF At(c, "history") THEN Target(c) ELSE {call[c].id}),
             NotRead(c, id, {id})
      PROVE  IInv'
  <2>1. call[c].op = "runs" => call[c].owed \ {id} \subseteq call[c].todo \ {id}
    BY <1>1, <1>3 DEF CallOK, ReadOK, At
  <2>2. call[c].op \notin {"runs", "create"} => call[c].owed \subseteq {id}
    BY <1>1, <1>3 DEF CallOK, ReadOK, At, Target
  <2> QED BY <1>1, <1>3, <2>1, <2>2, NotReadKeeps
<1>4. CASE call[c].stage \in {"tickets", "runs", "workflows"} /\ Return(c, "failed", Ids)
  <2>1. call[c].op # "create" => call[c].owed \subseteq Ids
    BY <1>1, <1>4 DEF CallOK, ReadOK, Logged
  <2> QED BY <1>1, <1>4, <2>1, ReturnKeeps
<1> QED BY <1>2, <1>3, <1>4 DEF ReadFails

LEMMA FailAfterWrite ==
    ASSUME IInv, NEW c \in Clients, OwnWrite(c), Fail(c)
    PROVE  IInv'
<1> DEFINE k == [Idle EXCEPT !.stage = "failed", !.owed = call[c].owed \ {}]
<1>1. call' = [call EXCEPT ![c] = k] /\ DOMAIN call = Clients
  BY DEF IInv, Fail, Return
<1>2. call[c].owed = {}
  BY DEF IInv, CallOK, CreateOK, OwnWrite, Claims
<1>3. /\ DOMAIN k = DOMAIN Idle /\ k.stage = "failed" /\ k.op = "none" /\ k.todo = {}
      /\ k.owed = {} /\ call'[c] = k
  BY <1>1, <1>2 DEF Idle
<1> HIDE DEF k
<1>4. CallOK(call[c])' /\ ~Claims(k)
  BY <1>3 DEF CallOK, ReadOK, Claims, Statuses
<1> QED BY <1>1, <1>4, WriteKeeps

LEMMA WriteFailsKeeps ==
    ASSUME IInv, NEW c \in Clients, WriteFails(c)
    PROVE  IInv'
<1>1. Fail(c) /\ UNCHANGED cache
  BY DEF WriteFails
<1>2. ASSUME At(c, "save") \/ At(c, "append"), UNCHANGED <<tickets, log>>
      PROVE  IInv'
  <2>1. call[c].op = "create"
    BY <1>2 DEF IInv, CallOK, ReadOK, At
  <2>2. cache' \in [Workflows -> {"absent", "compiled", "stored"}]
    BY <1>1 DEF IInv, TablesOK
  <2> QED BY <1>1, <1>2, <2>1, <2>2, FailKeeps
<1>3. ASSUME At(c, "save"), UNCHANGED log,
             tickets' = [tickets EXCEPT ![call[c].id] = call[c].ticket]
      PROVE  IInv'
  BY <1>1, <1>3, RowWritten, FailAfterWrite
<1>4. ASSUME At(c, "append"), UNCHANGED tickets, Written(c)
      PROVE  IInv'
  BY <1>1, <1>4, EventWritten, FailAfterWrite
<1> QED BY <1>2, <1>3, <1>4 DEF WriteFails

LEMMA RestartKeeps ==
    ASSUME IInv, Restart
    PROVE  IInv'
<1>1. TablesOK'
  BY DEF IInv, TablesOK, Restart, Boots
<1>2. \A c \in Clients : call'[c] = Idle
  BY DEF Restart
<1>3. \A c \in Clients : CallOK(call[c])'
  BY <1>2 DEF CallOK, ReadOK, Idle, Statuses
<1>4. \A c \in Clients : ~Claims(call[c])'
  BY <1>2, IdleOK DEF Claims
<1> QED BY <1>1, <1>3, <1>4 DEF IInv, Restart

-----------------------------------------------------------------------------
LEMMA InitIInv == Init => IInv
<1> SUFFICES ASSUME Init PROVE IInv
  OBVIOUS
<1>1. TablesOK
  BY DEF Init, TablesOK, RowOK, Boots
<1>2. \A c \in Clients : call[c] = Idle
  BY DEF Init
<1>3. \A c \in Clients : CallOK(call[c]) /\ ~Claims(call[c])
  BY <1>2, IdleOK
<1> QED BY <1>1, <1>3 DEF IInv, Init, Claims

LEMMA NextIInv == IInv /\ [Next]_vars => IInv'
<1> SUFFICES ASSUME IInv, [Next]_vars PROVE IInv'
  OBVIOUS
<1>1. CASE Restart
  BY <1>1, RestartKeeps
<1>2. ASSUME NEW c \in Clients, NEW t \in Transports, NEW input \in Inputs,
             CreateTicket(c, t, input)
      PROVE  IInv'
  BY <1>2, CreateTicketKeeps
<1>3. ASSUME NEW c \in Clients, NEW id \in Ids, ReadOne(c, id)
      PROVE  IInv'
  BY <1>3, ReadOneKeeps
<1>4. ASSUME NEW c \in Clients, ReadAll(c)
      PROVE  IInv'
  BY <1>4, ReadAllKeeps
<1>5. ASSUME NEW c \in Clients, Serve(c)
      PROVE  IInv'
  BY <1>5, LoadKeeps, SaveTicketKeeps, AppendEventKeeps, HistoryKeeps, RowKeeps,
     DefinitionKeeps, ReadTableKeeps, ListRunsKeeps DEF Serve
<1>6. ASSUME NEW c \in Clients, ReadFails(c) \/ WriteFails(c)
      PROVE  IInv'
  BY <1>6, ReadFailsKeeps, WriteFailsKeeps
<1>7. CASE UNCHANGED vars
  <2>1. UNCHANGED <<tickets, log, cache, call>>
    BY <1>7 DEF vars
  <2>2. TablesOK'
    BY <2>1 DEF IInv, TablesOK
  <2>3. \A c \in Clients : CallOK(call[c])'
    BY <2>1 DEF IInv, CallOK, CreateOK, ReadOK, Logged
  <2> QED BY <2>1, <2>2, <2>3 DEF IInv, Claims
<1> QED BY <1>1, <1>2, <1>3, <1>4, <1>5, <1>6, <1>7 DEF Next

\* The inductive invariant holds.
THEOREM Invariance == Spec => []IInv
BY InitIInv, NextIInv, PTL DEF Spec

\* However a creation ends, the log has the first part of it and speaks of the row in the
\* table.
THEOREM CreationInOrderHolds == Spec => []CreationInOrder
<1>1. IInv => CreationInOrder
  <2> SUFFICES ASSUME IInv, NEW id \in Logged
               PROVE  /\ id \in Rows
                      /\ log[id] = SubSeq(Creation(tickets[id]), 1, Len(log[id]))
    BY DEF CreationInOrder
  <2>1. id \in Rows
    BY LoggedHasRow DEF Rows, Logged
  <2>2. PICK n \in 0..Len(Creation(tickets[id])) : Prefix(log[id], tickets[id], n)
    BY <2>1 DEF IInv, TablesOK, RowOK, Rows
  <2>3. Len(log[id]) = n
    BY <2>2, CreationLength, PrefixLength
  <2> QED BY <2>1, <2>2, <2>3 DEF Prefix
<1> QED BY <1>1, Invariance, PTL

\* A ticket that is returned to its caller has its row and every event of its creation.
THEOREM AcknowledgedIsCompleteHolds == Spec => []AcknowledgedIsComplete
<1>1. IInv => AcknowledgedIsComplete
  BY DEF IInv, CallOK, CreateOK, Created, AcknowledgedIsComplete, At
<1> QED BY <1>1, Invariance, PTL

\* A read that is answered has dealt with every run that was there when it was asked for.
THEOREM ReadsFindRunsHolds == Spec => []ReadsFindRuns
<1>1. IInv => ReadsFindRuns
  BY DEF IInv, CallOK, CreateOK, ReadOK, ReadsFindRuns
<1> QED BY <1>1, Invariance, PTL

-----------------------------------------------------------------------------
(***************************************************************************)
(* Routing: what Apply decides depends on how values are rendered and on   *)
(* nothing else.                                                           *)
(***************************************************************************)
\* Two collections of values with the same renderings.
Alike(f, g) == DOMAIN f = DOMAIN g /\ \A k \in DOMAIN f : toString(f[k]) = toString(g[k])

\* float64 keeps the numbers it has.
LEMMA HeldExact ==
    ASSUME NEW w, Held(w), w.type \in Numbers
    PROVE  float64(w.is) = w.is
<1>1. w.is \in Int /\ MaxExact \in Int /\ w.is \in -MaxExact .. MaxExact
  BY RoutingAssumption DEF Held
<1> QED BY <1>1 DEF float64

LEMMA YAMLAlike ==
    ASSUME NEW x, x.type \in Authored, Held(x)
    PROVE  toString(throughStore(fromYAML(x))) = toString(fromYAML(x))
<1>1. CASE x.type = "integer"
  <2>1. fromYAML(x) = [type |-> "int", is |-> x.is]
    BY <1>1 DEF fromYAML, Numbers
  <2>2. throughStore(fromYAML(x)) = [type |-> "float64", is |-> x.is]
    BY <1>1, <2>1, HeldExact DEF throughStore, Numbers
  <2> QED BY <2>1, <2>2 DEF toString
<1>2. CASE x.type # "integer"
  <2>1. fromYAML(x).type \in {"float64", "string", "bool"}
    BY <1>2 DEF fromYAML, Numbers, Authored
  <2> QED BY <2>1 DEF throughStore
<1> QED BY <1>1, <1>2

LEMMA LiteralAlike ==
    ASSUME NEW w, Plain(w), Held(w)
    PROVE  toString(parseLiteral(w)) = toString(fromJSON(w))
<1>1. CASE w.type \in Numbers
  <2>1. parseLiteral(w).type = "string" /\ parseLiteral(w).is = ToString(w.is)
    BY <1>1 DEF parseLiteral, Plain
  <2>2. fromJSON(w).type = "float64" /\ fromJSON(w).is = w.is
    BY <1>1, HeldExact DEF fromJSON
  <2> QED BY <2>1, <2>2 DEF toString
<1>2. CASE w.type \notin Numbers
  BY <1>2 DEF parseLiteral, fromJSON
<1> QED BY <1>1, <1>2

LEMMA FieldsAlike ==
    ASSUME NEW fields, NEW a, NEW b,
           fields # NotAnObject =>
              \A k \in DOMAIN fields :
                 \/ Plain(fields[k]) /\ Held(fields[k])
                 \/ toString(fieldsOf(a, fields)[k]) = toString(fieldsOf(b, fields)[k])
    PROVE  Alike(fieldsOf(a, fields), fieldsOf(b, fields))
<1>1. CASE fields = NotAnObject
  BY <1>1 DEF fieldsOf, Alike
<1>2. CASE fields # NotAnObject
  <2>1. ASSUME NEW x
        PROVE  /\ DOMAIN fieldsOf(x, fields) = DOMAIN fields
               /\ \A k \in DOMAIN fields :
                     \/ fieldsOf(x, fields)[k] = parseLiteral(fields[k])
                     \/ fieldsOf(x, fields)[k] = fromJSON(fields[k])
    BY <1>2 DEF fieldsOf
  <2>2. ASSUME NEW k \in DOMAIN fields
        PROVE  toString(fieldsOf(a, fields)[k]) = toString(fieldsOf(b, fields)[k])
    <3>1. CASE Plain(fields[k]) /\ Held(fields[k])
      <4>1. toString(parseLiteral(fields[k])) = toString(fromJSON(fields[k]))
        BY <3>1, LiteralAlike
      <4> QED BY <2>1, <4>1
    <3> QED BY <1>2, <3>1
  <2> QED BY <2>1, <2>2 DEF Alike
<1> QED BY <1>1, <1>2

\* The same rules, but for the representation of their values.
SameRules(r, s) ==
    /\ DOMAIN r = DOMAIN s
    /\ \A i \in DOMAIN r : /\ Alike(r[i].if, s[i].if)
                           /\ r[i].queue = s[i].queue
                           /\ r[i].assignee = s[i].assignee
                           /\ r[i].priority = s[i].priority

LEMMA RulesAlike ==
    ASSUME NEW w \in Workflows, RulesHeld(w),
           NEW a \in {"compiled", "stored"}, NEW b \in {"compiled", "stored"}
    PROVE  /\ SameRules(RulesOf(w, a), RulesOf(w, b))
           /\ DOMAIN RulesOf(w, a) \subseteq Nat
<1>1. ASSUME NEW source \in {"compiled", "stored"}
      PROVE  /\ DOMAIN RulesOf(w, source) = DOMAIN Rules[w]
             /\ \A i \in DOMAIN Rules[w] :
                  /\ DOMAIN RulesOf(w, source)[i].if = DOMAIN Rules[w][i].if
                  /\ \A k \in DOMAIN Rules[w][i].if :
                        toString(RulesOf(w, source)[i].if[k]) = toString(fromYAML(Rules[w][i].if[k]))
                  /\ RulesOf(w, source)[i].queue = Rules[w][i].queue
                  /\ RulesOf(w, source)[i].assignee = Rules[w][i].assignee
                  /\ RulesOf(w, source)[i].priority = Rules[w][i].priority
  <2> DEFINE value(x) == IF source = "compiled" THEN fromYAML(x) ELSE throughStore(fromYAML(x))
             rule(i) == [Rules[w][i] EXCEPT !.if = [k \in DOMAIN @ |-> value(@[k])]]
  <2>1. RulesOf(w, source) = [i \in DOMAIN Rules[w] |-> rule(i)]
    BY DEF RulesOf
  <2>2. ASSUME NEW x, x.type \in Authored, Held(x)
        PROVE  toString(value(x)) = toString(fromYAML(x))
    BY <2>2, YAMLAlike
  <2>3. ASSUME NEW i \in DOMAIN Rules[w]
        PROVE  /\ rule(i).if = [k \in DOMAIN Rules[w][i].if |-> value(Rules[w][i].if[k])]
               /\ rule(i).queue = Rules[w][i].queue
               /\ rule(i).assignee = Rules[w][i].assignee
               /\ rule(i).priority = Rules[w][i].priority
    BY ApiAssumption
  <2>4. ASSUME NEW i \in DOMAIN Rules[w], NEW k \in DOMAIN Rules[w][i].if
        PROVE  toString(RulesOf(w, source)[i].if[k]) = toString(fromYAML(Rules[w][i].if[k]))
    <3>1. RulesOf(w, source)[i].if[k] = value(Rules[w][i].if[k])
      BY <2>1, <2>3
    <3>2. Rules[w][i].if[k].type \in Authored /\ Held(Rules[w][i].if[k])
      BY ApiAssumption DEF RulesHeld
    <3> HIDE DEF value
    <3> QED BY <2>2, <3>1, <3>2
  <2>5. ASSUME NEW i \in DOMAIN Rules[w]
        PROVE  /\ DOMAIN RulesOf(w, source)[i].if = DOMAIN Rules[w][i].if
               /\ RulesOf(w, source)[i].queue = Rules[w][i].queue
               /\ RulesOf(w, source)[i].assignee = Rules[w][i].assignee
               /\ RulesOf(w, source)[i].priority = Rules[w][i].priority
    BY <2>1, <2>3
  <2>6. DOMAIN RulesOf(w, source) = DOMAIN Rules[w]
    BY <2>1
  <2> QED BY <2>4, <2>5, <2>6
<1>2. DOMAIN RulesOf(w, a) \subseteq Nat
  BY <1>1, ApiAssumption
<1>3. SameRules(RulesOf(w, a), RulesOf(w, b))
  BY <1>1 DEF SameRules, Alike
<1> QED BY <1>2, <1>3

LEMMA MatchAlike ==
    ASSUME NEW f, NEW g, NEW c, NEW d, Alike(f, g), Alike(c, d)
    PROVE  matchRule(f, c) <=> matchRule(g, d)
BY DEF Alike, matchRule, equal

\* There is a first rule among those that match.
LEMMA LeastElement ==
    ASSUME NEW T, T \subseteq Nat, T # {}
    PROVE  \E x \in T : \A y \in T : x <= y
<1> DEFINE R == {ss \in Nat \X Nat : ss[1] < ss[2]}
<1>1. IsWellFoundedOn(R, Nat)
  BY NatLessThanWellFounded DEF OpToRel
<1> HIDE DEF R
<1>2. PICK x \in T : \A y \in T : <<y, x>> \notin R
  BY <1>1, WFMin
<1>3. \A y \in T : ~(y < x)
  BY <1>2 DEF R
<1> QED BY <1>2, <1>3

\* The decision of Apply.
Decision(t) == <<t.queue, t.assignee, t.priority>>

LEMMA ApplyAlike ==
    ASSUME NEW t, NEW u, NEW r, NEW s, SameRules(r, s), DOMAIN r \subseteq Nat,
           Alike(t.fields, u.fields),
           {"queue", "assignee", "priority", "fields"} \subseteq DOMAIN t,
           {"queue", "assignee", "priority", "fields"} \subseteq DOMAIN u,
           Decision(t) = Decision(u)
    PROVE  Decision(Apply(t, r)) = Decision(Apply(u, s))
<1> DEFINE M(v, q) == {i \in DOMAIN q : matchRule(v.fields, q[i].if)}
           F(v, q) == CHOOSE i \in M(v, q) : \A j \in M(v, q) : i <= j
<1>1. M(t, r) = M(u, s)
  BY MatchAlike DEF SameRules
<1>2. CASE M(t, r) = {}
  BY <1>1, <1>2 DEF Apply
<1>3. CASE M(t, r) # {}
  <2>1. F(t, r) = F(u, s)
    BY <1>1
  <2>2. ASSUME NEW v, NEW q, M(v, q) # {},
               {"queue", "assignee", "priority", "fields"} \subseteq DOMAIN v
        PROVE  /\ Apply(v, q).queue = Override(v.queue, q[F(v, q)].queue)
               /\ Apply(v, q).assignee = Override(v.assignee, q[F(v, q)].assignee)
               /\ Apply(v, q).priority = Override(v.priority, q[F(v, q)].priority)
    BY <2>2 DEF Apply
  <2>3. F(t, r) \in DOMAIN r
    <3>1. M(t, r) \subseteq Nat /\ M(t, r) \subseteq DOMAIN r
      OBVIOUS
    <3>2. \E i \in M(t, r) : \A j \in M(t, r) : i <= j
      BY <1>3, <3>1, LeastElement
    <3> QED BY <3>1, <3>2
  <2> QED BY <1>1, <1>3, <2>1, <2>2, <2>3 DEF SameRules, Decision
<1> QED BY <1>2, <1>3

\* A ticket before it is routed.
Unrouted(transport, input) ==
    [input |-> input, workflow |-> input.workflow,
     fields |-> fieldsOf(transport, input.fields),
     queue |-> Unset, assignee |-> Unset, priority |-> "normal"]

LEMMA ApplyKeeps ==
    ASSUME NEW transport, NEW input, NEW rules
    PROVE  /\ NewTicket(transport, input, rules).input = input
           /\ NewTicket(transport, input, rules).workflow = input.workflow
           /\ NewTicket(transport, input, rules).priority # Unset
<1> DEFINE t == Unrouted(transport, input)
<1>1. /\ DOMAIN t = {"input", "workflow", "fields", "queue", "assignee", "priority"}
      /\ t.input = input /\ t.workflow = input.workflow /\ t.priority # Unset
  BY ApiAssumption DEF Unrouted
<1>2. NewTicket(transport, input, rules) = Apply(t, rules)
  BY DEF NewTicket, Unrouted
<1> HIDE DEF t
<1>3. /\ Apply(t, rules).input = input /\ Apply(t, rules).workflow = input.workflow
      /\ Apply(t, rules).priority # Unset
  BY <1>1 DEF Apply, Override
<1> QED BY <1>2, <1>3

LEMMA TicketType ==
    ASSUME NEW t, IsTicket(t)
    PROVE  t.input \in Inputs /\ t.workflow \in Workflows /\ t.priority # Unset
<1>1. PICK transport \in Transports, input \in Inputs, source \in {"compiled", "stored"} :
        /\ input.workflow \in Workflows
        /\ t = NewTicket(transport, input, RulesOf(input.workflow, source))
  BY DEF IsTicket
<1> QED BY <1>1, ApplyKeeps

\* Routing leaves the fields of the request as they are.
LEMMA FieldsStay ==
    ASSUME NEW transport, NEW input, NEW rules, NEW k \in DOMAIN fieldsOf(transport, input.fields),
           k # "_routed_by"
    PROVE  NewTicket(transport, input, rules).fields[k] = fieldsOf(transport, input.fields)[k]
<1> DEFINE t == Unrouted(transport, input)
<1>1. "fields" \in DOMAIN t /\ t.fields = fieldsOf(transport, input.fields)
  BY DEF Unrouted
<1>2. NewTicket(transport, input, rules) = Apply(t, rules)
  BY DEF NewTicket, Unrouted
<1> HIDE DEF t
<1>3. Apply(t, rules).fields[k] = t.fields[k]
  BY <1>1 DEF Apply
<1> QED BY <1>1, <1>2, <1>3

LEMMA TicketsAlike ==
    ASSUME NEW t, NEW u, IsTicket(t), IsTicket(u), t.input = u.input,
           t.input.fields # NotAnObject =>
              \A k \in DOMAIN t.input.fields :
                 \/ Plain(t.input.fields[k]) /\ Held(t.input.fields[k])
                 \/ SameField(t, u, k),
           RulesHeld(t.input.workflow)
    PROVE  Decision(t) = Decision(u)
<1>1. PICK x \in Transports, input \in Inputs, a \in {"compiled", "stored"} :
        input.workflow \in Workflows /\ t = NewTicket(x, input, RulesOf(input.workflow, a))
  BY DEF IsTicket
<1>2. PICK y \in Transports, other \in Inputs, b \in {"compiled", "stored"} :
        other.workflow \in Workflows /\ u = NewTicket(y, other, RulesOf(other.workflow, b))
  BY DEF IsTicket
<1>3. t.input = input /\ other = input
  BY <1>1, <1>2, ApplyKeeps
<1> DEFINE v == Unrouted(x, input)
           w == Unrouted(y, input)
           r == RulesOf(input.workflow, a)
           s == RulesOf(input.workflow, b)
<1>4. t = Apply(v, r) /\ u = Apply(w, s)
  BY <1>1, <1>2, <1>3 DEF NewTicket, Unrouted
<1>5. ASSUME input.fields # NotAnObject, NEW k \in DOMAIN input.fields, SameField(t, u, k)
      PROVE  toString(fieldsOf(x, input.fields)[k]) = toString(fieldsOf(y, input.fields)[k])
  <2>1. /\ k \in DOMAIN fieldsOf(x, input.fields) /\ k \in DOMAIN fieldsOf(y, input.fields)
        /\ k # "_routed_by"
    BY <1>5 DEF fieldsOf, SameField
  <2>2. /\ t.fields[k] = fieldsOf(x, input.fields)[k]
        /\ u.fields[k] = fieldsOf(y, input.fields)[k]
    BY <1>1, <1>2, <1>3, <2>1, FieldsStay
  <2>3. toString(t.fields[k]) = toString(u.fields[k])
    BY <1>5 DEF SameField, toString
  <2> QED BY <2>2, <2>3
<1>6. Alike(fieldsOf(x, input.fields), fieldsOf(y, input.fields))
  BY <1>3, <1>5, FieldsAlike
<1>7. /\ Alike(v.fields, w.fields) /\ Decision(v) = Decision(w)
      /\ {"queue", "assignee", "priority", "fields"} \subseteq DOMAIN v
      /\ {"queue", "assignee", "priority", "fields"} \subseteq DOMAIN w
  BY <1>6 DEF Unrouted, Decision
<1>8. SameRules(r, s) /\ DOMAIN r \subseteq Nat
  BY <1>1, <1>3, RulesAlike
<1> HIDE DEF v, w, r, s
<1> QED BY <1>4, <1>7, <1>8, ApplyAlike

\* Tickets of the same request are routed alike, whatever the transport and the origin of the
\* definition, as long as float64 has the numbers of the rules, and every field of the request
\* has become the same value for both, or is one that the request spells as the engine does
\* and that float64 has.
THEOREM RoutedAlikeHolds == Spec => []RoutedAlike
<1>1. IInv => RoutedAlike
  <2> SUFFICES ASSUME IInv, NEW a \in Rows, NEW b \in Rows,
                      tickets[b].input = tickets[a].input,
                      tickets[a].input.fields # NotAnObject =>
                         \A k \in DOMAIN tickets[a].input.fields :
                            \/ /\ Plain(tickets[a].input.fields[k])
                               /\ Held(tickets[a].input.fields[k])
                            \/ SameField(tickets[a], tickets[b], k),
                      RulesHeld(tickets[a].input.workflow)
               PROVE  /\ tickets[a].queue = tickets[b].queue
                      /\ tickets[a].assignee = tickets[b].assignee
                      /\ tickets[a].priority = tickets[b].priority
    BY DEF RoutedAlike
  <2>1. IsTicket(tickets[a]) /\ IsTicket(tickets[b])
    BY DEF IInv, TablesOK, RowOK, Rows
  <2>2. Decision(tickets[a]) = Decision(tickets[b])
    BY <2>1, TicketsAlike
  <2> QED BY <2>2 DEF Decision
<1> QED BY <1>1, Invariance, PTL

\* The types of the rows, the log, the cache and the calls.
THEOREM TypeCorrect == Spec => []TypeOK
<1>1. ASSUME IInv, NEW id \in Rows
      PROVE  /\ tickets[id].input \in Inputs
             /\ tickets[id].workflow \in Workflows
             /\ tickets[id].priority # Unset
  <2>1. IsTicket(tickets[id])
    BY <1>1 DEF IInv, TablesOK, RowOK, Rows
  <2> QED BY <2>1, TicketType
<1>2. ASSUME IInv, NEW id \in Ids
      PROVE  Len(log[id]) <= 5
  <2>1. CASE log[id] = <<>>
    BY <2>1
  <2>2. CASE log[id] # <<>>
    <3>1. PICK n \in 0..Len(Creation(tickets[id])) : Prefix(log[id], tickets[id], n)
      BY <1>2, <2>2 DEF IInv, TablesOK, RowOK
    <3>2. Len(log[id]) = n
      BY <3>1, CreationLength, PrefixLength
    <3> QED BY <3>1, <3>2, CreationLength
  <2> QED BY <2>1, <2>2
<1>3. ASSUME IInv, NEW c \in Clients
      PROVE  /\ call[c].stage \in Stages \union Statuses \union {"idle"}
             /\ call[c].todo \union call[c].owed \subseteq Ids
  BY <1>3 DEF IInv, CallOK, CreateOK, ReadOK, Logged
<1>4. IInv => TypeOK
  BY <1>1, <1>2, <1>3 DEF TypeOK, IInv, TablesOK
<1> QED BY <1>4, Invariance, PTL
=============================================================================
