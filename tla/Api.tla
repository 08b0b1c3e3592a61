-------------------------------- MODULE Api --------------------------------
(***************************************************************************)
(* The API (api/graphql/schema.go, api/grpc/server.go) over the tables it  *)
(* reads and writes: CreateTicket and the reads of engine/engine.go on the *)
(* ticket rows and definitions of PostgresStore and on the event log.  A   *)
(* request is served by a goroutine, one database access at a time.  Any   *)
(* access may fail, with or without having taken effect, and the process   *)
(* may die and be started again.                                           *)
(*                                                                         *)
(* What happens to a run once it is created is the subject of Engine: log  *)
(* holds the events of its creation only.                                  *)
(***************************************************************************)
EXTENDS Routing, FiniteSets

CONSTANTS
    Clients,      \* goroutines that serve requests
    Ids,          \* what newID may answer, for a ticket and its run together
    Workflows,    \* the definitions (name and version) in the store
    Rules,        \* Rules[w]: the routing rules of w as authored
    Approval,     \* the workflows that start with an approval
    Inputs,       \* what callers ask to be created: [workflow, title, fields]
    NotAnObject,  \* fields that are JSON but no object
    None,         \* no row, no id, no workflow
    MaxFaults     \* bound: failed accesses and restarts

VARIABLES
    tickets,  \* the tickets table: tickets[id] is a row or None
    log,      \* log[id]: the events of the run, oldest first
    cache,    \* Engine.workflows: how the process came to know w, if it does
    call,     \* call[c]: the request that c serves, or has answered last
    faults    \* number of faults so far

vars == <<tickets, log, cache, call, faults>>

\* GraphQL with literals in the document or with JSON variables, and gRPC.
Transports == {"literals", "variables", "grpc"}

-----------------------------------------------------------------------------
\* The routing rules of w, compiled from YAML or read back from the store.
RulesOf(w, source) ==
    LET value(x) == IF source = "compiled" THEN fromYAML(x) ELSE throughStore(fromYAML(x))
    IN  [i \in DOMAIN Rules[w] |->
            [Rules[w][i] EXCEPT !.if = [k \in DOMAIN @ |-> value(@[k])]]]

\* The server has registered its directory, which may lack definitions of the store.
Boots == [Workflows -> {"compiled", "absent"}]

\* The fields CreateTicket works with.  GraphQL drops what is no object.
fieldsOf(transport, fields) ==
    IF fields = NotAnObject THEN <<>>
    ELSE [k \in DOMAIN fields |->
            IF transport = "literals" THEN parseLiteral(fields[k]) ELSE fromJSON(fields[k])]

\* What gRPC refuses before it calls the engine.  GraphQL asks for arguments that are
\* there, be they empty.
Refused(transport, input) ==
    transport = "grpc" /\ (input.title = Unset \/ input.fields = NotAnObject)

\* The ticket of a request, routed by the rules.  input is what the caller wrote.
NewTicket(transport, input, rules) ==
    Apply([input |-> input, workflow |-> input.workflow,
           fields |-> fieldsOf(transport, input.fields),
           queue |-> Unset, assignee |-> Unset, priority |-> "normal"], rules)

\* What the engine makes of the callers' requests, with the rules from either source.
IsTicket(t) ==
    \E transport \in Transports, input \in Inputs, source \in {"compiled", "stored"} :
        /\ input.workflow \in Workflows
        /\ t = NewTicket(transport, input, RulesOf(input.workflow, source))

\* None stands for no row; rules are numbered, have their four fields and speak
\* of values as Routing has them.
ASSUME ApiAssumption ==
    /\ ~IsTicket(None)
    /\ Unset # "normal"
    /\ \A w \in Workflows : DOMAIN Rules[w] \subseteq Nat
    /\ \A w \in Workflows : \A i \in DOMAIN Rules[w] :
            /\ {"if", "queue", "assignee", "priority"} \subseteq DOMAIN Rules[w][i]
            /\ \A k \in DOMAIN Rules[w][i].if : Rules[w][i].if[k].type \in Authored

\* The events CreateTicket appends, in order, with the ticket they speak of.
Creation(t) ==
    LET event(type) == [type |-> type, ticket |-> t]
    IN  <<event("TICKET_CREATED"), event("RUN_STARTED")>>
          \o (IF t.workflow \in Approval THEN <<event("APPROVAL_REQUESTED")>> ELSE <<>>)
          \o <<event("STEP_SCHEDULED"), event("TICKET_ASSIGNED")>>

-----------------------------------------------------------------------------
\* A goroutine: stage is the next access, or how the call ended.  id is the run
\* that is created or read, workflow the definition needed, done the number of events
\* appended, todo the runs a listing has still to read.  owed is for the properties: the
\* runs that were asked for and in the log when the request came, without those the
\* answer has and those whose own read failed.
Idle == [stage |-> "idle", op |-> "none", transport |-> "none", ticket |-> None,
         id |-> None, workflow |-> None, done |-> 0,
         todo |-> {}, owed |-> {}]

Statuses == {"ok", "failed"}
Stages == {"load", "save", "append", "history", "row", "definition",
           "ticket", "tickets", "events", "runs", "workflows"}

At(c, stage) == call[c].stage = stage

Logged == {id \in Ids : log[id] # <<>>}

\* Ids that no ticket has, and none that is about to be saved.
Fresh == {id \in Ids : tickets[id] = None /\ \A c \in Clients : At(c, "save") => call[c].id # id}

\* The call has its answer: the ticket of a creation, or the data of a read.
Return(c, status, given) ==
    call' = [call EXCEPT ![c] =
        IF status = "ok" /\ call[c].op = "create"
        THEN [Idle EXCEPT !.stage = status, !.op = "create",
                          !.id = call[c].id, !.ticket = call[c].ticket]
        ELSE [Idle EXCEPT !.stage = status, !.owed = call[c].owed \ given]]

Fail(c) == Return(c, "failed", {})

\* A request arrives.
Receive(c, request) ==
    /\ call[c].stage \notin Stages
    /\ call' = [call EXCEPT ![c] = request]
    /\ UNCHANGED <<tickets, log, cache, faults>>

\* The supply of ids is unbounded in the code: a creation comes while there is one.
CreateTicket(c, transport, input) ==
    /\ Cardinality({d \in Clients : At(d, "load")}) < Cardinality(Fresh)
    /\ Receive(c, [Idle EXCEPT !.op = "create", !.transport = transport,
                               !.ticket = [input |-> input],
                               !.stage = IF Refused(transport, input) THEN "failed" ELSE "load"])

\* Every read the two transports offer: ticket(id), run(id), events(runId), ...
ReadOne(c, id) ==
    \E stage \in {"ticket", "history", "events"} :
        Receive(c, [Idle EXCEPT !.op = "one", !.id = id, !.stage = stage,
                                !.owed = {id} \intersect Logged])

\* ... tickets, runs, workflows, and workflow(name, version).
ReadAll(c) ==
    \/ \E stage \in {"tickets", "runs"} :
        Receive(c, [Idle EXCEPT !.op = stage, !.stage = stage, !.owed = Logged])
    \/ Receive(c, [Idle EXCEPT !.op = "workflows", !.stage = "workflows"])
    \/ \E w \in Workflows :
        Receive(c, [Idle EXCEPT !.op = "workflow", !.workflow = w, !.stage = "definition"])

-----------------------------------------------------------------------------
\* loadWorkflow: a definition that is not in the cache is read and cached.
loadWorkflow(w) ==
    cache' = [cache EXCEPT ![w] = IF @ = "absent" THEN "stored" ELSE @]

\* CreateTicket up to and including its routing.
Load(c) ==
    /\ At(c, "load")
    /\ LET input == call[c].ticket.input
       IN  \/ /\ input.workflow \in Workflows
              /\ loadWorkflow(input.workflow)
              /\ \E id \in Fresh :
                    call' = [call EXCEPT ![c].stage = "save", ![c].id = id,
                        ![c].transport = "none",
                        ![c].ticket = NewTicket(call[c].transport, input,
                                        RulesOf(input.workflow, cache'[input.workflow]))]
           \/ /\ input.workflow \notin Workflows
              /\ Fail(c)
              /\ UNCHANGED cache
    /\ UNCHANGED <<tickets, log, faults>>

\* Mutant of SaveTicket: the ticket is saved before it is routed.
SaveTicketUnrouted(c) ==
    /\ At(c, "save")
    /\ tickets' = [tickets EXCEPT ![call[c].id] =
                        [call[c].ticket EXCEPT !.queue = Unset, !.priority = "normal"]]
    /\ call' = [call EXCEPT ![c].stage = "append"]
    /\ UNCHANGED <<log, cache, faults>>

SaveTicket(c) ==
    /\ At(c, "save")
    /\ tickets' = [tickets EXCEPT ![call[c].id] = call[c].ticket]
    /\ call' = [call EXCEPT ![c].stage = "append"]
    /\ UNCHANGED <<log, cache, faults>>

Written(c) ==
    LET next == Creation(call[c].ticket)[call[c].done + 1]
    IN  log' = [log EXCEPT ![call[c].id] = Append(@, next)]

\* One append; the run is read once the last one has been made.
AppendEvent(c) ==
    /\ At(c, "append")
    /\ Written(c)
    /\ LET n == call[c].done + 1
       IN  call' = [call EXCEPT ![c].done = n, ![c].stage =
                        IF n = Len(Creation(call[c].ticket)) THEN "history" ELSE "append"]
    /\ UNCHANGED <<tickets, cache, faults>>

-----------------------------------------------------------------------------
\* A listing of runs goes on to the next, or ends; given are the runs it has dealt with.
Onwards(c, todo, given) ==
    IF todo = {} THEN Return(c, "ok", given)
    ELSE call' = [call EXCEPT ![c].stage = "history", ![c].todo = todo, ![c].owed = @ \ given]

\* What was asked for is there.
Found(c) ==
    IF call[c].op = "runs" THEN Onwards(c, call[c].todo, {call[c].id})
    ELSE Return(c, "ok", {call[c].id})

\* Mutant of NotRead: a listing ends at the first run it cannot read.
NotReadStops(c, id, missed) ==
    Return(c, IF call[c].op = "runs" THEN "ok" ELSE "failed", missed)

\* The read of id has failed: a listing leaves the run out.
NotRead(c, id, missed) ==
    IF call[c].op = "runs" THEN Onwards(c, call[c].todo \ {id}, missed)
    ELSE Return(c, "failed", missed)

\* The run that is read next: a listing has a choice.
Target(c) == IF call[c].op = "runs" THEN call[c].todo ELSE {call[c].id}

\* GetRun in three reads: the history, ...
History(c) ==
    /\ At(c, "history")
    /\ \E id \in Target(c) :
        \/ /\ id \in Logged
           /\ call' = [call EXCEPT ![c].id = id, ![c].todo = @ \ {id}, ![c].stage = "row"]
        \/ /\ id \notin Logged
           /\ NotRead(c, id, {})
    /\ UNCHANGED <<tickets, log, cache, faults>>

\* ... the ticket, which names the definition, ...
Row(c) ==
    /\ At(c, "row")
    /\ \/ /\ tickets[call[c].id] # None
          /\ call' = [call EXCEPT ![c].workflow = tickets[call[c].id].workflow,
                                 ![c].stage = "definition"]
       \/ /\ tickets[call[c].id] = None
          /\ NotRead(c, call[c].id, {})
    /\ UNCHANGED <<tickets, log, cache, faults>>

\* ... and the definition.
Definition(c) ==
    /\ At(c, "definition")
    /\ loadWorkflow(call[c].workflow)
    /\ Found(c)
    /\ UNCHANGED <<tickets, log, faults>>

\* The reads of one access: a ticket, the events of a run, the listings of tickets and
\* of definitions.
ReadTable(c) ==
    /\ \/ /\ At(c, "ticket") /\ tickets[call[c].id] # None
          /\ Found(c)
       \/ /\ At(c, "ticket") /\ tickets[call[c].id] = None
          /\ NotRead(c, call[c].id, {})
       \/ /\ At(c, "events")
          /\ Return(c, "ok", {call[c].id} \intersect Logged)
       \/ /\ At(c, "tickets")
          /\ Return(c, "ok", {id \in Ids : tickets[id] # None})
       \/ At(c, "workflows") /\ Return(c, "ok", {})
    /\ UNCHANGED <<tickets, log, cache, faults>>

\* The listing of runs reads their ids, then each run.
ListRuns(c) ==
    /\ At(c, "runs")
    /\ Onwards(c, Logged, {})
    /\ UNCHANGED <<tickets, log, cache, faults>>

-----------------------------------------------------------------------------
Fault == faults < MaxFaults /\ faults' = faults + 1

\* A read fails; a definition in the cache needs none.
ReadFails(c) ==
    /\ Fault
    /\ \/ /\ At(c, "load")
          /\ call[c].ticket.input.workflow \notin {w \in Workflows : cache[w] # "absent"}
          /\ Fail(c)
       \/ /\ At(c, "definition") => cache[call[c].workflow] = "absent"
          /\ call[c].stage \in {"history", "row", "definition", "ticket", "events"}
          /\ \E id \in (IF At(c, "history") THEN Target(c) ELSE {call[c].id}) :
                NotRead(c, id, {id})
       \/ /\ call[c].stage \in {"tickets", "runs", "workflows"}
          /\ Return(c, "failed", Ids)
    /\ UNCHANGED <<tickets, log, cache>>

\* Mutant of WriteFails: the error of an append is dropped.
WriteFailsUnnoticed(c) ==
    /\ Fault
    /\ At(c, "append")
    /\ LET n == call[c].done + 1
       IN  call' = [call EXCEPT ![c].done = n, ![c].stage =
                        IF n = Len(Creation(call[c].ticket)) THEN "history" ELSE "append"]
    /\ UNCHANGED <<tickets, log, cache>>

\* A write fails, or only its answer is lost: CreateTicket gives up.
WriteFails(c) ==
    /\ Fault
    /\ \/ At(c, "save") /\ UNCHANGED <<tickets, log>>
       \/ /\ At(c, "save") /\ UNCHANGED log
          /\ tickets' = [tickets EXCEPT ![call[c].id] = call[c].ticket]
       \/ At(c, "append") /\ UNCHANGED <<tickets, log>>
       \/ At(c, "append") /\ UNCHANGED tickets /\ Written(c)
    /\ Fail(c)
    /\ UNCHANGED cache

\* The process dies and is started again.
Restart ==
    /\ Fault
    /\ call' = [c \in Clients |-> Idle]
    /\ cache' \in Boots
    /\ UNCHANGED <<tickets, log>>

Init ==
    /\ tickets = [id \in Ids |-> None]
    /\ log = [id \in Ids |-> <<>>]
    /\ cache \in Boots
    /\ call = [c \in Clients |-> Idle]
    /\ faults = 0

Serve(c) ==
    \/ Load(c) \/ SaveTicket(c) \/ AppendEvent(c)
    \/ History(c) \/ Row(c) \/ Definition(c) \/ ReadTable(c) \/ ListRuns(c)

Next ==
    \/ \E c \in Clients :
        \/ \E t \in Transports, input \in Inputs : CreateTicket(c, t, input)
        \/ \E id \in Ids : ReadOne(c, id)
        \/ ReadAll(c)
        \/ Serve(c) \/ ReadFails(c) \/ WriteFails(c)
    \/ Restart

Spec == Init /\ [][Next]_vars

-----------------------------------------------------------------------------
Rows == {id \in Ids : tickets[id] # None}

\* The type invariant.  A row always has a priority, so that TICKET_ASSIGNED is always
\* recorded.
TypeOK ==
    /\ \A id \in Rows : /\ tickets[id].input \in Inputs
                        /\ tickets[id].workflow \in Workflows
                        /\ tickets[id].priority # Unset
    /\ \A id \in Ids : Len(log[id]) <= 5
    /\ cache \in [Workflows -> {"absent", "compiled", "stored"}]
    /\ \A c \in Clients : /\ call[c].stage \in Stages \union Statuses \union {"idle"}
                          /\ call[c].todo \union call[c].owed \subseteq Ids

\* Wherever CreateTicket fails, is abandoned or dies, what the log has of the run is the
\* first part of its creation and speaks of the row that is in the table: there is never a
\* run whose ticket is missing (which GetRun could not read), or is not as recorded.
CreationInOrder ==
    \A id \in Logged :
        /\ id \in Rows
        /\ log[id] = SubSeq(Creation(tickets[id]), 1, Len(log[id]))

\* A creation that is answered with a ticket is complete, whatever failed and whoever was
\* served meanwhile: the row and every event of the creation are there.
AcknowledgedIsComplete ==
    \A c \in Clients : call[c].op = "create" /\ At(c, "ok") =>
        /\ tickets[call[c].id] = call[c].ticket
        /\ log[call[c].id] = Creation(call[c].ticket)

\* A read finds what was there when the request came, unless its own accesses to it
\* failed: a listing of runs, which is many reads while other requests create tickets and
\* fail half-way, leaves out no run for the sake of another.
ReadsFindRuns == \A c \in Clients : call[c].stage \in Statuses => call[c].owed = {}

\* A number that float64 has, and one written as the engine renders it.
Held(x)  == x.type \in Numbers => x.is \in -MaxExact .. MaxExact
Plain(x) == x.type \in Numbers => x.text = ToString(x.is)

\* Every number of the rules of w is one that float64 has.
RulesHeld(w) ==
    \A i \in DOMAIN Rules[w] : \A k \in DOMAIN Rules[w][i].if : Held(Rules[w][i].if[k])

\* The same Go value of a field; the engine's own one says which rule was applied.
SameField(t, u, k) ==
    /\ k # "_routed_by"
    /\ t.fields[k].type = u.fields[k].type /\ t.fields[k].is = u.fields[k].is

\* Apply is "deterministic so that replays route identically": two tickets of the same
\* request are routed alike, whether it came as a GraphQL literal, as JSON or by gRPC, and
\* whether the definition was compiled or read back from the store after a restart.  A
\* number that float64 lacks has two renderings: it must not be in the rules, and be the
\* same for both tickets if it is in the request.
RoutedAlike ==
    \A a, b \in Rows :
        LET input == tickets[a].input
        IN  /\ tickets[b].input = input
            /\ input.fields # NotAnObject =>
                  \A k \in DOMAIN input.fields :
                      \/ Plain(input.fields[k]) /\ Held(input.fields[k])
                      \/ SameField(tickets[a], tickets[b], k)
            /\ RulesHeld(input.workflow)
            => /\ tickets[a].queue = tickets[b].queue
               /\ tickets[a].assignee = tickets[b].assignee
               /\ tickets[a].priority = tickets[b].priority
=============================================================================
