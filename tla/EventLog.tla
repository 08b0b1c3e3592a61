------------------------------ MODULE EventLog ------------------------------
(***************************************************************************)
(* The event log an engine writes to (engine/eventlog.go), as its          *)
(* reference implementation InMemoryEventLog keeps it: one append-only     *)
(* history per run, each event stamped with the next sequence number of    *)
(* its run.  The mutex makes every method one atomic step.                 *)
(*                                                                         *)
(* An event's type, payload and timestamp are one value of Payloads: the   *)
(* log never looks inside an event.                                        *)
(***************************************************************************)
EXTENDS Naturals, Sequences

CONSTANTS Runs,      \* run IDs
          Payloads   \* what an event says, abstracted to a value

VARIABLES seq,       \* seq[r]: the last sequence number given to run r
          events,    \* events[r]: the history of run r, oldest first
          runs       \* the runs that have at least one event

logVars == <<seq, events, runs>>

Event == [seq : Nat \ {0}, payload : Payloads]

LogInit ==
    /\ seq = [r \in Runs |-> 0]
    /\ events = [r \in Runs |-> <<>>]
    /\ runs = {}

AppendEvent(r, p) ==
    /\ seq' = [seq EXCEPT ![r] = @ + 1]
    /\ events' = [events EXCEPT ![r] = Append(@, [seq |-> seq[r] + 1, payload |-> p])]
    /\ runs' = runs \union {r}

LogNext == \E r \in Runs, p \in Payloads : AppendEvent(r, p)

LogSpec == LogInit /\ [][LogNext]_logVars
=============================================================================
