----------------------------- MODULE WorkerPool -----------------------------
(***************************************************************************)
(* The worker pool (engine/worker.go) and how Engine.Close shuts it and    *)
(* the timer loop down (engine/engine.go).  The tasks in the channel are   *)
(* counted, not told apart; what an executor does is reduced to the tasks  *)
(* it submits itself.                                                      *)
(***************************************************************************)
EXTENDS Naturals

CONSTANTS Workers, Clients, Timer,  \* goroutines that execute and that submit
          Closers,                  \* goroutines that call Engine.Close
          QueueCap                  \* capacity of the channel (1024 in the code)

ASSUME PoolAssumption ==
    /\ Workers \intersect Clients = {} /\ Timer \notin Workers \union Clients
    /\ QueueCap \in Nat \ {0}

VARIABLES queued,      \* number of tasks in the channel
          doing,       \* doing[t]: what goroutine t is at
          poolClosed,  \* WorkerPool.closeCh is closed
          loopClosed,  \* Engine.closeCh is closed
          closed,      \* Engine.closed
          closer       \* closer[c]: how far the Close call of c is

vars == <<queued, doing, poolClosed, loopClosed, closed, closer>>

Senders == Workers \union Clients \union {Timer}

TypeOK ==
    /\ queued \in 0 .. QueueCap
    /\ doing \in [Senders -> {"idle", "busy", "sending", "exited"}]
    /\ poolClosed \in BOOLEAN /\ loopClosed \in BOOLEAN /\ closed \in BOOLEAN
    /\ closer \in [Closers -> {"out", "closing", "waiting", "returned", "skipped"}]

Init ==
    /\ queued = 0
    /\ doing = [t \in Senders |-> "idle"]
    /\ poolClosed = FALSE /\ loopClosed = FALSE /\ closed = FALSE
    /\ closer = [c \in Closers |-> "out"]

Moves(t, from, to) == doing[t] = from /\ doing' = [doing EXCEPT ![t] = to]

\* WorkerPool.loop: a select between closeCh and the channel, which takes either
\* when both are ready.
Receive(w) ==
    /\ Moves(w, "idle", "busy")
    /\ queued > 0 /\ queued' = queued - 1
    /\ UNCHANGED <<poolClosed, loopClosed, closed, closer>>

Exit(w) ==
    /\ Moves(w, "idle", "exited") /\ poolClosed
    /\ UNCHANGED <<queued, poolClosed, loopClosed, closed, closer>>

\* timerLoop: the same kind of select, between Engine.closeCh and the ticker; and an
\* API call, which owes nothing to either.
StartSweep ==
    /\ Moves(Timer, "idle", "busy")
    /\ UNCHANGED <<queued, poolClosed, loopClosed, closed, closer>>

ExitTimerLoop ==
    /\ Moves(Timer, "idle", "exited") /\ loopClosed
    /\ UNCHANGED <<queued, poolClosed, loopClosed, closed, closer>>

StartCall(c) ==
    /\ Moves(c, "idle", "busy")
    /\ UNCHANGED <<queued, poolClosed, loopClosed, closed, closer>>

\* executeTask, sweep or the call returns.
Finish(t) ==
    /\ Moves(t, "busy", "idle")
    /\ UNCHANGED <<queued, poolClosed, loopClosed, closed, closer>>

\* Submit is called on the way, ...
Submit(t) ==
    /\ Moves(t, "busy", "sending")
    /\ UNCHANGED <<queued, poolClosed, loopClosed, closed, closer>>

\* Mutant of Send: the channel never blocks a sender.
SendUnbounded(t) ==
    /\ Moves(t, "sending", "busy")
    /\ queued' = queued + 1
    /\ UNCHANGED <<poolClosed, loopClosed, closed, closer>>

\* ... and returns when the channel has room or the pool is closed.
Send(t) ==
    /\ Moves(t, "sending", "busy")
    /\ queued < QueueCap /\ queued' = queued + 1
    /\ UNCHANGED <<poolClosed, loopClosed, closed, closer>>

\* Mutant of GiveUp: Submit without the closeCh case.
GiveUpNever(t) == FALSE

GiveUp(t) ==
    /\ Moves(t, "sending", "busy") /\ poolClosed
    /\ UNCHANGED <<queued, poolClosed, loopClosed, closed, closer>>

\* Engine.Close: closes the timer loop's channel; only the first call goes on, any
\* other returns at once.
Close(c) ==
    /\ closer[c] = "out"
    /\ loopClosed' = TRUE /\ closed' = TRUE
    /\ closer' = [closer EXCEPT ![c] = IF closed THEN "skipped" ELSE "closing"]
    /\ UNCHANGED <<queued, doing, poolClosed>>

\* WorkerPool.Stop: close closeCh, then wait for the workers.
Stop(c) ==
    /\ closer[c] = "closing"
    /\ poolClosed' = TRUE
    /\ closer' = [closer EXCEPT ![c] = "waiting"]
    /\ UNCHANGED <<queued, doing, loopClosed, closed>>

\* Mutant of StopReturns: Stop does not wait for the workers.
StopReturnsEarly(c) ==
    /\ closer[c] = "waiting"
    /\ closer' = [closer EXCEPT ![c] = "returned"]
    /\ UNCHANGED <<queued, doing, poolClosed, loopClosed, closed>>

StopReturns(c) ==
    /\ closer[c] = "waiting"
    /\ \A w \in Workers : doing[w] = "exited"
    /\ closer' = [closer EXCEPT ![c] = "returned"]
    /\ UNCHANGED <<queued, doing, poolClosed, loopClosed, closed>>

Next ==
    \/ \E w \in Workers : Receive(w) \/ Exit(w)
    \/ \E c \in Clients : StartCall(c)
    \/ StartSweep \/ ExitTimerLoop
    \/ \E t \in Senders : Finish(t) \/ Submit(t) \/ Send(t) \/ GiveUp(t)
    \/ \E c \in Closers : Close(c) \/ Stop(c) \/ StopReturns(c)

\* A select that is offered closeCh again and again takes it (Go picks at random
\* among the ready cases), executors submit finitely often and then return.
Fairness ==
    /\ \A w \in Workers : SF_vars(Exit(w))
    /\ \A t \in Senders : SF_vars(Finish(t)) /\ WF_vars(Send(t) \/ GiveUp(t))
    /\ \A c \in Closers : WF_vars(Stop(c) \/ StopReturns(c))

Spec == Init /\ [][Next]_vars /\ Fairness

-----------------------------------------------------------------------------
\* Once the Close that stops the pool has returned, every worker is gone: no task
\* handler is running, and none will be started.
NoTaskAfterClose ==
    (\E c \in Closers : closer[c] = "returned") => \A w \in Workers : doing[w] = "exited"

\* Close returns, also when every worker is blocked in Submit on a full channel at
\* the time: closing the pool releases them.
CloseReturns == \A c \in Closers : closer[c] = "closing" ~> closer[c] = "returned"
=============================================================================
