-------------------------- MODULE WorkerPoolProofs --------------------------
(***************************************************************************)
(* Shutting the pool down is final for any number of workers, clients and  *)
(* concurrent calls of Close, and for any capacity of the channel.         *)
(***************************************************************************)
EXTENDS WorkerPool, TLAPS

\* Only the first call of Close stops the pool: whoever else calls it skips.
OneCloser ==
    /\ \A c \in Closers : closer[c] # "out" => closed
    /\ \A c, d \in Closers :
          {closer[c], closer[d]} \subseteq {"closing", "waiting", "returned"} => c = d

\* A worker leaves its loop only once the pool is closed, which Stop has done before it
\* waits.
ClosedFirst ==
    /\ \A w \in Workers : doing[w] = "exited" => poolClosed
    /\ \A c \in Closers : closer[c] \in {"waiting", "returned"} => poolClosed

IInv == TypeOK /\ OneCloser /\ ClosedFirst /\ NoTaskAfterClose

LEMMA InitIInv == Init => IInv
<1> SUFFICES ASSUME Init PROVE IInv
    OBVIOUS
<1>1. queued \in 0 .. QueueCap
  BY PoolAssumption DEF Init
<1>2. TypeOK
  BY <1>1 DEF Init, TypeOK
<1>3. \A c \in Closers : closer[c] = "out"
  BY DEF Init
<1>4. OneCloser /\ NoTaskAfterClose
  BY <1>3 DEF OneCloser, NoTaskAfterClose
<1>5. \A w \in Workers : doing[w] = "idle"
  BY DEF Init, Senders
<1>6. ClosedFirst
  BY <1>3, <1>5 DEF ClosedFirst
<1> QED BY <1>2, <1>4, <1>6 DEF IInv

\* A goroutine that is somewhere else than outside its loop moves; no worker comes back.
LEMMA MovesIInv ==
    ASSUME IInv, NEW t \in Senders,
           NEW from \in {"idle", "busy", "sending"},
           NEW to \in {"idle", "busy", "sending"},
           Moves(t, from, to), queued' \in 0 .. QueueCap,
           UNCHANGED <<poolClosed, loopClosed, closed, closer>>
    PROVE  IInv'
<1>1. doing' = [doing EXCEPT ![t] = to] /\ doing[t] = from
  BY DEF Moves
<1>2. doing' \in [Senders -> {"idle", "busy", "sending", "exited"}]
  BY <1>1 DEF IInv, TypeOK
<1>3. \A w \in Workers : (doing'[w] = "exited") <=> (doing[w] = "exited")
  BY <1>1 DEF IInv, TypeOK, Senders
<1> QED BY <1>2, <1>3 DEF IInv, TypeOK, OneCloser, ClosedFirst, NoTaskAfterClose

\* A worker or the timer loop leaves.
LEMMA LeavesIInv ==
    ASSUME IInv, NEW t \in Senders, Moves(t, "idle", "exited"), t \in Workers => poolClosed,
           UNCHANGED <<queued, poolClosed, loopClosed, closed, closer>>
    PROVE  IInv'
<1>1. doing' = [doing EXCEPT ![t] = "exited"]
  BY DEF Moves
<1>2. doing' \in [Senders -> {"idle", "busy", "sending", "exited"}]
  BY <1>1 DEF IInv, TypeOK
<1>3. \A w \in Workers : doing'[w] = "exited" => doing[w] = "exited" \/ (w = t)
  BY <1>1 DEF IInv, TypeOK, Senders
<1>4. \A w \in Workers : doing[w] = "exited" => doing'[w] = "exited"
  BY <1>1 DEF IInv, TypeOK, Senders
<1> QED BY <1>2, <1>3, <1>4 DEF IInv, TypeOK, OneCloser, ClosedFirst, NoTaskAfterClose

\* The calls of Close.
LEMMA CloseIInv ==
    ASSUME IInv, NEW c \in Closers, Close(c)
    PROVE  IInv'
<1>1. /\ closer[c] = "out" /\ loopClosed' = TRUE /\ closed' = TRUE
      /\ closer' = [closer EXCEPT ![c] = IF closed THEN "skipped" ELSE "closing"]
      /\ UNCHANGED <<queued, doing, poolClosed>>
  BY DEF Close
<1>2. TypeOK'
  BY <1>1 DEF IInv, TypeOK
<1>3. CASE closed
  BY <1>1, <1>2, <1>3 DEF IInv, TypeOK, OneCloser, ClosedFirst, NoTaskAfterClose
<1>4. CASE ~closed
  <2>1. \A d \in Closers : closer[d] = "out"
    BY <1>4 DEF IInv, OneCloser
  <2>2. \A d \in Closers : closer'[d] = IF d = c THEN "closing" ELSE "out"
    BY <1>1, <1>4, <2>1 DEF IInv, TypeOK
  <2> QED BY <1>1, <1>2, <2>2 DEF IInv, OneCloser, ClosedFirst, NoTaskAfterClose
<1> QED BY <1>3, <1>4

LEMMA StopIInv ==
    ASSUME IInv, NEW c \in Closers, Stop(c)
    PROVE  IInv'
<1>1. /\ closer[c] = "closing" /\ poolClosed' = TRUE
      /\ closer' = [closer EXCEPT ![c] = "waiting"]
      /\ UNCHANGED <<queued, doing, loopClosed, closed>>
  BY DEF Stop
<1>2. \A d \in Closers : closer'[d] = IF d = c THEN "waiting" ELSE closer[d]
  BY <1>1 DEF IInv, TypeOK
<1>3. TypeOK'
  BY <1>1 DEF IInv, TypeOK
<1> QED BY <1>1, <1>2, <1>3 DEF IInv, OneCloser, ClosedFirst, NoTaskAfterClose

LEMMA StopReturnsIInv ==
    ASSUME IInv, NEW c \in Closers, StopReturns(c)
    PROVE  IInv'
<1>1. /\ closer[c] = "waiting" /\ \A w \in Workers : doing[w] = "exited"
      /\ closer' = [closer EXCEPT ![c] = "returned"]
      /\ UNCHANGED <<queued, doing, poolClosed, loopClosed, closed>>
  BY DEF StopReturns
<1>2. \A d \in Closers : closer'[d] = IF d = c THEN "returned" ELSE closer[d]
  BY <1>1 DEF IInv, TypeOK
<1>3. TypeOK'
  BY <1>1 DEF IInv, TypeOK
<1> QED BY <1>1, <1>2, <1>3 DEF IInv, OneCloser, ClosedFirst, NoTaskAfterClose

LEMMA NextIInv == IInv /\ [Next]_vars => IInv'
<1> SUFFICES ASSUME IInv, [Next]_vars PROVE IInv'
    OBVIOUS
<1> USE DEF Senders
<1>0. queued \in 0 .. QueueCap /\ QueueCap \in Nat
  BY PoolAssumption DEF IInv, TypeOK
<1>1. ASSUME NEW w \in Workers, Receive(w) PROVE IInv'
  <2>1. queued' \in 0 .. QueueCap
    BY <1>0, <1>1 DEF Receive
  <2> QED BY <1>1, <2>1, MovesIInv DEF Receive
<1>2. ASSUME NEW w \in Workers, Exit(w) PROVE IInv'
  BY <1>2, LeavesIInv DEF Exit
<1>3. ASSUME NEW c \in Clients, StartCall(c) PROVE IInv'
  BY <1>0, <1>3, MovesIInv DEF StartCall
<1>4. CASE StartSweep
  BY <1>0, <1>4, MovesIInv DEF StartSweep
<1>5. CASE ExitTimerLoop
  <2>1. Timer \notin Workers
    BY PoolAssumption
  <2> QED BY <1>5, <2>1, LeavesIInv DEF ExitTimerLoop
<1>6. ASSUME NEW t \in Senders, Finish(t) \/ Submit(t) \/ GiveUp(t) PROVE IInv'
  BY <1>0, <1>6, MovesIInv DEF Finish, Submit, GiveUp
<1>7. ASSUME NEW t \in Senders, Send(t) PROVE IInv'
  <2>1. queued' \in 0 .. QueueCap
    BY <1>0, <1>7 DEF Send
  <2> QED BY <1>7, <2>1, MovesIInv DEF Send
<1>8. ASSUME NEW c \in Closers, Close(c) \/ Stop(c) \/ StopReturns(c) PROVE IInv'
  BY <1>8, CloseIInv, StopIInv, StopReturnsIInv
<1>9. CASE UNCHANGED vars
  BY <1>9 DEF vars, IInv, TypeOK, OneCloser, ClosedFirst, NoTaskAfterClose
<1> QED
  BY <1>1, <1>2, <1>3, <1>4, <1>5, <1>6, <1>7, <1>8, <1>9 DEF Next

LEMMA Invariance == Spec => []IInv
<1>1. Init => IInv
  BY InitIInv
<1>2. IInv /\ [Next]_vars => IInv'
  BY NextIInv
<1> QED BY <1>1, <1>2, PTL DEF Spec

\* Close is final: with any number of workers and of concurrent calls, once a call that
\* stopped the pool has returned, no worker executes a task, then or later.
THEOREM NoTaskAfterCloseHolds == Spec => []NoTaskAfterClose
<1>1. IInv => NoTaskAfterClose
  BY DEF IInv
<1> QED BY <1>1, Invariance, PTL

\* The channel never holds more than its capacity, and every goroutine is where its code
\* can be.
THEOREM TypeCorrect == Spec => []TypeOK
<1>1. IInv => TypeOK
  BY DEF IInv
<1> QED BY <1>1, Invariance, PTL
=============================================================================
