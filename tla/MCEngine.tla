------------------------------ MODULE MCEngine ------------------------------
(***************************************************************************)
(* Workflows for TLC.  Each is small, and reaches the constructs the run   *)
(* that uses it is about.                                                  *)
(***************************************************************************)
EXTENDS Engine, TLC

\* A value for every step: those of f, and d for the rest.
Default(f, d) == [s \in Steps |-> IF s \in DOMAIN f THEN f[s] ELSE d]
None == [s \in {} |-> s]

\* Workers are interchangeable.
WorkerSymmetry == Permutations(Workers)

AllTasks    == Default(None, "task")
NoSteps     == Default(None, NoStep)
Zero        == Default(None, 0)
NoChain     == Default(None, <<>>)
NoSLAs      == <<>>

\* "work", tried twice; if it fails, "clean" (the attempts are WorkAttempts).
TasksOnError == Default("work" :> "clean", NoStep)

\* "review" by a named user, then by a role, then the task "publish".
ReviewKind  == Default("review" :> "approval", "task")
ReviewNext  == Default("review" :> "publish", NoStep)
ReviewChain == Default("review" :> <<[user |-> "ann", role |-> "staff"],
                                     [user |-> Nobody, role |-> "boss"]>>, <<>>)

\* "pause" for one tick, then "work", tried twice with a backoff of one tick.
PauseKind    == Default("pause" :> "delay", "task")
PauseNext    == Default("pause" :> "work", NoStep)
PauseDelay   == Default("pause" :> 1, 0)
WorkAttempts == Default("work" :> 2, 0)
WorkBackoff  == Default("work" :> 1, 0)

\* An SLA of zero ticks starts "alert" beside "pause".
AlertSLA == <<[duration |-> 0, onBreach |-> "alert"]>>

-----------------------------------------------------------------------------
(***************************************************************************)
(* Claims of the repository about the engine that its code does not keep:  *)
(* each is the property of a run in which TLC finds it violated.           *)
(***************************************************************************)

\* "A process can crash at any moment and resume exactly where it left off": also after
\* a crash, a created run that has not ended never comes to rest in a state that sweep and
\* Recover pass over.
CrashResumes ==
    Recorded("TICKET_ASSIGNED") /\ Quiet /\ ~Terminal(run) => Resumable

\* "Cancel terminates a run": a run that reads CANCELLED stays cancelled.
CancelTerminates ==
    [][run.status = "CANCELLED" => run'.status = "CANCELLED"]_vars
=============================================================================
