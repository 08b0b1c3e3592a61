---------------------------- MODULE MCDeployment ----------------------------
(***************************************************************************)
(* Directories for TLC: two definitions under one key, versions whose      *)
(* textual and numeric orders differ, and one file for each mistake that   *)
(* Compile or RegisterWorkflow must catch.                                 *)
(***************************************************************************)
EXTENDS Deployment, TLC

\* The texts "1" < "10" < "9" by rank.
One == [value |-> 1, text |-> 1]
Ten == [value |-> 10, text |-> 2]
Nine == [value |-> 9, text |-> 3]

Step(name, next) ==
    [name |-> name, kind |-> "task", task |-> "noop", chain |-> <<>>, delay |-> Empty,
     retry |-> Empty, next |-> next, onError |-> Empty]

Flow(version, steps) ==
    [name |-> "flow", version |-> version, initial |-> Empty, steps |-> steps, slas |-> <<>>]

Last == Step("b", Empty)

Old   == Flow(<<One, Nine>>, <<Step("a", "b"), Last>>)
New   == Flow(<<One, Nine>>, <<[Step("a", Empty) EXCEPT !.kind = "approval",
                                                        !.chain = <<"boss">>]>>)
Newer == Flow(<<One, Ten>>, <<[Last EXCEPT !.kind = Empty, !.retry = Malformed]>>)
Older == [Flow(<<One>>, <<[Last EXCEPT !.kind = "delay", !.delay = 1]>>)
            EXCEPT !.slas = <<[duration |-> 2, onBreach |-> "b"]>>]

Mistakes == {
    Unparsable,
    [Old EXCEPT !.steps = <<Step("a", "ghost"), Last>>],
    [Old EXCEPT !.steps = <<[Step("a", "b") EXCEPT !.onError = "ghost"], Last>>],
    [Old EXCEPT !.steps = <<Last, Last>>],
    [New EXCEPT !.steps[1].chain = <<>>],
    [Newer EXCEPT !.steps[1].task = Empty],
    [Older EXCEPT !.steps[1].delay = Malformed],
    [Older EXCEPT !.slas[1].onBreach = "ghost"],
    [Newer EXCEPT !.initial = "ghost"]}

\* The mistake comes after a correct file, which may be registered by then.
Repository ==
    {<<Old>>, <<Older, New, Newer>>, <<New, Old>>} \union {<<New, m>> : m \in Mistakes}

-----------------------------------------------------------------------------
\* RegisterWorkflow "makes a workflow definition available to the engine": once the server
\* listens, what loadWorkflow answers for a registered definition is that definition.
RegisteredIsAvailable ==
    phase = "serving" =>
        \A k \in DOMAIN registry : k \in DOMAIN workflows /\ workflows[k] = registry[k]
=============================================================================
