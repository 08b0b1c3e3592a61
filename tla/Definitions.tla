---------------------------- MODULE Definitions ----------------------------
(***************************************************************************)
(* Workflow definitions as they are written in a repository directory and  *)
(* as the engine consumes them: ParseYAML and Compile (engine/dsl/dsl.go), *)
(* and the version order of the registry (engine/dsl/loader.go).           *)
(*                                                                         *)
(* A workflow is [name, version, initial, steps, slas] with steps a        *)
(* sequence of [name, kind, task, chain, delay, retry, next, onError] and  *)
(* slas one of [duration, onBreach].  The engine's form has the same       *)
(* fields.  Descriptions, assignees, attempts and routing are copied and   *)
(* left out.  A version is a sequence of components [value, text]: the     *)
(* number Atoi gives (or NotNumeric), and the rank of its text among the   *)
(* texts in use.                                                           *)
(***************************************************************************)
EXTENDS Integers, Sequences

CONSTANTS Empty,       \* the empty string: no name, no step, no duration
          Malformed,   \* a text that time.ParseDuration rejects
          Unparsable,  \* the content of a file that is not YAML of a workflow
          NotNumeric   \* the value of a version component that is not a number

\* The empty string is none of the words for a kind.
ASSUME EmptyAssumption == Empty \notin {"task", "approval", "delay"}

Names(w) == {w.steps[i].name : i \in DOMAIN w.steps}

\* stepByName, for a reference that may be left empty.
Resolves(w, name) == name = Empty \/ name \in Names(w)

\* Mutant: an approval step may come without a chain.
StepCompilesAnyChain(s) ==
    \/ s.kind \in {"task", Empty} /\ s.task # Empty
    \/ s.kind = "approval"
    \/ s.kind = "delay" /\ s.delay \in Int

\* The steps compileStep accepts.
StepCompiles(s) ==
    \/ s.kind \in {"task", Empty} /\ s.task # Empty
    \/ s.kind = "approval" /\ s.chain # <<>>
    \/ s.kind = "delay" /\ s.delay \in Int

\* A malformed retry_delay is no error.
parseDelay(text) == IF text \in Int THEN text ELSE 0

compileStep(s) ==
    LET isDelay == s.kind = "delay"
    IN  [name    |-> s.name,
         kind    |-> IF s.kind = Empty THEN "task" ELSE s.kind,
         task    |-> IF isDelay THEN Empty ELSE s.task,
         chain   |-> IF isDelay THEN <<>> ELSE s.chain,
         delay   |-> IF isDelay THEN s.delay ELSE Empty,
         retry   |-> IF isDelay THEN 0 ELSE parseDelay(s.retry),
         next    |-> s.next,
         onError |-> s.onError]

\* The workflows Compile accepts.
Compiles(w) ==
    /\ w.name # Empty /\ w.version # <<>>
    /\ w.steps # <<>>
    /\ \A i \in DOMAIN w.steps :
        LET s == w.steps[i]
        IN  /\ s.name # Empty
            /\ \A j \in DOMAIN w.steps : w.steps[j].name = s.name => j = i
            /\ StepCompiles(s)
            /\ Resolves(w, s.next) /\ Resolves(w, s.onError)
    /\ \A i \in DOMAIN w.slas :
        w.slas[i].duration \in Int /\ Resolves(w, w.slas[i].onBreach)

\* Compile does not look whether a given initial step exists; RegisterWorkflow does.
Compile(w) ==
    [name    |-> w.name,
     version |-> w.version,
     initial |-> IF w.initial = Empty THEN w.steps[1].name ELSE w.initial,
     steps   |-> [i \in DOMAIN w.steps |-> compileStep(w.steps[i])],
     slas    |-> w.slas]

Parses(data) == data # Unparsable /\ Compiles(data)

\* wfKey: name@version.
wfKey(w) == <<w.name, w.version>>

\* What the engine relies on in a definition it executes (WorkflowAssumption of Engine).
Usable(d) ==
    /\ d.initial \in Names(d)
    /\ \A i \in DOMAIN d.steps :
        LET s == d.steps[i]
        IN  /\ \A j \in DOMAIN d.steps : d.steps[j].name = s.name => j = i
            /\ \/ s.kind = "task" /\ s.task # Empty
               \/ s.kind = "approval" /\ s.chain # <<>>
               \/ s.kind = "delay" /\ s.delay \in Int
            /\ s.retry \in Int
            /\ Resolves(d, s.next) /\ Resolves(d, s.onError)
    /\ \A i \in DOMAIN d.slas :
        d.slas[i].duration \in Int /\ Resolves(d, d.slas[i].onBreach)

-----------------------------------------------------------------------------
\* Missing components count as "0", which has rank 0 of the texts.
Component(v, i) == IF i \in DOMAIN v THEN v[i] ELSE [value |-> 0, text |-> 0]

Numeric(c) == c.value # NotNumeric

\* strings.Split makes a sequence of components, and Atoi integers of those it can read.
ASSUME NumericAssumption == NotNumeric \notin Int

IsVersion(v) ==
    /\ Len(v) \in Nat /\ DOMAIN v = 1 .. Len(v)
    /\ \A i \in DOMAIN v : Numeric(v[i]) => v[i].value \in Int

\* Mutant: components are compared as texts.
compareTexts(a, b) == a.text - b.text

\* One round of compareVersions: equal components go on to the next.
compareComponents(a, b) ==
    IF Numeric(a) /\ Numeric(b) THEN a.value - b.value ELSE a.text - b.text

\* Positive when a is the higher version, negative when b is, otherwise 0.
compareVersions(a, b) ==
    LET At(i) == compareComponents(Component(a, i), Component(b, i))
        Differ == {i \in 1 .. Len(a) + Len(b) : At(i) # 0}
    IN  IF Differ = {} THEN 0 ELSE At(CHOOSE i \in Differ : \A j \in Differ : i <= j)

\* The version Latest answers when it meets the versions of a name in this order.
Latest(versions) ==
    LET best[i \in DOMAIN versions] ==
            IF i = 1 \/ compareVersions(versions[i], best[i - 1]) > 0
            THEN versions[i] ELSE best[i - 1]
    IN  best[Len(versions)]

\* The reference order of versions whose components are all numbers.
Higher(a, b) ==
    LET Value(v, i) == Component(v, i).value
    IN  \E i \in 1 .. Len(a) + Len(b) :
            /\ Value(a, i) > Value(b, i)
            /\ \A j \in 1 .. i - 1 : Value(a, j) = Value(b, j)
=============================================================================
