-------------------------- MODULE DeploymentProofs --------------------------
(***************************************************************************)
(* Deployment keeps the engine's definitions usable and every run's        *)
(* definition loadable, and Latest answers the highest version, for any    *)
(* directories, any files, any goroutines and any number of starts.        *)
(***************************************************************************)
EXTENDS Deployment, FiniteSetTheorems, FunctionTheorems, SequenceTheorems,
        WellFoundedInduction, TLAPS

\* What Compile leaves to RegisterWorkflow is the initial step alone.
LEMMA CompileUsable ==
    ASSUME NEW w, Compiles(w), Compile(w).initial \in Names(Compile(w))
    PROVE  Usable(Compile(w))
<1> DEFINE d == Compile(w)
<1>1. /\ d.slas = w.slas
      /\ d.steps = [i \in DOMAIN w.steps |-> compileStep(w.steps[i])]
  BY DEF Compile
<1>2. \A i \in DOMAIN w.steps : d.steps[i] = compileStep(w.steps[i])
  BY <1>1
<1>3. \A s : /\ compileStep(s).name = s.name
             /\ compileStep(s).next = s.next
             /\ compileStep(s).onError = s.onError
  BY DEF compileStep
<1>4. DOMAIN d.steps = DOMAIN w.steps
  BY <1>1
<1>5. Names(d) = Names(w)
  BY <1>2, <1>3, <1>4 DEF Names
<1>6. \A name : Resolves(w, name) => Resolves(d, name)
  BY <1>5 DEF Resolves
<1>7. ASSUME NEW i \in DOMAIN d.steps
      PROVE  /\ \A j \in DOMAIN d.steps : d.steps[j].name = d.steps[i].name => j = i
             /\ Resolves(d, d.steps[i].next) /\ Resolves(d, d.steps[i].onError)
  BY <1>2, <1>3, <1>4, <1>6 DEF Compiles
<1>8. ASSUME NEW s, StepCompiles(s)
      PROVE  LET c == compileStep(s)
             IN  /\ \/ c.kind = "task" /\ c.task # Empty
                    \/ c.kind = "approval" /\ c.chain # <<>>
                    \/ c.kind = "delay" /\ c.delay \in Int
                 /\ c.retry \in Int
  <2>1. parseDelay(s.retry) \in Int
    BY DEF parseDelay
  <2>2. CASE s.kind = "delay"
    BY <1>8, <2>2, EmptyAssumption DEF StepCompiles, compileStep
  <2>3. CASE s.kind # "delay"
    BY <1>8, <2>1, <2>3, EmptyAssumption DEF StepCompiles, compileStep
  <2> QED BY <2>2, <2>3
<1>9. \A i \in DOMAIN w.slas :
        w.slas[i].duration \in Int /\ Resolves(d, w.slas[i].onBreach)
  BY <1>6 DEF Compiles
<1>10. ASSUME NEW i \in DOMAIN d.steps
       PROVE  LET c == d.steps[i]
              IN  /\ \/ c.kind = "task" /\ c.task # Empty
                     \/ c.kind = "approval" /\ c.chain # <<>>
                     \/ c.kind = "delay" /\ c.delay \in Int
                  /\ c.retry \in Int
  <2>1. StepCompiles(w.steps[i])
    BY <1>4 DEF Compiles
  <2>2. d.steps[i] = compileStep(w.steps[i])
    BY <1>2, <1>4
  <2> QED BY <1>8, <2>1, <2>2
<1>11. d.initial \in Names(d) /\ \A i \in DOMAIN d.slas :
        d.slas[i].duration \in Int /\ Resolves(d, d.slas[i].onBreach)
  BY <1>1, <1>9
<1> HIDE DEF d
<1> QED
  <2>1. Usable(d)
    BY <1>7, <1>10, <1>11 DEF Usable
  <2> QED BY <2>1 DEF d

LEMMA CompileKey ==
    ASSUME NEW w
    PROVE  wfKey(Compile(w)) = wfKey(w)
BY DEF Compile, wfKey

LEMMA WithDomain ==
    ASSUME NEW f, NEW k, NEW d
    PROVE  DOMAIN With(f, k, d) = DOMAIN f \union {k}
BY DEF With
-----------------------------------------------------------------------------
\* A definition that Compile made, initial step unchecked.
Compiled(d) == \E w : Compiles(w) /\ d = Compile(w)

\* A map from keys to definitions with these keys.
Keyed(f) == \A k \in DOMAIN f : wfKey(f[k]) = k

\* Everything in the process and in the store is what its place promises, ...
DefinitionsInv ==
    /\ Keyed(registry) /\ Keyed(workflows) /\ Keyed(store)
    /\ \A k \in DOMAIN registry : Compiled(registry[k])
    /\ \A k \in half : registry[k].initial \in Names(registry[k])
    /\ \A k \in DOMAIN workflows : Usable(workflows[k])
    /\ \A k \in DOMAIN store : Usable(store[k])

\* ... also what is on its way from the one to the other, ...
LoadsInv ==
    \A g \in Loaders : loads[g] # NoLoad =>
        /\ wfKey(loads[g].def) = loads[g].key
        /\ Usable(loads[g].def)
        /\ loads[g].key \in DOMAIN store

\* ... and the cache is ahead of the store by the definition being registered alone.
AheadInv ==
    /\ half \subseteq todo /\ todo \subseteq DOMAIN registry
    /\ phase # "registering" => todo = {}
    /\ DOMAIN workflows \subseteq DOMAIN store \union half
    /\ \A j, k \in half : j = k

IInv == DefinitionsInv /\ LoadsInv /\ AheadInv /\ RunsResolvable /\ DOMAIN loads = Loaders

LEMMA InitIInv == Init => IInv
BY DEF Init, IInv, DefinitionsInv, LoadsInv, AheadInv, RunsResolvable, Keyed, EmptyMap

LEMMA DownIInv ==
    ASSUME IInv, Down
    PROVE  IInv'
BY DEF Down, IInv, DefinitionsInv, LoadsInv, AheadInv, RunsResolvable, Keyed, EmptyMap,
       Loaders

\* f[k] = d keeps a map keyed, and its values P when P holds of d.
LEMMA WithKeyed ==
    ASSUME NEW f, NEW d, Keyed(f)
    PROVE  Keyed(With(f, wfKey(d), d))
BY DEF Keyed, With

LEMMA WithUsable ==
    ASSUME NEW f, NEW k, NEW d, \A x \in DOMAIN f : Usable(f[x]), Usable(d)
    PROVE  \A x \in DOMAIN With(f, k, d) : Usable(With(f, k, d)[x])
BY DEF With

LEMMA WithCompiled ==
    ASSUME NEW f, NEW k, NEW d, \A x \in DOMAIN f : Compiled(f[x]), Compiled(d)
    PROVE  \A x \in DOMAIN With(f, k, d) : Compiled(With(f, k, d)[x])
BY DEF With

LEMMA LoadFileIInv ==
    ASSUME IInv, LoadFile
    PROVE  IInv'
<1> DEFINE file == directory[walked + 1]
<1>1. /\ Compiles(file)
      /\ registry' = With(registry, wfKey(file), Compile(file))
      /\ UNCHANGED <<phase, todo, half, workflows, store, loads, runs>>
  BY DEF LoadFile, Parses
<1>2. wfKey(Compile(file)) = wfKey(file)
  BY CompileKey
<1>3. Keyed(registry')
  BY <1>1, <1>2, WithKeyed DEF IInv, DefinitionsInv
<1>4. Compiled(Compile(file))
  BY <1>1 DEF Compiled
<1>5. \A k \in DOMAIN registry' : Compiled(registry'[k])
  BY <1>1, <1>4, WithCompiled DEF IInv, DefinitionsInv
<1>6. DOMAIN registry \subseteq DOMAIN registry'
  BY <1>1 DEF With
<1>7. half = {} /\ todo = {}
  BY DEF LoadFile, IInv, AheadInv
<1>8. DefinitionsInv'
  BY <1>1, <1>3, <1>5, <1>7 DEF IInv, DefinitionsInv
<1>9. LoadsInv' /\ AheadInv' /\ RunsResolvable' /\ DOMAIN loads' = Loaders
  BY <1>1, <1>7 DEF IInv, LoadsInv, AheadInv, RunsResolvable, Loaders
<1> QED BY <1>8, <1>9 DEF IInv

LEMMA RegisterWorkflowIInv ==
    ASSUME IInv, NEW k \in todo, RegisterWorkflow(k)
    PROVE  IInv'
<1>1. k \in DOMAIN registry /\ half = {}
  BY DEF IInv, AheadInv, RegisterWorkflow
<1>2. /\ workflows' = With(workflows, k, registry[k])
      /\ half' = {k}
      /\ registry[k].initial \in Names(registry[k])
      /\ UNCHANGED <<phase, registry, todo, store, loads, runs>>
  BY DEF RegisterWorkflow
<1>3. Usable(registry[k])
  BY <1>1, <1>2, CompileUsable DEF IInv, DefinitionsInv, Compiled
<1>4. wfKey(registry[k]) = k
  BY <1>1 DEF IInv, DefinitionsInv, Keyed
<1>5. Keyed(workflows')
  BY <1>2, <1>4, WithKeyed DEF IInv, DefinitionsInv
<1>6. \A x \in DOMAIN workflows' : Usable(workflows'[x])
  BY <1>2, <1>3, WithUsable DEF IInv, DefinitionsInv
<1>7. DefinitionsInv'
  BY <1>2, <1>5, <1>6 DEF IInv, DefinitionsInv
<1>8. DOMAIN workflows' = DOMAIN workflows \union {k}
  BY <1>2, WithDomain
<1>9. AheadInv'
  BY <1>1, <1>2, <1>8 DEF IInv, AheadInv
<1>10. LoadsInv' /\ RunsResolvable' /\ DOMAIN loads' = Loaders
  BY <1>2 DEF IInv, LoadsInv, RunsResolvable, Loaders
<1> QED BY <1>7, <1>9, <1>10 DEF IInv

LEMMA StoreWorkflowIInv ==
    ASSUME IInv, NEW k \in todo, StoreWorkflow(k)
    PROVE  IInv'
<1>1. /\ k \in half /\ k \in DOMAIN registry
      /\ store' = With(store, k, registry[k])
      /\ todo' = todo \ {k} /\ half' = {}
      /\ UNCHANGED <<phase, registry, workflows, loads, runs>>
  BY DEF StoreWorkflow, IInv, AheadInv
<1>2. Usable(registry[k])
  BY <1>1, CompileUsable DEF IInv, DefinitionsInv, Compiled
<1>3. wfKey(registry[k]) = k
  BY <1>1 DEF IInv, DefinitionsInv, Keyed
<1>4. Keyed(store')
  BY <1>1, <1>3, WithKeyed DEF IInv, DefinitionsInv
<1>5. \A x \in DOMAIN store' : Usable(store'[x])
  BY <1>1, <1>2, WithUsable DEF IInv, DefinitionsInv
<1>6. DefinitionsInv'
  BY <1>1, <1>4, <1>5 DEF IInv, DefinitionsInv
<1>7. DOMAIN store' = DOMAIN store \union {k}
  BY <1>1, WithDomain
<1>8. \A x \in half : x = k
  BY <1>1 DEF IInv, AheadInv
<1>9. AheadInv' /\ LoadsInv' /\ RunsResolvable' /\ DOMAIN loads' = Loaders
  BY <1>1, <1>7, <1>8 DEF IInv, AheadInv, LoadsInv, RunsResolvable, Loaders
<1> QED BY <1>6, <1>9 DEF IInv

LEMMA ReadStoreIInv ==
    ASSUME IInv, NEW g \in Loaders, NEW k \in DOMAIN store, ReadStore(g, k)
    PROVE  IInv'
<1>1. /\ loads' = [loads EXCEPT ![g] = [key |-> k, def |-> store[k]]]
      /\ UNCHANGED <<phase, registry, todo, half, workflows, store, runs>>
  BY DEF ReadStore, main
<1>2. wfKey(store[k]) = k /\ Usable(store[k])
  BY DEF IInv, DefinitionsInv, Keyed
<1>3. DOMAIN loads' = Loaders
  BY <1>1 DEF IInv
<1>4. LoadsInv'
  <2> SUFFICES ASSUME NEW h \in Loaders, loads'[h] # NoLoad
               PROVE  /\ wfKey(loads'[h].def) = loads'[h].key
                      /\ Usable(loads'[h].def)
                      /\ loads'[h].key \in DOMAIN store
    BY <1>1 DEF LoadsInv, Loaders
  <2>1. CASE h = g
    <3>1. loads'[h] = [key |-> k, def |-> store[k]]
      BY <1>1, <2>1 DEF IInv
    <3> QED BY <1>2, <3>1
  <2>2. CASE h # g
    <3>1. loads'[h] = loads[h]
      BY <1>1, <2>2 DEF IInv
    <3> QED BY <3>1 DEF IInv, LoadsInv
  <2> QED BY <2>1, <2>2
<1>5. DefinitionsInv' /\ AheadInv' /\ RunsResolvable'
  BY <1>1 DEF IInv, DefinitionsInv, AheadInv, RunsResolvable
<1> QED BY <1>3, <1>4, <1>5 DEF IInv, Loaders

LEMMA FillCacheIInv ==
    ASSUME IInv, NEW g \in Loaders, FillCache(g)
    PROVE  IInv'
<1> DEFINE load == loads[g]
<1>1. /\ load # NoLoad
      /\ workflows' = With(workflows, load.key, load.def)
      /\ loads' = [loads EXCEPT ![g] = NoLoad]
      /\ UNCHANGED <<phase, registry, todo, half, store, runs>>
  BY DEF FillCache, main
<1>2. wfKey(load.def) = load.key /\ Usable(load.def) /\ load.key \in DOMAIN store
  BY <1>1 DEF IInv, LoadsInv
<1> HIDE DEF load
<1>3. Keyed(workflows')
  BY <1>1, <1>2, WithKeyed DEF IInv, DefinitionsInv
<1>4. \A x \in DOMAIN workflows' : Usable(workflows'[x])
  BY <1>1, <1>2, WithUsable DEF IInv, DefinitionsInv
<1>5. DOMAIN workflows' = DOMAIN workflows \union {load.key}
  BY <1>1 DEF With
<1>6. DefinitionsInv' /\ AheadInv' /\ RunsResolvable'
  BY <1>1, <1>2, <1>3, <1>4, <1>5 DEF IInv, DefinitionsInv, AheadInv, RunsResolvable
<1>7. DOMAIN loads' = Loaders /\ \A h \in Loaders : loads'[h] # NoLoad => loads'[h] = loads[h]
  BY <1>1 DEF IInv
<1>8. LoadsInv'
  BY <1>1, <1>7 DEF IInv, LoadsInv, Loaders
<1> QED BY <1>6, <1>7, <1>8 DEF IInv, Loaders

LEMMA CreateTicketIInv ==
    ASSUME IInv, NEW r \in Runs, NEW k \in DOMAIN workflows, CreateTicket(r, k)
    PROVE  IInv'
<1>1. /\ phase = "serving"
      /\ runs' = With(runs, r, wfKey(workflows[k]))
      /\ UNCHANGED <<phase, registry, todo, half, workflows, store, loads>>
  BY DEF CreateTicket, main
<1>2. wfKey(workflows[k]) = k
  BY DEF IInv, DefinitionsInv, Keyed
<1>3. k \in DOMAIN store
  BY <1>1 DEF IInv, AheadInv
<1>4. RunsResolvable'
  BY <1>1, <1>2, <1>3 DEF IInv, RunsResolvable, With
<1>5. DefinitionsInv' /\ LoadsInv' /\ AheadInv' /\ DOMAIN loads' = Loaders
  BY <1>1 DEF IInv, DefinitionsInv, LoadsInv, AheadInv, Loaders
<1> QED BY <1>4, <1>5 DEF IInv

LEMMA NextIInv == IInv /\ [Next]_vars => IInv'
<1> SUFFICES ASSUME IInv, [Next]_vars PROVE IInv'
    OBVIOUS
<1>1. CASE \E d \in Directories : NewEngine(d)
  BY <1>1 DEF NewEngine, IInv, DefinitionsInv, LoadsInv, AheadInv, RunsResolvable, Loaders
<1>2. CASE LoadFile
  BY <1>2, LoadFileIInv
<1>3. CASE LoadFileFails
  BY <1>3, DownIInv DEF LoadFileFails
<1>4. CASE LoadDir
  BY <1>4 DEF LoadDir, IInv, DefinitionsInv, LoadsInv, AheadInv, RunsResolvable, Loaders
<1>5. CASE \E k \in todo : RegisterWorkflow(k)
  BY <1>5, RegisterWorkflowIInv
<1>6. CASE \E k \in todo : StoreWorkflow(k)
  BY <1>6, StoreWorkflowIInv
<1>7. CASE \E k \in todo : RegisterFails(k)
  BY <1>7, DownIInv DEF RegisterFails
<1>8. CASE Serve
  BY <1>8 DEF Serve, IInv, DefinitionsInv, LoadsInv, AheadInv, RunsResolvable, Loaders
<1>9. CASE \E g \in Loaders : FillCache(g)
  BY <1>9, FillCacheIInv
<1>10. CASE \E g \in Loaders : \E k \in DOMAIN store : ReadStore(g, k)
  BY <1>10, ReadStoreIInv
<1>11. CASE \E r \in Runs, k \in DOMAIN workflows : CreateTicket(r, k)
  BY <1>11, CreateTicketIInv
<1>12. CASE Stop
  BY <1>12, DownIInv DEF Stop
<1>13. CASE UNCHANGED vars
  BY <1>13 DEF vars, main, IInv, DefinitionsInv, LoadsInv, AheadInv, RunsResolvable, Loaders
<1> QED
  BY <1>1, <1>2, <1>3, <1>4, <1>5, <1>6, <1>7, <1>8, <1>9, <1>10, <1>11, <1>12, <1>13 DEF Next

LEMMA Invariance == Spec => []IInv
<1>1. Init => IInv
  BY InitIInv
<1>2. IInv /\ [Next]_vars => IInv'
  BY NextIInv
<1> QED BY <1>1, <1>2, PTL DEF Spec

\* Whatever the directories hold and wherever a start fails, the engine executes only
\* complete definitions: Compile and RegisterWorkflow establish what it relies on.
THEOREM DefinitionsUsableHolds == Spec => []DefinitionsUsable
<1>1. IInv => DefinitionsUsable
  BY DEF IInv, DefinitionsInv, DefinitionsUsable
<1> QED BY <1>1, Invariance, PTL

\* The definition of every run stays loadable across restarts.
THEOREM RunsResolvableHolds == Spec => []RunsResolvable
<1>1. IInv => RunsResolvable
  BY DEF IInv
<1> QED BY <1>1, Invariance, PTL

-----------------------------------------------------------------------------
\* Where main is, with what it has parsed and stored so far.

\* The last of the first n files that has the key of file i is file i.
LastOf(i, n) == \A j \in 1 .. n : j > i => wfKey(directory[j]) # wfKey(directory[i])

\* The last file of each key that LoadDir has seen is in the registry, ...
ParsedInv ==
    /\ Len(directory) \in Nat /\ DOMAIN directory = 1 .. Len(directory)
    /\ walked \in 0 .. Len(directory)
    /\ \A i \in 1 .. walked : LastOf(i, walked) =>
          /\ wfKey(directory[i]) \in DOMAIN registry
          /\ registry[wfKey(directory[i])] = Compile(directory[i])

\* ... and what RegisterAll is done with is in the store.
StoredInv ==
    phase \in {"registering", "serving"} =>
        /\ walked = Len(directory)
        /\ \A k \in DOMAIN registry \ todo : k \in DOMAIN store /\ store[k] = registry[k]

MainInv ==
    /\ phase \in Phases /\ (phase = "down" => walked = 0)
    /\ DOMAIN runs \subseteq Runs /\ starts \in 0 .. MaxStarts
    /\ ParsedInv /\ StoredInv

LEMMA InitMainInv == Init => MainInv
<1> SUFFICES ASSUME Init PROVE MainInv
    OBVIOUS
<1>1. Len(directory) = 0 /\ DOMAIN directory = 1 .. 0 /\ DOMAIN runs = {}
  BY DEF Init, EmptyMap
<1> QED BY <1>1, DeploymentAssumption DEF Init, MainInv, ParsedInv, StoredInv, Phases

LEMMA DownMainInv ==
    ASSUME MainInv, Down
    PROVE  MainInv'
<1>1. Len(directory') = 0 /\ DOMAIN directory' = 1 .. 0
  BY DEF Down
<1>2. walked' = 0 /\ phase' = "down" /\ UNCHANGED <<runs, starts>>
  BY DEF Down
<1>3. \A i \in 1 .. walked' : FALSE
  BY <1>2
<1>4. walked' \in 0 .. Len(directory')
  BY <1>1, <1>2
<1>5. ParsedInv'
  BY <1>1, <1>3, <1>4 DEF ParsedInv
<1>6. StoredInv'
  BY <1>2 DEF StoredInv
<1> QED BY <1>2, <1>5, <1>6 DEF MainInv, Phases

LEMMA NewEngineMainInv ==
    ASSUME MainInv, NEW d \in Directories, NewEngine(d)
    PROVE  MainInv'
<1>1. starts' \in 0 .. MaxStarts
  BY DeploymentAssumption DEF MainInv, NewEngine
<1>2. ParsedInv'
  BY DeploymentAssumption DEF MainInv, NewEngine, ParsedInv
<1> QED BY <1>1, <1>2 DEF MainInv, NewEngine, StoredInv, Phases

LEMMA LoadFileMainInv ==
    ASSUME MainInv, LoadFile
    PROVE  MainInv'
<1> DEFINE file == directory[walked + 1]
<1>1. /\ phase = "loading" /\ walked < Len(directory) /\ walked' = walked + 1
      /\ registry' = With(registry, wfKey(file), Compile(file))
      /\ UNCHANGED <<phase, directory, runs, starts>>
  BY DEF LoadFile
<1>2. walked \in Nat /\ Len(directory) \in Nat /\ walked' \in 0 .. Len(directory)
  BY <1>1 DEF MainInv, ParsedInv
<1>3. ASSUME NEW i \in 1 .. walked', LastOf(i, walked)'
      PROVE  /\ wfKey(directory[i]) \in DOMAIN registry'
             /\ registry'[wfKey(directory[i])] = Compile(directory[i])
  <2>1. CASE i = walked + 1
    BY <1>1, <2>1 DEF With
  <2>2. CASE i # walked + 1
    <3>1. i \in 1 .. walked
      BY <1>1, <1>2, <2>2
    <3>2. LastOf(i, walked) /\ wfKey(file) # wfKey(directory[i])
      BY <1>1, <1>2, <1>3, <3>1 DEF LastOf
    <3>3. /\ wfKey(directory[i]) \in DOMAIN registry
          /\ registry[wfKey(directory[i])] = Compile(directory[i])
      BY <3>1, <3>2 DEF MainInv, ParsedInv
    <3> QED BY <1>1, <3>2, <3>3 DEF With
  <2> QED BY <2>1, <2>2
<1>4. ParsedInv'
  BY <1>1, <1>2, <1>3 DEF MainInv, ParsedInv
<1>5. StoredInv'
  BY <1>1 DEF StoredInv
<1> QED BY <1>1, <1>4, <1>5 DEF MainInv

LEMMA StoreWorkflowMainInv ==
    ASSUME MainInv, NEW k \in todo, StoreWorkflow(k)
    PROVE  MainInv'
<1>1. /\ store' = With(store, k, registry[k]) /\ todo' = todo \ {k}
      /\ UNCHANGED <<phase, directory, walked, registry, runs, starts>>
  BY DEF StoreWorkflow
<1>2. ASSUME NEW x \in DOMAIN registry \ todo', phase \in {"registering", "serving"}
      PROVE  x \in DOMAIN store' /\ store'[x] = registry[x]
  BY <1>1, <1>2 DEF MainInv, StoredInv, With
<1>3. StoredInv'
  BY <1>1, <1>2 DEF MainInv, StoredInv
<1> QED BY <1>1, <1>3 DEF MainInv, ParsedInv, LastOf

LEMMA CreateTicketMainInv ==
    ASSUME MainInv, NEW r \in Runs, NEW k \in DOMAIN workflows, CreateTicket(r, k)
    PROVE  MainInv'
<1>1. runs' = With(runs, r, wfKey(workflows[k])) /\ UNCHANGED <<main, store>>
  BY DEF CreateTicket
<1>2. DOMAIN runs' \subseteq Runs
  BY <1>1 DEF With, MainInv
<1> QED BY <1>1, <1>2 DEF main, MainInv, ParsedInv, StoredInv, LastOf

LEMMA NextMainInv == IInv /\ MainInv /\ [Next]_vars => MainInv'
<1> SUFFICES ASSUME IInv, MainInv, [Next]_vars PROVE MainInv'
    OBVIOUS
<1>1. CASE \E d \in Directories : NewEngine(d)
  BY <1>1, NewEngineMainInv
<1>2. CASE LoadFile
  BY <1>2, LoadFileMainInv
<1>3. CASE LoadFileFails \/ Stop \/ \E k \in todo : RegisterFails(k)
  BY <1>3, DownMainInv DEF LoadFileFails, Stop, RegisterFails
<1>4. CASE LoadDir
  BY <1>4 DEF LoadDir, MainInv, ParsedInv, StoredInv, LastOf, Phases
<1>5. CASE \E k \in todo : RegisterWorkflow(k)
  BY <1>5 DEF RegisterWorkflow, MainInv, ParsedInv, StoredInv, LastOf
<1>6. CASE \E k \in todo : StoreWorkflow(k)
  BY <1>6, StoreWorkflowMainInv
<1>7. CASE Serve
  BY <1>7 DEF Serve, MainInv, ParsedInv, StoredInv, LastOf, Phases
<1>8. CASE \E g \in Loaders : FillCache(g)
  BY <1>8 DEF FillCache, main, MainInv, ParsedInv, StoredInv, LastOf
<1>9. CASE \E g \in Loaders : \E k \in DOMAIN store : ReadStore(g, k)
  BY <1>9 DEF ReadStore, main, MainInv, ParsedInv, StoredInv, LastOf
<1>10. CASE \E r \in Runs, k \in DOMAIN workflows : CreateTicket(r, k)
  BY <1>10, CreateTicketMainInv
<1>11. CASE UNCHANGED vars
  BY <1>11 DEF vars, main, MainInv, ParsedInv, StoredInv, LastOf
<1> QED
  BY <1>1, <1>2, <1>3, <1>4, <1>5, <1>6, <1>7, <1>8, <1>9, <1>10, <1>11 DEF Next

LEMMA MainInvariance == Spec => []MainInv
<1>1. Init => MainInv
  BY InitMainInv
<1>2. IInv /\ MainInv /\ [Next]_vars => MainInv'
  BY NextMainInv
<1> QED BY <1>1, <1>2, Invariance, PTL DEF Spec

\* A server that listens has stored, of every key, the definition of the last file of its
\* directory, whatever was in the store before and in whatever order they were registered.
THEOREM StoreIsDeployedHolds == Spec => []StoreIsDeployed
<1>1. ASSUME IInv, MainInv, phase = "serving", NEW i \in DOMAIN directory,
             \A j \in DOMAIN directory : j > i => wfKey(directory[j]) # wfKey(directory[i])
      PROVE  /\ wfKey(directory[i]) \in DOMAIN store
             /\ store[wfKey(directory[i])] = Compile(directory[i])
  <2>1. walked = Len(directory) /\ DOMAIN directory = 1 .. Len(directory)
    BY <1>1 DEF MainInv, ParsedInv, StoredInv
  <2>2. i \in 1 .. walked /\ LastOf(i, walked)
    BY <1>1, <2>1 DEF LastOf
  <2>3. /\ wfKey(directory[i]) \in DOMAIN registry
        /\ registry[wfKey(directory[i])] = Compile(directory[i])
    BY <1>1, <2>2 DEF MainInv, ParsedInv
  <2>4. todo = {}
    BY <1>1 DEF IInv, AheadInv
  <2> QED BY <1>1, <2>3, <2>4 DEF MainInv, StoredInv
<1>2. IInv /\ MainInv => StoreIsDeployed
  BY <1>1 DEF StoreIsDeployed
<1> QED BY <1>2, Invariance, MainInvariance, PTL

\* Deployment keeps its types: every map is keyed by the definitions' own keys.
THEOREM TypeCorrect == Spec => []TypeOK
<1>1. IInv /\ MainInv => TypeOK
  BY DEF IInv, MainInv, DefinitionsInv, LoadsInv, AheadInv, Keyed, TypeOK
<1> QED BY <1>1, Invariance, MainInvariance, PTL

-----------------------------------------------------------------------------
\* The version order.  A version of numbers is read as an infinite sequence of integers,
\* zero from its end on.

Numbers(v) == IsVersion(v) /\ \A i \in DOMAIN v : Numeric(v[i])

Value(v, i) == Component(v, i).value

\* a and b first differ at i, where a has the larger number.
HigherAt(a, b, i) ==
    /\ Value(a, i) > Value(b, i)
    /\ \A j \in 1 .. i - 1 : Value(a, j) = Value(b, j)

\* A set of positions has a first one.
LEMMA FirstPosition ==
    ASSUME NEW T, T \subseteq Nat, T # {}
    PROVE  \E x \in T : \A y \in T : x <= y
<1> DEFINE R == {ss \in Nat \X Nat : ss[1] < ss[2]}
<1>1. IsWellFoundedOn(R, Nat)
  BY NatLessThanWellFounded DEF OpToRel
<1> HIDE DEF R
<1>2. PICK x \in T : \A y \in T : <<y, x>> \notin R
  BY <1>1, WFMin
<1>3. \A y \in T : ~(y < x)
  BY <1>2 DEF R
<1> QED BY <1>2, <1>3

\* A missing component is the number 0.
LEMMA ValueType ==
    ASSUME NEW v, Numbers(v), NEW i \in Nat
    PROVE  /\ Value(v, i) \in Int
           /\ Numeric(Component(v, i))
           /\ i > Len(v) => Value(v, i) = 0
<1>1. CASE i \in DOMAIN v
  BY <1>1 DEF Numbers, IsVersion, Value, Component
<1>2. CASE i \notin DOMAIN v
  BY <1>2, NumericAssumption DEF Value, Component, Numeric
<1>3. i > Len(v) => i \notin DOMAIN v
  BY DEF Numbers, IsVersion
<1> QED BY <1>1, <1>2, <1>3 DEF Value, Component

\* The bound in Higher is no restriction: beyond both ends there are only zeros.
LEMMA HigherAnywhere ==
    ASSUME NEW a, NEW b, Numbers(a), Numbers(b)
    PROVE  Higher(a, b) <=> \E i \in Nat \ {0} : HigherAt(a, b, i)
<1>1. Len(a) \in Nat /\ Len(b) \in Nat
  BY DEF Numbers, IsVersion
<1>2. Higher(a, b) <=> \E i \in 1 .. Len(a) + Len(b) : HigherAt(a, b, i)
  BY DEF Higher, HigherAt, Value
<1>3. ASSUME NEW i \in Nat \ {0}, HigherAt(a, b, i)
      PROVE  i \in 1 .. Len(a) + Len(b)
  <2>1. Value(a, i) > Value(b, i)
    BY <1>3 DEF HigherAt
  <2>2. ~(i > Len(a) /\ i > Len(b))
    BY <2>1, ValueType
  <2> QED BY <1>1, <2>2
<1> QED BY <1>1, <1>2, <1>3

\* compareVersions decides the order of versions of numbers.
LEMMA CompareNumbers ==
    ASSUME NEW a, NEW b, Numbers(a), Numbers(b)
    PROVE  compareVersions(a, b) > 0 <=> Higher(a, b)
<1> DEFINE At(i) == compareComponents(Component(a, i), Component(b, i))
           Differ == {i \in 1 .. Len(a) + Len(b) : At(i) # 0}
           first == CHOOSE i \in Differ : \A j \in Differ : i <= j
<1>1. Len(a) \in Nat /\ Len(b) \in Nat
  BY DEF Numbers, IsVersion
<1>2. ASSUME NEW i \in Nat
      PROVE  /\ At(i) = Value(a, i) - Value(b, i)
             /\ Value(a, i) \in Int /\ Value(b, i) \in Int
  BY ValueType DEF compareComponents, Value
<1>3. Higher(a, b) <=> \E i \in 1 .. Len(a) + Len(b) : HigherAt(a, b, i)
  BY DEF Higher, HigherAt, Value
<1>4. compareVersions(a, b) = IF Differ = {} THEN 0 ELSE At(first)
  BY DEF compareVersions
<1>5. Differ \subseteq Nat /\ \A i \in 1 .. Len(a) + Len(b) : i \in Differ <=> At(i) # 0
  BY <1>1
<1> HIDE DEF At
<1>6. CASE Differ = {}
  <2>1. ASSUME NEW i \in 1 .. Len(a) + Len(b) PROVE Value(a, i) = Value(b, i)
    <3>1. i \in Nat
      BY <1>1
    <3>2. At(i) = 0
      BY <1>5, <1>6
    <3>3. Value(a, i) \in Int /\ Value(b, i) \in Int /\ Value(a, i) - Value(b, i) = 0
      BY <1>2, <3>1, <3>2
    <3> QED BY <3>3
  <2>2. ~Higher(a, b)
    BY <1>1, <1>2, <1>3, <2>1 DEF HigherAt
  <2> QED BY <1>4, <1>6, <2>2
<1>7. CASE Differ # {}
  <2>1. first \in Differ /\ \A j \in Differ : first <= j
    <3>1. \E i \in Differ : \A j \in Differ : i <= j
      BY <1>5, <1>7, FirstPosition
    <3> HIDE DEF Differ
    <3> QED BY <3>1
  <2>2. first \in 1 .. Len(a) + Len(b) /\ first \in Nat
    BY <1>1, <2>1
  <2> HIDE DEF first, Differ
  <2>3. At(first) # 0
    BY <1>5, <2>1, <2>2
  <2>4. \A j \in 1 .. first - 1 : Value(a, j) = Value(b, j)
    <3> SUFFICES ASSUME NEW j \in 1 .. first - 1 PROVE Value(a, j) = Value(b, j)
      OBVIOUS
    <3>1. j \in 1 .. Len(a) + Len(b) /\ j \in Nat /\ ~(first <= j)
      BY <1>1, <2>2
    <3>2. At(j) = 0
      BY <1>5, <2>1, <3>1
    <3> QED BY <1>2, <3>1, <3>2
  <2>5. CASE At(first) > 0
    <3>1. Value(a, first) > Value(b, first)
      BY <1>2, <2>2, <2>5
    <3>2. HigherAt(a, b, first)
      BY <2>4, <3>1 DEF HigherAt
    <3> QED BY <1>3, <1>4, <1>7, <2>2, <2>5, <3>2
  <2>6. CASE ~(At(first) > 0)
    <3>1. Value(a, first) < Value(b, first)
      BY <1>2, <2>2, <2>3, <2>6
    <3>2. ASSUME NEW i \in 1 .. Len(a) + Len(b), HigherAt(a, b, i)
          PROVE  FALSE
      <4>1. i \in Nat /\ i > 0 /\ Value(a, i) > Value(b, i)
        BY <1>1, <3>2 DEF HigherAt
      <4>2. ~(i < first)
        BY <1>2, <2>2, <2>4, <4>1
      <4>3. i # first
        BY <1>2, <2>2, <3>1, <4>1
      <4>4. first \in 1 .. i - 1
        BY <2>2, <4>1, <4>2, <4>3
      <4> QED BY <1>2, <2>2, <3>1, <3>2, <4>4 DEF HigherAt
    <3> QED BY <1>3, <1>4, <1>7, <2>6, <3>2
  <2> QED BY <2>5, <2>6
<1> QED BY <1>6, <1>7

\* Of two versions at most one is higher.
LEMMA HigherOneWay ==
    ASSUME NEW a, NEW b, Numbers(a), Numbers(b), Higher(a, b)
    PROVE  ~Higher(b, a)
<1>1. PICK i \in Nat \ {0} : HigherAt(a, b, i)
  BY HigherAnywhere
<1>2. ASSUME NEW k \in Nat \ {0}, HigherAt(b, a, k)
      PROVE  FALSE
  <2>1. /\ Value(a, i) \in Int /\ Value(b, i) \in Int
        /\ Value(a, k) \in Int /\ Value(b, k) \in Int
    BY ValueType
  <2>2. CASE k \in 1 .. i - 1
    BY <1>1, <1>2, <2>1, <2>2 DEF HigherAt
  <2>3. CASE i \in 1 .. k - 1
    BY <1>1, <1>2, <2>1, <2>3 DEF HigherAt
  <2>4. CASE i = k
    BY <1>1, <1>2, <2>1, <2>4 DEF HigherAt
  <2> QED BY <2>2, <2>3, <2>4
<1> QED BY <1>2, HigherAnywhere

\* What is not higher than a version is not higher than one that version is not higher
\* than: without text components the order is total, which is what makes Latest
\* independent of the order in which it meets the versions.
LEMMA NotHigherTransitive ==
    ASSUME NEW a, NEW b, NEW c, Numbers(a), Numbers(b), Numbers(c),
           ~Higher(a, b), ~Higher(b, c)
    PROVE  ~Higher(a, c)
<1> SUFFICES ASSUME NEW i \in Nat \ {0}, HigherAt(a, c, i)
             PROVE  FALSE
  BY HigherAnywhere
<1> DEFINE Split == {j \in 1 .. i : Value(b, j) # Value(a, j) \/ Value(b, j) # Value(c, j)}
<1>1. \A j \in Nat : Value(a, j) \in Int /\ Value(b, j) \in Int /\ Value(c, j) \in Int
  BY ValueType
<1>2. i \in Split
  BY <1>1 DEF HigherAt
<1>3. PICK j \in Split : \A k \in Split : j <= k
  <2>1. Split \subseteq Nat
    OBVIOUS
  <2> HIDE DEF Split
  <2> QED BY <1>2, <2>1, FirstPosition
<1>4. j \in 1 .. i /\ j \in Nat \ {0}
  BY <1>3
<1>5. ASSUME NEW k \in 1 .. j - 1
      PROVE  Value(b, k) = Value(a, k) /\ Value(b, k) = Value(c, k)
  <2>1. k \in 1 .. i /\ ~(j <= k)
    BY <1>4
  <2> QED BY <1>3, <2>1
<1>6. Value(a, j) >= Value(c, j)
  BY <1>1, <1>4 DEF HigherAt
<1>7. Value(b, j) > Value(c, j) \/ Value(a, j) > Value(b, j)
  BY <1>1, <1>3, <1>4, <1>6
<1>8. HigherAt(b, c, j) \/ HigherAt(a, b, j)
  BY <1>5, <1>7 DEF HigherAt
<1> QED BY <1>4, <1>8, HigherAnywhere

\* One iteration of the loop of Latest.
Better(vs, best, i) ==
    IF i = 1 \/ compareVersions(vs[i], best[i - 1]) > 0 THEN vs[i] ELSE best[i - 1]

\* The loop has a result after every number of iterations.
LEMMA LoopDefined ==
    ASSUME NEW vs, NEW N \in Nat
    PROVE  \E best : best = [i \in 1 .. N |-> Better(vs, best, i)]
<1> DEFINE Defined(n) == \E best : best = [i \in 1 .. n |-> Better(vs, best, i)]
           Bad == {n \in Nat : ~Defined(n)}
<1>1. Defined(0)
  <2> DEFINE none == [i \in 1 .. 0 |-> 0]
  <2>1. none = [i \in 1 .. 0 |-> Better(vs, none, i)]
    OBVIOUS
  <2> QED BY <2>1
<1>2. ASSUME NEW n \in Nat, Defined(n)
      PROVE  Defined(n + 1)
  <2>1. PICK f : f = [i \in 1 .. n |-> Better(vs, f, i)]
    BY <1>2
  <2> DEFINE g == [i \in 1 .. n + 1 |-> IF i \in 1 .. n THEN f[i] ELSE Better(vs, f, n + 1)]
  <2>2. \A i \in 1 .. n : g[i] = f[i]
    OBVIOUS
  <2>3. \A i \in 1 .. n : f[i] = Better(vs, f, i)
    BY <2>1
  <2>4. g[n + 1] = Better(vs, f, n + 1)
    OBVIOUS
  <2> HIDE DEF g
  <2>5. ASSUME NEW i \in 1 .. n + 1
        PROVE  Better(vs, g, i) = Better(vs, f, i)
    <3>1. i = 1 \/ i - 1 \in 1 .. n
      OBVIOUS
    <3>2. i = 1 \/ g[i - 1] = f[i - 1]
      BY <2>2, <3>1
    <3> QED BY <3>2 DEF Better
  <2>6. ASSUME NEW i \in 1 .. n + 1
        PROVE  g[i] = Better(vs, g, i)
    <3>1. i \in 1 .. n \/ i = n + 1
      OBVIOUS
    <3> QED BY <2>2, <2>3, <2>4, <2>5, <3>1
  <2>7. g = [i \in 1 .. n + 1 |-> Better(vs, g, i)]
    BY <2>6 DEF g
  <2> QED BY <2>7
<1> HIDE DEF Defined
<1>3. ASSUME Bad # {} PROVE FALSE
  <2>1. Bad \subseteq Nat
    OBVIOUS
  <2>2. PICK n \in Bad : \A m \in Bad : n <= m
    <3> HIDE DEF Bad
    <3> QED BY <1>3, <2>1, FirstPosition
  <2>3. n \in Nat /\ n # 0 /\ n - 1 \in Nat /\ ~(n <= n - 1)
    BY <1>1, <2>2
  <2>4. Defined(n - 1)
    BY <2>2, <2>3
  <2>5. Defined((n - 1) + 1)
    BY <1>2, <2>3, <2>4
  <2> QED BY <2>2, <2>3, <2>5
<1>4. Defined(N)
  BY <1>3
<1> QED BY <1>4 DEF Defined

\* Latest answers what the loop has found at its end.
LEMMA LatestLoop ==
    ASSUME NEW vs, Len(vs) \in Nat, DOMAIN vs = 1 .. Len(vs)
    PROVE  \E best : /\ best = [i \in DOMAIN vs |-> Better(vs, best, i)]
                     /\ Latest(vs) = best[Len(vs)]
<1> DEFINE found == CHOOSE best : best = [i \in DOMAIN vs |-> Better(vs, best, i)]
<1>1. \E best : best = [i \in DOMAIN vs |-> Better(vs, best, i)]
  <2>1. \E best : best = [i \in 1 .. Len(vs) |-> Better(vs, best, i)]
    BY LoopDefined
  <2> QED BY <2>1
<1>2. found = [i \in DOMAIN vs |-> Better(vs, found, i)]
  BY <1>1
<1>3. Latest(vs) = found[Len(vs)]
  BY DEF Latest, Better
<1> QED BY <1>2, <1>3

\* Of versions of numbers Latest answers one than which none it has met is higher.
LEMMA LatestOfNumbers ==
    ASSUME NEW vs, Len(vs) \in Nat \ {0}, DOMAIN vs = 1 .. Len(vs),
           \A i \in DOMAIN vs : Numbers(vs[i])
    PROVE  \A j \in DOMAIN vs : ~Higher(vs[j], Latest(vs))
<1>1. PICK best : /\ best = [i \in DOMAIN vs |-> Better(vs, best, i)]
                  /\ Latest(vs) = best[Len(vs)]
  BY LatestLoop
<1>2. \A i \in DOMAIN vs : best[i] = Better(vs, best, i)
  BY <1>1
<1> DEFINE Good(n) == Numbers(best[n]) /\ \A j \in 1 .. n : ~Higher(vs[j], best[n])
           Bad == {n \in DOMAIN vs : ~Good(n)}
<1>3. \A i \in DOMAIN vs : ~Higher(vs[i], vs[i])
  BY HigherOneWay
<1>4. 1 \in DOMAIN vs => Good(1)
  <2> SUFFICES ASSUME 1 \in DOMAIN vs PROVE Good(1)
    OBVIOUS
  <2>1. best[1] = vs[1]
    BY <1>2 DEF Better
  <2> QED BY <1>3, <2>1
<1>5. ASSUME NEW n \in DOMAIN vs, n # 1, Good(n - 1)
      PROVE  Good(n)
  <2>1. n - 1 \in DOMAIN vs /\ n \in Nat
    BY <1>5
  <2>2. \A j \in 1 .. n : j \in DOMAIN vs /\ (j = n \/ j \in 1 .. n - 1)
    BY <2>1
  <2>3. CASE Higher(vs[n], best[n - 1])
    <3>1. best[n] = vs[n]
      BY <1>2, <1>5, <2>3, CompareNumbers DEF Better
    <3>2. ~Higher(best[n - 1], vs[n])
      BY <1>5, <2>3, HigherOneWay
    <3>3. \A j \in 1 .. n - 1 : ~Higher(vs[j], vs[n])
      BY <1>5, <2>2, <3>2, NotHigherTransitive
    <3> QED BY <1>3, <2>2, <3>1, <3>3
  <2>4. CASE ~Higher(vs[n], best[n - 1])
    <3>1. best[n] = best[n - 1]
      BY <1>2, <1>5, <2>4, CompareNumbers DEF Better
    <3> QED BY <1>5, <2>2, <2>4, <3>1
  <2> QED BY <2>3, <2>4
<1> HIDE DEF Good
<1>6. ASSUME Bad # {} PROVE FALSE
  <2>1. Bad \subseteq Nat
    OBVIOUS
  <2>2. PICK n \in Bad : \A m \in Bad : n <= m
    <3> HIDE DEF Bad
    <3> QED BY <1>6, <2>1, FirstPosition
  <2>3. n \in DOMAIN vs /\ n # 1
    BY <1>4, <2>2
  <2>4. n - 1 \in DOMAIN vs /\ ~(n <= n - 1)
    BY <2>3
  <2>5. Good(n - 1)
    BY <2>2, <2>4
  <2> QED BY <1>5, <2>2, <2>3, <2>5
<1>7. Len(vs) \in DOMAIN vs
  OBVIOUS
<1>8. Good(Len(vs))
  BY <1>6, <1>7
<1> QED BY <1>1, <1>8 DEF Good

\* The registry holds finitely many definitions, each with a version.
VersionsInv ==
    /\ directory = <<>> \/ directory \in Directories
    /\ IsFiniteSet(DOMAIN registry)
    /\ \A k \in DOMAIN registry : IsVersion(k[2])

LEMMA InitVersionsInv == Init => VersionsInv
<1> SUFFICES ASSUME Init PROVE VersionsInv
    OBVIOUS
<1>1. DOMAIN registry = {}
  BY DEF Init, EmptyMap
<1> QED BY <1>1, FS_EmptySet DEF Init, VersionsInv

LEMMA DownVersionsInv ==
    ASSUME Down
    PROVE  VersionsInv'
<1>1. directory' = <<>> /\ DOMAIN registry' = {}
  BY DEF Down, EmptyMap
<1> QED BY <1>1, FS_EmptySet DEF VersionsInv

LEMMA LoadFileVersionsInv ==
    ASSUME MainInv, VersionsInv, LoadFile
    PROVE  VersionsInv'
<1> DEFINE file == directory[walked + 1]
<1>1. /\ walked < Len(directory) /\ Parses(file) /\ UNCHANGED directory
      /\ registry' = With(registry, wfKey(file), Compile(file))
  BY DEF LoadFile
<1>2. walked + 1 \in DOMAIN directory
  BY <1>1 DEF MainInv, ParsedInv
<1>3. directory \in Directories
  <2>1. directory # <<>>
    BY <1>2
  <2> QED BY <2>1 DEF VersionsInv
<1>4. IsVersion(file.version)
  BY <1>1, <1>2, <1>3, VersionAssumption DEF Parses
<1> HIDE DEF file
<1>5. wfKey(file)[2] = file.version
  BY DEF wfKey
<1>6. DOMAIN registry' = DOMAIN registry \union {wfKey(file)}
  BY <1>1, WithDomain
<1>7. IsFiniteSet(DOMAIN registry')
  BY <1>6, FS_AddElement DEF VersionsInv
<1>8. \A k \in DOMAIN registry' : IsVersion(k[2])
  BY <1>4, <1>5, <1>6 DEF VersionsInv
<1> QED BY <1>1, <1>7, <1>8 DEF VersionsInv

LEMMA NextVersionsInv == MainInv /\ VersionsInv /\ [Next]_vars => VersionsInv'
<1> SUFFICES ASSUME MainInv, VersionsInv, [Next]_vars PROVE VersionsInv'
    OBVIOUS
<1>1. CASE \E d \in Directories : NewEngine(d)
  BY <1>1 DEF NewEngine, VersionsInv
<1>2. CASE LoadFile
  BY <1>2, LoadFileVersionsInv
<1>3. CASE LoadFileFails \/ Stop \/ \E k \in todo : RegisterFails(k)
  BY <1>3, DownVersionsInv DEF LoadFileFails, Stop, RegisterFails
<1>4. CASE LoadDir \/ Serve
  BY <1>4 DEF LoadDir, Serve, VersionsInv
<1>5. CASE \E k \in todo : RegisterWorkflow(k) \/ StoreWorkflow(k)
  BY <1>5 DEF RegisterWorkflow, StoreWorkflow, VersionsInv
<1>6. CASE \E g \in Loaders : FillCache(g) \/ \E k \in DOMAIN store : ReadStore(g, k)
  BY <1>6 DEF FillCache, ReadStore, main, VersionsInv
<1>7. CASE \E r \in Runs, k \in DOMAIN workflows : CreateTicket(r, k)
  BY <1>7 DEF CreateTicket, main, VersionsInv
<1>8. CASE UNCHANGED vars
  BY <1>8 DEF vars, main, VersionsInv
<1> QED
  BY <1>1, <1>2, <1>3, <1>4, <1>5, <1>6, <1>7, <1>8 DEF Next

\* Whichever way the map is visited, every version is met, once.
LEMMA OrderMeetsAll ==
    ASSUME NEW S, IsFiniteSet(S), NEW o \in Orders(S)
    PROVE  /\ Len(o) = Cardinality(S) /\ Len(o) \in Nat /\ DOMAIN o = 1 .. Len(o)
           /\ \A i \in DOMAIN o : o[i] \in S
           /\ \A v \in S : \E i \in DOMAIN o : o[i] = v
<1> DEFINE C == Cardinality(S)
<1>1. C \in Nat
  BY FS_CardinalityType
<1> HIDE DEF C
<1>2. o \in [1 .. C -> S] /\ \A i, j \in DOMAIN o : o[i] = o[j] => i = j
  BY DEF Orders, C
<1>3. o \in Seq(S)
  BY <1>1, <1>2, SeqDef
<1>4. Len(o) = C /\ DOMAIN o = 1 .. C
  BY <1>1, <1>2, <1>3, LenProperties
<1>5. o \in Injection(1 .. C, S)
  BY <1>2 DEF Injection, IsInjective
<1>6. Cardinality(1 .. C) = C
  <2>1. Cardinality(1 .. C) = IF 1 > C THEN 0 ELSE C - 1 + 1
    BY <1>1, FS_Interval
  <2> QED BY <1>1, <2>1
<1>7. o \in Surjection(1 .. C, S)
  BY <1>5, <1>6, FS_Injection DEF C
<1>8. \A v \in S : \E i \in 1 .. C : o[i] = v
  BY <1>7 DEF Surjection
<1> QED BY <1>1, <1>2, <1>4, <1>8 DEF C

\* The versions registered under a name are finitely many.
LEMMA VersionsFinite ==
    ASSUME NEW keys, IsFiniteSet(keys)
    PROVE  IsFiniteSet({m[2] : m \in keys})
<1> DEFINE f == [m \in keys |-> m[2]]
<1>1. f \in Surjection(keys, {m[2] : m \in keys})
  BY DEF Surjection
<1> QED BY <1>1, FS_Surjection

\* Of versions made of numbers Latest answers the highest, for any registry and in whatever
\* order the map is visited.
THEOREM LatestIsHighestHolds == Spec => []LatestIsHighest
<1>1. ASSUME VersionsInv, NEW k \in DOMAIN registry
      PROVE  LET versions == {n[2] : n \in {m \in DOMAIN registry : m[1] = k[1]}}
             IN  (\A v \in versions : \A i \in DOMAIN v : Numeric(v[i])) =>
                     \A o \in Orders(versions) : ~Higher(k[2], Latest(o))
  <2> DEFINE keys == {m \in DOMAIN registry : m[1] = k[1]}
             versions == {n[2] : n \in keys}
  <2> SUFFICES ASSUME \A v \in versions : \A i \in DOMAIN v : Numeric(v[i]),
                      NEW o \in Orders(versions)
               PROVE  ~Higher(k[2], Latest(o))
    OBVIOUS
  <2>1. IsFiniteSet(keys)
    BY <1>1, FS_Subset DEF VersionsInv
  <2>2. k[2] \in versions
    OBVIOUS
  <2>3. \A v \in versions : Numbers(v)
    BY <1>1 DEF VersionsInv, Numbers
  <2>4. IsFiniteSet(versions)
    <3> HIDE DEF keys
    <3> QED BY <2>1, VersionsFinite
  <2> HIDE DEF versions
  <2>5. /\ Len(o) \in Nat /\ DOMAIN o = 1 .. Len(o)
        /\ \A i \in DOMAIN o : o[i] \in versions
        /\ \A v \in versions : \E i \in DOMAIN o : o[i] = v
    BY <2>4, OrderMeetsAll
  <2>6. PICK i \in DOMAIN o : o[i] = k[2]
    BY <2>2, <2>5
  <2>7. Len(o) \in Nat \ {0}
    BY <2>5, <2>6
  <2>8. \A j \in DOMAIN o : ~Higher(o[j], Latest(o))
    BY <2>3, <2>5, <2>7, LatestOfNumbers
  <2> QED BY <2>6, <2>8
<1>2. VersionsInv => LatestIsHighest
  BY <1>1 DEF LatestIsHighest
<1>3. Init => VersionsInv
  BY InitVersionsInv
<1>4. MainInv /\ VersionsInv /\ [Next]_vars => VersionsInv'
  BY NextVersionsInv
<1> QED BY <1>2, <1>3, <1>4, MainInvariance, PTL DEF Spec
=============================================================================
