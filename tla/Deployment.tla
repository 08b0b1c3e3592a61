----------------------------- MODULE Deployment -----------------------------
(***************************************************************************)
(* How workflow definitions reach the engine: the server's start (main of  *)
(* cmd/conduit-server), LoadDir and RegisterAll (engine/dsl/loader.go),    *)
(* RegisterWorkflow and loadWorkflow (engine/engine.go), the store of      *)
(* definitions (eventlog_pg.go, store.go).  The process may stop at any    *)
(* moment and is started again on a directory that has changed; the store  *)
(* and the runs stay.  The engine's timer loop runs from the moment the    *)
(* engine exists: its sweep, and the workers it feeds, load the            *)
(* definitions of old runs while new ones are being registered.            *)
(***************************************************************************)
EXTENDS Definitions, FiniteSets

CONSTANTS Directories,  \* contents the workflows directory may have: sequences of
                        \* file contents, in the order of WalkDir
          Runs,         \* the runs that may be created
          Background,   \* the goroutines of the engine: the timer loop, the workers
          Requests,     \* the goroutines that serve API calls
          NoLoad,       \* a goroutine that is not inside loadWorkflow
          MaxStarts     \* bound: how often the process is started

ASSUME DeploymentAssumption ==
    /\ MaxStarts \in Nat
    /\ \A d \in Directories : Len(d) \in Nat /\ DOMAIN d = 1 .. Len(d)

\* A file that parses has a version, whatever its components are.
ASSUME VersionAssumption ==
    \A d \in Directories : \A i \in DOMAIN d : d[i] # Unparsable => IsVersion(d[i].version)

VARIABLES
    phase,      \* what main is doing: "down", "loading", "registering", "serving"
    directory,  \* the directory the process was started on
    walked,     \* the number of its files that LoadDir has parsed
    registry,   \* Registry.defs, the definitions of these files by key
    todo,       \* the keys RegisterAll has not finished
    half,       \* the keys whose RegisterWorkflow has written the cache, not the store
    workflows,  \* Engine.workflows, the cache
    store,      \* the workflows table
    loads,      \* what a goroutine has read from the store and not yet cached
    runs,       \* the runs that exist, with the key of their definition
    starts      \* the number of starts so far

\* What main keeps, and all of it.
main == <<phase, directory, walked, registry, todo, half, starts>>
vars == <<main, workflows, store, loads, runs>>

Loaders == Background \union Requests

\* The map f after f[k] = d.
With(f, k, d) == [x \in DOMAIN f \union {k} |-> IF x = k THEN d ELSE f[x]]

EmptyMap == [x \in {} |-> x]

\* The process has no state of its own while it is down.
Down ==
    /\ phase' = "down"
    /\ directory' = <<>>
    /\ walked' = 0
    /\ registry' = EmptyMap
    /\ todo' = {}
    /\ half' = {}
    /\ workflows' = EmptyMap
    /\ loads' = [g \in Loaders |-> NoLoad]
    /\ UNCHANGED <<store, runs, starts>>

Init ==
    /\ phase = "down"
    /\ directory = <<>>
    /\ walked = 0
    /\ registry = EmptyMap
    /\ todo = {}
    /\ half = {}
    /\ workflows = EmptyMap
    /\ store = EmptyMap
    /\ loads = [g \in Loaders |-> NoLoad]
    /\ runs = EmptyMap
    /\ starts = 0

\* main opens the database and makes the engine, whose timer loop starts.
NewEngine(d) ==
    /\ phase = "down" /\ starts < MaxStarts
    /\ phase' = "loading"
    /\ directory' = d
    /\ starts' = starts + 1
    /\ UNCHANGED <<walked, registry, todo, half, workflows, store, loads, runs>>

\* LoadDir, for the next file; a key that is there already is replaced.
LoadFile ==
    /\ phase = "loading" /\ walked < Len(directory)
    /\ LET file == directory[walked + 1]
       IN  /\ Parses(file)
           /\ registry' = With(registry, wfKey(file), Compile(file))
    /\ walked' = walked + 1
    /\ UNCHANGED <<phase, directory, todo, half, workflows, store, loads, runs, starts>>

\* One file that does not parse ends the process.
LoadFileFails ==
    /\ phase = "loading" /\ walked < Len(directory)
    /\ ~Parses(directory[walked + 1])
    /\ Down

\* LoadDir returns and RegisterAll begins.
LoadDir ==
    /\ phase = "loading" /\ walked = Len(directory)
    /\ phase' = "registering"
    /\ todo' = DOMAIN registry
    /\ UNCHANGED <<directory, walked, registry, half, workflows, store, loads, runs, starts>>

\* RegisterAll visits the definitions in any order; RegisterWorkflow fills the cache.
RegisterWorkflow(k) ==
    /\ phase = "registering"
    /\ half = {} /\ k \in todo
    /\ registry[k].initial \in Names(registry[k])
    /\ workflows' = With(workflows, k, registry[k])
    /\ half' = {k}
    /\ UNCHANGED <<phase, directory, walked, registry, todo, store, loads, runs, starts>>

\* Mutant: the definition is made available in this process only.
StoreWorkflowForgets(k) ==
    /\ k \in half
    /\ todo' = todo \ {k}
    /\ half' = {}
    /\ UNCHANGED <<phase, directory, walked, registry, workflows, store, loads, runs, starts>>

\* Mutant: ON CONFLICT DO NOTHING.
StoreWorkflowKeepsOld(k) ==
    /\ k \in half
    /\ store' = IF k \in DOMAIN store THEN store ELSE With(store, k, registry[k])
    /\ todo' = todo \ {k}
    /\ half' = {}
    /\ UNCHANGED <<phase, directory, walked, registry, workflows, loads, runs, starts>>

\* ... and then writes the store.
StoreWorkflow(k) ==
    /\ k \in half
    /\ store' = With(store, k, registry[k])
    /\ todo' = todo \ {k}
    /\ half' = {}
    /\ UNCHANGED <<phase, directory, walked, registry, workflows, loads, runs, starts>>

\* A definition without its initial step ends the process, whatever is registered by then.
RegisterFails(k) ==
    /\ phase = "registering"
    /\ half = {} /\ k \in todo
    /\ registry[k].initial \notin Names(registry[k])
    /\ Down

Serve ==
    /\ phase = "registering" /\ todo = {}
    /\ phase' = "serving"
    /\ UNCHANGED <<directory, walked, registry, todo, half, starts, workflows, store, loads, runs>>

\* What g may ask for: the sweep, and a worker it gives a task to, the definitions of the
\* runs, once the engine exists; a request any, once the server listens.
MayLoad(g, k) ==
    \/ g \in Background /\ phase # "down" /\ \E r \in DOMAIN runs : runs[r] = k
    \/ g \in Requests /\ phase = "serving"

\* Mutant: the query leaves the version out.
ReadStoreAnyVersion(g, k) ==
    /\ MayLoad(g, k)
    /\ loads[g] = NoLoad
    /\ k \notin DOMAIN workflows
    /\ \E stored \in DOMAIN store :
        /\ stored[1] = k[1]
        /\ loads' = [loads EXCEPT ![g] = [key |-> k, def |-> store[stored]]]
    /\ UNCHANGED <<main, workflows, store, runs>>

\* loadWorkflow up to the answer of the store, when the cache has no such key.
ReadStore(g, k) ==
    /\ MayLoad(g, k)
    /\ loads[g] = NoLoad
    /\ k \notin DOMAIN workflows
    /\ k \in DOMAIN store
    /\ loads' = [loads EXCEPT ![g] = [key |-> k, def |-> store[k]]]
    /\ UNCHANGED <<main, workflows, store, runs>>

\* The rest of it.
FillCache(g) ==
    /\ loads[g] # NoLoad
    /\ workflows' = With(workflows, loads[g].key, loads[g].def)
    /\ loads' = [loads EXCEPT ![g] = NoLoad]
    /\ UNCHANGED <<main, store, runs>>

\* loadWorkflow has answered: the ticket names the definition.
CreateTicket(r, k) ==
    /\ phase = "serving"
    /\ r \notin DOMAIN runs
    /\ k \in DOMAIN workflows
    /\ runs' = With(runs, r, wfKey(workflows[k]))
    /\ UNCHANGED <<main, workflows, store, loads>>

\* The process is killed, or ends on a failed write of the store.
Stop == phase # "down" /\ Down

Next ==
    \/ \E d \in Directories : NewEngine(d)
    \/ LoadFile \/ LoadFileFails \/ LoadDir
    \/ \E k \in todo :
        RegisterWorkflow(k) \/ StoreWorkflow(k) \/ RegisterFails(k)
    \/ Serve
    \/ \E g \in Loaders : FillCache(g) \/ \E k \in DOMAIN store : ReadStore(g, k)
    \/ \E r \in Runs, k \in DOMAIN workflows : CreateTicket(r, k)
    \/ Stop

Spec == Init /\ [][Next]_vars

-----------------------------------------------------------------------------
Phases == {"down", "loading", "registering", "serving"}

\* The type invariant: maps are keyed by the definition's own key.
TypeOK ==
    /\ phase \in Phases
    /\ \A f \in {registry, workflows, store} : \A k \in DOMAIN f : wfKey(f[k]) = k
    /\ half \subseteq todo /\ todo \subseteq DOMAIN registry
    /\ \A g \in Loaders : loads[g] # NoLoad => wfKey(loads[g].def) = loads[g].key
    /\ DOMAIN runs \subseteq Runs
    /\ starts \in 0 .. MaxStarts

\* Whatever is in a directory, and wherever a start fails or the process is killed, the
\* engine executes only definitions whose steps, references and chains are complete:
\* what Compile and RegisterWorkflow check between them, and nothing less than the
\* engine relies on.
DefinitionsUsable ==
    /\ \A k \in DOMAIN workflows : Usable(workflows[k])
    /\ \A k \in DOMAIN store : Usable(store[k])

\* GetRun needs the definition of a run: after any number of restarts, also on directories
\* that no longer have it, the definition of every run can be loaded.
RunsResolvable == \A r \in DOMAIN runs : runs[r] \in DOMAIN store

\* A server that listens has stored the definitions of its directory, as RegisterAll
\* returned without an error: for every key that of the last file, whatever older
\* processes stored and in whatever order the map was visited.
StoreIsDeployed ==
    phase = "serving" =>
        \A i \in DOMAIN directory :
            (\A j \in DOMAIN directory : j > i => wfKey(directory[j]) # wfKey(directory[i]))
            => /\ wfKey(directory[i]) \in DOMAIN store
               /\ store[wfKey(directory[i])] = Compile(directory[i])

\* The orders in which a map with these keys may be visited.
Orders(S) ==
    {o \in [1 .. Cardinality(S) -> S] : \A i, j \in DOMAIN o : o[i] = o[j] => i = j}

\* Latest "returns the highest semantic-versioned definition for a name": of versions made
\* of numbers, it is the highest by the numbers, in whatever order the map is visited.
LatestIsHighest ==
    \A k \in DOMAIN registry :
        LET versions == {n[2] : n \in {m \in DOMAIN registry : m[1] = k[1]}}
        IN  (\A v \in versions : \A i \in DOMAIN v : Numeric(v[i])) =>
                \A o \in Orders(versions) : ~Higher(k[2], Latest(o))
=============================================================================
