------------------------------ MODULE EngineRun -----------------------------
(***************************************************************************)
(* One run from its admission to its artifacts: the engines a backend finds *)
(* in its environment (engines.py, engine.py), the engine set its worker    *)
(* rebuilds (worker.py), and what the DIRSIG runner does with a demo        *)
(* directory or a composed run (adapter.py, passthrough.py).  Distributions *)
(* are installed, upgraded and broken, and the library is edited, under     *)
(* the processes that use them.  States, slots and the ledger are           *)
(* LocalBackend's and Resources'.                                           *)
(***************************************************************************)
EXTENDS Integers, FiniteSets, SequencesExt

CONSTANTS
  EngineOf,     \* EngineOf[d]: the engine id that distribution d registers
  Used,         \* the engine of the run
  Versions,     \* the versions a distribution can be installed at
  AtFirst,      \* the environments considered, before any change
  Paths,        \* the paths an engine may write, in their order: a path is a
                \* sequence of names, a name one of parts joined by "_"; no path
                \* is a folder of another
  Odd,          \* paths that give no artifact name
  MaxFiles,     \* bounds the files an engine writes
  Windows,      \* the steps before which the environment may change
  MaxChanges    \* how often it does

VARIABLES
  mode,         \* of the run: passthrough or layered
  installed,    \* installed[d]: a version, "broken" or "absent"
  directory,    \* the library directory of the run: as stamped, edited or gone
  changes,
  pc,
  target,       \* the registry: the distribution of an engine, or "conflict"
  code,         \* the backend's memory: the version loaded, "failed", "unused"
  job,          \* engines of job.json
  adapter,      \* the version of the adapter in the worker's memory
  recorded,     \* the adapter's version in the execution record
  ran,          \* the version the runner process loaded
  copy,         \* the content of the copy under the run directory
  written,      \* the files the engine wrote: <<"out", p>> and <<"copy", p>>
  unmoved,      \* the changed files of the copy still to be moved
  out,          \* the output folder: which of them is at a path
  result,       \* the outcome in engine_result.json
  state,        \* the run's state
  artifacts     \* the names listed

backend == <<target, code, job>>
worker  == <<adapter, recorded, artifacts>>
runner  == <<ran, copy, written, unmoved, out, result>>
vars == <<mode, installed, directory, changes, pc, backend, worker, runner, state>>
-----------------------------------------------------------------------------
Distributions == DOMAIN EngineOf
Engines == {EngineOf[d] : d \in Distributions}
Loads(d) == installed[d] \in Versions

\* build_registry: the entry points of the installed distributions by id, two
\* of one id are a conflict.
Registered(e) == {d \in Distributions : EngineOf[d] = e /\ installed[d] # "absent"}
Discovered ==
  [e \in {e \in Engines : Registered(e) # {}} |->
     IF Cardinality(Registered(e)) = 1 THEN CHOOSE d \in Registered(e) : TRUE ELSE "conflict"]

\* _load, of the engines E: once in the life of a process.
Loaded(E) ==
  [e \in DOMAIN target |->
     IF e \notin E \/ code[e] # "unused" THEN code[e]
     ELSE IF target[e] # "conflict" /\ Loads(target[e]) THEN installed[target[e]]
     ELSE "failed"]

\* describe: whether the adapter loaded, and the version info() gives, which is
\* that of the installed distribution at the time, whatever is in memory.
Described(memory) ==
  [e \in DOMAIN target |->
     [loaded  |-> memory[e] # "failed",
      version |-> IF memory[e] = "failed" THEN "none" ELSE installed[target[e]]]]

\* The description of the registry from_description makes in the worker.
Here ==
  [e \in DOMAIN job |->
     IF target[e] # "conflict" /\ Loads(target[e])
     THEN [loaded |-> TRUE, version |-> installed[target[e]]]
     ELSE [loaded |-> FALSE, version |-> "none"]]

\* Mutant of SetMatches: only whether they load is compared.
SetLoads == \A e \in DOMAIN job : Here[e].loaded = job[e].loaded

\* engine_set: every engine of the set, not only the run's, as it was.
SetMatches == \A e \in DOMAIN job : Here[e] = job[e]
-----------------------------------------------------------------------------
Name(p) == <<Last(p)>>
Flat(p) == <<FlattenSeq(p)>>
SomePaths == {P \in SUBSET ToSet(Paths) : Cardinality(P) <= MaxFiles}
Put(o, p, file) == [q \in DOMAIN o \cup {p} |-> IF q = p THEN file ELSE o[q]]

\* Mutant of Destination: every file goes by its base name.
DestinationByName(o, p) == Name(p)

\* Where a file of the copy is moved to.
Destination(o, p) == IF Name(p) \notin DOMAIN o THEN Name(p) ELSE Flat(p)

\* collect and check_artifact_names.
Listable == /\ \A p, q \in DOMAIN out : Flat(p) = Flat(q) => p = q
            /\ \A p \in DOMAIN out : p \notin Odd
-----------------------------------------------------------------------------
Init ==
  /\ mode \in {"passthrough", "layered"}
  /\ installed \in AtFirst
  /\ directory = "stamped" /\ changes = 0 /\ pc = "start"
  /\ target = << >> /\ code = << >> /\ job = << >>
  /\ adapter = "none" /\ recorded = "none" /\ artifacts = {}
  /\ ran = "none" /\ copy = "none" /\ written = {} /\ unmoved = {} /\ out = << >> /\ result = "none"
  /\ state = "none"

Goto(p) == pc' = p
Fail == state' = "failed" /\ Goto("over")

Change ==
  /\ pc \in Windows /\ changes < MaxChanges
  /\ changes' = changes + 1

\* A distribution is installed, upgraded, broken or removed.
Install(d) ==
  /\ Change
  /\ \E v \in (Versions \cup {"broken", "absent"}) \ {installed[d]} :
       installed' = [installed EXCEPT ![d] = v]
  /\ UNCHANGED <<mode, directory, pc, backend, worker, runner, state>>

\* The library directory is edited, restored or removed.
Edit ==
  /\ Change
  /\ directory' \in {"stamped", "edited", "gone"} \ {directory}
  /\ UNCHANGED <<mode, installed, pc, backend, worker, runner, state>>

Environment == UNCHANGED <<mode, installed, directory, changes>>

\* The backend's process starts.
Discover ==
  /\ pc = "start"
  /\ target' = Discovered
  /\ code' = [e \in DOMAIN target' |-> "unused"]
  /\ Goto("serving")
  /\ Environment /\ UNCHANGED <<job, worker, runner, state>>

\* list_engines, compose or validate: an engine is used.
Use(e) ==
  /\ pc = "serving" /\ e \in DOMAIN target
  /\ code' = Loaded({e})
  /\ Environment /\ UNCHANGED <<pc, target, job, worker, runner, state>>

\* submit_run: refused without a loaded adapter of the run's engine, or when
\* its references do not resolve; else job.json is written.
Submit ==
  /\ pc = "serving"
  /\ LET mine == Loaded({Used}) IN
     IF /\ Used \in DOMAIN target /\ mine[Used] # "failed"
        /\ directory = "stamped"
     THEN /\ code' = Loaded(DOMAIN target)
          /\ job' = Described(code')
          /\ state' = "accepted" /\ Goto("queued")
     ELSE /\ code' = mine /\ UNCHANGED job
          /\ state' = "refused" /\ Goto("over")
  /\ Environment /\ UNCHANGED <<target, worker, runner>>

\* The worker has a slot: main up to the record of the adapter.
Boot ==
  /\ pc = "queued"
  /\ IF SetMatches
     THEN /\ adapter' = installed[target[Used]] /\ recorded' = adapter'
          /\ state' = "running" /\ Goto("granted")
     ELSE Fail /\ UNCHANGED <<adapter, recorded>>
  /\ Environment /\ UNCHANGED <<backend, artifacts, runner>>

\* The runner process starts, with an adapter of its own.
Launch ==
  /\ pc = "granted"
  /\ IF Loads(target[Used])
     THEN ran' = installed[target[Used]] /\ Goto(IF mode = "layered" THEN "dry_run" ELSE "resolve")
     ELSE Goto("collect") /\ UNCHANGED ran
  /\ Environment /\ UNCHANGED <<backend, worker, copy, written, unmoved, out, result, state>>

\* The runner writes engine_result.json and ends.
Ends(outcome) == result' = outcome /\ Goto("collect")

\* resolve_passthrough: the digest is verified again.
Resolve ==
  /\ pc = "resolve"
  /\ IF directory = "stamped" THEN Goto("copy") /\ UNCHANGED result ELSE Ends("failed")
  /\ Environment /\ UNCHANGED <<backend, worker, ran, copy, written, unmoved, out, state>>

Copy ==
  /\ pc = "copy"
  /\ copy' = directory
  /\ IF directory = "gone" THEN Ends("failed") ELSE Goto("compile") /\ UNCHANGED result
  /\ Environment /\ UNCHANGED <<backend, worker, ran, written, unmoved, out, state>>

\* compile_scenes: a scene that does not compile ends the run.
Compile ==
  /\ pc = "compile"
  /\ (Goto("engine") /\ UNCHANGED result) \/ Ends("failed")
  /\ Environment /\ UNCHANGED <<backend, worker, ran, copy, written, unmoved, out, state>>

\* dirsig5 writes files into the output folder and changes others in the copy;
\* they are moved whatever its exit status.
RunEngine ==
  /\ pc = "engine"
  /\ \E direct, changed \in SomePaths :
       /\ Cardinality(direct) + Cardinality(changed) <= MaxFiles
       /\ written' = {<<"out", p>> : p \in direct} \cup {<<"copy", p>> : p \in changed}
       /\ unmoved' = changed
       /\ out' = [p \in direct |-> <<"out", p>>]
  /\ Goto("move")
  /\ Environment /\ UNCHANGED <<backend, worker, ran, copy, result, state>>

\* The first of the changed files still in the copy: shutil.move replaces what
\* is at its destination.
Move ==
  /\ pc = "move"
  /\ \E i \in DOMAIN Paths :
       /\ Paths[i] \in unmoved /\ \A j \in 1 .. i - 1 : Paths[j] \notin unmoved
       /\ unmoved' = unmoved \ {Paths[i]}
       /\ out' = Put(out, Destination(out, Paths[i]), <<"copy", Paths[i]>>)
  /\ Environment /\ UNCHANGED <<pc, backend, worker, ran, copy, written, result, state>>

EngineEnds ==
  /\ pc = "move" /\ unmoved = {}
  /\ \E outcome \in {"rendered", "failed"} : Ends(outcome)
  /\ Environment /\ UNCHANGED <<backend, worker, ran, copy, written, unmoved, out, state>>

\* _execute_layered: nothing is rendered when the dry run does not pass.
DryRun ==
  /\ pc = "dry_run"
  /\ copy' = directory
  /\ (Goto("render") /\ UNCHANGED result) \/ Ends("failed")
  /\ Environment /\ UNCHANGED <<backend, worker, ran, written, unmoved, out, state>>

\* The engine's log names images; some may not be there.
Render ==
  /\ pc = "render"
  /\ \E named \in SomePaths :
       /\ written' = {<<"out", p>> : p \in named}
       /\ \E there \in SUBSET named : out' = [p \in there |-> <<"out", p>>]
  /\ \E outcome \in {"rendered", "failed"} : Ends(outcome)
  /\ Environment /\ UNCHANGED <<backend, worker, ran, copy, unmoved, state>>

\* The runner is killed: no engine_result.json.
RunnerDies ==
  /\ pc \in {"resolve", "copy", "compile", "engine", "move", "dry_run", "render"}
  /\ Goto("collect")
  /\ Environment /\ UNCHANGED <<backend, worker, runner, state>>

\* The verdict of collect is "complete", and the references can be built.
Complete ==
  /\ result = "rendered"
  /\ IF mode = "passthrough" THEN Listable
     ELSE \A f \in written : f[2] \in DOMAIN out

\* The worker collects, and sets the final state.
Collect ==
  /\ pc = "collect"
  /\ IF Complete
     THEN /\ state' = "rendered" /\ Goto("over")
          /\ artifacts' = {Flat(p) : p \in DOMAIN out}
     ELSE Fail /\ UNCHANGED artifacts
  /\ Environment /\ UNCHANGED <<backend, adapter, recorded, runner>>

Next ==
  \/ \E d \in Distributions : Install(d)
  \/ Edit
  \/ Discover \/ (\E e \in Engines : Use(e)) \/ Submit \/ Boot \/ Launch
  \/ Resolve \/ Copy \/ Compile \/ RunEngine \/ Move \/ EngineEnds
  \/ DryRun \/ Render \/ RunnerDies \/ Collect

Spec == Init /\ [][Next]_vars
-----------------------------------------------------------------------------
\* What rendered is what was admitted: when nothing changes while an adapter
\* is in the backend's memory, or between a check and the use after it, a
\* rendered run was admitted, executed and recorded at one version of its
\* adapter, on the directory with the stamped digest, although both change
\* before the backend starts and while the run is queued.
RenderedAsAdmitted ==
  state = "rendered" =>
    /\ code[Used] = adapter /\ adapter = recorded /\ adapter = ran
    /\ mode = "passthrough" => copy = "stamped"

\* test_engine_set: "the worker runs with exactly the engine set the backend
\* admitted the run with".
RunsAsAdmitted == state = "running" => adapter = code[Used]

\* passthrough.py: "files the engine writes into the copy instead of the output
\* folder are moved into it", collected under flattened names: what a rendered
\* run does not list was replaced by a file of the copy whose flattened name is
\* its name in the output folder, and by nothing else.
EveryFileListed ==
  state = "rendered" =>
    \A f \in written :
      \/ \E p \in DOMAIN out : out[p] = f /\ Flat(p) \in artifacts
      \/ \E g \in written \ {f} : g[1] = "copy" /\ Flat(g[2]) \in {Name(f[2]), Flat(f[2])}
=============================================================================
