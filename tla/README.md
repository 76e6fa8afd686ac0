# A TLA+ model of protoDIRSIG's run service

protoDIRSIG (the `manifold` packages) turns layered YAML files into run specs,
admits them, and renders each one with an external engine (DIRSIG or SatSim) in
a process of its own. This directory holds TLA+ modules that model the parts of
it that are stateful, concurrent or rule-driven, the TLC configurations that
check them on small instances, and TLAPS proofs of the main safety properties
for every value of the constants.

Paths below are relative to the repository; `sim/`, `core/`, `dirsig/` and
`satsim/` stand for the package folders
`packages/sim/src/manifold/sim/`, `packages/core/src/manifold/core/`,
`packages/engine-dirsig/src/manifold/engines/dirsig/` and
`packages/engine-satsim/src/manifold/engines/satsim/`.

## 1. The system and its parts

| Part | State it keeps | Operations | Talks to |
| --- | --- | --- | --- |
| Run store, `sim/store.py` | one directory per run (`status.json`, `execution.json`, `artifacts.json`, the spec), one file per sweep | `create_run`, `update_status` (compare-and-set under `status.lock`), `reap`, `write_execution`, `write_artifacts`, `create_sweep`, reads | the file system only; called by backends, readers and workers in any number of processes |
| Worker, `sim/worker.py` | a flock on one slot file, an entry in `slots/resources.json`, its engine's process group, a held SIGTERM | `main` from boot to exit, `_acquire_slot`, `acquire_resources`, `launch`, `_cancel`, `stop_engine` | the store; the engine process; signals from `cancel_run` |
| Local backend, `sim/backend.py` | its children and its configuration | `submit_run`, `submit_sweep`, `get_run`, `get_sweep`, `list_artifacts`, `get_artifact`, `cancel_run`, `validate`, `compose` and the library reads | composition and admission, the store, the workers it starts and signals |
| Typed resources, `core/resources.py` | none (pure) | `parse_request`, `check`, `allocate`, asset resolution | the backend at submission, the worker's ledger |
| Composition, `core/compose.py` | none (pure over files) | `compose_sweep`, `merge`, `explain`, the pass-through composition | layer files; engine adapters' rules |
| Identity, `core/identity.py` | none | `resolved_run_spec`, `run_id`, the RFC 8785 form | composition, the store (which verifies the hash) |
| Workspace facade, `sim/workspace.py` | none | `wait` (polls `get_run`), `save_artifact`, pass-through calls | a backend |
| Engine registry, `core/engine.py`, `sim/engines.py` | adapters and remembered load failures | `register`, `get`, `status`, `describe`, `from_description` | backend and worker (which rebuilds the backend's set) |
| Validation, `core/run_spec.py`, `contract.py`, `admission.py` | none | field-by-field checks of one document | composition, backend |
| DIRSIG engine | files of a run's folder | resolution, closure evidence, file generation, conformance checks, pass-through runs | the worker, the DIRSIG executables |
| SatSim engine | none | locating and probing an interpreter, launching | the worker, a Python interpreter |
| Measurement runner, `scripts/bigger_host_run.py` | results files, `peaks.json`, job folders | plan an entry, probe, launch jobs, record, finish, resume | job processes |
| Demo sweep, `scripts/sweep_demos.py` | `results.jsonl`, the placed demo directories | place, try the simulation files, record, delete, resume | a `Workspace` |
| Other scripts, notebooks | none that outlives them | generators, checks, tutorials | the packages |

What makes each part correct is listed with the module that models it
(section 3). What is hard about them:

* **Concurrency.** Any number of backends and readers, in one or several
  processes, and one worker per run share a work root and coordinate through
  files: renames, two kinds of locks, one JSON ledger.
* **Failure.** A worker or a backend may be killed between any two steps; an
  engine may hang or ignore SIGTERM; recording the engine's group may fail.
* **Ordering.** `cancel_run` marks the run first and stops the processes
  afterwards; a worker may be finishing, starting its engine or not even
  recorded at that moment. A reader that finds no worker fails the run.
* **Time.** A worker has 60 s (`WORKER_GRACE_S`) to be recorded, an engine 3 s
  (`ENGINE_GRACE_S`) to obey SIGTERM and a worker 10 s (`TERMINATE_WAIT_S`).
* **Stale values.** Admission, creation, the worker and the engine's process read
  the same library files, and import the same engine distribution, at different
  times.
* **Resumption.** Two scripts run for hours, are killed and are invoked again;
  what is done is what their files say.

## 2. Modules

| Module | Models | Depends on |
| --- | --- | --- |
| `RunLifecycle` | the promise about a run's state, abstractly | |
| `RunStore` | the store's shared state and operations | |
| `RunWorker` | worker, engine, slot locks, ledger, signals | extends `RunStore` |
| `LocalBackend` | the calls; the composition of all three; the properties | extends `RunWorker`, instantiates `RunLifecycle` |
| `LocalBackend_proofs` | eight theorems | extends `LocalBackend` |
| `RunCreation` | the promise of `create_run`, abstractly | |
| `CreateRun` | `create_run` at the level of renames | instantiates `RunCreation` |
| `Sweep` | `submit_sweep`, `submit_run`, `get_sweep` over the store | extends `RunStore` |
| `Creation_proofs` | seven theorems | extends `CreateRun` and `Sweep` |
| `Sums` | a sum without recursion, used by the ledger and the measurement runner | |
| `Sums_proofs` | lemmas about such sums | extends `Sums` |
| `Resources` | requests, refusal, grants and the ledger with every resource kind | extends `Sums` |
| `Resources_proofs` | three theorems | extends `Resources` and `Sums_proofs` |
| `Compose` | composing a recipe from its layers | |
| `Compose_proofs` | five theorems | extends `Compose` |
| `EngineRun` | one run from admission to artifacts: engine sets, versions, the DIRSIG runner | |
| `EngineRun_proofs` | two theorems | extends `EngineRun` |
| `BiggerHost` | the resumable measurement runner | extends `Sums` |
| `BiggerHost_proofs` | three theorems | extends `BiggerHost` and `Sums_proofs` |
| `DemoSweep` | the resumable sweep of the demos | |
| `DemoSweep_proofs` | two theorems | extends `DemoSweep` |
| `MCLocalBackend`, `MCCreateRun`, `MCCompose`, `MCEngineRun` | the constants of TLC runs | extend their module |
| `MCCreation` | `CreateRun` and `Sweep` side by side, with constants | extends both |
| `MCRules` | `EngineRun`, `Resources` and `Compose` side by side, with constants | extends `MCEngineRun`, `MCCompose` and `Resources` |
| `MCScripts` | `BiggerHost` and `DemoSweep` side by side, with constants | extends both |

The last three put independent machines beside each other: a behaviour is of
one of them, chosen in the initial state, while the variables of the others
rest in one of their initial states. No machine sees another, so a run explores the union of their state
spaces, and fairness is required of the steps of the chosen machine only. So
that two machines can be extended together, the second's specification carries
its name (`SweepSpec`, `LedgerSpec`, `RecipeSpec`, `DemosSpec`), and the
properties the runs check are the very definitions the theorems state.

## 3. How the modules correspond to the code

### RunStore, RunWorker, LocalBackend

`RunStore` has one variable per file whose contents matter: `status` is the
`state` member of `status.json`, `workerRec` and `engineRec` say whether
`execution.json` names the worker's and the engine's process, `listing` is how
much `artifacts.json` lists, and `old` says that the grace time has passed since
`submitted_at`. Every update of a document happens under `status.lock` and ends
in one `os.replace`, so one update is one step; `UpdateStatus` is the
compare-and-set. Reads are separate steps.

`RunWorker` follows `worker.main` with a program counter `wpc[r]`:

| label | the worker is about to | code |
| --- | --- | --- |
| boot, slot, claim | record itself; take a slot lock; move `accepted` to `running` | 366-387 |
| load | rebuild the engines, parse the request | 388-407 |
| reserve, take | look at its run; poll the ledger under its lock | 329-359 |
| stage | verify and stage the assets, install the handler | 412-441 |
| launch, spawned, wait | start the engine; record its group with SIGTERM held; wait | 200-222 |
| collect, incomplete, publish, published | collect and list; fail a run whose verdict is not complete; move `running` to `rendered`; leave `try` | 450-467 |
| stopping, salvage, relist | `_cancel`: stop the engine; compare-and-set; list again | 224-284 |
| failing, leaving | record the failure (`except`); return into `finally` | 88-92, 461-478 |
| finish, unlock | release the reservation; release the slot and exit | 479-484 |

`_fail` is in the actions that call it. What a SIGTERM does depends on the label:
before the handler is installed the process dies (`Unarmed`), while the engine's
record is written the signal is held (`pending`), afterwards `Cancelled` is
raised (`Armed`), in an `except` clause or on the way to `finally` it ends `main`
with or without the clean-up, and during `_cancel` and the `finally` block it has
no effect (`Deaf`). The engine is `eng[r]`; it ends by itself (`EngineExit`) or is stopped.
The ledger is `reserved` and `grant`; here it hands out exclusive devices only,
with every other kind of resource in `Resources`.

`LocalBackend` adds the calls. A client is a call in progress; a submission goes
through `Submit` (the run did not exist), `StartWorker` and `RecordWorker`;
every call on an existing run begins with a read, which reaps: `ReadStatus`,
`ReadRecord`, then `LookForWorker` or `CheckAge` read the state, the record, the
process or the clock one after the other, as `store.reap` does, and `Reap` is its
compare-and-set. A cancellation goes on with `Mark`, `Signal`, `WorkerEnded` or
`KillWorker` (SIGKILL, wherever the worker has got to), and `SweepEngine`, which
stops the recorded engine that outlived its worker. A submission of a run that
exists is a read.

The faults are a constant: `crash` (a worker is killed outright), `raise` (an
exception no handler catches, or an engine record that cannot be written),
`sigterm` (a signal that is not `cancel_run`'s) and `client` (the process making
a call dies). Each run names those it allows.

Properties:

* `LifecycleSpec`: every status moves as `RunLifecycle` allows, whoever dies or
  raises on the way (`LB_live`; proved for every fault).
* `RenderedIsListed`: a rendered run has its full listing, also when a
  cancellation arrives while it is published.
* `EngineHoldsSlot`, `AtMostMaxParallel`: no path out of `main` leaves an engine
  behind, and never more engines than slots. What the SIGKILL of a `cancel_run`
  leaves is the exception that `Abandoned` describes: an engine that the same
  call is about to stop, or that the worker had no time to record.
* `CancelledIsStopped`: after `cancel_run` returned, no recorded engine of the run runs.
* `EnginesDisjoint`: live engines do not share a device.
* `ReapsOnlyDead`: `reap` never fails a run whose worker lives (section 5 says
  under which timing, section 7 what happens without it).
* `EventuallyFinal`, `WorkersEnd`, `CancelFreesSlot`: liveness, section 5.

### CreateRun and RunCreation

Several `create_run` calls of one run id at the level of the file system: the
temporary directory, the look at the target, moving a leftover aside, the
rename, the second look when the rename fails, and the cleaning up are separate
steps, and every call may die between two of them. `target` is what is at
`runs/<run_id>`, `first` what was there at the beginning. `RunCreation` is what the
docstring promises: one call creates the run, its directory stays, the others
are told that it exists. `CreateRun` implements it when nothing incomplete was
in the way (`CreationSpec`; without that premise the mapping shows a constant);
with a leftover, `EndsComplete` still holds and `OneCreated` does not (section 7).
`EndsComplete` counts deaths: when every call has returned, raised or died, the run
is complete at its place. A call that died with its rename before it (label `lost`) is
the exception, because it may have moved aside, with the leftover, the complete
directory of another.

### Sweep

`submit_sweep` admits every run, creates and starts them one by one, then writes
the sweep record; `submit_run` is the same for one run; `get_sweep` reads the
record and each status. `stamped[r]` says whether the sensor file of run `r` still
has the hash its header states: admission and creation both read it, and
somebody may edit it in between. A sweep's id is that of its set of runs, so two
recipes that list the sensors in another order are one sweep (`Orders`). Creating
a run is one step here, which `CreateRun` justifies for the absence of leftovers.
What a worker does after it was started is left out; a run whose worker was never
started is failed by `reap`, which `LocalBackend` models. `orphaned` remembers the runs
whose call died between creating and starting them; they are the only ones that
`NoneForgotten` lets go.

### Resources

`WellFormed`, `Check`, `Fits` and `Grant` are `parse_request`'s ranges, `check`
and `allocate`; `Poll` is one `_ledger(take)`. Threads and memory are small
numbers, devices have a class and an optional memory. `ledger` is a function
whose domain is the runs with an entry, as the JSON file is a dictionary; an entry
of an ended run stays until its worker, or the next poll, removes it. The module also
states (`DefaultAssumption`) what `allocate` leaves implicit: a declared default number of
threads is within the capacity. `check` does not verify it, and a run admitted
with a larger default would be answered "not now" on every poll; both adapters
declare no default, so no run of the repository meets it.

### Compose

A document is the set of its keys together with what the rules look at below
them. Each check is the set of errors it may raise, `FirstOf` puts them in the
code's order, and the actions are the stages of `_compose`. `Only` is the list
comprehension that picks a sensor's settings in its entry order; it says which
element comes at each place, since the provers can do nothing with a recursive
`SelectSeq`. The properties state
the docstring's rules independently of that order: `ComposesIffLegal` compares
the outcome with `LegalLayered` and `LegalPassthrough`, which are written from the
rules; the others relate the composed runs, the provenance and the errors to
the documents.

### EngineRun

One run, seen from the code that is loaded. `installed` is what the package
metadata say of each distribution and can change under everybody's feet;
`target` and `code` are a backend's registry and the versions it has in memory,
`job` the description it writes into `job.json`, `adapter` and `ran` what the
worker's and the runner's processes loaded, `recorded` what the execution record
says. Discovery (`Discover`), loading once with the failure remembered
(`Loaded`), the description (`Described`, which asks for the installed version,
as `info()` does) and the worker's comparison (`SetMatches`) are separate
definitions because they happen in three processes at three times.

After `Launch` the module follows the runner: a pass-through run verifies the
digest again, copies the directory, compiles the scenes, runs the engine in the
copy and moves what changed there into the output folder, one file of the sorted
list per step of `Move` (with the names of `Destination`; a kill between two of
them leaves a part moved); a layered run makes its dry run and renders. `Complete`
is the verdict of `collect`, and `Collect` the worker's last step. `directory` may be
edited, restored or removed like the distributions.

`Windows` names the steps before which the environment may change. With changes
before the backend starts and while the run is queued, `RenderedAsAdmitted`
holds: everything that rendered was one version, on the directory with the
stamped digest. Section 7 says what happens in the other windows.
`EveryFileListed` says that a file the engine wrote is listed unless a file moved
out of the copy has exactly the name it would have had.

### BiggerHost

A manifest is a sequence of entries; an entry a driver, its items, their
threads and memory. `recorded` and `summary` are the results files, `folder` the job
folders that two of the drivers look into, `cached` is `peaks.json`; everything
else is the memory of an invocation. `Plan`, `Launch` (the body of the launching
loop, one queued item per step), `Wait` (the loop is left) and `JobEnds` are `run_entry`:
`queue` holds the items still to start, `unseen` those that this pass of the loop has
not come to, `used` the threads it counts. That count starts with all the threads of
the jobs in flight (`InUse`) and grows by at most the cores for a job that is started
(`Takes`), as in the code. The memory
of a batch of n copies is n times that of one, and a whole-host job has more
threads than there are cores.

An invocation ends early in several ways, and what it leaves differs:

* `Kill` is SIGTERM, SIGKILL, Ctrl-C or an error that nobody catches. Jobs go on that nobody told
  (SIGKILL; the probe), and renders of jobs that the handler has stopped:
  `orphans`. They end in a later invocation, perhaps one that runs the same item,
  and a whole job, or a script, may then complete its folder (`OrphanEnds`).
* A record that exits (`_risk_add`) ends the invocation from within
  `finish_item`, which catches `Exception` only, with all jobs in flight left.
* `finish` is outside any `try`: with a batch entry without a batch of one copy, or an
  id that is no slug, it ends every invocation that comes so far (`Stuck`); a
  passing fault may end it too.
* A results file is truncated and then written. A kill in between (`TearResults`)
  leaves a part of the records, and perhaps half a line: then the file is `spoilt`, and
  every invocation that comes to an entry of that file ends in `load_results`
  (`Unreadable`). `peaks.json` likewise. `torn` remembers the files that were hit.

`FitTogether` is of the jobs of one invocation: orphans come on top, and the code
does not count them. `KeepsResults` says that nothing but a kill in the middle of a
file's writing loses a record, and that no job of the queue is started for an item
with a record (the probe is, since nobody asks whether it is done). `AllMeasured`
says that in the end everything is measured, unless an entry before it is stuck or
a file is spoilt.

### DemoSweep

The loop over the demos with the program counter of an invocation, the lines
of `results.jsonl` (of a demo only its last line, as `demo_rows` and `finished`
read it; of the attempts the longest time) and the demo directories. A cut
line is kept as `cut`: the next line is appended to it and cannot be read.
Time is counted in units of five minutes and only passes in attempts and
between invocations. The run of an attempt, which is `LocalBackend`'s, ends in
any way. `Term` is the handler; `KillSweep` may come in the middle of an extraction,
after it, or in the writing of any line. `DirectoriesAsFound` counts: between
invocations the directories and staging folders that the sweep has left
(`LeftBehind`) are those of no more demos than it was killed. Not counted are
committed assets, which it cannot delete, and the halves of archives that it
cannot extract.

## 4. The runs

| Run | What it asks | Instance |
| --- | --- | --- |
| `LB_safety` | can a signal, a cancellation or its SIGKILL leave an engine, or an unlisted rendered run, behind, or start one engine too many? does reap fail a run whose worker lives? | 2 runs that need no device, 2 calls, 1 slot; `sigterm` |
| `LB_devices` | do live engines share a device? | 2 runs, 1 call, 2 slots, 1 device; no cancellation; `sigterm` |
| `LB_live` | does every run finish, and every worker end, also a cancelled one whose engine hangs? is every status legal? | 2 runs, 1 call, 1 slot, 1 device; `crash`, `raise`, `client`; cancellations and exceptions with one run |
| `LB_capacity` | (violated) do live engines share a device when runs are cancelled? | 2 runs, 2 calls, 2 slots, 1 device |
| `LB_reap` | (violated) does reap fail dead workers' runs only, when a reader may be slow? | 1 run, 2 calls, 1 slot |
| `CR_creation` | is run creation atomic and complete? is a sweep all or nothing, started once, recorded whole and in the end? | 3 calls, any leftover, deaths anywhere; and 2 runs, 2 recipes, 2 calls, 1 death, edits |
| `CR_stale` | (violated) is one call only told "created"? | 3 calls, a leftover |
| `RU_rules` | is what rendered what was admitted, and every file listed? is the capacity kept, is every waiting run served? does composition implement its rules? | 3 distributions at 2 versions, 6 paths, 3 files, 2 changes; 3 runs, 11 requests, a host of 3 threads, 3 units of memory, 2 devices; recipes over 3 sensor files and 4 settings entries, and every one that differs from a good recipe in up to two places |
| `CM_stems` | (violated) is there a run per sensor when two files have one stem? | 3 sensor files, two with one stem |
| `ER_upgrade` | (violated) does the worker run what the backend admitted the run with? | changes while the backend serves |
| `SC_resume` | do the jobs fit the host, what is lost with a kill, is everything measured in the end? are demo directories as found, is what counts as finished done, is everything finished? | 8 manifests with every driver, two of them with a stuck entry, 2 cores, 2 faults, any subset invoked; 4 installations of 2 or 3 demos, 4 units of time, 1 kill, 1 SIGTERM |
| `BH_cut` | (violated) does a kill lose only the jobs in flight? | a manifest of two batches, 1 fault |

Why these bounds are enough to meet the interesting cases: the properties about
slots and devices speak of two engines at a time, so two runs compete for one slot
(with no device to keep them apart) and for one device (with a slot for each); a reader and a canceller, or two cancellers,
need two calls (a reader and the submission whose worker it misses in `LB_reap`); a race of creators with a leftover needs one that publishes, one
that moves aside and one that only looks; a sweep needs two runs for a part of
it to be done; the worker's comparison of its engine set needs a distribution
that changes and one that conflicts; two files that go by one name need paths of
one base name and of one flattened name, which the six paths have; the launching
loop needs items of different thread counts and more of them than fit; and one
kill is enough to lose the memory of an invocation at any step. Symmetry is
used only in the runs without liveness. Checking for deadlock is switched off in
the configurations with components whose processes all end; in the others
(`LocalBackend`, the two scripts) something can always be called again.

## 5. Fairness and time

* Every worker and every call in progress that can take a step takes one: they
  are processes scheduled by the operating system (`WF`).
* Somebody goes on polling each submitted run, as `Workspace.wait` does (`SF` of
  `Request`, since the calls of the model come and go). Without a reader nobody
  reaps a run whose worker died, and the model shows that a worker waiting for
  its devices then waits for ever.
* Engines need not end. `EventuallyFinal` and `WorkersEnd` say what follows if
  they do (`EnginesEnd`); `CancelFreesSlot` does not need it: a worker that was
  signalled by a `cancel_run` ends although its engine ignores every SIGTERM and
  never ends, and although the process that cancels may die before its SIGKILL.
* Nothing forces a submission, a cancellation or a fault.
* The instance of `LB_live` (`CancelOrRaiseAlone`) has cancellations and exceptions only in
  behaviours with one submitted run, to keep it small. It holds back the start of a call and
  an exception, and never a step that fairness is about.
* `PromptStart`: a started worker is recorded within `WORKER_GRACE_S`, 60 s for
  the start of a Python process, which its parent records too.
* `PromptRead`: those 60 s never run out between a reader's look at the record
  and its look at the clock, which are a few lines apart. A process that is
  stopped there breaks it (`LB_reap`).
* There is no assumption on `TERMINATE_WAIT_S`: `KillWorker` may come wherever the
  worker is, also while it records or stops its engine.
* In `Sweep`, somebody submits the sweep again and again (`SF`); deaths are
  bounded by `MaxCrashes`. In `Resources`, waiting workers poll and a run that
  holds a grant ends.
* In `BiggerHost` an invocation goes on, the whole manifest is run again and
  again, and of jobs that are run again and again one succeeds some time (`SF` of
  `Succeeds`); in `DemoSweep` an invocation goes on and the sweep is run again with
  a new budget. Both are what their usage texts ask of whoever starts them.
  Kills and signals are bounded.

## 6. What is proved

`LocalBackend_proofs`, for any sets of runs, calls, slots and devices:

| Theorem | Property | Assumes |
| --- | --- | --- |
| `TypeCorrect` | `TypeOK` | |
| `ImplementsLifecycle` | `LifecycleSpec` | |
| `RenderedStaysListed` | `RenderedIsListed` | |
| `EnginesHoldSlots` | `EngineHoldsSlot` | no `crash`, `raise`, `client` |
| `ParallelBounded` | `AtMostMaxParallel` | no `crash`, `raise`, `client` |
| `CancelStops` | `CancelledIsStopped` | |
| `ReapsOnlyTheDead` | `ReapsOnlyDead` | `PromptStart`, `PromptRead` |
| `DevicesExclusive` | `EnginesDisjoint` | no cancellation, `PromptStart`, `PromptRead`, no `crash`, `raise` |

The constants' assumptions are that the markers `NoSlot` and `NoRun` are not
members, that slots and devices are finite and that no run needs more devices
than there are (which `check` refuses at submission).

The argument. None of the properties is inductive alone. `ListedInv` adds that a
worker at `publish` has written the full listing and that only a cancelled run is
listed again. `SlotInv` follows the slot: from `claim` to `unlock` the worker holds
one, no two workers hold the same, and an engine is alive only at the labels
where its worker will still wait for it or stop it, or when it is `Abandoned`; the
bound on parallel engines
follows since slots map engines injectively. `StartInv` relates a submission to
the worker it is about to start: a run is started once and its worker is not
there before. `CancelInv` says that once the worker's group was signalled and
awaited, or killed, the worker is gone or has yet to ask for a slot, which a
cancelled run is not given; the last step of `cancel_run` then stops the engine
that was recorded.
`ReapInv` says what a reader knows on its way through the four reads: one that
writes does so for a run whose worker is dead or will never be started, one that
looks for a process knows that there was a worker, and one that looks at the clock will not
find the time over unless nobody is about to start one. `GrantInv` says that from its grant to the end
of its engine a run is `running` with a reservation, so no poll drops it; this is
what cancellation breaks. With it goes a lemma that the reservations in the ledger never
overlap (`LedgerStaysDisjoint`).

`Creation_proofs`, for any number of calls of `create_run` dying anywhere: `NobodyLosesTheRace`
(`NobodyLoses`) and `ImplementsCreation`
(`CreationSpec`), both from `RaceInv`: when nothing incomplete was in the way the
target is empty or a complete run, hence nobody moves it aside and a failed
rename means that another call won. A call takes effect at the rename that
succeeds or at the look that finds the run complete. `LeftoversGiveWay`
(`EndsComplete`) holds with a leftover too: a call that has an answer, or looks
again after a failed rename, leaves a complete run or another call that is still
to rename, or died there; when all have ended, none of them there, only the run
is left (`EndInv`).

The other theorems:

| Theorem | Property | Assumes |
| --- | --- | --- |
| `Creation_proofs!RefusalMakesNothing` | `RefusedMadeNothing` | |
| `Creation_proofs!StartedOnce` | `OneWorker` | |
| `Creation_proofs!NobodyForgotten` | `NoneForgotten` | |
| `Creation_proofs!SweepIsWhole` | `RecordedIsWhole` | |
| `Resources_proofs!CapacityKept` | `WithinCapacity` | |
| `Resources_proofs!GrantsHonoured` | `GrantHonoursRequest` | |
| `Resources_proofs!NoneWaitsInVain` | `AdmittedFitsAlone` | |
| `EngineRun_proofs!RendersWhatWasAdmitted` | `RenderedAsAdmitted` | changes only at `start` and `queued` |
| `EngineRun_proofs!FilesAreListed` | `EveryFileListed` | |
| `Compose_proofs!ComposesTheLegal` | `ComposesIffLegal` | |
| `Compose_proofs!ErrorsNameTheirLayer` | `ErrorNamesItsLayer` | |
| `Compose_proofs!SourcesHoldMembers` | `SourceHoldsMember` | |
| `Compose_proofs!SweepIsComposedWhole` | `OneRunPerSensor` | stems differ |
| `Compose_proofs!SettingsArePlacedOnce` | `SettingsPlacedOnce` | stems differ |
| `BiggerHost_proofs!JobsFitTogether` | `FitTogether` | |
| `BiggerHost_proofs!ResultsAreKept` | `KeepsResults` | |
| `BiggerHost_proofs!SummariesAreWhole` | `SummaryOfAll` | |
| `DemoSweep_proofs!OnlyKillsLeaveDirectories` | `DirectoriesAsFound` | |
| `DemoSweep_proofs!FinishedWasTried` | `FinishedIsTried` | |

With these, every safety property of a passing run is also a theorem, under the
hypothesis of the last column and the assumptions on the constants, which say
what the code's parsers and the data guarantee and which TLC evaluates on the
instances of the runs: `SweepAssumption` (a recipe composes to a non-empty
sequence of runs), `PlansAssumption` (a plan is a list of files),
`ResourceAssumption` (whole numbers; devices with different ids) and
`DefaultAssumption` (a declared default within the capacity, section 3),
`DocumentAssumption` (without `sensors` there is one sensor at most, what the
rules look at below a key is there with the key, entries and settings are lists
of names), `HostAssumption` and `ManifestAssumption` (numbers; the items of an entry
differ, as those of the committed manifest do). `EveryFileListed` needs none.

* `Sweep`: `RefuseInv` keeps that a call which may still be refused has created
  nothing. `StartInv` relates creation and start: a run that exists but was not
  started is the one that exactly one call is about to start, or its call died
  there; the argument needs that creation is one step, which
  `ImplementsCreation` gives.
  `RecordInv` is the loop invariant of a submission: the runs done, followed by those to do,
  are what was asked for, and those done exist.
* `Resources`: the invariant `Inv` adds to the two properties that only a run which holds a
  grant, or has ended, has an entry, and that a waiting run was admitted. A poll then
  adds one grant to entries that were within the capacity: the sum grows by what
  `Fits` has compared (`TotalOfOneMore` of `Sums_proofs`, where `Total` counts units
  so that the theorems on cardinality apply), the first free places are as many as asked for
  (`FirstCounts`), and different places have different ids. Releasing and ending only
  make the sum of the holders smaller (`LessIsHeld`). `NoneWaitsInVain` is
  arithmetic on `Check`, with `DefaultAssumption` for the threads.
* `EngineRun`: `AdmissionInv` follows the version from one process to the next. What
  the backend has loaded is what is installed, the job names it, the worker that
  went on loaded it, and so did the runner; each link holds because nothing
  changes between the comparison and the use, which is what the theorem assumes
  and `ER_upgrade` takes away. `FileInv` is the loop invariant of the moving: every file
  written is at a place of the output folder, or was replaced there by one whose
  flattened name it had, or is still to be moved; what is still to be moved is
  nowhere else. `MoveAccounts` shows that one move keeps it, with either answer of
  `Destination`.
* `BiggerHost`: `LaunchInv`, the part of `HostInv` for the launching loop, says that the
  items in flight were planned with the figures that still hold, that no more than
  the planned number are in flight, and that the threads they take are at most what
  the loop counts and at most the cores. The memory follows: the planned number is
  at most the budget over the largest need (`TotalIsBounded`), unless it was
  raised to one, and one item fits by itself (`LaunchedFit`). `ResultsAreKept` needs of it that an
  item in the queue has no record, and a frame condition for every step
  (`ResultsChange`): records are added for the entry at hand, and lost only from the file
  that was being written when the invocation was killed, which counts a fault. A
  summary is only written when all items of its entry are
  measured, and what is measured is only removed (job folders of light curves)
  while the runner works on an entry that has no summary yet, or with a torn
  file (`SummaryInv`).
* `DemoSweep`: `DirInv` splits what the sweep has left into the directory of the
  demo at hand, which it remembers to delete (`Own`), and what it has forgotten
  (`Forgotten`): only a kill moves one demo from the first to the second
  (`ForgottenGrows`). `LineInv` says for each label what the line of the demo at hand must
  become true of, so that a line that counts as finished tells what was tried.
* `Compose`: each check names a layer and a key of it (`StartErrors`,
  `MergeErrorsAre`, `PassthroughErrorsAre`), and the first failing check of a list
  is one of them (`FirstOfErrors`). `RunsInv` says that the sensors gone through
  have their runs under their own names; without the premise about stems the
  second sensor replaces the run of the first, which is `CM_stems`.
  `ChainInv` says at each stage that the checks before it found nothing, and at the
  end that there is an error exactly when some check found one; `StagesLegal`, from
  one lemma per check, turns "no check found anything" into `LegalLayered`
  and `LegalPassthrough`. `OnlyInOrder` says what the picking of a sensor's settings
  yields: the members of both lists, in the order of the first; with it
  `SettingsPlaced` puts each member into the one run whose sensor has its entry.

Model-checked only: the liveness properties `EventuallyFinal`, `WorkersEnd`,
`CancelFreesSlot`, `SubmittedIsRecorded`, `AdmittedServed`, `AllMeasured` and
`EveryDemoFinished`, since fairness is beyond this prover. `Total` and `Only` are
written without recursion because what a recursive operator computes cannot be
proved here; the sums and picks of the code are loops.

## 7. Where the code differs from what it says

* **`LB_capacity`**: `cancel_run` marks the run `cancelled` before its engine is
  told to stop; the next poll of the ledger drops the reservation of every run in
  a final state; another run is granted the device while the first engine still
  runs on it.
* **`CR_stale`**: with an incomplete directory at the run's place, a call that saw
  it moves aside whatever is there a moment later, also a complete run another
  call has published; both are told that they created the run and both start a
  worker.
* **`CM_stems`**: the runs of a sweep are named by the stem of their sensor file; of
  two listed files with one stem one run is lost without an error.
* **`ER_upgrade`**: `describe` asks the adapter for `info()`, whose version is that of
  the distribution installed at the time. After an upgrade under a running
  backend `job.json` names the new version for a run that the old code admitted,
  and the worker runs the new code without a mismatch.
* **`LB_reap`**: `reap` reads the record and, finding no worker in it, the clock. A
  reader that is held up in between (by a stopped process, a slow network file
  system) while the worker records itself in time fails the run once the 60 s are over:
  the compare-and-set only asks whether the run is still active. The worker lives
  and is recorded, where the docstring speaks of a worker that is gone. (Its next
  compare-and-set fails and the result is lost.)
* **`BH_cut`**: the runner's docstring says that a killed invocation "loses only the
  jobs in flight" (`bigger_host_run.py:29-30`). Each record is added by rewriting the
  results file with `write_text`, which truncates it first: a kill before the text
  is written loses records of earlier jobs, and one in the middle of it leaves a line
  that no later invocation can read.

Further differences, met while modelling and left out of the runs:

* The runner process imports the adapter once more after the worker may have
  waited hours for its resources: with changes at `granted`, `RenderedAsAdmitted`
  fails. So it does when the library is edited between the runner's digest and its
  copy, which are two steps.
* `passthrough.py:233`: a file moved out of the copy whose base name is taken goes
  to its flattened name without a look at what is there, and may replace a file
  the engine wrote to the output folder. `EveryFileListed` allows exactly that.
* `sweep_demos.py:357`: after a SIGTERM between the placing of a demo and its first
  attempt, or between two attempts, the demo's line is not marked interrupted and
  `--resume` passes it over; `test_sweep_demos.py` says that a stopped demo "is left
  for `--resume`". `FinishedIsTried` is stated for sweeps without a SIGTERM.
* `sweep_demos.py:173`: deleting a committed asset that was not placed before is
  refused by an exception nobody catches, before the demo's line is written; the
  next invocation finds the directory placed. The record after a cut line is lost
  with it, and the staging folder of a bad archive stays.
* `bigger_host_run.py:434`: `Concurrency.finish` takes the batch of one copy without asking
  whether the entry has one, which `manifest_problems` does not ask either:
  `StopIteration` ends the invocation, and every later one, before the entries
  that follow. So does an `id_prefix` that makes no slug (`_risk_add`).
  `AllMeasured` excludes the entries behind such a one (`Stuck`).
* `bigger_host_run.py:1053-1061`: SIGTERM does not reach a probe, which is not in
  `running`, and reaches of a job only its own process; the renders it has started, and all jobs
  after SIGKILL, go on beside those of the next invocation and are not
  counted by it.
* A manifest entry for which no disk is free ends the whole invocation in
  `os.wait4` with `ChildProcessError` (`Wait`); the next one goes on.
* `bigger_host_run.py:403-409`: a batch measured while the batch of one copy had
  failed is recorded as differing from it, and is never measured again.

Two statements of `api/operations.md` are looser than the code without harm, and
the model follows the code: `reap` also takes a run from `accepted` to `failed`
(`RunLifecycle.Abandon`), and the reads called `pure` write that state when they
find the worker gone. And one assumption is the environment's: a worker killed
with SIGKILL by anybody but `cancel_run` leaves its engine running under a slot
that is free again, so `EngineHoldsSlot`, `AtMostMaxParallel` and
`EnginesDisjoint` are stated, checked and proved without that fault;
`CancelledIsStopped` is checked without it and proved with it.

## 8. What is not modelled, and why

* Validation (`run_spec.py`, `contract.py`, `admission.py`): the outcome is a
  function of one document, without state or order between components.
* Hashes, canonical JSON and number formatting: `Sweep` keeps what matters of
  them, that a changed file has another hash.
* Orbits, spectra, the atmosphere and the generated DIRSIG files: numbers and
  text.
* Byte I/O of artifacts, log files, problem documents, the generated API models,
  the data libraries.
* The other scripts and the notebooks: one-shot generators, checks and tutorials.
* In `BiggerHost`: a `rec.json` or done file that a kill cuts inside a job, renders
  left by a job that is killed alone (by the out-of-memory killer), and the order
  in which a results file is written (any part of it may survive).
* In `DemoSweep`: an archive that cannot be opened at all (`candidates` raises, in
  every invocation), an error of the disk that passes while a good archive is
  extracted, and the time that extracting takes: it only shortens a budget of which
  any part may be gone at the next invocation.
* In `EngineRun`: an adapter's `availability()`, asked at submission. In `Resources`: the
  worker's look at its own run between two polls, which `RunWorker` has as a
  step (`AskAgain`).
* In `Sweep`: an edit of the sensor file between the check of its hash and its
  reading, within `resolved_run_spec`; only it makes the comparison of run ids
  in `submit_run` fail.
* Reuse of process ids by the kernel; two backends with different limits on one
  work root (each worker uses its own backend's, and nothing says what should
  hold).

## 9. What could follow

1. Asset resolution and staging between admission and launch; DIRSIG's
   conformance checks and their verdicts.
2. `Workspace.wait` with its timeout and `save_artifact`, on top of `RunLifecycle`.
3. Theorems: the store's creation step in `Sweep` as the abstraction that
   `ImplementsCreation` proves; that the ledger of `LocalBackend` is that of
   `Resources` with exclusive devices; step lemmas towards the liveness properties
   (what each fair step decreases).
