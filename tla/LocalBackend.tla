---------------------------- MODULE LocalBackend ----------------------------
(***************************************************************************)
(* LocalBackend (backend.py) and the system it makes with the run store    *)
(* and the workers: any number of backends on one work root, in one or     *)
(* several processes, submitting, reading and cancelling runs.  A client   *)
(* is one call in progress on some backend; cpc[c] names its next step.    *)
(***************************************************************************)
EXTENDS RunWorker

CONSTANTS
  Clients,      \* the calls that may be in progress at the same time
  Ops,          \* the calls made on existing runs: subset of {"get", "cancel"}
  NoRun,        \* target[c] between calls
  PromptStart,  \* a started worker is recorded within WORKER_GRACE_S
  PromptRead    \* WORKER_GRACE_S never runs out between a reader's look at the
                \* record and its look at the clock

ASSUME RunAssumption == NoRun \notin Runs
ASSUME OpsAssumption == Ops \subseteq {"get", "cancel"}
ASSUME TimeAssumption == PromptStart \in BOOLEAN /\ PromptRead \in BOOLEAN

VARIABLES
  cpc,          \* cpc[c]: where call c is; "idle" between calls
  op,           \* op[c]: which call it is
  target,       \* target[c]: the run it is about
  acked         \* history: runs whose cancel_run made them `cancelled` and returned

clientVars == <<cpc, op, target, acked>>
vars == <<storeVars, workerVars, clientVars>>

ClientStates == {"idle", "start", "record", "read", "look", "probe", "age", "reap",
                 "mark", "signal", "await", "sweep"}

TypeOK ==
  /\ StoreTypeOK
  /\ WorkerTypeOK
  /\ cpc \in [Clients -> ClientStates]
  /\ op \in [Clients -> {"none", "submit", "get", "cancel"}]
  /\ target \in [Clients -> Runs \cup {NoRun}]
  /\ \A c \in Clients : cpc[c] # "idle" => target[c] \in Runs
  /\ acked \in SUBSET Runs

Init ==
  /\ StoreInit
  /\ WorkerInit
  /\ cpc = [c \in Clients |-> "idle"]
  /\ op = [c \in Clients |-> "none"]
  /\ target = [c \in Clients |-> NoRun]
  /\ acked = {}

At(c, label) == cpc[c] = label

Begin(c, o, r, label) ==
  /\ cpc' = [cpc EXCEPT ![c] = label]
  /\ op' = [op EXCEPT ![c] = o]
  /\ target' = [target EXCEPT ![c] = r]
  /\ UNCHANGED acked

Move(c, label) ==
  /\ cpc' = [cpc EXCEPT ![c] = label]
  /\ UNCHANGED <<op, target, acked>>

\* Mutant of Leave: the call's target is dropped before the call has ended.
LeaveHalf(c) ==
  /\ op' = [op EXCEPT ![c] = "none"]
  /\ target' = [target EXCEPT ![c] = NoRun]
  /\ UNCHANGED cpc

\* The call returns (or raises) to its caller.
Leave(c) ==
  /\ cpc' = [cpc EXCEPT ![c] = "idle"]
  /\ op' = [op EXCEPT ![c] = "none"]
  /\ target' = [target EXCEPT ![c] = NoRun]

Return(c) == Leave(c) /\ UNCHANGED acked

\* What follows read_status: cancel_run goes on, the other calls return.
AfterRead(c) == IF op[c] = "cancel" THEN Move(c, "mark") ELSE Return(c)
-----------------------------------------------------------------------------
(* submit_run: create the run, start its worker, record it, read it.       *)

\* _create: the run is new, so this call starts its worker.
Submit(c, r) ==
  /\ At(c, "idle")
  /\ CreateRun(r)
  /\ Begin(c, "submit", r, "start")
  /\ UNCHANGED workerVars

\* _start_worker: Popen.
StartWorker(c) ==
  /\ At(c, "start")
  /\ Goto(target[c], "boot")
  /\ UNCHANGED <<pending, slotOf, eng, reserved, grant>>
  /\ Move(c, "record")
  /\ UNCHANGED storeVars

\* _start_worker: the pid and start time, also recorded by the worker itself.
RecordWorker(c) ==
  /\ At(c, "record")
  /\ workerRec' = [workerRec EXCEPT ![target[c]] = TRUE]
  /\ Move(c, "read")
  /\ UNCHANGED <<status, engineRec, old, listing, workerVars>>
-----------------------------------------------------------------------------
(* read_status, with which every call on an existing run begins and a      *)
(* submission ends.                                                        *)

\* The client calls get_run (get_sweep, list_artifacts, or submit_run of a run
\* that exists already) or cancel_run.
Request(c, o, r) ==
  /\ At(c, "idle")
  /\ status[r] # Absent
  /\ Begin(c, o, r, "read")
  /\ UNCHANGED <<storeVars, workerVars>>

\* reap reads the state: a run in a final state is left alone.
ReadStatus(c) ==
  /\ At(c, "read")
  /\ IF status[target[c]] \in Active THEN Move(c, "look") ELSE AfterRead(c)
  /\ UNCHANGED <<storeVars, workerVars>>

\* reap reads execution.json: with a worker in it, it looks for its process,
\* without one, at the time since the submission.
ReadRecord(c) ==
  /\ At(c, "look")
  /\ Move(c, IF workerRec[target[c]] THEN "probe" ELSE "age")
  /\ UNCHANGED <<storeVars, workerVars>>

\* Mutant of LookForWorker: a recorded worker is never found dead.
LookForNobody(c) ==
  /\ At(c, "probe")
  /\ AfterRead(c)
  /\ UNCHANGED <<storeVars, workerVars>>

\* _pid_is_worker: the recorded process is looked for.
LookForWorker(c) ==
  /\ At(c, "probe")
  /\ IF WorkerAlive(target[c]) THEN AfterRead(c) ELSE Move(c, "reap")
  /\ UNCHANGED <<storeVars, workerVars>>

\* Mutant of CheckAge: no time is granted to a worker that starts.
CheckNoAge(c) ==
  /\ At(c, "age")
  /\ Move(c, "reap")
  /\ UNCHANGED <<storeVars, workerVars>>

\* The time since the submission is compared with WORKER_GRACE_S.
CheckAge(c) ==
  /\ At(c, "age")
  /\ IF old[target[c]] THEN Move(c, "reap") ELSE AfterRead(c)
  /\ UNCHANGED <<storeVars, workerVars>>

\* What reap decides on, read piece by piece.
Look(c) == ReadStatus(c) \/ ReadRecord(c) \/ LookForWorker(c) \/ CheckAge(c)

\* Mutant of Reap: the state is written whatever it has become meanwhile.
ReapBlind(c) ==
  /\ At(c, "reap")
  /\ status' = [status EXCEPT ![target[c]] = "failed"]
  /\ AfterRead(c)
  /\ UNCHANGED <<workerRec, engineRec, old, listing, workerVars>>

\* reap's compare-and-set, on whatever the run has become meanwhile.
Reap(c) ==
  /\ At(c, "reap")
  /\ UpdateStatus(target[c], Active, "failed")
  /\ AfterRead(c)
  /\ UNCHANGED <<workerRec, engineRec, old, listing, workerVars>>
-----------------------------------------------------------------------------
(* cancel_run.                                                             *)

\* The state becomes `cancelled` first.  A run that is final, or became so,
\* is returned unchanged.
Mark(c) ==
  /\ At(c, "mark")
  /\ UpdateStatus(target[c], Active, "cancelled")
  /\ IF status[target[c]] \in Active THEN Move(c, "signal") ELSE Return(c)
  /\ UNCHANGED <<workerRec, engineRec, old, listing, workerVars>>

\* SIGTERM to the recorded worker's group; without a record there is none.
Signal(c) ==
  /\ At(c, "signal")
  /\ IF workerRec[target[c]]
     THEN Sigterm(target[c]) /\ Move(c, "await")
     ELSE UNCHANGED workerVars /\ Move(c, "sweep")
  /\ UNCHANGED storeVars

\* The worker's group ended within the wait.
WorkerEnded(c) ==
  /\ At(c, "await")
  /\ ~WorkerAlive(target[c])
  /\ Move(c, "sweep")
  /\ UNCHANGED <<storeVars, workerVars>>

\* It did not within TERMINATE_WAIT_S: SIGKILL, wherever the worker is.  It
\* may still be stopping its engine, or not yet have recorded it.
KillWorker(c) ==
  /\ At(c, "await")
  /\ WorkerAlive(target[c])
  /\ Die(target[c])
  /\ Move(c, "sweep")
  /\ UNCHANGED storeVars

\* Mutant of SweepEngine: the engine's group is not looked for.
SweepNothing(c) ==
  /\ At(c, "sweep")
  /\ acked' = acked \cup {target[c]}
  /\ Leave(c)
  /\ UNCHANGED <<storeVars, workerVars>>

\* The recorded engine's group, should it outlive the worker, gets SIGTERM
\* and SIGKILL here; cancel_run returns.
SweepEngine(c) ==
  LET r == target[c]
  IN /\ At(c, "sweep")
     /\ eng' = [eng EXCEPT ![r] = IF engineRec[r] /\ @ = "alive" THEN "dead" ELSE @]
     /\ acked' = acked \cup {r}
     /\ Leave(c)
     /\ UNCHANGED <<wpc, pending, slotOf, reserved, grant>>
     /\ UNCHANGED storeVars
-----------------------------------------------------------------------------
\* The process making the call dies in the middle of it.  (A reader that dies
\* has changed nothing the next reader does not change, so only submissions
\* and cancellations are cut short.)
ClientCrash(c) ==
  /\ "client" \in Faults
  /\ op[c] \in {"submit", "cancel"}
  /\ Return(c)
  /\ UNCHANGED <<storeVars, workerVars>>

\* A worker of r has been started, or is about to be, and is not recorded yet.
Starting(r) ==
  \/ wpc[r] = "boot"
  \/ \E c \in Clients : cpc[c] \in {"start", "record"} /\ target[c] = r

\* WORKER_GRACE_S passes since r was submitted.
Age(r) ==
  /\ status[r] # Absent
  /\ ~old[r]
  /\ PromptStart => ~Starting(r)
  /\ PromptRead => \A c \in Clients : At(c, "age") => target[c] # r
  /\ old' = [old EXCEPT ![r] = TRUE]
  /\ UNCHANGED <<status, workerRec, engineRec, listing, workerVars, clientVars>>

ClientStep(c) ==
  \/ StartWorker(c) \/ RecordWorker(c)
  \/ Look(c) \/ Reap(c) \/ Mark(c) \/ Signal(c) \/ WorkerEnded(c) \/ KillWorker(c) \/ SweepEngine(c)

Next ==
  \/ \E c \in Clients, r \in Runs : Submit(c, r)
  \/ \E c \in Clients, o \in Ops, r \in Runs : Request(c, o, r)
  \/ \E c \in Clients : ClientStep(c) \/ ClientCrash(c)
  \/ \E r \in Runs :
       \/ WorkerStep(r) /\ UNCHANGED clientVars
       \/ EngineExit(r) /\ UNCHANGED clientVars
       \/ StraySigterm(r) /\ UNCHANGED clientVars
       \/ Crash(r) /\ UNCHANGED clientVars
       \/ Age(r)

Spec == Init /\ [][Next]_vars
-----------------------------------------------------------------------------
(* Safety.                                                                 *)

\* The status of every run moves as RunLifecycle allows, whichever of worker,
\* reader and canceller writes it: in particular "a cancelled run is never
\* overwritten" (worker.py) and reap never fails a run that just finished.
Lifecycle == INSTANCE RunLifecycle
LifecycleSpec == Lifecycle!Spec

\* A run is `rendered` only with its complete artifacts.json in place, and no
\* late SIGTERM replaces it by the partial listing of a cancellation.
RenderedIsListed ==
  \A r \in Runs : status[r] = "rendered" => listing[r] = "full"

\* cancel_run has killed the worker of r, which did not end in time, and has
\* yet to stop its engine, or cannot, because the worker was killed before it
\* had recorded the engine.
Abandoned(r) ==
  /\ status[r] = "cancelled"
  /\ wpc[r] = "gone"
  /\ engineRec[r] => \E c \in Clients : At(c, "sweep") /\ target[c] = r

\* While an engine runs, its own worker lives and holds a slot: no path out
\* of main, by any signal or failure, leaves an engine behind.  Only the
\* SIGKILL of a cancel_run does.
EngineHoldsSlot ==
  \A r \in Runs : eng[r] = "alive" => slotOf[r] \in Slots \/ Abandoned(r)

\* "at most max_parallel rendering at once" (LocalBackend): engines of two
\* runs never run under the same slot, but for one whose worker a cancel_run
\* had to kill.
AtMostMaxParallel ==
  Cardinality({r \in Runs : eng[r] = "alive" /\ ~Abandoned(r)}) <= Cardinality(Slots)

\* Once a cancel_run that cancelled the run has returned, the run's engine is
\* not running and never will be, whatever died on the way.  Only an engine
\* that nobody recorded, because its worker ended between starting and
\* recording it, is out of its reach.
CancelledIsStopped ==
  \A r \in acked : status[r] = "cancelled" /\ (engineRec[r] => eng[r] # "alive")

\* No two live engines were granted the same exclusive device.
EnginesDisjoint ==
  \A q, r \in Runs :
    q # r /\ eng[q] = "alive" /\ eng[r] = "alive" => grant[q] \cap grant[r] = {}

\* The step that fails a run for its worker's absence finds no worker: reap,
\* which decided on an earlier reading of the record, never fails a run whose
\* worker lives.
ReapsOnlyDead ==
  [][\A c \in Clients, r \in Runs :
       /\ cpc[c] = "reap" /\ cpc'[c] # "reap"
       /\ target[c] = r /\ status'[r] # status[r]
       => ~WorkerAlive(r)]_vars
-----------------------------------------------------------------------------
(* Liveness.                                                               *)

\* A worker and a call that can take a step take one, time passes, and
\* somebody goes on polling every submitted run, as Workspace.wait does.
\* Nothing forces a submission, a cancellation or a fault.
ProcessFairness ==
  /\ \A r \in Runs :
       /\ WF_vars(WorkerStep(r) /\ UNCHANGED clientVars)
       /\ WF_vars(Age(r))
       /\ SF_vars(\E c \in Clients : Request(c, "get", r))
  /\ \A c \in Clients : WF_vars(ClientStep(c))

\* An engine may hang for ever.
FairSpec == Spec /\ ProcessFairness

\* Every engine ends some time, by itself or stopped.
EnginesEnd == \A r \in Runs : []<>(eng[r] # "alive")

\* Every submitted run reaches a final state if the engines end, whatever dies
\* on the way and whoever holds the slots and devices it waits for.  (A run is
\* submitted once and keeps its final state, so all of them are final together.)
EventuallyFinal ==
  EnginesEnd => ((\E r \in Runs : status[r] \in Active)
                   ~> (\A r \in Runs : status[r] \notin Active))

\* Every worker ends if the engines do: none waits for ever for a slot or a
\* device that a dead run still seems to hold.
WorkersEnd ==
  EnginesEnd => ((\E r \in Runs : WorkerAlive(r)) ~> (\A r \in Runs : ~WorkerAlive(r)))

\* A worker that a cancel_run has signalled ends, and so frees its slot, also
\* when its engine ignores every SIGTERM and never ends by itself, and when the
\* process that cancels dies before it can follow with SIGKILL.
CancelFreesSlot ==
  \A r \in Runs :
    (\E c \in Clients : At(c, "await") /\ target[c] = r) ~> ~WorkerAlive(r)
=============================================================================
