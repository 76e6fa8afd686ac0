----------------------------- MODULE RunWorker ------------------------------
(***************************************************************************)
(* The worker process of a run (worker.py), the engine process it starts,  *)
(* the slot locks and the resource ledger.  A worker is one sequential     *)
(* program; wpc[r] names the next thing it does.  Its steps interleave     *)
(* with those of other workers and of the backends (LocalBackend), which   *)
(* may change the run's state or signal the worker between any two steps.  *)
(***************************************************************************)
EXTENDS RunStore

CONSTANTS
  Slots,      \* the slot locks slot-0 .. slot-(max_parallel - 1)
  NoSlot,
  Gpus,       \* the exclusive devices of the work root's capacity
  Need,       \* Need[r]: how many of them run r's grant takes
  Faults      \* which of the faults in FaultKinds may happen

FaultKinds == {"crash", "raise", "sigterm", "client"}

ASSUME SlotsAssumption == NoSlot \notin Slots /\ Slots # {} /\ IsFiniteSet(Slots)
\* resources.check refused at submission what the capacity can never grant.
ASSUME NeedAssumption  == /\ IsFiniteSet(Gpus)
                          /\ Need \in [Runs -> 0 .. Cardinality(Gpus)]
ASSUME FaultAssumption == Faults \subseteq FaultKinds

VARIABLES
  wpc,        \* wpc[r]: where the worker of r is; "none" before it is started
  pending,    \* pending[r]: _Sigterm.pending, a SIGTERM held while deferring
  slotOf,     \* slotOf[r]: the slot lock the worker holds
  eng,        \* eng[r]: the engine's process group: none, alive or dead
  reserved,   \* the runs with an entry in slots/resources.json
  grant       \* grant[r]: the devices granted to r (ledger entry, grant.json)

workerVars == <<wpc, pending, slotOf, eng, reserved, grant>>

\* SIGTERM has its default action, or the handler raises Cancelled where nobody
\* catches it, before the finally block has begun: the process ends at once.
Unarmed == {"boot", "slot", "claim", "load", "reserve", "take", "stage", "leaving"}
\* The handler is installed and SIGTERM raises Cancelled.
Armed == {"launch", "wait", "collect", "incomplete", "publish", "published"}
\* Cancelled was raised once, or SIGTERM is ignored: later signals do nothing.
Deaf == {"stopping", "salvage", "relist", "finish", "unlock"}
WorkerStates == {"none", "gone", "spawned", "failing"} \cup Unarmed \cup Armed \cup Deaf

WorkerTypeOK ==
  /\ wpc \in [Runs -> WorkerStates]
  /\ pending \in [Runs -> BOOLEAN]
  /\ slotOf \in [Runs -> Slots \cup {NoSlot}]
  /\ eng \in [Runs -> {"none", "alive", "dead"}]
  /\ reserved \in SUBSET Runs
  /\ grant \in [Runs -> SUBSET Gpus]

WorkerInit ==
  /\ wpc = [r \in Runs |-> "none"]
  /\ pending = [r \in Runs |-> FALSE]
  /\ slotOf = [r \in Runs |-> NoSlot]
  /\ eng = [r \in Runs |-> "none"]
  /\ reserved = {}
  /\ grant = [r \in Runs |-> {}]

WorkerAlive(r) == wpc[r] \notin {"none", "gone"}

Goto(r, label) == wpc' = [wpc EXCEPT ![r] = label]
\* The worker moves on and none of its other state changes.
Step(r, label) == Goto(r, label) /\ UNCHANGED <<pending, slotOf, eng, reserved, grant>>

\* _fail: the compare-and-set from `running`; main is about to return.
Fail(r) ==
  /\ UpdateStatus(r, {"running"}, "failed")
  /\ Step(r, "leaving")
-----------------------------------------------------------------------------
(* main, until the engine is launched.                                     *)

\* main records its pid and process group before it waits for a slot.
Boot(r) ==
  /\ wpc[r] = "boot"
  /\ workerRec' = [workerRec EXCEPT ![r] = TRUE]
  /\ Step(r, "slot")
  /\ UNCHANGED <<status, engineRec, old, listing>>

\* _acquire_slot returns None: the run left `accepted` while it waited.
GiveUpSlot(r) ==
  /\ wpc[r] = "slot"
  /\ status[r] # "accepted"
  /\ Step(r, "gone")
  /\ UNCHANGED storeVars

\* Mutant of SlotFree: the flock is shared, not exclusive.
SlotFreeAlways(s) == TRUE

\* No process holds the flock of slot s.
SlotFree(s) == \A q \in Runs : slotOf[q] # s

\* _acquire_slot: a non-blocking flock on one of the slot files succeeds.
TakeSlot(r, s) ==
  /\ wpc[r] = "slot"
  /\ status[r] = "accepted"
  /\ SlotFree(s)
  /\ slotOf' = [slotOf EXCEPT ![r] = s]
  /\ Goto(r, "claim")
  /\ UNCHANGED <<pending, eng, reserved, grant>>
  /\ UNCHANGED storeVars

\* accepted -> running by compare-and-set; a run cancelled meanwhile is left
\* alone and the finally block releases the slot.
Claim(r) ==
  /\ wpc[r] = "claim"
  /\ UpdateStatus(r, {"accepted"}, "running")
  /\ Step(r, IF status[r] = "accepted" THEN "load" ELSE "leaving")
  /\ UNCHANGED <<workerRec, engineRec, old, listing>>

\* The engine set is rebuilt, the adapter recorded, the request parsed.
Load(r) ==
  /\ wpc[r] = "load"
  /\ Step(r, "reserve")
  /\ UNCHANGED storeVars

\* EngineUnavailable, EngineSetMismatch, a malformed request, or an asset
\* whose digest changed since admission.
Refuse(r) ==
  /\ wpc[r] \in {"load", "stage"}
  /\ Fail(r)
  /\ UNCHANGED <<workerRec, engineRec, old, listing>>

\* Any other exception before the inner try leaves main through its finally
\* block: the run stays `running` until someone reaps it.
Escape(r) ==
  /\ "raise" \in Faults
  /\ wpc[r] \in {"load", "reserve", "take", "stage"}
  /\ Step(r, "leaving")
  /\ UNCHANGED storeVars

\* acquire_resources gives up: the run left `running` while it waited.
GiveUpResources(r) ==
  /\ wpc[r] = "reserve"
  /\ status[r] # "running"
  /\ Step(r, "leaving")
  /\ UNCHANGED storeVars

\* The run is still `running`: the worker goes on to poll the ledger.
AskAgain(r) ==
  /\ wpc[r] = "reserve"
  /\ status[r] = "running"
  /\ Step(r, "take")
  /\ UNCHANGED storeVars

\* Mutant of Kept: the ledger forgets the runs that are still running.
KeptNothing(r) == {}

\* Mutant of Kept: the entries of finished runs are never dropped.
KeptAll(r) == reserved \ {r}

\* take: the other runs whose reservations stand.  A run in a final state has
\* no claim any more, whether or not its engine has ended.
Kept(r) == {q \in reserved \ {r} : status[q] \in Active}

\* acquire_resources: one poll of the ledger under resources.lock, whatever the
\* run has become.  The grant is `need` free devices; without enough of them
\* the worker sleeps and looks at its run again.
Reserve(r) ==
  /\ wpc[r] = "take"
  /\ LET free == Gpus \ UNION {grant[q] : q \in Kept(r)}
     IN \/ \E g \in SUBSET free :
             /\ Cardinality(g) = Need[r]
             /\ grant' = [grant EXCEPT ![r] = g]
             /\ reserved' = Kept(r) \cup {r}
             /\ Goto(r, "stage")
        \/ /\ Cardinality(free) < Need[r]
           /\ reserved' = Kept(r)
           /\ Goto(r, "reserve")
           /\ UNCHANGED grant
  /\ UNCHANGED <<pending, slotOf, eng>>
  /\ UNCHANGED storeVars

\* The assets are verified again and staged; the SIGTERM handler goes in.
Stage(r) ==
  /\ wpc[r] = "stage"
  /\ Step(r, "launch")
  /\ UNCHANGED storeVars
-----------------------------------------------------------------------------
(* launch: the engine runs in a process group of its own.                  *)

\* adapter.plan, staging or Popen raises.
LaunchFails(r) ==
  /\ wpc[r] = "launch"
  /\ Step(r, "failing")
  /\ UNCHANGED storeVars

\* The except clause: an execution problem.
Failing(r) ==
  /\ wpc[r] = "failing"
  /\ Fail(r)
  /\ UNCHANGED <<workerRec, engineRec, old, listing>>

\* Popen inside deferred(): from here a SIGTERM waits until the engine's
\* process group is recorded.
Spawn(r) ==
  /\ wpc[r] = "launch"
  /\ eng' = [eng EXCEPT ![r] = "alive"]
  /\ Goto(r, "spawned")
  /\ UNCHANGED <<pending, slotOf, reserved, grant>>
  /\ UNCHANGED storeVars

\* started(proc) records engine_process; leaving deferred() raises Cancelled
\* when a SIGTERM arrived meanwhile.
RecordEngine(r) ==
  /\ wpc[r] = "spawned"
  /\ engineRec' = [engineRec EXCEPT ![r] = TRUE]
  /\ Step(r, IF pending[r] THEN "stopping" ELSE "wait")
  /\ UNCHANGED <<status, workerRec, old, listing>>

\* The record cannot be written: deferred() drops the pending signal, main
\* fails the run and nobody waits for the engine.
RecordEngineFails(r) ==
  /\ "raise" \in Faults
  /\ wpc[r] = "spawned"
  /\ Step(r, "failing")
  /\ UNCHANGED storeVars

\* The engine ends by itself.
EngineExit(r) ==
  /\ eng[r] = "alive"
  /\ eng' = [eng EXCEPT ![r] = "dead"]
  /\ UNCHANGED <<wpc, pending, slotOf, reserved, grant>>
  /\ UNCHANGED storeVars

\* proc.wait() returns.
EngineDone(r) ==
  /\ wpc[r] = "wait"
  /\ eng[r] = "dead"
  /\ Step(r, "collect")
  /\ UNCHANGED storeVars
-----------------------------------------------------------------------------
(* collect and the last compare-and-set.                                   *)

\* collect raises, a reference cannot be built, or a document cannot be written.
CollectFails(r) ==
  /\ wpc[r] \in {"collect", "incomplete", "publish"}
  /\ Step(r, "failing")
  /\ UNCHANGED storeVars

\* The verdict is not complete: what could be listed is listed.
CollectIncomplete(r) ==
  /\ wpc[r] = "collect"
  /\ \E l \in {listing[r], "partial"} : listing' = [listing EXCEPT ![r] = l]
  /\ Step(r, "incomplete")
  /\ UNCHANGED <<status, workerRec, engineRec, old>>

\* The run then fails; main returns from inside the try block.
FailIncomplete(r) ==
  /\ wpc[r] = "incomplete"
  /\ UpdateStatus(r, {"running"}, "failed")
  /\ Step(r, "published")
  /\ UNCHANGED <<workerRec, engineRec, old, listing>>

\* Mutant of CollectComplete: the references are left for after the move.
CollectUnlisted(r) ==
  /\ wpc[r] = "collect"
  /\ Step(r, "publish")
  /\ UNCHANGED storeVars

\* A complete verdict: every artifact is hashed and artifacts.json written
\* before the state moves.
CollectComplete(r) ==
  /\ wpc[r] = "collect"
  /\ listing' = [listing EXCEPT ![r] = "full"]
  /\ Step(r, "publish")
  /\ UNCHANGED <<status, workerRec, engineRec, old>>

\* running -> rendered by compare-and-set; still inside the try block.
Publish(r) ==
  /\ wpc[r] = "publish"
  /\ UpdateStatus(r, {"running"}, "rendered")
  /\ Step(r, "published")
  /\ UNCHANGED <<workerRec, engineRec, old, listing>>

LeaveTry(r) ==
  /\ wpc[r] = "published"
  /\ Step(r, "leaving")
  /\ UNCHANGED storeVars

\* The finally block begins: SIGTERM is ignored from here.
EnterFinally(r) ==
  /\ wpc[r] = "leaving"
  /\ Step(r, "finish")
  /\ UNCHANGED storeVars
-----------------------------------------------------------------------------
(* _cancel, the worker's answer to SIGTERM, and the end of main.           *)

\* Mutant of StopEngine: the engine is told to stop but not waited for.
StopEngineAsync(r) ==
  /\ wpc[r] = "stopping"
  /\ Step(r, "salvage")
  /\ UNCHANGED storeVars

\* Mutant of StopEngine: SIGTERM only; an engine that ignores it is waited for.
StopEnginePolite(r) ==
  /\ wpc[r] = "stopping"
  /\ eng[r] # "alive"
  /\ Step(r, "salvage")
  /\ UNCHANGED storeVars

\* stop_engine: SIGTERM, SIGKILL after ENGINE_GRACE_S, then wait.
StopEngine(r) ==
  /\ wpc[r] = "stopping"
  /\ eng' = [eng EXCEPT ![r] = IF @ = "alive" THEN "dead" ELSE @]
  /\ Goto(r, "salvage")
  /\ UNCHANGED <<pending, slotOf, reserved, grant>>
  /\ UNCHANGED storeVars

\* _cancel's compare-and-set, after collecting: a run that reached another
\* final state is left alone.
Salvage(r) ==
  /\ wpc[r] = "salvage"
  /\ UpdateStatus(r, {"running", "cancelled"}, "cancelled")
  /\ Step(r, IF status[r] \in {"running", "cancelled"} THEN "relist" ELSE "finish")
  /\ UNCHANGED <<workerRec, engineRec, old, listing>>

\* _cancel lists what was collected, or leaves the listing when collecting
\* raised.
Relist(r) ==
  /\ wpc[r] = "relist"
  /\ \E l \in {listing[r], "partial", "full"} :
        listing' = [listing EXCEPT ![r] = l]
  /\ Step(r, "finish")
  /\ UNCHANGED <<status, workerRec, engineRec, old>>

\* The finally block, at its end: the reservation is released.
ReleaseResources(r) ==
  /\ wpc[r] = "finish"
  /\ reserved' = reserved \ {r}
  /\ Goto(r, "unlock")
  /\ UNCHANGED <<pending, slotOf, eng, grant>>
  /\ UNCHANGED storeVars

\* The slot file is closed and the process exits.
Finish(r) ==
  /\ wpc[r] = "unlock"
  /\ slotOf' = [slotOf EXCEPT ![r] = NoSlot]
  /\ Goto(r, "gone")
  /\ UNCHANGED <<pending, eng, reserved, grant>>
  /\ UNCHANGED storeVars

WorkerStep(r) ==
  \/ Boot(r) \/ GiveUpSlot(r) \/ (\E s \in Slots : TakeSlot(r, s))
  \/ Claim(r) \/ Load(r) \/ Refuse(r) \/ Escape(r)
  \/ GiveUpResources(r) \/ AskAgain(r) \/ Reserve(r) \/ Stage(r)
  \/ LaunchFails(r) \/ Failing(r) \/ Spawn(r) \/ RecordEngine(r) \/ RecordEngineFails(r)
  \/ EngineDone(r)
  \/ CollectFails(r) \/ CollectIncomplete(r) \/ FailIncomplete(r) \/ CollectComplete(r)
  \/ Publish(r) \/ LeaveTry(r) \/ EnterFinally(r)
  \/ StopEngine(r) \/ Salvage(r) \/ Relist(r)
  \/ ReleaseResources(r) \/ Finish(r)
-----------------------------------------------------------------------------
(* Signals.                                                                *)

\* The process is gone: the kernel drops its flocks; its engine, in another
\* process group, and its ledger entry stay.
Die(r) ==
  /\ Goto(r, "gone")
  /\ slotOf' = [slotOf EXCEPT ![r] = NoSlot]
  /\ UNCHANGED <<pending, eng, reserved, grant>>

\* What a SIGTERM to the worker's process group does, by where the worker is.
Sigterm(r) ==
  \/ wpc[r] \in Unarmed /\ Die(r)
  \/ /\ wpc[r] = "spawned"
     /\ pending' = [pending EXCEPT ![r] = TRUE]
     /\ UNCHANGED <<wpc, slotOf, eng, reserved, grant>>
  \/ wpc[r] \in Armed /\ Step(r, "stopping")
  \* held while Popen fails: dropped with the exception
  \/ wpc[r] = "launch" /\ Step(r, "failing")
  \* Cancelled leaves main through the finally block
  \/ wpc[r] \in {"failing", "leaving"} /\ Step(r, "finish")
  \/ wpc[r] \in Deaf \cup {"none", "gone"} /\ UNCHANGED workerVars

\* A SIGTERM that is not cancel_run's: the host shuts down.
StraySigterm(r) ==
  /\ "sigterm" \in Faults
  /\ WorkerAlive(r)
  /\ Sigterm(r)
  /\ UNCHANGED storeVars

\* The worker is killed (out of memory, SIGKILL).
Crash(r) ==
  /\ "crash" \in Faults
  /\ WorkerAlive(r)
  /\ Die(r)
  /\ UNCHANGED storeVars
=============================================================================
