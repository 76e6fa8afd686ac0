------------------------ MODULE LocalBackend_proofs -------------------------
(***************************************************************************)
(* Theorems about LocalBackend, for every set of runs, clients, slots and  *)
(* devices.  The steps of Next are enumerated once, in NextCases; every    *)
(* invariance proof below has one step per action.                         *)
(***************************************************************************)
EXTENDS LocalBackend, FiniteSetTheorems, TLAPS

USE DEF At, Goto, Step, Fail, Move, Begin, Leave, Return, AfterRead, Die,
        storeVars, workerVars, clientVars

-----------------------------------------------------------------------------
(* Type correctness.                                                       *)

\* A compare-and-set keeps the type of status.
LEMMA UpdateStatusType ==
  ASSUME NEW r \in Runs, NEW expected, NEW new \in Active \cup Final,
         StoreTypeOK, UpdateStatus(r, expected, new)
  PROVE  status' \in [Runs -> {Absent} \cup Active \cup Final]
  BY DEF UpdateStatus, StoreTypeOK

\* The program counters mentioned by the actions are worker states.
LEMMA WorkerStatesList ==
  /\ {"none", "gone", "spawned", "boot", "slot", "claim", "load", "reserve",
      "take", "stage", "launch", "wait", "collect", "incomplete", "publish", "published",
      "stopping", "salvage", "relist", "finish", "unlock", "leaving", "failing"} = WorkerStates
  BY DEF WorkerStates, Unarmed, Armed, Deaf

\* Every step of a worker keeps the types of the store's and the worker's
\* variables.
LEMMA WorkerStepType ==
  ASSUME NEW r \in Runs, TypeOK, WorkerStep(r)
  PROVE  StoreTypeOK' /\ WorkerTypeOK'
<1> USE WorkerStatesList DEF TypeOK, StoreTypeOK, WorkerTypeOK
<1>1. CASE Boot(r)               BY <1>1 DEF Boot
<1>2. CASE GiveUpSlot(r)         BY <1>2 DEF GiveUpSlot
<1>3. ASSUME NEW s \in Slots, TakeSlot(r, s) PROVE StoreTypeOK' /\ WorkerTypeOK'
                                 BY <1>3 DEF TakeSlot
<1>4. CASE Claim(r)              BY <1>4, UpdateStatusType DEF Claim, Active
<1>5. CASE Load(r)               BY <1>5 DEF Load
<1>6. CASE Refuse(r)             BY <1>6, UpdateStatusType DEF Refuse, Final
<1>7. CASE Escape(r)             BY <1>7 DEF Escape
<1>8. CASE GiveUpResources(r)    BY <1>8 DEF GiveUpResources
<1>8a. CASE AskAgain(r)          BY <1>8a DEF AskAgain
<1>9. CASE Reserve(r)            BY <1>9 DEF Reserve, Kept
<1>10. CASE Stage(r)             BY <1>10 DEF Stage
<1>11. CASE LaunchFails(r)       BY <1>11 DEF LaunchFails
<1>11a. CASE Failing(r)          BY <1>11a, UpdateStatusType DEF Failing, Final
<1>12. CASE Spawn(r)             BY <1>12 DEF Spawn
<1>13. CASE RecordEngine(r)      BY <1>13 DEF RecordEngine
<1>14. CASE RecordEngineFails(r) BY <1>14 DEF RecordEngineFails
<1>15. CASE EngineDone(r)        BY <1>15 DEF EngineDone
<1>15a. CASE CollectFails(r)     BY <1>15a DEF CollectFails
<1>16. CASE CollectIncomplete(r) BY <1>16 DEF CollectIncomplete, Listings
<1>16a. CASE FailIncomplete(r)   BY <1>16a, UpdateStatusType DEF FailIncomplete, Final
<1>17. CASE CollectComplete(r)   BY <1>17 DEF CollectComplete, Listings
<1>18. CASE Publish(r)           BY <1>18, UpdateStatusType DEF Publish, Final
<1>19. CASE LeaveTry(r)          BY <1>19 DEF LeaveTry
<1>19a. CASE EnterFinally(r)     BY <1>19a DEF EnterFinally
<1>20. CASE StopEngine(r)        BY <1>20 DEF StopEngine
<1>21. CASE Salvage(r)           BY <1>21, UpdateStatusType DEF Salvage, Final
<1>22. CASE Relist(r)            BY <1>22 DEF Relist, Listings
<1>22a. CASE ReleaseResources(r) BY <1>22a DEF ReleaseResources
<1>23. CASE Finish(r)            BY <1>23 DEF Finish
<1>24. QED BY <1>1, <1>2, <1>3, <1>4, <1>5, <1>6, <1>7, <1>8, <1>8a, <1>9, <1>10,
             <1>11, <1>11a, <1>12, <1>13, <1>14, <1>15, <1>15a, <1>16, <1>16a, <1>17, <1>18, <1>19, <1>19a,
             <1>20, <1>21, <1>22, <1>22a, <1>23 DEF WorkerStep

\* So does a SIGTERM, wherever it meets the worker.
LEMMA SigtermType ==
  ASSUME NEW r \in Runs, WorkerTypeOK, Sigterm(r)
  PROVE  WorkerTypeOK'
<1> USE WorkerStatesList DEF WorkerTypeOK
<1>1. CASE Die(r)
  BY <1>1 DEF Die
<1>2. ASSUME NEW l \in {"stopping", "failing", "finish"}, Step(r, l) PROVE WorkerTypeOK'
  BY <1>2 DEF Step
<1>3. CASE /\ pending' = [pending EXCEPT ![r] = TRUE]
           /\ UNCHANGED <<wpc, slotOf, eng, reserved, grant>>
  BY <1>3
<1>4. CASE UNCHANGED workerVars
  BY <1>4 DEF workerVars
<1> HIDE DEF WorkerTypeOK
<1>5. QED BY <1>1, <1>2, <1>3, <1>4 DEF Sigterm

\* Every step of a call keeps the types, and a call in progress has a target.
LEMMA ClientStepType ==
  ASSUME NEW c \in Clients, TypeOK, ClientStep(c) \/ ClientCrash(c)
  PROVE  TypeOK'
<1> USE WorkerStatesList DEF TypeOK, StoreTypeOK, WorkerTypeOK, ClientStates
<1>1. CASE StartWorker(c)   BY <1>1 DEF StartWorker
<1>2. CASE RecordWorker(c)  BY <1>2 DEF RecordWorker
<1>3. CASE Look(c)          BY <1>3 DEF Look, ReadStatus, ReadRecord, LookForWorker, CheckAge
<1>4. CASE Reap(c)
  <2>1. UpdateStatus(target[c], Active, "failed") /\ target[c] \in Runs
    BY <1>4 DEF Reap
  <2>2. status' \in [Runs -> {Absent} \cup Active \cup Final]
    BY <2>1, UpdateStatusType DEF Final
  <2>3. QED BY <1>4, <2>2 DEF Reap
<1>5. CASE Mark(c)
  <2>1. UpdateStatus(target[c], Active, "cancelled") /\ target[c] \in Runs
    BY <1>5 DEF Mark
  <2>2. status' \in [Runs -> {Absent} \cup Active \cup Final]
    BY <2>1, UpdateStatusType DEF Final
  <2>3. QED BY <1>5, <2>2 DEF Mark
<1>6. CASE Signal(c)
  <2>1. CASE Sigterm(target[c]) /\ Move(c, "await") /\ UNCHANGED storeVars
    <3>1. target[c] \in Runs
      BY <1>6 DEF Signal
    <3>2. WorkerTypeOK'
      BY <2>1, <3>1, SigtermType
    <3>3. QED BY <1>6, <2>1, <3>2 DEF Signal
  <2>2. CASE UNCHANGED workerVars /\ Move(c, "sweep") /\ UNCHANGED storeVars
    BY <1>6, <2>2 DEF Signal
  <2>3. QED BY <1>6, <2>1, <2>2 DEF Signal
<1>7. CASE WorkerEnded(c)   BY <1>7 DEF WorkerEnded
<1>8. CASE KillWorker(c)    BY <1>8 DEF KillWorker
<1>9. CASE SweepEngine(c)   BY <1>9 DEF SweepEngine
<1>10. CASE ClientCrash(c)  BY <1>10 DEF ClientCrash
<1>11. QED BY <1>1, <1>2, <1>3, <1>4, <1>5, <1>6, <1>7, <1>8, <1>9, <1>10 DEF ClientStep

\* A call begins.
LEMMA CallType ==
  ASSUME NEW c \in Clients, NEW r \in Runs, TypeOK,
         Submit(c, r) \/ (\E o \in Ops : Request(c, o, r))
  PROVE  TypeOK'
<1> USE DEF TypeOK, StoreTypeOK, WorkerTypeOK, ClientStates
<1>1. CASE Submit(c, r)
  BY <1>1 DEF Submit, CreateRun, Active
<1>2. ASSUME NEW o \in Ops, Request(c, o, r) PROVE TypeOK'
  BY <1>2, OpsAssumption DEF Request
<1>3. QED BY <1>1, <1>2

\* The environment's steps: engines, time, stray signals, crashes.
Environment(r) ==
  \/ EngineExit(r) /\ UNCHANGED clientVars
  \/ StraySigterm(r) /\ UNCHANGED clientVars
  \/ Crash(r) /\ UNCHANGED clientVars
  \/ Age(r)

LEMMA EnvironmentType ==
  ASSUME NEW r \in Runs, TypeOK, Environment(r)
  PROVE  TypeOK'
<1> USE WorkerStatesList DEF TypeOK, StoreTypeOK, WorkerTypeOK
<1>1. CASE Age(r)          BY <1>1 DEF Age
<1>2. CASE EngineExit(r) /\ UNCHANGED clientVars    BY <1>2 DEF EngineExit
<1>3. CASE StraySigterm(r) /\ UNCHANGED clientVars  BY <1>3 DEF StraySigterm, Sigterm
<1>4. CASE Crash(r) /\ UNCHANGED clientVars         BY <1>4 DEF Crash
<1>5. QED BY <1>1, <1>2, <1>3, <1>4 DEF Environment

\* The steps of Next, each with its actors.
LEMMA NextCases ==
  ASSUME Next
  PROVE  \/ \E r \in Runs : WorkerStep(r) /\ UNCHANGED clientVars
         \/ \E c \in Clients : ClientStep(c) \/ ClientCrash(c)
         \/ \E c \in Clients, r \in Runs : Submit(c, r) \/ \E o \in Ops : Request(c, o, r)
         \/ \E r \in Runs : Environment(r)
  BY DEF Next, Environment

\* Every variable keeps its type, and every call in progress has a run
\* (LocalBackend.TypeOK), whatever faults are allowed.
THEOREM TypeCorrect == Spec => []TypeOK
<1>1. Init => TypeOK
  BY DEF Init, StoreInit, WorkerInit, TypeOK, StoreTypeOK, WorkerTypeOK,
         WorkerStates, ClientStates, Listings
<1>2. TypeOK /\ [Next]_vars => TypeOK'
  <2> SUFFICES ASSUME TypeOK, [Next]_vars PROVE TypeOK'
    OBVIOUS
  <2>1. CASE UNCHANGED vars
    BY <2>1 DEF vars, TypeOK, StoreTypeOK, WorkerTypeOK
  <2>2. ASSUME NEW r \in Runs, WorkerStep(r) /\ UNCHANGED clientVars PROVE TypeOK'
    BY <2>2, WorkerStepType DEF TypeOK
  <2>3. ASSUME NEW c \in Clients, ClientStep(c) \/ ClientCrash(c) PROVE TypeOK'
    BY <2>3, ClientStepType
  <2>4. ASSUME NEW c \in Clients, NEW r \in Runs,
               Submit(c, r) \/ (\E o \in Ops : Request(c, o, r))
        PROVE  TypeOK'
    BY <2>4, CallType
  <2>5. ASSUME NEW r \in Runs, Environment(r) PROVE TypeOK'
    BY <2>5, EnvironmentType
  <2>6. QED
    BY <2>1, <2>2, <2>3, <2>4, <2>5, NextCases
<1>3. QED BY <1>1, <1>2, PTL DEF Spec
-----------------------------------------------------------------------------
(* Implementation of RunLifecycle.                                         *)

\* A compare-and-set whose expected and new states form a legal move is one
\* of RunLifecycle's, or no step at all.
LEMMA UpdateStatusMove ==
  ASSUME NEW r \in Runs, NEW expected, NEW new, StoreTypeOK,
         UpdateStatus(r, expected, new),
         \/ expected = {"accepted"} /\ new = "running"
         \/ expected = {"running"} /\ new = "rendered"
         \/ /\ expected \in {{"running"}, {"running", "cancelled"}, Active}
            /\ new \in {"failed", "cancelled"}
            /\ "cancelled" \in expected => new = "cancelled"
  PROVE  [Lifecycle!Next]_status
<1> USE DEF UpdateStatus, StoreTypeOK
<1>1. CASE status[r] \notin expected
  BY <1>1
<1>2. CASE status[r] \in expected /\ expected = {"accepted"}
  BY <1>2 DEF Lifecycle!Next, Lifecycle!Start, Lifecycle!Abandon, Lifecycle!Active, Active
<1>3. CASE status[r] \in expected /\ expected # {"accepted"} /\ new = "rendered"
  BY <1>3 DEF Lifecycle!Next, Lifecycle!Render
<1>4. CASE status[r] = "cancelled" /\ "cancelled" \in expected /\ new = "cancelled"
  BY <1>4
<1>5. CASE status[r] \in Active /\ status[r] \in expected /\ new \in {"failed", "cancelled"}
  BY <1>5 DEF Lifecycle!Next, Lifecycle!Abandon, Lifecycle!Active, Active
<1>6. QED BY <1>1, <1>2, <1>3, <1>4, <1>5 DEF Active

\* LocalBackend implements RunLifecycle: whatever the interleaving of
\* workers, readers and cancellers and whatever faults happen, the status of
\* each run makes only legal moves and keeps its final state.
THEOREM ImplementsLifecycle == Spec => LifecycleSpec
<1>1. Init => Lifecycle!Init
  BY DEF Init, StoreInit, Lifecycle!Init, Lifecycle!Absent, Absent
<1>2. TypeOK /\ [Next]_vars => [Lifecycle!Next]_status
  <2> SUFFICES ASSUME TypeOK, [Next]_vars PROVE [Lifecycle!Next]_status
    OBVIOUS
  <2> USE DEF TypeOK
  <2>1. ASSUME NEW r \in Runs, WorkerStep(r) PROVE [Lifecycle!Next]_status
    <3>1. CASE Claim(r)
      BY <3>1, UpdateStatusMove DEF Claim
    <3>2. CASE Publish(r)
      BY <3>2, UpdateStatusMove DEF Publish
    <3>3. CASE Salvage(r)
      BY <3>3, UpdateStatusMove DEF Salvage
    <3>4. CASE Refuse(r) \/ Failing(r) \/ FailIncomplete(r)
      <4>1. UpdateStatus(r, {"running"}, "failed")
        BY <3>4 DEF Refuse, Failing, FailIncomplete
      <4>2. QED BY <4>1, UpdateStatusMove
    <3>5. CASE UNCHANGED status
      BY <3>5
    <3>6. QED
      BY <2>1, <3>1, <3>2, <3>3, <3>4, <3>5
      DEF WorkerStep, Boot, GiveUpSlot, TakeSlot, Load, Escape, GiveUpResources,
          AskAgain, Reserve, Stage, LaunchFails, Spawn, RecordEngine, RecordEngineFails,
          EngineDone, CollectFails, CollectIncomplete, CollectComplete, LeaveTry, EnterFinally,
          StopEngine, Relist, ReleaseResources, Finish
  <2>2. ASSUME NEW c \in Clients, ClientStep(c) \/ ClientCrash(c)
        PROVE  [Lifecycle!Next]_status
    <3>1. CASE Reap(c)
      <4>1. target[c] \in Runs /\ UpdateStatus(target[c], Active, "failed")
        BY <3>1 DEF Reap
      <4>2. QED BY <4>1, UpdateStatusMove DEF Active
    <3>2. CASE Mark(c)
      <4>1. target[c] \in Runs /\ UpdateStatus(target[c], Active, "cancelled")
        BY <3>2 DEF Mark
      <4>2. QED BY <4>1, UpdateStatusMove DEF Active
    <3>3. CASE UNCHANGED status
      BY <3>3
    <3>4. QED
      BY <2>2, <3>1, <3>2, <3>3
      DEF ClientStep, ClientCrash, StartWorker, RecordWorker, Look, ReadStatus, ReadRecord,
          LookForWorker, CheckAge, Signal,
          WorkerEnded, KillWorker, SweepEngine
  <2>3. ASSUME NEW c \in Clients, NEW r \in Runs, Submit(c, r)
        PROVE  [Lifecycle!Next]_status
    BY <2>3 DEF Submit, CreateRun, Lifecycle!Next, Lifecycle!Submit, Lifecycle!Absent, Absent
  <2>4. QED
    BY <2>1, <2>2, <2>3
    DEF Next, vars, Request, EngineExit, StraySigterm, Crash, Age
<1>3. QED BY <1>1, <1>2, TypeCorrect, PTL DEF Spec, LifecycleSpec, Lifecycle!Spec
-----------------------------------------------------------------------------
(* The resource ledger.                                                    *)

\* The reservations in the ledger never overlap.
LedgerDisjoint ==
  \A q, r \in reserved : q # r => grant[q] \cap grant[r] = {}

\* They never do, for every capacity and every demand, also when workers crash,
\* are signalled or raise: what acquire_resources grants is free of every
\* reservation it keeps.
LEMMA LedgerStaysDisjoint == Spec => []LedgerDisjoint
<1>1. Init => LedgerDisjoint
  BY DEF Init, WorkerInit, LedgerDisjoint
<1>2. TypeOK /\ LedgerDisjoint /\ [Next]_vars => LedgerDisjoint'
  <2> SUFFICES ASSUME TypeOK, LedgerDisjoint, [Next]_vars PROVE LedgerDisjoint'
    OBVIOUS
  <2>1. ASSUME NEW r \in Runs, Reserve(r) PROVE LedgerDisjoint'
    <3>1. Kept(r) \subseteq reserved \ {r}
      BY DEF Kept
    <3>2. CASE reserved' = Kept(r) /\ UNCHANGED grant
      BY <3>1, <3>2 DEF LedgerDisjoint
    <3>3. ASSUME NEW g \in SUBSET (Gpus \ UNION {grant[q] : q \in Kept(r)}),
                 grant' = [grant EXCEPT ![r] = g], reserved' = Kept(r) \cup {r}
          PROVE  LedgerDisjoint'
      <4>1. grant'[r] = g /\ \A q \in Kept(r) : grant'[q] = grant[q]
        BY <3>1, <3>3 DEF TypeOK, WorkerTypeOK
      <4>2. \A q \in Kept(r) : grant[q] \cap g = {}
        BY <3>3
      <4>3. \A p, q \in Kept(r) : p # q => grant'[p] \cap grant'[q] = {}
        BY <3>1, <4>1 DEF LedgerDisjoint
      <4>4. QED BY <3>3, <4>1, <4>2, <4>3 DEF LedgerDisjoint
    <3>4. QED BY <2>1, <3>2, <3>3 DEF Reserve
  <2>2. ASSUME NEW r \in Runs, ReleaseResources(r) PROVE LedgerDisjoint'
    BY <2>2 DEF ReleaseResources, LedgerDisjoint
  <2>3. CASE UNCHANGED <<reserved, grant>>
    BY <2>3 DEF LedgerDisjoint
  <2>4. ASSUME NEW r \in Runs, WorkerStep(r) PROVE LedgerDisjoint'
    BY <2>1, <2>2, <2>3, <2>4
    DEF WorkerStep, Boot, GiveUpSlot, TakeSlot, Claim, Load, Refuse, Escape,
        GiveUpResources, AskAgain, Stage, LaunchFails, Failing, Spawn, RecordEngine,
        RecordEngineFails, EngineDone, CollectFails, CollectIncomplete, FailIncomplete,
        CollectComplete, Publish, LeaveTry, EnterFinally, StopEngine, Salvage, Relist, Finish
  <2>5. ASSUME NEW c \in Clients, ClientStep(c) \/ ClientCrash(c) PROVE LedgerDisjoint'
    BY <2>3, <2>5
    DEF ClientStep, ClientCrash, StartWorker, RecordWorker, Look, ReadStatus, ReadRecord,
        LookForWorker, CheckAge, Reap, Mark,
        Signal, Sigterm, WorkerEnded, KillWorker, SweepEngine
  <2>6. QED
    BY <2>3, <2>4, <2>5
    DEF Next, vars, Submit, Request, EngineExit, StraySigterm, Sigterm, Crash, Age
<1>3. QED BY <1>1, <1>2, TypeCorrect, PTL DEF Spec
-----------------------------------------------------------------------------
(* A run's worker is started at most once.                                 *)

\* What exists before what: a worker, a worker's record and age belong to a
\* run that exists, every call in progress is about one, the calls about to
\* start a worker are about different runs without one, and a record is
\* written only once there is a worker.
StartInv ==
  /\ \A r \in Runs : (wpc[r] # "none" \/ old[r] \/ workerRec[r]) => status[r] # Absent
  /\ \A r \in Runs : workerRec[r] => wpc[r] # "none"
  /\ \A c \in Clients :
       /\ At(c, "idle") \/ status[target[c]] # Absent
       /\ At(c, "start") => wpc[target[c]] = "none"
       /\ At(c, "record") => wpc[target[c]] # "none"
  /\ \A c, d \in Clients : At(c, "start") /\ At(d, "start") /\ c # d => target[c] # target[d]

\* A step of worker r: it was running, and it does not touch other workers,
\* the age, or the existence of a run.
LEMMA WorkerFrame ==
  ASSUME NEW r \in Runs, TypeOK, WorkerStep(r)
  PROVE  /\ WorkerAlive(r) /\ wpc'[r] # "none"
         /\ \A q \in Runs \ {r} : /\ wpc'[q] = wpc[q] /\ workerRec'[q] = workerRec[q]
                                   /\ status'[q] = status[q] /\ listing'[q] = listing[q]
                                   /\ slotOf'[q] = slotOf[q] /\ eng'[q] = eng[q]
                                   /\ pending'[q] = pending[q]
                                   /\ engineRec'[q] = engineRec[q]
         /\ old' = old
         /\ status'[r] # status[r] => status'[r] # Absent
         /\ workerRec' = workerRec \/ workerRec'[r]
         /\ wpc[r] = "boot" => workerRec'[r]
         /\ wpc'[r] # "boot"
<1> USE DEF TypeOK, StoreTypeOK, WorkerTypeOK, WorkerAlive, UpdateStatus, Absent
<1>1. CASE Boot(r)               BY <1>1 DEF Boot
<1>2. CASE GiveUpSlot(r)         BY <1>2 DEF GiveUpSlot
<1>3. CASE \E s \in Slots : TakeSlot(r, s)  BY <1>3 DEF TakeSlot
<1>4. CASE Claim(r)              BY <1>4 DEF Claim
<1>5. CASE Load(r)               BY <1>5 DEF Load
<1>6. CASE Refuse(r)             BY <1>6 DEF Refuse
<1>7. CASE Escape(r)             BY <1>7 DEF Escape
<1>8. CASE GiveUpResources(r)    BY <1>8 DEF GiveUpResources
<1>8a. CASE AskAgain(r)          BY <1>8a DEF AskAgain
<1>9. CASE Reserve(r)            BY <1>9 DEF Reserve
<1>10. CASE Stage(r)             BY <1>10 DEF Stage
<1>11. CASE LaunchFails(r)       BY <1>11 DEF LaunchFails
<1>11a. CASE Failing(r)          BY <1>11a DEF Failing
<1>12. CASE Spawn(r)             BY <1>12 DEF Spawn
<1>13. CASE RecordEngine(r)      BY <1>13 DEF RecordEngine
<1>14. CASE RecordEngineFails(r) BY <1>14 DEF RecordEngineFails
<1>15. CASE EngineDone(r)        BY <1>15 DEF EngineDone
<1>15a. CASE CollectFails(r)     BY <1>15a DEF CollectFails
<1>16. CASE CollectIncomplete(r)
  <2>1. PICK l \in {listing[r], "partial"} :
           listing' = [listing EXCEPT ![r] = l] /\ wpc[r] = "collect" /\ Step(r, "incomplete")
           /\ UNCHANGED <<status, workerRec, engineRec, old>>
    BY <1>16 DEF CollectIncomplete
  <2>2. QED BY <2>1
<1>16a. CASE FailIncomplete(r)   BY <1>16a DEF FailIncomplete
<1>17. CASE CollectComplete(r)   BY <1>17 DEF CollectComplete
<1>18. CASE Publish(r)           BY <1>18 DEF Publish
<1>19. CASE LeaveTry(r)          BY <1>19 DEF LeaveTry
<1>19a. CASE EnterFinally(r)     BY <1>19a DEF EnterFinally
<1>20. CASE StopEngine(r)        BY <1>20 DEF StopEngine
<1>21. CASE Salvage(r)           BY <1>21 DEF Salvage
<1>22. CASE Relist(r)            BY <1>22 DEF Relist
<1>22a. CASE ReleaseResources(r) BY <1>22a DEF ReleaseResources
<1>23. CASE Finish(r)            BY <1>23 DEF Finish
<1>24. QED BY <1>1, <1>2, <1>3, <1>4, <1>5, <1>6, <1>7, <1>8, <1>8a, <1>9, <1>10,
             <1>11, <1>11a, <1>12, <1>13, <1>14, <1>15, <1>15a, <1>16, <1>16a, <1>17, <1>18, <1>19, <1>19a,
             <1>20, <1>21, <1>22, <1>22a, <1>23 DEF WorkerStep

\* A step never removes a run.
LEMMA RunsStay ==
  ASSUME TypeOK, [Lifecycle!Next]_status, NEW r \in Runs, status[r] # Absent
  PROVE  status'[r] # Absent
  BY DEF TypeOK, StoreTypeOK, Lifecycle!Next, Lifecycle!Submit, Lifecycle!Start,
         Lifecycle!Render, Lifecycle!Abandon, Absent

LEMMA StartInvariant == Spec => []StartInv
<1>1. Init => StartInv
  BY DEF Init, StoreInit, WorkerInit, StartInv
<1>2. TypeOK /\ StartInv /\ [Next]_vars /\ [Lifecycle!Next]_status => StartInv'
  <2> SUFFICES ASSUME TypeOK, StartInv, [Next]_vars, [Lifecycle!Next]_status
               PROVE  StartInv'
    OBVIOUS
  <2> USE DEF TypeOK, StoreTypeOK, WorkerTypeOK, StartInv
  <2>0. \A r \in Runs : status[r] # Absent => status'[r] # Absent
    BY RunsStay
  <2>1. ASSUME NEW r \in Runs, WorkerStep(r) /\ UNCHANGED clientVars PROVE StartInv'
    BY <2>0, <2>1, WorkerFrame DEF WorkerAlive
  <2>2. ASSUME NEW c \in Clients, ClientStep(c) \/ ClientCrash(c) PROVE StartInv'
    <3>1. CASE StartWorker(c)   BY <2>0, <3>1 DEF StartWorker
    <3>2. CASE RecordWorker(c)  BY <2>0, <3>2 DEF RecordWorker
    <3>3. CASE Look(c)          BY <2>0, <3>3 DEF Look, ReadStatus, ReadRecord, LookForWorker, CheckAge
    <3>4. CASE Reap(c)          BY <2>0, <3>4 DEF Reap
    <3>5. CASE Mark(c)          BY <2>0, <3>5 DEF Mark
    <3>6. CASE Signal(c)        BY <2>0, <3>6 DEF Signal, Sigterm, Unarmed, Armed, Deaf
    <3>7. CASE WorkerEnded(c)   BY <2>0, <3>7 DEF WorkerEnded
    <3>8. CASE KillWorker(c)    BY <2>0, <3>8 DEF KillWorker, WorkerAlive
    <3>9. CASE SweepEngine(c)   BY <2>0, <3>9 DEF SweepEngine
    <3>10. CASE ClientCrash(c)  BY <2>0, <3>10 DEF ClientCrash
    <3>11. QED BY <2>2, <3>1, <3>2, <3>3, <3>4, <3>5, <3>6, <3>7, <3>8, <3>9,
                  <3>10 DEF ClientStep
  <2>3. ASSUME NEW c \in Clients, NEW r \in Runs,
               Submit(c, r) \/ (\E o \in Ops : Request(c, o, r))
        PROVE  StartInv'
    <3>1. CASE Submit(c, r)
      BY <2>0, <3>1 DEF Submit, CreateRun, Absent
    <3>2. ASSUME NEW o \in Ops, Request(c, o, r) PROVE StartInv'
      BY <2>0, <3>2 DEF Request
    <3>3. QED BY <2>3, <3>1, <3>2
  <2>4. ASSUME NEW r \in Runs, Environment(r) PROVE StartInv'
    <3>1. CASE EngineExit(r) /\ UNCHANGED clientVars    BY <3>1 DEF EngineExit
    <3>2. CASE StraySigterm(r) /\ UNCHANGED clientVars
      BY <3>2 DEF StraySigterm, Sigterm, WorkerAlive
    <3>3. CASE Crash(r) /\ UNCHANGED clientVars         BY <3>3 DEF Crash, WorkerAlive
    <3>4. CASE Age(r)                                   BY <3>4 DEF Age
    <3>5. QED BY <2>4, <3>1, <3>2, <3>3, <3>4 DEF Environment
  <2>5. CASE UNCHANGED vars
    BY <2>5 DEF vars
  <2>6. QED BY <2>1, <2>2, <2>3, <2>4, <2>5, NextCases
<1>3. QED
  BY <1>1, <1>2, TypeCorrect, ImplementsLifecycle, PTL
  DEF Spec, LifecycleSpec, Lifecycle!Spec
-----------------------------------------------------------------------------
(* A rendered run keeps its complete listing.                              *)

\* RenderedIsListed made inductive: the listing is complete before the state
\* moves, a rendered run's worker is past collecting, and only the listing of
\* a cancelled run is written again.
ListedInv ==
  \A r \in Runs :
    /\ status[r] = "rendered" =>
         /\ listing[r] = "full"
         /\ wpc[r] \in {"published", "leaving", "stopping", "salvage", "finish", "unlock",
                        "gone"}
    /\ wpc[r] = "publish" => listing[r] = "full"
    /\ wpc[r] = "relist" => status[r] = "cancelled"

\* A state is `rendered` only with its complete artifacts.json, and a late
\* SIGTERM never replaces that listing, whatever faults happen.
THEOREM RenderedStaysListed == Spec => []RenderedIsListed
<1>1. Init => ListedInv
  BY DEF Init, StoreInit, WorkerInit, ListedInv, Absent
<1>2. TypeOK /\ StartInv /\ ListedInv /\ [Next]_vars => ListedInv'
  <2> SUFFICES ASSUME TypeOK, StartInv, ListedInv, [Next]_vars
               PROVE  ListedInv'
    OBVIOUS
  <2> USE DEF TypeOK, StoreTypeOK, WorkerTypeOK, ListedInv, UpdateStatus
  <2>1. ASSUME NEW r \in Runs, WorkerStep(r) PROVE ListedInv'
    <3>1. CASE Boot(r)               BY <3>1 DEF Boot
    <3>2. CASE GiveUpSlot(r)         BY <3>2 DEF GiveUpSlot
    <3>3. CASE \E s \in Slots : TakeSlot(r, s)  BY <3>3 DEF TakeSlot
    <3>4. CASE Claim(r)              BY <3>4 DEF Claim
    <3>5. CASE Load(r)               BY <3>5 DEF Load
    <3>6. CASE Refuse(r)             BY <3>6 DEF Refuse
    <3>7. CASE Escape(r)             BY <3>7 DEF Escape
    <3>8. CASE GiveUpResources(r)    BY <3>8 DEF GiveUpResources
    <3>8a. CASE AskAgain(r)          BY <3>8a DEF AskAgain
    <3>9. CASE Reserve(r)            BY <3>9 DEF Reserve
    <3>10. CASE Stage(r)             BY <3>10 DEF Stage
    <3>11. CASE LaunchFails(r)       BY <3>11 DEF LaunchFails
    <3>11a. CASE Failing(r)          BY <3>11a DEF Failing
    <3>12. CASE Spawn(r)             BY <3>12 DEF Spawn
    <3>13. CASE RecordEngine(r)      BY <3>13 DEF RecordEngine
    <3>14. CASE RecordEngineFails(r) BY <3>14 DEF RecordEngineFails
    <3>15. CASE EngineDone(r)        BY <3>15 DEF EngineDone
    <3>15a. CASE CollectFails(r)     BY <3>15a DEF CollectFails
    <3>16. CASE CollectIncomplete(r)
      <4>1. PICK l \in {listing[r], "partial"} :
               /\ listing' = [listing EXCEPT ![r] = l]
               /\ wpc[r] = "collect" /\ Step(r, "incomplete") /\ UNCHANGED status
        BY <3>16 DEF CollectIncomplete
      <4>2. QED BY <4>1
    <3>16a. CASE FailIncomplete(r)   BY <3>16a DEF FailIncomplete
    <3>17. CASE CollectComplete(r)   BY <3>17 DEF CollectComplete
    <3>18. CASE Publish(r)           BY <3>18 DEF Publish
    <3>19. CASE LeaveTry(r)          BY <3>19 DEF LeaveTry
    <3>19a. CASE EnterFinally(r)     BY <3>19a DEF EnterFinally
    <3>20. CASE StopEngine(r)        BY <3>20 DEF StopEngine
    <3>21. CASE Salvage(r)           BY <3>21 DEF Salvage
    <3>22. CASE Relist(r)
      <4>1. PICK l \in {listing[r], "partial", "full"} :
               /\ listing' = [listing EXCEPT ![r] = l]
               /\ wpc[r] = "relist" /\ Step(r, "finish") /\ UNCHANGED status
        BY <3>22 DEF Relist
      <4>2. QED BY <4>1
    <3>22a. CASE ReleaseResources(r) BY <3>22a DEF ReleaseResources
    <3>23. CASE Finish(r)            BY <3>23 DEF Finish
    <3>24. QED BY <2>1, <3>1, <3>2, <3>3, <3>4, <3>5, <3>6, <3>7, <3>8, <3>8a, <3>9,
                  <3>10, <3>11, <3>11a, <3>12, <3>13, <3>14, <3>15, <3>15a, <3>16, <3>16a, <3>17,
                  <3>18, <3>19, <3>19a, <3>20, <3>21, <3>22, <3>22a, <3>23 DEF WorkerStep
  <2>2. ASSUME NEW c \in Clients, ClientStep(c) \/ ClientCrash(c) PROVE ListedInv'
    <3>1. CASE StartWorker(c)   BY <3>1 DEF StartWorker, StartInv
    <3>2. CASE RecordWorker(c)  BY <3>2 DEF RecordWorker
    <3>3. CASE Look(c)          BY <3>3 DEF Look, ReadStatus, ReadRecord, LookForWorker, CheckAge
    <3>4. CASE Reap(c)          BY <3>4 DEF Reap, Active
    <3>5. CASE Mark(c)          BY <3>5 DEF Mark, Active
    <3>6. CASE Signal(c)        BY <3>6 DEF Signal, Sigterm, Unarmed, Armed, Deaf
    <3>7. CASE WorkerEnded(c)   BY <3>7 DEF WorkerEnded
    <3>8. CASE KillWorker(c)    BY <3>8 DEF KillWorker
    <3>9. CASE SweepEngine(c)   BY <3>9 DEF SweepEngine
    <3>10. CASE ClientCrash(c)  BY <3>10 DEF ClientCrash
    <3>11. QED BY <2>2, <3>1, <3>2, <3>3, <3>4, <3>5, <3>6, <3>7, <3>8, <3>9,
                  <3>10 DEF ClientStep
  <2>3. ASSUME NEW c \in Clients, NEW r \in Runs,
               Submit(c, r) \/ (\E o \in Ops : Request(c, o, r))
        PROVE  ListedInv'
    BY <2>3 DEF Submit, Request, CreateRun, StartInv
  <2>4. ASSUME NEW r \in Runs, Environment(r) PROVE ListedInv'
    <3>1. CASE UNCHANGED <<status, listing, wpc>>
      BY <3>1
    <3>2. CASE StraySigterm(r) /\ UNCHANGED clientVars
      BY <3>2 DEF StraySigterm, Sigterm, Unarmed, Armed, Deaf
    <3>3. CASE Crash(r) /\ UNCHANGED clientVars
      BY <3>3 DEF Crash
    <3>4. QED BY <2>4, <3>1, <3>2, <3>3 DEF Environment, EngineExit, Age
  <2>5. CASE UNCHANGED vars
    BY <2>5 DEF vars
  <2>6. QED BY <2>1, <2>2, <2>3, <2>4, <2>5, NextCases
<1>3. ListedInv => RenderedIsListed
  BY DEF ListedInv, RenderedIsListed
<1>4. QED BY <1>1, <1>2, <1>3, TypeCorrect, StartInvariant, PTL DEF Spec
-----------------------------------------------------------------------------
(* Slots and engines, when no worker crashes, no exception escapes main     *)
(* (both leave an engine behind) and no canceller dies.                     *)

\* Where the worker of r is while it holds a slot lock.
Holding == {"claim", "load", "reserve", "take", "spawned", "stage", "failing", "leaving"} \cup Armed \cup Deaf

\* A step keeps the state of a cancelled run.
LEMMA CancelledStays ==
  ASSUME TypeOK, [Lifecycle!Next]_status, NEW r \in Runs, status[r] = "cancelled"
  PROVE  status'[r] = "cancelled"
  BY DEF TypeOK, StoreTypeOK, Lifecycle!Next, Lifecycle!Submit, Lifecycle!Start,
         Lifecycle!Render, Lifecycle!Abandon, Lifecycle!Active, Lifecycle!Absent

\* EngineHoldsSlot made inductive: a slot lock has one holder, an engine is
\* alive only while its worker launches it, waits for it or stops it, or once
\* the cancel_run of its run has killed that worker; and cancel_run signals and
\* waits only after it has cancelled the run.
SlotInv ==
  /\ \A r \in Runs : wpc[r] \in Holding => slotOf[r] \in Slots
  /\ \A q, r \in Runs : q # r /\ slotOf[q] = slotOf[r] => slotOf[q] = NoSlot
  /\ \A r \in Runs : eng[r] = "alive" =>
       wpc[r] \in {"spawned", "wait", "stopping"} \/ Abandoned(r)
  /\ \A c \in Clients : At(c, "signal") \/ At(c, "await") => status[target[c]] = "cancelled"

\* While its worker is gone for good, an abandoned engine stays one.
LEMMA AbandonedStays ==
  ASSUME TypeOK, [Lifecycle!Next]_status, NEW r \in Runs, Abandoned(r),
         wpc'[r] = "gone", engineRec'[r] = engineRec[r],
         \A c \in Clients : At(c, "sweep") /\ target[c] = r
                              => cpc'[c] = "sweep" /\ target'[c] = r
  PROVE  Abandoned(r)'
  BY CancelledStays DEF Abandoned

LEMMA SlotInvariant ==
  ASSUME Faults \cap {"crash", "raise", "client"} = {}
  PROVE  Spec => []SlotInv
<1>1. Init => SlotInv
  BY DEF Init, StoreInit, WorkerInit, SlotInv, Holding, Armed, Deaf
<1>2. TypeOK /\ StartInv /\ SlotInv /\ [Next]_vars /\ [Lifecycle!Next]_status => SlotInv'
  <2> SUFFICES ASSUME TypeOK, StartInv, SlotInv, [Next]_vars, [Lifecycle!Next]_status
               PROVE  SlotInv'
    OBVIOUS
  <2> USE SlotsAssumption
      DEF TypeOK, StoreTypeOK, WorkerTypeOK, SlotInv, UpdateStatus, Holding,
          Unarmed, Armed, Deaf, WorkerAlive
  <2>1. ASSUME NEW r \in Runs, WorkerStep(r) /\ UNCHANGED clientVars PROVE SlotInv'
    <3>0. \A q \in Runs : Abandoned(q) => Abandoned(q)'
      BY <2>1, WorkerFrame, AbandonedStays DEF Abandoned
    <3>1. CASE Boot(r)               BY <2>1, <3>0, <3>1 DEF Boot
    <3>2. CASE GiveUpSlot(r)         BY <2>1, <3>0, <3>2 DEF GiveUpSlot
    <3>3. CASE \E s \in Slots : TakeSlot(r, s)  BY <2>1, <3>0, <3>3 DEF TakeSlot, SlotFree
    <3>4. CASE Claim(r)              BY <2>1, <3>0, <3>4 DEF Claim
    <3>5. CASE Load(r)               BY <2>1, <3>0, <3>5 DEF Load
    <3>6. CASE Refuse(r)             BY <2>1, <3>0, <3>6 DEF Refuse
    <3>7. CASE Escape(r)             BY <2>1, <3>0, <3>7 DEF Escape
    <3>8. CASE GiveUpResources(r)    BY <2>1, <3>0, <3>8 DEF GiveUpResources
    <3>8a. CASE AskAgain(r)          BY <2>1, <3>0, <3>8a DEF AskAgain
    <3>9. CASE Reserve(r)            BY <2>1, <3>0, <3>9 DEF Reserve
    <3>10. CASE Stage(r)             BY <2>1, <3>0, <3>10 DEF Stage
    <3>11. CASE LaunchFails(r)       BY <2>1, <3>0, <3>11 DEF LaunchFails
    <3>11a. CASE Failing(r)          BY <2>1, <3>0, <3>11a DEF Failing
    <3>12. CASE Spawn(r)             BY <2>1, <3>0, <3>12 DEF Spawn
    <3>13. CASE RecordEngine(r)      BY <2>1, <3>0, <3>13 DEF RecordEngine
    <3>14. CASE RecordEngineFails(r) BY <2>1, <3>0, <3>14 DEF RecordEngineFails
    <3>15. CASE EngineDone(r)        BY <2>1, <3>0, <3>15 DEF EngineDone
    <3>15a. CASE CollectFails(r)     BY <2>1, <3>0, <3>15a DEF CollectFails
    <3>16. CASE CollectIncomplete(r) BY <2>1, <3>0, <3>16 DEF CollectIncomplete
    <3>16a. CASE FailIncomplete(r)   BY <2>1, <3>0, <3>16a DEF FailIncomplete
    <3>17. CASE CollectComplete(r)   BY <2>1, <3>0, <3>17 DEF CollectComplete
    <3>18. CASE Publish(r)           BY <2>1, <3>0, <3>18 DEF Publish
    <3>19. CASE LeaveTry(r)          BY <2>1, <3>0, <3>19 DEF LeaveTry
    <3>19a. CASE EnterFinally(r)     BY <2>1, <3>0, <3>19a DEF EnterFinally
    <3>20. CASE StopEngine(r)        BY <2>1, <3>0, <3>20 DEF StopEngine
    <3>21. CASE Salvage(r)           BY <2>1, <3>0, <3>21 DEF Salvage
    <3>22. CASE Relist(r)            BY <2>1, <3>0, <3>22 DEF Relist
    <3>22a. CASE ReleaseResources(r) BY <2>1, <3>0, <3>22a DEF ReleaseResources
    <3>23. CASE Finish(r)            BY <2>1, <3>0, <3>23 DEF Finish
    <3>24. QED BY <2>1, <3>1, <3>2, <3>3, <3>4, <3>5, <3>6, <3>7, <3>8, <3>8a, <3>9,
                  <3>10, <3>11, <3>11a, <3>12, <3>13, <3>14, <3>15, <3>15a, <3>16, <3>16a, <3>17,
                  <3>18, <3>19, <3>19a, <3>20, <3>21, <3>22, <3>22a, <3>23 DEF WorkerStep
  <2>2. ASSUME NEW c \in Clients, ClientStep(c) \/ ClientCrash(c) PROVE SlotInv'
    <3>0. ASSUME ~At(c, "sweep"), NEW q \in Runs, Abandoned(q) PROVE Abandoned(q)'
      <4>1. wpc'[q] = "gone"
        BY <2>2, <3>0 DEF Abandoned, StartInv, ClientStep, ClientCrash, StartWorker, RecordWorker,
             Look, ReadStatus, ReadRecord, LookForWorker, CheckAge, Reap, Mark, Signal,
             Sigterm, WorkerEnded, KillWorker, SweepEngine
      <4>2. engineRec' = engineRec
        BY <2>2 DEF ClientStep, ClientCrash, StartWorker, RecordWorker,
             Look, ReadStatus, ReadRecord, LookForWorker, CheckAge, Reap, Mark, Signal,
             WorkerEnded, KillWorker, SweepEngine
      <4>3. \A d \in Clients \ {c} : cpc'[d] = cpc[d] /\ target'[d] = target[d]
        BY <2>2 DEF ClientStep, ClientCrash, StartWorker, RecordWorker,
             Look, ReadStatus, ReadRecord, LookForWorker, CheckAge, Reap, Mark, Signal,
             WorkerEnded, KillWorker, SweepEngine
      <4>4. QED BY <3>0, <4>1, <4>2, <4>3, AbandonedStays
    <3>1. CASE StartWorker(c)   BY <3>0, <3>1 DEF StartWorker, StartInv
    <3>2. CASE RecordWorker(c)  BY <3>0, <3>2 DEF RecordWorker
    <3>3. CASE Look(c)          BY <3>0, <3>3 DEF Look, ReadStatus, ReadRecord, LookForWorker, CheckAge
    <3>4. CASE Reap(c)          BY <3>0, <3>4 DEF Reap, Active
    <3>5. CASE Mark(c)          BY <3>0, <3>5 DEF Mark, Active
    <3>6. CASE Signal(c)
      <4>1. CASE Sigterm(target[c]) /\ Move(c, "await") /\ workerRec[target[c]]
        BY <3>0, <3>6, <4>1, SMTT(30) DEF Signal, Sigterm, StartInv
      <4>2. CASE UNCHANGED workerVars /\ Move(c, "sweep")
        BY <3>0, <3>6, <4>2 DEF Signal
      <4>3. QED BY <3>6, <4>1, <4>2 DEF Signal
    <3>7. CASE WorkerEnded(c)   BY <3>0, <3>7 DEF WorkerEnded
    <3>8. CASE KillWorker(c)
      <4>1. Abandoned(target[c])'
        BY <3>8 DEF KillWorker, Abandoned
      <4>2. QED BY <3>0, <3>8, <4>1 DEF KillWorker
    <3>9. CASE SweepEngine(c)
      <4>1. ASSUME NEW q \in Runs, Abandoned(q), eng'[q] = "alive" PROVE Abandoned(q)'
        BY <3>9, <4>1 DEF SweepEngine, Abandoned
      <4>2. QED BY <3>9, <4>1 DEF SweepEngine
    <3>10. CASE ClientCrash(c)  BY <3>10 DEF ClientCrash
    <3>11. QED BY <2>2, <3>1, <3>2, <3>3, <3>4, <3>5, <3>6, <3>7, <3>8, <3>9,
                  <3>10 DEF ClientStep
  <2>3. ASSUME NEW c \in Clients, NEW r \in Runs,
               Submit(c, r) \/ (\E o \in Ops : Request(c, o, r))
        PROVE  SlotInv'
    <3>0. ASSUME NEW q \in Runs, Abandoned(q) PROVE Abandoned(q)'
      <4>1. wpc'[q] = "gone"
        BY <2>3, <3>0 DEF Abandoned, Submit, Request
      <4>2. engineRec'[q] = engineRec[q]
        BY <2>3, <3>0 DEF Submit, Request, CreateRun
      <4>3. ASSUME NEW d \in Clients, At(d, "sweep") PROVE cpc'[d] = cpc[d] /\ target'[d] = target[d]
        BY <2>3, <4>3 DEF Submit, Request
      <4>4. QED BY <3>0, <4>1, <4>2, <4>3, AbandonedStays
    <3>1. CASE Submit(c, r)
      BY <3>0, <3>1 DEF Submit, CreateRun, StartInv
    <3>2. ASSUME NEW o \in Ops, Request(c, o, r) PROVE SlotInv'
      BY <3>0, <3>2 DEF Request
    <3>3. QED BY <2>3, <3>1, <3>2
  <2>4. ASSUME NEW r \in Runs, Environment(r) PROVE SlotInv'
    <3>0. ASSUME NEW q \in Runs, Abandoned(q) PROVE Abandoned(q)'
      BY <2>4, <3>0, AbandonedStays
      DEF Abandoned, Environment, EngineExit, StraySigterm, Sigterm, Crash, Age
    <3>1. CASE EngineExit(r) /\ UNCHANGED clientVars   BY <3>0, <3>1 DEF EngineExit
    <3>2. CASE StraySigterm(r) /\ UNCHANGED clientVars BY <3>0, <3>2 DEF StraySigterm, Sigterm
    <3>3. CASE Crash(r)                                BY <3>3 DEF Crash
    <3>4. CASE Age(r)                                  BY <3>0, <3>4 DEF Age
    <3>5. QED BY <2>4, <3>1, <3>2, <3>3, <3>4 DEF Environment
  <2>5. CASE UNCHANGED vars
    BY <2>5 DEF vars, Abandoned
  <2>6. QED BY <2>1, <2>2, <2>3, <2>4, <2>5, NextCases
<1>3. QED 
  BY <1>1, <1>2, TypeCorrect, StartInvariant, ImplementsLifecycle, PTL
  DEF Spec, LifecycleSpec, Lifecycle!Spec

\* An engine runs only while its worker holds a slot, or in the time between the
\* SIGKILL and the last step of the cancel_run of its run, or unrecorded.
THEOREM EnginesHoldSlots ==
  ASSUME Faults \cap {"crash", "raise", "client"} = {}
  PROVE  Spec => []EngineHoldsSlot
<1>1. SlotInv => EngineHoldsSlot
  BY DEF SlotInv, EngineHoldsSlot, Holding, Armed, Deaf
<1>2. QED BY <1>1, SlotInvariant, PTL

\* At most max_parallel engines run at once, for any number of runs, slots
\* and calls, beside those whose worker a cancel_run had to kill: the engines
\* map one to one to the slots their workers hold.
THEOREM ParallelBounded ==
  ASSUME Faults \cap {"crash", "raise", "client"} = {}
  PROVE  Spec => []AtMostMaxParallel
<1>1. SlotInv => AtMostMaxParallel
  <2> SUFFICES ASSUME SlotInv PROVE AtMostMaxParallel
    OBVIOUS
  <2> DEFINE Live == {r \in Runs : eng[r] = "alive" /\ ~Abandoned(r)}
             f == [r \in Live |-> slotOf[r]]
  <2>1. \A r \in Live : slotOf[r] \in Slots
    BY DEF SlotInv, Holding, Armed, Deaf
  <2>2. \A q, r \in Live : slotOf[q] = slotOf[r] => q = r
    BY <2>1, SlotsAssumption DEF SlotInv
  <2>3. f \in Injection(Live, Slots)
    BY <2>1, <2>2 DEF Injection, IsInjective
  <2>4. QED BY <2>3, FS_Injection, SlotsAssumption DEF AtMostMaxParallel
<1>2. QED BY <1>1, SlotInvariant, PTL
-----------------------------------------------------------------------------
(* cancel_run stops what it cancels.                                       *)

\* CancelledIsStopped made inductive: a worker passes its first step only
\* with a record; a cancelled run that cancel_run has dealt with has no worker,
\* or one that will give up when it asks for a slot, and no recorded engine.
CancelInv ==
  /\ \A r \in Runs : ~workerRec[r] => wpc[r] \in {"none", "boot", "gone"}
  /\ \A c \in Clients :
       At(c, "signal") \/ At(c, "await") \/ At(c, "sweep") => status[target[c]] = "cancelled"
  /\ \A c \in Clients : At(c, "sweep") =>
       wpc[target[c]] \in {"none", "boot", "slot", "gone"}
  /\ \A r \in acked : /\ status[r] = "cancelled"
                      /\ wpc[r] \in {"none", "boot", "slot", "gone"}
                      /\ engineRec[r] => eng[r] # "alive"

\* A worker of a cancelled run that has no slot yet gets none.
LEMMA NoSlotWhenCancelled ==
  ASSUME NEW r \in Runs, TypeOK, WorkerStep(r), status[r] = "cancelled",
         wpc[r] \in {"none", "boot", "slot", "gone"}
  PROVE  wpc'[r] \in {"none", "boot", "slot", "gone"} /\ UNCHANGED <<engineRec, eng>>
<1> USE DEF TypeOK, WorkerTypeOK
<1>1. Boot(r) \/ GiveUpSlot(r) \/ \E s \in Slots : TakeSlot(r, s)
  BY DEF WorkerStep, Boot, GiveUpSlot, TakeSlot, Claim, Load, Refuse, Escape,
         GiveUpResources, AskAgain, Reserve, Stage, LaunchFails, Failing, Spawn, RecordEngine,
         RecordEngineFails, EngineDone, CollectFails, CollectIncomplete, FailIncomplete,
         CollectComplete, Publish, LeaveTry, EnterFinally, StopEngine, Salvage, Relist,
         ReleaseResources, Finish
<1>2. QED BY <1>1 DEF Boot, GiveUpSlot, TakeSlot

\* Once a cancel_run that cancelled the run has returned, the run's recorded
\* engine is not running and never will be, whichever faults happen.
THEOREM CancelStops == Spec => []CancelledIsStopped
<1>1. Init => CancelInv
  BY DEF Init, StoreInit, WorkerInit, CancelInv
<1>2. TypeOK /\ StartInv /\ CancelInv /\ [Next]_vars /\ [Lifecycle!Next]_status
        => CancelInv'
  <2> SUFFICES ASSUME TypeOK, StartInv, CancelInv, [Next]_vars,
                      [Lifecycle!Next]_status
               PROVE  CancelInv'
    OBVIOUS
  <2> USE DEF TypeOK, StoreTypeOK, WorkerTypeOK, CancelInv
  <2>0. \A r \in Runs : status[r] = "cancelled" => status'[r] = "cancelled"
    BY CancelledStays
  <2>1. ASSUME NEW r \in Runs, WorkerStep(r) /\ UNCHANGED clientVars PROVE CancelInv'
    <3>1. status[r] = "cancelled" /\ wpc[r] \in {"none", "boot", "slot", "gone"}
            => wpc'[r] \in {"none", "boot", "slot", "gone"} /\ UNCHANGED <<engineRec, eng>>
      BY <2>1, NoSlotWhenCancelled
    <3>2. QED BY <2>0, <2>1, <3>1, WorkerFrame DEF WorkerAlive
  <2>2. ASSUME NEW c \in Clients, ClientStep(c) \/ ClientCrash(c) PROVE CancelInv'
    <3>1. CASE StartWorker(c)   BY <2>0, <3>1 DEF StartWorker, StartInv
    <3>2. CASE RecordWorker(c)  BY <2>0, <3>2 DEF RecordWorker
    <3>3. CASE Look(c)          BY <2>0, <3>3 DEF Look, ReadStatus, ReadRecord, LookForWorker, CheckAge
    <3>4. CASE Reap(c)          BY <2>0, <3>4 DEF Reap
    <3>5. CASE Mark(c)          BY <2>0, <3>5 DEF Mark, UpdateStatus, Active
    <3>6. CASE Signal(c)
      <4>1. CASE Sigterm(target[c]) /\ Move(c, "await") /\ workerRec[target[c]]
        BY <2>0, <3>6, <4>1 DEF Signal, Sigterm, Unarmed, Armed, Deaf
      <4>2. CASE UNCHANGED workerVars /\ Move(c, "sweep") /\ ~workerRec[target[c]]
        BY <2>0, <3>6, <4>2 DEF Signal
      <4>3. QED BY <3>6, <4>1, <4>2 DEF Signal
    <3>7. CASE WorkerEnded(c)   BY <2>0, <3>7 DEF WorkerEnded, WorkerAlive
    <3>8. CASE KillWorker(c)    BY <2>0, <3>8 DEF KillWorker
    <3>9. CASE SweepEngine(c)   BY <2>0, <3>9 DEF SweepEngine
    <3>10. CASE ClientCrash(c)  BY <2>0, <3>10 DEF ClientCrash
    <3>11. QED BY <2>2, <3>1, <3>2, <3>3, <3>4, <3>5, <3>6, <3>7, <3>8, <3>9,
                  <3>10 DEF ClientStep
  <2>3. ASSUME NEW c \in Clients, NEW r \in Runs,
               Submit(c, r) \/ (\E o \in Ops : Request(c, o, r))
        PROVE  CancelInv'
    BY <2>0, <2>3 DEF Submit, Request, CreateRun
  <2>4. ASSUME NEW r \in Runs, Environment(r) PROVE CancelInv'
    <3>1. CASE EngineExit(r) /\ UNCHANGED clientVars   BY <2>0, <3>1 DEF EngineExit
    <3>2. CASE StraySigterm(r) /\ UNCHANGED clientVars
      BY <2>0, <3>2 DEF StraySigterm, Sigterm, Unarmed, Armed, Deaf
    <3>3. CASE Crash(r) /\ UNCHANGED clientVars        BY <2>0, <3>3 DEF Crash
    <3>4. CASE Age(r)                                  BY <2>0, <3>4 DEF Age
    <3>5. QED BY <2>4, <3>1, <3>2, <3>3, <3>4 DEF Environment
  <2>5. CASE UNCHANGED vars
    BY <2>5 DEF vars
  <2>6. QED BY <2>1, <2>2, <2>3, <2>4, <2>5, NextCases
<1>3. CancelInv => CancelledIsStopped
  BY DEF CancelInv, CancelledIsStopped
<1>4. QED
  BY <1>1, <1>2, <1>3, TypeCorrect, StartInvariant, ImplementsLifecycle, PTL
  DEF Spec, LifecycleSpec, Lifecycle!Spec
-----------------------------------------------------------------------------
(* reap fails no run whose worker lives.                                   *)

\* Nobody will start a worker for r any more.
Stranded(r) ==
  \/ wpc[r] = "gone"
  \/ wpc[r] = "none" /\ \A d \in Clients : At(d, "start") => target[d] # r

\* What a reader knows on its way to reap, when it writes, when it has seen no
\* record and looks at the clock, and when it looks for a recorded process: the
\* worker is gone, or there is none and nobody is about to start one.
ReapInv ==
  /\ \A r \in Runs : ~workerRec[r] => wpc[r] \in {"none", "boot", "gone"}
  /\ \A r \in Runs : old[r] /\ ~workerRec[r] => ~Starting(r)
  /\ \A c \in Clients : At(c, "reap") => Stranded(target[c])
  /\ \A c \in Clients : At(c, "age") /\ old[target[c]] => Stranded(target[c])
  /\ \A c \in Clients : At(c, "probe") => wpc[target[c]] # "none"

LEMMA ReapInvariant ==
  ASSUME PromptStart, PromptRead
  PROVE  Spec => []ReapInv
<1>1. Init => ReapInv
  BY DEF Init, StoreInit, WorkerInit, ReapInv
<1>2. TypeOK /\ StartInv /\ ReapInv /\ [Next]_vars => ReapInv'
  <2> SUFFICES ASSUME TypeOK, StartInv, ReapInv, [Next]_vars
               PROVE  ReapInv'
    OBVIOUS
  <2> USE DEF TypeOK, StoreTypeOK, WorkerTypeOK, ReapInv, Starting, Stranded
  <2>1. ASSUME NEW r \in Runs, WorkerStep(r) /\ UNCHANGED clientVars PROVE ReapInv'
    BY <2>1, WorkerFrame DEF WorkerAlive
  <2>2. ASSUME NEW c \in Clients, ClientStep(c) \/ ClientCrash(c) PROVE ReapInv'
    <3>1. CASE StartWorker(c)   BY <3>1 DEF StartWorker, StartInv
    <3>2. CASE RecordWorker(c)  BY <3>2 DEF RecordWorker
    <3>3. CASE Look(c)
      <4>1. CASE ReadStatus(c)     BY <4>1 DEF ReadStatus
      <4>2. CASE ReadRecord(c)     BY <4>2 DEF ReadRecord, StartInv
      <4>3. CASE LookForWorker(c)  BY <4>3 DEF LookForWorker, WorkerAlive
      <4>4. CASE CheckAge(c)       BY <4>4 DEF CheckAge
      <4>5. QED BY <3>3, <4>1, <4>2, <4>3, <4>4 DEF Look
    <3>4. CASE Reap(c)          BY <3>4 DEF Reap
    <3>5. CASE Mark(c)          BY <3>5 DEF Mark
    <3>6. CASE Signal(c)        BY <3>6 DEF Signal, Sigterm, Unarmed, Armed, Deaf
    <3>7. CASE WorkerEnded(c)   BY <3>7 DEF WorkerEnded
    <3>8. CASE KillWorker(c)    BY <3>8 DEF KillWorker
    <3>9. CASE SweepEngine(c)   BY <3>9 DEF SweepEngine
    <3>10. CASE ClientCrash(c)  BY <3>10 DEF ClientCrash
    <3>11. QED BY <2>2, <3>1, <3>2, <3>3, <3>4, <3>5, <3>6, <3>7, <3>8, <3>9,
                  <3>10 DEF ClientStep
  <2>3. ASSUME NEW c \in Clients, NEW r \in Runs,
               Submit(c, r) \/ (\E o \in Ops : Request(c, o, r))
        PROVE  ReapInv'
    <3>1. CASE Submit(c, r)
      BY <3>1 DEF Submit, CreateRun, StartInv
    <3>2. ASSUME NEW o \in Ops, Request(c, o, r) PROVE ReapInv'
      BY <3>2 DEF Request
    <3>3. QED BY <2>3, <3>1, <3>2
  <2>4. ASSUME NEW r \in Runs, Environment(r) PROVE ReapInv'
    <3>1. CASE EngineExit(r) /\ UNCHANGED clientVars   BY <3>1 DEF EngineExit
    <3>2. CASE StraySigterm(r) /\ UNCHANGED clientVars
      BY <3>2 DEF StraySigterm, Sigterm, Unarmed, Armed, Deaf
    <3>3. CASE Crash(r) /\ UNCHANGED clientVars        BY <3>3 DEF Crash
    <3>4. CASE Age(r)                                  BY <3>4 DEF Age
    <3>5. QED BY <2>4, <3>1, <3>2, <3>3, <3>4 DEF Environment
  <2>5. CASE UNCHANGED vars
    BY <2>5 DEF vars
  <2>6. QED BY <2>1, <2>2, <2>3, <2>4, <2>5, NextCases
<1>3. QED BY <1>1, <1>2, TypeCorrect, StartInvariant, PTL DEF Spec

\* When every worker is recorded within WORKER_GRACE_S of its submission, and
\* this time never runs out between a reader's look at the record and its look at
\* the clock, reap never fails a run whose worker lives, although it reads the
\* state, the record, the process and the clock one after the other and writes
\* later.  (Without the second premise it does: run LB_reap.)
THEOREM ReapsOnlyTheDead ==
  ASSUME PromptStart, PromptRead
  PROVE  Spec => ReapsOnlyDead
<1> DEFINE Found == \A c \in Clients, r \in Runs :
                      /\ cpc[c] = "reap" /\ cpc'[c] # "reap"
                      /\ target[c] = r /\ status'[r] # status[r]
                      => ~WorkerAlive(r)
<1>1. ReapInv /\ [Next]_vars => [Found]_vars
  BY DEF ReapInv, Stranded, WorkerAlive
<1>2. QED BY <1>1, ReapInvariant, PTL DEF Spec, ReapsOnlyDead
-----------------------------------------------------------------------------
(* Devices, when nobody cancels (with cancellation: LB_capacity).          *)

\* EnginesDisjoint made inductive: from its grant to the end of its engine a
\* run is `running` and its reservation stands, so no ledger poll drops it.
GrantInv ==
  \A r \in Runs :
    /\ wpc[r] \in {"load", "reserve", "take"} => status[r] = "running"
    /\ wpc[r] \in {"stage", "launch", "spawned"} \/ eng[r] = "alive"
         => status[r] = "running" /\ r \in reserved
    /\ eng[r] = "alive" => wpc[r] \in {"spawned", "wait", "stopping"}

\* Two live engines never share an exclusive device.
THEOREM DevicesExclusive ==
  ASSUME "cancel" \notin Ops, PromptStart, PromptRead, Faults \cap {"crash", "raise"} = {}
  PROVE  Spec => []EnginesDisjoint
<1> DEFINE NoCancel == \A c \in Clients :
                          op[c] # "cancel" /\ cpc[c] \notin {"mark", "signal", "await", "sweep"}
           Inv == GrantInv /\ NoCancel
<1>1. Init => Inv
  BY DEF Init, StoreInit, WorkerInit, GrantInv
<1>2. TypeOK /\ StartInv /\ ReapInv /\ Inv /\ [Next]_vars => Inv'
  <2> SUFFICES ASSUME TypeOK, StartInv, ReapInv, Inv, [Next]_vars
               PROVE  Inv'
    OBVIOUS
  <2> USE DEF TypeOK, StoreTypeOK, WorkerTypeOK, GrantInv, UpdateStatus
  <2>1. ASSUME NEW r \in Runs, WorkerStep(r) /\ UNCHANGED clientVars PROVE Inv'
    <3>1. CASE Boot(r)               BY <2>1, <3>1 DEF Boot
    <3>2. CASE GiveUpSlot(r)         BY <2>1, <3>2 DEF GiveUpSlot
    <3>3. CASE \E s \in Slots : TakeSlot(r, s)  BY <2>1, <3>3 DEF TakeSlot
    <3>4. CASE Claim(r)              BY <2>1, <3>4 DEF Claim
    <3>5. CASE Load(r)               BY <2>1, <3>5 DEF Load
    <3>6. CASE Refuse(r)             BY <2>1, <3>6 DEF Refuse
    <3>7. CASE Escape(r)             BY <2>1, <3>7 DEF Escape
    <3>8. CASE GiveUpResources(r)    BY <2>1, <3>8 DEF GiveUpResources
    <3>8a. CASE AskAgain(r)          BY <2>1, <3>8a DEF AskAgain
    <3>9. CASE Reserve(r)
      <4>1. \A q \in Runs \ {r} : q \in reserved /\ status[q] = "running" => q \in reserved'
        BY <3>9 DEF Reserve, Kept, Active
      <4>2. wpc[r] = "take" /\ status[r] = "running" /\ UNCHANGED <<status, eng>>
        BY <3>9 DEF Reserve
      <4>3. wpc' = [wpc EXCEPT ![r] = "reserve"] \/ (wpc' = [wpc EXCEPT ![r] = "stage"] /\ r \in reserved')
        BY <3>9 DEF Reserve
      <4>4. GrantInv'
        BY <4>1, <4>2, <4>3
      <4>5. QED BY <2>1, <4>4
    <3>10. CASE Stage(r)             BY <2>1, <3>10 DEF Stage
    <3>11. CASE LaunchFails(r)       BY <2>1, <3>11 DEF LaunchFails
    <3>11a. CASE Failing(r)          BY <2>1, <3>11a DEF Failing
    <3>12. CASE Spawn(r)             BY <2>1, <3>12 DEF Spawn
    <3>13. CASE RecordEngine(r)      BY <2>1, <3>13 DEF RecordEngine
    <3>14. CASE RecordEngineFails(r) BY <2>1, <3>14 DEF RecordEngineFails
    <3>15. CASE EngineDone(r)        BY <2>1, <3>15 DEF EngineDone
    <3>15a. CASE CollectFails(r)     BY <2>1, <3>15a DEF CollectFails
    <3>16. CASE CollectIncomplete(r) BY <2>1, <3>16 DEF CollectIncomplete
    <3>16a. CASE FailIncomplete(r)   BY <2>1, <3>16a DEF FailIncomplete
    <3>17. CASE CollectComplete(r)   BY <2>1, <3>17 DEF CollectComplete
    <3>18. CASE Publish(r)           BY <2>1, <3>18 DEF Publish
    <3>19. CASE LeaveTry(r)          BY <2>1, <3>19 DEF LeaveTry
    <3>19a. CASE EnterFinally(r)     BY <2>1, <3>19a DEF EnterFinally
    <3>20. CASE StopEngine(r)        BY <2>1, <3>20 DEF StopEngine
    <3>21. CASE Salvage(r)           BY <2>1, <3>21 DEF Salvage
    <3>22. CASE Relist(r)            BY <2>1, <3>22 DEF Relist
    <3>22a. CASE ReleaseResources(r) BY <2>1, <3>22a DEF ReleaseResources
    <3>23. CASE Finish(r)            BY <2>1, <3>23 DEF Finish
    <3>24. QED BY <2>1, <3>1, <3>2, <3>3, <3>4, <3>5, <3>6, <3>7, <3>8, <3>8a, <3>9,
                  <3>10, <3>11, <3>11a, <3>12, <3>13, <3>14, <3>15, <3>15a, <3>16, <3>16a, <3>17,
                  <3>18, <3>19, <3>19a, <3>20, <3>21, <3>22, <3>22a, <3>23 DEF WorkerStep
  <2>2. ASSUME NEW c \in Clients, ClientStep(c) \/ ClientCrash(c) PROVE Inv'
    <3>1. CASE StartWorker(c)   BY <3>1 DEF StartWorker, StartInv
    <3>2. CASE RecordWorker(c)  BY <3>2 DEF RecordWorker
    <3>3. CASE Look(c)          BY <3>3 DEF Look, ReadStatus, ReadRecord, LookForWorker, CheckAge
    <3>4. CASE Reap(c)          BY <3>4 DEF Reap, ReapInv, Stranded
    <3>5. CASE Signal(c)        BY <3>5 DEF Signal, Sigterm, Unarmed, Armed, Deaf
    <3>6. CASE WorkerEnded(c)   BY <3>6 DEF WorkerEnded
    <3>7. CASE KillWorker(c)    BY <3>7 DEF KillWorker
    <3>8. CASE SweepEngine(c)   BY <3>8 DEF SweepEngine
    <3>9. CASE ClientCrash(c)   BY <3>9 DEF ClientCrash
    <3>10. QED BY <2>2, <3>1, <3>2, <3>3, <3>4, <3>5, <3>6, <3>7, <3>8, <3>9
              DEF ClientStep, Mark
  <2>3. ASSUME NEW c \in Clients, NEW r \in Runs,
               Submit(c, r) \/ (\E o \in Ops : Request(c, o, r))
        PROVE  Inv'
    BY <2>3 DEF Submit, Request, CreateRun, StartInv
  <2>4. ASSUME NEW r \in Runs, Environment(r) PROVE Inv'
    <3>1. CASE EngineExit(r) /\ UNCHANGED clientVars   BY <3>1 DEF EngineExit
    <3>2. CASE StraySigterm(r) /\ UNCHANGED clientVars
      BY <3>2 DEF StraySigterm, Sigterm, Unarmed, Armed, Deaf
    <3>3. CASE Crash(r)                                BY <3>3 DEF Crash
    <3>4. CASE Age(r)                                  BY <3>4 DEF Age
    <3>5. QED BY <2>4, <3>1, <3>2, <3>3, <3>4 DEF Environment
  <2>5. CASE UNCHANGED vars
    BY <2>5 DEF vars
  <2>6. QED BY <2>1, <2>2, <2>3, <2>4, <2>5, NextCases
<1>3. Inv /\ LedgerDisjoint => EnginesDisjoint
  BY DEF GrantInv, LedgerDisjoint, EnginesDisjoint
<1>4. QED
  BY <1>1, <1>2, <1>3, TypeCorrect, StartInvariant, ReapInvariant, LedgerStaysDisjoint, PTL
  DEF Spec
=============================================================================
