------------------------------- MODULE Sweep --------------------------------
(***************************************************************************)
(* submit_sweep, submit_run and get_sweep (backend.py) over the run store:  *)
(* a sweep is admitted as a whole, then its runs are created and started   *)
(* one by one, then the sweep record is written.  Calls overlap, die       *)
(* between any two of these steps and are made again; the files of the     *)
(* library, which admission and creation both read, may be edited between. *)
(***************************************************************************)
EXTENDS RunStore, SequencesExt

CONSTANTS
  Clients,        \* the calls that may be in progress at the same time
  Orders,         \* the recipes of the sweep: its runs, at least one, in the order
                  \* of the sensor list; the sweep id is that of the set of runs
  MaxCrashes,     \* how many calls may die
  MayEdit         \* whether the library may be edited

\* A sweep has at least one run (`product.sensors` is not empty).
ASSUME SweepAssumption == Orders \subseteq Seq(Runs) \ {<< >>} /\ MaxCrashes \in Nat

VARIABLES
  stamped,    \* stamped[r]: r's sensor file still has its stamped hash
  sweep,      \* run_ids of sweeps/<sweep_id>/sweep.json, << >> without it
  starts,     \* history: starts[r], how many workers were started for r
  stage,      \* stage[c]: the next step of call c
  kind,       \* kind[c]: sweep, run or get
  asked,      \* asked[c]: the runs the call was made for
  todo,       \* todo[c]: the runs call c has yet to go through
  ids,        \* ids[c]: the run ids it has so far
  failing,    \* failing[c]: the runs that failed admission
  outcome,    \* outcome[c]: how the last call of c ended
  made,       \* history: made[c], the runs the last call of c created
  crashes,    \* how many calls have died
  orphaned    \* history: the runs whose call died between creating and starting them

deathVars == <<crashes, orphaned>>
callVars == <<stage, kind, asked, todo, ids, failing, outcome, made>>
sweepVars == <<storeVars, stamped, sweep, starts, callVars, deathVars>>

SweepTypeOK ==
  /\ StoreTypeOK
  /\ stamped \in [Runs -> BOOLEAN]
  /\ sweep \in Seq(Runs)
  /\ starts \in [Runs -> Nat]
  /\ stage \in [Clients -> {"idle", "admit", "create", "start", "lookup", "read"}]
  /\ kind \in [Clients -> {"none", "sweep", "run", "get"}]
  /\ asked \in [Clients -> Seq(Runs)]
  /\ todo \in [Clients -> Seq(Runs)]
  /\ ids \in [Clients -> Seq(Runs)]
  /\ failing \in [Clients -> SUBSET Runs]
  /\ outcome \in [Clients -> {"none", "returned", "refused", "raised", "died"}]
  /\ made \in [Clients -> SUBSET Runs]
  /\ crashes \in 0 .. MaxCrashes
  /\ orphaned \in SUBSET Runs

SweepInit ==
  /\ StoreInit
  /\ stamped = [r \in Runs |-> TRUE]
  /\ sweep = << >>
  /\ starts = [r \in Runs |-> 0]
  /\ stage = [c \in Clients |-> "idle"]
  /\ kind = [c \in Clients |-> "none"]
  /\ asked = [c \in Clients |-> << >>]
  /\ todo = [c \in Clients |-> << >>]
  /\ ids = [c \in Clients |-> << >>]
  /\ failing = [c \in Clients |-> {}]
  /\ outcome = [c \in Clients |-> "none"]
  /\ made = [c \in Clients |-> {}]
  /\ crashes = 0
  /\ orphaned = {}

AtStage(c, label)   == stage[c] = label
GotoStage(c, label) == stage' = [stage EXCEPT ![c] = label]
\* The call ends; its working state is dropped.
End(c, how) ==
  /\ GotoStage(c, "idle")
  /\ outcome' = [outcome EXCEPT ![c] = how]
  /\ asked' = [asked EXCEPT ![c] = << >>]
  /\ todo' = [todo EXCEPT ![c] = << >>]
  /\ ids' = [ids EXCEPT ![c] = << >>]
  /\ failing' = [failing EXCEPT ![c] = {}]
  /\ UNCHANGED <<kind, made>>

Begin(c, k, runs, label) ==
  /\ AtStage(c, "idle")
  /\ GotoStage(c, label)
  /\ kind' = [kind EXCEPT ![c] = k]
  /\ asked' = [asked EXCEPT ![c] = runs]
  /\ todo' = [todo EXCEPT ![c] = runs]
  /\ outcome' = [outcome EXCEPT ![c] = "none"]
  /\ made' = [made EXCEPT ![c] = {}]
  /\ UNCHANGED <<ids, failing, storeVars, stamped, sweep, starts, deathVars>>

\* submit_sweep: a recipe of the sweep is composed.
SubmitSweep(c) == \E s \in Orders : Begin(c, "sweep", s, "admit")

\* submit_run of one run, which may belong to the sweep.
SubmitRun(c, r) == Begin(c, "run", <<r>>, "admit")

\* get_sweep.
GetSweep(c) == sweep # << >> /\ Begin(c, "get", << >>, "lookup")

\* The sweep's record is read, by get_sweep or at the end of submit_sweep.
Lookup(c) ==
  /\ AtStage(c, "lookup")
  /\ ids' = [ids EXCEPT ![c] = sweep]
  /\ GotoStage(c, "read")
  /\ UNCHANGED <<kind, asked, todo, failing, outcome, made, storeVars, stamped,
                 sweep, starts, deathVars>>

\* validate_spec of the next run.
AdmitNext(c) ==
  /\ AtStage(c, "admit") /\ todo[c] # << >>
  /\ todo' = [todo EXCEPT ![c] = Tail(@)]
  /\ failing' = [failing EXCEPT ![c] =
                   IF stamped[Head(todo[c])] THEN @ ELSE @ \cup {Head(todo[c])}]
  /\ UNCHANGED <<stage, kind, asked, ids, outcome, made, storeVars, stamped, sweep, starts, deathVars>>

\* AdmissionError: one error names every failing run.
RefuseAll(c) ==
  /\ AtStage(c, "admit") /\ todo[c] = << >> /\ failing[c] # {}
  /\ End(c, "refused")
  /\ UNCHANGED <<storeVars, stamped, sweep, starts, deathVars>>

\* Mutant of AdmitAll: the runs that passed are created all the same.
AdmitSome(c) ==
  /\ AtStage(c, "admit") /\ todo[c] = << >>
  /\ todo' = [todo EXCEPT ![c] = asked[c]]
  /\ outcome' = [outcome EXCEPT ![c] = IF failing[c] = {} THEN @ ELSE "refused"]
  /\ GotoStage(c, "create")
  /\ UNCHANGED <<kind, asked, ids, failing, made, storeVars, stamped, sweep, starts, deathVars>>

\* Every run was admitted.
AdmitAll(c) ==
  /\ AtStage(c, "admit") /\ todo[c] = << >> /\ failing[c] = {}
  /\ todo' = [todo EXCEPT ![c] = asked[c]]
  /\ GotoStage(c, "create")
  /\ UNCHANGED <<kind, asked, ids, failing, outcome, made, storeVars, stamped, sweep, starts, deathVars>>

\* Where the loop over _create stands after the run at its head.
Advance(c) ==
  /\ todo' = [todo EXCEPT ![c] = Tail(@)]
  /\ ids' = [ids EXCEPT ![c] = Append(@, Head(todo[c]))]

\* resolved_run_spec reads the sensor file again and finds another hash: the
\* call raises and what it has created stays.
CreateRaises(c) ==
  /\ AtStage(c, "create") /\ todo[c] # << >>
  /\ ~stamped[Head(todo[c])]
  /\ End(c, "raised")
  /\ UNCHANGED <<storeVars, stamped, sweep, starts, deathVars>>

\* create_run answers created=True.
CreateNew(c) ==
  /\ AtStage(c, "create") /\ todo[c] # << >>
  /\ stamped[Head(todo[c])]
  /\ CreateRun(Head(todo[c]))
  /\ GotoStage(c, "start")
  /\ made' = [made EXCEPT ![c] = @ \cup {Head(todo[c])}]
  /\ UNCHANGED <<kind, asked, todo, ids, failing, outcome, stamped, sweep, starts, deathVars>>

\* Mutant of FindExisting: a run that exists is started again.
FindAndStart(c) ==
  /\ AtStage(c, "create") /\ todo[c] # << >>
  /\ stamped[Head(todo[c])] /\ status[Head(todo[c])] # Absent
  /\ GotoStage(c, "start")
  /\ UNCHANGED <<kind, asked, todo, ids, failing, outcome, made, storeVars, stamped,
                 sweep, starts, deathVars>>

\* create_run answers created=False: the run is another call's, started or not.
FindExisting(c) ==
  /\ AtStage(c, "create") /\ todo[c] # << >>
  /\ stamped[Head(todo[c])]
  /\ status[Head(todo[c])] # Absent
  /\ Advance(c)
  /\ UNCHANGED <<stage, kind, asked, failing, outcome, made, storeVars, stamped, sweep,
                 starts, deathVars>>

\* Mutant of StartWorker: the run's worker is not started.
StartNothing(c) ==
  /\ AtStage(c, "start")
  /\ Advance(c)
  /\ GotoStage(c, "create")
  /\ UNCHANGED <<kind, asked, failing, outcome, made, storeVars, stamped, sweep, starts, deathVars>>

\* _start_worker for the run just created.
StartWorker(c) ==
  /\ AtStage(c, "start")
  /\ starts' = [starts EXCEPT ![Head(todo[c])] = @ + 1]
  /\ Advance(c)
  /\ GotoStage(c, "create")
  /\ UNCHANGED <<kind, asked, failing, outcome, made, storeVars, stamped, sweep, deathVars>>

\* Mutant of RecordSweep: the record is written before the runs are created.
RecordEarly(c) ==
  /\ AtStage(c, "create")
  /\ kind[c] = "sweep" /\ sweep = << >>
  /\ sweep' = asked[c]
  /\ UNCHANGED <<callVars, storeVars, stamped, starts, deathVars>>

\* Mutant of RecordSweep: it is written for a new sweep's first caller only.
RecordOnlyNew(c) ==
  /\ AtStage(c, "create") /\ todo[c] = << >> /\ kind[c] = "sweep"
  /\ sweep' = IF sweep = << >> /\ ToSet(ids[c]) = made[c] THEN ids[c] ELSE sweep
  /\ GotoStage(c, "lookup")
  /\ UNCHANGED <<kind, asked, todo, ids, failing, outcome, made, storeVars, stamped, starts, deathVars>>

\* create_sweep: the record is renamed into place unless one is there.
RecordSweep(c) ==
  /\ AtStage(c, "create") /\ todo[c] = << >> /\ kind[c] = "sweep"
  /\ sweep' = IF sweep = << >> THEN ids[c] ELSE sweep
  /\ GotoStage(c, "lookup")
  /\ UNCHANGED <<kind, asked, todo, ids, failing, outcome, made, storeVars, stamped, starts, deathVars>>

\* submit_run has no record to write.  (It compares the run's id with the one
\* that was admitted, and raises: only an edit between the check of the sensor
\* file's hash and its reading, within resolved_run_spec, makes them differ,
\* and Edit does not come between those two.)
RunCreated(c) ==
  /\ AtStage(c, "create") /\ todo[c] = << >> /\ kind[c] = "run"
  /\ GotoStage(c, "read")
  /\ UNCHANGED <<kind, asked, todo, ids, failing, outcome, made, storeVars, stamped,
                 sweep, starts, deathVars>>

\* The status of every run of the answer is read; NotFoundError for one that
\* is not there.
ReadStatuses(c) ==
  /\ AtStage(c, "read")
  /\ End(c, IF \E r \in ToSet(ids[c]) : status[r] = Absent THEN "raised" ELSE "returned")
  /\ UNCHANGED <<storeVars, stamped, sweep, starts, deathVars>>

CallStep(c) ==
  \/ AdmitNext(c) \/ RefuseAll(c) \/ AdmitAll(c)
  \/ CreateRaises(c) \/ CreateNew(c) \/ FindExisting(c) \/ StartWorker(c)
  \/ RecordSweep(c) \/ RunCreated(c) \/ Lookup(c) \/ ReadStatuses(c)

\* The process of the call dies.
CallDies(c) ==
  /\ crashes < MaxCrashes
  /\ ~AtStage(c, "idle")
  /\ crashes' = crashes + 1
  /\ orphaned' = orphaned \cup (IF AtStage(c, "start") THEN {Head(todo[c])} ELSE {})
  /\ End(c, "died")
  /\ UNCHANGED <<storeVars, stamped, sweep, starts>>

\* Somebody edits the sensor file of r.
Edit(r) ==
  /\ MayEdit /\ stamped[r]
  /\ stamped' = [stamped EXCEPT ![r] = FALSE]
  /\ UNCHANGED <<storeVars, sweep, starts, callVars, deathVars>>

SweepNext ==
  \/ \E c \in Clients : \/ SubmitSweep(c) \/ GetSweep(c)
                        \/ \E r \in Runs : SubmitRun(c, r)
                        \/ CallStep(c) \/ CallDies(c)
  \/ \E r \in Runs : Edit(r)

SweepSpec == SweepInit /\ [][SweepNext]_sweepVars

\* Calls in progress go on, and somebody submits the sweep again and again.
SweepFairSpec ==
  SweepSpec /\ \A c \in Clients : WF_sweepVars(CallStep(c)) /\ SF_sweepVars(SubmitSweep(c))
-----------------------------------------------------------------------------
\* submit_sweep: "If any run fails admission ... nothing is created".
RefusedMadeNothing == \A c \in Clients : outcome[c] = "refused" => made[c] = {}

\* A run has at most one worker, however often it is submitted, alone or in a
\* sweep, also after a call died ("no second worker", submit_run).
OneWorker == \A r \in Runs : starts[r] <= 1

\* Every run that exists has its worker or a call is about to start it, also when
\* the call that created it raised or died later.  The one exception is a run
\* whose call died between create_run and _start_worker: no later submission
\* starts it, so it is left to reap, which fails it.
NoneForgotten ==
  \A r \in Runs : status[r] # Absent =>
    \/ starts[r] = 1
    \/ \E c \in Clients : AtStage(c, "start") /\ Head(todo[c]) = r
    \/ r \in orphaned /\ starts[r] = 0

\* A sweep that can be read is whole: the record names every run in the order
\* of a recipe, and each one exists, so get_sweep never raises.
RecordedIsWhole ==
  sweep # << >> => sweep \in Orders /\ \A r \in ToSet(sweep) : status[r] # Absent

\* A sweep that is submitted again after a call died is recorded in the end,
\* unless somebody edits one of its sensor files.
RecordedInTheEnd == <>(sweep # << >> \/ \E r \in Runs : ~stamped[r])
=============================================================================
