------------------------------ MODULE MCRules -------------------------------
(* EngineRun, Resources and Compose for TLC: a behaviour is of one of them, *)
(* chosen at first, while the others are at rest.                           *)
EXTENDS MCEngineRun, MCCompose, Resources

CONSTANTS r1, r2, r3

VARIABLE of       \* what this behaviour is of: "run", "ledger" or "recipe"
-----------------------------------------------------------------------------
(* A backend with three threads, three units of memory and two devices of   *)
(* different class and size.                                                *)
Device(id, class, memory) == [id |-> id, class |-> class, memory |-> memory]
SmallHost == [cpu |-> 3, memory |-> 3, scratch |-> Null, network |-> FALSE,
              gpus |-> <<Device(1, "a", 2), Device(2, "b", Null)>>]

\* An engine that takes one thread unless the request says how many.
OneByDefault ==
  [cpu |-> [minimum |-> 1, maximum |-> Null, default |-> 1],
   gpus |-> 2, network |-> "none", interpreter |-> Null]

Gpu(count, class, memory) == [count |-> count, class |-> class, memory |-> memory]
None == Gpu(0, Null, Null)
Request(cpu, memory, gpu) ==
  [cpu |-> cpu, memory |-> memory, gpu |-> gpu, scratch |-> Null,
   network |-> "none", interpreter |-> Null]

\* Requests that compete for each resource, ones that only the whole host can
\* serve, and ones that must be refused.
SomeRequests ==
  {Request(Null, Null, None), Request(2, 1, None), Request(1, 2, None), Request(3, 3, None),
   Request(Null, Null, Gpu(1, Null, Null)), Request(1, Null, Gpu(1, "a", 2)),
   Request(1, 2, Gpu(2, Null, Null)),
   Request(1, Null, Gpu(1, "b", 1)), Request(1, Null, Gpu(2, "a", Null)),
   Request(4, Null, None), Request(0, Null, None)}

-----------------------------------------------------------------------------
\* Those at rest have one initial state.
OneRun    == mode = "layered" /\ installed = CHOOSE i \in AtFirst : TRUE
OneLedger == request = CHOOSE q \in [Runs -> Requests] : TRUE
OneRecipe == doc = CHOOSE d \in Documents : TRUE

RulesInit == /\ \/ of = "run" /\ OneLedger /\ OneRecipe
                \/ of = "ledger" /\ OneRun /\ OneRecipe
                \/ of = "recipe" /\ OneRun /\ OneLedger
             /\ RecipeInit /\ Init /\ LedgerInit

Run(A)    == of = "run" /\ A /\ UNCHANGED <<of, ledgerVars, recipeVars>>
Ledger(A) == of = "ledger" /\ A /\ UNCHANGED <<of, vars, recipeVars>>
Recipe(A) == of = "recipe" /\ A /\ UNCHANGED <<of, vars, ledgerVars>>

RulesNext ==
  \/ \E d \in Distributions : Run(Install(d))
  \/ Run(Edit) \/ Run(Discover) \/ Run(Submit) \/ Run(Boot) \/ Run(Launch)
  \/ \E e \in Engines : Run(Use(e))
  \/ Run(Resolve) \/ Run(Copy) \/ Run(Compile) \/ Run(RunEngine) \/ Run(Move) \/ Run(EngineEnds)
  \/ Run(DryRun) \/ Run(Render) \/ Run(RunnerDies) \/ Run(Collect)
  \/ \E r \in Runs : Ledger(SubmitRequest(r)) \/ Ledger(Poll(r)) \/ Ledger(End(r))
                     \/ Ledger(Cancel(r)) \/ Ledger(Release(r))
  \/ Recipe(ReadSensorList) \/ Recipe(LoadLayers) \/ Recipe(LoadSensors)
  \/ Recipe(SplitSettings) \/ Recipe(ApplyEngineRules) \/ Recipe(CheckFidelity)
  \/ Recipe(MergeRun) \/ Recipe(Finish) \/ Recipe(ComposePassthrough)

all == <<of, vars, ledgerVars, recipeVars>>

\* LedgerFairSpec; the others have no fairness.
RulesFair == /\ RulesInit /\ [][RulesNext]_all
             /\ \A r \in Runs : WF_all(Ledger(Poll(r))) /\ WF_all(Ledger(End(r)))
=============================================================================
