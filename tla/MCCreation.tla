----------------------------- MODULE MCCreation -----------------------------
(* CreateRun and Sweep for TLC: a behaviour is either one of create_run calls *)
(* for one run id, or one of submissions that take create_run as one step.  *)
EXTENDS CreateRun, Sweep

CONSTANTS a1, a2, a3, r1, r2

VARIABLE level    \* what this behaviour is of: "calls" or "submissions"

\* Two recipes that list the same sensors in another order.
TwoOrders == {<<r1, r2>>, <<r2, r1>>}

\* The submissions take create_run as one step, so no call of CreateRun is there.
CreationInit ==
  /\ SweepInit
  /\ \/ level = "calls" /\ Init
     \/ /\ level = "submissions" /\ first = Nothing /\ target = Nothing /\ tmp = {}
        /\ pc = [c \in Creators |-> "dead"] /\ result = [c \in Creators |-> "none"]

Calls(A)       == level = "calls" /\ A /\ UNCHANGED <<level, sweepVars>>
Submissions(A) == level = "submissions" /\ A /\ UNCHANGED <<level, vars>>

CreationNext ==
  \/ \E c \in Creators :
       \/ Calls(Probe(c)) \/ Calls(Build(c)) \/ Calls(Refuse(c)) \/ Calls(Inspect(c))
       \/ Calls(MoveAside(c)) \/ Calls(Publish(c)) \/ Calls(Recheck(c)) \/ Calls(Clean(c))
       \/ Calls(Crash(c))
  \/ \E c \in Clients :
       \/ Submissions(SubmitSweep(c)) \/ Submissions(GetSweep(c))
       \/ \E r \in Runs : Submissions(SubmitRun(c, r))
       \/ Submissions(AdmitNext(c)) \/ Submissions(RefuseAll(c)) \/ Submissions(AdmitAll(c))
       \/ Submissions(CreateRaises(c)) \/ Submissions(CreateNew(c))
       \/ Submissions(FindExisting(c)) \/ Submissions(StartWorker(c))
       \/ Submissions(RecordSweep(c)) \/ Submissions(RunCreated(c))
       \/ Submissions(Lookup(c)) \/ Submissions(ReadStatuses(c)) \/ Submissions(CallDies(c))
  \/ \E r \in Runs : Submissions(Edit(r))

all == <<level, vars, sweepVars>>

\* The submissions have the fairness of SweepFairSpec.
CreationFair ==
  /\ CreationInit /\ [][CreationNext]_all
  /\ \A c \in Clients : /\ WF_all(Submissions(CallStep(c)))
                        /\ SF_all(Submissions(SubmitSweep(c)))

\* Of submissions: a sweep submitted again and again is recorded in the end.
SubmittedIsRecorded == level = "submissions" => RecordedInTheEnd
=============================================================================
