------------------------------ MODULE MCScripts ------------------------------
(* The two resumable scripts, BiggerHost and DemoSweep, for TLC: a behaviour *)
(* has either a manifest or an installation, and only that script runs.     *)
EXTENDS BiggerHost, DemoSweep

(* A host of two cores, four hardware threads and a budget of three units of *)
(* memory, and manifests of one or two entries, with each driver, items     *)
(* that compete for the cores and the memory, and items the host cannot run. *)
Measure(driver, items, threads, job) ==
  [driver |-> driver, items |-> items, threads |-> threads, job |-> job,
   figure |-> TRUE, probe |-> "none", cap |-> 0, disk |-> FALSE, slug |-> TRUE]

\* Family specs with a probe; batches; light curves with a cut probe and a
\* stated disk need; a script at the default thread count; stubs.
Specs   == [Measure("s2s", <<"a", "b">>, [i \in {"a", "b"} |-> 1], 1)
              EXCEPT !.figure = FALSE, !.probe = "a"]
Batches == [Measure("concurrency", <<"n1", "n2", "n3">>, [n1 |-> 1, n2 |-> 2, n3 |-> 3], 1)
              EXCEPT !.figure = FALSE, !.probe = "n1"]
Pair    == Measure("concurrency", <<"n1", "n2">>, [n1 |-> 1, n2 |-> 2], 1)
Curves  == [Measure("lightcurve", <<"t1", "td", "t2">>, [t1 |-> 1, td |-> 0, t2 |-> 1], 1)
              EXCEPT !.figure = FALSE, !.probe = "samples", !.disk = TRUE]
Script  == [Measure("command", <<"a">>, [a |-> 0], 1) EXCEPT !.figure = FALSE]
Stubs   == [Measure("sleep", <<"a", "b", "c">>, [a |-> 1, b |-> 2, c |-> 1], 1)
              EXCEPT !.figure = FALSE, !.cap = 2]
Orders  == Measure("capture_order", <<"a", "b">>, [a |-> 1, b |-> 1], 4)
Captures == Measure("capture_order", <<"a">>, [a |-> 1], 3)

\* Entries that no invocation gets past: no batch of one copy, an id that is no
\* slug.
NoOne   == Measure("concurrency", <<"n2">>, [n2 |-> 2], 1)
Shouted == [Pair EXCEPT !.slug = FALSE]

OneOrTwo == {<< >>, <<Specs, Captures>>, <<Batches>>, <<Curves>>, <<Script, Orders>>, <<Stubs>>,
             <<Pair, Captures>>, <<NoOne, Script>>, <<Script, Shouted>>}
OnePair == {<<Pair>>}
NoDemos == {<< >>}

(* Installations of up to three demos.                                      *)
ADemo(plan) == [plan |-> plan, excluded |-> FALSE, placed |-> FALSE, protected |-> FALSE,
                bad |-> "no", repeat |-> FALSE]

\* An excluded demo and one with two simulation files; one placed before and
\* repeated; a committed asset that is not there and one that is; one with a bad member,
\* one that cannot be hashed, one without a simulation file.
One == ADemo(<<"a.sim">>)
SomeInstallations ==
  {<< >>, <<[ADemo(<<>>) EXCEPT !.excluded = TRUE], ADemo(<<"demo.sim", "demo.jsim">>)>>,
   <<[One EXCEPT !.placed = TRUE, !.repeat = TRUE], One>>,
   <<[One EXCEPT !.protected = TRUE], [One EXCEPT !.protected = TRUE, !.placed = TRUE]>>,
   <<[One EXCEPT !.bad = "member"], [One EXCEPT !.bad = "tree"], ADemo(<<>>)>>}

-----------------------------------------------------------------------------
\* The other script has nothing to run, and stays as it is.
ScriptsInit == Init /\ DemosInit /\ (manifest = << >>) # (candidates = << >>)

Bigger(A)   == manifest # << >> /\ A /\ UNCHANGED demosVars
Sweeping(A) == candidates # << >> /\ A /\ UNCHANGED vars

ScriptsNext ==
  \/ \E only \in (SUBSET DOMAIN manifest) \ {{}} : Bigger(Invoke(only))
  \/ Bigger(Enter) \/ Bigger(ProbeEnds) \/ Bigger(Plan) \/ Bigger(Launch) \/ Bigger(Wait)
  \/ \E i \in running : Bigger(JobEnds(i))
  \/ Bigger(Finish) \/ Bigger(Kill) \/ \E o \in orphans : Bigger(OrphanEnds(o))
  \/ \E resume \in BOOLEAN : Sweeping(InvokeSweep(resume))
  \/ Sweeping(Take) \/ Sweeping(Place) \/ Sweeping(TrySimulation) \/ Sweeping(Close)
  \/ Sweeping(RecordOutcome)
  \/ \E o \in Outcomes, w \in 0 .. PerRun : w <= Timeout /\ Sweeping(Attempt(o, w))
  \/ \E o \in Outcomes, w \in 0 .. PerRun : w <= Timeout /\ Sweeping(Repeat(o, w))
  \/ Sweeping(Term) \/ Sweeping(KillSweep)

all == <<vars, demosVars>>

\* FairSpec and DemosFairSpec.
ScriptsSpec ==
  /\ ScriptsInit /\ [][ScriptsNext]_all
  /\ WF_all(Bigger(Step)) /\ SF_all(Bigger(Invoke(DOMAIN manifest))) /\ SF_all(Bigger(Succeeds))
  /\ WF_all(Sweeping(DemosStep)) /\ SF_all(Sweeping(InvokeSweep(FALSE)))
=============================================================================
