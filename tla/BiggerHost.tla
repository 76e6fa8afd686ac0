----------------------------- MODULE BiggerHost ------------------------------
(***************************************************************************)
(* The runner of the deferred measurements (scripts/bigger_host_run.py): a  *)
(* manifest of entries, each a list of jobs, run one entry after another   *)
(* with as many jobs at once as the cores and the memory allow, by         *)
(* invocations that may be killed and that resume from the results files.  *)
(* A killed invocation leaves jobs behind, and the file it was writing torn. *)
(* Of a record only that it is there is kept.  The items of an entry differ *)
(* (the committed manifest's do; manifest_problems does not ask).          *)
(***************************************************************************)
EXTENDS Integers, FiniteSets, Sequences, SequencesExt, Sums

CONSTANTS
  Manifests,    \* the manifests considered, each a sequence of entries
  Cores,        \* physical cores of the host
  HwThreads,    \* its hardware threads, DIRSIG's default thread count
  Budget,       \* MEMORY_FRACTION of MemAvailable, in units of counted memory
  MaxJobs,      \* --max-jobs
  MaxFaults     \* bounds kills, escaping errors and disk shortages

ASSUME HostAssumption ==
  /\ Cores \in Nat \ {0} /\ HwThreads \in Nat /\ HwThreads >= Cores
  /\ Budget \in Nat /\ MaxJobs \in Nat \ {0}

VARIABLES
  manifest,
  pc,           \* where the invocation is; "down" between invocations
  todo,         \* the entries the invocation has still to run
  queue,        \* the items in run_entry's queue for the first of them, in the entry's order
  unseen,       \* those that the pass of the launching loop has not come to
  used,         \* the threads it counts in use
  running,      \* the items with a job in flight
  conc,         \* its concurrency
  cached,       \* entries with a figure in peaks.json
  folder,       \* <<entry, item>>: the job folder holds a finished job's files
  recorded,     \* <<entry, item>>: the results file holds the item's record
  summary,      \* entries whose limit model or pairs are recorded
  torn,         \* the files that a kill has hit in the middle of their writing
  spoilt,       \* those of them that nothing can read any more
  orphans,      \* <<entry, item, kind>>: what ended invocations have left running:
                \* whole jobs, or only the renders ("render") of a job that was stopped
  faults

jobs == <<queue, unseen, used, running>>
results == <<recorded, summary, torn, spoilt>>
vars == <<manifest, pc, todo, jobs, conc, cached, folder, results, orphans, faults>>
-----------------------------------------------------------------------------
(* The drivers.  An entry is a record of its driver, its items, the threads *)
(* of an item (0: DIRSIG's default), the counted memory of one job, whether *)
(* the manifest has a figure for it, its probe ("none", "samples": a cut    *)
(* job of its own, or an item), max_concurrency, whether an item needs a    *)
(* stated amount of disk, and whether its id_prefix makes slugs.            *)

Drivers == {"s2s", "concurrency", "capture_order", "lightcurve", "command", "sleep"}
Minimum(S) == CHOOSE x \in S : \A y \in S : x <= y
Maximum(S) == CHOOSE x \in S : \A y \in S : x >= y

Entry(e) == manifest[e]
Items(e) == ToSet(Entry(e).items)

WholeHost(e, i) == Entry(e).threads[i] = 0
Threads(e, i) == IF WholeHost(e, i) THEN HwThreads ELSE Entry(e).threads[i]
\* A batch of n copies holds n peaks at once.
MemoryJobs(e, i) == IF Entry(e).driver = "concurrency" THEN Threads(e, i) ELSE 1

\* What the items, threads and figures of an entry are; the items differ.
ASSUME ManifestAssumption ==
  \A m \in Manifests : \A e \in DOMAIN m : LET n == m[e] IN
    /\ m \in Seq(Range(m)) /\ n.items \in Seq(ToSet(n.items)) /\ IsInjective(n.items)
    /\ n.threads \in [ToSet(n.items) -> Nat]
    /\ n.job \in Nat \ {0} /\ n.cap \in Nat /\ n.figure \in BOOLEAN /\ n.slug \in BOOLEAN

\* manifest_problems and the drivers' problems, which ask neither for slugs nor
\* for an item of one copy.
WellFormed(m) ==
  \A e \in DOMAIN m : LET n == m[e] IN
    /\ n.driver \in Drivers
    /\ n.items # << >>
    /\ n.driver = "command" => Len(n.items) = 1

\* Command and LightCurve find what is done in the job folders of the work
\* root (a rec.json of exit code 0, the script's own results).
InFolder(e) == Entry(e).driver \in {"lightcurve", "command"}

\* The file that an entry's records are in.  A command keeps its own, and a stub's
\* is only appended to.
File(e) == CASE Entry(e).driver = "s2s" -> "s2s"
             [] Entry(e).driver \in {"concurrency", "capture_order", "lightcurve"} -> "risk"
             [] OTHER -> "own"

\* done: the items with a finished job's folder, or with a record.
Measured(e) == {i \in Items(e) : <<e, i>> \in IF InFolder(e) THEN folder ELSE recorded}

\* The drivers that write a record of all the items in finish.
Summarises(e) == Entry(e).driver \in {"concurrency", "lightcurve"}

\* Mutant of Complete: one item's record is enough.
CompleteOne(e) == Measured(e) # {} /\ (Summarises(e) => e \in summary)

\* complete: no item left, and the summary there; a light curve's pairs alone.
Complete(e) ==
  /\ Entry(e).driver # "lightcurve" => Items(e) \subseteq Measured(e)
  /\ Summarises(e) => e \in summary

Done(e) == IF Complete(e) THEN Items(e) ELSE Measured(e)

\* peak_of has a figure: a stated limit, a cached peak or the manifest's.
Known(e) == Entry(e).driver = "capture_order" \/ e \in cached \/ Entry(e).figure

Memory(e, i) == MemoryJobs(e, i) * Entry(e).job

\* A row of plan_entry fits the host alone.
Fits(e, i) ==
  /\ Threads(e, i) <= Cores \/ WholeHost(e, i)
  /\ Known(e) => Memory(e, i) <= Budget

\* _risk_add takes no record whose id is no slug.
Refused(e) == Summarises(e) /\ ~Entry(e).slug

\* finish divides by the throughput of one copy (StopIteration without it).
NoSingle(e) == Entry(e).driver = "concurrency" /\ \A i \in Items(e) : Threads(e, i) # 1

\* Entries whose finish, or whose every record, ends the invocation each time.
Stuck(e) == NoSingle(e) \/ Refused(e)

\* plan_entry: the concurrency; one job at a time while the peak is unknown.
Concurrency(e) ==
  LET perCore == Cores \div Minimum({Threads(e, i) : i \in Items(e)})
      perMemory == Budget \div Maximum({Memory(e, i) : i \in Items(e)})
      AtLeast1(n) == IF n < 1 THEN 1 ELSE n
  IN IF ~Known(e) THEN 1
     ELSE Minimum({AtLeast1(perCore), AtLeast1(perMemory), MaxJobs}
                  \cup {c \in {Entry(e).cap} : c > 0}
                  \cup {1 : d \in {Entry(e).driver} \cap {"concurrency"}})

\* The launching loop counts a job that it starts with at most the cores, and
\* one that it finds in flight with all its threads.
Takes(e, i) == Minimum({Threads(e, i), Cores})

\* Mutant of InUse: the threads of the jobs in flight are not counted.
InUseNone(e, run) == 0

InUse(e, run) == Total([i \in run |-> Threads(e, i)])
-----------------------------------------------------------------------------
Init ==
  /\ manifest \in {m \in Manifests : WellFormed(m)}
  /\ pc = "down" /\ todo = {} /\ conc = 1
  /\ queue = {} /\ unseen = {} /\ used = 0 /\ running = {}
  /\ cached = {} /\ folder = {} /\ recorded = {} /\ summary = {}
  /\ torn = {} /\ spoilt = {} /\ orphans = {}
  /\ faults = 0

\* The entry at hand: the first in manifest order.
At == Minimum(todo)

GoTo(p) == pc' = p /\ UNCHANGED <<todo, orphans>>
NoJobs == queue' = {} /\ unseen' = {} /\ used' = 0 /\ running' = {}
\* The invocation ends, or is ended, and leaves processes running.
EndInvocation(left) == pc' = "down" /\ todo' = {} /\ NoJobs /\ orphans' = orphans \cup left
LeaveEntry ==
  /\ todo' = todo \ {At}
  /\ pc' = IF todo' = {} THEN "down" ELSE "enter"
  /\ UNCHANGED orphans
Fault == faults < MaxFaults /\ faults' = faults + 1

\* What an invocation with jobs in flight leaves when it exits: all of them.
Left(items) == {<<At, i, "job">> : i \in items}

\* What it may leave when it is killed: jobs that nobody told (SIGKILL; the probe,
\* which the handler of SIGTERM does not know) or that were finished already, and
\* the renders of those that the handler has told to stop.
LeftByKill(items) ==
  {Left(J) \cup {<<At, i, "render">> : i \in R \ J} : J, R \in SUBSET items}

\* main and Runner.run, with --only or without.
Invoke(only) ==
  /\ pc = "down"
  /\ pc' = "enter" /\ todo' = only
  /\ UNCHANGED <<manifest, jobs, conc, cached, folder, results, orphans, faults>>

\* complete and peak_of raise on a file that ends in half a line (peaks.json: on
\* anything but all of it), in every invocation that comes to the entry.
Unreadable(e) ==
  \/ File(e) \in spoilt
  \/ ~Complete(e) /\ Entry(e).driver # "capture_order" /\ "peaks" \in spoilt

\* run_entry up to the probe.
Enter ==
  /\ pc = "enter"
  /\ IF Unreadable(At) THEN EndInvocation({}) /\ UNCHANGED folder
     ELSE /\ UNCHANGED jobs
          /\ IF Complete(At) THEN LeaveEntry /\ UNCHANGED folder
             ELSE IF ~Known(At) /\ Entry(At).probe # "none"
                  THEN GoTo("probe") /\ folder' = folder \ {<<At, Entry(At).probe>>}
                  ELSE GoTo("plan") /\ UNCHANGED folder
  /\ UNCHANGED <<manifest, conc, cached, results, faults>>

\* Mutant of Record: a record replaces those of the other items.
RecordAlone(e, i) == {x \in recorded : x[1] # e} \cup {<<e, i>>}

\* The drivers' record: into the results file, beside what is there.
Record(e, i) == IF InFolder(e) THEN recorded ELSE recorded \cup {<<e, i>>}

\* The results file of e is truncated and then written (write_results), and a
\* kill comes between the two or in the middle of the second.  What was to be
\* in it is there in part (a beginning, in the order of names that are not
\* modelled), and its last line may be half a line.
TearResults(e, rec, sum) ==
  /\ Fault /\ File(e) # "own"
  /\ \E part \in SUBSET {x \in rec : File(x[1]) = File(e)} :
       recorded' = {x \in rec : File(x[1]) # File(e)} \cup part
  /\ \E part \in SUBSET {d \in sum : File(d) = File(e)} :
       summary' = {d \in sum : File(d) # File(e)} \cup part
  /\ torn' = torn \cup {File(e)}
  /\ spoilt' \in {spoilt, spoilt \cup {File(e)}}

\* finish_item: the reduction is recorded; or it raises, which is logged; or it
\* exits (_risk_add, s2s_product): SystemExit is no Exception and ends the
\* invocation, the other jobs in flight left alone; or the runner is killed in
\* the middle of the writing.
FinishItem(e, i, next) ==
  LET barred == Refused(e) /\ ~InFolder(e) IN
  \/ ~barred /\ recorded' = Record(e, i) /\ next /\ UNCHANGED <<summary, torn, spoilt, faults>>
  \/ next /\ UNCHANGED <<results, faults>>
  \/ /\ EndInvocation(Left(running \ {i})) /\ UNCHANGED results
     /\ (barred /\ UNCHANGED faults) \/ Fault
  \/ /\ ~barred /\ ~InFolder(e) /\ TearResults(e, Record(e, i), summary)
     /\ \E left \in LeftByKill(running \ {i}) : EndInvocation(left)

\* The probe's process ends; its peak is cached (peaks.json is written in one go,
\* which a kill may tear), and an item's probe is an item done.
ProbeEnds ==
  /\ pc = "probe"
  /\ LET i == Entry(At).probe
         next == GoTo("plan") /\ UNCHANGED jobs
     IN \/ next /\ UNCHANGED <<cached, folder, results, faults>>
        \/ /\ Fault /\ EndInvocation({})
           /\ torn' = torn \cup {"peaks"} /\ spoilt' = spoilt \cup {"peaks"}
           /\ folder' = folder \cup {<<At, i>> : j \in Items(At) \cap {i}}
           /\ UNCHANGED <<cached, recorded, summary>>
        \/ /\ cached' = cached \cup {At}
           /\ IF i \in Items(At) THEN folder' = folder \cup {<<At, i>>} /\ FinishItem(At, i, next)
              ELSE next /\ UNCHANGED <<folder, results, faults>>
  /\ UNCHANGED <<manifest, conc>>

\* A pass of the launching loop begins.
BeginPass == /\ unseen' = queue' /\ used' = InUse(At, running')
             /\ GoTo("launch")

\* plan_entry and the queue made from it.
Plan ==
  /\ pc = "plan"
  /\ queue' = {i \in Items(At) \ Done(At) : Fits(At, i)}
  /\ conc' = Concurrency(At)
  /\ UNCHANGED running
  /\ IF queue' = {} THEN GoTo("finish") /\ UNCHANGED <<unseen, used>> ELSE BeginPass
  /\ UNCHANGED <<manifest, cached, folder, results, faults>>

\* The place of an item in its entry.
Position(i) == CHOOSE k \in DOMAIN Entry(At).items : Entry(At).items[k] = i

Start(i) ==
  /\ running' = running \cup {i} /\ used' = used + Takes(At, i)
  /\ folder' = folder \ {<<At, i>>}

\* The pass comes to its next item, which does not fit beside the jobs in
\* flight, or lacks its disk and is dropped, or is started.
Launch ==
  /\ pc = "launch" /\ Cardinality(running) < conc
  /\ \E i \in unseen :
       /\ \A j \in unseen : Position(i) <= Position(j)
       /\ unseen' = unseen \ {i}
       /\ IF running # {} /\ used + Takes(At, i) > Cores
          THEN UNCHANGED <<queue, running, used, folder, faults>>
          ELSE /\ queue' = queue \ {i}
               /\ \/ Start(i) /\ UNCHANGED faults
                  \/ Entry(At).disk /\ Fault /\ UNCHANGED <<running, used, folder>>
  /\ UNCHANGED <<manifest, pc, todo, conc, cached, results, orphans>>

\* With nothing started and nothing in flight os.wait4 raises.
Wait ==
  /\ pc = "launch" /\ (unseen = {} \/ Cardinality(running) >= conc)
  /\ IF running = {} THEN EndInvocation({})
     ELSE GoTo("wait") /\ unseen' = {} /\ used' = 0 /\ UNCHANGED <<queue, running>>
  /\ UNCHANGED <<manifest, conc, cached, folder, results, faults>>

\* The DIRSIG processes of a job: a batch starts all its copies at once and
\* waits for each.
Renders(e, i) == 1 .. MemoryJobs(e, i)

\* A job fails with any of its renders, but for the captures: a render of
\* theirs that fails or runs out of time is noted and is part of the result.
JobFails(e, bad) == bad # {} /\ Entry(e).driver # "capture_order"

\* os.wait4 returns a job of the entry: it failed (or was killed), and a script
\* may have written its results all the same, or its item is finished.
JobEnds(i) ==
  /\ pc = "wait" /\ i \in running
  /\ LET next == /\ running' = running \ {i} /\ UNCHANGED queue
                 /\ IF queue # {} \/ running' # {} THEN BeginPass
                    ELSE GoTo("finish") /\ UNCHANGED <<unseen, used>>
     IN \E bad \in SUBSET Renders(At, i), killed \in BOOLEAN :
          IF killed \/ JobFails(At, bad)
          THEN /\ next /\ UNCHANGED <<results, faults>>
               /\ \/ UNCHANGED folder
                  \/ Entry(At).driver = "command" /\ folder' = folder \cup {<<At, i>>}
          ELSE folder' = folder \cup {<<At, i>>} /\ FinishItem(At, i, next)
  /\ UNCHANGED <<manifest, conc, cached>>

\* Mutant of Summary: the summary is written after the last job, of what is there.
SummaryOfAny == Summarises(At)

\* finish returns early when the summary is there or an item is missing.
Summary == Summarises(At) /\ ~Complete(At) /\ Items(At) \subseteq Done(At)

\* The driver's finish, outside any try: what it raises ends the invocation.
Finish ==
  /\ pc = "finish"
  /\ \/ ~Summary /\ LeaveEntry /\ UNCHANGED <<jobs, results, faults>>
     \/ /\ Summary /\ ~Stuck(At)
        /\ \/ /\ summary' = summary \cup {At} /\ LeaveEntry
              /\ UNCHANGED <<jobs, recorded, torn, spoilt, faults>>
           \/ TearResults(At, recorded, summary \cup {At}) /\ EndInvocation({})
     \/ /\ Summary /\ EndInvocation({}) /\ UNCHANGED results
        /\ (Stuck(At) /\ UNCHANGED faults) \/ Fault
  /\ UNCHANGED <<manifest, conc, cached, folder>>

\* The jobs in flight: the probe runs alone.
InFlight == running \cup (IF pc = "probe" THEN {Entry(At).probe} ELSE {})

\* SIGTERM, SIGKILL, Ctrl-C or an error that nobody catches, not in the middle
\* of the writing of a file.
Kill ==
  /\ pc # "down" /\ Fault
  /\ \E left \in LeftByKill(InFlight) : EndInvocation(left)
  /\ UNCHANGED <<manifest, conc, cached, folder, results>>

\* What was left ends some time, in a later invocation perhaps, which may run the
\* same item.  A whole job may complete its folder, and a script, which is the
\* "render" of a command, its results; a render alone completes nothing.
OrphanEnds(o) ==
  /\ orphans' = orphans \ {o}
  /\ \/ UNCHANGED folder
     \/ /\ o[2] \in Items(o[1]) /\ (o[3] = "job" \/ Entry(o[1]).driver = "command")
        /\ folder' = folder \cup {<<o[1], o[2]>>}
  /\ UNCHANGED <<manifest, pc, todo, jobs, conc, cached, results, faults>>

Step == Enter \/ ProbeEnds \/ Plan \/ Launch \/ Wait \/ (\E i \in running : JobEnds(i)) \/ Finish
Next == \/ \E only \in (SUBSET DOMAIN manifest) \ {{}} : Invoke(only)
        \/ Step \/ Kill
        \/ \E o \in orphans : OrphanEnds(o)

Spec == Init /\ [][Next]_vars

Positions == UNION {DOMAIN m : m \in Manifests}

\* A job ends with 0 and its item is measured.
Succeeds == \E i \in running : JobEnds(i) /\ pc' # "down" /\ i \in Measured(At)'

\* The runner goes on, its jobs end, it is invoked again, and when jobs are run
\* again and again, one is measured some time.
FairSpec ==
  /\ Spec
  /\ WF_vars(Step)
  /\ SF_vars(Invoke(DOMAIN manifest))
  /\ SF_vars(Succeeds)
-----------------------------------------------------------------------------
\* Plan 3: the jobs of an invocation fit the host together: no more threads than
\* cores (a job at DIRSIG's default thread count is alone), no more counted
\* memory than the budget, one job while the memory of a job is not known,
\* whatever earlier invocations left done.  What they left running, the runner
\* does not know of: orphans come on top of its own jobs.
FitTogether ==
  running # {} =>
    /\ Total([i \in running |-> Takes(At, i)]) <= Cores
    /\ IF Known(At) THEN Total([i \in running |-> Memory(At, i)]) <= Budget
       ELSE Cardinality(running) = 1

\* "Resume": a record or a summary goes only when a kill hits the writing of the
\* file it is in; failed reductions, exits, other kills, jobs left by earlier
\* invocations and other entries take none.  And no job of the queue is started
\* for an item with a record (the probe is: nobody asks whether it is done).
KeepsResults ==
  [][/\ \A e \in {x[1] : x \in recorded \ recorded'} \cup (summary \ summary') :
          pc' = "down" /\ faults' # faults /\ File(e) \in torn' /\ File(e) = File(At)
     /\ \A i \in running' \ running : <<At, i>> \notin recorded]_vars

\* "Resume" (5): "a killed invocation loses only the jobs in flight".
LosesOnlyJobs == [][recorded \subseteq recorded' /\ summary \subseteq summary']_vars

\* A limit model or a set of pairs is made from all the items of its entry, and
\* they stay measured, but for batches whose records a torn write has lost.
SummaryOfAll ==
  \A e \in summary :
    Items(e) \subseteq Measured(e) \/ (~InFolder(e) /\ File(e) \in torn)

\* Every item that fits the host is measured in the end, and the summary of an
\* entry all of whose items fit is written, whatever was killed on the way and
\* whatever it left running, unless an entry up to it is stuck, which bars all
\* that come after it, or a file is spoilt, which bars all that read it.
AllMeasured ==
  \A e \in Positions :
    <>[](e \in DOMAIN manifest /\ spoilt = {} /\ (\A d \in 1 .. e : ~Stuck(d)) =>
           LET fits == {i \in Items(e) : /\ Threads(e, i) <= Cores \/ WholeHost(e, i)
                                         /\ Memory(e, i) <= Budget}
           IN /\ fits \subseteq Measured(e)
              /\ Summarises(e) /\ fits = Items(e) => e \in summary)

=============================================================================
