-------------------------- MODULE BiggerHost_proofs --------------------------
(***************************************************************************)
(* Proofs about BiggerHost, for any manifest and host, with invocations     *)
(* that may be killed at any step, in the writing of a file too, and that   *)
(* leave jobs running: what a summary is made of, what the jobs of an       *)
(* invocation take together, and how alone a record can be lost.           *)
(***************************************************************************)
EXTENDS BiggerHost, Sums_proofs, FiniteSetTheorems, WellFoundedInduction, TLAPS

USE DEF Entry, InFolder, Summarises, GoTo, EndInvocation, LeaveEntry

\* What a step may do to the results files: a record is added for the entry at
\* hand, by a driver that has records, a summary for an entry with no item left,
\* and what is lost was in a file that a kill has hit as it was written.
ResultsChange ==
  /\ UNCHANGED manifest /\ torn \subseteq torn'
  /\ \A x \in recorded' \ recorded : x[1] = At /\ ~InFolder(At)
  /\ \A e \in summary' \ summary : e = At /\ Summary
  /\ \A e \in {x[1] : x \in recorded \ recorded'} \cup (summary \ summary') :
       pc' = "down" /\ faults' = faults + 1 /\ File(e) \in torn' /\ File(e) = File(At)

\* A torn file keeps the records of the other files, and some of its own.
LEMMA TornLose ==
  ASSUME NEW rec, NEW sum, recorded \subseteq rec, summary \subseteq sum,
         TearResults(At, rec, sum)
  PROVE  /\ recorded' \subseteq rec /\ summary' \subseteq sum /\ torn \subseteq torn'
         /\ \A x \in recorded \ recorded' : File(x[1]) = File(At)
         /\ \A e \in summary \ summary' : File(e) = File(At)
         /\ faults' = faults + 1 /\ File(At) \in torn'
  BY DEF TearResults, Fault

LEMMA OneIsRecorded ==
  ASSUME NEW i
  PROVE  /\ recorded \subseteq Record(At, i)
         /\ \A x \in Record(At, i) \ recorded : x = <<At, i>> /\ ~InFolder(At)
  BY DEF Record

\* What finish_item does to the results files.
ItemIsFinished(i) ==
  \/ recorded' = Record(At, i) /\ UNCHANGED <<summary, torn>>
  \/ UNCHANGED <<recorded, summary, torn>>
  \/ TearResults(At, Record(At, i), summary) /\ pc' = "down"

LEMMA FinishedItemChanges ==
  ASSUME UNCHANGED manifest, NEW i, ItemIsFinished(i)
  PROVE  ResultsChange
<1>1. CASE TearResults(At, Record(At, i), summary) /\ pc' = "down"
  BY <1>1, TornLose, OneIsRecorded DEF ResultsChange
<1>2. CASE UNCHANGED <<recorded, summary, torn>>
  BY <1>2 DEF ResultsChange
<1>3. CASE recorded' = Record(At, i) /\ UNCHANGED <<summary, torn>>
  BY <1>3, OneIsRecorded DEF ResultsChange
<1> QED BY <1>1, <1>2, <1>3 DEF ItemIsFinished

LEMMA StepsChange ==
  ASSUME [Next]_vars
  PROVE  ResultsChange
<1> USE DEF results, jobs
<1>1. CASE /\ UNCHANGED <<manifest, recorded, summary>> /\ torn \subseteq torn'
  BY <1>1 DEF ResultsChange
<1>2. CASE ProbeEnds
  <2>1. UNCHANGED manifest
    BY <1>2 DEF ProbeEnds
  <2>2. \/ ItemIsFinished(Entry(At).probe)
        \/ UNCHANGED <<recorded, summary>> /\ torn \subseteq torn'
    BY <1>2 DEF ProbeEnds, FinishItem, ItemIsFinished
  <2> QED BY <1>1, <2>1, <2>2, FinishedItemChanges
<1>3. ASSUME NEW i \in running, JobEnds(i) PROVE ResultsChange
  <2>1. UNCHANGED manifest
    BY <1>3 DEF JobEnds
  <2>2. ItemIsFinished(i)
    BY <1>3, Zenon DEF JobEnds, FinishItem, ItemIsFinished
  <2> QED BY <2>1, <2>2, FinishedItemChanges
<1>4. CASE Finish
  <2>1. UNCHANGED manifest
    BY <1>4 DEF Finish
  <2>2. CASE UNCHANGED results
    BY <1>1, <2>1, <2>2
  <2>3. CASE Summary /\ summary' = summary \cup {At} /\ UNCHANGED <<recorded, torn>>
    BY <2>1, <2>3 DEF ResultsChange
  <2>4. CASE Summary /\ TearResults(At, recorded, summary \cup {At}) /\ pc' = "down"
    BY <2>1, <2>4, TornLose DEF ResultsChange
  <2> QED BY <1>4, <2>2, <2>3, <2>4 DEF Finish
<1>5. CASE Enter \/ Plan \/ Launch \/ Wait \/ Kill
  BY <1>1, <1>5 DEF Enter, Plan, Launch, Wait, Kill
<1>6. ASSUME NEW only, Invoke(only) PROVE ResultsChange
  BY <1>1, <1>6 DEF Invoke
<1>7. ASSUME NEW o, OrphanEnds(o) PROVE ResultsChange
  BY <1>1, <1>7 DEF OrphanEnds
<1>8. CASE UNCHANGED vars
  BY <1>1, <1>8 DEF vars
<1> QED BY <1>2, <1>3, <1>4, <1>5, <1>6, <1>7, <1>8 DEF Next, Step
-----------------------------------------------------------------------------
(* What the summaries are made of.                                          *)

\* The runner is at work on an entry that it found incomplete.
AtWork == pc \in {"probe", "plan", "launch", "wait", "finish"}

\* Only the drivers with a finish write summaries.  The folders of an entry are
\* only removed while the runner works on it, and it does not work on light
\* curves that have their pairs.
SummaryInv ==
  /\ SummaryOfAll
  /\ \A e \in summary : Summarises(e)
  /\ AtWork /\ Entry(At).driver = "lightcurve" => At \notin summary

\* A step that removes job folders only of the entry at work keeps what the
\* summaries are made of, but for the records of a torn file.
LEMMA SummariesStand ==
  ASSUME SummaryInv, ResultsChange,
         \/ folder \subseteq folder'
         \/ /\ summary' \subseteq summary
            /\ Entry(At).driver = "lightcurve" => At \notin summary
            /\ \A x \in folder : x[1] # At => x \in folder'
  PROVE  SummaryOfAll' /\ \A e \in summary' : Summarises(e)'
<1> SUFFICES ASSUME NEW e \in summary'
             PROVE  /\ (Items(e) \subseteq Measured(e) \/ (~InFolder(e) /\ File(e) \in torn))'
                    /\ Summarises(e)'
  BY DEF SummaryOfAll
<1>1. UNCHANGED manifest /\ torn \subseteq torn' /\ Items(e)' = Items(e) /\ File(e)' = File(e)
  BY DEF ResultsChange, Items, File
<1>2. Summarises(e) /\ (Items(e) \subseteq Measured(e) \/ (~InFolder(e) /\ File(e) \in torn))
  <2>1. CASE e \in summary
    BY <2>1 DEF SummaryInv, SummaryOfAll
  <2>2. CASE e \notin summary
    BY <2>2 DEF ResultsChange, Summary, Done
  <2> QED BY <2>1, <2>2
<1>3. Summarises(e)'
  BY <1>1, <1>2
<1>4. CASE ~InFolder(e) /\ File(e) \in torn
  BY <1>1, <1>3, <1>4
<1>5. CASE InFolder(e) /\ Items(e) \subseteq Measured(e)
  <2>1. ASSUME NEW i, <<e, i>> \in folder PROVE <<e, i>> \in folder'
    <3>1. CASE folder \subseteq folder'
      BY <2>1, <3>1
    <3>2. CASE ~(folder \subseteq folder')
      <4>1. e \in summary /\ Entry(e).driver = "lightcurve"
        BY <1>2, <1>5, <3>2
      <4> QED BY <2>1, <3>2, <4>1
    <3> QED BY <3>1, <3>2
  <2> QED BY <1>1, <1>3, <1>5, <2>1 DEF Measured
<1>6. CASE ~InFolder(e) /\ Items(e) \subseteq Measured(e)
  <2>1. ASSUME NEW i, <<e, i>> \in recorded PROVE <<e, i>> \in recorded' \/ File(e) \in torn'
    BY <2>1 DEF ResultsChange
  <2> QED BY <1>1, <1>3, <1>6, <2>1 DEF Measured
<1> QED BY <1>2, <1>4, <1>5, <1>6

\* A limit model, or a set of pairs, is made of all the items of its entry, and
\* they stay measured, over kills, failed jobs and repeated invocations, but for
\* the batches whose records went with a torn file.
THEOREM SummariesAreWhole ==
  Spec => []SummaryOfAll
<1>1. Init => SummaryInv
  BY DEF Init, SummaryInv, SummaryOfAll, AtWork
<1>2. SummaryInv /\ [Next]_vars => SummaryInv'
  <2> SUFFICES ASSUME SummaryInv, [Next]_vars PROVE SummaryInv'
    OBVIOUS
  <2> USE DEF results, jobs, AtWork, NoJobs, BeginPass
  <2> DEFINE Fresh == AtWork /\ Entry(At).driver = "lightcurve" => At \notin summary
  <2>a. Fresh /\ ResultsChange
    BY StepsChange DEF SummaryInv
  <2>b. ASSUME folder \subseteq folder', Fresh' PROVE SummaryInv'
    BY <2>a, <2>b, SummariesStand DEF SummaryInv
  <2>c. ASSUME pc' \in {"down", "enter"} \/ (AtWork /\ UNCHANGED <<todo, summary>>) PROVE Fresh'
    <3>1. CASE pc' \in {"down", "enter"}
      BY <3>1
    <3>2. CASE AtWork /\ UNCHANGED <<todo, summary>>
      <4>1. At' = At /\ UNCHANGED manifest
        BY <2>a, <3>2 DEF At, ResultsChange
      <4> QED BY <2>a, <3>2, <4>1
    <3> QED BY <2>c, <3>1, <3>2
  <2>1. ASSUME NEW only, Invoke(only) PROVE SummaryInv'
    BY <2>1, <2>b, <2>c DEF Invoke
  <2>2. CASE Enter
    <3>1. CASE Complete(At) \/ Unreadable(At)
      <4>1. UNCHANGED folder /\ pc' \in {"down", "enter"}
        BY <2>2, <3>1 DEF Enter
      <4> QED BY <2>b, <2>c, <4>1
    <3>2. CASE ~Complete(At) /\ ~Unreadable(At)
      <4>1. Entry(At).driver = "lightcurve" => At \notin summary
        BY <3>2 DEF Complete
      <4>2. UNCHANGED <<manifest, todo, summary, recorded>>
        BY <2>2, <3>2 DEF Enter
      <4>3. \A x \in folder : x[1] # At => x \in folder'
        BY <2>2, <3>2 DEF Enter
      <4>4. Fresh'
        BY <4>1, <4>2 DEF At
      <4> QED BY <2>a, <4>1, <4>2, <4>3, <4>4, SummariesStand DEF SummaryInv
    <3> QED BY <3>1, <3>2
  <2>3. CASE ProbeEnds
    <3>1. folder \subseteq folder' /\ pc = "probe" /\ (pc' = "down" \/ UNCHANGED <<todo, summary>>)
      BY <2>3 DEF ProbeEnds, FinishItem
    <3> QED BY <2>b, <2>c, <3>1
  <2>4. CASE Plan
    BY <2>4, <2>b, <2>c DEF Plan
  <2>5. CASE Launch
    <3>1. /\ UNCHANGED <<manifest, summary, todo>> /\ pc = "launch"
          /\ \A x \in folder : x[1] # At => x \in folder'
      BY <2>5 DEF Launch, Start
    <3>2. Fresh' /\ (Entry(At).driver = "lightcurve" => At \notin summary)
      BY <2>a, <2>c, <3>1
    <3> QED BY <2>a, <3>1, <3>2, SummariesStand DEF SummaryInv
  <2>6. CASE Wait
    BY <2>6, <2>b, <2>c DEF Wait
  <2>7. ASSUME NEW i \in running, JobEnds(i) PROVE SummaryInv'
    <3>1. folder \subseteq folder' /\ pc = "wait" /\ (pc' = "down" \/ UNCHANGED <<todo, summary>>)
      BY <2>7 DEF JobEnds, FinishItem
    <3> QED BY <2>b, <2>c, <3>1
  <2>8. CASE Finish \/ Kill
    BY <2>8, <2>b, <2>c DEF Finish, Kill
  <2>9. ASSUME NEW o, OrphanEnds(o) PROVE SummaryInv'
    <3>1. folder \subseteq folder' /\ UNCHANGED <<manifest, pc, todo, summary>>
      BY <2>9 DEF OrphanEnds
    <3>2. Fresh'
      BY <2>a, <3>1 DEF At
    <3> QED BY <2>b, <3>1, <3>2
  <2>10. CASE UNCHANGED vars
    <3>1. Fresh'
      BY <2>a, <2>10 DEF vars, At
    <3> QED BY <2>10, <2>b, <3>1 DEF vars
  <2> QED BY <2>1, <2>2, <2>3, <2>4, <2>5, <2>6, <2>7, <2>8, <2>9, <2>10 DEF Next, Step
<1>3. SummaryInv => SummaryOfAll
  BY DEF SummaryInv
<1>4. QED BY <1>1, <1>2, <1>3, PTL DEF Spec
-----------------------------------------------------------------------------
(* The jobs in flight.                                                      *)

\* What a driver's record and its folders say is done is not both kept.
FolderDriversRecordNothing == \A x \in recorded : ~InFolder(x[1])

\* The entry at hand while its jobs are launched and awaited.  What the queue
\* holds has no record; what is in flight is as the last plan allowed.
LaunchInv ==
  LET takes == Total([i \in running |-> Takes(At, i)]) IN
  /\ queue \subseteq Items(At) /\ running \subseteq Items(At)
  /\ queue \cap running = {} /\ unseen \subseteq queue
  /\ \A i \in queue \cup running : Fits(At, i)
  /\ \A i \in queue : <<At, i>> \notin recorded
  /\ conc = Concurrency(At) /\ Cardinality(running) <= conc
  /\ takes <= Cores
  /\ pc = "launch" => used \in Nat /\ takes <= used

HostInv ==
  /\ manifest \in Manifests /\ WellFormed(manifest)
  /\ todo \subseteq DOMAIN manifest
  /\ pc # "down" => todo # {}
  /\ FolderDriversRecordNothing
  /\ IF pc \in {"launch", "wait"} THEN LaunchInv ELSE queue = {} /\ running = {}
-----------------------------------------------------------------------------
(* The least and the greatest of some numbers.                              *)

LEMMA MinimumIsLeast ==
  ASSUME NEW S \in SUBSET Nat, S # {}
  PROVE  Minimum(S) \in S /\ \A y \in S : Minimum(S) <= y
<1> DEFINE UpTo(x) == {y \in S : y <= x}
<1>1. \A x \in S : UpTo(x) \in FiniteSubsetsOf(Nat)
  <2> TAKE x \in S
  <2>1. 0 \in Int /\ x \in Int
    OBVIOUS
  <2>2. IsFiniteSet(0 .. x)
    BY <2>1, FS_Interval
  <2>3. UpTo(x) \subseteq 0 .. x
    <3> SUFFICES ASSUME NEW y \in S, y <= x PROVE y \in 0 .. x
      OBVIOUS
    <3>1. x \in Nat /\ y \in Nat
      OBVIOUS
    <3> QED BY <3>1
  <2>4. UpTo(x) \in SUBSET Nat
    OBVIOUS
  <2> QED BY <2>2, <2>3, <2>4, FS_Subset DEF FiniteSubsetsOf
<1>2. {UpTo(x) : x \in S} \subseteq FiniteSubsetsOf(Nat) /\ {UpTo(x) : x \in S} # {}
  BY <1>1
<1>3. PICK x \in S : \A y \in S : <<UpTo(y), UpTo(x)>> \notin StrictSubsetOrdering(Nat)
  <2> DEFINE All == {UpTo(x) : x \in S}
  <2>1. All \subseteq FiniteSubsetsOf(Nat) /\ All # {}
    BY <1>2
  <2>2. IsWellFoundedOn(StrictSubsetOrdering(Nat), FiniteSubsetsOf(Nat))
    BY FS_StrictSubsetOrderingWellFounded
  <2> HIDE DEF All
  <2>3. PICK B \in All : \A C \in All : <<C, B>> \notin StrictSubsetOrdering(Nat)
    BY <2>1, <2>2, WFMin, Zenon
  <2>4. PICK x \in S : B = UpTo(x)
    BY DEF All
  <2>5. \A y \in S : UpTo(y) \in All
    BY DEF All
  <2> HIDE DEF UpTo
  <2> QED BY <2>3, <2>4, <2>5
<1>4. \A y \in S : x <= y
  <2> SUFFICES ASSUME NEW y \in S, y < x PROVE FALSE
    OBVIOUS
  <2>1. x \in Nat /\ y \in Nat
    OBVIOUS
  <2>2. \A z \in S : z \in Nat
    OBVIOUS
  <2>3. UpTo(y) \subseteq UpTo(x) /\ x \in UpTo(x) /\ x \notin UpTo(y)
    <3>1. \A z \in S : z <= y => z <= x
      BY <2>1, <2>2
    <3>2. x <= x /\ ~(x <= y)
      BY <2>1
    <3> QED BY <3>1, <3>2, Zenon
  <2>4. UpTo(y) \in SUBSET Nat /\ UpTo(x) \in SUBSET Nat /\ UpTo(y) # UpTo(x)
    BY <2>3, Zenon
  <2> HIDE DEF UpTo
  <2> QED BY <1>3, <2>3, <2>4 DEF StrictSubsetOrdering
<1> QED BY <1>4 DEF Minimum

LEMMA MaximumIsGreatest ==
  ASSUME NEW S \in SUBSET Nat, S # {}, IsFiniteSet(S)
  PROVE  Maximum(S) \in S /\ \A y \in S : y <= Maximum(S)
<1> DEFINE From(x) == {y \in S : y >= x}
<1>1. \A x \in S : From(x) \in FiniteSubsetsOf(S)
  BY FS_Subset DEF FiniteSubsetsOf
<1>2. {From(x) : x \in S} \subseteq FiniteSubsetsOf(S) /\ {From(x) : x \in S} # {}
  BY <1>1
<1>3. PICK x \in S : \A y \in S : <<From(y), From(x)>> \notin StrictSubsetOrdering(S)
  <2> DEFINE All == {From(x) : x \in S}
  <2>1. All \subseteq FiniteSubsetsOf(S) /\ All # {}
    BY <1>2
  <2>2. IsWellFoundedOn(StrictSubsetOrdering(S), FiniteSubsetsOf(S))
    BY FS_StrictSubsetOrderingWellFounded
  <2> HIDE DEF All
  <2>3. PICK B \in All : \A C \in All : <<C, B>> \notin StrictSubsetOrdering(S)
    BY <2>1, <2>2, WFMin, Zenon
  <2>4. PICK x \in S : B = From(x)
    BY DEF All
  <2>5. \A y \in S : From(y) \in All
    BY DEF All
  <2> HIDE DEF From
  <2> QED BY <2>3, <2>4, <2>5
<1>4. \A y \in S : y <= x
  <2> SUFFICES ASSUME NEW y \in S, x < y PROVE FALSE
    OBVIOUS
  <2>1. x \in Nat /\ y \in Nat
    OBVIOUS
  <2>2. \A z \in S : z \in Nat
    OBVIOUS
  <2>3. From(y) \subseteq From(x) /\ x \in From(x) /\ x \notin From(y)
    <3>1. \A z \in S : z >= y => z >= x
      BY <2>1, <2>2
    <3>2. x >= x /\ ~(x >= y)
      BY <2>1
    <3> QED BY <3>1, <3>2, Zenon
  <2>4. From(y) \in SUBSET S /\ From(x) \in SUBSET S /\ From(y) # From(x)
    BY <2>3, Zenon
  <2> HIDE DEF From
  <2> QED BY <1>3, <2>3, <2>4 DEF StrictSubsetOrdering
<1> QED BY <1>4 DEF Maximum

\* What a whole number of shares takes is not more than there is.
LEMMA SharesOf ==
  ASSUME NEW a \in Nat, NEW m \in Nat \ {0}, NEW n \in Nat, n <= a \div m
  PROVE  n * m <= a
<1> DEFINE q == a \div m
<1>1. q \in Nat /\ q * m <= a
  OBVIOUS
<1> HIDE DEF q
<1>2. PICK d \in Nat : q = n + d
  <2>1. q - n \in Nat /\ q = n + (q - n)
    BY <1>1 DEF q
  <2> QED BY <2>1
<1>3. q * m = n * m + d * m /\ d * m \in Nat /\ n * m \in Nat
  BY <1>2
<1> QED BY <1>1, <1>3
-----------------------------------------------------------------------------
(* What an entry asks and what its plan allows.                             *)

\* The numbers of an entry of the manifest.
LEMMA EntryNumbers ==
  ASSUME manifest \in Manifests, WellFormed(manifest), NEW e \in DOMAIN manifest
  PROVE  /\ e \in Nat
         /\ IsFiniteSet(Items(e)) /\ Items(e) # {}
         /\ \A i \in Items(e) : /\ Threads(e, i) \in Nat \ {0}
                                /\ Memory(e, i) \in Nat \ {0}
                                /\ Takes(e, i) \in Nat
                                /\ Takes(e, i) <= Threads(e, i) /\ Takes(e, i) <= Cores
         /\ Entry(e).cap \in Nat
<1> DEFINE n == Entry(e)
<1>1. /\ manifest \in Seq(Range(manifest)) /\ n.items \in Seq(ToSet(n.items))
      /\ n.threads \in [ToSet(n.items) -> Nat]
      /\ n.job \in Nat \ {0} /\ n.cap \in Nat
  BY ManifestAssumption
<1>2. n.items # << >>
  BY DEF WellFormed
<1> HIDE DEF n
<1>3. e \in Nat
  BY <1>1
<1>4. IsFiniteSet(Items(e)) /\ Items(e) # {}
  <2> DEFINE D == 1 .. Len(n.items)
  <2>1. DOMAIN n.items = D /\ Len(n.items) \in Nat /\ Len(n.items) # 0
    BY <1>1, <1>2
  <2>2. Items(e) = {n.items[k] : k \in D}
    BY <2>1 DEF Items, ToSet, n
  <2>3. IsFiniteSet(D) /\ 1 \in D
    <3>1. 1 \in Int /\ Len(n.items) \in Int
      BY <2>1
    <3> QED BY <2>1, <3>1, FS_Interval
  <2> DEFINE f == [k \in D |-> n.items[k]]
  <2>4. f \in Surjection(D, Items(e))
    <3> HIDE DEF D
    <3> QED BY <2>2 DEF Surjection
  <2> HIDE DEF D, f
  <2> QED BY <2>2, <2>3, <2>4, FS_Surjection
<1>5. ASSUME NEW i \in Items(e)
      PROVE  /\ Threads(e, i) \in Nat \ {0} /\ Memory(e, i) \in Nat \ {0}
             /\ Takes(e, i) \in Nat
             /\ Takes(e, i) <= Threads(e, i) /\ Takes(e, i) <= Cores
  <2>1. n.threads[i] \in Nat
    BY <1>1, <1>5 DEF Items, n
  <2>2. Threads(e, i) \in Nat \ {0}
    BY <2>1, HostAssumption DEF Threads, WholeHost, n
  <2>3. MemoryJobs(e, i) \in Nat \ {0}
    BY <2>2 DEF MemoryJobs
  <2>4. n.job \in Nat \ {0}
    BY <1>1
  <2>5. Memory(e, i) = MemoryJobs(e, i) * n.job
    BY DEF Memory, n
  <2> DEFINE a == MemoryJobs(e, i)
  <2> DEFINE b == n.job
  <2>6. a \in Nat \ {0} /\ b \in Nat \ {0}
    BY <2>3, <2>4
  <2>7. a * b \in Nat \ {0}
    <3> HIDE DEF a, b
    <3> QED BY <2>6
  <2> DEFINE S == {Threads(e, i), Cores}
  <2>8. S \in SUBSET Nat /\ S # {}
    BY <2>2, HostAssumption
  <2>9. Minimum(S) \in S /\ \A y \in S : Minimum(S) <= y
    BY <2>8, MinimumIsLeast
  <2>10. Takes(e, i) = Minimum(S)
    BY DEF Takes
  <2> QED BY <2>2, <2>5, <2>7, <2>8, <2>9, <2>10
<1> QED BY <1>1, <1>3, <1>4, <1>5 DEF n

\* plan_entry's concurrency: one when the memory of a job is not known, and
\* otherwise no more jobs than fit the memory together, but always one.
LEMMA ConcurrencyIs ==
  ASSUME manifest \in Manifests, WellFormed(manifest), NEW e \in DOMAIN manifest
  PROVE  /\ Concurrency(e) \in Nat /\ (~Known(e) => Concurrency(e) = 1)
         /\ Known(e) /\ Concurrency(e) > 1 =>
              \E m \in Nat : /\ \A i \in Items(e) : Memory(e, i) <= m
                             /\ Concurrency(e) * m <= Budget
<1> DEFINE T == {Threads(e, i) : i \in Items(e)}
<1> DEFINE M == {Memory(e, i) : i \in Items(e)}
<1> DEFINE perCore == Cores \div Minimum(T)
<1> DEFINE perMemory == Budget \div Maximum(M)
<1> DEFINE AtLeast1(n) == IF n < 1 THEN 1 ELSE n
<1> DEFINE C == {AtLeast1(perCore), AtLeast1(perMemory), MaxJobs}
                 \cup {c \in {Entry(e).cap} : c > 0}
                 \cup {1 : d \in {Entry(e).driver} \cap {"concurrency"}}
<1>1. Concurrency(e) = IF ~Known(e) THEN 1 ELSE Minimum(C)
  BY Zenon DEF Concurrency
<1>2. T \subseteq Nat \ {0} /\ T # {} /\ M \subseteq Nat \ {0} /\ M # {} /\ IsFiniteSet(M)
  <2>1. T \subseteq Nat \ {0} /\ T # {} /\ M \subseteq Nat \ {0} /\ M # {}
    BY EntryNumbers, Zenon
  <2> DEFINE f == [i \in Items(e) |-> Memory(e, i)]
  <2>2. f \in Surjection(Items(e), M)
    BY DEF Surjection
  <2>3. IsFiniteSet(M)
    <3> HIDE DEF f, M
    <3> QED BY <2>2, EntryNumbers, FS_Surjection
  <2> QED BY <2>1, <2>3
<1>3. Minimum(T) \in Nat \ {0}
  <2>1. T \in SUBSET Nat /\ T # {}
    BY <1>2
  <2> HIDE DEF T
  <2> QED BY <1>2, <2>1, MinimumIsLeast
<1>4. Maximum(M) \in Nat \ {0} /\ \A y \in M : y <= Maximum(M)
  <2>1. M \in SUBSET Nat /\ M # {} /\ IsFiniteSet(M)
    BY <1>2
  <2> HIDE DEF M
  <2> QED BY <1>2, <2>1, MaximumIsGreatest
<1> DEFINE min == Minimum(T)
<1> DEFINE max == Maximum(M)
<1>5. perCore \in Nat /\ perMemory \in Nat
  <2>1. Cores \div min \in Nat
    <3>1. min \in Nat \ {0} /\ Cores \in Nat
      BY <1>3, HostAssumption
    <3> HIDE DEF min
    <3> QED BY <3>1
  <2>2. Budget \div max \in Nat
    <3>1. max \in Nat \ {0} /\ Budget \in Nat
      BY <1>4, HostAssumption
    <3> HIDE DEF max
    <3> QED BY <3>1
  <2> QED BY <2>1, <2>2
<1>6. C \in SUBSET Nat /\ C # {}
  <2>1. Entry(e).cap \in Nat /\ MaxJobs \in Nat
    BY EntryNumbers, HostAssumption
  <2> HIDE DEF perCore, perMemory
  <2> QED BY <1>5, <2>1
<1>7. Minimum(C) \in Nat /\ Minimum(C) <= AtLeast1(perMemory)
  <2>1. Minimum(C) \in C /\ \A y \in C : Minimum(C) <= y
    <3> HIDE DEF C
    <3> QED BY <1>6, MinimumIsLeast
  <2>2. AtLeast1(perMemory) \in C
    BY Zenon
  <2> HIDE DEF C, AtLeast1
  <2> QED BY <1>6, <2>1, <2>2
<1>8. Concurrency(e) \in Nat /\ (~Known(e) => Concurrency(e) = 1)
  <2> HIDE DEF C
  <2> QED BY <1>1, <1>7
<1>9. ASSUME Known(e), Concurrency(e) > 1
      PROVE  \E m \in Nat : /\ \A i \in Items(e) : Memory(e, i) <= m
                            /\ Concurrency(e) * m <= Budget
  <2>1. max \in Nat \ {0} /\ \A i \in Items(e) : Memory(e, i) <= max
    <3>1. \A i \in Items(e) : Memory(e, i) \in M
      OBVIOUS
    <3> HIDE DEF M
    <3> QED BY <1>4, <3>1
  <2> DEFINE c == Concurrency(e)
  <2>2. c \in Nat /\ c > 1 /\ c <= AtLeast1(perMemory)
    <3> HIDE DEF C, AtLeast1
    <3> QED BY <1>1, <1>7, <1>8, <1>9
  <2>3. c <= perMemory
    <3> HIDE DEF c, perMemory
    <3> QED BY <1>5, <2>2
  <2>4. c * max <= Budget
    <3>1. Budget \in Nat /\ c <= Budget \div max
      BY <2>3, HostAssumption
    <3> HIDE DEF c, max
    <3> QED BY <2>1, <2>2, <3>1, SharesOf
  <2> QED BY <2>1, <2>4
<1> QED BY <1>8, <1>9
-----------------------------------------------------------------------------
(* The jobs in flight fit the host together.                                *)

\* What is planned of the entry at hand stands while it is at hand and no peak
\* is cached.
LEMMA PlanStands ==
  ASSUME UNCHANGED <<manifest, todo, cached>>
  PROVE  /\ At' = At /\ Items(At)' = Items(At) /\ Concurrency(At)' = Concurrency(At)
         /\ \A i : (Takes(At, i))' = Takes(At, i) /\ ((Fits(At, i))' <=> Fits(At, i))
<1>1. At' = At /\ Items(At)' = Items(At)
  BY DEF At, Items
<1>2. \A i : /\ (Threads(At, i))' = Threads(At, i) /\ ((WholeHost(At, i))' <=> WholeHost(At, i))
             /\ (Memory(At, i))' = Memory(At, i)
  BY <1>1 DEF Threads, WholeHost, Memory, MemoryJobs
<1>3. Known(At)' <=> Known(At)
  BY <1>1, Zenon DEF Known
<1>4. \A i : (Takes(At, i))' = Takes(At, i)
  BY <1>2 DEF Takes
<1>5. \A i : (Fits(At, i))' <=> Fits(At, i)
  BY <1>2, <1>3, Zenon DEF Fits
<1>6. Concurrency(At)' = Concurrency(At)
  <2>1. {Threads(At, i) : i \in Items(At)}' = {Threads(At, i) : i \in Items(At)}
    BY <1>1, <1>2
  <2>2. {Memory(At, i) : i \in Items(At)}' = {Memory(At, i) : i \in Items(At)}
    BY <1>1, <1>2
  <2>3. Entry(At)' = Entry(At)
    BY <1>1
  <2> HIDE DEF Entry
  <2> QED BY <1>3, <2>1, <2>2, <2>3, Zenon DEF Concurrency
<1> QED BY <1>1, <1>4, <1>5, <1>6

\* While an invocation runs, there is an entry at hand.
LEMMA EntryAtHand ==
  ASSUME HostInv, pc # "down"
  PROVE  At \in todo /\ At \in DOMAIN manifest
<1>1. todo \in SUBSET Nat /\ todo # {}
  BY EntryNumbers DEF HostInv
<1>2. At \in todo
  BY <1>1, MinimumIsLeast DEF At
<1> QED BY <1>2 DEF HostInv

\* What the jobs in flight ask can be summed.
LEMMA JobsAreFinite ==
  ASSUME HostInv, pc \in {"launch", "wait"}
  PROVE  /\ IsFiniteSet(Items(At)) /\ IsFiniteSet(running) /\ Cardinality(running) \in Nat
         /\ [i \in running |-> Takes(At, i)] \in [running -> Nat]
         /\ [i \in running |-> Threads(At, i)] \in [running -> Nat]
         /\ [i \in running |-> Memory(At, i)] \in [running -> Nat]
<1>1. At \in DOMAIN manifest /\ running \subseteq Items(At)
  BY EntryAtHand DEF HostInv, LaunchInv
<1>2. /\ IsFiniteSet(Items(At))
      /\ \A i \in Items(At) : /\ Threads(At, i) \in Nat \ {0} /\ Memory(At, i) \in Nat \ {0}
                              /\ Takes(At, i) \in Nat
  BY <1>1, EntryNumbers DEF HostInv
<1>3. IsFiniteSet(running) /\ Cardinality(running) \in Nat
  BY <1>1, <1>2, FS_Subset, FS_CardinalityType
<1> QED BY <1>1, <1>2, <1>3

\* The jobs that the plan lets run together have the memory together.
LEMMA LaunchedFit ==
  HostInv => FitTogether
<1> SUFFICES ASSUME HostInv, running # {}
             PROVE  /\ Total([i \in running |-> Takes(At, i)]) <= Cores
                    /\ IF Known(At) THEN Total([i \in running |-> Memory(At, i)]) <= Budget
                       ELSE Cardinality(running) = 1
  BY DEF FitTogether
<1>1. pc \in {"launch", "wait"} /\ LaunchInv
  BY DEF HostInv
<1>2. At \in DOMAIN manifest /\ manifest \in Manifests /\ WellFormed(manifest)
  BY <1>1, EntryAtHand DEF HostInv
<1>3. /\ IsFiniteSet(running) /\ Cardinality(running) \in Nat
      /\ [i \in running |-> Memory(At, i)] \in [running -> Nat]
  BY <1>1, JobsAreFinite
<1>4. Cardinality(running) # 0 /\ Cardinality(running) <= Concurrency(At)
  BY <1>1, <1>3, FS_EmptySet DEF LaunchInv
<1>5. CASE ~Known(At)
  BY <1>1, <1>2, <1>3, <1>4, <1>5, ConcurrencyIs DEF LaunchInv
<1>6. CASE Known(At)
  <2> DEFINE mem == [i \in running |-> Memory(At, i)]
  <2> DEFINE n == Cardinality(running)
  <2> DEFINE c == Concurrency(At)
  <2>1. \E m \in Nat : (\A i \in running : mem[i] <= m) /\ n * m <= Budget
    <3>1. CASE n = 1
      <4>1. PICK i : running = {i}
        BY <1>3, <3>1, FS_Singleton
      <4>2. Memory(At, i) <= Budget /\ Memory(At, i) \in Nat
        BY <1>1, <1>3, <1>6, <4>1 DEF LaunchInv, Fits
      <4> QED BY <3>1, <4>1, <4>2
    <3>2. CASE n # 1
      <4>1. c \in Nat /\ n <= c /\ n > 1
        BY <1>2, <1>3, <1>4, <3>2, ConcurrencyIs
      <4>2. c > 1
        <5> HIDE DEF c, n
        <5> QED BY <1>3, <4>1 DEF n
      <4>3. PICK m \in Nat : (\A i \in Items(At) : Memory(At, i) <= m) /\ c * m <= Budget
        BY <1>2, <1>6, <4>2, ConcurrencyIs
      <4>4. \A i \in running : mem[i] <= m
        BY <1>1, <4>3 DEF LaunchInv
      <4>5. n * m <= c * m
        <5> HIDE DEF c, n
        <5>1. n \in Nat /\ c \in Nat /\ c - n \in Nat
          BY <1>3, <4>1 DEF n
        <5>2. c * m = n * m + (c - n) * m /\ (c - n) * m \in Nat /\ n * m \in Nat
          BY <5>1
        <5> QED BY <5>2
      <4>6. n * m <= Budget
        <5> HIDE DEF c, n
        <5>1. n * m \in Nat /\ c * m \in Nat
          BY <1>3, <4>1 DEF n
        <5> QED BY <4>3, <4>5, <5>1, HostAssumption
      <4> QED BY <4>4, <4>6
    <3> QED BY <3>1, <3>2
  <2>2. PICK m \in Nat : (\A i \in running : mem[i] <= m) /\ n * m <= Budget
    BY <2>1
  <2> HIDE DEF mem, n
  <2>3. Total(mem) <= n * m
    BY <1>3, <2>2, TotalIsBounded DEF mem, n
  <2>4. Total(mem) \in Nat
    BY <1>3, TotalIsNat DEF mem
  <2>5. n * m \in Nat
    BY <1>3, <2>2 DEF n
  <2>6. Total(mem) <= Budget
    BY <2>2, <2>3, <2>4, <2>5, HostAssumption
  <2> QED BY <1>1, <1>6, <2>6 DEF mem, LaunchInv
<1> QED BY <1>5, <1>6

\* A record is written for the entry at hand, by a driver that has records.
LEMMA RecordsStay ==
  ASSUME FolderDriversRecordNothing, ResultsChange
  PROVE  FolderDriversRecordNothing'
  BY DEF FolderDriversRecordNothing, ResultsChange

\* Between two entries, and before the first job of one, nothing is in flight.
LEMMA NothingLaunched ==
  ASSUME HostInv, ResultsChange, todo' \subseteq todo,
         pc' \notin {"launch", "wait"}, pc' # "down" => todo' # {},
         queue' = {}, running' = {}
  PROVE  HostInv'
  BY RecordsStay DEF HostInv, ResultsChange

\* plan_entry's queue is of items that fit alone and have no record.
LEMMA PlanStarts ==
  ASSUME HostInv, Plan
  PROVE  HostInv'
<1> USE DEF results, jobs, BeginPass
<1>1. At \in DOMAIN manifest /\ UNCHANGED <<manifest, cached, recorded, running, todo>>
  BY EntryAtHand DEF Plan
<1>2. running = {} /\ running' = {}
  BY <1>1 DEF HostInv, Plan
<1>3. /\ At' = At /\ Items(At)' = Items(At) /\ Concurrency(At)' = Concurrency(At)
      /\ \A i : (Fits(At, i))' <=> Fits(At, i)
  BY <1>1, PlanStands, Zenon
<1>4. ResultsChange /\ FolderDriversRecordNothing'
  BY StepsChange, RecordsStay DEF HostInv, Next, Step
<1>5. CASE queue' = {}
  <2>1. pc' = "finish" /\ todo' # {}
    BY <1>1, <1>5, EntryAtHand DEF Plan
  <2> QED BY <1>1, <1>2, <1>4, <1>5, <2>1, NothingLaunched
<1>6. CASE queue' # {}
  <2>1. pc' = "launch" /\ unseen' = queue' /\ used' = InUse(At, {}) /\ conc' = Concurrency(At)
    BY <1>2, <1>6 DEF Plan
  <2>2. queue' \subseteq Items(At) /\ \A i \in queue' : Fits(At, i) /\ i \notin Done(At)
    BY DEF Plan
  <2>3. \A i \in queue' : <<At, i>> \notin recorded
    <3> SUFFICES ASSUME NEW i \in queue', <<At, i>> \in recorded PROVE FALSE
      OBVIOUS
    <3>1. ~InFolder(At)
      BY DEF HostInv, FolderDriversRecordNothing
    <3>2. i \in Measured(At)
      BY <2>2, <3>1 DEF Measured
    <3> QED BY <2>2, <3>2 DEF Done, Measured
  <2>4. used' = 0
    BY <2>1, TotalOfNone DEF InUse
  <2>5. Total([i \in running |-> Takes(At, i)])' = 0
    <3>1. Total([i \in {} |-> (Takes(At, i))']) = 0
      BY TotalOfNone
    <3> QED BY <1>2, <3>1
  <2>6. Concurrency(At) \in Nat /\ Cardinality(running') = 0
    BY <1>1, <1>2, ConcurrencyIs, FS_EmptySet DEF HostInv
  <2>7. LaunchInv'
    BY <1>1, <1>2, <1>3, <2>1, <2>2, <2>3, <2>4, <2>5, <2>6, HostAssumption DEF LaunchInv
  <2> QED BY <1>1, <1>4, <2>1, <2>7 DEF HostInv, Plan
<1> QED BY <1>5, <1>6

\* A job started alone takes at most the cores; one started beside others
\* takes what the count of the threads in use leaves.
LEMMA LaunchKeeps ==
  ASSUME HostInv, Launch
  PROVE  HostInv'
<1> USE DEF results
<1>1. /\ pc = "launch" /\ pc' = "launch" /\ LaunchInv /\ At \in DOMAIN manifest
      /\ UNCHANGED <<manifest, todo, cached, recorded, conc>>
      /\ Cardinality(running) < conc
  BY EntryAtHand DEF HostInv, Launch
<1>2. /\ At' = At /\ Items(At)' = Items(At) /\ Concurrency(At)' = Concurrency(At)
      /\ \A i : (Takes(At, i))' = Takes(At, i) /\ ((Fits(At, i))' <=> Fits(At, i))
  BY <1>1, PlanStands, Zenon
<1>3. /\ IsFiniteSet(running) /\ Cardinality(running) \in Nat
      /\ [i \in running |-> Takes(At, i)] \in [running -> Nat]
  BY <1>1, JobsAreFinite
<1>4. /\ manifest \in Manifests /\ WellFormed(manifest)
      /\ \A i \in Items(At) : Takes(At, i) \in Nat /\ Takes(At, i) <= Cores
      /\ conc \in Nat
  BY <1>1, EntryNumbers, ConcurrencyIs DEF HostInv, LaunchInv
<1> DEFINE takes(R) == Total([i \in R |-> Takes(At, i)])
<1>5. takes(running) \in Nat
  BY <1>3, TotalIsNat
<1>6. Total([i \in running |-> Takes(At, i)])' = takes(running')
  BY <1>2, Zenon
<1>7. PICK i \in unseen :
        /\ unseen' = unseen \ {i}
        /\ IF running # {} /\ used + Takes(At, i) > Cores
           THEN UNCHANGED <<queue, running, used>>
           ELSE /\ queue' = queue \ {i}
                /\ Start(i) \/ UNCHANGED <<running, used>>
  BY DEF Launch
<1>8. i \in queue /\ i \in Items(At) /\ i \notin running /\ Fits(At, i)
  BY <1>1, <1>7 DEF LaunchInv
<1>9. SUFFICES LaunchInv'
  BY <1>1, <1>9 DEF HostInv, FolderDriversRecordNothing
<1> HIDE DEF takes
<1>10. CASE UNCHANGED <<running, used>>
  <2>1. queue' \subseteq queue /\ unseen' \subseteq queue'
    BY <1>1, <1>7, <1>10 DEF LaunchInv, Start
  <2>2. takes(running') = takes(running) /\ Total([j \in running |-> Takes(At, j)]) = takes(running)
    BY <1>10 DEF takes
  <2> QED BY <1>1, <1>2, <1>6, <1>10, <2>1, <2>2 DEF LaunchInv
<1>11. CASE ~UNCHANGED <<running, used>>
  <2>1. /\ queue' = queue \ {i} /\ unseen' = unseen \ {i}
        /\ running' = running \cup {i} /\ used' = used + Takes(At, i)
        /\ running = {} \/ used + Takes(At, i) <= Cores
    <3>1. used \in Nat /\ Takes(At, i) \in Nat /\ Cores \in Nat
      BY <1>1, <1>4, <1>8, HostAssumption DEF LaunchInv
    <3> QED BY <1>7, <1>11, <3>1 DEF Start
  <2>2. takes(running') = takes(running) + Takes(At, i)
    <3> DEFINE b == [j \in running \cup {i} |-> Takes(At, j)]
    <3>1. b \in [running \cup {i} -> Nat]
      BY <1>3, <1>4, <1>8
    <3>2. b[i] = Takes(At, i) /\ [j \in running |-> b[j]] = [j \in running |-> Takes(At, j)]
      OBVIOUS
    <3>3. takes(running') = Total(b)
      BY <2>1 DEF takes
    <3> HIDE DEF b
    <3>4. Total(b) = Total([j \in running |-> b[j]]) + b[i]
      BY <1>3, <1>8, <3>1, TotalOfOneMore
    <3> QED BY <3>2, <3>3, <3>4 DEF takes
  <2>3. running = {} => takes(running) = 0
    BY TotalOfNone DEF takes
  <2>4. takes(running) <= used /\ used \in Nat
    BY <1>1 DEF LaunchInv, takes
  <2>5. takes(running') <= Cores /\ takes(running') <= used' /\ used' \in Nat
    BY <1>4, <1>5, <1>8, <2>1, <2>2, <2>3, <2>4, HostAssumption
  <2>6. Cardinality(running') = Cardinality(running) + 1
    BY <1>3, <1>8, <2>1, FS_AddElement
  <2>7. Cardinality(running') <= conc
    BY <1>1, <1>3, <1>4, <2>6
  <2>8. /\ queue' \subseteq Items(At) /\ running' \subseteq Items(At)
        /\ queue' \cap running' = {} /\ unseen' \subseteq queue'
        /\ \A j \in queue' \cup running' : Fits(At, j)
        /\ \A j \in queue' : <<At, j>> \notin recorded
    BY <1>1, <1>8, <2>1 DEF LaunchInv
  <2> QED BY <1>1, <1>2, <1>6, <2>5, <2>7, <2>8 DEF LaunchInv
<1> QED BY <1>10, <1>11

\* The runner waits for a job, and gives up when there is none.
LEMMA WaitKeeps ==
  ASSUME HostInv, Wait
  PROVE  HostInv'
<1> USE DEF results, jobs
<1>1. /\ pc = "launch" /\ LaunchInv /\ UNCHANGED <<manifest, cached, recorded, conc>>
      /\ FolderDriversRecordNothing
  BY DEF HostInv, Wait
<1>2. CASE running = {}
  <2>1. ResultsChange
    BY StepsChange DEF Next, Step
  <2> QED BY <1>2, <2>1, NothingLaunched DEF Wait, NoJobs
<1>3. CASE running # {}
  <2>1. UNCHANGED <<todo, queue, running>> /\ pc' = "wait" /\ unseen' = {}
    BY <1>3 DEF Wait
  <2>2. /\ At' = At /\ Items(At)' = Items(At) /\ Concurrency(At)' = Concurrency(At)
        /\ \A i : (Takes(At, i))' = Takes(At, i) /\ ((Fits(At, i))' <=> Fits(At, i))
    BY <1>1, <2>1, PlanStands, Zenon
  <2>3. Total([i \in running |-> Takes(At, i)])' = Total([i \in running |-> Takes(At, i)])
    <3>1. running' = running
      BY <2>1
    <3> QED BY <2>2, <3>1, Zenon
  <2>4. LaunchInv'
    BY <1>1, <2>1, <2>2, <2>3 DEF LaunchInv
  <2> QED BY <1>1, <2>1, <2>4 DEF HostInv, FolderDriversRecordNothing
<1> QED BY <1>2, <1>3

\* A job that ends makes room, and the next pass counts no fewer threads than
\* the others take.
LEMMA JobEndsKeeps ==
  ASSUME HostInv, NEW i \in running, JobEnds(i)
  PROVE  HostInv'
<1> USE DEF results, jobs
<1>1. /\ pc = "wait" /\ LaunchInv /\ At \in DOMAIN manifest
      /\ UNCHANGED <<manifest, cached, conc>> /\ FolderDriversRecordNothing
  BY EntryAtHand DEF HostInv, JobEnds
<1> DEFINE Goes == /\ running' = running \ {i} /\ UNCHANGED queue
                   /\ IF queue # {} \/ running' # {} THEN BeginPass
                      ELSE GoTo("finish") /\ UNCHANGED <<unseen, used>>
<1>2. \/ Goes /\ (recorded' = Record(At, i) \/ UNCHANGED recorded)
      \/ pc' = "down" /\ todo' = {} /\ NoJobs
  BY DEF JobEnds, FinishItem
<1>3. ResultsChange /\ FolderDriversRecordNothing'
  BY <1>1, StepsChange, RecordsStay DEF Next, Step
<1>4. CASE pc' = "down" /\ todo' = {} /\ NoJobs
  BY <1>3, <1>4, NothingLaunched DEF NoJobs
<1>5. CASE Goes /\ queue = {} /\ running' = {}
  <2>1. UNCHANGED todo /\ pc' = "finish" /\ queue' = {} /\ todo' # {}
    BY <1>1, <1>5 DEF HostInv
  <2> QED BY <1>1, <1>3, <1>5, <2>1, NothingLaunched
<1>6. CASE Goes /\ (queue # {} \/ running' # {})
  <2>1. /\ running' = running \ {i} /\ UNCHANGED <<queue, todo>>
        /\ pc' = "launch" /\ unseen' = queue' /\ used' = InUse(At, running')
    BY <1>6 DEF BeginPass
  <2>2. /\ At' = At /\ Items(At)' = Items(At) /\ Concurrency(At)' = Concurrency(At)
        /\ \A j : (Takes(At, j))' = Takes(At, j) /\ ((Fits(At, j))' <=> Fits(At, j))
    BY <1>1, <2>1, PlanStands, Zenon
  <2> DEFINE a == [j \in running |-> Takes(At, j)]
  <2> DEFINE b == [j \in running' |-> Takes(At, j)]
  <2> DEFINE t == [j \in running' |-> Threads(At, j)]
  <2>3. Total([j \in running |-> Takes(At, j)])' = Total(b)
    BY <2>2, Zenon
  <2>4. running' \subseteq running /\ running' \subseteq Items(At)
    BY <1>1, <2>1 DEF LaunchInv
  <2>5. IsFiniteSet(running) /\ IsFiniteSet(running') /\ Cardinality(running') <= Cardinality(running)
    BY <1>1, <2>4, JobsAreFinite, FS_Subset
  <2>6. /\ \A j \in running' : /\ Threads(At, j) \in Nat /\ Takes(At, j) \in Nat
                              /\ Takes(At, j) <= Threads(At, j)
    BY <1>1, <2>4, EntryNumbers DEF HostInv
  <2>7. a \in [running -> Nat] /\ b \in [running' -> Nat] /\ t \in [running' -> Nat]
    BY <1>1, <2>6, JobsAreFinite
  <2>8. /\ \A j \in running' : b[j] <= a[j]
        /\ \A j \in running' : b[j] <= t[j]
    BY <2>4, <2>6
  <2> HIDE DEF a, b, t
  <2>9. Total(b) <= Total(a) /\ Total(b) <= Total(t)
    BY <2>4, <2>5, <2>7, <2>8, TotalOfSmaller
  <2>10. Total(a) \in Nat /\ Total(b) \in Nat /\ Total(t) \in Nat
    BY <2>5, <2>7, TotalIsNat
  <2>11. used' = Total(t) /\ Total(a) <= Cores
    BY <1>1, <2>1 DEF t, a, InUse, LaunchInv
  <2>12. Total(b) <= Cores /\ Total(b) <= used' /\ used' \in Nat
    BY <2>9, <2>10, <2>11, HostAssumption
  <2>13. Cardinality(running') <= conc
    <3>1. Cardinality(running) \in Nat /\ Cardinality(running') \in Nat
      BY <2>5, FS_CardinalityType
    <3>2. conc \in Nat /\ Cardinality(running) <= conc
      BY <1>1, ConcurrencyIs DEF HostInv, LaunchInv
    <3> QED BY <2>5, <3>1, <3>2
  <2>14. \A j \in queue : <<At, j>> \notin recorded'
    <3> SUFFICES ASSUME NEW j \in queue, <<At, j>> \in recorded' PROVE FALSE
      OBVIOUS
    <3>1. j # i /\ <<At, j>> \notin recorded
      BY <1>1 DEF LaunchInv
    <3>2. recorded' = Record(At, i) \/ UNCHANGED recorded
      BY <1>2, <1>6 DEF BeginPass
    <3> QED BY <3>1, <3>2, OneIsRecorded
  <2>15. LaunchInv'
    BY <1>1, <2>1, <2>2, <2>3, <2>4, <2>12, <2>13, <2>14 DEF LaunchInv
  <2> QED BY <1>1, <1>3, <2>1, <2>15 DEF HostInv
<1> QED BY <1>2, <1>4, <1>5, <1>6

\* Any step keeps HostInv.
LEMMA HostInvKept ==
  HostInv /\ [Next]_vars => HostInv'
<1> SUFFICES ASSUME HostInv, [Next]_vars PROVE HostInv'
  OBVIOUS
<1> USE DEF results, jobs, NoJobs
<1>r. ResultsChange /\ FolderDriversRecordNothing'
  BY StepsChange, RecordsStay DEF HostInv
<1>1. ASSUME NEW only \in (SUBSET DOMAIN manifest) \ {{}}, Invoke(only) PROVE HostInv'
  <2>1. /\ UNCHANGED manifest /\ pc' = "enter"
        /\ todo' \subseteq DOMAIN manifest' /\ todo' # {}
        /\ queue' = {} /\ running' = {}
    BY <1>1 DEF Invoke, HostInv
  <2> QED BY <1>r, <2>1 DEF HostInv
<1>2. CASE Enter
  <2>1. pc = "enter" /\ todo # {} /\ queue = {} /\ running = {}
    BY <1>2 DEF Enter, HostInv
  <2>2. /\ todo' \subseteq todo /\ pc' \in {"down", "enter", "probe", "plan"}
        /\ pc' # "down" => todo' # {}
        /\ queue' = {} /\ running' = {}
    BY <1>2, <2>1 DEF Enter
  <2> QED BY <1>r, <2>2, NothingLaunched
<1>3. CASE ProbeEnds
  <2>1. pc = "probe" /\ queue = {} /\ running = {} /\ todo # {}
    BY <1>3 DEF ProbeEnds, HostInv
  <2>2. (GoTo("plan") /\ UNCHANGED jobs) \/ (pc' = "down" /\ todo' = {} /\ NoJobs)
    BY <1>3, Zenon DEF ProbeEnds, FinishItem
  <2>3. /\ todo' \subseteq todo /\ pc' \in {"plan", "down"} /\ (pc' # "down" => todo' # {})
        /\ queue' = {} /\ running' = {}
    BY <2>1, <2>2
  <2> QED BY <1>r, <2>3, NothingLaunched
<1>4. CASE Plan
  BY <1>4, PlanStarts
<1>5. CASE Launch
  BY <1>5, LaunchKeeps
<1>6. CASE Wait
  BY <1>6, WaitKeeps
<1>7. ASSUME NEW i \in running, JobEnds(i) PROVE HostInv'
  BY <1>7, JobEndsKeeps
<1>8. CASE Finish
  <2>1. pc = "finish" /\ queue = {} /\ running = {}
    BY <1>8 DEF Finish, HostInv
  <2>2. /\ todo' \subseteq todo /\ pc' \in {"down", "enter"} /\ (pc' # "down" => todo' # {})
        /\ queue' = {} /\ running' = {}
    BY <1>8, <2>1 DEF Finish
  <2> QED BY <1>r, <2>2, NothingLaunched
<1>9. CASE Kill
  BY <1>r, <1>9, NothingLaunched DEF Kill
<1>10. CASE UNCHANGED vars \/ \E o \in orphans : OrphanEnds(o)
  <2>1. UNCHANGED <<manifest, pc, todo, queue, unseen, used, running, conc, cached, recorded>>
    BY <1>10 DEF vars, OrphanEnds
  <2>2. /\ At' = At /\ Items(At)' = Items(At) /\ Concurrency(At)' = Concurrency(At)
        /\ \A i : (Takes(At, i))' = Takes(At, i) /\ ((Fits(At, i))' <=> Fits(At, i))
    BY <2>1, PlanStands, Zenon
  <2>3. Total([i \in running |-> Takes(At, i)])' = Total([i \in running |-> Takes(At, i)])
    <3>1. running' = running
      BY <2>1
    <3> QED BY <2>2, <3>1, Zenon
  <2>4. LaunchInv => LaunchInv'
    BY <2>1, <2>2, <2>3 DEF LaunchInv
  <2> QED BY <1>r, <2>1, <2>4 DEF HostInv
<1> QED BY <1>1, <1>2, <1>3, <1>4, <1>5, <1>6, <1>7, <1>8, <1>9, <1>10 DEF Next, Step

LEMMA HostInvHolds ==
  Spec => []HostInv
<1>1. Init => HostInv
  BY DEF Init, HostInv, FolderDriversRecordNothing
<1> QED BY <1>1, HostInvKept, PTL DEF Spec

\* The jobs in flight of an invocation never take more threads than the host has
\* cores, nor more memory than the budget, and run one at a time while their
\* memory is unknown, whatever the invocations before it have left done.  Jobs
\* that those have left running come on top.
THEOREM JobsFitTogether ==
  Spec => []FitTogether
  BY HostInvHolds, LaunchedFit, PTL

\* Faults are counted.
FaultsCount == faults \in Nat

LEMMA FaultsAreCounted ==
  Spec => []FaultsCount
<1>1. Init => FaultsCount
  BY DEF Init, FaultsCount
<1>2. FaultsCount /\ [Next]_vars => FaultsCount'
  <2> SUFFICES ASSUME FaultsCount, [Next]_vars
               PROVE  UNCHANGED faults \/ faults' = faults + 1
    BY DEF FaultsCount
  <2> USE DEF Fault
  <2>1. CASE Enter \/ Plan \/ Launch \/ Wait \/ Kill
    BY <2>1 DEF Enter, Plan, Launch, Wait, Kill
  <2>2. CASE ProbeEnds
    BY <2>2 DEF ProbeEnds, FinishItem, TearResults
  <2>3. ASSUME NEW i \in running, JobEnds(i) PROVE UNCHANGED faults \/ faults' = faults + 1
    BY <2>3 DEF JobEnds, FinishItem, TearResults
  <2>4. CASE Finish
    BY <2>4 DEF Finish, TearResults
  <2>5. CASE \/ \E only \in (SUBSET DOMAIN manifest) \ {{}} : Invoke(only)
             \/ \E o \in orphans : OrphanEnds(o)
    BY <2>5 DEF Invoke, OrphanEnds
  <2>6. CASE UNCHANGED vars
    BY <2>6 DEF vars
  <2> HIDE DEF Fault
  <2> QED BY <2>1, <2>2, <2>3, <2>4, <2>5, <2>6 DEF Next, Step
<1> QED BY <1>1, <1>2, PTL DEF Spec

\* A record or a summary is lost only with a file that a kill has hit as the
\* runner wrote it for the entry at hand: by no other step of the runner, no
\* other kill and no job that goes on.  And no job of the queue is started for an
\* item that has a record.
THEOREM ResultsAreKept ==
  Spec => KeepsResults
<1> DEFINE Keeps ==
      /\ \A e \in {x[1] : x \in recorded \ recorded'} \cup (summary \ summary') :
           pc' = "down" /\ faults' # faults /\ File(e) \in torn' /\ File(e) = File(At)
      /\ \A i \in running' \ running : <<At, i>> \notin recorded
<1>1. ASSUME HostInv, FaultsCount, [Next]_vars
      PROVE  [Keeps]_vars
  <2>1. faults + 1 # faults
    BY <1>1 DEF FaultsCount
  <2>2. \A e \in {x[1] : x \in recorded \ recorded'} \cup (summary \ summary') :
          pc' = "down" /\ faults' # faults /\ File(e) \in torn' /\ File(e) = File(At)
    BY <1>1, <2>1, StepsChange DEF ResultsChange
  <2>3. CASE Launch
    <3>1. running' \subseteq running \cup unseen
      BY <2>3 DEF Launch, Start
    <3>2. \A i \in unseen : <<At, i>> \notin recorded
      BY <1>1, <2>3 DEF HostInv, LaunchInv, Launch
    <3> QED BY <2>2, <3>1, <3>2
  <2>4. CASE Next /\ ~Launch
    <3> SUFFICES running' \subseteq running
      BY <2>2
    <3> USE DEF NoJobs, jobs
    <3>1. CASE Enter \/ Plan \/ Wait \/ Finish \/ Kill
      BY <3>1 DEF Enter, Plan, Wait, Finish, Kill
    <3>2. CASE ProbeEnds
      <4>1. UNCHANGED running \/ running' = {}
        BY <3>2 DEF ProbeEnds, FinishItem
      <4> QED BY <4>1
    <3>3. ASSUME NEW j \in running, JobEnds(j) PROVE running' \subseteq running
      <4>1. running' = running \ {j} \/ running' = {}
        BY <3>3 DEF JobEnds, FinishItem
      <4> QED BY <4>1
    <3>4. CASE \/ \E only \in (SUBSET DOMAIN manifest) \ {{}} : Invoke(only)
               \/ \E o \in orphans : OrphanEnds(o)
      BY <3>4 DEF Invoke, OrphanEnds
    <3> QED BY <2>4, <3>1, <3>2, <3>3, <3>4 DEF Next, Step
  <2> QED BY <1>1, <2>3, <2>4
<1> QED BY <1>1, HostInvHolds, FaultsAreCounted, PTL DEF Spec, KeepsResults
=============================================================================
