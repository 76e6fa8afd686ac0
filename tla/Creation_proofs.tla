--------------------------- MODULE Creation_proofs ---------------------------
(***************************************************************************)
(* Theorems about CreateRun, for any number of calls, and about Sweep, for  *)
(* any sets of runs, recipes and calls: dying anywhere, with the library   *)
(* edited at any time.                                                     *)
(***************************************************************************)
EXTENDS CreateRun, Sweep, SequenceTheorems, TLAPS

-----------------------------------------------------------------------------
(* CreateRun.                                                              *)

USE DEF At, Goto, Decide, Ended, Complete, Incomplete, Nothing, Clear

\* A call has no result before it has decided.  When nothing incomplete was in the way
\* the target is empty or a complete run, so nobody moves it aside and a failed
\* rename means that another call won.
RaceInv ==
  /\ TypeOK
  /\ \A c \in Creators :
       /\ pc[c] \in {"probe", "build", "inspect", "aside", "publish", "recheck"}
            => result[c] = "none"
       /\ Clear => /\ pc[c] # "aside"
                   /\ pc[c] = "recheck" => Complete
                   /\ result[c] # "raised"
  /\ Clear => target \in {Nothing} \cup Creators

LEMMA RaceInvariant ==
  Spec => []RaceInv
<1>1. Init => RaceInv
  BY LeftoverAssumption, CreatorAssumption DEF Init, RaceInv, TypeOK, Labels
<1>2. RaceInv /\ [Next]_vars => RaceInv'
  <2> SUFFICES ASSUME RaceInv, [Next]_vars PROVE RaceInv'
    OBVIOUS
  <2> USE CreatorAssumption DEF RaceInv, TypeOK, Labels
  <2>1. ASSUME NEW c \in Creators, CreatorStep(c) PROVE RaceInv'
    <3>1. CASE Probe(c)     BY <3>1 DEF Probe
    <3>2. CASE Build(c)     BY <3>2 DEF Build
    <3>3. CASE Refuse(c)    BY <3>3 DEF Refuse
    <3>4. CASE Inspect(c)   BY <3>4 DEF Inspect
    <3>5. CASE MoveAside(c) BY <3>5 DEF MoveAside
    <3>6. CASE Publish(c)   BY <3>6 DEF Publish
    <3>7. CASE Recheck(c)   BY <3>7 DEF Recheck
    <3>8. CASE Clean(c)     BY <3>8 DEF Clean
    <3>9. QED BY <2>1, <3>1, <3>2, <3>3, <3>4, <3>5, <3>6, <3>7, <3>8 DEF CreatorStep
  <2>2. ASSUME NEW c \in Creators, Crash(c) PROVE RaceInv'
    BY <2>2 DEF Crash
  <2>3. CASE UNCHANGED vars
    BY <2>3 DEF vars
  <2>4. QED BY <2>1, <2>2, <2>3 DEF Next
<1>3. QED BY <1>1, <1>2, PTL DEF Spec

\* No create_run fails because another one was faster.
THEOREM NobodyLosesTheRace ==
  Spec => []NobodyLoses
<1>1. RaceInv => NobodyLoses
  BY DEF RaceInv, NobodyLoses
<1>2. QED BY <1>1, RaceInvariant, PTL

\* Nobody renames onto a leftover with files in it or an empty one: whoever
\* found it there moves it aside first.  Once a call has an answer, or a rename
\* has failed, the run is complete or somebody is about to rename; a call that
\* was lost there is the one way to leave nothing.
EndInv ==
  /\ TypeOK
  /\ \A c \in Creators :
       /\ pc[c] \in {"publish", "recheck"} => target \notin Incomplete
       /\ pc[c] = "done" => result[c] # "none"
       /\ pc[c] = "clean" => result[c] # "none"
       /\ pc[c] = "recheck" \/ result[c] \in {"created", "exists", "raised"}
            => Complete \/ \E d \in Creators : pc[d] \in {"publish", "lost"}

\* When every call has ended or died, none of them between moving something
\* aside and its rename, and some call was told of the run, the run is complete
\* at its place, whatever was in the way.
THEOREM LeftoversGiveWay ==
  Spec => []EndsComplete
<1>1. Init => EndInv
  BY LeftoverAssumption, CreatorAssumption DEF Init, EndInv, TypeOK, Labels
<1>2. EndInv /\ [Next]_vars => EndInv'
  <2> SUFFICES ASSUME EndInv, [Next]_vars PROVE EndInv'
    OBVIOUS
  <2> USE CreatorAssumption DEF EndInv, TypeOK, Labels
  <2>1. ASSUME NEW c \in Creators, CreatorStep(c) PROVE EndInv'
    <3>1. CASE Probe(c)     BY <3>1 DEF Probe
    <3>2. CASE Build(c)     BY <3>2 DEF Build
    <3>3. CASE Refuse(c)    BY <3>3 DEF Refuse
    <3>4. CASE Inspect(c)   BY <3>4 DEF Inspect
    <3>5. CASE MoveAside(c) BY <3>5 DEF MoveAside
    <3>6. CASE Publish(c)   BY <3>6 DEF Publish
    <3>7. CASE Recheck(c)   BY <3>7 DEF Recheck
    <3>8. CASE Clean(c)     BY <3>8 DEF Clean
    <3>9. QED BY <2>1, <3>1, <3>2, <3>3, <3>4, <3>5, <3>6, <3>7, <3>8 DEF CreatorStep
  <2>2. ASSUME NEW c \in Creators, Crash(c) PROVE EndInv'
    BY <2>2 DEF Crash
  <2>3. CASE UNCHANGED vars
    BY <2>3 DEF vars
  <2>4. QED BY <2>1, <2>2, <2>3 DEF Next
<1>3. EndInv => EndsComplete
  <2> SUFFICES ASSUME EndInv, \A c \in Creators : pc[c] \in Ended \ {"lost"},
                      NEW c \in Creators, result[c] \notin {"none", "refused"}
               PROVE  Complete
    BY DEF EndsComplete
  <2>1. result[c] \in {"created", "exists", "raised"}
    BY DEF EndInv, TypeOK
  <2>2. \A d \in Creators : pc[d] \notin {"publish", "lost"}
    OBVIOUS
  <2>3. QED BY <2>1, <2>2 DEF EndInv
<1>4. QED BY <1>1, <1>2, <1>3, PTL DEF Spec

\* Each call takes effect at one instant: exactly one creates the run, whose
\* directory then stays, and the others find it.
THEOREM ImplementsCreation ==
  Spec => CreationSpec
<1> USE CreatorAssumption
<1>1. Init => Creation!Init
  BY LeftoverAssumption DEF Init, Creation!Init, Answer, Owner
<1>2. RaceInv /\ [Next]_vars
        => [Creation!Next]_<<Owner, Answer>>
  <2> SUFFICES ASSUME RaceInv, Next
               PROVE  \/ Creation!Next
                      \/ UNCHANGED <<Owner, Answer>>
    BY DEF vars, Answer, Owner
  <2> USE DEF RaceInv, TypeOK, Labels, Answer, Owner
  <2> DEFINE Same == UNCHANGED <<Owner, Answer>>
  <2>1. ASSUME NEW c \in Creators, Complete, UNCHANGED first, UNCHANGED target, Decide(c, "exists"),
               result[c] = "none"
        PROVE  Creation!Next \/ Same
    <3>1. result' = [result EXCEPT ![c] = "exists"]
      BY <2>1 DEF Decide
    <3>2. CASE ~Clear
      BY <2>1, <3>2 DEF Clear
    <3>3. CASE Clear
      <4>1. Clear'
        BY <2>1, <3>3 DEF Clear
      <4>2. Answer' = [Answer EXCEPT ![c] = "exists"] /\ Answer[c] = "none"
        BY <2>1, <3>1, <3>3, <4>1
      <4>3. Owner' = Owner /\ Owner # NoCreator
        BY <2>1, <3>3, <4>1 DEF Complete
      <4>4. Creation!Find(c)
        BY <4>2, <4>3 DEF Creation!Find
      <4>5. QED BY <4>4 DEF Creation!Next
    <3>4. QED BY <3>2, <3>3
  <2>2. ASSUME NEW c \in Creators, CreatorStep(c) PROVE Creation!Next \/ Same
    <3>1. CASE Probe(c)     BY <2>1, <3>1 DEF Probe
    <3>2. CASE Build(c)     BY <3>2 DEF Build
    <3>3. CASE Refuse(c)    BY <3>3 DEF Refuse
    <3>4. CASE Inspect(c)   BY <2>1, <3>4 DEF Inspect
    <3>5. CASE MoveAside(c) BY <3>5 DEF MoveAside
    <3>6. CASE Publish(c)
      <4>1. CASE ~Clear
        BY <3>6, <4>1 DEF Publish
      <4>2. CASE Clear /\ target = Nothing
        <5>1. /\ target' = c /\ first' = first /\ result[c] = "none"
              /\ result' = [result EXCEPT ![c] = "created"]
          BY <3>6, <4>2 DEF Publish
        <5>2. Answer' = [Answer EXCEPT ![c] = "created"] /\ Answer[c] = "none"
          BY <4>2, <5>1
        <5>3. Owner = NoCreator /\ Owner' = c
          BY <4>2, <5>1
        <5>4. Creation!Create(c)
          BY <5>2, <5>3 DEF Creation!Create
        <5>5. QED BY <5>4 DEF Creation!Next
      <4>3. CASE Clear /\ target # Nothing
        BY <3>6, <4>3 DEF Publish
      <4>4. QED BY <4>1, <4>2, <4>3
    <3>7. CASE Recheck(c)   BY <2>1, <3>7 DEF Recheck
    <3>8. CASE Clean(c)     BY <3>8 DEF Clean
    <3>9. QED BY <2>2, <3>1, <3>2, <3>3, <3>4, <3>5, <3>6, <3>7, <3>8 DEF CreatorStep
  <2>3. ASSUME NEW c \in Creators, Crash(c) PROVE Same
    BY <2>3 DEF Crash
  <2>4. QED BY <2>2, <2>3 DEF Next
<1>3. QED
  BY <1>1, <1>2, RaceInvariant, PTL DEF Spec, CreationSpec, Creation!Spec
-----------------------------------------------------------------------------
(* Sweep.                                                                  *)

USE DEF AtStage, GotoStage, End, Begin, Advance, storeVars, callVars, deathVars, CreateRun,
        Active, Final, Absent

-----------------------------------------------------------------------------
(* Lemmas about sequences.                                                 *)

\* Moving the head of one sequence to the end of another keeps their
\* concatenation: what the loop over the runs does.
LEMMA HeadMoves ==
  ASSUME NEW S, NEW s \in Seq(S), NEW t \in Seq(S), t # << >>
  PROVE  Append(s, Head(t)) \o Tail(t) = s \o t
<1>1. /\ Head(t) \in S /\ Tail(t) \in Seq(S)
      /\ <<Head(t)>> \in Seq(S)
  BY HeadTailProperties
<1>2. Append(s, Head(t)) = s \o <<Head(t)>>
  BY <1>1
<1>3. <<Head(t)>> \o Tail(t) = t
  BY <1>1
<1>4. QED BY <1>1, <1>2, <1>3, ConcatAssociative

LEMMA ToSetAppend ==
  ASSUME NEW S, NEW s \in Seq(S), NEW e \in S
  PROVE  ToSet(Append(s, e)) = ToSet(s) \cup {e}
<1>1. /\ Append(s, e) \in Seq(S) /\ Len(Append(s, e)) = Len(s) + 1
      /\ Append(s, e)[Len(s) + 1] = e
      /\ \A i \in 1 .. Len(s) : Append(s, e)[i] = s[i]
  OBVIOUS
<1>2. DOMAIN Append(s, e) = 1 .. Len(s) + 1 /\ DOMAIN s = 1 .. Len(s) /\ Len(s) \in Nat
  BY <1>1
<1>3. QED BY <1>1, <1>2 DEF ToSet

LEMMA ToSetEmpty == ToSet(<< >>) = {}
  BY DEF ToSet

LEMMA ToSetType ==
  ASSUME NEW S, NEW s \in Seq(S)
  PROVE  ToSet(s) \subseteq S
  BY DEF ToSet

-----------------------------------------------------------------------------
(* Type correctness.                                                       *)

\* A call that starts a worker has a run to start it for.
WellTyped == SweepTypeOK /\ \A c \in Clients : stage[c] = "start" => todo[c] # << >>

LEMMA TypeInit ==
  ASSUME SweepInit
  PROVE  WellTyped
<1> USE SweepAssumption DEF SweepInit
<1>1. StoreTypeOK
  BY DEF StoreInit, StoreTypeOK, Listings
<1>2. << >> \in Seq(Runs)
  OBVIOUS
<1>3. crashes \in 0 .. MaxCrashes
  OBVIOUS
<1>4. /\ asked \in [Clients -> Seq(Runs)] /\ todo \in [Clients -> Seq(Runs)]
      /\ ids \in [Clients -> Seq(Runs)] /\ sweep \in Seq(Runs)
  BY <1>2
<1>5. /\ stamped \in [Runs -> BOOLEAN] /\ starts \in [Runs -> Nat]
      /\ failing \in [Clients -> SUBSET Runs] /\ made \in [Clients -> SUBSET Runs]
  OBVIOUS
<1>6. /\ stage \in [Clients -> {"idle", "admit", "create", "start", "lookup", "read"}]
      /\ kind \in [Clients -> {"none", "sweep", "run", "get"}]
      /\ outcome \in [Clients -> {"none", "returned", "refused", "raised", "died"}]
      /\ \A c \in Clients : stage[c] # "start"
  OBVIOUS
<1>7. QED BY <1>1, <1>3, <1>4, <1>5, <1>6 DEF WellTyped, SweepTypeOK

LEMMA TypeStep ==
  ASSUME WellTyped, [SweepNext]_sweepVars
  PROVE  WellTyped'
<1> USE SweepAssumption DEF WellTyped, SweepTypeOK, StoreTypeOK
<1>1. ASSUME NEW c \in Clients, SubmitSweep(c) PROVE WellTyped'
  <2>1. PICK s \in Orders : Begin(c, "sweep", s, "admit")
    BY <1>1 DEF SubmitSweep
  <2>2. s \in Seq(Runs)
    OBVIOUS
  <2>3. QED BY <2>1, <2>2
<1>2. ASSUME NEW c \in Clients, NEW r \in Runs, SubmitRun(c, r) PROVE WellTyped'
  BY <1>2 DEF SubmitRun
<1>3. ASSUME NEW c \in Clients, GetSweep(c) PROVE WellTyped'
  BY <1>3 DEF GetSweep
<1>4. ASSUME NEW c \in Clients, CallStep(c) PROVE WellTyped'
  <2> USE HeadTailProperties
  <2>1. CASE AdmitNext(c)
    <3>1. Head(todo[c]) \in Runs /\ Tail(todo[c]) \in Seq(Runs)
      BY <2>1 DEF AdmitNext
    <3>2. todo' \in [Clients -> Seq(Runs)]
      BY <2>1, <3>1 DEF AdmitNext
    <3>3. failing' \in [Clients -> SUBSET Runs]
      BY <2>1, <3>1 DEF AdmitNext
    <3>4. QED BY <2>1, <3>2, <3>3 DEF AdmitNext
  <2>2. CASE RefuseAll(c)     BY <2>2 DEF RefuseAll
  <2>3. CASE AdmitAll(c)      BY <2>3 DEF AdmitAll
  <2>4. CASE CreateRaises(c)  BY <2>4 DEF CreateRaises
  <2>5. CASE CreateNew(c)     BY <2>5 DEF CreateNew
  <2>6. CASE FindExisting(c)  BY <2>6 DEF FindExisting
  <2>7. CASE StartWorker(c)
    <3>1. ids' \in [Clients -> Seq(Runs)] /\ todo' \in [Clients -> Seq(Runs)]
      BY <2>7 DEF StartWorker
    <3>2. starts' \in [Runs -> Nat]
      BY <2>7 DEF StartWorker
    <3>3. QED BY <2>7, <3>1, <3>2 DEF StartWorker
  <2>8. CASE RecordSweep(c)   BY <2>8 DEF RecordSweep
  <2>9. CASE RunCreated(c)    BY <2>9 DEF RunCreated
  <2>10. CASE Lookup(c)       BY <2>10 DEF Lookup
  <2>11. CASE ReadStatuses(c) BY <2>11 DEF ReadStatuses
  <2>12. QED BY <1>4, <2>1, <2>2, <2>3, <2>4, <2>5, <2>6, <2>7, <2>8, <2>9, <2>10, <2>11 DEF CallStep
<1>5. ASSUME NEW c \in Clients, CallDies(c) PROVE WellTyped'
  BY <1>5, SMTT(30) DEF CallDies
<1>6. ASSUME NEW r \in Runs, Edit(r) PROVE WellTyped'
  BY <1>6 DEF Edit
<1>7. CASE UNCHANGED sweepVars
  BY <1>7 DEF sweepVars
<1>8. QED BY <1>1, <1>2, <1>3, <1>4, <1>5, <1>6, <1>7 DEF SweepNext

-----------------------------------------------------------------------------
(* Admission.                                                              *)

\* A call in progress was not refused, and one that admits has made nothing.
RefuseInv ==
  /\ WellTyped
  /\ \A c \in Clients :
       /\ stage[c] = "admit" => made[c] = {}
       /\ outcome[c] = "refused" => stage[c] = "idle" /\ made[c] = {}

\* submit_sweep: "If any run fails admission ... nothing is created", also
\* while other calls create runs of the sweep.
THEOREM RefusalMakesNothing ==
  SweepSpec => []RefusedMadeNothing
<1>1. SweepInit => RefuseInv
  BY TypeInit DEF SweepInit, RefuseInv
<1>2. RefuseInv /\ [SweepNext]_sweepVars => RefuseInv'
  <2> SUFFICES ASSUME RefuseInv, [SweepNext]_sweepVars PROVE RefuseInv'
    OBVIOUS
  <2>1. WellTyped'
    BY TypeStep DEF RefuseInv
  <2> DEFINE Good(c) == /\ stage[c] = "admit" => made[c] = {}
                        /\ outcome[c] = "refused" => stage[c] = "idle" /\ made[c] = {}
  <2> SUFFICES ASSUME NEW d \in Clients PROVE Good(d)'
    BY <2>1 DEF RefuseInv
  <2>2. Good(d) /\ WellTyped
    BY DEF RefuseInv
  <2> USE <2>2 DEF WellTyped, SweepTypeOK
  <2>3. ASSUME NEW c \in Clients, SubmitSweep(c) PROVE Good(d)'
    BY <2>3 DEF SubmitSweep
  <2>4. ASSUME NEW c \in Clients, NEW r \in Runs, SubmitRun(c, r) PROVE Good(d)'
    BY <2>4 DEF SubmitRun
  <2>5. ASSUME NEW c \in Clients, GetSweep(c) PROVE Good(d)'
    BY <2>5 DEF GetSweep
  <2>6. ASSUME NEW c \in Clients, CallStep(c) PROVE Good(d)'
    <3>1. CASE AdmitNext(c)     BY <3>1 DEF AdmitNext
    <3>2. CASE RefuseAll(c)     BY <3>2 DEF RefuseAll
    <3>3. CASE AdmitAll(c)      BY <3>3 DEF AdmitAll
    <3>4. CASE CreateRaises(c)  BY <3>4 DEF CreateRaises
    <3>5. CASE CreateNew(c)     BY <3>5 DEF CreateNew
    <3>6. CASE FindExisting(c)  BY <3>6 DEF FindExisting
    <3>7. CASE StartWorker(c)   BY <3>7 DEF StartWorker
    <3>8. CASE RecordSweep(c)   BY <3>8 DEF RecordSweep
    <3>9. CASE RunCreated(c)    BY <3>9 DEF RunCreated
    <3>10. CASE Lookup(c)       BY <3>10 DEF Lookup
    <3>11. CASE ReadStatuses(c) BY <3>11 DEF ReadStatuses
    <3>12. QED BY <2>6, <3>1, <3>2, <3>3, <3>4, <3>5, <3>6, <3>7, <3>8, <3>9, <3>10, <3>11 DEF CallStep
  <2>7. ASSUME NEW c \in Clients, CallDies(c) PROVE Good(d)'
    BY <2>7 DEF CallDies
  <2>8. ASSUME NEW r \in Runs, Edit(r) PROVE Good(d)'
    BY <2>8 DEF Edit
  <2>9. CASE UNCHANGED sweepVars
    BY <2>9 DEF sweepVars
  <2>10. QED BY <2>3, <2>4, <2>5, <2>6, <2>7, <2>8, <2>9 DEF SweepNext
<1>3. RefuseInv => RefusedMadeNothing
  BY DEF RefuseInv, RefusedMadeNothing
<1>4. QED BY <1>1, <1>2, <1>3, PTL DEF SweepSpec
-----------------------------------------------------------------------------
(* Starting the workers.                                                   *)

\* A run that does not exist was not started.
Once == \A r \in Runs : starts[r] <= 1 /\ (status[r] = Absent => starts[r] = 0)

\* A call about to start a worker does so for a run that exists and has none,
\* and no other call is about to.
Ready == \A c \in Clients : stage[c] = "start" =>
           status[Head(todo[c])] # Absent /\ starts[Head(todo[c])] = 0
Alone == \A c, d \in Clients :
           c # d /\ stage[c] = "start" /\ stage[d] = "start" => Head(todo[c]) # Head(todo[d])

\* A run without both was left by a call that died.
Kept == \A r \in Runs : status[r] # Absent =>
          \/ starts[r] = 1
          \/ \E c \in Clients : stage[c] = "start" /\ Head(todo[c]) = r
          \/ r \in orphaned /\ starts[r] = 0

StartInv == WellTyped /\ Once /\ Ready /\ Alone /\ Kept

\* What StartInv says is kept by a step of c that neither creates nor starts.
LEMMA OtherSteps ==
  ASSUME StartInv, WellTyped', NEW c \in Clients,
         stage[c] # "start", stage'[c] # "start",
         \A d \in Clients \ {c} : stage'[d] = stage[d] /\ todo'[d] = todo[d],
         UNCHANGED <<status, starts, orphaned>>
  PROVE  StartInv'
<1>1. \A d \in Clients : stage'[d] = "start" => d # c /\ stage[d] = "start" /\ todo'[d] = todo[d]
  OBVIOUS
<1>2. \A d \in Clients : stage[d] = "start" => d # c /\ stage'[d] = "start" /\ todo'[d] = todo[d]
  OBVIOUS
<1>3. QED BY <1>1, <1>2 DEF StartInv, Once, Ready, Alone, Kept

LEMMA StartInvariant ==
  SweepSpec => []StartInv
<1>1. SweepInit => StartInv
  BY TypeInit DEF SweepInit, StoreInit, StartInv, Once, Ready, Alone, Kept
<1>2. StartInv /\ [SweepNext]_sweepVars => StartInv'
  <2> SUFFICES ASSUME StartInv, [SweepNext]_sweepVars PROVE StartInv'
    OBVIOUS
  <2>1. WellTyped /\ WellTyped'
    BY TypeStep DEF StartInv
  <2>a. /\ starts \in [Runs -> Nat] /\ crashes \in Nat
        /\ status \in [Runs -> {Absent} \cup Active \cup Final]
        /\ todo \in [Clients -> Seq(Runs)]
        /\ stage \in [Clients -> {"idle", "admit", "create", "start", "lookup", "read"}]
        /\ \A c \in Clients : stage[c] = "start" => todo[c] # << >>
    BY <2>1, SweepAssumption DEF WellTyped, SweepTypeOK, StoreTypeOK
  <2> USE <2>1, <2>a
  <2>2. ASSUME NEW c \in Clients, SubmitSweep(c) PROVE StartInv'
    BY <2>2, OtherSteps DEF SubmitSweep
  <2>3. ASSUME NEW c \in Clients, NEW r \in Runs, SubmitRun(c, r) PROVE StartInv'
    BY <2>3, OtherSteps DEF SubmitRun
  <2>4. ASSUME NEW c \in Clients, GetSweep(c) PROVE StartInv'
    BY <2>4, OtherSteps DEF GetSweep
  <2>5. ASSUME NEW c \in Clients, CallStep(c) PROVE StartInv'
    <3> USE OtherSteps
    <3>1. CASE AdmitNext(c)     BY <3>1 DEF AdmitNext
    <3>2. CASE RefuseAll(c)     BY <3>2 DEF RefuseAll
    <3>3. CASE AdmitAll(c)      BY <3>3 DEF AdmitAll
    <3>4. CASE CreateRaises(c)  BY <3>4 DEF CreateRaises
    <3>5. CASE CreateNew(c)
      <4> DEFINE r == Head(todo[c])
      <4>1. /\ r \in Runs /\ status[r] = Absent /\ stage[c] = "create"
            /\ status' = [status EXCEPT ![r] = "accepted"]
            /\ stage' = [stage EXCEPT ![c] = "start"]
            /\ UNCHANGED <<todo, starts, orphaned>>
        BY <3>5, HeadTailProperties DEF CreateNew
      <4>2. \A d \in Clients : stage[d] = "start" => Head(todo[d]) # r
        BY <4>1 DEF StartInv, Ready
      <4>3. starts[r] = 0
        BY <4>1 DEF StartInv, Once
      <4>4. \A d \in Clients : stage[d] = "start" => Head(todo[d]) \in Runs
        BY HeadTailProperties
      <4> HIDE DEF r
      <4>5. Once'
        BY <4>1, <4>3 DEF StartInv, Once
      <4>6. \A d \in Clients : stage'[d] = "start" =>
              d = c \/ (stage[d] = "start" /\ Head(todo[d]) \in Runs \ {r})
        BY <4>1, <4>2, <4>4
      <4>7. Ready'
        BY <4>1, <4>3, <4>6 DEF StartInv, Ready, r
      <4>8. Alone'
        BY <4>1, <4>6 DEF StartInv, Alone, r
      <4>9. Kept'
        BY <4>1 DEF StartInv, Kept, r
      <4>10. QED BY <2>1, <4>5, <4>7, <4>8, <4>9 DEF StartInv
    <3>6. CASE FindExisting(c)  BY <3>6 DEF FindExisting
    <3>7. CASE StartWorker(c)
      <4> DEFINE r == Head(todo[c])
      <4>1. /\ r \in Runs /\ status[r] # Absent /\ starts[r] = 0
        BY <3>7, HeadTailProperties DEF StartWorker, StartInv, Ready
      <4>2. /\ stage' = [stage EXCEPT ![c] = "create"] /\ stage[c] = "start"
            /\ starts' = [starts EXCEPT ![r] = @ + 1]
            /\ \A d \in Clients \ {c} : todo'[d] = todo[d]
            /\ UNCHANGED <<status, orphaned>>
        BY <3>7 DEF StartWorker
      <4>3. \A d \in Clients \ {c} : stage[d] = "start" => Head(todo[d]) \in Runs \ {r}
        BY <4>2, HeadTailProperties DEF StartInv, Alone
      <4> HIDE DEF r
      <4>4. starts'[r] = 1 /\ \A q \in Runs \ {r} : starts'[q] = starts[q]
        BY <4>1, <4>2
      <4>5. \A d \in Clients : stage'[d] = "start" => d # c /\ stage[d] = "start" /\ todo'[d] = todo[d]
        BY <4>2
      <4>6. Once'
        BY <4>1, <4>2, <4>4 DEF StartInv, Once
      <4>7. Ready'
        BY <4>2, <4>3, <4>4, <4>5 DEF StartInv, Ready
      <4>8. Alone'
        BY <4>5 DEF StartInv, Alone
      <4>9. Kept'
        <5>1. \A d \in Clients : stage[d] = "start" /\ Head(todo[d]) # r =>
                stage'[d] = "start" /\ todo'[d] = todo[d]
          BY <4>2 DEF r
        <5>2. SUFFICES ASSUME NEW q \in Runs \ {r}, status[q] # Absent, starts[q] # 1,
                              ~(q \in orphaned /\ starts[q] = 0)
                       PROVE  \E d \in Clients : stage'[d] = "start" /\ Head(todo'[d]) = q
          BY <4>2, <4>4 DEF Kept
        <5>3. PICK d \in Clients : stage[d] = "start" /\ Head(todo[d]) = q
          BY <5>2 DEF StartInv, Kept
        <5>4. QED BY <5>1, <5>3
      <4>10. QED BY <2>1, <4>6, <4>7, <4>8, <4>9 DEF StartInv
    <3>8. CASE RecordSweep(c)   BY <3>8 DEF RecordSweep
    <3>9. CASE RunCreated(c)    BY <3>9 DEF RunCreated
    <3>10. CASE Lookup(c)       BY <3>10 DEF Lookup
    <3>11. CASE ReadStatuses(c) BY <3>11 DEF ReadStatuses
    <3>12. QED BY <2>5, <3>1, <3>2, <3>3, <3>4, <3>5, <3>6, <3>7, <3>8, <3>9, <3>10, <3>11 DEF CallStep
  <2>6. ASSUME NEW c \in Clients, CallDies(c) PROVE StartInv'
    <3>1. /\ orphaned' = orphaned \cup (IF stage[c] = "start" THEN {Head(todo[c])} ELSE {})
          /\ \A d \in Clients : stage'[d] = "start" => d # c /\ stage[d] = "start" /\ todo'[d] = todo[d]
          /\ UNCHANGED <<status, starts>>
      BY <2>6, SweepAssumption DEF CallDies
    <3>2. Once' /\ Ready' /\ Alone'
      BY <3>1 DEF StartInv, Once, Ready, Alone
    <3>3. \A d \in Clients \ {c} : stage[d] = "start" => stage'[d] = "start" /\ todo'[d] = todo[d]
      BY <2>6 DEF CallDies
    <3>4. Kept'
      <4>1. SUFFICES ASSUME NEW q \in Runs, status[q] # Absent, starts[q] # 1, q \notin orphaned'
                     PROVE  \E d \in Clients : stage'[d] = "start" /\ Head(todo'[d]) = q
        BY <3>1 DEF StartInv, Once, Kept
      <4>2. PICK d \in Clients : stage[d] = "start" /\ Head(todo[d]) = q
        BY <3>1, <4>1 DEF StartInv, Kept
      <4>3. d # c
        BY <3>1, <4>1, <4>2
      <4>4. QED BY <3>3, <4>2, <4>3
    <3>5. QED BY <2>1, <3>2, <3>4 DEF StartInv
  <2>7. ASSUME NEW r \in Runs, Edit(r) PROVE StartInv'
    BY <2>7 DEF Edit, StartInv, Once, Ready, Alone, Kept
  <2>8. CASE UNCHANGED sweepVars
    BY <2>8 DEF sweepVars, StartInv, Once, Ready, Alone, Kept
  <2>9. QED BY <2>2, <2>3, <2>4, <2>5, <2>6, <2>7, <2>8 DEF SweepNext
<1>3. QED BY <1>1, <1>2, PTL DEF SweepSpec

\* A run has at most one worker, however many calls submit it, alone or in
\* sweeps, and whichever of them die.
THEOREM StartedOnce ==
  SweepSpec => []OneWorker
<1>1. StartInv => OneWorker
  BY DEF StartInv, Once, OneWorker
<1>2. QED BY <1>1, StartInvariant, PTL

\* Every run that exists has its worker or a call is about to start it, also
\* when the call that created it raises or dies later; only a call that dies
\* between creating a run and starting it leaves one without.
THEOREM NobodyForgotten ==
  SweepSpec => []NoneForgotten
<1>1. StartInv => NoneForgotten
  BY DEF StartInv, Kept, NoneForgotten
<1>2. QED BY <1>1, StartInvariant, PTL
-----------------------------------------------------------------------------
(* The record of the sweep.                                                *)

Exist(q) == \A r \in ToSet(q) : status[r] # Absent

\* What a call has gone through and what it has yet to go through is the recipe
\* it was made for, and the runs it has gone through exist.
Working(c) ==
  /\ stage[c] \in {"idle", "admit"} => ids[c] = << >>
  /\ kind[c] = "sweep" /\ stage[c] \in {"admit", "create", "start"} => asked[c] \in Orders
  /\ stage[c] \in {"create", "start"} => ids[c] \o todo[c] = asked[c] /\ Exist(ids[c])
  /\ stage[c] = "start" => status[Head(todo[c])] # Absent

RecordInv == WellTyped /\ RecordedIsWhole /\ \A c \in Clients : Working(c)

\* Runs are never removed, so a step of c disturbs no other call.
LEMMA OthersGoOn ==
  ASSUME RecordInv, WellTyped', NEW c \in Clients, Working(c)',
         \A d \in Clients \ {c} : /\ stage'[d] = stage[d] /\ todo'[d] = todo[d] /\ ids'[d] = ids[d]
                                   /\ kind'[d] = kind[d] /\ asked'[d] = asked[d],
         \A r \in Runs : status[r] # Absent => status'[r] # Absent,
         sweep' = sweep
  PROVE  RecordInv'
<1>1. \A q \in Seq(Runs) : Exist(q) => Exist(q)'
  BY ToSetType DEF Exist
<1>2. RecordedIsWhole'
  BY <1>1 DEF RecordInv, RecordedIsWhole, Exist, WellTyped, SweepTypeOK
<1>3. ASSUME NEW d \in Clients \ {c} PROVE Working(d)'
  <2>1. Working(d) /\ ids[d] \in Seq(Runs)
    BY DEF RecordInv, WellTyped, SweepTypeOK
  <2>2. stage[d] = "start" => Head(todo[d]) \in Runs
    BY HeadTailProperties DEF RecordInv, WellTyped, SweepTypeOK
  <2>3. Exist(ids[d]) => Exist(ids[d])'
    BY <1>1, <2>1 DEF Exist
  <2>4. QED BY <2>1, <2>2, <2>3 DEF Working
<1>4. QED BY <1>2, <1>3 DEF RecordInv

\* A sweep that can be read is whole: its record names every run in the order of
\* a recipe, and every one exists, whichever calls died or overlapped.
THEOREM SweepIsWhole ==
  SweepSpec => []RecordedIsWhole
<1>1. SweepInit => RecordInv
  BY TypeInit DEF SweepInit, RecordInv, RecordedIsWhole, Working
<1>2. RecordInv /\ [SweepNext]_sweepVars => RecordInv'
  <2> SUFFICES ASSUME RecordInv, [SweepNext]_sweepVars PROVE RecordInv'
    OBVIOUS
  <2>1. WellTyped /\ WellTyped' /\ \A c \in Clients : Working(c)
    BY TypeStep DEF RecordInv
  <2>a. /\ status \in [Runs -> {Absent} \cup Active \cup Final]
        /\ todo \in [Clients -> Seq(Runs)] /\ ids \in [Clients -> Seq(Runs)]
        /\ asked \in [Clients -> Seq(Runs)]
        /\ stage \in [Clients -> {"idle", "admit", "create", "start", "lookup", "read"}]
        /\ kind \in [Clients -> {"none", "sweep", "run", "get"}]
        /\ \A c \in Clients : stage[c] = "start" => todo[c] # << >>
    BY <2>1 DEF WellTyped, SweepTypeOK, StoreTypeOK
  <2> USE <2>1, <2>a, OthersGoOn
  <2>2. ASSUME NEW c \in Clients, SubmitSweep(c) PROVE RecordInv'
    BY <2>2 DEF SubmitSweep, Working
  <2>3. ASSUME NEW c \in Clients, NEW r \in Runs, SubmitRun(c, r) PROVE RecordInv'
    BY <2>3 DEF SubmitRun, Working
  <2>4. ASSUME NEW c \in Clients, GetSweep(c) PROVE RecordInv'
    BY <2>4 DEF GetSweep, Working
  <2>5. ASSUME NEW c \in Clients, CallStep(c) PROVE RecordInv'
    <3>1. CASE AdmitNext(c)     BY <3>1 DEF AdmitNext, Working
    <3>2. CASE RefuseAll(c)     BY <3>2 DEF RefuseAll, Working
    <3>3. CASE AdmitAll(c)
      <4>1. << >> \o asked[c] = asked[c]
        BY ConcatEmptySeq
      <4>2. \A r \in ToSet(<< >>) : status'[r] # Absent
        BY ToSetEmpty
      <4>3. ids[c] = << >> /\ stage[c] = "admit"
        BY <3>3 DEF AdmitAll, Working
      <4>4. /\ stage'[c] = "create" /\ todo'[c] = asked[c]
            /\ UNCHANGED <<ids, kind, asked, sweep, status>>
            /\ \A d \in Clients \ {c} : stage'[d] = stage[d] /\ todo'[d] = todo[d]
        BY <3>3 DEF AdmitAll
      <4>5. Working(c)'
        BY <4>1, <4>2, <4>3, <4>4 DEF Working, Exist
      <4>6. QED BY <4>4, <4>5
    <3>4. CASE CreateRaises(c)  BY <3>4 DEF CreateRaises, Working
    <3>5. CASE CreateNew(c)
      <4>1. Head(todo[c]) \in Runs
        BY <3>5, HeadTailProperties DEF CreateNew
      <4>2. Exist(ids[c]) => Exist(ids[c])'
        BY <3>5, <4>1, ToSetType DEF CreateNew, Exist
      <4>3. QED BY <3>5, <4>1, <4>2 DEF CreateNew, Working
    <3>6. CASE FindExisting(c)
      <4>1. Head(todo[c]) \in Runs /\ todo[c] # << >> /\ stage[c] = "create"
        BY <3>6, HeadTailProperties DEF FindExisting
      <4>2. /\ ids'[c] \o todo'[c] = ids[c] \o todo[c]
            /\ ToSet(ids'[c]) = ToSet(ids[c]) \cup {Head(todo[c])}
        BY <3>6, <4>1, HeadMoves, ToSetAppend DEF FindExisting
      <4>3. Exist(ids[c])'
        BY <3>6, <4>1, <4>2 DEF FindExisting, Working, Exist
      <4>4. QED BY <3>6, <4>1, <4>2, <4>3 DEF FindExisting, Working
    <3>7. CASE StartWorker(c)
      <4>1. Head(todo[c]) \in Runs /\ todo[c] # << >> /\ stage[c] = "start"
        BY <3>7, HeadTailProperties DEF StartWorker
      <4>2. /\ ids'[c] \o todo'[c] = ids[c] \o todo[c]
            /\ ToSet(ids'[c]) = ToSet(ids[c]) \cup {Head(todo[c])}
        BY <3>7, <4>1, HeadMoves, ToSetAppend DEF StartWorker
      <4>3. Exist(ids[c])'
        BY <3>7, <4>1, <4>2 DEF StartWorker, Working, Exist
      <4>4. QED BY <3>7, <4>1, <4>2, <4>3 DEF StartWorker, Working
    <3>8. CASE RecordSweep(c)
      <4>1. ids[c] = asked[c] /\ asked[c] \in Orders /\ Exist(ids[c])
        <5>1. stage[c] = "create" /\ kind[c] = "sweep" /\ todo[c] = << >>
          BY <3>8 DEF RecordSweep
        <5>2. /\ asked[c] \in Orders /\ ids[c] \o << >> = asked[c] /\ Exist(ids[c])
              /\ ids[c] \in Seq(Runs)
          BY <5>1 DEF Working
        <5>3. ids[c] \o << >> = ids[c]
          BY <5>2, ConcatEmptySeq
        <5>4. QED BY <5>2, <5>3
      <4>2. RecordedIsWhole'
        BY <3>8, <4>1 DEF RecordSweep, RecordInv, RecordedIsWhole, Exist
      <4>3. \A d \in Clients : Working(d)'
        BY <3>8 DEF RecordSweep, Working, Exist
      <4>4. QED BY <4>2, <4>3 DEF RecordInv
    <3>9. CASE RunCreated(c)    BY <3>9 DEF RunCreated, Working
    <3>10. CASE Lookup(c)       BY <3>10 DEF Lookup, Working
    <3>11. CASE ReadStatuses(c) BY <3>11 DEF ReadStatuses, Working
    <3>12. QED BY <2>5, <3>1, <3>2, <3>3, <3>4, <3>5, <3>6, <3>7, <3>8, <3>9, <3>10, <3>11 DEF CallStep
  <2>6. ASSUME NEW c \in Clients, CallDies(c) PROVE RecordInv'
    BY <2>6 DEF CallDies, Working
  <2>7. ASSUME NEW r \in Runs, Edit(r) PROVE RecordInv'
    BY <2>7 DEF Edit, RecordInv, RecordedIsWhole, Working, Exist
  <2>8. CASE UNCHANGED sweepVars
    BY <2>8 DEF sweepVars, RecordInv, RecordedIsWhole, Working, Exist
  <2>9. QED BY <2>2, <2>3, <2>4, <2>5, <2>6, <2>7, <2>8 DEF SweepNext
<1>3. RecordInv => RecordedIsWhole
  BY DEF RecordInv
<1>4. QED BY <1>1, <1>2, <1>3, PTL DEF SweepSpec
=============================================================================
