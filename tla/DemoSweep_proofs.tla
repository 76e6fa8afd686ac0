--------------------------- MODULE DemoSweep_proofs --------------------------
(***************************************************************************)
(* What DemoSweep leaves in the demo directory and in results.jsonl, for   *)
(* any installation and any number of kills.                               *)
(***************************************************************************)
EXTENDS DemoSweep, SequenceTheorems, FiniteSetTheorems, TLAPS

USE DEF demo, memory, file, Demos, Demo, SimFiles, EndSweep, Stop, Skip, GoOn, Extracts

-----------------------------------------------------------------------------
(* The demo directories.                                                   *)

\* The demo at hand has its directory.
Placed == phase \in {"loop", "attempt", "repeat", "close"}

\* What the sweep has yet to delete: the directory that it placed for the demo at
\* hand.
Own == {d \in {at} : Placed /\ ~placedBefore}
Forgotten == LeftBehind \ Own

\* No directory that was there is gone.  The demo at hand remembers whether its
\* directory was there, and what else is left behind has been left by kills.
DirInv ==
  /\ kills \in Nat
  /\ phase = "place" => at \in Demos
  /\ \A d \in Demos : candidates[d].placed => d \in dirs
  /\ Placed /\ ~placedBefore => ~Demo.placed
  /\ Own \cap staging = {}
  /\ IsFiniteSet(Forgotten) /\ Cardinality(Forgotten) <= kills

\* What is forgotten grows by one demo at most, and then a kill is counted.
LEMMA ForgottenGrows ==
  ASSUME DirInv, NEW x,
         \/ Forgotten' \subseteq Forgotten /\ kills' = kills
         \/ Forgotten' \subseteq Forgotten \cup {x} /\ kills' = kills + 1
  PROVE  kills' \in Nat /\ IsFiniteSet(Forgotten') /\ Cardinality(Forgotten') <= kills'
<1> DEFINE L == Forgotten
<1> DEFINE M == Forgotten'
<1>1. IsFiniteSet(L) /\ Cardinality(L) \in Nat /\ Cardinality(L) <= kills /\ kills \in Nat
  BY FS_CardinalityType DEF DirInv
<1>2. /\ IsFiniteSet(L \cup {x}) /\ Cardinality(L \cup {x}) <= Cardinality(L) + 1
      /\ Cardinality(L \cup {x}) \in Nat
  <2> DEFINE U == L \cup {x}
  <2>1. IsFiniteSet(U) /\ (Cardinality(U) = Cardinality(L) \/ Cardinality(U) = Cardinality(L) + 1)
    <3> HIDE DEF L
    <3> QED BY <1>1, FS_AddElement
  <2> HIDE DEF L, U
  <2>2. Cardinality(U) \in Nat /\ Cardinality(U) <= Cardinality(L) + 1
    BY <1>1, <2>1
  <2> QED BY <2>1, <2>2 DEF U
<1>3. CASE M \subseteq L /\ kills' = kills
  <2>1. IsFiniteSet(M) /\ Cardinality(M) <= Cardinality(L) /\ Cardinality(M) \in Nat
    <3> HIDE DEF L, M
    <3> QED BY <1>1, <1>3, FS_Subset, FS_CardinalityType
  <2> QED BY <1>1, <1>3, <2>1
<1>4. CASE M \subseteq L \cup {x} /\ kills' = kills + 1
  <2>1. IsFiniteSet(M) /\ Cardinality(M) <= Cardinality(L \cup {x}) /\ Cardinality(M) \in Nat
    <3> HIDE DEF L, M
    <3> QED BY <1>2, <1>4, FS_Subset, FS_CardinalityType
  <2> QED BY <1>1, <1>2, <1>4, <2>1
<1> QED BY <1>3, <1>4

\* Steps between the placing and the closing of a demo leave the directories.
LEMMA DirectoriesStand ==
  ASSUME DirInv, UNCHANGED <<candidates, at, placedBefore, dirs, staging, kills>>,
         Placed' = Placed, phase' = "place" => phase = "place"
  PROVE  DirInv'
  BY DEF DirInv, Forgotten, Own, LeftBehind

LEMMA DirInitially ==
  ASSUME DemosInit
  PROVE  DirInv
<1>1. Forgotten = {}
  BY DEF DemosInit, Forgotten, LeftBehind
<1>2. IsFiniteSet(Forgotten) /\ Cardinality(Forgotten) = 0
  BY <1>1, FS_EmptySet
<1> QED BY <1>2 DEF DemosInit, DirInv, Placed, Own

LEMMA DirInvariant ==
  DemosSpec => []DirInv
<1>1. DemosInit => DirInv
  BY DirInitially
<1>2. DirInv /\ [DemosNext]_demosVars => DirInv'
  <2> SUFFICES ASSUME DirInv, [DemosNext]_demosVars PROVE DirInv'
    OBVIOUS
  <2> USE DEF Placed, Own
  <2>a. ASSUME Forgotten' \subseteq Forgotten, kills' = kills
        PROVE  kills' \in Nat /\ IsFiniteSet(Forgotten') /\ Cardinality(Forgotten') <= kills'
    BY <2>a, ForgottenGrows
  <2>1. ASSUME NEW resume \in BOOLEAN, InvokeSweep(resume) PROVE DirInv'
    BY <2>1, DirectoriesStand DEF InvokeSweep
  <2>2. CASE Take
    <3>1. /\ UNCHANGED <<candidates, dirs, staging, kills>> /\ phase = "next"
          /\ phase' \in {"next", "down"} \/ (phase' = "place" /\ at' \in Demos)
      BY <2>2 DEF Take
    <3>2. Forgotten' = Forgotten
      BY <3>1 DEF Forgotten, LeftBehind
    <3> QED BY <2>a, <3>1, <3>2 DEF DirInv
  <2>3. CASE Place
    <3>1. phase = "place" /\ UNCHANGED <<candidates, kills>>
      BY <2>3 DEF Place, RecordDemo
    <3>2. CASE at \in dirs
      <4>1. /\ UNCHANGED <<candidates, at, kills, dirs, staging>>
            /\ phase' = "next" \/ (phase' = "loop" /\ placedBefore' = TRUE)
        BY <2>3, <3>2 DEF Place, RecordDemo
      <4>2. Forgotten' = Forgotten
        BY <3>1, <4>1 DEF Forgotten, LeftBehind
      <4> QED BY <2>a, <3>1, <4>1, <4>2 DEF DirInv
    <3>3. CASE at \notin dirs
      <4>1. \/ /\ UNCHANGED dirs /\ phase' = "next"
               /\ staging' \subseteq staging \/ (Demo.bad = "member" /\ staging' = staging \cup {at})
            \/ /\ dirs' = dirs \cup {at} /\ staging' \subseteq staging
               /\ phase' = "down" /\ Demo.protected
            \/ /\ dirs' = dirs \cup {at} /\ staging' = staging \ {at} /\ UNCHANGED at
               /\ phase' = "loop" /\ placedBefore' = FALSE
        BY <2>3, <3>3 DEF Place, RecordDemo
      <4>2. Forgotten' \subseteq Forgotten
        BY <3>1, <4>1 DEF Forgotten, LeftBehind
      <4> QED BY <2>a, <3>1, <3>3, <4>1, <4>2 DEF DirInv
    <3> QED BY <3>2, <3>3
  <2>4. CASE TrySimulation
    <3>1. /\ UNCHANGED <<candidates, at, placedBefore, dirs, staging, kills>>
          /\ phase = "loop" /\ phase' \in {"attempt", "close"}
      BY <2>4 DEF TrySimulation
    <3> QED BY <3>1, DirectoriesStand
  <2>5. ASSUME NEW o, NEW w, Attempt(o, w) PROVE DirInv'
    BY <2>5, DirectoriesStand DEF Attempt, AttemptEnds
  <2>6. ASSUME NEW o, NEW w, Repeat(o, w) PROVE DirInv'
    BY <2>6, DirectoriesStand DEF Repeat, AttemptEnds
  <2>7. CASE Close
    <3>1. /\ UNCHANGED <<candidates, kills, staging>> /\ phase = "close"
          /\ \/ ~placedBefore /\ Demo.protected /\ phase' = "down" /\ UNCHANGED dirs
             \/ phase' = "record" /\ dirs' = IF placedBefore THEN dirs ELSE dirs \ {at}
      BY <2>7 DEF Close
    <3>2. Forgotten' \subseteq Forgotten
      BY <3>1 DEF Forgotten, LeftBehind, DirInv
    <3> QED BY <2>a, <3>1, <3>2 DEF DirInv
  <2>8. CASE RecordOutcome
    <3>1. UNCHANGED <<candidates, kills, staging, dirs>> /\ phase = "record" /\ phase' = "next"
      BY <2>8 DEF RecordOutcome, RecordDemo
    <3>2. Forgotten' = Forgotten
      BY <3>1 DEF Forgotten, LeftBehind
    <3> QED BY <2>a, <3>1, <3>2 DEF DirInv
  <2>9. CASE Term
    BY <2>9, DirectoriesStand DEF Term
  <2>10. CASE KillSweep
    <3>1. /\ UNCHANGED candidates /\ kills' = kills + 1 /\ phase' = "down"
          /\ dirs \subseteq dirs' /\ dirs' \cup staging' \subseteq dirs \cup staging \cup {at}
      BY <2>10 DEF KillSweep
    <3>2. Forgotten' \subseteq Forgotten \cup {at}
      BY <3>1 DEF Forgotten, LeftBehind
    <3>3. kills' \in Nat /\ IsFiniteSet(Forgotten') /\ Cardinality(Forgotten') <= kills'
      BY <3>1, <3>2, ForgottenGrows
    <3> QED BY <3>1, <3>3 DEF DirInv
  <2>11. CASE UNCHANGED demosVars
    BY <2>11, DirectoriesStand DEF demosVars
  <2>12. QED
    BY <2>1, <2>2, <2>3, <2>4, <2>5, <2>6, <2>7, <2>8, <2>9, <2>10, <2>11 DEF DemosNext, DemosStep
<1>3. QED BY <1>1, <1>2, PTL DEF DemosSpec

\* "unless it is a committed asset or was placed before the sweep": whatever is
\* stopped or killed, no directory that was there is ever deleted, and between
\* invocations the directories and half directories that the sweep has left are
\* those of as many demos at most as kills came.  Committed assets, which it
\* cannot delete, and the halves of archives that it cannot extract are not
\* counted.
THEOREM OnlyKillsLeaveDirectories ==
  DemosSpec => []DirectoriesAsFound
<1>1. DirInv => DirectoriesAsFound
  <2> SUFFICES ASSUME DirInv, phase = "down" PROVE Cardinality(LeftBehind) <= kills
    BY DEF DirInv, DirectoriesAsFound
  <2>1. Forgotten = LeftBehind
    BY DEF Forgotten, Own, Placed
  <2> QED BY <2>1 DEF DirInv
<1>2. QED BY <1>1, DirInvariant, PTL
-----------------------------------------------------------------------------
(* The demo lines.                                                         *)

\* The attempts so far are those of the first simulation files of the plan, and
\* none of them was interrupted.
Tries ==
  /\ attempts \in Seq(Outcomes \ {"interrupted"})
  /\ Len(attempts) <= Len(SimFiles)
  /\ \A i \in 1 .. Len(attempts) : SimFiles[i] \in tried[at]

\* Why the demo is over, as its line will say.
Reason ==
  IF attempts = << >>
  THEN \/ outcome = "no simulation file" /\ SimFiles = << >>
       \/ outcome = "budget" /\ ~MayStart
  ELSE \/ Last(attempts) = "rendered" /\ tried[at] # {}
       \/ Range(SimFiles) \subseteq tried[at]
       \/ ~MayStart

\* While no SIGTERM has come:
LineFacts ==
  /\ ~stop
  /\ DOMAIN lines = Demos /\ DOMAIN tried = Demos
  /\ phase \in {"place", "loop", "attempt", "repeat", "close", "record"} => at \in Demos
  /\ phase \in {"next", "place", "down"} => attempts = << >>
  /\ phase \in {"loop", "attempt", "repeat", "close", "record"} => Tries
  /\ phase = "attempt" => Len(attempts) < Len(SimFiles)
  /\ phase = "repeat" => attempts # << >> /\ Last(attempts) = "rendered" /\ tried[at] # {}
  /\ phase \in {"close", "record"} => Reason
  /\ \A d \in Demos : lines[d] # Unrecorded => LineHolds(d)

LineInv ==
  /\ DirInv
  /\ candidates \in Installations
  /\ terms \in Nat
  /\ terms = 0 => LineFacts

\* A line that holds goes on to hold.
LEMMA LineStays ==
  ASSUME NEW d \in Demos, UNCHANGED candidates, lines'[d] = lines[d], tried[d] \subseteq tried'[d],
         LineHolds(d)
  PROVE  LineHolds(d)'
  BY DEF LineHolds

\* One more line, of the demo at hand, when what it says is so.
LEMMA LineWritten ==
  ASSUME LineFacts, UNCHANGED <<candidates, tried>>, NEW c \in Demos, at' = c,
         NEW line, AppendDemo(line), lines'[c] = line => LineHolds(c)'
  PROVE  /\ DOMAIN lines' = Demos'
         /\ \A d \in Demos' : lines'[d] # Unrecorded => LineHolds(d)'
<1>1. DOMAIN lines' = Demos /\ \A d \in Demos : d # c => lines'[d] = lines[d]
  BY DEF AppendDemo, LineFacts
<1>2. lines'[c] \in {line, lines[c]}
  BY DEF AppendDemo, LineFacts
<1>3. ASSUME NEW d \in Demos, lines'[d] # Unrecorded PROVE LineHolds(d)'
  <2>1. CASE lines'[d] = lines[d]
    BY <1>3, <2>1, LineStays DEF LineFacts
  <2>2. CASE lines'[d] # lines[d]
    <3>1. d = c
      BY <1>1, <2>2
    <3>2. lines'[c] = line
      BY <1>2, <2>2, <3>1
    <3>3. QED BY <3>1, <3>2
  <2>3. QED BY <2>1, <2>2
<1>4. QED BY <1>1, <1>3

\* Steps that write no demo line.
LEMMA LinesStand ==
  ASSUME LineFacts, UNCHANGED <<candidates, lines, tried>>
  PROVE  /\ DOMAIN lines' = Demos' /\ DOMAIN tried' = Demos'
         /\ \A d \in Demos' : lines'[d] # Unrecorded => LineHolds(d)'
  BY LineStays DEF LineFacts

LEMMA LineStep ==
  ASSUME LineInv, DirInv', [DemosNext]_demosVars
  PROVE  LineInv'
<1>1. /\ UNCHANGED candidates /\ terms' \in Nat /\ (terms' = 0 => terms = 0)
  <2>1. terms \in Nat
    BY DEF LineInv
  <2>2. CASE DemosStep
    <3>1. UNCHANGED <<candidates, terms>>
      BY <2>2 DEF DemosStep, Take, Place, TrySimulation, Attempt, Repeat, AttemptEnds, Close,
                  RecordOutcome
    <3>2. QED BY <2>1, <3>1
  <2>3. CASE ~DemosStep
    BY <2>1, <2>3 DEF DemosNext, InvokeSweep, Term, KillSweep, demosVars
  <2>4. QED BY <2>2, <2>3
<1>2. SUFFICES ASSUME terms' = 0, terms = 0 PROVE LineFacts'
  BY <1>1 DEF LineInv
<1>3. LineFacts /\ DirInv /\ candidates \in Installations
  BY <1>2 DEF LineInv
<1> USE <1>1, <1>3
<1>4. at \in Demos => SimFiles \in Seq(STRING)
  BY PlansAssumption
<1>5. ASSUME NEW resume \in BOOLEAN, InvokeSweep(resume) PROVE LineFacts'
  BY <1>5, LinesStand DEF InvokeSweep, LineFacts
<1>6. CASE Take
  <2>1. CASE /\ phase' = "next" /\ at' = at + 1 /\ at + 1 \in Demos
             /\ candidates[at + 1].excluded /\ AppendDemo(Line("excluded", FALSE, FALSE))
    <3> PICK c \in Demos : c = at + 1
      BY <2>1
    <3>1. ASSUME lines'[c] = Line("excluded", FALSE, FALSE) PROVE LineHolds(c)'
      BY <2>1, <3>1 DEF LineHolds, Line
    <3>2. phase = "next" /\ at' = c /\ UNCHANGED <<tried, stop, attempts>>
      BY <1>6, <2>1 DEF Take
    <3>3. /\ DOMAIN lines' = Demos'
          /\ \A d \in Demos' : lines'[d] # Unrecorded => LineHolds(d)'
      BY <2>1, <3>1, <3>2, LineWritten
    <3>4. QED BY <2>1, <3>2, <3>3 DEF LineFacts
  <2>2. CASE /\ UNCHANGED <<lines, tried>> /\ phase = "next" /\ attempts' = << >> /\ ~stop'
             /\ phase' \in {"next", "down"} \/ (phase' = "place" /\ at' \in Demos)
    BY <2>2, LinesStand DEF LineFacts
  <2>3. QED BY <1>6, <2>1, <2>2 DEF Take, LineFacts
<1>7. CASE Place
  <2>1. phase = "place" /\ at \in Demos /\ attempts = << >> /\ UNCHANGED tried
    BY <1>7 DEF Place, LineFacts
  <2>2. ASSUME NEW what, Skip(what),
               \/ what = "disk" /\ at \notin dirs
               \/ what = "not placeable" /\ Demo.bad # "no"
        PROVE  LineFacts'
    <3>1. /\ at' = at /\ AppendDemo(Line(what, FALSE, FALSE))
          /\ phase' = "next" /\ attempts' = << >> /\ stop' = stop
      BY <2>2 DEF RecordDemo
    <3> PICK c \in Demos : c = at
      BY <2>1
    <3>2. ASSUME lines'[c] = Line(what, FALSE, FALSE) PROVE LineHolds(c)'
      <4>1. lines'[c].outcome = what
        BY <3>2 DEF Line
      <4>2. CASE what = "disk" /\ ~candidates[c].placed
        BY <4>1, <4>2 DEF LineHolds
      <4>3. CASE what = "not placeable" /\ candidates[c].bad # "no"
        BY <4>1, <4>3 DEF LineHolds
      <4>4. QED BY <2>2, <4>2, <4>3 DEF DirInv
    <3>3. /\ DOMAIN lines' = Demos'
          /\ \A d \in Demos' : lines'[d] # Unrecorded => LineHolds(d)'
      BY <2>1, <3>1, <3>2, LineWritten
    <3>4. QED BY <2>1, <3>1, <3>3 DEF LineFacts
  <2>3. ASSUME NEW placed, GoOn(placed) PROVE LineFacts'
    <3>1. Tries'
      BY <1>4, <2>1, <2>3 DEF Tries
    <3>2. QED BY <2>1, <2>3, <3>1, LinesStand DEF LineFacts
  <2>4. ASSUME EndSweep, UNCHANGED file PROVE LineFacts'
    BY <2>1, <2>4, LinesStand DEF LineFacts
  <2>5. CASE at \in dirs
    <3>1. (Demo.bad = "tree" /\ Skip("not placeable")) \/ GoOn(TRUE)
      BY <1>7, <2>5 DEF Place
    <3>2. QED BY <2>2, <2>3, <3>1
  <2>6. CASE at \notin dirs
    <3>1. \/ Skip("disk")
          \/ Demo.bad = "member" /\ Skip("not placeable")
          \/ Demo.bad = "tree" /\ Skip("not placeable")
          \/ EndSweep /\ UNCHANGED file
          \/ GoOn(FALSE)
      BY <1>7, <2>6 DEF Place
    <3>2. CASE Skip("disk")
      BY <2>2, <2>6, <3>2
    <3>3. CASE Demo.bad \in {"member", "tree"} /\ Skip("not placeable")
      BY <2>2, <3>3
    <3>4. QED BY <2>3, <2>4, <3>1, <3>2, <3>3
  <2>7. QED BY <2>5, <2>6
<1>8. CASE TrySimulation
  <2>1. /\ phase = "loop" /\ at \in Demos /\ Tries /\ ~stop
        /\ UNCHANGED <<at, attempts, lines, tried, left, longest, stop>>
    BY <1>8 DEF TrySimulation, LineFacts
  <2>2. Tries' /\ MayStart' = MayStart
    BY <2>1 DEF Tries, MayStart
  <2>3. CASE ~Exhausted /\ MayStart
    <3>1. phase' = "attempt"
      BY <1>8, <2>1, <2>3 DEF TrySimulation
    <3>2. Len(attempts) < Len(SimFiles)
      BY <1>4, <2>1, <2>3 DEF Exhausted, Tries
    <3>3. QED BY <2>1, <2>2, <3>1, <3>2, LinesStand DEF LineFacts
  <2>4. CASE ~(~Exhausted /\ MayStart)
    <3>1. phase' = "close"
      BY <1>8, <2>1, <2>4 DEF TrySimulation
    <3>2. Reason'
      <4>1. CASE attempts # << >>
        <5>1. Exhausted => Range(SimFiles) \subseteq tried[at]
          BY <1>4, <2>1 DEF Exhausted, Tries, Range
        <5>2. QED BY <2>1, <2>2, <2>4, <4>1, <5>1 DEF Reason
      <4>2. CASE attempts = << >> /\ SimFiles = << >>
        <5>1. outcome' = "no simulation file"
          BY <1>8, <4>2 DEF TrySimulation
        <5>2. QED BY <2>1, <4>2, <5>1 DEF Reason
      <4>3. CASE attempts = << >> /\ SimFiles # << >>
        <5>1. ~Exhausted
          BY <1>4, <2>1, <4>3, EmptySeq DEF Exhausted
        <5>2. outcome' = "budget"
          BY <1>8, <2>4, <4>3 DEF TrySimulation
        <5>3. QED BY <2>1, <2>2, <2>4, <4>3, <5>1, <5>2 DEF Reason
      <4>4. QED BY <4>1, <4>2, <4>3
    <3>3. QED BY <2>1, <2>2, <3>1, <3>2, LinesStand DEF LineFacts
  <2>5. QED BY <2>3, <2>4
<1>9. ASSUME NEW o \in Outcomes, NEW w, Attempt(o, w) PROVE LineFacts'
  <2>1. /\ phase = "attempt" /\ at \in Demos /\ Tries /\ ~stop /\ Len(attempts) < Len(SimFiles)
        /\ UNCHANGED <<at, lines, stop>> /\ o # "interrupted"
        /\ attempts' = Append(attempts, o)
        /\ tried' = [tried EXCEPT ![at] = @ \cup {SimFiles[Len(attempts')]}]
        /\ phase' \in {"repeat", "close", "loop"}
        /\ phase' \in {"repeat", "close"} => o = "rendered"
    BY <1>9 DEF Attempt, AttemptEnds, LineFacts
  <2>2. /\ attempts' \in Seq(Outcomes \ {"interrupted"}) /\ attempts' # << >>
        /\ Len(attempts') = Len(attempts) + 1 /\ Last(attempts') = o
    BY <2>1 DEF Tries, Last
  <2>3. /\ DOMAIN tried' = Demos /\ \A d \in Demos : tried[d] \subseteq tried'[d]
        /\ tried'[at] = tried[at] \cup {SimFiles[Len(attempts')]}
    BY <2>1 DEF LineFacts
  <2>4. Tries'
    BY <1>4, <2>1, <2>2, <2>3 DEF Tries
  <2>5. \A d \in Demos' : lines'[d] # Unrecorded => LineHolds(d)'
    BY <2>1, <2>3, LineStays DEF LineFacts
  <2>6. o = "rendered" => Reason'
    BY <2>1, <2>2, <2>3 DEF Reason
  <2>7. QED BY <2>1, <2>2, <2>3, <2>4, <2>5, <2>6 DEF LineFacts
<1>10. ASSUME NEW o \in Outcomes, NEW w, Repeat(o, w) PROVE LineFacts'
  <2>1. /\ phase = "repeat" /\ phase' = "close" /\ UNCHANGED <<at, attempts, lines, tried, stop>>
    BY <1>10 DEF Repeat, AttemptEnds
  <2>2. Reason' /\ Tries'
    BY <2>1 DEF LineFacts, Reason, Tries
  <2>3. QED BY <2>1, <2>2, LinesStand DEF LineFacts
<1>11. CASE Close
  <2>1. CASE EndSweep /\ UNCHANGED <<lines, tried>>
    BY <2>1, LinesStand DEF LineFacts
  <2>2. CASE /\ phase = "close" /\ phase' = "record"
             /\ UNCHANGED <<demo, left, longest, stop, lines, tried>>
    <3>1. Reason' /\ Tries'
      BY <2>2 DEF LineFacts, Reason, Tries, MayStart
    <3>2. QED BY <2>2, <3>1, LinesStand DEF LineFacts
  <2>3. QED BY <1>11, <2>1, <2>2 DEF Close
<1>12. CASE RecordOutcome
  <2> DEFINE what == IF attempts = << >> THEN outcome ELSE Last(attempts)
  <2> DEFINE line == Line(what, "interrupted" \in Range(attempts), ~MayStart)
  <2>1. /\ phase = "record" /\ at \in Demos /\ Reason /\ Tries
        /\ at' = at /\ AppendDemo(line) /\ phase' = "next" /\ attempts' = << >>
        /\ UNCHANGED <<tried, stop>>
    BY <1>12 DEF RecordOutcome, RecordDemo, LineFacts
  <2>2. attempts # << >> => what \in {"rendered", "failed", "timeout"}
    BY <2>1 DEF Tries, Last, Outcomes
  <2>3. ASSUME lines'[at] = line PROVE LineHolds(at)'
    <3>1. line.outcome = what /\ line.late = ~MayStart
      BY DEF Line
    <3> HIDE DEF what, line
    <3>2. CASE attempts = << >>
      BY <2>1, <2>3, <3>1, <3>2 DEF LineHolds, Reason, what
    <3>3. CASE attempts # << >>
      BY <2>1, <2>2, <2>3, <3>1, <3>3 DEF LineHolds, Reason, what
    <3>4. QED BY <3>2, <3>3
  <2>4. /\ DOMAIN lines' = Demos'
        /\ \A d \in Demos' : lines'[d] # Unrecorded => LineHolds(d)'
    BY <2>1, <2>3, LineWritten
  <2>5. QED BY <2>1, <2>4 DEF LineFacts
<1>13. CASE Term
  BY <1>2, <1>13 DEF Term
<1>14. CASE KillSweep
  <2>1. EndSweep /\ UNCHANGED <<lines, tried>>
    BY <1>14 DEF KillSweep
  <2>2. QED BY <2>1, LinesStand DEF LineFacts
<1>15. CASE UNCHANGED demosVars
  <2>1. (Reason' <=> Reason) /\ (Tries' <=> Tries)
    BY <1>15 DEF demosVars, Reason, Tries, MayStart
  <2>2. QED BY <1>15, <2>1, LinesStand DEF demosVars, LineFacts
<1>16. QED
  BY <1>5, <1>6, <1>7, <1>8, <1>9, <1>10, <1>11, <1>12, <1>13, <1>14, <1>15 DEF DemosNext, DemosStep

\* "The simulation files are tried in turn ..., stopping at the first that
\* renders": over any number of kills, cut lines and resumptions, what the line of
\* a finished demo says is so, as long as no SIGTERM came.
THEOREM FinishedWasTried ==
  DemosSpec => []FinishedIsTried
<1>1. DemosInit => LineInv
  <2> SUFFICES ASSUME DemosInit PROVE LineInv
    OBVIOUS
  <2>1. DirInv
    BY DirInitially
  <2>2. LineFacts
    BY DEF DemosInit, LineFacts
  <2>3. QED BY <2>1, <2>2 DEF DemosInit, LineInv
<1>2. LineInv /\ DirInv' /\ [DemosNext]_demosVars => LineInv'
  BY LineStep
<1>3. LineInv => FinishedIsTried
  BY DEF LineInv, LineFacts, FinishedIsTried, Finished
<1>4. QED BY <1>1, <1>2, <1>3, DirInvariant, PTL DEF DemosSpec
=============================================================================
