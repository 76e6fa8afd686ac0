----------------------------- MODULE DemoSweep ------------------------------
(***************************************************************************)
(* scripts/sweep_demos.py: every demo of an installation is placed, its     *)
(* simulation files are tried until one renders, and what came of it is     *)
(* appended to results.jsonl, by invocations that may be stopped (SIGTERM)  *)
(* or killed and that resume from the file.  Time is counted in units of    *)
(* DEADLINE_MARGIN_S, five minutes; a render of zero units is repeated.     *)
(* The run of an attempt is LocalBackend's; here it ends in any way.        *)
(***************************************************************************)
EXTENDS Integers, SequencesExt

CONSTANTS
  Installations,  \* the candidates considered, each a sequence of demos, those
                  \* excluded by name first
  SweepBudget,  \* the time a fresh invocation has
  PerRun,       \* --per-run-timeout
  MaxKills,     \* bounds the kills and uncaught errors
  MaxTerms      \* bounds the SIGTERMs

\* A plan is a list of simulation files.
ASSUME PlansAssumption ==
  \A c \in Installations : \A d \in DOMAIN c : c[d].plan \in Seq(STRING)

VARIABLES
  candidates,   \* the demos, in the order they are taken
  phase,        \* where the invocation is; "down" between invocations
  at,           \* the demo at hand, a position in candidates
  done,         \* finished(), read when the invocation starts
  stop,         \* set by the SIGTERM handler
  left,         \* the time left to the deadline
  longest,      \* the longest completed attempt
  placedBefore,
  attempts,     \* rec["attempts"]: the outcomes so far, in plan order
  outcome,      \* the outcome of a demo without attempts
  lines,        \* the last demo line of each demo, Unrecorded without one
  maxWall,      \* the largest wall time among the attempt lines
  cut,          \* results.jsonl ends in a cut line
  dirs,         \* demos with their directory in demo_dirs
  staging,      \* demos with a half extracted directory there
  tried,        \* history: tried[d], the simulation files tried to their end
  kills, terms

demo == <<at, placedBefore, attempts, outcome>>
memory == <<done, stop, longest>>
file == <<lines, maxWall, cut>>
demosVars == <<candidates, phase, left, demo, memory, file, dirs, staging, tried, kills, terms>>
-----------------------------------------------------------------------------
Margin  == 1        \* DEADLINE_MARGIN_S
MinLeft == 2        \* MIN_LEFT_S

Demos == DOMAIN candidates
Demo == candidates[at]
SimFiles == Demo.plan
Unrecorded == [outcome |-> "none", interrupted |-> FALSE, late |-> FALSE]
Line(what, interrupted, late) == [outcome |-> what, interrupted |-> interrupted, late |-> late]

\* may_start, and the timeout of an attempt.
MayStart == left >= Max({longest, MinLeft})
Timeout == Min({PerRun, left - Margin})

\* finished: the demos with a line that is not of an interrupted demo.
Finished == {d \in Demos : lines[d] # Unrecorded /\ ~lines[d].interrupted}

\* append, of a demo line: after a cut line it is lost with it.
AppendDemo(line) ==
  /\ lines' = IF cut THEN lines ELSE [lines EXCEPT ![at'] = line]
  /\ cut' = FALSE
  /\ UNCHANGED maxWall

DemosInit ==
  /\ candidates \in Installations
  /\ phase = "down" /\ at = 0 /\ done = {} /\ stop = FALSE /\ left = SweepBudget /\ longest = 0
  /\ placedBefore = FALSE /\ attempts = << >> /\ outcome = "none"
  /\ lines = [d \in Demos |-> Unrecorded] /\ maxWall = 0 /\ cut = FALSE
  /\ dirs = {d \in Demos : candidates[d].placed} /\ staging = {}
  /\ tried = [d \in Demos |-> {}] /\ kills = 0 /\ terms = 0

\* The process ends, and with it what it has in memory.
EndSweep ==
  /\ phase' = "down" /\ at' = 0 /\ done' = {} /\ stop' = FALSE /\ longest' = 0
  /\ placedBefore' = FALSE /\ attempts' = << >> /\ outcome' = "none"

\* main: --resume keeps the deadline, of which time has passed.
InvokeSweep(resume) ==
  /\ phase = "down"
  /\ phase' = "next" /\ stop' = FALSE /\ done' = Finished /\ longest' = maxWall
  /\ left' \in IF resume THEN 0 .. left ELSE {SweepBudget}
  /\ UNCHANGED <<candidates, demo, file, dirs, staging, tried, kills, terms>>

\* A stop line is appended and the invocation ends.
Stop ==
  /\ EndSweep
  /\ cut' = FALSE
  /\ UNCHANGED <<lines, maxWall>>

\* run: the next candidate.  The excluded ones are recorded whatever happens.
Take ==
  /\ phase = "next"
  /\ LET d == at + 1
         leave == \/ d \notin Demos
                  \/ stop
                  \/ d \notin done /\ ~MayStart
     IN IF d \in Demos /\ candidates[d].excluded
        THEN /\ at' = d
             /\ IF d \in done THEN UNCHANGED file ELSE AppendDemo(Line("excluded", FALSE, FALSE))
             /\ UNCHANGED <<phase, memory, placedBefore, attempts, outcome>>
        ELSE IF leave THEN Stop
        ELSE /\ at' = d /\ phase' = IF d \in done THEN "next" ELSE "place"
             /\ UNCHANGED <<memory, file, placedBefore, attempts, outcome>>
  /\ UNCHANGED <<candidates, left, dirs, staging, tried, kills, terms>>

\* A demo line is appended, and the demo is over.
RecordDemo(line) ==
  /\ at' = at /\ AppendDemo(line)
  /\ phase' = "next" /\ placedBefore' = FALSE /\ attempts' = << >> /\ outcome' = "none"
  /\ UNCHANGED memory

Skip(what) == RecordDemo(Line(what, FALSE, FALSE))

\* extract removes what an earlier one left; a bad member raises.
Extracts == Demo.bad # "member"

\* The directory is placed, or was: the simulation files are next.
GoOn(placed) ==
  /\ phase' = "loop" /\ placedBefore' = placed
  /\ UNCHANGED <<at, attempts, outcome, memory, file>>

\* Mutant of Place: whether the directory was there is looked up afterwards.
PlaceThenLook ==
  /\ phase = "place"
  /\ IF Demo.bad # "no" THEN Skip("not placeable") /\ UNCHANGED <<dirs, staging>>
     ELSE GoOn(TRUE) /\ dirs' = dirs \cup {at} /\ staging' = staging \ {at}
  /\ UNCHANGED <<candidates, left, tried, kills, terms>>

\* demo, up to the plan: the disk is looked at, the directory placed and hashed.
\* What a failed extraction leaves stays; what cannot be hashed is deleted, a
\* committed asset never (its deletion raises, which nobody catches).
Place ==
  /\ phase = "place"
  /\ IF at \in dirs
     THEN /\ IF Demo.bad = "tree" THEN Skip("not placeable") ELSE GoOn(TRUE)
          /\ UNCHANGED <<dirs, staging>>
     ELSE \/ Skip("disk") /\ UNCHANGED <<dirs, staging>>
          \/ /\ ~Extracts
             /\ Skip("not placeable") /\ staging' = staging \cup {at} /\ UNCHANGED dirs
          \/ /\ Extracts
             /\ staging' = staging \ {at}
             /\ dirs' = IF Demo.bad = "tree" /\ ~Demo.protected THEN dirs ELSE dirs \cup {at}
             /\ IF Demo.bad # "tree" THEN GoOn(FALSE)
                ELSE IF Demo.protected THEN EndSweep /\ UNCHANGED file
                ELSE Skip("not placeable")
  /\ UNCHANGED <<candidates, left, tried, kills, terms>>

\* Mutant of Exhausted: one simulation file is tried.
ExhaustedAtOnce == Len(attempts) >= 1 \/ SimFiles = << >>

\* No simulation file is left.
Exhausted == Len(attempts) = Len(SimFiles)

\* The head of the loop over the plan.
TrySimulation ==
  /\ phase = "loop"
  /\ LET starts == ~Exhausted /\ ~stop /\ MayStart
     IN /\ phase' = IF starts THEN "attempt" ELSE "close"
        /\ outcome' = CASE SimFiles = << >> -> "no simulation file"
                        [] SimFiles # << >> /\ ~starts /\ attempts = << >> -> "budget"
                        [] OTHER -> outcome
  /\ UNCHANGED <<candidates, at, placedBefore, attempts, memory, file, left, dirs, staging, tried,
                 kills, terms>>

\* The attempt ends with outcome o after w units and its line is appended: the
\* run rendered or failed, was not admitted or was cancelled by somebody
\* else, or is cancelled here when stop is seen or the time is over.
AttemptEnds(o, w) ==
  /\ o = "interrupted" => stop
  /\ o = "timeout" => w = Timeout
  /\ left' = left - w
  /\ longest' = IF o = "interrupted" THEN longest ELSE Max({longest, w})
  /\ maxWall' = IF cut THEN maxWall ELSE Max({maxWall, w})
  /\ cut' = FALSE
  /\ UNCHANGED <<candidates, at, done, placedBefore, outcome, stop, lines, dirs, staging, kills, terms>>

Outcomes == {"rendered", "failed", "timeout", "interrupted"}

Attempt(o, w) ==
  /\ phase = "attempt"
  /\ AttemptEnds(o, w)
  /\ attempts' = Append(attempts, o)
  /\ tried' = IF o = "interrupted" THEN tried
              ELSE [tried EXCEPT ![at] = @ \cup {SimFiles[Len(attempts')]}]
  /\ phase' = IF o = "rendered" /\ (w = 0 \/ Demo.repeat) /\ ~stop /\ MayStart' THEN "repeat"
           ELSE IF o \in {"rendered", "interrupted"} THEN "close" ELSE "loop"

\* The repeat's outputs are compared; its outcome is not the demo's.
Repeat(o, w) ==
  /\ phase = "repeat"
  /\ AttemptEnds(o, w)
  /\ phase' = "close"
  /\ UNCHANGED <<attempts, tried>>

\* Mutant of Close: the directory is deleted whoever placed it.
CloseAlways ==
  /\ phase = "close"
  /\ IF Demo.protected THEN EndSweep /\ UNCHANGED dirs
     ELSE phase' = "record" /\ dirs' = dirs \ {at} /\ UNCHANGED <<demo, memory>>
  /\ UNCHANGED <<candidates, left, file, staging, tried, kills, terms>>

\* The directory goes when this demo placed it.  safe_delete refuses a
\* committed asset, which nobody catches.
Close ==
  /\ phase = "close"
  /\ IF ~placedBefore /\ Demo.protected THEN EndSweep /\ UNCHANGED dirs
     ELSE /\ phase' = "record" /\ dirs' = IF placedBefore THEN dirs ELSE dirs \ {at}
          /\ UNCHANGED <<demo, memory>>
  /\ UNCHANGED <<candidates, left, file, staging, tried, kills, terms>>

\* The demo's line: the outcome of the last attempt.
RecordOutcome ==
  /\ phase = "record"
  /\ RecordDemo(Line(IF attempts = << >> THEN outcome ELSE Last(attempts),
                     "interrupted" \in Range(attempts), ~MayStart))
  /\ UNCHANGED <<candidates, left, dirs, staging, tried, kills, terms>>

\* on_term
Term ==
  /\ phase # "down" /\ ~stop /\ terms < MaxTerms
  /\ stop' = TRUE /\ terms' = terms + 1
  /\ UNCHANGED <<candidates, phase, left, demo, done, longest, file, dirs, staging, tried, kills>>

\* SIGKILL, the end of the host or an error nobody catches, perhaps in the
\* middle of an extraction, after it, or in the writing of a line.
KillSweep ==
  /\ phase # "down" /\ kills < MaxKills
  /\ kills' = kills + 1
  /\ EndSweep
  /\ \/ UNCHANGED <<dirs, staging>>
     \/ /\ phase = "place" /\ at \notin dirs
        /\ \/ staging' = staging \cup {at} /\ UNCHANGED dirs
           \/ Extracts /\ dirs' = dirs \cup {at} /\ staging' = staging \ {at}
  /\ cut' \in {cut} \cup {TRUE : p \in {phase} \cap {"next", "place", "attempt", "repeat", "record"}}
  /\ UNCHANGED <<candidates, left, lines, maxWall, tried, terms>>

DemosStep ==
  \/ Take \/ Place \/ TrySimulation \/ Close \/ RecordOutcome
  \/ \E o \in Outcomes, w \in 0 .. PerRun : w <= Timeout /\ (Attempt(o, w) \/ Repeat(o, w))
DemosNext == (\E resume \in BOOLEAN : InvokeSweep(resume)) \/ DemosStep \/ Term \/ KillSweep

DemosSpec == DemosInit /\ [][DemosNext]_demosVars

\* An invocation goes on, and the sweep is invoked again with time left.
DemosFairSpec == DemosSpec /\ WF_demosVars(DemosStep) /\ SF_demosVars(InvokeSweep(FALSE))
-----------------------------------------------------------------------------
\* What the sweep has put into demo_dirs, whole or half, but for committed assets
\* and the halves of archives that cannot be extracted, which stay.
LeftBehind ==
  {d \in dirs \cup staging : /\ ~candidates[d].placed /\ ~candidates[d].protected
                             /\ candidates[d].bad # "member"}

\* safe_delete and "unless it is a committed asset or was placed before the
\* sweep": no demo directory that was there is ever gone, and of what the sweep
\* has extracted no more is left than one demo's for each invocation that was
\* killed, however often it is resumed.
DirectoriesAsFound ==
  /\ \A d \in Demos : candidates[d].placed => d \in dirs
  /\ phase = "down" => Cardinality(LeftBehind) <= kills

\* What the line of a finished demo says is so: it could not be placed, has no
\* simulation file, rendered, or every simulation file was tried or the time
\* was over.
LineHolds(d) ==
  LET c == candidates[d] IN
  CASE lines[d].outcome = "excluded" -> c.excluded
    [] lines[d].outcome = "disk" -> ~c.placed
    [] lines[d].outcome = "not placeable" -> c.bad # "no"
    [] lines[d].outcome = "no simulation file" -> c.plan = << >>
    [] OTHER -> \/ lines[d].outcome = "rendered" /\ tried[d] # {}
                \/ Range(c.plan) \subseteq tried[d]
                \/ lines[d].late

\* "The simulation files are tried in turn ..., stopping at the first that
\* renders": over kills, cut lines and resumptions a demo only counts as
\* finished when that is done, as long as no SIGTERM came.
FinishedIsTried == terms = 0 => \A d \in Finished : LineHolds(d)

\* Every demo is finished in the end when the sweep is invoked again and again,
\* whatever was killed or stopped on the way.
EveryDemoFinished == <>[](Finished = Demos)
=============================================================================
