----------------------------- MODULE CreateRun ------------------------------
(***************************************************************************)
(* RunStore.create_run (store.py) at the level of the file system: several *)
(* calls, in any processes, create the same run id at the same time.  Each *)
(* builds a complete directory of its own and renames it to runs/<run_id>; *)
(* rename is the only step that other calls see.  Between two steps any    *)
(* other call may move the directory, and a process may die.               *)
(***************************************************************************)
CONSTANTS
  Creators,     \* the create_run calls for one run id
  NoCreator,
  Leftovers,    \* what may be at runs/<run_id> at first
  MayCrash      \* whether the process of a call may die in the middle

Nothing == "nothing"
\* A directory without a readable status.json, with and without files in it:
\* rename(2) replaces the empty one.
Incomplete == {"empty", "junk"}

ASSUME CreatorAssumption == /\ NoCreator \notin Creators
                            /\ Creators \cap ({Nothing} \cup Incomplete) = {}
ASSUME LeftoverAssumption == /\ Leftovers \subseteq {Nothing} \cup Incomplete
                             /\ Leftovers # {}
                             /\ MayCrash \in BOOLEAN

VARIABLES
  first,      \* history: what was at runs/<run_id> before the calls
  target,     \* what is at runs/<run_id>: nothing, a leftover, or a call's directory
  tmp,        \* the calls whose runs/.tmp-<uuid> exists
  pc,         \* pc[c]: the next step of call c
  result      \* result[c]: none, created, exists, refused (ValueError) or raised (OSError)

vars == <<first, target, tmp, pc, result>>

\* A call whose process died just before its rename is "lost", elsewhere "dead".
Ended  == {"done", "dead", "lost"}
Labels == {"probe", "build", "inspect", "aside", "publish", "recheck", "clean"} \cup Ended

TypeOK ==
  /\ first \in {Nothing} \cup Incomplete
  /\ target \in {Nothing} \cup Incomplete \cup Creators
  /\ tmp \in SUBSET Creators
  /\ pc \in [Creators -> Labels]
  /\ result \in [Creators -> {"none", "created", "exists", "refused", "raised"}]

Init ==
  /\ first \in Leftovers
  /\ target = first
  /\ tmp = {}
  /\ pc = [c \in Creators |-> "probe"]
  /\ result = [c \in Creators |-> "none"]

At(c, label)   == pc[c] = label
Goto(c, label) == pc' = [pc EXCEPT ![c] = label]
\* The call's value is decided; its finally block is next.
Decide(c, value) == Goto(c, "clean") /\ result' = [result EXCEPT ![c] = value]

\* _complete(runs/<run_id>): a directory some call built.
Complete == target \in Creators

\* The run exists already: nothing is written.
Probe(c) ==
  /\ At(c, "probe")
  /\ IF Complete THEN Decide(c, "exists") ELSE Goto(c, "build") /\ UNCHANGED result
  /\ UNCHANGED <<first, target, tmp>>

\* The temporary directory is made and filled.
Build(c) ==
  /\ At(c, "build")
  /\ tmp' = tmp \cup {c}
  /\ Goto(c, "inspect")
  /\ UNCHANGED <<first, target, result>>

\* The stored bytes do not hash to the run id, or the YAML form does not
\* reproduce it.
Refuse(c) ==
  /\ At(c, "build")
  /\ tmp' = tmp \cup {c}
  /\ Decide(c, "refused")
  /\ UNCHANGED <<first, target>>

\* Something is at the target by now: another call's run, or a leftover.
Inspect(c) ==
  /\ At(c, "inspect")
  /\ IF Complete
     THEN Decide(c, "exists")
     ELSE /\ Goto(c, IF target \in Incomplete THEN "aside" ELSE "publish")
          /\ UNCHANGED result
  /\ UNCHANGED <<first, target, tmp>>

\* Mutant of MoveAside: the leftover stays where it is.
MoveAsideNot(c) ==
  /\ At(c, "aside")
  /\ Goto(c, "publish")
  /\ UNCHANGED <<first, target, tmp, result>>

\* The leftover is renamed to .stale-<uuid> and removed.  Whatever is at the
\* target now is moved; nothing there is an OSError, which is passed over.
MoveAside(c) ==
  /\ At(c, "aside")
  /\ target' = Nothing
  /\ Goto(c, "publish")
  /\ UNCHANGED <<first, tmp, result>>

\* Mutant of Publish: the directory that is there is replaced.
PublishOver(c) ==
  /\ At(c, "publish")
  /\ target' = c
  /\ tmp' = tmp \ {c}
  /\ Decide(c, "created")
  /\ UNCHANGED first

\* os.rename(tmp, target).
Publish(c) ==
  /\ At(c, "publish")
  /\ IF target \in {Nothing, "empty"}
     THEN /\ target' = c
          /\ tmp' = tmp \ {c}
          /\ Decide(c, "created")
     ELSE Goto(c, "recheck") /\ UNCHANGED <<target, tmp, result>>
  /\ UNCHANGED first

\* Mutant of Recheck: every failed rename is reported.
RecheckNot(c) ==
  /\ At(c, "recheck")
  /\ Decide(c, "raised")
  /\ UNCHANGED <<first, target, tmp>>

\* Another call won the race, or the OSError is raised.
Recheck(c) ==
  /\ At(c, "recheck")
  /\ Decide(c, IF Complete THEN "exists" ELSE "raised")
  /\ UNCHANGED <<first, target, tmp>>

\* The finally block removes what is left of the temporary directory.
Clean(c) ==
  /\ At(c, "clean")
  /\ tmp' = tmp \ {c}
  /\ Goto(c, "done")
  /\ UNCHANGED <<first, target, result>>

Crash(c) ==
  /\ MayCrash
  /\ pc[c] \notin Ended
  /\ Goto(c, IF At(c, "publish") THEN "lost" ELSE "dead")
  /\ UNCHANGED <<first, target, tmp, result>>

CreatorStep(c) == Probe(c) \/ Build(c) \/ Refuse(c) \/ Inspect(c) \/ MoveAside(c)
                  \/ Publish(c) \/ Recheck(c) \/ Clean(c)

Next == \E c \in Creators : CreatorStep(c) \/ Crash(c)

Spec == Init /\ [][Next]_vars
-----------------------------------------------------------------------------
\* Nothing was in the way.
Clear == first = Nothing

\* A call that raised has returned no answer.
Answer == [c \in Creators |->
             IF Clear /\ result[c] \in {"created", "exists"} THEN result[c] ELSE "none"]

Owner == IF Clear /\ Complete THEN target ELSE NoCreator

Creation == INSTANCE RunCreation WITH owner <- Owner, answer <- Answer

\* store.py: "two creators of one run id race safely (one gets created=True)":
\* one call creates the run, its directory stays, and the others find it, when
\* nothing incomplete was at the target.  (When it was, see OneCreated.)
CreationSpec == Creation!Spec

\* No call fails because another one was faster.
NobodyLoses == Clear => \A c \in Creators : result[c] # "raised"

\* store.py: of several creators of one run id, one gets created=True.  (The
\* backend starts a worker for each.)
OneCreated ==
  \A c, d \in Creators : result[c] = "created" /\ result[d] = "created" => c = d

\* create_run "completes" a leftover directory: when every call has returned,
\* raised or died, the run is complete at its place although calls died anywhere
\* and moved each other's directories aside, unless no call got an answer other
\* than a refused spec.  A call that died between moving what it found aside and
\* its rename is the one exception: it may leave nothing there, even where
\* another call returned the run.
EndsComplete ==
  (\A c \in Creators : pc[c] \in Ended \ {"lost"}) =>
    Complete \/ \A c \in Creators : result[c] \in {"none", "refused"}
=============================================================================
