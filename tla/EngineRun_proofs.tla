--------------------------- MODULE EngineRun_proofs --------------------------
(***************************************************************************)
(* What EngineRun's admission guarantees, for any distributions, versions  *)
(* and files, when nothing changes between a check and the use after it.   *)
(***************************************************************************)
EXTENDS EngineRun, TLAPS

USE DEF backend, worker, runner, Environment, Goto, Fail, Ends, Loads

Running == {"resolve", "copy", "compile", "engine", "move", "dry_run", "render"}

\* The backend's memory: an adapter it has loaded is the installed one.
MemoryInv ==
  pc = "serving" =>
    /\ DOMAIN code = DOMAIN target
    /\ \A e \in DOMAIN target :
         code[e] \notin {"unused", "failed"} => code[e] = installed[target[e]]

\* From its submission the run's job names the version the backend has loaded.
JobInv ==
  pc \in {"queued", "granted", "collect"} \cup Running =>
    Used \in DOMAIN job /\ job[Used] = [loaded |-> TRUE, version |-> code[Used]]

\* The worker has started with that version, and records it.
WorkerInv ==
  /\ pc \in {"granted", "collect"} \cup Running => adapter = code[Used] /\ recorded = adapter
  /\ pc = "granted" => installed[target[Used]] = adapter

\* So has the runner; and it copies the directory it has just verified.
RunnerInv ==
  /\ pc \in Running => ran = adapter
  /\ pc \in {"dry_run", "render"} => mode = "layered"
  /\ pc = "copy" => directory = "stamped"
  /\ pc \in {"compile", "engine", "move"} => copy = "stamped"

\* A result is written in the end, and a rendered run has it.
ResultInv ==
  /\ pc \notin {"collect", "over"} => result = "none"
  /\ result = "rendered" => ran = adapter /\ (mode = "passthrough" => copy = "stamped")
  /\ state = "rendered" => pc = "over"

AdmissionInv == MemoryInv /\ JobInv /\ WorkerInv /\ RunnerInv /\ ResultInv /\ RenderedAsAdmitted

LEMMA AdmissionStep ==
  ASSUME Windows \subseteq {"start", "queued"}, AdmissionInv, [Next]_vars
  PROVE  AdmissionInv'
<1> USE DEF AdmissionInv, MemoryInv, JobInv, WorkerInv, RunnerInv, ResultInv,
            RenderedAsAdmitted, Running
<1>1. ASSUME NEW d \in Distributions, Install(d) PROVE AdmissionInv'
  <2>1. pc \in {"start", "queued"} /\ UNCHANGED <<mode, directory, pc, backend, worker, runner, state>>
    BY <1>1 DEF Install, Change
  <2>2. QED BY <2>1
<1>2. CASE Edit
  <2>1. pc \in {"start", "queued"} /\ UNCHANGED <<mode, installed, pc, backend, worker, runner, state>>
    BY <1>2 DEF Edit, Change
  <2>2. QED BY <2>1
<1>3. CASE Discover
  BY <1>3 DEF Discover
<1>4. ASSUME NEW e \in Engines, Use(e) PROVE AdmissionInv'
  BY <1>4 DEF Use, Loaded
<1>5. CASE Submit
  <2> DEFINE mine == Loaded({Used})
  <2> DEFINE accepted == /\ Used \in DOMAIN target /\ mine[Used] # "failed"
                         /\ directory = "stamped"
  <2>1. CASE ~accepted
    <3>1. /\ pc' = "over" /\ state' = "refused"
          /\ UNCHANGED <<installed, result, ran, adapter, copy, mode>>
      BY <1>5, <2>1 DEF Submit
    <3>2. QED BY <1>5, <3>1 DEF Submit
  <2>2. CASE accepted
    <3>1. /\ pc = "serving" /\ pc' = "queued" /\ state' = "accepted"
          /\ code' = Loaded(DOMAIN target) /\ job' = Described(code')
          /\ UNCHANGED <<mode, installed, directory, target, worker, runner>>
      BY <1>5, <2>2 DEF Submit
    <3>2. code'[Used] = mine[Used]
      BY <2>2, <3>1 DEF Loaded
    <3>3. code'[Used] = installed[target[Used]]
      BY <2>2, <3>1, <3>2 DEF Loaded
    <3>4. /\ Used \in DOMAIN job'
          /\ job'[Used] = [loaded |-> TRUE, version |-> installed[target[Used]]]
      BY <2>2, <3>1, <3>2 DEF Described
    <3>5. QED BY <3>1, <3>3, <3>4
  <2>3. QED BY <2>1, <2>2
<1>6. CASE Boot
  BY <1>6 DEF Boot, SetMatches, Here
<1>7. CASE Launch     BY <1>7 DEF Launch
<1>8. CASE Resolve    BY <1>8 DEF Resolve
<1>9. CASE Copy       BY <1>9 DEF Copy
<1>10. CASE Compile   BY <1>10 DEF Compile
<1>11. CASE RunEngine BY <1>11 DEF RunEngine
<1>12. CASE Move \/ EngineEnds BY <1>12 DEF Move, EngineEnds
<1>13. CASE DryRun    BY <1>13 DEF DryRun
<1>14. CASE Render    BY <1>14 DEF Render
<1>15. CASE RunnerDies BY <1>15 DEF RunnerDies
<1>16. CASE Collect   BY <1>16 DEF Collect, Complete
<1>17. CASE UNCHANGED vars BY <1>17 DEF vars
<1>18. QED
  BY <1>1, <1>2, <1>3, <1>4, <1>5, <1>6, <1>7, <1>8, <1>9, <1>10, <1>11, <1>12, <1>13,
     <1>14, <1>15, <1>16, <1>17 DEF Next

\* test_engine_set: a rendered run was admitted, executed and recorded at one
\* version of its adapter, and a copied demo has the stamped digest, whatever is
\* installed, upgraded, removed or edited while the run is queued.
THEOREM RendersWhatWasAdmitted ==
  ASSUME Windows \subseteq {"start", "queued"}
  PROVE  Spec => []RenderedAsAdmitted
<1>1. Init => AdmissionInv
  BY DEF Init, AdmissionInv, MemoryInv, JobInv, WorkerInv, RunnerInv, ResultInv,
         RenderedAsAdmitted, Running
<1>2. AdmissionInv /\ [Next]_vars => AdmissionInv'
  BY AdmissionStep
<1>3. AdmissionInv => RenderedAsAdmitted
  BY DEF AdmissionInv
<1>4. QED BY <1>1, <1>2, <1>3, PTL DEF Spec
-----------------------------------------------------------------------------
(* The files of a run.                                                      *)

Listed(f)   == \E p \in DOMAIN out : out[p] = f
Replaced(f) == \E g \in written \ {f} : g[1] = "copy" /\ Flat(g[2]) \in {Name(f[2]), Flat(f[2])}
Waits(f)    == \E p \in unmoved : f = <<"copy", p>>

Before == {"start", "serving", "queued", "granted", "resolve", "copy", "compile", "engine",
           "dry_run", "render"}

\* Before the engine runs there is no file.
NoFileInv == pc \in Before => written = {} /\ unmoved = {} /\ out = << >>

\* What is in the output folder was written, under the path it has there, or
\* moved to one of the two names of its path.
PlacedInv ==
  \A p \in DOMAIN out :
    /\ out[p] \in written
    /\ p = out[p][2] \/ (out[p][1] = "copy" /\ p \in {Name(out[p][2]), Flat(out[p][2])})

\* What is still in the copy is not in the output folder.
UnmovedInv ==
  /\ pc = "move" => \A p \in unmoved : <<"copy", p>> \in written /\ ~Listed(<<"copy", p>>)
  /\ result = "rendered" => (mode = "layered" \/ unmoved = {})

\* A demo's files are accounted for while they are moved; the images of a
\* composed run are in the output folder under their own names.
AccountedInv ==
  /\ mode = "passthrough" => \A f \in written : Listed(f) \/ Replaced(f) \/ Waits(f)
  /\ mode = "layered" => \A f \in written : f[2] \in DOMAIN out => Listed(f)

ModeInv ==
  /\ mode \in {"passthrough", "layered"}
  /\ mode = "passthrough" => pc \notin {"dry_run", "render"}
  /\ mode = "layered" => pc \notin {"resolve", "copy", "compile", "engine", "move"}
  /\ pc \notin {"collect", "over"} => result = "none" /\ state # "rendered"
  /\ pc = "collect" => state # "rendered"

FileInv ==
  /\ NoFileInv /\ PlacedInv /\ UnmovedInv /\ AccountedInv /\ ModeInv /\ EveryFileListed

\* The flattened name of a path is one name.
LEMMA FlatIsOneName ==
  ASSUME NEW p
  PROVE  Name(Flat(p)) = Flat(p)
BY DEF Name, Flat, Last

\* A file moved to its destination is there; what it replaces had that name.
LEMMA MoveAccounts ==
  ASSUME FileInv, Move
  PROVE  PlacedInv' /\ UnmovedInv' /\ AccountedInv'
<1> USE DEF FileInv
<1>1. PICK i \in DOMAIN Paths :
        /\ Paths[i] \in unmoved /\ unmoved' = unmoved \ {Paths[i]}
        /\ out' = Put(out, Destination(out, Paths[i]), <<"copy", Paths[i]>>)
  BY DEF Move
<1> DEFINE p == Paths[i]
<1> DEFINE moved == <<"copy", p>>
<1> DEFINE d == Destination(out, p)
<1>2. /\ pc = "move" /\ pc' = "move" /\ written' = written /\ result' = result /\ mode' = mode
      /\ mode = "passthrough"
  BY DEF Move, ModeInv
<1>3. DOMAIN out' = DOMAIN out \cup {d} /\ out'[d] = moved /\ \A q \in DOMAIN out \ {d} : out'[q] = out[q]
  BY <1>1 DEF Put
<1>4. moved \in written /\ ~Listed(moved)
  BY <1>1, <1>2 DEF UnmovedInv
<1>5. d \in {Name(p), Flat(p)} /\ (d \in DOMAIN out => d = Flat(p))
  BY DEF Destination
<1>6. PlacedInv'
  <2>1. moved[1] = "copy" /\ moved[2] = p
    OBVIOUS
  <2> HIDE DEF moved, d, p
  <2> QED BY <1>2, <1>3, <1>4, <1>5, <2>1 DEF PlacedInv
<1>7. UnmovedInv'
  <2>1. \A q \in unmoved' : <<"copy", q>> \in written /\ ~Listed(<<"copy", q>>) /\ <<"copy", q>> # moved
    BY <1>1, <1>2 DEF UnmovedInv
  <2>2. \A q \in unmoved' : ~Listed(<<"copy", q>>)'
    <3> HIDE DEF moved, d, p
    <3> QED BY <1>3, <2>1 DEF Listed
  <2>3. result' # "rendered"
    BY <1>2 DEF ModeInv
  <2> QED BY <1>2, <2>1, <2>2, <2>3 DEF UnmovedInv
<1>8. AccountedInv'
  <2> SUFFICES ASSUME NEW f \in written
               PROVE  Listed(f)' \/ Replaced(f)' \/ Waits(f)'
    BY <1>2 DEF AccountedInv
  <2>1. Listed(f) \/ Replaced(f) \/ Waits(f)
    BY <1>2 DEF AccountedInv, ModeInv
  <2>2. CASE f = moved
    <3> HIDE DEF moved, d
    <3> QED BY <1>3, <2>2 DEF Listed
  <2>3. CASE Replaced(f)
    BY <1>2, <2>3 DEF Replaced
  <2>4. CASE Waits(f) /\ f # moved
    BY <1>1, <2>4 DEF Waits
  <2>5. CASE Listed(f) /\ f # moved
    <3>1. PICK q \in DOMAIN out : out[q] = f
      BY <2>5 DEF Listed
    <3>2. CASE q # d
      <4> HIDE DEF moved, d
      <4> QED BY <1>3, <3>1, <3>2 DEF Listed
    <3>3. CASE q = d
      <4>1. d = Flat(p)
        BY <1>5, <3>3
      <4>2. Flat(p) \in {Name(f[2]), Flat(f[2])}
        BY <3>1, <3>3, <4>1, FlatIsOneName DEF PlacedInv
      <4>3. moved[1] = "copy" /\ Flat(moved[2]) = Flat(p)
        OBVIOUS
      <4> HIDE DEF moved
      <4> QED BY <1>2, <1>4, <2>5, <4>2, <4>3 DEF Replaced
    <3> QED BY <3>2, <3>3
  <2> QED BY <2>1, <2>2, <2>3, <2>4, <2>5
<1> QED BY <1>6, <1>7, <1>8

\* What a rendered run does not list was replaced.
LEMMA CollectLists ==
  ASSUME FileInv, Collect
  PROVE  EveryFileListed'
<1> USE DEF FileInv
<1> SUFFICES ASSUME state' = "rendered", NEW f \in written
             PROVE  \/ \E p \in DOMAIN out : out[p] = f /\ Flat(p) \in artifacts'
                    \/ Replaced(f)
  BY DEF Collect, EveryFileListed, Replaced
<1>1. Complete /\ artifacts' = {Flat(p) : p \in DOMAIN out}
  BY DEF Collect
<1>2. Listed(f) \/ Replaced(f)
  <2>1. CASE mode = "layered"
    BY <1>1, <2>1 DEF Complete, AccountedInv
  <2>2. CASE mode = "passthrough"
    BY <1>1, <2>2 DEF Complete, AccountedInv, UnmovedInv, Waits
  <2> QED BY <2>1, <2>2 DEF ModeInv
<1> QED BY <1>1, <1>2 DEF Listed

LEMMA FileStep ==
  ASSUME FileInv, [Next]_vars
  PROVE  FileInv'
<1> USE DEF FileInv
<1> DEFINE Files == <<mode, written, unmoved, out>>
\* The steps that leave the files and the final state alone.
<1>1. ASSUME UNCHANGED Files, state' # "rendered",
             pc' \in Before => pc \in Before,
             pc' = "move" => pc = "move",
             result' = result \/ (result' = "failed" /\ pc' = "collect"),
             ModeInv'
      PROVE  FileInv'
  <2>1. NoFileInv' /\ PlacedInv' /\ AccountedInv' /\ EveryFileListed'
    BY <1>1 DEF NoFileInv, PlacedInv, AccountedInv, EveryFileListed, Listed, Replaced, Waits
  <2>2. UnmovedInv'
    BY <1>1 DEF UnmovedInv, Listed
  <2> QED BY <1>1, <2>1, <2>2
<1>2. CASE (\E d \in Distributions : Install(d)) \/ Edit
  <2>1. UNCHANGED <<mode, pc, runner, worker, state>>
    BY <1>2 DEF Install, Edit
  <2> QED BY <2>1 DEF NoFileInv, PlacedInv, UnmovedInv, AccountedInv, ModeInv, EveryFileListed, Listed, Replaced, Waits
<1>3. CASE Discover \/ (\E e \in Engines : Use(e)) \/ Submit \/ Boot
  BY <1>1, <1>3 DEF Discover, Use, Submit, Boot, ModeInv, Before
<1>4. CASE Launch \/ RunnerDies
  BY <1>1, <1>4 DEF Launch, RunnerDies, ModeInv, Before
<1>5. CASE Resolve \/ Copy \/ Compile \/ DryRun
  BY <1>1, <1>5 DEF Resolve, Copy, Compile, DryRun, ModeInv, Before
<1>6. CASE RunEngine
  <2>1. PICK direct \in SomePaths, changed \in SomePaths :
          /\ written' = {<<"out", p>> : p \in direct} \cup {<<"copy", p>> : p \in changed}
          /\ unmoved' = changed
          /\ out' = [p \in direct |-> <<"out", p>>]
    BY <1>6 DEF RunEngine
  <2>2. pc' = "move" /\ pc = "engine" /\ mode' = mode /\ state' = state /\ result' = result
    BY <1>6 DEF RunEngine
  <2>3. \A f \in written' : Listed(f)' \/ Waits(f)'
    BY <2>1 DEF Listed, Waits
  <2>4. PlacedInv'
    BY <2>1 DEF PlacedInv
  <2>5. UnmovedInv'
    BY <2>1, <2>2 DEF UnmovedInv, Listed, ModeInv
  <2> QED BY <2>2, <2>3, <2>4, <2>5 DEF NoFileInv, AccountedInv, ModeInv, EveryFileListed, Before
<1>7. CASE Move
  <2>1. pc = "move" /\ UNCHANGED <<pc, mode, written, result, state>>
    BY <1>7 DEF Move
  <2> QED BY <1>7, <2>1, MoveAccounts DEF NoFileInv, ModeInv, EveryFileListed, Before
<1>8. CASE EngineEnds
  <2>1. pc = "move" /\ pc' = "collect" /\ unmoved = {} /\ UNCHANGED Files /\ state' = state
    BY <1>8 DEF EngineEnds
  <2>2. NoFileInv' /\ PlacedInv' /\ AccountedInv' /\ UnmovedInv'
    BY <2>1 DEF NoFileInv, PlacedInv, AccountedInv, UnmovedInv, Listed, Replaced, Waits, Before
  <2> QED BY <2>1, <2>2 DEF ModeInv, EveryFileListed
<1>9. CASE Render
  <2>1. PICK named \in SomePaths :
          /\ written' = {<<"out", p>> : p \in named}
          /\ \E there \in SUBSET named : out' = [p \in there |-> <<"out", p>>]
    BY <1>9 DEF Render
  <2>2. pc' = "collect" /\ pc = "render" /\ unmoved' = unmoved /\ mode' = mode /\ state' = state
    BY <1>9 DEF Render
  <2>3. mode = "layered"
    BY <2>2 DEF ModeInv
  <2> QED BY <2>1, <2>2, <2>3 DEF NoFileInv, PlacedInv, UnmovedInv, AccountedInv, ModeInv, EveryFileListed, Listed, Before
<1>10. CASE Collect
  <2>1. pc' = "over" /\ UNCHANGED <<mode, written, unmoved, out, result>>
    BY <1>10 DEF Collect
  <2>2. EveryFileListed'
    BY <1>10, CollectLists
  <2> QED BY <2>1, <2>2 DEF NoFileInv, PlacedInv, UnmovedInv, AccountedInv, ModeInv, Listed, Replaced, Waits, Before
<1>11. CASE UNCHANGED vars
  BY <1>11 DEF vars, NoFileInv, PlacedInv, UnmovedInv, AccountedInv, ModeInv, EveryFileListed, Listed, Replaced, Waits
<1> QED BY <1>2, <1>3, <1>4, <1>5, <1>6, <1>7, <1>8, <1>9, <1>10, <1>11 DEF Next

\* passthrough.py: each file the engine wrote is listed, unless a file moved
\* from the copy replaced it under that name, whatever the engine writes and
\* wherever the runner dies.
THEOREM FilesAreListed == Spec => []EveryFileListed
<1>1. Init => FileInv
  BY DEF Init, FileInv, NoFileInv, PlacedInv, UnmovedInv, AccountedInv, ModeInv,
         EveryFileListed, Before
<1>2. FileInv => EveryFileListed
  BY DEF FileInv
<1> QED BY <1>1, <1>2, FileStep, PTL DEF Spec
=============================================================================
