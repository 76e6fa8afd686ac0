--------------------------- MODULE Compose_proofs ----------------------------
(***************************************************************************)
(* For any documents and library: a recipe composes exactly when the rules  *)
(* hold, an error names a key of the layer file it names, and the stated    *)
(* layer of a composed member holds it.  When the files have different      *)
(* stems, a sweep has one run per listed sensor and each settings member is *)
(* in one run.                                                              *)
(***************************************************************************)
EXTENDS Compose, SequenceTheorems, FunctionTheorems, FiniteSetTheorems, TLAPS

\* An error, and one that names its layer.
IsError(e) == e # NoError /\ NamesItsLayer(e)

LEMMA RecipeErrors ==
  ASSUME NEW fields, fields \subseteq doc.recipe \cup Required.recipe \cup PassthroughRecipe
  PROVE  \A e \in Blame("recipe", fields) : IsError(e)
  BY DEF Blame, IsError, NoError, NamesItsLayer

LEMMA ScenarioErrors ==
  ASSUME NEW fields,
         \A f \in fields : \/ f \in doc.scenario \cup Required.scenario
                           \/ f = "file" /\ "scenario" \in doc.absent
  PROVE  \A e \in Blame("scenario", fields) : IsError(e)
  BY DEF Blame, IsError, NoError, NamesItsLayer

LEMMA ProfileErrors ==
  ASSUME NEW fields,
         \A f \in fields : \/ f \in doc.profile \cup Required.engine_profile
                           \/ f = "file" /\ "engine_profile" \in doc.absent
  PROVE  \A e \in Blame("engine_profile", fields) : IsError(e)
  BY DEF Blame, IsError, NoError, NamesItsLayer

\* Of the numbers of checks, at most eleven, there is a first.
LEMMA FirstExists ==
  ASSUME NEW S \in SUBSET (1 .. 11), S # {}
  PROVE  Min(S) \in S
<1> DEFINE Least(x) == x \in S /\ \A y \in S : x <= y
<1>1. ASSUME NEW n \in 0 .. 10, \A y \in S : n < y, \A x \in S : ~Least(x)
      PROVE  \A y \in S : n + 1 < y
  <2>1. n + 1 \notin S
    BY <1>1
  <2>2. QED BY <1>1, <2>1
<1>2. \E x \in S : Least(x)
  <2> SUFFICES ASSUME \A x \in S : ~Least(x) PROVE FALSE
    OBVIOUS
  <2> HIDE DEF Least
  <2>0. \A y \in S : 0 < y   OBVIOUS
  <2>1. \A y \in S : 1 < y   BY <1>1, <2>0
  <2>2. \A y \in S : 2 < y   BY <1>1, <2>1
  <2>3. \A y \in S : 3 < y   BY <1>1, <2>2
  <2>4. \A y \in S : 4 < y   BY <1>1, <2>3
  <2>5. \A y \in S : 5 < y   BY <1>1, <2>4
  <2>6. \A y \in S : 6 < y   BY <1>1, <2>5
  <2>7. \A y \in S : 7 < y   BY <1>1, <2>6
  <2>8. \A y \in S : 8 < y   BY <1>1, <2>7
  <2>9. \A y \in S : 9 < y   BY <1>1, <2>8
  <2>10. \A y \in S : 10 < y BY <1>1, <2>9
  <2>11. \A y \in S : 11 < y BY <1>1, <2>10
  <2>12. PICK y \in S : TRUE
    OBVIOUS
  <2>13. 11 < y /\ y \in 1 .. 11
    BY <2>11, <2>12
  <2>14. QED BY <2>13
<1>3. QED BY <1>2 DEF Min

\* The first failing check raises one of its errors.
LEMMA FirstOfErrors ==
  ASSUME NEW checks, DOMAIN checks \subseteq 1 .. 11,
         \A i \in DOMAIN checks : \A e \in checks[i] : IsError(e)
  PROVE  \A e \in FirstOf(checks) : IsError(e)
<1> DEFINE failing == {i \in DOMAIN checks : checks[i] # {}}
<1>1. CASE failing = {}
  BY <1>1 DEF FirstOf
<1>2. CASE failing # {}
  <2>1. Min(failing) \in failing
    BY <1>2, FirstExists
  <2>2. FirstOf(checks) = checks[Min(failing)]
    BY <1>2 DEF FirstOf
  <2>3. QED BY <2>1, <2>2
<1>3. QED BY <1>1, <1>2

\* Every check before the merge names its layer.
LEMMA StartErrors ==
  ASSUME doc \in Documents
  PROVE  /\ \A e \in SensorListErrors : IsError(e)
         /\ \A e \in LayerErrors : IsError(e)
         /\ \A e \in SensorErrors : IsError(e)
         /\ \A e \in SettingsErrors : IsError(e)
         /\ \A e \in EngineErrors : IsError(e)
         /\ \A e \in FidelityErrors : IsError(e)
<1> USE DEF If, Required
<1>1. \A e \in SensorListErrors : IsError(e)
  <2>1. \A e \in If({"sensor", "sensors"} \subseteq doc.recipe, Blame("recipe", {"sensors"})) :
          IsError(e)
    BY RecipeErrors
  <2>2. \A e \in Blame("recipe", {"sensor"}) : IsError(e)
    BY RecipeErrors
  <2>3. IsSweep => \A e \in Blame("recipe", {"sensors"}) : IsError(e)
    BY RecipeErrors DEF IsSweep
  <2>4. QED BY <2>1, <2>2, <2>3, FirstOfErrors DEF SensorListErrors
<1>2. \A e \in LayerErrors : IsError(e)
  <2>1. /\ \A e \in Blame("recipe", {"scenario"} \ doc.recipe) : IsError(e)
        /\ \A e \in Blame("recipe", {"engine_profile"} \ doc.recipe) : IsError(e)
    BY RecipeErrors
  <2>2. \A e \in If("scenario" \in doc.absent, Blame("scenario", {"file"})) : IsError(e)
    BY ScenarioErrors
  <2>3. \A e \in If("engine_profile" \in doc.absent, Blame("engine_profile", {"file"})) :
          IsError(e)
    BY ProfileErrors
  <2>4. QED BY <2>1, <2>2, <2>3, FirstOfErrors, SMTT(30) DEF LayerErrors
<1>3. \A e \in Blame("recipe", {SensorKey}) : IsError(e)
  BY RecipeErrors DEF SensorKey, IsSweep
<1>4. \A e \in SensorErrors : IsError(e)
  BY <1>3 DEF SensorErrors
<1>5. \A e \in Blame("recipe", {"settings"}) : IsError(e)
  BY RecipeErrors
<1>6. \A e \in SettingsErrors : IsError(e)
  <2> DEFINE shared == If(EntryShared, Blame("recipe", {SensorKey}))
             unplaced == If(\/ "settings" \notin doc.recipe
                            \/ \E e \in ToSet(doc.settings) :
                                 \A s \in Sensors : e \notin ToSet(Entries(s))
                            \/ ~IsInjective(doc.settings),
                            Blame("recipe", {"settings"}))
             empty == If(\E s \in Sensors : SettingsOf(s) = << >>, Blame("recipe", {SensorKey}))
  <2>1. /\ \A e \in shared : IsError(e)
        /\ \A e \in unplaced : IsError(e)
        /\ \A e \in empty : IsError(e)
    BY <1>3, <1>5
  <2>2. SettingsErrors = FirstOf(<<shared, unplaced, empty>>)
    BY Zenon DEF SettingsErrors
  <2> HIDE DEF shared, unplaced, empty
  <2>3. QED BY <2>1, <2>2, FirstOfErrors
<1>7. \A e \in EngineErrors : IsError(e)
  BY <1>5 DEF EngineErrors
<1>8. \A e \in FidelityErrors : IsError(e)
  <2>1. \A e \in If(~(doc.bySensor \subseteq Sensors), Blame("recipe", {"fidelity_by_sensor"})) :
          IsError(e)
    BY RecipeErrors, DocumentAssumption
  <2>2. \A e \in Blame("recipe", {"fidelity"}) : IsError(e)
    BY RecipeErrors
  <2>3. QED BY <2>1, <2>2, FirstOfErrors DEF FidelityErrors
<1>9. QED BY <1>1, <1>2, <1>4, <1>6, <1>7, <1>8

\* So does every check of the merge.
LEMMA MergeErrorsAre ==
  ASSUME doc \in Documents, NEW s
  PROVE  \A e \in MergeErrors(s) : IsError(e)
<1> DEFINE unknown(k) == Blame(k, Members(k) \ DOMAIN Owner)
           missing(k) == Blame(k, Required[k] \ Keys(k))
<1>1. Keys("recipe") \subseteq doc.recipe \cup Required.recipe
  BY DEF Keys, Required
<1>2. Keys("scenario") = doc.scenario /\ Keys("engine_profile") = doc.profile
  BY DEF Keys
<1>3. ASSUME NEW fields, fields \subseteq Keys("recipe") \cup Required.recipe
      PROVE  \A e \in Blame("recipe", fields) : IsError(e)
  BY <1>1, <1>3, RecipeErrors
<1>4. ASSUME NEW fields, fields \subseteq Keys("scenario") \cup Required.scenario
      PROVE  \A e \in Blame("scenario", fields) : IsError(e)
  BY <1>2, <1>4, ScenarioErrors
<1>5. ASSUME NEW fields, fields \subseteq Keys("engine_profile") \cup Required.engine_profile
      PROVE  \A e \in Blame("engine_profile", fields) : IsError(e)
  BY <1>2, <1>5, ProfileErrors
<1>6. /\ \A e \in unknown("recipe") : IsError(e)
      /\ \A e \in missing("recipe") : IsError(e)
  BY <1>3 DEF Members, Required
<1>7. /\ \A e \in unknown("scenario") : IsError(e)
      /\ \A e \in missing("scenario") : IsError(e)
  BY <1>4 DEF Members, Required
<1>8. /\ \A e \in unknown("engine_profile") : IsError(e)
      /\ \A e \in missing("engine_profile") : IsError(e)
  BY <1>5 DEF Members, Required
<1>9. \A e \in Foreign : IsError(e)
  <2>1. ToSet(Layers) = {"recipe", "scenario", "engine_profile"}
    BY DEF ToSet, Layers
  <2>2. /\ \A e \in ForeignErrors("recipe") : IsError(e)
        /\ \A e \in ForeignErrors("scenario") : IsError(e)
        /\ \A e \in ForeignErrors("engine_profile") : IsError(e)
    BY <1>3, <1>4, <1>5 DEF ForeignErrors, Members
  <2>3. QED BY <2>1, <2>2 DEF Foreign
<1>10. /\ \A e \in Blame("recipe", {"compose"}) : IsError(e)
       /\ \A e \in Blame("recipe", {"meta"}) : IsError(e)
       /\ \A e \in Blame("recipe", {"settings"}) : IsError(e)
  BY RecipeErrors DEF Required
<1>11. \A e \in If(~(doc.overrides \subseteq EngineOverrides \cap doc.parents),
                   Blame("recipe", {"engine_overrides"})) : IsError(e)
  BY RecipeErrors, DocumentAssumption DEF If
<1> DEFINE rules == If(~doc.rules, Blame("recipe", {"compose"}))
           named == If(~doc.named, Blame("recipe", {"meta"}))
           roi == If(ToSet(bySensor[s]) \cap doc.badRoi # {}, Blame("recipe", {"settings"}))
           overrides == If(~(doc.overrides \subseteq EngineOverrides \cap doc.parents),
                           Blame("recipe", {"engine_overrides"}))
<1>12. /\ \A e \in rules : IsError(e)
       /\ \A e \in named : IsError(e)
       /\ \A e \in roi : IsError(e)
       /\ \A e \in overrides : IsError(e)
  BY <1>10, <1>11 DEF If
<1>13. MergeErrors(s) =
         FirstOf(<<unknown("recipe"), missing("recipe"), unknown("scenario"), missing("scenario"),
                   unknown("engine_profile"), missing("engine_profile"),
                   Foreign, rules, named, roi, overrides>>)
  BY Zenon DEF MergeErrors
<1> HIDE DEF unknown, missing, rules, named, roi, overrides
<1>14. QED BY <1>6, <1>7, <1>8, <1>9, <1>12, <1>13, FirstOfErrors

\* And every check of a pass-through recipe.
LEMMA PassthroughErrorsAre ==
  \A e \in PassthroughErrors : IsError(e)
<1>1. /\ \A e \in Blame("recipe", doc.recipe \ PassthroughRecipe) : IsError(e)
      /\ \A e \in Blame("recipe", PassthroughRecipe \ doc.recipe) : IsError(e)
      /\ \A e \in Blame("recipe", {"compose"}) : IsError(e)
      /\ \A e \in Blame("recipe", {"meta"}) : IsError(e)
      /\ \A e \in Blame("recipe", {"passthrough"}) : IsError(e)
  BY RecipeErrors DEF PassthroughRecipe
<1>2. /\ \A e \in If("engine_profile" \in doc.absent, Blame("engine_profile", {"file"})) :
           IsError(e)
      /\ \A e \in Blame("engine_profile", doc.profile \ (PassthroughProfile \cup {"resources"})) :
           IsError(e)
      /\ \A e \in Blame("engine_profile", PassthroughProfile \ doc.profile) : IsError(e)
      /\ \A e \in Blame("engine_profile", {"engine"}) : IsError(e)
  BY ProfileErrors DEF If, PassthroughProfile, Required
<1> DEFINE unknown == Blame("recipe", doc.recipe \ PassthroughRecipe)
           missing == Blame("recipe", PassthroughRecipe \ doc.recipe)
           rules == If(~doc.rules, Blame("recipe", {"compose"}))
           named == If(~doc.named, Blame("recipe", {"meta"}))
           block == If(~doc.block, Blame("recipe", {"passthrough"}))
           file == If("engine_profile" \in doc.absent, Blame("engine_profile", {"file"}))
           foreign == Blame("engine_profile", doc.profile \ (PassthroughProfile \cup {"resources"}))
           without == Blame("engine_profile", PassthroughProfile \ doc.profile)
           engine == If(~(doc.engine \subseteq PassthroughEngine) \/ "generator" \notin doc.engine,
                        Blame("engine_profile", {"engine"}))
<1>3. /\ \A e \in rules : IsError(e)
      /\ \A e \in named : IsError(e)
      /\ \A e \in block : IsError(e)
      /\ \A e \in engine : IsError(e)
  BY <1>1, <1>2 DEF If
<1>4. PassthroughErrors =
        FirstOf(<<unknown, missing, rules, named, block, file, foreign, without, engine>>)
  BY Zenon DEF PassthroughErrors
<1>5. /\ \A e \in unknown : IsError(e)
      /\ \A e \in missing : IsError(e)
      /\ \A e \in file : IsError(e)
      /\ \A e \in foreign : IsError(e)
      /\ \A e \in without : IsError(e)
  BY <1>1, <1>2
<1> HIDE DEF unknown, missing, rules, named, block, file, foreign, without, engine
<1>6. QED BY <1>3, <1>4, <1>5, FirstOfErrors

\* The elements of a sequence are its head and those of its tail.
LEMMA ToSetHeadTail ==
  ASSUME NEW S, NEW q \in Seq(S), q # << >>
  PROVE  Tail(q) \in Seq(S) /\ ToSet(q) = {Head(q)} \cup ToSet(Tail(q))
<1>1. /\ Tail(q) \in Seq(S) /\ Len(q) \in Nat \ {0} /\ Len(Tail(q)) = Len(q) - 1
      /\ \A i \in 1 .. Len(Tail(q)) : Tail(q)[i] = q[i + 1]
  BY HeadTailProperties, EmptySeq
<1>2. DOMAIN q = 1 .. Len(q) /\ DOMAIN Tail(q) = 1 .. Len(q) - 1 /\ Head(q) = q[1]
  BY <1>1
<1>3. ASSUME NEW i \in DOMAIN q PROVE q[i] \in {Head(q)} \cup ToSet(Tail(q))
  <2>1. i = 1 \/ (i - 1 \in DOMAIN Tail(q) /\ Tail(q)[i - 1] = q[i])
    BY <1>1, <1>2
  <2>2. QED BY <1>2, <2>1 DEF ToSet
<1>4. ASSUME NEW i \in DOMAIN Tail(q) PROVE Tail(q)[i] \in ToSet(q)
  <2>1. i + 1 \in DOMAIN q /\ Tail(q)[i] = q[i + 1]
    BY <1>1, <1>2
  <2>2. QED BY <2>1 DEF ToSet
<1>5. Head(q) \in ToSet(q)
  BY <1>1, <1>2 DEF ToSet
<1>6. QED BY <1>1, <1>3, <1>4, <1>5 DEF ToSet

\* The sensors gone through have their runs, under their own names.
Composing ==
  /\ left \in Seq(STRING) /\ ToSet(left) \subseteq Sensors
  /\ \A s \in Sensors : \/ s \in ToSet(left)
                        \/ RunName(s) \in DOMAIN runs /\ runs[RunName(s)].sensor = s

RunsInv ==
  /\ doc \in Documents
  /\ step \in {"settings", "engine", "fidelity", "merge"} => Sensors \subseteq DOMAIN Library
  /\ step = "merge" => Composing
  /\ OneRunPerSensor

\* A raised error names its layer.
ErrorInv ==
  /\ doc \in Documents
  /\ ErrorNamesItsLayer

\* Two sensors of one recipe have two names.
LEMMA NamesDiffer ==
  ASSUME doc \in Documents, Sensors \subseteq DOMAIN Library,
         \A s, t \in DOMAIN Library : Library[s].stem = Library[t].stem => s = t,
         NEW s \in Sensors, NEW t \in Sensors, RunName(s) = RunName(t)
  PROVE  s = t
<1>1. CASE IsSweep
  BY <1>1 DEF RunName
<1>2. CASE ~IsSweep
  <2>1. doc.sensors \in Seq(STRING) /\ Len(doc.sensors) <= 1
    BY <1>2, DocumentAssumption DEF IsSweep
  <2>2. \A i, j \in DOMAIN doc.sensors : i = j
    BY <2>1
  <2>3. QED BY <2>2 DEF Sensors, ToSet
<1>3. QED BY <1>1, <1>2

LEMMA RunsStep ==
  ASSUME \A s, t \in DOMAIN Library : Library[s].stem = Library[t].stem => s = t,
         RunsInv, [RecipeNext]_recipeVars
  PROVE  RunsInv'
<1> USE StartErrors, MergeErrorsAre DEF CheckAt, RaiseOr, IsError
<1>1. doc' = doc /\ doc \in Documents /\ Sensors' = Sensors
  BY DEF RunsInv, RecipeNext, ReadSensorList, LoadLayers, LoadSensors, SplitSettings, ApplyEngineRules,
         CheckFidelity, MergeRun, Finish, ComposePassthrough, recipeVars, Sensors
<1>2. ASSUME step' # "done" \/ error' # NoError PROVE OneRunPerSensor'
  BY <1>2 DEF OneRunPerSensor, Succeeded
<1>3. CASE ReadSensorList
  BY <1>1, <1>2, <1>3 DEF ReadSensorList, RunsInv
<1>4. CASE LoadLayers
  BY <1>1, <1>2, <1>4 DEF LoadLayers, RunsInv
<1>5. CASE LoadSensors
  BY <1>1, <1>2, <1>5 DEF LoadSensors, RunsInv, SensorErrors, If, Blame
<1>6. CASE SplitSettings
  BY <1>1, <1>2, <1>6 DEF SplitSettings, RunsInv
<1>7. CASE ApplyEngineRules
  BY <1>1, <1>2, <1>7 DEF ApplyEngineRules, RunsInv
<1>8. CASE CheckFidelity
  <2>1. doc.sensors \in Seq(STRING)
    BY <1>1, DocumentAssumption
  <2>2. step' = "merge" => Composing'
    BY <1>1, <1>8, <2>1 DEF CheckFidelity, Composing, Sensors
  <2>3. QED BY <1>1, <1>2, <1>8, <2>2 DEF CheckFidelity, RunsInv
<1>9. CASE MergeRun
  <2> DEFINE s == Head(left)
  <2>1. /\ step = "merge" /\ left # << >> /\ left \in Seq(STRING) /\ Sensors \subseteq DOMAIN Library
        /\ Composing
    BY <1>9 DEF MergeRun, RunsInv, Composing
  <2>2. CASE MergeErrors(s) # {}
    BY <1>1, <1>2, <1>9, <2>2 DEF MergeRun, RunsInv
  <2>3. CASE MergeErrors(s) = {}
    <3>1. /\ step' = "merge" /\ runs' = AddRun(RunName(s), Composed(s)) /\ left' = Tail(left)
      BY <1>9, <2>1, <2>3 DEF MergeRun
    <3>2. /\ left' \in Seq(STRING)
          /\ ToSet(left) = {s} \cup ToSet(left')
      BY <2>1, <3>1, ToSetHeadTail
    <3>3. s \in Sensors
      BY <2>1, <3>2 DEF Composing
    <3>4. ASSUME NEW t \in Sensors, t \notin ToSet(left')
          PROVE  (RunName(t) \in DOMAIN runs /\ runs[RunName(t)].sensor = t)'
      <4>1. RunName(t)' = RunName(t) /\ Composed(s).sensor = s
        BY <1>1 DEF RunName, IsSweep, Composed
      <4>2. CASE t = s
        BY <3>1, <4>1, <4>2 DEF AddRun
      <4>3. CASE t # s
        <5>1. RunName(t) # RunName(s)
          BY <1>1, <2>1, <3>3, <4>3, NamesDiffer
        <5>2. RunName(t) \in DOMAIN runs /\ runs[RunName(t)].sensor = t
          BY <2>1, <3>2, <3>4, <4>3 DEF Composing
        <5>3. QED BY <3>1, <4>1, <5>1, <5>2 DEF AddRun
      <4>4. QED BY <4>2, <4>3
    <3>5. Composing'
      BY <1>1, <2>1, <3>2, <3>4 DEF Composing
    <3>6. QED BY <1>1, <1>2, <2>1, <3>1, <3>5 DEF RunsInv
  <2>4. QED BY <2>2, <2>3
<1>10. CASE Finish
  <2>1. ToSet(left) = {}
    BY <1>10 DEF Finish, ToSet
  <2>2. \A s \in Sensors : \E n \in DOMAIN runs : runs[n].sensor = s
    BY <1>10, <2>1 DEF Finish, RunsInv, Composing
  <2>3. QED BY <1>1, <1>10, <2>2 DEF Finish, RunsInv, OneRunPerSensor
<1>11. CASE ComposePassthrough
  BY <1>1, <1>11 DEF ComposePassthrough, RunsInv, OneRunPerSensor
<1>12. CASE UNCHANGED recipeVars
  BY <1>12 DEF recipeVars, RunsInv, Composing, OneRunPerSensor, Succeeded, Sensors, RunName, IsSweep
<1>13. QED
  BY <1>3, <1>4, <1>5, <1>6, <1>7, <1>8, <1>9, <1>10, <1>11, <1>12 DEF RecipeNext

\* compose.py: "a sweep: one run per listed sensor", when no two sensor files
\* have one stem.
THEOREM SweepIsComposedWhole ==
  ASSUME \A s, t \in DOMAIN Library : Library[s].stem = Library[t].stem => s = t
  PROVE  RecipeSpec => []OneRunPerSensor
<1>1. RecipeInit => RunsInv
  BY DEF RecipeInit, RunsInv, OneRunPerSensor, Succeeded
<1>2. RunsInv /\ [RecipeNext]_recipeVars => RunsInv'
  BY RunsStep
<1>3. RunsInv => OneRunPerSensor
  BY DEF RunsInv
<1>4. QED BY <1>1, <1>2, <1>3, PTL DEF RecipeSpec

LEMMA ErrorStep ==
  ASSUME ErrorInv, [RecipeNext]_recipeVars
  PROVE  ErrorInv'
<1>1. doc' = doc /\ doc \in Documents
  BY DEF ErrorInv, RecipeNext, CheckAt, ReadSensorList, LoadLayers, LoadSensors, SplitSettings,
         ApplyEngineRules, CheckFidelity, MergeRun, Finish, ComposePassthrough, recipeVars
<1>2. error' = error \/ IsError(error')
  <2> USE StartErrors, MergeErrorsAre, PassthroughErrorsAre, <1>1 DEF CheckAt, RaiseOr
  <2>1. CASE ReadSensorList
    BY <2>1 DEF ReadSensorList
  <2>2. CASE LoadLayers
    BY <2>2 DEF LoadLayers
  <2>3. CASE LoadSensors
    BY <2>3 DEF LoadSensors
  <2>4. CASE SplitSettings
    BY <2>4 DEF SplitSettings
  <2>5. CASE ApplyEngineRules
    BY <2>5 DEF ApplyEngineRules
  <2>6. CASE CheckFidelity
    BY <2>6 DEF CheckFidelity
  <2>7. CASE MergeRun
    BY <2>7 DEF MergeRun
  <2>8. CASE ComposePassthrough
    BY <2>8 DEF ComposePassthrough
  <2>9. CASE Finish \/ UNCHANGED recipeVars
    BY <2>9 DEF Finish, recipeVars
  <2>10. QED
    BY <2>1, <2>2, <2>3, <2>4, <2>5, <2>6, <2>7, <2>8, <2>9 DEF RecipeNext
<1>3. QED BY <1>1, <1>2 DEF ErrorInv, ErrorNamesItsLayer, NamesItsLayer, IsError

\* compose.py: "Errors name the layer file and the field in it".
THEOREM ErrorsNameTheirLayer ==
  RecipeSpec => []ErrorNamesItsLayer
<1>1. RecipeInit => ErrorInv
  BY DEF RecipeInit, ErrorInv, ErrorNamesItsLayer
<1>2. ErrorInv /\ [RecipeNext]_recipeVars => ErrorInv'
  BY ErrorStep
<1>3. ErrorInv => ErrorNamesItsLayer
  BY DEF ErrorInv
<1>4. QED BY <1>1, <1>2, <1>3, PTL DEF RecipeSpec
-----------------------------------------------------------------------------
(* What composes.                                                           *)

\* The members of a sequence that are in a set, taken in their order.
LEMMA OnlyInOrder ==
  ASSUME NEW q, NEW n \in Nat, DOMAIN q = 1 .. n, NEW S
  PROVE  /\ ToSet(Only(q, S)) = ToSet(q) \cap S
         /\ Only(q, S) = << >> <=> ToSet(q) \cap S = {}
         /\ \A k, l \in DOMAIN Only(q, S) : k < l =>
              \E i, j \in DOMAIN q : i < j /\ Only(q, S)[k] = q[i] /\ Only(q, S)[l] = q[j]
<1> DEFINE at == {i \in DOMAIN q : q[i] \in S}
           upTo(i) == {j \in at : j <= i}
           c == Cardinality(at)
           rank == [i \in at |-> Cardinality(upTo(i))]
           place(k) == CHOOSE i \in at : Cardinality(upTo(i)) = k
<1>1. IsFiniteSet(1 .. n)
  <2>1. 1 \in Int /\ n \in Int
    OBVIOUS
  <2> QED BY <2>1, FS_Interval
<1>2. IsFiniteSet(at) /\ c \in Nat
  <2>1. at \in SUBSET (1 .. n)
    OBVIOUS
  <2> QED BY <1>1, <2>1, FS_Subset, FS_CardinalityType
<1>3. ASSUME NEW i \in at
      PROVE  IsFiniteSet(upTo(i)) /\ Cardinality(upTo(i)) \in 1 .. c
  <2>1. upTo(i) \in SUBSET at /\ i \in upTo(i)
    OBVIOUS
  <2>2. IsFiniteSet(upTo(i)) /\ Cardinality(upTo(i)) <= c
    BY <1>2, <2>1, FS_Subset
  <2>3. Cardinality(upTo(i)) \in Nat /\ Cardinality(upTo(i)) # 0
    BY <2>1, <2>2, FS_CardinalityType, FS_EmptySet
  <2> QED BY <1>2, <2>2, <2>3
<1>4. ASSUME NEW i \in at, NEW j \in at, i < j
      PROVE  Cardinality(upTo(i)) < Cardinality(upTo(j))
  <2>1. upTo(i) \in SUBSET upTo(j) /\ j \in upTo(j) /\ j \notin upTo(i)
    <3>1. i \in Nat /\ j \in Nat /\ \A k \in at : k \in Nat
      OBVIOUS
    <3> QED BY <1>4, <3>1
  <2>2. /\ Cardinality(upTo(i)) <= Cardinality(upTo(j))
        /\ Cardinality(upTo(j)) = Cardinality(upTo(i)) => upTo(j) = upTo(i)
    BY <1>3, <2>1, FS_Subset
  <2> HIDE DEF upTo, at
  <2>3. Cardinality(upTo(i)) \in Nat /\ Cardinality(upTo(j)) \in Nat
    <3>1. Cardinality(upTo(i)) \in 1 .. c /\ Cardinality(upTo(j)) \in 1 .. c
      BY <1>3
    <3> QED BY <1>2, <3>1
  <2> QED BY <2>1, <2>2, <2>3
<1>5. \A i \in at : i \in Nat
  OBVIOUS
<1> HIDE DEF at, upTo
<1>6. rank \in Injection(at, 1 .. c)
  <2>1. rank \in [at -> 1 .. c]
    BY <1>3
  <2>2. ASSUME NEW i \in at, NEW j \in at, rank[i] = rank[j] PROVE i = j
    <3>1. Cardinality(upTo(i)) = Cardinality(upTo(j)) /\ Cardinality(upTo(i)) \in Nat
      BY <1>2, <1>3, <2>2
    <3> QED BY <1>4, <1>5, <3>1
  <2> HIDE DEF rank
  <2> QED BY <2>1, <2>2 DEF Injection, IsInjective
<1>7. rank \in Surjection(at, 1 .. c)
  <2>1. IsFiniteSet(1 .. c) /\ Cardinality(1 .. c) = c
    <3>1. 1 \in Int /\ c \in Int
      BY <1>2
    <3>2. IsFiniteSet(1 .. c) /\ Cardinality(1 .. c) = IF 1 > c THEN 0 ELSE c - 1 + 1
      BY <3>1, FS_Interval
    <3> QED BY <1>2, <3>2
  <2> QED BY <1>6, <2>1, FS_Injection
<1>8. ASSUME NEW k \in 1 .. c
      PROVE  place(k) \in at /\ Cardinality(upTo(place(k))) = k
  <2>1. \E i \in at : rank[i] = k
    BY <1>7 DEF Surjection
  <2> QED BY <2>1
<1>9. ASSUME NEW i \in at PROVE place(Cardinality(upTo(i))) = i
  <2>1. Cardinality(upTo(i)) \in 1 .. c
    BY <1>3
  <2> DEFINE m == place(Cardinality(upTo(i)))
  <2>2. m \in at /\ Cardinality(upTo(m)) = Cardinality(upTo(i))
    BY <1>8, <2>1
  <2> HIDE DEF m
  <2>3. ~(m < i) /\ ~(i < m)
    BY <1>2, <1>4, <2>1, <2>2
  <2> QED BY <1>5, <2>2, <2>3
<1>10. Only(q, S) = [k \in 1 .. c |-> q[place(k)]]
  BY Zenon DEF Only, at, upTo
<1> HIDE DEF place
<1>11. ToSet(q) \cap S = {q[i] : i \in at}
  BY DEF at, ToSet
<1>12. ToSet(Only(q, S)) = {q[i] : i \in at}
  <2>1. ToSet(Only(q, S)) = {q[place(k)] : k \in 1 .. c}
    BY <1>10 DEF ToSet
  <2>2. \A k \in 1 .. c : q[place(k)] \in {q[i] : i \in at}
    BY <1>8
  <2>3. \A i \in at : q[i] \in {q[place(k)] : k \in 1 .. c}
    BY <1>3, <1>9
  <2> QED BY <2>1, <2>2, <2>3
<1>13. Only(q, S) = << >> <=> at = {}
  <2>1. at = {} <=> c = 0
    BY <1>2, FS_EmptySet
  <2>2. Only(q, S) = << >> <=> c = 0
    BY <1>2, <1>10
  <2> QED BY <2>1, <2>2
<1>14. ASSUME NEW k \in 1 .. c, NEW l \in 1 .. c, k < l
       PROVE  place(k) < place(l) /\ place(k) \in DOMAIN q /\ place(l) \in DOMAIN q
  <2>1. /\ place(k) \in at /\ Cardinality(upTo(place(k))) = k
        /\ place(l) \in at /\ Cardinality(upTo(place(l))) = l
    BY <1>8
  <2>2. ~(place(l) < place(k)) /\ place(k) # place(l)
    BY <1>4, <1>14, <2>1
  <2>3. place(k) \in DOMAIN q /\ place(l) \in DOMAIN q
    BY <2>1 DEF at
  <2> QED BY <1>5, <2>1, <2>2, <2>3
<1>15. ASSUME NEW k \in DOMAIN Only(q, S), NEW l \in DOMAIN Only(q, S), k < l
       PROVE  \E i, j \in DOMAIN q : i < j /\ Only(q, S)[k] = q[i] /\ Only(q, S)[l] = q[j]
  <2>1. k \in 1 .. c /\ l \in 1 .. c
    BY <1>10
  <2>2. Only(q, S)[k] = q[place(k)] /\ Only(q, S)[l] = q[place(l)]
    BY <1>10, <2>1
  <2> QED BY <1>14, <1>15, <2>1, <2>2
<1> QED BY <1>11, <1>12, <1>13, <1>15, SMTT(30)

\* No check fails when none has errors.
LEMMA FirstOfNone ==
  ASSUME NEW checks, DOMAIN checks \subseteq 1 .. 11
  PROVE  FirstOf(checks) = {} <=> \A i \in DOMAIN checks : checks[i] = {}
<1> DEFINE failing == {i \in DOMAIN checks : checks[i] # {}}
<1>1. failing # {} => Min(failing) \in failing
  BY FirstExists
<1>2. FirstOf(checks) = IF failing = {} THEN {} ELSE checks[Min(failing)]
  BY DEF FirstOf
<1>3. failing = {} <=> \A i \in DOMAIN checks : checks[i] = {}
  OBVIOUS
<1>4. \A i \in failing : checks[i] # {}
  OBVIOUS
<1> HIDE DEF failing
<1> QED BY <1>1, <1>2, <1>3, <1>4

LEMMA BlameNone == \A layer, fields : Blame(layer, fields) = {} <=> fields = {}
BY DEF Blame

\* The sensors of a list, as many as the list is long when none is listed twice.
LEMMA SensorsListed ==
  ASSUME doc.sensors \in Seq(STRING)
  PROVE  /\ IsFiniteSet(Sensors)
         /\ Sensors = {} <=> doc.sensors = << >>
         /\ Cardinality(Sensors) = Len(doc.sensors) <=> IsInjective(doc.sensors)
<1> DEFINE q == doc.sensors
           n == Len(q)
<1>1. n \in Nat /\ DOMAIN q = 1 .. n
  OBVIOUS
<1>2. IsFiniteSet(1 .. n) /\ Cardinality(1 .. n) = n
  <2>1. 1 \in Int /\ n \in Int
    BY <1>1
  <2>2. IsFiniteSet(1 .. n) /\ Cardinality(1 .. n) = IF 1 > n THEN 0 ELSE n - 1 + 1
    BY <2>1, FS_Interval
  <2> QED BY <1>1, <2>2
<1>3. Sensors = {q[i] : i \in 1 .. n}
  BY <1>1 DEF Sensors, ToSet
<1>4. q \in Surjection(1 .. n, Sensors)
  <2>1. q \in [1 .. n -> Sensors]
    BY <1>1, <1>3
  <2> QED BY <1>3, <2>1 DEF Surjection
<1>5. /\ IsFiniteSet(Sensors)
      /\ Cardinality(Sensors) = n <=> q \in Injection(1 .. n, Sensors)
  BY <1>2, <1>4, FS_Surjection
<1>6. q \in Injection(1 .. n, Sensors) <=> IsInjective(q)
  BY <1>1, <1>3 DEF Injection, IsInjective
<1>7. Sensors = {} <=> q = << >>
  <2>1. q = << >> <=> n = 0
    BY EmptySeq
  <2> HIDE DEF q, n
  <2>2. Sensors = {} <=> n = 0
    BY <1>1, <1>3
  <2> QED BY <2>1, <2>2
<1> QED BY <1>5, <1>6, <1>7

\* What each stage refuses, as a condition on the documents.
LEMMA ListLegal ==
  ASSUME doc \in Documents
  PROVE  SensorListErrors = {} <=>
           /\ Cardinality({"sensor", "sensors"} \cap doc.recipe) = 1
           /\ Len(doc.sensors) \in 1 .. MaxRuns
           /\ Cardinality(Sensors) = Len(doc.sensors)
<1> DEFINE both == If({"sensor", "sensors"} \subseteq doc.recipe, Blame("recipe", {"sensors"}))
           neither == If({"sensor", "sensors"} \cap doc.recipe = {}, Blame("recipe", {"sensor"}))
           list == If(IsSweep /\ (\/ doc.sensors = << >>
                                  \/ Len(doc.sensors) > MaxRuns
                                  \/ ~IsInjective(doc.sensors)), Blame("recipe", {"sensors"}))
           named == {"sensor", "sensors"} \cap doc.recipe
<1>1. SensorListErrors = {} <=> (both = {} /\ neither = {} /\ list = {})
  <2>1. SensorListErrors = FirstOf(<<both, neither, list>>)
    BY Zenon DEF SensorListErrors
  <2> HIDE DEF both, neither, list
  <2>2. FirstOf(<<both, neither, list>>) = {} <=>
          \A i \in DOMAIN <<both, neither, list>> : <<both, neither, list>>[i] = {}
    BY FirstOfNone
  <2> QED BY <2>1, <2>2
<1>2. /\ doc.sensors \in Seq(STRING) /\ Len(doc.sensors) \in Nat /\ MaxRuns \in Nat \ {0}
      /\ doc.sensors = << >> <=> Len(doc.sensors) = 0
      /\ "sensors" \notin doc.recipe => Len(doc.sensors) = IF "sensor" \in doc.recipe THEN 1 ELSE 0
  BY DocumentAssumption
<1>3. Cardinality(named) = 1 <=> ~({"sensor", "sensors"} \subseteq doc.recipe) /\ named # {}
  <2>1. /\ IsFiniteSet({"sensor"}) /\ IsFiniteSet({"sensor", "sensors"})
        /\ Cardinality({"sensor", "sensors"}) = 2
    <3>1. IsFiniteSet({"sensor"}) /\ Cardinality({"sensor"}) = 1
      BY FS_Singleton
    <3>2. /\ IsFiniteSet({"sensor"} \cup {"sensors"})
          /\ Cardinality({"sensor"} \cup {"sensors"}) = 2
      BY <3>1, FS_AddElement
    <3>3. {"sensor"} \cup {"sensors"} = {"sensor", "sensors"}
      OBVIOUS
    <3> QED BY <3>1, <3>2, <3>3
  <2>2. CASE {"sensor", "sensors"} \subseteq doc.recipe
    <3>1. named = {"sensor", "sensors"}
      BY <2>2
    <3> QED BY <2>1, <2>2, <3>1
  <2>3. CASE named = {}
    BY <2>3, FS_EmptySet
  <2>4. CASE ~({"sensor", "sensors"} \subseteq doc.recipe) /\ named # {}
    <3>1. named = {"sensor"} \/ named = {"sensors"}
      BY <2>4
    <3> QED BY <2>4, <3>1, FS_Singleton
  <2> QED BY <2>2, <2>3, <2>4
<1>4. /\ both = {} <=> ~({"sensor", "sensors"} \subseteq doc.recipe)
      /\ neither = {} <=> named # {}
      /\ list = {} <=> (IsSweep => /\ doc.sensors # << >> /\ ~(Len(doc.sensors) > MaxRuns)
                                   /\ IsInjective(doc.sensors))
  BY BlameNone, Zenon DEF If
<1>5. Cardinality(Sensors) = Len(doc.sensors) <=> IsInjective(doc.sensors)
  BY <1>2, SensorsListed
<1>6. Len(doc.sensors) = 1 => IsInjective(doc.sensors)
  <2>1. Len(doc.sensors) = 1 => \A i, j \in DOMAIN doc.sensors : i = j
    BY <1>2
  <2> QED BY <2>1 DEF IsInjective
<1> HIDE DEF both, neither, list
<1>7. CASE "sensors" \in doc.recipe
  BY <1>1, <1>2, <1>3, <1>4, <1>5, <1>7 DEF IsSweep
<1>8. CASE "sensors" \notin doc.recipe
  <2>1. list = {}
    BY <1>4, <1>8 DEF IsSweep
  <2>2. CASE "sensor" \in doc.recipe
    <3>1. Len(doc.sensors) = 1 /\ named # {}
      BY <1>2, <1>8, <2>2
    <3> HIDE DEF named
    <3>2. Len(doc.sensors) \in 1 .. MaxRuns
      BY <1>2, <3>1
    <3>3. both = {} /\ neither = {} /\ Cardinality(named) = 1
      BY <1>3, <1>4, <1>8, <3>1
    <3> QED BY <1>1, <1>5, <1>6, <2>1, <3>1, <3>2, <3>3 DEF named
  <2>3. CASE "sensor" \notin doc.recipe
    <3>1. named = {}
      BY <1>8, <2>3
    <3> QED BY <1>1, <1>3, <1>4, <3>1
  <2> QED BY <2>2, <2>3
<1> QED BY <1>7, <1>8

LEMMA LayersLegal ==
  ASSUME doc \in Documents
  PROVE  LayerErrors = {} <=> {"scenario", "engine_profile"} \subseteq doc.recipe /\ doc.absent = {}
<1> DEFINE a == Blame("recipe", {"scenario"} \ doc.recipe)
           b == If("scenario" \in doc.absent, Blame("scenario", {"file"}))
           c == Blame("recipe", {"engine_profile"} \ doc.recipe)
           d == If("engine_profile" \in doc.absent, Blame("engine_profile", {"file"}))
<1>1. LayerErrors = {} <=> (a = {} /\ b = {} /\ c = {} /\ d = {})
  <2>1. LayerErrors = FirstOf(<<a, b, c, d>>)
    BY Zenon DEF LayerErrors
  <2> HIDE DEF a, b, c, d
  <2>2. FirstOf(<<a, b, c, d>>) = {} <=>
          \A i \in DOMAIN <<a, b, c, d>> : <<a, b, c, d>>[i] = {}
    BY FirstOfNone
  <2> QED BY <2>1, <2>2
<1>2. /\ a = {} <=> "scenario" \in doc.recipe
      /\ c = {} <=> "engine_profile" \in doc.recipe
  BY BlameNone
<1>3. /\ b = {} <=> "scenario" \notin doc.absent
      /\ d = {} <=> "engine_profile" \notin doc.absent
  BY BlameNone, Zenon DEF If
<1>4. doc.absent \subseteq {"scenario", "engine_profile"}
  BY DocumentAssumption
<1> HIDE DEF a, b, c, d
<1> QED BY <1>1, <1>2, <1>3, <1>4

\* Each entry belongs to one sensor, each settings member names one, each
\* sensor has one.
SettingsLegal ==
  /\ "settings" \in doc.recipe
  /\ \A s \in Sensors : IsInjective(Entries(s))
  /\ \A e \in (UNION {ToSet(Entries(s)) : s \in Sensors}) \cup ToSet(doc.settings) :
       Cardinality({s \in Sensors : e \in ToSet(Entries(s))}) = 1
  /\ IsInjective(doc.settings)
  /\ \A s \in Sensors : ToSet(Entries(s)) \cap ToSet(doc.settings) # {}

\* One sensor is what the members of a set with one element have in common.
LEMMA OneSensor ==
  ASSUME doc \in Documents, NEW e
  PROVE  Cardinality({s \in Sensors : e \in ToSet(Entries(s))}) = 1 <=>
           /\ \E s \in Sensors : e \in ToSet(Entries(s))
           /\ \A s, t \in Sensors : (e \in ToSet(Entries(s)) /\ e \in ToSet(Entries(t))) => s = t
<1> DEFINE H == {s \in Sensors : e \in ToSet(Entries(s))}
<1>1. IsFiniteSet(H)
  <2>1. IsFiniteSet(Sensors) /\ H \in SUBSET Sensors
    BY SensorsListed, DocumentAssumption
  <2> QED BY <2>1, FS_Subset
<1>2. Cardinality(H) = 1 <=> \E x : H = {x}
  BY <1>1, FS_Singleton
<1>3. (\E x : H = {x}) <=> (\E s \in H : TRUE) /\ \A s, t \in H : s = t
  <2> HIDE DEF H
  <2>1. ASSUME NEW x, H = {x} PROVE (\E s \in H : TRUE) /\ \A s, t \in H : s = t
    BY <2>1
  <2>2. ASSUME NEW s \in H, \A t, u \in H : t = u PROVE H = {s}
    BY <2>2
  <2> QED BY <2>1, <2>2
<1> QED BY <1>2, <1>3

\* The settings members of a sensor.
LEMMA SettingsOfSensor ==
  ASSUME NEW s \in DOMAIN Library
  PROVE  /\ ToSet(SettingsOf(s)) = ToSet(Entries(s)) \cap ToSet(doc.settings)
         /\ SettingsOf(s) = << >> <=> ToSet(Entries(s)) \cap ToSet(doc.settings) = {}
         /\ \A k, l \in DOMAIN SettingsOf(s) : k < l =>
              \E i, j \in DOMAIN Entries(s) :
                i < j /\ SettingsOf(s)[k] = Entries(s)[i] /\ SettingsOf(s)[l] = Entries(s)[j]
<1>1. Entries(s) \in Seq(STRING)
  BY DocumentAssumption DEF Entries
<1>2. PICK n \in Nat : DOMAIN Entries(s) = 1 .. n
  BY <1>1
<1>3. ASSUME NEW q, DOMAIN q = 1 .. n, NEW S
      PROVE  /\ ToSet(Only(q, S)) = ToSet(q) \cap S
             /\ Only(q, S) = << >> <=> ToSet(q) \cap S = {}
             /\ \A k, l \in DOMAIN Only(q, S) : k < l =>
                  \E i, j \in DOMAIN q : i < j /\ Only(q, S)[k] = q[i] /\ Only(q, S)[l] = q[j]
  BY <1>3, OnlyInOrder
<1> HIDE <1>1
<1> QED BY <1>2, <1>3 DEF SettingsOf

LEMMA SettingsSplit ==
  ASSUME doc \in Documents, Sensors \subseteq DOMAIN Library
  PROVE  SettingsErrors = {} <=> SettingsLegal
<1> DEFINE shared == If(EntryShared, Blame("recipe", {SensorKey}))
           nowhere == \E e \in ToSet(doc.settings) : \A s \in Sensors : e \notin ToSet(Entries(s))
           unplaced == If("settings" \notin doc.recipe \/ nowhere \/ ~IsInjective(doc.settings),
                          Blame("recipe", {"settings"}))
           empty == If(\E s \in Sensors : SettingsOf(s) = << >>, Blame("recipe", {SensorKey}))
           owned(e) == \E s \in Sensors : e \in ToSet(Entries(s))
           apart(e) == \A s, t \in Sensors :
                         (e \in ToSet(Entries(s)) /\ e \in ToSet(Entries(t))) => s = t
           all == (UNION {ToSet(Entries(s)) : s \in Sensors}) \cup ToSet(doc.settings)
<1>1. SettingsErrors = {} <=> (shared = {} /\ unplaced = {} /\ empty = {})
  <2>1. SettingsErrors = FirstOf(<<shared, unplaced, empty>>)
    BY Zenon DEF SettingsErrors
  <2> HIDE DEF shared, unplaced, empty
  <2>2. FirstOf(<<shared, unplaced, empty>>) = {} <=>
          \A i \in DOMAIN <<shared, unplaced, empty>> : <<shared, unplaced, empty>>[i] = {}
    BY FirstOfNone
  <2> QED BY <2>1, <2>2
<1>2. shared = {} <=> ~EntryShared
  BY BlameNone, Zenon DEF If
<1>3. unplaced = {} <=> "settings" \in doc.recipe /\ ~nowhere /\ IsInjective(doc.settings)
  <2> HIDE DEF nowhere
  <2> QED BY BlameNone, Zenon DEF If
<1>4. empty = {} <=> \A s \in Sensors : ToSet(Entries(s)) \cap ToSet(doc.settings) # {}
  <2>1. empty = {} <=> \A s \in Sensors : SettingsOf(s) # << >>
    BY BlameNone, Zenon DEF If
  <2>2. \A s \in Sensors : SettingsOf(s) = << >> <=> ToSet(Entries(s)) \cap ToSet(doc.settings) = {}
    BY SettingsOfSensor
  <2> HIDE DEF empty
  <2> QED BY <2>1, <2>2
<1>5. (\A e \in all : Cardinality({s \in Sensors : e \in ToSet(Entries(s))}) = 1)
        <=> \A e \in all : owned(e) /\ apart(e)
  BY OneSensor, Zenon
<1>6. (\A e \in all : owned(e) /\ apart(e))
        <=> ~nowhere /\ \A s, t \in Sensors : s # t => ToSet(Entries(s)) \cap ToSet(Entries(t)) = {}
  <2>1. \A e : owned(e) => e \in all
    OBVIOUS
  <2>2. (\A e \in all : owned(e)) <=> ~nowhere
    <3>1. ~nowhere <=> \A e \in ToSet(doc.settings) : owned(e)
      OBVIOUS
    <3> DEFINE entries == UNION {ToSet(Entries(s)) : s \in Sensors}
    <3>2. \A e \in entries : owned(e)
      OBVIOUS
    <3>3. all = entries \cup ToSet(doc.settings)
      OBVIOUS
    <3> HIDE DEF owned, nowhere, entries, all
    <3> QED BY <3>1, <3>2, <3>3
  <2>3. (\A e \in all : apart(e)) <=> \A e : apart(e)
    <3>1. \A e : e \notin all => apart(e)
      OBVIOUS
    <3> HIDE DEF all, apart
    <3> QED BY <3>1
  <2>4. (\A e : apart(e))
          <=> \A s, t \in Sensors : s # t => ToSet(Entries(s)) \cap ToSet(Entries(t)) = {}
    OBVIOUS
  <2> HIDE DEF owned, apart, nowhere, all
  <2> QED BY <2>2, <2>3, <2>4
<1>7. EntryShared <=>
        ~(/\ \A s, t \in Sensors : s # t => ToSet(Entries(s)) \cap ToSet(Entries(t)) = {}
          /\ \A s \in Sensors : IsInjective(Entries(s)))
  BY DEF EntryShared
<1>8. SettingsLegal <=>
        /\ "settings" \in doc.recipe
        /\ \A s \in Sensors : IsInjective(Entries(s))
        /\ \A e \in all : owned(e) /\ apart(e)
        /\ IsInjective(doc.settings)
        /\ \A s \in Sensors : ToSet(Entries(s)) \cap ToSet(doc.settings) # {}
  BY <1>5, Zenon DEF SettingsLegal
<1> HIDE DEF shared, unplaced, empty, nowhere, owned, apart, all
<1> QED BY <1>1, <1>2, <1>3, <1>4, <1>6, <1>7, <1>8

LEMMA FidelityLegal ==
  FidelityErrors = {} <=> /\ doc.bySensor \subseteq Sensors
                          /\ "fidelity" \in doc.recipe \/ Sensors \subseteq doc.bySensor
<1> DEFINE a == If(~(doc.bySensor \subseteq Sensors), Blame("recipe", {"fidelity_by_sensor"}))
           b == If("fidelity" \notin doc.recipe /\ ~(Sensors \subseteq doc.bySensor),
                   Blame("recipe", {"fidelity"}))
<1>1. FidelityErrors = {} <=> (a = {} /\ b = {})
  <2>1. FidelityErrors = FirstOf(<<a, b>>)
    BY Zenon DEF FidelityErrors
  <2> HIDE DEF a, b
  <2>2. FirstOf(<<a, b>>) = {} <=> \A i \in DOMAIN <<a, b>> : <<a, b>>[i] = {}
    BY FirstOfNone
  <2> QED BY <2>1, <2>2
<1>2. a = {} <=> doc.bySensor \subseteq Sensors
  BY BlameNone, Zenon DEF If
<1>3. b = {} <=> ("fidelity" \in doc.recipe \/ Sensors \subseteq doc.bySensor)
  BY BlameNone, Zenon DEF If
<1> HIDE DEF a, b
<1> QED BY <1>1, <1>2, <1>3

\* Each member is in the layer that owns it, and every layer is as required.
MembersLegal ==
  /\ doc.recipe \subseteq
       {"meta", "settings", "fidelity", "sensor", "compose", "scenario", "engine_profile",
        "engine_overrides", "sensors", "fidelity_by_sensor"}
  /\ {"compose", "meta", "scenario", "engine_profile"} \subseteq doc.recipe
  /\ doc.scenario = {"collection"}
  /\ {"origin", "engine"} \subseteq doc.profile
  /\ doc.profile \subseteq {"origin", "engine", "extras", "resources"}

Members3 == {"recipe", "scenario", "engine_profile"}

\* No member is blamed exactly when none is in a foreign layer.
LEMMA NoneForeign ==
  Foreign = {} <=> \A k \in Members3 : ForeignErrors(k) = {}
<1> DEFINE all == UNION {ForeignErrors(k) : k \in ToSet(Layers)}
           at(e) == CHOOSE i \in DOMAIN Layers : Layers[i] = e.layer
           least(e) == \A f \in all : f.field = e.field => at(e) <= at(f)
<1>1. ToSet(Layers) = Members3
  BY DEF ToSet, Layers, Members3
<1>2. \A k \in Members3 : \A e \in ForeignErrors(k) : e.layer = k
  BY DEF ForeignErrors, Blame
<1>3. \A e \in all : e.layer \in Members3 /\ at(e) \in {1, 2, 3}
  <2> TAKE e \in all
  <2>1. e.layer \in Members3
    BY <1>1, <1>2
  <2>2. \E i \in DOMAIN Layers : Layers[i] = e.layer
    BY <1>1, <2>1 DEF ToSet
  <2>3. DOMAIN Layers = {1, 2, 3}
    BY DEF Layers
  <2> QED BY <2>1, <2>2, <2>3
<1>4. Foreign = {e \in all : least(e)}
  BY Zenon DEF Foreign
<1> HIDE DEF at
<1>5. (\A k \in Members3 : ForeignErrors(k) = {}) <=> all = {}
  BY <1>1
<1> HIDE DEF all
<1>6. ASSUME all # {} PROVE \E e \in all : least(e)
  <2>1. CASE \E e \in all : at(e) = 1
    BY <1>3, <2>1
  <2>2. CASE (\A e \in all : at(e) # 1) /\ \E e \in all : at(e) = 2
    BY <1>3, <2>2
  <2>3. CASE \A e \in all : at(e) # 1 /\ at(e) # 2
    <3>1. \A e \in all : at(e) = 3
      BY <1>3, <2>3
    <3> QED BY <1>6, <3>1
  <2> QED BY <2>1, <2>2, <2>3
<1> HIDE DEF least
<1> QED BY <1>4, <1>5, <1>6

LEMMA MembersOwned ==
  ASSUME "passthrough" \notin doc.recipe
  PROVE  (\A k \in Members3 : /\ Members(k) \subseteq DOMAIN Owner
                              /\ Required[k] \subseteq Keys(k)
                              /\ ForeignErrors(k) = {}) <=> MembersLegal
<1>1. /\ Keys("recipe") = (doc.recipe \ {"sensors", "fidelity_by_sensor"})
                            \cup {"sensor", "settings", "fidelity"}
      /\ Keys("scenario") = doc.scenario
      /\ Keys("engine_profile") = doc.profile
  BY DEF Keys
<1>2. /\ Members("recipe") = Keys("recipe") \ {"compose", "scenario", "engine_profile",
                               "engine_overrides", "sensors", "fidelity_by_sensor", "passthrough"}
      /\ Members("scenario") = Keys("scenario")
      /\ Members("engine_profile") = Keys("engine_profile")
  BY DEF Members, Control
<1>3. DOMAIN Owner = {"meta", "settings", "fidelity", "sensor", "collection", "origin",
                      "extras", "engine", "resources"}
  BY DEF Owner
<1>4. \A m \in DOMAIN Owner :
        /\ Owner[m] = "recipe" <=> m \in {"meta", "settings", "fidelity", "sensor"}
        /\ Owner[m] = "scenario" <=> m = "collection"
        /\ Owner[m] = "engine_profile" <=> m \in {"origin", "extras", "engine", "resources"}
  BY <1>3 DEF Owner
<1>5. \A k : ForeignErrors(k) = {} <=> \A m \in Members(k) \cap DOMAIN Owner : Owner[m] = k
  <2> TAKE k
  <2>1. ForeignErrors(k) = {} <=> {m \in Members(k) \cap DOMAIN Owner : Owner[m] # k} = {}
    BY BlameNone DEF ForeignErrors
  <2> QED BY <2>1
<1>6. /\ Members("recipe") \subseteq DOMAIN Owner /\ Required["recipe"] \subseteq Keys("recipe")
      /\ ForeignErrors("recipe") = {}
      <=> /\ doc.recipe \subseteq
               {"meta", "settings", "fidelity", "sensor", "compose", "scenario", "engine_profile",
                "engine_overrides", "sensors", "fidelity_by_sensor"}
          /\ {"compose", "meta", "scenario", "engine_profile"} \subseteq doc.recipe
  <2>1. Required["recipe"] \subseteq Keys("recipe")
        <=> {"compose", "meta", "scenario", "engine_profile"} \subseteq doc.recipe
    BY <1>1 DEF Required
  <2>2. (Members("recipe") \subseteq DOMAIN Owner /\ ForeignErrors("recipe") = {})
        <=> Members("recipe") \subseteq {"meta", "settings", "fidelity", "sensor"}
    BY <1>3, <1>4, <1>5
  <2>3. Members("recipe") \subseteq {"meta", "settings", "fidelity", "sensor"}
        <=> doc.recipe \subseteq
               {"meta", "settings", "fidelity", "sensor", "compose", "scenario", "engine_profile",
                "engine_overrides", "sensors", "fidelity_by_sensor"}
    BY <1>1, <1>2
  <2> QED BY <2>1, <2>2, <2>3
<1>7. /\ Members("scenario") \subseteq DOMAIN Owner /\ Required["scenario"] \subseteq Keys("scenario")
      /\ ForeignErrors("scenario") = {}
      <=> doc.scenario = {"collection"}
  <2>1. Required["scenario"] \subseteq Keys("scenario") <=> "collection" \in doc.scenario
    BY <1>1 DEF Required
  <2>2. (Members("scenario") \subseteq DOMAIN Owner /\ ForeignErrors("scenario") = {})
        <=> doc.scenario \subseteq {"collection"}
    BY <1>1, <1>2, <1>3, <1>4, <1>5
  <2> QED BY <2>1, <2>2
<1>8. /\ Members("engine_profile") \subseteq DOMAIN Owner
      /\ Required["engine_profile"] \subseteq Keys("engine_profile")
      /\ ForeignErrors("engine_profile") = {}
      <=> /\ {"origin", "engine"} \subseteq doc.profile
          /\ doc.profile \subseteq {"origin", "engine", "extras", "resources"}
  <2>1. Required["engine_profile"] \subseteq Keys("engine_profile")
        <=> {"origin", "engine"} \subseteq doc.profile
    BY <1>1 DEF Required
  <2>2. (Members("engine_profile") \subseteq DOMAIN Owner /\ ForeignErrors("engine_profile") = {})
        <=> doc.profile \subseteq {"origin", "engine", "extras", "resources"}
    BY <1>1, <1>2, <1>3, <1>4, <1>5
  <2> QED BY <2>1, <2>2
<1> QED BY <1>6, <1>7, <1>8 DEF MembersLegal, Members3

LEMMA MergeLegal ==
  ASSUME NEW s, "passthrough" \notin doc.recipe
  PROVE  MergeErrors(s) = {} <=>
           /\ MembersLegal /\ doc.rules /\ doc.named
           /\ ToSet(bySensor[s]) \cap doc.badRoi = {}
           /\ doc.overrides \subseteq EngineOverrides \cap doc.parents
<1> DEFINE unknown(k) == Blame(k, Members(k) \ DOMAIN Owner)
           missing(k) == Blame(k, Required[k] \ Keys(k))
           rules == If(~doc.rules, Blame("recipe", {"compose"}))
           named == If(~doc.named, Blame("recipe", {"meta"}))
           roi == If(ToSet(bySensor[s]) \cap doc.badRoi # {}, Blame("recipe", {"settings"}))
           overrides == If(~(doc.overrides \subseteq EngineOverrides \cap doc.parents),
                           Blame("recipe", {"engine_overrides"}))
           checks == <<unknown("recipe"), missing("recipe"), unknown("scenario"), missing("scenario"),
                       unknown("engine_profile"), missing("engine_profile"),
                       Foreign, rules, named, roi, overrides>>
<1>1. \A k : /\ unknown(k) = {} <=> Members(k) \subseteq DOMAIN Owner
             /\ missing(k) = {} <=> Required[k] \subseteq Keys(k)
  <2> TAKE k
  <2>1. /\ unknown(k) = {} <=> Members(k) \ DOMAIN Owner = {}
        /\ missing(k) = {} <=> Required[k] \ Keys(k) = {}
    BY BlameNone
  <2> QED BY <2>1
<1>2. /\ rules = {} <=> doc.rules
      /\ named = {} <=> doc.named
      /\ roi = {} <=> ToSet(bySensor[s]) \cap doc.badRoi = {}
      /\ overrides = {} <=> doc.overrides \subseteq EngineOverrides \cap doc.parents
  BY BlameNone, Zenon DEF If
<1>3. MergeErrors(s) = FirstOf(checks)
  BY Zenon DEF MergeErrors
<1> HIDE DEF unknown, missing, rules, named, roi, overrides
<1>4. FirstOf(checks) = {} <=> \A i \in DOMAIN checks : checks[i] = {}
  BY FirstOfNone
<1>5. (\A i \in DOMAIN checks : checks[i] = {}) <=>
        /\ \A k \in Members3 : unknown(k) = {} /\ missing(k) = {}
        /\ Foreign = {} /\ rules = {} /\ named = {} /\ roi = {} /\ overrides = {}
  BY DEF Members3
<1>6. (\A k \in Members3 : unknown(k) = {} /\ missing(k) = {}) /\ Foreign = {} <=> MembersLegal
  BY <1>1, NoneForeign, MembersOwned
<1> HIDE DEF checks
<1> QED BY <1>2, <1>3, <1>4, <1>5, <1>6

LEMMA PassthroughLegal ==
  PassthroughErrors = {} <=> LegalPassthrough
<1> DEFINE unknown == Blame("recipe", doc.recipe \ PassthroughRecipe)
           missing == Blame("recipe", PassthroughRecipe \ doc.recipe)
           rules == If(~doc.rules, Blame("recipe", {"compose"}))
           named == If(~doc.named, Blame("recipe", {"meta"}))
           block == If(~doc.block, Blame("recipe", {"passthrough"}))
           file == If("engine_profile" \in doc.absent, Blame("engine_profile", {"file"}))
           foreign == Blame("engine_profile", doc.profile \ (PassthroughProfile \cup {"resources"}))
           without == Blame("engine_profile", PassthroughProfile \ doc.profile)
           engine == If(~(doc.engine \subseteq PassthroughEngine) \/ "generator" \notin doc.engine,
                        Blame("engine_profile", {"engine"}))
           checks == <<unknown, missing, rules, named, block, file, foreign, without, engine>>
<1>1. /\ unknown = {} <=> doc.recipe \subseteq PassthroughRecipe
      /\ missing = {} <=> PassthroughRecipe \subseteq doc.recipe
      /\ foreign = {} <=> doc.profile \subseteq PassthroughProfile \cup {"resources"}
      /\ without = {} <=> PassthroughProfile \subseteq doc.profile
  <2>1. \A S, T : S \ T = {} <=> S \subseteq T
    OBVIOUS
  <2>2. /\ unknown = {} <=> doc.recipe \ PassthroughRecipe = {}
        /\ missing = {} <=> PassthroughRecipe \ doc.recipe = {}
        /\ foreign = {} <=> doc.profile \ (PassthroughProfile \cup {"resources"}) = {}
        /\ without = {} <=> PassthroughProfile \ doc.profile = {}
    BY BlameNone
  <2> HIDE DEF unknown, missing, foreign, without
  <2> QED BY <2>1, <2>2
<1>2. /\ rules = {} <=> doc.rules
      /\ named = {} <=> doc.named
      /\ block = {} <=> doc.block
      /\ file = {} <=> "engine_profile" \notin doc.absent
      /\ engine = {} <=> doc.engine \subseteq PassthroughEngine /\ "generator" \in doc.engine
  BY BlameNone, Zenon DEF If
<1>3. PassthroughErrors = FirstOf(checks)
  BY Zenon DEF PassthroughErrors
<1> HIDE DEF unknown, missing, rules, named, block, file, foreign, without, engine
<1>4. FirstOf(checks) = {} <=> \A i \in DOMAIN checks : checks[i] = {}
  BY FirstOfNone
<1>5. (\A i \in DOMAIN checks : checks[i] = {}) <=>
        /\ unknown = {} /\ missing = {} /\ rules = {} /\ named = {} /\ block = {} /\ file = {}
        /\ foreign = {} /\ without = {} /\ engine = {}
  OBVIOUS
<1> HIDE DEF checks
<1>6. doc.engine \subseteq PassthroughEngine /\ "generator" \in doc.engine
        <=> doc.engine \in {{"generator"}, {"generator", "run"}}
  BY DEF PassthroughEngine
<1>7. doc.profile \ {"resources"} = {"origin", "engine"}
        <=> /\ doc.profile \subseteq PassthroughProfile \cup {"resources"}
            /\ PassthroughProfile \subseteq doc.profile
  BY DEF PassthroughProfile
<1>8. doc.recipe = PassthroughRecipe
        <=> doc.recipe \subseteq PassthroughRecipe /\ PassthroughRecipe \subseteq doc.recipe
  OBVIOUS
<1> QED BY <1>1, <1>2, <1>3, <1>4, <1>5, <1>6, <1>7, <1>8 DEF LegalPassthrough

\* The run of sensor s composes.
Mergeable(s) ==
  /\ MembersLegal /\ doc.rules /\ doc.named
  /\ ToSet(SettingsOf(s)) \cap doc.badRoi = {}
  /\ doc.overrides \subseteq EngineOverrides \cap doc.parents

\* The stages that a composition has passed when it is at a label.
AtLayers   == SensorListErrors = {}
AtSensors  == AtLayers /\ LayerErrors = {}
AtSettings == AtSensors /\ SensorErrors = {}
AtEngine   == AtSettings /\ SettingsErrors = {}
AtFidelity == AtEngine /\ EngineErrors = {}
AtMerge    == AtFidelity /\ FidelityErrors = {}

\* The rules hold exactly when every stage is passed.
LEMMA StagesLegal ==
  ASSUME doc \in Documents, "passthrough" \notin doc.recipe
  PROVE  /\ LegalLayered <=> AtMerge /\ \A s \in Sensors : Mergeable(s)
         /\ AtLayers => Sensors # {}
<1>1. SensorErrors = {} <=> Sensors \subseteq DOMAIN Library
  BY BlameNone, Zenon DEF SensorErrors, If
<1>2. EngineErrors = {} <=> ~(doc.refused /\ "origin" \in doc.profile)
  BY BlameNone, Zenon DEF EngineErrors, If
<1>3. AtLayers => Sensors # {}
  <2>1. /\ doc.sensors \in Seq(STRING) /\ Len(doc.sensors) \in Nat
        /\ doc.sensors = << >> => Len(doc.sensors) = 0
    BY DocumentAssumption
  <2>2. AtLayers => Len(doc.sensors) \in 1 .. MaxRuns
    BY ListLegal DEF AtLayers
  <2>3. AtLayers => doc.sensors # << >>
    BY <2>1, <2>2
  <2> QED BY <2>1, <2>3, SensorsListed
<1>4. (\A i, j \in DOMAIN doc.settings : doc.settings[i] = doc.settings[j] => i = j)
        <=> IsInjective(doc.settings)
  BY DEF IsInjective
<1>5. ASSUME Sensors \subseteq DOMAIN Library, SettingsLegal
      PROVE  (\A s \in Sensors : ToSet(SettingsOf(s)) \cap doc.badRoi = {})
               <=> doc.badRoi \cap ToSet(doc.settings) = {}
  <2>1. \A s \in Sensors : ToSet(SettingsOf(s)) = ToSet(Entries(s)) \cap ToSet(doc.settings)
    BY <1>5, SettingsOfSensor
  <2>2. ASSUME NEW e \in ToSet(doc.settings)
        PROVE  \E s \in Sensors : e \in ToSet(Entries(s))
    <3>1. Cardinality({s \in Sensors : e \in ToSet(Entries(s))}) = 1
      BY <1>5, Zenon DEF SettingsLegal
    <3> QED BY <3>1, OneSensor
  <2> QED BY <2>1, <2>2
<1>6. AtSettings <=> /\ Cardinality({"sensor", "sensors"} \cap doc.recipe) = 1
                     /\ Len(doc.sensors) \in 1 .. MaxRuns
                     /\ Cardinality(Sensors) = Len(doc.sensors)
                     /\ {"scenario", "engine_profile"} \subseteq doc.recipe /\ doc.absent = {}
                     /\ Sensors \subseteq DOMAIN Library
  BY <1>1, ListLegal, LayersLegal, Zenon DEF AtSettings, AtSensors, AtLayers
<1>7. AtMerge <=> /\ AtSettings /\ SettingsLegal /\ ~(doc.refused /\ "origin" \in doc.profile)
                  /\ doc.bySensor \subseteq Sensors
                  /\ "fidelity" \in doc.recipe \/ Sensors \subseteq doc.bySensor
  <2>1. AtSettings => (SettingsErrors = {} <=> SettingsLegal)
    BY <1>1, SettingsSplit DEF AtSettings
  <2> QED BY <1>2, <2>1, FidelityLegal, Zenon DEF AtMerge, AtFidelity, AtEngine
<1>8. MembersLegal => {"scenario", "engine_profile"} \subseteq doc.recipe /\ "origin" \in doc.profile
  BY DEF MembersLegal
<1>9. {"compose", "meta", "scenario", "engine_profile", "settings"} \subseteq doc.recipe
        <=> /\ {"compose", "meta", "scenario", "engine_profile"} \subseteq doc.recipe
            /\ "settings" \in doc.recipe
  OBVIOUS
<1>10. LegalLayered <=>
         /\ Cardinality({"sensor", "sensors"} \cap doc.recipe) = 1
         /\ Len(doc.sensors) \in 1 .. MaxRuns
         /\ Cardinality(Sensors) = Len(doc.sensors)
         /\ Sensors \subseteq DOMAIN Library /\ doc.absent = {}
         /\ SettingsLegal /\ MembersLegal /\ ~doc.refused
         /\ doc.bySensor \subseteq Sensors
         /\ "fidelity" \in doc.recipe \/ Sensors \subseteq doc.bySensor
         /\ doc.rules /\ doc.named
         /\ doc.badRoi \cap ToSet(doc.settings) = {}
         /\ doc.overrides \subseteq EngineOverrides \cap doc.parents
  BY <1>4, <1>9, Zenon DEF LegalLayered, SettingsLegal, MembersLegal
<1>11. AtMerge => ((\A s \in Sensors : Mergeable(s)) <=>
                     /\ MembersLegal /\ doc.rules /\ doc.named
                     /\ doc.badRoi \cap ToSet(doc.settings) = {}
                     /\ doc.overrides \subseteq EngineOverrides \cap doc.parents)
  <2> SUFFICES ASSUME AtMerge
               PROVE  (\A s \in Sensors : Mergeable(s)) <=>
                        /\ MembersLegal /\ doc.rules /\ doc.named
                        /\ doc.badRoi \cap ToSet(doc.settings) = {}
                        /\ doc.overrides \subseteq EngineOverrides \cap doc.parents
    OBVIOUS
  <2>1. Sensors # {} /\ Sensors \subseteq DOMAIN Library /\ SettingsLegal
    BY <1>1, <1>3, <1>7 DEF AtMerge, AtFidelity, AtEngine, AtSettings, AtSensors
  <2>2. (\A s \in Sensors : Mergeable(s)) <=>
          /\ MembersLegal /\ doc.rules /\ doc.named
          /\ \A s \in Sensors : ToSet(SettingsOf(s)) \cap doc.badRoi = {}
          /\ doc.overrides \subseteq EngineOverrides \cap doc.parents
    BY <2>1, Zenon DEF Mergeable
  <2> QED BY <1>5, <2>1, <2>2, Zenon
<1>12. LegalLayered <=> AtMerge /\ \A s \in Sensors : Mergeable(s)
  BY <1>6, <1>7, <1>8, <1>10, <1>11, Zenon
<1> QED BY <1>3, <1>12
-----------------------------------------------------------------------------
(* The stages passed, and what they have made.                              *)

Split == bySensor = [s \in Sensors |-> SettingsOf(s)]

\* The sensors gone through compose, and every run is of a sensor.
Merged ==
  /\ left \in Seq(STRING) /\ ToSet(left) \subseteq Sensors
  /\ \A s \in Sensors : s \in ToSet(left) \/ Mergeable(s)
  /\ \A n \in DOMAIN runs : \E s \in Sensors : n = RunName(s) /\ runs[n] = Composed(s)

LayeredInv ==
  /\ step = "layers" => AtLayers
  /\ step = "sensors" => AtSensors
  /\ step = "settings" => AtSettings
  /\ step = "engine" => AtEngine /\ Split
  /\ step = "fidelity" => AtFidelity /\ Split
  /\ step = "merge" => AtMerge /\ Split /\ Merged
  /\ Succeeded => AtMerge /\ Split /\ Merged /\ ToSet(left) = {}
  /\ error # NoError => ~LegalLayered

PassthroughInv ==
  /\ step \in {"start", "done"}
  /\ step = "done" => (error = NoError <=> PassthroughErrors = {})
  /\ Succeeded => runs = [n \in {"meta.name"} |-> PassthroughRun]

ChainInv ==
  /\ doc \in Documents
  /\ step # "done" => error = NoError
  /\ step = "start" => runs = << >>
  /\ step \in {"layers", "sensors", "settings", "engine", "fidelity"} => runs = << >>
  /\ IF "passthrough" \in doc.recipe THEN PassthroughInv ELSE LayeredInv

\* What is said of the documents alone stays.
LEMMA DocumentStays ==
  ASSUME doc' = doc
  PROVE  /\ Sensors' = Sensors /\ LegalLayered' = LegalLayered
         /\ PassthroughErrors' = PassthroughErrors
         /\ AtLayers' = AtLayers /\ AtSensors' = AtSensors /\ AtSettings' = AtSettings
         /\ AtEngine' = AtEngine /\ AtFidelity' = AtFidelity /\ AtMerge' = AtMerge
         /\ \A s : SettingsOf(s)' = SettingsOf(s)
         /\ \A s : Mergeable(s)' = Mergeable(s)
         /\ \A s : RunName(s)' = RunName(s)
         /\ bySensor' = bySensor => \A s : Composed(s)' = Composed(s)
<1>1. Sensors' = Sensors /\ IsSweep' = IsSweep /\ SensorKey' = SensorKey
  BY DEF Sensors, IsSweep, SensorKey
<1>2. \A s : SettingsOf(s)' = SettingsOf(s)
  BY DEF SettingsOf
<1>3. SensorListErrors' = SensorListErrors /\ LayerErrors' = LayerErrors
  BY <1>1 DEF SensorListErrors, LayerErrors
<1>4. SensorErrors' = SensorErrors /\ EngineErrors' = EngineErrors /\ FidelityErrors' = FidelityErrors
  BY <1>1 DEF SensorErrors, EngineErrors, FidelityErrors
<1>5. EntryShared' = EntryShared
  BY <1>1 DEF EntryShared
<1>6. SettingsErrors' = SettingsErrors
  BY <1>1, <1>2, <1>5 DEF SettingsErrors
<1>7. PassthroughErrors' = PassthroughErrors
  BY DEF PassthroughErrors
<1>8. \A k : Keys(k)' = Keys(k) /\ Members(k)' = Members(k)
  BY DEF Keys, Members
<1>9. MembersLegal' = MembersLegal
  BY DEF MembersLegal
<1>10. \A s : Mergeable(s)' = Mergeable(s)
  BY <1>2, <1>9 DEF Mergeable
<1>11. \A s : RunName(s)' = RunName(s)
  BY <1>1 DEF RunName
<1>12. LegalLayered' = LegalLayered
  BY <1>1 DEF LegalLayered
<1>13. \A s : Sources(s)' = Sources(s)
  BY <1>8 DEF Sources
<1>14. bySensor' = bySensor => \A s : Composed(s)' = Composed(s)
  BY <1>13 DEF Composed
<1> QED
  BY <1>1, <1>2, <1>3, <1>4, <1>6, <1>7, <1>10, <1>11, <1>12, <1>14
     DEF AtLayers, AtSensors, AtSettings, AtEngine, AtFidelity, AtMerge

\* A composition goes on from one stage to the next, or stops with an error
\* because a rule does not hold.
LEMMA ChainStep ==
  ASSUME ChainInv, [RecipeNext]_recipeVars
  PROVE  ChainInv'
<1>1. doc' = doc /\ doc \in Documents
  BY DEF ChainInv, RecipeNext, CheckAt, ReadSensorList, LoadLayers, LoadSensors, SplitSettings,
         ApplyEngineRules, CheckFidelity, MergeRun, Finish, ComposePassthrough, recipeVars
<1> DEFINE Layered == "passthrough" \notin doc.recipe
<1>2. /\ Sensors' = Sensors /\ LegalLayered' = LegalLayered
      /\ PassthroughErrors' = PassthroughErrors
      /\ AtLayers' = AtLayers /\ AtSensors' = AtSensors /\ AtSettings' = AtSettings
      /\ AtEngine' = AtEngine /\ AtFidelity' = AtFidelity /\ AtMerge' = AtMerge
      /\ \A s : SettingsOf(s)' = SettingsOf(s)
      /\ \A s : Mergeable(s)' = Mergeable(s)
      /\ \A s : RunName(s)' = RunName(s)
      /\ bySensor' = bySensor => \A s : Composed(s)' = Composed(s)
  BY <1>1, DocumentStays
<1>3. Layered => (LegalLayered <=> AtMerge /\ \A s \in Sensors : Mergeable(s))
  BY <1>1, StagesLegal
<1> USE DEF ChainInv, CheckAt, RaiseOr
<1>4. step \notin {"start", "done"} => Layered /\ LayeredInv
  BY DEF PassthroughInv
<1> USE DEF Succeeded
<1>5. CASE ReadSensorList
  <2>1. /\ Layered /\ LayeredInv /\ error = NoError /\ step = "start" /\ runs = << >> /\ runs' = runs
        /\ IF SensorListErrors = {} THEN step' = "layers" /\ error' = error
           ELSE step' = "done" /\ error' \in SensorListErrors
    BY <1>5 DEF ReadSensorList
  <2>2. CASE SensorListErrors = {}
    BY <1>1, <1>2, <2>1, <2>2 DEF LayeredInv, AtLayers
  <2>3. CASE SensorListErrors # {}
    <3>1. error' # NoError /\ step' = "done"
      BY <1>1, <2>1, <2>3, StartErrors DEF IsError
    <3>2. ~LegalLayered
      BY <1>3, <2>1, <2>3 DEF AtMerge, AtFidelity, AtEngine, AtSettings, AtSensors, AtLayers
    <3> QED BY <1>1, <1>2, <2>1, <3>1, <3>2 DEF LayeredInv
  <2> QED BY <2>2, <2>3
<1>6. CASE LoadLayers
  <2>1. /\ Layered /\ LayeredInv /\ error = NoError /\ step = "layers" /\ runs = << >> /\ runs' = runs
        /\ IF LayerErrors = {} THEN step' = "sensors" /\ error' = error
           ELSE step' = "done" /\ error' \in LayerErrors
    BY <1>4, <1>6 DEF LoadLayers
  <2>2. CASE LayerErrors = {}
    BY <1>1, <1>2, <2>1, <2>2 DEF LayeredInv, AtSensors
  <2>3. CASE LayerErrors # {}
    <3>1. error' # NoError /\ step' = "done"
      BY <1>1, <2>1, <2>3, StartErrors DEF IsError
    <3>2. ~LegalLayered
      BY <1>3, <2>1, <2>3 DEF AtMerge, AtFidelity, AtEngine, AtSettings, AtSensors
    <3> QED BY <1>1, <1>2, <2>1, <3>1, <3>2 DEF LayeredInv
  <2> QED BY <2>2, <2>3
<1>7. CASE LoadSensors
  <2>1. /\ Layered /\ LayeredInv /\ error = NoError /\ step = "sensors" /\ runs = << >> /\ runs' = runs
        /\ IF SensorErrors = {} THEN step' = "settings" /\ error' = error
           ELSE step' = "done" /\ error' \in SensorErrors
    BY <1>4, <1>7 DEF LoadSensors
  <2>2. CASE SensorErrors = {}
    BY <1>1, <1>2, <2>1, <2>2 DEF LayeredInv, AtSettings
  <2>3. CASE SensorErrors # {}
    <3>1. error' # NoError /\ step' = "done"
      BY <1>1, <2>1, <2>3, StartErrors DEF IsError
    <3>2. ~LegalLayered
      BY <1>3, <2>1, <2>3 DEF AtMerge, AtFidelity, AtEngine, AtSettings
    <3> QED BY <1>1, <1>2, <2>1, <3>1, <3>2 DEF LayeredInv
  <2> QED BY <2>2, <2>3
<1>8. CASE SplitSettings
  <2>1. /\ Layered /\ LayeredInv /\ error = NoError /\ step = "settings" /\ runs = << >> /\ runs' = runs
        /\ IF SettingsErrors = {} THEN step' = "engine" /\ error' = error
           ELSE step' = "done" /\ error' \in SettingsErrors
        /\ bySensor' = IF SettingsErrors = {} THEN [s \in Sensors |-> SettingsOf(s)] ELSE bySensor
    BY <1>4, <1>8 DEF SplitSettings
  <2>2. CASE SettingsErrors = {}
    <3>1. Split'
      BY <1>2, <2>1, <2>2 DEF Split
    <3> QED BY <1>1, <1>2, <2>1, <2>2, <3>1 DEF LayeredInv, AtEngine
  <2>3. CASE SettingsErrors # {}
    <3>1. error' # NoError /\ step' = "done"
      BY <1>1, <2>1, <2>3, StartErrors DEF IsError
    <3>2. ~LegalLayered
      BY <1>3, <2>1, <2>3 DEF AtMerge, AtFidelity, AtEngine
    <3> QED BY <1>1, <1>2, <2>1, <3>1, <3>2 DEF LayeredInv
  <2> QED BY <2>2, <2>3
<1>9. CASE ApplyEngineRules
  <2>1. /\ Layered /\ LayeredInv /\ error = NoError /\ step = "engine" /\ runs = << >> /\ runs' = runs
        /\ IF EngineErrors = {} THEN step' = "fidelity" /\ error' = error
           ELSE step' = "done" /\ error' \in EngineErrors
        /\ bySensor' = bySensor /\ Split
    BY <1>4, <1>9 DEF ApplyEngineRules, LayeredInv
  <2>2. CASE EngineErrors = {}
    <3>1. Split'
      BY <1>2, <2>1 DEF Split
    <3> QED BY <1>1, <1>2, <2>1, <2>2, <3>1 DEF LayeredInv, AtFidelity
  <2>3. CASE EngineErrors # {}
    <3>1. error' # NoError /\ step' = "done"
      BY <1>1, <2>1, <2>3, StartErrors DEF IsError
    <3>2. ~LegalLayered
      BY <1>3, <2>1, <2>3 DEF AtMerge, AtFidelity
    <3> QED BY <1>1, <1>2, <2>1, <3>1, <3>2 DEF LayeredInv
  <2> QED BY <2>2, <2>3
<1>10. CASE CheckFidelity
  <2>1. /\ Layered /\ LayeredInv /\ error = NoError /\ step = "fidelity" /\ runs = << >> /\ runs' = runs
        /\ IF FidelityErrors = {} THEN step' = "merge" /\ error' = error
           ELSE step' = "done" /\ error' \in FidelityErrors
        /\ left' = IF FidelityErrors = {} THEN doc.sensors ELSE left
        /\ bySensor' = bySensor /\ Split
    BY <1>4, <1>10 DEF CheckFidelity, LayeredInv
  <2>2. CASE FidelityErrors = {}
    <3>1. Split'
      BY <1>2, <2>1 DEF Split
    <3>2. Merged'
      <4>1. left' = doc.sensors /\ left' \in Seq(STRING) /\ ToSet(left') = Sensors
        BY <1>1, <2>1, <2>2, DocumentAssumption DEF Sensors
      <4> QED BY <1>2, <2>1, <4>1 DEF Merged
    <3> QED BY <1>1, <1>2, <2>1, <2>2, <3>1, <3>2 DEF LayeredInv, AtMerge
  <2>3. CASE FidelityErrors # {}
    <3>1. error' # NoError /\ step' = "done"
      BY <1>1, <2>1, <2>3, StartErrors DEF IsError
    <3>2. ~LegalLayered
      BY <1>3, <2>1, <2>3 DEF AtMerge
    <3> QED BY <1>1, <1>2, <2>1, <3>1, <3>2 DEF LayeredInv
  <2> QED BY <2>2, <2>3
<1>11. CASE MergeRun
  <2> DEFINE s == Head(left)
  <2>1. /\ Layered /\ LayeredInv /\ error = NoError /\ step = "merge" /\ left # << >>
        /\ IF MergeErrors(s) = {} THEN step' = "merge" /\ error' = error
           ELSE step' = "done" /\ error' \in MergeErrors(s)
        /\ runs' = IF MergeErrors(s) = {} THEN AddRun(RunName(s), Composed(s)) ELSE runs
        /\ left' = Tail(left) /\ bySensor' = bySensor /\ AtMerge /\ Split /\ Merged
    BY <1>4, <1>11 DEF MergeRun, LayeredInv
  <2>2. left' \in Seq(STRING) /\ ToSet(left) = {s} \cup ToSet(left')
    BY <2>1, ToSetHeadTail DEF Merged
  <2>3. s \in Sensors /\ bySensor[s] = SettingsOf(s)
    BY <2>1, <2>2 DEF Merged, Split
  <2>4. MergeErrors(s) = {} <=> Mergeable(s)
    BY <2>1, <2>3, MergeLegal DEF Mergeable
  <2>5. Split'
    BY <1>2, <2>1 DEF Split
  <2>6. CASE MergeErrors(s) = {}
    <3>1. step' = "merge" /\ error' = NoError /\ runs' = AddRun(RunName(s), Composed(s))
      BY <2>1, <2>6
    <3>2. ASSUME NEW n \in DOMAIN runs'
          PROVE  \E t \in Sensors : n = RunName(t) /\ runs'[n] = Composed(t)
      <4>1. CASE n = RunName(s)
        BY <2>3, <3>1, <4>1 DEF AddRun
      <4>2. CASE n # RunName(s)
        <5>1. n \in DOMAIN runs /\ runs'[n] = runs[n]
          BY <3>1, <3>2, <4>2 DEF AddRun
        <5> QED BY <2>1, <5>1 DEF Merged
      <4> QED BY <4>1, <4>2
    <3>3. \A t \in Sensors : t \in ToSet(left') \/ Mergeable(t)
      BY <2>1, <2>2, <2>4, <2>6 DEF Merged
    <3>4. ToSet(left') \subseteq Sensors
      BY <2>1, <2>2 DEF Merged
    <3> HIDE DEF s
    <3>5. Merged'
      BY <1>2, <2>1, <2>2, <3>2, <3>3, <3>4 DEF Merged
    <3> QED BY <1>1, <1>2, <2>1, <2>5, <3>1, <3>5 DEF LayeredInv
  <2>7. CASE MergeErrors(s) # {}
    <3>1. error' # NoError /\ step' = "done"
      BY <1>1, <2>1, <2>7, MergeErrorsAre DEF IsError
    <3>2. ~LegalLayered
      BY <1>3, <2>1, <2>3, <2>4, <2>7
    <3> QED BY <1>1, <1>2, <2>1, <3>1, <3>2 DEF LayeredInv
  <2> QED BY <2>6, <2>7
<1>12. CASE Finish
  <2>1. /\ Layered /\ LayeredInv /\ error = NoError /\ error' = error /\ step = "merge" /\ left = << >>
        /\ step' = "done" /\ bySensor' = bySensor /\ left' = left /\ runs' = runs
        /\ AtMerge /\ Split /\ Merged
    BY <1>4, <1>12 DEF Finish, LayeredInv
  <2>2. ToSet(left) = {}
    BY <2>1 DEF ToSet
  <2>3. Split' /\ Merged' /\ ToSet(left') = {}
    BY <1>2, <2>1, <2>2 DEF Split, Merged
  <2> QED BY <1>1, <1>2, <2>1, <2>3 DEF LayeredInv
<1>13. CASE ComposePassthrough
  <2>1. /\ ~Layered /\ error = NoError
        /\ IF PassthroughErrors = {} THEN step' = "done" /\ error' = error
           ELSE step' = "done" /\ error' \in PassthroughErrors
        /\ runs' = IF PassthroughErrors = {} THEN [n \in {"meta.name"} |-> PassthroughRun] ELSE runs
    <3>1. runs = << >> /\ step = "start"
      BY <1>13 DEF ComposePassthrough
    <3>2. AddRun("meta.name", PassthroughRun) = [n \in {"meta.name"} |-> PassthroughRun]
      BY <3>1 DEF AddRun
    <3> QED BY <1>13, <3>2 DEF ComposePassthrough
  <2>2. PassthroughErrors # {} => error' # NoError
    BY <2>1, PassthroughErrorsAre DEF IsError
  <2>3. PassthroughRun' = PassthroughRun
    BY <1>1 DEF PassthroughRun
  <2>4. PassthroughInv'
    BY <1>2, <2>1, <2>2, <2>3 DEF PassthroughInv
  <2> QED BY <1>1, <2>1, <2>4
<1>14. CASE UNCHANGED recipeVars
  <2>1. Split' = Split /\ Merged' = Merged
    BY <1>2, <1>14 DEF recipeVars, Split, Merged
  <2>2. LayeredInv' = LayeredInv
    BY <1>2, <1>14, <2>1 DEF recipeVars, LayeredInv
  <2>3. PassthroughInv' = PassthroughInv
    BY <1>1, <1>2, <1>14 DEF recipeVars, PassthroughInv, PassthroughRun
  <2> QED BY <1>14, <2>2, <2>3 DEF recipeVars
<1> QED
  BY <1>5, <1>6, <1>7, <1>8, <1>9, <1>10, <1>11, <1>12, <1>13, <1>14 DEF RecipeNext

LEMMA ChainHolds ==
  RecipeSpec => []ChainInv
<1>1. RecipeInit => ChainInv
  BY DEF RecipeInit, ChainInv, PassthroughInv, LayeredInv, Succeeded
<1>2. ChainInv /\ [RecipeNext]_recipeVars => ChainInv'
  BY ChainStep
<1>3. QED BY <1>1, <1>2, PTL DEF RecipeSpec

\* compose.py, "Rules": a recipe composes exactly when the stated rules hold.
THEOREM ComposesTheLegal ==
  RecipeSpec => []ComposesIffLegal
<1>1. ChainInv => ComposesIffLegal
  <2> SUFFICES ASSUME ChainInv, step = "done"
               PROVE  Succeeded <=>
                        IF "passthrough" \in doc.recipe THEN LegalPassthrough ELSE LegalLayered
    BY DEF ComposesIffLegal
  <2>1. CASE "passthrough" \in doc.recipe
    BY <2>1, PassthroughLegal DEF ChainInv, PassthroughInv, Succeeded
  <2>2. CASE "passthrough" \notin doc.recipe
    <3>1. doc \in Documents /\ LayeredInv
      BY <2>2 DEF ChainInv
    <3>2. LegalLayered <=> AtMerge /\ \A s \in Sensors : Mergeable(s)
      BY <2>2, <3>1, StagesLegal
    <3>3. Succeeded => AtMerge /\ \A s \in Sensors : Mergeable(s)
      BY <3>1 DEF LayeredInv, Merged
    <3>4. ~Succeeded => ~LegalLayered
      BY <3>1 DEF LayeredInv, Succeeded
    <3> QED BY <2>2, <3>2, <3>3, <3>4
  <2> QED BY <2>1, <2>2
<1>2. QED BY <1>1, ChainHolds, PTL

\* The layers of a run's members, when it is composed from layers.
LEMMA SourcesHold ==
  ASSUME doc \in Documents, "passthrough" \notin doc.recipe,
         AtMerge, NEW s \in Sensors, Mergeable(s), NEW m \in DOMAIN Sources(s)
  PROVE  IF m = "sensor" THEN Sources(s)[m] = s
         ELSE /\ Sources(s)[m] = "recipe" <=>
                   \/ m \in doc.recipe \cup doc.overrides
                   \/ m = "fidelity" /\ doc.bySensor # {}
              /\ Sources(s)[m] = "scenario" <=> m \in doc.scenario
              /\ Sources(s)[m] = "engine_profile" <=> m \in doc.profile
<1> DEFINE named == {"meta", "settings", "fidelity", "sensor"}
           owned == DOMAIN Owner \cap UNION {Members(k) : k \in ToSet(Layers)}
<1>1. /\ Keys("recipe") = (doc.recipe \ {"sensors", "fidelity_by_sensor"})
                            \cup {"sensor", "settings", "fidelity"}
      /\ Keys("scenario") = doc.scenario
      /\ Keys("engine_profile") = doc.profile
  BY DEF Keys
<1>2. MembersLegal /\ "settings" \in doc.recipe
  <2>1. LegalLayered \/ SettingsErrors = {}
    BY DEF AtMerge, AtFidelity, AtEngine
  <2>2. Sensors \subseteq DOMAIN Library
    BY BlameNone DEF AtMerge, AtFidelity, AtEngine, AtSettings, SensorErrors, If
  <2>3. SettingsLegal
    BY <2>2, SettingsSplit DEF AtMerge, AtFidelity, AtEngine
  <2> QED BY <2>3 DEF Mergeable, SettingsLegal
<1>3. "fidelity" \in doc.recipe \/ doc.bySensor # {}
  BY FidelityLegal DEF AtMerge
<1>4. /\ Members("recipe") \subseteq named
      /\ named \ {"sensor"} \subseteq Members("recipe")
      /\ Members("scenario") = {"collection"}
      /\ Members("engine_profile") = doc.profile
  BY <1>1, <1>2 DEF Members, Control, MembersLegal
<1>5. UNION {Members(k) : k \in ToSet(Layers)}
        = Members("recipe") \cup Members("scenario") \cup Members("engine_profile")
  <2>1. ToSet(Layers) = Members3
    BY DEF ToSet, Layers, Members3
  <2> QED BY <2>1 DEF Members3
<1>6. doc.overrides \subseteq {"platform.channel_response"}
  BY DEF Mergeable, EngineOverrides
<1>7. /\ DOMAIN Sources(s) = owned \cup doc.overrides
      /\ Sources(s)[m] = IF m = "sensor" THEN s
                         ELSE IF m \in doc.overrides THEN "recipe" ELSE Owner[m]
  BY Zenon DEF Sources
<1>8. CASE m = "sensor"
  BY <1>7, <1>8
<1>9. CASE m # "sensor" /\ m \in doc.overrides
  <2>1. Sources(s)[m] = "recipe" /\ m = "platform.channel_response"
    BY <1>6, <1>7, <1>9
  <2>2. m \notin doc.scenario /\ m \notin doc.profile
    BY <1>2, <2>1 DEF MembersLegal
  <2> QED BY <1>9, <2>1, <2>2
<1>10. CASE m # "sensor" /\ m \notin doc.overrides
  <2>1. Sources(s)[m] = Owner[m] /\ m \in named \cup {"collection"} \cup doc.profile
    BY <1>4, <1>5, <1>7, <1>10
  <2>2. CASE m \in {"meta", "settings", "fidelity"}
    <3>1. Sources(s)[m] = "recipe" /\ m \notin doc.scenario /\ m \notin doc.profile
      BY <1>2, <2>1, <2>2 DEF MembersLegal, Owner
    <3>2. m \in doc.recipe \/ (m = "fidelity" /\ doc.bySensor # {})
      BY <1>2, <1>3, <2>2 DEF MembersLegal
    <3> QED BY <1>10, <3>1, <3>2
  <2>3. CASE m = "collection"
    <3>1. Sources(s)[m] = "scenario" /\ m \in doc.scenario
      BY <1>2, <2>1, <2>3 DEF MembersLegal, Owner
    <3>2. m \notin doc.recipe /\ m \notin doc.profile
      BY <1>2, <2>3 DEF MembersLegal
    <3> QED BY <1>10, <2>3, <3>1, <3>2
  <2>4. CASE m \in doc.profile /\ m \notin named
    <3>1. m \in {"origin", "engine", "extras", "resources"}
      BY <1>2, <2>4 DEF MembersLegal
    <3>2. Sources(s)[m] = "engine_profile" /\ m \notin doc.scenario /\ m \notin doc.recipe
      BY <1>2, <2>1, <3>1 DEF MembersLegal, Owner
    <3> QED BY <1>10, <2>4, <3>2
  <2> QED BY <1>10, <2>1, <2>2, <2>3, <2>4
<1> QED BY <1>8, <1>9, <1>10

\* compose.py, explain: "Each member ... with the layer file it came from".
THEOREM SourcesHoldMembers ==
  RecipeSpec => []SourceHoldsMember
<1>1. ToSet(Layers) = {"recipe", "scenario", "engine_profile"}
  BY DEF ToSet, Layers
<1>2. ASSUME ChainInv, Succeeded, NEW n \in DOMAIN runs, NEW m \in DOMAIN runs[n].sources
      PROVE  IF m = "sensor" THEN runs[n].sources[m] \in Sensors
             ELSE /\ runs[n].sources[m] = "recipe" <=>
                       \/ m \in doc.recipe \cup doc.overrides
                       \/ m = "fidelity" /\ doc.bySensor # {}
                       \/ m = "engine.passthrough" /\ doc.block
                  /\ runs[n].sources[m] = "scenario" <=> "scenario" \in doc.recipe /\ m \in doc.scenario
                  /\ runs[n].sources[m] = "engine_profile" <=> m \in doc.profile
  <2>0. doc \in Documents /\ step = "done"
    BY <1>2 DEF ChainInv, Succeeded
  <2>1. CASE "passthrough" \in doc.recipe
    <3>1. LegalPassthrough /\ runs = [x \in {"meta.name"} |-> PassthroughRun]
      BY <1>2, <2>1, PassthroughLegal DEF ChainInv, PassthroughInv, Succeeded
    <3>2. runs[n] = PassthroughRun
      BY <1>2, <3>1
    <3>3. /\ doc.recipe = {"compose", "meta", "passthrough", "engine_profile", "fidelity"}
          /\ doc.profile \subseteq {"origin", "engine", "resources"}
          /\ {"origin", "engine"} \subseteq doc.profile /\ doc.block
      BY <3>1 DEF LegalPassthrough, PassthroughRecipe
    <3>4. doc.overrides = {} /\ doc.bySensor = {}
      BY <2>0, <3>3, DocumentAssumption
    <3>5. /\ m \in {"meta", "fidelity", "engine.passthrough", "origin", "engine"}
                     \cup (doc.profile \cap {"resources"})
          /\ runs[n].sources[m] = IF m \in {"meta", "fidelity", "engine.passthrough"}
                                  THEN "recipe" ELSE "engine_profile"
      BY <1>2, <3>2 DEF PassthroughRun
    <3>6. CASE m \in {"meta", "fidelity"}
      BY <3>3, <3>5, <3>6
    <3>7. CASE m = "engine.passthrough"
      BY <3>3, <3>5, <3>7
    <3>8. CASE m \in {"origin", "engine"} \cup (doc.profile \cap {"resources"})
      BY <3>3, <3>4, <3>5, <3>8
    <3> QED BY <3>5, <3>6, <3>7, <3>8
  <2>2. CASE "passthrough" \notin doc.recipe
    <3>1. AtMerge /\ Merged /\ ToSet(left) = {}
      BY <1>2, <2>2 DEF ChainInv, LayeredInv
    <3>2. PICK s \in Sensors : runs[n] = Composed(s)
      BY <3>1 DEF Merged
    <3>3. Mergeable(s)
      BY <3>1 DEF Merged
    <3>4. runs[n].sources = Sources(s)
      BY <3>2 DEF Composed
    <3>5. IF m = "sensor" THEN Sources(s)[m] = s
          ELSE /\ Sources(s)[m] = "recipe" <=>
                    \/ m \in doc.recipe \cup doc.overrides
                    \/ m = "fidelity" /\ doc.bySensor # {}
               /\ Sources(s)[m] = "scenario" <=> m \in doc.scenario
               /\ Sources(s)[m] = "engine_profile" <=> m \in doc.profile
      BY <1>2, <2>0, <2>2, <3>1, <3>3, <3>4, SourcesHold
    <3>6. "scenario" \in doc.recipe
      BY <3>3 DEF Mergeable, MembersLegal
    <3>7. m # "engine.passthrough"
      <4>1. DOMAIN Sources(s) \subseteq DOMAIN Owner \cup doc.overrides
        BY DEF Sources
      <4>2. DOMAIN Owner \subseteq {"meta", "settings", "fidelity", "sensor", "collection",
                                    "origin", "extras", "engine", "resources"}
        BY DEF Owner
      <4>3. doc.overrides \subseteq {"platform.channel_response"}
        BY <3>3 DEF Mergeable, EngineOverrides
      <4> QED BY <1>2, <3>4, <4>1, <4>2, <4>3
    <3> QED BY <3>4, <3>5, <3>6, <3>7
  <2> QED BY <2>1, <2>2
<1>3. ChainInv => SourceHoldsMember
  <2> SUFFICES ASSUME ChainInv, Succeeded, NEW n \in DOMAIN runs, NEW m \in DOMAIN runs[n].sources,
                      m # "sensor", NEW k \in {"recipe", "scenario", "engine_profile"}
               PROVE  (CASE k = "recipe" -> m \in doc.recipe \cup doc.overrides
                                              \/ (m = "fidelity" /\ doc.bySensor # {})
                                              \/ (m = "engine.passthrough" /\ doc.block)
                         [] k = "scenario" -> "scenario" \in doc.recipe /\ m \in doc.scenario
                         [] k = "engine_profile" -> m \in doc.profile) <=> k = runs[n].sources[m]
    BY <1>1, <1>2 DEF SourceHoldsMember
  <2>1. CASE k = "recipe"
    BY <1>2, <2>1
  <2>2. CASE k = "scenario"
    BY <1>2, <2>2
  <2>3. CASE k = "engine_profile"
    BY <1>2, <2>3
  <2> QED BY <2>1, <2>2, <2>3
<1>4. QED BY <1>3, ChainHolds, PTL

\* What a sweep that has composed holds of its settings.
LEMMA SettingsPlaced ==
  ASSUME ChainInv, OneRunPerSensor, Succeeded, "passthrough" \notin doc.recipe
  PROVE  /\ \A e \in ToSet(doc.settings) :
              Cardinality({n \in DOMAIN runs : e \in ToSet(runs[n].settings)}) = 1
         /\ \A n \in DOMAIN runs : \A i, j \in DOMAIN runs[n].settings : i < j =>
              (CHOOSE k \in DOMAIN Entries(runs[n].sensor) :
                 Entries(runs[n].sensor)[k] = runs[n].settings[i])
              < (CHOOSE k \in DOMAIN Entries(runs[n].sensor) :
                   Entries(runs[n].sensor)[k] = runs[n].settings[j])
<1>1. doc \in Documents /\ AtMerge /\ Split /\ Merged
  BY DEF ChainInv, LayeredInv
<1>2. Sensors \subseteq DOMAIN Library
  BY <1>1, BlameNone DEF AtMerge, AtFidelity, AtEngine, AtSettings, SensorErrors, If
<1>3. SettingsLegal
  BY <1>1, <1>2, SettingsSplit DEF AtMerge, AtFidelity, AtEngine
<1>4. \A s \in Sensors : Composed(s).sensor = s /\ Composed(s).settings = SettingsOf(s)
  BY <1>1 DEF Composed, Split
<1>5. ASSUME NEW n \in DOMAIN runs
      PROVE  \E s \in Sensors : /\ n = RunName(s) /\ runs[n].sensor = s
                                /\ runs[n].settings = SettingsOf(s)
  BY <1>1, <1>4 DEF Merged
<1>6. \A s \in Sensors : ToSet(SettingsOf(s)) = ToSet(Entries(s)) \cap ToSet(doc.settings)
  BY <1>2, SettingsOfSensor
<1>7. ASSUME NEW e \in ToSet(doc.settings)
      PROVE  Cardinality({n \in DOMAIN runs : e \in ToSet(runs[n].settings)}) = 1
  <2> DEFINE H == {n \in DOMAIN runs : e \in ToSet(runs[n].settings)}
  <2>1. Cardinality({s \in Sensors : e \in ToSet(Entries(s))}) = 1
    BY <1>3, Zenon DEF SettingsLegal
  <2>2. PICK s \in Sensors : /\ e \in ToSet(Entries(s))
                             /\ \A t \in Sensors : e \in ToSet(Entries(t)) => t = s
    BY <1>1, <2>1, OneSensor
  <2>3. PICK n \in DOMAIN runs : runs[n].sensor = s
    BY <2>2 DEF OneRunPerSensor
  <2>4. runs[n].settings = SettingsOf(s) /\ n = RunName(s)
    BY <1>5, <2>3
  <2>5. n \in H
    BY <1>6, <2>2, <2>4
  <2>6. ASSUME NEW m \in H PROVE m = n
    <3>1. PICK t \in Sensors : m = RunName(t) /\ runs[m].settings = SettingsOf(t)
      BY <1>5
    <3>2. e \in ToSet(Entries(t))
      BY <1>6, <3>1
    <3> QED BY <2>2, <2>4, <3>1, <3>2
  <2>7. H = {n}
    BY <2>5, <2>6
  <2> QED BY <2>7, FS_Singleton
<1>8. ASSUME NEW n \in DOMAIN runs, NEW i \in DOMAIN runs[n].settings,
             NEW j \in DOMAIN runs[n].settings, i < j
      PROVE  (CHOOSE k \in DOMAIN Entries(runs[n].sensor) :
                Entries(runs[n].sensor)[k] = runs[n].settings[i])
             < (CHOOSE k \in DOMAIN Entries(runs[n].sensor) :
                  Entries(runs[n].sensor)[k] = runs[n].settings[j])
  <2>1. PICK s \in Sensors : runs[n].sensor = s /\ runs[n].settings = SettingsOf(s)
    BY <1>5
  <2> DEFINE q == Entries(s)
             m == SettingsOf(s)
  <2>2. PICK a \in DOMAIN q, b \in DOMAIN q : a < b /\ m[i] = q[a] /\ m[j] = q[b]
    BY <1>2, <1>8, <2>1, SettingsOfSensor
  <2>3. \A k, l \in DOMAIN q : q[k] = q[l] => k = l
    BY <1>3, <2>1 DEF SettingsLegal, IsInjective
  <2> HIDE DEF q, m
  <2>4. (CHOOSE k \in DOMAIN q : q[k] = m[i]) = a /\ (CHOOSE k \in DOMAIN q : q[k] = m[j]) = b
    BY <2>2, <2>3
  <2> QED BY <2>1, <2>2, <2>4 DEF q, m
<1> QED BY <1>7, <1>8

\* Each settings member is used in exactly one run, that of the sensor whose
\* entry it names, in that sensor's order, when no two files have one stem.
THEOREM SettingsArePlacedOnce ==
  ASSUME \A s, t \in DOMAIN Library : Library[s].stem = Library[t].stem => s = t
  PROVE  RecipeSpec => []SettingsPlacedOnce
<1>1. ChainInv /\ OneRunPerSensor => SettingsPlacedOnce
  BY SettingsPlaced, Zenon DEF SettingsPlacedOnce
<1>2. QED BY <1>1, ChainHolds, SweepIsComposedWhole, PTL
=============================================================================
