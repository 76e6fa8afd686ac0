------------------------------ MODULE Compose -------------------------------
(***************************************************************************)
(* compose.py: the run specs a recipe composes to, from layer files that    *)
(* own disjoint members.  A document is the set of its keys, together with  *)
(* what the rules look at below them; an error is the layer file and the    *)
(* key it names.  Where Python meets the keys of a mapping in some order,   *)
(* any of the offending ones may be the one reported.                       *)
(***************************************************************************)
EXTENDS Naturals, SequencesExt

CONSTANTS
  Documents,    \* the recipes with their layers, see below
  Library,      \* sensor file |-> [stem, entries], entries in entry order
  MaxRuns       \* MAX_RUNS

\* `sensor` names one sensor file, `sensors` lists any number; what the rules
\* look at below a key is there with the key.
ASSUME DocumentAssumption ==
  /\ \A d \in Documents :
       /\ d.sensors \in Seq(STRING) /\ d.settings \in Seq(STRING)
       /\ "sensors" \notin d.recipe => Len(d.sensors) = IF "sensor" \in d.recipe THEN 1 ELSE 0
       /\ d.overrides # {} => "engine_overrides" \in d.recipe
       /\ d.bySensor # {} => "fidelity_by_sensor" \in d.recipe
       /\ d.absent \subseteq {"scenario", "engine_profile"}
  /\ \A s \in DOMAIN Library : Library[s].entries \in Seq(STRING)
  /\ MaxRuns \in Nat \ {0}

VARIABLES
  doc,          \* the recipe and the layers it names
  step,         \* the next step of _compose
  error,        \* what the ComposeError names, NoError without one
  bySensor,     \* bySensor[s]: the settings members of sensor s
  left,         \* the sensors still to compose
  runs          \* run name |-> what was composed under it

recipeVars == <<doc, step, error, bySensor, left, runs>>

NoError == [layer |-> "none", field |-> "none"]

Owner == [meta |-> "recipe", settings |-> "recipe", fidelity |-> "recipe",
          sensor |-> "recipe", collection |-> "scenario",
          origin |-> "engine_profile", extras |-> "engine_profile",
          engine |-> "engine_profile", resources |-> "engine_profile"]
Layers  == <<"recipe", "scenario", "engine_profile">>
Required == [recipe |-> {"compose", "meta", "sensor", "scenario", "engine_profile",
                         "settings", "fidelity"},
             scenario |-> {"collection"},
             engine_profile |-> {"origin", "engine"}]
Control == [recipe |-> {"compose", "scenario", "engine_profile", "engine_overrides",
                        "sensors", "fidelity_by_sensor", "passthrough"},
            scenario |-> {}, engine_profile |-> {}]
PassthroughRecipe  == {"compose", "meta", "passthrough", "engine_profile", "fidelity"}
PassthroughProfile == {"origin", "engine"}
PassthroughEngine  == {"generator", "run"}
EngineOverrides    == {"platform.channel_response"}

Sensors == ToSet(doc.sensors)
IsSweep == "sensors" \in doc.recipe
SensorKey == IF IsSweep THEN "sensors" ELSE "sensor"
Entries(s) == Library[s].entries
-----------------------------------------------------------------------------
(* The checks, each a set of the errors it may raise.                      *)

Blame(layer, fields) == {[layer |-> layer, field |-> f] : f \in fields}
If(condition, errors) == IF condition THEN errors ELSE {}

\* The checks are made one after the other; the first that fails raises.
FirstOf(checks) ==
  LET failing == {i \in DOMAIN checks : checks[i] # {}}
  IN IF failing = {} THEN {} ELSE checks[Min(failing)]

\* _sensor_list
SensorListErrors ==
  FirstOf(<<If({"sensor", "sensors"} \subseteq doc.recipe, Blame("recipe", {"sensors"})),
            If({"sensor", "sensors"} \cap doc.recipe = {}, Blame("recipe", {"sensor"})),
            If(IsSweep /\ (\/ doc.sensors = << >>
                           \/ Len(doc.sensors) > MaxRuns
                           \/ ~IsInjective(doc.sensors)), Blame("recipe", {"sensors"}))>>)

\* The named layers are read.
LayerErrors ==
  FirstOf(<<Blame("recipe", {"scenario"} \ doc.recipe),
            If("scenario" \in doc.absent, Blame("scenario", {"file"})),
            Blame("recipe", {"engine_profile"} \ doc.recipe),
            If("engine_profile" \in doc.absent, Blame("engine_profile", {"file"}))>>)

SensorErrors == If(~(Sensors \subseteq DOMAIN Library), Blame("recipe", {SensorKey}))

\* The elements of q that are in S, in their order: the k-th of them is the one
\* that is k-th among their places (SelectSeq, which recurs, has no proofs).
Only(q, S) ==
  LET at == {i \in DOMAIN q : q[i] \in S}
  IN [k \in 1 .. Cardinality(at) |->
        q[CHOOSE i \in at : Cardinality({j \in at : j <= i}) = k]]

\* Mutant of SettingsOf: in the order of the recipe.
SettingsAsWritten(s) == Only(doc.settings, ToSet(Entries(s)))

\* The settings members that belong to sensor s, in its entry order.
SettingsOf(s) == Only(Entries(s), ToSet(doc.settings))

\* An entry belongs to two sensors, or to one twice.
EntryShared ==
  \/ \E s, t \in Sensors : s # t /\ ToSet(Entries(s)) \cap ToSet(Entries(t)) # {}
  \/ \E s \in Sensors : ~IsInjective(Entries(s))

\* Mutant of SettingsErrors: two settings members for one entry pass.
SettingsErrorsTwice ==
  FirstOf(<<If(EntryShared, Blame("recipe", {SensorKey})),
            If(\/ "settings" \notin doc.recipe
               \/ \E e \in ToSet(doc.settings) : \A s \in Sensors : e \notin ToSet(Entries(s)),
               Blame("recipe", {"settings"})),
            If(\E s \in Sensors : SettingsOf(s) = << >>, Blame("recipe", {SensorKey}))>>)

\* _settings_by_sensor
SettingsErrors ==
  FirstOf(<<If(EntryShared, Blame("recipe", {SensorKey})),
            If(\/ "settings" \notin doc.recipe
               \/ \E e \in ToSet(doc.settings) : \A s \in Sensors : e \notin ToSet(Entries(s))
               \/ ~IsInjective(doc.settings),
               Blame("recipe", {"settings"})),
            If(\E s \in Sensors : SettingsOf(s) = << >>, Blame("recipe", {SensorKey}))>>)

\* The composition rules of the adapter of the engine that the origin names.
EngineErrors == If(doc.refused /\ "origin" \in doc.profile, Blame("recipe", {"settings"}))

FidelityErrors ==
  FirstOf(<<If(~(doc.bySensor \subseteq Sensors), Blame("recipe", {"fidelity_by_sensor"})),
            If("fidelity" \notin doc.recipe /\ ~(Sensors \subseteq doc.bySensor),
               Blame("recipe", {"fidelity"}))>>)

\* The keys of a layer as merge sees them: the recipe of one run.
Keys(k) ==
  CASE k = "recipe" -> (doc.recipe \ {"sensors", "fidelity_by_sensor"})
                         \cup {"sensor", "settings", "fidelity"}
    [] k = "scenario" -> doc.scenario
    [] k = "engine_profile" -> doc.profile

Members(k) == Keys(k) \ Control[k]

\* Mutant of ForeignErrors: the error names the layer that owns the member.
ForeignErrorsOwner(k) ==
  UNION {Blame(Owner[m], {m}) : m \in {m \in Members(k) \cap DOMAIN Owner : Owner[m] # k}}

\* A member in a layer that does not own it, whether or not the owner has it.
ForeignErrors(k) == Blame(k, {m \in Members(k) \cap DOMAIN Owner : Owner[m] # k})

\* Of a member in two foreign layers the first of Layers is blamed.
Foreign ==
  LET all == UNION {ForeignErrors(k) : k \in ToSet(Layers)}
      at(e) == CHOOSE i \in DOMAIN Layers : Layers[i] = e.layer
  IN {e \in all : \A f \in all : f.field = e.field => at(e) <= at(f)}

\* merge.  Which of several members is met first depends on the order of the keys.
MergeErrors(s) ==
  LET unknown(k) == Blame(k, Members(k) \ DOMAIN Owner)
      missing(k) == Blame(k, Required[k] \ Keys(k))
  IN FirstOf(<<unknown("recipe"), missing("recipe"), unknown("scenario"), missing("scenario"),
               unknown("engine_profile"), missing("engine_profile"),
               Foreign,
               If(~doc.rules, Blame("recipe", {"compose"})),
               If(~doc.named, Blame("recipe", {"meta"})),
               If(ToSet(bySensor[s]) \cap doc.badRoi # {}, Blame("recipe", {"settings"})),
               If(~(doc.overrides \subseteq EngineOverrides \cap doc.parents),
                  Blame("recipe", {"engine_overrides"}))>>)

\* _compose_passthrough
PassthroughErrors ==
  FirstOf(<<Blame("recipe", doc.recipe \ PassthroughRecipe),
            Blame("recipe", PassthroughRecipe \ doc.recipe),
            If(~doc.rules, Blame("recipe", {"compose"})),
            If(~doc.named, Blame("recipe", {"meta"})),
            If(~doc.block, Blame("recipe", {"passthrough"})),
            If("engine_profile" \in doc.absent, Blame("engine_profile", {"file"})),
            Blame("engine_profile", doc.profile \ (PassthroughProfile \cup {"resources"})),
            Blame("engine_profile", PassthroughProfile \ doc.profile),
            If(~(doc.engine \subseteq PassthroughEngine) \/ "generator" \notin doc.engine,
               Blame("engine_profile", {"engine"}))>>)
-----------------------------------------------------------------------------
(* What is composed.                                                       *)

\* Mutant of RunName: meta.name as it is, also for a sweep.
RunNameShared(s) == "meta.name"

\* meta.name, for a run of a sweep followed by the sensor file's stem.
RunName(s) == IF IsSweep THEN Library[s].stem ELSE "meta.name"

\* Mutant of Sources: an overridden engine path comes from the profile.
SourcesOfProfile(s) ==
  [m \in (DOMAIN Owner \cap UNION {Members(k) : k \in ToSet(Layers)}) \cup doc.overrides |->
     IF m = "sensor" THEN s
     ELSE IF m \in doc.overrides THEN "engine_profile" ELSE Owner[m]]

\* The layer each composed member came from; the sensor's is its own file.
Sources(s) ==
  [m \in (DOMAIN Owner \cap UNION {Members(k) : k \in ToSet(Layers)}) \cup doc.overrides |->
     IF m = "sensor" THEN s
     ELSE IF m \in doc.overrides THEN "recipe" ELSE Owner[m]]

Composed(s) ==
  [sensor |-> s, settings |-> bySensor[s], sources |-> Sources(s),
   fidelity |-> IF s \in doc.bySensor THEN "own" ELSE "shared"]

PassthroughRun ==
  [sensor |-> "none", settings |-> << >>, fidelity |-> "shared",
   sources |-> [m \in {"meta", "fidelity", "engine.passthrough", "origin", "engine"}
                        \cup (doc.profile \cap {"resources"}) |->
                  IF m \in {"meta", "fidelity", "engine.passthrough"}
                  THEN "recipe" ELSE "engine_profile"]]
-----------------------------------------------------------------------------
RecipeInit ==
  /\ doc \in Documents
  /\ step = "start"
  /\ error = NoError
  /\ bySensor = << >>
  /\ left = << >>
  /\ runs = << >>

\* One of the errors is raised, or the composition goes on at `next`.
RaiseOr(errors, next) ==
  IF errors = {} THEN step' = next /\ UNCHANGED error
  ELSE step' = "done" /\ error' \in errors

CheckAt(label, errors, next) ==
  /\ step = label
  /\ RaiseOr(errors, next)
  /\ UNCHANGED <<doc, bySensor, left, runs>>

ReadSensorList   == "passthrough" \notin doc.recipe /\ CheckAt("start", SensorListErrors, "layers")
LoadLayers       == CheckAt("layers", LayerErrors, "sensors")
LoadSensors      == CheckAt("sensors", SensorErrors, "settings")
ApplyEngineRules == CheckAt("engine", EngineErrors, "fidelity")

SplitSettings ==
  /\ step = "settings"
  /\ RaiseOr(SettingsErrors, "engine")
  /\ bySensor' = IF SettingsErrors = {} THEN [s \in Sensors |-> SettingsOf(s)] ELSE bySensor
  /\ UNCHANGED <<doc, left, runs>>

CheckFidelity ==
  /\ step = "fidelity"
  /\ RaiseOr(FidelityErrors, "merge")
  /\ left' = IF FidelityErrors = {} THEN doc.sensors ELSE left
  /\ UNCHANGED <<doc, bySensor, runs>>

\* runs with run under `name`, instead of one that has it.
AddRun(name, run) == [n \in DOMAIN runs \cup {name} |-> IF n = name THEN run ELSE runs[n]]

\* The spec of the next sensor, put under its name.
MergeRun ==
  /\ step = "merge" /\ left # << >>
  /\ LET s == Head(left)
     IN /\ RaiseOr(MergeErrors(s), "merge")
        /\ runs' = IF MergeErrors(s) = {} THEN AddRun(RunName(s), Composed(s)) ELSE runs
  /\ left' = Tail(left)
  /\ UNCHANGED <<doc, bySensor>>

Finish ==
  /\ step = "merge" /\ left = << >>
  /\ step' = "done"
  /\ UNCHANGED <<doc, error, bySensor, left, runs>>

ComposePassthrough ==
  /\ step = "start" /\ "passthrough" \in doc.recipe
  /\ RaiseOr(PassthroughErrors, "done")
  /\ runs' = IF PassthroughErrors = {} THEN AddRun("meta.name", PassthroughRun) ELSE runs
  /\ UNCHANGED <<doc, bySensor, left>>

RecipeNext ==
  \/ ReadSensorList \/ LoadLayers \/ LoadSensors \/ SplitSettings
  \/ ApplyEngineRules \/ CheckFidelity \/ MergeRun \/ Finish
  \/ ComposePassthrough

RecipeSpec == RecipeInit /\ [][RecipeNext]_recipeVars
-----------------------------------------------------------------------------
Succeeded == step = "done" /\ error = NoError

\* The rules of the module docstring, as conditions on the documents.
LegalLayered ==
  /\ Cardinality({"sensor", "sensors"} \cap doc.recipe) = 1
  /\ Len(doc.sensors) \in 1 .. MaxRuns
  /\ Cardinality(Sensors) = Len(doc.sensors)
  /\ Sensors \subseteq DOMAIN Library
  /\ \A s \in Sensors : IsInjective(Entries(s))
  /\ \A e \in (UNION {ToSet(Entries(s)) : s \in Sensors}) \cup ToSet(doc.settings) :
       Cardinality({s \in Sensors : e \in ToSet(Entries(s))}) = 1
  /\ \A i, j \in DOMAIN doc.settings : doc.settings[i] = doc.settings[j] => i = j
  /\ \A s \in Sensors : ToSet(Entries(s)) \cap ToSet(doc.settings) # {}
  /\ doc.absent = {}
  /\ doc.recipe \subseteq
       {"meta", "settings", "fidelity", "sensor", "compose", "scenario", "engine_profile",
        "engine_overrides", "sensors", "fidelity_by_sensor"}
  /\ {"compose", "meta", "scenario", "engine_profile", "settings"} \subseteq doc.recipe
  /\ "fidelity" \in doc.recipe \/ Sensors \subseteq doc.bySensor
  /\ doc.bySensor \subseteq Sensors
  /\ doc.scenario = {"collection"}
  /\ {"origin", "engine"} \subseteq doc.profile
  /\ doc.profile \subseteq {"origin", "engine", "extras", "resources"}
  /\ doc.overrides \subseteq EngineOverrides \cap doc.parents
  /\ doc.rules /\ doc.named /\ ~doc.refused /\ doc.badRoi \cap ToSet(doc.settings) = {}

LegalPassthrough ==
  /\ doc.recipe = PassthroughRecipe
  /\ "engine_profile" \notin doc.absent
  /\ doc.profile \ {"resources"} = {"origin", "engine"}
  /\ doc.engine \in {{"generator"}, {"generator", "run"}}
  /\ doc.rules /\ doc.named /\ doc.block

\* compose.py, "Rules": a recipe composes exactly when the stated rules hold,
\* whatever the order in which they are checked.
ComposesIffLegal ==
  step = "done" =>
    (Succeeded <=> IF "passthrough" \in doc.recipe THEN LegalPassthrough ELSE LegalLayered)

\* The key of e is one its author wrote in that file, or one that is required
\* there and missing, or the file itself is.
NamesItsLayer(e) ==
  LET written == CASE e.layer = "recipe" -> doc.recipe
                   [] e.layer = "scenario" -> doc.scenario
                   [] e.layer = "engine_profile" -> doc.profile
  IN \/ e.field \in written
     \/ e.field \in Required[e.layer] \cup PassthroughRecipe
     \/ e.field = "file" /\ e.layer \in doc.absent

\* "Errors name the layer file and the field in it".
ErrorNamesItsLayer == error # NoError => NamesItsLayer(error)

\* Each settings member is used in exactly one run, that of the sensor whose
\* entry it names, and a run's members are in its sensor's entry order.
SettingsPlacedOnce ==
  Succeeded /\ "passthrough" \notin doc.recipe =>
    /\ \A e \in ToSet(doc.settings) :
         Cardinality({n \in DOMAIN runs : e \in ToSet(runs[n].settings)}) = 1
    /\ \A n \in DOMAIN runs :
         LET entries == Entries(runs[n].sensor)
             at(i) == CHOOSE j \in DOMAIN entries : entries[j] = runs[n].settings[i]
         IN \A i, j \in DOMAIN runs[n].settings : i < j => at(i) < at(j)

\* compose.py: "a sweep: one run per listed sensor".
OneRunPerSensor ==
  Succeeded /\ "passthrough" \notin doc.recipe =>
    \A s \in Sensors : \E n \in DOMAIN runs : runs[n].sensor = s

\* compose.py, explain: "Each member ... with the layer file it came from":
\* the layer of each member holds the member (or sets its engine path), and
\* no other layer does.
SourceHoldsMember ==
  Succeeded => \A n \in DOMAIN runs : \A m \in DOMAIN runs[n].sources :
    LET layer == runs[n].sources[m]
        holds(k) == CASE k = "recipe" -> m \in doc.recipe \cup doc.overrides
                                              \/ (m = "fidelity" /\ doc.bySensor # {})
                                              \/ (m = "engine.passthrough" /\ doc.block)
                      [] k = "scenario" -> "scenario" \in doc.recipe /\ m \in doc.scenario
                      [] k = "engine_profile" -> m \in doc.profile
    IN IF m = "sensor" THEN layer \in Sensors
       ELSE \A k \in ToSet(Layers) : holds(k) <=> k = layer
=============================================================================
