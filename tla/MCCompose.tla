----------------------------- MODULE MCCompose ------------------------------
(* Instances of Compose for TLC: a sensor library whose files share an entry *)
(* or repeat one, one with two files of one stem, and the recipes that      *)
(* differ from a good one in the sensors and settings they list and in up   *)
(* to two other places.                                                     *)
EXTENDS Compose

Sensor(stem, entries) == [stem |-> stem, entries |-> entries]
SomeSensors == "a.yaml" :> Sensor("a", <<"a1", "a2">>) @@ "b.yaml" :> Sensor("b", <<"b1">>)
               @@ "c.yaml" :> Sensor("c", <<"b1", "c1">>) @@ "d.yaml" :> Sensor("d", <<"d1", "d1">>)
\* b.yaml again in a folder of its own, for another instrument.
SameStem == "a.yaml" :> Sensor("a", <<"a1", "a2">>) @@ "b.yaml" :> Sensor("b", <<"b1">>)
            @@ "x/b.yaml" :> Sensor("b", <<"x1">>)

Good == [recipe |-> {"compose", "meta", "sensors", "scenario", "engine_profile", "settings", "fidelity"},
         scenario |-> {"collection"}, profile |-> {"origin", "engine"},
         sensors |-> <<"a.yaml", "b.yaml">>, settings |-> <<"b1", "a2", "a1">>,
         bySensor |-> {}, overrides |-> {}, parents |-> {"platform.channel_response"},
         absent |-> {}, badRoi |-> {}, engine |-> {"generator"},
         rules |-> TRUE, named |-> TRUE, refused |-> FALSE, block |-> TRUE]

\* What the recipe lists.
Lists(names, members) ==
  {[Good EXCEPT !.sensors = s, !.settings = e] :
     s \in SeqOf(names, 3) \ {<< >>}, e \in SeqOf(members, 3)}

\* One key more or less in one of the layers, another form of the sensors,
\* another engine path, another value.
Variants(d) ==
  {d}
  \cup {[d EXCEPT !.recipe = @ \cup {k}] : k \in {"sensor", "extras", "collection", "resources", "other"}}
  \cup {[d EXCEPT !.recipe = @ \ {k}] :
          k \in {"compose", "meta", "sensors", "scenario", "engine_profile", "settings", "fidelity"}}
  \cup {[d EXCEPT !.recipe = (@ \ {"sensors"}) \cup {"sensor"}, !.sensors = <<Head(@)>>]}
  \cup {[d EXCEPT !.scenario = @ \cup {k}] : k \in {"meta", "extras", "engine", "resources", "compose"}}
  \cup {[d EXCEPT !.scenario = {}]}
  \cup {[d EXCEPT !.profile = @ \cup {k}] : k \in {"fidelity", "extras", "resources", "collection", "other"}}
  \cup {[d EXCEPT !.profile = @ \ {"origin"}], [d EXCEPT !.absent = {"scenario"}],
        [d EXCEPT !.absent = {"engine_profile"}], [d EXCEPT !.badRoi = {"a1"}],
        [d EXCEPT !.rules = FALSE], [d EXCEPT !.named = FALSE], [d EXCEPT !.refused = TRUE]}
  \cup {[d EXCEPT !.recipe = @ \cup {"fidelity_by_sensor"}, !.bySensor = s] :
          s \in {{"a.yaml"}, {"a.yaml", "b.yaml"}, {"c.yaml"}}}
  \cup {[d EXCEPT !.recipe = (@ \ {"fidelity"}) \cup {"fidelity_by_sensor"}, !.bySensor = s] :
          s \in {{"a.yaml"}, {"a.yaml", "b.yaml"}}}
  \cup {[d EXCEPT !.recipe = @ \cup {"engine_overrides"}, !.overrides = o, !.parents = p] :
          o \in {{"platform.channel_response"}, {"run.seed"}}, p \in {{}, {"platform.channel_response"}}}

Passthrough == [Good EXCEPT !.recipe = PassthroughRecipe, !.sensors = << >>, !.settings = << >>]
PassthroughVariants(d) ==
  {d, [d EXCEPT !.block = FALSE], [d EXCEPT !.engine = {"run"}],
   [d EXCEPT !.engine = {"generator", "run"}], [d EXCEPT !.engine = {"generator", "scenes"}],
   [d EXCEPT !.profile = @ \cup {"resources"}], [d EXCEPT !.profile = @ \cup {"extras"}],
   [d EXCEPT !.profile = @ \ {"origin"}], [d EXCEPT !.absent = {"engine_profile"}],
   [d EXCEPT !.rules = FALSE], [d EXCEPT !.named = FALSE],
   [d EXCEPT !.recipe = @ \cup {"settings"}], [d EXCEPT !.recipe = @ \ {"fidelity"}]}

\* `sensor` names one sensor file.
OneIfSensor(d) == "sensors" \in d.recipe \/ Len(d.sensors) = IF "sensor" \in d.recipe THEN 1 ELSE 0

\* No sensor named, and one whose file repeats an entry.
Others == {[Good EXCEPT !.recipe = @ \ {"sensors"}, !.sensors = << >>],
           [Good EXCEPT !.sensors = <<"d.yaml">>, !.settings = <<"d1">>]}

SomeDocuments ==
  {d \in Lists({"a.yaml", "b.yaml", "c.yaml", "none.yaml"}, {"a1", "a2", "b1", "c1"})
            \cup UNION {Variants(d) : d \in Variants(Good)}
            \cup Others
            \cup UNION {PassthroughVariants(d) : d \in PassthroughVariants(Passthrough)} :
     OneIfSensor(d)}

SameStemDocuments == Lists(DOMAIN SameStem, {"a1", "b1", "x1"})
=============================================================================
