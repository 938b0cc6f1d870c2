----------------------------- MODULE ServerSetup -----------------------------
(***************************************************************************)
(* From a configuration file to a node that maps: the YAML file becomes a  *)
(* tree of parameters (config_conversions.cc), each section's parameters   *)
(* become configs (config_base_inl.h, type_selector_inl.h,                 *)
(* value_with_unit_inl.h), the factories make components of the configs,   *)
(* and the constructor of RosServer puts them together (ros_server.cc).    *)
(* A program that uses the library without ROS builds its pipeline with    *)
(* the same factories, except for the operations (pipeline.cc).            *)
(*                                                                         *)
(* A YAML node is one of [scalar], [seq], [map], [null]; a param::Value is *)
(* a record whose only field is the alternative of the variant that it     *)
(* holds.  Numbers are in thousandths.  An optional is a set of at most    *)
(* one element.                                                            *)
(***************************************************************************)
EXTENDS Integers, Sequences, FiniteSets, SequencesExt

CONSTANTS File,       \* the configuration files (YAML nodes)
          MaxNesting, \* bound on their depth
          Host,       \* programs: "server" (RosServer) and "library"
          AsBool, AsInt, AsDouble   \* what yaml-cpp reads a scalar's text as

Optional(condition, value) == IF condition THEN {value} ELSE {}
Only(S) == CHOOSE x \in S : TRUE

\* A record with more fields.
Extend(record, more) ==
  [field \in DOMAIN record \cup DOMAIN more |->
     IF field \in DOMAIN record THEN record[field] ELSE more[field]]

-----------------------------------------------------------------------------
(* YAML to parameters *)

ScalarValue(text) ==
  IF text \in DOMAIN AsBool THEN [bool |-> AsBool[text]]
  ELSE IF text \in DOMAIN AsInt THEN [int |-> AsInt[text]]
  ELSE IF text \in DOMAIN AsDouble THEN [float |-> AsDouble[text]]
  ELSE [string |-> text]

\* The nodes in a file.
PartsOf(n) == UNION {{n[t][key] : key \in DOMAIN n[t]} : t \in {"seq", "map"} \cap DOMAIN n}
YamlNode ==
  LET within[depth \in 0..MaxNesting] ==
        IF depth = 0 THEN File
        ELSE within[depth - 1] \cup UNION {PartsOf(n) : n \in within[depth - 1]}
  IN  within[MaxNesting]

ParamValue[n \in YamlNode] ==
  IF "scalar" \in DOMAIN n THEN ScalarValue(n.scalar)
  ELSE IF "seq" \in DOMAIN n THEN [array |-> [i \in DOMAIN n.seq |-> ParamValue[n.seq[i]]]]
  ELSE IF "map" \in DOMAIN n THEN [map |-> [key \in DOMAIN n.map |-> ParamValue[n.map[key]]]]
  ELSE [array |-> <<>>]

\* A file that cannot be read or parsed counts as an empty map.
Params(document) ==
  IF "map" \in DOMAIN document THEN ParamValue[document].map ELSE [k \in {} |-> k]

Holds(param, type) == type \in DOMAIN param
Child(param, key) ==
  UNION {Optional(key \in DOMAIN param.map, param.map[key]) :
           t \in {"map"} \cap DOMAIN param}

-----------------------------------------------------------------------------
(* Types that are read from parameters *)

\* The name of a type: a string, or the entry "type" of a map.
TypeStr(param) ==
  IF Holds(param, "string") THEN {param.string}
  ELSE {t.string : t \in {c \in Child(param, "type") : Holds(c, "string")}}

TypeFrom(names, param) == TypeStr(param) \cap names

UnitToSi ==
  [meters |-> <<"meters", 1000>>, m |-> <<"meters", 1000>>,
   centimeters |-> <<"meters", 10>>, millimeters |-> <<"meters", 1>>,
   seconds |-> <<"seconds", 1000>>, s |-> <<"seconds", 1000>>,
   radians |-> <<"radians", 1000>>, degrees |-> <<"radians", 17>>]

\* A value with a unit is a map with one entry, the unit.
UnitOf(dimension, param) ==
  IF Holds(param, "map") /\ Cardinality(DOMAIN param.map) = 1
  THEN {u \in DOMAIN param.map \cap DOMAIN UnitToSi : UnitToSi[u][1] = dimension}
  ELSE {}

Float(param) ==
  IF Holds(param, "int") THEN {1000 * param.int}
  ELSE {param[t] : t \in {"float"} \cap DOMAIN param}

ValueWithUnit(dimension, param) ==
  UNION {{(UnitToSi[u][2] * n) \div 1000 : n \in Float(param.map[u])} :
           u \in UnitOf(dimension, param)}

\* One name or a list, in which what is not a string is skipped.
StringList(param) ==
  IF Holds(param, "string") THEN {<<param.string>>}
  ELSE {[i \in DOMAIN names |-> names[i].string] :
          names \in {SelectSeq(param[t], LAMBDA p : Holds(p, "string")) :
                       t \in {"array"} \cap DOMAIN param}}

-----------------------------------------------------------------------------
(* Configs.  A class is the types and defaults of its members; the members  *)
(* kept here are those that its isValid() checks.                           *)

Member(type, default) == [type |-> type, default |-> default]
Throttled(default) == [once_every |-> Member("seconds", default)]
Ranges == [min_range |-> Member("meters", 500), max_range |-> Member("meters", 20000)]
Projective == Extend(Ranges, [max_update_resolution |-> Member("meters", 0),
                              termination_update_error |-> Member("float", 100)])
Cells == [min_cell_width |-> Member("meters", 100), min_log_odds |-> Member("float", -2000),
          max_log_odds |-> Member("float", 4000)]
Octree(height) == Extend(Cells, [tree_height |-> Member("int", height)])
Publisher(topic, period) == Extend(Throttled(period), [topic |-> Member("string", topic)])
Input == [topic_name |-> Member("string", ""),
          topic_queue_length |-> Member("int", 10),
          measurement_integrator_names |-> Member("strings", <<>>),
          processing_retry_period |-> Member("seconds", 50),
          max_wait_for_pose |-> Member("seconds", 1000)]

MapClass ==
  [hashed_blocks |-> Cells,
   octree |-> Octree(14), wavelet_octree |-> Octree(14),
   hashed_wavelet_octree |-> Octree(6), hashed_chunked_wavelet_octree |-> Octree(6)]

IntegratorClass ==
  [ray_tracing_integrator |-> Ranges, fixed_resolution_integrator |-> Projective,
   coarse_to_fine_integrator |-> Projective, wavelet_integrator |-> Projective,
   hashed_wavelet_integrator |-> Projective, hashed_chunked_wavelet_integrator |-> Projective]

NoAxis == [num_cells |-> 0, min_angle |-> 0, max_angle |-> 0]
Axes == [elevation |-> Member("axis", NoAxis), azimuth |-> Member("axis", NoAxis)]

ProjectorClass ==
  [spherical_projector |-> Axes, ouster_projector |-> Axes,
   pinhole_camera_projector |-> [width |-> Member("int", 0), height |-> Member("int", 0),
                                 fx |-> Member("float", 0), fy |-> Member("float", 0)]]

Ray == [range_sigma |-> Member("meters", 0), scaling_free |-> Member("float", 500),
        scaling_occupied |-> Member("float", 500)]

\* There is no class for "constant_ray", the third name of a type.
ModelClass ==
  [continuous_ray |-> Ray,
   continuous_beam |-> Extend(Ray, [angle_sigma |-> Member("radians", 0)])]

InputClass ==
  [pointcloud |-> Input,
   depth_image |-> Extend(Input, [depth_scale_factor |-> Member("int", 1)])]

MapOperationClass == [threshold_map |-> Throttled(2000), prune_map |-> Throttled(10000)]

MapRosOperationClass ==
  [publish_map |->
     Extend(Publisher("map", 2000), [max_num_blocks_per_msg |-> Member("int", 1000)]),
   publish_pointcloud |-> Publisher("obstacle_pointcloud", 1000),
   crop_map |-> Extend(Throttled(10000),
     [radius |-> Member("float", 0), body_frame |-> Member("string", "body")])]

\* A config within a config: one axis of a projector.
Axis == [num_cells |-> Member("int", 0), min_angle |-> Member("radians", 0),
         max_angle |-> Member("radians", 0)]

\* What a parameter gives a member of a type; nothing if it does not fit.
LoadedPlain(type, param) ==
  IF type \in {"meters", "seconds", "radians"} THEN ValueWithUnit(type, param)
  ELSE IF type = "strings" THEN StringList(param)
  ELSE IF type = "float" THEN Float(param)
  ELSE {param[t] : t \in {type} \cap DOMAIN param}

\* Members that are absent or do not fit keep their default; a parameter that
\* is not a member is ignored.
Value(member, loaded) == IF loaded = {} THEN member.default ELSE Only(loaded)

\* The only configs within configs are axes.
AxisFrom(param) ==
  Optional(Holds(param, "map"),
           [m \in DOMAIN Axis |->
              Value(Axis[m], UNION {LoadedPlain(Axis[m].type, c) : c \in Child(param, m)})])

Loaded(type, param) == IF type = "axis" THEN AxisFrom(param) ELSE LoadedPlain(type, param)

\* ConfigBase::from
From(class, param) ==
  Optional(Holds(param, "map"),
           [m \in DOMAIN class |->
              Value(class[m], UNION {Loaded(class[m].type, c) : c \in Child(param, m)})])

Pi == 3141
isAxisValid(axis) ==
  /\ axis.num_cells > 1
  /\ -Pi <= axis.min_angle /\ axis.min_angle < axis.max_angle /\ axis.max_angle <= Pi

kMaxSupportedTreeHeight == 9

isValid(type, config) ==
  \A m \in DOMAIN config :
    CASE m \in {"topic", "topic_name", "body_frame"} -> config[m] # ""
      [] m = "measurement_integrator_names" -> config[m] # <<>>
      [] m \in {"elevation", "azimuth"} -> isAxisValid(config[m])
      [] m \in {"min_log_odds", "max_log_odds"} -> config.min_log_odds < config.max_log_odds
      [] m = "max_range" -> config[m] > 0 /\ config.min_range < config[m]
      [] m = "max_update_resolution" -> config[m] >= 0
      [] m = "tree_height" ->
           /\ config[m] > 0
           /\ type = "hashed_chunked_wavelet_octree" => config[m] <= kMaxSupportedTreeHeight
      [] OTHER -> config[m] > 0

-----------------------------------------------------------------------------
(* Factories.  The outcome of making a component is the component, or none  *)
(* (nullptr), or the end of the process, in checkValid().                   *)

None == [outcome |-> "none"]
Aborts == [outcome |-> "abort"]

Construct(type, config) ==
  IF isValid(type, config) THEN [outcome |-> "made", type |-> type, config |-> config]
  ELSE Aborts

\* params is a section's parameters, if there are any.
Make(classes, params) ==
  LET types == UNION {TypeFrom(DOMAIN classes, p) : p \in params}
      configs == UNION {UNION {From(classes[t], p) : p \in params} : t \in types}
  IN  IF configs = {} THEN None ELSE Construct(Only(types), Only(configs))

\* The map that an integrator is cast to; the others take any map.
NeedsMap ==
  [coarse_to_fine_integrator |-> "octree", wavelet_integrator |-> "wavelet_octree",
   hashed_wavelet_integrator |-> "hashed_wavelet_octree",
   hashed_chunked_wavelet_integrator |-> "hashed_chunked_wavelet_octree"]

\* Mutant: the cast of the map is not checked.
FitsAny(type, map) == TRUE

Fits(type, map) == type \in DOMAIN NeedsMap => map.type = NeedsMap[type]

\* Without a type or a config nothing is made; then the projector and the
\* measurement model must be, and the map must fit, and only then is the
\* integrator's own config checked.
CreateIntegrator(param, map) ==
  LET method == Child(param, "integration_method")
      types == UNION {TypeFrom(DOMAIN IntegratorClass, p) : p \in method}
      integrator == Make(IntegratorClass, method)
      projector == Make(ProjectorClass, Child(param, "projection_model"))
      model == Make(ModelClass, Child(param, "measurement_model"))
  IN  IF types = {} \/ integrator = None THEN None
      ELSE IF Only(types) = "ray_tracing_integrator" THEN integrator
      ELSE IF projector.outcome # "made" THEN projector
      ELSE IF model.outcome # "made" THEN model
      ELSE IF ~Fits(Only(types), map) THEN None
      ELSE IF integrator = Aborts THEN Aborts
      ELSE Extend(integrator, [projector |-> projector, model |-> model])

-----------------------------------------------------------------------------
(* The construction, one section of the file after the other *)

VARIABLES yaml,     \* the file that is being read
          host,     \* the program that reads it
          section,  \* the section to read next, or how the construction ended
          pending,     \* the entries of the section that are left
          node      \* what has been constructed

setupVars == <<yaml, host, section, pending, node>>

EmptyNode == [num_threads |-> -1, world_frame |-> "odom", map |-> None, integrators |-> <<>>,
              inputs |-> <<>>, operations |-> <<>>, services |-> FALSE]

SetupInit == /\ yaml \in File
             /\ host \in Host
             /\ section = "general"
             /\ pending = <<>>
             /\ node = EmptyNode

params == Params(yaml)
Section(key) == {params[k] : k \in {key} \cap DOMAIN params}
List(key) ==
  IF \E p \in Section(key) : Holds(p, "array") THEN Only(Section(key)).array ELSE <<>>

Enter(next, entries) == section' = next /\ pending' = entries
End(how) == Enter(how, <<>>)

\* Without a config_file parameter the constructor returns: the node spins,
\* but does nothing.
NoConfigFile ==
  /\ section = "general" /\ yaml = [null |-> "config_file"]
  /\ End("idle")
  /\ UNCHANGED <<yaml, host, node>>

ChildAs(type, key, default) ==
  LET found == {c[type] : c \in {d \in UNION {Child(g, key) : g \in Section("general")} :
                                   Holds(d, type)}}
  IN  IF found = {} THEN default ELSE Only(found)

ReadGeneral ==
  /\ section = "general" /\ yaml # [null |-> "config_file"]
  /\ node' = [node EXCEPT !.num_threads = ChildAs("int", "num_threads", @),
                          !.world_frame = ChildAs("string", "world_frame", @)]
  /\ Enter("map", <<>>)
  /\ UNCHANGED <<yaml, host>>

\* Without a map the constructor returns, and nothing else is set up.
CreateMap ==
  /\ section = "map"
  /\ LET map == Make(MapClass, Section("map"))
     IN  IF map = Aborts THEN End("aborted") /\ UNCHANGED node
         ELSE IF map = None THEN End("idle") /\ UNCHANGED node
         ELSE /\ node' = [node EXCEPT !.map = map]
              /\ Enter("integrators",
                       SetToSeq(UNION {DOMAIN p.map : p \in
                         {q \in Section("measurement_integrators") : Holds(q, "map")}}))
  /\ UNCHANGED <<yaml, host>>

\* One entry of a list: what cannot be made is left out.
Entry(key, component) ==
  /\ section = key /\ pending # <<>>
  /\ IF component = Aborts THEN End("aborted") /\ UNCHANGED node
     ELSE /\ Enter(key, Tail(pending))
          /\ node' = IF component = None THEN node
                     ELSE [node EXCEPT ![key] = Append(@, component)]
  /\ UNCHANGED <<yaml, host>>

AddIntegrator ==
  /\ section = "integrators" /\ pending # <<>>
  /\ LET name == Head(pending)
         made == CreateIntegrator(Only(Section("measurement_integrators")).map[name], node.map)
     IN  Entry("integrators", IF made = None \/ made = Aborts THEN made
                              ELSE Extend(made, [name |-> name]))

AddInput ==
  /\ section = "inputs" /\ pending # <<>>
  /\ Entry("inputs", Make(InputClass, {Head(pending)}))

\* The server knows the operations of ROS, the library those of the library.
OperationClass == IF host = "server" THEN MapRosOperationClass ELSE MapOperationClass

AddOperation ==
  /\ section = "operations" /\ pending # <<>>
  /\ Entry("operations", Make(OperationClass, {Head(pending)}))

NextSection ==
  /\ pending = <<>>
  /\ \/ /\ section = "integrators"
        /\ Enter("inputs", IF host = "server" THEN List("inputs") ELSE <<>>)
        /\ UNCHANGED node
     \/ /\ section = "inputs"
        /\ Enter("operations", List("map_operations"))
        /\ UNCHANGED node
     \/ /\ section = "operations"
        /\ End("running")
        /\ node' = [node EXCEPT !.services = host = "server"]
  /\ UNCHANGED <<yaml, host>>

SetupNext == NoConfigFile \/ ReadGeneral \/ CreateMap \/ AddIntegrator \/ AddInput
             \/ AddOperation \/ NextSection

SetupSpec == SetupInit /\ [][SetupNext]_setupVars

-----------------------------------------------------------------------------
(* Properties *)

Added == {node.integrators[i] : i \in DOMAIN node.integrators}
         \cup {node.inputs[i] : i \in DOMAIN node.inputs}
         \cup {node.operations[i] : i \in DOMAIN node.operations}

\* With the parts that a component was made with.
WithParts(c) == {c} \cup {c[p] : p \in {"projector", "model"} \cap DOMAIN c}

Components == (IF node.map = None THEN {} ELSE {node.map}) \cup UNION {WithParts(c) : c \in Added}

(***************************************************************************)
(* Whatever is missing, misspelt, of a wrong type or in a wrong unit in    *)
(* the file, and whatever is left out for it: a node that runs has a map;  *)
(* each integrator that is cast to a kind of map has a map of that kind;   *)
(* the map, every integrator with its projector and measurement model,     *)
(* every input and operation has a config that its isValid() accepts; and  *)
(* a node that has no map has nothing that would use one.                  *)
(***************************************************************************)
RunningNodeIsSound ==
  /\ section = "running" => node.map # None
  /\ node.map = None => Added = {} /\ ~node.services
  /\ \A c \in Components : isValid(c.type, c.config)
  /\ \A i \in DOMAIN node.integrators :
       LET type == node.integrators[i].type
       IN  type \in DOMAIN NeedsMap => node.map.type = NeedsMap[type]

(***************************************************************************)
(* What the documentation of the parameters says of inputs and of          *)
(* map_operations: an entry with one of the documented types becomes an    *)
(* input, or an operation, of the server that runs.                        *)
(***************************************************************************)
DocumentedTypes ==
  {"pointcloud_topic", "depth_image_topic", "threshold_map", "prune_map", "publish_map",
   "publish_pointcloud", "crop_map"}

DocumentedEntries(key) ==
  {i \in DOMAIN List(key) : TypeStr(List(key)[i]) \cap DocumentedTypes # {}}

DocumentedEntriesAreAdded ==
  (section = "running" /\ host = "server") =>
     /\ Cardinality(DocumentedEntries("inputs")) <= Len(node.inputs)
     /\ Cardinality(DocumentedEntries("map_operations")) <= Len(node.operations)

=============================================================================
