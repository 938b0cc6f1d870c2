------------------------------- MODULE MCSetup -------------------------------
(***************************************************************************)
(* Configuration files of the kind that the repository ships, and what     *)
(* users get wrong: absent sections, numbers without a unit or with one of *)
(* another dimension, names that YAML reads as truth values, integrators   *)
(* for another map, types that do not exist, values out of range.          *)
(***************************************************************************)
EXTENDS ServerSetup

S(text) == [scalar |-> text]
M(map) == [map |-> map]
L(list) == [seq |-> list]
InUnit(unit, text) == M(unit :> S(text))

Bools == "off" :> FALSE
Ints == "0" :> 0 @@ "2" :> 2 @@ "9" :> 9 @@ "32" :> 32 @@ "512" :> 512
Doubles == "0.02" :> 20 @@ "0.1" :> 100 @@ "1.0" :> 1000 @@ "2.0" :> 2000
           @@ "10.0" :> 10000 @@ "15.0" :> 15000 @@ "-7.0" :> -7000 @@ "52.0" :> 52000
           @@ "-180.0" :> -180000 @@ "180.0" :> 180000
Programs == {"server", "library"}

Map(type, more) == M([type |-> S(type)] @@ more)
Maps == {Map(t, [min_cell_width |-> w]) :
           t \in {"hashed_wavelet_octree", "hashed_chunked_wavelet_octree"},
           w \in {InUnit("meters", "0.02"), InUnit("seconds", "2")}}
        \cup {S("octree"), L(<<>>), Map("octomap", <<>>), Map("wavelet_octree", <<>>),
              Map("octree", [min_log_odds |-> S("9")]),
              Map("hashed_chunked_wavelet_octree", [tree_height |-> S("32")])}

Integration(type) == M([type |-> S(type), max_range |-> InUnit("m", "9")])
Pinhole(fy) == M([type |-> S("pinhole_camera_projector"), width |-> S("9"),
                  height |-> S("9"), fx |-> S("9"), fy |-> S(fy)])
Model(type, scaling) ==
  M([type |-> S(type), range_sigma |-> InUnit("m", "0.02"),
     angle_sigma |-> InUnit("degrees", "9"), scaling_free |-> S(scaling)])
Camera(integration, fy, model) ==
  M([camera |-> M([integration_method |-> integration, projection_model |-> Pinhole(fy),
                   measurement_model |-> model])])

Beam == Model("continuous_beam", "0.1")
Integrators ==
  {Camera(Integration(t), "9", Beam) :
     t \in {"coarse_to_fine_integrator", "wavelet_integrator", "hashed_wavelet_integrator",
            "hashed_chunked_wavelet_integrator"}}
  \cup {Camera(Integration("fixed_resolution_integrator"), fy, m) :
          fy \in {"9", "0"}, m \in {Beam, Model("constant_ray", "2")}}
  \cup {Camera(M([type |-> S("wavelet_integrator"), max_update_resolution |-> InUnit("m", "-7.0")]),
               "9", Model("continuous_ray", "0.1")),
        Camera(Integration("fixed_resolution_integrator"), "9", Model("continuous_ray", "0")),
        M([rays |-> M([integration_method |-> S("ray_tracing_integrator")]),
           tracer |-> M([integration_method |-> Integration("ray_tracing_integrator")])]),
        L(<<>>)}

TopicInput(type, names) ==
  M([type |-> S(type), topic_name |-> S("points"), measurement_integrator_names |-> names])
Inputs == {L(<<TopicInput("pointcloud", S("camera")),
               TopicInput("depth_image", L(<<S("camera"), S("off")>>))>>),
           L(<<TopicInput("pointcloud_topic", S("camera")), TopicInput("pointcloud", S("off"))>>),
           L(<<M([topic_name |-> S("points")])>>)}

Operation(type, period) == M([type |-> S(type), once_every |-> period])
Operations == {L(<<Operation("threshold_map", InUnit("seconds", "2")),
                   Operation("prune_map", InUnit("seconds", "9")),
                   Operation("publish_map", S("2"))>>),
               L(<<Operation("publish_pointcloud", InUnit("seconds", "0"))>>),
               L(<<S("publish_map"),
                   M([type |-> S("crop_map"), radius |-> S("15.0")])>>),
               L(<<M([type |-> S("crop_map"), radius |-> InUnit("meters", "15.0")])>>)}

General == M([num_threads |-> S("2"), world_frame |-> S("off")])

\* What wavemap_livox_mid360.yaml says, with a wider angle_sigma.
DegreesAxis(cells, from, to) ==
  M([num_cells |-> S(cells), min_angle |-> InUnit("degrees", from),
     max_angle |-> InUnit("degrees", to)])
Mid360 ==
  M([projection_model |-> M([type |-> S("spherical_projector"),
                             elevation |-> DegreesAxis("32", "-7.0", "52.0"),
                             azimuth |-> DegreesAxis("512", "-180.0", "180.0")]),
     measurement_model |-> M([type |-> S("continuous_beam"),
                              angle_sigma |-> InUnit("degrees", "1.0"),
                              range_sigma |-> InUnit("meters", "0.1")]),
     integration_method |-> M([type |-> S("hashed_chunked_wavelet_integrator"),
                               max_range |-> InUnit("meters", "15.0")])])
ShippedFile ==
  M([general |-> M([world_frame |-> S("odom")]),
     map |-> M([type |-> S("hashed_chunked_wavelet_octree"),
                min_cell_width |-> InUnit("meters", "0.1")]),
     map_operations |-> L(<<Operation("threshold_map", InUnit("seconds", "2.0")),
                            Operation("prune_map", InUnit("seconds", "10.0")),
                            Operation("publish_map", InUnit("seconds", "2.0"))>>),
     measurement_integrators |-> M([livox_mid360 |-> Mid360]),
     inputs |-> L(<<M([type |-> S("pointcloud_topic"), topic_name |-> S("/livox/lidar"),
                       topic_type |-> S("livox"), topic_queue_length |-> S("9"),
                       measurement_integrator_names |-> S("livox_mid360"),
                       max_wait_for_pose |-> InUnit("seconds", "1.0")])>>)])
ShippedFiles == {ShippedFile}

Files == {M([general |-> General, map |-> m, measurement_integrators |-> i,
             inputs |-> p, map_operations |-> o]) :
            m \in Maps, i \in Integrators, p \in Inputs, o \in Operations}
         \cup {M([map |-> m]) : m \in Maps} \cup ShippedFiles
         \cup {[null |-> "config_file"], [null |-> "unreadable"]}
=============================================================================
