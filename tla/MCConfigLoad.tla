---------------------------- MODULE MCConfigLoad ----------------------------
(* Files and settings to check ConfigLoad with. *)
EXTENDS ConfigLoad, Functions, TLC

MCPresets == {"LongFast"}
MCPortNumNames == {"RANGE_TEST_APP", "TEXT_MESSAGE_APP"}
MCNames == {"LongFast", "Private", "RANGE_TEST_APP", "TEXT_MESSAGE_APP"}

Mapping(keys) == [at |-> "mapping", keys |-> [k \in DOMAIN keys |-> keys[k]]]
NoMapping == {[at |-> a, keys |-> <<>>] :
                a \in {"missing", "unreadable", "not_yaml", "not_mapping"}}
Raising == {[at |-> a, keys |-> <<>>] : a \in {"hidden", "undecodable"}}

(* Both filters on, with every pair of channel lists, and the same keys with one of
   them left out, off, or wrong. *)
Null == <<"null", None>>
Quoted == <<"str", "false">>
Inherited == <<"str", INHERIT_ZEROHOP_CHANNELS>>
Channels == {Null, <<"list", {}>>, <<"list", {"Private"}>>}
On == [zerohop_enabled |-> <<"bool", TRUE>>, zerohop_channels |-> <<"list", {"Private"}>>,
       drop_enabled |-> <<"bool", TRUE>>, drop_channels |-> Inherited,
       drop_portnums |-> <<"list", {"RANGE_TEST_APP"}>>]
Variants == [zerohop_enabled : {<<"bool", FALSE>>, Quoted}, drop_enabled : {<<"bool", FALSE>>},
             zerohop_channels : {<<"list", {"Private", NotString}>>},
             drop_channels : {Quoted, <<"bool", FALSE>>},
             drop_portnums : {Null, <<"list", {NotString}>>}]
FilterFiles ==
  {Mapping([On EXCEPT !.zerohop_channels = z, !.drop_channels = d]) :
     z \in Channels, d \in Channels \cup {Inherited}}
    \cup {Mapping([On EXCEPT ![k] = v[k]]) : k \in DOMAIN On, v \in Variants}
    \cup {Mapping(Restrict(On, DOMAIN On \ {k})) : k \in DOMAIN On}

(* The other keys, one wrong at a time, and files with many faults. *)
Wrong == [grpc_port |-> <<"bool", TRUE>>, health_port |-> <<"int", 65536>>,
          grpc_max_workers |-> <<"int", 0>>, stats_interval_s |-> <<"str", "60">>,
          log_level |-> <<"str", "LOUD">>, log_format |-> <<"int", 1>>,
          topic_filter |-> <<"str", "">>, stats_log |-> Quoted,
          zerohop_channels |-> Quoted, drop_channels |-> <<"list", {NotString}>>,
          drop_portnums |-> <<"list", {"RANGETEST"}>>]
Right == [grpc_port |-> <<"int", 65535>>, grpc_max_workers |-> <<"int", 1>>,
          log_level |-> <<"str", "info">>, log_format |-> <<"str", "JSON">>,
          drop_enabled |-> <<"bool", TRUE>>, drop_portnums |-> <<"list", {"RANGE_TEST_APP"}>>]
BadKeys == (NotString :> Null) @@ ("channel_policy" :> Null) @@ ("zerohop_channel" :> Null)

MappingFiles ==
  {Mapping(k :> Wrong[k]) : k \in DOMAIN Wrong}
    \cup {Mapping(k :> Null) : k \in DOMAIN BadKeys}
    \cup {Mapping(<<>>), Mapping(Right), Mapping(Wrong), Mapping(BadKeys @@ Wrong)}

Setting(path, env, format) == [config |-> path, FLOODGATE_CONFIG |-> env,
                               FLOODGATE_LOG_FORMAT |-> format, verbose |-> FALSE]
DockerSettings == {Setting(None, "config.yaml", None)}
AllSettings ==
  {Setting(p, "config.yaml", l) : p \in {None, ""}, l \in {None, "JSON", "xml"}}
    \cup {Setting(None, None, None), [Setting("config.yaml", "", "") EXCEPT !.verbose = TRUE]}

TextFiles == MappingFiles \cup {f \in Raising : f.at = "undecodable"}
AnyFile == NoMapping \cup Raising \cup MappingFiles \cup FilterFiles
=============================================================================
