-------------------------- MODULE ConfigLoadProofs --------------------------
(* What floodgate runs on is what was written, for every file, setting and edit. *)
EXTENDS ConfigLoad, TLAPS

Loading == {"locate", "open", "validate"}
GoodFile(f) == \A k \in DOMAIN f.keys : IsValue(f.keys[k])
Sources == IF NamesFile(settings) THEN held ELSE {BuiltIn}

(* A load that reached the validation carries a merge of a file the path led to. *)
Merged(c, f) == /\ f.at = "mapping" /\ DOMAIN f.keys \subseteq Keys
                /\ DOMAIN c = Keys /\ \A k \in Keys : c[k] = Written(f, k)

IInv == /\ TypeOK
        /\ GoodFile(file)
        /\ pc \in Loading => file \in held
        /\ pc \in {"locate", "open"} => NamesFile(settings)
        /\ pc \in {"locate", "open"} => config = DEFAULT_CONFIG
        /\ pc = "validate" => \E f \in Sources : Merged(config, f)
        /\ FiltersAsWritten
        /\ RefusalExplained

(* The defaults are values of the right types. *)
LEMMA DefaultsAreValues == /\ DOMAIN DEFAULT_CONFIG = Keys
                           /\ \A k \in Keys : IsValue(DEFAULT_CONFIG[k])
<1>1. DOMAIN DEFAULT_CONFIG = Keys  BY DEF Keys
<1>3. /\ \A b \in BOOLEAN : IsValue(<<"bool", b>>)
      /\ \A n \in Int : IsValue(<<"int", n>>)
      /\ \A x : IsValue(<<"str", x>>)
      /\ \A S \in SUBSET STRING : S # None => IsValue(<<"list", S>>)
  BY DEF IsValue, Types
<1>4. ASSUME NEW k \in Keys PROVE IsValue(DEFAULT_CONFIG[k])
  <2>a. DEFAULT_CONFIG["zerohop_enabled"] = <<"bool", TRUE>>  BY DEF DEFAULT_CONFIG
  <2>b. DEFAULT_CONFIG["stats_log"] = <<"bool", TRUE>>        BY DEF DEFAULT_CONFIG
  <2>c. DEFAULT_CONFIG["drop_enabled"] = <<"bool", FALSE>>    BY DEF DEFAULT_CONFIG
  <2>2. CASE k \in {"zerohop_enabled", "drop_enabled", "stats_log"}
    BY <2>a, <2>b, <2>c, <2>2, <1>3
  <2>3. CASE k \in {"grpc_port", "grpc_max_workers", "health_port", "stats_interval_s"}
    BY <2>3, <1>3 DEF DEFAULT_CONFIG
  <2>4. CASE k \in {"zerohop_channels", "drop_portnums"}
    BY <2>4, <1>3, ConfigAssumption DEF DEFAULT_CONFIG
  <2>5. CASE k \in {"drop_channels", "topic_filter", "log_level", "log_format"}
    BY <2>5, <1>3 DEF DEFAULT_CONFIG, INHERIT_ZEROHOP_CHANNELS
  <2> QED BY <2>2, <2>3, <2>4, <2>5 DEF Keys, DEFAULT_CONFIG
<1> QED BY <1>1, <1>4

(* Merging a mapping of values over the defaults leaves values. *)
LEMMA WrittenIsValue ==
  ASSUME NEW f, GoodFile(f), NEW k \in Keys PROVE IsValue(Written(f, k))
BY DefaultsAreValues DEF GoodFile, Written

(* A configuration that passed the validation holds what PacketPolicy expects. *)
LEMMA LoadedTypes ==
  ASSUME NEW c, NEW s, DOMAIN c = Keys, \A k \in Keys : IsValue(c[k]),
         validate_values(c, s) = {}
  PROVE  /\ \A k \in Keys \ {"log_format"} : value_ok(k, c[k])
         /\ DOMAIN loaded(c, s) = Keys
         /\ loaded(c, s).zerohop_enabled = c.zerohop_enabled[2]
         /\ loaded(c, s).drop_enabled = c.drop_enabled[2]
         /\ loaded(c, s).zerohop_channels = string_set(c.zerohop_channels)
         /\ loaded(c, s).drop_portnums = string_set(c.drop_portnums)
         /\ loaded(c, s).drop_channels =
              resolve_drop_channels(c.drop_channels, string_set(c.zerohop_channels))
<1>1. ASSUME NEW k \in Keys \ {"log_format", "drop_channels"} PROVE value_ok(k, c[k])
  BY <1>1 DEF validate_values
<1>2. {"zerohop_channels", "drop_channels", "zerohop_enabled", "drop_enabled", "drop_portnums"}
        \subseteq Keys
  BY DEF Keys, DEFAULT_CONFIG
<1>3. value_ok("drop_channels", c.drop_channels)
  <2>1. value_ok("zerohop_channels", c.zerohop_channels)  BY <1>1, <1>2
  <2>2. "drop_channels" \notin validate_values(c, s)  OBVIOUS
  <2> QED BY <2>1, <2>2 DEF validate_values
<1>4. \A k \in Keys \ {"log_format"} : value_ok(k, c[k])
  BY <1>1, <1>3
<1> QED BY <1>2, <1>4 DEF loaded

(* What PacketPolicy decides by a loaded configuration is what was written. *)
LEMMA LoadedAsWritten ==
  ASSUME NEW c, NEW s, NEW f, GoodFile(f), Merged(c, f), validate_values(c, s) = {},
         NEW ch, NEW p \in Names \cup {None}
  PROVE  /\ should_zerohop(loaded(c, s), ch) <=> WrittenZerohop(f, ch)
         /\ should_drop(loaded(c, s), ch, p) <=> WrittenDrop(f, ch, p)
<1>1. /\ DOMAIN c = Keys
      /\ \A k \in Keys : IsValue(c[k])
      /\ \A k \in Keys : c[k] = Written(f, k)
  BY WrittenIsValue DEF Merged
<1>2. {"zerohop_channels", "drop_channels", "zerohop_enabled", "drop_enabled", "drop_portnums"}
        \subseteq Keys \ {"log_format"}
  BY DEF Keys, DEFAULT_CONFIG
<1>3. /\ c.zerohop_enabled[1] = "bool" /\ c.drop_enabled[1] = "bool"
      /\ string_list_ok(c.zerohop_channels) /\ string_list_ok(c.drop_portnums)
      /\ \/ c.drop_channels[1] = "str"
         \/ c.drop_channels[1] # "str" /\ string_list_ok(c.drop_channels)
  <2>1. \A k \in Keys \ {"log_format"} : value_ok(k, c[k])
    BY <1>1, LoadedTypes
  <2>2. value_ok("zerohop_enabled", c.zerohop_enabled)  BY <1>2, <2>1
  <2>3. value_ok("drop_enabled", c.drop_enabled)  BY <1>2, <2>1
  <2>4. value_ok("zerohop_channels", c.zerohop_channels)  BY <1>2, <2>1
  <2>5. value_ok("drop_portnums", c.drop_portnums)  BY <1>2, <2>1
  <2>6. value_ok("drop_channels", c.drop_channels)  BY <1>2, <2>1
  <2>7. c.zerohop_enabled[1] = "bool"  BY <2>2 DEF value_ok
  <2>8. c.drop_enabled[1] = "bool"  BY <2>3 DEF value_ok
  <2>9. string_list_ok(c.zerohop_channels)  BY <2>4 DEF value_ok
  <2>10. string_list_ok(c.drop_portnums)  BY <2>5 DEF value_ok
  <2>11. \/ c.drop_channels[1] = "str"
         \/ c.drop_channels[1] # "str" /\ string_list_ok(c.drop_channels)
    BY <2>6 DEF value_ok
  <2> QED BY <2>7, <2>8, <2>9, <2>10, <2>11
<1>4. /\ c.zerohop_enabled = Written(f, "zerohop_enabled")
      /\ c.drop_enabled = Written(f, "drop_enabled")
      /\ c.zerohop_channels = Written(f, "zerohop_channels")
      /\ c.drop_channels = Written(f, "drop_channels")
      /\ c.drop_portnums = Written(f, "drop_portnums")
  BY <1>1, <1>2
<1>5. \A v, x : string_list_ok(v) => (x \in string_set(v) <=> Lists(v, x))
  BY DEF string_list_ok, string_set, Lists
<1>6. c.zerohop_enabled[2] \in BOOLEAN /\ c.drop_enabled[2] \in BOOLEAN
  BY <1>1, <1>2, <1>3 DEF IsValue
<1>7. should_zerohop(loaded(c, s), ch) <=> WrittenZerohop(f, ch)
  BY <1>1, <1>3, <1>4, <1>5, <1>6, LoadedTypes DEF should_zerohop, WrittenZerohop, IsTrue
<1>8. should_drop(loaded(c, s), ch, p) <=> WrittenDrop(f, ch, p)
  <2> DEFINE scope == Written(f, "drop_channels")
             zerohop_set == string_set(c.zerohop_channels)
             resolved == resolve_drop_channels(scope, zerohop_set)
             scoped == \/ scope[1] = "null" \/ (scope[1] = "list" /\ scope[2] = {})
                       \/ scope[1] = "str" /\ Lists(Written(f, "zerohop_channels"), ch)
                       \/ Lists(scope, ch)
  <2>1. string_set(c.drop_portnums) \subseteq STRING
    BY <1>1, <1>2, <1>3 DEF string_list_ok, string_set, IsValue
  <2>2. zerohop_set # None
    BY <1>1, <1>2, <1>3, ConfigAssumption DEF string_list_ok, string_set, IsValue
  <2>3. Lists(Written(f, "drop_portnums"), p) <=> p # None /\ p \in string_set(c.drop_portnums)
    BY <1>3, <1>4, <1>5, <2>1, PolicyAssumption
  <2>4. scoped <=> resolved = None \/ ch \in resolved
    <3>1. CASE scope[1] = "str"
      <4>1. resolved = zerohop_set  BY <3>1 DEF resolve_drop_channels
      <4> QED BY <3>1, <4>1, <2>2, <1>3, <1>4, <1>5 DEF Lists
    <3>2. CASE scope[1] = "null"
      BY <3>2 DEF resolve_drop_channels
    <3>3. CASE scope[1] = "list" /\ scope[2] = {}
      BY <3>3 DEF resolve_drop_channels
    <3>4. CASE scope[1] = "list" /\ scope[2] # {}
      <4>1. resolved = scope[2]  BY <3>4 DEF resolve_drop_channels
      <4> QED BY <3>4, <4>1, <1>1, <1>2, <1>4 DEF Lists, IsValue
    <3>5. scope[1] \in {"str", "null", "list"}
      BY <1>3, <1>4 DEF string_list_ok
    <3> HIDE DEF scope, resolved, scoped
    <3> QED BY <3>1, <3>2, <3>3, <3>4, <3>5
  <2> QED BY <1>1, <1>3, <1>4, <1>6, <2>3, <2>4, LoadedTypes DEF should_drop, WrittenDrop, IsTrue
<1> QED BY <1>7, <1>8

(* A loaded configuration is one PacketPolicy can decide by. *)
LEMMA LoadedWellTyped ==
  ASSUME NEW c, NEW s, DOMAIN c = Keys, \A k \in Keys : IsValue(c[k]),
         validate_values(c, s) = {}, NEW r, r = loaded(c, s)
  PROVE  /\ DOMAIN r = Keys
         /\ {r.zerohop_enabled, r.drop_enabled} \subseteq BOOLEAN
         /\ r.zerohop_channels \subseteq STRING /\ r.drop_portnums \subseteq PortNumNames
         /\ r.drop_channels = None \/ r.drop_channels \subseteq STRING
<1>1. {"zerohop_channels", "drop_channels", "zerohop_enabled", "drop_enabled", "drop_portnums"}
        \subseteq Keys \ {"log_format"}
  BY DEF Keys, DEFAULT_CONFIG
<1>2. \A k \in Keys \ {"log_format"} : value_ok(k, c[k])
  BY LoadedTypes
<1>3. value_ok("zerohop_enabled", c.zerohop_enabled)    BY <1>1, <1>2
<1>4. value_ok("drop_enabled", c.drop_enabled)          BY <1>1, <1>2
<1>5. value_ok("zerohop_channels", c.zerohop_channels)  BY <1>1, <1>2
<1>6. value_ok("drop_portnums", c.drop_portnums)        BY <1>1, <1>2
<1>7. value_ok("drop_channels", c.drop_channels)        BY <1>1, <1>2
<1>8. \A v : IsValue(v) /\ string_list_ok(v) => string_set(v) \subseteq STRING
  BY DEF IsValue, string_list_ok, string_set
<1>9. c.zerohop_enabled[1] = "bool"  BY <1>3 DEF value_ok
<1>10. c.drop_enabled[1] = "bool"  BY <1>4 DEF value_ok
<1>11. r.zerohop_enabled \in BOOLEAN /\ r.drop_enabled \in BOOLEAN
  BY <1>1, <1>9, <1>10, LoadedTypes DEF IsValue
<1>12. string_list_ok(c.zerohop_channels)  BY <1>5 DEF value_ok
<1>13. string_set(c.drop_portnums) \subseteq PortNumNames  BY <1>6 DEF value_ok
<1>14. c.drop_channels[1] = "str" \/ string_list_ok(c.drop_channels)  BY <1>7 DEF value_ok
<1>15. r.zerohop_channels \subseteq STRING
  BY <1>1, <1>8, <1>12, LoadedTypes
<1>16. r.drop_channels = None \/ r.drop_channels \subseteq STRING
  <2>1. r.drop_channels = resolve_drop_channels(c.drop_channels, r.zerohop_channels)
    BY LoadedTypes
  <2>2. IsValue(c.drop_channels)  BY <1>1
  <2> QED BY <2>1, <2>2, <1>14, <1>15
        DEF resolve_drop_channels, string_list_ok, IsValue
<1> QED BY <1>11, <1>13, <1>15, <1>16, LoadedTypes

(* The problems a validation finds are problems of the file that was merged. *)
LEMMA FoundIsReal ==
  ASSUME NEW c, NEW s, NEW f, Merged(c, f)
  PROVE  validate_values(c, s) \subseteq Problems(f, s)
<1>1. /\ f.at = "mapping"
      /\ \A k \in Keys : c[k] = Written(f, k)
  BY DEF Merged
<1>2. "log_format" \in Keys /\ "drop_channels" \in Keys
  BY DEF Keys, DEFAULT_CONFIG
<1>3. validate_values(c, s) \subseteq ValueProblems(f, s)
  BY <1>1, <1>2 DEF validate_values, ValueProblems, log_format
<1> QED BY <1>1, <1>3 DEF Problems

(* The keys that are refused are keys of the file, and none that floodgate knows. *)
LEMMA BadKeysAreReal ==
  ASSUME NEW f, f.at = "mapping", NEW s
  PROVE  /\ reject_bad_keys(DOMAIN f.keys) \subseteq Problems(f, s)
         /\ NotString \in DOMAIN f.keys => {NotString} \subseteq Problems(f, s)
<1>1. REMOVED_KEYS \cap Keys = {}
  BY DEF Keys, DEFAULT_CONFIG, REMOVED_KEYS
<1> QED BY <1>1, ConfigAssumption DEF reject_bad_keys, Problems

LEMMA InvInit == Init => IInv
BY ConfigAssumption, DefaultsAreValues
   DEF Init, IInv, TypeOK, Loading, GoodFile, FiltersAsWritten, RefusalExplained

LEMMA InvNext == IInv /\ [Next]_vars => IInv'
<1> SUFFICES ASSUME IInv, [Next]_vars PROVE IInv'
  OBVIOUS
<1> USE DEF Loading
<1>1. CASE Start
  <2>1. TypeOK'
    BY <1>1, DefaultsAreValues DEF IInv, TypeOK, Start
  <2>2. pc' = "validate" => \E f \in Sources' : Merged(config', f)
    <3>1. Merged(DEFAULT_CONFIG, BuiltIn)
      <4>1. DOMAIN BuiltIn.keys = {}  BY DEF BuiltIn
      <4> QED BY <4>1, DefaultsAreValues DEF Merged, BuiltIn, Written
    <3> QED BY <1>1, <3>1 DEF Start, Sources, NamesFile, config_path
  <2> QED BY <1>1, <2>1, <2>2
        DEF IInv, Start, FiltersAsWritten, RefusalExplained, NamesFile, config_path
<1>2. CASE Locate
  <2>1. file \in held /\ NamesFile(settings)  BY <1>2 DEF IInv, Locate
  <2>2. TypeOK'
    BY <1>2 DEF IInv, TypeOK, Locate, Refuse, Fail
  <2>3. RefusalExplained'
    BY <1>2, <2>1 DEF Locate, Refuse, Fail, RefusalExplained, Problems, NamesFile, config_path
  <2> QED BY <1>2, <2>1, <2>2, <2>3
        DEF IInv, Locate, Refuse, Fail, FiltersAsWritten, NamesFile, config_path
<1>3. CASE Read
  <2>1. /\ file \in held /\ NamesFile(settings) /\ GoodFile(file)
        /\ UNCHANGED <<file, settings, held>>
    BY <1>3 DEF IInv, Read
  <2>2. CASE file.at = "mapping" /\ pc' = "validate"
    <3>1. /\ NotString \notin DOMAIN file.keys /\ reject_bad_keys(DOMAIN file.keys) = {}
          /\ config' = [k \in Keys \cup DOMAIN file.keys |->
                          IF k \in DOMAIN file.keys THEN file.keys[k] ELSE DEFAULT_CONFIG[k]]
      BY <1>3, <2>2 DEF Read, Merge, Refuse, Fail
    <3>2. DOMAIN file.keys \subseteq Keys
      BY <3>1 DEF reject_bad_keys
    <3>3. Merged(config', file)
      BY <2>2, <3>1, <3>2 DEF Merged, Written
    <3>4. TypeOK'
      BY <1>3, <2>1, <2>2, <3>3, WrittenIsValue DEF IInv, TypeOK, Read, Merged
    <3> QED BY <1>3, <2>1, <2>2, <3>3, <3>4
          DEF IInv, Read, FiltersAsWritten, RefusalExplained, Sources, NamesFile, config_path
  <2>3. CASE ~(file.at = "mapping" /\ pc' = "validate")
    <3>1. pc' \in {"refused", "failed"} /\ UNCHANGED config
      BY <1>3, <2>3 DEF Read, Merge, Refuse, Fail
    <3>2. pc' = "refused" => reported' # {} /\ reported' \subseteq Problems(file, settings)
      <4>1. CASE file.at = "mapping"
        BY <1>3, <2>3, <4>1, BadKeysAreReal DEF Read, Merge, Refuse
      <4>2. CASE file.at # "mapping"
        BY <1>3, <4>2 DEF Read, Refuse, Fail, Problems
      <4> QED BY <4>1, <4>2
    <3>3. TypeOK'
      BY <1>3, <3>1 DEF IInv, TypeOK, Read
    <3> QED BY <1>3, <2>1, <3>1, <3>2, <3>3
          DEF IInv, FiltersAsWritten, RefusalExplained, NamesFile, config_path
  <2> QED BY <2>2, <2>3
<1>4. CASE Validate
  <2>1. PICK f \in Sources : Merged(config, f)
    BY <1>4 DEF IInv, Validate
  <2>2. DOMAIN config = Keys /\ \A k \in Keys : IsValue(config[k])
    BY <1>4 DEF IInv, TypeOK, Validate
  <2>3. CASE validate_values(config, settings) # {}
    <3>1. RefusalExplained'
      BY <1>4, <2>1, <2>3, FoundIsReal
         DEF Validate, Refuse, RefusalExplained, Sources, NamesFile, config_path
    <3>2. TypeOK'
      BY <1>4, <2>3 DEF IInv, TypeOK, Validate, Refuse
    <3> QED BY <1>4, <2>3, <3>1, <3>2 DEF IInv, Validate, Refuse, FiltersAsWritten
  <2>4. CASE validate_values(config, settings) = {}
    <3>1. /\ pc' = "running" /\ config' = loaded(config, settings)
          /\ UNCHANGED <<file, settings, held, rounds, edits, reported>>
      BY <1>4, <2>4 DEF Validate
    <3>2. TypeOK'
      BY <2>2, <2>4, <3>1, LoadedWellTyped DEF IInv, TypeOK
    <3>3. GoodFile(f)
      BY <2>1, <2>2 DEF Merged, GoodFile, Written
    <3>4. FiltersAsWritten'
      BY <2>1, <2>4, <3>1, <3>3, LoadedAsWritten
         DEF FiltersAsWritten, Sources, NamesFile, config_path, Merged
    <3> QED BY <3>1, <3>2, <3>4 DEF IInv, RefusalExplained
  <2> QED BY <2>3, <2>4
<1>5. CASE Restart
  BY <1>5 DEF IInv, Restart, TypeOK, FiltersAsWritten, RefusalExplained
<1>6. CASE Repair
  <2>1. GoodFile(file')
    BY <1>6 DEF IInv, Repair, GoodFile
  <2> QED BY <1>6, <2>1 DEF IInv, Repair, TypeOK, FiltersAsWritten, RefusalExplained
<1>7. CASE Edit
  <2>1. GoodFile(file')
    BY <1>7, ConfigAssumption DEF Edit, GoodFile
  <2>2. held \subseteq held' /\ (pc \in Loading => file' \in held')
    BY <1>7 DEF Edit
  <2>3. TypeOK'
    BY <1>7, ConfigAssumption DEF IInv, TypeOK, Edit
  <2>4. FiltersAsWritten' /\ RefusalExplained'
    BY <1>7, <2>2
       DEF IInv, Edit, FiltersAsWritten, RefusalExplained, NamesFile, config_path
  <2> QED BY <1>7, <2>1, <2>2, <2>3, <2>4 DEF IInv, Edit, Sources, NamesFile, config_path
<1>8. CASE UNCHANGED vars
  BY <1>8 DEF IInv, vars, TypeOK, FiltersAsWritten, RefusalExplained, Sources, NamesFile, config_path
<1> QED BY <1>1, <1>2, <1>3, <1>4, <1>5, <1>6, <1>7, <1>8 DEF Next, Steps

LEMMA InvHolds == Spec => []IInv
BY InvInit, InvNext, PTL DEF Spec

(* load_config returns a configuration PacketPolicy can decide by, for any file. *)
THEOREM ConfigTypeCorrect == Spec => []TypeOK
BY InvHolds, PTL DEF IInv

(* Whatever is in the file and however it is edited meanwhile, a running floodgate
   filters as one version of it says. *)
THEOREM RunsAsWritten == Spec => []FiltersAsWritten
BY InvHolds, PTL DEF IInv

(* A refusal names problems the file really had. *)
THEOREM RefusalsAreReal == Spec => []RefusalExplained
BY InvHolds, PTL DEF IInv

-----------------------------------------------------------------------------
(* How many refusals an operator can meet.  Found is what the validation finds in a
   mapping whose keys are all known; Clear says that nothing hides in it behind another
   value or behind the environment. *)
Config(f) == [k \in Keys |-> Written(f, k)]
Found(f, s) == validate_values(Config(f), s)
Clear(f, s) == /\ value_ok("zerohop_channels", Written(f, "zerohop_channels"))
               /\ env_format(s) => value_ok("log_format", <<"str", s.FLOODGATE_LOG_FORMAT>>)

(* The refusals that are left, at most: one for keys that are no strings, one for removed
   and unknown keys, one for the values found first and one for those they hid. *)
Rank(f, s) == IF ~NamesFile(s) THEN (IF Clear(BuiltIn, s) THEN 0 ELSE 1)
              ELSE IF f.at # "mapping" THEN 1
              ELSE IF NotString \in DOMAIN f.keys THEN 4
              ELSE IF reject_bad_keys(DOMAIN f.keys) # {} THEN 3
              ELSE IF ~Clear(f, s) THEN 2
              ELSE IF Found(f, s) # {} THEN 1
              ELSE 0

(* What Repair makes of file and settings, given what was reported. *)
Without(f, P) == [f EXCEPT !.keys = [k \in DOMAIN @ \ P |-> @[k]]]
Unset(s, P) == IF "FLOODGATE_LOG_FORMAT" \in P
               THEN [s EXCEPT !.FLOODGATE_LOG_FORMAT = None] ELSE s

(* The refusal that reports P, and those that may follow its repair. *)
Ahead(f, s, P) == 1 + (IF f.at = "mapping" THEN Rank(Without(f, P), Unset(s, P)) ELSE 0)

RoundsLeft ==
  LET bound == 4 * (edits + 1)
  IN  /\ rounds + Rank(file, settings) <= bound
      /\ pc = "refused" => rounds + Ahead(file, settings, reported) <= bound
      /\ pc = "validate" /\ validate_values(config, settings) # {} =>
           rounds + Ahead(file, settings, validate_values(config, settings)) <= bound

SettingsOK(s) == {"config", "FLOODGATE_CONFIG", "FLOODGATE_LOG_FORMAT"} \subseteq DOMAIN s
RoundsInv == /\ IInv
             /\ DOMAIN file = {"at", "keys"} /\ SettingsOK(settings)
             /\ RoundsLeft

LEMMA RankRange == ASSUME NEW f, NEW s PROVE Rank(f, s) \in 0..4
BY DEF Rank

(* The defaults pass the validation. *)
LEMMA DefaultsAreOk == \A k \in Keys : value_ok(k, DEFAULT_CONFIG[k])
<1>1. /\ value_ok("zerohop_enabled", <<"bool", TRUE>>)
      /\ value_ok("drop_enabled", <<"bool", FALSE>>)
      /\ value_ok("stats_log", <<"bool", TRUE>>)
  <2>1. value_ok("zerohop_enabled", <<"bool", TRUE>>)  BY DEF value_ok
  <2>2. value_ok("drop_enabled", <<"bool", FALSE>>)    BY DEF value_ok
  <2>3. value_ok("stats_log", <<"bool", TRUE>>)        BY DEF value_ok
  <2> QED BY <2>1, <2>2, <2>3
<1>2. /\ value_ok("grpc_port", <<"int", 9000>>)
      /\ value_ok("health_port", <<"int", 8080>>)
      /\ value_ok("grpc_max_workers", <<"int", 16>>)
      /\ value_ok("stats_interval_s", <<"int", 60>>)
  <2>1. value_ok("grpc_port", <<"int", 9000>>)         BY DEF value_ok, int_ok
  <2>2. value_ok("health_port", <<"int", 8080>>)       BY DEF value_ok, int_ok
  <2>3. value_ok("grpc_max_workers", <<"int", 16>>)    BY DEF value_ok, int_ok
  <2>4. value_ok("stats_interval_s", <<"int", 60>>)    BY DEF value_ok, int_ok
  <2> QED BY <2>1, <2>2, <2>3, <2>4
<1>3. value_ok("zerohop_channels", <<"list", Presets>>)
  BY ConfigAssumption DEF value_ok, string_list_ok
<1>4. value_ok("drop_portnums", <<"list", {}>>)
  BY DEF value_ok, string_list_ok, string_set
<1>5. value_ok("drop_channels", <<"str", INHERIT_ZEROHOP_CHANNELS>>)
  BY DEF value_ok
<1>6. value_ok("topic_filter", <<"str", "msh/#">>)
  BY DEF value_ok
<1>7. value_ok("log_level", <<"str", "INFO">>)
  <2>1. Fold(Uppercase, "INFO") = "INFO"
    BY DEF Fold, Uppercase
  <2> QED BY <2>1 DEF value_ok
<1>8. value_ok("log_format", <<"str", "text">>)
  <2>1. Fold(Lowercase, "text") = "text"
    BY DEF Fold, Lowercase
  <2> QED BY <2>1 DEF value_ok
<1>9. ASSUME NEW k \in Keys PROVE value_ok(k, DEFAULT_CONFIG[k])
  <2>1. CASE k \in {"zerohop_enabled", "drop_enabled", "stats_log"}
    <3>1. DEFAULT_CONFIG["zerohop_enabled"] = <<"bool", TRUE>>  BY DEF DEFAULT_CONFIG
    <3>2. DEFAULT_CONFIG["drop_enabled"] = <<"bool", FALSE>>    BY DEF DEFAULT_CONFIG
    <3>3. DEFAULT_CONFIG["stats_log"] = <<"bool", TRUE>>        BY DEF DEFAULT_CONFIG
    <3> QED BY <1>1, <2>1, <3>1, <3>2, <3>3, Zenon
  <2>2. CASE k \in {"grpc_port", "health_port", "grpc_max_workers", "stats_interval_s"}
    BY <1>2, <2>2 DEF DEFAULT_CONFIG
  <2>3. CASE k = "zerohop_channels"
    BY <1>3, <2>3 DEF DEFAULT_CONFIG
  <2>4. CASE k = "drop_portnums"
    BY <1>4, <2>4 DEF DEFAULT_CONFIG
  <2>5. CASE k = "drop_channels"
    BY <1>5, <2>5 DEF DEFAULT_CONFIG
  <2>6. CASE k = "topic_filter"
    BY <1>6, <2>6 DEF DEFAULT_CONFIG
  <2>7. CASE k = "log_level"
    BY <1>7, <2>7 DEF DEFAULT_CONFIG
  <2>8. CASE k = "log_format"
    BY <1>8, <2>8 DEF DEFAULT_CONFIG
  <2> QED BY <2>1, <2>2, <2>3, <2>4, <2>5, <2>6, <2>7, <2>8 DEF Keys, DEFAULT_CONFIG
<1> QED BY <1>9

(* A repair removes lines, and the variable if it was named; nothing else changes. *)
LEMMA RepairedFile ==
  ASSUME NEW f, DOMAIN f = {"at", "keys"}, NEW P
  PROVE  /\ DOMAIN Without(f, P) = {"at", "keys"}
         /\ Without(f, P).at = f.at
         /\ DOMAIN Without(f, P).keys = DOMAIN f.keys \ P
         /\ \A k \in Keys : Written(Without(f, P), k) = IF k \in P THEN DEFAULT_CONFIG[k]
                                                                  ELSE Written(f, k)
BY DEF Without, Written

LEMMA RepairedSettings ==
  ASSUME NEW s, SettingsOK(s), NEW P
  PROVE  /\ SettingsOK(Unset(s, P)) /\ NamesFile(Unset(s, P)) = NamesFile(s)
         /\ "FLOODGATE_LOG_FORMAT" \in P => ~env_format(Unset(s, P))
         /\ "FLOODGATE_LOG_FORMAT" \notin P => Unset(s, P) = s
BY DEF SettingsOK, Unset, NamesFile, config_path, env_format

(* The validation looks at every key by itself, but for the two that may be hidden. *)
LEMMA FoundKeys ==
  ASSUME NEW f, NEW s
  PROVE  /\ \A k \in Keys \ {"log_format", "drop_channels"} :
              k \in Found(f, s) <=> ~value_ok(k, Written(f, k))
         /\ "drop_channels" \in Found(f, s)
              <=> /\ value_ok("zerohop_channels", Written(f, "zerohop_channels"))
                  /\ ~value_ok("drop_channels", Written(f, "drop_channels"))
         /\ "FLOODGATE_LOG_FORMAT" \in Found(f, s)
              <=> env_format(s) /\ ~value_ok("log_format", <<"str", s.FLOODGATE_LOG_FORMAT>>)
         /\ "log_format" \in Found(f, s)
              <=> ~env_format(s) /\ ~value_ok("log_format", Written(f, "log_format"))
         /\ Found(f, s) \subseteq Keys \cup {"FLOODGATE_LOG_FORMAT"}
<1>1. /\ {"drop_channels", "zerohop_channels", "log_format"} \subseteq Keys
      /\ "FLOODGATE_LOG_FORMAT" \notin Keys
  BY DEF Keys, DEFAULT_CONFIG
<1>2. \A k \in Keys : Config(f)[k] = Written(f, k)
  BY DEF Config
<1>3. /\ Config(f).zerohop_channels = Written(f, "zerohop_channels")
      /\ Config(f).log_format = Written(f, "log_format")
  BY <1>1, <1>2
<1>4. log_format(Config(f), s) = IF env_format(s) THEN <<"str", s.FLOODGATE_LOG_FORMAT>>
                                                  ELSE Written(f, "log_format")
  BY <1>3 DEF log_format
<1> HIDE DEF Config
<1> QED BY <1>1, <1>2, <1>3, <1>4 DEF Found, validate_values

(* Repairing what was found leaves less to find. *)
LEMMA RepairedValues ==
  ASSUME NEW f, DOMAIN f = {"at", "keys"}, NEW s, SettingsOK(s), NamesFile(s),
         f.at = "mapping", DOMAIN f.keys \subseteq Keys, Found(f, s) # {}
  PROVE  Ahead(f, s, Found(f, s)) <= Rank(f, s)
<1> DEFINE P == Found(f, s)
           g == Without(f, P)
           t == Unset(s, P)
<1>1. "FLOODGATE_LOG_FORMAT" \notin Keys /\ REMOVED_KEYS \cap Keys = {}
      /\ {"drop_channels", "zerohop_channels", "log_format"} \subseteq Keys
  BY DEF Keys, DEFAULT_CONFIG, REMOVED_KEYS
<1>2. /\ g.at = "mapping" /\ DOMAIN g.keys \subseteq Keys
      /\ \A k \in Keys : Written(g, k) = IF k \in P THEN DEFAULT_CONFIG[k] ELSE Written(f, k)
  BY RepairedFile
<1>3. /\ NamesFile(t)
      /\ "FLOODGATE_LOG_FORMAT" \in P => ~env_format(t)
      /\ "FLOODGATE_LOG_FORMAT" \notin P => t = s
  BY RepairedSettings
<1>4. \A h : DOMAIN h.keys \subseteq Keys =>
               NotString \notin DOMAIN h.keys /\ reject_bad_keys(DOMAIN h.keys) = {}
  BY <1>1, ConfigAssumption DEF reject_bad_keys
<1>5. Clear(g, t)
  <2>1. value_ok("zerohop_channels", Written(g, "zerohop_channels"))
    BY <1>1, <1>2, FoundKeys, DefaultsAreOk
  <2>2. env_format(t) => value_ok("log_format", <<"str", t.FLOODGATE_LOG_FORMAT>>)
    BY <1>3, FoundKeys
  <2> QED BY <2>1, <2>2 DEF Clear
<1>6. Clear(f, s) => Found(g, t) = {}
  <2> SUFFICES ASSUME Clear(f, s) PROVE Found(g, t) = {}
    OBVIOUS
  <2>1. "FLOODGATE_LOG_FORMAT" \notin P /\ t = s
    BY <1>3, FoundKeys DEF Clear
  <2>2. \A k \in Keys \ {"log_format"} : value_ok(k, Written(g, k))
    BY <1>1, <1>2, FoundKeys, DefaultsAreOk DEF Clear
  <2>3. ~env_format(t) => value_ok("log_format", Written(g, "log_format"))
    BY <1>1, <1>2, <2>1, FoundKeys, DefaultsAreOk
  <2>4. "FLOODGATE_LOG_FORMAT" \notin Found(g, t)
    BY <1>5, FoundKeys DEF Clear
  <2>5. \A k \in Keys : k \notin Found(g, t)
    BY <1>1, <2>2, <2>3, FoundKeys
  <2> QED BY <2>4, <2>5, FoundKeys
<1>7. Rank(f, s) = IF ~Clear(f, s) THEN 2 ELSE 1
  BY <1>4 DEF Rank
<1>8. Rank(g, t) = IF Found(g, t) # {} THEN 1 ELSE 0
  BY <1>2, <1>3, <1>4, <1>5 DEF Rank
<1> HIDE DEF g, t, P
<1>9. Ahead(f, s, P) = 1 + Rank(g, t)
  BY DEF Ahead, g, t
<1> QED BY <1>6, <1>7, <1>8, <1>9 DEF P

(* A refusal of keys leaves fewer to come when they are gone. *)
LEMMA RepairedKeys ==
  ASSUME NEW f, DOMAIN f = {"at", "keys"}, NEW s, SettingsOK(s), NamesFile(s),
         f.at = "mapping"
  PROVE  /\ NotString \in DOMAIN f.keys => Ahead(f, s, {NotString}) <= Rank(f, s)
         /\ NotString \notin DOMAIN f.keys /\ reject_bad_keys(DOMAIN f.keys) # {}
              => Ahead(f, s, reject_bad_keys(DOMAIN f.keys)) <= Rank(f, s)
<1>1. ASSUME NotString \in DOMAIN f.keys PROVE Ahead(f, s, {NotString}) <= Rank(f, s)
  <2> DEFINE g == Without(f, {NotString})
             t == Unset(s, {NotString})
  <2>1. NamesFile(t) /\ g.at = "mapping" /\ NotString \notin DOMAIN g.keys
    BY RepairedFile, RepairedSettings
  <2>2. Rank(g, t) \in 0..3
    BY <2>1 DEF Rank
  <2>3. Rank(f, s) = 4
    BY <1>1 DEF Rank
  <2> HIDE DEF g, t
  <2>4. Ahead(f, s, {NotString}) = 1 + Rank(g, t)
    BY DEF Ahead, g, t
  <2> QED BY <2>2, <2>3, <2>4
<1>2. ASSUME NotString \notin DOMAIN f.keys, reject_bad_keys(DOMAIN f.keys) # {}
      PROVE  Ahead(f, s, reject_bad_keys(DOMAIN f.keys)) <= Rank(f, s)
  <2> DEFINE P == reject_bad_keys(DOMAIN f.keys)
             g == Without(f, P)
             t == Unset(s, P)
  <2>1. /\ NamesFile(t) /\ g.at = "mapping"
        /\ DOMAIN g.keys = DOMAIN f.keys \ P
    BY RepairedFile, RepairedSettings
  <2>2. NotString \notin DOMAIN g.keys /\ reject_bad_keys(DOMAIN g.keys) = {}
    BY <1>2, <2>1 DEF reject_bad_keys
  <2>3. Rank(g, t) \in 0..2
    BY <2>1, <2>2 DEF Rank
  <2>4. Rank(f, s) = 3
    BY <1>2 DEF Rank
  <2> HIDE DEF g, t
  <2>5. Ahead(f, s, P) = 1 + Rank(g, t)
    BY <2>1 DEF Ahead, g, t
  <2> QED BY <2>3, <2>4, <2>5
<1> QED BY <1>1, <1>2

(* A merge over the defaults is validated like the file that was merged. *)
LEMMA MergedFound ==
  ASSUME NEW c, NEW f, Merged(c, f), NEW s
  PROVE  validate_values(c, s) = Found(f, s)
<1>1. /\ \A k \in Keys : c[k] = Config(f)[k]
      /\ {"drop_channels", "zerohop_channels", "log_format"} \subseteq Keys
  BY DEF Merged, Config, Keys, DEFAULT_CONFIG
<1> HIDE DEF Config
<1> QED BY <1>1 DEF Found, validate_values, log_format

(* Without a file only the environment can be wrong, and is right once it is unset. *)
LEMMA RepairedEnvironment ==
  ASSUME NEW f, NEW s, SettingsOK(s), ~NamesFile(s),
         validate_values(DEFAULT_CONFIG, s) # {}
  PROVE  Ahead(f, s, validate_values(DEFAULT_CONFIG, s)) <= Rank(f, s)
<1> DEFINE P == validate_values(DEFAULT_CONFIG, s)
           t == Unset(s, P)
<1>1. /\ DOMAIN BuiltIn.keys = {} /\ \A k \in Keys : Written(BuiltIn, k) = DEFAULT_CONFIG[k]
  BY DEF BuiltIn, Written
<1>2. {"drop_channels", "zerohop_channels", "log_format"} \subseteq Keys
  BY DEF Keys, DEFAULT_CONFIG
<1>3. P = Found(BuiltIn, s)
  <2>1. Merged(DEFAULT_CONFIG, BuiltIn)
    BY <1>1, DefaultsAreValues DEF Merged, BuiltIn
  <2> QED BY <2>1, MergedFound
<1>4. "FLOODGATE_LOG_FORMAT" \in P
  <2>1. \A k \in Keys : value_ok(k, Written(BuiltIn, k))
    BY <1>1, DefaultsAreOk
  <2>2. \A k \in Keys \ {"log_format", "drop_channels"} : k \notin Found(BuiltIn, s)
    BY <2>1, FoundKeys
  <2>3. "drop_channels" \notin Found(BuiltIn, s) /\ "log_format" \notin Found(BuiltIn, s)
    BY <1>2, <2>1, FoundKeys
  <2>4. Found(BuiltIn, s) \subseteq {"FLOODGATE_LOG_FORMAT"}
    BY <2>2, <2>3, FoundKeys
  <2> QED BY <1>3, <2>4
<1>5. ~NamesFile(t) /\ ~env_format(t)
  BY <1>4, RepairedSettings
<1>6. ~Clear(BuiltIn, s) /\ Clear(BuiltIn, t)
  BY <1>1, <1>2, <1>3, <1>4, <1>5, FoundKeys, DefaultsAreOk DEF Clear
<1>7. Rank(f, s) = 1 /\ Rank(Without(f, P), t) = 0
  BY <1>5, <1>6 DEF Rank
<1> QED BY <1>7 DEF Ahead

LEMMA InitRoundsInv == Init => RoundsInv
<1> SUFFICES ASSUME Init PROVE RoundsInv
  OBVIOUS
<1>1. DOMAIN file = {"at", "keys"} /\ SettingsOK(settings)
  BY ConfigAssumption DEF Init, SettingsOK
<1>2. rounds = 0 /\ edits = 0 /\ pc = "down"
  BY DEF Init
<1> QED BY <1>1, <1>2, InvInit, RankRange DEF RoundsInv, RoundsLeft

(* A step of a start refuses what the file holds now, or what it held when it was read. *)
LEMMA StepsRounds ==
  ASSUME RoundsInv, Steps
  PROVE  RoundsLeft'
<1> USE DEF RoundsInv
<1>1. UNCHANGED <<file, settings, rounds, edits>>
  BY DEF Steps, Start, Locate, Read, Validate
<1>2. rounds \in Nat /\ edits \in Nat /\ Rank(file, settings) \in 0..4
  BY RankRange, ConfigAssumption DEF IInv, TypeOK
<1> DEFINE bound == 4 * (edits + 1)
<1>3. rounds + Rank(file, settings) <= bound
  BY DEF RoundsLeft
<1>4. CASE Start
  <2>1. pc' = IF NamesFile(settings) THEN "locate" ELSE "validate"
    BY <1>4 DEF Start
  <2>2. config' = DEFAULT_CONFIG
    BY <1>4 DEF Start
  <2>3. ~NamesFile(settings) /\ validate_values(DEFAULT_CONFIG, settings) # {} =>
          Ahead(file, settings, validate_values(DEFAULT_CONFIG, settings))
            <= Rank(file, settings)
    BY RepairedEnvironment
  <2>4. \A P : Ahead(file, settings, P) \in Int
    BY RankRange DEF Ahead
  <2> QED BY <1>1, <1>2, <1>3, <2>1, <2>2, <2>3, <2>4 DEF RoundsLeft
<1>5. CASE Locate
  <2>1. NamesFile(settings) /\ pc' \in {"failed", "refused", "open"}
    BY <1>5 DEF Locate, Fail, Refuse, IInv
  <2>2. pc' = "refused" => file.at # "mapping"
    BY <1>5 DEF Locate, Fail, Refuse
  <2>3. pc' = "refused" =>
          Ahead(file, settings, reported') = 1 /\ Rank(file, settings) = 1
    BY <2>1, <2>2 DEF Ahead, Rank
  <2> QED BY <1>1, <1>2, <1>3, <2>1, <2>3 DEF RoundsLeft
<1>6. CASE Read
  <2>1. NamesFile(settings) /\ pc' \in {"failed", "refused", "validate"}
    BY <1>6 DEF Read, Merge, Fail, Refuse, IInv
  <2>2. \A P : Ahead(file, settings, P) \in Int
    BY RankRange DEF Ahead
  <2>3. pc' = "refused" => Ahead(file, settings, reported') <= Rank(file, settings)
    <3>1. CASE file.at # "mapping"
      BY <2>1, <3>1 DEF Ahead, Rank
    <3>2. CASE file.at = "mapping"
      BY <1>6, <2>1, <3>2, RepairedKeys DEF Read, Merge, Refuse
    <3> QED BY <3>1, <3>2
  <2>4. ASSUME pc' = "validate", validate_values(config', settings) # {}
        PROVE  Ahead(file, settings, validate_values(config', settings))
                 <= Rank(file, settings)
    <3>1. /\ file.at = "mapping"
          /\ NotString \notin DOMAIN file.keys /\ reject_bad_keys(DOMAIN file.keys) = {}
          /\ config' = [k \in Keys \cup DOMAIN file.keys |->
                          IF k \in DOMAIN file.keys THEN file.keys[k] ELSE DEFAULT_CONFIG[k]]
      BY <1>6, <2>4 DEF Read, Merge, Refuse, Fail
    <3>2. DOMAIN file.keys \subseteq Keys
      BY <3>1 DEF reject_bad_keys
    <3>3. Merged(config', file)
      BY <3>1, <3>2 DEF Merged, Written
    <3> QED BY <2>1, <2>4, <3>1, <3>2, <3>3, MergedFound, RepairedValues
  <2> QED BY <1>1, <1>2, <1>3, <2>1, <2>2, <2>3, <2>4 DEF RoundsLeft
<1>7. CASE Validate
  <2>1. pc = "validate" /\ pc' \in {"refused", "running"}
    BY <1>7 DEF Validate, Refuse
  <2>2. pc' = "refused" => /\ reported' = validate_values(config, settings)
                           /\ validate_values(config, settings) # {}
    BY <1>7 DEF Validate, Refuse
  <2> QED BY <1>1, <1>3, <2>1, <2>2 DEF RoundsLeft
<1> QED BY <1>4, <1>5, <1>6, <1>7 DEF Steps

(* A repair is a round that was reckoned with. *)
LEMMA RepairRounds ==
  ASSUME RoundsInv, Repair
  PROVE  RoundsLeft' /\ DOMAIN file' = {"at", "keys"} /\ SettingsOK(settings')
<1> USE DEF RoundsInv
<1>1. /\ pc = "refused" /\ file.at = "mapping" /\ pc' = "down"
      /\ file' = Without(file, reported) /\ settings' = Unset(settings, reported)
      /\ rounds' = rounds + 1 /\ edits' = edits
  BY DEF Repair, Without, Unset
<1>2. DOMAIN file' = {"at", "keys"} /\ SettingsOK(settings')
  BY <1>1, RepairedFile, RepairedSettings
<1>3. Ahead(file, settings, reported) = 1 + Rank(file', settings')
  BY <1>1 DEF Ahead
<1>4. rounds + (1 + Rank(file', settings')) <= 4 * (edits + 1)
  BY <1>1, <1>3 DEF RoundsLeft
<1>5. rounds \in Nat /\ edits \in Nat /\ Rank(file', settings') \in 0..4
  BY RankRange, ConfigAssumption DEF IInv, TypeOK
<1>6. rounds' + Rank(file', settings') <= 4 * (edits' + 1)
  BY <1>1, <1>4, <1>5
<1> QED BY <1>1, <1>2, <1>6 DEF RoundsLeft

(* An edit may bring all faults back, and leave a report or a load of the old file. *)
LEMMA EditRounds ==
  ASSUME RoundsInv, Edit
  PROVE  RoundsLeft' /\ DOMAIN file' = {"at", "keys"}
<1> USE DEF RoundsInv
<1>1. edits' = edits + 1 /\ file' \in Files /\ UNCHANGED <<settings, pc, config, reported, rounds>>
  BY DEF Edit
<1>2. DOMAIN file' = {"at", "keys"}
  BY <1>1, ConfigAssumption
<1>3. rounds \in Nat /\ edits \in Nat /\ Rank(file, settings) \in 0..4
  BY RankRange, ConfigAssumption DEF IInv, TypeOK
<1>4. Rank(file', settings) \in 0..4
  BY RankRange
<1>5. \A P : /\ Ahead(file, settings, P) \in Int /\ Ahead(file, settings, P) >= 1
             /\ Ahead(file', settings, P) \in Int /\ Ahead(file', settings, P) <= 5
  BY RankRange DEF Ahead
<1>6. rounds' + Rank(file', settings') <= 4 * (edits' + 1)
  BY <1>1, <1>3, <1>4 DEF RoundsLeft
<1>7. ASSUME pc = "refused"
      PROVE  rounds' + Ahead(file', settings', reported') <= 4 * (edits' + 1)
  <2>1. rounds + Ahead(file, settings, reported) <= 4 * (edits + 1)
    BY <1>7 DEF RoundsLeft
  <2> QED BY <1>1, <1>3, <1>5, <2>1
<1>8. ASSUME pc = "validate", validate_values(config, settings) # {}
      PROVE  rounds' + Ahead(file', settings', validate_values(config, settings))
               <= 4 * (edits' + 1)
  <2>1. rounds + Ahead(file, settings, validate_values(config, settings)) <= 4 * (edits + 1)
    BY <1>8 DEF RoundsLeft
  <2> QED BY <1>1, <1>3, <1>5, <1>8, <2>1
<1> QED BY <1>1, <1>2, <1>6, <1>7, <1>8 DEF RoundsLeft

LEMMA NextRoundsInv == RoundsInv /\ [Next]_vars => RoundsInv'
<1> SUFFICES ASSUME RoundsInv, [Next]_vars PROVE RoundsInv'
  OBVIOUS
<1>1. IInv'
  BY InvNext DEF RoundsInv
<1>2. CASE Steps
  <2>1. UNCHANGED <<file, settings>>
    BY <1>2 DEF Steps, Start, Locate, Read, Validate
  <2> QED BY <1>1, <1>2, <2>1, StepsRounds DEF RoundsInv
<1>3. CASE Restart \/ UNCHANGED vars
  BY <1>1, <1>3 DEF RoundsInv, RoundsLeft, Restart, vars
<1>4. CASE Repair
  BY <1>1, <1>4, RepairRounds DEF RoundsInv
<1>5. CASE Edit
  <2>1. settings' = settings
    BY <1>5 DEF Edit
  <2> QED BY <1>1, <1>5, <2>1, EditRounds DEF RoundsInv
<1> QED BY <1>2, <1>3, <1>4, <1>5 DEF Next

(* However many edits there are, at whatever moment, an operator who repairs what is
   reported meets at most four refusals for each version of the file. *)
THEOREM RepairsAreFew == Spec => []FewRounds
<1>1. RoundsInv => FewRounds
  <2> SUFFICES ASSUME RoundsInv PROVE FewRounds
    OBVIOUS
  <2>1. rounds \in Nat /\ edits \in Nat /\ Rank(file, settings) \in 0..4
    BY RankRange, ConfigAssumption DEF RoundsInv, IInv, TypeOK
  <2> QED BY <2>1 DEF RoundsInv, RoundsLeft, FewRounds
<1> QED BY InitRoundsInv, NextRoundsInv, <1>1, PTL DEF Spec
=============================================================================
