----------------------------- MODULE ConfigLoad -----------------------------
(***************************************************************************)
(* How floodgate comes by its configuration: main() and load_config() over *)
(* one file that may be edited, or vanish, while it is being loaded, and   *)
(* an operator who repairs what a refused start reports.                   *)
(*                                                                         *)
(* A YAML value is a pair of its type and its content: <<"bool", TRUE>>,   *)
(* <<"int", 9000>>, <<"str", "msh/#">>, <<"list", set of entries>> or      *)
(* <<"null", None>>; an entry or key that is no string is NotString.  What *)
(* the path leads to is a record of `at` and the mapping in it:            *)
(*   "missing"      nothing, or no regular file                            *)
(*   "hidden"       stat() is refused                                      *)
(*   "unreadable"   open() is refused                                      *)
(*   "undecodable"  bytes that are not UTF-8                               *)
(*   "not_yaml", "not_mapping", "mapping" (an empty file is one)           *)
(***************************************************************************)
EXTENDS PacketPolicy

CONSTANTS NotString,        \* a key or list entry that is not a string
          Presets,          \* the eight standard channels
          PortNumNames,     \* portnums_pb2.PortNum.keys()
          Names,            \* the channels and portnums that packets bear
          Files,            \* what the configuration path may lead to
          Settings,         \* command line and environment of a start
          MaxEdits          \* bound on edits of the file (model checking)

Types == {"bool", "int", "str", "list", "null"}

IsValue(v) == /\ v[1] \in Types
              /\ v[1] = "bool" => v[2] \in BOOLEAN
              /\ v[1] = "int" => v[2] \in Int
              /\ v[1] = "list" => v[2] # None /\ v[2] \ {NotString} \subseteq STRING

INHERIT_ZEROHOP_CHANNELS == "zerohop_channels"
REMOVED_KEYS == {"channel_policy", "channel_blacklist", "channel_whitelist"}
DEFAULT_CONFIG ==
  [zerohop_enabled  |-> <<"bool", TRUE>>,   zerohop_channels |-> <<"list", Presets>>,
   drop_enabled     |-> <<"bool", FALSE>>,  drop_portnums    |-> <<"list", {}>>,
   drop_channels    |-> <<"str", INHERIT_ZEROHOP_CHANNELS>>,
   grpc_port        |-> <<"int", 9000>>,    grpc_max_workers |-> <<"int", 16>>,
   health_port      |-> <<"int", 8080>>,    stats_interval_s |-> <<"int", 60>>,
   topic_filter     |-> <<"str", "msh/#">>, stats_log        |-> <<"bool", TRUE>>,
   log_level        |-> <<"str", "INFO">>,  log_format       |-> <<"str", "text">>]
Keys == DOMAIN DEFAULT_CONFIG

ASSUME ConfigAssumption ==
  /\ NotString \notin Keys \cup STRING /\ None # {} /\ MaxEdits \in Nat
  /\ Presets # None /\ Presets \subseteq STRING /\ PortNumNames \subseteq STRING
  /\ \A f \in Files : /\ DOMAIN f = {"at", "keys"}
                       /\ \A k \in DOMAIN f.keys : IsValue(f.keys[k])
  /\ \A s \in Settings :
       DOMAIN s = {"config", "FLOODGATE_CONFIG", "FLOODGATE_LOG_FORMAT", "verbose"}

Uppercase == [debug |-> "DEBUG", info |-> "INFO", warning |-> "WARNING",
              error |-> "ERROR", critical |-> "CRITICAL"]
Lowercase == [TEXT |-> "text", JSON |-> "json"]
Fold(case, s) == IF s \in DOMAIN case THEN case[s] ELSE s

VARIABLES file,         \* what the path leads to
          settings,     \* --config, $FLOODGATE_CONFIG, $FLOODGATE_LOG_FORMAT, -v
          pc,           \* where main() is
          held,         \* history: what the path led to since this start
          config,       \* the configuration dict
          reported,     \* the problems the last refusal named
          rounds, edits \* repairs and edits so far
vars == <<file, settings, pc, held, config, reported, rounds, edits>>

-----------------------------------------------------------------------------
(* The values, as _validate_values sees them one by one. *)

string_list_ok(v) == v[1] = "null" \/ (v[1] = "list" /\ NotString \notin v[2])
string_set(v) == IF v[1] = "null" THEN {} ELSE v[2]
int_ok(v, high) == v[1] = "int" /\ v[2] >= 1 /\ (high = None \/ v[2] <= high)

value_ok(k, v) ==
  CASE k \in {"zerohop_enabled", "drop_enabled", "stats_log"} -> v[1] = "bool"
    [] k \in {"grpc_port", "health_port"} -> int_ok(v, 65535)
    [] k \in {"grpc_max_workers", "stats_interval_s"} -> int_ok(v, None)
    [] k = "log_level"  -> v[1] = "str" /\ Fold(Uppercase, v[2]) \in
                             {"DEBUG", "INFO", "WARNING", "ERROR", "CRITICAL"}
    [] k = "log_format" -> v[1] = "str" /\ Fold(Lowercase, v[2]) \in {"text", "json"}
    [] k = "topic_filter" -> v[1] = "str" /\ v[2] # ""
    [] k = "zerohop_channels" -> string_list_ok(v)
    [] k = "drop_portnums" -> string_list_ok(v) /\ string_set(v) \subseteq PortNumNames
    [] k = "drop_channels" -> IF v[1] = "str" THEN v[2] = INHERIT_ZEROHOP_CHANNELS
                                              ELSE string_list_ok(v)

(* $FLOODGATE_LOG_FORMAT, when set and not empty, is looked at instead of the
   file's log_format. *)
env_format(s) == s.FLOODGATE_LOG_FORMAT \notin {None, ""}
log_format(c, s) == IF env_format(s) THEN <<"str", s.FLOODGATE_LOG_FORMAT>> ELSE c.log_format

(* Mutant: the first problem ends the validation. *)
validate_values_first(c, s) ==
  LET bad == {k \in Keys : ~value_ok(k, c[k])}
  IN  IF bad = {} THEN {} ELSE {CHOOSE k \in bad : TRUE}

(* The channel lists share one try: a bad zerohop_channels hides drop_channels. *)
validate_values(c, s) ==
  {k \in Keys \ {"log_format", "drop_channels"} : ~value_ok(k, c[k])}
    \cup {k \in {"drop_channels"} : value_ok("zerohop_channels", c.zerohop_channels)
                                    /\ ~value_ok(k, c[k])}
    \cup {l \in {IF env_format(s) THEN "FLOODGATE_LOG_FORMAT" ELSE "log_format"} :
            ~value_ok("log_format", log_format(c, s))}

(* Mutant: any empty scope is taken for no scope. *)
resolve_drop_channels_falsy(v, zerohop_set) ==
  LET scope == IF v[1] = "str" THEN zerohop_set ELSE string_set(v)
  IN  IF scope = {} THEN None ELSE scope

(* None is a scope of all channels, unlike the empty set. *)
resolve_drop_channels(v, zerohop_set) ==
  IF v[1] = "str" THEN zerohop_set
  ELSE IF v[1] = "null" \/ v[2] = {} THEN None
  ELSE v[2]

(* Mutant: unknown keys merge silently. *)
reject_bad_keys_removed(keys) == keys \cap REMOVED_KEYS

reject_bad_keys(keys) == (keys \cap REMOVED_KEYS) \cup (keys \ (Keys \cup REMOVED_KEYS))

(* What load_config returns, with main's -v; the lookup sets stand for the lists
   they were made from. *)
loaded(c, s) ==
  [k \in Keys |->
     CASE k \in {"zerohop_channels", "drop_portnums"} -> string_set(c[k])
       [] k = "drop_channels" -> resolve_drop_channels(c[k], string_set(c.zerohop_channels))
       [] k = "log_level" -> IF s.verbose THEN "DEBUG" ELSE Fold(Uppercase, c[k][2])
       [] k = "log_format" -> Fold(Lowercase, log_format(c, s)[2])
       [] OTHER -> c[k][2]]

-----------------------------------------------------------------------------
Init == /\ file \in Files /\ settings \in Settings
        /\ pc = "down" /\ held = {} /\ config = DEFAULT_CONFIG
        /\ reported = {} /\ rounds = 0 /\ edits = 0

config_path(s) == IF s.config = None THEN s.FLOODGATE_CONFIG ELSE s.config
NamesFile(s) == config_path(s) \notin {None, ""}

(* A ConfigError: one line, exit status 2. *)
Refuse(problems) == pc' = "refused" /\ reported' = problems /\ UNCHANGED config
(* Any other exception: a traceback, exit status 1. *)
Fail == pc' = "failed" /\ UNCHANGED <<config, reported>>

Start ==
  /\ pc = "down"
  /\ pc' = IF NamesFile(settings) THEN "locate" ELSE "validate"
  /\ config' = DEFAULT_CONFIG /\ held' = {file} /\ reported' = {}
  /\ UNCHANGED <<file, settings, rounds, edits>>

(* path.is_file(), outside the try. *)
Locate ==
  /\ pc = "locate"
  /\ CASE file.at = "hidden"  -> Fail
       [] file.at = "missing" -> Refuse({"path"})
       [] OTHER -> pc' = "open" /\ UNCHANGED <<config, reported>>
  /\ UNCHANGED <<file, settings, held, rounds, edits>>

(* The keys of the mapping are checked, and its values merged over the defaults. *)
Merge ==
  LET keys == DOMAIN file.keys
  IN  IF NotString \in keys THEN Refuse({NotString})
      ELSE IF reject_bad_keys(keys) # {} THEN Refuse(reject_bad_keys(keys))
      ELSE /\ pc' = "validate"
           /\ config' = [k \in Keys \cup keys |-> IF k \in keys THEN file.keys[k]
                                                             ELSE DEFAULT_CONFIG[k]]
           /\ UNCHANGED reported

(* Mutant: a file that cannot be read is taken for an empty one. *)
ReadOrDefaults ==
  /\ pc = "open"
  /\ CASE file.at = "mapping" -> Merge
       [] file.at = "undecodable" -> Fail
       [] file.at \in {"not_yaml", "not_mapping"} -> Refuse({"path"})
       [] OTHER -> pc' = "validate" /\ UNCHANGED <<config, reported>>
  /\ UNCHANGED <<file, settings, held, rounds, edits>>

(* open() and yaml.safe_load(): by now the file may be another, or gone. *)
Read ==
  /\ pc = "open"
  /\ CASE file.at = "mapping" -> Merge
       [] file.at = "undecodable" -> Fail
       [] OTHER -> Refuse({"path"})
  /\ UNCHANGED <<file, settings, held, rounds, edits>>

(* Mutant: the problems found do not reach the report. *)
ValidateSilent ==
  /\ pc = "validate"
  /\ IF validate_values(config, settings) # {} THEN Refuse({})
     ELSE pc' = "running" /\ config' = loaded(config, settings) /\ UNCHANGED reported
  /\ UNCHANGED <<file, settings, held, rounds, edits>>

Validate ==
  /\ pc = "validate"
  /\ IF validate_values(config, settings) # {}
     THEN Refuse(validate_values(config, settings))
     ELSE pc' = "running" /\ config' = loaded(config, settings) /\ UNCHANGED reported
  /\ UNCHANGED <<file, settings, held, rounds, edits>>

(* The container is restarted, by its restart policy or by its operator. *)
Restart ==
  /\ pc \in {"running", "refused", "failed"}
  /\ pc' = "down"
  /\ UNCHANGED <<file, settings, held, config, reported, rounds, edits>>

(* The operator removes the lines, or unsets the variable, that were named. *)
Repair ==
  /\ pc = "refused" /\ file.at = "mapping"
  /\ reported \cap (DOMAIN file.keys \cup {"FLOODGATE_LOG_FORMAT"}) # {}
  /\ file' = [file EXCEPT !.keys = [k \in DOMAIN @ \ reported |-> @[k]]]
  /\ settings' = IF "FLOODGATE_LOG_FORMAT" \in reported
                 THEN [settings EXCEPT !.FLOODGATE_LOG_FORMAT = None] ELSE settings
  /\ pc' = "down" /\ rounds' = rounds + 1
  /\ UNCHANGED <<held, config, reported, edits>>

(* The file is replaced, removed or created, whatever floodgate is doing. *)
Edit ==
  /\ edits < MaxEdits
  /\ edits' = edits + 1 /\ file' \in Files
  /\ held' = IF pc \in {"locate", "open", "validate"} THEN held \cup {file'} ELSE held
  /\ UNCHANGED <<settings, pc, config, reported, rounds>>

Steps == Start \/ Locate \/ Read \/ Validate
Next == Steps \/ Restart \/ Repair \/ Edit

(* A started process goes on; the restart policy starts it again after a refusal; an
   operator who keeps finding a report repairs what it names, between two restarts. *)
Spec == /\ Init /\ [][Next]_vars
        /\ WF_vars(Steps) /\ WF_vars(pc # "running" /\ Restart) /\ SF_vars(Repair)

-----------------------------------------------------------------------------
(* What load_config returns is a configuration PacketPolicy can decide by: every
   key is there once, switches are Booleans and the scopes are sets of strings.  A
   quoted "false" or an entry that is a number never gets this far. *)
TypeOK ==
  /\ pc \in {"down", "locate", "open", "validate", "running", "refused", "failed"}
  /\ rounds \in Nat /\ edits \in 0..MaxEdits
  /\ DOMAIN config = Keys
  /\ pc = "validate" => \A k \in Keys : IsValue(config[k])
  /\ pc = "running" =>
       /\ {config.zerohop_enabled, config.drop_enabled} \subseteq BOOLEAN
       /\ config.zerohop_channels \subseteq STRING
       /\ config.drop_portnums \subseteq PortNumNames
       /\ config.drop_channels = None \/ config.drop_channels \subseteq STRING

(* What the operator wrote for key k in file f, or left to the default. *)
Written(f, k) == IF k \in DOMAIN f.keys THEN f.keys[k] ELSE DEFAULT_CONFIG[k]
IsTrue(v) == v[1] = "bool" /\ v[2] = TRUE
Lists(v, s) == v[1] = "list" /\ s \in v[2]

WrittenZerohop(f, channel) == /\ IsTrue(Written(f, "zerohop_enabled"))
                              /\ Lists(Written(f, "zerohop_channels"), channel)
WrittenDrop(f, channel, portnum) ==
  LET scope == Written(f, "drop_channels")
  IN  /\ IsTrue(Written(f, "drop_enabled"))
      /\ Lists(Written(f, "drop_portnums"), portnum)
      /\ \/ scope[1] = "null" \/ (scope[1] = "list" /\ scope[2] = {})
         \/ scope[1] = "str" /\ Lists(Written(f, "zerohop_channels"), channel)
         \/ Lists(scope, channel)

BuiltIn == [at |-> "mapping", keys |-> <<>>]

(* A running floodgate filters as one version of the file says that the path really
   led to during this start, and on the defaults only when no file was named: in
   particular an inherited empty channel list drops nothing, while an empty or null
   drop_channels drops everywhere. *)
FiltersAsWritten ==
  pc = "running" =>
    \E f \in IF NamesFile(settings) THEN held ELSE {BuiltIn} :
      /\ f.at = "mapping"
      /\ \A c \in Names, p \in Names \cup {None} :
           /\ should_zerohop(config, c) <=> WrittenZerohop(f, c)
           /\ should_drop(config, c, p) <=> WrittenDrop(f, c, p)

(* What is wrong with f, key by key, each looked at for itself. *)
ValueProblems(f, s) ==
  {k \in Keys \ {"log_format"} : ~value_ok(k, Written(f, k))}
    \cup {l \in {IF env_format(s) THEN "FLOODGATE_LOG_FORMAT" ELSE "log_format"} :
            ~value_ok("log_format", IF env_format(s) THEN <<"str", s.FLOODGATE_LOG_FORMAT>>
                                                     ELSE Written(f, "log_format"))}
Problems(f, s) == IF f.at # "mapping" THEN {"path"}
                  ELSE (DOMAIN f.keys \ Keys) \cup ValueProblems(f, s)

(* A refusal names a problem, and only problems that one version of the file had
   during this start: the operator is never sent after a healthy key. *)
RefusalExplained ==
  pc = "refused" =>
    /\ reported # {}
    /\ \E f \in IF NamesFile(settings) THEN held ELSE {BuiltIn} :
         reported \subseteq Problems(f, settings)

(* An operator who repairs what is reported meets at most four refusals after the
   first start or an edit: keys that are no strings, removed and unknown keys, values,
   and the one value that another one hid. *)
FewRounds == rounds <= 4 * (edits + 1)

(* Such an operator gets floodgate running, unless the file stops being a mapping. *)
RepairEnds ==
  (pc = "refused" /\ file.at = "mapping") ~> (pc = "running" \/ file.at # "mapping")

(* README.md: "A configuration error exits with status 2 and a single
   `Configuration error:` line, no traceback". *)
NoTraceback == pc # "failed"
=============================================================================
