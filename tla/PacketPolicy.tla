---------------------------- MODULE PacketPolicy ----------------------------
(***************************************************************************)
(* What floodgate decides about one publish: the pure part of zerohop.py,  *)
(* portnum.py and config.py.  A topic is the sequence of its levels.  A    *)
(* payload is a record of the fields the decision reads:                   *)
(*                                                                         *)
(*  on a /json/ topic   shape            "unparsable", "other" or "object" *)
(*                      hop_limit, hop_start, hops_away                    *)
(*                                       an integer, Absent or NotInt      *)
(*                      decoded_portnum  payload.decoded.portnum           *)
(*                      portnum, type    a string, or Absent when it is    *)
(*                                       missing or no string              *)
(*                      ids              "formattable", or "unformattable" *)
(*                                       when `from` or `to` is a number   *)
(*                                       that is no int, or a container    *)
(*  on an /e/ topic     shape            "unparsable", "no_packet" or      *)
(*                                       "packet"                          *)
(*                      hop_limit, hop_start                               *)
(*                      variant          "encrypted", "decoded" or "unset" *)
(*                      decrypts_to      the portnum the default key       *)
(*                                       yields, None for no valid Data    *)
(*                                                                         *)
(* A configuration is what load_config leaves: two switches, the channel   *)
(* sets (drop_channels is None for all channels) and the portnum set.      *)
(***************************************************************************)
EXTENDS Integers, Sequences

CONSTANTS None,             \* Python's None
          Absent,           \* a JSON key that is missing (or not a string)
          NotInt,           \* a JSON hop field that is not an integer
          NodeLevels        \* the topic levels that start with "!"

ASSUME PolicyAssumption == /\ None \notin Int /\ Absent \notin Int /\ NotInt \notin Int
                           /\ Absent # NotInt
                           /\ None \notin STRING

-----------------------------------------------------------------------------
(* config.py *)

should_zerohop(config, channel) ==
  config.zerohop_enabled /\ channel \in config.zerohop_channels

should_drop(config, channel, portnum) ==
  /\ config.drop_enabled
  /\ portnum # None
  /\ portnum \in config.drop_portnums
  /\ config.drop_channels = None \/ channel \in config.drop_channels

-----------------------------------------------------------------------------
(* portnum.py *)

(* The firmware's `type` strings, in the lower case the lookup uses. *)
JsonTypeToPortnum ==
  [text             |-> "TEXT_MESSAGE_APP",   telemetry     |-> "TELEMETRY_APP",
   nodeinfo         |-> "NODEINFO_APP",       position      |-> "POSITION_APP",
   waypoint         |-> "WAYPOINT_APP",       neighborinfo  |-> "NEIGHBORINFO_APP",
   traceroute       |-> "TRACEROUTE_APP",     paxcounter    |-> "PAXCOUNTER_APP",
   detection        |-> "DETECTION_SENSOR_APP",
   gpios_changed    |-> "REMOTE_HARDWARE_APP",
   gpios_read_reply |-> "REMOTE_HARDWARE_APP"]

extract_portnum_json(payload) ==
  IF payload.shape # "object" THEN None
  ELSE IF payload.decoded_portnum # Absent THEN payload.decoded_portnum
  ELSE IF payload.portnum # Absent THEN payload.portnum
  ELSE IF payload.type \in DOMAIN JsonTypeToPortnum THEN JsonTypeToPortnum[payload.type]
  ELSE None

extract_portnum_protobuf(payload) ==
  IF payload.shape = "packet" /\ payload.variant = "encrypted"
  THEN payload.decrypts_to
  ELSE None

extract_portnum(encoding, payload) ==
  IF encoding = "json" THEN extract_portnum_json(payload)
                       ELSE extract_portnum_protobuf(payload)

-----------------------------------------------------------------------------
(* zerohop.py *)

(* NotPacket stands for the None that is returned for other topics than packets'. *)
NotPacket == [channel |-> None, encoding |-> None]

(* Mutant: every prefix is taken for as deep as that of msh/US/2/e/... *)
parse_meshtastic_topic_left(levels) ==
  LET n == Len(levels)
  IN  IF /\ n >= 6
         /\ levels[1] = "msh"
         /\ levels[n] \in NodeLevels
         /\ levels[4] \in {"e", "json"}
      THEN [channel |-> levels[5], encoding |-> levels[4]]
      ELSE NotPacket

(* The channel and the encoding, counted from the right. *)
parse_meshtastic_topic(levels) ==
  LET n == Len(levels)
  IN  IF /\ n >= 5
         /\ levels[1] = "msh"
         /\ levels[n] \in NodeLevels
         /\ levels[n - 2] \in {"e", "json"}
      THEN [channel |-> levels[n - 1], encoding |-> levels[n - 2]]
      ELSE NotPacket

(* Both rewriters return the new payload and the old hop limit. *)
Unreadable == [modified |-> None, old_hop |-> None]
AlreadyZero == [modified |-> None, old_hop |-> 0]

(* Mutants of zerohop_protobuf: hop_start zeroed as well, as before 0.7; and the
   default limit of 3 subtracted. *)
zerohop_protobuf_both(payload) ==
  IF payload.shape # "packet" THEN Unreadable
  ELSE IF payload.hop_limit = 0 THEN AlreadyZero
  ELSE [modified |-> [payload EXCEPT !.hop_limit = 0, !.hop_start = 0],
        old_hop |-> payload.hop_limit]
zerohop_protobuf_minus(payload) ==
  IF payload.shape # "packet" THEN Unreadable
  ELSE IF payload.hop_limit = 0 THEN AlreadyZero
  ELSE [modified |-> [payload EXCEPT !.hop_limit = @ - 3], old_hop |-> payload.hop_limit]

zerohop_protobuf(payload) ==
  IF payload.shape # "packet" THEN Unreadable
  ELSE IF payload.hop_limit = 0 THEN AlreadyZero
  ELSE [modified |-> [payload EXCEPT !.hop_limit = 0], old_hop |-> payload.hop_limit]

(* Mutants of json_old_hop: only the hop_limit key is looked at; or it is looked
   at last. *)
json_old_hop_limit(payload) ==
  IF payload.hop_limit # Absent THEN payload.hop_limit ELSE 0
json_old_hop_start(payload) ==
  IF Absent \in {payload.hop_start, payload.hops_away}
  THEN IF payload.hop_limit # Absent THEN payload.hop_limit ELSE 0
  ELSE IF payload.hops_away > payload.hop_start THEN 0
  ELSE payload.hop_start - payload.hops_away

(* `hop_limit`, or the hops left of `hop_start` after `hops_away`. *)
json_old_hop(payload) ==
  IF payload.hop_limit # Absent THEN payload.hop_limit
  ELSE IF Absent \in {payload.hop_start, payload.hops_away} THEN 0
  ELSE IF payload.hops_away > payload.hop_start THEN 0
  ELSE payload.hop_start - payload.hops_away

(* Mutant of zerohop_json: the hop_limit key is removed rather than zeroed. *)
zerohop_json_removes(payload) ==
  IF \/ payload.shape # "object"
     \/ NotInt \in {payload.hop_limit, payload.hop_start, payload.hops_away}
  THEN Unreadable
  ELSE IF json_old_hop(payload) = 0 THEN AlreadyZero
  ELSE [modified |-> [payload EXCEPT !.hop_limit = Absent], old_hop |-> json_old_hop(payload)]

zerohop_json(payload) ==
  IF \/ payload.shape # "object"
     \/ NotInt \in {payload.hop_limit, payload.hop_start, payload.hops_away}
  THEN Unreadable
  ELSE IF json_old_hop(payload) = 0 THEN AlreadyZero
  ELSE [modified |-> [payload EXCEPT !.hop_limit = 0], old_hop |-> json_old_hop(payload)]

zerohop(encoding, payload) ==
  IF encoding = "json" THEN zerohop_json(payload) ELSE zerohop_protobuf(payload)

(* A ProcessResult, with the counter that was incremented on the way to it. *)
Result(counter, action, payload) ==
  [counter |-> counter, action |-> action, payload |-> payload]

(* The decision of _process_message_inner, as it stands when it is counted. *)
decide(config, levels, payload) ==
  LET parsed == parse_meshtastic_topic(levels)
      portnum == extract_portnum(parsed.encoding, payload)
      rewrite == zerohop(parsed.encoding, payload)
  IN  IF parsed = NotPacket THEN Result("skipped", "passthru", None)
      ELSE IF config.drop_enabled /\ should_drop(config, parsed.channel, portnum)
           THEN Result("dropped", "drop", None)
      ELSE IF ~should_zerohop(config, parsed.channel) THEN Result("passthru", "passthru", None)
      ELSE IF rewrite = Unreadable THEN Result("errors", "passthru", None)
      ELSE IF rewrite.old_hop = 0 THEN Result("noop", "passthru", None)
      ELSE Result("zerohop", "modify", rewrite.modified)

(* What _peek_meta and the rewriters find for `from` and `to`.  Only the fields of
   a JSON object can hold something else than an integer. *)
peek_meta(encoding, payload) ==
  IF encoding = "json" /\ payload.shape = "object" THEN payload.ids ELSE "formattable"

(* _fmt_node raises on an id that is neither None, a string nor an integer. *)
fmt_node_raises(id) == id = "unformattable"

(* The outcome line is made after the outcome was counted.  It names sender and
   destination, unless the topic was skipped or the payload did not parse. *)
formatting_raises(levels, payload, result) ==
  /\ result.counter \notin {"skipped", "errors"}
  /\ fmt_node_raises(peek_meta(parse_meshtastic_topic(levels).encoding, payload))

(* process_message: what is returned, and everything that was counted. *)
process_message(config, levels, payload) ==
  LET result == decide(config, levels, payload)
  IN  IF formatting_raises(levels, payload, result)
      THEN [counted |-> <<result.counter, "errors">>, action |-> "passthru", payload |-> None]
      ELSE [counted |-> <<result.counter>>, action |-> result.action, payload |-> result.payload]
=============================================================================
