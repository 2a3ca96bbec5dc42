--------------------------- MODULE MCPacketJourney ---------------------------
(***************************************************************************)
(* A small instance of PacketJourney: every topic shape, every pair of hop *)
(* spellings and every kind of unreadable payload, under configurations    *)
(* that differ in each switch and scope.                                   *)
(***************************************************************************)
EXTENDS PacketJourney

MCNodeLevels == {"!deadbeef"}

Topics ==
  {<<"msh", "US", "2", enc, ch, "!deadbeef">> :
      enc \in {"e", "json", "map"}, ch \in {"LongFast", "Private"}}
  \cup {<<"msh", "2", "e", "LongFast", "!deadbeef">>,     \* no prefix
        <<"msh", "EU", "e", "2", "e", "LongFast", "!deadbeef">>,     \* an odd, deeper one
        <<"msh", "e", "LongFast", "!deadbeef">>,          \* one level short
        <<"zigbee", "2", "e", "LongFast", "!deadbeef">>,
        <<"msh", "US", "2", "e", "LongFast", "stat">>}

Hops == {-1, 0, 3, Absent, NotInt}

JsonObject(limit, start, away, decoded, portnum, type, ids) ==
  [shape |-> "object", hop_limit |-> limit, hop_start |-> start, hops_away |-> away,
   decoded_portnum |-> decoded, portnum |-> portnum, type |-> type, ids |-> ids]

JsonMessages ==
  {JsonObject(l, s, a, Absent, Absent, t, "formattable") :
      l \in Hops, s \in Hops, a \in Hops, t \in {"text", "telemetry"}}
  \cup {JsonObject(l, 3, 0, d, p, t, i) :
      l \in {3, Absent}, d \in {Absent, "TEXT_MESSAGE_APP"}, p \in {Absent, "TEXT_MESSAGE_APP"},
      t \in {Absent, "telemetry", "text"}, i \in {"formattable", "unformattable"}}
  \cup {[JsonObject(Absent, Absent, Absent, Absent, Absent, Absent, "formattable")
            EXCEPT !.shape = s] : s \in {"unparsable", "other"}}

ProtobufMessages ==
  {[shape |-> s, hop_limit |-> l, hop_start |-> 3, variant |-> v, decrypts_to |-> d] :
      s \in {"unparsable", "no_packet", "packet"}, l \in {0, 1, 3},
      v \in {"encrypted", "decoded", "unset"},
      d \in {None, "TEXT_MESSAGE_APP", "TELEMETRY_APP"}}

TopicsOf(enc) ==
  {t \in Topics : IF IsPacket(t) THEN Encoding(t) = enc ELSE enc = "e"}

MCMessages ==
  {[levels |-> t, payload |-> p] : t \in TopicsOf("json"), p \in JsonMessages}
  \cup {[levels |-> t, payload |-> p] : t \in TopicsOf("e"), p \in ProtobufMessages}

MCConfigs ==
  [zerohop_enabled : BOOLEAN, zerohop_channels : {{"LongFast"}}, drop_enabled : BOOLEAN,
   drop_channels : {None, {"LongFast"}}, drop_portnums : {{"TEXT_MESSAGE_APP"}}]
=============================================================================
