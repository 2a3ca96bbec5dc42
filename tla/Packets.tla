------------------------------ MODULE Packets ------------------------------
(***************************************************************************)
(* The packets floodgate meets, and what a gateway that downlinks one      *)
(* would make of it: the vocabulary in which its promises are stated.      *)
(* Nothing here is floodgate's code; README.md ("How It Works") describes  *)
(* the hop fields, and zerohop.py names the two forms they take.           *)
(***************************************************************************)
EXTENDS PacketPolicy

(* Hop fields, and the payloads the two parsers can meet. *)
HopField == Int \cup {Absent, NotInt}

JsonPayloads ==
  [shape : {"unparsable", "other", "object"},
   hop_limit : HopField, hop_start : HopField, hops_away : HopField,
   decoded_portnum : STRING \cup {Absent}, portnum : STRING \cup {Absent},
   type : STRING \cup {Absent}, ids : {"formattable", "unformattable"}]

ProtobufPayloads ==
  [shape : {"unparsable", "no_packet", "packet"}, hop_limit : Nat, hop_start : Nat,
   variant : {"encrypted", "decoded", "unset"}, decrypts_to : STRING \cup {None}]

(* "msh/{...prefix...}/{version}/{encoding}/{channel}/{nodeId}", read as it is written:
   after msh and a prefix of any depth, four levels remain. *)
HasFormat(levels, encoding, channel) ==
  /\ levels # <<>> /\ Head(levels) = "msh"
  /\ \E depth \in 0..Len(levels) :
       LET named == SubSeq(levels, depth + 2, Len(levels))
       IN  /\ Len(named) = 4
           /\ named[2] = encoding /\ named[3] = channel /\ named[4] \in NodeLevels

Encodings == {"e", "json"}
LevelsOf(levels) == {levels[i] : i \in DOMAIN levels}

IsPacket(levels) == \E e \in Encodings, c \in LevelsOf(levels) : HasFormat(levels, e, c)
Encoding(levels) == CHOOSE e \in Encodings : \E c \in LevelsOf(levels) : HasFormat(levels, e, c)
Channel(levels) == CHOOSE c \in LevelsOf(levels) : \E e \in Encodings : HasFormat(levels, e, c)

(* What a topic carries is what its encoding says, or it is unparsable. *)
Carries(levels, payload) ==
  /\ levels \in Seq(STRING)
  /\ \/ ~IsPacket(levels)
     \/ Encoding(levels) = "json" /\ payload \in JsonPayloads
     \/ Encoding(levels) = "e" /\ payload \in ProtobufPayloads

Readable(l, p) ==
  /\ IsPacket(l)
  /\ IF Encoding(l) = "json"
     THEN p.shape = "object" /\ NotInt \notin {p.hop_limit, p.hop_start, p.hops_away}
     ELSE p.shape = "packet"

(* How often the packet may still be sent on. *)
HopsLeft(l, p) ==
  IF Encoding(l) = "e" \/ p.hop_limit # Absent THEN p.hop_limit
  ELSE IF p.hop_start # Absent /\ p.hops_away # Absent /\ p.hop_start > p.hops_away
       THEN p.hop_start - p.hops_away
  ELSE 0

OnZerohopChannel(c, l) == IsPacket(l) /\ should_zerohop(c, Channel(l))

Loggable(l, p) ==
  Encoding(l) = "json" => p.shape # "object" \/ p.ids = "formattable"

(* The payload that a result lets subscribers have, unless it denies the publish. *)
Deliverable(p, r) == IF r.action = "modify" THEN r.payload ELSE p
=============================================================================
