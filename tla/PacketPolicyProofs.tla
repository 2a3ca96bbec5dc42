------------------------- MODULE PacketPolicyProofs -------------------------
(***************************************************************************)
(* Lemmas about one call of process_message, for every configuration and   *)
(* every payload that a topic can carry.  PacketJourneyProofs and          *)
(* ExHookProofs build on them.                                             *)
(***************************************************************************)
EXTENDS Packets, TLAPS

(* The only change floodgate makes to a packet. *)
NoHops(p) == [p EXCEPT !.hop_limit = 0]

(* What parse_meshtastic_topic looks at, counted from the right. *)
FromTheRight(l) ==
  /\ Len(l) >= 5 /\ l[1] = "msh" /\ l[Len(l)] \in NodeLevels
  /\ l[Len(l) - 2] \in Encodings

(* A topic of the format has its last four levels where they are looked for ... *)
LEMMA FormatFromTheRight ==
  ASSUME NEW l \in Seq(STRING), NEW e \in Encodings, NEW c, HasFormat(l, e, c)
  PROVE  FromTheRight(l) /\ e = l[Len(l) - 2] /\ c = l[Len(l) - 1]
<1>1. PICK depth \in 0..Len(l) :
        LET named == SubSeq(l, depth + 2, Len(l))
        IN  /\ Len(named) = 4
            /\ named[2] = e /\ named[3] = c /\ named[4] \in NodeLevels
  BY DEF HasFormat
<1>2. Len(l) \in Nat /\ l # <<>> /\ l[1] = "msh"
  BY DEF HasFormat
<1>3. /\ Len(l) = depth + 5
      /\ \A i \in 1..4 : SubSeq(l, depth + 2, Len(l))[i] = l[depth + 1 + i]
  BY <1>1, <1>2
<1> QED
  BY <1>1, <1>2, <1>3 DEF FromTheRight

(* ... and a topic that has them there is of the format. *)
LEMMA FromTheRightFormat ==
  ASSUME NEW l \in Seq(STRING), FromTheRight(l)
  PROVE  HasFormat(l, l[Len(l) - 2], l[Len(l) - 1])
<1> DEFINE depth == Len(l) - 5
           named == SubSeq(l, depth + 2, Len(l))
<1>1. depth \in 0..Len(l) /\ l # <<>> /\ Head(l) = "msh"
  BY DEF FromTheRight
<1>2. Len(named) = 4 /\ \A i \in 1..4 : named[i] = l[depth + 1 + i]
  BY <1>1
<1>3. named[2] = l[Len(l) - 2] /\ named[3] = l[Len(l) - 1] /\ named[4] \in NodeLevels
  BY <1>1, <1>2 DEF FromTheRight
<1> QED
  BY <1>1, <1>2, <1>3 DEF HasFormat

(* So the parser finds the packet topics, with their encoding and channel, at any depth
   of the prefix. *)
LEMMA ParsedAsWritten ==
  ASSUME NEW l \in Seq(STRING)
  PROVE  /\ IsPacket(l) <=> parse_meshtastic_topic(l) # NotPacket
         /\ IsPacket(l) => /\ parse_meshtastic_topic(l).encoding = Encoding(l)
                           /\ parse_meshtastic_topic(l).channel = Channel(l)
<1>1. CASE FromTheRight(l)
  <2> DEFINE enc == l[Len(l) - 2]
             ch == l[Len(l) - 1]
  <2>1. HasFormat(l, enc, ch)
    BY <1>1, FromTheRightFormat
  <2>2. enc \in Encodings /\ enc \in STRING /\ ch \in LevelsOf(l)
    BY <1>1 DEF FromTheRight, LevelsOf
  <2>3. \A e \in Encodings : \A c : HasFormat(l, e, c) => e = enc /\ c = ch
    BY FormatFromTheRight
  <2> HIDE DEF enc, ch
  <2>4. IsPacket(l) /\ Encoding(l) = enc /\ Channel(l) = ch
    <3>1. IsPacket(l)
      BY <2>1, <2>2 DEF IsPacket
    <3>2. \A e \in Encodings : (\E c \in LevelsOf(l) : HasFormat(l, e, c)) <=> e = enc
      BY <2>1, <2>2, <2>3
    <3>3. \A c \in LevelsOf(l) : (\E e \in Encodings : HasFormat(l, e, c)) <=> c = ch
      BY <2>1, <2>2, <2>3
    <3>4. Encoding(l) = enc
      BY <2>2, <3>2 DEF Encoding
    <3>5. Channel(l) = ch
      BY <2>2, <3>3 DEF Channel
    <3> QED
      BY <3>1, <3>4, <3>5
  <2>5. parse_meshtastic_topic(l) = [channel |-> ch, encoding |-> enc]
    BY <1>1 DEF FromTheRight, Encodings, parse_meshtastic_topic, enc, ch
  <2>6. parse_meshtastic_topic(l) # NotPacket
    BY <2>2, <2>5, PolicyAssumption DEF NotPacket
  <2> QED
    BY <2>4, <2>5, <2>6
<1>2. CASE ~FromTheRight(l)
  <2>1. ~IsPacket(l)
    BY <1>2, FormatFromTheRight DEF IsPacket
  <2>2. parse_meshtastic_topic(l) = NotPacket
    BY <1>2 DEF FromTheRight, Encodings, parse_meshtastic_topic
  <2> QED
    BY <2>1, <2>2
<1> QED
  BY <1>1, <1>2

(* The encoding of a packet topic is one of the two that floodgate reads. *)
LEMMA PacketEncoding ==
  ASSUME NEW l, IsPacket(l)
  PROVE  Encoding(l) \in {"e", "json"}
  BY DEF IsPacket, Encoding, Encodings

(* A decision to modify is about a readable packet on a packet topic that has hops
   left, and sets its hop limit to 0. *)
LEMMA ModifyZeroes ==
  ASSUME NEW c, NEW l, NEW p, Carries(l, p),
         process_message(c, l, p).action = "modify"
  PROVE  /\ IsPacket(l) /\ Readable(l, p)
         /\ HopsLeft(l, p) # 0
         /\ process_message(c, l, p).payload = NoHops(p)
<1> DEFINE d == decide(c, l, p)
<1>1. d.action = "modify" /\ process_message(c, l, p).payload = d.payload
  BY DEF process_message
<1>0. l \in Seq(STRING)
  BY DEF Carries
<1>2. IsPacket(l) /\ d.payload = zerohop(Encoding(l), p).modified
        /\ zerohop(Encoding(l), p) # Unreadable
        /\ zerohop(Encoding(l), p).old_hop # 0
  BY <1>0, <1>1, ParsedAsWritten DEF decide, Result
<1>3. CASE Encoding(l) = "json"
  <2>1. p \in JsonPayloads
    BY <1>2, <1>3 DEF Carries
  <2>2. zerohop(Encoding(l), p) = zerohop_json(p)
    BY <1>3 DEF zerohop
  <2>3. Readable(l, p)
    BY <1>2, <1>3, <2>1, <2>2 DEF zerohop_json, Readable
  <2>4. /\ zerohop_json(p).old_hop = json_old_hop(p)
        /\ zerohop_json(p).modified = NoHops(p)
    BY <1>2, <1>3, <2>2 DEF zerohop_json, AlreadyZero, NoHops
  <2>5. json_old_hop(p) = HopsLeft(l, p)
    BY <2>1, <2>3, <1>3, PolicyAssumption
       DEF json_old_hop, HopsLeft, Readable, JsonPayloads, HopField
  <2> QED
    BY <1>1, <1>2, <2>2, <2>3, <2>4, <2>5
<1>4. CASE Encoding(l) = "e"
  <2>1. p \in ProtobufPayloads
    BY <1>2, <1>4 DEF Carries
  <2>2. zerohop(Encoding(l), p) = zerohop_protobuf(p)
    BY <1>4 DEF zerohop
  <2> QED
    BY <1>1, <1>2, <1>4, <2>1, <2>2
       DEF zerohop_protobuf, Readable, HopsLeft, NoHops, AlreadyZero
<1> QED
  BY <1>2, <1>3, <1>4, PacketEncoding

(* A packet that process_message could read and log, on a zero-hop channel, is
   denied, zeroed, or had no hops left. *)
LEMMA LiveIsStopped ==
  ASSUME NEW c, NEW l, NEW p, Carries(l, p), Readable(l, p), Loggable(l, p),
         OnZerohopChannel(c, l),
         process_message(c, l, p).action = "passthru"
  PROVE  HopsLeft(l, p) = 0
<1> DEFINE d == decide(c, l, p)
<1>1. IsPacket(l)
  BY DEF Readable
<1>0. parse_meshtastic_topic(l) # NotPacket
      /\ parse_meshtastic_topic(l).encoding = Encoding(l)
      /\ parse_meshtastic_topic(l).channel = Channel(l)
  BY <1>1, ParsedAsWritten DEF Carries
<1>2. ~formatting_raises(l, p, d)
  BY <1>0 DEF formatting_raises, peek_meta, fmt_node_raises, Loggable
<1>3. d.action = "passthru"
  BY <1>2 DEF process_message
<1>4. \/ zerohop(Encoding(l), p) = Unreadable
      \/ zerohop(Encoding(l), p).old_hop = 0
  BY <1>0, <1>3 DEF decide, Result, OnZerohopChannel
<1>5. CASE Encoding(l) = "json"
  <2>1. p \in JsonPayloads
    BY <1>1, <1>5 DEF Carries
  <2>2. zerohop(Encoding(l), p).old_hop = json_old_hop(p)
    BY <1>5, <2>1 DEF zerohop, zerohop_json, Readable, AlreadyZero
  <2>3. json_old_hop(p) = HopsLeft(l, p) /\ json_old_hop(p) \in Int
    BY <2>1, <1>5, PolicyAssumption
       DEF json_old_hop, HopsLeft, Readable, JsonPayloads, HopField
  <2> QED
    BY <1>4, <2>2, <2>3, PolicyAssumption DEF Unreadable
<1>6. CASE Encoding(l) = "e"
  <2>1. p \in ProtobufPayloads
    BY <1>1, <1>6 DEF Carries
  <2>2. zerohop(Encoding(l), p).old_hop = p.hop_limit
    BY <1>6, <2>1 DEF zerohop, zerohop_protobuf, Readable, AlreadyZero
  <2> QED
    BY <1>4, <1>6, <2>1, <2>2, PolicyAssumption DEF Unreadable, HopsLeft, ProtobufPayloads
<1> QED
  BY <1>1, <1>5, <1>6, PacketEncoding

(* The rewritten packet is again one that the topic can carry, and its hops are gone. *)
LEMMA NoHopsLeft ==
  ASSUME NEW l, NEW p, Carries(l, p), IsPacket(l), Readable(l, p)
  PROVE  Carries(l, NoHops(p)) /\ HopsLeft(l, NoHops(p)) = 0
<1>1. CASE Encoding(l) = "json"
  <2>1. p \in JsonPayloads
    BY <1>1 DEF Carries
  <2>2. NoHops(p) \in JsonPayloads /\ NoHops(p).hop_limit = 0
    BY <2>1 DEF NoHops, JsonPayloads, HopField
  <2> QED
    BY <1>1, <2>2, PolicyAssumption DEF Carries, HopsLeft
<1>2. CASE Encoding(l) = "e"
  <2>1. p \in ProtobufPayloads
    BY <1>2 DEF Carries
  <2>2. NoHops(p) \in ProtobufPayloads /\ NoHops(p).hop_limit = 0
    BY <2>1 DEF NoHops, ProtobufPayloads
  <2> QED
    BY <1>2, <2>2, PolicyAssumption DEF Carries, HopsLeft
<1> QED
  BY <1>1, <1>2, PacketEncoding

(* process_message answers with one of the three actions, having counted once or
   twice. *)
LEMMA ResultShape ==
  ASSUME NEW c, NEW l, NEW p
  PROVE  /\ process_message(c, l, p).action \in {"passthru", "modify", "drop"}
         /\ Len(process_message(c, l, p).counted) \in {1, 2}
<1>1. decide(c, l, p).action \in {"passthru", "modify", "drop"}
  BY DEF decide, Result
<1>2. process_message(c, l, p).action \in {"passthru", decide(c, l, p).action}
  BY DEF process_message
<1>3. process_message(c, l, p).counted \in
         {<<decide(c, l, p).counter>>, <<decide(c, l, p).counter, "errors">>}
  BY DEF process_message
<1> QED
  BY <1>1, <1>2, <1>3
=============================================================================
