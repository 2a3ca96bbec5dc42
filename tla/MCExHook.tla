------------------------------ MODULE MCExHook ------------------------------
(***************************************************************************)
(* A small instance of ExHook: both filters on, and one message for every  *)
(* way a call can end.                                                     *)
(***************************************************************************)
EXTENDS ExHook

MCNodeLevels == {"!deadbeef"}

MCConfig == [zerohop_enabled |-> TRUE, zerohop_channels |-> {"LongFast"},
             drop_enabled |-> TRUE, drop_channels |-> {"LongFast"},
             drop_portnums |-> {"TELEMETRY_APP"}]

OnLongFast(enc, payload) ==
  [levels |-> <<"msh", "US", "2", enc, "LongFast", "!deadbeef">>, payload |-> payload]

Encrypted(hops, portnum) ==
  [shape |-> "packet", hop_limit |-> hops, hop_start |-> 3, variant |-> "encrypted",
   decrypts_to |-> portnum]

Live == OnLongFast("e", Encrypted(3, "TEXT_MESSAGE_APP"))       \* zerohop
CustomKey == OnLongFast("e", Encrypted(3, None))                \* zerohop, never dropped
Telemetry == OnLongFast("e", Encrypted(3, "TELEMETRY_APP"))     \* dropped
Unparsable == OnLongFast("e", [Encrypted(3, None) EXCEPT !.shape = "unparsable"])   \* warn

(* JSON telemetry whose `from` is a list: counted as dropped, then the log line raises. *)
OddSender ==
  OnLongFast("json", [shape |-> "object", hop_limit |-> Absent, hop_start |-> 3,
                      hops_away |-> 1, decoded_portnum |-> Absent, portnum |-> Absent,
                      type |-> "telemetry", ids |-> "unformattable"])

MCMessages == {Live, Telemetry, OddSender}
LoggableMessages == {Live, CustomKey, Telemetry, Unparsable}
=============================================================================
