---------------------------- MODULE PacketJourney ----------------------------
(***************************************************************************)
(* One packet that meets floodgate several times: brokers are bridged and  *)
(* gateways uplink what they heard, so what floodgate delivered is         *)
(* published again, and in between an operator may restart floodgate with  *)
(* another configuration.  Each trip is one call of process_message.       *)
(***************************************************************************)
EXTENDS Packets

CONSTANTS Configs,          \* the configurations floodgate may run with
          Messages          \* the [levels, payload] records first published

ASSUME JourneyAssumption ==
  \A m \in Messages : Carries(m.levels, m.payload)

VARIABLES config,           \* what the running floodgate loaded
          levels,           \* the topic, level by level
          sent,             \* the payload as first published
          payload,          \* the payload as last delivered
          verdict,          \* what the last process_message returned
          rewrites          \* how many trips rewrote the payload

vars == <<config, levels, sent, payload, verdict, rewrites>>

(* Since the start of this floodgate process the packet has not met it. *)
NoVerdict == [counted |-> <<>>, action |-> "none", payload |-> None]

Init == /\ config \in Configs
        /\ \E m \in Messages : levels = m.levels /\ sent = m.payload
        /\ payload = sent
        /\ verdict = NoVerdict
        /\ rewrites = 0

Denied == verdict.action = "drop"

Trip == LET r == process_message(config, levels, payload)
        IN  /\ ~Denied
            /\ verdict' = r
            /\ payload' = Deliverable(payload, r)
            /\ rewrites' = rewrites + (IF r.action = "modify" THEN 1 ELSE 0)
            /\ UNCHANGED <<config, levels, sent>>

Restart == /\ ~Denied
           /\ config' \in Configs
           /\ verdict' = NoVerdict
           /\ UNCHANGED <<levels, sent, payload, rewrites>>

Next == Trip \/ Restart

Spec == Init /\ [][Next]_vars

-----------------------------------------------------------------------------
TypeOK == /\ config \in Configs
          /\ Carries(levels, sent)
          /\ Carries(levels, payload)
          /\ rewrites \in Nat
          /\ \/ verdict = NoVerdict
             \/ /\ verdict.action \in {"passthru", "modify", "drop"}
                /\ Len(verdict.counted) \in {1, 2}

(***************************************************************************)
(* A packet that floodgate could read and has just let through on a        *)
(* zero-hop channel has no hops left, in whichever of the two forms the    *)
(* hops are spelt.  (The log line is the one thing that can come between:  *)
(* an id it cannot format makes process_message fall back to the original.)*)
(***************************************************************************)
NoLiveEscape ==
  /\ verdict.action \in {"passthru", "modify"}
  /\ Readable(levels, payload)
  /\ OnZerohopChannel(config, levels)
  /\ Loggable(levels, payload)
  => HopsLeft(levels, payload) = 0

(***************************************************************************)
(* However many trips and configurations, only hop_limit ever differs from *)
(* what was sent, and then it is 0: hop_start in particular stays as the   *)
(* sender set it (older releases zeroed it as well).                       *)
(***************************************************************************)
OnlyHopLimitChanges ==
  payload # sent => payload = [sent EXCEPT !.hop_limit = 0]

(***************************************************************************)
(* The rewrite is recognised as its own: a packet is rewritten at most     *)
(* once on its whole journey, so bridged brokers do not rewrite (and       *)
(* count) it over and over.  On JSON it rests on hop_limit taking          *)
(* precedence over hop_start and hops_away, which stay.                    *)
(***************************************************************************)
RewrittenOnce == rewrites <= 1

(***************************************************************************)
(* No step gives a packet hops: it keeps those it has, or has none.        *)
(***************************************************************************)
HopsNeverGrow ==
  [][Readable(levels, payload) =>
       HopsLeft(levels, payload') \in {0, HopsLeft(levels, payload)}]_vars
=============================================================================
