------------------------- MODULE PacketJourneyProofs -------------------------
(***************************************************************************)
(* Theorems about PacketJourney, for every set of configurations and       *)
(* messages and every integer a hop field can hold.                        *)
(***************************************************************************)
EXTENDS PacketJourney, PacketPolicyProofs, TLAPS

(* The packet is as it was sent, or it was rewritten once and has no hops left. *)
UntouchedOrZeroed ==
  \/ payload = sent /\ rewrites = 0
  \/ /\ payload = NoHops(sent) /\ rewrites = 1
     /\ IsPacket(levels) /\ HopsLeft(levels, payload) = 0

(* The last verdict is about the configuration that is still loaded. *)
VerdictHeld ==
  \/ verdict = NoVerdict
  \/ /\ verdict.action \in {"passthru", "modify", "drop"}
     /\ Len(verdict.counted) \in {1, 2}

IInv == /\ config \in Configs
        /\ Carries(levels, sent)
        /\ Carries(levels, payload)
        /\ UntouchedOrZeroed
        /\ VerdictHeld
        /\ NoLiveEscape

-----------------------------------------------------------------------------

(* A packet that was just sent is untouched. *)
LEMMA InitIInv == Init => IInv
<1> SUFFICES ASSUME Init PROVE IInv
  OBVIOUS
<1>1. Carries(levels, sent)
  BY JourneyAssumption DEF Init
<1> QED
  BY <1>1 DEF Init, IInv, UntouchedOrZeroed, VerdictHeld, NoLiveEscape, NoVerdict

(* A trip is a rewrite that the packet has not had before, or leaves it as it is. *)
LEMMA TripChanges ==
  ASSUME IInv, Trip
  PROVE  \/ /\ verdict'.action = "modify" /\ payload = sent
            /\ payload' = NoHops(payload) /\ rewrites' = 1
            /\ IsPacket(levels) /\ Readable(levels, payload)
         \/ verdict'.action # "modify" /\ payload' = payload /\ rewrites' = rewrites
<1>1. verdict' = process_message(config, levels, payload)
  BY DEF Trip
<1>2. CASE verdict'.action = "modify"
  <2>1. /\ IsPacket(levels) /\ Readable(levels, payload)
        /\ HopsLeft(levels, payload) # 0
        /\ verdict'.payload = NoHops(payload)
    BY <1>1, <1>2, ModifyZeroes DEF IInv
  <2>2. payload = sent /\ rewrites = 0
    BY <2>1 DEF IInv, UntouchedOrZeroed
  <2> QED
    BY <1>1, <1>2, <2>1, <2>2 DEF Trip, Deliverable
<1>3. CASE verdict'.action # "modify"
  <2>1. payload' = payload
    BY <1>1, <1>3 DEF Trip, Deliverable
  <2>2. rewrites \in Nat
    BY DEF IInv, UntouchedOrZeroed
  <2> QED
    BY <1>1, <1>3, <2>1, <2>2 DEF Trip
<1> QED
  BY <1>2, <1>3

(* A trip keeps the packet untouched, or zeroed once. *)
LEMMA TripIInv ==
  ASSUME IInv, Trip
  PROVE  IInv'
<1>1. UNCHANGED <<config, levels, sent>> /\ verdict' = process_message(config, levels, payload)
  BY DEF Trip
<1>2. VerdictHeld'
  BY <1>1, ResultShape DEF VerdictHeld
<1>3. CASE /\ verdict'.action = "modify" /\ payload = sent
           /\ payload' = NoHops(payload) /\ rewrites' = 1
           /\ IsPacket(levels) /\ Readable(levels, payload)
  <2>1. Carries(levels, payload') /\ HopsLeft(levels, payload') = 0
    BY <1>3, NoHopsLeft DEF IInv
  <2> QED
    BY <1>1, <1>2, <1>3, <2>1 DEF IInv, UntouchedOrZeroed, NoLiveEscape
<1>4. CASE verdict'.action # "modify" /\ payload' = payload /\ rewrites' = rewrites
  <2>1. NoLiveEscape'
    BY <1>1, <1>4, LiveIsStopped DEF IInv, NoLiveEscape
  <2> QED
    BY <1>1, <1>2, <1>4, <2>1 DEF IInv, UntouchedOrZeroed
<1> QED
  BY <1>3, <1>4, TripChanges

(* IInv is inductive. *)
LEMMA NextIInv == IInv /\ [Next]_vars => IInv'
<1> SUFFICES ASSUME IInv, [Next]_vars PROVE IInv'
  OBVIOUS
<1>1. CASE Trip
  BY <1>1, TripIInv
<1>2. CASE Restart
  BY <1>2 DEF Restart, IInv, UntouchedOrZeroed, VerdictHeld, NoLiveEscape, NoVerdict
<1>3. CASE UNCHANGED vars
  BY <1>3 DEF vars, IInv, UntouchedOrZeroed, VerdictHeld, NoLiveEscape
<1> QED
  BY <1>1, <1>2, <1>3 DEF Next

(* IInv holds in every reachable state. *)
LEMMA AlwaysIInv == Spec => []IInv
  BY InitIInv, NextIInv, PTL DEF Spec

-----------------------------------------------------------------------------

(* Every payload that reaches process_message, its own rewrites included, is one that
   the topic can carry, and every verdict is one of the three actions. *)
THEOREM JourneyTypeCorrect == Spec => []TypeOK
<1>1. IInv => TypeOK
  BY DEF IInv, TypeOK, VerdictHeld, UntouchedOrZeroed
<1> QED
  BY AlwaysIInv, <1>1, PTL

(* For every configuration and every integer hop field: what floodgate could read and
   let through on a zero-hop channel has no hops left. *)
THEOREM NothingLiveEscapes == Spec => []NoLiveEscape
<1>1. IInv => NoLiveEscape
  BY DEF IInv
<1> QED
  BY AlwaysIInv, <1>1, PTL

(* After any number of trips a packet differs from what was sent in hop_limit only. *)
THEOREM HopLimitOnly == Spec => []OnlyHopLimitChanges
<1>1. IInv => OnlyHopLimitChanges
  BY DEF IInv, UntouchedOrZeroed, OnlyHopLimitChanges, NoHops
<1> QED
  BY AlwaysIInv, <1>1, PTL

(* However often a packet comes by, floodgate rewrites it once. *)
THEOREM OneRewrite == Spec => []RewrittenOnce
<1>1. IInv => RewrittenOnce
  BY DEF IInv, UntouchedOrZeroed, RewrittenOnce
<1> QED
  BY AlwaysIInv, <1>1, PTL

(* No trip gives a packet hops it did not have. *)
THEOREM NoHopsGained == Spec => HopsNeverGrow
<1>1. IInv /\ [Next]_vars =>
        [Readable(levels, payload) =>
           HopsLeft(levels, payload') \in {0, HopsLeft(levels, payload)}]_vars
  <2> SUFFICES ASSUME IInv, Next, Readable(levels, payload)
               PROVE  HopsLeft(levels, payload') \in {0, HopsLeft(levels, payload)}
    OBVIOUS
  <2>1. CASE Trip
    <3>1. CASE payload' = NoHops(payload) /\ IsPacket(levels)
      BY <3>1, NoHopsLeft DEF IInv
    <3>2. CASE payload' = payload
      BY <3>2
    <3> QED
      BY <2>1, <3>1, <3>2, TripChanges
  <2>2. CASE Restart
    BY <2>2 DEF Restart
  <2> QED
    BY <2>1, <2>2 DEF Next
<1> QED
  BY AlwaysIInv, <1>1, PTL DEF Spec, HopsNeverGrow
=============================================================================
