---------------------------- MODULE ExHookProofs ----------------------------
(***************************************************************************)
(* Theorems about ExHook, for any number of publishes, workers, crashes    *)
(* and connections, any configuration and any messages.  The inductive     *)
(* invariant follows an answer from the worker that takes the decision to  *)
(* the broker that applies it: at every stage it is the one the policy     *)
(* gives for the message that the call carries.                            *)
(***************************************************************************)
EXTENDS ExHook, PacketPolicyProofs, FiniteSetTheorems, TLAPS

Verdict(m) == process_message(Config, m.levels, m.payload)
Decision(m) == decide(Config, m.levels, m.payload)

(* Formatting the log line of the decision about m raises. *)
Raises(m) == formatting_raises(m.levels, m.payload, Decision(m))

Functional == /\ delivered = [p \in Publishes |-> delivered[p]]
              /\ result = [w \in Workers |-> result[w]]

(* A call is in floodgate only after EMQX has made it. *)
CallsMade ==
  /\ \A i \in 1..Len(queue) : fate[queue[i]] # "new"
  /\ \A w \in Workers : step[w] # "idle" => call[w] \in Publishes /\ fate[call[w]] # "new"
  /\ \A r \in replies : fate[r.call] # "new"

MessagesSent ==
  \A p \in Publishes : fate[p] # "new" => message[p] \in Messages

(* What a worker holds is the decision about the message of its own call. *)
WorkRight ==
  \A w \in Workers :
     /\ step[w] = "log" => result[w] = Decision(message[call[w]])
     /\ step[w] = "respond" => /\ Raises(message[call[w]])
                               /\ result[w] = Result("errors", "passthru", None)

(* An answer on its way is the one for the call it answers. *)
RepliesRight ==
  \A r \in replies :
     r.response = OnMessagePublish(Verdict(message[r.call]), message[r.call])

(* What was settled without a failure was settled by the policy. *)
SettledRight ==
  \A p \in Publishes \ failed :
     fate[p] = "delivered" =>
       /\ Verdict(message[p]).action # "drop"
       /\ delivered[p] = Deliverable(message[p].payload, Verdict(message[p]))

IInv == /\ TypeOK
        /\ Functional
        /\ CallsMade
        /\ MessagesSent
        /\ WorkRight
        /\ RepliesRight
        /\ SettledRight

-----------------------------------------------------------------------------

(* Nothing is under way at the start. *)
LEMMA InitIInv == Init => IInv
<1> SUFFICES ASSUME Init PROVE IInv
  OBVIOUS
<1>1. TypeOK
  BY ExHookAssumption DEF Init, TypeOK, NoMessage, CounterNames
<1>2. Functional /\ CallsMade /\ MessagesSent /\ WorkRight /\ RepliesRight /\ SettledRight
  BY DEF Init, Functional, CallsMade, MessagesSent, WorkRight, RepliesRight, SettledRight
<1> QED
  BY <1>1, <1>2 DEF IInv

(* Every decision is counted under one of the six names, and asks for one of the three
   actions. *)
LEMMA DecisionShape ==
  ASSUME NEW c, NEW l, NEW p
  PROVE  /\ decide(c, l, p).counter \in CounterNames
         /\ decide(c, l, p).action \in {"passthru", "modify", "drop"}
  BY DEF decide, Result, CounterNames

(* OnMessagePublish reads the action, and the payload of a rewrite, of a result. *)
(* When the log line can be made, the decision is what process_message returns. *)
LEMMA ResponseOfLogged ==
  ASSUME NEW m, ~Raises(m)
  PROVE  OnMessagePublish(Decision(m), m) = OnMessagePublish(Verdict(m), m)
  BY DEF Raises, Decision, Verdict, process_message, OnMessagePublish

(* When it cannot, the error result is. *)
LEMMA ResponseOfRaised ==
  ASSUME NEW m, Raises(m)
  PROVE  OnMessagePublish(Result("errors", "passthru", None), m)
           = OnMessagePublish(Verdict(m), m)
  BY DEF Raises, Decision, Verdict, process_message, OnMessagePublish, Result

(* A new publish touches no call that is under way. *)
LEMMA PublishIInv ==
  ASSUME IInv, NEW p \in Publishes, NEW m \in Messages, Publish(p, m)
  PROVE  IInv'
<1> USE DEF IInv
<1>1. /\ message' = [message EXCEPT ![p] = m]
      /\ fate[p] = "new" /\ fate' = [fate EXCEPT ![p] = "calling"]
      /\ queue' = IF up THEN Append(queue, p) ELSE queue
      /\ UNCHANGED <<delivered, failed, up, crashes, call, step, result, replies, counters>>
  BY DEF Publish, workers
<1>2. TypeOK'
  BY <1>1 DEF TypeOK
<1>3. \A q \in Publishes : fate[q] # "new" => message'[q] = message[q] /\ fate'[q] = fate[q]
  BY <1>1 DEF TypeOK
<1>4. CallsMade'
  <2>1. \A i \in 1..Len(queue') : fate'[queue'[i]] # "new"
    <3>1. CASE up
      BY <1>1, <3>1 DEF TypeOK, CallsMade
    <3>2. CASE ~up
      BY <1>1, <3>2 DEF TypeOK, CallsMade
    <3> QED
      BY <3>1, <3>2
  <2>2. \A w \in Workers :
           step'[w] # "idle" => call'[w] \in Publishes /\ fate'[call'[w]] # "new"
    BY <1>1, <1>3 DEF CallsMade
  <2>3. \A r \in replies' : fate'[r.call] # "new"
    BY <1>1, <1>3 DEF CallsMade, TypeOK
  <2> QED
    BY <2>1, <2>2, <2>3 DEF CallsMade
<1>5. MessagesSent'
  BY <1>1 DEF MessagesSent, TypeOK
<1>6. WorkRight'
  BY <1>1, <1>3 DEF WorkRight, CallsMade
<1>7. RepliesRight'
  BY <1>1, <1>3 DEF RepliesRight, CallsMade, TypeOK
<1>8. SettledRight'
  BY <1>1, <1>3 DEF SettledRight, TypeOK
<1>9. Functional'
  BY <1>1 DEF Functional
<1> QED
  BY <1>2, <1>4, <1>5, <1>6, <1>7, <1>8, <1>9

(* A failed call leaves floodgate's side as it is, and is not held to the policy. *)
LEMMA FailOpenIInv ==
  ASSUME IInv, NEW p \in Publishes, FailOpen(p)
  PROVE  IInv'
<1> USE DEF IInv
<1>1. /\ fate[p] = "calling" /\ fate' = [fate EXCEPT ![p] = "delivered"]
      /\ delivered' = [delivered EXCEPT ![p] = message[p].payload]
      /\ failed' = failed \cup {p}
      /\ UNCHANGED <<message, up, crashes, queue, call, step, result, replies, counters>>
  BY DEF FailOpen, workers
<1>2. TypeOK'
  BY <1>1 DEF TypeOK
<1>3. \A q \in Publishes : fate'[q] = "new" <=> fate[q] = "new"
  BY <1>1 DEF TypeOK
<1>4. CallsMade' /\ MessagesSent'
  BY <1>1, <1>3 DEF CallsMade, MessagesSent, TypeOK
<1>5. WorkRight' /\ RepliesRight'
  BY <1>1 DEF WorkRight, RepliesRight
<1>6. SettledRight'
  BY <1>1 DEF SettledRight, TypeOK, Functional
<1>7. Functional'
  BY <1>1 DEF Functional
<1> QED
  BY <1>2, <1>4, <1>5, <1>6, <1>7

(* An answer that EMQX waits for settles the publish as the policy says. *)
LEMMA ReceiveSettles ==
  ASSUME IInv, NEW r \in replies, Receive(r), fate[r.call] = "calling"
  PROVE  LET p == r.call
             v == Verdict(message[p])
         IN  /\ p \in Publishes
             /\ UNCHANGED <<message, failed>>
             /\ \/ /\ v.action = "drop"
                   /\ fate' = [fate EXCEPT ![p] = "denied"] /\ delivered' = delivered
                \/ /\ v.action # "drop"
                   /\ fate' = [fate EXCEPT ![p] = "delivered"]
                   /\ delivered' = [delivered EXCEPT ![p] = Deliverable(message[p].payload, v)]
<1> DEFINE p == r.call
           v == Verdict(message[p])
<1>1. p \in Publishes /\ r.response = OnMessagePublish(v, message[p])
  BY DEF IInv, TypeOK, RepliesRight
<1>2. /\ r.response.allow_publish = (v.action # "drop")
      /\ v.action # "drop" => (r.response.type = "IGNORE" <=> v.action = "passthru")
      /\ r.response.payload = IF v.action = "modify" THEN v.payload ELSE message[p].payload
  BY <1>1 DEF OnMessagePublish
<1>3. v.action \in {"passthru", "modify", "drop"}
  BY ResultShape DEF Verdict
<1>4. CASE v.action = "drop"
  <2>1. delivered' = [delivered EXCEPT ![p] = delivered[p]]
    BY <1>2, <1>4 DEF Receive
  <2>2. delivered' = delivered
    BY <1>1, <2>1 DEF IInv, Functional
  <2> QED
    BY <1>1, <1>2, <1>4, <2>2 DEF Receive
<1>5. CASE v.action # "drop"
  BY <1>1, <1>2, <1>3, <1>5 DEF Receive, Deliverable
<1> QED
  BY <1>4, <1>5

(* An answer settles its own publish by the policy, or comes too late and is dropped. *)
LEMMA ReceiveIInv ==
  ASSUME IInv, NEW r \in replies, Receive(r)
  PROVE  IInv'
<1> USE DEF IInv
<1>1. /\ replies' = replies \ {r}
      /\ UNCHANGED <<message, failed, up, crashes, queue, call, step, result, counters>>
  BY DEF Receive, broker, workers
<1>2. CASE fate[r.call] # "calling"
  <2>1. fate' = fate /\ delivered' = delivered
    BY <1>2 DEF Receive, broker
  <2>2. TypeOK' /\ Functional'
    BY <1>1, <2>1 DEF TypeOK, Functional
  <2>3. CallsMade' /\ MessagesSent' /\ WorkRight' /\ RepliesRight' /\ SettledRight'
    BY <1>1, <2>1 DEF CallsMade, MessagesSent, WorkRight, RepliesRight, SettledRight
  <2> QED
    BY <2>2, <2>3
<1>3. CASE fate[r.call] = "calling"
  <2> DEFINE p == r.call
             v == Verdict(message[p])
  <2>1. /\ p \in Publishes
        /\ \/ /\ v.action = "drop"
              /\ fate' = [fate EXCEPT ![p] = "denied"] /\ delivered' = delivered
           \/ /\ v.action # "drop"
              /\ fate' = [fate EXCEPT ![p] = "delivered"]
              /\ delivered' = [delivered EXCEPT ![p] = Deliverable(message[p].payload, v)]
    BY <1>3, ReceiveSettles
  <2>2. TypeOK' /\ Functional'
    BY <1>1, <2>1 DEF TypeOK, Functional
  <2>3. \A q \in Publishes : fate'[q] = "new" <=> fate[q] = "new"
    BY <1>3, <2>1 DEF TypeOK
  <2>4. CallsMade' /\ MessagesSent'
    BY <1>1, <2>3 DEF CallsMade, MessagesSent, TypeOK
  <2>5. WorkRight' /\ RepliesRight'
    BY <1>1 DEF WorkRight, RepliesRight
  <2>6. SettledRight'
    BY <1>1, <2>1 DEF SettledRight, TypeOK, Functional
  <2> QED
    BY <2>2, <2>4, <2>5, <2>6
<1> QED
  BY <1>2, <1>3

(* A worker takes a call that EMQX has made. *)
LEMMA TakeIInv ==
  ASSUME IInv, NEW w \in Workers, Take(w)
  PROVE  IInv'
<1> USE DEF IInv
<1>1. /\ queue # <<>> /\ queue' = Tail(queue)
      /\ call' = [call EXCEPT ![w] = Head(queue)]
      /\ step' = [step EXCEPT ![w] = "decide"]
      /\ UNCHANGED <<message, fate, delivered, failed, up, crashes, result, replies, counters>>
  BY DEF Take, broker
<1>2. Head(queue) \in Publishes /\ fate[Head(queue)] # "new"
  BY <1>1 DEF TypeOK, CallsMade
<1>3. TypeOK' /\ Functional'
  BY <1>1, <1>2 DEF TypeOK, Functional
<1>4. CallsMade'
  <2>1. \A i \in 1..Len(queue') : fate[queue'[i]] # "new"
    BY <1>1 DEF TypeOK, CallsMade
  <2> QED
    BY <1>1, <1>2, <2>1 DEF CallsMade, TypeOK
<1>5. MessagesSent' /\ WorkRight' /\ RepliesRight' /\ SettledRight'
  BY <1>1 DEF MessagesSent, WorkRight, RepliesRight, SettledRight, TypeOK
<1> QED
  BY <1>3, <1>4, <1>5

(* Skipping a cancelled call forgets the call and nothing else. *)
LEMMA SkipCancelledIInv ==
  ASSUME IInv, NEW w \in Workers, SkipCancelled(w)
  PROVE  IInv'
<1> USE DEF IInv
<1>1. /\ queue # <<>> /\ queue' = Tail(queue)
      /\ UNCHANGED <<message, fate, delivered, failed, up, crashes, call, step, result,
                     replies, counters>>
  BY DEF SkipCancelled, broker, workers
<1>2. TypeOK' /\ Functional'
  BY <1>1 DEF TypeOK, Functional
<1>3. \A i \in 1..Len(queue') : fate[queue'[i]] # "new"
  BY <1>1 DEF TypeOK, CallsMade
<1>4. CallsMade' /\ MessagesSent' /\ WorkRight' /\ RepliesRight' /\ SettledRight'
  BY <1>1, <1>3 DEF CallsMade, MessagesSent, WorkRight, RepliesRight, SettledRight
<1> QED
  BY <1>2, <1>4

(* A worker decides about, and counts, the message of its own call. *)
LEMMA DecideIInv ==
  ASSUME IInv, NEW w \in Workers, Decide(w)
  PROVE  IInv'
<1> USE DEF IInv
<1> DEFINE r == Decision(message[call[w]])
<1>1. /\ step[w] = "decide" /\ step' = [step EXCEPT ![w] = "log"]
      /\ result' = [result EXCEPT ![w] = r]
      /\ counters' = [counters EXCEPT ![r.counter] = @ + 1]
      /\ UNCHANGED <<message, fate, delivered, failed, up, crashes, queue, call, replies>>
  BY DEF Decide, Decision, broker
<1>2. r.counter \in CounterNames
  BY DecisionShape DEF Decision
<1> HIDE DEF r
<1>3. TypeOK' /\ Functional'
  <2>1. counters' \in [CounterNames -> Nat]
    BY <1>1, <1>2 DEF TypeOK
  <2>2. step' \in [Workers -> {"idle", "decide", "log", "respond"}]
    BY <1>1 DEF TypeOK
  <2> QED
    BY <1>1, <2>1, <2>2 DEF TypeOK, Functional
<1>4. WorkRight'
  BY <1>1 DEF WorkRight, TypeOK, Functional, r
<1>5. CallsMade' /\ MessagesSent' /\ RepliesRight' /\ SettledRight'
  BY <1>1 DEF CallsMade, MessagesSent, RepliesRight, SettledRight, TypeOK
<1> QED
  BY <1>3, <1>4, <1>5

(* A log line that raises turns the result into the one process_message returns then. *)
LEMMA LogRaisesIInv ==
  ASSUME IInv, NEW w \in Workers, LogRaises(w)
  PROVE  IInv'
<1> USE DEF IInv
<1>1. /\ step[w] = "log" /\ step' = [step EXCEPT ![w] = "respond"]
      /\ FormattingRaises(w)
      /\ result' = [result EXCEPT ![w] = Result("errors", "passthru", None)]
      /\ counters' = [counters EXCEPT !["errors"] = @ + 1]
      /\ UNCHANGED <<message, fate, delivered, failed, up, crashes, queue, call, replies>>
  BY DEF LogRaises, broker
<1>2. Raises(message[call[w]])
  BY <1>1 DEF WorkRight, FormattingRaises, Raises
<1>3. TypeOK' /\ Functional'
  <2>1. counters' \in [CounterNames -> Nat]
    BY <1>1 DEF TypeOK, CounterNames
  <2>2. step' \in [Workers -> {"idle", "decide", "log", "respond"}]
    BY <1>1 DEF TypeOK
  <2> QED
    BY <1>1, <2>1, <2>2 DEF TypeOK, Functional
<1>4. WorkRight'
  BY <1>1, <1>2 DEF WorkRight, TypeOK, Functional
<1>5. CallsMade' /\ MessagesSent' /\ RepliesRight' /\ SettledRight'
  BY <1>1 DEF CallsMade, MessagesSent, RepliesRight, SettledRight, TypeOK
<1> QED
  BY <1>3, <1>4, <1>5

(* The answer a worker sends is the policy's answer for the call it works on. *)
LEMMA RespondIInv ==
  ASSUME IInv, NEW w \in Workers, Respond(w)
  PROVE  IInv'
<1> USE DEF IInv
<1> DEFINE m == message[call[w]]
           r == [call |-> call[w], response |-> OnMessagePublish(result[w], m)]
<1>1. /\ (step[w] = "log" /\ ~FormattingRaises(w)) \/ step[w] = "respond"
      /\ step' = [step EXCEPT ![w] = "idle"] /\ call' = [call EXCEPT ![w] = NoCall]
      /\ result' = [result EXCEPT ![w] = NoResult]
      /\ replies' = replies \cup {r}
      /\ UNCHANGED <<message, fate, delivered, failed, up, crashes, queue, counters>>
  BY DEF Respond, broker
<1>2. r.call \in Publishes /\ fate[r.call] # "new"
  BY <1>1 DEF CallsMade
<1>3. r.response = OnMessagePublish(Verdict(m), m)
  <2>1. CASE step[w] = "log" /\ ~FormattingRaises(w)
    BY <2>1, ResponseOfLogged DEF WorkRight, FormattingRaises, Raises
  <2>2. CASE step[w] = "respond"
    BY <2>2, ResponseOfRaised DEF WorkRight
  <2> QED
    BY <1>1, <2>1, <2>2
<1>4. r.response.type \in {"IGNORE", "STOP_AND_RETURN"} /\ r.response.allow_publish \in BOOLEAN
  BY DEF OnMessagePublish
<1>5. RepliesRight'
  BY <1>1, <1>3 DEF RepliesRight
<1> HIDE DEF r
<1>6. TypeOK' /\ Functional'
  <2>1. step' \in [Workers -> {"idle", "decide", "log", "respond"}]
    BY <1>1 DEF TypeOK
  <2>2. call' \in [Workers -> Publishes \cup {NoCall}]
    BY <1>1 DEF TypeOK
  <2> QED
    BY <1>1, <1>2, <1>4, <2>1, <2>2 DEF TypeOK, Functional
<1>7. CallsMade' /\ MessagesSent' /\ WorkRight' /\ SettledRight'
  BY <1>1, <1>2 DEF CallsMade, MessagesSent, WorkRight, SettledRight, TypeOK
<1> QED
  BY <1>5, <1>6, <1>7

(* A crash forgets everything that floodgate held. *)
LEMMA CrashIInv ==
  ASSUME IInv, Crash
  PROVE  IInv'
<1> USE DEF IInv
<1>1. TypeOK' /\ Functional'
  <2>1. UNCHANGED <<message, fate, delivered, failed>> /\ up' \in BOOLEAN
    BY DEF Crash, broker
  <2>2. crashes' \in 0..MaxCrashes
    BY ExHookAssumption DEF Crash, TypeOK
  <2>3. queue' \in Seq(Publishes) /\ replies' = {} /\ counters' \in [CounterNames -> Nat]
    BY DEF Crash
  <2>4. /\ call' \in [Workers -> Publishes \cup {NoCall}]
        /\ step' \in [Workers -> {"idle", "decide", "log", "respond"}]
        /\ result' = [w \in Workers |-> result'[w]]
    BY DEF Crash
  <2> QED
    BY <2>1, <2>2, <2>3, <2>4 DEF TypeOK, Functional
<1>2. CallsMade' /\ MessagesSent' /\ WorkRight' /\ RepliesRight' /\ SettledRight'
  BY DEF Crash, broker, CallsMade, MessagesSent, WorkRight, RepliesRight, SettledRight
<1> QED
  BY <1>1, <1>2

(* IInv is inductive. *)
LEMMA NextIInv == IInv /\ [Next]_vars => IInv'
<1> SUFFICES ASSUME IInv, [Next]_vars PROVE IInv'
  OBVIOUS
<1>1. ASSUME NEW p \in Publishes, NEW m \in Messages, Publish(p, m) PROVE IInv'
  BY <1>1, PublishIInv
<1>2. ASSUME NEW p \in Publishes, Timeout(p) \/ ConnectionLost(p) PROVE IInv'
  BY <1>2, FailOpenIInv DEF Timeout, ConnectionLost
<1>3. ASSUME NEW r \in replies, Receive(r) PROVE IInv'
  BY <1>3, ReceiveIInv
<1>4. ASSUME NEW w \in Workers, Work(w) PROVE IInv'
  BY <1>4, TakeIInv, SkipCancelledIInv, DecideIInv, LogRaisesIInv, RespondIInv DEF Work
<1>5. CASE Crash
  BY <1>5, CrashIInv
<1>6. CASE Restart \/ UNCHANGED vars
  <2>1. UNCHANGED <<message, fate, delivered, failed, crashes, queue, call, step, result,
                    replies, counters>> /\ up' \in BOOLEAN
    BY <1>6 DEF Restart, vars, broker, workers, IInv, TypeOK
  <2>2. TypeOK' /\ Functional'
    BY <2>1 DEF IInv, TypeOK, Functional
  <2>3. CallsMade' /\ MessagesSent' /\ WorkRight' /\ RepliesRight' /\ SettledRight'
    BY <2>1 DEF IInv, CallsMade, MessagesSent, WorkRight, RepliesRight, SettledRight
  <2> QED
    BY <2>2, <2>3 DEF IInv
<1> QED
  BY <1>1, <1>2, <1>3, <1>4, <1>5, <1>6 DEF Next

(* IInv holds in every reachable state. *)
LEMMA AlwaysIInv == Spec => []IInv
  BY InitIInv, NextIInv, PTL DEF Spec

-----------------------------------------------------------------------------

(* The publish path keeps its variables in their types; in particular every outcome is
   counted under a name that exists, and every response has one of the two types. *)
THEOREM PublishPathTypeCorrect == Spec => []TypeOK
<1>1. IInv => TypeOK
  BY DEF IInv
<1> QED
  BY AlwaysIInv, <1>1, PTL

(* With any number of workers, connections and crashes, a readable packet that still
   has hops gets out on a zero-hop channel only when metrics.failed shows it. *)
THEOREM PublishPathProtects == Spec => []Protection
<1>1. IInv => Protection
  <2> SUFFICES ASSUME IInv, NEW p \in Publishes \ failed, fate[p] = "delivered",
                      Readable(message[p].levels, delivered[p]),
                      OnZerohopChannel(Config, message[p].levels),
                      Loggable(message[p].levels, delivered[p])
               PROVE  HopsLeft(message[p].levels, delivered[p]) = 0
    BY DEF Protection
  <2> DEFINE l == message[p].levels
             q == message[p].payload
             v == process_message(Config, l, q)
  <2>1. v.action # "drop" /\ delivered[p] = Deliverable(q, v)
    BY DEF IInv, SettledRight, Verdict
  <2>2. Carries(l, q)
    BY ExHookAssumption DEF IInv, MessagesSent
  <2>3. CASE v.action = "modify"
    <3>1. delivered[p] = NoHops(q) /\ IsPacket(l) /\ Readable(l, q)
      BY <2>1, <2>2, <2>3, ModifyZeroes DEF Deliverable
    <3> QED
      BY <2>2, <3>1, NoHopsLeft
  <2>4. CASE v.action = "passthru"
    <3>1. delivered[p] = q
      BY <2>1, <2>4 DEF Deliverable
    <3> QED
      BY <2>2, <2>4, <3>1, LiveIsStopped
  <2> QED
    BY <2>1, <2>3, <2>4, ResultShape
<1> QED
  BY AlwaysIInv, <1>1, PTL

-----------------------------------------------------------------------------

(* The contract decides with the same policy. *)
LEMMA SameVerdict == \A m : Contract!Verdict(m) = Verdict(m)
  BY DEF Verdict, Contract!Verdict,
         process_message, decide, formatting_raises, peek_meta, fmt_node_raises,
         zerohop, zerohop_json,
         zerohop_protobuf, json_old_hop, parse_meshtastic_topic, extract_portnum,
         extract_portnum_json, extract_portnum_protobuf, should_drop, should_zerohop,
         JsonTypeToPortnum, Result, NotPacket, Unreadable, AlreadyZero,
         Contract!process_message, Contract!decide, Contract!formatting_raises,
         Contract!peek_meta, Contract!fmt_node_raises,
         Contract!zerohop, Contract!zerohop_json, Contract!zerohop_protobuf,
         Contract!json_old_hop, Contract!parse_meshtastic_topic,
         Contract!extract_portnum, Contract!extract_portnum_json,
         Contract!extract_portnum_protobuf, Contract!should_drop,
         Contract!should_zerohop, Contract!JsonTypeToPortnum, Contract!Result,
         Contract!NotPacket, Contract!Unreadable, Contract!AlreadyZero

(* The contract reads a result the same way. *)
LEMMA SameDeliverable == \A p, r : Contract!Deliverable(p, r) = Deliverable(p, r)
  BY DEF Deliverable, Contract!Deliverable

(* Queueing, threads, late answers and crashes are invisible except as failed calls:
   every step publishes, settles one publish by the policy, fails one call open, or
   changes nothing that publishers and subscribers see. *)
THEOREM PublishPathKeepsContract == Spec => ImplementsFilterContract
<1>1. Init => Contract!Init
  BY DEF Init, Contract!Init, NoMessage, Contract!NoMessage
<1>2. IInv /\ [Next]_vars => [Contract!Next]_(Contract!vars)
  <2> SUFFICES ASSUME IInv, [Next]_vars PROVE [Contract!Next]_(Contract!vars)
    OBVIOUS
  <2>1. ASSUME NEW p \in Publishes, NEW m \in Messages, Publish(p, m)
        PROVE  Contract!Next
    <3>1. Contract!Publish(p, m)
      BY <2>1 DEF Publish, Contract!Publish
    <3> QED
      BY <3>1 DEF Contract!Next
  <2>2. ASSUME NEW p \in Publishes, FailOpen(p)
        PROVE  Contract!Next
    <3>1. Contract!FailOpen(p)
      BY <2>2 DEF FailOpen, Contract!FailOpen, Contract!Deliver
    <3> QED
      BY <3>1 DEF Contract!Next
  <2>3. ASSUME NEW r \in replies, Receive(r), fate[r.call] = "calling"
        PROVE  Contract!Next
    <3>1. r.call \in Publishes
      BY DEF IInv, TypeOK
    <3>2. Contract!Pass(r.call) \/ Contract!Deny(r.call)
      BY <2>3, ReceiveSettles, SameVerdict, SameDeliverable
         DEF Contract!Pass, Contract!Deny, Contract!Deliver
    <3> QED
      BY <3>1, <3>2 DEF Contract!Next
  <2>4. CASE UNCHANGED broker
    BY <2>4 DEF broker, Contract!vars
  <2>5. ASSUME NEW r \in replies, Receive(r), fate[r.call] # "calling"
        PROVE  UNCHANGED broker
    BY <2>5 DEF Receive
  <2> QED
    BY <2>1, <2>2, <2>3, <2>4, <2>5
       DEF Next, vars, Timeout, ConnectionLost, Work, Take, SkipCancelled, Decide,
           LogRaises, Respond, Crash, Restart
<1> QED
  BY <1>1, <1>2, AlwaysIInv, PTL DEF Spec, ImplementsFilterContract, Contract!Spec
-----------------------------------------------------------------------------
(***************************************************************************)
(* The theorems that count: the counters cover what EMQX acted on, and     *)
(* with a worker for every connection a call waits only behind calls that  *)
(* have timed out.  The first invariant gives every denial and rewrite,    *)
(* and every decision on its way to become one, an outcome of its own; the *)
(* second one says that a call is in one place.                            *)
(***************************************************************************)
(* Decisions counted under c that are still on their way to EMQX. *)
OnTheWay(c) ==
  {p \in Publishes : /\ Decision(message[p]).counter = c
                     /\ \/ \E w \in Workers : call[w] = p /\ step[w] \in {"log", "respond"}
                        \/ \E r \in replies : r.call = p}

Denied == {p \in Publishes : fate[p] = "denied"}
Rewritten == {p \in Publishes \ failed :
                fate[p] = "delivered" /\ delivered[p] # message[p].payload}

DropsCounted == LET D == Denied \cup OnTheWay("dropped")
                IN  IsFiniteSet(D) /\ Cardinality(D) <= counters["dropped"]
RewritesCounted == LET D == Rewritten \cup OnTheWay("zerohop")
                   IN  IsFiniteSet(D) /\ Cardinality(D) <= counters["zerohop"]

CountInv == IInv /\ (crashes = 0 => DropsCounted /\ RewritesCounted)

-----------------------------------------------------------------------------

(* What is denied was decided, and counted, as dropped; what is modified as zerohop. *)
LEMMA VerdictCounted ==
  ASSUME NEW m
  PROVE  /\ Verdict(m).action = "drop" => Decision(m).counter = "dropped"
         /\ Verdict(m).action = "modify" => Decision(m).counter = "zerohop"
  BY DEF Verdict, Decision, process_message, decide, Result

(* A part of a set that was counted is counted by counters that did not go down. *)
LEMMA PartCounted ==
  ASSUME NEW S, NEW T, T \subseteq S, NEW n \in Nat, NEW k \in Nat, n <= k,
         IsFiniteSet(S), Cardinality(S) <= n
  PROVE  IsFiniteSet(T) /\ Cardinality(T) <= k
<1>1. IsFiniteSet(T) /\ Cardinality(T) <= Cardinality(S)
  BY FS_Subset
<1>2. Cardinality(T) \in Nat /\ Cardinality(S) \in Nat
  BY <1>1, FS_CardinalityType
<1> QED
  BY <1>1, <1>2

(* One more element is covered by one more count. *)
LEMMA OneMoreCounted ==
  ASSUME NEW S, NEW x, NEW T, T \subseteq S \cup {x}, NEW n \in Nat,
         IsFiniteSet(S), Cardinality(S) <= n
  PROVE  IsFiniteSet(T) /\ Cardinality(T) <= n + 1
<1>1. Cardinality(S) \in Nat
  BY FS_CardinalityType
<1>2. IsFiniteSet(S \cup {x}) /\ Cardinality(S \cup {x}) <= n + 1
  BY <1>1, FS_AddElement
<1> QED
  BY <1>2, PartCounted

(* A step that puts nothing new on its way, denies or rewrites nothing that was not on
   its way, and leaves the counters of both, keeps both counted. *)
LEMMA NothingNewCounted ==
  ASSUME CountInv, crashes = 0, TypeOK',
         Denied' \cup OnTheWay("dropped")' \subseteq Denied \cup OnTheWay("dropped"),
         Rewritten' \cup OnTheWay("zerohop")' \subseteq Rewritten \cup OnTheWay("zerohop"),
         counters'["dropped"] = counters["dropped"],
         counters'["zerohop"] = counters["zerohop"]
  PROVE  DropsCounted' /\ RewritesCounted'
<1>1. counters["dropped"] \in Nat /\ counters["zerohop"] \in Nat
  BY DEF CountInv, IInv, TypeOK, CounterNames
<1>2. DropsCounted'
  BY <1>1, PartCounted DEF CountInv, DropsCounted
<1>3. RewritesCounted'
  BY <1>1, PartCounted DEF CountInv, RewritesCounted
<1> QED
  BY <1>2, <1>3

(* Nothing is counted and nothing is on its way at the start. *)
LEMMA InitCountInv == Init => CountInv
<1> SUFFICES ASSUME Init PROVE CountInv
  OBVIOUS
<1>1. Denied = {} /\ Rewritten = {} /\ OnTheWay("dropped") = {} /\ OnTheWay("zerohop") = {}
  BY DEF Init, Denied, Rewritten, OnTheWay
<1>2. counters["dropped"] = 0 /\ counters["zerohop"] = 0
  BY DEF Init, CounterNames
<1> QED
  BY <1>1, <1>2, InitIInv, FS_EmptySet DEF CountInv, DropsCounted, RewritesCounted

(* A publish is in nobody's hands before EMQX has made it. *)
LEMMA PublishCounts ==
  ASSUME CountInv, IInv', crashes = 0, NEW p \in Publishes, NEW m \in Messages, Publish(p, m)
  PROVE  DropsCounted' /\ RewritesCounted'
<1> USE DEF CountInv, IInv
<1>1. /\ message' = [message EXCEPT ![p] = m]
      /\ fate[p] = "new" /\ fate' = [fate EXCEPT ![p] = "calling"]
      /\ UNCHANGED <<delivered, failed, call, step, replies, counters>>
  BY DEF Publish, workers
<1>2. /\ \A w \in Workers : step[w] \in {"log", "respond"} => call[w] # p
      /\ \A r \in replies : r.call # p
  BY <1>1 DEF CallsMade
<1>3. \A q \in Publishes : q # p => message'[q] = message[q] /\ fate'[q] = fate[q]
  BY <1>1 DEF TypeOK
<1>4. fate'[p] = "calling"
  BY <1>1 DEF TypeOK
<1>5. \A c : OnTheWay(c)' \subseteq OnTheWay(c)
  BY <1>1, <1>2, <1>3 DEF OnTheWay
<1>6. Denied' \subseteq Denied /\ Rewritten' \subseteq Rewritten
  BY <1>1, <1>3, <1>4 DEF Denied, Rewritten
<1> QED
  BY <1>1, <1>5, <1>6, NothingNewCounted

(* A failed call delivers the original and is no rewrite. *)
LEMMA FailOpenCounts ==
  ASSUME CountInv, IInv', crashes = 0, NEW p \in Publishes, FailOpen(p)
  PROVE  DropsCounted' /\ RewritesCounted'
<1> USE DEF CountInv, IInv
<1>1. /\ fate[p] = "calling" /\ fate' = [fate EXCEPT ![p] = "delivered"]
      /\ delivered' = [delivered EXCEPT ![p] = message[p].payload]
      /\ failed' = failed \cup {p}
      /\ UNCHANGED <<message, call, step, replies, counters>>
  BY DEF FailOpen, workers
<1>2. /\ fate'[p] = "delivered"
      /\ \A q \in Publishes : q # p => fate'[q] = fate[q] /\ delivered'[q] = delivered[q]
  BY <1>1 DEF TypeOK, Functional
<1>3. \A c : OnTheWay(c)' = OnTheWay(c)
  BY <1>1 DEF OnTheWay
<1>4. Denied' \subseteq Denied /\ Rewritten' \subseteq Rewritten
  BY <1>1, <1>2 DEF Denied, Rewritten
<1> QED
  BY <1>1, <1>3, <1>4, NothingNewCounted

(* What an answer denies or rewrites was on its way until now. *)
LEMMA ReceiveCounts ==
  ASSUME CountInv, IInv', crashes = 0, NEW r \in replies, Receive(r)
  PROVE  DropsCounted' /\ RewritesCounted'
<1> USE DEF CountInv, IInv
<1>1. /\ replies' = replies \ {r}
      /\ UNCHANGED <<message, failed, call, step, counters>>
  BY DEF Receive, broker, workers
<1>2. \A c : OnTheWay(c)' \subseteq OnTheWay(c)
  BY <1>1 DEF OnTheWay
<1>3. CASE fate[r.call] # "calling"
  <2>1. fate' = fate /\ delivered' = delivered
    BY <1>3 DEF Receive, broker
  <2>2. Denied' = Denied /\ Rewritten' = Rewritten
    BY <1>1, <2>1 DEF Denied, Rewritten
  <2> QED
    BY <1>1, <1>2, <2>2, NothingNewCounted
<1>4. CASE fate[r.call] = "calling"
  <2> DEFINE p == r.call
             v == Verdict(message[p])
  <2>1. /\ p \in Publishes
        /\ \/ /\ v.action = "drop"
              /\ fate' = [fate EXCEPT ![p] = "denied"] /\ delivered' = delivered
           \/ /\ v.action # "drop"
              /\ fate' = [fate EXCEPT ![p] = "delivered"]
              /\ delivered' = [delivered EXCEPT ![p] = Deliverable(message[p].payload, v)]
    BY <1>4, ReceiveSettles
  <2>2. \A q \in Publishes : q # p => fate'[q] = fate[q] /\ delivered'[q] = delivered[q]
    BY <2>1 DEF TypeOK, Functional
  <2>3. fate'[p] = "denied" => p \in OnTheWay("dropped")
    <3>1. fate'[p] = "denied" => v.action = "drop"
      BY <2>1 DEF TypeOK
    <3> QED
      BY <2>1, <3>1, VerdictCounted DEF OnTheWay
  <2>4. fate'[p] = "delivered" /\ delivered'[p] # message[p].payload
          => p \in OnTheWay("zerohop")
    <3>1. fate'[p] = "delivered" => v.action # "drop"
      BY <2>1 DEF TypeOK
    <3>2. fate'[p] = "delivered" => delivered'[p] = Deliverable(message[p].payload, v)
      BY <2>1, <3>1 DEF TypeOK, Functional
    <3>3. Deliverable(message[p].payload, v) # message[p].payload => v.action = "modify"
      BY DEF Deliverable
    <3>4. v.action = "modify" => p \in OnTheWay("zerohop")
      BY <2>1, VerdictCounted DEF OnTheWay
    <3> HIDE DEF p, v
    <3> QED
      BY <3>2, <3>3, <3>4
  <2>5. Denied' \subseteq Denied \cup OnTheWay("dropped")
    BY <2>2, <2>3 DEF Denied
  <2>6. Rewritten' \subseteq Rewritten \cup OnTheWay("zerohop")
    BY <1>1, <2>2, <2>4 DEF Rewritten
  <2> QED
    BY <1>1, <1>2, <2>5, <2>6, NothingNewCounted
<1> QED
  BY <1>3, <1>4

(* A decision is on its way from the moment it is counted. *)
LEMMA DecideCounts ==
  ASSUME CountInv, IInv', crashes = 0, NEW w \in Workers, Decide(w)
  PROVE  DropsCounted' /\ RewritesCounted'
<1> USE DEF CountInv, IInv
<1> DEFINE p == call[w]
           k == Decision(message[p]).counter
<1>1. /\ step[w] = "decide" /\ step' = [step EXCEPT ![w] = "log"]
      /\ counters' = [counters EXCEPT ![k] = @ + 1]
      /\ UNCHANGED <<message, fate, delivered, failed, call, replies>>
  BY DEF Decide, Decision, broker
<1>2. k \in CounterNames
  BY DecisionShape DEF Decision
<1>3. \A c : OnTheWay(c)' \subseteq OnTheWay(c) \cup (IF k = c THEN {p} ELSE {})
  BY <1>1 DEF OnTheWay, TypeOK
<1>4. Denied' = Denied /\ Rewritten' = Rewritten
  BY <1>1 DEF Denied, Rewritten
<1> HIDE DEF k
<1>5. /\ counters["dropped"] \in Nat
      /\ counters'["dropped"] = IF k = "dropped" THEN counters["dropped"] + 1
                                                 ELSE counters["dropped"]
  BY <1>1 DEF TypeOK, CounterNames
<1>6. /\ counters["zerohop"] \in Nat
      /\ counters'["zerohop"] = IF k = "zerohop" THEN counters["zerohop"] + 1
                                                 ELSE counters["zerohop"]
  BY <1>1 DEF TypeOK, CounterNames
<1>7. DropsCounted'
  <2> DEFINE D == Denied \cup OnTheWay("dropped")
             n == counters["dropped"]
  <2>1. IsFiniteSet(D) /\ Cardinality(D) <= n
    BY DEF DropsCounted
  <2>2. CASE k = "dropped"
    <3>1. D' \subseteq D \cup {p}
      BY <1>3, <1>4, <2>2
    <3>2. counters'["dropped"] = n + 1
      BY <1>5, <2>2
    <3> HIDE DEF n
    <3>3. IsFiniteSet(D') /\ Cardinality(D') <= n + 1
      BY <1>5, <2>1, <3>1, OneMoreCounted DEF n
    <3> QED
      BY <3>2, <3>3 DEF DropsCounted
  <2>3. CASE k # "dropped"
    <3>1. D' \subseteq D
      BY <1>3, <1>4, <2>3
    <3>2. counters'["dropped"] = n
      BY <1>5, <2>3
    <3>3. IsFiniteSet(D') /\ Cardinality(D') <= n
      BY <1>5, <2>1, <3>1, PartCounted
    <3> QED
      BY <3>2, <3>3 DEF DropsCounted
  <2> QED
    BY <2>2, <2>3
<1>8. RewritesCounted'
  <2> DEFINE D == Rewritten \cup OnTheWay("zerohop")
             n == counters["zerohop"]
  <2>1. IsFiniteSet(D) /\ Cardinality(D) <= n
    BY DEF RewritesCounted
  <2>2. CASE k = "zerohop"
    <3>1. D' \subseteq D \cup {p}
      BY <1>3, <1>4, <2>2
    <3>2. counters'["zerohop"] = n + 1
      BY <1>6, <2>2
    <3>3. IsFiniteSet(D') /\ Cardinality(D') <= n + 1
      BY <1>6, <2>1, <3>1, OneMoreCounted
    <3> QED
      BY <3>2, <3>3 DEF RewritesCounted
  <2>3. CASE k # "zerohop"
    <3>1. D' \subseteq D
      BY <1>3, <1>4, <2>3
    <3>2. counters'["zerohop"] = n
      BY <1>6, <2>3
    <3>3. IsFiniteSet(D') /\ Cardinality(D') <= n
      BY <1>6, <2>1, <3>1, PartCounted
    <3> QED
      BY <3>2, <3>3 DEF RewritesCounted
  <2> QED
    BY <2>2, <2>3
<1> QED
  BY <1>7, <1>8

(* The error that a raising log line counts is neither of the two. *)
LEMMA LogRaisesCounts ==
  ASSUME CountInv, IInv', crashes = 0, NEW w \in Workers, LogRaises(w)
  PROVE  DropsCounted' /\ RewritesCounted'
<1> USE DEF CountInv, IInv
<1>1. /\ step[w] = "log" /\ step' = [step EXCEPT ![w] = "respond"]
      /\ counters' = [counters EXCEPT !["errors"] = @ + 1]
      /\ UNCHANGED <<message, fate, delivered, failed, call, replies>>
  BY DEF LogRaises, broker
<1>2. \A c : OnTheWay(c)' \subseteq OnTheWay(c)
  BY <1>1 DEF OnTheWay, TypeOK
<1>3. Denied' = Denied /\ Rewritten' = Rewritten
  BY <1>1 DEF Denied, Rewritten
<1>4. counters'["dropped"] = counters["dropped"] /\ counters'["zerohop"] = counters["zerohop"]
  BY <1>1 DEF TypeOK, CounterNames
<1> QED
  BY <1>2, <1>3, <1>4, NothingNewCounted

(* An answer stays on its way as it leaves its worker. *)
LEMMA RespondCounts ==
  ASSUME CountInv, IInv', crashes = 0, NEW w \in Workers, Respond(w)
  PROVE  DropsCounted' /\ RewritesCounted'
<1> USE DEF CountInv, IInv
<1> DEFINE r == [call |-> call[w],
                 response |-> OnMessagePublish(result[w], message[call[w]])]
<1>1. /\ step[w] \in {"log", "respond"}
      /\ step' = [step EXCEPT ![w] = "idle"] /\ call' = [call EXCEPT ![w] = NoCall]
      /\ replies' = replies \cup {r}
      /\ UNCHANGED <<message, fate, delivered, failed, counters>>
  BY DEF Respond, broker
<1>2. r.call = call[w]
  OBVIOUS
<1> HIDE DEF r
<1>3. \A v \in Workers : step'[v] \in {"log", "respond"}
                           => step[v] \in {"log", "respond"} /\ call'[v] = call[v]
  BY <1>1 DEF TypeOK
<1>4. \A c : OnTheWay(c)' \subseteq OnTheWay(c)
  BY <1>1, <1>2, <1>3 DEF OnTheWay
<1>5. Denied' = Denied /\ Rewritten' = Rewritten
  BY <1>1 DEF Denied, Rewritten
<1> QED
  BY <1>1, <1>4, <1>5, NothingNewCounted

(* Taking or skipping a call, a restart and a stutter decide nothing. *)
LEMMA OthersCount ==
  ASSUME CountInv, IInv', crashes = 0,
         \/ \E w \in Workers : Take(w) \/ SkipCancelled(w)
         \/ Restart
         \/ UNCHANGED vars
  PROVE  DropsCounted' /\ RewritesCounted'
<1> USE DEF CountInv, IInv
<1>1. UNCHANGED <<message, fate, delivered, failed, replies, counters>>
  BY DEF Take, SkipCancelled, Restart, vars, broker
<1>2. \A v \in Workers : step'[v] \in {"log", "respond"}
                           => step[v] \in {"log", "respond"} /\ call'[v] = call[v]
  BY DEF Take, SkipCancelled, Restart, vars, workers, TypeOK
<1>3. \A c : OnTheWay(c)' \subseteq OnTheWay(c)
  BY <1>1, <1>2 DEF OnTheWay
<1>4. Denied' = Denied /\ Rewritten' = Rewritten
  BY <1>1 DEF Denied, Rewritten
<1> QED
  BY <1>1, <1>3, <1>4, NothingNewCounted

(* CountInv is inductive. *)
LEMMA NextCountInv == CountInv /\ [Next]_vars => CountInv'
<1> SUFFICES ASSUME CountInv, [Next]_vars PROVE CountInv'
  OBVIOUS
<1>1. IInv'
  BY NextIInv DEF CountInv
<1>2. ASSUME crashes' = 0 PROVE crashes = 0 /\ ~Crash
  <2>1. crashes \in Nat
    BY ExHookAssumption DEF CountInv, IInv, TypeOK
  <2>2. Crash => crashes' = crashes + 1
    BY DEF Crash
  <2>3. crashes' = crashes \/ Crash
    BY DEF Next, vars, Publish, Timeout, ConnectionLost, FailOpen, Receive, Work, Take,
           SkipCancelled, Decide, LogRaises, Respond, Restart
  <2> QED
    BY <1>2, <2>1, <2>2, <2>3
<1>3. ASSUME crashes' = 0 PROVE DropsCounted' /\ RewritesCounted'
  <2>1. crashes = 0 /\ ~Crash
    BY <1>2, <1>3
  <2>2. ASSUME NEW p \in Publishes, NEW m \in Messages, Publish(p, m)
        PROVE  DropsCounted' /\ RewritesCounted'
    BY <1>1, <2>1, <2>2, PublishCounts
  <2>3. ASSUME NEW p \in Publishes, Timeout(p) \/ ConnectionLost(p)
        PROVE  DropsCounted' /\ RewritesCounted'
    BY <1>1, <2>1, <2>3, FailOpenCounts DEF Timeout, ConnectionLost
  <2>4. ASSUME NEW r \in replies, Receive(r) PROVE DropsCounted' /\ RewritesCounted'
    BY <1>1, <2>1, <2>4, ReceiveCounts
  <2>5. ASSUME NEW w \in Workers, Decide(w) \/ LogRaises(w) \/ Respond(w)
        PROVE  DropsCounted' /\ RewritesCounted'
    BY <1>1, <2>1, <2>5, DecideCounts, LogRaisesCounts, RespondCounts
  <2> QED
    BY <1>1, <2>1, <2>2, <2>3, <2>4, <2>5, OthersCount DEF Next, Work
<1> QED
  BY <1>1, <1>3 DEF CountInv

(* For any number of publishes and workers, every denial and every rewrite that EMQX has
   applied is in the counters, as long as no crash has cleared them. *)
THEOREM ActedUponIsCounted == Spec => []AnswersCounted
<1>1. CountInv => AnswersCounted
  <2> SUFFICES ASSUME CountInv, crashes = 0
               PROVE  /\ Cardinality(Denied) <= counters["dropped"]
                      /\ Cardinality(Rewritten) <= counters["zerohop"]
    BY DEF AnswersCounted, Denied, Rewritten
  <2>1. counters["dropped"] \in Nat /\ counters["zerohop"] \in Nat
    BY DEF CountInv, IInv, TypeOK, CounterNames
  <2>2. Cardinality(Denied) <= counters["dropped"]
    BY <2>1, PartCounted DEF CountInv, DropsCounted
  <2>3. Cardinality(Rewritten) <= counters["zerohop"]
    BY <2>1, PartCounted DEF CountInv, RewritesCounted
  <2> QED
    BY <2>2, <2>3
<1>2. Spec => []CountInv
  BY InitCountInv, NextCountInv, PTL DEF Spec
<1> QED
  BY <1>1, <1>2, PTL

-----------------------------------------------------------------------------

PoolBound == IsFiniteSet(Calling) /\ Cardinality(Calling) <= PoolSize

Busy == {w \in Workers : step[w] # "idle"}

(* A call is in the queue, with one worker, or answered: never in two of these. *)
OnePlace ==
  /\ \A i, j \in 1..Len(queue) : queue[i] = queue[j] => i = j
  /\ \A v, w \in Busy : call[v] = call[w] => v = w
  /\ \A i \in 1..Len(queue), w \in Busy : queue[i] # call[w]
  /\ \A r \in replies : /\ \A i \in 1..Len(queue) : r.call # queue[i]
                        /\ \A w \in Busy : r.call # call[w]

(* Nobody has settled what floodgate has not answered, but by giving up on it. *)
Unanswered ==
  /\ \A i \in 1..Len(queue) : fate[queue[i]] = "calling" \/ queue[i] \in failed
  /\ \A w \in Busy : fate[call[w]] = "calling" \/ call[w] \in failed

PlaceInv == IInv /\ PoolBound /\ OnePlace /\ Unanswered

(* No call has been made at the start. *)
LEMMA InitPlaceInv == Init => PlaceInv
<1> SUFFICES ASSUME Init PROVE PlaceInv
  OBVIOUS
<1>1. Calling = {} /\ Busy = {}
  BY DEF Init, Calling, Busy
<1>2. PoolBound
  BY <1>1, FS_EmptySet, ExHookAssumption DEF PoolBound
<1>3. OnePlace /\ Unanswered
  BY <1>1 DEF Init, OnePlace, Unanswered
<1> QED
  BY <1>2, <1>3, InitIInv DEF PlaceInv

(* Fewer calls need no more connections. *)
LEMMA FewerCalling ==
  ASSUME PoolBound, Calling' \subseteq Calling
  PROVE  PoolBound'
<1>1. Cardinality(Calling) \in Nat /\ IsFiniteSet(Calling)
  BY FS_CardinalityType DEF PoolBound
<1>2. IsFiniteSet(Calling') /\ Cardinality(Calling') <= Cardinality(Calling)
  BY <1>1, FS_Subset
<1>3. Cardinality(Calling') \in Nat
  BY <1>2, FS_CardinalityType
<1> QED
  BY <1>1, <1>2, <1>3, ExHookAssumption DEF PoolBound

(* A publish takes one of the connections that are free, and its call is nowhere yet. *)
LEMMA PublishPlace ==
  ASSUME PlaceInv, NEW p \in Publishes, NEW m \in Messages, Publish(p, m)
  PROVE  PoolBound' /\ OnePlace' /\ Unanswered'
<1> USE DEF PlaceInv, IInv
<1>1. /\ fate[p] = "new" /\ fate' = [fate EXCEPT ![p] = "calling"]
      /\ Cardinality(Calling) < PoolSize
      /\ queue' = IF up THEN Append(queue, p) ELSE queue
      /\ UNCHANGED <<failed, call, step, replies>>
  BY DEF Publish, workers
<1>2. /\ \A i \in 1..Len(queue) : queue[i] # p
      /\ \A w \in Busy : call[w] # p
      /\ \A r \in replies : r.call # p
  BY <1>1 DEF CallsMade, Busy
<1>3. PoolBound'
  <2>1. Calling' = Calling \cup {p}
    BY <1>1 DEF Calling, TypeOK
  <2>2. Cardinality(Calling) \in Nat /\ p \notin Calling
    BY <1>1, FS_CardinalityType DEF PoolBound, Calling
  <2>3. IsFiniteSet(Calling') /\ Cardinality(Calling') = Cardinality(Calling) + 1
    BY <2>1, <2>2, FS_AddElement DEF PoolBound
  <2> QED
    BY <1>1, <2>2, <2>3, ExHookAssumption DEF PoolBound
<1>4. Busy' = Busy /\ queue \in Seq(Publishes)
  BY <1>1 DEF Busy, TypeOK
<1>5. /\ fate'[p] = "calling"
      /\ \A q \in Publishes : q # p /\ fate[q] = "calling" => fate'[q] = "calling"
  BY <1>1 DEF TypeOK
<1>6. CASE up
  <2>1. /\ Len(queue') = Len(queue) + 1
        /\ \A i \in 1..Len(queue) : queue'[i] = queue[i]
        /\ queue'[Len(queue) + 1] = p
    BY <1>1, <1>4, <1>6
  <2>2. OnePlace'
    BY <1>1, <1>2, <1>4, <2>1 DEF OnePlace
  <2>3. Unanswered'
    BY <1>1, <1>2, <1>4, <1>5, <2>1 DEF Unanswered, TypeOK, CallsMade, Busy
  <2> QED
    BY <1>3, <2>2, <2>3
<1>7. CASE ~up
  BY <1>1, <1>2, <1>3, <1>4, <1>5, <1>7
     DEF OnePlace, Unanswered, TypeOK, CallsMade, Busy
<1> QED
  BY <1>6, <1>7

(* A call that fails is still where it was, and EMQX has given up on it. *)
LEMMA FailOpenPlace ==
  ASSUME PlaceInv, NEW p \in Publishes, FailOpen(p)
  PROVE  PoolBound' /\ OnePlace' /\ Unanswered'
<1> USE DEF PlaceInv, IInv
<1>1. /\ fate[p] = "calling" /\ fate' = [fate EXCEPT ![p] = "delivered"]
      /\ failed' = failed \cup {p}
      /\ UNCHANGED <<queue, call, step, replies>>
  BY DEF FailOpen, workers
<1>2. Calling' \subseteq Calling /\ Busy' = Busy
  BY <1>1 DEF Calling, Busy, TypeOK
<1>3. OnePlace'
  BY <1>1, <1>2 DEF OnePlace
<1>4. \A q \in Publishes : fate[q] = "calling" => fate'[q] = "calling" \/ q \in failed'
  BY <1>1 DEF TypeOK
<1>5. Unanswered'
  <2>1. \A i \in 1..Len(queue) : queue[i] \in Publishes
    BY DEF TypeOK
  <2>2. \A w \in Busy : call[w] \in Publishes
    BY DEF CallsMade, Busy
  <2>3. failed \subseteq failed' /\ UNCHANGED <<queue, call>>
    BY <1>1
  <2> QED
    BY <1>2, <1>4, <2>1, <2>2, <2>3 DEF Unanswered
<1> QED
  BY <1>2, <1>3, <1>5, FewerCalling

(* An answer settles a call that is nowhere else. *)
LEMMA ReceivePlace ==
  ASSUME PlaceInv, NEW r \in replies, Receive(r)
  PROVE  PoolBound' /\ OnePlace' /\ Unanswered'
<1> USE DEF PlaceInv, IInv
<1>1. /\ replies' = replies \ {r}
      /\ UNCHANGED <<failed, queue, call, step>>
  BY DEF Receive, broker, workers
<1>2. \A q \in Publishes : /\ q # r.call => fate'[q] = fate[q]
                           /\ fate'[q] = "calling" => fate[q] = "calling"
  <2>1. CASE fate[r.call] # "calling"
    BY <2>1 DEF Receive, broker
  <2>2. CASE fate[r.call] = "calling"
    <3>1. \E f \in {"delivered", "denied"} : fate' = [fate EXCEPT ![r.call] = f]
      BY <2>2 DEF Receive
    <3> QED
      BY <2>2, <3>1 DEF TypeOK
  <2> QED
    BY <2>1, <2>2
<1>3. Calling' \subseteq Calling /\ Busy' = Busy
  BY <1>1, <1>2 DEF Calling, Busy
<1>4. OnePlace'
  BY <1>1, <1>3 DEF OnePlace
<1>5. Unanswered'
  <2>1. \A i \in 1..Len(queue) : queue[i] \in Publishes /\ queue[i] # r.call
    BY DEF TypeOK, OnePlace
  <2>2. \A w \in Busy : call[w] \in Publishes /\ call[w] # r.call
    BY DEF CallsMade, OnePlace, Busy
  <2> QED
    BY <1>1, <1>2, <1>3, <2>1, <2>2 DEF Unanswered
<1> QED
  BY <1>3, <1>4, <1>5, FewerCalling

(* A call leaves the queue for one worker. *)
LEMMA TakePlace ==
  ASSUME PlaceInv, NEW w \in Workers, Take(w)
  PROVE  PoolBound' /\ OnePlace' /\ Unanswered'
<1> USE DEF PlaceInv, IInv
<1>1. /\ step[w] = "idle" /\ queue # <<>> /\ queue' = Tail(queue)
      /\ call' = [call EXCEPT ![w] = Head(queue)]
      /\ step' = [step EXCEPT ![w] = "decide"]
      /\ UNCHANGED <<fate, failed, replies>>
  BY DEF Take, broker
<1>2. /\ queue \in Seq(Publishes) /\ Len(queue') = Len(queue) - 1 /\ Len(queue) \in Nat \ {0}
      /\ \A i \in 1..Len(queue') : queue'[i] = queue[i + 1]
      /\ Head(queue) = queue[1]
  BY <1>1 DEF TypeOK
<1>3. /\ Busy' = Busy \cup {w} /\ w \notin Busy
      /\ call'[w] = queue[1]
      /\ \A v \in Busy : call'[v] = call[v]
  BY <1>1, <1>2 DEF Busy, TypeOK
<1>4. Calling' = Calling
  BY <1>1 DEF Calling
<1>5. OnePlace'
  <2>1. \A i, j \in 1..Len(queue') : queue'[i] = queue'[j] => i = j
    BY <1>2 DEF OnePlace
  <2>2. \A u, v \in Busy' : call'[u] = call'[v] => u = v
    BY <1>2, <1>3 DEF OnePlace
  <2>3. \A i \in 1..Len(queue'), v \in Busy' : queue'[i] # call'[v]
    BY <1>2, <1>3 DEF OnePlace
  <2>4. \A r \in replies' : /\ \A i \in 1..Len(queue') : r.call # queue'[i]
                            /\ \A v \in Busy' : r.call # call'[v]
    BY <1>1, <1>2, <1>3 DEF OnePlace
  <2> QED
    BY <2>1, <2>2, <2>3, <2>4 DEF OnePlace
<1>6. Unanswered'
  BY <1>1, <1>2, <1>3 DEF Unanswered
<1> QED
  BY <1>4, <1>5, <1>6, FewerCalling

(* A skipped call is in no place any more. *)
LEMMA SkipCancelledPlace ==
  ASSUME PlaceInv, NEW w \in Workers, SkipCancelled(w)
  PROVE  PoolBound' /\ OnePlace' /\ Unanswered'
<1> USE DEF PlaceInv, IInv
<1>1. /\ queue # <<>> /\ queue' = Tail(queue)
      /\ UNCHANGED <<fate, failed, call, step, replies>>
  BY DEF SkipCancelled, broker, workers
<1>2. /\ queue \in Seq(Publishes) /\ Len(queue') = Len(queue) - 1 /\ Len(queue) \in Nat \ {0}
      /\ \A i \in 1..Len(queue') : queue'[i] = queue[i + 1]
  BY <1>1 DEF TypeOK
<1>3. Calling' = Calling /\ Busy' = Busy
  BY <1>1 DEF Calling, Busy
<1>4. OnePlace'
  BY <1>1, <1>2, <1>3 DEF OnePlace
<1>5. Unanswered'
  BY <1>1, <1>2, <1>3 DEF Unanswered
<1> QED
  BY <1>3, <1>4, <1>5, FewerCalling

(* An answered call leaves its worker. *)
LEMMA RespondPlace ==
  ASSUME PlaceInv, NEW w \in Workers, Respond(w)
  PROVE  PoolBound' /\ OnePlace' /\ Unanswered'
<1> USE DEF PlaceInv, IInv
<1> DEFINE r == [call |-> call[w],
                 response |-> OnMessagePublish(result[w], message[call[w]])]
<1>1. /\ step[w] # "idle"
      /\ step' = [step EXCEPT ![w] = "idle"] /\ call' = [call EXCEPT ![w] = NoCall]
      /\ replies' = replies \cup {r}
      /\ UNCHANGED <<fate, failed, queue>>
  BY DEF Respond, broker
<1>2. r.call = call[w]
  OBVIOUS
<1> HIDE DEF r
<1>3. /\ w \in Busy /\ Busy' = Busy \ {w}
      /\ \A v \in Busy' : call'[v] = call[v]
  BY <1>1 DEF Busy, TypeOK
<1>4. Calling' = Calling
  BY <1>1 DEF Calling
<1>5. OnePlace'
  <2>1. /\ \A i, j \in 1..Len(queue') : queue'[i] = queue'[j] => i = j
        /\ \A u, v \in Busy' : call'[u] = call'[v] => u = v
        /\ \A i \in 1..Len(queue'), v \in Busy' : queue'[i] # call'[v]
    BY <1>1, <1>3 DEF OnePlace
  <2>2. \A i \in 1..Len(queue') : call[w] # queue'[i]
    BY <1>1, <1>3 DEF OnePlace
  <2>3. \A v \in Busy' : call[w] # call'[v]
    BY <1>1, <1>3 DEF OnePlace
  <2>4. \A a \in replies' : /\ \A i \in 1..Len(queue') : a.call # queue'[i]
                            /\ \A v \in Busy' : a.call # call'[v]
    BY <1>1, <1>2, <1>3, <2>2, <2>3 DEF OnePlace
  <2> QED
    BY <2>1, <2>4 DEF OnePlace
<1>6. Unanswered'
  BY <1>1, <1>3 DEF Unanswered
<1> QED
  BY <1>4, <1>5, <1>6, FewerCalling

(* Steps within a worker move no call. *)
LEMMA WithinWorkerPlace ==
  ASSUME PlaceInv, NEW w \in Workers, Decide(w) \/ LogRaises(w)
  PROVE  PoolBound' /\ OnePlace' /\ Unanswered'
<1> USE DEF PlaceInv, IInv
<1>1. /\ step[w] # "idle"
      /\ step' = [step EXCEPT ![w] = "log"] \/ step' = [step EXCEPT ![w] = "respond"]
      /\ UNCHANGED <<fate, failed, queue, call, replies>>
  BY DEF Decide, LogRaises, broker
<1>2. Calling' = Calling /\ Busy' = Busy
  BY <1>1 DEF Calling, Busy, TypeOK
<1> QED
  BY <1>1, <1>2, FewerCalling DEF OnePlace, Unanswered

(* A crash takes the calls out of every place; a restart puts none there. *)
LEMMA ProcessPlace ==
  ASSUME PlaceInv, Crash \/ Restart \/ UNCHANGED vars
  PROVE  PoolBound' /\ OnePlace' /\ Unanswered'
<1> USE DEF PlaceInv, IInv
<1>1. CASE Crash
  <2>1. Calling' = Calling /\ Busy' = {} /\ queue' = <<>> /\ replies' = {}
    BY <1>1 DEF Crash, broker, Calling, Busy
  <2> QED
    BY <2>1, FewerCalling DEF OnePlace, Unanswered
<1>2. CASE Restart \/ UNCHANGED vars
  <2>1. UNCHANGED <<fate, failed, queue, call, step, replies>>
    BY <1>2 DEF Restart, vars, broker, workers
  <2>2. Calling' = Calling /\ Busy' = Busy
    BY <2>1 DEF Calling, Busy
  <2> QED
    BY <2>1, <2>2, FewerCalling DEF OnePlace, Unanswered
<1> QED
  BY <1>1, <1>2

(* PlaceInv is inductive. *)
LEMMA NextPlaceInv == PlaceInv /\ [Next]_vars => PlaceInv'
<1> SUFFICES ASSUME PlaceInv, [Next]_vars PROVE PlaceInv'
  OBVIOUS
<1>1. IInv'
  BY NextIInv DEF PlaceInv
<1>2. ASSUME NEW p \in Publishes,
             (\E m \in Messages : Publish(p, m)) \/ Timeout(p) \/ ConnectionLost(p)
      PROVE  PoolBound' /\ OnePlace' /\ Unanswered'
  BY <1>2, PublishPlace, FailOpenPlace DEF Timeout, ConnectionLost
<1>3. ASSUME NEW r \in replies, Receive(r) PROVE PoolBound' /\ OnePlace' /\ Unanswered'
  BY <1>3, ReceivePlace
<1>4. ASSUME NEW w \in Workers, Work(w) PROVE PoolBound' /\ OnePlace' /\ Unanswered'
  BY <1>4, TakePlace, SkipCancelledPlace, RespondPlace, WithinWorkerPlace DEF Work
<1> QED
  BY <1>1, <1>2, <1>3, <1>4, ProcessPlace DEF Next, PlaceInv

(* With a worker for every connection of EMQX, however many there are, a call that EMQX
   waits for finds all workers busy only if one of them is busy with a call that EMQX has
   given up on: the calls of the others, and this one, would need one connection more. *)
THEOREM QueueingExplained == Spec => []QueuedBehindTimeoutsOnly
<1>1. PlaceInv => QueuedBehindTimeoutsOnly
  <2> SUFFICES ASSUME PlaceInv, Cardinality(Workers) >= PoolSize,
                      NEW p \in Range(queue) \cap Calling,
                      \A w \in Workers : step[w] # "idle" /\ call[w] \notin failed
               PROVE  FALSE
    BY DEF QueuedBehindTimeoutsOnly
  <2>1. PICK i \in 1..Len(queue) : p = queue[i]
    BY DEF Range, PlaceInv, IInv, TypeOK
  <2>2. Busy = Workers
    BY DEF Busy
  <2>3. \A w \in Workers : call[w] \in Calling \ {p}
    BY <2>1, <2>2 DEF PlaceInv, IInv, CallsMade, OnePlace, Unanswered, Calling
  <2>4. call \in Injection(Workers, Calling \ {p})
    <3>1. call \in [Workers -> Calling \ {p}]
      BY <2>3 DEF PlaceInv, IInv, TypeOK
    <3> QED
      BY <2>2, <3>1 DEF Injection, IsInjective, PlaceInv, OnePlace
  <2>5. /\ IsFiniteSet(Calling \ {p})
        /\ Cardinality(Calling \ {p}) = Cardinality(Calling) - 1
    BY FS_RemoveElement DEF PlaceInv, PoolBound
  <2>6. /\ IsFiniteSet(Workers)
        /\ Cardinality(Workers) <= Cardinality(Calling \ {p})
    BY <2>4, <2>5, FS_Injection
  <2>7. Cardinality(Workers) \in Nat /\ Cardinality(Calling) \in Nat
    BY <2>6, FS_CardinalityType DEF PlaceInv, PoolBound
  <2> QED
    BY <2>5, <2>6, <2>7, ExHookAssumption DEF PlaceInv, PoolBound
<1>2. Spec => []PlaceInv
  BY InitPlaceInv, NextPlaceInv, PTL DEF Spec
<1> QED
  BY <1>1, <1>2, PTL
=============================================================================
