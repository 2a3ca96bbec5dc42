--------------------------- MODULE FilterContract ---------------------------
(***************************************************************************)
(* What EMQX and floodgate together promise about a publish, whatever the  *)
(* calls, threads and crashes between them: it is settled once, and it is  *)
(* settled either exactly as the policy says of this very message or, when *)
(* the call failed, by delivering the original (fail-open).                *)
(***************************************************************************)
EXTENDS Packets

CONSTANTS Publishes,        \* the publishes, each made once
          Messages,         \* the [levels, payload] records they may carry
          Config            \* the configuration floodgate runs with

VARIABLES message,          \* what each publish carries, NoMessage before it is made
          fate,             \* "new", "calling", "delivered" or "denied"
          delivered,        \* the payload that subscribers got
          failed            \* the publishes whose hook call failed

vars == <<message, fate, delivered, failed>>

NoMessage == [levels |-> <<>>, payload |-> None]

Verdict(m) == process_message(Config, m.levels, m.payload)

Init == /\ message = [p \in Publishes |-> NoMessage]
        /\ fate = [p \in Publishes |-> "new"]
        /\ delivered = [p \in Publishes |-> None]
        /\ failed = {}

Publish(p, m) == /\ fate[p] = "new"
                 /\ message' = [message EXCEPT ![p] = m]
                 /\ fate' = [fate EXCEPT ![p] = "calling"]
                 /\ UNCHANGED <<delivered, failed>>

Deliver(p, payload) == /\ fate[p] = "calling"
                       /\ fate' = [fate EXCEPT ![p] = "delivered"]
                       /\ delivered' = [delivered EXCEPT ![p] = payload]

(* The policy let the message through, rewritten or not. *)
Pass(p) == /\ Verdict(message[p]).action # "drop"
           /\ Deliver(p, Deliverable(message[p].payload, Verdict(message[p])))
           /\ UNCHANGED <<message, failed>>

Deny(p) == /\ fate[p] = "calling"
           /\ Verdict(message[p]).action = "drop"
           /\ fate' = [fate EXCEPT ![p] = "denied"]
           /\ UNCHANGED <<message, delivered, failed>>

(* No answer in time: the original is delivered, and the failure is visible. *)
FailOpen(p) == /\ Deliver(p, message[p].payload)
               /\ failed' = failed \cup {p}
               /\ UNCHANGED message

Next == \E p \in Publishes :
           \/ \E m \in Messages : Publish(p, m)
           \/ Pass(p) \/ Deny(p) \/ FailOpen(p)

Spec == Init /\ [][Next]_vars
=============================================================================
