------------------------------- MODULE ExHook -------------------------------
(***************************************************************************)
(* The publish path: EMQX calls floodgate's OnMessagePublish over gRPC     *)
(* while it holds a publish back, floodgate answers from a fixed pool of   *)
(* worker threads, and EMQX applies the answer if it is still waiting.     *)
(*                                                                         *)
(* EMQX and the gRPC library are outside the repository.  EMQX is modelled *)
(* from what README.md establishes about it (pool_size concurrent calls,   *)
(* fail-open on a call that raises or exceeds request_timeout) and gRPC    *)
(* from how exhook_server.py sets it up (one executor queue, max_workers   *)
(* threads, no admission limit).  A call whose client gave up may be       *)
(* skipped when a worker comes to it, or may still run to its end.         *)
(***************************************************************************)
EXTENDS Packets, FiniteSets, Functions

CONSTANTS Publishes,        \* the publishes, each made once
          Messages,         \* the [levels, payload] records they may carry
          Config,           \* what load_config returned
          PoolSize,         \* EMQX's pool_size: calls in progress at once
          Workers,          \* the threads of the executor, grpc_max_workers of them
          MaxCrashes,       \* bound on floodgate's crashes
          NoCall            \* what an idle worker works on

ASSUME ExHookAssumption == /\ PoolSize \in Nat \ {0}
                           /\ MaxCrashes \in Nat
                           /\ NoCall \notin Publishes
                           /\ \A m \in Messages : Carries(m.levels, m.payload)

VARIABLES message,          \* EMQX: what each publish carries
          fate,             \* EMQX: what became of it
          delivered,        \* EMQX: the payload that subscribers got
          failed,           \* EMQX: the publishes that metrics.failed counts
          up,               \* floodgate is running
          crashes,          \* how often it has crashed
          queue,            \* the executor's queue of calls
          call,             \* the call each worker works on
          step,             \* how far it has got
          result,           \* the decision it has taken
          replies,          \* answers on their way to EMQX
          counters          \* the lifetime counters

broker == <<message, fate, delivered, failed>>
workers == <<call, step, result>>
vars == <<broker, up, crashes, queue, workers, replies, counters>>

CounterNames == {"zerohop", "passthru", "noop", "dropped", "skipped", "errors"}

NoMessage == [levels |-> <<>>, payload |-> None]
NoResult == Result("none", "none", None)

Calling == {p \in Publishes : fate[p] = "calling"}

Init == /\ message = [p \in Publishes |-> NoMessage]
        /\ fate = [p \in Publishes |-> "new"]
        /\ delivered = [p \in Publishes |-> None]
        /\ failed = {}
        /\ up = TRUE
        /\ crashes = 0
        /\ queue = <<>>
        /\ call = [w \in Workers |-> NoCall]
        /\ step = [w \in Workers |-> "idle"]
        /\ result = [w \in Workers |-> NoResult]
        /\ replies = {}
        /\ counters = [c \in CounterNames |-> 0]

-----------------------------------------------------------------------------
(* EMQX (external) *)

(* A publish waits for one of the pool's connections; a call to a floodgate
   that is down reaches nobody. *)
Publish(p, m) == /\ fate[p] = "new"
                 /\ Cardinality(Calling) < PoolSize
                 /\ message' = [message EXCEPT ![p] = m]
                 /\ fate' = [fate EXCEPT ![p] = "calling"]
                 /\ queue' = IF up THEN Append(queue, p) ELSE queue
                 /\ UNCHANGED <<delivered, failed, up, crashes, workers, replies, counters>>

(* The call raises in EMQX: the original is delivered. *)
FailOpen(p) == /\ fate[p] = "calling"
               /\ fate' = [fate EXCEPT ![p] = "delivered"]
               /\ delivered' = [delivered EXCEPT ![p] = message[p].payload]
               /\ failed' = failed \cup {p}
               /\ UNCHANGED <<message, up, crashes, queue, workers, replies, counters>>

(* request_timeout has passed. *)
Timeout(p) == FailOpen(p)

(* Floodgate was down when the call was made, or has crashed since. *)
Lost(p) == /\ p \notin Range(queue) \cup Range(call)
           /\ \A r \in replies : r.call # p

ConnectionLost(p) == Lost(p) /\ FailOpen(p)

(* The answer arrives.  Nobody waits for it if the call has failed meanwhile. *)
Receive(r) == /\ replies' = replies \ {r}
              /\ IF fate[r.call] # "calling" THEN UNCHANGED broker
                 ELSE /\ fate' = [fate EXCEPT ![r.call] =
                                    IF r.response.allow_publish THEN "delivered" ELSE "denied"]
                      /\ delivered' = [delivered EXCEPT ![r.call] =
                           IF ~r.response.allow_publish THEN @
                           ELSE IF r.response.type = "IGNORE" THEN message[r.call].payload
                           ELSE r.response.payload]
                      /\ UNCHANGED <<message, failed>>
              /\ UNCHANGED <<up, crashes, queue, workers, counters>>

-----------------------------------------------------------------------------
(* floodgate: one worker of the gRPC server *)

(* The executor's next call goes to an idle thread. *)
Take(w) == /\ step[w] = "idle"
           /\ queue # <<>>
           /\ queue' = Tail(queue)
           /\ call' = [call EXCEPT ![w] = Head(queue)]
           /\ step' = [step EXCEPT ![w] = "decide"]
           /\ UNCHANGED <<broker, up, crashes, result, replies, counters>>

(* gRPC (external): a call already cancelled by its client is not handled. *)
SkipCancelled(w) == /\ step[w] = "idle"
                    /\ queue # <<>>
                    /\ Head(queue) \notin Calling
                    /\ queue' = Tail(queue)
                    /\ UNCHANGED <<broker, up, crashes, workers, replies, counters>>

(* Mutants of Decide: the outcome is not counted; or it is kept where all the
   workers share it. *)
DecideUncounted(w) ==
  /\ step[w] = "decide"
  /\ LET m == message[call[w]]
     IN  result' = [result EXCEPT ![w] = decide(Config, m.levels, m.payload)]
  /\ step' = [step EXCEPT ![w] = "log"]
  /\ UNCHANGED <<broker, up, crashes, queue, call, replies, counters>>
DecideShared(w) ==
  /\ step[w] = "decide"
  /\ LET m == message[call[w]]
         r == decide(Config, m.levels, m.payload)
     IN  /\ result' = [any \in Workers |-> r]
         /\ counters' = [counters EXCEPT ![r.counter] = @ + 1]
  /\ step' = [step EXCEPT ![w] = "log"]
  /\ UNCHANGED <<broker, up, crashes, queue, call, replies>>

(* _process_message_inner up to stats.inc(): the decision is taken and counted. *)
Decide(w) == /\ step[w] = "decide"
             /\ LET m == message[call[w]]
                    r == decide(Config, m.levels, m.payload)
                IN  /\ result' = [result EXCEPT ![w] = r]
                    /\ counters' = [counters EXCEPT ![r.counter] = @ + 1]
             /\ step' = [step EXCEPT ![w] = "log"]
             /\ UNCHANGED <<broker, up, crashes, queue, call, replies>>

FormattingRaises(w) ==
  formatting_raises(message[call[w]].levels, message[call[w]].payload, result[w])

(* The log line raises: process_message counts the error and passes through. *)
LogRaises(w) == /\ step[w] = "log"
                /\ FormattingRaises(w)
                /\ result' = [result EXCEPT ![w] = Result("errors", "passthru", None)]
                /\ counters' = [counters EXCEPT !["errors"] = @ + 1]
                /\ step' = [step EXCEPT ![w] = "respond"]
                /\ UNCHANGED <<broker, up, crashes, queue, call, replies>>

(* Mutants of OnMessagePublish: the response type is left at its default; or
   CopyFrom(msg) comes after the payload is set. *)
OnMessagePublishUntyped(r, m) ==
  [type |-> IF r.action = "passthru" THEN "CONTINUE" ELSE "STOP_AND_RETURN",
   payload |-> IF r.action = "modify" THEN r.payload ELSE m.payload,
   allow_publish |-> r.action # "drop"]
OnMessagePublishCopies(r, m) ==
  [type |-> IF r.action = "passthru" THEN "IGNORE" ELSE "STOP_AND_RETURN",
   payload |-> m.payload,
   allow_publish |-> r.action # "drop"]

(* The response that OnMessagePublish makes of a result. *)
OnMessagePublish(r, m) ==
  [type |-> IF r.action = "passthru" THEN "IGNORE" ELSE "STOP_AND_RETURN",
   payload |-> IF r.action = "modify" THEN r.payload ELSE m.payload,
   allow_publish |-> r.action # "drop"]

(* Mutant of Respond: the thread does not come back to the pool. *)
RespondLeaks(w) == /\ \/ step[w] = "log" /\ ~FormattingRaises(w)
                      \/ step[w] = "respond"
                   /\ replies' = replies \cup
                        {[call |-> call[w],
                          response |-> OnMessagePublish(result[w], message[call[w]])]}
                   /\ step' = [step EXCEPT ![w] = "leaked"]
                   /\ UNCHANGED <<broker, up, crashes, queue, call, result, counters>>

Respond(w) == /\ \/ step[w] = "log" /\ ~FormattingRaises(w)
                 \/ step[w] = "respond"
              /\ replies' = replies \cup
                   {[call |-> call[w], response |-> OnMessagePublish(result[w], message[call[w]])]}
              /\ call' = [call EXCEPT ![w] = NoCall]
              /\ step' = [step EXCEPT ![w] = "idle"]
              /\ result' = [result EXCEPT ![w] = NoResult]
              /\ UNCHANGED <<broker, up, crashes, queue, counters>>

-----------------------------------------------------------------------------
(* The process: a crash loses every call, answer and counter. *)

Crash == /\ up /\ crashes < MaxCrashes
         /\ up' = FALSE
         /\ crashes' = crashes + 1
         /\ queue' = <<>>
         /\ call' = [w \in Workers |-> NoCall]
         /\ step' = [w \in Workers |-> "idle"]
         /\ result' = [w \in Workers |-> NoResult]
         /\ replies' = {}
         /\ counters' = [c \in CounterNames |-> 0]
         /\ UNCHANGED broker

Restart == /\ ~up
           /\ up' = TRUE
           /\ UNCHANGED <<broker, crashes, queue, workers, replies, counters>>

-----------------------------------------------------------------------------

Work(w) == Take(w) \/ SkipCancelled(w) \/ Decide(w) \/ LogRaises(w) \/ Respond(w)

Next == \/ \E p \in Publishes : (\E m \in Messages : Publish(p, m)) \/ Timeout(p)
                                  \/ ConnectionLost(p)
        \/ \E r \in replies : Receive(r)
        \/ \E w \in Workers : Work(w)
        \/ Crash
        \/ Restart

Spec == Init /\ [][Next]_vars

(***************************************************************************)
(* The operating system runs every thread that can run; TCP delivers an    *)
(* answer or reports the loss of the connection.  Nothing says that        *)
(* floodgate is ever restarted, that a publish is ever made or that a call *)
(* times out.                                                              *)
(***************************************************************************)
FairSpec == /\ Spec
            /\ \A w \in Workers : WF_vars(Work(w))
            /\ \A p \in Publishes :
                  /\ WF_vars(ConnectionLost(p))
                  /\ WF_vars(\E r \in replies : r.call = p /\ Receive(r))

-----------------------------------------------------------------------------

TypeOK == /\ fate \in [Publishes -> {"new", "calling", "delivered", "denied"}]
          /\ message \in [Publishes -> Messages \cup {NoMessage}]
          /\ failed \subseteq Publishes
          /\ up \in BOOLEAN /\ crashes \in 0..MaxCrashes
          /\ queue \in Seq(Publishes)
          /\ call \in [Workers -> Publishes \cup {NoCall}]
          /\ step \in [Workers -> {"idle", "decide", "log", "respond"}]
          /\ \A r \in replies : r.call \in Publishes
                                /\ r.response.type \in {"IGNORE", "STOP_AND_RETURN"}
                                /\ r.response.allow_publish \in BOOLEAN
          /\ counters \in [CounterNames -> Nat]

(***************************************************************************)
(* A packet that still has hops reaches the subscribers of a zero-hop      *)
(* channel only if its call failed, and then metrics.failed shows it, or   *)
(* if floodgate could not read or log it: never through a mix-up between   *)
(* concurrent calls or through a late answer.                              *)
(***************************************************************************)
Protection ==
  \A p \in Publishes \ failed :
     LET m == message[p]
     IN  /\ fate[p] = "delivered"
         /\ Readable(m.levels, delivered[p])
         /\ OnZerohopChannel(Config, m.levels)
         /\ Loggable(m.levels, delivered[p])
         => HopsLeft(m.levels, delivered[p]) = 0

(***************************************************************************)
(* What EMQX acted on has been counted: as long as floodgate has not       *)
(* crashed, /health shows at least the denials and rewrites that happened. *)
(***************************************************************************)
AnswersCounted ==
  crashes = 0 =>
    /\ Cardinality({p \in Publishes : fate[p] = "denied"}) <= counters["dropped"]
    /\ Cardinality({p \in Publishes \ failed :
                      fate[p] = "delivered" /\ delivered[p] # message[p].payload})
         <= counters["zerohop"]

(***************************************************************************)
(* "Keep grpc_max_workers >= the broker's exhook pool_size": with that, a  *)
(* call that EMQX waits for is in the queue only while a thread is free to *)
(* take it or a thread is still busy with a call that has timed out.       *)
(***************************************************************************)
QueuedBehindTimeoutsOnly ==
  /\ Cardinality(Workers) >= PoolSize
  /\ Range(queue) \cap Calling # {}
  => \E w \in Workers : step[w] = "idle" \/ call[w] \in failed

(***************************************************************************)
(* No publish waits for ever, even at a broker that never times out:       *)
(* whatever the payload, the call is answered, or lost with the process.   *)
(***************************************************************************)
EverySettles == \A p \in Publishes : fate[p] = "calling" ~> fate[p] # "calling"

(***************************************************************************)
(* README.md:55, "Each message produces one outcome": floodgate never      *)
(* counts more outcomes than EMQX has sent it messages.                    *)
(***************************************************************************)
OneOutcomeEach ==
  SumFunction(counters) <= Cardinality({p \in Publishes : fate[p] # "new"})

(***************************************************************************)
(* README.md:232, "the floodgate `dropped` counter and per-message log     *)
(* lines are the source of truth": once EMQX has all its answers, as many  *)
(* publishes were denied as the counter says.                              *)
(***************************************************************************)
DroppedIsTheTruth ==
  (Calling = {} /\ replies = {})
    => counters["dropped"] <= Cardinality({p \in Publishes : fate[p] = "denied"})

(***************************************************************************)
(* EMQX with floodgate keeps the contract: queueing, threads, timeouts and *)
(* crashes show only as failed calls.                                      *)
(***************************************************************************)
Contract == INSTANCE FilterContract
ImplementsFilterContract == Contract!Spec
=============================================================================
