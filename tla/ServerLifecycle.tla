-------------------------- MODULE ServerLifecycle --------------------------
(***************************************************************************)
(* floodgate's threads from start() to their end: the main thread, which   *)
(* starts and stops the others; the handlers of gRPC calls, which count    *)
(* outcomes; the stats reporter, which cuts and logs windows of them; and  *)
(* the health server, one thread that serves one connection at a time.     *)
(*                                                                         *)
(* The main thread either runs serve(), until it is interrupted, or        *)
(* belongs to a program that called start() and may call stop().  inc()    *)
(* and reset() are atomic here: AntifloodStatsProofs shows that they are.  *)
(***************************************************************************)
EXTENDS Integers, Sequences, FiniteSets

CONSTANTS Calls,            \* the gRPC calls that may come in
          Clients,          \* who connects to the health port
          NoClient

ASSUME ServerAssumption == NoClient \notin Clients

VARIABLES main,         \* the main thread in start(), serve() or stop()
          grpc,         \* the gRPC server
          handlers,     \* calls being handled
          handled,      \* calls that were counted
          window,       \* outcomes in the rolling counters
          stop_event,   \* the reporter's flag
          reporter,     \* the stats reporter thread
          stats_log,    \* whether it logs the windows it cuts
          snap,         \* the total of the window it has cut
          logged,       \* outcomes in [STATS] lines so far
          late_lines,   \* history: [STATS] lines written after the flag was set
          health,       \* the health server's socket and serve_forever loop
          client,       \* what each health client is doing
          backlog,      \* connections the loop has not accepted
          serving       \* the connection it is on
calls_vars == <<handlers, handled, window>>
report_vars == <<stats_log, snap, logged, late_lines>>
reporter_vars == <<reporter, report_vars>>
health_vars == <<client, backlog, serving>>
vars == <<main, grpc, stop_event, health, calls_vars, reporter_vars, health_vars>>

Init == /\ main = "start" /\ grpc = "down" /\ health = "down" /\ reporter = "none"
        /\ handlers = {} /\ handled = {} /\ window = 0
        /\ stop_event = FALSE /\ stats_log \in BOOLEAN /\ snap = 0 /\ logged = 0 /\ late_lines = 0
        /\ client = [c \in Clients |-> "away"] /\ backlog = <<>> /\ serving = NoClient

-----------------------------------------------------------------------------
(* start() *)

(* Mutant: the port is bound, but the server is started last. *)
StartGrpcLate ==
  /\ main = "start"
  /\ \/ main' = "start_health" /\ grpc' = "bound"
     \/ main' = "raised" /\ UNCHANGED grpc
  /\ UNCHANGED <<stop_event, health, calls_vars, reporter_vars, health_vars>>

(* add_insecure_port() and start(), or the port is taken. *)
StartGrpc ==
  /\ main = "start"
  /\ \/ main' = "start_health" /\ grpc' = "serving"
     \/ main' = "raised" /\ UNCHANGED grpc
  /\ UNCHANGED <<stop_event, health, calls_vars, reporter_vars, health_vars>>

(* The health port may be taken, with the gRPC server already answering. *)
StartHealth ==
  /\ main = "start_health"
  /\ \/ main' = "start_reporter" /\ health' = "serving"
     \/ main' = "raised" /\ UNCHANGED health
  /\ UNCHANGED <<grpc, stop_event, calls_vars, reporter_vars, health_vars>>

StartReporter ==
  /\ main = "start_reporter"
  /\ main' = "waiting" /\ reporter' = "waiting"
  /\ UNCHANGED <<grpc, stop_event, health, calls_vars, report_vars, health_vars>>

(* serve(): ^C, or an exception, in start() or in wait_for_termination(); only the
   latter is inside the try whose finally sets the flag. *)
Interrupt ==
  /\ main \in {"start_health", "start_reporter", "waiting"}
  /\ main' = "raised" /\ stop_event' = (main = "waiting")
  /\ UNCHANGED <<grpc, health, calls_vars, reporter_vars, health_vars>>

(* Mutant: the health thread is no daemon thread. *)
ExitJoinsHealth ==
  /\ main = "joining" /\ handlers = {} /\ health \in {"down", "closed"}
  /\ main' = "exited" /\ grpc' = "stopped" /\ health' = "closed" /\ reporter' = "ended"
  /\ client' = [c \in Clients |-> "away"] /\ backlog' = <<>> /\ serving' = NoClient
  /\ window' = 0 /\ snap' = 0
  /\ UNCHANGED <<stop_event, handlers, handled, stats_log, logged, late_lines>>

(* The interpreter shuts down: the pool takes no call any more, its threads are
   joined, and the daemon threads go with the process, and with it what the reporter
   has not logged: nothing reports it afterwards. *)
ClosePool ==
  /\ main = "raised" /\ main' = "joining"
  /\ UNCHANGED <<grpc, stop_event, health, calls_vars, reporter_vars, health_vars>>
Exit ==
  /\ main = "joining" /\ handlers = {}
  /\ main' = "exited" /\ grpc' = "stopped" /\ health' = "closed" /\ reporter' = "ended"
  /\ client' = [c \in Clients |-> "away"] /\ backlog' = <<>> /\ serving' = NoClient
  /\ window' = 0 /\ snap' = 0
  /\ UNCHANGED <<stop_event, handlers, handled, stats_log, logged, late_lines>>

-----------------------------------------------------------------------------
(* RunningServer.stop() *)

StopGrpc ==
  /\ main = "waiting"
  /\ main' = "stop_grpc" /\ stop_event' = TRUE /\ grpc' = "draining"
  /\ UNCHANGED <<health, calls_vars, reporter_vars, health_vars>>

(* The wait is over when the calls are answered, or cancelled after the grace
   period: a handler that was cancelled runs on. *)
GrpcStopped ==
  /\ main = "stop_grpc"
  /\ main' = "stop_health" /\ grpc' = "stopped"
  /\ UNCHANGED <<stop_event, health, calls_vars, reporter_vars, health_vars>>

ShutdownHealth ==
  /\ main = "stop_health"
  /\ main' = "close_health" /\ health' = "shutdown"
  /\ UNCHANGED <<grpc, stop_event, calls_vars, reporter_vars, health_vars>>

(* Mutant: server_close() without waiting for the loop. *)
CloseHealthNow ==
  /\ main = "close_health"
  /\ main' = "stopped" /\ health' = "closed"
  /\ client' = [c \in Clients |-> IF c = serving THEN client[c] ELSE "away"] /\ backlog' = <<>>
  /\ UNCHANGED <<grpc, stop_event, calls_vars, reporter_vars, serving>>

(* shutdown() returns when serve_forever has; server_close() resets who waits. *)
CloseHealth ==
  /\ main = "close_health" /\ health = "ended"
  /\ main' = "stopped" /\ health' = "closed"
  /\ client' = [c \in Clients |-> "away"] /\ backlog' = <<>>
  /\ UNCHANGED <<grpc, stop_event, calls_vars, reporter_vars, serving>>

-----------------------------------------------------------------------------
(* The handlers.  Each call counts one outcome. *)

Handle(c) ==
  /\ grpc = "serving" /\ main \notin {"joining", "exited"}
  /\ c \in Calls \ (handlers \cup handled)
  /\ handlers' = handlers \cup {c}
  /\ UNCHANGED <<main, grpc, stop_event, health, handled, window, reporter_vars, health_vars>>

Finish(c) ==
  /\ c \in handlers
  /\ handlers' = handlers \ {c} /\ handled' = handled \cup {c} /\ window' = window + 1
  /\ UNCHANGED <<main, grpc, stop_event, health, reporter_vars, health_vars>>

-----------------------------------------------------------------------------
(* _stats_reporter *)

(* Mutant: the flag is not looked at when the wait times out. *)
IntervalOverAlways ==
  /\ reporter = "waiting" /\ reporter' = "resetting"
  /\ UNCHANGED <<main, grpc, stop_event, health, calls_vars, report_vars, health_vars>>

IntervalOver ==
  /\ reporter = "waiting" /\ ~stop_event
  /\ reporter' = "resetting"
  /\ UNCHANGED <<main, grpc, stop_event, health, calls_vars, report_vars, health_vars>>

(* Mutant: the counters are zeroed before they are copied. *)
ResetZeroesFirst ==
  /\ reporter = "resetting"
  /\ reporter' = "logging" /\ snap' = 0 /\ window' = 0
  /\ UNCHANGED <<main, grpc, stop_event, health, handlers, handled, stats_log, logged, late_lines,
                 health_vars>>

Reset ==
  /\ reporter = "resetting"
  /\ reporter' = "logging" /\ snap' = window /\ window' = 0
  /\ UNCHANGED <<main, grpc, stop_event, health, handlers, handled, stats_log, logged, late_lines,
                 health_vars>>

(* Mutant: a window cut while the flag was being set is not logged. *)
LogUnlessStopped ==
  /\ reporter = "logging"
  /\ reporter' = "waiting" /\ snap' = 0
  /\ logged' = IF stats_log /\ ~stop_event THEN logged + snap ELSE logged
  /\ UNCHANGED <<main, grpc, stop_event, health, stats_log, late_lines, calls_vars, health_vars>>

(* Mutant: what was logged is taken off the counters, which reset() has zeroed. *)
LogTakesOff ==
  /\ reporter = "logging"
  /\ reporter' = "waiting" /\ snap' = 0 /\ window' = window - snap
  /\ logged' = IF stats_log THEN logged + snap ELSE logged
  /\ UNCHANGED <<main, grpc, stop_event, health, handlers, handled, stats_log, late_lines,
                 health_vars>>

(* A window without messages makes no [STATS] line, nor does any without stats_log. *)
Log ==
  /\ reporter = "logging"
  /\ reporter' = "waiting" /\ snap' = 0
  /\ logged' = IF stats_log THEN logged + snap ELSE logged
  /\ late_lines' = IF stats_log /\ stop_event /\ snap > 0 THEN late_lines + 1 ELSE late_lines
  /\ UNCHANGED <<main, grpc, stop_event, health, stats_log, calls_vars, health_vars>>

EndReporter ==
  /\ reporter = "waiting" /\ stop_event
  /\ reporter' = "ended"
  /\ UNCHANGED <<main, grpc, stop_event, health, calls_vars, report_vars, health_vars>>

-----------------------------------------------------------------------------
(* The health server's loop, and who connects to it. *)

Connected(c) == serving = c \/ \E i \in DOMAIN backlog : backlog[i] = c

(* A client has one connection at a time, a dead one included: a bound. *)
Connect(c) ==
  /\ health \in {"serving", "shutdown", "ended"} /\ client[c] = "away" /\ ~Connected(c)
  /\ client' = [client EXCEPT ![c] = "silent"] /\ backlog' = Append(backlog, c)
  /\ UNCHANGED <<main, grpc, stop_event, health, calls_vars, reporter_vars, serving>>

Ask(c) ==
  /\ client[c] = "silent" /\ client' = [client EXCEPT ![c] = "asking"]
  /\ UNCHANGED <<main, grpc, stop_event, health, calls_vars, reporter_vars, backlog, serving>>

(* Hanging up leaves a dead connection behind. *)
Leave(c) ==
  /\ client[c] # "away" /\ client' = [client EXCEPT ![c] = "away"]
  /\ UNCHANGED <<main, grpc, stop_event, health, calls_vars, reporter_vars, backlog, serving>>

Accept ==
  /\ health = "serving" /\ serving = NoClient /\ backlog # <<>>
  /\ serving' = Head(backlog) /\ backlog' = Tail(backlog)
  /\ UNCHANGED <<main, grpc, stop_event, health, calls_vars, reporter_vars, client>>

(* Mutant: protocol_version = "HTTP/1.1", the connection is kept for another request. *)
AnswerKeepAlive ==
  /\ serving # NoClient /\ client[serving] = "asking"
  /\ client' = [client EXCEPT ![serving] = "silent"]
  /\ UNCHANGED <<main, grpc, stop_event, health, calls_vars, reporter_vars, backlog, serving>>

(* do_GET, with 200 or 404; HTTP/1.0 closes the connection. *)
Answer ==
  /\ serving # NoClient /\ client[serving] = "asking"
  /\ client' = [client EXCEPT ![serving] = "away"] /\ serving' = NoClient
  /\ UNCHANGED <<main, grpc, stop_event, health, calls_vars, reporter_vars, backlog>>

(* Reading from a dead connection ends at once. *)
Drop ==
  /\ serving # NoClient /\ client[serving] = "away"
  /\ serving' = NoClient
  /\ UNCHANGED <<main, grpc, stop_event, health, calls_vars, reporter_vars, client, backlog>>

(* serve_forever looks at the request to shut down between two connections. *)
EndLoop ==
  /\ health = "shutdown" /\ serving = NoClient
  /\ health' = "ended"
  /\ UNCHANGED <<main, grpc, stop_event, calls_vars, reporter_vars, health_vars>>

-----------------------------------------------------------------------------
Starting == StartGrpc \/ StartHealth \/ StartReporter
Ending == ClosePool \/ Exit \/ GrpcStopped \/ ShutdownHealth \/ CloseHealth
Reporting == IntervalOver \/ Reset \/ Log \/ EndReporter
HealthLoop == Accept \/ Answer \/ Drop \/ EndLoop

Next == \/ Starting \/ Ending \/ Interrupt \/ StopGrpc \/ Reporting \/ HealthLoop
        \/ \E c \in Calls : Handle(c) \/ Finish(c)
        \/ \E c \in Clients : Connect(c) \/ Ask(c) \/ Leave(c)

(* Threads that can run do; a handler returns (nothing in it waits).  Of the health
   clients nothing is assumed: the server has no timeout for them. *)
Fairness == /\ WF_vars(Starting) /\ WF_vars(Ending) /\ WF_vars(Reporting)
            /\ WF_vars(HealthLoop)
            /\ \A c \in Calls : WF_vars(Finish(c))
Spec == Init /\ [][Next]_vars /\ Fairness

-----------------------------------------------------------------------------
(* Every variable has its type. *)
TypeOK ==
  /\ main \in {"start", "start_health", "start_reporter", "waiting", "raised", "joining",
               "exited", "stop_grpc", "stop_health", "close_health", "stopped"}
  /\ grpc \in {"down", "serving", "draining", "stopped"}
  /\ health \in {"down", "serving", "shutdown", "ended", "closed"}
  /\ handlers \subseteq Calls /\ handled \subseteq Calls /\ stop_event \in BOOLEAN
  /\ reporter \in {"none", "waiting", "resetting", "logging", "ended"}
  /\ window \in Nat /\ snap \in Nat /\ logged \in Nat /\ late_lines \in Nat
  /\ client \in [Clients -> {"away", "silent", "asking"}]
  /\ backlog \in Seq(Clients) /\ serving \in Clients \cup {NoClient}

(* A pod is Ready, and gets EMQX's calls, when /health answers: that is never before
   the gRPC server answers too, and stops being so only while stop() is at work. *)
HealthAfterGrpc == health = "serving" /\ grpc # "serving" => stop_event

(* With stats_log and while the process lives, the outcomes that no [STATS] line has
   reported are those counted since the last cut and those in the reporter's hand; and a
   reporter that ended by its flag has nothing in hand.  So what stop() leaves unreported,
   as it does, was counted after the last cut; a window that was cut while the flag was
   being set has reached its line. *)
CutIsLogged ==
  stats_log /\ main # "exited" =>
    /\ Cardinality(handled) - logged = window + snap
    /\ reporter = "ended" => Cardinality(handled) - logged = window

(* With stats_log, every outcome comes to be in a [STATS] line, unless the process is
   told to stop, or fails to start, before that. *)
OutcomesReported ==
  \A n \in 1..Cardinality(Calls) :
    stats_log /\ Cardinality(handled) = n
      ~> (logged >= n \/ stop_event \/ main \in {"raised", "joining", "exited"})

(* Once the flag is set there is at most the one line of the window being cut. *)
OneLateLine == late_lines <= 1

(* stop() returns only when both ports are free and no connection is being served:
   the socket is never closed under the loop. *)
StopReleases ==
  /\ main = "stopped" => grpc = "stopped" /\ health = "closed"
  /\ health = "closed" => serving = NoClient

(* health.py:38: "Call shutdown() then server_close() on the result to stop it".
   stop() does, and returns, whatever the connections are doing. *)
StopReturns == main = "stop_grpc" ~> main = "stopped"

(* What the code does instead.  One client can keep the loop from everyone: who is
   being served and never says a word ... *)
Hogs(c) == serving = c /\ client[c] = "silent"

(* ... and nothing else keeps stop() from returning: no queue of clients, no call, no
   reporter, no client that asks again and again. *)
StopHeldBySilenceOnly ==
  main = "stop_grpc" ~> (main = "stopped" \/ \E c \in Clients : []Hogs(c))

(* Nor a client that has asked from its answer (or from being cut off), however often
   others connect, ask and hang up. *)
ProbeHeldBySilenceOnly ==
  \A c \in Clients :
    client[c] = "asking" ~> (client[c] # "asking" \/ \E d \in Clients : []Hogs(d))

(* A failed or interrupted start leaves no process behind: its gRPC server stops
   answering, and a restart policy can take over. *)
FailedStartExits == main = "raised" ~> main = "exited"

(* The reporter ends once its flag is set. *)
ReporterEnds == stop_event ~> reporter = "ended"
=============================================================================
