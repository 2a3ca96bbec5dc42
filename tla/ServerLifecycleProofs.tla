----------------------- MODULE ServerLifecycleProofs -----------------------
(* The lifecycle's invariants for any number of calls and health clients. *)
EXTENDS ServerLifecycle, FiniteSetTheorems, TLAPS

(* What of TypeOK concerns no sequence. *)
TypesOnly ==
  /\ handlers \subseteq Calls /\ handled \subseteq Calls
  /\ stop_event \in BOOLEAN /\ stats_log \in BOOLEAN
  /\ window \in Nat /\ snap \in Nat /\ logged \in Nat /\ late_lines \in Nat

(* Where the main thread is tells how far the servers are. *)
Stages ==
  /\ main \in {"start", "start_health", "start_reporter", "waiting", "raised", "joining",
               "exited", "stop_grpc", "stop_health", "close_health", "stopped"}
  /\ grpc \in {"down", "serving", "draining", "stopped"}
  /\ health \in {"down", "serving", "shutdown", "ended", "closed"}
  /\ main = "start" => health = "down" /\ grpc = "down"
  /\ main \in {"start", "start_health", "start_reporter", "waiting"} => ~stop_event
  /\ main \in {"start", "start_health", "start_reporter"} => reporter = "none"
  /\ main \in {"start_health", "start_reporter", "waiting"} => grpc = "serving"
  /\ main = "stop_grpc" => grpc = "draining"
  /\ main \in {"stop_health", "close_health", "stopped"} => grpc = "stopped"
  /\ main = "stopped" => health = "closed"
  /\ health = "closed" => main \in {"stopped", "exited"}
  /\ health # "down" => grpc # "down"
  /\ grpc \in {"draining", "stopped"} => stop_event \/ main = "exited"
  /\ main = "exited" => health = "closed"
  /\ health \in {"ended", "closed"} => serving = NoClient

(* The line that is late is the last: the reporter sees the flag at its next wait. *)
LateLine ==
  /\ reporter \in {"none", "waiting", "resetting", "logging", "ended"}
  /\ late_lines \in {0, 1}
  /\ late_lines = 1 => stop_event /\ reporter \in {"waiting", "ended"}

(* Every call is handled once, and is then in the window, in the hand of a reporter that
   has cut it, or in a line; the process's exit empties the first two. *)
Windows ==
  /\ IsFiniteSet(handled) /\ handlers \cap handled = {}
  /\ reporter # "logging" => snap = 0
  /\ stats_log /\ main # "exited" => Cardinality(handled) - logged = window + snap

Queue ==
  /\ client \in [Clients -> {"away", "silent", "asking"}]
  /\ backlog \in Seq(Clients) /\ serving \in Clients \cup {NoClient}

IInv == TypesOnly /\ Stages /\ LateLine /\ Windows /\ Queue

LEMMA InvInit == Init => IInv
<1> SUFFICES ASSUME Init PROVE IInv
  OBVIOUS
<1>1. TypesOnly /\ LateLine
  <2>1. stop_event \in BOOLEAN /\ stats_log \in BOOLEAN /\ late_lines = 0
    BY DEF Init
  <2>2. TypesOnly
    BY <2>1 DEF Init, TypesOnly
  <2>3. LateLine
    BY DEF Init, LateLine
  <2> QED BY <2>2, <2>3
<1>4. Stages
  BY DEF Init, Stages
<1>2. Windows
  BY FS_EmptySet DEF Init, Windows
<1>3. Queue
  BY DEF Init, Queue
<1> QED BY <1>1, <1>2, <1>3, <1>4 DEF IInv

(* The actions, grouped by what they leave alone. *)
MainStep == Starting \/ Ending \/ Interrupt \/ StopGrpc
ClientStep == \E c \in Clients : Connect(c) \/ Ask(c) \/ Leave(c)
CallStep == \E c \in Calls : Handle(c) \/ Finish(c)

LEMMA ThreadsKept == IInv /\ [Next]_vars => TypesOnly' /\ Stages' /\ LateLine'
<1> SUFFICES ASSUME IInv, [Next]_vars PROVE TypesOnly' /\ Stages' /\ LateLine'
  OBVIOUS
<1> USE DEF IInv, TypesOnly, Stages, LateLine, calls_vars, reporter_vars, report_vars, health_vars
<1>1. CASE Starting
  BY <1>1 DEF Starting, StartGrpc, StartHealth, StartReporter, Queue
<1>2. CASE Ending
  <2>1. CASE ClosePool \/ ShutdownHealth \/ GrpcStopped
    BY <2>1 DEF ClosePool, ShutdownHealth, GrpcStopped
  <2>2. CASE Exit
    BY <2>2 DEF Exit
  <2>3. CASE CloseHealth
    BY <2>3 DEF CloseHealth
  <2> QED BY <1>2, <2>1, <2>2, <2>3 DEF Ending
<1>3. CASE Interrupt \/ StopGrpc
  BY <1>3 DEF Interrupt, StopGrpc
<1>4. CASE Reporting
  BY <1>4 DEF Reporting, IntervalOver, Reset, Log, EndReporter
<1>5. CASE HealthLoop
  <2>1. CASE Accept
    BY <2>1 DEF Accept
  <2>2. CASE Answer \/ Drop \/ EndLoop
    BY <2>2 DEF Answer, Drop, EndLoop
  <2> QED BY <1>5, <2>1, <2>2 DEF HealthLoop
<1>6. CASE CallStep
  BY <1>6 DEF CallStep, Handle, Finish
<1>7. CASE ClientStep
  BY <1>7 DEF ClientStep, Connect, Ask, Leave
<1>8. CASE UNCHANGED vars
  BY <1>8 DEF vars
<1> QED BY <1>1, <1>2, <1>3, <1>4, <1>5, <1>6, <1>7, <1>8 DEF Next, CallStep, ClientStep

LEMMA WindowsKept == IInv /\ [Next]_vars => Windows'
<1> SUFFICES ASSUME IInv, [Next]_vars PROVE Windows'
  OBVIOUS
<1> USE DEF IInv, Windows, calls_vars, reporter_vars, report_vars
<1>1. CASE Starting \/ Interrupt \/ StopGrpc
  BY <1>1 DEF Starting, StartGrpc, StartHealth, StartReporter, Interrupt, StopGrpc, Stages, LateLine
<1>2. CASE Ending
  <2>1. CASE Exit
    BY <2>1 DEF Exit
  <2>2. CASE ClosePool \/ GrpcStopped \/ ShutdownHealth \/ CloseHealth
    BY <2>2 DEF ClosePool, GrpcStopped, ShutdownHealth, CloseHealth
  <2> QED BY <1>2, <2>1, <2>2 DEF Ending
<1>3. CASE Reporting
  <2>1. CASE IntervalOver \/ EndReporter
    BY <2>1 DEF IntervalOver, EndReporter
  <2>2. CASE Reset
    BY <2>2 DEF Reset, TypesOnly
  <2>3. CASE Log
    <3>1. UNCHANGED <<main, stats_log, handlers, handled, window>> /\ snap' = 0 /\ reporter' = "waiting"
      BY <2>3 DEF Log
    <3>2. stats_log => logged' = logged + snap
      BY <2>3 DEF Log
    <3>3. Cardinality(handled) \in Nat
      BY FS_CardinalityType
    <3> QED BY <3>1, <3>2, <3>3 DEF TypesOnly
  <2> QED BY <1>3, <2>1, <2>2, <2>3 DEF Reporting
<1>4. CASE CallStep
  <2>1. CASE \E c \in Calls : Handle(c)
    BY <2>1 DEF Handle
  <2>2. ASSUME NEW c \in Calls, Finish(c) PROVE Windows'
    <3>1. c \notin handled
      BY <2>2 DEF Finish
    <3>2. /\ IsFiniteSet(handled') /\ Cardinality(handled') = Cardinality(handled) + 1
      BY <2>2, <3>1, FS_AddElement DEF Finish
    <3>3. Cardinality(handled) \in Nat
      BY FS_CardinalityType
    <3> QED BY <2>2, <3>2, <3>3 DEF Finish, TypesOnly
  <2> QED BY <1>4, <2>1, <2>2 DEF CallStep
<1>5. CASE HealthLoop
  BY <1>5 DEF HealthLoop, Accept, Answer, Drop, EndLoop
<1>6. CASE ClientStep
  BY <1>6 DEF ClientStep, Connect, Ask, Leave
<1>7. CASE UNCHANGED vars
  BY <1>7 DEF vars
<1> QED BY <1>1, <1>2, <1>3, <1>4, <1>5, <1>6, <1>7 DEF Next, CallStep, ClientStep

LEMMA QueueKept == IInv /\ [Next]_vars => Queue'
<1> SUFFICES ASSUME IInv, [Next]_vars PROVE Queue'
  OBVIOUS
<1> USE DEF IInv, Queue, health_vars
<1>1. CASE Starting \/ Interrupt \/ StopGrpc
  BY <1>1 DEF Starting, StartGrpc, StartHealth, StartReporter, Interrupt, StopGrpc
<1>2. CASE Ending
  <2>1. CASE ClosePool \/ GrpcStopped \/ ShutdownHealth
    BY <2>1 DEF ClosePool, GrpcStopped, ShutdownHealth
  <2>2. CASE Exit \/ CloseHealth
    <3>1. backlog' = <<>> /\ client' = [c \in Clients |-> "away"]
      BY <2>2 DEF Exit, CloseHealth
    <3>2. serving' \in Clients \cup {NoClient}
      BY <2>2 DEF Exit, CloseHealth
    <3>3. backlog' \in Seq(Clients)
      BY <3>1
    <3> QED BY <3>1, <3>2, <3>3
  <2> QED BY <1>2, <2>1, <2>2 DEF Ending
<1>3. CASE Reporting \/ CallStep
  BY <1>3 DEF Reporting, IntervalOver, Reset, Log, EndReporter, CallStep, Handle, Finish
<1>4. CASE Accept
  BY <1>4 DEF Accept
<1>5. CASE Answer \/ Drop \/ EndLoop
  BY <1>5 DEF Answer, Drop, EndLoop
<1>6. CASE \E c \in Clients : Connect(c)
  BY <1>6 DEF Connect
<1>7. CASE \E c \in Clients : Ask(c) \/ Leave(c)
  BY <1>7 DEF Ask, Leave
<1>8. CASE UNCHANGED vars
  BY <1>8 DEF vars
<1> QED BY <1>1, <1>2, <1>3, <1>4, <1>5, <1>6, <1>7, <1>8 DEF Next, HealthLoop, CallStep

LEMMA InvHolds == Spec => []IInv
<1>1. IInv /\ [Next]_vars => IInv'
  BY ThreadsKept, WindowsKept, QueueKept DEF IInv
<1> QED BY InvInit, <1>1, PTL DEF Spec

(* The types of the lifecycle. *)
THEOREM LifecycleTypeCorrect == Spec => []TypeOK
<1>1. IInv => TypeOK
  BY DEF IInv, TypesOnly, Stages, LateLine, Queue, TypeOK
<1> QED BY InvHolds, <1>1, PTL

(* /health answers only where the gRPC server does, except while stop() is at work. *)
THEOREM ReadyAfterGrpc == Spec => []HealthAfterGrpc
<1>1. IInv => HealthAfterGrpc
  BY DEF IInv, Stages, HealthAfterGrpc
<1> QED BY InvHolds, <1>1, PTL

(* However many calls there are, a window that was cut reaches its [STATS] line, and what
   a stopped reporter leaves unreported was counted after its last cut. *)
THEOREM CutWindowsAreLogged == Spec => []CutIsLogged
<1>1. IInv => CutIsLogged
  <2> SUFFICES ASSUME IInv, stats_log, main # "exited" PROVE
        /\ Cardinality(handled) - logged = window + snap
        /\ reporter = "ended" => Cardinality(handled) - logged = window
    BY DEF CutIsLogged
  <2>1. Cardinality(handled) - logged = window + snap
    BY DEF IInv, Windows
  <2>2. ASSUME reporter = "ended" PROVE Cardinality(handled) - logged = window
    BY <2>1, <2>2 DEF IInv, Windows, TypesOnly
  <2> QED BY <2>1, <2>2
<1> QED BY InvHolds, <1>1, PTL

(* The flag lets at most the line through that was being made. *)
THEOREM LateLinesBounded == Spec => []OneLateLine
<1>1. IInv => OneLateLine
  BY DEF IInv, LateLine, OneLateLine
<1> QED BY InvHolds, <1>1, PTL

(* stop() returns with both servers down and no connection being served. *)
THEOREM StopIsClean == Spec => []StopReleases
<1>1. IInv => StopReleases
  BY DEF IInv, Stages, StopReleases
<1> QED BY InvHolds, <1>1, PTL
=============================================================================
