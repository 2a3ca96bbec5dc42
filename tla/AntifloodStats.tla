--------------------------- MODULE AntifloodStats ---------------------------
(***************************************************************************)
(* The class AntifloodStats of zerohop.py: a rolling and a lifetime view   *)
(* of the packet counters behind one lock.  gRPC workers call inc(), the   *)
(* stats reporter calls reset() and the health server calls snapshot();    *)
(* here any thread may call any of the three.  Each method is split at the *)
(* points where another thread could run if the lock did not stop it:      *)
(* between reading and writing a counter, between the two views, between   *)
(* copying a view and summing or zeroing it.                               *)
(***************************************************************************)
EXTENDS Naturals, Functions

CONSTANTS Threads,          \* the threads that share the stats object
          CounterNames,     \* _COUNTER_NAMES
          MaxCount,         \* bound on each lifetime counter
          NoThread          \* the value of holder while the lock is free

ASSUME StatsAssumption == /\ MaxCount \in Nat
                          /\ NoThread \notin Threads

VARIABLES rolling,          \* the six int attributes
          lifetime,         \* _lifetime
          holder,           \* the thread inside `with self._lock`
          pc,               \* the next step of each thread
          arg,              \* inc()'s argument, per thread
          old,              \* what inc()'s getattr returned, per thread
          snap,             \* the local copy of reset() and snapshot(), per thread
          taken,            \* history: the sum of all windows reset() returned
          shown             \* history: the last dict snapshot() returned

vars == <<rolling, lifetime, holder, pc, arg, old, snap, taken, shown>>

Steps == {"idle", "inc", "inc_rolling", "inc_lifetime",
          "reset", "reset_zero", "snapshot", "snapshot_total"}

Zeros == [c \in CounterNames |-> 0]

TypeOK == /\ rolling \in [CounterNames -> Nat]
          /\ lifetime \in [CounterNames -> Nat]
          /\ holder \in Threads \cup {NoThread}
          /\ pc \in [Threads -> Steps]
          /\ arg \in [Threads -> CounterNames]
          /\ old \in [Threads -> Nat]
          /\ snap \in [Threads -> [CounterNames -> Nat]]
          /\ taken \in [CounterNames -> Nat]
          /\ shown.counters \in [CounterNames -> Nat]

Init == /\ rolling = Zeros
        /\ lifetime = Zeros
        /\ holder = NoThread
        /\ pc = [t \in Threads |-> "idle"]
        /\ arg \in [Threads -> CounterNames]
        /\ old = [t \in Threads |-> 0]
        /\ snap = [t \in Threads |-> Zeros]
        /\ taken = Zeros
        /\ shown = [counters |-> Zeros, total |-> SumFunction(Zeros)]

Goto(t, from, to) == pc[t] = from /\ pc' = [pc EXCEPT ![t] = to]

(* Mutant of Acquire: a method entered without the lock. *)
AcquireUnlocked(t) == holder' = t

(* Entering `with self._lock:` waits until no other thread is inside. *)
Acquire(t) == holder = NoThread /\ holder' = t

Release(t) == holder' = NoThread

-----------------------------------------------------------------------------
(* inc(counter) *)

IncEnter(t, c) == /\ lifetime[c] < MaxCount
                  /\ Goto(t, "idle", "inc")
                  /\ Acquire(t)
                  /\ arg' = [arg EXCEPT ![t] = c]
                  /\ UNCHANGED <<rolling, lifetime, old, snap, taken, shown>>

IncRead(t) == /\ Goto(t, "inc", "inc_rolling")
              /\ old' = [old EXCEPT ![t] = rolling[arg[t]]]
              /\ UNCHANGED <<rolling, lifetime, holder, arg, snap, taken, shown>>

IncRolling(t) == /\ Goto(t, "inc_rolling", "inc_lifetime")
                 /\ rolling' = [rolling EXCEPT ![arg[t]] = old[t] + 1]
                 /\ UNCHANGED <<lifetime, holder, arg, old, snap, taken, shown>>

IncLifetime(t) == /\ Goto(t, "inc_lifetime", "idle")
                  /\ lifetime' = [lifetime EXCEPT ![arg[t]] = @ + 1]
                  /\ Release(t)
                  /\ UNCHANGED <<rolling, arg, old, snap, taken, shown>>

-----------------------------------------------------------------------------
(* reset(): copy the rolling view, zero it, return the copy *)

ResetEnter(t) == /\ Goto(t, "idle", "reset")
                 /\ Acquire(t)
                 /\ UNCHANGED <<rolling, lifetime, arg, old, snap, taken, shown>>

ResetCopy(t) == /\ Goto(t, "reset", "reset_zero")
                /\ snap' = [snap EXCEPT ![t] = rolling]
                /\ UNCHANGED <<rolling, lifetime, holder, arg, old, taken, shown>>

(* Mutants of ResetZero: a window cut by clearing the dict, or not cleared at all. *)
ResetClears(t) == /\ Goto(t, "reset_zero", "idle")
                  /\ rolling' = <<>>
                  /\ taken' = [c \in CounterNames |-> taken[c] + snap[t][c]]
                  /\ Release(t)
                  /\ UNCHANGED <<lifetime, arg, old, snap, shown>>
ResetForgets(t) == /\ Goto(t, "reset_zero", "idle")
                   /\ taken' = [c \in CounterNames |-> taken[c] + snap[t][c]]
                   /\ Release(t)
                   /\ UNCHANGED <<rolling, lifetime, arg, old, snap, shown>>

ResetZero(t) == /\ Goto(t, "reset_zero", "idle")
                /\ rolling' = Zeros
                /\ taken' = [c \in CounterNames |-> taken[c] + snap[t][c]]
                /\ Release(t)
                /\ UNCHANGED <<lifetime, arg, old, snap, shown>>

-----------------------------------------------------------------------------
(* snapshot(): copy the lifetime view, then sum it (not the copy) *)

(* Mutant of SnapshotEnter: /health reads the counters without the lock. *)
SnapshotUnlocked(t) == /\ Goto(t, "idle", "snapshot")
                       /\ UNCHANGED <<rolling, lifetime, holder, arg, old, snap, taken, shown>>

SnapshotEnter(t) == /\ Goto(t, "idle", "snapshot")
                    /\ Acquire(t)
                    /\ UNCHANGED <<rolling, lifetime, arg, old, snap, taken, shown>>

(* Mutant of SnapshotCopy: /health reads the rolling view. *)
SnapshotRolling(t) == /\ Goto(t, "snapshot", "snapshot_total")
                      /\ snap' = [snap EXCEPT ![t] = rolling]
                      /\ UNCHANGED <<rolling, lifetime, holder, arg, old, taken, shown>>

SnapshotCopy(t) == /\ Goto(t, "snapshot", "snapshot_total")
                   /\ snap' = [snap EXCEPT ![t] = lifetime]
                   /\ UNCHANGED <<rolling, lifetime, holder, arg, old, taken, shown>>

SnapshotTotal(t) == /\ Goto(t, "snapshot_total", "idle")
                    /\ shown' = [counters |-> snap[t], total |-> SumFunction(lifetime)]
                    /\ Release(t)
                    /\ UNCHANGED <<rolling, lifetime, arg, old, snap, taken>>

-----------------------------------------------------------------------------

Next == \E t \in Threads :
           \/ \E c \in CounterNames : IncEnter(t, c)
           \/ IncRead(t) \/ IncRolling(t) \/ IncLifetime(t)
           \/ ResetEnter(t) \/ ResetCopy(t) \/ ResetZero(t)
           \/ SnapshotEnter(t) \/ SnapshotCopy(t) \/ SnapshotTotal(t)

Spec == Init /\ [][Next]_vars

-----------------------------------------------------------------------------

(* An increment whose rolling half is done and whose lifetime half is not. *)
HalfDone(c) == \E t \in Threads : pc[t] = "inc_lifetime" /\ arg[t] = c

(***************************************************************************)
(* Every outcome counted in the lifetime view (/health) has been reported  *)
(* by exactly one rolling window or is still in the current one: whatever  *)
(* the interleaving of inc() with reset(), the [STATS] lines add up to     *)
(* /health.  A lost update or a window zeroed after a concurrent inc()     *)
(* would break it.                                                         *)
(***************************************************************************)
Conservation ==
  \A c \in CounterNames :
     taken[c] + rolling[c] = lifetime[c] + (IF HalfDone(c) THEN 1 ELSE 0)

(***************************************************************************)
(* The total that /health shows is the sum of the counters it shows        *)
(* beside it, although snapshot() sums the live dict and not its copy.     *)
(***************************************************************************)
HealthAddsUp == shown.total = SumFunction(shown.counters)

(***************************************************************************)
(* No counter that /health shows ever goes down during the life of the     *)
(* process, in particular not when the stats reporter resets its window.   *)
(***************************************************************************)
HealthNeverDecreases ==
  [][\A c \in CounterNames : shown'.counters[c] >= shown.counters[c]]_vars

(***************************************************************************)
(* With inc() taking effect when it updates _lifetime, reset() when it     *)
(* zeroes the window and snapshot() when it sums, the locked object is the *)
(* atomic one.                                                             *)
(***************************************************************************)
Abstract == INSTANCE PacketCounters WITH counted <- lifetime
ImplementsPacketCounters == Abstract!Spec
=============================================================================
