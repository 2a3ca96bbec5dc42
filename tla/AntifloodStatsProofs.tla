------------------------ MODULE AntifloodStatsProofs ------------------------
(***************************************************************************)
(* Theorems about AntifloodStats, for any set of threads, any counters and *)
(* any bound.  The inductive invariant says who holds the lock and what    *)
(* the local copies are worth while it is held; every property follows.    *)
(***************************************************************************)
EXTENDS AntifloodStats, TLAPS

(* A thread is inside a method exactly while it holds the lock. *)
LockHeld == \A t \in Threads : pc[t] # "idle" <=> holder = t

(* What the lock keeps true of a thread's local values until it uses them. *)
LocalsFresh ==
  \A t \in Threads :
     /\ pc[t] = "inc_rolling" => old[t] = rolling[arg[t]]
     /\ pc[t] = "reset_zero" => snap[t] = rolling
     /\ pc[t] = "snapshot_total" => snap[t] = lifetime

(* inc() never starts on a counter that is at the bound. *)
RoomToCount ==
  \A t \in Threads :
     pc[t] \in {"inc", "inc_rolling", "inc_lifetime"} => lifetime[arg[t]] < MaxCount

(* What /health last showed is in the past of the lifetime counters. *)
ShownInPast == \A c \in CounterNames : shown.counters[c] <= lifetime[c]

Shown == ShownInPast /\ HealthAddsUp

IInv == /\ TypeOK
        /\ LockHeld
        /\ LocalsFresh
        /\ RoomToCount
        /\ Conservation
        /\ Shown

-----------------------------------------------------------------------------

(* A new stats object satisfies IInv. *)
LEMMA InitIInv == Init => IInv
  BY StatsAssumption
     DEF Init, IInv, TypeOK, Steps, Zeros, LockHeld, LocalsFresh, RoomToCount,
         Conservation, HalfDone, Shown, ShownInPast, HealthAddsUp

(* Every step keeps the variables in their types. *)
LEMMA NextTypeOK == TypeOK /\ LockHeld /\ [Next]_vars => TypeOK'
<1> SUFFICES ASSUME TypeOK, LockHeld, [Next]_vars PROVE TypeOK'
  OBVIOUS
<1> USE DEF TypeOK, Steps, Goto, Acquire, Release, Zeros
<1>1. ASSUME NEW t \in Threads, NEW c \in CounterNames, IncEnter(t, c) PROVE TypeOK'
  BY <1>1 DEF IncEnter
<1>2. ASSUME NEW t \in Threads, IncRead(t) PROVE TypeOK'
  BY <1>2 DEF IncRead
<1>3. ASSUME NEW t \in Threads, IncRolling(t) PROVE TypeOK'
  BY <1>3 DEF IncRolling
<1>4. ASSUME NEW t \in Threads, IncLifetime(t) PROVE TypeOK'
  BY <1>4 DEF IncLifetime
<1>5. ASSUME NEW t \in Threads, ResetEnter(t) PROVE TypeOK'
  BY <1>5 DEF ResetEnter
<1>6. ASSUME NEW t \in Threads, ResetCopy(t) PROVE TypeOK'
  BY <1>6 DEF ResetCopy
<1>7. ASSUME NEW t \in Threads, ResetZero(t) PROVE TypeOK'
  BY <1>7 DEF ResetZero
<1>8. ASSUME NEW t \in Threads, SnapshotEnter(t) PROVE TypeOK'
  BY <1>8 DEF SnapshotEnter
<1>9. ASSUME NEW t \in Threads, SnapshotCopy(t) PROVE TypeOK'
  BY <1>9 DEF SnapshotCopy
<1>10. ASSUME NEW t \in Threads, SnapshotTotal(t) PROVE TypeOK'
  BY <1>10 DEF SnapshotTotal
<1>11. CASE UNCHANGED vars
  BY <1>11 DEF vars
<1> QED
  BY <1>1, <1>2, <1>3, <1>4, <1>5, <1>6, <1>7, <1>8, <1>9, <1>10, <1>11 DEF Next

(* Every step keeps the lock in the hands of the one thread that is busy. *)
LEMMA NextLockHeld == TypeOK /\ LockHeld /\ [Next]_vars => LockHeld'
<1> SUFFICES ASSUME TypeOK, LockHeld, [Next]_vars PROVE LockHeld'
  OBVIOUS
<1> USE StatsAssumption DEF TypeOK, LockHeld, Goto
<1>1. ASSUME NEW t \in Threads, Acquire(t), NEW s \in Steps \ {"idle"},
             Goto(t, "idle", s)
      PROVE  LockHeld'
  BY <1>1 DEF Acquire
<1>2. ASSUME NEW t \in Threads, Release(t), NEW s \in Steps \ {"idle"},
             Goto(t, s, "idle")
      PROVE  LockHeld'
  BY <1>2 DEF Release
<1>3. ASSUME NEW t \in Threads, UNCHANGED holder, NEW s \in Steps \ {"idle"},
             NEW s2 \in Steps \ {"idle"}, Goto(t, s, s2)
      PROVE  LockHeld'
  BY <1>3
<1>4. CASE UNCHANGED vars
  BY <1>4 DEF vars
<1> QED
  BY <1>1, <1>2, <1>3, <1>4
     DEF Next, Steps, IncEnter, IncRead, IncRolling, IncLifetime, ResetEnter,
         ResetCopy, ResetZero, SnapshotEnter, SnapshotCopy, SnapshotTotal

(* Nobody else touches what a thread copied while that thread holds the lock. *)
LEMMA NextLocalsFresh ==
  TypeOK /\ LockHeld /\ LocalsFresh /\ [Next]_vars => LocalsFresh'
<1> SUFFICES ASSUME TypeOK, LockHeld, LocalsFresh, [Next]_vars PROVE LocalsFresh'
  OBVIOUS
<1> USE DEF TypeOK, LockHeld, LocalsFresh, Goto, Acquire, Release, Zeros
<1>1. ASSUME NEW t \in Threads, NEW c \in CounterNames, IncEnter(t, c) PROVE LocalsFresh'
  BY <1>1 DEF IncEnter
<1>2. ASSUME NEW t \in Threads, IncRead(t) PROVE LocalsFresh'
  BY <1>2 DEF IncRead
<1>3. ASSUME NEW t \in Threads, IncRolling(t) PROVE LocalsFresh'
  BY <1>3 DEF IncRolling
<1>4. ASSUME NEW t \in Threads, IncLifetime(t) PROVE LocalsFresh'
  BY <1>4 DEF IncLifetime
<1>5. ASSUME NEW t \in Threads, ResetEnter(t) PROVE LocalsFresh'
  BY <1>5 DEF ResetEnter
<1>6. ASSUME NEW t \in Threads, ResetCopy(t) PROVE LocalsFresh'
  BY <1>6 DEF ResetCopy
<1>7. ASSUME NEW t \in Threads, ResetZero(t) PROVE LocalsFresh'
  BY <1>7 DEF ResetZero
<1>8. ASSUME NEW t \in Threads, SnapshotEnter(t) PROVE LocalsFresh'
  BY <1>8 DEF SnapshotEnter
<1>9. ASSUME NEW t \in Threads, SnapshotCopy(t) PROVE LocalsFresh'
  BY <1>9 DEF SnapshotCopy
<1>10. ASSUME NEW t \in Threads, SnapshotTotal(t) PROVE LocalsFresh'
  BY <1>10 DEF SnapshotTotal
<1>11. CASE UNCHANGED vars
  BY <1>11 DEF vars
<1> QED
  BY <1>1, <1>2, <1>3, <1>4, <1>5, <1>6, <1>7, <1>8, <1>9, <1>10, <1>11 DEF Next

(* Only the thread inside inc() raises a counter, so the room it found is still there. *)
LEMMA NextRoomToCount ==
  TypeOK /\ LockHeld /\ RoomToCount /\ [Next]_vars => RoomToCount'
<1> SUFFICES ASSUME TypeOK, LockHeld, RoomToCount, [Next]_vars PROVE RoomToCount'
  OBVIOUS
<1> USE DEF TypeOK, LockHeld, RoomToCount, Goto, Acquire, Release
<1>1. ASSUME NEW t \in Threads, NEW c \in CounterNames, IncEnter(t, c) PROVE RoomToCount'
  BY <1>1 DEF IncEnter
<1>2. ASSUME NEW t \in Threads, IncRead(t) PROVE RoomToCount'
  BY <1>2 DEF IncRead
<1>3. ASSUME NEW t \in Threads, IncRolling(t) PROVE RoomToCount'
  BY <1>3 DEF IncRolling
<1>4. ASSUME NEW t \in Threads, IncLifetime(t) PROVE RoomToCount'
  BY <1>4 DEF IncLifetime
<1>5. ASSUME NEW t \in Threads, ResetEnter(t) PROVE RoomToCount'
  BY <1>5 DEF ResetEnter
<1>6. ASSUME NEW t \in Threads, ResetCopy(t) PROVE RoomToCount'
  BY <1>6 DEF ResetCopy
<1>7. ASSUME NEW t \in Threads, ResetZero(t) PROVE RoomToCount'
  BY <1>7 DEF ResetZero
<1>8. ASSUME NEW t \in Threads, SnapshotEnter(t) PROVE RoomToCount'
  BY <1>8 DEF SnapshotEnter
<1>9. ASSUME NEW t \in Threads, SnapshotCopy(t) PROVE RoomToCount'
  BY <1>9 DEF SnapshotCopy
<1>10. ASSUME NEW t \in Threads, SnapshotTotal(t) PROVE RoomToCount'
  BY <1>10 DEF SnapshotTotal
<1>11. CASE UNCHANGED vars
  BY <1>11 DEF vars
<1> QED
  BY <1>1, <1>2, <1>3, <1>4, <1>5, <1>6, <1>7, <1>8, <1>9, <1>10, <1>11 DEF Next

(* Every step moves an outcome between the views without losing or doubling it. *)
LEMMA NextConservation ==
  TypeOK /\ LockHeld /\ LocalsFresh /\ Conservation /\ [Next]_vars => Conservation'
<1> SUFFICES ASSUME TypeOK, LockHeld, LocalsFresh, Conservation, [Next]_vars PROVE Conservation'
  OBVIOUS
<1> USE DEF TypeOK, LockHeld, LocalsFresh, Conservation, HalfDone, Goto, Acquire, Release, Zeros
<1>1. ASSUME NEW t \in Threads, NEW c \in CounterNames, IncEnter(t, c) PROVE Conservation'
  BY <1>1 DEF IncEnter
<1>2. ASSUME NEW t \in Threads, IncRead(t) PROVE Conservation'
  BY <1>2 DEF IncRead
<1>3. ASSUME NEW t \in Threads, IncRolling(t) PROVE Conservation'
  <2>1. \A c \in CounterNames : ~HalfDone(c)
    BY <1>3 DEF IncRolling
  <2>2. \A c \in CounterNames : HalfDone(c)' <=> c = arg[t]
    <3>1. pc' = [pc EXCEPT ![t] = "inc_lifetime"] /\ arg' = arg
      BY <1>3 DEF IncRolling
    <3>2. \A s \in Threads : s # t => pc[s] # "inc_lifetime"
      BY <1>3 DEF IncRolling
    <3> QED
      BY <3>1, <3>2
  <2>3. \A c \in CounterNames :
           rolling'[c] = rolling[c] + (IF c = arg[t] THEN 1 ELSE 0)
    BY <1>3 DEF IncRolling
  <2>4. taken' = taken /\ lifetime' = lifetime
    BY <1>3 DEF IncRolling
  <2> QED
    <3> SUFFICES ASSUME NEW c \in CounterNames
                 PROVE  taken[c] + rolling'[c]
                          = lifetime[c] + (IF HalfDone(c)' THEN 1 ELSE 0)
      BY <2>4
    <3>1. taken[c] + rolling[c] = lifetime[c]
      BY <2>1
    <3> HIDE DEF HalfDone
    <3> QED
      BY <2>2, <2>3, <3>1
<1>4. ASSUME NEW t \in Threads, IncLifetime(t) PROVE Conservation'
  BY <1>4 DEF IncLifetime
<1>5. ASSUME NEW t \in Threads, ResetEnter(t) PROVE Conservation'
  BY <1>5 DEF ResetEnter
<1>6. ASSUME NEW t \in Threads, ResetCopy(t) PROVE Conservation'
  BY <1>6 DEF ResetCopy
<1>7. ASSUME NEW t \in Threads, ResetZero(t) PROVE Conservation'
  BY <1>7 DEF ResetZero
<1>8. ASSUME NEW t \in Threads, SnapshotEnter(t) PROVE Conservation'
  BY <1>8 DEF SnapshotEnter
<1>9. ASSUME NEW t \in Threads, SnapshotCopy(t) PROVE Conservation'
  BY <1>9 DEF SnapshotCopy
<1>10. ASSUME NEW t \in Threads, SnapshotTotal(t) PROVE Conservation'
  BY <1>10 DEF SnapshotTotal
<1>11. CASE UNCHANGED vars
  BY <1>11 DEF vars
<1> QED
  BY <1>1, <1>2, <1>3, <1>4, <1>5, <1>6, <1>7, <1>8, <1>9, <1>10, <1>11 DEF Next

(* What snapshot() returns is the lifetime view of one instant, with its sum. *)
LEMMA NextShown ==
  TypeOK /\ LockHeld /\ LocalsFresh /\ Shown /\ [Next]_vars => Shown'
<1> SUFFICES ASSUME TypeOK, LockHeld, LocalsFresh, Shown, [Next]_vars PROVE Shown'
  OBVIOUS
<1> USE DEF TypeOK, LockHeld, LocalsFresh, Shown, ShownInPast, HealthAddsUp, Goto
<1>1. ASSUME NEW t \in Threads, NEW c \in CounterNames, IncEnter(t, c) PROVE Shown'
  BY <1>1 DEF IncEnter
<1>2. ASSUME NEW t \in Threads, IncRead(t) PROVE Shown'
  BY <1>2 DEF IncRead
<1>3. ASSUME NEW t \in Threads, IncRolling(t) PROVE Shown'
  BY <1>3 DEF IncRolling
<1>4. ASSUME NEW t \in Threads, IncLifetime(t) PROVE Shown'
  BY <1>4 DEF IncLifetime
<1>5. ASSUME NEW t \in Threads, ResetEnter(t) PROVE Shown'
  BY <1>5 DEF ResetEnter
<1>6. ASSUME NEW t \in Threads, ResetCopy(t) PROVE Shown'
  BY <1>6 DEF ResetCopy
<1>7. ASSUME NEW t \in Threads, ResetZero(t) PROVE Shown'
  BY <1>7 DEF ResetZero
<1>8. ASSUME NEW t \in Threads, SnapshotEnter(t) PROVE Shown'
  BY <1>8 DEF SnapshotEnter
<1>9. ASSUME NEW t \in Threads, SnapshotCopy(t) PROVE Shown'
  BY <1>9 DEF SnapshotCopy
<1>10. ASSUME NEW t \in Threads, SnapshotTotal(t) PROVE Shown'
  BY <1>10 DEF SnapshotTotal
<1>11. CASE UNCHANGED vars
  BY <1>11 DEF vars
<1> QED
  BY <1>1, <1>2, <1>3, <1>4, <1>5, <1>6, <1>7, <1>8, <1>9, <1>10, <1>11 DEF Next

(* IInv is inductive. *)
LEMMA NextIInv == IInv /\ [Next]_vars => IInv'
  BY NextTypeOK, NextLockHeld, NextLocalsFresh, NextRoomToCount, NextConservation,
     NextShown DEF IInv

(* IInv holds in every state the stats object can reach. *)
LEMMA AlwaysIInv == Spec => []IInv
  BY InitIInv, NextIInv, PTL DEF Spec

-----------------------------------------------------------------------------

(* Whatever the threads do, the variables of the stats object keep their types. *)
THEOREM TypeCorrect == Spec => []TypeOK
<1>1. IInv => TypeOK
  BY DEF IInv
<1> QED
  BY AlwaysIInv, <1>1, PTL

(* For any number of threads calling inc(), reset() and snapshot(), the windows
   that reset() returned and the current one add up to the lifetime counters. *)
THEOREM CountsConserved == Spec => []Conservation
<1>1. IInv => Conservation
  BY DEF IInv
<1> QED
  BY AlwaysIInv, <1>1, PTL

(* The total that snapshot() returns is always the sum of the counters it returns
   with it: the lock makes its two reads of _lifetime see the same values. *)
THEOREM HealthConsistent == Spec => []HealthAddsUp
<1>1. IInv => HealthAddsUp
  BY DEF IInv, Shown
<1> QED
  BY AlwaysIInv, <1>1, PTL

(* Successive /health answers never go back, whatever reset() does meanwhile. *)
THEOREM HealthMonotone == Spec => HealthNeverDecreases
<1>1. IInv /\ [Next]_vars =>
        [\A c \in CounterNames : shown'.counters[c] >= shown.counters[c]]_vars
  <2> SUFFICES ASSUME IInv, Next
               PROVE  \A c \in CounterNames : shown'.counters[c] >= shown.counters[c]
    OBVIOUS
  <2>1. TypeOK /\ ShownInPast /\ LocalsFresh
    BY DEF IInv, Shown
  <2>2. CASE shown' = shown
    BY <2>1, <2>2 DEF TypeOK
  <2>3. ASSUME NEW t \in Threads, SnapshotTotal(t)
        PROVE  \A c \in CounterNames : shown'.counters[c] >= shown.counters[c]
    BY <2>1, <2>3 DEF SnapshotTotal, Goto, TypeOK, ShownInPast, LocalsFresh
  <2> QED
    BY <2>2, <2>3 DEF Next, IncEnter, IncRead, IncRolling, IncLifetime, ResetEnter,
       ResetCopy, ResetZero, SnapshotEnter, SnapshotCopy
<1> QED
  BY AlwaysIInv, <1>1, PTL DEF Spec, HealthNeverDecreases

-----------------------------------------------------------------------------

(* Both modules sum a function the same way. *)
LEMMA SameSum == \A f : Abstract!SumFunction(f) = SumFunction(f)
  BY DEF SumFunction, SumFunctionOnSet, FoldFunctionOnSet, MapThenFoldSet,
         Abstract!SumFunction, Abstract!SumFunctionOnSet, Abstract!FoldFunctionOnSet,
         Abstract!MapThenFoldSet

(* The initial states of the locked object are the initial states of the atomic one. *)
LEMMA AbstractInit == Init => Abstract!Init
  BY SameSum DEF Init, Abstract!Init, Zeros, Abstract!Zeros, Abstract!WithTotal

(* inc() is one abstract count at the moment it updates _lifetime. *)
LEMMA IncCounts ==
  ASSUME IInv, NEW t \in Threads, IncLifetime(t)
  PROVE  Abstract!Count(arg[t])
<1>1. TypeOK /\ RoomToCount
  BY DEF IInv
<1> QED
  BY <1>1 DEF IncLifetime, Goto, TypeOK, RoomToCount, Abstract!Count

(* reset() is one abstract window at the moment it zeroes the rolling view: what it
   copied is what no earlier window reported. *)
LEMMA ResetCuts ==
  ASSUME IInv, NEW t \in Threads, ResetZero(t)
  PROVE  Abstract!CutWindow
<1>1. TypeOK /\ LockHeld /\ LocalsFresh /\ Conservation
  BY DEF IInv
<1>2. snap[t] = rolling
  BY <1>1 DEF ResetZero, Goto, LocalsFresh
<1>3. \A c \in CounterNames : taken[c] + rolling[c] = lifetime[c]
  <2>1. \A c \in CounterNames : ~HalfDone(c)
    BY <1>1 DEF ResetZero, Goto, LockHeld, HalfDone
  <2> QED
    BY <1>1, <2>1 DEF Conservation, TypeOK
<1>4. taken' = lifetime
  BY <1>1, <1>2, <1>3 DEF ResetZero, TypeOK
<1> QED
  BY <1>4 DEF ResetZero, Abstract!CutWindow

(* snapshot() is one abstract answer at the moment it sums. *)
LEMMA SnapshotShows ==
  ASSUME IInv, NEW t \in Threads, SnapshotTotal(t)
  PROVE  Abstract!Show
<1>1. snap[t] = lifetime
  BY DEF IInv, LocalsFresh, SnapshotTotal, Goto
<1> QED
  BY <1>1, SameSum DEF SnapshotTotal, Abstract!Show, Abstract!WithTotal

(* The locked object implements the atomic counters: every step is one atomic
   operation or leaves the abstract variables alone. *)
THEOREM StatsAreAtomic == Spec => ImplementsPacketCounters
<1>1. IInv /\ [Next]_vars => [Abstract!Next]_(Abstract!vars)
  <2> SUFFICES ASSUME IInv, [Next]_vars PROVE [Abstract!Next]_(Abstract!vars)
    OBVIOUS
  <2>1. ASSUME NEW t \in Threads, IncLifetime(t) PROVE Abstract!Next
    BY <2>1, IncCounts DEF Abstract!Next, IInv, TypeOK
  <2>2. ASSUME NEW t \in Threads, ResetZero(t) PROVE Abstract!Next
    BY <2>2, ResetCuts DEF Abstract!Next
  <2>3. ASSUME NEW t \in Threads, SnapshotTotal(t) PROVE Abstract!Next
    BY <2>3, SnapshotShows DEF Abstract!Next
  <2>4. CASE UNCHANGED <<lifetime, taken, shown>>
    BY <2>4 DEF Abstract!vars
  <2> QED
    BY <2>1, <2>2, <2>3, <2>4 DEF Next, vars, IncEnter, IncRead, IncRolling,
       ResetEnter, ResetCopy, SnapshotEnter, SnapshotCopy
<1> QED
  BY AbstractInit, AlwaysIInv, <1>1, PTL
     DEF Spec, ImplementsPacketCounters, Abstract!Spec
=============================================================================
