--------------------------- MODULE RolloutProofs ---------------------------
(***************************************************************************)
(* Theorems about Rollout, for any number of replicas, pods, releases and  *)
(* failures.  What check_chart has not objected to holds of the release in *)
(* force (GatePassed); a pod template that is applied for the first time   *)
(* is borne by no pod (TemplatesApplied), so that every pod that bears the *)
(* current one has read the ConfigMap since (UpdatedRunsConfigMap).        *)
(***************************************************************************)
EXTENDS Rollout, FiniteSetTheorems, TLAPS

GatePassed ==
  /\ "maxUnavailable" \notin problems => chart.maxUnavailable = 0
  /\ "checksum" \notin problems => chart.annotated
  /\ "config" \notin problems => load_config(config_map, None)

TemplatesApplied ==
  /\ Template(chart) \in applied
  /\ \A p \in Existing : pods[p].template \in applied

UpdatedRunsConfigMap ==
  "checksum" \notin problems /\ ~returned =>
    \A p \in Pods : pods[p].state = "ready" /\ pods[p].template = Template(chart) =>
      pods[p].config = config_map

IInv == /\ TypeOK /\ GatePassed /\ TemplatesApplied /\ UpdatedRunsConfigMap
        /\ ServedThroughout /\ GateHolds /\ FilterInForce

-----------------------------------------------------------------------------
(* What the problems named by check_chart leave out is in order. *)
LEMMA CheckChart ==
  ASSUME NEW c
  PROVE  /\ "maxUnavailable" \notin check_chart(c) => c.maxUnavailable = 0
         /\ "checksum" \notin check_chart(c) => c.annotated
         /\ "config" \notin check_chart(c) => load_config(c.config, None)
BY DEF check_chart

(* Sets of pods are finite. *)
LEMMA PodSets ==
  /\ IsFiniteSet(Existing) /\ Cardinality(Existing) \in Nat
  /\ IsFiniteSet(Ready) /\ Cardinality(Ready) \in Nat
<1>1. Existing \in SUBSET Pods /\ Ready \in SUBSET Pods
  BY DEF Existing, Ready
<1> QED BY <1>1, FS_Subset, FS_CardinalityType, RolloutAssumption

(* A pod's step changes that pod only. *)
LEMMA PodStep ==
  ASSUME DOMAIN pods = Pods, NEW p \in Pods, NEW s, NEW t, NEW c, SetPod(p, s, t, c)
  PROVE  /\ DOMAIN pods' = Pods
         /\ pods'[p] = [state |-> s, template |-> t, config |-> c]
         /\ \A q \in Pods \ {p} : pods'[q] = pods[q]
         /\ s = "none" => Existing' = Existing \ {p}
         /\ s # "none" => Existing' = Existing \cup {p}
         /\ s = "ready" => Ready' = Ready \cup {p}
         /\ s # "ready" => Ready' = Ready \ {p}
<1>1. /\ DOMAIN pods' = Pods
      /\ pods'[p] = [state |-> s, template |-> t, config |-> c]
      /\ \A q \in Pods \ {p} : pods'[q] = pods[q]
  BY DEF SetPod
<1>2. pods'[p].state = s
  BY <1>1
<1>3. s = "none" => Existing' = Existing \ {p}
  BY <1>1, <1>2 DEF Existing
<1>4. s # "none" => Existing' = Existing \cup {p}
  BY <1>1, <1>2 DEF Existing
<1>5. s = "ready" => Ready' = Ready \cup {p}
  BY <1>1, <1>2 DEF Ready
<1>6. s # "ready" => Ready' = Ready \ {p}
  BY <1>1, <1>2 DEF Ready
<1> QED BY <1>1, <1>3, <1>4, <1>5, <1>6

(* An installation that is up satisfies the invariant. *)
LEMMA InitIInv == Init => IInv
<1> SUFFICES ASSUME Init PROVE IInv
  OBVIOUS
<1>1. PICK P \in SUBSET Pods :
        /\ Cardinality(P) = Replicas
        /\ pods = [p \in Pods |-> IF p \in P THEN [state |-> "ready", template |-> Template(chart),
                                                   config |-> config_map]
                                             ELSE NoPod]
  BY DEF Init
<1>2. /\ chart \in Charts /\ config_map = chart.config /\ config_map \in Configs
      /\ check_chart(chart) = {}
  BY RolloutAssumption DEF Init, Sound
<1>3. \A p \in P : pods[p] = [state |-> "ready", template |-> Template(chart),
                              config |-> config_map]
  BY <1>1
<1>4. \A p \in Pods \ P : pods[p] = [state |-> "none", template |-> None, config |-> None]
  BY <1>1 DEF NoPod
<1>5. Existing = P /\ Ready = P
  BY <1>3, <1>4 DEF Existing, Ready
<1>6. TypeOK
  <2>1. \A p \in Pods : PodTypeOK(pods[p])
    BY <1>2, <1>3, <1>4 DEF PodTypeOK
  <2>2. topic_filter \in TopicFilters
    BY <1>2 DEF Init, TopicFilters
  <2>3. Cardinality(Existing) <= Replicas + MaxSurge
    BY <1>1, <1>5, RolloutAssumption
  <2>4. failures \in 0..MaxFailures /\ upgrades \in 0..MaxUpgrades
    BY RolloutAssumption DEF Init
  <2>5. DOMAIN pods = Pods
    BY <1>1
  <2>6. fresh \in BOOLEAN /\ returned \in BOOLEAN
    BY DEF Init
  <2> QED BY <1>2, <2>1, <2>2, <2>3, <2>4, <2>5, <2>6 DEF TypeOK
<1>7. GatePassed
  BY <1>2, CheckChart DEF GatePassed
<1>8. TemplatesApplied
  BY <1>3, <1>5 DEF Init, TemplatesApplied
<1>9. UpdatedRunsConfigMap
  BY <1>3, <1>4 DEF UpdatedRunsConfigMap
<1>10. ServedThroughout
  BY <1>1, <1>5, RolloutAssumption DEF ServedThroughout
<1>11. GateHolds
  BY <1>3, <1>4 DEF GateHolds
<1>12. FilterInForce
  BY DEF Init, FilterInForce
<1> QED BY <1>6, <1>7, <1>8, <1>9, <1>10, <1>11, <1>12 DEF IInv

(* An upgrade changes no pod, and the history only grows. *)
LEMMA UpgradeIInv ==
  ASSUME IInv, NEW c \in Charts, Upgrade(c)
  PROVE  IInv'
<1> USE DEF IInv, Upgrade
<1>1. /\ problems \subseteq problems' /\ check_chart(c) \subseteq problems'
      /\ chart' = c /\ config_map' = c.config /\ c.config \in Configs
      /\ Existing' = Existing /\ Ready' = Ready
  BY RolloutAssumption DEF Existing, Ready
<1>2. TypeOK'
  <2>1. \A p \in Pods : PodTypeOK(pods[p])'
    BY DEF TypeOK, PodTypeOK
  <2>2. upgrades' \in 0..MaxUpgrades
    BY RolloutAssumption DEF TypeOK
  <2>3. fresh' \in BOOLEAN /\ returned' \in BOOLEAN
    BY DEF TypeOK
  <2> QED BY <1>1, <2>1, <2>2, <2>3 DEF TypeOK
<1>3. GatePassed'
  <2>1. check_chart(c) \subseteq problems'
    BY <1>1
  <2> QED BY <1>1, <2>1, CheckChart DEF GatePassed, load_config
<1>4. TemplatesApplied'
  BY <1>1 DEF TemplatesApplied, Template
<1>5. ASSUME "checksum" \notin problems', ~returned', Template(c) = Template(chart)
      PROVE  c.config = config_map
  <2>1. c.annotated /\ chart.annotated
    BY <1>1, <1>5, CheckChart DEF GatePassed
  <2>2. Template(c).checksum = Template(chart).checksum
    BY <1>5
  <2> QED BY <2>1, <2>2 DEF Template, TypeOK
<1>6. UpdatedRunsConfigMap'
  <2> SUFFICES ASSUME "checksum" \notin problems', ~returned', NEW p \in Pods,
                      pods[p].state = "ready", pods[p].template = Template(c)
               PROVE  pods[p].config = c.config
    BY <1>1 DEF UpdatedRunsConfigMap, Template
  <2>1. p \in Existing
    BY DEF Existing
  <2>2. Template(c) \in applied
    BY <2>1 DEF TemplatesApplied
  <2>3. Template(c) = Template(chart) /\ ~returned
    BY <2>2
  <2> QED BY <1>1, <1>5, <2>3 DEF UpdatedRunsConfigMap
<1>7. ServedThroughout'
  BY <1>1 DEF ServedThroughout
<1>8. GateHolds'
  BY <1>1 DEF GateHolds
<1>9. FilterInForce'
  BY <1>1 DEF FilterInForce
<1> QED BY <1>2, <1>3, <1>4, <1>6, <1>7, <1>8, <1>9

(* A step of a pod that leaves it with a legal template, ready only on what the
   ConfigMap holds and refused only on what it cannot load. *)
LEMMA PodIInv ==
  ASSUME IInv, NEW p \in Pods, NEW s \in {"none", "starting", "ready", "refused"},
         NEW t, NEW c, SetPod(p, s, t, c), UNCHANGED <<release, hook>>,
         failures' \in 0..MaxFailures,
         Cardinality(Existing') <= Replicas + MaxSurge,
         ServedThroughout',
         s # "none" => t \in applied,
         c = IF s = "ready" THEN config_map ELSE None,
         s = "refused" => ~load_config(config_map, t.log_format)
  PROVE  IInv'
<1> USE DEF IInv, release, history, hook
<1>1. /\ DOMAIN pods' = Pods
      /\ pods'[p] = [state |-> s, template |-> t, config |-> c]
      /\ \A q \in Pods \ {p} : pods'[q] = pods[q]
      /\ \A q \in Existing' \ {p} : q \in Existing
      /\ p \in Existing' => s # "none"
  <2>1. /\ DOMAIN pods' = Pods
        /\ pods'[p] = [state |-> s, template |-> t, config |-> c]
        /\ \A q \in Pods \ {p} : pods'[q] = pods[q]
        /\ s = "none" => Existing' = Existing \ {p}
        /\ s # "none" => Existing' = Existing \cup {p}
    BY PodStep DEF TypeOK
  <2>2. (\A q \in Existing' \ {p} : q \in Existing) /\ (p \in Existing' => s # "none")
    BY <2>1
  <2> QED BY <2>1, <2>2
<1>2. pods'[p].state = s /\ pods'[p].template = t /\ pods'[p].config = c
  BY <1>1
<1>3. TypeOK'
  <2>1. PodTypeOK(pods'[p])
    BY <1>2, RolloutAssumption DEF PodTypeOK, TypeOK
  <2>2. \A q \in Pods : PodTypeOK(pods'[q])
    BY <1>1, <2>1 DEF TypeOK
  <2>3. \A q \in Pods : PodTypeOK(pods[q])'
    BY <2>2 DEF PodTypeOK
  <2> QED BY <1>1, <2>3 DEF TypeOK
<1>4. GatePassed'
  BY DEF GatePassed, load_config
<1>5. TemplatesApplied'
  <2>1. Template(chart)' = Template(chart)
    BY DEF Template
  <2>2. \A q \in Existing' : pods'[q].template \in applied
    <3> TAKE q \in Existing'
    <3>1. CASE q = p
      BY <1>1, <1>2, <3>1
    <3>2. CASE q # p
      <4>1. q \in Existing
        BY <1>1, <3>2
      <4>2. q \in Pods \ {p}
        BY <4>1, <3>2 DEF Existing
      <4> QED BY <1>1, <4>1, <4>2 DEF TemplatesApplied
    <3> QED BY <3>1, <3>2
  <2> QED BY <2>1, <2>2 DEF TemplatesApplied
<1>6. UpdatedRunsConfigMap'
  <2>1. Template(chart)' = Template(chart)
    BY DEF Template
  <2> SUFFICES ASSUME "checksum" \notin problems, ~returned, NEW q \in Pods,
                      pods'[q].state = "ready", pods'[q].template = Template(chart)
               PROVE  pods'[q].config = config_map
    BY <2>1 DEF UpdatedRunsConfigMap
  <2>2. CASE q = p
    BY <1>2, <2>2
  <2>3. CASE q # p
    BY <1>1, <2>3 DEF UpdatedRunsConfigMap
  <2> QED BY <2>2, <2>3
<1>7. GateHolds'
  <2> SUFFICES ASSUME "config" \notin problems, NEW q \in Pods, pods'[q].state = "refused"
               PROVE  pods'[q].template.log_format \notin LogFormats \cup {None}
    BY DEF GateHolds
  <2>1. CASE q = p
    <3>1. load_config(config_map, None) /\ ~load_config(config_map, t.log_format)
      BY <1>2, <2>1 DEF GatePassed
    <3>2. t.log_format \notin LogFormats \cup {None}
      BY <3>1, RolloutAssumption DEF load_config
    <3> QED BY <1>2, <2>1, <3>2
  <2>2. CASE q # p
    BY <1>1, <2>2 DEF GateHolds
  <2> QED BY <2>1, <2>2
<1>8. FilterInForce'
  BY DEF FilterInForce
<1> QED BY <1>3, <1>4, <1>5, <1>6, <1>7, <1>8

(* Every step preserves the invariant. *)
LEMMA NextIInv == IInv /\ [Next]_vars => IInv'
<1> SUFFICES ASSUME IInv, [Next]_vars PROVE IInv'
  OBVIOUS
<1> USE DEF IInv
<1>1. ASSUME NEW c \in Charts, Upgrade(c) PROVE IInv'
  BY <1>1, UpgradeIInv
<1>2. ASSUME NEW p \in Pods, CreatePod(p) PROVE IInv'
  <2> USE <1>2 DEF CreatePod
  <2>1. Existing' = Existing \cup {p} /\ Ready' = Ready \ {p}
    <3>1. Existing' = Existing \cup {p}
      BY PodStep DEF TypeOK
    <3>2. /\ \A q \in Pods \ {p} : pods'[q].state = pods[q].state
          /\ pods'[p].state = "starting"
      BY DEF SetPod, TypeOK
    <3>3. Ready' = Ready \ {p}
      BY <3>2 DEF Ready
    <3> QED BY <3>1, <3>3
  <2>2. Cardinality(Existing') <= Replicas + MaxSurge
    <3>1. Cardinality(Existing') = Cardinality(Existing) + 1
      BY <2>1, PodSets, FS_AddElement
    <3> QED BY <3>1, PodSets, RolloutAssumption
  <2>3. Ready' = Ready
    <3>1. p \notin Ready
      BY DEF Existing, Ready
    <3> QED BY <2>1, <3>1
  <2>4. ServedThroughout'
    BY <2>3 DEF ServedThroughout, release, history
  <2>5. failures' \in 0..MaxFailures
    BY DEF TypeOK
  <2> QED BY <2>2, <2>4, <2>5, PodIInv DEF TemplatesApplied
<1>3. ASSUME NEW p \in Pods, DeletePod(p) PROVE IInv'
  <2> USE <1>3 DEF DeletePod
  <2>1. Existing' = Existing \ {p} /\ Ready' = Ready \ {p}
    BY PodStep DEF TypeOK
  <2>2. Cardinality(Existing') <= Replicas + MaxSurge
    <3>1. Cardinality(Existing') = Cardinality(Existing) - 1
      BY <2>1, PodSets, FS_RemoveElement
    <3> QED BY <3>1, PodSets, RolloutAssumption DEF TypeOK
  <2>3. ServedThroughout'
    <3>1. "maxUnavailable" \notin problems => MinAvailable = Replicas
      BY RolloutAssumption DEF GatePassed, MinAvailable
    <3>2. Cardinality(Ready') = IF p \in Ready THEN Cardinality(Ready) - 1 ELSE Cardinality(Ready)
      BY <2>1, PodSets, FS_RemoveElement
    <3> QED BY <3>1, <3>2, PodSets, RolloutAssumption DEF ServedThroughout, release, history
  <2>4. failures' \in 0..MaxFailures
    BY DEF TypeOK
  <2> QED BY <2>2, <2>3, <2>4, PodIInv
<1>4. ASSUME NEW p \in Pods, PodStart(p) PROVE IInv'
  <2> DEFINE t == pods[p].template
  <2>1. p \in Existing /\ p \notin Ready /\ t \in applied /\ UNCHANGED <<release, hook, failures>>
    BY <1>4 DEF PodStart, Existing, Ready, TemplatesApplied
  <2>2. failures' \in 0..MaxFailures
    BY <2>1 DEF TypeOK
  <2>3. CASE load_config(config_map, t.log_format)
    <3>1. SetPod(p, "ready", t, config_map)
      BY <1>4, <2>3 DEF PodStart
    <3>2. Existing' = Existing \cup {p} /\ Ready' = Ready \cup {p}
      BY <3>1, PodStep DEF TypeOK
    <3>3. Existing' = Existing
      BY <2>1, <3>2
    <3>4. Cardinality(Existing') <= Replicas + MaxSurge
      BY <3>3 DEF TypeOK
    <3>5. ServedThroughout'
      <4>1. Cardinality(Ready') = Cardinality(Ready) + 1
        BY <2>1, <3>2, PodSets, FS_AddElement
      <4> QED BY <2>1, <4>1, PodSets, RolloutAssumption DEF ServedThroughout, release, history
    <3> QED BY <2>1, <2>2, <3>1, <3>4, <3>5, PodIInv
  <2>4. CASE ~load_config(config_map, t.log_format)
    <3>1. SetPod(p, "refused", t, None)
      BY <1>4, <2>4 DEF PodStart
    <3>2. Existing' = Existing \cup {p} /\ Ready' = Ready \ {p}
      <4>1. Existing' = Existing \cup {p}
        BY <3>1, PodStep DEF TypeOK
      <4>2. /\ \A q \in Pods \ {p} : pods'[q].state = pods[q].state
            /\ pods'[p].state = "refused"
        BY <3>1 DEF SetPod, TypeOK
      <4>3. Ready' = Ready \ {p}
        BY <4>2 DEF Ready
      <4> QED BY <4>1, <4>3
    <3>3. Existing' = Existing /\ Ready' = Ready
      BY <2>1, <3>2
    <3>4. Cardinality(Existing') <= Replicas + MaxSurge
      BY <3>3 DEF TypeOK
    <3>5. ServedThroughout'
      BY <2>1, <3>3 DEF ServedThroughout, release, history
    <3> QED BY <2>1, <2>2, <2>4, <3>1, <3>4, <3>5, PodIInv
  <2> QED BY <2>3, <2>4
<1>5. ASSUME NEW p \in Pods, PodFails(p) PROVE IInv'
  <2> USE <1>5 DEF PodFails
  <2>1. p \in Existing /\ pods[p].template \in applied
    BY DEF Existing, Ready, TemplatesApplied
  <2>2. Existing' = Existing \cup {p}
    BY PodStep DEF TypeOK
  <2>3. Cardinality(Existing') <= Replicas + MaxSurge
    <3>1. Existing' = Existing
      BY <2>1, <2>2
    <3> QED BY <3>1 DEF TypeOK
  <2>4. failures' \in 0..MaxFailures /\ failures' # 0
    BY RolloutAssumption DEF TypeOK
  <2>5. ServedThroughout'
    BY <2>4 DEF ServedThroughout
  <2> QED BY <2>1, <2>3, <2>4, <2>5, PodIInv
<1>6. ASSUME UNCHANGED <<release, pods, failures>>,
             topic_filter' \in TopicFilters \cup {None}, fresh' \in BOOLEAN,
             FilterInForce'
      PROVE  IInv'
  <2> USE <1>6 DEF release, history
  <2>1. Existing' = Existing /\ Ready' = Ready /\ Template(chart)' = Template(chart)
    BY DEF Existing, Ready, Template
  <2>2. TypeOK'
    BY <2>1 DEF TypeOK, PodTypeOK
  <2>3. GatePassed' /\ TemplatesApplied' /\ UpdatedRunsConfigMap'
    BY <2>1 DEF GatePassed, load_config, TemplatesApplied, UpdatedRunsConfigMap
  <2>4. ServedThroughout' /\ GateHolds'
    BY <2>1 DEF ServedThroughout, GateHolds
  <2> QED BY <2>2, <2>3, <2>4
<1>7. ASSUME NEW p \in Pods, LoadHook(p) PROVE IInv'
  <2>1. pods[p].config \in Configs
    BY <1>7 DEF LoadHook, Ready, TypeOK, PodTypeOK
  <2>2. topic_filter' \in TopicFilters
    BY <1>7, <2>1 DEF LoadHook, OnProviderLoaded, TopicFilters
  <2>3. FilterInForce'
    <3>1. ASSUME RolloutDone, "checksum" \notin problems, ~returned
          PROVE  pods[p].config = config_map
      BY <1>7, <3>1 DEF RolloutDone, Updated, Ready, LoadHook, UpdatedRunsConfigMap
    <3> QED BY <1>7, <3>1 DEF FilterInForce, LoadHook, OnProviderLoaded, release, history
  <2>4. fresh' \in BOOLEAN
    BY <1>7 DEF LoadHook, RolloutDone
  <2> QED BY <1>6, <1>7, <2>2, <2>3, <2>4 DEF LoadHook
<1>8. ASSUME UnloadHook PROVE IInv'
  <2>1. FilterInForce'
    BY <1>8 DEF UnloadHook, FilterInForce
  <2> QED BY <1>6, <1>8, <2>1 DEF UnloadHook
<1>9. ASSUME UNCHANGED vars PROVE IInv'
  <2>1. UNCHANGED <<release, pods, failures>> /\ UNCHANGED <<topic_filter, fresh>>
    BY <1>9 DEF vars, hook
  <2>2. FilterInForce'
    BY <2>1 DEF FilterInForce, release, history
  <2> QED BY <1>6, <2>1, <2>2 DEF TypeOK
<1> QED BY <1>1, <1>2, <1>3, <1>4, <1>5, <1>7, <1>8, <1>9 DEF Next

(* The invariant holds of every behaviour. *)
LEMMA Invariance == Spec => []IInv
BY InitIInv, NextIInv, PTL DEF Spec

-----------------------------------------------------------------------------
(* Pods, releases and the hook keep their types, and the surge its bound. *)
THEOREM RolloutTypeCorrect == Spec => []TypeOK
<1>1. IInv => TypeOK
  BY DEF IInv
<1> QED BY <1>1, Invariance, PTL

(* With maxUnavailable: 0 no sequence of upgrades, good or bad, takes away a pod that
   is needed: as many as there are replicas stay ready until one fails by itself. *)
THEOREM RolloutKeepsServing == Spec => []ServedThroughout
<1>1. IInv => ServedThroughout
  BY DEF IInv
<1> QED BY <1>1, Invariance, PTL

(* What the gate passes, no pod refuses, whichever release its template is of, unless
   its own environment makes it. *)
THEOREM GateKeepsPodsStarting == Spec => []GateHolds
<1>1. IInv => GateHolds
  BY DEF IInv
<1> QED BY <1>1, Invariance, PTL

(* As long as no earlier template comes back, a finished rollout means that every pod
   runs what the ConfigMap holds. *)
THEOREM RolloutReachesPods == Spec => []ConfigRolledForward
<1>1. IInv => ConfigRolledForward
  BY DEF IInv, ConfigRolledForward, ConfigRolled, RolloutDone, Updated, Ready,
         UpdatedRunsConfigMap
<1> QED BY <1>1, Invariance, PTL

(* The filter of a hook loaded after the rollout is the one of the release in force. *)
THEOREM LoadedFilterInForce == Spec => []FilterInForce
<1>1. IInv => FilterInForce
  BY DEF IInv
<1> QED BY <1>1, Invariance, PTL
=============================================================================
