------------------------------ MODULE Rollout ------------------------------
(***************************************************************************)
(* floodgate on Kubernetes, as its Helm chart deploys it, and the hook     *)
(* that EMQX keeps: the chart's gate (scripts/check_chart.py), upgrades    *)
(* and rollbacks, the Deployment controller that replaces pods, pods that  *)
(* read the ConfigMap whenever they start, and the topic filter that EMQX  *)
(* is told in OnProviderLoaded and does not ask for again.                 *)
(*                                                                         *)
(* A configuration is reduced to what is wrong with it (ConfigLoad says    *)
(* what may be) and its topic filter.  A pod is ready when /health         *)
(* answers, and then its gRPC server does too (ServerLifecycle).  The      *)
(* templates render one ConfigMap and one Deployment whatever the values,  *)
(* so that check_chart's counting of them is left out.                     *)
(***************************************************************************)
EXTENDS Integers, FiniteSets

CONSTANTS Pods,             \* pods that may exist
          Replicas,         \* .Values.replicaCount
          MaxSurge,         \* .Values.updateStrategy.rollingUpdate.maxSurge
          Configs,          \* .Values.config: [fault, topic_filter]
          Charts,           \* releases that may be applied
          None,
          MaxUpgrades,      \* bound (model checking)
          MaxFailures       \* bound: pods that fail by themselves

LogFormats == {"text", "json"}
TopicFilters == {c.topic_filter : c \in Configs}

ASSUME RolloutAssumption ==
  /\ Replicas \in Nat \ {0} /\ MaxSurge \in Nat /\ MaxUpgrades \in Nat /\ MaxFailures \in Nat
  /\ IsFiniteSet(Pods)
  /\ None \notin Configs /\ None \notin LogFormats /\ None \notin TopicFilters
  /\ \A c \in Charts : c.config \in Configs /\ c.maxUnavailable \in Nat

VARIABLES chart,        \* the release in force
          config_map,   \* what config.yaml in the ConfigMap holds
          pods,         \* pod template, state and loaded configuration of each pod
          topic_filter, \* what EMQX filters by; None while the hook is not loaded
          fresh,        \* history: loaded when the rollout was done, nothing changed since
          problems,     \* history: what check_chart says of the releases so far
          applied,      \* history: the pod templates applied so far
          returned,     \* history: an earlier template was applied again
          upgrades, failures
history == <<problems, applied, returned, upgrades>>
release == <<chart, config_map, history>>
hook == <<topic_filter, fresh>>
vars == <<release, pods, hook, failures>>

(* Which faults load_config finds in a file, given $FLOODGATE_LOG_FORMAT. *)
load_config(config, log_format) ==
  /\ config.fault # "value"
  /\ IF log_format = None THEN config.fault # "log_format" ELSE log_format \in LogFormats

(* Mutants: one of the gate's checks forgotten. *)
check_chart_no_config(c) ==
  {p \in {"checksum"} : ~c.annotated} \cup {p \in {"maxUnavailable"} : c.maxUnavailable # 0}
check_chart_no_checksum(c) ==
  {p \in {"config"} : ~load_config(c.config, None)}
    \cup {p \in {"maxUnavailable"} : c.maxUnavailable # 0}
check_chart_no_unavailable(c) ==
  {p \in {"config"} : ~load_config(c.config, None)} \cup {p \in {"checksum"} : ~c.annotated}

(* The gate runs load_config in its own environment, not the pod's. *)
check_chart(c) ==
  {p \in {"config"} : ~load_config(c.config, None)}
    \cup {p \in {"checksum"} : ~c.annotated}
    \cup {p \in {"maxUnavailable"} : c.maxUnavailable # 0}

(* Mutant: the annotation does not depend on the configuration. *)
TemplateConstant(c) == [checksum |-> None, log_format |-> c.log_format]

(* spec.template: the annotation, and extraEnv. *)
Template(c) == [checksum |-> IF c.annotated THEN c.config ELSE None,
                log_format |-> c.log_format]

NoPod == [state |-> "none", template |-> None, config |-> None]
Existing == {p \in Pods : pods[p].state # "none"}
Ready == {p \in Pods : pods[p].state = "ready"}
Updated == {p \in Existing : pods[p].template = Template(chart)}
RolloutDone == Existing = Updated /\ Existing = Ready /\ Cardinality(Existing) = Replicas

(* Releases that the gate passes and whose environment is legal. *)
Sound == {c \in Charts : check_chart(c) = {} /\ load_config(c.config, c.log_format)}

(* An installation that is up and whose hook is loaded, as the README has it made. *)
Init ==
  /\ chart \in Sound
  /\ config_map = chart.config
  /\ \E P \in SUBSET Pods :
       /\ Cardinality(P) = Replicas
       /\ pods = [p \in Pods |-> IF p \in P THEN [state |-> "ready", template |-> Template(chart),
                                                  config |-> config_map]
                                            ELSE NoPod]
  /\ topic_filter = config_map.topic_filter /\ fresh = TRUE
  /\ problems = {} /\ applied = {Template(chart)} /\ returned = FALSE
  /\ upgrades = 0 /\ failures = 0

-----------------------------------------------------------------------------
(* helm upgrade, or helm rollback: the ConfigMap is updated in place. *)
Upgrade(c) ==
  /\ upgrades < MaxUpgrades /\ upgrades' = upgrades + 1
  /\ chart' = c /\ config_map' = c.config
  /\ problems' = problems \cup check_chart(c)
  /\ applied' = applied \cup {Template(c)}
  /\ returned' = (returned \/ Template(c) \in applied \ {Template(chart)})
  /\ fresh' = (fresh /\ c.config = config_map)
  /\ UNCHANGED <<pods, topic_filter, failures>>

SetPod(p, state, template, config) ==
  pods' = [pods EXCEPT ![p] = [state |-> state, template |-> template, config |-> config]]

(* The Deployment controller: at most MaxSurge pods too many, and an old pod goes
   only while enough are ready without it. *)
CreatePod(p) ==
  /\ p \notin Existing
  /\ Cardinality(Existing) < Replicas + MaxSurge /\ Cardinality(Updated) < Replicas
  /\ SetPod(p, "starting", Template(chart), None)
  /\ UNCHANGED <<release, hook, failures>>

MinAvailable == Replicas - chart.maxUnavailable
DeletePod(p) ==
  /\ p \in Existing \ Updated
  /\ Cardinality(Existing) > MinAvailable + Cardinality(Updated \ Ready)
  /\ p \in Ready => Cardinality(Ready) > MinAvailable
  /\ SetPod(p, "none", None, None)
  /\ UNCHANGED <<release, hook, failures>>

(* Mutant: floodgate starts without a configuration rather than not at all. *)
PodStartAnyway(p) ==
  /\ pods[p].state \in {"starting", "refused"}
  /\ SetPod(p, "ready", pods[p].template,
            IF load_config(config_map, pods[p].template.log_format) THEN config_map ELSE None)
  /\ UNCHANGED <<release, hook, failures>>

(* A container starts, again after a refusal, on what the ConfigMap holds by now. *)
PodStart(p) ==
  /\ pods[p].state \in {"starting", "refused"}
  /\ IF load_config(config_map, pods[p].template.log_format)
     THEN SetPod(p, "ready", pods[p].template, config_map)
     ELSE SetPod(p, "refused", pods[p].template, None)
  /\ UNCHANGED <<release, hook, failures>>

(* A ready pod fails by itself, is killed or loses its node. *)
PodFails(p) ==
  /\ p \in Ready /\ failures < MaxFailures
  /\ failures' = failures + 1
  /\ SetPod(p, "starting", pods[p].template, None)
  /\ UNCHANGED <<release, hook>>

(* Mutant: the default instead of the configured filter. *)
OnProviderLoadedDefault(config) == "msh/#"

(* message.publish is the only hook named, so that EMQX calls none of the others. *)
OnProviderLoaded(config) == config.topic_filter

(* EMQX loads the hook when it is registered or enabled, or has restarted, from any
   ready pod behind the Service; auto_reconnect tries again until there is one. *)
LoadHook(p) ==
  /\ topic_filter = None /\ p \in Ready
  /\ topic_filter' = OnProviderLoaded(pods[p].config) /\ fresh' = RolloutDone
  /\ UNCHANGED <<release, pods, failures>>

(* The hook is disabled or deleted (OnProviderUnloaded), or EMQX stops. *)
UnloadHook ==
  /\ topic_filter # None
  /\ topic_filter' = None /\ fresh' = FALSE
  /\ UNCHANGED <<release, pods, failures>>

Next == \/ \E c \in Charts : Upgrade(c)
        \/ \E p \in Pods : \/ CreatePod(p) \/ DeletePod(p) \/ PodStart(p) \/ PodFails(p)
                           \/ LoadHook(p)
        \/ UnloadHook

(* Controllers reconcile for ever, containers are restarted, EMQX reconnects. *)
Fairness == /\ \A p \in Pods : WF_vars(PodStart(p)) /\ WF_vars(DeletePod(p))
            /\ WF_vars(\E p \in Pods : CreatePod(p))
            /\ WF_vars(\E p \in Pods : LoadHook(p))
Spec == Init /\ [][Next]_vars /\ Fairness

-----------------------------------------------------------------------------
(* Types; a pod is ready only on a configuration, and the surge is bounded. *)
PodTypeOK(pod) ==
  /\ pod.state \in {"none", "starting", "ready", "refused"}
  /\ IF pod.state = "ready" THEN pod.config \in Configs ELSE pod.config = None
TypeOK ==
  /\ chart \in Charts /\ config_map = chart.config
  /\ DOMAIN pods = Pods /\ \A p \in Pods : PodTypeOK(pods[p])
  /\ topic_filter \in TopicFilters \cup {None}
  /\ fresh \in BOOLEAN /\ returned \in BOOLEAN
  /\ failures \in 0..MaxFailures /\ upgrades \in 0..MaxUpgrades
  /\ Cardinality(Existing) <= Replicas + MaxSurge

(* check_chart.py: checksum and maxUnavailable: 0 "are what keep the old pod serving
   when a bad config is rolled out".  As long as no pod fails by itself, as many are
   ready as are asked for, however bad the configurations rolled out and however many
   upgrades overlap. *)
ServedThroughout ==
  "maxUnavailable" \notin problems /\ failures = 0 => Cardinality(Ready) >= Replicas

(* Behind the gate, no pod refuses to start on the ConfigMap, not even an old one that
   restarts on the next release's: only its own $FLOODGATE_LOG_FORMAT, which the gate
   does not see, can keep it down. *)
GateHolds ==
  "config" \notin problems =>
    \A p \in Pods : pods[p].state = "refused" =>
      pods[p].template.log_format \notin LogFormats \cup {None}

(* README.md: "ConfigMap changes trigger automatic rolling restarts via a checksum
   annotation".  When the rollout is done, every pod runs the ConfigMap's content ... *)
ConfigRolled ==
  RolloutDone /\ "checksum" \notin problems =>
    \A p \in Ready : pods[p].config = config_map
(* ... provided no release took back an earlier pod template. *)
ConfigRolledForward == returned \/ ConfigRolled

(* A hook that is loaded when the rollout is done brings the filter of the release in
   force, and keeps it through every restart of floodgate, until the next release with
   another configuration: loading it earlier may ask a pod of the old one. *)
FilterInForce ==
  fresh /\ "checksum" \notin problems /\ ~returned => topic_filter = config_map.topic_filter

(* Fixing forward: after a sound release every pod comes to run its template, and the
   hook is loaded, whatever releases and failures went before. *)
ProtectionReturns ==
  \A c \in Sound :
    chart = c ~> (chart # c \/ (RolloutDone /\ topic_filter # None /\ ConfigRolledForward))
=============================================================================
