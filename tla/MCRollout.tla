----------------------------- MODULE MCRollout -----------------------------
(* Two configurations that load and two that do not; the gate's other two conditions
   broken one at a time; a log format that the environment spoils or mends. *)
EXTENDS Rollout

World == [fault |-> None, topic_filter |-> "msh/#"]
Europe == [fault |-> None, topic_filter |-> "msh/EU/#"]
BadValue == [Europe EXCEPT !.fault = "value"]
BadFormat == [Europe EXCEPT !.fault = "log_format"]
MCConfigs == {World, Europe, BadValue, BadFormat}

Chart(config, env) == [config |-> config, log_format |-> env, annotated |-> TRUE,
                       maxUnavailable |-> 0]
MCCharts ==
  {Chart(c, None) : c \in MCConfigs}
    \cup {Chart(Europe, "xml"), Chart(BadFormat, "json"),
          [Chart(World, None) EXCEPT !.annotated = FALSE],
          [Chart(Europe, None) EXCEPT !.annotated = FALSE],
          [Chart(BadValue, None) EXCEPT !.maxUnavailable = 1]}
=============================================================================
