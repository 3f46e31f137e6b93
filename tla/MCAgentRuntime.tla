--------------------------- MODULE MCAgentRuntime ---------------------------
(* Instances of AgentRuntime: two configurations, one of them with a local   *)
(* sFlow exporter, with intervals of their own or a common one; and of a      *)
(* sweep such an agent is sent on (Discovery) and the samples its report loop *)
(* takes (TrafficSampling).  They share no state, so a behaviour is of one of *)
(* the three, and `part` says of which.                                      *)
EXTENDS AgentRuntime, Discovery, TrafficSampling

CONSTANTS proc, flow, e1, e2

TwoConfigs   == {proc, flow}
TwoIntervals == [c \in TwoConfigs |-> IF c = proc THEN 1 ELSE 2]
OneInterval  == [c \in TwoConfigs |-> 1]
Exporting    == {flow}

(* A powershell sampler has a process to follow besides.                     *)
MCInterfacesOf == [s \in AllSources |-> IF s = "win" THEN {e1} ELSE {e1, e2}]
MCMaxMoved == [s \in AllSources |-> 2]

VARIABLE part

WorkingInit ==
  /\ part \in {"runtime", "sweep", "rates"}
  /\ part = "runtime" \/ (token = TRUE /\ assigned = proc /\ exporter = FALSE)
  /\ part = "rates" \/ source = "proc"
  /\ Init /\ DiscoveryInit /\ SamplingInit
WorkingNext ==
  /\ UNCHANGED part
  /\ \/ part = "runtime" /\ Next /\ UNCHANGED <<discoveryVars, samplingVars>>
     \/ part = "sweep" /\ DiscoveryNext /\ UNCHANGED <<vars, samplingVars>>
     \/ part = "rates" /\ SamplingNext /\ UNCHANGED <<vars, discoveryVars>>
WorkingSpec ==
  /\ WorkingInit /\ [][WorkingNext]_<<part, vars, discoveryVars, samplingVars>>
  /\ Fairness
=============================================================================
