----------------------------- MODULE Configuration -----------------------------
(***************************************************************************)
(* What GetConfig (pkg/common/config.go) makes of the environment and the  *)
(* metadata server, as far as it decides how the prober runs.  A report    *)
(* interval is told from others by what the code makes of it.              *)
(***************************************************************************)

(* PROBER_MODE, NODE_IP, REPORT_INTERVAL, ENABLE_CLUSTER_PROBES; and the   *)
(* host name, which is unknown, or too short to end in a node's identifier.*)
Environments ==
    [mode : {"", "cluster", "node", "other"}, nodeIP : BOOLEAN,
     interval : {"unset", "unparsable", "zero", "positive", "negative"},
     clusterProbes : BOOLEAN, hostname : {"unknown", "short", "long"}]

Configs ==
    [mode : {"cluster", "node", "other"},
     interval : {"default", "positive", "negative"}, clusterProbes : BOOLEAN]

(* getMetadata has no host name. *)
NoHostname(env) == env.hostname = "unknown"

(* A node without its IP; no host name; a slice pool[:len(pool)-14].       *)
Panics(env) ==
    \/ env.mode = "node" /\ ~env.nodeIP
    \/ NoHostname(env)
    \/ env.hostname = "short"

(* Mutant: what cannot be parsed is taken for zero, not for the default. *)
ReportIntervalUnchecked(env) ==
    IF env.interval \in {"unparsable", "zero"} THEN "negative"
    ELSE IF env.interval = "unset" THEN "default" ELSE env.interval

(* ParseDuration's error is dropped; what it gives then is zero. *)
ReportInterval(env) ==
    IF env.interval \in {"unset", "unparsable", "zero"} THEN "default" ELSE env.interval

(* The configuration, unless GetConfig panics. *)
GetConfig(env) ==
    [mode |-> IF env.mode = "" THEN "cluster" ELSE env.mode,
     interval |-> ReportInterval(env),
     clusterProbes |-> env.clusterProbes]
===============================================================================
