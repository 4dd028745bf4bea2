----------------------------- MODULE MC_Ingress -----------------------------
(* One edge, one listener port, two routes of two environments. *)
EXTENDS Ingress

EnvOfValue == [r \in RouteIds |-> IF r = 1 THEN "e1" ELSE "e2"]
NewRoutesValue ==
    {[host |-> "a", proto |-> "tls", v4 |-> TRUE, proxy |-> TRUE, target |-> "web"],
     [host |-> "b", proto |-> "raw", v4 |-> FALSE, proxy |-> FALSE, target |-> "web"]}
InstanceOfValue ==
    [i \in Instances |-> [env |-> IF i = 3 THEN "e2" ELSE "e1", target |-> "web"]]
\* As the control plane answers, and with one or both of the spellings the edge can read.
SpellingsValue ==
    {[keys |-> "lower_camel", addr |-> "text"], [keys |-> "as_stored", addr |-> "text"],
     [keys |-> "as_stored", addr |-> "host"]}
ClientsValue ==
    {[says |-> "hello", host |-> "a", to |-> "v6"], [says |-> "hello", host |-> "a", to |-> "e1"],
     [says |-> "plain", host |-> "none", to |-> "v6"], [says |-> "slow", host |-> "none", to |-> "v6"]}
=============================================================================
