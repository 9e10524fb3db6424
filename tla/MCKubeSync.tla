----------------------------- MODULE MCKubeSync -----------------------------
(***************************************************************************)
(* Two masters, one of which can fail midway and be disabled, and one      *)
(* label besides those of the node.                                        *)
(***************************************************************************)
EXTENDS KubeSync

CONSTANTS s1, s2, feature, nodeinfo

MCServers == {s1, s2}
MCLabels  == {feature, nodeinfo}
MCConfigs == {[ip |-> s1, disable |-> FALSE], [ip |-> s1, disable |-> TRUE],
              [ip |-> s2, disable |-> FALSE]}
MCHealths == [s \in MCServers |->
                IF s = s1 THEN {"down", "half", "up"} ELSE {"down", "up"}]
=============================================================================
