--------------------------- MODULE MCThreatResponse ---------------------------
(* Two-bit addresses, two connections, one grant that covers everybody, so *)
(* that every two blocks contend for the same entry.                       *)
EXTENDS ThreatResponse

L4(ip)       == [type |-> "L4_VIOLATION", ip |-> ip, score |-> 50, hits |-> "missing"]
Profiled(ip, score, hits) ==
    [type |-> "THREAT_ACTOR_PROFILED", ip |-> ip, score |-> score, hits |-> hits]

Permanent(P) == [p \in P |-> 0]
MCSeeds  == {Permanent({<<>>})}
MCAlerts == {L4(<<0, 0>>), L4(NoIP), Profiled(<<0, 1>>, Threshold + 1, "some"),
             Profiled(<<1, 0>>, Threshold, "some")}
MCUnblockable == {<<0, 1>>}
=============================================================================
