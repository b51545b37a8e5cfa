------------------------------ MODULE MCAgentBeta ------------------------------
(* Two hosts, as each feed fails to open on its own.  On the first,        *)
(* packets and violations compete for a profiler of one place, which a     *)
(* source worth keeping can block; on the second, samples and drops of     *)
(* three sources for one of two.                                           *)
EXTENDS AgentBeta

CONSTANTS a, b, c

MCAddress  == {a, b, c, NoIP}
MCHosts    == {[feeds |-> {1, 4}, size |-> 1], [feeds |-> {2, 3}, size |-> 2]}
MCTalkers  == <<{b}, {a, c, NoIP}, {b}, {a, NoIP}>>
MCCapacity == <<1, 1, 1, 1>>
================================================================================
