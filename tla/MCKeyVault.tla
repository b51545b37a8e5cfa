------------------------------- MODULE MCKeyVault -------------------------------
(* Two departments; two processes, which may contend for the same volume.  *)
EXTENDS KeyVault, TLC

CONSTANTS d1, d2, p1, p2, k1, k2, k3, k4

MCDept     == {d1, d2}
MCProcess  == {p1, p2}
MCKey      == {k1, k2, k3, k4}
MCSymmetry == Permutations(MCDept) \cup Permutations(MCProcess) \cup Permutations(MCKey)
================================================================================
