-------------------------- MODULE MCAllowlistUpdates --------------------------
(* Two-bit addresses: 0.0 .. 1.1, and the prefixes /0, /1 and /2.            *)
EXTENDS AllowlistUpdates, TLC

CONSTANTS n1, n2, n3

MCGrants   == {[p \in {<<>>} |-> 0], [p \in {<<0>>, <<1, 1>>} |-> 1], [p \in {<<0, 0>>} |-> 0]}
MCRemovals == {{<<0>>, <<1, 1>>}}
MCTargets  == {<<0, 0>>, <<0, 1>>}
NonceSymmetry == Permutations(Nonce)
=============================================================================
