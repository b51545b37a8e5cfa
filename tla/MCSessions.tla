------------------------------ MODULE MCSessions ------------------------------
(* Two devices and two users; time in units of half a rotation interval.     *)
EXTENDS Sessions, TLC

CONSTANTS d1, d2, u1, u2, c1, c2

Symmetry == Permutations(Device) \cup Permutations(User) \cup Permutations(Credential)
=============================================================================
