-------------------------------- MODULE Cidr --------------------------------
(***************************************************************************)
(* IPv4 prefixes as the layer-3 allowlist uses them.  A prefix is the      *)
(* sequence of its network bits, an address is a prefix of full length     *)
(* (the /32), so "the CIDR contains the address" is agreement on the       *)
(* prefix's bits and "more specific" is "longer".  Prefixes are canonical  *)
(* (no host bits), which is what net.IPNet.String() produces.              *)
(***************************************************************************)
EXTENDS Naturals

CONSTANT Width                          \* bits of an address, 32 in the code

ASSUME WidthAssumption == Width \in Nat \ {0}

Bit    == {0, 1}
Addr   == [1..Width -> Bit]
Prefix == UNION {[1..n -> Bit] : n \in 0..Width}

\* net.IPNet.Contains
Covers(p, a) == \A i \in DOMAIN p : p[i] = a[i]

\* The addresses some prefix of P covers: what an LPM trie of allow-entries passes.
Covered(P) == {a \in Addr : \E p \in P : Covers(p, a)}

\* q's range lies inside p's.
Within(q, p) == DOMAIN p \subseteq DOMAIN q /\ \A i \in DOMAIN p : p[i] = q[i]

\* No two prefixes of P share an address.
Disjoint(P) == \A p, q \in P : Within(q, p) => q = p

\* Slips: the bit carried over instead of flipped, the bit not flipped at all, the
\* last level forgotten.
SiblingCarries(a, k) == [i \in 1..k |-> IF i = k THEN 1 + a[i] ELSE a[i]]
SiblingKeeps(a, k)   == [i \in 1..k |-> a[i]]
ExcludeTooMuch(p, a) ==
    {[i \in 1..k |-> IF i = k THEN 1 - a[i] ELSE a[i]] : k \in (1..(Width - 1)) \ DOMAIN p}

\* excludeIPFromCIDR: the prefix of length k that leaves a's path at bit k, and
\* all of them below p.
Sibling(a, k)   == [i \in 1..k |-> IF i = k THEN 1 - a[i] ELSE a[i]]
ExcludeIP(p, a) == {Sibling(a, k) : k \in (1..Width) \ DOMAIN p}

\* The most specific prefix of P that covers a (the scan of planIPRemovalLocked).
MostSpecific(P, a) ==
    CHOOSE p \in P : /\ Covers(p, a)
                     /\ \A q \in P : Covers(q, a) => DOMAIN q \subseteq DOMAIN p
=============================================================================
