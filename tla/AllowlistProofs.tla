--------------------------- MODULE AllowlistProofs ---------------------------
(***************************************************************************)
(* What the prefix operators of Cidr guarantee for addresses of any width: *)
(* excluding an address splits the rest of a prefix exactly, and the most  *)
(* specific covering prefix exists whenever one covers at all.  And what   *)
(* the methods of the allowlist manager do to its entries and to the trie, *)
(* whoever calls them and whatever the width and the capacity.             *)
(***************************************************************************)
EXTENDS Allowlist, FiniteSetTheorems, TLAPS


(* Every non-empty set of naturals has a least element.  The library's     *)
(* SmallestNatural says so of an operator; here it is derived from the     *)
(* well-foundedness of strict inclusion on the subsets of 1..n.            *)
LEMMA LeastElement ==
    ASSUME NEW S \in SUBSET Nat, NEW n \in S
    PROVE  \E m \in S : \A k \in S : m <= k
<1> DEFINE T == {1..m : m \in {i \in S : i <= n}}
<1>1. IsFiniteSet(1..n)
    BY FS_Interval
<1>2. T \subseteq FiniteSubsetsOf(1..n)
    <2>1. FiniteSubsetsOf(1..n) = SUBSET (1..n)
        BY <1>1, FS_FiniteSubsetsOfFinite
    <2> QED BY <2>1
<1>3. T # {}
    OBVIOUS
<1>4. IsWellFoundedOn(StrictSubsetOrdering(1..n), FiniteSubsetsOf(1..n))
    BY FS_StrictSubsetOrderingWellFounded
<1>5. PICK x \in T : \A y \in T : ~(<<y, x>> \in StrictSubsetOrdering(1..n))
    <2> HIDE DEF T
    <2> QED BY <1>2, <1>3, <1>4, WFMin
<1>6. PICK m \in S : m <= n /\ x = 1..m
    OBVIOUS
<1>7. ASSUME NEW k \in S PROVE m <= k
    <2>1. SUFFICES ASSUME k < m PROVE FALSE
        OBVIOUS
    <2>2. k <= n /\ 1..k \in T
        BY <1>6, <2>1
    <2>3. 1..k \subseteq 1..m /\ 1..k # 1..m /\ 1..m \subseteq 1..n
        <3>1. m \in 1..m /\ m \notin 1..k
            BY <2>1
        <3> QED BY <3>1, <2>1, <1>6
    <2>4. <<1..k, 1..m>> \in StrictSubsetOrdering(1..n)
        BY <2>2, <2>3 DEF StrictSubsetOrdering
    <2> QED BY <2>2, <2>4, <1>5, <1>6
<1> QED BY <1>7

-----------------------------------------------------------------------------
(* The shape of prefixes.                                                  *)

LEMMA PrefixDomain ==
    ASSUME NEW p \in Prefix
    PROVE  \E n \in 0..Width : DOMAIN p = 1..n /\ p \in [1..n -> Bit]
BY DEF Prefix

LEMMA AddrIsPrefix == Addr \subseteq Prefix
BY WidthAssumption DEF Addr, Prefix

LEMMA SameBitsSameAddress ==
    ASSUME NEW a \in Addr, NEW b \in Addr, \A i \in 1..Width : a[i] = b[i]
    PROVE  a = b
<1>1. a = [i \in 1..Width |-> a[i]] /\ b = [i \in 1..Width |-> b[i]]
    BY DEF Addr
<1>2. [i \in 1..Width |-> a[i]] = [i \in 1..Width |-> b[i]]
    OBVIOUS
<1> QED BY <1>1, <1>2

LEMMA SiblingIsPrefix ==
    ASSUME NEW a \in Addr, NEW k \in 1..Width
    PROVE  Sibling(a, k) \in Prefix /\ DOMAIN Sibling(a, k) = 1..k
<1>1. Sibling(a, k) \in [1..k -> Bit]
    BY WidthAssumption DEF Sibling, Addr, Bit
<1> QED BY <1>1, WidthAssumption DEF Prefix, Sibling

LEMMA WithinIsTransitive ==
    ASSUME NEW p, NEW q, NEW r, Within(p, q), Within(q, r)
    PROVE  Within(p, r)
BY DEF Within

LEMMA WithinIsReflexive == \A p : Within(p, p)
BY DEF Within

LEMMA WithinIsAntisymmetric ==
    ASSUME NEW p \in Prefix, NEW q \in Prefix, Within(p, q), Within(q, p)
    PROVE  p = q
<1>1. DOMAIN p = DOMAIN q
    BY DEF Within
<1>2. PICK n \in 0..Width : p \in [1..n -> Bit]
    BY DEF Prefix
<1>3. PICK m \in 0..Width : q \in [1..m -> Bit]
    BY DEF Prefix
<1>4. n = m
    <2>1. 1..n = 1..m
        BY <1>1, <1>2, <1>3
    <2>2. (n \in 1..n <=> n \in 1..m) /\ (m \in 1..n <=> m \in 1..m)
        BY <2>1
    <2> QED BY <2>2
<1>5. \A i \in 1..n : p[i] = q[i]
    BY <1>2 DEF Within
<1> QED BY <1>2, <1>3, <1>4, <1>5

(* Two prefixes of one prefix (or of one address) are comparable.          *)
LEMMA CommonPrefixesNest ==
    ASSUME NEW p \in Prefix, NEW q \in Prefix, NEW r, Within(r, p), Within(r, q)
    PROVE  Within(p, q) \/ Within(q, p)
<1>1. PICK n \in 0..Width : DOMAIN p = 1..n
    BY PrefixDomain
<1>2. PICK m \in 0..Width : DOMAIN q = 1..m
    BY PrefixDomain
<1>3. CASE n <= m
    BY <1>1, <1>2, <1>3 DEF Within
<1>4. CASE m <= n
    BY <1>1, <1>2, <1>4 DEF Within
<1> QED BY <1>3, <1>4

LEMMA CoversIsWithin ==
    ASSUME NEW p \in Prefix, NEW a \in Addr
    PROVE  Covers(p, a) <=> Within(a, p)
<1>1. PICK n \in 0..Width : DOMAIN p = 1..n
    BY PrefixDomain
<1>2. DOMAIN p \subseteq DOMAIN a
    BY <1>1, WidthAssumption DEF Addr
<1> QED BY <1>2 DEF Covers, Within

-----------------------------------------------------------------------------
(* MostSpecific picks an element of P that covers a and is within no other *)
(* such element, whenever some element of P covers a.                      *)
LEMMA MostSpecificExists ==
    ASSUME NEW P \in SUBSET Prefix, NEW a \in Addr, \E p \in P : Covers(p, a)
    PROVE  /\ MostSpecific(P, a) \in P
           /\ Covers(MostSpecific(P, a), a)
           /\ \A q \in P : Covers(q, a) => DOMAIN q \subseteq DOMAIN MostSpecific(P, a)
<1> DEFINE Spare == {n \in Nat : \E p \in P : Covers(p, a) /\ DOMAIN p = 1..(Width - n)}
<1>1. PICK n \in Spare : TRUE
    <2>1. PICK p \in P : Covers(p, a)
        OBVIOUS
    <2>2. PICK m \in 0..Width : DOMAIN p = 1..m
        BY PrefixDomain
    <2>3. Width - m \in Nat /\ Width - (Width - m) = m
        BY WidthAssumption
    <2> QED BY <2>1, <2>2, <2>3
<1>2. PICK least \in Spare : \A k \in Spare : least <= k
    <2>1. Spare \in SUBSET Nat
        OBVIOUS
    <2> HIDE DEF Spare
    <2> QED BY <1>1, <2>1, LeastElement
<1>3. PICK p \in P : Covers(p, a) /\ DOMAIN p = 1..(Width - least)
    OBVIOUS
<1>4. ASSUME NEW q \in P, Covers(q, a) PROVE DOMAIN q \subseteq DOMAIN p
    <2>1. PICK m \in 0..Width : DOMAIN q = 1..m
        BY PrefixDomain
    <2>2. Width - m \in Nat /\ Width - (Width - m) = m
        BY WidthAssumption
    <2>3. least <= Width - m
        <3>1. Width - m \in Spare
            BY <1>4, <2>1, <2>2
        <3> QED BY <3>1, <1>2
    <2> QED BY <1>3, <2>1, <2>3, WidthAssumption
<1>5. \E x \in P : /\ Covers(x, a)
                   /\ \A q \in P : Covers(q, a) => DOMAIN q \subseteq DOMAIN x
    BY <1>3, <1>4
<1> QED BY <1>5 DEF MostSpecific

(* Every piece of p minus a is a prefix inside p that does not cover a.    *)
LEMMA PiecesLieInside ==
    ASSUME NEW p \in Prefix, NEW a \in Addr, Covers(p, a), NEW q \in ExcludeIP(p, a)
    PROVE  q \in Prefix /\ Within(q, p) /\ ~Covers(q, a)
<1>1. PICK n \in 0..Width : DOMAIN p = 1..n
    BY PrefixDomain
<1>2. PICK k \in (1..Width) \ DOMAIN p : q = Sibling(a, k)
    BY DEF ExcludeIP
<1>3. k > n
    BY <1>1, <1>2
<1>4. q \in Prefix /\ DOMAIN q = 1..k
    BY <1>2, SiblingIsPrefix
<1>5. Within(q, p)
    <2>1. DOMAIN p \subseteq DOMAIN q
        BY <1>1, <1>3, <1>4
    <2>2. ASSUME NEW i \in DOMAIN p PROVE p[i] = q[i]
        <3>1. i \in 1..k /\ i # k
            BY <1>1, <1>3
        <3>2. q[i] = a[i]
            BY <1>2, <3>1 DEF Sibling
        <3> QED BY <3>2 DEF Covers
    <2> QED BY <2>1, <2>2 DEF Within
<1>6. ~Covers(q, a)
    <2>1. k \in 1..k /\ q[k] = 1 - a[k]
        BY <1>2 DEF Sibling
    <2>2. a[k] \in Bit
        BY <1>2 DEF Addr
    <2>3. q[k] # a[k]
        BY <2>1, <2>2 DEF Bit
    <2> QED BY <2>1, <2>3, <1>4 DEF Covers
<1> QED BY <1>4, <1>5, <1>6

(* excludeIPFromCIDR is exact: the pieces cover all that p covers but a.   *)
THEOREM PiecesCoverTheRest ==
    ASSUME NEW p \in Prefix, NEW a \in Addr, Covers(p, a)
    PROVE  Covered(ExcludeIP(p, a)) = Covered({p}) \ {a}
<1>1. ASSUME NEW b \in Covered(ExcludeIP(p, a)) PROVE b \in Covered({p}) \ {a}
    <2>1. PICK q \in ExcludeIP(p, a) : Covers(q, b) /\ b \in Addr
        BY DEF Covered
    <2>2. q \in Prefix /\ Within(q, p) /\ ~Covers(q, a)
        BY PiecesLieInside
    <2>3. Covers(p, b)
        BY <2>1, <2>2 DEF Covers, Within
    <2> QED BY <2>1, <2>2, <2>3 DEF Covered
<1>2. ASSUME NEW b \in Covered({p}), b # a PROVE b \in Covered(ExcludeIP(p, a))
    <2> DEFINE Differ == {i \in 1..Width : a[i] # b[i]}
    <2>1. b \in Addr /\ Covers(p, b)
        BY DEF Covered
    <2>2. PICK d \in Differ : TRUE
        BY <1>2, <2>1, SameBitsSameAddress
    <2>3. PICK k \in Differ : \A i \in Differ : k <= i
        <3>1. Differ \in SUBSET Nat
            OBVIOUS
        <3> HIDE DEF Differ
        <3> QED BY <2>2, <3>1, LeastElement
    <2>4. k \notin DOMAIN p
        BY <2>1, <2>3 DEF Covers
    <2>5. Covers(Sibling(a, k), b)
        <3>1. ASSUME NEW i \in 1..k PROVE Sibling(a, k)[i] = b[i]
            <4>1. CASE i = k
                <5>1. a[k] \in Bit /\ b[k] \in Bit
                    BY <2>1, <2>3 DEF Addr
                <5>2. Sibling(a, k)[i] = 1 - a[k]
                    BY <4>1 DEF Sibling
                <5> QED BY <2>3, <4>1, <5>1, <5>2 DEF Bit
            <4>2. CASE i # k
                <5>1. i \in 1..Width /\ i < k
                    BY <2>3, <4>2, WidthAssumption
                <5>2. a[i] = b[i]
                    BY <5>1, <2>3
                <5> QED BY <4>2, <5>2 DEF Sibling
            <4> QED BY <4>1, <4>2
        <3> QED BY <3>1, <2>3, SiblingIsPrefix DEF Covers
    <2> QED BY <2>1, <2>3, <2>4, <2>5 DEF Covered, ExcludeIP
<1>3. a \notin Covered(ExcludeIP(p, a))
    BY <1>1
<1> QED BY <1>1, <1>2, <1>3 DEF Covered

(* The pieces share no address: neither of two pieces lies in the other.   *)
THEOREM PiecesAreDisjoint ==
    ASSUME NEW p \in Prefix, NEW a \in Addr,
           NEW q \in ExcludeIP(p, a), NEW r \in ExcludeIP(p, a), Within(q, r)
    PROVE  q = r
<1>1. PICK k \in 1..Width : q = Sibling(a, k)
    BY DEF ExcludeIP
<1>2. PICK l \in 1..Width : r = Sibling(a, l)
    BY DEF ExcludeIP
<1>3. l <= k
    <2>1. 1..l \subseteq 1..k
        BY <1>1, <1>2, SiblingIsPrefix DEF Within
    <2>2. l \in 1..l
        OBVIOUS
    <2> QED BY <2>1, <2>2
<1>4. SUFFICES ASSUME l < k PROVE FALSE
    BY <1>1, <1>2, <1>3
<1>5. r[l] = 1 - a[l] /\ l \in DOMAIN r
    BY <1>2 DEF Sibling
<1>6. q[l] = a[l]
    BY <1>1, <1>4 DEF Sibling
<1>7. a[l] \in Bit
    BY <1>2 DEF Addr
<1> QED BY <1>5, <1>6, <1>7 DEF Within, Bit

LEMMA CoveredUnion ==
    ASSUME NEW P, NEW Q
    PROVE  Covered(P \cup Q) = Covered(P) \cup Covered(Q)
BY DEF Covered

(* Replacing a covering prefix by the pieces that exclude an address lets  *)
(* nobody in and shuts out nobody but that address.                        *)
THEOREM SplittingIsSurgical ==
    ASSUME NEW P \in SUBSET Prefix, NEW p \in P, NEW a \in Addr, Covers(p, a)
    PROVE  /\ Covered((P \ {p}) \cup ExcludeIP(p, a)) \subseteq Covered(P)
           /\ Covered(P) \ Covered((P \ {p}) \cup ExcludeIP(p, a)) \subseteq {a}
<1> DEFINE rest == P \ {p}
<1>1. P = rest \cup {p} /\ p \in Prefix
    OBVIOUS
<1>2. Covered(P) = Covered(rest) \cup Covered({p})
    BY <1>1, CoveredUnion
<1>3. Covered(rest \cup ExcludeIP(p, a)) = Covered(rest) \cup (Covered({p}) \ {a})
    BY <1>1, CoveredUnion, PiecesCoverTheRest
<1> HIDE DEF rest
<1>4. /\ Covered(rest \cup ExcludeIP(p, a)) \subseteq Covered(P)
      /\ Covered(P) \ Covered(rest \cup ExcludeIP(p, a)) \subseteq {a}
    BY <1>2, <1>3
<1> QED BY <1>4 DEF rest

(* Without nesting it does shut that address out, and nothing nests after. *)
THEOREM SplittingDenies ==
    ASSUME NEW P \in SUBSET Prefix, Disjoint(P), NEW p \in P, NEW a \in Addr, Covers(p, a)
    PROVE  /\ a \notin Covered((P \ {p}) \cup ExcludeIP(p, a))
           /\ Disjoint((P \ {p}) \cup ExcludeIP(p, a))
<1> DEFINE rest == P \ {p}
           pieces == ExcludeIP(p, a)
<1>1. p \in Prefix /\ rest \subseteq Prefix
    OBVIOUS
<1>2. \A q \in pieces : q \in Prefix /\ Within(q, p) /\ ~Covers(q, a)
    BY PiecesLieInside
<1>3. ASSUME NEW q \in rest PROVE ~Within(q, p) /\ ~Within(p, q)
    BY DEF Disjoint
<1>4. ASSUME NEW q \in rest, NEW r \in rest, Within(q, r) PROVE q = r
    BY <1>4 DEF Disjoint
<1>5. ASSUME NEW q \in pieces, NEW r \in pieces, Within(q, r) PROVE q = r
    BY <1>5, PiecesAreDisjoint
<1> HIDE DEF rest, pieces
<1>6. ASSUME NEW q \in rest PROVE ~Covers(q, a)
    <2>1. SUFFICES ASSUME Covers(q, a) PROVE FALSE
        OBVIOUS
    <2>2. Within(a, q) /\ Within(a, p) /\ q \in Prefix
        BY <1>1, <2>1, CoversIsWithin
    <2>3. Within(q, p) \/ Within(p, q)
        BY <1>1, <2>2, CommonPrefixesNest
    <2> QED BY <1>3, <2>3
<1>7. a \notin Covered(rest \cup pieces)
    BY <1>2, <1>6 DEF Covered
<1>8. ASSUME NEW q \in rest \cup pieces, NEW r \in rest \cup pieces, Within(q, r)
      PROVE  q = r
    <2>1. CASE q \in rest /\ r \in pieces
        BY <1>2, <1>3, <1>8, <2>1, WithinIsTransitive
    <2>2. CASE q \in pieces /\ r \in rest
        <3>1. Within(r, p) \/ Within(p, r)
            BY <1>1, <1>2, <1>8, <2>2, CommonPrefixesNest
        <3> QED BY <1>3, <2>2, <3>1
    <2> QED BY <1>4, <1>5, <1>8, <2>1, <2>2
<1>9. Disjoint(rest \cup pieces)
    BY <1>8 DEF Disjoint
<1> QED BY <1>7, <1>9 DEF rest, pieces


-----------------------------------------------------------------------------
(* What the methods of the manager do to entries and to the trie.  Each    *)
(* lemma says three things of a step: the entries stay well-typed, the     *)
(* trie keeps mirroring them, and every entry afterwards was there before  *)
(* or is one the update brought.                                           *)

(* There are finitely many prefixes: each is known by its length and by    *)
(* the places of its ones.                                                 *)
LEMMA PrefixesAreFinite == IsFiniteSet(Prefix)
<1> DEFINE T == (SUBSET (1..Width)) \X (SUBSET (1..Width))
           f == [p \in Prefix |-> <<DOMAIN p, {i \in DOMAIN p : p[i] = 1}>>]
<1>1. IsFiniteSet(SUBSET (1..Width))
    <2>1. IsFiniteSet(1..Width)
        BY WidthAssumption, FS_Interval
    <2> QED BY <2>1, FS_SUBSET
<1>2. IsFiniteSet(T)
    BY <1>1, FS_Product
<1>3. ASSUME NEW p \in Prefix PROVE DOMAIN p \subseteq 1..Width /\ p \in [DOMAIN p -> Bit]
    <2>1. PICK n \in 0..Width : DOMAIN p = 1..n /\ p \in [1..n -> Bit]
        BY PrefixDomain
    <2> QED BY <2>1, WidthAssumption
<1>4. f \in [Prefix -> T]
    <2>1. ASSUME NEW p \in Prefix PROVE f[p] \in T
        BY <1>3
    <2> QED BY <2>1
<1>5. ASSUME NEW p \in Prefix, NEW q \in Prefix, f[p] = f[q] PROVE p = q
    <2>1. /\ DOMAIN p = DOMAIN q
          /\ {i \in DOMAIN p : p[i] = 1} = {i \in DOMAIN q : q[i] = 1}
        BY <1>5
    <2>2. ASSUME NEW i \in DOMAIN p PROVE p[i] = q[i]
        <3>1. p[i] \in Bit /\ q[i] \in Bit
            BY <1>3, <2>1
        <3>2. p[i] = 1 <=> q[i] = 1
            BY <2>1
        <3> QED BY <3>1, <3>2 DEF Bit
    <2>3. p = [i \in DOMAIN p |-> p[i]] /\ q = [i \in DOMAIN q |-> q[i]]
        BY <1>3
    <2> QED BY <2>1, <2>2, <2>3
<1> HIDE DEF f, T
<1>6. f \in Injection(Prefix, T)
    BY <1>4, <1>5 DEF Injection, IsInjective
<1> QED BY <1>2, <1>6, FS_Injection

(* Where some prefixes have room, fewer have.                              *)
LEMMA FewerFit ==
    ASSUME NEW S \in SUBSET Prefix, NEW T \in SUBSET S, Fits(S)
    PROVE  Fits(T)
<1>1. IsFiniteSet(S) /\ IsFiniteSet(T)
    BY PrefixesAreFinite, FS_Subset
<1>2. Cardinality(T) <= Cardinality(S) /\ Cardinality(S) \in Nat /\ Cardinality(T) \in Nat
    BY <1>1, FS_Subset, FS_CardinalityType
<1> QED BY <1>2, AllowlistAssumption DEF Fits

(* An empty trie has room for nothing.                                     *)
LEMMA NothingFits == Fits({})
BY FS_EmptySet, AllowlistAssumption DEF Fits

IsEntries(f) == DOMAIN f \subseteq Prefix /\ f \in [DOMAIN f -> Nat]

\* The trie is as large as its entries, which it has room for.
Mirrors(trie, open, f) == trie = (IF open THEN DOMAIN f ELSE {}) /\ Fits(trie)

ComesFrom(after, before, new) ==
    \A p \in DOMAIN after : \/ p \in DOMAIN before /\ after[p] = before[p]
                            \/ p \in DOMAIN new /\ after[p] = new[p]

LEMMA NothingIsEntries == IsEntries(Nothing) /\ DOMAIN Nothing = {}
BY DEF IsEntries, Nothing

LEMMA DropShape ==
    ASSUME NEW f, IsEntries(f), NEW S
    PROVE  /\ IsEntries(Drop(f, S)) /\ DOMAIN Drop(f, S) = DOMAIN f \ S
           /\ ComesFrom(Drop(f, S), f, Nothing)
BY DEF IsEntries, Drop, Restrict, ComesFrom

LEMMA RestrictShape ==
    ASSUME NEW f, IsEntries(f), NEW S \in SUBSET DOMAIN f
    PROVE  /\ IsEntries(Restrict(f, S)) /\ DOMAIN Restrict(f, S) = S
           /\ \A p \in S : Restrict(f, S)[p] = f[p]
BY DEF IsEntries, Restrict

LEMMA PutShape ==
    ASSUME NEW f, IsEntries(f), NEW g, IsEntries(g)
    PROVE  /\ IsEntries(Put(f, g)) /\ DOMAIN Put(f, g) = DOMAIN f \cup DOMAIN g
           /\ ComesFrom(Put(f, g), g, f)
BY DEF IsEntries, Put, ComesFrom

LEMMA ComesFromComposes ==
    ASSUME NEW f, NEW g, NEW h, NEW new,
           ComesFrom(f, g, Nothing), ComesFrom(h, f, new)
    PROVE  ComesFrom(h, g, new)
BY DEF ComesFrom, Nothing

\* What the three lemmas below say of the state after a step.
Preserved(new) ==
    /\ IsEntries(entries')
    /\ Mirrors(bpf', mapOpen, entries')
    /\ ComesFrom(entries', entries, new)

LEMMA AddEntriesPreserves ==
    ASSUME IsEntries(entries), Mirrors(bpf, mapOpen, entries),
           NEW new, IsEntries(new), AddEntries(new)
    PROVE  Preserved(new)
<1>1. PICK done \in SUBSET DOMAIN new :
          /\ mapOpen => Fits(bpf \cup done)
          /\ entries' = Put(Restrict(new, done), entries)
          /\ bpf' = IF mapOpen THEN bpf \cup done ELSE bpf
    BY DEF AddEntries
<1>2. IsEntries(Restrict(new, done)) /\ DOMAIN Restrict(new, done) = done
      /\ \A p \in done : Restrict(new, done)[p] = new[p]
    BY RestrictShape
<1>3. IsEntries(entries') /\ DOMAIN entries' = done \cup DOMAIN entries
      /\ ComesFrom(entries', entries, Restrict(new, done))
    BY <1>1, <1>2, PutShape
<1>4. Mirrors(bpf', mapOpen, entries')
    BY <1>1, <1>3 DEF Mirrors
<1>5. ComesFrom(entries', entries, new)
    BY <1>2, <1>3 DEF ComesFrom
<1> QED BY <1>3, <1>4, <1>5 DEF Preserved

LEMMA RemoveEntriesPreserves ==
    ASSUME IsEntries(entries), Mirrors(bpf, mapOpen, entries),
           NEW old, RemoveEntries(old)
    PROVE  Preserved(Nothing)
<1>1. PICK done : entries' = Drop(entries, done) /\ bpf' = bpf \ done
    BY DEF RemoveEntries
<1>2. IsEntries(entries') /\ DOMAIN entries' = DOMAIN entries \ done
      /\ ComesFrom(entries', entries, Nothing)
    BY <1>1, DropShape
<1>3. Fits(bpf')
    BY <1>1, FewerFit DEF Mirrors, IsEntries
<1> QED BY <1>1, <1>2, <1>3 DEF Preserved, Mirrors

(* From two sides that mirror each other, the rollback comes back to the   *)
(* entries the carve began with: nothing is stray, and what fitted once    *)
(* fits again.                                                             *)
LEMMA RollbackRestores ==
    ASSUME IsEntries(entries), mapOpen, Mirrors(bpf, mapOpen, entries),
           NEW mem, NEW keys, keys = DOMAIN mem, Rollback(mem, keys)
    PROVE  entries' = entries /\ bpf' = bpf
<1>1. keys \ DOMAIN mem = {}
    OBVIOUS
<1>2. PICK back \in SUBSET DOMAIN entries :
          /\ \A p \in DOMAIN entries \ back : ~Fits(back \cup {p})
          /\ entries' = Put(Restrict(entries, back), Drop(mem, keys))
          /\ bpf' = back
    BY <1>1, Zenon DEF Rollback, Allowed
<1>3. back = DOMAIN entries
    <2>1. ASSUME NEW p \in DOMAIN entries \ back PROVE FALSE
        <3>1. Fits(back \cup {p})
            BY FewerFit DEF Mirrors, IsEntries
        <3> QED BY <1>2, <3>1
    <2> QED BY <2>1
<1>4. entries' = entries
    <2>1. DOMAIN Drop(mem, keys) = {}
        BY DEF Drop, Restrict
    <2>2. Restrict(entries, back) = entries
        BY <1>3 DEF Restrict, IsEntries
    <2>3. Put(entries, Drop(mem, keys)) = [p \in DOMAIN entries |-> entries[p]]
        BY <2>1 DEF Put
    <2> QED BY <1>2, <2>2, <2>3 DEF IsEntries
<1> QED BY <1>2, <1>3, <1>4 DEF Mirrors

(* All or nothing on both sides of the mirror.                             *)
LEMMA CarveIsAllOrNothing ==
    ASSUME IsEntries(entries), Mirrors(bpf, mapOpen, entries),
           NEW remove, NEW add, IsEntries(add), CarveEntries(remove, add)
    PROVE  /\ Preserved(add)
           /\ \/ ~CarveSucceeds(remove, add) /\ entries' = entries /\ bpf' = bpf
              \/ /\ CarveSucceeds(remove, add)
                 /\ entries' = Put(add, Drop(entries, remove))
                 /\ DOMAIN entries' = (DOMAIN entries \ remove) \cup DOMAIN add
                 /\ bpf' = IF mapOpen THEN (bpf \ remove) \cup DOMAIN add ELSE bpf
<1>1. ASSUME CarveSucceeds(remove, add),
             entries' = Put(add, Drop(entries, remove)),
             bpf' = IF mapOpen THEN (bpf \ remove) \cup DOMAIN add ELSE bpf
      PROVE  Preserved(add) /\ DOMAIN entries' = (DOMAIN entries \ remove) \cup DOMAIN add
    <2>1. /\ IsEntries(Drop(entries, remove))
          /\ DOMAIN Drop(entries, remove) = DOMAIN entries \ remove
          /\ ComesFrom(Drop(entries, remove), entries, Nothing)
        BY DropShape
    <2>2. /\ IsEntries(entries')
          /\ DOMAIN entries' = DOMAIN add \cup (DOMAIN entries \ remove)
          /\ ComesFrom(entries', Drop(entries, remove), add)
        BY <1>1, <2>1, PutShape
    <2>3. ComesFrom(entries', entries, add)
        BY <2>1, <2>2, ComesFromComposes
    <2>4. Mirrors(bpf', mapOpen, entries')
        BY <1>1, <2>2 DEF Mirrors, CarveSucceeds
    <2> QED BY <2>2, <2>3, <2>4 DEF Preserved
<1>2. ASSUME mapOpen, NEW gone \in SUBSET (remove \cap bpf), NEW come \in SUBSET DOMAIN add,
             Rollback(Put(Restrict(add, come), Drop(entries, gone)), (bpf \ gone) \cup come)
      PROVE  entries' = entries /\ bpf' = bpf
    <2>1. IsEntries(Restrict(add, come)) /\ DOMAIN Restrict(add, come) = come
        BY RestrictShape
    <2>2. IsEntries(Drop(entries, gone)) /\ DOMAIN Drop(entries, gone) = DOMAIN entries \ gone
        BY DropShape
    <2>3. DOMAIN Put(Restrict(add, come), Drop(entries, gone)) = come \cup (DOMAIN entries \ gone)
        BY <2>1, <2>2 DEF Put
    <2>4. (bpf \ gone) \cup come = DOMAIN Put(Restrict(add, come), Drop(entries, gone))
        BY <1>2, <2>3 DEF Mirrors
    <2> QED BY <1>2, <2>4, RollbackRestores
<1>3. entries' = entries /\ bpf' = bpf => Preserved(add)
    BY DEF Preserved, ComesFrom
<1>4. ASSUME mapOpen, CarveSucceeds(remove, add), NEW gone, NEW come \in SUBSET DOMAIN add,
             \/ ~(remove \subseteq bpf)
             \/ gone = remove /\ \E p \in DOMAIN add : ~Fits(((bpf \ gone) \cup come) \cup {p})
      PROVE  FALSE
    <2>1. remove \subseteq bpf /\ Fits((bpf \ remove) \cup DOMAIN add)
        BY <1>4 DEF CarveSucceeds
    <2>2. PICK p \in DOMAIN add : ~Fits(((bpf \ remove) \cup come) \cup {p})
        BY <1>4, <2>1
    <2>3. /\ ((bpf \ remove) \cup come) \cup {p} \subseteq (bpf \ remove) \cup DOMAIN add
          /\ (bpf \ remove) \cup DOMAIN add \subseteq Prefix
        BY <1>4 DEF Mirrors, IsEntries
    <2> QED BY <2>1, <2>2, <2>3, FewerFit
<1>5. \/ /\ CarveSucceeds(remove, add)
         /\ entries' = Put(add, Drop(entries, remove))
         /\ bpf' = IF mapOpen THEN (bpf \ remove) \cup DOMAIN add ELSE bpf
      \/ /\ mapOpen
         /\ \E gone \in SUBSET (remove \cap bpf), come \in SUBSET DOMAIN add :
               /\ \/ ~(remove \subseteq bpf)
                  \/ /\ gone = remove
                     /\ \E p \in DOMAIN add : ~Fits(((bpf \ gone) \cup come) \cup {p})
               /\ Rollback(Put(Restrict(add, come), Drop(entries, gone)), (bpf \ gone) \cup come)
    BY Zenon DEF CarveEntries
<1>6. \/ /\ CarveSucceeds(remove, add)
         /\ entries' = Put(add, Drop(entries, remove))
         /\ bpf' = IF mapOpen THEN (bpf \ remove) \cup DOMAIN add ELSE bpf
      \/ ~CarveSucceeds(remove, add) /\ entries' = entries /\ bpf' = bpf
    <2>1. CASE \E gone \in SUBSET (remove \cap bpf), come \in SUBSET DOMAIN add :
               /\ mapOpen
               /\ \/ ~(remove \subseteq bpf)
                  \/ /\ gone = remove
                     /\ \E p \in DOMAIN add : ~Fits(((bpf \ gone) \cup come) \cup {p})
               /\ Rollback(Put(Restrict(add, come), Drop(entries, gone)), (bpf \ gone) \cup come)
        BY <2>1, <1>2, <1>4, Zenon
    <2> QED BY <1>5, <2>1, Zenon
<1> QED BY <1>1, <1>3, <1>6

(* A plan removes one covering entry and adds the rest of it, each piece   *)
(* with that entry's expiry.                                               *)
LEMMA PlanShape ==
    ASSUME IsEntries(entries), NEW a \in Addr, IsAllowed(a)
    PROVE  \E best \in DOMAIN entries :
             /\ Covers(best, a)
             /\ \A q \in DOMAIN entries : Covers(q, a) => DOMAIN q \subseteq DOMAIN best
             /\ Plan(a).remove = {best}
             /\ IsEntries(Plan(a).add) /\ DOMAIN Plan(a).add = ExcludeIP(best, a)
             /\ \A p \in ExcludeIP(best, a) : Plan(a).add[p] = entries[best]
<1> DEFINE best == MostSpecific(Allowed, a)
<1>1. /\ best \in DOMAIN entries /\ Covers(best, a)
      /\ \A q \in DOMAIN entries : Covers(q, a) => DOMAIN q \subseteq DOMAIN best
    BY MostSpecificExists DEF IsEntries, IsAllowed, Allowed
<1>2. ExcludeIP(best, a) \subseteq Prefix
    BY <1>1, PiecesLieInside DEF IsEntries
<1>3. entries[best] \in Nat
    BY <1>1 DEF IsEntries
<1>4. Plan(a) = [remove |-> {best}, add |-> [q \in ExcludeIP(best, a) |-> entries[best]]]
    BY DEF Plan
<1> HIDE DEF best
<1>5. IsEntries([q \in ExcludeIP(best, a) |-> entries[best]])
    BY <1>2, <1>3 DEF IsEntries
<1> QED BY <1>1, <1>4, <1>5

LEMMA RemoveIPPreserves ==
    ASSUME IsEntries(entries), Mirrors(bpf, mapOpen, entries),
           NEW a \in Addr, RemoveIP(a)
    PROVE  IsAllowed(a) /\ Preserved(Plan(a).add)
<1>1. IsAllowed(a)
    BY DEF RemoveIP
<1> DEFINE new == Plan(a).add
           old == Plan(a).remove
<1>2. IsEntries(new)
    BY <1>1, PlanShape
<1>3. \/ entries' = entries /\ bpf' = bpf
      \/ \E done \in SUBSET DOMAIN new :
            /\ mapOpen => Fits((bpf \ old) \cup done)
            /\ entries' = Put(Restrict(new, done), Drop(entries, old))
            /\ bpf' = IF mapOpen THEN (bpf \ old) \cup done ELSE bpf
    BY DEF RemoveIP
<1> HIDE DEF new, old
<1>4. CASE entries' = entries /\ bpf' = bpf
    BY <1>1, <1>4 DEF Preserved, ComesFrom, new
<1>5. ASSUME NEW done \in SUBSET DOMAIN new,
             mapOpen => Fits((bpf \ old) \cup done),
             entries' = Put(Restrict(new, done), Drop(entries, old)),
             bpf' = IF mapOpen THEN (bpf \ old) \cup done ELSE bpf
      PROVE  Preserved(new)
    <2>1. /\ IsEntries(Restrict(new, done)) /\ DOMAIN Restrict(new, done) = done
          /\ \A p \in done : Restrict(new, done)[p] = new[p]
        BY <1>2, RestrictShape
    <2>2. /\ IsEntries(Drop(entries, old)) /\ DOMAIN Drop(entries, old) = DOMAIN entries \ old
          /\ ComesFrom(Drop(entries, old), entries, Nothing)
        BY DropShape
    <2>3. /\ IsEntries(entries') /\ DOMAIN entries' = done \cup (DOMAIN entries \ old)
          /\ ComesFrom(entries', Drop(entries, old), Restrict(new, done))
        BY <1>5, <2>1, <2>2, PutShape
    <2>4. ComesFrom(entries', Drop(entries, old), new)
        BY <2>1, <2>3 DEF ComesFrom
    <2>5. ComesFrom(entries', entries, new)
        BY <2>2, <2>4, ComesFromComposes
    <2>6. Mirrors(bpf', mapOpen, entries')
        BY <1>5, <2>3 DEF Mirrors
    <2> QED BY <2>3, <2>5, <2>6 DEF Preserved
<1>6. Preserved(new)
    BY <1>3, <1>4, <1>5 DEF new
<1> QED BY <1>1, <1>6 DEF new

LEMMA CleanupPreserves ==
    ASSUME IsEntries(entries), Mirrors(bpf, mapOpen, entries),
           NEW now, CleanupExpiredEntries(now)
    PROVE  Preserved(Nothing)
<1>1. PICK gone : entries' = Drop(entries, gone) /\ bpf' = bpf \ gone
    BY DEF CleanupExpiredEntries
<1>2. IsEntries(entries') /\ DOMAIN entries' = DOMAIN entries \ gone
      /\ ComesFrom(entries', entries, Nothing)
    BY <1>1, DropShape
<1>3. Fits(bpf')
    BY <1>1, FewerFit DEF Mirrors, IsEntries
<1> QED BY <1>1, <1>2, <1>3 DEF Preserved, Mirrors
=============================================================================
