---------------------------- MODULE AgentBetaProofs ----------------------------
(***************************************************************************)
(* What AGENT-BETA's profiles and alerts can be relied on for, with any    *)
(* addresses, feeds, capacities, cache sizes and any restarts of the       *)
(* daemon: the cache is one cache and keeps the dangerous sources, a drop  *)
(* is counted once, an alert is lost once a restart, and what reaches the  *)
(* daemon is what AlertFeed promises.                                      *)
(***************************************************************************)
EXTENDS AgentBeta, FiniteSetTheorems, TLAPS

-----------------------------------------------------------------------------
(* The cache of profiles.                                                  *)

\* The list names every profile once, in the order in which the sources were last seen.
CacheInv ==
    /\ Known = {lru[i] : i \in DOMAIN lru} /\ Len(lru) <= maxSize
    /\ \A i, j \in DOMAIN lru : lru[i] = lru[j] => i = j
    /\ \A i, j \in DOMAIN lru : i < j => profiles[lru[i]].age <= profiles[lru[j]].age

\* Every non-empty set of places has a last one, where the scan from the back stops.
LEMMA GreatestElement ==
    ASSUME NEW n \in Nat, NEW S, S \subseteq 1..n, S # {}
    PROVE  \E m \in S : \A k \in S : k <= m
<1> DEFINE R == {ss \in Nat \X Nat : ss[1] < ss[2]}
           T == {x \in Nat : n - x \in S}
<1>1. IsWellFoundedOn(R, Nat)
  BY NatLessThanWellFounded DEF OpToRel
<1>2. T # {} /\ T \subseteq Nat
  <2>1. PICK m \in S : TRUE
    OBVIOUS
  <2>2. n - m \in Nat /\ n - (n - m) = m
    BY <2>1
  <2> QED BY <2>1, <2>2
<1> HIDE DEF R
<1>3. PICK x \in T : \A y \in T : ~(<<y, x>> \in R)
  <2> HIDE DEF T
  <2> QED BY <1>1, <1>2, WFMin
<1>4. \A y \in T : ~(y < x)
  BY <1>3 DEF R
<1>5. ASSUME NEW k \in S PROVE k <= n - x
  <2>1. n - k \in Nat /\ n - (n - k) = k
    OBVIOUS
  <2>2. n - k \in T
    BY <2>1
  <2> QED BY <2>1, <2>2, <1>4
<1> QED BY <1>3, <1>5

\* What \o makes of two sequences.
LEMMA ConcatShape ==
    ASSUME NEW S, NEW s \in Seq(S), NEW t \in Seq(S)
    PROVE  /\ s \o t \in Seq(S) /\ Len(s \o t) = Len(s) + Len(t)
           /\ \A j \in 1..Len(s) : (s \o t)[j] = s[j]
           /\ \A j \in (Len(s) + 1)..(Len(s) + Len(t)) : (s \o t)[j] = t[j - Len(s)]
OBVIOUS

\* The part of the list behind place i.
LEMMA RightShape ==
    ASSUME lru \in Seq(Address), NEW i \in 1..Len(lru)
    PROVE  /\ SubSeq(lru, i + 1, Len(lru)) \in Seq(Address)
           /\ Len(SubSeq(lru, i + 1, Len(lru))) = Len(lru) - i
           /\ \A j \in 1..(Len(lru) - i) : SubSeq(lru, i + 1, Len(lru))[j] = lru[j + i]
<1>1. Len(lru) \in Nat /\ \A j \in 1..Len(lru) : lru[j] \in Address
  OBVIOUS
<1>2. CASE i = Len(lru)
  BY <1>1, <1>2
<1>3. CASE i < Len(lru)
  BY <1>1, <1>3
<1> QED BY <1>1, <1>2, <1>3

\* The list with a in front: what stood before place i moves back by one.
LEMMA FrontedShape ==
    ASSUME lru \in Seq(Address), NEW a \in Address, NEW i \in 1..Len(lru)
    PROVE  /\ Fronted(a, i) \in Seq(Address) /\ Len(Fronted(a, i)) = Len(lru)
           /\ Fronted(a, i)[1] = a
           /\ \A j \in 2..Len(lru) : Fronted(a, i)[j] = IF j <= i THEN lru[j - 1] ELSE lru[j]
<1> DEFINE n == Len(lru)
           left == SubSeq(lru, 1, i - 1)
           right == SubSeq(lru, i + 1, n)
<1>1. n \in Nat /\ DOMAIN lru = 1..n /\ \A j \in 1..n : lru[j] \in Address
  OBVIOUS
<1>2. left \in Seq(Address) /\ Len(left) = i - 1 /\ \A j \in 1..(i - 1) : left[j] = lru[j]
  BY <1>1
<1>3. right \in Seq(Address) /\ Len(right) = n - i /\ \A j \in 1..(n - i) : right[j] = lru[j + i]
  BY <1>1, RightShape, Zenon
<1> HIDE DEF left, right
<1> DEFINE front == <<a>> \o left
<1>4. /\ front \in Seq(Address) /\ Len(front) = i
      /\ front[1] = a /\ \A j \in 2..i : front[j] = left[j - 1]
  BY <1>1, <1>2
<1> HIDE DEF front
<1>5. /\ front \o right \in Seq(Address) /\ Len(front \o right) = n
      /\ \A j \in 1..i : (front \o right)[j] = front[j]
      /\ \A j \in (i + 1)..n : (front \o right)[j] = right[j - i]
  <2> HIDE DEF n
  <2>1. Len(front) + Len(right) = n
    BY <1>1, <1>3, <1>4 DEF n
  <2>2. /\ front \o right \in Seq(Address) /\ Len(front \o right) = Len(front) + Len(right)
        /\ \A j \in 1..Len(front) : (front \o right)[j] = front[j]
        /\ \A j \in (Len(front) + 1)..(Len(front) + Len(right)) :
              (front \o right)[j] = right[j - Len(front)]
    <3>1. front \in Seq(Address) /\ right \in Seq(Address)
      BY <1>3, <1>4
    <3> QED BY <3>1, ConcatShape, Zenon
  <2>3. Len(front) = i
    BY <1>4
  <2> HIDE DEF front, right
  <2> QED BY <2>1, <2>2, <2>3
<1>6. Fronted(a, i) = front \o right
  BY DEF Fronted, front, left, right
<1>7. ASSUME NEW j \in 2..n PROVE Fronted(a, i)[j] = IF j <= i THEN lru[j - 1] ELSE lru[j]
  <2>1. CASE j <= i
    <3>1. j \in 1..i /\ j \in 2..i /\ j - 1 \in 1..(i - 1)
      BY <2>1, <1>1
    <3> QED BY <3>1, <2>1, <1>2, <1>4, <1>5, <1>6
  <2>2. CASE j > i
    <3>1. j \in (i + 1)..n /\ j - i \in 1..(n - i) /\ (j - i) + i = j /\ ~(j <= i)
      BY <2>2, <1>1
    <3>2. Fronted(a, i)[j] = right[j - i]
      BY <3>1, <1>5, <1>6
    <3>3. right[j - i] = lru[j]
      BY <3>1, <1>3
    <3> QED BY <3>1, <3>2, <3>3
  <2> QED BY <2>1, <2>2, <1>1
<1>8. Fronted(a, i)[1] = a
  <2>1. 1 \in 1..i
    OBVIOUS
  <2> QED BY <2>1, <1>4, <1>5, <1>6
<1>9. Fronted(a, i) \in Seq(Address) /\ Len(Fronted(a, i)) = n
  BY <1>5, <1>6, Zenon
<1> QED BY <1>7, <1>8, <1>9, Zenon

\* The list with a newcomer in front.
LEMMA PushedShape ==
    ASSUME lru \in Seq(Address), NEW a \in Address
    PROVE  /\ <<a>> \o lru \in Seq(Address) /\ Len(<<a>> \o lru) = Len(lru) + 1
           /\ (<<a>> \o lru)[1] = a
           /\ \A j \in 2..(Len(lru) + 1) : (<<a>> \o lru)[j] = lru[j - 1]
<1> DEFINE s == <<a>>
<1>1. s \in Seq(Address) /\ Len(s) = 1 /\ s[1] = a /\ Len(lru) \in Nat
  OBVIOUS
<1> HIDE DEF s
<1>2. /\ s \o lru \in Seq(Address) /\ Len(s \o lru) = Len(s) + Len(lru)
      /\ \A j \in 1..Len(s) : (s \o lru)[j] = s[j]
      /\ \A j \in (Len(s) + 1)..(Len(s) + Len(lru)) : (s \o lru)[j] = lru[j - Len(s)]
  <2>1. s \in Seq(Address) /\ lru \in Seq(Address)
    BY <1>1
  <2> QED BY <2>1, ConcatShape, Zenon
<1>3. Len(s \o lru) = Len(lru) + 1 /\ (s \o lru)[1] = a
  BY <1>1, <1>2
<1>4. ASSUME NEW j \in 2..(Len(lru) + 1) PROVE (s \o lru)[j] = lru[j - 1]
  <2>1. j \in (1 + 1)..(1 + Len(lru))
    BY <1>1
  <2> QED BY <2>1, <1>1, <1>2
<1> QED BY <1>2, <1>3, <1>4 DEF s

\* If anybody is evictable, evictOne finds the last of them.
LEMMA VictimExists ==
    ASSUME lru \in Seq(Address), EvictablePlaces # {}
    PROVE  VictimPlace \in 1..Len(lru) /\ Evictable(lru[VictimPlace])
<1>1. Len(lru) \in Nat /\ DOMAIN lru = 1..Len(lru)
  OBVIOUS
<1>2. EvictablePlaces \subseteq 1..Len(lru)
  BY <1>1 DEF EvictablePlaces
<1>3. VictimPlace \in EvictablePlaces
  BY <1>1, <1>2, GreatestElement DEF VictimPlace
<1> QED BY <1>2, <1>3 DEF EvictablePlaces

\* What has become of the list and of the map: whoever was at place i is gone, unless it
\* was a, and a is in front.
Moved(a, points, count, i) ==
    /\ lru' \in Seq(Address) /\ Len(lru') = (IF i > Len(lru) THEN i ELSE Len(lru))
    /\ Len(lru') <= maxSize /\ maxSize' = maxSize
    /\ lru'[1] = a
    /\ \A j \in 2..Len(lru') : lru'[j] = IF j <= i THEN lru[j - 1] ELSE lru[j]
    /\ i <= Len(lru) => lru[i] = a \/ (a \notin Known /\ Evictable(lru[i]))
    /\ i > Len(lru) => a \notin Known
    /\ Known' = {lru[j] : j \in (1..Len(lru)) \ {i}} \cup {a}
    /\ profiles' = [b \in Known' |-> IF b = a THEN Touched(a, points, count) ELSE profiles[b]]

\* Each branch of GetOrCreate gives up one place of the list, or the one after its end.
LEMMA AdmitShape ==
    ASSUME CacheInv, lru \in Seq(Address), maxSize \in Nat, NEW a \in Address,
           NEW points, NEW count, Admit(a, points, count)
    PROVE  \E i \in 1..(Len(lru) + 1) : Moved(a, points, count, i)
<1>1. Len(lru) \in Nat /\ DOMAIN lru = 1..Len(lru) /\ maxSize' = maxSize
      /\ Known = {lru[j] : j \in 1..Len(lru)} /\ Len(lru) <= maxSize
  BY DEF Admit, CacheInv
<1>2. \A kept : profiles' = Updated(kept, a, points, count) =>
         /\ Known' = kept \cup {a}
         /\ profiles' = [b \in Known' |-> IF b = a THEN Touched(a, points, count) ELSE profiles[b]]
  BY DEF Updated, Known
<1>3. CASE a \in Known
  <2>1. PICK i \in 1..Len(lru) : lru[i] = a /\ lru' = Fronted(a, i)
    BY <1>1, <1>3 DEF Admit
  <2>2. {lru[j] : j \in (1..Len(lru)) \ {i}} \cup {a} = Known
    BY <1>1, <2>1
  <2>3. Known' = Known /\ profiles' = Updated(Known, a, points, count)
    BY <1>2, <1>3 DEF Admit
  <2>4. /\ lru' \in Seq(Address) /\ Len(lru') = Len(lru) /\ lru'[1] = a
        /\ \A j \in 2..Len(lru) : lru'[j] = IF j <= i THEN lru[j - 1] ELSE lru[j]
    BY <2>1, FrontedShape
  <2>5. ~(i > Len(lru)) /\ i <= Len(lru)
    BY <1>1
  <2>6. Moved(a, points, count, i)
    BY <1>1, <1>2, <2>1, <2>2, <2>3, <2>4, <2>5 DEF Moved
  <2> QED BY <2>6, <1>1
<1>4. CASE a \notin Known /\ Len(lru) < maxSize
  <2> DEFINE i == Len(lru) + 1
  <2>1. lru' = <<a>> \o lru /\ profiles' = Updated(Known, a, points, count)
    BY <1>1, <1>4 DEF Admit
  <2>2. {lru[j] : j \in (1..Len(lru)) \ {i}} = Known
    BY <1>1
  <2>3. i > Len(lru) /\ i \in 1..(Len(lru) + 1) /\ i <= maxSize
    BY <1>1, <1>4
  <2>4. Moved(a, points, count, i)
    BY <1>1, <1>2, <1>4, <2>1, <2>2, <2>3, PushedShape DEF Moved
  <2> QED BY <2>3, <2>4
<1>5. CASE a \notin Known /\ Len(lru) >= maxSize
  <2> DEFINE i == VictimPlace
  <2>1. /\ EvictablePlaces # {} /\ lru' = Fronted(a, i)
        /\ profiles' = Updated(Known \ {Victim}, a, points, count)
    BY <1>1, <1>5 DEF Admit
  <2>2. i \in 1..Len(lru) /\ Evictable(lru[i]) /\ Victim = lru[i]
    BY <2>1, VictimExists DEF Victim
  <2>3. {lru[j] : j \in (1..Len(lru)) \ {i}} = Known \ {Victim}
    BY <1>1, <2>2 DEF CacheInv
  <2> HIDE DEF i
  <2>4. /\ lru' \in Seq(Address) /\ Len(lru') = Len(lru) /\ lru'[1] = a
        /\ \A j \in 2..Len(lru) : lru'[j] = IF j <= i THEN lru[j - 1] ELSE lru[j]
    BY <2>1, <2>2, FrontedShape
  <2>5. ~(i > Len(lru)) /\ i <= Len(lru)
    BY <1>1, <2>2
  <2>6. Known' = (Known \ {Victim}) \cup {a}
    BY <1>2, <2>1
  <2>7. Moved(a, points, count, i)
    BY <1>1, <1>2, <1>5, <2>1, <2>2, <2>3, <2>4, <2>5, <2>6 DEF Moved
  <2> QED BY <2>2, <2>7, <1>1
<1> QED BY <1>1, <1>3, <1>4, <1>5

\* Where what is at place j of the new list was before.
LEMMA MovedPlaces ==
    ASSUME CacheInv, lru \in Seq(Address), NEW a \in Address, NEW points, NEW count,
           NEW i \in 1..(Len(lru) + 1), Moved(a, points, count, i)
    PROVE  /\ Len(lru) \in Nat /\ Len(lru') \in Nat \ {0} /\ DOMAIN lru = 1..Len(lru)
           /\ DOMAIN lru' = 1..Len(lru') /\ lru'[1] = a
           /\ \E K \in [2..Len(lru') -> (1..Len(lru)) \ {i}] :
                 /\ \A j \in 2..Len(lru') : /\ lru'[j] = lru[K[j]] /\ lru'[j] # a
                                            /\ lru'[j] \in Known /\ lru'[j] \in Known'
                 /\ \A j, k \in 2..Len(lru') : j < k => K[j] < K[k]
                 /\ \A k \in (1..Len(lru)) \ {i} : \E j \in 2..Len(lru') : K[j] = k
<1> DEFINE n == Len(lru)
           m == Len(lru')
           K == [j \in 2..m |-> IF j <= i THEN j - 1 ELSE j]
<1>1. n \in Nat /\ DOMAIN lru = 1..n /\ Known = {lru[j] : j \in 1..n}
  BY DEF CacheInv
<1>2. /\ m = (IF i > n THEN i ELSE n) /\ lru' \in Seq(Address)
      /\ lru'[1] = a /\ \A j \in 2..m : lru'[j] = IF j <= i THEN lru[j - 1] ELSE lru[j]
      /\ Known' = {lru[j] : j \in (1..n) \ {i}} \cup {a}
      /\ i <= n => lru[i] = a \/ a \notin Known
      /\ i > n => a \notin Known
  BY DEF Moved
<1>3. m \in Nat \ {0} /\ DOMAIN lru' = 1..m
  BY <1>1, <1>2
<1>4. (i <= n /\ m = n) \/ (i = n + 1 /\ m = n + 1)
  <2>1. i \in Int /\ n \in Int /\ i <= n + 1
    BY <1>1
  <2>2. CASE i > n
    BY <2>1, <2>2, <1>2
  <2>3. CASE ~(i > n)
    BY <2>1, <2>3, <1>2
  <2> QED BY <2>2, <2>3
<1>5. ASSUME NEW j \in 2..m PROVE K[j] \in (1..n) \ {i} /\ lru'[j] = lru[K[j]]
  <2>1. K[j] = IF j <= i THEN j - 1 ELSE j
    OBVIOUS
  <2>2. lru'[j] = IF j <= i THEN lru[j - 1] ELSE lru[j]
    BY <1>2
  <2>3. i \in Int /\ n \in Int /\ m \in Int /\ j \in Int /\ 2 <= j /\ j <= m /\ 1 <= i
    BY <1>1, <1>3
  <2> HIDE DEF K, n, m
  <2>4. CASE j <= i
    BY <2>1, <2>2, <2>3, <2>4, <1>4
  <2>5. CASE j > i
    BY <2>1, <2>2, <2>3, <2>5, <1>4
  <2> QED BY <2>3, <2>4, <2>5
<1>6. ASSUME NEW k \in (1..n) \ {i} PROVE lru[k] # a /\ lru[k] \in Known /\ lru[k] \in Known'
  <2>1. lru[k] \in Known /\ lru[k] \in Known'
    BY <1>1, <1>2
  <2>2. CASE i <= n /\ lru[i] = a
    <3>1. i \in DOMAIN lru /\ k \in DOMAIN lru /\ k # i
      BY <1>1, <2>2
    <3>2. lru[k] # lru[i]
      BY <3>1 DEF CacheInv
    <3> QED BY <2>1, <2>2, <3>2
  <2>3. CASE a \notin Known
    BY <2>1, <2>3
  <2>4. i <= n \/ i > n
    BY <1>1, <1>4
  <2>5. a \notin Known \/ (i <= n /\ lru[i] = a)
    BY <1>2, <2>4
  <2> QED BY <2>2, <2>3, <2>5
<1>7. K \in [2..m -> (1..n) \ {i}]
  BY <1>5
<1>8. \A j, k \in 2..m : j < k => K[j] < K[k]
  BY <1>1, <1>3
<1>9. ASSUME NEW k \in (1..n) \ {i} PROVE \E j \in 2..m : K[j] = k
  <2>1. CASE k < i
    <3>1. k + 1 \in 2..m /\ k + 1 <= i /\ (k + 1) - 1 = k
      BY <1>1, <1>4, <2>1
    <3> QED BY <3>1
  <2>2. CASE k > i
    <3>1. k \in 2..m /\ ~(k <= i)
      BY <1>1, <1>4, <2>2
    <3> QED BY <3>1
  <2> QED BY <1>1, <2>1, <2>2
<1>10. \A j \in 2..m : lru'[j] # a /\ lru'[j] \in Known /\ lru'[j] \in Known'
  <2> HIDE DEF K
  <2> QED BY <1>5, <1>6
<1>11. lru'[1] = a
  BY <1>2
<1> HIDE DEF K
<1>12. \A j \in 2..m : lru'[j] = lru[K[j]]
  BY <1>5
<1>13. \A k \in (1..n) \ {i} : \E j \in 2..m : K[j] = k
  BY <1>9
<1>14. K \in [2..m -> (1..n) \ {i}]
  BY <1>7
<1>15. \A j \in 2..m : /\ lru'[j] = lru[K[j]] /\ lru'[j] # a
                        /\ lru'[j] \in Known /\ lru'[j] \in Known'
  BY <1>10, <1>12, Zenon
<1>16. \E P \in [2..m -> (1..n) \ {i}] :
         /\ \A j \in 2..m : /\ lru'[j] = lru[P[j]] /\ lru'[j] # a
                            /\ lru'[j] \in Known /\ lru'[j] \in Known'
         /\ \A j, k \in 2..m : j < k => P[j] < P[k]
         /\ \A k \in (1..n) \ {i} : \E j \in 2..m : P[j] = k
  BY <1>8, <1>13, <1>14, <1>15, Zenon
<1> QED BY <1>1, <1>3, <1>11, <1>16, Zenon

\* What the caller of GetOrCreate makes of the profile it gets.
LEMMA TouchedShape ==
    ASSUME ProfilerTypeOK, NEW a, NEW points \in Nat, NEW count \in Nat
    PROVE  /\ Touched(a, points, count) \in Profile /\ Touched(a, points, count).age = 0
           /\ Touched(a, points, count).drops
                  = count + IF a \in Known THEN profiles[a].drops ELSE 0
           /\ Touched(a, points, count).score
                  = points + IF a \in Known THEN profiles[a].score ELSE 0
<1>1. CASE a \in Known
  BY <1>1, ProfilerAssumption DEF ProfilerTypeOK, Touched, Profile
<1>2. CASE a \notin Known
  BY <1>2, ProfilerAssumption DEF Touched, Profile, NewProfile
<1> QED BY <1>1, <1>2

\* GetOrCreate keeps list and map one cache, in order.
LEMMA AdmitKeepsCache ==
    ASSUME ProfilerTypeOK, CacheInv, NEW a \in Address, NEW points \in Nat, NEW count \in Nat,
           Admit(a, points, count)
    PROVE  ProfilerTypeOK' /\ CacheInv'
<1>1. lru \in Seq(Address) /\ maxSize \in Nat \ {0} /\ maxSize \in Nat
      /\ Known \subseteq Address /\ profiles \in [Known -> Profile]
  BY DEF ProfilerTypeOK
<1>2. PICK i \in 1..(Len(lru) + 1) : Moved(a, points, count, i)
  BY <1>1, AdmitShape
<1> DEFINE m == Len(lru')
<1>3. m \in Nat \ {0} /\ DOMAIN lru' = 1..m /\ lru'[1] = a /\ Len(lru) \in Nat
      /\ DOMAIN lru = 1..Len(lru)
  BY <1>1, <1>2, MovedPlaces
<1>4. PICK K \in [2..m -> (1..Len(lru)) \ {i}] :
         /\ \A j \in 2..m : /\ lru'[j] = lru[K[j]] /\ lru'[j] # a
                            /\ lru'[j] \in Known /\ lru'[j] \in Known'
         /\ \A j, k \in 2..m : j < k => K[j] < K[k]
         /\ \A k \in (1..Len(lru)) \ {i} : \E j \in 2..m : K[j] = k
  BY <1>1, <1>2, MovedPlaces
<1>5. /\ lru' \in Seq(Address) /\ m <= maxSize' /\ maxSize' = maxSize
      /\ Known' = {lru[j] : j \in (1..Len(lru)) \ {i}} \cup {a}
      /\ profiles' = [b \in Known' |-> IF b = a THEN Touched(a, points, count) ELSE profiles[b]]
  BY <1>2 DEF Moved
<1>6. \A j \in 1..Len(lru) : lru[j] \in Known /\ lru[j] \in Address
  BY <1>3, <1>1 DEF CacheInv
<1>7. Known' \subseteq Address
  BY <1>5, <1>6
<1>8. ASSUME NEW b \in Known' PROVE profiles'[b] \in Profile
  <2>1. CASE b = a
    BY <2>1, <1>5, TouchedShape
  <2>2. CASE b # a
    BY <2>2, <1>1, <1>5, <1>6
  <2> QED BY <2>1, <2>2
<1>9. profiles' \in [Known' -> Profile]
  BY <1>5, <1>8
<1>10. ProfilerTypeOK'
  BY <1>1, <1>5, <1>7, <1>9 DEF ProfilerTypeOK
<1>11. Known' = {lru'[j] : j \in DOMAIN lru'}
  <2>1. ASSUME NEW b \in Known' PROVE \E j \in DOMAIN lru' : b = lru'[j]
    <3>1. CASE b = a
      <4>1. 1 \in DOMAIN lru'
        BY <1>3
      <4> QED BY <3>1, <4>1, <1>3
    <3>2. CASE b # a
      <4>1. PICK k \in (1..Len(lru)) \ {i} : b = lru[k]
        BY <3>2, <1>5
      <4>2. PICK j \in 2..m : K[j] = k
        BY <1>4
      <4>3. lru'[j] = lru[K[j]]
        BY <1>4
      <4>4. j \in DOMAIN lru'
        BY <1>3
      <4> QED BY <4>1, <4>2, <4>3, <4>4
    <3> QED BY <3>1, <3>2
  <2>2. ASSUME NEW j \in DOMAIN lru' PROVE lru'[j] \in Known'
    <3>1. CASE j = 1
      BY <3>1, <1>3, <1>5
    <3>2. CASE j \in 2..m
      BY <3>2, <1>4
    <3> QED BY <3>1, <3>2, <1>3
  <2> QED BY <2>1, <2>2
<1>12. ASSUME NEW j \in DOMAIN lru', NEW k \in DOMAIN lru', j < k
       PROVE  /\ lru'[j] # lru'[k]
              /\ profiles'[lru'[j]].age <= profiles'[lru'[k]].age
  <2>1. k \in 2..m /\ lru'[k] # a /\ lru'[k] \in Known' /\ profiles'[lru'[k]] = profiles[lru[K[k]]]
        /\ lru'[k] = lru[K[k]] /\ K[k] \in DOMAIN lru
    <3>1. k \in 2..m
      BY <1>3, <1>12
    <3>2. lru'[k] # a /\ lru'[k] \in Known' /\ lru'[k] = lru[K[k]] /\ K[k] \in DOMAIN lru
      BY <3>1, <1>3, <1>4
    <3>3. profiles'[lru'[k]] = profiles[lru'[k]]
      BY <3>2, <1>5
    <3> QED BY <3>1, <3>2, <3>3
  <2>2. CASE j = 1
    <3>1. profiles'[lru'[j]].age = 0
      <4>1. lru'[j] = a /\ a \in Known'
        BY <2>2, <1>3, <1>5
      <4>2. profiles'[a] = Touched(a, points, count)
        BY <4>1, <1>5
      <4>3. Touched(a, points, count).age = 0
        BY TouchedShape
      <4> QED BY <4>1, <4>2, <4>3
    <3>2. profiles'[lru'[k]].age \in 0..HighDays
      BY <2>1, <1>8 DEF Profile
    <3> QED BY <2>1, <2>2, <3>1, <3>2, <1>3, ProfilerAssumption
  <2>3. CASE j \in 2..m
    <3>1. lru'[j] # a /\ lru'[j] \in Known' /\ profiles'[lru'[j]] = profiles[lru[K[j]]]
          /\ lru'[j] = lru[K[j]] /\ K[j] \in DOMAIN lru
      BY <2>3, <1>3, <1>4, <1>5
    <3>2. K[j] < K[k]
      BY <2>1, <2>3, <1>4, <1>12
    <3>3. K[j] # K[k]
      <4>1. K[j] \in 1..Len(lru) /\ K[k] \in 1..Len(lru)
        BY <2>1, <3>1, <1>3
      <4> QED BY <3>2, <4>1, <1>3
    <3> QED BY <2>1, <3>1, <3>2, <3>3 DEF CacheInv
  <2> QED BY <2>2, <2>3, <1>3
<1>13. ASSUME NEW j \in DOMAIN lru', NEW k \in DOMAIN lru', lru'[j] = lru'[k] PROVE j = k
  BY <1>3, <1>12, <1>13
<1> QED BY <1>5, <1>10, <1>11, <1>12, <1>13 DEF CacheInv

\* A day changes no profile but for its age.
LEMMA AgeShape ==
    ASSUME ProfilerTypeOK, Age
    PROVE  /\ Known' = Known /\ UNCHANGED <<lru, maxSize>>
           /\ \A a \in Known :
                 /\ profiles'[a].score = profiles[a].score
                 /\ profiles'[a].drops = profiles[a].drops
                 /\ profiles'[a].age = IF profiles[a].age < HighDays
                                       THEN profiles[a].age + 1 ELSE profiles[a].age
           /\ profiles' \in [Known -> Profile]
<1>1. Known' = Known /\ UNCHANGED <<lru, maxSize>>
  BY DEF Age, Known
<1>2. ASSUME NEW a \in Known
      PROVE  /\ profiles[a] \in Profile
             /\ profiles'[a] = [profiles[a] EXCEPT !.age = IF @ < HighDays THEN @ + 1 ELSE @]
  BY DEF Age, ProfilerTypeOK
<1>4. ASSUME NEW a \in Known
      PROVE  /\ profiles'[a].score = profiles[a].score
             /\ profiles'[a].drops = profiles[a].drops
             /\ profiles'[a].age = IF profiles[a].age < HighDays
                                   THEN profiles[a].age + 1 ELSE profiles[a].age
             /\ profiles'[a] \in Profile
  <2> DEFINE q == [profiles[a] EXCEPT !.age = IF @ < HighDays THEN @ + 1 ELSE @]
  <2>1. profiles'[a] = q
    BY <1>2
  <2>2. /\ q \in Profile /\ q.score = profiles[a].score /\ q.drops = profiles[a].drops
        /\ q.age = IF profiles[a].age < HighDays
                   THEN profiles[a].age + 1 ELSE profiles[a].age
    BY <1>2, ProfilerAssumption DEF Profile
  <2> HIDE DEF q
  <2> QED BY <2>1, <2>2
<1>5. profiles' = [a \in Known |-> profiles'[a]]
  BY DEF Age
<1>6. profiles' \in [Known -> Profile]
  BY <1>4, <1>5
<1> QED BY <1>1, <1>4, <1>6

\* A day keeps list and map one cache: the older stays the older.
LEMMA AgeKeepsCache ==
    ASSUME ProfilerTypeOK, CacheInv, Age
    PROVE  ProfilerTypeOK' /\ CacheInv'
<1>1. ProfilerTypeOK'
  BY AgeShape DEF ProfilerTypeOK
<1>2. ASSUME NEW i \in DOMAIN lru, NEW j \in DOMAIN lru, i < j
      PROVE  profiles'[lru[i]].age <= profiles'[lru[j]].age
  <2>1. lru[i] \in Known /\ lru[j] \in Known /\ profiles[lru[i]].age <= profiles[lru[j]].age
    BY <1>2 DEF CacheInv
  <2>2. profiles[lru[i]].age \in 0..HighDays /\ profiles[lru[j]].age \in 0..HighDays
    BY <2>1 DEF ProfilerTypeOK, Profile
  <2> QED BY <2>1, <2>2, AgeShape, ProfilerAssumption
<1> QED BY <1>1, <1>2, AgeShape DEF CacheInv

\* A list without repetitions is as long as what it lists.
LEMMA CacheIsCounted ==
    ASSUME ProfilerTypeOK, CacheInv
    PROVE  LruMatchesProfiles
<1>1. Len(lru) \in Nat /\ DOMAIN lru = 1..Len(lru) /\ lru \in [1..Len(lru) -> Address]
  BY DEF ProfilerTypeOK
<1>2. lru \in Bijection(1..Len(lru), Known)
  BY <1>1 DEF CacheInv, Bijection, Injection, Surjection, IsInjective
<1>3. Cardinality(Known) = Len(lru)
  BY <1>1, <1>2, FS_CountingElements DEF ExistsBijection
<1> QED BY <1>3 DEF CacheInv, LruMatchesProfiles

\* Only the correlator, and time, touch the cache.
LEMMA CacheSteps ==
    ASSUME [Next]_vars
    PROVE  \/ pc = "profile" /\ Admit(cur.ip, Points(cur), cur.count)
           \/ Age \/ UNCHANGED profilerVars
BY DEF Next, vars, profilerVars, Violation, Observe, Drop, Forget, Visit, Cancel, Take,
       BeginPoll, EndPoll, Emit, ProfileEvent, SendAlert, CorrelatorExits, DaemonReads,
       DaemonGoes, DaemonComes, Day, Sigterm, StopReturns

\* So does every step.
LEMMA CacheIsKept ==
    ASSUME ProfilerTypeOK, CacheInv, cur \in Event, [Next]_vars
    PROVE  ProfilerTypeOK' /\ CacheInv'
<1>1. CASE Admit(cur.ip, Points(cur), cur.count)
  <2>1. cur.ip \in Address /\ cur.count \in Nat /\ Points(cur) \in Nat
    BY DEF Event, Points
  <2> QED BY <1>1, <2>1, AdmitKeepsCache
<1>2. CASE Age
  BY <1>2, AgeKeepsCache
<1>3. CASE UNCHANGED profilerVars
  BY <1>3 DEF profilerVars, ProfilerTypeOK, CacheInv, Known
<1> QED BY <1>1, <1>2, <1>3, CacheSteps

\* Whoever is pushed out is evictable.
LEMMA StepRetains ==
    ASSUME ProfilerTypeOK, CacheInv, cur \in Event, [Next]_vars,
           NEW a \in Known, profiles[a].score >= 60, profiles[a].age < HighDays
    PROVE  a \in Known' /\ profiles'[a].score >= profiles[a].score
<1>0. profiles[a].score \in Nat /\ profiles[a].age \in 0..HighDays
  BY DEF ProfilerTypeOK, Profile
<1>1. CASE Admit(cur.ip, Points(cur), cur.count)
  <2>1. cur.ip \in Address /\ cur.count \in Nat /\ Points(cur) \in Nat
    BY DEF Event, Points
  <2>2. PICK i \in 1..(Len(lru) + 1) : Moved(cur.ip, Points(cur), cur.count, i)
    BY <1>1, <2>1, AdmitShape DEF ProfilerTypeOK
  <2>3. /\ Known' = {lru[j] : j \in (1..Len(lru)) \ {i}} \cup {cur.ip}
        /\ profiles' = [b \in Known' |-> IF b = cur.ip THEN Touched(cur.ip, Points(cur), cur.count)
                                                      ELSE profiles[b]]
        /\ i <= Len(lru) => lru[i] = cur.ip \/ Evictable(lru[i])
    BY <2>2 DEF Moved
  <2>4. ~Evictable(a)
    BY <1>0, ProfilerAssumption DEF Evictable
  <2>5. PICK j \in 1..Len(lru) : lru[j] = a
    BY DEF CacheInv, ProfilerTypeOK
  <2>6. a \in Known'
    <3>1. CASE a = cur.ip
      BY <3>1, <2>3
    <3>2. CASE a # cur.ip
      <4>1. i <= Len(lru) => lru[i] # a
        BY <3>2, <2>3, <2>4
      <4>2. j # i
        BY <4>1, <2>5
      <4> QED BY <4>2, <2>3, <2>5
    <3> QED BY <3>1, <3>2
  <2>7. CASE a = cur.ip
    <3>1. profiles'[a] = Touched(a, Points(cur), cur.count)
      BY <2>3, <2>6, <2>7
    <3>2. Touched(a, Points(cur), cur.count).score = Points(cur) + profiles[a].score
      BY <2>1, TouchedShape
    <3> QED BY <3>1, <3>2, <1>0, <2>1, <2>6
  <2>8. CASE a # cur.ip
    <3>1. profiles'[a] = profiles[a]
      BY <2>3, <2>6, <2>8
    <3> QED BY <3>1, <1>0, <2>6
  <2> QED BY <2>6, <2>7, <2>8
<1>2. CASE Age
  <2>1. Known' = Known /\ profiles'[a].score = profiles[a].score
    BY <1>2, AgeShape
  <2> QED BY <2>1, <1>0
<1>3. CASE UNCHANGED profilerVars
  BY <1>0, <1>3 DEF profilerVars, Known
<1> QED BY <1>1, <1>2, <1>3, CacheSteps

-----------------------------------------------------------------------------
(* Types.                                                                  *)

\* What is in the events that the feeds make.
LEMMA EventShape ==
    ASSUME NEW a \in Address, NEW n \in Nat
    PROVE  /\ NoEvent \in Event /\ NoEvent.id = 0 /\ NoEvent.count = 0 /\ NoEvent.ip = NoIP
           /\ Sample(a) \in Event /\ Sample(a).id = 0 /\ Sample(a).count = 0
           /\ DropReport(a, n) \in Event /\ DropReport(a, n).id = 0
           /\ DropReport(a, n).ip = a /\ DropReport(a, n).count = n
           /\ AuditRecord(a, n) \in Event /\ AuditRecord(a, n).id = n
           /\ AuditRecord(a, n).count = 0
BY AgentBetaAssumption DEF Event, NoEvent, Sample, DropReport, AuditRecord

\* What Append makes of a sequence.
LEMMA AppendShape ==
    ASSUME NEW S, NEW s \in Seq(S), NEW e \in S
    PROVE  /\ Append(s, e) \in Seq(S) /\ Len(Append(s, e)) = Len(s) + 1 /\ Len(s) \in Nat
           /\ DOMAIN s = 1..Len(s) /\ DOMAIN Append(s, e) = 1..(Len(s) + 1)
           /\ \A i \in 1..Len(s) : Append(s, e)[i] = s[i]
           /\ Append(s, e)[Len(s) + 1] = e
OBVIOUS

\* What Head and Tail make of a sequence.
LEMMA TailShape ==
    ASSUME NEW S, NEW s \in Seq(S), s # <<>>
    PROVE  /\ Tail(s) \in Seq(S) /\ Len(s) \in Nat \ {0} /\ Len(Tail(s)) = Len(s) - 1
           /\ DOMAIN s = 1..Len(s) /\ DOMAIN Tail(s) = 1..(Len(s) - 1)
           /\ \A i \in 1..(Len(s) - 1) : Tail(s)[i] = s[i + 1]
           /\ Head(s) = s[1] /\ Head(s) \in S
OBVIOUS

\* The type invariant in four parts, for what changes them is different.
TypedChannels ==
    chan \in [Layer -> Seq(Event)] /\ \A l \in Layer : Len(chan[l]) <= Capacity[l]

\* An offered event is the last of its channel, or dropped.
LEMMA OfferShape ==
    ASSUME TypedChannels, NEW l \in Layer, NEW e \in Event, Offer(l, e)
    PROVE  /\ TypedChannels'
           /\ \A k \in Layer \ {l} : chan'[k] = chan[k]
           /\ chan'[l] = chan[l] \/ chan'[l] = Append(chan[l], e)
<1>1. chan[l] \in Seq(Event) /\ Len(chan[l]) \in Nat /\ Capacity[l] \in Nat
  BY AgentBetaAssumption DEF TypedChannels
<1>2. CASE Len(chan[l]) < Capacity[l]
  <2>1. chan' = [chan EXCEPT ![l] = Append(chan[l], e)]
    BY <1>2 DEF Offer
  <2>2. Append(chan[l], e) \in Seq(Event) /\ Len(Append(chan[l], e)) <= Capacity[l]
    BY <1>1, <1>2, AppendShape
  <2>3. /\ chan'[l] = Append(chan[l], e) /\ \A k \in Layer \ {l} : chan'[k] = chan[k]
        /\ chan' \in [Layer -> Seq(Event)]
    BY <2>1, <2>2 DEF TypedChannels
  <2> QED BY <2>2, <2>3 DEF TypedChannels
<1>3. CASE ~(Len(chan[l]) < Capacity[l])
  BY <1>3 DEF Offer, TypedChannels
<1> QED BY <1>2, <1>3

\* The event taken from a channel was its first.
LEMMA TakeShape ==
    ASSUME TypedChannels, NEW l \in Layer, chan[l] # <<>>, chan' = [chan EXCEPT ![l] = Tail(@)]
    PROVE  /\ TypedChannels'
           /\ \A k \in Layer \ {l} : chan'[k] = chan[k]
           /\ chan'[l] = Tail(chan[l])
           /\ chan[l] \in Seq(Event) /\ Head(chan[l]) \in Event
<1>1. chan[l] \in Seq(Event) /\ Capacity[l] \in Nat /\ Len(chan[l]) <= Capacity[l]
  BY AgentBetaAssumption DEF TypedChannels
<1>2. Tail(chan[l]) \in Seq(Event) /\ Len(Tail(chan[l])) <= Capacity[l] /\ Head(chan[l]) \in Event
  BY <1>1, TailShape
<1>3. /\ chan'[l] = Tail(chan[l]) /\ \A k \in Layer \ {l} : chan'[k] = chan[k]
      /\ chan' \in [Layer -> Seq(Event)]
  BY <1>2 DEF TypedChannels
<1> QED BY <1>1, <1>2, <1>3 DEF TypedChannels

TypedHands ==
    /\ ctx \in {"running", "stopping", "stopped"}
    /\ reader \in [Layer -> {"off", "reading", "deaf", "exited"}]
    /\ pc \in {"select", "profile", "alert", "exited"} /\ cur \in Event

TypedSocket ==
    /\ conn \in {"none", "open", "dead"} /\ listening \in BOOLEAN
    /\ socket \in Seq(Nat) /\ seen \in Nat /\ latest \in Nat
    /\ restarts \in Nat /\ missed \in Nat

TypedPoll ==
    /\ poll \in {"idle", "iterating", "emitting"}
    /\ inMap \in [Shunned -> Nat] /\ prev \in [Shunned -> Nat]
    /\ drops \in [Shunned -> Nat] /\ dropped \in [Shunned -> Nat]

Typed == TypedChannels /\ TypedHands /\ TypedSocket /\ TypedPoll

\* Who is reported has an address in the model.
LEMMA TalkersAre == Shunned \subseteq Address /\ \A l \in Layer : Talkers[l] \subseteq Address
BY AgentBetaAssumption DEF Shunned, Layer

\* In the initial states everything has its type, and the cache is empty.
LEMMA InitTyped == Init => Typed /\ ProfilerTypeOK /\ CacheInv
<1> SUFFICES ASSUME Init PROVE Typed /\ ProfilerTypeOK /\ CacheInv
  OBVIOUS
<1>1. PICK host \in Hosts :
          /\ NewProfiler(host.size)
          /\ reader = [l \in Layer |-> IF l \in host.feeds THEN "reading" ELSE "off"]
  BY DEF Init
<1>2. host.size \in Nat \ {0}
  BY AgentBetaAssumption
<1>3. Known = {} /\ lru = <<>> /\ maxSize = host.size /\ profiles \in [Known -> Profile]
  BY <1>1 DEF NewProfiler, Known
<1>4. ProfilerTypeOK /\ CacheInv
  BY <1>2, <1>3 DEF ProfilerTypeOK, CacheInv
<1>5. TypedHands
  BY <1>1, EventShape, AgentBetaAssumption DEF TypedHands, Init
<1>6. TypedChannels
  <2>1. chan = [l \in Layer |-> <<>>] /\ \A l \in Layer : Capacity[l] \in Nat
    BY AgentBetaAssumption DEF Init
  <2> QED BY <2>1 DEF TypedChannels
<1>7. TypedSocket /\ TypedPoll
  BY DEF TypedSocket, TypedPoll, Init, Zero
<1> QED BY <1>4, <1>5, <1>6, <1>7 DEF Typed

\* Who touches the channels, and how.
LEMMA ChannelSteps ==
    ASSUME Typed, [Next]_vars
    PROVE  \/ \E l \in {1, 2}, a \in Address : Observe(l, a) /\ Offer(l, Sample(a))
           \/ \E a \in Address : Violation(a) /\ Offer(4, AuditRecord(a, seen + 1))
           \/ \E a \in Shunned : /\ drops[a] > 0 /\ Offer(3, DropReport(a, drops[a]))
                                 /\ drops' = [drops EXCEPT ![a] = 0] /\ Emit
           \/ \E l \in Layer : Take(l)
           \/ UNCHANGED chan
BY DEF Next, vars, profilerVars, alertVars, pollVars, Violation, Observe, Drop, Forget, Visit,
       Cancel, BeginPoll, EndPoll, Emit, ProfileEvent, SendAlert, CorrelatorExits,
       DaemonReads, DaemonGoes, DaemonComes, Day, Sigterm, StopReturns

\* No channel is ever over its capacity.
LEMMA ChannelsTyped == ASSUME Typed, [Next]_vars PROVE TypedChannels'
<1>1. ASSUME NEW l \in {1, 2}, NEW a \in Address, Offer(l, Sample(a)) PROVE TypedChannels'
  BY <1>1, EventShape, OfferShape DEF Typed, Layer
<1>2. ASSUME NEW a \in Address, Offer(4, AuditRecord(a, seen + 1)) PROVE TypedChannels'
  <2>1. seen + 1 \in Nat /\ 4 \in Layer
    BY DEF Typed, TypedSocket, Layer
  <2> QED BY <2>1, <1>2, EventShape, OfferShape DEF Typed
<1>3. ASSUME NEW a \in Shunned, Offer(3, DropReport(a, drops[a])) PROVE TypedChannels'
  <2>1. drops[a] \in Nat /\ 3 \in Layer
    BY DEF Typed, TypedPoll, Layer
  <2> QED BY <2>1, <1>3, EventShape, OfferShape, TalkersAre DEF Typed
<1>4. ASSUME NEW l \in Layer, Take(l) PROVE TypedChannels'
  BY <1>4, TakeShape DEF Typed, Take
<1>5. CASE UNCHANGED chan
  BY <1>5 DEF Typed, TypedChannels
<1> QED BY <1>1, <1>2, <1>3, <1>4, <1>5, ChannelSteps

\* What the goroutines hold keeps its type.
LEMMA HandsTyped == ASSUME Typed, [Next]_vars PROVE TypedHands'
<1>1. ASSUME NEW l \in Layer, Take(l) PROVE TypedHands'
  BY <1>1, TakeShape DEF Typed, Take, TypedHands, alertVars, pollVars, profilerVars
<1>2. CASE ProfileEvent \/ SendAlert \/ CorrelatorExits
  BY <1>2, EventShape, AgentBetaAssumption
     DEF Typed, TypedHands, ProfileEvent, SendAlert, Alerted, CorrelatorExits
<1>3. ASSUME NEW l \in Layer, NEW a \in Address, Observe(l, a) PROVE TypedHands'
  BY <1>3 DEF Typed, TypedHands, Observe, ReadAgain
<1>4. ASSUME NEW a \in Address, Violation(a) PROVE TypedHands'
  BY <1>4 DEF Typed, TypedHands, Violation, ReadAgain
<1>5. ASSUME NEW l \in Layer, Cancel(l) PROVE TypedHands'
  BY <1>5 DEF Typed, TypedHands, Cancel
<1>6. ASSUME NEW a \in Shunned, Drop(a) \/ Forget(a) \/ Visit(a) PROVE TypedHands'
  BY <1>6 DEF Typed, TypedHands, Drop, Forget, Visit
<1>7. CASE BeginPoll \/ EndPoll \/ Emit \/ Day \/ DaemonReads \/ DaemonGoes \/ DaemonComes
  BY <1>7 DEF Typed, TypedHands, BeginPoll, EndPoll, Emit, Day, DaemonReads, DaemonGoes,
              DaemonComes
<1>8. CASE Sigterm \/ StopReturns
  BY <1>8 DEF Typed, TypedHands, Sigterm, StopReturns
<1>9. CASE UNCHANGED vars
  BY <1>9 DEF Typed, TypedHands, vars
<1> QED BY <1>1, <1>2, <1>3, <1>4, <1>5, <1>6, <1>7, <1>8, <1>9 DEF Next

\* The socket's side keeps its type.
LEMMA SocketTyped == ASSUME Typed, [Next]_vars PROVE TypedSocket'
<1> USE DEF Typed, TypedSocket, alertVars
<1>1. CASE SendAlert
  <2>1. cur.id \in Nat
    BY DEF TypedHands, Event
  <2>2. Append(socket, cur.id) \in Seq(Nat)
    BY <2>1
  <2>3. UNCHANGED <<seen, listening, latest, restarts>> /\ Write
    BY <1>1 DEF SendAlert
  <2>4. CASE conn' = "open" /\ socket' = Append(socket, cur.id) /\ UNCHANGED missed
    BY <2>2, <2>3, <2>4
  <2>5. CASE UNCHANGED <<conn, socket, missed>>
    BY <2>3, <2>5
  <2>6. CASE conn' = "none" /\ UNCHANGED socket
             /\ missed' = IF listening THEN missed + 1 ELSE missed
    BY <2>3, <2>6
  <2> QED BY <2>3, <2>4, <2>5, <2>6 DEF Write
<1>2. CASE DaemonReads
  <2>1. Tail(socket) \in Seq(Nat) /\ Head(socket) \in Nat
    BY <1>2, TailShape DEF DaemonReads
  <2> QED BY <1>2, <2>1 DEF DaemonReads
<1>3. CASE DaemonGoes \/ DaemonComes \/ StopReturns
  <2>1. CASE DaemonGoes
    <3>1. <<>> \in Seq(Nat)
      OBVIOUS
    <3>2. conn' \in {"none", "open", "dead"} /\ listening' \in BOOLEAN
      BY <2>1 DEF DaemonGoes
    <3>3. socket' = <<>> /\ restarts' = restarts + 1 /\ UNCHANGED <<seen, latest, missed>>
      BY <2>1 DEF DaemonGoes
    <3> QED BY <3>1, <3>2, <3>3
  <2>2. CASE DaemonComes
    BY <2>2 DEF DaemonComes
  <2>3. CASE StopReturns
    BY <2>3 DEF StopReturns
  <2> QED BY <1>3, <2>1, <2>2, <2>3
<1>4. ASSUME NEW a \in Address, Violation(a) PROVE TypedSocket'
  BY <1>4 DEF Violation
<1>5. CASE UNCHANGED <<seen, alertVars>>
  BY <1>5
<1>6. \/ SendAlert \/ DaemonReads \/ DaemonGoes \/ DaemonComes \/ StopReturns
      \/ UNCHANGED <<seen, alertVars>> \/ \E a \in Address : Violation(a)
  BY DEF Next, vars, Observe, Drop, Forget, Visit, Cancel, Take, BeginPoll, EndPoll, Emit,
         ProfileEvent, CorrelatorExits, Day, Sigterm
<1> QED BY <1>1, <1>2, <1>3, <1>4, <1>5, <1>6

\* The poller's side keeps its type.
LEMMA PollTyped == ASSUME Typed, [Next]_vars PROVE TypedPoll'
<1> USE DEF Typed, TypedPoll, pollVars
<1>1. ASSUME NEW a \in Shunned, Drop(a) \/ Forget(a) PROVE TypedPoll'
  BY <1>1 DEF Drop, Forget
<1>2. ASSUME NEW a \in Shunned, Visit(a) PROVE TypedPoll'
  <2>1. inMap[a] \in Nat /\ prev[a] \in Nat
    OBVIOUS
  <2>2. inMap[a] > prev[a] => inMap[a] - prev[a] \in Nat
    BY <2>1
  <2> QED BY <1>2, <2>1, <2>2 DEF Visit
<1>3. CASE BeginPoll \/ EndPoll \/ Emit
  BY <1>3 DEF BeginPoll, EndPoll, Emit, Zero
<1>4. CASE UNCHANGED pollVars
  BY <1>4
<1>5. \/ \E a \in Shunned : Drop(a) \/ Forget(a) \/ Visit(a)
      \/ BeginPoll \/ EndPoll \/ Emit \/ UNCHANGED pollVars
  BY DEF Next, vars, Violation, Observe, Cancel, Take, ProfileEvent, SendAlert,
         CorrelatorExits, DaemonReads, DaemonGoes, DaemonComes, Day, Sigterm, StopReturns
<1> QED BY <1>1, <1>2, <1>3, <1>4, <1>5

\* Everything keeps its type, and the cache stays one.
LEMMA TypesAreKept ==
    ASSUME Typed, ProfilerTypeOK, CacheInv, [Next]_vars
    PROVE  Typed' /\ ProfilerTypeOK' /\ CacheInv'
<1>1. cur \in Event
  BY DEF Typed, TypedHands
<1> QED BY <1>1, ChannelsTyped, HandsTyped, SocketTyped, PollTyped, CacheIsKept DEF Typed

-----------------------------------------------------------------------------
(* Restarts of the daemon.                                                 *)

\* A dead connection is a restart whose alert is still to be lost.
RestartInv == missed + (IF conn = "dead" THEN 1 ELSE 0) <= restarts

\* Only a daemon that goes away leaves a dead connection, and a failed Write ends it.
LEMMA RestartsAreKept == ASSUME Typed, RestartInv, [Next]_vars PROVE RestartInv'
<1> USE DEF RestartInv, alertVars
<1>1. /\ conn \in {"none", "open", "dead"} /\ missed \in Nat /\ restarts \in Nat
  BY DEF Typed, TypedSocket
<1>2. CASE SendAlert
  <2>1. UNCHANGED restarts /\ Write
    BY <1>2 DEF SendAlert
  <2>2. CASE conn # "dead" /\ conn' = "open" /\ UNCHANGED missed
    BY <1>1, <2>1, <2>2
  <2>3. CASE UNCHANGED <<conn, missed>>
    BY <1>1, <2>1, <2>3
  <2>4. CASE conn = "dead" /\ conn' = "none" /\ missed' = IF listening THEN missed + 1 ELSE missed
    BY <1>1, <2>1, <2>4
  <2>5. CASE conn = "none" \/ conn = "open"
    BY <2>1, <2>2, <2>3, <2>5 DEF Write
  <2> QED BY <1>1, <2>1, <2>4, <2>5 DEF Write
<1>3. CASE DaemonGoes
  BY <1>1, <1>3 DEF DaemonGoes
<1>4. CASE StopReturns
  BY <1>1, <1>4 DEF StopReturns
<1>5. CASE UNCHANGED <<conn, missed, restarts>>
  BY <1>5
<1>6. SendAlert \/ DaemonGoes \/ StopReturns \/ UNCHANGED <<conn, missed, restarts>>
  BY DEF Next, vars, Violation, Observe, Drop, Forget, Visit, Cancel, Take, BeginPoll, EndPoll,
         Emit, ProfileEvent, CorrelatorExits, DaemonReads, DaemonComes, Day, Sigterm
<1> QED BY <1>2, <1>3, <1>4, <1>5, <1>6

-----------------------------------------------------------------------------
(* The violations on their way.                                            *)

\* The violations in the socket, in hand and in the channel come in the order of their
\* numbers, after the last one read and up to the last one seen.
Lined(s, e, q, low, high) ==
    /\ low <= high
    /\ \A i \in DOMAIN s : low < s[i] /\ s[i] <= high
    /\ e # 0 => low < e /\ e <= high
    /\ \A j \in DOMAIN q : low < q[j].id /\ q[j].id <= high
    /\ \A i, j \in DOMAIN s : i < j => s[i] < s[j]
    /\ \A i, j \in DOMAIN q : i < j => q[i].id < q[j].id
    /\ e # 0 => \A i \in DOMAIN s : s[i] < e
    /\ e # 0 => \A j \in DOMAIN q : e < q[j].id
    /\ \A i \in DOMAIN s, j \in DOMAIN q : s[i] < q[j].id

\* The places of a list with one element more.
LEMMA LastPlace == \A n \in Nat : \A i \in 1..(n + 1) : i \in 1..n \/ i = n + 1
OBVIOUS

\* The places of a list with its first element gone.
LEMMA NextPlace == \A n \in Nat \ {0} : \A i \in 1..(n - 1) : i + 1 \in 1..n /\ 1 < i + 1
OBVIOUS

\* A violation that has just been seen is the last of its line, or lost.
LEMMA SeenAtTheEnd ==
    ASSUME NEW s \in Seq(Nat), NEW e \in Nat, NEW q \in Seq(Event), NEW low \in Nat,
           NEW high \in Nat, Lined(s, e, q, low, high), NEW r \in Event, r.id = high + 1
    PROVE  Lined(s, e, q, low, high + 1) /\ Lined(s, e, Append(q, r), low, high + 1)
<1>1. /\ \A i \in DOMAIN s : s[i] \in Nat /\ s[i] <= high
      /\ e # 0 => e <= high
      /\ \A j \in DOMAIN q : q[j].id \in Nat /\ q[j].id <= high
  <2>1. \A i \in DOMAIN s : s[i] \in Nat
    OBVIOUS
  <2>2. \A j \in DOMAIN q : q[j] \in Event
    OBVIOUS
  <2>3. \A j \in DOMAIN q : q[j].id \in Nat
    BY <2>2 DEF Event
  <2> QED BY <2>1, <2>3 DEF Lined
<1>2. Lined(s, e, q, low, high + 1)
  BY <1>1 DEF Lined
<1> DEFINE p == Append(q, r)
<1>3. /\ Len(q) \in Nat /\ DOMAIN q = 1..Len(q) /\ DOMAIN p = 1..(Len(q) + 1)
      /\ \A j \in 1..Len(q) : p[j] = q[j]
      /\ p[Len(q) + 1] = r
  BY AppendShape
<1> HIDE DEF p
<1>4. \A j \in DOMAIN p : \/ j \in DOMAIN q /\ p[j] = q[j]
                          \/ j = Len(q) + 1 /\ p[j] = r
  BY <1>3, LastPlace
<1>5. /\ low < high + 1 /\ (e # 0 => e < high + 1) /\ \A i \in DOMAIN s : s[i] < high + 1
  BY <1>1 DEF Lined
<1>9. ASSUME NEW j \in DOMAIN p
      PROVE  /\ low < p[j].id /\ p[j].id <= high + 1
             /\ e # 0 => e < p[j].id
             /\ \A i \in DOMAIN s : s[i] < p[j].id
  <2>1. CASE j \in DOMAIN q /\ p[j] = q[j]
    <3>1. low < q[j].id /\ q[j].id \in Nat /\ q[j].id <= high
      BY <2>1, <1>1 DEF Lined
    <3>2. (e # 0 => e < q[j].id) /\ \A i \in DOMAIN s : s[i] < q[j].id
      BY <2>1 DEF Lined
    <3> QED BY <2>1, <3>1, <3>2
  <2>2. CASE j = Len(q) + 1 /\ p[j] = r
    BY <2>2, <1>5
  <2> QED BY <1>4, <2>1, <2>2
<1>6. \A i, j \in DOMAIN p : i < j => p[i].id < p[j].id
  <2> SUFFICES ASSUME NEW i \in DOMAIN p, NEW j \in DOMAIN p, i < j PROVE p[i].id < p[j].id
    OBVIOUS
  <2>1. i \in DOMAIN q
    BY <1>3
  <2>2. CASE j \in DOMAIN q
    BY <1>3, <2>1, <2>2 DEF Lined
  <2>3. CASE j = Len(q) + 1
    BY <1>1, <1>3, <2>1, <2>3
  <2> QED BY <1>4, <2>2, <2>3
<1>7. Lined(s, e, p, low, high + 1)
  BY <1>2, <1>6, <1>9 DEF Lined
<1> QED BY <1>2, <1>7 DEF p

\* What the correlator takes comes after what it has written.
LEMMA TakenNext ==
    ASSUME NEW s \in Seq(Nat), NEW q \in Seq(Event), q # <<>>, NEW low \in Nat,
           NEW high \in Nat, Lined(s, 0, q, low, high)
    PROVE  Lined(s, Head(q).id, Tail(q), low, high) /\ Lined(s, 0, Tail(q), low, high)
<1> DEFINE p == Tail(q)
<1>1. /\ Len(q) \in Nat \ {0} /\ DOMAIN q = 1..Len(q) /\ DOMAIN p = 1..(Len(q) - 1)
      /\ \A j \in 1..(Len(q) - 1) : p[j] = q[j + 1]
      /\ Head(q) = q[1]
  BY TailShape
<1> HIDE DEF p
<1>2. \A j \in DOMAIN p : j + 1 \in DOMAIN q /\ p[j] = q[j + 1] /\ 1 < j + 1
  BY <1>1, NextPlace
<1>3. 1 \in DOMAIN q
  BY <1>1
<1>4. \A i, j \in DOMAIN p : i < j => i + 1 < j + 1
  BY <1>1
<1>5. Lined(s, 0, p, low, high)
  BY <1>2, <1>4 DEF Lined
<1>6. Lined(s, q[1].id, p, low, high)
  BY <1>2, <1>3, <1>5 DEF Lined
<1> QED BY <1>1, <1>5, <1>6 DEF p

\* What it writes is the last in the socket.
LEMMA WrittenNext ==
    ASSUME NEW s \in Seq(Nat), NEW e \in Nat \ {0}, NEW q \in Seq(Event), NEW low \in Nat,
           NEW high \in Nat, Lined(s, e, q, low, high)
    PROVE  Lined(Append(s, e), 0, q, low, high)
<1> DEFINE t == Append(s, e)
<1>1. /\ Len(s) \in Nat /\ DOMAIN s = 1..Len(s) /\ DOMAIN t = 1..(Len(s) + 1)
      /\ \A i \in 1..Len(s) : t[i] = s[i]
      /\ t[Len(s) + 1] = e
  BY AppendShape
<1> HIDE DEF t
<1>2. \A i \in DOMAIN t : \/ i \in DOMAIN s /\ t[i] = s[i]
                          \/ i = Len(s) + 1 /\ t[i] = e
  BY <1>1, LastPlace
<1>3. \A i \in DOMAIN t : low < t[i] /\ t[i] <= high
  BY <1>2 DEF Lined
<1>4. \A i, j \in DOMAIN t : i < j => t[i] < t[j]
  <2> SUFFICES ASSUME NEW i \in DOMAIN t, NEW j \in DOMAIN t, i < j PROVE t[i] < t[j]
    OBVIOUS
  <2>1. i \in DOMAIN s
    BY <1>1
  <2>2. CASE j \in DOMAIN s
    BY <1>1, <2>1, <2>2 DEF Lined
  <2>3. CASE j = Len(s) + 1
    BY <1>1, <2>1, <2>3 DEF Lined
  <2> QED BY <1>2, <2>2, <2>3
<1>5. \A i \in DOMAIN t, j \in DOMAIN q : t[i] < q[j].id
  BY <1>2 DEF Lined
<1> QED BY <1>3, <1>4, <1>5 DEF Lined, t

\* What is lost leaves the others in order.
LEMMA LostAnywhere ==
    ASSUME NEW s \in Seq(Nat), NEW e \in Nat, NEW q \in Seq(Event), NEW low \in Nat,
           NEW high \in Nat, Lined(s, e, q, low, high)
    PROVE  Lined(s, 0, q, low, high) /\ Lined(<<>>, e, q, low, high)
<1>1. DOMAIN <<>> = {}
  OBVIOUS
<1> QED BY <1>1 DEF Lined

\* What the daemon reads is the first of the line.
LEMMA ReadFirst ==
    ASSUME NEW s \in Seq(Nat), s # <<>>, NEW e \in Nat, NEW q \in Seq(Event), NEW low \in Nat,
           NEW high \in Nat, Lined(s, e, q, low, high)
    PROVE  Lined(Tail(s), e, q, Head(s), high)
<1> DEFINE t == Tail(s)
<1>1. /\ Len(s) \in Nat \ {0} /\ DOMAIN s = 1..Len(s) /\ DOMAIN t = 1..(Len(s) - 1)
      /\ \A i \in 1..(Len(s) - 1) : t[i] = s[i + 1]
      /\ Head(s) = s[1]
  BY TailShape
<1> HIDE DEF t
<1>2. \A i \in DOMAIN t : i + 1 \in DOMAIN s /\ t[i] = s[i + 1] /\ 1 < i + 1
  BY <1>1, NextPlace
<1>3. 1 \in DOMAIN s
  BY <1>1
<1>4. \A i, j \in DOMAIN t : i < j => i + 1 < j + 1
  BY <1>1
<1>5. \A i \in DOMAIN t : s[1] < t[i] /\ t[i] <= high
  BY <1>2, <1>3 DEF Lined
<1>6. \A i, j \in DOMAIN t : i < j => t[i] < t[j]
  BY <1>2, <1>4 DEF Lined
<1>7. \A i \in DOMAIN t, j \in DOMAIN q : t[i] < q[j].id
  BY <1>2 DEF Lined
<1>8. s[1] <= high /\ (e # 0 => s[1] < e) /\ \A j \in DOMAIN q : s[1] < q[j].id
  BY <1>3 DEF Lined
<1>9. e # 0 => \A i \in DOMAIN t : t[i] < e
  BY <1>2 DEF Lined
<1> QED BY <1>1, <1>5, <1>6, <1>7, <1>8, <1>9 DEF Lined, t

\* What the correlator holds, and what the other channels never carry.
HandsInv ==
    /\ pc \in {"select", "exited"} => cur = NoEvent
    /\ pc = "alert" => cur.id # 0
    /\ \A l \in 1..3 : \A j \in DOMAIN chan[l] : chan[l][j].id = 0

\* The violations are in line.
FeedInv == HandsInv /\ Lined(socket, cur.id, chan[4], latest, seen)

\* The steps that change what is seen, on its way or delivered.
FeedUntouched == UNCHANGED <<socket, latest, seen>> /\ cur'.id = cur.id /\ chan'[4] = chan[4]

\* The other channels carry no violation, and the correlator rests with empty hands.
LEMMA HandsAreKept == ASSUME Typed, HandsInv, [Next]_vars PROVE HandsInv'
<1>1. ASSUME NEW l \in 1..3, NEW j \in DOMAIN chan'[l] PROVE chan'[l][j].id = 0
  <2>0. l \in Layer /\ l # 4 /\ chan[l] \in Seq(Event)
    BY DEF Layer, Typed, TypedChannels
  <2>1. ASSUME NEW k \in Layer, NEW e \in Event, Offer(k, e), k = l => e.id = 0
        PROVE  chan'[l][j].id = 0
    <3>1. chan'[l] = chan[l] \/ (k = l /\ chan'[l] = Append(chan[l], e))
      BY <2>0, <2>1, OfferShape DEF Typed
    <3>2. CASE chan'[l] = chan[l]
      BY <3>2 DEF HandsInv
    <3>3. CASE k = l /\ chan'[l] = Append(chan[l], e)
      <4>1. /\ DOMAIN chan[l] = 1..Len(chan[l]) /\ j \in 1..(Len(chan[l]) + 1)
            /\ \A i \in 1..Len(chan[l]) : chan'[l][i] = chan[l][i]
            /\ chan'[l][Len(chan[l]) + 1] = e /\ Len(chan[l]) \in Nat
        BY <2>0, <3>3, AppendShape
      <4>2. j \in 1..Len(chan[l]) \/ j = Len(chan[l]) + 1
        BY <4>1
      <4> QED BY <2>1, <3>3, <4>1, <4>2 DEF HandsInv
    <3> QED BY <3>1, <3>2, <3>3
  <2>2. ASSUME NEW k \in {1, 2}, NEW a \in Address, Offer(k, Sample(a)) PROVE chan'[l][j].id = 0
    BY <2>1, <2>2, EventShape DEF Layer
  <2>3. ASSUME NEW a \in Address, Offer(4, AuditRecord(a, seen + 1)) PROVE chan'[l][j].id = 0
    <3>1. seen + 1 \in Nat /\ 4 \in Layer
      BY DEF Typed, TypedSocket, Layer
    <3> QED BY <2>0, <2>1, <2>3, <3>1, EventShape
  <2>4. ASSUME NEW a \in Shunned, Offer(3, DropReport(a, drops[a])) PROVE chan'[l][j].id = 0
    <3>1. drops[a] \in Nat /\ 3 \in Layer /\ a \in Address
      BY TalkersAre DEF Typed, TypedPoll, Layer
    <3> QED BY <2>1, <2>4, <3>1, EventShape
  <2>5. ASSUME NEW k \in Layer, Take(k) PROVE chan'[l][j].id = 0
    <3>1. chan[k] # <<>> /\ chan' = [chan EXCEPT ![k] = Tail(@)]
      BY <2>5 DEF Take
    <3>2. CASE k = l
      <4>1. chan'[l] = Tail(chan[l]) /\ chan[l] # <<>>
        BY <2>0, <3>1, <3>2, TakeShape DEF Typed
      <4>2. j \in 1..(Len(chan[l]) - 1) /\ chan'[l][j] = chan[l][j + 1]
            /\ DOMAIN chan[l] = 1..Len(chan[l]) /\ Len(chan[l]) \in Nat
        BY <2>0, <4>1, TailShape
      <4>3. j + 1 \in DOMAIN chan[l]
        BY <4>2
      <4> QED BY <4>2, <4>3 DEF HandsInv
    <3>3. CASE k # l
      BY <2>0, <3>1, <3>3, TakeShape DEF Typed, HandsInv
    <3> QED BY <3>2, <3>3
  <2>6. CASE UNCHANGED chan
    BY <2>6 DEF HandsInv
  <2> QED BY <2>2, <2>3, <2>4, <2>5, <2>6, ChannelSteps
<1>2. (pc' \in {"select", "exited"} => cur' = NoEvent) /\ (pc' = "alert" => cur'.id # 0)
  <2> USE DEF HandsInv
  <2>1. ASSUME NEW l \in Layer, Take(l)
        PROVE  (pc' \in {"select", "exited"} => cur' = NoEvent) /\ (pc' = "alert" => cur'.id # 0)
    BY <2>1 DEF Take
  <2>2. CASE ProfileEvent
    BY <2>2 DEF ProfileEvent, IsViolation
  <2>3. CASE SendAlert \/ CorrelatorExits
    BY <2>3 DEF SendAlert, Alerted, CorrelatorExits
  <2>4. CASE UNCHANGED <<pc, cur>>
    BY <2>4
  <2>5. \/ \E l \in Layer : Take(l)
        \/ ProfileEvent \/ SendAlert \/ CorrelatorExits \/ UNCHANGED <<pc, cur>>
    BY DEF Next, vars, Violation, Observe, Drop, Forget, Visit, Cancel, BeginPoll, EndPoll,
           Emit, DaemonReads, DaemonGoes, DaemonComes, Day, Sigterm, StopReturns
  <2> QED BY <2>1, <2>2, <2>3, <2>4, <2>5
<1> QED BY <1>1, <1>2 DEF HandsInv

\* What a step does to the violations.
LEMMA FeedSteps ==
    ASSUME Typed, FeedInv, [Next]_vars
    PROVE  \/ /\ UNCHANGED <<socket, latest, cur, pc>> /\ seen < MaxViolations
              /\ seen' = seen + 1
              /\ \/ chan'[4] = chan[4]
                 \/ \E r \in Event : r.id = seen + 1 /\ chan'[4] = Append(chan[4], r)
           \/ /\ pc = "select" /\ pc' = "profile" /\ chan[4] # <<>>
              /\ UNCHANGED <<socket, latest, seen>> /\ cur.id = 0
              /\ cur' = Head(chan[4]) /\ chan'[4] = Tail(chan[4])
           \/ /\ pc = "alert" /\ pc' = "select" /\ cur.id # 0 /\ cur'.id = 0
              /\ UNCHANGED <<latest, seen>> /\ chan'[4] = chan[4]
              /\ socket' = socket \/ socket' = Append(socket, cur.id)
           \/ /\ socket # <<>> /\ latest' = Head(socket) /\ socket' = Tail(socket)
              /\ UNCHANGED <<seen, cur, pc, chan>>
           \/ socket' = <<>> /\ UNCHANGED <<latest, seen, cur, pc, chan>>
           \/ FeedUntouched /\ (pc' = pc \/ pc' = "exited" \/ (pc # "exited" /\ pc' # "exited"))
<1> DEFINE Untouched == FeedUntouched /\
                        (pc' = pc \/ pc' = "exited" \/ (pc # "exited" /\ pc' # "exited"))
<1>0. 4 \in Layer /\ NoEvent.id = 0 /\ 1 \in Layer /\ 2 \in Layer /\ 3 \in Layer
  BY EventShape, AgentBetaAssumption DEF Layer
<1>1. ASSUME NEW a \in Address, Violation(a)
      PROVE  /\ UNCHANGED <<socket, latest, cur, pc>> /\ seen < MaxViolations
             /\ seen' = seen + 1
             /\ \/ chan'[4] = chan[4]
                \/ \E r \in Event : r.id = seen + 1 /\ chan'[4] = Append(chan[4], r)
  <2>1. AuditRecord(a, seen + 1) \in Event /\ AuditRecord(a, seen + 1).id = seen + 1
    BY EventShape DEF Typed, TypedSocket
  <2>2. Offer(4, AuditRecord(a, seen + 1))
    BY <1>1 DEF Violation
  <2>3. chan'[4] = chan[4] \/ chan'[4] = Append(chan[4], AuditRecord(a, seen + 1))
    BY <1>0, <2>1, <2>2, OfferShape DEF Typed
  <2> QED BY <1>1, <2>1, <2>3 DEF Violation, alertVars
<1>2. ASSUME NEW l \in {1, 2}, NEW a \in Address, Observe(l, a) PROVE Untouched
  <2>1. chan'[4] = chan[4]
    BY <1>0, <1>2, EventShape, OfferShape DEF Observe, Typed
  <2> QED BY <1>2, <2>1 DEF Observe, FeedUntouched, alertVars
<1>3. CASE Emit
  <2>1. chan'[4] = chan[4]
    <3>1. ASSUME NEW a \in Shunned, Offer(3, DropReport(a, drops[a])) PROVE chan'[4] = chan[4]
      <4>1. drops[a] \in Nat /\ a \in Address
        BY TalkersAre DEF Typed, TypedPoll
      <4> QED BY <1>0, <3>1, <4>1, EventShape, OfferShape DEF Typed
    <3> QED BY <1>3, <3>1 DEF Emit
  <2> QED BY <1>3, <2>1 DEF Emit, FeedUntouched, alertVars
<1>4. CASE Take(4)
  <2>1. chan[4] # <<>> /\ chan'[4] = Tail(chan[4])
    BY <1>0, <1>4, TakeShape DEF Take, Typed
  <2>2. /\ pc = "select" /\ pc' = "profile" /\ cur' = Head(chan[4])
        /\ UNCHANGED <<socket, latest, seen>>
    BY <1>4 DEF Take, alertVars
  <2>3. cur.id = 0
    BY <1>0, <2>2 DEF FeedInv, HandsInv
  <2> QED BY <2>1, <2>2, <2>3
<1>5. ASSUME NEW l \in Layer, l # 4, Take(l) PROVE Untouched
  <2>1. /\ chan[l] # <<>> /\ chan'[4] = chan[4] /\ chan[l] \in Seq(Event)
        /\ UNCHANGED <<socket, latest, seen>>
    <3>1. chan[l] # <<>> /\ chan' = [chan EXCEPT ![l] = Tail(@)] /\ TypedChannels
      BY <1>5 DEF Take, Typed
    <3>2. UNCHANGED <<socket, latest, seen>>
      BY <1>5 DEF Take, alertVars
    <3>3. (\A k \in Layer \ {l} : chan'[k] = chan[k]) /\ chan[l] \in Seq(Event)
      BY <3>1, TakeShape
    <3> QED BY <1>0, <1>5, <3>1, <3>2, <3>3
  <2>2. cur.id = 0 /\ pc = "select" /\ (cur' = cur \/ cur' = Head(chan[l]))
        /\ pc' \in {"select", "profile"}
    BY <1>0, <1>5 DEF Take, FeedInv, HandsInv
  <2>3. l \in 1..3 /\ Head(chan[l]) = chan[l][1] /\ 1 \in DOMAIN chan[l]
    BY <1>5, <2>1, TailShape DEF Layer
  <2>4. Head(chan[l]).id = 0
    BY <2>3 DEF FeedInv, HandsInv
  <2> QED BY <2>1, <2>2, <2>4 DEF FeedUntouched
<1>6. CASE ProfileEvent
  BY <1>0, <1>6 DEF ProfileEvent, IsViolation, FeedUntouched, alertVars
<1>7. CASE SendAlert
  <2>1. pc = "alert" /\ pc' = "select" /\ cur' = NoEvent /\ cur.id # 0
        /\ UNCHANGED <<latest, seen, chan>>
    BY <1>7 DEF SendAlert, Alerted, FeedInv, HandsInv
  <2>2. socket' = socket \/ socket' = Append(socket, cur.id)
    BY <1>7 DEF SendAlert, Write
  <2> QED BY <1>0, <2>1, <2>2
<1>8. CASE DaemonReads
  BY <1>8 DEF DaemonReads
<1>9. CASE DaemonGoes
  BY <1>9 DEF DaemonGoes
<1>10. CASE CorrelatorExits
  BY <1>10 DEF CorrelatorExits, FeedUntouched, alertVars
<1>11. CASE UNCHANGED <<socket, latest, seen, cur, pc, chan>>
  BY <1>11 DEF FeedUntouched
<1>12. \/ \E a \in Address : Violation(a) \/ \E l \in {1, 2} : Observe(l, a)
       \/ Emit \/ \E l \in Layer : Take(l)
       \/ ProfileEvent \/ SendAlert \/ DaemonReads \/ DaemonGoes \/ CorrelatorExits
       \/ UNCHANGED <<socket, latest, seen, cur, pc, chan>>
  BY DEF Next, vars, Observe, Drop, Forget, Visit, Cancel, BeginPoll, EndPoll,
         DaemonComes, Day, Sigterm, StopReturns, alertVars
<1> QED BY <1>1, <1>2, <1>3, <1>4, <1>5, <1>6, <1>7, <1>8, <1>9, <1>10, <1>11, <1>12

\* The violations stay in line, whatever the step.
LEMMA FeedIsKept == ASSUME Typed, FeedInv, [Next]_vars PROVE FeedInv'
<1>1. /\ socket \in Seq(Nat) /\ cur.id \in Nat /\ chan[4] \in Seq(Event)
      /\ latest \in Nat /\ seen \in Nat
  BY DEF Typed, TypedSocket, TypedHands, TypedChannels, Event, Layer
<1>2. Lined(socket, cur.id, chan[4], latest, seen)
  BY DEF FeedInv
<1>3. ASSUME UNCHANGED <<socket, latest, cur, pc>>, seen' = seen + 1,
             \/ chan'[4] = chan[4]
             \/ \E r \in Event : r.id = seen + 1 /\ chan'[4] = Append(chan[4], r)
      PROVE  Lined(socket', cur'.id, chan'[4], latest', seen')
  <2>1. PICK r \in Event : r.id = seen + 1 /\ (chan'[4] = chan[4] \/ chan'[4] = Append(chan[4], r))
    <3>1. AuditRecord(NoIP, seen + 1) \in Event /\ AuditRecord(NoIP, seen + 1).id = seen + 1
      BY <1>1, EventShape, AgentBetaAssumption
    <3> QED BY <1>3, <3>1
  <2>2. /\ Lined(socket, cur.id, chan[4], latest, seen + 1)
        /\ Lined(socket, cur.id, Append(chan[4], r), latest, seen + 1)
    BY <1>1, <1>2, <2>1, SeenAtTheEnd
  <2> QED BY <1>3, <2>1, <2>2
<1>4. ASSUME chan[4] # <<>>, UNCHANGED <<socket, latest, seen>>, cur.id = 0,
             cur' = Head(chan[4]), chan'[4] = Tail(chan[4])
      PROVE  Lined(socket', cur'.id, chan'[4], latest', seen')
  BY <1>1, <1>2, <1>4, TakenNext
<1>5. ASSUME cur.id # 0, cur'.id = 0, UNCHANGED <<latest, seen>>, chan'[4] = chan[4],
             socket' = socket \/ socket' = Append(socket, cur.id)
      PROVE  Lined(socket', cur'.id, chan'[4], latest', seen')
  <2>1. CASE socket' = socket
    <3>1. Lined(socket, 0, chan[4], latest, seen)
      BY <1>1, <1>2, LostAnywhere
    <3> QED BY <1>5, <2>1, <3>1
  <2>2. CASE socket' = Append(socket, cur.id)
    <3>1. cur.id \in Nat \ {0}
      BY <1>1, <1>5
    <3>2. Lined(Append(socket, cur.id), 0, chan[4], latest, seen)
      BY <1>1, <1>2, <3>1, WrittenNext
    <3> QED BY <1>5, <2>2, <3>2
  <2> QED BY <1>5, <2>1, <2>2
<1>6. ASSUME socket # <<>>, latest' = Head(socket), socket' = Tail(socket),
             UNCHANGED <<seen, cur, pc, chan>>
      PROVE  Lined(socket', cur'.id, chan'[4], latest', seen')
  BY <1>1, <1>2, <1>6, ReadFirst
<1>7. ASSUME socket' = <<>>, UNCHANGED <<latest, seen, cur, pc, chan>>
      PROVE  Lined(socket', cur'.id, chan'[4], latest', seen')
  BY <1>1, <1>2, <1>7, LostAnywhere
<1>8. ASSUME FeedUntouched PROVE Lined(socket', cur'.id, chan'[4], latest', seen')
  BY <1>2, <1>8 DEF FeedUntouched
<1>9. Lined(socket', cur'.id, chan'[4], latest', seen')
  BY <1>3, <1>4, <1>5, <1>6, <1>7, <1>8, FeedSteps
<1>10. HandsInv'
  BY HandsAreKept DEF FeedInv
<1> QED BY <1>9, <1>10 DEF FeedInv

-----------------------------------------------------------------------------
(* The drops on their way.                                                 *)

\* Where the drops of an address are: in its profile or in hand, in an event of the
\* channel, in the map but not in prev, or in a result that is not reported yet.
Counted(a) == (IF a \in Known THEN profiles[a].drops ELSE 0)
                  + (IF pc = "profile" /\ cur.ip = a THEN cur.count ELSE 0)
Queued(e, a) == IF e.ip = a THEN e.count ELSE 0
Fresh(a) == IF inMap[a] > prev[a] THEN inMap[a] - prev[a] ELSE 0
Unreported(a) == drops[a] + Fresh(a)

\* T[j] bounds what is counted once the first j events of queue q are; with the rest it
\* is at most top.
Levels(T, c, q, rest, top, a) ==
    /\ T \in [Nat -> Nat] /\ c <= T[0]
    /\ \A j \in DOMAIN q : T[j - 1] + Queued(q[j], a) <= T[j]
    /\ \A i, j \in 0..Len(q) : i <= j => T[i] <= T[j]
    /\ T[Len(q)] + rest <= top

\* Only the third channel carries drops.
OthersUncounted == \A l \in {1, 2, 4} : \A j \in DOMAIN chan[l] : chan[l][j].count = 0

\* What is counted, queued and unreported was all dropped.
Backed(a) == \E T : Levels(T, Counted(a), chan[3], Unreported(a), dropped[a], a)

\* So it is for everybody the XDP program meets.
CountInv == OthersUncounted /\ \A a \in Shunned : Backed(a)

\* Less counted, less left to report, more dropped: the same levels do.
LEMMA LevelsKept ==
    ASSUME NEW T, NEW c \in Nat, NEW q \in Seq(Event), NEW rest \in Nat, NEW top \in Nat, NEW a,
           Levels(T, c, q, rest, top, a),
           NEW d \in Nat, d <= c, NEW less \in Nat, NEW more \in Nat, less + top <= rest + more
    PROVE  Levels(T, d, q, less, more, a)
<1>1. Len(q) \in Nat
  OBVIOUS
<1>2. T[0] \in Nat /\ T[Len(q)] \in Nat
  BY <1>1 DEF Levels
<1>3. c <= T[0] /\ T[Len(q)] + rest <= top
  BY DEF Levels
<1>4. ASSUME NEW x \in Nat, NEW y \in Nat, c <= x, y + rest <= top
      PROVE  d <= x /\ y + less <= more
  BY <1>4
<1>5. d <= T[0] /\ T[Len(q)] + less <= more
  BY <1>2, <1>3, <1>4
<1> QED BY <1>5 DEF Levels

\* Levels up to n, and one more of them at n + 1.
Rising(T, n) == T \in [Nat -> Nat] /\ \A i, j \in 0..n : i <= j => T[i] <= T[j]
Extends(U, T, n, x) == (\A i \in 0..n : U[i] = T[i]) /\ U[n + 1] = T[n] + x

\* A rising row of levels can be given one more step.
LEMMA Stairs ==
    ASSUME NEW T, NEW n \in Nat, NEW x \in Nat, Rising(T, n)
    PROVE  \E U : Rising(U, n + 1) /\ Extends(U, T, n, x)
<1>0. T \in [Nat -> Nat] /\ \A i, j \in 0..n : i <= j => T[i] <= T[j]
  BY DEF Rising
<1> DEFINE U == [j \in Nat |-> IF j = n + 1 THEN T[n] + x ELSE T[j]]
<1>1. T[n] \in Nat
  BY <1>0
<1>2. T[n] + x \in Nat
  BY <1>1
<1>3. U \in [Nat -> Nat]
  BY <1>0, <1>2
<1>4. U[n + 1] = T[n] + x /\ \A j \in Nat : j # n + 1 => U[j] = T[j]
  OBVIOUS
<1> HIDE DEF U
<1>5. \A i \in 0..n : U[i] = T[i] /\ T[i] \in Nat /\ T[i] <= T[n]
  BY <1>0, <1>4
<1>6. ASSUME NEW i \in 0..(n + 1), NEW j \in 0..(n + 1), i <= j PROVE U[i] <= U[j]
  <2>1. CASE j \in 0..n
    <3>1. i \in 0..n
      BY <1>6, <2>1
    <3> QED BY <1>0, <1>5, <1>6, <2>1, <3>1
  <2>2. CASE j = n + 1 /\ i \in 0..n
    <3>1. U[i] \in Nat /\ U[i] <= T[n] /\ U[j] = T[n] + x
      BY <1>4, <1>5, <2>2
    <3> QED BY <1>1, <3>1
  <2>3. CASE j = n + 1 /\ i = n + 1
    BY <1>2, <1>4, <2>3
  <2> QED BY <1>6, <2>1, <2>2, <2>3
<1>7. Rising(U, n + 1) /\ Extends(U, T, n, x)
  BY <1>3, <1>4, <1>5, <1>6 DEF Rising, Extends
<1> QED BY <1>7

\* The arithmetic of that step.
LEMMA SumsOfLevels ==
    \A t, x, rest, top, less \in Nat : t + rest <= top /\ less + x <= rest => (t + x) + less <= top
OBVIOUS

\* Drops reported into the channel become a step of the levels.
LEMMA LevelsAppend ==
    ASSUME NEW T, NEW c \in Nat, NEW q \in Seq(Event), NEW rest \in Nat, NEW top \in Nat, NEW a,
           Levels(T, c, q, rest, top, a),
           NEW e \in Event, NEW x \in Nat, NEW less \in Nat
    PROVE  Queued(e, a) = x /\ less + x <= rest =>
               \E U : Levels(U, c, Append(q, e), less, top, a)
<1>0. SUFFICES ASSUME Queued(e, a) = x, less + x <= rest
               PROVE  \E U : Levels(U, c, Append(q, e), less, top, a)
  OBVIOUS
<1>a. less + x <= rest
  BY <1>0
<1>b. Queued(e, a) = x
  BY <1>0
<1>1. /\ Len(q) \in Nat /\ DOMAIN q = 1..Len(q)
      /\ DOMAIN Append(q, e) = 1..(Len(q) + 1) /\ Len(Append(q, e)) = Len(q) + 1
      /\ \A j \in 1..Len(q) : Append(q, e)[j] = q[j]
      /\ Append(q, e)[Len(q) + 1] = e
  <2>1. q \in Seq(Event) /\ e \in Event
    OBVIOUS
  <2>2. /\ Append(q, e) \in Seq(Event) /\ Len(Append(q, e)) = Len(q) + 1 /\ Len(q) \in Nat
        /\ DOMAIN q = 1..Len(q) /\ DOMAIN Append(q, e) = 1..(Len(q) + 1)
        /\ \A i \in 1..Len(q) : Append(q, e)[i] = q[i]
        /\ Append(q, e)[Len(q) + 1] = e
    BY <2>1, AppendShape
  <2> QED BY <2>2, Zenon
<1>2. PICK n \in Nat : n = Len(q)
  BY <1>1
<1>3. PICK p : p = Append(q, e)
  OBVIOUS
<1>4. /\ DOMAIN q = 1..n /\ DOMAIN p = 1..(n + 1) /\ Len(p) = n + 1
      /\ \A j \in 1..n : p[j] = q[j]
      /\ p[n + 1] = e
  BY <1>1, <1>2, <1>3
<1>5. /\ T \in [Nat -> Nat] /\ c <= T[0] /\ T[n] + rest <= top
      /\ \A j \in 1..n : T[j - 1] + Queued(q[j], a) <= T[j]
      /\ \A i, j \in 0..n : i <= j => T[i] <= T[j]
  BY <1>2, <1>4 DEF Levels
<1>6. PICK U : Rising(U, n + 1) /\ Extends(U, T, n, x)
  <2>1. Rising(T, n)
    BY <1>5 DEF Rising
  <2> QED BY <2>1, Stairs
<1>c. /\ U \in [Nat -> Nat]
      /\ \A i, j \in 0..(n + 1) : i <= j => U[i] <= U[j]
      /\ \A i \in 0..n : U[i] = T[i]
      /\ U[n + 1] = T[n] + x
  BY <1>6 DEF Rising, Extends
<1>7. n \in 0..n /\ 0 \in 0..n /\ T[n] \in Nat
  BY <1>5
<1>8. ASSUME NEW j \in 1..(n + 1) PROVE U[j - 1] + Queued(p[j], a) <= U[j]
  <2>1. CASE j \in 1..n
    <3>1. p[j] = q[j] /\ T[j - 1] + Queued(q[j], a) <= T[j]
      BY <1>4, <1>5, <2>1
    <3>2. j - 1 \in 0..n /\ j \in 0..n
      BY <2>1
    <3>3. U[j] = T[j] /\ U[j - 1] = T[j - 1]
      BY <1>c, <3>2
    <3> QED BY <3>1, <3>3
  <2>2. CASE j = n + 1
    <3>1. j - 1 = n /\ p[j] = e
      BY <1>4, <2>2
    <3>2. U[j - 1] = T[n] /\ U[j] = T[n] + x
      BY <1>c, <1>7, <2>2, <3>1
    <3>3. Queued(p[j], a) = x
      BY <1>b, <3>1
    <3>4. U[j - 1] + Queued(p[j], a) = U[j]
      BY <3>2, <3>3
    <3>5. j \in Nat
      BY <2>2
    <3>6. U[j] \in Nat
      BY <1>c, <3>5
    <3> QED BY <3>4, <3>6
  <2> QED BY <2>1, <2>2
<1>9. U[Len(p)] + less <= top
  <2>1. U[Len(p)] = T[n] + x
    BY <1>4, <1>c
  <2> QED BY <1>5, <1>7, <1>a, <2>1, SumsOfLevels
<1>10. Levels(U, c, p, less, top, a)
  <2>1. c <= U[0]
    BY <1>5, <1>c, <1>7
  <2> QED BY <1>4, <1>c, <1>8, <1>9, <2>1 DEF Levels
<1> QED BY <1>3, <1>10

\* The first event of the channel, once taken, may be counted.
LEMMA LevelsTail ==
    ASSUME NEW T, NEW c \in Nat, NEW q \in Seq(Event), NEW rest \in Nat, NEW top \in Nat, NEW a,
           Levels(T, c, q, rest, top, a), q # <<>>,
           NEW d \in Nat, d <= c + Queued(Head(q), a)
    PROVE  \E U : Levels(U, d, Tail(q), rest, top, a)
<1> DEFINE p == Tail(q)
           n == Len(q)
           U == [j \in Nat |-> T[j + 1]]
<1>1. /\ n \in Nat \ {0} /\ DOMAIN q = 1..n /\ DOMAIN p = 1..(n - 1) /\ Len(p) = n - 1
      /\ \A j \in 1..(n - 1) : p[j] = q[j + 1]
      /\ Head(q) = q[1] /\ Head(q) \in Event
  BY TailShape
<1> HIDE DEF p
<1>2. T \in [Nat -> Nat] /\ Queued(Head(q), a) \in Nat
  BY <1>1 DEF Levels, Queued, Event
<1>3. U \in [Nat -> Nat] /\ \A j \in Nat : U[j] = T[j + 1]
  <2>1. \A j \in Nat : j + 1 \in Nat
    OBVIOUS
  <2>2. \A j \in Nat : T[j + 1] \in Nat
    BY <1>2, <2>1
  <2> QED BY <2>2
<1> HIDE DEF U
<1>4. d <= U[0]
  <2>1. 1 \in DOMAIN q /\ 1 - 1 = 0
    BY <1>1
  <2>2. T[1 - 1] + Queued(q[1], a) <= T[1] /\ c <= T[0]
    BY <2>1 DEF Levels
  <2>3. T[0] \in Nat /\ T[1] \in Nat /\ U[0] = T[1]
    BY <1>2, <1>3
  <2>4. PICK t, u, x \in Nat : t = T[0] /\ u = T[1] /\ x = Queued(Head(q), a)
    BY <1>2, <2>3
  <2>5. t + x <= u /\ c <= t /\ d <= c + x
    BY <2>2, <2>4, <1>1
  <2>6. d <= u
    BY <2>5
  <2> QED BY <2>3, <2>4, <2>6
<1>5. ASSUME NEW j \in DOMAIN p PROVE U[j - 1] + Queued(p[j], a) <= U[j]
  <2>1. j + 1 \in DOMAIN q /\ p[j] = q[j + 1] /\ j - 1 \in Nat /\ j \in Nat
        /\ (j - 1) + 1 = j /\ (j + 1) - 1 = j
    BY <1>1
  <2>2. T[(j + 1) - 1] + Queued(q[j + 1], a) <= T[j + 1]
    BY <2>1 DEF Levels
  <2> QED BY <2>1, <2>2, <1>3
<1>6. ASSUME NEW i \in 0..Len(p), NEW j \in 0..Len(p), i <= j PROVE U[i] <= U[j]
  <2>1. i + 1 \in 0..n /\ j + 1 \in 0..n /\ i + 1 <= j + 1 /\ i \in Nat /\ j \in Nat
    BY <1>1, <1>6
  <2>2. T[i + 1] <= T[j + 1]
    BY <2>1 DEF Levels
  <2> QED BY <2>1, <2>2, <1>3
<1>7. U[Len(p)] + rest <= top
  <2>1. Len(p) \in Nat /\ Len(p) + 1 = n
    BY <1>1
  <2> QED BY <2>1, <1>3 DEF Levels
<1>8. Levels(U, d, p, rest, top, a)
  BY <1>3, <1>4, <1>5, <1>6, <1>7 DEF Levels
<1> QED BY <1>8 DEF p

\* The quantities that the levels compare are naturals.
LEMMA CountTypes ==
    ASSUME Typed, ProfilerTypeOK, NEW a \in Shunned
    PROVE  /\ Counted(a) \in Nat /\ Unreported(a) \in Nat /\ dropped[a] \in Nat
           /\ drops[a] \in Nat /\ inMap[a] \in Nat /\ prev[a] \in Nat /\ Fresh(a) \in Nat
           /\ chan[3] \in Seq(Event)
<1>1. drops[a] \in Nat /\ inMap[a] \in Nat /\ prev[a] \in Nat /\ dropped[a] \in Nat
  BY DEF Typed, TypedPoll
<1>2. Fresh(a) \in Nat
  BY <1>1 DEF Fresh
<1>3. cur.count \in Nat /\ (a \in Known => profiles[a].drops \in Nat)
  BY DEF Typed, TypedHands, Event, ProfilerTypeOK, Profile
<1>4. chan[3] \in Seq(Event)
  BY DEF Typed, TypedChannels, Layer
<1> QED BY <1>1, <1>2, <1>3, <1>4 DEF Counted, Unreported

\* What the profiles have counted grows by what is in hand, and by nothing else.
LEMMA CountedSteps ==
    ASSUME Typed, ProfilerTypeOK, CacheInv, [Next]_vars, NEW a \in Shunned,
           \A l \in Layer : ~Take(l)
    PROVE  Counted(a)' <= Counted(a)
<1>0. cur.count \in Nat /\ cur.ip \in Address /\ Points(cur) \in Nat
      /\ (a \in Known => profiles[a].drops \in Nat) /\ Counted(a) \in Nat
  BY CountTypes DEF Typed, TypedHands, Event, ProfilerTypeOK, Profile, Points
<1>1. CASE ProfileEvent
  <2>1. pc = "profile" /\ pc' # "profile" /\ Admit(cur.ip, Points(cur), cur.count)
    BY <1>1 DEF ProfileEvent
  <2>2. PICK i \in 1..(Len(lru) + 1) : Moved(cur.ip, Points(cur), cur.count, i)
    BY <1>0, <2>1, AdmitShape DEF ProfilerTypeOK
  <2>3. /\ Known' = {lru[j] : j \in (1..Len(lru)) \ {i}} \cup {cur.ip}
        /\ profiles' = [b \in Known' |-> IF b = cur.ip THEN Touched(cur.ip, Points(cur), cur.count)
                                                      ELSE profiles[b]]
    BY <2>2 DEF Moved
  <2>4. Known' \subseteq Known \cup {cur.ip}
    BY <2>3 DEF CacheInv, ProfilerTypeOK
  <2>5. Counted(a)' = IF a \in Known' THEN profiles'[a].drops ELSE 0
    <3>1. a \in Known' => profiles'[a].drops \in Nat
      BY <1>0, <2>1, AdmitKeepsCache DEF ProfilerTypeOK, Profile
    <3> QED BY <2>1, <3>1 DEF Counted
  <2>6. CASE a = cur.ip
    <3>1. a \in Known' /\ profiles'[a] = Touched(cur.ip, Points(cur), cur.count)
      BY <2>3, <2>6
    <3>2. /\ a \in Known => profiles'[a].drops = cur.count + profiles[a].drops
          /\ a \notin Known => profiles'[a].drops = cur.count
      <4>1. profiles'[a] = Touched(a, Points(cur), cur.count)
        BY <2>6, <3>1
      <4>2. /\ a \in Known => Touched(a, Points(cur), cur.count).drops
                                 = cur.count + profiles[a].drops
            /\ a \notin Known => Touched(a, Points(cur), cur.count).drops = cur.count
        BY <1>0 DEF Touched, NewProfile
      <4> QED BY <4>1, <4>2
    <3> QED BY <1>0, <2>1, <2>5, <2>6, <3>1, <3>2 DEF Counted
  <2>7. CASE a # cur.ip
    <3>1. a \in Known' => a \in Known /\ profiles'[a] = profiles[a]
      BY <2>3, <2>4, <2>7
    <3> QED BY <1>0, <2>1, <2>5, <2>7, <3>1 DEF Counted
  <2> QED BY <2>6, <2>7
<1>2. CASE Day
  <2>1. Known' = Known /\ (a \in Known => profiles'[a].drops = profiles[a].drops)
        /\ UNCHANGED <<pc, cur>>
    BY <1>2, AgeShape DEF Day
  <2> QED BY <1>0, <2>1 DEF Counted
<1>3. CASE UNCHANGED profiles /\ (UNCHANGED <<pc, cur>> \/ pc' # "profile")
  <2>1. Known' = Known
    BY <1>3 DEF Known
  <2> QED BY <1>0, <1>3, <2>1 DEF Counted
<1>4. ProfileEvent \/ Day \/ (UNCHANGED profiles /\ (UNCHANGED <<pc, cur>> \/ pc' # "profile"))
  BY DEF Next, vars, profilerVars, Violation, Observe, Drop, Forget, Visit, Cancel, BeginPoll,
         EndPoll, Emit, SendAlert, Alerted, CorrelatorExits, DaemonReads, DaemonGoes,
         DaemonComes, Sigterm, StopReturns
<1> QED BY <1>1, <1>2, <1>3, <1>4

\* What was dropped and is not reported yet grows by what is dropped, and by nothing else.
LEMMA UnreportedSteps ==
    ASSUME Typed, ProfilerTypeOK, [Next]_vars, NEW a \in Shunned, ~Emit
    PROVE  Unreported(a)' + dropped[a] <= Unreported(a) + dropped'[a]
<1>0. /\ dropped[a] \in Nat /\ drops[a] \in Nat /\ inMap[a] \in Nat /\ prev[a] \in Nat
      /\ \A f \in {inMap, prev, drops, dropped} : f \in [Shunned -> Nat]
  BY CountTypes DEF Typed, TypedPoll
<1>1. ASSUME NEW b \in Shunned, Drop(b)
      PROVE  Unreported(a)' + dropped[a] <= Unreported(a) + dropped'[a]
  <2>1. UNCHANGED <<prev, drops>>
        /\ \/ a = b /\ dropped'[a] = dropped[a] + 1 /\ inMap'[a] = inMap[a] + 1
           \/ a # b /\ dropped'[a] = dropped[a] /\ inMap'[a] = inMap[a]
    BY <1>0, <1>1 DEF Drop
  <2> QED BY <1>0, <2>1 DEF Unreported, Fresh
<1>2. ASSUME NEW b \in Shunned, Forget(b)
      PROVE  Unreported(a)' + dropped[a] <= Unreported(a) + dropped'[a]
  <2>1. UNCHANGED <<prev, drops, dropped>> /\ (inMap'[a] = 0 \/ inMap'[a] = inMap[a])
    BY <1>0, <1>2 DEF Forget
  <2> QED BY <1>0, <2>1 DEF Unreported, Fresh
<1>3. ASSUME NEW b \in Shunned, Visit(b)
      PROVE  Unreported(a)' + dropped[a] <= Unreported(a) + dropped'[a]
  <2>1. CASE a = b
    <3>1. /\ UNCHANGED <<inMap, dropped>> /\ prev'[a] = inMap[a]
          /\ drops'[a] = IF inMap[a] > prev[a] THEN inMap[a] - prev[a] ELSE drops[a]
      BY <1>0, <1>3, <2>1 DEF Visit
    <3>2. Fresh(a)' = 0
      BY <1>0, <3>1 DEF Fresh
    <3> QED BY <1>0, <3>1, <3>2 DEF Unreported, Fresh
  <2>2. CASE a # b
    <3>1. UNCHANGED <<inMap, dropped>> /\ prev'[a] = prev[a] /\ drops'[a] = drops[a]
      BY <1>0, <1>3, <2>2 DEF Visit
    <3> QED BY <1>0, <3>1 DEF Unreported, Fresh
  <2> QED BY <2>1, <2>2
<1>4. CASE EndPoll
  <2>1. UNCHANGED <<inMap, prev, dropped>> /\ (drops' = drops \/ drops'[a] = 0)
    BY <1>4 DEF EndPoll, Zero
  <2> QED BY <1>0, <2>1 DEF Unreported, Fresh
<1>5. CASE UNCHANGED <<inMap, prev, drops, dropped>>
  BY <1>0, <1>5 DEF Unreported, Fresh
<1>6. \/ \E b \in Shunned : Drop(b) \/ Forget(b) \/ Visit(b)
      \/ EndPoll \/ UNCHANGED <<inMap, prev, drops, dropped>>
  BY DEF Next, vars, pollVars, Violation, Observe, Cancel, Take, BeginPoll, ProfileEvent,
         SendAlert, CorrelatorExits, DaemonReads, DaemonGoes, DaemonComes, Day, Sigterm,
         StopReturns
<1> QED BY <1>1, <1>2, <1>3, <1>4, <1>5, <1>6

\* And they are after a step that keeps the types.
LEMMA CountTypesNext ==
    ASSUME Typed', ProfilerTypeOK', NEW a \in Shunned
    PROVE  Counted(a)' \in Nat /\ Unreported(a)' \in Nat /\ dropped'[a] \in Nat
<1>1. drops'[a] \in Nat /\ inMap'[a] \in Nat /\ prev'[a] \in Nat /\ dropped'[a] \in Nat
  BY DEF Typed, TypedPoll
<1>2. Fresh(a)' \in Nat
  BY <1>1 DEF Fresh
<1>3. cur'.count \in Nat /\ (a \in Known' => profiles'[a].drops \in Nat)
  BY DEF Typed, TypedHands, Event, ProfilerTypeOK, Profile
<1> QED BY <1>1, <1>2, <1>3 DEF Counted, Unreported

\* Levels for the quantities after a step back the counts after it.
LEMMA BackedNext ==
    ASSUME NEW a, NEW T, NEW c, NEW q, NEW rest, NEW top, Levels(T, c, q, rest, top, a),
           Counted(a)' = c, chan'[3] = q, Unreported(a)' = rest, dropped'[a] = top
    PROVE  Backed(a)'
BY DEF Backed, Levels, Queued

\* A step that counts nothing more, queues nothing and reports nothing.
LEMMA BackedKept ==
    ASSUME Typed, ProfilerTypeOK, Typed', ProfilerTypeOK', NEW a \in Shunned, Backed(a),
           chan'[3] = chan[3], Counted(a)' <= Counted(a),
           Unreported(a)' + dropped[a] <= Unreported(a) + dropped'[a]
    PROVE  Backed(a)'
<1>1. /\ Counted(a) \in Nat /\ Unreported(a) \in Nat /\ dropped[a] \in Nat
      /\ chan[3] \in Seq(Event)
  BY CountTypes
<1>2. PICK d \in Nat, less \in Nat, more \in Nat :
          d = Counted(a)' /\ less = Unreported(a)' /\ more = dropped'[a]
  BY CountTypesNext
<1>3. PICK T : Levels(T, Counted(a), chan[3], Unreported(a), dropped[a], a)
  BY DEF Backed
<1>4. d <= Counted(a) /\ less + dropped[a] <= Unreported(a) + more
  BY <1>2
<1>5. Levels(T, d, chan[3], less, more, a)
  BY <1>1, <1>3, <1>4, LevelsKept
<1> QED BY <1>2, <1>5, BackedNext

\* Only the XDP poller reports drops.
LEMMA OthersAreKept == ASSUME Typed, OthersUncounted, [Next]_vars PROVE OthersUncounted'
<1>1. ASSUME NEW l \in {1, 2, 4}, NEW j \in DOMAIN chan'[l] PROVE chan'[l][j].count = 0
  <2>0. l \in Layer /\ l # 3 /\ chan[l] \in Seq(Event)
    BY DEF Layer, Typed, TypedChannels
  <2>1. ASSUME NEW k \in Layer, NEW e \in Event, Offer(k, e), k = l => e.count = 0
        PROVE  chan'[l][j].count = 0
    <3>1. chan'[l] = chan[l] \/ (k = l /\ chan'[l] = Append(chan[l], e))
      BY <2>0, <2>1, OfferShape DEF Typed
    <3>2. CASE chan'[l] = chan[l]
      BY <3>2 DEF OthersUncounted
    <3>3. CASE k = l /\ chan'[l] = Append(chan[l], e)
      <4>1. /\ DOMAIN chan[l] = 1..Len(chan[l]) /\ j \in 1..(Len(chan[l]) + 1)
            /\ \A i \in 1..Len(chan[l]) : chan'[l][i] = chan[l][i]
            /\ chan'[l][Len(chan[l]) + 1] = e /\ Len(chan[l]) \in Nat
        BY <2>0, <3>3, AppendShape
      <4>2. j \in 1..Len(chan[l]) \/ j = Len(chan[l]) + 1
        BY <4>1
      <4> QED BY <2>1, <3>3, <4>1, <4>2 DEF OthersUncounted
    <3> QED BY <3>1, <3>2, <3>3
  <2>2. ASSUME NEW k \in {1, 2}, NEW a \in Address, Offer(k, Sample(a)) PROVE chan'[l][j].count = 0
    BY <2>1, <2>2, EventShape DEF Layer
  <2>3. ASSUME NEW a \in Address, Offer(4, AuditRecord(a, seen + 1)) PROVE chan'[l][j].count = 0
    <3>1. seen + 1 \in Nat /\ 4 \in Layer
      BY DEF Typed, TypedSocket, Layer
    <3> QED BY <2>0, <2>1, <2>3, <3>1, EventShape
  <2>4. ASSUME NEW a \in Shunned, Offer(3, DropReport(a, drops[a])) PROVE chan'[l][j].count = 0
    <3>1. drops[a] \in Nat /\ 3 \in Layer /\ a \in Address
      BY TalkersAre DEF Typed, TypedPoll, Layer
    <3> QED BY <2>0, <2>1, <2>4, <3>1, EventShape
  <2>5. ASSUME NEW k \in Layer, Take(k) PROVE chan'[l][j].count = 0
    <3>1. chan[k] # <<>> /\ chan' = [chan EXCEPT ![k] = Tail(@)]
      BY <2>5 DEF Take
    <3>2. CASE k = l
      <4>1. chan'[l] = Tail(chan[l]) /\ chan[l] # <<>>
        BY <2>0, <3>1, <3>2, TakeShape DEF Typed
      <4>2. j \in 1..(Len(chan[l]) - 1) /\ chan'[l][j] = chan[l][j + 1]
            /\ DOMAIN chan[l] = 1..Len(chan[l]) /\ Len(chan[l]) \in Nat
        BY <2>0, <4>1, TailShape
      <4>3. j + 1 \in DOMAIN chan[l]
        BY <4>2
      <4> QED BY <4>2, <4>3 DEF OthersUncounted
    <3>3. CASE k # l
      BY <2>0, <3>1, <3>3, TakeShape DEF Typed, OthersUncounted
    <3> QED BY <3>2, <3>3
  <2>6. CASE UNCHANGED chan
    BY <2>6 DEF OthersUncounted
  <2> QED BY <2>2, <2>3, <2>4, <2>5, <2>6, ChannelSteps
<1> QED BY <1>1 DEF OthersUncounted

\* A drop report counts for its own address only.
LEMMA QueuedReport ==
    ASSUME NEW a, NEW b \in Address, NEW n \in Nat
    PROVE  Queued(DropReport(b, n), a) = IF a = b THEN n ELSE 0
BY EventShape DEF Queued

\* Reporting moves drops from the result into the channel, or loses them.
LEMMA BackedByEmit ==
    ASSUME Typed, ProfilerTypeOK, Typed', ProfilerTypeOK', NEW a \in Shunned, Backed(a), Emit
    PROVE  Backed(a)'
<1>0. /\ Counted(a) \in Nat /\ Unreported(a) \in Nat /\ dropped[a] \in Nat
      /\ chan[3] \in Seq(Event) /\ drops[a] \in Nat /\ Fresh(a) \in Nat
      /\ Unreported(a)' \in Nat
      /\ drops \in [Shunned -> Nat]
  BY CountTypes, CountTypesNext DEF Typed, TypedPoll
<1>1. Counted(a)' = Counted(a) /\ dropped'[a] = dropped[a] /\ Fresh(a)' = Fresh(a)
  BY DEF Emit, Counted, Fresh, Known, profilerVars
<1>2. CASE UNCHANGED <<chan, drops>>
  <2>1. Unreported(a)' = Unreported(a)
    BY <1>1, <1>2 DEF Unreported
  <2> QED BY <1>0, <1>1, <1>2, <2>1, BackedKept
<1>3. ASSUME NEW b \in Shunned, Offer(3, DropReport(b, drops[b])),
             drops' = [drops EXCEPT ![b] = 0]
      PROVE  Backed(a)'
  <2>1. drops[b] \in Nat /\ b \in Address /\ 3 \in Layer
    BY <1>0, TalkersAre DEF Layer
  <2>2. DropReport(b, drops[b]) \in Event
    BY <2>1, EventShape
  <2>3. PICK x \in Nat : x = IF a = b THEN drops[b] ELSE 0
    BY <2>1
  <2>4. PICK less \in Nat : less = Unreported(a)'
    BY <1>0
  <2>5. less + x <= Unreported(a)
    <3>1. drops'[a] = IF a = b THEN 0 ELSE drops[a]
      BY <1>0, <1>3
    <3>2. less = drops'[a] + Fresh(a)
      BY <1>1, <2>4 DEF Unreported
    <3> QED BY <1>0, <2>3, <3>1, <3>2 DEF Unreported
  <2>6. Queued(DropReport(b, drops[b]), a) = x
    BY <2>1, <2>3, QueuedReport
  <2>7. CASE chan'[3] = chan[3]
    <3>1. Unreported(a)' + dropped[a] <= Unreported(a) + dropped'[a]
      BY <1>0, <1>1, <2>4, <2>5
    <3> QED BY <1>0, <1>1, <2>7, <3>1, BackedKept
  <2>8. CASE chan'[3] = Append(chan[3], DropReport(b, drops[b]))
    <3>1. PICK T : Levels(T, Counted(a), chan[3], Unreported(a), dropped[a], a)
      BY DEF Backed
    <3>2. PICK U : Levels(U, Counted(a), Append(chan[3], DropReport(b, drops[b])), less,
                          dropped[a], a)
      BY <1>0, <2>2, <2>5, <2>6, <3>1, LevelsAppend
    <3> QED BY <1>1, <2>4, <2>8, <3>2, BackedNext
  <2> QED BY <1>3, <2>1, <2>2, <2>7, <2>8, OfferShape DEF Typed
<1> QED BY <1>2, <1>3 DEF Emit

\* Taking moves drops from the channel into the correlator's hand, or loses them.
LEMMA BackedByTake ==
    ASSUME Typed, ProfilerTypeOK, Typed', ProfilerTypeOK', OthersUncounted,
           NEW a \in Shunned, Backed(a), NEW l \in Layer, Take(l)
    PROVE  Backed(a)'
<1>0. /\ Counted(a) \in Nat /\ Unreported(a) \in Nat /\ dropped[a] \in Nat
      /\ chan[3] \in Seq(Event) /\ 3 \in Layer
  BY CountTypes DEF Layer
<1>1. /\ dropped'[a] = dropped[a] /\ Unreported(a)' = Unreported(a)
      /\ chan[l] # <<>> /\ chan' = [chan EXCEPT ![l] = Tail(@)] /\ pc = "select"
      /\ Known' = Known /\ UNCHANGED profiles
      /\ pc' = "profile" => cur' = Head(chan[l])
  BY DEF Take, Unreported, Fresh, Known, profilerVars, pollVars
<1>2. /\ \A k \in Layer \ {l} : chan'[k] = chan[k]
      /\ chan'[l] = Tail(chan[l])
      /\ chan[l] \in Seq(Event) /\ Head(chan[l]) \in Event
  BY <1>1, TakeShape DEF Typed
<1>3. Head(chan[l]).count \in Nat /\ Queued(Head(chan[l]), a) \in Nat
  BY <1>2 DEF Event, Queued
<1>4. Counted(a)' <= Counted(a) + Queued(Head(chan[l]), a)
  <2>1. a \in Known => profiles[a].drops \in Nat
    BY DEF ProfilerTypeOK, Profile
  <2>2. Counted(a) = IF a \in Known THEN profiles[a].drops ELSE 0
    BY <1>1, <2>1 DEF Counted
  <2>3. CASE pc' = "profile" /\ cur'.ip = a
    <3>1. Counted(a)' = (IF a \in Known THEN profiles[a].drops ELSE 0) + Head(chan[l]).count
      BY <1>1, <2>3 DEF Counted
    <3>2. Queued(Head(chan[l]), a) = Head(chan[l]).count
      BY <1>1, <2>3 DEF Queued
    <3> QED BY <1>0, <1>3, <2>2, <3>1, <3>2
  <2>4. CASE ~(pc' = "profile" /\ cur'.ip = a)
    <3>1. Counted(a)' = IF a \in Known THEN profiles[a].drops ELSE 0
      BY <1>1, <2>1, <2>4 DEF Counted
    <3> QED BY <1>0, <1>3, <2>2, <3>1
  <2> QED BY <2>3, <2>4
<1>5. CASE l = 3
  <2>1. PICK T : Levels(T, Counted(a), chan[3], Unreported(a), dropped[a], a)
    BY DEF Backed
  <2>2. PICK d \in Nat : d = Counted(a)'
    BY CountTypesNext
  <2>3. d <= Counted(a) + Queued(Head(chan[3]), a) /\ chan[3] # <<>>
    BY <1>1, <1>4, <1>5, <2>2
  <2>4. PICK U : Levels(U, d, Tail(chan[3]), Unreported(a), dropped[a], a)
    BY <1>0, <2>1, <2>3, LevelsTail
  <2>5. chan'[3] = Tail(chan[3])
    BY <1>2, <1>5
  <2> QED BY <1>1, <2>2, <2>4, <2>5, BackedNext
<1>6. CASE l # 3
  <2>1. l \in {1, 2, 4} /\ Head(chan[l]) = chan[l][1] /\ 1 \in DOMAIN chan[l]
    BY <1>1, <1>2, <1>6, TailShape DEF Layer
  <2>2. Queued(Head(chan[l]), a) = 0
    BY <2>1 DEF OthersUncounted, Queued
  <2>3. Counted(a)' <= Counted(a) /\ chan'[3] = chan[3]
    BY <1>0, <1>2, <1>4, <1>6, <2>2
  <2> QED BY <1>0, <1>1, <2>3, BackedKept
<1> QED BY <1>5, <1>6

\* Every step keeps the counts backed.
LEMMA CountIsKept ==
    ASSUME Typed, ProfilerTypeOK, CacheInv, CountInv, [Next]_vars
    PROVE  CountInv'
<1>1. Typed' /\ ProfilerTypeOK'
  BY TypesAreKept
<1>2. OthersUncounted'
  BY OthersAreKept DEF CountInv
<1>3. ASSUME NEW a \in Shunned PROVE Backed(a)'
  <2>0. Backed(a) /\ OthersUncounted /\ 3 \in Layer
    BY DEF CountInv, Layer
  <2>1. CASE Emit
    BY <1>1, <2>0, <2>1, BackedByEmit
  <2>2. CASE \E l \in Layer : Take(l)
    BY <1>1, <2>0, <2>2, BackedByTake
  <2>3. CASE ~Emit /\ \A l \in Layer : ~Take(l)
    <3>1. chan'[3] = chan[3]
      <4>1. ASSUME NEW l \in {1, 2}, NEW b \in Address, Offer(l, Sample(b))
            PROVE  chan'[3] = chan[3]
        BY <2>0, <4>1, EventShape, OfferShape DEF Typed, Layer
      <4>2. ASSUME NEW b \in Address, Offer(4, AuditRecord(b, seen + 1)) PROVE chan'[3] = chan[3]
        <5>1. seen + 1 \in Nat /\ 4 \in Layer
          BY DEF Typed, TypedSocket, Layer
        <5> QED BY <2>0, <4>2, <5>1, EventShape, OfferShape DEF Typed
      <4> QED BY <2>3, <4>1, <4>2, ChannelSteps
    <3>2. Counted(a)' <= Counted(a)
      BY <2>3, CountedSteps
    <3>3. Unreported(a)' + dropped[a] <= Unreported(a) + dropped'[a]
      BY <2>3, UnreportedSteps
    <3> QED BY <1>1, <2>0, <3>1, <3>2, <3>3, BackedKept
  <2> QED BY <2>1, <2>2, <2>3
<1> QED BY <1>2, <1>3 DEF CountInv

-----------------------------------------------------------------------------
(* The invariant and the theorems.                                         *)

\* The inductive invariant.
Inv == /\ Typed /\ ProfilerTypeOK /\ CacheInv
       /\ RestartInv /\ FeedInv /\ CountInv

\* The initial states satisfy the invariant.
LEMMA InitInv == Init => Inv
<1> SUFFICES ASSUME Init PROVE Inv
  OBVIOUS
<1>1. Typed /\ ProfilerTypeOK /\ CacheInv
  BY InitTyped
<1>2. RestartInv
  BY DEF Init, RestartInv
<1>3. /\ cur.id = 0 /\ cur.count = 0 /\ cur = NoEvent /\ pc = "select" /\ socket = <<>>
      /\ latest = 0 /\ seen = 0 /\ \A l \in Layer : chan[l] = <<>>
  BY EventShape, AgentBetaAssumption DEF Init
<1>4. FeedInv
  <2>1. HandsInv
    BY <1>3 DEF HandsInv, Layer
  <2>2. chan[4] = <<>>
    BY <1>3 DEF Layer
  <2>3. Lined(socket, cur.id, chan[4], latest, seen)
    BY <1>3, <2>2 DEF Lined
  <2> QED BY <2>1, <2>3 DEF FeedInv
<1>5. CountInv
  <2>1. OthersUncounted
    BY <1>3 DEF OthersUncounted, Layer
  <2>2. ASSUME NEW a \in Shunned PROVE Backed(a)
    <3>1. Known = {} /\ chan[3] = <<>> /\ drops[a] = 0 /\ inMap[a] = 0 /\ prev[a] = 0
          /\ dropped[a] = 0
      BY <1>3 DEF Init, NewProfiler, Known, Layer, Zero
    <3>2. Counted(a) = 0 /\ Unreported(a) = 0
      BY <1>3, <3>1 DEF Counted, Unreported, Fresh
    <3>3. PICK T : T = [n \in Nat |-> 0]
      OBVIOUS
    <3>4. Levels(T, 0, <<>>, 0, 0, a)
      BY <3>3 DEF Levels
    <3> QED BY <3>1, <3>2, <3>4 DEF Backed
  <2> QED BY <2>1, <2>2 DEF CountInv
<1> QED BY <1>1, <1>2, <1>4, <1>5 DEF Inv

\* Every step keeps it.
LEMMA InvIsKept == Inv /\ [Next]_vars => Inv'
BY TypesAreKept, RestartsAreKept, FeedIsKept, CountIsKept DEF Inv

\* It is an invariant.
LEMMA InvAlways == Spec => []Inv
BY InitInv, InvIsKept, PTL DEF Spec

(* Every variable keeps its type, no channel is ever over its capacity, and*)
(* the daemon never reads of a violation that was not seen (beta.go:61-81).*)
THEOREM TypeCorrect == Spec => []TypeOK
<1>1. Inv => TypeOK
  <2> SUFFICES ASSUME Inv PROVE TypeOK
    OBVIOUS
  <2>1. latest \in 0..seen
    BY DEF Inv, FeedInv, Lined, Typed, TypedSocket
  <2> QED BY <2>1 DEF Inv, TypeOK, Typed, TypedChannels, TypedHands, TypedSocket, TypedPoll
<1> QED BY <1>1, InvAlways, PTL

(* The LRU list names every profile once and in the order of last sight,   *)
(* and holds no more than maxSize (profiler.go:83-169).                    *)
THEOREM ListIsMap == Spec => []LruMatchesProfiles
<1>1. Inv => LruMatchesProfiles
  BY CacheIsCounted DEF Inv
<1> QED BY <1>1, InvAlways, PTL

(* No newcomer pushes out a profile of 60 points or more before its source *)
(* has been silent for HighDays (profiler.go:147-163).                     *)
THEOREM DangerousStay == Spec => HighValueRetained
<1>1. Inv /\ [Next]_vars =>
        [ \A a \in Known : profiles[a].score >= 60 /\ profiles[a].age < HighDays =>
            a \in Known' /\ profiles'[a].score >= profiles[a].score ]_profilerVars
  <2> SUFFICES ASSUME Inv, [Next]_vars,
                      NEW a \in Known, profiles[a].score >= 60, profiles[a].age < HighDays
               PROVE  a \in Known' /\ profiles'[a].score >= profiles[a].score
    OBVIOUS
  <2> QED BY StepRetains DEF Inv, Typed, TypedHands
<1> QED BY <1>1, InvAlways, PTL DEF Spec, HighValueRetained

(* The daemon misses, while it listens, one alert per restart at most      *)
(* (sendAlert).                                                            *)
THEOREM LossesArePaid == Spec => []OneLossPerRestart
<1>1. Inv => OneLossPerRestart
  BY DEF Inv, RestartInv, OneLossPerRestart, Typed, TypedSocket
<1> QED BY <1>1, InvAlways, PTL

(* A profile never counts more drops than XDP made, whatever the kernel's  *)
(* map forgets and wherever an event is lost (pollL3Drops).                *)
THEOREM DropsCountOnce == Spec => []DropsNeverOvercounted
<1>1. Inv => DropsNeverOvercounted
  <2> SUFFICES ASSUME Inv, NEW a \in Known \cap Shunned PROVE profiles[a].drops <= dropped[a]
    BY DEF DropsNeverOvercounted
  <2>1. /\ Counted(a) \in Nat /\ Unreported(a) \in Nat /\ dropped[a] \in Nat
        /\ chan[3] \in Seq(Event)
    BY CountTypes DEF Inv
  <2>2. PICK T : Levels(T, Counted(a), chan[3], Unreported(a), dropped[a], a)
    BY DEF Inv, CountInv, Backed
  <2>3. Len(chan[3]) \in Nat /\ 0 \in 0..Len(chan[3]) /\ Len(chan[3]) \in 0..Len(chan[3])
    BY <2>1
  <2>4. /\ T[0] \in Nat /\ T[Len(chan[3])] \in Nat /\ Counted(a) <= T[0]
        /\ T[0] <= T[Len(chan[3])] /\ T[Len(chan[3])] + Unreported(a) <= dropped[a]
    <3>1. T \in [Nat -> Nat] /\ Counted(a) <= T[0] /\ T[Len(chan[3])] + Unreported(a) <= dropped[a]
      BY <2>2 DEF Levels
    <3>2. \A i, j \in 0..Len(chan[3]) : i <= j => T[i] <= T[j]
      BY <2>2 DEF Levels
    <3>3. 0 <= Len(chan[3])
      BY <2>3
    <3>4. T[0] <= T[Len(chan[3])]
      BY <2>3, <3>2, <3>3
    <3> QED BY <2>3, <3>1, <3>4
  <2>5. profiles[a].drops \in Nat /\ cur.count \in Nat
    BY DEF Inv, ProfilerTypeOK, Profile, Typed, TypedHands, Event
  <2>6. profiles[a].drops <= Counted(a)
    BY <2>5 DEF Counted
  <2>7. PICK p, x, y, z, u, v \in Nat : /\ p = profiles[a].drops /\ x = Counted(a) /\ y = T[0]
                                        /\ z = T[Len(chan[3])] /\ u = Unreported(a)
                                        /\ v = dropped[a]
    BY <2>1, <2>4, <2>5
  <2>8. p <= x /\ x <= y /\ y <= z /\ z + u <= v
    BY <2>4, <2>6, <2>7
  <2>9. p <= v
    BY <2>8
  <2> QED BY <2>7, <2>9
<1> QED BY <1>1, InvAlways, PTL

-----------------------------------------------------------------------------
(* The refinement.                                                         *)

\* What a sequence of alerts holds.
Written(s) == {s[i] : i \in DOMAIN s}

\* The numbers in a channel with one event more.
LEMMA IdsAppend ==
    ASSUME NEW q \in Seq(Event), NEW r \in Event
    PROVE  Ids(Append(q, r)) = Ids(q) \cup {r.id}
<1>1. /\ DOMAIN q = 1..Len(q) /\ DOMAIN Append(q, r) = 1..(Len(q) + 1) /\ Len(q) \in Nat
      /\ \A i \in 1..Len(q) : Append(q, r)[i] = q[i]
      /\ Append(q, r)[Len(q) + 1] = r
  BY AppendShape
<1>2. \A i : i \in DOMAIN Append(q, r) <=> i \in DOMAIN q \/ i = Len(q) + 1
  BY <1>1
<1> QED BY <1>1, <1>2 DEF Ids

\* The numbers in a channel with its first event gone.
LEMMA IdsTail ==
    ASSUME NEW q \in Seq(Event), q # <<>>
    PROVE  Ids(q) = Ids(Tail(q)) \cup {Head(q).id}
<1>1. /\ DOMAIN q = 1..Len(q) /\ DOMAIN Tail(q) = 1..(Len(q) - 1) /\ Len(q) \in Nat \ {0}
      /\ \A i \in 1..(Len(q) - 1) : Tail(q)[i] = q[i + 1]
      /\ Head(q) = q[1]
  BY TailShape
<1>2. ASSUME NEW i \in DOMAIN q PROVE q[i].id \in Ids(Tail(q)) \cup {Head(q).id}
  <2>1. CASE i = 1
    BY <1>1, <2>1
  <2>2. CASE i # 1
    <3>1. i - 1 \in DOMAIN Tail(q) /\ Tail(q)[i - 1] = q[i]
      BY <1>1, <2>2
    <3> QED BY <3>1 DEF Ids
  <2> QED BY <2>1, <2>2
<1>3. ASSUME NEW i \in DOMAIN Tail(q) PROVE Tail(q)[i].id \in Ids(q)
  <2>1. i + 1 \in DOMAIN q /\ Tail(q)[i] = q[i + 1]
    BY <1>1
  <2> QED BY <2>1 DEF Ids
<1>4. Head(q).id \in Ids(q)
  BY <1>1 DEF Ids
<1> QED BY <1>2, <1>3, <1>4 DEF Ids

\* What is in the socket with one alert more.
LEMMA WrittenAppend ==
    ASSUME NEW s \in Seq(Nat), NEW v \in Nat
    PROVE  Written(Append(s, v)) = Written(s) \cup {v}
<1>1. /\ DOMAIN s = 1..Len(s) /\ DOMAIN Append(s, v) = 1..(Len(s) + 1) /\ Len(s) \in Nat
      /\ \A i \in 1..Len(s) : Append(s, v)[i] = s[i]
      /\ Append(s, v)[Len(s) + 1] = v
  BY AppendShape
<1>2. \A i : i \in DOMAIN Append(s, v) <=> i \in DOMAIN s \/ i = Len(s) + 1
  BY <1>1
<1>3. \A i \in DOMAIN s : i \in DOMAIN Append(s, v) /\ Append(s, v)[i] = s[i]
  BY <1>1, <1>2
<1> QED BY <1>1, <1>2, <1>3, Zenon DEF Written

\* What is in the socket with its first alert read: the first is the least.
LEMMA WrittenTail ==
    ASSUME NEW s \in Seq(Nat), s # <<>>, \A i, j \in DOMAIN s : i < j => s[i] < s[j]
    PROVE  /\ Written(Tail(s)) = Written(s) \ {Head(s)} /\ Head(s) \in Written(s)
           /\ Head(s) \in Nat /\ \A v \in Written(s) : Head(s) <= v
<1>1. /\ DOMAIN s = 1..Len(s) /\ DOMAIN Tail(s) = 1..(Len(s) - 1) /\ Len(s) \in Nat \ {0}
      /\ \A i \in 1..(Len(s) - 1) : Tail(s)[i] = s[i + 1]
      /\ Head(s) = s[1] /\ Head(s) \in Nat
  BY TailShape
<1>2. ASSUME NEW i \in DOMAIN s PROVE Head(s) <= s[i] /\ (i # 1 => Head(s) < s[i])
  <2>1. 1 \in DOMAIN s /\ i \in Nat /\ (i = 1 \/ 1 < i) /\ s[i] \in Nat
    BY <1>1
  <2> QED BY <1>1, <2>1
<1>3. ASSUME NEW i \in DOMAIN s, i # 1 PROVE s[i] \in Written(Tail(s))
  <2>1. i - 1 \in DOMAIN Tail(s) /\ Tail(s)[i - 1] = s[i]
    BY <1>1, <1>3
  <2> QED BY <2>1 DEF Written
<1>4. ASSUME NEW i \in DOMAIN Tail(s)
      PROVE  Tail(s)[i] \in Written(s) /\ Tail(s)[i] # Head(s)
  <2>1. i + 1 \in DOMAIN s /\ Tail(s)[i] = s[i + 1] /\ i + 1 # 1
    BY <1>1
  <2>2. Head(s) < s[i + 1]
    BY <1>2, <2>1
  <2>3. s[i + 1] \in Nat
    BY <2>1
  <2> QED BY <1>1, <2>1, <2>2, <2>3 DEF Written
<1>5. Head(s) \in Written(s)
  <2>1. 1 \in DOMAIN s
    BY <1>1
  <2> QED BY <2>1, <1>1 DEF Written
<1>6. \A v \in Written(s) : v = Head(s) \/ v \in Written(Tail(s))
  <2>1. \A i \in DOMAIN s : s[i] = Head(s) \/ s[i] \in Written(Tail(s))
    BY <1>1, <1>3
  <2> QED BY <2>1, Zenon DEF Written
<1>7. \A v \in Written(Tail(s)) : v \in Written(s) /\ v # Head(s)
  <2>1. \A v \in Written(Tail(s)) : \E i \in DOMAIN Tail(s) : v = Tail(s)[i]
    BY Zenon DEF Written
  <2> QED BY <2>1, <1>4, Zenon
<1>8. \A v \in Written(s) : Head(s) <= v
  <2>1. \A v \in Written(s) : \E i \in DOMAIN s : v = s[i]
    BY Zenon DEF Written
  <2> QED BY <2>1, <1>2, Zenon
<1>9. Written(Tail(s)) = Written(s) \ {Head(s)}
  BY <1>6, <1>7, Zenon
<1> QED BY <1>1, <1>5, <1>8, <1>9, Zenon

\* Every step of AGENT-BETA is a step of the abstract feed, or none.
LEMMA FeedRefinement ==
    ASSUME Inv, [Next]_vars
    PROVE  [Feed!Next]_(Feed!feedVars)
<1>0. /\ Typed /\ FeedInv /\ socket \in Seq(Nat) /\ cur.id \in Nat /\ chan[4] \in Seq(Event)
      /\ latest \in Nat /\ seen \in Nat
      /\ Lined(socket, cur.id, chan[4], latest, seen)
  BY DEF Inv, FeedInv, Typed, TypedSocket, TypedHands, TypedChannels, Event, Layer
<1> DEFINE q == IF pc = "exited" THEN {} ELSE Ids(chan[4])
<1>1. /\ OnTheWay = q \cup ({cur.id} \ {0}) \cup Written(socket)
      /\ OnTheWay' = (IF pc' = "exited" THEN {} ELSE Ids(chan'[4]))
                         \cup ({cur'.id} \ {0}) \cup Written(socket')
  BY DEF OnTheWay, Written, Ids
<1>2. ASSUME UNCHANGED <<seen, latest>>, OnTheWay' \subseteq OnTheWay
      PROVE  [Feed!Next]_(Feed!feedVars)
  BY <1>2 DEF Feed!Next, Feed!Lose, Feed!feedVars
<1>3. ASSUME UNCHANGED <<socket, latest, cur, pc>>, seen < MaxViolations, seen' = seen + 1,
             \/ chan'[4] = chan[4]
             \/ \E r \in Event : r.id = seen + 1 /\ chan'[4] = Append(chan[4], r)
      PROVE  [Feed!Next]_(Feed!feedVars)
  <2>1. Ids(chan'[4]) \in {Ids(chan[4]), Ids(chan[4]) \cup {seen + 1}}
    BY <1>0, <1>3, IdsAppend
  <2>2. OnTheWay' \in {OnTheWay, OnTheWay \cup {seen + 1}}
    BY <1>1, <1>3, <2>1
  <2> QED BY <1>3, <2>2 DEF Feed!Next, Feed!See
<1>4. ASSUME pc = "select", pc' = "profile", chan[4] # <<>>, UNCHANGED <<socket, latest, seen>>,
             cur.id = 0, cur' = Head(chan[4]), chan'[4] = Tail(chan[4])
      PROVE  [Feed!Next]_(Feed!feedVars)
  <2>1. Ids(chan[4]) = Ids(chan'[4]) \cup {cur'.id}
    BY <1>0, <1>4, IdsTail
  <2>2. OnTheWay' \subseteq OnTheWay
    BY <1>1, <1>4, <2>1
  <2> QED BY <1>2, <1>4, <2>2
<1>5. ASSUME pc = "alert", pc' = "select", cur.id # 0, cur'.id = 0, UNCHANGED <<latest, seen>>,
             chan'[4] = chan[4], socket' = socket \/ socket' = Append(socket, cur.id)
      PROVE  [Feed!Next]_(Feed!feedVars)
  <2>1. Written(socket') \subseteq Written(socket) \cup {cur.id}
    BY <1>0, <1>5, WrittenAppend
  <2>2. OnTheWay' \subseteq OnTheWay
    BY <1>1, <1>5, <2>1
  <2> QED BY <1>2, <1>5, <2>2
<1>6. ASSUME socket # <<>>, latest' = Head(socket), socket' = Tail(socket),
             UNCHANGED <<seen, cur, pc, chan>>
      PROVE  [Feed!Next]_(Feed!feedVars)
  <2>1. \A i, j \in DOMAIN socket : i < j => socket[i] < socket[j]
    BY <1>0 DEF Lined
  <2>2. /\ Written(socket') = Written(socket) \ {Head(socket)} /\ Head(socket) \in Written(socket)
        /\ Head(socket) \in Nat /\ \A v \in Written(socket) : Head(socket) <= v
    BY <1>0, <1>6, <2>1, WrittenTail
  <2>3. PICK i \in DOMAIN socket : socket[i] = Head(socket)
    BY <2>2 DEF Written
  <2>4. latest < Head(socket)
    BY <1>0, <2>3 DEF Lined
  <2>5. cur.id # 0 => Head(socket) < cur.id
    BY <1>0, <2>3 DEF Lined
  <2>6. \A v \in Ids(chan[4]) : Head(socket) < v /\ v \in Nat
    <3>1. \A j \in DOMAIN chan[4] : Head(socket) < chan[4][j].id
      BY <1>0, <2>3 DEF Lined
    <3>2. \A j \in DOMAIN chan[4] : chan[4][j].id \in Nat
      <4>1. \A j \in DOMAIN chan[4] : chan[4][j] \in Event
        BY <1>0
      <4> QED BY <4>1 DEF Event
    <3> QED BY <3>1, <3>2 DEF Ids
  <2>7. Head(socket) \notin q \cup ({cur.id} \ {0})
        /\ \A v \in q \cup ({cur.id} \ {0}) : Head(socket) <= v
    <3>1. /\ Head(socket) \notin Ids(chan[4])
          /\ \A v \in Ids(chan[4]) : Head(socket) <= v
      BY <2>2, <2>6
    <3>2. /\ Head(socket) \notin {cur.id} \ {0}
          /\ \A v \in {cur.id} \ {0} : Head(socket) <= v
      BY <1>0, <2>2, <2>5
    <3>3. q \subseteq Ids(chan[4])
      OBVIOUS
    <3> QED BY <3>1, <3>2, <3>3
  <2>8. Head(socket) \in OnTheWay /\ \A w \in OnTheWay : Head(socket) <= w
    BY <1>1, <2>2, <2>7
  <2>9. OnTheWay' = OnTheWay \ {Head(socket)}
    BY <1>1, <1>6, <2>2, <2>7
  <2> QED BY <1>6, <2>4, <2>8, <2>9 DEF Feed!Next, Feed!Deliver
<1>7. ASSUME socket' = <<>>, UNCHANGED <<latest, seen, cur, pc, chan>>
      PROVE  [Feed!Next]_(Feed!feedVars)
  <2>1. Written(socket') = {}
    BY <1>7 DEF Written
  <2>2. OnTheWay' \subseteq OnTheWay
    BY <1>1, <1>7, <2>1
  <2> QED BY <1>2, <1>7, <2>2
<1>8. ASSUME FeedUntouched,
             pc' = pc \/ pc' = "exited" \/ (pc # "exited" /\ pc' # "exited")
      PROVE  [Feed!Next]_(Feed!feedVars)
  <2>1. OnTheWay' \subseteq OnTheWay
    BY <1>1, <1>8 DEF FeedUntouched
  <2> QED BY <1>2, <1>8, <2>1 DEF FeedUntouched
<1> QED BY <1>0, <1>3, <1>4, <1>5, <1>6, <1>7, <1>8, FeedSteps

(* The violations reach the daemon in the order they were seen, each at    *)
(* most once: AGENT-BETA's steps are steps of AlertFeed.  Its fairness,    *)
(* that none stays undecided, is for the model checker.                    *)
THEOREM FeedRefined == Spec => Feed!Init /\ [][Feed!Next]_(Feed!feedVars)
<1>1. Init => Feed!Init
  <2> SUFFICES ASSUME Init PROVE Feed!Init
    OBVIOUS
  <2>1. chan[4] = <<>> /\ cur.id = 0 /\ socket = <<>> /\ seen = 0 /\ latest = 0
    BY EventShape, AgentBetaAssumption DEF Init, Layer
  <2>2. OnTheWay = {}
    BY <2>1 DEF OnTheWay, Ids
  <2> QED BY <2>1, <2>2 DEF Feed!Init
<1>2. Inv /\ [Next]_vars => [Feed!Next]_(Feed!feedVars)
  BY FeedRefinement
<1> QED BY <1>1, <1>2, InvAlways, PTL DEF Spec
================================================================================
