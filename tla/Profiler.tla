------------------------------- MODULE Profiler -------------------------------
(***************************************************************************)
(* AGENT-BETA's attacker profiles (agents/beta/profiler.go): a map with an *)
(* LRU list beside it, and an eviction rule that keeps the dangerous ones. *)
(* Only the correlator calls it, so a call is a step of that goroutine.    *)
(* RunEvictionLoop is not here: nothing in the program starts it.          *)
(***************************************************************************)
EXTENDS Naturals, Sequences, FiniteSets

CONSTANTS Address,    \* source addresses; the empty string is one (NoIP)
          LowDays,    \* after which a score under 20 may go (24h)
          HighDays    \* up to which a score of 60 stays (7 days)

ASSUME ProfilerAssumption ==
    LowDays \in Nat /\ HighDays \in Nat /\ LowDays < HighDays

VARIABLES profiles,   \* address -> profile, for the profiles kept
          lru,        \* their addresses, most recently used first
          maxSize     \* how many there may be (50000); NewProfiler sets it

profilerVars == <<profiles, lru, maxSize>>

\* age: whole days since LastSeen, counted no further than the rule looks.
Profile == [score : Nat, drops : Nat, age : 0..HighDays]

NewProfile == [score |-> 0, drops |-> 0, age |-> 0]

Known == DOMAIN profiles

NewProfiler(size) == profiles = [a \in {} |-> NewProfile] /\ lru = <<>> /\ maxSize = size

\* Slip: the score that protects is read from the wrong side.
EvictableBackwards(a) ==
    LET p == profiles[a]
    IN  \/ p.score < 20 /\ p.age > LowDays
        \/ ~(p.score <= 60 /\ p.age < HighDays)

\* Slip: a dangerous profile is kept for ever.
EvictableNever(a) ==
    LET p == profiles[a]
    IN  \/ p.score < 20 /\ p.age > LowDays
        \/ ~(p.score >= 60)

\* evictOne's rule: what its scan from the back of the list stops at.
Evictable(a) ==
    LET p == profiles[a]
    IN  \/ p.score < 20 /\ p.age > LowDays
        \/ ~(p.score >= 60 /\ p.age < HighDays)

EvictablePlaces == {i \in DOMAIN lru : Evictable(lru[i])}

\* Where evictOne's scan from the back of the list stops, and whom it removes.
VictimPlace == CHOOSE i \in EvictablePlaces : \A j \in EvictablePlaces : j <= i
Victim == lru[VictimPlace]

\* What the callers do to the profile under profile.mu: count the hit, see the source.
Touched(a, points, count) ==
    LET p == IF a \in Known THEN profiles[a] ELSE NewProfile
    IN  [score |-> p.score + points, drops |-> p.drops + count, age |-> 0]

\* The list with a at its front, and no more at place i what was there.
Fronted(a, i) == <<a>> \o SubSeq(lru, 1, i - 1) \o SubSeq(lru, i + 1, Len(lru))

\* The map of those who stay, and a.
Updated(kept, a, points, count) ==
    [b \in kept \cup {a} |-> IF b = a THEN Touched(a, points, count) ELSE profiles[b]]

\* Slip: the list forgets the victim, the map does not.
AdmitLeavingVictim(a, points, count) ==
    /\ \/ /\ a \in Known
          /\ \E i \in DOMAIN lru : lru[i] = a /\ lru' = Fronted(a, i)
       \/ /\ a \notin Known /\ Len(lru) < maxSize
          /\ lru' = <<a>> \o lru
       \/ /\ a \notin Known /\ Len(lru) >= maxSize /\ EvictablePlaces # {}
          /\ lru' = Fronted(a, VictimPlace)
    /\ profiles' = Updated(Known, a, points, count)
    /\ UNCHANGED maxSize

\* GetOrCreate(a) and its caller's update: a known address moves to the front, a newcomer
\* to a full cache pushes somebody out.  Nobody to push out: evictOne is called again and
\* again, with p.mu held, and the caller has no step.
Admit(a, points, count) ==
    /\ \/ /\ a \in Known
          /\ \E i \in DOMAIN lru : lru[i] = a /\ lru' = Fronted(a, i)
          /\ profiles' = Updated(Known, a, points, count)
       \/ /\ a \notin Known /\ Len(lru) < maxSize
          /\ lru' = <<a>> \o lru
          /\ profiles' = Updated(Known, a, points, count)
       \/ /\ a \notin Known /\ Len(lru) >= maxSize /\ EvictablePlaces # {}
          /\ lru' = Fronted(a, VictimPlace)
          /\ profiles' = Updated(Known \ {Victim}, a, points, count)
    /\ UNCHANGED maxSize

\* A day passes.
Age == /\ profiles' = [a \in Known |-> [profiles[a] EXCEPT !.age =
                                          IF @ < HighDays THEN @ + 1 ELSE @]]
       /\ UNCHANGED <<lru, maxSize>>

-----------------------------------------------------------------------------
ProfilerTypeOK ==
    /\ Known \subseteq Address /\ profiles \in [Known -> Profile]
    /\ lru \in Seq(Address) /\ maxSize \in Nat \ {0}

(* The list and the map stay one cache: the list names every profile once, *)
(* holds no more than maxSize, and is in the order in which the sources    *)
(* were last seen, so that the back of the list is what evictOne takes it  *)
(* for (profiler.go:126-169).                                              *)
LruMatchesProfiles ==
    /\ {lru[i] : i \in DOMAIN lru} = Known
    /\ Len(lru) = Cardinality(Known) /\ Len(lru) <= maxSize
    /\ \A i, j \in DOMAIN lru : i < j => profiles[lru[i]].age <= profiles[lru[j]].age

(* "High-value profiles (score > 60): retain 7 days in-memory"             *)
(* (profiler.go:7), however many sources compete for the cache: a profile  *)
(* of 60 points or more, the bound of evictOne (159), is there until its   *)
(* source has been silent for HighDays, and loses no point.                *)
HighValueRetained ==
    [][ \A a \in Known : profiles[a].score >= 60 /\ profiles[a].age < HighDays =>
            a \in Known' /\ profiles'[a].score >= profiles[a].score ]_profilerVars
===============================================================================
