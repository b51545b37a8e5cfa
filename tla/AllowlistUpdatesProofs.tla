------------------------ MODULE AllowlistUpdatesProofs ------------------------
(***************************************************************************)
(* Theorems about AllowlistUpdates, for every width, capacity, set of      *)
(* nonces, grants and targets: the invariants and the action properties    *)
(* its TLC run checks on two-bit addresses.                                *)
(***************************************************************************)
EXTENDS AllowlistUpdates, AllowlistProofs

-----------------------------------------------------------------------------
(* The inductive invariant: besides the checked invariants it says what    *)
(* the signed updates carry (a carve is a plan, made of granted prefixes), *)
(* that nonces identify updates, and that a verdict burns its nonce.       *)

\* The trie holds no more than it can.
HasRoom == Fits(bpf)

EmptyAtBoot == phase = "boot" => DOMAIN entries = {}

CarvesArePlans ==
    \A u \in updates : u.action = "carve" =>
        \E best \in Prefix : /\ Covers(best, u.ip)
                             /\ u.remove = {best}
                             /\ DOMAIN u.add = ExcludeIP(best, u.ip)

\* Prefix p with expiry e lies inside a granted prefix.
Granted(p, e) ==
    \E u \in updates : /\ u.action = "add"
                       /\ \E g \in DOMAIN u.add : Within(p, g) /\ e = u.add[g]

CarvesAreGranted ==
    \A u \in updates : u.action = "carve" =>
        \A p \in DOMAIN u.add : Granted(p, u.add[p])

NoncesIdentify == \A u, v \in updates : u.nonce = v.nonce => u = v

VerdictsBurn == \A n \in Nonce \ nonces : landed[n] = 0 /\ n \notin refused

IInv ==
    /\ TypeOK
    /\ KernelMirrorsEntries /\ HasRoom
    /\ EmptyAtBoot
    /\ EveryEntryIsGranted
    /\ CarvesArePlans
    /\ CarvesAreGranted
    /\ NoncesIdentify
    /\ VerdictsBurn
    /\ OneVerdict

\* What one step adds to the entries, if anything.
Brought(new) ==
    \/ new = Nothing
    \/ \E u \in updates : u.action \in {"add", "carve"} /\ new = u.add
    \/ \E a \in Targets : IsAllowed(a) /\ new = Plan(a).add

LEMMA SubmitPreserves ==
    ASSUME TypeOK, KernelMirrorsEntries, HasRoom, NEW u \in updates, Submit(u)
    PROVE  /\ mapOpen' = mapOpen
           /\ \E new : Brought(new) /\ Preserved(new)
<1>1. /\ IsEntries(entries) /\ Mirrors(bpf, mapOpen, entries) /\ IsUpdate(u)
      /\ IsEntries(u.add)
    BY DEF TypeOK, KernelMirrorsEntries, HasRoom, Mirrors, Allowed, IsEntries, IsUpdate
<1>2. CASE AcceptUpdate(u, clock)
    <2>1. mapOpen' = mapOpen
        BY <1>2 DEF AcceptUpdate
    <2>2. CASE u.action = "add" /\ AddEntries(u.add)
        <3>1. Preserved(u.add)
            BY <1>1, <2>2, AddEntriesPreserves
        <3> QED BY <2>1, <2>2, <3>1 DEF Brought
    <2>3. CASE u.action = "remove" /\ RemoveEntries(u.remove)
        <3>1. Preserved(Nothing)
            BY <1>1, <2>3, RemoveEntriesPreserves
        <3> QED BY <2>1, <3>1 DEF Brought
    <2>4. CASE u.action = "carve" /\ CarveEntries(u.remove, u.add)
        <3>1. Preserved(u.add)
            BY <1>1, <2>4, CarveIsAllOrNothing
        <3> QED BY <2>1, <2>4, <3>1 DEF Brought
    <2>5. CASE u.action = "flush" /\ FlushEntries
        <3>1. Preserved(Nothing)
            BY <1>1, <2>5 DEF FlushEntries, Preserved, ComesFrom
        <3> QED BY <2>1, <3>1 DEF Brought
    <2> QED BY <1>2, <2>2, <2>3, <2>4, <2>5 DEF AcceptUpdate
<1>3. CASE RejectUpdate(u, clock)
    <2>1. mapOpen' = mapOpen /\ Preserved(Nothing)
        BY <1>1, <1>3 DEF RejectUpdate, Preserved, ComesFrom
    <2> QED BY <2>1 DEF Brought
<1> QED BY <1>2, <1>3 DEF Submit

(* What any step does to the entries and the trie.                         *)
StepIsSound ==
    /\ IsEntries(entries')
    /\ Mirrors(bpf', mapOpen', entries')
    /\ \E new : Brought(new) /\ ComesFrom(entries', entries, new)

LEMMA StepPreserves ==
    ASSUME TypeOK, KernelMirrorsEntries, HasRoom, EmptyAtBoot, [Next]_vars
    PROVE  StepIsSound
<1>1. IsEntries(entries) /\ Mirrors(bpf, mapOpen, entries)
    BY DEF TypeOK, KernelMirrorsEntries, HasRoom, Mirrors, Allowed, IsEntries
<1>2. ASSUME NEW new, mapOpen' = mapOpen, Brought(new), Preserved(new) PROVE StepIsSound
    BY <1>2 DEF Preserved, StepIsSound
<1>3. ASSUME entries' = entries, Mirrors(bpf', mapOpen', entries) PROVE StepIsSound
    BY <1>1, <1>3 DEF Brought, ComesFrom, StepIsSound
<1>4. ASSUME UNCHANGED <<mapOpen, entries, bpf>> PROVE StepIsSound
    BY <1>1, <1>3, <1>4
<1>5. CASE Boot
    <2>1. CASE UNCHANGED managerVars
        BY <1>4, <2>1 DEF managerVars
    <2>2. ASSUME NEW outcome, LoadAndAttach(outcome) PROVE StepIsSound
        <3>1. entries' = entries /\ bpf' = {}
            BY <2>2 DEF LoadAndAttach
        <3>2. DOMAIN entries = {}
            BY <1>5 DEF Boot, EmptyAtBoot
        <3> QED BY <1>3, <3>1, <3>2, NothingFits DEF Mirrors
    <2> QED BY <1>5, <2>1, <2>2 DEF Boot
<1>6. CASE Shutdown
    <2>1. entries' = entries /\ bpf' = {} /\ mapOpen' = FALSE
        BY <1>6 DEF Shutdown, Detach
    <2> QED BY <1>3, <2>1, NothingFits DEF Mirrors
<1>7. CASE SignRequest \/ Tick \/ UNCHANGED vars \/ \E a \in Targets : SignCarve(a)
    BY <1>4, <1>7 DEF SignRequest, SignCarve, Sign, Tick, vars, managerVars
<1>8. CASE Cleanup
    <2>1. mapOpen' = mapOpen /\ CleanupExpiredEntries(clock)
        BY <1>8 DEF Cleanup, CleanupExpiredEntries
    <2>2. Preserved(Nothing)
        BY <1>1, <2>1, CleanupPreserves
    <2> QED BY <1>2, <2>1, <2>2 DEF Brought
<1>9. ASSUME NEW a \in Targets, Remove(a) PROVE StepIsSound
    <2>1. mapOpen' = mapOpen /\ RemoveIP(a) /\ a \in Addr
        BY <1>9, UpdatesAssumption DEF Remove, RemoveIP
    <2>2. IsAllowed(a) /\ Preserved(Plan(a).add)
        BY <1>1, <2>1, RemoveIPPreserves
    <2> QED BY <1>2, <2>1, <2>2 DEF Brought
<1>10. ASSUME NEW u \in updates, Submit(u) PROVE StepIsSound
    BY <1>2, <1>10, SubmitPreserves
<1> QED BY <1>5, <1>6, <1>7, <1>8, <1>9, <1>10 DEF Next

-----------------------------------------------------------------------------
(* The signed updates and the verdicts.                                    *)

\* What signing puts into updates.
NewUpdate(u) ==
    /\ IsUpdate(u)
    /\ u.nonce \notin {v.nonce : v \in updates}
    /\ u.action = "carve" => /\ u.ip \in Targets /\ IsAllowed(u.ip)
                             /\ u.add = Plan(u.ip).add /\ u.remove = Plan(u.ip).remove

LEMMA SignIsNew ==
    ASSUME TypeOK, NEW action \in {"add", "remove", "flush", "carve"},
           NEW add, IsEntries(add), NEW remove \in SUBSET Prefix, NEW ip \in Addr,
           action = "carve" => /\ ip \in Targets /\ IsAllowed(ip)
                               /\ add = Plan(ip).add /\ remove = Plan(ip).remove,
           Sign(action, add, remove, ip)
    PROVE  \E u : NewUpdate(u) /\ updates' = updates \cup {u}
<1>1. PICK n \in Nonce \ {u.nonce : u \in updates}, lead \in SignerLead :
          updates' = updates \cup {[action |-> action, add |-> add, remove |-> remove,
                                    ip |-> ip, ts |-> clock + lead, nonce |-> n]}
    BY DEF Sign
<1> DEFINE u == [action |-> action, add |-> add, remove |-> remove,
                 ip |-> ip, ts |-> clock + lead, nonce |-> n]
<1>2. clock + lead \in Nat
    BY UpdatesAssumption DEF TypeOK
<1>3. IsUpdate(u)
    BY <1>2 DEF IsUpdate, IsEntries
<1>4. NewUpdate(u)
    BY <1>3 DEF NewUpdate
<1> QED BY <1>1, <1>4

LEMMA UpdatesGrow ==
    ASSUME TypeOK, [Next]_vars
    PROVE  updates' = updates \/ \E u : NewUpdate(u) /\ updates' = updates \cup {u}
<1>1. CASE SignRequest
    <2> DEFINE any == CHOOSE a \in Addr : TRUE
    <2>1. any \in Addr
        <3>1. [i \in 1..Width |-> 0] \in Addr
            BY DEF Addr, Bit
        <3> QED BY <3>1
    <2>2. \/ \E g \in Grants : Sign("add", g, {}, any)
          \/ \E r \in Removals : Sign("remove", Nothing, r, any)
          \/ Sign("flush", Nothing, {}, any)
        BY <1>1 DEF SignRequest
    <2> HIDE DEF any
    <2>3. ASSUME NEW g \in Grants, Sign("add", g, {}, any)
          PROVE  \E u : NewUpdate(u) /\ updates' = updates \cup {u}
        <3>1. IsEntries(g)
            BY UpdatesAssumption DEF IsEntries
        <3> QED BY <2>1, <2>3, <3>1, SignIsNew
    <2>4. ASSUME NEW r \in Removals, Sign("remove", Nothing, r, any)
          PROVE  \E u : NewUpdate(u) /\ updates' = updates \cup {u}
        <3>1. r \in SUBSET Prefix
            BY UpdatesAssumption
        <3> QED BY <2>1, <2>4, <3>1, NothingIsEntries, SignIsNew
    <2>5. ASSUME Sign("flush", Nothing, {}, any)
          PROVE  \E u : NewUpdate(u) /\ updates' = updates \cup {u}
        BY <2>1, <2>5, NothingIsEntries, SignIsNew
    <2> QED BY <2>2, <2>3, <2>4, <2>5
<1>2. ASSUME NEW a \in Targets, SignCarve(a)
      PROVE  \E u : NewUpdate(u) /\ updates' = updates \cup {u}
    <2>1. a \in Addr /\ IsAllowed(a) /\ IsEntries(entries)
        BY <1>2, UpdatesAssumption DEF SignCarve, TypeOK, IsEntries, Allowed
    <2>2. PICK best \in DOMAIN entries : Plan(a).remove = {best} /\ IsEntries(Plan(a).add)
        BY <2>1, PlanShape
    <2>3. Plan(a).remove \in SUBSET Prefix
        BY <2>1, <2>2 DEF IsEntries
    <2>4. Sign("carve", Plan(a).add, Plan(a).remove, a)
        BY <1>2 DEF SignCarve
    <2> QED BY <2>1, <2>2, <2>3, <2>4, SignIsNew
<1>3. CASE Boot \/ Shutdown \/ Cleanup \/ Tick \/ UNCHANGED vars
           \/ (\E a \in Targets : Remove(a)) \/ (\E u \in updates : Submit(u))
    BY <1>3 DEF Boot, Shutdown, Cleanup, Tick, vars, Remove, Submit
<1> QED BY <1>1, <1>2, <1>3 DEF Next

\* What a submission does to the verdicts: one, and only for an unseen nonce, or none.
LEMMA VerdictShape ==
    ASSUME TypeOK, [Next]_vars
    PROVE  \/ UNCHANGED <<nonces, landed, refused>>
           \/ \E u \in updates :
                 /\ Submit(u)
                 /\ nonces' = nonces \cup {u.nonce}
                 /\ \/ /\ u.nonce \notin nonces
                       /\ landed' = [landed EXCEPT ![u.nonce] = @ + 1] /\ refused' = refused
                    \/ /\ u.nonce \notin nonces
                       /\ landed' = landed /\ refused' = refused \cup {u.nonce}
                    \/ landed' = landed /\ refused' = refused
<1>1. ASSUME NEW u \in updates, Submit(u)
      PROVE  /\ nonces' = nonces \cup {u.nonce}
             /\ \/ /\ u.nonce \notin nonces
                   /\ landed' = [landed EXCEPT ![u.nonce] = @ + 1] /\ refused' = refused
                \/ /\ u.nonce \notin nonces
                   /\ landed' = landed /\ refused' = refused \cup {u.nonce}
                \/ landed' = landed /\ refused' = refused
    BY <1>1 DEF Submit, AcceptUpdate, RejectUpdate, Accepts
<1>2. CASE Boot \/ Shutdown \/ Cleanup \/ Tick \/ UNCHANGED vars \/ SignRequest
           \/ (\E a \in Targets : Remove(a) \/ SignCarve(a))
    BY <1>2 DEF Boot, LoadAndAttach, Shutdown, Detach, Cleanup, CleanupExpiredEntries, Tick,
                vars, managerVars, SignRequest, SignCarve, Sign, Remove, RemoveIP
<1> QED BY <1>1, <1>2 DEF Next

-----------------------------------------------------------------------------
(* IInv is inductive, one lemma per conjunct.                              *)

LEMMA InitEstablishesIInv == Init => IInv
<1> SUFFICES ASSUME Init PROVE IInv
    OBVIOUS
<1>1. /\ entries = Nothing /\ bpf = {} /\ nonces = {} /\ updates = {} /\ refused = {}
      /\ attached = FALSE /\ mapOpen = FALSE /\ wedged = FALSE /\ phase = "boot" /\ clock = 0
      /\ landed = [n \in Nonce |-> 0]
    BY DEF Init, ManagerInit, Nothing
<1>2. IsEntries(entries) /\ DOMAIN entries = {}
    BY <1>1, NothingIsEntries
<1>3. TypeOK
    BY <1>1, <1>2 DEF TypeOK, IsEntries, Allowed
<1>4. KernelMirrorsEntries /\ HasRoom /\ EmptyAtBoot /\ EveryEntryIsGranted
    BY <1>1, <1>2, NothingFits DEF KernelMirrorsEntries, HasRoom, EmptyAtBoot, EveryEntryIsGranted, Allowed
<1>5. CarvesArePlans /\ CarvesAreGranted /\ NoncesIdentify
    BY <1>1 DEF CarvesArePlans, CarvesAreGranted, NoncesIdentify
<1>6. VerdictsBurn /\ OneVerdict
    BY <1>1 DEF VerdictsBurn, OneVerdict
<1> QED BY <1>3, <1>4, <1>5, <1>6 DEF IInv

LEMMA TypeIsPreserved ==
    ASSUME IInv, [Next]_vars
    PROVE  TypeOK'
<1>1. TypeOK /\ KernelMirrorsEntries /\ HasRoom /\ EmptyAtBoot
    BY DEF IInv
<1>2. IsEntries(entries') /\ Mirrors(bpf', mapOpen', entries')
    BY <1>1, StepPreserves DEF StepIsSound
<1>3. Allowed' \subseteq Prefix /\ entries' \in [Allowed' -> Nat] /\ bpf' \subseteq Prefix
    BY <1>2 DEF IsEntries, Mirrors, Allowed
<1>4. \A u \in updates' : IsUpdate(u)
    BY <1>1, UpdatesGrow DEF TypeOK, NewUpdate
<1>5. nonces' \subseteq Nonce /\ refused' \subseteq Nonce /\ landed' \in [Nonce -> Nat]
    <2>1. CASE UNCHANGED <<nonces, landed, refused>>
        BY <1>1, <2>1 DEF TypeOK
    <2>2. ASSUME NEW u \in updates,
                 nonces' = nonces \cup {u.nonce},
                 \/ landed' = [landed EXCEPT ![u.nonce] = @ + 1] /\ refused' = refused
                 \/ landed' = landed /\ refused' = refused \cup {u.nonce}
                 \/ landed' = landed /\ refused' = refused
          PROVE  nonces' \subseteq Nonce /\ refused' \subseteq Nonce /\ landed' \in [Nonce -> Nat]
        <3>1. u.nonce \in Nonce
            BY <1>1 DEF TypeOK, IsUpdate
        <3> QED BY <1>1, <2>2, <3>1 DEF TypeOK
    <2> QED BY <1>1, <2>1, <2>2, VerdictShape
<1>6. attached' \in BOOLEAN /\ mapOpen' \in BOOLEAN /\ wedged' \in BOOLEAN
    <2>1. ASSUME NEW u \in updates, Submit(u)
          PROVE  attached' = attached /\ mapOpen' = mapOpen /\ wedged' \in {TRUE, FALSE, wedged}
        BY <2>1 DEF Submit, AcceptUpdate, RejectUpdate, FlushEntries
    <2>2. CASE \E u \in updates : Submit(u)
        BY <1>1, <2>1, <2>2 DEF TypeOK
    <2>3. CASE Boot
        <3>1. ASSUME NEW outcome, LoadAndAttach(outcome)
              PROVE  attached' \in BOOLEAN /\ mapOpen' \in BOOLEAN /\ wedged' = wedged
            BY <3>1 DEF LoadAndAttach
        <3> QED BY <1>1, <2>3, <3>1 DEF Boot, TypeOK, managerVars
    <2>4. CASE Shutdown
        BY <1>1, <2>4 DEF Shutdown, Detach, TypeOK
    <2>5. CASE Cleanup \/ Tick \/ UNCHANGED vars \/ SignRequest
               \/ \E a \in Targets : Remove(a) \/ SignCarve(a)
        <3>1. attached' = attached /\ mapOpen' = mapOpen /\ wedged' = wedged
            BY <2>5 DEF Cleanup, CleanupExpiredEntries, Tick, vars, managerVars, SignRequest,
                        SignCarve, Sign, Remove, RemoveIP
        <3> QED BY <1>1, <3>1 DEF TypeOK
    <2> QED BY <2>2, <2>3, <2>4, <2>5 DEF Next
<1>7. phase' \in {"boot", "running", "stopped"} /\ clock' \in Nat
    BY <1>1 DEF TypeOK, Next, Boot, Shutdown, Cleanup, Tick, vars, SignRequest, SignCarve, Sign,
                Remove, Submit
<1> QED BY <1>3, <1>4, <1>5, <1>6, <1>7 DEF TypeOK

LEMMA BootIsPreserved ==
    ASSUME IInv, [Next]_vars
    PROVE  EmptyAtBoot'
<1>1. SUFFICES ASSUME phase' = "boot" PROVE DOMAIN entries' = {}
    BY DEF EmptyAtBoot
<1>2. phase = "boot" /\ entries' = entries
    BY <1>1 DEF Next, Boot, Shutdown, Cleanup, Tick, vars, managerVars, SignRequest, SignCarve,
                Sign, Remove, Submit, IInv, TypeOK
<1> QED BY <1>2 DEF IInv, EmptyAtBoot

LEMMA GrantsPersist ==
    ASSUME TypeOK, [Next]_vars, NEW p, NEW e, Granted(p, e)
    PROVE  Granted(p, e)'
BY UpdatesGrow DEF Granted

LEMMA PlansAreGranted ==
    ASSUME IInv, NEW a \in Addr, IsAllowed(a), NEW p \in DOMAIN Plan(a).add
    PROVE  Granted(p, Plan(a).add[p])
<1>1. IsEntries(entries)
    BY DEF IInv, TypeOK, IsEntries, Allowed
<1>2. PICK best \in DOMAIN entries :
          /\ Covers(best, a)
          /\ DOMAIN Plan(a).add = ExcludeIP(best, a)
          /\ \A q \in ExcludeIP(best, a) : Plan(a).add[q] = entries[best]
    BY <1>1, PlanShape
<1>3. Within(p, best)
    BY <1>1, <1>2, PiecesLieInside DEF IsEntries
<1>4. PICK u \in updates :
          /\ u.action = "add"
          /\ \E g \in DOMAIN u.add : Within(best, g) /\ entries[best] = u.add[g]
    BY <1>2 DEF IInv, EveryEntryIsGranted, Allowed
<1>5. PICK g \in DOMAIN u.add : Within(best, g) /\ entries[best] = u.add[g]
    BY <1>4
<1>6. Within(p, g)
    BY <1>3, <1>5, WithinIsTransitive
<1>7. Plan(a).add[p] = u.add[g]
    BY <1>2, <1>5
<1> QED BY <1>4, <1>6, <1>7 DEF Granted

LEMMA GrantIsPreserved ==
    ASSUME IInv, [Next]_vars
    PROVE  EveryEntryIsGranted'
<1>1. TypeOK /\ KernelMirrorsEntries /\ HasRoom /\ EmptyAtBoot
    BY DEF IInv
<1>2. PICK new : Brought(new) /\ ComesFrom(entries', entries, new)
    BY <1>1, StepPreserves DEF StepIsSound
<1>3. ASSUME NEW p \in DOMAIN entries' PROVE Granted(p, entries'[p])
    <2>1. CASE p \in DOMAIN entries /\ entries'[p] = entries[p]
        BY <2>1 DEF IInv, EveryEntryIsGranted, Granted, Allowed
    <2>2. CASE p \in DOMAIN new /\ entries'[p] = new[p]
        <3>1. CASE new = Nothing
            BY <2>2, <3>1, NothingIsEntries
        <3>2. ASSUME NEW u \in updates, u.action = "add", new = u.add
              PROVE  Granted(p, entries'[p])
            BY <2>2, <3>2, WithinIsReflexive DEF Granted
        <3>3. ASSUME NEW u \in updates, u.action = "carve", new = u.add
              PROVE  Granted(p, entries'[p])
            BY <2>2, <3>3 DEF IInv, CarvesAreGranted
        <3>4. ASSUME NEW a \in Targets, IsAllowed(a), new = Plan(a).add
              PROVE  Granted(p, entries'[p])
            BY <2>2, <3>4, PlansAreGranted, UpdatesAssumption
        <3> QED BY <1>2, <3>1, <3>2, <3>3, <3>4 DEF Brought
    <2> QED BY <1>2, <2>1, <2>2 DEF ComesFrom
<1>4. ASSUME NEW p \in DOMAIN entries'
      PROVE  \E u \in updates' : /\ u.action = "add"
                                 /\ \E g \in DOMAIN u.add : Within(p, g) /\ entries'[p] = u.add[g]
    <2>1. Granted(p, entries'[p])
        BY <1>3
    <2>2. updates \subseteq updates'
        BY <1>1, UpdatesGrow
    <2> QED BY <2>1, <2>2 DEF Granted
<1> QED BY <1>4 DEF EveryEntryIsGranted, Allowed

LEMMA CarvesStayPlanned ==
    ASSUME IInv, [Next]_vars
    PROVE  CarvesArePlans' /\ CarvesAreGranted' /\ NoncesIdentify'
<1>1. TypeOK /\ IsEntries(entries) /\ CarvesArePlans /\ CarvesAreGranted /\ NoncesIdentify
    BY DEF IInv, TypeOK, IsEntries, Allowed
<1>2. CASE updates' = updates
    BY <1>1, <1>2 DEF CarvesArePlans, CarvesAreGranted, NoncesIdentify, Granted
<1>3. ASSUME NEW w, NewUpdate(w), updates' = updates \cup {w}
      PROVE  CarvesArePlans' /\ CarvesAreGranted' /\ NoncesIdentify'
    <2>1. w.action = "carve" => /\ w.ip \in Addr /\ IsAllowed(w.ip)
                                /\ w.add = Plan(w.ip).add /\ w.remove = Plan(w.ip).remove
        BY <1>3, UpdatesAssumption DEF NewUpdate
    <2>2. w.action = "carve" =>
              \E best \in Prefix : /\ Covers(best, w.ip)
                                   /\ w.remove = {best}
                                   /\ DOMAIN w.add = ExcludeIP(best, w.ip)
        BY <1>1, <2>1, PlanShape DEF IsEntries
    <2>3. CarvesArePlans'
        BY <1>1, <1>3, <2>2 DEF CarvesArePlans
    <2>4. w.action = "carve" => \A p \in DOMAIN w.add : Granted(p, w.add[p])
        BY <2>1, PlansAreGranted
    <2>5. \A u \in updates' : u.action = "carve" =>
              \A p \in DOMAIN u.add : Granted(p, u.add[p])
        BY <1>1, <1>3, <2>4 DEF CarvesAreGranted
    <2>6. \A p, e : Granted(p, e) => Granted(p, e)'
        BY <1>3 DEF Granted
    <2>7. CarvesAreGranted'
        BY <2>5, <2>6 DEF CarvesAreGranted
    <2>8. NoncesIdentify'
        BY <1>1, <1>3 DEF NoncesIdentify, NewUpdate
    <2> QED BY <2>3, <2>7, <2>8
<1> QED BY <1>1, <1>2, <1>3, UpdatesGrow

LEMMA VerdictsArePreserved ==
    ASSUME IInv, [Next]_vars
    PROVE  VerdictsBurn' /\ OneVerdict'
<1>1. TypeOK /\ VerdictsBurn /\ OneVerdict
    BY DEF IInv
<1>2. CASE UNCHANGED <<nonces, landed, refused>>
    BY <1>1, <1>2 DEF VerdictsBurn, OneVerdict
<1>3. ASSUME NEW u \in updates, nonces' = nonces \cup {u.nonce}, u.nonce \notin nonces,
             landed' = [landed EXCEPT ![u.nonce] = @ + 1], refused' = refused
      PROVE  VerdictsBurn' /\ OneVerdict'
    <2>1. u.nonce \in Nonce /\ landed[u.nonce] = 0 /\ u.nonce \notin refused
        BY <1>1, <1>3 DEF TypeOK, IsUpdate, VerdictsBurn
    <2>2. /\ landed'[u.nonce] = 1
          /\ \A n \in Nonce \ {u.nonce} : landed'[n] = landed[n]
        BY <1>1, <1>3, <2>1 DEF TypeOK
    <2> QED BY <1>1, <1>3, <2>1, <2>2 DEF VerdictsBurn, OneVerdict
<1>4. ASSUME NEW u \in updates, nonces' = nonces \cup {u.nonce}, u.nonce \notin nonces,
             landed' = landed, refused' = refused \cup {u.nonce}
      PROVE  VerdictsBurn' /\ OneVerdict'
    <2>1. u.nonce \in Nonce /\ landed[u.nonce] = 0 /\ u.nonce \notin refused
        BY <1>1, <1>4 DEF TypeOK, IsUpdate, VerdictsBurn
    <2> QED BY <1>1, <1>4, <2>1 DEF VerdictsBurn, OneVerdict
<1>5. ASSUME NEW u \in updates, nonces' = nonces \cup {u.nonce},
             landed' = landed, refused' = refused
      PROVE  VerdictsBurn' /\ OneVerdict'
    BY <1>1, <1>5 DEF VerdictsBurn, OneVerdict
<1> QED BY <1>1, <1>2, <1>3, <1>4, <1>5, VerdictShape

LEMMA StepPreservesIInv == IInv /\ [Next]_vars => IInv'
<1> SUFFICES ASSUME IInv, [Next]_vars PROVE IInv'
    OBVIOUS
<1>1. TypeOK /\ KernelMirrorsEntries /\ HasRoom /\ EmptyAtBoot
    BY DEF IInv
<1>2. KernelMirrorsEntries' /\ HasRoom'
    BY <1>1, StepPreserves DEF StepIsSound, Mirrors, KernelMirrorsEntries, HasRoom, Allowed
<1> QED BY <1>2, TypeIsPreserved, BootIsPreserved, GrantIsPreserved, CarvesStayPlanned,
           VerdictsArePreserved DEF IInv

LEMMA IInvHolds == Spec => []IInv
<1> QED BY InitEstablishesIInv, StepPreservesIInv, PTL DEF Spec

-----------------------------------------------------------------------------
(* The invariants, for every value of the constants.                       *)

(* The manager's state and the signed updates keep their types.            *)
THEOREM TypeCorrect == Spec => []TypeOK
<1>1. IInv => TypeOK
    BY DEF IInv
<1> QED BY <1>1, IInvHolds, PTL

(* Whatever addEntryLocked, removeEntryLocked, a full trie, a missing key, *)
(* a rollback or an interrupted RemoveIP do: the BPF trie and the entries  *)
(* list the same prefixes.                                                 *)
THEOREM MirrorIsExact == Spec => []KernelMirrorsEntries
<1>1. IInv => KernelMirrorsEntries
    BY DEF IInv
<1> QED BY <1>1, IInvHolds, PTL

(* No entry without a signed grant, through any chain of carve-outs.       *)
THEOREM NoUngrantedEntry == Spec => []EveryEntryIsGranted
<1>1. IInv => EveryEntryIsGranted
    BY DEF IInv
<1> QED BY <1>1, IInvHolds, PTL

(* The nonce table gives every signed update at most one verdict.          *)
THEOREM VerdictIsFinal == Spec => []OneVerdict
<1>1. IInv => OneVerdict
    BY DEF IInv
<1> QED BY <1>1, IInvHolds, PTL

-----------------------------------------------------------------------------
(* Carve-outs.  Below, u is a carve that lands in the step considered.     *)

LEMMA LandingCarve ==
    ASSUME IInv, [Next]_vars, NEW u \in updates, Carves(u)
    PROVE  /\ IsEntries(entries) /\ Mirrors(bpf, mapOpen, entries)
           /\ IsUpdate(u) /\ IsEntries(u.add)
           /\ CarveEntries(u.remove, u.add)
<1>1. /\ IsEntries(entries) /\ Mirrors(bpf, mapOpen, entries)
      /\ IsUpdate(u) /\ IsEntries(u.add)
    BY DEF IInv, TypeOK, KernelMirrorsEntries, HasRoom, Mirrors, Allowed, IsEntries, IsUpdate
<1>2. landed'[u.nonce] # landed[u.nonce] /\ u.action = "carve"
    BY DEF Carves
<1>3. ASSUME NEW w \in updates, Submit(w) PROVE CarveEntries(u.remove, u.add)
    <2>1. AcceptUpdate(w, clock) /\ landed' = [landed EXCEPT ![w.nonce] = @ + 1]
        BY <1>2, <1>3 DEF Submit
    <2>2. u.nonce = w.nonce
        BY <1>1, <1>2, <2>1 DEF IInv, TypeOK, IsUpdate
    <2>3. u = w
        BY <2>2 DEF IInv, NoncesIdentify
    <2> QED BY <1>2, <2>1, <2>3 DEF AcceptUpdate
<1>4. CASE ~\E w \in updates : Submit(w)
    <2>1. landed' = landed
        BY <1>4 DEF Next, Boot, Shutdown, SignRequest, SignCarve, Sign, Cleanup, Tick, Remove, vars
    <2> QED BY <1>2, <2>1
<1> QED BY <1>1, <1>3, <1>4

LEMMA CarvePlan ==
    ASSUME IInv, NEW u \in updates, u.action = "carve"
    PROVE  \E best \in Prefix : /\ Covers(best, u.ip)
                                /\ u.remove = {best}
                                /\ DOMAIN u.add = ExcludeIP(best, u.ip)
BY DEF IInv, CarvesArePlans

LEMMA SplittingStep ==
    ASSUME IInv, [Next]_vars, mapOpen, NEW u \in updates, Carves(u), entries' # entries
    PROVE  \E best \in Allowed : /\ Covers(best, u.ip) /\ u.ip \in Addr /\ Allowed \subseteq Prefix
                                 /\ Allowed' = (Allowed \ {best}) \cup ExcludeIP(best, u.ip)
<1>1. /\ IsEntries(entries) /\ Mirrors(bpf, mapOpen, entries) /\ IsEntries(u.add)
      /\ CarveEntries(u.remove, u.add) /\ u.action = "carve" /\ u.ip \in Addr
    BY LandingCarve DEF Carves, IsUpdate
<1>2. PICK best \in Prefix : /\ Covers(best, u.ip)
                             /\ u.remove = {best}
                             /\ DOMAIN u.add = ExcludeIP(best, u.ip)
    BY <1>1, CarvePlan
<1>3. /\ u.remove \subseteq bpf
      /\ DOMAIN entries' = (DOMAIN entries \ u.remove) \cup DOMAIN u.add
    BY <1>1, CarveIsAllOrNothing DEF CarveSucceeds
<1> QED BY <1>1, <1>2, <1>3 DEF Mirrors, Allowed, IsEntries

LEMMA SurgicalStep ==
    ASSUME IInv, [Next]_vars, mapOpen, NEW u \in updates, Carves(u)
    PROVE  /\ Covered(Allowed') \subseteq Covered(Allowed)
           /\ Covered(Allowed) \ Covered(Allowed') \subseteq {u.ip}
<1>1. CASE entries' = entries
    BY <1>1 DEF Allowed
<1>2. CASE entries' # entries
    BY <1>2, SplittingStep, SplittingIsSurgical
<1> QED BY <1>1, <1>2

LEMMA DenyingStep ==
    ASSUME IInv, [Next]_vars, mapOpen, Disjoint(Allowed), NEW u \in updates, Carves(u),
           entries' # entries
    PROVE  u.ip \notin Covered(Allowed') /\ Disjoint(Allowed')
BY SplittingStep, SplittingDenies

(* A landed carve lets nobody in and shuts out nobody but its target,      *)
(* however stale its plan.                                                 *)
THEOREM CarveIsSurgicalAlways == Spec => CarveIsSurgical
<1>1. IInv /\ [Next]_vars =>
        [mapOpen => \A u \in updates : Carves(u) =>
            /\ Covered(Allowed') \subseteq Covered(Allowed)
            /\ Covered(Allowed) \ Covered(Allowed') \subseteq {u.ip}]_vars
    BY SurgicalStep
<1> QED BY <1>1, IInvHolds, PTL DEF Spec, CarveIsSurgical

(* Over an allowlist without nested prefixes a carve that is applied       *)
(* denies its target and leaves no nesting behind.                         *)
THEOREM CarveDeniesAlways == Spec => CarveDenies
<1>1. IInv /\ [Next]_vars =>
        [mapOpen /\ Disjoint(Allowed) => \A u \in updates :
            Carves(u) /\ entries' # entries =>
                u.ip \notin Covered(Allowed') /\ Disjoint(Allowed')]_vars
    BY DenyingStep
<1> QED BY <1>1, IInvHolds, PTL DEF Spec, CarveDenies

(* carveEntriesLocked is all or nothing, in memory and in the kernel: its  *)
(* rollback, which ignores errors, meets none, because the two sides are   *)
(* equal when it begins and what it puts back had room before.             *)
THEOREM CarveIsAtomicAlways == Spec => CarveIsAtomic
<1>1. ASSUME IInv, [Next]_vars, NEW u \in updates, Carves(u)
      PROVE  \/ UNCHANGED <<entries, bpf>>
             \/ /\ Allowed' = (Allowed \ u.remove) \cup DOMAIN u.add
                /\ mapOpen => bpf' = (bpf \ u.remove) \cup DOMAIN u.add
    <2>1. /\ IsEntries(entries) /\ Mirrors(bpf, mapOpen, entries)
          /\ IsEntries(u.add) /\ CarveEntries(u.remove, u.add)
        BY <1>1, LandingCarve
    <2> QED BY <2>1, CarveIsAllOrNothing DEF Allowed
<1>2. IInv /\ [Next]_vars =>
        [\A u \in updates : Carves(u) =>
            \/ UNCHANGED <<entries, bpf>>
            \/ /\ Allowed' = (Allowed \ u.remove) \cup DOMAIN u.add
               /\ mapOpen => bpf' = (bpf \ u.remove) \cup DOMAIN u.add]_vars
    BY <1>1
<1> QED BY <1>2, IInvHolds, PTL DEF Spec, CarveIsAtomic
=============================================================================
