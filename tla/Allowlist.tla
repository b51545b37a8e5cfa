------------------------------ MODULE Allowlist ------------------------------
(***************************************************************************)
(* The layer-3 allowlist manager (firewall/layer3/allowlist_manager.go):   *)
(* its in-memory entries, the BPF LPM trie that mirrors them, the nonces   *)
(* of the signed updates it has seen.  Every exported method holds am.mu   *)
(* for its whole body, so each is one action; what the clock reads is a    *)
(* parameter.  The modules that EXTEND this one say who calls the methods. *)
(***************************************************************************)
EXTENDS Cidr, FiniteSets, Functions

CONSTANTS MaxEntries,  \* MAX_ALLOWLIST: capacity of the BPF trie
          MaxAge,      \* seconds an update stays fresh (60)
          MaxSkew      \* seconds an update may lie in the future (10)

ASSUME AllowlistAssumption == MaxEntries \in Nat /\ MaxAge \in Nat /\ MaxSkew \in Nat

VARIABLES
    attached,   \* the XDP program is attached
    mapOpen,    \* am.allowlistMap # nil
    entries,    \* am.entries: prefix -> ExpiresAt (0 = permanent)
    bpf,        \* keys of the BPF trie (every value is 1)
    nonces,     \* am.nonces
    wedged      \* a goroutine holds am.mu and waits for am.mu

managerVars == <<attached, mapOpen, entries, bpf, nonces, wedged>>

Nothing    == [p \in {} |-> 0]
Allowed    == DOMAIN entries
Drop(f, S) == Restrict(f, DOMAIN f \ S)

\* entries after writing new over old.
Put(new, old) == [p \in DOMAIN new \cup DOMAIN old |->
                     IF p \in DOMAIN new THEN new[p] ELSE old[p]]

Fits(keys) == Cardinality(keys) <= MaxEntries

\* What the XDP program lets in: any prefix of the trie, 1 for every key.
KernelAdmits == IF attached THEN Covered(bpf) ELSE Addr

ManagerInit ==
    /\ attached = FALSE /\ mapOpen = FALSE
    /\ entries = Nothing /\ bpf = {}
    /\ nonces = {} /\ wedged = FALSE

-----------------------------------------------------------------------------
(* LoadAndAttach: a no-op once attached; an error before the collection is *)
(* loaded changes nothing; an error after it (no interface, XDP refused)   *)
(* leaves the manager with a map nobody consults.                          *)

LoadAndAttach(outcome) ==
    /\ ~attached
    /\ mapOpen' = (outcome # "no_object")
    /\ attached' = (outcome = "attached")
    /\ bpf' = {}
    /\ UNCHANGED <<entries, nonces, wedged>>

Detach ==
    /\ ~wedged
    /\ attached' = FALSE /\ mapOpen' = FALSE /\ bpf' = {}
    /\ UNCHANGED <<entries, nonces, wedged>>

-----------------------------------------------------------------------------
(* planIPRemovalLocked: the exact /32 if listed, otherwise the most        *)
(* specific covering entry, replaced by that entry minus the address; the  *)
(* pieces keep its expiry.  The /32 is the most specific prefix there is   *)
(* and excludes to nothing, so one expression serves both.                 *)

IsAllowed(a) == \E p \in Allowed : Covers(p, a)

\* A slip: the pieces are listed as permanent.
PlanForgetsExpiry(a) ==
    LET best == MostSpecific(Allowed, a)
    IN  [remove |-> {best}, add |-> [q \in ExcludeIP(best, a) |-> 0]]

Plan(a) ==
    LET best == MostSpecific(Allowed, a)
    IN  [remove |-> {best}, add |-> [q \in ExcludeIP(best, a) |-> entries[best]]]

-----------------------------------------------------------------------------
(* The steps of ApplyUpdate.  A Delete of a key the trie lacks and a Put   *)
(* into a full trie fail; without a map neither can.  An "add" or "remove" *)
(* stops at the first failure and keeps what it had done.                  *)

AddEntries(new) ==
    \E done \in SUBSET DOMAIN new :
        /\ mapOpen => Fits(bpf \cup done)
        /\ done # DOMAIN new => /\ mapOpen
                                /\ \E p \in DOMAIN new \ done : ~Fits(bpf \cup done \cup {p})
        /\ entries' = Put(Restrict(new, done), entries)
        /\ bpf' = IF mapOpen THEN bpf \cup done ELSE bpf

RemoveEntries(old) ==
    \E done \in SUBSET old :
        /\ mapOpen => done \subseteq bpf
        /\ done # old => mapOpen /\ ~(old \subseteq bpf)
        /\ entries' = Drop(entries, done)
        /\ bpf' = bpf \ done

CarveSucceeds(remove, add) ==
    mapOpen => /\ remove \subseteq bpf
               /\ Fits((bpf \ remove) \cup DOMAIN add)

\* Slips: a rollback that looks after memory only, and one that clears nothing first.
RollbackForgetsTrie(mem, keys) == entries' = entries /\ bpf' = keys

RollbackWithoutClearing(mem, keys) ==
    \E back \in SUBSET Allowed :
        /\ Fits(keys \cup back)
        /\ \A p \in Allowed \ back : ~Fits(keys \cup back \cup {p})
        /\ entries' = Put(Restrict(entries, back), mem)
        /\ bpf' = keys \cup back

\* The rollback, from memory and trie as the failed carve left them: take out what is
\* listed, put back what was.  Neither looks at errors: an entry whose key the trie lacks
\* stays listed, one for which the trie has no room stays out.
Rollback(mem, keys) ==
    LET stray == keys \ DOMAIN mem
    IN  \E back \in SUBSET Allowed :
           /\ Fits(stray \cup back)
           /\ \A p \in Allowed \ back : ~Fits(stray \cup back \cup {p})
           /\ entries' = Put(Restrict(entries, back), Drop(mem, keys))
           /\ bpf' = stray \cup back

\* carveEntriesLocked.  A Delete fails behind those of gone, or, behind all of them, a Put
\* behind those of come.
CarveEntries(remove, add) ==
    \/ /\ CarveSucceeds(remove, add)
       /\ entries' = Put(add, Drop(entries, remove))
       /\ bpf' = IF mapOpen THEN (bpf \ remove) \cup DOMAIN add ELSE bpf
    \/ /\ mapOpen
       /\ \E gone \in SUBSET (remove \cap bpf), come \in SUBSET DOMAIN add :
             LET keys == (bpf \ gone) \cup come
             IN  /\ \/ come = {} /\ ~(remove \subseteq bpf)
                    \/ /\ gone = remove
                       /\ Fits(keys) /\ \E p \in DOMAIN add : ~Fits(keys \cup {p})
                 /\ Rollback(Put(Restrict(add, come), Drop(entries, gone)), keys)

\* flushAllEntries calls removeEntry, which locks am.mu again: with anything to
\* remove, ApplyUpdate waits for the lock it holds.
FlushEntries ==
    /\ wedged' = (Allowed # {})
    /\ UNCHANGED <<entries, bpf>>

Fresh(u, now) == now <= u.ts + MaxAge /\ u.ts <= now + MaxSkew

\* Accepted: the update gets as far as its action.
Accepts(u, now) == u.nonce \notin nonces /\ Fresh(u, now)

\* A slip: the nonce is recorded only once the timestamp has been found fresh.
RejectKeepsNonce(u, now) ==
    /\ ~wedged
    /\ ~Accepts(u, now)
    /\ UNCHANGED managerVars

\* The nonce is burnt before the timestamp is looked at.
RejectUpdate(u, now) ==
    /\ ~wedged
    /\ ~Accepts(u, now)
    /\ nonces' = nonces \cup {u.nonce}
    /\ UNCHANGED <<attached, mapOpen, entries, bpf, wedged>>

AcceptUpdate(u, now) ==
    /\ ~wedged
    /\ Accepts(u, now)
    /\ nonces' = nonces \cup {u.nonce}
    /\ \/ u.action = "add"    /\ AddEntries(u.add)              /\ UNCHANGED wedged
       \/ u.action = "remove" /\ RemoveEntries(u.remove)        /\ UNCHANGED wedged
       \/ u.action = "carve"  /\ CarveEntries(u.remove, u.add)  /\ UNCHANGED wedged
       \/ u.action = "flush"  /\ FlushEntries
    /\ UNCHANGED <<attached, mapOpen>>

-----------------------------------------------------------------------------
(* RemoveIP: plan and apply under one lock hold, without a rollback: when  *)
(* a carve-out does not fit, the covering entry is gone and so is every    *)
(* piece from the failing one on.                                          *)

RemoveIP(a) ==
    /\ ~wedged
    /\ IsAllowed(a)
    /\ LET plan == Plan(a)
           kept == Drop(entries, plan.remove)
           keys == bpf \ plan.remove
       IN  IF mapOpen /\ ~(plan.remove \subseteq bpf)
           THEN UNCHANGED <<entries, bpf>>
           ELSE \E done \in SUBSET DOMAIN plan.add :
                   /\ mapOpen => Fits(keys \cup done)
                   /\ done # DOMAIN plan.add =>
                        mapOpen /\ \E p \in DOMAIN plan.add \ done : ~Fits(keys \cup done \cup {p})
                   /\ entries' = Put(Restrict(plan.add, done), kept)
                   /\ bpf' = IF mapOpen THEN keys \cup done ELSE bpf
    /\ UNCHANGED <<attached, mapOpen, nonces, wedged>>

\* CleanupExpiredEntries ignores the error of a failing Delete.
CleanupExpiredEntries(now) ==
    LET expired == {p \in Allowed : entries[p] > 0 /\ now > entries[p]}
        gone    == IF mapOpen THEN expired \cap bpf ELSE expired
    IN  /\ ~wedged
        /\ gone # {}
        /\ entries' = Drop(entries, gone)
        /\ bpf' = bpf \ gone
        /\ UNCHANGED <<attached, mapOpen, nonces, wedged>>
=============================================================================
