--------------------------- MODULE AllowlistUpdates ---------------------------
(***************************************************************************)
(* The allowlist manager under every caller its API admits: updates are    *)
(* signed at one moment and submitted at any later one, in any order, any  *)
(* number of times; a carve is planned from the entries of the moment it   *)
(* is signed.  XDP is loaded once, before anything else, and detached at   *)
(* the end, as initializeOnce and cmdDaemon do.                            *)
(***************************************************************************)
EXTENDS Allowlist

CONSTANTS Nonce,      \* 16 random bytes: one per signed update, never repeated
          Grants,     \* what signers ask to add: functions prefix -> ExpiresAt
          Removals,   \* what signers ask to remove: sets of prefixes
          Flushes,    \* TRUE iff "flush" is among the signed actions
          SignerLead, \* by how much a signer's clock may be ahead (set of Nat)
          Targets,    \* addresses to be blocked
          MaxTime     \* bound on the clock

ASSUME UpdatesAssumption ==
    /\ \A g \in Grants : DOMAIN g \subseteq Prefix /\ g \in [DOMAIN g -> Nat]
    /\ Removals \subseteq SUBSET Prefix
    /\ Targets \subseteq Addr
    /\ Flushes \in BOOLEAN
    /\ SignerLead \subseteq Nat
    /\ MaxTime \in Nat

VARIABLES
    phase,    \* "boot", "running", "stopped"
    clock,
    updates,  \* every update ever signed
    landed,   \* ghost: how often each nonce's update reached its action
    refused   \* ghost: nonces whose update was refused when first seen

vars == <<managerVars, phase, clock, updates, landed, refused>>

IsUpdate(u) ==
    /\ u.action \in {"add", "remove", "carve", "flush"}
    /\ DOMAIN u.add \subseteq Prefix /\ u.add \in [DOMAIN u.add -> Nat]
    /\ u.remove \subseteq Prefix
    /\ u.ip \in Addr /\ u.ts \in Nat /\ u.nonce \in Nonce

TypeOK ==
    /\ attached \in BOOLEAN /\ mapOpen \in BOOLEAN /\ wedged \in BOOLEAN
    /\ Allowed \subseteq Prefix /\ entries \in [Allowed -> Nat]
    /\ bpf \subseteq Prefix
    /\ nonces \subseteq Nonce /\ refused \subseteq Nonce
    /\ phase \in {"boot", "running", "stopped"}
    /\ clock \in Nat
    /\ \A u \in updates : IsUpdate(u)
    /\ landed \in [Nonce -> Nat]

Init ==
    /\ ManagerInit
    /\ phase = "boot"
    /\ clock = 0
    /\ updates = {}
    /\ landed = [n \in Nonce |-> 0]
    /\ refused = {}

Boot ==
    /\ phase = "boot"
    /\ phase' = "running"
    /\ \/ \E outcome \in {"no_object", "not_attached", "attached"} : LoadAndAttach(outcome)
       \/ UNCHANGED managerVars               \* no compiled object on this host
    /\ UNCHANGED <<clock, updates, landed, refused>>

Shutdown ==
    /\ phase = "running"
    /\ attached
    /\ phase' = "stopped"
    /\ Detach
    /\ UNCHANGED <<clock, updates, landed, refused>>

\* SignUpdate and SignCarveUpdate: a fresh nonce and the signer's time.
Sign(action, add, remove, ip) ==
    /\ phase = "running"
    /\ \E n \in Nonce \ {u.nonce : u \in updates}, lead \in SignerLead :
          updates' = updates \cup {[action |-> action, add |-> add, remove |-> remove,
                                    ip |-> ip, ts |-> clock + lead, nonce |-> n]}
    /\ UNCHANGED <<managerVars, phase, clock, landed, refused>>

SignRequest ==
    LET any == CHOOSE a \in Addr : TRUE
    IN  \/ \E g \in Grants : Sign("add", g, {}, any)
        \/ \E r \in Removals : Sign("remove", Nothing, r, any)
        \/ Flushes /\ Sign("flush", Nothing, {}, any)

\* blockIP up to the signature: PlanIPRemoval, then SignCarveUpdate.
SignCarve(a) ==
    /\ ~wedged
    /\ IsAllowed(a)
    /\ Sign("carve", Plan(a).add, Plan(a).remove, a)

Submit(u) ==
    /\ phase = "running"
    /\ \/ /\ AcceptUpdate(u, clock)
          /\ landed' = [landed EXCEPT ![u.nonce] = @ + 1]
          /\ UNCHANGED refused
       \/ /\ RejectUpdate(u, clock)
          /\ refused' = IF u.nonce \in nonces THEN refused ELSE refused \cup {u.nonce}
          /\ UNCHANGED landed
    /\ UNCHANGED <<phase, clock, updates>>

Remove(a) == phase = "running" /\ RemoveIP(a) /\ UNCHANGED <<phase, clock, updates, landed, refused>>

Cleanup ==
    /\ phase = "running"
    /\ CleanupExpiredEntries(clock)
    /\ UNCHANGED <<phase, clock, updates, landed, refused>>

Tick ==
    /\ clock < MaxTime
    /\ clock' = clock + 1
    /\ UNCHANGED <<managerVars, phase, updates, landed, refused>>

Next ==
    \/ Boot \/ Shutdown \/ SignRequest \/ Cleanup \/ Tick
    \/ \E a \in Targets : SignCarve(a) \/ Remove(a)
    \/ \E u \in updates : Submit(u)

Spec == Init /\ [][Next]_vars

-----------------------------------------------------------------------------
(* The kernel's trie and the manager's entries never drift apart: whatever *)
(* fails halfway (a full trie, a missing key, a rolled-back carve), the    *)
(* packets the kernel lets in are those the entries say.                   *)
KernelMirrorsEntries == bpf = IF mapOpen THEN Allowed ELSE {}

(* Nothing is let in that a signed "add" did not grant: every entry,       *)
(* carve-outs included, lies inside a granted prefix and expires exactly   *)
(* when that grant does.  (Header of allowlist_manager.go: no change       *)
(* without a signed command.)                                              *)
EveryEntryIsGranted ==
    \A p \in Allowed : \E u \in updates :
        /\ u.action = "add"
        /\ \E g \in DOMAIN u.add : Within(p, g) /\ entries[p] = u.add[g]

(* A signed update gets one verdict, whenever and however often it is      *)
(* submitted: it takes effect at most once, and an update refused for its  *)
(* timestamp never takes effect later (ApplyUpdate steps 2 and 3).         *)
OneVerdict == \A n \in Nonce : landed[n] + (IF n \in refused THEN 1 ELSE 0) <= 1

Carves(u) == u.action = "carve" /\ landed'[u.nonce] # landed[u.nonce]

(* A carve lets nobody in and shuts out nobody but its target, even when   *)
(* it was planned from entries that have changed since (blockIP releases   *)
(* am.mu between PlanIPRemoval and ApplyUpdate).  The trie's failing       *)
(* Delete is what makes it so.                                             *)
CarveIsSurgical ==
    [][ mapOpen => \A u \in updates : Carves(u) =>
            /\ Covered(Allowed') \subseteq Covered(Allowed)
            /\ Covered(Allowed) \ Covered(Allowed') \subseteq {u.ip} ]_vars

(* If no prefix of the allowlist lies inside another, a carve that is      *)
(* applied denies its target and keeps the entries disjoint.               *)
CarveDenies ==
    [][ mapOpen /\ Disjoint(Allowed) => \A u \in updates :
            Carves(u) /\ entries' # entries =>
                u.ip \notin Covered(Allowed') /\ Disjoint(Allowed') ]_vars

(* "On any failure the allowlist (in-memory and BPF map) is rolled back to *)
(* the pre-call state" (carveEntriesLocked): though the rollback takes     *)
(* everything out first and ignores what its own Deletes and Puts report,  *)
(* a carve is all or nothing on both sides of the mirror.                  *)
CarveIsAtomic ==
    [][ \A u \in updates : Carves(u) =>
            \/ UNCHANGED <<entries, bpf>>
            \/ /\ Allowed' = (Allowed \ u.remove) \cup DOMAIN u.add
               /\ mapOpen => bpf' = (bpf \ u.remove) \cup DOMAIN u.add ]_vars
=============================================================================
