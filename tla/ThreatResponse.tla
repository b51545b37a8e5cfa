---------------------------- MODULE ThreatResponse ----------------------------
(***************************************************************************)
(* The daemon's observe - profile - block loop                             *)
(* (cmd/ghost-ctl/threat_response.go) over the allowlist manager: one      *)
(* goroutine per AGENT-BETA connection, an operator who unblocks, and the  *)
(* shutdown of cmdDaemon.  A step ends where a goroutine blocks or lets go *)
(* of a lock: the read, the duplicate check (trh.mu), the plan (am.mu read *)
(* lock), the signed carve (am.mu), the record (trh.mu), the audit.        *)
(***************************************************************************)
EXTENDS Allowlist, Sequences

CONSTANTS Handler,    \* connection slots (goroutines of handleConnection)
          Seeds,      \* allowlists granted before the listener starts: prefix -> ExpiresAt
          Alerts,     \* alerts AGENT-BETA may send
          Threshold,  \* ThreatScoreThreshold (80)
          Unblockable,\* addresses an operator may unblock, blocked or not
          MaxAlerts,  \* bound: alerts sent
          MaxInFlight,\* bound: unread alerts on one connection
          MaxUnblocks \* bound: UnblockIP calls

NoIP == <<>>                            \* an empty source_ip

Alert == [type  : {"THREAT_ACTOR_PROFILED", "L4_VIOLATION", "OTHER"},
          ip    : Addr \cup {NoIP},
          score : Nat,
          hits  : {"missing", "zero", "some"}]

ASSUME ThreatAssumption ==
    /\ Threshold \in Nat /\ MaxAlerts \in Nat /\ MaxUnblocks \in Nat /\ MaxInFlight \in Nat
    /\ Alerts \subseteq Alert /\ Unblockable \subseteq Addr
    /\ \A s \in Seeds : /\ DOMAIN s \subseteq Prefix /\ s \in [DOMAIN s -> Nat]
                         /\ Fits(DOMAIN s)

VARIABLES
    daemon,     \* cmdDaemon: "running", "stopping" (in Stop, at wg.Wait), "exited"
    accepting,  \* acceptLoop is alive
    pc,         \* where each handler is; "none": no goroutine
    peer,       \* AGENT-BETA's end of each connection is "open" or "closed"
    inbox,      \* frames written to the socket and not read
    buf,        \* frames read and not dispatched
    cur,        \* the alert being processed
    plan,       \* what PlanIPRemoval returned for it
    denied,     \* blockIP's local
    blockedIPs,
    audit,      \* AUTO_BLOCK entries written: <<ip, result>>
    unblocking, \* the IP an UnblockIP call has forgotten and not yet re-added
    calls,      \* ghost: [alerts |-> sent, unblocks |-> made]
    seed,       \* ghost: the allowlist granted at the start
    accused,    \* ghost: IPs an actionable alert has named
    reopened,   \* ghost: IPs an UnblockIP call has re-added
    conflicted  \* ghost: IPs whose carve was refused

trhVars  == <<pc, buf, cur, plan, denied, blockedIPs, audit>>
betaVars == <<peer, inbox>>
ghosts   == <<calls, seed, accused, reopened, conflicted>>
vars     == <<managerVars, daemon, accepting, trhVars, betaVars, unblocking, ghosts>>

NoAlert == [type |-> "OTHER", ip |-> NoIP, score |-> 0, hits |-> "missing"]
NoPlan  == [remove |-> {}, add |-> Nothing]

Init ==
    /\ seed \in Seeds
    /\ entries = seed /\ bpf = DOMAIN seed
    /\ attached = TRUE /\ mapOpen = TRUE /\ nonces = {} /\ wedged = FALSE
    /\ daemon = "running" /\ accepting = TRUE
    /\ pc = [h \in Handler |-> "none"] /\ peer = [h \in Handler |-> "closed"]
    /\ inbox = [h \in Handler |-> <<>>] /\ buf = [h \in Handler |-> <<>>]
    /\ cur = [h \in Handler |-> NoAlert] /\ plan = [h \in Handler |-> NoPlan]
    /\ denied = [h \in Handler |-> FALSE]
    /\ blockedIPs = {} /\ audit = {} /\ unblocking = NoIP
    /\ calls = [alerts |-> 0, unblocks |-> 0]
    /\ accused = {} /\ reopened = {} /\ conflicted = {}

Goto(h, label) == pc' = [pc EXCEPT ![h] = label]

\* processAlert, or the whole goroutine, returns: its locals are gone.
Return(h, label) ==
    /\ Goto(h, label)
    /\ cur' = [cur EXCEPT ![h] = NoAlert] /\ plan' = [plan EXCEPT ![h] = NoPlan]
    /\ denied' = [denied EXCEPT ![h] = FALSE]

CloseConn(h) ==
    /\ Return(h, "none")
    /\ peer' = [peer EXCEPT ![h] = "closed"]
    /\ inbox' = [inbox EXCEPT ![h] = <<>>]

-----------------------------------------------------------------------------
(* AGENT-BETA's end: it dials, writes frames, may hang up at any moment.   *)

Connect(h) ==
    /\ accepting /\ daemon = "running"
    /\ pc[h] = "none" /\ peer[h] = "closed"
    /\ Goto(h, "drain")
    /\ peer' = [peer EXCEPT ![h] = "open"]
    /\ inbox' = [inbox EXCEPT ![h] = <<>>]
    /\ UNCHANGED <<managerVars, daemon, accepting, buf, cur, plan, denied,
                   blockedIPs, audit, unblocking, ghosts>>

\* The alerts that are to end in a block (threat_response.go:266-282).
Actionable(a) ==
    \/ a.type = "L4_VIOLATION"
    \/ a.type = "THREAT_ACTOR_PROFILED" /\ a.score > Threshold /\ a.hits = "some"

Send(h, a) ==
    /\ peer[h] = "open"
    /\ calls.alerts < MaxAlerts /\ Len(inbox[h]) < MaxInFlight
    /\ calls' = [calls EXCEPT !.alerts = @ + 1]
    /\ inbox' = [inbox EXCEPT ![h] = Append(@, a)]
    /\ accused' = IF Actionable(a) THEN accused \cup {a.ip} ELSE accused
    /\ UNCHANGED <<managerVars, daemon, accepting, trhVars, peer, unblocking,
                   seed, reopened, conflicted>>

Hangup(h) ==
    /\ peer[h] = "open"
    /\ peer' = [peer EXCEPT ![h] = "closed"]
    /\ UNCHANGED <<managerVars, daemon, accepting, trhVars, inbox, unblocking, ghosts>>

-----------------------------------------------------------------------------
(* handleConnection *)

\* processAlert: does this alert lead to blockIP, and through the duplicate check?
\* Slip: >= for >.
ReachesThreshold(a) == a.ip # NoIP /\ a.score >= Threshold /\ a.hits = "some"

Exceeds(a) == a.ip # NoIP /\ a.score > Threshold /\ a.hits = "some"

\* Slip: the score filter applied to L4 violations too.
FirstStepByScore(a) == IF Exceeds(a) THEN "plan" ELSE "drain"

FirstStep(a) ==
    CASE a.type = "L4_VIOLATION"                         -> "plan"
      [] a.type = "THREAT_ACTOR_PROFILED" /\ Exceeds(a)  -> "dedup"
      [] OTHER                                           -> "drain"

Dispatch(h) ==
    /\ pc[h] = "drain" /\ buf[h] # <<>>
    /\ LET a == Head(buf[h])
       IN  /\ buf' = [buf EXCEPT ![h] = Tail(@)]
           /\ Goto(h, FirstStep(a))
           /\ cur' = [cur EXCEPT ![h] = IF FirstStep(a) = "drain" THEN @ ELSE a]
    /\ UNCHANGED <<managerVars, daemon, accepting, betaVars, plan, denied, blockedIPs, audit,
                   unblocking, ghosts>>

\* Slip: continue for return once the context is cancelled.
DrainedSpins(h) ==
    /\ pc[h] = "drain" /\ buf[h] = <<>>
    /\ daemon = "running" /\ Goto(h, "read")
    /\ UNCHANGED <<managerVars, daemon, accepting, buf, cur, plan, denied, betaVars, blockedIPs,
                   audit, unblocking, ghosts>>

\* The buffer is empty: leave if the context is cancelled, otherwise block in Read.
Drained(h) ==
    /\ pc[h] = "drain" /\ buf[h] = <<>>
    /\ \/ daemon # "running" /\ CloseConn(h)
       \/ daemon = "running" /\ Goto(h, "read") /\ UNCHANGED <<cur, plan, denied, betaVars>>
    /\ UNCHANGED <<managerVars, daemon, accepting, buf, blockedIPs, audit, unblocking, ghosts>>

\* conn.Read returns what has arrived, or EOF once AGENT-BETA has hung up.
Read(h) ==
    /\ pc[h] = "read"
    /\ \/ /\ inbox[h] # <<>>
          /\ buf' = [buf EXCEPT ![h] = inbox[h]]
          /\ inbox' = [inbox EXCEPT ![h] = <<>>]
          /\ Goto(h, "drain")
          /\ UNCHANGED <<peer, cur, plan, denied>>
       \/ /\ inbox[h] = <<>> /\ peer[h] = "closed"
          /\ CloseConn(h)
          /\ UNCHANGED buf
    /\ UNCHANGED <<managerVars, daemon, accepting, blockedIPs, audit, unblocking, ghosts>>

\* handleThreatActorProfiled: look, and let go of trh.mu.
Dedup(h) ==
    /\ pc[h] = "dedup"
    /\ \/ cur[h].ip \in blockedIPs /\ Return(h, "drain")
       \/ cur[h].ip \notin blockedIPs /\ Goto(h, "plan") /\ UNCHANGED <<cur, plan, denied>>
    /\ UNCHANGED <<managerVars, daemon, accepting, betaVars, buf, blockedIPs, audit,
                   unblocking, ghosts>>

\* Slip: no IP is taken for an IP nothing covers.
PlanBlockAnything(h) ==
    /\ pc[h] = "plan" /\ ~wedged
    /\ LET ip == cur[h].ip
       IN  \/ (ip = NoIP \/ ~IsAllowed(ip)) /\ Goto(h, "record") /\ UNCHANGED <<cur, plan, denied>>
           \/ /\ ip # NoIP /\ IsAllowed(ip)
              /\ Goto(h, "apply")
              /\ plan' = [plan EXCEPT ![h] = Plan(ip)]
              /\ UNCHANGED <<cur, denied>>
    /\ UNCHANGED <<managerVars, daemon, accepting, betaVars, buf, blockedIPs, audit,
                   unblocking, ghosts>>

\* blockIP: PlanIPRemoval fails without an IP; an IP nothing covers needs no carve.
PlanBlock(h) ==
    /\ pc[h] = "plan" /\ ~wedged
    /\ LET ip == cur[h].ip
       IN  \/ ip = NoIP /\ Return(h, "drain")
           \/ ip # NoIP /\ ~IsAllowed(ip) /\ Goto(h, "record") /\ UNCHANGED <<cur, plan, denied>>
           \/ /\ ip # NoIP /\ IsAllowed(ip)
              /\ Goto(h, "apply")
              /\ plan' = [plan EXCEPT ![h] = Plan(ip)]
              /\ UNCHANGED <<cur, denied>>
    /\ UNCHANGED <<managerVars, daemon, accepting, betaVars, buf, blockedIPs, audit,
                   unblocking, ghosts>>

\* A signed update with a nonce never seen, applied while fresh.
Signed(action, add, remove) ==
    [action |-> action, add |-> add, remove |-> remove, ts |-> 0,
     nonce |-> Cardinality(nonces) + 1]

\* Slip: the error of ApplyUpdate is dropped.
ApplyCarveUnchecked(h) ==
    /\ pc[h] = "apply"
    /\ AcceptUpdate(Signed("carve", plan[h].add, plan[h].remove), 0)
    /\ denied' = [denied EXCEPT ![h] = TRUE]
    /\ Goto(h, "record")
    /\ UNCHANGED <<daemon, accepting, betaVars, buf, cur, plan, blockedIPs, audit, unblocking,
                   ghosts>>

\* SignCarveUpdate and ApplyUpdate; on an error the alert is given up.
ApplyCarve(h) ==
    /\ pc[h] = "apply"
    /\ AcceptUpdate(Signed("carve", plan[h].add, plan[h].remove), 0)
    /\ \/ /\ CarveSucceeds(plan[h].remove, plan[h].add)
          /\ denied' = [denied EXCEPT ![h] = TRUE]
          /\ Goto(h, "record")
          /\ UNCHANGED <<cur, plan, conflicted>>
       \/ /\ ~CarveSucceeds(plan[h].remove, plan[h].add)
          /\ Return(h, "drain")
          /\ conflicted' = conflicted \cup {cur[h].ip}
    /\ UNCHANGED <<daemon, accepting, betaVars, buf, blockedIPs, audit, unblocking, calls,
                   seed, accused, reopened>>

Record(h) ==
    /\ pc[h] = "record"
    /\ blockedIPs' = blockedIPs \cup {cur[h].ip}
    /\ Goto(h, "audit")
    /\ UNCHANGED <<managerVars, daemon, accepting, betaVars, buf, cur, plan, denied, audit,
                   unblocking, ghosts>>

Audit(h) ==
    /\ pc[h] = "audit"
    /\ audit' = audit \cup {<<cur[h].ip, IF denied[h] THEN "SUCCESS" ELSE "NOOP_ALREADY_DENIED">>}
    /\ Return(h, "drain")
    /\ UNCHANGED <<managerVars, daemon, accepting, betaVars, buf, blockedIPs, unblocking, ghosts>>

Handle(h) ==
    \/ Dispatch(h) \/ Drained(h) \/ Read(h) \/ Dedup(h)
    \/ PlanBlock(h) \/ ApplyCarve(h) \/ Record(h) \/ Audit(h)

-----------------------------------------------------------------------------
(* UnblockIP, for any address, blocked or not: forget the record, if any,  *)
(* then re-add the /32 by a signed update.                                 *)

Unblock(ip) ==
    /\ daemon = "running" /\ unblocking = NoIP
    /\ calls.unblocks < MaxUnblocks
    /\ calls' = [calls EXCEPT !.unblocks = @ + 1]
    /\ blockedIPs' = blockedIPs \ {ip}
    /\ unblocking' = ip
    /\ UNCHANGED <<managerVars, daemon, accepting, betaVars, pc, buf, cur, plan, denied, audit,
                   seed, accused, reopened, conflicted>>

Readmit ==
    /\ daemon # "exited" /\ unblocking # NoIP
    /\ AcceptUpdate(Signed("add", [p \in {unblocking} |-> 0], {}), 0)
    /\ reopened' = reopened \cup {unblocking}
    /\ unblocking' = NoIP
    /\ UNCHANGED <<daemon, accepting, betaVars, trhVars, calls, seed, accused, conflicted>>

-----------------------------------------------------------------------------
(* cmdDaemon on SIGTERM: Stop cancels the context, closes the listener and *)
(* waits for acceptLoop and every handler; then XDP is detached and the    *)
(* final audit entry written.  Open connections are not closed.            *)

Sigterm ==
    /\ daemon = "running"
    /\ daemon' = "stopping"
    /\ UNCHANGED <<managerVars, accepting, trhVars, betaVars, unblocking, ghosts>>

AcceptLoopExits ==
    /\ daemon = "stopping" /\ accepting
    /\ accepting' = FALSE
    /\ UNCHANGED <<managerVars, daemon, trhVars, betaVars, unblocking, ghosts>>

Exit ==
    /\ daemon = "stopping" /\ ~accepting
    /\ \A h \in Handler : pc[h] = "none"
    /\ Detach
    /\ daemon' = "exited"
    /\ UNCHANGED <<accepting, trhVars, betaVars, unblocking, ghosts>>

Next ==
    \/ \E h \in Handler : \/ Connect(h) \/ Hangup(h) \/ Handle(h)
                          \/ \E a \in Alerts : Send(h, a)
    \/ \E ip \in Unblockable : Unblock(ip)
    \/ Readmit \/ Sigterm \/ AcceptLoopExits \/ Exit

\* Go runs every goroutine that can run; nobody owes the daemon an alert, a hang-up,
\* an unblock or a signal.
Scheduler ==
    /\ \A h \in Handler : WF_vars(Handle(h))
    /\ WF_vars(AcceptLoopExits) /\ WF_vars(Exit)

Spec == Init /\ [][Next]_vars /\ Scheduler

\* A stop through systemd ends AGENT-BETA first (ghost-agent-beta.service: BindsTo and
\* After the orchestrator), and with it every connection.
SpecWithHangups == Spec /\ \A h \in Handler : WF_vars(Hangup(h))

-----------------------------------------------------------------------------
TypeOK ==
    /\ daemon \in {"running", "stopping", "exited"} /\ accepting \in BOOLEAN
    /\ pc \in [Handler -> {"none", "drain", "read", "dedup", "plan", "apply", "record", "audit"}]
    /\ peer \in [Handler -> {"open", "closed"}]
    /\ \A h \in Handler : /\ inbox[h] \in Seq(Alerts) /\ buf[h] \in Seq(Alerts)
                          /\ cur[h] \in Alerts \cup {NoAlert}
                          /\ plan[h].remove \subseteq Prefix
                          /\ DOMAIN plan[h].add \subseteq Prefix
    /\ denied \in [Handler -> BOOLEAN]
    /\ blockedIPs \subseteq Addr
    /\ audit \subseteq Addr \X {"SUCCESS", "NOOP_ALREADY_DENIED"}
    /\ unblocking \in Addr \cup {NoIP}
    /\ Allowed \subseteq Prefix /\ entries \in [Allowed -> Nat] /\ bpf \subseteq Prefix

(* Whoever is on the block list, and whoever the audit log says is in      *)
(* absolute silence, is dropped by the kernel until an operator re-admits  *)
(* that very address: no later block, lost race or unblock of another      *)
(* address lets it back in (blockIP, UnblockIP).  For allowlists without   *)
(* nested prefixes.                                                        *)
BlockedIsDenied ==
    attached => \A ip \in Addr \ reopened :
        ip \in blockedIPs \/ <<ip, "SUCCESS">> \in audit => ip \notin KernelAdmits

(* Blocking is surgical over any number of concurrent blocks: an address   *)
(* of the granted ranges that no actionable alert named is never shut out. *)
OnlyAccusedAreDenied ==
    attached => Covered(DOMAIN seed) \ accused \subseteq KernelAdmits

Promise == INSTANCE Silence WITH
              filtering <- attached, admitted <- KernelAdmits,
              accused <- accused \cap Addr, blocked <- blockedIPs,
              forgotten <- {unblocking} \cap Addr

(* Whatever trie, plans, locks and races there are underneath, the kernel  *)
(* holds a set of addresses that loses one accused address at a time and   *)
(* gains none but what an operator took off the block list, on which       *)
(* nobody is put who is still let in (blockIP, UnblockIP).  For allowlists *)
(* without nested prefixes.                                                *)
ImplementsSilence == Promise!Spec

(* L4 violations are always acted on: once the daemon has read one, its    *)
(* source ends up dropped by the kernel, except when the carve collided    *)
(* with one planned from the same prefix, or an operator re-admitted it;   *)
(* a SIGTERM in between changes nothing.                                   *)
L4EndsInSilence ==
    \A a \in {b \in Alerts : b.type = "L4_VIOLATION" /\ b.ip # NoIP} :
      LET ip == a.ip IN
        (\E h \in Handler : \E i \in DOMAIN buf[h] : buf[h][i] = a)
            ~> (ip \notin KernelAdmits \/ ip \in conflicted \cup reopened \/ ~attached)

(* "On shutdown it closes the alert socket, drains the threat handler, and *)
(* writes the final audit entry" (cmdDaemon).  It does when AGENT-BETA     *)
(* hangs up; under Spec alone a handler blocked in conn.Read is never      *)
(* woken, and Stop waits for it forever.                                   *)
ShutdownCompletes == (daemon = "stopping") ~> (daemon = "exited")
=============================================================================
