------------------------- MODULE ThreatResponseProofs -------------------------
(***************************************************************************)
(* Who is dropped and who is not, for any number of connections, alerts    *)
(* and unblocks, any address width, capacity and grant.                    *)
(***************************************************************************)
EXTENDS ThreatResponse, AllowlistProofs

\* What each handler holds, and everything else.
TypedLocals ==
    /\ pc \in [Handler -> {"none", "drain", "read", "dedup", "plan", "apply", "record", "audit"}]
    /\ cur \in [Handler -> Alerts \cup {NoAlert}]
    /\ DOMAIN plan = Handler
    /\ \A h \in Handler : plan[h].remove \subseteq Prefix /\ IsEntries(plan[h].add)
    /\ denied \in [Handler -> BOOLEAN]

TypedShared ==
    /\ daemon \in {"running", "stopping", "exited"} /\ accepting \in BOOLEAN
    /\ peer \in [Handler -> {"open", "closed"}]
    /\ inbox \in [Handler -> Seq(Alerts)] /\ buf \in [Handler -> Seq(Alerts)]
    /\ blockedIPs \subseteq Addr /\ unblocking \in Addr \cup {NoIP} /\ reopened \subseteq Addr
    /\ audit \subseteq Addr \X {"SUCCESS", "NOOP_ALREADY_DENIED"}
    /\ seed \in Seeds

\* The program stays attached, and its trie a mirror, until the last handler has left.
Attached ==
    /\ IsEntries(entries) /\ bpf \subseteq Prefix
    /\ attached \in BOOLEAN /\ mapOpen = attached
    /\ attached => bpf = Allowed /\ Fits(bpf)
    /\ daemon # "exited" => attached
    /\ daemon = "exited" => ~accepting /\ \A h \in Handler : pc[h] = "none"

\* Alerts that may be under way: an actionable one has accused its address.
Named == {a \in Alerts : Actionable(a) => a.ip \in accused}

AlertsAccuse ==
    \A h \in Handler : /\ inbox[h] \in Seq(Named) /\ buf[h] \in Seq(Named)
                       /\ cur[h] \in Named \cup {NoAlert}

\* Whatever a handler works at is actionable, and its plan takes its address out of one
\* prefix, be it listed still or not.
WorkIsActionable ==
    \A h \in Handler :
        /\ pc[h] \in {"dedup", "plan", "apply", "record", "audit"} => Actionable(cur[h])
        /\ pc[h] \in {"dedup", "apply", "record", "audit"} => cur[h].ip \in Addr
        /\ pc[h] = "apply" => \E p \in Prefix :
                                /\ Covers(p, cur[h].ip)
                                /\ plan[h].remove = {p}
                                /\ DOMAIN plan[h].add = ExcludeIP(p, cur[h].ip)

IInv ==
    /\ TypedLocals /\ TypedShared /\ Attached
    /\ AlertsAccuse /\ WorkIsActionable /\ OnlyAccusedAreDenied

\* An address that is blocked, or about to be recorded so.
Blocked(ip) ==
    \/ ip \in blockedIPs \/ <<ip, "SUCCESS">> \in audit
    \/ \E h \in Handler : pc[h] \in {"record", "audit"} /\ cur[h].ip = ip

\* Nothing nests but the /32s an operator added, and nothing covers an address that is
\* blocked and was not among these.
OnlyReadmitted ==
    attached => /\ Disjoint(bpf \ reopened)
                /\ \A ip \in Addr \ reopened : Blocked(ip) =>
                     \A p \in bpf : ~Covers(p, ip)

-----------------------------------------------------------------------------
(* No address is empty.                                                    *)
LEMMA NoIPIsNoAddr == NoIP \notin Addr
<1>1. \A a \in Addr : 1 \in DOMAIN a
  BY WidthAssumption DEF Addr
<1> QED BY <1>1 DEF NoIP

(* Sequences over more alerts.                                             *)
LEMMA SeqGrows ==
    ASSUME NEW S, NEW T, S \subseteq T, NEW s \in Seq(S)
    PROVE  s \in Seq(T)
OBVIOUS

(* A carve takes its address out of one prefix of the trie, or is refused  *)
(* and changes nothing.                                                    *)
LEMMA ApplyCarveShape ==
    ASSUME IInv, NEW h \in Handler, ApplyCarve(h)
    PROVE  /\ attached /\ attached' = attached /\ mapOpen' = mapOpen
           /\ IsEntries(entries') /\ bpf' = Allowed' /\ Fits(bpf') /\ bpf \subseteq Prefix
           /\ cur[h].ip \in Addr /\ cur[h].ip \in accused
           /\ \/ /\ bpf' = bpf
                 /\ Return(h, "drain")
              \/ /\ Goto(h, "record") /\ cur' = cur /\ plan' = plan
                 /\ \E p \in bpf : /\ Covers(p, cur[h].ip)
                                   /\ bpf' = (bpf \ {p}) \cup ExcludeIP(p, cur[h].ip)
<1>1. /\ pc[h] = "apply" /\ attached /\ mapOpen /\ IsEntries(entries)
      /\ bpf = Allowed /\ Fits(bpf)
  BY DEF ApplyCarve, IInv, Attached
<1>2. /\ Mirrors(bpf, mapOpen, entries) /\ IsEntries(plan[h].add)
      /\ cur[h].ip \in Addr /\ Actionable(cur[h])
  BY <1>1 DEF Mirrors, Allowed, IInv, TypedLocals, TypedShared, WorkIsActionable
<1>3. CarveEntries(plan[h].remove, plan[h].add) /\ attached' = attached /\ mapOpen' = mapOpen
  BY DEF ApplyCarve, AcceptUpdate, Signed
<1>4. /\ IsEntries(entries') /\ Mirrors(bpf', mapOpen, entries')
      /\ \/ ~CarveSucceeds(plan[h].remove, plan[h].add) /\ bpf' = bpf
         \/ /\ CarveSucceeds(plan[h].remove, plan[h].add)
            /\ bpf' = (bpf \ plan[h].remove) \cup DOMAIN plan[h].add
  BY <1>1, <1>2, <1>3, CarveIsAllOrNothing DEF Preserved
<1>5. cur[h].ip \in accused
  <2>1. cur[h] # NoAlert
    BY <1>2 DEF Actionable, NoAlert
  <2> QED BY <1>2, <2>1 DEF IInv, AlertsAccuse, Named
<1>6. CASE ~CarveSucceeds(plan[h].remove, plan[h].add)
  <2>1. bpf' = bpf /\ Return(h, "drain")
    BY <1>4, <1>6 DEF ApplyCarve
  <2> QED BY <1>1, <1>2, <1>3, <1>4, <1>5, <2>1 DEF Mirrors, Allowed, IsEntries
<1>7. CASE CarveSucceeds(plan[h].remove, plan[h].add)
  <2>1. PICK p \in Prefix : /\ Covers(p, cur[h].ip)
                            /\ plan[h].remove = {p}
                            /\ DOMAIN plan[h].add = ExcludeIP(p, cur[h].ip)
    BY <1>1 DEF IInv, WorkIsActionable
  <2>2. /\ p \in bpf /\ bpf' = (bpf \ {p}) \cup ExcludeIP(p, cur[h].ip)
        /\ Goto(h, "record") /\ cur' = cur /\ plan' = plan
    BY <1>1, <1>4, <1>7, <2>1 DEF CarveSucceeds, ApplyCarve
  <2> QED BY <1>1, <1>2, <1>3, <1>4, <1>5, <2>1, <2>2 DEF Mirrors, Allowed, IsEntries
<1> QED BY <1>6, <1>7

(* A re-admission adds the address it is for, or nothing.                  *)
LEMMA ReadmitShape ==
    ASSUME IInv, Readmit
    PROVE  /\ attached /\ attached' = attached /\ mapOpen' = mapOpen
           /\ IsEntries(entries') /\ bpf' = Allowed' /\ Fits(bpf') /\ unblocking \in Addr
           /\ bpf \subseteq bpf' /\ bpf' \subseteq bpf \cup {unblocking}
<1>1. /\ attached /\ mapOpen /\ bpf = Allowed /\ IsEntries(entries) /\ unblocking \in Addr
      /\ Mirrors(bpf, mapOpen, entries)
  BY DEF Readmit, IInv, Attached, TypedLocals, TypedShared, Mirrors, Allowed
<1> DEFINE new == [p \in {unblocking} |-> 0]
<1>2. IsEntries(new) /\ DOMAIN new = {unblocking}
  BY <1>1, AddrIsPrefix DEF IsEntries
<1>3. AddEntries(new) /\ attached' = attached /\ mapOpen' = mapOpen
  BY DEF Readmit, AcceptUpdate, Signed
<1> HIDE DEF new
<1>4. IsEntries(entries') /\ Mirrors(bpf', mapOpen, entries')
  BY <1>1, <1>2, <1>3, AddEntriesPreserves DEF Preserved
<1>5. bpf \subseteq bpf' /\ bpf' \subseteq bpf \cup {unblocking}
  BY <1>1, <1>2, <1>3 DEF AddEntries
<1> QED BY <1>1, <1>3, <1>4, <1>5 DEF Mirrors, Allowed

(* What a plan holds when it is made.                                      *)
LEMMA PlanBlockShape ==
    ASSUME IInv, NEW h \in Handler, PlanBlock(h)
    PROVE  /\ pc[h] = "plan" /\ Actionable(cur[h])
           /\ \/ Return(h, "drain")
              \/ /\ cur[h].ip \in Addr /\ Goto(h, "record") /\ cur' = cur /\ plan' = plan
                 /\ cur[h].ip \notin Covered(bpf)
              \/ /\ cur[h].ip \in Addr /\ Goto(h, "apply") /\ cur' = cur
                 /\ \E p \in Prefix :
                      /\ Covers(p, cur[h].ip)
                      /\ plan' = [plan EXCEPT ![h] = Plan(cur[h].ip)]
                      /\ Plan(cur[h].ip).remove = {p} /\ IsEntries(Plan(cur[h].ip).add)
                      /\ DOMAIN Plan(cur[h].ip).add = ExcludeIP(p, cur[h].ip)
<1>1. pc[h] = "plan" /\ Actionable(cur[h]) /\ attached /\ bpf = Allowed /\ IsEntries(entries)
  BY DEF PlanBlock, IInv, Attached, WorkIsActionable
<1>2. cur[h].ip \in Addr \cup {NoIP}
  BY ThreatAssumption DEF IInv, TypedLocals, TypedShared, Alert, NoAlert
<1>3. CASE cur[h].ip = NoIP
  BY <1>1, <1>3 DEF PlanBlock
<1>4. CASE cur[h].ip \in Addr /\ ~IsAllowed(cur[h].ip)
  <2>1. cur[h].ip \notin Covered(bpf)
    BY <1>1, <1>4 DEF IsAllowed, Covered
  <2>2. Goto(h, "record") /\ cur' = cur /\ plan' = plan
    BY <1>4, NoIPIsNoAddr DEF PlanBlock
  <2> QED BY <1>1, <1>4, <2>1, <2>2
<1>5. CASE cur[h].ip \in Addr /\ IsAllowed(cur[h].ip)
  <2>1. PICK p \in DOMAIN entries :
          /\ Covers(p, cur[h].ip)
          /\ Plan(cur[h].ip).remove = {p} /\ IsEntries(Plan(cur[h].ip).add)
          /\ DOMAIN Plan(cur[h].ip).add = ExcludeIP(p, cur[h].ip)
    BY <1>1, <1>5, PlanShape
  <2>2. /\ Goto(h, "apply") /\ cur' = cur /\ p \in Prefix
        /\ plan' = [plan EXCEPT ![h] = Plan(cur[h].ip)]
    BY <1>1, <1>5, <2>1, NoIPIsNoAddr DEF PlanBlock, IsEntries
  <2> QED BY <1>1, <1>5, <2>1, <2>2
<1> QED BY <1>2, <1>3, <1>4, <1>5

-----------------------------------------------------------------------------
LEMMA NoPlanIsPlan == NoPlan.remove \subseteq Prefix /\ IsEntries(NoPlan.add)
BY NothingIsEntries DEF NoPlan

(* A handler that gives its alert up forgets it.                           *)
LEMMA ReturnForgets ==
    ASSUME TypedLocals, NEW h \in Handler, NEW label \in {"none", "drain"}, Return(h, label)
    PROVE  TypedLocals'
BY NoPlanIsPlan DEF TypedLocals, Return, Goto

(* A handler that goes on with its alert.                                  *)
LEMMA GotoKeepsLocals ==
    ASSUME TypedLocals, NEW h \in Handler,
           \E label \in {"read", "drain", "plan", "record"} : Goto(h, label),
           cur' = cur, plan' = plan, denied' \in {denied, [denied EXCEPT ![h] = TRUE]}
    PROVE  TypedLocals'
<1>1. pc' \in [Handler -> {"none", "drain", "read", "dedup", "plan", "apply", "record", "audit"}]
  BY DEF TypedLocals, Goto
<1>2. denied' \in [Handler -> BOOLEAN]
  BY DEF TypedLocals
<1> QED BY <1>1, <1>2 DEF TypedLocals

(* What every step keeps of the types.                                     *)
LEMMA TypedLocalsStep == IInv /\ [Next]_vars => TypedLocals'
<1> SUFFICES ASSUME IInv, [Next]_vars PROVE TypedLocals'
  OBVIOUS
<1>1. ASSUME NEW h \in Handler, Connect(h) PROVE TypedLocals'
  BY <1>1 DEF IInv, TypedLocals, Connect, ghosts, Goto
<1>2. ASSUME NEW h \in Handler, Hangup(h) PROVE TypedLocals'
  BY <1>2 DEF IInv, TypedLocals, Hangup, trhVars, ghosts
<1>3. ASSUME NEW h \in Handler, Dispatch(h) PROVE TypedLocals'
  <2>1. FirstStep(Head(buf[h])) \in {"plan", "dedup", "drain"} /\ Head(buf[h]) \in Alerts
    BY <1>3 DEF IInv, TypedShared, Dispatch, FirstStep
  <2> QED BY <1>3, <2>1 DEF IInv, TypedLocals, Dispatch, Goto
<1>4. ASSUME NEW h \in Handler, Drained(h) PROVE TypedLocals'
  <2>1. \/ \E label \in {"none", "drain"} : Return(h, label)
        \/ /\ \E label \in {"read", "drain", "plan", "record"} : Goto(h, label)
           /\ cur' = cur /\ plan' = plan
           /\ denied' \in {denied, [denied EXCEPT ![h] = TRUE]}
    BY <1>4 DEF Drained, CloseConn
  <2>2. CASE \E label \in {"none", "drain"} : Return(h, label)
    BY <2>2, ReturnForgets DEF IInv
  <2>3. CASE /\ \E label \in {"read", "drain", "plan", "record"} : Goto(h, label)
             /\ cur' = cur /\ plan' = plan
             /\ denied' \in {denied, [denied EXCEPT ![h] = TRUE]}
    BY <2>3, GotoKeepsLocals DEF IInv
  <2> QED BY <2>1, <2>2, <2>3
<1>5. ASSUME NEW h \in Handler, Read(h) PROVE TypedLocals'
  <2>1. \/ \E label \in {"none", "drain"} : Return(h, label)
        \/ /\ \E label \in {"read", "drain", "plan", "record"} : Goto(h, label)
           /\ cur' = cur /\ plan' = plan
           /\ denied' \in {denied, [denied EXCEPT ![h] = TRUE]}
    BY <1>5 DEF Read, CloseConn
  <2>2. CASE \E label \in {"none", "drain"} : Return(h, label)
    BY <2>2, ReturnForgets DEF IInv
  <2>3. CASE /\ \E label \in {"read", "drain", "plan", "record"} : Goto(h, label)
             /\ cur' = cur /\ plan' = plan
             /\ denied' \in {denied, [denied EXCEPT ![h] = TRUE]}
    BY <2>3, GotoKeepsLocals DEF IInv
  <2> QED BY <2>1, <2>2, <2>3
<1>6. ASSUME NEW h \in Handler, Dedup(h) PROVE TypedLocals'
  <2>1. \/ \E label \in {"none", "drain"} : Return(h, label)
        \/ /\ \E label \in {"read", "drain", "plan", "record"} : Goto(h, label)
           /\ cur' = cur /\ plan' = plan
           /\ denied' \in {denied, [denied EXCEPT ![h] = TRUE]}
    BY <1>6 DEF Dedup
  <2>2. CASE \E label \in {"none", "drain"} : Return(h, label)
    BY <2>2, ReturnForgets DEF IInv
  <2>3. CASE /\ \E label \in {"read", "drain", "plan", "record"} : Goto(h, label)
             /\ cur' = cur /\ plan' = plan
             /\ denied' \in {denied, [denied EXCEPT ![h] = TRUE]}
    BY <2>3, GotoKeepsLocals DEF IInv
  <2> QED BY <2>1, <2>2, <2>3
<1>7. ASSUME NEW h \in Handler, PlanBlock(h) PROVE TypedLocals'
  <2>1. CASE Return(h, "drain")
    BY <2>1, ReturnForgets DEF IInv
  <2>2. CASE ~Return(h, "drain")
    <3>1. \/ Goto(h, "record") /\ cur' = cur /\ plan' = plan
          \/ /\ Goto(h, "apply") /\ cur' = cur
             /\ plan' = [plan EXCEPT ![h] = Plan(cur[h].ip)]
             /\ Plan(cur[h].ip).remove \subseteq Prefix /\ IsEntries(Plan(cur[h].ip).add)
      BY <1>7, <2>2, PlanBlockShape
    <3>2. denied' = denied
      BY <1>7, <2>2 DEF PlanBlock
    <3> QED BY <3>1, <3>2 DEF IInv, TypedLocals, Goto
  <2> QED BY <2>1, <2>2
<1>8. ASSUME NEW h \in Handler, ApplyCarve(h) PROVE TypedLocals'
  <2>1. \/ \E label \in {"none", "drain"} : Return(h, label)
        \/ /\ \E label \in {"read", "drain", "plan", "record"} : Goto(h, label)
           /\ cur' = cur /\ plan' = plan
           /\ denied' \in {denied, [denied EXCEPT ![h] = TRUE]}
    BY <1>8 DEF ApplyCarve
  <2>2. CASE \E label \in {"none", "drain"} : Return(h, label)
    BY <2>2, ReturnForgets DEF IInv
  <2>3. CASE /\ \E label \in {"read", "drain", "plan", "record"} : Goto(h, label)
             /\ cur' = cur /\ plan' = plan
             /\ denied' \in {denied, [denied EXCEPT ![h] = TRUE]}
    BY <2>3, GotoKeepsLocals DEF IInv
  <2> QED BY <2>1, <2>2, <2>3
<1>9. ASSUME NEW h \in Handler, Record(h) PROVE TypedLocals'
  BY <1>9 DEF IInv, TypedLocals, Record, betaVars, ghosts, Goto
<1>10. ASSUME NEW h \in Handler, Audit(h) PROVE TypedLocals'
  BY <1>10, ReturnForgets DEF IInv, Audit
<1>11. ASSUME NEW h \in Handler, NEW a \in Alerts, Send(h, a) PROVE TypedLocals'
  BY <1>11 DEF IInv, TypedLocals, Send, trhVars
<1>12. ASSUME NEW ip \in Unblockable, Unblock(ip) PROVE TypedLocals'
  BY <1>12 DEF IInv, TypedLocals, Unblock, betaVars
<1>13. ASSUME Readmit PROVE TypedLocals'
  BY <1>13 DEF IInv, TypedLocals, Readmit, trhVars, betaVars
<1>14. ASSUME Sigterm PROVE TypedLocals'
  BY <1>14 DEF IInv, TypedLocals, Sigterm, trhVars, betaVars, ghosts
<1>15. ASSUME AcceptLoopExits PROVE TypedLocals'
  BY <1>15 DEF IInv, TypedLocals, AcceptLoopExits, trhVars, betaVars, ghosts
<1>16. ASSUME Exit PROVE TypedLocals'
  BY <1>16 DEF IInv, TypedLocals, Exit, trhVars, betaVars, ghosts
<1>17. ASSUME UNCHANGED vars PROVE TypedLocals'
  BY <1>17 DEF IInv, TypedLocals, vars, trhVars, betaVars, ghosts
<1> QED
  BY <1>1, <1>2, <1>3, <1>4, <1>5, <1>6, <1>7, <1>8, <1>9, <1>10, <1>11, <1>12, <1>13,
        <1>14, <1>15, <1>16, <1>17 DEF Next, Handle

LEMMA TypedSharedStep == IInv /\ [Next]_vars => TypedShared'
<1> SUFFICES ASSUME IInv, [Next]_vars PROVE TypedShared'
  OBVIOUS
<1>1. ASSUME NEW h \in Handler, Connect(h) PROVE TypedShared'
  BY <1>1 DEF IInv, TypedShared, Connect, ghosts, Goto
<1>2. ASSUME NEW h \in Handler, Hangup(h) PROVE TypedShared'
  BY <1>2 DEF IInv, TypedShared, Hangup, trhVars, ghosts
<1>3. ASSUME NEW h \in Handler, Dispatch(h) PROVE TypedShared'
  <2>1. Tail(buf[h]) \in Seq(Alerts)
    BY <1>3 DEF IInv, TypedShared, Dispatch
  <2> QED BY <1>3, <2>1 DEF IInv, TypedShared, Dispatch, betaVars, ghosts
<1>4. ASSUME NEW h \in Handler, Drained(h) PROVE TypedShared'
  <2>1. /\ inbox' \in {inbox, [inbox EXCEPT ![h] = <<>>]}
        /\ peer' \in {peer, [peer EXCEPT ![h] = "closed"]}
        /\ UNCHANGED <<buf, daemon, accepting, blockedIPs, unblocking, audit, seed, reopened>>
    BY <1>4 DEF Drained, CloseConn, betaVars, ghosts
  <2>2. <<>> \in Seq(Alerts)
    OBVIOUS
  <2> QED BY <2>1, <2>2 DEF IInv, TypedShared
<1>5. ASSUME NEW h \in Handler, Read(h) PROVE TypedShared'
  <2>1. /\ buf' = [buf EXCEPT ![h] = inbox[h]] \/ buf' = buf
        /\ inbox' = [inbox EXCEPT ![h] = <<>>]
        /\ peer' \in {peer, [peer EXCEPT ![h] = "closed"]}
        /\ UNCHANGED <<daemon, accepting, blockedIPs, unblocking, audit, seed, reopened>>
    BY <1>5 DEF Read, CloseConn, ghosts
  <2>2. <<>> \in Seq(Alerts)
    OBVIOUS
  <2> QED BY <2>1, <2>2 DEF IInv, TypedShared
<1>6. ASSUME NEW h \in Handler, Dedup(h) PROVE TypedShared'
  BY <1>6 DEF IInv, TypedShared, Dedup, betaVars, ghosts, Goto, Return
<1>7. ASSUME NEW h \in Handler, PlanBlock(h) PROVE TypedShared'
  BY <1>7 DEF IInv, TypedShared, PlanBlock, betaVars, ghosts, Goto, Return
<1>8. ASSUME NEW h \in Handler, ApplyCarve(h) PROVE TypedShared'
  BY <1>8 DEF IInv, TypedShared, ApplyCarve, betaVars, Goto, Return
<1>9. ASSUME NEW h \in Handler, Record(h) PROVE TypedShared'
  <2>1. cur[h].ip \in Addr
    BY <1>9 DEF Record, IInv, WorkIsActionable
  <2> QED BY <1>9, <2>1 DEF IInv, TypedShared, Record, betaVars, ghosts
<1>10. ASSUME NEW h \in Handler, Audit(h) PROVE TypedShared'
  <2>1. cur[h].ip \in Addr
    BY <1>10 DEF Audit, IInv, WorkIsActionable
  <2> QED BY <1>10, <2>1 DEF IInv, TypedShared, Audit, betaVars, ghosts
<1>11. ASSUME NEW h \in Handler, NEW a \in Alerts, Send(h, a) PROVE TypedShared'
  <2>1. Append(inbox[h], a) \in Seq(Alerts)
    BY DEF IInv, TypedShared
  <2> QED BY <1>11, <2>1 DEF IInv, TypedShared, Send, trhVars
<1>12. ASSUME NEW ip \in Unblockable, Unblock(ip) PROVE TypedShared'
  BY <1>12, ThreatAssumption DEF IInv, TypedShared, Unblock, betaVars
<1>13. ASSUME Readmit PROVE TypedShared'
  BY <1>13 DEF IInv, TypedShared, Readmit, trhVars, betaVars
<1>14. ASSUME Sigterm PROVE TypedShared'
  BY <1>14 DEF IInv, TypedShared, Sigterm, trhVars, betaVars, ghosts
<1>15. ASSUME AcceptLoopExits PROVE TypedShared'
  BY <1>15 DEF IInv, TypedShared, AcceptLoopExits, trhVars, betaVars, ghosts
<1>16. ASSUME Exit PROVE TypedShared'
  BY <1>16 DEF IInv, TypedShared, Exit, trhVars, betaVars, ghosts
<1>17. ASSUME UNCHANGED vars PROVE TypedShared'
  BY <1>17 DEF IInv, TypedShared, vars, trhVars, betaVars, ghosts
<1> QED
  BY <1>1, <1>2, <1>3, <1>4, <1>5, <1>6, <1>7, <1>8, <1>9, <1>10, <1>11, <1>12, <1>13,
        <1>14, <1>15, <1>16, <1>17 DEF Next, Handle

LEMMA AttachedStep == IInv /\ [Next]_vars => Attached'
<1> SUFFICES ASSUME IInv, [Next]_vars PROVE Attached'
  OBVIOUS
<1>1. ASSUME NEW h \in Handler, Connect(h) PROVE Attached'
  <2>1. UNCHANGED managerVars /\ UNCHANGED <<daemon, accepting>> /\ daemon # "exited"
    BY <1>1 DEF IInv, Attached, Connect
  <2> QED BY <2>1 DEF IInv, Attached, managerVars, Allowed
<1>2. ASSUME NEW h \in Handler, Hangup(h) PROVE Attached'
  <2>1. UNCHANGED managerVars /\ UNCHANGED <<daemon, accepting, pc>>
    BY <1>2 DEF Hangup, trhVars
  <2> QED BY <2>1 DEF IInv, Attached, managerVars, Allowed
<1>3. ASSUME NEW h \in Handler, Dispatch(h) PROVE Attached'
  <2>1. UNCHANGED managerVars /\ UNCHANGED <<daemon, accepting>> /\ daemon # "exited"
    BY <1>3 DEF IInv, Attached, Dispatch
  <2> QED BY <2>1 DEF IInv, Attached, managerVars, Allowed
<1>4. ASSUME NEW h \in Handler, Drained(h) PROVE Attached'
  <2>1. UNCHANGED managerVars /\ UNCHANGED <<daemon, accepting>> /\ daemon # "exited"
    BY <1>4 DEF IInv, Attached, Drained
  <2> QED BY <2>1 DEF IInv, Attached, managerVars, Allowed
<1>5. ASSUME NEW h \in Handler, Read(h) PROVE Attached'
  <2>1. UNCHANGED managerVars /\ UNCHANGED <<daemon, accepting>> /\ daemon # "exited"
    BY <1>5 DEF IInv, Attached, Read
  <2> QED BY <2>1 DEF IInv, Attached, managerVars, Allowed
<1>6. ASSUME NEW h \in Handler, Dedup(h) PROVE Attached'
  <2>1. UNCHANGED managerVars /\ UNCHANGED <<daemon, accepting>> /\ daemon # "exited"
    BY <1>6 DEF IInv, Attached, Dedup
  <2> QED BY <2>1 DEF IInv, Attached, managerVars, Allowed
<1>7. ASSUME NEW h \in Handler, PlanBlock(h) PROVE Attached'
  <2>1. UNCHANGED managerVars /\ UNCHANGED <<daemon, accepting>> /\ daemon # "exited"
    BY <1>7 DEF IInv, Attached, PlanBlock
  <2> QED BY <2>1 DEF IInv, Attached, managerVars, Allowed
<1>8. ASSUME NEW h \in Handler, ApplyCarve(h) PROVE Attached'
  <2>1. UNCHANGED <<daemon, accepting>> /\ daemon # "exited"
    BY <1>8 DEF IInv, Attached, ApplyCarve
  <2> QED BY <1>8, <2>1, ApplyCarveShape DEF IInv, Attached, Allowed, IsEntries
<1>9. ASSUME NEW h \in Handler, Record(h) PROVE Attached'
  <2>1. UNCHANGED managerVars /\ UNCHANGED <<daemon, accepting>> /\ daemon # "exited"
    BY <1>9 DEF IInv, Attached, Record
  <2> QED BY <2>1 DEF IInv, Attached, managerVars, Allowed
<1>10. ASSUME NEW h \in Handler, Audit(h) PROVE Attached'
  <2>1. UNCHANGED managerVars /\ UNCHANGED <<daemon, accepting>> /\ daemon # "exited"
    BY <1>10 DEF IInv, Attached, Audit
  <2> QED BY <2>1 DEF IInv, Attached, managerVars, Allowed
<1>11. ASSUME NEW h \in Handler, NEW a \in Alerts, Send(h, a) PROVE Attached'
  <2>1. UNCHANGED managerVars /\ UNCHANGED <<daemon, accepting, pc>>
    BY <1>11 DEF Send, trhVars
  <2> QED BY <2>1 DEF IInv, Attached, managerVars, Allowed
<1>12. ASSUME NEW ip \in Unblockable, Unblock(ip) PROVE Attached'
  <2>1. UNCHANGED managerVars /\ UNCHANGED <<daemon, accepting, pc>>
    BY <1>12 DEF Unblock, trhVars
  <2> QED BY <2>1 DEF IInv, Attached, managerVars, Allowed
<1>13. ASSUME Readmit PROVE Attached'
  <2>1. UNCHANGED <<daemon, accepting>> /\ daemon # "exited"
    BY <1>13 DEF IInv, Attached, Readmit
  <2> QED BY <1>13, <2>1, ReadmitShape DEF IInv, Attached, Allowed, IsEntries
<1>14. ASSUME Sigterm PROVE Attached'
  BY <1>14 DEF IInv, Attached, Sigterm, trhVars, betaVars, ghosts, managerVars, Allowed
<1>15. ASSUME AcceptLoopExits PROVE Attached'
  BY <1>15 DEF IInv, Attached, AcceptLoopExits, trhVars, betaVars, ghosts, managerVars,
        Allowed
<1>16. ASSUME Exit PROVE Attached'
  <2>1. /\ attached' = FALSE /\ mapOpen' = FALSE /\ bpf' = {} /\ entries' = entries
        /\ daemon' = "exited" /\ ~accepting' /\ \A h \in Handler : pc'[h] = "none"
    BY <1>16 DEF Exit, Detach, trhVars
  <2>2. IsEntries(entries)
    BY DEF IInv, Attached
  <2> QED BY <2>1, <2>2 DEF Attached
<1>17. ASSUME UNCHANGED vars PROVE Attached'
  BY <1>17 DEF IInv, Attached, vars, trhVars, betaVars, ghosts, managerVars, Allowed
<1> QED
  BY <1>1, <1>2, <1>3, <1>4, <1>5, <1>6, <1>7, <1>8, <1>9, <1>10, <1>11, <1>12, <1>13,
        <1>14, <1>15, <1>16, <1>17 DEF Next, Handle

(* A handler that reads, forgets or passes on its alerts accuses nobody.   *)
LEMMA NobodyNewIsNamed ==
    ASSUME IInv, NEW h \in Handler,
           buf' = [buf EXCEPT ![h] = inbox[h]] \/ buf' = buf,
           inbox' = [inbox EXCEPT ![h] = <<>>] \/ inbox' = inbox,
           cur' = cur \/ cur' = [cur EXCEPT ![h] = NoAlert],
           accused' = accused
    PROVE  AlertsAccuse'
<1>1. Named' = Named
  BY DEF Named
<1>2. ASSUME NEW g \in Handler
      PROVE  /\ inbox[g] \in Seq(Named) /\ buf[g] \in Seq(Named)
             /\ cur[g] \in Named \cup {NoAlert}
  BY DEF IInv, AlertsAccuse
<1>3. ASSUME NEW g \in Handler
      PROVE  /\ inbox'[g] \in {inbox[g], <<>>} /\ buf'[g] \in {buf[g], inbox[g]}
             /\ cur'[g] \in {cur[g], NoAlert}
  BY DEF IInv, TypedLocals, TypedShared
<1>4. <<>> \in Seq(Named)
  OBVIOUS
<1>5. ASSUME NEW g \in Handler
      PROVE  /\ inbox'[g] \in Seq(Named) /\ buf'[g] \in Seq(Named)
             /\ cur'[g] \in Named \cup {NoAlert}
  BY <1>2, <1>3, <1>4
<1> QED BY <1>1, <1>5 DEF AlertsAccuse

(* The alerts under way, and what is done about them.                      *)
LEMMA AlertsAccuseStep == IInv /\ [Next]_vars => AlertsAccuse'
<1> SUFFICES ASSUME IInv, [Next]_vars PROVE AlertsAccuse'
  OBVIOUS
<1>1. ASSUME NEW h \in Handler, Connect(h) PROVE AlertsAccuse'
  <2>1. inbox' = [inbox EXCEPT ![h] = <<>>] /\ UNCHANGED <<buf, cur, accused>>
    BY <1>1 DEF Connect, ghosts
  <2>2. <<>> \in Seq(Named)
    OBVIOUS
  <2> QED BY <2>1, <2>2 DEF IInv, TypedShared, AlertsAccuse, Named
<1>2. ASSUME NEW h \in Handler, Hangup(h) PROVE AlertsAccuse'
  BY <1>2 DEF IInv, AlertsAccuse, Named, Hangup, trhVars, ghosts
<1>3. ASSUME NEW h \in Handler, Dispatch(h) PROVE AlertsAccuse'
  <2>1. /\ Head(buf[h]) \in Named /\ Tail(buf[h]) \in Seq(Named)
    BY <1>3 DEF IInv, AlertsAccuse, Dispatch
  <2>2. /\ buf' = [buf EXCEPT ![h] = Tail(buf[h])] /\ UNCHANGED <<inbox, accused>>
        /\ cur' \in {cur, [cur EXCEPT ![h] = Head(buf[h])]}
    BY <1>3 DEF Dispatch, betaVars, ghosts, IInv, TypedLocals
  <2> QED BY <2>1, <2>2 DEF IInv, TypedLocals, TypedShared, AlertsAccuse, Named
<1>4. ASSUME NEW h \in Handler, Drained(h) PROVE AlertsAccuse'
  <2>1. /\ buf' = [buf EXCEPT ![h] = inbox[h]] \/ buf' = buf
        /\ inbox' = [inbox EXCEPT ![h] = <<>>] \/ inbox' = inbox
        /\ cur' = cur \/ cur' = [cur EXCEPT ![h] = NoAlert]
        /\ accused' = accused
    BY <1>4 DEF Drained, CloseConn, Return, betaVars, ghosts
  <2> QED BY <2>1, NobodyNewIsNamed
<1>5. ASSUME NEW h \in Handler, Read(h) PROVE AlertsAccuse'
  <2>1. /\ buf' = [buf EXCEPT ![h] = inbox[h]] \/ buf' = buf
        /\ inbox' = [inbox EXCEPT ![h] = <<>>] \/ inbox' = inbox
        /\ cur' = cur \/ cur' = [cur EXCEPT ![h] = NoAlert]
        /\ accused' = accused
    BY <1>5 DEF Read, CloseConn, Return, betaVars, ghosts
  <2> QED BY <2>1, NobodyNewIsNamed
<1>6. ASSUME NEW h \in Handler, Dedup(h) PROVE AlertsAccuse'
  <2>1. UNCHANGED <<inbox, buf, accused>>
    BY <1>6 DEF Dedup, betaVars, ghosts
  <2>2. cur' = cur \/ cur' = [cur EXCEPT ![h] = NoAlert]
    BY <1>6 DEF Dedup, Return
  <2> QED BY <2>1, <2>2 DEF IInv, TypedLocals, AlertsAccuse, Named
<1>7. ASSUME NEW h \in Handler, PlanBlock(h) PROVE AlertsAccuse'
  <2>1. UNCHANGED <<inbox, buf, accused>>
    BY <1>7 DEF PlanBlock, betaVars, ghosts
  <2>2. cur' = cur \/ cur' = [cur EXCEPT ![h] = NoAlert]
    BY <1>7 DEF PlanBlock, Return
  <2> QED BY <2>1, <2>2 DEF IInv, TypedLocals, AlertsAccuse, Named
<1>8. ASSUME NEW h \in Handler, ApplyCarve(h) PROVE AlertsAccuse'
  <2>1. UNCHANGED <<inbox, buf, accused>>
    BY <1>8 DEF ApplyCarve, betaVars
  <2>2. cur' = cur \/ cur' = [cur EXCEPT ![h] = NoAlert]
    BY <1>8 DEF ApplyCarve, Return
  <2> QED BY <2>1, <2>2 DEF IInv, TypedLocals, AlertsAccuse, Named
<1>9. ASSUME NEW h \in Handler, Record(h) PROVE AlertsAccuse'
  BY <1>9 DEF IInv, AlertsAccuse, Named, Record, betaVars, ghosts, Goto
<1>10. ASSUME NEW h \in Handler, Audit(h) PROVE AlertsAccuse'
  <2>1. UNCHANGED <<inbox, buf, accused>>
    BY <1>10 DEF Audit, betaVars, ghosts
  <2>2. cur' = cur \/ cur' = [cur EXCEPT ![h] = NoAlert]
    BY <1>10 DEF Audit, Return
  <2> QED BY <2>1, <2>2 DEF IInv, TypedLocals, AlertsAccuse, Named
<1>11. ASSUME NEW h \in Handler, NEW a \in Alerts, Send(h, a) PROVE AlertsAccuse'
  <2>1. /\ inbox' = [inbox EXCEPT ![h] = Append(inbox[h], a)] /\ UNCHANGED <<buf, cur>>
        /\ a \in Named' /\ Named \subseteq Named'
    BY <1>11 DEF Send, trhVars, Named
  <2>2. ASSUME NEW g \in Handler
        PROVE  /\ inbox[g] \in Seq(Named') /\ buf[g] \in Seq(Named')
               /\ cur[g] \in Named' \cup {NoAlert}
    BY <2>1, SeqGrows DEF IInv, AlertsAccuse
  <2>3. Append(inbox[h], a) \in Seq(Named')
    BY <2>1, <2>2
  <2> QED BY <2>1, <2>2, <2>3 DEF IInv, TypedShared, AlertsAccuse
<1>12. ASSUME NEW ip \in Unblockable, Unblock(ip) PROVE AlertsAccuse'
  BY <1>12 DEF IInv, AlertsAccuse, Named, Unblock, betaVars
<1>13. ASSUME Readmit PROVE AlertsAccuse'
  BY <1>13 DEF IInv, AlertsAccuse, Named, Readmit, trhVars, betaVars
<1>14. ASSUME Sigterm PROVE AlertsAccuse'
  BY <1>14 DEF IInv, AlertsAccuse, Named, Sigterm, trhVars, betaVars, ghosts
<1>15. ASSUME AcceptLoopExits PROVE AlertsAccuse'
  BY <1>15 DEF IInv, AlertsAccuse, Named, AcceptLoopExits, trhVars, betaVars, ghosts
<1>16. ASSUME Exit PROVE AlertsAccuse'
  BY <1>16 DEF IInv, AlertsAccuse, Named, Exit, trhVars, betaVars, ghosts
<1>17. ASSUME UNCHANGED vars PROVE AlertsAccuse'
  BY <1>17 DEF IInv, AlertsAccuse, Named, vars, trhVars, betaVars, ghosts
<1> QED
  BY <1>1, <1>2, <1>3, <1>4, <1>5, <1>6, <1>7, <1>8, <1>9, <1>10, <1>11, <1>12, <1>13,
        <1>14, <1>15, <1>16, <1>17 DEF Next, Handle

LEMMA WorkIsActionableStep == IInv /\ [Next]_vars => WorkIsActionable'
<1> SUFFICES ASSUME IInv, [Next]_vars PROVE WorkIsActionable'
  OBVIOUS
<1>1. ASSUME NEW h \in Handler, Connect(h) PROVE WorkIsActionable'
  <2>1. \A g \in Handler : \/ pc'[g] = pc[g] /\ cur'[g] = cur[g] /\ plan'[g] = plan[g]
                           \/ pc'[g] \in {"none", "drain", "read"}
    BY <1>1 DEF IInv, TypedLocals, Connect, Goto, Return, CloseConn
  <2> QED BY <2>1 DEF IInv, WorkIsActionable
<1>2. ASSUME NEW h \in Handler, Hangup(h) PROVE WorkIsActionable'
  <2>1. UNCHANGED <<pc, cur, plan>>
    BY <1>2 DEF Hangup, trhVars
  <2> QED BY <2>1 DEF IInv, WorkIsActionable
<1>3. ASSUME NEW h \in Handler, Dispatch(h) PROVE WorkIsActionable'
  <2> DEFINE a == Head(buf[h])
  <2>1. a \in Alert
    BY <1>3, ThreatAssumption DEF IInv, TypedShared, Dispatch
  <2>2. /\ FirstStep(a) \in {"plan", "dedup", "drain"}
        /\ FirstStep(a) # "drain" => Actionable(a)
        /\ FirstStep(a) = "dedup" => a.ip \in Addr
    BY <2>1 DEF FirstStep, Actionable, Exceeds, Alert
  <2>3. /\ pc[h] = "drain" /\ plan' = plan /\ pc' = [pc EXCEPT ![h] = FirstStep(a)]
        /\ FirstStep(a) # "drain" => cur' = [cur EXCEPT ![h] = a]
        /\ \A g \in Handler \ {h} : cur'[g] = cur[g]
    BY <1>3 DEF IInv, TypedLocals, Dispatch, Goto
  <2> HIDE DEF a
  <2> QED BY <2>2, <2>3 DEF IInv, TypedLocals, WorkIsActionable
<1>4. ASSUME NEW h \in Handler, Drained(h) PROVE WorkIsActionable'
  <2>1. \A g \in Handler : \/ pc'[g] = pc[g] /\ cur'[g] = cur[g] /\ plan'[g] = plan[g]
                           \/ pc'[g] \in {"none", "drain", "read"}
    BY <1>4 DEF IInv, TypedLocals, Drained, Goto, Return, CloseConn
  <2> QED BY <2>1 DEF IInv, WorkIsActionable
<1>5. ASSUME NEW h \in Handler, Read(h) PROVE WorkIsActionable'
  <2>1. \A g \in Handler : \/ pc'[g] = pc[g] /\ cur'[g] = cur[g] /\ plan'[g] = plan[g]
                           \/ pc'[g] \in {"none", "drain", "read"}
    BY <1>5 DEF IInv, TypedLocals, Read, Goto, Return, CloseConn
  <2> QED BY <2>1 DEF IInv, WorkIsActionable
<1>6. ASSUME NEW h \in Handler, Dedup(h) PROVE WorkIsActionable'
  <2>1. /\ pc[h] = "dedup"
        /\ \A g \in Handler : \/ pc'[g] = pc[g] /\ cur'[g] = cur[g] /\ plan'[g] = plan[g]
                              \/ pc'[g] = "drain"
                              \/ g = h /\ pc'[g] = "plan" /\ cur'[g] = cur[g]
    BY <1>6 DEF IInv, TypedLocals, Dedup, Goto, Return
  <2> QED BY <2>1 DEF IInv, WorkIsActionable
<1>7. ASSUME NEW h \in Handler, PlanBlock(h) PROVE WorkIsActionable'
  <2>1. CASE Return(h, "drain")
    <3>1. \A g \in Handler : \/ pc'[g] = pc[g] /\ cur'[g] = cur[g] /\ plan'[g] = plan[g]
                            \/ pc'[g] = "drain"
      BY <2>1 DEF IInv, TypedLocals, Goto, Return
    <3> QED BY <3>1 DEF IInv, WorkIsActionable
  <2>2. CASE cur[h].ip \in Addr /\ Goto(h, "record") /\ cur' = cur /\ plan' = plan
    <3>1. Actionable(cur[h])
      BY <1>7, PlanBlockShape
    <3>2. \A g \in Handler : \/ pc'[g] = pc[g] /\ g # h
                             \/ pc'[g] = "record" /\ g = h
      BY <2>2 DEF IInv, TypedLocals, Goto
    <3> QED BY <2>2, <3>1, <3>2 DEF IInv, WorkIsActionable
  <2>3. CASE /\ cur[h].ip \in Addr /\ Goto(h, "apply") /\ cur' = cur
             /\ \E p \in Prefix :
                  /\ Covers(p, cur[h].ip)
                  /\ plan' = [plan EXCEPT ![h] = Plan(cur[h].ip)]
                  /\ Plan(cur[h].ip).remove = {p}
                  /\ DOMAIN Plan(cur[h].ip).add = ExcludeIP(p, cur[h].ip)
    <3>1. Actionable(cur[h])
      BY <1>7, PlanBlockShape
    <3> QED BY <2>3, <3>1 DEF IInv, TypedLocals, Goto, WorkIsActionable
  <2> QED BY <1>7, <2>1, <2>2, <2>3, PlanBlockShape
<1>8. ASSUME NEW h \in Handler, ApplyCarve(h) PROVE WorkIsActionable'
  <2>1. /\ pc[h] = "apply"
        /\ \A g \in Handler : \/ pc'[g] = pc[g] /\ cur'[g] = cur[g] /\ plan'[g] = plan[g]
                              \/ pc'[g] = "drain"
                              \/ g = h /\ pc'[g] = "record" /\ cur'[g] = cur[g]
    BY <1>8 DEF IInv, TypedLocals, ApplyCarve, Goto, Return
  <2> QED BY <2>1 DEF IInv, WorkIsActionable
<1>9. ASSUME NEW h \in Handler, Record(h) PROVE WorkIsActionable'
  <2>1. /\ pc[h] = "record"
        /\ \A g \in Handler : \/ pc'[g] = pc[g] /\ cur'[g] = cur[g] /\ plan'[g] = plan[g]
                              \/ g = h /\ pc'[g] = "audit" /\ cur'[g] = cur[g]
    BY <1>9 DEF IInv, TypedLocals, Record, Goto
  <2> QED BY <2>1 DEF IInv, WorkIsActionable
<1>10. ASSUME NEW h \in Handler, Audit(h) PROVE WorkIsActionable'
  <2>1. \A g \in Handler : \/ pc'[g] = pc[g] /\ cur'[g] = cur[g] /\ plan'[g] = plan[g]
                           \/ pc'[g] \in {"none", "drain", "read"}
    BY <1>10 DEF IInv, TypedLocals, Audit, Goto, Return, CloseConn
  <2> QED BY <2>1 DEF IInv, WorkIsActionable
<1>11. ASSUME NEW h \in Handler, NEW a \in Alerts, Send(h, a) PROVE WorkIsActionable'
  <2>1. UNCHANGED <<pc, cur, plan>>
    BY <1>11 DEF Send, trhVars
  <2> QED BY <2>1 DEF IInv, WorkIsActionable
<1>12. ASSUME NEW ip \in Unblockable, Unblock(ip) PROVE WorkIsActionable'
  <2>1. UNCHANGED <<pc, cur, plan>>
    BY <1>12 DEF Unblock, trhVars
  <2> QED BY <2>1 DEF IInv, WorkIsActionable
<1>13. ASSUME Readmit PROVE WorkIsActionable'
  <2>1. UNCHANGED <<pc, cur, plan>>
    BY <1>13 DEF Readmit, trhVars
  <2> QED BY <2>1 DEF IInv, WorkIsActionable
<1>14. ASSUME Sigterm PROVE WorkIsActionable'
  <2>1. UNCHANGED <<pc, cur, plan>>
    BY <1>14 DEF Sigterm, trhVars
  <2> QED BY <2>1 DEF IInv, WorkIsActionable
<1>15. ASSUME AcceptLoopExits PROVE WorkIsActionable'
  <2>1. UNCHANGED <<pc, cur, plan>>
    BY <1>15 DEF AcceptLoopExits, trhVars
  <2> QED BY <2>1 DEF IInv, WorkIsActionable
<1>16. ASSUME Exit PROVE WorkIsActionable'
  <2>1. UNCHANGED <<pc, cur, plan>>
    BY <1>16 DEF Exit, trhVars
  <2> QED BY <2>1 DEF IInv, WorkIsActionable
<1>17. ASSUME UNCHANGED vars PROVE WorkIsActionable'
  BY <1>17 DEF IInv, WorkIsActionable, vars, trhVars, betaVars, ghosts
<1> QED
  BY <1>1, <1>2, <1>3, <1>4, <1>5, <1>6, <1>7, <1>8, <1>9, <1>10, <1>11, <1>12, <1>13,
        <1>14, <1>15, <1>16, <1>17 DEF Next, Handle

(* A carve shuts out its own address only, which an alert has accused.     *)
LEMMA OnlyAccusedAreDeniedStep == IInv /\ [Next]_vars => OnlyAccusedAreDenied'
<1> SUFFICES ASSUME IInv, [Next]_vars PROVE OnlyAccusedAreDenied'
  OBVIOUS
<1>1. ASSUME NEW h \in Handler, Connect(h) PROVE OnlyAccusedAreDenied'
  <2>1. UNCHANGED <<attached, bpf, seed>> /\ accused \subseteq accused'
    BY <1>1 DEF Connect, managerVars, ghosts
  <2> QED BY <2>1 DEF IInv, OnlyAccusedAreDenied, KernelAdmits
<1>2. ASSUME NEW h \in Handler, Hangup(h) PROVE OnlyAccusedAreDenied'
  <2>1. UNCHANGED <<attached, bpf, seed>> /\ accused \subseteq accused'
    BY <1>2 DEF Hangup, managerVars, ghosts
  <2> QED BY <2>1 DEF IInv, OnlyAccusedAreDenied, KernelAdmits
<1>3. ASSUME NEW h \in Handler, Dispatch(h) PROVE OnlyAccusedAreDenied'
  <2>1. UNCHANGED <<attached, bpf, seed>> /\ accused \subseteq accused'
    BY <1>3 DEF Dispatch, managerVars, ghosts
  <2> QED BY <2>1 DEF IInv, OnlyAccusedAreDenied, KernelAdmits
<1>4. ASSUME NEW h \in Handler, Drained(h) PROVE OnlyAccusedAreDenied'
  <2>1. UNCHANGED <<attached, bpf, seed>> /\ accused \subseteq accused'
    BY <1>4 DEF Drained, managerVars, ghosts
  <2> QED BY <2>1 DEF IInv, OnlyAccusedAreDenied, KernelAdmits
<1>5. ASSUME NEW h \in Handler, Read(h) PROVE OnlyAccusedAreDenied'
  <2>1. UNCHANGED <<attached, bpf, seed>> /\ accused \subseteq accused'
    BY <1>5 DEF Read, managerVars, ghosts
  <2> QED BY <2>1 DEF IInv, OnlyAccusedAreDenied, KernelAdmits
<1>6. ASSUME NEW h \in Handler, Dedup(h) PROVE OnlyAccusedAreDenied'
  <2>1. UNCHANGED <<attached, bpf, seed>> /\ accused \subseteq accused'
    BY <1>6 DEF Dedup, managerVars, ghosts
  <2> QED BY <2>1 DEF IInv, OnlyAccusedAreDenied, KernelAdmits
<1>7. ASSUME NEW h \in Handler, PlanBlock(h) PROVE OnlyAccusedAreDenied'
  <2>1. UNCHANGED <<attached, bpf, seed>> /\ accused \subseteq accused'
    BY <1>7 DEF PlanBlock, managerVars, ghosts
  <2> QED BY <2>1 DEF IInv, OnlyAccusedAreDenied, KernelAdmits
<1>8. ASSUME NEW h \in Handler, ApplyCarve(h) PROVE OnlyAccusedAreDenied'
  <2>1. attached /\ attached' /\ UNCHANGED <<seed, accused>>
    BY <1>8, ApplyCarveShape DEF ApplyCarve
  <2>2. Covered(bpf) \ {cur[h].ip} \subseteq Covered(bpf')
    <3>1. CASE bpf' = bpf
      BY <3>1
    <3>2. ASSUME NEW p \in bpf, Covers(p, cur[h].ip),
                 bpf' = (bpf \ {p}) \cup ExcludeIP(p, cur[h].ip)
          PROVE  Covered(bpf) \ {cur[h].ip} \subseteq Covered(bpf')
      <4>1. bpf \subseteq Prefix /\ cur[h].ip \in Addr
        BY <1>8, ApplyCarveShape
      <4>2. Covered(bpf) \ Covered((bpf \ {p}) \cup ExcludeIP(p, cur[h].ip)) \subseteq {cur[h].ip}
        BY <3>2, <4>1, SplittingIsSurgical
      <4> QED BY <3>2, <4>2
    <3> QED BY <1>8, <3>1, <3>2, ApplyCarveShape
  <2>3. cur[h].ip \in accused
    BY <1>8, ApplyCarveShape
  <2> QED BY <2>1, <2>2, <2>3 DEF IInv, OnlyAccusedAreDenied, KernelAdmits
<1>9. ASSUME NEW h \in Handler, Record(h) PROVE OnlyAccusedAreDenied'
  <2>1. UNCHANGED <<attached, bpf, seed>> /\ accused \subseteq accused'
    BY <1>9 DEF Record, managerVars, ghosts
  <2> QED BY <2>1 DEF IInv, OnlyAccusedAreDenied, KernelAdmits
<1>10. ASSUME NEW h \in Handler, Audit(h) PROVE OnlyAccusedAreDenied'
  <2>1. UNCHANGED <<attached, bpf, seed>> /\ accused \subseteq accused'
    BY <1>10 DEF Audit, managerVars, ghosts
  <2> QED BY <2>1 DEF IInv, OnlyAccusedAreDenied, KernelAdmits
<1>11. ASSUME NEW h \in Handler, NEW a \in Alerts, Send(h, a) PROVE OnlyAccusedAreDenied'
  <2>1. UNCHANGED <<attached, bpf, seed>> /\ accused \subseteq accused'
    BY <1>11 DEF Send, managerVars, ghosts
  <2> QED BY <2>1 DEF IInv, OnlyAccusedAreDenied, KernelAdmits
<1>12. ASSUME NEW ip \in Unblockable, Unblock(ip) PROVE OnlyAccusedAreDenied'
  <2>1. UNCHANGED <<attached, bpf, seed>> /\ accused \subseteq accused'
    BY <1>12 DEF Unblock, managerVars, ghosts
  <2> QED BY <2>1 DEF IInv, OnlyAccusedAreDenied, KernelAdmits
<1>13. ASSUME Readmit PROVE OnlyAccusedAreDenied'
  <2>1. attached /\ attached' = attached /\ UNCHANGED <<seed, accused>>
    BY <1>13, ReadmitShape DEF Readmit
  <2>2. Covered(bpf) \subseteq Covered(bpf')
    BY <1>13, ReadmitShape DEF Covered
  <2> QED BY <2>1, <2>2 DEF IInv, OnlyAccusedAreDenied, KernelAdmits
<1>14. ASSUME Sigterm PROVE OnlyAccusedAreDenied'
  <2>1. UNCHANGED <<attached, bpf, seed>> /\ accused \subseteq accused'
    BY <1>14 DEF Sigterm, managerVars, ghosts
  <2> QED BY <2>1 DEF IInv, OnlyAccusedAreDenied, KernelAdmits
<1>15. ASSUME AcceptLoopExits PROVE OnlyAccusedAreDenied'
  <2>1. UNCHANGED <<attached, bpf, seed>> /\ accused \subseteq accused'
    BY <1>15 DEF AcceptLoopExits, managerVars, ghosts
  <2> QED BY <2>1 DEF IInv, OnlyAccusedAreDenied, KernelAdmits
<1>16. ASSUME Exit PROVE OnlyAccusedAreDenied'
  BY <1>16 DEF Exit, Detach, OnlyAccusedAreDenied
<1>17. ASSUME UNCHANGED vars PROVE OnlyAccusedAreDenied'
  BY <1>17 DEF IInv, OnlyAccusedAreDenied, KernelAdmits, vars, managerVars, ghosts
<1> QED
  BY <1>1, <1>2, <1>3, <1>4, <1>5, <1>6, <1>7, <1>8, <1>9, <1>10, <1>11, <1>12, <1>13,
        <1>14, <1>15, <1>16, <1>17 DEF Next, Handle

-----------------------------------------------------------------------------
LEMMA InitIInv == Init => IInv
<1> SUFFICES ASSUME Init PROVE IInv
  OBVIOUS
<1>1. /\ seed \in Seeds /\ IsEntries(seed) /\ IsEntries(entries)
      /\ bpf = Allowed /\ bpf = DOMAIN seed /\ Fits(bpf)
  BY ThreatAssumption DEF Init, IsEntries, Allowed
<1>2. TypedLocals
  BY NoPlanIsPlan DEF Init, TypedLocals
<1>3. TypedShared
  <2>1. <<>> \in Seq(Alerts)
    OBVIOUS
  <2> QED BY <1>1, <2>1 DEF Init, TypedShared
<1>4. Attached
  BY <1>1 DEF Init, Attached, IsEntries
<1>5. AlertsAccuse
  <2>1. <<>> \in Seq(Named)
    OBVIOUS
  <2> QED BY <2>1 DEF Init, AlertsAccuse
<1>6. WorkIsActionable /\ OnlyAccusedAreDenied
  BY <1>1 DEF Init, WorkIsActionable, OnlyAccusedAreDenied, KernelAdmits
<1> QED BY <1>2, <1>3, <1>4, <1>5, <1>6 DEF IInv

LEMMA StepIInv == IInv /\ [Next]_vars => IInv'
BY TypedLocalsStep, TypedSharedStep, AttachedStep, AlertsAccuseStep, WorkIsActionableStep,
   OnlyAccusedAreDeniedStep DEF IInv

LEMMA Invariance == Spec => []IInv
BY InitIInv, StepIInv, PTL DEF Spec

(* The threat handler keeps its types, and the manager its own.            *)
THEOREM TypeCorrect == Spec => []TypeOK
<1>1. IInv => TypeOK
  BY DEF IInv, TypedLocals, TypedShared, Attached, TypeOK, IsEntries, Allowed
<1> QED BY Invariance, <1>1, PTL

(* However blocks interleave, whatever is planned from prefixes that are   *)
(* gone by the time it is applied, no address of the granted ranges is     *)
(* shut out that no actionable alert has named (blockIP).                  *)
THEOREM BlocksAreSurgical == Spec => []OnlyAccusedAreDenied
BY Invariance, PTL DEF IInv

-----------------------------------------------------------------------------
(* Allowlists without nesting.                                             *)

(* An address covers itself only.                                          *)
LEMMA AddrCoversItself ==
    ASSUME NEW a \in Addr, NEW b \in Addr, Covers(a, b)
    PROVE  a = b
BY SameBitsSameAddress DEF Covers, Addr

(* Below an address there is nothing to exclude it from.                   *)
LEMMA NothingBelowAnAddress ==
    ASSUME NEW a \in Addr, NEW b
    PROVE  ExcludeIP(a, b) = {}
BY DEF ExcludeIP, Addr

(* A step that takes no address off the trie's mind: what is blocked was   *)
(* blocked before, or is not covered.                                      *)
LEMMA BlockingStep ==
    ASSUME OnlyReadmitted, UNCHANGED <<attached, bpf>>, reopened \subseteq reopened',
           \A ip \in Addr : Blocked(ip)' => Blocked(ip) \/ (attached => ip \notin Covered(bpf))
    PROVE  OnlyReadmitted'
<1>1. bpf' \ reopened' \subseteq bpf \ reopened
  OBVIOUS
<1>2. Disjoint(bpf \ reopened) => Disjoint(bpf' \ reopened')
  BY <1>1 DEF Disjoint
<1>3. ASSUME attached, NEW ip \in Addr \ reopened', Blocked(ip)', NEW p \in bpf'
      PROVE  ~Covers(p, ip)
  BY <1>3 DEF OnlyReadmitted, Covered
<1> QED BY <1>2, <1>3 DEF OnlyReadmitted

(* A carve over prefixes that nest with the /32s of reopened only: nothing *)
(* else covers its address afterwards, and nothing else nests.             *)
LEMMA SplittingBesideReopened ==
    ASSUME NEW P \in SUBSET Prefix, NEW R \in SUBSET Addr, Disjoint(P \ R),
           NEW p \in P, NEW a \in Addr, Covers(p, a)
    PROVE  LET Q == (P \ {p}) \cup ExcludeIP(p, a)
           IN  /\ Disjoint(Q \ R)
               /\ a \in R \/ a \notin Covered(Q)
<1> DEFINE Q == (P \ {p}) \cup ExcludeIP(p, a)
<1>1. ASSUME NEW q \in R, Covers(q, a) PROVE a \in R
  BY <1>1, AddrCoversItself
<1>2. CASE p \in R
  <2>1. Q \subseteq P
    BY <1>2, NothingBelowAnAddress
  <2> HIDE DEF Q
  <2>2. Disjoint(Q \ R)
    BY <2>1 DEF Disjoint
  <2> QED BY <1>1, <1>2, <2>2 DEF Q
<1>3. CASE p \notin R
  <2> DEFINE S == P \ R
             T == (S \ {p}) \cup ExcludeIP(p, a)
  <2>1. S \in SUBSET Prefix /\ p \in S /\ Disjoint(S)
    BY <1>3
  <2>2. a \notin Covered(T) /\ Disjoint(T)
    BY <2>1, SplittingDenies
  <2>3. Q \ R \subseteq T /\ Q \subseteq T \cup R
    OBVIOUS
  <2> HIDE DEF Q, S, T
  <2>4. Disjoint(Q \ R)
    BY <2>2, <2>3 DEF Disjoint
  <2>5. ASSUME a \in Covered(Q) PROVE a \in R
    BY <1>1, <2>2, <2>3, <2>5 DEF Covered
  <2> QED BY <2>4, <2>5 DEF Q
<1> QED BY <1>2, <1>3

(* What is blocked and was never re-admitted stays uncovered.              *)
LEMMA OnlyReadmittedStep == IInv /\ OnlyReadmitted /\ [Next]_vars => OnlyReadmitted'
<1> SUFFICES ASSUME IInv, OnlyReadmitted, [Next]_vars PROVE OnlyReadmitted'
  OBVIOUS
<1>1. ASSUME NEW h \in Handler, Connect(h) PROVE OnlyReadmitted'
  <2>1. UNCHANGED <<attached, bpf, reopened, blockedIPs, unblocking, audit>>
    BY <1>1 DEF Connect, managerVars, ghosts, Goto
  <2>2. \A g \in Handler : \/ pc'[g] = pc[g] /\ cur'[g] = cur[g]
                           \/ pc'[g] \notin {"record", "audit"}
    BY <1>1 DEF IInv, TypedLocals, Connect, ghosts, Goto
  <2> QED BY <2>1, <2>2, BlockingStep DEF Blocked
<1>2. ASSUME NEW h \in Handler, Hangup(h) PROVE OnlyReadmitted'
  <2>1. UNCHANGED <<attached, bpf, reopened, blockedIPs, unblocking, audit>>
    BY <1>2 DEF Hangup, managerVars, ghosts, trhVars
  <2>2. \A g \in Handler : \/ pc'[g] = pc[g] /\ cur'[g] = cur[g]
                           \/ pc'[g] \notin {"record", "audit"}
    BY <1>2 DEF IInv, TypedLocals, Hangup, ghosts, trhVars
  <2> QED BY <2>1, <2>2, BlockingStep DEF Blocked
<1>3. ASSUME NEW h \in Handler, Dispatch(h) PROVE OnlyReadmitted'
  <2>1. UNCHANGED <<attached, bpf, reopened, blockedIPs, unblocking, audit>>
    BY <1>3 DEF Dispatch, managerVars, ghosts, Goto, FirstStep
  <2>2. \A g \in Handler : \/ pc'[g] = pc[g] /\ cur'[g] = cur[g]
                           \/ pc'[g] \notin {"record", "audit"}
    BY <1>3 DEF IInv, TypedLocals, Dispatch, ghosts, Goto, FirstStep
  <2> QED BY <2>1, <2>2, BlockingStep DEF Blocked
<1>4. ASSUME NEW h \in Handler, Drained(h) PROVE OnlyReadmitted'
  <2>1. UNCHANGED <<attached, bpf, reopened, blockedIPs, unblocking, audit>>
    BY <1>4 DEF Drained, managerVars, ghosts, Goto, Return, CloseConn
  <2>2. \A g \in Handler : \/ pc'[g] = pc[g] /\ cur'[g] = cur[g]
                           \/ pc'[g] \notin {"record", "audit"}
    BY <1>4 DEF IInv, TypedLocals, Drained, ghosts, Goto, Return, CloseConn
  <2> QED BY <2>1, <2>2, BlockingStep DEF Blocked
<1>5. ASSUME NEW h \in Handler, Read(h) PROVE OnlyReadmitted'
  <2>1. UNCHANGED <<attached, bpf, reopened, blockedIPs, unblocking, audit>>
    BY <1>5 DEF Read, managerVars, ghosts, Goto, Return, CloseConn
  <2>2. \A g \in Handler : \/ pc'[g] = pc[g] /\ cur'[g] = cur[g]
                           \/ pc'[g] \notin {"record", "audit"}
    BY <1>5 DEF IInv, TypedLocals, Read, ghosts, Goto, Return, CloseConn
  <2> QED BY <2>1, <2>2, BlockingStep DEF Blocked
<1>6. ASSUME NEW h \in Handler, Dedup(h) PROVE OnlyReadmitted'
  <2>1. UNCHANGED <<attached, bpf, reopened, blockedIPs, unblocking, audit>>
    BY <1>6 DEF Dedup, managerVars, ghosts, Goto, Return
  <2>2. \A g \in Handler : \/ pc'[g] = pc[g] /\ cur'[g] = cur[g]
                           \/ pc'[g] \notin {"record", "audit"}
    BY <1>6 DEF IInv, TypedLocals, Dedup, ghosts, Goto, Return
  <2> QED BY <2>1, <2>2, BlockingStep DEF Blocked
<1>7. ASSUME NEW h \in Handler, PlanBlock(h) PROVE OnlyReadmitted'
  <2>1. UNCHANGED <<attached, bpf, reopened, blockedIPs, unblocking, audit>>
    BY <1>7 DEF PlanBlock, managerVars, ghosts
  <2>2. \A g \in Handler : \/ pc'[g] = pc[g] /\ cur'[g] = cur[g]
                           \/ pc'[g] \notin {"record", "audit"}
                           \/ cur'[g].ip \notin Covered(bpf)
    BY <1>7, PlanBlockShape DEF IInv, TypedLocals, Goto, Return
  <2> QED BY <2>1, <2>2, BlockingStep DEF Blocked
<1>8. ASSUME NEW h \in Handler, ApplyCarve(h) PROVE OnlyReadmitted'
  <2> DEFINE a == cur[h].ip
  <2>1. /\ attached /\ attached' = attached /\ bpf \subseteq Prefix /\ a \in Addr
        /\ UNCHANGED <<reopened, blockedIPs, unblocking, audit>>
        /\ \/ bpf' = bpf /\ Return(h, "drain")
           \/ /\ Goto(h, "record") /\ cur' = cur
              /\ \E p \in bpf : /\ Covers(p, a)
                                /\ bpf' = (bpf \ {p}) \cup ExcludeIP(p, a)
    BY <1>8, ApplyCarveShape DEF ApplyCarve
  <2>2. CASE bpf' = bpf /\ Return(h, "drain")
    <3>1. \A g \in Handler : \/ pc'[g] = pc[g] /\ cur'[g] = cur[g]
                             \/ pc'[g] = "drain"
      BY <2>2 DEF IInv, TypedLocals, Return, Goto
    <3> QED BY <2>1, <2>2, <3>1, BlockingStep DEF Blocked
  <2>3. ASSUME Goto(h, "record"), cur' = cur, NEW p \in bpf, Covers(p, a),
               bpf' = (bpf \ {p}) \cup ExcludeIP(p, a)
        PROVE  OnlyReadmitted'
    <3>1. Disjoint(bpf \ reopened) /\ reopened \subseteq Addr
      BY <2>1 DEF OnlyReadmitted, IInv, TypedShared
    <3>2. Disjoint(bpf' \ reopened) /\ (a \in reopened \/ a \notin Covered(bpf'))
      BY <2>1, <2>3, <3>1, SplittingBesideReopened
    <3>3. ASSUME NEW ip \in Addr, Blocked(ip)' PROVE Blocked(ip) \/ ip = a
      BY <2>1, <2>3, <3>3 DEF Blocked, Goto, IInv, TypedLocals
    <3>4. ASSUME NEW ip \in Addr \ reopened, Blocked(ip), NEW q \in bpf'
          PROVE  ~Covers(q, ip)
      <4>1. CASE q \in bpf
        BY <2>1, <3>4, <4>1 DEF OnlyReadmitted
      <4>2. CASE q \in ExcludeIP(p, a)
        <5>1. SUFFICES ASSUME Covers(q, ip) PROVE FALSE
          OBVIOUS
        <5>2. q \in Prefix /\ Within(q, p) /\ p \in Prefix
          BY <2>1, <2>3, <4>2, PiecesLieInside
        <5>3. Within(ip, p)
          BY <5>1, <5>2, CoversIsWithin, WithinIsTransitive
        <5>4. Covers(p, ip)
          BY <5>2, <5>3, CoversIsWithin
        <5> QED BY <2>1, <3>4, <5>4 DEF OnlyReadmitted
      <4> QED BY <2>3, <4>1, <4>2
    <3>5. ASSUME NEW ip \in Addr \ reopened, Blocked(ip)', NEW q \in bpf'
          PROVE  ~Covers(q, ip)
      BY <2>1, <3>2, <3>3, <3>4, <3>5 DEF Covered
    <3> QED BY <2>1, <3>2, <3>5 DEF OnlyReadmitted
  <2> QED BY <2>1, <2>2, <2>3
<1>9. ASSUME NEW h \in Handler, Record(h) PROVE OnlyReadmitted'
  <2>1. /\ UNCHANGED <<attached, bpf, reopened, unblocking, audit>>
        /\ blockedIPs' = blockedIPs \cup {cur[h].ip} /\ pc[h] = "record"
    BY <1>9 DEF Record, managerVars, ghosts
  <2>2. \A g \in Handler : cur'[g] = cur[g] /\ (pc'[g] = pc[g] \/ g = h)
    BY <1>9 DEF IInv, TypedLocals, Record, Goto
  <2> QED BY <2>1, <2>2, BlockingStep DEF Blocked
<1>10. ASSUME NEW h \in Handler, Audit(h) PROVE OnlyReadmitted'
  <2>1. /\ UNCHANGED <<attached, bpf, reopened, unblocking, blockedIPs>>
        /\ \A e \in audit' : e \in audit \/ e[1] = cur[h].ip
        /\ pc[h] = "audit"
    BY <1>10 DEF Audit, managerVars, ghosts
  <2>2. \A g \in Handler : \/ pc'[g] = pc[g] /\ cur'[g] = cur[g]
                           \/ pc'[g] = "drain"
    BY <1>10 DEF IInv, TypedLocals, Audit, Return, Goto
  <2> QED BY <2>1, <2>2, BlockingStep DEF Blocked
<1>11. ASSUME NEW h \in Handler, NEW a \in Alerts, Send(h, a) PROVE OnlyReadmitted'
  <2>1. UNCHANGED <<attached, bpf, reopened, blockedIPs, unblocking, audit>>
    BY <1>11 DEF Send, managerVars, trhVars
  <2>2. \A g \in Handler : \/ pc'[g] = pc[g] /\ cur'[g] = cur[g]
                           \/ pc'[g] \notin {"record", "audit"}
    BY <1>11 DEF IInv, TypedLocals, Send, trhVars
  <2> QED BY <2>1, <2>2, BlockingStep DEF Blocked
<1>12. ASSUME NEW ip \in Unblockable, Unblock(ip) PROVE OnlyReadmitted'
  <2>1. /\ UNCHANGED <<attached, bpf, reopened, audit, pc, cur>>
        /\ blockedIPs' \subseteq blockedIPs
    BY <1>12 DEF Unblock, managerVars
  <2> QED BY <2>1, BlockingStep DEF Blocked
<1>13. ASSUME Readmit PROVE OnlyReadmitted'
  <2>1. /\ attached /\ attached' = attached /\ unblocking \in Addr
        /\ bpf \subseteq bpf' /\ bpf' \subseteq bpf \cup {unblocking} /\ bpf \subseteq Prefix
        /\ UNCHANGED <<blockedIPs, audit, pc, cur>>
        /\ reopened' = reopened \cup {unblocking} /\ unblocking' = NoIP
    BY <1>13, ReadmitShape DEF Readmit, trhVars, IInv, Attached
  <2>2. Disjoint(bpf \ reopened) /\ bpf' \ reopened' \subseteq bpf \ reopened
    BY <2>1 DEF OnlyReadmitted
  <2>3. Disjoint(bpf' \ reopened')
    BY <2>2 DEF Disjoint
  <2>4. ASSUME NEW ip \in Addr \ reopened', Blocked(ip)', NEW q \in bpf'
        PROVE  ~Covers(q, ip)
    <3>1. ip \in Addr \ reopened /\ ip # unblocking /\ Blocked(ip)
      BY <2>1, <2>4 DEF Blocked
    <3>2. CASE q \in bpf
      BY <2>1, <3>1, <3>2 DEF OnlyReadmitted
    <3>3. CASE q = unblocking
      BY <2>1, <3>1, <3>3, AddrCoversItself
    <3> QED BY <2>1, <3>2, <3>3
  <2> QED BY <2>3, <2>4 DEF OnlyReadmitted
<1>14. ASSUME Sigterm PROVE OnlyReadmitted'
  <2>1. UNCHANGED <<attached, bpf, reopened, blockedIPs, unblocking, audit>>
    BY <1>14 DEF Sigterm, managerVars, ghosts, trhVars
  <2>2. \A g \in Handler : \/ pc'[g] = pc[g] /\ cur'[g] = cur[g]
                           \/ pc'[g] \notin {"record", "audit"}
    BY <1>14 DEF IInv, TypedLocals, Sigterm, ghosts, trhVars
  <2> QED BY <2>1, <2>2, BlockingStep DEF Blocked
<1>15. ASSUME AcceptLoopExits PROVE OnlyReadmitted'
  <2>1. UNCHANGED <<attached, bpf, reopened, blockedIPs, unblocking, audit>>
    BY <1>15 DEF AcceptLoopExits, managerVars, ghosts, trhVars
  <2>2. \A g \in Handler : \/ pc'[g] = pc[g] /\ cur'[g] = cur[g]
                           \/ pc'[g] \notin {"record", "audit"}
    BY <1>15 DEF IInv, TypedLocals, AcceptLoopExits, ghosts, trhVars
  <2> QED BY <2>1, <2>2, BlockingStep DEF Blocked
<1>16. ASSUME Exit PROVE OnlyReadmitted'
  BY <1>16 DEF Exit, Detach, OnlyReadmitted
<1>17. ASSUME UNCHANGED vars PROVE OnlyReadmitted'
  BY <1>17 DEF OnlyReadmitted, Blocked, vars, managerVars, trhVars, ghosts
<1> QED
  BY <1>1, <1>2, <1>3, <1>4, <1>5, <1>6, <1>7, <1>8, <1>9, <1>10, <1>11, <1>12, <1>13,
        <1>14, <1>15, <1>16, <1>17 DEF Next, Handle

(* Whoever is on the block list or, says the audit log, in absolute        *)
(* silence, is dropped by the kernel until that very address is            *)
(* re-admitted, if the granted allowlists do not nest (blockIP,            *)
(* UnblockIP).                                                             *)
THEOREM BlocksLast ==
    ASSUME \A s \in Seeds : Disjoint(DOMAIN s)
    PROVE  Spec => []BlockedIsDenied
<1>1. Init => OnlyReadmitted
  BY WidthAssumption DEF Init, OnlyReadmitted, Blocked, Disjoint
<1>2. OnlyReadmitted => BlockedIsDenied
  BY DEF OnlyReadmitted, BlockedIsDenied, Blocked, KernelAdmits, Covered
<1> QED BY Invariance, <1>1, <1>2, OnlyReadmittedStep, PTL DEF Spec

-----------------------------------------------------------------------------
(* The threat handler implements Silence.                                  *)

(* A step that neither the trie nor the block list nor an operator sees.   *)
LEMMA SilentStep ==
    ASSUME UNCHANGED <<attached, bpf, accused, blockedIPs, unblocking, reopened>>
    PROVE  [Promise!Next]_(Promise!silenceVars)
BY DEF Promise!silenceVars, KernelAdmits

(* A frame that is written accuses its address, if it has one.             *)
LEMMA SendAccuses ==
    ASSUME NEW h \in Handler, NEW a \in Alerts, Send(h, a)
    PROVE  [Promise!Next]_(Promise!silenceVars)
<1>1. /\ UNCHANGED <<attached, bpf, blockedIPs, unblocking, reopened>>
      /\ accused' = accused \/ accused' = accused \cup {a.ip}
  BY DEF Send, managerVars, trhVars
<1>2. KernelAdmits' = KernelAdmits
  BY <1>1 DEF KernelAdmits
<1>3. CASE accused' \cap Addr = accused \cap Addr
  BY <1>1, <1>2, <1>3 DEF Promise!silenceVars
<1>4. CASE a.ip \in Addr /\ accused' = accused \cup {a.ip}
  <2>1. accused' \cap Addr = (accused \cap Addr) \cup {a.ip}
    BY <1>4
  <2> QED BY <1>1, <1>2, <1>4, <2>1 DEF Promise!Next, Promise!Accuse
<1> QED BY <1>1, <1>3, <1>4

(* A carve takes one accused address out of those let in, or nobody: it is *)
(* refused, or the address is one an operator added beside what covers it. *)
LEMMA CarveDeniesOne ==
    ASSUME IInv, NEW h \in Handler, ApplyCarve(h)
    PROVE  [Promise!Next]_(Promise!silenceVars)
<1> DEFINE a == cur[h].ip
<1>1. /\ attached /\ attached' = attached /\ bpf \subseteq Prefix
      /\ a \in Addr /\ a \in accused
      /\ UNCHANGED <<accused, blockedIPs, unblocking, reopened>>
      /\ \/ bpf' = bpf
         \/ \E p \in bpf : Covers(p, a) /\ bpf' = (bpf \ {p}) \cup ExcludeIP(p, a)
  BY ApplyCarveShape DEF ApplyCarve
<1> HIDE DEF a
<1>2. CASE bpf' = bpf
  BY <1>1, <1>2, SilentStep
<1>3. ASSUME NEW p \in bpf, Covers(p, a), bpf' = (bpf \ {p}) \cup ExcludeIP(p, a)
      PROVE  [Promise!Next]_(Promise!silenceVars)
  <2>1. /\ Covered(bpf') \subseteq Covered(bpf)
        /\ Covered(bpf) \ Covered(bpf') \subseteq {a}
    BY <1>1, <1>3, SplittingIsSurgical
  <2>2. a \in Covered(bpf)
    BY <1>1, <1>3 DEF Covered
  <2>3. KernelAdmits = Covered(bpf) /\ KernelAdmits' = Covered(bpf')
    BY <1>1 DEF KernelAdmits
  <2>4. CASE Covered(bpf') = Covered(bpf)
    BY <1>1, <2>3, <2>4 DEF Promise!silenceVars
  <2>5. CASE Covered(bpf') = Covered(bpf) \ {a}
    BY <1>1, <2>2, <2>3, <2>5 DEF Promise!Next, Promise!Deny
  <2> QED BY <2>1, <2>4, <2>5
<1> QED BY <1>1, <1>2, <1>3

(* Nobody is put on the block list who is let in, unless an operator did.  *)
LEMMA RecordBlocks ==
    ASSUME IInv, OnlyReadmitted, NEW h \in Handler, Record(h)
    PROVE  [Promise!Next]_(Promise!silenceVars)
<1> DEFINE a == cur[h].ip
<1>1. /\ pc[h] = "record" /\ blockedIPs' = blockedIPs \cup {a}
      /\ UNCHANGED <<attached, bpf, accused, unblocking, reopened>>
  BY DEF Record, managerVars, ghosts
<1>2. attached
  BY <1>1 DEF IInv, Attached
<1>3. a \in Addr /\ Actionable(cur[h])
  BY <1>1 DEF IInv, WorkIsActionable
<1>4. a \in accused
  <2>1. cur[h] # NoAlert
    BY <1>3 DEF Actionable, NoAlert
  <2> QED BY <1>3, <2>1 DEF IInv, AlertsAccuse, Named
<1>5. Blocked(a)
  BY <1>1 DEF Blocked
<1> HIDE DEF a
<1>6. a \notin KernelAdmits \ reopened
  BY <1>2, <1>3, <1>5 DEF OnlyReadmitted, KernelAdmits, Covered
<1>7. KernelAdmits' = KernelAdmits
  BY <1>1 DEF KernelAdmits
<1> QED BY <1>1, <1>2, <1>3, <1>4, <1>6, <1>7 DEF Promise!Next, Promise!Block

(* An operator takes an address off the list.                              *)
LEMMA UnblockForgets ==
    ASSUME IInv, NEW ip \in Unblockable, Unblock(ip)
    PROVE  [Promise!Next]_(Promise!silenceVars)
<1>1. /\ daemon = "running" /\ unblocking = NoIP /\ unblocking' = ip
      /\ ip \in Addr /\ blockedIPs' = blockedIPs \ {ip}
      /\ UNCHANGED <<attached, bpf, accused, reopened>>
  BY ThreatAssumption DEF Unblock, managerVars
<1>2. attached
  BY <1>1 DEF IInv, Attached
<1>3. {unblocking} \cap Addr = {} /\ {unblocking'} \cap Addr = {ip}
  BY <1>1, NoIPIsNoAddr
<1>4. KernelAdmits' = KernelAdmits
  BY <1>1 DEF KernelAdmits
<1> QED BY <1>1, <1>2, <1>3, <1>4 DEF Promise!Next, Promise!Forget

(* It is that address which is let in again, or none.                      *)
LEMMA ReadmitReopens ==
    ASSUME IInv, Readmit
    PROVE  [Promise!Next]_(Promise!silenceVars)
<1>1. /\ attached /\ attached' = attached /\ unblocking \in Addr /\ unblocking' = NoIP
      /\ bpf \subseteq bpf' /\ bpf' \subseteq bpf \cup {unblocking}
      /\ reopened' = reopened \cup {unblocking}
      /\ UNCHANGED <<accused, blockedIPs>>
  BY ReadmitShape DEF Readmit, trhVars
<1>2. {unblocking} \cap Addr = {unblocking} /\ {unblocking'} \cap Addr = {}
  BY <1>1, NoIPIsNoAddr
<1>3. KernelAdmits = Covered(bpf) /\ KernelAdmits' = Covered(bpf')
  BY <1>1 DEF KernelAdmits
<1>4. \A a \in Addr : Covers(unblocking, a) <=> a = unblocking
  BY <1>1, AddrCoversItself DEF Covers
<1>5. bpf' \in {bpf, bpf \cup {unblocking}}
  BY <1>1
<1>6. Covered(bpf \cup {unblocking}) = Covered(bpf) \cup {unblocking}
  BY <1>1, <1>4 DEF Covered
<1>7. Covered(bpf') \in {Covered(bpf), Covered(bpf) \cup {unblocking}}
  BY <1>5, <1>6
<1> QED BY <1>1, <1>2, <1>3, <1>7 DEF Promise!Next, Promise!Readmit

(* The shutdown of the daemon takes the program away.                      *)
LEMMA ExitQuits ==
    ASSUME IInv, Exit
    PROVE  [Promise!Next]_(Promise!silenceVars)
<1>1. /\ daemon = "stopping" /\ attached' = FALSE
      /\ UNCHANGED <<accused, blockedIPs, unblocking, reopened>>
  BY DEF Exit, Detach, trhVars, ghosts
<1>2. attached = TRUE
  BY <1>1 DEF IInv, Attached
<1>3. KernelAdmits' = Addr
  BY <1>1 DEF KernelAdmits
<1> QED BY <1>1, <1>2, <1>3 DEF Promise!Next, Promise!Quit

LEMMA SilenceStep ==
    ASSUME IInv, OnlyReadmitted, [Next]_vars
    PROVE  [Promise!Next]_(Promise!silenceVars)
<1>1. ASSUME NEW h \in Handler,
             \/ Connect(h) \/ Hangup(h) \/ Dispatch(h) \/ Drained(h)
             \/ Read(h) \/ Dedup(h) \/ PlanBlock(h) \/ Audit(h)
      PROVE  [Promise!Next]_(Promise!silenceVars)
  <2>1. CASE Connect(h) \/ Hangup(h)
    BY <2>1, SilentStep DEF Connect, Hangup, managerVars, trhVars, ghosts
  <2>2. CASE Dispatch(h) \/ Drained(h)
    BY <2>2, SilentStep DEF Dispatch, Drained, managerVars, ghosts
  <2>3. CASE Read(h) \/ Dedup(h)
    BY <2>3, SilentStep DEF Read, Dedup, managerVars, ghosts
  <2>4. CASE PlanBlock(h) \/ Audit(h)
    BY <2>4, SilentStep DEF PlanBlock, Audit, managerVars, ghosts
  <2> QED BY <1>1, <2>1, <2>2, <2>3, <2>4
<1>2. CASE Sigterm \/ AcceptLoopExits
  BY <1>2, SilentStep DEF Sigterm, AcceptLoopExits, managerVars, trhVars, ghosts
<1>3. CASE UNCHANGED vars
  BY <1>3, SilentStep DEF vars, managerVars, trhVars, ghosts
<1> QED
  BY <1>1, <1>2, <1>3, SendAccuses, CarveDeniesOne, RecordBlocks, UnblockForgets,
     ReadmitReopens, ExitQuits DEF Next, Handle

(* If the granted allowlists do not nest, everything the daemon does to    *)
(* the trie and the block list, however its handlers interleave, is what   *)
(* Silence allows: one accused address taken out at a time, nobody put on  *)
(* the list who is still let in, nobody let in again but by an operator.   *)
THEOREM SilenceKept ==
    ASSUME \A s \in Seeds : Disjoint(DOMAIN s)
    PROVE  Spec => ImplementsSilence
<1>1. Init => Promise!Init
  BY NoIPIsNoAddr DEF Init, Promise!Init, KernelAdmits, Covered
<1>2. Init => OnlyReadmitted
  BY WidthAssumption DEF Init, OnlyReadmitted, Blocked, Disjoint
<1>3. IInv /\ OnlyReadmitted /\ [Next]_vars => [Promise!Next]_(Promise!silenceVars)
  BY SilenceStep
<1> QED
  BY Invariance, OnlyReadmittedStep, <1>1, <1>2, <1>3, PTL
     DEF Spec, ImplementsSilence, Promise!Spec
===============================================================================
