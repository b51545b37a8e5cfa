--------------------------- MODULE DepartmentsProofs ---------------------------
(***************************************************************************)
(* What holds of the departments for any number of departments, commands   *)
(* and processes.                                                          *)
(*                                                                         *)
(*   LinkInv      the name of the host's link is a lock: an init in a      *)
(*                cgroup holds its department's link, and a command about  *)
(*                to join its init to a cgroup has the link already.       *)
(*   CommandsInv  what each command's memory holds at each of its steps.   *)
(*   KernelInv    the kernel's own book-keeping: who has an address, a     *)
(*                link or a dropping namespace, and that it dies with it.  *)
(*   FrozenInv    who may thaw what is frozen.                             *)
(*   AloneInv     a command that runs alone knows the database.            *)
(*   KnownInv     every container is in its row or in a running spawn.     *)
(*   JoinedInv, SilencedInv  a quarantined init is one that the command    *)
(*                found by its row, in the cgroup that it froze.           *)
(*   TreesInv     every child in a command's tree is one tier lower.       *)
(*   LinesInv, RestoredInv   what a command knows of the hierarchy was on  *)
(*                command lines, and recovery rebuilds it row by row.      *)
(***************************************************************************)
EXTENDS Departments, FiniteSetTheorems, WellFoundedInduction, TLAPS

Starting == {"veth", "join", "save"}

\* The types the argument needs.
Types ==
    /\ env \in Environments
    /\ owner \in [Pid -> Dept \cup {Host, Free}]
    /\ joined \subseteq Pid
    /\ link \in [Dept -> {NoLink, Stray} \cup Pid]
    /\ pc \in [Command -> Labels]
    /\ args \in [Command -> Args \cup {NoArgs}]
    /\ pid \in [Command -> Pid \cup {NoPid}]

\* What a command has at each point: a command line while it runs, an init once it has
\* started one, and nothing when it is over.
CommandState ==
    \A c \in Command :
        /\ pc[c] # "off" => D(c) \in Dept
        /\ pc[c] \in Starting => pid[c] \in Pid
        /\ pc[c] = "off" => pid[c] = NoPid

\* Commands do not run side by side unless the environment lets them.
OneAtATime ==
    ~env.overlap => \A b, c \in Command : pc[b] # "off" /\ pc[c] # "off" => b = c

OwnPids == \A b, c \in Command : pid[b] = pid[c] /\ pid[b] # NoPid => b = c

JoinedHoldLink == \A p \in joined : owner[p] \in Dept /\ link[owner[p]] = p

JoiningHoldLink ==
    \A c \in Command : pc[c] = "join" /\ owner[pid[c]] = D(c) => link[D(c)] = pid[c]

LinkInv == Types /\ CommandState /\ OneAtATime /\ OwnPids /\ JoinedHoldLink /\ JoiningHoldLink

-----------------------------------------------------------------------------

\* The invariant holds at the start (Init).
LEMMA LinkInvInit == Init => LinkInv
  BY DepartmentsAssumption
     DEF Init, LinkInv, Types, CommandState, OneAtATime, OwnPids, JoinedHoldLink,
         JoiningHoldLink, Starting, Labels

\* The invariant implies the property: the members of a cgroup all hold its link
\* (SpawnDepartment).
LEMMA LinkInvSuffices == LinkInv => OneContainerPerCgroup
<1>1. SUFFICES ASSUME LinkInv, NEW d \in Dept PROVE Cardinality(Members(d)) <= 1
  BY DEF OneContainerPerCgroup
<1>2. \A p \in Members(d) : p = link[d]
  BY <1>1 DEF LinkInv, JoinedHoldLink, Members
<1>3. CASE Members(d) = {}
  BY <1>3, FS_EmptySet
<1>4. CASE Members(d) # {}
  <2>1. Members(d) = {link[d]}
    BY <1>2, <1>4
  <2>2. Cardinality({link[d]}) = 1
    BY FS_Singleton
  <2>3. QED
    BY <2>1, <2>2
<1>5. QED
  BY <1>3, <1>4

\* A command that goes on to a step outside the start of a container, and touches neither
\* processes nor links, keeps the invariant (recovery, IPAM, quarantine, snapshot).
LEMMA GotoKeepsLinkInv ==
  ASSUME LinkInv, NEW c \in Command, NEW l \in Labels \ (Starting \cup {"off"}),
         pc[c] # "off", Goto(c, l), UNCHANGED <<env, owner, joined, link, args, pid>>
  PROVE  LinkInv'
<1>1. Types'
  BY DEF LinkInv, Types, Goto
<1>2. \A b \in Command : pc'[b] = IF b = c THEN l ELSE pc[b]
  BY DEF LinkInv, Types, Goto
<1>3. CommandState'
  BY <1>2 DEF LinkInv, CommandState, D, Starting
<1>4. OneAtATime'
  BY <1>2 DEF LinkInv, OneAtATime
<1>5. OwnPids' /\ JoinedHoldLink'
  BY DEF LinkInv, OwnPids, JoinedHoldLink
<1>6. JoiningHoldLink'
  BY <1>2 DEF LinkInv, JoiningHoldLink, D, Starting
<1>7. QED
  BY <1>1, <1>3, <1>4, <1>5, <1>6 DEF LinkInv

\* A command that ends, in whatever way, keeps the invariant (Exit).
LEMMA ExitKeepsLinkInv ==
  ASSUME LinkInv, NEW c \in Command, Exit(c), UNCHANGED <<env, owner, joined, link>>
  PROVE  LinkInv'
<1>1. Types'
  BY DEF LinkInv, Types, Exit, Goto, Labels
<1>2. /\ \A b \in Command : pc'[b] = IF b = c THEN "off" ELSE pc[b]
      /\ \A b \in Command : pid'[b] = IF b = c THEN NoPid ELSE pid[b]
      /\ \A b \in Command : b # c => args'[b] = args[b]
  BY DEF LinkInv, Types, Exit, Goto
<1>3. CommandState'
  BY <1>2 DEF LinkInv, CommandState, D, Starting
<1>4. OneAtATime'
  BY <1>2 DEF LinkInv, OneAtATime
<1>5. OwnPids'
  BY <1>2 DEF LinkInv, OwnPids
<1>6. JoinedHoldLink'
  BY DEF LinkInv, JoinedHoldLink
<1>7. JoiningHoldLink'
  BY <1>2 DEF LinkInv, JoiningHoldLink, D
<1>8. QED
  BY <1>1, <1>3, <1>4, <1>5, <1>6, <1>7 DEF LinkInv

\* A failed spawn gives back the link only if its own init held it, and no other init or
\* command relied on it (destroyFailedSpawn).
LEMMA DestroyKeepsLinkInv ==
  ASSUME LinkInv, NEW c \in Command, pc[c] # "off", NEW l,
         l = link[D(c)] \/ (l = Stray /\ link[D(c)] = NoLink), Destroy(c, l)
  PROVE  LinkInv'
<1> DEFINE d == D(c)
           p == pid[c]
<1>1. d \in Dept /\ p \in Pid \cup {NoPid} /\ Dept \subseteq Nat
      /\ Pid \cap {NoPid, NoLink, Stray} = {}
  BY DepartmentsAssumption DEF LinkInv, Types, CommandState
<1>2. /\ link' = [link EXCEPT ![d] = IF l = p THEN NoLink ELSE l]
      /\ Exit(c) /\ env' = env
      /\ \/ /\ p # NoPid /\ owner[p] = d
            /\ owner' = [owner EXCEPT ![p] = Free] /\ joined' = joined \ {p}
         \/ ~(p # NoPid /\ owner[p] = d) /\ owner' = owner /\ joined' = joined
  BY DEF Destroy, Vanish
<1>3. /\ \A b \in Command : pc'[b] = IF b = c THEN "off" ELSE pc[b]
      /\ \A b \in Command : pid'[b] = IF b = c THEN NoPid ELSE pid[b]
      /\ \A b \in Command : b # c => args'[b] = args[b]
  BY <1>2 DEF LinkInv, Types, Exit, Goto
<1>4. l \in {NoLink, Stray} \cup Pid
  BY <1>1 DEF LinkInv, Types
<1>5. Types'
  BY <1>1, <1>2, <1>4 DEF LinkInv, Types, Exit, Goto, Labels
<1>6. CommandState'
  BY <1>3 DEF LinkInv, CommandState, D, Starting
<1>7. OneAtATime'
  BY <1>2, <1>3 DEF LinkInv, OneAtATime
<1>8. OwnPids'
  BY <1>3 DEF LinkInv, OwnPids
<1>9. JoinedHoldLink'
  <2>1. SUFFICES ASSUME NEW q \in joined' PROVE owner'[q] \in Dept /\ link'[owner'[q]] = q
    BY DEF JoinedHoldLink
  <2>2. q \in joined /\ q \in Pid /\ owner[q] \in Dept /\ link[owner[q]] = q
    BY <1>2, <2>1 DEF LinkInv, JoinedHoldLink, Types
  <2>3. owner'[q] = owner[q] /\ (owner[q] = d => q # p)
    BY <1>1, <1>2, <2>1, <2>2 DEF LinkInv, Types
  <2>4. CASE owner[q] = d
    BY <1>1, <1>2, <2>2, <2>3, <2>4 DEF LinkInv, Types
  <2>5. CASE owner[q] # d
    BY <1>2, <2>2, <2>3, <2>5 DEF LinkInv, Types
  <2>6. QED
    BY <2>4, <2>5
<1>10. JoiningHoldLink'
  <2>1. SUFFICES ASSUME NEW b \in Command, pc'[b] = "join", owner'[pid'[b]] = D(b)'
                 PROVE  link'[D(b)'] = pid'[b]
    BY DEF JoiningHoldLink
  <2>2. b # c /\ pc[b] = "join" /\ pid'[b] = pid[b] /\ D(b)' = D(b)
    BY <1>3, <2>1 DEF D
  <2>3. pid[b] \in Pid /\ D(b) \in Dept /\ pid[b] # p
    BY <1>1, <2>2 DEF LinkInv, CommandState, OwnPids, Starting
  <2>4. owner[pid[b]] = D(b)
    BY <1>1, <1>2, <2>1, <2>2, <2>3 DEF LinkInv, Types
  <2>5. link[D(b)] = pid[b]
    BY <2>2, <2>4 DEF LinkInv, JoiningHoldLink
  <2>6. QED
    BY <1>1, <1>2, <2>2, <2>3, <2>5 DEF LinkInv, Types
<1>11. QED
  BY <1>5, <1>6, <1>7, <1>8, <1>9, <1>10 DEF LinkInv

\* Every step of a command keeps the invariant (Step), if process numbers are not used
\* again while commands run side by side.
LEMMA StepKeepsLinkInv ==
  ASSUME LinkInv, NEW c \in Command, Step(c), env.reuse => ~env.overlap
  PROVE  LinkInv'
<1>1. CASE Start(c)
  <2>1. PICK a \in env.commands : args' = [args EXCEPT ![c] = a]
    BY <1>1 DEF Start
  <2>2. a \in Args /\ a.dept \in Dept
    BY <2>1, DepartmentsAssumption DEF LinkInv, Types, Args
  <2>3. /\ pc[c] = "off" /\ (env.overlap \/ Idle)
        /\ \A b \in Command : pc'[b] = IF b = c THEN "list" ELSE pc[b]
        /\ \A b \in Command : args'[b] = IF b = c THEN a ELSE args[b]
        /\ UNCHANGED <<env, owner, joined, link, pid>>
    BY <1>1, <2>1 DEF Start, Goto, LinkInv, Types, kernel
  <2>4. Types'
    BY <1>1, <2>1, <2>2, <2>3 DEF Start, Goto, LinkInv, Types, Labels
  <2>5. CommandState'
    BY <2>2, <2>3 DEF LinkInv, CommandState, D, Starting
  <2>6. OneAtATime'
    BY <2>3 DEF LinkInv, OneAtATime, Idle
  <2>7. OwnPids' /\ JoinedHoldLink'
    BY <2>3 DEF LinkInv, OwnPids, JoinedHoldLink
  <2>8. JoiningHoldLink'
    BY <2>3 DEF LinkInv, JoiningHoldLink, D
  <2>9. QED
    BY <2>4, <2>5, <2>6, <2>7, <2>8 DEF LinkInv
<1>2. CASE List(c)
  BY <1>2, GotoKeepsLinkInv DEF List, kernel, Labels, Starting
<1>3. CASE Recover(c)
  BY <1>3 DEF Recover, kernel, LinkInv, Types, CommandState, OneAtATime, OwnPids,
              JoinedHoldLink, JoiningHoldLink, D
<1>4. CASE LoadIPAM(c)
  <2>1. args[c].op \in Operation
    BY DEF LinkInv, Types, Args, NoArgs, Operation
  <2>2. args[c].op \in Labels \ (Starting \cup {"off"})
    BY <2>1 DEF Operation, Labels, Starting
  <2>3. QED
    BY <1>4, <2>2, GotoKeepsLinkInv DEF LoadIPAM, kernel
<1>5. CASE Status(c)
  BY <1>5, ExitKeepsLinkInv DEF Status, kernel
<1>6. CASE SpawnBegin(c)
  BY <1>6, GotoKeepsLinkInv, ExitKeepsLinkInv DEF SpawnBegin, Labels, Starting
<1>7. CASE SpawnStart(c)
  <2>1. CASE Destroy(c, link[D(c)])
    BY <1>7, <2>1, DestroyKeepsLinkInv DEF SpawnStart
  <2>2. CASE Exit(c) /\ UNCHANGED kernel /\ UNCHANGED env
    BY <2>2, ExitKeepsLinkInv DEF kernel
  <2>3. ASSUME NEW p \in NewPids, owner' = [owner EXCEPT ![p] = D(c)],
               pid' = [pid EXCEPT ![c] = p], Goto(c, "veth"), pc[c] = "start",
               UNCHANGED <<env, args, joined, link>>
        PROVE  LinkInv'
    <3>1. p \in Pid /\ owner[p] = Free /\ p # NoPid /\ D(c) \in Dept /\ Free \notin Dept
      BY <2>3, DepartmentsAssumption
         DEF NewPids, Alive, LinkInv, CommandState, Free
    <3>2. /\ \A b \in Command : pc'[b] = IF b = c THEN "veth" ELSE pc[b]
          /\ \A b \in Command : pid'[b] = IF b = c THEN p ELSE pid[b]
          /\ \A q \in Pid : owner'[q] = IF q = p THEN D(c) ELSE owner[q]
      BY <2>3 DEF Goto, LinkInv, Types
    <3>3. ASSUME NEW b \in Command, b # c PROVE pid[b] # p
      <4>1. CASE env.reuse
        <5>1. pc[b] = "off"
          BY <2>3, <3>3, <4>1 DEF LinkInv, OneAtATime
        <5>2. QED
          BY <3>1, <5>1 DEF LinkInv, CommandState
      <4>2. CASE ~env.reuse
        BY <2>3, <4>2 DEF NewPids, Remembered
      <4>3. QED
        BY <4>1, <4>2
    <3>4. Types'
      BY <2>3, <3>1 DEF Goto, LinkInv, Types, Labels
    <3>5. CommandState'
      BY <2>3, <3>1, <3>2 DEF LinkInv, CommandState, D, Starting
    <3>6. OneAtATime'
      BY <2>3, <3>2 DEF LinkInv, OneAtATime
    <3>7. OwnPids'
      BY <3>2, <3>3 DEF LinkInv, OwnPids
    <3>8. JoinedHoldLink'
      BY <2>3, <3>1, <3>2 DEF LinkInv, JoinedHoldLink, Types
    <3>9. JoiningHoldLink'
      <4>1. SUFFICES ASSUME NEW b \in Command, pc'[b] = "join", owner'[pid'[b]] = D(b)'
                     PROVE  link'[D(b)'] = pid'[b]
        BY DEF JoiningHoldLink
      <4>2. b # c /\ pc[b] = "join" /\ pid'[b] = pid[b] /\ D(b)' = D(b)
        BY <2>3, <3>2, <4>1 DEF D
      <4>3. pid[b] \in Pid /\ owner[pid[b]] = D(b)
        BY <3>2, <3>3, <4>1, <4>2 DEF LinkInv, CommandState, Starting
      <4>4. QED
        BY <2>3, <4>2, <4>3 DEF LinkInv, JoiningHoldLink
    <3>10. QED
      BY <3>4, <3>5, <3>6, <3>7, <3>8, <3>9 DEF LinkInv
  <2>4. QED
    BY <1>7, <2>1, <2>2, <2>3 DEF SpawnStart
<1>8. CASE SpawnVeth(c)
  <2>1. CASE Destroy(c, link[D(c)])
    BY <1>8, <2>1, DestroyKeepsLinkInv DEF SpawnVeth
  <2>2. CASE Destroy(c, Stray) /\ LinkIsFree(D(c))
    BY <1>8, <2>2, DestroyKeepsLinkInv DEF SpawnVeth, LinkIsFree
  <2>3. CASE /\ pc[c] = "veth" /\ LinkIsFree(D(c)) /\ owner[pid[c]] = D(c)
             /\ link' = [link EXCEPT ![D(c)] = pid[c]] /\ Goto(c, "join")
             /\ UNCHANGED <<env, args, pid, owner, joined>>
    <3>1. /\ D(c) \in Dept /\ pid[c] \in Pid /\ link[D(c)] = NoLink /\ NoLink \notin Pid
      BY <2>3, DepartmentsAssumption DEF LinkInv, CommandState, Starting, LinkIsFree
    <3>2. /\ \A b \in Command : pc'[b] = IF b = c THEN "join" ELSE pc[b]
          /\ \A d \in Dept : link'[d] = IF d = D(c) THEN pid[c] ELSE link[d]
      BY <2>3 DEF Goto, LinkInv, Types
    <3>3. Types'
      BY <2>3, <3>1 DEF Goto, LinkInv, Types, Labels
    <3>4. CommandState'
      BY <2>3, <3>1, <3>2 DEF LinkInv, CommandState, D, Starting
    <3>5. OneAtATime' /\ OwnPids'
      BY <2>3, <3>2 DEF LinkInv, OneAtATime, OwnPids
    <3>6. JoinedHoldLink'
      BY <2>3, <3>1, <3>2 DEF LinkInv, JoinedHoldLink, Types
    <3>7. JoiningHoldLink'
      <4>1. SUFFICES ASSUME NEW b \in Command, b # c, pc[b] = "join", owner[pid[b]] = D(b)
                     PROVE  link'[D(b)] = pid[b]
        BY <2>3, <3>1, <3>2 DEF JoiningHoldLink, D
      <4>2. link[D(b)] = pid[b] /\ pid[b] \in Pid /\ D(b) \in Dept
        BY <4>1 DEF LinkInv, JoiningHoldLink, CommandState, Starting
      <4>3. QED
        BY <3>1, <3>2, <4>2
    <3>8. QED
      BY <3>3, <3>4, <3>5, <3>6, <3>7 DEF LinkInv
  <2>4. QED
    BY <1>8, <2>1, <2>2, <2>3 DEF SpawnVeth
<1>9. CASE SpawnJoin(c)
  <2>1. CASE Destroy(c, link[D(c)])
    BY <1>9, <2>1, DestroyKeepsLinkInv DEF SpawnJoin
  <2>2. CASE /\ pc[c] = "join" /\ owner[pid[c]] = D(c)
             /\ joined' = joined \cup {pid[c]} /\ Goto(c, "save")
             /\ UNCHANGED <<env, args, pid, owner, link>>
    <3>1. D(c) \in Dept /\ pid[c] \in Pid /\ link[D(c)] = pid[c]
      BY <2>2 DEF LinkInv, CommandState, Starting, JoiningHoldLink
    <3>2. \A b \in Command : pc'[b] = IF b = c THEN "save" ELSE pc[b]
      BY <2>2 DEF Goto, LinkInv, Types
    <3>3. Types'
      BY <2>2, <3>1 DEF Goto, LinkInv, Types, Labels
    <3>4. CommandState'
      BY <2>2, <3>1, <3>2 DEF LinkInv, CommandState, D, Starting
    <3>5. OneAtATime' /\ OwnPids'
      BY <2>2, <3>2 DEF LinkInv, OneAtATime, OwnPids
    <3>6. JoinedHoldLink'
      BY <2>2, <3>1 DEF LinkInv, JoinedHoldLink
    <3>7. JoiningHoldLink'
      BY <2>2, <3>2 DEF LinkInv, JoiningHoldLink, D
    <3>8. QED
      BY <3>3, <3>4, <3>5, <3>6, <3>7 DEF LinkInv
  <2>3. QED
    BY <1>9, <2>1, <2>2 DEF SpawnJoin
<1>10. CASE SpawnSave(c)
  BY <1>10, ExitKeepsLinkInv DEF SpawnSave, kernel
<1>11. CASE QuarantineFreeze(c)
  BY <1>11, GotoKeepsLinkInv, ExitKeepsLinkInv DEF QuarantineFreeze, Labels, Starting
<1>12. CASE QuarantineDrop(c)
  BY <1>12, ExitKeepsLinkInv DEF QuarantineDrop
<1>13. CASE Unquarantine(c)
  BY <1>13, ExitKeepsLinkInv DEF Unquarantine
<1>14. CASE SnapshotFreeze(c)
  BY <1>14, GotoKeepsLinkInv, ExitKeepsLinkInv DEF SnapshotFreeze, Labels, Starting
<1>15. CASE SnapshotThaw(c)
  BY <1>15, ExitKeepsLinkInv DEF SnapshotThaw
<1>16. CASE Crash(c)
  BY <1>16, ExitKeepsLinkInv DEF Crash, kernel
<1>17. QED
  BY <1>1, <1>2, <1>3, <1>4, <1>5, <1>6, <1>7, <1>8, <1>9, <1>10, <1>11, <1>12, <1>13,
     <1>14, <1>15, <1>16 DEF Step

\* The end of a container takes its own link with it and no other (ContainerDies).
LEMMA DeathKeepsLinkInv ==
  ASSUME LinkInv, NEW p \in Pid, ContainerDies(p)
  PROVE  LinkInv'
<1>1. /\ owner[p] \in Dept /\ Free \notin Dept /\ UNCHANGED <<env, pc, args, pid>>
      /\ \A q \in Pid : owner'[q] = IF q = p THEN Free ELSE owner[q]
      /\ joined' = joined \ {p}
      /\ \A d \in Dept : link'[d] = IF link[d] = p THEN NoLink ELSE link[d]
  BY DepartmentsAssumption DEF ContainerDies, Vanish, LinkInv, Types, procs, Free
<1>2. Types'
  BY <1>1 DEF ContainerDies, Vanish, LinkInv, Types
<1>3. CommandState' /\ OneAtATime' /\ OwnPids'
  BY <1>1 DEF LinkInv, CommandState, OneAtATime, OwnPids, D
<1>4. JoinedHoldLink'
  BY <1>1 DEF LinkInv, JoinedHoldLink, Types
<1>5. JoiningHoldLink'
  <2>1. SUFFICES ASSUME NEW b \in Command, pc[b] = "join", owner'[pid[b]] = D(b)
                 PROVE  link'[D(b)] = pid[b]
    BY <1>1 DEF JoiningHoldLink, D
  <2>2. pid[b] \in Pid /\ D(b) \in Dept
    BY <2>1 DEF LinkInv, CommandState, Starting
  <2>3. pid[b] # p /\ link[D(b)] = pid[b]
    BY <1>1, <2>1, <2>2 DEF LinkInv, JoiningHoldLink
  <2>4. QED
    BY <1>1, <2>2, <2>3
<1>6. QED
  BY <1>2, <1>3, <1>4, <1>5 DEF LinkInv

\* A host process can only take a number no container has (HostTakesPid).
LEMMA HostKeepsLinkInv ==
  ASSUME LinkInv, NEW p \in Pid, HostTakesPid(p)
  PROVE  LinkInv'
<1>1. /\ owner[p] = Free /\ Free \notin Dept /\ Host \notin Dept
      /\ \A q \in Pid : owner'[q] = IF q = p THEN Host ELSE owner[q]
      /\ UNCHANGED <<env, joined, link, pc, args, pid>>
  BY DepartmentsAssumption DEF HostTakesPid, Alive, LinkInv, Types, procs, Free, Host
<1>2. Types'
  BY <1>1 DEF HostTakesPid, LinkInv, Types
<1>3. CommandState' /\ OneAtATime' /\ OwnPids'
  BY <1>1 DEF LinkInv, CommandState, OneAtATime, OwnPids, D
<1>4. JoinedHoldLink'
  BY <1>1 DEF LinkInv, JoinedHoldLink, Types
<1>5. JoiningHoldLink'
  BY <1>1 DEF LinkInv, JoiningHoldLink, CommandState, Starting, D
<1>6. QED
  BY <1>2, <1>3, <1>4, <1>5 DEF LinkInv

\* Process numbers come back only where commands run one after another.
NoReuseSideBySide == \A e \in Environments : e.reuse => ~e.overlap

\* However commands interleave, fail and are killed, and containers die, no department's
\* cgroup ever holds two containers: steps 8 and 9 of SpawnDepartment are in this order.
THEOREM SpawnsExclude ==
  ASSUME NoReuseSideBySide
  PROVE  Spec => []OneContainerPerCgroup
<1>1. LinkInv /\ [Next]_vars => LinkInv'
  <2>1. SUFFICES ASSUME LinkInv, [Next]_vars PROVE LinkInv'
    OBVIOUS
  <2>2. env.reuse => ~env.overlap
    BY <2>1, NoReuseSideBySide DEF LinkInv, Types, NoReuseSideBySide
  <2>3. CASE Next
    BY <2>1, <2>2, <2>3, StepKeepsLinkInv, DeathKeepsLinkInv, HostKeepsLinkInv DEF Next
  <2>4. CASE UNCHANGED vars
    BY <2>1, <2>4 DEF vars, kernel, procs, LinkInv, Types, CommandState, OneAtATime,
                      OwnPids, JoinedHoldLink, JoiningHoldLink, D
  <2>5. QED
    BY <2>1, <2>3, <2>4
<1>2. QED
  BY <1>1, LinkInvInit, LinkInvSuffices, PTL DEF Spec

-----------------------------------------------------------------------------
(* Maps and least elements.                                                *)
\* A map with one of its keys set.
LEMMA WithShape ==
    ASSUME NEW f, NEW d, NEW e
    PROVE  /\ DOMAIN With(f, d, e) = DOMAIN f \cup {d}
           /\ With(f, d, e)[d] = e
           /\ \A x \in DOMAIN f \ {d} : With(f, d, e)[x] = f[x]
BY DEF With

\* A map without one of its keys.
LEMMA WithoutShape ==
    ASSUME NEW f, NEW d
    PROVE  /\ DOMAIN Without(f, d) = DOMAIN f \ {d}
           /\ \A x \in DOMAIN f \ {d} : Without(f, d)[x] = f[x]
BY DEF Without

\* NextRow is the least of what is left.
LEMMA MinShape ==
    ASSUME NEW S, S \subseteq Nat, S # {}
    PROVE  Min(S) \in S /\ \A y \in S : Min(S) <= y
<1> DEFINE R == {ss \in Nat \X Nat : ss[1] < ss[2]}
<1>1. IsWellFoundedOn(R, Nat)
  BY NatLessThanWellFounded DEF OpToRel
<1> HIDE DEF R
<1>2. PICK x \in S : \A y \in S : ~(<<y, x>> \in R)
  BY <1>1, WFMin
<1>3. \A y \in S : ~(y < x)
  BY <1>2 DEF R
<1>4. \A y \in S : x <= y
  BY <1>3
<1> QED BY <1>4 DEF Min

(* What each step does to the command that takes it.                       *)
M(rows, containers, tree, allocated, wasFrozen) ==
    [rows |-> rows, containers |-> containers, tree |-> tree,
     allocated |-> allocated, wasFrozen |-> wasFrozen]

HasShape(m) == m = M(m.rows, m.containers, m.tree, m.allocated, m.wasFrozen)

TypedPc ==
    /\ pc \in [Command -> Labels] /\ args \in [Command -> Args \cup {NoArgs}]
    /\ pid \in [Command -> Pid \cup {NoPid}]

Shape == mem = [c \in Command |-> mem[c]] /\ \A c \in Command : HasShape(mem[c])

FieldNames == {"rows", "containers", "tree", "allocated", "wasFrozen"}

\* Two memories with the same fields are the same.
LEMMA SameFields ==
    ASSUME NEW m, DOMAIN m = FieldNames, m = [x \in FieldNames |-> m[x]]
    PROVE  HasShape(m)
BY DEF HasShape, M, FieldNames

\* The three fields that Recover changes.
LEMMA RecoverUpdates ==
    ASSUME NEW m, HasShape(m), NEW r, NEW k, NEW t
    PROVE  [m EXCEPT !.rows = r, !.containers = k, !.tree = t]
           = M(r, k, t, m.allocated, m.wasFrozen)
<1> DEFINE n == [m EXCEPT !.rows = r, !.containers = k, !.tree = t]
<1>1. DOMAIN m = FieldNames
  BY DEF HasShape, M, FieldNames
<1>2. DOMAIN n = FieldNames /\ n = [x \in FieldNames |-> n[x]]
  BY <1>1 DEF FieldNames
<1>3. M(n.rows, n.containers, n.tree, n.allocated, n.wasFrozen)
      = M(r, k, t, m.allocated, m.wasFrozen)
  BY <1>1 DEF FieldNames
<1> HIDE DEF n
<1>4. n = M(n.rows, n.containers, n.tree, n.allocated, n.wasFrozen)
  BY <1>2, SameFields DEF HasShape
<1> QED BY <1>3, <1>4 DEF n

\* The two fields that SpawnBegin changes.
LEMMA SpawnUpdates ==
    ASSUME NEW m, HasShape(m), NEW t, NEW a
    PROVE  [m EXCEPT !.tree = t, !.allocated = a] = M(m.rows, m.containers, t, a, m.wasFrozen)
<1> DEFINE n == [m EXCEPT !.tree = t, !.allocated = a]
<1>1. DOMAIN m = FieldNames
  BY DEF HasShape, M, FieldNames
<1>2. DOMAIN n = FieldNames /\ n = [x \in FieldNames |-> n[x]]
  BY <1>1 DEF FieldNames
<1>3. M(n.rows, n.containers, n.tree, n.allocated, n.wasFrozen)
      = M(m.rows, m.containers, t, a, m.wasFrozen)
  BY <1>1 DEF FieldNames
<1> HIDE DEF n
<1>4. n = M(n.rows, n.containers, n.tree, n.allocated, n.wasFrozen)
  BY <1>2, SameFields DEF HasShape
<1> QED BY <1>3, <1>4 DEF n

\* The field that SpawnJoin and QuarantineFreeze change.
LEMMA ContainersUpdate ==
    ASSUME NEW m, HasShape(m), NEW k
    PROVE  [m EXCEPT !.containers = k] = M(m.rows, k, m.tree, m.allocated, m.wasFrozen)
<1> DEFINE n == [m EXCEPT !.containers = k]
<1>1. DOMAIN m = FieldNames
  BY DEF HasShape, M, FieldNames
<1>2. DOMAIN n = FieldNames /\ n = [x \in FieldNames |-> n[x]]
  BY <1>1 DEF FieldNames
<1>3. M(n.rows, n.containers, n.tree, n.allocated, n.wasFrozen)
      = M(m.rows, k, m.tree, m.allocated, m.wasFrozen)
  BY <1>1 DEF FieldNames
<1> HIDE DEF n
<1>4. n = M(n.rows, n.containers, n.tree, n.allocated, n.wasFrozen)
  BY <1>2, SameFields DEF HasShape
<1> QED BY <1>3, <1>4 DEF n

\* Command c is the only one that moves, to a label with an init and a memory.
Only(c, label, process, m) ==
    /\ \A b \in Command : /\ pc'[b] = IF b = c THEN label ELSE pc[b]
                          /\ pid'[b] = IF b = c THEN process ELSE pid[b]
                          /\ mem'[b] = IF b = c THEN m ELSE mem[b]
                          /\ b # c => args'[b] = args[b]
    /\ pc' = [b \in Command |-> pc'[b]] /\ pid' = [b \in Command |-> pid'[b]]
    /\ mem' = [b \in Command |-> mem'[b]] /\ args' = [b \in Command |-> args'[b]]

\* It goes on with its command line, or is over.
Moves(c, label, process, m) == Only(c, label, process, m) /\ args' = args
Ends(c) == Only(c, "off", NoPid, NoMemory) /\ args'[c] = NoArgs

\* Exit touches its own command alone.
LEMMA ExitDoes ==
    ASSUME TypedPc, Shape, NEW c \in Command, Exit(c)
    PROVE  Ends(c)
BY DEF TypedPc, Shape, Exit, Goto, Ends, Only

\* Goto touches its own command alone.
LEMMA GotoDoes ==
    ASSUME TypedPc, Shape, NEW c \in Command, NEW label, Goto(c, label), UNCHANGED <<args, pid>>,
           NEW m, mem' = [mem EXCEPT ![c] = m]
    PROVE  Moves(c, label, pid[c], m)
BY DEF TypedPc, Shape, Goto, Moves, Only

\* Start gives an idle command one of the command lines.
LEMMA StartDoes ==
    ASSUME TypedPc, Shape, NEW c \in Command, Start(c)
    PROVE  /\ pc[c] = "off" /\ (env.overlap \/ Idle)
           /\ Only(c, "list", pid[c], mem[c]) /\ args'[c] \in env.commands
           /\ UNCHANGED <<env, kernel, db, ghosts>>
BY DEF TypedPc, Shape, Start, Goto, Only

\* List reads the running rows.
LEMMA ListDoes ==
    ASSUME TypedPc, Shape, NEW c \in Command, List(c)
    PROVE  /\ pc[c] = "list" /\ UNCHANGED <<env, kernel, db, ghosts>>
           /\ \E rows : /\ DOMAIN rows = {d \in DOMAIN db : db[d].status = "running"}
                        /\ \A d \in DOMAIN rows : rows[d] = db[d]
                        /\ Moves(c, "recover", pid[c],
                                 M(rows, mem[c].containers, mem[c].tree, mem[c].allocated,
                                   mem[c].wasFrozen))
<1> DEFINE rows == [d \in {d \in DOMAIN db : db[d].status = "running"} |-> db[d]]
           m == M(rows, mem[c].containers, mem[c].tree, mem[c].allocated, mem[c].wasFrozen)
<1>1. mem' = [mem EXCEPT ![c].rows = rows]
  BY DEF List
<1>2. [mem[c] EXCEPT !.rows = rows] = m
  BY DEF Shape, HasShape, M
<1>5. mem' = [mem EXCEPT ![c] = m]
  BY <1>1, <1>2
<1>3. Moves(c, "recover", pid[c], m)
  BY <1>5, GotoDoes DEF List
<1> HIDE DEF m
<1>4. /\ DOMAIN rows = {d \in DOMAIN db : db[d].status = "running"}
      /\ \A d \in DOMAIN rows : rows[d] = db[d]
  OBVIOUS
<1> QED BY <1>3, <1>4 DEF List, m

\* Recover takes the row with the least number, and keeps or stops its department.
LEMMA RecoverDoes ==
    ASSUME TypedPc, Shape, NEW c \in Command, DOMAIN mem[c].rows \subseteq Dept, Recover(c)
    PROVE  /\ pc[c] = "recover" /\ UNCHANGED <<env, kernel, ghosts>>
           /\ \E d \in DOMAIN mem[c].rows :
                LET p    == mem[c].rows[d].pid
                    rows == Without(mem[c].rows, d)
                    row  == mem[c].rows[d]
                IN  /\ \A e \in DOMAIN mem[c].rows : d <= e
                    /\ \/ /\ Alive(p) /\ db' = db
                          /\ Moves(c, "recover", pid[c],
                                   M(rows, With(mem[c].containers, d, Recovered(p)),
                                     IF MayRegister(mem[c].tree, d, row.tier, row.parent)
                                     THEN Register(mem[c].tree, d, row.tier, row.parent)
                                     ELSE mem[c].tree,
                                     mem[c].allocated, mem[c].wasFrozen))
                       \/ /\ ~Alive(p) /\ db' = [db EXCEPT ![d].status = "stopped"]
                          /\ Moves(c, "recover", pid[c],
                                   M(rows, mem[c].containers, mem[c].tree, mem[c].allocated,
                                     mem[c].wasFrozen))
<1> DEFINE d == NextRow(mem[c].rows)
           p == mem[c].rows[d].pid
           row == mem[c].rows[d]
           rows == Without(mem[c].rows, d)
           tree == IF MayRegister(mem[c].tree, d, row.tier, row.parent)
                   THEN Register(mem[c].tree, d, row.tier, row.parent) ELSE mem[c].tree
           containers == With(mem[c].containers, d, Recovered(p))
           alive == M(rows, containers, tree,
                      mem[c].allocated, mem[c].wasFrozen)
           dead == M(rows, mem[c].containers, mem[c].tree, mem[c].allocated, mem[c].wasFrozen)
<1>1. /\ pc[c] = "recover" /\ DOMAIN mem[c].rows # {}
      /\ UNCHANGED <<env, kernel, pc, args, pid, ghosts>>
  BY DEF Recover
<1>2. d \in DOMAIN mem[c].rows /\ \A e \in DOMAIN mem[c].rows : d <= e
  BY <1>1, MinShape, DepartmentsAssumption DEF NextRow
<1>3. \/ /\ Alive(p) /\ db' = db
         /\ mem' = [mem EXCEPT ![c].rows = Without(@, d),
                               ![c].containers = With(@, d, Recovered(p)),
                               ![c].tree = IF MayRegister(@, d, row.tier, row.parent)
                                           THEN Register(@, d, row.tier, row.parent) ELSE @]
      \/ /\ ~Alive(p) /\ db' = [db EXCEPT ![d].status = "stopped"]
         /\ mem' = [mem EXCEPT ![c].rows = Without(@, d)]
  BY DEF Recover, SeemsAlive
<1> HIDE DEF d
<1>4. HasShape(mem[c]) /\ mem = [b \in Command |-> mem[b]]
  BY DEF Shape
<1>5. ASSUME NEW m, mem' = [mem EXCEPT ![c] = m] PROVE Moves(c, "recover", pid[c], m)
  <2>1. DOMAIN mem = Command
    BY <1>4
  <2>2. mem' = [b \in Command |-> IF b = c THEN m ELSE mem[b]]
    BY <1>5, <2>1
  <2> QED BY <1>1, <2>2 DEF TypedPc, Moves, Only
<1>6. CASE /\ Alive(p) /\ db' = db
           /\ mem' = [mem EXCEPT ![c].rows = Without(@, d),
                                 ![c].containers = With(@, d, Recovered(p)),
                                 ![c].tree = IF MayRegister(@, d, row.tier, row.parent)
                                             THEN Register(@, d, row.tier, row.parent) ELSE @]
  <2>1. [mem[c] EXCEPT !.rows = rows, !.containers = containers, !.tree = tree] = alive
    <3> HIDE DEF rows, containers, tree
    <3> QED BY <1>4, RecoverUpdates
  <2>2. mem' = [mem EXCEPT ![c] = [mem[c] EXCEPT !.rows = rows, !.containers = containers,
                                                 !.tree = tree]]
    BY <1>4, <1>6
  <2>4. mem' = [mem EXCEPT ![c] = alive]
    BY <2>1, <2>2
  <2>3. Moves(c, "recover", pid[c], alive)
    <3> HIDE DEF alive
    <3> QED BY <1>5, <2>4
  <2> QED BY <1>1, <1>2, <1>6, <2>3
<1>7. CASE /\ ~Alive(p) /\ db' = [db EXCEPT ![d].status = "stopped"]
           /\ mem' = [mem EXCEPT ![c].rows = Without(@, d)]
  <2>1. [mem[c] EXCEPT !.rows = rows] = dead
    BY <1>4 DEF HasShape, M
  <2>2. mem' = [mem EXCEPT ![c] = dead]
    BY <1>4, <1>7, <2>1
  <2>3. Moves(c, "recover", pid[c], dead)
    BY <1>5, <2>2
  <2> QED BY <1>1, <1>2, <1>7, <2>3
<1> QED BY <1>3, <1>6, <1>7

\* LoadIPAM reads every row's subnet.
LEMMA LoadIPAMDoes ==
    ASSUME TypedPc, Shape, NEW c \in Command, LoadIPAM(c)
    PROVE  /\ pc[c] = "recover" /\ DOMAIN mem[c].rows = {}
           /\ UNCHANGED <<env, kernel, db, ghosts>>
           /\ \E allocated : /\ DOMAIN allocated = DOMAIN db
                             /\ \A d \in DOMAIN db : allocated[d] = db[d].subnet
                             /\ Moves(c, args[c].op, pid[c],
                                      M(mem[c].rows, mem[c].containers, mem[c].tree,
                                        allocated, mem[c].wasFrozen))
<1> DEFINE allocated == [d \in DOMAIN db |-> db[d].subnet]
           m == M(mem[c].rows, mem[c].containers, mem[c].tree, allocated, mem[c].wasFrozen)
<1>1. mem' = [mem EXCEPT ![c].allocated = allocated]
  BY DEF LoadIPAM, AllocatedRows
<1>2. [mem[c] EXCEPT !.allocated = allocated] = m
  BY DEF Shape, HasShape, M
<1>3. mem' = [mem EXCEPT ![c] = m]
  BY <1>1, <1>2
<1>4. Moves(c, args[c].op, pid[c], m)
  BY <1>3, GotoDoes DEF LoadIPAM
<1> HIDE DEF m
<1>5. DOMAIN allocated = DOMAIN db /\ \A d \in DOMAIN db : allocated[d] = db[d].subnet
  OBVIOUS
<1> QED BY <1>4, <1>5 DEF LoadIPAM, m

\* SpawnBegin registers the department and allocates its subnet, or ends.
LEMMA SpawnBeginDoes ==
    ASSUME TypedPc, Shape, NEW c \in Command, SpawnBegin(c)
    PROVE  /\ pc[c] = "spawn"
           /\ UNCHANGED <<env, owner, joined, addr, link, dropped, hostDropped, db, ghosts>>
           /\ \/ Ends(c) /\ cgroup' = cgroup
              \/ LET a == args[c] IN
                 /\ MayRegister(mem[c].tree, D(c), a.tier, a.parent)
                 /\ CanAllocate(c) /\ D(c) \notin DOMAIN mem[c].containers
                 /\ cgroup' = SetupCgroup(D(c))
                 /\ Moves(c, "start", pid[c],
                          M(mem[c].rows, mem[c].containers,
                            Register(mem[c].tree, D(c), a.tier, a.parent),
                            With(mem[c].allocated, D(c), Allocation(c)), mem[c].wasFrozen))
<1> DEFINE a == args[c]
           tree == Register(mem[c].tree, D(c), a.tier, a.parent)
           allocated == With(mem[c].allocated, D(c), Allocation(c))
           m == M(mem[c].rows, mem[c].containers, tree, allocated, mem[c].wasFrozen)
           ok == /\ MayRegister(mem[c].tree, D(c), a.tier, a.parent)
                 /\ CanAllocate(c) /\ D(c) \notin DOMAIN mem[c].containers
<1>1. /\ pc[c] = "spawn"
      /\ UNCHANGED <<env, owner, joined, addr, link, dropped, hostDropped, db, ghosts>>
      /\ \/ Exit(c) /\ cgroup' = cgroup
         \/ /\ ok /\ cgroup' = SetupCgroup(D(c)) /\ Goto(c, "start") /\ UNCHANGED <<args, pid>>
            /\ mem' = [mem EXCEPT ![c].tree = tree, ![c].allocated = allocated]
  BY DEF SpawnBegin, D
<1>2. [mem[c] EXCEPT !.tree = tree, !.allocated = allocated] = m
  BY SpawnUpdates DEF Shape
<1>3. ASSUME mem' = [mem EXCEPT ![c].tree = tree, ![c].allocated = allocated]
      PROVE  mem' = [mem EXCEPT ![c] = m]
  BY <1>2, <1>3 DEF Shape
<1> HIDE DEF m
<1>4. ASSUME Goto(c, "start"), UNCHANGED <<args, pid>>,
             mem' = [mem EXCEPT ![c].tree = tree, ![c].allocated = allocated]
      PROVE  Moves(c, "start", pid[c], m)
  BY <1>3, <1>4, GotoDoes
<1> QED BY <1>1, <1>4, ExitDoes DEF m

\* SpawnJoin records the container, or destroys it.
LEMMA SpawnJoinDoes ==
    ASSUME TypedPc, Shape, NEW c \in Command, SpawnJoin(c)
    PROVE  /\ pc[c] = "join"
           /\ \/ /\ owner[pid[c]] = D(c) /\ joined' = joined \cup {pid[c]}
                 /\ \E e : identity' = With(identity, D(c), e)
                 /\ UNCHANGED <<env, owner, addr, link, cgroup, dropped, hostDropped, db,
                                held, silenced>>
                 /\ Moves(c, "save", pid[c],
                          M(mem[c].rows, With(mem[c].containers, D(c), Recovered(pid[c])),
                            mem[c].tree, mem[c].allocated, mem[c].wasFrozen))
              \/ Destroy(c, link[D(c)])
<1> DEFINE containers == With(mem[c].containers, D(c), Recovered(pid[c]))
           m == M(mem[c].rows, containers, mem[c].tree, mem[c].allocated, mem[c].wasFrozen)
<1>1. /\ pc[c] = "join"
      /\ \/ /\ owner[pid[c]] = D(c) /\ joined' = joined \cup {pid[c]}
            /\ \E e : identity' = With(identity, D(c), e)
            /\ UNCHANGED <<env, owner, addr, link, cgroup, dropped, hostDropped, db,
                           held, silenced>>
            /\ Goto(c, "save") /\ UNCHANGED <<args, pid>>
            /\ mem' = [mem EXCEPT ![c].containers = containers]
         \/ Destroy(c, link[D(c)])
  BY DEF SpawnJoin
<1>2. [mem[c] EXCEPT !.containers = containers] = m
  BY ContainersUpdate DEF Shape
<1>3. ASSUME mem' = [mem EXCEPT ![c].containers = containers]
      PROVE  mem' = [mem EXCEPT ![c] = m]
  BY <1>2, <1>3 DEF Shape
<1> HIDE DEF m
<1>4. ASSUME Goto(c, "save"), UNCHANGED <<args, pid>>,
             mem' = [mem EXCEPT ![c].containers = containers]
      PROVE  Moves(c, "save", pid[c], m)
  BY <1>3, <1>4, GotoDoes
<1> QED BY <1>1, <1>4 DEF m

\* QuarantineFreeze freezes a container the command has found, or ends.
LEMMA QuarantineFreezeDoes ==
    ASSUME TypedPc, Shape, NEW c \in Command, QuarantineFreeze(c)
    PROVE  /\ pc[c] = "quarantine"
           /\ UNCHANGED <<env, owner, joined, addr, link, dropped, hostDropped, db, ghosts>>
           /\ \/ Ends(c) /\ cgroup' = cgroup
              \/ /\ Tracked(c) /\ Freeze(D(c))
                 /\ Moves(c, "drop", pid[c],
                          M(mem[c].rows,
                            [mem[c].containers EXCEPT ![D(c)].frozen = TRUE],
                            mem[c].tree, mem[c].allocated, mem[c].wasFrozen))
<1> DEFINE containers == [mem[c].containers EXCEPT ![D(c)].frozen = TRUE]
           m == M(mem[c].rows, containers, mem[c].tree, mem[c].allocated, mem[c].wasFrozen)
<1>1. /\ pc[c] = "quarantine"
      /\ UNCHANGED <<env, owner, joined, addr, link, dropped, hostDropped, db, ghosts>>
      /\ \/ Exit(c) /\ cgroup' = cgroup
         \/ /\ Tracked(c) /\ Freeze(D(c)) /\ Goto(c, "drop") /\ UNCHANGED <<args, pid>>
            /\ mem' = [mem EXCEPT ![c].containers[D(c)].frozen = TRUE]
  BY DEF QuarantineFreeze
<1>2. [mem[c] EXCEPT !.containers = containers] = m
  BY ContainersUpdate DEF Shape
<1>3. ASSUME mem' = [mem EXCEPT ![c].containers[D(c)].frozen = TRUE]
      PROVE  mem' = [mem EXCEPT ![c] = m]
  <2>1. mem' = [mem EXCEPT ![c] = [mem[c] EXCEPT !.containers = containers]]
    BY <1>3 DEF Shape
  <2> QED BY <1>2, <2>1
<1> HIDE DEF m
<1>4. ASSUME Goto(c, "drop"), UNCHANGED <<args, pid>>,
             mem' = [mem EXCEPT ![c].containers[D(c)].frozen = TRUE]
      PROVE  Moves(c, "drop", pid[c], m)
  BY <1>3, <1>4, GotoDoes
<1> QED BY <1>1, <1>4, ExitDoes DEF m

\* SnapshotFreeze may freeze a container the command has found, or ends.
LEMMA SnapshotFreezeDoes ==
    ASSUME TypedPc, Shape, NEW c \in Command, SnapshotFreeze(c)
    PROVE  /\ pc[c] = "snapshot"
           /\ UNCHANGED <<env, owner, joined, addr, link, dropped, hostDropped, db, ghosts>>
           /\ \/ Ends(c) /\ cgroup' = cgroup
              \/ /\ Tracked(c)
                 /\ cgroup' = cgroup \/ Freeze(D(c))
                 /\ Moves(c, "thaw", pid[c],
                          M(mem[c].rows, mem[c].containers, mem[c].tree, mem[c].allocated,
                            Container(c).frozen))
<1> DEFINE m == M(mem[c].rows, mem[c].containers, mem[c].tree, mem[c].allocated,
                  Container(c).frozen)
<1>1. /\ pc[c] = "snapshot"
      /\ UNCHANGED <<env, owner, joined, addr, link, dropped, hostDropped, db, ghosts>>
      /\ \/ Exit(c) /\ cgroup' = cgroup
         \/ /\ Tracked(c) /\ (cgroup' = cgroup \/ Freeze(D(c)))
            /\ Goto(c, "thaw") /\ UNCHANGED <<args, pid>>
            /\ mem' = [mem EXCEPT ![c].wasFrozen = Container(c).frozen]
  BY DEF SnapshotFreeze
<1>2. [mem[c] EXCEPT !.wasFrozen = Container(c).frozen] = m
  BY DEF Shape, HasShape, M
<1>3. ASSUME mem' = [mem EXCEPT ![c].wasFrozen = Container(c).frozen]
      PROVE  mem' = [mem EXCEPT ![c] = m]
  BY <1>2, <1>3 DEF Shape
<1> HIDE DEF m
<1>4. ASSUME Goto(c, "thaw"), UNCHANGED <<args, pid>>,
             mem' = [mem EXCEPT ![c].wasFrozen = Container(c).frozen]
      PROVE  Moves(c, "thaw", pid[c], m)
  BY <1>3, <1>4, GotoDoes
<1> QED BY <1>1, <1>4, ExitDoes DEF m

-----------------------------------------------------------------------------
(* What the commands have in memory.                                       *)
Record == [status : {"running", "stopped"}, pid : Pid, subnet : Subnet,
           tier : Tier, parent : Dept \cup {NoParent}]

\* A container in a command's memory.  None is known to be quarantined: the command that
\* sets the flag ends there.
Recalled == [pid : Pid, frozen : BOOLEAN, quarantined : {FALSE}]

MapTo(f, S) == DOMAIN f \subseteq Dept /\ \A d \in DOMAIN f : f[d] \in S

TypedMemory(m) ==
    /\ MapTo(m.rows, Record) /\ MapTo(m.containers, Recalled)
    /\ DOMAIN m.tree \subseteq Dept /\ MapTo(m.allocated, Subnet) /\ m.wasFrozen = FALSE

TypedCommands ==
    /\ env \in Environments /\ MapTo(db, Record)
    /\ TypedPc /\ Shape /\ \A c \in Command : TypedMemory(mem[c])

Spawning == {"start"} \cup Starting

\* What a command has at each point: flags are set late and rows are read off early.
Reached(c) ==
    /\ pc[c] = "off" => pid[c] = NoPid /\ mem[c] = NoMemory
    /\ pc[c] # "off" => args[c] \in env.commands
    /\ pc[c] \notin {"list", "recover"} => DOMAIN mem[c].rows = {}
    /\ pc[c] \in Operation => pc[c] = args[c].op
    /\ pc[c] \in Spawning => args[c].op = "spawn" /\ D(c) \in DOMAIN mem[c].allocated
    /\ pc[c] \in Starting => pid[c] \in Pid
    /\ pc[c] \notin Starting => pid[c] = NoPid
    /\ pc[c] = "drop" => args[c].op = "quarantine" /\ Tracked(c)
    /\ pc[c] # "drop" => \A d \in DOMAIN mem[c].containers : ~mem[c].containers[d].frozen
    /\ pc[c] = "thaw" => args[c].op = "snapshot"

CommandsInv == TypedCommands /\ \A c \in Command : Reached(c)

\* The fields of a memory.
LEMMA MFields ==
    ASSUME NEW r, NEW k, NEW t, NEW a, NEW w
    PROVE  /\ M(r, k, t, a, w).rows = r /\ M(r, k, t, a, w).containers = k
           /\ M(r, k, t, a, w).tree = t /\ M(r, k, t, a, w).allocated = a
           /\ M(r, k, t, a, w).wasFrozen = w /\ HasShape(M(r, k, t, a, w))
BY DEF M, HasShape

\* An empty memory is typed.
LEMMA NoMemoryTyped ==
    /\ HasShape(NoMemory) /\ TypedMemory(NoMemory) /\ DOMAIN NoMemory.rows = {}
    /\ DOMAIN NoMemory.containers = {}
BY DEF NoMemory, HasShape, M, TypedMemory, MapTo, Empty, EmptyTree

\* A command that runs is about a department.
LEMMA AboutDept ==
    ASSUME CommandsInv, NEW c \in Command, pc[c] # "off"
    PROVE  /\ args[c] \in Args /\ args[c] \in env.commands
           /\ D(c) \in Dept /\ args[c].op \in Operation
BY DepartmentsAssumption DEF CommandsInv, TypedCommands, TypedPc, Reached, Args, D

\* What one command does leaves the others' state alone.
LEMMA OnlyOne ==
    ASSUME CommandsInv, NEW c \in Command, NEW label \in Labels, NEW p \in Pid \cup {NoPid},
           NEW m, Only(c, label, p, m), HasShape(m), TypedMemory(m),
           args'[c] \in Args \cup {NoArgs}, env' = env, MapTo(db', Record), Reached(c)'
    PROVE  CommandsInv'
<1>1. /\ pc' \in [Command -> Labels] /\ args' \in [Command -> Args \cup {NoArgs}]
      /\ pid' \in [Command -> Pid \cup {NoPid}]
  BY DEF CommandsInv, TypedCommands, TypedPc, Only
<1>2. Shape' /\ \A b \in Command : TypedMemory(mem[b])'
  BY DEF CommandsInv, TypedCommands, TypedPc, Only, Shape, TypedMemory
<1>3. ASSUME NEW b \in Command, b # c PROVE Reached(b)'
  BY <1>3 DEF CommandsInv, Only, Reached, D, Tracked
<1> QED BY <1>1, <1>2, <1>3 DEF CommandsInv, TypedCommands, TypedPc

\* A command that ends keeps the invariant.
LEMMA EndsInv ==
    ASSUME CommandsInv, NEW c \in Command, Ends(c), env' = env, MapTo(db', Record)
    PROVE  CommandsInv'
<1>1. Reached(c)'
  BY NoMemoryTyped DEF Ends, Only, Reached, Operation, Spawning, Starting
<1> QED BY <1>1, NoMemoryTyped, OnlyOne DEF Ends, Labels

\* destroyFailedSpawn ends its command.
LEMMA DestroyEnds ==
    ASSUME CommandsInv, NEW c \in Command, NEW l, Destroy(c, l)
    PROVE  Ends(c) /\ env' = env /\ db' = db
BY ExitDoes DEF Destroy, CommandsInv, TypedCommands, TypedPc

\* With, Without and EXCEPT keep a map's range.
LEMMA MapUpdates ==
    ASSUME NEW f, NEW S, MapTo(f, S), NEW d
    PROVE  /\ MapTo(Without(f, d), S)
           /\ \A e \in S : d \in Dept => MapTo(With(f, d, e), S)
<1>1. MapTo(Without(f, d), S)
  BY DEF Without, MapTo
<1>2. ASSUME NEW e \in S, d \in Dept PROVE MapTo(With(f, d, e), S)
  <2> DEFINE g == With(f, d, e)
  <2>1. /\ DOMAIN g = DOMAIN f \cup {d} /\ g[d] = e
        /\ \A x \in DOMAIN f \ {d} : g[x] = f[x]
    BY DEF With
  <2> HIDE DEF g
  <2>2. DOMAIN g \subseteq Dept
    BY <1>2, <2>1 DEF MapTo
  <2>3. ASSUME NEW x \in DOMAIN g PROVE g[x] \in S
    <3>1. CASE x = d
      BY <2>1, <3>1
    <3>2. CASE x # d
      BY <2>1, <2>3, <3>2 DEF MapTo
    <3> QED BY <3>1, <3>2
  <2> QED BY <2>2, <2>3 DEF MapTo, g
<1> QED BY <1>1, <1>2

\* What holds of every value of a map and of a new one.
LEMMA WithEvery ==
    ASSUME NEW f, NEW d, NEW e, ~e.frozen, \A x \in DOMAIN f : ~f[x].frozen
    PROVE  \A x \in DOMAIN With(f, d, e) : ~With(f, d, e)[x].frozen
<1> DEFINE g == With(f, d, e)
<1>1. /\ DOMAIN g = DOMAIN f \cup {d} /\ g[d] = e
      /\ \A x \in DOMAIN f \ {d} : g[x] = f[x]
  BY DEF With
<1> HIDE DEF g
<1>2. ASSUME NEW x \in DOMAIN g PROVE ~g[x].frozen
  <2>1. CASE x = d
    BY <1>1, <2>1
  <2>2. CASE x # d
    BY <1>1, <1>2, <2>2
  <2> QED BY <2>1, <2>2
<1> QED BY <1>2 DEF g

\* IPAM.Allocate returns the department's subnet, or a free one.
LEMMA AllocationShape ==
    ASSUME NEW c \in Command, TypedMemory(mem[c]), CanAllocate(c)
    PROVE  /\ Allocation(c) \in Subnet
           /\ D(c) \in DOMAIN mem[c].allocated => Allocation(c) = mem[c].allocated[D(c)]
           /\ D(c) \notin DOMAIN mem[c].allocated =>
                 \A d \in DOMAIN mem[c].allocated : mem[c].allocated[d] # Allocation(c)
<1>1. CASE D(c) \in DOMAIN mem[c].allocated
  BY <1>1 DEF Allocation, TypedMemory, MapTo
<1>2. CASE D(c) \notin DOMAIN mem[c].allocated
  <2>1. FreeSubnets(c) # {} /\ FreeSubnets(c) \subseteq Nat
    BY <1>2, DepartmentsAssumption DEF CanAllocate, FreeSubnets
  <2>2. Allocation(c) \in FreeSubnets(c)
    BY <1>2, <2>1, MinShape DEF Allocation
  <2> QED BY <1>2, <2>2 DEF FreeSubnets
<1> QED BY <1>1, <1>2

\* The row that a spawn saves is a row.
LEMMA RowTyped ==
    ASSUME CommandsInv, NEW c \in Command, pc[c] = "save"
    PROVE  /\ Row(c) \in Record /\ Row(c).status = "running" /\ Row(c).pid = pid[c]
           /\ Row(c).subnet = mem[c].allocated[D(c)]
<1>1. /\ args[c] \in Args /\ D(c) \in Dept /\ pid[c] \in Pid
      /\ D(c) \in DOMAIN mem[c].allocated
  BY AboutDept DEF CommandsInv, Reached, Starting, Spawning
<1>2. mem[c].allocated[D(c)] \in Subnet
  BY <1>1 DEF CommandsInv, TypedCommands, TypedMemory, MapTo
<1>3. D(c) \in DOMAIN db => db[D(c)].tier \in Tier /\ db[D(c)].parent \in Dept \cup {NoParent}
  BY DEF CommandsInv, TypedCommands, MapTo, Record
<1> QED BY <1>1, <1>2, <1>3 DEF Row, Record, Args

(* Every step keeps what commands know.                                    *)
LEMMA CommandsStep ==
    ASSUME CommandsInv, [Next]_vars
    PROVE  CommandsInv'
<1>1. ASSUME NEW c \in Command, Start(c) PROVE CommandsInv'
  <2>1. /\ pc[c] = "off" /\ Only(c, "list", pid[c], mem[c]) /\ args'[c] \in env.commands
        /\ env' = env /\ db' = db
    BY <1>1, StartDoes DEF CommandsInv, TypedCommands
  <2>2. pid[c] = NoPid /\ mem[c] = NoMemory
    BY <2>1 DEF CommandsInv, Reached
  <2>3. args'[c] \in Args
    BY <2>1, DepartmentsAssumption DEF CommandsInv, TypedCommands
  <2>4. Reached(c)'
    BY <2>1, <2>2, NoMemoryTyped DEF Only, Reached, Operation, Spawning, Starting
  <2> QED BY <2>1, <2>2, <2>3, <2>4, NoMemoryTyped, OnlyOne DEF Labels, CommandsInv,
             TypedCommands
<1>2. ASSUME NEW c \in Command, List(c) PROVE CommandsInv'
  <2>1. pc[c] = "list" /\ env' = env /\ db' = db
    BY <1>2, ListDoes DEF CommandsInv, TypedCommands
  <2>2. PICK rows : /\ DOMAIN rows = {d \in DOMAIN db : db[d].status = "running"}
                    /\ \A d \in DOMAIN rows : rows[d] = db[d]
                    /\ Moves(c, "recover", pid[c],
                             M(rows, mem[c].containers, mem[c].tree, mem[c].allocated,
                               mem[c].wasFrozen))
    BY <1>2, ListDoes DEF CommandsInv, TypedCommands
  <2> DEFINE m == M(rows, mem[c].containers, mem[c].tree, mem[c].allocated, mem[c].wasFrozen)
  <2>3. TypedMemory(m) /\ HasShape(m)
    <3>1. MapTo(rows, Record) /\ TypedMemory(mem[c])
      BY <2>2 DEF CommandsInv, TypedCommands, MapTo
    <3>2. /\ m.rows = rows /\ m.containers = mem[c].containers /\ m.tree = mem[c].tree
          /\ m.allocated = mem[c].allocated /\ m.wasFrozen = mem[c].wasFrozen /\ HasShape(m)
      BY MFields
    <3> HIDE DEF m
    <3> QED BY <3>1, <3>2 DEF TypedMemory
  <2>4. mem'[c].containers = mem[c].containers
    BY <2>2, MFields DEF Moves, Only
  <2>5. Reached(c) /\ args[c] \in Args
    BY <2>1, AboutDept DEF CommandsInv
  <2> HIDE DEF m
  <2>6. Reached(c)'
    BY <2>1, <2>2, <2>4, <2>5 DEF Moves, Only, Reached, Operation, Spawning, Starting
  <2>7. Only(c, "recover", pid[c], m) /\ args' = args
    BY <2>2 DEF Moves, m
  <2>8. pid[c] \in Pid \cup {NoPid}
    BY DEF CommandsInv, TypedCommands, TypedPc
  <2> QED BY <2>1, <2>3, <2>5, <2>6, <2>7, <2>8, OnlyOne DEF Labels, CommandsInv, TypedCommands
<1>3. ASSUME NEW c \in Command, Recover(c) PROVE CommandsInv'
  <2>1. DOMAIN mem[c].rows \subseteq Dept /\ MapTo(mem[c].rows, Record)
    BY DEF CommandsInv, TypedCommands, TypedMemory, MapTo
  <2>2. pc[c] = "recover" /\ env' = env
    BY <1>3, <2>1, RecoverDoes DEF CommandsInv, TypedCommands
  <2>3. Reached(c) /\ args[c] \in Args /\ pid[c] \in Pid \cup {NoPid} /\ TypedMemory(mem[c])
    BY <2>2, AboutDept DEF CommandsInv, TypedCommands, TypedPc
  <2>4. PICK d \in DOMAIN mem[c].rows :
            \/ /\ db' = db
               /\ \E tree : /\ DOMAIN tree \subseteq DOMAIN mem[c].tree \cup {d}
                            /\ Moves(c, "recover", pid[c],
                                     M(Without(mem[c].rows, d),
                                       With(mem[c].containers, d, Recovered(mem[c].rows[d].pid)),
                                       tree, mem[c].allocated, mem[c].wasFrozen))
            \/ /\ db' = [db EXCEPT ![d].status = "stopped"]
               /\ Moves(c, "recover", pid[c],
                        M(Without(mem[c].rows, d), mem[c].containers, mem[c].tree,
                          mem[c].allocated, mem[c].wasFrozen))
    <3>1. \A d, tier, parent : DOMAIN Register(mem[c].tree, d, tier, parent)
                                 = DOMAIN mem[c].tree \cup {d}
      BY DEF Register
    <3>2. PICK d \in DOMAIN mem[c].rows :
            LET p    == mem[c].rows[d].pid
                rows == Without(mem[c].rows, d)
                row  == mem[c].rows[d]
            IN  \/ /\ Alive(p) /\ db' = db
                   /\ Moves(c, "recover", pid[c],
                            M(rows, With(mem[c].containers, d, Recovered(p)),
                              IF MayRegister(mem[c].tree, d, row.tier, row.parent)
                              THEN Register(mem[c].tree, d, row.tier, row.parent)
                              ELSE mem[c].tree,
                              mem[c].allocated, mem[c].wasFrozen))
                \/ /\ ~Alive(p) /\ db' = [db EXCEPT ![d].status = "stopped"]
                   /\ Moves(c, "recover", pid[c],
                            M(rows, mem[c].containers, mem[c].tree, mem[c].allocated,
                              mem[c].wasFrozen))
      BY <1>3, <2>1, RecoverDoes DEF CommandsInv, TypedCommands
    <3> DEFINE p == mem[c].rows[d].pid
               t == IF MayRegister(mem[c].tree, d, mem[c].rows[d].tier, mem[c].rows[d].parent)
                    THEN Register(mem[c].tree, d, mem[c].rows[d].tier, mem[c].rows[d].parent)
                    ELSE mem[c].tree
    <3>3. DOMAIN t \subseteq DOMAIN mem[c].tree \cup {d}
      BY <3>1
    <3>4. \/ /\ db' = db
             /\ Moves(c, "recover", pid[c],
                      M(Without(mem[c].rows, d), With(mem[c].containers, d, Recovered(p)), t,
                        mem[c].allocated, mem[c].wasFrozen))
          \/ /\ db' = [db EXCEPT ![d].status = "stopped"]
             /\ Moves(c, "recover", pid[c],
                      M(Without(mem[c].rows, d), mem[c].containers, mem[c].tree,
                        mem[c].allocated, mem[c].wasFrozen))
      BY <3>2
    <3> HIDE DEF t
    <3> QED BY <3>3, <3>4
  <2>5. d \in Dept /\ mem[c].rows[d] \in Record
    BY <2>1 DEF MapTo
  <2>6. ASSUME NEW m, Moves(c, "recover", pid[c], m), HasShape(m), TypedMemory(m),
               \A x \in DOMAIN m.containers : ~m.containers[x].frozen, MapTo(db', Record)
        PROVE  CommandsInv'
    <3>1. Reached(c)'
      BY <2>2, <2>3, <2>6 DEF Moves, Only, Reached, Operation, Spawning, Starting
    <3> QED BY <2>2, <2>3, <2>6, <3>1, OnlyOne DEF Moves, Labels
  <2>7. ASSUME NEW tree, DOMAIN tree \subseteq DOMAIN mem[c].tree \cup {d}, db' = db,
               Moves(c, "recover", pid[c],
                     M(Without(mem[c].rows, d),
                       With(mem[c].containers, d, Recovered(mem[c].rows[d].pid)),
                       tree, mem[c].allocated, mem[c].wasFrozen))
        PROVE  CommandsInv'
    <3> DEFINE k == With(mem[c].containers, d, Recovered(mem[c].rows[d].pid))
               m == M(Without(mem[c].rows, d), k, tree, mem[c].allocated, mem[c].wasFrozen)
    <3>1. Recovered(mem[c].rows[d].pid) \in Recalled /\ ~Recovered(mem[c].rows[d].pid).frozen
      BY <2>5 DEF Recovered, Recalled, Record
    <3>2. MapTo(Without(mem[c].rows, d), Record) /\ MapTo(k, Recalled)
      BY <2>3, <2>5, <3>1, MapUpdates DEF TypedMemory
    <3>6. \A x \in DOMAIN mem[c].containers : ~mem[c].containers[x].frozen
      BY <2>2, <2>3 DEF Reached
    <3>3. \A x \in DOMAIN k : ~k[x].frozen
      BY <3>1, <3>6, WithEvery
    <3> HIDE DEF k
    <3>4. HasShape(m) /\ TypedMemory(m) /\ m.containers = k
      BY <2>3, <2>5, <2>7, <3>2, MFields DEF TypedMemory
    <3>5. Moves(c, "recover", pid[c], m) /\ MapTo(db', Record)
      BY <2>7 DEF k, CommandsInv, TypedCommands
    <3> HIDE DEF m
    <3> QED BY <2>6, <3>3, <3>4, <3>5
  <2>8. ASSUME db' = [db EXCEPT ![d].status = "stopped"],
               Moves(c, "recover", pid[c],
                     M(Without(mem[c].rows, d), mem[c].containers, mem[c].tree,
                       mem[c].allocated, mem[c].wasFrozen))
        PROVE  CommandsInv'
    <3> DEFINE m == M(Without(mem[c].rows, d), mem[c].containers, mem[c].tree,
                      mem[c].allocated, mem[c].wasFrozen)
    <3>1. MapTo(Without(mem[c].rows, d), Record)
      BY <2>3, MapUpdates DEF TypedMemory
    <3>2. HasShape(m) /\ TypedMemory(m) /\ m.containers = mem[c].containers
      BY <2>3, <3>1, MFields DEF TypedMemory
    <3>3. \A x \in DOMAIN mem[c].containers : ~mem[c].containers[x].frozen
      BY <2>2, <2>3 DEF Reached
    <3>4. MapTo(db', Record)
      BY <2>8 DEF CommandsInv, TypedCommands, MapTo, Record
    <3>5. Moves(c, "recover", pid[c], m)
      BY <2>8
    <3> HIDE DEF m
    <3> QED BY <2>6, <3>2, <3>3, <3>4, <3>5
  <2> QED BY <2>4, <2>7, <2>8
<1>4. ASSUME NEW c \in Command, LoadIPAM(c) PROVE CommandsInv'
  <2>1. pc[c] = "recover" /\ DOMAIN mem[c].rows = {} /\ env' = env /\ db' = db
    BY <1>4, LoadIPAMDoes DEF CommandsInv, TypedCommands
  <2>2. PICK allocated : /\ DOMAIN allocated = DOMAIN db
                         /\ \A d \in DOMAIN db : allocated[d] = db[d].subnet
                         /\ Moves(c, args[c].op, pid[c],
                                  M(mem[c].rows, mem[c].containers, mem[c].tree,
                                    allocated, mem[c].wasFrozen))
    BY <1>4, LoadIPAMDoes DEF CommandsInv, TypedCommands
  <2>3. /\ Reached(c) /\ args[c] \in Args /\ args[c].op \in Operation
        /\ pid[c] \in Pid \cup {NoPid} /\ TypedMemory(mem[c])
    BY <2>1, AboutDept DEF CommandsInv, TypedCommands, TypedPc
  <2> DEFINE m == M(mem[c].rows, mem[c].containers, mem[c].tree, allocated, mem[c].wasFrozen)
  <2>4. /\ TypedMemory(m) /\ HasShape(m) /\ m.rows = mem[c].rows
        /\ m.containers = mem[c].containers
    <3>1. MapTo(allocated, Subnet)
      BY <2>2 DEF CommandsInv, TypedCommands, MapTo, Record
    <3>2. /\ m.rows = mem[c].rows /\ m.containers = mem[c].containers /\ m.tree = mem[c].tree
          /\ m.allocated = allocated /\ m.wasFrozen = mem[c].wasFrozen /\ HasShape(m)
      BY MFields
    <3> HIDE DEF m
    <3> QED BY <2>3, <3>1, <3>2 DEF TypedMemory
  <2>5. Moves(c, args[c].op, pid[c], m)
    BY <2>2
  <2> HIDE DEF m
  <2>6. Reached(c)'
    BY <2>1, <2>3, <2>4, <2>5 DEF Moves, Only, Reached, Operation, Spawning, Starting
  <2>7. args[c].op \in Labels
    BY <2>3 DEF Labels
  <2> QED BY <2>1, <2>3, <2>4, <2>5, <2>6, <2>7, OnlyOne DEF Moves, CommandsInv, TypedCommands
<1>5. ASSUME NEW c \in Command, Status(c) PROVE CommandsInv'
  <2>1. Ends(c) /\ env' = env /\ db' = db
    BY <1>5, ExitDoes DEF Status, CommandsInv, TypedCommands
  <2> QED BY <2>1, EndsInv DEF CommandsInv, TypedCommands
<1>6. ASSUME NEW c \in Command, SpawnBegin(c) PROVE CommandsInv'
  <2>1. pc[c] = "spawn" /\ env' = env /\ db' = db
    BY <1>6, SpawnBeginDoes DEF CommandsInv, TypedCommands
  <2>2. /\ Reached(c) /\ args[c] \in Args /\ D(c) \in Dept /\ TypedMemory(mem[c])
        /\ pid[c] \in Pid \cup {NoPid}
    BY <2>1, AboutDept DEF CommandsInv, TypedCommands, TypedPc
  <2>3. CASE Ends(c)
    BY <2>1, <2>3, EndsInv DEF CommandsInv, TypedCommands
  <2> DEFINE a == With(mem[c].allocated, D(c), Allocation(c))
             t == Register(mem[c].tree, D(c), args[c].tier, args[c].parent)
             m == M(mem[c].rows, mem[c].containers, t, a, mem[c].wasFrozen)
  <2>4. CASE CanAllocate(c) /\ Moves(c, "start", pid[c], m)
    <3>5. Allocation(c) \in Subnet /\ MapTo(mem[c].allocated, Subnet)
      BY <2>2, <2>4, AllocationShape DEF TypedMemory
    <3>6. D(c) \in DOMAIN a
      BY DEF With
    <3>1. MapTo(a, Subnet) /\ D(c) \in DOMAIN a
      BY <2>2, <3>5, <3>6, MapUpdates
    <3>2. DOMAIN t \subseteq Dept
      BY <2>2 DEF Register, TypedMemory
    <3> HIDE DEF a, t
    <3>3. /\ TypedMemory(m) /\ HasShape(m) /\ m.rows = mem[c].rows /\ m.allocated = a
          /\ m.containers = mem[c].containers
      BY <2>2, <3>1, <3>2, MFields DEF TypedMemory
    <3> HIDE DEF m
    <3>4. Reached(c)'
      BY <2>1, <2>2, <2>4, <3>1, <3>3
         DEF Moves, Only, Reached, Operation, Spawning, Starting, D
    <3> QED BY <2>1, <2>2, <2>4, <3>3, <3>4, OnlyOne
            DEF Moves, Labels, CommandsInv, TypedCommands
  <2> HIDE DEF a, t
  <2>5. Ends(c) \/ (CanAllocate(c) /\ Moves(c, "start", pid[c], m))
    BY <1>6, SpawnBeginDoes DEF CommandsInv, TypedCommands, a, t
  <2> QED BY <2>3, <2>4, <2>5
<1>7. ASSUME NEW c \in Command, SpawnStart(c) PROVE CommandsInv'
  <2>1. /\ pc[c] = "start" /\ Reached(c) /\ args[c] \in Args
        /\ TypedMemory(mem[c]) /\ HasShape(mem[c])
    BY <1>7, AboutDept DEF SpawnStart, CommandsInv, TypedCommands, Shape
  <2>2. CASE Destroy(c, link[D(c)])
    BY <2>2, DestroyEnds, EndsInv DEF CommandsInv, TypedCommands
  <2>3. CASE Exit(c) /\ env' = env /\ db' = db
    BY <2>3, ExitDoes, EndsInv DEF CommandsInv, TypedCommands
  <2>4. ASSUME NEW p \in NewPids, pid' = [pid EXCEPT ![c] = p], Goto(c, "veth"),
               UNCHANGED <<env, args, mem, db>>
        PROVE  CommandsInv'
    <3>1. p \in Pid /\ Only(c, "veth", p, mem[c])
      BY <2>4 DEF NewPids, Only, Goto, CommandsInv, TypedCommands, TypedPc, Shape
    <3>2. Reached(c)'
      BY <2>1, <2>4, <3>1 DEF Only, Reached, Operation, Spawning, Starting, D
    <3> QED BY <2>1, <2>4, <3>1, <3>2, OnlyOne DEF Labels, CommandsInv, TypedCommands
  <2> QED BY <1>7, <2>2, <2>3, <2>4 DEF SpawnStart
<1>8. ASSUME NEW c \in Command, SpawnVeth(c) PROVE CommandsInv'
  <2>1. pc[c] = "veth" /\ Reached(c) /\ args[c] \in Args /\ TypedMemory(mem[c]) /\ HasShape(mem[c])
    BY <1>8, AboutDept DEF SpawnVeth, CommandsInv, TypedCommands, Shape
  <2>2. ASSUME NEW l, Destroy(c, l) PROVE CommandsInv'
    BY <2>2, DestroyEnds, EndsInv DEF CommandsInv, TypedCommands
  <2>3. CASE Goto(c, "join") /\ UNCHANGED <<env, args, pid, mem, db>>
    <3>1. pid[c] \in Pid /\ Only(c, "join", pid[c], mem[c])
      BY <2>1, <2>3 DEF Reached, Starting, Only, Goto, CommandsInv, TypedCommands, TypedPc,
         Shape
    <3>2. Reached(c)'
      BY <2>1, <2>3, <3>1 DEF Only, Reached, Operation, Spawning, Starting, D
    <3> QED BY <2>1, <2>3, <3>1, <3>2, OnlyOne DEF Labels, CommandsInv, TypedCommands
  <2> QED BY <1>8, <2>2, <2>3 DEF SpawnVeth
<1>9. ASSUME NEW c \in Command, SpawnJoin(c) PROVE CommandsInv'
  <2>1. /\ pc[c] = "join" /\ Reached(c) /\ args[c] \in Args /\ TypedMemory(mem[c])
        /\ D(c) \in Dept /\ pid[c] \in Pid
    BY <1>9, AboutDept DEF SpawnJoin, CommandsInv, TypedCommands, Reached, Starting
  <2>2. CASE Destroy(c, link[D(c)])
    BY <2>2, DestroyEnds, EndsInv DEF CommandsInv, TypedCommands
  <2> DEFINE k == With(mem[c].containers, D(c), Recovered(pid[c]))
             m == M(mem[c].rows, k, mem[c].tree, mem[c].allocated, mem[c].wasFrozen)
  <2>3. CASE UNCHANGED <<env, db>> /\ Moves(c, "save", pid[c], m)
    <3>1. Recovered(pid[c]) \in Recalled /\ ~Recovered(pid[c]).frozen
      BY <2>1 DEF Recovered, Recalled
    <3>5. /\ MapTo(mem[c].containers, Recalled)
          /\ \A d \in DOMAIN mem[c].containers : ~mem[c].containers[d].frozen
      BY <2>1 DEF TypedMemory, Reached
    <3>6. MapTo(k, Recalled)
      BY <2>1, <3>1, <3>5, MapUpdates
    <3>7. \A d \in DOMAIN k : ~k[d].frozen
      BY <3>1, <3>5, WithEvery
    <3>2. MapTo(k, Recalled) /\ \A d \in DOMAIN k : ~k[d].frozen
      BY <3>6, <3>7
    <3> HIDE DEF k
    <3>3. /\ TypedMemory(m) /\ HasShape(m) /\ m.rows = mem[c].rows /\ m.containers = k
          /\ m.allocated = mem[c].allocated
      BY <2>1, <3>2, MFields DEF TypedMemory
    <3> HIDE DEF m
    <3>4. Reached(c)'
      BY <2>1, <2>3, <3>2, <3>3 DEF Moves, Only, Reached, Operation, Spawning, Starting, D
    <3> QED BY <2>1, <2>3, <3>3, <3>4, OnlyOne DEF Moves, Labels, CommandsInv, TypedCommands
  <2> HIDE DEF k
  <2>4. Destroy(c, link[D(c)]) \/ (UNCHANGED <<env, db>> /\ Moves(c, "save", pid[c], m))
    BY <1>9, SpawnJoinDoes DEF CommandsInv, TypedCommands, k
  <2> QED BY <2>2, <2>3, <2>4
<1>10. ASSUME NEW c \in Command, SpawnSave(c) PROVE CommandsInv'
  <2>1. pc[c] = "save" /\ Ends(c) /\ env' = env
    BY <1>10, ExitDoes DEF SpawnSave, CommandsInv, TypedCommands
  <2>2. MapTo(With(db, D(c), Row(c)), Record)
    BY <2>1, RowTyped, MapUpdates, AboutDept DEF CommandsInv, TypedCommands
  <2>3. MapTo(db', Record)
    BY <1>10, <2>2 DEF SpawnSave, CommandsInv, TypedCommands
  <2> QED BY <2>1, <2>3, EndsInv
<1>11. ASSUME NEW c \in Command, QuarantineFreeze(c) PROVE CommandsInv'
  <2>1. pc[c] = "quarantine" /\ env' = env /\ db' = db
    BY <1>11, QuarantineFreezeDoes DEF CommandsInv, TypedCommands
  <2>2. /\ Reached(c) /\ args[c] \in Args /\ D(c) \in Dept /\ TypedMemory(mem[c])
        /\ pid[c] \in Pid \cup {NoPid}
    BY <2>1, AboutDept DEF CommandsInv, TypedCommands, TypedPc
  <2>3. CASE Ends(c)
    BY <2>1, <2>3, EndsInv DEF CommandsInv, TypedCommands
  <2> DEFINE k == [mem[c].containers EXCEPT ![D(c)].frozen = TRUE]
             m == M(mem[c].rows, k, mem[c].tree, mem[c].allocated, mem[c].wasFrozen)
  <2>4. CASE Tracked(c) /\ Moves(c, "drop", pid[c], m)
    <3>1. MapTo(k, Recalled) /\ D(c) \in DOMAIN k
      BY <2>2, <2>4 DEF TypedMemory, MapTo, Recalled, Tracked
    <3> HIDE DEF k
    <3>2. /\ TypedMemory(m) /\ HasShape(m) /\ m.rows = mem[c].rows /\ m.containers = k
      BY <2>2, <3>1, MFields DEF TypedMemory
    <3> HIDE DEF m
    <3>3. Reached(c)'
      BY <2>1, <2>2, <2>4, <3>1, <3>2
         DEF Moves, Only, Reached, Operation, Spawning, Starting, D, Tracked
    <3> QED BY <2>1, <2>2, <2>4, <3>2, <3>3, OnlyOne
            DEF Moves, Labels, CommandsInv, TypedCommands
  <2> HIDE DEF k
  <2>5. Ends(c) \/ (Tracked(c) /\ Moves(c, "drop", pid[c], m))
    BY <1>11, QuarantineFreezeDoes DEF CommandsInv, TypedCommands, k
  <2> QED BY <2>3, <2>4, <2>5
<1>12. ASSUME NEW c \in Command, QuarantineDrop(c) PROVE CommandsInv'
  <2>1. Ends(c) /\ env' = env /\ db' = db
    BY <1>12, ExitDoes DEF QuarantineDrop, CommandsInv, TypedCommands
  <2> QED BY <2>1, EndsInv DEF CommandsInv, TypedCommands
<1>13. ASSUME NEW c \in Command, Unquarantine(c) PROVE CommandsInv'
  <2>1. Ends(c) /\ env' = env /\ db' = db
    BY <1>13, ExitDoes DEF Unquarantine, CommandsInv, TypedCommands
  <2> QED BY <2>1, EndsInv DEF CommandsInv, TypedCommands
<1>14. ASSUME NEW c \in Command, SnapshotFreeze(c) PROVE CommandsInv'
  <2>1. pc[c] = "snapshot" /\ env' = env /\ db' = db
    BY <1>14, SnapshotFreezeDoes DEF CommandsInv, TypedCommands
  <2>2. /\ Reached(c) /\ args[c] \in Args /\ TypedMemory(mem[c])
        /\ pid[c] \in Pid \cup {NoPid}
    BY <2>1, AboutDept DEF CommandsInv, TypedCommands, TypedPc
  <2>3. CASE Ends(c)
    BY <2>1, <2>3, EndsInv DEF CommandsInv, TypedCommands
  <2> DEFINE m == M(mem[c].rows, mem[c].containers, mem[c].tree, mem[c].allocated,
                    Container(c).frozen)
  <2>4. CASE Tracked(c) /\ Moves(c, "thaw", pid[c], m)
    <3>1. Container(c).frozen = FALSE
      BY <2>1, <2>2, <2>4 DEF Reached, Tracked, Container, TypedMemory, MapTo, Recalled
    <3>2. /\ TypedMemory(m) /\ HasShape(m) /\ m.rows = mem[c].rows
          /\ m.containers = mem[c].containers
      BY <2>2, <3>1, MFields DEF TypedMemory
    <3> HIDE DEF m
    <3>3. Reached(c)'
      BY <2>1, <2>2, <2>4, <3>2 DEF Moves, Only, Reached, Operation, Spawning, Starting
    <3> QED BY <2>1, <2>2, <2>4, <3>2, <3>3, OnlyOne
            DEF Moves, Labels, CommandsInv, TypedCommands
  <2>5. Ends(c) \/ (Tracked(c) /\ Moves(c, "thaw", pid[c], m))
    BY <1>14, SnapshotFreezeDoes DEF CommandsInv, TypedCommands
  <2> QED BY <2>3, <2>4, <2>5
<1>15. ASSUME NEW c \in Command, SnapshotThaw(c) PROVE CommandsInv'
  <2>1. Ends(c) /\ env' = env /\ db' = db
    BY <1>15, ExitDoes DEF SnapshotThaw, CommandsInv, TypedCommands
  <2> QED BY <2>1, EndsInv DEF CommandsInv, TypedCommands
<1>16. ASSUME NEW c \in Command, Crash(c) PROVE CommandsInv'
  <2>1. Ends(c) /\ env' = env /\ db' = db
    BY <1>16, ExitDoes DEF Crash, CommandsInv, TypedCommands
  <2> QED BY <2>1, EndsInv DEF CommandsInv, TypedCommands
<1>17. ASSUME NEW p \in Pid, ContainerDies(p) PROVE CommandsInv'
  BY <1>17 DEF ContainerDies, Vanish, CommandsInv, TypedCommands, TypedPc, Shape, Reached, D,
     Tracked, procs, vars
<1>18. ASSUME NEW p \in Pid, HostTakesPid(p) PROVE CommandsInv'
  BY <1>18 DEF HostTakesPid, CommandsInv, TypedCommands, TypedPc, Shape, Reached, D, Tracked,
     procs, vars
<1>19. ASSUME UNCHANGED vars PROVE CommandsInv'
  BY <1>19 DEF CommandsInv, TypedCommands, TypedPc, Shape, Reached, D, Tracked, procs, vars
<1> QED
  BY <1>1, <1>2, <1>3, <1>4, <1>5, <1>6, <1>7, <1>8, <1>9, <1>10, <1>11, <1>12, <1>13,
        <1>14, <1>15, <1>16, <1>17, <1>18, <1>19 DEF Next, Step

\* No command runs at first.
LEMMA CommandsInit == Init => CommandsInv
<1> SUFFICES ASSUME Init PROVE CommandsInv
  OBVIOUS
<1>1. MapTo(db, Record) /\ env \in Environments
  BY DEF Init, MapTo, Empty
<1>2. TypedPc
  BY DEF Init, TypedPc, Labels
<1>3. Shape /\ \A c \in Command : TypedMemory(mem[c])
  BY NoMemoryTyped DEF Init, Shape
<1>4. \A c \in Command : Reached(c)
  BY NoMemoryTyped DEF Init, Reached, Operation, Spawning, Starting
<1> QED BY <1>1, <1>2, <1>3, <1>4 DEF CommandsInv, TypedCommands

-----------------------------------------------------------------------------
(* The shape of the kernel's state.                                        *)
KernelInv ==
    /\ owner \in [Pid -> Dept \cup {Host, Free}]
    /\ joined \cup dropped \cup silenced \subseteq {p \in Pid : owner[p] \in Dept}
    /\ hostDropped \in BOOLEAN /\ addr \in [Pid -> Subnet \cup {0}]
    /\ \A p \in Pid : owner[p] \notin Dept => addr[p] = 0
    /\ link \in [Dept -> {NoLink, Stray} \cup Pid]
    /\ \A d \in Dept : link[d] \in Pid => owner[link[d]] = d
    /\ cgroup \in [Dept -> {"absent", "thawed", "frozen"}]
    /\ held \subseteq Dept /\ DOMAIN identity \subseteq Dept

\* A step that leaves the kernel alone (kernel, ghosts).
LEMMA KernelSame ==
    ASSUME KernelInv, UNCHANGED <<owner, joined, dropped, silenced, hostDropped, addr, link,
                                  held, identity>>,
           cgroup' \in [Dept -> {"absent", "thawed", "frozen"}]
    PROVE  KernelInv'
BY DEF KernelInv

\* A failed spawn ends its own init and link and no others (destroyFailedSpawn).
LEMMA KernelDestroy ==
    ASSUME CommandsInv, KernelInv, NEW c \in Command, pc[c] # "off", NEW l, Destroy(c, l),
           l = link[D(c)] \/ l = Stray
    PROVE  KernelInv'
<1> DEFINE d == D(c)
           p == pid[c]
<1>1. d \in Dept /\ p \in Pid \cup {NoPid} /\ NoPid \notin Pid /\ NoLink \notin Pid
      /\ Stray \notin Pid /\ Free \notin Dept
  BY AboutDept, DepartmentsAssumption DEF CommandsInv, TypedCommands, TypedPc, Free
<1>2. /\ link' = [link EXCEPT ![d] = IF l = p THEN NoLink ELSE l]
      /\ UNCHANGED <<hostDropped, identity>>
      /\ held' \subseteq held
      /\ \E gone \in BOOLEAN : cgroup' = [cgroup EXCEPT ![d] = IF gone THEN "absent" ELSE @]
  BY DEF Destroy
<1>3. \/ /\ p \in Pid /\ owner[p] = d
         /\ owner' = [owner EXCEPT ![p] = Free] /\ joined' = joined \ {p}
         /\ addr' = [addr EXCEPT ![p] = 0] /\ dropped' = dropped \ {p}
         /\ silenced' = silenced \ {p}
      \/ UNCHANGED <<owner, joined, addr, dropped, silenced>> /\ (p = NoPid \/ owner[p] # d)
  BY <1>1 DEF Destroy, Vanish
<1>4. /\ owner' \in [Pid -> Dept \cup {Host, Free}] /\ addr' \in [Pid -> Subnet \cup {0}]
      /\ \A q \in Pid : owner'[q] \notin Dept => addr'[q] = 0
      /\ joined' \cup dropped' \cup silenced' \subseteq {q \in Pid : owner'[q] \in Dept}
  BY <1>1, <1>3 DEF KernelInv
<1>5. link' \in [Dept -> {NoLink, Stray} \cup Pid]
  BY <1>1, <1>2 DEF KernelInv
<1>6. ASSUME NEW e \in Dept, link'[e] \in Pid PROVE owner'[link'[e]] = e
  <2>1. link'[e] = link[e] /\ (e = d => link[e] # p)
    BY <1>1, <1>2, <1>6 DEF KernelInv
  <2>2. owner[link[e]] = e
    BY <1>6, <2>1 DEF KernelInv
  <2> QED BY <1>1, <1>3, <1>6, <2>1, <2>2 DEF KernelInv
<1>7. cgroup' \in [Dept -> {"absent", "thawed", "frozen"}] /\ held' \subseteq Dept
      /\ DOMAIN identity' \subseteq Dept /\ hostDropped' \in BOOLEAN
  BY <1>1, <1>2 DEF KernelInv
<1> QED BY <1>4, <1>5, <1>6, <1>7 DEF KernelInv

\* Every step keeps it (Step, ContainerDies, HostTakesPid).
LEMMA KernelStep ==
    ASSUME CommandsInv, KernelInv, [Next]_vars
    PROVE  KernelInv'
<1>1. ASSUME NEW c \in Command, Start(c) PROVE KernelInv'
  BY <1>1, KernelSame DEF Start, KernelInv, kernel, ghosts
<1>2. ASSUME NEW c \in Command, List(c) PROVE KernelInv'
  BY <1>2, KernelSame DEF List, KernelInv, kernel, ghosts
<1>3. ASSUME NEW c \in Command, Recover(c) PROVE KernelInv'
  BY <1>3, KernelSame DEF Recover, KernelInv, kernel, ghosts
<1>4. ASSUME NEW c \in Command, LoadIPAM(c) PROVE KernelInv'
  BY <1>4, KernelSame DEF LoadIPAM, KernelInv, kernel, ghosts
<1>5. ASSUME NEW c \in Command, Status(c) PROVE KernelInv'
  BY <1>5, KernelSame DEF Status, KernelInv, kernel, ghosts
<1>6. ASSUME NEW c \in Command, SpawnBegin(c) PROVE KernelInv'
  <2>1. cgroup' \in [Dept -> {"absent", "thawed", "frozen"}]
    BY <1>6 DEF SpawnBegin, SetupCgroup, KernelInv, D
  <2> QED BY <1>6, <2>1, KernelSame DEF SpawnBegin, ghosts
<1>7. ASSUME NEW c \in Command, SpawnStart(c) PROVE KernelInv'
  <2>1. /\ pc[c] = "start" /\ D(c) \in Dept /\ Free \notin Dept
        /\ NewPids \subseteq {p \in Pid : owner[p] = Free}
    BY <1>7, AboutDept, DepartmentsAssumption DEF SpawnStart, Free, NewPids, Alive
  <2>2. CASE Destroy(c, link[D(c)])
    BY <2>1, <2>2, KernelDestroy
  <2>3. CASE UNCHANGED <<kernel, ghosts>>
    BY <2>3, KernelSame DEF kernel, ghosts, KernelInv
  <2>4. ASSUME NEW p \in NewPids, owner' = [owner EXCEPT ![p] = D(c)],
               UNCHANGED <<joined, addr, link, cgroup, dropped, hostDropped, ghosts>>
        PROVE  KernelInv'
    BY <2>1, <2>4 DEF KernelInv, ghosts
  <2> QED BY <1>7, <2>2, <2>3, <2>4 DEF SpawnStart
<1>8. ASSUME NEW c \in Command, SpawnVeth(c) PROVE KernelInv'
  <2>1. /\ pc[c] = "veth" /\ D(c) \in Dept /\ pid[c] \in Pid
        /\ mem[c].allocated[D(c)] \in Subnet
    BY <1>8, AboutDept
       DEF SpawnVeth, CommandsInv, TypedCommands, Reached, Spawning, Starting, TypedMemory, MapTo
  <2>2. CASE Destroy(c, link[D(c)]) \/ Destroy(c, Stray)
    BY <2>1, <2>2, KernelDestroy
  <2>3. CASE /\ owner[pid[c]] = D(c) /\ link' = [link EXCEPT ![D(c)] = pid[c]]
             /\ addr' = [addr EXCEPT ![pid[c]] = mem[c].allocated[D(c)]]
             /\ UNCHANGED <<owner, joined, cgroup, dropped, hostDropped, ghosts>>
    BY <2>1, <2>3 DEF KernelInv, ghosts
  <2> QED BY <1>8, <2>2, <2>3 DEF SpawnVeth
<1>9. ASSUME NEW c \in Command, SpawnJoin(c) PROVE KernelInv'
  <2>1. pc[c] = "join" /\ D(c) \in Dept /\ pid[c] \in Pid
    BY <1>9, AboutDept DEF SpawnJoin, CommandsInv, Reached, Starting
  <2>2. CASE Destroy(c, link[D(c)])
    BY <2>1, <2>2, KernelDestroy
  <2>3. CASE /\ owner[pid[c]] = D(c) /\ joined' = joined \cup {pid[c]}
             /\ DOMAIN identity' = DOMAIN identity \cup {D(c)}
             /\ UNCHANGED <<owner, addr, link, cgroup, dropped, hostDropped, held, silenced>>
    BY <2>1, <2>3 DEF KernelInv
  <2> QED BY <1>9, <2>2, <2>3 DEF SpawnJoin, With
<1>10. ASSUME NEW c \in Command, SpawnSave(c) PROVE KernelInv'
  BY <1>10, KernelSame DEF SpawnSave, KernelInv, kernel, ghosts
<1>11. ASSUME NEW c \in Command, QuarantineFreeze(c) PROVE KernelInv'
  <2>1. cgroup' \in [Dept -> {"absent", "thawed", "frozen"}]
    BY <1>11 DEF QuarantineFreeze, Freeze, KernelInv, D
  <2> QED BY <1>11, <2>1, KernelSame DEF QuarantineFreeze, ghosts
<1>12. ASSUME NEW c \in Command, QuarantineDrop(c) PROVE KernelInv'
  <2>1. /\ pc[c] = "drop" /\ D(c) \in Dept /\ Container(c).pid \in Pid
    BY <1>12, AboutDept
       DEF QuarantineDrop, CommandsInv, TypedCommands, Reached, Tracked, Container, TypedMemory,
           MapTo, Recalled
  <2> DEFINE p == Container(c).pid
  <2>2. /\ dropped' \subseteq dropped \cup {q \in {p} : owner[q] \in Dept}
        /\ hostDropped' \in BOOLEAN /\ held' = held \cup {D(c)}
        /\ silenced' = silenced \cup {q \in {p} : owner[q] = D(c)}
        /\ UNCHANGED <<owner, joined, addr, link, cgroup, identity>>
    BY <1>12 DEF QuarantineDrop, KernelInv
  <2> QED BY <2>1, <2>2 DEF KernelInv
<1>13. ASSUME NEW c \in Command, Unquarantine(c) PROVE KernelInv'
  <2>1. cgroup' \in [Dept -> {"absent", "thawed", "frozen"}]
    BY <1>13 DEF Unquarantine, Thaw, KernelInv, D
  <2>2. /\ UNCHANGED <<owner, joined, addr, link, dropped, hostDropped, identity>>
        /\ held' \subseteq held /\ silenced' \subseteq silenced
    BY <1>13 DEF Unquarantine
  <2> QED BY <2>1, <2>2 DEF KernelInv
<1>14. ASSUME NEW c \in Command, SnapshotFreeze(c) PROVE KernelInv'
  <2>1. cgroup' \in [Dept -> {"absent", "thawed", "frozen"}]
    BY <1>14 DEF SnapshotFreeze, Freeze, KernelInv, D
  <2> QED BY <1>14, <2>1, KernelSame DEF SnapshotFreeze, ghosts
<1>15. ASSUME NEW c \in Command, SnapshotThaw(c) PROVE KernelInv'
  <2>1. cgroup' \in [Dept -> {"absent", "thawed", "frozen"}]
    BY <1>15 DEF SnapshotThaw, ThawOwn, Thaw, KernelInv, D
  <2> QED BY <1>15, <2>1, KernelSame DEF SnapshotThaw, ghosts
<1>16. ASSUME NEW c \in Command, Crash(c) PROVE KernelInv'
  BY <1>16, KernelSame DEF Crash, KernelInv, kernel, ghosts
<1>17. ASSUME NEW p \in Pid, ContainerDies(p) PROVE KernelInv'
  <2>1. /\ owner' = [owner EXCEPT ![p] = Free] /\ Free \notin Dept
        /\ joined' = joined \ {p} /\ addr' = [addr EXCEPT ![p] = 0]
        /\ dropped' = dropped \ {p} /\ silenced' = silenced \ {p}
        /\ link' = [d \in Dept |-> IF link[d] = p THEN NoLink ELSE link[d]]
        /\ NoLink \notin Pid /\ UNCHANGED <<cgroup, hostDropped, held, identity>>
    BY <1>17, DepartmentsAssumption DEF ContainerDies, Vanish, Free
  <2> QED BY <2>1 DEF KernelInv
<1>18. ASSUME NEW p \in Pid, HostTakesPid(p) PROVE KernelInv'
  <2>1. /\ owner' = [owner EXCEPT ![p] = Host] /\ owner[p] = Free
        /\ Host \notin Dept /\ Free \notin Dept
        /\ UNCHANGED <<joined, addr, link, cgroup, dropped, hostDropped, ghosts>>
    BY <1>18, DepartmentsAssumption DEF HostTakesPid, Alive, Free, Host
  <2> QED BY <2>1 DEF KernelInv, ghosts
<1>19. ASSUME UNCHANGED vars PROVE KernelInv'
  BY <1>19, KernelSame DEF vars, kernel, ghosts, KernelInv
<1> QED
  BY <1>1, <1>2, <1>3, <1>4, <1>5, <1>6, <1>7, <1>8, <1>9, <1>10, <1>11, <1>12, <1>13,
        <1>14, <1>15, <1>16, <1>17, <1>18, <1>19 DEF Next, Step

\* No process runs at first.
LEMMA KernelInit == Init => KernelInv
<1> SUFFICES ASSUME Init PROVE KernelInv
  OBVIOUS
<1>1. NoLink \notin Pid /\ DOMAIN identity = {}
  BY DepartmentsAssumption DEF Init, Empty
<1>2. owner \in [Pid -> Dept \cup {Host, Free}] /\ addr \in [Pid -> Subnet \cup {0}]
      /\ \A p \in Pid : addr[p] = 0
  BY DEF Init
<1>3. link \in [Dept -> {NoLink, Stray} \cup Pid] /\ \A d \in Dept : link[d] \notin Pid
  BY <1>1 DEF Init
<1> QED BY <1>1, <1>2, <1>3 DEF Init, KernelInv

\* The shape of the state (commands, kernel and database).
THEOREM TypeCorrect == Spec => []TypeOK
<1>1. Init => CommandsInv /\ KernelInv
  BY CommandsInit, KernelInit
<1>2. CommandsInv /\ KernelInv /\ [Next]_vars => CommandsInv' /\ KernelInv'
  BY CommandsStep, KernelStep
<1>3. CommandsInv /\ KernelInv => TypeOK
  <2> SUFFICES ASSUME CommandsInv, KernelInv PROVE TypeOK
    OBVIOUS
  <2>1. \A d \in Dept : link[d] \in {NoLink, Stray} \cup {p \in Pid : owner[p] = d}
    BY DEF KernelInv
  <2>2. \A d \in DOMAIN db : d \in Dept /\ db[d] \in Record
    BY DEF CommandsInv, TypedCommands, MapTo
  <2>3. \A c \in Command : /\ pc[c] \in Labels /\ pid[c] \in Pid \cup {NoPid}
                           /\ DOMAIN mem[c].containers \subseteq Dept
                           /\ DOMAIN mem[c].tree \subseteq Dept
    BY DEF CommandsInv, TypedCommands, TypedPc, TypedMemory, MapTo
  <2> QED BY <2>1, <2>2, <2>3 DEF TypeOK, CommandsInv, TypedCommands, KernelInv, Record
<1> QED BY <1>1, <1>2, <1>3, PTL DEF Spec

-----------------------------------------------------------------------------
(* What each step does to the fields of its command's memory.              *)
Others(c) ==
    \A b \in Command : b # c => /\ pc'[b] = pc[b] /\ args'[b] = args[b]
                                /\ pid'[b] = pid[b] /\ mem'[b] = mem[b]

\* Command c goes on, with the same command line and init.
Goes(c, label) ==
    Others(c) /\ pc'[c] = label /\ args'[c] = args[c] /\ pid'[c] = pid[c]

\* From Moves to the fields.
LEMMA MovesFields ==
    ASSUME NEW c \in Command, NEW label, NEW r, NEW k, NEW t, NEW a, NEW w,
           Moves(c, label, pid[c], M(r, k, t, a, w))
    PROVE  /\ Goes(c, label) /\ mem'[c].rows = r /\ mem'[c].containers = k
           /\ mem'[c].tree = t /\ mem'[c].allocated = a
<1> DEFINE m == M(r, k, t, a, w)
<1>1. m.rows = r /\ m.containers = k /\ m.tree = t /\ m.allocated = a
  BY MFields
<1> HIDE DEF m
<1>2. Only(c, label, pid[c], m) /\ args' = args
  BY DEF Moves, m
<1>3. mem'[c] = m /\ Goes(c, label)
  BY <1>2 DEF Only, Goes, Others
<1> QED BY <1>1, <1>3

\* From Ends: the command is over and remembers nothing.
LEMMA EndsFields ==
    ASSUME NEW c \in Command, Ends(c)
    PROVE  Others(c) /\ pc'[c] = "off" /\ args'[c] = NoArgs /\ pid'[c] = NoPid
           /\ mem'[c] = NoMemory
BY DEF Ends, Only, Others

Running == {d \in DOMAIN db : db[d].status = "running"}

\* List, field by field.
LEMMA ListGives ==
    ASSUME CommandsInv, NEW c \in Command, List(c)
    PROVE  /\ pc[c] = "list" /\ UNCHANGED <<env, kernel, db, ghosts>> /\ Goes(c, "recover")
           /\ DOMAIN mem'[c].rows = Running
           /\ \A d \in Running : mem'[c].rows[d] = db[d]
           /\ mem'[c].containers = mem[c].containers /\ mem'[c].tree = mem[c].tree
           /\ mem'[c].allocated = mem[c].allocated
<1>1. pc[c] = "list" /\ UNCHANGED <<env, kernel, db, ghosts>>
  BY DEF List
<1>2. PICK rows : /\ DOMAIN rows = {d \in DOMAIN db : db[d].status = "running"}
                  /\ \A d \in DOMAIN rows : rows[d] = db[d]
                  /\ Moves(c, "recover", pid[c],
                           M(rows, mem[c].containers, mem[c].tree, mem[c].allocated,
                             mem[c].wasFrozen))
  BY ListDoes DEF CommandsInv, TypedCommands
<1>3. Goes(c, "recover") /\ mem'[c].rows = rows /\ mem'[c].containers = mem[c].containers
      /\ mem'[c].tree = mem[c].tree /\ mem'[c].allocated = mem[c].allocated
  BY <1>2, MovesFields
<1> QED BY <1>1, <1>2, <1>3 DEF Running

\* Recover, field by field.
LEMMA RecoverGives ==
    ASSUME CommandsInv, NEW c \in Command, Recover(c)
    PROVE  /\ pc[c] = "recover" /\ UNCHANGED <<env, kernel, ghosts>> /\ Goes(c, "recover")
           /\ mem'[c].allocated = mem[c].allocated
           /\ \E d \in DOMAIN mem[c].rows :
                /\ d \in Dept /\ mem[c].rows[d] \in Record
                /\ \A e \in DOMAIN mem[c].rows : d <= e
                /\ mem'[c].rows = Without(mem[c].rows, d)
                /\ \/ /\ Alive(mem[c].rows[d].pid) /\ db' = db
                      /\ mem'[c].containers
                           = With(mem[c].containers, d, Recovered(mem[c].rows[d].pid))
                      /\ mem'[c].tree =
                         IF MayRegister(mem[c].tree, d, mem[c].rows[d].tier, mem[c].rows[d].parent)
                         THEN Register(mem[c].tree, d, mem[c].rows[d].tier, mem[c].rows[d].parent)
                         ELSE mem[c].tree
                   \/ /\ ~Alive(mem[c].rows[d].pid)
                      /\ db' = [db EXCEPT ![d].status = "stopped"]
                      /\ mem'[c].containers = mem[c].containers /\ mem'[c].tree = mem[c].tree
<1>1. DOMAIN mem[c].rows \subseteq Dept /\ MapTo(mem[c].rows, Record)
  BY DEF CommandsInv, TypedCommands, TypedMemory, MapTo
<1>2. pc[c] = "recover" /\ UNCHANGED <<env, kernel, ghosts>>
  BY DEF Recover
<1>3. PICK d \in DOMAIN mem[c].rows :
        LET p    == mem[c].rows[d].pid
            rows == Without(mem[c].rows, d)
            row  == mem[c].rows[d]
        IN  /\ \A e \in DOMAIN mem[c].rows : d <= e
            /\ \/ /\ Alive(p) /\ db' = db
                  /\ Moves(c, "recover", pid[c],
                           M(rows, With(mem[c].containers, d, Recovered(p)),
                             IF MayRegister(mem[c].tree, d, row.tier, row.parent)
                             THEN Register(mem[c].tree, d, row.tier, row.parent)
                             ELSE mem[c].tree,
                             mem[c].allocated, mem[c].wasFrozen))
               \/ /\ ~Alive(p) /\ db' = [db EXCEPT ![d].status = "stopped"]
                  /\ Moves(c, "recover", pid[c],
                           M(rows, mem[c].containers, mem[c].tree, mem[c].allocated,
                             mem[c].wasFrozen))
  <2>1. TypedPc /\ Shape
    BY DEF CommandsInv, TypedCommands
  <2> QED BY <1>1, <2>1, RecoverDoes, Zenon
<1>4. d \in Dept /\ mem[c].rows[d] \in Record /\ \A e \in DOMAIN mem[c].rows : d <= e
  <2>1. d \in Dept /\ mem[c].rows[d] \in Record
    BY <1>1 DEF MapTo
  <2>2. \A e \in DOMAIN mem[c].rows : d <= e
    BY <1>3, Zenon
  <2> QED BY <2>1, <2>2
<1> DEFINE p    == mem[c].rows[d].pid
           row  == mem[c].rows[d]
           k == With(mem[c].containers, d, Recovered(p))
           t == IF MayRegister(mem[c].tree, d, row.tier, row.parent)
                THEN Register(mem[c].tree, d, row.tier, row.parent) ELSE mem[c].tree
<1>5. CASE /\ Alive(p) /\ db' = db
           /\ Moves(c, "recover", pid[c],
                    M(Without(mem[c].rows, d), k, t, mem[c].allocated, mem[c].wasFrozen))
  <2>1. /\ Goes(c, "recover") /\ mem'[c].rows = Without(mem[c].rows, d)
        /\ mem'[c].containers = k /\ mem'[c].tree = t /\ mem'[c].allocated = mem[c].allocated
    <3> HIDE DEF k, t
    <3> QED BY <1>5, MovesFields
  <2> QED BY <1>2, <1>4, <1>5, <2>1
<1>6. CASE /\ ~Alive(p) /\ db' = [db EXCEPT ![d].status = "stopped"]
           /\ Moves(c, "recover", pid[c],
                    M(Without(mem[c].rows, d), mem[c].containers, mem[c].tree,
                      mem[c].allocated, mem[c].wasFrozen))
  <2>1. /\ Goes(c, "recover") /\ mem'[c].rows = Without(mem[c].rows, d)
        /\ mem'[c].containers = mem[c].containers /\ mem'[c].tree = mem[c].tree
        /\ mem'[c].allocated = mem[c].allocated
    <3> DEFINE r == Without(mem[c].rows, d)
    <3>1. Moves(c, "recover", pid[c],
                M(r, mem[c].containers, mem[c].tree, mem[c].allocated, mem[c].wasFrozen))
      BY <1>6
    <3> HIDE DEF r
    <3>2. /\ Goes(c, "recover") /\ mem'[c].rows = r
          /\ mem'[c].containers = mem[c].containers /\ mem'[c].tree = mem[c].tree
          /\ mem'[c].allocated = mem[c].allocated
      BY <3>1, MovesFields
    <3> QED BY <3>2 DEF r
  <2> QED BY <1>2, <1>4, <1>6, <2>1
<1> QED BY <1>3, <1>5, <1>6

\* LoadIPAM, field by field.
LEMMA LoadIPAMGives ==
    ASSUME CommandsInv, NEW c \in Command, LoadIPAM(c)
    PROVE  /\ pc[c] = "recover" /\ UNCHANGED <<env, kernel, db, ghosts>>
           /\ args[c].op \in Operation /\ Goes(c, args[c].op)
           /\ DOMAIN mem[c].rows = {} /\ mem'[c].rows = mem[c].rows
           /\ mem'[c].containers = mem[c].containers /\ mem'[c].tree = mem[c].tree
           /\ DOMAIN mem'[c].allocated = DOMAIN db
           /\ \A d \in DOMAIN db : mem'[c].allocated[d] = db[d].subnet
<1>1. pc[c] = "recover" /\ DOMAIN mem[c].rows = {} /\ UNCHANGED <<env, kernel, db, ghosts>>
  BY DEF LoadIPAM
<1>2. PICK allocated : /\ DOMAIN allocated = DOMAIN db
                       /\ \A d \in DOMAIN db : allocated[d] = db[d].subnet
                       /\ Moves(c, args[c].op, pid[c],
                                M(mem[c].rows, mem[c].containers, mem[c].tree,
                                  allocated, mem[c].wasFrozen))
  BY LoadIPAMDoes DEF CommandsInv, TypedCommands
<1>3. /\ Goes(c, args[c].op) /\ mem'[c].rows = mem[c].rows
      /\ mem'[c].containers = mem[c].containers /\ mem'[c].tree = mem[c].tree
      /\ mem'[c].allocated = allocated
  BY <1>2, MovesFields
<1>4. args[c].op \in Operation
  BY <1>1, AboutDept
<1> QED BY <1>1, <1>2, <1>3, <1>4

\* SpawnBegin, field by field.
LEMMA SpawnBeginGives ==
    ASSUME CommandsInv, NEW c \in Command, SpawnBegin(c)
    PROVE  /\ pc[c] = "spawn"
           /\ UNCHANGED <<env, owner, joined, addr, link, dropped, hostDropped, db, ghosts>>
           /\ \/ Ends(c) /\ cgroup' = cgroup
              \/ /\ Goes(c, "start") /\ CanAllocate(c) /\ cgroup' = SetupCgroup(D(c))
                 /\ MayRegister(mem[c].tree, D(c), args[c].tier, args[c].parent)
                 /\ D(c) \notin DOMAIN mem[c].containers
                 /\ mem'[c].rows = mem[c].rows /\ mem'[c].containers = mem[c].containers
                 /\ mem'[c].tree = Register(mem[c].tree, D(c), args[c].tier, args[c].parent)
                 /\ mem'[c].allocated = With(mem[c].allocated, D(c), Allocation(c))
<1> DEFINE a == With(mem[c].allocated, D(c), Allocation(c))
           t == Register(mem[c].tree, D(c), args[c].tier, args[c].parent)
<1>1. /\ pc[c] = "spawn"
      /\ UNCHANGED <<env, owner, joined, addr, link, dropped, hostDropped, db, ghosts>>
  BY DEF SpawnBegin
<1>2. \/ Ends(c) /\ cgroup' = cgroup
      \/ /\ CanAllocate(c) /\ cgroup' = SetupCgroup(D(c))
         /\ MayRegister(mem[c].tree, D(c), args[c].tier, args[c].parent)
         /\ D(c) \notin DOMAIN mem[c].containers
         /\ Moves(c, "start", pid[c],
                  M(mem[c].rows, mem[c].containers, t, a, mem[c].wasFrozen))
  BY SpawnBeginDoes DEF CommandsInv, TypedCommands
<1>3. ASSUME Moves(c, "start", pid[c], M(mem[c].rows, mem[c].containers, t, a, mem[c].wasFrozen))
      PROVE  /\ Goes(c, "start") /\ mem'[c].rows = mem[c].rows
             /\ mem'[c].containers = mem[c].containers /\ mem'[c].tree = t
             /\ mem'[c].allocated = a
  <2> HIDE DEF a, t
  <2> QED BY <1>3, MovesFields
<1> QED BY <1>1, <1>2, <1>3

\* SpawnJoin, field by field.
LEMMA SpawnJoinGives ==
    ASSUME CommandsInv, NEW c \in Command, SpawnJoin(c)
    PROVE  /\ pc[c] = "join"
           /\ \/ /\ owner[pid[c]] = D(c) /\ joined' = joined \cup {pid[c]} /\ Goes(c, "save")
                 /\ UNCHANGED <<env, owner, addr, link, cgroup, dropped, hostDropped, db,
                                held, silenced>>
                 /\ mem'[c].rows = mem[c].rows /\ mem'[c].tree = mem[c].tree
                 /\ mem'[c].containers = With(mem[c].containers, D(c), Recovered(pid[c]))
                 /\ mem'[c].allocated = mem[c].allocated
              \/ Destroy(c, link[D(c)])
<1> DEFINE k == With(mem[c].containers, D(c), Recovered(pid[c]))
<1>1. /\ pc[c] = "join"
      /\ \/ /\ owner[pid[c]] = D(c) /\ joined' = joined \cup {pid[c]}
            /\ UNCHANGED <<env, owner, addr, link, cgroup, dropped, hostDropped, db,
                           held, silenced>>
            /\ Moves(c, "save", pid[c],
                     M(mem[c].rows, k, mem[c].tree, mem[c].allocated, mem[c].wasFrozen))
         \/ Destroy(c, link[D(c)])
  BY SpawnJoinDoes DEF CommandsInv, TypedCommands
<1>2. ASSUME Moves(c, "save", pid[c],
                   M(mem[c].rows, k, mem[c].tree, mem[c].allocated, mem[c].wasFrozen))
      PROVE  /\ Goes(c, "save") /\ mem'[c].rows = mem[c].rows /\ mem'[c].tree = mem[c].tree
             /\ mem'[c].containers = k /\ mem'[c].allocated = mem[c].allocated
  <2> HIDE DEF k
  <2> QED BY <1>2, MovesFields
<1> QED BY <1>1, <1>2

\* QuarantineFreeze, field by field.
LEMMA QuarantineFreezeGives ==
    ASSUME CommandsInv, NEW c \in Command, QuarantineFreeze(c)
    PROVE  /\ pc[c] = "quarantine"
           /\ UNCHANGED <<env, owner, joined, addr, link, dropped, hostDropped, db, ghosts>>
           /\ \/ Ends(c) /\ cgroup' = cgroup
              \/ /\ Tracked(c) /\ Freeze(D(c)) /\ Goes(c, "drop")
                 /\ mem'[c].rows = mem[c].rows /\ mem'[c].tree = mem[c].tree
                 /\ mem'[c].allocated = mem[c].allocated
                 /\ DOMAIN mem'[c].containers = DOMAIN mem[c].containers
                 /\ \A d \in DOMAIN mem[c].containers :
                        mem'[c].containers[d].pid = mem[c].containers[d].pid
<1> DEFINE k == [mem[c].containers EXCEPT ![D(c)].frozen = TRUE]
<1>1. /\ pc[c] = "quarantine"
      /\ UNCHANGED <<env, owner, joined, addr, link, dropped, hostDropped, db, ghosts>>
      /\ \/ Ends(c) /\ cgroup' = cgroup
         \/ /\ Tracked(c) /\ Freeze(D(c))
            /\ Moves(c, "drop", pid[c],
                     M(mem[c].rows, k, mem[c].tree, mem[c].allocated, mem[c].wasFrozen))
  BY QuarantineFreezeDoes DEF CommandsInv, TypedCommands
<1>2. MapTo(mem[c].containers, Recalled)
  BY DEF CommandsInv, TypedCommands, TypedMemory
<1>3. /\ DOMAIN k = DOMAIN mem[c].containers
      /\ \A d \in DOMAIN mem[c].containers : k[d].pid = mem[c].containers[d].pid
  BY <1>2 DEF MapTo, Recalled
<1>4. ASSUME Moves(c, "drop", pid[c],
                   M(mem[c].rows, k, mem[c].tree, mem[c].allocated, mem[c].wasFrozen))
      PROVE  /\ Goes(c, "drop") /\ mem'[c].rows = mem[c].rows /\ mem'[c].tree = mem[c].tree
             /\ mem'[c].containers = k /\ mem'[c].allocated = mem[c].allocated
  <2> HIDE DEF k
  <2> QED BY <1>4, MovesFields
<1> QED BY <1>1, <1>3, <1>4

\* SnapshotFreeze, field by field.
LEMMA SnapshotFreezeGives ==
    ASSUME CommandsInv, NEW c \in Command, SnapshotFreeze(c)
    PROVE  /\ pc[c] = "snapshot"
           /\ UNCHANGED <<env, owner, joined, addr, link, dropped, hostDropped, db, ghosts>>
           /\ \/ Ends(c) /\ cgroup' = cgroup
              \/ /\ Tracked(c) /\ (cgroup' = cgroup \/ Freeze(D(c))) /\ Goes(c, "thaw")
                 /\ mem'[c].rows = mem[c].rows /\ mem'[c].tree = mem[c].tree
                 /\ mem'[c].containers = mem[c].containers
                 /\ mem'[c].allocated = mem[c].allocated
<1>1. /\ pc[c] = "snapshot"
      /\ UNCHANGED <<env, owner, joined, addr, link, dropped, hostDropped, db, ghosts>>
      /\ \/ Ends(c) /\ cgroup' = cgroup
         \/ /\ Tracked(c) /\ (cgroup' = cgroup \/ Freeze(D(c)))
            /\ Moves(c, "thaw", pid[c],
                     M(mem[c].rows, mem[c].containers, mem[c].tree, mem[c].allocated,
                       Container(c).frozen))
  BY SnapshotFreezeDoes DEF CommandsInv, TypedCommands
<1>2. ASSUME Moves(c, "thaw", pid[c], M(mem[c].rows, mem[c].containers, mem[c].tree,
                                        mem[c].allocated, Container(c).frozen))
      PROVE  /\ Goes(c, "thaw") /\ mem'[c].rows = mem[c].rows /\ mem'[c].tree = mem[c].tree
             /\ mem'[c].containers = mem[c].containers
             /\ mem'[c].allocated = mem[c].allocated
  BY <1>2, MovesFields
<1> QED BY <1>1, <1>2

\* The steps of a spawn that leave the memory alone.
LEMMA SpawnStartGives ==
    ASSUME CommandsInv, NEW c \in Command, SpawnStart(c)
    PROVE  /\ pc[c] = "start"
           /\ \/ /\ Others(c) /\ pc'[c] = "veth" /\ UNCHANGED <<env, args, mem, joined, addr,
                       link, cgroup, dropped, hostDropped, db, ghosts>>
                 /\ \E p \in NewPids : /\ owner' = [owner EXCEPT ![p] = D(c)] /\ pid'[c] = p
                                       /\ pid' = [pid EXCEPT ![c] = p]
              \/ Destroy(c, link[D(c)])
              \/ Ends(c) /\ UNCHANGED <<env, kernel, db, ghosts>>
BY ExitDoes DEF SpawnStart, Goto, Others, CommandsInv, TypedCommands, TypedPc

\* SpawnVeth, field by field.
LEMMA SpawnVethGives ==
    ASSUME CommandsInv, NEW c \in Command, SpawnVeth(c)
    PROVE  /\ pc[c] = "veth"
           /\ \/ /\ Goes(c, "join") /\ owner[pid[c]] = D(c) /\ mem' = mem
                 /\ link' = [link EXCEPT ![D(c)] = pid[c]]
                 /\ addr' = [addr EXCEPT ![pid[c]] = mem[c].allocated[D(c)]]
                 /\ UNCHANGED <<env, args, pid, owner, joined, cgroup, dropped, hostDropped,
                                db, ghosts>>
              \/ Destroy(c, link[D(c)])
              \/ Destroy(c, Stray)
BY DEF SpawnVeth, Goto, Goes, Others, CommandsInv, TypedCommands, TypedPc

\* The other steps end their command.
LEMMA EndsGives ==
    ASSUME CommandsInv, NEW c \in Command,
           \/ Status(c) \/ SpawnSave(c) \/ QuarantineDrop(c) \/ Unquarantine(c)
           \/ SnapshotThaw(c) \/ Crash(c)
    PROVE  Ends(c) /\ env' = env /\ pc[c] # "off" /\ (pc[c] = "save" \/ db' = db)
<1>1. Exit(c) /\ env' = env /\ pc[c] # "off"
  BY DEF Status, SpawnSave, QuarantineDrop, Unquarantine, SnapshotThaw, Crash
<1>2. pc[c] = "save" \/ db' = db
  BY DEF Status, SpawnSave, QuarantineDrop, Unquarantine, SnapshotThaw, Crash
<1> QED BY <1>1, <1>2, ExitDoes DEF CommandsInv, TypedCommands

-----------------------------------------------------------------------------
\* A snapshot or a quarantine of department d is under way.
Busy(d) == \E c \in Command : pc[c] \in {"drop", "thaw"} /\ D(c) = d

FrozenInv ==
    "crash" \notin env.faults =>
        \A d \in Dept : cgroup[d] = "frozen" => d \in held \/ Busy(d)

\* A command that is neither quarantining nor taking a snapshot moves, and no cgroup is
\* frozen anew or ceases to be held.
LEMMA FrozenKept ==
    ASSUME FrozenInv, NEW c \in Command, Others(c), pc[c] \notin {"drop", "thaw"},
           env' = env,
           \A d \in Dept : cgroup'[d] = "frozen" =>
              cgroup[d] = "frozen" /\ (d \in held => d \in held')
    PROVE  FrozenInv'
<1> SUFFICES ASSUME "crash" \notin env.faults, NEW d \in Dept,
                    cgroup'[d] = "frozen", d \notin held'
             PROVE  Busy(d)'
  BY DEF FrozenInv
<1>1. PICK b \in Command : pc[b] \in {"drop", "thaw"} /\ D(b) = d
  BY DEF FrozenInv, Busy
<1> QED BY <1>1 DEF Others, Busy, D

\* A spawn that fails leaves its cgroup as it was, or removes it (destroyFailedSpawn).
LEMMA FrozenDestroy ==
    ASSUME CommandsInv, KernelInv, FrozenInv, NEW c \in Command, NEW l, Destroy(c, l),
           pc[c] \in Spawning
    PROVE  FrozenInv'
<1>1. Others(c) /\ env' = env /\ D(c) \in Dept /\ pc[c] \notin {"drop", "thaw"}
  BY DestroyEnds, EndsFields, AboutDept DEF Spawning, Starting
<1>2. PICK gone \in BOOLEAN :
        /\ cgroup' = [cgroup EXCEPT ![D(c)] = IF gone THEN "absent" ELSE @]
        /\ held' = IF gone THEN held \ {D(c)} ELSE held
  BY DEF Destroy
<1>3. \A d \in Dept : cgroup'[d] = "frozen" => cgroup[d] = "frozen" /\ (d \in held => d \in held')
  BY <1>1, <1>2 DEF KernelInv
<1> QED BY <1>1, <1>3, FrozenKept DEF Spawning, Starting

\* Every step keeps it: a snapshot and a quarantine pass through a state of their own
\* before they are over, and nothing but a kill ends them there.
LEMMA FrozenStep ==
    ASSUME CommandsInv, KernelInv, FrozenInv, [Next]_vars
    PROVE  FrozenInv'
<1>1. ASSUME NEW c \in Command, Start(c) PROVE FrozenInv'
  <2>1. /\ Others(c) /\ pc[c] = "off"
        /\ env' = env /\ cgroup' = cgroup /\ held' = held
    BY <1>1, StartDoes DEF CommandsInv, TypedCommands, Only, Others, kernel, ghosts
  <2> QED BY <2>1, FrozenKept DEF Goes
<1>2. ASSUME NEW c \in Command, List(c) PROVE FrozenInv'
  <2>1. /\ Goes(c, "recover") /\ pc[c] = "list"
        /\ env' = env /\ cgroup' = cgroup /\ held' = held
    BY <1>2, ListGives DEF kernel, ghosts
  <2> QED BY <2>1, FrozenKept DEF Goes
<1>3. ASSUME NEW c \in Command, Recover(c) PROVE FrozenInv'
  <2>1. /\ Goes(c, "recover") /\ pc[c] = "recover"
        /\ env' = env /\ cgroup' = cgroup /\ held' = held
    BY <1>3, RecoverGives DEF kernel, ghosts
  <2> QED BY <2>1, FrozenKept DEF Goes
<1>4. ASSUME NEW c \in Command, LoadIPAM(c) PROVE FrozenInv'
  <2>1. /\ Goes(c, args[c].op) /\ pc[c] = "recover"
        /\ env' = env /\ cgroup' = cgroup /\ held' = held
    BY <1>4, LoadIPAMGives DEF kernel, ghosts
  <2> QED BY <2>1, FrozenKept DEF Goes
<1>5. ASSUME NEW c \in Command, Status(c) PROVE FrozenInv'
  <2>1. /\ Ends(c) /\ pc[c] = "status"
        /\ env' = env /\ cgroup' = cgroup /\ held' = held
    BY <1>5, EndsGives DEF Status, kernel, ghosts
  <2> QED BY <2>1, EndsFields, FrozenKept
<1>6. ASSUME NEW c \in Command, SpawnBegin(c) PROVE FrozenInv'
  <2>1. pc[c] = "spawn" /\ env' = env /\ held' = held
    BY <1>6, SpawnBeginGives DEF ghosts
  <2>2. CASE Ends(c) /\ cgroup' = cgroup
    BY <2>1, <2>2, EndsFields, FrozenKept
  <2>3. CASE Goes(c, "start") /\ cgroup' = SetupCgroup(D(c))
    <3>1. \A d \in Dept : cgroup'[d] = "frozen" => cgroup[d] = "frozen"
      BY <2>3 DEF SetupCgroup, KernelInv
    <3> QED BY <2>1, <2>3, <3>1, FrozenKept DEF Goes
  <2> QED BY <1>6, <2>2, <2>3, SpawnBeginGives
<1>7. ASSUME NEW c \in Command, SpawnStart(c) PROVE FrozenInv'
  <2>1. pc[c] = "start"
    BY <1>7, SpawnStartGives
  <2>2. CASE Destroy(c, link[D(c)])
    BY <2>1, <2>2, FrozenDestroy DEF Spawning
  <2>3. CASE (Others(c) \/ Ends(c)) /\ UNCHANGED <<env, cgroup, held>>
    BY <2>1, <2>3, EndsFields, FrozenKept
  <2> QED BY <1>7, <2>2, <2>3, SpawnStartGives DEF kernel, ghosts
<1>8. ASSUME NEW c \in Command, SpawnVeth(c) PROVE FrozenInv'
  <2>1. pc[c] = "veth"
    BY <1>8, SpawnVethGives
  <2>2. CASE Destroy(c, link[D(c)]) \/ Destroy(c, Stray)
    BY <2>1, <2>2, FrozenDestroy DEF Spawning, Starting
  <2>3. CASE Goes(c, "join") /\ UNCHANGED <<env, cgroup, held>>
    BY <2>1, <2>3, FrozenKept DEF Goes
  <2> QED BY <1>8, <2>2, <2>3, SpawnVethGives DEF ghosts
<1>9. ASSUME NEW c \in Command, SpawnJoin(c) PROVE FrozenInv'
  <2>1. pc[c] = "join"
    BY <1>9, SpawnJoinGives
  <2>2. CASE Destroy(c, link[D(c)])
    BY <2>1, <2>2, FrozenDestroy DEF Spawning, Starting
  <2>3. CASE Goes(c, "save") /\ UNCHANGED <<env, cgroup, held>>
    BY <2>1, <2>3, FrozenKept DEF Goes
  <2> QED BY <1>9, <2>2, <2>3, SpawnJoinGives
<1>10. ASSUME NEW c \in Command, SpawnSave(c) PROVE FrozenInv'
  <2>1. /\ Ends(c) /\ pc[c] = "save"
        /\ env' = env /\ cgroup' = cgroup /\ held' = held
    BY <1>10, EndsGives DEF SpawnSave, kernel, ghosts
  <2> QED BY <2>1, EndsFields, FrozenKept
<1>11. ASSUME NEW c \in Command, QuarantineFreeze(c) PROVE FrozenInv'
  <2>1. pc[c] = "quarantine" /\ env' = env /\ held' = held
    BY <1>11, QuarantineFreezeGives DEF ghosts
  <2>2. CASE Ends(c) /\ cgroup' = cgroup
    BY <2>1, <2>2, EndsFields, FrozenKept
  <2>3. CASE Goes(c, "drop") /\ Freeze(D(c))
    <3> SUFFICES ASSUME "crash" \notin env.faults, NEW d \in Dept, cgroup'[d] = "frozen",
                        d \notin held
                 PROVE  Busy(d)'
      BY <2>1 DEF FrozenInv
    <3>1. CASE d = D(c)
      BY <2>3, <3>1 DEF Busy, Goes, D
    <3>2. CASE d # D(c)
      <4>1. PICK b \in Command : pc[b] \in {"drop", "thaw"} /\ D(b) = d
        BY <2>3, <3>2 DEF FrozenInv, Busy, Freeze, KernelInv
      <4> QED BY <2>1, <2>3, <4>1 DEF Busy, Goes, Others, D
    <3> QED BY <3>1, <3>2
  <2> QED BY <1>11, <2>2, <2>3, QuarantineFreezeGives
<1>12. ASSUME NEW c \in Command, QuarantineDrop(c) PROVE FrozenInv'
  <2>1. Others(c) /\ env' = env /\ cgroup' = cgroup /\ held' = held \cup {D(c)}
    BY <1>12, EndsGives, EndsFields DEF QuarantineDrop
  <2> SUFFICES ASSUME "crash" \notin env.faults, NEW d \in Dept, cgroup'[d] = "frozen",
                      d \notin held'
               PROVE  Busy(d)'
    BY <2>1 DEF FrozenInv
  <2>2. PICK b \in Command : pc[b] \in {"drop", "thaw"} /\ D(b) = d
    BY <2>1 DEF FrozenInv, Busy
  <2> QED BY <2>1, <2>2 DEF Busy, Others, D
<1>13. ASSUME NEW c \in Command, Unquarantine(c) PROVE FrozenInv'
  <2>1. Tracked(c) => ~Container(c).quarantined
    BY DEF CommandsInv, TypedCommands, TypedMemory, MapTo, Recalled, Tracked, Container
  <2>2. pc[c] = "unquarantine" /\ cgroup' = cgroup /\ held' = held
    BY <1>13, <2>1 DEF Unquarantine
  <2>3. Others(c) /\ env' = env
    BY <1>13, EndsGives, EndsFields
  <2> QED BY <2>2, <2>3, FrozenKept
<1>14. ASSUME NEW c \in Command, SnapshotFreeze(c) PROVE FrozenInv'
  <2>1. pc[c] = "snapshot" /\ env' = env /\ held' = held
    BY <1>14, SnapshotFreezeGives DEF ghosts
  <2>2. CASE Ends(c) /\ cgroup' = cgroup
    BY <2>1, <2>2, EndsFields, FrozenKept
  <2>3. CASE Goes(c, "thaw") /\ (cgroup' = cgroup \/ Freeze(D(c)))
    <3> SUFFICES ASSUME "crash" \notin env.faults, NEW d \in Dept, cgroup'[d] = "frozen",
                        d \notin held
                 PROVE  Busy(d)'
      BY <2>1 DEF FrozenInv
    <3>1. CASE d = D(c)
      BY <2>3, <3>1 DEF Busy, Goes, D
    <3>2. CASE d # D(c)
      <4>1. PICK b \in Command : pc[b] \in {"drop", "thaw"} /\ D(b) = d
        BY <2>3, <3>2 DEF FrozenInv, Busy, Freeze, KernelInv
      <4> QED BY <2>1, <2>3, <4>1 DEF Busy, Goes, Others, D
    <3> QED BY <3>1, <3>2
  <2> QED BY <1>14, <2>2, <2>3, SnapshotFreezeGives
<1>15. ASSUME NEW c \in Command, SnapshotThaw(c) PROVE FrozenInv'
  <2>1. Others(c) /\ env' = env /\ held' = held /\ pc[c] = "thaw" /\ D(c) \in Dept
    BY <1>15, EndsGives, EndsFields, AboutDept DEF SnapshotThaw, ghosts
  <2>2. Thaw(D(c))
    BY <1>15 DEF SnapshotThaw, ThawOwn, CommandsInv, TypedCommands, TypedMemory
  <2> SUFFICES ASSUME "crash" \notin env.faults, NEW d \in Dept, cgroup'[d] = "frozen",
                      d \notin held'
               PROVE  Busy(d)'
    BY <2>1 DEF FrozenInv
  <2>3. d # D(c) /\ cgroup[d] = "frozen"
    BY <2>1, <2>2 DEF Thaw, KernelInv
  <2>4. PICK b \in Command : pc[b] \in {"drop", "thaw"} /\ D(b) = d
    BY <2>1, <2>3 DEF FrozenInv, Busy
  <2> QED BY <2>1, <2>3, <2>4 DEF Busy, Others, D
<1>16. ASSUME NEW c \in Command, Crash(c) PROVE FrozenInv'
  <2>1. "crash" \in env.faults /\ env' = env
    BY <1>16 DEF Crash
  <2> QED BY <2>1 DEF FrozenInv
<1>17. ASSUME NEW p \in Pid, ContainerDies(p) PROVE FrozenInv'
  BY <1>17 DEF ContainerDies, FrozenInv, Busy, D, procs, ghosts, kernel, vars
<1>18. ASSUME NEW p \in Pid, HostTakesPid(p) PROVE FrozenInv'
  BY <1>18 DEF HostTakesPid, FrozenInv, Busy, D, procs, ghosts, kernel, vars
<1>19. ASSUME UNCHANGED vars PROVE FrozenInv'
  BY <1>19 DEF FrozenInv, Busy, D, procs, ghosts, kernel, vars
<1> QED
  BY <1>1, <1>2, <1>3, <1>4, <1>5, <1>6, <1>7, <1>8, <1>9, <1>10, <1>11, <1>12, <1>13,
        <1>14, <1>15, <1>16, <1>17, <1>18, <1>19 DEF Next, Step

\* When no command runs, nothing is frozen but by a quarantine: a snapshot undoes its
\* freeze on every return, and destroyFailedSpawn leaves nothing frozen behind
\* (SnapshotDepartment, QuarantineDepartment).
THEOREM FreezesAreUndone == Spec => []FrozenByQuarantineOnly
<1>1. Init => CommandsInv /\ KernelInv /\ FrozenInv
  <2>1. Init => FrozenInv
    BY DEF Init, FrozenInv
  <2> QED BY <2>1, CommandsInit, KernelInit
<1>2. CommandsInv /\ KernelInv /\ FrozenInv /\ [Next]_vars
        => CommandsInv' /\ KernelInv' /\ FrozenInv'
  BY CommandsStep, KernelStep, FrozenStep
<1>3. FrozenInv => FrozenByQuarantineOnly
  BY DEF FrozenInv, Busy, FrozenByQuarantineOnly, Idle
<1> QED BY <1>1, <1>2, <1>3, PTL DEF Spec

-----------------------------------------------------------------------------
(* A command that runs alone knows what the database says.                 *)
Loaded == Operation \cup Spawning \cup {"drop", "thaw"}

DistinctRows == \A d, e \in DOMAIN db : db[d].subnet = db[e].subnet => d = e

\* The allocator of command c agrees with the database and gives no subnet twice.
LoadedWell(c) ==
    /\ \A d \in DOMAIN db : d \in DOMAIN mem[c].allocated /\ mem[c].allocated[d] = db[d].subnet
    /\ \A d, e \in DOMAIN mem[c].allocated : mem[c].allocated[d] = mem[c].allocated[e] => d = e

Alone(c) ==
    /\ pc[c] = "recover" =>
         /\ Running \subseteq DOMAIN mem[c].rows \cup DOMAIN mem[c].containers
         /\ \A d \in DOMAIN mem[c].rows : d \in DOMAIN db /\ db[d].pid = mem[c].rows[d].pid
    /\ pc[c] \in Operation => Running \subseteq DOMAIN mem[c].containers
    /\ pc[c] \in {"start", "veth", "join"} => D(c) \notin DOMAIN mem[c].containers
    /\ pc[c] \in Spawning => D(c) \notin Running
    /\ pc[c] \in Loaded => LoadedWell(c)

AloneInv == ~env.overlap => OneAtATime /\ DistinctRows /\ \A c \in Command : Alone(c)

\* Nobody else runs, so that what its own step does is all there is to see.
LEMMA AloneKept ==
    ASSUME AloneInv, NEW c \in Command, Others(c), env' = env,
           env.overlap \/ Idle \/ pc[c] # "off",
           ~env.overlap /\ OneAtATime /\ DistinctRows /\ Alone(c) => DistinctRows' /\ Alone(c)'
    PROVE  AloneInv'
<1> SUFFICES ASSUME ~env.overlap PROVE OneAtATime' /\ DistinctRows' /\ \A b \in Command : Alone(b)'
  BY DEF AloneInv
<1>1. OneAtATime /\ DistinctRows /\ Alone(c)
  BY DEF AloneInv
<1>2. \A b \in Command : b # c => pc[b] = "off" /\ pc'[b] = "off"
  BY <1>1 DEF OneAtATime, Others, Idle
<1>3. OneAtATime'
  BY <1>2 DEF OneAtATime
<1>4. ASSUME NEW b \in Command PROVE Alone(b)'
  <2>1. CASE b = c
    BY <1>1, <2>1
  <2>2. CASE b # c
    BY <1>2, <2>2 DEF Alone, Operation, Spawning, Starting, Loaded
  <2> QED BY <2>1, <2>2
<1> QED BY <1>1, <1>3, <1>4

\* A command that ends leaves nothing to be known.
LEMMA AloneEnds ==
    ASSUME AloneInv, NEW c \in Command, Ends(c), pc[c] # "off", env' = env,
           ~env.overlap /\ DistinctRows /\ Alone(c) => DistinctRows'
    PROVE  AloneInv'
<1>1. Others(c) /\ pc'[c] = "off"
  BY EndsFields
<1>2. Alone(c)'
  BY <1>1 DEF Alone, Operation, Spawning, Starting, Loaded
<1> QED BY <1>1, <1>2, AloneKept

\* The row of a new container has a subnet of its own, and the one its department had
\* (SaveDepartment, IPAM.Allocate).
LEMMA SavedRows ==
    ASSUME CommandsInv, NEW c \in Command, pc[c] = "save", LoadedWell(c), DistinctRows,
           db' = With(db, D(c), Row(c))
    PROVE  /\ DistinctRows'
           /\ \A d \in DOMAIN db : d \in DOMAIN db' /\ db'[d].subnet = db[d].subnet
<1>1. /\ Row(c).subnet = mem[c].allocated[D(c)] /\ D(c) \in DOMAIN mem[c].allocated
  BY RowTyped DEF CommandsInv, Reached, Spawning, Starting
<1>2. /\ DOMAIN db' = DOMAIN db \cup {D(c)} /\ db'[D(c)] = Row(c)
      /\ \A d \in DOMAIN db \ {D(c)} : db'[d] = db[d]
  BY DEF With
<1>3. \A d \in DOMAIN db' : d \in DOMAIN mem[c].allocated /\ db'[d].subnet = mem[c].allocated[d]
  <2> SUFFICES ASSUME NEW d \in DOMAIN db'
               PROVE  d \in DOMAIN mem[c].allocated /\ db'[d].subnet = mem[c].allocated[d]
    OBVIOUS
  <2>1. CASE d = D(c)
    BY <1>1, <1>2, <2>1
  <2>2. CASE d # D(c)
    BY <1>2, <2>2 DEF LoadedWell
  <2> QED BY <2>1, <2>2
<1>4. DistinctRows'
  BY <1>3 DEF DistinctRows, LoadedWell
<1> QED BY <1>2, <1>3, <1>4 DEF LoadedWell

\* Every step keeps it.
LEMMA AloneStep ==
    ASSUME CommandsInv, AloneInv, [Next]_vars
    PROVE  AloneInv'
<1>1. ASSUME NEW c \in Command, Start(c) PROVE AloneInv'
  <2>1. /\ Others(c) /\ env' = env /\ db' = db /\ pc'[c] = "list" /\ (env.overlap \/ Idle)
    BY <1>1, StartDoes DEF CommandsInv, TypedCommands, Only, Others
  <2>2. Alone(c)' /\ (DistinctRows => DistinctRows')
    BY <2>1 DEF Alone, Operation, Spawning, Starting, Loaded, DistinctRows
  <2> QED BY <2>1, <2>2, AloneKept
<1>2. ASSUME NEW c \in Command, List(c) PROVE AloneInv'
  <2>1. /\ Goes(c, "recover") /\ pc[c] = "list" /\ env' = env /\ db' = db
        /\ DOMAIN mem'[c].rows = Running /\ \A d \in Running : mem'[c].rows[d] = db[d]
    BY <1>2, ListGives
  <2>2. Alone(c)' /\ (DistinctRows => DistinctRows')
    BY <2>1 DEF Alone, Operation, Spawning, Starting, Loaded, DistinctRows, Goes, Running
  <2> QED BY <2>1, <2>2, AloneKept DEF Goes
<1>3. ASSUME NEW c \in Command, Recover(c) PROVE AloneInv'
  <2>1. Goes(c, "recover") /\ pc[c] = "recover" /\ env' = env
    BY <1>3, RecoverGives
  <2>2. PICK d \in DOMAIN mem[c].rows :
          /\ mem'[c].rows = Without(mem[c].rows, d)
          /\ \/ /\ db' = db
                /\ mem'[c].containers = With(mem[c].containers, d, Recovered(mem[c].rows[d].pid))
             \/ /\ db' = [db EXCEPT ![d].status = "stopped"]
                /\ mem'[c].containers = mem[c].containers
    BY <1>3, RecoverGives
  <2>3. DOMAIN mem'[c].rows = DOMAIN mem[c].rows \ {d}
        /\ \A e \in DOMAIN mem'[c].rows : mem'[c].rows[e] = mem[c].rows[e]
    BY <2>2 DEF Without
  <2>4. \/ db' = db /\ DOMAIN mem'[c].containers = DOMAIN mem[c].containers \cup {d}
        \/ db' = [db EXCEPT ![d].status = "stopped"] /\ mem'[c].containers = mem[c].containers
    BY <2>2 DEF With
  <2>5. MapTo(db, Record)
    BY DEF CommandsInv, TypedCommands
  <2>6. /\ DOMAIN db' = DOMAIN db
        /\ \A e \in DOMAIN db : db'[e].subnet = db[e].subnet /\ db'[e].pid = db[e].pid
        /\ Running' \subseteq Running
    BY <2>4, <2>5 DEF MapTo, Record, Running
  <2>7. ASSUME Alone(c) PROVE Alone(c)'
    <3>1. /\ Running \subseteq DOMAIN mem[c].rows \cup DOMAIN mem[c].containers
          /\ \A e \in DOMAIN mem[c].rows : e \in DOMAIN db /\ db[e].pid = mem[c].rows[e].pid
      BY <2>1, <2>7 DEF Alone
    <3>2. Running' \subseteq DOMAIN mem'[c].rows \cup DOMAIN mem'[c].containers
      <4>1. CASE db' = db /\ DOMAIN mem'[c].containers = DOMAIN mem[c].containers \cup {d}
        BY <2>3, <2>6, <3>1, <4>1
      <4>2. CASE /\ db' = [db EXCEPT ![d].status = "stopped"]
                 /\ mem'[c].containers = mem[c].containers
        <5>1. d \notin Running'
          BY <2>5, <3>1, <4>2 DEF Running, MapTo, Record
        <5> QED BY <2>3, <2>6, <3>1, <4>2, <5>1
      <4> QED BY <2>4, <4>1, <4>2
    <3>3. \A e \in DOMAIN mem'[c].rows : e \in DOMAIN db' /\ db'[e].pid = mem'[c].rows[e].pid
      BY <2>3, <2>6, <3>1
    <3> QED BY <2>1, <3>2, <3>3 DEF Alone, Goes, Operation, Spawning, Starting, Loaded
  <2>8. DistinctRows => DistinctRows'
    BY <2>6 DEF DistinctRows
  <2> QED BY <2>1, <2>7, <2>8, AloneKept DEF Goes
<1>4. ASSUME NEW c \in Command, LoadIPAM(c) PROVE AloneInv'
  <2>1. /\ pc[c] = "recover" /\ env' = env /\ db' = db /\ args[c].op \in Operation
        /\ Goes(c, args[c].op) /\ DOMAIN mem[c].rows = {}
        /\ mem'[c].containers = mem[c].containers /\ DOMAIN mem'[c].allocated = DOMAIN db
        /\ \A d \in DOMAIN db : mem'[c].allocated[d] = db[d].subnet
    BY <1>4, LoadIPAMGives
  <2>2. ASSUME Alone(c), DistinctRows PROVE Alone(c)'
    <3>1. LoadedWell(c)'
      BY <2>1, <2>2 DEF LoadedWell, DistinctRows
    <3>2. Running' \subseteq DOMAIN mem'[c].containers
      BY <2>1, <2>2 DEF Alone, Running
    <3> QED BY <2>1, <3>1, <3>2 DEF Alone, Goes, Operation, Spawning, Starting
  <2>3. DistinctRows => DistinctRows'
    BY <2>1 DEF DistinctRows
  <2> QED BY <2>1, <2>2, <2>3, AloneKept DEF Goes
<1>5. ASSUME NEW c \in Command, Status(c) PROVE AloneInv'
  <2>1. Ends(c) /\ env' = env /\ pc[c] # "off" /\ db' = db
    BY <1>5, EndsGives DEF Status
  <2> QED BY <2>1, AloneEnds DEF DistinctRows
<1>6. ASSUME NEW c \in Command, SpawnBegin(c) PROVE AloneInv'
  <2>1. pc[c] = "spawn" /\ env' = env /\ db' = db
    BY <1>6, SpawnBeginGives
  <2>2. CASE Ends(c)
    BY <2>1, <2>2, AloneEnds DEF DistinctRows
  <2>3. CASE /\ Goes(c, "start") /\ CanAllocate(c) /\ D(c) \notin DOMAIN mem[c].containers
             /\ mem'[c].containers = mem[c].containers
             /\ mem'[c].allocated = With(mem[c].allocated, D(c), Allocation(c))
    <3>1. ASSUME Alone(c) PROVE Alone(c)'
      <4>1. LoadedWell(c) /\ Running \subseteq DOMAIN mem[c].containers
        BY <2>1, <3>1 DEF Alone, Operation, Loaded
      <4>2. TypedMemory(mem[c])
        BY DEF CommandsInv, TypedCommands
      <4>3. /\ D(c) \in DOMAIN mem[c].allocated => Allocation(c) = mem[c].allocated[D(c)]
            /\ D(c) \notin DOMAIN mem[c].allocated =>
                  \A d \in DOMAIN mem[c].allocated : mem[c].allocated[d] # Allocation(c)
        BY <2>3, <4>2, AllocationShape
      <4>4. /\ DOMAIN mem'[c].allocated = DOMAIN mem[c].allocated \cup {D(c)}
            /\ mem'[c].allocated[D(c)] = Allocation(c)
            /\ \A d \in DOMAIN mem[c].allocated \ {D(c)} :
                  mem'[c].allocated[d] = mem[c].allocated[d]
        BY <2>3 DEF With
      <4>5. \A d \in DOMAIN mem[c].allocated : mem'[c].allocated[d] = mem[c].allocated[d]
        BY <4>3, <4>4
      <4>6. \A d \in DOMAIN db' : /\ d \in DOMAIN mem'[c].allocated
                                  /\ mem'[c].allocated[d] = db'[d].subnet
        BY <2>1, <4>1, <4>4, <4>5 DEF LoadedWell
      <4>7. ASSUME NEW d \in DOMAIN mem'[c].allocated, NEW e \in DOMAIN mem'[c].allocated,
                   mem'[c].allocated[d] = mem'[c].allocated[e]
            PROVE  d = e
        <5>1. CASE d \in DOMAIN mem[c].allocated /\ e \in DOMAIN mem[c].allocated
          BY <4>1, <4>5, <4>7, <5>1 DEF LoadedWell
        <5>2. CASE d \notin DOMAIN mem[c].allocated \/ e \notin DOMAIN mem[c].allocated
          BY <4>3, <4>4, <4>5, <4>7, <5>2
        <5> QED BY <5>1, <5>2
      <4>8. LoadedWell(c)'
        BY <4>6, <4>7 DEF LoadedWell
      <4>9. D(c)' = D(c) /\ Running' = Running /\ D(c) \notin Running
        BY <2>1, <2>3, <4>1 DEF Goes, D, Running
      <4> QED BY <2>3, <4>8, <4>9 DEF Alone, Goes, Operation, Spawning, Starting
    <3> QED BY <2>1, <2>3, <3>1, AloneKept DEF Goes, DistinctRows
  <2> QED BY <1>6, <2>2, <2>3, SpawnBeginGives
<1>7. ASSUME NEW c \in Command, SpawnStart(c) PROVE AloneInv'
  <2>1. pc[c] = "start"
    BY <1>7, SpawnStartGives
  <2>2. CASE Ends(c) /\ UNCHANGED <<env, db>>
    BY <2>1, <2>2, AloneEnds DEF DistinctRows
  <2>3. CASE Others(c) /\ pc'[c] = "veth" /\ UNCHANGED <<env, args, mem, db>>
    <3>1. ASSUME Alone(c) PROVE Alone(c)'
      BY <2>1, <2>3, <3>1 DEF Alone, LoadedWell, Goes, D, Running, Operation, Spawning,
         Starting, Loaded
    <3> QED BY <2>1, <2>3, <3>1, AloneKept DEF Goes, DistinctRows
  <2> QED BY <1>7, <2>2, <2>3, SpawnStartGives, DestroyEnds
<1>8. ASSUME NEW c \in Command, SpawnVeth(c) PROVE AloneInv'
  <2>1. pc[c] = "veth"
    BY <1>8, SpawnVethGives
  <2>2. CASE Ends(c) /\ UNCHANGED <<env, db>>
    BY <2>1, <2>2, AloneEnds DEF DistinctRows
  <2>3. CASE Goes(c, "join") /\ mem' = mem /\ UNCHANGED <<env, db>>
    <3>1. ASSUME Alone(c) PROVE Alone(c)'
      BY <2>1, <2>3, <3>1 DEF Alone, LoadedWell, Goes, D, Running, Operation, Spawning,
         Starting, Loaded
    <3> QED BY <2>1, <2>3, <3>1, AloneKept DEF Goes, DistinctRows
  <2> QED BY <1>8, <2>2, <2>3, SpawnVethGives, DestroyEnds
<1>9. ASSUME NEW c \in Command, SpawnJoin(c) PROVE AloneInv'
  <2>1. pc[c] = "join"
    BY <1>9, SpawnJoinGives
  <2>2. CASE Ends(c) /\ UNCHANGED <<env, db>>
    BY <2>1, <2>2, AloneEnds DEF DistinctRows
  <2>3. CASE /\ Goes(c, "save") /\ UNCHANGED <<env, db>>
             /\ mem'[c].allocated = mem[c].allocated
    <3>1. ASSUME Alone(c) PROVE Alone(c)'
      BY <2>1, <2>3, <3>1 DEF Alone, LoadedWell, Goes, D, Running, Operation, Spawning,
         Starting, Loaded
    <3> QED BY <2>1, <2>3, <3>1, AloneKept DEF Goes, DistinctRows
  <2> QED BY <1>9, <2>2, <2>3, SpawnJoinGives, DestroyEnds
<1>10. ASSUME NEW c \in Command, SpawnSave(c) PROVE AloneInv'
  <2>1. Ends(c) /\ env' = env /\ pc[c] = "save" /\ (db' = db \/ db' = With(db, D(c), Row(c)))
    BY <1>10, EndsGives DEF SpawnSave
  <2>2. ASSUME DistinctRows, Alone(c) PROVE DistinctRows'
    <3>1. LoadedWell(c)
      BY <2>1, <2>2 DEF Alone, Loaded, Spawning, Starting
    <3> QED BY <2>1, <2>2, <3>1, SavedRows DEF DistinctRows
  <2> QED BY <2>1, <2>2, AloneEnds
<1>11. ASSUME NEW c \in Command, QuarantineFreeze(c) PROVE AloneInv'
  <2>1. pc[c] = "quarantine" /\ env' = env /\ db' = db
    BY <1>11, QuarantineFreezeGives
  <2>2. CASE Ends(c)
    BY <2>1, <2>2, AloneEnds DEF DistinctRows
  <2>3. CASE Goes(c, "drop") /\ mem'[c].allocated = mem[c].allocated
    <3>1. ASSUME Alone(c) PROVE Alone(c)'
      BY <2>1, <2>3, <3>1 DEF Alone, LoadedWell, Goes, D, Running, Operation, Spawning,
         Starting, Loaded
    <3> QED BY <2>1, <2>3, <3>1, AloneKept DEF Goes, DistinctRows
  <2> QED BY <1>11, <2>2, <2>3, QuarantineFreezeGives
<1>12. ASSUME NEW c \in Command, QuarantineDrop(c) PROVE AloneInv'
  <2>1. Ends(c) /\ env' = env /\ pc[c] # "off" /\ db' = db
    BY <1>12, EndsGives DEF QuarantineDrop
  <2> QED BY <2>1, AloneEnds DEF DistinctRows
<1>13. ASSUME NEW c \in Command, Unquarantine(c) PROVE AloneInv'
  <2>1. Ends(c) /\ env' = env /\ pc[c] # "off" /\ db' = db
    BY <1>13, EndsGives DEF Unquarantine
  <2> QED BY <2>1, AloneEnds DEF DistinctRows
<1>14. ASSUME NEW c \in Command, SnapshotFreeze(c) PROVE AloneInv'
  <2>1. pc[c] = "snapshot" /\ env' = env /\ db' = db
    BY <1>14, SnapshotFreezeGives
  <2>2. CASE Ends(c)
    BY <2>1, <2>2, AloneEnds DEF DistinctRows
  <2>3. CASE Goes(c, "thaw") /\ mem'[c].allocated = mem[c].allocated
    <3>1. ASSUME Alone(c) PROVE Alone(c)'
      BY <2>1, <2>3, <3>1 DEF Alone, LoadedWell, Goes, D, Running, Operation, Spawning,
         Starting, Loaded
    <3> QED BY <2>1, <2>3, <3>1, AloneKept DEF Goes, DistinctRows
  <2> QED BY <1>14, <2>2, <2>3, SnapshotFreezeGives
<1>15. ASSUME NEW c \in Command, SnapshotThaw(c) PROVE AloneInv'
  <2>1. Ends(c) /\ env' = env /\ pc[c] # "off" /\ db' = db
    BY <1>15, EndsGives DEF SnapshotThaw
  <2> QED BY <2>1, AloneEnds DEF DistinctRows
<1>16. ASSUME NEW c \in Command, Crash(c) PROVE AloneInv'
  <2>1. Ends(c) /\ env' = env /\ pc[c] # "off" /\ db' = db
    BY <1>16, EndsGives DEF Crash
  <2> QED BY <2>1, AloneEnds DEF DistinctRows
<1>17. ASSUME NEW p \in Pid, ContainerDies(p) PROVE AloneInv'
  BY <1>17 DEF ContainerDies, AloneInv, OneAtATime, DistinctRows, Alone, LoadedWell, Running,
     D, procs, vars
<1>18. ASSUME NEW p \in Pid, HostTakesPid(p) PROVE AloneInv'
  BY <1>18 DEF HostTakesPid, AloneInv, OneAtATime, DistinctRows, Alone, LoadedWell, Running,
     D, procs, vars
<1>19. ASSUME UNCHANGED vars PROVE AloneInv'
  BY <1>19 DEF AloneInv, OneAtATime, DistinctRows, Alone, LoadedWell, Running, D, procs, vars
<1> QED
  BY <1>1, <1>2, <1>3, <1>4, <1>5, <1>6, <1>7, <1>8, <1>9, <1>10, <1>11, <1>12, <1>13,
        <1>14, <1>15, <1>16, <1>17, <1>18, <1>19 DEF Next, Step

\* Nothing runs and nothing is in the database at first.
LEMMA AloneInit == Init => AloneInv
BY DEF Init, AloneInv, OneAtATime, DistinctRows, Alone, Empty, Operation, Spawning, Starting,
   Loaded

\* A department keeps its subnet for good, if commands run one after another: the rows are
\* never deleted, and the allocator each command rebuilds from them gives a department the
\* subnet it has (loadFromDB, IPAM.Allocate, SaveDepartment).
THEOREM SubnetsAreKept == Spec => SubnetsSurvive
<1>1. Init => CommandsInv /\ AloneInv
  BY CommandsInit, AloneInit
<1>2. CommandsInv /\ AloneInv /\ [Next]_vars => CommandsInv' /\ AloneInv'
  BY CommandsStep, AloneStep
<1> DEFINE Kept == ~env.overlap =>
                     \A d \in DOMAIN db : d \in DOMAIN db' /\ db'[d].subnet = db[d].subnet
<1>3. CommandsInv /\ AloneInv /\ [Next]_vars => [Kept]_vars
  <2> SUFFICES ASSUME CommandsInv, AloneInv, Next, ~env.overlap
               PROVE  \A d \in DOMAIN db : d \in DOMAIN db' /\ db'[d].subnet = db[d].subnet
    OBVIOUS
  <2>1. CASE db' = db
    BY <2>1
  <2>2. ASSUME NEW c \in Command, Recover(c)
        PROVE  \A d \in DOMAIN db : d \in DOMAIN db' /\ db'[d].subnet = db[d].subnet
    <3>1. PICK d : db' = db \/ db' = [db EXCEPT ![d].status = "stopped"]
      BY <2>2, RecoverGives
    <3>2. \A e \in DOMAIN db : db[e] \in Record
      BY DEF CommandsInv, TypedCommands, MapTo
    <3> QED BY <3>1, <3>2 DEF Record
  <2>3. ASSUME NEW c \in Command, SpawnSave(c), db' # db
        PROVE  \A d \in DOMAIN db : d \in DOMAIN db' /\ db'[d].subnet = db[d].subnet
    <3>1. pc[c] = "save" /\ db' = With(db, D(c), Row(c))
      BY <2>3 DEF SpawnSave
    <3>2. LoadedWell(c) /\ DistinctRows
      BY <3>1 DEF AloneInv, Alone, Loaded, Spawning, Starting
    <3> QED BY <3>1, <3>2, SavedRows
  <2>4. ASSUME NEW c \in Command, Step(c), ~Recover(c), ~SpawnSave(c) PROVE db' = db
    BY <2>4, DestroyEnds
       DEF Step, Start, List, LoadIPAM, Status, SpawnBegin, SpawnStart, SpawnVeth, SpawnJoin,
           QuarantineFreeze, QuarantineDrop, Unquarantine, SnapshotFreeze, SnapshotThaw, Crash
  <2>5. ASSUME NEW p \in Pid, ContainerDies(p) \/ HostTakesPid(p) PROVE db' = db
    BY <2>5 DEF ContainerDies, HostTakesPid
  <2> QED BY <2>1, <2>2, <2>3, <2>4, <2>5 DEF Next
<1> QED BY <1>1, <1>2, <1>3, PTL DEF Spec, SubnetsSurvive

-----------------------------------------------------------------------------
(* Where rows are not lost, a living container is in its row or in the      *)
(* hands of the command that starts it.                                    *)
InRow(p) ==
    owner[p] \in Running /\ db[owner[p]].pid = p /\ db[owner[p]].subnet = addr[p]

InSpawn(p, c) ==
    /\ pid[c] = p /\ D(c) = owner[p] /\ pc[c] \in Starting
    /\ addr[p] = IF pc[c] = "veth" THEN 0 ELSE mem[c].allocated[D(c)]

Known(p) == InRow(p) \/ \E c \in Command : InSpawn(p, c)

KnownInv == ~LosesRows => \A p \in Pid : owner[p] \in Dept => Known(p)

\* A command without a child moves.
LEMMA KnownKept ==
    ASSUME KnownInv, NEW c \in Command, Others(c), pc[c] \notin Starting,
           UNCHANGED <<env, owner, addr, db>>
    PROVE  KnownInv'
<1> SUFFICES ASSUME ~LosesRows, NEW p \in Pid, owner[p] \in Dept PROVE Known(p)'
  BY DEF KnownInv, LosesRows
<1>1. Known(p)
  BY DEF KnownInv
<1>2. InRow(p) => InRow(p)'
  BY DEF InRow, Running
<1>3. ASSUME NEW b \in Command, InSpawn(p, b) PROVE InSpawn(p, b)'
  BY <1>3 DEF InSpawn, Others, D
<1> QED BY <1>1, <1>2, <1>3 DEF Known

\* The child of a spawn that fails is gone (destroyFailedSpawn).
LEMMA KnownDestroy ==
    ASSUME CommandsInv, KernelInv, KnownInv, NEW c \in Command, NEW l, Destroy(c, l),
           pc[c] # "off"
    PROVE  KnownInv'
<1> SUFFICES ASSUME ~LosesRows', NEW p \in Pid, owner'[p] \in Dept PROVE Known(p)'
  BY DEF KnownInv
<1>1. /\ Others(c) /\ env' = env /\ db' = db /\ D(c) \in Dept /\ Free \notin Dept
      /\ pid[c] \in Pid \cup {NoPid} /\ NoPid \notin Pid
  BY DestroyEnds, EndsFields, AboutDept, DepartmentsAssumption
     DEF Free, CommandsInv, TypedCommands, TypedPc
<1>2. \/ /\ pid[c] \in Pid /\ owner[pid[c]] = D(c)
         /\ owner' = [owner EXCEPT ![pid[c]] = Free] /\ addr' = [addr EXCEPT ![pid[c]] = 0]
      \/ UNCHANGED <<owner, addr>> /\ ~(pid[c] # NoPid /\ owner[pid[c]] = D(c))
  BY <1>1 DEF Destroy, Vanish
<1>3. /\ owner'[p] = owner[p] /\ addr'[p] = addr[p]
      /\ p = pid[c] => owner[p] # D(c)
  BY <1>1, <1>2 DEF KernelInv
<1>4. Known(p)
  BY <1>1, <1>3 DEF KnownInv, LosesRows
<1>5. InRow(p) => InRow(p)'
  BY <1>1, <1>3 DEF InRow, Running
<1>6. ASSUME NEW b \in Command, InSpawn(p, b) PROVE InSpawn(p, b)'
  <2>1. b # c
    BY <1>3, <1>6 DEF InSpawn
  <2> QED BY <1>1, <1>3, <1>6, <2>1 DEF InSpawn, Others, D
<1> QED BY <1>4, <1>5, <1>6 DEF Known

\* Every step keeps it.
LEMMA KnownStep ==
    ASSUME CommandsInv, KernelInv, AloneInv, KnownInv, [Next]_vars
    PROVE  KnownInv'
<1>1. ASSUME NEW c \in Command, Start(c) PROVE KnownInv'
  <2>1. /\ Others(c) /\ pc[c] = "off" /\ UNCHANGED <<env, owner, addr, db>>
    BY <1>1, StartDoes DEF CommandsInv, TypedCommands, Only, Others, kernel
  <2> QED BY <2>1, KnownKept DEF Goes, Starting
<1>2. ASSUME NEW c \in Command, List(c) PROVE KnownInv'
  <2>1. /\ Goes(c, "recover") /\ pc[c] = "list" /\ UNCHANGED <<env, owner, addr, db>>
    BY <1>2, ListGives DEF kernel
  <2> QED BY <2>1, KnownKept DEF Goes, Starting
<1>3. ASSUME NEW c \in Command, Recover(c) PROVE KnownInv'
  <2>1. Goes(c, "recover") /\ pc[c] = "recover" /\ UNCHANGED <<env, owner, addr>>
    BY <1>3, RecoverGives DEF kernel
  <2>2. PICK d \in DOMAIN mem[c].rows :
          \/ db' = db
          \/ db' = [db EXCEPT ![d].status = "stopped"] /\ ~Alive(mem[c].rows[d].pid)
    BY <1>3, RecoverGives
  <2>3. CASE db' = db
    BY <2>1, <2>3, KnownKept DEF Goes, Starting
  <2>4. CASE db' = [db EXCEPT ![d].status = "stopped"] /\ ~Alive(mem[c].rows[d].pid)
    <3> SUFFICES ASSUME ~LosesRows, NEW p \in Pid, owner[p] \in Dept PROVE Known(p)'
      BY <2>1 DEF KnownInv, LosesRows
    <3>1. Known(p) /\ Free \notin Dept
      BY DepartmentsAssumption DEF KnownInv, Free
    <3>2. db[d].pid = mem[c].rows[d].pid
      BY <2>1 DEF AloneInv, LosesRows, Alone
    <3>3. ASSUME InRow(p) PROVE InRow(p)'
      <4>1. owner[p] # d
        BY <2>4, <3>1, <3>2, <3>3 DEF InRow, Alive
      <4>2. owner[p] \in DOMAIN db' /\ db'[owner[p]] = db[owner[p]]
        BY <2>4, <3>3, <4>1 DEF InRow, Running
      <4> QED BY <2>1, <3>3, <4>2 DEF InRow, Running
    <3>4. ASSUME NEW b \in Command, InSpawn(p, b) PROVE InSpawn(p, b)'
      BY <2>1, <3>4 DEF InSpawn, Goes, Others, D, Starting
    <3> QED BY <3>1, <3>3, <3>4 DEF Known
  <2> QED BY <2>2, <2>3, <2>4
<1>4. ASSUME NEW c \in Command, LoadIPAM(c) PROVE KnownInv'
  <2>1. /\ Goes(c, args[c].op) /\ pc[c] = "recover" /\ UNCHANGED <<env, owner, addr, db>>
    BY <1>4, LoadIPAMGives DEF kernel
  <2> QED BY <2>1, KnownKept DEF Goes, Starting
<1>5. ASSUME NEW c \in Command, Status(c) PROVE KnownInv'
  <2>1. /\ Ends(c) /\ pc[c] = "status" /\ UNCHANGED <<env, owner, addr, db>>
    BY <1>5, EndsGives DEF Status, kernel
  <2> QED BY <2>1, EndsFields, KnownKept DEF Starting
<1>6. ASSUME NEW c \in Command, SpawnBegin(c) PROVE KnownInv'
  <2>1. pc[c] = "spawn" /\ UNCHANGED <<env, owner, addr, db>>
    BY <1>6, SpawnBeginGives
  <2>2. Others(c)
    BY <1>6, SpawnBeginGives, EndsFields DEF Goes
  <2> QED BY <2>1, <2>2, KnownKept DEF Starting
<1>7. ASSUME NEW c \in Command, SpawnStart(c) PROVE KnownInv'
  <2>1. pc[c] = "start" /\ D(c) \in Dept
    BY <1>7, SpawnStartGives, AboutDept
  <2>2. CASE Destroy(c, link[D(c)])
    BY <2>1, <2>2, KnownDestroy
  <2>3. CASE Ends(c) /\ UNCHANGED <<env, kernel, db>>
    BY <2>1, <2>3, EndsFields, KnownKept DEF Starting, kernel
  <2>4. ASSUME NEW q \in NewPids, owner' = [owner EXCEPT ![q] = D(c)], pid'[c] = q,
               Others(c), pc'[c] = "veth", UNCHANGED <<env, args, mem, addr, db>>
        PROVE  KnownInv'
    <3> SUFFICES ASSUME ~LosesRows, NEW p \in Pid, owner'[p] \in Dept PROVE Known(p)'
      BY <2>4 DEF KnownInv, LosesRows
    <3>1. q \in Pid /\ owner[q] = Free /\ Free \notin Dept
      BY DepartmentsAssumption DEF NewPids, Alive, Free
    <3>2. CASE p = q
      <4>1. addr[q] = 0
        BY <3>1 DEF KernelInv
      <4>2. owner'[q] = D(c)
        BY <2>4, <3>1 DEF KernelInv
      <4>3. InSpawn(p, c)'
        BY <2>4, <3>2, <4>1, <4>2 DEF InSpawn, D, Starting
      <4> QED BY <4>3 DEF Known
    <3>3. CASE p # q
      <4>1. owner'[p] = owner[p]
        BY <2>4, <3>3 DEF KernelInv
      <4>2. Known(p)
        BY <4>1 DEF KnownInv
      <4>3. InRow(p) => InRow(p)'
        BY <2>4, <4>1 DEF InRow, Running
      <4>4. ASSUME NEW b \in Command, InSpawn(p, b) PROVE InSpawn(p, b)'
        BY <2>1, <2>4, <4>1, <4>4 DEF InSpawn, Others, D, Starting
      <4> QED BY <4>2, <4>3, <4>4 DEF Known
    <3> QED BY <3>2, <3>3
  <2> QED BY <1>7, <2>2, <2>3, <2>4, SpawnStartGives
<1>8. ASSUME NEW c \in Command, SpawnVeth(c) PROVE KnownInv'
  <2>1. pc[c] = "veth" /\ D(c) \in Dept
    BY <1>8, SpawnVethGives, AboutDept
  <2>2. CASE Destroy(c, link[D(c)]) \/ Destroy(c, Stray)
    BY <2>1, <2>2, KnownDestroy
  <2>3. CASE /\ Goes(c, "join") /\ owner[pid[c]] = D(c) /\ mem' = mem
             /\ addr' = [addr EXCEPT ![pid[c]] = mem[c].allocated[D(c)]]
             /\ UNCHANGED <<env, args, pid, owner, db>>
    <3> SUFFICES ASSUME ~LosesRows, NEW p \in Pid, owner[p] \in Dept PROVE Known(p)'
      BY <2>3 DEF KnownInv, LosesRows
    <3>1. CASE p = pid[c]
      <4>1. addr'[p] = mem[c].allocated[D(c)]
        BY <2>3, <3>1 DEF KernelInv
      <4>2. InSpawn(p, c)'
        BY <2>3, <3>1, <4>1 DEF InSpawn, Goes, D, Starting
      <4> QED BY <4>2 DEF Known
    <3>2. CASE p # pid[c]
      <4>1. addr'[p] = addr[p] /\ Known(p)
        BY <2>3, <3>2 DEF KernelInv, KnownInv
      <4>2. InRow(p) => InRow(p)'
        BY <2>3, <4>1 DEF InRow, Running
      <4>3. ASSUME NEW b \in Command, InSpawn(p, b) PROVE InSpawn(p, b)'
        BY <2>3, <3>2, <4>1, <4>3 DEF InSpawn, Goes, Others, D
      <4> QED BY <4>1, <4>2, <4>3 DEF Known
    <3> QED BY <3>1, <3>2
  <2> QED BY <1>8, <2>2, <2>3, SpawnVethGives
<1>9. ASSUME NEW c \in Command, SpawnJoin(c) PROVE KnownInv'
  <2>1. pc[c] = "join" /\ D(c) \in Dept
    BY <1>9, SpawnJoinGives, AboutDept
  <2>2. CASE Destroy(c, link[D(c)])
    BY <2>1, <2>2, KnownDestroy
  <2>3. CASE /\ Goes(c, "save") /\ UNCHANGED <<env, owner, addr, db>>
             /\ mem'[c].allocated = mem[c].allocated
    <3> SUFFICES ASSUME ~LosesRows, NEW p \in Pid, owner[p] \in Dept PROVE Known(p)'
      BY <2>3 DEF KnownInv, LosesRows
    <3>1. Known(p) /\ (InRow(p) => InRow(p)')
      BY <2>3 DEF KnownInv, InRow, Running
    <3>2. ASSUME NEW b \in Command, InSpawn(p, b) PROVE InSpawn(p, b)'
      BY <2>1, <2>3, <3>2 DEF InSpawn, Goes, Others, D, Starting
    <3> QED BY <3>1, <3>2 DEF Known
  <2> QED BY <1>9, <2>2, <2>3, SpawnJoinGives
<1>10. ASSUME NEW c \in Command, SpawnSave(c) PROVE KnownInv'
  <2>1. /\ Ends(c) /\ pc[c] = "save" /\ UNCHANGED <<env, owner, addr>>
        /\ db' = With(db, D(c), Row(c)) \/ "save" \in env.faults
    BY <1>10, EndsGives DEF SpawnSave, kernel
  <2> SUFFICES ASSUME ~LosesRows, NEW p \in Pid, owner[p] \in Dept PROVE Known(p)'
    BY <2>1 DEF KnownInv, LosesRows
  <2>2. db' = With(db, D(c), Row(c))
    BY <2>1 DEF LosesRows
  <2>3. /\ DOMAIN db' = DOMAIN db \cup {D(c)} /\ db'[D(c)] = Row(c)
        /\ \A d \in DOMAIN db \ {D(c)} : db'[d] = db[d]
    BY <2>2 DEF With
  <2>4. Row(c).status = "running" /\ Row(c).pid = pid[c] /\ Row(c).subnet = mem[c].allocated[D(c)]
    BY <2>1, RowTyped
  <2>5. D(c) \notin Running /\ Known(p) /\ Others(c)
    BY <2>1, EndsFields DEF KnownInv, AloneInv, Alone, LosesRows, Spawning, Starting
  <2>6. ASSUME InRow(p) PROVE InRow(p)'
    <3>1. owner[p] # D(c)
      BY <2>5, <2>6 DEF InRow
    <3> QED BY <2>1, <2>3, <2>6, <3>1 DEF InRow, Running
  <2>7. ASSUME InSpawn(p, c) PROVE InRow(p)'
    <3>1. pid[c] = p /\ D(c) = owner[p] /\ addr[p] = mem[c].allocated[D(c)]
      BY <2>1, <2>7 DEF InSpawn
    <3> QED BY <2>1, <2>3, <2>4, <3>1 DEF InRow, Running
  <2>8. ASSUME NEW b \in Command, b # c, InSpawn(p, b) PROVE InSpawn(p, b)'
    BY <2>1, <2>5, <2>8 DEF InSpawn, Others, D
  <2> QED BY <2>5, <2>6, <2>7, <2>8 DEF Known
<1>11. ASSUME NEW c \in Command, QuarantineFreeze(c) PROVE KnownInv'
  <2>1. pc[c] = "quarantine" /\ UNCHANGED <<env, owner, addr, db>>
    BY <1>11, QuarantineFreezeGives
  <2>2. Others(c)
    BY <1>11, QuarantineFreezeGives, EndsFields DEF Goes
  <2> QED BY <2>1, <2>2, KnownKept DEF Starting
<1>12. ASSUME NEW c \in Command, QuarantineDrop(c) PROVE KnownInv'
  <2>1. /\ Ends(c) /\ pc[c] = "drop" /\ UNCHANGED <<env, owner, addr, db>>
    BY <1>12, EndsGives DEF QuarantineDrop, kernel
  <2> QED BY <2>1, EndsFields, KnownKept DEF Starting
<1>13. ASSUME NEW c \in Command, Unquarantine(c) PROVE KnownInv'
  <2>1. /\ Ends(c) /\ pc[c] = "unquarantine" /\ UNCHANGED <<env, owner, addr, db>>
    BY <1>13, EndsGives DEF Unquarantine, kernel
  <2> QED BY <2>1, EndsFields, KnownKept DEF Starting
<1>14. ASSUME NEW c \in Command, SnapshotFreeze(c) PROVE KnownInv'
  <2>1. pc[c] = "snapshot" /\ UNCHANGED <<env, owner, addr, db>>
    BY <1>14, SnapshotFreezeGives
  <2>2. Others(c)
    BY <1>14, SnapshotFreezeGives, EndsFields DEF Goes
  <2> QED BY <2>1, <2>2, KnownKept DEF Starting
<1>15. ASSUME NEW c \in Command, SnapshotThaw(c) PROVE KnownInv'
  <2>1. /\ Ends(c) /\ pc[c] = "thaw" /\ UNCHANGED <<env, owner, addr, db>>
    BY <1>15, EndsGives DEF SnapshotThaw, kernel
  <2> QED BY <2>1, EndsFields, KnownKept DEF Starting
<1>16. ASSUME NEW c \in Command, Crash(c) PROVE KnownInv'
  <2>1. "crash" \in env.faults /\ env' = env
    BY <1>16 DEF Crash
  <2> QED BY <2>1 DEF KnownInv, LosesRows
<1>17. ASSUME NEW p \in Pid, ContainerDies(p) PROVE KnownInv'
  <2>1. /\ owner' = [owner EXCEPT ![p] = Free] /\ addr' = [addr EXCEPT ![p] = 0]
        /\ UNCHANGED <<env, db, pc, args, pid, mem>> /\ Free \notin Dept
    BY <1>17, DepartmentsAssumption DEF ContainerDies, Vanish, procs, Free
  <2> SUFFICES ASSUME ~LosesRows, NEW q \in Pid, owner'[q] \in Dept PROVE Known(q)'
    BY <2>1 DEF KnownInv, LosesRows
  <2>2. owner'[q] = owner[q] /\ addr'[q] = addr[q]
    BY <2>1 DEF KernelInv
  <2> QED BY <2>1, <2>2 DEF KnownInv, Known, InRow, InSpawn, Running, D
<1>18. ASSUME NEW p \in Pid, HostTakesPid(p) PROVE KnownInv'
  <2>1. /\ owner' = [owner EXCEPT ![p] = Host]
        /\ UNCHANGED <<env, db, addr, pc, args, pid, mem>> /\ Host \notin Dept
    BY <1>18, DepartmentsAssumption DEF HostTakesPid, procs, Host
  <2> SUFFICES ASSUME ~LosesRows, NEW q \in Pid, owner'[q] \in Dept PROVE Known(q)'
    BY <2>1 DEF KnownInv, LosesRows
  <2>2. owner'[q] = owner[q]
    BY <2>1 DEF KernelInv
  <2> QED BY <2>1, <2>2 DEF KnownInv, Known, InRow, InSpawn, Running, D
<1>19. ASSUME UNCHANGED vars PROVE KnownInv'
  BY <1>19 DEF KnownInv, LosesRows, Known, InRow, InSpawn, Running, D, procs, kernel, vars
<1> QED
  BY <1>1, <1>2, <1>3, <1>4, <1>5, <1>6, <1>7, <1>8, <1>9, <1>10, <1>11, <1>12, <1>13,
        <1>14, <1>15, <1>16, <1>17, <1>18, <1>19 DEF Next, Step

KnowledgeInv == CommandsInv /\ KernelInv /\ AloneInv /\ KnownInv

\* The four invariants hold at first and are kept together.
LEMMA KnowledgeIsKept ==
    (Init => KnowledgeInv) /\ (KnowledgeInv /\ [Next]_vars => KnowledgeInv')
<1>1. Init => KnownInv
  BY DepartmentsAssumption DEF Init, KnownInv, Free
<1>2. Init => KnowledgeInv
  BY <1>1, CommandsInit, KernelInit, AloneInit DEF KnowledgeInv
<1>3. KnowledgeInv /\ [Next]_vars => KnowledgeInv'
  BY CommandsStep, KernelStep, AloneStep, KnownStep DEF KnowledgeInv
<1> QED BY <1>2, <1>3

\* Between commands that run one after another and save their rows, a living container is
\* what its department's row says, and the next command finds it by that row
\* (persistSpawnState, recoverRunningDepartments, destroyFailedSpawn).
THEOREM ContainersAreKnown == Spec => []EveryContainerIsKnown
<1>1. KnowledgeInv => EveryContainerIsKnown
  <2> SUFFICES ASSUME KnowledgeInv, Idle, ~LosesRows, NEW p \in Pid, owner[p] \in Dept
               PROVE  InRow(p)
    BY DEF EveryContainerIsKnown, InRow, Running
  <2>1. Known(p)
    BY DEF KnowledgeInv, KnownInv
  <2>2. \A c \in Command : ~InSpawn(p, c)
    BY DEF Idle, InSpawn, Starting
  <2> QED BY <2>1, <2>2 DEF Known
<1> QED BY <1>1, KnowledgeIsKept, PTL DEF Spec

\* Commands that run one after another never give two departments one subnet, in the
\* database or, if no row is lost, on the wire (IPAM.Allocate, setupVethPair).
THEOREM SubnetsDiffer == Spec => []SubnetsAreDistinct
<1>1. KnowledgeInv => SubnetsAreDistinct
  <2> SUFFICES ASSUME KnowledgeInv PROVE SubnetsAreDistinct
    OBVIOUS
  <2>1. ~env.overlap => \A d, e \in DOMAIN db : db[d].subnet = db[e].subnet => d = e
    BY DEF KnowledgeInv, AloneInv, DistinctRows
  <2>2. ASSUME ~LosesRows, NEW p \in Pid, NEW q \in Pid, addr[p] = addr[q], addr[p] # 0
        PROVE  p = q
    <3>1. Known(p) /\ Known(q)
      BY <2>2 DEF KnowledgeInv, KernelInv, KnownInv
    <3>2. OneAtATime /\ DistinctRows /\ \A c \in Command : Alone(c)
      BY <2>2 DEF KnowledgeInv, AloneInv, LosesRows
    <3>3. ASSUME NEW r \in {p, q}, NEW s \in {p, q}, InRow(r), NEW c \in Command, InSpawn(s, c)
          PROVE  FALSE
      <4>1. pc[c] \in {"join", "save"} /\ addr[s] = mem[c].allocated[D(c)]
        BY <2>2, <3>3 DEF InSpawn, Starting
      <4>2. LoadedWell(c) /\ D(c) \notin Running
        BY <3>2, <4>1 DEF Alone, Loaded, Spawning, Starting
      <4>3. /\ owner[r] \in Running /\ owner[r] \in DOMAIN mem[c].allocated
            /\ mem[c].allocated[owner[r]] = addr[r]
        BY <3>3, <4>2 DEF InRow, Running, LoadedWell
      <4>4. D(c) \in DOMAIN mem[c].allocated
        BY <4>1 DEF KnowledgeInv, CommandsInv, Reached, Spawning, Starting
      <4>5. addr[r] = addr[s]
        BY <2>2, <3>3
      <4> QED BY <4>1, <4>2, <4>3, <4>4, <4>5 DEF LoadedWell
    <3>4. CASE InRow(p) /\ InRow(q)
      BY <2>2, <3>2, <3>4 DEF InRow, Running, DistinctRows
    <3>5. CASE \E b, c \in Command : InSpawn(p, b) /\ InSpawn(q, c)
      <4>1. PICK b \in Command, c \in Command : InSpawn(p, b) /\ InSpawn(q, c)
        BY <3>5
      <4>2. b = c
        BY <2>2, <3>2, <4>1 DEF OneAtATime, LosesRows, InSpawn, Starting
      <4> QED BY <4>1, <4>2 DEF InSpawn
    <3> QED BY <3>1, <3>3, <3>4, <3>5 DEF Known
  <2> QED BY <2>1, <2>2 DEF SubnetsAreDistinct
<1> QED BY <1>1, KnowledgeIsKept, PTL DEF Spec

-----------------------------------------------------------------------------
(* Whoever a department is known by is in the department's cgroup.         *)
JoinedRows == \A d \in Running : owner[db[d].pid] = d => db[d].pid \in joined

JoinedMemory(c) ==
    /\ \A d \in DOMAIN mem[c].rows :
          owner[mem[c].rows[d].pid] = d => mem[c].rows[d].pid \in joined
    /\ \A d \in DOMAIN mem[c].containers :
          owner[mem[c].containers[d].pid] = d => mem[c].containers[d].pid \in joined
    /\ pc[c] = "save" /\ owner[pid[c]] = D(c) => pid[c] \in joined

JoinedInv == JoinedRows /\ \A c \in Command : JoinedMemory(c)

\* No init that was a department's goes out of its cgroup but by its end.
Stays ==
    \A p \in Pid : owner'[p] \in Dept => owner'[p] = owner[p] /\ (p \in joined => p \in joined')

\* A command moves and learns nothing new.
LEMMA JoinedKept ==
    ASSUME CommandsInv, JoinedInv, NEW c \in Command, Others(c), Stays, db' = db, JoinedMemory(c)'
    PROVE  JoinedInv'
<1>1. JoinedRows'
  BY DEF JoinedInv, JoinedRows, Running, Stays, CommandsInv, TypedCommands, MapTo, Record
<1>2. ASSUME NEW b \in Command, b # c PROVE JoinedMemory(b)'
  <2>1. /\ MapTo(mem[b].rows, Record) /\ MapTo(mem[b].containers, Recalled) /\ JoinedMemory(b)
        /\ pc[b] = "save" => pid[b] \in Pid /\ D(b) \in Dept
        /\ mem'[b] = mem[b] /\ pc'[b] = pc[b] /\ pid'[b] = pid[b] /\ D(b)' = D(b)
    BY <1>2, AboutDept
       DEF CommandsInv, TypedCommands, TypedMemory, JoinedInv, Reached, Starting, Others, D
  <2>2. \A d \in DOMAIN mem[b].rows : d \in Dept /\ mem[b].rows[d].pid \in Pid
    BY <2>1 DEF MapTo, Record
  <2>3. \A d \in DOMAIN mem[b].containers : d \in Dept /\ mem[b].containers[d].pid \in Pid
    BY <2>1 DEF MapTo, Recalled
  <2> QED BY <2>1, <2>2, <2>3 DEF JoinedMemory, Stays
<1> QED BY <1>1, <1>2 DEF JoinedInv

\* A command that ends remembers nothing.
LEMMA JoinedEnds ==
    ASSUME CommandsInv, JoinedInv, NEW c \in Command, Ends(c), Stays, db' = db
    PROVE  JoinedInv'
<1>1. Others(c) /\ JoinedMemory(c)'
  BY EndsFields, NoMemoryTyped DEF JoinedMemory
<1> QED BY <1>1, JoinedKept

\* The end of an init takes it out of its cgroup only (destroyFailedSpawn).
LEMMA DestroyStays ==
    ASSUME KernelInv, NEW c \in Command, NEW l, Destroy(c, l)
    PROVE  Stays
<1>1. Free \notin Dept
  BY DepartmentsAssumption DEF Free
<1>2. \/ \E p : owner' = [owner EXCEPT ![p] = Free] /\ joined' = joined \ {p}
      \/ UNCHANGED <<owner, joined>>
  BY DEF Destroy, Vanish
<1> QED BY <1>1, <1>2 DEF Stays, KernelInv

\* A new process number is none that anybody remembers, or nobody else runs and the
\* command has found no container of its department.
LEMMA NewPidsAreNew ==
    ASSUME CommandsInv, AloneInv, NEW c \in Command, pc[c] = "start", env.reuse => ~env.overlap,
           NEW p \in NewPids
    PROVE  /\ \A d \in Running : d = D(c) => db[d].pid # p
           /\ \A b \in Command :
                /\ \A d \in DOMAIN mem[b].rows : d = D(c) => mem[b].rows[d].pid # p
                /\ \A d \in DOMAIN mem[b].containers : d = D(c) => mem[b].containers[d].pid # p
                /\ b # c => pid[b] # p
<1>1. CASE ~env.reuse
  BY <1>1 DEF NewPids, Remembered, Running
<1>2. CASE env.reuse
  <2>1. D(c) \notin Running /\ D(c) \notin DOMAIN mem[c].containers /\ DOMAIN mem[c].rows = {}
    BY <1>2 DEF AloneInv, Alone, Spawning, CommandsInv, Reached
  <2>2. \A b \in Command : b # c => pc[b] = "off" /\ mem[b] = NoMemory /\ pid[b] = NoPid
    BY <1>2 DEF AloneInv, OneAtATime, CommandsInv, Reached
  <2>3. p # NoPid
    BY DepartmentsAssumption DEF NewPids
  <2> QED BY <2>1, <2>2, <2>3, NoMemoryTyped
<1> QED BY <1>1, <1>2

\* The host moves.
LEMMA JoinedSame ==
    ASSUME CommandsInv, JoinedInv, Stays, UNCHANGED <<db, pc, args, pid, mem>>
    PROVE  JoinedInv'
<1>1. ASSUME NEW c \in Command PROVE JoinedInv'
  <2>1. /\ MapTo(mem[c].rows, Record) /\ MapTo(mem[c].containers, Recalled) /\ JoinedMemory(c)
        /\ pc[c] = "save" => pid[c] \in Pid /\ D(c) \in Dept
    BY AboutDept DEF CommandsInv, TypedCommands, TypedMemory, JoinedInv, Reached, Starting
  <2>2. \A d \in DOMAIN mem[c].rows : d \in Dept /\ mem[c].rows[d].pid \in Pid
    BY <2>1 DEF MapTo, Record
  <2>3. \A d \in DOMAIN mem[c].containers : d \in Dept /\ mem[c].containers[d].pid \in Pid
    BY <2>1 DEF MapTo, Recalled
  <2>4. JoinedMemory(c)'
    BY <2>1, <2>2, <2>3 DEF JoinedMemory, Stays, D
  <2> QED BY <2>4, JoinedKept DEF Others
<1>2. JoinedRows'
  BY DEF JoinedInv, JoinedRows, Running, Stays, CommandsInv, TypedCommands, MapTo, Record
<1> QED BY <1>1, <1>2 DEF JoinedInv

\* Every step keeps it.
LEMMA JoinedStep ==
    ASSUME CommandsInv, KernelInv, AloneInv, JoinedInv, env.reuse => ~env.overlap, [Next]_vars
    PROVE  JoinedInv'
<1>1. ASSUME NEW c \in Command, Start(c) PROVE JoinedInv'
  <2>1. /\ Others(c) /\ pc'[c] = "list" /\ mem'[c] = mem[c] /\ UNCHANGED <<env, owner, joined, db>>
    BY <1>1, StartDoes DEF CommandsInv, TypedCommands, Only, Others, kernel
  <2>2. Stays
    BY <2>1 DEF Stays
  <2>3. JoinedMemory(c)'
    BY <2>1 DEF JoinedInv, JoinedMemory, Goes, D, Starting, Operation
  <2> QED BY <2>1, <2>2, <2>3, JoinedKept DEF Goes
<1>2. ASSUME NEW c \in Command, List(c) PROVE JoinedInv'
  <2>1. /\ Goes(c, "recover") /\ DOMAIN mem'[c].rows = Running
        /\ \A d \in Running : mem'[c].rows[d] = db[d]
        /\ mem'[c].containers = mem[c].containers /\ UNCHANGED <<env, owner, joined, db>>
    BY <1>2, ListGives DEF kernel
  <2>2. Stays
    BY <2>1 DEF Stays
  <2>3. JoinedMemory(c)'
    BY <2>1 DEF JoinedInv, JoinedMemory, Goes, D, Starting, Operation, JoinedRows
  <2> QED BY <2>1, <2>2, <2>3, JoinedKept DEF Goes
<1>3. ASSUME NEW c \in Command, Recover(c) PROVE JoinedInv'
  <2>1. Goes(c, "recover") /\ UNCHANGED <<env, owner, joined>>
    BY <1>3, RecoverGives DEF kernel
  <2>2. PICK d \in DOMAIN mem[c].rows :
          /\ mem'[c].rows = Without(mem[c].rows, d)
          /\ \/ /\ db' = db
                /\ mem'[c].containers = With(mem[c].containers, d, Recovered(mem[c].rows[d].pid))
             \/ /\ db' = [db EXCEPT ![d].status = "stopped"]
                /\ mem'[c].containers = mem[c].containers
    BY <1>3, RecoverGives
  <2>3. /\ \A e \in DOMAIN mem[c].rows :
              owner[mem[c].rows[e].pid] = e => mem[c].rows[e].pid \in joined
        /\ \A e \in DOMAIN mem[c].containers :
              owner[mem[c].containers[e].pid] = e => mem[c].containers[e].pid \in joined
    BY DEF JoinedInv, JoinedMemory
  <2>4. \A e \in DOMAIN mem'[c].rows : e \in DOMAIN mem[c].rows /\ mem'[c].rows[e] = mem[c].rows[e]
    BY <2>2 DEF Without
  <2>5. ASSUME NEW e \in DOMAIN mem'[c].containers
        PROVE  owner[mem'[c].containers[e].pid] = e => mem'[c].containers[e].pid \in joined
    <3>1. CASE mem'[c].containers = mem[c].containers
      BY <2>3, <3>1
    <3>2. CASE mem'[c].containers = With(mem[c].containers, d, Recovered(mem[c].rows[d].pid))
      <4>1. CASE e = d
        <5>1. mem'[c].containers[e].pid = mem[c].rows[e].pid
          BY <3>2, <4>1 DEF With, Recovered
        <5> QED BY <2>3, <4>1, <5>1
      <4>2. CASE e # d
        <5>1. e \in DOMAIN mem[c].containers /\ mem'[c].containers[e] = mem[c].containers[e]
          BY <3>2, <4>2 DEF With
        <5> QED BY <2>3, <5>1
      <4> QED BY <4>1, <4>2
    <3> QED BY <2>2, <3>1, <3>2
  <2>6. JoinedMemory(c)'
    BY <2>1, <2>3, <2>4, <2>5 DEF JoinedMemory, Goes
  <2>7. JoinedRows'
    <3>1. \A e \in Running' : e \in Running /\ db'[e].pid = db[e].pid
      BY <2>2 DEF Running, CommandsInv, TypedCommands, MapTo, Record
    <3> QED BY <2>1, <3>1 DEF JoinedInv, JoinedRows
  <2>8. \A b \in Command : b # c => JoinedMemory(b)'
    BY <2>1 DEF JoinedInv, JoinedMemory, Goes, Others, D
  <2> QED BY <2>6, <2>7, <2>8 DEF JoinedInv
<1>4. ASSUME NEW c \in Command, LoadIPAM(c) PROVE JoinedInv'
  <2>1. /\ Goes(c, args[c].op) /\ args[c].op \in Operation
        /\ mem'[c].rows = mem[c].rows /\ mem'[c].containers = mem[c].containers
        /\ UNCHANGED <<env, owner, joined, db>>
    BY <1>4, LoadIPAMGives DEF kernel
  <2>2. Stays
    BY <2>1 DEF Stays
  <2>3. JoinedMemory(c)'
    BY <2>1 DEF JoinedInv, JoinedMemory, Goes, D, Starting, Operation
  <2> QED BY <2>1, <2>2, <2>3, JoinedKept DEF Goes
<1>5. ASSUME NEW c \in Command, Status(c) PROVE JoinedInv'
  <2>1. Ends(c) /\ UNCHANGED <<owner, joined, db>>
    BY <1>5, EndsGives DEF Status, kernel
  <2> QED BY <2>1, JoinedEnds DEF Stays
<1>6. ASSUME NEW c \in Command, SpawnBegin(c) PROVE JoinedInv'
  <2>1. UNCHANGED <<env, owner, joined, db>>
    BY <1>6, SpawnBeginGives
  <2>2. CASE Ends(c)
    BY <2>1, <2>2, JoinedEnds DEF Stays
  <2>3. CASE /\ Goes(c, "start") /\ mem'[c].rows = mem[c].rows
             /\ DOMAIN mem'[c].containers = DOMAIN mem[c].containers
             /\ \A d \in DOMAIN mem[c].containers :
                    mem'[c].containers[d].pid = mem[c].containers[d].pid
    <3>1. JoinedMemory(c)'
      BY <2>1, <2>3 DEF JoinedInv, JoinedMemory, Goes
    <3> QED BY <2>1, <2>3, <3>1, JoinedKept DEF Stays, Goes
  <2> QED BY <1>6, <2>2, <2>3, SpawnBeginGives
<1>7. ASSUME NEW c \in Command, SpawnStart(c) PROVE JoinedInv'
  <2>1. pc[c] = "start" /\ D(c) \in Dept
    BY <1>7, SpawnStartGives, AboutDept
  <2>2. CASE Destroy(c, link[D(c)])
    BY <2>2, DestroyStays, DestroyEnds, JoinedEnds
  <2>3. CASE Ends(c) /\ UNCHANGED <<kernel, db>>
    BY <2>3, JoinedEnds DEF Stays, kernel
  <2>4. ASSUME NEW p \in NewPids, owner' = [owner EXCEPT ![p] = D(c)], pid'[c] = p,
               Others(c), pc'[c] = "veth", UNCHANGED <<args, mem, joined, db>>
        PROVE  JoinedInv'
    <3>1. /\ \A d \in Running : d = D(c) => db[d].pid # p
          /\ \A b \in Command :
               /\ \A d \in DOMAIN mem[b].rows : d = D(c) => mem[b].rows[d].pid # p
               /\ \A d \in DOMAIN mem[b].containers : d = D(c) => mem[b].containers[d].pid # p
               /\ b # c => pid[b] # p
      BY <2>1, NewPidsAreNew
    <3>2. \A q : owner'[q] = IF q = p THEN D(c) ELSE owner[q]
      BY <2>4 DEF KernelInv, NewPids
    <3>3. JoinedRows'
      BY <2>4, <3>1, <3>2 DEF JoinedInv, JoinedRows, Running
    <3>4. ASSUME NEW b \in Command PROVE JoinedMemory(b)'
      <4>1. JoinedMemory(b) /\ mem'[b] = mem[b]
        BY <2>4 DEF JoinedInv
      <4>2. pc'[b] = "save" => b # c /\ pc[b] = "save" /\ pid'[b] = pid[b] /\ D(b)' = D(b)
        BY <2>4 DEF Others, D
      <4> QED BY <2>4, <3>1, <3>2, <4>1, <4>2 DEF JoinedMemory
    <3> QED BY <3>3, <3>4 DEF JoinedInv
  <2> QED BY <1>7, <2>2, <2>3, <2>4, SpawnStartGives
<1>8. ASSUME NEW c \in Command, SpawnVeth(c) PROVE JoinedInv'
  <2>1. CASE Destroy(c, link[D(c)]) \/ Destroy(c, Stray)
    BY <2>1, DestroyStays, DestroyEnds, JoinedEnds
  <2>2. CASE Goes(c, "join") /\ mem' = mem /\ UNCHANGED <<owner, joined, db>>
    <3>1. JoinedMemory(c)'
      BY <2>2 DEF JoinedInv, JoinedMemory, Goes
    <3> QED BY <2>2, <3>1, JoinedKept DEF Stays, Goes
  <2> QED BY <1>8, <2>1, <2>2, SpawnVethGives
<1>9. ASSUME NEW c \in Command, SpawnJoin(c) PROVE JoinedInv'
  <2>1. CASE Destroy(c, link[D(c)])
    BY <2>1, DestroyStays, DestroyEnds, JoinedEnds
  <2>2. CASE /\ Goes(c, "save") /\ joined' = joined \cup {pid[c]} /\ UNCHANGED <<owner, db>>
             /\ mem'[c].rows = mem[c].rows
             /\ mem'[c].containers = With(mem[c].containers, D(c), Recovered(pid[c]))
    <3>1. /\ DOMAIN mem'[c].containers = DOMAIN mem[c].containers \cup {D(c)}
          /\ mem'[c].containers[D(c)].pid = pid[c]
          /\ \A d \in DOMAIN mem[c].containers \ {D(c)} :
                mem'[c].containers[d] = mem[c].containers[d]
      BY <2>2 DEF With, Recovered
    <3>2. JoinedMemory(c)'
      BY <2>2, <3>1 DEF JoinedInv, JoinedMemory, Goes
    <3> QED BY <2>2, <3>2, JoinedKept DEF Stays, Goes
  <2> QED BY <1>9, <2>1, <2>2, SpawnJoinGives
<1>10. ASSUME NEW c \in Command, SpawnSave(c) PROVE JoinedInv'
  <2>1. Ends(c) /\ pc[c] = "save" /\ UNCHANGED <<owner, joined>>
        /\ (db' = db \/ db' = With(db, D(c), Row(c)))
    BY <1>10, EndsGives DEF SpawnSave, kernel
  <2>2. CASE db' = db
    BY <2>1, <2>2, JoinedEnds DEF Stays
  <2>3. CASE db' = With(db, D(c), Row(c))
    <3>1. /\ DOMAIN db' = DOMAIN db \cup {D(c)} /\ db'[D(c)].pid = pid[c]
          /\ \A d \in DOMAIN db \ {D(c)} : db'[d] = db[d]
      BY <2>1, <2>3, RowTyped DEF With
    <3>2. JoinedRows'
      BY <2>1, <3>1 DEF JoinedInv, JoinedRows, JoinedMemory, Running
    <3>3. \A b \in Command : JoinedMemory(b)'
      BY <2>1, EndsFields, NoMemoryTyped DEF JoinedInv, JoinedMemory, Others, D
    <3> QED BY <3>2, <3>3 DEF JoinedInv
  <2> QED BY <2>1, <2>2, <2>3
<1>11. ASSUME NEW c \in Command, QuarantineFreeze(c) PROVE JoinedInv'
  <2>1. UNCHANGED <<env, owner, joined, db>>
    BY <1>11, QuarantineFreezeGives
  <2>2. CASE Ends(c)
    BY <2>1, <2>2, JoinedEnds DEF Stays
  <2>3. CASE /\ Goes(c, "drop") /\ mem'[c].rows = mem[c].rows
             /\ DOMAIN mem'[c].containers = DOMAIN mem[c].containers
             /\ \A d \in DOMAIN mem[c].containers :
                    mem'[c].containers[d].pid = mem[c].containers[d].pid
    <3>1. JoinedMemory(c)'
      BY <2>1, <2>3 DEF JoinedInv, JoinedMemory, Goes
    <3> QED BY <2>1, <2>3, <3>1, JoinedKept DEF Stays, Goes
  <2> QED BY <1>11, <2>2, <2>3, QuarantineFreezeGives
<1>12. ASSUME NEW c \in Command, QuarantineDrop(c) PROVE JoinedInv'
  <2>1. Ends(c) /\ UNCHANGED <<owner, joined, db>>
    BY <1>12, EndsGives DEF QuarantineDrop, kernel
  <2> QED BY <2>1, JoinedEnds DEF Stays
<1>13. ASSUME NEW c \in Command, Unquarantine(c) PROVE JoinedInv'
  <2>1. Ends(c) /\ UNCHANGED <<owner, joined, db>>
    BY <1>13, EndsGives DEF Unquarantine, kernel
  <2> QED BY <2>1, JoinedEnds DEF Stays
<1>14. ASSUME NEW c \in Command, SnapshotFreeze(c) PROVE JoinedInv'
  <2>1. UNCHANGED <<env, owner, joined, db>>
    BY <1>14, SnapshotFreezeGives
  <2>2. CASE Ends(c)
    BY <2>1, <2>2, JoinedEnds DEF Stays
  <2>3. CASE /\ Goes(c, "thaw") /\ mem'[c].rows = mem[c].rows
             /\ DOMAIN mem'[c].containers = DOMAIN mem[c].containers
             /\ \A d \in DOMAIN mem[c].containers :
                    mem'[c].containers[d].pid = mem[c].containers[d].pid
    <3>1. JoinedMemory(c)'
      BY <2>1, <2>3 DEF JoinedInv, JoinedMemory, Goes
    <3> QED BY <2>1, <2>3, <3>1, JoinedKept DEF Stays, Goes
  <2> QED BY <1>14, <2>2, <2>3, SnapshotFreezeGives
<1>15. ASSUME NEW c \in Command, SnapshotThaw(c) PROVE JoinedInv'
  <2>1. Ends(c) /\ UNCHANGED <<owner, joined, db>>
    BY <1>15, EndsGives DEF SnapshotThaw, kernel
  <2> QED BY <2>1, JoinedEnds DEF Stays
<1>16. ASSUME NEW c \in Command, Crash(c) PROVE JoinedInv'
  <2>1. Ends(c) /\ UNCHANGED <<owner, joined, db>>
    BY <1>16, EndsGives DEF Crash, kernel
  <2> QED BY <2>1, JoinedEnds DEF Stays
<1>17. ASSUME NEW p \in Pid, ContainerDies(p) PROVE JoinedInv'
  <2>1. /\ owner' = [owner EXCEPT ![p] = Free] /\ Free \notin Dept /\ joined' = joined \ {p}
        /\ UNCHANGED <<db, pc, args, pid, mem>>
    BY <1>17, DepartmentsAssumption DEF ContainerDies, Vanish, procs, Free
  <2>2. \A q \in Pid : owner'[q] \in Dept =>
           owner'[q] = owner[q] /\ (q \in joined => q \in joined')
    BY <2>1 DEF KernelInv
  <2> QED BY <2>1, <2>2, JoinedSame DEF Stays
<1>18. ASSUME NEW p \in Pid, HostTakesPid(p) PROVE JoinedInv'
  <2>1. /\ owner' = [owner EXCEPT ![p] = Host] /\ Host \notin Dept /\ joined' = joined
        /\ UNCHANGED <<db, pc, args, pid, mem>>
    BY <1>18, DepartmentsAssumption DEF HostTakesPid, procs, Host
  <2>2. \A q \in Pid : owner'[q] \in Dept =>
           owner'[q] = owner[q] /\ (q \in joined => q \in joined')
    BY <2>1 DEF KernelInv
  <2> QED BY <2>1, <2>2, JoinedSame DEF Stays
<1>19. ASSUME UNCHANGED vars PROVE JoinedInv'
  BY <1>19, JoinedSame DEF Stays, procs, kernel, vars
<1> QED
  BY <1>1, <1>2, <1>3, <1>4, <1>5, <1>6, <1>7, <1>8, <1>9, <1>10, <1>11, <1>12, <1>13,
        <1>14, <1>15, <1>16, <1>17, <1>18, <1>19 DEF Next, Step

-----------------------------------------------------------------------------
(* A quarantine lasts.                                                     *)
ToQuarantine(d) == \E a \in env.commands : a.op = "quarantine" /\ a.dept = d

\* A snapshot is never taken of a department that may be quarantined.
Apart == \A a \in env.commands : a.op = "snapshot" => ~ToQuarantine(a.dept)

SilencedWell ==
    \A p \in silenced :
        /\ p \in joined /\ cgroup[owner[p]] = "frozen" /\ ToQuarantine(owner[p])
        /\ "nft" \notin env.faults => p \in dropped

\* The step between the freeze and the firewall of a quarantine.
DroppingWell ==
    \A c \in Command :
        pc[c] = "drop" /\ owner[Container(c).pid] = D(c) => cgroup[D(c)] = "frozen"

SilencedInv == SilencedWell /\ DroppingWell

StaysFrozen(d) == cgroup[d] = "frozen" => cgroup'[d] = "frozen"

\* A command that neither ends a container nor thaws one moves.
LEMMA SilencedKept ==
    ASSUME KernelInv, CommandsInv, SilencedInv, NEW c \in Command, Others(c), pc'[c] # "drop",
           UNCHANGED <<env, owner, silenced>>, joined \subseteq joined',
           dropped' = dropped, \A d \in Dept : StaysFrozen(d)
    PROVE  SilencedInv'
<1>1. \A p \in silenced : owner[p] \in Dept
  BY DEF KernelInv
<1>2. SilencedWell'
  BY <1>1 DEF SilencedInv, SilencedWell, ToQuarantine, StaysFrozen
<1>3. ASSUME NEW b \in Command, pc'[b] = "drop", owner'[Container(b)'.pid] = D(b)'
      PROVE  cgroup'[D(b)'] = "frozen"
  <2>1. b # c /\ pc[b] = "drop" /\ D(b)' = D(b) /\ Container(b)' = Container(b)
    BY <1>3 DEF Others, D, Container
  <2>2. D(b) \in Dept
    BY <2>1, AboutDept
  <2> QED BY <1>3, <2>1, <2>2 DEF SilencedInv, DroppingWell, StaysFrozen
<1> QED BY <1>2, <1>3 DEF SilencedInv, DroppingWell

\* The container that a quarantine is about is a member of its cgroup.
LEMMA DroppingJoined ==
    ASSUME CommandsInv, JoinedInv, NEW c \in Command, pc[c] = "drop"
    PROVE  /\ Tracked(c) /\ D(c) \in Dept /\ Container(c).pid \in Pid
           /\ owner[Container(c).pid] = D(c) => Container(c).pid \in joined
<1>1. Tracked(c) /\ D(c) \in Dept
  BY AboutDept DEF CommandsInv, Reached
<1>2. Container(c) \in Recalled
  BY <1>1 DEF CommandsInv, TypedCommands, TypedMemory, MapTo, Tracked, Container
<1> QED BY <1>1, <1>2 DEF JoinedInv, JoinedMemory, Tracked, Container, Recalled

\* A failed spawn removes its cgroup only if nobody else is in it (destroyFailedSpawn).
LEMMA SilencedDestroy ==
    ASSUME CommandsInv, KernelInv, JoinedInv, SilencedInv, NEW c \in Command, NEW l,
           Destroy(c, l), pc[c] # "off"
    PROVE  SilencedInv'
<1>1. /\ Others(c) /\ pc'[c] = "off" /\ env' = env /\ D(c) \in Dept /\ Free \notin Dept
      /\ pid[c] \in Pid \cup {NoPid} /\ NoPid \notin Pid
  BY DestroyEnds, EndsFields, AboutDept, DepartmentsAssumption
     DEF Free, CommandsInv, TypedCommands, TypedPc
<1>2. \/ /\ pid[c] \in Pid /\ owner[pid[c]] = D(c)
         /\ owner' = [owner EXCEPT ![pid[c]] = Free] /\ joined' = joined \ {pid[c]}
         /\ dropped' = dropped \ {pid[c]} /\ silenced' = silenced \ {pid[c]}
      \/ UNCHANGED <<owner, joined, dropped, silenced>> /\ (pid[c] = NoPid \/ owner[pid[c]] # D(c))
  BY <1>1 DEF Destroy, Vanish
<1>3. cgroup' = [cgroup EXCEPT ![D(c)] = IF Members(D(c)) \subseteq {pid[c]} THEN "absent" ELSE @]
  BY DEF Destroy
<1>4. ASSUME NEW p \in Pid, owner'[p] \in Dept
      PROVE  /\ owner'[p] = owner[p] /\ (p \in joined => p \in joined')
             /\ (p \in dropped => p \in dropped') /\ (p = pid[c] => owner[p] # D(c))
  BY <1>1, <1>2, <1>4 DEF KernelInv
<1>5. ASSUME NEW p \in Pid, owner'[p] \in Dept, p \in joined PROVE StaysFrozen(owner[p])
  <2>1. CASE owner[p] = D(c)
    <3>1. p \in Members(D(c)) /\ p # pid[c]
      BY <1>4, <1>5, <2>1 DEF Members
    <3> QED BY <1>1, <1>3, <2>1, <3>1 DEF StaysFrozen, KernelInv
  <2>2. CASE owner[p] # D(c)
    BY <1>3, <2>2 DEF StaysFrozen, KernelInv
  <2> QED BY <2>1, <2>2
<1>6. SilencedWell'
  <2> SUFFICES ASSUME NEW p \in silenced'
               PROVE  /\ p \in joined' /\ cgroup'[owner'[p]] = "frozen" /\ ToQuarantine(owner[p])'
                      /\ "nft" \notin env'.faults => p \in dropped'
    BY DEF SilencedWell
  <2>1. p \in silenced /\ p \in Pid /\ owner'[p] \in Dept /\ owner[p] \in Dept
    BY <1>2 DEF KernelInv
  <2>2. /\ p \in joined /\ cgroup[owner[p]] = "frozen" /\ ToQuarantine(owner[p])
        /\ "nft" \notin env.faults => p \in dropped
    BY <2>1 DEF SilencedInv, SilencedWell
  <2> QED BY <1>1, <1>4, <1>5, <2>1, <2>2 DEF StaysFrozen, ToQuarantine
<1>7. ASSUME NEW b \in Command, pc'[b] = "drop", owner'[Container(b)'.pid] = D(b)'
      PROVE  cgroup'[D(b)'] = "frozen"
  <2>1. b # c /\ pc[b] = "drop" /\ D(b)' = D(b) /\ Container(b)' = Container(b)
    BY <1>1, <1>7 DEF Others, D, Container
  <2>2. /\ D(b) \in Dept /\ Container(b).pid \in Pid
        /\ owner[Container(b).pid] = D(b) => Container(b).pid \in joined
    BY <2>1, DroppingJoined
  <2>3. owner[Container(b).pid] = D(b)
    BY <1>4, <1>7, <2>1, <2>2
  <2>4. cgroup[D(b)] = "frozen"
    BY <2>1, <2>3 DEF SilencedInv, DroppingWell
  <2> QED BY <1>5, <1>7, <2>1, <2>2, <2>3, <2>4 DEF StaysFrozen
<1> QED BY <1>6, <1>7 DEF SilencedInv, DroppingWell

\* Every step keeps it.
LEMMA SilencedStep ==
    ASSUME CommandsInv, KernelInv, AloneInv, JoinedInv, SilencedInv,
           env.reuse => ~env.overlap, Apart, [Next]_vars
    PROVE  SilencedInv'
<1>1. ASSUME NEW c \in Command, Start(c) PROVE SilencedInv'
  <2>1. /\ Others(c) /\ pc'[c] = "list"
        /\ UNCHANGED <<env, owner, silenced, joined, dropped, cgroup>>
    BY <1>1, StartDoes DEF CommandsInv, TypedCommands, Only, Others, kernel, ghosts
  <2>2. Others(c) /\ pc'[c] # "drop"
    BY <2>1, EndsFields DEF Goes, Operation
  <2> QED BY <2>1, <2>2, SilencedKept DEF StaysFrozen
<1>2. ASSUME NEW c \in Command, List(c) PROVE SilencedInv'
  <2>1. /\ Goes(c, "recover")
        /\ UNCHANGED <<env, owner, silenced, joined, dropped, cgroup>>
    BY <1>2, ListGives DEF kernel, ghosts
  <2>2. Others(c) /\ pc'[c] # "drop"
    BY <2>1, EndsFields DEF Goes, Operation
  <2> QED BY <2>1, <2>2, SilencedKept DEF StaysFrozen
<1>3. ASSUME NEW c \in Command, Recover(c) PROVE SilencedInv'
  <2>1. /\ Goes(c, "recover")
        /\ UNCHANGED <<env, owner, silenced, joined, dropped, cgroup>>
    BY <1>3, RecoverGives DEF kernel, ghosts
  <2>2. Others(c) /\ pc'[c] # "drop"
    BY <2>1, EndsFields DEF Goes, Operation
  <2> QED BY <2>1, <2>2, SilencedKept DEF StaysFrozen
<1>4. ASSUME NEW c \in Command, LoadIPAM(c) PROVE SilencedInv'
  <2>1. /\ Goes(c, args[c].op) /\ args[c].op \in Operation
        /\ UNCHANGED <<env, owner, silenced, joined, dropped, cgroup>>
    BY <1>4, LoadIPAMGives DEF kernel, ghosts
  <2>2. Others(c) /\ pc'[c] # "drop"
    BY <2>1, EndsFields DEF Goes, Operation
  <2> QED BY <2>1, <2>2, SilencedKept DEF StaysFrozen
<1>5. ASSUME NEW c \in Command, Status(c) PROVE SilencedInv'
  <2>1. /\ Ends(c)
        /\ UNCHANGED <<env, owner, silenced, joined, dropped, cgroup>>
    BY <1>5, EndsGives DEF Status, kernel, ghosts
  <2>2. Others(c) /\ pc'[c] # "drop"
    BY <2>1, EndsFields DEF Goes, Operation
  <2> QED BY <2>1, <2>2, SilencedKept DEF StaysFrozen
<1>6. ASSUME NEW c \in Command, SpawnBegin(c) PROVE SilencedInv'
  <2>1. /\ UNCHANGED <<env, owner, silenced, joined, dropped>>
        /\ (cgroup' = cgroup \/ cgroup' = SetupCgroup(D(c)))
    BY <1>6, SpawnBeginGives DEF ghosts
  <2>2. Others(c) /\ pc'[c] # "drop"
    BY <1>6, SpawnBeginGives, EndsFields DEF Goes
  <2>3. \A d \in Dept : StaysFrozen(d)
    BY <2>1 DEF StaysFrozen, SetupCgroup, KernelInv
  <2> QED BY <2>1, <2>2, <2>3, SilencedKept
<1>7. ASSUME NEW c \in Command, SpawnStart(c) PROVE SilencedInv'
  <2>1. pc[c] = "start" /\ D(c) \in Dept
    BY <1>7, SpawnStartGives, AboutDept
  <2>2. CASE Destroy(c, link[D(c)])
    BY <2>1, <2>2, SilencedDestroy
  <2>3. CASE Ends(c) /\ UNCHANGED <<env, kernel, ghosts>>
    <3>1. Others(c) /\ pc'[c] # "drop"
      BY <2>3, EndsFields
    <3> QED BY <2>3, <3>1, SilencedKept DEF StaysFrozen, kernel, ghosts
  <2>4. ASSUME NEW p \in NewPids, owner' = [owner EXCEPT ![p] = D(c)],
               Others(c), pc'[c] = "veth",
               UNCHANGED <<env, args, mem, joined, cgroup, dropped, ghosts>>
        PROVE  SilencedInv'
    <3>1. p \in Pid /\ owner[p] = Free /\ Free \notin Dept
      BY DepartmentsAssumption DEF NewPids, Alive, Free
    <3>2. \A q : owner'[q] = IF q = p THEN D(c) ELSE owner[q]
      BY <2>4 DEF KernelInv, NewPids
    <3>3. p \notin silenced
      BY <3>1 DEF KernelInv
    <3>4. SilencedWell'
      BY <2>4, <3>2, <3>3 DEF SilencedInv, SilencedWell, ToQuarantine, ghosts
    <3>5. ASSUME NEW b \in Command, pc'[b] = "drop", owner'[Container(b)'.pid] = D(b)'
          PROVE  cgroup'[D(b)'] = "frozen"
      <4>1. b # c /\ pc[b] = "drop" /\ D(b)' = D(b) /\ Container(b)' = Container(b)
        BY <2>4, <3>5 DEF Others, D, Container
      <4>2. Tracked(b)
        BY <4>1, DroppingJoined
      <4>3. Container(b).pid = p => D(b) # D(c)
        BY <2>1, <4>2, NewPidsAreNew DEF Tracked, Container
      <4>4. owner[Container(b).pid] = D(b)
        BY <3>2, <3>5, <4>1, <4>3
      <4> QED BY <2>4, <4>1, <4>4 DEF SilencedInv, DroppingWell
    <3> QED BY <3>4, <3>5 DEF SilencedInv, DroppingWell
  <2> QED BY <1>7, <2>2, <2>3, <2>4, SpawnStartGives
<1>8. ASSUME NEW c \in Command, SpawnVeth(c) PROVE SilencedInv'
  <2>1. pc[c] = "veth"
    BY <1>8, SpawnVethGives
  <2>2. CASE Destroy(c, link[D(c)]) \/ Destroy(c, Stray)
    BY <2>1, <2>2, SilencedDestroy
  <2>3. CASE Goes(c, "join") /\ UNCHANGED <<env, owner, joined, cgroup, dropped, ghosts>>
    BY <2>3, SilencedKept DEF Goes, StaysFrozen, ghosts
  <2> QED BY <1>8, <2>2, <2>3, SpawnVethGives
<1>9. ASSUME NEW c \in Command, SpawnJoin(c) PROVE SilencedInv'
  <2>1. pc[c] = "join"
    BY <1>9, SpawnJoinGives
  <2>2. CASE Destroy(c, link[D(c)])
    BY <2>1, <2>2, SilencedDestroy
  <2>3. CASE Goes(c, "save") /\ joined' = joined \cup {pid[c]}
             /\ UNCHANGED <<env, owner, cgroup, dropped, silenced>>
    BY <2>3, SilencedKept DEF Goes, StaysFrozen
  <2> QED BY <1>9, <2>2, <2>3, SpawnJoinGives
<1>10. ASSUME NEW c \in Command, SpawnSave(c) PROVE SilencedInv'
  <2>1. /\ Ends(c)
        /\ UNCHANGED <<env, owner, silenced, joined, dropped, cgroup>>
    BY <1>10, EndsGives DEF SpawnSave, kernel, ghosts
  <2>2. Others(c) /\ pc'[c] # "drop"
    BY <2>1, EndsFields DEF Goes, Operation
  <2> QED BY <2>1, <2>2, SilencedKept DEF StaysFrozen
<1>11. ASSUME NEW c \in Command, QuarantineFreeze(c) PROVE SilencedInv'
  <2>1. /\ UNCHANGED <<env, owner, silenced, joined, dropped>>
        /\ pc[c] = "quarantine" /\ D(c) \in Dept
    BY <1>11, QuarantineFreezeGives, AboutDept DEF ghosts
  <2>2. CASE Ends(c) /\ cgroup' = cgroup
    <3>1. Others(c) /\ pc'[c] # "drop"
      BY <2>2, EndsFields
    <3> QED BY <2>1, <2>2, <3>1, SilencedKept DEF StaysFrozen
  <2>3. CASE Freeze(D(c)) /\ Goes(c, "drop")
    <3>1. cgroup'[D(c)] = "frozen" /\ \A d \in Dept : StaysFrozen(d)
      BY <2>1, <2>3 DEF Freeze, StaysFrozen, KernelInv
    <3>2. \A p \in silenced : owner[p] \in Dept
      BY DEF KernelInv
    <3>3. SilencedWell'
      BY <2>1, <3>1, <3>2 DEF SilencedInv, SilencedWell, ToQuarantine, StaysFrozen
    <3>4. ASSUME NEW b \in Command, pc'[b] = "drop", owner'[Container(b)'.pid] = D(b)'
          PROVE  cgroup'[D(b)'] = "frozen"
      <4>1. CASE b = c
        BY <2>3, <3>1, <4>1 DEF Goes, D
      <4>2. CASE b # c
        <5>1. pc[b] = "drop" /\ D(b)' = D(b) /\ Container(b)' = Container(b)
          BY <2>3, <3>4, <4>2 DEF Goes, Others, D, Container
        <5>2. D(b) \in Dept
          BY <5>1, AboutDept
        <5> QED BY <2>1, <3>1, <3>4, <5>1, <5>2 DEF SilencedInv, DroppingWell, StaysFrozen
      <4> QED BY <4>1, <4>2
    <3> QED BY <3>3, <3>4 DEF SilencedInv, DroppingWell
  <2> QED BY <1>11, <2>2, <2>3, QuarantineFreezeGives
<1>12. ASSUME NEW c \in Command, QuarantineDrop(c) PROVE SilencedInv'
  <2>1. /\ pc[c] = "drop" /\ Ends(c) /\ UNCHANGED <<env, owner, joined, cgroup>>
        /\ silenced' = silenced \cup {q \in {Container(c).pid} : owner[q] = D(c)}
        /\ \/ dropped' = dropped \cup {q \in {Container(c).pid} : owner[q] \in Dept}
           \/ "nft" \in env.faults /\ dropped' = dropped
    BY <1>12, EndsGives DEF QuarantineDrop
  <2>2. /\ D(c) \in Dept /\ Container(c).pid \in Pid
        /\ owner[Container(c).pid] = D(c) => Container(c).pid \in joined
    BY <2>1, DroppingJoined
  <2>3. ToQuarantine(D(c))
    BY <2>1 DEF CommandsInv, Reached, ToQuarantine, D
  <2>4. ASSUME NEW p \in silenced'
        PROVE  /\ p \in joined' /\ cgroup'[owner'[p]] = "frozen" /\ ToQuarantine(owner[p])'
               /\ "nft" \notin env'.faults => p \in dropped'
    <3>1. CASE p \in silenced
      BY <2>1, <3>1 DEF SilencedInv, SilencedWell, ToQuarantine
    <3>2. CASE p = Container(c).pid /\ owner[p] = D(c)
      <4>1. cgroup[D(c)] = "frozen"
        BY <2>1, <3>2 DEF SilencedInv, DroppingWell
      <4> QED BY <2>1, <2>2, <2>3, <3>2, <4>1 DEF ToQuarantine
    <3> QED BY <2>1, <3>1, <3>2
  <2>5. ASSUME NEW b \in Command, pc'[b] = "drop", owner'[Container(b)'.pid] = D(b)'
        PROVE  cgroup'[D(b)'] = "frozen"
    <3>1. b # c /\ pc[b] = "drop" /\ D(b)' = D(b) /\ Container(b)' = Container(b)
      BY <2>1, <2>5, EndsFields DEF Others, D, Container
    <3>2. owner[Container(b).pid] = D(b) /\ cgroup' = cgroup
      BY <2>1, <2>5, <3>1
    <3>3. cgroup[D(b)] = "frozen"
      BY <3>1, <3>2 DEF SilencedInv, DroppingWell
    <3>4. D(b)' = D(b) /\ cgroup' = cgroup
      BY <3>1, <3>2
    <3> QED BY <3>3, <3>4, Zenon
  <2> QED BY <2>4, <2>5 DEF SilencedInv, SilencedWell, DroppingWell
<1>13. ASSUME NEW c \in Command, Unquarantine(c) PROVE SilencedInv'
  <2>1. Tracked(c) => ~Container(c).quarantined
    BY DEF CommandsInv, TypedCommands, TypedMemory, MapTo, Recalled, Tracked, Container
  <2>2. Ends(c) /\ UNCHANGED <<env, owner, silenced, joined, dropped, cgroup>>
    BY <1>13, <2>1, EndsGives DEF Unquarantine
  <2>3. Others(c) /\ pc'[c] # "drop"
    BY <2>2, EndsFields
  <2> QED BY <2>2, <2>3, SilencedKept DEF StaysFrozen
<1>14. ASSUME NEW c \in Command, SnapshotFreeze(c) PROVE SilencedInv'
  <2>1. /\ UNCHANGED <<env, owner, silenced, joined, dropped>> /\ pc[c] = "snapshot"
        /\ cgroup' = cgroup \/ Freeze(D(c))
    BY <1>14, SnapshotFreezeGives DEF ghosts
  <2>2. Others(c) /\ pc'[c] # "drop"
    BY <1>14, SnapshotFreezeGives, EndsFields DEF Goes
  <2>3. \A d \in Dept : StaysFrozen(d)
    BY <2>1 DEF StaysFrozen, Freeze, KernelInv
  <2> QED BY <2>1, <2>2, <2>3, SilencedKept
<1>15. ASSUME NEW c \in Command, SnapshotThaw(c) PROVE SilencedInv'
  <2>1. /\ pc[c] = "thaw" /\ Ends(c) /\ UNCHANGED <<env, owner, joined, dropped, silenced>>
    BY <1>15, EndsGives DEF SnapshotThaw, ghosts
  <2>2. Thaw(D(c))
    BY <1>15 DEF SnapshotThaw, ThawOwn, CommandsInv, TypedCommands, TypedMemory
  <2>3. ~ToQuarantine(D(c))
    BY <2>1 DEF CommandsInv, Reached, Apart, D
  <2>4. \A d \in Dept : d # D(c) => StaysFrozen(d)
    BY <2>2 DEF Thaw, StaysFrozen, KernelInv
  <2>5. \A p \in silenced : owner[p] \in Dept /\ owner[p] # D(c)
    BY <2>3 DEF SilencedInv, SilencedWell, KernelInv
  <2>6. SilencedWell'
    BY <2>1, <2>4, <2>5 DEF SilencedInv, SilencedWell, ToQuarantine, StaysFrozen
  <2>7. ASSUME NEW b \in Command, pc'[b] = "drop", owner'[Container(b)'.pid] = D(b)'
        PROVE  cgroup'[D(b)'] = "frozen"
    <3>1. b # c /\ pc[b] = "drop" /\ D(b)' = D(b) /\ Container(b)' = Container(b)
      BY <2>1, <2>7, EndsFields DEF Others, D, Container
    <3>2. D(b) \in Dept /\ D(b) # D(c)
      BY <2>3, <3>1, AboutDept DEF CommandsInv, Reached, ToQuarantine, D
    <3> QED BY <2>1, <2>4, <2>7, <3>1, <3>2 DEF SilencedInv, DroppingWell, StaysFrozen
  <2> QED BY <2>6, <2>7 DEF SilencedInv, DroppingWell
<1>16. ASSUME NEW c \in Command, Crash(c) PROVE SilencedInv'
  <2>1. /\ Ends(c)
        /\ UNCHANGED <<env, owner, silenced, joined, dropped, cgroup>>
    BY <1>16, EndsGives DEF Crash, kernel, ghosts
  <2>2. Others(c) /\ pc'[c] # "drop"
    BY <2>1, EndsFields DEF Goes, Operation
  <2> QED BY <2>1, <2>2, SilencedKept DEF StaysFrozen
<1>17. ASSUME NEW p \in Pid, ContainerDies(p) PROVE SilencedInv'
  <2>1. /\ owner' = [owner EXCEPT ![p] = Free] /\ Free \notin Dept /\ joined' = joined \ {p}
        /\ dropped' = dropped \ {p} /\ silenced' = silenced \ {p}
        /\ UNCHANGED <<env, cgroup, pc, args, pid, mem>>
    BY <1>17, DepartmentsAssumption DEF ContainerDies, Vanish, procs, Free
  <2>2. \A q : owner'[q] = IF q = p THEN Free ELSE owner[q]
    BY <2>1 DEF KernelInv
  <2>3. p \notin silenced'
    BY <2>1 DEF KernelInv
  <2>4. SilencedWell'
    BY <2>1, <2>2, <2>3 DEF SilencedInv, SilencedWell, ToQuarantine
  <2>5. ASSUME NEW b \in Command, pc'[b] = "drop", owner'[Container(b)'.pid] = D(b)'
        PROVE  cgroup'[D(b)'] = "frozen"
    <3>1. pc[b] = "drop" /\ D(b)' = D(b) /\ Container(b)' = Container(b) /\ D(b) \in Dept
      BY <2>1, <2>5, AboutDept DEF D, Container
    <3>2. owner[Container(b).pid] = D(b)
      BY <2>1, <2>2, <2>5, <3>1
    <3> QED BY <2>1, <3>1, <3>2 DEF SilencedInv, DroppingWell
  <2> QED BY <2>4, <2>5 DEF SilencedInv, DroppingWell
<1>18. ASSUME NEW p \in Pid, HostTakesPid(p) PROVE SilencedInv'
  <2>1. /\ owner' = [owner EXCEPT ![p] = Host] /\ Host \notin Dept /\ joined' = joined
        /\ dropped' = dropped /\ silenced' = silenced
        /\ UNCHANGED <<env, cgroup, pc, args, pid, mem>>
        /\ owner[p] = Free /\ Free \notin Dept
    BY <1>18, DepartmentsAssumption DEF HostTakesPid, ghosts, Alive, Free, procs, Host
  <2>2. \A q : owner'[q] = IF q = p THEN Host ELSE owner[q]
    BY <2>1 DEF KernelInv
  <2>3. p \notin silenced'
    BY <2>1 DEF KernelInv
  <2>4. SilencedWell'
    BY <2>1, <2>2, <2>3 DEF SilencedInv, SilencedWell, ToQuarantine
  <2>5. ASSUME NEW b \in Command, pc'[b] = "drop", owner'[Container(b)'.pid] = D(b)'
        PROVE  cgroup'[D(b)'] = "frozen"
    <3>1. pc[b] = "drop" /\ D(b)' = D(b) /\ Container(b)' = Container(b) /\ D(b) \in Dept
      BY <2>1, <2>5, AboutDept DEF D, Container
    <3>2. owner[Container(b).pid] = D(b)
      BY <2>1, <2>2, <2>5, <3>1
    <3> QED BY <2>1, <3>1, <3>2 DEF SilencedInv, DroppingWell
  <2> QED BY <2>4, <2>5 DEF SilencedInv, DroppingWell
<1>19. ASSUME UNCHANGED vars PROVE SilencedInv'
  BY <1>19 DEF SilencedInv, SilencedWell, DroppingWell, ToQuarantine, Container, D, ghosts,
     procs, kernel, vars
<1> QED
  BY <1>1, <1>2, <1>3, <1>4, <1>5, <1>6, <1>7, <1>8, <1>9, <1>10, <1>11, <1>12, <1>13,
        <1>14, <1>15, <1>16, <1>17, <1>18, <1>19 DEF Next, Step

\* No department is both snapshotted and quarantined in one behaviour: where it is, the
\* thaw of the snapshot undoes the quarantine.
SnapshotsApart ==
    \A e \in Environments : \A a, b \in e.commands :
        a.op = "snapshot" /\ b.op = "quarantine" => a.dept # b.dept

QuarantineInv ==
    CommandsInv /\ KernelInv /\ AloneInv /\ JoinedInv /\ SilencedInv

\* A quarantined container stays frozen and cut off for as long as it lives, whatever other
\* commands, kills, deaths and process numbers that are used again do: nothing thaws a
\* cgroup but a snapshot, and a spawn that fails removes no cgroup that has a member
\* (QuarantineDepartment, destroyFailedSpawn, setupCgroup).
THEOREM QuarantineLasts ==
  ASSUME NoReuseSideBySide, SnapshotsApart
  PROVE  Spec => []QuarantineHolds
<1>1. Init => QuarantineInv
  <2>1. Init => JoinedInv
    <3> SUFFICES ASSUME Init PROVE JoinedInv
      OBVIOUS
    <3>1. Running = {} /\ \A c \in Command : mem[c] = NoMemory /\ pc[c] = "off"
      BY DEF Init, Running, Empty
    <3> QED BY <3>1, NoMemoryTyped DEF JoinedInv, JoinedRows, JoinedMemory
  <2>2. Init => SilencedInv
    BY DEF Init, SilencedInv, SilencedWell, DroppingWell
  <2> QED BY <2>1, <2>2, CommandsInit, KernelInit, AloneInit DEF QuarantineInv
<1>2. QuarantineInv /\ [Next]_vars => QuarantineInv'
  <2> SUFFICES ASSUME QuarantineInv, [Next]_vars PROVE QuarantineInv'
    OBVIOUS
  <2>1. (env.reuse => ~env.overlap) /\ Apart
    BY NoReuseSideBySide, SnapshotsApart
       DEF QuarantineInv, CommandsInv, TypedCommands, NoReuseSideBySide, SnapshotsApart, Apart,
           ToQuarantine
  <2>2. CommandsInv' /\ KernelInv' /\ AloneInv'
    BY CommandsStep, KernelStep, AloneStep DEF QuarantineInv
  <2>3. JoinedInv'
    BY <2>1, JoinedStep DEF QuarantineInv
  <2>4. SilencedInv'
    BY <2>1, SilencedStep DEF QuarantineInv
  <2> QED BY <2>2, <2>3, <2>4 DEF QuarantineInv
<1>3. QuarantineInv => QuarantineHolds
  BY DEF QuarantineInv, SilencedInv, SilencedWell, QuarantineHolds
<1> QED BY <1>1, <1>2, <1>3, PTL DEF Spec

-----------------------------------------------------------------------------
(* The tree: every child is registered, one tier lower at least.           *)
TreeWell(tree) ==
    /\ \A d \in DOMAIN tree :
          tree[d] = [tier     |-> tree[d].tier,
                     parent   |-> tree[d].parent,
                     children |-> tree[d].children]
    /\ \A d \in DOMAIN tree : tree[d].tier \in Tier /\ tree[d].children \subseteq DOMAIN tree
    /\ \A d \in DOMAIN tree : \A e \in tree[d].children : tree[e].tier < tree[d].tier

\* RegisterDepartment puts a department below a parent of a higher tier.
LEMMA RegisterWell ==
    ASSUME NEW tree, TreeWell(tree), NEW d, NEW tier \in Tier, NEW parent,
           MayRegister(tree, d, tier, parent)
    PROVE  TreeWell(Register(tree, d, tier, parent))
<1> DEFINE t == Register(tree, d, tier, parent)
<1>1. /\ DOMAIN t = DOMAIN tree \cup {d} /\ d \notin DOMAIN tree
      /\ t[d] = [tier     |-> tier,
                 parent   |-> IF tier = Root THEN NoParent ELSE parent,
                 children |-> {}]
      /\ \A x \in DOMAIN tree : t[x] = IF x = parent /\ tier # Root
                                       THEN [tree[x] EXCEPT !.children = @ \cup {d}] ELSE tree[x]
  BY DEF Register, MayRegister
<1>2. tier # Root => parent \in DOMAIN tree /\ tree[parent].tier > tier
  BY DEF MayRegister
<1> HIDE DEF t
<1>3. \A x \in DOMAIN tree :
         /\ t[x].tier = tree[x].tier
         /\ t[x].children = IF x = parent /\ tier # Root
                            THEN tree[x].children \cup {d} ELSE tree[x].children
         /\ t[x] = [tier |-> t[x].tier, parent |-> t[x].parent, children |-> t[x].children]
  BY <1>1 DEF TreeWell
<1>4. t[d].tier = tier /\ t[d].children = {}
      /\ t[d] = [tier |-> t[d].tier, parent |-> t[d].parent, children |-> t[d].children]
  BY <1>1
<1>5. ASSUME NEW x \in DOMAIN t
      PROVE  /\ t[x] = [tier |-> t[x].tier, parent |-> t[x].parent, children |-> t[x].children]
             /\ t[x].tier \in Tier /\ t[x].children \subseteq DOMAIN t
             /\ \A e \in t[x].children : t[e].tier < t[x].tier
  <2>1. CASE x = d
    BY <1>4, <2>1
  <2>2. CASE x \in DOMAIN tree
    <3>1. t[x].tier \in Tier /\ t[x].children \subseteq DOMAIN t
      BY <1>1, <1>3, <2>2 DEF TreeWell
    <3>2. ASSUME NEW e \in t[x].children PROVE t[e].tier < t[x].tier
      <4>1. CASE e \in tree[x].children
        <5>1. e \in DOMAIN tree /\ tree[e].tier < tree[x].tier
          BY <2>2, <4>1 DEF TreeWell
        <5> QED BY <1>3, <2>2, <5>1
      <4>2. CASE e \notin tree[x].children
        <5>1. e = d /\ x = parent /\ tier # Root
          BY <1>3, <2>2, <4>2
        <5> QED BY <1>2, <1>3, <1>4, <2>2, <5>1
      <4> QED BY <4>1, <4>2
    <3> QED BY <1>3, <2>2, <3>1, <3>2
  <2> QED BY <1>1, <2>1, <2>2
<1> QED BY <1>5 DEF TreeWell, t

\* What is below a department, to a depth of n: the tiers leave no room for more than four.
Deeper(tree, f) ==
    [x \in DOMAIN tree |->
        tree[x].children \cup UNION {f[e] : e \in tree[x].children \cap DOMAIN tree}]

Depth0(tree) == [x \in DOMAIN tree |-> {}]
Depth1(tree) == Deeper(tree, Depth0(tree))
Depth2(tree) == Deeper(tree, Depth1(tree))
Depth3(tree) == Deeper(tree, Depth2(tree))
Depth4(tree) == Deeper(tree, Depth3(tree))

\* Where two maps agree on lower tiers, what they make of a tier agrees.
LEMMA DeeperAgrees ==
    ASSUME NEW tree, TreeWell(tree), NEW f, NEW g, NEW n \in Nat,
           \A x \in DOMAIN tree : tree[x].tier < n => f[x] = g[x]
    PROVE  \A x \in DOMAIN tree : tree[x].tier < n + 1 => Deeper(tree, f)[x] = Deeper(tree, g)[x]
<1> SUFFICES ASSUME NEW x \in DOMAIN tree, tree[x].tier < n + 1
             PROVE  Deeper(tree, f)[x] = Deeper(tree, g)[x]
  OBVIOUS
<1>1. \A e \in tree[x].children : e \in DOMAIN tree /\ tree[e].tier < tree[x].tier
      /\ tree[e].tier \in Int /\ tree[x].tier \in Int
  BY DEF TreeWell, Tier, Staff, Root
<1>2. \A e \in tree[x].children : f[e] = g[e]
  BY <1>1
<1>3. {f[e] : e \in tree[x].children \cap DOMAIN tree}
      = {g[e] : e \in tree[x].children \cap DOMAIN tree}
  BY <1>2
<1> QED BY <1>3 DEF Deeper

\* The recursion of collectSubordinates has a solution, four levels deep.
LEMMA DepthIsEnough ==
    ASSUME NEW tree, TreeWell(tree)
    PROVE  Depth4(tree) = Deeper(tree, Depth4(tree))
<1>1. \A x \in DOMAIN tree : tree[x].tier < 0 => Depth0(tree)[x] = Depth1(tree)[x]
  BY DEF TreeWell, Tier, Staff, Root
<1>2. \A x \in DOMAIN tree : tree[x].tier < 1 => Depth1(tree)[x] = Depth2(tree)[x]
  BY <1>1, DeeperAgrees DEF Depth1, Depth2
<1>3. \A x \in DOMAIN tree : tree[x].tier < 2 => Depth2(tree)[x] = Depth3(tree)[x]
  BY <1>2, DeeperAgrees DEF Depth2, Depth3
<1>4. \A x \in DOMAIN tree : tree[x].tier < 3 => Depth3(tree)[x] = Depth4(tree)[x]
  BY <1>3, DeeperAgrees DEF Depth3, Depth4
<1>5. \A x \in DOMAIN tree : tree[x].tier < 4 => Depth4(tree)[x] = Deeper(tree, Depth4(tree))[x]
  BY <1>4, DeeperAgrees DEF Depth4
<1>6. \A x \in DOMAIN tree : tree[x].tier < 4
  BY DEF TreeWell, Tier, Staff, Root
<1>7. DOMAIN Depth4(tree) = DOMAIN tree /\ Depth4(tree) = [x \in DOMAIN tree |-> Depth4(tree)[x]]
  BY DEF Depth4, Deeper
<1>8. DOMAIN Deeper(tree, Depth4(tree)) = DOMAIN tree
      /\ Deeper(tree, Depth4(tree)) = [x \in DOMAIN tree |-> Deeper(tree, Depth4(tree))[x]]
  BY DEF Deeper
<1> QED BY <1>5, <1>6, <1>7, <1>8

\* collectSubordinates satisfies its recursion: a department's children, and theirs.
LEMMA SubordinatesUnfold ==
    ASSUME NEW tree, TreeWell(tree)
    PROVE  \A d \in DOMAIN tree :
              Subordinates(tree, d) = tree[d].children
                                        \cup UNION {Subordinates(tree, e) : e \in tree[d].children}
<1> DEFINE Solves(f) == f = [x \in DOMAIN tree |-> tree[x].children
                               \cup UNION {f[e] : e \in tree[x].children \cap DOMAIN tree}]
           below == CHOOSE f : Solves(f)
<1>1. Solves(Depth4(tree))
  BY DepthIsEnough DEF Deeper
<1>2. Solves(below)
  <2> HIDE DEF Solves
  <2> QED BY <1>1
<1>3. \A d \in DOMAIN tree : Subordinates(tree, d) = below[d]
  BY DEF Subordinates
<1> HIDE DEF below
<1>4. \A d \in DOMAIN tree : tree[d].children \subseteq DOMAIN tree
  BY DEF TreeWell
<1> SUFFICES ASSUME NEW d \in DOMAIN tree
             PROVE  Subordinates(tree, d) = tree[d].children
                                        \cup UNION {Subordinates(tree, e) : e \in tree[d].children}
  OBVIOUS
<1>5. below[d] = tree[d].children \cup UNION {below[e] : e \in tree[d].children \cap DOMAIN tree}
  BY <1>2
<1>6. {below[e] : e \in tree[d].children \cap DOMAIN tree}
        = {Subordinates(tree, e) : e \in tree[d].children}
  BY <1>3, <1>4
<1> QED BY <1>3, <1>5, <1>6


\* isSubordinateOf and collectSubordinates agree: both follow the same edges.
LEMMA SubordinatesAgree ==
    ASSUME NEW tree, TreeWell(tree), NEW t
    PROVE  \A x \in DOMAIN tree : IsSubordinateOf(tree, t, x) <=> t \in Subordinates(tree, x)
<1> DEFINE Solves(f) == f = [x \in DOMAIN tree |->
                               \E c \in tree[x].children : c = t \/ (c \in DOMAIN tree /\ f[c])]
           under == CHOOSE f : Solves(f)
           shown == [x \in DOMAIN tree |-> IF t \in Subordinates(tree, x) THEN TRUE ELSE FALSE]
<1>1. \A x \in DOMAIN tree : tree[x].children \subseteq DOMAIN tree
  BY DEF TreeWell
<1>2. \A x \in DOMAIN tree : t \in Subordinates(tree, x) <=>
         \E c \in tree[x].children : c = t \/ t \in Subordinates(tree, c)
  <2> SUFFICES ASSUME NEW x \in DOMAIN tree
               PROVE  t \in Subordinates(tree, x) <=>
                        \E c \in tree[x].children : c = t \/ t \in Subordinates(tree, c)
    OBVIOUS
  <2>1. Subordinates(tree, x) = tree[x].children
                                  \cup UNION {Subordinates(tree, e) : e \in tree[x].children}
    BY SubordinatesUnfold
  <2> QED BY <2>1
<1>3. Solves(shown)
  <2>1. \A x \in DOMAIN tree :
           shown[x] = IF t \in Subordinates(tree, x) THEN TRUE ELSE FALSE
    OBVIOUS
  <2>2. shown = [x \in DOMAIN tree |-> shown[x]]
    OBVIOUS
  <2> HIDE DEF shown
  <2>3. ASSUME NEW x \in DOMAIN tree
        PROVE  shown[x] = \E c \in tree[x].children : c = t \/ (c \in DOMAIN tree /\ shown[c])
    <3>1. \A c \in tree[x].children :
             c \in DOMAIN tree /\ (shown[c] <=> t \in Subordinates(tree, c))
      BY <1>1, <2>1
    <3>2. t \in Subordinates(tree, x) <=>
            \E c \in tree[x].children : c = t \/ (c \in DOMAIN tree /\ shown[c])
      BY <1>2, <3>1
    <3>3. CASE t \in Subordinates(tree, x)
      <4>1. shown[x] = TRUE
        BY <2>1, <3>3
      <4>2. \E c \in tree[x].children : c = t \/ (c \in DOMAIN tree /\ shown[c])
        BY <3>2, <3>3
      <4> QED BY <4>1, <4>2
    <3>4. CASE t \notin Subordinates(tree, x)
      <4>1. shown[x] = FALSE
        BY <2>1, <3>4
      <4>2. ~ \E c \in tree[x].children : c = t \/ (c \in DOMAIN tree /\ shown[c])
        BY <3>2, <3>4
      <4> QED BY <4>1, <4>2
    <3> QED BY <3>3, <3>4
  <2> QED BY <2>2, <2>3
<1>4. Solves(under)
  <2> HIDE DEF Solves, shown
  <2> QED BY <1>3
<1>5. \A x \in DOMAIN tree : IsSubordinateOf(tree, t, x) <=> under[x]
  BY DEF IsSubordinateOf
<1> HIDE DEF under
<1>6. \A x \in DOMAIN tree : under[x] <=>
         \E c \in tree[x].children : c = t \/ (c \in DOMAIN tree /\ under[c])
  BY <1>4
<1> HIDE DEF Solves, shown
<1> DEFINE Agree(n) == \A x \in DOMAIN tree :
                          tree[x].tier < n => (under[x] <=> t \in Subordinates(tree, x))
<1>7. \A x \in DOMAIN tree : \A c \in tree[x].children :
         tree[c].tier < tree[x].tier /\ tree[c].tier \in 0..3 /\ tree[x].tier \in 0..3
  BY <1>1 DEF TreeWell, Tier, Staff, Root
<1>8. ASSUME NEW n \in Nat, Agree(n) PROVE Agree(n + 1)
  <2> SUFFICES ASSUME NEW x \in DOMAIN tree, tree[x].tier < n + 1
               PROVE  under[x] <=> t \in Subordinates(tree, x)
    OBVIOUS
  <2>1. \A c \in tree[x].children : tree[c].tier < n
    BY <1>7
  <2>2. \A c \in tree[x].children : under[c] <=> t \in Subordinates(tree, c)
    BY <1>1, <1>8, <2>1
  <2> QED BY <1>1, <1>2, <1>6, <2>2
<1>9. \A x \in DOMAIN tree : tree[x].tier \in 0..3
  BY DEF TreeWell, Tier, Staff, Root
<1>10. Agree(0)
  BY <1>9
<1> HIDE DEF Agree
<1>11. Agree(1) /\ Agree(2) /\ Agree(3) /\ Agree(4)
  <2>1. Agree(0 + 1)
    BY <1>8, <1>10
  <2>2. Agree(1 + 1)
    BY <1>8, <2>1
  <2>3. Agree(2 + 1)
    BY <1>8, <2>2
  <2>4. Agree(3 + 1)
    BY <1>8, <2>3
  <2> QED BY <2>1, <2>2, <2>3, <2>4
<1>12. \A x \in DOMAIN tree : under[x] <=> t \in Subordinates(tree, x)
  BY <1>9, <1>11 DEF Agree
<1> QED BY <1>5, <1>12

\* All below a department are registered, each of a lower tier.
LEMMA SubordinatesAreLower ==
    ASSUME NEW tree, TreeWell(tree)
    PROVE  \A x \in DOMAIN tree : \A t \in Subordinates(tree, x) :
              t \in DOMAIN tree /\ tree[t].tier < tree[x].tier
<1> DEFINE Lower(n) == \A x \in DOMAIN tree : tree[x].tier < n =>
                          \A t \in Subordinates(tree, x) :
                             t \in DOMAIN tree /\ tree[t].tier < tree[x].tier
<1>1. \A x \in DOMAIN tree : tree[x].tier \in 0..3
  BY DEF TreeWell, Tier, Staff, Root
<1>2. \A x \in DOMAIN tree : \A c \in tree[x].children :
         c \in DOMAIN tree /\ tree[c].tier < tree[x].tier
  BY DEF TreeWell
<1>3. ASSUME NEW n \in Nat, Lower(n) PROVE Lower(n + 1)
  <2> SUFFICES ASSUME NEW x \in DOMAIN tree, tree[x].tier < n + 1,
                      NEW t \in Subordinates(tree, x)
               PROVE  t \in DOMAIN tree /\ tree[t].tier < tree[x].tier
    OBVIOUS
  <2>1. Subordinates(tree, x) = tree[x].children
                                  \cup UNION {Subordinates(tree, e) : e \in tree[x].children}
    BY SubordinatesUnfold
  <2>2. CASE t \in tree[x].children
    BY <1>2, <2>2
  <2>3. CASE \E e \in tree[x].children : t \in Subordinates(tree, e)
    <3>1. PICK e \in tree[x].children : t \in Subordinates(tree, e)
      BY <2>3
    <3>2. e \in DOMAIN tree /\ tree[e].tier < tree[x].tier /\ tree[e].tier < n
      BY <1>1, <1>2
    <3>3. t \in DOMAIN tree /\ tree[t].tier < tree[e].tier
      BY <1>3, <3>1, <3>2
    <3> QED BY <1>1, <3>2, <3>3
  <2> QED BY <2>1, <2>2, <2>3
<1>4. Lower(0)
  BY <1>1
<1> HIDE DEF Lower
<1>5. Lower(0 + 1)
  BY <1>3, <1>4
<1>6. Lower(1 + 1)
  BY <1>3, <1>5
<1>7. Lower(2 + 1)
  BY <1>3, <1>6
<1>8. Lower(3 + 1)
  BY <1>3, <1>7
<1> QED BY <1>1, <1>8 DEF Lower

\* In a tree that registration builds, CanAccess and ListVisible agree, and access goes down.
LEMMA AccessGoesDown ==
    ASSUME NEW tree, TreeWell(tree), NEW r \in DOMAIN tree, NEW t \in DOMAIN tree
    PROVE  /\ CanAccess(tree, r, t) <=> t \in ListVisible(tree, r)
           /\ CanAccess(tree, r, t) =>
                r = t \/ tree[r].tier = Root \/ tree[t].tier < tree[r].tier
<1>1. IsSubordinateOf(tree, t, r) <=> t \in Subordinates(tree, r)
  BY SubordinatesAgree
<1>2. t \in Subordinates(tree, r) => tree[t].tier < tree[r].tier
  BY SubordinatesAreLower
<1>3. t \in tree[r].children => tree[t].tier < tree[r].tier
  BY DEF TreeWell
<1>4. tree[r].tier \in {Staff, Manager, Director, Root}
  BY DEF TreeWell, Tier, Staff, Manager, Director, Root
<1>5. CASE tree[r].tier = Root
  BY <1>5 DEF CanAccess, ListVisible, Root, Director, Manager, Staff
<1>6. CASE tree[r].tier = Director
  BY <1>1, <1>2, <1>6 DEF CanAccess, ListVisible, Root, Director, Manager, Staff
<1>7. CASE tree[r].tier = Manager
  BY <1>3, <1>7 DEF CanAccess, ListVisible, Root, Director, Manager, Staff
<1>8. CASE tree[r].tier = Staff
  BY <1>8 DEF CanAccess, ListVisible, Root, Director, Manager, Staff
<1> QED BY <1>4, <1>5, <1>6, <1>7, <1>8

TreesInv == \A c \in Command : TreeWell(mem[c].tree)

\* The trees of all commands but c are as they were.
LEMMA TreesKept ==
    ASSUME TreesInv, NEW c \in Command, Others(c), TreeWell(mem'[c].tree)
    PROVE  TreesInv'
<1>1. ASSUME NEW b \in Command PROVE TreeWell(mem'[b].tree)
  <2>1. CASE b = c
    BY <2>1
  <2>2. CASE b # c
    BY <2>2 DEF TreesInv, Others
  <2> QED BY <2>1, <2>2
<1> QED BY <1>1 DEF TreesInv

\* Only RegisterDepartment changes a tree.
LEMMA TreesStep == CommandsInv /\ TreesInv /\ [Next]_vars => TreesInv'
<1> SUFFICES ASSUME CommandsInv, TreesInv, [Next]_vars PROVE TreesInv'
  OBVIOUS
<1> DEFINE Same(c) == Others(c) /\ mem'[c].tree = mem[c].tree
<1>1. ASSUME NEW c \in Command, Same(c) PROVE TreesInv'
  BY <1>1, TreesKept DEF TreesInv
<1>2. ASSUME NEW c \in Command, Ends(c) PROVE TreesInv'
  <2>1. Others(c) /\ mem'[c] = NoMemory
    BY <1>2, EndsFields
  <2>2. TreeWell(NoMemory.tree)
    BY DEF NoMemory, EmptyTree, TreeWell
  <2> QED BY <2>1, <2>2, TreesKept
<1>3. ASSUME NEW c \in Command, Recover(c) PROVE TreesInv'
  <2>1. Others(c)
    BY <1>3, RecoverGives DEF Goes
  <2>2. PICK d \in DOMAIN mem[c].rows :
           /\ mem[c].rows[d] \in Record
           /\ mem'[c].tree = mem[c].tree
              \/ /\ MayRegister(mem[c].tree, d, mem[c].rows[d].tier, mem[c].rows[d].parent)
                 /\ mem'[c].tree =
                      Register(mem[c].tree, d, mem[c].rows[d].tier, mem[c].rows[d].parent)
    BY <1>3, RecoverGives
  <2>3. TreeWell(mem'[c].tree)
    BY <2>2, RegisterWell DEF TreesInv, Record
  <2> QED BY <2>1, <2>3, TreesKept
<1>4. ASSUME NEW c \in Command, SpawnBegin(c) PROVE TreesInv'
  <2>1. CASE Ends(c)
    BY <1>2, <2>1
  <2>2. CASE /\ Goes(c, "start")
             /\ MayRegister(mem[c].tree, D(c), args[c].tier, args[c].parent)
             /\ mem'[c].tree = Register(mem[c].tree, D(c), args[c].tier, args[c].parent)
    <3>1. args[c].tier \in Tier
      <4>1. pc[c] = "spawn"
        BY <1>4, SpawnBeginGives
      <4>2. args[c] \in Args
        BY <4>1, AboutDept
      <4> QED BY <4>2 DEF Args
    <3>2. TreeWell(mem'[c].tree)
      BY <2>2, <3>1, RegisterWell DEF TreesInv
    <3> QED BY <2>2, <3>2, TreesKept DEF Goes
  <2> QED BY <1>4, <2>1, <2>2, SpawnBeginGives
<1>5. ASSUME NEW c \in Command, Step(c) PROVE TreesInv'
  <2>1. CASE Start(c)
    <3>1. Only(c, "list", pid[c], mem[c])
      BY <2>1, StartDoes DEF CommandsInv, TypedCommands
    <3>2. mem' = mem
      BY <2>1 DEF Start, Goto
    <3> QED BY <3>2 DEF TreesInv
  <2>2. CASE List(c)
    BY <1>1, <2>2, ListGives DEF Goes
  <2>3. CASE LoadIPAM(c)
    BY <1>1, <2>3, LoadIPAMGives DEF Goes
  <2>4. CASE SpawnStart(c)
    <3>1. CASE mem' = mem
      BY <3>1 DEF TreesInv
    <3>2. CASE Destroy(c, link[D(c)])
      BY <1>2, <3>2, DestroyEnds DEF CommandsInv, TypedCommands
    <3>3. CASE Ends(c)
      BY <1>2, <3>3
    <3> QED BY <2>4, <3>1, <3>2, <3>3, SpawnStartGives
  <2>5. CASE SpawnVeth(c)
    <3>1. CASE mem' = mem
      BY <3>1 DEF TreesInv
    <3>2. CASE Destroy(c, link[D(c)]) \/ Destroy(c, Stray)
      BY <1>2, <3>2, DestroyEnds DEF CommandsInv, TypedCommands
    <3> QED BY <2>5, <3>1, <3>2, SpawnVethGives
  <2>6. CASE SpawnJoin(c)
    <3>1. CASE Same(c)
      BY <1>1, <3>1
    <3>2. CASE Destroy(c, link[D(c)])
      BY <1>2, <3>2, DestroyEnds DEF CommandsInv, TypedCommands
    <3> QED BY <2>6, <3>1, <3>2, SpawnJoinGives DEF Goes
  <2>7. CASE QuarantineFreeze(c)
    BY <1>1, <1>2, <2>7, QuarantineFreezeGives DEF Goes
  <2>8. CASE SnapshotFreeze(c)
    BY <1>1, <1>2, <2>8, SnapshotFreezeGives DEF Goes
  <2>9. CASE \/ Status(c) \/ SpawnSave(c) \/ QuarantineDrop(c) \/ Unquarantine(c)
             \/ SnapshotThaw(c) \/ Crash(c)
    BY <1>2, <2>9, EndsGives
  <2> QED BY <1>3, <1>4, <1>5, <2>1, <2>2, <2>3, <2>4, <2>5, <2>6, <2>7, <2>8, <2>9 DEF Step
<1>6. ASSUME mem' = mem PROVE TreesInv'
  BY <1>6 DEF TreesInv
<1> QED BY <1>5, <1>6 DEF Next, vars, procs, ContainerDies, Vanish, HostTakesPid

\* Whatever commands ran, failed or were killed before, in the tree that a command's memory
\* holds ListVisible shows what CanAccess allows, and access only goes down the tiers
\* (CanAccess, ListVisible, RegisterDepartment).
THEOREM AccessIsShown == Spec => []AccessIsWhatIsShown
<1>1. Init => CommandsInv /\ TreesInv
  <2>1. ASSUME Init PROVE TreesInv
    <3>1. \A c \in Command : mem[c] = NoMemory
      BY <2>1 DEF Init
    <3> QED BY <3>1 DEF TreesInv, TreeWell, NoMemory, EmptyTree
  <2> QED BY <2>1, CommandsInit
<1>2. CommandsInv /\ TreesInv /\ [Next]_vars => CommandsInv' /\ TreesInv'
  BY CommandsStep, TreesStep
<1>3. TreesInv => AccessIsWhatIsShown
  BY AccessGoesDown DEF TreesInv, AccessIsWhatIsShown
<1> QED BY <1>1, <1>2, <1>3, PTL DEF Spec
-----------------------------------------------------------------------------
(* Recovery.  The hypotheses are about the command lines alone: a department is always  *)
(* spawned with one tier and one parent, and a parent's number is below its children's. *)
OneLinePerDept ==
    \A e \in Environments : \A a, b \in e.commands :
        a.op = "spawn" /\ b.op = "spawn" /\ a.dept = b.dept
            => a.tier = b.tier /\ a.parent = b.parent

ParentsComeFirst ==
    \A e \in Environments : \A a \in e.commands :
        a.op = "spawn" /\ a.tier # Root => a.parent < a.dept

\* Rooted and the tree of RecoveryRestoresHierarchy, over any map I of identities.
RootedIn(I, S) ==
    LET rooted[d \in S] == \/ I[d].tier = Root
                           \/ I[d].parent \in S /\ rooted[I[d].parent]
    IN  {d \in S : rooted[d]}

TreeOf(I, S) == [d \in S |-> [tier |-> I[d].tier, parent |-> I[d].parent,
                              children |-> {e \in S : I[e].parent = d}]]

\* R is what Rooted is to be: the roots of S, and whatever has its parent in R.
Grows(I, S, R) ==
    R \subseteq S /\ \A d \in S : d \in R <=> I[d].tier = Root \/ I[d].parent \in R

\* Below a parent of S the tier is lower.
TiersFall(I, S) ==
    \A d \in S : /\ I[d].tier \in Tier
                 /\ I[d].tier # Root /\ I[d].parent \in S => I[I[d].parent].tier > I[d].tier

\* As tiers fall, one set at most grows from the roots of S, and Rooted is that set.
LEMMA GrowsToRooted ==
    ASSUME NEW I, NEW S, NEW R, TiersFall(I, S), Grows(I, S, R)
    PROVE  RootedIn(I, S) = R
<1> DEFINE Solves(f) == f = [d \in S |-> \/ I[d].tier = Root
                                         \/ I[d].parent \in S /\ f[I[d].parent]]
           rooted == CHOOSE f : Solves(f)
           grown  == [d \in S |-> IF d \in R THEN TRUE ELSE FALSE]
<1>1. Solves(grown)
  <2>1. \A d \in S : grown[d] = IF d \in R THEN TRUE ELSE FALSE
    OBVIOUS
  <2>2. grown = [d \in S |-> grown[d]]
    OBVIOUS
  <2> HIDE DEF grown
  <2>3. ASSUME NEW d \in S
        PROVE  grown[d] = (I[d].tier = Root \/ (I[d].parent \in S /\ grown[I[d].parent]))
    <3>1. I[d].parent \in S => (grown[I[d].parent] <=> I[d].parent \in R)
      BY <2>1
    <3>2. d \in R <=> I[d].tier = Root \/ (I[d].parent \in S /\ grown[I[d].parent])
      BY <3>1 DEF Grows
    <3>3. CASE d \in R
      <4>1. grown[d] = TRUE
        BY <2>1, <3>3
      <4> QED BY <3>2, <3>3, <4>1
    <3>4. CASE d \notin R
      <4>1. grown[d] = FALSE
        BY <2>1, <3>4
      <4> QED BY <3>2, <3>4, <4>1
    <3> QED BY <3>3, <3>4
  <2> QED BY <2>2, <2>3
<1>2. Solves(rooted)
  <2> HIDE DEF Solves, grown
  <2> QED BY <1>1
<1>3. RootedIn(I, S) = {d \in S : rooted[d]}
  BY DEF RootedIn
<1> HIDE DEF rooted, grown
<1>4. \A d \in S : rooted[d] <=> I[d].tier = Root \/ (I[d].parent \in S /\ rooted[I[d].parent])
  BY <1>2
<1> HIDE DEF Solves
<1> DEFINE Agree(n) == \A d \in S : I[d].tier > n => (rooted[d] <=> d \in R)
<1>5. \A d \in S : I[d].tier \in 0..3
  BY DEF TiersFall, Tier, Staff, Root
<1>6. ASSUME NEW n \in Int, Agree(n) PROVE Agree(n - 1)
  <2> SUFFICES ASSUME NEW d \in S, I[d].tier > n - 1 PROVE rooted[d] <=> d \in R
    OBVIOUS
  <2>1. CASE I[d].tier = Root
    BY <1>4, <2>1 DEF Grows
  <2>2. CASE I[d].tier # Root /\ I[d].parent \in S
    <3>1. I[I[d].parent].tier > n
      BY <1>5, <2>2 DEF TiersFall
    <3>2. rooted[I[d].parent] <=> I[d].parent \in R
      BY <1>6, <2>2, <3>1
    <3> QED BY <1>4, <2>2, <3>2 DEF Grows
  <2>3. CASE I[d].tier # Root /\ I[d].parent \notin S
    BY <1>4, <2>3 DEF Grows
  <2> QED BY <2>1, <2>2, <2>3
<1>7. Agree(3)
  BY <1>5
<1> HIDE DEF Agree
<1>8. Agree(3 - 1)
  BY <1>6, <1>7
<1>9. Agree(2 - 1)
  BY <1>6, <1>8
<1>10. Agree(1 - 1)
  BY <1>6, <1>9
<1>11. Agree(0 - 1)
  BY <1>6, <1>10
<1>12. \A d \in S : rooted[d] <=> d \in R
  BY <1>5, <1>11 DEF Agree
<1> QED BY <1>3, <1>12 DEF Grows

\* A department that nobody names as a parent yet: it is rooted when its parent is.
LEMMA RootedAdds ==
    ASSUME NEW I, NEW S, NEW d, d \notin S, NEW R, Grows(I, S, R),
           I[d].parent # d, \A e \in S : I[e].parent # d
    PROVE  Grows(I, S \cup {d}, IF I[d].tier = Root \/ I[d].parent \in R THEN R \cup {d} ELSE R)
BY DEF Grows

\* Department d, of tier t and with parent p, is new to R and the parent of none in R.
\* (What parent a ROOT is given is ignored.)
Addable(I, R, d, t, p) ==
    /\ R \subseteq Nat /\ d \in Nat /\ d \notin R /\ \A e \in R : I[e].parent # d
    /\ I[d].tier = t /\ I[d].parent = (IF t = Root THEN NoParent ELSE p)
    /\ p # d \/ t = Root

\* A record with one more child.
LEMMA AddChild ==
    ASSUME NEW a, NEW b, NEW C, NEW d
    PROVE  [[tier |-> a, parent |-> b, children |-> C] EXCEPT !.children = @ \cup {d}]
           = [tier |-> a, parent |-> b, children |-> C \cup {d}]
OBVIOUS

\* Registering a department whose parent is rooted adds it to the tree of the rooted ones.
LEMMA RegisterAdds ==
    ASSUME NEW I, NEW R, NEW d, NEW t, NEW p, Addable(I, R, d, t, p)
    PROVE  Register(TreeOf(I, R), d, t, p) = TreeOf(I, R \cup {d})
<1> DEFINE old == TreeOf(I, R)
           S   == R \cup {d}
           new == Register(old, d, t, p)
<1>0. /\ R \subseteq Nat /\ d \in Nat /\ d \notin R /\ \A e \in R : I[e].parent # d
      /\ I[d].tier = t /\ I[d].parent = (IF t = Root THEN NoParent ELSE p)
      /\ p # d \/ t = Root
  BY DEF Addable
<1>1. DOMAIN old = R /\ \A x \in R : old[x] = [tier |-> I[x].tier, parent |-> I[x].parent,
                                               children |-> {e \in R : I[e].parent = x}]
  BY DEF TreeOf
<1>2. TreeOf(I, S) = [x \in S |-> [tier |-> I[x].tier, parent |-> I[x].parent,
                                   children |-> {e \in S : I[e].parent = x}]]
  BY DEF TreeOf
<1>3. new = [x \in S |->
               IF x = d THEN [tier |-> t, parent |-> I[d].parent, children |-> {}]
               ELSE IF x = p /\ t # Root THEN [old[x] EXCEPT !.children = @ \cup {d}] ELSE old[x]]
  <2> HIDE DEF old
  <2> QED BY <1>0, <1>1 DEF Register
<1> HIDE DEF old, new
<1>4. ASSUME NEW x \in S
      PROVE  new[x] = [tier |-> I[x].tier, parent |-> I[x].parent,
                       children |-> {e \in S : I[e].parent = x}]
  <2>1. CASE x = d
    <3>1. I[d].parent # d
      BY <1>0 DEF NoParent
    <3>2. \A e \in S : I[e].parent # d
      BY <1>0, <3>1
    <3>3. {e \in S : I[e].parent = d} = {}
      BY <1>0, <3>2
    <3>4. new[d] = [tier |-> t, parent |-> I[d].parent, children |-> {}]
      BY <1>0, <1>3
    <3> QED BY <1>0, <2>1, <3>3, <3>4
  <2>2. CASE x # d /\ x = p /\ t # Root
    <3>1. {e \in S : I[e].parent = x} = {e \in R : I[e].parent = x} \cup {d}
      BY <1>0, <2>2
    <3>2. new[x] = [old[x] EXCEPT !.children = @ \cup {d}]
      BY <1>0, <1>3, <2>2
    <3>3. old[x] = [tier |-> I[x].tier, parent |-> I[x].parent,
                    children |-> {e \in R : I[e].parent = x}]
      BY <1>0, <1>1, <2>2
    <3> DEFINE C == {e \in R : I[e].parent = x}
               B == {e \in S : I[e].parent = x}
    <3>4. B = C \cup {d} /\ old[x] = [tier |-> I[x].tier, parent |-> I[x].parent, children |-> C]
      BY <1>0, <3>1, <3>3
    <3> HIDE DEF B, C
    <3>5. new[x] = [tier |-> I[x].tier, parent |-> I[x].parent, children |-> B]
      BY <1>0, <3>2, <3>4, AddChild
    <3> QED BY <1>0, <3>5 DEF B
  <2>3. CASE x # d /\ ~(x = p /\ t # Root)
    <3>1. {e \in S : I[e].parent = x} = {e \in R : I[e].parent = x}
      BY <1>0, <2>3 DEF NoParent
    <3>2. new[x] = old[x]
      BY <1>0, <1>3, <2>3
    <3> QED BY <1>0, <1>1, <2>3, <3>1, <3>2
  <2> QED BY <1>0, <2>1, <2>2, <2>3
<1>5. new = [x \in S |-> new[x]]
  BY <1>0, <1>3
<1> QED BY <1>0, <1>2, <1>4, <1>5 DEF new, old

\* A spawn's command line.
Line(d, t, p) == \E a \in env.commands : a.op = "spawn" /\ a.dept = d /\ a.tier = t /\ a.parent = p

\* A tier and a parent as a tree has them.
Placed(d, t, p) == \E q : Line(d, t, q) /\ p = IF t = Root THEN NoParent ELSE q

\* A parent is spawned with a higher tier.
Under(t, p) == t # Root => \E x, q : Line(p, x, q) /\ x > t

TreeLined(tree) == \A x \in DOMAIN tree : Placed(x, tree[x].tier, tree[x].parent)

\* Whatever a command knows of a department was on a command line.
Lined(c) ==
    /\ \A d \in DOMAIN mem[c].rows :
          Line(d, mem[c].rows[d].tier, mem[c].rows[d].parent) /\ d \in DOMAIN identity
    /\ TreeLined(mem[c].tree)
    /\ pc[c] \in {"off", "list"} => mem[c] = NoMemory
    /\ pc[c] \in Spawning =>
         /\ D(c) \in DOMAIN mem[c].tree /\ mem[c].tree[D(c)].tier = args[c].tier
         /\ Under(args[c].tier, mem[c].tree[D(c)].parent)
    /\ pc[c] = "save" => D(c) \in DOMAIN identity

RowsLined == \A d \in DOMAIN db : Line(d, db[d].tier, db[d].parent) /\ d \in DOMAIN identity

IdentitiesLined ==
    \A d \in DOMAIN identity :
        /\ Placed(d, identity[d].tier, identity[d].parent)
        /\ Under(identity[d].tier, identity[d].parent)

LinesInv == RowsLined /\ IdentitiesLined /\ \A c \in Command : Lined(c)

\* Lines are there for good, and so is what is known of the other commands.
LEMMA LinesKept ==
    ASSUME LinesInv, NEW c \in Command, Others(c), env' = env,
           DOMAIN identity \subseteq DOMAIN identity',
           Lined(c)', RowsLined', IdentitiesLined'
    PROVE  LinesInv'
<1>1. ASSUME NEW b \in Command PROVE Lined(b)'
  <2>1. CASE b = c
    BY <2>1
  <2>2. CASE b # c
    <3>1. /\ pc'[b] = pc[b] /\ args'[b] = args[b] /\ mem'[b] = mem[b] /\ Lined(b)
      BY <2>2 DEF Others, LinesInv
    <3> QED BY <3>1 DEF Lined, TreeLined, Placed, Under, Line, D
  <2> QED BY <2>1, <2>2
<1> QED BY <1>1 DEF LinesInv

\* A command that ends knows nothing.
LEMMA LinesEnd ==
    ASSUME LinesInv, NEW c \in Command, Ends(c), env' = env, identity' = identity, RowsLined'
    PROVE  LinesInv'
<1>1. Others(c) /\ pc'[c] = "off" /\ mem'[c] = NoMemory
  BY EndsFields
<1>2. Lined(c)'
  BY <1>1 DEF Lined, TreeLined, NoMemory, EmptyTree, Empty, Spawning, Starting
<1>3. IdentitiesLined'
  BY DEF LinesInv, IdentitiesLined, Placed, Under, Line
<1> QED BY <1>1, <1>2, <1>3, LinesKept

\* A registration keeps the tree to the lines.
LEMMA RegisterLined ==
    ASSUME NEW tree, TreeLined(tree), TreeWell(tree), NEW d, NEW t, NEW p,
           Line(d, t, p), MayRegister(tree, d, t, p)
    PROVE  /\ TreeLined(Register(tree, d, t, p))
           /\ d \in DOMAIN Register(tree, d, t, p) /\ Register(tree, d, t, p)[d].tier = t
           /\ Under(t, Register(tree, d, t, p)[d].parent)
<1> DEFINE new == Register(tree, d, t, p)
<1>1. /\ DOMAIN new = DOMAIN tree \cup {d} /\ d \notin DOMAIN tree
      /\ new[d] = [tier |-> t, parent |-> IF t = Root THEN NoParent ELSE p, children |-> {}]
      /\ \A x \in DOMAIN tree : new[x] = IF x = p /\ t # Root
                                         THEN [tree[x] EXCEPT !.children = @ \cup {d}] ELSE tree[x]
  BY DEF Register, MayRegister
<1> HIDE DEF new
<1>2. \A x \in DOMAIN tree : new[x].tier = tree[x].tier /\ new[x].parent = tree[x].parent
  BY <1>1 DEF TreeWell
<1>3. new[d].tier = t /\ new[d].parent = IF t = Root THEN NoParent ELSE p
  BY <1>1
<1>4. ASSUME NEW x \in DOMAIN new PROVE Placed(x, new[x].tier, new[x].parent)
  <2>1. CASE x = d
    BY <1>3, <2>1 DEF Placed
  <2>2. CASE x \in DOMAIN tree
    BY <1>2, <2>2 DEF TreeLined
  <2> QED BY <1>1, <2>1, <2>2
<1>5. Under(t, new[d].parent)
  <2> SUFFICES ASSUME t # Root PROVE \E x, q : Line(p, x, q) /\ x > t
    BY <1>3 DEF Under
  <2>1. p \in DOMAIN tree /\ tree[p].tier > t
    BY DEF MayRegister
  <2> QED BY <2>1 DEF TreeLined, Placed
<1> QED BY <1>1, <1>3, <1>4, <1>5 DEF TreeLined, new

\* Only command lines name tiers and parents.
LEMMA LinesStep == CommandsInv /\ TreesInv /\ LinesInv /\ [Next]_vars => LinesInv'
<1> SUFFICES ASSUME CommandsInv, TreesInv, LinesInv, [Next]_vars PROVE LinesInv'
  OBVIOUS
<1>1. \A c \in Command : Lined(c)
  BY DEF LinesInv
<1>2. ASSUME db' = db, identity' = identity, env' = env PROVE RowsLined' /\ IdentitiesLined'
  BY <1>2 DEF LinesInv, RowsLined, IdentitiesLined, Placed, Under, Line
<1>3. ASSUME NEW c \in Command, Start(c) PROVE LinesInv'
  <2>1. /\ pc[c] = "off" /\ pc'[c] = "list" /\ mem' = mem /\ Others(c)
        /\ UNCHANGED <<env, kernel, db, ghosts>>
    BY <1>3, StartDoes DEF Start, Goto, CommandsInv, TypedCommands, Only, Others
  <2>2. Lined(c)'
    BY <1>1, <2>1 DEF Lined, TreeLined, NoMemory, EmptyTree, Empty, Spawning, Starting
  <2> QED BY <1>2, <2>1, <2>2, LinesKept DEF ghosts
<1>4. ASSUME NEW c \in Command, List(c) PROVE LinesInv'
  <2>1. /\ Goes(c, "recover") /\ mem'[c].tree = mem[c].tree /\ DOMAIN mem'[c].rows = Running
        /\ \A d \in Running : mem'[c].rows[d] = db[d]
        /\ UNCHANGED <<env, kernel, db, ghosts>>
    BY <1>4, ListGives
  <2>2. \A d \in DOMAIN mem'[c].rows :
           Line(d, mem'[c].rows[d].tier, mem'[c].rows[d].parent) /\ d \in DOMAIN identity
    BY <2>1 DEF Running, LinesInv, RowsLined
  <2>3. Lined(c)'
    <3>1. /\ pc'[c] = "recover" /\ env' = env /\ identity' = identity
          /\ mem'[c].tree = mem[c].tree
      BY <2>1 DEF Goes, ghosts
    <3>2. TreeLined(mem'[c].tree)
      BY <1>1, <3>1 DEF Lined
    <3> QED BY <2>2, <3>1, <3>2 DEF Lined, TreeLined, Placed, Line, Spawning, Starting
  <2> QED BY <1>2, <2>1, <2>3, LinesKept DEF Goes, ghosts
<1>5. ASSUME NEW c \in Command, Recover(c) PROVE LinesInv'
  <2>1. /\ Goes(c, "recover") /\ UNCHANGED <<env, kernel, ghosts>>
        /\ DOMAIN mem[c].rows \subseteq Dept
    BY <1>5, RecoverGives DEF CommandsInv, TypedCommands, TypedMemory, MapTo
  <2>2. PICK d \in DOMAIN mem[c].rows :
           /\ mem'[c].rows = Without(mem[c].rows, d)
           /\ db' = db \/ db' = [db EXCEPT ![d].status = "stopped"]
           /\ mem'[c].tree = mem[c].tree
              \/ /\ MayRegister(mem[c].tree, d, mem[c].rows[d].tier, mem[c].rows[d].parent)
                 /\ mem'[c].tree =
                      Register(mem[c].tree, d, mem[c].rows[d].tier, mem[c].rows[d].parent)
    BY <1>5, RecoverGives
  <2>3. TreeLined(mem'[c].tree)
    <3>1. /\ TreeLined(mem[c].tree) /\ TreeWell(mem[c].tree)
          /\ Line(d, mem[c].rows[d].tier, mem[c].rows[d].parent)
      BY <1>1 DEF Lined, TreesInv
    <3>3. CASE mem'[c].tree = mem[c].tree
      BY <3>1, <3>3
    <3>4. CASE /\ MayRegister(mem[c].tree, d, mem[c].rows[d].tier, mem[c].rows[d].parent)
               /\ mem'[c].tree =
                    Register(mem[c].tree, d, mem[c].rows[d].tier, mem[c].rows[d].parent)
      BY <3>1, <3>4, RegisterLined
    <3> QED BY <2>2, <3>3, <3>4
  <2>4. \A x \in DOMAIN mem'[c].rows : x \in DOMAIN mem[c].rows /\ mem'[c].rows[x] = mem[c].rows[x]
    BY <2>2 DEF Without
  <2>5. Lined(c)'
    <3>1. pc'[c] = "recover" /\ env' = env /\ identity' = identity
      BY <2>1 DEF Goes, ghosts
    <3>2. \A x \in DOMAIN mem'[c].rows :
             Line(x, mem'[c].rows[x].tier, mem'[c].rows[x].parent) /\ x \in DOMAIN identity
      BY <1>1, <2>4 DEF Lined
    <3> QED BY <2>3, <3>1, <3>2 DEF Lined, TreeLined, Placed, Line, Spawning, Starting
  <2>6. DOMAIN db' = DOMAIN db
        /\ \A x \in DOMAIN db : db'[x].tier = db[x].tier /\ db'[x].parent = db[x].parent
    BY <2>2 DEF CommandsInv, TypedCommands, MapTo, Record
  <2>7. RowsLined' /\ IdentitiesLined'
    <3>1. env' = env /\ identity' = identity
      BY <2>1 DEF ghosts
    <3>2. RowsLined'
      BY <2>6, <3>1 DEF LinesInv, RowsLined, Line
    <3> QED BY <3>1, <3>2 DEF LinesInv, IdentitiesLined, Placed, Under, Line
  <2> QED BY <2>1, <2>5, <2>7, LinesKept DEF Goes, ghosts
<1>6. ASSUME NEW c \in Command, Others(c), args'[c] = args[c],
             pc'[c] \notin {"off", "list", "save"},
             pc'[c] \in Spawning => pc[c] \in Spawning, mem'[c].rows = mem[c].rows,
             mem'[c].tree = mem[c].tree, UNCHANGED <<env, db, identity>>
      PROVE  LinesInv'
  <2>1. Lined(c)'
    <3>1. /\ env' = env /\ identity' = identity /\ args'[c] = args[c] /\ D(c)' = D(c)
          /\ pc'[c] \notin {"off", "list", "save"} /\ (pc'[c] \in Spawning => pc[c] \in Spawning)
          /\ mem'[c].rows = mem[c].rows /\ mem'[c].tree = mem[c].tree
      BY <1>6 DEF D
    <3>2. Lined(c)
      BY <1>1
    <3>3. (\A d \in DOMAIN mem[c].rows :
             Line(d, mem[c].rows[d].tier, mem[c].rows[d].parent) /\ d \in DOMAIN identity)'
      BY <3>1, <3>2 DEF Lined, Line
    <3>4. TreeLined(mem[c].tree)'
      BY <3>1, <3>2 DEF Lined, TreeLined, Placed, Line
    <3>5. (pc[c] \in Spawning =>
             /\ D(c) \in DOMAIN mem[c].tree /\ mem[c].tree[D(c)].tier = args[c].tier
             /\ Under(args[c].tier, mem[c].tree[D(c)].parent))'
      BY <3>1, <3>2 DEF Lined, Under, Line, Spawning, Starting
    <3> QED BY <3>1, <3>3, <3>4, <3>5 DEF Lined
  <2> QED BY <1>2, <1>6, <2>1, LinesKept
<1>7. ASSUME NEW c \in Command, SpawnBegin(c), ~Ends(c) PROVE LinesInv'
  <2>1. /\ Goes(c, "start") /\ MayRegister(mem[c].tree, D(c), args[c].tier, args[c].parent)
        /\ mem'[c].rows = mem[c].rows
        /\ mem'[c].tree = Register(mem[c].tree, D(c), args[c].tier, args[c].parent)
        /\ UNCHANGED <<env, db, ghosts>> /\ pc[c] = "spawn"
    BY <1>7, SpawnBeginGives
  <2>2. Line(D(c), args[c].tier, args[c].parent)
    <3>1. args[c] \in env.commands /\ args[c].op = "spawn"
      BY <2>1, AboutDept DEF CommandsInv, Reached, Operation
    <3> QED BY <3>1 DEF Line, D
  <2>3. /\ TreeLined(mem'[c].tree)
        /\ D(c) \in DOMAIN mem'[c].tree /\ mem'[c].tree[D(c)].tier = args[c].tier
        /\ Under(args[c].tier, mem'[c].tree[D(c)].parent)
    <3>1. TreeLined(mem[c].tree) /\ TreeWell(mem[c].tree)
      BY <1>1 DEF Lined, TreesInv
    <3> QED BY <2>1, <2>2, <3>1, RegisterLined
  <2>4. Lined(c)'
    <3>1. /\ pc'[c] = "start" /\ args'[c] = args[c] /\ D(c)' = D(c)
          /\ env' = env /\ identity' = identity
      BY <2>1 DEF Goes, D, ghosts
    <3>2. \A d \in DOMAIN mem[c].rows :
             Line(d, mem[c].rows[d].tier, mem[c].rows[d].parent) /\ d \in DOMAIN identity
      BY <1>1 DEF Lined
    <3>3. (\A d \in DOMAIN mem[c].rows :
             Line(d, mem[c].rows[d].tier, mem[c].rows[d].parent) /\ d \in DOMAIN identity)'
      BY <2>1, <3>1, <3>2 DEF Line
    <3>4. TreeLined(mem[c].tree)'
      BY <2>3, <3>1 DEF TreeLined, Placed, Line
    <3>5. Under(args[c].tier, mem[c].tree[D(c)].parent)'
      BY <2>3, <3>1 DEF Under, Line
    <3> QED BY <2>3, <3>1, <3>3, <3>4, <3>5 DEF Lined
  <2> QED BY <1>2, <2>1, <2>4, LinesKept DEF Goes, ghosts
<1>8. ASSUME NEW c \in Command, SpawnJoin(c), ~Ends(c) PROVE LinesInv'
  <2> DEFINE d == D(c)
             new == [tier |-> args[c].tier, parent |-> mem[c].tree[d].parent]
  <2>1. ~Destroy(c, link[d])
    BY <1>8, DestroyEnds
  <2>2. /\ Goes(c, "save") /\ pc[c] = "join" /\ mem'[c].rows = mem[c].rows
        /\ mem'[c].tree = mem[c].tree /\ UNCHANGED <<env, db>>
    BY <1>8, <2>1, SpawnJoinGives
  <2>3. identity' = With(identity, d, new)
    BY <1>8, <2>1 DEF SpawnJoin
  <2>4. /\ DOMAIN identity' = DOMAIN identity \cup {d} /\ identity'[d] = new
        /\ \A x \in DOMAIN identity : x # d => identity'[x] = identity[x]
    BY <2>3 DEF With
  <2>5. /\ d \in DOMAIN mem[c].tree /\ mem[c].tree[d].tier = args[c].tier
        /\ Placed(d, mem[c].tree[d].tier, mem[c].tree[d].parent)
        /\ Under(args[c].tier, mem[c].tree[d].parent)
    BY <1>1, <2>2 DEF Lined, TreeLined, Spawning, Starting
  <2>6. Placed(d, new.tier, new.parent) /\ Under(new.tier, new.parent)
    BY <2>5
  <2> HIDE DEF new
  <2>7. ASSUME NEW x \in DOMAIN identity'
        PROVE  Placed(x, identity'[x].tier, identity'[x].parent)
               /\ Under(identity'[x].tier, identity'[x].parent)
    <3>1. CASE x = d
      BY <2>4, <2>6, <3>1
    <3>2. CASE x # d
      BY <2>4, <3>2 DEF LinesInv, IdentitiesLined
    <3> QED BY <3>1, <3>2
  <2>8. IdentitiesLined'
    BY <2>2, <2>7 DEF IdentitiesLined, Placed, Under, Line
  <2>9. RowsLined'
    BY <2>2, <2>4 DEF LinesInv, RowsLined, Line
  <2>10. Lined(c)'
    <3>1. /\ pc'[c] = "save" /\ D(c)' = d /\ args'[c] = args[c] /\ env' = env
          /\ DOMAIN identity \subseteq DOMAIN identity' /\ d \in DOMAIN identity'
      BY <2>2, <2>4 DEF Goes, D
    <3>2. \A x \in DOMAIN mem[c].rows :
             Line(x, mem[c].rows[x].tier, mem[c].rows[x].parent) /\ x \in DOMAIN identity'
      BY <1>1, <3>1 DEF Lined
    <3>3. TreeLined(mem[c].tree)
      BY <1>1 DEF Lined
    <3> HIDE DEF d
    <3>4. (\A x \in DOMAIN mem[c].rows :
             Line(x, mem[c].rows[x].tier, mem[c].rows[x].parent) /\ x \in DOMAIN identity)'
      BY <2>2, <3>1, <3>2 DEF Line
    <3>5. TreeLined(mem[c].tree)'
      BY <2>2, <3>1, <3>3 DEF TreeLined, Placed, Line
    <3>6. Under(args[c].tier, mem[c].tree[D(c)].parent)'
      BY <2>2, <2>5, <3>1 DEF Under, Line
    <3>7. /\ mem'[c].tree = mem[c].tree
          /\ d \in DOMAIN mem[c].tree /\ mem[c].tree[d].tier = args[c].tier
      BY <2>2, <2>5
    <3> QED BY <3>1, <3>4, <3>5, <3>6, <3>7 DEF Lined
  <2> QED BY <2>2, <2>4, <2>8, <2>9, <2>10, LinesKept DEF Goes
<1>9. ASSUME NEW c \in Command, SpawnSave(c) PROVE LinesInv'
  <2>1. Ends(c) /\ env' = env /\ identity' = identity /\ pc[c] = "save"
        /\ (db' = db \/ db' = With(db, D(c), Row(c)))
    BY <1>9, EndsGives DEF SpawnSave, ghosts
  <2>2. Line(D(c), args[c].tier, args[c].parent) /\ D(c) \in DOMAIN identity
    <3>1. args[c] \in env.commands /\ args[c].op = "spawn"
      BY <2>1, AboutDept DEF CommandsInv, Reached, Spawning, Starting
    <3> QED BY <1>1, <2>1, <3>1 DEF Line, D, Lined
  <2>3. ASSUME db' = With(db, D(c), Row(c)), NEW x \in DOMAIN db'
        PROVE  Line(x, db'[x].tier, db'[x].parent) /\ x \in DOMAIN identity
    <3>1. CASE x # D(c)
      BY <2>3, <3>1 DEF With, LinesInv, RowsLined
    <3>2. CASE x = D(c)
      <4>1. db'[x] = Row(c)
        BY <2>3, <3>2 DEF With
      <4> QED BY <2>2, <3>2, <4>1 DEF Row, D, LinesInv, RowsLined
    <3> QED BY <3>1, <3>2
  <2>4. RowsLined'
    BY <2>1, <2>3 DEF LinesInv, RowsLined, Line
  <2> QED BY <2>1, <2>4, LinesEnd
<1>10. ASSUME NEW c \in Command, Ends(c), UNCHANGED <<env, db, identity>> PROVE LinesInv'
  BY <1>2, <1>10, LinesEnd
<1>11. ASSUME UNCHANGED <<env, db, pc, args, mem, identity>> PROVE LinesInv'
  BY <1>11 DEF LinesInv, RowsLined, IdentitiesLined, Lined, TreeLined, Placed, Under, Line, D
<1>12. ASSUME NEW c \in Command, NEW l, Destroy(c, l) PROVE LinesInv'
  BY <1>10, <1>12, DestroyEnds DEF Destroy
<1>13. ASSUME NEW c \in Command, Step(c) PROVE LinesInv'
  <2>1. CASE LoadIPAM(c)
    <3>1. /\ Goes(c, args[c].op) /\ mem'[c].rows = mem[c].rows /\ mem'[c].tree = mem[c].tree
          /\ UNCHANGED <<env, db, ghosts>> /\ args[c].op \in Operation
      BY <2>1, LoadIPAMGives
    <3> QED BY <1>6, <3>1 DEF Goes, ghosts, Operation, Spawning, Starting
  <2>2. CASE SpawnBegin(c)
    BY <1>7, <1>10, <2>2, SpawnBeginGives DEF ghosts
  <2>3. CASE SpawnStart(c)
    <3>1. CASE /\ Others(c) /\ pc[c] = "start" /\ pc'[c] = "veth"
               /\ UNCHANGED <<env, args, mem, db, ghosts>>
      BY <1>6, <3>1 DEF ghosts, Spawning, Starting
    <3>2. CASE Ends(c) /\ UNCHANGED <<env, db, ghosts>>
      BY <1>10, <3>2 DEF ghosts
    <3> QED BY <1>12, <2>3, <3>1, <3>2, SpawnStartGives
  <2>4. CASE SpawnVeth(c)
    <3>1. CASE /\ Goes(c, "join") /\ pc[c] = "veth" /\ mem' = mem
               /\ UNCHANGED <<env, db, ghosts>>
      BY <1>6, <3>1 DEF Goes, ghosts, Spawning, Starting
    <3> QED BY <1>12, <2>4, <3>1, SpawnVethGives
  <2>5. CASE SpawnJoin(c)
    <3>1. CASE Destroy(c, link[D(c)])
      BY <1>12, <3>1
    <3>2. CASE ~Destroy(c, link[D(c)])
      <4>1. pc'[c] = "save"
        BY <2>5, <3>2, SpawnJoinGives DEF Goes
      <4>2. ~Ends(c)
        BY <4>1, EndsFields
      <4> QED BY <1>8, <2>5, <4>2
    <3> QED BY <3>1, <3>2
  <2>6. CASE QuarantineFreeze(c)
    <3>1. CASE /\ Goes(c, "drop") /\ mem'[c].rows = mem[c].rows /\ mem'[c].tree = mem[c].tree
               /\ UNCHANGED <<env, db, ghosts>>
      BY <1>6, <3>1 DEF Goes, ghosts, Spawning, Starting
    <3>2. CASE Ends(c) /\ UNCHANGED <<env, db, ghosts>>
      BY <1>10, <3>2 DEF ghosts
    <3> QED BY <2>6, <3>1, <3>2, QuarantineFreezeGives
  <2>7. CASE SnapshotFreeze(c)
    <3>1. CASE /\ Goes(c, "thaw") /\ mem'[c].rows = mem[c].rows /\ mem'[c].tree = mem[c].tree
               /\ UNCHANGED <<env, db, ghosts>>
      BY <1>6, <3>1 DEF Goes, ghosts, Spawning, Starting
    <3>2. CASE Ends(c) /\ UNCHANGED <<env, db, ghosts>>
      BY <1>10, <3>2 DEF ghosts
    <3> QED BY <2>7, <3>1, <3>2, SnapshotFreezeGives
  <2>8. CASE Status(c) \/ QuarantineDrop(c) \/ Unquarantine(c) \/ SnapshotThaw(c) \/ Crash(c)
    <3>1. Ends(c) /\ env' = env /\ db' = db
      BY <2>8, EndsGives DEF Status, QuarantineDrop, Unquarantine, SnapshotThaw, Crash
    <3>2. identity' = identity
      BY <2>8 DEF Status, QuarantineDrop, Unquarantine, SnapshotThaw, Crash, ghosts
    <3> QED BY <1>10, <3>1, <3>2
  <2> QED BY <1>3, <1>4, <1>5, <1>9, <1>13, <2>1, <2>2, <2>3, <2>4, <2>5, <2>6, <2>7, <2>8
             DEF Step
<1>14. ASSUME NEW p \in Pid, ContainerDies(p) \/ HostTakesPid(p) PROVE LinesInv'
  BY <1>11, <1>14 DEF ContainerDies, Vanish, HostTakesPid, procs, ghosts
<1> QED BY <1>11, <1>13, <1>14 DEF Next, vars, procs, ghosts

\* With one line per department, a department's tier and parent never change.
LEMMA OnePlace ==
    ASSUME OneLinePerDept, CommandsInv, NEW d, NEW t, NEW p, Placed(d, t, p), NEW u, NEW q,
           Placed(d, u, q)
    PROVE  t = u /\ p = q
BY DEF Placed, Line, OneLinePerDept, CommandsInv, TypedCommands

\* As spawned, tiers fall from parent to child and numbers rise.
LEMMA IdentitiesFall ==
    ASSUME OneLinePerDept, ParentsComeFirst, CommandsInv, LinesInv
    PROVE  /\ DOMAIN identity \subseteq Nat
           /\ \A S \in SUBSET DOMAIN identity : TiersFall(identity, S)
           /\ \A d \in DOMAIN identity : identity[d].parent < d
<1> SUFFICES ASSUME NEW d \in DOMAIN identity
             PROVE  /\ d \in Nat /\ identity[d].tier \in Tier /\ identity[d].parent < d
                    /\ identity[d].tier # Root /\ identity[d].parent \in DOMAIN identity
                         => identity[identity[d].parent].tier > identity[d].tier
  BY DEF TiersFall
<1>1. /\ Placed(d, identity[d].tier, identity[d].parent)
      /\ Under(identity[d].tier, identity[d].parent)
  BY DEF LinesInv, IdentitiesLined
<1>2. PICK q : /\ Line(d, identity[d].tier, q)
               /\ identity[d].parent = IF identity[d].tier = Root THEN NoParent ELSE q
  BY <1>1 DEF Placed
<1>3. env \in Environments /\ \A a \in env.commands : a \in Args
  BY DepartmentsAssumption DEF CommandsInv, TypedCommands
<1>4. PICK a \in env.commands :
         a.op = "spawn" /\ a.dept = d /\ a.tier = identity[d].tier /\ a.parent = q
  BY <1>2 DEF Line
<1>5. d \in Dept /\ identity[d].tier \in Tier /\ d \in Nat
  BY <1>3, <1>4, DepartmentsAssumption DEF Args
<1>6. identity[d].parent < d
  <2>1. CASE identity[d].tier = Root
    BY <1>2, <1>5, <2>1 DEF NoParent
  <2>2. CASE identity[d].tier # Root
    BY <1>2, <1>3, <1>4, <2>2 DEF ParentsComeFirst
  <2> QED BY <2>1, <2>2
<1>7. ASSUME identity[d].tier # Root, identity[d].parent \in DOMAIN identity
      PROVE  identity[identity[d].parent].tier > identity[d].tier
  <2> DEFINE e == identity[d].parent
  <2>1. PICK x, y : Line(e, x, y) /\ x > identity[d].tier
    BY <1>1, <1>7 DEF Under
  <2>2. PICK z : Line(e, identity[e].tier, z)
    BY <1>7 DEF LinesInv, IdentitiesLined, Placed
  <2>3. x = identity[e].tier
    BY <1>3, <2>1, <2>2 DEF Line, OneLinePerDept
  <2> QED BY <2>1, <2>3
<1> QED BY <1>5, <1>6, <1>7

\* Where two maps of identities agree on C, so do the trees they give.
LEMMA SameTree ==
    ASSUME NEW I, NEW J, NEW C, TiersFall(I, C), NEW R, Grows(I, C, R),
           \A d \in C : J[d].tier = I[d].tier /\ J[d].parent = I[d].parent
    PROVE  RootedIn(J, C) = R /\ Grows(J, C, R) /\ TreeOf(J, R) = TreeOf(I, R)
<1>1. Grows(J, C, R)
  BY DEF Grows
<1>2. TiersFall(J, C)
  BY DEF TiersFall
<1>3. RootedIn(J, C) = R
  BY <1>1, <1>2, GrowsToRooted
<1>4. R \subseteq C
  BY DEF Grows
<1>5. ASSUME NEW d \in R
      PROVE  [tier     |-> J[d].tier,
              parent   |-> J[d].parent,
              children |-> {e \in R : J[e].parent = d}]
             = [tier     |-> I[d].tier,
                parent   |-> I[d].parent,
                children |-> {e \in R : I[e].parent = d}]
  <2>1. {e \in R : J[e].parent = d} = {e \in R : I[e].parent = d}
    BY <1>4
  <2>2. J[d].tier = I[d].tier /\ J[d].parent = I[d].parent
    BY <1>4
  <2> QED BY <2>1, <2>2
<1>6. TreeOf(J, R) = TreeOf(I, R)
  BY <1>5 DEF TreeOf
<1> QED BY <1>1, <1>3, <1>6

\* A recovering command has the tree of what it has found alive, and finds by number.
Restored(c) ==
    LET C == DOMAIN mem[c].containers
        R == RootedIn(identity, C)
    IN  /\ C \subseteq DOMAIN identity
        /\ \A d \in C, e \in DOMAIN mem[c].rows : d < e
        /\ Grows(identity, C, R)
        /\ mem[c].tree = TreeOf(identity, R)

RestoredInv == \A c \in Command : pc[c] = "recover" => Restored(c)

\* Identities that are there stay.
SameIdentities ==
    \A d \in DOMAIN identity : /\ d \in DOMAIN identity'
                               /\ identity'[d].tier = identity[d].tier
                               /\ identity'[d].parent = identity[d].parent

\* What another command does leaves a recovered tree right.
LEMMA RestoredKept ==
    ASSUME OneLinePerDept, ParentsComeFirst, CommandsInv, LinesInv, RestoredInv,
           NEW c \in Command, Others(c), SameIdentities, pc'[c] = "recover" => Restored(c)'
    PROVE  RestoredInv'
<1> SUFFICES ASSUME NEW b \in Command, pc'[b] = "recover" PROVE Restored(b)'
  BY DEF RestoredInv
<1>1. CASE b = c
  BY <1>1
<1>2. CASE b # c
  <2> DEFINE C == DOMAIN mem[b].containers
             R == RootedIn(identity, C)
  <2>1. pc[b] = "recover" /\ mem'[b] = mem[b]
    BY <1>2 DEF Others
  <2>2. /\ C \subseteq DOMAIN identity /\ Grows(identity, C, R)
        /\ \A d \in C, e \in DOMAIN mem[b].rows : d < e
        /\ mem[b].tree = TreeOf(identity, R)
    BY <2>1 DEF RestoredInv, Restored
  <2>3. TiersFall(identity, C)
    BY <2>2, IdentitiesFall
  <2>4. \A d \in C : /\ d \in DOMAIN identity' /\ identity'[d].tier = identity[d].tier
                     /\ identity'[d].parent = identity[d].parent
    BY <2>2 DEF SameIdentities
  <2> HIDE DEF C, R
  <2>5. RootedIn(identity', C) = R /\ Grows(identity', C, R)
        /\ TreeOf(identity', R) = TreeOf(identity, R)
    BY <2>2, <2>3, <2>4, SameTree
  <2>6. /\ C \subseteq DOMAIN identity' /\ \A d \in C, e \in DOMAIN mem'[b].rows : d < e
        /\ Grows(identity', C, RootedIn(identity', C))
        /\ mem'[b].tree = TreeOf(identity', RootedIn(identity', C))
    BY <2>1, <2>2, <2>4, <2>5
  <2>7. C = DOMAIN mem'[b].containers
    BY <2>1 DEF C
  <2> QED BY <2>1, <2>6, <2>7 DEF Restored
<1> QED BY <1>1, <1>2

\* Each row that recovery takes adds its department to the tree or leaves it out.
LEMMA RestoredStep ==
    ASSUME OneLinePerDept, ParentsComeFirst
    PROVE  CommandsInv /\ LinesInv /\ RestoredInv /\ [Next]_vars => RestoredInv'
<1> SUFFICES ASSUME CommandsInv, LinesInv, RestoredInv, [Next]_vars PROVE RestoredInv'
  OBVIOUS
<1>1. ASSUME NEW c \in Command, Others(c), pc'[c] # "recover", identity' = identity
      PROVE  RestoredInv'
  BY <1>1, RestoredKept DEF SameIdentities
<1>2. ASSUME NEW c \in Command, List(c) PROVE RestoredInv'
  <2>1. /\ pc[c] = "list" /\ UNCHANGED <<env, kernel, db, ghosts>> /\ Goes(c, "recover")
        /\ mem'[c].containers = mem[c].containers /\ mem'[c].tree = mem[c].tree
    BY <1>2, ListGives
  <2>2. DOMAIN mem'[c].containers = {} /\ mem'[c].tree = EmptyTree
    BY <2>1 DEF LinesInv, Lined, NoMemory, Empty
  <2>3. Grows(identity, {}, {}) /\ TiersFall(identity, {}) /\ EmptyTree = TreeOf(identity, {})
    BY DEF Grows, TiersFall, EmptyTree, TreeOf
  <2>4. RootedIn(identity, {}) = {}
    BY <2>3, GrowsToRooted
  <2>5. identity' = identity
    BY <2>1 DEF ghosts
  <2>6. Restored(c)'
    BY <2>2, <2>3, <2>4, <2>5 DEF Restored, RootedIn, Grows, TreeOf
  <2> QED BY <2>1, <2>5, <2>6, RestoredKept DEF SameIdentities, Goes
<1>3. ASSUME NEW c \in Command, Recover(c) PROVE RestoredInv'
  <2> DEFINE C == DOMAIN mem[c].containers
             R == RootedIn(identity, C)
             rows == mem[c].rows
  <2>1. pc[c] = "recover" /\ UNCHANGED <<env, kernel, ghosts>> /\ Goes(c, "recover")
    BY <1>3, RecoverGives
  <2>2. PICK d \in DOMAIN rows :
           /\ d \in Dept /\ \A e \in DOMAIN rows : d <= e
           /\ mem'[c].rows = Without(rows, d)
           /\ \/ /\ mem'[c].containers = With(mem[c].containers, d, Recovered(rows[d].pid))
                 /\ mem'[c].tree = IF MayRegister(mem[c].tree, d, rows[d].tier, rows[d].parent)
                                   THEN Register(mem[c].tree, d, rows[d].tier, rows[d].parent)
                                   ELSE mem[c].tree
              \/ mem'[c].containers = mem[c].containers /\ mem'[c].tree = mem[c].tree
    BY <1>3, RecoverGives
  <2>3. /\ C \subseteq DOMAIN identity /\ \A x \in C, e \in DOMAIN rows : x < e
        /\ Grows(identity, C, R) /\ mem[c].tree = TreeOf(identity, R)
    BY <2>1 DEF RestoredInv, Restored
  <2>4. identity' = identity
    BY <2>1 DEF ghosts
  <2>5. /\ DOMAIN rows \subseteq DOMAIN identity /\ DOMAIN identity \subseteq Nat
        /\ \A x \in DOMAIN identity : identity[x].parent < x
        /\ \A S \in SUBSET DOMAIN identity : TiersFall(identity, S)
    BY IdentitiesFall DEF LinesInv, Lined
  <2>6. DOMAIN mem'[c].rows = DOMAIN rows \ {d}
    BY <2>2 DEF Without
  <2>7. \A e \in DOMAIN mem'[c].rows : d < e
    BY <2>2, <2>5, <2>6
  <2>8. CASE mem'[c].containers = mem[c].containers /\ mem'[c].tree = mem[c].tree
    <3>1. DOMAIN mem'[c].containers = C /\ \A x \in C, e \in DOMAIN mem'[c].rows : x < e
      BY <2>3, <2>6, <2>8
    <3> HIDE DEF C
    <3>2. Restored(c)'
      BY <2>3, <2>4, <2>8, <3>1 DEF Restored
    <3> QED BY <2>1, <2>4, <3>2, RestoredKept DEF SameIdentities, Goes
  <2>9. CASE /\ mem'[c].containers = With(mem[c].containers, d, Recovered(rows[d].pid))
             /\ mem'[c].tree = IF MayRegister(mem[c].tree, d, rows[d].tier, rows[d].parent)
                               THEN Register(mem[c].tree, d, rows[d].tier, rows[d].parent)
                               ELSE mem[c].tree
    <3> DEFINE t == rows[d].tier
               p == rows[d].parent
               S == C \cup {d}
               Q == IF identity[d].tier = Root \/ identity[d].parent \in R THEN R \cup {d} ELSE R
    <3>1. DOMAIN mem'[c].containers = S
      BY <2>9 DEF With
    <3>2. identity[d].tier = t /\ identity[d].parent = IF t = Root THEN NoParent ELSE p
      <4>1. Line(d, t, p) /\ Placed(d, identity[d].tier, identity[d].parent)
        BY <2>5 DEF LinesInv, Lined, IdentitiesLined
      <4>2. Placed(d, t, IF t = Root THEN NoParent ELSE p)
        BY <4>1 DEF Placed
      <4> QED BY <4>1, <4>2, OnePlace
    <3>3. /\ d \in Nat /\ d \notin C /\ S \subseteq DOMAIN identity /\ R \subseteq C
          /\ R \subseteq Nat /\ d \notin R
      BY <2>3, <2>5 DEF Grows
    <3>4. identity[d].parent # d /\ \A e \in C : identity[e].parent # d
      <4>1. \A e \in C : e < d /\ identity[e].parent < e
        BY <2>3, <2>5
      <4>2. ASSUME NEW e \in C, identity[e].parent = d PROVE FALSE
        BY <2>5, <3>3, <4>1, <4>2
      <4> QED BY <2>5, <3>3, <4>2
    <3>5. Grows(identity, S, Q)
      <4> HIDE DEF C, R
      <4> QED BY <2>3, <3>3, <3>4, RootedAdds
    <3>6. RootedIn(identity, S) = Q
      <4> HIDE DEF C, R, Q, S
      <4> QED BY <2>5, <3>3, <3>5, GrowsToRooted
    <3>7. MayRegister(mem[c].tree, d, t, p) <=> t = Root \/ identity[d].parent \in R
      <4>1. DOMAIN mem[c].tree = R /\ \A e \in R : mem[c].tree[e].tier = identity[e].tier
        <5> HIDE DEF R
        <5> QED BY <2>3 DEF TreeOf
      <4>2. TiersFall(identity, S)
        BY <2>5, <3>3
      <4>3. t # Root /\ p \in R => identity[p].tier > t
        BY <3>2, <3>3, <4>2 DEF TiersFall
      <4> QED BY <3>2, <3>3, <4>1, <4>3 DEF MayRegister
    <3>8. mem'[c].tree = TreeOf(identity, Q)
      <4>1. CASE t = Root \/ identity[d].parent \in R
        <5>1. mem'[c].tree = Register(mem[c].tree, d, t, p) /\ Q = R \cup {d}
          BY <2>9, <3>2, <3>7, <4>1
        <5>2. p # d \/ t = Root
          BY <3>2, <3>4
        <5>3. Register(TreeOf(identity, R), d, t, p) = TreeOf(identity, R \cup {d})
          <6>1. Addable(identity, R, d, t, p)
            BY <3>2, <3>3, <3>4, <5>2 DEF Addable
          <6> HIDE DEF C, R, t, p
          <6> QED BY <6>1, RegisterAdds
        <5> QED BY <2>3, <5>1, <5>3
      <4>2. CASE ~(t = Root \/ identity[d].parent \in R)
        BY <2>3, <2>9, <3>2, <3>7, <4>2
      <4> QED BY <4>1, <4>2
    <3>9. \A x \in S, e \in DOMAIN mem'[c].rows : x < e
      BY <2>3, <2>6, <2>7
    <3>10. Restored(c)'
      <4> HIDE DEF S, Q, R, C
      <4> QED BY <2>4, <3>1, <3>3, <3>5, <3>6, <3>8, <3>9 DEF Restored
    <3> QED BY <2>1, <2>4, <3>10, RestoredKept DEF SameIdentities, Goes
  <2> QED BY <2>2, <2>8, <2>9
<1>4. ASSUME NEW c \in Command, SpawnJoin(c), ~Destroy(c, link[D(c)]) PROVE RestoredInv'
  <2> DEFINE d == D(c)
             new == [tier |-> args[c].tier, parent |-> mem[c].tree[d].parent]
  <2>1. Goes(c, "save") /\ pc[c] = "join"
    BY <1>4, SpawnJoinGives
  <2>2. identity' = With(identity, d, new)
    BY <1>4 DEF SpawnJoin
  <2>3. /\ DOMAIN identity' = DOMAIN identity \cup {d} /\ identity'[d] = new
        /\ \A x \in DOMAIN identity : x # d => identity'[x] = identity[x]
    BY <2>2 DEF With
  <2>4. d \in DOMAIN mem[c].tree /\ Placed(d, args[c].tier, mem[c].tree[d].parent)
    BY <2>1 DEF LinesInv, Lined, TreeLined, Spawning, Starting
  <2>5. d \in DOMAIN identity =>
          identity[d].tier = args[c].tier /\ identity[d].parent = mem[c].tree[d].parent
    BY <2>4, OnePlace DEF LinesInv, IdentitiesLined
  <2>6. SameIdentities
    BY <2>3, <2>5 DEF SameIdentities
  <2> QED BY <2>1, <2>6, RestoredKept DEF Goes
<1>5. ASSUME NEW c \in Command, Ends(c), identity' = identity PROVE RestoredInv'
  BY <1>1, <1>5, EndsFields
<1>6. ASSUME NEW c \in Command, NEW l, Destroy(c, l) PROVE RestoredInv'
  BY <1>5, <1>6, DestroyEnds DEF Destroy
<1>7. ASSUME NEW c \in Command, Step(c) PROVE RestoredInv'
  <2>1. CASE Start(c)
    <3>1. pc'[c] = "list" /\ Others(c) /\ identity' = identity
      BY <2>1, StartDoes DEF CommandsInv, TypedCommands, Only, Others, ghosts
    <3> QED BY <1>1, <3>1
  <2>2. CASE LoadIPAM(c)
    <3>1. Goes(c, args[c].op) /\ args[c].op \in Operation /\ identity' = identity
      BY <2>2, LoadIPAMGives DEF ghosts
    <3> QED BY <1>1, <3>1 DEF Goes, Operation
  <2>3. CASE SpawnBegin(c)
    <3>1. identity' = identity /\ (Ends(c) \/ Goes(c, "start"))
      BY <2>3, SpawnBeginGives DEF ghosts
    <3> QED BY <1>1, <1>5, <3>1 DEF Goes
  <2>4. CASE SpawnStart(c)
    <3>1. CASE Others(c) /\ pc'[c] = "veth" /\ identity' = identity
      BY <1>1, <3>1
    <3>2. CASE Ends(c) /\ identity' = identity
      BY <1>5, <3>2
    <3> QED BY <1>6, <2>4, <3>1, <3>2, SpawnStartGives DEF ghosts
  <2>5. CASE SpawnVeth(c)
    <3>1. CASE Goes(c, "join") /\ identity' = identity
      BY <1>1, <3>1 DEF Goes
    <3> QED BY <1>6, <2>5, <3>1, SpawnVethGives DEF ghosts
  <2>6. CASE SpawnJoin(c)
    BY <1>4, <1>6, <2>6
  <2>7. CASE QuarantineFreeze(c)
    <3>1. identity' = identity /\ (Ends(c) \/ Goes(c, "drop"))
      BY <2>7, QuarantineFreezeGives DEF ghosts
    <3> QED BY <1>1, <1>5, <3>1 DEF Goes
  <2>8. CASE SnapshotFreeze(c)
    <3>1. identity' = identity /\ (Ends(c) \/ Goes(c, "thaw"))
      BY <2>8, SnapshotFreezeGives DEF ghosts
    <3> QED BY <1>1, <1>5, <3>1 DEF Goes
  <2>9. CASE \/ Status(c) \/ SpawnSave(c) \/ QuarantineDrop(c) \/ Unquarantine(c)
             \/ SnapshotThaw(c) \/ Crash(c)
    <3>1. Ends(c)
      BY <2>9, EndsGives
    <3>2. identity' = identity
      <4>1. CASE Status(c) \/ SpawnSave(c) \/ Crash(c)
        BY <4>1 DEF Status, SpawnSave, Crash, ghosts
      <4>2. CASE QuarantineDrop(c) \/ Unquarantine(c)
        BY <4>2 DEF QuarantineDrop, Unquarantine
      <4>3. CASE SnapshotThaw(c)
        BY <4>3 DEF SnapshotThaw, ghosts
      <4> QED BY <2>9, <4>1, <4>2, <4>3
    <3> QED BY <1>5, <3>1, <3>2
  <2> QED BY <1>2, <1>3, <1>7, <2>1, <2>2, <2>3, <2>4, <2>5, <2>6, <2>7, <2>8, <2>9 DEF Step
<1>8. ASSUME UNCHANGED <<pc, mem, identity>> PROVE RestoredInv'
  <2>1. ASSUME NEW c \in Command, pc'[c] = "recover" PROVE Restored(c)'
    <3>1. Restored(c) /\ mem' = mem /\ identity' = identity
      BY <1>8, <2>1 DEF RestoredInv
    <3> QED BY <3>1 DEF Restored
  <2> QED BY <2>1 DEF RestoredInv
<1>9. ASSUME NEW p \in Pid, ContainerDies(p) \/ HostTakesPid(p) PROVE RestoredInv'
  BY <1>8, <1>9 DEF ContainerDies, Vanish, HostTakesPid, procs, ghosts
<1> QED BY <1>7, <1>8, <1>9 DEF Next, vars, procs, ghosts

\* If each department is always spawned with the same tier and parent, and parents have
\* lower numbers than their children, then whatever died, failed or was killed, and whatever
\* runs side by side, a command that has recovered has the tree of the living departments
\* whose ancestors live (recoverRunningDepartments, RegisterDepartment).
THEOREM RecoveryRestores ==
    ASSUME OneLinePerDept, ParentsComeFirst
    PROVE  Spec => []RecoveryRestoresHierarchy
<1> DEFINE Inv == CommandsInv /\ TreesInv /\ LinesInv /\ RestoredInv
<1>1. Init => Inv
  <2> SUFFICES ASSUME Init PROVE Inv
    OBVIOUS
  <2>1. \A c \in Command : mem[c] = NoMemory /\ pc[c] = "off"
    BY DEF Init
  <2>2. TreesInv
    BY <2>1 DEF TreesInv, TreeWell, NoMemory, EmptyTree
  <2>3. LinesInv
    BY <2>1 DEF Init, LinesInv, RowsLined, IdentitiesLined, Lined, TreeLined, NoMemory,
                EmptyTree, Empty, Spawning, Starting
  <2> QED BY <2>1, <2>2, <2>3, CommandsInit DEF RestoredInv
<1>2. Inv /\ [Next]_vars => Inv'
  BY CommandsStep, TreesStep, LinesStep, RestoredStep
<1>3. Inv => RecoveryRestoresHierarchy
  <2> SUFFICES ASSUME RestoredInv, NEW c \in Command, pc[c] = "recover"
               PROVE  mem[c].tree = TreeOf(identity, Rooted(DOMAIN mem[c].containers))
    BY DEF RecoveryRestoresHierarchy, TreeOf
  <2>1. Rooted(DOMAIN mem[c].containers) = RootedIn(identity, DOMAIN mem[c].containers)
    BY DEF Rooted, RootedIn
  <2> QED BY <2>1 DEF RestoredInv, Restored
<1> QED BY <1>1, <1>2, <1>3, PTL DEF Spec
===============================================================================
