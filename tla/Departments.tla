------------------------------ MODULE Departments ------------------------------
(***************************************************************************)
(* The life of department containers: dept spawn, quarantine, unquarantine *)
(* and snapshot (cmd/ghost-ctl/main.go, namespace/dept.go) over the state  *)
(* database (state.go), the subnet allocator (ipam.go) and the hierarchy.  *)
(* Every ghost-ctl command is a process that rebuilds its memory from the  *)
(* database, makes one call of the DepartmentManager and exits; containers,*)
(* cgroups, links and rulesets belong to the kernel and outlive it.        *)
(***************************************************************************)
EXTENDS Hierarchy, FiniteSetsExt

CONSTANTS Dept,         \* department ids
          Command,      \* processes that run ghost-ctl
          Pid,          \* process numbers of the host
          Subnet,       \* third octets 1 .. IPAMMaxSubnets - 1
          Environments  \* what may happen (see Environment)

Operation == {"spawn", "quarantine", "unquarantine", "snapshot", "status"}

\* A command line.  "status" stands for every command that changes no department, the
\* start of the daemon included.
Args == [op : Operation, dept : Dept, tier : Tier, parent : Dept \cup {NoParent}]

\* overlap: commands may run side by side.  deaths: container inits may exit.  reuse: the
\* kernel may hand out a process number that the program still remembers.  faults: steps
\* that may fail, and "crash", the end of a command at any step.
Environment == [commands : SUBSET Args,
                overlap  : BOOLEAN,
                deaths   : BOOLEAN,
                reuse    : BOOLEAN,
                faults   : SUBSET {"start", "veth", "save", "nft", "crash"}]

Free   == -1  \* no process has this number
Host   == -2  \* a process of the host has it
NoPid  == 0
NoLink == 0
Stray  == -1  \* a link whose peer never got into a namespace

ASSUME DepartmentsAssumption ==
    /\ Dept \subseteq Nat /\ Subnet \subseteq Nat \ {0}
    /\ Pid \cap {NoPid, NoLink, Stray} = {}
    /\ \A e \in Environments : DOMAIN e = {"commands", "overlap", "deaths", "reuse", "faults"}
    /\ \A e \in Environments : e.commands \subseteq Args

VARIABLES
    env,         \* the environment of this behaviour
    owner,       \* whose process a pid is: a department's init, Host or Free
    joined,      \* inits that were moved to their department's cgroup
    addr,        \* the subnet an init's interface was given
    link,        \* veth-dept<d>-h: NoLink, Stray, or the pid that holds its peer
    cgroup,      \* dept-<d>: "absent", "thawed" or "frozen"
    dropped,     \* inits whose network namespace drops everything
    hostDropped, \* the host's own network namespace does
    db,          \* the departments table
    pc,          \* where each command is; "off": it does not run
    args,        \* its command line
    pid,         \* the init it has started, or NoPid
    mem,         \* the rest of its memory (see NoMemory)
    held,        \* ghost: departments with an acknowledged quarantine not yet undone
    silenced,    \* ghost: the inits that were quarantined
    identity     \* ghost: tier and parent each container was last spawned with

kernel == <<owner, joined, addr, link, cgroup, dropped, hostDropped>>
ghosts == <<held, silenced, identity>>
procs  == <<pc, args, pid, mem>>
vars   == <<env, kernel, db, procs, ghosts>>

Empty == [d \in {} |-> 0]

NoArgs == [op |-> "status", dept |-> 0, tier |-> Staff, parent |-> NoParent]

NoMemory == [rows       |-> Empty,  \* RecoverRunningDepartments' list, what is left of it
             containers |-> Empty,  \* DepartmentManager.containers
             tree       |-> EmptyTree,
             allocated  |-> Empty,  \* IPAM.allocated
             wasFrozen  |-> FALSE]  \* a local of SnapshotDepartment

Init ==
    /\ env \in Environments
    /\ owner = [p \in Pid |-> Free] /\ joined = {} /\ addr = [p \in Pid |-> 0]
    /\ link = [d \in Dept |-> NoLink] /\ cgroup = [d \in Dept |-> "absent"]
    /\ dropped = {} /\ hostDropped = FALSE
    /\ db = Empty
    /\ pc = [c \in Command |-> "off"] /\ args = [c \in Command |-> NoArgs]
    /\ pid = [c \in Command |-> NoPid] /\ mem = [c \in Command |-> NoMemory]
    /\ held = {} /\ silenced = {} /\ identity = Empty

Idle == \A c \in Command : pc[c] = "off"

D(c) == args[c].dept

Goto(c, label) == pc' = [pc EXCEPT ![c] = label]

Exit(c) ==
    /\ Goto(c, "off")
    /\ args' = [args EXCEPT ![c] = NoArgs]
    /\ pid' = [pid EXCEPT ![c] = NoPid]
    /\ mem' = [mem EXCEPT ![c] = NoMemory]

Without(f, d) == [x \in DOMAIN f \ {d} |-> f[x]]
With(f, d, e) == [x \in DOMAIN f \cup {d} |-> IF x = d THEN e ELSE f[x]]

Alive(p) == owner[p] # Free

-----------------------------------------------------------------------------
(* A command starts: initializeOnce.                                       *)

Start(c) ==
    /\ pc[c] = "off"
    /\ env.overlap \/ Idle
    /\ \E a \in env.commands : args' = [args EXCEPT ![c] = a]
    /\ Goto(c, "list")
    /\ UNCHANGED <<env, kernel, db, pid, mem, ghosts>>

\* ListDepartments("running")
List(c) ==
    /\ pc[c] = "list"
    /\ LET running == {d \in DOMAIN db : db[d].status = "running"}
       IN  mem' = [mem EXCEPT ![c].rows = [d \in running |-> db[d]]]
    /\ Goto(c, "recover")
    /\ UNCHANGED <<env, kernel, db, args, pid, ghosts>>

\* Slip: the rows in another order.
LastRow(rows) == Max(DOMAIN rows)

\* ORDER BY dept_id
NextRow(rows) == Min(DOMAIN rows)

\* RecoverRunningDepartments looks for /proc/<pid>.
SeemsAlive(c, d) == Alive(mem[c].rows[d].pid)

\* RegisterRecoveredContainer: neither flag is restored.
Recovered(p) == [pid |-> p, frozen |-> FALSE, quarantined |-> FALSE]

Recover(c) ==
    /\ pc[c] = "recover" /\ DOMAIN mem[c].rows # {}
    /\ LET d   == NextRow(mem[c].rows)
           row == mem[c].rows[d]
       IN  \/ /\ SeemsAlive(c, d)
              /\ mem' = [mem EXCEPT
                    ![c].rows = Without(@, d),
                    ![c].containers = With(@, d, Recovered(row.pid)),
                    ![c].tree = IF MayRegister(@, d, row.tier, row.parent)
                                THEN Register(@, d, row.tier, row.parent) ELSE @]
              /\ UNCHANGED db
           \/ /\ ~SeemsAlive(c, d)
              /\ db' = [db EXCEPT ![d].status = "stopped"]
              /\ mem' = [mem EXCEPT ![c].rows = Without(@, d)]
    /\ UNCHANGED <<env, kernel, pc, args, pid, ghosts>>

\* Slip: only running departments keep their subnets.
AllocatedToRunning == {d \in DOMAIN db : db[d].status = "running"}

\* WHERE status != 'deleted': no row ever is.
AllocatedRows == DOMAIN db

\* NewIPAM and loadFromDB; the bitmap is the range of allocated.
LoadIPAM(c) ==
    /\ pc[c] = "recover" /\ DOMAIN mem[c].rows = {}
    /\ mem' = [mem EXCEPT ![c].allocated = [d \in AllocatedRows |-> db[d].subnet]]
    /\ Goto(c, args[c].op)
    /\ UNCHANGED <<env, kernel, db, args, pid, ghosts>>

\* dept status, hierarchy show, ...
Status(c) ==
    /\ pc[c] = "status"
    /\ Exit(c)
    /\ UNCHANGED <<env, kernel, db, ghosts>>

-----------------------------------------------------------------------------
(* dept spawn *)

Members(d) == {p \in joined : owner[p] = d}

\* The end of process p: its network namespace and the link into it go with it.
Vanish(p) ==
    /\ owner' = [owner EXCEPT ![p] = Free]
    /\ joined' = joined \ {p}
    /\ addr' = [addr EXCEPT ![p] = 0]
    /\ dropped' = dropped \ {p}
    /\ silenced' = silenced \ {p}

\* destroyFailedSpawn: kill the child if there is one, remove the cgroup if nothing is in
\* it.  A link that never got into a namespace stays.
Destroy(c, linkBefore) ==
    LET d == D(c)
        p == pid[c]
    IN  /\ IF p # NoPid /\ owner[p] = d
           THEN Vanish(p)
           ELSE UNCHANGED <<owner, joined, addr, dropped, silenced>>
        /\ link' = [link EXCEPT ![d] = IF linkBefore = p THEN NoLink ELSE linkBefore]
        /\ LET gone == Members(d) \subseteq {p}
           IN  /\ cgroup' = [cgroup EXCEPT ![d] = IF gone THEN "absent" ELSE @]
               /\ held' = IF gone THEN held \ {d} ELSE held
        /\ Exit(c)
        /\ UNCHANGED <<env, hostDropped, db, identity>>

\* Slip: the search starts at 0, which is reserved.
FreeSubnetsFromZero(c) ==
    (Subnet \cup {0}) \ {mem[c].allocated[d] : d \in DOMAIN mem[c].allocated}

\* IPAM.Allocate
FreeSubnets(c) == Subnet \ {mem[c].allocated[d] : d \in DOMAIN mem[c].allocated}

CanAllocate(c) == D(c) \in DOMAIN mem[c].allocated \/ FreeSubnets(c) # {}

\* Slip: a department that has a subnet is given another.
AllocationAnew(c) == Min(FreeSubnets(c))

Allocation(c) ==
    IF D(c) \in DOMAIN mem[c].allocated THEN mem[c].allocated[D(c)] ELSE Min(FreeSubnets(c))

\* Slip: the cgroup starts thawed.
SetupCgroupThawed(d) == [cgroup EXCEPT ![d] = "thawed"]

\* setupCgroup keeps a cgroup that is there, frozen or not.
SetupCgroup(d) == [cgroup EXCEPT ![d] = IF @ = "absent" THEN "thawed" ELSE @]

\* RegisterDepartment, newSpawnConfig, and SpawnDepartment up to setupCgroup.
SpawnBegin(c) ==
    LET a  == args[c]
        ok == /\ MayRegister(mem[c].tree, a.dept, a.tier, a.parent)
              /\ CanAllocate(c)
              /\ a.dept \notin DOMAIN mem[c].containers
    IN  /\ pc[c] = "spawn"
        /\ \/ ~ok /\ Exit(c) /\ UNCHANGED cgroup
           \/ /\ ok
              /\ mem' = [mem EXCEPT
                    ![c].tree = Register(@, a.dept, a.tier, a.parent),
                    ![c].allocated = With(@, a.dept, Allocation(c))]
              /\ cgroup' = SetupCgroup(a.dept)
              /\ Goto(c, "start")
              /\ UNCHANGED <<args, pid>>
        /\ UNCHANGED <<env, owner, joined, addr, link, dropped, hostDropped, db, ghosts>>

\* The process numbers in the database or in a command's memory.
Remembered ==
    {p \in Pid : \/ \E d \in DOMAIN db : db[d].pid = p
                 \/ \E c \in Command :
                       \/ pid[c] = p
                       \/ \E d \in DOMAIN mem[c].rows : mem[c].rows[d].pid = p
                       \/ \E d \in DOMAIN mem[c].containers : mem[c].containers[d].pid = p}

NewPids == {p \in Pid : ~Alive(p) /\ (env.reuse \/ p \notin Remembered)}

\* prepareRootFS, the bind mounts and cmd.Start.  Without a process number fork fails.
SpawnStart(c) ==
    /\ pc[c] = "start"
    /\ \/ /\ \E p \in NewPids :
                /\ owner' = [owner EXCEPT ![p] = D(c)]
                /\ pid' = [pid EXCEPT ![c] = p]
          /\ Goto(c, "veth")
          /\ UNCHANGED <<env, args, mem, joined, addr, link, cgroup, dropped, hostDropped, db, ghosts>>
       \/ /\ "start" \in env.faults \/ NewPids = {}
          /\ Destroy(c, link[D(c)])
       \/ /\ "start" \in env.faults  \* prepareRootFS fails: nothing is undone
          /\ Exit(c)
          /\ UNCHANGED <<env, kernel, db, ghosts>>

\* Slip: a link of that name is deleted first.
LinkReplaceable(d) == TRUE

\* ip link add refuses a name that is taken.
LinkIsFree(d) == link[d] = NoLink

\* awaitContainerInit, the hostname, and setupVethPair.  They may fail with the init dead
\* or alive: before the link is made, after it and before the peer is moved, or once the
\* peer is in the namespace that the init takes with it.
SpawnVeth(c) ==
    LET d  == D(c)
        p  == pid[c]
        ok == owner[p] = d /\ LinkIsFree(d)
    IN  /\ pc[c] = "veth"
        /\ \/ /\ ok
              /\ link' = [link EXCEPT ![d] = p]
              /\ addr' = [addr EXCEPT ![p] = mem[c].allocated[d]]
              /\ Goto(c, "join")
              /\ UNCHANGED <<env, args, pid, mem, owner, joined, cgroup, dropped, hostDropped, db, ghosts>>
           \/ /\ ~ok \/ "veth" \in env.faults
              /\ Destroy(c, link[d])
           \/ /\ LinkIsFree(d)
              /\ owner[p] # d \/ "veth" \in env.faults
              /\ Destroy(c, Stray)

\* moveToCgroup; the container is recorded in memory.  (A write that the kernel accepts
\* for an init that has just died is its death after this step.)
SpawnJoin(c) ==
    LET d  == D(c)
        p  == pid[c]
        ok == owner[p] = d /\ cgroup[d] # "absent"
    IN  /\ pc[c] = "join"
        /\ \/ /\ ok
              /\ joined' = joined \cup {p}
              /\ mem' = [mem EXCEPT ![c].containers = With(@, d, Recovered(p))]
              /\ Goto(c, "save")
              /\ identity' = With(identity, d, [tier   |-> args[c].tier,
                                                parent |-> mem[c].tree[d].parent])
              /\ UNCHANGED <<env, args, pid, owner, addr, link, cgroup, dropped,
                             hostDropped, db, held, silenced>>
           \/ ~ok /\ Destroy(c, link[d])

\* Slip: status is not in the ON CONFLICT clause either.
RowKeepsStatus(c) ==
    LET d == D(c)
    IN  [status |-> IF d \in DOMAIN db THEN db[d].status ELSE "running",
         pid |-> pid[c], subnet |-> mem[c].allocated[d],
         tier |-> args[c].tier, parent |-> args[c].parent]

\* SaveDepartment: tier and parent are not in the ON CONFLICT clause.
Row(c) ==
    LET d == D(c)
        a == args[c]
    IN  [status |-> "running",
         pid    |-> pid[c],
         subnet |-> mem[c].allocated[d],
         tier   |-> IF d \in DOMAIN db THEN db[d].tier ELSE a.tier,
         parent |-> IF d \in DOMAIN db THEN db[d].parent ELSE a.parent]

\* InitializeDepartmentDB, which may fail with a warning, and persistSpawnState, which
\* ignores an error; then the audit entry.
SpawnSave(c) ==
    /\ pc[c] = "save"
    /\ \/ db' = With(db, D(c), Row(c))
       \/ "save" \in env.faults /\ UNCHANGED db
    /\ Exit(c)
    /\ UNCHANGED <<env, kernel, ghosts>>

-----------------------------------------------------------------------------
(* dept quarantine and dept unquarantine *)

Tracked(c) == D(c) \in DOMAIN mem[c].containers

Container(c) == mem[c].containers[D(c)]

Freeze(d) == cgroup' = [cgroup EXCEPT ![d] = "frozen"]
Thaw(d)   == cgroup' = [cgroup EXCEPT ![d] = IF @ = "absent" THEN @ ELSE "thawed"]

\* QuarantineDepartment: the guards and the write to cgroup.freeze
QuarantineFreeze(c) ==
    LET ok == Tracked(c) /\ ~Container(c).quarantined /\ cgroup[D(c)] # "absent"
    IN  /\ pc[c] = "quarantine"
        /\ \/ ~ok /\ Exit(c) /\ UNCHANGED cgroup
           \/ /\ ok
              /\ Freeze(D(c))
              /\ mem' = [mem EXCEPT ![c].containers[D(c)].frozen = TRUE]
              /\ Goto(c, "drop")
              /\ UNCHANGED <<args, pid>>
        /\ UNCHANGED <<env, owner, joined, addr, link, dropped, hostDropped, db, ghosts>>

\* QuarantineDepartment: flush and drop-all in whatever namespace the pid is in now, a
\* failure being a warning.  The command reports success and its flags end with it.
QuarantineDrop(c) ==
    LET d == D(c)
        p == Container(c).pid
    IN  /\ pc[c] = "drop"
        /\ \/ /\ dropped' = dropped \cup {q \in {p} : owner[q] \in Dept}
              /\ hostDropped' = (hostDropped \/ owner[p] = Host)
           \/ "nft" \in env.faults /\ UNCHANGED <<dropped, hostDropped>>
        /\ held' = held \cup {d}
        /\ silenced' = silenced \cup {q \in {p} : owner[q] = d}
        /\ Exit(c)
        /\ UNCHANGED <<env, owner, joined, addr, link, cgroup, db, identity>>

\* UnquarantineDepartment.  nft flush table empties the chains and leaves their policy,
\* drop, as it is.
Unquarantine(c) ==
    LET d  == D(c)
        ok == Tracked(c) /\ Container(c).quarantined
    IN  /\ pc[c] = "unquarantine"
        /\ Exit(c)
        /\ IF ok
           THEN Thaw(d) /\ held' = held \ {d} /\ silenced' = silenced \ {Container(c).pid}
           ELSE UNCHANGED <<cgroup, held, silenced>>
        /\ UNCHANGED <<env, owner, joined, addr, link, dropped, hostDropped, db, identity>>

-----------------------------------------------------------------------------
(* dept snapshot *)

SnapshotFreeze(c) ==
    LET ok == Tracked(c) /\ (Container(c).frozen \/ cgroup[D(c)] # "absent")
    IN  /\ pc[c] = "snapshot"
        /\ \/ ~ok /\ Exit(c) /\ UNCHANGED cgroup
           \/ /\ ok
              /\ mem' = [mem EXCEPT ![c].wasFrozen = Container(c).frozen]
              /\ Goto(c, "thaw")
              /\ UNCHANGED <<args, pid>>
              /\ IF Container(c).frozen THEN UNCHANGED cgroup ELSE Freeze(D(c))
        /\ UNCHANGED <<env, owner, joined, addr, link, dropped, hostDropped, db, ghosts>>

\* Slip: the thaw is not deferred and one of the captures returns early.
ThawUnlessFailed(c) == Thaw(D(c)) \/ UNCHANGED cgroup

\* The deferred thaw, on every return.
ThawOwn(c) == IF mem[c].wasFrozen THEN UNCHANGED cgroup ELSE Thaw(D(c))

SnapshotThaw(c) ==
    /\ pc[c] = "thaw"
    /\ ThawOwn(c)
    /\ Exit(c)
    /\ UNCHANGED <<env, owner, joined, addr, link, dropped, hostDropped, db, ghosts>>

-----------------------------------------------------------------------------
(* The host *)

\* A command is killed.
Crash(c) ==
    /\ "crash" \in env.faults /\ pc[c] # "off"
    /\ Exit(c)
    /\ UNCHANGED <<env, kernel, db, ghosts>>

\* A container's init exits, is killed, or fails to pivot.
ContainerDies(p) ==
    /\ env.deaths /\ owner[p] \in Dept
    /\ Vanish(p)
    /\ link' = [d \in Dept |-> IF link[d] = p THEN NoLink ELSE link[d]]
    /\ UNCHANGED <<env, cgroup, hostDropped, db, procs, held, identity>>

\* Another process of the host gets a number the program remembers.
HostTakesPid(p) ==
    /\ env.reuse /\ ~Alive(p) /\ p \in Remembered
    /\ owner' = [owner EXCEPT ![p] = Host]
    /\ UNCHANGED <<env, joined, addr, link, cgroup, dropped, hostDropped, db, procs, ghosts>>

Step(c) ==
    \/ Start(c) \/ List(c) \/ Recover(c) \/ LoadIPAM(c) \/ Status(c)
    \/ SpawnBegin(c) \/ SpawnStart(c) \/ SpawnVeth(c) \/ SpawnJoin(c) \/ SpawnSave(c)
    \/ QuarantineFreeze(c) \/ QuarantineDrop(c) \/ Unquarantine(c)
    \/ SnapshotFreeze(c) \/ SnapshotThaw(c)
    \/ Crash(c)

Next ==
    \/ \E c \in Command : Step(c)
    \/ \E p \in Pid : ContainerDies(p) \/ HostTakesPid(p)

Spec == Init /\ [][Next]_vars

-----------------------------------------------------------------------------
(* Properties *)

Labels == {"off", "list", "recover", "start", "veth", "join", "save", "drop", "thaw"}
          \cup Operation

\* The shape of the state: a container in memory, an init in a cgroup and a link in a
\* namespace belong to departments, and a row has a subnet of the pool.
TypeOK ==
    /\ env \in Environments
    /\ owner \in [Pid -> Dept \cup {Host, Free}]
    /\ joined \subseteq {p \in Pid : owner[p] \in Dept}
    /\ dropped \subseteq {p \in Pid : owner[p] \in Dept} /\ hostDropped \in BOOLEAN
    /\ silenced \subseteq {p \in Pid : owner[p] \in Dept}
    /\ addr \in [Pid -> Subnet \cup {0}]
    /\ \A d \in Dept : link[d] \in {NoLink, Stray} \cup {p \in Pid : owner[p] = d}
    /\ cgroup \in [Dept -> {"absent", "thawed", "frozen"}]
    /\ held \subseteq Dept /\ DOMAIN identity \subseteq Dept
    /\ \A d \in DOMAIN db :
        d \in Dept /\ db[d] \in [status : {"running", "stopped"}, pid : Pid, subnet : Subnet,
                                 tier : Tier, parent : Dept \cup {NoParent}]
    /\ \A c \in Command :
        /\ pc[c] \in Labels /\ pid[c] \in Pid \cup {NoPid}
        /\ DOMAIN mem[c].containers \subseteq Dept /\ DOMAIN mem[c].tree \subseteq Dept

\* A cgroup holds one container at most, whatever runs side by side or is killed half-way:
\* neither the database nor the check "already running" sees to it, but the link's name,
\* which is taken before the cgroup is joined (SpawnDepartment steps 8 and 9).
OneContainerPerCgroup == \A d \in Dept : Cardinality(Members(d)) <= 1

LosesRows == env.overlap \/ env.faults \cap {"save", "crash"} # {}

\* Between commands, a living container is what its department's row says it is; the
\* commands to come find it by that row alone (persistSpawnState, destroyFailedSpawn).
EveryContainerIsKnown ==
    Idle /\ ~LosesRows =>
        \A p \in Pid : owner[p] \in Dept =>
            /\ owner[p] \in DOMAIN db
            /\ LET row == db[owner[p]]
               IN  row.status = "running" /\ row.pid = p /\ row.subnet = addr[p]

\* Commands that run one after another never give two departments one subnet, in the
\* database or on the wire, though each rebuilds the bitmap by itself (IPAM.Allocate).
SubnetsAreDistinct ==
    /\ ~env.overlap => \A d, e \in DOMAIN db : db[d].subnet = db[e].subnet => d = e
    /\ ~LosesRows => \A p, q \in Pid : addr[p] = addr[q] /\ addr[p] # 0 => p = q

\* A department keeps its subnet for good, through its end, failed spawns and respawns
\* ("allocations ... survive restarts", ipam.go).
SubnetsSurvive ==
    [][~env.overlap =>
        \A d \in DOMAIN db : d \in DOMAIN db' /\ db'[d].subnet = db[d].subnet]_vars

\* A quarantined container stays frozen and cut off for as long as it lives, whatever
\* other commands and restarts of the daemon do (QuarantineDepartment).
QuarantineHolds ==
    \A p \in silenced :
        /\ cgroup[owner[p]] = "frozen"
        /\ "nft" \notin env.faults => p \in dropped

\* When no command runs, nothing is frozen but by a quarantine: a snapshot undoes its
\* freeze, and a spawn that fails leaves nothing frozen behind (SnapshotDepartment).
FrozenByQuarantineOnly ==
    Idle /\ "crash" \notin env.faults =>
        \A d \in Dept : cgroup[d] = "frozen" => d \in held

\* The departments of S whose ancestors, as they were spawned, are all in S.
Rooted(S) ==
    LET rooted[d \in S] == \/ identity[d].tier = Root
                           \/ identity[d].parent \in S /\ rooted[identity[d].parent]
    IN  {d \in S : rooted[d]}

\* Recovery rebuilds the hierarchy its departments were spawned into: every department
\* whose ancestors live, with its tier, its parent and its children, and no other
\* (recoverRunningDepartments, in the order of ListDepartments).
RecoveryRestoresHierarchy ==
    \A c \in Command : pc[c] = "recover" /\ DOMAIN mem[c].rows = {} =>
        LET S == Rooted(DOMAIN mem[c].containers)
        IN  mem[c].tree =
              [d \in S |-> [tier     |-> identity[d].tier,
                            parent   |-> identity[d].parent,
                            children |-> {e \in S : identity[e].parent = d}]]

\* What a department may access is what it is shown, and nobody but a ROOT reaches a
\* department of its own tier or a higher one (CanAccess, ListVisible).
AccessIsWhatIsShown ==
    \A c \in Command : LET tree == mem[c].tree IN
        \A r, t \in DOMAIN tree :
            /\ CanAccess(tree, r, t) <=> t \in ListVisible(tree, r)
            /\ CanAccess(tree, r, t) =>
                 r = t \/ tree[r].tier = Root \/ tree[t].tier < tree[r].tier

\* A quarantined department with a living container is thawed by dept unquarantine, which
\* "[reverses] a prior quarantine (thaw+restore net)" (the help text), and by nothing else:
\* a snapshot is to "unfreeze only if we froze it" (SnapshotDepartment).  Both ask a flag
\* that no process but the quarantine's own ever sees set: dept unquarantine refuses, and
\* dept snapshot thaws.
QuarantineEndsByCommand ==
    [][\A d \in held : Members(d) # {} =>
        (cgroup'[d] = "thawed" <=>
            \E c \in Command : D(c) = d /\ pc[c] = "unquarantine" /\ pc'[c] = "off")]_vars
=============================================================================
