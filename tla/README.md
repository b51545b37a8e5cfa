# GHOST-STACK: specification and proofs

TLA+ models of the parts of GHOST-STACK in which order, failure and shared state decide whether
the program keeps its word; the TLC runs that check them; and theorems about the allowlist
manager, threat response, the audit chain, the session manager, the departments, AGENT-BETA and
the key vault that TLAPS checks for every value of the constants. `PROJECT.json` lists
components, runs, hazards and theorems, and maps every definition to the lines of the source it
stands for.

## The system

| Component | State | Operations | Interacts with |
|---|---|---|---|
| **Allowlist manager** `firewall/layer3/allowlist_manager.go`, `layer3_invisible.bpf.c` | `entries`, `nonces`, the BPF trie, the XDP link; `am.mu` | `LoadAndAttach`, `Detach`, `ApplyUpdate` (add, remove, flush, carve), `PlanIPRemoval`, `RemoveIP`, `CleanupExpiredEntries`, signing | called by threat response; its trie decides every packet |
| **Threat response** `cmd/ghost-ctl/threat_response.go` | `blockedIPs` (`trh.mu`), one goroutine per connection, a `WaitGroup` | `acceptLoop`, `handleConnection`, `blockIP`, `UnblockIP`, `Stop` | reads AGENT-BETA's frames, carves the allowlist, appends to the audit log |
| **Audit chain** `cmd/ghost-ctl/main.go` | the log file; per process: tail hash, file identity (`auditMu`) | `appendAudit`, `verifyAuditChain` | written by the daemon and by every command, rotated by logrotate |
| **Session manager** `auth/session.go`, `webauthn.go`, `otp.go` | devices, challenges, OTPs, tokens (`sm.mu`) | registration, the two-step login, rotation, revocation, cleanup | sweeps run in the daemon |
| **Department lifecycle** `namespace/dept.go` | `containers` with `Frozen`, `Quarantined`; cgroup; nftables | spawn, quarantine, unquarantine, snapshot, recovery | each command is a new process over the same kernel state |
| **State manager** `cmd/ghost-ctl/state.go` | the SQLite tables | save, list, recover | lifecycle, IPAM |
| **IPAM** `cmd/ghost-ctl/ipam.go` | bitmap and map, rebuilt from the database | allocate, release | spawn |
| **Hierarchy** `hierarchy/rbac.go` | the department tree | register, `CanAccess`, `ListVisible` | spawn, recovery |
| **Key vault** `db/vault.go` | `HostKeyStore.keys`, `kv.databases` (`kv.mu`); on the host: LUKS2 headers, device mappings, mounts, key files in `/dev/shm` | `InitializeDepartmentDB`, `UseKey`, `ShutdownDatabase`, `BackupDatabase`, credentials and their rotation | a spawn initialises the department's database; `cryptsetup`, `mount`, `tar` do the work |
| **AGENT-BETA** `agents/beta/beta.go`, `sources.go`, `profiler.go` | four bounded channels, the profile cache with its LRU list (`p.mu`), the totals of the drop counters, `alertConn` | one reader per feed, `pollL3Drops`, `eventCorrelator`, `GetOrCreate` and `evictOne`, `sendAlert`, `Stop` | reads the kernel's feeds, writes alerts to threat response |
| **AGENT-ALPHA**, layers 1, 2 and 4, integrity scanner, status API, scripts | little or none | packet replies, static rules, read-only views | |

### What is hard, and what makes each component correct

* *Allowlist.* Two copies of one set, the second with a capacity; multi-step updates that
  fail midway; plans made under one lock hold and applied under another; signed messages
  that arrive late or twice. Correct: the copies agree, an update is all or nothing where
  it says so, a carve takes out exactly one address, nothing is listed that nobody granted.
* *Threat response.* Check-then-act on the duplicate map, colliding carves, an unblock
  during a block, a shutdown that waits for goroutines blocked in a read. Correct: recorded
  means dropped, not accused means not dropped, alerts read are acted on, the daemon stops.
* *Audit chain.* Several processes, each with a remembered tail; kills between system calls;
  rotation; failing writes. Correct: every segment verifies, segments are linked.
* *Sessions.* Retries, overlapping ceremonies, two rotators, revocation around a rotation.
  Correct: proofs and codes are used once, a login has one token, revoked stays revoked.
* *Lifecycle, state, IPAM, hierarchy.* Kernel state outlives the process that remembers it;
  crashes between a side effect and its record; concurrent commands on one database; a tree
  rebuilt in the order of the rows. Correct: one container per cgroup, what runs is known
  to the next command, a subnet belongs to one department, a quarantine holds until a human
  ends it, and the tree comes back as it was.
* *AGENT-BETA.* Channels that drop what does not fit, a `select` that takes any of them; a
  cache full of profiles that must not be evicted, with a caller that waits for room; a
  daemon that goes away between two alerts; counters the kernel forgets while they are
  summed up; readers asleep on descriptors that are closed behind their backs. Correct: a
  violation reaches the daemon in order and at most once or is lost for good, nothing holds
  it up for ever, dangerous sources are remembered, and a stop comes to an end (which it does
  unless a feed is quiet).
* *Key vault.* External commands in a row, each of which may fail, or go on after the
  process that started it was killed; volumes that outlive every key; two processes at one
  volume; a backup that reads without the lock. Correct: a running database and its key stay
  together, a key's file lasts as long as the command that reads it, a shutdown ends the key.

## The modules

| Module | Extends | What it is |
|---|---|---|
| `Cidr` | | prefixes, covering, `excludeIPFromCIDR`, the most specific covering entry |
| `Allowlist` | `Cidr` | the manager's state and one operator per method |
| `AllowlistUpdates` | `Allowlist` | the manager under every caller its API admits; properties |
| `AllowlistProofs` | `Allowlist` | theorems about excluding an address, lemmas on what each method does to list and trie |
| `AllowlistUpdatesProofs` | `AllowlistUpdates`, `AllowlistProofs` | theorems |
| `Silence` | | what the block list promises: a set of admitted addresses, one denied at a time |
| `ThreatResponse` | `Allowlist`, instance of `Silence` | the daemon's loop composed with the same manager |
| `ThreatResponseProofs` | `ThreatResponse`, `AllowlistProofs` | theorems |
| `AuditChain` | | `appendAudit` in several processes, with logrotate |
| `AuditChainProofs` | `AuditChain` | theorems |
| `Sessions` | | the session manager |
| `SessionsProofs` | `Sessions` | theorems |
| `Hierarchy` | | the RBAC tree: registration, `CanAccess`, `ListVisible` as operators on trees |
| `Departments` | `Hierarchy` | ghost-ctl's `dept` commands as processes over one kernel and one database |
| `DepartmentsProofs` | `Departments` | theorems |
| `Profiler` | | the profile cache: `GetOrCreate`, `evictOne`, the LRU list |
| `AgentBeta` | `Profiler` | the feeds, their channels, the correlator, the alert socket, `Stop` |
| `AlertFeed` | | what AGENT-BETA promises the daemon; `AgentBeta` implements it |
| `AgentBetaProofs` | `AgentBeta` | theorems, the refinement of `AlertFeed` among them |
| `KeyVault` | | the vault's calls, command by command, in several processes |
| `KeyVaultProofs` | `KeyVault` | theorems |
| `MC...` | | constants for TLC: small grants, alerts, environments, symmetry |

**Cidr.** A prefix is the sequence of its network bits and an address a sequence of full
length, so `net.IPNet.Contains` is agreement on the prefix's bits, and the shifts of
`excludeIPFromCIDR` become "the address up to bit k, with bit k flipped". Prefixes are
canonical; CIDRs with host bits, which alias one trie key under several map keys, are not
modelled.

**Allowlist.** `entries` maps prefixes to `ExpiresAt`, `bpf` is the set of keys in the
trie. Each exported method holds `am.mu` throughout and is one action; a failure midway is a
choice of how much of the list was done, constrained by *why* the next element failed (a
Delete of a missing key, a Put into a full trie). The order in which a list or a Go map is
walked is left open. A carve that fails goes through `Rollback`, as in the code: take out
everything that is listed, put back what was, and look at no errors, so that an entry whose key
the trie lacks stays listed and one for which there is no room stays out. The two failures
above are the only ones; a Put that fails for want of kernel memory is not modelled.
`wedged` says that a goroutine waits for the lock it holds.

**AllowlistUpdates** adds the callers: signing takes a fresh nonce and the signer's clock,
submission picks any update ever signed, at any time and any number of times. `landed` and
`refused` are ghosts.

**ThreatResponse.** A step of a handler ends where the goroutine blocks or releases a lock:
drain, read, duplicate check, plan, apply, record, audit. A `SIGTERM` may come between any
two. Frames arrive whole; the resynchronisation of `extractFrame` and the 4 MiB limit are
not modelled, nor are the blocks' clocks (an update is applied within its 60 seconds). An
unblock takes any address, blocked or not, as `UnblockIP` does; `Unblockable` are the ones
an operator thinks of.

**AuditChain.** A step is a system call of `appendAudit`; a line is its hash. `Environments`
says what may happen around an append: whether processes overlap, where logrotate may
run, which calls may fail. The ghost `blind` notes the segments that some process found empty
when it seeded its hash. A line torn by a full disk is not modelled.

**Sessions.** Every method is one action under `sm.mu`. Refusals that change nothing have
no step; the ones that do (an expired OTP, a rejected assertion) have. Cryptography is
abstracted to what it decides: an assertion carries the credential, challenge and counter it
was made with, and a registration starts at the counter of its attestation. A token is named
by its login and its generation; a revocation with the id of a token that has been replaced
changes nothing, so it has no step.

**Hierarchy.** A tree is a function from registered ids to tier, parent and children; the
two recursions are recursive functions on it. Isolation keys are left out.

**Departments.** `Start` gives a free process a command line. It then does what every
`ghost-ctl` does before its command: `List` reads the running rows, `Recover` takes them one
by one in the order of their numbers (a row whose process number is unused is marked
stopped, the others go into `containers` and the tree), `LoadIPAM` rebuilds the bitmap from
all rows. `mem` is that memory, lost at `Exit`; `owner`, `joined`, `addr`, `link`,
`cgroup` and `dropped` are the kernel's and stay. A spawn is five steps, cut where another
process or a death can come between: registration, allocation and cgroup; mounts and fork;
liveness, hostname and veth; joining the cgroup; the database and the row. Each failure
goes through `Destroy` (`destroyFailedSpawn`), except those the code leaves without it.
A quarantine is two steps (freeze, ruleset), a snapshot two (freeze, deferred thaw). The end
of a process takes its network namespace and its link with it in the same step. `held`,
`silenced` and `identity` are ghosts: acknowledged quarantines, the containers they hit,
and what each container was last spawned as. Not modelled: mounts and root file systems,
resource limits, the `ip_allocations` table (written, never read), a database that cannot
be opened, the key vault (a module of its own; in a spawn its failure is a warning), two
operations of one process (the daemon makes none).

**Profiler.** `profiles` is the map, `lru` the list, `maxSize` its limit; a profile is its
score, its drop count and the whole days since `LastSeen`. `Admit` is `GetOrCreate` with the
update its caller makes: a known address moves to the front, a newcomer finds room or takes
the place of `Victim`, the entry at which the scan from the back of the list stops. With a
cache full of profiles that `evictOne` may not take there is no disjunct: the code loops with
`p.mu` held, so its caller has no step. Only the correlator calls the profiler, so a call is
one step.

**AgentBeta.** `Observe`, `Violation` and the poll (`BeginPoll`, `Visit`, `EndPoll`, `Emit`)
are the readers, one goroutine per feed that could be opened; `Take`, `ProfileEvent` and
`SendAlert` are the correlator's `select` and its two halves, cut where a full cache or a
full socket blocks it. `Write` is `sendAlert`: one attempt, with a new connection if there
is none. `Cancel` ends a reader, or leaves it `deaf`: asleep in `Recvfrom` on a netlink
descriptor that has been closed, which does not wake it. `DaemonReads`, `DaemonGoes` and
`DaemonComes` are the other end of the socket. An event is its source, its drop count and,
for L4, the number of the audit record; parsing, TTP tags, tool detection and the scores of
L1 and L2 (for which the events of `sources.go` never carry the details) are left out.
The drop counters live in the kernel: `inMap` is its LRU map, `Forget` its making room.

**AlertFeed** sees violations, delivers the oldest unsettled one, or loses some for ever.
`AgentBeta` implements it: what is unsettled is what is queued, in the correlator's hand or
in the socket (`OnTheWay`). `ThreatResponse` takes its alerts from any environment, so it
asks nothing of AGENT-BETA that `AlertFeed` would have to promise.

**KeyVault.** A process has its `store`, its `db` and one call under `kv.mu`, at one external
command: `InitDB` (the key is generated and stored), `Format`, `Reuse` (the key file is made
again), `Open`, `Mount`, `CreateDB`; `Shutdown` (umount) and `Close` (`cryptsetup close`, wipe,
`Running = false`). `Format` and `Open` run inside `UseKey`, between `BeginUse` and `EndUse`.
What a command does to the host is an operator of its own (`Formats` with the volume file,
`Opens`, `Mounts` with the file system, `Closes`), because the command of a killed process may
still do it (`Orphan`). `Backup` holds a mount point busy until its `Tar`. `header`, `mapped`
and `mounted` are the host's, `shm` its tmpfs; a `Reboot` leaves the headers only. Left out:
credentials and their rotation, whose loop nothing starts, and the files a backup writes. The
program itself calls `NewKeyVault` and `InitializeDepartmentDB`; the other calls are modelled as
the vault's API admits them.

## The runs

| Run | States | Shows |
|---|---|---|
| `allowlist_updates` | 1.3 M | the four invariants and three action properties below |
| `threat_response` | 0.5 M | safety of concurrent blocks, and the two liveness properties |
| `threat_stop` | violation | the shutdown that never ends |
| `audit_chain` | 1.9 M | segments verify and are linked, one process at a time |
| `audit_restart` | violation | a process started after a rotation opens a segment that is not linked |
| `audit_overlap` | violation | a command beside the daemon breaks the chain |
| `sessions` | 1.4 M | freshness, one token per login, final revocation |
| `departments` | 55 k | containers, rows, subnets, quarantines and the tree, in five environments |
| `departments_held` | violation | `dept unquarantine` does not end a quarantine, and `dept snapshot` does |
| `agent_beta` | 0.4 M | the cache, the drop counts, stopping, and the refinement of `AlertFeed` |
| `agent_beta_stop` | violation | the stop that never ends, on a quiet feed |
| `key_vault` | 0.2 M | keys, volumes and key files through failing commands, kills and reboots |

**Properties.** `KernelMirrorsEntries`: trie and entries list the same prefixes.
`EveryEntryIsGranted`: every entry, pieces of pieces included, lies in a granted prefix with
that grant's expiry. `OneVerdict`: at most one effect per signed update, none after a refusal.
`CarveIsSurgical`, `CarveDenies`, `CarveIsAtomic`: what a carve may never do, even when its plan
is old or its rollback runs on a full trie. `BlockedIsDenied`,
`OnlyAccusedAreDenied`: block list and audit log against what the kernel does.
`L4EndsInSilence`, `ShutdownCompletes`: liveness. `ChainVerifies`: every segment passes
`verifyAuditChain`, except at a line that follows one whose write was reported as failed.
`GenesisLinksSegments`: a segment opens with a genesis entry that names the tail of the one
before, unless it is the first or in `blind`, and elsewhere there is none but after a failed write.
`EverySegmentIsLinked`: the same without `blind`, as the comments promise it. `ProofsAreFresh`,
`OneTokenPerLogin`, `RevokedStaysRevoked`, `RotationOutrunsExpiry`: the login.
`OneContainerPerCgroup`, `EveryContainerIsKnown`: what spawns leave behind, whole, failed,
killed or side by side. `SubnetsAreDistinct`, `SubnetsSurvive`: the allocator, rebuilt by every
process. `QuarantineHolds`, `FrozenByQuarantineOnly`: who is frozen, and why.
`QuarantineEndsByCommand`: a quarantine is over when `dept unquarantine` is done, and not before.
`RecoveryRestoresHierarchy`, `AccessIsWhatIsShown`: the tree a process sees.
`LruMatchesProfiles`: map and list are one cache, in the order of last sight.
`HighValueRetained`: a profile of 60 points stays and loses none until its source has been
silent for seven days. `OneLossPerRestart`: a daemon that went away costs one alert once it is
back. `DropsNeverOvercounted`: a dropped packet counts at most once. `StopCompletes`,
`OnlyQuietFeedsHoldAStop`: liveness of `Stop`. `ImplementsAlertFeed`: the refinement, with its
liveness. `RunningDatabaseHasItsKey`: key, mapping and running database stay together.
`KeyFilesAreTransient`: a key file lives as long as its command. `ShutdownIsFinal`: a key that
was shut down is nowhere.

**Conditions.** `CarveDenies`, `BlockedIsDenied` and `ImplementsSilence` are about allowlists in
which no prefix lies inside another: with nested ones the code carves the most specific entry
and the wider one still admits the address. The surgical properties are about a manager with a
kernel map: without one the Delete that refuses a stale carve cannot fail. `ChainVerifies` holds
in the two environments of `MCInTurn` and not in two others that the module can express: a
rotation at any point of an append (the file is identified by `stat` and reopened by name), and
a failing open while a rotation is half done (a second genesis entry). `RotationOutrunsExpiry`
supposes that a due sweep runs before the clock moves on (`Prompt`); a late sweep renews a token
that has expired.

The department properties hold under conditions that are part of what the code does.
`EveryContainerIsKnown` excludes overlap and lost rows (a kill or a failing save before
`persistSpawnState` leaves a container nobody finds, and a recovery that read the old
row may mark a fresh one stopped). `SubnetsAreDistinct` and `SubnetsSurvive` are about
commands in turn: two spawns side by side take one subnet. `RecoveryRestoresHierarchy`
needs departments whose numbers ascend from the root, because recovery registers in that
order, and a department that is always spawned with the same tier and parent, because
`SaveDepartment` keeps the first ones. `QuarantineHolds` is checked without snapshots, which
`departments_held` adds; `FrozenByQuarantineOnly` excludes kills, since a snapshot
killed before its deferred thaw leaves the department frozen. A new container of a
department whose last one died in quarantine joins the cgroup that is still frozen. A veth
peer that cannot be moved leaves a link (`Stray`) under whose name that department can
never be spawned again. With reuse of process numbers a quarantine may replace the ruleset
of the host (`hostDropped`).

`StopCompletes` is what the comments promise, and false: `agent_beta_stop` ends in a `deaf` reader
for which `Stop` waits for ever. `OnlyQuietFeedsHoldAStop` says that nothing else can keep `Stop`
from returning. In the same way `EverySegmentIsLinked` is refuted by a process whose first
append comes after a rotation, and `GenesisLinksSegments` says that nothing else leaves a
segment without its link. `AlertFeed`
allows a violation to be lost (at a full channel, a dead connection, a stop) and says that the
loss is final. `DropsNeverOvercounted` excludes counting twice; packets do go uncounted,
whenever the kernel's map forgets or an iteration aborts. `RunningDatabaseHasItsKey` leaves
out departments in `stray`: a process whose entry says "stopped" may shut the database down a
second time, and takes down whatever another process has mounted there. A kill leaves the
key file of a key that no process holds any more, and a volume that stays mapped.

**Bounds.** Two-bit addresses have all shapes of carve there are: a root that splits into two
levels, a half, a host. Three nonces allow a grant, a carve and a colliding second carve; a
capacity of three makes the trie fill in the middle of an add, of a carve (whose rollback then
starts from a full trie) and of a `RemoveIP`; two clock values beyond signing pass `MaxAge`, and
a signer two ahead exceeds `MaxSkew`. In `threat_response` two handlers contend for the one
entry that covers everybody, three alerts cover a repeat and an interloper, one `Unblockable`
address is unblocked before, during and after its block, and `MaxInFlight` one frame per
connection loses nothing because the drain loop handles frames one by one. Five lines, three
starts and two rotations let a process outlive a rotation and another start after it. Two
devices, users and credentials, two registrations and two ceremonies overlap every pair of
logins; counters up to two let a registration start above zero and still advance; seven clock
values in units of half a rotation interval go past the expiry a token would have without its
rotations. Three departments are a chain of three tiers with a grandchild; four process numbers
let a container die and be replaced while another is half spawned, and run out (a fork that
fails); three subnets are one per department; two commands overlap every pair of steps.
`Environments` varies deaths, overlap, failing steps, kills and reuse of numbers in the
combinations of `MCLives`; process numbers and commands are symmetric, and only
`SubnetsSurvive`, a step property that names neither, is temporal. `Departments` needs no
counters. Two hosts divide the feeds: violations and logged packets compete for a profiler of
one place, where two violations (50 points each) make a profile that blocks it; samples and
drops of three sources share two places, where eviction has a choice. Channels of one event and
a socket of one alert are full at once; three violations are one in the socket, one in hand and
one queued; a day and a week are `LowDays = 0` and `HighDays = 1`, which tells the three ages
the rule distinguishes apart; two drops and a kernel map that forgets make a total fall below
its last visit; one restart is a dead connection and a new one. In `key_vault` two processes
contend for two volumes, four keys let each initialise, fail and try again, and two reboots
separate three lives of a volume; departments, processes and keys are symmetric, and every
property there is an invariant. Every counter that only bounds the run is a `Max...` constant in
a guard. Deadlock is not checked where a run ends when its bounds are used up or its daemon has
exited; in the `departments` runs and in `key_vault` it is.

**Fairness.** Safety runs need none. `ThreatResponse` assumes weak fairness of each handler,
of `acceptLoop`'s exit and of the daemon's last steps: goroutines that can run do run. It
assumes nothing of AGENT-BETA, of operators or of signals. `SpecWithHangups` adds that open
connections are closed, which is what a systemd stop does (`ghost-agent-beta.service` is
bound to and ordered after the orchestrator); without it `threat_stop` is the
counterexample. `AgentBeta` assumes weak fairness of the correlator's own steps, of the poller
and of the return of `Stop`'s wait (`StopReturns`), which Go's scheduler gives. It
assumes strong fairness where a `select` chooses: Go chooses uniformly at random among the
ready cases, so that a channel (`Take(4)`) or a cancelled context (`CorrelatorExits`,
`Cancel`) that is ready again and again is not passed over for ever. It assumes that time
passes (`Day`), which is what ends the wait for room in a cache full of dangerous profiles,
and that a daemon that is there reads its connections (`DaemonReads`), which the handlers of
`ThreatResponse` do. Nobody owes AGENT-BETA an event, a daemon, or a signal.

## The proofs

Each theorem is about the specification a run checks and holds for every value of the
constants that meets the named assumptions of its module (`...Assumption`: types, and what is
said below). Where a theorem needs more, it says so in an `ASSUME` of its own. Every safety
property of the passing runs is a theorem.

### Allowlist

`AllowlistProofs` shows, for every width, that the most specific covering entry exists
(`MostSpecificExists`), that the pieces of an excluded prefix lie inside it, cover all its
addresses but the one (`PiecesCoverTheRest`) and share none (`PiecesAreDisjoint`), and what
that means for a set of prefixes in which one gives way to its pieces
(`SplittingIsSurgical`, `SplittingDenies`); then what each method does to
`entries` and `bpf` (`AddEntriesPreserves`, `CarveIsAllOrNothing`, `RemoveIPPreserves`, ...).
`RollbackRestores` is why a carve is atomic: the trie had exactly the keys that are listed when
the carve began, so the rollback's Deletes leave no key behind, and it had room for all of
them (`Fits`), so none of its Puts fails. Neither is in the code of the rollback; both are
invariants of the manager (`Mirrors`).

`AllowlistUpdatesProofs` proves of `AllowlistUpdates`, for every width, capacity, set of
nonces, grants, removals, targets, age and skew: `TypeCorrect`, `MirrorIsExact`,
`NoUngrantedEntry`, `VerdictIsFinal`, and of its steps `CarveIsSurgicalAlways`,
`CarveDeniesAlways`, `CarveIsAtomicAlways`. The inductive invariant `IInv` strengthens the
four invariants because none but the mirror is inductive. A carve is applied long after it was
planned, so its update must carry what the plan knew: `CarvesArePlans` (its `add` is
`ExcludeIP` of the one prefix it removes, which covers its target) and `CarvesAreGranted` (its
pieces lie in a grant, with the grant's expiry, whatever has happened to the entries since).
At most one verdict needs `NoncesIdentify` (one update per nonce) and `VerdictsBurn` (a nonce
with a verdict is in `am.nonces`). `HasRoom` (the trie is never over its capacity) is what the
rollback needs. `EmptyAtBoot` covers the load of a fresh trie.

### Threat response

`ThreatResponseProofs` builds on the same lemmas: `TypeCorrect`, `BlocksAreSurgical`
(`OnlyAccusedAreDenied`) and `BlocksLast` (`BlockedIsDenied`), for any connections, alerts and
unblocks. Who is accused is settled when a frame is sent, who is carved out many steps later:
`AlertsAccuse` says that every alert in a socket, a buffer or a handler has accused its address,
`WorkIsActionable` that a handler past the filter holds such an alert, and that a plan takes its
address, and nothing else, out of one prefix, listed still or not. `Attached` keeps list and
trie one while a handler lives. `BlocksLast` assumes what its property is about, granted
allowlists without nesting (`Disjoint`); its invariant `OnlyReadmitted` is stronger than the
property: nothing nests but the /32s an operator added, and nothing listed covers an address
that is blocked, or about to be recorded, and was never given back, so that an old plan of
another handler cannot bring it back in. `SilenceKept` (`ImplementsSilence`) turns the two
invariants into a refinement: with `OnlyReadmitted` a carve is the removal of one accused
address from what the kernel admits (`CarveDeniesOne`), a record is made of somebody who is out
(`RecordBlocks`), and the rest is an operator's doing, the end of the filter, or a stutter
(`SilentStep`). `ImplementsSilence` is left to this proof: it is not a property of
`threat_response`, where TLC agrees with it (for two alerts) when it is named among the
PROPERTIES, and refutes it when `ExcludeIP` leaves out an address too many.

### Audit chain

`AuditChainProofs` proves `TypeCorrect` without hypotheses, and `TurnsVerify` and
`TurnsLinkSegments` under `InTurn`: one process at a time, and logrotate apart from appends, or
between their steps while no call fails. The environments of `audit_chain` are of this kind,
and `audit_overlap` shows that the first half is needed. The invariant `WritersKnow` says what
a process knows of the file at each of its steps: with the file it remembers in place, the
remembered hash is what the next line must carry (`Chains`); with another one in place, it
is what a genesis entry must name (`Links`); either way, unless the last write was
reported as failed. It also says that a process which takes an empty file for its own has
noted it in `blind`, so that whoever opens any other segment sees the change of file first.

### Sessions

`SessionsProofs` proves `TypeCorrect`, `ProofsAreUsedOnce`, `LoginsHaveOneToken`,
`RevocationIsFinal` and `SweepsOutrunExpiry`, for any devices, users, credentials and bounds.
The properties speak of what has been proved, opened or revoked; what is about to be is kept
apart from it by the conjuncts of `IInv`: a pending challenge is unique and unused
(`PendingIsUnused`), a registration is one device's and its counter leads all its proofs
(`CountersLead`), an OTP that waits has opened nothing and was not revoked (`OtpsAreFresh`).
`SweepsKeepUp` is the arithmetic of `SweepsOutrunExpiry`: with prompt sweeps a token is never
older than one interval and the part of the next that has passed (`Grace`). With
`2 * RotationInterval <= TokenTTL` (in `SessionAssumption`; the code has one hour and eight)
that is less than its life.

### Departments

`DepartmentsProofs` proves every safety property of `Departments`. Its invariants build on
one another:

* `CommandsInv` (`TypeCorrect`): the types, and what a command has at each point of its code.
  A later command's memory never has `quarantined` set, nor `frozen` outside its own
  quarantine, which is why `Unquarantine` finds nothing to do.
* `KernelInv`: an init that is gone has no link, no cgroup membership and no address.
* `LinkInv` (`SpawnsExclude`): two spawns of one department do not see each other, and the
  cgroup admits both; what excludes the second is `ip link add`, which refuses the name of a
  link that exists. Whoever is in a cgroup holds its department's link (`JoinedHoldLink`), and
  so does a live init that is about to join (`JoiningHoldLink`); `OwnPids` and `OneAtATime`
  keep two commands from naming one process. Assumes `NoReuseSideBySide`: process numbers are
  not reused while commands overlap.
* `FrozenInv` (`FreezesAreUndone`): without kills, a frozen cgroup is a held one, or a command is
  at the second step of its quarantine or snapshot.
* `AloneInv` (`SubnetsAreKept`): in turn, a command that has loaded knows all rows, and gives
  no subnet twice. A respawn gets the subnet its row has.
* `KnownInv` (`ContainersAreKnown`, `SubnetsDiffer`): in turn and with no row lost, every
  container is either in its row, with process number and subnet, or in the hands of the
  spawn that is making it.
* `JoinedInv`, `SilencedInv` (`QuarantineLasts`): whoever a row or a memory names and still lives
  is in the cgroup, so that freezing it hits the right one; nothing thaws a cgroup but a
  snapshot, and no failed spawn removes a cgroup that has a member. Assumes
  `NoReuseSideBySide`, and `SnapshotsApart`: no command line snapshots a department that
  another quarantines. Where one does the property is false (`departments_held`).
* `TreesInv` (`AccessIsShown`): in every tree a child is on a lower tier than its parent.
  `CanAccess` climbs and `ListVisible` descends; four tiers bound both, so that the
  proof unfolds the two recursions tier by tier instead of inducting over the tree.
* `LinesInv`, `RestoredInv` (`RecoveryRestores`): a recovering command's tree is at each row
  that of the departments it has found alive, whose chain of ancestors is complete. Assumes the
  two conditions of the property: `OneLinePerDept` and `ParentsComeFirst`, of command
  lines alone. It excludes neither overlap nor kills.

### Key vault

`KeyVaultProofs` proves, for any departments, processes, keys and number of reboots,
`TypeCorrect`, `RunningKeepsKey`, `KeyFilesEnd` and `ShutdownEndsKey` from
`KeyVaultAssumption` (`NoKey` is no key). The properties speak of what has been reached, their
preservation depends on what a call under way has found: `CallsKnow` says which department a
call is at, that it has a key and no entry yet (or, closing, an entry), and that whoever is
past `Open` is on the mapping his key opened. Other processes cannot spoil that because of
`OneHolder` (a key is held by one process for one department, and was generated) and
`OneVolume` (it opens no other department's volume); `DeadForget` makes a new process start
with nothing. Each step of a call is described once (`FormatCall`, ..., `SealShape`), then
each conjunct of `IInv` has one lemma with one step per action. That a call has a mapping to
work on (`HasMapping`, in `TypeOK`) follows from the other conjuncts (`MappingStep`).

### AGENT-BETA

`AgentBetaProofs` proves every safety property of `AgentBeta`, and the safety half of its
refinement, for any addresses, feeds, capacities, cache sizes and bounds. The parts of its
invariant:

* `CacheInv` (`ListIsMap`, `DangerousStay`): the list names every profile once, in the order of
  last sight. `AdmitShape` reduces the three ways through `GetOrCreate` to one, in which the
  newcomer goes to the front and one place of the list, or the one after its end, is given up;
  `MovedPlaces` says where each place of the new list was before. That nobody dangerous goes
  needs that the scan stops at somebody evictable (`VictimExists`), nothing of the order.
* `RestartInv` (`LossesArePaid`): the alerts missed, and one more while the connection is dead,
  are at most the restarts. Without the dead connection counted it is not inductive.
* `FeedInv` (`FeedRefined`): the violations in the socket, in hand and in the channel are
  `Lined`: in the order of their numbers, all after the last one read and none after the last
  one seen. `FeedSteps` sorts the steps by what they do to that line, `FeedRefinement` maps each
  kind to `See`, `Deliver`, `Lose` or a stutter of `AlertFeed`.
* `CountInv` (`DropsCountOnce`): drops are on their way in the profile, the correlator's hand,
  the channel, the poller's result, and the map where `prev` has not caught up; together they
  are at most what was dropped. The sum over the channel is not taken (that would be a
  recursion): `Levels` asks for *some* rising row of numbers, one for each place of the channel,
  that has room for each event's count between two neighbours (`LevelsAppend`, `LevelsTail`).

### Model-checked only

Liveness under fairness, which is beyond the prover (`L4EndsInSilence`, `ShutdownCompletes`,
`OnlyQuietFeedsHoldAStop`, the fairness of `AlertFeed`); and the five violations, which are
counterexamples.

## Findings

1. `Stop` waits for a handler that nothing wakes (`threat_stop`).
2. A command beside the daemon breaks the audit chain (`audit_overlap`).
3. A process that first writes after a rotation finds nothing to link its segment to, and does not
   notice the rotation (`audit_restart`).
4. AGENT-BETA's `Stop` closes descriptors under readers that this does not wake
   (`agent_beta_stop`).
5. A quarantine is a flag that dies with the process that set it: `dept unquarantine` refuses
   to end it, and `dept snapshot` thaws what it did not freeze (`departments_held`; TLC meets the
   first, and the second when no command line is an unquarantine).

Disagreements between the code and its comments that no run is needed for:

* `firewall/layer3/allowlist_manager.go:427`: "This removes ALL allowlist entries". A flush of a
  list that is not empty deadlocks: `flushAllEntries` calls `removeEntry`, which locks `am.mu`
  (484) under the lock that `ApplyUpdate` holds (392). No entry goes and every later call waits.
  `FlushEntries` has it so (`wedged`); a run could only repeat that definition.
* `auth/session.go:541`: "within 1 hour of expiration"; line 551 rotates every token that
  is an hour old.
* `cmd/agent-beta/main.go:10`: a signed alert when a score exceeds 80. No such alert is
  ever sent (L4 violations alone raise one), and none is signed.
* `agents/beta/profiler.go:6`: eviction after 24 hours. Nothing starts `RunEvictionLoop`;
  profiles go only when room is needed.
* `agents/beta/sources.go:267`, `369`: layouts that mirror the kernel's structs. The L2 event
  and `drop_stats` differ from them, and nothing pins the two maps, so these feeds stay silent.
* `db/vault.go:401`: a GPG-encrypted backup. When gpg fails the plain archive stays, and a
  backup after a shutdown archives an empty mount point and reports success.

## Not modelled

IPv6 and ARP; layers 1, 2 and 4 (stateless replies and static rules); AGENT-ALPHA (a reader
and a stateless classifier, whose frames the daemon skips); the integrity scanner
(`auth/scanner.go`: called by its tests only, with no state that outlives a scan); the status
API and printing (pure I/O); scripts and units except the logrotate stanza. Of the modelled
components: the reassembly of frames, mounts and root file systems, credentials and their
rotation, the files of a backup, the parsing and tagging of events.

Some steps are coarser than the code. A failing `luksFormat` leaves the old header or the new
one, never a broken one. A command that outlives its killed process does its work at the
kill, not later (`Orphan`). In a spawn, `ip link add` and the move of the peer are one step
that may fail between the two but not be killed there. `Visit` takes the per-CPU drop counters
as they are in the kernel, where `sources.go:370-375` reads a struct of another layout.

## Plan

1. `extractFrame`: reassembly of frames split over reads, with corrupt headers and the 4 MiB
   limit.
2. Credentials in `KeyVault`: generation, rotation by age, and the rotation loop.
3. An abstract login (proved, opened, rotated, ended) that `Sessions` implements.
