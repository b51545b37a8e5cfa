------------------------------- MODULE KeyVault -------------------------------
(***************************************************************************)
(* The per-department encrypted databases (db/vault.go).  A key vault      *)
(* lives and dies with its process; the volumes, mappings and mounts       *)
(* belong to the host, the key files to its /dev/shm.  Init and Shutdown   *)
(* hold kv.mu from end to end, a backup does not; every external command   *)
(* is a step of its own, may fail, and may outlive the process that is     *)
(* waiting for it.  Credentials with their rotation and what a backup      *)
(* writes are left out.                                                    *)
(***************************************************************************)
EXTENDS Naturals

CONSTANTS Dept, Process,
          Key,          \* 64 random bytes: one per initialisation, never repeated
          NoKey,
          MaxReboots    \* bound: reboots of the host

ASSUME KeyVaultAssumption == NoKey \notin Key /\ MaxReboots \in Nat

VARIABLES
    alive,      \* the processes that run
    store,      \* HostKeyStore.keys of each process
    db,         \* kv.databases: "none", "running", or "stopped" (Running = false)
    call,       \* the call under kv.mu, and the command it is at: [dept, at]
    backup,     \* the department whose mounted volume each process's backup reads
    shm,        \* keys with a file in /dev/shm
    header,     \* the key that opens the LUKS2 header of each volume file
    mapped,     \* the key with which /dev/mapper/ghost-dept-<id> was opened
    mounted,    \* its file system is on the mount point
    sealed,     \* ghost: the keys of the databases shut down
    stray,      \* ghost: departments shut down again by a process that had done it before
    used,       \* ghost: keys generated
    reboots     \* ghost: how many there were

memory == <<store, db, call, backup>>
host   == <<header, mapped, mounted>>
ghosts == <<sealed, stray, used, reboots>>
vars   == <<alive, memory, shm, host, ghosts>>

NoDept   == "no department"
Idle     == [dept |-> NoDept, at |-> "idle"]
NoKeys   == [d \in Dept |-> NoKey]
NoDbs    == [d \in Dept |-> "none"]

Init ==
    /\ alive = {} /\ shm = {}
    /\ store = [p \in Process |-> NoKeys] /\ db = [p \in Process |-> NoDbs]
    /\ call = [p \in Process |-> Idle] /\ backup = [p \in Process |-> NoDept]
    /\ header = NoKeys /\ mapped = NoKeys /\ mounted = [d \in Dept |-> FALSE]
    /\ sealed = {} /\ stray = {} /\ used = {} /\ reboots = 0

At(p, label) == p \in alive /\ call[p].at = label
Goto(p, label) == call' = [call EXCEPT ![p].at = label]
Return(p) == call' = [call EXCEPT ![p] = Idle]

\* NewKeyVault, in a process of its own.
Start(p) ==
    /\ p \notin alive
    /\ alive' = alive \cup {p}
    /\ UNCHANGED <<memory, shm, host, ghosts>>

-----------------------------------------------------------------------------
(* InitializeDepartmentDB.  HostKeyStore.UseKey puts the key into a file   *)
(* of /dev/shm for as long as the command that reads it runs.              *)

\* The tmpfs takes the file and the command starts, or the call is over.
BeginUse(p, d, label) ==
    \/ shm' = shm \cup {store'[p][d]} /\ call' = [call EXCEPT ![p] = [dept |-> d, at |-> label]]
    \/ UNCHANGED shm /\ Return(p)

\* Slip: a command that fails leaves the file.
EndUseOnSuccess(p) ==
    shm' \in {shm, shm \ {store[p][call[p].dept]}}

EndUse(p) == shm' = shm \ {store[p][call[p].dept]}

\* A new key, stored before anything is known to work.
InitDB(p, d) ==
    /\ At(p, "idle") /\ db[p][d] = "none"
    /\ \E k \in Key \ used :
          /\ store' = [store EXCEPT ![p][d] = k]
          /\ used' = used \cup {k}
    /\ BeginUse(p, d, "format")
    /\ UNCHANGED <<alive, db, backup, host, sealed, stray, reboots>>

\* luksFormat --batch-mode, which asks nobody.
Formats(p) ==
    /\ header' = [header EXCEPT ![call[p].dept] = store[p][call[p].dept]]
    /\ UNCHANGED <<mapped, mounted>>

\* Failing, it may have written the header or not.
Format(p) ==
    /\ At(p, "format") /\ EndUse(p)
    /\ \/ Formats(p) /\ Goto(p, "reuse")
       \/ (Formats(p) \/ UNCHANGED host) /\ Return(p)
    /\ UNCHANGED <<alive, store, db, backup, ghosts>>

Reuse(p) ==
    /\ At(p, "reuse")
    /\ UNCHANGED store
    /\ BeginUse(p, call[p].dept, "open")
    /\ UNCHANGED <<alive, db, backup, host, ghosts>>

\* cryptsetup open: the key must fit and the name be free.
Opens(p) ==
    LET d == call[p].dept
    IN  /\ header[d] = store[p][d] /\ mapped[d] = NoKey
        /\ mapped' = [mapped EXCEPT ![d] = store[p][d]]
        /\ UNCHANGED <<header, mounted>>

\* Slip: its error is dropped.
OpenUnchecked(p) ==
    /\ At(p, "open") /\ EndUse(p)
    /\ Opens(p) \/ UNCHANGED host
    /\ Goto(p, "mount")
    /\ UNCHANGED <<alive, store, db, backup, ghosts>>

Open(p) ==
    /\ At(p, "open") /\ EndUse(p)
    /\ \/ Opens(p) /\ Goto(p, "mount")
       \/ UNCHANGED host /\ Return(p)
    /\ UNCHANGED <<alive, store, db, backup, ghosts>>

Mounts(p) ==
    /\ mounted' = [mounted EXCEPT ![call[p].dept] = TRUE]
    /\ UNCHANGED <<header, mapped>>

Mount(p) ==
    /\ At(p, "mount")
    /\ \/ Mounts(p) /\ Goto(p, "create")
       \/ UNCHANGED host /\ Return(p)
    /\ UNCHANGED <<alive, store, db, backup, shm, ghosts>>

\* initSQLiteDB or initPostgreSQL, and the entry in the vault.
CreateDB(p) ==
    /\ At(p, "create")
    /\ db' \in {db, [db EXCEPT ![p][call[p].dept] = "running"]}
    /\ Return(p)
    /\ UNCHANGED <<alive, store, backup, shm, host, ghosts>>

-----------------------------------------------------------------------------
(* ShutdownDatabase: umount, close, wipe the key; each failure returns.    *)

\* tar keeps the mount point busy.
Busy(d) == \E p \in alive : backup[p] = d

Shutdown(p, d) ==
    /\ At(p, "idle") /\ db[p][d] # "none"
    /\ mounted[d] /\ ~Busy(d)
    /\ mounted' = [mounted EXCEPT ![d] = FALSE]
    /\ call' = [call EXCEPT ![p] = [dept |-> d, at |-> "close"]]
    /\ stray' = IF db[p][d] = "stopped" THEN stray \cup {d} ELSE stray
    /\ UNCHANGED <<alive, store, db, backup, shm, header, mapped, sealed, used, reboots>>

Closes(p) ==
    /\ mapped' = [mapped EXCEPT ![call[p].dept] = NoKey]
    /\ UNCHANGED <<header, mounted>>

\* WipeKey and Running = false; the key is sealed if there was one.
Seal(p) ==
    LET d == call[p].dept
    IN  /\ store' = [store EXCEPT ![p][d] = NoKey]
        /\ db' = [db EXCEPT ![p][d] = "stopped"]
        /\ sealed' = sealed \cup ({store[p][d]} \ {NoKey})

\* Slip: the error of cryptsetup close is dropped.
CloseUnchecked(p) ==
    /\ At(p, "close") /\ Return(p)
    /\ (Closes(p) \/ UNCHANGED host) /\ Seal(p)
    /\ UNCHANGED <<alive, backup, shm, stray, used, reboots>>

\* Slip: the key is wiped before the device is known to be closed.
CloseAfterWipe(p) ==
    /\ At(p, "close") /\ Return(p)
    /\ \/ Closes(p) /\ Seal(p)
       \/ /\ store' = [store EXCEPT ![p][call[p].dept] = NoKey]
          /\ UNCHANGED <<host, db, sealed>>
    /\ UNCHANGED <<alive, backup, shm, stray, used, reboots>>

Close(p) ==
    /\ At(p, "close") /\ Return(p)
    /\ \/ Closes(p) /\ Seal(p)
       \/ UNCHANGED <<host, store, db, sealed>>
    /\ UNCHANGED <<alive, backup, shm, stray, used, reboots>>

-----------------------------------------------------------------------------
(* BackupDatabase: looks the entry up, lets go of kv.mu, and lets tar read *)
(* what is at the mount point; without the volume there it reads nothing.  *)

Backup(p, d) ==
    /\ At(p, "idle") /\ db[p][d] # "none"
    /\ backup[p] = NoDept /\ mounted[d]
    /\ backup' = [backup EXCEPT ![p] = d]
    /\ UNCHANGED <<alive, store, db, call, shm, host, ghosts>>

Tar(p) ==
    /\ p \in alive /\ backup[p] # NoDept
    /\ backup' = [backup EXCEPT ![p] = NoDept]
    /\ UNCHANGED <<alive, store, db, call, shm, host, ghosts>>

-----------------------------------------------------------------------------
(* The end of a process, its own or by a signal, and of everything: the    *)
(* keys are gone, the volume files stay.                                   *)

Forget(gone) ==
    /\ alive' = alive \ gone
    /\ store' = [p \in Process |-> IF p \in gone THEN NoKeys ELSE store[p]]
    /\ db' = [p \in Process |-> IF p \in gone THEN NoDbs ELSE db[p]]
    /\ call' = [p \in Process |-> IF p \in gone THEN Idle ELSE call[p]]
    /\ backup' = [p \in Process |-> IF p \in gone THEN NoDept ELSE backup[p]]

\* The command a killed process leaves behind still comes to its end.
Orphan(p) ==
    \/ UNCHANGED host
    \/ At(p, "format") /\ Formats(p)
    \/ At(p, "open") /\ Opens(p)
    \/ At(p, "mount") /\ Mounts(p)
    \/ At(p, "close") /\ Closes(p)

Kill(p) ==
    /\ p \in alive
    /\ Forget({p}) /\ Orphan(p)
    /\ UNCHANGED <<shm, ghosts>>

Reboot ==
    /\ reboots < MaxReboots
    /\ reboots' = reboots + 1
    /\ Forget(alive)
    /\ shm' = {} /\ mapped' = NoKeys /\ mounted' = [d \in Dept |-> FALSE]
    /\ UNCHANGED <<header, sealed, stray, used>>

Next ==
    \/ \E p \in Process :
          \/ Start(p) \/ Kill(p)
          \/ Format(p) \/ Reuse(p) \/ Open(p) \/ Mount(p) \/ CreateDB(p)
          \/ Close(p) \/ Tar(p)
          \/ \E d \in Dept : InitDB(p, d) \/ Shutdown(p, d) \/ Backup(p, d)
    \/ Reboot

Spec == Init /\ [][Next]_vars

-----------------------------------------------------------------------------
MaybeKey == Key \cup {NoKey}

Typed ==
    /\ alive \subseteq Process
    /\ store \in [Process -> [Dept -> MaybeKey]]
    /\ db \in [Process -> [Dept -> {"none", "running", "stopped"}]]
    /\ call \in [Process -> [dept : Dept \cup {NoDept},
                              at : {"idle", "format", "reuse", "open", "mount", "create", "close"}]]
    /\ backup \in [Process -> Dept \cup {NoDept}]
    /\ shm \subseteq used /\ sealed \subseteq used /\ used \subseteq Key /\ stray \subseteq Dept
    /\ header \in [Dept -> used \cup {NoKey}] /\ mapped \in [Dept -> used \cup {NoKey}]
    /\ mounted \in [Dept -> BOOLEAN]
    /\ reboots \in 0..MaxReboots

\* A call that mounts, creates or closes has a mapping to work on.
HasMapping ==
    \A p \in alive : call[p].at \in {"mount", "create", "close"} =>
                        mapped[call[p].dept] # NoKey \/ call[p].dept \in stray

TypeOK == Typed /\ HasMapping

(* A database that is running is on the mapping its own key opened, and    *)
(* the process that runs it still has that key: no failing step, retry or  *)
(* other process that initialises the same department comes between them   *)
(* (InitializeDepartmentDB, ShutdownDatabase).  Except a second shutdown   *)
(* by a process that no longer has anything there: the entry is all it     *)
(* checks, and it takes down whatever is mounted.                          *)
RunningDatabaseHasItsKey ==
    \A p \in Process, d \in Dept \ stray :
        db[p][d] = "running" => store[p][d] = mapped[d] /\ mapped[d] # NoKey

(* "The file is immediately wiped and removed after use" (UseKey), also    *)
(* when the command fails: a key somebody still holds is in /dev/shm only  *)
(* while a command of that process reads it.  What a kill leaves there is  *)
(* nobody's.                                                               *)
KeyFilesAreTransient ==
    \A p \in alive, d \in Dept :
        store[p][d] \in shm => call[p].dept = d /\ call[p].at \in {"format", "open"}

(* A shutdown is the end of the key: it is in no process, in no file, and  *)
(* nothing mapped with it is left on the host (ShutdownDatabase), even if  *)
(* an earlier attempt failed between its commands.                         *)
ShutdownIsFinal ==
    \A k \in sealed :
        /\ k \notin shm
        /\ \A d \in Dept : mapped[d] # k /\ \A p \in Process : store[p][d] # k
================================================================================
