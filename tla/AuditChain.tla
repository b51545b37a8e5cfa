------------------------------ MODULE AuditChain ------------------------------
(***************************************************************************)
(* The hash-chained audit log (cmd/ghost-ctl/main.go: appendAudit and its  *)
(* helpers), written by the daemon and by every ghost-ctl command, each a  *)
(* process with its own copy of the tail hash, and rotated by logrotate    *)
(* (deploy.sh step 7b).  A line is identified with its SHA-256, a size     *)
(* with the number of lines.  A step is one system call of appendAudit;    *)
(* auditMu makes the appends of one process sequential.                    *)
(***************************************************************************)
EXTENDS Naturals, Sequences

CONSTANTS Process,
          Environments,  \* what may happen around an append (see Environment)
          MaxLines,      \* bound: lines written
          MaxRotations,  \* bound: rotations
          MaxStarts      \* bound: process starts

\* overlap: several processes may run at once.  rotation: logrotate does its rename and
\* its create with no append in between, with whole appends in between, or at any point
\* of an append.  faults: how writeAuditLine may fail.
Environment == [overlap  : BOOLEAN,
                rotation : {"apart", "between", "anytime"},
                faults   : SUBSET {"open", "sync"}]

ASSUME AuditAssumption ==
    /\ Environments \subseteq Environment
    /\ MaxLines \in Nat /\ MaxRotations \in Nat /\ MaxStarts \in Nat

VARIABLES
    env,      \* the environment of this behaviour
    log,      \* the live file: [ino, lines]; ino = 0: there is no file
    archive,  \* rotated segments, oldest first
    rotating, \* logrotate has renamed the log and not yet created the next one
    pc,       \* where each process is in appendAudit; "off": not running
    last,     \* lastAuditHash, 0 for ""
    loaded,   \* lastAuditHashLoaded
    seen,     \* auditIno and auditSize
    stat,     \* appendAudit's local dev, ino, size
    unsynced, \* ghost: lines written by a writeAuditLine that returned an error
    blind,    \* ghost: numbers of the segments some process found empty when it started
    count     \* ghost: [lines, inodes, starts] used so far

procVars == <<pc, last, loaded, seen, stat>>
ghosts   == <<unsynced, blind, count>>
vars     == <<env, log, archive, rotating, procVars, ghosts>>

NoStat == [ino |-> 0, size |-> 0]

Init ==
    /\ env \in Environments
    /\ log = [ino |-> 1, lines |-> <<>>] /\ archive = <<>> /\ rotating = FALSE
    /\ pc = [p \in Process |-> "off"]
    /\ last = [p \in Process |-> 0]
    /\ loaded = [p \in Process |-> FALSE]
    /\ seen = [p \in Process |-> NoStat]
    /\ stat = [p \in Process |-> NoStat]
    /\ unsynced = {} /\ blind = {}
    /\ count = [lines |-> 0, inodes |-> 1, starts |-> 0]

Goto(p, label) == pc' = [pc EXCEPT ![p] = label]

\* Slip: the size counted one line too far.
StatFileAhead ==
    IF log.ino = 0 THEN NoStat ELSE [ino |-> log.ino, size |-> Len(log.lines) + 1]

\* statAuditFile
StatFile == IF log.ino = 0 THEN NoStat ELSE [ino |-> log.ino, size |-> Len(log.lines)]

\* readAuditTailHash
TailHash == IF log.lines = <<>> THEN 0 ELSE log.lines[Len(log.lines)].id

-----------------------------------------------------------------------------
(* Processes start, and end or are killed at any point of an append.       *)

Start(p) ==
    /\ pc[p] = "off" /\ count.starts < MaxStarts
    /\ env.overlap \/ \A q \in Process : pc[q] = "off"
    /\ Goto(p, "idle")
    /\ last' = [last EXCEPT ![p] = 0]
    /\ loaded' = [loaded EXCEPT ![p] = FALSE]
    /\ seen' = [seen EXCEPT ![p] = NoStat] /\ stat' = [stat EXCEPT ![p] = NoStat]
    /\ count' = [count EXCEPT !.starts = @ + 1]
    /\ UNCHANGED <<env, log, archive, rotating, unsynced, blind>>

Stop(p) ==
    /\ pc[p] # "off"
    /\ Goto(p, "off")
    /\ UNCHANGED <<env, log, archive, rotating, last, loaded, seen, stat, ghosts>>

-----------------------------------------------------------------------------
(* appendAudit *)

\* Seed the hash from the tail of the file, once per process.
Begin(p) ==
    /\ pc[p] = "idle"
    /\ env.rotation = "apart" => ~rotating
    /\ Goto(p, "detect")
    /\ \/ loaded[p] /\ UNCHANGED <<last, loaded, seen, blind>>
       \/ /\ ~loaded[p]
          /\ last' = [last EXCEPT ![p] = TailHash]
          /\ loaded' = [loaded EXCEPT ![p] = TRUE]
          /\ seen' = [seen EXCEPT ![p] = StatFile]
          /\ blind' = IF log.lines = <<>> THEN blind \cup {Len(archive) + 1} ELSE blind
    /\ UNCHANGED <<env, log, archive, rotating, stat, unsynced, count>>

Rotated(now, then) == now.ino # then.ino \/ now.size < then.size

Detect(p) ==
    /\ pc[p] = "detect"
    /\ Goto(p, IF Rotated(StatFile, seen[p]) THEN "genesis" ELSE "entry")
    /\ stat' = [stat EXCEPT ![p] = StatFile]
    /\ UNCHANGED <<env, log, archive, rotating, last, loaded, seen, ghosts>>

\* The line reaches the file, which is created if need be.
AppendLine(line) ==
    /\ count.lines < MaxLines
    /\ LET id  == count.lines + 1
           new == log.ino = 0
       IN  /\ log' = [ino   |-> IF new THEN count.inodes + 1 ELSE log.ino,
                      lines |-> Append(log.lines, [line EXCEPT !.id = id])]
           /\ count' = [count EXCEPT !.lines = id, !.inodes = IF new THEN @ + 1 ELSE @]

\* writeAuditLine: open, append, sync.  lastAuditHash moves on success only; a failure
\* ends the append, though a line whose sync failed is in the file.
WriteSucceeds(p, line) ==
    /\ AppendLine(line)
    /\ last' = [last EXCEPT ![p] = count.lines + 1]
    /\ UNCHANGED <<unsynced, blind>>

WriteFails(p, line) ==
    /\ \/ "open" \in env.faults /\ UNCHANGED <<log, ghosts>>
       \/ /\ "sync" \in env.faults
          /\ AppendLine(line)
          /\ unsynced' = unsynced \cup {count.lines + 1} /\ UNCHANGED blind
    /\ Goto(p, "idle")
    /\ UNCHANGED <<env, archive, rotating, last, loaded, seen, stat>>

Line(kind, prev, link) == [id |-> 0, kind |-> kind, prev |-> prev, link |-> link]

\* Slips: a genesis entry chained like any other, and an ordinary one in its place.
GenesisChained(p)  == Line("genesis", last[p], last[p])
GenesisUnmarked(p) == Line("entry", 0, 0)

\* AUDIT_CHAIN_ROTATED
GenesisLine(p) == Line("genesis", 0, last[p])

Genesis(p) ==
    /\ pc[p] = "genesis"
    /\ \/ /\ WriteSucceeds(p, GenesisLine(p))
          /\ Goto(p, "entry")
          /\ seen' = [seen EXCEPT ![p] = stat[p]]
          /\ UNCHANGED <<env, archive, rotating, loaded, stat>>
       \/ WriteFails(p, GenesisLine(p))

Entry(p) ==
    /\ pc[p] = "entry"
    /\ \/ /\ WriteSucceeds(p, Line("entry", last[p], 0))
          /\ Goto(p, "restat")
          /\ UNCHANGED <<env, archive, rotating, loaded, seen, stat>>
       \/ WriteFails(p, Line("entry", last[p], 0))

Restat(p) ==
    /\ pc[p] = "restat"
    /\ seen' = [seen EXCEPT ![p] = StatFile]
    /\ Goto(p, "idle")
    /\ UNCHANGED <<env, log, archive, rotating, last, loaded, stat, ghosts>>

-----------------------------------------------------------------------------
(* logrotate: rename (never an empty log, never a copytruncate), then      *)
(* create, unless a writer has already created the file.                   *)

MayRotate == env.rotation = "anytime" \/ \A p \in Process : pc[p] \in {"off", "idle"}

Rename ==
    /\ MayRotate
    /\ ~rotating /\ log.lines # <<>> /\ Len(archive) < MaxRotations
    /\ archive' = Append(archive, log.lines)
    /\ log' = [ino |-> 0, lines |-> <<>>]
    /\ rotating' = TRUE
    /\ UNCHANGED <<env, procVars, ghosts>>

Create ==
    /\ MayRotate
    /\ rotating
    /\ rotating' = FALSE
    /\ IF log.ino = 0
       THEN /\ log' = [log EXCEPT !.ino = count.inodes + 1]
            /\ count' = [count EXCEPT !.inodes = @ + 1]
       ELSE UNCHANGED <<log, count>>
    /\ UNCHANGED <<env, archive, procVars, unsynced, blind>>

Next ==
    \/ \E p \in Process : \/ Start(p) \/ Stop(p) \/ Begin(p) \/ Detect(p)
                          \/ Genesis(p) \/ Entry(p) \/ Restat(p)
    \/ Rename \/ Create

Spec == Init /\ [][Next]_vars

-----------------------------------------------------------------------------
Segments == Append(archive, log.lines)

IsLine(l) == /\ l.id \in 1..count.lines /\ l.prev \in 0..count.lines
             /\ l.link \in 0..count.lines /\ l.kind \in {"entry", "genesis"}

TypeOK ==
    /\ env \in Environments
    /\ log.ino \in 0..count.inodes /\ rotating \in BOOLEAN
    /\ \A s \in DOMAIN Segments : \A i \in DOMAIN Segments[s] : IsLine(Segments[s][i])
    /\ pc \in [Process -> {"off", "idle", "detect", "genesis", "entry", "restat"}]
    /\ last \in [Process -> 0..count.lines] /\ loaded \in [Process -> BOOLEAN]
    /\ \A p \in Process : \A s \in {seen[p], stat[p]} :
          s.ino \in 0..count.inodes /\ s.size \in 0..count.lines

\* What verifyAuditChain asks of line i.
LinksBack(lines, i) == lines[i].prev = IF i = 1 THEN 0 ELSE lines[i - 1].id

\* Line i follows one whose append was reported to have failed.
FollowsFailure(lines, i) == i > 1 /\ lines[i - 1].id \in unsynced

(* "Each entry carries PrevHash, forming a tamper-evident chain verifiable *)
(* with ghost-ctl audit-trail --verify": the live log and every rotated    *)
(* segment verify, through crashes, restarts and rotations; a link is      *)
(* missing at most behind a line whose write was reported to have failed.  *)
(* It holds while one process runs at a time and logrotate keeps out of    *)
(* its appends; it does not when a command runs beside the daemon, whose   *)
(* remembered hash is then stale.                                          *)
ChainVerifies ==
    \A s \in DOMAIN Segments : \A i \in DOMAIN Segments[s] :
        LinksBack(Segments[s], i) \/ FollowsFailure(Segments[s], i)

\* Line i of segment s names the last line of the segment before.
NamesTail(s, i) ==
    LET tail == Segments[s - 1][Len(Segments[s - 1])].id
    IN  Segments[s][i].link = tail \/ tail \in unsynced

(* A process that outlives a rotation opens the new segment with a genesis *)
(* entry, and a genesis entry is nowhere else and names the last line of   *)
(* the segment before it; failed writes apart.  Only a segment that some   *)
(* process found empty when it seeded its hash may open otherwise          *)
(* (appendAudit).                                                          *)
GenesisLinksSegments ==
    \A s \in DOMAIN Segments : \A i \in DOMAIN Segments[s] :
        /\ i = 1 => s = 1 \/ s \in blind \/ Segments[s][i].kind = "genesis"
        /\ Segments[s][i].kind = "genesis" =>
              /\ i = 1 \/ FollowsFailure(Segments[s], i)
              /\ s > 1 /\ NamesTail(s, i)

(* "logrotate renamed the file ... the next write starts a new chain       *)
(* segment with an AUDIT_CHAIN_ROTATED genesis entry linking to the old    *)
(* tail" (appendAudit), so that no segment can be lost unnoticed.  A       *)
(* process started after the rotation has no tail to link to and sees no   *)
(* inode change: it opens the segment with an ordinary entry.              *)
EverySegmentIsLinked ==
    \A s \in DOMAIN Segments :
        s > 1 /\ Segments[s] # <<>> => Segments[s][1].kind = "genesis" /\ NamesTail(s, 1)
=============================================================================
