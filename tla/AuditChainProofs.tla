--------------------------- MODULE AuditChainProofs ---------------------------
(***************************************************************************)
(* Why the audit log verifies when its writers take turns, for any         *)
(* processes, failures of writes and numbers of lines, rotations and       *)
(* restarts.                                                               *)
(***************************************************************************)
EXTENDS AuditChain, TLAPS

AuditLine == [id : Nat, kind : {"entry", "genesis"}, prev : Nat, link : Nat]

\* What IsLine says of a line, once count.lines = n lines were written.
LineOf(n, l) == /\ l.id \in 1..n /\ l.kind \in {"entry", "genesis"}
                /\ l.prev \in 0..n /\ l.link \in 0..n

TypedLog ==
    /\ env \in Environments /\ rotating \in BOOLEAN
    /\ count \in [lines : Nat, inodes : Nat, starts : Nat]
    /\ log \in [ino : 0..count.inodes, lines : Seq(AuditLine)]
    /\ Len(log.lines) <= count.lines
    /\ log.ino = 0 => rotating /\ log.lines = <<>>
    /\ archive \in Seq(Seq(AuditLine))
    /\ \A s \in DOMAIN archive : archive[s] # <<>>
    /\ \A s \in DOMAIN archive : \A i \in DOMAIN archive[s] : LineOf(count.lines, archive[s][i])
    /\ \A i \in DOMAIN log.lines : LineOf(count.lines, log.lines[i])

Stat == [ino : 0..count.inodes, size : 0..count.lines]

TypedProcs ==
    /\ pc \in [Process -> {"off", "idle", "detect", "genesis", "entry", "restat"}]
    /\ last \in [Process -> 0..count.lines] /\ loaded \in [Process -> BOOLEAN]
    /\ seen \in [Process -> Stat] /\ stat \in [Process -> Stat]

\* Writers take turns, and what logrotate does in between is not joined by failing writes.
InTurn == \A e \in Environments :
             /\ ~e.overlap
             /\ e.rotation = "apart" \/ (e.rotation = "between" /\ e.faults = {})

Alone == \A p, q \in Process : pc[p] # "off" /\ pc[q] # "off" => p = q

TailId(lines) == lines[Len(lines)].id

\* hash is what an entry after lines must carry, unless the last write failed; it may be
\* the first only if nothing was rotated away, or a process has found the file empty.
Chains(hash, lines) == IF lines = <<>> THEN /\ hash = 0
                                            /\ archive = <<>> \/ Len(archive) + 1 \in blind
                       ELSE hash = TailId(lines) \/ TailId(lines) \in unsynced

\* hash is what a genesis entry must name, and nothing but failed writes came before it.
Links(hash) ==
    /\ archive # <<>>
    /\ hash = TailId(archive[Len(archive)]) \/ TailId(archive[Len(archive)]) \in unsynced
    /\ log.lines = <<>> \/ TailId(log.lines) \in unsynced

\* What a process that has loaded its hash knows of the file, step by step.
Knows(p) ==
    /\ seen[p].ino = log.ino => seen[p].size <= Len(log.lines) /\ Chains(last[p], log.lines)
    /\ seen[p].ino # log.ino => Links(last[p])

WriterKnows(p) ==
    /\ pc[p] = "idle" /\ loaded[p] => seen[p].ino # 0 /\ Knows(p)
    /\ pc[p] = "detect" => loaded[p] /\ Knows(p)
    /\ pc[p] = "genesis" =>
          /\ loaded[p] /\ seen[p].ino # log.ino /\ Links(last[p])
          /\ stat[p] = StatFile
    /\ pc[p] \in {"detect", "genesis"} /\ env.rotation = "apart" => seen[p].ino # 0
    /\ pc[p] = "entry" =>
          /\ loaded[p] /\ Chains(last[p], log.lines)
          /\ env.rotation = "apart" => seen[p].ino = log.ino /\ seen[p].size <= Len(log.lines)
    /\ pc[p] = "restat" => loaded[p] /\ log.ino # 0 /\ Chains(last[p], log.lines)
    /\ pc[p] \notin {"off", "idle"} /\ env.rotation = "apart" => ~rotating

WritersKnow == \A p \in Process : WriterKnows(p)

IInv == TypedLog /\ TypedProcs /\ Alone /\ WritersKnow /\ ChainVerifies /\ GenesisLinksSegments

-----------------------------------------------------------------------------
(* Lines and segments.                                                     *)
LEMMA AppendShape ==
    ASSUME NEW S, NEW s \in Seq(S), NEW e \in S
    PROVE  /\ Append(s, e) \in Seq(S) /\ Append(s, e) # <<>>
           /\ Len(Append(s, e)) = Len(s) + 1 /\ Len(s) \in Nat
           /\ DOMAIN s = 1..Len(s) /\ DOMAIN Append(s, e) = 1..(Len(s) + 1)
           /\ \A i \in 1..Len(s) : Append(s, e)[i] = s[i]
           /\ Append(s, e)[Len(s) + 1] = e
OBVIOUS

LEMMA SegmentsShape ==
    ASSUME NEW a \in Seq(Seq(AuditLine)), NEW l \in Seq(AuditLine), NEW S, S = Append(a, l)
    PROVE  /\ Len(a) \in Nat
           /\ DOMAIN S = 1..(Len(a) + 1)
           /\ \A s \in 1..Len(a) : S[s] = a[s]
           /\ S[Len(a) + 1] = l
BY AppendShape

LEMMA LineNumbers ==
    ASSUME NEW a \in Seq(Seq(AuditLine)), NEW l \in Seq(AuditLine), NEW S, S = Append(a, l),
           NEW s \in DOMAIN S
    PROVE  Len(S[s]) \in Nat /\ DOMAIN S[s] = 1..Len(S[s])
<1>1. S \in Seq(Seq(AuditLine))
  BY AppendShape
<1>2. S[s] \in Seq(AuditLine)
  BY <1>1
<1> QED BY <1>2

(* What is wanted of line i of segment s: that it verifies, and that it    *)
(* links the segments.                                                     *)
LineHolds(s, i) ==
    LET lines == Segments[s] IN
    /\ LinksBack(lines, i) \/ FollowsFailure(lines, i)
    /\ i = 1 => s = 1 \/ s \in blind \/ lines[i].kind = "genesis"
    /\ lines[i].kind = "genesis" =>
          /\ i = 1 \/ FollowsFailure(lines, i)
          /\ s > 1
          /\ lines[i].link = TailId(Segments[s - 1]) \/ TailId(Segments[s - 1]) \in unsynced

LinesHold == \A s \in DOMAIN Segments : \A i \in DOMAIN Segments[s] : LineHolds(s, i)

LEMMA LinesHoldIsBoth == LinesHold <=> ChainVerifies /\ GenesisLinksSegments
BY DEF LinesHold, LineHolds, ChainVerifies, GenesisLinksSegments, NamesTail, TailId

(* A step that writes nothing and forgets no failure.                      *)
LEMMA UnwrittenStep ==
    ASSUME LinesHold, log'.lines = log.lines, archive' = archive,
           unsynced \subseteq unsynced', blind \subseteq blind'
    PROVE  LinesHold'
<1>1. Segments' = Segments
  BY DEF Segments
<1> SUFFICES ASSUME NEW s \in DOMAIN Segments, NEW i \in DOMAIN Segments[s]
             PROVE  LineHolds(s, i)'
  BY <1>1 DEF LinesHold
<1>2. LineHolds(s, i)
  BY DEF LinesHold
<1> QED BY <1>1, <1>2 DEF LineHolds, LinksBack, FollowsFailure, TailId

(* Line i of a segment s depends on the lines before it only.              *)
LEMMA PrefixHolds ==
    ASSUME TypedLog, TypedLog', NEW s \in DOMAIN Segments, NEW i \in DOMAIN Segments[s],
           LineHolds(s, i), unsynced \subseteq unsynced', blind \subseteq blind',
           s \in DOMAIN Segments',
           \A j \in 1..i : Segments'[s][j] = Segments[s][j],
           s > 1 => Segments'[s - 1] = Segments[s - 1]
    PROVE  LineHolds(s, i)'
<1>1. i \in Nat /\ i >= 1
  <2>1. /\ archive \in Seq(Seq(AuditLine)) /\ log.lines \in Seq(AuditLine)
        /\ Segments = Append(archive, log.lines)
    BY DEF TypedLog, Segments
  <2>2. Len(Segments[s]) \in Nat /\ DOMAIN Segments[s] = 1..Len(Segments[s])
    BY <2>1, LineNumbers
  <2> QED BY <2>2
<1>2. Segments'[s][i] = Segments[s][i] /\ (i > 1 => Segments'[s][i - 1] = Segments[s][i - 1])
  BY <1>1
<1> QED BY <1>1, <1>2 DEF LineHolds, LinksBack, FollowsFailure, TailId

(* A step that writes a line.                                              *)
LEMMA WrittenStep ==
    ASSUME TypedLog, TypedLog', LinesHold, archive' = archive, unsynced \subseteq unsynced',
           blind \subseteq blind',
           NEW l \in AuditLine, log'.lines = Append(log.lines, l),
           log.lines = <<>> => l.prev = 0,
           log.lines # <<>> => l.prev = TailId(log.lines) \/ TailId(log.lines) \in unsynced,
           l.kind = "genesis" => Links(l.link),
           log.lines = <<>> =>
              l.kind = "genesis" \/ archive = <<>> \/ Len(archive) + 1 \in blind
    PROVE  LinesHold'
<1> SUFFICES ASSUME NEW s \in DOMAIN Segments', NEW i \in DOMAIN Segments'[s]
             PROVE  LineHolds(s, i)'
  BY DEF LinesHold
<1> DEFINE n == Len(archive)
<1>1. /\ n \in Nat /\ s \in 1..(n + 1) /\ DOMAIN Segments = 1..(n + 1)
      /\ \A t \in 1..n : Segments'[t] = Segments[t]
      /\ Segments[n + 1] = log.lines
      /\ Segments'[n + 1] = Append(log.lines, l)
      /\ i \in 1..Len(Segments'[s])
  <2>1. /\ archive \in Seq(Seq(AuditLine)) /\ log.lines \in Seq(AuditLine)
        /\ archive' \in Seq(Seq(AuditLine)) /\ log'.lines \in Seq(AuditLine)
        /\ Segments = Append(archive, log.lines) /\ Segments' = Append(archive', log'.lines)
    BY DEF TypedLog, Segments
  <2>2. /\ n \in Nat /\ DOMAIN Segments = 1..(n + 1) /\ Segments[n + 1] = log.lines
        /\ \A t \in 1..n : Segments[t] = archive[t]
    <3>1. /\ archive \in Seq(Seq(AuditLine)) /\ log.lines \in Seq(AuditLine)
          /\ Segments = Append(archive, log.lines)
      BY <2>1
    <3> QED BY <3>1, SegmentsShape
  <2>3. /\ DOMAIN Segments' = 1..(n + 1) /\ Segments'[n + 1] = Append(log.lines, l)
        /\ \A t \in 1..n : Segments'[t] = archive[t]
    <3>1. /\ archive \in Seq(Seq(AuditLine)) /\ log'.lines \in Seq(AuditLine)
          /\ Segments' = Append(archive, log'.lines)
      BY <2>1
    <3>2. /\ DOMAIN Segments' = 1..(n + 1) /\ Segments'[n + 1] = log'.lines
          /\ \A t \in 1..n : Segments'[t] = archive[t]
      BY <3>1, SegmentsShape
    <3> QED BY <3>2
  <2>4. DOMAIN Segments'[s] = 1..Len(Segments'[s])
    <3>1. /\ archive' \in Seq(Seq(AuditLine)) /\ log'.lines \in Seq(AuditLine)
          /\ Segments' = Append(archive', log'.lines)
      BY <2>1
    <3> QED BY <3>1, LineNumbers
  <2> QED BY <2>2, <2>3, <2>4
<1>2. /\ log.lines \in Seq(AuditLine) /\ Len(log.lines) \in Nat
      /\ DOMAIN log.lines = 1..Len(log.lines)
      /\ Len(Append(log.lines, l)) = Len(log.lines) + 1
      /\ \A j \in 1..Len(log.lines) : Append(log.lines, l)[j] = log.lines[j]
      /\ Append(log.lines, l)[Len(log.lines) + 1] = l
  BY AppendShape DEF TypedLog
<1> HIDE DEF n
<1>3. s > 1 => Segments'[s - 1] = Segments[s - 1]
  <2>1. s > 1 => s - 1 \in 1..n
    BY <1>1
  <2> QED BY <1>1, <2>1
<1>4. CASE s \in 1..n
  <2>1. Segments'[s] = Segments[s] /\ s \in DOMAIN Segments /\ i \in DOMAIN Segments[s]
    BY <1>1, <1>4
  <2> QED BY <1>3, <2>1, PrefixHolds DEF LinesHold
<1>5. CASE s = n + 1 /\ i \in 1..Len(log.lines)
  <2>1. s \in DOMAIN Segments /\ i \in DOMAIN Segments[s]
    BY <1>1, <1>2, <1>5
  <2>2. \A j \in 1..i : Segments'[s][j] = Segments[s][j]
    <3>1. Segments'[s] = Append(log.lines, l) /\ Segments[s] = log.lines
      BY <1>1, <1>5
    <3>2. \A j \in 1..i : j \in 1..Len(log.lines)
      BY <1>2, <1>5
    <3> QED BY <1>2, <3>1, <3>2
  <2> QED BY <1>3, <2>1, <2>2, PrefixHolds DEF LinesHold
<1>6. CASE s = n + 1 /\ i = Len(log.lines) + 1
  <2>1. Segments'[s][i] = l /\ (i > 1 => Segments'[s][i - 1] = log.lines[Len(log.lines)])
    <3>1. Segments'[s] = Append(log.lines, l)
      BY <1>1, <1>6
    <3>2. i - 1 = Len(log.lines) /\ (i > 1 => Len(log.lines) \in 1..Len(log.lines))
      BY <1>2, <1>6
    <3> QED BY <1>2, <1>6, <3>1, <3>2
  <2>2. i = 1 <=> log.lines = <<>>
    BY <1>2, <1>6
  <2>3. (LinksBack(Segments[s], i) \/ FollowsFailure(Segments[s], i))'
    BY <1>2, <1>6, <2>1, <2>2 DEF LinksBack, FollowsFailure, TailId
  <2>5. i = 1 => s = 1 \/ s \in blind' \/ l.kind = "genesis"
    <3>1. Len(<<>>) = 0
      OBVIOUS
    <3> QED BY <1>6, <2>2, <3>1 DEF n
  <2>4. ASSUME l.kind = "genesis"
        PROVE  /\ i = 1 \/ FollowsFailure(Segments[s], i)'
               /\ s > 1
               /\ l.link = TailId(Segments[s - 1])' \/ TailId(Segments[s - 1])' \in unsynced'
    <3>1. Links(l.link) /\ archive # <<>> /\ archive \in Seq(Seq(AuditLine))
      BY <2>4 DEF Links, TypedLog
    <3>2. n > 0
      BY <3>1 DEF n
    <3>3. Segments[n] = archive[n]
      <4>1. log.lines \in Seq(AuditLine) /\ Segments = Append(archive, log.lines)
        BY DEF TypedLog, Segments
      <4>2. \A t \in 1..Len(archive) : Segments[t] = archive[t]
        BY <3>1, <4>1, SegmentsShape
      <4> QED BY <1>1, <3>2, <4>2 DEF n
    <3>5. Segments'[s - 1] = archive[n] /\ s > 1
      BY <1>1, <1>3, <1>6, <3>2, <3>3
    <3>4. i = 1 \/ FollowsFailure(Segments[s], i)'
      BY <1>2, <1>6, <2>1, <2>2, <3>1 DEF Links, FollowsFailure, TailId
    <3> QED BY <3>1, <3>5, <3>4 DEF Links, TailId, n
  <2> QED BY <2>1, <2>3, <2>4, <2>5 DEF LineHolds
<1> QED BY <1>1, <1>2, <1>4, <1>5, <1>6

(* A rotation.                                                             *)
LEMMA RotatedStep ==
    ASSUME TypedLog, TypedLog', LinesHold, archive' = Append(archive, log.lines),
           log'.lines = <<>>, unsynced' = unsynced, blind' = blind
    PROVE  LinesHold'
<1> SUFFICES ASSUME NEW s \in DOMAIN Segments', NEW i \in DOMAIN Segments'[s]
             PROVE  LineHolds(s, i)'
  BY DEF LinesHold
<1> DEFINE n == Len(archive)
<1>1. /\ n \in Nat /\ Len(archive') = n + 1
      /\ \A t \in 1..n : archive'[t] = archive[t]
      /\ archive'[n + 1] = log.lines
  BY AppendShape DEF TypedLog
<1>2. /\ s \in 1..(n + 2) /\ DOMAIN Segments = 1..(n + 1)
      /\ \A t \in 1..(n + 1) : Segments'[t] = Segments[t]
      /\ Segments'[n + 2] = <<>>
  <2>1. /\ archive \in Seq(Seq(AuditLine)) /\ log.lines \in Seq(AuditLine)
        /\ archive' \in Seq(Seq(AuditLine)) /\ log'.lines \in Seq(AuditLine)
        /\ Segments = Append(archive, log.lines) /\ Segments' = Append(archive', log'.lines)
    BY DEF TypedLog, Segments
  <2>2. /\ DOMAIN Segments = 1..(n + 1) /\ Segments[n + 1] = log.lines
        /\ \A t \in 1..n : Segments[t] = archive[t]
    BY <2>1, SegmentsShape
  <2>3. /\ DOMAIN Segments' = 1..(n + 2) /\ Segments'[n + 2] = <<>>
        /\ \A t \in 1..(n + 1) : Segments'[t] = archive'[t]
    BY <1>1, <2>1, SegmentsShape
  <2> QED BY <1>1, <2>2, <2>3
<1>3. s \in 1..(n + 1)
  BY <1>1, <1>2
<1> HIDE DEF n
<1>4. /\ s \in DOMAIN Segments /\ i \in DOMAIN Segments[s] /\ Segments'[s] = Segments[s]
      /\ s > 1 => Segments'[s - 1] = Segments[s - 1]
  BY <1>1, <1>2, <1>3
<1> QED BY <1>4, PrefixHolds DEF LinesHold

-----------------------------------------------------------------------------
(* What a write does.                                                      *)
Written(kind, prev, link) ==
    /\ \E l \in AuditLine : /\ l.id = count.lines + 1 /\ l.kind = kind
                            /\ l.prev = prev /\ l.link = link
                            /\ log'.lines = Append(log.lines, l)
    /\ log' = [ino |-> log'.ino, lines |-> log'.lines]
    /\ log'.ino = IF log.ino = 0 THEN count.inodes + 1 ELSE log.ino
    /\ count' \in [lines : Nat, inodes : Nat, starts : Nat]
    /\ count'.lines = count.lines + 1 /\ count'.starts = count.starts
    /\ count'.inodes = IF log.ino = 0 THEN count.inodes + 1 ELSE count.inodes

LEMMA AppendLineWrites ==
    ASSUME TypedLog, NEW kind \in {"entry", "genesis"}, NEW prev \in 0..count.lines,
           NEW link \in 0..count.lines, AppendLine(Line(kind, prev, link))
    PROVE  Written(kind, prev, link)
<1> DEFINE l == [id |-> count.lines + 1, kind |-> kind, prev |-> prev, link |-> link]
<1>1. [Line(kind, prev, link) EXCEPT !.id = count.lines + 1] = l
  BY DEF Line
<1>2. l \in AuditLine
  BY DEF TypedLog, AuditLine
<1>3. log'.lines = Append(log.lines, l)
  BY <1>1 DEF AppendLine
<1>4. /\ log'.ino = IF log.ino = 0 THEN count.inodes + 1 ELSE log.ino
      /\ count' = [count EXCEPT !.lines = count.lines + 1,
                                !.inodes = IF log.ino = 0 THEN @ + 1 ELSE @]
  BY DEF AppendLine
<1>a. count' = [lines |-> count.lines + 1, starts |-> count.starts,
                inodes |-> IF log.ino = 0 THEN count.inodes + 1 ELSE count.inodes]
  BY <1>4 DEF TypedLog
<1>5. /\ count' \in [lines : Nat, inodes : Nat, starts : Nat]
      /\ count'.lines = count.lines + 1 /\ count'.starts = count.starts
      /\ count'.inodes = IF log.ino = 0 THEN count.inodes + 1 ELSE count.inodes
  BY <1>a DEF TypedLog
<1>6. log' = [ino |-> log'.ino, lines |-> log'.lines]
  BY DEF AppendLine
<1> QED BY <1>2, <1>3, <1>4, <1>5, <1>6 DEF Written

\* Process p's write of a line: done, failed before it reached the file, or failed after.
WriteOutcome(p, kind, prev, link, next) ==
    /\ UNCHANGED <<env, archive, rotating, loaded, stat, blind>>
    /\ \/ /\ Written(kind, prev, link) /\ unsynced' = unsynced
          /\ last' = [last EXCEPT ![p] = count.lines + 1]
          /\ Goto(p, next)
       \/ /\ UNCHANGED <<log, unsynced, count, last, seen>> /\ Goto(p, "idle")
          /\ "open" \in env.faults
       \/ /\ Written(kind, prev, link) /\ UNCHANGED <<last, seen>> /\ Goto(p, "idle")
          /\ unsynced' = unsynced \cup {count.lines + 1}
          /\ "sync" \in env.faults

LEMMA GenesisWrites ==
    ASSUME TypedLog, TypedProcs, NEW p \in Process, Genesis(p)
    PROVE  /\ pc[p] = "genesis"
           /\ WriteOutcome(p, "genesis", 0, last[p], "entry")
           /\ seen' \in {seen, [seen EXCEPT ![p] = stat[p]]}
           /\ pc'[p] = "entry" => seen' = [seen EXCEPT ![p] = stat[p]]
<1>1. last[p] \in 0..count.lines /\ 0 \in 0..count.lines
  BY DEF TypedProcs, TypedLog
<1>2. AppendLine(GenesisLine(p)) => Written("genesis", 0, last[p])
  BY <1>1, AppendLineWrites DEF GenesisLine
<1> QED BY <1>2 DEF Genesis, WriteSucceeds, WriteFails, WriteOutcome, ghosts, Goto, TypedProcs

LEMMA EntryWrites ==
    ASSUME TypedLog, TypedProcs, NEW p \in Process, Entry(p)
    PROVE  /\ pc[p] = "entry" /\ seen' = seen
           /\ WriteOutcome(p, "entry", last[p], 0, "restat")
<1>1. last[p] \in 0..count.lines /\ 0 \in 0..count.lines
  BY DEF TypedProcs, TypedLog
<1>2. AppendLine(Line("entry", last[p], 0)) => Written("entry", last[p], 0)
  BY <1>1, AppendLineWrites
<1> QED BY <1>2 DEF Entry, WriteSucceeds, WriteFails, WriteOutcome, ghosts, Goto

(* What a write leaves of the types.                                       *)
LEMMA WritingKeepsTypes ==
    ASSUME TypedLog, NEW kind \in {"entry", "genesis"}, NEW prev \in 0..count.lines,
           NEW link \in 0..count.lines, Written(kind, prev, link),
           UNCHANGED <<env, archive, rotating>>
    PROVE  TypedLog' /\ 0..count.lines \subseteq 0..count'.lines /\ log'.lines # <<>>
           /\ 0..count.inodes \subseteq 0..count'.inodes
<1>1. PICK l \in AuditLine : /\ l.id = count.lines + 1 /\ l.kind = kind
                             /\ l.prev = prev /\ l.link = link
                             /\ log'.lines = Append(log.lines, l)
  BY DEF Written
<1>2. /\ count.lines \in Nat /\ count'.lines = count.lines + 1 /\ count.inodes \in Nat
      /\ count'.inodes \in {count.inodes, count.inodes + 1}
      /\ log'.ino \in 0..count'.inodes /\ log'.ino # 0
  BY DEF Written, TypedLog
<1>3. \A k : LineOf(count.lines, k) => LineOf(count'.lines, k)
  BY <1>2 DEF LineOf
<1>a. log.lines \in Seq(AuditLine)
  BY DEF TypedLog
<1>4. /\ log'.lines \in Seq(AuditLine) /\ log'.lines # <<>>
      /\ Len(log'.lines) = Len(log.lines) + 1 /\ DOMAIN log'.lines = 1..(Len(log.lines) + 1)
      /\ Len(log.lines) \in Nat /\ DOMAIN log.lines = 1..Len(log.lines)
      /\ \A i \in 1..Len(log.lines) : log'.lines[i] = log.lines[i]
      /\ log'.lines[Len(log.lines) + 1] = l
  BY <1>1, <1>a, AppendShape
<1>5. LineOf(count'.lines, l)
  BY <1>1, <1>2 DEF LineOf
<1>b. \A i \in 1..Len(log.lines) : LineOf(count'.lines, log'.lines[i])
  BY <1>3, <1>4 DEF TypedLog
<1>6. \A i \in DOMAIN log'.lines : LineOf(count'.lines, log'.lines[i])
  <2> SUFFICES ASSUME NEW i \in 1..(Len(log.lines) + 1)
               PROVE  LineOf(count'.lines, log'.lines[i])
    BY <1>4
  <2>1. i \in 1..Len(log.lines) \/ i = Len(log.lines) + 1
    BY <1>4
  <2> QED BY <2>1, <1>b, <1>4, <1>5
<1>7. \A s \in DOMAIN archive : \A i \in DOMAIN archive[s] : LineOf(count'.lines, archive[s][i])
  BY <1>3 DEF TypedLog
<1>8. Len(log'.lines) <= count'.lines /\ count'.starts \in Nat
  BY <1>2, <1>4 DEF TypedLog, Written
<1>9. log' \in [ino : 0..count'.inodes, lines : Seq(AuditLine)]
  BY <1>2, <1>4 DEF Written
<1>10. TypedLog'
  <2>1. /\ env' \in Environments /\ rotating' \in BOOLEAN /\ archive' = archive
        /\ count' \in [lines : Nat, inodes : Nat, starts : Nat]
    BY DEF TypedLog, Written
  <2>2. archive' \in Seq(Seq(AuditLine)) /\ \A s \in DOMAIN archive : archive[s] # <<>>
    BY <2>1 DEF TypedLog
  <2> QED BY <1>2, <1>6, <1>7, <1>8, <1>9, <2>1, <2>2 DEF TypedLog
<1> QED BY <1>2, <1>4, <1>10

(* The file, the archive and the processes keep their types, whoever       *)
(* overlaps with whom.                                                     *)
LEMMA TypedLogStep ==
    ASSUME TypedLog, TypedProcs, [Next]_vars
    PROVE  TypedLog'
<1>1. ASSUME NEW p \in Process, Start(p) PROVE TypedLog'
  <2>1. /\ UNCHANGED <<env, log, archive, rotating>>
        /\ count' = [count EXCEPT !.starts = count.starts + 1]
    BY <1>1 DEF Start
  <2>2. /\ count'.lines = count.lines /\ count'.inodes = count.inodes
        /\ count' \in [lines : Nat, inodes : Nat, starts : Nat]
    <3>1. count \in [lines : Nat, inodes : Nat, starts : Nat] /\ count.starts + 1 \in Nat
      BY DEF TypedLog
    <3> QED BY <2>1, <3>1
  <2> QED BY <2>1, <2>2 DEF TypedLog
<1>2. ASSUME NEW p \in Process, Stop(p) PROVE TypedLog'
  BY <1>2 DEF TypedLog, Stop, Goto, ghosts
<1>3. ASSUME NEW p \in Process, Begin(p) PROVE TypedLog'
  BY <1>3 DEF TypedLog, Begin, Goto, ghosts
<1>4. ASSUME NEW p \in Process, Detect(p) PROVE TypedLog'
  BY <1>4 DEF TypedLog, Detect, Goto, ghosts
<1>5. ASSUME NEW p \in Process, Genesis(p) PROVE TypedLog'
  <2>1. WriteOutcome(p, "genesis", 0, last[p], "entry")
    BY <1>5, GenesisWrites
  <2>2. 0 \in 0..count.lines /\ last[p] \in 0..count.lines
    BY DEF TypedLog, TypedProcs
  <2>3. CASE Written("genesis", 0, last[p])
    BY <2>1, <2>2, <2>3, WritingKeepsTypes DEF WriteOutcome
  <2>4. CASE UNCHANGED <<log, count>>
    BY <2>1, <2>4 DEF WriteOutcome, TypedLog
  <2> QED BY <2>1, <2>3, <2>4 DEF WriteOutcome
<1>6. ASSUME NEW p \in Process, Entry(p) PROVE TypedLog'
  <2>1. WriteOutcome(p, "entry", last[p], 0, "restat")
    BY <1>6, EntryWrites
  <2>2. last[p] \in 0..count.lines /\ 0 \in 0..count.lines
    BY DEF TypedLog, TypedProcs
  <2>3. CASE Written("entry", last[p], 0)
    BY <2>1, <2>2, <2>3, WritingKeepsTypes DEF WriteOutcome
  <2>4. CASE UNCHANGED <<log, count>>
    BY <2>1, <2>4 DEF WriteOutcome, TypedLog
  <2> QED BY <2>1, <2>3, <2>4 DEF WriteOutcome
<1>7. ASSUME NEW p \in Process, Restat(p) PROVE TypedLog'
  BY <1>7 DEF TypedLog, Restat, Goto, ghosts
<1>8. ASSUME Rename PROVE TypedLog'
  <2>1. /\ archive' = Append(archive, log.lines) /\ rotating' /\ rotating' \in BOOLEAN
        /\ log' = [ino |-> 0, lines |-> <<>>] /\ log.lines # <<>>
        /\ UNCHANGED <<env, count>>
    BY <1>8 DEF Rename, ghosts
  <2>2. /\ archive' \in Seq(Seq(AuditLine)) /\ DOMAIN archive' = 1..(Len(archive) + 1)
        /\ DOMAIN archive = 1..Len(archive) /\ Len(archive) \in Nat
        /\ \A s \in 1..Len(archive) : archive'[s] = archive[s]
        /\ archive'[Len(archive) + 1] = log.lines
    BY <2>1, AppendShape DEF TypedLog
  <2>a. \A s \in 1..Len(archive) :
           archive'[s] # <<>> /\ \A i \in DOMAIN archive'[s] : LineOf(count'.lines, archive'[s][i])
    BY <2>1, <2>2 DEF TypedLog
  <2>b. /\ archive'[Len(archive) + 1] # <<>>
        /\ \A i \in DOMAIN log.lines : LineOf(count'.lines, log.lines[i])
    BY <2>1, <2>2 DEF TypedLog
  <2>4. \A s \in DOMAIN archive' : /\ archive'[s] # <<>>
                                   /\ \A i \in DOMAIN archive'[s] :
                                         LineOf(count'.lines, archive'[s][i])
    BY <2>2, <2>a, <2>b
  <2>5. <<>> \in Seq(AuditLine) /\ Len(<<>>) = 0 /\ \A i \in DOMAIN <<>> : FALSE
    OBVIOUS
  <2>6. /\ log' \in [ino : 0..count'.inodes, lines : Seq(AuditLine)]
        /\ Len(log'.lines) <= count'.lines
    BY <2>1, <2>5 DEF TypedLog
  <2> QED BY <2>1, <2>2, <2>4, <2>5, <2>6 DEF TypedLog
<1>9. ASSUME Create PROVE TypedLog'
  <2>1. /\ UNCHANGED <<env, archive>> /\ rotating' = FALSE /\ log'.lines = log.lines
        /\ log'.ino # 0 /\ log' \in [ino : 0..count'.inodes, lines : Seq(AuditLine)]
        /\ count'.lines = count.lines /\ count' \in [lines : Nat, inodes : Nat, starts : Nat]
    BY <1>9 DEF Create, TypedLog
  <2> QED BY <2>1 DEF TypedLog
<1>10. ASSUME UNCHANGED vars PROVE TypedLog'
  BY <1>10 DEF TypedLog, vars, procVars, ghosts
<1> QED
  BY <1>1, <1>2, <1>3, <1>4, <1>5, <1>6, <1>7, <1>8, <1>9, <1>10 DEF Next

LEMMA TypedProcsStep ==
    ASSUME TypedLog, TypedProcs, [Next]_vars
    PROVE  TypedProcs'
<1>1. ASSUME NEW p \in Process, Start(p) PROVE TypedProcs'
  <2>1. count'.lines = count.lines /\ count'.inodes = count.inodes
    BY <1>1 DEF Start, TypedLog
  <2>2. NoStat \in Stat /\ 0 \in 0..count.lines
    BY DEF NoStat, Stat, TypedLog
  <2> QED BY <1>1, <2>1, <2>2 DEF Start, TypedProcs, Goto, Stat
<1>2. ASSUME NEW p \in Process, Stop(p) PROVE TypedProcs'
  BY <1>2 DEF TypedProcs, Stat, Stop, Goto, ghosts
<1>3. ASSUME NEW p \in Process, Begin(p) PROVE TypedProcs'
  <2>1. StatFile \in Stat /\ UNCHANGED count
    BY <1>3 DEF StatFile, NoStat, Stat, TypedLog, Begin, ghosts
  <2>2. TailHash \in 0..count.lines
    <3>1. log.lines # <<>> => Len(log.lines) \in DOMAIN log.lines
      BY DEF TypedLog
    <3> QED BY <3>1 DEF TailHash, TypedLog, LineOf, IsLine
  <2>a. /\ seen' = seen \/ seen' = [seen EXCEPT ![p] = StatFile]
        /\ last' = last \/ last' = [last EXCEPT ![p] = TailHash]
    BY <1>3 DEF Begin
  <2>3. seen' \in [Process -> Stat] /\ last' \in [Process -> 0..count.lines]
    BY <2>1, <2>2, <2>a DEF TypedProcs
  <2>4. /\ pc' \in [Process -> {"off", "idle", "detect", "genesis", "entry", "restat"}]
        /\ loaded' \in [Process -> BOOLEAN] /\ stat' = stat
    BY <1>3 DEF Begin, TypedProcs, Goto
  <2> QED BY <2>1, <2>3, <2>4 DEF TypedProcs, Stat
<1>4. ASSUME NEW p \in Process, Detect(p) PROVE TypedProcs'
  <2>1. StatFile \in Stat /\ UNCHANGED count
    BY <1>4 DEF StatFile, NoStat, Stat, TypedLog, Detect, ghosts
  <2> QED BY <1>4, <2>1 DEF Detect, TypedProcs, Goto, Stat
<1>5. ASSUME NEW p \in Process, Genesis(p) PROVE TypedProcs'
  <2>1. /\ WriteOutcome(p, "genesis", 0, last[p], "entry")
        /\ seen' \in {seen, [seen EXCEPT ![p] = stat[p]]}
    BY <1>5, GenesisWrites
  <2>2. /\ 0..count.lines \subseteq 0..count'.lines /\ 0..count.inodes \subseteq 0..count'.inodes
        /\ Written("genesis", 0, last[p]) => count.lines + 1 \in 0..count'.lines
    BY <2>1 DEF WriteOutcome, Written, TypedLog
  <2>3. Stat \subseteq Stat'
    BY <2>2 DEF Stat
  <2>4. seen' \in [Process -> Stat] /\ stat' \in [Process -> Stat] /\ loaded' = loaded
    BY <2>1 DEF TypedProcs, WriteOutcome
  <2>5. last' \in [Process -> 0..count'.lines]
    BY <2>1, <2>2 DEF TypedProcs, WriteOutcome
  <2>6. pc' \in [Process -> {"off", "idle", "detect", "genesis", "entry", "restat"}]
    BY <2>1 DEF TypedProcs, WriteOutcome, Goto
  <2> QED BY <2>3, <2>4, <2>5, <2>6 DEF TypedProcs
<1>6. ASSUME NEW p \in Process, Entry(p) PROVE TypedProcs'
  <2>1. /\ WriteOutcome(p, "entry", last[p], 0, "restat")
        /\ seen' \in {seen, [seen EXCEPT ![p] = stat[p]]}
    BY <1>6, EntryWrites
  <2>2. /\ 0..count.lines \subseteq 0..count'.lines /\ 0..count.inodes \subseteq 0..count'.inodes
        /\ Written("entry", last[p], 0) => count.lines + 1 \in 0..count'.lines
    BY <2>1 DEF WriteOutcome, Written, TypedLog
  <2>3. Stat \subseteq Stat'
    BY <2>2 DEF Stat
  <2>4. seen' \in [Process -> Stat] /\ stat' \in [Process -> Stat] /\ loaded' = loaded
    BY <2>1 DEF TypedProcs, WriteOutcome
  <2>5. last' \in [Process -> 0..count'.lines]
    BY <2>1, <2>2 DEF TypedProcs, WriteOutcome
  <2>6. pc' \in [Process -> {"off", "idle", "detect", "genesis", "entry", "restat"}]
    BY <2>1 DEF TypedProcs, WriteOutcome, Goto
  <2> QED BY <2>3, <2>4, <2>5, <2>6 DEF TypedProcs
<1>7. ASSUME NEW p \in Process, Restat(p) PROVE TypedProcs'
  <2>1. StatFile \in Stat /\ UNCHANGED count
    BY <1>7 DEF StatFile, NoStat, Stat, TypedLog, Restat, ghosts
  <2> QED BY <1>7, <2>1 DEF Restat, TypedProcs, Goto, Stat
<1>8. ASSUME Rename PROVE TypedProcs'
  BY <1>8 DEF TypedProcs, Stat, Rename, Goto, procVars, ghosts
<1>9. ASSUME Create PROVE TypedProcs'
  <2>1. count'.lines = count.lines /\ count'.inodes \in {count.inodes, count.inodes + 1}
    BY <1>9 DEF Create, TypedLog
  <2>2. Stat \subseteq Stat'
    BY <2>1 DEF Stat, TypedLog
  <2> QED BY <1>9, <2>1, <2>2 DEF Create, procVars, TypedProcs
<1>10. ASSUME UNCHANGED vars PROVE TypedProcs'
  BY <1>10 DEF TypedProcs, Stat, vars, procVars, ghosts
<1> QED
  BY <1>1, <1>2, <1>3, <1>4, <1>5, <1>6, <1>7, <1>8, <1>9, <1>10 DEF Next

-----------------------------------------------------------------------------
(* Taking turns.                                                           *)
LEMMA EnvironmentInTurn ==
    ASSUME TypedLog, InTurn
    PROVE  /\ ~env.overlap /\ env.rotation # "anytime"
           /\ env.rotation = "apart" \/ env.faults = {}
           /\ MayRotate => \A p \in Process : pc[p] \in {"off", "idle"}
BY DEF TypedLog, InTurn, MayRotate

LEMMA AloneStep ==
    ASSUME TypedLog, TypedProcs, Alone, InTurn, [Next]_vars
    PROVE  Alone'
<1>1. ASSUME NEW p \in Process, Start(p) PROVE Alone'
  BY <1>1, EnvironmentInTurn DEF Alone, Start, Goto, TypedProcs
<1>2. ASSUME NEW p \in Process, Stop(p) PROVE Alone'
  BY <1>2 DEF Alone, Stop, Goto, ghosts, TypedProcs
<1>3. ASSUME NEW p \in Process, Begin(p) PROVE Alone'
  BY <1>3 DEF Alone, Begin, Goto, ghosts, TypedProcs
<1>4. ASSUME NEW p \in Process, Detect(p) PROVE Alone'
  BY <1>4 DEF Alone, Detect, Goto, ghosts, TypedProcs
<1>5. ASSUME NEW p \in Process, Genesis(p) PROVE Alone'
  BY <1>5 DEF Alone, Genesis, Goto, TypedProcs, WriteSucceeds, WriteFails
<1>6. ASSUME NEW p \in Process, Entry(p) PROVE Alone'
  BY <1>6 DEF Alone, Entry, Goto, TypedProcs, WriteSucceeds, WriteFails
<1>7. ASSUME NEW p \in Process, Restat(p) PROVE Alone'
  BY <1>7 DEF Alone, Restat, Goto, ghosts, TypedProcs
<1>8. ASSUME Rename PROVE Alone'
  BY <1>8 DEF Alone, Rename, Goto, procVars, ghosts
<1>9. ASSUME Create PROVE Alone'
  BY <1>9 DEF Alone, Create, Goto, procVars
<1>10. ASSUME UNCHANGED vars PROVE Alone'
  BY <1>10 DEF Alone, vars, procVars, ghosts
<1> QED
  BY <1>1, <1>2, <1>3, <1>4, <1>5, <1>6, <1>7, <1>8, <1>9, <1>10 DEF Next

(* The others are off while process p does a step of its own.              *)
LEMMA OthersOff ==
    ASSUME TypedProcs, Alone, NEW p \in Process, pc[p] # "off",
           NEW label \in {"off", "idle", "detect", "genesis", "entry", "restat"},
           pc' = [pc EXCEPT ![p] = label], WriterKnows(p)'
    PROVE  WritersKnow'
<1> SUFFICES ASSUME NEW q \in Process, q # p PROVE WriterKnows(q)'
  BY DEF WritersKnow
<1>1. pc'[q] = "off"
  BY DEF Alone, TypedProcs
<1> QED BY <1>1 DEF WriterKnows

LEMMA FileStat ==
    ASSUME TypedLog
    PROVE  /\ StatFile.ino = log.ino /\ StatFile.size = Len(log.lines)
           /\ log.lines = <<>> => TailHash = 0
           /\ log.lines # <<>> => Chains(TailHash, log.lines)
           /\ Len(log.lines) \in Nat
           /\ ~rotating => log.ino # 0
<1>1. log.lines \in Seq(AuditLine) /\ (log.ino = 0 => rotating /\ log.lines = <<>>)
  BY DEF TypedLog
<1>2. Len(<<>>) = 0
  OBVIOUS
<1> QED BY <1>1, <1>2 DEF StatFile, NoStat, Chains, TailHash, TailId

(* A line that p writes is one its hash chains.                            *)
LEMMA WrittenTail ==
    ASSUME TypedLog, NEW kind \in {"entry", "genesis"}, NEW prev \in 0..count.lines,
           NEW link \in 0..count.lines, Written(kind, prev, link)
    PROVE  /\ log'.lines # <<>> /\ TailId(log'.lines) = count.lines + 1
           /\ Len(log'.lines) = Len(log.lines) + 1 /\ log'.ino # 0
           /\ log.ino # 0 => log'.ino = log.ino
<1>1. PICK l \in AuditLine : l.id = count.lines + 1 /\ log'.lines = Append(log.lines, l)
  BY DEF Written
<1>2. log.lines \in Seq(AuditLine)
  BY DEF TypedLog
<1>3. /\ log'.lines # <<>> /\ Len(log'.lines) = Len(log.lines) + 1 /\ Len(log.lines) \in Nat
      /\ log'.lines[Len(log.lines) + 1] = l
  BY <1>1, <1>2, AppendShape
<1> QED BY <1>1, <1>3 DEF Written, TypedLog, TailId

(* Process p after a failed write, when logrotate keeps apart.             *)
LEMMA FailedWriteKnows ==
    ASSUME TypedLog, TypedProcs, InTurn, NEW p \in Process, pc'[p] = "idle",
           UNCHANGED <<env, archive, rotating, loaded, last, seen, blind>>,
           env.faults # {}, env.rotation = "apart" => seen[p].ino # 0,
           \/ UNCHANGED <<log, unsynced>> /\ Knows(p)
           \/ /\ log'.lines # <<>> /\ log'.ino = log.ino /\ Len(log.lines) <= Len(log'.lines)
              /\ TailId(log'.lines) \in unsynced' /\ unsynced \subseteq unsynced'
              /\ Len(log'.lines) \in Nat /\ Knows(p)
    PROVE  WriterKnows(p)'
<1>1. env.rotation = "apart" /\ seen[p].ino # 0
  BY EnvironmentInTurn
<1>2. CASE UNCHANGED <<log, unsynced>> /\ Knows(p)
  BY <1>1, <1>2 DEF WriterKnows, Knows, Chains, Links
<1>3. CASE /\ log'.lines # <<>> /\ log'.ino = log.ino /\ Len(log.lines) <= Len(log'.lines)
           /\ TailId(log'.lines) \in unsynced' /\ unsynced \subseteq unsynced'
           /\ Len(log'.lines) \in Nat /\ Knows(p)
  <2>1. seen[p].size \in Nat /\ Len(log.lines) \in Nat
    BY FileStat DEF TypedProcs, TypedLog, Stat
  <2>2. Knows(p)'
    BY <1>3, <2>1 DEF Knows, Chains, Links
  <2> QED BY <1>1, <2>2 DEF WriterKnows
<1> QED BY <1>2, <1>3

(* What the writer knows of the file stays true of it.                     *)
LEMMA WritersKnowStep ==
    ASSUME TypedLog, TypedProcs, Alone, WritersKnow, InTurn, [Next]_vars
    PROVE  WritersKnow'
<1>1. ASSUME NEW p \in Process, Start(p) PROVE WritersKnow'
  <2> SUFFICES ASSUME NEW q \in Process PROVE WriterKnows(q)'
    BY DEF WritersKnow
  <2>1. CASE q = p
    BY <1>1, <2>1 DEF Start, Goto, WriterKnows, TypedProcs
  <2>2. CASE q # p
    <3>1. pc'[q] = "off"
      BY <1>1, <2>2, EnvironmentInTurn DEF Start, Goto, TypedProcs
    <3> QED BY <3>1 DEF WriterKnows
  <2> QED BY <2>1, <2>2
<1>2. ASSUME NEW p \in Process, Stop(p) PROVE WritersKnow'
  <2>1. pc[p] # "off" /\ pc' = [pc EXCEPT ![p] = "off"] /\ pc'[p] = "off"
    BY <1>2 DEF Stop, Goto, TypedProcs
  <2>2. WriterKnows(p)'
    BY <2>1 DEF WriterKnows
  <2> QED BY <2>1, <2>2, OthersOff
<1>3. ASSUME NEW p \in Process, Begin(p) PROVE WritersKnow'
  <2>1. /\ pc[p] = "idle" /\ pc' = [pc EXCEPT ![p] = "detect"] /\ pc'[p] = "detect"
        /\ env.rotation = "apart" => ~rotating
        /\ UNCHANGED <<env, log, archive, rotating, unsynced>> /\ blind \subseteq blind'
    BY <1>3 DEF Begin, Goto, TypedProcs, ghosts
  <2>2. CASE loaded[p] /\ UNCHANGED <<last, loaded, seen>>
    <3>1. seen[p].ino # 0 /\ Knows(p)
      BY <2>1, <2>2 DEF WritersKnow, WriterKnows
    <3>2. Knows(p)'
      BY <2>1, <2>2, <3>1 DEF Knows, Chains, Links
    <3> QED BY <2>1, <2>2, <3>1, <3>2, OthersOff DEF WriterKnows
  <2>3. CASE /\ last'[p] = TailHash /\ loaded'[p] /\ seen'[p] = StatFile
             /\ log.lines = <<>> => Len(archive) + 1 \in blind'
    <3>1. Knows(p)'
      BY <2>1, <2>3, FileStat DEF Knows, Chains
    <3>2. env.rotation = "apart" => seen'[p].ino # 0
      BY <2>1, <2>3, FileStat
    <3>3. WriterKnows(p)'
      BY <2>1, <2>3, <3>1, <3>2 DEF WriterKnows
    <3> QED BY <2>1, <3>3, OthersOff
  <2> QED BY <1>3, <2>2, <2>3 DEF Begin, TypedProcs
<1>4. ASSUME NEW p \in Process, Detect(p) PROVE WritersKnow'
  <2> DEFINE next == IF Rotated(StatFile, seen[p]) THEN "genesis" ELSE "entry"
  <2>1. /\ pc[p] = "detect" /\ pc' = [pc EXCEPT ![p] = next] /\ pc'[p] = next
        /\ stat'[p] = StatFile
        /\ UNCHANGED <<env, log, archive, rotating, last, loaded, seen, unsynced, blind>>
    BY <1>4 DEF Detect, Goto, TypedProcs, ghosts
  <2>2. /\ loaded[p] /\ Knows(p) /\ (env.rotation = "apart" => seen[p].ino # 0 /\ ~rotating)
    BY <2>1 DEF WritersKnow, WriterKnows
  <2>3. seen[p].size \in Nat
    BY DEF TypedProcs, Stat, TypedLog
  <2>4. IF log.ino = seen[p].ino
        THEN next = "entry" /\ seen[p].size <= Len(log.lines) /\ Chains(last[p], log.lines)
        ELSE next = "genesis" /\ Links(last[p])
    BY <2>2, <2>3, FileStat DEF Rotated, Knows
  <2> HIDE DEF next
  <2>5. /\ Chains(last[p], log.lines) => Chains(last[p], log.lines)'
        /\ Links(last[p]) => Links(last[p])' /\ StatFile' = StatFile
    BY <2>1 DEF Chains, Links, StatFile
  <2>6. WriterKnows(p)'
    BY <2>1, <2>2, <2>4, <2>5 DEF WriterKnows
  <2>7. next \in {"off", "idle", "detect", "genesis", "entry", "restat"}
    BY <2>4
  <2> QED BY <2>1, <2>6, <2>7, OthersOff
<1>5. ASSUME NEW p \in Process, Genesis(p) PROVE WritersKnow'
  <2>1. /\ pc[p] = "genesis" /\ WriteOutcome(p, "genesis", 0, last[p], "entry")
        /\ pc'[p] = "entry" => seen' = [seen EXCEPT ![p] = stat[p]]
    BY <1>5, GenesisWrites
  <2>2. 0 \in 0..count.lines /\ last[p] \in 0..count.lines
    BY DEF TypedLog, TypedProcs
  <2>3. Written("genesis", 0, last[p]) =>
          /\ log'.lines # <<>> /\ TailId(log'.lines) = count.lines + 1
          /\ Len(log'.lines) = Len(log.lines) + 1 /\ log'.ino # 0
          /\ log.ino # 0 => log'.ino = log.ino
    BY <2>2, WrittenTail
  <2>4. /\ loaded[p] /\ seen[p].ino # log.ino /\ Links(last[p]) /\ stat[p] = StatFile
        /\ env.rotation = "apart" => seen[p].ino # 0 /\ ~rotating /\ log.ino # 0
    BY <2>1, FileStat DEF WritersKnow, WriterKnows
  <2>5. CASE /\ Written("genesis", 0, last[p]) /\ last' = [last EXCEPT ![p] = count.lines + 1]
             /\ Goto(p, "entry")
    <3>1. /\ pc' = [pc EXCEPT ![p] = "entry"] /\ pc'[p] = "entry" /\ seen'[p] = stat[p]
          /\ last'[p] = count.lines + 1 /\ UNCHANGED <<env, rotating, loaded>>
      BY <2>1, <2>5 DEF Goto, TypedProcs, WriteOutcome
    <3>2. Chains(last[p], log.lines)'
      BY <2>3, <2>5, <3>1 DEF Chains
    <3>3. env.rotation = "apart" => seen'[p].ino = log'.ino /\ seen'[p].size <= Len(log'.lines)
      BY <2>3, <2>4, <2>5, <3>1, FileStat
    <3>4. WriterKnows(p)'
      BY <2>4, <3>1, <3>2, <3>3 DEF WriterKnows
    <3> QED BY <2>1, <3>1, <3>4, OthersOff
  <2>6. CASE /\ UNCHANGED <<log, unsynced, last, seen>> /\ Goto(p, "idle")
             /\ "open" \in env.faults
    <3>1. pc' = [pc EXCEPT ![p] = "idle"] /\ pc'[p] = "idle"
      BY <2>6 DEF Goto, TypedProcs
    <3>2. Knows(p) /\ env.rotation = "apart" /\ log.ino # 0 /\ seen[p].ino # 0
      BY <2>4, <2>6, EnvironmentInTurn DEF Knows
    <3>4. WriterKnows(p)'
      BY <2>1, <2>6, <3>1, <3>2, FailedWriteKnows DEF WriteOutcome
    <3> QED BY <2>1, <3>1, <3>4, OthersOff
  <2>7. CASE /\ Written("genesis", 0, last[p]) /\ UNCHANGED <<last, seen>> /\ Goto(p, "idle")
             /\ unsynced' = unsynced \cup {count.lines + 1} /\ "sync" \in env.faults
    <3>1. pc' = [pc EXCEPT ![p] = "idle"] /\ pc'[p] = "idle"
      BY <2>7 DEF Goto, TypedProcs
    <3>2. Knows(p) /\ env.rotation = "apart" /\ log.ino # 0 /\ seen[p].ino # 0
      BY <2>4, <2>7, EnvironmentInTurn DEF Knows
    <3>3. /\ log'.lines # <<>> /\ log'.ino = log.ino /\ Len(log.lines) <= Len(log'.lines)
          /\ TailId(log'.lines) \in unsynced' /\ unsynced \subseteq unsynced'
          /\ Len(log'.lines) \in Nat
      BY <2>3, <2>7, <3>2, FileStat
    <3>4. WriterKnows(p)'
      BY <2>1, <2>7, <3>1, <3>2, <3>3, FailedWriteKnows DEF WriteOutcome
    <3> QED BY <2>1, <3>1, <3>4, OthersOff
  <2> QED BY <2>1, <2>5, <2>6, <2>7 DEF WriteOutcome
<1>6. ASSUME NEW p \in Process, Entry(p) PROVE WritersKnow'
  <2>1. /\ pc[p] = "entry" /\ WriteOutcome(p, "entry", last[p], 0, "restat")
        /\ seen' = seen
    BY <1>6, EntryWrites
  <2>2. last[p] \in 0..count.lines /\ 0 \in 0..count.lines
    BY DEF TypedLog, TypedProcs
  <2>3. Written("entry", last[p], 0) =>
          /\ log'.lines # <<>> /\ TailId(log'.lines) = count.lines + 1
          /\ Len(log'.lines) = Len(log.lines) + 1 /\ log'.ino # 0
          /\ log.ino # 0 => log'.ino = log.ino
    BY <2>2, WrittenTail
  <2>4. /\ loaded[p] /\ Chains(last[p], log.lines)
        /\ env.rotation = "apart" => /\ seen[p].ino = log.ino /\ seen[p].size <= Len(log.lines)
                                     /\ ~rotating /\ log.ino # 0
    BY <2>1, FileStat DEF WritersKnow, WriterKnows
  <2>5. CASE /\ Written("entry", last[p], 0) /\ last' = [last EXCEPT ![p] = count.lines + 1]
             /\ Goto(p, "restat")
    <3>1. /\ pc' = [pc EXCEPT ![p] = "restat"] /\ pc'[p] = "restat"
          /\ last'[p] = count.lines + 1 /\ UNCHANGED <<env, rotating, loaded>>
      BY <2>1, <2>5 DEF Goto, TypedProcs, WriteOutcome
    <3>2. Chains(last[p], log.lines)'
      BY <2>3, <2>5, <3>1 DEF Chains
    <3>3. env.rotation = "apart" => ~rotating'
      BY <2>4, <3>1
    <3>4. WriterKnows(p)'
      BY <2>3, <2>4, <2>5, <3>1, <3>2, <3>3 DEF WriterKnows
    <3> QED BY <2>1, <3>1, <3>4, OthersOff
  <2>6. CASE /\ UNCHANGED <<log, unsynced, last, seen>> /\ Goto(p, "idle")
             /\ "open" \in env.faults
    <3>1. pc' = [pc EXCEPT ![p] = "idle"] /\ pc'[p] = "idle"
      BY <2>6 DEF Goto, TypedProcs
    <3>2. Knows(p) /\ env.rotation = "apart" /\ log.ino # 0 /\ seen[p].ino # 0
      BY <2>4, <2>6, EnvironmentInTurn DEF Knows
    <3>4. WriterKnows(p)'
      BY <2>1, <2>6, <3>1, <3>2, FailedWriteKnows DEF WriteOutcome
    <3> QED BY <2>1, <3>1, <3>4, OthersOff
  <2>7. CASE /\ Written("entry", last[p], 0) /\ UNCHANGED <<last, seen>> /\ Goto(p, "idle")
             /\ unsynced' = unsynced \cup {count.lines + 1} /\ "sync" \in env.faults
    <3>1. pc' = [pc EXCEPT ![p] = "idle"] /\ pc'[p] = "idle"
      BY <2>7 DEF Goto, TypedProcs
    <3>2. Knows(p) /\ env.rotation = "apart" /\ log.ino # 0 /\ seen[p].ino # 0
      BY <2>4, <2>7, EnvironmentInTurn DEF Knows
    <3>3. /\ log'.lines # <<>> /\ log'.ino = log.ino /\ Len(log.lines) <= Len(log'.lines)
          /\ TailId(log'.lines) \in unsynced' /\ unsynced \subseteq unsynced'
          /\ Len(log'.lines) \in Nat
      BY <2>3, <2>7, <3>2, FileStat
    <3>4. WriterKnows(p)'
      BY <2>1, <2>7, <3>1, <3>2, <3>3, FailedWriteKnows DEF WriteOutcome
    <3> QED BY <2>1, <3>1, <3>4, OthersOff
  <2> QED BY <2>1, <2>5, <2>6, <2>7 DEF WriteOutcome
<1>7. ASSUME NEW p \in Process, Restat(p) PROVE WritersKnow'
  <2>1. /\ pc[p] = "restat" /\ pc' = [pc EXCEPT ![p] = "idle"] /\ pc'[p] = "idle"
        /\ seen'[p] = StatFile
        /\ UNCHANGED <<env, log, archive, rotating, last, loaded, unsynced, blind>>
    BY <1>7 DEF Restat, Goto, TypedProcs, ghosts
  <2>2. log.ino # 0 /\ Chains(last[p], log.lines)
    BY <2>1 DEF WritersKnow, WriterKnows
  <2>3. seen'[p].ino # 0 /\ Knows(p)'
    BY <2>1, <2>2, FileStat DEF Knows, Chains
  <2>4. WriterKnows(p)'
    BY <2>1, <2>3 DEF WriterKnows
  <2> QED BY <2>1, <2>4, OthersOff
<1>8. ASSUME Rename PROVE WritersKnow'
  <2>1. /\ UNCHANGED <<env, pc, last, loaded, seen, stat, unsynced>>
        /\ log'.ino = 0 /\ log'.lines = <<>> /\ log.lines # <<>>
        /\ archive' = Append(archive, log.lines)
        /\ \A p \in Process : pc[p] \in {"off", "idle"}
    BY <1>8, EnvironmentInTurn DEF Rename, procVars, ghosts
  <2>2. archive' # <<>> /\ archive'[Len(archive')] = log.lines
    <3>1. archive \in Seq(Seq(AuditLine)) /\ log.lines \in Seq(AuditLine)
      BY DEF TypedLog
    <3> QED BY <2>1, <3>1, AppendShape
  <2> SUFFICES ASSUME NEW p \in Process PROVE WriterKnows(p)'
    BY DEF WritersKnow
  <2>3. ASSUME pc[p] = "idle", loaded[p] PROVE seen[p].ino # 0 /\ Knows(p)'
    <3>1. seen[p].ino # 0 /\ Knows(p)
      BY <2>3 DEF WritersKnow, WriterKnows
    <3>2. last[p] = TailId(log.lines) \/ TailId(log.lines) \in unsynced
      BY <2>1, <3>1 DEF Knows, Chains, Links
    <3>3. Links(last[p])'
      BY <2>1, <2>2, <3>2 DEF Links
    <3> QED BY <2>1, <3>1, <3>3 DEF Knows
  <2> QED BY <2>1, <2>3 DEF WriterKnows
<1>9. ASSUME Create PROVE WritersKnow'
  <2>1. /\ UNCHANGED <<env, archive, pc, last, loaded, seen, stat, unsynced, blind>>
        /\ log'.lines = log.lines
        /\ log'.ino = log.ino \/ (log.ino = 0 /\ log'.ino = count.inodes + 1)
        /\ \A p \in Process : pc[p] \in {"off", "idle"}
    BY <1>9, EnvironmentInTurn DEF Create, procVars, TypedLog
  <2> SUFFICES ASSUME NEW p \in Process PROVE WriterKnows(p)'
    BY DEF WritersKnow
  <2>2. ASSUME pc[p] = "idle", loaded[p] PROVE seen[p].ino # 0 /\ Knows(p)'
    <3>1. seen[p].ino # 0 /\ Knows(p)
      BY <2>2 DEF WritersKnow, WriterKnows
    <3>2. seen[p].ino \in 0..count.inodes /\ count.inodes \in Nat
      BY DEF TypedProcs, Stat, TypedLog
    <3>3. Links(last[p]) => Links(last[p])'
      BY <2>1 DEF Links
    <3>4. Chains(last[p], log.lines) => Chains(last[p], log.lines)'
      BY <2>1 DEF Chains
    <3> QED BY <2>1, <3>1, <3>2, <3>3, <3>4 DEF Knows
  <2> QED BY <2>1, <2>2 DEF WriterKnows
<1>10. ASSUME UNCHANGED vars PROVE WritersKnow'
  BY <1>10 DEF WritersKnow, WriterKnows, Knows, Links, Chains, StatFile, vars, procVars,
        ghosts
<1> QED
  BY <1>1, <1>2, <1>3, <1>4, <1>5, <1>6, <1>7, <1>8, <1>9, <1>10 DEF Next

(* A line verifies when it is written, and nothing is written before it    *)
(* later.                                                                  *)
LEMMA LinesHoldStep ==
    ASSUME TypedLog, TypedProcs, Alone, WritersKnow, InTurn, LinesHold, TypedLog', [Next]_vars
    PROVE  LinesHold'
<1>1. ASSUME NEW p \in Process, Start(p) PROVE LinesHold'
  <2>1. UNCHANGED <<log, archive, unsynced, blind>>
    BY <1>1 DEF Start
  <2> QED BY <2>1, UnwrittenStep
<1>2. ASSUME NEW p \in Process, Stop(p) PROVE LinesHold'
  <2>1. UNCHANGED <<log, archive, unsynced, blind>>
    BY <1>2 DEF Stop, ghosts
  <2> QED BY <2>1, UnwrittenStep
<1>3. ASSUME NEW p \in Process, Begin(p) PROVE LinesHold'
  <2>1. UNCHANGED <<log, archive, unsynced>> /\ blind \subseteq blind'
    BY <1>3 DEF Begin
  <2> QED BY <2>1, UnwrittenStep
<1>4. ASSUME NEW p \in Process, Detect(p) PROVE LinesHold'
  <2>1. UNCHANGED <<log, archive, unsynced, blind>>
    BY <1>4 DEF Detect, ghosts
  <2> QED BY <2>1, UnwrittenStep
<1>5. ASSUME NEW p \in Process, Genesis(p) PROVE LinesHold'
  <2>1. /\ pc[p] = "genesis" /\ WriteOutcome(p, "genesis", 0, last[p], "entry")
    BY <1>5, GenesisWrites
  <2>2. Links(last[p])
    BY <2>1 DEF WritersKnow, WriterKnows
  <2>3. archive' = archive /\ unsynced \subseteq unsynced' /\ blind' = blind
    BY <2>1 DEF WriteOutcome
  <2>4. CASE UNCHANGED log
    BY <2>3, <2>4, UnwrittenStep
  <2>5. CASE Written("genesis", 0, last[p])
    <3>1. PICK l \in AuditLine : /\ l.id = count.lines + 1 /\ l.kind = "genesis"
                                 /\ l.prev = 0 /\ l.link = last[p]
                                 /\ log'.lines = Append(log.lines, l)
      BY <2>5 DEF Written
    <3>2. /\ log.lines = <<>> => l.prev = 0
          /\ log.lines # <<>> => l.prev = TailId(log.lines) \/ TailId(log.lines) \in unsynced
          /\ l.kind = "genesis" => Links(l.link)
          /\ log.lines = <<>> =>
                l.kind = "genesis" \/ archive = <<>> \/ Len(archive) + 1 \in blind
      BY <2>2, <3>1 DEF Links
    <3> QED BY <2>3, <3>1, <3>2, WrittenStep
  <2> QED BY <2>1, <2>4, <2>5 DEF WriteOutcome
<1>6. ASSUME NEW p \in Process, Entry(p) PROVE LinesHold'
  <2>1. /\ pc[p] = "entry" /\ WriteOutcome(p, "entry", last[p], 0, "restat")
    BY <1>6, EntryWrites
  <2>2. Chains(last[p], log.lines)
    BY <2>1 DEF WritersKnow, WriterKnows
  <2>3. archive' = archive /\ unsynced \subseteq unsynced' /\ blind' = blind
    BY <2>1 DEF WriteOutcome
  <2>4. CASE UNCHANGED log
    BY <2>3, <2>4, UnwrittenStep
  <2>5. CASE Written("entry", last[p], 0)
    <3>1. PICK l \in AuditLine : /\ l.id = count.lines + 1 /\ l.kind = "entry"
                                 /\ l.prev = last[p] /\ l.link = 0
                                 /\ log'.lines = Append(log.lines, l)
      BY <2>5 DEF Written
    <3>2. /\ log.lines = <<>> => l.prev = 0
          /\ log.lines # <<>> => l.prev = TailId(log.lines) \/ TailId(log.lines) \in unsynced
          /\ l.kind = "genesis" => Links(l.link)
          /\ log.lines = <<>> =>
                l.kind = "genesis" \/ archive = <<>> \/ Len(archive) + 1 \in blind
      BY <2>2, <3>1 DEF Chains
    <3> QED BY <2>3, <3>1, <3>2, WrittenStep
  <2> QED BY <2>1, <2>4, <2>5 DEF WriteOutcome
<1>7. ASSUME NEW p \in Process, Restat(p) PROVE LinesHold'
  <2>1. UNCHANGED <<log, archive, unsynced, blind>>
    BY <1>7 DEF Restat, ghosts
  <2> QED BY <2>1, UnwrittenStep
<1>8. ASSUME Rename PROVE LinesHold'
  <2>1. /\ archive' = Append(archive, log.lines) /\ log'.lines = <<>>
        /\ UNCHANGED <<unsynced, blind>>
    BY <1>8 DEF Rename, ghosts
  <2> QED BY <2>1, RotatedStep
<1>9. ASSUME Create PROVE LinesHold'
  <2>1. UNCHANGED <<archive, unsynced, blind>> /\ log'.lines = log.lines
    BY <1>9 DEF Create, TypedLog
  <2> QED BY <2>1, UnwrittenStep
<1>10. ASSUME UNCHANGED vars PROVE LinesHold'
  BY <1>10, UnwrittenStep DEF vars, ghosts
<1> QED
  BY <1>1, <1>2, <1>3, <1>4, <1>5, <1>6, <1>7, <1>8, <1>9, <1>10 DEF Next

-----------------------------------------------------------------------------
LEMMA InitIInv == Init => IInv
<1> SUFFICES ASSUME Init PROVE IInv
  OBVIOUS
<1>1. /\ <<>> \in Seq(AuditLine) /\ <<>> \in Seq(Seq(AuditLine)) /\ Len(<<>>) = 0
      /\ \A i \in DOMAIN <<>> : FALSE
  OBVIOUS
<1>2. TypedLog
  <2>1. /\ env \in Environments /\ count.lines = 0 /\ log.ino # 0
        /\ log.lines = <<>> /\ archive = <<>>
    BY DEF Init
  <2>3. rotating \in BOOLEAN
    BY Zenon DEF Init
  <2>2. /\ count \in [lines : Nat, inodes : Nat, starts : Nat]
        /\ log \in [ino : 0..count.inodes, lines : Seq(AuditLine)]
    BY <1>1 DEF Init
  <2> QED BY <1>1, <2>1, <2>2, <2>3 DEF TypedLog
<1>3. TypedProcs
  BY DEF Init, TypedProcs, Stat, NoStat
<1>4. Alone /\ WritersKnow
  BY DEF Init, Alone, WritersKnow, WriterKnows
<1>5. LinesHold
  <2>1. /\ log.lines \in Seq(AuditLine) /\ archive \in Seq(Seq(AuditLine))
        /\ Segments = Append(archive, log.lines) /\ Len(archive) = 0 /\ log.lines = <<>>
    BY <1>1 DEF Init, Segments
  <2>2. DOMAIN Segments = 1..1 /\ Segments[1] = <<>>
    BY <2>1, SegmentsShape
  <2> QED BY <1>1, <2>2 DEF LinesHold
<1> QED BY <1>2, <1>3, <1>4, <1>5, LinesHoldIsBoth DEF IInv

LEMMA NextIInv == InTurn /\ IInv /\ [Next]_vars => IInv'
<1> SUFFICES ASSUME InTurn, IInv, [Next]_vars PROVE IInv'
  OBVIOUS
<1>1. TypedLog /\ TypedProcs /\ Alone /\ WritersKnow /\ LinesHold
  BY LinesHoldIsBoth DEF IInv
<1>2. TypedLog' /\ TypedProcs' /\ Alone' /\ WritersKnow'
  BY <1>1, TypedLogStep, TypedProcsStep, AloneStep, WritersKnowStep
<1>3. LinesHold'
  BY <1>1, <1>2, LinesHoldStep
<1>4. (LinesHold <=> ChainVerifies /\ GenesisLinksSegments)'
  BY LinesHoldIsBoth, PTL
<1> QED BY <1>2, <1>3, <1>4 DEF IInv

LEMMA TypesAreOK == TypedLog /\ TypedProcs => TypeOK
<1> SUFFICES ASSUME TypedLog, TypedProcs PROVE TypeOK
  OBVIOUS
<1>1. /\ archive \in Seq(Seq(AuditLine)) /\ log.lines \in Seq(AuditLine)
      /\ Segments = Append(archive, log.lines)
  BY DEF TypedLog, Segments
<1>2. /\ DOMAIN Segments = 1..(Len(archive) + 1) /\ Segments[Len(archive) + 1] = log.lines
      /\ \A s \in 1..Len(archive) : Segments[s] = archive[s]
      /\ Len(archive) \in Nat /\ DOMAIN archive = 1..Len(archive)
  BY <1>1, SegmentsShape
<1>3. \A s \in DOMAIN Segments : \A i \in DOMAIN Segments[s] : IsLine(Segments[s][i])
  <2> SUFFICES ASSUME NEW s \in DOMAIN Segments, NEW i \in DOMAIN Segments[s]
               PROVE  IsLine(Segments[s][i])
    OBVIOUS
  <2>1. CASE s \in 1..Len(archive)
    BY <1>2, <2>1 DEF TypedLog, IsLine, LineOf
  <2>2. CASE s = Len(archive) + 1
    BY <1>2, <2>2 DEF TypedLog, IsLine, LineOf
  <2> QED BY <1>2, <2>1, <2>2
<1> QED BY <1>3 DEF TypedLog, TypedProcs, Stat, TypeOK

(* Whoever overlaps with whom, the file, the segments and what each        *)
(* process remembers are well formed: every hash held or written is that   *)
(* of a line appendAudit has written.                                      *)
THEOREM TypeCorrect == Spec => []TypeOK
<1>1. Init => TypedLog /\ TypedProcs
  BY InitIInv DEF IInv
<1>2. TypedLog /\ TypedProcs /\ [Next]_vars => (TypedLog /\ TypedProcs)'
  BY TypedLogStep, TypedProcsStep
<1> QED BY <1>1, <1>2, TypesAreOK, PTL DEF Spec

LEMMA SpecIInv == InTurn => (Spec => []IInv)
<1> SUFFICES ASSUME InTurn PROVE Spec => []IInv
  OBVIOUS
<1>1. IInv /\ [Next]_vars => IInv'
  BY NextIInv
<1> QED BY <1>1, InitIInv, PTL DEF Spec

(* "audit-trail --verify": while one process at a time writes and          *)
(* logrotate keeps out of its appends, the live log and every rotated      *)
(* segment verify, through failed writes, kills, restarts and rotations,   *)
(* but for a line behind one whose write was reported to have failed.      *)
THEOREM TurnsVerify == ASSUME InTurn PROVE Spec => []ChainVerifies
BY SpecIInv, PTL DEF IInv

(* AUDIT_CHAIN_ROTATED: under the same turns every segment behind a        *)
(* rotation opens with a genesis entry, if no process started on its empty *)
(* file, and a genesis entry is nowhere else and names the last line of    *)
(* the segment before it; but for writes reported to have failed.          *)
THEOREM TurnsLinkSegments == ASSUME InTurn PROVE Spec => []GenesisLinksSegments
BY SpecIInv, PTL DEF IInv

===============================================================================
