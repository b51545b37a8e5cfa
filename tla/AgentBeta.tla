------------------------------- MODULE AgentBeta -------------------------------
(***************************************************************************)
(* AGENT-BETA (agents/beta/beta.go, sources.go): one goroutine per feed,   *)
(* four bounded channels, the correlator that profiles what comes out of   *)
(* them and writes an alert for every L4 violation, the daemon at the      *)
(* other end of the alert socket, and Stop.  A feed that cannot be opened  *)
(* is off for good; the others go on.                                      *)
(***************************************************************************)
EXTENDS Profiler

CONSTANTS NoIP,          \* an event without a source address
          Hosts,         \* [feeds |-> those that can be opened, size |-> of the profiler]
          Talkers,       \* the addresses each feed reports
          Capacity,      \* of each channel (1024, 1024, 1024, 512)
          SocketRoom,    \* alerts the socket holds before a Write blocks
          MaxViolations, \* bound: L4 events
          MaxDrops,      \* bound: packets the XDP program drops, per address
          MaxRestarts    \* bound: times the daemon goes away

Layer == 1..4
Shunned == Talkers[3]     \* who meets the XDP program

ASSUME AgentBetaAssumption ==
    /\ NoIP \in Address
    /\ Hosts \subseteq [feeds : SUBSET Layer, size : Nat \ {0}]
    /\ Talkers \in [Layer -> SUBSET Address]
    /\ NoIP \notin Talkers[1] \cup Talkers[3]     \* L1 and L3 know no packet without one
    /\ Capacity \in [Layer -> Nat \ {0}] /\ SocketRoom \in Nat \ {0}
    /\ MaxViolations \in Nat /\ MaxDrops \in Nat /\ MaxRestarts \in Nat

VARIABLES
    ctx,        \* "running", "stopping" (cancelled, Stop at wg.Wait), "stopped"
    reader,     \* each feed's goroutine: "off", "reading", "exited", or
                \* "deaf": asleep in Recvfrom on a descriptor that has been closed
    chan,       \* the channels: events [ip, count, id]
    pc, cur,    \* the correlator and the event it has taken
    conn,       \* alertConn: "none" (nil), "open", "dead" (the daemon has hung up)
    socket,     \* alerts written and not read
    listening,  \* the daemon's listener is there
    inMap,      \* the kernel's l3_drops, an LRU map: address -> count
    poll,       \* the poller: "idle", "iterating", "emitting"
    prev,       \* its totals of the last visit
    drops,      \* its result so far
    seen,       \* L4 events read from the kernel, which number them
    latest,     \* ghost: the last of them the daemon has read
    dropped,    \* ghost: packets the XDP program has dropped
    restarts,   \* ghost: times the daemon went away
    missed      \* ghost: alerts lost at the socket while the daemon was listening

pollVars  == <<inMap, poll, prev, drops, dropped>>
alertVars == <<conn, socket, listening, latest, restarts, missed>>
vars      == <<profilerVars, ctx, reader, chan, pc, cur, seen, pollVars, alertVars>>

Event   == [ip : Address, count : Nat, id : Nat]
NoEvent == [ip |-> NoIP, count |-> 0, id |-> 0]
Zero    == [a \in Shunned |-> 0]

\* What the feeds make of a packet or a sample (L1, L2), of a counter that grew (L3) and
\* of an audit record (L4).
Sample(a)         == [NoEvent EXCEPT !.ip = a]
DropReport(a, n)  == [NoEvent EXCEPT !.ip = a, !.count = n]
AuditRecord(a, n) == [NoEvent EXCEPT !.ip = a, !.id = n]

Init ==
    /\ \E host \in Hosts :
          /\ NewProfiler(host.size)
          /\ reader = [l \in Layer |-> IF l \in host.feeds THEN "reading" ELSE "off"]
    /\ ctx = "running"
    /\ chan = [l \in Layer |-> <<>>]
    /\ pc = "select" /\ cur = NoEvent
    /\ listening \in BOOLEAN /\ conn = IF listening THEN "open" ELSE "none"
    /\ socket = <<>>
    /\ inMap = Zero /\ prev = Zero /\ drops = Zero /\ dropped = Zero /\ poll = "idle"
    /\ seen = 0 /\ latest = 0 /\ restarts = 0 /\ missed = 0

-----------------------------------------------------------------------------
(* The feeds.  A channel that is full drops the event.                     *)

\* Slip: a full channel grows.
OfferAlways(l, e) == chan' = [chan EXCEPT ![l] = Append(@, e)]

Offer(l, e) ==
    chan' = IF Len(chan[l]) < Capacity[l] THEN [chan EXCEPT ![l] = Append(@, e)] ELSE chan

\* The reader goes back to its read: on a closed descriptor that fails at once.
ReadAgain(l) == reader' = IF reader[l] = "deaf" THEN [reader EXCEPT ![l] = "exited"] ELSE reader

\* A packet is logged (L1) or classified (L2); a lost perf sample has no source.
Observe(l, a) ==
    /\ reader[l] \in {"reading", "deaf"}
    /\ l \in {1, 2} /\ a \in Talkers[l]
    /\ Offer(l, Sample(a))
    /\ ReadAgain(l)
    /\ UNCHANGED <<profilerVars, ctx, pc, cur, seen, pollVars, alertVars>>

\* An audit record, with a source or with none that extractAuditIP finds.
Violation(a) ==
    /\ reader[4] \in {"reading", "deaf"} /\ a \in Talkers[4]
    /\ seen < MaxViolations
    /\ seen' = seen + 1
    /\ Offer(4, AuditRecord(a, seen'))
    /\ ReadAgain(4)
    /\ UNCHANGED <<profilerVars, ctx, pc, cur, pollVars, alertVars>>

\* Once the context is cancelled the descriptor is closed behind the reader's back,
\* which wakes a perf reader but nobody in Recvfrom; between two reads it is noticed.
Cancel(l) ==
    /\ ctx = "stopping" /\ reader[l] = "reading"
    /\ l = 3 => poll = "idle"
    /\ \/ reader' = [reader EXCEPT ![l] = "exited"]
       \/ l \in {1, 4} /\ reader' = [reader EXCEPT ![l] = "deaf"]
    /\ UNCHANGED <<profilerVars, ctx, chan, pc, cur, seen, pollVars, alertVars>>

-----------------------------------------------------------------------------
(* L3: the XDP program counts, the poller looks every 500 ms.              *)

Drop(a) ==
    /\ reader[3] = "reading"          \* unobserved otherwise
    /\ dropped[a] < MaxDrops
    /\ dropped' = [dropped EXCEPT ![a] = @ + 1]
    /\ inMap' = [inMap EXCEPT ![a] = @ + 1]
    /\ UNCHANGED <<profilerVars, ctx, reader, chan, pc, cur, seen, poll, prev, drops, alertVars>>

\* The kernel makes room in its map.
Forget(a) ==
    /\ reader[3] = "reading" /\ inMap[a] > 0
    /\ inMap' = [inMap EXCEPT ![a] = 0]
    /\ UNCHANGED <<profilerVars, ctx, reader, chan, pc, cur, seen, poll, prev, drops, dropped,
                   alertVars>>

BeginPoll ==
    /\ reader[3] = "reading" /\ poll = "idle"
    /\ poll' = "iterating"
    /\ UNCHANGED <<profilerVars, ctx, reader, chan, pc, cur, seen, inMap, prev, drops, dropped,
                   alertVars>>

\* Slip: the total is reported, not what was added to it.
VisitTotal(a) ==
    /\ poll = "iterating" /\ inMap[a] > 0
    /\ drops' = IF inMap[a] > prev[a] THEN [drops EXCEPT ![a] = inMap[a]] ELSE drops
    /\ prev' = [prev EXCEPT ![a] = inMap[a]]
    /\ UNCHANGED <<profilerVars, ctx, reader, chan, pc, cur, seen, inMap, poll, dropped, alertVars>>

\* pollL3Drops comes to a key: while the map changes, to some never and to some twice.
Visit(a) ==
    /\ poll = "iterating" /\ inMap[a] > 0
    /\ drops' = IF inMap[a] > prev[a] THEN [drops EXCEPT ![a] = inMap[a] - prev[a]] ELSE drops
    /\ prev' = [prev EXCEPT ![a] = inMap[a]]
    /\ UNCHANGED <<profilerVars, ctx, reader, chan, pc, cur, seen, inMap, poll, dropped, alertVars>>

\* The iteration ends, or is aborted: then nothing is returned, but prev has moved on.
EndPoll ==
    /\ poll = "iterating"
    /\ \/ poll' = "emitting" /\ UNCHANGED drops
       \/ poll' = "idle" /\ drops' = Zero
    /\ UNCHANGED <<profilerVars, ctx, reader, chan, pc, cur, seen, inMap, prev, dropped, alertVars>>

Emit ==
    /\ poll = "emitting"
    /\ \/ \E a \in Shunned :
             /\ drops[a] > 0
             /\ Offer(3, DropReport(a, drops[a]))
             /\ drops' = [drops EXCEPT ![a] = 0]
             /\ UNCHANGED poll
       \/ drops = Zero /\ poll' = "idle" /\ UNCHANGED <<chan, drops>>
    /\ UNCHANGED <<profilerVars, ctx, reader, pc, cur, seen, inMap, prev, dropped, alertVars>>

-----------------------------------------------------------------------------
(* eventCorrelator *)

\* One ready channel of the select.  Only L4 events need no source.
Take(l) ==
    /\ pc = "select" /\ chan[l] # <<>>
    /\ chan' = [chan EXCEPT ![l] = Tail(@)]
    /\ IF l # 4 /\ Head(chan[l]).ip = NoIP
       THEN UNCHANGED <<pc, cur>>
       ELSE pc' = "profile" /\ cur' = Head(chan[l])
    /\ UNCHANGED <<profilerVars, ctx, reader, seen, pollVars, alertVars>>

IsViolation(e) == e.id # 0

\* None of the details that score at L1 and L2 is in the events sources.go makes.
Points(e) == IF IsViolation(e) THEN 50 ELSE 0

ProfileEvent ==
    /\ pc = "profile"
    /\ Admit(cur.ip, Points(cur), cur.count)
    /\ IF IsViolation(cur) THEN pc' = "alert" /\ UNCHANGED cur
                           ELSE pc' = "select" /\ cur' = NoEvent
    /\ UNCHANGED <<ctx, reader, chan, seen, pollVars, alertVars>>

Alerted == pc' = "select" /\ cur' = NoEvent

\* Slip: the dead connection is kept.
WriteKeepsConn ==
    \/ /\ IF conn = "none" THEN listening ELSE conn = "open"
       /\ Len(socket) < SocketRoom
       /\ conn' = "open" /\ socket' = Append(socket, cur.id)
       /\ UNCHANGED missed
    \/ conn = "none" /\ ~listening /\ UNCHANGED <<conn, socket, missed>>
    \/ /\ conn = "dead"
       /\ UNCHANGED <<conn, socket>>
       /\ missed' = IF listening THEN missed + 1 ELSE missed

\* Slip: the dial is retried until there is a daemon.
WriteWaits ==
    \/ /\ IF conn = "none" THEN listening ELSE conn = "open"
       /\ Len(socket) < SocketRoom
       /\ conn' = "open" /\ socket' = Append(socket, cur.id)
       /\ UNCHANGED missed
    \/ /\ conn = "dead"
       /\ conn' = "none" /\ UNCHANGED socket
       /\ missed' = IF listening THEN missed + 1 ELSE missed

\* sendAlert: a missing connection is dialled again, a failing one dropped; either way
\* there is one attempt.
Write ==
    \/ /\ IF conn = "none" THEN listening ELSE conn = "open"
       /\ Len(socket) < SocketRoom                       \* else the Write blocks
       /\ conn' = "open" /\ socket' = Append(socket, cur.id)
       /\ UNCHANGED missed
    \/ conn = "none" /\ ~listening /\ UNCHANGED <<conn, socket, missed>>
    \/ /\ conn = "dead"
       /\ conn' = "none" /\ UNCHANGED socket
       /\ missed' = IF listening THEN missed + 1 ELSE missed

SendAlert ==
    /\ pc = "alert"
    /\ Write /\ Alerted
    /\ UNCHANGED <<profilerVars, ctx, reader, chan, seen, pollVars, listening, latest, restarts>>

CorrelatorExits ==
    /\ pc = "select" /\ ctx = "stopping"
    /\ pc' = "exited"
    /\ UNCHANGED <<profilerVars, ctx, reader, chan, cur, seen, pollVars, alertVars>>

-----------------------------------------------------------------------------
(* The daemon (ThreatResponse), time, and SIGTERM.                         *)

DaemonReads ==
    /\ socket # <<>>
    /\ latest' = Head(socket)
    /\ socket' = Tail(socket)
    /\ UNCHANGED <<profilerVars, ctx, reader, chan, pc, cur, seen, pollVars,
                   conn, listening, restarts, missed>>

DaemonGoes ==
    /\ reader[4] # "off"              \* nobody writes otherwise
    /\ listening /\ restarts < MaxRestarts
    /\ listening' = FALSE /\ restarts' = restarts + 1
    /\ conn' = IF conn = "open" THEN "dead" ELSE conn
    /\ socket' = <<>>
    /\ UNCHANGED <<profilerVars, ctx, reader, chan, pc, cur, seen, pollVars, latest, missed>>

DaemonComes ==
    /\ ~listening
    /\ listening' = TRUE
    /\ UNCHANGED <<profilerVars, ctx, reader, chan, pc, cur, seen, pollVars,
                   conn, socket, latest, restarts, missed>>

Day ==
    /\ Age
    /\ UNCHANGED <<ctx, reader, chan, pc, cur, seen, pollVars, alertVars>>

Sigterm ==
    /\ ctx = "running"
    /\ ctx' = "stopping"
    /\ UNCHANGED <<profilerVars, reader, chan, pc, cur, seen, pollVars, alertVars>>

\* wg.Wait returns, and the connection is closed: what was written can still be read.
StopReturns ==
    /\ ctx = "stopping" /\ pc = "exited"
    /\ \A l \in Layer : reader[l] \in {"off", "exited"}
    /\ ctx' = "stopped" /\ conn' = "none"
    /\ UNCHANGED <<profilerVars, reader, chan, pc, cur, seen, pollVars,
                   socket, listening, latest, restarts, missed>>

Next ==
    \/ \E a \in Address : Violation(a) \/ \E l \in Layer : Observe(l, a)
    \/ \E a \in Shunned : Drop(a) \/ Forget(a) \/ Visit(a)
    \/ \E l \in Layer : Cancel(l) \/ Take(l)
    \/ BeginPoll \/ EndPoll \/ Emit
    \/ ProfileEvent \/ SendAlert \/ CorrelatorExits
    \/ DaemonReads \/ DaemonGoes \/ DaemonComes
    \/ Day \/ Sigterm \/ StopReturns

\* Go runs what can run, and select chooses at random among what is ready, so that
\* nothing that is ready again and again is passed over for ever.  Time passes, and the
\* daemon reads its connections.  Nobody owes AGENT-BETA an event.
Scheduler ==
    /\ SF_vars(\E l \in Layer : Cancel(l)) /\ WF_vars(EndPoll \/ Emit)
    /\ SF_vars(Take(4)) /\ SF_vars(CorrelatorExits)
    /\ WF_vars(ProfileEvent \/ SendAlert) /\ WF_vars(StopReturns)
    /\ WF_vars(DaemonReads) /\ WF_vars(Day)

Spec == Init /\ [][Next]_vars /\ Scheduler

-----------------------------------------------------------------------------
TypeOK ==
    /\ ProfilerTypeOK
    /\ ctx \in {"running", "stopping", "stopped"}
    /\ reader \in [Layer -> {"off", "reading", "deaf", "exited"}]
    /\ chan \in [Layer -> Seq(Event)] /\ \A l \in Layer : Len(chan[l]) <= Capacity[l]
    /\ pc \in {"select", "profile", "alert", "exited"} /\ cur \in Event
    /\ conn \in {"none", "open", "dead"} /\ listening \in BOOLEAN
    /\ socket \in Seq(Nat)
    /\ poll \in {"idle", "iterating", "emitting"}
    /\ \A f \in {inMap, prev, drops, dropped} : f \in [Shunned -> Nat]
    /\ seen \in Nat /\ latest \in 0..seen /\ restarts \in Nat /\ missed \in Nat

(* An alert lost to a dead connection is the price of a daemon that went   *)
(* away, and it is paid once: the next one finds a new connection          *)
(* (sendAlert: "Drop the dead connection so the next alert reconnects").   *)
OneLossPerRestart == missed <= restarts

(* A packet dropped by XDP is counted against its source at most once,     *)
(* whatever the kernel's map forgets, however the iteration over it goes   *)
(* and whatever is lost on the way (pollL3Drops: "delta-based").           *)
DropsNeverOvercounted == \A a \in Known \cap Shunned : profiles[a].drops <= dropped[a]

(* "Unblock the pending Recvfrom when the agent stops" (l1NflogReader,     *)
(* l4AuditReader), so that Stop returns and the program exits.  Closing a  *)
(* descriptor wakes nobody who is asleep in Recvfrom on it: on a quiet     *)
(* feed the reader never leaves, and Stop waits for it for ever.           *)
StopCompletes == (ctx = "stopping") ~> (ctx = "stopped")

\* All that is left of a stop are readers asleep on a closed descriptor.
HeldByQuietFeeds ==
    /\ pc = "exited" /\ \A l \in Layer : reader[l] \in {"off", "exited", "deaf"}
    /\ \E l \in Layer : reader[l] = "deaf"

(* Nothing else can hold a stop up: it comes to its end, or is held for    *)
(* ever by such a reader, whatever the queues hold, however full the       *)
(* profiler is and wherever the daemon has gone.  So it does come to its   *)
(* end once those feeds have one more packet or record to deliver (Stop,   *)
(* eventCorrelator, sendAlert).                                            *)
OnlyQuietFeedsHoldAStop ==
    (ctx = "stopping") ~> (ctx = "stopped" \/ HeldByQuietFeeds)

\* The violations on their way: queued, in hand, in the socket.  What is queued when the
\* correlator leaves is lost.
Ids(seq) == {seq[i].id : i \in DOMAIN seq}
OnTheWay == (IF pc = "exited" THEN {} ELSE Ids(chan[4]))
                \cup ({cur.id} \ {0}) \cup {socket[i] : i \in DOMAIN socket}

Feed == INSTANCE AlertFeed WITH unsettled <- OnTheWay

(* L4 violations reach the daemon in the order they were seen, each once   *)
(* at most, and none stays undecided: neither a flood on the other feeds,  *)
(* nor a cache full of profiles to be kept, nor a daemon that comes and    *)
(* goes can hold one up for ever (eventCorrelator, GetOrCreate, sendAlert).*)
ImplementsAlertFeed == Feed!Spec
================================================================================
