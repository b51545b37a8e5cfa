---------------------------- MODULE KeyVaultProofs ----------------------------
(***************************************************************************)
(* What keeps a key and its volume together, for any departments,          *)
(* processes and keys.                                                     *)
(***************************************************************************)
EXTENDS KeyVault, TLAPS

Initialising == {"format", "reuse", "open", "mount", "create"}

\* A process that is gone has left nothing in memory.
DeadForget ==
    \A p \in Process \ alive : store[p] = NoKeys /\ db[p] = NoDbs /\ call[p] = Idle

\* A key is held by one process, for one department ...
OneHolder ==
    /\ \A p \in Process, d \in Dept : store[p][d] \in used \cup {NoKey}
    /\ \A p, q \in Process : \A d, e \in Dept :
          store[p][d] = store[q][e] /\ store[p][d] # NoKey => p = q /\ d = e

\* ... and opens the volume of no other.
OneVolume ==
    \A p \in Process : \A d, e \in Dept :
        store[p][d] # NoKey /\ store[p][d] \in {header[e], mapped[e]} => d = e

\* What a call under kv.mu has found or done so far.
CallsKnow ==
    \A p \in Process :
        /\ call[p].at \in Initialising =>
              /\ call[p].dept \in Dept
              /\ db[p][call[p].dept] = "none" /\ store[p][call[p].dept] # NoKey
        /\ call[p].at = "close" =>
              /\ call[p].dept \in Dept /\ db[p][call[p].dept] # "none"
              /\ call[p].dept \notin stray => db[p][call[p].dept] = "running"
        /\ call[p].at \in {"mount", "create"} /\ call[p].dept \notin stray =>
              mapped[call[p].dept] = store[p][call[p].dept]

(* The inductive invariant.  The three properties are not inductive alone: *)
(* which key a call of p works with, and that nobody else has it, is known *)
(* only from what was true when the call began.                            *)
IInv ==
    /\ TypeOK /\ DeadForget /\ OneHolder /\ OneVolume /\ CallsKnow
    /\ RunningDatabaseHasItsKey /\ KeyFilesAreTransient /\ ShutdownIsFinal

\* How a call goes on, and how it ends.
Call == [dept : Dept \cup {NoDept},
         at : {"idle", "format", "reuse", "open", "mount", "create", "close"}]

\* The call of p is at one of labels, and of d unless it is over.
After(p, labels, d) ==
    /\ call' \in [Process -> Call]
    /\ call'[p].at \in labels
    /\ call'[p].at # "idle" => call'[p].dept = d
    /\ \A q \in Process \ {p} : call'[q] = call[q]

Working(p) == call[p].dept \in Dept /\ store[p][call[p].dept] \in used \cup {NoKey}

(* What the steps of a call do to call itself.                              *)
LEMMA CallGoesOn ==
    ASSUME call \in [Process -> Call], NEW p \in Process, NEW label,
           label \in {"reuse", "mount", "create"}, Goto(p, label)
    PROVE  After(p, {label}, call[p].dept)
BY DEF After, Call, Goto

LEMMA CallEnds ==
    ASSUME call \in [Process -> Call], NEW p \in Process, Return(p)
    PROVE  After(p, {"idle"}, NoDept)
BY DEF After, Call, Return, Idle

LEMMA CallStarts ==
    ASSUME call \in [Process -> Call], NEW p \in Process, NEW d \in Dept, NEW label,
           label \in {"format", "open", "close"},
           call' = [call EXCEPT ![p] = [dept |-> d, at |-> label]]
    PROVE  After(p, {label}, d)
BY DEF After, Call

(* Each command of a call: it works on a department, and moves the call on *)
(* or ends it.                                                             *)
LEMMA FormatCall ==
    ASSUME IInv, NEW p \in Process, Format(p)
    PROVE  /\ Working(p)
           /\ After(p, {"reuse", "idle"}, call[p].dept)
<1>1. call \in [Process -> Call]
  BY DEF IInv, TypeOK, Typed, Call
<1>2. Working(p)
  BY DEF Working, IInv, Format, At, CallsKnow, Initialising, OneHolder
<1> QED BY <1>1, <1>2, CallGoesOn, CallEnds DEF Format, After, Working

LEMMA ReuseCall ==
    ASSUME IInv, NEW p \in Process, Reuse(p)
    PROVE  /\ Working(p)
           /\ After(p, {"open", "idle"}, call[p].dept)
<1>1. call \in [Process -> Call]
  BY DEF IInv, TypeOK, Typed, Call
<1>2. Working(p)
  BY DEF Working, IInv, Reuse, At, CallsKnow, Initialising, OneHolder
<1> QED BY <1>1, <1>2, CallStarts, CallEnds DEF Reuse, After, Working, BeginUse

LEMMA OpenCall ==
    ASSUME IInv, NEW p \in Process, Open(p)
    PROVE  /\ Working(p)
           /\ After(p, {"mount", "idle"}, call[p].dept)
           /\ call'[p].at = "mount" => Opens(p)
<1>1. call \in [Process -> Call]
  BY DEF IInv, TypeOK, Typed, Call
<1>2. Working(p)
  BY DEF Working, IInv, Open, At, CallsKnow, Initialising, OneHolder
<1> QED BY <1>1, <1>2, CallGoesOn, CallEnds DEF Open, After, Working, Return, Idle

LEMMA MountCall ==
    ASSUME IInv, NEW p \in Process, Mount(p)
    PROVE  /\ Working(p)
           /\ After(p, {"create", "idle"}, call[p].dept)
<1>1. call \in [Process -> Call]
  BY DEF IInv, TypeOK, Typed, Call
<1>2. Working(p)
  BY DEF Working, IInv, Mount, At, CallsKnow, Initialising, OneHolder
<1> QED BY <1>1, <1>2, CallGoesOn, CallEnds DEF Mount, After, Working

LEMMA CreateDBCall ==
    ASSUME IInv, NEW p \in Process, CreateDB(p)
    PROVE  /\ Working(p)
           /\ After(p, {"idle"}, call[p].dept)
<1>1. call \in [Process -> Call]
  BY DEF IInv, TypeOK, Typed, Call
<1>2. Working(p)
  BY DEF Working, IInv, CreateDB, At, CallsKnow, Initialising, OneHolder
<1> QED BY <1>1, <1>2, CallEnds DEF CreateDB, After, Working

LEMMA CloseCall ==
    ASSUME IInv, NEW p \in Process, Close(p)
    PROVE  /\ Working(p)
           /\ After(p, {"idle"}, call[p].dept)
<1>1. call \in [Process -> Call]
  BY DEF IInv, TypeOK, Typed, Call
<1>2. Working(p)
  BY DEF Working, IInv, Close, At, CallsKnow, Initialising, OneHolder
<1> QED BY <1>1, <1>2, CallEnds DEF Close, After, Working

LEMMA InitDBCall ==
    ASSUME IInv, NEW p \in Process, NEW d \in Dept, InitDB(p, d)
    PROVE  After(p, {"format", "idle"}, d)
<1>1. call \in [Process -> Call]
  BY DEF IInv, TypeOK, Typed, Call
<1> QED BY <1>1, CallStarts, CallEnds DEF InitDB, After, BeginUse

LEMMA ShutdownCall ==
    ASSUME IInv, NEW p \in Process, NEW d \in Dept, Shutdown(p, d)
    PROVE  After(p, {"close"}, d)
<1>1. call \in [Process -> Call]
  BY DEF IInv, TypeOK, Typed, Call
<1> QED BY <1>1, CallStarts DEF Shutdown, After

(* A wipe touches one key of one process.                                  *)
LEMMA SealShape ==
    ASSUME IInv, NEW p \in Process, Working(p), Seal(p)
    PROVE  /\ store' \in [Process -> [Dept -> MaybeKey]]
           /\ db' \in [Process -> [Dept -> {"none", "running", "stopped"}]]
           /\ \A q \in Process, e \in Dept :
                 IF q = p /\ e = call[p].dept THEN store'[q][e] = NoKey /\ db'[q][e] = "stopped"
                 ELSE store'[q][e] = store[q][e] /\ db'[q][e] = db[q][e]
           /\ sealed' = sealed \cup ({store[p][call[p].dept]} \ {NoKey})
<1>1. /\ store \in [Process -> [Dept -> MaybeKey]]
      /\ db \in [Process -> [Dept -> {"none", "running", "stopped"}]]
      /\ NoKey \in MaybeKey /\ call[p].dept \in Dept
  BY DEF IInv, TypeOK, Typed, MaybeKey, Working
<1> QED BY <1>1 DEF Seal

-----------------------------------------------------------------------------
(* Every conjunct of IInv is preserved by every action.                    *)
LEMMA TypedStep == IInv /\ [Next]_vars => Typed'
<1> SUFFICES ASSUME IInv, [Next]_vars PROVE Typed'
  OBVIOUS
<1> USE KeyVaultAssumption DEF Idle, NoKeys, NoDbs
<1>1. ASSUME NEW p \in Process, Start(p) PROVE Typed'
  BY <1>1, SMTT(30) DEF IInv, TypeOK, Typed, MaybeKey, DeadForget, CallsKnow, Initialising,
        OneHolder, Start, memory, host, ghosts
<1>2. ASSUME NEW p \in Process, Kill(p) PROVE Typed'
  <2>1. call[p].at \in Initialising \cup {"close"} =>
          call[p].dept \in Dept /\ store[p][call[p].dept] \in used \cup {NoKey}
    BY DEF IInv, CallsKnow, OneHolder
  <2>2. /\ header' \in [Dept -> used \cup {NoKey}] /\ mapped' \in [Dept -> used \cup {NoKey}]
        /\ mounted' \in [Dept -> BOOLEAN]
    <3> USE <2>1 DEF IInv, TypeOK, Typed, Initialising, At, host
    <3>1. CASE UNCHANGED host
      BY <3>1
    <3>2. CASE At(p, "format") /\ Formats(p)
      BY <3>2 DEF Formats
    <3>3. CASE At(p, "open") /\ Opens(p)
      BY <3>3 DEF Opens
    <3>4. CASE At(p, "mount") /\ Mounts(p)
      BY <3>4 DEF Mounts
    <3>5. CASE At(p, "close") /\ Closes(p)
      BY <3>5 DEF Closes
    <3> QED BY <1>2, <3>1, <3>2, <3>3, <3>4, <3>5 DEF Kill, Orphan
  <2>3. /\ alive' \subseteq Process /\ store' \in [Process -> [Dept -> MaybeKey]]
        /\ db' \in [Process -> [Dept -> {"none", "running", "stopped"}]]
        /\ call' \in [Process -> Call] /\ backup' \in [Process -> Dept \cup {NoDept}]
    BY <1>2 DEF Kill, Forget, IInv, TypeOK, Typed, MaybeKey, Call
  <2> QED BY <1>2, <2>2, <2>3 DEF Kill, IInv, TypeOK, Typed, Call, ghosts
<1>3. ASSUME NEW p \in Process, Format(p) PROVE Typed'
  <2>1. Working(p) /\ After(p, {"reuse", "idle"}, call[p].dept)
    BY <1>3, FormatCall
  <2>2. header' \in [Dept -> used \cup {NoKey}]
    BY <1>3, <2>1 DEF IInv, TypeOK, Typed, MaybeKey, DeadForget, CallsKnow, Initialising,
          OneHolder, Working, Format, Formats, host
  <2> QED BY <1>3, <2>1, <2>2, SMTT(30) DEF Format, IInv, TypeOK, Typed, Call, After, Working,
        At, host, ghosts, EndUse, Formats
<1>4. ASSUME NEW p \in Process, Reuse(p) PROVE Typed'
  <2>1. Working(p) /\ After(p, {"open", "idle"}, call[p].dept)
    BY <1>4, ReuseCall
  <2>2. store[p][call[p].dept] \in used
    BY <1>4, <2>1 DEF Working, Reuse, At, IInv, CallsKnow, Initialising
  <2>3. shm' \subseteq used
    BY <1>4, <2>2 DEF Reuse, BeginUse, IInv, TypeOK, Typed
  <2> QED BY <1>4, <2>1, <2>3 DEF Reuse, IInv, TypeOK, Typed, Call, After, host, ghosts
<1>5. ASSUME NEW p \in Process, Open(p) PROVE Typed'
  <2>1. /\ Working(p) /\ After(p, {"mount", "idle"}, call[p].dept)
        /\ call'[p].at = "mount" => Opens(p)
    BY <1>5, OpenCall
  <2>2. mapped' \in [Dept -> used \cup {NoKey}]
    BY <1>5, <2>1 DEF IInv, TypeOK, Typed, MaybeKey, DeadForget, CallsKnow, Initialising,
          OneHolder, Working, Open, Opens, host
  <2> QED BY <1>5, <2>1, <2>2, SMTT(30) DEF Open, IInv, TypeOK, Typed, Call, After, Working,
        At, host, ghosts, EndUse, Opens
<1>6. ASSUME NEW p \in Process, Mount(p) PROVE Typed'
  <2>1. Working(p) /\ After(p, {"create", "idle"}, call[p].dept)
    BY <1>6, MountCall
  <2>2. mounted' \in [Dept -> BOOLEAN]
    BY <1>6, <2>1 DEF IInv, TypeOK, Typed, MaybeKey, DeadForget, CallsKnow, Initialising,
          OneHolder, Working, Mount, Mounts, host
  <2> QED BY <1>6, <2>1, <2>2, SMTT(30) DEF Mount, IInv, TypeOK, Typed, Call, After, Working,
        At, host, ghosts, Mounts
<1>7. ASSUME NEW p \in Process, CreateDB(p) PROVE Typed'
  <2>1. Working(p) /\ After(p, {"idle"}, call[p].dept)
    BY <1>7, CreateDBCall
  <2>2. db' \in [Process -> [Dept -> {"none", "running", "stopped"}]]
    <3>1. db \in [Process -> [Dept -> {"none", "running", "stopped"}]] /\ call[p].dept \in Dept
      BY <2>1 DEF IInv, TypeOK, Typed, Working
    <3> QED BY <1>7, <3>1 DEF CreateDB
  <2> QED BY <1>7, <2>1, <2>2 DEF CreateDB, IInv, TypeOK, Typed, Call, After, host, ghosts
<1>8. ASSUME NEW p \in Process, Close(p) PROVE Typed'
  <2>1. Working(p) /\ After(p, {"idle"}, call[p].dept)
    BY <1>8, CloseCall
  <2>2. mapped' \in [Dept -> used \cup {NoKey}] /\ header' = header /\ mounted' = mounted
    BY <1>8 DEF Close, Closes, host, IInv, TypeOK, Typed
  <2>3. /\ store' \in [Process -> [Dept -> MaybeKey]] /\ sealed' \subseteq used
        /\ db' \in [Process -> [Dept -> {"none", "running", "stopped"}]]
    <3>1. CASE Seal(p)
      BY <3>1, <2>1, SealShape DEF Working, IInv, TypeOK, Typed
    <3>2. CASE UNCHANGED <<store, db, sealed>>
      BY <3>2 DEF IInv, TypeOK, Typed
    <3> QED BY <1>8, <3>1, <3>2 DEF Close
  <2> QED BY <1>8, <2>1, <2>2, <2>3 DEF Close, IInv, TypeOK, Typed, Call, After
<1>9. ASSUME NEW p \in Process, Tar(p) PROVE Typed'
  BY <1>9, SMTT(30) DEF IInv, TypeOK, Typed, MaybeKey, DeadForget, CallsKnow, Initialising,
        OneHolder, Tar, host, ghosts
<1>10. ASSUME NEW p \in Process, NEW d \in Dept, InitDB(p, d) PROVE Typed'
  <2>1. After(p, {"format", "idle"}, d)
    BY <1>10, InitDBCall
  <2>2. /\ store' \in [Process -> [Dept -> MaybeKey]] /\ shm' \subseteq used'
        /\ used \subseteq used' /\ used' \subseteq Key
    BY <1>10, <2>1 DEF IInv, TypeOK, Typed, MaybeKey, DeadForget, CallsKnow, Initialising,
          OneHolder, Working, InitDB, BeginUse
  <2> QED BY <1>10, <2>1, <2>2, SMTT(30) DEF InitDB, IInv, TypeOK, Typed, Call, After,
        Working, host, BeginUse
<1>11. ASSUME NEW p \in Process, NEW d \in Dept, Shutdown(p, d) PROVE Typed'
  <2>1. After(p, {"close"}, d)
    BY <1>11, ShutdownCall
  <2>2. mounted' \in [Dept -> BOOLEAN] /\ stray \subseteq stray' /\ stray' \subseteq Dept
    BY <1>11, <2>1 DEF IInv, TypeOK, Typed, MaybeKey, DeadForget, CallsKnow, Initialising,
          OneHolder, Working, Shutdown
  <2> QED BY <1>11, <2>1, <2>2, SMTT(30) DEF Shutdown, IInv, TypeOK, Typed, Call, After,
        Working, At, Busy
<1>12. ASSUME NEW p \in Process, NEW d \in Dept, Backup(p, d) PROVE Typed'
  BY <1>12, SMTT(30) DEF IInv, TypeOK, Typed, MaybeKey, DeadForget, CallsKnow, Initialising,
        OneHolder, Backup, At, host, ghosts
<1>13. ASSUME Reboot PROVE Typed'
  BY <1>13, SMTT(30) DEF IInv, TypeOK, Typed, MaybeKey, DeadForget, CallsKnow, Initialising,
        OneHolder, Reboot, Forget
<1>14. ASSUME UNCHANGED vars PROVE Typed'
  BY <1>14 DEF IInv, TypeOK, Typed, MaybeKey, DeadForget, CallsKnow, Initialising, OneHolder,
        vars, memory, host, ghosts
<1> QED BY <1>1, <1>2, <1>3, <1>4, <1>5, <1>6, <1>7, <1>8, <1>9, <1>10, <1>11, <1>12, <1>13,
      <1>14 DEF Next

LEMMA DeadForgetStep == IInv /\ [Next]_vars => DeadForget'
<1> SUFFICES ASSUME IInv, [Next]_vars PROVE DeadForget'
  OBVIOUS
<1> USE KeyVaultAssumption DEF Idle, NoKeys, NoDbs
<1>1. ASSUME NEW p \in Process, Start(p) PROVE DeadForget'
  BY <1>1, SMTT(30) DEF IInv, TypeOK, Typed, MaybeKey, DeadForget, Start, memory, host, ghosts
<1>2. ASSUME NEW p \in Process, Kill(p) PROVE DeadForget'
  BY <1>2, SMTT(30) DEF IInv, TypeOK, Typed, MaybeKey, DeadForget, Kill, At, host, ghosts,
        Forget, Orphan, Formats, Opens, Mounts, Closes
<1>3. ASSUME NEW p \in Process, Format(p) PROVE DeadForget'
  BY <1>3, SMTT(30) DEF IInv, TypeOK, Typed, MaybeKey, DeadForget, Format, At, Goto, Return,
        host, ghosts, EndUse, Formats
<1>4. ASSUME NEW p \in Process, Reuse(p) PROVE DeadForget'
  BY <1>4, SMTT(30) DEF IInv, TypeOK, Typed, MaybeKey, DeadForget, Reuse, At, Return, host,
        ghosts, BeginUse
<1>5. ASSUME NEW p \in Process, Open(p) PROVE DeadForget'
  BY <1>5, SMTT(30) DEF IInv, TypeOK, Typed, MaybeKey, DeadForget, Open, At, Goto, Return,
        host, ghosts, EndUse, Opens
<1>6. ASSUME NEW p \in Process, Mount(p) PROVE DeadForget'
  BY <1>6, SMTT(30) DEF IInv, TypeOK, Typed, MaybeKey, DeadForget, Mount, At, Goto, Return,
        host, ghosts, Mounts
<1>7. ASSUME NEW p \in Process, CreateDB(p) PROVE DeadForget'
  BY <1>7, SMTT(30) DEF IInv, TypeOK, Typed, MaybeKey, DeadForget, CreateDB, At, Return, host,
        ghosts
<1>8. ASSUME NEW p \in Process, Close(p) PROVE DeadForget'
  BY <1>8, SMTT(30) DEF IInv, TypeOK, Typed, MaybeKey, DeadForget, Close, At, Return, host,
        Closes, Seal
<1>9. ASSUME NEW p \in Process, Tar(p) PROVE DeadForget'
  BY <1>9, SMTT(30) DEF IInv, TypeOK, Typed, MaybeKey, DeadForget, Tar, host, ghosts
<1>10. ASSUME NEW p \in Process, NEW d \in Dept, InitDB(p, d) PROVE DeadForget'
  BY <1>10, SMTT(30) DEF IInv, TypeOK, Typed, MaybeKey, DeadForget, InitDB, At, Return, host,
        BeginUse
<1>11. ASSUME NEW p \in Process, NEW d \in Dept, Shutdown(p, d) PROVE DeadForget'
  BY <1>11, SMTT(30) DEF IInv, TypeOK, Typed, MaybeKey, DeadForget, Shutdown, At, Busy
<1>12. ASSUME NEW p \in Process, NEW d \in Dept, Backup(p, d) PROVE DeadForget'
  BY <1>12, SMTT(30) DEF IInv, TypeOK, Typed, MaybeKey, DeadForget, Backup, At, host, ghosts
<1>13. ASSUME Reboot PROVE DeadForget'
  BY <1>13, SMTT(30) DEF IInv, TypeOK, Typed, MaybeKey, DeadForget, Reboot, Forget
<1>14. ASSUME UNCHANGED vars PROVE DeadForget'
  BY <1>14 DEF IInv, TypeOK, Typed, MaybeKey, DeadForget, vars, memory, host, ghosts
<1> QED BY <1>1, <1>2, <1>3, <1>4, <1>5, <1>6, <1>7, <1>8, <1>9, <1>10, <1>11, <1>12, <1>13,
      <1>14 DEF Next

LEMMA OneHolderStep == IInv /\ [Next]_vars => OneHolder'
<1> SUFFICES ASSUME IInv, [Next]_vars PROVE OneHolder'
  OBVIOUS
<1> USE KeyVaultAssumption DEF Idle, NoKeys, NoDbs
<1>1. ASSUME NEW p \in Process, Start(p) PROVE OneHolder'
  BY <1>1, SMTT(30) DEF IInv, TypeOK, Typed, MaybeKey, OneHolder, Start, memory, host, ghosts
<1>2. ASSUME NEW p \in Process, Kill(p) PROVE OneHolder'
  BY <1>2, SMTT(30) DEF IInv, TypeOK, Typed, MaybeKey, OneHolder, Kill, At, host, ghosts,
        Forget, Orphan, Formats, Opens, Mounts, Closes
<1>3. ASSUME NEW p \in Process, Format(p) PROVE OneHolder'
  BY <1>3, SMTT(30) DEF IInv, TypeOK, Typed, MaybeKey, OneHolder, Format, At, Goto, Return,
        host, ghosts, EndUse, Formats
<1>4. ASSUME NEW p \in Process, Reuse(p) PROVE OneHolder'
  BY <1>4, SMTT(30) DEF IInv, TypeOK, Typed, MaybeKey, OneHolder, Reuse, At, Return, host,
        ghosts, BeginUse
<1>5. ASSUME NEW p \in Process, Open(p) PROVE OneHolder'
  BY <1>5, SMTT(30) DEF IInv, TypeOK, Typed, MaybeKey, OneHolder, Open, At, Goto, Return,
        host, ghosts, EndUse, Opens
<1>6. ASSUME NEW p \in Process, Mount(p) PROVE OneHolder'
  BY <1>6, SMTT(30) DEF IInv, TypeOK, Typed, MaybeKey, OneHolder, Mount, At, Goto, Return,
        host, ghosts, Mounts
<1>7. ASSUME NEW p \in Process, CreateDB(p) PROVE OneHolder'
  BY <1>7, SMTT(30) DEF IInv, TypeOK, Typed, MaybeKey, OneHolder, CreateDB, At, Return, host,
        ghosts
<1>8. ASSUME NEW p \in Process, Close(p) PROVE OneHolder'
  <2>1. Working(p)
    BY <1>8, CloseCall
  <2>2. CASE Seal(p)
    <3>1. /\ \A q \in Process, e \in Dept : store'[q][e] \in {NoKey, store[q][e]}
          /\ UNCHANGED used
      BY <1>8, <2>1, <2>2, SealShape DEF Close
    <3>2. ASSUME NEW q \in Process, NEW d \in Dept PROVE store'[q][d] \in used' \cup {NoKey}
      BY <3>1 DEF IInv, OneHolder
    <3>3. ASSUME NEW q \in Process, NEW r \in Process, NEW d \in Dept, NEW e \in Dept,
                 store'[q][d] = store'[r][e], store'[q][d] # NoKey
          PROVE  q = r /\ d = e
      BY <3>1, <3>3 DEF IInv, OneHolder
    <3> QED BY <3>2, <3>3 DEF OneHolder
  <2>3. CASE UNCHANGED <<store, db, sealed>>
    BY <1>8, <2>3 DEF Close, IInv, OneHolder
  <2> QED BY <1>8, <2>2, <2>3 DEF Close
<1>9. ASSUME NEW p \in Process, Tar(p) PROVE OneHolder'
  BY <1>9, SMTT(30) DEF IInv, TypeOK, Typed, MaybeKey, OneHolder, Tar, host, ghosts
<1>10. ASSUME NEW p \in Process, NEW d \in Dept, InitDB(p, d) PROVE OneHolder'
  BY <1>10, SMTT(30) DEF IInv, TypeOK, Typed, MaybeKey, OneHolder, InitDB, At, Return, host,
        BeginUse
<1>11. ASSUME NEW p \in Process, NEW d \in Dept, Shutdown(p, d) PROVE OneHolder'
  BY <1>11, SMTT(30) DEF IInv, TypeOK, Typed, MaybeKey, OneHolder, Shutdown, At, Busy
<1>12. ASSUME NEW p \in Process, NEW d \in Dept, Backup(p, d) PROVE OneHolder'
  BY <1>12, SMTT(30) DEF IInv, TypeOK, Typed, MaybeKey, OneHolder, Backup, At, host, ghosts
<1>13. ASSUME Reboot PROVE OneHolder'
  BY <1>13, SMTT(30) DEF IInv, TypeOK, Typed, MaybeKey, OneHolder, Reboot, Forget
<1>14. ASSUME UNCHANGED vars PROVE OneHolder'
  BY <1>14 DEF IInv, TypeOK, Typed, MaybeKey, OneHolder, vars, memory, host, ghosts
<1> QED BY <1>1, <1>2, <1>3, <1>4, <1>5, <1>6, <1>7, <1>8, <1>9, <1>10, <1>11, <1>12, <1>13,
      <1>14 DEF Next

LEMMA OneVolumeStep == IInv /\ [Next]_vars => OneVolume'
<1> SUFFICES ASSUME IInv, [Next]_vars PROVE OneVolume'
  OBVIOUS
<1> USE KeyVaultAssumption DEF Idle, NoKeys, NoDbs
<1>1. ASSUME NEW p \in Process, Start(p) PROVE OneVolume'
  BY <1>1, SMTT(30) DEF IInv, TypeOK, Typed, MaybeKey, OneHolder, OneVolume, Start, memory,
        host, ghosts
<1>2. ASSUME NEW p \in Process, Kill(p) PROVE OneVolume'
  BY <1>2, SMTT(30) DEF IInv, TypeOK, Typed, MaybeKey, OneHolder, OneVolume, Kill, At, host,
        ghosts, Forget, Orphan, Formats, Opens, Mounts, Closes
<1>3. ASSUME NEW p \in Process, Format(p) PROVE OneVolume'
  BY <1>3, SMTT(30) DEF IInv, TypeOK, Typed, MaybeKey, OneHolder, OneVolume, Format, At, Goto,
        Return, host, ghosts, EndUse, Formats
<1>4. ASSUME NEW p \in Process, Reuse(p) PROVE OneVolume'
  BY <1>4, SMTT(30) DEF IInv, TypeOK, Typed, MaybeKey, OneHolder, OneVolume, Reuse, At,
        Return, host, ghosts, BeginUse
<1>5. ASSUME NEW p \in Process, Open(p) PROVE OneVolume'
  BY <1>5, SMTT(30) DEF IInv, TypeOK, Typed, MaybeKey, OneHolder, OneVolume, Open, At, Goto,
        Return, host, ghosts, EndUse, Opens
<1>6. ASSUME NEW p \in Process, Mount(p) PROVE OneVolume'
  BY <1>6, SMTT(30) DEF IInv, TypeOK, Typed, MaybeKey, OneHolder, OneVolume, Mount, At, Goto,
        Return, host, ghosts, Mounts
<1>7. ASSUME NEW p \in Process, CreateDB(p) PROVE OneVolume'
  BY <1>7, SMTT(30) DEF IInv, TypeOK, Typed, MaybeKey, OneHolder, OneVolume, CreateDB, At,
        Return, host, ghosts
<1>8. ASSUME NEW p \in Process, Close(p) PROVE OneVolume'
  <2>1. Working(p)
    BY <1>8, CloseCall
  <2>2. CASE Closes(p) /\ Seal(p)
    <3>1. \A q \in Process, e \in Dept : store'[q][e] \in {NoKey, store[q][e]}
      BY <2>1, <2>2, SealShape
    <3>2. header' = header /\ \A e \in Dept : mapped'[e] \in {NoKey, mapped[e]}
      BY <2>2 DEF Closes, IInv, TypeOK, Typed
    <3> SUFFICES ASSUME NEW q \in Process, NEW d \in Dept, NEW e \in Dept,
                        store'[q][d] # NoKey, store'[q][d] \in {header'[e], mapped'[e]}
                 PROVE  d = e
      BY DEF OneVolume
    <3>3. store[q][d] # NoKey /\ store[q][d] \in {header[e], mapped[e]}
      BY <3>1, <3>2
    <3> QED BY <3>3 DEF IInv, OneVolume
  <2>3. CASE UNCHANGED <<host, store, db, sealed>>
    BY <2>3 DEF IInv, OneVolume, host
  <2> QED BY <1>8, <2>2, <2>3 DEF Close
<1>9. ASSUME NEW p \in Process, Tar(p) PROVE OneVolume'
  BY <1>9, SMTT(30) DEF IInv, TypeOK, Typed, MaybeKey, OneHolder, OneVolume, Tar, host, ghosts
<1>10. ASSUME NEW p \in Process, NEW d \in Dept, InitDB(p, d) PROVE OneVolume'
  BY <1>10, SMTT(30) DEF IInv, TypeOK, Typed, MaybeKey, OneHolder, OneVolume, InitDB, At,
        Return, host, BeginUse
<1>11. ASSUME NEW p \in Process, NEW d \in Dept, Shutdown(p, d) PROVE OneVolume'
  BY <1>11, SMTT(30) DEF IInv, TypeOK, Typed, MaybeKey, OneHolder, OneVolume, Shutdown, At, Busy
<1>12. ASSUME NEW p \in Process, NEW d \in Dept, Backup(p, d) PROVE OneVolume'
  BY <1>12, SMTT(30) DEF IInv, TypeOK, Typed, MaybeKey, OneHolder, OneVolume, Backup, At,
        host, ghosts
<1>13. ASSUME Reboot PROVE OneVolume'
  BY <1>13, SMTT(30) DEF IInv, TypeOK, Typed, MaybeKey, OneHolder, OneVolume, Reboot, Forget
<1>14. ASSUME UNCHANGED vars PROVE OneVolume'
  BY <1>14 DEF IInv, TypeOK, Typed, MaybeKey, OneHolder, OneVolume, vars, memory, host, ghosts
<1> QED BY <1>1, <1>2, <1>3, <1>4, <1>5, <1>6, <1>7, <1>8, <1>9, <1>10, <1>11, <1>12, <1>13,
      <1>14 DEF Next

LEMMA CallsKnowStep == IInv /\ [Next]_vars => CallsKnow'
<1> SUFFICES ASSUME IInv, [Next]_vars PROVE CallsKnow'
  OBVIOUS
<1> USE KeyVaultAssumption DEF Idle, NoKeys, NoDbs
<1>1. ASSUME NEW p \in Process, Start(p) PROVE CallsKnow'
  BY <1>1, SMTT(30) DEF IInv, TypeOK, Typed, MaybeKey, DeadForget, OneHolder, CallsKnow,
        Initialising, RunningDatabaseHasItsKey, Start, memory, host, ghosts
<1>2. ASSUME NEW p \in Process, Kill(p) PROVE CallsKnow'
  BY <1>2, SMTT(30) DEF IInv, TypeOK, Typed, MaybeKey, DeadForget, OneHolder, CallsKnow,
        Initialising, RunningDatabaseHasItsKey, Kill, At, host, ghosts, Forget, Orphan,
        Formats, Opens, Mounts, Closes
<1>3. ASSUME NEW p \in Process, Format(p) PROVE CallsKnow'
  <2>1. Working(p) /\ After(p, {"reuse", "idle"}, call[p].dept)
    BY <1>3, FormatCall
  <2>2. call[p].at = "format" /\ UNCHANGED <<store, db, mapped, stray>>
    BY <1>3 DEF Format, At, Formats, host, ghosts
  <2> QED BY <2>1, <2>2 DEF IInv, After, CallsKnow, Initialising
<1>4. ASSUME NEW p \in Process, Reuse(p) PROVE CallsKnow'
  <2>1. Working(p) /\ After(p, {"open", "idle"}, call[p].dept)
    BY <1>4, ReuseCall
  <2>2. call[p].at = "reuse" /\ UNCHANGED <<store, db, mapped, stray>>
    BY <1>4 DEF Reuse, At, host, ghosts
  <2> QED BY <2>1, <2>2 DEF IInv, After, CallsKnow, Initialising
<1>5. ASSUME NEW p \in Process, Open(p) PROVE CallsKnow'
  <2>1. /\ Working(p) /\ After(p, {"mount", "idle"}, call[p].dept)
        /\ call'[p].at = "mount" => Opens(p)
    BY <1>5, OpenCall
  <2>2. call[p].at = "open" /\ UNCHANGED <<store, db, stray>> /\ (Opens(p) \/ UNCHANGED mapped)
    BY <1>5 DEF Open, At, host, ghosts
  <2>3. /\ call'[p].at = "mount" => mapped'[call[p].dept] = store[p][call[p].dept]
        /\ \A d \in Dept : mapped[d] # NoKey => mapped'[d] = mapped[d]
    BY <2>1, <2>2 DEF Opens, Working, IInv, TypeOK, Typed
  <2> QED BY <2>1, <2>2, <2>3 DEF IInv, After, CallsKnow, Initialising
<1>6. ASSUME NEW p \in Process, Mount(p) PROVE CallsKnow'
  <2>1. Working(p) /\ After(p, {"create", "idle"}, call[p].dept)
    BY <1>6, MountCall
  <2>2. call[p].at = "mount" /\ UNCHANGED <<store, db, mapped, stray>>
    BY <1>6 DEF Mount, At, Mounts, host, ghosts
  <2> QED BY <2>1, <2>2 DEF IInv, After, CallsKnow, Initialising
<1>7. ASSUME NEW p \in Process, CreateDB(p) PROVE CallsKnow'
  BY <1>7, SMTT(30) DEF IInv, TypeOK, Typed, MaybeKey, DeadForget, OneHolder, CallsKnow,
        Initialising, RunningDatabaseHasItsKey, CreateDB, At, Return, host, ghosts
<1>8. ASSUME NEW p \in Process, Close(p) PROVE CallsKnow'
  BY <1>8, SMTT(30) DEF IInv, TypeOK, Typed, MaybeKey, DeadForget, OneHolder, CallsKnow,
        Initialising, RunningDatabaseHasItsKey, Close, At, Return, host, Closes, Seal
<1>9. ASSUME NEW p \in Process, Tar(p) PROVE CallsKnow'
  BY <1>9, SMTT(30) DEF IInv, TypeOK, Typed, MaybeKey, DeadForget, OneHolder, CallsKnow,
        Initialising, RunningDatabaseHasItsKey, Tar, host, ghosts
<1>10. ASSUME NEW p \in Process, NEW d \in Dept, InitDB(p, d) PROVE CallsKnow'
  BY <1>10, SMTT(30) DEF IInv, TypeOK, Typed, MaybeKey, DeadForget, OneHolder, CallsKnow,
        Initialising, RunningDatabaseHasItsKey, InitDB, At, Return, host, BeginUse
<1>11. ASSUME NEW p \in Process, NEW d \in Dept, Shutdown(p, d) PROVE CallsKnow'
  BY <1>11, SMTT(30) DEF IInv, TypeOK, Typed, MaybeKey, DeadForget, OneHolder, CallsKnow,
        Initialising, RunningDatabaseHasItsKey, Shutdown, At, Busy
<1>12. ASSUME NEW p \in Process, NEW d \in Dept, Backup(p, d) PROVE CallsKnow'
  BY <1>12, SMTT(30) DEF IInv, TypeOK, Typed, MaybeKey, DeadForget, OneHolder, CallsKnow,
        Initialising, RunningDatabaseHasItsKey, Backup, At, host, ghosts
<1>13. ASSUME Reboot PROVE CallsKnow'
  BY <1>13, SMTT(30) DEF IInv, TypeOK, Typed, MaybeKey, DeadForget, OneHolder, CallsKnow,
        Initialising, RunningDatabaseHasItsKey, Reboot, Forget
<1>14. ASSUME UNCHANGED vars PROVE CallsKnow'
  BY <1>14 DEF IInv, TypeOK, Typed, MaybeKey, DeadForget, OneHolder, CallsKnow, Initialising,
        RunningDatabaseHasItsKey, vars, memory, host, ghosts
<1> QED BY <1>1, <1>2, <1>3, <1>4, <1>5, <1>6, <1>7, <1>8, <1>9, <1>10, <1>11, <1>12, <1>13,
      <1>14 DEF Next

LEMMA RunningDatabaseHasItsKeyStep == IInv /\ [Next]_vars => RunningDatabaseHasItsKey'
<1> SUFFICES ASSUME IInv, [Next]_vars PROVE RunningDatabaseHasItsKey'
  OBVIOUS
<1> USE KeyVaultAssumption DEF Idle, NoKeys, NoDbs
<1>1. ASSUME NEW p \in Process, Start(p) PROVE RunningDatabaseHasItsKey'
  BY <1>1, SMTT(30) DEF IInv, TypeOK, Typed, MaybeKey, DeadForget, OneHolder, CallsKnow,
        Initialising, RunningDatabaseHasItsKey, Start, memory, host, ghosts
<1>2. ASSUME NEW p \in Process, Kill(p) PROVE RunningDatabaseHasItsKey'
  BY <1>2, SMTT(30) DEF IInv, TypeOK, Typed, MaybeKey, DeadForget, OneHolder, CallsKnow,
        Initialising, RunningDatabaseHasItsKey, Kill, At, host, ghosts, Forget, Orphan,
        Formats, Opens, Mounts, Closes
<1>3. ASSUME NEW p \in Process, Format(p) PROVE RunningDatabaseHasItsKey'
  BY <1>3, SMTT(30) DEF IInv, TypeOK, Typed, MaybeKey, DeadForget, OneHolder, CallsKnow,
        Initialising, RunningDatabaseHasItsKey, Format, At, Goto, Return, host, ghosts,
        EndUse, Formats
<1>4. ASSUME NEW p \in Process, Reuse(p) PROVE RunningDatabaseHasItsKey'
  BY <1>4, SMTT(30) DEF IInv, TypeOK, Typed, MaybeKey, DeadForget, OneHolder, CallsKnow,
        Initialising, RunningDatabaseHasItsKey, Reuse, At, Return, host, ghosts, BeginUse
<1>5. ASSUME NEW p \in Process, Open(p) PROVE RunningDatabaseHasItsKey'
  <2>1. /\ UNCHANGED <<store, db, stray>>
        /\ \A d \in Dept : mapped[d] # NoKey => mapped'[d] = mapped[d]
    BY <1>5 DEF Open, Opens, IInv, TypeOK, Typed, host, ghosts
  <2> QED BY <2>1 DEF IInv, RunningDatabaseHasItsKey
<1>6. ASSUME NEW p \in Process, Mount(p) PROVE RunningDatabaseHasItsKey'
  BY <1>6, SMTT(30) DEF IInv, TypeOK, Typed, MaybeKey, DeadForget, OneHolder, CallsKnow,
        Initialising, RunningDatabaseHasItsKey, Mount, At, Goto, Return, host, ghosts, Mounts
<1>7. ASSUME NEW p \in Process, CreateDB(p) PROVE RunningDatabaseHasItsKey'
  BY <1>7, SMTT(30) DEF IInv, TypeOK, Typed, MaybeKey, DeadForget, OneHolder, CallsKnow,
        Initialising, RunningDatabaseHasItsKey, CreateDB, At, Return, host, ghosts
<1>8. ASSUME NEW p \in Process, Close(p) PROVE RunningDatabaseHasItsKey'
  BY <1>8, SMTT(30) DEF IInv, TypeOK, Typed, MaybeKey, DeadForget, OneHolder, CallsKnow,
        Initialising, RunningDatabaseHasItsKey, Close, At, Return, host, Closes, Seal
<1>9. ASSUME NEW p \in Process, Tar(p) PROVE RunningDatabaseHasItsKey'
  BY <1>9, SMTT(30) DEF IInv, TypeOK, Typed, MaybeKey, DeadForget, OneHolder, CallsKnow,
        Initialising, RunningDatabaseHasItsKey, Tar, host, ghosts
<1>10. ASSUME NEW p \in Process, NEW d \in Dept, InitDB(p, d) PROVE RunningDatabaseHasItsKey'
  BY <1>10, SMTT(30) DEF IInv, TypeOK, Typed, MaybeKey, DeadForget, OneHolder, CallsKnow,
        Initialising, RunningDatabaseHasItsKey, InitDB, At, Return, host, BeginUse
<1>11. ASSUME NEW p \in Process, NEW d \in Dept, Shutdown(p, d) PROVE RunningDatabaseHasItsKey'
  BY <1>11, SMTT(30) DEF IInv, TypeOK, Typed, MaybeKey, DeadForget, OneHolder, CallsKnow,
        Initialising, RunningDatabaseHasItsKey, Shutdown, At, Busy
<1>12. ASSUME NEW p \in Process, NEW d \in Dept, Backup(p, d) PROVE RunningDatabaseHasItsKey'
  BY <1>12, SMTT(30) DEF IInv, TypeOK, Typed, MaybeKey, DeadForget, OneHolder, CallsKnow,
        Initialising, RunningDatabaseHasItsKey, Backup, At, host, ghosts
<1>13. ASSUME Reboot PROVE RunningDatabaseHasItsKey'
  BY <1>13, SMTT(30) DEF IInv, TypeOK, Typed, MaybeKey, DeadForget, OneHolder, CallsKnow,
        Initialising, RunningDatabaseHasItsKey, Reboot, Forget
<1>14. ASSUME UNCHANGED vars PROVE RunningDatabaseHasItsKey'
  BY <1>14 DEF IInv, TypeOK, Typed, MaybeKey, DeadForget, OneHolder, CallsKnow, Initialising,
        RunningDatabaseHasItsKey, vars, memory, host, ghosts
<1> QED BY <1>1, <1>2, <1>3, <1>4, <1>5, <1>6, <1>7, <1>8, <1>9, <1>10, <1>11, <1>12, <1>13,
      <1>14 DEF Next

LEMMA KeyFilesAreTransientStep == IInv /\ [Next]_vars => KeyFilesAreTransient'
<1> SUFFICES ASSUME IInv, [Next]_vars PROVE KeyFilesAreTransient'
  OBVIOUS
<1> USE KeyVaultAssumption DEF Idle, NoKeys, NoDbs
<1>1. ASSUME NEW p \in Process, Start(p) PROVE KeyFilesAreTransient'
  BY <1>1, SMTT(30) DEF IInv, TypeOK, Typed, MaybeKey, DeadForget, OneHolder, CallsKnow,
        Initialising, KeyFilesAreTransient, Start, memory, host, ghosts
<1>2. ASSUME NEW p \in Process, Kill(p) PROVE KeyFilesAreTransient'
  BY <1>2, SMTT(30) DEF IInv, TypeOK, Typed, MaybeKey, DeadForget, OneHolder, CallsKnow,
        Initialising, KeyFilesAreTransient, Kill, At, host, ghosts, Forget, Orphan, Formats,
        Opens, Mounts, Closes
<1>3. ASSUME NEW p \in Process, Format(p) PROVE KeyFilesAreTransient'
  <2>1. Working(p) /\ After(p, {"reuse", "idle"}, call[p].dept)
    BY <1>3, FormatCall
  <2> QED BY <1>3, <2>1, SMTT(30) DEF IInv, TypeOK, Typed, MaybeKey, DeadForget, OneHolder,
        CallsKnow, Initialising, KeyFilesAreTransient, After, Working, Call, Format, At, host,
        ghosts, EndUse, Formats
<1>4. ASSUME NEW p \in Process, Reuse(p) PROVE KeyFilesAreTransient'
  <2>1. Working(p) /\ After(p, {"open", "idle"}, call[p].dept)
    BY <1>4, ReuseCall
  <2>2. /\ UNCHANGED <<alive, store>> /\ call[p].at = "reuse"
        /\ \/ shm' = shm
           \/ shm' = shm \cup {store[p][call[p].dept]} /\ call'[p].at = "open"
    BY <1>4 DEF Reuse, At, BeginUse, IInv, TypeOK, Typed
  <2> SUFFICES ASSUME NEW q \in alive, NEW d \in Dept, store[q][d] \in shm'
               PROVE  call'[q].dept = d /\ call'[q].at \in {"format", "open"}
    BY <2>2 DEF KeyFilesAreTransient
  <2>3. q \in Process
    BY DEF IInv, TypeOK, Typed
  <2>4. CASE store[q][d] \in shm
    <3>1. call[q].dept = d /\ call[q].at \in {"format", "open"}
      BY <2>4 DEF IInv, KeyFilesAreTransient
    <3> QED BY <2>1, <2>2, <2>3, <3>1 DEF After
  <2>5. CASE store[q][d] = store[p][call[p].dept] /\ call'[p].at = "open"
    <3>1. store[p][call[p].dept] # NoKey
      BY <2>2 DEF IInv, CallsKnow, Initialising
    <3>2. q = p /\ d = call[p].dept
      BY <2>1, <2>3, <2>5, <3>1 DEF IInv, OneHolder, Working
    <3> QED BY <2>1, <2>5, <3>2 DEF After
  <2> QED BY <2>2, <2>4, <2>5
<1>5. ASSUME NEW p \in Process, Open(p) PROVE KeyFilesAreTransient'
  <2>1. /\ Working(p) /\ After(p, {"mount", "idle"}, call[p].dept)
        /\ call'[p].at = "mount" => Opens(p)
    BY <1>5, OpenCall
  <2>2. UNCHANGED <<alive, store>> /\ shm' = shm \ {store[p][call[p].dept]}
    BY <1>5 DEF Open, EndUse
  <2> SUFFICES ASSUME NEW q \in alive, NEW d \in Dept, store[q][d] \in shm'
               PROVE  call'[q].dept = d /\ call'[q].at \in {"format", "open"}
    BY <2>2 DEF KeyFilesAreTransient
  <2>3. call[q].dept = d /\ call[q].at \in {"format", "open"} /\ q \in Process
    BY <2>2 DEF IInv, KeyFilesAreTransient, TypeOK, Typed
  <2>4. q # p
    BY <2>2, <2>3
  <2> QED BY <2>1, <2>3, <2>4 DEF After
<1>6. ASSUME NEW p \in Process, Mount(p) PROVE KeyFilesAreTransient'
  <2>1. Working(p) /\ After(p, {"create", "idle"}, call[p].dept)
    BY <1>6, MountCall
  <2>2. UNCHANGED <<alive, store, shm>> /\ call[p].at = "mount"
    BY <1>6 DEF Mount, At
  <2> SUFFICES ASSUME NEW q \in alive, NEW d \in Dept, store[q][d] \in shm
               PROVE  call'[q].dept = d /\ call'[q].at \in {"format", "open"}
    BY <2>2 DEF KeyFilesAreTransient
  <2>3. call[q].dept = d /\ call[q].at \in {"format", "open"} /\ q \in Process
    BY DEF IInv, KeyFilesAreTransient, TypeOK, Typed
  <2>4. q # p
    BY <2>2, <2>3
  <2> QED BY <2>1, <2>3, <2>4 DEF After
<1>7. ASSUME NEW p \in Process, CreateDB(p) PROVE KeyFilesAreTransient'
  BY <1>7, SMTT(30) DEF IInv, TypeOK, Typed, MaybeKey, DeadForget, OneHolder, CallsKnow,
        Initialising, KeyFilesAreTransient, CreateDB, At, Return, host, ghosts
<1>8. ASSUME NEW p \in Process, Close(p) PROVE KeyFilesAreTransient'
  BY <1>8, SMTT(30) DEF IInv, TypeOK, Typed, MaybeKey, DeadForget, OneHolder, CallsKnow,
        Initialising, KeyFilesAreTransient, Close, At, Return, host, Closes, Seal
<1>9. ASSUME NEW p \in Process, Tar(p) PROVE KeyFilesAreTransient'
  BY <1>9, SMTT(30) DEF IInv, TypeOK, Typed, MaybeKey, DeadForget, OneHolder, CallsKnow,
        Initialising, KeyFilesAreTransient, Tar, host, ghosts
<1>10. ASSUME NEW p \in Process, NEW d \in Dept, InitDB(p, d) PROVE KeyFilesAreTransient'
  BY <1>10, SMTT(30) DEF IInv, TypeOK, Typed, MaybeKey, DeadForget, OneHolder, CallsKnow,
        Initialising, KeyFilesAreTransient, InitDB, At, Return, host, BeginUse
<1>11. ASSUME NEW p \in Process, NEW d \in Dept, Shutdown(p, d) PROVE KeyFilesAreTransient'
  BY <1>11, SMTT(30) DEF IInv, TypeOK, Typed, MaybeKey, DeadForget, OneHolder, CallsKnow,
        Initialising, KeyFilesAreTransient, Shutdown, At, Busy
<1>12. ASSUME NEW p \in Process, NEW d \in Dept, Backup(p, d) PROVE KeyFilesAreTransient'
  BY <1>12, SMTT(30) DEF IInv, TypeOK, Typed, MaybeKey, DeadForget, OneHolder, CallsKnow,
        Initialising, KeyFilesAreTransient, Backup, At, host, ghosts
<1>13. ASSUME Reboot PROVE KeyFilesAreTransient'
  BY <1>13, SMTT(30) DEF IInv, TypeOK, Typed, MaybeKey, DeadForget, OneHolder, CallsKnow,
        Initialising, KeyFilesAreTransient, Reboot, Forget
<1>14. ASSUME UNCHANGED vars PROVE KeyFilesAreTransient'
  BY <1>14 DEF IInv, TypeOK, Typed, MaybeKey, DeadForget, OneHolder, CallsKnow, Initialising,
        KeyFilesAreTransient, vars, memory, host, ghosts
<1> QED BY <1>1, <1>2, <1>3, <1>4, <1>5, <1>6, <1>7, <1>8, <1>9, <1>10, <1>11, <1>12, <1>13,
      <1>14 DEF Next

LEMMA ShutdownIsFinalStep == IInv /\ [Next]_vars => ShutdownIsFinal'
<1> SUFFICES ASSUME IInv, [Next]_vars PROVE ShutdownIsFinal'
  OBVIOUS
<1> USE KeyVaultAssumption DEF Idle, NoKeys, NoDbs
<1>1. ASSUME NEW p \in Process, Start(p) PROVE ShutdownIsFinal'
  BY <1>1, SMTT(30) DEF IInv, TypeOK, Typed, MaybeKey, DeadForget, OneHolder, OneVolume,
        CallsKnow, Initialising, KeyFilesAreTransient, ShutdownIsFinal, Start, memory, host,
        ghosts
<1>2. ASSUME NEW p \in Process, Kill(p) PROVE ShutdownIsFinal'
  BY <1>2, SMTT(30) DEF IInv, TypeOK, Typed, MaybeKey, DeadForget, OneHolder, OneVolume,
        CallsKnow, Initialising, KeyFilesAreTransient, ShutdownIsFinal, Kill, At, host,
        ghosts, Forget, Orphan, Formats, Opens, Mounts, Closes
<1>3. ASSUME NEW p \in Process, Format(p) PROVE ShutdownIsFinal'
  BY <1>3, SMTT(30) DEF IInv, TypeOK, Typed, MaybeKey, DeadForget, OneHolder, OneVolume,
        CallsKnow, Initialising, KeyFilesAreTransient, ShutdownIsFinal, Format, At, Goto,
        Return, host, ghosts, EndUse, Formats
<1>4. ASSUME NEW p \in Process, Reuse(p) PROVE ShutdownIsFinal'
  BY <1>4, SMTT(30) DEF IInv, TypeOK, Typed, MaybeKey, DeadForget, OneHolder, OneVolume,
        CallsKnow, Initialising, KeyFilesAreTransient, ShutdownIsFinal, Reuse, At, Return,
        host, ghosts, BeginUse
<1>5. ASSUME NEW p \in Process, Open(p) PROVE ShutdownIsFinal'
  BY <1>5, SMTT(30) DEF IInv, TypeOK, Typed, MaybeKey, DeadForget, OneHolder, OneVolume,
        CallsKnow, Initialising, KeyFilesAreTransient, ShutdownIsFinal, Open, At, Goto,
        Return, host, ghosts, EndUse, Opens
<1>6. ASSUME NEW p \in Process, Mount(p) PROVE ShutdownIsFinal'
  BY <1>6, SMTT(30) DEF IInv, TypeOK, Typed, MaybeKey, DeadForget, OneHolder, OneVolume,
        CallsKnow, Initialising, KeyFilesAreTransient, ShutdownIsFinal, Mount, At, Goto,
        Return, host, ghosts, Mounts
<1>7. ASSUME NEW p \in Process, CreateDB(p) PROVE ShutdownIsFinal'
  BY <1>7, SMTT(30) DEF IInv, TypeOK, Typed, MaybeKey, DeadForget, OneHolder, OneVolume,
        CallsKnow, Initialising, KeyFilesAreTransient, ShutdownIsFinal, CreateDB, At, Return,
        host, ghosts
<1>8. ASSUME NEW p \in Process, Close(p) PROVE ShutdownIsFinal'
  <2>1. Working(p) /\ call[p].at = "close" /\ p \in alive /\ UNCHANGED shm
    BY <1>8, CloseCall DEF Close, At
  <2>2. CASE Closes(p) /\ Seal(p)
    <3> DEFINE k == store[p][call[p].dept]
    <3>1. /\ \A d \in Dept : mapped'[d] = IF d = call[p].dept THEN NoKey ELSE mapped[d]
          /\ NoKey \notin used
      BY <2>1, <2>2 DEF Closes, Working, IInv, TypeOK, Typed
    <3>2. ASSUME k # NoKey
          PROVE  /\ k \notin shm /\ \A d \in Dept : mapped'[d] # k
                 /\ \A q \in Process, d \in Dept : store'[q][d] # k
      <4>1. k \notin shm
        BY <2>1, <3>2 DEF Working, IInv, KeyFilesAreTransient
      <4>2. \A d \in Dept : mapped'[d] # k
        BY <2>1, <3>1, <3>2 DEF Working, IInv, OneVolume
      <4>3. \A q \in Process, d \in Dept : store'[q][d] # k
        BY <2>1, <2>2, <3>2, SealShape DEF Working, IInv, OneHolder
      <4> QED BY <4>1, <4>2, <4>3
    <3>3. \A j \in sealed : /\ j \notin shm /\ \A d \in Dept : mapped'[d] # j
                           /\ \A q \in Process, d \in Dept : store'[q][d] # j
      <4> SUFFICES ASSUME NEW j \in sealed
                   PROVE  /\ j \notin shm /\ \A d \in Dept : mapped'[d] # j
                          /\ \A q \in Process, d \in Dept : store'[q][d] # j
        OBVIOUS
      <4>1. /\ j \notin shm /\ \A d \in Dept : mapped[d] # j
            /\ \A q \in Process, d \in Dept : store[q][d] # j
        BY DEF IInv, ShutdownIsFinal
      <4>2. j # NoKey
        BY <3>1 DEF IInv, TypeOK, Typed
      <4>3. \A q \in Process, d \in Dept : store'[q][d] \in {NoKey, store[q][d]}
        BY <2>1, <2>2, SealShape
      <4>4. \A d \in Dept : mapped'[d] \in {NoKey, mapped[d]}
        BY <3>1
      <4> QED BY <4>1, <4>2, <4>3, <4>4
    <3>4. sealed' = sealed \cup ({k} \ {NoKey})
      BY <2>1, <2>2, SealShape
    <3> QED BY <2>1, <3>2, <3>3, <3>4 DEF ShutdownIsFinal
  <2>3. CASE UNCHANGED <<host, store, db, sealed>>
    BY <2>1, <2>3 DEF IInv, ShutdownIsFinal, host
  <2> QED BY <1>8, <2>2, <2>3 DEF Close
<1>9. ASSUME NEW p \in Process, Tar(p) PROVE ShutdownIsFinal'
  BY <1>9, SMTT(30) DEF IInv, TypeOK, Typed, MaybeKey, DeadForget, OneHolder, OneVolume,
        CallsKnow, Initialising, KeyFilesAreTransient, ShutdownIsFinal, Tar, host, ghosts
<1>10. ASSUME NEW p \in Process, NEW d \in Dept, InitDB(p, d) PROVE ShutdownIsFinal'
  BY <1>10, SMTT(30) DEF IInv, TypeOK, Typed, MaybeKey, DeadForget, OneHolder, OneVolume,
        CallsKnow, Initialising, KeyFilesAreTransient, ShutdownIsFinal, InitDB, At, Return,
        host, BeginUse
<1>11. ASSUME NEW p \in Process, NEW d \in Dept, Shutdown(p, d) PROVE ShutdownIsFinal'
  BY <1>11, SMTT(30) DEF IInv, TypeOK, Typed, MaybeKey, DeadForget, OneHolder, OneVolume,
        CallsKnow, Initialising, KeyFilesAreTransient, ShutdownIsFinal, Shutdown, At, Busy
<1>12. ASSUME NEW p \in Process, NEW d \in Dept, Backup(p, d) PROVE ShutdownIsFinal'
  BY <1>12, SMTT(30) DEF IInv, TypeOK, Typed, MaybeKey, DeadForget, OneHolder, OneVolume,
        CallsKnow, Initialising, KeyFilesAreTransient, ShutdownIsFinal, Backup, At, host,
        ghosts
<1>13. ASSUME Reboot PROVE ShutdownIsFinal'
  BY <1>13, SMTT(30) DEF IInv, TypeOK, Typed, MaybeKey, DeadForget, OneHolder, OneVolume,
        CallsKnow, Initialising, KeyFilesAreTransient, ShutdownIsFinal, Reboot, Forget
<1>14. ASSUME UNCHANGED vars PROVE ShutdownIsFinal'
  BY <1>14 DEF IInv, TypeOK, Typed, MaybeKey, DeadForget, OneHolder, OneVolume, CallsKnow,
        Initialising, KeyFilesAreTransient, ShutdownIsFinal, vars, memory, host, ghosts
<1> QED BY <1>1, <1>2, <1>3, <1>4, <1>5, <1>6, <1>7, <1>8, <1>9, <1>10, <1>11, <1>12, <1>13,
      <1>14 DEF Next

\* The last conjunct of TypeOK follows from the others.
LEMMA MappingStep ==
    ASSUME IInv, [Next]_vars PROVE HasMapping'
<1> SUFFICES ASSUME NEW p \in alive', call'[p].at \in {"mount", "create", "close"},
                    call'[p].dept \notin stray'
             PROVE  mapped'[call'[p].dept] # NoKey
  BY DEF HasMapping
<1>1. Typed' /\ CallsKnow' /\ RunningDatabaseHasItsKey'
  BY TypedStep, CallsKnowStep, RunningDatabaseHasItsKeyStep
<1>2. p \in Process
  BY <1>1 DEF Typed
<1> QED BY <1>1, <1>2 DEF CallsKnow, RunningDatabaseHasItsKey, Initialising

-----------------------------------------------------------------------------
(* Together: IInv holds initially and is preserved.                        *)
LEMMA InitIInv == Init => IInv
BY KeyVaultAssumption DEF Init, IInv, TypeOK, Typed, HasMapping, MaybeKey, DeadForget,
      OneHolder, OneVolume, CallsKnow, Initialising, RunningDatabaseHasItsKey,
      KeyFilesAreTransient, ShutdownIsFinal, Idle, NoKeys, NoDbs

LEMMA StepIInv == IInv /\ [Next]_vars => IInv'
BY TypedStep, MappingStep, DeadForgetStep, OneHolderStep, OneVolumeStep, CallsKnowStep,
   RunningDatabaseHasItsKeyStep, KeyFilesAreTransientStep, ShutdownIsFinalStep DEF IInv, TypeOK

LEMMA Invariance == Spec => []IInv
BY InitIInv, StepIInv, PTL DEF Spec

(* InitializeDepartmentDB, ShutdownDatabase and UseKey keep their types,   *)
(* and whoever mounts, creates or closes has a mapping to do it on.        *)
THEOREM TypeCorrect == Spec => []TypeOK
BY Invariance, PTL DEF IInv

(* A database that is running keeps its own key, on the mapping that key   *)
(* opened (InitializeDepartmentDB, ShutdownDatabase).                      *)
THEOREM RunningKeepsKey == Spec => []RunningDatabaseHasItsKey
BY Invariance, PTL DEF IInv

(* A key somebody holds is in /dev/shm only while a command reads it       *)
(* (UseKey).                                                               *)
THEOREM KeyFilesEnd == Spec => []KeyFilesAreTransient
BY Invariance, PTL DEF IInv

(* After ShutdownDatabase its key is nowhere (WipeKey).                    *)
THEOREM ShutdownEndsKey == Spec => []ShutdownIsFinal
BY Invariance, PTL DEF IInv

===============================================================================
