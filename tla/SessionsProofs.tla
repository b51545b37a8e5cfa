---------------------------- MODULE SessionsProofs ----------------------------
(***************************************************************************)
(* What a login can rely on, for any devices, users, credentials, lengths  *)
(* of time and bounds.                                                     *)
(***************************************************************************)
EXTENDS Sessions, FiniteSetTheorems, TLAPS

Registration == [reg : 1..MaxRegistrations, user : User, cred : Credential,
                 signCount : 0..MaxSignCount]
SessionToken == [login : 1..MaxCeremonies, gen : Nat, user : User, device : Device,
                 expires : 0..(MaxTime + TokenTTL), rotatedAt : Nat]
Proof        == [otp : 1..MaxCeremonies, chal : 1..MaxCeremonies, user : User,
                 reg : 1..MaxRegistrations, signCount : 0..MaxSignCount]

Typed ==
    /\ clock \in 0..MaxTime
    /\ registered \in [Device -> Registration \cup {[reg |-> 0]}]
    /\ challenge \in [Device -> Pending(MaxCeremonies)]
    /\ otp \in [User -> Pending(MaxCeremonies)]
    /\ sessions \subseteq SessionToken /\ \A s \in sessions : s.rotatedAt <= clock
    /\ rotationDue \in BOOLEAN /\ cleanupDue \in BOOLEAN
    /\ issued \in [regs : 0..MaxRegistrations, challenges : 0..MaxCeremonies]
    /\ proofs \subseteq Proof /\ IsFiniteSet(proofs)

\* A pending challenge is the only one of its number, and no ceremony has used it.
PendingIsUnused ==
    /\ \A d \in Device : challenge[d].id <= issued.challenges
    /\ \A d, e \in Device : challenge[d].id # 0 /\ challenge[d].id = challenge[e].id => d = e
    /\ \A p \in proofs : /\ p.chal <= issued.challenges
                         /\ \A d \in Device : p.chal # challenge[d].id

\* A registration is one device's, and its counter is the highest it has proved with.
CountersLead ==
    /\ \A d \in Device : registered[d].reg <= issued.regs
    /\ \A d, e \in Device : IsRegistered(d) /\ registered[d].reg = registered[e].reg => d = e
    /\ \A p \in proofs : /\ p.reg <= issued.regs
                         /\ \A d \in Device : p.reg = registered[d].reg =>
                                                p.signCount <= registered[d].signCount

\* OTPs are numbered as they are sent.
OtpsAreNumbered ==
    \A p \in proofs : /\ p.otp <= Cardinality(proofs)
                      /\ \A q \in proofs : p.otp = q.otp => p = q

\* An OTP that waits for its user has opened nothing yet.
OtpsAreFresh ==
    \A u \in User : otp[u].id # 0 =>
        /\ \E p \in proofs : p.otp = otp[u].id /\ p.user = u
        /\ otp[u].id \notin revoked
        /\ \A s \in sessions : s.login # otp[u].id

RevokedWereProved == \A i \in revoked : \E p \in proofs : p.otp = i

\* How long after its interval a token may wait for the sweep: until a sweep that is due
\* has run, or for the part of the interval that has passed since the last one.
Grace == IF rotationDue THEN RotationInterval ELSE clock % RotationInterval

\* With prompt sweeps a sweep is due at the very tick, and no token is older than that.
SweepsKeepUp ==
    /\ Prompt /\ rotationDue => clock % RotationInterval = 0
    /\ \A s \in sessions :
          /\ s.expires = s.rotatedAt + TokenTTL
          /\ Prompt => clock - s.rotatedAt < RotationInterval + Grace

(* The inductive invariant.  The properties speak of OTPs, logins and proofs that exist; *)
(* what keeps the next one apart from them is in the other conjuncts.                    *)
IInv ==
    /\ Typed /\ PendingIsUnused /\ CountersLead /\ OtpsAreNumbered /\ OtpsAreFresh
    /\ RevokedWereProved /\ SweepsKeepUp
    /\ ProofsAreFresh /\ OneTokenPerLogin /\ RevokedStaysRevoked

-----------------------------------------------------------------------------
(* A factor other than zero does not bring a product closer to zero.       *)
LEMMA ProductsAreFar ==
    ASSUME NEW n \in Nat \ {0}, NEW k \in Int
    PROVE  (k >= 1 => n * k >= n) /\ (k <= -1 => n * k <= -n)
OBVIOUS

(* The remainder of a clock counts up and starts again.                    *)
LEMMA NextRemainder ==
    ASSUME NEW n \in Nat \ {0}, NEW t \in Nat
    PROVE  /\ t % n \in 0..(n - 1)
           /\ (t + 1) % n = IF t % n = n - 1 THEN 0 ELSE (t % n) + 1
<1> DEFINE q == t \div n        r == t % n
           q2 == (t + 1) \div n  r2 == (t + 1) % n
<1>1. /\ t = n * q + r /\ q \in Nat /\ r \in 0..(n - 1)
      /\ t + 1 = n * q2 + r2 /\ q2 \in Nat /\ r2 \in 0..(n - 1)
  OBVIOUS
<1> HIDE DEF q, r, q2, r2
<1>2. PICK k \in Int : q2 = q + k
  BY <1>1
<1>3. n * q2 = n * q + n * k
  BY <1>1, <1>2
<1>4. n * k = r + 1 - r2
  BY <1>1, <1>3
<1>5. k \in {0, 1}
  BY <1>1, <1>4, ProductsAreFar
<1>6. r2 = IF r = n - 1 THEN 0 ELSE r + 1
  <2>1. CASE k = 0
    BY <1>1, <1>4, <2>1
  <2>2. CASE k = 1
    <3>1. n * 1 = n
      OBVIOUS
    <3> QED BY <1>1, <1>4, <2>2, <3>1
  <2> QED BY <1>5, <2>1, <2>2
<1> QED BY <1>1, <1>6 DEF r, r2

(* Proofs by different challenges are no more than the challenges.         *)
LEMMA CountProofs ==
    ASSUME NEW S, IsFiniteSet(S), NEW n \in Nat,
           \A p \in S : p.chal \in 1..n,
           \A p, q \in S : p # q => p.chal # q.chal
    PROVE  Cardinality(S) \in 0..n
<1> DEFINE f == [p \in S |-> p.chal]
<1>1. f \in Injection(S, 1..n)
  BY DEF Injection, IsInjective
<1>2. IsFiniteSet(1..n) /\ Cardinality(1..n) = n
  BY FS_Interval
<1>3. Cardinality(S) <= Cardinality(1..n)
  BY <1>1, <1>2, FS_Injection
<1> QED BY <1>2, <1>3, FS_CardinalityType

-----------------------------------------------------------------------------
\* p is the proof that the assertion a of device d adds.
Adds(d, a, p) ==
    /\ proofs' = proofs \cup {p} /\ p \notin proofs
    /\ p.otp = Cardinality(proofs) + 1
    /\ p.chal = challenge[d].id /\ p.user = registered[d].user
    /\ p.reg = registered[d].reg /\ p.signCount = a.signCount
    /\ otp' \in {[otp EXCEPT ![p.user] = None],
                 [otp EXCEPT ![p.user] = [id |-> p.otp, expires |-> clock + OtpTTL]]}
    /\ IsFiniteSet(proofs') /\ Cardinality(proofs') = Cardinality(proofs) + 1

(* An accepted assertion adds one proof, of a challenge never used.        *)
LEMMA NewProof ==
    ASSUME IInv, NEW d \in Device, NEW a \in Assertion, NEW delivered \in BOOLEAN,
           CompleteWebAuthnAuth(d, a, delivered), AssertionAccepted(d, a)
    PROVE  \E p \in Proof : Adds(d, a, p)
<1> DEFINE p == [otp |-> Cardinality(proofs) + 1, chal |-> a.chal, user |-> registered[d].user,
                 reg |-> registered[d].reg, signCount |-> a.signCount]
<1>1. /\ proofs' = proofs \cup {p}
      /\ otp' \in {[otp EXCEPT ![p.user] = None],
                   [otp EXCEPT ![p.user] = [id |-> p.otp, expires |-> clock + OtpTTL]]}
      /\ IsRegistered(d) /\ a.chal = challenge[d].id /\ challenge[d].id # 0
  BY DEF CompleteWebAuthnAuth, AssertionAccepted
<1>2. registered[d] \in Registration /\ issued.challenges \in 0..MaxCeremonies
  BY <1>1 DEF IInv, Typed, IsRegistered
<1>3. a.chal \in 1..issued.challenges /\ a.signCount \in 0..MaxSignCount
  BY DEF Assertion
<1>4. p \notin proofs /\ \A q \in proofs : q.chal # p.chal
  BY <1>1 DEF IInv, PendingIsUnused
<1>5. IsFiniteSet(proofs) /\ proofs \subseteq Proof
  BY DEF IInv, Typed
<1>6. IsFiniteSet(proofs \cup {p}) /\ Cardinality(proofs \cup {p}) = Cardinality(proofs) + 1
  BY <1>4, <1>5, FS_AddElement
<1>7. Cardinality(proofs \cup {p}) \in 0..issued.challenges
  <2>1. \A q \in proofs : q.chal \in 1..issued.challenges
    BY <1>2, <1>5, SessionAssumption DEF IInv, PendingIsUnused, Proof
  <2>2. \A q, r \in proofs : q # r => q.chal # r.chal
    BY DEF IInv, ProofsAreFresh
  <2>3. issued.challenges \in Nat
    BY <1>2, SessionAssumption
  <2> HIDE DEF p
  <2>4. p.chal \in 1..issued.challenges
    BY <1>3 DEF p
  <2>5. \A q \in proofs \cup {p} : q.chal \in 1..issued.challenges
    BY <2>1, <2>4
  <2>6. \A q, r \in proofs \cup {p} : q # r => q.chal # r.chal
    BY <1>4, <2>2
  <2> QED BY <1>6, <2>3, <2>5, <2>6, CountProofs
<1>8. p \in Proof
  <2>1. Cardinality(proofs) \in Nat
    BY <1>5, FS_CardinalityType
  <2>2. Cardinality(proofs) + 1 \in 1..MaxCeremonies
    BY <1>2, <1>6, <1>7, <2>1, SessionAssumption
  <2> QED BY <1>2, <1>3, <2>2, SessionAssumption DEF Proof, Registration
<1>9. Adds(d, a, p)
  BY <1>1, <1>4, <1>6 DEF Adds
<1> QED BY <1>8, <1>9

(* Holders and sweeps turn a token into at most one, of the same login.    *)
LEMMA TokensDescend ==
    ASSUME IInv,
           \/ \E s \in sessions : RotateToken(s) \/ RevokeSession(s)
           \/ \E d \in Device : RevokeAllForDevice(d)
           \/ RotateExpiringSessions \/ CleanupExpiredSessions
    PROVE  /\ \A t \in sessions' : \E s \in sessions : t = s \/ t = Renewed(s)
           /\ \A t, u \in sessions' : t.login = u.login => t = u
<1>1. \A s \in sessions : Renewed(s).login = s.login
  BY DEF Renewed, Token
<1>2. \A s, t \in sessions : s.login = t.login => s = t
  BY DEF IInv, OneTokenPerLogin
<1>3. CASE \E s \in sessions : RotateToken(s)
  BY <1>1, <1>2, <1>3 DEF RotateToken
<1>4. CASE RotateExpiringSessions
  BY <1>1, <1>2, <1>4 DEF RotateExpiringSessions
<1>5. CASE \/ \E s \in sessions : RevokeSession(s)
           \/ \E d \in Device : RevokeAllForDevice(d)
           \/ CleanupExpiredSessions
  BY <1>2, <1>5 DEF RevokeSession, RevokeAllForDevice, Revoke, CleanupExpiredSessions
<1> QED BY <1>3, <1>4, <1>5

-----------------------------------------------------------------------------
(* Every conjunct of IInv is preserved by every action.                    *)
LEMMA TypedStep == IInv /\ [Next]_vars => Typed'
<1> SUFFICES ASSUME IInv, [Next]_vars PROVE Typed'
  OBVIOUS
<1>1. ASSUME NEW d \in Device, NEW u \in User, NEW cred \in Credential,
            NEW c \in 0..MaxSignCount, RegisterDevice(d, u, cred, c)
      PROVE  Typed'
  BY <1>1, SessionAssumption DEF IInv, Typed, Pending, RegisterDevice, timers, Registration
<1>2. ASSUME NEW d \in Device, BeginWebAuthnAuth(d) PROVE Typed'
  BY <1>2, SessionAssumption DEF IInv, Typed, Pending, BeginWebAuthnAuth, timers
<1>3. ASSUME NEW d \in Device, NEW a \in Assertion, NEW delivered \in BOOLEAN,
            CompleteWebAuthnAuth(d, a, delivered)
      PROVE  Typed'
  <2>1. challenge' \in [Device -> Pending(MaxCeremonies)]
    BY <1>3, SessionAssumption DEF IInv, Typed, Pending, CompleteWebAuthnAuth, Consume, None
  <2>2. CASE AssertionAccepted(d, a)
    <3>1. PICK p \in Proof : Adds(d, a, p)
      BY <1>3, <2>2, NewProof
    <3>2. otp' \in [User -> Pending(MaxCeremonies)]
      <4>1. p.otp \in 1..MaxCeremonies
        BY DEF Proof
      <4>2. clock + OtpTTL \in 0..(MaxTime + ChallengeTTL + OtpTTL) /\ clock \in 0..MaxTime
        BY SessionAssumption DEF IInv, Typed
      <4>3. /\ None \in Pending(MaxCeremonies)
            /\ [id |-> p.otp, expires |-> clock + OtpTTL] \in Pending(MaxCeremonies)
        BY <4>1, <4>2, SessionAssumption DEF Pending, None
      <4>4. otp \in [User -> Pending(MaxCeremonies)]
        BY DEF IInv, Typed
      <4>5. \/ otp' = [otp EXCEPT ![p.user] = None]
            \/ otp' = [otp EXCEPT ![p.user] = [id |-> p.otp, expires |-> clock + OtpTTL]]
        BY <3>1 DEF Adds
      <4> QED BY <4>3, <4>4, <4>5
    <3>3. /\ registered' = [registered EXCEPT ![d].signCount = a.signCount]
          /\ registered[d] \in Registration /\ a.signCount \in 0..MaxSignCount
      BY <1>3, <2>2 DEF CompleteWebAuthnAuth, IInv, Typed, IsRegistered, Assertion
    <3>4. registered' \in [Device -> Registration \cup {[reg |-> 0]}]
      BY <3>3 DEF IInv, Typed, Registration
    <3> QED BY <1>3, <2>1, <3>1, <3>2, <3>4 DEF Adds, CompleteWebAuthnAuth, IInv, Typed, timers
  <2>3. CASE ~AssertionAccepted(d, a)
    BY <1>3, <2>1, <2>3 DEF CompleteWebAuthnAuth, IInv, Typed, timers
  <2> QED BY <2>2, <2>3
<1>4. ASSUME NEW u \in User, NEW d \in Device, CompleteAuthentication(u, d) PROVE Typed'
  <2>1. Token(otp[u].id, 0, u, d) \in SessionToken
    BY <1>4, SessionAssumption
       DEF CompleteAuthentication, IInv, Typed, Pending, SessionToken, Token
  <2>2. sessions' \subseteq SessionToken /\ \A s \in sessions' : s.rotatedAt <= clock
    BY <1>4, <2>1, SessionAssumption DEF CompleteAuthentication, IInv, Typed, Token
  <2>3. otp' \in [User -> Pending(MaxCeremonies)]
    BY <1>4, SessionAssumption DEF CompleteAuthentication, IInv, Typed, Pending, Spend, None
  <2> QED BY <1>4, <2>2, <2>3 DEF CompleteAuthentication, IInv, Typed, timers, ghosts
<1>5. ASSUME NEW d \in Device, RevokeAllForDevice(d) PROVE Typed'
  BY <1>5 DEF IInv, Typed, Pending, RevokeAllForDevice, Revoke, loginVars, timers
<1>6. ASSUME NEW u \in User, DropExpiredOtp(u) PROVE Typed'
  BY <1>6, SessionAssumption DEF IInv, Typed, Pending, DropExpiredOtp, timers, ghosts, None
<1>7. ASSUME NEW s \in sessions, RotateToken(s) PROVE Typed'
  <2>1. /\ \A t \in sessions : Renewed(t) \in SessionToken /\ Renewed(t).rotatedAt <= clock
    BY SessionAssumption DEF IInv, Typed, SessionToken, Renewed, Token
  <2>2. \A t \in sessions' : \E r \in sessions : t = r \/ t = Renewed(r)
    BY <1>7, TokensDescend
  <2>3. UNCHANGED <<clock, registered, challenge, otp, rotationDue, cleanupDue, issued, proofs>>
    BY <1>7 DEF RotateToken, loginVars, timers, ghosts
  <2>4. sessions \subseteq SessionToken /\ \A r \in sessions : r.rotatedAt <= clock
    BY DEF IInv, Typed
  <2>5. sessions' \subseteq SessionToken /\ \A r \in sessions' : r.rotatedAt <= clock'
    BY <2>1, <2>2, <2>3, <2>4
  <2> QED BY <2>3, <2>5 DEF IInv, Typed
<1>8. ASSUME NEW s \in sessions, RevokeSession(s) PROVE Typed'
  BY <1>8 DEF IInv, Typed, Pending, RevokeSession, Revoke, loginVars, timers
<1>9. ASSUME RotateExpiringSessions PROVE Typed'
  <2>1. /\ \A t \in sessions : Renewed(t) \in SessionToken /\ Renewed(t).rotatedAt <= clock
    BY SessionAssumption DEF IInv, Typed, SessionToken, Renewed, Token
  <2>2. \A t \in sessions' : \E s \in sessions : t = s \/ t = Renewed(s)
    BY <1>9, TokensDescend
  <2>3. /\ UNCHANGED <<clock, registered, challenge, otp, cleanupDue, issued, proofs>>
        /\ rotationDue' = FALSE
    BY <1>9 DEF RotateExpiringSessions, loginVars, ghosts
  <2>4. /\ sessions \subseteq SessionToken /\ \A s \in sessions : s.rotatedAt <= clock
        /\ cleanupDue \in BOOLEAN
    BY DEF IInv, Typed
  <2>5. sessions' \subseteq SessionToken /\ \A s \in sessions' : s.rotatedAt <= clock'
    BY <2>1, <2>2, <2>3, <2>4
  <2> QED BY <2>3, <2>4, <2>5 DEF IInv, Typed
<1>10. ASSUME CleanupExpiredSessions PROVE Typed'
  BY <1>10 DEF IInv, Typed, Pending, CleanupExpiredSessions, loginVars, ghosts
<1>11. ASSUME Tick PROVE Typed'
  <2>1. UNCHANGED <<registered, challenge, otp, sessions, issued, proofs>>
    BY <1>11 DEF Tick, loginVars, ghosts
  <2>2. clock' \in 0..MaxTime /\ clock' = clock + 1 /\ clock \in Nat
    BY <1>11, SessionAssumption DEF Tick, IInv, Typed
  <2>3. rotationDue' \in BOOLEAN /\ cleanupDue' \in BOOLEAN
    BY <1>11 DEF Tick, IInv, Typed
  <2>4. ASSUME NEW s \in sessions PROVE s.rotatedAt <= clock'
    <3>1. s.rotatedAt \in Nat /\ s.rotatedAt <= clock
      BY DEF IInv, Typed, SessionToken
    <3> QED BY <2>2, <3>1
  <2> QED BY <2>1, <2>2, <2>3, <2>4 DEF IInv, Typed
<1>12. ASSUME UNCHANGED vars PROVE Typed'
  BY <1>12 DEF IInv, Typed, Pending, vars, loginVars, timers, ghosts
<1> QED
  BY <1>1, <1>2, <1>3, <1>4, <1>5, <1>6, <1>7, <1>8, <1>9, <1>10, <1>11, <1>12 DEF Next

LEMMA PendingIsUnusedStep == IInv /\ [Next]_vars => PendingIsUnused'
<1> SUFFICES ASSUME IInv, [Next]_vars PROVE PendingIsUnused'
  OBVIOUS
<1>1. ASSUME NEW d \in Device, NEW u \in User, NEW cred \in Credential,
            NEW c \in 0..MaxSignCount, RegisterDevice(d, u, cred, c)
      PROVE  PendingIsUnused'
  BY <1>1 DEF IInv, PendingIsUnused, Typed, Pending, RegisterDevice, timers
<1>2. ASSUME NEW d \in Device, BeginWebAuthnAuth(d) PROVE PendingIsUnused'
  BY <1>2, SessionAssumption DEF IInv, PendingIsUnused, Typed, Pending, BeginWebAuthnAuth,
        timers, Proof
<1>3. ASSUME NEW d \in Device, NEW a \in Assertion, NEW delivered \in BOOLEAN,
            CompleteWebAuthnAuth(d, a, delivered)
      PROVE  PendingIsUnused'
  <2>1. /\ challenge' = [challenge EXCEPT ![d].id = 0, ![d].expires = 0]
        /\ challenge[d].id # 0 /\ UNCHANGED issued
    BY <1>3 DEF CompleteWebAuthnAuth, Consume, None, IInv, Typed, Pending
  <2>2. /\ \A e \in Device : challenge'[e].id = IF e = d THEN 0 ELSE challenge[e].id
        /\ challenge[d].id \in 1..issued.challenges
    BY <2>1, SessionAssumption DEF IInv, Typed, Pending, PendingIsUnused
  <2>3. \A p \in proofs' : p \in proofs \/ p.chal = challenge[d].id
    BY <1>3 DEF CompleteWebAuthnAuth, AssertionAccepted
  <2>4. \A p \in proofs : p.chal # 0
    BY DEF IInv, Typed, Proof
  <2>5. \A e \in Device : challenge'[e].id <= issued'.challenges
    BY <2>1, <2>2, SessionAssumption DEF IInv, Typed, PendingIsUnused
  <2>6. \A e, f \in Device : challenge'[e].id # 0 /\ challenge'[e].id = challenge'[f].id => e = f
    BY <2>2 DEF IInv, PendingIsUnused
  <2>7. \A p \in proofs' : /\ p.chal <= issued'.challenges
                           /\ \A e \in Device : p.chal # challenge'[e].id
    <3> SUFFICES ASSUME NEW p \in proofs'
                 PROVE  /\ p.chal <= issued.challenges
                        /\ \A e \in Device : p.chal # challenge'[e].id
      BY <2>1
    <3>1. CASE p \in proofs
      BY <2>2, <2>4, <3>1 DEF IInv, PendingIsUnused
    <3>2. CASE p.chal = challenge[d].id
      BY <2>1, <2>2, <3>2 DEF IInv, PendingIsUnused
    <3> QED BY <2>3, <3>1, <3>2
  <2> QED BY <2>5, <2>6, <2>7 DEF PendingIsUnused
<1>4. ASSUME NEW u \in User, NEW d \in Device, CompleteAuthentication(u, d) PROVE PendingIsUnused'
  BY <1>4 DEF IInv, PendingIsUnused, Typed, Pending, CompleteAuthentication, timers, ghosts
<1>5. ASSUME NEW d \in Device, RevokeAllForDevice(d) PROVE PendingIsUnused'
  BY <1>5 DEF IInv, PendingIsUnused, Typed, Pending, RevokeAllForDevice, Revoke, loginVars,
        timers
<1>6. ASSUME NEW u \in User, DropExpiredOtp(u) PROVE PendingIsUnused'
  BY <1>6 DEF IInv, PendingIsUnused, Typed, Pending, DropExpiredOtp, timers, ghosts
<1>7. ASSUME NEW s \in sessions, RotateToken(s) PROVE PendingIsUnused'
  BY <1>7 DEF IInv, PendingIsUnused, Typed, Pending, RotateToken, loginVars, timers, ghosts
<1>8. ASSUME NEW s \in sessions, RevokeSession(s) PROVE PendingIsUnused'
  BY <1>8 DEF IInv, PendingIsUnused, Typed, Pending, RevokeSession, Revoke, loginVars,
        timers
<1>9. ASSUME RotateExpiringSessions PROVE PendingIsUnused'
  BY <1>9 DEF IInv, PendingIsUnused, Typed, Pending, RotateExpiringSessions, loginVars,
        ghosts
<1>10. ASSUME CleanupExpiredSessions PROVE PendingIsUnused'
  BY <1>10 DEF IInv, PendingIsUnused, Typed, Pending, CleanupExpiredSessions, loginVars,
        ghosts
<1>11. ASSUME Tick PROVE PendingIsUnused'
  BY <1>11 DEF IInv, PendingIsUnused, Typed, Pending, Tick, loginVars, ghosts
<1>12. ASSUME UNCHANGED vars PROVE PendingIsUnused'
  BY <1>12 DEF IInv, PendingIsUnused, Typed, Pending, vars, loginVars, timers, ghosts
<1> QED
  BY <1>1, <1>2, <1>3, <1>4, <1>5, <1>6, <1>7, <1>8, <1>9, <1>10, <1>11, <1>12 DEF Next

LEMMA CountersLeadStep == IInv /\ [Next]_vars => CountersLead'
<1> SUFFICES ASSUME IInv, [Next]_vars PROVE CountersLead'
  OBVIOUS
<1>1. ASSUME NEW d \in Device, NEW u \in User, NEW cred \in Credential,
            NEW c \in 0..MaxSignCount, RegisterDevice(d, u, cred, c)
      PROVE  CountersLead'
  <2>1. /\ issued'.regs = issued.regs + 1 /\ issued.regs \in Nat
        /\ \A e \in Device : registered'[e].reg = IF e = d THEN issued.regs + 1
                                                 ELSE registered[e].reg
        /\ \A e \in Device \ {d} : registered'[e] = registered[e]
        /\ UNCHANGED proofs
    BY <1>1, SessionAssumption DEF RegisterDevice, IInv, Typed
  <2>2. \A e \in Device : registered[e].reg \in Nat
    BY SessionAssumption DEF IInv, Typed, Registration
  <2>3. \A p \in proofs : p.reg \in Nat
    BY SessionAssumption DEF IInv, Typed, Proof
  <2> QED BY <2>1, <2>2, <2>3 DEF IInv, CountersLead, IsRegistered
<1>2. ASSUME NEW d \in Device, BeginWebAuthnAuth(d) PROVE CountersLead'
  BY <1>2 DEF IInv, CountersLead, Typed, IsRegistered, BeginWebAuthnAuth, timers
<1>3. ASSUME NEW d \in Device, NEW a \in Assertion, NEW delivered \in BOOLEAN,
            CompleteWebAuthnAuth(d, a, delivered)
      PROVE  CountersLead'
  <2>1. CASE AssertionAccepted(d, a)
    <3>1. PICK p \in Proof : Adds(d, a, p)
      BY <1>3, <2>1, NewProof
    <3>2. /\ registered[d] \in Registration
          /\ registered' = [registered EXCEPT ![d].signCount = a.signCount] /\ UNCHANGED issued
      <4>1. /\ IsRegistered(d) /\ UNCHANGED issued
            /\ registered' = [registered EXCEPT ![d].signCount = a.signCount]
        BY <1>3, <2>1 DEF CompleteWebAuthnAuth
      <4> QED BY <4>1 DEF IInv, Typed, IsRegistered
    <3>3. /\ \A e \in Device : registered'[e].reg = registered[e].reg
          /\ \A e \in Device \ {d} : registered'[e] = registered[e]
          /\ registered'[d].signCount = a.signCount
      BY <3>2 DEF IInv, Typed, Registration
    <3>4. /\ a.signCount \in Nat /\ registered[d].signCount \in Nat
          /\ \A q \in proofs : q.signCount \in Nat
      BY <3>2, SessionAssumption DEF Assertion, Registration, IInv, Typed, Proof
    <3>5. a.signCount >= registered[d].signCount
      BY <2>1, <3>4 DEF AssertionAccepted, CounterAccepted
    <3>6. registered[d].reg # 0
      BY <3>2 DEF Registration
    <3> QED BY <3>1, <3>2, <3>3, <3>4, <3>5, <3>6 DEF Adds, IInv, CountersLead, IsRegistered
  <2>2. CASE ~AssertionAccepted(d, a)
    BY <1>3, <2>2 DEF CompleteWebAuthnAuth, IInv, CountersLead, IsRegistered
  <2> QED BY <2>1, <2>2
<1>4. ASSUME NEW u \in User, NEW d \in Device, CompleteAuthentication(u, d) PROVE CountersLead'
  BY <1>4 DEF IInv, CountersLead, Typed, IsRegistered, CompleteAuthentication, timers,
        ghosts
<1>5. ASSUME NEW d \in Device, RevokeAllForDevice(d) PROVE CountersLead'
  BY <1>5 DEF IInv, CountersLead, Typed, IsRegistered, RevokeAllForDevice, Revoke,
        loginVars, timers
<1>6. ASSUME NEW u \in User, DropExpiredOtp(u) PROVE CountersLead'
  BY <1>6 DEF IInv, CountersLead, Typed, IsRegistered, DropExpiredOtp, timers, ghosts
<1>7. ASSUME NEW s \in sessions, RotateToken(s) PROVE CountersLead'
  BY <1>7 DEF IInv, CountersLead, Typed, IsRegistered, RotateToken, loginVars, timers,
        ghosts
<1>8. ASSUME NEW s \in sessions, RevokeSession(s) PROVE CountersLead'
  BY <1>8 DEF IInv, CountersLead, Typed, IsRegistered, RevokeSession, Revoke, loginVars,
        timers
<1>9. ASSUME RotateExpiringSessions PROVE CountersLead'
  BY <1>9 DEF IInv, CountersLead, Typed, IsRegistered, RotateExpiringSessions, loginVars,
        ghosts
<1>10. ASSUME CleanupExpiredSessions PROVE CountersLead'
  BY <1>10 DEF IInv, CountersLead, Typed, IsRegistered, CleanupExpiredSessions, loginVars,
        ghosts
<1>11. ASSUME Tick PROVE CountersLead'
  BY <1>11 DEF IInv, CountersLead, Typed, IsRegistered, Tick, loginVars, ghosts
<1>12. ASSUME UNCHANGED vars PROVE CountersLead'
  BY <1>12 DEF IInv, CountersLead, Typed, IsRegistered, vars, loginVars, timers, ghosts
<1> QED
  BY <1>1, <1>2, <1>3, <1>4, <1>5, <1>6, <1>7, <1>8, <1>9, <1>10, <1>11, <1>12 DEF Next

LEMMA OtpsAreNumberedStep == IInv /\ [Next]_vars => OtpsAreNumbered'
<1> SUFFICES ASSUME IInv, [Next]_vars PROVE OtpsAreNumbered'
  OBVIOUS
<1>1. ASSUME NEW d \in Device, NEW u \in User, NEW cred \in Credential,
            NEW c \in 0..MaxSignCount, RegisterDevice(d, u, cred, c)
      PROVE  OtpsAreNumbered'
  BY <1>1 DEF IInv, OtpsAreNumbered, RegisterDevice, timers
<1>2. ASSUME NEW d \in Device, BeginWebAuthnAuth(d) PROVE OtpsAreNumbered'
  BY <1>2 DEF IInv, OtpsAreNumbered, BeginWebAuthnAuth, timers
<1>3. ASSUME NEW d \in Device, NEW a \in Assertion, NEW delivered \in BOOLEAN,
            CompleteWebAuthnAuth(d, a, delivered)
      PROVE  OtpsAreNumbered'
  <2>1. CASE AssertionAccepted(d, a)
    <3>1. PICK p \in Proof : Adds(d, a, p)
      BY <1>3, <2>1, NewProof
    <3>2. Cardinality(proofs) \in Nat /\ \A q \in proofs : q.otp \in Nat
      <4>1. proofs \subseteq Proof /\ IsFiniteSet(proofs)
        BY DEF IInv, Typed
      <4>2. \A q \in Proof : q.otp \in Nat
        BY SessionAssumption DEF Proof
      <4> QED BY <4>1, <4>2, FS_CardinalityType
    <3>3. /\ proofs' = proofs \cup {p} /\ p.otp = Cardinality(proofs) + 1
          /\ Cardinality(proofs') = Cardinality(proofs) + 1
      BY <3>1 DEF Adds
    <3>4. PICK n \in Nat : n = Cardinality(proofs)
      BY <3>2
    <3>5. \A q \in proofs : /\ q.otp <= n /\ q.otp # n + 1
                            /\ \A r \in proofs : q.otp = r.otp => q = r
      BY <3>2, <3>4 DEF IInv, OtpsAreNumbered
    <3>6. p.otp = n + 1 /\ Cardinality(proofs') = n + 1
      BY <3>3, <3>4
    <3>7. ASSUME NEW q \in proofs'
          PROVE  /\ q.otp <= n + 1
                 /\ \A r \in proofs' : q.otp = r.otp => q = r
      <4>1. CASE q = p
        BY <3>3, <3>5, <3>6, <4>1
      <4>2. CASE q \in proofs
        BY <3>2, <3>3, <3>5, <3>6, <4>2
      <4> QED BY <3>3, <4>1, <4>2
    <3> QED BY <3>6, <3>7 DEF OtpsAreNumbered
  <2>2. CASE ~AssertionAccepted(d, a)
    BY <1>3, <2>2 DEF CompleteWebAuthnAuth, IInv, OtpsAreNumbered
  <2> QED BY <2>1, <2>2
<1>4. ASSUME NEW u \in User, NEW d \in Device, CompleteAuthentication(u, d) PROVE OtpsAreNumbered'
  BY <1>4 DEF IInv, OtpsAreNumbered, CompleteAuthentication, timers, ghosts
<1>5. ASSUME NEW d \in Device, RevokeAllForDevice(d) PROVE OtpsAreNumbered'
  BY <1>5 DEF IInv, OtpsAreNumbered, RevokeAllForDevice, Revoke, loginVars, timers
<1>6. ASSUME NEW u \in User, DropExpiredOtp(u) PROVE OtpsAreNumbered'
  BY <1>6 DEF IInv, OtpsAreNumbered, DropExpiredOtp, timers, ghosts
<1>7. ASSUME NEW s \in sessions, RotateToken(s) PROVE OtpsAreNumbered'
  BY <1>7 DEF IInv, OtpsAreNumbered, RotateToken, loginVars, timers, ghosts
<1>8. ASSUME NEW s \in sessions, RevokeSession(s) PROVE OtpsAreNumbered'
  BY <1>8 DEF IInv, OtpsAreNumbered, RevokeSession, Revoke, loginVars, timers
<1>9. ASSUME RotateExpiringSessions PROVE OtpsAreNumbered'
  BY <1>9 DEF IInv, OtpsAreNumbered, RotateExpiringSessions, loginVars, ghosts
<1>10. ASSUME CleanupExpiredSessions PROVE OtpsAreNumbered'
  BY <1>10 DEF IInv, OtpsAreNumbered, CleanupExpiredSessions, loginVars, ghosts
<1>11. ASSUME Tick PROVE OtpsAreNumbered'
  BY <1>11 DEF IInv, OtpsAreNumbered, Tick, loginVars, ghosts
<1>12. ASSUME UNCHANGED vars PROVE OtpsAreNumbered'
  BY <1>12 DEF IInv, OtpsAreNumbered, vars, loginVars, timers, ghosts
<1> QED
  BY <1>1, <1>2, <1>3, <1>4, <1>5, <1>6, <1>7, <1>8, <1>9, <1>10, <1>11, <1>12 DEF Next

LEMMA OtpsAreFreshStep == IInv /\ [Next]_vars => OtpsAreFresh'
<1> SUFFICES ASSUME IInv, [Next]_vars PROVE OtpsAreFresh'
  OBVIOUS
<1>1. ASSUME NEW d \in Device, NEW u \in User, NEW cred \in Credential,
            NEW c \in 0..MaxSignCount, RegisterDevice(d, u, cred, c)
      PROVE  OtpsAreFresh'
  BY <1>1 DEF IInv, OtpsAreFresh, Typed, RegisterDevice, timers
<1>2. ASSUME NEW d \in Device, BeginWebAuthnAuth(d) PROVE OtpsAreFresh'
  BY <1>2 DEF IInv, OtpsAreFresh, Typed, BeginWebAuthnAuth, timers
<1>3. ASSUME NEW d \in Device, NEW a \in Assertion, NEW delivered \in BOOLEAN,
            CompleteWebAuthnAuth(d, a, delivered)
      PROVE  OtpsAreFresh'
  <2>1. CASE AssertionAccepted(d, a)
    <3>1. PICK p \in Proof : Adds(d, a, p)
      BY <1>3, <2>1, NewProof
    <3>2. /\ UNCHANGED <<sessions, revoked>> /\ p \in proofs' /\ proofs \subseteq proofs'
      BY <1>3, <3>1 DEF Adds, CompleteWebAuthnAuth
    <3>3. /\ p.otp \notin revoked
          /\ \A s \in sessions : s.login # p.otp
      <4>1. Cardinality(proofs) \in Nat
        BY FS_CardinalityType DEF IInv, Typed
      <4>2. \A q \in proofs : q.otp # p.otp
        BY <3>1, <4>1, SessionAssumption DEF Adds, IInv, Typed, Proof, OtpsAreNumbered
      <4> QED BY <4>2 DEF IInv, RevokedWereProved, OneTokenPerLogin
    <3>4. \A u \in User : \/ otp'[u] = otp[u]
                          \/ otp'[u].id = 0
                          \/ u = p.user /\ otp'[u].id = p.otp
      BY <3>1 DEF Adds, IInv, Typed, None
    <3>5. \A u \in User : otp[u].id # 0 =>
              \E q \in proofs' : q.otp = otp[u].id /\ q.user = u
      BY <3>2 DEF IInv, OtpsAreFresh
    <3> QED BY <3>2, <3>3, <3>4, <3>5 DEF IInv, OtpsAreFresh
  <2>2. CASE ~AssertionAccepted(d, a)
    BY <1>3, <2>2 DEF CompleteWebAuthnAuth, IInv, OtpsAreFresh
  <2> QED BY <2>1, <2>2
<1>4. ASSUME NEW u \in User, NEW d \in Device, CompleteAuthentication(u, d) PROVE OtpsAreFresh'
  <2>1. /\ otp' = [otp EXCEPT ![u] = None] /\ otp[u].id # 0
        /\ sessions' = sessions \cup {Token(otp[u].id, 0, u, d)}
        /\ UNCHANGED <<proofs, revoked>>
    BY <1>4 DEF CompleteAuthentication, Spend, ghosts
  <2>2. \A v \in User : otp'[v] = IF v = u THEN None ELSE otp[v]
    BY <2>1 DEF IInv, Typed
  <2>3. \A v \in User \ {u} : otp[v].id # 0 => otp[v].id # otp[u].id
    BY <2>1 DEF IInv, OtpsAreFresh, OtpsAreNumbered
  <2> QED BY <2>1, <2>2, <2>3 DEF IInv, OtpsAreFresh, None, Token
<1>5. ASSUME NEW d \in Device, RevokeAllForDevice(d) PROVE OtpsAreFresh'
  BY <1>5 DEF IInv, OtpsAreFresh, Typed, RevokeAllForDevice, Revoke, loginVars, timers
<1>6. ASSUME NEW u \in User, DropExpiredOtp(u) PROVE OtpsAreFresh'
  BY <1>6 DEF IInv, OtpsAreFresh, Typed, DropExpiredOtp, timers, ghosts, None
<1>7. ASSUME NEW s \in sessions, RotateToken(s) PROVE OtpsAreFresh'
  <2>1. UNCHANGED <<otp, proofs, revoked>>
    BY <1>7 DEF RotateToken, loginVars, ghosts
  <2>2. \A t \in sessions' : \E r \in sessions : r.login = t.login
    BY <1>7, TokensDescend DEF Renewed, Token
  <2> QED BY <2>1, <2>2 DEF IInv, OtpsAreFresh
<1>8. ASSUME NEW s \in sessions, RevokeSession(s) PROVE OtpsAreFresh'
  BY <1>8 DEF IInv, OtpsAreFresh, Typed, RevokeSession, Revoke, loginVars, timers
<1>9. ASSUME RotateExpiringSessions PROVE OtpsAreFresh'
  <2>1. UNCHANGED <<otp, proofs, revoked>>
    BY <1>9 DEF RotateExpiringSessions, loginVars, ghosts
  <2>2. \A t \in sessions' : \E r \in sessions : r.login = t.login
    BY <1>9, TokensDescend DEF Renewed, Token
  <2> QED BY <2>1, <2>2 DEF IInv, OtpsAreFresh
<1>10. ASSUME CleanupExpiredSessions PROVE OtpsAreFresh'
  BY <1>10 DEF IInv, OtpsAreFresh, Typed, CleanupExpiredSessions, loginVars, ghosts
<1>11. ASSUME Tick PROVE OtpsAreFresh'
  BY <1>11 DEF IInv, OtpsAreFresh, Typed, Tick, loginVars, ghosts
<1>12. ASSUME UNCHANGED vars PROVE OtpsAreFresh'
  BY <1>12 DEF IInv, OtpsAreFresh, Typed, vars, loginVars, timers, ghosts
<1> QED
  BY <1>1, <1>2, <1>3, <1>4, <1>5, <1>6, <1>7, <1>8, <1>9, <1>10, <1>11, <1>12 DEF Next

LEMMA RevokedWereProvedStep == IInv /\ [Next]_vars => RevokedWereProved'
<1> SUFFICES ASSUME IInv, [Next]_vars PROVE RevokedWereProved'
  OBVIOUS
<1>1. ASSUME NEW d \in Device, NEW u \in User, NEW cred \in Credential,
            NEW c \in 0..MaxSignCount, RegisterDevice(d, u, cred, c)
      PROVE  RevokedWereProved'
  BY <1>1 DEF IInv, RevokedWereProved, RegisterDevice, timers
<1>2. ASSUME NEW d \in Device, BeginWebAuthnAuth(d) PROVE RevokedWereProved'
  BY <1>2 DEF IInv, RevokedWereProved, BeginWebAuthnAuth, timers
<1>3. ASSUME NEW d \in Device, NEW a \in Assertion, NEW delivered \in BOOLEAN,
            CompleteWebAuthnAuth(d, a, delivered)
      PROVE  RevokedWereProved'
  BY <1>3 DEF IInv, RevokedWereProved, CompleteWebAuthnAuth, timers
<1>4. ASSUME NEW u \in User, NEW d \in Device, CompleteAuthentication(u, d)
      PROVE  RevokedWereProved'
  BY <1>4 DEF IInv, RevokedWereProved, CompleteAuthentication, timers, ghosts
<1>5. ASSUME NEW d \in Device, RevokeAllForDevice(d) PROVE RevokedWereProved'
  BY <1>5 DEF IInv, RevokedWereProved, RevokeAllForDevice, Revoke, loginVars, timers,
        OneTokenPerLogin
<1>6. ASSUME NEW u \in User, DropExpiredOtp(u) PROVE RevokedWereProved'
  BY <1>6 DEF IInv, RevokedWereProved, DropExpiredOtp, timers, ghosts
<1>7. ASSUME NEW s \in sessions, RotateToken(s) PROVE RevokedWereProved'
  BY <1>7 DEF IInv, RevokedWereProved, RotateToken, loginVars, timers, ghosts
<1>8. ASSUME NEW s \in sessions, RevokeSession(s) PROVE RevokedWereProved'
  BY <1>8 DEF IInv, RevokedWereProved, RevokeSession, Revoke, loginVars, timers,
        OneTokenPerLogin
<1>9. ASSUME RotateExpiringSessions PROVE RevokedWereProved'
  BY <1>9 DEF IInv, RevokedWereProved, RotateExpiringSessions, loginVars, ghosts
<1>10. ASSUME CleanupExpiredSessions PROVE RevokedWereProved'
  BY <1>10 DEF IInv, RevokedWereProved, CleanupExpiredSessions, loginVars, ghosts
<1>11. ASSUME Tick PROVE RevokedWereProved'
  BY <1>11 DEF IInv, RevokedWereProved, Tick, loginVars, ghosts
<1>12. ASSUME UNCHANGED vars PROVE RevokedWereProved'
  BY <1>12 DEF IInv, RevokedWereProved, vars, loginVars, timers, ghosts
<1> QED
  BY <1>1, <1>2, <1>3, <1>4, <1>5, <1>6, <1>7, <1>8, <1>9, <1>10, <1>11, <1>12 DEF Next

LEMMA ProofsAreFreshStep == IInv /\ [Next]_vars => ProofsAreFresh'
<1> SUFFICES ASSUME IInv, [Next]_vars PROVE ProofsAreFresh'
  OBVIOUS
<1>1. ASSUME NEW d \in Device, NEW u \in User, NEW cred \in Credential,
            NEW c \in 0..MaxSignCount, RegisterDevice(d, u, cred, c)
      PROVE  ProofsAreFresh'
  BY <1>1 DEF IInv, ProofsAreFresh, RegisterDevice, timers
<1>2. ASSUME NEW d \in Device, BeginWebAuthnAuth(d) PROVE ProofsAreFresh'
  BY <1>2 DEF IInv, ProofsAreFresh, BeginWebAuthnAuth, timers
<1>3. ASSUME NEW d \in Device, NEW a \in Assertion, NEW delivered \in BOOLEAN,
            CompleteWebAuthnAuth(d, a, delivered)
      PROVE  ProofsAreFresh'
  <2>1. CASE AssertionAccepted(d, a)
    <3>1. PICK p \in Proof : Adds(d, a, p)
      BY <1>3, <2>1, NewProof
    <3>2. \A q \in proofs : q.chal # p.chal
      BY <3>1 DEF Adds, IInv, PendingIsUnused
    <3>3. registered[d] \in Registration
      <4>1. IsRegistered(d)
        BY <1>3 DEF CompleteWebAuthnAuth
      <4> QED BY <4>1 DEF IInv, Typed, IsRegistered
    <3>4. ASSUME NEW q \in proofs, q.reg = p.reg PROVE q.signCount # p.signCount \/ p.signCount = 0
      <4>1. q.signCount <= registered[d].signCount
        BY <3>1, <3>4 DEF Adds, IInv, CountersLead
      <4>2. /\ a.signCount \in Nat /\ registered[d].signCount \in Nat /\ q.signCount \in Nat
        BY <3>3, SessionAssumption DEF Assertion, Registration, IInv, Typed, Proof
      <4>3. a.signCount > registered[d].signCount \/ a.signCount = 0
        BY <2>1 DEF AssertionAccepted, CounterAccepted
      <4> QED BY <3>1, <4>1, <4>2, <4>3 DEF Adds
    <3> QED BY <3>1, <3>2, <3>4 DEF Adds, IInv, ProofsAreFresh
  <2>2. CASE ~AssertionAccepted(d, a)
    BY <1>3, <2>2 DEF CompleteWebAuthnAuth, IInv, ProofsAreFresh
  <2> QED BY <2>1, <2>2
<1>4. ASSUME NEW u \in User, NEW d \in Device, CompleteAuthentication(u, d) PROVE ProofsAreFresh'
  BY <1>4 DEF IInv, ProofsAreFresh, CompleteAuthentication, timers, ghosts
<1>5. ASSUME NEW d \in Device, RevokeAllForDevice(d) PROVE ProofsAreFresh'
  BY <1>5 DEF IInv, ProofsAreFresh, RevokeAllForDevice, Revoke, loginVars, timers
<1>6. ASSUME NEW u \in User, DropExpiredOtp(u) PROVE ProofsAreFresh'
  BY <1>6 DEF IInv, ProofsAreFresh, DropExpiredOtp, timers, ghosts
<1>7. ASSUME NEW s \in sessions, RotateToken(s) PROVE ProofsAreFresh'
  BY <1>7 DEF IInv, ProofsAreFresh, RotateToken, loginVars, timers, ghosts
<1>8. ASSUME NEW s \in sessions, RevokeSession(s) PROVE ProofsAreFresh'
  BY <1>8 DEF IInv, ProofsAreFresh, RevokeSession, Revoke, loginVars, timers
<1>9. ASSUME RotateExpiringSessions PROVE ProofsAreFresh'
  BY <1>9 DEF IInv, ProofsAreFresh, RotateExpiringSessions, loginVars, ghosts
<1>10. ASSUME CleanupExpiredSessions PROVE ProofsAreFresh'
  BY <1>10 DEF IInv, ProofsAreFresh, CleanupExpiredSessions, loginVars, ghosts
<1>11. ASSUME Tick PROVE ProofsAreFresh'
  BY <1>11 DEF IInv, ProofsAreFresh, Tick, loginVars, ghosts
<1>12. ASSUME UNCHANGED vars PROVE ProofsAreFresh'
  BY <1>12 DEF IInv, ProofsAreFresh, vars, loginVars, timers, ghosts
<1> QED
  BY <1>1, <1>2, <1>3, <1>4, <1>5, <1>6, <1>7, <1>8, <1>9, <1>10, <1>11, <1>12 DEF Next

LEMMA OneTokenPerLoginStep == IInv /\ [Next]_vars => OneTokenPerLogin'
<1> SUFFICES ASSUME IInv, [Next]_vars PROVE OneTokenPerLogin'
  OBVIOUS
<1>1. ASSUME NEW d \in Device, NEW u \in User, NEW cred \in Credential,
            NEW c \in 0..MaxSignCount, RegisterDevice(d, u, cred, c)
      PROVE  OneTokenPerLogin'
  BY <1>1 DEF IInv, OneTokenPerLogin, RegisterDevice, timers
<1>2. ASSUME NEW d \in Device, BeginWebAuthnAuth(d) PROVE OneTokenPerLogin'
  BY <1>2 DEF IInv, OneTokenPerLogin, BeginWebAuthnAuth, timers
<1>3. ASSUME NEW d \in Device, NEW a \in Assertion, NEW delivered \in BOOLEAN,
            CompleteWebAuthnAuth(d, a, delivered)
      PROVE  OneTokenPerLogin'
  <2>1. UNCHANGED sessions /\ proofs \subseteq proofs'
    BY <1>3 DEF CompleteWebAuthnAuth
  <2> QED BY <2>1 DEF IInv, OneTokenPerLogin
<1>4. ASSUME NEW u \in User, NEW d \in Device, CompleteAuthentication(u, d) PROVE OneTokenPerLogin'
  BY <1>4 DEF IInv, OneTokenPerLogin, CompleteAuthentication, timers, ghosts, Token,
        OtpsAreFresh
<1>5. ASSUME NEW d \in Device, RevokeAllForDevice(d) PROVE OneTokenPerLogin'
  BY <1>5 DEF IInv, OneTokenPerLogin, RevokeAllForDevice, Revoke, loginVars, timers
<1>6. ASSUME NEW u \in User, DropExpiredOtp(u) PROVE OneTokenPerLogin'
  BY <1>6 DEF IInv, OneTokenPerLogin, DropExpiredOtp, timers, ghosts
<1>7. ASSUME NEW s \in sessions, RotateToken(s) PROVE OneTokenPerLogin'
  <2>1. UNCHANGED proofs
    BY <1>7 DEF RotateToken, ghosts
  <2> QED BY <1>7, <2>1, TokensDescend DEF IInv, OneTokenPerLogin, Renewed, Token
<1>8. ASSUME NEW s \in sessions, RevokeSession(s) PROVE OneTokenPerLogin'
  BY <1>8 DEF IInv, OneTokenPerLogin, RevokeSession, Revoke, loginVars, timers
<1>9. ASSUME RotateExpiringSessions PROVE OneTokenPerLogin'
  <2>1. UNCHANGED proofs
    BY <1>9 DEF RotateExpiringSessions, ghosts
  <2> QED BY <1>9, <2>1, TokensDescend DEF IInv, OneTokenPerLogin, Renewed, Token
<1>10. ASSUME CleanupExpiredSessions PROVE OneTokenPerLogin'
  BY <1>10 DEF IInv, OneTokenPerLogin, CleanupExpiredSessions, loginVars, ghosts
<1>11. ASSUME Tick PROVE OneTokenPerLogin'
  BY <1>11 DEF IInv, OneTokenPerLogin, Tick, loginVars, ghosts
<1>12. ASSUME UNCHANGED vars PROVE OneTokenPerLogin'
  BY <1>12 DEF IInv, OneTokenPerLogin, vars, loginVars, timers, ghosts
<1> QED
  BY <1>1, <1>2, <1>3, <1>4, <1>5, <1>6, <1>7, <1>8, <1>9, <1>10, <1>11, <1>12 DEF Next

LEMMA RevokedStaysRevokedStep == IInv /\ [Next]_vars => RevokedStaysRevoked'
<1> SUFFICES ASSUME IInv, [Next]_vars PROVE RevokedStaysRevoked'
  OBVIOUS
<1>1. ASSUME NEW d \in Device, NEW u \in User, NEW cred \in Credential,
            NEW c \in 0..MaxSignCount, RegisterDevice(d, u, cred, c)
      PROVE  RevokedStaysRevoked'
  BY <1>1 DEF IInv, RevokedStaysRevoked, RegisterDevice, timers
<1>2. ASSUME NEW d \in Device, BeginWebAuthnAuth(d) PROVE RevokedStaysRevoked'
  BY <1>2 DEF IInv, RevokedStaysRevoked, BeginWebAuthnAuth, timers
<1>3. ASSUME NEW d \in Device, NEW a \in Assertion, NEW delivered \in BOOLEAN,
            CompleteWebAuthnAuth(d, a, delivered)
      PROVE  RevokedStaysRevoked'
  BY <1>3 DEF IInv, RevokedStaysRevoked, CompleteWebAuthnAuth, timers
<1>4. ASSUME NEW u \in User, NEW d \in Device, CompleteAuthentication(u, d)
      PROVE  RevokedStaysRevoked'
  BY <1>4 DEF IInv, RevokedStaysRevoked, CompleteAuthentication, timers, ghosts, Token,
        OtpsAreFresh
<1>5. ASSUME NEW d \in Device, RevokeAllForDevice(d) PROVE RevokedStaysRevoked'
  BY <1>5 DEF IInv, RevokedStaysRevoked, RevokeAllForDevice, Revoke, loginVars, timers,
        OneTokenPerLogin
<1>6. ASSUME NEW u \in User, DropExpiredOtp(u) PROVE RevokedStaysRevoked'
  BY <1>6 DEF IInv, RevokedStaysRevoked, DropExpiredOtp, timers, ghosts
<1>7. ASSUME NEW s \in sessions, RotateToken(s) PROVE RevokedStaysRevoked'
  <2>1. UNCHANGED revoked
    BY <1>7 DEF RotateToken, ghosts
  <2> QED BY <1>7, <2>1, TokensDescend DEF IInv, RevokedStaysRevoked, Renewed, Token
<1>8. ASSUME NEW s \in sessions, RevokeSession(s) PROVE RevokedStaysRevoked'
  BY <1>8 DEF IInv, RevokedStaysRevoked, RevokeSession, Revoke, loginVars, timers,
        OneTokenPerLogin
<1>9. ASSUME RotateExpiringSessions PROVE RevokedStaysRevoked'
  <2>1. UNCHANGED revoked
    BY <1>9 DEF RotateExpiringSessions, ghosts
  <2> QED BY <1>9, <2>1, TokensDescend DEF IInv, RevokedStaysRevoked, Renewed, Token
<1>10. ASSUME CleanupExpiredSessions PROVE RevokedStaysRevoked'
  BY <1>10 DEF IInv, RevokedStaysRevoked, CleanupExpiredSessions, loginVars, ghosts
<1>11. ASSUME Tick PROVE RevokedStaysRevoked'
  BY <1>11 DEF IInv, RevokedStaysRevoked, Tick, loginVars, ghosts
<1>12. ASSUME UNCHANGED vars PROVE RevokedStaysRevoked'
  BY <1>12 DEF IInv, RevokedStaysRevoked, vars, loginVars, timers, ghosts
<1> QED
  BY <1>1, <1>2, <1>3, <1>4, <1>5, <1>6, <1>7, <1>8, <1>9, <1>10, <1>11, <1>12 DEF Next

(* The ages compare as numbers do.                                         *)
LEMMA AgesAreNumbers ==
    ASSUME IInv
    PROVE  /\ clock \in Nat /\ RotationInterval \in Nat \ {0} /\ TokenTTL \in Nat
           /\ clock % RotationInterval \in 0..(RotationInterval - 1)
           /\ (clock + 1) % RotationInterval = IF clock % RotationInterval = RotationInterval - 1
                                               THEN 0 ELSE (clock % RotationInterval) + 1
           /\ Grace \in 0..RotationInterval
           /\ \A s \in sessions : s.rotatedAt \in Nat
<1>1. /\ clock \in Nat /\ RotationInterval \in Nat \ {0} /\ TokenTTL \in Nat
      /\ \A s \in sessions : s.rotatedAt \in Nat
  BY SessionAssumption DEF IInv, Typed, SessionToken
<1>2. /\ clock % RotationInterval \in 0..(RotationInterval - 1)
      /\ (clock + 1) % RotationInterval = IF clock % RotationInterval = RotationInterval - 1
                                          THEN 0 ELSE (clock % RotationInterval) + 1
  BY <1>1, NextRemainder
<1> DEFINE r == clock % RotationInterval
<1>3. r \in 0..(RotationInterval - 1)
  BY <1>2
<1> HIDE DEF r
<1>4. (IF rotationDue THEN RotationInterval ELSE r) \in 0..RotationInterval
  BY <1>1, <1>3
<1>5. Grace \in 0..RotationInterval
  BY <1>4 DEF Grace, r
<1> QED BY <1>1, <1>2, <1>5

LEMMA SweepsKeepUpStep == IInv /\ [Next]_vars => SweepsKeepUp'
<1> SUFFICES ASSUME IInv, [Next]_vars PROVE SweepsKeepUp'
  OBVIOUS
<1>1. ASSUME NEW d \in Device, NEW u \in User, NEW cred \in Credential,
            NEW c \in 0..MaxSignCount, RegisterDevice(d, u, cred, c)
      PROVE  SweepsKeepUp'
  BY <1>1 DEF IInv, SweepsKeepUp, Grace, RegisterDevice, timers
<1>2. ASSUME NEW d \in Device, BeginWebAuthnAuth(d) PROVE SweepsKeepUp'
  BY <1>2 DEF IInv, SweepsKeepUp, Grace, BeginWebAuthnAuth, timers
<1>3. ASSUME NEW d \in Device, NEW a \in Assertion, NEW delivered \in BOOLEAN,
            CompleteWebAuthnAuth(d, a, delivered)
      PROVE  SweepsKeepUp'
  BY <1>3 DEF IInv, SweepsKeepUp, Grace, CompleteWebAuthnAuth, timers
<1>4. ASSUME NEW u \in User, NEW d \in Device, CompleteAuthentication(u, d) PROVE SweepsKeepUp'
  <2>1. /\ UNCHANGED <<clock, rotationDue>>
        /\ sessions' = sessions \cup {Token(otp[u].id, 0, u, d)}
    BY <1>4 DEF CompleteAuthentication, timers
  <2>2. Prompt => clock - clock < RotationInterval + Grace
    BY AgesAreNumbers
  <2> QED BY <2>1, <2>2 DEF IInv, SweepsKeepUp, Grace, Token
<1>5. ASSUME NEW d \in Device, RevokeAllForDevice(d) PROVE SweepsKeepUp'
  BY <1>5 DEF IInv, SweepsKeepUp, Grace, RevokeAllForDevice, Revoke, loginVars, timers
<1>6. ASSUME NEW u \in User, DropExpiredOtp(u) PROVE SweepsKeepUp'
  BY <1>6 DEF IInv, SweepsKeepUp, Grace, DropExpiredOtp, timers, ghosts
<1>7. ASSUME NEW s \in sessions, RotateToken(s) PROVE SweepsKeepUp'
  <2>1. UNCHANGED <<clock, rotationDue>>
    BY <1>7 DEF RotateToken, timers
  <2>2. \A t \in sessions' : \E r \in sessions : t = r \/ t = Renewed(r)
    BY <1>7, TokensDescend
  <2>3. Prompt => clock - clock < RotationInterval + Grace
    BY AgesAreNumbers
  <2> QED BY <2>1, <2>2, <2>3 DEF IInv, SweepsKeepUp, Grace, Renewed, Token
<1>8. ASSUME NEW s \in sessions, RevokeSession(s) PROVE SweepsKeepUp'
  BY <1>8 DEF IInv, SweepsKeepUp, Grace, RevokeSession, Revoke, loginVars, timers
<1>9. ASSUME RotateExpiringSessions PROVE SweepsKeepUp'
  <2>1. /\ rotationDue /\ ~rotationDue' /\ UNCHANGED clock
        /\ \A t \in sessions' : \/ t \in sessions /\ ~(clock - t.rotatedAt >= RotationInterval)
                                \/ \E r \in sessions : t = Renewed(r)
    BY <1>9 DEF RotateExpiringSessions
  <2>2. clock % RotationInterval \in Nat /\ clock - clock = 0
    BY AgesAreNumbers
  <2>3. ASSUME NEW t \in sessions', Prompt
        PROVE  clock - t.rotatedAt < RotationInterval + (clock % RotationInterval)
    <3>1. CASE t \in sessions /\ ~(clock - t.rotatedAt >= RotationInterval)
      BY <2>2, <3>1, AgesAreNumbers
    <3>2. CASE \E r \in sessions : t = Renewed(r)
      BY <2>2, <3>2, AgesAreNumbers DEF Renewed, Token
    <3> QED BY <2>1, <2>3, <3>1, <3>2
  <2>4. \A t \in sessions' : t.expires = t.rotatedAt + TokenTTL
    BY <2>1 DEF IInv, SweepsKeepUp, Renewed, Token
  <2> QED BY <2>1, <2>3, <2>4 DEF SweepsKeepUp, Grace
<1>10. ASSUME CleanupExpiredSessions PROVE SweepsKeepUp'
  BY <1>10 DEF IInv, SweepsKeepUp, Grace, CleanupExpiredSessions, loginVars, ghosts
<1>11. ASSUME Tick PROVE SweepsKeepUp'
  <2>1. /\ clock' = clock + 1 /\ UNCHANGED sessions
        /\ Prompt => ~rotationDue
        /\ rotationDue' = (rotationDue \/ clock' % RotationInterval = 0)
    BY <1>11 DEF Tick
  <2>2. Prompt => \A s \in sessions : clock - s.rotatedAt
                                        < RotationInterval + (clock % RotationInterval)
    BY <2>1 DEF IInv, SweepsKeepUp, Grace
  <2>3. /\ (clock + 1) % RotationInterval = IF clock % RotationInterval = RotationInterval - 1
                                            THEN 0 ELSE (clock % RotationInterval) + 1
        /\ clock % RotationInterval \in 0..(RotationInterval - 1)
    BY AgesAreNumbers
  <2>4. Prompt => Grace' = (clock % RotationInterval) + 1
    <3>1. Grace' = IF rotationDue' THEN RotationInterval ELSE (clock + 1) % RotationInterval
      BY <2>1 DEF Grace
    <3>2. Prompt => (rotationDue' <=> (clock + 1) % RotationInterval = 0)
      BY <2>1, Zenon
    <3> QED BY <2>3, <3>1, <3>2, AgesAreNumbers
  <2>5. Prompt => \A s \in sessions : clock' - s.rotatedAt < RotationInterval + Grace'
    BY <2>1, <2>2, <2>3, <2>4, AgesAreNumbers
  <2>6. \A s \in sessions : s.expires = s.rotatedAt + TokenTTL
    BY DEF IInv, SweepsKeepUp
  <2>7. (Prompt /\ rotationDue => clock % RotationInterval = 0)'
    BY <2>1
  <2> QED BY <2>1, <2>5, <2>6, <2>7 DEF SweepsKeepUp
<1>12. ASSUME UNCHANGED vars PROVE SweepsKeepUp'
  BY <1>12 DEF IInv, SweepsKeepUp, Grace, vars, loginVars, timers, ghosts
<1> QED
  BY <1>1, <1>2, <1>3, <1>4, <1>5, <1>6, <1>7, <1>8, <1>9, <1>10, <1>11, <1>12 DEF Next

-----------------------------------------------------------------------------
(* Together: IInv holds initially and is preserved.                        *)
LEMMA InitIInv == Init => IInv
<1> SUFFICES ASSUME Init PROVE IInv
  OBVIOUS
<1>1. Typed
  <2>1. /\ {MaxTime, ChallengeTTL, OtpTTL, MaxRegistrations, MaxCeremonies} \subseteq Nat
        /\ \A n \in Nat : 0 \in 0..n
    BY SessionAssumption
  <2>2. None \in Pending(MaxCeremonies)
    BY <2>1 DEF None, Pending
  <2>3. issued \in [regs : 0..MaxRegistrations, challenges : 0..MaxCeremonies]
    BY <2>1 DEF Init
  <2> QED BY <2>1, <2>2, <2>3, FS_EmptySet DEF Init, Typed
<1>2. PendingIsUnused /\ CountersLead /\ OtpsAreNumbered /\ OtpsAreFresh /\ RevokedWereProved
  BY DEF Init, None, PendingIsUnused, CountersLead, IsRegistered, OtpsAreNumbered, OtpsAreFresh,
         RevokedWereProved
<1>3. SweepsKeepUp /\ ProofsAreFresh /\ OneTokenPerLogin /\ RevokedStaysRevoked
  BY DEF Init, SweepsKeepUp, ProofsAreFresh, OneTokenPerLogin, RevokedStaysRevoked
<1> QED BY <1>1, <1>2, <1>3 DEF IInv

LEMMA StepIInv == IInv /\ [Next]_vars => IInv'
BY TypedStep, PendingIsUnusedStep, CountersLeadStep, OtpsAreNumberedStep, OtpsAreFreshStep,
   RevokedWereProvedStep, SweepsKeepUpStep, ProofsAreFreshStep, OneTokenPerLoginStep,
   RevokedStaysRevokedStep DEF IInv

LEMMA Invariance == Spec => []IInv
BY InitIInv, StepIInv, PTL DEF Spec

(* The session manager keeps its types, whatever is registered, presented, *)
(* rotated and revoked.                                                    *)
THEOREM TypeCorrect == Spec => []TypeOK
<1>1. IInv => TypeOK
  BY SessionAssumption DEF IInv, Typed, TypeOK, IsRegistered, Registration, SessionToken
<1> QED BY Invariance, <1>1, PTL

(* No challenge, and within a registration no counter value, leads to two  *)
(* OTPs (CompleteWebAuthnAuth, verifyAssertion).                           *)
THEOREM ProofsAreUsedOnce == Spec => []ProofsAreFresh
BY Invariance, PTL DEF IInv

(* A login has one token at most, of the user who proved possession, under *)
(* any interleaving of holders and sweeps (RotateToken,                    *)
(* rotateExpiringSessions).                                                *)
THEOREM LoginsHaveOneToken == Spec => []OneTokenPerLogin
BY Invariance, PTL DEF IInv

(* A login that was revoked has no token again (RevokeSession,             *)
(* RevokeAllForDevice).                                                    *)
THEOREM RevocationIsFinal == Spec => []RevokedStaysRevoked
BY Invariance, PTL DEF IInv

(* If sweeps are prompt, and a token outlives two rotation intervals, no   *)
(* active token is past its expiry (rotateExpiringSessions).               *)
THEOREM SweepsOutrunExpiry == Spec => []RotationOutrunsExpiry
<1>1. ASSUME IInv PROVE RotationOutrunsExpiry
  <2> SUFFICES ASSUME Prompt, NEW s \in sessions PROVE ~(clock > s.expires)
    BY DEF RotationOutrunsExpiry, Expired
  <2>1. Grace <= RotationInterval
    BY <1>1, AgesAreNumbers
  <2>2. /\ clock - s.rotatedAt < RotationInterval + Grace
        /\ s.expires = s.rotatedAt + TokenTTL
    BY <1>1 DEF IInv, SweepsKeepUp
  <2> QED BY <1>1, <2>1, <2>2, AgesAreNumbers, SessionAssumption
<1> QED BY Invariance, <1>1, PTL

===============================================================================
