------------------------------- MODULE Sessions -------------------------------
(***************************************************************************)
(* The session manager (auth/session.go, webauthn.go, otp.go): a login is  *)
(* a WebAuthn ceremony, then an OTP sent to the device's user, then a      *)
(* token bound to a device; tokens are rotated by their holder or by an    *)
(* hourly sweep, revoked, and cleaned up.  Every method holds sm.mu, so    *)
(* each is one action.  Refusals that change nothing have no step.         *)
(***************************************************************************)
EXTENDS Naturals, FiniteSets

CONSTANTS Device, User, Credential,
          ChallengeTTL, OtpTTL, TokenTTL, RotationInterval, CleanupInterval,
          Prompt,           \* TRUE iff a due sweep runs before the clock moves on
          MaxTime,          \* bound: the clock
          MaxRegistrations, \* bound: RegisterDevice calls
          MaxCeremonies,    \* bound: BeginWebAuthnAuth calls
          MaxSignCount,     \* bound: signature counters
          MaxRotations      \* bound: rotations of one session by its holder

ASSUME SessionAssumption ==
    /\ ChallengeTTL \in Nat /\ OtpTTL \in Nat /\ TokenTTL \in Nat
    /\ RotationInterval \in Nat \ {0} /\ CleanupInterval \in Nat \ {0}
    /\ 2 * RotationInterval <= TokenTTL
    /\ Prompt \in BOOLEAN
    /\ {MaxTime, MaxRegistrations, MaxCeremonies, MaxSignCount, MaxRotations} \subseteq Nat

VARIABLES
    clock,
    registered,  \* registeredDevices and deviceToUser; reg = 0: not registered
    challenge,   \* pendingWebAuthn; id = 0: none
    otp,         \* pendingOTPs; id = 0: none
    sessions,    \* activeSessions; a token is named by its login and its generation
    rotationDue, \* the rotation ticker has fired
    cleanupDue,  \* the cleanup ticker has fired
    issued,      \* ghost: [regs, challenges] handed out
    proofs,      \* ghost: the ceremonies that led to an OTP
    revoked      \* ghost: logins whose session was revoked

loginVars == <<registered, challenge, otp>>
timers    == <<rotationDue, cleanupDue>>
ghosts    == <<issued, proofs, revoked>>
vars      == <<clock, loginVars, sessions, timers, ghosts>>

None == [id |-> 0, expires |-> 0]

Init ==
    /\ clock = 0
    /\ registered = [d \in Device |-> [reg |-> 0]]
    /\ challenge = [d \in Device |-> None]
    /\ otp = [u \in User |-> None]
    /\ sessions = {}
    /\ rotationDue = FALSE /\ cleanupDue = FALSE
    /\ issued = [regs |-> 0, challenges |-> 0] /\ proofs = {} /\ revoked = {}

IsRegistered(d) == registered[d].reg # 0

-----------------------------------------------------------------------------
(* Registration and login.                                                 *)

\* A second registration replaces user, credential and counter, which starts at c, the one
\* the attestation carries; pending challenges and the device's sessions stay.
RegisterDevice(d, u, cred, c) ==
    /\ issued.regs < MaxRegistrations
    /\ issued' = [issued EXCEPT !.regs = @ + 1]
    /\ registered' = [registered EXCEPT ![d] =
                        [reg |-> issued.regs + 1, user |-> u, cred |-> cred, signCount |-> c]]
    /\ UNCHANGED <<clock, challenge, otp, sessions, timers, proofs, revoked>>

BeginWebAuthnAuth(d) ==
    /\ IsRegistered(d)
    /\ issued.challenges < MaxCeremonies
    /\ issued' = [issued EXCEPT !.challenges = @ + 1]
    /\ challenge' = [challenge EXCEPT ![d] = [id      |-> issued.challenges + 1,
                                              expires |-> clock + ChallengeTTL]]
    /\ UNCHANGED <<clock, registered, otp, sessions, timers, proofs, revoked>>

\* The counter must increase; an authenticator without one reports 0 forever.
CounterAccepted(old, new) == new > old \/ (old = 0 /\ new = 0)

\* What CompleteWebAuthnAuth asks of an assertion [cred, chal, signCount].
AssertionAccepted(d, a) ==
    /\ clock <= challenge[d].expires
    /\ a.cred = registered[d].cred
    /\ a.chal = challenge[d].id
    /\ CounterAccepted(registered[d].signCount, a.signCount)

\* Slip: the challenge is kept for another try.
ConsumeLater(d) == challenge

\* The challenge is deleted before anything about it is checked.
Consume(d) == [challenge EXCEPT ![d] = None]

CompleteWebAuthnAuth(d, a, delivered) ==
    /\ IsRegistered(d) /\ challenge[d].id # 0
    /\ challenge' = Consume(d)
    /\ IF AssertionAccepted(d, a)
       THEN LET u  == registered[d].user
                id == Cardinality(proofs) + 1
            IN  /\ registered' = [registered EXCEPT ![d].signCount = a.signCount]
                /\ otp' = [otp EXCEPT ![u] = IF delivered THEN [id      |-> id,
                                                                expires |-> clock + OtpTTL]
                                             ELSE None]
                /\ proofs' = proofs \cup {[otp |-> id, chal |-> a.chal, user |-> u,
                                           reg |-> registered[d].reg,
                                           signCount |-> a.signCount]}
       ELSE UNCHANGED <<registered, otp, proofs>>
    /\ UNCHANGED <<clock, sessions, timers, issued, revoked>>

\* Slip: the two timestamps swapped.
TokenSwapped(login, gen, u, d) ==
    [login |-> login, gen |-> gen, user |-> u, device |-> d,
     expires |-> clock, rotatedAt |-> clock + TokenTTL]

Token(login, gen, u, d) ==
    [login |-> login, gen |-> gen, user |-> u, device |-> d,
     expires |-> clock + TokenTTL, rotatedAt |-> clock]

\* Slip: the OTP stays valid until it expires.
SpendNothing(u) == otp

Spend(u) == [otp EXCEPT ![u] = None]

\* CompleteAuthentication with the right code, for any registered device of the user.
CompleteAuthentication(u, d) ==
    /\ otp[u].id # 0 /\ clock <= otp[u].expires
    /\ IsRegistered(d) /\ registered[d].user = u
    /\ otp' = Spend(u)
    /\ sessions' = sessions \cup {Token(otp[u].id, 0, u, d)}
    /\ UNCHANGED <<clock, registered, challenge, timers, ghosts>>

\* CompleteAuthentication once the OTP has expired.
DropExpiredOtp(u) ==
    /\ otp[u].id # 0 /\ clock > otp[u].expires
    /\ otp' = [otp EXCEPT ![u] = None]
    /\ UNCHANGED <<clock, registered, challenge, sessions, timers, ghosts>>

-----------------------------------------------------------------------------
(* Rotation, revocation, cleanup.                                          *)

Expired(s) == clock > s.expires

\* Slip: the new token inherits the old one's expiry as well as its bindings.
RenewedWithOldExpiry(s) ==
    [Token(s.login, s.gen + 1, s.user, s.device) EXCEPT !.expires = s.expires]

Renewed(s) == Token(s.login, s.gen + 1, s.user, s.device)

\* Slip: the old token is not revoked.
RotateTokenKeepsOld(s) ==
    /\ s.gen < MaxRotations
    /\ sessions' = IF Expired(s) THEN sessions \ {s} ELSE sessions \cup {Renewed(s)}
    /\ UNCHANGED <<clock, loginVars, timers, ghosts>>

RotateToken(s) ==
    /\ s.gen < MaxRotations
    /\ sessions' = (sessions \ {s}) \cup (IF Expired(s) THEN {} ELSE {Renewed(s)})
    /\ UNCHANGED <<clock, loginVars, timers, ghosts>>

Revoke(S) ==
    /\ sessions' = sessions \ S
    /\ revoked' = revoked \cup {s.login : s \in S}
    /\ UNCHANGED <<clock, loginVars, timers, issued, proofs>>

\* By token id: one a rotation has replaced names no session, and nothing happens.
RevokeSession(s) == Revoke({s})

RevokeAllForDevice(d) ==
    LET S == {s \in sessions : s.device = d}
    IN  S # {} /\ Revoke(S)

\* rotateExpiringSessions: every token that has had its interval, whatever its expiry.
RotateExpiringSessions ==
    LET due == {s \in sessions : clock - s.rotatedAt >= RotationInterval}
    IN  /\ rotationDue
        /\ rotationDue' = FALSE
        /\ sessions' = (sessions \ due) \cup {Renewed(s) : s \in due}
        /\ UNCHANGED <<clock, loginVars, cleanupDue, ghosts>>

CleanupExpiredSessions ==
    /\ cleanupDue
    /\ cleanupDue' = FALSE
    /\ sessions' = {s \in sessions : ~Expired(s)}
    /\ UNCHANGED <<clock, loginVars, rotationDue, ghosts>>

Tick ==
    /\ clock < MaxTime
    /\ Prompt => ~rotationDue /\ ~cleanupDue
    /\ clock' = clock + 1
    /\ rotationDue' = (rotationDue \/ clock' % RotationInterval = 0)
    /\ cleanupDue' = (cleanupDue \/ clock' % CleanupInterval = 0)
    /\ UNCHANGED <<loginVars, sessions, ghosts>>

Assertion == [cred : Credential, chal : 1..issued.challenges, signCount : 0..MaxSignCount]

Next ==
    \/ \E d \in Device : \/ \E u \in User, cred \in Credential, c \in 0..MaxSignCount :
                               RegisterDevice(d, u, cred, c)
                         \/ BeginWebAuthnAuth(d)
                         \/ \E a \in Assertion, delivered \in BOOLEAN :
                               CompleteWebAuthnAuth(d, a, delivered)
                         \/ \E u \in User : CompleteAuthentication(u, d)
                         \/ RevokeAllForDevice(d)
    \/ \E u \in User : DropExpiredOtp(u)
    \/ \E s \in sessions : RotateToken(s) \/ RevokeSession(s)
    \/ RotateExpiringSessions \/ CleanupExpiredSessions \/ Tick

Spec == Init /\ [][Next]_vars

-----------------------------------------------------------------------------
Pending(ids) == [id : 0..ids, expires : 0..(MaxTime + ChallengeTTL + OtpTTL)]

TypeOK ==
    /\ clock \in 0..MaxTime
    /\ \A d \in Device : IsRegistered(d) =>
          registered[d] \in [reg : 1..MaxRegistrations, user : User, cred : Credential,
                             signCount : 0..MaxSignCount]
    /\ challenge \in [Device -> Pending(MaxCeremonies)]
    /\ otp \in [User -> Pending(MaxCeremonies)]
    /\ \A s \in sessions : /\ s.user \in User /\ s.device \in Device
                           /\ s.login \in 1..MaxCeremonies /\ s.gen \in Nat
                           /\ s.expires \in 0..(MaxTime + TokenTTL) /\ s.rotatedAt \in 0..clock
    /\ rotationDue \in BOOLEAN /\ cleanupDue \in BOOLEAN

(* A challenge proves possession of a device once: no two OTPs stem from   *)
(* one challenge, nor, within one registration, from one value of a        *)
(* counting authenticator's signature counter (CompleteWebAuthnAuth,       *)
(* verifyAssertion).                                                       *)
ProofsAreFresh ==
    \A p, q \in proofs : p # q =>
        /\ p.chal # q.chal
        /\ p.reg = q.reg /\ p.signCount > 0 => p.signCount # q.signCount

(* One login, one token: however the holder's rotations and the sweeps     *)
(* interleave, a login has at most one active token, and it belongs to the *)
(* user whose device opened it.                                            *)
OneTokenPerLogin ==
    \A s \in sessions : /\ \E p \in proofs : p.otp = s.login /\ p.user = s.user
                        /\ \A t \in sessions : t.login = s.login => t = s

(* A revoked login stays revoked: no rotation, sweep or second use of its  *)
(* OTP brings its token back (RevokeSession, RevokeAllForDevice).          *)
RevokedStaysRevoked == \A s \in sessions : s.login \notin revoked

(* With prompt sweeps no active token ever passes its expiry: the hourly   *)
(* rotation renews it for another 8 hours first, so that a login ends by   *)
(* revocation only and the cleanup finds nothing.                          *)
RotationOutrunsExpiry == Prompt => \A s \in sessions : ~Expired(s)
=============================================================================
