SPECIFICATION Spec
CONSTANTS
    d1 = d1  d2 = d2  u1 = u1  u2 = u2  c1 = c1  c2 = c2
    Device = {d1, d2}
    User = {u1, u2}
    Credential = {c1, c2}
    ChallengeTTL = 0
    OtpTTL = 1
    TokenTTL = 4
    RotationInterval = 2
    CleanupInterval = 1
    Prompt = TRUE
    MaxTime = 6
    MaxRegistrations = 2
    MaxCeremonies = 2
    MaxSignCount = 2
    MaxRotations = 1
SYMMETRY Symmetry
INVARIANTS TypeOK ProofsAreFresh OneTokenPerLogin RevokedStaysRevoked RotationOutrunsExpiry
CHECK_DEADLOCK FALSE
