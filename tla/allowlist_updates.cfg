SPECIFICATION Spec
CONSTANTS
    n1 = n1  n2 = n2  n3 = n3
    Nonce = {n1, n2, n3}
    Width = 2
    MaxEntries = 3
    MaxAge = 1
    MaxSkew = 1
    Grants <- MCGrants
    Removals <- MCRemovals
    Flushes = TRUE
    SignerLead = {0, 2}
    Targets <- MCTargets
    MaxTime = 2
SYMMETRY NonceSymmetry
INVARIANTS TypeOK KernelMirrorsEntries EveryEntryIsGranted OneVerdict
PROPERTIES CarveIsSurgical CarveDenies CarveIsAtomic
CHECK_DEADLOCK FALSE
