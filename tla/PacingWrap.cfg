SPECIFICATION PacingSpec
CONSTANTS
    t1 = t1
    t2 = t2
    Releasers <- MCThreads
    Modulus = 256
    QuarantineBudget = 16
    Live = 40
    Size = 8
    MaxReleases = 8
    Nobody = Nobody
SYMMETRY MCSymmetry
CHECK_DEADLOCK FALSE
PROPERTY HardBudget
