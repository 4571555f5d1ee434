CONSTANTS
    v1 = v1
    v2 = v2
    b1 = b1
    b2 = b2
    Values <- MCValues
    Blindings <- MCBlindings
    Malformed = Malformed
    None = None
    UsizeBits = 4
    PartyCap = 4
    MaxLen = 3
    MaxTamper = 2
    CallerPairsInputs = TRUE

SYMMETRY Symmetry

SPECIFICATION Spec

INVARIANT GenerateThenVerify
INVARIANT AcceptedOnlyTrailingCopies
