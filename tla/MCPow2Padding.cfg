CONSTANTS
    UsizeBits = 3
    Elements = {e1, e2}

SPECIFICATION Spec

INVARIANT PaddingMatchesSpec
