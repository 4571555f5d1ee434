CONSTANTS
    TxOuts = {t1}
    KeyImages = {k1}
    Addresses = {a1, a2}
    U64s = {0, 1}
    Garbage = Garbage

SPECIFICATION Spec

INVARIANT ConversionsInverse
