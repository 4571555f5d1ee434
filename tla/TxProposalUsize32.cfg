\* A 32-bit target scaled down: `as usize` keeps the residue modulo 2, so
\* the u64 key 2 a message may carry becomes 0.
CONSTANTS
    u1 = u1
    o1 = o1
    o2 = o2
    Utxos <- MCUtxos
    Outlays <- MCOutlays
    Malformed = Malformed
    None = None
    Fees = {0, 1}
    MaxInputs = 1
    MaxOutlays = 2
    MaxOutputs = 2
    MaxIndex = 2
    UsizeMod = 2
    MaxTamper = 2

SPECIFICATION Spec

INVARIANT AcceptedMatchesMessage
