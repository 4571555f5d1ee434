\* A 64-bit target: `as usize` is the identity on every u64 index a
\* message carries (UsizeMod exceeds MaxIndex).
CONSTANTS
    u1 = u1
    o1 = o1
    o2 = o2
    Utxos <- MCUtxos
    Outlays <- MCOutlays
    Malformed = Malformed
    None = None
    Fees = {0, 1}
    MaxInputs = 1
    MaxOutlays = 2
    MaxOutputs = 2
    MaxIndex = 2
    UsizeMod = 3
    MaxTamper = 2

SPECIFICATION Spec

INVARIANT AcceptedWellFormed
INVARIANT EncodeDecodeRoundTrip
INVARIANT AcceptedMatchesMessage
