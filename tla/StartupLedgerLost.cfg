\* As MobilecoindStartup.cfg: open or num_blocks may fail once on a ledger
\* that has blocks.
CONSTANTS
    MaxCrashes = 3
    TruncatedOpen = {"Err", "Ok"}

SPECIFICATION Spec

PROPERTY NeverLosesLedger

CHECK_DEADLOCK FALSE
