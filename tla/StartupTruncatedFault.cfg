\* As MobilecoindStartup.cfg, but LedgerDB::open faults on a data.mdb that a
\* crash during the bootstrap copy left truncated.
CONSTANTS
    MaxCrashes = 3
    TruncatedOpen = {"Fault"}

SPECIFICATION Spec

PROPERTY EventuallyLaunched

CHECK_DEADLOCK FALSE
