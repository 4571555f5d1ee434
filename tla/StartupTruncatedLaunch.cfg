\* As MobilecoindStartup.cfg, with LedgerDB::open and num_blocks succeeding
\* on a data.mdb that a kill during the bootstrap copy left truncated.
CONSTANTS
    MaxCrashes = 3
    TruncatedOpen = {"Ok"}

SPECIFICATION Spec

INVARIANT LaunchedOnlyWithOrigin

CHECK_DEADLOCK FALSE
