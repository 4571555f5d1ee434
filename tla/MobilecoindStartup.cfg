\* Every configuration, both initial ledgers, up to three kills or failed
\* calls, and LedgerDB::open on a truncated data.mdb either reporting an
\* error or succeeding with the block count of the copied prefix.
CONSTANTS
    MaxCrashes = 3
    TruncatedOpen = {"Err", "Ok"}

SPECIFICATION Spec

INVARIANT LaunchedOnlyWithBlocks
PROPERTY EventuallyLaunched

\* A launched daemon's main thread sleeps forever (main.rs lines 76-78 and
\* 83-85): a state with no further step is where the system really stops.
CHECK_DEADLOCK FALSE
