------------------------- MODULE MobilecoindStartup -------------------------
(***************************************************************************)
(* Start-up of the mobilecoind daemon (mobilecoind/src/bin/main.rs):      *)
(* create_or_open_ledger_db, then the choice between API service and       *)
(* ledger-sync-only mode.  The process may be killed at any step (or panic *)
(* on a failing file-system or network call) and is restarted by its       *)
(* supervisor with the same arguments; the ledger directory survives.      *)
(*                                                                         *)
(* The ledger's data.mdb is abstracted to what the start-up tells apart:   *)
(*   "none"      no usable ledger (absent, or an env without databases)    *)
(*   "empty"     databases created, no block (LedgerDB::create)            *)
(*   "origin"    at least the origin block                                 *)
(*   "truncated" a copy of the bootstrap ledger cut short by a crash       *)
(* LedgerDB (ledger_db crate) is not in this repository: create opens or   *)
(* creates its databases and writes a block count of zero, append_block is *)
(* one LMDB transaction, open and num_blocks may fail on any ledger (a     *)
(* failed external call), and what they do on a truncated file is given   *)
(* by TruncatedOpen: an error, a fault, or an Ok with the block count the *)
(* copied prefix holds.                                                    *)
(***************************************************************************)
EXTENDS Naturals

CONSTANTS
    MaxCrashes,     \* kills and failed external calls over a behaviour
    TruncatedOpen   \* outcomes of LedgerDB::open on a truncated data.mdb

ASSUME StartupAssumption ==
    /\ MaxCrashes \in Nat
    /\ TruncatedOpen \subseteq {"Err", "Fault", "Ok"}
    /\ TruncatedOpen # {}

VARIABLES
    config,     \* command-line arguments: bootstrap source, --db, --service-port
    file,       \* the ledger's data.mdb on disk
    pc,         \* where the daemon process is
    crashes     \* kills and failed external calls so far

vars == <<config, file, pc, crashes>>

LedgerStates == {"none", "empty", "origin", "truncated"}

(***************************************************************************)
(* config.ledger_db_bootstrap: unset, or a directory whose data.mdb holds  *)
(* a ledger with blocks, an empty ledger, or nothing (the copy fails).     *)
(***************************************************************************)
Configs == [bootstrap : {"unset", "origin", "empty", "missing"},
            db : BOOLEAN, port : BOOLEAN]

Steps == {"down", "open", "copy", "create", "download", "append", "reopen",
          "launch", "serving", "syncing"}

\* The main thread loops on sleep(poll_interval) from here on.
Launched == {"serving", "syncing"}

\* Where the code goes once the ledger is found missing or empty (line 120).
BootstrapStep(c) == IF c.bootstrap = "unset" THEN "create" ELSE "copy"

Init ==
    /\ config \in Configs
    /\ file \in {"none", "origin"}
    /\ pc = "down"
    /\ crashes = 0

\* The supervisor starts the daemon.
Restart ==
    /\ pc = "down"
    /\ pc' = "open"
    /\ UNCHANGED <<config, file, crashes>>

\* Mutation: the num_blocks > 0 check dropped; any ledger that opens is
\* returned.
OpenExistingNoBlockCheck ==
    /\ pc = "open"
    /\ \/ /\ file \in {"origin", "empty"}
          /\ pc' = "launch"
          /\ UNCHANGED crashes
       \/ /\ file = "origin"
          /\ crashes < MaxCrashes
          /\ crashes' = crashes + 1
          /\ pc' = BootstrapStep(config)
       \/ /\ file = "none"
          /\ pc' = BootstrapStep(config)
          /\ UNCHANGED crashes
       \/ /\ file = "truncated"
          /\ \E outcome \in TruncatedOpen :
                pc' = CASE outcome = "Fault" -> "down"
                      []   outcome = "Ok"    -> "launch"
                      []   OTHER             -> BootstrapStep(config)
          /\ UNCHANGED crashes
    /\ UNCHANGED <<config, file>>

(***************************************************************************)
(* Lines 101-116: open the ledger and return it if num_blocks > 0.  An Err *)
(* from open or num_blocks, or no block, falls through to bootstrapping    *)
(* (line 118), an Err on a ledger with blocks included: that is a failed   *)
(* external call and counts against MaxCrashes.  On a truncated data.mdb   *)
(* open may fault (the process goes down) or succeed, and num_blocks then  *)
(* reads the count of the copied prefix: blocks only if the bootstrap      *)
(* ledger had them.                                                        *)
(***************************************************************************)
OpenExisting ==
    /\ pc = "open"
    /\ \/ /\ file = "origin"
          /\ pc' = "launch"
          /\ UNCHANGED crashes
       \/ /\ file = "origin"
          /\ crashes < MaxCrashes
          /\ crashes' = crashes + 1
          /\ pc' = BootstrapStep(config)
       \/ /\ file \in {"none", "empty"}
          /\ pc' = BootstrapStep(config)
          /\ UNCHANGED crashes
       \/ /\ file = "truncated"
          /\ \E outcome \in TruncatedOpen :
                pc' = CASE outcome = "Fault" -> "down"
                      []   outcome = "Ok" /\ config.bootstrap = "origin"
                                             -> "launch"
                      []   OTHER             -> BootstrapStep(config)
          /\ UNCHANGED crashes
    /\ UNCHANGED <<config, file>>

(***************************************************************************)
(* Lines 129-143: create the directory if missing and copy the bootstrap   *)
(* data.mdb over the ledger's; a missing source panics.                    *)
(***************************************************************************)
CopyBootstrap ==
    /\ pc = "copy"
    /\ IF config.bootstrap = "missing"
       THEN pc' = "down" /\ UNCHANGED file
       ELSE pc' = "reopen" /\ file' = config.bootstrap
    /\ UNCHANGED <<config, crashes>>

\* Mutation: a create that fails when the databases already exist.
CreateLedgerFresh ==
    /\ pc = "create"
    /\ IF file = "none"
       THEN pc' = "download" /\ file' = "empty"
       ELSE pc' = "down" /\ UNCHANGED file
    /\ UNCHANGED <<config, crashes>>

(***************************************************************************)
(* Lines 151-152: create_dir_all, then LedgerDB::create, which opens or    *)
(* creates the databases and sets the block count to zero, whatever the    *)
(* environment held; it panics on a file that is not an LMDB environment.  *)
(***************************************************************************)
CreateLedger ==
    /\ pc = "create"
    /\ IF file \in {"none", "empty", "origin"}
       THEN pc' = "download" /\ file' = "empty"
       ELSE pc' = "down" /\ UNCHANGED file
    /\ UNCHANGED <<config, crashes>>

\* Lines 153-155: get_origin_block_and_transactions (a failure is a crash).
DownloadOrigin ==
    /\ pc = "download"
    /\ pc' = "append"
    /\ UNCHANGED <<config, file, crashes>>

\* Lines 156-159: open the new ledger and append the origin block.
AppendOrigin ==
    /\ pc = "append"
    /\ pc' = "reopen"
    /\ file' = "origin"
    /\ UNCHANGED <<config, crashes>>

\* Mutation: the num_blocks == 0 check dropped; any ledger that opens is used.
ReopenNoBlockCheck ==
    /\ pc = "reopen"
    /\ pc' = IF file \in {"origin", "empty"} THEN "launch" ELSE "down"
    /\ UNCHANGED <<config, file, crashes>>

(***************************************************************************)
(* Lines 164-174: reopen the ledger; panic unless it opens and has a       *)
(* block.                                                                  *)
(***************************************************************************)
Reopen ==
    /\ pc = "reopen"
    /\ pc' = IF file = "origin" THEN "launch" ELSE "down"
    /\ UNCHANGED <<config, file, crashes>>

\* Lines 51-93: both --db and --service-port, neither, or a panic.
Launch ==
    /\ pc = "launch"
    /\ pc' = CASE config.db /\ config.port   -> "serving"
             []   ~config.db /\ ~config.port -> "syncing"
             []   OTHER                      -> "down"
    /\ UNCHANGED <<config, file, crashes>>

(***************************************************************************)
(* The process is killed, or an external call fails and panics.  A copy    *)
(* in progress leaves a truncated data.mdb; append_block commits or not.   *)
(***************************************************************************)
Crash ==
    /\ pc # "down"
    /\ crashes < MaxCrashes
    /\ pc' = "down"
    /\ crashes' = crashes + 1
    /\ \/ UNCHANGED file
       \/ pc = "copy" /\ config.bootstrap # "missing" /\ file' = "truncated"
    /\ UNCHANGED config

Next ==
    \/ Restart
    \/ OpenExisting
    \/ CopyBootstrap
    \/ CreateLedger
    \/ DownloadOrigin
    \/ AppendOrigin
    \/ Reopen
    \/ Launch
    \/ Crash

(***************************************************************************)
(* The supervisor restarts a dead daemon and a live one keeps executing:   *)
(* every step but a crash is weakly fair.                                  *)
(***************************************************************************)
Progress == Next /\ ~Crash

Spec == Init /\ [][Next]_vars /\ WF_vars(Progress)

-----------------------------------------------------------------------------

TypeOK ==
    /\ config \in Configs
    /\ file \in LedgerStates
    /\ pc \in Steps
    /\ crashes \in 0 .. MaxCrashes

(***************************************************************************)
(* The daemon starts its services only on a ledger that has blocks: one    *)
(* with the origin block, or a cut-short copy of a bootstrap ledger that   *)
(* had blocks.  Never on an absent or empty ledger, whatever crashes and   *)
(* restarts came before: a kill between create (line 152) and append       *)
(* (line 158) or an empty bootstrap source must be caught by the           *)
(* num_blocks checks at lines 104 and 172.                                 *)
(***************************************************************************)
LaunchedOnlyWithBlocks ==
    pc \in Launched \cup {"launch"} =>
        \/ file = "origin"
        \/ file = "truncated" /\ config.bootstrap = "origin"

(***************************************************************************)
(* What the comment at line 105 takes for granted: the daemon starts its   *)
(* services only on a whole ledger with the origin block, never on a copy  *)
(* of the bootstrap ledger that a kill during std::fs::copy (line 137) cut *)
(* short.                                                                  *)
(***************************************************************************)
LaunchedOnlyWithOrigin == pc \in Launched \cup {"launch"} => file = "origin"

(***************************************************************************)
(* What the comment at line 118 intends: a ledger that has blocks is never *)
(* overwritten or lost, since start-up copies or creates only when the     *)
(* ledger "doesn't exist, or is empty" (lines 102-118).                    *)
(***************************************************************************)
NeverLosesLedger == [][file = "origin" => file' = "origin"]_vars

\* The arguments name a usable start-up: the API flags agree and the
\* bootstrap source, if any, holds a ledger with blocks.
UsableConfig ==
    /\ config.db = config.port
    /\ config.bootstrap \in {"unset", "origin"}

(***************************************************************************)
(* With usable arguments the daemon eventually launches, however the       *)
(* crashes fell: every partial start-up left on disk is recovered by the   *)
(* next one.                                                               *)
(***************************************************************************)
EventuallyLaunched == UsableConfig => <>(pc \in Launched)

=============================================================================
