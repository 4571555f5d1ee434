----------------------- MODULE MobilecoindStartupProofs ----------------------
(***************************************************************************)
(* Proofs about the daemon start-up: for every crash budget and every set  *)
(* of outcomes of open on a truncated ledger (an error, a fault, or an Ok  *)
(* with the block count of the copied prefix), the daemon never starts its *)
(* services on a ledger without blocks.                                    *)
(***************************************************************************)
EXTENDS MobilecoindStartup, TLAPS

USE StartupAssumption

(***************************************************************************)
(* LaunchedOnlyWithBlocks is inductive with the type invariant: only open  *)
(* and reopen enter "launch", each on the ledger it checked, and no step   *)
(* from "launch" on writes data.mdb (a kill truncates only a copy).  The   *)
(* type invariant needs that only a configured source is ever copied       *)
(* (line 120), so that the copy writes a ledger.                           *)
(***************************************************************************)
CopyOnlyConfigured == pc = "copy" => config.bootstrap # "unset"

IInv ==
    /\ TypeOK
    /\ LaunchedOnlyWithBlocks
    /\ CopyOnlyConfigured

\* The start of a behaviour satisfies the inductive invariant.
LEMMA InitIInv == Init => IInv
<1> SUFFICES ASSUME Init PROVE IInv
  OBVIOUS
<1>1. TypeOK
  BY DEF Init, TypeOK, LedgerStates, Steps
<1>2. LaunchedOnlyWithBlocks /\ CopyOnlyConfigured
  BY DEF Init, LaunchedOnlyWithBlocks, CopyOnlyConfigured, Launched
<1>. QED
  BY <1>1, <1>2 DEF IInv

(***************************************************************************)
(* Every step of the start-up, a kill and a failed open included,          *)
(* preserves the inductive invariant.                                      *)
(***************************************************************************)
LEMMA NextIInv == IInv /\ [Next]_vars => IInv'
<1> SUFFICES ASSUME IInv, [Next]_vars PROVE IInv'
  OBVIOUS
<1> USE DEF IInv, TypeOK, LaunchedOnlyWithBlocks, CopyOnlyConfigured,
            Launched, Steps, LedgerStates, Configs
<1>1. CASE Restart
  BY <1>1 DEF Restart
<1>2. CASE OpenExisting
  <2>0. UNCHANGED <<config, file>> /\ pc = "open"
    BY <1>2 DEF OpenExisting
  <2>1. TypeOK'
    <3>1. pc' \in Steps
      BY <1>2 DEF OpenExisting, BootstrapStep
    <3>2. crashes' \in 0 .. MaxCrashes
      BY <1>2 DEF OpenExisting
    <3>. QED
      BY <2>0, <3>1, <3>2
  <2>2. LaunchedOnlyWithBlocks' /\ CopyOnlyConfigured'
    <3>1. CASE file = "origin"
      <4>1. pc' \in {"launch", BootstrapStep(config)}
        BY <1>2, <3>1 DEF OpenExisting
      <4>. QED
        BY <2>0, <3>1, <4>1 DEF BootstrapStep
    <3>2. CASE file \in {"none", "empty"}
      BY <1>2, <3>2 DEF OpenExisting, BootstrapStep
    <3>3. CASE file = "truncated"
      <4>1. PICK outcome \in TruncatedOpen :
                pc' = CASE outcome = "Fault" -> "down"
                      []   outcome = "Ok" /\ config.bootstrap = "origin"
                                             -> "launch"
                      []   OTHER             -> BootstrapStep(config)
        BY <1>2, <3>3 DEF OpenExisting
      <4>2. pc' = "launch" => config.bootstrap = "origin"
        BY <4>1 DEF BootstrapStep
      <4>3. pc' \in {"down", "launch", "create", "copy"}
        BY <4>1 DEF BootstrapStep
      <4>4. pc' = "copy" => config.bootstrap # "unset"
        BY <4>1 DEF BootstrapStep
      <4>. QED
        BY <2>0, <3>3, <4>2, <4>3, <4>4
    <3>. QED
      BY <3>1, <3>2, <3>3
  <2>. QED
    BY <2>1, <2>2
<1>3. CASE CopyBootstrap
  BY <1>3 DEF CopyBootstrap
<1>4. CASE CreateLedger
  BY <1>4 DEF CreateLedger
<1>5. CASE DownloadOrigin
  BY <1>5 DEF DownloadOrigin
<1>6. CASE AppendOrigin
  BY <1>6 DEF AppendOrigin
<1>7. CASE Reopen
  BY <1>7 DEF Reopen
<1>8. CASE Launch
  BY <1>8 DEF Launch
<1>9. CASE Crash
  BY <1>9 DEF Crash
<1>10. CASE UNCHANGED vars
  BY <1>10 DEF vars
<1>. QED
  BY <1>1, <1>2, <1>3, <1>4, <1>5, <1>6, <1>7, <1>8, <1>9, <1>10 DEF Next

(***************************************************************************)
(* The daemon never starts its services on an absent or empty ledger, nor  *)
(* on a cut-short copy of an empty bootstrap ledger, whatever kills, failed *)
(* opens and restarts came before: the num_blocks checks at lines 104 and  *)
(* 172 catch a kill between create and append and an empty bootstrap.     *)
(***************************************************************************)
THEOREM LaunchedWithBlocks == Spec => []LaunchedOnlyWithBlocks
<1>1. Init => IInv
  BY InitIInv
<1>2. IInv /\ [Next]_vars => IInv'
  BY NextIInv
<1>3. IInv => LaunchedOnlyWithBlocks
  BY DEF IInv
<1>. QED
  BY <1>1, <1>2, <1>3, PTL DEF Spec

=============================================================================
