# TLA+ models of mobilecoind's proof, proposal and start-up code

This directory holds TLA+ models of three parts of the source under `src/`:

* the aggregated range-proof engine (`transaction/core/src/range_proofs/mod.rs`);
* the conversion and validation of transaction proposals (`mobilecoind/src/conversions.rs`);
* the daemon's start-up (`mobilecoind/src/bin/main.rs`).

It also holds TLC configurations that model-check the models on small instances, and TLAPS proofs of their main safety properties for every value of the constants.
`PROJECT.json` lists these pieces and how they fit together:

* the components;
* the runs and what they check;
* the mutants that each property must catch;
* the map from every modelled definition to the source lines it translates;
* the findings;
* the hazards;
* the proved theorems.

## 1. The system and its parts

| Part | Source | State and operations | Interacts with |
|---|---|---|---|
| PowerOfTwoPadder | `range_proofs/mod.rs` 86-98 | Pure: `resize_slice_to_pow2` | The prover and verifier pad through it. |
| RangeProofEngine | `range_proofs/mod.rs` 25-77 | Pure functions `generate_range_proofs` and `check_range_proofs` over the bulletproofs crate | Its caller is the proposal assembler (not in `src/`). Its results travel in a transaction to a validator. |
| Record conversions | `conversions.rs` 20-77 | `From`/`TryFrom` for UnspentTxOut and Outlay | TxProposal conversion uses them. |
| TxProposal codec and validator | `conversions.rs` 79-147 | `From<&TxProposal>` (encode) and `TryFrom<&mobilecoind_api::TxProposal>` (decode and validate) | Proposals cross the gRPC API, which is an untrusted channel. |
| Daemon start-up | `bin/main.rs` 16-185 | `create_or_open_ledger_db` changes the ledger directory on disk. `main` chooses the service mode. | The ledger DB (not in `src/`), the network (origin block) and a supervisor that restarts the process. |

Hard behaviours the code is exposed to:

* **Width limits on `usize`:** the truncating `as usize` cast of wire indices.
* **Edge lengths:** the empty slice, and batches beyond the generators' party capacity.
* **An untrusted relay:** it may alter the commitment list or the proposal message between producer and consumer.
* **Collisions in the index map:** keys that collide after the cast, resolved by `HashMap` iteration order.
* **Crash and restart in start-up:** a kill or a failed call can stop start-up at any step, with the ledger file left half-written, and an error from opening the ledger is taken to mean there is none.

## 2. Modules

### Pow2Padding, MCPow2Padding

`Pow2Padding` translates `resize_slice_to_pow2` with usize kept at width `UsizeBits`:

* `PowersOfTwo` lists the powers of two a usize holds.
* `HasNextPow2` and `NextPow2` model `checked_next_power_of_two`. 0 maps to 1, and no value is returned past the largest power.
* `Resized` models `extend_from_slice` plus `resize` with copies of `slice[len-1]`.

The order of the checks follows the code:

1. the overflow check comes first;
2. the indexing comes next, which panics on an empty slice.

The overflow branch is kept because the code has it, but no real slice reaches it: a slice holds at most `isize::MAX` elements, below the largest power of two a usize holds. The empty slice is the edge that matters.

`NextPow2` is written with `CHOOSE` rather than recursion or `2^k` arithmetic in the provers, so modules that use it can carry proofs.

`MCPow2Padding` is a harness in which each step hands the function an arbitrary slice. It checks the function against an independent reference definition: the smallest power of two at or above the length, the first elements kept, the tail made of copies of the last.

### RangeProofs, MCRangeProofs

This module covers one proof session.

**Variables:**

* `request`: the caller's call.
* `generated`: the result of `generate_range_proofs`.
* `published`: the commitments the transaction carries.
* `outputs`: what the validator receives.
* `tampers`: the relay's alterations so far.
* `verified`: the last `check_range_proofs` call and its result.

**Actions:**

* `Generate(r)`: the caller calls the generator.
* `Publish`: the transaction takes the first `len(values)` commitments.
* `ReplaceOutput`, `RemoveOutput`, `AppendOutput`: the relay alters the list. An entry may be an undecodable point (`Malformed`).
* `Verify`: the validator runs `check_range_proofs`.

**Cryptography** is abstracted to what the checks tell apart:

* A commitment is the pair `<<v, b>>`.
* A proof is the padded commitment vector it attests.
* `prove_multiple` and `verify_multiple` keep the bulletproofs crate's observable rules: the lengths must be equal, at most `PartyCap` parties are allowed, and a proof verifies only against the vector it was made for.

`CallerPairsInputs` states what callers pass. When TRUE, callers pass equal and non-zero lengths, the precondition spec 4.2 puts on the assembler. When FALSE, any pair of slices is allowed, which is what the function itself accepts; the runs keep the precondition, and the theorems take it as their hypothesis.

### RecordConversions, MCRecordConversions

`RecordConversions` translates the four element conversions of `conversions.rs` (lines 20-77) field by field:

* `FromUnspentTxOut` and `FromOutlay` are the `From` impls: one setter per field.
* `TryFromUnspentTxOut` decodes the TxOut, then the KeyImage, each returning its `ConversionError` through `?`, then copies the u64 fields.
* `TryFromOutlay` decodes the receiver's PublicAddress.

The TxOut, KeyImage and PublicAddress conversions live in the transaction crate, outside this repository. They are modelled from the spec: encoding (`Enc`) always succeeds, and `Decode` returns the value exactly on an encoding of it. A client can also send bytes that are no encoding (`Garbage`).

`MCRecordConversions` is a harness: each step hands the conversions another UnspentTxOut message and another Outlay message. Every message over one TxOut, one key image, two addresses and the u64 values 0 and 1 is enumerated, so any two integer fields can differ.

### TxProposalCodec, MCTxProposalCodec

**Variables:**

* `sent`: a local proposal satisfying the proposal invariants.
* `wire`: the message in transit.
* `tampers`: the relay's alterations so far.
* `received`: the result of `try_from`, together with the message it was given.

**Actions:**

* `Encode` is `From`. It takes the fee from `tx.prefix.fee`.
* Nine relay alterations:
  * change either fee;
  * change the number of outputs;
  * corrupt the tx, an input or an outlay (conversion errors);
  * remove an outlay;
  * put or remove a map entry.
* `Decode` is `try_from`, with its checks in the code's order:
  1. the fee check;
  2. the element conversions (`UnspentTxOutParses`, `OutlayParses`, `tx.valid`);
  3. `HashMap::from_iter` over the `as usize`-cast entries (`DecodedMaps`), where colliding keys are resolved nondeterministically, as the iteration order of the protobuf map does;
  4. the length check;
  5. the per-entry bounds checks.

`UsizeMod` is 2^(width of usize), scaled to the model's indices. It equals the index range in the 64-bit run and is smaller than it in the 32-bit run.

### MobilecoindStartup

**Variables:**

* `config`: the arguments, fixed across restarts. They are the bootstrap source (unset, a ledger with blocks, an empty ledger, or missing), `--db` and `--service-port`.
* `file`: the ledger's `data.mdb`, which is `none`, `empty`, `origin` or `truncated`.
* `pc`: the step of the process.
* `crashes`: the number of kills and failed calls so far.

**Actions:**

* `OpenExisting` (lines 101-116), with every outcome the code handles:
  * on a ledger with the origin block, open and `num_blocks` succeed and the ledger is returned, or one of them fails; `if let Ok` swallows the error and the start-up goes to the bootstrap path as if there were no ledger (a failed call, counted in `crashes`);
  * on an absent or empty ledger, it goes to the bootstrap path;
  * on a truncated copy, open may fault (the process goes down), report an error (the bootstrap path), or succeed, and then `num_blocks` reads the count of the copied prefix: the ledger is returned if the bootstrap ledger had blocks.
* `CopyBootstrap` (119-144).
* `CreateLedger` (145-152): `LedgerDB::create` writes a block count of zero into whatever environment is there, so on a ledger with blocks it leaves one without.
* `DownloadOrigin` (153-155).
* `AppendOrigin` (156-160).
* `Reopen` (164-184).
* `Launch`: the mode match of `main` (50-93).
* `Restart`: the supervisor starts the process, as `main` runs up to `create_or_open_ledger_db`.
* `Crash`: a kill or a failing `expect`/`unwrap` at any step. A crash during the copy may leave the file truncated.

The ledger crate is not in this repository. The model takes three things about it from its interface:

* `LedgerDB::create` opens or creates the databases and sets the block count to zero.
* `append_block` is one LMDB transaction.
* What `open` does on a truncated file is the constant `TruncatedOpen`, any non-empty subset of `Err`, a fault, and `Ok`. LMDB does not check the file's size on open, so all three can happen; which one depends on how much of the file the copy wrote.

### Proof modules

* `RangeProofsProofs`: type correctness of the session model (a lemma), and `GenerateThenVerify` and `AcceptedOnlyTrailingCopies` when callers pair their inputs.
* `TxProposalCodecProofs`: type correctness of the codec model (a lemma), `AcceptedWellFormed`, `EncodeDecodeRoundTrip`, and, for a wide usize, `AcceptedMatchesMessage`.
* `MobilecoindStartupProofs`: `LaunchedOnlyWithBlocks`.
* `RecordConversionsProofs`: `ConversionsInverse` for every domain.

## 3. Runs

| Run | Expect | What it shows |
|---|---|---|
| `pad_reference` | pass | `PaddingMatchesSpec` holds on every slice of length 0..7 over 2 elements with a 3-bit usize. Lengths 5..7 overflow and 0 panics, so every branch is taken. |
| `record_conversions` | pass | `ConversionsInverse` holds on all 384 pairs of messages: a record's encoding decodes to it, a message that decodes re-encodes to itself, and exactly the messages with unparsable external bytes are rejected. |
| `range_proofs` | pass | `GenerateThenVerify`: a proof verifies on the published commitments. `AcceptedOnlyTrailingCopies`: an accepted list is the published one, possibly extended with copies of its last commitment. It runs with up to 3 outputs, capacity 4 and 2 relay alterations. A list of 5 pads to 8 and hits the capacity check, and removing the only output reaches the empty-slice read. |
| `range_proofs_panic` | violation | `VerifyNeverPanics` fails: the relay removes the single output and `check_range_proofs` panics at mod.rs:92. |
| `codec` | pass | `AcceptedWellFormed`, `EncodeDecodeRoundTrip` and `AcceptedMatchesMessage` hold under up to 2 alterations of every kind, with 1 input, up to 2 outlays and 2 outputs, and indices 0..2. Index 2 is one past every bound. |
| `codec_injective` | violation | `AcceptedMappingInjective` fails: `{0:0, 1:0}` is accepted. |
| `codec_usize32` | violation | `AcceptedMatchesMessage` fails with a usize narrower than the wire indices: key 2 truncates onto key 0. |
| `startup` | pass | Over every configuration, both initial ledgers, up to 3 kills or failed calls, and open on a truncated copy either failing or succeeding: `LaunchedOnlyWithBlocks` (services never start on an absent or empty ledger, nor on a cut-short copy of an empty bootstrap), and `EventuallyLaunched` with usable arguments. |
| `startup_truncated_fault` | violation | If `open` faults on a truncated copy, the daemon restarts forever at the same point. |
| `startup_truncated_launch` | violation | `LaunchedOnlyWithOrigin` fails: a kill during the copy, a restart, and open and `num_blocks` succeed on the truncated file; line 113 returns it and the services start on it. |
| `startup_ledger_lost` | violation | `NeverLosesLedger` fails: open errs once on a ledger with blocks, and the start-up copies an empty bootstrap over it (or, with no bootstrap source, runs `create` on it). |

**Bounds.** Each bound is the smallest at which the code's distinct cases all occur:

* both padding branches;
* the capacity check;
* an index one past each bound;
* a collision after the cast;
* a crash at every step, plus a second one during recovery.

Larger instances repeat the same cases. The proofs cover every size.

**Symmetry.** `MCRangeProofs` declares values and blindings symmetric, since no definition names one.

**Mutants.** Each property of a passing run is paired in `PROJECT.json` with a plausible bug in the mapped code that makes TLC report it:

* filling with the first element;
* verifying without padding;
* dropping the length check;
* omitting `set_fee`;
* a narrower cast;
* the `num_blocks > 0` check at line 104 dropped (`OpenExistingNoBlockCheck`, for `LaunchedOnlyWithBlocks`: after a kill between `create` and the append, the next start returns the empty ledger);
* a `create` that fails when the databases exist (`CreateLedgerFresh`, for `EventuallyLaunched`);
* the two attempted-spend fields swapped in `From<&UnspentTxOut>`.

## 4. Fairness

Only `MobilecoindStartup` has a liveness property. It assumes weak fairness of every step except `Crash`, on these grounds:

* a running process keeps executing its straight-line start-up code;
* the supervisor restarts a dead daemon.

Crashes, and errors from open on a ledger with blocks, are not fair: together they are bounded by `MaxCrashes`, modelling the assumption that failures eventually stop. A launched daemon's main thread sleeps forever, which is why the start-up runs set `CHECK_DEADLOCK FALSE`. The other models state safety only and assume no fairness.

## 5. What is proved

TLAPS checks these theorems for every value of the constants that satisfies the named `ASSUME`. Each proof module also proves its model's type invariant (`TypeCorrect`), as the lemma the others rest on; the type invariants are not checked as properties of a run.

* **`RangeProofsProofs!CompleteForPairedCallers`:** `CallerPairsInputs => (Spec => []GenerateThenVerify)`.
  * The argument rests on the lemma `Completeness`. With `n` values and `n` blindings, both slices pad to the same `N = NextPow2(n)`, and the prover's commitments past `n` commit to the last value and blinding. Re-padding the first `n` commitments with copies of the last therefore rebuilds exactly the prover's vector, and the verifier's capacity check is the prover's check on the same `N`.
  * The padding lemmas `NextPow2Bounds` and `ResizeOk` need no arithmetic on `2^k`: `NextPow2` is the power of two in `[n, 2n)`.
  * The inductive invariant is `TypeOK /\ Session`. `Session` says that `generated` is `generate_range_proofs` of the request, `published` is the first `n` of its commitments, and `verified` records `check_range_proofs` of its list. `TypeOK` alone is not inductive, because `Publish` needs at least `n` commitments.
  * The hypothesis `CallerPairsInputs` is the precondition spec 4.2 puts on the caller: equal, non-zero lengths.
  * The assumption `NoneAssumption` (no request is `None`) keeps the generator from being called twice.
* **`RangeProofsProofs!TrailingCopiesForPairedCallers`:** `CallerPairsInputs => (Spec => []AcceptedOnlyTrailingCopies)`.
  * It uses the same invariant `TypeOK /\ Session`.
  * If `check_range_proofs` accepts a list, its padding succeeded, so the list is non-empty. `verify_multiple` then forces the padded list to equal the prover's vector.
  * `Completeness` shows that this vector is the published list padded with copies of its last commitment.
  * Comparing the two paddings position by position (`ResizeOk`) gives the property.
* **`TxProposalCodecProofs!RoundTrip`:** `Spec => []EncodeDecodeRoundTrip`, with no hypothesis beyond the constants' assumption.
  * The lemma `RoundTripDecode` shows `try_from(ToProto(p)) = {Ok(p)}` for every local proposal `p`.
  * The assumption bounds a local map's keys and values by `UsizeMod`, so `DecodedMapsWide` applies: the cast is the identity and the decoded map is the sent one.
  * The invariant `DecodedFrom` records that `received` is a result of `try_from` on `received.from`.
* **`TxProposalCodecProofs!MatchesMessageWhenWide`:** `MaxIndex < UsizeMod => (Spec => []AcceptedMatchesMessage)`.
  * The lemma `AcceptedIsEncoding` applies `DecodedMapsWide` to any wire map.
  * The `codec_usize32` violation is this hypothesis dropped.
* **`TxProposalCodecProofs!AcceptedProposalsWellFormed`:** `Spec => []AcceptedWellFormed`.
  * The argument rests on the lemma `TryFromAccepted`. When `len(map) = len(outlays) = n` and every key is below `n`, the key set is exactly `0..n-1`. The step uses the finite-set lemmas `FS_Interval` and `FS_Subset`.
  * The inductive invariant is `TypeOK /\ AcceptedWellFormed`. Type correctness is needed because `try_from` must be applied to a well-typed message.
* **`MobilecoindStartupProofs!LaunchedWithBlocks`:** `Spec => []LaunchedOnlyWithBlocks`, for every crash budget and every non-empty set `TruncatedOpen` of outcomes of open on a truncated copy, and with open allowed to fail on a ledger with blocks.
  * The inductive invariant is `TypeOK /\ LaunchedOnlyWithBlocks /\ CopyOnlyConfigured`. Only `OpenExisting` and `Reopen` enter `launch`, each on a ledger whose block count it read; no step from `launch` on writes `data.mdb`, and a kill truncates only during a copy.
  * `CopyOnlyConfigured` (only a configured source is copied, line 120) is what keeps the copy's result a ledger state, for the type invariant.
  * The `OpenExisting` case splits on the ledger and, for a truncated copy, on the outcome picked from `TruncatedOpen`: `Ok` reaches `launch` only when the bootstrap ledger had blocks.
* **`RecordConversionsProofs!ConversionsAreInverse`:** `Spec => []ConversionsInverse` of the harness, for any sets of TxOuts, key images, addresses and u64 values. It follows from the lemmas `UnspentRoundTrip`, `OutlayRoundTrip`, `UnspentDecodeCanonical` and `OutlayDecodeCanonical`, which rest on `DecodeEnc` (the encoding is injective) and `DecodeGarbage`.

TLC checked each proof module's inductive invariant as an invariant of its run's instance before the proof: the start-up's on `startup` (718 states), `TypeOK /\ Session` on `range_proofs` (18116 states), and the codec's on `codec` (21248 states).

These stay with TLC only:

* **Liveness** (`EventuallyLaunched`): TLAPS does not handle fairness and `ENABLED`.
* **The start-up's two code bugs** are violations, shown by TLC traces (`startup_truncated_launch`, `startup_ledger_lost`); there is nothing to prove of them.
* **The padding properties:** `PaddingMatchesSpec` compares `Resized` with a reference that pads to the least power of two `>= len`, the one `checked_next_power_of_two` returns.
  * The model's `NextPow2` is the power of two in `[n, 2n)`.
  * Showing that it is also the least one, and that it is unique, needs `2^(k+1) = 2 * 2^k` and induction over the exponent.
  * The installed provers prove neither. Exponentiation is opaque to them, and the library's induction theorems take an operator parameter that they cannot instantiate.
  * The proofs above need only the `[n, 2n)` characterisation, which they get from `HasNextPow2`.

## 6. Not modelled

* **The ledger sync thread, peer manager, API server and database:** `main` starts them, but they do not affect the start-up decisions. Their code is not in `src/`.
* **The bulletproofs crate, the assembler and the ledger crate:** these are external, and only their observable rules are modelled.
* **Logging and formatting.**
* **Order of start-up versus the sync thread:** `main` starts the ledger sync thread (line 41) before the mode match can panic (line 89). The thread's appends are LMDB transactions in a crate outside `src/`, so a panic there is a crash that leaves the ledger with its blocks. That is what `Crash` covers.

## 7. Plan

1. **Pipeline:** compose the range-proof session with the codec, so that the proposal's transaction carries the proved commitments and the index map. This checks whether a permuted mapping that passes validation misdirects an outlay (spec 9).
2. **Proposal validity as an abstract spec:** state what the codec promises, the proposal invariants (`AcceptedWellFormed`) and the injectivity of the map (spec 9, the `codec_injective` violation) included, as an abstract specification that says more than the invariants checked beside it, and show the codec implements it.
