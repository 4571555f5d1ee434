---------------------------- MODULE RangeProofs ----------------------------
(***************************************************************************)
(* The aggregated range-proof engine of                                    *)
(* transaction/core/src/range_proofs/mod.rs, in the setting where it is     *)
(* used: a caller asks generate_range_proofs for one proof over the values *)
(* and blindings of a transaction's outputs, the transaction carries the    *)
(* commitments of its outputs (the first len(values) commitments that the  *)
(* generator returned), an untrusted relay may alter that list, and a       *)
(* validator runs check_range_proofs on the list it receives.              *)
(*                                                                         *)
(* Cryptography is abstracted to what the checks tell apart: the Pedersen  *)
(* commitment to (v, b) is the pair <<v, b>> (binding and deterministic),  *)
(* a proof is the padded commitment vector it attests, and verification    *)
(* succeeds exactly on that vector (soundness of the bulletproof).  The    *)
(* bulletproofs calls prove_multiple_with_rng and verify_multiple_with_rng *)
(* are outside this repository and follow the specification.               *)
(***************************************************************************)
EXTENDS Pow2Padding

CONSTANTS
    Values,             \* secret u64 output values (model values)
    Blindings,          \* blinding scalars (model values)
    Malformed,          \* a CompressedRistretto that does not decompress
    None,               \* absent result
    PartyCap,           \* party capacity of BP_GENERATORS (64 in the code)
    MaxLen,             \* most outputs a caller proves at once
    MaxTamper,          \* most alterations the relay makes to the list
    CallerPairsInputs   \* callers pass one blinding per value, at least one

ASSUME ConstantsAssumption ==
    /\ PartyCap \in Nat \ {0}
    /\ MaxLen \in Nat
    /\ MaxTamper \in Nat
    /\ CallerPairsInputs \in BOOLEAN
    /\ Malformed \notin Values \X Blindings
    /\ None \notin Values \X Blindings

VARIABLES
    request,    \* the (values, serials) of the call to generate_range_proofs
    generated,  \* its result: status, proof and padded commitments
    published,  \* the commitments the transaction carries, as built
    outputs,    \* the commitments the validator receives
    tampers,    \* alterations made to outputs so far
    verified    \* the last check_range_proofs: the list checked and result

vars == <<request, generated, published, outputs, tampers, verified>>

\* Pedersen commitment to value v with blinding b.
Commit(v, b) == <<v, b>>

Commitments == Values \X Blindings

SeqsUpTo(S, n) == UNION {[1 .. k -> S] : k \in 0 .. n}

(***************************************************************************)
(* Calls the callers make.  The transaction builder passes one blinding    *)
(* per output value and at least one output (spec 4.2: equal, non-zero     *)
(* lengths); with CallerPairsInputs = FALSE any pair of slices is passed,  *)
(* which is what generate_range_proofs itself accepts.                     *)
(***************************************************************************)
Requests ==
    {r \in [values : SeqsUpTo(Values, MaxLen),
            serials : SeqsUpTo(Blindings, MaxLen)] :
        CallerPairsInputs => /\ Len(r.values) = Len(r.serials)
                             /\ Len(r.values) >= 1}

\* No call to generate_range_proofs is the absent request.
ASSUME NoneAssumption == None \notin Requests

Failed(status) == [status |-> status, proof |-> <<>>, commitments |-> <<>>]

(***************************************************************************)
(* RangeProof::prove_multiple_with_rng (bulletproofs): the value and       *)
(* blinding vectors must have the same length and at most PartyCap         *)
(* entries; it returns the proof and one commitment per padded value.      *)
(***************************************************************************)
prove_multiple(vs, bs) ==
    IF Len(vs) # Len(bs) THEN Failed("WrongNumBlindingFactors")
    ELSE IF PartyCap < Len(vs) THEN Failed("InvalidGeneratorsLength")
    ELSE LET cs == [i \in 1 .. Len(vs) |-> Commit(vs[i], bs[i])]
         IN  [status |-> "Ok", proof |-> cs, commitments |-> cs]

\* generate_range_proofs: pad values, then serials (each ? returns early).
generate_range_proofs(values, serials) ==
    LET vp == resize_slice_to_pow2(values)
        sp == resize_slice_to_pow2(serials)
    IN  IF vp.status # "Ok" THEN Failed(vp.status)
        ELSE IF sp.status # "Ok" THEN Failed(sp.status)
        ELSE prove_multiple(vp.val, sp.val)

(***************************************************************************)
(* RangeProof::verify_multiple_with_rng (bulletproofs): more commitments   *)
(* than the party capacity is an error; otherwise the proof verifies       *)
(* exactly against the vector it attests (an undecodable point never is).  *)
(***************************************************************************)
verify_multiple(proof, cs) ==
    IF PartyCap < Len(cs) THEN "InvalidGeneratorsLength"
    ELSE IF cs = proof THEN "Ok"
    ELSE "VerificationError"

\* Mutation: the commitments verified as given, without padding.
CheckUnpadded(proof, commitments) == verify_multiple(proof, commitments)

\* check_range_proofs: pad the commitments, then verify.
check_range_proofs(proof, commitments) ==
    LET r == resize_slice_to_pow2(commitments)
    IN  IF r.status # "Ok" THEN r.status
        ELSE verify_multiple(proof, r.val)

-----------------------------------------------------------------------------

Init ==
    /\ request = None
    /\ generated = None
    /\ published = None
    /\ outputs = <<>>
    /\ tampers = 0
    /\ verified = None

\* The caller calls generate_range_proofs once.
Generate(r) ==
    /\ request = None
    /\ request' = r
    /\ generated' = generate_range_proofs(r.values, r.serials)
    /\ UNCHANGED <<published, outputs, tampers, verified>>

\* The transaction is built with one output per value: it carries the first
\* len(values) of the returned commitments.
Publish ==
    /\ generated # None
    /\ generated.status = "Ok"
    /\ published = None
    /\ published' = SubSeq(generated.commitments, 1, Len(request.values))
    /\ outputs' = published'
    /\ UNCHANGED <<request, generated, tampers, verified>>

\* The relay replaces, removes or appends one commitment of the list.
Tamper(newOutputs) ==
    /\ published # None
    /\ tampers < MaxTamper
    /\ outputs' = newOutputs
    /\ tampers' = tampers + 1
    /\ UNCHANGED <<request, generated, published, verified>>

ReplaceOutput ==
    \E i \in 1 .. Len(outputs), c \in Commitments \cup {Malformed} :
        Tamper([outputs EXCEPT ![i] = c])

RemoveOutput ==
    \E i \in 1 .. Len(outputs) :
        Tamper(SubSeq(outputs, 1, i - 1) \o SubSeq(outputs, i + 1, Len(outputs)))

AppendOutput ==
    \E c \in Commitments \cup {Malformed} : Tamper(Append(outputs, c))

\* The validator runs check_range_proofs on the list it received.
Verify ==
    /\ published # None
    /\ verified' = [on |-> outputs,
                    status |-> check_range_proofs(generated.proof, outputs)]
    /\ UNCHANGED <<request, generated, published, outputs, tampers>>

Next ==
    \/ \E r \in Requests : Generate(r)
    \/ Publish
    \/ ReplaceOutput
    \/ RemoveOutput
    \/ AppendOutput
    \/ Verify

Spec == Init /\ [][Next]_vars

-----------------------------------------------------------------------------

Statuses == {"Ok", "ResizeError", "Panic", "WrongNumBlindingFactors",
             "InvalidGeneratorsLength", "VerificationError"}

TypeOK ==
    /\ request \in Requests \cup {None}
    /\ generated = None
       \/ /\ generated.status \in Statuses
          /\ generated.proof \in Seq(Commitments)
          /\ generated.commitments = generated.proof
    /\ published \in Seq(Commitments) \cup {None}
    /\ outputs \in Seq(Commitments \cup {Malformed})
    /\ tampers \in 0 .. MaxTamper
    /\ verified = None
       \/ /\ verified.on \in Seq(Commitments \cup {Malformed})
          /\ verified.status \in Statuses

(***************************************************************************)
(* Completeness (spec 4.2, test_pow2_number_of_inputs and                   *)
(* test_not_pow2_number_of_inputs): the commitments a transaction carries  *)
(* are the first len(values) of the padded ones the generator returned;    *)
(* check_range_proofs re-pads them itself and must accept the proof.  It   *)
(* only can if the generator's padding of values and of blindings and the  *)
(* verifier's padding of commitments all line up.                          *)
(***************************************************************************)
GenerateThenVerify ==
    (verified # None /\ verified.on = published) => verified.status = "Ok"

(***************************************************************************)
(* What a relay can do to the list without the proof failing: every        *)
(* commitment of an accepted list is the published one at its position,    *)
(* or, past the end, a copy of the last published one.  Padding with a     *)
(* literal copy of the last element (spec 4.2) is what makes this hold:    *)
(* any other filler would be accepted as an extra output.                  *)
(***************************************************************************)
AcceptedOnlyTrailingCopies ==
    (verified # None /\ verified.status = "Ok") =>
        \A i \in 1 .. Len(verified.on) :
            verified.on[i] = published[IF i <= Len(published)
                                        THEN i ELSE Len(published)]

(***************************************************************************)
(* check_range_proofs rejects a malformed or wrongly sized commitment list *)
(* with an error and never crashes (spec 4.2 and 7).                       *)
(***************************************************************************)
VerifyNeverPanics ==
    verified # None => verified.status # "Panic"

=============================================================================
