---------------------------- MODULE Pow2Padding ----------------------------
(***************************************************************************)
(* The padding step of the range-proof engine: resize_slice_to_pow2 of     *)
(* transaction/core/src/range_proofs/mod.rs.  Aggregated bulletproofs      *)
(* work on batches whose length is a power of two, so a slice is extended  *)
(* with copies of its last element up to the next power of two.            *)
(*                                                                         *)
(* usize keeps its width: usize::checked_next_power_of_two returns None    *)
(* when the next power of two is not representable, and the function then  *)
(* returns Error::ResizeError.  An empty slice passes that check (the next *)
(* power of two of 0 is 1) and then indexes slice[len - 1], which panics.  *)
(***************************************************************************)
EXTENDS Naturals, Sequences

CONSTANT UsizeBits      \* width of usize on the build target (64 on x86_64)

ASSUME UsizeBitsAssumption == UsizeBits \in Nat \ {0}

\* The powers of two that a usize can hold: 2^0 .. 2^(UsizeBits-1).
PowersOfTwo == {2^k : k \in 0 .. (UsizeBits - 1)}

(***************************************************************************)
(* len.checked_next_power_of_two() is Some(_).  For len >= 1 the smallest *)
(* power of two >= len is the one in [len, 2*len); for len = 0 it is 1.    *)
(***************************************************************************)
HasNextPow2(len) ==
    \/ len = 0
    \/ \E p \in PowersOfTwo : p \in Nat /\ len <= p /\ p < 2 * len

\* The value inside Some(_).
NextPow2(len) ==
    IF len = 0 THEN 1
    ELSE CHOOSE p \in PowersOfTwo : p \in Nat /\ len <= p /\ p < 2 * len

\* Mutation: the slice filled with copies of its first element.
ResizedFillFirst(slice) ==
    [i \in 1 .. NextPow2(Len(slice)) |->
        IF i <= Len(slice) THEN slice[i] ELSE slice[1]]

\* extend_from_slice(slice), then resize(len + diff, slice[len - 1].clone())
Resized(slice) ==
    [i \in 1 .. NextPow2(Len(slice)) |->
        IF i <= Len(slice) THEN slice[i] ELSE slice[Len(slice)]]

(***************************************************************************)
(* resize_slice_to_pow2(slice): the overflow check comes first, then the   *)
(* read of the last element, which panics on an empty slice.               *)
(***************************************************************************)
resize_slice_to_pow2(slice) ==
    IF ~HasNextPow2(Len(slice))
    THEN [status |-> "ResizeError", val |-> <<>>]
    ELSE IF Len(slice) = 0
         THEN [status |-> "Panic", val |-> <<>>]
         ELSE [status |-> "Ok", val |-> Resized(slice)]

=============================================================================
