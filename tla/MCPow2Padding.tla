--------------------------- MODULE MCPow2Padding ---------------------------
(***************************************************************************)
(* Checks resize_slice_to_pow2 against the definition of padding in the    *)
(* specification of the range-proof engine, on every slice over a small   *)
(* alphabet whose length a usize of UsizeBits bits can hold.                *)
(***************************************************************************)
EXTENDS Pow2Padding, FiniteSets

CONSTANT Elements       \* model values standing for slice elements

VARIABLE slice

USIZE_MAX == 2^UsizeBits - 1

Slices == UNION {[1 .. k -> Elements] : k \in 0 .. USIZE_MAX}

Init == slice \in Slices

\* Each step hands the function another input.
Next == slice' \in Slices

Spec == Init /\ [][Next]_slice

(***************************************************************************)
(* Reference definition: the padded length is the smallest power of two   *)
(* >= the length; the first elements are kept in place and every added one *)
(* is a copy of the last.  A length whose next power of two exceeds        *)
(* USIZE_MAX is an overflow; an empty slice aborts.                        *)
(***************************************************************************)
SmallestPow2AtLeast(n) ==
    LET cands == {q \in {2^k : k \in 0 .. UsizeBits} : q >= n}
    IN  CHOOSE q \in cands : \A r \in cands : q <= r

IsPaddingOf(t, s, m) ==
    /\ Len(t) = m
    /\ SubSeq(t, 1, Len(s)) = s
    /\ \A i \in Len(s) + 1 .. Len(t) : t[i] = s[Len(s)]

\* resize_slice_to_pow2 agrees with the reference definition of padding on
\* every input: it pads exactly as specified, reports ResizeError exactly
\* on usize overflow, and panics only on the empty slice.
PaddingMatchesSpec ==
    LET r == resize_slice_to_pow2(slice)
        n == Len(slice)
        m == SmallestPow2AtLeast(n)
    IN  /\ n = 0 => r.status = "Panic"
        /\ (n > 0 /\ m > USIZE_MAX) => r.status = "ResizeError"
        /\ (n > 0 /\ m <= USIZE_MAX) => /\ r.status = "Ok"
                                        /\ IsPaddingOf(r.val, slice, m)

=============================================================================
