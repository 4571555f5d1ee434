--------------------------- MODULE RangeProofsProofs ---------------------------
(***************************************************************************)
(* Proofs about the range-proof session: the model is well typed, and when *)
(* callers pass one blinding per value, the proof that                     *)
(* generate_range_proofs returns verifies under check_range_proofs on the  *)
(* commitments the transaction carries, for every party capacity, usize   *)
(* width and batch size; and only lists that pad like the carried one are *)
(* accepted.                                                               *)
(***************************************************************************)
EXTENDS RangeProofs, SequenceTheorems, TLAPS

USE ConstantsAssumption, UsizeBitsAssumption, NoneAssumption

(***************************************************************************)
(* checked_next_power_of_two: when it is Some for a non-zero length, the   *)
(* padded length is a natural number no smaller than the length.           *)
(***************************************************************************)
LEMMA NextPow2Bounds ==
    ASSUME NEW n \in Nat, n # 0, HasNextPow2(n)
    PROVE  NextPow2(n) \in Nat /\ n <= NextPow2(n)
<1>1. \E p \in PowersOfTwo : p \in Nat /\ n <= p /\ p < 2 * n
  BY DEF HasNextPow2
<1>2. LET p == CHOOSE p \in PowersOfTwo : p \in Nat /\ n <= p /\ p < 2 * n
      IN  p \in Nat /\ n <= p
  BY <1>1
<1>. QED
  BY <1>2 DEF NextPow2

(***************************************************************************)
(* resize_slice_to_pow2 on a non-empty slice whose length has a next power *)
(* of two: Ok, and the result is the slice followed by copies of its last  *)
(* element up to NextPow2(len).                                            *)
(***************************************************************************)
LEMMA ResizeOk ==
    ASSUME NEW S, NEW s \in Seq(S), Len(s) # 0, HasNextPow2(Len(s))
    PROVE  /\ resize_slice_to_pow2(s) = [status |-> "Ok", val |-> Resized(s)]
           /\ Resized(s) \in Seq(S)
           /\ Len(Resized(s)) = NextPow2(Len(s))
           /\ \A i \in 1 .. NextPow2(Len(s)) :
                 Resized(s)[i] = IF i <= Len(s) THEN s[i] ELSE s[Len(s)]
<1>1. Len(s) \in Nat /\ NextPow2(Len(s)) \in Nat /\ Len(s) <= NextPow2(Len(s))
  BY NextPow2Bounds, LenProperties
<1>2. Resized(s) \in Seq(S) /\ Len(Resized(s)) = NextPow2(Len(s))
  <2>1. \A i \in 1 .. NextPow2(Len(s)) :
           (IF i <= Len(s) THEN s[i] ELSE s[Len(s)]) \in S
    BY <1>1, LenProperties
  <2>. QED
    BY <1>1, <2>1 DEF Resized
<1>. QED
  BY <1>2 DEF resize_slice_to_pow2, Resized

(***************************************************************************)
(* Completeness of one generate/verify round (spec 4.2): for one blinding  *)
(* per value, the proof generate_range_proofs returns verifies under       *)
(* check_range_proofs on the first len(values) commitments.  Both slices  *)
(* pad to the same length N, the prover's commitments past len(values)    *)
(* are commitments to the last value and blinding, and re-padding the     *)
(* first len(values) with copies of the last rebuilds exactly them; the   *)
(* verifier's capacity check is the prover's on the same N.               *)
(***************************************************************************)
LEMMA Completeness ==
    ASSUME NEW vs \in Seq(Values), NEW bs \in Seq(Blindings),
           Len(vs) = Len(bs), Len(vs) # 0,
           generate_range_proofs(vs, bs).status = "Ok"
    PROVE  LET g == generate_range_proofs(vs, bs)
           IN  /\ g.proof = g.commitments
               /\ g.commitments \in Seq(Commitments)
               /\ Len(vs) <= Len(g.commitments)
               /\ check_range_proofs(g.proof, SubSeq(g.commitments, 1, Len(vs))) = "Ok"
               /\ HasNextPow2(Len(vs))
               /\ Resized(SubSeq(g.commitments, 1, Len(vs))) = g.commitments
<1> DEFINE n == Len(vs)
           N == NextPow2(n)
           g == generate_range_proofs(vs, bs)
           rv == Resized(vs)
           rb == Resized(bs)
           cs == [i \in 1 .. N |-> Commit(rv[i], rb[i])]
           P == SubSeq(cs, 1, n)
<1>1. n \in Nat
  BY LenProperties
<1>2. HasNextPow2(n)
  <2> SUFFICES ASSUME ~HasNextPow2(n) PROVE FALSE
    OBVIOUS
  <2>1. resize_slice_to_pow2(vs).status = "ResizeError"
    BY DEF resize_slice_to_pow2
  <2>2. g = Failed("ResizeError")
    BY <2>1 DEF generate_range_proofs
  <2>. QED
    BY <2>2 DEF Failed
<1>3. /\ resize_slice_to_pow2(vs) = [status |-> "Ok", val |-> rv]
      /\ rv \in Seq(Values) /\ Len(rv) = N
      /\ \A i \in 1 .. N : rv[i] = IF i <= n THEN vs[i] ELSE vs[n]
  BY <1>2, ResizeOk
<1>4. /\ resize_slice_to_pow2(bs) = [status |-> "Ok", val |-> rb]
      /\ rb \in Seq(Blindings) /\ Len(rb) = N
      /\ \A i \in 1 .. N : rb[i] = IF i <= n THEN bs[i] ELSE bs[n]
  BY <1>2, ResizeOk
<1>5. g = prove_multiple(rv, rb)
  BY <1>3, <1>4 DEF generate_range_proofs
<1>6. N \in Nat /\ n <= N
  BY <1>1, <1>2, NextPow2Bounds
<1>7. ~(PartyCap < N)
  <2> SUFFICES ASSUME PartyCap < N PROVE FALSE
    OBVIOUS
  <2>. QED
    BY <1>3, <1>4, <1>5 DEF prove_multiple, Failed
<1>8. g = [status |-> "Ok", proof |-> cs, commitments |-> cs]
  BY <1>3, <1>4, <1>5, <1>7 DEF prove_multiple
<1>9. cs \in Seq(Commitments) /\ Len(cs) = N
  <2>1. \A i \in 1 .. N : rv[i] \in Values /\ rb[i] \in Blindings
    BY <1>3, <1>4, ElementOfSeq
  <2>2. \A i \in 1 .. N : Commit(rv[i], rb[i]) \in Commitments
    BY <2>1 DEF Commit, Commitments
  <2>. QED
    BY <2>2, <1>6
<1>10. P \in Seq(Commitments) /\ Len(P) = n /\ \A i \in 1 .. n : P[i] = cs[i]
  BY <1>1, <1>6, <1>9, SubSeqProperties
<1>11. Resized(P) = cs
  <2> HIDE DEF cs, P
  <2>0. Len(P) # 0 /\ HasNextPow2(Len(P))
    BY <1>2, <1>10
  <2>1. /\ Resized(P) \in Seq(Commitments) /\ Len(Resized(P)) = N
        /\ \A i \in 1 .. N : Resized(P)[i] = IF i <= n THEN P[i] ELSE P[n]
    BY <1>10, <2>0, ResizeOk
  <2>2. \A i \in 1 .. N : Resized(P)[i] = cs[i]
    <3> SUFFICES ASSUME NEW i \in 1 .. N PROVE Resized(P)[i] = cs[i]
      OBVIOUS
    <3>1. CASE i <= n
      BY <3>1, <2>1, <1>10
    <3>2. CASE ~(i <= n)
      <4>1. n \in 1 .. N /\ n \in 1 .. n
        BY <1>1, <1>6
      <4>2. Resized(P)[i] = cs[n]
        BY <3>2, <2>1, <1>10, <4>1
      <4>3. cs[n] = Commit(vs[n], bs[n]) /\ cs[i] = Commit(vs[n], bs[n])
        BY <3>2, <4>1, <1>3, <1>4 DEF cs
      <4>. QED
        BY <4>2, <4>3
    <3>. QED
      BY <3>1, <3>2
  <2>. QED
    BY <2>1, <2>2, <1>9, SeqEqual
<1>12. check_range_proofs(cs, P) = "Ok"
  <2> HIDE DEF cs, P
  <2>0. Len(P) # 0 /\ HasNextPow2(Len(P))
    BY <1>2, <1>10
  <2>1. resize_slice_to_pow2(P) = [status |-> "Ok", val |-> cs]
    BY <1>10, <1>11, <2>0, ResizeOk
  <2>2. verify_multiple(cs, cs) = "Ok"
    BY <1>7, <1>9 DEF verify_multiple
  <2>3. check_range_proofs(cs, P) =
           IF resize_slice_to_pow2(P).status # "Ok"
           THEN resize_slice_to_pow2(P).status
           ELSE verify_multiple(cs, resize_slice_to_pow2(P).val)
    BY DEF check_range_proofs
  <2>4. resize_slice_to_pow2(P).status = "Ok" /\ resize_slice_to_pow2(P).val = cs
    BY <2>1
  <2>. QED
    BY <2>2, <2>3, <2>4
<1>. QED
  BY <1>2, <1>6, <1>8, <1>9, <1>11, <1>12

\* A request's slices are sequences of values and of blindings.
LEMMA RequestsTyped ==
    ASSUME NEW r \in Requests
    PROVE  r.values \in Seq(Values) /\ r.serials \in Seq(Blindings)
<1>1. \A S, k : k \in 0 .. MaxLen => [1 .. k -> S] \subseteq Seq(S)
  OBVIOUS
<1>. QED
  BY <1>1 DEF Requests, SeqsUpTo

(***************************************************************************)
(* resize_slice_to_pow2 returns Ok, ResizeError or Panic, and Ok only for  *)
(* a non-empty slice whose length has a next power of two.                 *)
(***************************************************************************)
LEMMA ResizeStatus ==
    ASSUME NEW S, NEW s \in Seq(S)
    PROVE  /\ resize_slice_to_pow2(s).status \in {"Ok", "ResizeError", "Panic"}
           /\ resize_slice_to_pow2(s).status = "Ok" =>
                 Len(s) # 0 /\ HasNextPow2(Len(s))
BY DEF resize_slice_to_pow2

(***************************************************************************)
(* generate_range_proofs on any slices: a status of the engine, a proof    *)
(* that is a sequence of commitments and equal to the commitments, and, on *)
(* success, at least one commitment per value.                             *)
(***************************************************************************)
LEMMA GenerateTyped ==
    ASSUME NEW vs \in Seq(Values), NEW bs \in Seq(Blindings)
    PROVE  LET g == generate_range_proofs(vs, bs)
           IN  /\ g.status \in Statuses
               /\ g.proof \in Seq(Commitments)
               /\ g.commitments = g.proof
               /\ g.status = "Ok" => Len(vs) <= Len(g.commitments)
<1> DEFINE g == generate_range_proofs(vs, bs)
           vp == resize_slice_to_pow2(vs)
           sp == resize_slice_to_pow2(bs)
<1>1. vp.status \in {"Ok", "ResizeError", "Panic"}
      /\ sp.status \in {"Ok", "ResizeError", "Panic"}
  BY ResizeStatus
<1>2. <<>> \in Seq(Commitments)
  OBVIOUS
<1>3. CASE vp.status # "Ok"
  BY <1>1, <1>2, <1>3 DEF generate_range_proofs, Failed, Statuses
<1>4. CASE vp.status = "Ok" /\ sp.status # "Ok"
  BY <1>1, <1>2, <1>4 DEF generate_range_proofs, Failed, Statuses
<1>5. CASE vp.status = "Ok" /\ sp.status = "Ok"
  <2>1. Len(vs) # 0 /\ HasNextPow2(Len(vs)) /\ Len(bs) # 0 /\ HasNextPow2(Len(bs))
    BY <1>5, ResizeStatus
  <2> DEFINE rv == Resized(vs)
             rb == Resized(bs)
  <2>2. /\ vp = [status |-> "Ok", val |-> rv]
        /\ rv \in Seq(Values) /\ Len(rv) = NextPow2(Len(vs))
    BY <2>1, ResizeOk
  <2>3. /\ sp = [status |-> "Ok", val |-> rb]
        /\ rb \in Seq(Blindings) /\ Len(rb) = NextPow2(Len(bs))
    BY <2>1, ResizeOk
  <2>4. g = prove_multiple(rv, rb)
    BY <2>2, <2>3 DEF generate_range_proofs
  <2>5. Len(vs) \in Nat /\ Len(vs) <= NextPow2(Len(vs))
    BY <2>1, NextPow2Bounds
  <2>6. CASE Len(rv) # Len(rb) \/ PartyCap < Len(rv)
    BY <1>2, <2>4, <2>6 DEF prove_multiple, Failed, Statuses
  <2>7. CASE Len(rv) = Len(rb) /\ ~(PartyCap < Len(rv))
    <3> DEFINE cs == [i \in 1 .. Len(rv) |-> Commit(rv[i], rb[i])]
    <3>1. g = [status |-> "Ok", proof |-> cs, commitments |-> cs]
      BY <2>4, <2>7 DEF prove_multiple
    <3>2. cs \in Seq(Commitments) /\ Len(cs) = Len(rv)
      <4>1. \A i \in 1 .. Len(rv) : rv[i] \in Values /\ rb[i] \in Blindings
        BY <2>2, <2>3, <2>7, ElementOfSeq
      <4>2. Len(rv) \in Nat
        BY <2>2, LenProperties
      <4>. QED
        BY <4>1, <4>2 DEF Commit, Commitments
    <3>. QED
      BY <3>1, <3>2, <2>2, <2>5 DEF Statuses
  <2>. QED
    BY <2>6, <2>7
<1>. QED
  BY <1>3, <1>4, <1>5

\* check_range_proofs on any list of points returns a status of the engine.
LEMMA CheckTyped ==
    ASSUME NEW proof, NEW cs \in Seq(Commitments \cup {Malformed})
    PROVE  check_range_proofs(proof, cs) \in Statuses
<1>1. resize_slice_to_pow2(cs).status \in {"Ok", "ResizeError", "Panic"}
  BY ResizeStatus
<1>. QED
  BY <1>1 DEF check_range_proofs, verify_multiple, Statuses

-----------------------------------------------------------------------------
(***************************************************************************)
(* The inductive invariant.  A session's state is what its calls made it:  *)
(* the generator's result is generate_range_proofs of the request, the     *)
(* transaction carries the first len(values) of the returned commitments,  *)
(* and the recorded verification is check_range_proofs of the proof on the *)
(* list it was given.  TypeOK alone is not inductive: Publish needs the    *)
(* commitments to be at least as many as the values.                      *)
(***************************************************************************)
GenOf(r) == generate_range_proofs(r.values, r.serials)

Session ==
    /\ request = None => generated = None /\ published = None /\ verified = None
    /\ request # None => generated = GenOf(request)
    /\ published # None =>
          /\ request # None
          /\ generated.status = "Ok"
          /\ published = SubSeq(generated.commitments, 1, Len(request.values))
    /\ verified # None =>
          /\ published # None
          /\ verified.status = check_range_proofs(generated.proof, verified.on)

IInv == TypeOK /\ Session

\* The initial state satisfies the inductive invariant.
LEMMA InitIInv == Init => IInv
BY DEF Init, IInv, TypeOK, Session


\* The relay's alterations keep the received list a list of points.
LEMMA TamperTyped ==
    ASSUME NEW o \in Seq(Commitments \cup {Malformed}),
           NEW i \in 1 .. Len(o), NEW c \in Commitments \cup {Malformed}
    PROVE  /\ [o EXCEPT ![i] = c] \in Seq(Commitments \cup {Malformed})
           /\ SubSeq(o, 1, i - 1) \o SubSeq(o, i + 1, Len(o))
                 \in Seq(Commitments \cup {Malformed})
           /\ Append(o, c) \in Seq(Commitments \cup {Malformed})
<1> DEFINE M == Commitments \cup {Malformed}
<1>1. [o EXCEPT ![i] = c] \in Seq(M)
  BY ExceptSeq
<1>2. Len(o) \in Nat /\ \A j \in 1 .. Len(o) : o[j] \in M
  BY LenProperties, ElementOfSeq
<1>3. SubSeq(o, 1, i - 1) \in Seq(M) /\ SubSeq(o, i + 1, Len(o)) \in Seq(M)
  BY <1>2, SubSeqProperties
<1>4. SubSeq(o, 1, i - 1) \o SubSeq(o, i + 1, Len(o)) \in Seq(M)
  BY <1>3, ConcatProperties
<1>5. Append(o, c) \in Seq(M)
  BY AppendProperties
<1>. QED
  BY <1>1, <1>4, <1>5

(***************************************************************************)
(* Every step of the session preserves the inductive invariant: one step   *)
(* per action, the relay's three alterations handled together since they   *)
(* change only the received list and the alteration count.                 *)
(***************************************************************************)
LEMMA NextIInv == IInv /\ [Next]_vars => IInv'
<1> SUFFICES ASSUME IInv, [Next]_vars PROVE IInv'
  OBVIOUS
<1>0. TypeOK /\ Session
  BY DEF IInv
<1>1. ASSUME NEW r \in Requests, Generate(r) PROVE IInv'
  <2>1. r.values \in Seq(Values) /\ r.serials \in Seq(Blindings)
    BY RequestsTyped
  <2>2. LET g == GenOf(r)
        IN  g.status \in Statuses /\ g.proof \in Seq(Commitments)
            /\ g.commitments = g.proof
    BY <2>1, GenerateTyped DEF GenOf
  <2>3. published = None /\ verified = None
    BY <1>0, <1>1 DEF Generate, Session
  <2>4. TypeOK'
    BY <1>0, <1>1, <2>2, <2>3 DEF Generate, TypeOK, GenOf
  <2>5. Session'
    BY <1>1, <2>3, NoneAssumption DEF Generate, Session, GenOf
  <2>. QED
    BY <2>4, <2>5 DEF IInv
<1>2. CASE Publish
  <2>1. request # None /\ request \in Requests
    BY <1>0, <1>2 DEF Publish, Session, TypeOK
  <2>2. generated = GenOf(request)
    BY <1>0, <2>1 DEF Session
  <2>3. /\ generated.commitments \in Seq(Commitments)
        /\ Len(request.values) <= Len(generated.commitments)
    <3>1. request.values \in Seq(Values) /\ request.serials \in Seq(Blindings)
      BY <2>1, RequestsTyped
    <3>. QED
      BY <3>1, <2>2, <1>2, GenerateTyped DEF Publish, GenOf
  <2>4. published' \in Seq(Commitments)
    <3>1. Len(request.values) \in Nat /\ Len(generated.commitments) \in Nat
      BY <2>1, RequestsTyped, <2>3, LenProperties
    <3>2. \A i \in 1 .. Len(request.values) :
             generated.commitments[i] \in Commitments
      BY <2>3, <3>1, ElementOfSeq
    <3>. QED
      BY <1>2, <3>1, <3>2, SubSeqProperties DEF Publish
  <2>5. outputs' \in Seq(Commitments \cup {Malformed})
    BY <2>4, <1>2, SeqMonotonic DEF Publish
  <2>6. verified = None
    BY <1>0, <1>2 DEF Publish, Session
  <2>7. TypeOK'
    BY <1>0, <1>2, <2>4, <2>5 DEF Publish, TypeOK
  <2>8. Session'
    BY <1>0, <1>2, <2>1, <2>6 DEF Publish, Session
  <2>. QED
    BY <2>7, <2>8 DEF IInv
<1>3. ASSUME NEW newOutputs \in Seq(Commitments \cup {Malformed}),
             Tamper(newOutputs)
      PROVE  IInv'
  <2>1. TypeOK'
    BY <1>0, <1>3 DEF Tamper, TypeOK
  <2>2. Session'
    BY <1>0, <1>3 DEF Tamper, Session
  <2>. QED
    BY <2>1, <2>2 DEF IInv
<1>4. CASE ReplaceOutput \/ RemoveOutput \/ AppendOutput
  <2>1. outputs \in Seq(Commitments \cup {Malformed})
    BY <1>0 DEF TypeOK
  <2> DEFINE M == Commitments \cup {Malformed}
  <2>2. CASE ReplaceOutput
    <3>1. PICK i \in 1 .. Len(outputs), c \in M :
                 Tamper([outputs EXCEPT ![i] = c])
      BY <2>2 DEF ReplaceOutput
    <3>2. [outputs EXCEPT ![i] = c] \in Seq(M)
      BY <2>1, TamperTyped
    <3>. QED
      BY <3>1, <3>2, <1>3
  <2>3. CASE RemoveOutput
    <3>1. PICK i \in 1 .. Len(outputs) :
                 Tamper(SubSeq(outputs, 1, i - 1) \o SubSeq(outputs, i + 1, Len(outputs)))
      BY <2>3 DEF RemoveOutput
    <3>2. SubSeq(outputs, 1, i - 1) \o SubSeq(outputs, i + 1, Len(outputs)) \in Seq(M)
      BY <2>1, TamperTyped
    <3>. QED
      BY <3>1, <3>2, <1>3
  <2>4. CASE AppendOutput
    <3>1. PICK c \in M : Tamper(Append(outputs, c))
      BY <2>4 DEF AppendOutput
    <3>2. Append(outputs, c) \in Seq(M)
      BY <2>1, AppendProperties
    <3>. QED
      BY <3>1, <3>2, <1>3
  <2>. QED
    BY <1>4, <2>2, <2>3, <2>4
<1>5. CASE Verify
  <2>1. check_range_proofs(generated.proof, outputs) \in Statuses
    BY <1>0, CheckTyped DEF TypeOK
  <2>2. TypeOK'
    BY <1>0, <1>5, <2>1 DEF Verify, TypeOK
  <2>3. Session'
    BY <1>0, <1>5 DEF Verify, Session
  <2>. QED
    BY <2>2, <2>3 DEF IInv
<1>6. CASE UNCHANGED vars
  BY <1>0, <1>6 DEF vars, IInv, TypeOK, Session, GenOf
<1>. QED
  BY <1>1, <1>2, <1>4, <1>5, <1>6 DEF Next

(***************************************************************************)
(* Every reachable state of the session is well typed: the engine returns  *)
(* only its statuses, proofs are commitment vectors, and what the          *)
(* transaction carries and the validator receives are lists of points.     *)
(***************************************************************************)
THEOREM TypeCorrect == Spec => []TypeOK
<1>1. Init => IInv
  BY InitIInv
<1>2. IInv /\ [Next]_vars => IInv'
  BY NextIInv
<1>3. IInv => TypeOK
  BY DEF IInv
<1>. QED
  BY <1>1, <1>2, <1>3, PTL DEF Spec

(***************************************************************************)
(* With one blinding per value and at least one value, check_range_proofs  *)
(* accepts the proof generate_range_proofs returned on the list the        *)
(* transaction carries.                                                    *)
(***************************************************************************)
LEMMA CheckComplete ==
    ASSUME CallerPairsInputs, IInv, published # None
    PROVE  check_range_proofs(generated.proof, published) = "Ok"
<1>2. /\ request # None /\ request \in Requests
      /\ generated = GenOf(request)
      /\ generated.status = "Ok"
      /\ published = SubSeq(generated.commitments, 1, Len(request.values))
  BY DEF IInv, Session, TypeOK
<1>3. /\ request.values \in Seq(Values) /\ request.serials \in Seq(Blindings)
      /\ Len(request.values) = Len(request.serials)
      /\ Len(request.values) # 0
  <2>1. Len(request.values) = Len(request.serials) /\ Len(request.values) >= 1
    BY <1>2 DEF Requests
  <2>. QED
    BY <1>2, <2>1, RequestsTyped
<1>4. check_range_proofs(generated.proof,
                         SubSeq(generated.commitments, 1, Len(request.values))) = "Ok"
  BY <1>2, <1>3, Completeness DEF GenOf
<1>. QED
  BY <1>2, <1>4

\* The verification the state records accepted the carried list.
LEMMA IInvComplete == CallerPairsInputs /\ IInv => GenerateThenVerify
<1> SUFFICES ASSUME CallerPairsInputs, IInv, verified # None,
                    verified.on = published
             PROVE  verified.status = "Ok"
  BY DEF GenerateThenVerify
<1>1. /\ published # None
      /\ verified.status = check_range_proofs(generated.proof, published)
  BY DEF IInv, Session
<1>. QED
  BY <1>1, CheckComplete

(***************************************************************************)
(* What the relay can get accepted: any list on which check_range_proofs   *)
(* accepts the proof re-pads to the prover's commitment vector, which is   *)
(* the published list followed by copies of its last element; position by  *)
(* position the list is therefore the published one, then copies of its    *)
(* last.                                                                   *)
(***************************************************************************)
LEMMA CheckSound ==
    ASSUME CallerPairsInputs, IInv, published # None,
           NEW on \in Seq(Commitments \cup {Malformed}),
           check_range_proofs(generated.proof, on) = "Ok",
           NEW i \in 1 .. Len(on)
    PROVE  on[i] = published[IF i <= Len(published) THEN i ELSE Len(published)]
<1> DEFINE cs == generated.commitments
           n == Len(request.values)
<1>2. /\ request # None /\ request \in Requests
      /\ generated = GenOf(request)
      /\ generated.status = "Ok"
      /\ published = SubSeq(cs, 1, n)
  BY DEF IInv, Session, TypeOK
<1>3. /\ request.values \in Seq(Values) /\ request.serials \in Seq(Blindings)
      /\ Len(request.values) = Len(request.serials)
      /\ Len(request.values) # 0
  <2>1. Len(request.values) = Len(request.serials) /\ Len(request.values) >= 1
    BY <1>2 DEF Requests
  <2>. QED
    BY <1>2, <2>1, RequestsTyped
<1>4. /\ generated.proof = cs
      /\ cs \in Seq(Commitments)
      /\ n <= Len(cs)
      /\ HasNextPow2(n)
      /\ Resized(published) = cs
  BY <1>2, <1>3, Completeness DEF GenOf
<1>5. n \in Nat /\ n # 0 /\ published \in Seq(Commitments) /\ Len(published) = n
  BY <1>2, <1>3, <1>4, SubSeqProperties, LenProperties
<1>6. /\ Len(cs) = NextPow2(n)
      /\ \A j \in 1 .. NextPow2(n) :
            cs[j] = IF j <= n THEN published[j] ELSE published[n]
  BY <1>4, <1>5, ResizeOk
<1>8. Len(on) # 0 /\ HasNextPow2(Len(on))
  <2>1. CASE ~HasNextPow2(Len(on))
    <3>1. check_range_proofs(generated.proof, on) = "ResizeError"
      BY <2>1 DEF check_range_proofs, resize_slice_to_pow2
    <3>. QED
      BY <3>1
  <2>2. CASE Len(on) = 0
    <3>1. check_range_proofs(generated.proof, on) = "Panic"
      BY <2>2 DEF check_range_proofs, resize_slice_to_pow2, HasNextPow2
    <3>. QED
      BY <3>1
  <2>. QED
    BY <2>1, <2>2
<1>9. /\ resize_slice_to_pow2(on) = [status |-> "Ok", val |-> Resized(on)]
      /\ Len(Resized(on)) = NextPow2(Len(on))
      /\ \A j \in 1 .. NextPow2(Len(on)) :
            Resized(on)[j] = IF j <= Len(on) THEN on[j] ELSE on[Len(on)]
  BY <1>8, ResizeOk
<1>10. Resized(on) = cs
  <2>1. verify_multiple(cs, Resized(on)) = "Ok"
    BY <1>4, <1>9 DEF check_range_proofs
  <2>. QED
    BY <2>1 DEF verify_multiple
<1>11. i <= NextPow2(Len(on)) /\ i <= NextPow2(n)
  <2>1. Len(on) \in Nat /\ Len(on) <= NextPow2(Len(on))
    BY <1>8, NextPow2Bounds, LenProperties
  <2>. QED
    BY <2>1, <1>6, <1>9, <1>10
<1>12. on[i] = cs[i]
  BY <1>9, <1>10, <1>11
<1>. QED
  <2>1. i \in 1 .. NextPow2(n)
    BY <1>5, <1>11
  <2>. QED
    BY <1>5, <1>6, <1>12, <2>1

\* The verification the state records accepted only trailing copies.
LEMMA IInvTrailing == CallerPairsInputs /\ IInv => AcceptedOnlyTrailingCopies
<1> SUFFICES ASSUME CallerPairsInputs, IInv, verified # None,
                    verified.status = "Ok",
                    NEW i \in 1 .. Len(verified.on)
             PROVE  verified.on[i] =
                       published[IF i <= Len(published) THEN i ELSE Len(published)]
  BY DEF AcceptedOnlyTrailingCopies
<1>1. /\ published # None
      /\ verified.status = check_range_proofs(generated.proof, verified.on)
      /\ verified.on \in Seq(Commitments \cup {Malformed})
  BY DEF IInv, Session, TypeOK
<1>. QED
  BY <1>1, CheckSound

(***************************************************************************)
(* Only trailing copies slip through (spec 4.2): when callers pass one     *)
(* blinding per value, every list check_range_proofs accepts is the list   *)
(* the transaction carried, followed by copies of its last commitment, for *)
(* every party capacity, usize width and number of relay alterations.      *)
(***************************************************************************)
THEOREM TrailingCopiesForPairedCallers ==
    CallerPairsInputs => (Spec => []AcceptedOnlyTrailingCopies)
<1> SUFFICES ASSUME CallerPairsInputs PROVE Spec => []AcceptedOnlyTrailingCopies
  OBVIOUS
<1>1. Init => IInv
  BY InitIInv
<1>2. IInv /\ [Next]_vars => IInv'
  BY NextIInv
<1>3. IInv => AcceptedOnlyTrailingCopies
  BY IInvTrailing
<1>. QED
  BY <1>1, <1>2, <1>3, PTL DEF Spec

(***************************************************************************)
(* Completeness of the range-proof engine (spec 4.2): when callers pass    *)
(* one blinding per value, every check_range_proofs of the commitments a   *)
(* transaction carries accepts the proof generate_range_proofs returned,   *)
(* for every party capacity, usize width and batch size.                   *)
(***************************************************************************)
THEOREM CompleteForPairedCallers == CallerPairsInputs => (Spec => []GenerateThenVerify)
<1> SUFFICES ASSUME CallerPairsInputs PROVE Spec => []GenerateThenVerify
  OBVIOUS
<1>1. Init => IInv
  BY InitIInv
<1>2. IInv /\ [Next]_vars => IInv'
  BY NextIInv
<1>3. IInv => GenerateThenVerify
  BY IInvComplete
<1>. QED
  BY <1>1, <1>2, <1>3, PTL DEF Spec

=============================================================================
