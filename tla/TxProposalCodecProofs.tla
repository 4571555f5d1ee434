----------------------- MODULE TxProposalCodecProofs -----------------------
(***************************************************************************)
(* Proofs about TxProposalCodec: the decoder's result is well typed, and   *)
(* every proposal TryFrom accepts satisfies the proposal invariants, for   *)
(* all values of the constants.                                           *)
(***************************************************************************)
EXTENDS TxProposalCodec, FiniteSetTheorems, SequenceTheorems, TLAPS

USE ConstantsAssumption

(***************************************************************************)
(* What TryFrom accepts: if some result of try_from(m) is Ok, then the fee *)
(* agrees, the map's keys are exactly the outlay indices and every value   *)
(* is an output index.  The key step is that len(map) = len(outlays) and   *)
(* every key below len(outlays) together force the key set to be all of   *)
(* 0 .. len(outlays)-1.                                                    *)
(***************************************************************************)
LEMMA TryFromAccepted ==
    ASSUME NEW m \in WireMsgs, NEW res \in try_from(m), res.status = "Ok"
    PROVE  /\ res.val.tx.fee = m.fee
           /\ DOMAIN res.val.map = 0 .. Len(res.val.outlays) - 1
           /\ \A k \in DOMAIN res.val.map : res.val.map[k] < res.val.tx.nout
           /\ res.val \in Proposals
<1>1. /\ m.fee = m.tx.fee
      /\ Malformed \notin Elems(m.input_list)
      /\ Malformed \notin Elems(m.outlay_list)
      /\ m.tx.valid
      /\ \E f \in DecodedMaps(m.map) : res = CheckIndices(m, f)
  BY DEF try_from, Rejected, UnspentTxOutParses, OutlayParses
<1>2. PICK f \in DecodedMaps(m.map) : res = CheckIndices(m, f)
  BY <1>1
<1> DEFINE n == Len(m.outlay_list)
<1>3. n \in Nat
  BY LenProperties DEF WireMsgs
<1>4. /\ DOMAIN m.map \subseteq Indices
      /\ \A k \in DOMAIN m.map : m.map[k] \in Indices
  BY DEF WireMsgs, WireMaps
<1>5. /\ f \in [DOMAIN f -> 0 .. UsizeMod - 1]
      /\ DOMAIN f \subseteq 0 .. UsizeMod - 1
  <2>1. \A x \in Indices : AsUsize(x) \in 0 .. UsizeMod - 1
    BY DEF AsUsize, Indices
  <2>. QED
    BY <1>2, <1>4, <2>1 DEF DecodedMaps
<1>6. /\ Cardinality(DOMAIN f) = n
      /\ \A k \in DOMAIN f : k < n /\ f[k] < m.tx.nout
      /\ res.val = [utxos |-> m.input_list, outlays |-> m.outlay_list,
                    tx |-> [fee |-> m.tx.fee, nout |-> m.tx.nout], map |-> f]
  <2>1. ~(Cardinality(DOMAIN f) # n)
    BY <1>2 DEF CheckIndices, Rejected
  <2>2. ~\E k \in DOMAIN f : k >= n \/ f[k] >= m.tx.nout
    BY <1>2, <2>1 DEF CheckIndices, Rejected
  <2>3. \A k \in DOMAIN f : k < n /\ f[k] < m.tx.nout
    <3> SUFFICES ASSUME NEW k \in DOMAIN f PROVE k < n /\ f[k] < m.tx.nout
      OBVIOUS
    <3>1. k \in Nat /\ f[k] \in Nat /\ m.tx.nout \in Nat
      BY <1>5 DEF WireMsgs, WireTxs
    <3>. QED
      BY <2>2, <3>1, <1>3
  <2>4. res = [status |-> "Ok",
               val |-> [utxos |-> m.input_list, outlays |-> m.outlay_list,
                        tx |-> [fee |-> m.tx.fee, nout |-> m.tx.nout],
                        map |-> f]]
    BY <1>2, <2>1, <2>2 DEF CheckIndices
  <2>. QED
    BY <2>1, <2>3, <2>4
<1>7. DOMAIN f = 0 .. n - 1
  <2>1. DOMAIN f \subseteq 0 .. n - 1
    BY <1>3, <1>6, <1>5
  <2>2. IsFiniteSet(0 .. n - 1) /\ Cardinality(0 .. n - 1) = n
    <3>1. /\ IsFiniteSet(0 .. n - 1)
          /\ Cardinality(0 .. n - 1) = IF 0 > n - 1 THEN 0 ELSE (n - 1) - 0 + 1
      <4>1. 0 \in Int /\ n - 1 \in Int
        BY <1>3
      <4>. QED
        BY <4>1, FS_Interval, Zenon
    <3>. QED
      BY <1>3, <3>1
  <2>. QED
    BY <2>1, <2>2, <1>6, FS_Subset
<1>8. res.val \in Proposals
  <2>1. m.input_list \in Seq(Utxos)
    BY <1>1, LenProperties DEF WireMsgs, Elems
  <2>2. m.outlay_list \in Seq(Outlays)
    BY <1>1, LenProperties DEF WireMsgs, Elems
  <2>3. f \in UsizeMaps
    BY <1>5 DEF UsizeMaps
  <2>. QED
    BY <1>6, <2>1, <2>2, <2>3 DEF Proposals, WireMsgs, WireTxs
<1>. QED
  BY <1>1, <1>6, <1>7, <1>8


\* Every result of try_from is a status with a proposal exactly when it is Ok.
LEMMA TryFromTyped ==
    ASSUME NEW m \in WireMsgs, NEW res \in try_from(m)
    PROVE  /\ res.status \in Statuses
           /\ res.status = "Ok" => res.val \in Proposals
           /\ res.status # "Ok" => res.val = None
<1>1. res.status \in Statuses /\ (res.status # "Ok" => res.val = None)
  BY DEF try_from, CheckIndices, Rejected, Statuses
<1>. QED
  BY <1>1, TryFromAccepted

\* From<&TxProposal> yields a message of the wire type for every proposal
\* mobilecoind builds: its indices fit the u64 fields.
LEMMA EncodeTyped ==
    ASSUME NEW p \in LocalProposals
    PROVE  ToProto(p) \in WireMsgs
<1>1. /\ p.utxos \in Seq(Utxos)
      /\ p.outlays \in Seq(Outlays)
      /\ Len(p.outlays) \in 1 .. MaxOutlays
      /\ p.tx \in [fee : Fees, nout : 1 .. MaxOutputs]
      /\ DOMAIN p.map = 0 .. Len(p.outlays) - 1
      /\ \A k \in DOMAIN p.map : p.map[k] \in Nat /\ p.map[k] < p.tx.nout
  BY DEF LocalProposals, SeqsBetween
<1>2. p.utxos \in Seq(Utxos \cup {Malformed}) /\ p.outlays \in Seq(Outlays \cup {Malformed})
  BY <1>1, SeqMonotonic
<1>3. [k \in DOMAIN p.map |-> p.map[k]] \in WireMaps
  <2>1. DOMAIN p.map \in SUBSET Indices
    BY <1>1 DEF Indices
  <2>2. [k \in DOMAIN p.map |-> p.map[k]] \in [DOMAIN p.map -> Indices]
    BY <1>1 DEF Indices
  <2>. QED
    BY <2>1, <2>2 DEF WireMaps
<1>. QED
  BY <1>1, <1>2, <1>3 DEF ToProto, WireMsgs, WireTxs

\* A function from a set of u64 indices into u64 indices is a wire map.
LEMMA WireMapIntro ==
    ASSUME NEW D \in SUBSET Indices, NEW f \in [D -> Indices]
    PROVE  f \in WireMaps
BY DEF WireMaps

\* One alteration by the client, to a message of the wire type.
LEMMA AlterStep ==
    ASSUME TypeOK, CanAlter, NEW w \in WireMsgs, Alter(w)
    PROVE  TypeOK' /\ wire' \in WireMsgs
BY DEF TypeOK, CanAlter, Alter

\* Each alteration the client can make keeps the message of the wire type.
LEMMA AlterTyped ==
    ASSUME TypeOK, CanAlter,
           AlterFee \/ AlterTxFee \/ AlterOutputCount \/ CorruptTx
           \/ CorruptInput \/ CorruptOutlay \/ RemoveOutlay
           \/ PutMapEntry \/ RemoveMapEntry
    PROVE  TypeOK' /\ wire' \in WireMsgs
<1>1. wire \in WireMsgs
  BY DEF TypeOK, CanAlter
<1>2. /\ DOMAIN wire.map \subseteq Indices
      /\ \A x \in DOMAIN wire.map : wire.map[x] \in Indices
  BY <1>1 DEF WireMsgs, WireMaps
<1>3. CASE AlterFee
  <2>1. PICK f \in Fees : Alter([wire EXCEPT !.fee = f])
    BY <1>3 DEF AlterFee
  <2>. QED
    BY <1>1, <2>1, AlterStep DEF WireMsgs
<1>4. CASE AlterTxFee
  <2>1. PICK f \in Fees : Alter([wire EXCEPT !.tx.fee = f])
    BY <1>4 DEF AlterTxFee
  <2>. QED
    BY <1>1, <2>1, AlterStep DEF WireMsgs, WireTxs
<1>5. CASE AlterOutputCount
  <2>1. PICK n \in 1 .. MaxOutputs : Alter([wire EXCEPT !.tx.nout = n])
    BY <1>5 DEF AlterOutputCount
  <2>. QED
    BY <1>1, <2>1, AlterStep DEF WireMsgs, WireTxs
<1>6. CASE CorruptTx
  BY <1>1, <1>6, AlterStep DEF CorruptTx, WireMsgs, WireTxs
<1>7. CASE CorruptInput
  <2>1. PICK i \in 1 .. Len(wire.input_list) :
          Alter([wire EXCEPT !.input_list[i] = Malformed])
    BY <1>7 DEF CorruptInput
  <2>2. [wire.input_list EXCEPT ![i] = Malformed] \in Seq(Utxos \cup {Malformed})
    BY <1>1, ExceptSeq DEF WireMsgs
  <2>. QED
    BY <1>1, <2>1, <2>2, AlterStep DEF WireMsgs
<1>8. CASE CorruptOutlay
  <2>1. PICK i \in 1 .. Len(wire.outlay_list) :
          Alter([wire EXCEPT !.outlay_list[i] = Malformed])
    BY <1>8 DEF CorruptOutlay
  <2>2. [wire.outlay_list EXCEPT ![i] = Malformed] \in Seq(Outlays \cup {Malformed})
    BY <1>1, ExceptSeq DEF WireMsgs
  <2>. QED
    BY <1>1, <2>1, <2>2, AlterStep DEF WireMsgs
<1>9. CASE RemoveOutlay
  <2> DEFINE ol == wire.outlay_list
             S == Outlays \cup {Malformed}
  <2>1. PICK i \in 1 .. Len(ol) :
          Alter([wire EXCEPT !.outlay_list =
                   SubSeq(@, 1, i - 1) \o SubSeq(@, i + 1, Len(@))])
    BY <1>9 DEF RemoveOutlay
  <2>2. ol \in Seq(S) /\ Len(ol) \in Nat
    BY <1>1 DEF WireMsgs
  <2>3. SubSeq(ol, 1, i - 1) \in Seq(S) /\ SubSeq(ol, i + 1, Len(ol)) \in Seq(S)
    BY <2>2, SubSeqProperties
  <2>4. SubSeq(ol, 1, i - 1) \o SubSeq(ol, i + 1, Len(ol)) \in Seq(S)
    BY <2>3, ConcatProperties
  <2>. QED
    BY <1>1, <2>1, <2>4, AlterStep DEF WireMsgs
<1>10. CASE PutMapEntry
  <2>1. PICK k \in Indices, v \in Indices :
          Alter([wire EXCEPT !.map =
                   [x \in DOMAIN @ \cup {k} |-> IF x = k THEN v ELSE @[x]]])
    BY <1>10 DEF PutMapEntry
  <2>2. [x \in DOMAIN wire.map \cup {k} |-> IF x = k THEN v ELSE wire.map[x]]
          \in WireMaps
    BY <1>2, WireMapIntro
  <2>. QED
    BY <1>1, <2>1, <2>2, AlterStep DEF WireMsgs
<1>11. CASE RemoveMapEntry
  <2>1. PICK k \in DOMAIN wire.map :
          Alter([wire EXCEPT !.map = [x \in DOMAIN @ \ {k} |-> @[x]]])
    BY <1>11 DEF RemoveMapEntry
  <2>2. [x \in DOMAIN wire.map \ {k} |-> wire.map[x]] \in WireMaps
    BY <1>2, WireMapIntro
  <2>. QED
    BY <1>1, <2>1, <2>2, AlterStep DEF WireMsgs
<1>. QED
  BY <1>3, <1>4, <1>5, <1>6, <1>7, <1>8, <1>9, <1>10, <1>11

\* Every step of the codec model keeps TypeOK.
LEMMA TypeStep == TypeOK /\ [Next]_vars => TypeOK'
<1> SUFFICES ASSUME TypeOK, [Next]_vars PROVE TypeOK'
  OBVIOUS
<1>1. CASE Encode
  BY <1>1, EncodeTyped DEF Encode, TypeOK
<1>2. CASE \/ AlterFee \/ AlterTxFee \/ AlterOutputCount \/ CorruptTx
           \/ CorruptInput \/ CorruptOutlay \/ RemoveOutlay
           \/ PutMapEntry \/ RemoveMapEntry
  <2>1. CanAlter
    BY <1>2 DEF AlterFee, AlterTxFee, AlterOutputCount, CorruptTx,
                CorruptInput, CorruptOutlay, RemoveOutlay, PutMapEntry,
                RemoveMapEntry
  <2>. QED
    BY <1>2, <2>1, AlterTyped
<1>3. CASE Decode
  <2>1. wire \in WireMsgs
    BY <1>3 DEF Decode, TypeOK
  <2>2. PICK res \in try_from(wire) :
          received' = [from |-> wire, status |-> res.status, val |-> res.val]
    BY <1>3 DEF Decode
  <2>. QED
    BY <1>3, <2>1, <2>2, TryFromTyped DEF Decode, TypeOK
<1>4. CASE UNCHANGED vars
  BY <1>4 DEF vars, TypeOK
<1>. QED
  BY <1>1, <1>2, <1>3, <1>4 DEF Next

(***************************************************************************)
(* Type correctness of the codec model.                                    *)
(***************************************************************************)
THEOREM TypeCorrect == Spec => []TypeOK
<1>1. Init => TypeOK
  BY DEF Init, TypeOK
<1>. QED
  BY <1>1, TypeStep, PTL DEF Spec

(***************************************************************************)
(* The proposal invariants hold of every proposal TryFrom accepts, for     *)
(* every value of the constants.  AcceptedWellFormed is inductive together *)
(* with TypeOK: only Decode changes received, and it stores a result of    *)
(* try_from together with the message it came from.                       *)
(***************************************************************************)
THEOREM AcceptedProposalsWellFormed == Spec => []AcceptedWellFormed
<1> DEFINE IInv == TypeOK /\ AcceptedWellFormed
<1>1. Init => IInv
  BY DEF Init, TypeOK, AcceptedWellFormed
<1>2. IInv /\ [Next]_vars => IInv'
  <2> SUFFICES ASSUME IInv, [Next]_vars PROVE IInv'
    OBVIOUS
  <2>1. TypeOK'
    BY TypeStep
  <2> SUFFICES AcceptedWellFormed'
    BY <2>1
  <2>2. CASE Decode
    <3>1. wire \in WireMsgs
      BY <2>2 DEF Decode, TypeOK
    <3>2. PICK res \in try_from(wire) :
            received' = [from |-> wire, status |-> res.status, val |-> res.val]
      BY <2>2 DEF Decode
    <3>. QED
      BY <3>1, <3>2, TryFromAccepted DEF AcceptedWellFormed
  <2>3. CASE ~Decode
    <3>1. received' = received
      <4>1. CASE Encode
        BY <4>1 DEF Encode
      <4>2. CASE \/ AlterFee \/ AlterTxFee \/ AlterOutputCount \/ CorruptTx
                 \/ CorruptInput \/ CorruptOutlay \/ RemoveOutlay
                 \/ PutMapEntry \/ RemoveMapEntry
        BY <4>2 DEF Alter, AlterFee, AlterTxFee, AlterOutputCount, CorruptTx,
                    CorruptInput, CorruptOutlay, RemoveOutlay, PutMapEntry,
                    RemoveMapEntry
      <4>3. CASE UNCHANGED vars
        BY <4>3 DEF vars
      <4>. QED
        BY <2>3, <4>1, <4>2, <4>3 DEF Next
    <3>. QED
      BY <3>1 DEF AcceptedWellFormed
  <2>. QED
    BY <2>1, <2>2, <2>3
<1>. QED
  BY <1>1, <1>2, PTL DEF Spec

-----------------------------------------------------------------------------
(***************************************************************************)
(* The cast leaves a map alone when its keys and values fit in a usize:    *)
(* `as usize` is then the identity on them, no two keys collide, and       *)
(* HashMap::from_iter rebuilds exactly the map of the message.             *)
(***************************************************************************)
LEMMA DecodedMapsWide ==
    ASSUME NEW D \in SUBSET Nat, NEW wm \in [D -> Nat],
           \A k \in D : k < UsizeMod /\ wm[k] < UsizeMod
    PROVE  DecodedMaps(wm) = {wm}
<1>1. \A k \in D : AsUsize(k) = k /\ AsUsize(wm[k]) = wm[k]
  BY DEF AsUsize
<1>2. {AsUsize(k) : k \in D} = D
  BY <1>1
<1>3. wm \in DecodedMaps(wm)
  <2>1. wm \in [D -> {AsUsize(wm[k]) : k \in D}]
    BY <1>1
  <2>2. \A c \in D : \E k \in DOMAIN wm : AsUsize(k) = c /\ wm[c] = AsUsize(wm[k])
    BY <1>1
  <2>. QED
    BY <1>2, <2>1, <2>2 DEF DecodedMaps
<1>4. ASSUME NEW f \in DecodedMaps(wm) PROVE f = wm
  <2>1. /\ f \in [D -> {AsUsize(wm[k]) : k \in D}]
        /\ \A c \in D : \E k \in D : AsUsize(k) = c /\ f[c] = AsUsize(wm[k])
    BY <1>2 DEF DecodedMaps
  <2>2. \A c \in D : f[c] = wm[c]
    BY <1>1, <2>1
  <2>. QED
    BY <2>1, <2>2
<1>. QED
  BY <1>3, <1>4

(***************************************************************************)
(* test_tx_proposal_conversion for every proposal mobilecoind builds: the *)
(* message From<&TxProposal> makes decodes, and only to that proposal.     *)
(***************************************************************************)
LEMMA RoundTripDecode ==
    ASSUME NEW p \in LocalProposals
    PROVE  try_from(ToProto(p)) = {[status |-> "Ok", val |-> p]}
<1> DEFINE m == ToProto(p)
           n == Len(p.outlays)
<1>1. /\ p.utxos \in Seq(Utxos)
      /\ p.outlays \in Seq(Outlays)
      /\ n \in 1 .. MaxOutlays
      /\ p.tx \in [fee : Fees, nout : 1 .. MaxOutputs]
      /\ p.map \in [0 .. n - 1 -> 0 .. MaxOutputs - 1]
      /\ \A k \in DOMAIN p.map : p.map[k] < p.tx.nout
  BY DEF LocalProposals, SeqsBetween
<1>2. /\ m.fee = m.tx.fee
      /\ m.tx.valid
      /\ m.input_list = p.utxos /\ m.outlay_list = p.outlays
      /\ m.map = p.map
  BY <1>1 DEF ToProto
<1>3. /\ \A u \in Elems(m.input_list) : UnspentTxOutParses(u)
      /\ \A o \in Elems(m.outlay_list) : OutlayParses(o)
  BY <1>1, <1>2 DEF Elems, UnspentTxOutParses, OutlayParses
<1>4. DecodedMaps(m.map) = {p.map}
  <2>1. /\ DOMAIN p.map \in SUBSET Nat
        /\ p.map \in [DOMAIN p.map -> Nat]
        /\ \A k \in DOMAIN p.map : k < UsizeMod /\ p.map[k] < UsizeMod
    <3>1. p.map \in [0 .. n - 1 -> 0 .. MaxOutputs - 1] /\ n \in 1 .. MaxOutlays
      BY <1>1
    <3>2. MaxOutlays <= UsizeMod /\ MaxOutputs <= UsizeMod
      BY ConstantsAssumption
    <3>3. DOMAIN p.map \in SUBSET Nat
      BY <3>1
    <3>4. p.map \in [DOMAIN p.map -> Nat]
      BY <3>1
    <3>5. \A k \in DOMAIN p.map : k < UsizeMod /\ p.map[k] < UsizeMod
      BY <3>1, <3>2
    <3>. QED
      BY <3>3, <3>4, <3>5
  <2>2. DecodedMaps(p.map) = {p.map}
    BY <2>1, DecodedMapsWide
  <2>. QED
    BY <1>2, <2>2
<1>5. CheckIndices(m, p.map) = [status |-> "Ok", val |-> p]
  <2>0. DOMAIN p.map = 0 .. n - 1 /\ n \in Nat
    BY <1>1
  <2>1. Cardinality(DOMAIN p.map) = n
    <3>1. Cardinality(0 .. n - 1) = n
      BY <2>0, FS_Interval
    <3>. QED
      BY <2>0, <3>1
  <2>2. ~\E k \in DOMAIN p.map : k >= n \/ p.map[k] >= m.tx.nout
    <3>1. m.tx.nout = p.tx.nout
      BY DEF ToProto
    <3>. QED
      BY <1>1, <2>0, <3>1
  <2>3. p = [utxos |-> m.input_list, outlays |-> m.outlay_list,
             tx |-> [fee |-> m.tx.fee, nout |-> m.tx.nout], map |-> p.map]
    BY <1>1, <1>2 DEF LocalProposals, ToProto
  <2>. QED
    BY <1>2, <2>1, <2>2, <2>3 DEF CheckIndices
<1>. QED
  BY <1>2, <1>3, <1>4, <1>5 DEF try_from

(***************************************************************************)
(* With a usize at least as wide as the wire's indices, a message TryFrom  *)
(* accepts is the encoding of the proposal it yields: no map entry is      *)
(* dropped or rewritten by the cast.                                       *)
(***************************************************************************)
LEMMA AcceptedIsEncoding ==
    ASSUME MaxIndex < UsizeMod,
           NEW m \in WireMsgs, NEW res \in try_from(m), res.status = "Ok"
    PROVE  ToProto(res.val) = m
<1>1. /\ m.fee = m.tx.fee
      /\ m.tx.valid
      /\ \E f \in DecodedMaps(m.map) : res = CheckIndices(m, f)
  BY DEF try_from, Rejected
<1>2. /\ DOMAIN m.map \subseteq Nat
      /\ m.map \in [DOMAIN m.map -> Nat]
      /\ \A k \in DOMAIN m.map : k < UsizeMod /\ m.map[k] < UsizeMod
  BY DEF WireMsgs, WireMaps, Indices
<1>3. res = CheckIndices(m, m.map)
  BY <1>1, <1>2, DecodedMapsWide
<1>4. res.val = [utxos |-> m.input_list, outlays |-> m.outlay_list,
                 tx |-> [fee |-> m.tx.fee, nout |-> m.tx.nout], map |-> m.map]
  BY <1>3 DEF CheckIndices, Rejected
<1>5. m = [input_list |-> m.input_list, outlay_list |-> m.outlay_list,
           tx |-> [fee |-> m.tx.fee, nout |-> m.tx.nout, valid |-> TRUE],
           fee |-> m.fee, map |-> [k \in DOMAIN m.map |-> m.map[k]]]
  BY <1>1, <1>2 DEF WireMsgs, WireTxs
<1>. QED
  BY <1>1, <1>4, <1>5 DEF ToProto

\* The last decode is a result of try_from on the message it records.
DecodedFrom ==
    received # None =>
        [status |-> received.status, val |-> received.val] \in try_from(received.from)

\* Only Decode writes received, and it writes a result of try_from.
LEMMA DecodedFromStep == TypeOK /\ DecodedFrom /\ [Next]_vars => DecodedFrom'
<1> SUFFICES ASSUME TypeOK, DecodedFrom, [Next]_vars PROVE DecodedFrom'
  OBVIOUS
<1>1. CASE Decode
  <2>1. PICK res \in try_from(wire) :
          received' = [from |-> wire, status |-> res.status, val |-> res.val]
    BY <1>1 DEF Decode
  <2>2. res = [status |-> res.status, val |-> res.val]
    BY <2>1 DEF try_from, CheckIndices, Rejected
  <2>. QED
    BY <2>1, <2>2 DEF DecodedFrom
<1>2. CASE ~Decode
  <2>1. received' = received
    <3>1. CASE Encode
      BY <3>1 DEF Encode
    <3>2. CASE \/ AlterFee \/ AlterTxFee \/ AlterOutputCount \/ CorruptTx
               \/ CorruptInput \/ CorruptOutlay \/ RemoveOutlay
               \/ PutMapEntry \/ RemoveMapEntry
      BY <3>2 DEF Alter, AlterFee, AlterTxFee, AlterOutputCount, CorruptTx,
                  CorruptInput, CorruptOutlay, RemoveOutlay, PutMapEntry,
                  RemoveMapEntry
    <3>3. CASE UNCHANGED vars
      BY <3>3 DEF vars
    <3>. QED
      BY <1>2, <3>1, <3>2, <3>3 DEF Next
  <2>. QED
    BY <2>1 DEF DecodedFrom
<1>. QED
  BY <1>1, <1>2

(***************************************************************************)
(* Round trip (spec section 8) for every size of proposal and every usize  *)
(* width: a proposal mobilecoind built, encoded and got back unaltered     *)
(* decodes to itself.                                                      *)
(***************************************************************************)
THEOREM RoundTrip == Spec => []EncodeDecodeRoundTrip
<1>1. Init => TypeOK /\ DecodedFrom
  BY DEF Init, TypeOK, DecodedFrom
<1>2. TypeOK /\ DecodedFrom /\ [Next]_vars => TypeOK' /\ DecodedFrom'
  BY TypeStep, DecodedFromStep
<1>3. TypeOK /\ DecodedFrom => EncodeDecodeRoundTrip
  <2> SUFFICES ASSUME TypeOK, DecodedFrom, received # None,
                      received.from = ToProto(sent)
               PROVE  received.status = "Ok" /\ received.val = sent
    BY DEF EncodeDecodeRoundTrip
  <2>1. [status |-> received.status, val |-> received.val]
           \in {[status |-> "Ok", val |-> sent]}
    BY RoundTripDecode DEF TypeOK, DecodedFrom
  <2>. QED
    BY <2>1
<1>. QED
  BY <1>1, <1>2, <1>3, PTL DEF Spec

(***************************************************************************)
(* When usize is at least as wide as the indices the wire carries (the    *)
(* 64-bit build), every message TryFrom accepts is the encoding of the     *)
(* proposal it yields; codec_usize32 shows the hypothesis is needed.       *)
(***************************************************************************)
THEOREM MatchesMessageWhenWide ==
    MaxIndex < UsizeMod => (Spec => []AcceptedMatchesMessage)
<1> SUFFICES ASSUME MaxIndex < UsizeMod PROVE Spec => []AcceptedMatchesMessage
  OBVIOUS
<1>1. Init => TypeOK /\ DecodedFrom
  BY DEF Init, TypeOK, DecodedFrom
<1>2. TypeOK /\ DecodedFrom /\ [Next]_vars => TypeOK' /\ DecodedFrom'
  BY TypeStep, DecodedFromStep
<1>3. TypeOK /\ DecodedFrom => AcceptedMatchesMessage
  <2> SUFFICES ASSUME TypeOK, DecodedFrom, received # None,
                      received.status = "Ok"
               PROVE  ToProto(received.val) = received.from
    BY DEF AcceptedMatchesMessage
  <2>1. received.from \in WireMsgs
    BY DEF TypeOK
  <2>. QED
    BY <2>1, AcceptedIsEncoding DEF DecodedFrom
<1>. QED
  BY <1>1, <1>2, <1>3, PTL DEF Spec

=============================================================================
