--------------------------- MODULE TxProposalCodec ---------------------------
(***************************************************************************)
(* The TxProposal wire conversions of mobilecoind/src/conversions.rs and   *)
(* the validation TryFrom performs on an inbound proposal.                 *)
(*                                                                         *)
(* mobilecoind hands a proposal to an API client as a protobuf message     *)
(* (From<&TxProposal>), and gets a message back that it decodes            *)
(* (TryFrom<&mobilecoind_api::TxProposal>) before anything uses it.  The   *)
(* client is outside the process: between the two it may alter any field. *)
(*                                                                         *)
(* Data is abstracted to what the checks look at: an UnspentTxOut or an    *)
(* Outlay is a model value (their conversions copy fields one for one; the *)
(* only way they fail is a TxOut, KeyImage or PublicAddress whose bytes do *)
(* not parse, the value Malformed); a transaction is its fee, its number   *)
(* of outputs and whether its encoding parses.  Map keys and values keep   *)
(* their widths: the wire carries u64, the decoder casts with `as usize`,  *)
(* which keeps the residue modulo UsizeMod = 2^(usize width).             *)
(***************************************************************************)
EXTENDS Naturals, Sequences, FiniteSets

CONSTANTS
    Utxos,          \* UnspentTxOut values (model values)
    Outlays,        \* Outlay values (model values)
    Malformed,      \* an element whose encoding does not parse
    None,           \* no message / no result yet
    Fees,           \* u64 fees the messages carry
    MaxInputs,      \* most inputs of a proposal
    MaxOutlays,     \* most outlays of a proposal
    MaxOutputs,     \* most outputs of a transaction
    MaxIndex,       \* largest u64 map key or value a message carries
    UsizeMod,       \* 2^(width of usize): `as usize` reduces modulo this
    MaxTamper       \* most alterations the client makes to a message

ASSUME ConstantsAssumption ==
    /\ Fees \subseteq Nat
    /\ MaxInputs \in Nat
    /\ MaxOutlays \in Nat \ {0}
    /\ MaxOutputs \in Nat \ {0}
    /\ MaxIndex \in Nat
    /\ UsizeMod \in Nat \ {0}
    /\ MaxTamper \in Nat
    /\ MaxOutlays <= UsizeMod /\ MaxOutputs <= UsizeMod
    /\ MaxOutlays <= MaxIndex + 1 /\ MaxOutputs <= MaxIndex + 1
    /\ Malformed \notin Utxos \cup Outlays

VARIABLES
    sent,       \* the TxProposal mobilecoind built and encoded
    wire,       \* the message as the client returns it (None before encoding)
    tampers,    \* alterations made to the message so far
    received    \* the last decode: the message decoded and its result

vars == <<sent, wire, tampers, received>>

Elems(s) == {s[i] : i \in DOMAIN s}

SeqsBetween(S, lo, hi) == UNION {[1 .. k -> S] : k \in lo .. hi}

Indices == 0 .. MaxIndex

\* map<u64, u64> of the protobuf message.
WireMaps == UNION {[D -> Indices] : D \in SUBSET Indices}

\* Proposals as mobilecoind builds them (TxProposal, spec section 3): every
\* outlay has its own output of the transaction.
LocalProposals ==
    {p \in [utxos : SeqsBetween(Utxos, 1, MaxInputs),
            outlays : SeqsBetween(Outlays, 1, MaxOutlays),
            tx : [fee : Fees, nout : 1 .. MaxOutputs],
            map : UNION {[0 .. k - 1 -> 0 .. MaxOutputs - 1] :
                            k \in 1 .. MaxOutlays}] :
        /\ DOMAIN p.map = 0 .. Len(p.outlays) - 1
        /\ \A k \in DOMAIN p.map : p.map[k] < p.tx.nout
        /\ \A j, k \in DOMAIN p.map : p.map[j] = p.map[k] => j = k}

WireTxs == [fee : Fees, nout : 1 .. MaxOutputs, valid : BOOLEAN]

WireMsgs == [input_list : Seq(Utxos \cup {Malformed}),
             outlay_list : Seq(Outlays \cup {Malformed}),
             tx : WireTxs,
             fee : Fees,
             map : WireMaps]

\* Mutation: the u64 cast to a type one bit narrower than usize.
AsUsizeNarrow(x) == x % (UsizeMod - 1)

\* `x as usize` for a u64 x.
AsUsize(x) == x % UsizeMod

-----------------------------------------------------------------------------
\* Mutation: set_fee omitted, so the message carries the protobuf default 0.
ToProtoWithoutFee(p) ==
    [input_list |-> p.utxos,
     outlay_list |-> p.outlays,
     tx |-> [fee |-> p.tx.fee, nout |-> p.tx.nout, valid |-> TRUE],
     fee |-> 0,
     map |-> [k \in DOMAIN p.map |-> p.map[k]]]

(***************************************************************************)
(* From<&TxProposal> for mobilecoind_api::TxProposal: the inputs, outlays  *)
(* and transaction are copied, the fee is read from tx.prefix.fee, and     *)
(* every usize key and value is widened to u64.                            *)
(***************************************************************************)
ToProto(p) ==
    [input_list |-> p.utxos,
     outlay_list |-> p.outlays,
     tx |-> [fee |-> p.tx.fee, nout |-> p.tx.nout, valid |-> TRUE],
     fee |-> p.tx.fee,
     map |-> [k \in DOMAIN p.map |-> p.map[k]]]

Rejected(err) == [status |-> err, val |-> None]

\* TryFrom<&mobilecoind_api::UnspentTxOut>: fails when the TxOut or the
\* KeyImage does not parse; every other field is copied.
UnspentTxOutParses(u) == u # Malformed

\* TryFrom<&mobilecoind_api::Outlay>: fails when the receiver's
\* PublicAddress does not parse.
OutlayParses(o) == o # Malformed

(***************************************************************************)
(* HashMap::from_iter over the message's map with both sides cast to       *)
(* usize.  Keys that collide after the cast leave one entry, from          *)
(* whichever of them the protobuf map's iteration yields last.             *)
(***************************************************************************)
DecodedMaps(wm) ==
    LET D == {AsUsize(k) : k \in DOMAIN wm}
    IN  {f \in [D -> {AsUsize(wm[k]) : k \in DOMAIN wm}] :
            \A c \in D : \E k \in DOMAIN wm : AsUsize(k) = c /\ f[c] = AsUsize(wm[k])}

\* Mutation: the length check of the map omitted.
CheckIndicesNoLen(m, f) ==
    IF \E k \in DOMAIN f : k >= Len(m.outlay_list) \/ f[k] >= m.tx.nout
    THEN Rejected("IndexOutOfBounds")
    ELSE [status |-> "Ok",
          val |-> [utxos |-> m.input_list,
                   outlays |-> m.outlay_list,
                   tx |-> [fee |-> m.tx.fee, nout |-> m.tx.nout],
                   map |-> f]]

\* The index checks of TryFrom, on the decoded map f.
CheckIndices(m, f) ==
    IF Cardinality(DOMAIN f) # Len(m.outlay_list)
    THEN Rejected("IndexOutOfBounds")
    ELSE IF \E k \in DOMAIN f : k >= Len(m.outlay_list) \/ f[k] >= m.tx.nout
    THEN Rejected("IndexOutOfBounds")
    ELSE [status |-> "Ok",
          val |-> [utxos |-> m.input_list,
                   outlays |-> m.outlay_list,
                   tx |-> [fee |-> m.tx.fee, nout |-> m.tx.nout],
                   map |-> f]]

(***************************************************************************)
(* TryFrom<&mobilecoind_api::TxProposal> for TxProposal: the set of        *)
(* results it can return for message m.  The fee check comes first; then   *)
(* the inputs, outlays and transaction are parsed (each failure is a       *)
(* ConversionError returned by `?`); then the map is rebuilt and checked.  *)
(***************************************************************************)
try_from(m) ==
    IF m.fee # m.tx.fee THEN {Rejected("FeeMismatch")}
    ELSE IF \/ \E u \in Elems(m.input_list) : ~UnspentTxOutParses(u)
            \/ \E o \in Elems(m.outlay_list) : ~OutlayParses(o)
            \/ ~m.tx.valid
    THEN {Rejected("ConversionError")}
    ELSE {CheckIndices(m, f) : f \in DecodedMaps(m.map)}

-----------------------------------------------------------------------------

Init ==
    /\ sent \in LocalProposals
    /\ wire = None
    /\ tampers = 0
    /\ received = None

\* mobilecoind returns the proposal to the client, encoded.
Encode ==
    /\ wire = None
    /\ wire' = ToProto(sent)
    /\ UNCHANGED <<sent, tampers, received>>

\* The client holds the message and may still alter it.
CanAlter == wire # None /\ tampers < MaxTamper

\* The client alters one field of the message.
Alter(newWire) ==
    /\ wire' = newWire
    /\ tampers' = tampers + 1
    /\ UNCHANGED <<sent, received>>

AlterFee ==
    /\ CanAlter
    /\ \E f \in Fees : Alter([wire EXCEPT !.fee = f])

AlterTxFee ==
    /\ CanAlter
    /\ \E f \in Fees : Alter([wire EXCEPT !.tx.fee = f])

AlterOutputCount ==
    /\ CanAlter
    /\ \E n \in 1 .. MaxOutputs : Alter([wire EXCEPT !.tx.nout = n])

CorruptTx ==
    /\ CanAlter
    /\ Alter([wire EXCEPT !.tx.valid = FALSE])

CorruptInput ==
    /\ CanAlter
    /\ \E i \in 1 .. Len(wire.input_list) :
        Alter([wire EXCEPT !.input_list[i] = Malformed])

CorruptOutlay ==
    /\ CanAlter
    /\ \E i \in 1 .. Len(wire.outlay_list) :
        Alter([wire EXCEPT !.outlay_list[i] = Malformed])

RemoveOutlay ==
    /\ CanAlter
    /\ \E i \in 1 .. Len(wire.outlay_list) :
        Alter([wire EXCEPT !.outlay_list =
                  SubSeq(@, 1, i - 1) \o SubSeq(@, i + 1, Len(@))])

PutMapEntry ==
    /\ CanAlter
    /\ \E k, v \in Indices :
        Alter([wire EXCEPT !.map =
                  [x \in DOMAIN @ \cup {k} |-> IF x = k THEN v ELSE @[x]]])

RemoveMapEntry ==
    /\ CanAlter
    /\ \E k \in DOMAIN wire.map :
        Alter([wire EXCEPT !.map = [x \in DOMAIN @ \ {k} |-> @[x]]])

\* mobilecoind decodes the message it got back.
Decode ==
    /\ wire # None
    /\ \E res \in try_from(wire) :
           received' = [from |-> wire, status |-> res.status, val |-> res.val]
    /\ UNCHANGED <<sent, wire, tampers>>

Next ==
    \/ Encode
    \/ AlterFee \/ AlterTxFee \/ AlterOutputCount \/ CorruptTx
    \/ CorruptInput \/ CorruptOutlay \/ RemoveOutlay
    \/ PutMapEntry \/ RemoveMapEntry
    \/ Decode

Spec == Init /\ [][Next]_vars


-----------------------------------------------------------------------------

Statuses == {"Ok", "FeeMismatch", "ConversionError", "IndexOutOfBounds"}

\* HashMap<usize, usize> of a decoded TxProposal.
UsizeMaps == UNION {[D -> 0 .. UsizeMod - 1] : D \in SUBSET (0 .. UsizeMod - 1)}

Proposals == [utxos : Seq(Utxos), outlays : Seq(Outlays),
              tx : [fee : Fees, nout : 1 .. MaxOutputs], map : UsizeMaps]

TypeOK ==
    /\ sent \in LocalProposals
    /\ wire \in WireMsgs \cup {None}
    /\ tampers \in 0 .. MaxTamper
    /\ received = None
       \/ /\ received.from \in WireMsgs
          /\ received.status \in Statuses
          /\ received.status = "Ok" => received.val \in Proposals
          /\ received.status # "Ok" => received.val = None

(***************************************************************************)
(* A proposal that TryFrom accepts satisfies the invariants of spec        *)
(* section 3 on which the submission path relies: its transaction's fee is *)
(* the fee the message declared, and its map sends every outlay index, and *)
(* nothing else, to an output of the transaction.  TryFrom checks only the *)
(* number of entries and that each lies in range; that the keys are then  *)
(* exactly 0 .. len(outlays)-1 follows only from both checks together.     *)
(***************************************************************************)
AcceptedWellFormed ==
    (received # None /\ received.status = "Ok") =>
        LET p == received.val
        IN  /\ p.tx.fee = received.from.fee
            /\ DOMAIN p.map = 0 .. Len(p.outlays) - 1
            /\ \A k \in DOMAIN p.map : p.map[k] < p.tx.nout

(***************************************************************************)
(* Round trip (spec section 8, test_tx_proposal_conversion): a proposal    *)
(* mobilecoind built, encoded and got back unaltered decodes to itself.    *)
(***************************************************************************)
EncodeDecodeRoundTrip ==
    (received # None /\ received.from = ToProto(sent)) =>
        /\ received.status = "Ok"
        /\ received.val = sent

(***************************************************************************)
(* A decoded proposal is the message it came from: encoding it again gives *)
(* back that message, so no map entry was dropped or rewritten by the      *)
(* decoding, and the indices TryFrom checked are the ones the client sent. *)
(***************************************************************************)
AcceptedMatchesMessage ==
    (received # None /\ received.status = "Ok") =>
        ToProto(received.val) = received.from

(***************************************************************************)
(* Spec section 9: each outlay maps to its own output.  Two outlays mapped *)
(* to one output would pay one recipient's output for both.                *)
(***************************************************************************)
AcceptedMappingInjective ==
    (received # None /\ received.status = "Ok") =>
        \A j, k \in DOMAIN received.val.map :
            received.val.map[j] = received.val.map[k] => j = k

=============================================================================
