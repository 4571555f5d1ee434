-------------------------- MODULE RecordConversions --------------------------
(***************************************************************************)
(* The field-by-field conversions of mobilecoind/src/conversions.rs        *)
(* between mobilecoind's UnspentTxOut and Outlay and their protobuf        *)
(* messages.  Integer fields are u64 on both sides and are copied.  The    *)
(* TxOut, KeyImage and PublicAddress fields go through the conversions of  *)
(* the transaction crate (not in this repository): encoding always         *)
(* succeeds, and decoding succeeds exactly on an encoding of a value; the  *)
(* client can also send bytes that are no encoding (Garbage).             *)
(***************************************************************************)
EXTENDS Naturals

CONSTANTS
    TxOuts,     \* TxOut values (model values)
    KeyImages,  \* KeyImage values (model values)
    Addresses,  \* PublicAddress values (model values)
    U64s,       \* the u64 values the integer fields take
    Garbage     \* bytes that decode to nothing

ASSUME RecordAssumption ==
    /\ U64s \subseteq Nat
    /\ \A x \in TxOuts \cup KeyImages \cup Addresses : Garbage # <<"enc", x>>

\* (&x).into(): the protobuf encoding of an external value.
Enc(x) == <<"enc", x>>

\* What a message field of an external type can hold.
Wire(S) == {Enc(x) : x \in S} \cup {Garbage}

Ok(v) == [status |-> "Ok", val |-> v]

ConversionError == [status |-> "ConversionError", val |-> Garbage]

\* T::try_from(&bytes): the value encoded, or a ConversionError.
Decode(w, S) ==
    IF \E x \in S : w = Enc(x) THEN Ok(CHOOSE x \in S : w = Enc(x))
    ELSE ConversionError

UnspentTxOuts ==
    [tx_out : TxOuts, subaddress_index : U64s, key_image : KeyImages,
     value : U64s, attempted_spend_height : U64s,
     attempted_spend_tombstone : U64s]

ProtoUnspentTxOuts ==
    [tx_out : Wire(TxOuts), subaddress_index : U64s,
     key_image : Wire(KeyImages), value : U64s,
     attempted_spend_height : U64s, attempted_spend_tombstone : U64s]

OutlayRecords == [value : U64s, receiver : Addresses]

ProtoOutlays == [value : U64s, receiver : Wire(Addresses)]

\* Mutation: the two attempted-spend fields set from each other.
FromUnspentTxOutSwapped(src) ==
    [tx_out |-> Enc(src.tx_out),
     subaddress_index |-> src.subaddress_index,
     key_image |-> Enc(src.key_image),
     value |-> src.value,
     attempted_spend_height |-> src.attempted_spend_tombstone,
     attempted_spend_tombstone |-> src.attempted_spend_height]

\* From<&UnspentTxOut> for mobilecoind_api::UnspentTxOut: one setter a field.
FromUnspentTxOut(src) ==
    [tx_out |-> Enc(src.tx_out),
     subaddress_index |-> src.subaddress_index,
     key_image |-> Enc(src.key_image),
     value |-> src.value,
     attempted_spend_height |-> src.attempted_spend_height,
     attempted_spend_tombstone |-> src.attempted_spend_tombstone]

(***************************************************************************)
(* TryFrom<&mobilecoind_api::UnspentTxOut>: the TxOut is decoded, then the *)
(* KeyImage (each `?` returns its error), then the integers are copied.    *)
(***************************************************************************)
TryFromUnspentTxOut(src) ==
    LET t == Decode(src.tx_out, TxOuts)
        k == Decode(src.key_image, KeyImages)
    IN  IF t.status # "Ok" THEN t
        ELSE IF k.status # "Ok" THEN k
        ELSE Ok([tx_out |-> t.val,
                 subaddress_index |-> src.subaddress_index,
                 key_image |-> k.val,
                 value |-> src.value,
                 attempted_spend_height |-> src.attempted_spend_height,
                 attempted_spend_tombstone |-> src.attempted_spend_tombstone])

\* From<&Outlay> for mobilecoind_api::Outlay.
FromOutlay(src) == [value |-> src.value, receiver |-> Enc(src.receiver)]

\* TryFrom<&mobilecoind_api::Outlay>: the receiver's PublicAddress is decoded.
TryFromOutlay(src) ==
    LET a == Decode(src.receiver, Addresses)
    IN  IF a.status # "Ok" THEN a
        ELSE Ok([value |-> src.value, receiver |-> a.val])

=============================================================================
