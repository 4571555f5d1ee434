----------------------- MODULE RecordConversionsProofs -----------------------
(***************************************************************************)
(* Proofs that the UnspentTxOut and Outlay conversions are inverse to each *)
(* other for every set of TxOuts, key images, addresses and u64 values,    *)
(* not only the small ones the model checker enumerates.                   *)
(***************************************************************************)
EXTENDS MCRecordConversions, TLAPS

USE RecordAssumption

\* Decoding the encoding of a value gives the value back.
LEMMA DecodeEnc ==
    ASSUME NEW S, NEW x \in S
    PROVE  Decode(Enc(x), S) = Ok(x)
<1>1. \A y \in S : Enc(x) = Enc(y) <=> y = x
  BY DEF Enc
<1>. QED
  BY <1>1 DEF Decode

\* Bytes that are no encoding are rejected.
LEMMA DecodeGarbage ==
    ASSUME NEW S, S \subseteq TxOuts \cup KeyImages \cup Addresses
    PROVE  Decode(Garbage, S) = ConversionError
BY DEF Decode, Enc

\* Every field of a message of an external type decodes one way or the other.
LEMMA DecodeWire ==
    ASSUME NEW S, S \subseteq TxOuts \cup KeyImages \cup Addresses,
           NEW w \in Wire(S)
    PROVE  \/ w = Garbage /\ Decode(w, S) = ConversionError
           \/ \E x \in S : w = Enc(x) /\ w # Garbage /\ Decode(w, S) = Ok(x)
<1>1. CASE w = Garbage
  BY <1>1, DecodeGarbage
<1>2. CASE w # Garbage
  <2>1. PICK x \in S : w = Enc(x)
    BY <1>2 DEF Wire
  <2>. QED
    BY <1>2, <2>1, DecodeEnc
<1>. QED
  BY <1>1, <1>2

\* Encoding a record and decoding the message gives the record back.
LEMMA UnspentRoundTrip ==
    ASSUME NEW u \in UnspentTxOuts
    PROVE  TryFromUnspentTxOut(FromUnspentTxOut(u)) = Ok(u)
<1>1. Decode(Enc(u.tx_out), TxOuts) = Ok(u.tx_out)
  BY DecodeEnc DEF UnspentTxOuts
<1>2. Decode(Enc(u.key_image), KeyImages) = Ok(u.key_image)
  BY DecodeEnc DEF UnspentTxOuts
<1>. QED
  BY <1>1, <1>2 DEF TryFromUnspentTxOut, FromUnspentTxOut, Ok, UnspentTxOuts

LEMMA OutlayRoundTrip ==
    ASSUME NEW o \in OutlayRecords
    PROVE  TryFromOutlay(FromOutlay(o)) = Ok(o)
<1>1. Decode(Enc(o.receiver), Addresses) = Ok(o.receiver)
  BY DecodeEnc DEF OutlayRecords
<1>. QED
  BY <1>1 DEF TryFromOutlay, FromOutlay, Ok, OutlayRecords

(***************************************************************************)
(* A message TryFrom accepts is exactly one whose TxOut and KeyImage bytes *)
(* parse, and it is the encoding of what it decodes to.                    *)
(***************************************************************************)
LEMMA UnspentDecodeCanonical ==
    ASSUME NEW m \in ProtoUnspentTxOuts
    PROVE  /\ TryFromUnspentTxOut(m).status = "Ok" <=>
                 m.tx_out # Garbage /\ m.key_image # Garbage
           /\ TryFromUnspentTxOut(m).status = "Ok" =>
                 FromUnspentTxOut(TryFromUnspentTxOut(m).val) = m
<1>1. \/ m.tx_out = Garbage /\ Decode(m.tx_out, TxOuts) = ConversionError
      \/ \E x \in TxOuts : m.tx_out = Enc(x) /\ m.tx_out # Garbage
                           /\ Decode(m.tx_out, TxOuts) = Ok(x)
  BY DecodeWire DEF ProtoUnspentTxOuts
<1>2. \/ m.key_image = Garbage /\ Decode(m.key_image, KeyImages) = ConversionError
      \/ \E x \in KeyImages : m.key_image = Enc(x) /\ m.key_image # Garbage
                              /\ Decode(m.key_image, KeyImages) = Ok(x)
  BY DecodeWire DEF ProtoUnspentTxOuts
<1>. QED
  BY <1>1, <1>2 DEF TryFromUnspentTxOut, FromUnspentTxOut, Ok, ConversionError,
                    ProtoUnspentTxOuts

LEMMA OutlayDecodeCanonical ==
    ASSUME NEW m \in ProtoOutlays
    PROVE  /\ TryFromOutlay(m).status = "Ok" <=> m.receiver # Garbage
           /\ TryFromOutlay(m).status = "Ok" => FromOutlay(TryFromOutlay(m).val) = m
<1>1. \/ m.receiver = Garbage /\ Decode(m.receiver, Addresses) = ConversionError
      \/ \E x \in Addresses : m.receiver = Enc(x) /\ m.receiver # Garbage
                              /\ Decode(m.receiver, Addresses) = Ok(x)
  BY DecodeWire DEF ProtoOutlays
<1>. QED
  BY <1>1 DEF TryFromOutlay, FromOutlay, Ok, ConversionError, ProtoOutlays

\* The messages the model hands to TryFrom are messages.
MsgsTyped == utxoMsg \in ProtoUnspentTxOuts /\ outlayMsg \in ProtoOutlays

(***************************************************************************)
(* The UnspentTxOut and Outlay conversions are inverse to each other and   *)
(* reject exactly the messages whose external fields do not parse, for     *)
(* every domain of TxOuts, key images, addresses and u64 values.           *)
(***************************************************************************)
THEOREM ConversionsAreInverse == Spec => []ConversionsInverse
<1>1. Init => MsgsTyped
  BY DEF Init, MsgsTyped
<1>2. MsgsTyped /\ [Next]_<<utxoMsg, outlayMsg>> => MsgsTyped'
  BY DEF Next, MsgsTyped
<1>3. MsgsTyped => ConversionsInverse
  <2> SUFFICES ASSUME MsgsTyped PROVE ConversionsInverse
    OBVIOUS
  <2>1. \A u \in UnspentTxOuts :
           utxoMsg = FromUnspentTxOut(u) => TryFromUnspentTxOut(utxoMsg) = Ok(u)
    BY UnspentRoundTrip
  <2>2. \A o \in OutlayRecords :
           outlayMsg = FromOutlay(o) => TryFromOutlay(outlayMsg) = Ok(o)
    BY OutlayRoundTrip
  <2>3. /\ TryFromUnspentTxOut(utxoMsg).status = "Ok" <=>
              utxoMsg.tx_out # Garbage /\ utxoMsg.key_image # Garbage
        /\ TryFromUnspentTxOut(utxoMsg).status = "Ok" =>
              FromUnspentTxOut(TryFromUnspentTxOut(utxoMsg).val) = utxoMsg
    BY UnspentDecodeCanonical DEF MsgsTyped
  <2>4. /\ TryFromOutlay(outlayMsg).status = "Ok" <=> outlayMsg.receiver # Garbage
        /\ TryFromOutlay(outlayMsg).status = "Ok" =>
              FromOutlay(TryFromOutlay(outlayMsg).val) = outlayMsg
    BY OutlayDecodeCanonical DEF MsgsTyped
  <2>. QED
    BY <2>1, <2>2, <2>3, <2>4 DEF ConversionsInverse
<1>. QED
  BY <1>1, <1>2, <1>3, PTL DEF Spec

=============================================================================
