------------------------ MODULE MCRecordConversions -------------------------
(***************************************************************************)
(* Checks the UnspentTxOut and Outlay conversions on every message a       *)
(* client can send over one TxOut, one KeyImage, two addresses and the     *)
(* u64 values 0 and 1, so that every pair of integer fields can differ.    *)
(***************************************************************************)
EXTENDS RecordConversions

VARIABLES
    utxoMsg,    \* an UnspentTxOut message handed to TryFrom
    outlayMsg   \* an Outlay message handed to TryFrom

Init ==
    /\ utxoMsg \in ProtoUnspentTxOuts
    /\ outlayMsg \in ProtoOutlays

\* Each step hands the conversions other messages.
Next ==
    /\ utxoMsg' \in ProtoUnspentTxOuts
    /\ outlayMsg' \in ProtoOutlays

Spec == Init /\ [][Next]_<<utxoMsg, outlayMsg>>

(***************************************************************************)
(* The conversions are inverse to each other (test_unspent_tx_out_         *)
(* conversion and test_outlay_conversion, for every record and not one):   *)
(* a message that is the encoding of a record decodes to that record, and  *)
(* a message that decodes encodes back to itself, so no field is dropped,  *)
(* defaulted or taken from another; a message with bytes that do not parse *)
(* is rejected.                                                            *)
(***************************************************************************)
ConversionsInverse ==
    /\ \A u \in UnspentTxOuts :
          utxoMsg = FromUnspentTxOut(u) => TryFromUnspentTxOut(utxoMsg) = Ok(u)
    /\ \A o \in OutlayRecords :
          outlayMsg = FromOutlay(o) => TryFromOutlay(outlayMsg) = Ok(o)
    /\ TryFromUnspentTxOut(utxoMsg).status = "Ok" <=>
          utxoMsg.tx_out # Garbage /\ utxoMsg.key_image # Garbage
    /\ TryFromUnspentTxOut(utxoMsg).status = "Ok" =>
          FromUnspentTxOut(TryFromUnspentTxOut(utxoMsg).val) = utxoMsg
    /\ TryFromOutlay(outlayMsg).status = "Ok" <=> outlayMsg.receiver # Garbage
    /\ TryFromOutlay(outlayMsg).status = "Ok" =>
          FromOutlay(TryFromOutlay(outlayMsg).val) = outlayMsg

=============================================================================
