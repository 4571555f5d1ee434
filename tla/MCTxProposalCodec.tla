------------------------ MODULE MCTxProposalCodec --------------------------
(***************************************************************************)
(* Model-checking instance of TxProposalCodec: one input, up to two        *)
(* outlays and two outputs, fees 0 and 1, and map entries 0 .. 2, so that  *)
(* the client can write a key or an output index one past its bound.       *)
(***************************************************************************)
EXTENDS TxProposalCodec, TLC

CONSTANTS u1, o1, o2

MCUtxos == {u1}
MCOutlays == {o1, o2}

=============================================================================
