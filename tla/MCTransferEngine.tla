--------------------------- MODULE MCTransferEngine ---------------------------
(* Instances of TransferEngine. *)
EXTENDS TransferEngine
=============================================================================
