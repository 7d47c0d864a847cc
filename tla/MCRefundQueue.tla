---------------------------- MODULE MCRefundQueue ----------------------------
(* Small instances of module RefundQueue. *)
EXTENDS RefundQueue

AllFaults == {"StoreError", "LostReply", "Crash", "Expiry"}
=============================================================================
