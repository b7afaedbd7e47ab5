--------------------------- MODULE MCDeliveryQueue ---------------------------
(* A reply that may be sent in part, a notice that is tried again, and a   *)
(* plain answer.                                                           *)
EXTENDS DeliveryQueue
=============================================================================
