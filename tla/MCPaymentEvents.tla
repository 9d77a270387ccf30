--------------------------- MODULE MCPaymentEvents ---------------------------
(* Small instances of PaymentEvents for TLC. *)
EXTENDS PaymentEvents
=============================================================================
