-------------------------- MODULE MCPaymentEvents --------------------------
(* Instances of PaymentEvents for TLC.                                     *)
EXTENDS PaymentEvents

(* What the providers' events and the platform's own refund records report. *)
MCReports == {"AUTHORIZED", "CAPTURED", "FAILED", "EXPIRED", "STALE_CAPTURE",
              "REFUND_PENDING", "REFUND_UNKNOWN", "REFUNDED", "RECONCILING"}
=============================================================================
