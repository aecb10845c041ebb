-------------------------- MODULE MCPaymentClaims --------------------------
(* Instances of PaymentClaims for TLC; one configuration for each claim.   *)
EXTENDS PaymentClaims
=============================================================================
