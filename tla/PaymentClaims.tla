--------------------------- MODULE PaymentClaims ---------------------------
(***************************************************************************)
(* Statements the repository makes about the payment lifecycle, in its     *)
(* documents, docstrings and comments, each as a formula of its own.  The  *)
(* code does something else; the runs that check them show what.           *)
(***************************************************************************)
EXTENDS PaymentLifecycle

(* checkouts.py:1286-1287, "Refuse to half-cancel: the provider request    *)
(* may be in flight": no version is cancelled around a request on the wire. *)
NeverHalfCancelled ==
    \A a \in Attempts :
        call[a] = "sending" => version[bound[a]] # "CANCELLED"

(* checkouts.py:1181-1183: when a cancellation is allowed, a CREATED       *)
(* payment attempt "is locked and moved to EXPIRED".                       *)
CancelExpiresAttempt ==
    \A a \in Attempts : payment[a] = "CREATED" /\ grant[a] = "REVOKED"
                          => version[bound[a]] # "CANCELLED"

(* states.py:497-499, of a report a terminal attempt absorbs: "it is simply *)
(* not applied here, and reconciliation adjudicates it".  An attempt that   *)
(* failed and then recorded a captured payment does not stay as it is.      *)
ContradictionIsAdjudicated ==
    \A a \in Attempts :
        payment[a] = "FAILED" /\ paymentId[a] # 0
        /\ tries[a][paymentId[a]] = "captured"
          ~> payment[a] # "FAILED" \/ cases[a] # {}

(* PROJECT_SPECIFICATION.md:1250, of an invalidated open checkout: "If     *)
(* only authorized, do not intentionally capture it; reconcile", and :1249 *)
(* "If no payment arrives, close the attempt".                             *)
ClosedIsReconciled ==
    \A a \in Attempts : closed[a] ~> ~Live(a)

(* handlers/stale_capture.py:79-81, "When the provider says money has      *)
(* already gone back, no automatic refund is admitted and a human review   *)
(* case is opened instead".                                                *)
ReturnedMoneyIsNotRefunded ==
    \A a \in Attempts : "provider_refunded" \in cases[a] => ~refund[a]
=============================================================================
