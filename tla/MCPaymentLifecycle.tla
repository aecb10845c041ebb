------------------------- MODULE MCPaymentLifecycle -------------------------
(* Instances of PaymentLifecycle for TLC.                                  *)
EXTENDS PaymentLifecycle, TLC

WorkerSymmetry == Permutations(Workers)

(* The bound of the two-attempt instance.  The second attempt meets        *)
(* neither lost answers, time nor reconciliation, so that the late work    *)
(* left over from the first can be explored against it in full; refunds at *)
(* the provider and status probes are left to the one-attempt instances.   *)
(* Two workers reconcile at once only before there is a second version.    *)
SecondAttemptIsQuiet ==
    /\ \A a \in Attempts \ {1} :
        /\ clock[a] = "fresh" /\ rounds[a] = {}
        /\ call[a] \in {"idle", "sending", "ok"}
        /\ command[a] # "dead" /\ payment[a] # "UNKNOWN"
    /\ \A a \in Attempts : ~dashboard[a] /\ Probe \notin rounds[a]
    /\ Exists(2) => \E w \in Workers : \A u \in Workers \ {w} :
                       \A a \in Attempts : asking[a][u].step = "idle"
=============================================================================
