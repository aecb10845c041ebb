--------------------------- MODULE PaymentEvents ---------------------------
(***************************************************************************)
(* The join as the webhook inbox uses it: one attempt, starting in any     *)
(* state, to which reported states are applied duplicated, late and in any *)
(* order.  held is the attempt's status, delivered the reports applied so  *)
(* far, started the state the first report found.                          *)
(***************************************************************************)
EXTENDS PaymentStates

CONSTANT Reports                    \* the states an event may report

ASSUME ReportsAssumption == Reports \subseteq PaymentState

VARIABLES started, held, delivered

vars == <<started, held, delivered>>

Init ==
    /\ started \in PaymentState
    /\ held = started
    /\ delivered = {}

Deliver(incoming) ==
    /\ held' = MonotonicApply(held, incoming)
    /\ delivered' = delivered \cup {incoming}
    /\ UNCHANGED started

Next == \E incoming \in Reports : Deliver(incoming)

Spec == Init /\ [][Next]_vars

-----------------------------------------------------------------------------
Unclear == UNCERTAIN_PAYMENT_STATES \cup {"RECONCILING"}

(* Where an attempt can get by declared steps through known outcomes only. *)
Known == PaymentState \ Unclear
KnownFrom ==
    [s \in Known |->
        LET walk[k \in 0 .. Cardinality(Known)] ==
                IF k = 0 THEN {s}
                ELSE LET met == walk[k - 1]
                     IN  met \cup {t \in Known : \E n \in met : PaymentEdge(n, t)}
        IN  walk[Cardinality(Known)]]

(* However many reports arrive, and in whatever order, events alone never  *)
(* carry an attempt whose outcome was known to a state that only leads     *)
(* through an unknown outcome and the verified reconciliation that ends it *)
(* (monotonic_apply, "Reachability").                                      *)
NeverPastReconciliation ==
    (delivered \cup {started}) \cap Unclear = {}
      => held \in KnownFrom[started]

(* Reports of one payment's own progress commute: an attempt that was told *)
(* only about authorization and capture holds the strongest of the two,    *)
(* whatever order and however often they came.                             *)
ProgressCommutes ==
    started = "SUBMITTED" /\ delivered \subseteq {"AUTHORIZED", "CAPTURED"}
      => held = IF "CAPTURED" \in delivered THEN "CAPTURED"
                ELSE IF "AUTHORIZED" \in delivered THEN "AUTHORIZED"
                ELSE "SUBMITTED"

(* Claimed by states.py:503-504: "an inbound failed can never turn an      *)
(* UNKNOWN into a FAILED".                                                 *)
FailedReportNeverResolvesUnknown ==
    started = "UNKNOWN" /\ delivered = {"FAILED"} => held # "FAILED"
=============================================================================
