--------------------------- MODULE PaymentStates ---------------------------
(***************************************************************************)
(* The two lifecycles of the transaction kernel as tables, and the rules   *)
(* that read them (transaction_kernel/states.py).  Pure definitions: every *)
(* module that moves a checkout or a payment attempt extends this one.     *)
(***************************************************************************)
EXTENDS Naturals, FiniteSets

CheckoutState ==
    {"DRAFT", "QUOTED", "RESERVED", "APPROVAL_REQUIRED", "APPROVED",
     "EXECUTION_PENDING", "AWAITING_PAYMENT", "PAYMENT_FAILED",
     "PAYMENT_UNKNOWN", "INVALIDATED_AWAITING_PAYMENT_RESULT", "PAID",
     "INVALIDATED", "CANCELLED", "EXPIRED"}

PaymentState ==
    {"CREATED", "SUBMITTED", "AUTHORIZED", "CAPTURED", "FAILED", "EXPIRED",
     "UNKNOWN", "RECONCILING", "ESCALATED", "STALE_CAPTURE",
     "AUTO_REFUND_PENDING", "REFUND_PENDING", "PARTIALLY_REFUNDED",
     "REFUNDED", "REFUND_UNKNOWN", "REFUND_FAILED"}

Retire == {"INVALIDATED", "CANCELLED", "EXPIRED"}

(* The declared edges of a checkout version, one row per state. *)
CHECKOUT_TRANSITIONS ==
    [DRAFT |-> {"QUOTED", "CANCELLED", "EXPIRED"},
     QUOTED |-> {"APPROVAL_REQUIRED", "RESERVED"} \cup Retire,
     RESERVED |-> {"APPROVAL_REQUIRED"} \cup Retire,
     APPROVAL_REQUIRED |-> {"APPROVED"} \cup Retire,
     APPROVED |-> {"EXECUTION_PENDING"} \cup Retire,
     EXECUTION_PENDING |->
        {"AWAITING_PAYMENT", "PAYMENT_FAILED", "PAYMENT_UNKNOWN"} \cup Retire,
     AWAITING_PAYMENT |->
        {"PAID", "PAYMENT_FAILED", "PAYMENT_UNKNOWN",
         "INVALIDATED_AWAITING_PAYMENT_RESULT"},
     PAYMENT_FAILED |-> {"EXECUTION_PENDING"} \cup Retire,
     PAYMENT_UNKNOWN |->
        {"PAID", "PAYMENT_FAILED", "INVALIDATED_AWAITING_PAYMENT_RESULT"},
     INVALIDATED_AWAITING_PAYMENT_RESULT |-> {"INVALIDATED"},
     PAID |-> {}, INVALIDATED |-> {}, CANCELLED |-> {}, EXPIRED |-> {}]

(* The declared edges of a payment attempt. *)
PAYMENT_TRANSITIONS ==
    [CREATED |-> {"SUBMITTED", "FAILED", "EXPIRED", "UNKNOWN"},
     SUBMITTED |-> {"AUTHORIZED", "CAPTURED", "FAILED", "UNKNOWN"},
     AUTHORIZED |-> {"CAPTURED", "AUTO_REFUND_PENDING", "UNKNOWN"},
     CAPTURED |-> {"REFUND_PENDING", "STALE_CAPTURE"},
     FAILED |-> {}, EXPIRED |-> {},
     UNKNOWN |-> {"RECONCILING"},
     RECONCILING |->
        {"AUTHORIZED", "CAPTURED", "FAILED", "EXPIRED", "ESCALATED",
         "STALE_CAPTURE", "REFUNDED", "PARTIALLY_REFUNDED", "REFUND_FAILED"},
     ESCALATED |-> {},
     STALE_CAPTURE |-> {"REFUND_PENDING"},
     AUTO_REFUND_PENDING |-> {"REFUNDED", "REFUND_UNKNOWN", "REFUND_FAILED"},
     REFUND_PENDING |->
        {"PARTIALLY_REFUNDED", "REFUNDED", "REFUND_UNKNOWN", "REFUND_FAILED"},
     PARTIALLY_REFUNDED |-> {"REFUND_PENDING"},
     REFUNDED |-> {},
     REFUND_UNKNOWN |-> {"RECONCILING"},
     REFUND_FAILED |-> {"REFUND_PENDING", "ESCALATED"}]

TERMINAL_CHECKOUT_STATES == {"PAID"} \cup Retire
TERMINAL_PAYMENT_STATES == {"FAILED", "EXPIRED", "ESCALATED", "REFUNDED"}
UNCERTAIN_PAYMENT_STATES == {"UNKNOWN", "REFUND_UNKNOWN"}
NON_TERMINAL_PAYMENT_STATES == PaymentState \ TERMINAL_PAYMENT_STATES

(* can_transition and assert_transition: a single deliberate step. *)
CheckoutEdge(s, t) == s \in CheckoutState /\ t \in CHECKOUT_TRANSITIONS[s]
PaymentEdge(s, t) == s \in PaymentState /\ t \in PAYMENT_TRANSITIONS[s]

(* How far an attempt has progressed on the axis of known money. *)
Rank ==
    [CREATED |-> 0, SUBMITTED |-> 1, UNKNOWN |-> 2, RECONCILING |-> 3,
     EXPIRED |-> 4, FAILED |-> 5, AUTHORIZED |-> 6, CAPTURED |-> 7,
     STALE_CAPTURE |-> 8, AUTO_REFUND_PENDING |-> 9, REFUND_PENDING |-> 10,
     REFUND_UNKNOWN |-> 11, REFUND_FAILED |-> 12, PARTIALLY_REFUNDED |-> 13,
     REFUNDED |-> 14, ESCALATED |-> 15]

(* States reachable from each origin in one or more steps; a state of      *)
(* frontier is a destination but the walk does not continue through it.    *)
MutTransitiveClosure(table, frontier) ==        \* the frontier is walked through
    [s \in DOMAIN table |->
        LET walk[k \in 0 .. Cardinality(DOMAIN table)] ==
                IF k = 0 THEN table[s]
                ELSE UNION {{n} \cup table[n] : n \in walk[k - 1]}
        IN  walk[Cardinality(DOMAIN table)]]
TransitiveClosure(table, frontier) ==
    LET step(n) == {n} \cup IF n \in frontier THEN {} ELSE table[n]
    IN  [s \in DOMAIN table |->
            LET walk[k \in 0 .. Cardinality(DOMAIN table)] ==
                    IF k = 0 THEN table[s]
                    ELSE UNION {step(n) : n \in walk[k - 1]}
            IN  walk[Cardinality(DOMAIN table)]]

(* Where an inbound event may carry an attempt: into reconciliation, never *)
(* through it.                                                             *)
EventAdvance == TransitiveClosure(PAYMENT_TRANSITIONS, {"RECONCILING"})

(* monotonic_apply: join the state held with the state an event reports.   *)
MutMonotonicApply(current, incoming) ==          \* the last report wins
    IF current \in TERMINAL_PAYMENT_STATES THEN current ELSE incoming
MonotonicApply(current, incoming) ==
    IF current = incoming \/ current \in TERMINAL_PAYMENT_STATES THEN current
    ELSE IF current \in UNCERTAIN_PAYMENT_STATES
         THEN IF incoming = "RECONCILING" \/ Rank[incoming] > Rank[current]
              THEN "RECONCILING" ELSE current
    ELSE IF Rank[incoming] > Rank[current] /\ incoming \in EventAdvance[current]
         THEN incoming ELSE current
=============================================================================
