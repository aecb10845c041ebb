-------------------------- MODULE PaymentLifecycle --------------------------
(***************************************************************************)
(* One checkout from its first version to the money: the buyer's decision, *)
(* admission, the single create-order call of the Action Executor, the     *)
(* provider's news by webhook, callback and reconciliation, cancellation   *)
(* and the closing of the payment window.                                  *)
(*                                                                         *)
(* Every action is one database transaction of the code (the kernel locks  *)
(* the version row for the whole of it) or one step of the provider, the   *)
(* network or the clock between two transactions.  A read the code makes   *)
(* before it takes that lock is a step of its own.                         *)
(***************************************************************************)
EXTENDS PaymentStates

CONSTANTS
    MaxVersion,     \* versions of the checkout
    MaxAttempt,     \* payment attempts
    MaxTry,         \* payments a buyer may start on one provider order
    RoundBound,     \* RECONCILIATION_ATTEMPT_BOUND (6 in the code)
    Workers         \* executor processes that may reconcile at once

ASSUME BoundsAssumption ==
    /\ MaxVersion \in Nat \ {0}
    /\ MaxAttempt \in Nat \ {0}
    /\ MaxTry \in Nat \ {0}
    /\ RoundBound \in Nat \ {0}

Versions == 1 .. MaxVersion
Attempts == 1 .. MaxAttempt
Tries == 1 .. MaxTry
Probe == 0                          \* a buyer_status_ round: never escalates
Rounds == Probe .. RoundBound

VARIABLES
    version,     \* checkout_versions.status, NONE before the row exists
    approval,    \* approvals.status of the version's approval
    hold,        \* reservations.status of the version's stock
    bound,       \* payment_attempts.checkout_version, 0 before the row exists
    payment,     \* payment_attempts.status
    orderId,     \* payment_attempts.provider_order_id IS NOT NULL
    paymentId,   \* payment_attempts.provider_payment_id, 0 for NULL
    clock,       \* how much of the 120 seconds has passed
    closed,      \* payment_window_closed_at IS NOT NULL
    grant,       \* execution_grants.status of the create-order grant
    command,     \* the create-order command in the outbox
    call,        \* the worker's create-order call between its transactions
    rounds,      \* queued RECONCILE_PAYMENT commands, by round number
    asking,      \* a worker's reconciliation between its transactions
    orders,      \* a row of orders exists for the attempt
    cases,       \* human review cases opened for the attempt
    refund,      \* a STALE_CAPTURE refund was admitted
    placed,      \* provider orders created for the attempt
    tries,       \* the payments the buyer made on that order
    dashboard,   \* the merchant refunded the capture at the provider
    cancelling   \* cancel_checkout between its unlocked read and its lock

kernel == <<version, approval, hold, bound, payment, orderId, paymentId,
            closed, grant, orders, cases, refund>>
work == <<clock, command, call, rounds, asking, cancelling>>
provider == <<placed, tries, dashboard>>
vars == <<kernel, work, provider>>

-----------------------------------------------------------------------------
(* Vocabulary.                                                             *)

VersionStatus == CheckoutState \cup {"NONE"}
ApprovalStatus == {"NONE", "RECORDED", "CONSUMED", "INVALIDATED", "EXPIRED"}
HoldStatus == {"NONE", "CONSUMED", "RELEASED"}
GrantStatus == {"NONE", "ISSUED", "CONSUMED", "EXPIRED", "REVOKED"}
Answers == {"ok", "failed", "unknown", "mismatch"}
TryStatus == {"none", "authorized", "captured", "failed"}
CaseReasons == {"review", "provider_refunded"}

(* What the provider says of one payment: an evidence record.  pending is  *)
(* a payment the buyer has begun.                                          *)
Facts == [status : {"pending", "authorized", "captured", "failed"},
          try : Tries, refunded : BOOLEAN]
NoFact == [status |-> "none", try |-> 1, refunded |-> FALSE]

Asking == [step : {"idle", "asked", "answered"}, round : Rounds,
           knewOrder : BOOLEAN, knewPayment : 0 .. MaxTry,
           recovered : BOOLEAN, fact : Facts \cup {NoFact}, review : BOOLEAN]
NotAsking == [step |-> "idle", round |-> Probe, knewOrder |-> FALSE,
              knewPayment |-> 0, recovered |-> FALSE, fact |-> NoFact,
              review |-> FALSE]

(* uq_payment_attempts_one_non_terminal: the states the index counts.      *)
MutLiveStates == {"CREATED", "SUBMITTED", "AUTHORIZED", "RECONCILING"}
LiveStates == {"CREATED", "SUBMITTED", "AUTHORIZED", "UNKNOWN", "RECONCILING"}

Exists(v) == version[v] # "NONE"
Head(v) == Exists(v) /\ \A w \in Versions : w > v => ~Exists(w)
NextAttempt(a) == bound[a] = 0 /\ \A b \in Attempts : b < a => bound[b] # 0
Live(a) == payment[a] \in LiveStates

MutNEVER_FULFIL ==                              \* a cancelled version is forgotten
    {"INVALIDATED_AWAITING_PAYMENT_RESULT", "INVALIDATED", "EXPIRED"}
NEVER_FULFIL ==
    {"INVALIDATED_AWAITING_PAYMENT_RESULT", "INVALIDATED", "CANCELLED",
     "EXPIRED"}
SUPERSEDABLE_FROM == {"INVALIDATED", "CANCELLED", "EXPIRED"}
ALREADY_RESOLVED ==
    {"CAPTURED", "STALE_CAPTURE", "FAILED", "ESCALATED", "EXPIRED",
     "REFUNDED", "PARTIALLY_REFUNDED"}
WORTH_ASKING == {"RECONCILING", "SUBMITTED", "AUTHORIZED"}

(* _move_checkout_if_legal *)
MutMovedIfLegal(s, t) == s
MovedIfLegal(s, t) == IF CheckoutEdge(s, t) THEN t ELSE s

(* reservations.release for a confirmed cause *)
Released(h) == IF h = "CONSUMED" THEN "RELEASED" ELSE h

(* _escalate_locked: a live attempt is frozen, any other keeps its state.  *)
EscalatedFrom(s) ==
    IF s \in LiveStates \cup {"REFUND_UNKNOWN", "REFUND_FAILED"}
    THEN "ESCALATED" ELSE s

-----------------------------------------------------------------------------
Init ==
    /\ version = [v \in Versions |-> "NONE"]
    /\ approval = [v \in Versions |-> "NONE"]
    /\ hold = [v \in Versions |-> "NONE"]
    /\ bound = [a \in Attempts |-> 0]
    /\ payment = [a \in Attempts |-> "NONE"]
    /\ orderId = [a \in Attempts |-> FALSE]
    /\ paymentId = [a \in Attempts |-> 0]
    /\ clock = [a \in Attempts |-> "fresh"]
    /\ closed = [a \in Attempts |-> FALSE]
    /\ grant = [a \in Attempts |-> "NONE"]
    /\ command = [a \in Attempts |-> "none"]
    /\ call = [a \in Attempts |-> "idle"]
    /\ rounds = [a \in Attempts |-> {}]
    /\ asking = [a \in Attempts |-> [w \in Workers |-> NotAsking]]
    /\ orders = [a \in Attempts |-> FALSE]
    /\ cases = [a \in Attempts |-> {}]
    /\ refund = [a \in Attempts |-> FALSE]
    /\ placed = [a \in Attempts |-> 0]
    /\ tries = [a \in Attempts |-> [t \in Tries |-> "none"]]
    /\ dashboard = [a \in Attempts |-> FALSE]
    /\ cancelling = [version |-> 0, attempt |-> 0]

-----------------------------------------------------------------------------
(* The buyer and the shop, up to admission.                                *)

(* checkout_service: create_checkout then freeze_for_approval, one         *)
(* transaction; the review holds no stock.                                 *)
CreateCheckout ==
    /\ ~Exists(1)
    /\ version' = [version EXCEPT ![1] = "APPROVAL_REQUIRED"]
    /\ UNCHANGED <<approval, hold, bound, payment, orderId, paymentId, closed,
                   grant, orders, cases, refund, work, provider>>

(* The same service on a cart that already has a checkout: version N+1 of  *)
(* it, once N has ended.                                                   *)
SupersedeCheckout(v) ==
    /\ Head(v) /\ v < MaxVersion
    /\ version[v] \in SUPERSEDABLE_FROM
    /\ version' = [version EXCEPT ![v + 1] = "APPROVAL_REQUIRED"]
    /\ UNCHANGED <<approval, hold, bound, payment, orderId, paymentId, closed,
                   grant, orders, cases, refund, work, provider>>

RecordApproval(v) ==
    /\ version[v] = "APPROVAL_REQUIRED"
    /\ approval[v] # "RECORDED"                  \* one RECORDED per version
    /\ approval' = [approval EXCEPT ![v] = "RECORDED"]
    /\ version' = [version EXCEPT ![v] = "APPROVED"]
    /\ UNCHANGED <<hold, bound, payment, orderId, paymentId, closed, grant,
                   orders, cases, refund, work, provider>>

(* reject_approval: the buyer says no, before any attempt exists.          *)
RejectApproval(v) ==
    /\ version[v] \in {"APPROVAL_REQUIRED", "APPROVED"}
    /\ \A a \in Attempts : bound[a] = v => payment[a] \in TERMINAL_PAYMENT_STATES
    /\ version' = [version EXCEPT ![v] = "CANCELLED"]
    /\ approval' = [approval EXCEPT
                      ![v] = IF @ = "RECORDED" THEN "INVALIDATED" ELSE @]
    /\ hold' = [hold EXCEPT ![v] = Released(@)]
    /\ UNCHANGED <<bound, payment, orderId, paymentId, closed, grant, orders,
                   cases, refund, work, provider>>

(* What admit requires of version v under its lock before it re-reads the  *)
(* merchant: an approved latest version carrying an unspent approval, and, *)
(* read by the service just before, no live attempt on the checkout.       *)
Payable(v) ==
    /\ version[v] \notin {"NONE", "DRAFT", "QUOTED", "RESERVED",
                          "APPROVAL_REQUIRED"} \cup NEVER_FULFIL
    /\ Head(v)
    /\ approval[v] = "RECORDED"
    /\ \A a \in Attempts : ~Live(a)

(* _spend_approval_and_enqueue, in the transaction of the admission.       *)
SpendApprovalAndEnqueue(v, a) ==
    /\ CheckoutEdge(version[v], "EXECUTION_PENDING")
    /\ approval' = [approval EXCEPT ![v] = "CONSUMED"]
    /\ version' = [version EXCEPT ![v] = "EXECUTION_PENDING"]
    /\ command' = [command EXCEPT ![a] = "ready"]

(* admit, ALLOWED: the attempt, its grant, the spent hold and approval,    *)
(* and the create-order command commit together.                           *)
Admit(v, a) ==
    /\ Payable(v)
    /\ NextAttempt(a)
    /\ \A b \in Attempts : ~Live(b)              \* the single-winner index
    /\ bound' = [bound EXCEPT ![a] = v]
    /\ payment' = [payment EXCEPT ![a] = "CREATED"]
    /\ grant' = [grant EXCEPT ![a] = "ISSUED"]
    /\ hold' = [hold EXCEPT ![v] = "CONSUMED"]
    /\ SpendApprovalAndEnqueue(v, a)
    /\ UNCHANGED <<orderId, paymentId, closed, orders, cases, refund, clock,
                   call, rounds, asking, cancelling, provider>>

(* admit, REAPPROVAL_REQUIRED: the merchant moved, so N is retired and N+1 *)
(* is frozen for a fresh decision (_freeze_successor releases N's hold).   *)
AdmitFindsChange(v) ==
    /\ Payable(v) /\ v < MaxVersion
    /\ version' = [version EXCEPT ![v] = "INVALIDATED",
                                  ![v + 1] = "APPROVAL_REQUIRED"]
    /\ hold' = [hold EXCEPT ![v] = Released(@)]
    /\ UNCHANGED <<approval, bound, payment, orderId, paymentId, closed,
                   grant, orders, cases, refund, work, provider>>

(* admit, SOLD_OUT: nothing approved can be sold; N is retired alone.      *)
AdmitFindsNothing(v) ==
    /\ Payable(v)
    /\ version' = [version EXCEPT ![v] = "INVALIDATED"]
    /\ hold' = [hold EXCEPT ![v] = Released(@)]
    /\ UNCHANGED <<approval, bound, payment, orderId, paymentId, closed,
                   grant, orders, cases, refund, work, provider>>

-----------------------------------------------------------------------------
(* The Action Executor: handle_create_order.                               *)

(* consume_grant judges the grant's status and clock under its lock.       *)
MutSpendable(a) == grant[a] \in {"ISSUED", "CONSUMED"} /\ clock[a] = "fresh"
Spendable(a) == grant[a] = "ISSUED" /\ clock[a] = "fresh"

(* Transaction 1: the grant is spent before the request is made.           *)
ConsumeGrant(a) ==
    /\ command[a] = "ready" /\ Spendable(a)
    /\ grant' = [grant EXCEPT ![a] = "CONSUMED"]
    /\ call' = [call EXCEPT ![a] = "sending"]
    /\ UNCHANGED <<version, approval, hold, bound, payment, orderId, paymentId,
                   closed, orders, cases, refund, clock, command, rounds,
                   asking, cancelling, provider>>

(* The grant is revoked, expired or past due: _refuse, and the outbox      *)
(* buries the command.                                                     *)
RefuseCommand(a) ==
    /\ command[a] = "ready"
    /\ \/ grant[a] \in {"REVOKED", "EXPIRED"}
       \/ grant[a] = "ISSUED" /\ clock[a] # "fresh"
    /\ command' = [command EXCEPT ![a] = "dead"]
    /\ UNCHANGED <<kernel, clock, call, rounds, asking, cancelling, provider>>

(* The network call, outside every transaction.  A lost answer leaves the  *)
(* order created or not; mismatch is an order on terms nobody admitted.    *)
ProviderAnswers(a, answer) ==
    /\ call[a] = "sending"
    /\ call' = [call EXCEPT ![a] = answer]
    /\ \E n \in CASE answer = "failed" -> {0}
                  [] answer = "unknown" -> {0, 1}
                  [] OTHER -> {1} :
         placed' = [placed EXCEPT ![a] = @ + n]
    /\ UNCHANGED <<kernel, clock, command, rounds, asking, cancelling, tries,
                   dashboard>>

(* Transaction 3: record_provider_request and record_create_order_result,  *)
(* with the escalation or the first reconciliation round they call for.    *)
(* The worker may have lost its lease meanwhile, so the command may stay.  *)
RecordCreateOrderResult(a) ==
    LET v == bound[a]
        status == CASE call[a] = "ok" -> "SUBMITTED"
                    [] call[a] = "failed" -> "FAILED"
                    [] OTHER -> "UNKNOWN"
        step == CASE call[a] = "ok" -> "AWAITING_PAYMENT"
                  [] call[a] = "failed" -> "PAYMENT_FAILED"
                  [] OTHER -> "PAYMENT_UNKNOWN"
        redelivered == payment[a] = "UNKNOWN" /\ status = "UNKNOWN"
    IN  /\ call[a] \in Answers
        /\ payment[a] = "CREATED" \/ redelivered
        /\ payment' = [payment EXCEPT
                         ![a] = IF call[a] = "mismatch" THEN "ESCALATED"
                                ELSE status]
        /\ cases' = [cases EXCEPT
                       ![a] = IF call[a] = "mismatch" THEN @ \cup {"review"}
                              ELSE @]
        /\ orderId' = [orderId EXCEPT ![a] = @ \/ call[a] = "ok"]
        /\ version' = IF redelivered THEN version
                      ELSE [version EXCEPT ![v] = MovedIfLegal(@, step)]
        /\ hold' = [hold EXCEPT
                      ![v] = IF call[a] = "failed" THEN Released(@) ELSE @]
        /\ rounds' = [rounds EXCEPT
                        ![a] = IF call[a] = "unknown" THEN @ \cup {1} ELSE @]
        /\ call' = [call EXCEPT ![a] = "idle"]
        /\ \E state \in {command[a], "done"} :
             command' = [command EXCEPT ![a] = state]
        /\ UNCHANGED <<approval, bound, paymentId, closed, grant, orders,
                       refund, clock, asking, cancelling, provider>>

(* PaymentStateConflictError: another actor moved the attempt first.  The  *)
(* transaction rolls back, the answer is gone and the command is retried.  *)
RecordConflict(a) ==
    /\ call[a] \in Answers
    /\ payment[a] # "CREATED"
    /\ ~(payment[a] = "UNKNOWN" /\ call[a] \in {"unknown", "mismatch"})
    /\ call' = [call EXCEPT ![a] = "idle"]
    /\ UNCHANGED <<kernel, clock, command, rounds, asking, cancelling,
                   provider>>

(* _resume_after_consumed_grant: a redelivered command whose grant is      *)
(* spent never sends; a missing outcome becomes unknown and is reconciled. *)
Resume(a) ==
    LET v == bound[a]
        unrecorded == ~orderId[a] /\ payment[a] = "CREATED"
        unknown == ~orderId[a] /\ payment[a] \in {"CREATED", "UNKNOWN"}
    IN  /\ command[a] = "ready" /\ grant[a] = "CONSUMED"
        /\ payment' = [payment EXCEPT ![a] = IF unrecorded THEN "UNKNOWN" ELSE @]
        /\ version' = [version EXCEPT
                         ![v] = IF unrecorded
                                THEN MovedIfLegal(@, "PAYMENT_UNKNOWN") ELSE @]
        /\ rounds' = [rounds EXCEPT ![a] = IF unknown THEN @ \cup {1} ELSE @]
        /\ command' = [command EXCEPT ![a] = "done"]
        /\ UNCHANGED <<approval, hold, bound, orderId, paymentId, closed, grant,
                       orders, cases, refund, clock, call, asking, cancelling,
                       provider>>

(* A worker dies: what it had in flight is lost, queued commands are not.  *)
(* A request already on the wire may or may not have reached the provider. *)
CrashInCall(a) ==
    /\ call[a] # "idle"
    /\ call' = [call EXCEPT ![a] = "idle"]
    /\ \E n \in IF call[a] = "sending" THEN {0, 1} ELSE {0} :
         placed' = [placed EXCEPT ![a] = @ + n]
    /\ UNCHANGED <<kernel, clock, command, rounds, asking, cancelling, tries,
                   dashboard>>

CrashInReconcile(a, w) ==
    /\ asking[a][w].step # "idle"
    /\ asking' = [asking EXCEPT ![a][w] = NotAsking]
    /\ UNCHANGED <<kernel, clock, command, call, rounds, cancelling, provider>>

-----------------------------------------------------------------------------
(* The provider and the buyer at its payment surface (external), and time. *)

(* The buyer pays on the order the platform showed; a buyer whose try      *)
(* failed, or who is still waiting on one, may start another in the same   *)
(* window.  An order is captured at most once.                             *)
BuyerPays(a, t, result) ==
    /\ orderId[a]
    /\ \A u \in Tries : tries[a][u] # "captured" /\ (u < t => tries[a][u] # "none")
    /\ \/ tries[a][t] = "none"
       \/ tries[a][t] = "authorized" /\ result = "captured"
    /\ tries' = [tries EXCEPT ![a][t] = result]
    /\ UNCHANGED <<kernel, work, placed, dashboard>>

MerchantRefunds(a) ==
    /\ ~dashboard[a]
    /\ \E t \in Tries : tries[a][t] = "captured"
    /\ dashboard' = [dashboard EXCEPT ![a] = TRUE]
    /\ UNCHANGED <<kernel, work, placed, tries>>

(* The grant's expiry is stamped before the window's, both 120 seconds.    *)
(* Neither is read again once the attempt is no longer live.               *)
TimePasses(a) ==
    /\ Live(a) /\ clock[a] # "due"
    /\ clock' = [clock EXCEPT ![a] = IF @ = "fresh" THEN "lapsed" ELSE "due"]
    /\ UNCHANGED <<kernel, command, call, rounds, asking, cancelling, provider>>

(* Every event the provider has emitted about a payment: it can be         *)
(* delivered late, again or after a newer one, and may never come.         *)
Emitted(a) ==
    {f \in Facts :
        /\ f.status # "pending"
        /\ \/ tries[a][f.try] = f.status
           \/ f.status = "authorized" /\ tries[a][f.try] = "captured"
        /\ f.refunded => f.status = "captured" /\ dashboard[a]}

(* What a fetch answers now: the payment asked for, else the one that has  *)
(* progressed furthest, else one just begun or none at all.  Two payments  *)
(* with money in them have no answer.                                      *)
Fetched(a, known) ==
    LET now(t) == [status |-> tries[a][t], try |-> t,
                   refunded |-> tries[a][t] = "captured" /\ dashboard[a]]
        made == {t \in Tries : tries[a][t] # "none"}
        held == {t \in made : tries[a][t] # "failed"}
        begun == {[status |-> "pending", try |-> t, refunded |-> FALSE] :
                    t \in Tries \ made}
    IN  CASE known # 0 -> {now(t) : t \in {known} \cap made}
          [] known = 0 /\ held # {} -> {now(t) : t \in {u \in held : held = {u}}}
          [] OTHER -> {now(t) : t \in made} \cup begun

-----------------------------------------------------------------------------
(* payment_window.close_due.                                               *)

(* sent: the create grant was consumed, or the attempt has moved on.       *)
Sent(a) == grant[a] = "CONSUMED" \/ payment[a] # "CREATED"

WindowDue(a) == clock[a] = "due" /\ ~closed[a] /\ Live(a)

(* What closing does: nothing, cancel an unsent attempt, close a sent one, *)
(* or raise because the version the unknown outcome belongs to was         *)
(* cancelled, which aborts the caller's transaction.                       *)
Closing(a) ==
    LET s == version[bound[a]]
    IN  CASE ~WindowDue(a) -> "nothing"
          [] WindowDue(a) /\ ~Sent(a) ->
                IF CheckoutEdge(s, "CANCELLED") THEN "cancels" ELSE "nothing"
          [] WindowDue(a) /\ Sent(a) /\ payment[a] = "CREATED" ->
                IF MovedIfLegal(s, "PAYMENT_UNKNOWN")
                     \in {"AWAITING_PAYMENT", "PAYMENT_UNKNOWN"}
                THEN "closes" ELSE "raises"
          [] OTHER ->
                IF s \in {"AWAITING_PAYMENT", "PAYMENT_UNKNOWN",
                          "INVALIDATED_AWAITING_PAYMENT_RESULT"}
                THEN "closes" ELSE "nothing"

-----------------------------------------------------------------------------
(* payments.apply_provider_evidence on an attempt whose order is known:    *)
(* close_due runs first, under the same locks.                             *)

(* The version status the evidence is judged against.                      *)
MutJudged(a) == version[bound[a]]               \* the window is not closed first
Judged(a) ==
    IF Closing(a) = "closes" THEN "INVALIDATED_AWAITING_PAYMENT_RESULT"
    ELSE version[bound[a]]

(* settled_payment_id_conflict: money held on a second payment.            *)
MoneyHeld(f) == f.status \in {"authorized", "captured"}
Mismatch(a, f) == MoneyHeld(f) /\ paymentId[a] \notin {0, f.try}

MutIncoming(a, f) == IF f.status = "failed" THEN "FAILED" ELSE "CAPTURED"
Incoming(a, f) ==
    CASE f.status = "failed" -> "FAILED"
      [] f.status = "authorized" -> "AUTHORIZED"
      [] OTHER -> IF Judged(a) \in NEVER_FULFIL THEN "STALE_CAPTURE"
                  ELSE "CAPTURED"

(* The attempt after the evidence; a payment only begun moves nothing, and *)
(* a failed report of one other than the recorded payment ends nothing.    *)
Joined(a, f) ==
    CASE Mismatch(a, f) -> EscalatedFrom(payment[a])
      [] f.status = "pending" -> payment[a]
      [] f.status = "failed" /\ paymentId[a] \notin {0, f.try} -> payment[a]
      [] OTHER -> MonotonicApply(payment[a], Incoming(a, f))

(* admit_stale_refund, in the same transaction: one refund per stale       *)
(* capture, withheld when the provider reports money already went back.    *)
StaleCapture(a, f) == ~Mismatch(a, f) /\ Joined(a, f) = "STALE_CAPTURE"
AdmitsRefund(a, f) == StaleCapture(a, f) /\ ~f.refunded /\ ~refund[a]

AfterEvidence(a, f) ==
    IF AdmitsRefund(a, f) THEN "REFUND_PENDING" ELSE Joined(a, f)

(* A verified failure ends the attempt and frees its stock, once.          *)
MutNewlyFails(a, f) == f.status = "failed"
NewlyFails(a, f) == Joined(a, f) = "FAILED" /\ payment[a] # "FAILED"

(* The rows the evidence changes, besides the attempt's own status.        *)
EvidenceApplied(a, f) ==
    LET v == bound[a]
        after == Joined(a, f)
        moved == CASE after = "CAPTURED" /\ ~Mismatch(a, f) -> "PAID"
                   [] NewlyFails(a, f) ->
                        IF Judged(a) = "INVALIDATED_AWAITING_PAYMENT_RESULT"
                        THEN "INVALIDATED" ELSE "PAYMENT_FAILED"
                   [] OTHER -> Judged(a)
    IN  /\ version' = [version EXCEPT ![v] = MovedIfLegal(Judged(a), moved)]
        /\ hold' = [hold EXCEPT
                      ![v] = IF NewlyFails(a, f) \/ Closing(a) = "closes"
                             THEN Released(@) ELSE @]
        /\ closed' = [closed EXCEPT ![a] = @ \/ Closing(a) = "closes"]
        /\ paymentId' = [paymentId EXCEPT
                           ![a] = IF @ = 0 /\ MoneyHeld(f)
                                  THEN f.try ELSE @]
        /\ orders' = [orders EXCEPT
                        ![a] = @ \/ (after = "CAPTURED" /\ ~Mismatch(a, f))]
        /\ refund' = [refund EXCEPT ![a] = @ \/ AdmitsRefund(a, f)]

MutCasesOf(a, f) == IF Mismatch(a, f) THEN {"review"} ELSE {}
CasesOf(a, f) ==
    (IF Mismatch(a, f) THEN {"review"} ELSE {}) \cup
    (IF StaleCapture(a, f) /\ f.refunded THEN {"provider_refunded"} ELSE {})

(* handle_apply_webhook.  An event about an attempt with no provider order *)
(* is stamped IGNORED and changes nothing.                                 *)
ApplyWebhook(a, f) ==
    /\ orderId[a] /\ f \in Emitted(a)
    /\ EvidenceApplied(a, f)
    /\ payment' = [payment EXCEPT ![a] = AfterEvidence(a, f)]
    /\ cases' = [cases EXCEPT ![a] = @ \cup CasesOf(a, f)]
    /\ UNCHANGED <<approval, bound, orderId, grant, work, provider>>

(* verify_client_return and record_browser_callback: the buyer's browser   *)
(* reports a payment; its id is kept and a reconciliation queued.          *)
BrowserCallback(a, t) ==
    /\ orderId[a] /\ paymentId[a] = 0
    /\ tries[a][t] \in {"authorized", "captured"}
    /\ paymentId' = [paymentId EXCEPT ![a] = t]
    /\ rounds' = [rounds EXCEPT ![a] = @ \cup {1}]
    /\ UNCHANGED <<version, approval, hold, bound, payment, orderId, closed,
                   grant, orders, cases, refund, clock, command, call, asking,
                   cancelling, provider>>

(* The buyer asks for the status of a live payment: a probe while it is    *)
(* open, a recovery round while its outcome is unknown.  The code answers a *)
(* repeated request from its idempotency record; asking again is left in.  *)
AskStatus(a) ==
    /\ orderId[a] /\ Live(a)
    /\ rounds' = [rounds EXCEPT
                    ![a] = @ \cup {IF payment[a] \in {"SUBMITTED", "AUTHORIZED"}
                                  THEN Probe ELSE 1}]
    /\ UNCHANGED <<kernel, clock, command, call, asking, cancelling, provider>>

-----------------------------------------------------------------------------
(* The Action Executor: handle_reconcile_payment.                          *)

(* Transaction 1: an unknown outcome is moved onto the one edge out of it, *)
(* and the attempt is read for the questions that follow.                  *)
BeginRound(a, w, r) ==
    /\ r \in rounds[a] /\ asking[a][w].step = "idle"
    /\ payment[a] \in WORTH_ASKING \cup {"UNKNOWN"}
    /\ payment' = [payment EXCEPT ![a] = IF @ = "UNKNOWN" THEN "RECONCILING"
                                        ELSE @]
    /\ asking' = [asking EXCEPT
                    ![a][w] = [NotAsking EXCEPT
                              !.step = "asked", !.round = r,
                              !.knewOrder = orderId[a],
                              !.knewPayment = paymentId[a]]]
    /\ UNCHANGED <<version, approval, hold, bound, orderId, paymentId, closed,
                   grant, orders, cases, refund, clock, command, call, rounds,
                   cancelling, provider>>

(* A round that finds the attempt settled, or with nothing to ask, is done. *)
DropRound(a, r) ==
    /\ r \in rounds[a]
    /\ payment[a] \notin WORTH_ASKING \cup {"UNKNOWN"}
    /\ rounds' = [rounds EXCEPT ![a] = @ \ {r}]
    /\ UNCHANGED <<kernel, clock, command, call, asking, cancelling, provider>>

(* The reads, outside every transaction: the order by its receipt when it  *)
(* is not known, then its payments.  Any read may learn nothing, or return *)
(* something only a person can judge; two orders for one receipt always do. *)
Look(a, w) ==
    LET q == asking[a][w]
        learnt(recovered, fact, review) ==
            asking' = [asking EXCEPT ![a][w] = [NotAsking EXCEPT
                         !.step = "answered", !.round = q.round,
                         !.recovered = recovered, !.fact = fact,
                         !.review = review]]
        reached == q.knewOrder \/ placed[a] = 1
    IN  /\ q.step = "asked"
        /\ \/ learnt(FALSE, NoFact, FALSE)
           \/ learnt(FALSE, NoFact, TRUE)
           \/ reached /\ learnt(~q.knewOrder, NoFact, TRUE)
           \/ reached /\ \E f \in Fetched(a, q.knewPayment) \cup {NoFact} :
                            learnt(~q.knewOrder, f, FALSE)
        /\ UNCHANGED <<kernel, clock, command, call, rounds, cancelling,
                       provider>>

(* The round after an inconclusive one, while the bound allows another.    *)
MutFollowUp(r) == IF r <= RoundBound THEN {r + 1} ELSE {}
MutNoFollowUp(r) == {}
FollowUp(r) == IF r < RoundBound THEN {r + 1} ELSE {}

(* Transaction 2: keep a recovered order, apply the evidence, then resolve, *)
(* escalate, or queue the next round.  record_recovered_order would also    *)
(* move a pending version to AWAITING_PAYMENT: PendingIsUnsent says that no *)
(* version under reconciliation is pending.                                 *)
Conclude(a, w) ==
    LET q == asking[a][w]
        learned == q.fact # NoFact
        resolved == learned /\ Joined(a, q.fact) \in ALREADY_RESOLVED
        open == ~resolved /\ ~q.review /\ q.round # Probe
        escalates == (~resolved /\ q.review) \/ (open /\ q.round >= RoundBound)
        after == IF learned THEN AfterEvidence(a, q.fact) ELSE payment[a]
    IN  /\ q.step = "answered"
        /\ q.recovered => payment[a] = "RECONCILING"
        /\ orderId' = [orderId EXCEPT ![a] = @ \/ q.recovered]
        /\ \/ learned /\ EvidenceApplied(a, q.fact)
           \/ ~learned /\ UNCHANGED <<version, hold, closed, paymentId, orders,
                                      refund>>
        /\ payment' = [payment EXCEPT
                         ![a] = IF escalates THEN EscalatedFrom(after) ELSE after]
        /\ cases' = [cases EXCEPT
                       ![a] = @ \cup (IF learned THEN CasesOf(a, q.fact) ELSE {})
                                \cup (IF escalates THEN {"review"} ELSE {})]
        /\ rounds' = [rounds EXCEPT
                        ![a] = (@ \ {q.round}) \cup
                               (IF open THEN FollowUp(q.round) ELSE {})]
        /\ asking' = [asking EXCEPT ![a][w] = NotAsking]
        /\ UNCHANGED <<approval, bound, grant, clock, command, call, cancelling,
                       provider>>

(* The order was recovered but the attempt left RECONCILING meanwhile: the *)
(* transaction rolls back and the round is delivered again.                *)
ConcludeConflict(a, w) ==
    /\ asking[a][w].step = "answered"
    /\ asking[a][w].recovered /\ payment[a] # "RECONCILING"
    /\ asking' = [asking EXCEPT ![a][w] = NotAsking]
    /\ UNCHANGED <<kernel, clock, command, call, rounds, cancelling, provider>>

-----------------------------------------------------------------------------
(* Sweeps and cancellation.                                                *)

(* run_housekeeping, one transaction: close every window that is due and   *)
(* queue its reconciliation, expire stale grants, then the approvals in    *)
(* stale, those whose own clock has run out.                               *)
Housekeeping(stale) ==
    LET cancelled == {a \in Attempts : Closing(a) = "cancels"}
        shut == {a \in Attempts : Closing(a) = "closes"}
        hit(v, S) == \E a \in S : bound[a] = v
        approved == {v \in stale : version[v] = "APPROVED"}
    IN  /\ \A a \in Attempts : Closing(a) # "raises"
        /\ \A v \in stale : approval[v] = "RECORDED"
        /\ payment' = [a \in Attempts |->
              IF a \in cancelled THEN "EXPIRED"
              ELSE IF a \in shut /\ payment[a] = "CREATED" THEN "UNKNOWN"
              ELSE payment[a]]
        /\ version' = [v \in Versions |->
              CASE hit(v, cancelled) -> "CANCELLED"
                [] hit(v, shut) -> "INVALIDATED_AWAITING_PAYMENT_RESULT"
                [] v \in approved -> "EXPIRED"
                [] OTHER -> version[v]]
        /\ hold' = [v \in Versions |->
              IF hit(v, cancelled \cup shut) \/ v \in approved
              THEN Released(hold[v]) ELSE hold[v]]
        /\ closed' = [a \in Attempts |-> closed[a] \/ a \in cancelled \cup shut]
        /\ rounds' = [a \in Attempts |->
              IF a \in cancelled \cup shut THEN rounds[a] \cup {1}
              ELSE rounds[a]]
        /\ grant' = [a \in Attempts |->
              IF grant[a] # "ISSUED" THEN grant[a]
              ELSE IF hit(bound[a], cancelled) THEN "REVOKED"
              ELSE IF clock[a] # "fresh" THEN "EXPIRED" ELSE "ISSUED"]
        /\ approval' = [v \in Versions |->
              IF v \in stale THEN "EXPIRED" ELSE approval[v]]
        /\ UNCHANGED <<bound, orderId, paymentId, orders, cases, refund, clock,
                       command, call, asking, cancelling, provider>>

(* cancel_checkout on the current version, and cancel's plain SELECT of    *)
(* its live attempt.  One found past CREATED denies the cancellation.      *)
CancelReads(v) ==
    LET found == {a \in Attempts : bound[a] = v
                                   /\ payment[a] \in NON_TERMINAL_PAYMENT_STATES}
    IN  /\ cancelling.version = 0 /\ Head(v)
        /\ \A a \in found : payment[a] = "CREATED"
        /\ \E a \in IF found = {} THEN {0} ELSE found :
             cancelling' = [version |-> v, attempt |-> a]
        /\ UNCHANGED <<kernel, clock, command, call, rounds, asking, provider>>

(* The rest of cancel, under the version lock.                             *)
CancelCommits ==
    LET v == cancelling.version
        a == cancelling.attempt
    IN  /\ v # 0
        /\ CheckoutEdge(version[v], "CANCELLED")
        /\ a # 0 => payment[a] = "CREATED"
        /\ hold' = [hold EXCEPT ![v] = Released(@)]
        /\ payment' = [b \in Attempts |-> IF b = a THEN "EXPIRED" ELSE payment[b]]
        /\ grant' = [b \in Attempts |->
              IF bound[b] = v /\ grant[b] = "ISSUED" THEN "REVOKED" ELSE grant[b]]
        /\ version' = [version EXCEPT ![v] = "CANCELLED"]
        /\ cancelling' = [version |-> 0, attempt |-> 0]
        /\ UNCHANGED <<approval, bound, orderId, paymentId, closed, orders, cases,
                       refund, clock, command, call, rounds, asking, provider>>

(* The version has no edge to CANCELLED any more, or the attempt found     *)
(* left CREATED before the lock was taken.                                 *)
CancelDenied ==
    /\ cancelling.version # 0
    /\ \/ ~CheckoutEdge(version[cancelling.version], "CANCELLED")
       \/ cancelling.attempt # 0 /\ payment[cancelling.attempt] # "CREATED"
    /\ cancelling' = [version |-> 0, attempt |-> 0]
    /\ UNCHANGED <<kernel, clock, command, call, rounds, asking, provider>>

(* invalidate_open on its own, as the scenario surface calls it: a version *)
(* that is being paid for will not be fulfilled, whatever the money does.  *)
InvalidateOpen(v) ==
    /\ version[v] \in {"AWAITING_PAYMENT", "PAYMENT_UNKNOWN"}
    /\ version' = [version EXCEPT ![v] = "INVALIDATED_AWAITING_PAYMENT_RESULT"]
    /\ UNCHANGED <<approval, hold, bound, payment, orderId, paymentId, closed,
                   grant, orders, cases, refund, work, provider>>

-----------------------------------------------------------------------------
Buyer ==
    \/ CreateCheckout
    \/ \E v \in Versions :
          \/ SupersedeCheckout(v) \/ RecordApproval(v) \/ RejectApproval(v)
          \/ AdmitFindsChange(v) \/ AdmitFindsNothing(v)
          \/ CancelReads(v) \/ InvalidateOpen(v)
          \/ \E a \in Attempts : Admit(v, a)
    \/ CancelCommits \/ CancelDenied
    \/ \E a \in Attempts :
          AskStatus(a) \/ \E t \in Tries : BrowserCallback(a, t)

CreateOrderWorker(a) ==
    \/ ConsumeGrant(a) \/ RefuseCommand(a) \/ Resume(a)
    \/ \E answer \in Answers : ProviderAnswers(a, answer)
    \/ RecordCreateOrderResult(a) \/ RecordConflict(a)
    \/ CrashInCall(a)

ReconcileWorker(a) ==
    \/ \E r \in Rounds : DropRound(a, r)
    \/ \E w \in Workers :
          \/ \E r \in Rounds : BeginRound(a, w, r)
          \/ Look(a, w) \/ Conclude(a, w) \/ ConcludeConflict(a, w)
          \/ CrashInReconcile(a, w)

Provider(a) ==
    \/ \E t \in Tries, result \in TryStatus \ {"none"} : BuyerPays(a, t, result)
    \/ MerchantRefunds(a)
    \/ \E f \in Facts : ApplyWebhook(a, f)

Next ==
    \/ Buyer
    \/ \E a \in Attempts :
          \/ CreateOrderWorker(a) \/ ReconcileWorker(a) \/ Provider(a)
          \/ TimePasses(a)
    \/ \E stale \in SUBSET Versions : Housekeeping(stale)

Spec == Init /\ [][Next]_vars

(* Workers lease what the outbox holds: every queued round gets its turn,  *)
(* however often buyers queue others, and a worker does not die in the     *)
(* middle of one for ever (the outbox buries a command that keeps killing  *)
(* its worker).  Nothing is promised of the buyer, of the provider's       *)
(* webhooks or of the answers to its reads.                                *)
ReconcileFairness ==
    \A a \in Attempts :
        /\ \A r \in Rounds \ {Probe} :
              SF_vars(\E w \in Workers : BeginRound(a, w, r))
        /\ \A w \in Workers :
              /\ WF_vars(Look(a, w))
              /\ WF_vars(Conclude(a, w) \/ ConcludeConflict(a, w))
              /\ <>[][~CrashInReconcile(a, w)]_vars

(* The clock runs, the create-order command is delivered and the sweeps    *)
(* keep running.                                                           *)
SweepFairness ==
    \A a \in Attempts :
        /\ WF_vars(TimePasses(a))
        /\ WF_vars(ConsumeGrant(a) \/ RefuseCommand(a) \/ Resume(a))
        /\ WF_vars(Housekeeping({}))

FairSpec == Spec /\ ReconcileFairness

FairSweepSpec == FairSpec /\ SweepFairness

-----------------------------------------------------------------------------
(* Properties.                                                             *)

TypeOK ==
    /\ version \in [Versions -> VersionStatus]
    /\ approval \in [Versions -> ApprovalStatus]
    /\ hold \in [Versions -> HoldStatus]
    /\ bound \in [Attempts -> Versions \cup {0}]
    /\ payment \in [Attempts -> PaymentState \cup {"NONE"}]
    /\ orderId \in [Attempts -> BOOLEAN]
    /\ paymentId \in [Attempts -> 0 .. MaxTry]
    /\ clock \in [Attempts -> {"fresh", "lapsed", "due"}]
    /\ closed \in [Attempts -> BOOLEAN]
    /\ grant \in [Attempts -> GrantStatus]
    /\ command \in [Attempts -> {"none", "ready", "done", "dead"}]
    /\ call \in [Attempts -> {"idle", "sending"} \cup Answers]
    /\ rounds \in [Attempts -> SUBSET Rounds]
    /\ asking \in [Attempts -> [Workers -> Asking]]
    /\ orders \in [Attempts -> BOOLEAN]
    /\ cases \in [Attempts -> SUBSET CaseReasons]
    /\ refund \in [Attempts -> BOOLEAN]
    /\ placed \in [Attempts -> Nat]
    /\ tries \in [Attempts -> [Tries -> TryStatus]]
    /\ dashboard \in [Attempts -> BOOLEAN]
    /\ cancelling \in [version : Versions \cup {0}, attempt : Attempts \cup {0}]

(* What Conclude relies on: no attempt past CREATED leaves its version     *)
(* EXECUTION_PENDING, whoever cancels, closes or records in between.       *)
PendingIsUnsent ==
    \A a \in Attempts :
        bound[a] # 0 /\ version[bound[a]] = "EXECUTION_PENDING"
          => payment[a] = "CREATED"

(* However the versions of a checkout come and go, at most one attempt can *)
(* still be charged (uq_payment_attempts_one_non_terminal and the checks   *)
(* admission makes before it).                                             *)
OneLiveAttempt ==
    \A a, b \in Attempts :
        /\ payment[a] \in {"CREATED", "SUBMITTED", "AUTHORIZED", "UNKNOWN",
                           "RECONCILING"}
        /\ payment[b] \in {"CREATED", "SUBMITTED", "AUTHORIZED", "UNKNOWN",
                           "RECONCILING"}
        => a = b

(* One approved version is sent to the provider at most once: crashes,     *)
(* redeliveries and lost answers never create a second provider order      *)
(* (handle_create_order: the grant is consumed before the call).           *)
OneProviderOrderPerVersion ==
    \A a, b \in Attempts :
        /\ placed[a] <= 1
        /\ placed[a] # 0 /\ placed[b] # 0 /\ bound[a] = bound[b] => a = b

(* One checkout is fulfilled at most once, on its latest version, which is *)
(* then PAID, and an order is never also refunded as a stale capture       *)
(* (apply_provider_evidence, _ensure_order, admit_stale_refund).           *)
OneFulfilment ==
    \A a \in Attempts : orders[a] =>
        /\ version[bound[a]] = "PAID" /\ Head(bound[a])
        /\ ~refund[a]
        /\ \A b \in Attempts \ {a} : ~orders[b]

(* An order stands for money the provider really holds, on the payment the *)
(* attempt recorded, however many tries the buyer made and in whatever     *)
(* order the news of them came (_mismatch_reason).                         *)
OrderIsBackedByMoney ==
    \A a \in Attempts : orders[a] =>
        /\ paymentId[a] # 0
        /\ tries[a][paymentId[a]] = "captured"

(* Stock stays taken for as long as the version can still be paid or has   *)
(* been: no failure report, sweep or cancellation frees it early           *)
(* (reservations.release and its callers).                                 *)
PayableStockIsHeld ==
    \A v \in Versions :
        version[v] \in {"EXECUTION_PENDING", "AWAITING_PAYMENT",
                       "PAYMENT_UNKNOWN", "PAID"}
          => hold[v] = "CONSUMED"

(* Known money has an answer: a capture has its order, a capture nobody    *)
(* may fulfil has its refund or, when the provider already returned it, a  *)
(* case for a person, and a frozen attempt has its case (25.9, 31.2).      *)
HeldMoneyIsAnswered ==
    \A a \in Attempts :
        /\ payment[a] = "CAPTURED" => orders[a]
        /\ payment[a] = "STALE_CAPTURE" => "provider_refunded" \in cases[a]
        /\ payment[a] = "REFUND_PENDING" => refund[a]
        /\ payment[a] = "ESCALATED" => "review" \in cases[a]

(* No step, of whatever actor, moves an attempt back on the axis of known  *)
(* money (monotonic_apply and the guarded moves around it).                *)
MoneyNeverRegresses ==
    [][\A a \in Attempts : bound[a] # 0 =>
          Rank[payment'[a]] >= Rank[payment[a]]]_vars

(* A capture the platform learns of after the payment deadline is never    *)
(* fulfilled, whether a webhook or a reconciliation brings it and whether  *)
(* or not the sweep has run yet (close_due inside apply_provider_evidence). *)
NoOrderAfterDeadline ==
    [][\A a \in Attempts : orders'[a] /\ ~orders[a] => clock[a] # "due"]_vars

(* A lost outcome is always settled or handed to a person within the bound *)
(* of rounds, whatever the provider answers and wherever workers crash     *)
(* (handle_reconcile_payment).                                             *)
UncertainSettles ==
    \A a \in Attempts :
        payment[a] \in {"UNKNOWN", "RECONCILING"}
          ~> payment[a] \notin {"UNKNOWN", "RECONCILING"}

(* A checkout is a purchase: what the buyer has agreed to is the approval  *)
(* of the latest version, and an attempt that is neither open nor over has *)
(* its money answered by the row that says so.                             *)
Agreed == \E v \in Versions :
             Head(v) /\ version[v] = "APPROVED" /\ approval[v] = "RECORDED"
Outcome(a) ==
    CASE payment[a] = "NONE" -> "absent"
      [] Live(a) -> "open"
      [] orders[a] -> "sold"
      [] payment[a] = "STALE_CAPTURE" /\ "provider_refunded" \in cases[a] -> "returning"
      [] payment[a] = "REFUND_PENDING" /\ refund[a] -> "returning"
      [] payment[a] = "ESCALATED" /\ "review" \in cases[a] -> "review"
      [] payment[a] \in {"FAILED", "EXPIRED"} -> "unsold"
      [] OTHER -> "unanswered"
Charged == {a \in Attempts : \E t \in Tries : tries[a][t] = "captured"}

ThePurchase ==
    INSTANCE Purchase WITH agreed <- Agreed, charged <- Charged,
                           outcome <- [a \in Attempts |-> Outcome(a)]

(* The transaction core implements the purchase: each attempt spends its   *)
(* own decision of the buyer, none is begun beside an open or a sold one,  *)
(* and what is sold or sent back is money the provider took (admission.py, *)
(* payments.py, payment_window.py).                                        *)
PurchaseSpec == ThePurchase!Spec
=============================================================================
