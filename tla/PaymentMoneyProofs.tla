------------------------- MODULE PaymentMoneyProofs -------------------------
(***************************************************************************)
(* What PaymentLifecycle promises of the money, the stock and the order,   *)
(* proved from the invariant of PaymentLifecycleProofs and a second one    *)
(* that is inductive beside it.                                            *)
(***************************************************************************)
EXTENDS PaymentLifecycleProofs

-----------------------------------------------------------------------------
(* The second invariant.                                                   *)

StockStates == {"EXECUTION_PENDING", "AWAITING_PAYMENT", "PAYMENT_UNKNOWN", "PAID"}

(* What a version is once the window of its attempt has been closed.       *)
ClosedStates == {"INVALIDATED_AWAITING_PAYMENT_RESULT", "INVALIDATED", "CANCELLED"}

(* A worker reconciles only what was sent, and a capture it carries from   *)
(* the provider is one the buyer made.                                     *)
RoundsAreSound ==
    \A a \in Attempts, w \in Workers :
        LET q == asking[a][w]
        IN  /\ q.step # "idle" => payment[a] \notin {"NONE", "CREATED"}
            /\ q.fact.status = "captured" => tries[a][q.fact.try] = "captured"

(* A closed window is never forgotten: its version cannot be paid again.   *)
ClosedIsFinal ==
    \A a \in Attempts : closed[a] =>
        bound[a] # 0 /\ version[bound[a]] \in ClosedStates

(* The attempt a cancellation has read belongs to the version it cancels.  *)
CancelsItsOwn ==
    cancelling.attempt # 0 =>
        /\ bound[cancelling.attempt] # 0
        /\ bound[cancelling.attempt] = cancelling.version

MoneyInv ==
    /\ PendingIsUnsent /\ PayableStockIsHeld /\ HeldMoneyIsAnswered
    /\ OrderIsBackedByMoney /\ RoundsAreSound /\ ClosedIsFinal

(* What a step does to the attempts, besides keeping the invariant.        *)
Forward ==
    \A a \in Attempts :
        /\ bound[a] # 0 => Rank[payment'[a]] >= Rank[payment[a]]
        /\ orders'[a] /\ ~orders[a] => clock[a] # "due"

-----------------------------------------------------------------------------
(* The axis of known money.                                                *)

Reached == LiveStates \cup Settled

LEMMA RankType == \A s \in Reached : Rank[s] \in Nat
  BY DEF Rank, Reached, LiveStates, Settled

LEMMA RankSame == \A s \in Reached : Rank[s] >= Rank[s]
  BY RankType

LEMMA JoinForward ==
    ASSUME NEW s \in Reached, NEW t \in Reported
    PROVE  Rank[MonotonicApply(s, t)] >= Rank[s]
<1>1. s \in PaymentState /\ t \in PaymentState
  BY DEF Reached, LiveStates, Settled, Reported, PaymentState
<1>2. Rank[s] \in Nat /\ Rank[t] \in Nat
  BY DEF Rank, Reached, LiveStates, Settled, Reported
<1>3. \/ MonotonicApply(s, t) = s
      \/ MonotonicApply(s, t) = t /\ Rank[t] > Rank[s]
      \/ MonotonicApply(s, t) = "RECONCILING" /\ s \in UNCERTAIN_PAYMENT_STATES
  BY DEF MonotonicApply
<1>4. s \in UNCERTAIN_PAYMENT_STATES => Rank["RECONCILING"] >= Rank[s]
  BY DEF UNCERTAIN_PAYMENT_STATES, Rank, Reached, LiveStates, Settled
<1> QED BY <1>2, <1>3, <1>4

LEMMA EscalationForward ==
    ASSUME NEW s \in Reached
    PROVE  Rank[EscalatedFrom(s)] >= Rank[s]
<1>1. Rank["ESCALATED"] >= Rank[s]
  BY DEF Rank, Reached, LiveStates, Settled
<1> QED BY <1>1, RankSame, EscalationResult

-----------------------------------------------------------------------------
(* Steps in which the money does not move.                                 *)

(* Nothing but what the provider, the network and the queues know changes. *)
LEMMA MoneyElsewhere ==
    ASSUME IInv, MoneyInv, RoundsAreSound',
           UNCHANGED <<version, hold, bound, payment, orders, refund, closed, cases>>,
           \A a \in Attempts : paymentId[a] # 0 => paymentId'[a] = paymentId[a],
           \A a \in Attempts, t \in Tries :
               tries[a][t] = "captured" => tries'[a][t] = "captured"
    PROVE  MoneyInv' /\ Forward
<1>1. PendingIsUnsent' /\ PayableStockIsHeld' /\ HeldMoneyIsAnswered' /\ ClosedIsFinal'
  BY DEF MoneyInv, PendingIsUnsent, PayableStockIsHeld, HeldMoneyIsAnswered,
         ClosedIsFinal
<1>2. OrderIsBackedByMoney'
  <2> SUFFICES ASSUME NEW a \in Attempts, orders[a]
               PROVE  paymentId'[a] # 0 /\ tries'[a][paymentId'[a]] = "captured"
    BY DEF OrderIsBackedByMoney
  <2>1. paymentId[a] # 0 /\ tries[a][paymentId[a]] = "captured"
    BY DEF MoneyInv, OrderIsBackedByMoney
  <2>2. paymentId[a] \in Tries
    BY <2>1 DEF IInv, TypeOK, Tries
  <2> QED BY <2>1, <2>2
<1>3. Forward
  BY RankSame DEF Forward, IInv, AttemptsBound, Reached
<1> QED BY <1>1, <1>2, <1>3 DEF MoneyInv

(* The versions move to where their stock need not be held, and if they    *)
(* have an attempt to where a closed window may leave them.                *)
LEMMA MoneyUnderVersions ==
    ASSUME IInv, MoneyInv,
           UNCHANGED <<bound, payment, orders, refund, closed, cases, paymentId,
                       tries, asking>>,
           \A v \in Versions :
              \/ version'[v] = version[v] /\ hold'[v] = hold[v]
              \/ /\ version'[v] \notin StockStates
                 /\ version'[v] \in ClosedStates \/ \A a \in Attempts : bound[a] # v
    PROVE  MoneyInv' /\ Forward
<1>1. \A a \in Attempts : bound[a] # 0 =>
        \/ version'[bound[a]] = version[bound[a]]
        \/ version'[bound[a]] \in ClosedStates
  BY DEF IInv, TypeOK
<1>2. PendingIsUnsent'
  BY <1>1 DEF MoneyInv, PendingIsUnsent, ClosedStates
<1>3. PayableStockIsHeld'
  BY DEF MoneyInv, PayableStockIsHeld, StockStates
<1>4. HeldMoneyIsAnswered' /\ OrderIsBackedByMoney' /\ RoundsAreSound'
  BY DEF MoneyInv, HeldMoneyIsAnswered, OrderIsBackedByMoney, RoundsAreSound
<1>5. ClosedIsFinal'
  BY <1>1 DEF MoneyInv, ClosedIsFinal
<1>6. Forward
  BY RankSame DEF Forward, IInv, AttemptsBound, Reached
<1> QED BY <1>2, <1>3, <1>4, <1>5, <1>6 DEF MoneyInv

(* Only attempt a and its version move.                                    *)
LEMMA MoneyOfOne ==
    ASSUME IInv, IInv', MoneyInv, RoundsAreSound', NEW a \in Attempts, bound[a] # 0,
           UNCHANGED <<bound, tries>>,
           version' = [version EXCEPT ![bound[a]] = version'[bound[a]]],
           hold' = [hold EXCEPT ![bound[a]] = hold'[bound[a]]],
           payment' = [payment EXCEPT ![a] = payment'[a]],
           closed' = [closed EXCEPT ![a] = closed'[a]],
           paymentId' = [paymentId EXCEPT ![a] = paymentId'[a]],
           orders' = [orders EXCEPT ![a] = orders'[a]],
           refund' = [refund EXCEPT ![a] = refund'[a]],
           cases' = [cases EXCEPT ![a] = cases'[a]],
           LET v == bound[a]
               s == version'[v]
               p == payment'[a]
           IN  /\ s # "EXECUTION_PENDING"
               /\ s \in StockStates => version[v] \in StockStates /\ hold'[v] = hold[v]
               /\ closed'[a] => s \in ClosedStates
               /\ p = "CAPTURED" => orders'[a]
               /\ p = "STALE_CAPTURE" => "provider_refunded" \in cases'[a]
               /\ p = "REFUND_PENDING" => refund'[a]
               /\ p = "ESCALATED" => "review" \in cases'[a]
               /\ orders'[a] => paymentId'[a] # 0
                                /\ tries[a][paymentId'[a]] = "captured"
               /\ Rank[p] >= Rank[payment[a]]
               /\ orders'[a] /\ ~orders[a] => clock[a] # "due"
    PROVE  MoneyInv' /\ Forward
<1> DEFINE v == bound[a]
<1>1. v \in Versions
  BY DEF IInv, TypeOK
<1>2. \A b \in Attempts \ {a} :
        /\ payment'[b] = payment[b] /\ closed'[b] = closed[b]
        /\ paymentId'[b] = paymentId[b] /\ orders'[b] = orders[b]
        /\ refund'[b] = refund[b] /\ cases'[b] = cases[b]
  BY DEF IInv, TypeOK
<1>3. \A w \in Versions \ {v} : version'[w] = version[w] /\ hold'[w] = hold[w]
  BY DEF IInv, TypeOK
<1>4. \A b \in Attempts \ {a} : bound[b] # 0 => bound[b] \in Versions \ {v}
  BY DEF IInv, TypeOK, OneAttemptPerVersion
<1> HIDE DEF v
<1>5. PendingIsUnsent'
  BY <1>2, <1>3, <1>4 DEF MoneyInv, PendingIsUnsent, v
<1>6. PayableStockIsHeld'
  BY <1>1, <1>3 DEF MoneyInv, PayableStockIsHeld, StockStates, v
<1>7. HeldMoneyIsAnswered'
  BY <1>2 DEF MoneyInv, HeldMoneyIsAnswered
<1>8. OrderIsBackedByMoney'
  BY <1>2 DEF MoneyInv, OrderIsBackedByMoney
<1>9. ClosedIsFinal'
  BY <1>2, <1>3, <1>4 DEF MoneyInv, ClosedIsFinal, v
<1>10. Forward
  BY <1>2, RankSame DEF Forward, IInv, AttemptsBound, Reached
<1> QED BY <1>5, <1>6, <1>7, <1>8, <1>9, <1>10 DEF MoneyInv

-----------------------------------------------------------------------------
(* What evidence does to the money.                                        *)

(* A window found due in time makes every later capture stale.             *)
LEMMA DueCloses ==
    ASSUME IInv, MoneyInv, NEW a \in Attempts, clock[a] = "due",
           payment[a] \in LiveStates \ {"CREATED"}
    PROVE  Judged(a) \in NEVER_FULFIL
<1>1. bound[a] # 0 /\ version[bound[a]] \in PaidFor
  BY DEF IInv, AttemptsBound, VersionFollows, PaidFor, LiveStates
<1>2. CASE closed[a]
  <2>1. version[bound[a]] \in NEVER_FULFIL
    BY <1>2 DEF MoneyInv, ClosedIsFinal, ClosedStates, NEVER_FULFIL
  <2> QED BY <2>1 DEF Judged, NEVER_FULFIL
<1>3. CASE ~closed[a]
  <2>1. WindowDue(a) /\ Sent(a)
    BY <1>3 DEF WindowDue, Sent, Live, LiveStates
  <2>2. version[bound[a]] # "CANCELLED" => Closing(a) = "closes"
    BY <1>1, <2>1 DEF Closing, PaidFor
  <2> QED BY <2>2 DEF Judged, NEVER_FULFIL
<1> QED BY <1>2, <1>3

(* The three things evidence can make of an attempt.                       *)
LEMMA JoinedCases ==
    ASSUME NEW a \in Attempts, NEW f \in Facts
    PROVE  /\ Mismatch(a, f) => Joined(a, f) = EscalatedFrom(payment[a])
           /\ ~Mismatch(a, f) =>
                 \/ Joined(a, f) = payment[a]
                 \/ /\ Joined(a, f) = MonotonicApply(payment[a], Incoming(a, f))
                    /\ f.status # "pending"
<1>1. CASE Mismatch(a, f)
  BY <1>1 DEF Joined, Mismatch, MoneyHeld
<1>2. CASE ~Mismatch(a, f) /\ f.status = "pending"
  BY <1>2 DEF Joined
<1>3. CASE /\ ~Mismatch(a, f) /\ f.status = "failed"
           /\ paymentId[a] \notin {0, f.try}
  BY <1>3 DEF Joined
<1>4. CASE /\ ~Mismatch(a, f) /\ f.status # "pending"
           /\ ~(f.status = "failed" /\ paymentId[a] \notin {0, f.try})
  BY <1>4 DEF Joined
<1> QED BY <1>1, <1>2, <1>3, <1>4

LEMMA EvidenceMoney ==
    ASSUME IInv, IInv', MoneyInv, NEW a \in Attempts, NEW f \in Facts, bound[a] # 0,
           orderId[a] \/ Live(a), payment[a] # "CREATED", EvidenceApplied(a, f),
           f.status = "captured" => tries[a][f.try] = "captured"
    PROVE  LET v == bound[a]
               s == version'[v]
               p == AfterEvidence(a, f)
               said == cases[a] \cup CasesOf(a, f)
           IN  /\ hold' = [hold EXCEPT ![v] = hold'[v]]
               /\ closed' = [closed EXCEPT ![a] = closed'[a]]
               /\ paymentId' = [paymentId EXCEPT ![a] = paymentId'[a]]
               /\ s # "EXECUTION_PENDING"
               /\ s \in StockStates => version[v] \in StockStates /\ hold'[v] = hold[v]
               /\ closed'[a] => s \in ClosedStates
               /\ p \in Reached
               /\ p = "CAPTURED" => orders'[a]
               /\ p = "STALE_CAPTURE" => "provider_refunded" \in said
               /\ p = "REFUND_PENDING" => refund'[a]
               /\ p = "ESCALATED" => "review" \in said
               /\ orders'[a] => paymentId'[a] # 0
                                /\ tries[a][paymentId'[a]] = "captured"
               /\ Rank[p] >= Rank[payment[a]]
               /\ orders'[a] /\ ~orders[a] => clock[a] # "due"
<1> DEFINE v == bound[a]
           was == version[v]
           j == Judged(a)
           after == Joined(a, f)
           moved == CASE after = "CAPTURED" /\ ~Mismatch(a, f) -> "PAID"
                      [] NewlyFails(a, f) ->
                           IF j = "INVALIDATED_AWAITING_PAYMENT_RESULT"
                           THEN "INVALIDATED" ELSE "PAYMENT_FAILED"
                      [] OTHER -> j
           s == MovedIfLegal(j, moved)
           p == AfterEvidence(a, f)
<1>0. /\ version \in [Versions -> VersionStatus]
      /\ hold \in [Versions -> HoldStatus]
      /\ closed \in [Attempts -> BOOLEAN] /\ closed' \in [Attempts -> BOOLEAN]
      /\ paymentId \in [Attempts -> 0 .. MaxTry]
      /\ orders \in [Attempts -> BOOLEAN] /\ orders' \in [Attempts -> BOOLEAN]
      /\ refund \in [Attempts -> BOOLEAN] /\ refund' \in [Attempts -> BOOLEAN]
  BY DEF IInv, TypeOK
<1>1. /\ payment[a] \in (LiveStates \ {"CREATED"}) \cup Settled
      /\ v \in Versions /\ was \in VersionStatus
      /\ was \notin {"NONE", "APPROVAL_REQUIRED", "APPROVED", "EXECUTION_PENDING"}
      /\ payment[a] \in LiveStates => was \in PaidFor
      /\ payment[a] = "CAPTURED" => was = "PAID" /\ orders[a]
      /\ payment[a] = "STALE_CAPTURE" => "provider_refunded" \in cases[a]
      /\ payment[a] = "REFUND_PENDING" => refund[a]
      /\ payment[a] = "ESCALATED" => "review" \in cases[a]
      /\ orders[a] => payment[a] = "CAPTURED"
      /\ refund[a] => payment[a] = "REFUND_PENDING"
      /\ closed[a] => was \in ClosedStates
  BY DEF IInv, TypeOK, AttemptsBound, ApprovalUnspent, VersionFollows, PaidFor,
         LiveStates, MoneyInv, PendingIsUnsent, HeldMoneyIsAnswered, MoneyAnswered,
         ClosedIsFinal
<1>2. /\ version'[v] = s
      /\ hold' = [hold EXCEPT ![v] = IF NewlyFails(a, f) \/ Closing(a) = "closes"
                                     THEN Released(@) ELSE @]
      /\ closed' = [closed EXCEPT ![a] = @ \/ Closing(a) = "closes"]
      /\ paymentId' = [paymentId EXCEPT ![a] = IF @ = 0 /\ MoneyHeld(f)
                                               THEN f.try ELSE @]
      /\ orders'[a] <=> orders[a] \/ (after = "CAPTURED" /\ ~Mismatch(a, f))
      /\ refund'[a] <=> refund[a] \/ AdmitsRefund(a, f)
  <2>1. version' = [version EXCEPT ![v] = s]
    BY DEF EvidenceApplied
  <2>2. /\ hold' = [hold EXCEPT ![v] = IF NewlyFails(a, f) \/ Closing(a) = "closes"
                                       THEN Released(@) ELSE @]
        /\ closed' = [closed EXCEPT ![a] = @ \/ Closing(a) = "closes"]
        /\ paymentId' = [paymentId EXCEPT ![a] = IF @ = 0 /\ MoneyHeld(f)
                                                 THEN f.try ELSE @]
        /\ orders' = [orders EXCEPT
                        ![a] = @ \/ (after = "CAPTURED" /\ ~Mismatch(a, f))]
        /\ refund' = [refund EXCEPT ![a] = @ \/ AdmitsRefund(a, f)]
    BY DEF EvidenceApplied
  <2>3. v \in Versions
    BY <1>1
  <2> HIDE DEF s, after, v
  <2> QED BY <1>0, <2>1, <2>2, <2>3
<1>3. /\ hold' = [hold EXCEPT ![v] = hold'[v]]
      /\ ~(NewlyFails(a, f) \/ Closing(a) = "closes") => hold'[v] = hold[v]
      /\ closed' = [closed EXCEPT ![a] = closed'[a]]
      /\ closed'[a] <=> closed[a] \/ Closing(a) = "closes"
      /\ paymentId' = [paymentId EXCEPT ![a] = paymentId'[a]]
      /\ paymentId'[a] = IF paymentId[a] = 0 /\ MoneyHeld(f) THEN f.try
                         ELSE paymentId[a]
  <2>1. v \in Versions
    BY <1>1
  <2> HIDE DEF v
  <2> QED BY <1>0, <1>2, <2>1
<1>4. /\ j = IF Closing(a) = "closes" THEN "INVALIDATED_AWAITING_PAYMENT_RESULT"
             ELSE was
      /\ payment[a] \in Settled => Closing(a) # "closes"
      /\ payment[a] \in LiveStates => j \in PaidFor
  BY <1>1, ClosingLive DEF Judged, PaidFor, Settled, LiveStates
<1>5. /\ Incoming(a, f) \in Reported
      /\ Incoming(a, f) = "CAPTURED" => j \notin NEVER_FULFIL
      /\ Incoming(a, f) = "STALE_CAPTURE" => j \in NEVER_FULFIL
  BY DEF Incoming, Reported
<1>6. /\ Mismatch(a, f) => after = EscalatedFrom(payment[a])
      /\ ~Mismatch(a, f) =>
            \/ after = payment[a]
            \/ /\ after = MonotonicApply(payment[a], Incoming(a, f))
               /\ f.status # "pending"
  BY JoinedCases
<1>7. Rank[after] >= Rank[payment[a]] /\ payment[a] \in Reached
  <2>1. payment[a] \in Reached
    BY <1>1 DEF Reached
  <2> QED BY <1>5, <1>6, <2>1, JoinForward, EscalationForward, RankSame
<1>8. /\ p = IF AdmitsRefund(a, f) THEN "REFUND_PENDING" ELSE after
      /\ AdmitsRefund(a, f) <=> /\ ~Mismatch(a, f) /\ after = "STALE_CAPTURE"
                                /\ ~f.refunded /\ ~refund[a]
  BY DEF AfterEvidence, AdmitsRefund, StaleCapture
<1>9. /\ Mismatch(a, f) => "review" \in CasesOf(a, f)
      /\ ~Mismatch(a, f) /\ after = "STALE_CAPTURE" /\ f.refunded =>
            "provider_refunded" \in CasesOf(a, f)
  BY DEF CasesOf, StaleCapture
<1>10. Rank[p] >= Rank[payment[a]]
  <2>1. Rank["REFUND_PENDING"] >= Rank["STALE_CAPTURE"]
    BY DEF Rank
  <2>2. {Rank["REFUND_PENDING"], Rank["STALE_CAPTURE"], Rank[payment[a]]} \subseteq Nat
    BY <1>7, RankType DEF Rank
  <2> HIDE DEF p, after
  <2> QED BY <1>7, <1>8, <2>1, <2>2
<1>11. CASE payment[a] \in Settled
  <2>1. after = payment[a]
    <3>1. Mismatch(a, f) => after = payment[a]
      BY <1>6, <1>11, EscalatedLive DEF Settled, LiveStates
    <3>2. ~(payment[a] = "CAPTURED" /\ Incoming(a, f) = "STALE_CAPTURE")
      BY <1>1, <1>4, <1>5, <1>11 DEF NEVER_FULFIL
    <3> QED BY <1>5, <1>6, <1>11, <3>1, <3>2, SettledJoin
  <2>2. ~NewlyFails(a, f)
    BY <2>1 DEF NewlyFails
  <2>3. s \in {was, "PAID"} /\ (s # was => payment[a] = "CAPTURED")
    <3>1. j = was
      BY <1>4, <1>11
    <3>2. moved = j \/ (moved = "PAID" /\ after = "CAPTURED")
      BY <2>2
    <3>3. s \in {j, moved}
      BY MoveResult
    <3> HIDE DEF s, moved, j
    <3> QED BY <2>1, <3>1, <3>2, <3>3
  <2>4. /\ s = was
        /\ hold'[v] = hold[v] /\ closed'[a] = closed[a]
    <3>1. s = was
      BY <1>1, <2>3
    <3>2. Closing(a) # "closes"
      BY <1>4, <1>11
    <3>3. closed'[a] \in BOOLEAN /\ closed[a] \in BOOLEAN
      BY <1>0
    <3> HIDE DEF s, was, v
    <3> QED BY <1>3, <2>2, <3>1, <3>2, <3>3
  <2>5. orders'[a] <=> orders[a]
    BY <1>1, <1>2, <2>1
  <2>6. orders[a] => paymentId'[a] # 0 /\ tries[a][paymentId'[a]] = "captured"
    BY <1>3 DEF MoneyInv, OrderIsBackedByMoney
  <2>7. p \in {payment[a], "REFUND_PENDING"}
        /\ (p # payment[a] => AdmitsRefund(a, f))
    BY <1>8, <2>1
  <2>8. payment[a] \in Reached /\ "REFUND_PENDING" \in Reached
    BY <1>7 DEF Reached, Settled
  <2>9. /\ p = "CAPTURED" => orders'[a]
        /\ p = "STALE_CAPTURE" => "provider_refunded" \in cases[a]
        /\ p = "REFUND_PENDING" => refund'[a]
        /\ p = "ESCALATED" => "review" \in cases[a]
        /\ p \in Reached
    BY <1>1, <1>2, <2>5, <2>7, <2>8
  <2>10. /\ s # "EXECUTION_PENDING"
         /\ s \in StockStates => was \in StockStates /\ hold'[v] = hold[v]
         /\ closed'[a] => s \in ClosedStates
    BY <1>1, <2>4
  <2>11. /\ orders'[a] => paymentId'[a] # 0
                          /\ tries[a][paymentId'[a]] = "captured"
         /\ orders'[a] /\ ~orders[a] => clock[a] # "due"
    BY <2>5, <2>6
  <2> HIDE DEF s, after, j, moved
  <2> QED
    BY <1>2, <1>3, <1>10, <2>9, <2>10, <2>11
<1>12. CASE payment[a] \in LiveStates \ {"CREATED"}
  <2>1. /\ after \in (LiveStates \ {"CREATED"}) \cup Reported \cup {"ESCALATED"}
        /\ after = "CAPTURED" =>
              ~Mismatch(a, f) /\ Incoming(a, f) = "CAPTURED" /\ f.status = "captured"
        /\ after = "ESCALATED" => Mismatch(a, f)
        /\ after = "STALE_CAPTURE" => ~Mismatch(a, f)
    <3>1. CASE Mismatch(a, f)
      BY <1>6, <1>12, <3>1, EscalatedLive DEF LiveStates
    <3>2. CASE ~Mismatch(a, f)
      <4>1. \/ after = payment[a]
            \/ /\ after = MonotonicApply(payment[a], Incoming(a, f))
               /\ f.status # "pending"
        BY <1>6, <3>2
      <4>2. Incoming(a, f) = "CAPTURED" /\ f.status # "pending" =>
              f.status = "captured"
        BY DEF Incoming, Facts
      <4>3. "ESCALATED" \notin LiveStates \cup Reported
            /\ {"CAPTURED", "STALE_CAPTURE"} \cap LiveStates = {}
        BY DEF LiveStates, Reported
      <4> HIDE DEF after
      <4> QED BY <1>5, <1>12, <3>2, <4>1, <4>2, <4>3, LiveJoin
    <3> QED BY <3>1, <3>2
  <2>2. s \in {"AWAITING_PAYMENT", "PAYMENT_UNKNOWN", "PAYMENT_FAILED", "PAID"}
             \cup ClosedStates
        /\ (j \in ClosedStates => s \in ClosedStates)
        /\ (NewlyFails(a, f) => s \notin StockStates)
    <3>1. CASE after = "CAPTURED"
      <4>1. j \in {"AWAITING_PAYMENT", "PAYMENT_UNKNOWN"}
        BY <1>4, <1>5, <1>12, <2>1, <3>1 DEF PaidFor, NEVER_FULFIL
      <4>2. moved = "PAID" /\ ~NewlyFails(a, f)
        BY <2>1, <3>1 DEF NewlyFails
      <4>3. s \in {j, "PAID"}
        <5> HIDE DEF moved
        <5> QED BY <4>2, MoveResult
      <4> QED BY <4>1, <4>2, <4>3 DEF ClosedStates
    <3>2. CASE after # "CAPTURED" /\ ~NewlyFails(a, f)
      <4>1. moved = j
        BY <3>2
      <4>2. s = j
        BY <4>1 DEF MovedIfLegal
      <4> QED BY <1>4, <1>12, <3>2, <4>2 DEF PaidFor, ClosedStates
    <3>3. CASE after # "CAPTURED" /\ NewlyFails(a, f)
      <4>1. moved = IF j = "INVALIDATED_AWAITING_PAYMENT_RESULT"
                    THEN "INVALIDATED" ELSE "PAYMENT_FAILED"
        BY <3>3
      <4>2. j \in PaidFor
        BY <1>4, <1>12
      <4>3. s = IF j = "INVALIDATED_AWAITING_PAYMENT_RESULT" THEN "INVALIDATED"
                ELSE IF j = "CANCELLED" THEN j ELSE "PAYMENT_FAILED"
        BY <4>1, <4>2 DEF PaidFor, MovedIfLegal, CheckoutEdge, CheckoutState,
                          CHECKOUT_TRANSITIONS
      <4> QED BY <4>2, <4>3 DEF PaidFor, ClosedStates, StockStates
    <3> QED BY <3>1, <3>2, <3>3
  <2>3. Closing(a) = "closes" => j \in ClosedStates
    BY <1>4 DEF ClosedStates
  <2>4. closed[a] => j \in ClosedStates
    BY <1>1, <1>4 DEF ClosedStates
  <2>5. s \in StockStates => was \in StockStates /\ hold'[v] = hold[v]
    <3>1. s \in StockStates => ~NewlyFails(a, f) /\ j \notin ClosedStates
      BY <2>2 DEF StockStates, ClosedStates
    <3>2. j \notin ClosedStates => j = was /\ was \in StockStates
      BY <1>1, <1>4, <1>12 DEF ClosedStates, PaidFor, StockStates
    <3> QED BY <1>3, <2>3, <3>1, <3>2
  <2>6. ~orders[a] /\ ~refund[a]
    BY <1>1, <1>12 DEF LiveStates
  <2>7. orders'[a] =>
          /\ clock[a] # "due"
          /\ paymentId'[a] # 0 /\ tries[a][paymentId'[a]] = "captured"
    <3> SUFFICES ASSUME orders'[a]
                 PROVE  /\ clock[a] # "due"
                        /\ paymentId'[a] # 0 /\ tries[a][paymentId'[a]] = "captured"
      OBVIOUS
    <3>1. ~Mismatch(a, f) /\ Incoming(a, f) = "CAPTURED" /\ f.status = "captured"
      BY <1>2, <2>1, <2>6
    <3>2. clock[a] # "due"
      BY <1>5, <1>12, <3>1, DueCloses
    <3>3. paymentId'[a] = f.try /\ f.try # 0
      BY <1>3, <3>1 DEF Mismatch, MoneyHeld, Facts, Tries
    <3> QED BY <3>1, <3>2, <3>3
  <2>8. /\ p = "CAPTURED" => orders'[a]
        /\ p = "STALE_CAPTURE" => "provider_refunded" \in CasesOf(a, f)
        /\ p = "REFUND_PENDING" => refund'[a]
        /\ p = "ESCALATED" => "review" \in CasesOf(a, f)
        /\ p \in Reached
    <3>1. "REFUND_PENDING" \notin LiveStates \cup Reported \cup {"ESCALATED"}
          /\ LiveStates \cup Reported \cup {"ESCALATED", "REFUND_PENDING"} \subseteq Reached
      BY DEF LiveStates, Reported, Reached, Settled
    <3> HIDE DEF p, after
    <3> QED BY <1>2, <1>8, <1>9, <2>1, <2>6, <3>1
  <2>9. s # "EXECUTION_PENDING"
    BY <2>2 DEF ClosedStates
  <2>10. closed'[a] => s \in ClosedStates
    BY <1>3, <2>2, <2>3, <2>4
  <2> HIDE DEF s, after, j, moved
  <2> QED
    BY <1>2, <1>3, <1>10, <2>5, <2>6, <2>7, <2>8, <2>9, <2>10
<1> QED BY <1>1, <1>11, <1>12

-----------------------------------------------------------------------------
(* One lemma for each kind of step.                                        *)

(* The reconciliations that go on carry what they carried, and a new one   *)
(* carries nothing yet.                                                    *)
LEMMA RoundsKept ==
    ASSUME IInv, MoneyInv,
           \A a \in Attempts :
              /\ payment[a] \notin {"NONE", "CREATED"} =>
                    payment'[a] \notin {"NONE", "CREATED"}
              /\ \A t \in Tries : tries[a][t] = "captured" => tries'[a][t] = "captured"
              /\ \A w \in Workers :
                    \/ asking'[a][w] = asking[a][w]
                    \/ /\ asking'[a][w].fact = NoFact
                       /\ asking'[a][w].step # "idle" =>
                             payment'[a] \notin {"NONE", "CREATED"}
    PROVE  RoundsAreSound'
<1> SUFFICES ASSUME NEW a \in Attempts, NEW w \in Workers
             PROVE  LET q == asking'[a][w]
                    IN  /\ q.step # "idle" => payment'[a] \notin {"NONE", "CREATED"}
                        /\ q.fact.status = "captured" =>
                              tries'[a][q.fact.try] = "captured"
  BY DEF RoundsAreSound
<1>1. CASE asking'[a][w] = asking[a][w]
  <2>1. asking[a][w].fact.status = "captured" => asking[a][w].fact.try \in Tries
    BY DEF IInv, TypeOK, Asking, Facts, NoFact
  <2> QED BY <1>1, <2>1 DEF MoneyInv, RoundsAreSound
<1>2. CASE asking'[a][w] # asking[a][w]
  BY <1>2 DEF NoFact
<1> QED BY <1>1, <1>2

LEMMA ShopMoney ==
    ASSUME IInv, MoneyInv, NEW v \in Versions,
           \/ CreateCheckout
           \/ SupersedeCheckout(v) \/ RecordApproval(v) \/ RejectApproval(v)
           \/ AdmitFindsChange(v) \/ AdmitFindsNothing(v) \/ InvalidateOpen(v)
    PROVE  MoneyInv' /\ Forward
<1> USE DEF kernel, work, provider
<1>1. \A w \in Versions : version[w] \in {"NONE", "APPROVAL_REQUIRED", "APPROVED"}
                              => \A a \in Attempts : bound[a] # w
  BY BoundsAssumption DEF IInv, ApprovalUnspent, Versions
<1>2. UNCHANGED <<bound, payment, orders, refund, closed, cases, paymentId, tries,
                  asking>>
  BY DEF CreateCheckout, SupersedeCheckout, RecordApproval, RejectApproval,
         AdmitFindsChange, AdmitFindsNothing, InvalidateOpen
<1>3. \A w \in Versions :
        \/ version'[w] = version[w] /\ hold'[w] = hold[w]
        \/ /\ version'[w] \notin StockStates
           /\ \/ version'[w] \in ClosedStates
              \/ version[w] \in {"NONE", "APPROVAL_REQUIRED", "APPROVED"}
  <2>1. CASE CreateCheckout
    BY <2>1 DEF CreateCheckout, IInv, TypeOK, Exists, StockStates
  <2>2. CASE SupersedeCheckout(v)
    BY <2>2 DEF SupersedeCheckout, IInv, TypeOK, Head, Exists, Versions, StockStates
  <2>3. CASE RecordApproval(v)
    BY <2>3 DEF RecordApproval, IInv, TypeOK, StockStates
  <2>4. CASE RejectApproval(v)
    BY <2>4 DEF RejectApproval, IInv, TypeOK, StockStates, ClosedStates
  <2>5. CASE AdmitFindsChange(v)
    BY <2>5 DEF AdmitFindsChange, Payable, IInv, TypeOK, Head, Exists, Versions,
                StockStates, ClosedStates
  <2>6. CASE AdmitFindsNothing(v)
    BY <2>6 DEF AdmitFindsNothing, IInv, TypeOK, StockStates, ClosedStates
  <2>7. CASE InvalidateOpen(v)
    BY <2>7 DEF InvalidateOpen, IInv, TypeOK, StockStates, ClosedStates
  <2> QED BY <2>1, <2>2, <2>3, <2>4, <2>5, <2>6, <2>7
<1> QED BY <1>1, <1>2, <1>3, MoneyUnderVersions

(* An admitted version holds its stock, and its attempt has no money yet.  *)
LEMMA AdmitMoney ==
    ASSUME IInv, IInv', MoneyInv, NEW v \in Versions, NEW a \in Attempts, Admit(v, a)
    PROVE  MoneyInv' /\ Forward
<1> USE DEF kernel, work, provider
<1>1. /\ bound' = [bound EXCEPT ![a] = v]
      /\ payment' = [payment EXCEPT ![a] = "CREATED"]
      /\ version' = [version EXCEPT ![v] = "EXECUTION_PENDING"]
      /\ hold' = [hold EXCEPT ![v] = "CONSUMED"]
      /\ UNCHANGED <<orders, refund, closed, cases, paymentId, tries, asking>>
      /\ bound[a] = 0 /\ approval[v] = "RECORDED"
  BY DEF Admit, SpendApprovalAndEnqueue, Payable, NextAttempt
<1>2. /\ bound'[a] = v /\ payment'[a] = "CREATED"
      /\ version'[v] = "EXECUTION_PENDING" /\ hold'[v] = "CONSUMED"
      /\ \A b \in Attempts \ {a} : bound'[b] = bound[b] /\ payment'[b] = payment[b]
      /\ \A w \in Versions \ {v} : version'[w] = version[w] /\ hold'[w] = hold[w]
      /\ \A b \in Attempts : bound[b] # 0 => bound[b] \in Versions
  BY <1>1 DEF IInv, TypeOK
<1>3. v # 0 /\ \A b \in Attempts : bound[b] # v
  <2>1. v # 0
    BY BoundsAssumption DEF Versions
  <2> QED BY <1>1, <2>1 DEF IInv, ApprovalUnspent
<1>4. ~closed[a] /\ ~orders[a]
  BY <1>1, <1>3 DEF MoneyInv, ClosedIsFinal, IInv, MoneyAnswered, AttemptsBound
<1>5. PendingIsUnsent'
  BY <1>2, <1>3 DEF MoneyInv, PendingIsUnsent
<1>6. PayableStockIsHeld'
  BY <1>2 DEF MoneyInv, PayableStockIsHeld
<1>7. HeldMoneyIsAnswered'
  BY <1>1, <1>2 DEF MoneyInv, HeldMoneyIsAnswered
<1>8. OrderIsBackedByMoney'
  BY <1>1 DEF MoneyInv, OrderIsBackedByMoney
<1>9. ClosedIsFinal'
  BY <1>1, <1>2, <1>3, <1>4 DEF MoneyInv, ClosedIsFinal
<1>10. RoundsAreSound'
  <2>1. payment[a] = "NONE"
    BY <1>1 DEF IInv, AttemptsBound
  <2> QED BY <1>1, <1>2, <2>1, RoundsKept
<1>11. Forward
  BY <1>1, <1>2, RankSame DEF Forward, IInv, AttemptsBound, Reached
<1> QED BY <1>5, <1>6, <1>7, <1>8, <1>9, <1>10, <1>11 DEF MoneyInv

(* The rows of one attempt that stay as they were.                         *)
LEMMA SameRows ==
    ASSUME IInv, NEW a \in Attempts
    PROVE  /\ closed' = closed => closed' = [closed EXCEPT ![a] = closed'[a]]
           /\ paymentId' = paymentId =>
                 paymentId' = [paymentId EXCEPT ![a] = paymentId'[a]]
           /\ orders' = orders => orders' = [orders EXCEPT ![a] = orders'[a]]
           /\ refund' = refund => refund' = [refund EXCEPT ![a] = refund'[a]]
           /\ cases' = cases => cases' = [cases EXCEPT ![a] = cases'[a]]
           /\ payment' = payment => payment' = [payment EXCEPT ![a] = payment'[a]]
           /\ version' = version =>
                 version' = [version EXCEPT ![bound[a]] = version'[bound[a]]]
           /\ hold' = hold =>
                 hold' = [hold EXCEPT ![bound[a]] = hold'[bound[a]]]
  BY DEF IInv, TypeOK

(* The answer of the create-order call is recorded.                        *)
LEMMA RecordMoney ==
    ASSUME IInv, IInv', MoneyInv, NEW a \in Attempts, RecordCreateOrderResult(a)
    PROVE  MoneyInv' /\ Forward
<1> DEFINE v == bound[a]
           was == version[v]
           step == CASE call[a] = "ok" -> "AWAITING_PAYMENT"
                     [] call[a] = "failed" -> "PAYMENT_FAILED"
                     [] OTHER -> "PAYMENT_UNKNOWN"
<1>1. /\ \/ payment[a] = "CREATED" /\ was \in {"EXECUTION_PENDING", "CANCELLED"}
         \/ payment[a] = "UNKNOWN" /\ was \in PaidFor
      /\ v # 0 /\ v \in Versions
      /\ ~orders[a] /\ ~refund[a] /\ (closed[a] => was \in ClosedStates)
  BY DEF RecordCreateOrderResult, IInv, TypeOK, AttemptsBound, VersionFollows,
         LiveStates, PaidFor, MoneyAnswered, MoneyInv, ClosedIsFinal
<1>2. /\ version' = [version EXCEPT ![v] = version'[v]]
      /\ payment[a] = "CREATED" =>
            version'[v] = IF was = "CANCELLED" THEN was ELSE step
      /\ payment[a] = "UNKNOWN" =>
            version'[v] = was /\ call[a] \notin {"ok", "failed"}
  <2>1. CASE payment[a] = "CREATED"
    <3>1. version' = [version EXCEPT ![v] = MovedIfLegal(was, step)]
      BY <2>1 DEF RecordCreateOrderResult
    <3>2. step \in {"AWAITING_PAYMENT", "PAYMENT_FAILED", "PAYMENT_UNKNOWN"}
      OBVIOUS
    <3> HIDE DEF step
    <3>3. MovedIfLegal(was, step) = IF was = "CANCELLED" THEN was ELSE step
      BY <1>1, <2>1, <3>2, PendingMove
    <3> QED BY <1>1, <2>1, <3>1, <3>3 DEF IInv, TypeOK
  <2>2. CASE payment[a] = "UNKNOWN"
    BY <1>1, <2>2 DEF RecordCreateOrderResult, IInv, TypeOK
  <2> QED BY <1>1, <2>1, <2>2
<1>3. /\ hold' = [hold EXCEPT ![v] = hold'[v]]
      /\ call[a] # "failed" => hold'[v] = hold[v]
  BY <1>1 DEF RecordCreateOrderResult, IInv, TypeOK
<1>4. /\ payment' = [payment EXCEPT ![a] = payment'[a]]
      /\ cases' = [cases EXCEPT ![a] = cases'[a]]
      /\ payment'[a] \in {"ESCALATED", "SUBMITTED", "FAILED", "UNKNOWN"}
      /\ payment'[a] = "ESCALATED" => "review" \in cases'[a]
      /\ payment[a] = "UNKNOWN" => payment'[a] \in {"UNKNOWN", "ESCALATED"}
  BY DEF RecordCreateOrderResult, IInv, TypeOK, Answers
<1>5. UNCHANGED <<bound, tries, asking, closed, paymentId, orders, refund>>
  BY DEF RecordCreateOrderResult, provider
<1>6. RoundsAreSound'
  <2>1. \A b \in Attempts \ {a} : payment'[b] = payment[b]
    BY <1>4 DEF IInv, TypeOK
  <2>2. payment'[a] \notin {"NONE", "CREATED"}
    BY <1>4
  <2> QED BY <1>5, <2>1, <2>2, RoundsKept
<1>7. /\ version'[v] # "EXECUTION_PENDING"
      /\ version'[v] \in StockStates => was \in StockStates /\ hold'[v] = hold[v]
      /\ closed[a] => version'[v] \in ClosedStates
  BY <1>1, <1>2, <1>3 DEF StockStates, ClosedStates, PaidFor
<1>8. Rank[payment'[a]] >= Rank[payment[a]]
  BY <1>1, <1>4 DEF Rank
<1> HIDE DEF v, was, step
<1>9. ~orders'[a] /\ (closed'[a] => version'[v] \in ClosedStates)
  BY <1>1, <1>5, <1>7
<1> QED
  BY <1>1, <1>2, <1>3, <1>4, <1>5, <1>6, <1>7, <1>8, <1>9, SameRows, MoneyOfOne
     DEF v, was

(* A redelivered create-order command gives the outcome up as unknown.     *)
LEMMA ResumeMoney ==
    ASSUME IInv, IInv', MoneyInv, NEW a \in Attempts, Resume(a)
    PROVE  MoneyInv' /\ Forward
<1> DEFINE v == bound[a]
           was == version[v]
           unrecorded == ~orderId[a] /\ payment[a] = "CREATED"
<1>1. /\ UNCHANGED <<bound, tries, asking, hold, closed, paymentId, orders,
                     refund, cases>>
      /\ payment' = [payment EXCEPT ![a] = IF unrecorded THEN "UNKNOWN" ELSE @]
      /\ version' = [version EXCEPT
                       ![v] = IF unrecorded
                              THEN MovedIfLegal(@, "PAYMENT_UNKNOWN") ELSE @]
  BY DEF Resume, provider
<1>2. RoundsAreSound'
  BY <1>1 DEF MoneyInv, RoundsAreSound
<1>3. CASE ~unrecorded
  <2>1. UNCHANGED <<version, payment>>
    BY <1>1, <1>3 DEF IInv, TypeOK
  <2> QED BY <1>1, <1>2, <2>1, MoneyElsewhere
<1>4. CASE unrecorded
  <2>1. v # 0 /\ v \in Versions /\ was \in {"EXECUTION_PENDING", "CANCELLED"}
    BY <1>4 DEF IInv, TypeOK, AttemptsBound, VersionFollows
  <2>2. /\ version'[v] = IF was = "CANCELLED" THEN was ELSE "PAYMENT_UNKNOWN"
        /\ version' = [version EXCEPT ![v] = version'[v]]
    BY <1>1, <1>4, <2>1, PendingMove DEF IInv, TypeOK
  <2>3. payment'[a] = "UNKNOWN" /\ payment' = [payment EXCEPT ![a] = payment'[a]]
    BY <1>1, <1>4 DEF IInv, TypeOK
  <2>4. ~orders'[a] /\ (closed'[a] => version'[v] \in ClosedStates)
    BY <1>1, <1>4, <2>1, <2>2
       DEF IInv, MoneyAnswered, MoneyInv, ClosedIsFinal, ClosedStates
  <2>5. /\ version'[v] # "EXECUTION_PENDING"
        /\ version'[v] \in StockStates => was \in StockStates
    BY <2>1, <2>2 DEF StockStates
  <2>6. Rank[payment'[a]] >= Rank[payment[a]]
    BY <1>4, <2>3 DEF Rank
  <2> HIDE DEF v, was, unrecorded
  <2> QED
    BY <1>1, <1>2, <2>1, <2>2, <2>3, <2>4, <2>5, <2>6, SameRows, MoneyOfOne
       DEF v, was
<1> QED BY <1>3, <1>4

(* A round starts: an unknown outcome is put under reconciliation.         *)
LEMMA BeginMoney ==
    ASSUME IInv, IInv', MoneyInv, NEW a \in Attempts, NEW w \in Workers,
           NEW r \in Rounds, BeginRound(a, w, r)
    PROVE  MoneyInv' /\ Forward
<1>1. /\ UNCHANGED <<version, hold, bound, orders, refund, closed, cases,
                     paymentId, tries>>
      /\ asking' = [asking EXCEPT ![a][w] = [NotAsking EXCEPT
                       !.step = "asked", !.round = r, !.knewOrder = orderId[a],
                       !.knewPayment = paymentId[a]]]
  BY DEF BeginRound, provider
<1>2. RoundsAreSound'
  <2>1. \A b \in Attempts, u \in Workers :
          \/ asking'[b][u] = asking[b][u]
          \/ b = a /\ asking'[b][u].fact = NoFact
    BY <1>1 DEF IInv, TypeOK, NotAsking
  <2>2. /\ payment'[a] \notin {"NONE", "CREATED"}
        /\ \A b \in Attempts \ {a} : payment'[b] = payment[b]
    BY DEF BeginRound, WORTH_ASKING, IInv, TypeOK
  <2> QED BY <1>1, <2>1, <2>2, RoundsKept
<1>3. CASE payment[a] # "UNKNOWN"
  <2>1. UNCHANGED payment
    BY <1>3 DEF BeginRound, IInv, TypeOK
  <2> QED BY <1>1, <1>2, <2>1, MoneyElsewhere
<1>4. CASE payment[a] = "UNKNOWN"
  <2>1. /\ payment'[a] = "RECONCILING"
        /\ payment' = [payment EXCEPT ![a] = payment'[a]]
    BY <1>4 DEF BeginRound, IInv, TypeOK
  <2>2. /\ bound[a] # 0 /\ version[bound[a]] # "EXECUTION_PENDING"
        /\ closed[a] => version[bound[a]] \in ClosedStates
        /\ ~orders[a]
    BY <1>4 DEF IInv, AttemptsBound, MoneyAnswered, MoneyInv, PendingIsUnsent,
                ClosedIsFinal
  <2>3. Rank[payment'[a]] >= Rank[payment[a]]
    BY <1>4, <2>1 DEF Rank
  <2>4. ~orders'[a] /\ (closed'[a] => version'[bound[a]] \in ClosedStates)
    BY <1>1, <2>2
  <2> QED BY <1>1, <1>2, <2>1, <2>2, <2>3, <2>4, SameRows, MoneyOfOne
<1> QED BY <1>3, <1>4

(* A webhook is applied: what the provider emitted of a capture is true.   *)
LEMMA WebhookMoney ==
    ASSUME IInv, IInv', MoneyInv, NEW a \in Attempts, NEW f \in Facts,
           ApplyWebhook(a, f)
    PROVE  MoneyInv' /\ Forward
<1>1. /\ orderId[a] /\ f \in Emitted(a) /\ EvidenceApplied(a, f)
      /\ payment' = [payment EXCEPT ![a] = AfterEvidence(a, f)]
      /\ cases' = [cases EXCEPT ![a] = @ \cup CasesOf(a, f)]
      /\ UNCHANGED <<bound, tries, asking>>
  BY DEF ApplyWebhook, work, provider
<1>2. f.status = "captured" => tries[a][f.try] = "captured"
  BY <1>1 DEF Emitted
<1>3. payment[a] \notin {"NONE", "CREATED"} /\ bound[a] # 0
  BY <1>1 DEF IInv, AttemptsBound
<1>4. /\ payment'[a] = AfterEvidence(a, f)
      /\ payment' = [payment EXCEPT ![a] = payment'[a]]
      /\ cases'[a] = cases[a] \cup CasesOf(a, f)
      /\ cases' = [cases EXCEPT ![a] = cases'[a]]
  BY <1>1 DEF IInv, TypeOK
<1>5. RoundsAreSound'
  <2>1. \A b \in Attempts \ {a} : payment'[b] = payment[b]
    BY <1>4 DEF IInv, TypeOK
  <2>2. payment'[a] \notin {"NONE", "CREATED"}
    BY <1>3, <1>4, EvidenceResult
  <2> QED BY <1>1, <2>1, <2>2, RoundsKept
<1>6. /\ version' = [version EXCEPT ![bound[a]] = version'[bound[a]]]
      /\ orders' = [orders EXCEPT ![a] = orders'[a]]
      /\ refund' = [refund EXCEPT ![a] = refund'[a]]
  BY <1>1, <1>3, EvidenceStep DEF IInv
<1>7. LET v == bound[a]
          s == version'[v]
          p == payment'[a]
      IN  /\ hold' = [hold EXCEPT ![v] = hold'[v]]
          /\ closed' = [closed EXCEPT ![a] = closed'[a]]
          /\ paymentId' = [paymentId EXCEPT ![a] = paymentId'[a]]
          /\ s # "EXECUTION_PENDING"
          /\ s \in StockStates => version[v] \in StockStates /\ hold'[v] = hold[v]
          /\ closed'[a] => s \in ClosedStates
          /\ p = "CAPTURED" => orders'[a]
          /\ p = "STALE_CAPTURE" => "provider_refunded" \in cases'[a]
          /\ p = "REFUND_PENDING" => refund'[a]
          /\ p = "ESCALATED" => "review" \in cases'[a]
          /\ orders'[a] => paymentId'[a] # 0
                           /\ tries[a][paymentId'[a]] = "captured"
          /\ Rank[p] >= Rank[payment[a]]
          /\ orders'[a] /\ ~orders[a] => clock[a] # "due"
  BY <1>1, <1>2, <1>3, <1>4, EvidenceMoney
<1> QED BY <1>1, <1>3, <1>4, <1>5, <1>6, <1>7, MoneyOfOne

(* A reconciliation concludes, with what it learnt and its escalation.     *)
LEMMA ConcludeMoney ==
    ASSUME IInv, IInv', MoneyInv, NEW a \in Attempts, NEW w \in Workers,
           Conclude(a, w)
    PROVE  MoneyInv' /\ Forward
<1> DEFINE q == asking[a][w]
           learned == q.fact # NoFact
           after == IF learned THEN AfterEvidence(a, q.fact) ELSE payment[a]
           news == IF learned THEN CasesOf(a, q.fact) ELSE {}
<1>1. PICK escalates \in BOOLEAN :
        /\ q.recovered => payment[a] = "RECONCILING"
        /\ payment' = [payment EXCEPT
                         ![a] = IF escalates THEN EscalatedFrom(after) ELSE after]
        /\ cases' = [cases EXCEPT
                       ![a] = @ \cup news \cup IF escalates THEN {"review"} ELSE {}]
        /\ asking' = [asking EXCEPT ![a][w] = NotAsking]
        /\ UNCHANGED <<bound, tries, clock>>
        /\ escalates => ~learned \/ Joined(a, q.fact) \notin ALREADY_RESOLVED
        /\ escalates => q.review \/ q.round # Probe
  BY DEF Conclude, provider
<1>2. /\ payment'[a] = IF escalates THEN EscalatedFrom(after) ELSE after
      /\ payment' = [payment EXCEPT ![a] = payment'[a]]
      /\ cases' = [cases EXCEPT ![a] = cases'[a]]
      /\ cases[a] \cup news \subseteq cases'[a]
      /\ escalates => "review" \in cases'[a]
  BY <1>1 DEF IInv, TypeOK
<1>3. payment[a] \notin {"NONE", "CREATED"} /\ bound[a] # 0
  BY DEF Conclude, IInv, AttemptsBound, MoneyInv, RoundsAreSound
<1>4. RoundsAreSound'
  <2>1. \A b \in Attempts, u \in Workers :
          asking'[b][u] = asking[b][u] \/ asking'[b][u] = NotAsking
    BY <1>1 DEF IInv, TypeOK
  <2>2. after \notin {"NONE", "CREATED"}
    <3>1. "REFUND_PENDING" \notin {"NONE", "CREATED"}
      OBVIOUS
    <3>2. learned => q.fact \in Facts
      BY DEF IInv, TypeOK, Asking
    <3> QED BY <1>3, <3>2, EvidenceResult
  <2>3. payment'[a] \notin {"NONE", "CREATED"}
    <3> HIDE DEF after
    <3> QED BY <1>2, <2>2, EscalationResult
  <2>4. \A b \in Attempts \ {a} : payment'[b] = payment[b]
    BY <1>1 DEF IInv, TypeOK
  <2>5. NotAsking.fact = NoFact /\ NotAsking.step = "idle"
    BY DEF NotAsking
  <2> QED BY <1>1, <2>1, <2>3, <2>4, <2>5, RoundsKept
<1>5. CASE learned
  <2>1. q.fact \in Facts
    BY <1>5 DEF IInv, TypeOK, Asking
  <2>2. EvidenceApplied(a, q.fact)
    BY <1>5 DEF Conclude
  <2>3. orderId[a] \/ Live(a)
    BY <1>1, <1>5 DEF IInv, AnswerHasOrder, Live, LiveStates
  <2>4. q.fact.status = "captured" => tries[a][q.fact.try] = "captured"
    BY DEF MoneyInv, RoundsAreSound
  <2>5. after = AfterEvidence(a, q.fact) /\ news = CasesOf(a, q.fact)
    BY <1>5
  <2> HIDE DEF after, learned, news, q
  <2>6. /\ version' = [version EXCEPT ![bound[a]] = version'[bound[a]]]
        /\ orders' = [orders EXCEPT ![a] = orders'[a]]
        /\ refund' = [refund EXCEPT ![a] = refund'[a]]
    BY <1>3, <2>1, <2>2, <2>3, EvidenceStep DEF IInv
  <2>7. LET v == bound[a]
            s == version'[v]
            said == cases[a] \cup news
        IN  /\ hold' = [hold EXCEPT ![v] = hold'[v]]
            /\ closed' = [closed EXCEPT ![a] = closed'[a]]
            /\ paymentId' = [paymentId EXCEPT ![a] = paymentId'[a]]
            /\ s # "EXECUTION_PENDING"
            /\ s \in StockStates =>
                  version[v] \in StockStates /\ hold'[v] = hold[v]
            /\ closed'[a] => s \in ClosedStates
            /\ after \in Reached
            /\ after = "CAPTURED" => orders'[a]
            /\ after = "STALE_CAPTURE" => "provider_refunded" \in said
            /\ after = "REFUND_PENDING" => refund'[a]
            /\ after = "ESCALATED" => "review" \in said
            /\ orders'[a] => paymentId'[a] # 0
                             /\ tries[a][paymentId'[a]] = "captured"
            /\ Rank[after] >= Rank[payment[a]]
            /\ orders'[a] /\ ~orders[a] => clock[a] # "due"
    BY <1>3, <2>1, <2>2, <2>3, <2>4, <2>5, EvidenceMoney
  <2>8. payment'[a] = after \/ (payment'[a] = "ESCALATED" /\ escalates)
    BY <1>2, EscalationResult
  <2>9. Rank[payment'[a]] >= Rank[payment[a]]
    <3>1. payment[a] \in Reached
      BY <1>3 DEF IInv, AttemptsBound, Reached
    <3>2. Rank[payment'[a]] >= Rank[after]
      BY <1>2, <2>7, EscalationForward, RankSame
    <3>3. "ESCALATED" \in Reached
      BY DEF Reached, Settled
    <3>4. {Rank[payment'[a]], Rank[after], Rank[payment[a]]} \subseteq Nat
      BY <2>7, <2>8, <3>1, <3>3, RankType
    <3> QED BY <2>7, <3>2, <3>4
  <2>10. LET p == payment'[a]
         IN  /\ p = "CAPTURED" => orders'[a]
             /\ p = "STALE_CAPTURE" => "provider_refunded" \in cases'[a]
             /\ p = "REFUND_PENDING" => refund'[a]
             /\ p = "ESCALATED" => "review" \in cases'[a]
    BY <1>2, <2>7, <2>8
  <2> QED BY <1>1, <1>2, <1>3, <1>4, <2>6, <2>7, <2>9, <2>10, MoneyOfOne
<1>6. CASE ~learned
  <2>1. UNCHANGED <<version, hold, closed, paymentId, orders, refund>>
    BY <1>6 DEF Conclude
  <2>2. after = payment[a]
    BY <1>6
  <2> HIDE DEF after, learned, news, q
  <2>3. payment'[a] = payment[a] \/ (payment'[a] = "ESCALATED" /\ escalates)
    BY <1>2, <2>2, EscalationResult
  <2>4. Rank[payment'[a]] >= Rank[payment[a]]
    <3>1. payment[a] \in Reached
      BY <1>3 DEF IInv, AttemptsBound, Reached
    <3> QED BY <1>2, <2>2, <3>1, EscalationForward, RankSame
  <2>5. /\ version[bound[a]] # "EXECUTION_PENDING"
        /\ closed[a] => version[bound[a]] \in ClosedStates
        /\ orders[a] => paymentId[a] # 0 /\ tries[a][paymentId[a]] = "captured"
    BY <1>3 DEF MoneyInv, PendingIsUnsent, ClosedIsFinal, OrderIsBackedByMoney
  <2>6. LET p == payment'[a]
        IN  /\ p = "CAPTURED" => orders[a]
            /\ p = "STALE_CAPTURE" => "provider_refunded" \in cases'[a]
            /\ p = "REFUND_PENDING" => refund[a]
            /\ p = "ESCALATED" => "review" \in cases'[a]
    BY <1>2, <2>3 DEF MoneyInv, HeldMoneyIsAnswered
  <2>7. orders' = orders /\ refund' = refund /\ closed' = closed /\ paymentId' = paymentId
        /\ version' = version /\ hold' = hold
    BY <2>1
  <2> QED
    BY <1>1, <1>2, <1>3, <1>4, <2>3, <2>4, <2>5, <2>6, <2>7, SameRows, MoneyOfOne
<1> QED BY <1>5, <1>6

(* The sweep closes windows: the stock goes, and so does the right to pay. *)
LEMMA HousekeepingMoney ==
    ASSUME IInv, IInv', MoneyInv, NEW stale \in SUBSET Versions, Housekeeping(stale)
    PROVE  MoneyInv' /\ Forward
<1>1. UNCHANGED <<bound, orders, refund, cases, paymentId, tries, asking>>
  BY DEF Housekeeping, provider
<1>2. \A v \in Versions :
        \/ version'[v] = version[v] /\ hold'[v] = hold[v]
        \/ version'[v] \in ClosedStates \cup {"EXPIRED"}
  BY SweepMoves DEF ClosedStates
<1>3. PendingIsUnsent'
  <2> SUFFICES ASSUME NEW a \in Attempts, bound[a] # 0,
                      version'[bound[a]] = "EXECUTION_PENDING"
               PROVE  payment'[a] = "CREATED"
    BY <1>1 DEF PendingIsUnsent
  <2>1. bound[a] \in Versions
    BY DEF IInv, TypeOK
  <2>2. version[bound[a]] = "EXECUTION_PENDING" /\ Closing(a) = "nothing"
    BY <1>2, <2>1, SweepMoves DEF ClosedStates
  <2> QED BY <2>2, SweepMoves DEF MoneyInv, PendingIsUnsent
<1>4. PayableStockIsHeld'
  BY <1>2 DEF MoneyInv, PayableStockIsHeld, ClosedStates
<1>5. HeldMoneyIsAnswered'
  BY <1>1, SweepMoves DEF MoneyInv, HeldMoneyIsAnswered
<1>6. OrderIsBackedByMoney'
  BY <1>1 DEF MoneyInv, OrderIsBackedByMoney
<1>7. ClosedIsFinal'
  <2> SUFFICES ASSUME NEW a \in Attempts, closed'[a]
               PROVE  bound[a] # 0 /\ version'[bound[a]] \in ClosedStates
    BY <1>1 DEF ClosedIsFinal
  <2>1. CASE Closing(a) # "nothing"
    BY <2>1, SweepMoves DEF ClosedStates
  <2>2. CASE Closing(a) = "nothing"
    <3>1. closed[a]
      BY <2>2, SweepMoves
    <3>2. /\ bound[a] # 0 /\ bound[a] \in Versions
          /\ version[bound[a]] \in ClosedStates
      BY <3>1 DEF MoneyInv, ClosedIsFinal, IInv, TypeOK
    <3> QED BY <3>2, SweepMoves DEF ClosedStates
  <2> QED BY <2>1, <2>2
<1>8. RoundsAreSound'
  BY <1>1, SweepMoves, RoundsKept
<1>9. Forward
  <2> SUFFICES ASSUME NEW a \in Attempts, bound[a] # 0
               PROVE  Rank[payment'[a]] >= Rank[payment[a]]
    BY <1>1 DEF Forward
  <2>1. \/ payment'[a] = payment[a]
        \/ payment[a] = "CREATED" /\ payment'[a] \in {"EXPIRED", "UNKNOWN"}
    BY SweepMoves
  <2>2. payment[a] \in Reached
    BY DEF IInv, AttemptsBound, Reached
  <2> QED BY <2>1, <2>2, RankSame DEF Rank
<1> QED BY <1>3, <1>4, <1>5, <1>6, <1>7, <1>8, <1>9 DEF MoneyInv

(* A cancelled version gives its stock up; its attempt was never sent.     *)
LEMMA CancelMoney ==
    ASSUME IInv, IInv', MoneyInv, CancelsItsOwn, CancelCommits
    PROVE  MoneyInv' /\ Forward
<1> DEFINE v == cancelling.version
           a == cancelling.attempt
<1>1. /\ CheckoutEdge(version[v], "CANCELLED")
      /\ a # 0 => payment[a] = "CREATED"
      /\ payment' = [b \in Attempts |-> IF b = a THEN "EXPIRED" ELSE payment[b]]
      /\ version' = [version EXCEPT ![v] = "CANCELLED"]
      /\ hold' = [hold EXCEPT ![v] = Released(hold[v])]
      /\ UNCHANGED <<bound, closed, orders, refund, cases, paymentId, tries, asking>>
  BY DEF CancelCommits, provider
<1>2. v \in Versions /\ 0 \notin Attempts
  BY BoundsAssumption DEF CancelCommits, IInv, TypeOK, Attempts
<1>3. \A w \in Versions :
        \/ version'[w] = version[w] /\ hold'[w] = hold[w]
        \/ version'[w] = "CANCELLED"
  BY <1>1 DEF IInv, TypeOK
<1>4. \A b \in Attempts :
        \/ payment'[b] = payment[b]
        \/ payment[b] = "CREATED" /\ payment'[b] = "EXPIRED"
  BY <1>1, <1>2 DEF CancelCommits
<1> HIDE DEF v, a
<1>5. PendingIsUnsent'
  <2> SUFFICES ASSUME NEW b \in Attempts, bound[b] # 0,
                      version'[bound[b]] = "EXECUTION_PENDING"
               PROVE  payment'[b] = "CREATED"
    BY <1>1 DEF PendingIsUnsent
  <2>1. version[bound[b]] = "EXECUTION_PENDING" /\ bound[b] # v
    BY <1>1, <1>3 DEF IInv, TypeOK
  <2>2. payment[b] = "CREATED"
    BY <2>1 DEF MoneyInv, PendingIsUnsent
  <2>3. b # a
    BY <1>2, <2>1 DEF CancelsItsOwn, a, v
  <2> QED BY <1>1, <2>2, <2>3
<1>6. PayableStockIsHeld'
  BY <1>3 DEF MoneyInv, PayableStockIsHeld
<1>7. HeldMoneyIsAnswered'
  BY <1>1, <1>4 DEF MoneyInv, HeldMoneyIsAnswered
<1>8. OrderIsBackedByMoney'
  BY <1>1 DEF MoneyInv, OrderIsBackedByMoney
<1>9. ClosedIsFinal'
  BY <1>1, <1>3 DEF MoneyInv, ClosedIsFinal, ClosedStates, IInv, TypeOK
<1>10. RoundsAreSound'
  BY <1>1, <1>4, RoundsKept
<1>11. Forward
  <2> SUFFICES ASSUME NEW b \in Attempts, bound[b] # 0
               PROVE  Rank[payment'[b]] >= Rank[payment[b]]
    BY <1>1 DEF Forward
  <2>1. payment[b] \in Reached
    BY DEF IInv, AttemptsBound, Reached
  <2> QED BY <1>4, <2>1, RankSame DEF Rank
<1> QED BY <1>5, <1>6, <1>7, <1>8, <1>9, <1>10, <1>11 DEF MoneyInv

(* The steps that move no row of the kernel but the payment's id.          *)
LEMMA OutsideMoney ==
    ASSUME IInv, MoneyInv, NEW a \in Attempts,
           \/ ConsumeGrant(a) \/ RefuseCommand(a) \/ RecordConflict(a)
           \/ CrashInCall(a) \/ AskStatus(a) \/ MerchantRefunds(a) \/ TimePasses(a)
           \/ \E w \in Workers :
                 CrashInReconcile(a, w) \/ ConcludeConflict(a, w) \/ Look(a, w)
           \/ \E answer \in Answers : ProviderAnswers(a, answer)
           \/ \E r \in Rounds : DropRound(a, r)
           \/ \E t \in Tries : BrowserCallback(a, t)
           \/ \E t \in Tries, result \in TryStatus \ {"none"} :
                 BuyerPays(a, t, result)
    PROVE  MoneyInv' /\ Forward
<1> USE DEF kernel, work, provider
<1>1. UNCHANGED <<version, hold, bound, payment, orders, refund, closed, cases>>
  BY DEF ConsumeGrant, RefuseCommand, RecordConflict, CrashInCall,
         CrashInReconcile, ConcludeConflict, Look, AskStatus, MerchantRefunds,
         TimePasses, ProviderAnswers, DropRound, BrowserCallback, BuyerPays
<1>2. \A b \in Attempts : paymentId[b] # 0 => paymentId'[b] = paymentId[b]
  <2>1. CASE \E t \in Tries : BrowserCallback(a, t)
    BY <2>1 DEF BrowserCallback, IInv, TypeOK
  <2>2. CASE UNCHANGED paymentId
    BY <2>2
  <2> QED
    BY <2>1, <2>2
       DEF ConsumeGrant, RefuseCommand, RecordConflict, CrashInCall,
           CrashInReconcile, ConcludeConflict, Look, AskStatus, MerchantRefunds,
           TimePasses, ProviderAnswers, DropRound, BuyerPays
<1>3. \A b \in Attempts, t \in Tries :
        tries[b][t] = "captured" => tries'[b][t] = "captured"
  <2>1. ASSUME NEW t \in Tries, NEW result \in TryStatus, BuyerPays(a, t, result)
        PROVE  \A b \in Attempts, u \in Tries :
                  tries[b][u] = "captured" => tries'[b][u] = "captured"
    <3>1. /\ tries' = [tries EXCEPT ![a] = [tries[a] EXCEPT ![t] = result]]
          /\ tries[a][t] # "captured"
      BY <2>1 DEF BuyerPays
    <3>2. /\ tries'[a] = [tries[a] EXCEPT ![t] = result]
          /\ \A b \in Attempts \ {a} : tries'[b] = tries[b]
          /\ tries[a] \in [Tries -> TryStatus]
      BY <3>1 DEF IInv, TypeOK
    <3>3. \A u \in Tries \ {t} : tries'[a][u] = tries[a][u]
      BY <3>2
    <3> TAKE b \in Attempts, u \in Tries
    <3>4. CASE b # a
      BY <3>2, <3>4
    <3>5. CASE b = a /\ u # t
      BY <3>3, <3>5
    <3>6. CASE b = a /\ u = t
      BY <3>1, <3>6
    <3> QED BY <3>4, <3>5, <3>6
  <2>2. CASE UNCHANGED tries
    BY <2>2
  <2> QED
    BY <2>1, <2>2
       DEF ConsumeGrant, RefuseCommand, RecordConflict, CrashInCall,
           CrashInReconcile, ConcludeConflict, Look, AskStatus, MerchantRefunds,
           TimePasses, ProviderAnswers, DropRound, BrowserCallback
<1>4. RoundsAreSound'
  <2>1. CASE \/ UNCHANGED asking
             \/ \E w \in Workers : asking' = [asking EXCEPT ![a][w] = NotAsking]
    <3>1. \A b \in Attempts, w \in Workers :
            asking'[b][w] = asking[b][w] \/ asking'[b][w] = NotAsking
      <4>1. CASE \E w \in Workers : asking' = [asking EXCEPT ![a][w] = NotAsking]
        BY <4>1 DEF IInv, TypeOK
      <4>2. CASE UNCHANGED asking
        BY <4>2
      <4> QED BY <2>1, <4>1, <4>2
    <3>2. NotAsking.fact = NoFact /\ NotAsking.step = "idle"
      BY DEF NotAsking
    <3> QED BY <1>1, <1>3, <3>1, <3>2, RoundsKept
  <2>2. ASSUME NEW w \in Workers, Look(a, w)
        PROVE  RoundsAreSound'
    <3>1. PICK recovered, fact, review :
            /\ asking' = [asking EXCEPT ![a][w] = [NotAsking EXCEPT
                             !.step = "answered", !.round = asking[a][w].round,
                             !.recovered = recovered, !.fact = fact,
                             !.review = review]]
            /\ \/ fact = NoFact
               \/ fact \in Fetched(a, asking[a][w].knewPayment)
      BY <2>2 DEF Look
    <3>2. /\ asking'[a][w].fact = fact
          /\ \A b \in Attempts, u \in Workers :
                <<b, u>> # <<a, w>> => asking'[b][u] = asking[b][u]
      BY <3>1 DEF IInv, TypeOK, NotAsking
    <3>3. fact.status = "captured" => tries[a][fact.try] = "captured"
      <4>1. CASE fact = NoFact
        BY <4>1 DEF NoFact
      <4>2. CASE fact \in Fetched(a, asking[a][w].knewPayment)
        BY <4>2 DEF Fetched
      <4> QED BY <3>1, <4>1, <4>2
    <3>4. payment[a] \notin {"NONE", "CREATED"} /\ tries' = tries
      BY <2>2 DEF Look, MoneyInv, RoundsAreSound
    <3>5. ASSUME NEW b \in Attempts, NEW u \in Workers, <<b, u>> # <<a, w>>
          PROVE  LET q == asking'[b][u]
                 IN  /\ q.step # "idle" => payment'[b] \notin {"NONE", "CREATED"}
                     /\ q.fact.status = "captured" =>
                           tries'[b][q.fact.try] = "captured"
      BY <1>1, <3>2, <3>4, <3>5 DEF MoneyInv, RoundsAreSound
    <3> QED BY <1>1, <3>2, <3>3, <3>4, <3>5 DEF RoundsAreSound
  <2> QED
    BY <2>1, <2>2
       DEF ConsumeGrant, RefuseCommand, RecordConflict, CrashInCall,
           CrashInReconcile, ConcludeConflict, AskStatus, MerchantRefunds,
           TimePasses, ProviderAnswers, DropRound, BrowserCallback, BuyerPays
<1> QED BY <1>1, <1>2, <1>3, <1>4, MoneyElsewhere

(* A cancellation reads an attempt of its version, and attempts keep their *)
(* versions.                                                               *)
LEMMA CancelsItsOwnStep == TypeOK /\ CancelsItsOwn /\ [Next]_vars => CancelsItsOwn'
<1> SUFFICES ASSUME TypeOK, CancelsItsOwn, [Next]_vars
             PROVE  CancelsItsOwn'
  OBVIOUS
<1>1. ASSUME UNCHANGED <<bound, cancelling>>
      PROVE  CancelsItsOwn'
  BY <1>1 DEF CancelsItsOwn
<1>2. CASE Buyer
  <2>1. ASSUME NEW v \in Versions, NEW a \in Attempts, Admit(v, a)
        PROVE  CancelsItsOwn'
    <3>1. /\ bound' = [bound EXCEPT ![a] = v] /\ bound[a] = 0
          /\ UNCHANGED cancelling
      BY <2>1 DEF Admit, NextAttempt
    <3>2. cancelling.attempt # 0 => cancelling.attempt \in Attempts \ {a}
      BY <3>1 DEF CancelsItsOwn, TypeOK
    <3> QED BY <3>1, <3>2 DEF CancelsItsOwn, TypeOK
  <2>2. CASE CancelCommits \/ CancelDenied
    BY <2>2 DEF CancelCommits, CancelDenied, CancelsItsOwn, kernel
  <2>3. ASSUME NEW v \in Versions, CancelReads(v)
        PROVE  CancelsItsOwn'
    <3>1. v # 0
      BY BoundsAssumption DEF Versions
    <3>2. UNCHANGED bound /\ cancelling'.version = v
          /\ (cancelling'.attempt # 0 => bound[cancelling'.attempt] = v)
      BY <2>3 DEF CancelReads, kernel
    <3> QED BY <3>1, <3>2 DEF CancelsItsOwn
  <2> QED
    BY <1>1, <1>2, <2>1, <2>2, <2>3
       DEF Buyer, CreateCheckout, SupersedeCheckout, RecordApproval,
           RejectApproval, AdmitFindsChange, AdmitFindsNothing,
           InvalidateOpen, AskStatus, BrowserCallback, kernel, work
<1>3. ASSUME NEW a \in Attempts,
             \/ CreateOrderWorker(a) \/ ReconcileWorker(a) \/ Provider(a)
             \/ TimePasses(a)
      PROVE  CancelsItsOwn'
  <2>1. CASE CreateOrderWorker(a)
    BY <1>1, <2>1
       DEF CreateOrderWorker, ConsumeGrant, RefuseCommand, ProviderAnswers,
           RecordCreateOrderResult, RecordConflict, CrashInCall, Resume, kernel
  <2>2. CASE ReconcileWorker(a)
    BY <1>1, <2>2
       DEF ReconcileWorker, BeginRound, DropRound, Look, Conclude,
           ConcludeConflict, CrashInReconcile, kernel
  <2>3. CASE Provider(a) \/ TimePasses(a)
    BY <1>1, <2>3
       DEF Provider, TimePasses, BuyerPays, MerchantRefunds, ApplyWebhook, kernel, work
  <2> QED BY <1>3, <2>1, <2>2, <2>3
<1>4. CASE \E stale \in SUBSET Versions : Housekeeping(stale)
  BY <1>1, <1>4 DEF Housekeeping
<1>5. CASE UNCHANGED vars
  BY <1>1, <1>5 DEF vars, kernel, work
<1> QED BY <1>2, <1>3, <1>4, <1>5 DEF Next

-----------------------------------------------------------------------------
LEMMA MoneyStep ==
    ASSUME IInv, IInv', MoneyInv, CancelsItsOwn, [Next]_vars
    PROVE  MoneyInv' /\ Forward
<1>1. ASSUME Buyer PROVE MoneyInv' /\ Forward
  <2>1. CASE \E v \in Versions :
               \/ SupersedeCheckout(v) \/ RecordApproval(v) \/ RejectApproval(v)
               \/ AdmitFindsChange(v) \/ AdmitFindsNothing(v) \/ InvalidateOpen(v)
    BY <2>1, ShopMoney
  <2>2. CASE CreateCheckout
    <3>1. 1 \in Versions
      BY BoundsAssumption DEF Versions
    <3> QED BY <2>2, <3>1, ShopMoney
  <2>3. CASE CancelDenied \/ \E v \in Versions : CancelReads(v)
    <3>1. UNCHANGED <<version, hold, bound, payment, orders, refund, closed,
                      cases, paymentId, tries, asking>>
      BY <2>3 DEF CancelDenied, CancelReads, kernel, provider
    <3>2. RoundsAreSound'
      BY <3>1 DEF MoneyInv, RoundsAreSound
    <3> QED BY <3>1, <3>2, MoneyElsewhere
  <2>4. CASE CancelCommits
    BY <2>4, CancelMoney
  <2>5. CASE \E v \in Versions, a \in Attempts : Admit(v, a)
    BY <2>5, AdmitMoney
  <2>6. CASE \E a \in Attempts :
               AskStatus(a) \/ \E t \in Tries : BrowserCallback(a, t)
    BY <2>6, OutsideMoney
  <2> QED BY <1>1, <2>1, <2>2, <2>3, <2>4, <2>5, <2>6 DEF Buyer
<1>2. ASSUME NEW a \in Attempts, CreateOrderWorker(a) PROVE MoneyInv' /\ Forward
  BY <1>2, OutsideMoney, RecordMoney, ResumeMoney DEF CreateOrderWorker
<1>3. ASSUME NEW a \in Attempts, ReconcileWorker(a) PROVE MoneyInv' /\ Forward
  BY <1>3, OutsideMoney, BeginMoney, ConcludeMoney DEF ReconcileWorker
<1>4. ASSUME NEW a \in Attempts, Provider(a) PROVE MoneyInv' /\ Forward
  BY <1>4, OutsideMoney, WebhookMoney DEF Provider
<1>5. ASSUME NEW a \in Attempts, TimePasses(a) PROVE MoneyInv' /\ Forward
  BY <1>5, OutsideMoney
<1>6. ASSUME NEW stale \in SUBSET Versions, Housekeeping(stale)
      PROVE  MoneyInv' /\ Forward
  BY <1>6, HousekeepingMoney
<1>7. ASSUME UNCHANGED vars PROVE MoneyInv' /\ Forward
  <2>1. UNCHANGED <<version, hold, bound, payment, orders, refund, closed,
                    cases, paymentId, tries, asking>>
    BY <1>7 DEF vars, kernel, work, provider
  <2>2. RoundsAreSound'
    BY <2>1 DEF MoneyInv, RoundsAreSound
  <2> QED BY <2>1, <2>2, MoneyElsewhere
<1> QED BY <1>1, <1>2, <1>3, <1>4, <1>5, <1>6, <1>7 DEF Next

LEMMA MoneyInit == Init => MoneyInv /\ CancelsItsOwn
<1> SUFFICES ASSUME Init PROVE MoneyInv /\ CancelsItsOwn
  OBVIOUS
<1>1. /\ PendingIsUnsent /\ PayableStockIsHeld /\ HeldMoneyIsAnswered
      /\ OrderIsBackedByMoney /\ ClosedIsFinal
  BY DEF Init, PendingIsUnsent, PayableStockIsHeld, HeldMoneyIsAnswered,
         OrderIsBackedByMoney, ClosedIsFinal
<1>2. RoundsAreSound
  BY DEF Init, RoundsAreSound, NotAsking, NoFact
<1> QED BY <1>1, <1>2 DEF MoneyInv, Init, CancelsItsOwn

(* The second invariant holds in every reachable state.                    *)
THEOREM MoneyInvariance == Spec => [](MoneyInv /\ CancelsItsOwn)
<1>1. IInv /\ IInv' /\ MoneyInv /\ CancelsItsOwn /\ [Next]_vars =>
        (MoneyInv /\ CancelsItsOwn)'
  <2>1. IInv => TypeOK
    BY DEF IInv
  <2> QED BY <2>1, MoneyStep, CancelsItsOwnStep
<1> QED BY <1>1, MoneyInit, Invariance, PTL DEF Spec

(* No attempt that may have reached the provider leaves its version        *)
(* waiting for execution (payments.py moves both under one lock).          *)
THEOREM PendingUnsent == Spec => []PendingIsUnsent
<1>1. MoneyInv => PendingIsUnsent
  BY DEF MoneyInv
<1> QED BY <1>1, MoneyInvariance, PTL

(* Stock stays taken while the version can be paid or has been: no failure *)
(* report, sweep, cancellation or crash frees it early.                    *)
THEOREM StockHeldWhilePayable == Spec => []PayableStockIsHeld
<1>1. MoneyInv => PayableStockIsHeld
  BY DEF MoneyInv
<1> QED BY <1>1, MoneyInvariance, PTL

(* Every capture has its order, its refund or the case that stands for     *)
(* them, and a frozen attempt has its case.                                *)
THEOREM MoneyIsAnswered == Spec => []HeldMoneyIsAnswered
<1>1. MoneyInv => HeldMoneyIsAnswered
  BY DEF MoneyInv
<1> QED BY <1>1, MoneyInvariance, PTL

(* An order stands for a capture the provider made of the payment the      *)
(* attempt recorded, however the news of several payments is interleaved.  *)
THEOREM OrderIsBacked == Spec => []OrderIsBackedByMoney
<1>1. MoneyInv => OrderIsBackedByMoney
  BY DEF MoneyInv
<1> QED BY <1>1, MoneyInvariance, PTL

(* No step takes an attempt back on the axis of known money.               *)
THEOREM MoneyForward == Spec => MoneyNeverRegresses
<1>1. IInv /\ IInv' /\ MoneyInv /\ CancelsItsOwn /\ [Next]_vars =>
        [\A a \in Attempts : bound[a] # 0 =>
            Rank[payment'[a]] >= Rank[payment[a]]]_vars
  BY MoneyStep DEF Forward
<1> QED BY <1>1, MoneyInvariance, Invariance, PTL DEF Spec, MoneyNeverRegresses

(* A capture learnt of after the deadline is never fulfilled, whether or   *)
(* not the sweep has run.                                                  *)
THEOREM LateCaptureIsNeverFulfilled == Spec => NoOrderAfterDeadline
<1>1. IInv /\ IInv' /\ MoneyInv /\ CancelsItsOwn /\ [Next]_vars =>
        [\A a \in Attempts : orders'[a] /\ ~orders[a] => clock[a] # "due"]_vars
  BY MoneyStep DEF Forward
<1> QED BY <1>1, MoneyInvariance, Invariance, PTL DEF Spec, NoOrderAfterDeadline

-----------------------------------------------------------------------------
(* A checkout implements the abstract purchase.                            *)

(* An approval is recorded only on what can still be paid, or on what has  *)
(* been retired since.                                                     *)
ApprovalIsCurrent ==
    \A v \in Versions :
        approval[v] = "RECORDED" => version[v] \in {"APPROVED"} \cup Retire

(* Nothing is sent back that was not taken.                                *)
ReturnsWhatWasTaken ==
    \A a \in Attempts :
        payment[a] \in {"STALE_CAPTURE", "REFUND_PENDING"} => a \in Charged

PurchaseInv == ApprovalIsCurrent /\ ReturnsWhatWasTaken

PurchaseStep == ThePurchase!Next \/ UNCHANGED ThePurchase!vars

(* The outcome of an attempt, read off its status alone.                   *)
View(s) ==
    IF s = "NONE" THEN "absent"
    ELSE IF s \in LiveStates THEN "open"
    ELSE IF s = "CAPTURED" THEN "sold"
    ELSE IF s \in {"STALE_CAPTURE", "REFUND_PENDING"} THEN "returning"
    ELSE IF s = "ESCALATED" THEN "review" ELSE "unsold"

LEMMA OutcomeIsView ==
    IInv /\ MoneyInv => \A a \in Attempts : Outcome(a) = View(payment[a])
<1> SUFFICES ASSUME IInv, MoneyInv, NEW a \in Attempts
             PROVE  Outcome(a) = View(payment[a])
  OBVIOUS
<1>1. /\ payment[a] \in {"NONE"} \cup LiveStates \cup Settled
      /\ orders[a] <=> payment[a] = "CAPTURED"
      /\ payment[a] = "STALE_CAPTURE" => "provider_refunded" \in cases[a]
      /\ payment[a] = "REFUND_PENDING" => refund[a]
      /\ payment[a] = "ESCALATED" => "review" \in cases[a]
  BY DEF IInv, AttemptsBound, MoneyAnswered, MoneyInv, HeldMoneyIsAnswered
<1> QED BY <1>1 DEF Outcome, View, Live, LiveStates, Settled

(* The same of the state after a step.                                     *)
LEMMA OutcomesAreViews ==
    ASSUME IInv, MoneyInv, IInv', MoneyInv'
    PROVE  \A a \in Attempts :
              /\ Outcome(a) = View(payment[a])
              /\ Outcome(a)' = View(payment'[a])
<1>1. (IInv /\ MoneyInv => \A a \in Attempts : Outcome(a) = View(payment[a]))'
  BY OutcomeIsView, PTL
<1> QED BY <1>1, OutcomeIsView

(* A version that an attempt is bound to is no longer agreed to.           *)
LEMMA AgreedStays ==
    ASSUME IInv, IInv', UNCHANGED <<approval, bound>>, NEW a \in Attempts,
           bound[a] # 0,
           version' = [version EXCEPT ![bound[a]] = version'[bound[a]]]
    PROVE  Agreed' = Agreed
<1>1. /\ bound[a] \in Versions
      /\ \A w \in Versions \ {bound[a]} : version'[w] = version[w]
  BY DEF IInv, TypeOK
<1>2. /\ version[bound[a]] \notin {"NONE", "APPROVED"}
      /\ version'[bound[a]] \notin {"NONE", "APPROVED"}
  BY DEF IInv, ApprovalUnspent
<1>3. \A w \in Versions : Exists(w)' <=> Exists(w)
  BY <1>1, <1>2 DEF Exists
<1>4. \A w \in Versions : Head(w)' <=> Head(w)
  BY <1>3 DEF Head
<1> QED BY <1>1, <1>2, <1>4 DEF Agreed

(* What is agreed to is only ever withdrawn, but for the buyer's decision. *)
LEMMA AgreedLapses ==
    ASSUME \A v \in Versions :
              /\ Exists(v) => Exists(v)'
              /\ version'[v] = "APPROVED" /\ approval'[v] = "RECORDED" =>
                    version[v] = "APPROVED" /\ approval[v] = "RECORDED"
    PROVE  Agreed' => Agreed
BY DEF Agreed, Head, Exists

(* Nothing is agreed to once something has been sold.                      *)
LEMMA SoldIsLatest ==
    ASSUME IInv, NEW v \in Versions, Head(v), NEW a \in Attempts,
           payment[a] = "CAPTURED"
    PROVE  version[v] = "PAID"
<1>1. bound[a] \in Versions /\ version[bound[a]] = "PAID"
  BY DEF IInv, TypeOK, AttemptsBound, VersionFollows
<1>2. ~(bound[a] < v) /\ ~(v < bound[a])
  BY <1>1 DEF IInv, PredecessorRetired, Head, Exists, Retire
<1> QED BY <1>1, <1>2 DEF Versions

(* A step in which one attempt and its version move: it begins nothing,    *)
(* and what it sells or returns has been charged.                          *)
LEMMA PurchaseOfOne ==
    ASSUME IInv, IInv', MoneyInv, MoneyInv', PurchaseInv, NEW a \in Attempts,
           bound[a] # 0, UNCHANGED <<approval, bound, tries>>,
           version' = [version EXCEPT ![bound[a]] = version'[bound[a]]],
           payment' = [payment EXCEPT ![a] = payment'[a]],
           \/ payment[a] \in LiveStates
           \/ payment'[a] = payment[a]
           \/ payment[a] = "STALE_CAPTURE" /\ payment'[a] = "REFUND_PENDING",
           payment'[a] \in {"STALE_CAPTURE", "REFUND_PENDING"} => a \in Charged
    PROVE  PurchaseInv' /\ PurchaseStep
<1>1. Agreed' = Agreed /\ Charged' = Charged
  BY AgreedStays DEF Charged
<1>2. \A b \in Attempts \ {a} : payment'[b] = payment[b]
  BY DEF IInv, TypeOK
<1>3. /\ payment[a] \in LiveStates \cup Settled
      /\ payment'[a] \in LiveStates \cup Settled
  BY DEF IInv, AttemptsBound
<1>4. ApprovalIsCurrent'
  BY DEF PurchaseInv, ApprovalIsCurrent, IInv, TypeOK, ApprovalUnspent
<1>5. ReturnsWhatWasTaken'
  BY <1>1, <1>2 DEF PurchaseInv, ReturnsWhatWasTaken
<1>6. \A b \in Attempts :
        Outcome(b) = View(payment[b]) /\ Outcome(b)' = View(payment'[b])
  BY OutcomesAreViews
<1>7. \A b \in Attempts \ {a} : Outcome(b)' = Outcome(b)
  BY <1>2, <1>6
<1>8. CASE Outcome(a)' = Outcome(a)
  <2>1. UNCHANGED ThePurchase!vars
    BY <1>1, <1>7, <1>8 DEF ThePurchase!vars
  <2> QED BY <1>4, <1>5, <2>1 DEF PurchaseInv, PurchaseStep
<1>9. CASE Outcome(a)' # Outcome(a)
  <2>1. Outcome(a) = "open" /\ payment'[a] \in Settled
    BY <1>3, <1>6, <1>9 DEF View, LiveStates, Settled
  <2>2. CASE payment'[a] = "CAPTURED"
    <3>1. a \in Charged
      <4>1. orders'[a]
        BY <2>2 DEF MoneyInv, HeldMoneyIsAnswered
      <4>2. paymentId'[a] # 0 /\ tries'[a][paymentId'[a]] = "captured"
        BY <4>1 DEF MoneyInv, OrderIsBackedByMoney
      <4>3. paymentId'[a] \in Tries
        BY <4>2, BoundsAssumption DEF IInv, TypeOK, Tries
      <4> QED BY <4>2, <4>3 DEF Charged
    <3>2. Outcome(a)' = "sold"
      BY <1>6, <2>2 DEF View, LiveStates
    <3>3. ThePurchase!Sell(a)
      BY <1>1, <1>7, <2>1, <3>1, <3>2 DEF ThePurchase!Sell, ThePurchase!Open
    <3> QED BY <3>3, <1>4, <1>5 DEF ThePurchase!Next, PurchaseInv, PurchaseStep
  <2>3. CASE payment'[a] \in {"STALE_CAPTURE", "REFUND_PENDING"}
    <3>1. Outcome(a)' = "returning"
      BY <1>6, <2>3 DEF View, LiveStates
    <3>2. ThePurchase!Return(a)
      BY <1>1, <1>7, <2>1, <2>3, <3>1 DEF ThePurchase!Return, ThePurchase!Open
    <3> QED BY <3>2, <1>4, <1>5 DEF ThePurchase!Next, PurchaseInv, PurchaseStep
  <2>4. CASE payment'[a] = "ESCALATED"
    <3>1. Outcome(a)' = "review"
      BY <1>6, <2>4 DEF View, LiveStates
    <3>2. ThePurchase!Freeze(a)
      BY <1>1, <1>7, <2>1, <3>1 DEF ThePurchase!Freeze, ThePurchase!Open
    <3> QED BY <3>2, <1>4, <1>5 DEF ThePurchase!Next, PurchaseInv, PurchaseStep
  <2>5. CASE payment'[a] \in {"FAILED", "EXPIRED"}
    <3>1. Outcome(a)' = "unsold"
      BY <1>6, <2>5 DEF View, LiveStates
    <3>2. ThePurchase!Abandon({a})
      BY <1>1, <1>7, <2>1, <3>1 DEF ThePurchase!Abandon, ThePurchase!Open
    <3> QED BY <3>2, <1>4, <1>5 DEF ThePurchase!Next, PurchaseInv, PurchaseStep
  <2> QED BY <2>1, <2>2, <2>3, <2>4, <2>5 DEF Settled
<1> QED BY <1>8, <1>9

(* Evidence leaves what is settled alone, but for the refund of a capture  *)
(* found stale, and makes nothing stale that was not captured.             *)
LEMMA EvidencePurchase ==
    ASSUME IInv, PurchaseInv, NEW a \in Attempts, NEW f \in Facts,
           payment[a] \in (LiveStates \ {"CREATED"}) \cup Settled,
           f.status = "captured" => tries[a][f.try] = "captured"
    PROVE  LET p == AfterEvidence(a, f)
           IN  /\ \/ payment[a] \in LiveStates
                  \/ p = payment[a]
                  \/ payment[a] = "STALE_CAPTURE" /\ p = "REFUND_PENDING"
               /\ p \in {"STALE_CAPTURE", "REFUND_PENDING"} => a \in Charged
<1>1. Incoming(a, f) \in Reported
      /\ (Incoming(a, f) = "STALE_CAPTURE" => Judged(a) \in NEVER_FULFIL)
      /\ (Incoming(a, f) = "STALE_CAPTURE" /\ f.status # "pending" =>
            f.status = "captured" /\ f.try \in Tries)
  BY DEF Incoming, Reported, Facts
<1>2. Joined(a, f) = "STALE_CAPTURE" =>
        \/ payment[a] = "STALE_CAPTURE"
        \/ Incoming(a, f) = "STALE_CAPTURE" /\ f.status # "pending"
  <2>1. EscalatedFrom(payment[a]) \in {payment[a], "ESCALATED"}
    BY EscalationResult
  <2>2. MonotonicApply(payment[a], Incoming(a, f)) \in
          {payment[a], Incoming(a, f), "RECONCILING"}
    BY JoinResult
  <2> QED BY <2>1, <2>2, JoinedCases
<1>3. AfterEvidence(a, f) \in {Joined(a, f), "REFUND_PENDING"}
      /\ (AfterEvidence(a, f) # Joined(a, f) => Joined(a, f) = "STALE_CAPTURE")
  BY DEF AfterEvidence, AdmitsRefund, StaleCapture
<1>4. payment[a] \in Settled => Joined(a, f) = payment[a]
  <2> SUFFICES ASSUME payment[a] \in Settled PROVE Joined(a, f) = payment[a]
    OBVIOUS
  <2>1. CASE Mismatch(a, f)
    BY <2>1, JoinedCases, EscalatedLive DEF Settled, LiveStates
  <2>2. CASE ~Mismatch(a, f)
    <3>1. payment[a] = "CAPTURED" => Incoming(a, f) # "STALE_CAPTURE"
      <4> SUFFICES ASSUME payment[a] = "CAPTURED"
                   PROVE  Judged(a) \notin NEVER_FULFIL
        BY <1>1
      <4>1. version[bound[a]] = "PAID"
        BY DEF IInv, AttemptsBound, VersionFollows
      <4>2. Closing(a) # "closes"
        BY ClosingLive DEF LiveStates
      <4> QED BY <4>1, <4>2 DEF Judged, NEVER_FULFIL
    <3> QED BY <1>1, <2>2, <3>1, JoinedCases, SettledJoin
  <2> QED BY <2>1, <2>2
<1>5. Joined(a, f) \in {"STALE_CAPTURE", "REFUND_PENDING"} => a \in Charged
  <2>1. Joined(a, f) = "REFUND_PENDING" => payment[a] = "REFUND_PENDING"
    <3>1. EscalatedFrom(payment[a]) \in {payment[a], "ESCALATED"}
      BY EscalationResult
    <3>2. MonotonicApply(payment[a], Incoming(a, f)) \in
            {payment[a], Incoming(a, f), "RECONCILING"}
      BY JoinResult
    <3> QED BY <1>1, <3>1, <3>2, JoinedCases DEF Reported
  <2> QED
    BY <1>1, <1>2, <2>1 DEF PurchaseInv, ReturnsWhatWasTaken, Charged
<1> QED BY <1>3, <1>4, <1>5

(* A step that moves neither versions nor attempts nor money.              *)
LEMMA PurchaseElsewhere ==
    ASSUME PurchaseInv, UNCHANGED <<version, approval, payment, orders, cases,
                                    refund, tries>>
    PROVE  PurchaseInv' /\ PurchaseStep
<1>1. Agreed' = Agreed /\ Charged' = Charged
  BY DEF Agreed, Head, Exists, Charged
<1>2. \A a \in Attempts : Outcome(a)' = Outcome(a)
  BY DEF Outcome, Live
<1>3. PurchaseInv'
  BY <1>1 DEF PurchaseInv, ApprovalIsCurrent, ReturnsWhatWasTaken
<1> QED BY <1>1, <1>2, <1>3 DEF PurchaseStep, ThePurchase!vars

(* The transactions of the executor and of the webhook, each of them about *)
(* one attempt.                                                            *)
LEMMA RecordPurchase ==
    ASSUME IInv, IInv', MoneyInv, MoneyInv', PurchaseInv, NEW a \in Attempts,
           RecordCreateOrderResult(a)
    PROVE  PurchaseInv' /\ PurchaseStep
<1>1. /\ UNCHANGED <<approval, bound, tries>> /\ bound[a] # 0
      /\ payment' = [payment EXCEPT ![a] = payment'[a]]
  BY DEF RecordCreateOrderResult, IInv, TypeOK, AttemptsBound, provider
<1>2. version' = [version EXCEPT ![bound[a]] = version'[bound[a]]]
  <2>1. version' = version \/ \E s : version' = [version EXCEPT ![bound[a]] = s]
    BY DEF RecordCreateOrderResult
  <2> QED BY <2>1 DEF IInv, TypeOK
<1>3. /\ payment[a] \in LiveStates
      /\ payment'[a] \in {"SUBMITTED", "FAILED", "UNKNOWN", "ESCALATED"}
  BY DEF RecordCreateOrderResult, IInv, TypeOK, LiveStates
<1> QED BY <1>1, <1>2, <1>3, PurchaseOfOne

LEMMA ResumePurchase ==
    ASSUME IInv, IInv', MoneyInv, MoneyInv', PurchaseInv, NEW a \in Attempts,
           Resume(a)
    PROVE  PurchaseInv' /\ PurchaseStep
<1>1. UNCHANGED <<approval, bound, orders, cases, refund, tries>>
  BY DEF Resume, provider
<1>2. CASE ~orderId[a] /\ payment[a] = "CREATED"
  <2>1. /\ bound[a] # 0 /\ payment[a] \in LiveStates
        /\ payment' = [payment EXCEPT ![a] = payment'[a]]
        /\ payment'[a] = "UNKNOWN"
    BY <1>2 DEF Resume, IInv, TypeOK, AttemptsBound, LiveStates
  <2>2. version' = [version EXCEPT ![bound[a]] = version'[bound[a]]]
    BY DEF Resume, IInv, TypeOK
  <2> QED BY <1>1, <2>1, <2>2, PurchaseOfOne
<1>3. CASE ~(~orderId[a] /\ payment[a] = "CREATED")
  <2>1. UNCHANGED <<version, payment>>
    BY <1>3 DEF Resume, IInv, TypeOK
  <2> QED BY <1>1, <2>1, PurchaseElsewhere
<1> QED BY <1>2, <1>3

LEMMA BeginPurchase ==
    ASSUME IInv, IInv', MoneyInv, MoneyInv', PurchaseInv, NEW a \in Attempts,
           NEW w \in Workers, NEW r \in Rounds, BeginRound(a, w, r)
    PROVE  PurchaseInv' /\ PurchaseStep
<1>1. /\ UNCHANGED <<version, approval, bound, tries>> /\ bound[a] # 0
      /\ payment' = [payment EXCEPT ![a] = payment'[a]]
      /\ payment[a] \in LiveStates
      /\ payment'[a] \in LiveStates
  BY DEF BeginRound, IInv, TypeOK, AttemptsBound, provider, WORTH_ASKING, LiveStates
<1>2. version' = [version EXCEPT ![bound[a]] = version'[bound[a]]]
  BY <1>1, SameRows
<1> QED BY <1>1, <1>2, PurchaseOfOne DEF LiveStates

LEMMA WebhookPurchase ==
    ASSUME IInv, IInv', MoneyInv, MoneyInv', PurchaseInv, NEW a \in Attempts,
           NEW f \in Facts, ApplyWebhook(a, f)
    PROVE  PurchaseInv' /\ PurchaseStep
<1>1. /\ orderId[a] /\ f \in Emitted(a) /\ EvidenceApplied(a, f)
      /\ payment' = [payment EXCEPT ![a] = AfterEvidence(a, f)]
      /\ UNCHANGED <<approval, bound, tries>>
  BY DEF ApplyWebhook, provider
<1>2. f.status = "captured" => tries[a][f.try] = "captured"
  BY <1>1 DEF Emitted
<1>3. payment[a] \in (LiveStates \ {"CREATED"}) \cup Settled /\ bound[a] # 0
  BY <1>1 DEF IInv, AttemptsBound
<1>4. /\ payment'[a] = AfterEvidence(a, f)
      /\ payment' = [payment EXCEPT ![a] = payment'[a]]
  BY <1>1 DEF IInv, TypeOK
<1>5. version' = [version EXCEPT ![bound[a]] = version'[bound[a]]]
  BY <1>1, <1>3, EvidenceStep DEF IInv, LiveStates, Settled
<1> QED BY <1>1, <1>2, <1>3, <1>4, <1>5, EvidencePurchase, PurchaseOfOne

LEMMA ConcludePurchase ==
    ASSUME IInv, IInv', MoneyInv, MoneyInv', PurchaseInv, NEW a \in Attempts,
           NEW w \in Workers, Conclude(a, w)
    PROVE  PurchaseInv' /\ PurchaseStep
<1> DEFINE q == asking[a][w]
           learned == q.fact # NoFact
           after == IF learned THEN AfterEvidence(a, q.fact) ELSE payment[a]
<1>1. /\ UNCHANGED <<approval, bound, tries>>
      /\ \/ payment' = [payment EXCEPT ![a] = EscalatedFrom(after)]
         \/ payment' = [payment EXCEPT ![a] = after]
      /\ q.step = "answered"
      /\ learned => EvidenceApplied(a, q.fact)
      /\ ~learned => UNCHANGED version
      /\ q.recovered => payment[a] = "RECONCILING"
  BY DEF Conclude, provider
<1>2. /\ payment[a] \in (LiveStates \ {"CREATED"}) \cup Settled /\ bound[a] # 0
      /\ q.fact.status = "captured" => tries[a][q.fact.try] = "captured"
      /\ learned => q.fact \in Facts
      /\ learned => orderId[a] \/ Live(a)
  BY <1>1 DEF MoneyInv, RoundsAreSound, IInv, AttemptsBound, TypeOK, Asking,
              AnswerHasOrder, Live, LiveStates
<1>3. version' = [version EXCEPT ![bound[a]] = version'[bound[a]]]
  <2>1. CASE learned
    BY <1>1, <1>2, <2>1, EvidenceStep DEF IInv, LiveStates, Settled
  <2>2. CASE ~learned
    BY <1>1, <2>2, SameRows
  <2> QED BY <2>1, <2>2
<1>4. /\ \/ payment[a] \in LiveStates
         \/ after = payment[a]
         \/ payment[a] = "STALE_CAPTURE" /\ after = "REFUND_PENDING"
      /\ after \in {"STALE_CAPTURE", "REFUND_PENDING"} => a \in Charged
  <2>1. CASE learned
    BY <1>2, <2>1, EvidencePurchase
  <2>2. CASE ~learned
    BY <2>2 DEF PurchaseInv, ReturnsWhatWasTaken
  <2> QED BY <2>1, <2>2
<1> HIDE DEF after
<1>5. /\ payment' = [payment EXCEPT ![a] = payment'[a]]
      /\ payment'[a] \in {after, EscalatedFrom(after)}
  BY <1>1 DEF IInv, TypeOK
<1>6. payment'[a] = after \/ (payment'[a] = "ESCALATED" /\ payment[a] \in LiveStates)
  <2>1. payment[a] \notin LiveStates => EscalatedFrom(after) = after
    BY <1>2, <1>4 DEF EscalatedFrom, LiveStates, Settled
  <2> QED BY <1>5, <2>1, EscalationResult
<1> QED BY <1>1, <1>2, <1>3, <1>4, <1>5, <1>6, PurchaseOfOne

(* A step that creates, retires or invalidates versions and gives attempts *)
(* up, some or none.                                                       *)
LEMMA PurchaseAbandoned ==
    ASSUME IInv, IInv', MoneyInv, MoneyInv', PurchaseInv, UNCHANGED tries,
           \A v \in Versions :
              /\ Exists(v) => Exists(v)'
              /\ approval'[v] = "RECORDED" =>
                    /\ approval[v] = "RECORDED"
                    /\ version'[v] \in {version[v]} \cup Retire,
           \A a \in Attempts :
              \/ payment'[a] = payment[a]
              \/ /\ payment[a] \in LiveStates
                 /\ payment'[a] \in LiveStates \cup {"EXPIRED"}
    PROVE  PurchaseInv' /\ PurchaseStep
<1> DEFINE S == {a \in Attempts : payment[a] \in LiveStates
                                  /\ payment'[a] = "EXPIRED"}
<1>1. Charged' = Charged
  BY DEF Charged
<1>2. Agreed' => Agreed
  BY AgreedLapses DEF Retire
<1>3. ApprovalIsCurrent'
  BY DEF PurchaseInv, ApprovalIsCurrent
<1>4. ReturnsWhatWasTaken'
  BY <1>1 DEF PurchaseInv, ReturnsWhatWasTaken, LiveStates
<1>5. \A a \in Attempts :
        Outcome(a) = View(payment[a]) /\ Outcome(a)' = View(payment'[a])
  BY OutcomesAreViews
<1>6. /\ \A a \in S : Outcome(a) = "open"
      /\ \A a \in Attempts :
            Outcome(a)' = IF a \in S THEN "unsold" ELSE Outcome(a)
  BY <1>5 DEF View, LiveStates
<1>7. Agreed' \in {Agreed, FALSE}
  BY <1>2 DEF Agreed
<1> HIDE DEF S
<1>8. S \in SUBSET Attempts
  BY DEF S
<1>9. ThePurchase!Abandon(S)
  BY <1>1, <1>6, <1>7, <1>8 DEF ThePurchase!Abandon, ThePurchase!Open
<1> QED
  BY <1>3, <1>4, <1>8, <1>9 DEF ThePurchase!Next, PurchaseInv, PurchaseStep

LEMMA ShopPurchase ==
    ASSUME IInv, IInv', MoneyInv, MoneyInv', PurchaseInv, NEW v \in Versions,
           \/ CreateCheckout
           \/ SupersedeCheckout(v) \/ RejectApproval(v)
           \/ AdmitFindsChange(v) \/ AdmitFindsNothing(v) \/ InvalidateOpen(v)
    PROVE  PurchaseInv' /\ PurchaseStep
<1>1. /\ 1 \in Versions /\ version \in [Versions -> VersionStatus]
      /\ approval \in [Versions -> ApprovalStatus]
      /\ \A w \in Versions : approval[w] = "RECORDED" =>
            version[w] \in {"APPROVED"} \cup Retire
  BY BoundsAssumption DEF IInv, TypeOK, Versions, PurchaseInv, ApprovalIsCurrent
<1>2. /\ UNCHANGED <<payment, tries>>
      /\ \A w \in Versions :
            /\ Exists(w) => Exists(w)'
            /\ approval'[w] = "RECORDED" =>
                  /\ approval[w] = "RECORDED"
                  /\ version'[w] \in {version[w]} \cup Retire
  <2>1. CASE CreateCheckout
    BY <1>1, <2>1 DEF CreateCheckout, Exists, Retire, provider
  <2>2. CASE SupersedeCheckout(v)
    <3>1. v + 1 \in Versions /\ version[v + 1] = "NONE"
      BY <2>2, BoundsAssumption DEF SupersedeCheckout, Head, Exists, Versions
    <3> QED BY <1>1, <2>2, <3>1 DEF SupersedeCheckout, Exists, Retire, provider
  <2>3. CASE RejectApproval(v)
    BY <1>1, <2>3 DEF RejectApproval, Exists, Retire, provider
  <2>4. CASE AdmitFindsChange(v)
    <3>1. v + 1 \in Versions /\ version[v + 1] = "NONE"
      BY <2>4, BoundsAssumption
         DEF AdmitFindsChange, Payable, Head, Exists, Versions
    <3> QED BY <1>1, <2>4, <3>1 DEF AdmitFindsChange, Exists, Retire, provider
  <2>5. CASE AdmitFindsNothing(v)
    BY <1>1, <2>5 DEF AdmitFindsNothing, Exists, Retire, provider
  <2>6. CASE InvalidateOpen(v)
    BY <1>1, <2>6 DEF InvalidateOpen, Exists, Retire, provider
  <2> QED BY <2>1, <2>2, <2>3, <2>4, <2>5, <2>6
<1> QED BY <1>2, PurchaseAbandoned

(* The buyer decides on the latest version, which nobody has bought.       *)
LEMMA AgreePurchase ==
    ASSUME IInv, IInv', MoneyInv, MoneyInv', PurchaseInv, NEW v \in Versions,
           RecordApproval(v)
    PROVE  PurchaseInv' /\ PurchaseStep
<1>1. /\ version[v] = "APPROVAL_REQUIRED" /\ approval[v] # "RECORDED"
      /\ version'[v] = "APPROVED" /\ approval'[v] = "RECORDED"
      /\ \A w \in Versions \ {v} :
            version'[w] = version[w] /\ approval'[w] = approval[w]
      /\ UNCHANGED <<payment, orders, cases, refund, tries>>
  BY DEF RecordApproval, IInv, TypeOK, provider
<1>2. \A w \in Versions : Exists(w)' <=> Exists(w)
  BY <1>1 DEF Exists
<1>3. Head(v) /\ Head(v)'
  <2>1. \A w \in Versions : w > v => ~Exists(w)
    BY <1>1 DEF IInv, PredecessorRetired, Retire, Versions
  <2> QED BY <1>1, <1>2, <2>1 DEF Head, Exists
<1>4. ~Agreed /\ Agreed'
  <2>1. \A w \in Versions : Head(w) => w = v
    BY <1>3 DEF Head, Versions
  <2> QED BY <1>1, <1>3, <2>1 DEF Agreed
<1>5. /\ \A a \in Attempts : Outcome(a)' = Outcome(a)
      /\ Charged' = Charged
  BY <1>1 DEF Outcome, Live, Charged
<1>6. \A a \in Attempts : Outcome(a) # "sold"
  <2>1. \A a \in Attempts : payment[a] # "CAPTURED"
    BY <1>1, <1>3, SoldIsLatest
  <2>2. \A a \in Attempts : Outcome(a) = View(payment[a])
    BY OutcomesAreViews
  <2> QED BY <2>1, <2>2 DEF View
<1>7. ThePurchase!Agree
  BY <1>4, <1>5, <1>6 DEF ThePurchase!Agree, ThePurchase!Sold
<1>8. ApprovalIsCurrent'
  BY <1>1 DEF PurchaseInv, ApprovalIsCurrent
<1>9. ReturnsWhatWasTaken'
  BY <1>1, <1>5 DEF PurchaseInv, ReturnsWhatWasTaken
<1> QED BY <1>7, <1>8, <1>9 DEF ThePurchase!Next, PurchaseInv, PurchaseStep

(* Admission spends the decision.                                          *)
LEMMA AdmitPurchase ==
    ASSUME IInv, IInv', MoneyInv, MoneyInv', PurchaseInv, NEW v \in Versions,
           NEW a \in Attempts, Admit(v, a)
    PROVE  PurchaseInv' /\ PurchaseStep
<1>1. /\ payment' = [payment EXCEPT ![a] = "CREATED"]
      /\ version' = [version EXCEPT ![v] = "EXECUTION_PENDING"]
      /\ approval' = [approval EXCEPT ![v] = "CONSUMED"]
      /\ CheckoutEdge(version[v], "EXECUTION_PENDING")
      /\ Head(v) /\ approval[v] = "RECORDED"
      /\ \A b \in Attempts : ~Live(b)
      /\ bound[a] = 0
      /\ UNCHANGED tries
  BY DEF Admit, SpendApprovalAndEnqueue, Payable, NextAttempt, provider
<1>2. /\ payment[a] = "NONE" /\ payment'[a] = "CREATED"
      /\ \A b \in Attempts \ {a} : payment'[b] = payment[b]
      /\ version'[v] = "EXECUTION_PENDING" /\ approval'[v] = "CONSUMED"
      /\ \A w \in Versions \ {v} :
            version'[w] = version[w] /\ approval'[w] = approval[w]
  BY <1>1 DEF IInv, TypeOK, AttemptsBound
<1>3. version[v] = "APPROVED"
  <2>1. version[v] \in {"APPROVED", "PAYMENT_FAILED"}
    BY <1>1, PayableEdge DEF CheckoutEdge
  <2> QED BY <1>1, <2>1 DEF PurchaseInv, ApprovalIsCurrent, Retire
<1>4. \A w \in Versions : Head(w) => w = v
  BY <1>1 DEF Head, Versions
<1>5. \A w \in Versions : Head(w)' <=> Head(w)
  <2>1. \A w \in Versions : Exists(w)' <=> Exists(w)
    BY <1>2, <1>3 DEF Exists
  <2> QED BY <2>1 DEF Head
<1>6. Agreed /\ Agreed' = FALSE
  BY <1>1, <1>2, <1>3, <1>4, <1>5 DEF Agreed
<1>7. Charged' = Charged
  BY <1>1 DEF Charged
<1>8. \A b \in Attempts :
        Outcome(b) = View(payment[b]) /\ Outcome(b)' = View(payment'[b])
  BY OutcomesAreViews
<1>9. /\ Outcome(a) = "absent" /\ Outcome(a)' = "open"
      /\ \A b \in Attempts \ {a} : Outcome(b)' = Outcome(b)
  BY <1>2, <1>8 DEF View, LiveStates
<1>10. \A b \in Attempts : Outcome(b) # "open" /\ Outcome(b) # "sold"
  <2>1. \A b \in Attempts : payment[b] # "CAPTURED"
    BY <1>1, <1>3, SoldIsLatest
  <2> QED BY <1>1, <1>8, <2>1 DEF View, Live
<1>11. ThePurchase!Begin(a)
  BY <1>6, <1>7, <1>9, <1>10
     DEF ThePurchase!Begin, ThePurchase!Open, ThePurchase!Sold
<1>12. ApprovalIsCurrent'
  BY <1>2 DEF PurchaseInv, ApprovalIsCurrent
<1>13. ReturnsWhatWasTaken'
  BY <1>2, <1>7 DEF PurchaseInv, ReturnsWhatWasTaken
<1> QED BY <1>11, <1>12, <1>13 DEF ThePurchase!Next, PurchaseInv, PurchaseStep

(* The sweep gives up attempts that were never sent, and decisions whose   *)
(* clock has run out.                                                      *)
LEMMA HousekeepingPurchase ==
    ASSUME IInv, IInv', MoneyInv, MoneyInv', PurchaseInv,
           NEW stale \in SUBSET Versions, Housekeeping(stale)
    PROVE  PurchaseInv' /\ PurchaseStep
<1>1. /\ UNCHANGED tries
      /\ \A v \in Versions : approval'[v] = "RECORDED" => approval[v] = "RECORDED"
  BY DEF Housekeeping, provider
<1>2. \A a \in Attempts :
        \/ payment'[a] = payment[a]
        \/ payment[a] \in LiveStates /\ payment'[a] \in LiveStates \cup {"EXPIRED"}
  BY SweepMoves DEF LiveStates
<1>3. \A v \in Versions : Exists(v) => Exists(v)'
  BY SweepMoves DEF Exists
<1>4. \A v \in Versions : approval[v] = "RECORDED" =>
        version'[v] \in {version[v]} \cup Retire
  <2> SUFFICES ASSUME NEW v \in Versions, approval[v] = "RECORDED"
               PROVE  version'[v] \in {version[v]} \cup Retire
    OBVIOUS
  <2>1. ~\E a \in Attempts : bound[a] = v /\ Closing(a) # "nothing"
    BY SweepMoves DEF IInv, ApprovalUnspent
  <2> QED BY <2>1, SweepMoves DEF Retire
<1> QED BY <1>1, <1>2, <1>3, <1>4, PurchaseAbandoned

LEMMA CancelPurchase ==
    ASSUME IInv, IInv', MoneyInv, MoneyInv', PurchaseInv, CancelCommits
    PROVE  PurchaseInv' /\ PurchaseStep
<1> DEFINE v == cancelling.version
           a == cancelling.attempt
<1>1. /\ a # 0 => payment[a] = "CREATED"
      /\ payment' = [b \in Attempts |-> IF b = a THEN "EXPIRED" ELSE payment[b]]
      /\ version' = [version EXCEPT ![v] = "CANCELLED"]
      /\ UNCHANGED <<approval, tries>>
  BY DEF CancelCommits, provider
<1>2. 0 \notin Attempts
  BY BoundsAssumption DEF Attempts
<1>3. \A b \in Attempts :
        \/ payment'[b] = payment[b]
        \/ payment[b] = "CREATED" /\ payment'[b] = "EXPIRED"
  BY <1>1, <1>2
<1>4. \A w \in Versions : version'[w] = version[w] \/ version'[w] = "CANCELLED"
  BY <1>1 DEF IInv, TypeOK
<1> HIDE DEF v, a
<1> QED BY <1>1, <1>3, <1>4, PurchaseAbandoned DEF Exists, Retire, LiveStates

(* The buyer pays.                                                         *)
LEMMA PaysPurchase ==
    ASSUME IInv, IInv', MoneyInv, MoneyInv', PurchaseInv, NEW a \in Attempts,
           NEW t \in Tries, NEW result \in TryStatus, BuyerPays(a, t, result)
    PROVE  PurchaseInv' /\ PurchaseStep
<1>1. /\ orderId[a] /\ tries[a][t] # "captured"
      /\ tries' = [tries EXCEPT ![a] = [tries[a] EXCEPT ![t] = result]]
      /\ UNCHANGED <<version, approval, payment, orders, cases, refund>>
  BY DEF BuyerPays, kernel
<1>2. /\ tries'[a] = [tries[a] EXCEPT ![t] = result]
      /\ tries[a] \in [Tries -> TryStatus]
      /\ \A b \in Attempts \ {a} : tries'[b] = tries[b]
  BY <1>1 DEF IInv, TypeOK
<1>3. \A u \in Tries : tries'[a][u] = IF u = t THEN result ELSE tries[a][u]
  BY <1>2
<1>4. Charged' = IF result = "captured" THEN Charged \cup {a} ELSE Charged
  <2>1. \A b \in Attempts \ {a} : b \in Charged' <=> b \in Charged
    BY <1>2 DEF Charged
  <2>2. a \in Charged' <=> result = "captured" \/ a \in Charged
    BY <1>1, <1>3 DEF Charged
  <2>3. Charged \subseteq Attempts /\ Charged' \subseteq Attempts
    BY DEF Charged
  <2> QED BY <2>1, <2>2, <2>3
<1>5. Agreed' = Agreed /\ \A b \in Attempts : Outcome(b)' = Outcome(b)
  BY <1>1 DEF Agreed, Head, Exists, Outcome, Live
<1>6. PurchaseInv'
  BY <1>1, <1>4 DEF PurchaseInv, ApprovalIsCurrent, ReturnsWhatWasTaken
<1>7. CASE result = "captured"
  <2>1. Outcome(a) # "absent"
    <3>1. payment[a] \notin {"NONE", "CREATED"}
      BY <1>1 DEF IInv, AttemptsBound
    <3> QED BY <3>1, OutcomesAreViews DEF View
  <2>2. ThePurchase!Charge(a)
    BY <1>4, <1>5, <1>7, <2>1 DEF ThePurchase!Charge
  <2> QED BY <1>6, <2>2 DEF ThePurchase!Next, PurchaseStep
<1>8. CASE result # "captured"
  <2>1. UNCHANGED ThePurchase!vars
    BY <1>4, <1>5, <1>8 DEF ThePurchase!vars
  <2> QED BY <1>6, <2>1 DEF PurchaseStep
<1> QED BY <1>7, <1>8

LEMMA PurchaseSteps ==
    ASSUME IInv, IInv', MoneyInv, MoneyInv', PurchaseInv, [Next]_vars
    PROVE  PurchaseInv' /\ PurchaseStep
<1>1. ASSUME Buyer PROVE PurchaseInv' /\ PurchaseStep
  <2>1. CASE \E v \in Versions :
               \/ SupersedeCheckout(v) \/ RejectApproval(v)
               \/ AdmitFindsChange(v) \/ AdmitFindsNothing(v) \/ InvalidateOpen(v)
    BY <2>1, ShopPurchase
  <2>2. CASE CreateCheckout
    <3>1. 1 \in Versions
      BY BoundsAssumption DEF Versions
    <3> QED BY <2>2, <3>1, ShopPurchase
  <2>3. CASE CancelDenied \/ \E v \in Versions : CancelReads(v)
    BY <2>3, PurchaseElsewhere DEF CancelDenied, CancelReads, kernel, provider
  <2>4. CASE CancelCommits
    BY <2>4, CancelPurchase
  <2>5. CASE \E v \in Versions : RecordApproval(v)
    BY <2>5, AgreePurchase
  <2>6. CASE \E v \in Versions, a \in Attempts : Admit(v, a)
    BY <2>6, AdmitPurchase
  <2>7. CASE \E a \in Attempts :
               AskStatus(a) \/ \E t \in Tries : BrowserCallback(a, t)
    BY <2>7, PurchaseElsewhere DEF AskStatus, BrowserCallback, kernel, provider
  <2> QED BY <1>1, <2>1, <2>2, <2>3, <2>4, <2>5, <2>6, <2>7 DEF Buyer
<1>2. ASSUME NEW a \in Attempts, CreateOrderWorker(a)
      PROVE  PurchaseInv' /\ PurchaseStep
  <2>1. CASE \/ ConsumeGrant(a) \/ RefuseCommand(a) \/ RecordConflict(a)
             \/ CrashInCall(a) \/ \E answer \in Answers : ProviderAnswers(a, answer)
    BY <2>1, PurchaseElsewhere
       DEF ConsumeGrant, RefuseCommand, RecordConflict, CrashInCall,
           ProviderAnswers, kernel, provider
  <2> QED BY <1>2, <2>1, RecordPurchase, ResumePurchase DEF CreateOrderWorker
<1>3. ASSUME NEW a \in Attempts, ReconcileWorker(a)
      PROVE  PurchaseInv' /\ PurchaseStep
  <2>1. CASE \/ \E r \in Rounds : DropRound(a, r)
             \/ \E w \in Workers : \/ Look(a, w) \/ ConcludeConflict(a, w)
                                   \/ CrashInReconcile(a, w)
    BY <2>1, PurchaseElsewhere
       DEF DropRound, Look, ConcludeConflict, CrashInReconcile, kernel, provider
  <2> QED BY <1>3, <2>1, BeginPurchase, ConcludePurchase DEF ReconcileWorker
<1>4. ASSUME NEW a \in Attempts, Provider(a)
      PROVE  PurchaseInv' /\ PurchaseStep
  <2>1. CASE MerchantRefunds(a)
    BY <2>1, PurchaseElsewhere DEF MerchantRefunds, kernel
  <2> QED BY <1>4, <2>1, PaysPurchase, WebhookPurchase DEF Provider
<1>5. ASSUME NEW a \in Attempts, TimePasses(a)
      PROVE  PurchaseInv' /\ PurchaseStep
  BY <1>5, PurchaseElsewhere DEF TimePasses, kernel, provider
<1>6. ASSUME NEW stale \in SUBSET Versions, Housekeeping(stale)
      PROVE  PurchaseInv' /\ PurchaseStep
  BY <1>6, HousekeepingPurchase
<1>7. ASSUME UNCHANGED vars PROVE PurchaseInv' /\ PurchaseStep
  BY <1>7, PurchaseElsewhere DEF vars, kernel, provider
<1> QED BY <1>1, <1>2, <1>3, <1>4, <1>5, <1>6, <1>7 DEF Next

LEMMA PurchaseInit == Init => PurchaseInv /\ ThePurchase!Init
<1> SUFFICES ASSUME Init PROVE PurchaseInv /\ ThePurchase!Init
  OBVIOUS
<1>1. PurchaseInv /\ ~Agreed /\ Charged = {}
  BY DEF Init, PurchaseInv, ApprovalIsCurrent, ReturnsWhatWasTaken, Agreed, Charged
<1>2. \A a \in Attempts : Outcome(a) = "absent"
  BY DEF Init, Outcome, Live, LiveStates
<1> QED BY <1>1, <1>2 DEF ThePurchase!Init, Agreed

(* Whatever workers, webhooks, sweeps and crashes do, a checkout is one    *)
(* purchase: every attempt spends a decision of the buyer, one is open at  *)
(* a time, at most one is sold and nothing is agreed to or begun after it, *)
(* and what is sold or sent back is money the provider took.               *)
THEOREM ImplementsPurchase == Spec => PurchaseSpec
<1>1. IInv /\ IInv' /\ MoneyInv /\ MoneyInv' /\ PurchaseInv /\ [Next]_vars =>
        PurchaseInv' /\ [ThePurchase!Next]_(ThePurchase!vars)
  BY PurchaseSteps DEF PurchaseStep
<1> QED
  BY <1>1, PurchaseInit, Invariance, MoneyInvariance, PTL
     DEF Spec, PurchaseSpec, ThePurchase!Spec
=============================================================================
