----------------------- MODULE PaymentLifecycleProofs -----------------------
(***************************************************************************)
(* Proofs about PaymentLifecycle for every number of versions, attempts,   *)
(* payments and rounds.                                                    *)
(***************************************************************************)
EXTENDS PaymentLifecycle, TLAPS

-----------------------------------------------------------------------------
(* The inductive invariant.                                                *)

Settled == {"CAPTURED", "STALE_CAPTURE", "REFUND_PENDING", "FAILED",
            "EXPIRED", "ESCALATED"}

(* An attempt exists with its version, in a state this module reaches.     *)
AttemptsBound ==
    \A a \in Attempts :
        /\ bound[a] = 0 <=> payment[a] = "NONE"
        /\ payment[a] \in {"NONE"} \cup LiveStates \cup Settled
        /\ orderId[a] => payment[a] \notin {"NONE", "CREATED"}

(* A version has one attempt, admitted from its one approval.              *)
ApprovalUnspent ==
    \A a \in Attempts : bound[a] # 0 =>
        /\ approval[bound[a]] # "RECORDED"
        /\ version[bound[a]] \notin {"NONE", "APPROVAL_REQUIRED", "APPROVED"}

OneAttemptPerVersion ==
    \A a, b \in Attempts : bound[a] # 0 /\ bound[a] = bound[b] => a = b

(* Where the version of an attempt may be while the attempt is in a state. *)
VersionFollows ==
    \A a \in Attempts : bound[a] # 0 =>
        LET s == version[bound[a]]
        IN  /\ payment[a] = "CREATED" => s \in {"EXECUTION_PENDING", "CANCELLED"}
            /\ payment[a] \in LiveStates \ {"CREATED"} =>
                 s \in {"AWAITING_PAYMENT", "PAYMENT_UNKNOWN",
                        "INVALIDATED_AWAITING_PAYMENT_RESULT", "CANCELLED"}
            /\ payment[a] = "CAPTURED" => s = "PAID"

(* An older version has been retired for good.                             *)
PredecessorRetired ==
    \A v, w \in Versions : v < w /\ Exists(w) => version[v] \in Retire

MoneyAnswered ==
    \A a \in Attempts :
        /\ orders[a] => payment[a] = "CAPTURED"
        /\ refund[a] => payment[a] = "REFUND_PENDING"

(* A reconciliation reports on an order the attempt has or will be given.  *)
AnswerHasOrder ==
    \A a \in Attempts, w \in Workers :
        /\ asking[a][w].knewOrder => orderId[a]
        /\ asking[a][w].fact # NoFact => orderId[a] \/ asking[a][w].recovered

IInv ==
    /\ TypeOK /\ AttemptsBound /\ OneLiveAttempt /\ ApprovalUnspent
    /\ OneAttemptPerVersion /\ VersionFollows /\ PredecessorRetired
    /\ MoneyAnswered /\ AnswerHasOrder

-----------------------------------------------------------------------------
(* Lemmas about the operators.                                             *)

(* The join returns the state held, the state reported, or RECONCILING.    *)
LEMMA JoinResult ==
    ASSUME NEW s, NEW t
    PROVE  MonotonicApply(s, t) \in {s, t, "RECONCILING"}
  BY DEF MonotonicApply

(* A guarded checkout move ends where it started or where it was sent.     *)
LEMMA MoveResult ==
    ASSUME NEW s, NEW t
    PROVE  MovedIfLegal(s, t) \in {s, t}
  BY DEF MovedIfLegal

LEMMA MoveType ==
    ASSUME NEW s \in VersionStatus, NEW t \in VersionStatus
    PROVE  MovedIfLegal(s, t) \in VersionStatus
  BY DEF MovedIfLegal

LEMMA ReleaseType ==
    ASSUME NEW h \in HoldStatus
    PROVE  Released(h) \in HoldStatus
  BY DEF Released, HoldStatus

LEMMA EscalationResult ==
    ASSUME NEW s
    PROVE  EscalatedFrom(s) \in {s, "ESCALATED"}
  BY DEF EscalatedFrom

(* What evidence makes of an attempt, in terms of what it reports.         *)
LEMMA EvidenceResult ==
    ASSUME NEW a \in Attempts, NEW f \in Facts
    PROVE  /\ Joined(a, f) \in {payment[a], Incoming(a, f), "RECONCILING",
                                "ESCALATED"}
           /\ Incoming(a, f) \in {"FAILED", "AUTHORIZED", "STALE_CAPTURE",
                                  "CAPTURED"}
           /\ AfterEvidence(a, f) \in {Joined(a, f), "REFUND_PENDING"}
<1>1. Joined(a, f) \in {payment[a], Incoming(a, f), "RECONCILING", "ESCALATED"}
  BY JoinResult, EscalationResult DEF Joined
<1>2. Incoming(a, f) \in {"FAILED", "AUTHORIZED", "STALE_CAPTURE", "CAPTURED"}
  BY DEF Incoming
<1>3. AfterEvidence(a, f) \in {Joined(a, f), "REFUND_PENDING"}
  BY DEF AfterEvidence
<1> QED BY <1>1, <1>2, <1>3

StatusType == PaymentState \cup {"NONE"}

LEMMA EvidenceStatusType ==
    ASSUME TypeOK, NEW a \in Attempts, NEW f \in Facts
    PROVE  AfterEvidence(a, f) \in StatusType
<1>1. payment[a] \in StatusType
  BY DEF TypeOK, StatusType
<1>2. {"FAILED", "AUTHORIZED", "STALE_CAPTURE", "CAPTURED", "RECONCILING",
       "ESCALATED", "REFUND_PENDING"} \subseteq StatusType
  BY DEF StatusType, PaymentState
<1>3. Joined(a, f) \in StatusType
  BY <1>1, <1>2, EvidenceResult
<1> QED BY <1>2, <1>3, EvidenceResult

LEMMA EvidenceType ==
    ASSUME TypeOK, NEW a \in Attempts, NEW f \in Facts, EvidenceApplied(a, f)
    PROVE  /\ version' \in [Versions -> VersionStatus]
           /\ hold' \in [Versions -> HoldStatus]
           /\ closed' \in [Attempts -> BOOLEAN]
           /\ paymentId' \in [Attempts -> 0 .. MaxTry]
           /\ orders' \in [Attempts -> BOOLEAN]
           /\ refund' \in [Attempts -> BOOLEAN]
<1> DEFINE v == bound[a]
           after == Joined(a, f)
           moved == CASE after = "CAPTURED" /\ ~Mismatch(a, f) -> "PAID"
                      [] NewlyFails(a, f) ->
                           IF Judged(a) = "INVALIDATED_AWAITING_PAYMENT_RESULT"
                           THEN "INVALIDATED" ELSE "PAYMENT_FAILED"
                      [] OTHER -> Judged(a)
<1>1. version' = [version EXCEPT ![v] = MovedIfLegal(Judged(a), moved)]
  BY DEF EvidenceApplied
<1>2. v \in Versions => Judged(a) \in VersionStatus
  BY DEF TypeOK, Judged, VersionStatus, CheckoutState
<1>3. moved \in {"PAID", "INVALIDATED", "PAYMENT_FAILED", Judged(a)}
  OBVIOUS
<1>4. v \in Versions => MovedIfLegal(Judged(a), moved) \in VersionStatus
  <2> HIDE DEF moved
  <2> QED BY <1>2, <1>3, MoveResult DEF VersionStatus, CheckoutState
<1>5. version' \in [Versions -> VersionStatus]
  <2> HIDE DEF moved, v
  <2> QED BY <1>1, <1>4 DEF TypeOK
<1>6. hold' \in [Versions -> HoldStatus]
  BY ReleaseType DEF EvidenceApplied, TypeOK
<1>7. closed' \in [Attempts -> BOOLEAN]
  BY DEF EvidenceApplied, TypeOK
<1>8. f.try \in 0 .. MaxTry
  BY DEF Facts, Tries
<1>9. paymentId' \in [Attempts -> 0 .. MaxTry]
  BY <1>8 DEF EvidenceApplied, TypeOK
<1>10. orders' \in [Attempts -> BOOLEAN] /\ refund' \in [Attempts -> BOOLEAN]
  BY DEF EvidenceApplied, TypeOK
<1> QED BY <1>5, <1>6, <1>7, <1>9, <1>10

-----------------------------------------------------------------------------
(* Type correctness.                                                       *)

LEMMA FetchType ==
    ASSUME TypeOK, NEW a \in Attempts, NEW known \in 0 .. MaxTry,
           NEW f \in Fetched(a, known)
    PROVE  f \in Facts \cup {NoFact}
<1> DEFINE now(t) == [status |-> tries[a][t], try |-> t,
                      refunded |-> tries[a][t] = "captured" /\ dashboard[a]]
<1>1. ASSUME NEW t \in Tries, tries[a][t] # "none"
      PROVE  now(t) \in Facts
  BY <1>1 DEF TypeOK, Facts, TryStatus
<1>2. ASSUME NEW t \in Tries
      PROVE  [status |-> "pending", try |-> t, refunded |-> FALSE] \in Facts
  BY DEF Facts
<1> QED
  BY <1>1, <1>2 DEF Fetched

LEMMA RoundType == 1 \in Rounds /\ Probe \in Rounds
  BY BoundsAssumption DEF Rounds, Probe

LEMMA IdleType == NotAsking \in Asking
  BY RoundType, BoundsAssumption DEF NotAsking, Asking

(* Every step keeps every variable in its type.                            *)
LEMMA TypingStep == TypeOK /\ [Next]_vars => TypeOK'
<1> SUFFICES ASSUME TypeOK, [Next]_vars
             PROVE  TypeOK'
  OBVIOUS
<1> USE DEF kernel, work, provider
<1>1. CASE CreateCheckout
  BY <1>1, BoundsAssumption DEF CreateCheckout, TypeOK, Versions, VersionStatus,
                                CheckoutState
<1>2. ASSUME NEW v \in Versions,
             \/ SupersedeCheckout(v) \/ RecordApproval(v) \/ RejectApproval(v)
             \/ AdmitFindsChange(v) \/ AdmitFindsNothing(v) \/ InvalidateOpen(v)
      PROVE  TypeOK'
  <2> USE DEF TypeOK, VersionStatus, CheckoutState, ApprovalStatus
  <2>1. CASE SupersedeCheckout(v)
    BY <2>1 DEF SupersedeCheckout
  <2>2. CASE RecordApproval(v)
    BY <2>2 DEF RecordApproval
  <2>3. CASE RejectApproval(v)
    BY <2>3, ReleaseType DEF RejectApproval
  <2>4. CASE AdmitFindsChange(v)
    <3>1. hold' = [hold EXCEPT ![v] = Released(hold[v])]
      BY <2>4 DEF AdmitFindsChange
    <3>2. hold' \in [Versions -> HoldStatus]
      BY <3>1, ReleaseType
    <3> QED BY <2>4, <3>2 DEF AdmitFindsChange
  <2>5. CASE AdmitFindsNothing(v)
    BY <2>5, ReleaseType DEF AdmitFindsNothing
  <2>6. CASE InvalidateOpen(v)
    BY <2>6 DEF InvalidateOpen
  <2> QED BY <1>2, <2>1, <2>2, <2>3, <2>4, <2>5, <2>6
<1>3. ASSUME NEW v \in Versions, NEW a \in Attempts, Admit(v, a)
      PROVE  TypeOK'
  BY <1>3 DEF Admit, SpendApprovalAndEnqueue, TypeOK, VersionStatus,
              CheckoutState, ApprovalStatus, HoldStatus, GrantStatus, PaymentState
<1>4. ASSUME NEW v \in Versions, CancelReads(v)
      PROVE  TypeOK'
  BY <1>4 DEF CancelReads, TypeOK
<1>5. CASE CancelCommits
  BY <1>5, ReleaseType DEF CancelCommits, TypeOK, VersionStatus, CheckoutState,
                           GrantStatus, PaymentState
<1>6. CASE CancelDenied
  BY <1>6 DEF CancelDenied, TypeOK
<1>7. ASSUME NEW a \in Attempts,
             \/ AskStatus(a)
             \/ \E t \in Tries : BrowserCallback(a, t)
      PROVE  TypeOK'
  <2>1. CASE AskStatus(a)
    BY <2>1, RoundType DEF AskStatus, TypeOK
  <2>2. ASSUME NEW t \in Tries, BrowserCallback(a, t)
        PROVE  TypeOK'
    BY <2>2, RoundType DEF BrowserCallback, TypeOK, Tries
  <2> QED BY <1>7, <2>1, <2>2
<1>8. ASSUME NEW a \in Attempts, CreateOrderWorker(a)
      PROVE  TypeOK'
  <2>1. CASE ConsumeGrant(a) \/ RefuseCommand(a) \/ RecordConflict(a)
    BY <2>1 DEF ConsumeGrant, RefuseCommand, RecordConflict, TypeOK, GrantStatus
  <2>2. CASE Resume(a)
    <3>1. version' \in [Versions -> VersionStatus]
      <4>1. "PAYMENT_UNKNOWN" \in VersionStatus
        BY DEF VersionStatus, CheckoutState
      <4> QED BY <2>2, <4>1, MoveType DEF Resume, TypeOK
    <3>2. payment' \in [Attempts -> PaymentState \cup {"NONE"}]
      BY <2>2 DEF Resume, TypeOK, PaymentState
    <3> QED BY <2>2, <3>1, <3>2, RoundType DEF Resume, TypeOK
  <2>3. CASE CrashInCall(a)
    BY <2>3 DEF CrashInCall, TypeOK
  <2>4. ASSUME NEW answer \in Answers, ProviderAnswers(a, answer)
        PROVE  TypeOK'
    BY <2>4 DEF ProviderAnswers, TypeOK, Answers
  <2>5. CASE RecordCreateOrderResult(a)
    <3>1. version' \in [Versions -> VersionStatus]
      <4>1. {"PAYMENT_UNKNOWN", "PAYMENT_FAILED", "AWAITING_PAYMENT"}
              \subseteq VersionStatus
        BY DEF VersionStatus, CheckoutState
      <4> QED BY <2>5, <4>1, MoveType DEF RecordCreateOrderResult, TypeOK
    <3>2. payment' \in [Attempts -> PaymentState \cup {"NONE"}]
      BY <2>5 DEF RecordCreateOrderResult, TypeOK, PaymentState
    <3>3. hold' \in [Versions -> HoldStatus]
      BY <2>5, ReleaseType DEF RecordCreateOrderResult, TypeOK
    <3>4. rounds' \in [Attempts -> SUBSET Rounds]
      BY <2>5, RoundType DEF RecordCreateOrderResult, TypeOK
    <3>5. cases' \in [Attempts -> SUBSET CaseReasons]
      BY <2>5 DEF RecordCreateOrderResult, TypeOK, CaseReasons
    <3> QED
      BY <2>5, <3>1, <3>2, <3>3, <3>4, <3>5
         DEF RecordCreateOrderResult, TypeOK
  <2> QED BY <1>8, <2>1, <2>2, <2>3, <2>4, <2>5 DEF CreateOrderWorker
<1>9. ASSUME NEW a \in Attempts, ReconcileWorker(a)
      PROVE  TypeOK'
  <2>1. ASSUME NEW w \in Workers, NEW r \in Rounds, BeginRound(a, w, r)
        PROVE  TypeOK'
    BY <2>1, IdleType DEF BeginRound, TypeOK, PaymentState, Asking
  <2>2. ASSUME NEW r \in Rounds, DropRound(a, r)
        PROVE  TypeOK'
    BY <2>2 DEF DropRound, TypeOK
  <2>3. ASSUME NEW w \in Workers, Look(a, w)
        PROVE  TypeOK'
    <3>1. asking[a][w] \in Asking
      BY DEF TypeOK
    <3>2. Fetched(a, asking[a][w].knewPayment) \subseteq Facts \cup {NoFact}
      BY <3>1, FetchType DEF Asking
    <3>3. asking' \in [Attempts -> [Workers -> Asking]]
      <4>1. PICK recovered \in BOOLEAN, fact \in Facts \cup {NoFact},
                 review \in BOOLEAN :
              asking' = [asking EXCEPT ![a][w] = [NotAsking EXCEPT
                           !.step = "answered", !.round = asking[a][w].round,
                           !.recovered = recovered, !.fact = fact,
                           !.review = review]]
        BY <2>3, <3>1, <3>2 DEF Look, Asking
      <4> QED BY <3>1, <4>1, IdleType DEF TypeOK, Asking
    <3> QED BY <2>3, <3>3 DEF Look, TypeOK
  <2>4. ASSUME NEW w \in Workers, Conclude(a, w)
        PROVE  TypeOK'
    <3> DEFINE q == asking[a][w]
               learned == q.fact # NoFact
    <3>1. q \in Asking
      BY DEF TypeOK
    <3>2. learned => q.fact \in Facts
      BY <3>1 DEF Asking
    <3>3. /\ version' \in [Versions -> VersionStatus]
          /\ hold' \in [Versions -> HoldStatus]
          /\ closed' \in [Attempts -> BOOLEAN]
          /\ paymentId' \in [Attempts -> 0 .. MaxTry]
          /\ orders' \in [Attempts -> BOOLEAN]
          /\ refund' \in [Attempts -> BOOLEAN]
      <4>1. CASE learned
        BY <2>4, <3>2, <4>1, EvidenceType DEF Conclude
      <4>2. CASE ~learned
        BY <2>4, <4>2 DEF Conclude, TypeOK
      <4> QED BY <4>1, <4>2
    <3>4. (IF learned THEN AfterEvidence(a, q.fact) ELSE payment[a]) \in StatusType
      BY <3>2, EvidenceStatusType DEF TypeOK, StatusType
    <3>5. payment' \in [Attempts -> StatusType]
      BY <2>4, <3>4, EscalationResult DEF Conclude, TypeOK, StatusType, PaymentState
    <3>6. cases' \in [Attempts -> SUBSET CaseReasons]
      BY <2>4 DEF Conclude, TypeOK, CasesOf, CaseReasons
    <3>7. rounds' \in [Attempts -> SUBSET Rounds]
      <4>1. FollowUp(q.round) \subseteq Rounds
        BY <3>1, BoundsAssumption DEF Asking, FollowUp, Rounds, Probe
      <4> QED BY <2>4, <4>1 DEF Conclude, TypeOK
    <3>8. asking' \in [Attempts -> [Workers -> Asking]] /\ orderId' \in [Attempts -> BOOLEAN]
      BY <2>4, IdleType DEF Conclude, TypeOK
    <3> QED
      BY <2>4, <3>3, <3>5, <3>6, <3>7, <3>8 DEF Conclude, TypeOK, StatusType
  <2>5. ASSUME NEW w \in Workers, ConcludeConflict(a, w) \/ CrashInReconcile(a, w)
        PROVE  TypeOK'
    <3>1. asking' = [asking EXCEPT ![a][w] = NotAsking]
      BY <2>5 DEF ConcludeConflict, CrashInReconcile
    <3>2. asking' \in [Attempts -> [Workers -> Asking]]
      BY <3>1, IdleType DEF TypeOK
    <3> QED BY <2>5, <3>2 DEF ConcludeConflict, CrashInReconcile, TypeOK
  <2> QED BY <1>9, <2>1, <2>2, <2>3, <2>4, <2>5 DEF ReconcileWorker
<1>10. ASSUME NEW a \in Attempts, Provider(a)
       PROVE  TypeOK'
  <2>1. ASSUME NEW t \in Tries, NEW result \in TryStatus \ {"none"},
               BuyerPays(a, t, result)
        PROVE  TypeOK'
    BY <2>1 DEF BuyerPays, TypeOK
  <2>2. CASE MerchantRefunds(a)
    BY <2>2 DEF MerchantRefunds, TypeOK
  <2>3. ASSUME NEW f \in Facts, ApplyWebhook(a, f)
        PROVE  TypeOK'
    <3>1. payment' \in [Attempts -> StatusType]
      BY <2>3, EvidenceStatusType DEF ApplyWebhook, TypeOK, StatusType
    <3>2. cases' \in [Attempts -> SUBSET CaseReasons]
      BY <2>3 DEF ApplyWebhook, TypeOK, CasesOf, CaseReasons
    <3> QED
      BY <2>3, <3>1, <3>2, EvidenceType DEF ApplyWebhook, TypeOK, StatusType
  <2> QED BY <1>10, <2>1, <2>2, <2>3 DEF Provider
<1>11. ASSUME NEW a \in Attempts, TimePasses(a)
       PROVE  TypeOK'
  BY <1>11 DEF TimePasses, TypeOK
<1>12. ASSUME NEW stale \in SUBSET Versions, Housekeeping(stale)
       PROVE  TypeOK'
  BY <1>12, ReleaseType, BoundsAssumption
     DEF Housekeeping, TypeOK, VersionStatus, CheckoutState, PaymentState,
         GrantStatus, ApprovalStatus, Rounds, Probe
<1>13. CASE UNCHANGED vars
  BY <1>13 DEF vars, TypeOK
<1> QED
  BY <1>1, <1>2, <1>3, <1>4, <1>5, <1>6, <1>7, <1>8, <1>9, <1>10, <1>11, <1>12,
     <1>13 DEF Next, Buyer

(* Every variable keeps its type, for every number of versions, attempts,  *)
(* tries and rounds: in particular no round is queued past the bound.      *)
THEOREM TypeCorrect == Spec => []TypeOK
<1>1. Init => TypeOK
  BY BoundsAssumption
     DEF Init, TypeOK, VersionStatus, ApprovalStatus, HoldStatus, GrantStatus,
         TryStatus, Asking, NotAsking, Rounds, Probe, Tries
<1> QED BY <1>1, TypingStep, PTL DEF Spec

-----------------------------------------------------------------------------
(* What evidence can do to an attempt and its version, by the state the    *)
(* attempt is in.                                                          *)

Reported == {"FAILED", "AUTHORIZED", "STALE_CAPTURE", "CAPTURED"}

(* A settled attempt stays where it is, but for a capture found stale.     *)
LEMMA SettledJoin ==
    ASSUME NEW s \in Settled, NEW t \in Reported
    PROVE  \/ MonotonicApply(s, t) = s
           \/ /\ s = "CAPTURED" /\ t = "STALE_CAPTURE"
              /\ MonotonicApply(s, t) = t
  BY DEF Settled, Reported, MonotonicApply, Rank, TERMINAL_PAYMENT_STATES,
         UNCERTAIN_PAYMENT_STATES

LEMMA LiveJoin ==
    ASSUME NEW s \in LiveStates \ {"CREATED"}, NEW t \in Reported
    PROVE  /\ MonotonicApply(s, t) \in (LiveStates \ {"CREATED"}) \cup Reported
           /\ MonotonicApply(s, t) = "CAPTURED" => t = "CAPTURED"
  BY JoinResult DEF LiveStates, Reported

LEMMA EscalatedLive ==
    ASSUME NEW s \in LiveStates \cup Settled
    PROVE  EscalatedFrom(s) = IF s \in LiveStates THEN "ESCALATED" ELSE s
  BY DEF EscalatedFrom, LiveStates, Settled

(* A window is only found closed on an attempt that is still live.         *)
LEMMA ClosingLive ==
    ASSUME NEW a \in Attempts, payment[a] # "CREATED"
    PROVE  /\ Closing(a) \in {"nothing", "closes"}
           /\ Closing(a) = "closes" =>
                 /\ payment[a] \in LiveStates
                 /\ version[bound[a]] \in
                      {"AWAITING_PAYMENT", "PAYMENT_UNKNOWN",
                       "INVALIDATED_AWAITING_PAYMENT_RESULT"}
  BY DEF Closing, WindowDue, Sent, Live

PaidFor == {"AWAITING_PAYMENT", "PAYMENT_UNKNOWN",
            "INVALIDATED_AWAITING_PAYMENT_RESULT", "CANCELLED"}

LEMMA EvidenceStep ==
    ASSUME TypeOK, AttemptsBound, ApprovalUnspent, VersionFollows, MoneyAnswered,
           NEW a \in Attempts, NEW f \in Facts, orderId[a] \/ Live(a),
           payment[a] # "CREATED", EvidenceApplied(a, f)
    PROVE  LET s == version'[bound[a]]
               p == AfterEvidence(a, f)
           IN  /\ bound[a] \in Versions
               /\ version' = [version EXCEPT ![bound[a]] = s]
               /\ s \notin {"NONE", "APPROVAL_REQUIRED", "APPROVED"}
               /\ version[bound[a]] \in Retire => s \in Retire
               /\ p \in (LiveStates \ {"CREATED"}) \cup Settled
               /\ p \in LiveStates => payment[a] \in LiveStates /\ s \in PaidFor
               /\ p = "CAPTURED" => s = "PAID"
               /\ orders' = [orders EXCEPT ![a] = orders'[a]]
               /\ orders'[a] => p = "CAPTURED"
               /\ refund' = [refund EXCEPT ![a] = refund'[a]]
               /\ refund'[a] => p = "REFUND_PENDING"
<1> DEFINE v == bound[a]
           was == version[v]
           j == Judged(a)
           after == Joined(a, f)
           moved == CASE after = "CAPTURED" /\ ~Mismatch(a, f) -> "PAID"
                      [] NewlyFails(a, f) ->
                           IF j = "INVALIDATED_AWAITING_PAYMENT_RESULT"
                           THEN "INVALIDATED" ELSE "PAYMENT_FAILED"
                      [] OTHER -> j
           s == MovedIfLegal(j, moved)
<1>1. /\ payment[a] \in (LiveStates \ {"CREATED"}) \cup Settled
      /\ v \in Versions /\ was \in VersionStatus
      /\ was \notin {"NONE", "APPROVAL_REQUIRED", "APPROVED"}
      /\ payment[a] \in LiveStates => was \in PaidFor
      /\ payment[a] = "CAPTURED" => was = "PAID"
  BY DEF TypeOK, AttemptsBound, ApprovalUnspent, VersionFollows, PaidFor, Live,
         LiveStates
<1>2. /\ version' = [version EXCEPT ![v] = s]
      /\ version'[v] = s
      /\ version' = [version EXCEPT ![v] = version'[v]]
  <2>1. version' = [version EXCEPT ![v] = s]
    BY DEF EvidenceApplied
  <2> HIDE DEF s
  <2> QED BY <2>1, <1>1 DEF TypeOK
<1>3. /\ j \in {was, "INVALIDATED_AWAITING_PAYMENT_RESULT"}
      /\ payment[a] \in Settled => j = was
      /\ payment[a] \in LiveStates => j \in PaidFor
      /\ was \in Retire => j = was
  BY <1>1, ClosingLive DEF Judged, PaidFor, Settled, LiveStates, Retire
<1>4. Incoming(a, f) \in Reported
      /\ (Incoming(a, f) = "CAPTURED" => j \notin NEVER_FULFIL)
      /\ (Incoming(a, f) = "STALE_CAPTURE" => j \in NEVER_FULFIL)
  BY DEF Incoming, Reported
<1>5. CASE payment[a] \in Settled
  <2>1. after = payment[a]
    <3>1. CASE Mismatch(a, f)
      BY <1>5, <3>1, EscalatedLive DEF Joined, Settled, LiveStates
    <3>2. CASE ~Mismatch(a, f)
      <4>1. ~(payment[a] = "CAPTURED" /\ Incoming(a, f) = "STALE_CAPTURE")
        BY <1>1, <1>3, <1>4, <1>5 DEF NEVER_FULFIL
      <4> QED BY <1>4, <1>5, <3>2, <4>1, SettledJoin DEF Joined
    <3> QED BY <3>1, <3>2
  <2>2. s \in {was, "PAID"} /\ (was \in Retire => s = was)
        /\ (after = "CAPTURED" => s = "PAID")
    <3>1. moved \in {was, "PAID"}
      BY <1>3, <1>5, <2>1 DEF NewlyFails
    <3>2. was \in Retire => MovedIfLegal(was, moved) = was
      BY DEF MovedIfLegal, CheckoutEdge, CHECKOUT_TRANSITIONS, Retire
    <3> HIDE DEF moved
    <3> QED BY <1>1, <1>3, <1>5, <2>1, <3>1, <3>2, MoveResult
  <2>3. AfterEvidence(a, f) \in {payment[a], "REFUND_PENDING"}
        /\ (AfterEvidence(a, f) # payment[a] => payment[a] = "STALE_CAPTURE")
    BY <2>1 DEF AfterEvidence, AdmitsRefund, StaleCapture
  <2>4. orders' = [orders EXCEPT ![a] = orders'[a]]
        /\ (orders'[a] => payment[a] = "CAPTURED")
    BY <2>1 DEF EvidenceApplied, TypeOK, MoneyAnswered
  <2>5. refund' = [refund EXCEPT ![a] = refund'[a]]
        /\ (refund'[a] => AfterEvidence(a, f) = "REFUND_PENDING")
    BY <2>1, <2>3 DEF EvidenceApplied, TypeOK, MoneyAnswered, AfterEvidence,
                      AdmitsRefund
  <2> HIDE DEF s
  <2> QED
    BY <1>1, <1>2, <1>5, <2>1, <2>2, <2>3, <2>4, <2>5
       DEF Settled, LiveStates
<1>6. CASE payment[a] \in LiveStates \ {"CREATED"}
  <2>1. /\ after \in (LiveStates \ {"CREATED"}) \cup Reported \cup {"ESCALATED"}
        /\ after = "CAPTURED" =>
              ~Mismatch(a, f) /\ Incoming(a, f) = "CAPTURED"
    <3>1. CASE Mismatch(a, f)
      BY <1>6, <3>1, EscalatedLive DEF Joined, LiveStates
    <3>2. CASE ~Mismatch(a, f)
      BY <1>4, <1>6, <3>2, LiveJoin DEF Joined, LiveStates
    <3> QED BY <3>1, <3>2
  <2>2. after = "CAPTURED" => s = "PAID"
    <3> SUFFICES ASSUME after = "CAPTURED" PROVE s = "PAID"
      OBVIOUS
    <3>1. j \in {"AWAITING_PAYMENT", "PAYMENT_UNKNOWN"}
      BY <1>3, <1>4, <1>6, <2>1 DEF PaidFor, NEVER_FULFIL
    <3>2. moved = "PAID"
      BY <2>1 DEF NewlyFails
    <3> QED
      BY <3>1, <3>2 DEF MovedIfLegal, CheckoutEdge, CheckoutState,
                        CHECKOUT_TRANSITIONS
  <2>3. after \in LiveStates => s = j
    <3>1. after \in LiveStates => moved = j
      BY DEF LiveStates, NewlyFails
    <3> QED BY <3>1 DEF MovedIfLegal
  <2>4. /\ s \in {j, "PAID", "INVALIDATED", "PAYMENT_FAILED"}
        /\ was \in Retire => s \in Retire
    <3>1. moved \in {j, "PAID", "INVALIDATED", "PAYMENT_FAILED"}
      OBVIOUS
    <3>2. was \in Retire => MovedIfLegal(was, moved) = was
      BY DEF MovedIfLegal, CheckoutEdge, CHECKOUT_TRANSITIONS, Retire
    <3> HIDE DEF moved
    <3> QED BY <1>3, <3>1, <3>2, MoveResult
  <2>5. AfterEvidence(a, f) =
          IF AdmitsRefund(a, f) THEN "REFUND_PENDING" ELSE after
    BY DEF AfterEvidence
  <2>6. AdmitsRefund(a, f) => after = "STALE_CAPTURE"
    BY DEF AdmitsRefund, StaleCapture
  <2>7. orders' = [orders EXCEPT ![a] = orders'[a]]
        /\ (orders'[a] => after = "CAPTURED")
    BY <1>6 DEF EvidenceApplied, TypeOK, MoneyAnswered, LiveStates
  <2>8. refund' = [refund EXCEPT ![a] = refund'[a]]
        /\ (refund'[a] => AdmitsRefund(a, f))
    BY <1>6 DEF EvidenceApplied, TypeOK, MoneyAnswered, LiveStates
  <2> HIDE DEF s, j, after
  <2> QED
    BY <1>1, <1>2, <1>3, <1>6, <2>1, <2>2, <2>3, <2>4, <2>5, <2>6, <2>7, <2>8
       DEF Settled, LiveStates, Reported, PaidFor
<1> QED BY <1>1, <1>5, <1>6

-----------------------------------------------------------------------------
(* The invariant is inductive.                                             *)

(* A step that neither binds an attempt nor creates a version.             *)
LEMMA AttemptStep ==
    ASSUME IInv, TypeOK', bound' = bound,
           \A v \in Versions :
              /\ approval'[v] = "RECORDED" => approval[v] = "RECORDED"
              /\ version[v] \in Retire => version'[v] \in Retire
              /\ \/ version'[v] = version[v]
                 \/ version'[v] \notin {"NONE", "APPROVAL_REQUIRED", "APPROVED"}
              /\ Exists(v)' => Exists(v),
           \A a \in Attempts :
              /\ payment'[a] = "NONE" <=> payment[a] = "NONE"
              /\ payment'[a] \in {"NONE"} \cup LiveStates \cup Settled
              /\ payment'[a] \in LiveStates => payment[a] \in LiveStates
              /\ orderId'[a] => payment'[a] \notin {"NONE", "CREATED"},
           VersionFollows', MoneyAnswered', AnswerHasOrder'
    PROVE  IInv'
<1>1. AttemptsBound'
  BY DEF IInv, AttemptsBound
<1>2. OneLiveAttempt'
  BY DEF IInv, OneLiveAttempt, LiveStates
<1>3. ApprovalUnspent'
  BY DEF IInv, ApprovalUnspent, TypeOK
<1>4. OneAttemptPerVersion'
  BY DEF IInv, OneAttemptPerVersion
<1>5. PredecessorRetired'
  BY DEF IInv, PredecessorRetired
<1> QED BY <1>1, <1>2, <1>3, <1>4, <1>5 DEF IInv

(* A step that leaves the versions and the attempts alone.                 *)
LEMMA OutsideStep ==
    ASSUME IInv, TypeOK', AnswerHasOrder',
           UNCHANGED <<version, approval, bound, payment, orderId, orders, refund>>
    PROVE  IInv'
<1>1. VersionFollows' /\ MoneyAnswered'
  BY DEF IInv, VersionFollows, MoneyAnswered
<1>2. \A a \in Attempts :
        /\ payment'[a] \in {"NONE"} \cup LiveStates \cup Settled
        /\ orderId'[a] => payment'[a] \notin {"NONE", "CREATED"}
  BY DEF IInv, AttemptsBound
<1>3. \A v \in Versions : Exists(v)' => Exists(v)
  BY DEF Exists
<1> QED BY <1>1, <1>2, <1>3, AttemptStep

(* A step in which only attempt a and its version move, not to a state     *)
(* that could be charged again.                                            *)
LEMMA OneAttemptMoves ==
    ASSUME IInv, TypeOK', UNCHANGED <<approval, bound>>, NEW a \in Attempts,
           bound[a] # 0,
           version' = [version EXCEPT ![bound[a]] = version'[bound[a]]],
           payment' = [payment EXCEPT ![a] = payment'[a]],
           orderId' = [orderId EXCEPT ![a] = orderId'[a]],
           orders' = [orders EXCEPT ![a] = orders'[a]],
           refund' = [refund EXCEPT ![a] = refund'[a]],
           LET s == version'[bound[a]]
               p == payment'[a]
           IN  /\ s \notin {"NONE", "APPROVAL_REQUIRED", "APPROVED"}
               /\ version[bound[a]] \in Retire => s \in Retire
               /\ p \in (LiveStates \ {"CREATED"}) \cup Settled
               /\ p \in LiveStates => payment[a] \in LiveStates /\ s \in PaidFor
               /\ p = "CAPTURED" => s = "PAID"
               /\ orders'[a] => p = "CAPTURED"
               /\ refund'[a] => p = "REFUND_PENDING",
           AnswerHasOrder'
    PROVE  IInv'
<1> DEFINE v == bound[a]
<1>1. v \in Versions /\ payment[a] # "NONE"
  BY DEF IInv, TypeOK, AttemptsBound
<1>2. \A b \in Attempts \ {a} :
        /\ payment'[b] = payment[b] /\ orderId'[b] = orderId[b]
        /\ orders'[b] = orders[b] /\ refund'[b] = refund[b]
  BY DEF IInv, TypeOK
<1>3. \A w \in Versions \ {v} : version'[w] = version[w]
  BY DEF IInv, TypeOK
<1>4. VersionFollows'
  <2> SUFFICES ASSUME NEW b \in Attempts, bound[b] # 0
               PROVE  LET s == version'[bound[b]]
                      IN  /\ payment'[b] = "CREATED" =>
                               s \in {"EXECUTION_PENDING", "CANCELLED"}
                          /\ payment'[b] \in LiveStates \ {"CREATED"} =>
                               s \in PaidFor
                          /\ payment'[b] = "CAPTURED" => s = "PAID"
    BY DEF VersionFollows, PaidFor
  <2>1. CASE b = a
    BY <2>1 DEF LiveStates, Settled
  <2>2. CASE b # a
    <3>1. bound[b] \in Versions \ {v}
      BY <2>2 DEF IInv, TypeOK, OneAttemptPerVersion
    <3> QED BY <1>2, <1>3, <2>2, <3>1 DEF IInv, VersionFollows, PaidFor
  <2> QED BY <2>1, <2>2
<1>5. MoneyAnswered'
  BY <1>2 DEF IInv, MoneyAnswered
<1>6. \A w \in Versions :
        /\ approval'[w] = "RECORDED" => approval[w] = "RECORDED"
        /\ version[w] \in Retire => version'[w] \in Retire
        /\ \/ version'[w] = version[w]
           \/ version'[w] \notin {"NONE", "APPROVAL_REQUIRED", "APPROVED"}
        /\ Exists(w)' => Exists(w)
  BY <1>1, <1>3 DEF Exists, IInv, ApprovalUnspent
<1>7. \A b \in Attempts :
        /\ payment'[b] = "NONE" <=> payment[b] = "NONE"
        /\ payment'[b] \in {"NONE"} \cup LiveStates \cup Settled
        /\ payment'[b] \in LiveStates => payment[b] \in LiveStates
        /\ orderId'[b] => payment'[b] \notin {"NONE", "CREATED"}
  BY <1>1, <1>2 DEF IInv, AttemptsBound, LiveStates, Settled
<1> QED BY <1>4, <1>5, <1>6, <1>7, AttemptStep

(* A step that moves only versions without an attempt.                     *)
LEMMA VersionStep ==
    ASSUME IInv, TypeOK',
           UNCHANGED <<bound, payment, orderId, orders, refund, asking>>,
           \A w \in Versions :
              \/ version'[w] = version[w]
                 /\ (approval'[w] = "RECORDED" => approval[w] = "RECORDED")
              \/ \A a \in Attempts : bound[a] # w,
           PredecessorRetired'
    PROVE  IInv'
<1>1. AttemptsBound' /\ OneLiveAttempt' /\ OneAttemptPerVersion' /\ MoneyAnswered'
      /\ AnswerHasOrder'
  BY DEF IInv, AttemptsBound, OneLiveAttempt, OneAttemptPerVersion,
         MoneyAnswered, AnswerHasOrder
<1>2. \A a \in Attempts : bound[a] # 0 =>
        /\ version'[bound[a]] = version[bound[a]]
        /\ approval'[bound[a]] = "RECORDED" => approval[bound[a]] = "RECORDED"
  BY DEF IInv, TypeOK
<1>3. ApprovalUnspent'
  BY <1>2 DEF IInv, ApprovalUnspent
<1>4. VersionFollows'
  BY <1>2 DEF IInv, VersionFollows
<1> QED BY <1>1, <1>3, <1>4 DEF IInv

(* The buyer and the shop, up to admission.                                *)
LEMMA ShopStep ==
    ASSUME IInv, TypeOK', NEW v \in Versions,
           \/ CreateCheckout
           \/ SupersedeCheckout(v) \/ RecordApproval(v) \/ RejectApproval(v)
           \/ AdmitFindsChange(v) \/ AdmitFindsNothing(v)
    PROVE  IInv'
<1> USE DEF kernel, work, provider
<1>1. \A w \in Versions : version[w] \in {"NONE", "APPROVAL_REQUIRED", "APPROVED"}
                            \/ approval[w] = "RECORDED"
                              => \A a \in Attempts : bound[a] # w
  BY BoundsAssumption DEF IInv, ApprovalUnspent, Versions
<1>2. CASE CreateCheckout
  <2>1. PredecessorRetired'
    BY <1>2, BoundsAssumption DEF CreateCheckout, IInv, TypeOK, PredecessorRetired,
                                  Exists, Versions, Retire
  <2>2. \A w \in Versions : version'[w] = version[w] \/ version[w] = "NONE"
    BY <1>2 DEF CreateCheckout, IInv, TypeOK, Exists
  <2> QED BY <1>1, <1>2, <2>1, <2>2, VersionStep DEF CreateCheckout
<1>3. CASE SupersedeCheckout(v)
  <2>1. PredecessorRetired'
    BY <1>3 DEF SupersedeCheckout, IInv, TypeOK, PredecessorRetired, Head,
                Exists, Versions, Retire, SUPERSEDABLE_FROM
  <2>2. \A w \in Versions : version'[w] = version[w] \/ version[w] = "NONE"
    BY <1>3 DEF SupersedeCheckout, IInv, TypeOK, Head, Exists, Versions
  <2> QED BY <1>1, <1>3, <2>1, <2>2, VersionStep DEF SupersedeCheckout
<1>4. CASE RecordApproval(v)
  <2>1. PredecessorRetired'
    BY <1>4 DEF RecordApproval, IInv, TypeOK, PredecessorRetired, Exists, Retire
  <2>2. \A w \in Versions :
          \/ version'[w] = version[w] /\ approval'[w] = approval[w]
          \/ version[w] = "APPROVAL_REQUIRED"
    BY <1>4 DEF RecordApproval, IInv, TypeOK
  <2> QED BY <1>1, <1>4, <2>1, <2>2, VersionStep DEF RecordApproval
<1>5. CASE RejectApproval(v)
  <2>1. PredecessorRetired'
    BY <1>5 DEF RejectApproval, IInv, TypeOK, PredecessorRetired, Exists, Retire
  <2>2. \A w \in Versions :
          \/ version'[w] = version[w] /\ approval'[w] = approval[w]
          \/ version[w] \in {"APPROVAL_REQUIRED", "APPROVED"}
    BY <1>5 DEF RejectApproval, IInv, TypeOK
  <2> QED BY <1>1, <1>5, <2>1, <2>2, VersionStep DEF RejectApproval
<1>6. CASE AdmitFindsChange(v)
  <2>1. PredecessorRetired'
    BY <1>6 DEF AdmitFindsChange, Payable, IInv, TypeOK, PredecessorRetired, Head,
                Exists, Versions, Retire
  <2>2. \A w \in Versions :
          version'[w] = version[w] \/ version[w] = "NONE" \/ approval[w] = "RECORDED"
    BY <1>6 DEF AdmitFindsChange, Payable, IInv, TypeOK, Head, Exists, Versions
  <2> QED BY <1>1, <1>6, <2>1, <2>2, VersionStep DEF AdmitFindsChange
<1>7. CASE AdmitFindsNothing(v)
  <2>1. PredecessorRetired'
    BY <1>7 DEF AdmitFindsNothing, Payable, IInv, TypeOK, PredecessorRetired, Head,
                Exists, Retire
  <2>2. \A w \in Versions : version'[w] = version[w] \/ approval[w] = "RECORDED"
    BY <1>7 DEF AdmitFindsNothing, Payable, IInv, TypeOK
  <2> QED BY <1>1, <1>7, <2>1, <2>2, VersionStep DEF AdmitFindsNothing
<1> QED BY <1>2, <1>3, <1>4, <1>5, <1>6, <1>7

(* Only an approved version, or one whose payment failed, can be executed. *)
LEMMA PayableEdge ==
    ASSUME NEW s \in CheckoutState, CheckoutEdge(s, "EXECUTION_PENDING")
    PROVE  s \in {"APPROVED", "PAYMENT_FAILED"}
  BY DEF CheckoutState, CheckoutEdge, CHECKOUT_TRANSITIONS, Retire

(* Admission binds a new attempt to a version that had none.               *)
LEMMA AdmitStep ==
    ASSUME IInv, TypeOK', NEW v \in Versions, NEW a \in Attempts, Admit(v, a)
    PROVE  IInv'
<1> USE DEF kernel, work, provider
<1>1. /\ bound' = [bound EXCEPT ![a] = v]
      /\ payment' = [payment EXCEPT ![a] = "CREATED"]
      /\ approval' = [approval EXCEPT ![v] = "CONSUMED"]
      /\ version' = [version EXCEPT ![v] = "EXECUTION_PENDING"]
      /\ UNCHANGED <<orderId, orders, refund, asking>>
      /\ bound[a] = 0 /\ \A b \in Attempts : ~Live(b)
      /\ version[v] \in {"APPROVED", "PAYMENT_FAILED"} /\ approval[v] = "RECORDED"
      /\ Head(v)
  <2>1. version[v] \in {"APPROVED", "PAYMENT_FAILED"}
    <3>1. version[v] \in CheckoutState
      BY DEF IInv, TypeOK, VersionStatus, Admit, SpendApprovalAndEnqueue, Payable
    <3>2. CheckoutEdge(version[v], "EXECUTION_PENDING")
      BY DEF Admit, SpendApprovalAndEnqueue
    <3> QED BY <3>1, <3>2, PayableEdge
  <2> QED BY <2>1 DEF Admit, SpendApprovalAndEnqueue, Payable, NextAttempt
<1>2. /\ \A b \in Attempts : bound[b] # v
      /\ \A b \in Attempts \ {a} : bound'[b] = bound[b] /\ payment'[b] = payment[b]
      /\ bound'[a] = v /\ payment'[a] = "CREATED" /\ payment[a] = "NONE"
      /\ version'[v] = "EXECUTION_PENDING" /\ approval'[v] = "CONSUMED"
      /\ \A w \in Versions \ {v} :
            version'[w] = version[w] /\ approval'[w] = approval[w]
  <2>1. \A b \in Attempts : bound[b] # v
    <3>1. v # 0
      BY BoundsAssumption DEF Versions
    <3> QED BY <1>1, <3>1 DEF IInv, ApprovalUnspent
  <2>2. /\ \A b \in Attempts \ {a} : bound'[b] = bound[b] /\ payment'[b] = payment[b]
        /\ bound'[a] = v /\ payment'[a] = "CREATED"
    BY <1>1 DEF IInv, TypeOK
  <2>3. payment[a] = "NONE"
    BY <1>1 DEF IInv, AttemptsBound
  <2>4. /\ version'[v] = "EXECUTION_PENDING" /\ approval'[v] = "CONSUMED"
        /\ \A w \in Versions \ {v} :
              version'[w] = version[w] /\ approval'[w] = approval[w]
    BY <1>1 DEF IInv, TypeOK
  <2> QED BY <2>1, <2>2, <2>3, <2>4
<1>3. v # 0
  BY BoundsAssumption DEF Versions
<1>4. AttemptsBound'
  BY <1>1, <1>2, <1>3 DEF IInv, AttemptsBound, LiveStates
<1>5. OneLiveAttempt'
  BY <1>1, <1>2 DEF OneLiveAttempt, Live, LiveStates
<1>6. \A b \in Attempts \ {a} : bound'[b] # 0 => bound'[b] \in Versions \ {v}
  BY <1>2 DEF IInv, TypeOK
<1>7. ApprovalUnspent'
  BY <1>2, <1>6 DEF IInv, ApprovalUnspent
<1>8. OneAttemptPerVersion'
  BY <1>2, <1>6 DEF IInv, OneAttemptPerVersion
<1>9. VersionFollows'
  <2> SUFFICES ASSUME NEW b \in Attempts, bound'[b] # 0
               PROVE  LET s == version'[bound'[b]]
                      IN  /\ payment'[b] = "CREATED" =>
                               s \in {"EXECUTION_PENDING", "CANCELLED"}
                          /\ payment'[b] \in LiveStates \ {"CREATED"} =>
                               s \in PaidFor
                          /\ payment'[b] = "CAPTURED" => s = "PAID"
    BY DEF VersionFollows, PaidFor
  <2>1. CASE b = a
    BY <1>2, <2>1
  <2>2. CASE b # a
    BY <1>2, <1>6, <2>2 DEF IInv, VersionFollows, PaidFor
  <2> QED BY <2>1, <2>2
<1>10. PredecessorRetired'
  <2>1. version[v] \notin Retire /\ \A w \in Versions : Exists(w)' <=> Exists(w)
    BY <1>1, <1>2 DEF Exists, Retire
  <2> QED BY <1>1, <1>2, <2>1 DEF IInv, PredecessorRetired, Head, Versions
<1>11. MoneyAnswered' /\ AnswerHasOrder'
  BY <1>1, <1>2 DEF IInv, MoneyAnswered, AnswerHasOrder
<1> QED BY <1>4, <1>5, <1>7, <1>8, <1>9, <1>10, <1>11 DEF IInv

(* The moves of a version under its attempt, and its way to CANCELLED.     *)
LEMMA PendingMove ==
    ASSUME NEW s \in {"EXECUTION_PENDING", "CANCELLED"},
           NEW t \in {"AWAITING_PAYMENT", "PAYMENT_FAILED", "PAYMENT_UNKNOWN"}
    PROVE  MovedIfLegal(s, t) = IF s = "CANCELLED" THEN s ELSE t
  BY DEF MovedIfLegal, CheckoutEdge, CheckoutState, CHECKOUT_TRANSITIONS

LEMMA CancelEdge ==
    ASSUME NEW s, CheckoutEdge(s, "CANCELLED")
    PROVE  s \notin {"NONE", "PAID"} \cup Retire \cup (PaidFor \ {"CANCELLED"})
  BY DEF CheckoutEdge, CheckoutState, CHECKOUT_TRANSITIONS, Retire, PaidFor

(* The answer of the create-order call is recorded on an attempt that is   *)
(* still CREATED, or a second time on an unknown one.                      *)
LEMMA RecordStep ==
    ASSUME IInv, TypeOK', NEW a \in Attempts, RecordCreateOrderResult(a)
    PROVE  IInv'
<1> DEFINE v == bound[a]
           was == version[v]
           step == CASE call[a] = "ok" -> "AWAITING_PAYMENT"
                     [] call[a] = "failed" -> "PAYMENT_FAILED"
                     [] OTHER -> "PAYMENT_UNKNOWN"
<1>1. /\ payment[a] \in {"CREATED", "UNKNOWN"}
      /\ bound[a] # 0 /\ v \in Versions
      /\ was \notin {"NONE", "APPROVAL_REQUIRED", "APPROVED"}
  BY DEF RecordCreateOrderResult, IInv, TypeOK, AttemptsBound, ApprovalUnspent
<1>2. /\ version' = [version EXCEPT ![v] = version'[v]]
      /\ payment[a] = "CREATED" => version'[v] = MovedIfLegal(was, step)
      /\ payment[a] # "CREATED" => version'[v] = was
  <2>1. CASE payment[a] = "CREATED"
    <3>1. version' = [version EXCEPT ![v] = MovedIfLegal(was, step)]
      BY <2>1 DEF RecordCreateOrderResult
    <3> HIDE DEF step
    <3> QED BY <1>1, <2>1, <3>1 DEF IInv, TypeOK
  <2>2. CASE payment[a] = "UNKNOWN"
    BY <1>1, <2>2 DEF RecordCreateOrderResult, IInv, TypeOK
  <2> QED BY <1>1, <2>1, <2>2
<1>3. payment[a] = "CREATED" =>
        version'[v] = IF was = "CANCELLED" THEN was ELSE step
  BY <1>1, <1>2, PendingMove DEF IInv, VersionFollows
<1>4. /\ version'[v] \notin {"NONE", "APPROVAL_REQUIRED", "APPROVED"}
      /\ was \in Retire => version'[v] \in Retire
  BY <1>1, <1>2, <1>3 DEF IInv, VersionFollows, Retire
<1>5. /\ payment' = [payment EXCEPT ![a] = payment'[a]]
      /\ payment'[a] \in {"ESCALATED", "SUBMITTED", "FAILED", "UNKNOWN"}
      /\ payment'[a] = "SUBMITTED" => payment[a] = "CREATED" /\ call[a] = "ok"
      /\ payment'[a] = "UNKNOWN" => call[a] \in {"unknown"}
      /\ orderId' = [orderId EXCEPT ![a] = orderId'[a]]
  BY DEF RecordCreateOrderResult, IInv, TypeOK, Answers
<1>6. payment'[a] \in LiveStates => version'[v] \in PaidFor
  <2>1. payment[a] # "CREATED" => was \in PaidFor
    BY <1>1 DEF IInv, VersionFollows, LiveStates, PaidFor
  <2> QED BY <1>1, <1>2, <1>3, <1>5, <2>1 DEF LiveStates, PaidFor
<1>7. ~orders'[a] /\ ~refund'[a] /\ UNCHANGED <<orders, refund, approval, bound>>
  BY <1>1 DEF RecordCreateOrderResult, IInv, MoneyAnswered
<1>8. AnswerHasOrder'
  BY DEF RecordCreateOrderResult, IInv, AnswerHasOrder, TypeOK
<1>9. orders' = [orders EXCEPT ![a] = orders'[a]]
      /\ refund' = [refund EXCEPT ![a] = refund'[a]]
  BY <1>7 DEF IInv, TypeOK
<1> HIDE DEF v, was, step
<1>10. /\ payment'[a] \in (LiveStates \ {"CREATED"}) \cup Settled
       /\ payment[a] \in LiveStates /\ payment'[a] # "CAPTURED"
  BY <1>1, <1>5 DEF LiveStates, Settled
<1> QED
  BY <1>1, <1>2, <1>4, <1>5, <1>6, <1>7, <1>8, <1>9, <1>10, OneAttemptMoves
     DEF v, was

(* A redelivered create-order command turns a lost outcome into UNKNOWN.   *)
LEMMA ResumeStep ==
    ASSUME IInv, TypeOK', NEW a \in Attempts, Resume(a)
    PROVE  IInv'
<1> DEFINE v == bound[a]
           was == version[v]
           unrecorded == ~orderId[a] /\ payment[a] = "CREATED"
<1>1. AnswerHasOrder'
  BY DEF Resume, IInv, AnswerHasOrder
<1>2. CASE ~unrecorded
  <2>1. UNCHANGED <<version, payment>>
    BY <1>2 DEF Resume, IInv, TypeOK
  <2> QED BY <1>1, <2>1, OutsideStep DEF Resume
<1>3. CASE unrecorded
  <2>1. bound[a] # 0 /\ v \in Versions
        /\ was \in {"EXECUTION_PENDING", "CANCELLED"}
    BY <1>3 DEF IInv, TypeOK, AttemptsBound, VersionFollows
  <2>2. /\ version' = [version EXCEPT ![v] = MovedIfLegal(was, "PAYMENT_UNKNOWN")]
        /\ payment' = [payment EXCEPT ![a] = "UNKNOWN"]
        /\ UNCHANGED <<approval, bound, orderId, orders, refund>>
    BY <1>3 DEF Resume
  <2>3. /\ version'[v] = IF was = "CANCELLED" THEN was ELSE "PAYMENT_UNKNOWN"
        /\ version' = [version EXCEPT ![v] = version'[v]]
    BY <2>1, <2>2, PendingMove DEF IInv, TypeOK
  <2>4. payment'[a] = "UNKNOWN" /\ payment' = [payment EXCEPT ![a] = payment'[a]]
    BY <2>2 DEF IInv, TypeOK
  <2>5. ~orders'[a] /\ ~refund'[a]
    BY <1>3, <2>2 DEF IInv, MoneyAnswered
  <2>6. /\ orderId' = [orderId EXCEPT ![a] = orderId'[a]]
        /\ orders' = [orders EXCEPT ![a] = orders'[a]]
        /\ refund' = [refund EXCEPT ![a] = refund'[a]]
    BY <2>2 DEF IInv, TypeOK
  <2>7. /\ version'[v] \in PaidFor
        /\ version'[v] \notin {"NONE", "APPROVAL_REQUIRED", "APPROVED"}
        /\ was \in Retire => version'[v] \in Retire
        /\ payment'[a] \in LiveStates \ {"CREATED"} /\ payment[a] \in LiveStates
    BY <1>3, <2>1, <2>3, <2>4 DEF PaidFor, Retire, LiveStates
  <2> HIDE DEF unrecorded
  <2> QED
    BY <1>1, <2>1, <2>2, <2>3, <2>4, <2>5, <2>6, <2>7, OneAttemptMoves
<1> QED BY <1>2, <1>3

(* A round starts: an unknown outcome is put under reconciliation.         *)
LEMMA BeginStep ==
    ASSUME IInv, TypeOK', NEW a \in Attempts, NEW w \in Workers,
           NEW r \in Rounds, BeginRound(a, w, r)
    PROVE  IInv'
<1>1. /\ UNCHANGED <<version, approval, bound, orderId, orders, refund>>
      /\ asking' = [asking EXCEPT ![a][w] = [NotAsking EXCEPT
                       !.step = "asked", !.round = r, !.knewOrder = orderId[a],
                       !.knewPayment = paymentId[a]]]
  BY DEF BeginRound
<1>2. AnswerHasOrder'
  <2>1. asking'[a][w].knewOrder = orderId[a] /\ asking'[a][w].fact = NoFact
    BY <1>1 DEF IInv, TypeOK, NotAsking
  <2>2. \A b \in Attempts, u \in Workers :
          <<b, u>> # <<a, w>> => asking'[b][u] = asking[b][u]
    BY <1>1 DEF IInv, TypeOK
  <2> QED BY <1>1, <2>1, <2>2 DEF IInv, AnswerHasOrder
<1>3. CASE payment[a] # "UNKNOWN"
  <2>1. UNCHANGED payment
    BY <1>3 DEF BeginRound, IInv, TypeOK
  <2> QED BY <1>1, <1>2, <2>1, OutsideStep
<1>4. CASE payment[a] = "UNKNOWN"
  <2>1. payment' = [payment EXCEPT ![a] = "RECONCILING"]
    BY <1>4 DEF BeginRound
  <2>2. /\ \A b \in Attempts \ {a} : payment'[b] = payment[b]
        /\ payment'[a] = "RECONCILING"
    BY <2>1 DEF IInv, TypeOK
  <2>3. VersionFollows' /\ MoneyAnswered'
    BY <1>1, <1>4, <2>2 DEF IInv, VersionFollows, MoneyAnswered, LiveStates
  <2>4. \A b \in Attempts :
          /\ payment'[b] = "NONE" <=> payment[b] = "NONE"
          /\ payment'[b] \in {"NONE"} \cup LiveStates \cup Settled
          /\ payment'[b] \in LiveStates => payment[b] \in LiveStates
          /\ orderId'[b] => payment'[b] \notin {"NONE", "CREATED"}
    BY <1>1, <1>4, <2>2 DEF IInv, AttemptsBound, LiveStates
  <2>5. \A v \in Versions : Exists(v)' => Exists(v)
    BY <1>1 DEF Exists
  <2> QED BY <1>1, <1>2, <2>3, <2>4, <2>5, AttemptStep
<1> QED BY <1>3, <1>4

(* A webhook is applied.                                                   *)
LEMMA WebhookStep ==
    ASSUME IInv, TypeOK', NEW a \in Attempts, NEW f \in Facts, ApplyWebhook(a, f)
    PROVE  IInv'
<1>1. /\ orderId[a] /\ EvidenceApplied(a, f)
      /\ payment' = [payment EXCEPT ![a] = AfterEvidence(a, f)]
      /\ UNCHANGED <<approval, bound, orderId, asking>>
  BY DEF ApplyWebhook, work
<1>2. payment[a] \notin {"NONE", "CREATED"} /\ bound[a] # 0
  BY <1>1 DEF IInv, AttemptsBound
<1>3. payment'[a] = AfterEvidence(a, f)
      /\ payment' = [payment EXCEPT ![a] = payment'[a]]
  BY <1>1 DEF IInv, TypeOK
<1>4. orderId' = [orderId EXCEPT ![a] = orderId'[a]]
  BY <1>1 DEF IInv, TypeOK
<1>5. AnswerHasOrder'
  BY <1>1 DEF IInv, AnswerHasOrder
<1>6. AttemptsBound /\ ApprovalUnspent /\ VersionFollows /\ MoneyAnswered /\ TypeOK
  BY DEF IInv
<1>7. LET s == version'[bound[a]]
          p == payment'[a]
      IN  /\ version' = [version EXCEPT ![bound[a]] = s]
          /\ s \notin {"NONE", "APPROVAL_REQUIRED", "APPROVED"}
          /\ version[bound[a]] \in Retire => s \in Retire
          /\ p \in (LiveStates \ {"CREATED"}) \cup Settled
          /\ p \in LiveStates => payment[a] \in LiveStates /\ s \in PaidFor
          /\ p = "CAPTURED" => s = "PAID"
          /\ orders' = [orders EXCEPT ![a] = orders'[a]]
          /\ orders'[a] => p = "CAPTURED"
          /\ refund' = [refund EXCEPT ![a] = refund'[a]]
          /\ refund'[a] => p = "REFUND_PENDING"
  BY <1>1, <1>2, <1>3, <1>6, EvidenceStep
<1> QED BY <1>1, <1>2, <1>3, <1>4, <1>5, <1>7, OneAttemptMoves

(* A reconciliation concludes.                                             *)
LEMMA ConcludeStep ==
    ASSUME IInv, TypeOK', NEW a \in Attempts, NEW w \in Workers, Conclude(a, w)
    PROVE  IInv'
<1> DEFINE q == asking[a][w]
           learned == q.fact # NoFact
           after == IF learned THEN AfterEvidence(a, q.fact) ELSE payment[a]
<1>1. /\ q.recovered => payment[a] = "RECONCILING"
      /\ orderId' = [orderId EXCEPT ![a] = orderId[a] \/ q.recovered]
      /\ payment' = [payment EXCEPT ![a] = payment'[a]]
      /\ payment'[a] \in {after, EscalatedFrom(after)}
      /\ asking' = [asking EXCEPT ![a][w] = NotAsking]
      /\ UNCHANGED <<approval, bound>>
  BY DEF Conclude, IInv, TypeOK
<1>2. /\ orderId'[a] <=> orderId[a] \/ q.recovered
      /\ orderId' = [orderId EXCEPT ![a] = orderId'[a]]
      /\ \A b \in Attempts \ {a} : orderId'[b] = orderId[b]
                                  /\ payment'[b] = payment[b]
  BY <1>1 DEF IInv, TypeOK
<1>3. AnswerHasOrder'
  <2>1. ~asking'[a][w].knewOrder /\ asking'[a][w].fact = NoFact
    BY <1>1 DEF IInv, TypeOK, NotAsking
  <2>2. \A b \in Attempts, u \in Workers :
          <<b, u>> # <<a, w>> => asking'[b][u] = asking[b][u]
    BY <1>1 DEF IInv, TypeOK
  <2> QED BY <1>2, <2>1, <2>2 DEF IInv, AnswerHasOrder
<1>4. CASE learned
  <2>1. q.fact \in Facts
    BY <1>4 DEF IInv, TypeOK, Asking
  <2>2. EvidenceApplied(a, q.fact)
    BY <1>4 DEF Conclude
  <2>3. /\ orderId[a] \/ Live(a)
        /\ payment[a] \notin {"NONE", "CREATED"} /\ bound[a] # 0
    BY <1>1, <1>4 DEF IInv, AnswerHasOrder, AttemptsBound, Live, LiveStates
  <2>4. after = AfterEvidence(a, q.fact)
    BY <1>4
  <2> HIDE DEF after, learned, q
  <2>5. after \in (LiveStates \ {"CREATED"}) \cup Settled
    BY <2>1, <2>2, <2>3, <2>4, EvidenceStep DEF IInv
  <2>6. \/ payment'[a] = after
        \/ payment'[a] = "ESCALATED" /\ after \in LiveStates
    BY <1>1, <2>5, EscalatedLive
  <2>7. "ESCALATED" \in Settled \ (LiveStates \cup {"CAPTURED", "REFUND_PENDING"})
        /\ {"CAPTURED", "REFUND_PENDING"} \cap LiveStates = {}
    BY DEF Settled, LiveStates
  <2>8. AttemptsBound /\ ApprovalUnspent /\ VersionFollows /\ MoneyAnswered /\ TypeOK
    BY DEF IInv
  <2>9. LET s == version'[bound[a]]
            p == payment'[a]
        IN  /\ version' = [version EXCEPT ![bound[a]] = s]
            /\ s \notin {"NONE", "APPROVAL_REQUIRED", "APPROVED"}
            /\ version[bound[a]] \in Retire => s \in Retire
            /\ p \in (LiveStates \ {"CREATED"}) \cup Settled
            /\ p \in LiveStates => payment[a] \in LiveStates /\ s \in PaidFor
            /\ p = "CAPTURED" => s = "PAID"
            /\ orders' = [orders EXCEPT ![a] = orders'[a]]
            /\ orders'[a] => p = "CAPTURED"
            /\ refund' = [refund EXCEPT ![a] = refund'[a]]
            /\ refund'[a] => p = "REFUND_PENDING"
    BY <2>1, <2>2, <2>3, <2>4, <2>5, <2>6, <2>7, <2>8, EvidenceStep
  <2> QED BY <1>1, <1>2, <1>3, <2>3, <2>9, OneAttemptMoves
<1>5. CASE ~learned
  <2>1. UNCHANGED <<version, orders, refund>>
    BY <1>5 DEF Conclude
  <2>2. /\ payment[a] \in {"NONE"} \cup LiveStates \cup Settled
        /\ payment'[a] \in {payment[a], EscalatedFrom(payment[a])}
    BY <1>1, <1>5 DEF IInv, AttemptsBound
  <2>3. \/ payment'[a] = payment[a]
        \/ payment'[a] = "ESCALATED" /\ payment[a] \in LiveStates
    BY <2>2 DEF EscalatedFrom, LiveStates, Settled
  <2>4. VersionFollows' /\ MoneyAnswered'
    BY <1>1, <1>2, <2>1, <2>3 DEF IInv, VersionFollows, MoneyAnswered, LiveStates
  <2>5. \A b \in Attempts :
          /\ payment'[b] = "NONE" <=> payment[b] = "NONE"
          /\ payment'[b] \in {"NONE"} \cup LiveStates \cup Settled
          /\ payment'[b] \in LiveStates => payment[b] \in LiveStates
          /\ orderId'[b] => payment'[b] \notin {"NONE", "CREATED"}
    BY <1>1, <1>2, <2>3 DEF IInv, AttemptsBound, LiveStates, Settled
  <2>6. \A v \in Versions : Exists(v)' => Exists(v)
    BY <2>1 DEF Exists
  <2> QED BY <1>1, <1>3, <2>1, <2>4, <2>5, <2>6, AttemptStep
<1> QED BY <1>4, <1>5

(* The sweep touches an attempt only while it is live, and its version     *)
(* only while that can still be paid.                                      *)
LEMMA DueResult ==
    ASSUME IInv, NEW a \in Attempts, Closing(a) # "nothing", Closing(a) # "raises"
    PROVE  /\ Closing(a) \in {"cancels", "closes"}
           /\ payment[a] \in LiveStates /\ bound[a] # 0
           /\ version[bound[a]] \notin Retire \cup {"NONE"}
           /\ Closing(a) = "cancels" => payment[a] = "CREATED"
<1> DEFINE s == version[bound[a]]
<1>1. /\ Closing(a) \in {"cancels", "closes"} /\ WindowDue(a)
      /\ Closing(a) = "cancels" => ~Sent(a) /\ CheckoutEdge(s, "CANCELLED")
      /\ Closing(a) = "closes" =>
            \/ /\ payment[a] = "CREATED"
               /\ MovedIfLegal(s, "PAYMENT_UNKNOWN") \in
                     {"AWAITING_PAYMENT", "PAYMENT_UNKNOWN"}
            \/ s \in {"AWAITING_PAYMENT", "PAYMENT_UNKNOWN",
                      "INVALIDATED_AWAITING_PAYMENT_RESULT"}
  BY DEF Closing
<1>2. payment[a] \in LiveStates /\ bound[a] # 0
  BY <1>1 DEF WindowDue, Live, LiveStates, IInv, AttemptsBound
<1>3. CASE Closing(a) = "cancels"
  <2>1. s \notin Retire \cup {"NONE"}
    BY <1>1, <1>3, CancelEdge
  <2>2. payment[a] = "CREATED"
    BY <1>1, <1>3 DEF Sent
  <2> QED BY <1>2, <1>3, <2>1, <2>2
<1>4. CASE Closing(a) = "closes"
  <2>1. CASE payment[a] = "CREATED"
    <3>1. s \in {"EXECUTION_PENDING", "CANCELLED"}
      BY <1>2, <2>1 DEF IInv, VersionFollows
    <3>2. s # "CANCELLED"
      BY <1>1, <1>4, <2>1, <3>1, PendingMove
    <3> QED BY <1>2, <1>4, <3>1, <3>2 DEF Retire
  <2>2. CASE payment[a] # "CREATED"
    BY <1>1, <1>2, <1>4, <2>2 DEF Retire
  <2> QED BY <2>1, <2>2
<1> QED BY <1>1, <1>3, <1>4

(* What the sweep does to an attempt and its version, and to a version     *)
(* whose attempts it leaves alone.                                         *)
LEMMA SweepMoves ==
    ASSUME IInv, NEW stale \in SUBSET Versions, Housekeeping(stale)
    PROVE  /\ \A a \in Attempts :
                 /\ Closing(a) \in {"cancels", "closes", "nothing"}
                 /\ Closing(a) = "nothing" => payment'[a] = payment[a]
                 /\ Closing(a) # "nothing" =>
                      /\ payment[a] \in LiveStates /\ bound[a] # 0
                      /\ version[bound[a]] \notin Retire \cup {"NONE"}
                 /\ Closing(a) = "cancels" =>
                      /\ payment[a] = "CREATED" /\ payment'[a] = "EXPIRED"
                      /\ version'[bound[a]] = "CANCELLED"
                 /\ Closing(a) = "closes" =>
                      /\ payment'[a] = IF payment[a] = "CREATED" THEN "UNKNOWN"
                                       ELSE payment[a]
                      /\ version'[bound[a]] = "INVALIDATED_AWAITING_PAYMENT_RESULT"
                 /\ closed'[a] = (closed[a] \/ Closing(a) # "nothing")
           /\ \A v \in Versions :
                 \/ \E a \in Attempts : bound[a] = v /\ Closing(a) # "nothing"
                 \/ version'[v] = version[v] /\ hold'[v] = hold[v]
                 \/ version[v] = "APPROVED" /\ version'[v] = "EXPIRED"
<1> DEFINE cancelled == {a \in Attempts : Closing(a) = "cancels"}
           shut == {a \in Attempts : Closing(a) = "closes"}
           hit(v, S) == \E a \in S : bound[a] = v
           approved == {w \in stale : version[w] = "APPROVED"}
<1>1. /\ payment' = [a \in Attempts |->
                        IF a \in cancelled THEN "EXPIRED"
                        ELSE IF a \in shut /\ payment[a] = "CREATED"
                             THEN "UNKNOWN" ELSE payment[a]]
      /\ version' = [v \in Versions |->
              CASE hit(v, cancelled) -> "CANCELLED"
                [] hit(v, shut) -> "INVALIDATED_AWAITING_PAYMENT_RESULT"
                [] v \in approved -> "EXPIRED"
                [] OTHER -> version[v]]
      /\ hold' = [v \in Versions |->
              IF hit(v, cancelled \cup shut) \/ v \in approved
              THEN Released(hold[v]) ELSE hold[v]]
      /\ closed' = [a \in Attempts |-> closed[a] \/ a \in cancelled \cup shut]
      /\ \A a \in Attempts : Closing(a) # "raises"
  BY DEF Housekeeping
<1>2. \A a \in Attempts : Closing(a) # "nothing" =>
        /\ Closing(a) \in {"cancels", "closes"}
        /\ payment[a] \in LiveStates /\ bound[a] # 0
        /\ version[bound[a]] \notin Retire \cup {"NONE"}
        /\ Closing(a) = "cancels" => payment[a] = "CREATED"
  BY <1>1, DueResult
<1>3. ASSUME NEW v \in Versions
      PROVE  /\ hit(v, cancelled) => version'[v] = "CANCELLED"
             /\ hit(v, shut) => version'[v] = "INVALIDATED_AWAITING_PAYMENT_RESULT"
             /\ ~hit(v, cancelled) /\ ~hit(v, shut) =>
                   \/ version'[v] = version[v] /\ hold'[v] = hold[v]
                   \/ version[v] = "APPROVED" /\ version'[v] = "EXPIRED"
  <2> DEFINE first == hit(v, cancelled)
             second == hit(v, shut)
             third == v \in approved
  <2>1. version'[v] = CASE first -> "CANCELLED"
                        [] second -> "INVALIDATED_AWAITING_PAYMENT_RESULT"
                        [] third -> "EXPIRED"
                        [] OTHER -> version[v]
    BY <1>1
  <2>2. third => version[v] = "APPROVED"
    OBVIOUS
  <2>3. ~(first /\ second)
    BY <1>2 DEF IInv, OneAttemptPerVersion
  <2>4. first \/ second => version[v] # "APPROVED"
    BY <1>2 DEF IInv, ApprovalUnspent
  <2>5. ~first /\ ~second /\ ~third => hold'[v] = hold[v]
    BY <1>1
  <2> HIDE DEF first, second, third
  <2>6. /\ first => version'[v] = "CANCELLED"
        /\ second => version'[v] = "INVALIDATED_AWAITING_PAYMENT_RESULT"
        /\ ~first /\ ~second =>
              \/ version'[v] = version[v] /\ hold'[v] = hold[v]
              \/ version[v] = "APPROVED" /\ version'[v] = "EXPIRED"
    BY <2>1, <2>2, <2>3, <2>4, <2>5
  <2> QED BY <2>6 DEF first, second
<1>4. ASSUME NEW a \in Attempts
      PROVE  /\ Closing(a) = "nothing" => payment'[a] = payment[a]
             /\ Closing(a) = "cancels" => payment'[a] = "EXPIRED"
             /\ Closing(a) = "closes" =>
                   payment'[a] = IF payment[a] = "CREATED" THEN "UNKNOWN"
                                 ELSE payment[a]
  BY <1>1
<1>5. ASSUME NEW a \in Attempts
      PROVE  closed'[a] = (closed[a] \/ Closing(a) # "nothing")
  <2>1. a \in cancelled \cup shut <=> Closing(a) # "nothing"
    BY <1>2
  <2>2. closed'[a] = (closed[a] \/ a \in cancelled \cup shut)
    BY <1>1
  <2> HIDE DEF cancelled, shut
  <2> QED BY <2>1, <2>2
<1>6. ASSUME NEW a \in Attempts, bound[a] # 0
      PROVE  /\ Closing(a) = "cancels" => version'[bound[a]] = "CANCELLED"
             /\ Closing(a) = "closes" =>
                   version'[bound[a]] = "INVALIDATED_AWAITING_PAYMENT_RESULT"
  <2>1. bound[a] \in Versions
    BY <1>6 DEF IInv, TypeOK
  <2> QED BY <1>3, <2>1
<1>7. \A v \in Versions :
        \/ \E a \in Attempts : bound[a] = v /\ Closing(a) # "nothing"
        \/ version'[v] = version[v] /\ hold'[v] = hold[v]
        \/ version[v] = "APPROVED" /\ version'[v] = "EXPIRED"
  BY <1>3
<1> HIDE DEF cancelled, shut, hit, approved
<1> QED BY <1>2, <1>4, <1>5, <1>6, <1>7

LEMMA HousekeepingStep ==
    ASSUME IInv, TypeOK', NEW stale \in SUBSET Versions, Housekeeping(stale)
    PROVE  IInv'
<1>1. /\ UNCHANGED <<bound, orderId, orders, refund, asking>>
      /\ \A v \in Versions : approval'[v] = "RECORDED" => approval[v] = "RECORDED"
  BY DEF Housekeeping
<1>2. \A v \in Versions :
        /\ version[v] \in Retire => version'[v] \in Retire
        /\ \/ version'[v] = version[v]
           \/ version'[v] \notin {"NONE", "APPROVAL_REQUIRED", "APPROVED"}
        /\ Exists(v)' => Exists(v)
  BY SweepMoves DEF Exists, Retire
<1>3. \A a \in Attempts :
        /\ payment'[a] = "NONE" <=> payment[a] = "NONE"
        /\ payment'[a] \in {"NONE"} \cup LiveStates \cup Settled
        /\ payment'[a] \in LiveStates => payment[a] \in LiveStates
        /\ orderId'[a] => payment'[a] \notin {"NONE", "CREATED"}
  BY <1>1, SweepMoves DEF IInv, AttemptsBound, LiveStates, Settled
<1>4. VersionFollows'
  <2> SUFFICES ASSUME NEW a \in Attempts, bound[a] # 0
               PROVE  LET s == version'[bound[a]]
                      IN  /\ payment'[a] = "CREATED" =>
                               s \in {"EXECUTION_PENDING", "CANCELLED"}
                          /\ payment'[a] \in LiveStates \ {"CREATED"} =>
                               s \in PaidFor
                          /\ payment'[a] = "CAPTURED" => s = "PAID"
    BY <1>1 DEF VersionFollows, PaidFor
  <2>1. bound[a] \in Versions /\ version[bound[a]] # "APPROVED"
    BY DEF IInv, TypeOK, ApprovalUnspent
  <2>2. CASE Closing(a) # "nothing"
    BY <2>2, SweepMoves DEF PaidFor, LiveStates
  <2>3. CASE Closing(a) = "nothing"
    <3>1. \A b \in Attempts : bound[b] = bound[a] => b = a
      BY DEF IInv, OneAttemptPerVersion
    <3>2. version'[bound[a]] = version[bound[a]] /\ payment'[a] = payment[a]
      BY <2>1, <2>3, <3>1, SweepMoves
    <3> QED BY <3>2 DEF IInv, VersionFollows, PaidFor
  <2> QED BY <2>2, <2>3
<1>5. MoneyAnswered' /\ AnswerHasOrder'
  BY <1>1, SweepMoves DEF IInv, MoneyAnswered, AnswerHasOrder, LiveStates
<1> QED BY <1>1, <1>2, <1>3, <1>4, <1>5, AttemptStep

(* A version is cancelled, its unsent attempt with it.                     *)
LEMMA CancelStep ==
    ASSUME IInv, TypeOK', CancelCommits
    PROVE  IInv'
<1> DEFINE v == cancelling.version
           a == cancelling.attempt
<1>1. /\ CheckoutEdge(version[v], "CANCELLED")
      /\ a # 0 => payment[a] = "CREATED"
      /\ payment' = [b \in Attempts |-> IF b = a THEN "EXPIRED" ELSE payment[b]]
      /\ version' = [version EXCEPT ![v] = "CANCELLED"]
      /\ UNCHANGED <<approval, bound, orderId, orders, refund, asking>>
  BY DEF CancelCommits
<1>2. v \in Versions /\ (a # 0 => a \in Attempts) /\ 0 \notin Attempts
  BY BoundsAssumption DEF CancelCommits, IInv, TypeOK, Attempts
<1>3. version[v] \notin {"NONE", "PAID"} \cup Retire
  BY <1>1, CancelEdge
<1>4. \A w \in Versions : version'[w] = IF w = v THEN "CANCELLED" ELSE version[w]
  BY <1>1 DEF IInv, TypeOK
<1>5. \A b \in Attempts :
        \/ payment'[b] = payment[b]
        \/ payment[b] = "CREATED" /\ payment'[b] = "EXPIRED"
  BY <1>1, <1>2 DEF CancelCommits
<1> HIDE DEF v, a
<1>6. \A w \in Versions :
        /\ approval'[w] = "RECORDED" => approval[w] = "RECORDED"
        /\ version[w] \in Retire => version'[w] \in Retire
        /\ \/ version'[w] = version[w]
           \/ version'[w] \notin {"NONE", "APPROVAL_REQUIRED", "APPROVED"}
        /\ Exists(w)' => Exists(w)
  BY <1>1, <1>3, <1>4 DEF Exists, Retire
<1>7. \A b \in Attempts :
        /\ payment'[b] = "NONE" <=> payment[b] = "NONE"
        /\ payment'[b] \in {"NONE"} \cup LiveStates \cup Settled
        /\ payment'[b] \in LiveStates => payment[b] \in LiveStates
        /\ orderId'[b] => payment'[b] \notin {"NONE", "CREATED"}
  BY <1>1, <1>5 DEF IInv, AttemptsBound, LiveStates, Settled
<1>8. VersionFollows'
  <2> SUFFICES ASSUME NEW b \in Attempts, bound[b] # 0
               PROVE  LET s == version'[bound[b]]
                      IN  /\ payment'[b] = "CREATED" =>
                               s \in {"EXECUTION_PENDING", "CANCELLED"}
                          /\ payment'[b] \in LiveStates \ {"CREATED"} =>
                               s \in PaidFor
                          /\ payment'[b] = "CAPTURED" => s = "PAID"
    BY <1>1 DEF VersionFollows, PaidFor
  <2>1. bound[b] \in Versions
    BY DEF IInv, TypeOK
  <2> QED
    BY <1>3, <1>4, <1>5, <2>1 DEF IInv, VersionFollows, PaidFor, LiveStates
<1>9. MoneyAnswered' /\ AnswerHasOrder'
  BY <1>1, <1>5 DEF IInv, MoneyAnswered, AnswerHasOrder
<1> QED BY <1>1, <1>6, <1>7, <1>8, <1>9, AttemptStep

LEMMA InvalidateStep ==
    ASSUME IInv, TypeOK', NEW v \in Versions, InvalidateOpen(v)
    PROVE  IInv'
<1>1. /\ version[v] \in {"AWAITING_PAYMENT", "PAYMENT_UNKNOWN"}
      /\ version' = [version EXCEPT ![v] = "INVALIDATED_AWAITING_PAYMENT_RESULT"]
      /\ UNCHANGED <<approval, bound, payment, orderId, orders, refund, asking>>
  BY DEF InvalidateOpen, work
<1>2. \A w \in Versions : version'[w] =
        IF w = v THEN "INVALIDATED_AWAITING_PAYMENT_RESULT" ELSE version[w]
  BY <1>1 DEF IInv, TypeOK
<1>3. VersionFollows'
  <2> SUFFICES ASSUME NEW b \in Attempts, bound[b] # 0
               PROVE  LET s == version'[bound[b]]
                      IN  /\ payment[b] = "CREATED" =>
                               s \in {"EXECUTION_PENDING", "CANCELLED"}
                          /\ payment[b] \in LiveStates \ {"CREATED"} =>
                               s \in PaidFor
                          /\ payment[b] = "CAPTURED" => s = "PAID"
    BY <1>1 DEF VersionFollows, PaidFor
  <2>1. bound[b] \in Versions
    BY DEF IInv, TypeOK
  <2> QED BY <1>1, <1>2, <2>1 DEF IInv, VersionFollows, PaidFor
<1>4. \A w \in Versions :
        /\ version[w] \in Retire => version'[w] \in Retire
        /\ \/ version'[w] = version[w]
           \/ version'[w] \notin {"NONE", "APPROVAL_REQUIRED", "APPROVED"}
        /\ Exists(w)' => Exists(w)
  BY <1>1, <1>2 DEF Exists, Retire
<1>5. MoneyAnswered' /\ AnswerHasOrder'
  BY <1>1 DEF IInv, MoneyAnswered, AnswerHasOrder
<1>6. \A a \in Attempts :
        /\ payment'[a] \in {"NONE"} \cup LiveStates \cup Settled
        /\ orderId'[a] => payment'[a] \notin {"NONE", "CREATED"}
  BY <1>1 DEF IInv, AttemptsBound
<1> QED BY <1>1, <1>3, <1>4, <1>5, <1>6, AttemptStep

(* The steps that move no version and no attempt.                          *)
LEMMA OutsideActions ==
    ASSUME IInv, TypeOK', NEW a \in Attempts,
           \/ ConsumeGrant(a) \/ RefuseCommand(a) \/ RecordConflict(a)
           \/ CrashInCall(a) \/ AskStatus(a) \/ MerchantRefunds(a) \/ TimePasses(a)
           \/ \E w \in Workers :
                 CrashInReconcile(a, w) \/ ConcludeConflict(a, w) \/ Look(a, w)
           \/ \E answer \in Answers : ProviderAnswers(a, answer)
           \/ \E r \in Rounds : DropRound(a, r)
           \/ \E t \in Tries : BrowserCallback(a, t)
           \/ \E t \in Tries, result \in TryStatus \ {"none"} :
                 BuyerPays(a, t, result)
    PROVE  IInv'
<1> USE DEF kernel, work, provider
<1>1. UNCHANGED <<version, approval, bound, payment, orderId, orders, refund>>
  BY DEF ConsumeGrant, RefuseCommand, RecordConflict, CrashInCall,
         CrashInReconcile, ConcludeConflict, Look, AskStatus, MerchantRefunds,
         TimePasses, ProviderAnswers, DropRound, BrowserCallback, BuyerPays
<1>2. AnswerHasOrder'
  <2>1. CASE UNCHANGED asking
    BY <1>1, <2>1 DEF IInv, AnswerHasOrder
  <2>2. CASE \E w \in Workers : asking' = [asking EXCEPT ![a][w] = NotAsking]
    <3>1. ~NotAsking.knewOrder /\ NotAsking.fact = NoFact
      BY DEF NotAsking
    <3>2. \A b \in Attempts, u \in Workers :
            asking'[b][u] = asking[b][u] \/ asking'[b][u] = NotAsking
      BY <2>2 DEF IInv, TypeOK
    <3> QED BY <1>1, <3>1, <3>2 DEF IInv, AnswerHasOrder
  <2>3. ASSUME NEW w \in Workers, Look(a, w)
        PROVE  AnswerHasOrder'
    <3>1. PICK recovered, fact, review :
            /\ asking' = [asking EXCEPT ![a][w] = [NotAsking EXCEPT
                             !.step = "answered", !.round = asking[a][w].round,
                             !.recovered = recovered, !.fact = fact,
                             !.review = review]]
            /\ fact # NoFact => recovered = ~asking[a][w].knewOrder
      BY <2>3 DEF Look
    <3>2. /\ ~asking'[a][w].knewOrder
          /\ asking'[a][w].fact = fact /\ asking'[a][w].recovered = recovered
          /\ \A b \in Attempts, u \in Workers :
                <<b, u>> # <<a, w>> => asking'[b][u] = asking[b][u]
      BY <3>1 DEF IInv, TypeOK, NotAsking
    <3>3. asking[a][w].knewOrder \in BOOLEAN /\ (asking[a][w].knewOrder => orderId[a])
      BY DEF IInv, TypeOK, Asking, AnswerHasOrder
    <3> QED BY <1>1, <3>1, <3>2, <3>3 DEF IInv, AnswerHasOrder
  <2> QED
    BY <2>1, <2>2, <2>3
       DEF ConsumeGrant, RefuseCommand, RecordConflict, CrashInCall,
           CrashInReconcile, ConcludeConflict, AskStatus, MerchantRefunds,
           TimePasses, ProviderAnswers, DropRound, BrowserCallback, BuyerPays
<1> QED BY <1>1, <1>2, OutsideStep

LEMMA InvariantStep == IInv /\ [Next]_vars => IInv'
<1> SUFFICES ASSUME IInv, [Next]_vars
             PROVE  IInv'
  OBVIOUS
<1>1. TypeOK'
  BY TypingStep DEF IInv
<1>2. ASSUME Buyer PROVE IInv'
  <2>1. CASE \E v \in Versions :
               \/ SupersedeCheckout(v) \/ RecordApproval(v) \/ RejectApproval(v)
               \/ AdmitFindsChange(v) \/ AdmitFindsNothing(v)
    BY <1>1, <2>1, ShopStep
  <2>2. CASE CreateCheckout
    <3>1. 1 \in Versions
      BY BoundsAssumption DEF Versions
    <3> QED BY <1>1, <2>2, <3>1, ShopStep
  <2>3. CASE CancelDenied \/ \E v \in Versions : CancelReads(v)
    <3>1. UNCHANGED <<version, approval, bound, payment, orderId, orders, refund,
                      asking>>
      BY <2>3 DEF CancelDenied, CancelReads, kernel
    <3>2. AnswerHasOrder'
      BY <3>1 DEF IInv, AnswerHasOrder
    <3> QED BY <1>1, <3>1, <3>2, OutsideStep
  <2>4. CASE CancelCommits
    BY <1>1, <2>4, CancelStep
  <2>5. CASE \E v \in Versions : InvalidateOpen(v)
    BY <1>1, <2>5, InvalidateStep
  <2>6. CASE \E v \in Versions, a \in Attempts : Admit(v, a)
    BY <1>1, <2>6, AdmitStep
  <2>7. CASE \E a \in Attempts :
               AskStatus(a) \/ \E t \in Tries : BrowserCallback(a, t)
    BY <1>1, <2>7, OutsideActions
  <2> QED BY <1>2, <2>1, <2>2, <2>3, <2>4, <2>5, <2>6, <2>7 DEF Buyer
<1>3. ASSUME NEW a \in Attempts, CreateOrderWorker(a) PROVE IInv'
  BY <1>1, <1>3, OutsideActions, RecordStep, ResumeStep DEF CreateOrderWorker
<1>4. ASSUME NEW a \in Attempts, ReconcileWorker(a) PROVE IInv'
  BY <1>1, <1>4, OutsideActions, BeginStep, ConcludeStep DEF ReconcileWorker
<1>5. ASSUME NEW a \in Attempts, Provider(a) PROVE IInv'
  BY <1>1, <1>5, OutsideActions, WebhookStep DEF Provider
<1>6. ASSUME NEW a \in Attempts, TimePasses(a) PROVE IInv'
  BY <1>1, <1>6, OutsideActions
<1>7. ASSUME NEW stale \in SUBSET Versions, Housekeeping(stale) PROVE IInv'
  BY <1>1, <1>7, HousekeepingStep
<1>8. ASSUME UNCHANGED vars PROVE IInv'
  <2>1. UNCHANGED <<version, approval, bound, payment, orderId, orders, refund,
                    asking>>
    BY <1>8 DEF vars, kernel, work
  <2>2. AnswerHasOrder'
    BY <2>1 DEF IInv, AnswerHasOrder
  <2> QED BY <1>1, <2>1, <2>2, OutsideStep
<1> QED
  BY <1>2, <1>3, <1>4, <1>5, <1>6, <1>7, <1>8 DEF Next

(* The invariant holds in every reachable state.                           *)
THEOREM Invariance == Spec => []IInv
<1>1. Init => IInv
  <2> SUFFICES ASSUME Init PROVE IInv
    OBVIOUS
  <2>1. TypeOK
    BY BoundsAssumption
       DEF Init, TypeOK, VersionStatus, ApprovalStatus, HoldStatus, GrantStatus,
           TryStatus, Asking, NotAsking, Rounds, Probe, Tries
  <2>2. AttemptsBound /\ OneLiveAttempt /\ ApprovalUnspent /\ OneAttemptPerVersion
        /\ VersionFollows /\ MoneyAnswered
    BY DEF Init, AttemptsBound, OneLiveAttempt, ApprovalUnspent,
           OneAttemptPerVersion, VersionFollows, MoneyAnswered
  <2>3. PredecessorRetired
    BY DEF Init, PredecessorRetired, Exists
  <2>4. AnswerHasOrder
    BY DEF Init, AnswerHasOrder, NotAsking
  <2> QED BY <2>1, <2>2, <2>3, <2>4 DEF IInv
<1> QED BY <1>1, InvariantStep, PTL DEF Spec

(* However many versions a checkout goes through, at most one payment      *)
(* attempt of it can still be charged (uq_payment_attempts_one_non_        *)
(* terminal): no step revives an attempt that has left the live states.    *)
THEOREM SingleLiveAttempt == Spec => []OneLiveAttempt
<1>1. IInv => OneLiveAttempt
  BY DEF IInv
<1> QED BY <1>1, Invariance, PTL

(* A checkout is fulfilled at most once, by its latest version, and never  *)
(* also refunded as a stale capture.                                       *)
THEOREM SingleFulfilment == Spec => []OneFulfilment
<1>1. ASSUME IInv PROVE OneFulfilment
  <2> SUFFICES ASSUME NEW a \in Attempts, orders[a]
               PROVE  /\ version[bound[a]] = "PAID" /\ Head(bound[a])
                      /\ ~refund[a]
                      /\ \A b \in Attempts \ {a} : ~orders[b]
    BY DEF OneFulfilment
  <2>1. \A b \in Attempts : orders[b] =>
          /\ payment[b] = "CAPTURED" /\ ~refund[b]
          /\ bound[b] # 0 /\ bound[b] \in Versions /\ version[bound[b]] = "PAID"
    BY <1>1 DEF IInv, TypeOK, MoneyAnswered, AttemptsBound, VersionFollows
  <2>2. \A v, w \in Versions :
          v < w /\ version[w] = "PAID" => version[v] # "PAID"
    BY <1>1 DEF IInv, PredecessorRetired, Exists, Retire
  <2>3. \A b \in Attempts \ {a} : ~orders[b]
    <3> SUFFICES ASSUME NEW b \in Attempts \ {a}, orders[b] PROVE FALSE
      OBVIOUS
    <3>1. bound[a] # bound[b]
      BY <1>1, <2>1 DEF IInv, OneAttemptPerVersion
    <3>2. bound[a] < bound[b] \/ bound[b] < bound[a]
      BY <2>1, <3>1, BoundsAssumption DEF Versions
    <3> QED BY <2>1, <2>2, <3>2
  <2>4. Head(bound[a])
    BY <1>1, <2>1 DEF IInv, PredecessorRetired, Head, Exists, Retire
  <2> QED BY <2>1, <2>3, <2>4
<1> QED BY <1>1, Invariance, PTL

-----------------------------------------------------------------------------
(* One provider order for each version.                                    *)

(* The grant is spent before the request is made, and nothing gives it     *)
(* back; a request that has been answered is never on the wire again.      *)
SentOnce ==
    \A a \in Attempts :
        /\ bound[a] = 0 => grant[a] = "NONE"
        /\ grant[a] # "CONSUMED" => call[a] = "idle" /\ placed[a] = 0
        /\ call[a] = "sending" => placed[a] = 0
        /\ placed[a] \in {0, 1}

(* The steps that touch neither the requests nor the grants.               *)
LEMMA SentElsewhere ==
    ASSUME SentOnce, UNCHANGED <<bound, grant, call, placed>>
    PROVE  SentOnce'
  BY DEF SentOnce

LEMMA SentStep == TypeOK /\ SentOnce /\ [Next]_vars => SentOnce'
<1> SUFFICES ASSUME TypeOK, SentOnce, [Next]_vars
             PROVE  SentOnce'
  OBVIOUS
<1>1. CASE Buyer
  <2>1. CASE \E v \in Versions, a \in Attempts : Admit(v, a)
    BY <2>1 DEF Admit, SpendApprovalAndEnqueue, NextAttempt, SentOnce, TypeOK,
                Versions, provider
  <2>2. CASE CancelCommits
    BY <2>2 DEF CancelCommits, SentOnce, TypeOK, provider
  <2> QED
    BY <1>1, <2>1, <2>2, SentElsewhere
       DEF Buyer, CreateCheckout, SupersedeCheckout, RecordApproval,
           RejectApproval, AdmitFindsChange, AdmitFindsNothing, CancelReads,
           InvalidateOpen, CancelDenied, AskStatus, BrowserCallback, kernel,
           work, provider
<1>2. ASSUME NEW a \in Attempts, CreateOrderWorker(a) PROVE SentOnce'
  <2>1. CASE ConsumeGrant(a)
    BY <2>1 DEF ConsumeGrant, Spendable, SentOnce, TypeOK, provider
  <2>2. ASSUME NEW answer \in Answers, ProviderAnswers(a, answer)
        PROVE  SentOnce'
    <3>1. /\ call' = [call EXCEPT ![a] = answer]
          /\ \E n \in {0, 1} : placed' = [placed EXCEPT ![a] = @ + n]
          /\ call[a] = "sending" /\ UNCHANGED <<bound, grant>>
      BY <2>2 DEF ProviderAnswers, kernel
    <3> QED BY <3>1 DEF SentOnce, TypeOK, Answers
  <2>3. CASE CrashInCall(a)
    <3>1. /\ call' = [call EXCEPT ![a] = "idle"]
          /\ UNCHANGED <<bound, grant>>
      BY <2>3 DEF CrashInCall, kernel
    <3>2. CASE call[a] = "sending"
      <4>1. \E n \in {0, 1} : placed' = [placed EXCEPT ![a] = @ + n]
        BY <2>3, <3>2 DEF CrashInCall
      <4> QED BY <3>1, <3>2, <4>1 DEF SentOnce, TypeOK
    <3>3. CASE call[a] # "sending"
      <4>1. placed' = [placed EXCEPT ![a] = @ + 0]
        BY <2>3, <3>3 DEF CrashInCall
      <4> QED BY <3>1, <4>1 DEF SentOnce, TypeOK
    <3> QED BY <3>2, <3>3
  <2>4. CASE RecordCreateOrderResult(a) \/ RecordConflict(a)
    <3>1. /\ call' = [call EXCEPT ![a] = "idle"]
          /\ UNCHANGED <<bound, grant, placed>>
      BY <2>4 DEF RecordCreateOrderResult, RecordConflict, kernel, provider
    <3> QED BY <3>1 DEF SentOnce, TypeOK
  <2>5. CASE RefuseCommand(a) \/ Resume(a)
    BY <2>5, SentElsewhere DEF RefuseCommand, Resume, kernel, provider
  <2> QED
    BY <1>2, <2>1, <2>2, <2>3, <2>4, <2>5 DEF CreateOrderWorker
<1>3. ASSUME NEW a \in Attempts, ReconcileWorker(a) \/ Provider(a) \/ TimePasses(a)
      PROVE  SentOnce'
  BY <1>3, SentElsewhere
     DEF ReconcileWorker, Provider, TimePasses, BeginRound, DropRound, Look,
         Conclude, ConcludeConflict, CrashInReconcile, BuyerPays,
         MerchantRefunds, ApplyWebhook, kernel, work, provider
<1>4. ASSUME NEW stale \in SUBSET Versions, Housekeeping(stale)
      PROVE  SentOnce'
  <2>1. /\ UNCHANGED <<bound, call, placed>>
        /\ \A a \in Attempts :
              /\ grant[a] # "ISSUED" => grant'[a] = grant[a]
              /\ grant[a] = "ISSUED" => grant'[a] \in {"REVOKED", "EXPIRED", "ISSUED"}
    BY <1>4 DEF Housekeeping, provider
  <2> QED BY <2>1 DEF SentOnce
<1>5. CASE UNCHANGED vars
  BY <1>5, SentElsewhere DEF vars, kernel, work, provider
<1> QED BY <1>1, <1>2, <1>3, <1>4, <1>5 DEF Next

(* Crashes, redeliveries and lost answers never create a second provider   *)
(* order for one approved version (handle_create_order).                   *)
THEOREM SingleProviderOrder == Spec => []OneProviderOrderPerVersion
<1>1. Init => SentOnce
  BY DEF Init, SentOnce
<1>2. IInv /\ SentOnce => OneProviderOrderPerVersion
  <2> SUFFICES ASSUME IInv, SentOnce, NEW a \in Attempts, NEW b \in Attempts
               PROVE  /\ placed[a] <= 1
                      /\ placed[a] # 0 /\ placed[b] # 0 /\ bound[a] = bound[b]
                           => a = b
    BY DEF OneProviderOrderPerVersion
  <2>1. placed[a] <= 1
    BY DEF SentOnce
  <2>2. placed[a] # 0 => bound[a] # 0
    BY DEF SentOnce
  <2> QED BY <2>1, <2>2 DEF IInv, OneAttemptPerVersion
<1> QED BY <1>1, <1>2, SentStep, TypeCorrect, Invariance, PTL DEF Spec
=============================================================================
