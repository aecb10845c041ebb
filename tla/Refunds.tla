------------------------------ MODULE Refunds ------------------------------
(***************************************************************************)
(* The refunds of one captured payment: admission against the capture      *)
(* ledger and the recording of results (transaction_kernel/refunds.py),    *)
(* the worker that sends a refund and the rounds that find out what became *)
(* of one whose answer was lost (action_executor/handlers/refund.py and    *)
(* reconcile.py), and the stale capture that refunds itself                *)
(* (handlers/stale_capture.py).  Each action is one database transaction,  *)
(* or one exchange with the provider between two of them.                  *)
(*                                                                         *)
(* A refund is its ordinal on the attempt (RefundLedger.next_sequence); a  *)
(* command is the refund it is about and a round, 0 for REFUND_EXECUTE.    *)
(***************************************************************************)
EXTENDS PaymentStates, FiniteSetsExt

CONSTANTS
    MaxRefunds,         \* bound on the refunds ever admitted
    Captured,           \* the captured amount, in units of money
    Rounds,             \* RECONCILIATION_ATTEMPT_BOUND
    Workers,
    MaxFaults,          \* bound on crashes and lost leases together
    Weathers,           \* the environments considered, see Weather
    NoJob               \* an idle worker

ASSUME RefundsAssumption ==
    /\ MaxRefunds \in Nat /\ Captured \in Nat \ {0}
    /\ Rounds \in Nat \ {0} /\ MaxFaults \in Nat

Refund == 1 .. MaxRefunds
Command == [r : Refund, round : 0 .. Rounds]

(* What the environment of a behaviour may do besides losing answers and   *)
(* killing workers:                                                        *)
(*   stale    - the capture is of a checkout that can no longer be         *)
(*              fulfilled, so the platform refunds it unasked;             *)
(*   late     - a request may reach the provider after its sender gave up; *)
(*   overlap  - a lease may run out under a worker that is still at work;  *)
(*   expiry   - a grant may outlive REFUND_GRANT_TTL_SECONDS unconsumed;   *)
(*   evidence - reports of the capture keep arriving, by webhook or from a *)
(*              payment reconciliation round still queued.                 *)
Weather == [stale : BOOLEAN, late : BOOLEAN, overlap : BOOLEAN,
            expiry : BOOLEAN, evidence : BOOLEAN]

ASSUME WeathersAssumption == Weathers \subseteq Weather

RefundStatus ==
    {"NONE", "PENDING", "PROCESSED", "FAILED", "UNKNOWN", "RECONCILING",
     "ESCALATED"}
RESERVING_STATUSES == RefundStatus \ {"NONE", "FAILED"}
OpenStatuses == {"PENDING", "UNKNOWN", "RECONCILING"}

VARIABLES
    weather,    \* chosen once
    attempt,    \* payment_attempts.status
    order,      \* orders.status
    status,     \* refunds.status of each refund, NONE before its admission
    amount,     \* refunds.amount_minor
    named,      \* refunds.provider_refund_id is recorded
    grant,      \* the refund's Execution Grant
    withheld,   \* a case was opened instead of an automatic refund
    queue,      \* how many of each command are outstanding in the outbox
    job,        \* what each worker is doing
    faults,     \* crashes and lost leases so far
    provider,   \* what the provider knows of each refund
    outside,    \* refunded by the merchant at the provider, behind our back
    wire,       \* requests given up on that may still reach the provider
    sent        \* history: requests ever sent for each refund

rows == <<attempt, order, status, amount, named, grant, withheld>>
world == <<provider, outside, wire, sent>>
vars == <<weather, rows, queue, job, faults, world>>

ProviderStatus == {"absent", "pending", "processed", "failed"}
Job == [c : Command, step : {"send", "record", "fetch", "look_up", "apply"},
        got : {"none", "unknown", "echo", "processed", "pending", "failed",
               "mismatch", "total", "no_total"},
        total : Nat, held : BOOLEAN]

TypeOK ==
    /\ weather \in Weathers
    /\ attempt \in PaymentState
    /\ order \in {"NONE", "CONFIRMED", "PARTIALLY_REFUNDED", "REFUNDED"}
    /\ status \in [Refund -> RefundStatus]
    /\ amount \in [Refund -> 0 .. Captured]
    /\ named \in [Refund -> BOOLEAN]
    /\ grant \in [Refund -> {"NONE", "ISSUED", "CONSUMED", "EXPIRED"}]
    /\ withheld \in BOOLEAN
    /\ queue \in [Command -> Nat]
    /\ job \in [Workers -> Job \cup {NoJob}]
    /\ faults \in 0 .. MaxFaults
    /\ provider \in [Refund -> ProviderStatus]
    /\ outside \in 0 .. Captured
    /\ wire \subseteq Refund
    /\ sent \in [Refund -> Nat]

Init ==
    /\ weather \in Weathers
    /\ attempt = IF weather.stale THEN "STALE_CAPTURE" ELSE "CAPTURED"
    /\ order = IF weather.stale THEN "NONE" ELSE "CONFIRMED"
    /\ status = [r \in Refund |-> "NONE"]
    /\ amount = [r \in Refund |-> 0]
    /\ named = [r \in Refund |-> FALSE]
    /\ grant = [r \in Refund |-> "NONE"]
    /\ withheld = FALSE
    /\ queue = [c \in Command |-> 0]
    /\ job = [w \in Workers |-> NoJob]
    /\ faults = 0
    /\ provider = [r \in Refund |-> "absent"]
    /\ outside = 0
    /\ wire = {}
    /\ sent = [r \in Refund |-> 0]

-----------------------------------------------------------------------------
(* The capture ledger: sums over the attempt's committed refund rows.      *)

Total(S) == MapThenSumSet(LAMBDA r : amount[r], S)
Reserved == Total({r \in Refund : status[r] \in RESERVING_STATUSES})
SettledIn(st) == Total({r \in Refund : st[r] = "PROCESSED"})
Remaining == Captured - Reserved
Overdrawn(st) ==                                \* _ledger raises
    Total({r \in Refund : st[r] \in RESERVING_STATUSES}) > Captured

(* What the provider reports as refunded of the payment.                   *)
ProviderTotal ==
    outside
      + Total({r \in Refund : provider[r] \in {"pending", "processed"}})

(* _settled_target: a fact about the ledger, not about the one refund.     *)
SettledTarget(st) ==
    IF SettledIn(st) = Captured THEN "REFUNDED" ELSE "PARTIALLY_REFUNDED"

(* The row, its attempt and the order move together.                       *)
MutSettle(st, target) ==                \* an order is only refunded once
    /\ status' = st
    /\ attempt' = target
    /\ order' = IF order = "CONFIRMED" /\ target \in {"REFUNDED", "PARTIALLY_REFUNDED"}
                THEN target ELSE order
Settle(st, target) ==
    /\ status' = st
    /\ attempt' = target
    /\ order' = IF order # "NONE" /\ target \in {"REFUNDED", "PARTIALLY_REFUNDED"}
                THEN target ELSE order
Mark(r, s) == [status EXCEPT ![r] = s]

Enqueue(r, round) == [queue EXCEPT ![[r |-> r, round |-> round]] = @ + 1]
NextRefund(r) == status[r] = "NONE" /\ \A q \in 1 .. r - 1 : status[q] # "NONE"

(* _admit: one refund at a time, measured against what is still refundable,*)
(* while no other grant of the attempt is live.                            *)
NoLiveGrant == \A q \in Refund : grant[q] # "ISSUED"
MutAdmissible(a) ==                     \* measured against the whole capture
    /\ PaymentEdge(attempt, "REFUND_PENDING")
    /\ NoLiveGrant
    /\ a \in 1 .. Captured
MutAdmissibleUnknown(a) ==              \* an unknown outcome does not hold it up
    /\ PaymentEdge(attempt, "REFUND_PENDING") \/ attempt = "REFUND_UNKNOWN"
    /\ NoLiveGrant
    /\ a \in 1 .. Remaining
Admissible(a) ==
    /\ PaymentEdge(attempt, "REFUND_PENDING")
    /\ NoLiveGrant
    /\ ~Overdrawn(status)
    /\ a \in 1 .. Remaining

(* One row, one grant and the command that spends it, in one transaction.  *)
Admit(r, a) ==
    /\ NextRefund(r)
    /\ Admissible(a)
    /\ status' = Mark(r, "PENDING")
    /\ amount' = [amount EXCEPT ![r] = a]
    /\ grant' = [grant EXCEPT ![r] = "ISSUED"]
    /\ attempt' = "REFUND_PENDING"
    /\ queue' = Enqueue(r, 0)
    /\ UNCHANGED <<weather, order, named, withheld, job, faults, world>>

(* request_refund: a merchant refunds an order, in full or in part.  The   *)
(* window and the partial refunds of the terms at sale may refuse any of   *)
(* it, which is the step not taken.                                        *)
RequestRefund(r, a) == order # "NONE" /\ Admit(r, a)

(* admit_stale_refund, whenever a report of the capture is applied to an   *)
(* attempt that reads STALE_CAPTURE.  Money already returned behind the    *)
(* platform's back opens a case; a stale refund admitted before and not    *)
(* failed is not admitted twice; what is left is refunded in full.         *)
StaleRefundExists == \E r \in Refund : status[r] \notin {"NONE", "FAILED"}
AdmitStaleRefund(r) ==
    /\ attempt = "STALE_CAPTURE"
    /\ ~StaleRefundExists
    /\ Admit(r, Remaining)
WithholdStaleRefund ==
    /\ attempt = "STALE_CAPTURE"
    /\ outside > 0 /\ ~withheld
    /\ withheld' = TRUE
    /\ UNCHANGED <<weather, attempt, order, status, amount, named, grant,
                   queue, job, faults, world>>

(* The sweep, or the consumption itself, finds the grant past its time.    *)
ExpireGrant(r) ==
    /\ weather.expiry /\ grant[r] = "ISSUED"
    /\ grant' = [grant EXCEPT ![r] = "EXPIRED"]
    /\ UNCHANGED <<weather, attempt, order, status, amount, named, withheld,
                   queue, job, faults, world>>

-----------------------------------------------------------------------------
(* The worker's side of the outbox.  A command is leased to one worker at  *)
(* a time unless a lease was lost; the holder's report removes it.         *)

Leased(c) == {w \in Workers : job[w] # NoJob /\ job[w].held /\ job[w].c = c}
Free(c) == queue[c] > Cardinality(Leased(c))
MutRemoved(w, q) == [q EXCEPT ![job[w].c] = @ - 1]      \* unfenced
Removed(w, q) == IF job[w].held THEN [q EXCEPT ![job[w].c] = @ - 1] ELSE q

Start(w, c, step) ==
    job' = [job EXCEPT ![w] = [c |-> c, step |-> step, got |-> "none",
                               total |-> 0, held |-> TRUE]]
(* The answer a worker carries from the provider into its transaction.     *)
Carry(w, step, got, total) ==
    job' = [job EXCEPT ![w].step = step, ![w].got = got, ![w].total = total]
(* complete, or fail with a code that is never retried: the command leaves *)
(* the queue and q is what else the handler did to it.                     *)
End(w, q) ==
    /\ job' = [job EXCEPT ![w] = NoJob]
    /\ queue' = Removed(w, q)

(* The process died, or the row was released for another delivery.         *)
Crash(w) ==
    /\ job[w] # NoJob /\ faults < MaxFaults
    /\ faults' = faults + 1
    /\ job' = [job EXCEPT ![w] = NoJob]
    /\ wire' = IF weather.late /\ job[w].step = "send"
               THEN wire \cup {job[w].c.r} ELSE wire
    /\ UNCHANGED <<weather, rows, queue, provider, outside, sent>>
LoseLease(w) ==
    /\ weather.overlap /\ job[w] # NoJob /\ job[w].held
    /\ faults < MaxFaults
    /\ faults' = faults + 1
    /\ job' = [job EXCEPT ![w].held = FALSE]
    /\ UNCHANGED <<weather, rows, queue, world>>

-----------------------------------------------------------------------------
(* handle_refund_execute: consume the grant, send, record.                 *)

(* The grant is consumed in a transaction of its own, before the request.  *)
ConsumeGrant(w, c) ==
    /\ grant[c.r] = "ISSUED"
    /\ grant' = [grant EXCEPT ![c.r] = "CONSUMED"]
    /\ Start(w, c, "send")
    /\ UNCHANGED <<attempt, order, status, amount, named, withheld, queue>>

(* A grant refused: the command is finished and the row is left as it is.  *)
RefuseGrant(w, c) ==
    /\ grant[c.r] = "EXPIRED"
    /\ queue' = [queue EXCEPT ![c] = @ - 1]
    /\ UNCHANGED <<rows, job>>

(* _resume_after_consumed_grant: an earlier delivery spent the grant, so   *)
(* this one never sends; whatever became of the request is looked up.      *)
MutResumeConsumed(w, c) ==              \* the request is sent again
    /\ grant[c.r] = "CONSUMED"
    /\ Start(w, c, "send")
    /\ UNCHANGED <<rows, queue>>
ResumeConsumed(w, c) ==
    /\ grant[c.r] = "CONSUMED"
    /\ IF status[c.r] = "PENDING"
       THEN Settle(Mark(c.r, "UNKNOWN"), "REFUND_UNKNOWN")
       ELSE UNCHANGED <<status, attempt, order>>
    /\ queue' = LET q == IF status[c.r] \in {"PENDING", "UNKNOWN"}
                         THEN Enqueue(c.r, 1) ELSE queue
                IN  [q EXCEPT ![c] = @ - 1]
    /\ UNCHANGED <<amount, named, grant, withheld, job>>
TakeExecute(w, c) ==
    /\ job[w] = NoJob /\ c.round = 0 /\ Free(c)
    /\ ConsumeGrant(w, c) \/ RefuseGrant(w, c) \/ ResumeConsumed(w, c)
    /\ UNCHANGED <<weather, faults, world>>

(* What the provider does with a request that reaches it.  The key in      *)
(* X-Refund-Idempotency is the row's, so a repeat finds the refund it made;*)
(* an amount the payment cannot bear, or any request at whim, is refused.  *)
Accepts(r, s) ==
    IF provider[r] # "absent" THEN s = provider[r]
    ELSE \/ s \in {"pending", "processed"}
            /\ amount[r] + ProviderTotal <= Captured
         \/ s = "absent"
Lands(r, s) == provider' = [provider EXCEPT ![r] = s]

(* execute_refund: one request.  An answer is a 2xx naming the refund, or  *)
(* a refusal; without one the outcome is unknown, whether it landed or not,*)
(* and so it is when the 2xx names a refund that is not the one planned: an*)
(* echo, whose id is kept.                                                 *)
Answered(s) == IF s = "absent" THEN "failed" ELSE s
Send(w) ==
    /\ job[w] # NoJob /\ job[w].step = "send"
    /\ LET r == job[w].c.r IN
       /\ sent' = [sent EXCEPT ![r] = @ + 1]
       /\ \/ \E s \in ProviderStatus : \E got \in {Answered(s), "unknown", "echo"} :
                /\ Accepts(r, s) /\ Lands(r, s)
                /\ Carry(w, "record", got, 0)
                /\ UNCHANGED wire
          \/ /\ weather.late
             /\ wire' = wire \cup {r}
             /\ Carry(w, "record", "unknown", 0)
             /\ UNCHANGED provider
    /\ UNCHANGED <<weather, rows, queue, faults, outside>>

(* record_refund_result and the follow-up, in one transaction.  A refund   *)
(* accepted but not settled keeps its provider id and goes on to           *)
(* reconciliation like one whose answer was lost.                          *)
MutOutcome(got) == IF got = "failed" THEN "FAILED"     \* accepted is settled
                   ELSE IF got = "unknown" THEN "UNKNOWN" ELSE "PROCESSED"
Outcome(got) == IF got = "failed" THEN "FAILED"
                ELSE IF got = "processed" THEN "PROCESSED" ELSE "UNKNOWN"
MutUnsettled(got) == got = "unknown"
Unsettled(got) == got \in {"pending", "unknown", "echo"}
RecordResult(w, r, got) ==
    LET s == Outcome(got) IN
    /\ Settle(Mark(r, s),
              IF s = "PROCESSED" THEN SettledTarget(Mark(r, s))
              ELSE IF s = "FAILED" THEN "REFUND_FAILED" ELSE "REFUND_UNKNOWN")
    /\ named' = [named EXCEPT ![r] = got \in {"processed", "pending", "echo"}]
    /\ End(w, IF Unsettled(got) THEN Enqueue(r, 1) ELSE queue)

(* The row was settled or given up by another delivery meanwhile.  A second*)
(* report of an unknown outcome adds the provider's id, if it has one, and *)
(* asks again; any other is refused, and the command is buried with it.    *)
RecordTooLate(w, r, got) ==
    /\ IF got \in {"unknown", "echo"} /\ status[r] = "UNKNOWN"
       THEN /\ End(w, Enqueue(r, 1))
            /\ named' = [named EXCEPT ![r] = @ \/ got = "echo"]
       ELSE End(w, queue) /\ UNCHANGED named
    /\ UNCHANGED <<status, attempt, order>>
Record(w) ==
    /\ job[w] # NoJob /\ job[w].step = "record"
    /\ LET r == job[w].c.r IN
       IF status[r] = "PENDING" THEN RecordResult(w, r, job[w].got)
       ELSE RecordTooLate(w, r, job[w].got)
    /\ UNCHANGED <<weather, amount, grant, withheld, faults, world>>

-----------------------------------------------------------------------------
(* handle_reconcile_refund: one bounded round.                             *)

(* Only an unresolved refund is worth a round; the worker goes to ask with *)
(* what this transaction read: the refund's provider id, if there is one.  *)
TakeRound(w, c) ==
    /\ job[w] = NoJob /\ c.round # 0 /\ Free(c)
    /\ IF status[c.r] \in {"UNKNOWN", "RECONCILING"}
       THEN /\ Start(w, c, IF named[c.r] THEN "look_up" ELSE "fetch")
            /\ UNCHANGED queue
       ELSE queue' = [queue EXCEPT ![c] = @ - 1] /\ UNCHANGED job
    /\ UNCHANGED <<weather, rows, faults, world>>

(* A refund known by its provider id is read by it, any other only through *)
(* the payment's refunded total.  Either read may fail, or name something  *)
(* else.  A refund that failed at the provider has no verdict of its own.  *)
Fetch(w) ==
    /\ job[w] # NoJob
    /\ \/ /\ job[w].step = "fetch"
          /\ \/ Carry(w, "apply", "total", ProviderTotal)
             \/ \E got \in {"no_total", "mismatch"} : Carry(w, "apply", got, 0)
       \/ /\ job[w].step = "look_up"
          /\ \/ /\ provider[job[w].c.r] \in {"pending", "processed"}
                /\ Carry(w, "apply", provider[job[w].c.r], 0)
             \/ \E got \in {"unknown", "mismatch"} : Carry(w, "apply", got, 0)
    /\ UNCHANGED <<weather, rows, queue, faults, world>>

(* reconcile_refund: refused unless the row and its attempt are both still *)
(* unresolved.                                                             *)
Reconcilable(r) ==
    /\ status[r] \in {"UNKNOWN", "RECONCILING"}
    /\ attempt \in {"REFUND_UNKNOWN", "RECONCILING"}

(* escalate_refund: the row, and its attempt unless it is frozen already.  *)
Escalatable(r) ==
    /\ status[r] \in {"UNKNOWN", "RECONCILING", "FAILED", "ESCALATED"}
    /\ attempt \in {"REFUND_UNKNOWN", "RECONCILING", "REFUND_FAILED",
                    "ESCALATED"}
Escalate(r) == Settle(Mark(r, "ESCALATED"), "ESCALATED")

(* The end of a transaction that raised: nothing of it is kept, and the    *)
(* command is buried.                                                      *)
Refused(w) == End(w, queue) /\ UNCHANGED <<status, attempt, order>>

MutAbsent(r, total) == total <= Captured - Remaining    \* reserved, not settled
Absent(r, total) == total <= SettledIn(status)

(* _resolve_refund once the answer proves nothing: another round, or a     *)
(* person.                                                                 *)
AskAgain(w, r, st, target) ==
    IF job[w].c.round < Rounds
    THEN Settle(st, target) /\ End(w, Enqueue(r, job[w].c.round + 1))
    ELSE Settle([st EXCEPT ![r] = "ESCALATED"], "ESCALATED") /\ End(w, queue)

(* Without the payment's total the ledger is read all the same.            *)
ApplyTotal(w, r) ==
    IF Overdrawn(status) THEN Refused(w)
    ELSE IF job[w].got = "total" /\ Absent(r, job[w].total)
         THEN IF Reconcilable(r) /\ status[r] = "UNKNOWN"
              THEN Settle(Mark(r, "FAILED"), "REFUND_FAILED") /\ End(w, queue)
              ELSE Refused(w)
    ELSE IF job[w].c.round < Rounds \/ Escalatable(r)
         THEN AskAgain(w, r, status, attempt)
    ELSE Refused(w)

(* _reconcile_known_refund: the provider's own word on this very refund.   *)
ApplyKnown(w, r, got) ==
    CASE got = "mismatch" ->
            IF Escalatable(r) THEN Escalate(r) /\ End(w, queue) ELSE Refused(w)
      [] got = "processed" ->
            IF Reconcilable(r) /\ ~Overdrawn(status)
            THEN /\ Settle(Mark(r, "PROCESSED"),
                           SettledTarget(Mark(r, "PROCESSED")))
                 /\ End(w, queue)
            ELSE Refused(w)
      [] got = "pending" ->
            IF Reconcilable(r)
            THEN AskAgain(w, r, Mark(r, "RECONCILING"), "RECONCILING")
            ELSE Refused(w)
      [] OTHER ->
            IF job[w].c.round < Rounds \/ Escalatable(r)
            THEN AskAgain(w, r, status, attempt)
            ELSE Refused(w)
Apply(w) ==
    /\ job[w] # NoJob /\ job[w].step = "apply"
    /\ LET r == job[w].c.r IN
       IF job[w].got \in {"total", "no_total"} THEN ApplyTotal(w, r)
       ELSE ApplyKnown(w, r, job[w].got)
    /\ UNCHANGED <<weather, amount, named, grant, withheld, faults, world>>

-----------------------------------------------------------------------------
(* The provider, and the merchant at the provider's own console.           *)

ProviderSettles(r) ==
    /\ provider[r] = "pending"
    /\ \E s \in {"processed", "failed"} : Lands(r, s)
    /\ UNCHANGED <<weather, rows, queue, job, faults, outside, wire, sent>>
LateLand(r) ==
    /\ r \in wire
    /\ wire' = wire \ {r}
    /\ \E s \in ProviderStatus : Accepts(r, s) /\ Lands(r, s)
    /\ UNCHANGED <<weather, rows, queue, job, faults, outside, sent>>
RefundOutside(a) ==
    /\ ProviderTotal + a <= Captured
    /\ outside' = outside + a
    /\ UNCHANGED <<weather, rows, queue, job, faults, provider, wire, sent>>

(* apply_provider_evidence: the capture is reported once more.             *)
CaptureReported ==
    /\ weather.evidence
    /\ attempt' = MonotonicApply(attempt, IF weather.stale THEN "STALE_CAPTURE"
                                          ELSE "CAPTURED")
    /\ UNCHANGED <<weather, order, status, amount, named, grant, withheld,
                   queue, job, faults, world>>
(* handle_reconcile_payment: a round of the payment begins on an attempt   *)
(* whose refund is the unknown one, and may be its last.                   *)
PaymentRound ==
    /\ weather.evidence
    /\ \/ attempt = "REFUND_UNKNOWN" /\ attempt' = "RECONCILING"
       \/ attempt = "RECONCILING" /\ attempt' = "ESCALATED"
    /\ UNCHANGED <<weather, order, status, amount, named, grant, withheld,
                   queue, job, faults, world>>

-----------------------------------------------------------------------------
Admission ==
    \/ \E r \in Refund, a \in 1 .. Captured : RequestRefund(r, a)
    \/ \E r \in Refund : AdmitStaleRefund(r)
    \/ WithholdStaleRefund
Work ==
    \E w \in Workers :
        \/ \E c \in Command : TakeExecute(w, c) \/ TakeRound(w, c)
        \/ Send(w) \/ Record(w) \/ Fetch(w) \/ Apply(w)
Environment ==
    \/ \E w \in Workers : Crash(w) \/ LoseLease(w)
    \/ \E r \in Refund : ExpireGrant(r) \/ ProviderSettles(r) \/ LateLand(r)
    \/ \E a \in 1 .. Captured : RefundOutside(a)
    \/ CaptureReported \/ PaymentRound

Next == Admission \/ Work \/ Environment
Spec == Init /\ [][Next]_vars

(* The workers poll for as long as the system runs.  Nobody is obliged to  *)
(* ask for a refund, and the provider is not obliged to settle one.        *)
FairSpec == Spec /\ WF_vars(Work)

-----------------------------------------------------------------------------
(* No refund is ever sent twice, however often its command is delivered and*)
(* whoever dies in between (handlers/refund.py: "Never resent").           *)
SentAtMostOnce == \A r \in Refund : sent[r] <= 1

(* While no report of the capture interferes, an attempt has at most one   *)
(* refund whose outcome is open (_admit: "one refund in flight per         *)
(* attempt; uncertainty reconciles, never re-admits").                     *)
Open == {r \in Refund : status[r] \in OpenStatuses}
OneOpenRefund == ~weather.evidence => Cardinality(Open) <= 1

(* A refund the ledger calls failed, which therefore reserves nothing and  *)
(* may be admitted again, is one the provider does not have: provided no   *)
(* request outlives its sender, no lease is lost, and nothing but its own  *)
(* refund moves the attempt of a sale.                                     *)
Undisturbed == ~weather.late /\ ~weather.overlap /\ (weather.evidence => weather.stale)
AbsenceIsTrue ==
    Undisturbed =>
        \A r \in Refund : status[r] = "FAILED" =>
            provider[r] \in {"absent", "failed"}

(* Refunds reserved never exceed the capture, so that the ledger can be    *)
(* read at all (_ledger raises otherwise), provided no lease is lost.      *)
ReservedWithinCapture == ~weather.overlap => ~Overdrawn(status)

(* The order beneath the payment says what the settled refunds add up to.  *)
OrderTellsSettlement ==
    order # "NONE" =>
        order = IF SettledIn(status) = 0 THEN "CONFIRMED"
                ELSE IF SettledIn(status) = Captured THEN "REFUNDED"
                ELSE "PARTIALLY_REFUNDED"

(* Once no worker has anything to do, the ledger's settled refunds are the *)
(* ones the provider processed, except for those a person was asked to look*)
(* at: provided the capture is not reported again, no grant expires, and   *)
(* leases and requests keep their time.                                    *)
Calm == ~weather.late /\ ~weather.overlap /\ ~weather.expiry /\ ~weather.evidence
Idle == (\A w \in Workers : job[w] = NoJob) /\ \A c \in Command : queue[c] = 0
BooksAgree ==
    Calm /\ Idle => \A r \in Refund :
        /\ status[r] = "PROCESSED" => provider[r] = "processed"
        /\ provider[r] = "processed" => status[r] \in {"PROCESSED", "ESCALATED"}

(* In calm weather every open refund is settled, failed or handed to a     *)
(* person within the bound of rounds.                                      *)
RefundIsAnswered ==
    \A r \in Refund :
        Calm /\ status[r] \in OpenStatuses ~> status[r] \notin OpenStatuses

(* What _admit says without a condition: "one refund in flight per attempt;*)
(* uncertainty reconciles, never re-admits".                               *)
UncertaintyNeverReadmits ==
    [][\A r \in Refund :
        status[r] = "NONE" /\ status'[r] # "NONE" => Open = {}]_status

(* What reconcile_refund says of a refund found absent: "what the caller   *)
(* must do is a fresh admit_refund".  Every report of a stale capture is   *)
(* an occasion to do so.                                                   *)
ReportedSpec == FairSpec /\ \A r \in Refund : WF_vars(AdmitStaleRefund(r))
AbsentIsAdmittedAnew ==
    weather.stale /\ attempt = "REFUND_FAILED" ~> attempt # "REFUND_FAILED"
=============================================================================
