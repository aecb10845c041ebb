-------------------------- MODULE ReserveAuthority --------------------------
(* Reserve Pay: a buyer's delegated authority and the debits made under it   *)
(* (transaction_kernel/authority.py, reserve.py, admission.py, safe_mode.py, *)
(* action_executor/handlers/reserve.py).                                     *)
(*                                                                           *)
(* Admission allocates the amount against the authority, the worker sends    *)
(* the debit to a simulated provider and settles the allocation from what    *)
(* the attempt then says. The buyer revokes the authority or cancels the     *)
(* purchase, an operator throws Safe Mode, the payment window closes, and a  *)
(* fixture decides what the provider answers.                                *)
(*                                                                           *)
(* A transaction begins, waits for its locks, and is one step once it has    *)
(* the last. The locks are the mode gate (shared by whoever moves money),    *)
(* the checkout version and the authority row, taken in this order by        *)
(* everybody but housekeeping, which closes many purchases in one            *)
(* transaction. now() is when the transaction began: whether the permission  *)
(* has lapsed is judged by it, the window of the payment by                  *)
(* clock_timestamp(), which goes on.                                         *)
(* A purchase is one version of one checkout, with at most one attempt.      *)
EXTENDS PaymentStates, FiniteSetsExt

CONSTANTS Authorities,    \* the permissions this buyer may give this merchant, 1..n
          Lapsing,        \* those with an expires_at
          Ceiling,        \* max_amount_minor
          PurchaseLimit,  \* per_purchase_limit_minor
          Purchases,
          Price,          \* the amount of each purchase
          Scripted,       \* the purchases whose answer the simulator route changes
          Workers,
          Rounds,         \* reads of an unknown outcome before they stop, 6 in the code
          MaxFixtures,    \* bound: answers chosen through the simulator route
          MaxDisturbances \* bound: revocations, cancellations, mode changes, lapses
                          \* of an authority and crashes, in any mixture

ASSUME AuthorityAssumption == Authorities \subseteq Nat \ {0} /\ Lapsing \subseteq Authorities
ASSUME AmountAssumption ==
    /\ Ceiling \in Nat \ {0} /\ PurchaseLimit \in 1..Ceiling
    /\ Price \in [Purchases -> Nat \ {0}] /\ Scripted \subseteq Purchases
ASSUME BoundAssumption == {Rounds, MaxFixtures, MaxDisturbances} \subseteq Nat

VARIABLES
    authority,   \* delegated_authorities
    version,     \* the status of each purchase's checkout version
    attempt,     \* payment_attempts with its grant
    due,         \* the purchases whose payment window is over
    queue,       \* commands <<purchase, round, chain>>; round 0 is RESERVE_DEBIT
    worker,      \* the command of each worker, with the clock of its transaction
    paying,      \* the pay request of each purchase, with the same
    cancelling,  \* what each buyer's cancellation read before its locks
    sweep,       \* the housekeeping transaction
    mode,        \* the newest operating-mode record of each scope
    used         \* how much of each bound is spent

vars == <<authority, version, attempt, due, queue, worker, paying, cancelling, sweep, mode, used>>
money == <<authority, version, attempt>>
requests == <<paying, cancelling>>

AuthorityStatus == {"NONE", "ACTIVE", "EXHAUSTED", "REVOKED"}
Outcomes == {"captured", "failed", "unknown"}
OpenStatuses == {"CREATED", "UNKNOWN"}

NoAttempt == [status |-> "NONE", of |-> 0, epoch |-> 0, alloc |-> "NONE",
              outcome |-> "captured", grant |-> "NONE", closed |-> FALSE]
NotPaying == [of |-> 0, epoch |-> 0, late |-> FALSE]
NoSweep == [todo |-> {}, versions |-> {}, authorities |-> {}]
IdleWorker == [cmd |-> <<>>, late |-> FALSE, locked |-> FALSE]

Init ==
    /\ authority = [a \in Authorities |->
                     [status |-> "NONE", epoch |-> 0, consumed |-> 0, expired |-> FALSE]]
    /\ version = [p \in Purchases |-> "APPROVAL_REQUIRED"]
    /\ attempt = [p \in Purchases |-> NoAttempt]
    /\ due = {}
    /\ queue = {}
    /\ worker = [w \in Workers |-> IdleWorker]
    /\ paying = [p \in Purchases |-> NotPaying]
    /\ cancelling = [p \in Purchases |-> "idle"]
    /\ sweep = NoSweep
    /\ mode = [tenant |-> "none", global |-> "none", last |-> "none"]
    /\ used = [fixtures |-> 0, disturbances |-> 0]

-----------------------------------------------------------------------------
\* Locks, the clock and the operating mode.

At(w) == worker[w].cmd[1]
Round(w) == worker[w].cmd[2]
Busy(w) == worker[w].cmd # <<>>
Locked(w) == worker[w].locked
GateFree == \A w \in Workers : ~Locked(w)
VersionFree(p) == p \notin sweep.versions /\ \A w \in Workers : Locked(w) => At(w) # p
AuthorityFree(a) == a \notin sweep.authorities

\* one of the bounded events happens
Disturb ==
    /\ used.disturbances < MaxDisturbances
    /\ used' = [used EXCEPT !.disturbances = @ + 1]

Due(p) == p \in due
Live(a) == authority[a].status \in {"ACTIVE", "EXHAUSTED"}
Total(purchases) == MapThenSumSet(LAMBDA p : Price[p], purchases)
MovedIfLegal(s, t) == IF CheckoutEdge(s, t) THEN t ELSE s

\* The tenant's own record decides, except that a later global SAFE_MODE covers it.
SafeMode ==
    IF mode.tenant = "none" THEN mode.global = "SAFE_MODE"
    ELSE mode.tenant = "SAFE_MODE" \/ (mode.global = "SAFE_MODE" /\ mode.last = "global")

-----------------------------------------------------------------------------
\* What one purchase's transaction leaves behind: its attempt, its version and
\* the authority, to which a failed debit returns its allocation.

Restored(au, amount) ==
    [au EXCEPT !.consumed = @ - amount, !.status = IF @ = "EXHAUSTED" THEN "ACTIVE" ELSE @]

\* settle_allocation: derived from the attempt's status, from HELD only. An EXPIRED
\* attempt whose grant was consumed, which it leaves alone, does not occur: only
\* a debit that was never sent expires.
SettledAs(alloc, status) ==
    IF alloc # "HELD" THEN alloc
    ELSE IF status \in {"CAPTURED", "STALE_CAPTURE"} THEN "SPENT"
    ELSE IF status \in {"FAILED", "EXPIRED"} THEN "RELEASED" ELSE alloc

Writes(p, record, checkout) ==
    LET a == record.of
        alloc == SettledAs(record.alloc, record.status)
    IN  /\ attempt' = [attempt EXCEPT ![p] = [record EXCEPT !.alloc = alloc]]
        /\ version' = [version EXCEPT ![p] = checkout]
        /\ authority' = IF alloc = "RELEASED" /\ record.alloc = "HELD"
                        THEN [authority EXCEPT ![a] = Restored(@, Price[p])] ELSE authority

-----------------------------------------------------------------------------
\* The buyer.

\* One live permission for a buyer and merchant (uq_reserve_live_buyer_merchant).
GrantAuthority(a) ==
    /\ authority[a].status = "NONE" /\ ~SafeMode
    /\ \A b \in Authorities : ~Live(b) /\ (b < a => authority[b].status # "NONE")
    /\ authority' = [authority EXCEPT ![a].status = "ACTIVE"]
    /\ UNCHANGED <<version, attempt, due, queue, worker, requests, sweep, mode, used>>

Revoke(a) ==
    /\ authority[a].status # "NONE" /\ AuthorityFree(a)
    /\ authority' = [authority EXCEPT ![a].status = "REVOKED", ![a].epoch = @ + 1]
    /\ Disturb
    /\ UNCHANGED <<version, attempt, due, queue, worker, requests, sweep, mode>>

\* The reviewed bill is paid under the epoch its page showed. The transaction's
\* clock stands still from here, while it waits; it has its locks in one step,
\* for nobody who waits for its version has what it waits for.
BeginPay(p, a) ==
    /\ version[p] = "APPROVAL_REQUIRED" /\ paying[p] = NotPaying /\ authority[a].status # "NONE"
    /\ paying' = [paying EXCEPT ![p] = [of |-> a, epoch |-> authority[a].epoch,
                                       late |-> authority[a].expired]]
    /\ UNCHANGED <<money, due, queue, worker, cancelling, sweep, mode, used>>

\* mutant: the debit is not asked whether its permission had lapsed
MutCovers(r, p) ==
    LET au == authority[r.of]
    IN  /\ au.status = "ACTIVE" /\ au.epoch = r.epoch
        /\ Price[p] <= PurchaseLimit /\ au.consumed + Price[p] <= Ceiling
Covers(r, p) ==
    LET au == authority[r.of]
    IN  /\ au.status = "ACTIVE" /\ au.epoch = r.epoch /\ ~r.late
        /\ Price[p] <= PurchaseLimit /\ au.consumed + Price[p] <= Ceiling

Permitted(p) == ~SafeMode /\ Covers(paying[p], p)

Decides(p) ==
    /\ paying[p] # NotPaying /\ VersionFree(p) /\ version[p] = "APPROVAL_REQUIRED"
    /\ AuthorityFree(paying[p].of)

\* The version was cancelled while it waited.
PayRefused(p) ==
    /\ paying[p] # NotPaying /\ VersionFree(p) /\ version[p] # "APPROVAL_REQUIRED"
    /\ paying' = [paying EXCEPT ![p] = NotPaying]
    /\ UNCHANGED <<money, due, queue, worker, cancelling, sweep, mode, used>>

\* The approval stays recorded: this version is not paid for with Reserve again.
Deny(p) ==
    /\ Decides(p) /\ ~Permitted(p)
    /\ version' = [version EXCEPT ![p] = "APPROVED"]
    /\ paying' = [paying EXCEPT ![p] = NotPaying]
    /\ UNCHANGED <<authority, attempt, due, queue, worker, cancelling, sweep, mode, used>>

\* mutant: a debit that takes the rest leaves the authority usable
MutExhausts(taken) == taken > Ceiling
Exhausts(taken) == taken >= Ceiling

Admit(p) ==
    LET a == paying[p].of
        taken == authority[a].consumed + Price[p]
    IN  /\ Decides(p) /\ Permitted(p)
        /\ authority' = [authority EXCEPT
                          ![a].consumed = taken,
                          ![a].status = IF Exhausts(taken) THEN "EXHAUSTED" ELSE @]
        /\ attempt' = [attempt EXCEPT ![p] =
                        [status |-> "CREATED", of |-> a, epoch |-> paying[p].epoch, alloc |-> "HELD",
                         outcome |-> "captured", grant |-> "ISSUED", closed |-> FALSE]]
        /\ version' = [version EXCEPT ![p] = "EXECUTION_PENDING"]
        /\ queue' = queue \cup {<<p, 0, 0>>}
        /\ paying' = [paying EXCEPT ![p] = NotPaying]
        /\ UNCHANGED <<due, worker, cancelling, sweep, mode, used>>

\* cancel() looks for the live attempt before it takes the version lock.
CancelReads(p) ==
    /\ cancelling[p] = "idle" /\ Disturb
    /\ cancelling' = [cancelling EXCEPT ![p] =
                       IF attempt[p].status \in OpenStatuses THEN attempt[p].status ELSE "NONE"]
    /\ UNCHANGED <<money, due, queue, worker, paying, sweep, mode>>

\* An attempt that moved since makes it raise, one it saw in flight refuse.
Cancellable(p) ==
    /\ CheckoutEdge(version[p], "CANCELLED") /\ cancelling[p] # "UNKNOWN"
    /\ cancelling[p] = "CREATED" => attempt[p].status = "CREATED"

CancelRefused(p) ==
    /\ cancelling[p] # "idle" /\ VersionFree(p) /\ ~Cancellable(p)
    /\ cancelling' = [cancelling EXCEPT ![p] = "idle"]
    /\ UNCHANGED <<money, due, queue, worker, paying, sweep, mode, used>>

Cancel(p) ==
    /\ cancelling[p] # "idle" /\ VersionFree(p) /\ Cancellable(p)
    /\ version' = [version EXCEPT ![p] = "CANCELLED"]
    /\ attempt' = [attempt EXCEPT
                    ![p].status = IF cancelling[p] = "CREATED" THEN "EXPIRED" ELSE @,
                    ![p].grant = IF @ = "ISSUED" THEN "REVOKED" ELSE @]
    /\ cancelling' = [cancelling EXCEPT ![p] = "idle"]
    /\ UNCHANGED <<authority, due, queue, worker, paying, sweep, mode, used>>

-----------------------------------------------------------------------------
\* The worker.

\* Its transaction begins once the command has been leased.
Take(w, p) ==
    /\ ~Busy(w)
    /\ \E cmd \in queue :
        /\ cmd[1] = p /\ \A v \in Workers : worker[v].cmd # cmd
        /\ worker' = [worker EXCEPT ![w] = [cmd |-> cmd, late |-> authority[attempt[p].of].expired,
                                           locked |-> FALSE]]
    /\ UNCHANGED <<money, due, queue, requests, sweep, mode, used>>

\* The purchase's authority is the last lock it needs; it waits for it with the
\* mode gate and the version.
WaitWithVersion(w) ==
    /\ Busy(w) /\ ~Locked(w) /\ VersionFree(At(w)) /\ ~AuthorityFree(attempt[At(w)].of)
    /\ worker' = [worker EXCEPT ![w].locked = TRUE]
    /\ UNCHANGED <<money, due, queue, requests, sweep, mode, used>>

Handles(w) ==
    /\ Busy(w) /\ AuthorityFree(attempt[At(w)].of)
    /\ Locked(w) \/ VersionFree(At(w))
Held(w) == attempt[At(w)].alloc = "HELD"
\* The worker completes its command once the transaction that queues more has
\* committed; a crash between the two delivers the command again.
Finish(w, more) ==
    /\ worker' = [worker EXCEPT ![w] = IdleWorker]
    /\ \/ queue' = (queue \ {worker[w].cmd}) \cup more /\ UNCHANGED used
       \/ queue' = queue \cup more /\ Disturb
Sends(w) == Held(w) /\ attempt[At(w)].status = "CREATED" /\ Round(w) = 0

NothingToDo(w) ==
    /\ Handles(w)
    /\ ~Held(w) \/ (attempt[At(w)].status = "CREATED" /\ Round(w) > 0)
    /\ Finish(w, {})
    /\ UNCHANGED <<money, due, requests, sweep, mode>>

\* mutant: the authority is not looked at again before the debit is sent
MutStillAuthorised(w) == TRUE
StillAuthorised(w) ==
    LET r == attempt[At(w)]
    IN  Live(r.of) /\ ~worker[w].late /\ authority[r.of].epoch = r.epoch
Spendable(p) == attempt[p].grant = "ISSUED" /\ ~Due(p) /\ ~SafeMode

RefuseDebit(w) ==
    LET p == At(w)
    IN  /\ Handles(w) /\ Sends(w)
        /\ ~StillAuthorised(w) \/ ~Spendable(p)
        /\ Writes(p, [attempt[p] EXCEPT !.status = "FAILED"],
                  MovedIfLegal(version[p], "PAYMENT_FAILED"))
        /\ Finish(w, {})
        /\ UNCHANGED <<due, requests, sweep, mode>>

\* apply_provider_evidence: a window that is over is closed first, and a
\* capture for what can no longer be fulfilled is stale.
Evidence(p, record, checkout, late) ==
    LET closes == late /\ ~record.closed /\ checkout \in {"AWAITING_PAYMENT", "PAYMENT_UNKNOWN"}
        judged == IF closes THEN "INVALIDATED_AWAITING_PAYMENT_RESULT" ELSE checkout
        stale == judged \in Retire \cup {"INVALIDATED_AWAITING_PAYMENT_RESULT"}
        failed == record.outcome = "failed"
        target == IF ~failed THEN IF stale THEN judged ELSE "PAID"
                  ELSE IF judged = "INVALIDATED_AWAITING_PAYMENT_RESULT" THEN "INVALIDATED"
                  ELSE "PAYMENT_FAILED"
    IN  Writes(p, [record EXCEPT !.closed = @ \/ closes,
                                 !.status = IF failed THEN "FAILED"
                                            ELSE IF stale THEN "STALE_CAPTURE" ELSE "CAPTURED"],
               MovedIfLegal(judged, target))

\* mutant: the bound on the reads is off by one
MutMoreRounds(r) == r <= Rounds
MoreRounds(r) == r < Rounds

\* Consuming the grant and the acceptance of the simulated provider commit
\* together; the window may end between them and the evidence.
AcceptDebit(w) ==
    LET p == At(w)
        sent == [attempt[p] EXCEPT !.grant = "CONSUMED"]
    IN  /\ Handles(w) /\ Sends(w) /\ StillAuthorised(w) /\ Spendable(p)
        /\ IF sent.outcome = "unknown"
           THEN /\ Writes(p, [sent EXCEPT !.status = "UNKNOWN"],
                          MovedIfLegal(version[p], "PAYMENT_UNKNOWN"))
                /\ Finish(w, IF MoreRounds(0) THEN {<<p, 1, 0>>} ELSE {})
           ELSE /\ \E late \in BOOLEAN :
                     Evidence(p, sent, MovedIfLegal(version[p], "AWAITING_PAYMENT"), late)
                /\ Finish(w, {})
        /\ UNCHANGED <<due, requests, sweep, mode>>

AskAgain(w) ==
    LET p == At(w)
    IN  /\ Handles(w) /\ Held(w)
        /\ attempt[p].status # "CREATED" /\ attempt[p].outcome = "unknown"
        /\ Finish(w, IF MoreRounds(Round(w)) THEN {<<p, Round(w) + 1, worker[w].cmd[3]>>} ELSE {})
        /\ UNCHANGED <<money, due, requests, sweep, mode>>

ApplyOutcome(w) ==
    LET p == At(w)
    IN  /\ Handles(w) /\ Held(w)
        /\ attempt[p].status = "UNKNOWN" /\ attempt[p].outcome # "unknown"
        /\ Evidence(p, attempt[p], version[p], Due(p))
        /\ Finish(w, {})
        /\ UNCHANGED <<due, requests, sweep, mode>>

\* A cancelled attempt has no provider order to hold evidence against: the
\* handler raises and the command is buried.
Bury(w) ==
    LET p == At(w)
    IN  /\ Handles(w) /\ Held(w)
        /\ attempt[p].status = "EXPIRED" /\ attempt[p].outcome # "unknown"
        /\ Finish(w, {})
        /\ UNCHANGED <<money, due, requests, sweep, mode>>

\* before the commit
Crash(w) ==
    /\ Busy(w) /\ Disturb
    /\ worker' = [worker EXCEPT ![w] = IdleWorker]
    /\ UNCHANGED <<money, due, queue, requests, sweep, mode>>

-----------------------------------------------------------------------------
\* Housekeeping: one transaction closes every window that is over.

Found == {p \in due : attempt[p].status \in OpenStatuses /\ ~attempt[p].closed}

\* in the order the windows ended, which may be any
Locks(p, found) ==
    /\ p \in found /\ VersionFree(p)
    /\ sweep' = [todo |-> found \ {p}, versions |-> sweep.versions \cup {p},
                 authorities |-> sweep.authorities \cup {attempt[p].of}]
    /\ UNCHANGED <<money, due, queue, worker, requests, mode, used>>

StartSweep(p) == sweep = NoSweep /\ Locks(p, Found)
LockNext(p) == Locks(p, sweep.todo)

\* close_due of a purchase: an unsent debit is cancelled and its allocation
\* settled, a sent one keeps it and can no longer be fulfilled.
Closes(p) ==
    /\ p \in sweep.versions /\ ~attempt[p].closed
    /\ \/ attempt[p].status = "CREATED" /\ CheckoutEdge(version[p], "CANCELLED")
       \/ attempt[p].status = "UNKNOWN"
\* mutant: closing the window of a sent debit gives its allocation back
MutClosed(r) ==
    IF r.status = "CREATED"
    THEN [r EXCEPT !.closed = TRUE, !.status = "EXPIRED", !.alloc = SettledAs(@, "EXPIRED")]
    ELSE [r EXCEPT !.closed = TRUE, !.alloc = SettledAs(@, "EXPIRED")]
Closed(r) ==
    IF r.status = "CREATED"
    THEN [r EXCEPT !.closed = TRUE, !.status = "EXPIRED", !.alloc = SettledAs(@, "EXPIRED")]
    ELSE [r EXCEPT !.closed = TRUE]
GrantSwept(p, r) == [r EXCEPT !.grant = IF @ = "ISSUED" /\ Due(p)
                                        THEN IF Closes(p) THEN "REVOKED" ELSE "EXPIRED" ELSE @]

CommitSweep ==
    LET after == [p \in Purchases |-> GrantSwept(p, IF Closes(p) THEN Closed(attempt[p]) ELSE attempt[p])]
        Back(a) == {p \in Purchases : /\ after[p].of = a /\ attempt[p].alloc = "HELD"
                                      /\ after[p].alloc = "RELEASED"}
    IN  /\ sweep.versions # {} /\ sweep.todo = {}
        /\ attempt' = after
        /\ version' = [p \in Purchases |->
                        IF ~Closes(p) THEN version[p]
                        ELSE IF attempt[p].status = "CREATED" THEN "CANCELLED"
                        ELSE MovedIfLegal(version[p], "INVALIDATED_AWAITING_PAYMENT_RESULT")]
        /\ authority' = [a \in Authorities |->
                          IF Back(a) = {} THEN authority[a]
                          ELSE Restored(authority[a], Total(Back(a)))]
        /\ sweep' = NoSweep
        /\ UNCHANGED <<due, queue, worker, requests, mode, used>>

\* A worker that has the version housekeeping wants next and waits for the
\* authority housekeeping has: PostgreSQL rolls one of the two back.
Deadlocked(w) ==
    /\ Locked(w) /\ attempt[At(w)].of \in sweep.authorities
    /\ At(w) \in sweep.todo

WorkerVictim(w) ==
    /\ Deadlocked(w)
    /\ worker' = [worker EXCEPT ![w] = IdleWorker]
    /\ UNCHANGED <<money, due, queue, requests, sweep, mode, used>>

SweepVictim ==
    /\ \E w \in Workers : Deadlocked(w)
    /\ sweep' = NoSweep
    /\ UNCHANGED <<money, due, queue, worker, requests, mode, used>>

-----------------------------------------------------------------------------
\* The surroundings.

\* The protected route names the answer while the allocation is still held and
\* queues a read of it.
\* mutant: no read is queued
MutSimulate(p, outcome) ==
    /\ attempt[p].alloc = "HELD" /\ attempt[p].outcome # outcome /\ used.fixtures < MaxFixtures
    /\ attempt' = [attempt EXCEPT ![p].outcome = outcome]
    /\ used' = [used EXCEPT !.fixtures = @ + 1]
    /\ UNCHANGED <<authority, version, due, queue, worker, requests, sweep, mode>>
Simulate(p, outcome) ==
    /\ attempt[p].alloc = "HELD" /\ attempt[p].outcome # outcome /\ used.fixtures < MaxFixtures
    /\ attempt' = [attempt EXCEPT ![p].outcome = outcome]
    /\ queue' = queue \cup {<<p, 1, used.fixtures + 1>>}
    /\ used' = [used EXCEPT !.fixtures = @ + 1]
    /\ UNCHANGED <<authority, version, due, worker, requests, sweep, mode>>

Switch(scope, m) ==
    /\ GateFree
    /\ mode' = [mode EXCEPT ![scope] = m, !.last = scope]
    /\ UNCHANGED <<authority, version, due, queue, worker, requests, sweep>>

\* A tenant's activation withdraws its unused delegated grants; a global one
\* sees no tenant's grants.
EnterSafeMode(scope) ==
    /\ Switch(scope, "SAFE_MODE") /\ Disturb
    /\ attempt' = IF scope = "global" THEN attempt
                  ELSE [p \in Purchases |-> [attempt[p] EXCEPT !.grant =
                                              IF @ = "ISSUED" THEN "REVOKED" ELSE @]]
\* Declared while no Safe Mode is in force, NORMAL changes nothing.
LeaveSafeMode(scope) == SafeMode /\ Switch(scope, "NORMAL") /\ UNCHANGED <<attempt, used>>

WindowEnds(p) ==
    /\ attempt[p].status \in OpenStatuses /\ ~Due(p)
    /\ due' = due \cup {p}
    /\ UNCHANGED <<money, queue, worker, requests, sweep, mode, used>>

AuthorityExpires(a) ==
    /\ a \in Lapsing /\ authority[a].status # "NONE" /\ ~authority[a].expired /\ Disturb
    /\ authority' = [authority EXCEPT ![a].expired = TRUE]
    /\ UNCHANGED <<version, attempt, due, queue, worker, requests, sweep, mode>>

-----------------------------------------------------------------------------
Handle(w) ==
    \/ NothingToDo(w) \/ RefuseDebit(w) \/ AcceptDebit(w)
    \/ AskAgain(w) \/ ApplyOutcome(w) \/ Bury(w)

BuyerStep(p) ==
    \/ \E a \in Authorities : BeginPay(p, a)
    \/ PayRefused(p) \/ Deny(p) \/ Admit(p) \/ CancelReads(p) \/ CancelRefused(p) \/ Cancel(p)
WorkerStep(w) ==
    \/ \E p \in Purchases : Take(w, p)
    \/ WaitWithVersion(w) \/ Handle(w) \/ Crash(w) \/ WorkerVictim(w)
SweepStep == (\E p \in Purchases : StartSweep(p) \/ LockNext(p)) \/ CommitSweep \/ SweepVictim
Surroundings ==
    \/ \E p \in Purchases : WindowEnds(p)
    \/ \E p \in Scripted, o \in Outcomes : Simulate(p, o)
    \/ \E s \in {"tenant", "global"} : EnterSafeMode(s) \/ LeaveSafeMode(s)
    \/ \E a \in Authorities : GrantAuthority(a) \/ Revoke(a) \/ AuthorityExpires(a)

Next ==
    \/ \E p \in Purchases : BuyerStep(p)
    \/ \E w \in Workers : WorkerStep(w)
    \/ SweepStep
    \/ Surroundings

Spec == Init /\ [][Next]_vars

\* The workers take commands and finish them, in no order, housekeeping runs, a
\* lock that keeps coming free is eventually had, and a deadlock is detected.
FairSpec ==
    /\ Spec
    /\ SF_vars(\E w \in Workers, p \in Purchases : Take(w, p))
    /\ SF_vars(\E w \in Workers : Handle(w))
    /\ SF_vars(\E p \in Purchases : StartSweep(p) \/ LockNext(p))
    /\ WF_vars(CommitSweep \/ SweepVictim \/ \E w \in Workers : WorkerVictim(w))

-----------------------------------------------------------------------------
\* Properties.

TypeOK ==
    /\ authority \in [Authorities -> [status : AuthorityStatus, epoch : Nat,
                                      consumed : 0..Ceiling, expired : BOOLEAN]]
    /\ version \in [Purchases -> CheckoutState]
    /\ attempt \in [Purchases ->
                     [status : {"NONE", "CREATED", "UNKNOWN", "CAPTURED", "STALE_CAPTURE",
                                "FAILED", "EXPIRED"},
                      of : Authorities \cup {0}, epoch : Nat,
                      alloc : {"NONE", "HELD", "SPENT", "RELEASED"}, outcome : Outcomes,
                      grant : {"NONE", "ISSUED", "CONSUMED", "REVOKED", "EXPIRED"},
                      closed : BOOLEAN]]
    /\ due \subseteq Purchases
    /\ queue \subseteq Purchases \X (0..IF Rounds = 0 THEN 1 ELSE Rounds) \X (0..MaxFixtures)
    /\ worker \in [Workers -> [cmd : {<<>>} \cup queue, late : BOOLEAN, locked : BOOLEAN]]
    /\ paying \in [Purchases -> [of : Authorities \cup {0}, epoch : Nat, late : BOOLEAN]]
    /\ cancelling \in [Purchases -> {"idle", "NONE", "CREATED", "UNKNOWN"}]
    /\ sweep \in [todo : SUBSET Purchases, versions : SUBSET Purchases,
                  authorities : SUBSET Authorities]
    /\ mode \in [tenant : {"none", "NORMAL", "SAFE_MODE"},
                 global : {"none", "NORMAL", "SAFE_MODE"}, last : {"none", "tenant", "global"}]
    /\ used \in [fixtures : 0..MaxFixtures, disturbances : 0..MaxDisturbances]

\* The capacity that reads consumed is that of the debits still held or spent:
\* nothing is allocated past the ceiling, returned twice or kept after a
\* failure, and an authority is exhausted exactly when it is full.
BooksBalance ==
    \A a \in Authorities :
        LET counted == {p \in Purchases : attempt[p].of = a /\ attempt[p].alloc \in {"HELD", "SPENT"}}
        IN  /\ authority[a].consumed = Total(counted)
            /\ authority[a].consumed <= Ceiling
            /\ authority[a].status = "ACTIVE" => authority[a].consumed < Ceiling
            /\ authority[a].status = "EXHAUSTED" => authority[a].consumed = Ceiling

\* Unknown stays held: capacity is returned only when the debit definitely did
\* not happen, and stays spent when it did.
AllocationTellsOutcome ==
    \A p \in Purchases :
        /\ attempt[p].alloc = "SPENT" <=> attempt[p].status \in {"CAPTURED", "STALE_CAPTURE"}
        /\ attempt[p].alloc = "RELEASED" => attempt[p].status \in {"FAILED", "EXPIRED"}
        /\ attempt[p].alloc = "RELEASED" /\ attempt[p].grant = "CONSUMED"
            => attempt[p].outcome = "failed" /\ attempt[p].status = "FAILED"
        /\ attempt[p].status = "UNKNOWN" => attempt[p].alloc = "HELD"

\* A failed debit never brings a revoked permission back beside its successor.
OneLivePermission == \A a, b \in Authorities : Live(a) /\ Live(b) => a = b

\* A debit reaches the provider only while the authority it was admitted under
\* stands unrevoked, outside Safe Mode, for a purchase nobody has cancelled.
DebitsArePermitted ==
    [][\A p \in Purchases :
        attempt[p].grant # "CONSUMED" /\ attempt'[p].grant = "CONSUMED" =>
            /\ Live(attempt[p].of) /\ authority[attempt[p].of].epoch = attempt[p].epoch
            /\ ~SafeMode /\ version[p] = "EXECUTION_PENDING" /\ ~attempt[p].closed]_vars

\* Capacity is not held for ever: once the provider's answer is known, the
\* allocation is settled, whoever crashes, revokes, or closes the window.
HeldIsSettled ==
    \A p \in Purchases :
        (attempt[p].alloc = "HELD" /\ attempt[p].outcome # "unknown")
            ~> \/ attempt[p].alloc # "HELD" \/ attempt[p].outcome = "unknown"
               \/ attempt[p].status = "EXPIRED"

\* An authority is an allowance: what consumed, the status and the allocations
\* keep between them are its life and the claims on it, and a transaction that
\* began before the lapse has it for as long as it is live.
Life(a) ==
    IF authority[a].status = "NONE" THEN "none"
    ELSE IF ~Live(a) THEN "over"
    ELSE IF authority[a].expired THEN "lapsed" ELSE "stands"

Uses(p) ==
    IF paying[p] # NotPaying THEN IF paying[p].late THEN 0 ELSE paying[p].of
    ELSE IF \E w \in Workers : Busy(w) /\ At(w) = p /\ ~worker[w].late THEN attempt[p].of ELSE 0

Clearance(p) == IF Uses(p) # 0 /\ Live(Uses(p)) THEN Uses(p) ELSE 0

TheAllowance ==
    INSTANCE Allowance WITH
        Permissions <- Authorities,
        Limit <- PurchaseLimit,
        life <- [a \in Authorities |-> Life(a)],
        stake <- [p \in Purchases |-> [of |-> attempt[p].of, state |-> attempt[p].alloc]],
        sent <- {p \in Purchases : attempt[p].grant = "CONSUMED"},
        clearance <- [p \in Purchases |-> Clearance(p)]

\* Reserve Pay implements the allowance: a purchase is allotted within the
\* ceiling and debited at most once, each by a transaction that began while the
\* permission stood and before it was withdrawn, and returned at most once
\* (admission.py, authority.py, handlers/reserve.py).
AllowanceSpec == TheAllowance!Spec

-----------------------------------------------------------------------------
\* Claims of the sources.

\* "Unknown stays held; terminal failure releases once." (reserve.py): an
\* attempt that ended without its debit being sent keeps no capacity.
TerminalFailureReleases ==
    \A p \in Purchases :
        attempt[p].status \in {"FAILED", "EXPIRED"} /\ attempt[p].grant # "CONSUMED"
            => attempt[p].alloc = "RELEASED"

\* "checkout -> authority, before attempt/grant locks" (lock_allocation_context):
\* with one order for all, nobody is rolled back for a deadlock.
OneLockOrder == \A w \in Workers : ~Deadlocked(w)
=============================================================================
