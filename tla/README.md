# Verification of the transaction core

TLA+ models of the part of this repository that decides whether a buyer is charged, what
is fulfilled and what is refunded: the transaction kernel
(`src/packages/transaction-kernel`), the Action Executor that talks to the payment
provider (`src/packages/action-executor`), the durable outbox between them
(`src/packages/durable-work`), and the commerce API services that call the kernel
(`src/packages/commerce-api`), with the two ledgers beside the payment: the units on the
shelf and the capacity of a delegated permission. `PROJECT.json` maps every definition to
the lines it models.

## 1. The system

| Component | State it keeps | Operations | What must hold |
|---|---|---|---|
| State machines (`states.py`) | none: two transition tables | `can_transition`, `assert_transition`, `monotonic_apply` | reports of the provider never regress an attempt, never carry it past a reconciliation |
| Checkouts (`checkouts.py`) | versions of a checkout, head | create, supersede, freeze, cancel, invalidate, transition | a retired version is never paid for; N+1 needs a new approval |
| Approvals (`approvals.py`) | one decision per version | record, reject, defer, consume, expire | an approval is spent at most once, with its version |
| Admission (`admission.py`, `admission_service.py`) | payment attempts, execution grants | `admit`, submit | one live attempt per checkout; attempt, grant, hold, approval and command commit together |
| Grants (`grants.py`) | single-use permissions with a 120 s life | issue, consume, revoke, expire | one provider request per grant |
| Payments (`payments.py`, `payment_window.py`) | attempt status, provider ids, orders, cases | record a create-order answer, apply evidence, reconcile, escalate, close the window | see section 3 |
| Reservations (`reservations.py`) | stock held per version | reserve, consume, release, sweep | a hold is spent once, with its sale; holds fit in the stock |
| Shelf (`inventory.py`, `merchants.py`, `merchant_state.py`, `merchant_action_service.py`) | units on hand, movements of each kind, one SOLD row per version | sell, deliver, correct, decrement, reset | the balance is the sum of its movements and never below zero |
| Refunds (`refunds.py`) | refund rows against a capture | admit, execute, record, reconcile, escalate | refunds never exceed the capture; exactly one per stale capture |
| Outbox (`outbox.py`, `loop.py`) | commands with attempts and a lease | enqueue, lease, run, complete, fail, reap, revive | no command lost; only the latest lease holder reports |
| Idempotency (`idempotency.py`) | one record per key | claim, store, replay | one effect per key |
| Action Executor (`action_executor/handlers`) | nothing durable of its own | create order, apply webhook, reconcile, refund, housekeeping | every handler survives redelivery |
| Provider (external) | orders, payments, refunds | create order, fetch, webhooks | none assumed beyond what the adapter reads |
| Reserve authority (`authority.py`, `reserve.py`, `handlers/reserve.py`, `routers/reserve.py`) | permissions with epoch and consumed capacity, one allocation per debit | grant, pay, debit, read the outcome, revoke | capacity is counted exactly, held while unknown, settled once known |
| Operating mode (`safe_mode.py`) | one append-only log per scope | enter, leave, `require_not_safe_mode` | nothing is debited in Safe Mode |
| Audit chain, receipts | hash chains, rows beside each operation | append, verify | not modelled |

Calls and messages: the API runs kernel operations inside one transaction and enqueues
commands in the same transaction; workers lease commands in a transaction of their own,
run a handler of two or three transactions with provider calls between them, and report in
another; webhooks are stored and become commands; housekeeping sweeps on a timer. All of
them meet in the database: work on one checkout is serialised by the row lock of its
version, work of different checkouts meets at the advisory locks of the items, the shelf
rows, the row of a permission and the gate of the operating mode.

What makes this hard is listed, line by line, under `hazards` in `PROJECT.json`: provider
calls and reads between transactions, lost answers, crashes at every boundary, webhooks
duplicated and out of order, a payment deadline that races a capture, an unlocked read
before a lock, stock released while money is on its way, refunds made on two sides, shelf
levels computed from a read that a sale has overtaken, and transactions that take several
locks in different orders.

## 2. Modules

| Module | Models |
|---|---|
| `PaymentStates` | the two tables, ranks, closure and join of `states.py`; pure definitions |
| `PaymentEvents` | the join as the webhook inbox uses it, from any state |
| `PaymentLifecycle` | one checkout, its versions and attempts, through kernel, executor, provider and sweeps |
| `Purchase` | what the transaction core promises of one checkout, which `PaymentLifecycle` implements |
| `PaymentEventsProofs` | the theorems about `PaymentEvents` |
| `PaymentClaims` | statements of docs and comments about that lifecycle which the code does not keep |
| `PaymentLifecycleProofs` | theorems about `PaymentLifecycle`: types, attempts, orders |
| `PaymentMoneyProofs` | theorems about `PaymentLifecycle`: money, stock, what a step never does, the refinement of `Purchase` |
| `Outbox` | the outbox table and the worker loop: hand-out, run, report, burial, revival |
| `CommandQueue` | what the outbox promises of a command, which `Outbox` implements |
| `OutboxProofs` | the theorems about `Outbox` |
| `Refunds` | the refunds of one capture: admission, sending, recording, reconciliation, stale captures |
| `RefundsProofs` | the theorems about `Refunds`: sending and admission, the ledger against the capture and the provider |
| `StockLedger` | holds and sales of competing versions, and merchants who edit the shelf under them |
| `Shop` | what the stock looks like from outside, one transaction after another, which `StockLedger` implements |
| `StockLedgerProofs` | the theorems about `StockLedger`, the refinement of `Shop` among them |
| `ReserveAuthority` | permissions and the debits made under them, with Safe Mode and housekeeping |
| `Allowance` | what a permission to spend is worth, whoever keeps its books, which `ReserveAuthority` implements |
| `ReserveAuthorityProofs` | the theorems about `ReserveAuthority`, the refinement of `Allowance` among them |
| `SumTheorems` | induction on finite sets, and sums over them, for the theorems about the ledgers and the tables |
| `MC*` | constants, constraints and instances for TLC |

### PaymentLifecycle and the code

An action is one database transaction, or one step of the provider, the network or the
clock between two. The kernel takes the version row first and keeps it, so two transactions
on one checkout do not interleave; what the code reads *before* that lock is a step of its
own (`CancelReads`, `BeginRound`, `Look`).

* `version`, `approval`, `hold`, `payment`, `grant` are the status columns of their tables;
  `bound` is `payment_attempts.checkout_version`; `orderId`, `paymentId`, `closed` say
  whether the column is set; `orders`, `cases`, `refund` say which rows exist.
* `command`, `call`, `rounds` and `asking` are the outbox rows of one attempt and the
  handlers between their transactions. `rounds` is a set of round numbers: the code enqueues
  reconciliation without an idempotency key, two copies of one round behave as one
  redelivered, and a redelivery is possible at any time.
* `placed`, `tries` and `dashboard` are the provider's side: orders created, payments the
  buyer made on the order, a refund made by the merchant at the provider.
* `clock` is what the grant's expiry and the payment window (both 120 s, the grant stamped
  first) say of the attempt: `fresh`, `lapsed` (grant gone), `due` (window gone).
* `cancelling` is `cancel` between its plain `SELECT` and its lock.

Choices a reader should know:

* `Workers` reconcile independently: each of them holds a view of its own (`asking[a][w]`),
  on the same round (a lease that lapsed, a redelivery) or on another. Only
  `payment_versions` runs two of them; the other runs have one.
* One cancellation of the checkout is in flight at a time: a second would meet the first
  only through the same locked transaction.
* An `authorized` payment does not later fail at the provider.
* The comparison of merchant state at admission is a choice between its three outcomes.
* `AskStatus` may be repeated; the code answers a repetition from its idempotency record,
  which is less behaviour.
* `TimePasses` stops with the attempt: no guard reads the clock of a finished one.
* Deferral of approvals and the drafting states are not modelled; attempts paid with a
  delegated permission are in `ReserveAuthority`.

### Outbox and the code

An action is one transaction of `outbox.py`, or one run of a handler between two.
`status`, `attempts`, `availableAt` and `leasedUntil` are the columns of `outbox_events`;
`batch` and `result` are the local variables of `_run_tenant` (what was leased and not run,
what the last handler returned and was not reported). `handed`, `revived` and `carriedOut`
are history: they are written and never read by a guard.

* PostgreSQL's `now()` is the *start* of a transaction, and a transaction may wait before
  its statement takes effect. Every action that reads the clock therefore takes a start `s`
  up to `MaxAge` behind it (`Starts`). `AgeAssumption`, that `MaxAge` is less than a
  lease, is an assumption about the deployment: nothing in the repository sets a statement
  or lock timeout. A worker's own transactions start one after the other, which the model
  does not use; it allows more.
* `FOR UPDATE SKIP LOCKED` may pass over any row, so a hand-out takes any subset of the
  ready rows, up to the batch size.
* `Lease` buries exhausted rows first and in the same transaction; `Sweep` is the same
  statement run by housekeeping, by no worker in particular.
* `Report` is `complete`, `fail`, or the answer that the lease was lost. `Crash` loses a
  worker's memory at any point; what the database has stays.
* `Tick` stops when no row carries a time ahead of the clock: more of it changes no
  comparison. This keeps the state space finite without a bound on time.
* `extend_lease` is left out: nothing but its tests calls it.

`PaymentLifecycle`, `Refunds` and `ReserveAuthority` take from the outbox only what
`CommandQueue` promises: a queued command is delivered at least once, possibly again at any
time, or buried.

### Refunds and the code

One captured attempt, the rows of `refunds` on it by their ordinal, and the workers.
`status`, `amount`, `named` (the provider id is recorded) and `grant` are columns;
`attempt` and `order` the two rows a result settles with the refund. `queue` counts the
outstanding commands (`round` 0 is REFUND_EXECUTE), `job` is a handler between its
transactions with the answer it carries, `held` whether its lease is still its own. The
provider may answer a request with a refund that is not the one asked for (`echo`): its id is
kept and the outcome stays unknown. A round decides in its first transaction whether it asks
by that id (`look_up`) or for the payment's total (`fetch`), and its last one goes by what was
asked, whatever the row says by then; without evidence of the total it reads the ledger all
the same.
`provider`, `outside` and `wire` are the other side: what became of each request, what the
merchant refunded at the provider's own console, and requests still travelling after their
sender gave up. `sent` is history.

* An action is one transaction or one exchange with the provider. A transaction that raises
  keeps nothing and its command is buried, because the errors it raises are not retryable;
  burial after `max_attempts` (8) deliveries is excluded by `MaxFaults` being below it.
* `weather` fixes what the environment of a behaviour may do, so that a property can name
  exactly what it needs: `late` requests, `overlap` of a lost lease with its successor,
  `expiry` of a grant, `evidence` of the capture arriving again, `stale` captures. Under
  `overlap` two handlers can act on one refund; under `evidence` the attempt is moved under
  an open refund, which is the finding below.
* The ledger's `Overdrawn` is modelled as the exception it is: every operation that reads
  the ledger raises.
* `record_provider_originated_refund` is called by nothing but its tests and is left out;
  refunds made outside are what reconciliation reads of them.

### StockLedger and the code

A request is a transaction with a program counter: `Look` (what `submit` reads before the
kernel takes any lock: `state_source`, `allocations_for`), the version lock, one advisory
lock per item in SKU order, the capacity check, the shelf rows in SKU order, commit. An
edit is the merchant's transaction under the lock of the shop's head row. An uncommitted
write is visible only as the locks its transaction has; `shelf`, `moved`, `sales`, `hold`
and `version` are what has committed.

* `seen` and `late` are the stock and the clock a request read at its start; the capacity
  check uses them. What stops an oversell is not that check but the `CHECK` on the balance
  with `record()` reading the row again under its lock (`Allowed`).
* `HoldAtReview` models `freeze_for_approval` with `reserve_stock=True`, which the kernel
  offers; the callers under `src/` pass `False`, so both kinds of version are in the
  instance.
* `BeginReceipt` and `ReadForReceipt` are the two reads of a delivery; every other edit
  reads once.
* A failed payment or a cancellation gives the hold back and not the units: that is what
  the code does (`Release`). A version that is superseded gives its hold back
  in the same transaction (`_freeze_successor`), and its successor takes none.
* Prices, offers, fees and policies of an edit are left out. `CatalogueOrder` gives each
  item its place in the catalogue; `edit.todo` is the set of items an edit has still to
  move, and it takes them in that order (`NextMoved`). Deadlocks are cycles over all three kinds of lock; PostgreSQL rolls one
  member back (`Victim`, `EditVictim`).

### ReserveAuthority and the code

`authority`, `attempt` (with its allocation and grant) and `version` are the columns;
`paying`, `cancelling`, `worker` and `sweep` are transactions that wait for a lock with
what they have read so far; `due` is the set of windows that are over; `mode` is the latest
record of each scope and which came last.

* Only persisted statuses appear: CREATED, UNKNOWN, CAPTURED, STALE_CAPTURE, FAILED and
  EXPIRED. SUBMITTED and RECONCILING exist only inside a transaction, and the provider's
  reconciliation never touches an attempt of this rail.
* Whether a permission has lapsed is judged by `now()`, the start of the transaction, before it
  has any lock: `paying` and `worker` carry what it was (`late`). A permission that lapses while
  a request waits for the mode gate, the version or the authority is still allotted and debited;
  one that is revoked meanwhile is not, because status and epoch are read under the lock.
* The payment window and the grant are judged by `clock_timestamp()`, at the step itself. A
  grant lives as long as the window, so `Due` stands for both.
* A payment whose version was cancelled while it waited ends in `PayRefused`; a worker that has
  the gate and the version and waits for an authority housekeeping has is `WaitWithVersion`.
* A command is `<<purchase, round, chain>>`: a read queued by the simulator route starts a
  chain of its own beside the one the debit started.
* A denial leaves the version APPROVED with its approval recorded, as the code does.
* A tenant's own mode record decides unless a later global SAFE_MODE covers it. Activation
  by a tenant revokes its unused delegated grants; a global one sees no tenant's rows.
* `CommitSweep` closes every window housekeeping has locked in one transaction, which is
  why it can deadlock with a worker; the victim's work is delivered again.
* Left out: signing of permissions, SINGLE_USE and product scope (nothing reads a purchase
  into them here), and the authority statuses RECONCILING and EXPIRED, which nothing under
  `src/` writes.

### The abstract specifications

Four modules say in one page each what a component promises, without its locks, handlers,
crashes and messages, and the component's module instantiates them with a mapping of its own
state (`QueueSpec`, `PurchaseSpec`, `ShopSpec`, `AllowanceSpec`).

* `Purchase`: `agreed` is an approval that is recorded, not spent, and on the head version;
  an attempt's `outcome` is read off its status together with the row that goes with it (an
  order, a refund, a case), so a status without its row maps to no outcome at all; `charged`
  are the attempts with a captured payment at the provider. Beginning an attempt spends a
  decision, and needs that none is open or sold; selling and returning need the money.
* `Shop`: `ledger` and `sold` are the committed movements and SOLD rows, and a version's
  `promise` is read off its status and its hold. A sale takes all lines of a version in one
  step, and only from what the movements say is there; a merchant's edit posts movements of
  one kind.
* `Allowance`: `life` is what a permission's status and expiry say, `stake` the allocation,
  `sent` the debits whose grant was spent, and `clearance` the permission that whoever acts for
  a purchase asked for while it stood. A lapse leaves a clearance alone, a withdrawal ends it,
  and a purchase is allotted and debited under a clearance only; so one that was allotted
  across a lapse is never debited. The counter `consumed` does not appear: the ceiling bounds
  the sum of the claims that stand.

## 3. Runs

| Run | Question | Bounds |
|---|---|---|
| `event_join` | can reports in any order regress an attempt or fake a reconciliation? | every start state, nine reported states: exhaustive |
| `payment_retries` | one attempt against everything | one version, one attempt, two tries of the buyer, bound of one round |
| `payment_versions` | late work of version N against version N+1; two reconciliations of one attempt, each concluding from its own reads; is all of it one abstract purchase? | two versions and attempts, two workers (symmetric); constraint `SecondAttemptIsQuiet` |
| `payment_settles` | does a lost outcome always end? | one attempt, two rounds, fairness |
| `outbox_delivery` | does a command always end, within its budget, with only its last holder writing? | one command, two workers, three attempts, a lease of two ticks, one revival |
| `outbox_batches` | is a live lease exclusive; is the outbox a queue? | two commands in batches of two, two workers, two attempts; constraint `OneIsDeliveredOnce` |
| `refunds` | is a refund sent once, is the ledger true, is every refund answered? | two refunds of a capture of two units, two workers, two rounds, one fault, five weathers |
| `stock` | is anything oversold, does anyone hang; is it the abstract shop? | two items, two versions, three requests (two of one version), one edit of any kind |
| `reserve` | is a debit ever unpermitted, is capacity counted and settled; is it the abstract allowance? | two permissions, two purchases that together exhaust one, one worker, one read round, two answers by the simulator, one disturbance |
| `claim_uncertainty_never_readmits`, `claim_receipt_adds_what_arrived`, `claim_terminal_failure_releases` | does the code do what this sentence says? | the instances above; each is violated |

Why the bounds suffice: the code compares payment ids only for equality, so two tries show
both "same" and "other"; versions interact only through "is there a newer one" and the
single-winner index, so two show every relation; the round bound is a counter compared with
a constant, so one and two rounds show the last round and a round that is followed
by another. `SecondAttemptIsQuiet` keeps the second attempt free of lost answers and time so
that the *first* attempt's leftovers are explored in full against it; each attempt alone
meets all of that in `payment_retries`. Rows of the outbox meet only in a batch, so two
show every case; `OneIsDeliveredOnce` lets one of them be leased once, beside every
delivery of the other. Three attempts give a first, a middle and a last one, and a lease of
two ticks with transactions one tick old puts every stale clock on both sides of a
deadline.

In `refunds`, two units and two refunds show a partial refund, its completion, an amount that
no longer fits and a sum that is read while it changes; one fault meets every step of either
handler, and a second would only repeat an outstanding command, which the counts in `queue`
already allow. In `stock`, one version with a hold and one without, each for both items, with
two units of item 1 and one of item 2, show a capacity conflict, a row that is sold out after
another row was locked, and both orders of a reset against a sale; the second request for one
version shows a resubmission. In `reserve` one disturbance (a revocation, a cancellation, Safe
Mode, a lapse, or a crash) meets every state the two purchases reach; two would be two
independent ones, since each is a single step that the next guard reads. `MaxFixtures` 2 lets
the answer change from unknown to one and then the other.

No run checks deadlock: a settled checkout, and a finished outbox, stop.

Properties, in words, stand above their definitions. The ones that matter most:
`OneProviderOrderPerVersion` (crashes and lost answers never create a second order),
`OneFulfilment`, `OrderIsBackedByMoney`, `HeldMoneyIsAnswered` (a capture has its order, its
refund or its case), `PayableStockIsHeld`, `NoOrderAfterDeadline`, `MoneyNeverRegresses`,
`UncertainSettles`; `SentAtMostOnce`, `AbsenceIsTrue` (a refund the ledger calls failed is not at
the provider) and `BooksAgree`; `UnitsAreDefendedOnce`, `BalanceIsLedger` and
`ReserversNeverDeadlock`; `BooksBalance`, `AllocationTellsOutcome` and `DebitsArePermitted`; and
the four refinements. `OneLiveAttempt`, `HoldsAreNotRevived` and `OneLivePermission` are
properties the refinements cover; they are proved in section 4 and not run by themselves.

`AbsenceIsTrue` is stated for `Undisturbed` weather: no request outlives its sender, no lease is
lost, and the attempt of a sale is moved by nothing but its own refund. The last condition came
out of the proof. With two refunds the property also holds while reports of the capture move
the attempt, but with three it does not: under the weather `{"evidence"}`, with `Refund` of
three, `Captured` 3 and `Rounds` 1, TLC finds eighteen states in which a payment round and a
report of the capture carry the attempt from REFUND_UNKNOWN back to CAPTURED while the first
refund is unresolved, a second and a third are admitted and settled, and the first is then
marked FAILED because the provider's total is explained without it, although the provider has
it. It is a further consequence of `UncertaintyNeverReadmits` below.

### Disagreements found

Three runs end in a counterexample on purpose; they are the `findings`:

* `UncertaintyNeverReadmits`: a payment round takes up an attempt whose *refund* is unknown,
  a report of the old capture carries it back to CAPTURED, and a second refund is admitted
  beside the first.
* `ReceiptAddsWhatArrived`: a sale between the two reads of a delivery is written back as
  units received.
* `TerminalFailureReleases`: cancelling a purchase whose debit was not sent yet leaves its
  allocation held and the permission short for good.

Further sentences of the repository that the models contradict are kept as formulas with
a configuration each, to be run by hand (`tlc -config X.cfg M.tla`):

| Configuration, module | The sentence | What the code does |
|---|---|---|
| `ClaimContradictionIsAdjudicated.cfg`, `MCPaymentClaims` | a report a terminal attempt absorbs is adjudicated by reconciliation (`states.py:497-498`) | the buyer's first try fails, the second is captured, and no round is ever queued (`reconcile.py:188`) |
| `ClaimClosedIsReconciled.cfg`, `MCPaymentClaims` | an authorized payment of a closed window is reconciled (`PROJECT_SPECIFICATION.md:1249-1250`) | an `authorized` webhook after the deadline closes the window and queues nothing (`payments.py:1300`) |
| `ClaimNeverHalfCancelled.cfg`, `MCPaymentClaims` | no cancellation around a request in flight (`checkouts.py:1286-1287`) | only grants still ISSUED are looked up, so the consumed one of an attempt admitted after the first read is never met (`checkouts.py:1278`) |
| `ClaimCancelExpiresAttempt.cfg`, `MCPaymentClaims` | a cancelled CREATED attempt is moved to EXPIRED (`checkouts.py:1181-1183`) | an attempt admitted after the first read is not (`checkouts.py:1226`) |
| `ClaimReturnedMoneyIsNotRefunded.cfg`, `MCPaymentClaims` | money already returned is not refunded automatically (`stale_capture.py:79-81`) | only the report at hand is looked at: after one that names the refund, an older one that does not admits a refund beside the case (`stale_capture.py:112`) |
| `MCPaymentEventsFailed.cfg`, `MCPaymentEvents` | `FailedReportNeverResolvesUnknown` (`states.py:503`) | the join resolves it (`states.py:539`) |
| `ClaimAbsentIsAdmittedAnew.cfg`, `MCRefunds` | a refund found absent is to be admitted anew by the caller (`refunds.py:1414`) | the caller discards that answer (`reconcile.py:751`) |
| `ClaimNoMutationsDeadlock.cfg`, `MCStockLedger` | no order in which two mutations hold what the other wants (`merchant_state.py:98-99`) | a reset takes the rows in catalogue order, a sale in SKU order (`merchants.py:222`) |
| `ClaimOneLockOrder.cfg`, `MCReserveAuthority` | checkout before authority (`lock_allocation_context`) | housekeeping closes many windows in one transaction (`housekeeping.py:74-99`) |

### Fairness

`ReconcileFairness`: a queued round is leased again and again until it runs (strong
fairness on `BeginRound`, because other rounds may take the slot), a handler's later
transactions run, and workers do not crash in one attempt's handler for ever - the outbox
buries a command that keeps killing its worker. `SweepFairness` adds that the clock runs,
the create-order command is delivered and housekeeping ticks. The outbox (`Fairness` in
`Outbox`) has a running clock, handlers that return and are reported, and workers that poll:
a command that is again and again ready or exhausted is reached (strong fairness, because
`lease` takes the oldest rows first and another row may go first). Crashes are not bounded
there: an attempt is consumed at hand-out, which is what makes `EverythingEnds` true.
Nothing is assumed of the
buyer, of webhooks or of what the provider answers.

`Refunds` assumes only that the workers go on working while something is there to do (weak
fairness of `Work` as a whole: the outbox's oldest-first hand-out reaches every command of a
finite queue). In `StockLedger` a request or an edit that has begun is scheduled, and a lock
that keeps coming free is had: PostgreSQL queues waiters in order (strong fairness of
`RequestStep(r)` and of `EditStep`; the choice of a deadlock's victim is part of them). In
`ReserveAuthority` the workers take commands and handle them again and again, in no order (strong
fairness of `Take` and of `Handle`, each for all workers together), housekeeping gets the locks
that keep coming free (`StartSweep`, `LockNext`), commits, and deadlocks are detected. Crashes are bounded there and in
`Refunds`; nobody is obliged to begin a request, to ask for a refund, to pay or to answer.

## 4. Theorems

`PaymentLifecycleProofs` proves, for every number of versions, attempts, tries, rounds and
workers (`BoundsAssumption`: each number a positive natural; `Workers` any set):

* `TypeCorrect`: `Spec => []TypeOK`.
* `Invariance`: `Spec => []IInv`, and from it `SingleLiveAttempt` (`OneLiveAttempt`),
  `SingleFulfilment` (`OneFulfilment`) and `SingleProviderOrder`
  (`OneProviderOrderPerVersion`).

`OneFulfilment` is not inductive: a capture becomes an order only on a version nobody
retired, so what every action does to versions and attempts together has to be carried
along. `IInv` is the conjunction of

* `TypeOK`;
* `AttemptsBound`: an attempt has a state exactly when it is bound to a version, a
  bound version exists, and an attempt with a provider order is past CREATED;
* `OneLiveAttempt`;
* `ApprovalUnspent`: a version whose approval has not been spent has no attempt, hence
  `OneAttemptPerVersion`;
* `VersionFollows`: where the version may be while its attempt is CREATED, live or
  captured; a captured attempt's version is PAID;
* `PredecessorRetired`: every version but the newest is retired, which a PAID one is not;
* `MoneyAnswered`: an order goes with a CAPTURED attempt, a refund with REFUND_PENDING, so
  the two exclude each other;
* `AnswerHasOrder`: a reconciliation, whichever worker holds it, reports on an order the
  attempt has or is about to be given, so that evidence never meets an attempt that was
  not sent.

`SingleProviderOrder` adds `SentOnce`: the grant is consumed before the request is made, no
action gives it back, and an answered request is never on the wire again. With
`OneAttemptPerVersion` that is one order per version.

`PaymentMoneyProofs` goes on from there under the same assumptions. `MoneyInvariance` is
`Spec => [](MoneyInv /\ CancelsItsOwn)`, and from it follow `PendingUnsent`
(`PendingIsUnsent`), `StockHeldWhilePayable` (`PayableStockIsHeld`), `MoneyIsAnswered`
(`HeldMoneyIsAnswered`), `OrderIsBacked` (`OrderIsBackedByMoney`), and the two action properties
`MoneyForward` (`MoneyNeverRegresses`) and `LateCaptureIsNeverFulfilled`
(`NoOrderAfterDeadline`). The four invariants are inductive only together with

* `RoundsAreSound`: whoever reconciles, reconciles an attempt that was sent, and a capture it
  carries from the provider is one the buyer made, so a view that has gone stale never turns
  into an order without money;
* `ClosedIsFinal`: the version of a closed window can no longer be paid for;
* `CancelsItsOwn`: what a cancellation read before its lock belongs to the version it cancels.

`MoneyForward` needs more than the ranks of `monotonic_apply`: the guarded moves around it (an
escalation, the close of a window, a cancellation, a reconciliation's answer) write the status
directly, and that each of them finds the attempt where its rank allows the move is what `IInv`
and these invariants say.

`ImplementsPurchase` is `Spec => PurchaseSpec`. Under `IInv` and `MoneyInv` an attempt's outcome
is a function of its status alone (`OutcomeIsView`): the row that should be there is there. What
the refinement needs beyond them is `PurchaseInv`:

* `ApprovalIsCurrent`: a recorded approval is on an APPROVED version or on one that is retired,
  so a decision lapses exactly when its version does;
* `ReturnsWhatWasTaken`: an attempt in STALE_CAPTURE or REFUND_PENDING has a captured payment.

`SoldIsLatest` is the step that takes several actors to break: once an attempt is sold no newer
version exists and its own takes no approval, so nothing is agreed to afterwards. There is one
lemma per class of actions, and one for whatever applies evidence (`EvidencePurchase`), which
the webhook, the browser's return, reconciliation and a recovered order share.

`PaymentEventsProofs` proves, for any set of reported states, `EventsStopAtReconciliation`
(`NeverPastReconciliation`) and `ReportsOfProgressCommute` (`ProgressCommutes`). The closures of
the table are recursive functions; that they exist is `IterationExists`, by counting up with a
set in place of a predicate (`CountingUp`). `AdvanceWithin` says that a walk stays in any set its
steps do not leave, and `KnownFromIsClosed` that the walk through known outcomes has come to a
stand within as many steps as there are states, because until then each step met a new one. An
event then leads to what follows through known outcomes, or into what is unclear, where the
frontier stops it.

`OutboxProofs` proves, for any commands, workers, budget, batch size and lease longer than a
transaction's age: `TypeCorrect`, `LeasesAreExclusive` (`OneLiveLease`),
`StaleHoldersAreFenced` (`SupersededIsFenced`), `DeliveriesAreBounded`
(`HandOutsAreBounded`) and `ImplementsQueue` (`QueueSpec`, the refinement of `CommandQueue`).
None of them is inductive. Exclusion and fencing rest on the tokens of one command growing
strictly from hand-out to hand-out, although each is computed from a clock that may be
behind; the invariant says why:

* `HoldersAreKnown`, `OneHolderPerTurn`, `ReportedOnce`: who holds which hand-out;
* `TokenNamesTurn`: the column is the token of the last hand-out, earlier ones were less;
* `SupersededHasLapsed`: a lease the row has moved on from lies in the past;
* `NextTokenIsLater`: so the next token, at least `availableAt + LeaseSeconds`, is above all
  others. After a retry or a revival this needs `AgeAssumption`;
* `HandOutsCounted` and `CompletedIsCarriedOut` carry the budget and the refinement.

`SumTheorems` has what the three ledgers need of `SumFunctionOnSet` and `MapThenSumSet`: the sum
over a finite set with an element more, with one less, over a union, over a part, and of equal
summands. The folds of the community modules recurse over sets in an order of their own, and
the library's induction theorems take an operator as a parameter. `SubsetInduction` and
`FiniteInduction` do without one: what is proved of the subsets of a finite set is given as a
*set* of subsets that contains a subset whenever it contains all smaller ones, and the library's
well-founded order on the subsets gives a smallest counterexample.

`StockLedgerProofs` proves, for any items, carts, versions, requests, opening stock and edits,
all the properties of its run but the liveness one, and that holds are not revived:

* `HoldInvariance`, and from it `DefendedOnce` (`UnitsAreDefendedOnce`) and `SpentOnce`
  (`HoldsAreNotRevived`). `HoldInv`: one transaction at a time has a version's lock
  (`OneHolder`); what it has established under that lock still holds while it waits for the
  others (`Established`), so that `Sell` finds the version approved and its hold unspent; a sold
  version's hold was spent, and what became of it since; a hold that counts is of a version that is approved, neither sold
  nor retired (`Defended`).
* `ShelfInvariance`, and from it `LedgerBalances` (`BalanceIsLedger`). `ShelfInv`: a shelf row is
  locked by one transaction at a time, and for a locked row what it checked (`Allowed`,
  `EditAllowed`) is still true at its commit, so the balance stays a natural number and is the
  sum of its movements. Two invariants, because holds and shelf meet only in `Sell`.
* `LockInvariance`, and from it `ReserversPass` (`ReserversNeverDeadlock`). `LockInv`: the keys
  and rows a request has are the first ones of its cart in SKU order, a request that makes a
  fresh hold has the keys of its whole cart before it takes a row, and no two have one key. In
  any finite set of waiters, one of those that want the largest row wants one that nobody in
  the set has; if none waits for a row the same holds of the keys, and then of the versions.
* `NothingHeldTwice` (`HoldsFit`), from `SeenInvariance`: the capacity check counts the live
  holds when the request has the keys of its whole cart, and until it commits no hold on those
  items can appear, because a new hold needs their keys; the clock and the other requests only
  take holds away. That there are finitely many
  active holds and begun requests is part of the invariant, not an assumption on the constants.
* `Typed` (`TypeOK`), with `EditInv` for the merchant's transaction.
* `ImplementsShop`: `Spec => ShopSpec`, from `HoldInv` (the version a sale finds approved still
  is), `ShelfInv` (the rows it checked still suffice, and each balance is the sum of its
  movements) and `RowsBring`, that a delivery brings units to every row it has locked.
  Actions that only take locks or read are stutters; a sale, a hold, an end and an edit have a
  lemma each.

`ReserveAuthorityProofs` proves, for any permissions, purchases, prices, workers and bounds:
`Invariance`, `SinglePermission` (`OneLivePermission`), `UnknownStaysHeld`
(`AllocationTellsOutcome`) and `OnlyPermittedDebits` (`DebitsArePermitted`). Beside the
properties, `IInv` carries that an attempt is unsent exactly while its allocation is held and
its grant unconsumed (`Sound`), that a version with an attempt is no longer under review and
no pay request waits on it (`Reviewed`: two requests cannot both be admitted), and that a live
grant of an unsent debit has its version waiting (`Sendable`: no cancelled or closed purchase
is debited). Each action is shown to leave every purchase but its own alone; the sweep is
shown for all of them at once.

`Bookkeeping` is `Spec => []Sums`, with `Sums == IInv /\ TypeInv /\ BookInv`, and gives
`CapacityBalances` (`BooksBalance`) and `Typed` (`TypeOK`). `BookInv` says of each permission
that what it has consumed is the sum of the allocations that count against it, which never
exceeds the ceiling, equals it when the permission is EXHAUSTED and stays below it while it is
ACTIVE. The type of `consumed` is not inductive without those books: that it stays between zero
and the ceiling is their consequence. `TypeInv` has that no two workers have the same command and
none a lock without one (`Apart`), that the purchase of a command has an attempt (`Asked`), and
that the allocations are finitely many, although the purchases need not be.

`ImplementsAllowance` is `Spec => AllowanceSpec`. With the books, the test against the counter is
the test against the sum of the standing claims (`AdmitIsAllot`); `Sound` says that the grant of
a debit is spent exactly when the debit may have gone out, so an allocation is given back by a
refusal or the sweep only for debits nobody sent (`RefuseDebitIsGiveBack`, `SweepIsGiveBack`),
and an answer is taken only for those somebody did. Who allots or debits began while the
permission stood (`late` is false) and finds it unrevoked under its lock, which is what
`Clearance` says; that the permission still stands is not claimed, for it may have lapsed
during the wait. Two invariants more are needed: a permission that was never given has not
lapsed (`Unlapsed`), and nobody asks under one (`Granted`).

`RefundsProofs` proves, for any refunds, amounts, rounds, workers and weathers: `NeverResent`
(`SentAtMostOnce`) and `OneRefundInFlight` (`OneOpenRefund`). `SendInv` is that whoever is
about to send has spent the grant of a refund not sent before, and is the only one
(`SenderSpentGrant`, `OneSender`); a grant not yet spent goes with a refund not yet sent, and a
refund not admitted has no grant, so an admission never gives one back. `OpenInv` adds that an
attempt that would let a refund be admitted has none open; every worker's transaction is
reduced to what it may do to the row of its refund (`Verdict`).

It goes on to prove the rest of the safety properties of `Refunds`, in layers that each use the one below:

* `Typed` (`TypeOK`): no more workers hold a command than it has outstanding deliveries
  (`LeaseInv`), so its count never falls below zero, and a worker does what its command is for
  (`JobsFit`);
* `OrderTells` (`OrderTellsSettlement`): the order's status follows the sum of what is settled;
* `CaptureBounds` (`ReservedWithinCapture`), from `LedgerInv`. Without lost leases there is one
  command to a refund, and the row is in a state its command expects (`CommandInv`), so nothing
  that was given up is reserved again;
* `AbsenceIsProved` (`AbsenceIsTrue`), from `AbsenceInv`: a settled refund is settled at the
  provider, an answer is to a request that was sent, and a refusal is the provider's
  (`TruthInv`); a stale capture has one refund (`StaleIsAlone`); and if the provider has the
  refund a reconciliation asks about, the total it was told covers that refund on top of what
  the ledger has settled by now (`TotalCovers`), so a total explained without it proves it
  absent;
* `BooksAgreeAtRest` (`BooksAgree`), from `AgreeInv`, which adds that an open refund
  has a command outstanding whose grant has not expired (`OpenIsPursued`, itself the theorem
  `CalmIsPursued`), that a refund the provider named is asked about by its name only
  (`KnownByName`) and that the provider knows only what was sent (`KnownIsSent`).

Only model-checked are the liveness properties (`UncertainSettles`, `EverythingEnds`,
`RefundIsAnswered`, `RequestsAreAnswered`, `HeldIsSettled`), which are outside the prover's
reach, and the violations. Every safety and action property that a run checks is a theorem.

## 5. Not modelled

Listed with reasons under `components`. In short:

* agent and voice runtimes, protocol translation, search, console and rendering surfaces, the
  catalogue and its data: most of the repository's lines. They keep no state of the
  transaction, reach it only through the services modelled here, and have little control
  that a model could check;
* signatures, hashing and canonical JSON: pure functions of data the properties do not tell
  apart; the audit chain and receipts, which append to what a transaction does and decide
  nothing;
* idempotency records: the models repeat operations freely, which is more behaviour than
  their replay; the records' own claim and completion are not modelled;
* tenants: one tenant is modelled; row-level security keeps others apart, apart from the
  operating mode's global scope, which is modelled;
* drafting, deferral of approvals, the comparison of merchant state at admission (a choice
  between its outcomes), the proposal and approval of merchant actions.

## 6. What could follow

1. `Idempotency`: claim, completion and replay of one key under crashes and races.
2. Composition: the lifecycle's `command` as an instance of the outbox, and a refund of a
   `Purchase` that is returning as a refund of `Refunds`.
3. The voice and agent sessions, for their turn taking and cancellation, as a part of their
   own.
