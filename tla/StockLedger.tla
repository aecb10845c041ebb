---------------------------- MODULE StockLedger ----------------------------
(* Who may sell a unit: the holds of transaction_kernel/reservations.py, the *)
(* shelf and its ledger in commerce_api/inventory.py, and the three kinds of *)
(* transaction that move them.                                               *)
(*                                                                           *)
(*   a request   a review that takes a hold (freeze_for_approval) or an      *)
(*               admission (submit): reads the shop without a lock, locks    *)
(*               its version, takes one advisory lock per item, checks the   *)
(*               capacity, locks the shelf rows line by line, commits        *)
(*   an ending   cancel, a failed payment, the sweeper of lapsed holds       *)
(*   an edit     one merchant action or injection: locks the shop's head     *)
(*               row, reads the shelf, writes it back as movements           *)
(*                                                                           *)
(* The transactions run at READ COMMITTED: what one has written is seen by   *)
(* the others at its commit, and its locks last until then, so an uncommitted*)
(* write is its transaction's program counter and its locks. An item is a    *)
(* number, numbers compare as the SKU strings do, and a cart has at most one *)
(* line per item (checkout_content._ordered_lines refuses a second).         *)
EXTENDS Integers, FiniteSetsExt

CONSTANTS Sku,             \* the items, compared as their SKU strings are
          CatalogueOrder,  \* the place of each item in the catalogue
          Checkouts,       \* one approved version each
          Requests,        \* the reviews and submissions that arrive
          Of,              \* the checkout a request is for
          Cart,            \* the quantity of each item in a version, 0 if none
          ReviewedFirst,   \* versions frozen with reserve_stock=True
          Opening,         \* the shelf when the shop opens
          Edits,           \* the kinds of edit that may happen
          Quantities,      \* units a merchant names in an edit
          MaxEdits         \* bound: edits in one behaviour

ASSUME SkuAssumption == Sku \subseteq Nat /\ IsFiniteSet(Sku)
ASSUME RequestAssumption ==
    /\ Of \in [Requests -> Checkouts] /\ ReviewedFirst \subseteq Checkouts
    /\ "merchant" \notin Requests
ASSUME CartAssumption == Cart \in [Checkouts -> [Sku -> Nat]]
ASSUME OpeningAssumption == Opening \in [Sku -> Nat]
ASSUME EditAssumption ==
    /\ Edits \subseteq {"STOCK_RECEIPT", "STOCK_SET", "STOCK_DECREMENT", "CATALOGUE_RESET"}
    /\ Quantities \subseteq Nat
    /\ CatalogueOrder \in [Sku -> Nat]
    /\ \A s, t \in Sku : CatalogueOrder[s] = CatalogueOrder[t] => s = t

VARIABLES
    shelf,      \* merchant_sku_state.stock_units, as committed
    moved,      \* the sum of inventory_movements.units of each kind and item
    sales,      \* the versions with a SOLD row (uq_inventory_movements_sale)
    version,    \* how far each version has come
    hold,       \* the reservation row of each version, "NONE" before it exists
    lapsed,     \* the holds whose expires_at the database clock has passed
    req,        \* the transaction of each request
    edit,       \* the transaction of the merchant, "none" between edits
    edits,      \* edits begun
    delivered   \* history: units the applied deliveries brought

vars == <<shelf, moved, sales, version, hold, lapsed, req, edit, edits, delivered>>
ledger == <<shelf, moved, sales, delivered>>
holds == <<version, hold, lapsed>>
merchant == <<edit, edits>>

MovementKind == {"RECEIVED", "SOLD", "ADJUSTED"}
ReservationStatus == {"NONE", "ACTIVE", "CONSUMED", "RELEASED", "EXPIRED"}

Lines(c) == {s \in Sku : Cart[c][s] > 0}

Idle == [pc |-> "idle", act |-> "none", seen |-> [s \in Sku |-> 0], late |-> {},
         keys |-> {}, rows |-> {}]
NoEdit == [pc |-> "none", kind |-> "none", target |-> [s \in Sku |-> 0],
           before |-> [s \in Sku |-> 0], brought |-> [s \in Sku |-> 0],
           todo |-> {}, rows |-> {}]

Init ==
    /\ shelf = Opening
    /\ moved = [s \in Sku |-> [k \in MovementKind |-> IF k = "RECEIVED" THEN Opening[s] ELSE 0]]
    /\ sales = {}
    /\ version = [c \in Checkouts |-> IF c \in ReviewedFirst THEN "quoted" ELSE "approved"]
    /\ hold = [c \in Checkouts |-> "NONE"]
    /\ lapsed = {}
    /\ req = [r \in Requests |-> Idle]
    /\ edit = NoEdit /\ edits = 0
    /\ delivered = [s \in Sku |-> 0]

-----------------------------------------------------------------------------
\* Locks. All of them are held to the end of the transaction.

InTransaction(r) == req[r].pc \in {"keys", "rows"}
VersionHolders(c) == {r \in Requests : Of[r] = c /\ InTransaction(r)}
KeyHolders(s) == {r \in Requests : s \in req[r].keys}
RowHolders(s) == {r \in Requests : s \in req[r].rows}
RowFree(s) == RowHolders(s) = {} /\ s \notin edit.rows

\* allocations and lines are both taken in the order of the SKU
\* mutant: in the order the caller names them
MutNextLine(r, remaining) ==
    CHOOSE s \in remaining : \A t \in remaining : IF Of[r] \in ReviewedFirst THEN s >= t ELSE s <= t
NextLine(r, remaining) == CHOOSE s \in remaining : \A t \in remaining : s <= t
KeysTaken(r) == req[r].keys = Lines(Of[r])
NextKey(r) == NextLine(r, Lines(Of[r]) \ req[r].keys)
NextRow(r) == NextLine(r, Lines(Of[r]) \ req[r].rows)

\* the transaction commits or rolls back, and its locks go with it
\* mutant: session-level advisory locks, which outlive the transaction
MutEnded(r) == [req EXCEPT ![r] = [Idle EXCEPT !.keys = req[r].keys]]
Ended(r) == [req EXCEPT ![r] = Idle]

\* what the database's clock said of a hold when the transaction of r began: now()
Live(r, c) == hold[c] = "ACTIVE" /\ c \notin req[r].late
HeldElsewhere(r, s) ==
    MapThenSumSet(LAMBDA c : Cart[c][s], {c \in Checkouts \ {Of[r]} : Live(r, c)})
Fits(r) == \A s \in Lines(Of[r]) : HeldElsewhere(r, s) + Cart[Of[r]][s] <= req[r].seen[s]

-----------------------------------------------------------------------------
\* A request.

\* The shop as submit hands it to the Kernel: state_source and allocations_for
\* are read before admit takes its first lock. now() is fixed here too.
Look(r) ==
    /\ req[r].pc = "idle"
    /\ version[Of[r]] \in {"quoted", "approved"}
    /\ req' = [req EXCEPT ![r] =
                [pc |-> "looked", act |-> IF version[Of[r]] = "quoted" THEN "review" ELSE "admit",
                 seen |-> shelf, late |-> {c \in lapsed : hold[c] = "ACTIVE"},
                 keys |-> {}, rows |-> {}]]
    /\ UNCHANGED <<ledger, holds, merchant>>

\* The version row can be locked now: the decision below is made under its lock.
Decides(r) == req[r].pc = "looked" /\ VersionHolders(Of[r]) = {}
\* a hold that was never taken, or one still good; a spent one is never revived
\* mutant: a hold that was given back is taken again
MutSpendable(r) == hold[Of[r]] # "CONSUMED"
Spendable(r) == hold[Of[r]] = "NONE" \/ Live(r, Of[r])
Eligible(r) ==
    \/ req[r].act = "review" /\ version[Of[r]] = "quoted"
    \/ req[r].act = "admit" /\ version[Of[r]] = "approved" /\ Spendable(r)
Short(r) == {s \in Lines(Of[r]) : req[r].seen[s] < Cart[Of[r]][s]}

Refuse(r) ==
    /\ Decides(r) /\ ~Eligible(r)
    /\ req' = Ended(r)
    /\ UNCHANGED <<ledger, holds, merchant>>

\* merchant_state.revalidate() finds something of the version not to be had
Changed(r) == Decides(r) /\ Eligible(r) /\ req[r].act = "admit" /\ Short(r) # {}

\* What the shop can no longer sell retires the version and gives its hold back,
\* in one transaction: when a remainder makes a successor, before the successor
\* is frozen (_freeze_successor), which takes no hold of its own.
Supersede(r) ==
    /\ Changed(r)
    /\ version' = [version EXCEPT ![Of[r]] = "ended"]
    /\ hold' = IF hold[Of[r]] = "ACTIVE" THEN [hold EXCEPT ![Of[r]] = "RELEASED"] ELSE hold
    /\ req' = Ended(r)
    /\ UNCHANGED <<ledger, lapsed, merchant>>

Proceed(r) ==
    /\ Decides(r) /\ Eligible(r)
    /\ req[r].act = "admit" => Short(r) = {}
    /\ req' = [req EXCEPT ![r].pc = IF hold[Of[r]] = "NONE" THEN "keys" ELSE "rows"]
    /\ UNCHANGED <<ledger, holds, merchant>>

\* reserve(): the advisory locks of every item, then the capacity check
TakeKey(r) ==
    /\ req[r].pc = "keys" /\ ~KeysTaken(r)
    /\ KeyHolders(NextKey(r)) = {}
    /\ req' = [req EXCEPT ![r].keys = @ \union {NextKey(r)}]
    /\ UNCHANGED <<ledger, holds, merchant>>

Checks(r) == req[r].pc = "keys" /\ KeysTaken(r)

NoStock(r) ==
    /\ Checks(r) /\ ~Fits(r)
    /\ req' = Ended(r)
    /\ UNCHANGED <<ledger, holds, merchant>>

\* a review commits its hold and puts the version in front of the buyer
HoldAtReview(r) ==
    /\ Checks(r) /\ Fits(r) /\ req[r].act = "review"
    /\ hold' = [hold EXCEPT ![Of[r]] = "ACTIVE"]
    /\ version' = [version EXCEPT ![Of[r]] = "approved"]
    /\ req' = Ended(r)
    /\ UNCHANGED <<ledger, lapsed, merchant>>

\* mutant: the advisory locks are given back once the capacity is checked
MutReserve(r) ==
    /\ Checks(r) /\ Fits(r) /\ req[r].act = "admit"
    /\ req' = [req EXCEPT ![r].pc = "rows", ![r].keys = {}]
    /\ UNCHANGED <<ledger, holds, merchant>>
\* an admission keeps the hold it inserted to itself until it commits
Reserve(r) ==
    /\ Checks(r) /\ Fits(r) /\ req[r].act = "admit"
    /\ req' = [req EXCEPT ![r].pc = "rows"]
    /\ UNCHANGED <<ledger, holds, merchant>>

\* The delegated authority does not cover the amount: a denial that commits,
\* and gives back the hold this admission took.
\* mutant: the denial commits without release_refused_admission_hold
MutRefuseAuthority(r) ==
    /\ req[r].pc = "rows" /\ req[r].rows = {}
    /\ hold' = IF hold[Of[r]] = "NONE" THEN [hold EXCEPT ![Of[r]] = "ACTIVE"] ELSE hold
    /\ req' = Ended(r)
    /\ UNCHANGED <<ledger, version, lapsed, merchant>>
RefuseAuthority(r) ==
    /\ req[r].pc = "rows" /\ req[r].rows = {}
    /\ hold' = IF hold[Of[r]] = "NONE" THEN [hold EXCEPT ![Of[r]] = "RELEASED"] ELSE hold
    /\ req' = Ended(r)
    /\ UNCHANGED <<ledger, version, lapsed, merchant>>

\* record(): the balance row FOR UPDATE, read afresh under its lock. A movement
\* below zero, or a second SOLD row of the version, fails the whole transaction.
\* mutant: the non-negative CHECK is missing, the stock that was read is trusted
MutAllowed(r, s) == req[r].seen[s] >= Cart[Of[r]][s] /\ Of[r] \notin sales
Allowed(r, s) == shelf[s] >= Cart[Of[r]][s] /\ Of[r] \notin sales

TakeRow(r) ==
    /\ req[r].pc = "rows" /\ req[r].rows # Lines(Of[r])
    /\ RowFree(NextRow(r)) /\ Allowed(r, NextRow(r))
    /\ req' = [req EXCEPT ![r].rows = @ \union {NextRow(r)}]
    /\ UNCHANGED <<ledger, holds, merchant>>

SoldOut(r) ==
    /\ req[r].pc = "rows" /\ req[r].rows # Lines(Of[r])
    /\ RowFree(NextRow(r)) /\ ~Allowed(r, NextRow(r))
    /\ req' = Ended(r)
    /\ UNCHANGED <<ledger, holds, merchant>>

Sell(r) ==
    /\ req[r].pc = "rows" /\ req[r].rows = Lines(Of[r])
    /\ shelf' = [s \in Sku |-> shelf[s] - Cart[Of[r]][s]]
    /\ moved' = [s \in Sku |-> [moved[s] EXCEPT !["SOLD"] = @ - Cart[Of[r]][s]]]
    /\ sales' = sales \union {Of[r]}
    /\ hold' = [hold EXCEPT ![Of[r]] = "CONSUMED"]
    /\ version' = [version EXCEPT ![Of[r]] = "admitted"]
    /\ req' = Ended(r)
    /\ UNCHANGED <<lapsed, merchant, delivered>>

-----------------------------------------------------------------------------
\* The end of a hold.

\* cancel() before the money moved, or the confirmed failure of the payment:
\* release() from ACTIVE or CONSUMED. The shelf does not get the units back.
Release(c) ==
    /\ VersionHolders(c) = {} /\ version[c] # "ended"
    /\ version' = [version EXCEPT ![c] = "ended"]
    /\ hold' = IF hold[c] \in {"ACTIVE", "CONSUMED"} THEN [hold EXCEPT ![c] = "RELEASED"] ELSE hold
    /\ UNCHANGED <<ledger, lapsed, req, merchant>>

Lapse(c) ==
    /\ hold[c] = "ACTIVE" /\ c \notin lapsed
    /\ lapsed' = lapsed \union {c}
    /\ UNCHANGED <<ledger, version, hold, req, merchant>>

\* sweep_expired(), SKIP LOCKED: a row an admission holds is left alone
Sweep(c) ==
    /\ hold[c] = "ACTIVE" /\ c \in lapsed /\ VersionHolders(c) = {}
    /\ hold' = [hold EXCEPT ![c] = "EXPIRED"]
    /\ UNCHANGED <<ledger, version, lapsed, req, merchant>>

-----------------------------------------------------------------------------
\* An edit, under the lock of the shop's head row: one at a time.

NewEdit == edit.pc = "none" /\ edits < MaxEdits

\* execute_action reads what is on hand and makes the delivery an absolute number
BeginReceipt(s, n) ==
    /\ NewEdit /\ "STOCK_RECEIPT" \in Edits /\ n > 0
    /\ edit' = [NoEdit EXCEPT !.pc = "locked", !.kind = "STOCK_RECEIPT",
                              !.target = [shelf EXCEPT ![s] = @ + n],
                              !.brought[s] = n]
    /\ edits' = edits + 1
    /\ UNCHANGED <<ledger, holds, req>>

\* mutating() reads the shelf again and works out what moved
ReadShelf(kind, target) ==
    edit' = [NoEdit EXCEPT !.pc = "read", !.kind = kind, !.before = shelf, !.target = target,
                           !.brought = edit.brought,
                           !.todo = {s \in Sku : target[s] # shelf[s]}]

\* only the item named is moved: every other one keeps what this read found
ReadForReceipt ==
    /\ edit.pc = "locked"
    /\ ReadShelf("STOCK_RECEIPT",
                 [s \in Sku |-> IF edit.brought[s] > 0 THEN edit.target[s] ELSE shelf[s]])
    /\ UNCHANGED <<ledger, holds, req, edits>>

BeginSet(s, n) ==
    /\ NewEdit /\ "STOCK_SET" \in Edits
    /\ ReadShelf("STOCK_SET", [shelf EXCEPT ![s] = n])
    /\ edits' = edits + 1
    /\ UNCHANGED <<ledger, holds, req>>

BeginDecrement(s, n) ==
    /\ NewEdit /\ "STOCK_DECREMENT" \in Edits /\ 0 < n /\ n <= shelf[s]
    /\ ReadShelf("STOCK_DECREMENT", [shelf EXCEPT ![s] = @ - n])
    /\ edits' = edits + 1
    /\ UNCHANGED <<ledger, holds, req>>

BeginReset ==
    /\ NewEdit /\ "CATALOGUE_RESET" \in Edits
    /\ ReadShelf("CATALOGUE_RESET", Opening)
    /\ edits' = edits + 1
    /\ UNCHANGED <<ledger, holds, req>>

MovementOf(kind) == IF kind = "STOCK_RECEIPT" THEN "RECEIVED" ELSE "ADJUSTED"
Delta(s) == edit.target[s] - edit.before[s]
\* the balance after the movement, carried from the row as locked
\* mutant: the balance is what this transaction read plus what it moves
MutBalance(s) == edit.before[s] + Delta(s)
Balance(s) == shelf[s] + Delta(s)
EditAllowed(s) ==
    /\ Balance(s) >= 0
    /\ MovementOf(edit.kind) = "RECEIVED" => Delta(s) > 0

\* mutating() walks the stock as the catalogue orders it
NextMoved == CHOOSE s \in edit.todo : \A t \in edit.todo : CatalogueOrder[s] <= CatalogueOrder[t]

EditRow ==
    /\ edit.pc = "read" /\ edit.todo # {}
    /\ RowFree(NextMoved) /\ EditAllowed(NextMoved)
    /\ edit' = [edit EXCEPT !.rows = @ \union {NextMoved}, !.todo = @ \ {NextMoved}]
    /\ UNCHANGED <<ledger, holds, req, edits>>

EditRefused ==
    /\ edit.pc = "read" /\ edit.todo # {}
    /\ RowFree(NextMoved) /\ ~EditAllowed(NextMoved)
    /\ edit' = NoEdit
    /\ UNCHANGED <<ledger, holds, req, edits>>

EditCommit ==
    /\ edit.pc = "read" /\ edit.todo = {}
    /\ shelf' = [s \in Sku |-> IF s \in edit.rows THEN Balance(s) ELSE shelf[s]]
    /\ moved' = [s \in Sku |-> IF s \in edit.rows
                               THEN [moved[s] EXCEPT ![MovementOf(edit.kind)] = @ + Delta(s)]
                               ELSE moved[s]]
    /\ delivered' = [s \in Sku |-> delivered[s] + edit.brought[s]]
    /\ edit' = NoEdit
    /\ UNCHANGED <<sales, holds, req, edits>>

-----------------------------------------------------------------------------
\* PostgreSQL's deadlock detector: somebody in a cycle of waits is rolled back.

Actors == Requests \union {"merchant"}
RequestsInTheWay(r) ==
    CASE req[r].pc = "looked" -> VersionHolders(Of[r])
      [] req[r].pc = "keys" /\ ~KeysTaken(r) -> KeyHolders(NextKey(r))
      [] req[r].pc = "rows" /\ req[r].rows # Lines(Of[r]) -> RowHolders(NextRow(r))
      [] OTHER -> {}
InTheWay(a) ==
    IF a = "merchant"
    THEN IF edit.pc = "read" /\ edit.todo # {} THEN RowHolders(NextMoved) ELSE {}
    ELSE RequestsInTheWay(a) \union
         (IF /\ req[a].pc = "rows" /\ req[a].rows # Lines(Of[a])
             /\ NextRow(a) \in edit.rows
          THEN {"merchant"} ELSE {})
Waiting(A) == {a \in A : InTheWay(a) # {}}
Deadlocked(S) == S # {} /\ \A a \in S : InTheWay(a) \intersect S # {}
Deadlocks(A) == {S \in SUBSET Waiting(A) : Deadlocked(S)}

Victim(r) ==
    /\ InTheWay(r) # {} /\ \E S \in Deadlocks(Actors) : r \in S
    /\ req' = Ended(r)
    /\ UNCHANGED <<ledger, holds, merchant>>

EditVictim ==
    /\ InTheWay("merchant") # {} /\ \E S \in Deadlocks(Actors) : "merchant" \in S
    /\ edit' = NoEdit
    /\ UNCHANGED <<ledger, holds, req, edits>>

-----------------------------------------------------------------------------
RequestStep(r) ==
    \/ Refuse(r) \/ Supersede(r) \/ Proceed(r)
    \/ TakeKey(r) \/ NoStock(r) \/ HoldAtReview(r) \/ Reserve(r)
    \/ RefuseAuthority(r) \/ TakeRow(r) \/ SoldOut(r) \/ Sell(r)
    \/ Victim(r)

EditStep == ReadForReceipt \/ EditRow \/ EditRefused \/ EditCommit \/ EditVictim

Next ==
    \/ \E r \in Requests : Look(r) \/ RequestStep(r)
    \/ \E c \in Checkouts : Release(c) \/ Lapse(c) \/ Sweep(c)
    \/ \E s \in Sku, n \in Quantities : BeginReceipt(s, n) \/ BeginSet(s, n) \/ BeginDecrement(s, n)
    \/ BeginReset
    \/ EditStep

Spec == Init /\ [][Next]_vars

\* A transaction that has begun goes on, and waiters get a lock in the order
\* they came for it: whoever could take it again and again gets it.
FairSpec == Spec /\ (\A r \in Requests : SF_vars(RequestStep(r))) /\ SF_vars(EditStep)

-----------------------------------------------------------------------------
\* Properties.

TypeOK ==
    \* Types. The shelf is never below zero: no sale and no edit takes a unit
    \* that is not there, whatever it read before it had the row.
    /\ shelf \in [Sku -> Nat]
    /\ moved \in [Sku -> [MovementKind -> Int]]
    /\ sales \subseteq Checkouts
    /\ version \in [Checkouts -> {"quoted", "approved", "admitted", "ended"}]
    /\ hold \in [Checkouts -> ReservationStatus]
    /\ lapsed \subseteq Checkouts
    /\ req \in [Requests -> [pc : {"idle", "looked", "keys", "rows"},
                             act : {"none", "review", "admit"}, seen : [Sku -> Nat],
                             late : SUBSET Checkouts, keys : SUBSET Sku, rows : SUBSET Sku]]
    /\ edit \in [pc : {"none", "locked", "read"}, kind : Edits \union {"none"},
                 target : [Sku -> Nat], before : [Sku -> Nat], brought : [Sku -> Nat],
                 todo : SUBSET Sku, rows : SUBSET Sku]
    /\ edits \in Nat
    /\ delivered \in [Sku -> Nat]

\* The maintained balance is the sum of the movements, whatever sales and edits
\* interleaved (test_every_balance_equals_its_movements checks it at rest).
BalanceIsLedger ==
    \A s \in Sku : shelf[s] = moved[s]["RECEIVED"] + moved[s]["SOLD"] + moved[s]["ADJUSTED"]

\* A version's units leave the shelf exactly when its hold is spent: no version
\* is sold on a hold that is still counted or was given back before, and no spent
\* hold lacks its sale. A hold still counted belongs to a version that was put
\* before the buyer by a review and is neither sold nor retired: no committed
\* refusal, supersession, cancellation or sale leaves one counted behind it.
UnitsAreDefendedOnce ==
    \A c \in Checkouts :
        /\ hold[c] = "CONSUMED" <=> version[c] = "admitted"
        /\ hold[c] = "CONSUMED" => c \in sales
        /\ hold[c] = "ACTIVE" => version[c] = "approved" /\ c \in ReviewedFirst \ sales

\* Whoever has passed the capacity check and not yet committed: its units and
\* every other live hold, committed or not, fit in the stock it was shown.
FreshHold(r) == req[r].pc = "rows" /\ hold[Of[r]] = "NONE"
HoldsFit ==
    \A r \in {x \in Requests : FreshHold(x)}, s \in Sku :
        LET others == {c \in Checkouts \ {Of[r]} :
                        \/ hold[c] = "ACTIVE" /\ c \notin lapsed
                        \/ \E q \in Requests : Of[q] = c /\ FreshHold(q)}
        IN  s \in Lines(Of[r]) =>
                MapThenSumSet(LAMBDA c : Cart[c][s], others) + Cart[Of[r]][s] <= req[r].seen[s]

\* Two reservers never each hold the lock the other is waiting for, over the
\* version, item and shelf locks together.
ReserversNeverDeadlock == Deadlocks(Requests) = {}

\* A hold that was released, swept or spent is never spent again.
HoldsAreNotRevived ==
    [][\A c \in Checkouts :
        /\ hold[c] \in {"RELEASED", "EXPIRED"} => hold'[c] = hold[c]
        /\ hold[c] = "CONSUMED" => hold'[c] \in {"CONSUMED", "RELEASED"}]_vars

\* Every request that has begun is answered.
RequestsAreAnswered == \A r \in Requests : req[r].pc # "idle" ~> req[r].pc = "idle"

\* The stock is a shop: what it owes a version is what the version and its
\* reservation row say together.
Promise(c) ==
    IF version[c] = "ended" \/ hold[c] \in {"RELEASED", "EXPIRED"} THEN "over"
    ELSE CASE hold[c] = "NONE" -> "open"
           [] hold[c] = "ACTIVE" -> "held"
           [] hold[c] = "CONSUMED" -> "sold"

TheShop ==
    INSTANCE Shop WITH ledger <- moved, sold <- sales,
                       promise <- [c \in Checkouts |-> Promise(c)]

\* The stock implements the shop: a version is sold whole and once, before what
\* it was promised is over, from what the movements say is on hand, and an edit
\* posts one kind of movement that a delivery only adds to (reservations.py,
\* inventory.py, store.py, merchant_action_service.py).
ShopSpec == TheShop!Spec

-----------------------------------------------------------------------------
\* Claims of the sources.

\* "the units are added to what is on the shelf right now ... so a delivery
\* approved against one shelf cannot land on a different one"
\* (merchant_action_service.py): the ledger's RECEIVED units are what arrived.
ReceiptAddsWhatArrived == \A s \in Sku : moved[s]["RECEIVED"] = Opening[s] + delivered[s]

\* "there is no order in which two mutations could each hold what the other
\* wants" (merchant_state.lock_for_update): nobody moving the shelf waits in a
\* cycle, the merchant included.
NoMutationsDeadlock == Deadlocks(Actors) = {}
=============================================================================
