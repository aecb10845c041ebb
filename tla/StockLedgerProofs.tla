------------------------- MODULE StockLedgerProofs -------------------------
(* Theorems about StockLedger, for any items, checkouts, carts, requests and *)
(* edits, and any opening stock.                                             *)
EXTENDS StockLedger, SumTheorems, TLAPS

-----------------------------------------------------------------------------
\* The holds: the inductive invariant.

RequestShape(x) ==
    x = [pc |-> x.pc, act |-> x.act, seen |-> x.seen, late |-> x.late,
         keys |-> x.keys, rows |-> x.rows]

Shaped ==
    /\ req = [r \in Requests |-> req[r]]
    /\ \A r \in Requests : RequestShape(req[r])
    /\ hold = [c \in Checkouts |-> hold[c]] /\ version = [c \in Checkouts |-> version[c]]

\* The lock on a version is had by one request at a time.
OneHolder ==
    \A r, q \in Requests : InTransaction(r) /\ InTransaction(q) /\ Of[r] = Of[q] => r = q

\* What a request has established under the lock it still has.
Established(r) ==
    /\ req[r].pc = "keys" => hold[Of[r]] = "NONE"
    /\ req[r].pc = "rows" => hold[Of[r]] \in {"NONE", "ACTIVE"} /\ req[r].act = "admit"
    /\ InTransaction(r) /\ req[r].act = "admit" => version[Of[r]] = "approved"
    /\ InTransaction(r) /\ req[r].act # "admit" => version[Of[r]] = "quoted"

\* What the row of a version says of its hold and its sale.
Defended(c) ==
    /\ hold[c] = "CONSUMED" <=> version[c] = "admitted"
    /\ c \in sales => hold[c] \in {"CONSUMED", "RELEASED"}
    /\ hold[c] = "CONSUMED" => c \in sales
    /\ hold[c] = "ACTIVE" => version[c] = "approved" /\ c \in ReviewedFirst
    /\ version[c] = "quoted" => c \in ReviewedFirst /\ hold[c] = "NONE"

HoldInv ==
    /\ Shaped /\ OneHolder
    /\ \A r \in Requests : Established(r)
    /\ \A c \in Checkouts : Defended(c)

-----------------------------------------------------------------------------
\* The transaction of a request.

LEMMA PcChanged ==
    ASSUME NEW x, RequestShape(x), NEW pc
    PROVE  [x EXCEPT !.pc = pc] =
             [pc |-> pc, act |-> x.act, seen |-> x.seen, late |-> x.late,
              keys |-> x.keys, rows |-> x.rows]
BY DEF RequestShape

LEMMA KeysChanged ==
    ASSUME NEW x, RequestShape(x), NEW keys
    PROVE  [x EXCEPT !.keys = keys] =
             [pc |-> x.pc, act |-> x.act, seen |-> x.seen, late |-> x.late,
              keys |-> keys, rows |-> x.rows]
BY DEF RequestShape

LEMMA RowsChanged ==
    ASSUME NEW x, RequestShape(x), NEW rows
    PROVE  [x EXCEPT !.rows = rows] =
             [pc |-> x.pc, act |-> x.act, seen |-> x.seen, late |-> x.late,
              keys |-> x.keys, rows |-> rows]
BY DEF RequestShape

\* A request without a lock promises nothing.
LEMMA Unlocked ==
    ASSUME HoldInv, NEW r \in Requests, NEW x, req' = [req EXCEPT ![r] = x],
           RequestShape(x), x.pc \in {"idle", "looked"}
    PROVE  /\ req' = [q \in Requests |-> req'[q]]
           /\ \A q \in Requests : RequestShape(req'[q])
           /\ OneHolder'
           /\ \A q \in Requests : q # r => req'[q] = req[q]
           /\ req'[r] = x
<1>1. \A q \in Requests : req'[q] = IF q = r THEN x ELSE req[q]
  BY DEF HoldInv, Shaped
<1>2. OneHolder'
  BY <1>1 DEF HoldInv, OneHolder, InTransaction
<1> QED
  BY <1>1, <1>2 DEF HoldInv, Shaped

LEMMA IdleShape == RequestShape(Idle) /\ Idle.pc = "idle" /\ Idle.act = "none"
BY DEF RequestShape, Idle

\* A transaction that changes no row of its version.
LEMMA BackOutKeeps ==
    ASSUME HoldInv, NEW r \in Requests, NEW x, req' = [req EXCEPT ![r] = x],
           RequestShape(x), x.pc \in {"idle", "looked"},
           UNCHANGED <<hold, version, sales>>
    PROVE  HoldInv'
<1>1. \A q \in Requests : Established(q)'
  <2> SUFFICES ASSUME NEW q \in Requests PROVE Established(q)'
    OBVIOUS
  <2>1. CASE q = r
    BY <2>1, Unlocked DEF Established, InTransaction
  <2>2. CASE q # r
    BY <2>2, Unlocked DEF HoldInv, Established, InTransaction
  <2> QED
    BY <2>1, <2>2
<1>2. \A c \in Checkouts : Defended(c)'
  BY DEF HoldInv, Defended
<1> QED
  BY <1>1, <1>2, Unlocked DEF HoldInv, Shaped

\* A transaction that commits a change of its version's rows and ends.
LEMMA CommitKeeps ==
    ASSUME HoldInv, NEW r \in Requests, req' = [req EXCEPT ![r] = Idle],
           \A q \in Requests : InTransaction(q) /\ Of[q] = Of[r] => q = r,
           NEW h, hold' = [hold EXCEPT ![Of[r]] = h],
           NEW v, version' = [version EXCEPT ![Of[r]] = v],
           sales' \in {sales, sales \cup {Of[r]}},
           Defended(Of[r])'
    PROVE  HoldInv'
<1>1. Of[r] \in Checkouts
  BY RequestAssumption
<1>2. \A c \in Checkouts : c # Of[r] => hold'[c] = hold[c] /\ version'[c] = version[c]
  BY DEF HoldInv, Shaped
<1>3. \A c \in Checkouts : Defended(c)'
  BY <1>2 DEF HoldInv, Defended
<1>4. \A q \in Requests : Established(q)'
  <2> SUFFICES ASSUME NEW q \in Requests PROVE Established(q)'
    OBVIOUS
  <2>1. CASE q = r
    BY <2>1, Unlocked, IdleShape DEF Established, InTransaction
  <2>2. CASE q # r
    <3>1. req'[q] = req[q]
      BY <2>2, Unlocked, IdleShape
    <3>2. CASE InTransaction(q)
      <4>1. Of[q] # Of[r] /\ Of[q] \in Checkouts
        BY <2>2, <3>2, RequestAssumption
      <4> QED
        BY <3>1, <4>1, <1>2 DEF HoldInv, Established, InTransaction
    <3>3. CASE ~InTransaction(q)
      BY <3>1, <3>3 DEF Established, InTransaction
    <3> QED
      BY <3>2, <3>3
  <2> QED
    BY <2>1, <2>2
<1>5. /\ hold' = [c \in Checkouts |-> hold'[c]]
      /\ version' = [c \in Checkouts |-> version'[c]]
  BY DEF HoldInv, Shaped
<1> QED
  BY <1>3, <1>4, <1>5, Unlocked, IdleShape DEF HoldInv, Shaped

\* A transaction that goes on.
LEMMA GoesOnKeeps ==
    ASSUME HoldInv, NEW r \in Requests, NEW x, req' = [req EXCEPT ![r] = x],
           RequestShape(x), x.act = req[r].act, x.pc \in {"keys", "rows"},
           \A q \in Requests : InTransaction(q) /\ Of[q] = Of[r] => q = r,
           UNCHANGED <<hold, version, sales>>,
           x.pc = "keys" => hold[Of[r]] = "NONE",
           x.pc = "rows" => hold[Of[r]] \in {"NONE", "ACTIVE"} /\ x.act = "admit",
           x.act = "admit" => version[Of[r]] = "approved",
           x.act # "admit" => version[Of[r]] = "quoted"
    PROVE  HoldInv'
<1>1. \A q \in Requests : req'[q] = IF q = r THEN x ELSE req[q]
  BY DEF HoldInv, Shaped
<1>2. OneHolder'
  BY <1>1 DEF HoldInv, OneHolder, InTransaction
<1>3. \A q \in Requests : Established(q)'
  BY <1>1 DEF HoldInv, Established, InTransaction
<1>4. \A c \in Checkouts : Defended(c)'
  BY DEF HoldInv, Defended
<1>5. Shaped'
  BY <1>1 DEF HoldInv, Shaped
<1> QED
  BY <1>2, <1>3, <1>4, <1>5 DEF HoldInv

LEMMA FreeVersion ==
    ASSUME NEW r \in Requests, Decides(r)
    PROVE  \A q \in Requests : InTransaction(q) => Of[q] # Of[r]
BY DEF Decides, VersionHolders

LEMMA OnlyHolder ==
    ASSUME HoldInv, NEW r \in Requests, InTransaction(r)
    PROVE  \A q \in Requests : InTransaction(q) /\ Of[q] = Of[r] => q = r
BY DEF HoldInv, OneHolder

LEMMA LookKeeps == ASSUME HoldInv, NEW r \in Requests, Look(r) PROVE HoldInv'
<1> DEFINE x == [pc |-> "looked", act |-> IF version[Of[r]] = "quoted" THEN "review" ELSE "admit",
                 seen |-> shelf, late |-> {c \in lapsed : hold[c] = "ACTIVE"},
                 keys |-> {}, rows |-> {}]
<1>1. req' = [req EXCEPT ![r] = x] /\ UNCHANGED <<hold, version, sales>>
  BY DEF Look, ledger, holds
<1>2. RequestShape(x) /\ x.pc = "looked"
  BY DEF RequestShape
<1> HIDE DEF x
<1> QED
  BY <1>1, <1>2, BackOutKeeps

LEMMA RollbackKeeps ==
    ASSUME HoldInv, NEW r \in Requests, req' = Ended(r), UNCHANGED <<hold, version, sales>>
    PROVE  HoldInv'
BY BackOutKeeps, IdleShape DEF Ended

LEMMA ProceedKeeps == ASSUME HoldInv, NEW r \in Requests, Proceed(r) PROVE HoldInv'
<1> DEFINE pc == IF hold[Of[r]] = "NONE" THEN "keys" ELSE "rows"
           x == [req[r] EXCEPT !.pc = pc]
           new == [pc |-> pc, act |-> req[r].act, seen |-> req[r].seen, late |-> req[r].late,
                   keys |-> req[r].keys, rows |-> req[r].rows]
<1>1. x = new
  BY PcChanged DEF HoldInv, Shaped
<1>2. RequestShape(new) /\ new.pc = pc /\ new.act = req[r].act
  BY DEF RequestShape
<1>3. req' = [req EXCEPT ![r] = new] /\ UNCHANGED <<hold, version, sales>>
  BY <1>1 DEF Proceed, ledger, holds
<1>4. Of[r] \in Checkouts /\ Defended(Of[r])
  BY RequestAssumption DEF HoldInv
<1>5. /\ req[r].act = "admit" => version[Of[r]] = "approved" /\ hold[Of[r]] \in {"NONE", "ACTIVE"}
      /\ req[r].act # "admit" => version[Of[r]] = "quoted" /\ hold[Of[r]] = "NONE"
  BY <1>4 DEF Proceed, Eligible, Spendable, Live, Defended
<1>6. /\ pc \in {"keys", "rows"}
      /\ pc = "keys" => hold[Of[r]] = "NONE"
      /\ pc = "rows" => hold[Of[r]] \in {"NONE", "ACTIVE"} /\ req[r].act = "admit"
      /\ req[r].act = "admit" => version[Of[r]] = "approved"
      /\ req[r].act # "admit" => version[Of[r]] = "quoted"
  BY <1>5
<1> HIDE DEF new, x, pc
<1>7. \A q \in Requests : InTransaction(q) /\ Of[q] = Of[r] => q = r
  BY FreeVersion DEF Proceed
<1> QED
  BY <1>2, <1>3, <1>6, <1>7, GoesOnKeeps

LEMMA TakeKeyKeeps == ASSUME HoldInv, NEW r \in Requests, TakeKey(r) PROVE HoldInv'
<1> DEFINE new == [pc |-> req[r].pc, act |-> req[r].act, seen |-> req[r].seen,
                   late |-> req[r].late, keys |-> req[r].keys \cup {NextKey(r)},
                   rows |-> req[r].rows]
<1>1. [req[r] EXCEPT !.keys = req[r].keys \cup {NextKey(r)}] = new
  BY KeysChanged DEF HoldInv, Shaped
<1>2. RequestShape(new) /\ new.pc = req[r].pc /\ new.act = req[r].act
  BY DEF RequestShape
<1>3. req' = [req EXCEPT ![r] = new] /\ UNCHANGED <<hold, version, sales>> /\ req[r].pc = "keys"
  BY <1>1 DEF TakeKey, ledger, holds
<1> HIDE DEF new
<1>4. InTransaction(r)
  BY <1>3 DEF InTransaction
<1> QED
  BY <1>2, <1>3, <1>4, OnlyHolder, GoesOnKeeps DEF HoldInv, Established

LEMMA TakeRowKeeps == ASSUME HoldInv, NEW r \in Requests, TakeRow(r) PROVE HoldInv'
<1> DEFINE new == [pc |-> req[r].pc, act |-> req[r].act, seen |-> req[r].seen,
                   late |-> req[r].late, keys |-> req[r].keys,
                   rows |-> req[r].rows \cup {NextRow(r)}]
<1>1. [req[r] EXCEPT !.rows = req[r].rows \cup {NextRow(r)}] = new
  BY RowsChanged DEF HoldInv, Shaped
<1>2. RequestShape(new) /\ new.pc = req[r].pc /\ new.act = req[r].act
  BY DEF RequestShape
<1>3. req' = [req EXCEPT ![r] = new] /\ UNCHANGED <<hold, version, sales>> /\ req[r].pc = "rows"
  BY <1>1 DEF TakeRow, ledger, holds
<1> HIDE DEF new
<1>4. InTransaction(r)
  BY <1>3 DEF InTransaction
<1> QED
  BY <1>2, <1>3, <1>4, OnlyHolder, GoesOnKeeps DEF HoldInv, Established

LEMMA ReserveKeeps == ASSUME HoldInv, NEW r \in Requests, Reserve(r) PROVE HoldInv'
<1> DEFINE new == [pc |-> "rows", act |-> req[r].act, seen |-> req[r].seen,
                   late |-> req[r].late, keys |-> req[r].keys, rows |-> req[r].rows]
<1>1. [req[r] EXCEPT !.pc = "rows"] = new
  BY PcChanged DEF HoldInv, Shaped
<1>2. RequestShape(new) /\ new.pc = "rows" /\ new.act = req[r].act
  BY DEF RequestShape
<1>3. /\ req' = [req EXCEPT ![r] = new] /\ UNCHANGED <<hold, version, sales>>
      /\ req[r].pc = "keys" /\ req[r].act = "admit"
  BY <1>1 DEF Reserve, Checks, ledger, holds
<1> HIDE DEF new
<1>4. InTransaction(r)
  BY <1>3 DEF InTransaction
<1>5. hold[Of[r]] = "NONE" /\ version[Of[r]] = "approved"
  BY <1>3, <1>4 DEF HoldInv, Established
<1> QED
  BY <1>2, <1>3, <1>4, <1>5, OnlyHolder, GoesOnKeeps

LEMMA HoldAtReviewKeeps == ASSUME HoldInv, NEW r \in Requests, HoldAtReview(r) PROVE HoldInv'
<1>1. /\ req' = [req EXCEPT ![r] = Idle] /\ sales' = sales
      /\ hold' = [hold EXCEPT ![Of[r]] = "ACTIVE"]
      /\ version' = [version EXCEPT ![Of[r]] = "approved"]
  BY DEF HoldAtReview, Ended, ledger
<1>2. InTransaction(r) /\ req[r].act # "admit" /\ Of[r] \in Checkouts
  BY RequestAssumption DEF HoldAtReview, Checks, InTransaction
<1>3. version[Of[r]] = "quoted" /\ Defended(Of[r])
  BY <1>2 DEF HoldInv, Established
<1>4. Defended(Of[r])'
  BY <1>1, <1>2, <1>3 DEF Defended, HoldInv, Shaped
<1> QED
  BY <1>1, <1>2, <1>4, OnlyHolder, CommitKeeps

LEMMA SupersedeKeeps == ASSUME HoldInv, NEW r \in Requests, Supersede(r) PROVE HoldInv'
<1> DEFINE h == IF hold[Of[r]] = "ACTIVE" THEN "RELEASED" ELSE hold[Of[r]]
<1>1. /\ req' = [req EXCEPT ![r] = Idle] /\ sales' = sales
      /\ hold' = [hold EXCEPT ![Of[r]] = h]
      /\ version' = [version EXCEPT ![Of[r]] = "ended"]
  BY DEF Supersede, Ended, ledger, HoldInv, Shaped
<1>2. Of[r] \in Checkouts /\ version[Of[r]] = "approved"
  BY RequestAssumption DEF Supersede, Changed, Eligible
<1>3. Defended(Of[r])
  BY <1>2 DEF HoldInv
<1>4. Defended(Of[r])'
  BY <1>1, <1>2, <1>3 DEF Defended, HoldInv, Shaped
<1>5. \A q \in Requests : InTransaction(q) /\ Of[q] = Of[r] => q = r
  BY FreeVersion DEF Supersede, Changed
<1> HIDE DEF h
<1> QED
  BY <1>1, <1>4, <1>5, CommitKeeps

LEMMA RefuseAuthorityKeeps ==
    ASSUME HoldInv, NEW r \in Requests, RefuseAuthority(r) PROVE HoldInv'
<1> DEFINE h == IF hold[Of[r]] = "NONE" THEN "RELEASED" ELSE hold[Of[r]]
<1>1. /\ req' = [req EXCEPT ![r] = Idle] /\ sales' = sales
      /\ hold' = [hold EXCEPT ![Of[r]] = h]
      /\ version' = [version EXCEPT ![Of[r]] = version[Of[r]]]
  BY DEF RefuseAuthority, Ended, ledger, HoldInv, Shaped
<1>2. InTransaction(r) /\ Of[r] \in Checkouts /\ req[r].pc = "rows"
  BY RequestAssumption DEF RefuseAuthority, InTransaction
<1>3. /\ Defended(Of[r]) /\ hold[Of[r]] \in {"NONE", "ACTIVE"}
      /\ version[Of[r]] = "approved"
  BY <1>2 DEF HoldInv, Established
<1>4. Defended(Of[r])'
  BY <1>1, <1>2, <1>3 DEF Defended, HoldInv, Shaped
<1> HIDE DEF h
<1> QED
  BY <1>1, <1>2, <1>4, OnlyHolder, CommitKeeps

LEMMA SellKeeps == ASSUME HoldInv, NEW r \in Requests, Sell(r) PROVE HoldInv'
<1>1. /\ req' = [req EXCEPT ![r] = Idle] /\ sales' = sales \cup {Of[r]}
      /\ hold' = [hold EXCEPT ![Of[r]] = "CONSUMED"]
      /\ version' = [version EXCEPT ![Of[r]] = "admitted"]
  BY DEF Sell, Ended
<1>2. InTransaction(r) /\ Of[r] \in Checkouts
  BY RequestAssumption DEF Sell, InTransaction
<1>3. Defended(Of[r])'
  BY <1>1, <1>2 DEF Defended, HoldInv, Shaped
<1> QED
  BY <1>1, <1>2, <1>3, OnlyHolder, CommitKeeps

LEMMA RequestKeeps == ASSUME HoldInv, NEW r \in Requests, RequestStep(r) PROVE HoldInv'
<1>1. CASE Refuse(r) \/ NoStock(r) \/ SoldOut(r) \/ Victim(r)
  BY <1>1, RollbackKeeps DEF Refuse, NoStock, SoldOut, Victim, ledger, holds
<1> QED
  BY <1>1, ProceedKeeps, TakeKeyKeeps, TakeRowKeeps, ReserveKeeps, HoldAtReviewKeeps,
     SupersedeKeeps, RefuseAuthorityKeeps, SellKeeps DEF RequestStep

-----------------------------------------------------------------------------
\* The end of a hold, and edits, which touch none.

LEMMA EndKeeps ==
    ASSUME HoldInv, NEW c \in Checkouts, VersionHolders(c) = {}, UNCHANGED <<req, sales>>,
           NEW h, hold' = [hold EXCEPT ![c] = h],
           NEW v, version' = [version EXCEPT ![c] = v],
           Defended(c)'
    PROVE  HoldInv'
<1>1. \A d \in Checkouts : d # c => hold'[d] = hold[d] /\ version'[d] = version[d]
  BY DEF HoldInv, Shaped
<1>2. \A d \in Checkouts : Defended(d)'
  BY <1>1 DEF HoldInv, Defended
<1>3. \A r \in Requests : InTransaction(r) => Of[r] # c /\ Of[r] \in Checkouts
  BY RequestAssumption DEF VersionHolders
<1>4. \A r \in Requests : Established(r)'
  BY <1>1, <1>3 DEF HoldInv, Established, InTransaction
<1>5. Shaped' /\ OneHolder'
  BY DEF HoldInv, Shaped, OneHolder, InTransaction
<1> QED
  BY <1>2, <1>4, <1>5 DEF HoldInv

LEMMA ReleaseKeeps == ASSUME HoldInv, NEW c \in Checkouts, Release(c) PROVE HoldInv'
<1> DEFINE h == IF hold[c] \in {"ACTIVE", "CONSUMED"} THEN "RELEASED" ELSE hold[c]
<1>1. /\ VersionHolders(c) = {} /\ UNCHANGED <<req, sales>>
      /\ hold' = [hold EXCEPT ![c] = h] /\ version' = [version EXCEPT ![c] = "ended"]
  BY DEF Release, ledger, HoldInv, Shaped
<1>2. Defended(c)'
  BY <1>1 DEF Defended, HoldInv, Shaped
<1> HIDE DEF h
<1> QED
  BY <1>1, <1>2, EndKeeps

LEMMA SweepKeeps == ASSUME HoldInv, NEW c \in Checkouts, Sweep(c) PROVE HoldInv'
<1>1. /\ VersionHolders(c) = {} /\ UNCHANGED <<req, sales>> /\ hold[c] = "ACTIVE"
      /\ hold' = [hold EXCEPT ![c] = "EXPIRED"]
      /\ version' = [version EXCEPT ![c] = version[c]]
  BY DEF Sweep, ledger, HoldInv, Shaped
<1>2. Defended(c)'
  BY <1>1 DEF Defended, HoldInv, Shaped
<1> QED
  BY <1>1, <1>2, EndKeeps

LEMMA FrameKeeps == ASSUME HoldInv, UNCHANGED <<req, hold, version, sales>> PROVE HoldInv'
BY DEF HoldInv, Shaped, OneHolder, Established, Defended, InTransaction

LEMMA EditsKeep ==
    ASSUME HoldInv,
           \/ \E s \in Sku, n \in Quantities :
                 BeginReceipt(s, n) \/ BeginSet(s, n) \/ BeginDecrement(s, n)
           \/ BeginReset \/ EditStep
           \/ \E c \in Checkouts : Lapse(c)
    PROVE  HoldInv'
<1>1. UNCHANGED <<req, hold, version, sales>>
  BY DEF BeginReceipt, BeginSet, BeginDecrement, BeginReset, EditStep, ReadForReceipt, EditRow,
         EditRefused, EditCommit, EditVictim, Lapse, ledger, holds
<1> QED
  BY <1>1, FrameKeeps

LEMMA HoldInit == Init => HoldInv
<1> SUFFICES ASSUME Init PROVE HoldInv
  OBVIOUS
<1>1. \A r \in Requests : req[r] = Idle
  BY DEF Init
<1>2. Shaped
  BY <1>1, IdleShape DEF Init, Shaped
<1>3. \A c \in Checkouts : Defended(c)
  BY DEF Init, Defended
<1> QED
  BY <1>1, <1>2, <1>3, IdleShape DEF HoldInv, OneHolder, Established, InTransaction

LEMMA HoldStep == HoldInv /\ [Next]_vars => HoldInv'
<1> SUFFICES ASSUME HoldInv, [Next]_vars PROVE HoldInv'
  OBVIOUS
<1>1. CASE UNCHANGED vars
  BY <1>1, FrameKeeps DEF vars
<1>2. CASE Next
  BY <1>2, LookKeeps, RequestKeeps, ReleaseKeeps, SweepKeeps, EditsKeep DEF Next
<1> QED
  BY <1>1, <1>2

\* The inductive invariant of versions, holds and sales.
THEOREM HoldInvariance == Spec => []HoldInv
BY HoldInit, HoldStep, PTL DEF Spec

\* A version's units leave the shelf exactly when its hold is spent, and a hold
\* still counted is of a version that was reserved at its review and is neither
\* sold nor retired (admit, record_sale, release_refused_admission_hold,
\* _freeze_successor, cancel).
THEOREM DefendedOnce == Spec => []UnitsAreDefendedOnce
<1>1. HoldInv => UnitsAreDefendedOnce
  BY DEF HoldInv, Defended, UnitsAreDefendedOnce
<1> QED
  BY <1>1, HoldInvariance, PTL

-----------------------------------------------------------------------------
\* No hold comes back.

NoRevival ==
    \A c \in Checkouts :
        /\ hold[c] \in {"RELEASED", "EXPIRED"} => hold'[c] = hold[c]
        /\ hold[c] = "CONSUMED" => hold'[c] \in {"CONSUMED", "RELEASED"}

\* The rows of one version change, and only in a way that spends no hold again.
LEMMA OneHoldMoves ==
    ASSUME HoldInv, NEW c \in Checkouts, NEW h, hold' = [hold EXCEPT ![c] = h],
           hold[c] \in {"RELEASED", "EXPIRED"} => h = hold[c],
           hold[c] = "CONSUMED" => h \in {"CONSUMED", "RELEASED"}
    PROVE  NoRevival
BY DEF HoldInv, Shaped, NoRevival

LEMMA StillHolds == ASSUME UNCHANGED hold PROVE NoRevival
BY DEF NoRevival

LEMMA RequestRevivesNone ==
    ASSUME HoldInv, NEW r \in Requests, RequestStep(r) PROVE NoRevival
<1>1. Of[r] \in Checkouts
  BY RequestAssumption
<1>2. CASE Refuse(r) \/ Proceed(r) \/ TakeKey(r) \/ NoStock(r) \/ Reserve(r)
           \/ TakeRow(r) \/ SoldOut(r) \/ Victim(r)
  BY <1>2, StillHolds DEF Refuse, Proceed, TakeKey, NoStock, Reserve, TakeRow, SoldOut, Victim, holds
<1>3. CASE Supersede(r)
  <2> DEFINE h == IF hold[Of[r]] = "ACTIVE" THEN "RELEASED" ELSE hold[Of[r]]
  <2>1. hold' = [hold EXCEPT ![Of[r]] = h]
    BY <1>3 DEF Supersede, HoldInv, Shaped
  <2> QED
    BY <1>1, <2>1, OneHoldMoves
<1>4. CASE HoldAtReview(r)
  <2>1. req[r].pc = "keys" /\ InTransaction(r)
    BY <1>4 DEF HoldAtReview, Checks, InTransaction
  <2>2. hold[Of[r]] = "NONE"
    BY <2>1 DEF HoldInv, Established
  <2> QED
    BY <1>1, <1>4, <2>2, OneHoldMoves DEF HoldAtReview
<1>5. CASE RefuseAuthority(r)
  <2> DEFINE h == IF hold[Of[r]] = "NONE" THEN "RELEASED" ELSE hold[Of[r]]
  <2>1. hold' = [hold EXCEPT ![Of[r]] = h]
    BY <1>5 DEF RefuseAuthority, HoldInv, Shaped
  <2> QED
    BY <1>1, <2>1, OneHoldMoves
<1>6. CASE Sell(r)
  <2>1. req[r].pc = "rows" /\ hold' = [hold EXCEPT ![Of[r]] = "CONSUMED"]
    BY <1>6 DEF Sell
  <2>2. hold[Of[r]] \in {"NONE", "ACTIVE"}
    BY <2>1 DEF HoldInv, Established
  <2> QED
    BY <1>1, <2>1, <2>2, OneHoldMoves
<1> QED
  BY <1>2, <1>3, <1>4, <1>5, <1>6 DEF RequestStep

LEMMA StepRevivesNone == HoldInv /\ [Next]_vars => NoRevival
<1> SUFFICES ASSUME HoldInv, [Next]_vars PROVE NoRevival
  OBVIOUS
<1>1. CASE UNCHANGED hold
  BY <1>1, StillHolds
<1>2. CASE \E r \in Requests : RequestStep(r)
  BY <1>2, RequestRevivesNone
<1>3. CASE \E c \in Checkouts : Release(c)
  <2>1. PICK c \in Checkouts : Release(c)
    BY <1>3
  <2> DEFINE h == IF hold[c] \in {"ACTIVE", "CONSUMED"} THEN "RELEASED" ELSE hold[c]
  <2>2. hold' = [hold EXCEPT ![c] = h]
    BY <2>1 DEF Release, HoldInv, Shaped
  <2> QED
    BY <2>2, OneHoldMoves
<1>4. CASE \E c \in Checkouts : Sweep(c)
  BY <1>4, OneHoldMoves DEF Sweep
<1>5. (\E r \in Requests : Look(r)) \/ (\E c \in Checkouts : Lapse(c)) => UNCHANGED hold
  BY DEF Look, Lapse, holds
<1>6. \/ \E s \in Sku, n \in Quantities :
            BeginReceipt(s, n) \/ BeginSet(s, n) \/ BeginDecrement(s, n)
      \/ BeginReset \/ EditStep
      => UNCHANGED hold
  BY DEF BeginReceipt, BeginSet, BeginDecrement, BeginReset, EditStep, ReadForReceipt, EditRow,
         EditRefused, EditCommit, EditVictim, holds
<1> QED
  BY <1>1, <1>2, <1>3, <1>4, <1>5, <1>6 DEF Next, vars

\* A hold that was released, swept or spent is never spent again, by any
\* interleaving of submissions, cancellations and the sweeper (reserve and
\* consume judge the row under the lock of its version).
THEOREM SpentOnce == Spec => HoldsAreNotRevived
<1>1. [][NoRevival]_vars <=> HoldsAreNotRevived
  BY PTL DEF HoldsAreNotRevived, NoRevival
<1> QED
  BY <1>1, HoldInvariance, StepRevivesNone, PTL DEF Spec

-----------------------------------------------------------------------------
\* The shelf: whoever has locked a row has seen that it suffices, and nobody
\* else has it.

EditShape(e) ==
    e = [pc |-> e.pc, kind |-> e.kind, target |-> e.target, before |-> e.before,
         brought |-> e.brought, todo |-> e.todo, rows |-> e.rows]

EditTyped(e) ==
    /\ EditShape(e)
    /\ \A s \in Sku : e.target[s] \in Int /\ e.before[s] \in Int

RequestsShaped == req = [r \in Requests |-> req[r]] /\ \A r \in Requests : RequestShape(req[r])

LedgerTyped == shelf \in [Sku -> Nat] /\ moved \in [Sku -> [MovementKind -> Int]]

RowsAreExclusive ==
    /\ \A r, q \in Requests : \A s \in req[r].rows \cap req[q].rows : r = q
    /\ \A r \in Requests : req[r].rows \cap edit.rows = {}

RowsSuffice ==
    /\ \A r \in Requests : \A s \in req[r].rows \cap Sku : shelf[s] >= Cart[Of[r]][s]
    /\ \A s \in edit.rows \cap Sku : Balance(s) >= 0

ShelfInv ==
    /\ RequestsShaped /\ EditTyped(edit) /\ LedgerTyped
    /\ RowsAreExclusive /\ RowsSuffice
    /\ BalanceIsLedger

\* A request that takes no row and writes none.
LEMMA FewerRowsKeeps ==
    ASSUME ShelfInv, NEW r \in Requests, NEW x, req' = [req EXCEPT ![r] = x],
           RequestShape(x), x.rows \subseteq req[r].rows, UNCHANGED <<shelf, moved, edit>>
    PROVE  ShelfInv'
<1>1. \A q \in Requests : req'[q] = IF q = r THEN x ELSE req[q]
  BY DEF ShelfInv, RequestsShaped
<1>2. RequestsShaped'
  BY <1>1 DEF ShelfInv, RequestsShaped
<1>3. RowsAreExclusive'
  BY <1>1 DEF ShelfInv, RowsAreExclusive
<1>4. RowsSuffice'
  BY <1>1 DEF ShelfInv, RowsSuffice, Balance, Delta
<1>5. EditTyped(edit)' /\ LedgerTyped' /\ BalanceIsLedger'
  BY DEF ShelfInv, LedgerTyped, BalanceIsLedger, EditTyped, EditShape
<1> QED
  BY <1>2, <1>3, <1>4, <1>5 DEF ShelfInv

LEMMA SameRowsKeeps ==
    ASSUME ShelfInv, NEW r \in Requests, UNCHANGED <<shelf, moved, edit>>,
           \/ req' = Ended(r)
           \/ \E pc : req' = [req EXCEPT ![r] = [req[r] EXCEPT !.pc = pc]]
           \/ \E keys : req' = [req EXCEPT ![r] = [req[r] EXCEPT !.keys = keys]]
    PROVE  ShelfInv'
<1>1. RequestShape(req[r])
  BY DEF ShelfInv, RequestsShaped
<1>2. CASE req' = Ended(r)
  <2>1. RequestShape(Idle) /\ Idle.rows = {}
    BY DEF Idle, RequestShape
  <2> QED
    BY <1>2, <2>1, FewerRowsKeeps DEF Ended
<1>3. CASE \E pc : req' = [req EXCEPT ![r] = [req[r] EXCEPT !.pc = pc]]
  <2>1. PICK pc : req' = [req EXCEPT ![r] = [req[r] EXCEPT !.pc = pc]]
    BY <1>3
  <2> DEFINE x == [pc |-> pc, act |-> req[r].act, seen |-> req[r].seen, late |-> req[r].late,
                   keys |-> req[r].keys, rows |-> req[r].rows]
  <2>2. req' = [req EXCEPT ![r] = x] /\ RequestShape(x) /\ x.rows = req[r].rows
    BY <1>1, <2>1, PcChanged DEF RequestShape
  <2> HIDE DEF x
  <2> QED
    BY <2>2, FewerRowsKeeps
<1>4. CASE \E keys : req' = [req EXCEPT ![r] = [req[r] EXCEPT !.keys = keys]]
  <2>1. PICK keys : req' = [req EXCEPT ![r] = [req[r] EXCEPT !.keys = keys]]
    BY <1>4
  <2> DEFINE x == [pc |-> req[r].pc, act |-> req[r].act, seen |-> req[r].seen,
                   late |-> req[r].late, keys |-> keys, rows |-> req[r].rows]
  <2>2. req' = [req EXCEPT ![r] = x] /\ RequestShape(x) /\ x.rows = req[r].rows
    BY <1>1, <2>1, KeysChanged DEF RequestShape
  <2> HIDE DEF x
  <2> QED
    BY <2>2, FewerRowsKeeps
<1> QED
  BY <1>2, <1>3, <1>4

LEMMA LookKeepsShelf == ASSUME ShelfInv, NEW r \in Requests, Look(r) PROVE ShelfInv'
<1> DEFINE x == [pc |-> "looked", act |-> IF version[Of[r]] = "quoted" THEN "review" ELSE "admit",
                 seen |-> shelf, late |-> {c \in lapsed : hold[c] = "ACTIVE"},
                 keys |-> {}, rows |-> {}]
<1>1. req' = [req EXCEPT ![r] = x] /\ UNCHANGED <<shelf, moved, edit>>
  BY DEF Look, ledger, merchant
<1>2. RequestShape(x) /\ x.rows = {}
  BY DEF RequestShape
<1> HIDE DEF x
<1> QED
  BY <1>1, <1>2, FewerRowsKeeps

LEMMA TakeRowKeepsShelf == ASSUME ShelfInv, NEW r \in Requests, TakeRow(r) PROVE ShelfInv'
<1> DEFINE n == NextRow(r)
           x == [pc |-> req[r].pc, act |-> req[r].act, seen |-> req[r].seen,
                 late |-> req[r].late, keys |-> req[r].keys, rows |-> req[r].rows \cup {n}]
<1>1. RequestShape(req[r])
  BY DEF ShelfInv, RequestsShaped
<1>2. /\ req' = [req EXCEPT ![r] = x] /\ UNCHANGED <<shelf, moved, edit>>
      /\ RowFree(n) /\ Allowed(r, n)
  BY <1>1, RowsChanged DEF TakeRow, ledger, merchant
<1>3. RequestShape(x) /\ x.rows = req[r].rows \cup {n}
  BY DEF RequestShape
<1>4. n \notin edit.rows /\ (\A q \in Requests : n \notin req[q].rows) /\ shelf[n] >= Cart[Of[r]][n]
  BY <1>2 DEF RowFree, RowHolders, Allowed
<1> HIDE DEF x, n
<1>5. \A q \in Requests : req'[q] = IF q = r THEN x ELSE req[q]
  BY <1>2 DEF ShelfInv, RequestsShaped
<1>6. RequestsShaped'
  BY <1>2, <1>3, <1>5 DEF ShelfInv, RequestsShaped
<1>7. RowsAreExclusive'
  BY <1>2, <1>3, <1>4, <1>5 DEF ShelfInv, RowsAreExclusive
<1>8. RowsSuffice'
  BY <1>2, <1>3, <1>4, <1>5 DEF ShelfInv, RowsSuffice, Balance, Delta
<1>9. EditTyped(edit)' /\ LedgerTyped' /\ BalanceIsLedger'
  BY <1>2 DEF ShelfInv, LedgerTyped, BalanceIsLedger, EditTyped, EditShape
<1> QED
  BY <1>6, <1>7, <1>8, <1>9 DEF ShelfInv

LEMMA SellKeepsShelf == ASSUME ShelfInv, NEW r \in Requests, Sell(r) PROVE ShelfInv'
<1> DEFINE cart == Cart[Of[r]]
<1>1. cart \in [Sku -> Nat]
  BY RequestAssumption, CartAssumption
<1>2. /\ req' = [req EXCEPT ![r] = Idle] /\ edit' = edit
      /\ shelf' = [s \in Sku |-> shelf[s] - cart[s]]
      /\ moved' = [s \in Sku |-> [moved[s] EXCEPT !["SOLD"] = moved[s]["SOLD"] - cart[s]]]
      /\ req[r].rows = {s \in Sku : cart[s] > 0}
  BY DEF Sell, Ended, merchant, Lines
<1> HIDE DEF cart
<1>3. RequestShape(Idle) /\ Idle.rows = {}
  BY DEF Idle, RequestShape
<1>4. \A q \in Requests : req'[q] = IF q = r THEN Idle ELSE req[q]
  BY <1>2 DEF ShelfInv, RequestsShaped
<1>5. RequestsShaped'
  BY <1>2, <1>3, <1>4 DEF ShelfInv, RequestsShaped
<1>6. RowsAreExclusive'
  BY <1>2, <1>3, <1>4 DEF ShelfInv, RowsAreExclusive
<1>7. \A s \in Sku : s \notin req[r].rows => cart[s] = 0
  BY <1>1, <1>2
<1>8. \A s \in Sku : shelf[s] \in Nat /\ shelf[s] >= cart[s]
  <2>1. \A s \in req[r].rows \cap Sku : shelf[s] >= cart[s]
    BY DEF ShelfInv, RowsSuffice, cart
  <2> QED
    BY <2>1, <1>7 DEF ShelfInv, LedgerTyped
<1>9. \A s \in Sku : s \notin req[r].rows => shelf'[s] = shelf[s]
  BY <1>2, <1>7, <1>8
<1>10. shelf' \in [Sku -> Nat]
  BY <1>1, <1>2, <1>8
<1>11. \A s \in Sku : moved[s] \in [MovementKind -> Int] /\ moved[s]["SOLD"] - cart[s] \in Int
  BY <1>1 DEF ShelfInv, LedgerTyped, MovementKind
<1>12. moved' \in [Sku -> [MovementKind -> Int]]
  BY <1>2, <1>11
<1>13. RowsSuffice'
  <2>1. \A q \in Requests : \A s \in req'[q].rows \cap Sku : shelf'[s] >= Cart[Of[q]][s]
    <3> SUFFICES ASSUME NEW q \in Requests, NEW s \in req'[q].rows \cap Sku
                 PROVE  shelf'[s] >= Cart[Of[q]][s]
      OBVIOUS
    <3>1. q # r /\ req'[q] = req[q] /\ s \notin req[r].rows
      BY <1>3, <1>4 DEF ShelfInv, RowsAreExclusive
    <3> QED
      BY <3>1, <1>9 DEF ShelfInv, RowsSuffice
  <2>2. \A s \in edit.rows \cap Sku : shelf'[s] = shelf[s]
    BY <1>9 DEF ShelfInv, RowsAreExclusive
  <2> QED
    BY <2>1, <2>2, <1>2 DEF ShelfInv, RowsSuffice, Balance, Delta
<1>14. BalanceIsLedger'
  <2> SUFFICES ASSUME NEW s \in Sku
               PROVE  shelf'[s] = moved'[s]["RECEIVED"] + moved'[s]["SOLD"] + moved'[s]["ADJUSTED"]
    BY DEF BalanceIsLedger
  <2>1. /\ moved'[s]["RECEIVED"] = moved[s]["RECEIVED"]
        /\ moved'[s]["ADJUSTED"] = moved[s]["ADJUSTED"]
        /\ moved'[s]["SOLD"] = moved[s]["SOLD"] - cart[s]
    BY <1>2, <1>11 DEF MovementKind
  <2>2. moved[s]["RECEIVED"] \in Int /\ moved[s]["SOLD"] \in Int /\ moved[s]["ADJUSTED"] \in Int
    BY <1>11 DEF MovementKind
  <2>3. shelf[s] = moved[s]["RECEIVED"] + moved[s]["SOLD"] + moved[s]["ADJUSTED"]
    BY DEF ShelfInv, BalanceIsLedger
  <2> QED
    BY <1>1, <1>2, <2>1, <2>2, <2>3
<1>15. EditTyped(edit)'
  BY <1>2 DEF ShelfInv, EditTyped, EditShape
<1> QED
  BY <1>5, <1>6, <1>10, <1>12, <1>13, <1>14, <1>15 DEF ShelfInv, LedgerTyped

\* An edit that has locked no row, or has ended.
LEMMA EditWithoutRowsKeeps ==
    ASSUME ShelfInv, EditTyped(edit'), edit'.rows = {}, UNCHANGED <<shelf, moved, req>>
    PROVE  ShelfInv'
<1>1. RowsAreExclusive' /\ RowsSuffice'
  BY DEF ShelfInv, RowsAreExclusive, RowsSuffice
<1> QED
  BY <1>1 DEF ShelfInv, RequestsShaped, LedgerTyped, BalanceIsLedger

LEMMA NoEditTyped == EditTyped(NoEdit) /\ NoEdit.rows = {}
BY DEF EditTyped, EditShape, NoEdit

LEMMA ReadShelfKeeps ==
    ASSUME ShelfInv, NEW kind, NEW target, \A s \in Sku : target[s] \in Int,
           ReadShelf(kind, target), UNCHANGED <<shelf, moved, req>>
    PROVE  ShelfInv'
<1> DEFINE todo == {s \in Sku : target[s] # shelf[s]}
           e == [pc |-> "read", kind |-> kind, target |-> target, before |-> shelf,
                 brought |-> edit.brought, todo |-> todo, rows |-> {}]
<1>1. edit' = [NoEdit EXCEPT !.pc = "read", !.kind = kind, !.before = shelf, !.target = target,
                             !.brought = edit.brought, !.todo = todo]
  BY DEF ReadShelf
<1> HIDE DEF todo
<1>2. edit' = e
  BY <1>1 DEF NoEdit
<1>3. EditTyped(e) /\ e.rows = {}
  BY DEF EditTyped, EditShape, ShelfInv, LedgerTyped
<1> QED
  BY <1>2, <1>3, EditWithoutRowsKeeps

LEMMA EditRowKeepsShelf == ASSUME ShelfInv, EditRow PROVE ShelfInv'
<1> DEFINE n == NextMoved
           e == [pc |-> edit.pc, kind |-> edit.kind, target |-> edit.target,
                 before |-> edit.before, brought |-> edit.brought,
                 todo |-> edit.todo \ {n}, rows |-> edit.rows \cup {n}]
<1>1. EditTyped(edit)
  BY DEF ShelfInv
<1>2. /\ edit' = [edit EXCEPT !.rows = edit.rows \cup {n}, !.todo = edit.todo \ {n}]
      /\ UNCHANGED <<shelf, moved, req>> /\ RowFree(n) /\ EditAllowed(n)
  BY DEF EditRow, ledger
<1>3. edit' = e
  BY <1>1, <1>2 DEF EditTyped, EditShape
<1>4. EditTyped(edit') /\ edit'.rows = edit.rows \cup {n}
  BY <1>1, <1>3 DEF EditTyped, EditShape
<1>5. /\ edit'.target = edit.target /\ edit'.before = edit.before
      /\ \A q \in Requests : n \notin req[q].rows
      /\ Balance(n) >= 0
  BY <1>2, <1>3 DEF RowFree, RowHolders, EditAllowed
<1> HIDE DEF n, e
<1>6. RowsAreExclusive'
  BY <1>2, <1>4, <1>5 DEF ShelfInv, RowsAreExclusive
<1>7. RowsSuffice'
  BY <1>2, <1>4, <1>5 DEF ShelfInv, RowsSuffice, Balance, Delta
<1> QED
  BY <1>2, <1>4, <1>6, <1>7 DEF ShelfInv, RequestsShaped, LedgerTyped, BalanceIsLedger

LEMMA EditCommitKeepsShelf == ASSUME ShelfInv, EditCommit PROVE ShelfInv'
<1>1. /\ edit' = NoEdit /\ req' = req
      /\ shelf' = [s \in Sku |-> IF s \in edit.rows THEN Balance(s) ELSE shelf[s]]
      /\ moved' = [s \in Sku |-> IF s \in edit.rows
                     THEN [moved[s] EXCEPT ![MovementOf(edit.kind)] = moved[s][MovementOf(edit.kind)] + Delta(s)]
                     ELSE moved[s]]
  BY DEF EditCommit
<1>2. \A s \in Sku : /\ Delta(s) \in Int /\ shelf[s] \in Nat
                     /\ Balance(s) = shelf[s] + Delta(s) /\ Balance(s) \in Int
                     /\ s \in edit.rows => Balance(s) >= 0
  BY DEF ShelfInv, EditTyped, LedgerTyped, RowsSuffice, Balance, Delta
<1>3. shelf' \in [Sku -> Nat]
  BY <1>1, <1>2
<1>4. \A s \in Sku : moved[s] \in [MovementKind -> Int]
  BY DEF ShelfInv, LedgerTyped
<1>5. MovementOf(edit.kind) \in {"RECEIVED", "ADJUSTED"}
  BY DEF MovementOf
<1> DEFINE k == MovementOf(edit.kind)
<1> HIDE DEF k
<1>6. k \in {"RECEIVED", "ADJUSTED"} /\ k \in MovementKind
  BY <1>5 DEF MovementKind, k
<1>7. \A s \in Sku : moved'[s] = IF s \in edit.rows THEN [moved[s] EXCEPT ![k] = moved[s][k] + Delta(s)]
                                 ELSE moved[s]
  BY <1>1 DEF k
<1>8. moved' = [s \in Sku |-> moved'[s]]
  BY <1>1
<1>9. \A s \in Sku : moved'[s] \in [MovementKind -> Int]
  <2> SUFFICES ASSUME NEW s \in Sku PROVE moved'[s] \in [MovementKind -> Int]
    OBVIOUS
  <2>1. moved[s][k] + Delta(s) \in Int
    BY <1>2, <1>4, <1>6
  <2> QED
    BY <1>4, <1>7, <2>1
<1>10. LedgerTyped'
  BY <1>3, <1>8, <1>9 DEF LedgerTyped
<1>11. RowsAreExclusive'
  BY <1>1, NoEditTyped DEF ShelfInv, RowsAreExclusive
<1>12. RowsSuffice'
  <2>1. \A r \in Requests : \A s \in req[r].rows \cap Sku : shelf'[s] = shelf[s]
    BY <1>1 DEF ShelfInv, RowsAreExclusive
  <2> QED
    BY <1>1, <2>1, NoEditTyped DEF ShelfInv, RowsSuffice
<1>13. BalanceIsLedger'
  <2> SUFFICES ASSUME NEW s \in Sku
               PROVE  shelf'[s] = moved'[s]["RECEIVED"] + moved'[s]["SOLD"] + moved'[s]["ADJUSTED"]
    BY DEF BalanceIsLedger
  <2>1. shelf[s] = moved[s]["RECEIVED"] + moved[s]["SOLD"] + moved[s]["ADJUSTED"]
    BY DEF ShelfInv, BalanceIsLedger
  <2>2. moved[s]["RECEIVED"] \in Int /\ moved[s]["SOLD"] \in Int /\ moved[s]["ADJUSTED"] \in Int
    BY <1>4 DEF MovementKind
  <2>3. CASE s \notin edit.rows
    BY <1>1, <1>7, <2>1, <2>3
  <2>4. CASE s \in edit.rows /\ k = "RECEIVED"
    <3>1. /\ moved'[s]["RECEIVED"] = moved[s]["RECEIVED"] + Delta(s)
          /\ moved'[s]["SOLD"] = moved[s]["SOLD"] /\ moved'[s]["ADJUSTED"] = moved[s]["ADJUSTED"]
      BY <1>4, <1>7, <2>4 DEF MovementKind
    <3>2. shelf'[s] = shelf[s] + Delta(s) /\ Delta(s) \in Int
      BY <1>1, <1>2, <2>4
    <3> QED
      BY <2>1, <2>2, <3>1, <3>2
  <2>5. CASE s \in edit.rows /\ k = "ADJUSTED"
    <3>1. /\ moved'[s]["ADJUSTED"] = moved[s]["ADJUSTED"] + Delta(s)
          /\ moved'[s]["SOLD"] = moved[s]["SOLD"] /\ moved'[s]["RECEIVED"] = moved[s]["RECEIVED"]
      BY <1>4, <1>7, <2>5 DEF MovementKind
    <3>2. shelf'[s] = shelf[s] + Delta(s) /\ Delta(s) \in Int
      BY <1>1, <1>2, <2>5
    <3> QED
      BY <2>1, <2>2, <3>1, <3>2
  <2> QED
    BY <1>6, <2>3, <2>4, <2>5
<1> QED
  BY <1>1, <1>10, <1>11, <1>12, <1>13, NoEditTyped DEF ShelfInv, RequestsShaped

LEMMA ShelfFrame == ASSUME ShelfInv, UNCHANGED <<shelf, moved, req, edit>> PROVE ShelfInv'
BY DEF ShelfInv, RequestsShaped, EditTyped, EditShape, LedgerTyped, RowsAreExclusive, RowsSuffice,
       Balance, Delta, BalanceIsLedger

LEMMA RequestKeepsShelf == ASSUME ShelfInv, NEW r \in Requests, RequestStep(r) PROVE ShelfInv'
<1>1. CASE Refuse(r) \/ Supersede(r) \/ NoStock(r) \/ HoldAtReview(r) \/ RefuseAuthority(r)
           \/ SoldOut(r) \/ Victim(r)
  BY <1>1, SameRowsKeeps
     DEF Refuse, Supersede, NoStock, HoldAtReview, RefuseAuthority, SoldOut, Victim, ledger, merchant
<1>2. CASE Proceed(r)
  BY <1>2, SameRowsKeeps DEF Proceed, ledger, merchant
<1>3. CASE TakeKey(r)
  BY <1>3, SameRowsKeeps DEF TakeKey, ledger, merchant
<1>4. CASE Reserve(r)
  BY <1>4, SameRowsKeeps DEF Reserve, ledger, merchant
<1> QED
  BY <1>1, <1>2, <1>3, <1>4, TakeRowKeepsShelf, SellKeepsShelf DEF RequestStep

LEMMA EditKeepsShelf ==
    ASSUME ShelfInv,
           \/ \E s \in Sku, n \in Quantities :
                 BeginReceipt(s, n) \/ BeginSet(s, n) \/ BeginDecrement(s, n)
           \/ BeginReset \/ EditStep
    PROVE  ShelfInv'
<1>1. shelf \in [Sku -> Nat] /\ EditTyped(edit)
  BY DEF ShelfInv, LedgerTyped
<1>2. ASSUME NEW s \in Sku, NEW n \in Quantities, BeginReceipt(s, n) PROVE ShelfInv'
  <2>1. n \in Nat
    BY EditAssumption
  <2> DEFINE brought == [NoEdit.brought EXCEPT ![s] = n]
             e == [pc |-> "locked", kind |-> "STOCK_RECEIPT", target |-> [shelf EXCEPT ![s] = shelf[s] + n],
                   before |-> [t \in Sku |-> 0], brought |-> brought, todo |-> {}, rows |-> {}]
  <2>2. edit' = e
    BY <1>2 DEF BeginReceipt, NoEdit
  <2>3. EditTyped(e) /\ e.rows = {}
    BY <1>1, <2>1 DEF EditTyped, EditShape
  <2> QED
    BY <1>2, <2>2, <2>3, EditWithoutRowsKeeps DEF BeginReceipt, ledger
<1>3. ASSUME NEW s \in Sku, NEW n \in Quantities, BeginSet(s, n) PROVE ShelfInv'
  <2>1. \A t \in Sku : [shelf EXCEPT ![s] = n][t] \in Int
    BY <1>1, EditAssumption
  <2> QED
    BY <1>3, <2>1, ReadShelfKeeps DEF BeginSet, ledger
<1>4. ASSUME NEW s \in Sku, NEW n \in Quantities, BeginDecrement(s, n) PROVE ShelfInv'
  <2>1. n \in Nat
    BY EditAssumption
  <2>2. \A t \in Sku : [shelf EXCEPT ![s] = shelf[s] - n][t] \in Int
    BY <1>1, <2>1
  <2> QED
    BY <1>4, <2>2, ReadShelfKeeps DEF BeginDecrement, ledger
<1>5. CASE BeginReset
  <2>1. \A t \in Sku : Opening[t] \in Int
    BY OpeningAssumption
  <2> QED
    BY <1>5, <2>1, ReadShelfKeeps DEF BeginReset, ledger
<1>6. CASE ReadForReceipt
  <2> DEFINE target == [s \in Sku |-> IF edit.brought[s] > 0 THEN edit.target[s] ELSE shelf[s]]
  <2>1. \A t \in Sku : target[t] \in Int
    BY <1>1 DEF EditTyped
  <2>2. ReadShelf("STOCK_RECEIPT", target) /\ UNCHANGED <<shelf, moved, req>>
    BY <1>6 DEF ReadForReceipt, ledger
  <2> HIDE DEF target
  <2> QED
    BY <2>1, <2>2, ReadShelfKeeps
<1>7. CASE EditRefused \/ EditVictim
  BY <1>7, NoEditTyped, EditWithoutRowsKeeps DEF EditRefused, EditVictim, ledger
<1> QED
  BY <1>2, <1>3, <1>4, <1>5, <1>6, <1>7, EditRowKeepsShelf, EditCommitKeepsShelf DEF EditStep

LEMMA ShelfInit == Init => ShelfInv
<1> SUFFICES ASSUME Init PROVE ShelfInv
  OBVIOUS
<1>1. \A r \in Requests : req[r] = Idle /\ req[r].rows = {} /\ RequestShape(req[r])
  BY DEF Init, Idle, RequestShape
<1>2. RequestsShaped /\ edit = NoEdit
  BY <1>1 DEF Init, RequestsShaped
<1>3. LedgerTyped
  BY OpeningAssumption DEF Init, LedgerTyped
<1>4. BalanceIsLedger
  BY OpeningAssumption DEF Init, BalanceIsLedger, MovementKind
<1> QED
  BY <1>1, <1>2, <1>3, <1>4, NoEditTyped DEF ShelfInv, RowsAreExclusive, RowsSuffice

LEMMA ShelfStep == ShelfInv /\ [Next]_vars => ShelfInv'
<1> SUFFICES ASSUME ShelfInv, [Next]_vars PROVE ShelfInv'
  OBVIOUS
<1>1. CASE UNCHANGED vars
  BY <1>1, ShelfFrame DEF vars
<1>2. CASE \E c \in Checkouts : Release(c) \/ Lapse(c) \/ Sweep(c)
  BY <1>2, ShelfFrame DEF Release, Lapse, Sweep, ledger, merchant
<1> QED
  BY <1>1, <1>2, LookKeepsShelf, RequestKeepsShelf, EditKeepsShelf DEF Next

\* The inductive invariant of the shelf, its ledger and the row locks. It holds
\* that the shelf never falls below zero: nothing is oversold.
THEOREM ShelfInvariance == Spec => []ShelfInv
BY ShelfInit, ShelfStep, PTL DEF Spec

\* Every balance is the sum of its movements, whatever sales, deliveries and
\* corrections run beside each other (record, mutating).
THEOREM LedgerBalances == Spec => []BalanceIsLedger
<1>1. ShelfInv => BalanceIsLedger
  BY DEF ShelfInv
<1> QED
  BY <1>1, ShelfInvariance, PTL

-----------------------------------------------------------------------------
\* The locks of the requests: every one takes its items, and then its rows, in
\* the order of the SKU.

Ordered(taken, lines) ==
    taken \subseteq lines /\ \A s \in taken, t \in lines \ taken : s < t

\* A reserver has the locks of all its items once the capacity is checked, and
\* keeps them while it locks the rows.
LocksOf(r) ==
    /\ req[r].pc \in {"idle", "looked", "keys", "rows"}
    /\ req[r].pc \in {"idle", "looked"} => req[r].keys = {} /\ req[r].rows = {}
    /\ req[r].pc = "keys" => req[r].rows = {}
    /\ FreshHold(r) => req[r].keys = Lines(Of[r])
    /\ Ordered(req[r].keys, Lines(Of[r])) /\ Ordered(req[r].rows, Lines(Of[r]))

KeysAreExclusive ==
    \A r, q \in Requests : \A s \in req[r].keys \cap req[q].keys : r = q

LockInv ==
    /\ \A r \in Requests : LocksOf(r)
    /\ KeysAreExclusive

\* A finite set of numbers in which every number is exceeded is empty.
LEMMA NoLargest ==
    ASSUME NEW R, R \subseteq Nat, IsFiniteSet(R), \A x \in R : \E y \in R : x < y
    PROVE  R = {}
<1> DEFINE G == {T \in SUBSET R : T = {} \/ \E m \in T : \A t \in T : t <= m}
<1>1. {} \in G
  OBVIOUS
<1>2. ASSUME NEW T \in SUBSET R, NEW x \in R \ T, T \in G PROVE T \cup {x} \in G
  <2>1. CASE T = {}
    BY <2>1
  <2>2. ASSUME NEW m \in T, \A t \in T : t <= m PROVE T \cup {x} \in G
    <3>1. m \in Nat /\ x \in Nat /\ T \subseteq Nat
      OBVIOUS
    <3>2. CASE m <= x
      <4>1. \A t \in T \cup {x} : t <= x
        BY <2>2, <3>1, <3>2
      <4> QED
        BY <4>1
    <3>3. CASE x < m
      <4>1. \A t \in T \cup {x} : t <= m
        BY <2>2, <3>1, <3>3
      <4> QED
        BY <4>1
    <3> QED
      BY <3>1, <3>2, <3>3
  <2> QED
    BY <1>2, <2>1, <2>2
<1> HIDE DEF G
<1>3. R \in G
  BY <1>1, <1>2, FiniteInduction
<1> QED
  BY <1>3 DEF G

LEMMA HasSmallest ==
    ASSUME NEW R, R \subseteq Nat, IsFiniteSet(R), R # {}
    PROVE  \E m \in R : \A t \in R : m <= t
<1> DEFINE G == {T \in SUBSET R : T = {} \/ \E m \in T : \A t \in T : m <= t}
<1>1. {} \in G
  OBVIOUS
<1>2. ASSUME NEW T \in SUBSET R, NEW x \in R \ T, T \in G PROVE T \cup {x} \in G
  <2>1. CASE T = {}
    BY <2>1
  <2>2. ASSUME NEW m \in T, \A t \in T : m <= t PROVE T \cup {x} \in G
    <3>1. m \in Nat /\ x \in Nat /\ T \subseteq Nat
      OBVIOUS
    <3>2. CASE x <= m
      <4>1. \A t \in T \cup {x} : x <= t
        BY <2>2, <3>1, <3>2
      <4> QED
        BY <4>1
    <3>3. CASE m < x
      <4>1. \A t \in T \cup {x} : m <= t
        BY <2>2, <3>1, <3>3
      <4> QED
        BY <4>1
    <3> QED
      BY <3>1, <3>2, <3>3
  <2> QED
    BY <1>2, <2>1, <2>2
<1> HIDE DEF G
<1>3. R \in G
  BY <1>1, <1>2, FiniteInduction
<1> QED
  BY <1>3 DEF G

\* The next line is the first of those that remain.
LEMMA NextLineIsFirst ==
    ASSUME NEW r, NEW remaining, remaining \subseteq Sku, remaining # {}
    PROVE  /\ NextLine(r, remaining) \in remaining
           /\ \A t \in remaining : NextLine(r, remaining) <= t
<1>1. remaining \subseteq Nat /\ IsFiniteSet(remaining)
  BY SkuAssumption, FS_Subset
<1>2. \E m \in remaining : \A t \in remaining : m <= t
  BY <1>1, HasSmallest
<1> QED
  BY <1>2 DEF NextLine

\* One more lock, of the first line that remains.
LEMMA NextOrdered ==
    ASSUME NEW r, NEW lines \in SUBSET Sku, NEW taken, Ordered(taken, lines), taken # lines
    PROVE  /\ NextLine(r, lines \ taken) \in lines \ taken
           /\ Ordered(taken \cup {NextLine(r, lines \ taken)}, lines)
           /\ \A s \in taken : s < NextLine(r, lines \ taken)
<1> DEFINE n == NextLine(r, lines \ taken)
<1>1. lines \ taken \subseteq Sku /\ lines \ taken # {}
  BY DEF Ordered
<1>2. n \in lines \ taken /\ \A t \in lines \ taken : n <= t
  BY <1>1, NextLineIsFirst
<1>3. lines \subseteq Nat
  BY SkuAssumption
<1> HIDE DEF n
<1>4. \A t \in lines \ (taken \cup {n}) : n < t
  <2> SUFFICES ASSUME NEW t \in lines \ (taken \cup {n}) PROVE n < t
    OBVIOUS
  <2>1. n <= t /\ n # t /\ n \in Nat /\ t \in Nat
    BY <1>2, <1>3
  <2> QED
    BY <2>1
<1>5. \A s \in taken : s < n
  BY <1>2 DEF Ordered
<1>6. taken \cup {n} \subseteq lines
  BY <1>2 DEF Ordered
<1>7. \A s \in taken, t \in lines \ (taken \cup {n}) : s < t
  BY DEF Ordered
<1>8. Ordered(taken \cup {n}, lines)
  BY <1>4, <1>6, <1>7 DEF Ordered
<1> QED
  BY <1>2, <1>5, <1>8 DEF n

LEMMA LinesAreItems == \A c : Lines(c) \subseteq Sku
BY DEF Lines

\* What a reservation row that exists stays.
HoldsStay == \A c \in Checkouts : hold'[c] = "NONE" => hold[c] = "NONE"

\* A request whose own record alone changes.
LEMMA OneRequestLocks ==
    ASSUME HoldInv, LockInv, HoldsStay, NEW r \in Requests, NEW x,
           req' = [req EXCEPT ![r] = x], LocksOf(r)',
           x.keys \cap req[r].keys = x.keys
           \/ \E n : x.keys = req[r].keys \cup {n} /\ KeyHolders(n) = {}
    PROVE  LockInv'
<1>1. \A q \in Requests : req'[q] = IF q = r THEN x ELSE req[q]
  BY DEF HoldInv, Shaped
<1>2. \A q \in Requests : LocksOf(q)'
  <2> SUFFICES ASSUME NEW q \in Requests, q # r PROVE LocksOf(q)'
    OBVIOUS
  <2>1. req'[q] = req[q] /\ LocksOf(q) /\ (hold'[Of[q]] = "NONE" => hold[Of[q]] = "NONE")
    BY <1>1, RequestAssumption DEF HoldsStay, LockInv
  <2> QED
    BY <2>1 DEF LocksOf, FreshHold, Lines
<1>3. KeysAreExclusive'
  <2>1. \A q, p \in Requests : q # p => req[q].keys \cap req[p].keys = {}
    BY DEF LockInv, KeysAreExclusive
  <2>2. \A q \in Requests : q # r => x.keys \cap req[q].keys = {}
    BY <2>1 DEF KeyHolders
  <2> QED
    BY <1>1, <2>1, <2>2 DEF KeysAreExclusive
<1> QED
  BY <1>2, <1>3 DEF LockInv

\* A request without a lock, or that gives all of its own back.
LEMMA UnlockedLocks ==
    ASSUME HoldInv, LockInv, HoldsStay, NEW r \in Requests, NEW x,
           req' = [req EXCEPT ![r] = x],
           x.pc \in {"idle", "looked"}, x.keys = {}, x.rows = {}
    PROVE  LockInv'
<1>1. req'[r] = x
  BY DEF HoldInv, Shaped
<1>2. LocksOf(r)'
  BY <1>1 DEF LocksOf, FreshHold, Ordered
<1> QED
  BY <1>2, OneRequestLocks

LEMMA RollbackLocks ==
    ASSUME HoldInv, LockInv, HoldsStay, NEW r \in Requests, req' = Ended(r)
    PROVE  LockInv'
<1>1. Idle.pc = "idle" /\ Idle.keys = {} /\ Idle.rows = {}
  BY DEF Idle
<1> QED
  BY <1>1, UnlockedLocks DEF Ended

LEMMA LookLocks ==
    ASSUME HoldInv, LockInv, NEW r \in Requests, Look(r) PROVE LockInv'
<1> DEFINE x == [pc |-> "looked", act |-> IF version[Of[r]] = "quoted" THEN "review" ELSE "admit",
                 seen |-> shelf, late |-> {c \in lapsed : hold[c] = "ACTIVE"},
                 keys |-> {}, rows |-> {}]
<1>1. req' = [req EXCEPT ![r] = x] /\ HoldsStay
  BY DEF Look, holds, HoldsStay
<1>2. x.pc = "looked" /\ x.keys = {} /\ x.rows = {}
  OBVIOUS
<1> HIDE DEF x
<1> QED
  BY <1>1, <1>2, UnlockedLocks

LEMMA ProceedLocks ==
    ASSUME HoldInv, LockInv, NEW r \in Requests, Proceed(r) PROVE LockInv'
<1> DEFINE pc == IF hold[Of[r]] = "NONE" THEN "keys" ELSE "rows"
           x == [pc |-> pc, act |-> req[r].act, seen |-> req[r].seen, late |-> req[r].late,
                 keys |-> req[r].keys, rows |-> req[r].rows]
<1>1. [req[r] EXCEPT !.pc = pc] = x
  BY PcChanged DEF HoldInv, Shaped
<1>2. req' = [req EXCEPT ![r] = x] /\ hold' = hold /\ req[r].pc = "looked"
  BY <1>1 DEF Proceed, Decides, holds
<1>3. req[r].keys = {} /\ req[r].rows = {}
  BY <1>2 DEF LockInv, LocksOf
<1>4. x.pc = pc /\ x.keys = {} /\ x.rows = {}
  BY <1>3
<1>5. pc \in {"keys", "rows"} /\ (pc = "rows" => hold[Of[r]] # "NONE")
  OBVIOUS
<1> HIDE DEF x, pc
<1>6. req'[r] = x
  BY <1>2 DEF HoldInv, Shaped
<1>7. LocksOf(r)'
  BY <1>2, <1>4, <1>5, <1>6 DEF LocksOf, FreshHold, Ordered
<1> QED
  BY <1>2, <1>3, <1>4, <1>7, OneRequestLocks DEF HoldsStay

LEMMA TakeKeyLocks ==
    ASSUME HoldInv, LockInv, NEW r \in Requests, TakeKey(r) PROVE LockInv'
<1> DEFINE n == NextKey(r)
           x == [pc |-> req[r].pc, act |-> req[r].act, seen |-> req[r].seen,
                 late |-> req[r].late, keys |-> req[r].keys \cup {n}, rows |-> req[r].rows]
<1>1. [req[r] EXCEPT !.keys = req[r].keys \cup {n}] = x
  BY KeysChanged DEF HoldInv, Shaped
<1>2. /\ req' = [req EXCEPT ![r] = x] /\ hold' = hold /\ req[r].pc = "keys"
      /\ req[r].keys # Lines(Of[r]) /\ KeyHolders(n) = {}
  BY <1>1 DEF TakeKey, KeysTaken, holds
<1>3. LocksOf(r) /\ n = NextLine(r, Lines(Of[r]) \ req[r].keys)
  BY DEF LockInv, NextKey
<1>4. x.pc = "keys" /\ x.keys = req[r].keys \cup {n} /\ x.rows = {}
  BY <1>2, <1>3 DEF LocksOf
<1> HIDE DEF x, n
<1>5. Ordered(req[r].keys \cup {n}, Lines(Of[r]))
  <2>1. Ordered(req[r].keys, Lines(Of[r])) /\ Lines(Of[r]) \subseteq Sku
    BY <1>3, LinesAreItems DEF LocksOf
  <2> DEFINE lines == Lines(Of[r])
             taken == req[r].keys
  <2>2. lines \in SUBSET Sku /\ Ordered(taken, lines) /\ taken # lines
    BY <1>2, <2>1
  <2>3. n = NextLine(r, lines \ taken)
    BY <1>3
  <2> HIDE DEF lines, taken
  <2>4. Ordered(taken \cup {n}, lines)
    BY <2>2, <2>3, NextOrdered
  <2> QED
    BY <2>4 DEF lines, taken
<1>6. req'[r] = x
  BY <1>2 DEF HoldInv, Shaped
<1>7. LocksOf(r)'
  BY <1>4, <1>5, <1>6 DEF LocksOf, FreshHold, Ordered, Lines
<1> QED
  BY <1>2, <1>4, <1>7, OneRequestLocks DEF HoldsStay

LEMMA ReserveLocks ==
    ASSUME HoldInv, LockInv, NEW r \in Requests, Reserve(r) PROVE LockInv'
<1> DEFINE x == [pc |-> "rows", act |-> req[r].act, seen |-> req[r].seen,
                 late |-> req[r].late, keys |-> req[r].keys, rows |-> req[r].rows]
<1>1. [req[r] EXCEPT !.pc = "rows"] = x
  BY PcChanged DEF HoldInv, Shaped
<1>2. /\ req' = [req EXCEPT ![r] = x] /\ hold' = hold
      /\ req[r].pc = "keys" /\ req[r].keys = Lines(Of[r])
  BY <1>1 DEF Reserve, Checks, KeysTaken, holds
<1>3. x.pc = "rows" /\ x.keys = Lines(Of[r]) /\ x.rows = {}
  BY <1>2 DEF LockInv, LocksOf
<1> HIDE DEF x
<1>4. req'[r] = x
  BY <1>2 DEF HoldInv, Shaped
<1>5. LocksOf(r)'
  BY <1>3, <1>4 DEF LocksOf, FreshHold, Ordered, Lines
<1> QED
  BY <1>2, <1>3, <1>5, OneRequestLocks DEF HoldsStay

LEMMA TakeRowLocks ==
    ASSUME HoldInv, LockInv, NEW r \in Requests, TakeRow(r) PROVE LockInv'
<1> DEFINE n == NextRow(r)
           x == [pc |-> req[r].pc, act |-> req[r].act, seen |-> req[r].seen,
                 late |-> req[r].late, keys |-> req[r].keys, rows |-> req[r].rows \cup {n}]
<1>1. [req[r] EXCEPT !.rows = req[r].rows \cup {n}] = x
  BY RowsChanged DEF HoldInv, Shaped
<1>2. /\ req' = [req EXCEPT ![r] = x] /\ hold' = hold /\ req[r].pc = "rows"
      /\ req[r].rows # Lines(Of[r])
  BY <1>1 DEF TakeRow, holds
<1>3. LocksOf(r) /\ n = NextLine(r, Lines(Of[r]) \ req[r].rows)
  BY DEF LockInv, NextRow
<1>4. x.pc = "rows" /\ x.keys = req[r].keys /\ x.rows = req[r].rows \cup {n}
  BY <1>2
<1> HIDE DEF x, n
<1>5. Ordered(req[r].rows \cup {n}, Lines(Of[r]))
  <2>1. Ordered(req[r].rows, Lines(Of[r])) /\ Lines(Of[r]) \subseteq Sku
    BY <1>3, LinesAreItems DEF LocksOf
  <2> DEFINE lines == Lines(Of[r])
             taken == req[r].rows
  <2>2. lines \in SUBSET Sku /\ Ordered(taken, lines) /\ taken # lines
    BY <1>2, <2>1
  <2>3. n = NextLine(r, lines \ taken)
    BY <1>3
  <2> HIDE DEF lines, taken
  <2>4. Ordered(taken \cup {n}, lines)
    BY <2>2, <2>3, NextOrdered
  <2> QED
    BY <2>4 DEF lines, taken
<1>6. req'[r] = x
  BY <1>2 DEF HoldInv, Shaped
<1>7. LocksOf(r)'
  BY <1>2, <1>3, <1>4, <1>5, <1>6 DEF LocksOf, FreshHold, Ordered, Lines
<1> QED
  BY <1>2, <1>4, <1>7, OneRequestLocks DEF HoldsStay

\* A step that changes no record of a request.
LEMMA FrameLocks ==
    ASSUME LockInv, HoldsStay, UNCHANGED req PROVE LockInv'
<1>1. \A q \in Requests : hold'[Of[q]] = "NONE" => hold[Of[q]] = "NONE"
  BY RequestAssumption DEF HoldsStay
<1>2. \A q \in Requests : LocksOf(q)'
  BY <1>1 DEF LockInv, LocksOf, FreshHold, Lines
<1> QED
  BY <1>2 DEF LockInv, KeysAreExclusive

LEMMA RequestHoldsStay ==
    ASSUME HoldInv, NEW r \in Requests, RequestStep(r) PROVE HoldsStay
<1>1. Of[r] \in Checkouts /\ hold = [c \in Checkouts |-> hold[c]]
  BY RequestAssumption DEF HoldInv, Shaped
<1>2. CASE UNCHANGED hold
  BY <1>2 DEF HoldsStay
<1>3. CASE Supersede(r) \/ HoldAtReview(r) \/ RefuseAuthority(r) \/ Sell(r)
  BY <1>1, <1>3 DEF Supersede, HoldAtReview, RefuseAuthority, Sell, HoldsStay
<1>4. Refuse(r) \/ Proceed(r) \/ TakeKey(r) \/ NoStock(r) \/ Reserve(r) \/ TakeRow(r)
        \/ SoldOut(r) \/ Victim(r) => UNCHANGED hold
  BY DEF Refuse, Proceed, TakeKey, NoStock, Reserve, TakeRow, SoldOut, Victim, holds
<1> QED
  BY <1>2, <1>3, <1>4 DEF RequestStep

LEMMA RequestLocks ==
    ASSUME HoldInv, LockInv, NEW r \in Requests, RequestStep(r) PROVE LockInv'
<1>1. HoldsStay
  BY RequestHoldsStay
<1>2. Refuse(r) \/ Supersede(r) \/ NoStock(r) \/ HoldAtReview(r) \/ RefuseAuthority(r)
        \/ SoldOut(r) \/ Sell(r) \/ Victim(r) => req' = Ended(r)
  BY DEF Refuse, Supersede, NoStock, HoldAtReview, RefuseAuthority, SoldOut, Sell, Victim
<1> QED
  BY <1>1, <1>2, RollbackLocks, ProceedLocks, TakeKeyLocks, ReserveLocks, TakeRowLocks
     DEF RequestStep

LEMMA OthersLock ==
    ASSUME HoldInv, LockInv,
           \/ \E c \in Checkouts : Release(c) \/ Lapse(c) \/ Sweep(c)
           \/ \E s \in Sku, n \in Quantities :
                 BeginReceipt(s, n) \/ BeginSet(s, n) \/ BeginDecrement(s, n)
           \/ BeginReset \/ EditStep
    PROVE  LockInv'
<1>1. UNCHANGED req
  BY DEF Release, Lapse, Sweep, BeginReceipt, BeginSet, BeginDecrement, BeginReset, EditStep,
         ReadForReceipt, EditRow, EditRefused, EditCommit, EditVictim
<1>2. (\E c \in Checkouts : Release(c) \/ Sweep(c)) => HoldsStay
  BY DEF Release, Sweep, HoldsStay, HoldInv, Shaped
<1>3. ~(\E c \in Checkouts : Release(c) \/ Sweep(c)) => HoldsStay
  BY DEF Lapse, BeginReceipt, BeginSet, BeginDecrement, BeginReset, EditStep,
         ReadForReceipt, EditRow, EditRefused, EditCommit, EditVictim, holds, HoldsStay
<1> QED
  BY <1>1, <1>2, <1>3, FrameLocks

LEMMA LockInit == Init => LockInv
<1> SUFFICES ASSUME Init PROVE LockInv
  OBVIOUS
<1>1. \A r \in Requests : req[r].pc = "idle" /\ req[r].keys = {} /\ req[r].rows = {}
  BY DEF Init, Idle
<1> QED
  BY <1>1 DEF LockInv, LocksOf, KeysAreExclusive, FreshHold, Ordered

LEMMA LockStep == HoldInv /\ LockInv /\ [Next]_vars => LockInv'
<1> SUFFICES ASSUME HoldInv, LockInv, [Next]_vars PROVE LockInv'
  OBVIOUS
<1>1. CASE UNCHANGED vars
  BY <1>1, FrameLocks DEF vars, HoldsStay
<1> QED
  BY <1>1, LookLocks, RequestLocks, OthersLock DEF Next

\* The inductive invariant of the advisory locks and the row locks of the
\* requests: whatever a request has comes before what it still wants, and a
\* hold that nobody else has seen is under the locks of all its items.
THEOREM LockInvariance == Spec => []LockInv
BY HoldInvariance, LockInit, LockStep, PTL DEF Spec

-----------------------------------------------------------------------------
\* No two reservers wait for each other.

\* A request that wants one more lock, and what it has been given.
LEMMA WantsMore ==
    ASSUME LockInv, NEW r \in Requests
    PROVE  /\ req[r].rows # Lines(Of[r]) =>
                /\ NextRow(r) \in Sku \ req[r].rows
                /\ \A s \in req[r].rows : s < NextRow(r)
           /\ req[r].keys # Lines(Of[r]) =>
                /\ NextKey(r) \in Sku \ req[r].keys
                /\ \A s \in req[r].keys : s < NextKey(r)
<1>1. /\ Ordered(req[r].keys, Lines(Of[r])) /\ Ordered(req[r].rows, Lines(Of[r]))
      /\ Lines(Of[r]) \subseteq Sku
  BY LinesAreItems DEF LockInv, LocksOf
<1>2. ASSUME req[r].rows # Lines(Of[r])
      PROVE  NextRow(r) \in Lines(Of[r]) \ req[r].rows /\ \A s \in req[r].rows : s < NextRow(r)
  <2> DEFINE lines == Lines(Of[r])
             taken == req[r].rows
             n == NextRow(r)
  <2>1. n = NextLine(r, lines \ taken)
    BY DEF NextRow
  <2>2. lines \in SUBSET Sku /\ Ordered(taken, lines) /\ taken # lines
    BY <1>1, <1>2
  <2> HIDE DEF lines, taken, n
  <2>3. n \in lines \ taken /\ \A s \in taken : s < n
    BY <2>1, <2>2, NextOrdered
  <2> QED
    BY <2>3 DEF lines, taken, n
<1>3. ASSUME req[r].keys # Lines(Of[r])
      PROVE  NextKey(r) \in Lines(Of[r]) \ req[r].keys /\ \A s \in req[r].keys : s < NextKey(r)
  <2> DEFINE lines == Lines(Of[r])
             taken == req[r].keys
             n == NextKey(r)
  <2>1. n = NextLine(r, lines \ taken)
    BY DEF NextKey
  <2>2. lines \in SUBSET Sku /\ Ordered(taken, lines) /\ taken # lines
    BY <1>1, <1>3
  <2> HIDE DEF lines, taken, n
  <2>3. n \in lines \ taken /\ \A s \in taken : s < n
    BY <2>1, <2>2, NextOrdered
  <2> QED
    BY <2>3 DEF lines, taken, n
<1> HIDE DEF NextRow, NextKey
<1> QED
  BY <1>1, <1>2, <1>3

RowWaiter(r) == req[r].pc = "rows" /\ req[r].rows # Lines(Of[r])
KeyWaiter(r) == req[r].pc = "keys" /\ ~KeysTaken(r)

\* Who waits, waits for its version, its next item or its next row.
LEMMA WhoWaits ==
    ASSUME NEW r \in Requests, NEW q \in Requests, q \in InTheWay(r)
    PROVE  \/ req[r].pc = "looked" /\ q \in VersionHolders(Of[r])
           \/ KeyWaiter(r) /\ q \in KeyHolders(NextKey(r))
           \/ RowWaiter(r) /\ q \in RowHolders(NextRow(r))
<1>1. q \in RequestsInTheWay(r)
  BY RequestAssumption DEF InTheWay
<1> QED
  BY <1>1 DEF RequestsInTheWay, KeyWaiter, RowWaiter

LEMMA NoCycle ==
    ASSUME LockInv, NEW S \in SUBSET Requests, \A a \in S : InTheWay(a) \cap S # {}
    PROVE  S = {}
<1>1. \A a \in S : a \in Requests /\ \E b \in S : b \in Requests /\ b \in InTheWay(a)
  OBVIOUS
<1> DEFINE Rows == {NextRow(a) : a \in {x \in S : RowWaiter(x)}}
           Keys == {NextKey(a) : a \in {x \in S : KeyWaiter(x)}}
\* a request that has a row waits for a later one
<1>2. Rows = {}
  <2>1. Rows \subseteq Sku
    BY WantsMore DEF RowWaiter
  <2>2. \A x \in Rows : \E y \in Rows : x < y
    <3> SUFFICES ASSUME NEW a \in S, RowWaiter(a)
                 PROVE  \E y \in Rows : NextRow(a) < y
      OBVIOUS
    <3>1. PICK b \in S : b \in InTheWay(a)
      BY <1>1
    <3>2. b \in Requests /\ NextRow(a) \in req[b].rows
      BY <1>1, <3>1, WhoWaits DEF RowWaiter, KeyWaiter, RowHolders
    <3>3. req[b].pc = "rows"
      BY <3>2 DEF LockInv, LocksOf
    <3>4. RowWaiter(b)
      BY <1>1, <3>3, WhoWaits DEF RowWaiter, KeyWaiter
    <3>5. NextRow(a) < NextRow(b)
      BY <3>2, <3>4, WantsMore DEF RowWaiter
    <3> QED
      BY <3>4, <3>5
  <2>3. Rows \subseteq Nat /\ IsFiniteSet(Rows)
    BY <2>1, SkuAssumption, FS_Subset
  <2> HIDE DEF Rows
  <2> QED
    BY <2>2, <2>3, NoLargest
<1>3. \A a \in S : ~RowWaiter(a)
  BY <1>2
\* and a request that has an item waits for a later one
<1>4. Keys = {}
  <2>1. Keys \subseteq Sku
    BY WantsMore DEF KeyWaiter, KeysTaken
  <2>2. \A x \in Keys : \E y \in Keys : x < y
    <3> SUFFICES ASSUME NEW a \in S, KeyWaiter(a)
                 PROVE  \E y \in Keys : NextKey(a) < y
      OBVIOUS
    <3>1. PICK b \in S : b \in InTheWay(a)
      BY <1>1
    <3>2. b \in Requests /\ NextKey(a) \in req[b].keys
      BY <1>1, <3>1, WhoWaits DEF RowWaiter, KeyWaiter, KeyHolders
    <3>3. req[b].pc \in {"keys", "rows"}
      BY <3>2 DEF LockInv, LocksOf
    <3>4. KeyWaiter(b)
      BY <1>1, <1>3, <3>3, WhoWaits DEF RowWaiter, KeyWaiter
    <3>5. NextKey(a) < NextKey(b)
      BY <3>2, <3>4, WantsMore DEF KeyWaiter, KeysTaken
    <3> QED
      BY <3>4, <3>5
  <2>3. Keys \subseteq Nat /\ IsFiniteSet(Keys)
    BY <2>1, SkuAssumption, FS_Subset
  <2> HIDE DEF Keys
  <2> QED
    BY <2>2, <2>3, NoLargest
<1>5. \A a \in S : ~KeyWaiter(a)
  BY <1>4
\* what is left waits for a version, and nobody who has one waits
<1>6. ASSUME NEW a \in S PROVE FALSE
  <2>1. PICK b \in S : b \in InTheWay(a)
    BY <1>1
  <2>2. b \in Requests /\ InTransaction(b)
    BY <1>1, <1>3, <1>5, <2>1, WhoWaits DEF VersionHolders
  <2> QED
    BY <1>1, <1>3, <1>5, <2>2, WhoWaits DEF InTransaction
<1> QED
  BY <1>6

\* Two reservers never each hold the lock the other is waiting for, over the
\* version, item and shelf locks together, for any number of requests, items and
\* carts: every lock is taken in the order of the SKU, and the versions before
\* the items before the rows (allocations_for, reserve, record_sale).
THEOREM ReserversPass == Spec => []ReserversNeverDeadlock
<1>1. LockInv => ReserversNeverDeadlock
  BY NoCycle DEF ReserversNeverDeadlock, Deadlocks, Deadlocked, Waiting
<1> QED
  BY <1>1, LockInvariance, PTL

-----------------------------------------------------------------------------
\* What the requests know of the shop, and the rows they know it from.

RowsTyped ==
    /\ version \in [Checkouts -> {"quoted", "approved", "admitted", "ended"}]
    /\ hold \in [Checkouts -> ReservationStatus]
    /\ sales \subseteq Checkouts /\ lapsed \subseteq Checkouts

\* A hold the clock of a transaction found lapsed has lapsed.
Knows(r) ==
    /\ req[r].act \in {"none", "review", "admit"}
    /\ req[r].seen \in [Sku -> Nat]
    /\ req[r].late \subseteq lapsed

\* However many checkouts and requests there may be, finitely many have begun.
ActiveHolds == {c \in Checkouts : hold[c] = "ACTIVE"}
Begun == {r \in Requests : req[r].pc # "idle"}

SeenInv ==
    /\ RowsTyped /\ \A r \in Requests : Knows(r)
    /\ IsFiniteSet(ActiveHolds) /\ IsFiniteSet(Begun)

\* A request whose own record alone changes.
LEMMA OneRequestSees ==
    ASSUME HoldInv, SeenInv, NEW r \in Requests, NEW x, req' = [req EXCEPT ![r] = x],
           x.act \in {"none", "review", "admit"}, x.seen \in [Sku -> Nat],
           x.late \subseteq lapsed, lapsed' = lapsed, RowsTyped',
           \E c \in Checkouts : \A d \in Checkouts : d # c => hold'[d] = hold[d]
    PROVE  SeenInv'
<1>1. \A q \in Requests : req'[q] = IF q = r THEN x ELSE req[q]
  BY DEF HoldInv, Shaped
<1>2. \A q \in Requests : Knows(q)'
  BY <1>1 DEF SeenInv, Knows
<1>3. IsFiniteSet(Begun')
  <2>1. Begun' \subseteq Begun \cup {r} /\ IsFiniteSet(Begun \cup {r})
    BY <1>1, FS_AddElement DEF SeenInv, Begun
  <2> QED
    BY <2>1, FS_Subset
<1>4. IsFiniteSet(ActiveHolds')
  <2>1. PICK c \in Checkouts : \A d \in Checkouts : d # c => hold'[d] = hold[d]
    OBVIOUS
  <2>2. ActiveHolds' \subseteq ActiveHolds \cup {c} /\ IsFiniteSet(ActiveHolds \cup {c})
    BY <2>1, FS_AddElement DEF SeenInv, ActiveHolds
  <2> QED
    BY <2>2, FS_Subset
<1> QED
  BY <1>2, <1>3, <1>4 DEF SeenInv

\* A step of the request goes on with what it has read, or ends.
LEMMA SameSight ==
    ASSUME HoldInv, SeenInv, NEW r \in Requests, lapsed' = lapsed, RowsTyped',
           \E c \in Checkouts : \A d \in Checkouts : d # c => hold'[d] = hold[d],
           \/ req' = Ended(r)
           \/ \E pc : req' = [req EXCEPT ![r] = [req[r] EXCEPT !.pc = pc]]
           \/ \E keys : req' = [req EXCEPT ![r] = [req[r] EXCEPT !.keys = keys]]
           \/ \E rows : req' = [req EXCEPT ![r] = [req[r] EXCEPT !.rows = rows]]
    PROVE  SeenInv'
<1>1. RequestShape(req[r]) /\ Knows(r)
  BY DEF HoldInv, Shaped, SeenInv
<1>2. CASE req' = Ended(r)
  <2>1. Idle.act = "none" /\ Idle.seen \in [Sku -> Nat] /\ Idle.late = {}
    BY DEF Idle
  <2> QED
    BY <1>2, <2>1, OneRequestSees DEF Ended
<1>3. CASE \E pc : req' = [req EXCEPT ![r] = [req[r] EXCEPT !.pc = pc]]
  <2>1. PICK pc : req' = [req EXCEPT ![r] = [req[r] EXCEPT !.pc = pc]]
    BY <1>3
  <2> DEFINE x == [pc |-> pc, act |-> req[r].act, seen |-> req[r].seen, late |-> req[r].late,
                   keys |-> req[r].keys, rows |-> req[r].rows]
  <2>2. req' = [req EXCEPT ![r] = x]
    BY <1>1, <2>1, PcChanged
  <2>3. x.act = req[r].act /\ x.seen = req[r].seen /\ x.late = req[r].late
    OBVIOUS
  <2> HIDE DEF x
  <2> QED
    BY <1>1, <2>2, <2>3, OneRequestSees DEF Knows
<1>4. CASE \E keys : req' = [req EXCEPT ![r] = [req[r] EXCEPT !.keys = keys]]
  <2>1. PICK keys : req' = [req EXCEPT ![r] = [req[r] EXCEPT !.keys = keys]]
    BY <1>4
  <2> DEFINE x == [pc |-> req[r].pc, act |-> req[r].act, seen |-> req[r].seen,
                   late |-> req[r].late, keys |-> keys, rows |-> req[r].rows]
  <2>2. req' = [req EXCEPT ![r] = x]
    BY <1>1, <2>1, KeysChanged
  <2>3. x.act = req[r].act /\ x.seen = req[r].seen /\ x.late = req[r].late
    OBVIOUS
  <2> HIDE DEF x
  <2> QED
    BY <1>1, <2>2, <2>3, OneRequestSees DEF Knows
<1>5. CASE \E rows : req' = [req EXCEPT ![r] = [req[r] EXCEPT !.rows = rows]]
  <2>1. PICK rows : req' = [req EXCEPT ![r] = [req[r] EXCEPT !.rows = rows]]
    BY <1>5
  <2> DEFINE x == [pc |-> req[r].pc, act |-> req[r].act, seen |-> req[r].seen,
                   late |-> req[r].late, keys |-> req[r].keys, rows |-> rows]
  <2>2. req' = [req EXCEPT ![r] = x]
    BY <1>1, <2>1, RowsChanged
  <2>3. x.act = req[r].act /\ x.seen = req[r].seen /\ x.late = req[r].late
    OBVIOUS
  <2> HIDE DEF x
  <2> QED
    BY <1>1, <2>2, <2>3, OneRequestSees DEF Knows
<1> QED
  BY <1>2, <1>3, <1>4, <1>5

LEMMA LookSees ==
    ASSUME HoldInv, ShelfInv, SeenInv, NEW r \in Requests, Look(r) PROVE SeenInv'
<1> DEFINE x == [pc |-> "looked", act |-> IF version[Of[r]] = "quoted" THEN "review" ELSE "admit",
                 seen |-> shelf, late |-> {c \in lapsed : hold[c] = "ACTIVE"},
                 keys |-> {}, rows |-> {}]
<1>1. req' = [req EXCEPT ![r] = x] /\ UNCHANGED <<lapsed, hold, version, sales>>
  BY DEF Look, holds, ledger
<1>2. x.act \in {"review", "admit"} /\ x.seen \in [Sku -> Nat] /\ x.late \subseteq lapsed
  BY DEF ShelfInv, LedgerTyped
<1>3. Of[r] \in Checkouts /\ RowsTyped'
  BY <1>1, RequestAssumption DEF SeenInv, RowsTyped
<1> HIDE DEF x
<1> QED
  BY <1>1, <1>2, <1>3, OneRequestSees

\* A request changes the rows of its own version alone.
LEMMA OwnRows ==
    ASSUME HoldInv, SeenInv, NEW r \in Requests, RequestStep(r)
    PROVE  /\ lapsed' = lapsed /\ RowsTyped'
           /\ \E c \in Checkouts : \A d \in Checkouts : d # c => hold'[d] = hold[d]
<1>1. Of[r] \in Checkouts /\ RowsTyped
  BY RequestAssumption DEF SeenInv
<1>2. CASE Refuse(r) \/ Proceed(r) \/ TakeKey(r) \/ NoStock(r) \/ Reserve(r) \/ TakeRow(r)
           \/ SoldOut(r) \/ Victim(r)
  <2>1. UNCHANGED <<lapsed, hold, version, sales>>
    BY <1>2 DEF Refuse, Proceed, TakeKey, NoStock, Reserve, TakeRow, SoldOut, Victim, holds, ledger
  <2> QED
    BY <1>1, <2>1 DEF RowsTyped
<1>3. CASE Supersede(r) \/ HoldAtReview(r) \/ RefuseAuthority(r)
  <2>1. lapsed' = lapsed /\ sales' = sales
    BY <1>3 DEF Supersede, HoldAtReview, RefuseAuthority, ledger
  <2>2. \A d \in Checkouts : d # Of[r] => hold'[d] = hold[d]
    BY <1>1, <1>3 DEF Supersede, HoldAtReview, RefuseAuthority, RowsTyped
  <2>3. RowsTyped'
    BY <1>1, <1>3, <2>1 DEF Supersede, HoldAtReview, RefuseAuthority, RowsTyped, ReservationStatus
  <2> QED
    BY <1>1, <2>1, <2>2, <2>3
<1>4. CASE Sell(r)
  BY <1>1, <1>4 DEF Sell, RowsTyped, ReservationStatus
<1> QED
  BY <1>2, <1>3, <1>4 DEF RequestStep

LEMMA RequestSees ==
    ASSUME HoldInv, SeenInv, NEW r \in Requests, RequestStep(r) PROVE SeenInv'
<1>1. /\ lapsed' = lapsed /\ RowsTyped'
      /\ \E c \in Checkouts : \A d \in Checkouts : d # c => hold'[d] = hold[d]
  BY OwnRows
<1>2. \/ req' = Ended(r)
      \/ \E pc : req' = [req EXCEPT ![r] = [req[r] EXCEPT !.pc = pc]]
      \/ \E keys : req' = [req EXCEPT ![r] = [req[r] EXCEPT !.keys = keys]]
      \/ \E rows : req' = [req EXCEPT ![r] = [req[r] EXCEPT !.rows = rows]]
  BY DEF RequestStep, Refuse, Supersede, Proceed, TakeKey, NoStock, HoldAtReview, Reserve,
         RefuseAuthority, TakeRow, SoldOut, Sell, Victim
<1> QED
  BY <1>1, <1>2, SameSight

LEMMA FrameSees ==
    ASSUME SeenInv, UNCHANGED req, RowsTyped', lapsed \subseteq lapsed',
           ActiveHolds' \subseteq ActiveHolds
    PROVE  SeenInv'
<1>1. IsFiniteSet(ActiveHolds')
  BY FS_Subset DEF SeenInv
<1> QED
  BY <1>1 DEF SeenInv, Knows, Begun

LEMMA OthersSee ==
    ASSUME HoldInv, SeenInv,
           \/ \E c \in Checkouts : Release(c) \/ Lapse(c) \/ Sweep(c)
           \/ \E s \in Sku, n \in Quantities :
                 BeginReceipt(s, n) \/ BeginSet(s, n) \/ BeginDecrement(s, n)
           \/ BeginReset \/ EditStep
    PROVE  SeenInv'
<1>1. UNCHANGED req
  BY DEF Release, Lapse, Sweep, BeginReceipt, BeginSet, BeginDecrement, BeginReset, EditStep,
         ReadForReceipt, EditRow, EditRefused, EditCommit, EditVictim
<1>2. RowsTyped
  BY DEF SeenInv
<1>3. CASE \E c \in Checkouts : Release(c) \/ Lapse(c) \/ Sweep(c)
  <2>1. RowsTyped' /\ lapsed \subseteq lapsed'
    BY <1>2, <1>3 DEF Release, Lapse, Sweep, RowsTyped, ReservationStatus, ledger
  <2>2. ActiveHolds' \subseteq ActiveHolds
    BY <1>2, <1>3 DEF Release, Lapse, Sweep, RowsTyped, ActiveHolds
  <2> QED
    BY <1>1, <2>1, <2>2, FrameSees
<1>4. CASE ~ \E c \in Checkouts : Release(c) \/ Lapse(c) \/ Sweep(c)
  <2>1. UNCHANGED <<version, hold, sales, lapsed>>
    BY <1>4 DEF BeginReceipt, BeginSet, BeginDecrement, BeginReset, EditStep,
       ReadForReceipt, EditRow, EditRefused, EditCommit, EditVictim, ledger, holds
  <2> QED
    BY <1>1, <1>2, <2>1, FrameSees DEF RowsTyped, ActiveHolds
<1> QED
  BY <1>3, <1>4

LEMMA SeenInit == Init => SeenInv
<1> SUFFICES ASSUME Init PROVE SeenInv
  OBVIOUS
<1>1. RowsTyped
  BY DEF Init, RowsTyped, ReservationStatus
<1>2. \A r \in Requests : Knows(r) /\ req[r].pc = "idle"
  BY DEF Init, Idle, Knows
<1>3. Begun = {} /\ ActiveHolds = {}
  BY <1>2 DEF Init, Begun, ActiveHolds
<1> QED
  BY <1>1, <1>2, <1>3, FS_EmptySet DEF SeenInv

LEMMA SeenStep == HoldInv /\ ShelfInv /\ SeenInv /\ [Next]_vars => SeenInv'
<1> SUFFICES ASSUME HoldInv, ShelfInv, SeenInv, [Next]_vars PROVE SeenInv'
  OBVIOUS
<1>1. CASE UNCHANGED vars
  BY <1>1, FrameSees DEF vars, SeenInv, RowsTyped, ActiveHolds
<1> QED
  BY <1>1, LookSees, RequestSees, OthersSee DEF Next

\* What a request has read and when its clock stood still, for any shop.
LEMMA SeenInvariance == Spec => []SeenInv
BY HoldInvariance, ShelfInvariance, SeenInit, SeenStep, PTL DEF Spec

-----------------------------------------------------------------------------
\* The holds fit. The model adds the carts up with MapThenSumSet.

UnitsOf(s) == [c \in Checkouts |-> Cart[c][s]]

\* The recursion of the sum over the carts, and over the function of them.
CartRecursion(s, S, g) ==
    g = [T \in SUBSET S |->
          IF T = {} THEN 0 ELSE Cart[CHOOSE x \in T : TRUE][s] + g[T \ {CHOOSE x \in T : TRUE}]]
UnitRecursion(s, S, g) ==
    g = [T \in SUBSET S |->
          IF T = {} THEN 0 ELSE UnitsOf(s)[CHOOSE x \in T : TRUE] + g[T \ {CHOOSE x \in T : TRUE}]]

LEMMA CartsAreUnits ==
    ASSUME NEW s, NEW S \in SUBSET Checkouts
    PROVE  MapThenSumSet(LAMBDA c : Cart[c][s], S) = Sum(UnitsOf(s), S)
<1>1. MapThenSumSet(LAMBDA c : Cart[c][s], S) = (CHOOSE g : CartRecursion(s, S, g))[S]
  BY DEF CartRecursion, MapThenSumSet, MapThenFoldSet
<1>2. Sum(UnitsOf(s), S) = (CHOOSE g : UnitRecursion(s, S, g))[S]
  BY DEF UnitRecursion, Sum, MapThenSumSet, MapThenFoldSet
<1>3. ASSUME NEW g PROVE CartRecursion(s, S, g) <=> UnitRecursion(s, S, g)
  BY DEF CartRecursion, UnitRecursion, UnitsOf
<1>4. (CHOOSE g : CartRecursion(s, S, g)) = (CHOOSE g : UnitRecursion(s, S, g))
  BY <1>3
<1> QED
  BY <1>1, <1>2, <1>4

LEMMA UnitsAreNat ==
    ASSUME NEW s \in Sku, NEW S \in SUBSET Checkouts, IsFiniteSet(S)
    PROVE  Sum(UnitsOf(s), S) \in Nat /\ \A c \in S : UnitsOf(s)[c] \in Nat
<1>1. \A c \in S : UnitsOf(s)[c] \in Nat
  BY CartAssumption DEF UnitsOf
<1> QED
  BY <1>1, SumNat

\* Checkouts without the item weigh nothing.
LEMMA NoUnits ==
    ASSUME NEW s \in Sku, NEW S \in SUBSET Checkouts, IsFiniteSet(S), \A c \in S : Cart[c][s] = 0
    PROVE  Sum(UnitsOf(s), S) = 0
<1> DEFINE G == {T \in SUBSET S : Sum(UnitsOf(s), T) = 0}
<1>1. {} \in G
  BY SumEmpty
<1>2. ASSUME NEW T \in SUBSET S, NEW x \in S \ T, T \in G PROVE T \cup {x} \in G
  <2>1. IsFiniteSet(T)
    BY FS_Subset
  <2>2. UnitsOf(s)[x] = 0 /\ \A y \in T \cup {x} : UnitsOf(s)[y] \in Int
    BY DEF UnitsOf
  <2>3. Sum(UnitsOf(s), T \cup {x}) = UnitsOf(s)[x] + Sum(UnitsOf(s), T)
    BY <2>1, <2>2, SumAdd
  <2> QED
    BY <1>2, <2>2, <2>3
<1> HIDE DEF G
<1>3. S \in G
  BY <1>1, <1>2, FiniteInduction
<1> QED
  BY <1>3 DEF G

\* More checkouts weigh no more, unless they have the item.
LEMMA UnitsCover ==
    ASSUME NEW s \in Sku, NEW S \in SUBSET Checkouts, NEW T \in SUBSET Checkouts,
           IsFiniteSet(S), IsFiniteSet(T), \A c \in S \ T : Cart[c][s] = 0
    PROVE  Sum(UnitsOf(s), S) <= Sum(UnitsOf(s), T)
<1> DEFINE f == UnitsOf(s)
           In == S \cap T
           Out == S \ T
           Rest == T \ S
<1>1. IsFiniteSet(In) /\ IsFiniteSet(Out) /\ IsFiniteSet(Rest)
  BY FS_Subset
<1>2. /\ Sum(f, In) \in Nat /\ Sum(f, Rest) \in Nat /\ Sum(f, Out) = 0
      /\ \A c \in S \cup T : f[c] \in Int
  <2>1. In \in SUBSET Checkouts /\ Out \in SUBSET Checkouts /\ Rest \in SUBSET Checkouts
    OBVIOUS
  <2>2. \A c \in S \cup T : f[c] \in Int
    BY CartAssumption DEF UnitsOf
  <2>3. \A c \in Out : Cart[c][s] = 0
    OBVIOUS
  <2> HIDE DEF In, Out, Rest
  <2> QED
    BY <1>1, <2>1, <2>2, <2>3, UnitsAreNat, NoUnits
<1>3. In \cup Out = S /\ In \cap Out = {} /\ In \cup Rest = T /\ In \cap Rest = {}
  OBVIOUS
<1>4. (\A c \in In \cup Out : f[c] \in Int) /\ (\A c \in In \cup Rest : f[c] \in Int)
  BY <1>2
<1> HIDE DEF In, Out, Rest, f
<1>5. Sum(f, In \cup Out) = Sum(f, In) + Sum(f, Out)
  BY <1>1, <1>3, <1>4, SumUnion
<1>6. Sum(f, In \cup Rest) = Sum(f, In) + Sum(f, Rest)
  BY <1>1, <1>3, <1>4, SumUnion
<1>7. Sum(f, S) = Sum(f, In) /\ Sum(f, T) = Sum(f, In) + Sum(f, Rest)
  <2>1. Sum(f, S) = Sum(f, In) + Sum(f, Out) /\ Sum(f, T) = Sum(f, In) + Sum(f, Rest)
    BY <1>3, <1>5, <1>6
  <2> QED
    BY <1>2, <2>1
<1>8. Sum(f, S) <= Sum(f, T)
  BY <1>2, <1>7
<1> QED
  BY <1>8 DEF f

\* Whose units count beside those of r: the live holds, and the holds that are
\* not committed yet.
Beside(r) ==
    {c \in Checkouts \ {Of[r]} :
       \/ hold[c] = "ACTIVE" /\ c \notin lapsed
       \/ \E q \in Requests : Of[q] = c /\ FreshHold(q)}

Fit(r, s) == Sum(UnitsOf(s), Beside(r)) + Cart[Of[r]][s] <= req[r].seen[s]

LEMMA HoldsFitIs ==
    HoldsFit <=> \A r \in Requests : FreshHold(r) => \A s \in Sku : s \in Lines(Of[r]) => Fit(r, s)
<1>1. ASSUME NEW r \in Requests, NEW s \in Sku
      PROVE  MapThenSumSet(LAMBDA c : Cart[c][s], Beside(r)) = Sum(UnitsOf(s), Beside(r))
  BY CartsAreUnits DEF Beside
<1>2. HoldsFit <=>
        \A r \in {x \in Requests : FreshHold(x)}, s \in Sku : s \in Lines(Of[r]) =>
          MapThenSumSet(LAMBDA c : Cart[c][s], Beside(r)) + Cart[Of[r]][s] <= req[r].seen[s]
  BY DEF HoldsFit, Beside
<1> HIDE DEF FreshHold, Beside
<1> QED
  BY <1>1, <1>2 DEF Fit

LEMMA BesideFinite == ASSUME SeenInv, NEW r \in Requests PROVE IsFiniteSet(Beside(r))
<1> DEFINE From == {Of[q] : q \in Begun}
           G == {T \in SUBSET Begun : IsFiniteSet({Of[q] : q \in T})}
<1>1. IsFiniteSet(From)
  <2>1. {} \in G
    <3>1. {Of[q] : q \in {}} = {}
      OBVIOUS
    <3> QED
      BY <3>1, FS_EmptySet
  <2>2. ASSUME NEW T \in SUBSET Begun, NEW q \in Begun \ T, T \in G PROVE T \cup {q} \in G
    <3>1. {Of[x] : x \in T \cup {q}} = {Of[x] : x \in T} \cup {Of[q]}
      OBVIOUS
    <3>2. IsFiniteSet({Of[x] : x \in T} \cup {Of[q]})
      BY <2>2, FS_AddElement
    <3> QED
      BY <3>1, <3>2
  <2> HIDE DEF G
  <2>3. Begun \in G
    BY <2>1, <2>2, FiniteInduction DEF SeenInv
  <2> QED
    BY <2>3 DEF G
<1>2. IsFiniteSet(ActiveHolds \cup From)
  BY <1>1, FS_Union DEF SeenInv
<1>3. Beside(r) \subseteq ActiveHolds \cup From
  BY DEF Beside, ActiveHolds, Begun, FreshHold
<1> QED
  BY <1>2, <1>3, FS_Subset

LEMMA BesideFiniteAfter == SeenInv' => (\A r \in Requests : IsFiniteSet(Beside(r)))'
<1>1. SeenInv => \A r \in Requests : IsFiniteSet(Beside(r))
  BY BesideFinite
<1> QED
  BY <1>1, PTL

\* Two requests with fresh holds share no item: each has the locks of its own.
LEMMA FreshApart ==
    ASSUME LockInv, NEW r \in Requests, NEW q \in Requests, Of[q] # Of[r],
           FreshHold(r), req[q].keys = Lines(Of[q]), NEW s \in Lines(Of[r])
    PROVE  Cart[Of[q]][s] = 0
<1>1. Of[q] \in Checkouts /\ Of[r] \in Checkouts /\ s \in Sku /\ q # r
  BY RequestAssumption DEF Lines
<1>2. req[r].keys = Lines(Of[r])
  BY DEF LockInv, LocksOf
<1>3. s \notin Lines(Of[q])
  BY <1>1, <1>2 DEF LockInv, KeysAreExclusive
<1> QED
  BY <1>1, <1>3, CartAssumption DEF Lines

LEMMA CartTyped ==
    ASSUME SeenInv, NEW r \in Requests, NEW s \in Sku
    PROVE  /\ Cart[Of[r]][s] \in Nat /\ req[r].seen[s] \in Nat
           /\ Sum(UnitsOf(s), Beside(r)) \in Nat
<1>1. Beside(r) \in SUBSET Checkouts /\ IsFiniteSet(Beside(r))
  BY BesideFinite DEF Beside
<1>2. req[r].seen \in [Sku -> Nat]
  BY DEF SeenInv, Knows
<1> QED
  BY <1>1, <1>2, UnitsAreNat, RequestAssumption, CartAssumption

\* A fresh hold goes on fitting as long as no hold on one of its items appears.
LEMMA StaysFit ==
    ASSUME SeenInv, SeenInv', LockInv', NEW r \in Requests, NEW s \in Sku, s \in Lines(Of[r]),
           FreshHold(r)', req'[r].seen = req[r].seen, Fit(r, s), lapsed \subseteq lapsed',
           \A c \in Checkouts \ {Of[r]} :
              hold'[c] = "ACTIVE" /\ hold[c] # "ACTIVE" => Cart[c][s] = 0
    PROVE  Fit(r, s)'
<1>1. PICK old \in SUBSET Checkouts : old = Beside(r)
  BY DEF Beside
<1>2. PICK new \in SUBSET Checkouts : new = Beside(r)'
  BY DEF Beside
<1>3. IsFiniteSet(old) /\ IsFiniteSet(new)
  <2>1. IsFiniteSet(Beside(r)')
    BY BesideFiniteAfter
  <2> QED
    BY <1>1, <1>2, <2>1, BesideFinite
<1>4. ASSUME NEW c \in new \ old PROVE Cart[c][s] = 0
  <2>1. CASE hold'[c] = "ACTIVE" /\ c \notin lapsed'
    <3>1. c \in Checkouts \ {Of[r]} /\ hold[c] # "ACTIVE"
      BY <1>1, <1>2, <1>4, <2>1 DEF Beside
    <3> QED
      BY <2>1, <3>1
  <2>2. CASE \E q \in Requests : Of[q] = c /\ FreshHold(q)'
    <3>1. PICK q \in Requests : Of[q] = c /\ FreshHold(q)'
      BY <2>2
    <3>2. Of[q] # Of[r] /\ req'[q].keys = Lines(Of[q])
      BY <1>2, <1>4, <3>1 DEF Beside, LockInv, LocksOf, Lines
    <3>3. Cart[Of[q]][s] = 0
      <4>1. \A p \in Requests : FreshHold(p)' => req'[p].keys = Lines(Of[p])
        BY DEF LockInv, LocksOf, Lines
      <4>2. q # r /\ req'[r].keys = Lines(Of[r])
        BY <3>2, <4>1
      <4>3. req'[q].keys \cap req'[r].keys = {}
        BY <4>2 DEF LockInv, KeysAreExclusive
      <4>4. Of[q] \in Checkouts /\ s \notin Lines(Of[q])
        BY <3>2, <4>2, <4>3, RequestAssumption
      <4> QED
        BY <4>4, CartAssumption DEF Lines
    <3> QED
      BY <3>1, <3>3
  <2> QED
    BY <1>2, <1>4, <2>1, <2>2 DEF Beside
<1>5. Sum(UnitsOf(s), new) <= Sum(UnitsOf(s), old)
  BY <1>3, <1>4, UnitsCover
<1>6. Sum(UnitsOf(s), new) \in Nat /\ Sum(UnitsOf(s), old) \in Nat
  BY <1>3, UnitsAreNat
<1>7. Sum(UnitsOf(s), old) + Cart[Of[r]][s] <= req[r].seen[s]
  BY <1>1 DEF Fit
<1>8. Sum(UnitsOf(s), new) + Cart[Of[r]][s] <= req'[r].seen[s]
  <2>1. Cart[Of[r]][s] \in Nat /\ req[r].seen[s] \in Nat
    BY CartTyped
  <2> QED
    BY <1>5, <1>6, <1>7, <2>1
<1> QED
  BY <1>2, <1>8 DEF Fit, UnitsOf

\* The capacity check counts every hold that will be beside this one: a hold
\* that has not lapsed was live when the transaction's clock was read, and one
\* not committed yet is on other items.
LEMMA BecomesFit ==
    ASSUME SeenInv, SeenInv', HoldInv, LockInv, LockInv', NEW r \in Requests, Reserve(r),
           NEW s \in Sku, s \in Lines(Of[r])
    PROVE  Fit(r, s)'
<1> DEFINE held == {c \in Checkouts \ {Of[r]} : Live(r, c)}
<1>1. /\ UNCHANGED <<hold, lapsed>> /\ req[r].pc = "keys" /\ req[r].keys = Lines(Of[r])
      /\ req' = [req EXCEPT ![r] = [req[r] EXCEPT !.pc = "rows"]]
      /\ MapThenSumSet(LAMBDA c : Cart[c][s], held) + Cart[Of[r]][s] <= req[r].seen[s]
  BY DEF Reserve, Checks, KeysTaken, Fits, HeldElsewhere, holds
<1>2. held \in SUBSET Checkouts /\ IsFiniteSet(held)
  <2>1. held \subseteq ActiveHolds
    BY DEF Live, ActiveHolds
  <2> QED
    BY <2>1, FS_Subset DEF SeenInv
<1>3. Sum(UnitsOf(s), held) + Cart[Of[r]][s] <= req[r].seen[s]
  <2>1. MapThenSumSet(LAMBDA c : Cart[c][s], held) = Sum(UnitsOf(s), held)
    <3> HIDE DEF held
    <3> QED
      BY <1>2, CartsAreUnits
  <2> QED
    BY <1>1, <2>1
<1>4. PICK new \in SUBSET Checkouts : new = Beside(r)'
  BY DEF Beside
<1>5. IsFiniteSet(new)
  <2>1. IsFiniteSet(Beside(r)')
    BY BesideFiniteAfter
  <2> QED
    BY <1>4, <2>1
<1>6. req'[r].keys = Lines(Of[r]) /\ req'[r].seen = req[r].seen /\ req[r].late \subseteq lapsed
  BY <1>1 DEF HoldInv, Shaped, RequestShape, SeenInv, Knows
<1>7. ASSUME NEW c \in new \ held PROVE Cart[c][s] = 0
  <2>1. ~(hold'[c] = "ACTIVE" /\ c \notin lapsed')
    BY <1>1, <1>4, <1>6, <1>7 DEF Beside, Live
  <2>2. PICK q \in Requests : Of[q] = c /\ FreshHold(q)'
    BY <1>4, <1>7, <2>1 DEF Beside
  <2>3. Of[q] # Of[r] /\ req'[q].keys = Lines(Of[q])
    BY <1>4, <1>7, <2>2 DEF Beside, LockInv, LocksOf, Lines
  <2>4. req'[q].keys \cap req'[r].keys = {}
    BY <2>3 DEF LockInv, KeysAreExclusive
  <2>5. Of[q] \in Checkouts /\ s \notin Lines(Of[q])
    BY <1>6, <2>3, <2>4, RequestAssumption
  <2> QED
    BY <2>2, <2>5, CartAssumption DEF Lines
<1> HIDE DEF held
<1>8. Sum(UnitsOf(s), new) <= Sum(UnitsOf(s), held)
  BY <1>2, <1>5, <1>7, UnitsCover
<1>9. Sum(UnitsOf(s), new) \in Nat /\ Sum(UnitsOf(s), held) \in Nat
  BY <1>2, <1>5, UnitsAreNat
<1>10. Sum(UnitsOf(s), new) + Cart[Of[r]][s] <= req'[r].seen[s]
  <2>1. Cart[Of[r]][s] \in Nat /\ req[r].seen[s] \in Nat
    BY CartTyped
  <2> QED
    BY <1>3, <1>6, <1>8, <1>9, <2>1
<1> QED
  BY <1>4, <1>10 DEF Fit, UnitsOf

\* A hold becomes active at a review alone, under the locks of its items.
LEMMA OnlyReviewsHold ==
    ASSUME HoldInv, [Next]_vars, NEW c \in Checkouts, hold'[c] = "ACTIVE", hold[c] # "ACTIVE"
    PROVE  \E q \in Requests : Of[q] = c /\ req[q].pc = "keys" /\ req[q].keys = Lines(Of[q])
<1>1. hold = [d \in Checkouts |-> hold[d]]
  BY DEF HoldInv, Shaped
<1>2. PICK q \in Requests : HoldAtReview(q)
  <2>1. ~(UNCHANGED hold)
    OBVIOUS
  <2>2. ~(\E r \in Requests : Supersede(r) \/ RefuseAuthority(r) \/ Sell(r))
    BY <1>1 DEF Supersede, RefuseAuthority, Sell
  <2>3. ~(\E d \in Checkouts : Release(d) \/ Sweep(d))
    BY <1>1 DEF Release, Sweep
  <2>4. ~(\E r \in Requests : Look(r) \/ Refuse(r) \/ Proceed(r) \/ TakeKey(r) \/ NoStock(r)
                                 \/ Reserve(r) \/ TakeRow(r) \/ SoldOut(r) \/ Victim(r))
    BY <2>1 DEF Look, Refuse, Proceed, TakeKey, NoStock, Reserve, TakeRow, SoldOut, Victim, holds
  <2>5. /\ ~ \E d \in Checkouts : Lapse(d)
        /\ ~ \E s \in Sku, n \in Quantities :
               BeginReceipt(s, n) \/ BeginSet(s, n) \/ BeginDecrement(s, n)
        /\ ~(BeginReset \/ EditStep) /\ ~ UNCHANGED vars
    BY <2>1 DEF Lapse, BeginReceipt, BeginSet, BeginDecrement, BeginReset, EditStep,
       ReadForReceipt, EditRow, EditRefused, EditCommit, EditVictim, holds, vars
  <2> QED
    BY <2>2, <2>3, <2>4, <2>5 DEF Next, RequestStep
<1>3. Of[q] = c
  BY <1>1, <1>2 DEF HoldAtReview
<1> QED
  BY <1>2, <1>3 DEF HoldAtReview, Checks, KeysTaken

\* Who has a fresh hold after a step had it before, with what it had read, or
\* has just taken it.
LEMMA FreshOf ==
    ASSUME HoldInv, LockInv, [Next]_vars, NEW r \in Requests, FreshHold(r)'
    PROVE  Reserve(r) \/ (FreshHold(r) /\ req'[r].seen = req[r].seen)
<1>1. /\ \A q \in Requests : RequestShape(req[q]) /\ Of[q] \in Checkouts
      /\ req = [q \in Requests |-> req[q]] /\ hold = [c \in Checkouts |-> hold[c]]
  BY RequestAssumption DEF HoldInv, Shaped
<1>2. req'[r].pc = "rows" /\ hold'[Of[r]] = "NONE"
  BY DEF FreshHold
<1>3. ASSUME UNCHANGED req[r], HoldsStay PROVE FreshHold(r) /\ req'[r].seen = req[r].seen
  BY <1>1, <1>2, <1>3 DEF HoldsStay, FreshHold
<1>4. CASE UNCHANGED req
  <2>1. HoldsStay
    <3>1. CASE \E c \in Checkouts : Release(c) \/ Sweep(c)
      BY <1>1, <3>1 DEF Release, Sweep, HoldsStay
    <3>2. CASE UNCHANGED hold
      BY <3>2 DEF HoldsStay
    <3>3. CASE \E q \in Requests : RequestStep(q)
      BY <3>3, RequestHoldsStay
    <3>4. (\E q \in Requests : Look(q)) => UNCHANGED hold
      BY DEF Look, holds
    <3>5. \/ \E s \in Sku, n \in Quantities :
                BeginReceipt(s, n) \/ BeginSet(s, n) \/ BeginDecrement(s, n)
          \/ BeginReset \/ EditStep \/ (\E c \in Checkouts : Lapse(c)) \/ UNCHANGED vars
          => UNCHANGED hold
      BY DEF BeginReceipt, BeginSet, BeginDecrement, BeginReset, EditStep, ReadForReceipt,
             EditRow, EditRefused, EditCommit, EditVictim, Lapse, holds, vars
    <3> QED
      BY <3>1, <3>2, <3>3, <3>4, <3>5 DEF Next
  <2> QED
    BY <1>3, <1>4, <2>1
<1>5. ASSUME NEW q \in Requests, RequestStep(q) PROVE Reserve(r) \/ (FreshHold(r) /\ req'[r].seen = req[r].seen)
  <2>1. HoldsStay
    BY <1>5, RequestHoldsStay
  <2>2. CASE q # r
    <3>1. UNCHANGED req[r]
      BY <1>1, <1>5, <2>2 DEF RequestStep, Refuse, Supersede, Proceed, TakeKey, NoStock,
         HoldAtReview, Reserve, RefuseAuthority, TakeRow, SoldOut, Sell, Victim, Ended
    <3> QED
      BY <1>3, <2>1, <3>1
  <2>3. CASE q = r
    <3>1. req'[r] # Idle
      BY <1>2 DEF Idle
    <3>2. ~(req' = Ended(r))
      BY <1>1, <3>1 DEF Ended
    <3>3. Proceed(r) \/ TakeKey(r) \/ Reserve(r) \/ TakeRow(r)
      BY <1>5, <2>3, <3>2 DEF RequestStep, Refuse, Supersede, NoStock, HoldAtReview,
         RefuseAuthority, SoldOut, Sell, Victim
    <3>4. ~Proceed(r)
      BY <1>1, <1>2 DEF Proceed, holds, RequestShape
    <3>5. ~TakeKey(r)
      BY <1>1, <1>2 DEF TakeKey, RequestShape
    <3>6. CASE TakeRow(r)
      BY <1>1, <1>2, <3>6 DEF TakeRow, holds, RequestShape, FreshHold
    <3> QED
      BY <3>3, <3>4, <3>5, <3>6
  <2> QED
    BY <2>2, <2>3
<1>6. ASSUME NEW q \in Requests, Look(q) PROVE FreshHold(r) /\ req'[r].seen = req[r].seen
  <2>1. q # r
    BY <1>1, <1>2, <1>6 DEF Look
  <2>2. UNCHANGED req[r] /\ HoldsStay
    BY <1>1, <1>6, <2>1 DEF Look, holds, HoldsStay
  <2> QED
    BY <1>3, <2>2
<1>7. \/ \E c \in Checkouts : Release(c) \/ Lapse(c) \/ Sweep(c)
      \/ \E s \in Sku, n \in Quantities :
            BeginReceipt(s, n) \/ BeginSet(s, n) \/ BeginDecrement(s, n)
      \/ BeginReset \/ EditStep \/ UNCHANGED vars
      => UNCHANGED req
  BY DEF Release, Lapse, Sweep, BeginReceipt, BeginSet, BeginDecrement, BeginReset, EditStep,
         ReadForReceipt, EditRow, EditRefused, EditCommit, EditVictim, vars
<1> QED
  BY <1>4, <1>5, <1>6, <1>7 DEF Next

\* The clock does not run backwards.
LEMMA LapsedGrows == [Next]_vars => lapsed \subseteq lapsed'
BY DEF Next, RequestStep, EditStep, Look, Refuse, Supersede, Proceed, TakeKey, NoStock,
       HoldAtReview, Reserve, RefuseAuthority, TakeRow, SoldOut, Sell, Victim, Release, Lapse,
       Sweep, BeginReceipt, BeginSet, BeginDecrement, BeginReset, ReadForReceipt, EditRow,
       EditRefused, EditCommit, EditVictim, holds, vars

LEMMA HoldsFitAfter ==
    HoldsFit' <=> (\A r \in Requests : FreshHold(r) =>
                     \A s \in Sku : s \in Lines(Of[r]) => Fit(r, s))'
BY HoldsFitIs, PTL

LEMMA FitStep ==
    HoldInv /\ LockInv /\ LockInv' /\ SeenInv /\ SeenInv' /\ HoldsFit /\ [Next]_vars => HoldsFit'
<1> SUFFICES ASSUME HoldInv, LockInv, LockInv', SeenInv, SeenInv', HoldsFit, [Next]_vars,
                    NEW r \in Requests, FreshHold(r)', NEW s \in Sku, s \in Lines(Of[r])
             PROVE  Fit(r, s)'
  BY HoldsFitAfter DEF Lines
<1>1. CASE Reserve(r)
  BY <1>1, BecomesFit
<1>2. CASE FreshHold(r) /\ req'[r].seen = req[r].seen
  <2>1. Fit(r, s)
    BY <1>2, HoldsFitIs
  <2>2. ASSUME NEW c \in Checkouts \ {Of[r]}, hold'[c] = "ACTIVE", hold[c] # "ACTIVE"
        PROVE  Cart[c][s] = 0
    <3>1. PICK q \in Requests : Of[q] = c /\ req[q].keys = Lines(Of[q])
      BY <2>2, OnlyReviewsHold
    <3> QED
      BY <1>2, <2>2, <3>1, FreshApart
  <2> QED
    BY <1>2, <2>1, <2>2, LapsedGrows, StaysFit
<1> QED
  BY <1>1, <1>2, FreshOf

LEMMA FitInit == Init => HoldsFit
<1>1. Init => \A r \in Requests : ~FreshHold(r)
  BY DEF Init, Idle, FreshHold
<1> QED
  BY <1>1, HoldsFitIs

\* Whoever has passed the capacity check and not committed: its units and every
\* other live hold, committed or not, fit in the stock it was shown, for any
\* number of checkouts and requests (reserve counts the holds under the advisory
\* locks of its items and keeps them to the end of the transaction).
THEOREM NothingHeldTwice == Spec => []HoldsFit
BY HoldInvariance, LockInvariance, SeenInvariance, FitInit, FitStep, PTL DEF Spec

-----------------------------------------------------------------------------
\* The types.

EditType ==
    [pc : {"none", "locked", "read"}, kind : Edits \cup {"none"},
     target : [Sku -> Nat], before : [Sku -> Nat], brought : [Sku -> Nat],
     todo : SUBSET Sku, rows : SUBSET Sku]

\* Only a delivery waits between its number and its movements, and no edit asks
\* for stock below zero.
EditInv ==
    /\ edit \in EditType
    /\ edit.pc = "locked" => "STOCK_RECEIPT" \in Edits
    /\ edits \in Nat /\ delivered \in [Sku -> Nat]

LEMMA NoEditType == NoEdit \in EditType /\ NoEdit.pc = "none"
BY DEF NoEdit, EditType

LEMMA ReadShelfTyped ==
    ASSUME ShelfInv, EditInv, NEW kind \in Edits, NEW target \in [Sku -> Nat],
           ReadShelf(kind, target)
    PROVE  edit' \in EditType /\ edit'.pc = "read"
<1> DEFINE todo == {s \in Sku : target[s] # shelf[s]}
<1>1. edit' = [pc |-> "read", kind |-> kind, target |-> target, before |-> shelf,
               brought |-> edit.brought, todo |-> todo, rows |-> {}]
  BY DEF ReadShelf, NoEdit
<1>2. todo \subseteq Sku /\ shelf \in [Sku -> Nat] /\ edit.brought \in [Sku -> Nat]
  BY DEF ShelfInv, LedgerTyped, EditInv, EditType
<1> HIDE DEF todo
<1> QED
  BY <1>1, <1>2 DEF EditType

LEMMA NextMovedIsItem ==
    ASSUME NEW todo \in SUBSET Sku, todo # {}
    PROVE  (CHOOSE s \in todo : \A t \in todo : CatalogueOrder[s] <= CatalogueOrder[t]) \in todo
<1> DEFINE Places == {CatalogueOrder[s] : s \in todo}
           G == {T \in SUBSET todo : IsFiniteSet({CatalogueOrder[s] : s \in T})}
<1>1. IsFiniteSet(todo)
  BY SkuAssumption, FS_Subset
<1>2. IsFiniteSet(Places)
  <2>1. {} \in G
    <3>1. {CatalogueOrder[s] : s \in {}} = {}
      OBVIOUS
    <3> QED
      BY <3>1, FS_EmptySet
  <2>2. ASSUME NEW T \in SUBSET todo, NEW x \in todo \ T, T \in G PROVE T \cup {x} \in G
    <3>1. {CatalogueOrder[s] : s \in T \cup {x}}
            = {CatalogueOrder[s] : s \in T} \cup {CatalogueOrder[x]}
      OBVIOUS
    <3>2. IsFiniteSet({CatalogueOrder[s] : s \in T} \cup {CatalogueOrder[x]})
      BY <2>2, FS_AddElement
    <3> QED
      BY <3>1, <3>2
  <2> HIDE DEF G
  <2>3. todo \in G
    BY <1>1, <2>1, <2>2, FiniteInduction
  <2> QED
    BY <2>3 DEF G
<1>3. Places \subseteq Nat /\ Places # {}
  BY EditAssumption
<1>4. \E m \in Places : \A t \in Places : m <= t
  <2> HIDE DEF Places
  <2> QED
    BY <1>2, <1>3, HasSmallest
<1> QED
  BY <1>4

LEMMA EditKeepsType ==
    ASSUME ShelfInv, EditInv,
           \/ \E s \in Sku, n \in Quantities :
                 BeginReceipt(s, n) \/ BeginSet(s, n) \/ BeginDecrement(s, n)
           \/ BeginReset \/ EditStep
    PROVE  EditInv'
<1>1. /\ shelf \in [Sku -> Nat] /\ edits \in Nat /\ delivered \in [Sku -> Nat]
      /\ edit \in EditType
  BY DEF ShelfInv, LedgerTyped, EditInv
<1>2. ASSUME NEW s \in Sku, NEW n \in Quantities, BeginReceipt(s, n) PROVE EditInv'
  <2>1. n \in Nat
    BY EditAssumption
  <2> DEFINE brought == [NoEdit.brought EXCEPT ![s] = n]
             target == [shelf EXCEPT ![s] = shelf[s] + n]
  <2>2. /\ edit' = [pc |-> "locked", kind |-> "STOCK_RECEIPT", target |-> target,
                    before |-> [t \in Sku |-> 0], brought |-> brought, todo |-> {}, rows |-> {}]
        /\ "STOCK_RECEIPT" \in Edits /\ edits' = edits + 1 /\ delivered' = delivered
    BY <1>2 DEF BeginReceipt, NoEdit, ledger
  <2>3. brought \in [Sku -> Nat] /\ target \in [Sku -> Nat]
    BY <1>1, <2>1 DEF NoEdit
  <2> HIDE DEF brought, target
  <2>4. edit' \in EditType
    BY <2>2, <2>3 DEF EditType
  <2> QED
    BY <1>1, <2>2, <2>4 DEF EditInv
<1>3. ASSUME NEW s \in Sku, NEW n \in Quantities, BeginSet(s, n) PROVE EditInv'
  <2>1. [shelf EXCEPT ![s] = n] \in [Sku -> Nat]
    BY <1>1, EditAssumption
  <2>2. /\ "STOCK_SET" \in Edits /\ ReadShelf("STOCK_SET", [shelf EXCEPT ![s] = n])
        /\ edits' = edits + 1 /\ delivered' = delivered
    BY <1>3 DEF BeginSet, ledger
  <2>3. edit' \in EditType /\ edit'.pc = "read"
    BY <2>1, <2>2, ReadShelfTyped
  <2> QED
    BY <1>1, <2>2, <2>3 DEF EditInv
<1>4. ASSUME NEW s \in Sku, NEW n \in Quantities, BeginDecrement(s, n) PROVE EditInv'
  <2>1. n \in Nat /\ n <= shelf[s]
    BY <1>4, EditAssumption DEF BeginDecrement
  <2>2. shelf[s] - n \in Nat
    BY <1>1, <2>1
  <2> DEFINE target == [shelf EXCEPT ![s] = shelf[s] - n]
  <2>3. target \in [Sku -> Nat]
    BY <1>1, <2>2
  <2>4. /\ "STOCK_DECREMENT" \in Edits /\ ReadShelf("STOCK_DECREMENT", target)
        /\ edits' = edits + 1 /\ delivered' = delivered
    BY <1>4 DEF BeginDecrement, ledger
  <2> HIDE DEF target
  <2>5. edit' \in EditType /\ edit'.pc = "read"
    BY <2>3, <2>4, ReadShelfTyped
  <2> QED
    BY <1>1, <2>4, <2>5 DEF EditInv
<1>5. CASE BeginReset
  <2>1. /\ "CATALOGUE_RESET" \in Edits /\ ReadShelf("CATALOGUE_RESET", Opening)
        /\ edits' = edits + 1 /\ delivered' = delivered
    BY <1>5 DEF BeginReset, ledger
  <2>2. edit' \in EditType /\ edit'.pc = "read"
    BY <2>1, OpeningAssumption, ReadShelfTyped
  <2> QED
    BY <1>1, <2>1, <2>2 DEF EditInv
<1>6. CASE ReadForReceipt
  <2> DEFINE target == [s \in Sku |-> IF edit.brought[s] > 0 THEN edit.target[s] ELSE shelf[s]]
  <2>1. target \in [Sku -> Nat]
    BY <1>1 DEF EditType
  <2>2. /\ ReadShelf("STOCK_RECEIPT", target) /\ "STOCK_RECEIPT" \in Edits
        /\ edits' = edits /\ delivered' = delivered
    BY <1>6 DEF ReadForReceipt, ledger, EditInv
  <2> HIDE DEF target
  <2>3. edit' \in EditType /\ edit'.pc = "read"
    BY <2>1, <2>2, ReadShelfTyped
  <2> QED
    BY <1>1, <2>2, <2>3 DEF EditInv
<1>7. CASE EditRow
  <2> DEFINE n == NextMoved
  <2>1. n \in Sku
    BY <1>1, <1>7, NextMovedIsItem DEF EditRow, NextMoved, EditType
  <2>2. /\ edit' = [edit EXCEPT !.rows = edit.rows \cup {n}, !.todo = edit.todo \ {n}]
        /\ edit.pc = "read" /\ edits' = edits /\ delivered' = delivered
    BY <1>7 DEF EditRow, ledger
  <2> HIDE DEF n
  <2>3. edit' \in EditType /\ edit'.pc = "read"
    BY <1>1, <2>1, <2>2 DEF EditType
  <2> QED
    BY <1>1, <2>2, <2>3 DEF EditInv
<1>8. CASE EditRefused \/ EditVictim
  BY <1>1, <1>8, NoEditType DEF EditRefused, EditVictim, ledger, EditInv
<1>9. CASE EditCommit
  <2>1. /\ edit' = NoEdit /\ edits' = edits
        /\ delivered' = [s \in Sku |-> delivered[s] + edit.brought[s]]
    BY <1>9 DEF EditCommit
  <2>2. delivered' \in [Sku -> Nat]
    BY <1>1, <2>1 DEF EditType
  <2> QED
    BY <1>1, <2>1, <2>2, NoEditType DEF EditInv
<1> QED
  BY <1>2, <1>3, <1>4, <1>5, <1>6, <1>7, <1>8, <1>9 DEF EditStep

LEMMA EditTypeInit == Init => EditInv
BY NoEditType DEF Init, EditInv

LEMMA EditTypeStep == ShelfInv /\ EditInv /\ [Next]_vars => EditInv'
<1> SUFFICES ASSUME ShelfInv, EditInv, [Next]_vars PROVE EditInv'
  OBVIOUS
<1>1. CASE UNCHANGED <<edit, edits, delivered>>
  BY <1>1 DEF EditInv
<1>2. CASE \E r \in Requests : Look(r) \/ RequestStep(r)
  <2>1. UNCHANGED <<edit, edits, delivered>>
    BY <1>2 DEF RequestStep, Look, Refuse, Supersede, Proceed, TakeKey, NoStock, HoldAtReview,
       Reserve, RefuseAuthority, TakeRow, SoldOut, Sell, Victim, merchant, ledger
  <2> QED
    BY <1>1, <2>1
<1>3. CASE \E c \in Checkouts : Release(c) \/ Lapse(c) \/ Sweep(c)
  <2>1. UNCHANGED <<edit, edits, delivered>>
    BY <1>3 DEF Release, Lapse, Sweep, merchant, ledger
  <2> QED
    BY <1>1, <2>1
<1> QED
  BY <1>1, <1>2, <1>3, EditKeepsType DEF Next, vars

LEMMA EditInvariance == Spec => []EditInv
BY ShelfInvariance, EditTypeInit, EditTypeStep, PTL DEF Spec

RequestType ==
    [pc : {"idle", "looked", "keys", "rows"}, act : {"none", "review", "admit"},
     seen : [Sku -> Nat], late : SUBSET Checkouts, keys : SUBSET Sku, rows : SUBSET Sku]

LEMMA RequestTyped ==
    ASSUME NEW x, RequestShape(x), x.pc \in {"idle", "looked", "keys", "rows"},
           x.act \in {"none", "review", "admit"}, x.seen \in [Sku -> Nat],
           x.late \in SUBSET Checkouts, x.keys \in SUBSET Sku, x.rows \in SUBSET Sku
    PROVE  x \in RequestType
<1>1. [pc |-> x.pc, act |-> x.act, seen |-> x.seen, late |-> x.late,
       keys |-> x.keys, rows |-> x.rows] \in RequestType
  BY DEF RequestType
<1> QED
  BY <1>1 DEF RequestShape

\* The types: the shelf is never below zero, for any carts, requests and edits.
\* No sale and no edit takes a unit that is not there, whatever it read before
\* it had the row (record reads the balance under its lock).
THEOREM Typed == Spec => []TypeOK
<1>1. HoldInv /\ ShelfInv /\ LockInv /\ SeenInv /\ EditInv => TypeOK
  <2> SUFFICES ASSUME HoldInv, ShelfInv, LockInv, SeenInv, EditInv PROVE TypeOK
    OBVIOUS
  <2>1. \A r \in Requests :
          req[r] \in [pc : {"idle", "looked", "keys", "rows"},
                      act : {"none", "review", "admit"}, seen : [Sku -> Nat],
                      late : SUBSET Checkouts, keys : SUBSET Sku, rows : SUBSET Sku]
    <3> SUFFICES ASSUME NEW r \in Requests PROVE req[r] \in RequestType
      BY DEF RequestType
    <3>1. RequestShape(req[r]) /\ Knows(r) /\ LocksOf(r) /\ lapsed \subseteq Checkouts
      BY DEF HoldInv, Shaped, SeenInv, RowsTyped, LockInv
    <3>2. /\ req[r].pc \in {"idle", "looked", "keys", "rows"}
          /\ req[r].act \in {"none", "review", "admit"}
          /\ req[r].seen \in [Sku -> Nat] /\ req[r].late \in SUBSET Checkouts
          /\ req[r].keys \in SUBSET Sku /\ req[r].rows \in SUBSET Sku
      BY <3>1 DEF Knows, LocksOf, Ordered, Lines
    <3> QED
      BY <3>1, <3>2, RequestTyped
  <2>2. req \in [Requests -> [pc : {"idle", "looked", "keys", "rows"},
                      act : {"none", "review", "admit"}, seen : [Sku -> Nat],
                      late : SUBSET Checkouts, keys : SUBSET Sku, rows : SUBSET Sku]]
    BY <2>1 DEF HoldInv, Shaped
  <2>3. /\ shelf \in [Sku -> Nat] /\ moved \in [Sku -> [MovementKind -> Int]]
        /\ RowsTyped /\ edit \in EditType /\ edits \in Nat /\ delivered \in [Sku -> Nat]
    BY DEF ShelfInv, LedgerTyped, SeenInv, EditInv
  <2> QED
    BY <2>2, <2>3 DEF TypeOK, RowsTyped, EditType
<1> QED
  BY <1>1, HoldInvariance, ShelfInvariance, LockInvariance, SeenInvariance, EditInvariance, PTL

-----------------------------------------------------------------------------
\* The stock is a shop.

\* What an edit that only brings has locked, it brings units to.
RowsBring ==
    MovementOf(edit.kind) = "RECEIVED" => \A s \in edit.rows \cap Sku : Delta(s) > 0

LEMMA BringInit == Init => RowsBring
BY DEF Init, NoEdit, RowsBring

LEMMA ReadShelfBrings ==
    ASSUME NEW kind, NEW target, ReadShelf(kind, target) PROVE edit'.rows = {}
BY DEF ReadShelf, NoEdit

LEMMA EditRowBrings == ASSUME ShelfInv, RowsBring, EditRow PROVE RowsBring'
<1> DEFINE n == NextMoved
<1>1. /\ edit' = [edit EXCEPT !.rows = edit.rows \cup {n}, !.todo = edit.todo \ {n}]
      /\ EditAllowed(n)
  BY DEF EditRow
<1>2. EditShape(edit)
  BY DEF ShelfInv, EditTyped
<1>3. /\ edit'.kind = edit.kind /\ edit'.target = edit.target /\ edit'.before = edit.before
      /\ edit'.rows = edit.rows \cup {n}
  BY <1>1, <1>2 DEF EditShape
<1>4. MovementOf(edit.kind) = "RECEIVED" => Delta(n) > 0
  BY <1>1 DEF EditAllowed
<1> HIDE DEF n
<1> QED
  BY <1>3, <1>4 DEF RowsBring, Delta, MovementOf

LEMMA BringStep == ShelfInv /\ RowsBring /\ [Next]_vars => RowsBring'
<1> SUFFICES ASSUME ShelfInv, RowsBring, [Next]_vars PROVE RowsBring'
  OBVIOUS
<1>1. CASE UNCHANGED edit
  BY <1>1 DEF RowsBring, Delta
<1>2. CASE edit'.rows = {}
  BY <1>2 DEF RowsBring
<1>3. (\E r \in Requests : Look(r) \/ RequestStep(r)) => UNCHANGED edit
  BY DEF RequestStep, Look, Refuse, Supersede, Proceed, TakeKey, NoStock, HoldAtReview,
     Reserve, RefuseAuthority, TakeRow, SoldOut, Sell, Victim, merchant
<1>4. (\E c \in Checkouts : Release(c) \/ Lapse(c) \/ Sweep(c)) \/ UNCHANGED vars => UNCHANGED edit
  BY DEF Release, Lapse, Sweep, merchant, vars
<1>5. /\ \A s \in Sku, n \in Quantities : BeginReceipt(s, n) => edit'.rows = {}
      /\ EditRefused \/ EditCommit \/ EditVictim => edit'.rows = {}
  <2>1. ASSUME NEW s \in Sku, NEW n \in Quantities, BeginReceipt(s, n) PROVE edit'.rows = {}
    <3>1. edit' = [NoEdit EXCEPT !.pc = "locked", !.kind = "STOCK_RECEIPT",
                                 !.target = [shelf EXCEPT ![s] = shelf[s] + n],
                                 !.brought = [NoEdit.brought EXCEPT ![s] = n]]
      BY <2>1 DEF BeginReceipt, NoEdit
    <3> QED
      BY <3>1 DEF NoEdit
  <2>2. EditRefused \/ EditCommit \/ EditVictim => edit'.rows = {}
    BY DEF EditRefused, EditCommit, EditVictim, NoEdit
  <2> QED
    BY <2>1, <2>2
<1>6. /\ \A s \in Sku, n \in Quantities : BeginSet(s, n) \/ BeginDecrement(s, n) => edit'.rows = {}
      /\ BeginReset \/ ReadForReceipt => edit'.rows = {}
  BY ReadShelfBrings DEF BeginSet, BeginDecrement, BeginReset, ReadForReceipt
<1> QED
  BY <1>1, <1>2, <1>3, <1>4, <1>5, <1>6, EditRowBrings DEF Next, EditStep

LEMMA BringInvariance == Spec => []RowsBring
BY ShelfInvariance, BringInit, BringStep, PTL DEF Spec

Promised == [c \in Checkouts |-> Promise(c)]

Owed(v, h) ==
    IF v = "ended" \/ h \in {"RELEASED", "EXPIRED"} THEN "over"
    ELSE CASE h = "NONE" -> "open" [] h = "ACTIVE" -> "held" [] h = "CONSUMED" -> "sold"

LEMMA PromiseIsOwed == \A c \in Checkouts : Promise(c) = Owed(version[c], hold[c])
BY DEF Promise, Owed

LEMMA PromiseWillBeOwed == (\A c \in Checkouts : Promise(c) = Owed(version[c], hold[c]))'
BY PromiseIsOwed, PTL

\* What is owed to one version depends on its own two rows.
LEMMA OnePromise ==
    ASSUME HoldInv, NEW c \in Checkouts, NEW h, hold' = [hold EXCEPT ![c] = h],
           NEW v, version' = [version EXCEPT ![c] = v]
    PROVE  /\ Promised' = [Promised EXCEPT ![c] = Promise(c)']
           /\ hold'[c] = h /\ version'[c] = v
<1>1. \A d \in Checkouts : d # c => hold'[d] = hold[d] /\ version'[d] = version[d]
  BY DEF HoldInv, Shaped
<1>2. \A d \in Checkouts : d # c => Promise(d)' = Promise(d)
  BY <1>1, PromiseIsOwed, PromiseWillBeOwed
<1>3. hold'[c] = h /\ version'[c] = v
  BY DEF HoldInv, Shaped
<1> QED
  BY <1>2, <1>3 DEF Promised

LEMMA PromiseIs ==
    ASSUME NEW c \in Checkouts
    PROVE  /\ version[c] = "ended" \/ hold[c] \in {"RELEASED", "EXPIRED"} => Promise(c) = "over"
           /\ version[c] # "ended" /\ hold[c] = "NONE" => Promise(c) = "open"
           /\ version[c] # "ended" /\ hold[c] = "ACTIVE" => Promise(c) = "held"
           /\ version[c] # "ended" /\ hold[c] = "CONSUMED" => Promise(c) = "sold"
BY DEF Promise

LEMMA PromiseWillBe ==
    ASSUME NEW c \in Checkouts
    PROVE  /\ version'[c] = "ended" \/ hold'[c] \in {"RELEASED", "EXPIRED"} => Promise(c)' = "over"
           /\ version'[c] # "ended" /\ hold'[c] = "ACTIVE" => Promise(c)' = "held"
           /\ version'[c] # "ended" /\ hold'[c] = "CONSUMED" => Promise(c)' = "sold"
BY DEF Promise

ShopStep == TheShop!Next \/ UNCHANGED TheShop!vars

LEMMA SameShop == ASSUME UNCHANGED <<moved, sales, hold, version>> PROVE ShopStep
BY DEF ShopStep, TheShop!vars, Promise

\* A purchase that comes to nothing.
LEMMA OverOrAsBefore ==
    ASSUME HoldInv, NEW c \in Checkouts, NEW h, hold' = [hold EXCEPT ![c] = h],
           NEW v, version' = [version EXCEPT ![c] = v], UNCHANGED <<moved, sales>>,
           v = "ended" \/ h \in {"RELEASED", "EXPIRED"}
    PROVE  ShopStep
<1>1. /\ Promised' = [Promised EXCEPT ![c] = "over"]
      /\ Promised[c] = Promise(c)
  BY OnePromise, PromiseWillBe DEF Promised
<1>2. CASE Promise(c) = "over"
  <2>1. Promised' = Promised
    BY <1>1, <1>2 DEF Promised
  <2> QED
    BY <2>1 DEF ShopStep, TheShop!vars, Promised
<1>3. CASE Promise(c) # "over"
  <2>1. TheShop!End(c)
    BY <1>1, <1>3 DEF TheShop!End, Promised
  <2> QED
    BY <2>1 DEF ShopStep, TheShop!Next
<1> QED
  BY <1>2, <1>3

LEMMA SupersedeIsEnd ==
    ASSUME HoldInv, NEW r \in Requests, Supersede(r) PROVE ShopStep
<1> DEFINE h == IF hold[Of[r]] = "ACTIVE" THEN "RELEASED" ELSE hold[Of[r]]
<1>1. /\ UNCHANGED <<moved, sales>> /\ hold' = [hold EXCEPT ![Of[r]] = h]
      /\ version' = [version EXCEPT ![Of[r]] = "ended"]
  BY DEF Supersede, ledger, HoldInv, Shaped
<1> HIDE DEF h
<1> QED
  BY <1>1, RequestAssumption, OverOrAsBefore

LEMMA RefuseAuthorityIsEnd ==
    ASSUME HoldInv, NEW r \in Requests, RefuseAuthority(r) PROVE ShopStep
<1>1. UNCHANGED <<moved, sales, version>> /\ Of[r] \in Checkouts
  BY RequestAssumption DEF RefuseAuthority, ledger
<1>2. CASE hold[Of[r]] = "NONE"
  <2>1. /\ hold' = [hold EXCEPT ![Of[r]] = "RELEASED"]
        /\ version' = [version EXCEPT ![Of[r]] = version[Of[r]]]
    BY <1>1, <1>2 DEF RefuseAuthority, HoldInv, Shaped
  <2> QED
    BY <1>1, <2>1, OverOrAsBefore
<1>3. CASE hold[Of[r]] # "NONE"
  BY <1>1, <1>3, SameShop DEF RefuseAuthority
<1> QED
  BY <1>2, <1>3

LEMMA ReleaseIsEnd ==
    ASSUME HoldInv, NEW c \in Checkouts, Release(c) PROVE ShopStep
<1> DEFINE h == IF hold[c] \in {"ACTIVE", "CONSUMED"} THEN "RELEASED" ELSE hold[c]
<1>1. /\ UNCHANGED <<moved, sales>> /\ hold' = [hold EXCEPT ![c] = h]
      /\ version' = [version EXCEPT ![c] = "ended"]
  BY DEF Release, ledger, HoldInv, Shaped
<1> HIDE DEF h
<1> QED
  BY <1>1, OverOrAsBefore

LEMMA SweepIsEnd ==
    ASSUME HoldInv, NEW c \in Checkouts, Sweep(c) PROVE ShopStep
<1>1. /\ UNCHANGED <<moved, sales>> /\ hold' = [hold EXCEPT ![c] = "EXPIRED"]
      /\ version' = [version EXCEPT ![c] = version[c]]
  BY DEF Sweep, ledger, HoldInv, Shaped
<1> QED
  BY <1>1, OverOrAsBefore

LEMMA HoldAtReviewIsHold ==
    ASSUME HoldInv, NEW r \in Requests, HoldAtReview(r) PROVE ShopStep
<1>1. /\ UNCHANGED <<moved, sales>> /\ Of[r] \in Checkouts
      /\ hold' = [hold EXCEPT ![Of[r]] = "ACTIVE"]
      /\ version' = [version EXCEPT ![Of[r]] = "approved"]
  BY RequestAssumption DEF HoldAtReview, ledger
<1>2. hold[Of[r]] = "NONE" /\ version[Of[r]] # "ended"
  <2>1. req[r].pc = "keys" /\ InTransaction(r) /\ req[r].act # "admit"
    BY DEF HoldAtReview, Checks, InTransaction
  <2> QED
    BY <2>1 DEF HoldInv, Established
<1>3. Promised[Of[r]] = "open"
  BY <1>1, <1>2, PromiseIs DEF Promised
<1>4. Promised' = [Promised EXCEPT ![Of[r]] = "held"]
  <2>1. hold'[Of[r]] = "ACTIVE" /\ version'[Of[r]] = "approved"
    BY <1>1, OnePromise
  <2> QED
    BY <1>1, <2>1, OnePromise, PromiseWillBe, ZenonT(30)
<1>5. TheShop!Hold(Of[r])
  BY <1>1, <1>3, <1>4 DEF TheShop!Hold, Promised
<1> QED
  BY <1>1, <1>5 DEF ShopStep, TheShop!Next

LEMMA SellIsSell ==
    ASSUME HoldInv, ShelfInv, NEW r \in Requests, Sell(r) PROVE ShopStep
<1> DEFINE c == Of[r]
<1>1. /\ c \in Checkouts /\ sales' = sales \cup {c}
      /\ moved' = [s \in Sku |-> [moved[s] EXCEPT !["SOLD"] = moved[s]["SOLD"] - Cart[c][s]]]
      /\ hold' = [hold EXCEPT ![c] = "CONSUMED"]
      /\ version' = [version EXCEPT ![c] = "admitted"]
      /\ req[r].rows = {s \in Sku : Cart[c][s] > 0}
  BY RequestAssumption DEF Sell, Lines
<1>2. hold[c] \in {"NONE", "ACTIVE"} /\ version[c] = "approved"
  <2>1. req[r].pc = "rows" /\ InTransaction(r)
    BY DEF Sell, InTransaction
  <2> QED
    BY <2>1 DEF HoldInv, Established
<1>3. c \notin sales
  BY <1>1, <1>2 DEF HoldInv, Defended
<1>4. Promised[c] \in {"open", "held"}
  BY <1>1, <1>2, PromiseIs DEF Promised
<1>5. Promised' = [Promised EXCEPT ![c] = "sold"]
  <2>1. hold'[c] = "CONSUMED" /\ version'[c] = "admitted"
    BY <1>1, OnePromise
  <2> QED
    BY <1>1, <2>1, OnePromise, PromiseWillBe, ZenonT(30)
<1>6. \A s \in Sku : Cart[c][s] <= TheShop!OnHand(s)
  <2> SUFFICES ASSUME NEW s \in Sku PROVE Cart[c][s] <= TheShop!OnHand(s)
    OBVIOUS
  <2>1. TheShop!OnHand(s) = shelf[s] /\ shelf[s] \in Nat
    BY DEF TheShop!OnHand, ShelfInv, BalanceIsLedger, LedgerTyped
  <2>2. Cart[c][s] \in Nat
    BY <1>1, CartAssumption
  <2>3. s \in req[r].rows => shelf[s] >= Cart[c][s]
    BY DEF ShelfInv, RowsSuffice
  <2>4. s \notin req[r].rows => Cart[c][s] = 0
    BY <1>1, <2>2
  <2> QED
    BY <2>1, <2>2, <2>3, <2>4
<1> HIDE DEF c
<1>7. TheShop!Sell(c)
  BY <1>1, <1>3, <1>4, <1>5, <1>6 DEF TheShop!Sell, Promised
<1> QED
  BY <1>1, <1>7 DEF ShopStep, TheShop!Next

LEMMA EditCommitIsPost ==
    ASSUME ShelfInv, ShelfInv', RowsBring, EditCommit PROVE ShopStep
<1> DEFINE k == MovementOf(edit.kind)
<1>1. k \in {"RECEIVED", "ADJUSTED"}
  BY DEF MovementOf
<1>2. /\ UNCHANGED <<sales, hold, version>> /\ DOMAIN moved' = Sku
      /\ \A s \in Sku : moved'[s] = IF s \in edit.rows
                                    THEN [moved[s] EXCEPT ![k] = moved[s][k] + Delta(s)]
                                    ELSE moved[s]
  BY DEF EditCommit, holds
<1>3. k = "RECEIVED" => \A s \in edit.rows \cap Sku : Delta(s) > 0
  BY DEF RowsBring
<1> HIDE DEF k
<1>4. ASSUME NEW s \in Sku
      PROVE  /\ moved'[s] = [moved[s] EXCEPT ![k] = moved'[s][k]]
             /\ TheShop!OnHand(s)' >= 0
             /\ k = "RECEIVED" => moved'[s][k] >= moved[s][k]
  <2>1. /\ moved[s] \in [MovementKind -> Int] /\ k \in MovementKind /\ moved[s][k] \in Int
        /\ Delta(s) \in Int
    BY <1>1 DEF ShelfInv, LedgerTyped, MovementKind, EditTyped, Delta
  <2>2. moved'[s] = [moved[s] EXCEPT ![k] = moved'[s][k]]
    BY <1>2, <2>1
  <2>3. TheShop!OnHand(s)' = shelf'[s] /\ shelf'[s] \in Nat
    BY DEF TheShop!OnHand, ShelfInv, BalanceIsLedger, LedgerTyped
  <2>4. k = "RECEIVED" => moved'[s][k] >= moved[s][k]
    <3>1. CASE s \in edit.rows
      <4>1. moved'[s][k] = moved[s][k] + Delta(s)
        BY <1>2, <2>1, <3>1
      <4> QED
        BY <1>3, <2>1, <3>1, <4>1
    <3>2. CASE s \notin edit.rows
      BY <1>2, <2>1, <3>2
    <3> QED
      BY <3>1, <3>2
  <2> QED
    BY <2>2, <2>3, <2>4
<1>5. UNCHANGED Promised
  BY <1>2 DEF Promised, Promise
<1>6. TheShop!Post(k)
  BY <1>2, <1>4, <1>5 DEF TheShop!Post, Promised
<1> QED
  BY <1>1, <1>6 DEF ShopStep, TheShop!Next

LEMMA ShopInit == Init => TheShop!Init
<1> SUFFICES ASSUME Init PROVE TheShop!Init
  OBVIOUS
<1>1. [c \in Checkouts |-> Promise(c)] = [c \in Checkouts |-> "open"]
  BY PromiseIs DEF Init
<1> QED
  BY <1>1 DEF Init, TheShop!Init, TheShop!Kinds, MovementKind

LEMMA EveryStepIsTheShops ==
    HoldInv /\ ShelfInv /\ ShelfInv' /\ RowsBring /\ [Next]_vars => ShopStep
<1> SUFFICES ASSUME HoldInv, ShelfInv, ShelfInv', RowsBring, [Next]_vars PROVE ShopStep
  OBVIOUS
<1>1. ASSUME NEW r \in Requests, Look(r) \/ RequestStep(r) PROVE ShopStep
  <2>1. CASE Look(r) \/ Refuse(r) \/ Proceed(r) \/ TakeKey(r) \/ NoStock(r) \/ Reserve(r)
             \/ TakeRow(r) \/ SoldOut(r) \/ Victim(r)
    BY <2>1, SameShop DEF Look, Refuse, Proceed, TakeKey, NoStock, Reserve, TakeRow, SoldOut,
       Victim, ledger, holds
  <2> QED
    BY <1>1, <2>1, SupersedeIsEnd, RefuseAuthorityIsEnd, HoldAtReviewIsHold, SellIsSell
       DEF RequestStep
<1>2. ASSUME NEW c \in Checkouts, Release(c) \/ Lapse(c) \/ Sweep(c) PROVE ShopStep
  <2>1. CASE Lapse(c)
    BY <2>1, SameShop DEF Lapse, ledger
  <2> QED
    BY <1>2, <2>1, ReleaseIsEnd, SweepIsEnd
<1>3. CASE \/ \E s \in Sku, n \in Quantities :
                 BeginReceipt(s, n) \/ BeginSet(s, n) \/ BeginDecrement(s, n)
           \/ BeginReset \/ ReadForReceipt \/ EditRow \/ EditRefused \/ EditVictim
  BY <1>3, SameShop DEF BeginReceipt, BeginSet, BeginDecrement, BeginReset, ReadForReceipt,
     EditRow, EditRefused, EditVictim, ledger, holds
<1>4. CASE UNCHANGED vars
  BY <1>4, SameShop DEF vars
<1> QED
  BY <1>1, <1>2, <1>3, <1>4, EditCommitIsPost DEF Next, EditStep

\* The stock implements the shop seen from outside: a version is sold whole and
\* once, from what the movements say is on hand, never after its units were given
\* back or the version retired; and deliveries only bring (submit, record_sale,
\* release, mutating).
THEOREM ImplementsShop == Spec => ShopSpec
<1>1. HoldInv /\ ShelfInv /\ ShelfInv' /\ RowsBring /\ [Next]_vars => [TheShop!Next]_TheShop!vars
  BY EveryStepIsTheShops DEF ShopStep
<1> QED
  BY <1>1, ShopInit, HoldInvariance, ShelfInvariance, BringInvariance, PTL
     DEF Spec, ShopSpec, TheShop!Spec
=============================================================================
