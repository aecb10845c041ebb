----------------------- MODULE ReserveAuthorityProofs -----------------------
(* Theorems about ReserveAuthority, for any number of authorities, purchases *)
(* and workers, any ceiling, limits and prices, and any bounds.              *)
EXTENDS ReserveAuthority, SumTheorems

-----------------------------------------------------------------------------
\* The inductive invariant.

AttemptShape(r) ==
    r = [status |-> r.status, of |-> r.of, epoch |-> r.epoch, alloc |-> r.alloc,
         outcome |-> r.outcome, grant |-> r.grant, closed |-> r.closed]
AuthorityShape(r) ==
    r = [status |-> r.status, epoch |-> r.epoch, consumed |-> r.consumed, expired |-> r.expired]

Shaped ==
    /\ authority = [a \in Authorities |-> authority[a]]
    /\ \A a \in Authorities : AuthorityShape(authority[a])
    /\ attempt = [p \in Purchases |-> attempt[p]]
    /\ version = [p \in Purchases |-> version[p]]
    /\ paying = [p \in Purchases |-> paying[p]]

\* What holds of one attempt and its allocation.
Sound(r) ==
    /\ AttemptShape(r)
    /\ r.alloc = "SPENT" <=> r.status \in {"CAPTURED", "STALE_CAPTURE"}
    /\ r.alloc = "RELEASED" => r.status \in {"FAILED", "EXPIRED"}
    /\ r.alloc = "RELEASED" /\ r.grant = "CONSUMED" => r.outcome = "failed" /\ r.status = "FAILED"
    /\ r.status = "UNKNOWN" => r.alloc = "HELD" /\ r.grant = "CONSUMED"
    /\ r.status = "CREATED" => r.alloc = "HELD" /\ r.grant # "CONSUMED"
    /\ r.status = "NONE" => r.alloc = "NONE" /\ r.grant # "CONSUMED"

\* A version with an attempt is past its review, and no pay request is on it.
Reviewed(p) ==
    attempt[p].status # "NONE" => version[p] # "APPROVAL_REQUIRED" /\ paying[p] = NotPaying
\* While the grant of an unsent debit is live its version waits for it.
Sendable(p) ==
    attempt[p].status = "CREATED" /\ attempt[p].grant = "ISSUED"
        => version[p] = "EXECUTION_PENDING" /\ attempt[p].closed = FALSE

PurchaseInv(p) == Sound(attempt[p]) /\ Reviewed(p) /\ Sendable(p)
IInv == Shaped /\ (\A p \in Purchases : PurchaseInv(p)) /\ OneLivePermission

-----------------------------------------------------------------------------
\* One purchase's transaction.

LEMMA StatusChanged ==
    ASSUME NEW r, AttemptShape(r), NEW s
    PROVE  [r EXCEPT !.status = s] =
             [status |-> s, of |-> r.of, epoch |-> r.epoch, alloc |-> r.alloc,
              outcome |-> r.outcome, grant |-> r.grant, closed |-> r.closed]
BY DEF AttemptShape

LEMMA StatusKeepsGrant ==
    ASSUME NEW r, AttemptShape(r), NEW s
    PROVE  AttemptShape([r EXCEPT !.status = s]) /\ [r EXCEPT !.status = s].grant = r.grant
<1> DEFINE new == [status |-> s, of |-> r.of, epoch |-> r.epoch, alloc |-> r.alloc,
                   outcome |-> r.outcome, grant |-> r.grant, closed |-> r.closed]
<1>1. AttemptShape(new) /\ new.grant = r.grant
  BY DEF AttemptShape
<1>2. [r EXCEPT !.status = s] = new
  BY StatusChanged
<1> QED
  BY <1>1, <1>2

LEMMA GrantChanged ==
    ASSUME NEW r, AttemptShape(r), NEW g
    PROVE  [r EXCEPT !.grant = g] =
             [status |-> r.status, of |-> r.of, epoch |-> r.epoch, alloc |-> r.alloc,
              outcome |-> r.outcome, grant |-> g, closed |-> r.closed]
BY DEF AttemptShape

LEMMA OutcomeChanged ==
    ASSUME NEW r, AttemptShape(r), NEW o
    PROVE  [r EXCEPT !.outcome = o] =
             [status |-> r.status, of |-> r.of, epoch |-> r.epoch, alloc |-> r.alloc,
              outcome |-> o, grant |-> r.grant, closed |-> r.closed]
BY DEF AttemptShape

LEMMA AllocationChanged ==
    ASSUME NEW r, AttemptShape(r), NEW x
    PROVE  [r EXCEPT !.alloc = x] =
             [status |-> r.status, of |-> r.of, epoch |-> r.epoch, alloc |-> x,
              outcome |-> r.outcome, grant |-> r.grant, closed |-> r.closed]
BY DEF AttemptShape

LEMMA ClosedChanged ==
    ASSUME NEW r, AttemptShape(r)
    PROVE  [r EXCEPT !.closed = TRUE] =
             [status |-> r.status, of |-> r.of, epoch |-> r.epoch, alloc |-> r.alloc,
              outcome |-> r.outcome, grant |-> r.grant, closed |-> TRUE]
<1>1. \A b : [r EXCEPT !.closed = b] =
             [status |-> r.status, of |-> r.of, epoch |-> r.epoch, alloc |-> r.alloc,
              outcome |-> r.outcome, grant |-> r.grant, closed |-> b]
  BY DEF AttemptShape
<1> QED
  BY <1>1

LEMMA AuthorityLapsed ==
    ASSUME NEW r, AuthorityShape(r), NEW b
    PROVE  [r EXCEPT !.expired = b] =
             [status |-> r.status, epoch |-> r.epoch, consumed |-> r.consumed, expired |-> b]
BY DEF AuthorityShape

\* A return of capacity neither revives nor kills an authority.
LEMMA RestoredKeepsLife ==
    ASSUME NEW r, AuthorityShape(r), NEW n
    PROVE  /\ AuthorityShape(Restored(r, n))
           /\ Restored(r, n).status \in {"ACTIVE", "EXHAUSTED"} => r.status \in {"ACTIVE", "EXHAUSTED"}
<1> DEFINE s == IF r.status = "EXHAUSTED" THEN "ACTIVE" ELSE r.status
           back == [status |-> s, epoch |-> r.epoch, consumed |-> r.consumed - n,
                    expired |-> r.expired]
           less == [status |-> r.status, epoch |-> r.epoch, consumed |-> r.consumed - n,
                    expired |-> r.expired]
<1>1. Restored(r, n) = back
  <2>1. [r EXCEPT !.consumed = r.consumed - n] = less
    BY DEF AuthorityShape
  <2>2. [less EXCEPT !.status = s] = back /\ less.status = r.status
    OBVIOUS
  <2> HIDE DEF less, back, s
  <2>3. Restored(r, n) = [[r EXCEPT !.consumed = r.consumed - n] EXCEPT !.status = s]
    BY DEF Restored, s
  <2> QED
    BY <2>1, <2>2, <2>3
<1>2. AuthorityShape(back) /\ back.status = s
  BY DEF AuthorityShape
<1> QED
  BY <1>1, <1>2

LEMMA MovedIfLegalStays ==
    ASSUME NEW s, NEW t PROVE MovedIfLegal(s, t) \in {s, t}
BY DEF MovedIfLegal

\* settle_allocation leaves a sound attempt behind.
LEMMA WritesKeep ==
    ASSUME IInv, NEW p, NEW r, NEW c, Writes(p, r, c), UNCHANGED paying,
           p \in Purchases =>
             /\ AttemptShape(r) /\ r.alloc = "HELD"
             /\ attempt[p].status # "NONE"
             /\ r.status \in {"UNKNOWN", "CAPTURED", "STALE_CAPTURE", "FAILED"}
             /\ r.status = "FAILED" /\ r.grant = "CONSUMED" => r.outcome = "failed"
             /\ r.status = "UNKNOWN" => r.grant = "CONSUMED"
             /\ c # "APPROVAL_REQUIRED"
    PROVE  IInv'
<1> DEFINE r2 == [r EXCEPT !.alloc = SettledAs(r.alloc, r.status)]
<1>1. p \in Purchases => Sound(r2) /\ r2.status = r.status
  BY DEF Sound, AttemptShape, SettledAs
<1>2. attempt' = [attempt EXCEPT ![p] = r2] /\ version' = [version EXCEPT ![p] = c]
  BY DEF Writes
<1>3. \A q \in Purchases : /\ attempt'[q] = IF q = p THEN r2 ELSE attempt[q]
                           /\ version'[q] = IF q = p THEN c ELSE version[q]
                           /\ paying'[q] = paying[q]
  BY <1>2 DEF IInv, Shaped
<1>4. \A a \in Authorities : authority'[a] \in {authority[a], Restored(authority[a], Price[p])}
  BY DEF Writes, IInv, Shaped
<1>5. Shaped'
  <2>1. \A a \in Authorities : AuthorityShape(authority'[a])
    BY <1>4, RestoredKeepsLife DEF IInv, Shaped
  <2>2. authority' = [a \in Authorities |-> authority'[a]]
    BY DEF Writes, IInv, Shaped
  <2>3. attempt' = [q \in Purchases |-> attempt'[q]] /\ version' = [q \in Purchases |-> version'[q]]
    BY <1>2 DEF IInv, Shaped
  <2> QED
    BY <2>1, <2>2, <2>3 DEF IInv, Shaped
<1>6. OneLivePermission'
  BY <1>4, RestoredKeepsLife DEF OneLivePermission, Live, IInv, Shaped
<1>7. ASSUME NEW q \in Purchases PROVE PurchaseInv(q)'
  <2>1. CASE q = p
    BY <2>1, <1>1, <1>3 DEF PurchaseInv, Reviewed, Sendable, IInv
  <2>2. CASE q # p
    BY <2>2, <1>3 DEF PurchaseInv, Reviewed, Sendable, IInv
  <2> QED
    BY <2>1, <2>2
<1> QED
  BY <1>5, <1>6, <1>7 DEF IInv

LEMMA EvidenceKeeps ==
    ASSUME IInv, NEW p, NEW r, NEW checkout, NEW late,
           Evidence(p, r, checkout, late), UNCHANGED paying,
           p \in Purchases =>
             /\ AttemptShape(r) /\ r.alloc = "HELD"
             /\ attempt[p].status # "NONE" /\ checkout # "APPROVAL_REQUIRED"
    PROVE  IInv'
<1> DEFINE closes == late /\ ~r.closed /\ checkout \in {"AWAITING_PAYMENT", "PAYMENT_UNKNOWN"}
           judged == IF closes THEN "INVALIDATED_AWAITING_PAYMENT_RESULT" ELSE checkout
           stale == judged \in Retire \cup {"INVALIDATED_AWAITING_PAYMENT_RESULT"}
           failed == r.outcome = "failed"
           target == IF ~failed THEN IF stale THEN judged ELSE "PAID"
                     ELSE IF judged = "INVALIDATED_AWAITING_PAYMENT_RESULT" THEN "INVALIDATED"
                     ELSE "PAYMENT_FAILED"
           answer == IF failed THEN "FAILED" ELSE IF stale THEN "STALE_CAPTURE" ELSE "CAPTURED"
           r2 == [r EXCEPT !.closed = r.closed \/ closes, !.status = answer]
           c2 == MovedIfLegal(judged, target)
<1>1. Writes(p, r2, c2)
  BY DEF Evidence
<1>2. answer \in {"FAILED", "STALE_CAPTURE", "CAPTURED"} /\ (answer = "FAILED" => r.outcome = "failed")
  OBVIOUS
<1>3. p \in Purchases => judged # "APPROVAL_REQUIRED" /\ target # "APPROVAL_REQUIRED"
  OBVIOUS
<1>4. p \in Purchases => c2 # "APPROVAL_REQUIRED"
  BY <1>3, MovedIfLegalStays
<1> HIDE DEF answer, c2, closes
<1>5. p \in Purchases => /\ AttemptShape(r2) /\ r2.alloc = r.alloc /\ r2.status = answer
                         /\ r2.outcome = r.outcome
  <2> DEFINE open == [status |-> r.status, of |-> r.of, epoch |-> r.epoch, alloc |-> r.alloc,
                      outcome |-> r.outcome, grant |-> r.grant, closed |-> r.closed \/ closes]
             new == [status |-> answer, of |-> r.of, epoch |-> r.epoch, alloc |-> r.alloc,
                     outcome |-> r.outcome, grant |-> r.grant, closed |-> r.closed \/ closes]
  <2> SUFFICES ASSUME p \in Purchases
               PROVE  /\ AttemptShape(r2) /\ r2.alloc = r.alloc /\ r2.status = answer
                      /\ r2.outcome = r.outcome
    OBVIOUS
  <2>1. [r EXCEPT !.closed = r.closed \/ closes] = open
    BY DEF AttemptShape
  <2>2. [open EXCEPT !.status = answer] = new
    OBVIOUS
  <2>3. r2 = [[r EXCEPT !.closed = r.closed \/ closes] EXCEPT !.status = answer]
    OBVIOUS
  <2>4. r2 = new
    BY <2>1, <2>2, <2>3
  <2>5. AttemptShape(new) /\ new.alloc = r.alloc /\ new.status = answer /\ new.outcome = r.outcome
    BY DEF AttemptShape
  <2> QED
    BY <2>4, <2>5
<1> HIDE DEF r2
<1> QED
  BY <1>1, <1>2, <1>4, <1>5, WritesKeep

-----------------------------------------------------------------------------
\* The actions.

LEMMA FrameKeeps ==
    ASSUME IInv, UNCHANGED <<money, paying>> PROVE IInv'
BY DEF IInv, money, Shaped, PurchaseInv, Reviewed, Sendable, OneLivePermission, Live

LEMMA AuthorityOnlyKeeps ==
    ASSUME IInv, UNCHANGED <<version, attempt, paying>>,
           authority' = [a \in Authorities |-> authority'[a]],
           \A a \in Authorities : AuthorityShape(authority'[a]),
           OneLivePermission'
    PROVE  IInv'
BY DEF IInv, Shaped, PurchaseInv, Reviewed, Sendable

LEMMA GrantAuthorityKeeps ==
    ASSUME IInv, NEW a \in Authorities, GrantAuthority(a) PROVE IInv'
<1>1. \A b \in Authorities : /\ authority'[b] = IF b = a THEN [authority[a] EXCEPT !.status = "ACTIVE"]
                                               ELSE authority[b]
  BY DEF GrantAuthority, IInv, Shaped
<1>2. AuthorityShape(authority'[a])
  BY <1>1 DEF AuthorityShape, IInv, Shaped
<1>3. \A b \in Authorities : AuthorityShape(authority'[b])
  BY <1>1, <1>2 DEF IInv, Shaped
<1>4. OneLivePermission'
  BY <1>1 DEF GrantAuthority, OneLivePermission, Live
<1> QED
  BY <1>3, <1>4, AuthorityOnlyKeeps DEF GrantAuthority, IInv, Shaped, requests

LEMMA RevokeKeeps ==
    ASSUME IInv, NEW a \in Authorities, Revoke(a) PROVE IInv'
<1> DEFINE r == authority[a]
           gone == [status |-> "REVOKED", epoch |-> r.epoch + 1, consumed |-> r.consumed,
                    expired |-> r.expired]
           half == [status |-> "REVOKED", epoch |-> r.epoch, consumed |-> r.consumed,
                    expired |-> r.expired]
<1>1. [r EXCEPT !.status = "REVOKED"] = half /\ [half EXCEPT !.epoch = r.epoch + 1] = gone
  BY DEF IInv, Shaped, AuthorityShape
<1>2. authority' = [authority EXCEPT ![a] = gone]
  BY <1>1 DEF Revoke, IInv, Shaped
<1>3. AuthorityShape(gone) /\ gone.status = "REVOKED"
  BY DEF AuthorityShape
<1> HIDE DEF gone
<1>4. \A b \in Authorities : authority'[b] = IF b = a THEN gone ELSE authority[b]
  BY <1>2 DEF IInv, Shaped
<1>5. \A b \in Authorities : AuthorityShape(authority'[b])
  BY <1>3, <1>4 DEF IInv, Shaped
<1>6. OneLivePermission'
  BY <1>3, <1>4 DEF OneLivePermission, Live, IInv
<1> QED
  BY <1>2, <1>5, <1>6, AuthorityOnlyKeeps DEF Revoke, IInv, Shaped, requests

LEMMA AuthorityExpiresKeeps ==
    ASSUME IInv, NEW a \in Authorities, AuthorityExpires(a) PROVE IInv'
<1> DEFINE r == authority[a]
           late == [status |-> r.status, epoch |-> r.epoch, consumed |-> r.consumed,
                    expired |-> TRUE]
<1>1. AuthorityShape(late) /\ late.status = r.status
  BY DEF AuthorityShape
<1>2. authority' = [authority EXCEPT ![a] = late]
  <2>1. [r EXCEPT !.expired = TRUE] = late
    BY AuthorityLapsed DEF IInv, Shaped
  <2> QED
    BY <2>1 DEF AuthorityExpires
<1> HIDE DEF late
<1>3. \A b \in Authorities : authority'[b] = IF b = a THEN late ELSE authority[b]
  BY <1>2 DEF IInv, Shaped
<1>4. \A b \in Authorities : AuthorityShape(authority'[b])
  BY <1>1, <1>3 DEF IInv, Shaped
<1>5. OneLivePermission'
  BY <1>1, <1>3 DEF OneLivePermission, Live, IInv
<1> QED
  BY <1>2, <1>4, <1>5, AuthorityOnlyKeeps DEF AuthorityExpires, IInv, Shaped, requests

LEMMA BeginPayKeeps ==
    ASSUME IInv, NEW p \in Purchases, NEW a \in Authorities, BeginPay(p, a) PROVE IInv'
<1>1. attempt[p].status = "NONE"
  BY DEF BeginPay, IInv, PurchaseInv, Reviewed
<1>2. \A q \in Purchases : q # p => paying'[q] = paying[q]
  BY DEF BeginPay, IInv, Shaped
<1>3. paying' = [q \in Purchases |-> paying'[q]]
  BY DEF BeginPay, IInv, Shaped
<1>4. UNCHANGED <<authority, version, attempt>>
  BY DEF BeginPay, money
<1>5. \A q \in Purchases : PurchaseInv(q)'
  BY <1>1, <1>2, <1>4 DEF IInv, PurchaseInv, Reviewed, Sendable
<1> QED
  BY <1>3, <1>4, <1>5 DEF IInv, Shaped, OneLivePermission, Live

LEMMA PayRefusedKeeps ==
    ASSUME IInv, NEW p \in Purchases, PayRefused(p) PROVE IInv'
<1>1. \A q \in Purchases : paying'[q] \in {NotPaying, paying[q]}
  BY DEF PayRefused, IInv, Shaped
<1>2. paying' = [q \in Purchases |-> paying'[q]]
  BY DEF PayRefused, IInv, Shaped
<1>3. UNCHANGED <<authority, version, attempt>>
  BY DEF PayRefused, money
<1>4. \A q \in Purchases : PurchaseInv(q)'
  BY <1>1, <1>3 DEF IInv, PurchaseInv, Reviewed, Sendable
<1> QED
  BY <1>2, <1>3, <1>4 DEF IInv, Shaped, OneLivePermission, Live

LEMMA DenyKeeps ==
    ASSUME IInv, NEW p \in Purchases, Deny(p) PROVE IInv'
<1>1. attempt[p].status = "NONE"
  BY DEF Deny, Decides, IInv, PurchaseInv, Reviewed
<1>2. UNCHANGED <<authority, attempt>>
  BY DEF Deny
<1>3. \A q \in Purchases : q # p => paying'[q] = paying[q] /\ version'[q] = version[q]
  BY DEF Deny, IInv, Shaped
<1>4. /\ paying' = [q \in Purchases |-> paying'[q]]
      /\ version' = [q \in Purchases |-> version'[q]]
  BY DEF Deny, IInv, Shaped
<1>5. \A q \in Purchases : PurchaseInv(q)'
  BY <1>1, <1>2, <1>3 DEF IInv, PurchaseInv, Reviewed, Sendable
<1> QED
  BY <1>2, <1>4, <1>5 DEF IInv, Shaped, OneLivePermission, Live

LEMMA AdmitKeeps ==
    ASSUME IInv, NEW p \in Purchases, Admit(p) PROVE IInv'
<1> DEFINE b == paying[p].of
           taken == authority[b].consumed + Price[p]
           s == IF Exhausts(taken) THEN "EXHAUSTED" ELSE authority[b].status
           full == [status |-> s, epoch |-> authority[b].epoch, consumed |-> taken,
                    expired |-> authority[b].expired]
           half == [status |-> authority[b].status, epoch |-> authority[b].epoch,
                    consumed |-> taken, expired |-> authority[b].expired]
           new == [status |-> "CREATED", of |-> b, epoch |-> paying[p].epoch, alloc |-> "HELD",
                   outcome |-> "captured", grant |-> "ISSUED", closed |-> FALSE]
<1>2. attempt' = [attempt EXCEPT ![p] = new]
  BY DEF Admit
<1>3. Sound(new) /\ new.status = "CREATED" /\ new.closed = FALSE
  BY DEF Sound, AttemptShape
<1> HIDE DEF new
<1>4. \A q \in Purchases :
        /\ attempt'[q] = IF q = p THEN new ELSE attempt[q]
        /\ version'[q] = IF q = p THEN "EXECUTION_PENDING" ELSE version[q]
        /\ paying'[q] = IF q = p THEN NotPaying ELSE paying[q]
  BY <1>2 DEF Admit, IInv, Shaped
<1>5. \A q \in Purchases : PurchaseInv(q)'
  BY <1>3, <1>4 DEF IInv, PurchaseInv, Reviewed, Sendable
<1>6. /\ attempt' = [q \in Purchases |-> attempt'[q]]
      /\ version' = [q \in Purchases |-> version'[q]]
      /\ paying' = [q \in Purchases |-> paying'[q]]
  BY <1>2 DEF Admit, IInv, Shaped
<1>7. \A a \in Authorities :
        /\ a # b => authority'[a] = authority[a]
        /\ a = b => authority'[a] = full /\ authority[a].status = "ACTIVE"
  <2> SUFFICES ASSUME NEW a \in Authorities
               PROVE  /\ a # b => authority'[a] = authority[a]
                      /\ a = b => authority'[a] = full /\ authority[a].status = "ACTIVE"
    OBVIOUS
  <2>1. CASE a # b
    BY <2>1 DEF Admit, IInv, Shaped
  <2>2. CASE a = b
    <3>1. authority[b].status = "ACTIVE"
      BY DEF Admit, Permitted, Covers
    <3>2. [authority[b] EXCEPT !.consumed = taken] = half
      BY <2>2 DEF IInv, Shaped, AuthorityShape
    <3>3. [half EXCEPT !.status = s] = full /\ half.status = authority[b].status
      OBVIOUS
    <3>4. authority' = [[authority EXCEPT ![b].consumed = taken] EXCEPT
                          ![b].status = IF Exhausts(taken) THEN "EXHAUSTED" ELSE @]
      BY DEF Admit
    <3> HIDE DEF half, full, taken
    <3>5. [authority EXCEPT ![b].consumed = taken] = [authority EXCEPT ![b] = half]
      BY <3>2
    <3>6. authority'[b] = [half EXCEPT !.status = IF Exhausts(taken) THEN "EXHAUSTED" ELSE half.status]
      BY <2>2, <3>4, <3>5 DEF IInv, Shaped
    <3> QED
      BY <2>2, <3>1, <3>3, <3>6
  <2> QED
    BY <2>1, <2>2
<1>8. AuthorityShape(full)
  BY DEF AuthorityShape
<1>9. \A a \in Authorities : AuthorityShape(authority'[a])
  BY <1>7, <1>8 DEF IInv, Shaped
<1>10. authority' = [a \in Authorities |-> authority'[a]]
  BY DEF Admit, IInv, Shaped
<1>11. OneLivePermission'
  BY <1>7 DEF OneLivePermission, Live, IInv
<1> QED
  BY <1>5, <1>6, <1>9, <1>10, <1>11 DEF IInv, Shaped

LEMMA CancelKeeps ==
    ASSUME IInv, NEW p \in Purchases, Cancel(p) PROVE IInv'
<1> DEFINE r == attempt[p]
           s == IF cancelling[p] = "CREATED" THEN "EXPIRED" ELSE r.status
           g == IF r.grant = "ISSUED" THEN "REVOKED" ELSE r.grant
           half == [status |-> s, of |-> r.of, epoch |-> r.epoch, alloc |-> r.alloc,
                    outcome |-> r.outcome, grant |-> r.grant, closed |-> r.closed]
           gone == [status |-> s, of |-> r.of, epoch |-> r.epoch, alloc |-> r.alloc,
                    outcome |-> r.outcome, grant |-> g, closed |-> r.closed]
<1>1. attempt' = [attempt EXCEPT ![p] = gone]
  <2>1. [r EXCEPT !.status = s] = half
    BY StatusChanged DEF IInv, PurchaseInv, Sound
  <2>2. [half EXCEPT !.grant = g] = gone /\ half.grant = r.grant
    OBVIOUS
  <2>3. attempt' = [[attempt EXCEPT ![p].status = s] EXCEPT
                      ![p].grant = IF @ = "ISSUED" THEN "REVOKED" ELSE @]
    BY DEF Cancel
  <2> HIDE DEF half, gone, s
  <2>4. [attempt EXCEPT ![p].status = s] = [attempt EXCEPT ![p] = half]
    BY <2>1
  <2> QED
    BY <2>2, <2>3, <2>4, ZenonT(30) DEF IInv, Shaped
<1>2. Sound(gone) /\ gone.grant # "ISSUED" /\ (gone.status = "NONE" <=> r.status = "NONE")
  BY DEF Cancel, Cancellable, IInv, PurchaseInv, Sound, AttemptShape
<1> HIDE DEF gone
<1>3. \A q \in Purchases :
        /\ attempt'[q] = IF q = p THEN gone ELSE attempt[q]
        /\ version'[q] = IF q = p THEN "CANCELLED" ELSE version[q]
        /\ paying'[q] = paying[q]
  BY <1>1 DEF Cancel, IInv, Shaped
<1>4. \A q \in Purchases : PurchaseInv(q)'
  BY <1>2, <1>3 DEF IInv, PurchaseInv, Reviewed, Sendable
<1>5. /\ attempt' = [q \in Purchases |-> attempt'[q]]
      /\ version' = [q \in Purchases |-> version'[q]]
      /\ UNCHANGED <<authority, paying>>
  BY <1>1 DEF Cancel, IInv, Shaped
<1> QED
  BY <1>4, <1>5 DEF IInv, Shaped, OneLivePermission, Live

LEMMA RefuseDebitKeeps ==
    ASSUME IInv, NEW w \in Workers, RefuseDebit(w) PROVE IInv'
<1> DEFINE p == At(w)
           r == [status |-> "FAILED", of |-> attempt[p].of, epoch |-> attempt[p].epoch,
                 alloc |-> attempt[p].alloc, outcome |-> attempt[p].outcome,
                 grant |-> attempt[p].grant, closed |-> attempt[p].closed]
           given == [attempt[p] EXCEPT !.status = "FAILED"]
           c == MovedIfLegal(version[p], "PAYMENT_FAILED")
<1>1. Writes(p, given, c) /\ UNCHANGED paying
  BY DEF RefuseDebit, requests
<1>2. attempt[p].alloc = "HELD" /\ attempt[p].status = "CREATED"
  BY DEF RefuseDebit, Sends, Held
<1>3. p \in Purchases => given = r /\ attempt[p].grant # "CONSUMED" /\ version[p] # "APPROVAL_REQUIRED"
  BY <1>2, StatusChanged DEF IInv, PurchaseInv, Sound, Reviewed
<1>4. AttemptShape(r) /\ r.alloc = attempt[p].alloc /\ r.status = "FAILED" /\ r.grant = attempt[p].grant
  BY DEF AttemptShape
<1>5. p \in Purchases => c # "APPROVAL_REQUIRED"
  BY <1>3, MovedIfLegalStays
<1> HIDE DEF r, given, c, p
<1> QED
  BY <1>1, <1>2, <1>3, <1>4, <1>5, WritesKeep

LEMMA AcceptDebitKeeps ==
    ASSUME IInv, NEW w \in Workers, AcceptDebit(w) PROVE IInv'
<1> DEFINE p == At(w)
           r == attempt[p]
           sent == [r EXCEPT !.grant = "CONSUMED"]
           new == [status |-> r.status, of |-> r.of, epoch |-> r.epoch, alloc |-> r.alloc,
                   outcome |-> r.outcome, grant |-> "CONSUMED", closed |-> r.closed]
           unknown == [status |-> "UNKNOWN", of |-> r.of, epoch |-> r.epoch, alloc |-> r.alloc,
                       outcome |-> r.outcome, grant |-> "CONSUMED", closed |-> r.closed]
           c == MovedIfLegal(version[p], "PAYMENT_UNKNOWN")
           checkout == MovedIfLegal(version[p], "AWAITING_PAYMENT")
<1>1. UNCHANGED paying /\ r.alloc = "HELD" /\ r.status = "CREATED"
  BY DEF AcceptDebit, Sends, Held, requests
<1>2. p \in Purchases => AttemptShape(r) /\ version[p] # "APPROVAL_REQUIRED"
  BY <1>1 DEF IInv, PurchaseInv, Sound, Reviewed
<1>3. p \in Purchases => c # "APPROVAL_REQUIRED" /\ checkout # "APPROVAL_REQUIRED"
  BY <1>2, MovedIfLegalStays
<1>4. p \in Purchases => sent = new
  BY <1>2, GrantChanged
<1>5. AttemptShape(new) /\ new.alloc = r.alloc /\ [new EXCEPT !.status = "UNKNOWN"] = unknown
  BY DEF AttemptShape
<1>6. /\ AttemptShape(unknown) /\ unknown.alloc = r.alloc /\ unknown.status = "UNKNOWN"
      /\ unknown.grant = "CONSUMED"
  BY DEF AttemptShape
<1>7. \/ Writes(p, [sent EXCEPT !.status = "UNKNOWN"], c)
      \/ \E late \in BOOLEAN : Evidence(p, sent, checkout, late)
  BY DEF AcceptDebit
<1> HIDE DEF r, sent, new, unknown, c, checkout, p
<1>8. CASE Writes(p, [sent EXCEPT !.status = "UNKNOWN"], c)
  <2> DEFINE given == [sent EXCEPT !.status = "UNKNOWN"]
  <2>1. p \in Purchases => given = unknown
    BY <1>4, <1>5
  <2>2. Writes(p, given, c)
    BY <1>8
  <2> HIDE DEF given
  <2>3. p \in Purchases => /\ AttemptShape(given) /\ given.alloc = "HELD" /\ given.status = "UNKNOWN"
                           /\ given.grant = "CONSUMED" /\ attempt[p].status # "NONE"
    BY <2>1, <1>1, <1>6 DEF r
  <2> QED
    BY <2>2, <2>3, <1>1, <1>3, WritesKeep
<1>9. CASE \E late \in BOOLEAN : Evidence(p, sent, checkout, late)
  <2>1. p \in Purchases => AttemptShape(sent) /\ sent.alloc = "HELD" /\ attempt[p].status # "NONE"
    BY <1>1, <1>4, <1>5 DEF r
  <2> QED
    BY <2>1, <1>9, <1>1, <1>3, EvidenceKeeps
<1> QED
  BY <1>7, <1>8, <1>9

LEMMA ApplyOutcomeKeeps ==
    ASSUME IInv, NEW w \in Workers, ApplyOutcome(w) PROVE IInv'
<1> DEFINE p == At(w)
<1>1. /\ Evidence(p, attempt[p], version[p], Due(p)) /\ UNCHANGED paying
      /\ attempt[p].alloc = "HELD" /\ attempt[p].status = "UNKNOWN"
  BY DEF ApplyOutcome, Held, requests
<1>2. p \in Purchases => AttemptShape(attempt[p]) /\ version[p] # "APPROVAL_REQUIRED"
  BY <1>1 DEF IInv, PurchaseInv, Sound, Reviewed
<1> HIDE DEF p
<1> QED
  BY <1>1, <1>2, EvidenceKeeps

LEMMA SimulateKeeps ==
    ASSUME IInv, NEW p \in Scripted, NEW o \in Outcomes, Simulate(p, o) PROVE IInv'
<1> DEFINE r == attempt[p]
           new == [status |-> r.status, of |-> r.of, epoch |-> r.epoch, alloc |-> r.alloc,
                   outcome |-> o, grant |-> r.grant, closed |-> r.closed]
<1>1. p \in Purchases
  BY AmountAssumption
<1>2. [r EXCEPT !.outcome = o] = new
  BY <1>1, OutcomeChanged DEF IInv, PurchaseInv, Sound
<1>3. attempt' = [attempt EXCEPT ![p] = new]
  BY <1>2 DEF Simulate
<1>4. Sound(new) /\ new.status = r.status /\ new.grant = r.grant /\ new.closed = r.closed
  BY <1>1 DEF Simulate, IInv, PurchaseInv, Sound, AttemptShape
<1> HIDE DEF new
<1>5. \A q \in Purchases : attempt'[q] = IF q = p THEN new ELSE attempt[q]
  BY <1>3 DEF IInv, Shaped
<1>6. UNCHANGED <<authority, version, paying>>
  BY DEF Simulate, requests
<1>7. \A q \in Purchases : PurchaseInv(q)'
  BY <1>4, <1>5, <1>6 DEF IInv, PurchaseInv, Reviewed, Sendable
<1>8. attempt' = [q \in Purchases |-> attempt'[q]]
  BY <1>3 DEF IInv, Shaped
<1> QED
  BY <1>6, <1>7, <1>8 DEF IInv, Shaped, OneLivePermission, Live

LEMMA EnterSafeModeKeeps ==
    ASSUME IInv, NEW scope, EnterSafeMode(scope) PROVE IInv'
<1> DEFINE G(q) == IF attempt[q].grant = "ISSUED" THEN "REVOKED" ELSE attempt[q].grant
           N(q) == [status |-> attempt[q].status, of |-> attempt[q].of,
                    epoch |-> attempt[q].epoch, alloc |-> attempt[q].alloc,
                    outcome |-> attempt[q].outcome, grant |-> G(q), closed |-> attempt[q].closed]
<1>1. UNCHANGED <<authority, version, paying>>
  BY DEF EnterSafeMode, Switch, requests
<1>2. CASE attempt' = attempt
  BY <1>1, <1>2, FrameKeeps DEF money
<1>3. CASE attempt' = [q \in Purchases |-> [attempt[q] EXCEPT !.grant = G(q)]]
  <2>1. \A q \in Purchases : attempt'[q] = N(q)
    BY <1>3, GrantChanged DEF IInv, PurchaseInv, Sound
  <2>2. \A q \in Purchases : /\ Sound(N(q)) /\ N(q).status = attempt[q].status
                             /\ N(q).grant # "ISSUED"
    <3> SUFFICES ASSUME NEW q \in Purchases
                 PROVE  Sound(N(q)) /\ N(q).status = attempt[q].status /\ N(q).grant # "ISSUED"
      OBVIOUS
    <3>1. Sound(attempt[q])
      BY DEF IInv, PurchaseInv
    <3>2. G(q) # "ISSUED" /\ (G(q) = "CONSUMED" <=> attempt[q].grant = "CONSUMED")
      OBVIOUS
    <3> HIDE DEF G
    <3> QED
      BY <3>1, <3>2 DEF Sound, AttemptShape
  <2> HIDE DEF N
  <2>3. \A q \in Purchases : PurchaseInv(q)'
    BY <2>1, <2>2, <1>1 DEF IInv, PurchaseInv, Reviewed, Sendable
  <2>4. attempt' = [q \in Purchases |-> attempt'[q]]
    BY <1>3
  <2> QED
    BY <1>1, <2>3, <2>4 DEF IInv, Shaped, OneLivePermission, Live
<1> QED
  BY <1>2, <1>3 DEF EnterSafeMode

\* close_due settles an unsent debit and leaves the allocation of a sent one.
LEMMA ClosedIsSound ==
    ASSUME NEW r, Sound(r), r.status \in OpenStatuses
    PROVE  /\ Sound(Closed(r)) /\ Closed(r).grant = r.grant
           /\ Closed(r).status \in {"EXPIRED", "UNKNOWN"}
<1>0. PICK yes : yes = TRUE
  OBVIOUS
<1> DEFINE shut == [status |-> r.status, of |-> r.of, epoch |-> r.epoch, alloc |-> r.alloc,
                    outcome |-> r.outcome, grant |-> r.grant, closed |-> yes]
           ended == [status |-> "EXPIRED", of |-> r.of, epoch |-> r.epoch, alloc |-> r.alloc,
                     outcome |-> r.outcome, grant |-> r.grant, closed |-> yes]
           back == [status |-> "EXPIRED", of |-> r.of, epoch |-> r.epoch, alloc |-> "RELEASED",
                    outcome |-> r.outcome, grant |-> r.grant, closed |-> yes]
<1>1. [r EXCEPT !.closed = TRUE] = shut
  BY <1>0, ClosedChanged DEF Sound
<1>2. [shut EXCEPT !.status = "EXPIRED"] = ended
  OBVIOUS
<1>3. CASE r.status = "CREATED"
  <2>1. SettledAs(r.alloc, "EXPIRED") = "RELEASED"
    BY <1>3 DEF Sound, SettledAs
  <2>2. [ended EXCEPT !.alloc = "RELEASED"] = back
    OBVIOUS
  <2>3. Closed(r) = [[[r EXCEPT !.closed = TRUE] EXCEPT !.status = "EXPIRED"]
                       EXCEPT !.alloc = SettledAs(@, "EXPIRED")]
    BY <1>3 DEF Closed
  <2>4. Closed(r) = [ended EXCEPT !.alloc = SettledAs(ended.alloc, "EXPIRED")] /\ ended.alloc = r.alloc
    BY <1>1, <1>2, <2>3
  <2> HIDE DEF ended, shut
  <2>5. Closed(r) = back
    BY <2>1, <2>2, <2>4
  <2>6. Sound(back) /\ back.grant = r.grant /\ back.status = "EXPIRED"
    BY <1>3 DEF Sound, AttemptShape
  <2> QED
    BY <2>5, <2>6
<1>4. CASE r.status = "UNKNOWN"
  <2>1. Closed(r) = shut
    BY <1>1, <1>4 DEF Closed
  <2>2. Sound(shut) /\ shut.grant = r.grant /\ shut.status = "UNKNOWN"
    BY <1>4 DEF Sound, AttemptShape
  <2> QED
    BY <2>1, <2>2
<1> QED
  BY <1>3, <1>4 DEF OpenStatuses

LEMMA SweptIsSound ==
    ASSUME NEW p, NEW r, Sound(r)
    PROVE  /\ Sound(GrantSwept(p, r)) /\ GrantSwept(p, r).status = r.status
           /\ GrantSwept(p, r).closed = r.closed
           /\ GrantSwept(p, r).grant = "ISSUED" => r.grant = "ISSUED"
<1> DEFINE g == IF r.grant = "ISSUED" /\ Due(p)
                THEN IF Closes(p) THEN "REVOKED" ELSE "EXPIRED" ELSE r.grant
           new == [status |-> r.status, of |-> r.of, epoch |-> r.epoch, alloc |-> r.alloc,
                   outcome |-> r.outcome, grant |-> g, closed |-> r.closed]
<1>1. GrantSwept(p, r) = new
  BY GrantChanged DEF GrantSwept, Sound
<1>2. Sound(new) /\ new.status = r.status /\ new.closed = r.closed
  BY DEF Sound, AttemptShape
<1> QED
  BY <1>1, <1>2

LEMMA CommitSweepKeeps ==
    ASSUME IInv, CommitSweep PROVE IInv'
<1> DEFINE R(q) == IF Closes(q) THEN Closed(attempt[q]) ELSE attempt[q]
           V(q) == IF ~Closes(q) THEN version[q]
                   ELSE IF attempt[q].status = "CREATED" THEN "CANCELLED"
                   ELSE MovedIfLegal(version[q], "INVALIDATED_AWAITING_PAYMENT_RESULT")
<1>1. UNCHANGED paying
  BY DEF CommitSweep, requests
<1>2. /\ attempt' = [q \in Purchases |-> GrantSwept(q, R(q))]
      /\ version' = [q \in Purchases |-> V(q)]
  BY DEF CommitSweep
<1>3. \A q \in Purchases : Closes(q) => attempt[q].status \in OpenStatuses
  BY DEF Closes, OpenStatuses
<1>4. ASSUME NEW q \in Purchases PROVE PurchaseInv(q)'
  <2>1. attempt'[q] = GrantSwept(q, R(q)) /\ version'[q] = V(q) /\ paying'[q] = paying[q]
    BY <1>1, <1>2
  <2>2. CASE Closes(q)
    <3>1. Sound(attempt[q]) /\ attempt[q].status \in OpenStatuses
      BY <1>3, <2>2 DEF IInv, PurchaseInv
    <3>2. Sound(R(q)) /\ R(q).status # "CREATED"
      BY <2>2, <3>1, ClosedIsSound
    <3>3. version[q] # "APPROVAL_REQUIRED" /\ paying[q] = NotPaying
      BY <3>1 DEF IInv, PurchaseInv, Reviewed, OpenStatuses
    <3>4. V(q) # "APPROVAL_REQUIRED"
      BY <3>3, MovedIfLegalStays
    <3> HIDE DEF R, V
    <3>5. Sound(attempt'[q]) /\ attempt'[q].status # "CREATED"
      BY <2>1, <3>2, SweptIsSound
    <3> QED
      BY <2>1, <3>3, <3>4, <3>5 DEF PurchaseInv, Reviewed, Sendable
  <2>3. CASE ~Closes(q)
    <3>1. R(q) = attempt[q] /\ V(q) = version[q]
      BY <2>3
    <3> HIDE DEF R, V
    <3>2. /\ Sound(attempt'[q]) /\ attempt'[q].status = attempt[q].status
          /\ attempt'[q].closed = attempt[q].closed
          /\ attempt'[q].grant = "ISSUED" => attempt[q].grant = "ISSUED"
      BY <2>1, <3>1, SweptIsSound DEF IInv, PurchaseInv
    <3> QED
      BY <2>1, <3>1, <3>2 DEF IInv, PurchaseInv, Reviewed, Sendable
  <2> QED
    BY <2>2, <2>3
<1>5. \A a \in Authorities : \E n : authority'[a] \in {authority[a], Restored(authority[a], n)}
  BY DEF CommitSweep
<1>6. authority' = [a \in Authorities |-> authority'[a]]
  BY DEF CommitSweep
<1>7. \A a \in Authorities : AuthorityShape(authority'[a])
  BY <1>5, RestoredKeepsLife DEF IInv, Shaped
<1>8. OneLivePermission'
  BY <1>5, RestoredKeepsLife DEF OneLivePermission, Live, IInv, Shaped
<1>9. /\ attempt' = [q \in Purchases |-> attempt'[q]]
      /\ version' = [q \in Purchases |-> version'[q]]
  BY <1>2
<1> QED
  BY <1>1, <1>4, <1>6, <1>7, <1>8, <1>9 DEF IInv, Shaped

-----------------------------------------------------------------------------
\* The invariant.

LEMMA InitHolds == Init => IInv
<1> SUFFICES ASSUME Init PROVE IInv
  OBVIOUS
<1>1. \A p \in Purchases : attempt[p] = NoAttempt /\ paying[p] = NotPaying
  BY DEF Init
<1>2. Sound(NoAttempt) /\ NoAttempt.status = "NONE"
  BY DEF NoAttempt, Sound, AttemptShape
<1>3. \A a \in Authorities : AuthorityShape(authority[a]) /\ ~Live(a)
  BY DEF Init, AuthorityShape, Live
<1>4. Shaped
  BY <1>3 DEF Init, Shaped
<1> QED
  BY <1>1, <1>2, <1>3, <1>4 DEF IInv, PurchaseInv, Reviewed, Sendable, OneLivePermission

LEMMA WorkerKeeps ==
    ASSUME IInv, NEW w \in Workers, WorkerStep(w) PROVE IInv'
<1>1. CASE RefuseDebit(w)
  BY <1>1, RefuseDebitKeeps
<1>2. CASE AcceptDebit(w)
  BY <1>2, AcceptDebitKeeps
<1>3. CASE ApplyOutcome(w)
  BY <1>3, ApplyOutcomeKeeps
<1>4. CASE \E p \in Purchases : Take(w, p)
  BY <1>4, FrameKeeps DEF Take, requests
<1>5. CASE NothingToDo(w) \/ AskAgain(w) \/ Bury(w)
  BY <1>5, FrameKeeps DEF NothingToDo, AskAgain, Bury, requests
<1>6. CASE WaitWithVersion(w) \/ Crash(w) \/ WorkerVictim(w)
  BY <1>6, FrameKeeps DEF WaitWithVersion, Crash, WorkerVictim, requests
<1> QED
  BY <1>1, <1>2, <1>3, <1>4, <1>5, <1>6 DEF WorkerStep, Handle

LEMMA BuyerKeeps ==
    ASSUME IInv, NEW p \in Purchases, BuyerStep(p) PROVE IInv'
<1>1. CASE \E a \in Authorities : BeginPay(p, a)
  BY <1>1, BeginPayKeeps
<1>2. CASE Deny(p)
  BY <1>2, DenyKeeps
<1>3. CASE Admit(p)
  BY <1>3, AdmitKeeps
<1>4. CASE CancelReads(p) \/ CancelRefused(p)
  BY <1>4, FrameKeeps DEF CancelReads, CancelRefused
<1>5. CASE Cancel(p)
  BY <1>5, CancelKeeps
<1>6. CASE PayRefused(p)
  BY <1>6, PayRefusedKeeps
<1> QED
  BY <1>1, <1>2, <1>3, <1>4, <1>5, <1>6 DEF BuyerStep

LEMMA SweepKeeps ==
    ASSUME IInv, SweepStep PROVE IInv'
<1>1. CASE \E p \in Purchases : StartSweep(p) \/ LockNext(p)
  BY <1>1, FrameKeeps DEF StartSweep, LockNext, Locks, requests
<1>2. CASE CommitSweep
  BY <1>2, CommitSweepKeeps
<1>3. CASE SweepVictim
  BY <1>3, FrameKeeps DEF SweepVictim, requests
<1> QED
  BY <1>1, <1>2, <1>3 DEF SweepStep

LEMMA SurroundingsKeep ==
    ASSUME IInv, Surroundings PROVE IInv'
<1>1. CASE \E p \in Purchases : WindowEnds(p)
  BY <1>1, FrameKeeps DEF WindowEnds, requests
<1>2. CASE \E p \in Scripted, o \in Outcomes : Simulate(p, o)
  BY <1>2, SimulateKeeps
<1>3. CASE \E s \in {"tenant", "global"} : EnterSafeMode(s)
  BY <1>3, EnterSafeModeKeeps
<1>4. CASE \E s \in {"tenant", "global"} : LeaveSafeMode(s)
  BY <1>4, FrameKeeps DEF LeaveSafeMode, Switch, money, requests
<1>5. CASE \E a \in Authorities : GrantAuthority(a)
  BY <1>5, GrantAuthorityKeeps
<1>6. CASE \E a \in Authorities : Revoke(a)
  BY <1>6, RevokeKeeps
<1>7. CASE \E a \in Authorities : AuthorityExpires(a)
  BY <1>7, AuthorityExpiresKeeps
<1> QED
  BY <1>1, <1>2, <1>3, <1>4, <1>5, <1>6, <1>7 DEF Surroundings

\* The inductive invariant the theorems below rest on.
THEOREM Invariance == Spec => []IInv
<1>1. IInv /\ [Next]_vars => IInv'
  <2> SUFFICES ASSUME IInv, [Next]_vars PROVE IInv'
    OBVIOUS
  <2>1. CASE UNCHANGED vars
    BY <2>1, FrameKeeps DEF vars, money
  <2>2. CASE Next
    BY <2>2, BuyerKeeps, WorkerKeeps, SweepKeeps, SurroundingsKeep DEF Next
  <2> QED
    BY <2>1, <2>2
<1> QED
  BY <1>1, InitHolds, PTL DEF Spec

\* A returned allocation never puts a second live permission beside the first
\* (settle_allocation; uq_reserve_live_buyer_merchant).
THEOREM SinglePermission == Spec => []OneLivePermission
<1>1. IInv => OneLivePermission
  BY DEF IInv
<1> QED
  BY <1>1, Invariance, PTL

\* Capacity is returned only for a debit that did not happen, and spent by one
\* that did (settle_allocation, close_due).
THEOREM UnknownStaysHeld == Spec => []AllocationTellsOutcome
<1>1. IInv => AllocationTellsOutcome
  BY DEF IInv, PurchaseInv, Sound, AllocationTellsOutcome
<1> QED
  BY <1>1, Invariance, PTL

-----------------------------------------------------------------------------
\* The debits that are sent.

DebitPermitted(p) ==
    attempt[p].grant # "CONSUMED" /\ attempt'[p].grant = "CONSUMED" =>
        /\ Live(attempt[p].of) /\ authority[attempt[p].of].epoch = attempt[p].epoch
        /\ ~SafeMode /\ version[p] = "EXECUTION_PENDING" /\ ~attempt[p].closed

LEMMA WritesElsewhere ==
    ASSUME IInv, NEW p, NEW r, NEW c, Writes(p, r, c), NEW q \in Purchases,
           p = q => AttemptShape(r)
    PROVE  attempt'[q].grant = IF p = q THEN r.grant ELSE attempt[q].grant
<1>1. CASE p # q
  BY <1>1 DEF Writes, IInv, Shaped
<1>2. CASE p = q
  <2> DEFINE r2 == [r EXCEPT !.alloc = SettledAs(r.alloc, r.status)]
  <2>1. r2.grant = r.grant
    BY <1>2, AllocationChanged
  <2>2. attempt' = [attempt EXCEPT ![p] = r2]
    BY DEF Writes
  <2> HIDE DEF r2
  <2> QED
    BY <1>2, <2>1, <2>2 DEF IInv, Shaped
<1> QED
  BY <1>1, <1>2

LEMMA EvidenceElsewhere ==
    ASSUME IInv, NEW p, NEW r, NEW checkout, NEW late, Evidence(p, r, checkout, late),
           NEW q \in Purchases, p = q => AttemptShape(r)
    PROVE  attempt'[q].grant = IF p = q THEN r.grant ELSE attempt[q].grant
<1>1. PICK closed, status, c :
        Writes(p, [r EXCEPT !.closed = r.closed \/ closed, !.status = status], c)
  BY DEF Evidence
<1> DEFINE r2 == [r EXCEPT !.closed = r.closed \/ closed, !.status = status]
<1>2. p = q => AttemptShape(r2) /\ r2.grant = r.grant
  <2> DEFINE b == r.closed \/ closed
             new == [status |-> status, of |-> r.of, epoch |-> r.epoch, alloc |-> r.alloc,
                     outcome |-> r.outcome, grant |-> r.grant, closed |-> b]
  <2> HIDE DEF b
  <2>1. p = q => r2 = new
    <3> SUFFICES ASSUME p = q PROVE r2 = new
      OBVIOUS
    <3> DEFINE open == [status |-> r.status, of |-> r.of, epoch |-> r.epoch, alloc |-> r.alloc,
                        outcome |-> r.outcome, grant |-> r.grant, closed |-> b]
    <3>1. [r EXCEPT !.closed = b] = open
      BY DEF AttemptShape
    <3>2. [open EXCEPT !.status = status] = new
      OBVIOUS
    <3>3. r2 = [[r EXCEPT !.closed = b] EXCEPT !.status = status]
      BY DEF b
    <3> QED
      BY <3>1, <3>2, <3>3
  <2>2. AttemptShape(new) /\ new.grant = r.grant
    BY DEF AttemptShape
  <2> QED
    BY <2>1, <2>2
<1>3. Writes(p, r2, c)
  BY <1>1
<1> HIDE DEF r2
<1> QED
  BY <1>2, <1>3, WritesElsewhere

\* Only AcceptDebit consumes a grant.
LEMMA OthersConsumeNothing ==
    ASSUME IInv, NEW q \in Purchases,
           \/ \E p \in Purchases : BuyerStep(p)
           \/ SweepStep \/ Surroundings
    PROVE  attempt'[q].grant = "CONSUMED" <=> attempt[q].grant = "CONSUMED"
<1>1. CASE UNCHANGED attempt
  BY <1>1
<1>2. ASSUME NEW p \in Purchases, Admit(p)
      PROVE  attempt'[q].grant = "CONSUMED" <=> attempt[q].grant = "CONSUMED"
  <2>1. attempt[p].grant # "CONSUMED"
    BY <1>2 DEF Admit, Decides, IInv, PurchaseInv, Reviewed, Sound
  <2> QED
    BY <1>2, <2>1 DEF Admit, IInv, Shaped
<1>3. ASSUME NEW p \in Purchases, Cancel(p)
      PROVE  attempt'[q].grant = "CONSUMED" <=> attempt[q].grant = "CONSUMED"
  <2> DEFINE s == IF cancelling[p] = "CREATED" THEN "EXPIRED" ELSE attempt[p].status
             half == [attempt[p] EXCEPT !.status = s]
  <2>1. attempt' = [[attempt EXCEPT ![p].status = s] EXCEPT
                      ![p].grant = IF @ = "ISSUED" THEN "REVOKED" ELSE @]
    BY <1>3 DEF Cancel
  <2>2. AttemptShape(half) /\ half.grant = attempt[p].grant
    BY StatusKeepsGrant DEF IInv, PurchaseInv, Sound
  <2>3. [attempt EXCEPT ![p].status = s] = [attempt EXCEPT ![p] = half]
    OBVIOUS
  <2> HIDE DEF half, s
  <2> DEFINE g == IF half.grant = "ISSUED" THEN "REVOKED" ELSE half.grant
             gone == [half EXCEPT !.grant = g]
  <2>4. gone.grant = g
    BY <2>2, GrantChanged
  <2>5. attempt' = [attempt EXCEPT ![p] = gone]
    BY <2>1, <2>3 DEF IInv, Shaped
  <2> HIDE DEF gone
  <2> QED
    BY <2>2, <2>4, <2>5 DEF IInv, Shaped
<1>4. CASE CommitSweep
  <2> DEFINE r == IF Closes(q) THEN Closed(attempt[q]) ELSE attempt[q]
  <2>1. attempt'[q] = GrantSwept(q, r)
    BY <1>4 DEF CommitSweep
  <2>2. Sound(r) /\ r.grant = attempt[q].grant
    <3>1. Closes(q) => attempt[q].status \in OpenStatuses
      BY DEF Closes, OpenStatuses
    <3> QED
      BY <3>1, ClosedIsSound DEF IInv, PurchaseInv
  <2> HIDE DEF r
  <2>3. GrantSwept(q, r).grant = "CONSUMED" <=> r.grant = "CONSUMED"
    <3> DEFINE g == IF r.grant = "ISSUED" /\ Due(q)
                    THEN IF Closes(q) THEN "REVOKED" ELSE "EXPIRED" ELSE r.grant
    <3>1. GrantSwept(q, r).grant = g
      BY <2>2, GrantChanged DEF GrantSwept, Sound
    <3> QED
      BY <3>1
  <2> QED
    BY <2>1, <2>2, <2>3
<1>5. ASSUME NEW p \in Scripted, NEW o \in Outcomes, Simulate(p, o)
      PROVE  attempt'[q].grant = "CONSUMED" <=> attempt[q].grant = "CONSUMED"
  <2> DEFINE new == [attempt[p] EXCEPT !.outcome = o]
  <2>1. new.grant = attempt[p].grant
    BY OutcomeChanged, AmountAssumption DEF IInv, PurchaseInv, Sound
  <2>2. attempt' = [attempt EXCEPT ![p] = new]
    BY <1>5 DEF Simulate
  <2> HIDE DEF new
  <2> QED
    BY <2>1, <2>2 DEF IInv, Shaped
<1>6. ASSUME NEW scope, EnterSafeMode(scope)
      PROVE  attempt'[q].grant = "CONSUMED" <=> attempt[q].grant = "CONSUMED"
  <2> DEFINE G(x) == IF attempt[x].grant = "ISSUED" THEN "REVOKED" ELSE attempt[x].grant
  <2>1. CASE attempt' = [x \in Purchases |-> [attempt[x] EXCEPT !.grant = G(x)]]
    <3>1. attempt'[q].grant = G(q)
      BY <2>1, GrantChanged DEF IInv, PurchaseInv, Sound
    <3> QED
      BY <3>1
  <2>2. CASE UNCHANGED attempt
    BY <2>2
  <2> QED
    BY <1>6, <2>1, <2>2 DEF EnterSafeMode
<1>7. ASSUME NEW p \in Purchases, BuyerStep(p)
      PROVE  attempt'[q].grant = "CONSUMED" <=> attempt[q].grant = "CONSUMED"
  BY <1>1, <1>2, <1>3, <1>7
     DEF BuyerStep, BeginPay, PayRefused, Deny, CancelReads, CancelRefused, money
<1>8. CASE SweepStep
  BY <1>1, <1>4, <1>8 DEF SweepStep, StartSweep, LockNext, Locks, SweepVictim, money
<1>9. CASE Surroundings
  BY <1>1, <1>5, <1>6, <1>9
     DEF Surroundings, WindowEnds, LeaveSafeMode, GrantAuthority, Revoke, AuthorityExpires, money
<1> QED
  BY <1>7, <1>8, <1>9

LEMMA WorkersSendPermitted ==
    ASSUME IInv, NEW w \in Workers, WorkerStep(w), NEW q \in Purchases
    PROVE  DebitPermitted(q)
<1>1. CASE UNCHANGED attempt
  BY <1>1 DEF DebitPermitted
<1>2. CASE AcceptDebit(w)
  <2>1. CASE At(w) = q
    BY <1>2, <2>1 DEF AcceptDebit, Sends, StillAuthorised, Spendable, DebitPermitted,
                      IInv, PurchaseInv, Sendable
  <2>2. CASE At(w) # q
    <3>1. attempt'[q].grant = attempt[q].grant
      BY <1>2, <2>2, WritesElsewhere, EvidenceElsewhere DEF AcceptDebit
    <3> QED
      BY <3>1 DEF DebitPermitted
  <2> QED
    BY <2>1, <2>2
<1>3. CASE RefuseDebit(w)
  <2>1. Writes(At(w), [attempt[At(w)] EXCEPT !.status = "FAILED"],
               MovedIfLegal(version[At(w)], "PAYMENT_FAILED"))
    BY <1>3 DEF RefuseDebit
  <2> DEFINE r == [attempt[At(w)] EXCEPT !.status = "FAILED"]
  <2>2. At(w) = q => AttemptShape(r) /\ r.grant = attempt[q].grant
    BY StatusKeepsGrant DEF IInv, PurchaseInv, Sound
  <2> HIDE DEF r
  <2>3. attempt'[q].grant = attempt[q].grant
    BY <2>1, <2>2, WritesElsewhere DEF r
  <2> QED
    BY <2>3 DEF DebitPermitted
<1>4. CASE ApplyOutcome(w)
  <2>1. attempt'[q].grant = attempt[q].grant
    BY <1>4, EvidenceElsewhere DEF ApplyOutcome, IInv, PurchaseInv, Sound
  <2> QED
    BY <2>1 DEF DebitPermitted
<1> QED
  BY <1>1, <1>2, <1>3, <1>4
     DEF WorkerStep, Handle, Take, WaitWithVersion, NothingToDo, AskAgain, Bury, Crash,
         WorkerVictim, money

\* A revoked permission, Safe Mode or a cancellation stops every debit that has
\* not been sent (handle_reserve, consume_grant).
THEOREM OnlyPermittedDebits == Spec => DebitsArePermitted
<1>1. IInv /\ [Next]_vars => [\A p \in Purchases : DebitPermitted(p)]_vars
  <2> SUFFICES ASSUME IInv, Next, NEW p \in Purchases PROVE DebitPermitted(p)
    OBVIOUS
  <2>1. CASE \E w \in Workers : WorkerStep(w)
    BY <2>1, WorkersSendPermitted
  <2>2. CASE (\E b \in Purchases : BuyerStep(b)) \/ SweepStep \/ Surroundings
    BY <2>2, OthersConsumeNothing DEF DebitPermitted
  <2> QED
    BY <2>1, <2>2 DEF Next
<1>2. [][\A p \in Purchases : DebitPermitted(p)]_vars <=> DebitsArePermitted
  BY PTL DEF DebitsArePermitted, DebitPermitted
<1> QED
  BY <1>1, <1>2, Invariance, PTL DEF Spec

-----------------------------------------------------------------------------
\* Types. What an authority has consumed is bounded by the books, see below:
\* the types alone leave it an integer.

AuthorityRecord == [status : AuthorityStatus, epoch : Nat, consumed : Int, expired : BOOLEAN]
AttemptRecord ==
    [status : {"NONE", "CREATED", "UNKNOWN", "CAPTURED", "STALE_CAPTURE", "FAILED", "EXPIRED"},
     of : Authorities \cup {0}, epoch : Nat,
     alloc : {"NONE", "HELD", "SPENT", "RELEASED"}, outcome : Outcomes,
     grant : {"NONE", "ISSUED", "CONSUMED", "REVOKED", "EXPIRED"}, closed : BOOLEAN]

MoneyTypes ==
    /\ authority \in [Authorities -> AuthorityRecord]
    /\ version \in [Purchases -> CheckoutState]
    /\ attempt \in [Purchases -> AttemptRecord]
RequestTypes ==
    /\ paying \in [Purchases -> [of : Authorities \cup {0}, epoch : Nat, late : BOOLEAN]]
    /\ cancelling \in [Purchases -> {"idle", "NONE", "CREATED", "UNKNOWN"}]
WorkTypes ==
    /\ queue \subseteq Purchases \X (0..IF Rounds = 0 THEN 1 ELSE Rounds) \X (0..MaxFixtures)
    /\ worker \in [Workers -> [cmd : {<<>>} \cup queue, late : BOOLEAN, locked : BOOLEAN]]
OtherTypes ==
    /\ due \subseteq Purchases
    /\ sweep \in [todo : SUBSET Purchases, versions : SUBSET Purchases,
                  authorities : SUBSET Authorities]
    /\ mode \in [tenant : {"none", "NORMAL", "SAFE_MODE"},
                 global : {"none", "NORMAL", "SAFE_MODE"}, last : {"none", "tenant", "global"}]
    /\ used \in [fixtures : 0..MaxFixtures, disturbances : 0..MaxDisturbances]

\* An attempt is of an authority, and so is a request to pay.
AttemptOf == \A p \in Purchases : attempt[p].status # "NONE" => attempt[p].of \in Authorities
PayOf == \A p \in Purchases : paying[p] # NotPaying => paying[p].of \in Authorities
\* No two workers have the same command, and none has a lock without one.
Apart ==
    /\ \A v, w \in Workers : Busy(v) /\ worker[v].cmd = worker[w].cmd => v = w
    /\ \A w \in Workers : Locked(w) => Busy(w)

\* Only attempts have a window that ends.
Begun == \A p \in due \cup sweep.todo : attempt[p].status # "NONE"
\* A command is about a purchase that has an attempt.
Asked == \A c \in queue : attempt[c[1]].status # "NONE"
\* The purchases that have an allocation: finitely many, for any set Purchases.
Allocated == {p \in Purchases : attempt[p].alloc # "NONE"}

TypeInv ==
    /\ MoneyTypes /\ RequestTypes /\ WorkTypes /\ OtherTypes
    /\ AttemptOf /\ PayOf /\ Apart /\ Begun /\ Asked /\ IsFiniteSet(Allocated)

LEMMA AttemptIsRecord ==
    ASSUME NEW r, AttemptShape(r),
           r.status \in {"NONE", "CREATED", "UNKNOWN", "CAPTURED", "STALE_CAPTURE", "FAILED",
                         "EXPIRED"},
           r.of \in Authorities \cup {0}, r.epoch \in Nat,
           r.alloc \in {"NONE", "HELD", "SPENT", "RELEASED"}, r.outcome \in Outcomes,
           r.grant \in {"NONE", "ISSUED", "CONSUMED", "REVOKED", "EXPIRED"}, r.closed \in BOOLEAN
    PROVE  r \in AttemptRecord
BY DEF AttemptShape, AttemptRecord

LEMMA RestoredFields ==
    ASSUME NEW r \in AuthorityRecord, NEW n \in Int
    PROVE  /\ Restored(r, n) \in AuthorityRecord
           /\ Restored(r, n).consumed = r.consumed - n
           /\ Restored(r, n).status = IF r.status = "EXHAUSTED" THEN "ACTIVE" ELSE r.status
           /\ Restored(r, n).expired = r.expired
<1> DEFINE s == IF r.status = "EXHAUSTED" THEN "ACTIVE" ELSE r.status
           back == [status |-> s, epoch |-> r.epoch, consumed |-> r.consumed - n,
                    expired |-> r.expired]
           less == [status |-> r.status, epoch |-> r.epoch, consumed |-> r.consumed - n,
                    expired |-> r.expired]
<1>1. [r EXCEPT !.consumed = r.consumed - n] = less
  BY DEF AuthorityRecord
<1>2. [less EXCEPT !.status = s] = back /\ less.status = r.status
  OBVIOUS
<1>3. /\ back \in AuthorityRecord /\ back.consumed = r.consumed - n /\ back.status = s
      /\ back.expired = r.expired
  BY DEF AuthorityRecord, AuthorityStatus
<1> HIDE DEF less, back, s
<1>4. Restored(r, n) = [[r EXCEPT !.consumed = r.consumed - n] EXCEPT !.status = s]
  BY DEF Restored, s
<1> QED
  BY <1>1, <1>2, <1>3, <1>4 DEF s

LEMMA WritesTyped ==
    ASSUME TypeInv, NEW p \in Purchases, NEW r \in AttemptRecord, r.of \in Authorities,
           NEW c \in CheckoutState, Writes(p, r, c)
    PROVE  /\ MoneyTypes'
           /\ \A q \in Purchases : q # p => attempt'[q] = attempt[q]
           /\ attempt'[p].of = r.of /\ attempt'[p].status = r.status
           /\ attempt'[p].alloc = SettledAs(r.alloc, r.status)
<1> DEFINE alloc == SettledAs(r.alloc, r.status)
           r2 == [status |-> r.status, of |-> r.of, epoch |-> r.epoch, alloc |-> alloc,
                  outcome |-> r.outcome, grant |-> r.grant, closed |-> r.closed]
<1>1. AttemptShape(r)
  BY DEF AttemptRecord, AttemptShape
<1>2. [r EXCEPT !.alloc = alloc] = r2
  BY <1>1, AllocationChanged
<1>3. r2 \in AttemptRecord /\ r2.of = r.of /\ r2.status = r.status /\ r2.alloc = alloc
  BY DEF AttemptRecord, SettledAs
<1>4. attempt' = [attempt EXCEPT ![p] = r2] /\ version' = [version EXCEPT ![p] = c]
  BY <1>2 DEF Writes
<1>5. authority' \in [Authorities -> AuthorityRecord]
  <2>1. Restored(authority[r.of], Price[p]) \in AuthorityRecord
    BY RestoredFields, AmountAssumption DEF TypeInv, MoneyTypes
  <2>2. authority' \in {authority, [authority EXCEPT ![r.of] = Restored(authority[r.of], Price[p])]}
    BY DEF Writes
  <2> QED
    BY <2>1, <2>2 DEF TypeInv, MoneyTypes
<1> HIDE DEF r2, alloc
<1>6. attempt' \in [Purchases -> AttemptRecord] /\ version' \in [Purchases -> CheckoutState]
  BY <1>3, <1>4 DEF TypeInv, MoneyTypes
<1>7. \A q \in Purchases : attempt'[q] = IF q = p THEN r2 ELSE attempt[q]
  BY <1>4 DEF TypeInv, MoneyTypes
<1> QED
  BY <1>3, <1>5, <1>6, <1>7 DEF MoneyTypes, alloc

LEMMA MovedIsState ==
    ASSUME NEW s \in CheckoutState, NEW t \in CheckoutState
    PROVE  MovedIfLegal(s, t) \in CheckoutState
BY DEF MovedIfLegal

\* What a purchase's transaction writes.
Written(p, r) ==
    \E record \in AttemptRecord, c \in CheckoutState :
        /\ Writes(p, record, c)
        /\ record.of = r.of /\ record.alloc = r.alloc /\ record.status # "NONE"

LEMMA EvidenceWrites ==
    ASSUME NEW p \in Purchases, NEW r \in AttemptRecord, NEW checkout \in CheckoutState,
           NEW late, Evidence(p, r, checkout, late)
    PROVE  Written(p, r)
<1> DEFINE closes == late /\ ~r.closed /\ checkout \in {"AWAITING_PAYMENT", "PAYMENT_UNKNOWN"}
           judged == IF closes THEN "INVALIDATED_AWAITING_PAYMENT_RESULT" ELSE checkout
           stale == judged \in Retire \cup {"INVALIDATED_AWAITING_PAYMENT_RESULT"}
           failed == r.outcome = "failed"
           target == IF ~failed THEN IF stale THEN judged ELSE "PAID"
                     ELSE IF judged = "INVALIDATED_AWAITING_PAYMENT_RESULT" THEN "INVALIDATED"
                     ELSE "PAYMENT_FAILED"
           answer == IF failed THEN "FAILED" ELSE IF stale THEN "STALE_CAPTURE" ELSE "CAPTURED"
           shut == r.closed \/ closes
           r2 == [r EXCEPT !.closed = shut, !.status = answer]
           c2 == MovedIfLegal(judged, target)
<1>1. Writes(p, r2, c2)
  BY DEF Evidence
<1>2. answer \in {"FAILED", "STALE_CAPTURE", "CAPTURED"}
  OBVIOUS
<1>3. judged \in CheckoutState /\ target \in CheckoutState
  BY DEF CheckoutState
<1>4. c2 \in CheckoutState
  BY <1>3, MovedIsState
<1>5. shut \in BOOLEAN
  OBVIOUS
<1> HIDE DEF answer, c2, shut, closes
<1>6. r2 = [status |-> answer, of |-> r.of, epoch |-> r.epoch, alloc |-> r.alloc,
            outcome |-> r.outcome, grant |-> r.grant, closed |-> shut]
  <2> DEFINE open == [status |-> r.status, of |-> r.of, epoch |-> r.epoch, alloc |-> r.alloc,
                      outcome |-> r.outcome, grant |-> r.grant, closed |-> shut]
             new == [status |-> answer, of |-> r.of, epoch |-> r.epoch, alloc |-> r.alloc,
                     outcome |-> r.outcome, grant |-> r.grant, closed |-> shut]
  <2>1. [r EXCEPT !.closed = shut] = open
    BY DEF AttemptRecord
  <2>2. [open EXCEPT !.status = answer] = new
    OBVIOUS
  <2>3. r2 = [[r EXCEPT !.closed = shut] EXCEPT !.status = answer]
    OBVIOUS
  <2> QED
    BY <2>1, <2>2, <2>3
<1>7. r2 \in AttemptRecord
  BY <1>2, <1>5, <1>6 DEF AttemptRecord
<1>8. r2.of = r.of /\ r2.alloc = r.alloc /\ r2.status = answer
  BY <1>6
<1> HIDE DEF r2
<1> QED
  BY <1>1, <1>2, <1>4, <1>7, <1>8 DEF Written

LEMMA AtPurchase ==
    ASSUME TypeInv, NEW w \in Workers, Busy(w)
    PROVE  At(w) \in Purchases /\ worker[w].cmd \in queue
BY DEF TypeInv, WorkTypes, Busy, At

\* Each of the transactions of a worker that move money writes one purchase.
LEMMA WorkersWrite ==
    ASSUME IInv, TypeInv, NEW w \in Workers, RefuseDebit(w) \/ AcceptDebit(w) \/ ApplyOutcome(w)
    PROVE  /\ At(w) \in Purchases /\ attempt[At(w)].alloc = "HELD"
           /\ attempt[At(w)].of \in Authorities
           /\ Written(At(w), attempt[At(w)])
<1> DEFINE p == At(w)
           r == attempt[p]
<1>1. p \in Purchases /\ r.alloc = "HELD" /\ r.status # "NONE"
  <2>1. Busy(w)
    BY DEF RefuseDebit, AcceptDebit, ApplyOutcome, Handles
  <2>2. r.alloc = "HELD" /\ r.status # "NONE"
    BY DEF RefuseDebit, AcceptDebit, ApplyOutcome, Sends, Held
  <2> QED
    BY <2>1, <2>2, AtPurchase
<1>2. r \in AttemptRecord /\ r.of \in Authorities /\ version[p] \in CheckoutState /\ AttemptShape(r)
  BY <1>1 DEF TypeInv, MoneyTypes, AttemptOf, IInv, PurchaseInv, Sound
<1>3. CASE RefuseDebit(w)
  <2> DEFINE given == [r EXCEPT !.status = "FAILED"]
             c == MovedIfLegal(version[p], "PAYMENT_FAILED")
  <2>1. Writes(p, given, c)
    BY <1>3 DEF RefuseDebit
  <2>2. c \in CheckoutState
    BY <1>2, MovedIsState DEF CheckoutState
  <2>3. given = [status |-> "FAILED", of |-> r.of, epoch |-> r.epoch, alloc |-> r.alloc,
                 outcome |-> r.outcome, grant |-> r.grant, closed |-> r.closed]
    BY <1>2, StatusChanged
  <2>4. given \in AttemptRecord /\ given.of = r.of /\ given.alloc = r.alloc /\ given.status = "FAILED"
    BY <1>2, <2>3 DEF AttemptRecord
  <2> HIDE DEF given, c
  <2> QED
    BY <1>1, <1>2, <2>1, <2>2, <2>4 DEF Written
<1>4. CASE AcceptDebit(w)
  <2> DEFINE sent == [r EXCEPT !.grant = "CONSUMED"]
             unknown == [sent EXCEPT !.status = "UNKNOWN"]
             c == MovedIfLegal(version[p], "PAYMENT_UNKNOWN")
             checkout == MovedIfLegal(version[p], "AWAITING_PAYMENT")
  <2>1. c \in CheckoutState /\ checkout \in CheckoutState
    BY <1>2, MovedIsState DEF CheckoutState
  <2>2. sent = [status |-> r.status, of |-> r.of, epoch |-> r.epoch, alloc |-> r.alloc,
                outcome |-> r.outcome, grant |-> "CONSUMED", closed |-> r.closed]
    BY <1>2, GrantChanged
  <2>3. sent \in AttemptRecord /\ sent.of = r.of /\ sent.alloc = r.alloc
    BY <1>2, <2>2 DEF AttemptRecord
  <2>4. AttemptShape(sent)
    BY <2>2 DEF AttemptShape
  <2>5. Writes(p, unknown, c) \/ \E late : Evidence(p, sent, checkout, late)
    BY <1>4 DEF AcceptDebit
  <2> HIDE DEF sent, c, checkout
  <2>6. unknown = [status |-> "UNKNOWN", of |-> sent.of, epoch |-> sent.epoch, alloc |-> sent.alloc,
                   outcome |-> sent.outcome, grant |-> sent.grant, closed |-> sent.closed]
    BY <2>4, StatusChanged
  <2>7. /\ unknown \in AttemptRecord /\ unknown.of = sent.of /\ unknown.alloc = sent.alloc
        /\ unknown.status = "UNKNOWN"
    BY <2>3, <2>6 DEF AttemptRecord
  <2> HIDE DEF unknown
  <2>8. CASE Writes(p, unknown, c)
    BY <1>1, <1>2, <2>1, <2>3, <2>7, <2>8 DEF Written
  <2>9. CASE \E late : Evidence(p, sent, checkout, late)
    <3>1. Written(p, sent)
      BY <1>1, <2>1, <2>3, <2>9, EvidenceWrites
    <3> QED
      BY <1>1, <1>2, <2>3, <3>1 DEF Written
  <2> QED
    BY <2>5, <2>8, <2>9
<1>5. CASE ApplyOutcome(w)
  <2>1. Evidence(p, r, version[p], Due(p))
    BY <1>5 DEF ApplyOutcome
  <2> QED
    BY <1>1, <1>2, <2>1, EvidenceWrites
<1> QED
  BY <1>3, <1>4, <1>5

\* No allocation moves, and no attempt begins.
SameAllocations ==
    \A p \in Purchases :
        /\ attempt'[p].of = attempt[p].of /\ attempt'[p].alloc = attempt[p].alloc
        /\ attempt'[p].status = "NONE" <=> attempt[p].status = "NONE"

LEMMA CancelTyped ==
    ASSUME IInv, TypeInv, NEW p \in Purchases, Cancel(p)
    PROVE  MoneyTypes' /\ SameAllocations /\ UNCHANGED authority
<1> DEFINE r == attempt[p]
           s == IF cancelling[p] = "CREATED" THEN "EXPIRED" ELSE r.status
           g == IF r.grant = "ISSUED" THEN "REVOKED" ELSE r.grant
           half == [status |-> s, of |-> r.of, epoch |-> r.epoch, alloc |-> r.alloc,
                    outcome |-> r.outcome, grant |-> r.grant, closed |-> r.closed]
           gone == [status |-> s, of |-> r.of, epoch |-> r.epoch, alloc |-> r.alloc,
                    outcome |-> r.outcome, grant |-> g, closed |-> r.closed]
<1>1. attempt' = [attempt EXCEPT ![p] = gone]
  <2>1. [r EXCEPT !.status = s] = half
    BY StatusChanged DEF IInv, PurchaseInv, Sound
  <2>2. [half EXCEPT !.grant = g] = gone /\ half.grant = r.grant
    OBVIOUS
  <2>3. attempt' = [[attempt EXCEPT ![p].status = s] EXCEPT
                      ![p].grant = IF @ = "ISSUED" THEN "REVOKED" ELSE @]
    BY DEF Cancel
  <2> HIDE DEF half, gone, s
  <2>4. [attempt EXCEPT ![p].status = s] = [attempt EXCEPT ![p] = half]
    BY <2>1
  <2> QED
    BY <2>2, <2>3, <2>4, ZenonT(30) DEF IInv, Shaped
<1>2. gone \in AttemptRecord
  BY DEF TypeInv, MoneyTypes, AttemptRecord
<1>3. gone.of = r.of /\ gone.alloc = r.alloc /\ (gone.status = "NONE" <=> r.status = "NONE")
  BY DEF Cancel, Cancellable
<1> HIDE DEF gone
<1>4. \A q \in Purchases : attempt'[q] = IF q = p THEN gone ELSE attempt[q]
  BY <1>1 DEF TypeInv, MoneyTypes
<1>5. attempt' \in [Purchases -> AttemptRecord]
  BY <1>1, <1>2 DEF TypeInv, MoneyTypes
<1>6. version' \in [Purchases -> CheckoutState] /\ UNCHANGED authority
  BY DEF Cancel, CheckoutState, TypeInv, MoneyTypes
<1>7. MoneyTypes'
  BY <1>5, <1>6 DEF TypeInv, MoneyTypes
<1> QED
  BY <1>3, <1>4, <1>6, <1>7 DEF SameAllocations

LEMMA SimulateTyped ==
    ASSUME IInv, TypeInv, NEW p \in Scripted, NEW o \in Outcomes, Simulate(p, o)
    PROVE  MoneyTypes' /\ SameAllocations /\ UNCHANGED authority
<1> DEFINE r == attempt[p]
           new == [status |-> r.status, of |-> r.of, epoch |-> r.epoch, alloc |-> r.alloc,
                   outcome |-> o, grant |-> r.grant, closed |-> r.closed]
<1>1. p \in Purchases
  BY AmountAssumption
<1>2. [r EXCEPT !.outcome = o] = new
  BY <1>1, OutcomeChanged DEF IInv, PurchaseInv, Sound
<1>3. attempt' = [attempt EXCEPT ![p] = new]
  BY <1>2 DEF Simulate
<1>4. new \in AttemptRecord
  BY <1>1 DEF TypeInv, MoneyTypes, AttemptRecord
<1>5. new.of = r.of /\ new.alloc = r.alloc /\ new.status = r.status
  OBVIOUS
<1> HIDE DEF new
<1>6. \A q \in Purchases : attempt'[q] = IF q = p THEN new ELSE attempt[q]
  BY <1>3 DEF TypeInv, MoneyTypes
<1>7. attempt' \in [Purchases -> AttemptRecord] /\ UNCHANGED <<version, authority>>
  BY <1>3, <1>4 DEF TypeInv, MoneyTypes, Simulate
<1>8. MoneyTypes'
  BY <1>7 DEF TypeInv, MoneyTypes
<1> QED
  BY <1>5, <1>6, <1>7, <1>8 DEF SameAllocations

LEMMA EnterSafeModeTyped ==
    ASSUME IInv, TypeInv, NEW scope, EnterSafeMode(scope)
    PROVE  MoneyTypes' /\ SameAllocations /\ UNCHANGED authority
<1> DEFINE G(q) == IF attempt[q].grant = "ISSUED" THEN "REVOKED" ELSE attempt[q].grant
           N(q) == [status |-> attempt[q].status, of |-> attempt[q].of,
                    epoch |-> attempt[q].epoch, alloc |-> attempt[q].alloc,
                    outcome |-> attempt[q].outcome, grant |-> G(q), closed |-> attempt[q].closed]
<1>1. UNCHANGED <<authority, version>>
  BY DEF EnterSafeMode, Switch
<1>2. CASE attempt' = attempt
  BY <1>1, <1>2 DEF SameAllocations, TypeInv, MoneyTypes
<1>3. CASE attempt' = [q \in Purchases |-> [attempt[q] EXCEPT !.grant = G(q)]]
  <2>1. \A q \in Purchases : attempt'[q] = N(q)
    BY <1>3, GrantChanged DEF IInv, PurchaseInv, Sound
  <2>2. \A q \in Purchases :
          /\ N(q).of = attempt[q].of /\ N(q).alloc = attempt[q].alloc
          /\ N(q).status = attempt[q].status
    OBVIOUS
  <2>3. \A q \in Purchases : N(q) \in AttemptRecord
    BY DEF TypeInv, MoneyTypes, AttemptRecord
  <2> HIDE DEF N
  <2>4. attempt' \in [Purchases -> AttemptRecord]
    BY <1>3, <2>1, <2>3
  <2> QED
    BY <1>1, <2>1, <2>2, <2>4 DEF SameAllocations, TypeInv, MoneyTypes
<1> QED
  BY <1>2, <1>3 DEF EnterSafeMode

\* What becomes of an authority when no allocation moves.
SamePermission ==
    \A a \in Authorities :
        /\ authority'[a].consumed = authority[a].consumed
        /\ \/ authority'[a].status \in {authority[a].status, "REVOKED"}
           \/ authority[a].status = "NONE" /\ authority'[a].status = "ACTIVE"

LEMMA AuthorityTyped ==
    ASSUME IInv, TypeInv, NEW a \in Authorities,
           GrantAuthority(a) \/ Revoke(a) \/ AuthorityExpires(a)
    PROVE  MoneyTypes' /\ SamePermission /\ UNCHANGED attempt
<1> DEFINE r == authority[a]
           R(s, n, b) == [status |-> s, epoch |-> n, consumed |-> r.consumed, expired |-> b]
<1>0. AuthorityShape(r) /\ r \in AuthorityRecord
  BY DEF IInv, Shaped, TypeInv, MoneyTypes
<1>1. PICK s \in AuthorityStatus, n \in Nat, b \in BOOLEAN :
        /\ authority' = [authority EXCEPT ![a] = R(s, n, b)]
        /\ s \in {r.status, "REVOKED"} \/ (r.status = "NONE" /\ s = "ACTIVE")
  <2>0. /\ r.status \in AuthorityStatus /\ r.epoch \in Nat /\ r.expired \in BOOLEAN
        /\ r.epoch + 1 \in Nat
    BY <1>0 DEF AuthorityRecord
  <2>1. CASE GrantAuthority(a)
    <3>1. [r EXCEPT !.status = "ACTIVE"] = R("ACTIVE", r.epoch, r.expired)
      BY <1>0 DEF AuthorityShape
    <3>2. authority' = [authority EXCEPT ![a] = R("ACTIVE", r.epoch, r.expired)]
      BY <2>1, <3>1 DEF GrantAuthority
    <3> QED
      BY <2>0, <2>1, <3>2 DEF GrantAuthority, AuthorityStatus
  <2>2. CASE Revoke(a)
    <3>1. /\ [r EXCEPT !.status = "REVOKED"] = R("REVOKED", r.epoch, r.expired)
          /\ [R("REVOKED", r.epoch, r.expired) EXCEPT !.epoch = r.epoch + 1]
               = R("REVOKED", r.epoch + 1, r.expired)
      BY <1>0 DEF AuthorityShape
    <3>2. authority' = [authority EXCEPT ![a] = R("REVOKED", r.epoch + 1, r.expired)]
      BY <2>2, <3>1 DEF Revoke, IInv, Shaped
    <3> QED
      BY <2>0, <3>2 DEF AuthorityStatus
  <2>3. CASE AuthorityExpires(a)
    <3>1. [r EXCEPT !.expired = TRUE] = R(r.status, r.epoch, TRUE)
      BY <1>0, AuthorityLapsed
    <3>2. authority' = [authority EXCEPT ![a] = R(r.status, r.epoch, TRUE)]
      BY <2>3, <3>1 DEF AuthorityExpires
    <3> QED
      BY <2>0, <3>2
  <2> QED
    BY <2>1, <2>2, <2>3
<1>2. /\ R(s, n, b) \in AuthorityRecord
      /\ R(s, n, b).consumed = r.consumed /\ R(s, n, b).status = s
  BY <1>0 DEF AuthorityRecord
<1> HIDE DEF R
<1>3. \A c \in Authorities : authority'[c] = IF c = a THEN R(s, n, b) ELSE authority[c]
  BY <1>1 DEF TypeInv, MoneyTypes
<1>4. SamePermission
  BY <1>1, <1>2, <1>3 DEF SamePermission
<1>5. authority' \in [Authorities -> AuthorityRecord]
  BY <1>1, <1>2 DEF TypeInv, MoneyTypes
<1>6. UNCHANGED <<version, attempt>>
  BY DEF GrantAuthority, Revoke, AuthorityExpires
<1> QED
  BY <1>4, <1>5, <1>6 DEF TypeInv, MoneyTypes

LEMMA AdmitWrites ==
    ASSUME IInv, TypeInv, NEW p \in Purchases, Admit(p)
    PROVE  LET b == paying[p].of
               taken == authority[b].consumed + Price[p]
           IN  /\ MoneyTypes' /\ b \in Authorities
               /\ attempt[p].status = "NONE" /\ attempt'[p].status = "CREATED"
               /\ attempt'[p].of = b /\ attempt'[p].alloc = "HELD"
               /\ \A q \in Purchases : q # p => attempt'[q] = attempt[q]
               /\ \A a \in Authorities : a # b => authority'[a] = authority[a]
               /\ authority[b].status = "ACTIVE" /\ taken <= Ceiling
               /\ authority'[b].consumed = taken
               /\ authority'[b].status = IF Exhausts(taken) THEN "EXHAUSTED" ELSE "ACTIVE"
               /\ authority'[b].expired = authority[b].expired
<1> DEFINE b == paying[p].of
           taken == authority[b].consumed + Price[p]
           s == IF Exhausts(taken) THEN "EXHAUSTED" ELSE "ACTIVE"
           full == [status |-> s, epoch |-> authority[b].epoch, consumed |-> taken,
                    expired |-> authority[b].expired]
           half == [status |-> "ACTIVE", epoch |-> authority[b].epoch,
                    consumed |-> taken, expired |-> authority[b].expired]
           new == [status |-> "CREATED", of |-> b, epoch |-> paying[p].epoch, alloc |-> "HELD",
                   outcome |-> "captured", grant |-> "ISSUED", closed |-> FALSE]
<1>1. b \in Authorities /\ authority[b].status = "ACTIVE" /\ taken <= Ceiling
  BY DEF Admit, Decides, Permitted, Covers, TypeInv, PayOf
<1>2. attempt[p].status = "NONE"
  BY DEF Admit, Decides, IInv, PurchaseInv, Reviewed
<1>3. /\ new \in AttemptRecord /\ new.status = "CREATED" /\ new.of = b /\ new.alloc = "HELD"
  BY <1>1 DEF AttemptRecord, Outcomes, TypeInv, RequestTypes
<1>4. attempt' = [attempt EXCEPT ![p] = new] /\ version' = [version EXCEPT ![p] = "EXECUTION_PENDING"]
  BY DEF Admit
<1> HIDE DEF new
<1>5. /\ attempt' \in [Purchases -> AttemptRecord]
      /\ \A q \in Purchases : attempt'[q] = IF q = p THEN new ELSE attempt[q]
  BY <1>3, <1>4 DEF TypeInv, MoneyTypes
<1>6. version' \in [Purchases -> CheckoutState]
  BY <1>4 DEF TypeInv, MoneyTypes, CheckoutState
<1>7. authority[b] \in AuthorityRecord /\ Price[p] \in Nat
  BY <1>1, AmountAssumption DEF TypeInv, MoneyTypes
<1>8. /\ full \in AuthorityRecord /\ full.consumed = taken /\ full.status = s
      /\ full.expired = authority[b].expired
  <2>1. taken \in Int
    BY <1>7 DEF AuthorityRecord
  <2> HIDE DEF taken
  <2> QED
    BY <1>7, <2>1 DEF AuthorityRecord, AuthorityStatus
<1>9. authority' = [authority EXCEPT ![b] = full]
  <2>1. [authority[b] EXCEPT !.consumed = taken] = half
    BY <1>1, <1>7 DEF AuthorityRecord
  <2>2. [half EXCEPT !.status = s] = full /\ half.status = "ACTIVE"
    OBVIOUS
  <2>3. authority' = [[authority EXCEPT ![b].consumed = taken] EXCEPT
                        ![b].status = IF Exhausts(taken) THEN "EXHAUSTED" ELSE @]
    BY DEF Admit
  <2> HIDE DEF half, full, taken
  <2>4. [authority EXCEPT ![b].consumed = taken] = [authority EXCEPT ![b] = half]
    BY <2>1
  <2>5. authority' = [authority EXCEPT ![b] =
                        [half EXCEPT !.status = IF Exhausts(taken) THEN "EXHAUSTED" ELSE half.status]]
    BY <1>1, <2>3, <2>4 DEF TypeInv, MoneyTypes
  <2> QED
    BY <2>2, <2>5
<1> HIDE DEF full, taken
<1>10. /\ authority' \in [Authorities -> AuthorityRecord]
       /\ \A a \in Authorities : authority'[a] = IF a = b THEN full ELSE authority[a]
  BY <1>8, <1>9 DEF TypeInv, MoneyTypes
<1> QED
  BY <1>1, <1>2, <1>3, <1>5, <1>6, <1>8, <1>10 DEF MoneyTypes, taken

\* A swept attempt keeps its authority; an unsent one gives its allocation back.
LEMMA SweptFields ==
    ASSUME NEW p, NEW r \in AttemptRecord
    PROVE  /\ GrantSwept(p, r) \in AttemptRecord
           /\ GrantSwept(p, r).of = r.of /\ GrantSwept(p, r).alloc = r.alloc
           /\ GrantSwept(p, r).status = r.status
<1> DEFINE g == IF r.grant = "ISSUED" /\ Due(p)
                THEN IF Closes(p) THEN "REVOKED" ELSE "EXPIRED" ELSE r.grant
           new == [status |-> r.status, of |-> r.of, epoch |-> r.epoch, alloc |-> r.alloc,
                   outcome |-> r.outcome, grant |-> g, closed |-> r.closed]
<1>0. AttemptShape(r)
  BY DEF AttemptRecord, AttemptShape
<1>1. GrantSwept(p, r) = new
  BY <1>0, GrantChanged DEF GrantSwept
<1>2. g \in {"NONE", "ISSUED", "CONSUMED", "REVOKED", "EXPIRED"}
  BY DEF AttemptRecord
<1> HIDE DEF g
<1>3. new \in AttemptRecord /\ new.of = r.of /\ new.alloc = r.alloc /\ new.status = r.status
  BY <1>2 DEF AttemptRecord
<1> QED
  BY <1>1, <1>3

LEMMA ClosedFields ==
    ASSUME NEW r \in AttemptRecord, Sound(r), r.status \in OpenStatuses
    PROVE  /\ Closed(r) \in AttemptRecord /\ Closed(r).of = r.of /\ Closed(r).status # "NONE"
           /\ r.status = "CREATED" => Closed(r).alloc = "RELEASED"
           /\ r.status # "CREATED" => Closed(r).alloc = r.alloc
<1>0. PICK yes \in BOOLEAN : yes = TRUE
  OBVIOUS
<1> DEFINE shut == [status |-> r.status, of |-> r.of, epoch |-> r.epoch, alloc |-> r.alloc,
                    outcome |-> r.outcome, grant |-> r.grant, closed |-> yes]
           ended == [status |-> "EXPIRED", of |-> r.of, epoch |-> r.epoch, alloc |-> r.alloc,
                     outcome |-> r.outcome, grant |-> r.grant, closed |-> yes]
           back == [status |-> "EXPIRED", of |-> r.of, epoch |-> r.epoch, alloc |-> "RELEASED",
                    outcome |-> r.outcome, grant |-> r.grant, closed |-> yes]
<1>1. [r EXCEPT !.closed = TRUE] = shut
  BY <1>0, ClosedChanged DEF Sound
<1>2. [shut EXCEPT !.status = "EXPIRED"] = ended
  OBVIOUS
<1>3. CASE r.status = "CREATED"
  <2>1. SettledAs(r.alloc, "EXPIRED") = "RELEASED"
    BY <1>3 DEF Sound, SettledAs
  <2>2. [ended EXCEPT !.alloc = "RELEASED"] = back
    OBVIOUS
  <2>3. Closed(r) = [[[r EXCEPT !.closed = TRUE] EXCEPT !.status = "EXPIRED"]
                       EXCEPT !.alloc = SettledAs(@, "EXPIRED")]
    BY <1>3 DEF Closed
  <2>4. Closed(r) = [ended EXCEPT !.alloc = SettledAs(ended.alloc, "EXPIRED")] /\ ended.alloc = r.alloc
    BY <1>1, <1>2, <2>3
  <2> HIDE DEF ended, shut
  <2>5. Closed(r) = back
    BY <2>1, <2>2, <2>4
  <2>6. back \in AttemptRecord /\ back.of = r.of /\ back.status = "EXPIRED" /\ back.alloc = "RELEASED"
    BY DEF AttemptRecord
  <2> QED
    BY <1>3, <2>5, <2>6
<1>4. CASE r.status = "UNKNOWN"
  <2>1. Closed(r) = shut
    BY <1>1, <1>4 DEF Closed
  <2>2. shut \in AttemptRecord /\ shut.of = r.of /\ shut.alloc = r.alloc /\ shut.status = "UNKNOWN"
    BY <1>4 DEF AttemptRecord
  <2> QED
    BY <1>4, <2>1, <2>2
<1> QED
  BY <1>3, <1>4 DEF OpenStatuses

LEMMA TotalIsSum ==
    ASSUME NEW S PROVE Total(S) = Sum(Price, S)
BY DEF Total, Sum, MapThenSumSet, MapThenFoldSet

\* The allocations a sweep gives back to authority a.
Ended == {p \in Purchases : Closes(p) /\ attempt[p].status = "CREATED"}
Given(a) == {p \in Ended : attempt[p].of = a}

LEMMA SweepWrites ==
    ASSUME IInv, TypeInv, CommitSweep
    PROVE  /\ MoneyTypes'
           /\ \A q \in Purchases :
                /\ attempt'[q].of = attempt[q].of
                /\ attempt'[q].alloc = IF q \in Ended THEN "RELEASED" ELSE attempt[q].alloc
                /\ q \in Ended => attempt[q].alloc = "HELD"
                /\ attempt'[q].status = "NONE" <=> attempt[q].status = "NONE"
           /\ \A a \in Authorities :
                authority'[a] = IF Given(a) = {} THEN authority[a]
                                ELSE Restored(authority[a], Total(Given(a)))
<1> DEFINE R(q) == IF Closes(q) THEN Closed(attempt[q]) ELSE attempt[q]
           V(q) == IF ~Closes(q) THEN version[q]
                   ELSE IF attempt[q].status = "CREATED" THEN "CANCELLED"
                   ELSE MovedIfLegal(version[q], "INVALIDATED_AWAITING_PAYMENT_RESULT")
           after == [q \in Purchases |-> GrantSwept(q, R(q))]
           Back(a) == {q \in Purchases : /\ after[q].of = a /\ attempt[q].alloc = "HELD"
                                         /\ after[q].alloc = "RELEASED"}
<1>1. /\ attempt' = after /\ version' = [q \in Purchases |-> V(q)]
      /\ authority' = [a \in Authorities |->
                         IF Back(a) = {} THEN authority[a]
                         ELSE Restored(authority[a], Total(Back(a)))]
  BY DEF CommitSweep
<1>2. ASSUME NEW q \in Purchases
      PROVE  /\ V(q) \in CheckoutState
             /\ after[q] \in AttemptRecord /\ after[q].of = attempt[q].of
             /\ after[q].alloc = IF q \in Ended THEN "RELEASED" ELSE attempt[q].alloc
             /\ q \in Ended => attempt[q].alloc = "HELD"
             /\ after[q].status = "NONE" <=> attempt[q].status = "NONE"
  <2>1. /\ attempt[q] \in AttemptRecord /\ version[q] \in CheckoutState /\ Sound(attempt[q])
        /\ q \in Ended <=> Closes(q) /\ attempt[q].status = "CREATED"
    BY DEF TypeInv, MoneyTypes, IInv, PurchaseInv, Ended
  <2>2. V(q) \in CheckoutState
    BY <2>1, MovedIsState DEF CheckoutState
  <2>3. Closes(q) => attempt[q].status \in OpenStatuses
    BY DEF Closes, OpenStatuses
  <2>4. /\ R(q) \in AttemptRecord /\ R(q).of = attempt[q].of
        /\ R(q).alloc = IF q \in Ended THEN "RELEASED" ELSE attempt[q].alloc
        /\ R(q).status = "NONE" <=> attempt[q].status = "NONE"
    BY <2>1, <2>3, ClosedFields DEF OpenStatuses
  <2>5. q \in Ended => attempt[q].alloc = "HELD"
    BY <2>1 DEF Sound
  <2> HIDE DEF R, V
  <2>6. after[q] = GrantSwept(q, R(q))
    OBVIOUS
  <2> QED
    BY <2>2, <2>4, <2>5, <2>6, SweptFields
<1>3. \A a : Back(a) = Given(a)
  <2> HIDE DEF after
  <2>1. \A q \in Ended : q \in Purchases
    BY DEF Ended
  <2> QED
    BY <1>2, <2>1 DEF Given
<1> HIDE DEF after, V, Back
<1>4. \A a \in Authorities :
        authority'[a] = IF Given(a) = {} THEN authority[a]
                        ELSE Restored(authority[a], Total(Given(a)))
  BY <1>1, <1>3
<1>5. \A a \in Authorities : authority'[a] \in AuthorityRecord
  <2> SUFFICES ASSUME NEW a \in Authorities PROVE authority'[a] \in AuthorityRecord
    OBVIOUS
  <2>1. Given(a) \subseteq Allocated /\ Given(a) \subseteq Purchases
    BY <1>2 DEF Given, Ended, Allocated
  <2>2. IsFiniteSet(Given(a))
    BY <2>1, FS_Subset DEF TypeInv
  <2>3. \A x \in Given(a) : Price[x] \in Int
    BY <2>1, AmountAssumption
  <2>4. Total(Given(a)) \in Int
    BY <2>2, <2>3, SumInt, TotalIsSum
  <2> QED
    BY <1>4, <2>4, RestoredFields DEF TypeInv, MoneyTypes
<1>6. MoneyTypes'
  <2>1. authority' \in [Authorities -> AuthorityRecord]
    BY <1>1, <1>5
  <2>2. version' \in [Purchases -> CheckoutState]
    BY <1>1, <1>2
  <2>3. attempt' \in [Purchases -> AttemptRecord]
    BY <1>1, <1>2 DEF after
  <2> QED
    BY <2>1, <2>2, <2>3 DEF MoneyTypes
<1> QED
  BY <1>1, <1>2, <1>4, <1>6

-----------------------------------------------------------------------------
\* The types are kept: what a step does to the money.

MoneyKept == MoneyTypes /\ AttemptOf /\ IsFiniteSet(Allocated)
MoneyStep ==
    /\ MoneyKept'
    /\ \A q \in Purchases : attempt'[q].status = "NONE" => attempt[q].status = "NONE"

LEMMA MoneySame ==
    ASSUME TypeInv, UNCHANGED money PROVE MoneyStep
BY DEF TypeInv, MoneyStep, MoneyKept, MoneyTypes, AttemptOf, Allocated, money

LEMMA OneAttempt ==
    ASSUME TypeInv, NEW p \in Purchases, MoneyTypes', attempt'[p].of \in Authorities,
           attempt'[p].status # "NONE",
           \A q \in Purchases : q # p => attempt'[q] = attempt[q]
    PROVE  MoneyStep
<1>1. Allocated' \subseteq Allocated \cup {p}
  BY DEF Allocated
<1>2. IsFiniteSet(Allocated \cup {p})
  BY FS_AddElement DEF TypeInv
<1>3. IsFiniteSet(Allocated')
  BY <1>1, <1>2, FS_Subset
<1>4. AttemptOf'
  BY DEF TypeInv, AttemptOf
<1> QED
  BY <1>3, <1>4 DEF MoneyStep, MoneyKept, Allocated

LEMMA SameAttempts ==
    ASSUME TypeInv, MoneyTypes',
           \A q \in Purchases :
             /\ attempt'[q].of = attempt[q].of
             /\ attempt'[q].alloc = "NONE" <=> attempt[q].alloc = "NONE"
             /\ attempt'[q].status = "NONE" <=> attempt[q].status = "NONE"
    PROVE  MoneyStep
<1>1. Allocated' = Allocated
  BY DEF Allocated
<1>2. AttemptOf'
  BY DEF TypeInv, AttemptOf
<1> QED
  BY <1>1, <1>2 DEF MoneyStep, MoneyKept, TypeInv

LEMMA WorkersKeepMoney ==
    ASSUME IInv, TypeInv, NEW w \in Workers, WorkerStep(w) PROVE MoneyStep
<1>1. CASE RefuseDebit(w) \/ AcceptDebit(w) \/ ApplyOutcome(w)
  <2> DEFINE p == At(w)
  <2>1. p \in Purchases /\ attempt[p].of \in Authorities /\ Written(p, attempt[p])
    BY <1>1, WorkersWrite
  <2>2. PICK record \in AttemptRecord, c \in CheckoutState :
          Writes(p, record, c) /\ record.of = attempt[p].of /\ record.status # "NONE"
    BY <2>1 DEF Written
  <2> HIDE DEF p
  <2>3. /\ MoneyTypes' /\ attempt'[p].of \in Authorities /\ attempt'[p].status # "NONE"
        /\ \A q \in Purchases : q # p => attempt'[q] = attempt[q]
    BY <2>1, <2>2, WritesTyped
  <2> QED
    BY <2>1, <2>3, OneAttempt
<1>2. CASE \E p \in Purchases : Take(w, p)
  BY <1>2, MoneySame DEF Take
<1>3. CASE WaitWithVersion(w) \/ NothingToDo(w) \/ AskAgain(w) \/ Bury(w) \/ Crash(w)
           \/ WorkerVictim(w)
  BY <1>3, MoneySame DEF WaitWithVersion, NothingToDo, AskAgain, Bury, Crash, WorkerVictim
<1> QED
  BY <1>1, <1>2, <1>3 DEF WorkerStep, Handle

LEMMA BuyersKeepMoney ==
    ASSUME IInv, TypeInv, NEW p \in Purchases, BuyerStep(p) PROVE MoneyStep
<1>1. CASE Admit(p)
  <2>1. /\ MoneyTypes' /\ attempt'[p].of \in Authorities /\ attempt'[p].status # "NONE"
        /\ \A q \in Purchases : q # p => attempt'[q] = attempt[q]
    BY <1>1, AdmitWrites
  <2> QED
    BY <2>1, OneAttempt
<1>2. CASE Cancel(p)
  BY <1>2, CancelTyped, SameAttempts DEF SameAllocations
<1>3. CASE Deny(p)
  <2>1. MoneyTypes' /\ UNCHANGED attempt
    BY <1>3 DEF Deny, TypeInv, MoneyTypes, CheckoutState
  <2> QED
    BY <2>1, SameAttempts
<1>4. CASE (\E a \in Authorities : BeginPay(p, a)) \/ PayRefused(p) \/ CancelReads(p)
           \/ CancelRefused(p)
  BY <1>4, MoneySame DEF BeginPay, PayRefused, CancelReads, CancelRefused
<1> QED
  BY <1>1, <1>2, <1>3, <1>4 DEF BuyerStep

LEMMA OthersKeepMoney ==
    ASSUME IInv, TypeInv, SweepStep \/ Surroundings PROVE MoneyStep
<1>1. CASE CommitSweep
  BY <1>1, SweepWrites, SameAttempts
<1>2. CASE \E p \in Scripted, o \in Outcomes : Simulate(p, o)
  BY <1>2, SimulateTyped, SameAttempts DEF SameAllocations
<1>3. CASE \E s \in {"tenant", "global"} : EnterSafeMode(s)
  BY <1>3, EnterSafeModeTyped, SameAttempts DEF SameAllocations
<1>4. CASE \E a \in Authorities : GrantAuthority(a) \/ Revoke(a) \/ AuthorityExpires(a)
  BY <1>4, AuthorityTyped, SameAttempts
<1>5. CASE (\E p \in Purchases : StartSweep(p) \/ LockNext(p)) \/ SweepVictim
  BY <1>5, MoneySame DEF StartSweep, LockNext, Locks, SweepVictim
<1>6. CASE \E p \in Purchases : WindowEnds(p)
  BY <1>6, MoneySame DEF WindowEnds
<1>7. CASE \E s \in {"tenant", "global"} : LeaveSafeMode(s)
  BY <1>7, MoneySame DEF LeaveSafeMode, Switch, money
<1> QED
  BY <1>1, <1>2, <1>3, <1>4, <1>5, <1>6, <1>7 DEF SweepStep, Surroundings

-----------------------------------------------------------------------------
\* The types are kept: requests, commands, locks and bounds.

LEMMA RequestsKept ==
    ASSUME TypeInv, Next PROVE RequestTypes' /\ PayOf'
<1>1. CASE UNCHANGED requests
  BY <1>1 DEF requests, TypeInv, RequestTypes, PayOf
<1>2. ASSUME NEW p \in Purchases, NEW a \in Authorities, BeginPay(p, a)
      PROVE  RequestTypes' /\ PayOf'
  <2> DEFINE r == [of |-> a, epoch |-> authority[a].epoch, late |-> authority[a].expired]
  <2>1. /\ r \in [of : Authorities \cup {0}, epoch : Nat, late : BOOLEAN]
        /\ r.of \in Authorities
    BY DEF TypeInv, MoneyTypes, AuthorityRecord
  <2>2. paying' = [paying EXCEPT ![p] = r] /\ UNCHANGED cancelling
    BY <1>2 DEF BeginPay
  <2> HIDE DEF r
  <2> QED
    BY <2>1, <2>2 DEF TypeInv, RequestTypes, PayOf
<1>3. ASSUME NEW p \in Purchases, PayRefused(p) \/ Deny(p) \/ Admit(p)
      PROVE  RequestTypes' /\ PayOf'
  <2>1. paying' = [paying EXCEPT ![p] = NotPaying] /\ UNCHANGED cancelling
    BY <1>3 DEF PayRefused, Deny, Admit
  <2>2. NotPaying \in [of : Authorities \cup {0}, epoch : Nat, late : BOOLEAN]
    BY DEF NotPaying
  <2> QED
    BY <2>1, <2>2 DEF TypeInv, RequestTypes, PayOf
<1>4. ASSUME NEW p \in Purchases, CancelReads(p) \/ CancelRefused(p) \/ Cancel(p)
      PROVE  RequestTypes' /\ PayOf'
  <2>1. UNCHANGED paying /\ \E c \in {"idle", "NONE", "CREATED", "UNKNOWN"} :
          cancelling' = [cancelling EXCEPT ![p] = c]
    BY <1>4 DEF CancelReads, CancelRefused, Cancel, OpenStatuses
  <2> QED
    BY <2>1 DEF TypeInv, RequestTypes, PayOf
<1>5. ASSUME NEW p \in Purchases, BuyerStep(p) PROVE RequestTypes' /\ PayOf'
  BY <1>2, <1>3, <1>4, <1>5 DEF BuyerStep
<1>6. (\E w \in Workers : WorkerStep(w)) \/ SweepStep \/ Surroundings => UNCHANGED requests
  <2>1. (\E w \in Workers : WorkerStep(w)) => UNCHANGED requests
    BY DEF WorkerStep, Handle, Take, WaitWithVersion, NothingToDo, RefuseDebit, AcceptDebit,
           AskAgain, ApplyOutcome, Bury, Crash, WorkerVictim
  <2>2. SweepStep => UNCHANGED requests
    BY DEF SweepStep, StartSweep, LockNext, Locks, CommitSweep, SweepVictim
  <2>3. Surroundings => UNCHANGED requests
    BY DEF Surroundings, WindowEnds, Simulate, EnterSafeMode, LeaveSafeMode, Switch,
           GrantAuthority, Revoke, AuthorityExpires
  <2> QED
    BY <2>1, <2>2, <2>3
<1> QED
  BY <1>1, <1>5, <1>6 DEF Next

Commands == Purchases \X (0..IF Rounds = 0 THEN 1 ELSE Rounds) \X (0..MaxFixtures)

Holding(c, late, locked) == [cmd |-> c, late |-> late, locked |-> locked]

LEMMA HoldingFields ==
    ASSUME NEW c, NEW late, NEW locked
    PROVE  /\ Holding(c, late, locked).cmd = c
           /\ Holding(c, late, locked).late = late
           /\ Holding(c, late, locked).locked = locked
BY DEF Holding

\* One worker changes what it has.
LEMMA OneWorker ==
    ASSUME TypeInv, NEW w \in Workers, NEW c, NEW late \in BOOLEAN, NEW locked \in BOOLEAN,
           worker' = [worker EXCEPT ![w] = Holding(c, late, locked)],
           queue' \subseteq Commands, c \in {<<>>} \cup queue', c = <<>> => ~locked,
           \A v \in Workers : v # w /\ Busy(v) => worker[v].cmd \in queue' /\ worker[v].cmd # c
    PROVE  WorkTypes' /\ Apart'
<1> DEFINE after == Holding(c, late, locked)
           Records(q) == [cmd : {<<>>} \cup q, late : BOOLEAN, locked : BOOLEAN]
<1>1. \A v \in Workers : worker'[v] = IF v = w THEN after ELSE worker[v]
  BY DEF TypeInv, WorkTypes
<1>2. after \in Records(queue')
  BY DEF Holding
<1>3. ASSUME NEW v \in Workers, v # w PROVE worker[v] \in Records(queue')
  <2>1. worker[v] \in Records(queue)
    BY DEF TypeInv, WorkTypes
  <2>2. worker[v].cmd \in {<<>>} \cup queue'
    BY <1>3 DEF Busy
  <2> QED
    BY <2>1, <2>2
<1>4. worker' \in [Workers -> Records(queue')]
  <2>1. worker' = [v \in Workers |-> worker'[v]]
    BY DEF TypeInv, WorkTypes
  <2> HIDE DEF Records, after
  <2> QED
    BY <1>1, <1>2, <1>3, <2>1
<1>5. after.cmd = c /\ after.locked = locked
  BY HoldingFields
<1> HIDE DEF after
<1>6. Apart'
  <2>1. ASSUME NEW v \in Workers, NEW u \in Workers, Busy(v)', worker'[v].cmd = worker'[u].cmd
        PROVE  v = u
    BY <1>1, <1>5, <2>1 DEF TypeInv, Apart, Busy
  <2>2. ASSUME NEW v \in Workers, Locked(v)' PROVE Busy(v)'
    BY <1>1, <1>5, <2>2 DEF TypeInv, Apart, Busy, Locked
  <2> QED
    BY <2>1, <2>2 DEF Apart
<1> QED
  BY <1>4, <1>6 DEF WorkTypes, Commands

LEMMA QueueGrows ==
    ASSUME TypeInv, NEW more, more \subseteq Commands, queue' = queue \cup more, UNCHANGED worker
    PROVE  WorkTypes' /\ Apart'
BY DEF TypeInv, WorkTypes, Apart, Busy, Locked, Commands

LEMMA QueuedAreCommands == ASSUME TypeInv PROVE queue \subseteq Commands
BY DEF TypeInv, WorkTypes, Commands

LEMMA NobodyElseHas ==
    ASSUME TypeInv, NEW w \in Workers, NEW v \in Workers, v # w, Busy(v)
    PROVE  worker[v].cmd \in queue /\ worker[v].cmd # worker[w].cmd
BY DEF TypeInv, WorkTypes, Apart, Busy

\* A worker lets go of its command, which may be done.
LEMMA WorkerFrees ==
    ASSUME TypeInv, NEW w \in Workers, NEW more, more \subseteq Commands,
           worker' = [worker EXCEPT ![w] = IdleWorker],
           queue' \in {queue \cup more, (queue \ {worker[w].cmd}) \cup more}
    PROVE  WorkTypes' /\ Apart'
<1>1. queue' \subseteq Commands
  BY QueuedAreCommands
<1>2. worker' = [worker EXCEPT ![w] = Holding(<<>>, FALSE, FALSE)]
  BY DEF IdleWorker, Holding
<1>3. ASSUME NEW v \in Workers, v # w, Busy(v)
      PROVE  worker[v].cmd \in queue' /\ worker[v].cmd # <<>>
  BY <1>3, NobodyElseHas DEF Busy
<1> QED
  BY <1>1, <1>2, <1>3, OneWorker

LEMMA TakeKeepsWork ==
    ASSUME TypeInv, NEW w \in Workers, NEW p \in Purchases, Take(w, p)
    PROVE  WorkTypes' /\ Apart'
<1> DEFINE late == authority[attempt[p].of].expired
<1>1. PICK cmd \in queue : /\ cmd[1] = p /\ \A v \in Workers : worker[v].cmd # cmd
                           /\ worker' = [worker EXCEPT ![w] = Holding(cmd, late, FALSE)]
  BY DEF Take, Holding
<1>2. attempt[p].of \in Authorities
  BY <1>1 DEF TypeInv, Asked, AttemptOf
<1>3. late \in BOOLEAN
  BY <1>2 DEF TypeInv, MoneyTypes, AuthorityRecord
<1> HIDE DEF late
<1>4. UNCHANGED queue /\ queue' \subseteq Commands
  BY QueuedAreCommands DEF Take
<1>5. \A v \in Workers : v # w /\ Busy(v) => worker[v].cmd \in queue' /\ worker[v].cmd # cmd
  BY <1>1, <1>4, NobodyElseHas
<1> QED
  BY <1>1, <1>3, <1>4, <1>5, OneWorker

LEMMA WaitKeepsWork ==
    ASSUME TypeInv, NEW w \in Workers, WaitWithVersion(w)
    PROVE  WorkTypes' /\ Apart'
<1> DEFINE c == worker[w].cmd
           late == worker[w].late
<1>1. /\ worker[w] \in [cmd : {<<>>} \cup queue, late : BOOLEAN, locked : BOOLEAN]
      /\ UNCHANGED queue
  BY DEF TypeInv, WorkTypes, WaitWithVersion
<1>2. PICK yes \in BOOLEAN : yes = TRUE
  OBVIOUS
<1>3. [worker[w] EXCEPT !.locked = yes] = Holding(c, late, yes)
  BY <1>1 DEF Holding
<1>4. worker' = [worker EXCEPT ![w] = Holding(c, late, yes)]
  BY <1>2, <1>3 DEF WaitWithVersion
<1>5. late \in BOOLEAN /\ c \in {<<>>} \cup queue' /\ c # <<>>
  BY <1>1 DEF WaitWithVersion, Busy
<1>6. \A v \in Workers : v # w /\ Busy(v) => worker[v].cmd \in queue' /\ worker[v].cmd # c
  BY <1>1, NobodyElseHas
<1>7. queue' \subseteq Commands
  BY <1>1, QueuedAreCommands
<1> HIDE DEF c, late
<1> QED
  BY <1>4, <1>5, <1>6, <1>7, OneWorker

LEMMA RoundsTyped ==
    ASSUME TypeInv, NEW w \in Workers, Busy(w)
    PROVE  /\ worker[w].cmd \in Commands
           /\ MoreRounds(0) => <<At(w), 1, 0>> \in Commands
           /\ MoreRounds(Round(w)) => <<At(w), Round(w) + 1, worker[w].cmd[3]>> \in Commands
<1>1. worker[w].cmd \in Commands
  BY DEF TypeInv, WorkTypes, Busy, Commands
<1>2. Rounds \in Nat /\ MaxFixtures \in Nat
  BY BoundAssumption
<1>3. At(w) \in Purchases /\ Round(w) \in Nat /\ worker[w].cmd[3] \in 0..MaxFixtures
  BY <1>1, <1>2 DEF At, Round, Commands
<1>4. MoreRounds(0) => 1 \in 0..IF Rounds = 0 THEN 1 ELSE Rounds
  BY <1>2 DEF MoreRounds
<1>5. MoreRounds(Round(w)) => Round(w) + 1 \in 0..IF Rounds = 0 THEN 1 ELSE Rounds
  BY <1>2, <1>3 DEF MoreRounds
<1>6. 0 \in 0..MaxFixtures
  BY <1>2
<1> QED
  BY <1>1, <1>3, <1>4, <1>5, <1>6 DEF Commands

LEMMA WorkersKeepWork ==
    ASSUME TypeInv, NEW w \in Workers, WorkerStep(w) PROVE WorkTypes' /\ Apart'
<1>1. CASE \E p \in Purchases : Take(w, p)
  BY <1>1, TakeKeepsWork
<1>2. CASE Crash(w) \/ WorkerVictim(w)
  <2>1. worker' = [worker EXCEPT ![w] = IdleWorker] /\ UNCHANGED queue
    BY <1>2 DEF Crash, WorkerVictim
  <2>2. PICK none \in SUBSET Commands : none = {}
    OBVIOUS
  <2>3. queue' = queue \cup none
    BY <2>1, <2>2
  <2> HIDE <2>2
  <2> QED
    BY <2>1, <2>3, WorkerFrees
<1>3. CASE Handle(w)
  <2>1. Busy(w)
    BY <1>3 DEF Handle, NothingToDo, RefuseDebit, AcceptDebit, AskAgain, ApplyOutcome, Bury, Handles
  <2>2. PICK more \in SUBSET Commands : Finish(w, more)
    <3>1. {} \subseteq Commands
      OBVIOUS
    <3>2. CASE NothingToDo(w) \/ RefuseDebit(w) \/ ApplyOutcome(w) \/ Bury(w)
      BY <3>1, <3>2 DEF NothingToDo, RefuseDebit, ApplyOutcome, Bury
    <3>3. CASE AcceptDebit(w)
      <4>1. Finish(w, {}) \/ Finish(w, IF MoreRounds(0) THEN {<<At(w), 1, 0>>} ELSE {})
        BY <3>3 DEF AcceptDebit
      <4>2. (IF MoreRounds(0) THEN {<<At(w), 1, 0>>} ELSE {}) \subseteq Commands
        BY <2>1, RoundsTyped
      <4> QED
        BY <3>1, <4>1, <4>2
    <3>4. CASE AskAgain(w)
      <4>1. Finish(w, IF MoreRounds(Round(w)) THEN {<<At(w), Round(w) + 1, worker[w].cmd[3]>>} ELSE {})
        BY <3>4 DEF AskAgain
      <4>2. (IF MoreRounds(Round(w)) THEN {<<At(w), Round(w) + 1, worker[w].cmd[3]>>} ELSE {})
              \subseteq Commands
        BY <2>1, RoundsTyped
      <4> QED
        BY <4>1, <4>2
    <3> QED
      BY <1>3, <3>2, <3>3, <3>4 DEF Handle
  <2>3. /\ worker' = [worker EXCEPT ![w] = IdleWorker]
        /\ queue' \in {queue \cup more, (queue \ {worker[w].cmd}) \cup more}
    BY <2>2 DEF Finish
  <2> QED
    BY <2>1, <2>2, <2>3, WorkerFrees
<1>4. CASE WaitWithVersion(w)
  BY <1>4, WaitKeepsWork
<1> QED
  BY <1>1, <1>2, <1>3, <1>4 DEF WorkerStep

LEMMA WorkKept ==
    ASSUME TypeInv, Next PROVE WorkTypes' /\ Apart'
<1>1. CASE UNCHANGED <<queue, worker>>
  BY <1>1 DEF TypeInv, WorkTypes, Apart, Busy, Locked
<1>2. CASE \E w \in Workers : WorkerStep(w)
  BY <1>2, WorkersKeepWork
<1>3. ASSUME NEW p \in Purchases, BuyerStep(p) PROVE WorkTypes' /\ Apart'
  <2>1. CASE Admit(p)
    <3>1. {<<p, 0, 0>>} \subseteq Commands
      BY BoundAssumption DEF Commands
    <3> QED
      BY <2>1, <3>1, QueueGrows DEF Admit
  <2>2. CASE (\E a \in Authorities : BeginPay(p, a)) \/ PayRefused(p) \/ Deny(p)
             \/ CancelReads(p) \/ CancelRefused(p) \/ Cancel(p)
    BY <2>2, <1>1 DEF BeginPay, PayRefused, Deny, CancelReads, CancelRefused, Cancel
  <2> QED
    BY <1>3, <2>1, <2>2 DEF BuyerStep
<1>4. CASE SweepStep
  BY <1>1, <1>4 DEF SweepStep, StartSweep, LockNext, Locks, CommitSweep, SweepVictim
<1>5. ASSUME NEW p \in Scripted, NEW o \in Outcomes, Simulate(p, o) PROVE WorkTypes' /\ Apart'
  <2>1. used.fixtures \in 0..MaxFixtures /\ used.fixtures < MaxFixtures
    BY <1>5 DEF TypeInv, OtherTypes, Simulate
  <2>2. used.fixtures + 1 \in 0..MaxFixtures /\ 1 \in 0..IF Rounds = 0 THEN 1 ELSE Rounds
    BY <2>1, BoundAssumption
  <2>3. {<<p, 1, used.fixtures + 1>>} \subseteq Commands
    BY <2>2, AmountAssumption DEF Commands
  <2> QED
    BY <1>5, <2>3, QueueGrows DEF Simulate
<1>6. CASE Surroundings
  BY <1>1, <1>5, <1>6 DEF Surroundings, WindowEnds, EnterSafeMode, LeaveSafeMode, Switch,
                          GrantAuthority, Revoke, AuthorityExpires
<1> QED
  BY <1>2, <1>3, <1>4, <1>6 DEF Next

\* What is queued is about a purchase with an attempt.
LEMMA AskedKept ==
    ASSUME IInv, TypeInv, Next, MoneyStep PROVE Asked'
<1>1. ASSUME NEW p \in Purchases, attempt'[p].status # "NONE",
             queue' \subseteq queue \cup {c \in Commands : c[1] = p}
      PROVE  Asked'
  <2>1. \A c \in queue : c[1] \in Purchases
    BY QueuedAreCommands DEF Commands
  <2> QED
    BY <1>1, <2>1 DEF MoneyStep, TypeInv, Asked
<1>2. CASE UNCHANGED queue
  <2>1. \A c \in queue : c[1] \in Purchases
    BY QueuedAreCommands DEF Commands
  <2> QED
    BY <1>2, <2>1 DEF MoneyStep, TypeInv, Asked
<1>3. ASSUME NEW p \in Purchases, BuyerStep(p) PROVE Asked'
  <2>1. CASE Admit(p)
    <3>1. <<p, 0, 0>> \in Commands
      BY BoundAssumption DEF Commands
    <3>2. attempt'[p].status # "NONE"
      BY <2>1, AdmitWrites
    <3> QED
      BY <1>1, <2>1, <3>1, <3>2 DEF Admit
  <2> QED
    BY <1>2, <1>3, <2>1
       DEF BuyerStep, BeginPay, PayRefused, Deny, CancelReads, CancelRefused, Cancel
<1>4. ASSUME NEW w \in Workers, WorkerStep(w) PROVE Asked'
  <2>1. CASE Handle(w)
    <3>1. Busy(w)
      BY <2>1 DEF Handle, NothingToDo, RefuseDebit, AcceptDebit, AskAgain, ApplyOutcome, Bury, Handles
    <3>2. At(w) \in Purchases /\ worker[w].cmd \in queue
      BY <3>1, AtPurchase
    <3>3. attempt'[At(w)].status # "NONE"
      BY <3>2 DEF TypeInv, Asked, At, MoneyStep
    <3>4. \E more : Finish(w, more) /\ more \subseteq {c \in Commands : c[1] = At(w)}
      <4>1. /\ MoreRounds(0) => <<At(w), 1, 0>> \in {c \in Commands : c[1] = At(w)}
            /\ MoreRounds(Round(w)) => <<At(w), Round(w) + 1, worker[w].cmd[3]>>
                                         \in {c \in Commands : c[1] = At(w)}
        BY <3>1, RoundsTyped
      <4> QED
        BY <2>1, <4>1 DEF Handle, NothingToDo, RefuseDebit, AcceptDebit, AskAgain, ApplyOutcome, Bury
    <3>5. queue' \subseteq queue \cup {c \in Commands : c[1] = At(w)}
      BY <3>4 DEF Finish
    <3> QED
      BY <1>1, <3>2, <3>3, <3>5
  <2> QED
    BY <1>2, <1>4, <2>1 DEF WorkerStep, Take, WaitWithVersion, Crash, WorkerVictim
<1>5. ASSUME NEW p \in Scripted, NEW o \in Outcomes, Simulate(p, o) PROVE Asked'
  <2>1. p \in Purchases
    BY AmountAssumption
  <2>2. attempt[p].status # "NONE"
    BY <1>5, <2>1 DEF Simulate, IInv, PurchaseInv, Sound
  <2>3. used.fixtures \in 0..MaxFixtures /\ used.fixtures < MaxFixtures
    BY <1>5 DEF TypeInv, OtherTypes, Simulate
  <2>4. used.fixtures + 1 \in 0..MaxFixtures /\ 1 \in 0..IF Rounds = 0 THEN 1 ELSE Rounds
    BY <2>3, BoundAssumption
  <2>5. <<p, 1, used.fixtures + 1>> \in Commands
    BY <2>1, <2>4 DEF Commands
  <2>6. attempt'[p].status # "NONE"
    BY <2>1, <2>2 DEF MoneyStep
  <2> QED
    BY <1>1, <1>5, <2>1, <2>5, <2>6 DEF Simulate
<1>6. CASE SweepStep
  BY <1>2, <1>6 DEF SweepStep, StartSweep, LockNext, Locks, CommitSweep, SweepVictim
<1>7. CASE Surroundings
  BY <1>2, <1>5, <1>7 DEF Surroundings, WindowEnds, EnterSafeMode, LeaveSafeMode, Switch,
                          GrantAuthority, Revoke, AuthorityExpires
<1> QED
  BY <1>3, <1>4, <1>6, <1>7 DEF Next

\* One more of the bounded events.
LEMMA UsedKept ==
    ASSUME TypeInv, Disturb \/ UNCHANGED used
    PROVE  used' \in [fixtures : 0..MaxFixtures, disturbances : 0..MaxDisturbances]
<1> DEFINE U(n) == [fixtures |-> used.fixtures, disturbances |-> n]
<1>1. CASE Disturb
  <2>1. /\ used.fixtures \in 0..MaxFixtures /\ used.disturbances \in 0..MaxDisturbances
        /\ used = U(used.disturbances)
    BY DEF TypeInv, OtherTypes
  <2>2. [used EXCEPT !.disturbances = used.disturbances + 1] = U(used.disturbances + 1)
    BY <2>1
  <2>3. used.disturbances + 1 \in 0..MaxDisturbances
    BY <1>1, <2>1, BoundAssumption DEF Disturb
  <2>4. U(used.disturbances + 1) \in [fixtures : 0..MaxFixtures, disturbances : 0..MaxDisturbances]
    BY <2>1, <2>3
  <2> QED
    BY <1>1, <2>2, <2>4 DEF Disturb
<1>2. CASE UNCHANGED used
  BY <1>2 DEF TypeInv, OtherTypes
<1> QED
  BY <1>1, <1>2

LEMMA OthersSame ==
    ASSUME TypeInv, UNCHANGED <<due, sweep, mode>>, Disturb \/ UNCHANGED used
    PROVE  OtherTypes'
<1>1. used' \in [fixtures : 0..MaxFixtures, disturbances : 0..MaxDisturbances]
  BY UsedKept
<1> QED
  BY <1>1 DEF TypeInv, OtherTypes

LEMMA LocksTyped ==
    ASSUME TypeInv, NEW p \in Purchases, NEW found \in SUBSET Purchases, Locks(p, found),
           p \in found => attempt[p].status # "NONE"
    PROVE  OtherTypes'
<1> DEFINE s == [todo |-> found \ {p}, versions |-> sweep.versions \cup {p},
                 authorities |-> sweep.authorities \cup {attempt[p].of}]
<1>1. attempt[p].of \in Authorities
  BY DEF Locks, TypeInv, AttemptOf
<1>2. s \in [todo : SUBSET Purchases, versions : SUBSET Purchases,
             authorities : SUBSET Authorities]
  BY <1>1 DEF TypeInv, OtherTypes
<1>3. sweep' = s /\ UNCHANGED <<due, mode, used>>
  BY DEF Locks
<1> HIDE DEF s
<1> QED
  BY <1>2, <1>3 DEF TypeInv, OtherTypes

\* A scope is a field of the mode, named at run time.
Modes(t, g, l) == [tenant |-> t, global |-> g, last |-> l]
ModesOf(t, g, l) ==
    [s \in {"tenant", "global", "last"} |->
       IF s = "tenant" THEN t ELSE IF s = "global" THEN g ELSE l]
Switched(x, scope, m) == [x EXCEPT ![scope] = m, !.last = scope]

LEMMA ModesAreFunctions ==
    ASSUME NEW t, NEW g, NEW l PROVE Modes(t, g, l) = ModesOf(t, g, l)
BY DEF Modes, ModesOf

LEMMA ModeSwitched ==
    ASSUME NEW t, NEW g, NEW l, NEW x, x = Modes(t, g, l), NEW m, NEW q \in {"tenant", "global"}
    PROVE  \E t2 \in {t, m}, g2 \in {g, m} : Switched(x, q, m) = Modes(t2, g2, q)
<1>1. x = ModesOf(t, g, l)
  BY ModesAreFunctions
<1>2. q = "tenant" => [x EXCEPT ![q] = m] = ModesOf(m, g, l)
  BY <1>1 DEF ModesOf
<1>3. q = "global" => [x EXCEPT ![q] = m] = ModesOf(t, m, l)
  BY <1>1 DEF ModesOf
<1>4. ModesOf(m, g, l) = Modes(m, g, l) /\ ModesOf(t, m, l) = Modes(t, m, l)
  BY ModesAreFunctions
<1>5. PICK t2 \in {t, m}, g2 \in {g, m} : [x EXCEPT ![q] = m] = Modes(t2, g2, l)
  BY <1>2, <1>3, <1>4
<1>6. [x EXCEPT ![q] = m, !.last = q] = [[x EXCEPT ![q] = m] EXCEPT !.last = q]
  OBVIOUS
<1>7. [Modes(t2, g2, l) EXCEPT !.last = q] = Modes(t2, g2, q)
  BY DEF Modes
<1>8. Switched(x, q, m) = Modes(t2, g2, q)
  BY <1>5, <1>6, <1>7 DEF Switched
<1> QED
  BY <1>8

LEMMA OthersKept ==
    ASSUME IInv, TypeInv, Next, MoneyStep PROVE OtherTypes' /\ Begun'
<1>1. CASE UNCHANGED <<due, sweep, mode>> /\ (Disturb \/ UNCHANGED used)
  <2>1. OtherTypes'
    BY <1>1, OthersSame
  <2>2. due \cup sweep.todo \subseteq Purchases
    BY DEF TypeInv, OtherTypes
  <2>3. Begun'
    BY <1>1, <2>2 DEF MoneyStep, TypeInv, Begun
  <2> QED
    BY <2>1, <2>3
<1>2. ASSUME NEW p \in Purchases, BuyerStep(p) PROVE OtherTypes' /\ Begun'
  <2>1. UNCHANGED <<due, sweep, mode>> /\ (Disturb \/ UNCHANGED used)
    BY <1>2 DEF BuyerStep, BeginPay, PayRefused, Deny, Admit, CancelReads, CancelRefused, Cancel
  <2> QED
    BY <1>1, <2>1
<1>3. ASSUME NEW w \in Workers, WorkerStep(w) PROVE OtherTypes' /\ Begun'
  <2>1. UNCHANGED <<due, sweep, mode>> /\ (Disturb \/ UNCHANGED used)
    BY <1>3 DEF WorkerStep, Handle, Take, WaitWithVersion, NothingToDo, RefuseDebit, AcceptDebit,
                AskAgain, ApplyOutcome, Bury, Crash, WorkerVictim, Finish
  <2> QED
    BY <1>1, <2>1
<1>4. ASSUME NEW p \in Purchases, StartSweep(p) \/ LockNext(p) PROVE OtherTypes' /\ Begun'
  <2>1. PICK found \in SUBSET (due \cup sweep.todo) : Locks(p, found)
    BY <1>4 DEF StartSweep, LockNext, Found
  <2>2. due \cup sweep.todo \subseteq Purchases
    BY DEF TypeInv, OtherTypes
  <2>3. p \in found => attempt[p].status # "NONE"
    BY DEF TypeInv, Begun
  <2>4. OtherTypes'
    BY <2>1, <2>2, <2>3, LocksTyped
  <2>5. sweep'.todo \subseteq found /\ UNCHANGED due
    BY <2>1 DEF Locks
  <2>6. Begun'
    BY <2>1, <2>2, <2>5 DEF MoneyStep, TypeInv, Begun
  <2> QED
    BY <2>4, <2>6
<1>5. CASE CommitSweep \/ SweepVictim
  <2>1. sweep' = NoSweep /\ UNCHANGED <<due, mode, used>>
    BY <1>5 DEF CommitSweep, SweepVictim
  <2>2. /\ NoSweep \in [todo : SUBSET Purchases, versions : SUBSET Purchases,
                        authorities : SUBSET Authorities]
        /\ NoSweep.todo = {}
    BY DEF NoSweep
  <2>3. OtherTypes'
    BY <2>1, <2>2 DEF TypeInv, OtherTypes
  <2>4. due \subseteq Purchases
    BY DEF TypeInv, OtherTypes
  <2>5. Begun'
    BY <2>1, <2>2, <2>4 DEF MoneyStep, TypeInv, Begun
  <2> QED
    BY <2>3, <2>5
<1>6. ASSUME NEW p \in Purchases, WindowEnds(p) PROVE OtherTypes' /\ Begun'
  <2>1. due' = due \cup {p} /\ UNCHANGED <<sweep, mode, used>> /\ attempt[p].status # "NONE"
    BY <1>6 DEF WindowEnds, OpenStatuses
  <2>2. OtherTypes'
    BY <2>1 DEF TypeInv, OtherTypes
  <2>3. due \cup sweep.todo \subseteq Purchases
    BY DEF TypeInv, OtherTypes
  <2>4. Begun'
    BY <2>1, <2>3 DEF MoneyStep, TypeInv, Begun
  <2> QED
    BY <2>2, <2>4
<1>7. ASSUME NEW p \in Scripted, NEW o \in Outcomes, Simulate(p, o) PROVE OtherTypes' /\ Begun'
  <2> DEFINE u == [fixtures |-> used.fixtures + 1, disturbances |-> used.disturbances]
  <2>1. /\ used.fixtures \in 0..MaxFixtures /\ used.disturbances \in 0..MaxDisturbances
        /\ used = [fixtures |-> used.fixtures, disturbances |-> used.disturbances]
        /\ used.fixtures < MaxFixtures
    BY <1>7 DEF TypeInv, OtherTypes, Simulate
  <2>2. [used EXCEPT !.fixtures = used.fixtures + 1] = u
    BY <2>1
  <2>3. used.fixtures + 1 \in 0..MaxFixtures
    BY <2>1, BoundAssumption
  <2>4. u \in [fixtures : 0..MaxFixtures, disturbances : 0..MaxDisturbances]
    BY <2>1, <2>3
  <2>5. used' = u /\ UNCHANGED <<due, sweep, mode>>
    BY <1>7, <2>2 DEF Simulate
  <2> HIDE DEF u
  <2>6. OtherTypes'
    BY <2>4, <2>5 DEF TypeInv, OtherTypes
  <2>7. due \cup sweep.todo \subseteq Purchases
    BY DEF TypeInv, OtherTypes
  <2>8. Begun'
    BY <2>5, <2>7 DEF MoneyStep, TypeInv, Begun
  <2> QED
    BY <2>6, <2>8
<1>8. ASSUME NEW scope \in {"tenant", "global"}, NEW m \in {"NORMAL", "SAFE_MODE"},
             Switch(scope, m), Disturb \/ UNCHANGED used
      PROVE  OtherTypes' /\ Begun'
  <2>1. mode' \in [tenant : {"none", "NORMAL", "SAFE_MODE"},
                   global : {"none", "NORMAL", "SAFE_MODE"}, last : {"none", "tenant", "global"}]
    <3>1. mode = Modes(mode.tenant, mode.global, mode.last)
      BY DEF TypeInv, OtherTypes, Modes
    <3>2. PICK t \in {mode.tenant, m}, g \in {mode.global, m} :
            Switched(mode, scope, m) = Modes(t, g, scope)
      BY <3>1, ModeSwitched
    <3>3. mode' = Modes(t, g, scope)
      BY <1>8, <3>2 DEF Switch, Switched
    <3>4. t \in {"none", "NORMAL", "SAFE_MODE"} /\ g \in {"none", "NORMAL", "SAFE_MODE"}
      BY DEF TypeInv, OtherTypes
    <3> QED
      BY <3>3, <3>4 DEF Modes
  <2>2. used' \in [fixtures : 0..MaxFixtures, disturbances : 0..MaxDisturbances]
    BY <1>8, UsedKept
  <2>3. UNCHANGED <<due, sweep>>
    BY <1>8 DEF Switch
  <2>4. OtherTypes'
    BY <2>1, <2>2, <2>3 DEF TypeInv, OtherTypes
  <2>5. due \cup sweep.todo \subseteq Purchases
    BY DEF TypeInv, OtherTypes
  <2>6. Begun'
    BY <2>3, <2>5 DEF MoneyStep, TypeInv, Begun
  <2> QED
    BY <2>4, <2>6
<1>9. ASSUME NEW scope \in {"tenant", "global"}, EnterSafeMode(scope) \/ LeaveSafeMode(scope)
      PROVE  OtherTypes' /\ Begun'
  BY <1>8, <1>9 DEF EnterSafeMode, LeaveSafeMode
<1>10. ASSUME NEW a \in Authorities, GrantAuthority(a) \/ Revoke(a) \/ AuthorityExpires(a)
       PROVE  OtherTypes' /\ Begun'
  BY <1>1, <1>10 DEF GrantAuthority, Revoke, AuthorityExpires
<1>11. CASE SweepStep
  BY <1>4, <1>5, <1>11 DEF SweepStep
<1>12. CASE Surroundings
  BY <1>6, <1>7, <1>9, <1>10, <1>12 DEF Surroundings
<1> QED
  BY <1>2, <1>3, <1>11, <1>12 DEF Next

LEMMA TypeStep ==
    ASSUME IInv, TypeInv, [Next]_vars PROVE TypeInv'
<1>1. CASE UNCHANGED vars
  BY <1>1 DEF vars, TypeInv, MoneyTypes, RequestTypes, WorkTypes, OtherTypes, AttemptOf, PayOf,
              Apart, Begun, Asked, Allocated, Locked, Busy
<1>2. CASE Next
  <2>1. MoneyStep
    BY <1>2, WorkersKeepMoney, BuyersKeepMoney, OthersKeepMoney DEF Next
  <2> QED
    BY <1>2, <2>1, RequestsKept, WorkKept, OthersKept, AskedKept DEF MoneyStep, MoneyKept, TypeInv
<1> QED
  BY <1>1, <1>2

LEMMA TypeInit == Init => TypeInv
<1> SUFFICES ASSUME Init PROVE TypeInv
  OBVIOUS
<1>1. /\ NoAttempt \in AttemptRecord /\ NoAttempt.status = "NONE" /\ NoAttempt.alloc = "NONE"
      /\ NotPaying \in [of : Authorities \cup {0}, epoch : Nat, late : BOOLEAN]
      /\ NoSweep \in [todo : SUBSET Purchases, versions : SUBSET Purchases,
                      authorities : SUBSET Authorities]
      /\ NoSweep.todo = {}
  BY DEF NoAttempt, AttemptRecord, Outcomes, NotPaying, NoSweep
<1>2. MoneyTypes
  BY <1>1 DEF Init, MoneyTypes, AuthorityRecord, AuthorityStatus, CheckoutState
<1>3. RequestTypes /\ WorkTypes
  BY <1>1 DEF Init, RequestTypes, WorkTypes, IdleWorker
<1>4. OtherTypes
  BY <1>1, BoundAssumption DEF Init, OtherTypes
<1>5. AttemptOf /\ PayOf /\ Begun /\ Asked
  BY <1>1 DEF Init, AttemptOf, PayOf, Begun, Asked
<1>6. Apart
  BY DEF Init, Apart, Locked, Busy, IdleWorker
<1>7. IsFiniteSet(Allocated)
  <2>1. Allocated = {}
    BY <1>1 DEF Init, Allocated
  <2> QED
    BY <2>1, FS_EmptySet
<1> QED
  BY <1>2, <1>3, <1>4, <1>5, <1>6, <1>7 DEF TypeInv

-----------------------------------------------------------------------------
\* The books. What an authority has consumed is the sum of its allocations, so
\* that it can be neither given back twice nor kept after a failure, and what
\* it can still cover decides its status, the one it has before it is granted too.

Counted(a) == {p \in Purchases : attempt[p].of = a /\ attempt[p].alloc \in {"HELD", "SPENT"}}
Book(consumed, status, purchases) ==
    /\ consumed = Total(purchases) /\ consumed <= Ceiling
    /\ status \in {"NONE", "ACTIVE"} => consumed < Ceiling
    /\ status = "EXHAUSTED" => consumed = Ceiling
BookInv == \A a \in Authorities : Book(authority[a].consumed, authority[a].status, Counted(a))

LEMMA TotalNat ==
    ASSUME NEW S \in SUBSET Purchases, IsFiniteSet(S) PROVE Total(S) \in Nat
<1>1. \A x \in S : Price[x] \in Nat
  BY AmountAssumption
<1> QED
  BY <1>1, SumNat, TotalIsSum

LEMMA TotalRemoved ==
    ASSUME NEW S \in SUBSET Purchases, IsFiniteSet(S), NEW R \in SUBSET S
    PROVE  Total(S) = Total(S \ R) + Total(R)
<1>1. \A x \in (S \ R) \cup R : Price[x] \in Int
  BY AmountAssumption
<1>2. IsFiniteSet(R) /\ IsFiniteSet(S \ R)
  BY FS_Subset
<1>3. (S \ R) \cup R = S /\ (S \ R) \cap R = {}
  OBVIOUS
<1>4. Sum(Price, (S \ R) \cup R) = Sum(Price, S \ R) + Sum(Price, R)
  BY <1>1, <1>2, <1>3, SumUnion
<1> QED
  BY <1>3, <1>4, TotalIsSum

LEMMA TotalOne ==
    ASSUME NEW p \in Purchases PROVE Total({p}) = Price[p]
<1>1. \A y \in {} \cup {p} : Price[y] \in Int
  BY AmountAssumption
<1>2. Sum(Price, {} \cup {p}) = Price[p] + Sum(Price, {})
  BY <1>1, FS_EmptySet, SumAdd
<1>3. {} \cup {p} = {p}
  OBVIOUS
<1>4. Sum(Price, {p}) = Price[p] + 0
  BY <1>2, <1>3, SumEmpty
<1> QED
  BY <1>4, TotalIsSum, AmountAssumption

LEMMA BookAdmits ==
    ASSUME NEW S \in SUBSET Purchases, IsFiniteSet(S), NEW c \in Int, NEW p \in Purchases \ S,
           Book(c, "ACTIVE", S), c + Price[p] <= Ceiling
    PROVE  Book(c + Price[p], IF Exhausts(c + Price[p]) THEN "EXHAUSTED" ELSE "ACTIVE", S \cup {p})
<1>1. Price[p] \in Nat /\ Ceiling \in Nat
  BY AmountAssumption
<1>2. Sum(Price, S \cup {p}) = Price[p] + Sum(Price, S)
  <2>1. \A y \in S \cup {p} : Price[y] \in Int
    BY AmountAssumption
  <2> QED
    BY <2>1, SumAdd
<1>3. Total(S \cup {p}) = c + Price[p]
  BY <1>1, <1>2, TotalIsSum DEF Book
<1> QED
  BY <1>1, <1>3 DEF Book, Exhausts

LEMMA BookReturns ==
    ASSUME NEW S \in SUBSET Purchases, IsFiniteSet(S), NEW c \in Int, NEW s,
           NEW R \in SUBSET S, R # {}, Book(c, s, S)
    PROVE  Book(c - Total(R), IF s = "EXHAUSTED" THEN "ACTIVE" ELSE s, S \ R)
<1>1. IsFiniteSet(R) /\ R \in SUBSET Purchases
  BY FS_Subset
<1>2. Total(R) \in Nat /\ Total(S \ R) \in Nat
  BY <1>1, FS_Subset, TotalNat
<1>3. Total(R) >= 1
  <2>1. PICK p \in R : p \in Purchases
    BY <1>1
  <2>2. Total(R) = Total(R \ {p}) + Total({p})
    BY <1>1, <2>1, TotalRemoved
  <2>3. Total(R \ {p}) \in Nat
    BY <1>1, FS_Subset, TotalNat
  <2>4. Total({p}) = Price[p] /\ Price[p] \in Nat \ {0}
    BY <2>1, TotalOne, AmountAssumption
  <2> QED
    BY <2>2, <2>3, <2>4
<1>4. Total(S) = Total(S \ R) + Total(R)
  BY TotalRemoved
<1> QED
  BY <1>2, <1>3, <1>4, AmountAssumption DEF Book

LEMMA CountedFinite ==
    ASSUME TypeInv, NEW a
    PROVE  Counted(a) \in SUBSET Purchases /\ IsFiniteSet(Counted(a))
<1>1. Counted(a) \subseteq Allocated
  BY DEF Counted, Allocated
<1> QED
  BY <1>1, FS_Subset DEF TypeInv, Counted

LEMMA BooksNext ==
    ASSUME \A a \in Authorities :
             Book(authority'[a].consumed, authority'[a].status, Counted(a)')
    PROVE  BookInv'
BY DEF BookInv

LEMMA BooksUntouched ==
    ASSUME BookInv, SameAllocations, UNCHANGED authority PROVE BookInv'
<1>1. \A a \in Authorities : Counted(a)' = Counted(a)
  BY DEF SameAllocations, Counted
<1>2. \A a \in Authorities : Book(authority'[a].consumed, authority'[a].status, Counted(a)')
  BY <1>1 DEF BookInv
<1> QED
  BY <1>2, BooksNext

LEMMA BooksPermission ==
    ASSUME BookInv, SamePermission, UNCHANGED attempt PROVE BookInv'
<1>1. \A a \in Authorities : Counted(a)' = Counted(a)
  BY DEF Counted
<1>2. \A a \in Authorities : Book(authority'[a].consumed, authority'[a].status, Counted(a))
  BY DEF BookInv, Book, SamePermission
<1>3. \A a \in Authorities : Book(authority'[a].consumed, authority'[a].status, Counted(a)')
  BY <1>1, <1>2
<1> QED
  BY <1>3, BooksNext

\* The worker settles one allocation: it is returned once, spent or kept.
LEMMA BooksWritten ==
    ASSUME TypeInv, BookInv, NEW p \in Purchases, attempt[p].alloc = "HELD",
           attempt[p].of \in Authorities, Written(p, attempt[p])
    PROVE  BookInv'
<1>0. PICK b \in Authorities : b = attempt[p].of
  OBVIOUS
<1>1. PICK record \in AttemptRecord, c \in CheckoutState :
        Writes(p, record, c) /\ record.of = b /\ record.alloc = "HELD"
  BY <1>0 DEF Written
<1> DEFINE alloc == SettledAs(record.alloc, record.status)
<1>2. /\ \A q \in Purchases : q # p => attempt'[q] = attempt[q]
      /\ attempt'[p].of = b /\ attempt'[p].alloc = alloc
  BY <1>1, WritesTyped
<1>3. alloc \in {"HELD", "SPENT", "RELEASED"}
  BY <1>1 DEF SettledAs
<1>4. authority' = IF alloc = "RELEASED"
                   THEN [authority EXCEPT ![b] = Restored(authority[b], Price[p])] ELSE authority
  BY <1>1 DEF Writes
<1> HIDE DEF alloc
<1>5. CASE alloc # "RELEASED"
  <2>1. \A a \in Authorities : Counted(a)' = Counted(a)
    BY <1>0, <1>2, <1>3, <1>5 DEF Counted
  <2>2. \A a \in Authorities : Book(authority'[a].consumed, authority'[a].status, Counted(a)')
    BY <1>4, <1>5, <2>1 DEF BookInv
  <2> QED
    BY <2>2, BooksNext
<1>6. CASE alloc = "RELEASED"
  <2>1. ASSUME NEW a \in Authorities, a # b
        PROVE  Book(authority'[a].consumed, authority'[a].status, Counted(a)')
    <3>1. Counted(a)' = Counted(a)
      BY <1>0, <1>2, <2>1 DEF Counted
    <3>2. authority'[a] = authority[a]
      BY <1>4, <1>6, <2>1 DEF TypeInv, MoneyTypes
    <3> QED
      BY <3>1, <3>2 DEF BookInv
  <2>2. Book(authority'[b].consumed, authority'[b].status, Counted(b)')
    <3>1. Counted(b)' = Counted(b) \ {p} /\ p \in Counted(b)
      BY <1>0, <1>2, <1>6 DEF Counted
    <3>2. authority'[b] = Restored(authority[b], Price[p])
      BY <1>4, <1>6 DEF TypeInv, MoneyTypes
    <3>3. authority[b] \in AuthorityRecord /\ Price[p] \in Int /\ authority[b].consumed \in Int
      BY AmountAssumption DEF TypeInv, MoneyTypes, AuthorityRecord
    <3>4. /\ authority'[b].consumed = authority[b].consumed - Price[p]
          /\ authority'[b].status = IF authority[b].status = "EXHAUSTED" THEN "ACTIVE"
                                    ELSE authority[b].status
      <4> DEFINE back == Restored(authority[b], Price[p])
      <4>1. /\ back.consumed = authority[b].consumed - Price[p]
            /\ back.status = IF authority[b].status = "EXHAUSTED" THEN "ACTIVE"
                             ELSE authority[b].status
        BY <3>3, RestoredFields
      <4>2. authority'[b] = back
        BY <3>2
      <4> HIDE DEF back
      <4> QED
        BY <4>1, <4>2
    <3>5. Book(authority[b].consumed, authority[b].status, Counted(b))
      BY DEF BookInv
    <3>6. Counted(b) \in SUBSET Purchases /\ IsFiniteSet(Counted(b))
      BY CountedFinite
    <3>7. {p} \in SUBSET Counted(b) /\ {p} # {}
      BY <3>1
    <3>8. Book(authority[b].consumed - Total({p}),
               IF authority[b].status = "EXHAUSTED" THEN "ACTIVE" ELSE authority[b].status,
               Counted(b) \ {p})
      BY <3>3, <3>5, <3>6, <3>7, BookReturns
    <3>9. Total({p}) = Price[p]
      BY TotalOne
    <3> QED
      BY <3>1, <3>4, <3>8, <3>9
  <2> QED
    BY <2>1, <2>2, BooksNext
<1> QED
  BY <1>5, <1>6

LEMMA BooksAdmit ==
    ASSUME IInv, TypeInv, BookInv, NEW p \in Purchases, Admit(p) PROVE BookInv'
<1>0. PICK b \in Authorities : b = paying[p].of
  BY AdmitWrites
<1> DEFINE taken == authority[b].consumed + Price[p]
<1>1. /\ b \in Authorities /\ attempt[p].status = "NONE"
      /\ attempt'[p].of = b /\ attempt'[p].alloc = "HELD"
      /\ \A q \in Purchases : q # p => attempt'[q] = attempt[q]
      /\ \A a \in Authorities : a # b => authority'[a] = authority[a]
      /\ authority[b].status = "ACTIVE" /\ taken <= Ceiling
      /\ authority'[b].consumed = taken
      /\ authority'[b].status = IF Exhausts(taken) THEN "EXHAUSTED" ELSE "ACTIVE"
  BY <1>0, AdmitWrites
<1>2. attempt[p].alloc = "NONE"
  BY <1>1 DEF IInv, PurchaseInv, Sound
<1>3. Counted(b)' = Counted(b) \cup {p} /\ \A a : p \notin Counted(a)
  BY <1>1, <1>2 DEF Counted
<1>4. ASSUME NEW a \in Authorities, a # b
      PROVE  Book(authority'[a].consumed, authority'[a].status, Counted(a)')
  <2>1. Counted(a)' = Counted(a)
    BY <1>1, <1>2, <1>4 DEF Counted
  <2> QED
    BY <1>1, <1>4, <2>1 DEF BookInv
<1>5. Book(authority[b].consumed, "ACTIVE", Counted(b))
  BY <1>1 DEF BookInv
<1>6. Counted(b) \in SUBSET Purchases /\ IsFiniteSet(Counted(b)) /\ authority[b].consumed \in Int
  BY <1>1, CountedFinite DEF TypeInv, MoneyTypes, AuthorityRecord
<1>7. Book(taken, IF Exhausts(taken) THEN "EXHAUSTED" ELSE "ACTIVE", Counted(b) \cup {p})
  BY <1>1, <1>3, <1>5, <1>6, BookAdmits
<1> HIDE DEF taken
<1>8. Book(authority'[b].consumed, authority'[b].status, Counted(b)')
  BY <1>1, <1>3, <1>7
<1> QED
  BY <1>4, <1>8, BooksNext

\* Housekeeping returns the allocations of the debits it closes, all of those of
\* one authority together.
LEMMA BooksSweep ==
    ASSUME IInv, TypeInv, BookInv, CommitSweep PROVE BookInv'
<1> SUFFICES ASSUME NEW a \in Authorities
             PROVE  Book(authority'[a].consumed, authority'[a].status, Counted(a)')
  BY BooksNext
<1>1. /\ \A q \in Purchases :
           /\ attempt'[q].of = attempt[q].of
           /\ attempt'[q].alloc = IF q \in Ended THEN "RELEASED" ELSE attempt[q].alloc
           /\ q \in Ended => attempt[q].alloc = "HELD"
      /\ authority'[a] = IF Given(a) = {} THEN authority[a]
                         ELSE Restored(authority[a], Total(Given(a)))
  BY SweepWrites
<1>2. Counted(a)' = Counted(a) \ Given(a)
  BY <1>1 DEF Counted, Given
<1>3. Given(a) \in SUBSET Counted(a)
  BY <1>1 DEF Counted, Given, Ended
<1>4. Book(authority[a].consumed, authority[a].status, Counted(a))
  BY DEF BookInv
<1>5. CASE Given(a) = {}
  BY <1>1, <1>2, <1>4, <1>5
<1>6. CASE Given(a) # {}
  <2>1. Counted(a) \in SUBSET Purchases /\ IsFiniteSet(Counted(a))
    BY CountedFinite
  <2>2. authority[a] \in AuthorityRecord /\ authority[a].consumed \in Int
    BY DEF TypeInv, MoneyTypes, AuthorityRecord
  <2>3. Total(Given(a)) \in Int
    BY <1>3, <2>1, FS_Subset, TotalNat
  <2>4. /\ authority'[a].consumed = authority[a].consumed - Total(Given(a))
        /\ authority'[a].status = IF authority[a].status = "EXHAUSTED" THEN "ACTIVE"
                                  ELSE authority[a].status
    <3>1. authority'[a] = Restored(authority[a], Total(Given(a)))
      BY <1>1, <1>6
    <3>2. PICK r \in AuthorityRecord : r = authority[a]
      BY <2>2
    <3>3. PICK n \in Int : n = Total(Given(a))
      BY <2>3
    <3>4. /\ Restored(r, n).consumed = r.consumed - n
          /\ Restored(r, n).status = IF r.status = "EXHAUSTED" THEN "ACTIVE" ELSE r.status
      BY RestoredFields
    <3> QED
      BY <3>1, <3>2, <3>3, <3>4
  <2>5. Book(authority[a].consumed - Total(Given(a)),
             IF authority[a].status = "EXHAUSTED" THEN "ACTIVE" ELSE authority[a].status,
             Counted(a) \ Given(a))
    BY <1>3, <1>4, <1>6, <2>1, <2>2, BookReturns
  <2> QED
    BY <1>2, <2>4, <2>5
<1> QED
  BY <1>5, <1>6

LEMMA BookStep ==
    ASSUME IInv, TypeInv, BookInv, [Next]_vars PROVE BookInv'
<1>1. CASE UNCHANGED <<attempt, authority>>
  <2>1. SameAllocations
    BY <1>1 DEF SameAllocations
  <2> QED
    BY <1>1, <2>1, BooksUntouched
<1>2. ASSUME NEW p \in Purchases, BuyerStep(p) PROVE BookInv'
  <2>1. CASE Admit(p)
    BY <2>1, BooksAdmit
  <2>2. CASE Cancel(p)
    BY <2>2, CancelTyped, BooksUntouched
  <2>3. CASE (\E a \in Authorities : BeginPay(p, a)) \/ PayRefused(p) \/ Deny(p)
             \/ CancelReads(p) \/ CancelRefused(p)
    BY <1>1, <2>3 DEF BeginPay, PayRefused, Deny, CancelReads, CancelRefused, money
  <2> QED
    BY <1>2, <2>1, <2>2, <2>3 DEF BuyerStep
<1>3. ASSUME NEW w \in Workers, WorkerStep(w) PROVE BookInv'
  <2>1. CASE RefuseDebit(w) \/ AcceptDebit(w) \/ ApplyOutcome(w)
    BY <2>1, WorkersWrite, BooksWritten
  <2>2. CASE \E p \in Purchases : Take(w, p)
    BY <1>1, <2>2 DEF Take, money
  <2>3. CASE WaitWithVersion(w) \/ NothingToDo(w) \/ AskAgain(w) \/ Bury(w) \/ Crash(w)
             \/ WorkerVictim(w)
    BY <1>1, <2>3 DEF WaitWithVersion, NothingToDo, AskAgain, Bury, Crash, WorkerVictim, money
  <2> QED
    BY <1>3, <2>1, <2>2, <2>3 DEF WorkerStep, Handle
<1>4. CASE SweepStep
  <2>1. CASE CommitSweep
    BY <2>1, BooksSweep
  <2>2. CASE (\E p \in Purchases : StartSweep(p) \/ LockNext(p)) \/ SweepVictim
    BY <1>1, <2>2 DEF StartSweep, LockNext, Locks, SweepVictim, money
  <2> QED
    BY <1>4, <2>1, <2>2 DEF SweepStep
<1>5. CASE Surroundings
  <2>1. CASE \E p \in Scripted, o \in Outcomes : Simulate(p, o)
    BY <2>1, SimulateTyped, BooksUntouched
  <2>2. CASE \E s \in {"tenant", "global"} : EnterSafeMode(s)
    BY <2>2, EnterSafeModeTyped, BooksUntouched
  <2>3. CASE \E a \in Authorities : GrantAuthority(a) \/ Revoke(a) \/ AuthorityExpires(a)
    BY <2>3, AuthorityTyped, BooksPermission
  <2>4. CASE (\E p \in Purchases : WindowEnds(p)) \/ \E s \in {"tenant", "global"} : LeaveSafeMode(s)
    BY <1>1, <2>4 DEF WindowEnds, LeaveSafeMode, Switch, money
  <2> QED
    BY <1>5, <2>1, <2>2, <2>3, <2>4 DEF Surroundings
<1> QED
  BY <1>1, <1>2, <1>3, <1>4, <1>5 DEF Next, vars

LEMMA BookInit == Init => BookInv
<1> SUFFICES ASSUME Init, NEW a \in Authorities
             PROVE  Book(authority[a].consumed, authority[a].status, Counted(a))
  BY DEF BookInv
<1>1. Counted(a) = {}
  BY DEF Init, NoAttempt, Counted
<1>2. Total({}) = 0
  BY SumEmpty, TotalIsSum
<1>3. authority[a].consumed = 0 /\ authority[a].status = "NONE"
  BY DEF Init
<1> QED
  BY <1>1, <1>2, <1>3, AmountAssumption DEF Book

Sums == IInv /\ TypeInv /\ BookInv

\* The invariant of the types and the books, on which the next two rest.
THEOREM Bookkeeping == Spec => []Sums
<1>1. Init => Sums
  BY InitHolds, TypeInit, BookInit DEF Sums
<1>2. Sums /\ [Next]_vars => Sums'
  <2> SUFFICES ASSUME IInv, TypeInv, BookInv, [Next]_vars PROVE Sums'
    BY DEF Sums
  <2>1. IInv'
    <3>1. CASE UNCHANGED vars
      BY <3>1, FrameKeeps DEF vars, money
    <3>2. CASE Next
      BY <3>2, BuyerKeeps, WorkerKeeps, SweepKeeps, SurroundingsKeep DEF Next
    <3> QED
      BY <3>1, <3>2
  <2> QED
    BY <2>1, TypeStep, BookStep DEF Sums
<1> QED
  BY <1>1, <1>2, PTL DEF Spec

\* The capacity consumed of an authority is that of the debits still held or
\* spent, never above its ceiling, and it is exhausted exactly when it is full,
\* whatever the prices and however many debits fail, lapse or are swept
\* (lock_allocation_context, settle_allocation, close_due).
THEOREM CapacityBalances == Spec => []BooksBalance
<1>1. Sums => BooksBalance
  BY DEF Sums, BookInv, Book, Counted, BooksBalance
<1> QED
  BY <1>1, Bookkeeping, PTL

\* The state has its types; that consumed stays in 0..Ceiling needs the books.
THEOREM Typed == Spec => []TypeOK
<1>1. Sums => TypeOK
  <2> SUFFICES ASSUME Sums PROVE TypeOK
    OBVIOUS
  <2>1. ASSUME NEW a \in Authorities
        PROVE  authority[a] \in [status : AuthorityStatus, epoch : Nat,
                                 consumed : 0..Ceiling, expired : BOOLEAN]
    <3>1. Book(authority[a].consumed, authority[a].status, Counted(a))
      BY DEF Sums, BookInv
    <3>2. Total(Counted(a)) \in Nat
      BY CountedFinite, TotalNat DEF Sums
    <3>3. authority[a].consumed \in 0..Ceiling
      BY <3>1, <3>2, AmountAssumption DEF Book
    <3>4. authority[a] \in AuthorityRecord
      BY DEF Sums, TypeInv, MoneyTypes
    <3> QED
      BY <3>3, <3>4 DEF AuthorityRecord
  <2>2. authority \in [Authorities -> [status : AuthorityStatus, epoch : Nat,
                                       consumed : 0..Ceiling, expired : BOOLEAN]]
    BY <2>1 DEF Sums, TypeInv, MoneyTypes
  <2> QED
    BY <2>2 DEF Sums, TypeInv, MoneyTypes, AttemptRecord, RequestTypes, WorkTypes, OtherTypes, TypeOK
<1> QED
  BY <1>1, Bookkeeping, PTL

-----------------------------------------------------------------------------
\* Reserve Pay implements the allowance.

Lives == [a \in Authorities |-> Life(a)]
Stakes == [p \in Purchases |-> [of |-> attempt[p].of, state |-> attempt[p].alloc]]
Sent == {p \in Purchases : attempt[p].grant = "CONSUMED"}
Clearances == [p \in Purchases |-> Clearance(p)]
AllowanceStep == TheAllowance!Next \/ UNCHANGED TheAllowance!vars

\* The record of a purchase's claim, as the allowance writes it.
Claim(a, state) == [of |-> a, state |-> state]

LEMMA TotalIsAllowances == ASSUME NEW S PROVE TheAllowance!Total(S) = Total(S)
BY DEF TheAllowance!Total, Total, TheAllowance!MapThenSumSet, MapThenSumSet,
       TheAllowance!MapThenFoldSet, MapThenFoldSet

LEMMA CommittedIsCounted == ASSUME NEW a PROVE TheAllowance!Committed(a) = Counted(a)
BY DEF TheAllowance!Committed, Counted

\* Returned capacity changes nothing in the life of an authority.
LEMMA LifeKept ==
    ASSUME TypeInv, NEW a \in Authorities, NEW n \in Int,
           authority'[a] \in {authority[a], Restored(authority[a], n)}
    PROVE  Life(a)' = Life(a)
<1>1. authority[a] \in AuthorityRecord
  BY DEF TypeInv, MoneyTypes
<1>2. /\ authority'[a].expired = authority[a].expired
      /\ authority'[a].status = "NONE" <=> authority[a].status = "NONE"
      /\ authority'[a].status \in {"ACTIVE", "EXHAUSTED"}
            <=> authority[a].status \in {"ACTIVE", "EXHAUSTED"}
  BY <1>1, RestoredFields
<1> QED
  BY <1>2 DEF Life, Live

\* A permission that was never given has not lapsed, and nobody asks under it.
Unlapsed == \A a \in Authorities : authority[a].status = "NONE" => ~authority[a].expired
Granted ==
    \A p \in Purchases :
        /\ paying[p] # NotPaying => authority[paying[p].of].status # "NONE"
        /\ attempt[p].status # "NONE" => authority[attempt[p].of].status # "NONE"

LEMMA SameLives == ASSUME \A a \in Authorities : Life(a)' = Life(a) PROVE UNCHANGED Lives
BY DEF Lives

LEMMA LiveKept ==
    ASSUME UNCHANGED Lives, NEW a \in Authorities PROVE Live(a)' <=> Live(a)
<1>1. Live(a) <=> Lives[a] \in {"stands", "lapsed"}
  BY DEF Lives, Life, Live
<1>2. Live(a)' <=> Lives'[a] \in {"stands", "lapsed"}
  BY DEF Lives, Life, Live
<1> QED
  BY <1>1, <1>2

\* Who acts for a purchase uses its authority, and nobody acts for it before
\* it has an attempt.
LEMMA NobodyAt ==
    ASSUME TypeInv, NEW p \in Purchases, attempt[p].status = "NONE", NEW w \in Workers, Busy(w)
    PROVE  At(w) # p
BY AtPurchase DEF TypeInv, Asked, At

LEMMA UsesTyped ==
    ASSUME TypeInv, NEW p \in Purchases PROVE Uses(p) \in Authorities \cup {0} /\ 0 \notin Authorities
<1>1. CASE paying[p] # NotPaying
  BY <1>1, AuthorityAssumption DEF Uses, TypeInv, PayOf
<1>2. CASE paying[p] = NotPaying
  <2>1. (\E w \in Workers : Busy(w) /\ At(w) = p) => attempt[p].of \in Authorities
    BY NobodyAt DEF TypeInv, AttemptOf
  <2> QED
    BY <1>2, <2>1, AuthorityAssumption DEF Uses
<1> QED
  BY <1>1, <1>2

LEMMA OneClearance ==
    ASSUME TypeInv, UNCHANGED Lives, NEW p \in Purchases
    PROVE  /\ Uses(p)' = Uses(p) => Clearance(p)' = Clearance(p)
           /\ Uses(p)' = 0 => Clearance(p)' = 0
<1>1. Uses(p) \in Authorities \cup {0}
  BY UsesTyped
<1>2. Uses(p)' = Uses(p) /\ Uses(p) # 0 => ((Live(Uses(p)))' <=> Live(Uses(p)))
  BY <1>1, LiveKept DEF Live
<1> QED
  BY <1>2 DEF Clearance

LEMMA UsesSame ==
    ASSUME NEW p, UNCHANGED <<paying, worker>>, attempt'[p].of = attempt[p].of
    PROVE  Uses(p)' = Uses(p)
BY DEF Uses, Busy, At

LEMMA SameClearances ==
    ASSUME TypeInv, UNCHANGED <<Lives, paying, worker>>,
           \A p \in Purchases : attempt'[p].of = attempt[p].of
    PROVE  UNCHANGED Clearances
BY UsesSame, OneClearance DEF Clearances

\* A worker that lets go of its command leaves, and so does a pay request that
\* is answered; another worker may still be at the purchase of the first.
LEMMA WorkerLeaves ==
    ASSUME TypeInv, NEW w \in Workers, Busy(w), UNCHANGED <<Lives, paying>>,
           worker' = [worker EXCEPT ![w] = IdleWorker],
           \A q \in Purchases : attempt'[q].of = attempt[q].of
    PROVE  Clearances' \in {Clearances, [Clearances EXCEPT ![At(w)] = 0]}
<1>1. PICK p \in Purchases : p = At(w)
  BY AtPurchase
<1>2. \A v \in Workers : worker'[v] = IF v = w THEN IdleWorker ELSE worker[v]
  BY DEF TypeInv, WorkTypes
<1>3. \A v \in Workers : /\ v # w => (Busy(v)' <=> Busy(v)) /\ At(v)' = At(v)
                         /\ v = w => ~Busy(v)'
  BY <1>2 DEF Busy, At, IdleWorker
<1>4. ASSUME NEW q \in Purchases PROVE Clearance(q)' = Clearance(q) \/ (q = p /\ Clearance(q)' = 0)
  <2> DEFINE Acts(v) == Busy(v) /\ At(v) = q /\ ~worker[v].late
  <2>1. (\E v \in Workers : Acts(v)') => (\E v \in Workers : Acts(v))
    BY <1>2, <1>3
  <2>2. q # p /\ (\E v \in Workers : Acts(v)) => (\E v \in Workers : Acts(v)')
    BY <1>1, <1>2, <1>3
  <2>3. Uses(q)' = Uses(q) \/ (q = p /\ Uses(q)' = 0)
    BY <2>1, <2>2 DEF Uses
  <2> QED
    BY <2>3, OneClearance
<1> QED
  BY <1>1, <1>4 DEF Clearances

LEMMA BuyerLeaves ==
    ASSUME IInv, TypeInv, NEW p \in Purchases, paying[p] # NotPaying, UNCHANGED <<Lives, worker>>,
           paying' = [paying EXCEPT ![p] = NotPaying],
           \A q \in Purchases : q # p => attempt'[q].of = attempt[q].of
    PROVE  Clearances' = [Clearances EXCEPT ![p] = 0]
<1>1. \A q \in Purchases : paying'[q] = IF q = p THEN NotPaying ELSE paying[q]
  BY DEF TypeInv, RequestTypes
<1>2. \A w \in Workers : Busy(w) => At(w) # p
  BY NobodyAt DEF IInv, PurchaseInv, Reviewed
<1>3. Uses(p)' = 0
  BY <1>1, <1>2 DEF Uses, Busy, At
<1>4. \A q \in Purchases : q # p => Uses(q)' = Uses(q)
  BY <1>1 DEF Uses, Busy, At
<1> QED
  BY <1>3, <1>4, OneClearance DEF Clearances

LEMMA NothingAllotted ==
    ASSUME SameAllocations, UNCHANGED <<Lives, Clearances>>,
           \A q \in Purchases : attempt'[q].grant = "CONSUMED" <=> attempt[q].grant = "CONSUMED"
    PROVE  AllowanceStep
<1>1. UNCHANGED Stakes
  BY DEF SameAllocations, Stakes
<1>2. UNCHANGED Sent
  BY DEF Sent
<1> QED
  BY <1>1, <1>2 DEF AllowanceStep, TheAllowance!vars, Lives, Stakes, Sent, Clearances

LEMMA MoneyIsAllowances ==
    ASSUME UNCHANGED <<attempt, authority>>
    PROVE  /\ UNCHANGED <<Lives, Stakes, Sent>>
           /\ \A p \in Purchases : attempt'[p].of = attempt[p].of
BY DEF Lives, Life, Live, Stakes, Sent

LEMMA SameMoney ==
    ASSUME TypeInv, UNCHANGED <<attempt, authority, paying, worker>> PROVE AllowanceStep
<1>1. UNCHANGED <<Lives, Stakes, Sent>>
  BY MoneyIsAllowances
<1>2. UNCHANGED Clearances
  BY <1>1, MoneyIsAllowances, SameClearances
<1> QED
  BY <1>1, <1>2 DEF AllowanceStep, TheAllowance!vars, Lives, Stakes, Sent, Clearances

LEMMA WorkerLeavesAllowance ==
    ASSUME TypeInv, NEW w \in Workers, Busy(w), UNCHANGED <<attempt, authority, paying>>,
           worker' = [worker EXCEPT ![w] = IdleWorker]
    PROVE  AllowanceStep
<1>1. UNCHANGED <<Lives, Stakes, Sent>>
  BY MoneyIsAllowances
<1>2. PICK p \in Purchases : p = At(w)
  BY AtPurchase
<1>3. Clearances' \in {Clearances, [Clearances EXCEPT ![p] = 0]}
  BY <1>1, <1>2, MoneyIsAllowances, WorkerLeaves
<1>4. CASE UNCHANGED Clearances
  BY <1>1, <1>4 DEF AllowanceStep, TheAllowance!vars, Lives, Stakes, Sent, Clearances
<1>5. CASE Clearances' = [Clearances EXCEPT ![p] = 0]
  <2>1. TheAllowance!Leave(p)
    BY <1>1, <1>5 DEF TheAllowance!Leave, TheAllowance!Without, Lives, Stakes, Sent, Clearances
  <2> QED
    BY <2>1 DEF AllowanceStep, TheAllowance!Next
<1> QED
  BY <1>3, <1>4, <1>5

LEMMA BuyerLeavesAllowance ==
    ASSUME IInv, TypeInv, NEW p \in Purchases, PayRefused(p) \/ Deny(p) PROVE AllowanceStep
<1>1. /\ UNCHANGED <<attempt, authority, worker>> /\ paying[p] # NotPaying
      /\ paying' = [paying EXCEPT ![p] = NotPaying]
  BY DEF PayRefused, Deny, Decides, money
<1>2. UNCHANGED <<Lives, Stakes, Sent>>
  BY <1>1, MoneyIsAllowances
<1>3. Clearances' = [Clearances EXCEPT ![p] = 0]
  BY <1>1, <1>2, MoneyIsAllowances, BuyerLeaves
<1>4. TheAllowance!Leave(p)
  BY <1>2, <1>3 DEF TheAllowance!Leave, TheAllowance!Without, Lives, Stakes, Sent, Clearances
<1> QED
  BY <1>4 DEF AllowanceStep, TheAllowance!Next

\* Somebody begins to act for a purchase; what has lapsed by then it cannot use.
LEMMA AsksAllowance ==
    ASSUME TypeInv, NEW p \in Purchases, NEW a \in Authorities, UNCHANGED <<attempt, authority>>,
           \A q \in Purchases : q # p => Uses(q)' = Uses(q),
           Uses(p) \in {0, a}, Uses(p)' = Uses(p) \/ (Uses(p)' = a /\ ~authority[a].expired)
    PROVE  AllowanceStep
<1>1. UNCHANGED <<Lives, Stakes, Sent>> /\ a # 0
  BY MoneyIsAllowances, AuthorityAssumption
<1>2. \A q \in Purchases : q # p => Clearance(q)' = Clearance(q)
  BY <1>1, OneClearance
<1>3. CASE Clearance(p)' = Clearance(p)
  <2>1. UNCHANGED Clearances
    BY <1>2, <1>3 DEF Clearances
  <2> QED
    BY <1>1, <2>1 DEF AllowanceStep, TheAllowance!vars, Lives, Stakes, Sent, Clearances
<1>4. CASE Clearance(p)' # Clearance(p)
  <2>1. Uses(p)' # Uses(p)
    BY <1>1, <1>4, OneClearance
  <2>2. Uses(p) = 0 /\ Uses(p)' = a /\ ~authority[a].expired
    BY <2>1
  <2>3. Live(a)' /\ Clearance(p)' = a
    BY <1>1, <1>4, <2>2 DEF Clearance, Live
  <2>4. Live(a)
    BY <2>3 DEF Live
  <2>5. Lives[a] = "stands"
    BY <2>2, <2>4 DEF Lives, Life, Live
  <2>6. Clearances' = [Clearances EXCEPT ![p] = a]
    BY <1>2, <2>3 DEF Clearances
  <2>7. TheAllowance!Ask(p, a)
    BY <1>1, <2>5, <2>6 DEF TheAllowance!Ask, Lives, Stakes, Sent, Clearances
  <2> QED
    BY <2>7 DEF AllowanceStep, TheAllowance!Next
<1> QED
  BY <1>3, <1>4

LEMMA BeginPayAllowance ==
    ASSUME IInv, TypeInv, NEW p \in Purchases, NEW a \in Authorities, BeginPay(p, a)
    PROVE  AllowanceStep
<1> DEFINE r == [of |-> a, epoch |-> authority[a].epoch, late |-> authority[a].expired]
<1>1. /\ UNCHANGED <<attempt, authority, worker>> /\ paying[p] = NotPaying
      /\ paying' = [paying EXCEPT ![p] = r]
  BY DEF BeginPay, money
<1>2. r # NotPaying /\ r.of = a /\ r.late = authority[a].expired
  <2>1. r.of # NotPaying.of
    BY AuthorityAssumption DEF NotPaying
  <2> QED
    BY <2>1
<1> HIDE DEF r
<1>3. \A q \in Purchases : paying'[q] = IF q = p THEN r ELSE paying[q]
  BY <1>1 DEF TypeInv, RequestTypes
<1>4. \A w \in Workers : Busy(w) => At(w) # p
  BY NobodyAt DEF BeginPay, IInv, PurchaseInv, Reviewed
<1>5. Uses(p) = 0
  BY <1>1, <1>4 DEF Uses
<1>6. Uses(p)' = IF authority[a].expired THEN 0 ELSE a
  BY <1>2, <1>3 DEF Uses
<1>7. \A q \in Purchases : q # p => Uses(q)' = Uses(q)
  BY <1>1, <1>3 DEF Uses, Busy, At
<1> QED
  BY <1>1, <1>5, <1>6, <1>7, AsksAllowance

LEMMA TakeAllowance ==
    ASSUME IInv, TypeInv, NEW w \in Workers, NEW p \in Purchases, Take(w, p) PROVE AllowanceStep
<1> DEFINE a == attempt[p].of
<1>0. worker = [v \in Workers |-> worker[v]]
  BY DEF TypeInv, WorkTypes
<1>1. PICK cmd \in queue : /\ cmd[1] = p /\ worker[w].cmd # cmd
                           /\ worker' = [worker EXCEPT ![w] = Holding(cmd, authority[a].expired, FALSE)]
  BY DEF Take, Holding
<1>2. UNCHANGED <<attempt, authority, paying>> /\ ~Busy(w)
  BY DEF Take, money, requests
<1>3. a \in Authorities /\ paying[p] = NotPaying /\ cmd # <<>>
  <2>1. attempt[p].status # "NONE"
    BY <1>1 DEF TypeInv, Asked
  <2>2. cmd # <<>>
    BY <1>1, <1>2 DEF Busy
  <2> QED
    BY <2>1, <2>2 DEF TypeInv, AttemptOf, IInv, PurchaseInv, Reviewed
<1>4. \A v \in Workers : v # w => worker'[v] = worker[v]
  BY <1>0, <1>1
<1>5. worker'[w].cmd = cmd /\ worker'[w].late = authority[a].expired
  <2>1. PICK held : held = Holding(cmd, authority[a].expired, FALSE)
    OBVIOUS
  <2>2. worker' = [worker EXCEPT ![w] = held]
    BY <1>1, <2>1
  <2>3. worker'[w] = held
    BY <1>0, <2>2
  <2>4. held.cmd = cmd /\ held.late = authority[a].expired
    BY <2>1 DEF Holding
  <2> QED
    BY <2>3, <2>4
<1>6. /\ Busy(w)' /\ At(w)' = p
      /\ \A v \in Workers : v # w => (Busy(v)' <=> Busy(v)) /\ At(v)' = At(v)
  BY <1>1, <1>3, <1>4, <1>5 DEF Busy, At
<1>7. ASSUME NEW q \in Purchases, q # p PROVE Uses(q)' = Uses(q)
  <2>1. (\E v \in Workers : Busy(v) /\ At(v) = q /\ ~worker[v].late)'
          <=> \E v \in Workers : Busy(v) /\ At(v) = q /\ ~worker[v].late
    BY <1>2, <1>4, <1>6, <1>7
  <2> QED
    BY <1>2, <2>1 DEF Uses
<1>8. Uses(p) \in {0, a}
  BY <1>3 DEF Uses
<1>9. Uses(p)' = Uses(p) \/ (Uses(p)' = a /\ ~authority[a].expired)
  <2>1. CASE authority[a].expired
    <3>1. (\E v \in Workers : Busy(v) /\ At(v) = p /\ ~worker[v].late)'
            <=> \E v \in Workers : Busy(v) /\ At(v) = p /\ ~worker[v].late
      BY <1>2, <1>4, <1>5, <1>6, <2>1
    <3> QED
      BY <1>2, <3>1 DEF Uses
  <2>2. CASE ~authority[a].expired
    <3>1. (\E v \in Workers : Busy(v) /\ At(v) = p /\ ~worker[v].late)'
      BY <1>5, <1>6, <2>2
    <3> QED
      BY <1>2, <1>3, <2>2, <3>1 DEF Uses
  <2> QED
    BY <2>1, <2>2
<1> QED
  BY <1>2, <1>3, <1>7, <1>8, <1>9, AsksAllowance

LEMMA WaitAllowance ==
    ASSUME TypeInv, NEW w \in Workers, WaitWithVersion(w) PROVE AllowanceStep
<1>1. UNCHANGED <<attempt, authority, paying>> /\ worker' = [worker EXCEPT ![w].locked = TRUE]
  BY DEF WaitWithVersion, money, requests
<1>2. \A v \in Workers : worker'[v].cmd = worker[v].cmd /\ worker'[v].late = worker[v].late
  BY <1>1 DEF TypeInv, WorkTypes
<1>3. \A p \in Purchases : Uses(p)' = Uses(p)
  BY <1>1, <1>2 DEF Uses, Busy, At
<1>4. UNCHANGED <<Lives, Stakes, Sent>>
  BY <1>1, MoneyIsAllowances
<1>5. UNCHANGED Clearances
  BY <1>3, <1>4, OneClearance DEF Clearances
<1> QED
  BY <1>4, <1>5 DEF AllowanceStep, TheAllowance!vars, Lives, Stakes, Sent, Clearances

\* One permission's life goes on.
LEMMA PermissionIsAllowances ==
    ASSUME IInv, TypeInv, Unlapsed, Granted, NEW a \in Authorities,
           GrantAuthority(a) \/ Revoke(a) \/ AuthorityExpires(a)
    PROVE  AllowanceStep
<1> DEFINE r == authority[a]
<1>1. /\ r \in AuthorityRecord /\ UNCHANGED <<attempt, paying, worker>>
      /\ authority = [b \in Authorities |-> authority[b]]
  BY DEF TypeInv, MoneyTypes, GrantAuthority, Revoke, AuthorityExpires, requests
<1>2. UNCHANGED <<Stakes, Sent>> /\ \A q \in Purchases : Uses(q)' = Uses(q)
  BY <1>1, UsesSame DEF Stakes, Sent
<1>3. ASSUME NEW x, authority' = [authority EXCEPT ![a] = x]
      PROVE  /\ Lives' = [Lives EXCEPT ![a] = Life(a)'] /\ authority'[a] = x
             /\ \A q \in Purchases : Uses(q) # a => Clearance(q)' = Clearance(q)
             /\ (Live(a)' <=> Live(a)) => UNCHANGED Clearances
             /\ Life(a)' = Life(a) => AllowanceStep
  <2>1. authority'[a] = x /\ \A b \in Authorities : b # a => authority'[b] = authority[b]
    BY <1>1, <1>3
  <2>2. \A b \in Authorities : b # a => Life(b)' = Life(b)
    BY <2>1 DEF Life, Live
  <2>3. Lives' = [Lives EXCEPT ![a] = Life(a)']
    BY <2>2 DEF Lives
  <2>4. Life(a)' = Life(a) => UNCHANGED Lives
    BY <2>2 DEF Lives
  <2>5. \A q \in Purchases : Uses(q) # a => Clearance(q)' = Clearance(q)
    BY <1>2, <2>1, UsesTyped DEF Clearance, Live
  <2>6. (Live(a)' <=> Live(a)) => \A q \in Purchases : Clearance(q)' = Clearance(q)
    BY <1>2, <2>5 DEF Clearance, Live
  <2>7. (Live(a)' <=> Live(a)) => UNCHANGED Clearances
    BY <2>6 DEF Clearances
  <2>8. Life(a)' = Life(a) => UNCHANGED Clearances
    BY <1>1, <2>4, SameClearances
  <2>9. Life(a)' = Life(a) => AllowanceStep
    BY <1>2, <2>4, <2>8 DEF AllowanceStep, TheAllowance!vars, Lives, Stakes, Sent, Clearances
  <2> QED
    BY <2>1, <2>3, <2>5, <2>7, <2>9
<1>4. CASE GrantAuthority(a)
  <2> DEFINE x == [r EXCEPT !.status = "ACTIVE"]
  <2>1. authority' = [authority EXCEPT ![a] = x] /\ x.status = "ACTIVE" /\ x.expired = r.expired
    BY <1>1, <1>4 DEF GrantAuthority, AuthorityRecord
  <2> HIDE DEF x
  <2>2. Life(a) = "none" /\ \A b \in Authorities : Life(b) \notin {"stands", "lapsed"}
    BY <1>4 DEF GrantAuthority, Life
  <2>3. Life(a)' \in {"stands", "lapsed"} /\ (Life(a)' = "stands" <=> ~r.expired)
    BY <1>3, <2>1 DEF Life, Live
  <2>4. r.expired = FALSE
    BY <1>1, <1>4 DEF Unlapsed, GrantAuthority, AuthorityRecord
  <2>5. Lives' = [Lives EXCEPT ![a] = "stands"]
    BY <1>3, <2>1, <2>3, <2>4
  <2>6. \A q \in Purchases : Uses(q) # a
    BY <1>4, NobodyAt, AuthorityAssumption DEF GrantAuthority, Granted, Uses
  <2>7. UNCHANGED Clearances
    BY <1>3, <2>1, <2>6 DEF Clearances
  <2>8. TheAllowance!Permit(a)
    BY <1>2, <2>2, <2>5, <2>7 DEF TheAllowance!Permit, Lives, Stakes, Sent, Clearances
  <2> QED
    BY <2>8 DEF AllowanceStep, TheAllowance!Next
<1>5. CASE Revoke(a)
  <2> DEFINE gone == [r EXCEPT !.status = "REVOKED"]
             x == [gone EXCEPT !.epoch = r.epoch + 1]
  <2>1. x.status = "REVOKED" /\ gone.epoch = r.epoch
    BY <1>1 DEF AuthorityRecord
  <2>2. authority' = [authority EXCEPT ![a] = x]
    <3>1. [authority EXCEPT ![a].status = "REVOKED"] = [authority EXCEPT ![a] = gone]
      OBVIOUS
    <3>2. authority' = [[authority EXCEPT ![a].status = "REVOKED"] EXCEPT ![a].epoch = @ + 1]
      BY <1>5 DEF Revoke
    <3> HIDE DEF gone
    <3>3. PICK between : between = [authority EXCEPT ![a] = gone]
      OBVIOUS
    <3>4. between[a] = gone /\ \A y : [between EXCEPT ![a] = y] = [authority EXCEPT ![a] = y]
      BY <1>1, <3>3
    <3>5. authority' = [between EXCEPT ![a] = [between[a] EXCEPT !.epoch = between[a].epoch + 1]]
      BY <3>1, <3>2, <3>3
    <3>6. [between[a] EXCEPT !.epoch = between[a].epoch + 1] = x
      BY <2>1, <3>4
    <3> QED
      BY <3>4, <3>5, <3>6
  <2> HIDE DEF x
  <2>3. Life(a)' = "over" /\ Life(a) # "none" /\ Lives' = [Lives EXCEPT ![a] = "over"]
    BY <1>3, <1>5, <2>1, <2>2 DEF Revoke, Life, Live
  <2>4. CASE Life(a) = "over"
    BY <1>3, <2>2, <2>3, <2>4
  <2>5. CASE Life(a) # "over"
    <3>1. Life(a) \in {"stands", "lapsed"}
      BY <2>3, <2>5 DEF Life
    <3>2. \A q \in Purchases : Clearance(q)' = IF Clearance(q) = a THEN 0 ELSE Clearance(q)
      <4>1. Live(a) /\ ~Live(a)' /\ a # 0
        BY <2>3, <3>1, AuthorityAssumption DEF Life, Live
      <4>2. ASSUME NEW q \in Purchases, Uses(q) = a
            PROVE  Clearance(q) = a /\ Clearance(q)' = 0
        BY <1>2, <4>1, <4>2 DEF Clearance, Live
      <4>3. ASSUME NEW q \in Purchases, Uses(q) # a
            PROVE  Clearance(q) # a /\ Clearance(q)' = Clearance(q)
        BY <1>3, <2>2, <4>1, <4>3 DEF Clearance
      <4> QED
        BY <4>2, <4>3
    <3>3. Clearances' = [q \in Purchases |-> IF Clearances[q] = a THEN 0 ELSE Clearances[q]]
      BY <3>2 DEF Clearances
    <3>4. TheAllowance!Withdraw(a)
      BY <1>2, <2>3, <3>1, <3>3 DEF TheAllowance!Withdraw, Lives, Stakes, Sent, Clearances
    <3> QED
      BY <3>4 DEF AllowanceStep, TheAllowance!Next
  <2> QED
    BY <2>4, <2>5
<1>6. CASE AuthorityExpires(a)
  <2> DEFINE x == [r EXCEPT !.expired = TRUE]
  <2>1. /\ authority' = [authority EXCEPT ![a] = x] /\ x.status = r.status /\ x.expired = TRUE
        /\ r.status # "NONE" /\ r.expired = FALSE
    BY <1>1, <1>6 DEF AuthorityExpires, AuthorityRecord
  <2> HIDE DEF x
  <2>2. CASE Live(a)
    <3>1. Life(a) = "stands"
      BY <2>1, <2>2 DEF Life
    <3>2. Life(a)' = "lapsed"
      BY <1>3, <2>1, <2>2 DEF Life, Live
    <3>3. Lives' = [Lives EXCEPT ![a] = "lapsed"]
      BY <1>3, <2>1, <3>2
    <3>4. UNCHANGED Clearances
      BY <1>3, <2>1 DEF Live
    <3>5. TheAllowance!Expire(a)
      BY <1>2, <3>1, <3>3, <3>4 DEF TheAllowance!Expire, Lives, Stakes, Sent, Clearances
    <3> QED
      BY <3>5 DEF AllowanceStep, TheAllowance!Next
  <2>3. CASE ~Live(a)
    <3>1. Life(a)' = Life(a)
      BY <1>3, <2>1, <2>3 DEF Life, Live
    <3> QED
      BY <1>3, <2>1, <3>1
  <2> QED
    BY <2>2, <2>3
<1> QED
  BY <1>4, <1>5, <1>6

\* The transactions that write the authority of a purchase.
AuthorityWritten ==
    \A a \in Authorities : \E n \in Int : authority'[a] \in {authority[a], Restored(authority[a], n)}

LEMMA WritesRestore ==
    ASSUME TypeInv, NEW p \in Purchases, NEW r, NEW c, Writes(p, r, c) PROVE AuthorityWritten
<1>1. Price[p] \in Int
  BY AmountAssumption
<1>2. \A a \in Authorities : authority'[a] \in {authority[a], Restored(authority[a], Price[p])}
  BY DEF Writes, TypeInv, MoneyTypes
<1> QED
  BY <1>1, <1>2 DEF AuthorityWritten

LEMMA SweepRestores ==
    ASSUME IInv, TypeInv, CommitSweep PROVE AuthorityWritten
<1> SUFFICES ASSUME NEW a \in Authorities
             PROVE  \E n \in Int : authority'[a] \in {authority[a], Restored(authority[a], n)}
  BY DEF AuthorityWritten
<1>1. authority'[a] = IF Given(a) = {} THEN authority[a] ELSE Restored(authority[a], Total(Given(a)))
  BY SweepWrites
<1>2. Given(a) \subseteq Allocated /\ Given(a) \subseteq Purchases
  BY SweepWrites DEF Given, Ended, Allocated
<1>3. IsFiniteSet(Given(a)) /\ \A x \in Given(a) : Price[x] \in Int
  BY <1>2, FS_Subset, AmountAssumption DEF TypeInv
<1>4. Total(Given(a)) \in Int
  BY <1>3, SumInt, TotalIsSum
<1> QED
  BY <1>1, <1>4

LEMMA WrittenLives ==
    ASSUME TypeInv, AuthorityWritten PROVE UNCHANGED Lives
BY LifeKept, SameLives DEF AuthorityWritten

\* One purchase's claim is written, and everybody else's is as it was.
LEMMA OneClaim ==
    ASSUME NEW p \in Purchases, \A q \in Purchases : q # p => attempt'[q] = attempt[q]
    PROVE  Stakes' = [Stakes EXCEPT ![p] = Claim(attempt'[p].of, attempt'[p].alloc)]
BY DEF Stakes, Claim

LEMMA OneSent ==
    ASSUME NEW p \in Purchases, \A q \in Purchases : q # p => attempt'[q] = attempt[q]
    PROVE  /\ attempt'[p].grant = "CONSUMED" => Sent' = Sent \cup {p}
           /\ attempt'[p].grant = attempt[p].grant => UNCHANGED Sent
BY DEF Sent

LEMMA AdmitIsAllot ==
    ASSUME IInv, TypeInv, BookInv, NEW p \in Purchases, Admit(p) PROVE AllowanceStep
<1>0. PICK b \in Authorities : b = paying[p].of
  BY AdmitWrites
<1>1. /\ attempt[p].status = "NONE" /\ attempt'[p].of = b /\ attempt'[p].alloc = "HELD"
      /\ \A q \in Purchases : q # p => attempt'[q] = attempt[q]
      /\ \A a \in Authorities : a # b => authority'[a] = authority[a]
      /\ authority[b].status = "ACTIVE" /\ authority[b].consumed + Price[p] <= Ceiling
      /\ authority'[b].status \in {"ACTIVE", "EXHAUSTED"}
      /\ authority'[b].expired = authority[b].expired
  BY <1>0, AdmitWrites
<1>2. attempt[p].alloc = "NONE" /\ attempt[p].grant # "CONSUMED"
  BY <1>1 DEF IInv, PurchaseInv, Sound
<1>3. /\ paying[p] # NotPaying /\ ~paying[p].late /\ Price[p] <= PurchaseLimit
      /\ paying' = [paying EXCEPT ![p] = NotPaying] /\ UNCHANGED worker
  BY <1>0 DEF Admit, Decides, Permitted, Covers
<1>4. Clearance(p) = b
  BY <1>0, <1>1, <1>3, AuthorityAssumption DEF Clearance, Uses, Live
<1>5. UNCHANGED Lives
  <2>1. ASSUME NEW a \in Authorities PROVE Life(a)' = Life(a)
    BY <1>1 DEF Life, Live
  <2> QED
    BY <2>1, SameLives
<1>6. Stakes' = [Stakes EXCEPT ![p] = Claim(b, "HELD")]
  BY <1>1, OneClaim
<1>7. UNCHANGED Sent
  <2>1. attempt'[p].grant # "CONSUMED"
    BY <1>2, OthersConsumeNothing DEF BuyerStep
  <2> QED
    BY <1>1, <1>2, <2>1 DEF Sent
<1>8. TheAllowance!Total(TheAllowance!Committed(b) \cup {p}) <= Ceiling
  <2>1. Counted(b) \in SUBSET Purchases /\ IsFiniteSet(Counted(b)) /\ p \notin Counted(b)
    BY <1>2, CountedFinite DEF Counted
  <2>2. \A y \in Counted(b) \cup {p} : Price[y] \in Int
    BY <2>1, AmountAssumption
  <2>3. Sum(Price, Counted(b) \cup {p}) = Price[p] + Sum(Price, Counted(b))
    BY <2>1, <2>2, SumAdd
  <2>4. authority[b].consumed = Total(Counted(b))
    BY DEF BookInv, Book
  <2>5. Price[p] \in Int /\ authority[b].consumed \in Int
    BY AmountAssumption DEF TypeInv, MoneyTypes, AuthorityRecord
  <2>6. Total(Counted(b) \cup {p}) = authority[b].consumed + Price[p]
    BY <2>3, <2>4, <2>5, TotalIsSum
  <2> QED
    BY <1>1, <2>6, CommittedIsCounted, TotalIsAllowances
<1>9. Clearances' = [Clearances EXCEPT ![p] = 0]
  BY <1>1, <1>3, <1>5, BuyerLeaves
<1>10. TheAllowance!Allot(p, b)
  BY <1>2, <1>3, <1>4, <1>5, <1>6, <1>7, <1>8, <1>9
     DEF TheAllowance!Allot, TheAllowance!Claims, TheAllowance!Without, Claim, Lives, Stakes, Sent,
         Clearances
<1> QED
  BY <1>10 DEF AllowanceStep, TheAllowance!Next

LEMMA SweepIsGiveBack ==
    ASSUME IInv, TypeInv, CommitSweep PROVE AllowanceStep
<1>1. \A q \in Purchases :
        /\ attempt'[q].of = attempt[q].of
        /\ attempt'[q].alloc = IF q \in Ended THEN "RELEASED" ELSE attempt[q].alloc
        /\ q \in Ended => attempt[q].alloc = "HELD"
  BY SweepWrites
<1>2. \A q \in Ended : q \in Purchases /\ attempt[q].grant # "CONSUMED"
  BY DEF Ended, IInv, PurchaseInv, Sound
<1>3. UNCHANGED Sent
  BY OthersConsumeNothing DEF SweepStep, Sent
<1>4. UNCHANGED Lives
  BY SweepRestores, WrittenLives
<1>5. Stakes' = [p \in Purchases |->
                  [of |-> Stakes[p].of, state |-> IF p \in Ended THEN "RELEASED" ELSE Stakes[p].state]]
  BY <1>1 DEF Stakes
<1>6. PICK S \in SUBSET Purchases : S = Ended
  BY <1>2
<1>7. UNCHANGED Clearances
  BY <1>1, <1>4, SameClearances DEF CommitSweep, requests
<1>8. TheAllowance!GiveBack(S)
  BY <1>1, <1>2, <1>3, <1>4, <1>5, <1>6, <1>7
     DEF TheAllowance!GiveBack, Lives, Stakes, Sent, Clearances
<1> QED
  BY <1>8 DEF AllowanceStep, TheAllowance!Next

\* What a transaction of the worker writes: the claim of its own purchase.
LEMMA WorkerClaims ==
    ASSUME IInv, TypeInv, NEW w \in Workers, RefuseDebit(w) \/ AcceptDebit(w) \/ ApplyOutcome(w)
    PROVE  LET p == At(w)
           IN  /\ p \in Purchases /\ attempt[p].alloc = "HELD"
               /\ \A q \in Purchases : q # p => attempt'[q] = attempt[q]
               /\ attempt'[p].alloc \in {"HELD", "SPENT", "RELEASED"}
               /\ attempt'[p].of = attempt[p].of /\ attempt[p].of \in Authorities
               /\ Stakes' = [Stakes EXCEPT ![p] = Claim(attempt[p].of, attempt'[p].alloc)]
               /\ UNCHANGED Lives
               /\ Clearances' \in {Clearances, [Clearances EXCEPT ![p] = 0]}
<1> DEFINE p == At(w)
<1>0. /\ Busy(w) /\ UNCHANGED paying /\ worker' = [worker EXCEPT ![w] = IdleWorker]
  BY DEF RefuseDebit, AcceptDebit, ApplyOutcome, Handles, Finish, requests
<1>1. /\ p \in Purchases /\ attempt[p].alloc = "HELD" /\ attempt[p].of \in Authorities
      /\ Written(p, attempt[p])
  BY WorkersWrite
<1>2. PICK record \in AttemptRecord, c \in CheckoutState :
        Writes(p, record, c) /\ record.of = attempt[p].of /\ record.alloc = attempt[p].alloc
  BY <1>1 DEF Written
<1> HIDE DEF p
<1>3. /\ \A q \in Purchases : q # p => attempt'[q] = attempt[q]
      /\ attempt'[p].of = record.of /\ attempt'[p].alloc = SettledAs(record.alloc, record.status)
  BY <1>1, <1>2, WritesTyped
<1>4. attempt'[p].alloc \in {"HELD", "SPENT", "RELEASED"}
  BY <1>1, <1>2, <1>3 DEF SettledAs
<1>5. UNCHANGED Lives
  BY <1>1, <1>2, WritesRestore, WrittenLives
<1>6. Stakes' = [Stakes EXCEPT ![p] = Claim(attempt[p].of, attempt'[p].alloc)]
  BY <1>1, <1>2, <1>3, OneClaim
<1>7. Clearances' \in {Clearances, [Clearances EXCEPT ![p] = 0]}
  <2>1. \A q \in Purchases : attempt'[q].of = attempt[q].of
    BY <1>2, <1>3
  <2> QED
    BY <1>0, <1>5, <2>1, WorkerLeaves DEF p
<1> QED
  BY <1>1, <1>2, <1>3, <1>4, <1>5, <1>6, <1>7 DEF p

LEMMA RefuseDebitIsGiveBack ==
    ASSUME IInv, TypeInv, NEW w \in Workers, RefuseDebit(w) PROVE AllowanceStep
<1>0. PICK p \in Purchases : p = At(w)
  BY WorkerClaims
<1>1. /\ attempt[p].alloc = "HELD" /\ \A q \in Purchases : q # p => attempt'[q] = attempt[q]
      /\ Stakes' = [Stakes EXCEPT ![p] = Claim(attempt[p].of, attempt'[p].alloc)]
      /\ UNCHANGED Lives
      /\ Clearances' \in {Clearances, [Clearances EXCEPT ![p] = 0]}
  BY <1>0, WorkerClaims
<1> DEFINE r == [attempt[p] EXCEPT !.status = "FAILED"]
<1>2. /\ AttemptShape(attempt[p]) /\ attempt[p].status = "CREATED"
      /\ attempt[p].grant # "CONSUMED" /\ attempt[p] \in AttemptRecord
      /\ attempt[p].of \in Authorities
  BY <1>0, WorkerClaims DEF RefuseDebit, Sends, IInv, PurchaseInv, Sound, TypeInv, MoneyTypes
<1>3. r = [status |-> "FAILED", of |-> attempt[p].of, epoch |-> attempt[p].epoch,
           alloc |-> attempt[p].alloc, outcome |-> attempt[p].outcome,
           grant |-> attempt[p].grant, closed |-> attempt[p].closed]
  BY <1>2, StatusChanged
<1>4. /\ AttemptShape(r) /\ r \in AttemptRecord /\ r.grant = attempt[p].grant
      /\ r.alloc = attempt[p].alloc /\ r.status = "FAILED" /\ r.of = attempt[p].of
  BY <1>2, <1>3 DEF AttemptShape, AttemptRecord
<1>5. Writes(p, r, MovedIfLegal(version[p], "PAYMENT_FAILED"))
  BY <1>0 DEF RefuseDebit
<1> HIDE DEF r
<1>6. attempt'[p].grant = attempt[p].grant
  BY <1>4, <1>5, WritesElsewhere
<1>7. attempt'[p].alloc = "RELEASED"
  <2>1. MovedIfLegal(version[p], "PAYMENT_FAILED") \in CheckoutState
    BY MovedIsState DEF TypeInv, MoneyTypes, CheckoutState
  <2>2. attempt'[p].alloc = SettledAs(r.alloc, r.status)
    BY <1>2, <1>4, <1>5, <2>1, WritesTyped
  <2> QED
    BY <1>1, <1>4, <2>2 DEF SettledAs
<1>8. UNCHANGED Sent
  BY <1>1, <1>6, OneSent
<1>9. Stakes' = [q \in Purchases |->
                  [of |-> Stakes[q].of, state |-> IF q \in {p} THEN "RELEASED" ELSE Stakes[q].state]]
  BY <1>1, <1>7 DEF Stakes, Claim
<1>10. TheAllowance!GiveBack({p}) /\ {p} \in SUBSET Purchases
  BY <1>1, <1>2, <1>8, <1>9
     DEF TheAllowance!GiveBack, TheAllowance!Without, Lives, Stakes, Sent, Clearances
<1> QED
  BY <1>10 DEF AllowanceStep, TheAllowance!Next

LEMMA AcceptDebitIsDebit ==
    ASSUME IInv, TypeInv, NEW w \in Workers, AcceptDebit(w) PROVE AllowanceStep
<1>0. PICK p \in Purchases : p = At(w)
  BY WorkerClaims
<1>1. /\ attempt[p].alloc = "HELD" /\ \A q \in Purchases : q # p => attempt'[q] = attempt[q]
      /\ attempt'[p].alloc \in {"HELD", "SPENT", "RELEASED"} /\ attempt[p].of \in Authorities
      /\ Stakes' = [Stakes EXCEPT ![p] = Claim(attempt[p].of, attempt'[p].alloc)]
      /\ UNCHANGED Lives
      /\ Clearances' \in {Clearances, [Clearances EXCEPT ![p] = 0]}
  BY <1>0, WorkerClaims
<1>2. /\ AttemptShape(attempt[p]) /\ attempt[p].grant # "CONSUMED"
      /\ Clearance(p) = attempt[p].of
  <2>1. /\ attempt[p].status = "CREATED" /\ Live(attempt[p].of) /\ ~worker[w].late /\ Busy(w)
    BY <1>0 DEF AcceptDebit, Sends, StillAuthorised, Handles
  <2>2. Uses(p) = attempt[p].of
    BY <1>0, <2>1 DEF Uses, IInv, PurchaseInv, Reviewed
  <2>3. attempt[p].of # 0
    BY <1>1, AuthorityAssumption
  <2> QED
    BY <1>0, <2>1, <2>2, <2>3 DEF Clearance, IInv, PurchaseInv, Sound
<1> DEFINE sent == [attempt[p] EXCEPT !.grant = "CONSUMED"]
           unknown == [sent EXCEPT !.status = "UNKNOWN"]
<1>3. AttemptShape(sent) /\ sent.grant = "CONSUMED"
  <2>1. sent = [status |-> attempt[p].status, of |-> attempt[p].of, epoch |-> attempt[p].epoch,
                alloc |-> attempt[p].alloc, outcome |-> attempt[p].outcome,
                grant |-> "CONSUMED", closed |-> attempt[p].closed]
    BY <1>2, GrantChanged
  <2> QED
    BY <2>1 DEF AttemptShape
<1>4. \/ \E c : Writes(p, unknown, c)
      \/ \E checkout, late : Evidence(p, sent, checkout, late)
  BY <1>0 DEF AcceptDebit
<1> HIDE DEF sent
<1>5. AttemptShape(unknown) /\ unknown.grant = sent.grant
  BY <1>3, StatusKeepsGrant
<1> HIDE DEF unknown
<1>6. attempt'[p].grant = "CONSUMED"
  BY <1>3, <1>4, <1>5, WritesElsewhere, EvidenceElsewhere
<1>7. Sent' = Sent \cup {p} /\ p \notin Sent
  BY <1>1, <1>2, <1>6, OneSent DEF Sent
<1>8. PICK answer \in TheAllowance!Answers : answer = attempt'[p].alloc
  BY <1>1 DEF TheAllowance!Answers
<1>9. TheAllowance!Debit(p, answer)
  BY <1>1, <1>2, <1>7, <1>8
     DEF TheAllowance!Debit, TheAllowance!Claims, TheAllowance!Leaves, TheAllowance!Without, Claim,
         Lives, Stakes, Sent, Clearances
<1> QED
  BY <1>9 DEF AllowanceStep, TheAllowance!Next

LEMMA ApplyOutcomeIsLearn ==
    ASSUME IInv, TypeInv, NEW w \in Workers, ApplyOutcome(w) PROVE AllowanceStep
<1>0. PICK p \in Purchases : p = At(w)
  BY WorkerClaims
<1>1. /\ attempt[p].alloc = "HELD" /\ \A q \in Purchases : q # p => attempt'[q] = attempt[q]
      /\ attempt'[p].alloc \in {"HELD", "SPENT", "RELEASED"}
      /\ Stakes' = [Stakes EXCEPT ![p] = Claim(attempt[p].of, attempt'[p].alloc)]
      /\ UNCHANGED Lives
      /\ Clearances' \in {Clearances, [Clearances EXCEPT ![p] = 0]}
  BY <1>0, WorkerClaims
<1>2. AttemptShape(attempt[p]) /\ attempt[p].grant = "CONSUMED"
  BY <1>0 DEF ApplyOutcome, IInv, PurchaseInv, Sound
<1>3. Evidence(p, attempt[p], version[p], Due(p))
  BY <1>0 DEF ApplyOutcome
<1>4. attempt'[p].grant = attempt[p].grant
  BY <1>2, <1>3, EvidenceElsewhere
<1>5. UNCHANGED Sent /\ p \in Sent
  BY <1>1, <1>2, <1>4, OneSent DEF Sent
<1>6. TheAllowance!Learn(p, attempt'[p].alloc)
  BY <1>1, <1>5
     DEF TheAllowance!Learn, TheAllowance!Claims, TheAllowance!Leaves, TheAllowance!Without, Claim,
         Lives, Stakes, Sent, Clearances
<1> QED
  BY <1>1, <1>6 DEF AllowanceStep, TheAllowance!Next, TheAllowance!Answers

LEMMA NothingAllottedHere ==
    ASSUME TypeInv, SameAllocations, UNCHANGED <<authority, paying, worker>>,
           \A q \in Purchases : attempt'[q].grant = "CONSUMED" <=> attempt[q].grant = "CONSUMED"
    PROVE  AllowanceStep
<1>1. UNCHANGED Lives
  BY DEF Lives, Life, Live
<1>2. UNCHANGED Clearances
  BY <1>1, SameClearances DEF SameAllocations
<1> QED
  BY <1>1, <1>2, NothingAllotted

LEMMA BuyersAllowance ==
    ASSUME IInv, TypeInv, BookInv, NEW p \in Purchases, BuyerStep(p) PROVE AllowanceStep
<1>1. CASE Cancel(p)
  <2>1. SameAllocations /\ UNCHANGED <<authority, paying, worker>>
    BY <1>1, CancelTyped DEF Cancel
  <2>2. \A q \in Purchases : attempt'[q].grant = "CONSUMED" <=> attempt[q].grant = "CONSUMED"
    BY OthersConsumeNothing
  <2> QED
    BY <2>1, <2>2, NothingAllottedHere
<1>2. CASE CancelReads(p) \/ CancelRefused(p)
  BY <1>2, SameMoney DEF CancelReads, CancelRefused, money
<1> QED
  BY <1>1, <1>2, BeginPayAllowance, BuyerLeavesAllowance, AdmitIsAllot DEF BuyerStep

LEMMA WorkersAllowance ==
    ASSUME IInv, TypeInv, NEW w \in Workers, WorkerStep(w) PROVE AllowanceStep
<1>1. CASE NothingToDo(w) \/ AskAgain(w) \/ Bury(w)
  BY <1>1, WorkerLeavesAllowance DEF NothingToDo, AskAgain, Bury, Handles, Finish, money, requests
<1>2. CASE Crash(w) \/ WorkerVictim(w)
  <2>1. Busy(w)
    BY <1>2 DEF Crash, WorkerVictim, Deadlocked, TypeInv, Apart
  <2> QED
    BY <1>2, <2>1, WorkerLeavesAllowance DEF Crash, WorkerVictim, money, requests
<1> QED
  BY <1>1, <1>2, TakeAllowance, WaitAllowance, RefuseDebitIsGiveBack, AcceptDebitIsDebit,
     ApplyOutcomeIsLearn
     DEF WorkerStep, Handle

LEMMA OthersAllowance ==
    ASSUME IInv, TypeInv, Unlapsed, Granted, SweepStep \/ Surroundings PROVE AllowanceStep
<1>1. CASE (\E p \in Scripted, o \in Outcomes : Simulate(p, o))
           \/ \E s \in {"tenant", "global"} : EnterSafeMode(s)
  <2>1. SameAllocations /\ UNCHANGED authority
    BY <1>1, SimulateTyped, EnterSafeModeTyped
  <2>2. UNCHANGED <<paying, worker>>
    BY <1>1 DEF Simulate, EnterSafeMode, Switch, requests
  <2>3. \A q \in Purchases : attempt'[q].grant = "CONSUMED" <=> attempt[q].grant = "CONSUMED"
    BY <1>1, OthersConsumeNothing DEF Surroundings
  <2> QED
    BY <2>1, <2>2, <2>3, NothingAllottedHere
<1>2. CASE (\E p \in Purchases : WindowEnds(p)) \/ \E s \in {"tenant", "global"} : LeaveSafeMode(s)
  BY <1>2, SameMoney DEF WindowEnds, LeaveSafeMode, Switch, money, requests
<1>3. CASE (\E p \in Purchases : StartSweep(p) \/ LockNext(p)) \/ SweepVictim
  BY <1>3, SameMoney DEF StartSweep, LockNext, Locks, SweepVictim, money, requests
<1> QED
  BY <1>1, <1>2, <1>3, SweepIsGiveBack, PermissionIsAllowances DEF SweepStep, Surroundings

LEMMA GrantedInit == Init => Unlapsed /\ Granted
<1> SUFFICES ASSUME Init PROVE Unlapsed /\ Granted
  OBVIOUS
<1>1. \A p \in Purchases : paying[p] = NotPaying /\ attempt[p].status = "NONE"
  BY DEF Init, NoAttempt
<1> QED
  BY <1>1 DEF Init, Unlapsed, Granted

\* A permission that was given is never taken for one that was not.
GivenStay ==
    \A a \in Authorities :
        authority'[a].status = "NONE" =>
            authority[a].status = "NONE" /\ authority'[a].expired = authority[a].expired

LEMMA PermissionsStayGiven == ASSUME IInv, TypeInv, [Next]_vars PROVE GivenStay
<1>1. CASE UNCHANGED authority
  BY <1>1 DEF GivenStay
<1>2. CASE AuthorityWritten
  <2> SUFFICES ASSUME NEW a \in Authorities, authority'[a].status = "NONE"
               PROVE  authority[a].status = "NONE" /\ authority'[a].expired = authority[a].expired
    BY DEF GivenStay
  <2>1. authority[a] \in AuthorityRecord
    BY DEF TypeInv, MoneyTypes
  <2> QED
    BY <1>2, <2>1, RestoredFields DEF AuthorityWritten
<1>3. ASSUME NEW p \in Purchases, BuyerStep(p) PROVE GivenStay
  <2>1. CASE Admit(p)
    <3>1. PICK b \in Authorities :
            /\ \A a \in Authorities : a # b => authority'[a] = authority[a]
            /\ authority'[b].status \in {"ACTIVE", "EXHAUSTED"}
      BY <2>1, AdmitWrites
    <3> QED
      BY <3>1 DEF GivenStay
  <2> QED
    BY <1>1, <1>3, <2>1 DEF BuyerStep, BeginPay, PayRefused, Deny, CancelReads, CancelRefused,
       Cancel, money
<1>4. ASSUME NEW w \in Workers, WorkerStep(w) PROVE GivenStay
  <2>1. CASE RefuseDebit(w) \/ AcceptDebit(w) \/ ApplyOutcome(w)
    <3>1. At(w) \in Purchases /\ \E record, c : Writes(At(w), record, c)
      BY <2>1, WorkersWrite DEF Written
    <3> QED
      BY <1>2, <3>1, WritesRestore
  <2> QED
    BY <1>1, <1>4, <2>1 DEF WorkerStep, Handle, Take, WaitWithVersion, NothingToDo, AskAgain, Bury,
       Crash, WorkerVictim, money
<1>5. CASE SweepStep
  BY <1>1, <1>2, <1>5, SweepRestores DEF SweepStep, StartSweep, LockNext, Locks, SweepVictim, money
<1>6. CASE Surroundings
  <2>1. ASSUME NEW a \in Authorities, GrantAuthority(a) \/ Revoke(a) \/ AuthorityExpires(a)
        PROVE  GivenStay
    <3>1. \A b \in Authorities : b # a => authority'[b] = authority[b]
      BY <2>1 DEF GrantAuthority, Revoke, AuthorityExpires, TypeInv, MoneyTypes
    <3>2. authority'[a].status # "NONE"
      BY <2>1 DEF GrantAuthority, Revoke, AuthorityExpires, TypeInv, MoneyTypes, AuthorityRecord
    <3> QED
      BY <3>1, <3>2 DEF GivenStay
  <2> QED
    BY <1>1, <1>6, <2>1 DEF Surroundings, WindowEnds, Simulate, EnterSafeMode, LeaveSafeMode,
       Switch, money
<1> QED
  BY <1>1, <1>3, <1>4, <1>5, <1>6 DEF Next, vars

\* An attempt keeps its authority, which is the one the pay request named.
OfKept(q) ==
    attempt'[q].status # "NONE" =>
        \/ attempt[q].status # "NONE" /\ attempt'[q].of = attempt[q].of
        \/ paying[q] # NotPaying /\ attempt'[q].of = paying[q].of

LEMMA AttemptsKeepAuthority ==
    ASSUME IInv, TypeInv, [Next]_vars, NEW q \in Purchases PROVE OfKept(q)
<1>1. CASE UNCHANGED attempt
  BY <1>1 DEF OfKept
<1>2. CASE SameAllocations
  BY <1>2 DEF SameAllocations, OfKept
<1>3. ASSUME NEW p \in Purchases, BuyerStep(p) PROVE OfKept(q)
  <2>1. CASE Admit(p)
    BY <2>1, AdmitWrites, ZenonT(30) DEF Admit, Decides, OfKept
  <2>2. CASE Cancel(p)
    BY <1>2, <2>2, CancelTyped
  <2> QED
    BY <1>1, <1>3, <2>1, <2>2
       DEF BuyerStep, BeginPay, PayRefused, Deny, CancelReads, CancelRefused, money
<1>4. ASSUME NEW w \in Workers, WorkerStep(w) PROVE OfKept(q)
  <2>1. CASE RefuseDebit(w) \/ AcceptDebit(w) \/ ApplyOutcome(w)
    <3>1. PICK p \in Purchases :
            /\ attempt[p].alloc = "HELD" /\ attempt'[p].of = attempt[p].of
            /\ q # p => attempt'[q] = attempt[q]
      BY <2>1, WorkerClaims
    <3>2. attempt[p].status # "NONE"
      BY <3>1 DEF IInv, PurchaseInv, Sound
    <3> QED
      BY <3>1, <3>2 DEF OfKept
  <2> QED
    BY <1>1, <1>4, <2>1 DEF WorkerStep, Handle, Take, WaitWithVersion, NothingToDo, AskAgain, Bury,
       Crash, WorkerVictim, money
<1>5. CASE SweepStep
  <2>1. CASE CommitSweep
    BY <2>1, SweepWrites DEF OfKept
  <2> QED
    BY <1>1, <1>5, <2>1 DEF SweepStep, StartSweep, LockNext, Locks, SweepVictim, money
<1>6. CASE Surroundings
  <2>1. CASE (\E p \in Scripted, o \in Outcomes : Simulate(p, o))
             \/ \E s \in {"tenant", "global"} : EnterSafeMode(s)
    BY <1>2, <2>1, SimulateTyped, EnterSafeModeTyped
  <2> QED
    BY <1>1, <1>6, <2>1 DEF Surroundings, WindowEnds, LeaveSafeMode, GrantAuthority, Revoke,
       AuthorityExpires, money
<1> QED
  BY <1>1, <1>3, <1>4, <1>5, <1>6 DEF Next, vars

LEMMA RequestsNameGiven ==
    ASSUME TypeInv, Granted, [Next]_vars, NEW q \in Purchases, paying'[q] # NotPaying
    PROVE  authority[paying'[q].of].status # "NONE"
<1>1. CASE UNCHANGED paying
  BY <1>1 DEF Granted
<1>2. ASSUME NEW p \in Purchases, BuyerStep(p) PROVE authority[paying'[q].of].status # "NONE"
  <2>1. ASSUME NEW a \in Authorities, BeginPay(p, a)
        PROVE  authority[paying'[q].of].status # "NONE"
    <3> DEFINE r == [of |-> a, epoch |-> authority[a].epoch, late |-> authority[a].expired]
    <3>1. paying' = [paying EXCEPT ![p] = r] /\ authority[a].status # "NONE" /\ r.of = a
      BY <2>1 DEF BeginPay
    <3> HIDE DEF r
    <3>2. paying'[q] = IF q = p THEN r ELSE paying[q]
      BY <3>1 DEF TypeInv, RequestTypes
    <3> QED
      BY <3>1, <3>2 DEF Granted
  <2>2. CASE PayRefused(p) \/ Deny(p) \/ Admit(p)
    <3>1. paying' = [paying EXCEPT ![p] = NotPaying]
      BY <2>2 DEF PayRefused, Deny, Admit
    <3>2. paying'[q] = paying[q]
      BY <3>1 DEF TypeInv, RequestTypes
    <3> QED
      BY <3>2 DEF Granted
  <2> QED
    BY <1>1, <1>2, <2>1, <2>2 DEF BuyerStep, CancelReads, CancelRefused, Cancel
<1>3. ASSUME NEW w \in Workers, WorkerStep(w) PROVE UNCHANGED paying
  BY <1>3 DEF WorkerStep, Handle, Take, WaitWithVersion, NothingToDo, RefuseDebit, AcceptDebit,
     AskAgain, ApplyOutcome, Bury, Crash, WorkerVictim, requests
<1>4. CASE SweepStep
  BY <1>1, <1>4 DEF SweepStep, StartSweep, LockNext, Locks, CommitSweep, SweepVictim, requests
<1>5. CASE Surroundings
  BY <1>1, <1>5 DEF Surroundings, WindowEnds, Simulate, EnterSafeMode, LeaveSafeMode, Switch,
     GrantAuthority, Revoke, AuthorityExpires, requests
<1> QED
  BY <1>1, <1>2, <1>3, <1>4, <1>5 DEF Next, vars

LEMMA GrantedStep == Sums /\ Unlapsed /\ Granted /\ [Next]_vars => Unlapsed' /\ Granted'
<1> SUFFICES ASSUME IInv, TypeInv, Unlapsed, Granted, [Next]_vars PROVE Unlapsed' /\ Granted'
  BY DEF Sums
<1>1. GivenStay
  BY PermissionsStayGiven
<1>2. Unlapsed'
  BY <1>1 DEF GivenStay, Unlapsed
<1>3. TypeInv'
  BY TypeStep
<1>4. ASSUME NEW q \in Purchases, paying'[q] # NotPaying
      PROVE  authority'[paying'[q].of].status # "NONE"
  <2>1. paying'[q].of \in Authorities
    BY <1>3, <1>4 DEF TypeInv, PayOf
  <2> QED
    BY <1>1, <1>4, <2>1, RequestsNameGiven DEF GivenStay
<1>5. ASSUME NEW q \in Purchases, attempt'[q].status # "NONE"
      PROVE  authority'[attempt'[q].of].status # "NONE"
  <2>1. attempt'[q].of \in Authorities
    BY <1>3, <1>5 DEF TypeInv, AttemptOf
  <2>2. authority[attempt'[q].of].status # "NONE"
    BY <1>5, AttemptsKeepAuthority DEF OfKept, Granted
  <2> QED
    BY <1>1, <2>1, <2>2 DEF GivenStay
<1> QED
  BY <1>2, <1>4, <1>5 DEF Granted

LEMMA AllowanceInit == Init => TheAllowance!Init
<1> SUFFICES ASSUME Init PROVE TheAllowance!Init
  OBVIOUS
<1>1. \A p \in Purchases : attempt[p] = NoAttempt /\ paying[p] = NotPaying
  BY DEF Init
<1>2. NoAttempt.of = 0 /\ NoAttempt.alloc = "NONE" /\ NoAttempt.grant = "NONE"
  BY DEF NoAttempt
<1>3. \A a \in Authorities : Life(a) = "none"
  BY DEF Init, Life
<1>4. \A w \in Workers : ~Busy(w)
  BY DEF Init, Busy, IdleWorker
<1>5. \A p \in Purchases : Clearance(p) = 0
  BY <1>1, <1>4 DEF Clearance, Uses
<1> QED
  BY <1>1, <1>2, <1>3, <1>5 DEF TheAllowance!Init

\* Reserve Pay implements the allowance: for any prices and limits, whatever the
\* counter, the statuses and the locks do in between, a purchase is allotted only
\* what the ceiling leaves beside the claims that stand, its debit is sent once,
\* each of the two only by a transaction that began before the permission lapsed
\* and that ends before it is withdrawn, and its claim is given back once, never
\* after the provider may have taken the money (admission, authority,
\* handlers/reserve).
THEOREM ImplementsAllowance == Spec => AllowanceSpec
<1>1. Sums /\ Unlapsed /\ Granted /\ [Next]_vars => [TheAllowance!Next]_TheAllowance!vars
  <2> SUFFICES ASSUME IInv, TypeInv, BookInv, Unlapsed, Granted, [Next]_vars PROVE AllowanceStep
    BY DEF Sums, AllowanceStep
  <2>1. CASE UNCHANGED vars
    BY <2>1, SameMoney DEF vars
  <2> QED
    BY <2>1, BuyersAllowance, WorkersAllowance, OthersAllowance DEF Next
<1>2. Spec => [](Unlapsed /\ Granted)
  BY Bookkeeping, GrantedInit, GrantedStep, PTL DEF Spec
<1> QED
  BY <1>1, <1>2, AllowanceInit, Bookkeeping, PTL DEF Spec, AllowanceSpec, TheAllowance!Spec
=============================================================================
