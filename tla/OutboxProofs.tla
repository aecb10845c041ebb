---------------------------- MODULE OutboxProofs ----------------------------
(***************************************************************************)
(* Theorems about Outbox, for any number of commands and workers, any      *)
(* budget of attempts, and any lease longer than the age of a transaction. *)
(***************************************************************************)
EXTENDS Outbox, TLAPS

-----------------------------------------------------------------------------
(* Type correctness.                                                       *)

(* A transaction started in the past, but less than one lease ago.         *)
LEMMA StartsAreTimes ==
    ASSUME now \in Nat, NEW s \in Starts
    PROVE  s \in Nat /\ s <= now /\ now < s + LeaseSeconds
BY PolicyAssumption, AgeAssumption DEF Starts

(* A retry waits at least one second.                                      *)
LEMMA BackoffIsPositive ==
    ASSUME NEW n, NEW d \in Backoff(n)
    PROVE  d \in Nat /\ d >= 1
BY PolicyAssumption DEF Backoff

LEMMA LeaseTypes ==
    ASSUME TypeOK, NEW w \in Workers, NEW s \in Starts,
           NEW taken, NEW reaped, Lease(w, s, taken, reaped)
    PROVE  TypeOK'
<1>1. s \in Nat /\ s + LeaseSeconds \in Nat
  BY StartsAreTimes, PolicyAssumption DEF TypeOK
<1>2. taken \subseteq Commands /\ reaped \subseteq Commands
  BY DEF Lease, Ready, Exhausted
<1>3. \A c \in taken : attempts[c] < MaxAttempts
  BY DEF Lease, Ready
<1>4. attempts' \in [Commands -> 0 .. MaxAttempts]
  BY <1>2, <1>3, PolicyAssumption DEF Lease, TypeOK
<1>5. status' \in [Commands -> OutboxStatus \cup {"NONE"}]
  BY DEF Lease, TypeOK, OutboxStatus
<1>6. leasedUntil' \in [Commands -> Nat] /\ handed' \in [Commands -> Nat]
  BY <1>1 DEF Lease, TypeOK
<1>7. {[command |-> c, token |-> s + LeaseSeconds, turn |-> handed[c] + 1]
         : c \in taken} \subseteq Leases
  <2> SUFFICES ASSUME NEW c \in taken
               PROVE  [command |-> c, token |-> s + LeaseSeconds,
                       turn |-> handed[c] + 1] \in Leases
    OBVIOUS
  <2>1. handed[c] + 1 \in Nat
    BY <1>2 DEF TypeOK
  <2> QED
    BY <1>1, <1>2, <2>1 DEF Leases
<1>8. batch' \in [Workers -> SUBSET Leases]
  BY <1>7 DEF Lease, TypeOK
<1> QED
  BY <1>4, <1>5, <1>6, <1>8 DEF Lease, TypeOK

LEMMA RunTypes ==
    ASSUME TypeOK, NEW w \in Workers, NEW l \in batch[w], NEW code \in Codes,
           Run(w, l, code)
    PROVE  TypeOK'
<1>1. l \in Leases
  BY DEF TypeOK
<1>2. [lease |-> l, code |-> code] \in Results
  BY <1>1 DEF Results
<1>3. result' \in [Workers -> Results \cup {NoResult}]
  BY <1>2 DEF Run, TypeOK
<1>4. batch' \in [Workers -> SUBSET Leases]
  BY DEF Run, TypeOK
<1>5. carriedOut' \subseteq Commands
  BY <1>1 DEF Run, TypeOK, Leases
<1> QED
  BY <1>3, <1>4, <1>5 DEF Run, TypeOK, row

(* A result is a report to make or none.                                   *)
LEMMA ResultHasLease ==
    ASSUME TypeOK, NEW w \in Workers, result[w] # NoResult
    PROVE  /\ result[w].lease \in Leases /\ result[w].code \in Codes
           /\ result[w].lease \in Holding(w)
<1>1. result[w] \in Results
  BY DEF TypeOK
<1> QED
  BY <1>1 DEF Results, Holding

LEMMA ReportTypes ==
    ASSUME TypeOK, NEW w \in Workers, NEW s \in Starts, Report(w, s)
    PROVE  TypeOK'
<1> DEFINE c == result[w].lease.command
<1>0. result[w] # NoResult /\ c \in Commands
  BY ResultHasLease DEF Report, Leases
<1>1. s \in Nat
  BY StartsAreTimes DEF TypeOK
<1>2. result' \in [Workers -> Results \cup {NoResult}]
  BY DEF Report, TypeOK
<1>3. /\ status' \in [Commands -> OutboxStatus \cup {"NONE"}]
      /\ attempts' = attempts /\ leasedUntil' = leasedUntil
      /\ availableAt' \in [Commands -> Nat]
  <2>1. CASE Complete(w, s)
    BY <2>1 DEF Complete, TypeOK, OutboxStatus
  <2>2. CASE Fail(w, s)
    <3>1. PICK delay \in Backoff(attempts[c]) :
            availableAt' = [availableAt EXCEPT
              ![c] = IF result[w].code = "final" \/ attempts[c] >= MaxAttempts
                     THEN @ ELSE s + delay]
      BY <2>2 DEF Fail
    <3>2. s + delay \in Nat
      BY <1>1, BackoffIsPositive
    <3>3. availableAt' \in [Commands -> Nat]
      BY <1>0, <3>1, <3>2 DEF TypeOK
    <3>4. status' \in [Commands -> OutboxStatus \cup {"NONE"}]
      BY <2>2 DEF Fail, TypeOK, OutboxStatus
    <3> QED
      BY <2>2, <3>3, <3>4 DEF Fail
  <2>3. CASE UNCHANGED row
    BY <2>3 DEF row, TypeOK
  <2> QED
    BY <2>1, <2>2, <2>3 DEF Report
<1> QED
  BY <1>2, <1>3 DEF Report, TypeOK, history

LEMMA TypeInit == Init => TypeOK
BY PolicyAssumption DEF Init, TypeOK

LEMMA TypeStep == TypeOK /\ [Next]_vars => TypeOK'
<1> SUFFICES ASSUME TypeOK, [Next]_vars
             PROVE  TypeOK'
  OBVIOUS
<1>1. ASSUME NEW w \in Workers, WorkerStep(w)
      PROVE  TypeOK'
  <2>1. CASE Crash(w)
    BY <2>1 DEF Crash, TypeOK, row, history
  <2> QED
    BY <1>1, <2>1, LeaseTypes, RunTypes, ReportTypes DEF WorkerStep
<1>2. ASSUME NEW c \in Commands, NEW s \in Starts, NEW delay \in 0 .. MaxDelay,
             Enqueue(c, s, delay)
      PROVE  TypeOK'
  <2>1. s + delay \in Nat
    BY StartsAreTimes, PolicyAssumption DEF TypeOK
  <2> QED
    BY <1>2, <2>1 DEF Enqueue, TypeOK, OutboxStatus, worker, history
<1>3. ASSUME NEW c \in Commands, NEW s \in Starts, Revive(c, s)
      PROVE  TypeOK'
  <2>1. s \in Nat
    BY StartsAreTimes DEF TypeOK
  <2>2. revived' \in [Commands -> 0 .. MaxRevivals]
    BY <1>3, PolicyAssumption DEF Revive, TypeOK
  <2> QED
    BY <1>3, <2>1, <2>2, PolicyAssumption DEF Revive, TypeOK, OutboxStatus, worker
<1>4. ASSUME NEW s \in Starts, NEW reaped \in SUBSET Commands, Sweep(s, reaped)
      PROVE  TypeOK'
  BY <1>4 DEF Sweep, TypeOK, OutboxStatus, worker, history
<1>5. CASE Tick
  BY <1>5 DEF Tick, TypeOK, row, worker, history
<1>6. CASE UNCHANGED vars
  BY <1>6 DEF vars, row, worker, history, TypeOK
<1> QED
  BY <1>1, <1>2, <1>3, <1>4, <1>5, <1>6 DEF Next

(* Every reachable state is well typed: in particular no command is handed *)
(* out beyond its budget of attempts between two revivals.                 *)
THEOREM TypeCorrect == Spec => []TypeOK
BY TypeInit, TypeStep, PTL DEF Spec

-----------------------------------------------------------------------------
(* The inductive invariant.                                                *)

(* A lease is of a row that exists, and no later than its last hand-out.   *)
HoldersAreKnown ==
    \A w \in Workers : \A l \in Holding(w) :
        status[l.command] # "NONE" /\ l.turn <= handed[l.command]

OneHolderPerTurn ==
    \A v, w \in Workers : \A k \in Holding(v), l \in Holding(w) :
        k.command = l.command /\ k.turn = l.turn => v = w /\ k = l

(* The column is the token of the last hand-out; earlier ones were less.   *)
TokenNamesTurn ==
    \A w \in Workers : \A l \in Holding(w) :
        status[l.command] = "LEASED" =>
            IF l.turn = handed[l.command]
            THEN l.token = leasedUntil[l.command]
            ELSE l.token < leasedUntil[l.command]

(* The next hand-out of a waiting row will have a token above all others.  *)
NextTokenIsLater ==
    \A w \in Workers : \A l \in Holding(w) :
        status[l.command] \in {"PENDING", "FAILED"}
          => l.token < availableAt[l.command] + LeaseSeconds

(* Whoever still holds a lease the row has moved on from has outlived it.  *)
SupersededHasLapsed ==
    \A w \in Workers : \A l \in Holding(w) :
        status[l.command] # "LEASED" \/ l.turn < handed[l.command]
          => l.token <= now

HandOutsCounted ==
    \A c \in Commands : handed[c] <= MaxAttempts * revived[c] + attempts[c]

CompletedIsCarriedOut ==
    \A w \in Workers : result[w] # NoResult /\ result[w].code = "completed"
                         => result[w].lease.command \in carriedOut

(* What is being reported is no longer in the batch.                       *)
ReportedOnce ==
    \A w \in Workers : result[w] # NoResult => result[w].lease \notin batch[w]

IInv ==
    /\ TypeOK /\ HoldersAreKnown /\ OneHolderPerTurn /\ TokenNamesTurn
    /\ NextTokenIsLater /\ SupersededHasLapsed /\ HandOutsCounted
    /\ CompletedIsCarriedOut /\ ReportedOnce

-----------------------------------------------------------------------------
(* Its preservation, action by action.                                     *)

(* What a worker holds are leases.                                         *)
LEMMA HoldingType ==
    ASSUME TypeOK, NEW w \in Workers, NEW l \in Holding(w)
    PROVE  /\ l \in Leases /\ l.command \in Commands
           /\ l.token \in Nat /\ l.turn \in Nat
<1>1. l \in Leases
  BY ResultHasLease DEF Holding, TypeOK
<1> QED
  BY <1>1 DEF Leases

LEMMA InvInit == Init => IInv
<1> SUFFICES ASSUME Init PROVE IInv
  OBVIOUS
<1>1. TypeOK
  BY TypeInit
<1>2. \A w \in Workers : Holding(w) = {}
  BY DEF Init, Holding
<1>3. HandOutsCounted
  BY PolicyAssumption DEF Init, HandOutsCounted
<1>4. CompletedIsCarriedOut /\ ReportedOnce
  BY DEF Init, CompletedIsCarriedOut, ReportedOnce
<1> QED
  BY <1>1, <1>2, <1>3, <1>4 DEF IInv, HoldersAreKnown, OneHolderPerTurn,
     TokenNamesTurn, NextTokenIsLater, SupersededHasLapsed

(* A new row has no holder.                                                *)
LEMMA EnqueueKeeps ==
    ASSUME IInv, TypeOK', NEW c \in Commands, NEW s \in Starts,
           NEW delay \in 0 .. MaxDelay, Enqueue(c, s, delay)
    PROVE  IInv'
<1>1. \A w \in Workers : Holding(w)' = Holding(w)
  BY DEF Enqueue, worker, Holding
<1>2. \A w \in Workers : \A l \in Holding(w) :
         l.command # c /\ l.command \in Commands
  BY HoldingType DEF IInv, HoldersAreKnown, Enqueue
<1>3. \A d \in Commands : d # c => status'[d] = status[d] /\ availableAt'[d] = availableAt[d]
  BY DEF Enqueue, IInv, TypeOK
<1>4. UNCHANGED <<now, attempts, leasedUntil, batch, result, handed, revived, carriedOut>>
  BY DEF Enqueue, worker, history
<1>5. HoldersAreKnown' /\ OneHolderPerTurn'
  BY <1>1, <1>2, <1>3, <1>4 DEF IInv, HoldersAreKnown, OneHolderPerTurn
<1>6. TokenNamesTurn'
  BY <1>1, <1>2, <1>3, <1>4 DEF IInv, TokenNamesTurn
<1>7. NextTokenIsLater' /\ SupersededHasLapsed'
  BY <1>1, <1>2, <1>3, <1>4 DEF IInv, NextTokenIsLater, SupersededHasLapsed
<1>8. HandOutsCounted' /\ CompletedIsCarriedOut' /\ ReportedOnce'
  BY <1>4 DEF IInv, HandOutsCounted, CompletedIsCarriedOut, ReportedOnce
<1> QED
  BY <1>5, <1>6, <1>7, <1>8 DEF IInv

(* When a hand-out happens every earlier lease of the command has lapsed,  *)
(* and its token is below the new one.                                     *)
LEMMA ReadyIsFree ==
    ASSUME IInv, NEW s \in Starts, NEW c \in Ready(s),
           NEW w \in Workers, NEW l \in Holding(w), l.command = c
    PROVE  l.token <= now /\ l.token < s + LeaseSeconds
<1>1. l.token \in Nat /\ l.turn \in Nat /\ c \in Commands
  BY HoldingType DEF IInv
<1>2. s \in Nat /\ s <= now /\ now < s + LeaseSeconds /\ LeaseSeconds \in Nat
  BY StartsAreTimes, PolicyAssumption DEF IInv, TypeOK
<1>3. now \in Nat /\ leasedUntil[c] \in Nat /\ availableAt[c] \in Nat /\ handed[c] \in Nat
  BY <1>1 DEF IInv, TypeOK
<1>4. CASE status[c] \in {"PENDING", "FAILED"}
  BY <1>1, <1>2, <1>3, <1>4 DEF IInv, SupersededHasLapsed
<1>5. CASE status[c] = "LEASED" /\ leasedUntil[c] <= s
  <2>1. l.token <= leasedUntil[c]
    BY <1>1, <1>3, <1>5 DEF IInv, TokenNamesTurn
  <2> QED
    BY <1>1, <1>2, <1>3, <1>5, <2>1
<1> QED
  BY <1>4, <1>5 DEF Ready

(* A row is buried when its last holder has lapsed.                        *)
LEMMA ExhaustedIsFree ==
    ASSUME IInv, NEW s \in Starts, NEW c \in Exhausted(s),
           NEW w \in Workers, NEW l \in Holding(w), l.command = c
    PROVE  l.token <= now
<1>1. l.token \in Nat /\ l.turn \in Nat /\ c \in Commands
  BY HoldingType DEF IInv
<1>2. s \in Nat /\ s <= now
  BY StartsAreTimes DEF IInv, TypeOK
<1>3. now \in Nat /\ leasedUntil[c] \in Nat /\ handed[c] \in Nat
  BY <1>1 DEF IInv, TypeOK
<1>4. CASE status[c] # "LEASED"
  BY <1>1, <1>4 DEF IInv, SupersededHasLapsed
<1>5. CASE status[c] = "LEASED" /\ leasedUntil[c] <= s
  <2>1. l.token <= leasedUntil[c]
    BY <1>1, <1>3, <1>5 DEF IInv, TokenNamesTurn
  <2> QED
    BY <1>1, <1>2, <1>3, <1>5, <2>1
<1> QED
  BY <1>4, <1>5 DEF Exhausted

(* A sweep buries only what nobody can still report on.                    *)
LEMMA SweepKeeps ==
    ASSUME IInv, TypeOK', NEW s \in Starts, NEW reaped \in SUBSET Commands,
           Sweep(s, reaped)
    PROVE  IInv'
<1>1. \A w \in Workers : Holding(w)' = Holding(w)
  BY DEF Sweep, worker, Holding
<1>2. \A w \in Workers : \A l \in Holding(w) : l.command \in Commands
  BY HoldingType DEF IInv
<1>3. \A c \in Commands : status'[c] = IF c \in reaped THEN "DEAD" ELSE status[c]
  BY DEF Sweep
<1>4. UNCHANGED <<now, attempts, availableAt, leasedUntil, batch, result, handed, revived, carriedOut>>
  BY DEF Sweep, worker, history
<1>5. HoldersAreKnown' /\ OneHolderPerTurn'
  BY <1>1, <1>2, <1>3, <1>4 DEF IInv, HoldersAreKnown, OneHolderPerTurn
<1>6. TokenNamesTurn' /\ NextTokenIsLater'
  BY <1>1, <1>2, <1>3, <1>4 DEF IInv, TokenNamesTurn, NextTokenIsLater
<1>7. SupersededHasLapsed'
  <2>1. \A w \in Workers : \A l \in Holding(w) : l.command \in reaped => l.token <= now
    BY ExhaustedIsFree DEF Sweep
  <2> QED
    BY <1>1, <1>2, <1>3, <1>4, <2>1 DEF IInv, SupersededHasLapsed
<1>8. HandOutsCounted' /\ CompletedIsCarriedOut' /\ ReportedOnce'
  BY <1>4 DEF IInv, HandOutsCounted, CompletedIsCarriedOut, ReportedOnce
<1> QED
  BY <1>5, <1>6, <1>7, <1>8 DEF IInv

LEMMA Distributes ==
    ASSUME NEW m \in Nat, NEW r \in Nat
    PROVE  m * (r + 1) = m * r + m /\ m * r \in Nat
OBVIOUS

(* A revived row starts again, later than every lease still held.          *)
LEMMA ReviveKeeps ==
    ASSUME IInv, TypeOK', NEW c \in Commands, NEW s \in Starts, Revive(c, s)
    PROVE  IInv'
<1>1. \A w \in Workers : Holding(w)' = Holding(w)
  BY DEF Revive, worker, Holding
<1>2. \A w \in Workers : \A l \in Holding(w) :
         l.command \in Commands /\ l.token \in Nat
  BY HoldingType DEF IInv
<1>3. \A d \in Commands : d # c =>
         /\ status'[d] = status[d] /\ availableAt'[d] = availableAt[d]
         /\ leasedUntil'[d] = leasedUntil[d] /\ attempts'[d] = attempts[d]
         /\ revived'[d] = revived[d]
  BY DEF Revive, IInv, TypeOK
<1>4. /\ status[c] = "DEAD" /\ status'[c] = "PENDING"
      /\ availableAt'[c] = s /\ attempts'[c] = 0 /\ revived'[c] = revived[c] + 1
  BY DEF Revive, IInv, TypeOK
<1>5. UNCHANGED <<now, batch, result, handed, carriedOut>>
  BY DEF Revive, worker
<1>6. HoldersAreKnown' /\ OneHolderPerTurn'
  BY <1>1, <1>2, <1>3, <1>4, <1>5 DEF IInv, HoldersAreKnown, OneHolderPerTurn
<1>7. TokenNamesTurn' /\ SupersededHasLapsed'
  BY <1>1, <1>2, <1>3, <1>4, <1>5 DEF IInv, TokenNamesTurn, SupersededHasLapsed
<1>8. NextTokenIsLater'
  <2>1. s \in Nat /\ s <= now /\ now < s + LeaseSeconds /\ LeaseSeconds \in Nat /\ now \in Nat
    BY StartsAreTimes, PolicyAssumption DEF IInv, TypeOK
  <2>2. \A w \in Workers : \A l \in Holding(w) :
           l.command = c => l.token < s + LeaseSeconds
    BY <1>2, <1>4, <2>1 DEF IInv, SupersededHasLapsed
  <2> QED
    BY <1>1, <1>2, <1>3, <1>4, <2>2 DEF IInv, NextTokenIsLater
<1>9. HandOutsCounted'
  <2>1. handed[c] <= MaxAttempts * revived'[c] + attempts'[c]
    <3>1. /\ handed[c] \in Nat /\ attempts[c] \in 0 .. MaxAttempts
          /\ revived[c] \in Nat /\ MaxAttempts \in Nat
      BY PolicyAssumption DEF IInv, TypeOK
    <3>2. handed[c] <= MaxAttempts * revived[c] + attempts[c]
      BY DEF IInv, HandOutsCounted
    <3>3. handed[c] <= MaxAttempts * revived[c] + MaxAttempts
      <4> DEFINE m == MaxAttempts * revived[c]
      <4>1. m \in Nat
        BY <3>1, Distributes
      <4>2. handed[c] <= m + attempts[c]
        BY <3>2
      <4> HIDE DEF m
      <4>3. handed[c] <= m + MaxAttempts
        BY <3>1, <4>1, <4>2
      <4> QED
        BY <4>3 DEF m
    <3> QED
      BY <1>4, <3>1, <3>3, Distributes
  <2> QED
    BY <1>3, <1>5, <2>1 DEF IInv, HandOutsCounted
<1>10. CompletedIsCarriedOut' /\ ReportedOnce'
  BY <1>5 DEF IInv, CompletedIsCarriedOut, ReportedOnce
<1> QED
  BY <1>6, <1>7, <1>8, <1>9, <1>10 DEF IInv

(* Running, reporting and dying only take leases out of a worker's hands;  *)
(* what is said of every holder is then still said of every holder.        *)
LEMMA FewerHolders ==
    ASSUME IInv, UNCHANGED <<now, row, handed>>,
           \A w \in Workers : Holding(w)' \subseteq Holding(w)
    PROVE  /\ HoldersAreKnown' /\ OneHolderPerTurn' /\ TokenNamesTurn'
           /\ NextTokenIsLater' /\ SupersededHasLapsed'
<1>1. UNCHANGED <<status, availableAt, leasedUntil>>
  BY DEF row
<1>2. HoldersAreKnown' /\ OneHolderPerTurn'
  BY <1>1 DEF IInv, HoldersAreKnown, OneHolderPerTurn
<1>3. TokenNamesTurn'
  BY <1>1 DEF IInv, TokenNamesTurn
<1>4. NextTokenIsLater' /\ SupersededHasLapsed'
  BY <1>1 DEF IInv, NextTokenIsLater, SupersededHasLapsed
<1> QED
  BY <1>2, <1>3, <1>4

LEMMA RunKeeps ==
    ASSUME IInv, TypeOK', NEW w \in Workers, NEW l \in batch[w],
           NEW code \in Codes, Run(w, l, code)
    PROVE  IInv'
<1>1. \A v \in Workers :
         /\ v # w => batch'[v] = batch[v] /\ result'[v] = result[v]
         /\ v = w => /\ batch'[v] = batch[v] \ {l}
                     /\ result'[v] = [lease |-> l, code |-> code]
  BY DEF Run, IInv, TypeOK
<1>2. \A v \in Workers : Holding(v)' \subseteq Holding(v)
  BY <1>1 DEF Holding
<1>3. UNCHANGED <<now, row, handed, revived>>
  BY DEF Run
<1>4. HandOutsCounted'
  BY <1>3 DEF row, IInv, HandOutsCounted
<1>5. CompletedIsCarriedOut' /\ ReportedOnce'
  BY <1>1 DEF Run, IInv, CompletedIsCarriedOut, ReportedOnce
<1> QED
  BY <1>2, <1>3, <1>4, <1>5, FewerHolders DEF IInv

LEMMA CrashKeeps ==
    ASSUME IInv, TypeOK', NEW w \in Workers, Crash(w)
    PROVE  IInv'
<1>1. \A v \in Workers :
         /\ v # w => batch'[v] = batch[v] /\ result'[v] = result[v]
         /\ v = w => batch'[v] = {} /\ result'[v] = NoResult
  BY DEF Crash, IInv, TypeOK
<1>2. \A v \in Workers : Holding(v)' \subseteq Holding(v)
  BY <1>1 DEF Holding
<1>3. UNCHANGED <<now, row, handed, revived, carriedOut>>
  BY DEF Crash, history
<1>4. HandOutsCounted'
  BY <1>3 DEF row, IInv, HandOutsCounted
<1>5. CompletedIsCarriedOut' /\ ReportedOnce'
  BY <1>1, <1>3 DEF IInv, CompletedIsCarriedOut, ReportedOnce
<1> QED
  BY <1>2, <1>3, <1>4, <1>5, FewerHolders DEF IInv

(* The fence lets only the last holder through.                            *)
LEMMA FencedIsLatest ==
    ASSUME IInv, NEW w \in Workers, result[w] # NoResult, NEW s,
           Fence(result[w].lease, s)
    PROVE  result[w].lease.turn = handed[result[w].lease.command]
<1> DEFINE l == result[w].lease
<1>1. l \in Holding(w) /\ l.token \in Nat
  BY ResultHasLease, HoldingType DEF IInv
<1> QED
  BY <1>1 DEF IInv, TokenNamesTurn, Fence

(* ... so that when it has written, every other holder has lapsed.         *)
LEMMA OthersHaveLapsed ==
    ASSUME IInv, NEW w \in Workers, result[w] # NoResult, NEW s,
           Fence(result[w].lease, s),
           NEW v \in Workers, NEW k \in Holding(v),
           k.command = result[w].lease.command, k # result[w].lease
    PROVE  k.token <= now
<1> DEFINE l == result[w].lease
<1>1. l \in Holding(w) /\ l.turn = handed[l.command]
  BY ResultHasLease, FencedIsLatest DEF IInv
<1>2. k.turn # handed[k.command]
  BY <1>1 DEF IInv, OneHolderPerTurn
<1>3. k.turn \in Nat /\ handed[k.command] \in Nat /\ k.turn <= handed[k.command]
  BY HoldingType DEF IInv, TypeOK, HoldersAreKnown
<1> QED
  BY <1>2, <1>3 DEF IInv, SupersededHasLapsed

(* A report that passes the fence is the last holder's; the others lapsed. *)
LEMMA ReportKeeps ==
    ASSUME IInv, TypeOK', NEW w \in Workers, NEW s \in Starts, Report(w, s)
    PROVE  IInv'
<1> DEFINE l == result[w].lease
           c == l.command
<1>1. \A v \in Workers :
         /\ batch'[v] = batch[v]
         /\ v # w => result'[v] = result[v]
         /\ v = w => result'[v] = NoResult
  BY DEF Report, IInv, TypeOK
<1>2. \A v \in Workers : Holding(v)' \subseteq Holding(v)
  BY <1>1 DEF Holding
<1>3. UNCHANGED <<now, handed, revived, carriedOut>>
  BY DEF Report, history
<1>4. CompletedIsCarriedOut' /\ ReportedOnce'
  BY <1>1, <1>3 DEF IInv, CompletedIsCarriedOut, ReportedOnce
<1>5. CASE UNCHANGED row
  <2>1. HandOutsCounted'
    BY <1>3, <1>5 DEF row, IInv, HandOutsCounted
  <2> QED
    BY <1>2, <1>3, <1>4, <1>5, <2>1, FewerHolders DEF IInv
<1>6. CASE Complete(w, s) \/ Fail(w, s)
  <2>1. result[w] # NoResult /\ Fence(l, s) /\ c \in Commands
    BY <1>6, ResultHasLease DEF Report, Complete, Fail, IInv, Leases
  <2>2. /\ attempts' = attempts /\ leasedUntil' = leasedUntil
        /\ status'[c] \in {"DONE", "DEAD", "FAILED"}
        /\ \A d \in Commands : d # c => /\ status'[d] = status[d]
                                        /\ availableAt'[d] = availableAt[d]
    BY <1>6, <2>1 DEF Complete, Fail, IInv, TypeOK
  <2>3. ASSUME status'[c] = "FAILED"
        PROVE  availableAt'[c] \in Nat /\ now < availableAt'[c] + LeaseSeconds
    <3>1. Fail(w, s) /\ ~(result[w].code = "final" \/ attempts[c] >= MaxAttempts)
      BY <1>6, <2>1, <2>3 DEF Complete, Fail, IInv, TypeOK
    <3>2. PICK delay \in Backoff(attempts[c]) : availableAt'[c] = s + delay
      BY <2>1, <3>1 DEF Fail, IInv, TypeOK
    <3>3. /\ s \in Nat /\ now < s + LeaseSeconds /\ now \in Nat
          /\ LeaseSeconds \in Nat
      BY StartsAreTimes, PolicyAssumption DEF IInv, TypeOK
    <3>4. delay \in Nat /\ delay >= 1
      BY BackoffIsPositive
    <3> QED
      BY <3>2, <3>3, <3>4
  <2>4. \A v \in Workers : \A k \in Holding(v)' :
           k \in Holding(v) /\ k.command \in Commands /\ k.token \in Nat
    BY <1>2, HoldingType DEF IInv
  <2>5. \A v \in Workers : \A k \in Holding(v)' : k.command = c => k.token <= now
    <3> SUFFICES ASSUME NEW v \in Workers, NEW k \in Holding(v)', k.command = c
                 PROVE  k.token <= now
      OBVIOUS
    <3>1. k # l
      BY <1>1, <2>1, <2>4, ResultHasLease
         DEF IInv, OneHolderPerTurn, ReportedOnce, Holding
    <3> QED
      BY <2>1, <2>4, <3>1, OthersHaveLapsed
  <2>6. HoldersAreKnown' /\ OneHolderPerTurn'
    BY <1>2, <1>3, <2>2, <2>4 DEF IInv, HoldersAreKnown, OneHolderPerTurn
  <2>7. TokenNamesTurn'
    BY <1>2, <1>3, <2>2, <2>4 DEF IInv, TokenNamesTurn
  <2>8. NextTokenIsLater'
    <3>1. now \in Nat /\ LeaseSeconds \in Nat
      BY PolicyAssumption DEF IInv, TypeOK
    <3>2. \A v \in Workers : \A k \in Holding(v)' :
             k.command = c /\ status'[c] = "FAILED"
               => k.token < availableAt'[c] + LeaseSeconds
      BY <2>3, <2>4, <2>5, <3>1
    <3> QED
      BY <2>2, <2>4, <3>2 DEF IInv, NextTokenIsLater
  <2>9. SupersededHasLapsed'
    BY <1>3, <2>2, <2>4, <2>5 DEF IInv, SupersededHasLapsed
  <2>10. HandOutsCounted'
    BY <1>3, <2>2 DEF IInv, HandOutsCounted
  <2> QED
    BY <1>4, <2>6, <2>7, <2>8, <2>9, <2>10 DEF IInv
<1> QED
  BY <1>5, <1>6 DEF Report

(* A hand-out: every earlier holder has lapsed, the new token is the       *)
(* largest.                                                                *)
LEMMA LeaseKeeps ==
    ASSUME IInv, TypeOK', NEW w \in Workers, NEW s \in Starts,
           NEW taken, NEW reaped, Lease(w, s, taken, reaped)
    PROVE  IInv'
<1> DEFINE given(c) == [command |-> c, token |-> s + LeaseSeconds,
                        turn |-> handed[c] + 1]
<1>1. /\ taken \subseteq Ready(s) /\ taken \subseteq Commands
      /\ reaped \subseteq Exhausted(s) /\ reaped \subseteq Commands
  BY DEF Lease, Ready, Exhausted
<1>2. \A c \in Commands :
         /\ c \in taken => /\ status'[c] = "LEASED"
                          /\ leasedUntil'[c] = s + LeaseSeconds
                          /\ handed'[c] = handed[c] + 1
                          /\ attempts'[c] = attempts[c] + 1
         /\ c \notin taken => /\ status'[c] = IF c \in reaped THEN "DEAD"
                                             ELSE status[c]
                             /\ leasedUntil'[c] = leasedUntil[c]
                             /\ handed'[c] = handed[c]
                             /\ attempts'[c] = attempts[c]
  BY DEF Lease
<1>3. UNCHANGED <<now, availableAt, result, revived, carriedOut>>
  BY DEF Lease
<1>4. /\ Holding(w) = {} /\ Holding(w)' = {given(c) : c \in taken}
      /\ \A v \in Workers : v # w => Holding(v)' = Holding(v)
  <2>1. /\ batch[w] = {} /\ result[w] = NoResult /\ result' = result
        /\ batch'[w] = {given(c) : c \in taken}
        /\ \A v \in Workers : v # w => batch'[v] = batch[v]
    BY DEF Lease, Idle, IInv, TypeOK
  <2> HIDE DEF given
  <2> QED
    BY <2>1 DEF Holding
<1>5. \A v \in Workers : \A l \in Holding(v) :
         /\ l.command \in Commands /\ l.token \in Nat /\ l.turn \in Nat
         /\ l.turn <= handed[l.command]
  BY HoldingType DEF IInv, HoldersAreKnown
<1>6. \A c \in Commands : handed[c] \in Nat /\ attempts[c] \in Nat
  BY PolicyAssumption DEF IInv, TypeOK
<1>7. s + LeaseSeconds \in Nat
  BY StartsAreTimes, PolicyAssumption DEF IInv, TypeOK
(* Every lease held after the step was held before, or has been given now. *)
<1>8. ASSUME NEW v \in Workers, NEW l \in Holding(v)'
      PROVE  \/ v # w /\ l \in Holding(v)
             \/ v = w /\ l.command \in taken /\ l = given(l.command)
  BY <1>4
<1>9. \A v \in Workers : \A l \in Holding(v) :
         /\ l.command \in taken => /\ l.token <= now
                                  /\ l.token < s + LeaseSeconds
         /\ l.command \in reaped => l.token <= now
  BY <1>1, ReadyIsFree, ExhaustedIsFree
<1>10. HoldersAreKnown'
  BY <1>1, <1>2, <1>5, <1>6, <1>8 DEF IInv, HoldersAreKnown
<1>11. OneHolderPerTurn'
  BY <1>1, <1>5, <1>6, <1>8 DEF IInv, OneHolderPerTurn
<1>12. TokenNamesTurn'
  BY <1>1, <1>2, <1>5, <1>6, <1>8, <1>9 DEF IInv, TokenNamesTurn
<1>13. NextTokenIsLater'
  BY <1>1, <1>2, <1>3, <1>5, <1>8, <1>9 DEF IInv, NextTokenIsLater
<1>14. SupersededHasLapsed'
  BY <1>1, <1>2, <1>3, <1>5, <1>6, <1>8, <1>9 DEF IInv, SupersededHasLapsed
<1>15. HandOutsCounted'
  <2> SUFFICES ASSUME NEW c \in Commands
               PROVE  handed'[c] <= MaxAttempts * revived[c] + attempts'[c]
    BY <1>3 DEF HandOutsCounted
  <2> DEFINE m == MaxAttempts * revived[c]
  <2>1. m \in Nat
    BY Distributes, PolicyAssumption DEF IInv, TypeOK
  <2>2. handed[c] <= m + attempts[c]
    BY DEF IInv, HandOutsCounted
  <2> HIDE DEF m
  <2>3. handed'[c] <= m + attempts'[c]
    BY <1>2, <1>6, <2>1, <2>2
  <2> QED
    BY <2>3 DEF m
<1>16. CompletedIsCarriedOut' /\ ReportedOnce'
  BY <1>3 DEF Lease, Idle, IInv, TypeOK, CompletedIsCarriedOut, ReportedOnce
<1> QED
  BY <1>10, <1>11, <1>12, <1>13, <1>14, <1>15, <1>16 DEF IInv

LEMMA TickKeeps ==
    ASSUME IInv, TypeOK', Tick
    PROVE  IInv'
<1>1. \A v \in Workers : Holding(v)' = Holding(v)
  BY DEF Tick, worker, Holding
<1>2. UNCHANGED <<status, attempts, availableAt, leasedUntil, batch, result,
                  handed, revived, carriedOut>>
  BY DEF Tick, row, worker, history
<1>3. SupersededHasLapsed'
  <2>1. \A v \in Workers : \A l \in Holding(v) : l.token \in Nat
    BY HoldingType DEF IInv
  <2>2. now \in Nat /\ now' = now + 1
    BY DEF Tick, IInv, TypeOK
  <2> QED
    BY <1>1, <1>2, <2>1, <2>2 DEF IInv, SupersededHasLapsed
<1> QED
  BY <1>1, <1>2, <1>3 DEF IInv, HoldersAreKnown, OneHolderPerTurn,
     TokenNamesTurn, NextTokenIsLater, HandOutsCounted, CompletedIsCarriedOut,
     ReportedOnce

LEMMA InvStep == IInv /\ [Next]_vars => IInv'
<1> SUFFICES ASSUME IInv, [Next]_vars
             PROVE  IInv'
  OBVIOUS
<1>0. TypeOK'
  BY TypeStep DEF IInv
<1>1. ASSUME NEW w \in Workers, WorkerStep(w)
      PROVE  IInv'
  BY <1>0, <1>1, LeaseKeeps, RunKeeps, ReportKeeps, CrashKeeps DEF WorkerStep
<1>2. ASSUME NEW c \in Commands, NEW s \in Starts,
             Revive(c, s) \/ \E delay \in 0 .. MaxDelay : Enqueue(c, s, delay)
      PROVE  IInv'
  BY <1>0, <1>2, ReviveKeeps, EnqueueKeeps
<1>3. ASSUME NEW s \in Starts, NEW reaped \in SUBSET Commands, Sweep(s, reaped)
      PROVE  IInv'
  BY <1>0, <1>3, SweepKeeps
<1>4. CASE Tick
  BY <1>0, <1>4, TickKeeps
<1>5. CASE UNCHANGED vars
  <2>1. \A v \in Workers : Holding(v)' = Holding(v)
    BY <1>5 DEF vars, worker, Holding
  <2> QED
    BY <1>0, <1>5, <2>1 DEF vars, row, worker, history, IInv, HoldersAreKnown,
       OneHolderPerTurn, TokenNamesTurn, NextTokenIsLater, SupersededHasLapsed,
       HandOutsCounted, CompletedIsCarriedOut, ReportedOnce
<1> QED
  BY <1>1, <1>2, <1>3, <1>4, <1>5 DEF Next

(* The inductive invariant holds in every reachable state.                 *)
THEOREM Invariance == Spec => []IInv
BY InvInit, InvStep, PTL DEF Spec

-----------------------------------------------------------------------------
(* What follows from it.                                                   *)

LEMMA InvImpliesOneLiveLease == IInv => OneLiveLease
<1> SUFFICES ASSUME IInv,
                    NEW v \in Workers, NEW w \in Workers,
                    NEW k \in Holding(v), NEW l \in Holding(w),
                    k.command = l.command, k.token > now, l.token > now
             PROVE  v = w /\ k = l
  BY DEF OneLiveLease
<1>1. now \in Nat /\ handed[l.command] \in Nat /\ handed[k.command] \in Nat
  BY HoldingType DEF IInv, TypeOK
<1>2. k.token \in Nat /\ l.token \in Nat /\ k.turn \in Nat /\ l.turn \in Nat
  BY HoldingType DEF IInv
<1>3. k.turn = handed[k.command] /\ l.turn = handed[l.command]
  BY <1>1, <1>2 DEF IInv, HoldersAreKnown, SupersededHasLapsed
<1> QED
  BY <1>3 DEF IInv, OneHolderPerTurn

LEMMA InvImpliesHandOutsAreBounded == IInv => HandOutsAreBounded
<1> SUFFICES ASSUME IInv, NEW c \in Commands
             PROVE  handed[c] <= MaxAttempts * (1 + revived[c])
  BY DEF HandOutsAreBounded
<1> DEFINE m == MaxAttempts * revived[c]
<1>1. /\ MaxAttempts \in Nat /\ revived[c] \in Nat /\ handed[c] \in Nat
      /\ attempts[c] \in 0 .. MaxAttempts
  BY PolicyAssumption DEF IInv, TypeOK
<1>2. m \in Nat /\ MaxAttempts * (1 + revived[c]) = m + MaxAttempts
  BY <1>1, Distributes
<1>3. handed[c] <= m + attempts[c]
  BY DEF IInv, HandOutsCounted
<1> HIDE DEF m
<1> QED
  BY <1>1, <1>2, <1>3

(* While a lease has not lapsed nobody else holds one of that command.     *)
THEOREM LeasesAreExclusive == Spec => []OneLiveLease
BY Invariance, InvImpliesOneLiveLease, PTL

(* A command is handed out no more often than its budget and the           *)
(* operators' revivals allow.                                              *)
THEOREM DeliveriesAreBounded == Spec => []HandOutsAreBounded
BY Invariance, InvImpliesHandOutsAreBounded, PTL

Fenced ==
    \A w \in Workers : result[w] # NoResult /\ result'[w] = NoResult =>
        LET l == result[w].lease
        IN  status'[l.command] # status[l.command] => l.turn = handed[l.command]

(* A report that changes a row comes from its last holder.                 *)
LEMMA StepIsFenced == IInv /\ [Next]_vars => [Fenced]_vars
<1> SUFFICES ASSUME IInv, [Next]_vars,
                    NEW w \in Workers, result[w] # NoResult, result'[w] = NoResult,
                    status'[result[w].lease.command] # status[result[w].lease.command]
             PROVE  result[w].lease.turn = handed[result[w].lease.command]
  BY DEF Fenced
<1>1. ASSUME NEW v \in Workers, WorkerStep(v)
      PROVE  v = w /\ \E s \in Starts : Fence(result[w].lease, s)
  <2>1. ASSUME NEW s \in Starts, NEW taken, NEW reaped, Lease(v, s, taken, reaped)
        PROVE  FALSE
    BY <2>1 DEF Lease
  <2>2. ASSUME NEW l \in batch[v], NEW code \in Codes, Run(v, l, code)
        PROVE  FALSE
    BY <2>2 DEF Run, row
  <2>3. CASE Crash(v)
    BY <2>3 DEF Crash, row
  <2>4. ASSUME NEW s \in Starts, Report(v, s)
        PROVE  v = w /\ Fence(result[w].lease, s)
    <3>1. v = w
      BY <2>4 DEF Report, IInv, TypeOK
    <3> QED
      BY <2>4, <3>1 DEF Report, Complete, Fail, row
  <2> QED
    BY <1>1, <2>1, <2>2, <2>3, <2>4 DEF WorkerStep
<1>2. ASSUME NEW c \in Commands, NEW s \in Starts,
             Revive(c, s) \/ \E delay \in 0 .. MaxDelay : Enqueue(c, s, delay)
      PROVE  FALSE
  BY <1>2 DEF Revive, Enqueue, worker
<1>3. ASSUME NEW s \in Starts, NEW reaped \in SUBSET Commands, Sweep(s, reaped)
      PROVE  FALSE
  BY <1>3 DEF Sweep, worker
<1>4. CASE Tick
  BY <1>4 DEF Tick, worker
<1>5. CASE UNCHANGED vars
  BY <1>5 DEF vars, worker
<1> QED
  BY <1>1, <1>2, <1>3, <1>4, <1>5, FencedIsLatest DEF Next

(* Only the latest holder of a command writes its row.                     *)
THEOREM StaleHoldersAreFenced == Spec => SupersededIsFenced
<1>1. [][Fenced]_vars <=> SupersededIsFenced
  BY PTL DEF Fenced, SupersededIsFenced
<1> QED
  BY <1>1, Invariance, StepIsFenced, PTL DEF Spec

-----------------------------------------------------------------------------
(* The outbox implements the command queue.                                *)

fates == [c \in Commands |-> Fate(c)]

(* Steps that leave the fate of every command as it is.                    *)
LEMMA SameFates ==
    ASSUME \A c \in Commands : Fate(c)' = Fate(c)
    PROVE  fates' = fates
BY DEF fates

LEMMA QueueInit == Init => Queue!Init
BY DEF Init, Queue!Init, Fate

(* A hand-out is invisible to the queue but for what it buries.            *)
LEMMA LeaseIsQueueStep ==
    ASSUME IInv, NEW w \in Workers, NEW s \in Starts,
           NEW taken \in SUBSET Commands, NEW reaped \in SUBSET Commands,
           Lease(w, s, taken, reaped)
    PROVE  Queue!Bury(reaped)
<1>1. \A c \in reaped : Fate(c) = "queued"
  BY DEF Lease, Exhausted, Fate
<1>2. \A c \in taken : c \notin reaped
  <2>1. \A c \in taken : attempts[c] < MaxAttempts
    BY DEF Lease, Ready
  <2>2. \A c \in reaped : attempts[c] >= MaxAttempts
    BY DEF Lease, Exhausted
  <2>3. \A c \in Commands : attempts[c] \in 0 .. MaxAttempts
    BY DEF IInv, TypeOK
  <2> QED
    BY <2>1, <2>2, <2>3, PolicyAssumption
<1>3. \A c \in Commands : Fate(c)' = IF c \in reaped THEN "dead" ELSE Fate(c)
  <2>1. ASSUME NEW c \in taken
        PROVE  Fate(c) = "queued" /\ Fate(c)' = "queued"
    BY <2>1 DEF Lease, Ready, Fate
  <2>2. ASSUME NEW c \in reaped
        PROVE  Fate(c)' = "dead"
    BY <1>2, <2>2 DEF Lease, Fate
  <2>3. ASSUME NEW c \in Commands, c \notin taken, c \notin reaped
        PROVE  Fate(c)' = Fate(c)
    BY <2>3 DEF Lease, Fate
  <2> QED
    BY <1>2, <2>1, <2>2, <2>3
<1>4. UNCHANGED carriedOut
  BY DEF Lease
<1> QED
  BY <1>1, <1>3, <1>4 DEF Queue!Bury

(* Only a handler that completes shows.                                    *)
LEMMA RunIsQueueStep ==
    ASSUME IInv, NEW w \in Workers, NEW l \in batch[w], NEW code \in Codes,
           Run(w, l, code)
    PROVE  Queue!CarryOut(l.command) \/ UNCHANGED Queue!vars
<1>1. l.command \in Commands /\ status[l.command] # "NONE"
  BY HoldingType DEF IInv, HoldersAreKnown, Holding
<1>2. \A c \in Commands : Fate(c)' = Fate(c)
  BY DEF Run, row, Fate
<1>3. fates' = fates
  BY <1>2, SameFates
<1>4. fates[l.command] # "absent"
  BY <1>1 DEF fates, Fate
<1> QED
  BY <1>1, <1>3, <1>4 DEF Run, Queue!CarryOut, Queue!vars, fates

(* A report finishes its command, buries it, or says nothing new.          *)
LEMMA ReportIsQueueStep ==
    ASSUME IInv, NEW w \in Workers, NEW s \in Starts, Report(w, s)
    PROVE  \/ Queue!Finish(result[w].lease.command)
           \/ Queue!Bury({result[w].lease.command})
           \/ UNCHANGED Queue!vars
<1>1. PICK c \in Commands : c = result[w].lease.command
  BY ResultHasLease DEF Report, IInv, Leases
<1> SUFFICES Queue!Finish(c) \/ Queue!Bury({c}) \/ UNCHANGED Queue!vars
  BY <1>1
<1>0. result[w] # NoResult /\ UNCHANGED carriedOut
  BY DEF Report, history
<1>2. status \in [Commands -> OutboxStatus \cup {"NONE"}]
  BY DEF IInv, TypeOK
<1>3. CASE Complete(w, s)
  <2>1. status[c] = "LEASED" /\ status' = [status EXCEPT ![c] = "DONE"]
    BY <1>1, <1>3 DEF Complete, Fence
  <2>2. c \in carriedOut
    BY <1>0, <1>1, <1>3 DEF Complete, IInv, CompletedIsCarriedOut
  <2>3. /\ status'[c] = "DONE"
        /\ \A d \in Commands : d # c => status'[d] = status[d]
    BY <1>1, <1>2, <2>1
  <2>4. Fate(c) = "queued" /\ Fate(c)' = "done"
    BY <2>1, <2>3 DEF Fate
  <2>5. \A d \in Commands : d # c => Fate(d)' = Fate(d)
    BY <2>3 DEF Fate
  <2> QED
    BY <1>0, <2>2, <2>4, <2>5 DEF Queue!Finish
<1>4. CASE Fail(w, s)
  <2>1. /\ status[c] = "LEASED"
        /\ \/ status' = [status EXCEPT ![c] = "DEAD"]
           \/ status' = [status EXCEPT ![c] = "FAILED"]
    BY <1>1, <1>4 DEF Fail, Fence
  <2>2. /\ status'[c] \in {"DEAD", "FAILED"}
        /\ \A d \in Commands : d # c => status'[d] = status[d]
    BY <1>1, <1>2, <2>1
  <2>3. \A d \in Commands : d # c => Fate(d)' = Fate(d)
    BY <2>2 DEF Fate
  <2>4. CASE status'[c] = "DEAD"
    <3>1. Fate(c) = "queued" /\ Fate(c)' = "dead"
      BY <2>1, <2>4 DEF Fate
    <3> QED
      BY <1>0, <2>3, <3>1 DEF Queue!Bury
  <2>5. CASE status'[c] = "FAILED"
    <3>1. Fate(c)' = Fate(c)
      BY <2>1, <2>5 DEF Fate
    <3> QED
      BY <1>0, <2>3, <3>1, SameFates DEF Queue!vars, fates
  <2> QED
    BY <2>2, <2>4, <2>5
<1>5. CASE UNCHANGED row
  <2>1. \A d \in Commands : Fate(d)' = Fate(d)
    BY <1>5 DEF row, Fate
  <2> QED
    BY <1>0, <2>1, SameFates DEF Queue!vars, fates
<1> QED
  BY <1>3, <1>4, <1>5 DEF Report

LEMMA QueueStep == IInv /\ [Next]_vars => [Queue!Next]_(Queue!vars)
<1> SUFFICES ASSUME IInv, [Next]_vars
             PROVE  Queue!Next \/ UNCHANGED Queue!vars
  OBVIOUS
<1>0. status \in [Commands -> OutboxStatus \cup {"NONE"}]
  BY DEF IInv, TypeOK
<1>1. ASSUME NEW w \in Workers, WorkerStep(w)
      PROVE  Queue!Next \/ UNCHANGED Queue!vars
  <2>1. ASSUME NEW s \in Starts, NEW taken \in SUBSET Commands,
               NEW reaped \in SUBSET Commands, Lease(w, s, taken, reaped)
        PROVE  Queue!Next
    BY <2>1, LeaseIsQueueStep DEF Queue!Next
  <2>2. ASSUME NEW l \in batch[w], NEW code \in Codes, Run(w, l, code)
        PROVE  Queue!Next \/ UNCHANGED Queue!vars
    <3>1. l.command \in Commands
      BY HoldingType DEF Holding, IInv
    <3> QED
      BY <2>2, <3>1, RunIsQueueStep DEF Queue!Next
  <2>3. ASSUME NEW s \in Starts, Report(w, s)
        PROVE  Queue!Next \/ UNCHANGED Queue!vars
    <3>1. result[w].lease.command \in Commands
      BY <2>3, ResultHasLease DEF Report, Leases, IInv
    <3> QED
      BY <2>3, <3>1, ReportIsQueueStep DEF Queue!Next
  <2>4. CASE Crash(w)
    <3>1. \A d \in Commands : Fate(d)' = Fate(d)
      BY <2>4 DEF Crash, row, Fate
    <3> QED
      BY <2>4, <3>1, SameFates DEF Crash, history, Queue!vars, fates
  <2> QED
    BY <1>1, <2>1, <2>2, <2>3, <2>4 DEF WorkerStep
<1>2. ASSUME NEW c \in Commands, NEW s \in Starts, NEW delay \in 0 .. MaxDelay,
             Enqueue(c, s, delay)
      PROVE  Queue!Next
  <2>1. /\ Fate(c) = "absent" /\ Fate(c)' = "queued"
        /\ \A d \in Commands : d # c => Fate(d)' = Fate(d)
    BY <1>0, <1>2 DEF Enqueue, Fate
  <2>2. Queue!Accept(c)
    BY <1>2, <2>1 DEF Enqueue, history, Queue!Accept
  <2> QED
    BY <2>2 DEF Queue!Next
<1>3. ASSUME NEW c \in Commands, NEW s \in Starts, Revive(c, s)
      PROVE  Queue!Next
  <2>1. /\ Fate(c) = "dead" /\ Fate(c)' = "queued"
        /\ \A d \in Commands : d # c => Fate(d)' = Fate(d)
    BY <1>0, <1>3 DEF Revive, Fate
  <2>2. Queue!Restore(c)
    BY <1>3, <2>1 DEF Revive, Queue!Restore
  <2> QED
    BY <2>2 DEF Queue!Next
<1>4. ASSUME NEW s \in Starts, NEW reaped \in SUBSET Commands, Sweep(s, reaped)
      PROVE  Queue!Next
  <2>1. /\ \A c \in reaped : Fate(c) = "queued"
        /\ \A c \in Commands : Fate(c)' = IF c \in reaped THEN "dead" ELSE Fate(c)
    BY <1>4 DEF Sweep, Exhausted, Fate
  <2>2. Queue!Bury(reaped)
    BY <1>4, <2>1 DEF Sweep, history, Queue!Bury
  <2> QED
    BY <2>2 DEF Queue!Next
<1>5. CASE Tick \/ UNCHANGED vars
  <2>1. UNCHANGED <<row, carriedOut>>
    BY <1>5 DEF Tick, vars, history
  <2>2. \A d \in Commands : Fate(d)' = Fate(d)
    BY <2>1 DEF row, Fate
  <2> QED
    BY <2>1, <2>2, SameFates DEF Queue!vars, fates
<1> QED
  BY <1>1, <1>2, <1>3, <1>4, <1>5 DEF Next

(* Whatever workers, stalls and crashes do, a command is finished only     *)
(* after a handler carried it out, never comes back from there, and leaves *)
(* the dead letters only by an operator.                                   *)
THEOREM ImplementsQueue == Spec => QueueSpec
BY QueueInit, QueueStep, Invariance, PTL DEF Spec, QueueSpec, Queue!Spec
=============================================================================
