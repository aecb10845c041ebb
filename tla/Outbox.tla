------------------------------- MODULE Outbox -------------------------------
(***************************************************************************)
(* The durable outbox: commands that workers lease, run and report.        *)
(*                                                                         *)
(* An action is one transaction, or one run of a handler between two.      *)
(* PostgreSQL's now() is the time a transaction STARTED; its statements,   *)
(* and the row locks they take, come later.  So a transaction acts on the  *)
(* rows as they are and on a clock that may be behind.                     *)
(***************************************************************************)
EXTENDS Integers, FiniteSets

CONSTANTS
    Commands,
    Workers,
    MaxAttempts,    \* policy.max_attempts
    LeaseSeconds,   \* policy.lease_seconds
    BackoffBase,    \* policy.backoff_base_seconds
    BackoffCap,     \* policy.backoff_cap_seconds
    BatchSize,      \* commands one lease call may take
    MaxDelay,       \* the longest delay a command is enqueued with
    MaxAge,         \* how long a transaction may wait for its statement
    MaxRevivals     \* bound on what operators revive

ASSUME PolicyAssumption ==
    /\ MaxAttempts \in Nat \ {0}
    /\ LeaseSeconds \in Nat \ {0}
    /\ BackoffBase \in Nat \ {0}
    /\ BackoffCap \in Nat /\ BackoffCap >= BackoffBase
    /\ BatchSize \in Nat \ {0}
    /\ MaxDelay \in Nat /\ MaxAge \in Nat /\ MaxRevivals \in Nat

(* No transaction waits as long as a lease lasts.                          *)
ASSUME AgeAssumption == MaxAge < LeaseSeconds

VARIABLES
    now,            \* the database clock
    status,         \* outbox_events.status, NONE before the row exists
    attempts,       \* outbox_events.attempts
    availableAt,    \* outbox_events.available_at
    leasedUntil,    \* outbox_events.leased_until, 0 for NULL
    batch,          \* what each worker has leased and not run yet
    result,         \* what its last handler returned, until it is reported
    handed,         \* history: how often the command was handed out
    revived,        \* history: how often it was revived
    carriedOut      \* history: commands a handler has completed

row == <<status, attempts, availableAt, leasedUntil>>
worker == <<batch, result>>
history == <<handed, revived, carriedOut>>
vars == <<now, row, worker, history>>

OutboxStatus == {"PENDING", "LEASED", "DONE", "FAILED", "DEAD"}
Codes == {"completed", "retryable", "final"}

(* A LeasedCommand: the token fences, the turn is history.                 *)
Leases == [command : Commands, token : Nat, turn : Nat]
Results == [lease : Leases, code : Codes]
NoResult == [code |-> "none"]

(* What now() may be in a transaction that acts at this moment.            *)
Starts == {s \in 0 .. now : s >= now - MaxAge}

Init ==
    /\ now = 1
    /\ status = [c \in Commands |-> "NONE"]
    /\ attempts = [c \in Commands |-> 0]
    /\ availableAt = [c \in Commands |-> 0]
    /\ leasedUntil = [c \in Commands |-> 0]
    /\ batch = [w \in Workers |-> {}]
    /\ result = [w \in Workers |-> NoResult]
    /\ handed = [c \in Commands |-> 0]
    /\ revived = [c \in Commands |-> 0]
    /\ carriedOut = {}

-----------------------------------------------------------------------------
(* enqueue, in the transaction of the caller's own change.                 *)
Enqueue(c, s, delay) ==
    /\ status[c] = "NONE"
    /\ status' = [status EXCEPT ![c] = "PENDING"]
    /\ availableAt' = [availableAt EXCEPT ![c] = s + delay]
    /\ UNCHANGED <<now, attempts, leasedUntil, worker, history>>

(* _READY_PREDICATE                                                        *)
MutReady(s) ==                                  \* a lease is never waited for
    {c \in Commands :
        /\ attempts[c] < MaxAttempts
        /\ \/ status[c] \in {"PENDING", "FAILED"} /\ availableAt[c] <= s
           \/ status[c] = "LEASED"}
MutReadyAgain(s) ==                             \* no bound on attempts
    {c \in Commands :
        \/ status[c] \in {"PENDING", "FAILED"} /\ availableAt[c] <= s
        \/ status[c] = "LEASED" /\ leasedUntil[c] <= s}
Ready(s) ==
    {c \in Commands :
        /\ attempts[c] < MaxAttempts
        /\ \/ status[c] \in {"PENDING", "FAILED"} /\ availableAt[c] <= s
           \/ status[c] = "LEASED" /\ leasedUntil[c] <= s}

(* _REAP                                                                   *)
MutExhausted(s) ==                              \* finished rows are reaped too
    {c \in Commands :
        /\ attempts[c] >= MaxAttempts
        /\ status[c] = "LEASED" => leasedUntil[c] <= s}
MutExhaustedUnleased(s) ==                      \* a dead worker's row is not reaped
    {c \in Commands :
        status[c] \in {"PENDING", "FAILED"} /\ attempts[c] >= MaxAttempts}
Exhausted(s) ==
    {c \in Commands :
        /\ status[c] \in {"PENDING", "FAILED", "LEASED"}
        /\ attempts[c] >= MaxAttempts
        /\ status[c] = "LEASED" => leasedUntil[c] <= s}

Idle(w) == batch[w] = {} /\ result[w] = NoResult

(* lease: _REAP what is exhausted, then _LEASE what is ready.  SKIP LOCKED *)
(* may pass over any row another open transaction has locked.              *)
Lease(w, s, taken, reaped) ==
    /\ Idle(w)
    /\ taken \subseteq Ready(s) /\ reaped \subseteq Exhausted(s)
    /\ taken \cup reaped # {}
    /\ Cardinality(taken) <= BatchSize /\ Cardinality(reaped) <= BatchSize
    /\ status' = [c \in Commands |-> IF c \in taken THEN "LEASED"
                                     ELSE IF c \in reaped THEN "DEAD"
                                     ELSE status[c]]
    /\ attempts' = [c \in Commands |->
                      IF c \in taken THEN attempts[c] + 1 ELSE attempts[c]]
    /\ leasedUntil' = [c \in Commands |->
                         IF c \in taken THEN s + LeaseSeconds ELSE leasedUntil[c]]
    /\ handed' = [c \in Commands |->
                    IF c \in taken THEN handed[c] + 1 ELSE handed[c]]
    /\ batch' = [batch EXCEPT
                   ![w] = {[command |-> c, token |-> s + LeaseSeconds,
                            turn |-> handed[c] + 1] : c \in taken}]
    /\ UNCHANGED <<now, availableAt, result, revived, carriedOut>>

(* _run_one: the next command of the batch, whether or not its lease still *)
(* holds.                                                                  *)
Run(w, l, code) ==
    /\ result[w] = NoResult /\ l \in batch[w]
    /\ batch' = [batch EXCEPT ![w] = @ \ {l}]
    /\ result' = [result EXCEPT ![w] = [lease |-> l, code |-> code]]
    /\ carriedOut' = IF code = "completed" THEN carriedOut \cup {l.command}
                     ELSE carriedOut
    /\ UNCHANGED <<now, row, handed, revived>>

(* _FENCE                                                                  *)
MutFence(l, s) ==                               \* any live lease will do
    status[l.command] = "LEASED" /\ leasedUntil[l.command] > s
Fence(l, s) ==
    /\ status[l.command] = "LEASED"
    /\ leasedUntil[l.command] = l.token
    /\ leasedUntil[l.command] > s

(* backoff_seconds                                                         *)
Envelope(n) == BackoffBase * 2 ^ (n - 1)
Backoff(n) == {d \in 1 .. BackoffCap : d <= Envelope(n)}

(* _report: complete, or fail, or the answer that the lease was lost.      *)
Complete(w, s) ==
    LET l == result[w].lease
    IN  /\ result[w].code = "completed" /\ Fence(l, s)
        /\ status' = [status EXCEPT ![l.command] = "DONE"]
        /\ UNCHANGED <<attempts, availableAt, leasedUntil>>

Fail(w, s) ==
    LET l == result[w].lease
        c == l.command
        buried == result[w].code = "final" \/ attempts[c] >= MaxAttempts
    IN  /\ result[w].code \in {"retryable", "final"} /\ Fence(l, s)
        /\ status' = [status EXCEPT ![c] = IF buried THEN "DEAD" ELSE "FAILED"]
        /\ \E delay \in Backoff(attempts[c]) :
             availableAt' = [availableAt EXCEPT
                               ![c] = IF buried THEN @ ELSE s + delay]
        /\ UNCHANGED <<attempts, leasedUntil>>

Report(w, s) ==
    /\ result[w] # NoResult
    /\ \/ Complete(w, s)
       \/ Fail(w, s)
       \/ ~Fence(result[w].lease, s) /\ UNCHANGED row
    /\ result' = [result EXCEPT ![w] = NoResult]
    /\ UNCHANGED <<now, batch, history>>

(* A worker dies, with everything it held, and is started again.           *)
Crash(w) ==
    /\ ~Idle(w)
    /\ batch' = [batch EXCEPT ![w] = {}]
    /\ result' = [result EXCEPT ![w] = NoResult]
    /\ UNCHANGED <<now, row, history>>

(* run_housekeeping's reap_exhausted.                                      *)
Sweep(s, reaped) ==
    /\ reaped # {} /\ reaped \subseteq Exhausted(s)
    /\ status' = [c \in Commands |-> IF c \in reaped THEN "DEAD" ELSE status[c]]
    /\ UNCHANGED <<now, attempts, availableAt, leasedUntil, worker, history>>

(* revive, by an operator.                                                 *)
Revive(c, s) ==
    /\ status[c] = "DEAD" /\ revived[c] < MaxRevivals
    /\ status' = [status EXCEPT ![c] = "PENDING"]
    /\ attempts' = [attempts EXCEPT ![c] = 0]
    /\ availableAt' = [availableAt EXCEPT ![c] = s]
    /\ leasedUntil' = [leasedUntil EXCEPT ![c] = 0]
    /\ revived' = [revived EXCEPT ![c] = @ + 1]
    /\ UNCHANGED <<now, worker, handed, carriedOut>>

(* Time passes while a time some row carries lies ahead; once none does,   *)
(* more of it changes no comparison.                                       *)
Tick ==
    /\ \E c \in Commands :
          \/ status[c] = "LEASED" /\ leasedUntil[c] > now
          \/ status[c] \in {"PENDING", "FAILED"} /\ availableAt[c] > now
    /\ now' = now + 1
    /\ UNCHANGED <<row, worker, history>>

-----------------------------------------------------------------------------
WorkerStep(w) ==
    \/ \E s \in Starts, taken, reaped \in SUBSET Commands :
          Lease(w, s, taken, reaped)
    \/ \E l \in batch[w], code \in Codes : Run(w, l, code)
    \/ \E s \in Starts : Report(w, s)
    \/ Crash(w)

Next ==
    \/ \E w \in Workers : WorkerStep(w)
    \/ \E c \in Commands, s \in Starts :
          Revive(c, s) \/ \E delay \in 0 .. MaxDelay : Enqueue(c, s, delay)
    \/ \E s \in Starts, reaped \in SUBSET Commands : Sweep(s, reaped)
    \/ Tick

Spec == Init /\ [][Next]_vars

(* Workers poll: a command that stays ready or exhausted is reached in the *)
(* end (lease takes the oldest first), a handler that was begun returns    *)
(* and is reported.  A worker may crash as often as it likes.              *)
Fairness ==
    /\ WF_vars(Tick)
    /\ \A c \in Commands :
          SF_vars(\E w \in Workers, s \in Starts,
                     taken, reaped \in SUBSET Commands :
                     c \in taken \cup reaped /\ Lease(w, s, taken, reaped))
    /\ \A w \in Workers :
          /\ WF_vars(\E l \in batch[w], code \in Codes : Run(w, l, code))
          /\ WF_vars(\E s \in Starts : Report(w, s))

FairSpec == Spec /\ Fairness

-----------------------------------------------------------------------------
(* Properties.                                                             *)

TypeOK ==
    /\ now \in Nat
    /\ status \in [Commands -> OutboxStatus \cup {"NONE"}]
    /\ attempts \in [Commands -> 0 .. MaxAttempts]
    /\ availableAt \in [Commands -> Nat]
    /\ leasedUntil \in [Commands -> Nat]
    /\ batch \in [Workers -> SUBSET Leases]
    /\ result \in [Workers -> Results \cup {NoResult}]
    /\ handed \in [Commands -> Nat]
    /\ revived \in [Commands -> 0 .. MaxRevivals]
    /\ carriedOut \subseteq Commands

(* The leases a worker acts on.                                            *)
Holding(w) ==
    batch[w] \cup (IF result[w] = NoResult THEN {} ELSE {result[w].lease})

(* Rule 2: two workers never take the same row.  While a lease has not     *)
(* lapsed on the database clock, nobody else holds one of that command,    *)
(* however late the transactions that took them acted.                     *)
OneLiveLease ==
    \A v, w \in Workers : \A k \in Holding(v), l \in Holding(w) :
        /\ k.command = l.command
        /\ k.token > now /\ l.token > now
        => v = w /\ k = l

(* Only the latest holder writes: a worker that was superseded while it    *)
(* was stalled changes nothing (fencing by leased_until).                  *)
SupersededIsFenced ==
    [][\A w \in Workers : result[w] # NoResult /\ result'[w] = NoResult =>
          LET l == result[w].lease
          IN  status'[l.command] # status[l.command]
                => l.turn = handed[l.command]]_vars

(* Rule 4: a command that keeps killing its workers, or keeps losing its   *)
(* lease, is handed out no more often than its budget and the operators'   *)
(* revivals allow.                                                         *)
HandOutsAreBounded ==
    \A c \in Commands : handed[c] <= MaxAttempts * (1 + revived[c])

(* Nothing sits in the table for ever: a queued command is finished or     *)
(* buried in the end, wherever workers die.                                *)
EverythingEnds ==
    \A c \in Commands :
        status[c] \in {"PENDING", "LEASED", "FAILED"}
          ~> status[c] \in {"DONE", "DEAD"}

(* The outbox is a command queue.                                          *)
Fate(c) ==
    CASE status[c] = "NONE" -> "absent"
      [] status[c] = "DONE" -> "done"
      [] status[c] = "DEAD" -> "dead"
      [] OTHER -> "queued"

Queue == INSTANCE CommandQueue WITH fate <- [c \in Commands |-> Fate(c)]

QueueSpec == Queue!Spec
=============================================================================
