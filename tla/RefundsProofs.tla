---------------------------- MODULE RefundsProofs ----------------------------
(***************************************************************************)
(* Theorems about Refunds, for any number of refunds and rounds, any       *)
(* captured amount, any workers and any weather: what is sent and          *)
(* admitted, what the refunds have in reserve, what the order says of      *)
(* them, and how far the ledger agrees with the provider.                  *)
(***************************************************************************)
EXTENDS Refunds, FiniteSetTheorems, SumTheorems, TLAPS

-----------------------------------------------------------------------------
(* The inductive invariant: who may still send.                            *)

JobShape(x) == x = [c |-> x.c, step |-> x.step, got |-> x.got,
                    total |-> x.total, held |-> x.held]
Shaped ==
    /\ job = [w \in Workers |-> job[w]]
    /\ \A w \in Workers :
        job[w] # NoJob => JobShape(job[w]) /\ job[w].c.r \in Refund
    /\ grant = [r \in Refund |-> grant[r]]
    /\ sent \in [Refund -> Nat]
    /\ status = [r \in Refund |-> status[r]]

Sending(w) == job[w] # NoJob /\ job[w].step = "send"

(* Whoever is about to send spent the grant, alone, for a refund that was  *)
(* not sent before.                                                        *)
SenderSpentGrant ==
    \A w \in Workers : Sending(w) =>
        grant[job[w].c.r] = "CONSUMED" /\ sent[job[w].c.r] = 0
OneSender ==
    \A w, v \in Workers :
        Sending(w) /\ Sending(v) /\ job[w].c.r = job[v].c.r => w = v
UnspentIsUnsent ==
    \A r \in Refund : grant[r] # "CONSUMED" => sent[r] = 0

UnadmittedHasNoGrant ==
    \A r \in Refund : status[r] = "NONE" => grant[r] = "NONE"

SendInv ==
    /\ Shaped /\ SenderSpentGrant /\ OneSender
    /\ UnspentIsUnsent /\ UnadmittedHasNoGrant /\ SentAtMostOnce

(* Rows of refunds change, and none of them vanishes.                      *)
RowsRemain ==
    /\ status' = [r \in Refund |-> status'[r]]
    /\ \A r \in Refund : status'[r] = "NONE" => status[r] = "NONE"

-----------------------------------------------------------------------------
(* A worker moves to a step at which it does not send.                     *)

Harmless(x) == x = NoJob \/ (JobShape(x) /\ x.c.r \in Refund /\ x.step # "send")

LEMMA HarmlessKeeps ==
    ASSUME SendInv, NEW w \in Workers, NEW x, Harmless(x),
           job' = [job EXCEPT ![w] = x], UNCHANGED <<grant, sent>>,
           RowsRemain
    PROVE  SendInv'
<1>1. \A v \in Workers : job'[v] = IF v = w THEN x ELSE job[v]
  BY DEF SendInv, Shaped
<1>2. \A v \in Workers : Sending(v)' => v # w /\ Sending(v)
  BY <1>1 DEF Sending, Harmless
<1>3. Shaped'
  BY <1>1 DEF SendInv, Shaped, Harmless, RowsRemain
<1>4. SenderSpentGrant' /\ OneSender'
  BY <1>1, <1>2 DEF SendInv, SenderSpentGrant, OneSender
<1> QED
  BY <1>3, <1>4 DEF SendInv, UnspentIsUnsent, UnadmittedHasNoGrant, SentAtMostOnce,
                    RowsRemain

LEMMA JobsKept ==
    ASSUME SendInv, UNCHANGED <<job, grant, sent>>,
           RowsRemain
    PROVE  SendInv'
BY DEF SendInv, Shaped, SenderSpentGrant, OneSender, UnspentIsUnsent,
       UnadmittedHasNoGrant, SentAtMostOnce, Sending, RowsRemain

(* A job that carries an answer on.                                        *)
LEMMA Carried ==
    ASSUME SendInv, NEW w \in Workers, job[w] # NoJob,
           NEW step, NEW got, NEW total, Carry(w, step, got, total)
    PROVE  job' = [job EXCEPT ![w] = [c |-> job[w].c, step |-> step, got |-> got,
                                      total |-> total, held |-> job[w].held]]
<1> DEFINE new == [c |-> job[w].c, step |-> step, got |-> got,
                   total |-> total, held |-> job[w].held]
           one == [job EXCEPT ![w].step = step]
           two == [one EXCEPT ![w].got = got]
<1>1. JobShape(job[w]) /\ job = [v \in Workers |-> job[v]]
  BY DEF SendInv, Shaped
<1>2. one = [v \in Workers |-> IF v = w THEN [c |-> job[w].c, step |-> step,
              got |-> job[w].got, total |-> job[w].total, held |-> job[w].held]
              ELSE job[v]]
  BY <1>1 DEF JobShape
<1> HIDE DEF one
<1>3. two = [v \in Workers |-> IF v = w THEN [c |-> job[w].c, step |-> step,
              got |-> got, total |-> job[w].total, held |-> job[w].held]
              ELSE job[v]]
  BY <1>2
<1> HIDE DEF two
<1>4. [two EXCEPT ![w].total = total] = [v \in Workers |-> IF v = w THEN new ELSE job[v]]
  BY <1>3
<1>5. job' = [two EXCEPT ![w].total = total]
  BY DEF Carry, one, two
<1> QED
  BY <1>1, <1>4, <1>5

LEMMA CarryKeeps ==
    ASSUME SendInv, NEW w \in Workers, job[w] # NoJob,
           NEW step, step # "send", NEW got, NEW total, Carry(w, step, got, total),
           UNCHANGED <<status, grant, sent>>
    PROVE  SendInv'
<1> DEFINE x == [c |-> job[w].c, step |-> step, got |-> got,
                 total |-> total, held |-> job[w].held]
<1>1. job' = [job EXCEPT ![w] = x]
  BY Carried
<1>2. Harmless(x)
  BY DEF Harmless, JobShape, SendInv, Shaped
<1>3. RowsRemain
  BY DEF SendInv, Shaped, RowsRemain
<1> QED
  BY <1>1, <1>2, <1>3, HarmlessKeeps

LEMMA EndKeeps ==
    ASSUME SendInv, NEW w \in Workers, NEW q, End(w, q), UNCHANGED <<grant, sent>>,
           RowsRemain
    PROVE  SendInv'
BY HarmlessKeeps DEF End, Harmless

-----------------------------------------------------------------------------
(* One lemma for each action that touches a job, a grant or a request.     *)

(* A settlement moves the row of one refund, or none.                      *)
LEMMA MarkRemains ==
    ASSUME SendInv, NEW r, NEW s, s # "NONE", status' = [status EXCEPT ![r] = s]
    PROVE  RowsRemain
BY DEF SendInv, Shaped, RowsRemain

LEMMA SameRemains ==
    ASSUME SendInv, UNCHANGED status
    PROVE  RowsRemain
BY DEF SendInv, Shaped, RowsRemain

(* The grant of a refund that nobody is sending.                           *)
LEMMA GrantMoves ==
    ASSUME SendInv, NEW r \in Refund, NEW g, grant[r] # "CONSUMED", g # "CONSUMED",
           grant' = [grant EXCEPT ![r] = g], UNCHANGED <<job, sent>>, RowsRemain,
           status'[r] # "NONE"
    PROVE  SendInv'
<1>1. \A w \in Workers : Sending(w) => job[w].c.r # r
  BY DEF SendInv, SenderSpentGrant
<1>2. \A q \in Refund : grant'[q] = IF q = r THEN g ELSE grant[q]
  BY DEF SendInv, Shaped
<1>3. Shaped'
  BY <1>2 DEF SendInv, Shaped, RowsRemain
<1>4. SenderSpentGrant' /\ OneSender'
  <2>1. \A w \in Workers : Sending(w)' => Sending(w) /\ job'[w].c.r = job[w].c.r
    BY DEF Sending
  <2>2. \A w \in Workers : Sending(w) => job[w].c.r \in Refund
    BY DEF SendInv, Shaped, Sending
  <2> QED
    BY <1>1, <1>2, <2>1, <2>2 DEF SendInv, SenderSpentGrant, OneSender
<1>5. UnspentIsUnsent' /\ UnadmittedHasNoGrant' /\ SentAtMostOnce'
  BY <1>2 DEF SendInv, UnspentIsUnsent, UnadmittedHasNoGrant, SentAtMostOnce, RowsRemain
<1> QED
  BY <1>3, <1>4, <1>5 DEF SendInv

LEMMA AdmitKeeps ==
    ASSUME SendInv, NEW r \in Refund, NEW a, Admit(r, a)
    PROVE  SendInv'
<1>1. UNCHANGED <<job, sent>> /\ grant' = [grant EXCEPT ![r] = "ISSUED"]
  BY DEF Admit, world
<1>2. status' = [status EXCEPT ![r] = "PENDING"] /\ status[r] = "NONE"
  BY DEF Admit, Mark, NextRefund
<1>3. RowsRemain
  BY <1>2, MarkRemains
<1>4. grant[r] # "CONSUMED"
  BY <1>2 DEF SendInv, UnadmittedHasNoGrant
<1>5. status'[r] # "NONE"
  BY <1>2 DEF SendInv, Shaped
<1> QED
  BY <1>1, <1>3, <1>4, <1>5, GrantMoves

LEMMA ExpireGrantKeeps ==
    ASSUME SendInv, NEW r \in Refund, ExpireGrant(r)
    PROVE  SendInv'
<1>1. /\ grant[r] = "ISSUED" /\ grant' = [grant EXCEPT ![r] = "EXPIRED"]
      /\ UNCHANGED <<status, job, sent>>
  BY DEF ExpireGrant, world
<1>2. status'[r] # "NONE"
  BY <1>1 DEF SendInv, UnadmittedHasNoGrant
<1> QED
  BY <1>1, <1>2, SameRemains, GrantMoves

(* The grant is spent by one worker, for a refund nobody has sent.         *)
LEMMA ConsumeGrantKeeps ==
    ASSUME SendInv, NEW w \in Workers, NEW c \in Command, job[w] = NoJob,
           ConsumeGrant(w, c), UNCHANGED sent
    PROVE  SendInv'
<1> DEFINE new == [c |-> c, step |-> "send", got |-> "none", total |-> 0, held |-> TRUE]
<1>1. c.r \in Refund
  BY DEF Command
<1>2. /\ grant[c.r] = "ISSUED" /\ grant' = [grant EXCEPT ![c.r] = "CONSUMED"]
      /\ job' = [job EXCEPT ![w] = new] /\ UNCHANGED status
  BY DEF ConsumeGrant, Start
<1>3. \A v \in Workers : job'[v] = IF v = w THEN new ELSE job[v]
  BY <1>2 DEF SendInv, Shaped
<1>4. \A q \in Refund : grant'[q] = IF q = c.r THEN "CONSUMED" ELSE grant[q]
  BY <1>2 DEF SendInv, Shaped
<1>5. \A v \in Workers : Sending(v) => job[v].c.r # c.r /\ job[v].c.r \in Refund
  BY <1>2 DEF SendInv, Shaped, SenderSpentGrant, Sending
<1>6. sent[c.r] = 0
  BY <1>1, <1>2 DEF SendInv, UnspentIsUnsent
<1>7. JobShape(new) /\ new.c = c
  BY DEF JobShape
<1> HIDE DEF new
<1>8. Shaped'
  BY <1>1, <1>2, <1>3, <1>4, <1>7 DEF SendInv, Shaped
<1>9. SenderSpentGrant' /\ OneSender'
  <2>1. \A v \in Workers : v # w => job'[v] = job[v] /\ (Sending(v)' <=> Sending(v))
    BY <1>3 DEF Sending
  <2>2. job'[w].c.r = c.r
    BY <1>3, <1>7
  <2>3. SenderSpentGrant'
    BY <2>1, <2>2, <1>1, <1>4, <1>5, <1>6 DEF SendInv, SenderSpentGrant
  <2>4. OneSender'
    <3> SUFFICES ASSUME NEW v \in Workers, NEW u \in Workers, Sending(v)', Sending(u)',
                        job'[v].c.r = job'[u].c.r
                 PROVE  v = u
      BY DEF OneSender
    <3>1. CASE v # w /\ u # w
      BY <3>1, <2>1 DEF SendInv, OneSender
    <3>2. CASE v = w \/ u = w
      BY <3>2, <2>1, <2>2, <1>5
    <3> QED
      BY <3>1, <3>2
  <2> QED
    BY <2>3, <2>4
<1>10. UnspentIsUnsent' /\ UnadmittedHasNoGrant' /\ SentAtMostOnce'
  BY <1>2, <1>4 DEF SendInv, UnspentIsUnsent, UnadmittedHasNoGrant, SentAtMostOnce
<1> QED
  BY <1>8, <1>9, <1>10 DEF SendInv

(* The one worker that may send a refund sends it and stops being one.     *)
LEMMA SendKeeps ==
    ASSUME SendInv, NEW w \in Workers, Send(w)
    PROVE  SendInv'
<1> DEFINE r == job[w].c.r
<1>1. /\ Sending(w) /\ UNCHANGED <<status, grant>>
      /\ sent' = [sent EXCEPT ![r] = @ + 1]
      /\ \E got : Carry(w, "record", got, 0)
  BY DEF Send, Sending, rows
<1>2. r \in Refund /\ sent[r] = 0
  BY <1>1 DEF SendInv, Shaped, SenderSpentGrant, Sending
<1>3. PICK got : Carry(w, "record", got, 0)
  BY <1>1
<1> DEFINE new == [c |-> job[w].c, step |-> "record", got |-> got, total |-> 0,
                   held |-> job[w].held]
<1>4. job' = [job EXCEPT ![w] = new]
  BY <1>1, <1>3, Carried DEF Sending
<1>5. \A v \in Workers : job'[v] = IF v = w THEN new ELSE job[v]
  BY <1>4 DEF SendInv, Shaped
<1>6. JobShape(new) /\ new.c = job[w].c /\ new.step = "record"
  BY DEF JobShape
<1> HIDE DEF new
<1>7. \A v \in Workers : Sending(v)' =>
        v # w /\ Sending(v) /\ job'[v] = job[v] /\ job[v].c.r # r
  <2>1. \A v \in Workers : Sending(v)' => v # w /\ Sending(v) /\ job'[v] = job[v]
    BY <1>5, <1>6 DEF Sending
  <2> QED
    BY <2>1, <1>1 DEF SendInv, OneSender
<1>8. \A q \in Refund : sent'[q] = IF q = r THEN 1 ELSE sent[q]
  BY <1>1, <1>2 DEF SendInv, Shaped
<1>9. Shaped'
  BY <1>1, <1>2, <1>4, <1>5, <1>6 DEF SendInv, Shaped
<1>10. SenderSpentGrant' /\ OneSender'
  <2>1. \A v \in Workers : Sending(v) => job[v].c.r \in Refund
    BY DEF SendInv, Shaped, Sending
  <2> QED
    BY <2>1, <1>1, <1>7, <1>8 DEF SendInv, SenderSpentGrant, OneSender
<1>11. UnspentIsUnsent'
  BY <1>1, <1>8 DEF SendInv, UnspentIsUnsent, SenderSpentGrant
<1>12. UnadmittedHasNoGrant' /\ SentAtMostOnce'
  BY <1>1, <1>8 DEF SendInv, UnadmittedHasNoGrant, SentAtMostOnce
<1> QED
  BY <1>9, <1>10, <1>11, <1>12 DEF SendInv

-----------------------------------------------------------------------------
(* What a worker's transaction may do to the row of its refund: nothing,   *)
(* settle an open one, leave it open and uncertain, or give it to a person. *)

Verdict(r) ==
    \/ UNCHANGED <<status, attempt>>
    \/ /\ status[r] \in OpenStatuses
       /\ \E s \in {"FAILED", "PROCESSED"} : status' = [status EXCEPT ![r] = s]
    \/ /\ status[r] \in OpenStatuses
       /\ \E s \in {"UNKNOWN", "RECONCILING"} : status' = [status EXCEPT ![r] = s]
       /\ attempt' \in {"REFUND_UNKNOWN", "RECONCILING"}
    \/ /\ status' = [status EXCEPT ![r] = "ESCALATED"]
       /\ attempt' = "ESCALATED"

LEMMA VerdictRemains ==
    ASSUME SendInv, NEW r, Verdict(r)
    PROVE  RowsRemain
BY MarkRemains, SameRemains DEF Verdict

LEMMA ResumeGives ==
    ASSUME NEW w, NEW c, ResumeConsumed(w, c)
    PROVE  Verdict(c.r) /\ UNCHANGED <<job, grant>>
<1>1. CASE status[c.r] = "PENDING"
  BY <1>1 DEF ResumeConsumed, Settle, Mark, Verdict, OpenStatuses
<1>2. CASE status[c.r] # "PENDING"
  BY <1>2 DEF ResumeConsumed, Verdict
<1> QED
  BY <1>1, <1>2 DEF ResumeConsumed

LEMMA RecordGives ==
    ASSUME NEW w \in Workers, Record(w)
    PROVE  /\ Verdict(job[w].c.r) /\ UNCHANGED <<weather, grant, sent>>
           /\ \E q : End(w, q)
<1> DEFINE r == job[w].c.r
<1>1. CASE status[r] = "PENDING"
  <2>1. RecordResult(w, r, job[w].got)
    BY <1>1 DEF Record
  <2>2. Outcome(job[w].got) \in {"FAILED", "PROCESSED", "UNKNOWN"}
    BY DEF Outcome
  <2>3. status' = [status EXCEPT ![r] = Outcome(job[w].got)]
    BY <2>1 DEF RecordResult, Settle, Mark
  <2>4. Outcome(job[w].got) = "UNKNOWN" => attempt' = "REFUND_UNKNOWN"
    BY <2>1 DEF RecordResult, Settle
  <2>5. Verdict(r)
    BY <1>1, <2>2, <2>3, <2>4 DEF Verdict, OpenStatuses
  <2>6. \E q : End(w, q)
    BY <2>1 DEF RecordResult
  <2> QED
    BY <2>5, <2>6 DEF Record, world
<1>2. CASE status[r] # "PENDING"
  <2>1. RecordTooLate(w, r, job[w].got)
    BY <1>2 DEF Record
  <2> QED
    BY <2>1 DEF RecordTooLate, Verdict, Record, world
<1> QED
  BY <1>1, <1>2

LEMMA EscalateGives ==
    ASSUME NEW r, Escalate(r)
    PROVE  Verdict(r)
BY DEF Escalate, Settle, Mark, Verdict

LEMMA AskAgainGives ==
    ASSUME NEW w, NEW r, AskAgain(w, r, status, attempt)
    PROVE  Verdict(r) /\ \E q : End(w, q)
BY DEF AskAgain, Settle, Verdict

LEMMA AskPendingGives ==
    ASSUME SendInv, NEW w, NEW r \in Refund, status[r] \in OpenStatuses,
           AskAgain(w, r, Mark(r, "RECONCILING"), "RECONCILING")
    PROVE  Verdict(r) /\ \E q : End(w, q)
<1>1. [Mark(r, "RECONCILING") EXCEPT ![r] = "ESCALATED"] = [status EXCEPT ![r] = "ESCALATED"]
  BY DEF SendInv, Shaped, Mark
<1>2. CASE job[w].c.round < Rounds
  BY <1>2 DEF AskAgain, Settle, Mark, Verdict
<1>3. CASE ~(job[w].c.round < Rounds)
  BY <1>1, <1>3 DEF AskAgain, Settle, Verdict
<1> QED
  BY <1>2, <1>3

LEMMA RefusedGives ==
    ASSUME NEW w, NEW r, Refused(w)
    PROVE  Verdict(r) /\ \E q : End(w, q)
BY DEF Refused, Verdict

LEMMA ApplyTotalGives ==
    ASSUME NEW w, NEW r, ApplyTotal(w, r)
    PROVE  Verdict(r) /\ \E q : End(w, q)
<1>1. CASE Refused(w)
  BY <1>1, RefusedGives
<1>2. CASE AskAgain(w, r, status, attempt)
  BY <1>2, AskAgainGives
<1>3. CASE /\ status[r] = "UNKNOWN"
           /\ Settle(Mark(r, "FAILED"), "REFUND_FAILED") /\ End(w, queue)
  BY <1>3 DEF Settle, Mark, Verdict, OpenStatuses
<1> QED
  BY <1>1, <1>2, <1>3 DEF ApplyTotal

LEMMA ApplyKnownGives ==
    ASSUME SendInv, NEW w, NEW r \in Refund, NEW got, ApplyKnown(w, r, got)
    PROVE  Verdict(r) /\ \E q : End(w, q)
<1>1. CASE Refused(w)
  BY <1>1, RefusedGives
<1>2. CASE AskAgain(w, r, status, attempt)
  BY <1>2, AskAgainGives
<1>3. CASE Escalate(r) /\ End(w, queue)
  BY <1>3, EscalateGives
<1>4. CASE /\ Reconcilable(r)
           /\ Settle(Mark(r, "PROCESSED"), SettledTarget(Mark(r, "PROCESSED")))
           /\ End(w, queue)
  BY <1>4 DEF Settle, Mark, Verdict, Reconcilable, OpenStatuses
<1>5. CASE Reconcilable(r) /\ AskAgain(w, r, Mark(r, "RECONCILING"), "RECONCILING")
  BY <1>5, AskPendingGives DEF Reconcilable, OpenStatuses
<1>6. CASE got = "mismatch"
  BY <1>1, <1>3, <1>6 DEF ApplyKnown
<1>7. CASE got = "processed"
  BY <1>1, <1>4, <1>7 DEF ApplyKnown
<1>8. CASE got = "pending"
  BY <1>1, <1>5, <1>8 DEF ApplyKnown
<1>9. CASE got \notin {"mismatch", "processed", "pending"}
  BY <1>1, <1>2, <1>9 DEF ApplyKnown
<1> QED
  BY <1>6, <1>7, <1>8, <1>9

LEMMA ApplyGives ==
    ASSUME SendInv, NEW w \in Workers, Apply(w)
    PROVE  /\ Verdict(job[w].c.r) /\ UNCHANGED <<weather, grant, sent>>
           /\ \E q : End(w, q)
<1>1. job[w].c.r \in Refund /\ UNCHANGED <<weather, grant, sent>>
  BY DEF Apply, SendInv, Shaped, world
<1>2. CASE job[w].got \in {"total", "no_total"}
  BY <1>1, <1>2, ApplyTotalGives DEF Apply
<1>3. CASE job[w].got \notin {"total", "no_total"}
  BY <1>1, <1>3, ApplyKnownGives DEF Apply
<1> QED
  BY <1>1, <1>2, <1>3

-----------------------------------------------------------------------------
(* Every step keeps the invariant.                                         *)

LEMMA TakeExecuteKeeps ==
    ASSUME SendInv, NEW w \in Workers, NEW c \in Command, TakeExecute(w, c)
    PROVE  SendInv'
<1>1. job[w] = NoJob /\ UNCHANGED sent
  BY DEF TakeExecute, world
<1>2. CASE ConsumeGrant(w, c)
  BY <1>1, <1>2, ConsumeGrantKeeps
<1>3. CASE RefuseGrant(w, c)
  BY <1>1, <1>3, SameRemains, JobsKept DEF RefuseGrant, rows
<1>4. CASE ResumeConsumed(w, c)
  BY <1>1, <1>4, ResumeGives, VerdictRemains, JobsKept
<1> QED
  BY <1>2, <1>3, <1>4 DEF TakeExecute

LEMMA TakeRoundKeeps ==
    ASSUME SendInv, NEW w \in Workers, NEW c \in Command, TakeRound(w, c)
    PROVE  SendInv'
<1>1. UNCHANGED <<status, grant, sent>> /\ RowsRemain
  BY SameRemains DEF TakeRound, rows, world
<1>2. CASE UNCHANGED job
  BY <1>1, <1>2, JobsKept
<1>3. ASSUME NEW step \in {"fetch", "look_up"}, Start(w, c, step) PROVE SendInv'
  <2> DEFINE new == [c |-> c, step |-> step, got |-> "none", total |-> 0, held |-> TRUE]
  <2>1. Harmless(new)
    BY DEF Harmless, JobShape, Command
  <2>2. job' = [job EXCEPT ![w] = new]
    BY <1>3 DEF Start
  <2> QED
    BY <1>1, <2>1, <2>2, HarmlessKeeps
<1> QED
  BY <1>2, <1>3 DEF TakeRound

LEMMA FetchKeeps ==
    ASSUME SendInv, NEW w \in Workers, Fetch(w)
    PROVE  SendInv'
<1>1. job[w] # NoJob /\ UNCHANGED <<status, grant, sent>>
  BY DEF Fetch, rows, world
<1>2. \E got, total : Carry(w, "apply", got, total)
  BY DEF Fetch
<1> QED
  BY <1>1, <1>2, CarryKeeps

LEMMA CrashKeeps ==
    ASSUME SendInv, NEW w \in Workers, Crash(w)
    PROVE  SendInv'
BY SameRemains, HarmlessKeeps DEF Crash, Harmless, rows

(* A worker whose lease ran out goes on with what it was doing.            *)
LEMMA LoseLeaseKeeps ==
    ASSUME SendInv, NEW w \in Workers, LoseLease(w)
    PROVE  SendInv'
<1> DEFINE new == [c |-> job[w].c, step |-> job[w].step, got |-> job[w].got,
                   total |-> job[w].total, held |-> FALSE]
<1>1. /\ job[w] # NoJob /\ UNCHANGED <<status, grant, sent>>
      /\ job' = [job EXCEPT ![w].held = FALSE]
  BY DEF LoseLease, rows, world
<1>2. job' = [v \in Workers |-> IF v = w THEN new ELSE job[v]]
  <2>1. JobShape(job[w]) /\ job = [v \in Workers |-> job[v]]
    BY <1>1 DEF SendInv, Shaped
  <2>2. \A b : [job EXCEPT ![w].held = b] =
             [v \in Workers |->
                IF v = w THEN [c |-> job[w].c, step |-> job[w].step, got |-> job[w].got,
                               total |-> job[w].total, held |-> b]
                ELSE job[v]]
    BY <2>1 DEF JobShape
  <2> QED
    BY <1>1, <2>2
<1>3. \A v \in Workers : job'[v] = IF v = w THEN new ELSE job[v]
  BY <1>2
<1>4. JobShape(new) /\ new.c = job[w].c /\ new.step = job[w].step
  BY DEF JobShape
<1> HIDE DEF new
<1>5. \A v \in Workers : Sending(v)' => Sending(v) /\ job'[v].c = job[v].c
  BY <1>1, <1>3, <1>4 DEF Sending
<1>6. Shaped'
  BY <1>1, <1>2, <1>3, <1>4 DEF SendInv, Shaped
<1>7. SenderSpentGrant' /\ OneSender'
  BY <1>1, <1>5 DEF SendInv, SenderSpentGrant, OneSender
<1> QED
  BY <1>1, <1>6, <1>7 DEF SendInv, UnspentIsUnsent, UnadmittedHasNoGrant, SentAtMostOnce

LEMMA SendInit == Init => SendInv
<1> SUFFICES ASSUME Init PROVE SendInv
  OBVIOUS
<1>1. \A w \in Workers : job[w] = NoJob
  BY DEF Init
<1>2. Shaped
  BY <1>1 DEF Init, Shaped
<1>3. SenderSpentGrant /\ OneSender
  BY <1>1 DEF SenderSpentGrant, OneSender, Sending
<1>4. UnspentIsUnsent /\ UnadmittedHasNoGrant /\ SentAtMostOnce
  BY DEF Init, UnspentIsUnsent, UnadmittedHasNoGrant, SentAtMostOnce
<1> QED
  BY <1>2, <1>3, <1>4 DEF SendInv

LEMMA SendStep == SendInv /\ [Next]_vars => SendInv'
<1> SUFFICES ASSUME SendInv, [Next]_vars PROVE SendInv'
  OBVIOUS
<1>1. ASSUME NEW r \in Refund, NEW a \in 1 .. Captured, RequestRefund(r, a)
      PROVE  SendInv'
  BY <1>1, AdmitKeeps DEF RequestRefund
<1>2. ASSUME NEW r \in Refund, AdmitStaleRefund(r) PROVE SendInv'
  BY <1>2, AdmitKeeps DEF AdmitStaleRefund
<1>3. ASSUME NEW w \in Workers, NEW c \in Command, TakeExecute(w, c) \/ TakeRound(w, c)
      PROVE  SendInv'
  BY <1>3, TakeExecuteKeeps, TakeRoundKeeps
<1>4. ASSUME NEW w \in Workers, Send(w) \/ Fetch(w) \/ Crash(w) \/ LoseLease(w)
      PROVE  SendInv'
  BY <1>4, SendKeeps, FetchKeeps, CrashKeeps, LoseLeaseKeeps
<1>5. ASSUME NEW w \in Workers, Record(w) PROVE SendInv'
  BY <1>5, RecordGives, VerdictRemains, EndKeeps
<1>6. ASSUME NEW w \in Workers, Apply(w) PROVE SendInv'
  BY <1>6, ApplyGives, VerdictRemains, EndKeeps
<1>7. ASSUME NEW r \in Refund, ExpireGrant(r) PROVE SendInv'
  BY <1>7, ExpireGrantKeeps
<1>8. ASSUME UNCHANGED <<status, grant, job, sent>> PROVE SendInv'
  BY <1>8, SameRemains, JobsKept
<1>9. ASSUME NEW r \in Refund, ProviderSettles(r) \/ LateLand(r) PROVE SendInv'
  BY <1>9, <1>8 DEF ProviderSettles, LateLand, rows
<1>10. ASSUME NEW a \in 1 .. Captured, RefundOutside(a) PROVE SendInv'
  BY <1>10, <1>8 DEF RefundOutside, rows
<1>11. CASE WithholdStaleRefund \/ CaptureReported \/ PaymentRound
  BY <1>11, <1>8 DEF WithholdStaleRefund, CaptureReported, PaymentRound, world
<1>12. CASE UNCHANGED vars
  BY <1>12, <1>8 DEF vars, rows, world
<1>13. CASE Admission
  BY <1>13, <1>1, <1>2, <1>11 DEF Admission
<1>14. CASE Work
  BY <1>14, <1>3, <1>4, <1>5, <1>6 DEF Work
<1>15. CASE Environment
  BY <1>15, <1>4, <1>7, <1>9, <1>10, <1>11 DEF Environment
<1> QED
  BY <1>12, <1>13, <1>14, <1>15 DEF Next

(* At most one worker ever has the right to send a refund, and using it    *)
(* spends it (consume_grant, handle_refund_execute).                       *)
THEOREM SendInvariance == Spec => []SendInv
BY SendInit, SendStep, PTL DEF Spec

(* No refund is ever sent twice: not by a redelivered command, not by a    *)
(* worker that lost its lease, not after a crash (handlers/refund.py).     *)
THEOREM NeverResent == Spec => []SentAtMostOnce
<1>1. SendInv => SentAtMostOnce
  BY DEF SendInv
<1> QED
  BY <1>1, SendInvariance, PTL

-----------------------------------------------------------------------------
(* One open refund of an attempt.                                          *)

(* While the attempt would let a refund be admitted, none is open.         *)
OpenInv ==
    ~weather.evidence =>
        /\ \A r, q \in Open : r = q
        /\ PaymentEdge(attempt, "REFUND_PENDING") => Open = {}

LEMMA NotAdmitting ==
    \A s \in {"REFUND_PENDING", "REFUND_UNKNOWN", "RECONCILING", "ESCALATED"} :
        ~PaymentEdge(s, "REFUND_PENDING")
BY DEF PaymentEdge, PAYMENT_TRANSITIONS, PaymentState

(* A step that moves the row of the open refund, or closes one that is not.*)
LEMMA OneMoves ==
    ASSUME SendInv, OpenInv, NEW r \in Refund, NEW s, UNCHANGED weather,
           status' = [status EXCEPT ![r] = s],
           ~weather.evidence => r \in Open \/ s \notin OpenStatuses \/ Open = {},
           PaymentEdge(attempt', "REFUND_PENDING") => r \in Open /\ s \notin OpenStatuses
    PROVE  OpenInv'
<1> SUFFICES ASSUME ~weather.evidence
             PROVE  /\ \A p, q \in Open' : p = q
                    /\ PaymentEdge(attempt', "REFUND_PENDING") => Open' = {}
  BY DEF OpenInv
<1>1. \A q \in Refund : status'[q] = IF q = r THEN s ELSE status[q]
  BY DEF SendInv, Shaped
<1>2. \A q \in Open' : q \in Refund /\ (q = r \/ q \in Open)
  BY <1>1 DEF Open
<1>3. r \in Open' <=> s \in OpenStatuses
  BY <1>1 DEF Open
<1>4. \A p, q \in Open : p = q
  BY DEF OpenInv
<1> QED
  BY <1>2, <1>3, <1>4

LEMMA NoneMoves ==
    ASSUME OpenInv, UNCHANGED <<weather, status, attempt>>
    PROVE  OpenInv'
BY DEF OpenInv, Open

LEMMA VerdictKeepsOpen ==
    ASSUME SendInv, OpenInv, NEW r \in Refund, Verdict(r), UNCHANGED weather
    PROVE  OpenInv'
<1>1. CASE UNCHANGED <<status, attempt>>
  BY <1>1, NoneMoves
<1>2. CASE /\ status[r] \in OpenStatuses
           /\ \E s \in {"FAILED", "PROCESSED"} : status' = [status EXCEPT ![r] = s]
  <2>1. PICK s \in {"FAILED", "PROCESSED"} : status' = [status EXCEPT ![r] = s]
    BY <1>2
  <2>2. r \in Open /\ s \notin OpenStatuses
    BY <1>2 DEF Open, OpenStatuses
  <2> QED
    BY <2>1, <2>2, OneMoves
<1>3. CASE /\ status[r] \in OpenStatuses
           /\ \E s \in {"UNKNOWN", "RECONCILING"} : status' = [status EXCEPT ![r] = s]
           /\ attempt' \in {"REFUND_UNKNOWN", "RECONCILING"}
  <2>1. r \in Open /\ ~PaymentEdge(attempt', "REFUND_PENDING")
    BY <1>3, NotAdmitting DEF Open
  <2> QED
    BY <1>3, <2>1, OneMoves
<1>4. CASE status' = [status EXCEPT ![r] = "ESCALATED"] /\ attempt' = "ESCALATED"
  <2>1. ~PaymentEdge(attempt', "REFUND_PENDING") /\ "ESCALATED" \notin OpenStatuses
    BY <1>4, NotAdmitting DEF OpenStatuses
  <2> QED
    BY <1>4, <2>1, OneMoves
<1> QED
  BY <1>1, <1>2, <1>3, <1>4 DEF Verdict

LEMMA AdmitKeepsOpen ==
    ASSUME SendInv, OpenInv, NEW r \in Refund, NEW a, Admit(r, a)
    PROVE  OpenInv'
<1>1. /\ status' = [status EXCEPT ![r] = "PENDING"] /\ attempt' = "REFUND_PENDING"
      /\ PaymentEdge(attempt, "REFUND_PENDING") /\ UNCHANGED weather
  BY DEF Admit, Mark, Admissible
<1>2. ~weather.evidence => Open = {}
  BY <1>1 DEF OpenInv
<1> QED
  BY <1>1, <1>2, NotAdmitting, OneMoves

LEMMA OpenInit == Init => OpenInv
BY DEF Init, OpenInv, Open, OpenStatuses

LEMMA OpenStep == SendInv /\ OpenInv /\ [Next]_vars => OpenInv'
<1> SUFFICES ASSUME SendInv, OpenInv, [Next]_vars PROVE OpenInv'
  OBVIOUS
<1>1. ASSUME NEW r \in Refund, NEW a, Admit(r, a) PROVE OpenInv'
  BY <1>1, AdmitKeepsOpen
<1>2. ASSUME UNCHANGED <<weather, status, attempt>> PROVE OpenInv'
  BY <1>2, NoneMoves
<1>3. ASSUME NEW w \in Workers, NEW c \in Command, TakeExecute(w, c) PROVE OpenInv'
  <2>1. c.r \in Refund /\ UNCHANGED weather
    BY <1>3 DEF Command, TakeExecute
  <2>2. CASE ConsumeGrant(w, c) \/ RefuseGrant(w, c)
    BY <2>1, <2>2, <1>2 DEF ConsumeGrant, RefuseGrant, rows
  <2>3. CASE ResumeConsumed(w, c)
    BY <2>1, <2>3, ResumeGives, VerdictKeepsOpen
  <2> QED
    BY <1>3, <2>2, <2>3 DEF TakeExecute
<1>4. ASSUME NEW w \in Workers, Record(w) \/ Apply(w) PROVE OpenInv'
  <2>1. job[w].c.r \in Refund
    BY <1>4 DEF Record, Apply, SendInv, Shaped
  <2> QED
    BY <1>4, <2>1, RecordGives, ApplyGives, VerdictKeepsOpen
<1>5. ASSUME NEW w \in Workers, Send(w) \/ Fetch(w) \/ Crash(w) \/ LoseLease(w)
      PROVE  OpenInv'
  BY <1>5, <1>2 DEF Send, Fetch, Crash, LoseLease, rows
<1>6. ASSUME NEW w \in Workers, NEW c \in Command, TakeRound(w, c) PROVE OpenInv'
  BY <1>6, <1>2 DEF TakeRound, rows
<1>7. ASSUME NEW r \in Refund, ExpireGrant(r) \/ ProviderSettles(r) \/ LateLand(r)
      PROVE  OpenInv'
  BY <1>7, <1>2 DEF ExpireGrant, ProviderSettles, LateLand, rows
<1>8. ASSUME NEW a \in 1 .. Captured, RefundOutside(a) PROVE OpenInv'
  BY <1>8, <1>2 DEF RefundOutside, rows
<1>9. CASE WithholdStaleRefund
  BY <1>9, <1>2 DEF WithholdStaleRefund
<1>10. CASE CaptureReported \/ PaymentRound
  BY <1>10 DEF CaptureReported, PaymentRound, OpenInv
<1>11. CASE UNCHANGED vars
  BY <1>11, <1>2 DEF vars, rows
<1>12. CASE Admission
  BY <1>12, <1>1, <1>9 DEF Admission, RequestRefund, AdmitStaleRefund
<1>13. CASE Work
  BY <1>13, <1>3, <1>4, <1>5, <1>6 DEF Work
<1>14. CASE Environment
  BY <1>14, <1>5, <1>7, <1>8, <1>10 DEF Environment
<1> QED
  BY <1>11, <1>12, <1>13, <1>14 DEF Next

LEMMA OpenIsOne == OpenInv => OneOpenRefund
<1> SUFFICES ASSUME OpenInv, ~weather.evidence PROVE Cardinality(Open) <= 1
  BY DEF OneOpenRefund
<1>1. CASE Open = {}
  BY <1>1, FS_EmptySet
<1>2. CASE Open # {}
  <2>1. PICK r \in Open : TRUE
    BY <1>2
  <2>2. Open = {r}
    BY <2>1 DEF OpenInv
  <2>3. Cardinality(Open) = 1
    BY <2>2, FS_Singleton, Zenon
  <2> QED
    BY <2>3
<1> QED
  BY <1>1, <1>2

(* While no report of the capture interferes, one refund of an attempt is  *)
(* open at most: the attempt admits the next one only when the last has    *)
(* been answered (_admit, record_refund_result, reconcile_refund).         *)
THEOREM OneRefundInFlight == Spec => []OneOpenRefund
<1>1. SendInv /\ OpenInv /\ [Next]_vars => (SendInv /\ OpenInv)'
  BY SendStep, OpenStep
<1>2. Spec => [](SendInv /\ OpenInv)
  BY <1>1, SendInit, OpenInit, PTL DEF Spec
<1> QED
  BY <1>2, OpenIsOne, PTL

-----------------------------------------------------------------------------
(* Commands, leases and jobs.                                              *)

(* No more workers hold a command than there are deliveries of it.         *)
LeaseInv ==
    \A c \in Command :
        IsFiniteSet(Leased(c)) /\ Cardinality(Leased(c)) <= queue[c]

(* A worker does what its command is for, and knows what it was told.      *)
JobsFit ==
    \A w \in Workers : job[w] # NoJob =>
        /\ job[w].c.round = 0 <=> job[w].step \in {"send", "record"}
        /\ job[w].step = "record" =>
              job[w].got \in {"unknown", "echo", "processed", "pending", "failed"}
        /\ job[w].step = "apply" =>
              job[w].got \in {"total", "no_total", "processed", "pending", "unknown", "mismatch"}

TypeInv == TypeOK /\ LeaseInv /\ JobsFit

(* The sums of the ledger.                                                 *)
Reserving == {r \in Refund : status[r] \in RESERVING_STATUSES}
Settled == {r \in Refund : status[r] = "PROCESSED"}
AtProvider == {r \in Refund : provider[r] \in {"pending", "processed"}}

LEMMA Ledger ==
    /\ Reserved = Sum(amount, Reserving)
    /\ Overdrawn(status) <=> Sum(amount, Reserving) > Captured
    /\ SettledIn(status) = Sum(amount, Settled)
    /\ ProviderTotal = outside + Sum(amount, AtProvider)
BY DEF Reserved, Overdrawn, SettledIn, ProviderTotal, Total, Sum, Reserving, Settled,
       AtProvider, MapThenSumSet, MapThenFoldSet

LEMMA LedgerAfter ==
    /\ Overdrawn(status)' <=> Sum(amount', Reserving') > Captured
    /\ SettledIn(status)' = Sum(amount', Settled')
BY DEF Overdrawn, SettledIn, Total, Sum, Reserving, Settled,
       MapThenSumSet, MapThenFoldSet

LEMMA RefundsFinite == \A S \in SUBSET Refund : IsFiniteSet(S)
<1>1. IsFiniteSet(Refund)
  BY RefundsAssumption, FS_Interval DEF Refund
<1> QED
  BY <1>1, FS_Subset

LEMMA SumsAreNat ==
    ASSUME TypeOK
    PROVE  \A S \in SUBSET Refund : Sum(amount, S) \in Nat
<1>1. \A r \in Refund : amount[r] \in Nat
  BY RefundsAssumption DEF TypeOK
<1> QED
  BY <1>1, RefundsFinite, SumNat

LEMMA LedgerIsNat ==
    ASSUME TypeOK
    PROVE  /\ Reserved \in Nat /\ Remaining \in Int /\ Remaining <= Captured
           /\ ProviderTotal \in Nat /\ ProviderTotal >= outside
           /\ SettledIn(status) \in Nat
<1>1. Sum(amount, Reserving) \in Nat /\ Sum(amount, Settled) \in Nat
      /\ Sum(amount, AtProvider) \in Nat
  BY SumsAreNat DEF Reserving, Settled, AtProvider
<1>2. outside \in Nat
  BY RefundsAssumption DEF TypeOK
<1> QED
  BY <1>1, <1>2, Ledger, RefundsAssumption DEF Remaining

-----------------------------------------------------------------------------
(* Leases.                                                                 *)

(* No worker takes up a command, and none is removed from the queue.       *)
LEMMA LeasesShrink ==
    ASSUME TypeInv, TypeOK',
           \A c \in Command : Leased(c)' \subseteq Leased(c) /\ queue'[c] >= queue[c]
    PROVE  LeaseInv'
<1> SUFFICES ASSUME NEW c \in Command
             PROVE  IsFiniteSet(Leased(c)') /\ Cardinality(Leased(c)') <= queue'[c]
  BY DEF LeaseInv
<1>1. /\ IsFiniteSet(Leased(c)) /\ Cardinality(Leased(c)) <= queue[c]
      /\ Leased(c)' \subseteq Leased(c) /\ queue'[c] >= queue[c]
      /\ queue[c] \in Nat /\ queue'[c] \in Nat
  BY DEF TypeInv, LeaseInv, TypeOK
<1> HIDE DEF Leased
<1>2. /\ IsFiniteSet(Leased(c)') /\ Cardinality(Leased(c)') <= Cardinality(Leased(c))
      /\ Cardinality(Leased(c)) \in Nat /\ Cardinality(Leased(c)') \in Nat
  BY <1>1, FS_Subset, FS_CardinalityType
<1> QED
  BY <1>1, <1>2

(* A worker takes a free command.                                          *)
LEMMA LeaseTaken ==
    ASSUME TypeInv, TypeOK', NEW w \in Workers, NEW c \in Command, NEW step,
           job[w] = NoJob, Free(c), Start(w, c, step), UNCHANGED queue
    PROVE  LeaseInv'
<1> DEFINE x == [c |-> c, step |-> step, got |-> "none", total |-> 0, held |-> TRUE]
<1>1. \A v \in Workers : job'[v] = IF v = w THEN x ELSE job[v]
  BY DEF Start, TypeInv, TypeOK
<1>2. x.c = c
  OBVIOUS
<1> HIDE DEF x
<1>3. \A d \in Command : d # c => Leased(d)' \subseteq Leased(d)
  BY <1>1, <1>2 DEF Leased
<1>4. Leased(c)' \subseteq Leased(c) \cup {w}
  BY <1>1 DEF Leased
<1>5. /\ \A d \in Command : IsFiniteSet(Leased(d)) /\ Cardinality(Leased(d)) <= queue[d]
      /\ queue[c] > Cardinality(Leased(c)) /\ \A d \in Command : queue[d] \in Nat
  BY DEF TypeInv, LeaseInv, TypeOK, Free
<1> HIDE DEF Leased
<1>6. /\ IsFiniteSet(Leased(c) \cup {w})
      /\ Cardinality(Leased(c) \cup {w}) <= Cardinality(Leased(c)) + 1
      /\ Cardinality(Leased(c)) \in Nat /\ Cardinality(Leased(c) \cup {w}) \in Nat
  <2>1. IsFiniteSet(Leased(c))
    BY <1>5
  <2>2. Cardinality(Leased(c)) \in Nat
    BY <2>1, FS_CardinalityType
  <2>3. /\ IsFiniteSet(Leased(c) \cup {w})
        /\ Cardinality(Leased(c) \cup {w}) =
             IF w \in Leased(c) THEN Cardinality(Leased(c)) ELSE Cardinality(Leased(c)) + 1
    BY <2>1, FS_AddElement
  <2> QED
    BY <2>2, <2>3
<1>7. IsFiniteSet(Leased(c)') /\ Cardinality(Leased(c)') <= queue[c]
  <2>1. /\ IsFiniteSet(Leased(c)') /\ Cardinality(Leased(c)') \in Nat
        /\ Cardinality(Leased(c)') <= Cardinality(Leased(c) \cup {w})
    BY <1>4, <1>6, FS_Subset, FS_CardinalityType
  <2> QED
    BY <1>5, <1>6, <2>1
<1>8. \A d \in Command : d # c =>
        IsFiniteSet(Leased(d)') /\ Cardinality(Leased(d)') <= queue[d]
  <2> SUFFICES ASSUME NEW d \in Command, d # c
               PROVE  IsFiniteSet(Leased(d)') /\ Cardinality(Leased(d)') <= queue[d]
    OBVIOUS
  <2>1. /\ IsFiniteSet(Leased(d)') /\ Cardinality(Leased(d)') <= Cardinality(Leased(d))
        /\ Cardinality(Leased(d)) \in Nat /\ Cardinality(Leased(d)') \in Nat
    BY <1>3, <1>5, FS_Subset, FS_CardinalityType
  <2> QED
    BY <1>5, <2>1
<1> QED
  BY <1>7, <1>8 DEF LeaseInv

(* A free command is finished without a worker.                            *)
LEMMA LeaseUnneeded ==
    ASSUME TypeInv, TypeOK', NEW c \in Command, Free(c), UNCHANGED job,
           queue'[c] = queue[c] - 1, \A d \in Command : d # c => queue'[d] >= queue[d]
    PROVE  LeaseInv'
<1>1. \A d \in Command : Leased(d)' = Leased(d)
  BY DEF Leased
<1>2. /\ \A d \in Command : IsFiniteSet(Leased(d)) /\ Cardinality(Leased(d)) <= queue[d]
      /\ queue[c] > Cardinality(Leased(c))
      /\ \A d \in Command : queue[d] \in Nat /\ queue'[d] \in Nat
  BY DEF TypeInv, LeaseInv, TypeOK, Free
<1> HIDE DEF Leased
<1>3. \A d \in Command : Cardinality(Leased(d)) \in Nat
  BY <1>2, FS_CardinalityType
<1>4. \A d \in Command : Cardinality(Leased(d)) <= queue'[d]
  BY <1>2, <1>3
<1> QED
  BY <1>1, <1>2, <1>4 DEF LeaseInv

(* A worker ends its command: what it held leaves the queue with it.       *)
LEMMA LeaseEnded ==
    ASSUME TypeInv, TypeOK', NEW w \in Workers, job[w] # NoJob, NEW q, End(w, q),
           q \in [Command -> Nat], \A d \in Command : q[d] >= queue[d]
    PROVE  LeaseInv'
<1> DEFINE c == job[w].c
<1>1. c \in Command /\ job[w].held \in BOOLEAN
  BY DEF TypeInv, TypeOK, Job
<1>2. \A v \in Workers : job'[v] = IF v = w THEN NoJob ELSE job[v]
  BY DEF End, TypeInv, TypeOK
<1>3. \A d \in Command : Leased(d)' \subseteq Leased(d) \ {w}
  BY <1>2 DEF Leased
<1>4. CASE ~job[w].held
  <2>1. queue' = q
    BY <1>4 DEF End, Removed
  <2> QED
    BY <1>3, <2>1, LeasesShrink
<1>5. CASE job[w].held
  <2>1. w \in Leased(c)
    BY <1>5 DEF Leased
  <2>2. \A d \in Command : queue'[d] = IF d = c THEN q[d] - 1 ELSE q[d]
    BY <1>1, <1>5 DEF End, Removed
  <2>3. /\ \A d \in Command : IsFiniteSet(Leased(d)) /\ Cardinality(Leased(d)) <= queue[d]
        /\ \A d \in Command : queue[d] \in Nat /\ queue'[d] \in Nat
    BY DEF TypeInv, LeaseInv, TypeOK
  <2> HIDE DEF Leased
  <2>4. /\ IsFiniteSet(Leased(c) \ {w})
        /\ Cardinality(Leased(c) \ {w}) = Cardinality(Leased(c)) - 1
        /\ Cardinality(Leased(c)) \in Nat /\ Cardinality(Leased(c) \ {w}) \in Nat
    <3>1. IsFiniteSet(Leased(c)) /\ IsFiniteSet(Leased(c) \ {w})
      BY <1>1, <2>3, FS_RemoveElement
    <3>2. Cardinality(Leased(c) \ {w}) = Cardinality(Leased(c)) - 1
      BY <2>1, <3>1, FS_RemoveElement
    <3> QED
      BY <3>1, <3>2, FS_CardinalityType
  <2> SUFFICES ASSUME NEW d \in Command
               PROVE  IsFiniteSet(Leased(d)') /\ Cardinality(Leased(d)') <= queue'[d]
    BY DEF LeaseInv
  <2>5. CASE d = c
    <3>1. /\ IsFiniteSet(Leased(d)') /\ Cardinality(Leased(d)') \in Nat
          /\ Cardinality(Leased(d)') <= Cardinality(Leased(c) \ {w})
      BY <1>3, <2>4, <2>5, FS_Subset, FS_CardinalityType
    <3>2. queue'[d] = q[c] - 1 /\ q[c] >= queue[c] /\ Cardinality(Leased(c)) <= queue[c]
          /\ q[c] \in Nat /\ queue[c] \in Nat
      BY <1>1, <2>2, <2>3, <2>5
    <3> QED
      BY <2>4, <3>1, <3>2
  <2>6. CASE d # c
    <3>1. Leased(d)' \subseteq Leased(d)
      BY <1>3
    <3>2. /\ IsFiniteSet(Leased(d)') /\ Cardinality(Leased(d)') \in Nat
          /\ Cardinality(Leased(d)') <= Cardinality(Leased(d)) /\ Cardinality(Leased(d)) \in Nat
      BY <2>3, <3>1, FS_Subset, FS_CardinalityType
    <3>3. queue'[d] = q[d] /\ q[d] >= queue[d] /\ Cardinality(Leased(d)) <= queue[d]
          /\ q[d] \in Nat /\ queue[d] \in Nat
      BY <2>2, <2>3, <2>6
    <3> QED
      BY <3>2, <3>3
  <2> QED
    BY <2>5, <2>6
<1> QED
  BY <1>1, <1>4, <1>5

-----------------------------------------------------------------------------
(* What a worker's transactions do to the ledger, case by case.            *)

(* The row of r moves to s, its attempt to target and the order with it.   *)
Rules(r, s, target) == Settle([status EXCEPT ![r] = s], target)

ResumeRules(c) ==
    \/ status[c.r] = "PENDING" /\ Rules(c.r, "UNKNOWN", "REFUND_UNKNOWN")
    \/ status[c.r] # "PENDING" /\ UNCHANGED <<status, attempt, order>>

LEMMA ResumeCases ==
    ASSUME NEW w, NEW c, ResumeConsumed(w, c)
    PROVE  ResumeRules(c)
BY DEF ResumeConsumed, ResumeRules, Rules, Mark

RecordRules(w, r, q) ==
    \/ /\ status[r] = "PENDING" /\ job[w].got = "failed" /\ q = queue
       /\ Rules(r, "FAILED", "REFUND_FAILED")
    \/ /\ status[r] = "PENDING" /\ job[w].got = "processed" /\ q = queue
       /\ Rules(r, "PROCESSED", SettledTarget([status EXCEPT ![r] = "PROCESSED"]))
    \/ /\ status[r] = "PENDING" /\ job[w].got \in {"pending", "unknown", "echo"}
       /\ q = Enqueue(r, 1) /\ Rules(r, "UNKNOWN", "REFUND_UNKNOWN")
    \/ /\ status[r] # "PENDING" /\ q \in {queue, Enqueue(r, 1)}
       /\ UNCHANGED <<status, attempt, order>>

LEMMA RecordCases ==
    ASSUME TypeInv, NEW w \in Workers, Record(w)
    PROVE  /\ UNCHANGED <<weather, amount, grant, withheld, faults, provider, outside,
                          wire, sent>>
           /\ \E q : RecordRules(w, job[w].c.r, q) /\ End(w, q)
           /\ \E b \in BOOLEAN :
                /\ named' = [named EXCEPT ![job[w].c.r] = b]
                /\ status[job[w].c.r] # "PENDING" /\ named[job[w].c.r] => b
<1> DEFINE r == job[w].c.r
<1>0. UNCHANGED <<weather, amount, grant, withheld, faults, provider, outside, wire, sent>>
  BY DEF Record, world
<1>1. job[w].got \in {"unknown", "echo", "processed", "pending", "failed"}
  BY DEF TypeInv, JobsFit, Record
<1>2. CASE status[r] = "PENDING"
  <2>1. RecordResult(w, r, job[w].got)
    BY <1>2 DEF Record
  <2>2. job[w].got = "failed" => \E q : RecordRules(w, r, q) /\ End(w, q)
    BY <1>2, <2>1 DEF RecordResult, Outcome, Unsettled, Mark, RecordRules, Rules
  <2>3. job[w].got = "processed" => \E q : RecordRules(w, r, q) /\ End(w, q)
    BY <1>2, <2>1 DEF RecordResult, Outcome, Unsettled, Mark, RecordRules, Rules
  <2>4. job[w].got \in {"pending", "unknown", "echo"} => \E q : RecordRules(w, r, q) /\ End(w, q)
    BY <1>2, <2>1 DEF RecordResult, Outcome, Unsettled, Mark, RecordRules, Rules
  <2> DEFINE b == job[w].got \in {"processed", "pending", "echo"}
  <2>5. b \in BOOLEAN /\ named' = [named EXCEPT ![r] = b]
    BY <2>1 DEF RecordResult
  <2> QED
    BY <1>0, <1>1, <1>2, <2>2, <2>3, <2>4, <2>5
<1>3. CASE status[r] # "PENDING"
  <2>1. RecordTooLate(w, r, job[w].got)
    BY <1>3 DEF Record
  <2>2. \E q : RecordRules(w, r, q) /\ End(w, q)
    BY <1>3, <2>1 DEF RecordTooLate, RecordRules
  <2>3. /\ named \in [Refund -> BOOLEAN] /\ r \in Refund
        /\ named = [named EXCEPT ![r] = named[r]]
    BY DEF TypeInv, TypeOK, Record, Job, Command
  <2> DEFINE late == IF job[w].got \in {"unknown", "echo"} /\ status[r] = "UNKNOWN"
                     THEN named[r] \/ job[w].got = "echo" ELSE named[r]
  <2>4. late \in BOOLEAN /\ (named[r] => late)
    BY <2>3
  <2>5. named' = [named EXCEPT ![r] = late]
    BY <2>1, <2>3 DEF RecordTooLate
  <2> HIDE DEF late
  <2> QED
    BY <1>0, <2>2, <2>4, <2>5
<1> QED
  BY <1>2, <1>3

Refusable(w, r) ==
    \/ Overdrawn(status) \/ ~Reconcilable(r)
    \/ job[w].got = "total" /\ status[r] # "UNKNOWN"

ApplyRules(w, r, q) ==
    \/ Refusable(w, r) /\ q = queue /\ UNCHANGED <<status, attempt, order>>
    \/ /\ job[w].c.round < Rounds /\ q = Enqueue(r, job[w].c.round + 1)
       /\ Settle(status, attempt)
    \/ /\ job[w].got = "total" /\ status[r] = "UNKNOWN" /\ ~Overdrawn(status)
       /\ job[w].total <= SettledIn(status) /\ q = queue
       /\ Rules(r, "FAILED", "REFUND_FAILED")
    \/ /\ Escalatable(r) /\ q = queue /\ Rules(r, "ESCALATED", "ESCALATED")
    \/ /\ job[w].got = "processed" /\ Reconcilable(r) /\ ~Overdrawn(status) /\ q = queue
       /\ Rules(r, "PROCESSED", SettledTarget([status EXCEPT ![r] = "PROCESSED"]))
    \/ /\ job[w].got = "pending" /\ Reconcilable(r)
       /\ job[w].c.round < Rounds /\ q = Enqueue(r, job[w].c.round + 1)
       /\ Rules(r, "RECONCILING", "RECONCILING")

LEMMA RefusedCase ==
    ASSUME NEW w, NEW r, Refused(w), Refusable(w, r)
    PROVE  \E q : ApplyRules(w, r, q) /\ End(w, q)
BY DEF Refused, ApplyRules

LEMMA AskAgainCase ==
    ASSUME NEW w, NEW r, AskAgain(w, r, status, attempt),
           job[w].c.round < Rounds \/ Escalatable(r)
    PROVE  \E q : ApplyRules(w, r, q) /\ End(w, q)
BY DEF AskAgain, ApplyRules, Rules

LEMMA ApplyTotalCases ==
    ASSUME NEW w, NEW r, ApplyTotal(w, r)
    PROVE  \E q : ApplyRules(w, r, q) /\ End(w, q)
<1>1. Reconcilable(r) => Escalatable(r)
  BY DEF Reconcilable, Escalatable
<1>2. CASE Overdrawn(status)
  BY <1>2, RefusedCase DEF ApplyTotal, Refusable
<1>3. CASE ~Overdrawn(status) /\ job[w].got = "total" /\ Absent(r, job[w].total)
  <2>1. CASE Reconcilable(r) /\ status[r] = "UNKNOWN"
    BY <1>3, <2>1 DEF ApplyTotal, Absent, ApplyRules, Rules, Mark
  <2>2. CASE ~(Reconcilable(r) /\ status[r] = "UNKNOWN")
    BY <1>3, <2>2, RefusedCase DEF ApplyTotal, Refusable
  <2> QED
    BY <2>1, <2>2
<1>4. CASE ~Overdrawn(status) /\ ~(job[w].got = "total" /\ Absent(r, job[w].total))
  <2>1. CASE job[w].c.round < Rounds \/ Escalatable(r)
    BY <1>4, <2>1, AskAgainCase DEF ApplyTotal
  <2>2. CASE ~(job[w].c.round < Rounds \/ Escalatable(r))
    BY <1>1, <1>4, <2>2, RefusedCase DEF ApplyTotal, Refusable
  <2> QED
    BY <2>1, <2>2
<1> QED
  BY <1>2, <1>3, <1>4

LEMMA ApplyKnownCases ==
    ASSUME TypeOK, NEW w, NEW r \in Refund, ApplyKnown(w, r, job[w].got)
    PROVE  \E q : ApplyRules(w, r, q) /\ End(w, q)
<1> DEFINE got == job[w].got
<1>0. Reconcilable(r) => Escalatable(r)
  BY DEF Reconcilable, Escalatable
<1>1. CASE got = "mismatch"
  <2>1. CASE Escalatable(r)
    BY <1>1, <2>1 DEF ApplyKnown, Escalate, Mark, ApplyRules, Rules
  <2>2. CASE ~Escalatable(r)
    BY <1>0, <1>1, <2>2, RefusedCase DEF ApplyKnown, Refusable
  <2> QED
    BY <2>1, <2>2
<1>2. CASE got = "processed"
  <2>1. CASE Reconcilable(r) /\ ~Overdrawn(status)
    BY <1>2, <2>1 DEF ApplyKnown, Mark, ApplyRules, Rules
  <2>2. CASE ~(Reconcilable(r) /\ ~Overdrawn(status))
    BY <1>2, <2>2, RefusedCase DEF ApplyKnown, Refusable
  <2> QED
    BY <2>1, <2>2
<1>3. CASE got = "pending"
  <2>1. CASE Reconcilable(r)
    <3>1. AskAgain(w, r, Mark(r, "RECONCILING"), "RECONCILING")
      BY <1>3, <2>1 DEF ApplyKnown
    <3>2. [Mark(r, "RECONCILING") EXCEPT ![r] = "ESCALATED"] = [status EXCEPT ![r] = "ESCALATED"]
      BY DEF TypeOK, Mark
    <3>3. CASE job[w].c.round < Rounds
      BY <1>3, <2>1, <3>1, <3>3 DEF AskAgain, Mark, ApplyRules, Rules
    <3>4. CASE ~(job[w].c.round < Rounds)
      BY <1>0, <1>3, <2>1, <3>1, <3>2, <3>4 DEF AskAgain, ApplyRules, Rules
    <3> QED
      BY <3>3, <3>4
  <2>2. CASE ~Reconcilable(r)
    BY <1>3, <2>2, RefusedCase DEF ApplyKnown, Refusable
  <2> QED
    BY <2>1, <2>2
<1>4. CASE got \notin {"mismatch", "processed", "pending"}
  <2>1. CASE job[w].c.round < Rounds \/ Escalatable(r)
    BY <1>4, <2>1, AskAgainCase DEF ApplyKnown
  <2>2. CASE ~(job[w].c.round < Rounds \/ Escalatable(r))
    BY <1>0, <1>4, <2>2, RefusedCase DEF ApplyKnown, Refusable
  <2> QED
    BY <2>1, <2>2
<1> QED
  BY <1>1, <1>2, <1>3, <1>4

LEMMA ApplyCases ==
    ASSUME TypeOK, NEW w \in Workers, Apply(w)
    PROVE  /\ UNCHANGED <<weather, amount, named, grant, withheld, faults, provider,
                          outside, wire, sent>>
           /\ \E q : ApplyRules(w, job[w].c.r, q) /\ End(w, q)
<1>1. job[w].c.r \in Refund
  BY DEF Apply, TypeOK, Job, Command
<1>2. UNCHANGED <<weather, amount, named, grant, withheld, faults, provider, outside, wire, sent>>
  BY DEF Apply, world
<1>3. CASE job[w].got \in {"total", "no_total"}
  BY <1>2, <1>3, ApplyTotalCases DEF Apply
<1>4. CASE job[w].got \notin {"total", "no_total"}
  BY <1>1, <1>2, <1>4, ApplyKnownCases DEF Apply
<1> QED
  BY <1>3, <1>4

-----------------------------------------------------------------------------
(* Types, command by command.                                              *)

RowTypes ==
    /\ weather \in Weathers /\ attempt \in PaymentState
    /\ order \in {"NONE", "CONFIRMED", "PARTIALLY_REFUNDED", "REFUNDED"}
    /\ status \in [Refund -> RefundStatus]
WorkTypes ==
    queue \in [Command -> Nat] /\ job \in [Workers -> Job \cup {NoJob}]

LEMMA RulesTyped ==
    ASSUME TypeOK, UNCHANGED weather, NEW r, NEW s \in RefundStatus,
           NEW target \in PaymentState, Rules(r, s, target)
    PROVE  RowTypes'
BY DEF TypeOK, RowTypes, Rules, Settle

LEMMA RowsKeptTyped ==
    ASSUME TypeOK, UNCHANGED <<weather, status, attempt, order>>
    PROVE  RowTypes'
BY DEF TypeOK, RowTypes

LEMMA TargetsAreStates ==
    /\ \A st : SettledTarget(st) \in PaymentState
    /\ {"REFUND_UNKNOWN", "REFUND_FAILED", "RECONCILING", "ESCALATED",
        "REFUND_PENDING"} \subseteq PaymentState
    /\ RefundStatus = {"NONE", "PENDING", "PROCESSED", "FAILED", "UNKNOWN",
                       "RECONCILING", "ESCALATED"}
BY DEF SettledTarget, PaymentState, RefundStatus

About(r, round) == [r |-> r, round |-> round]
LEMMA EnqueueAdds ==
    ASSUME TypeOK, NEW r \in Refund, NEW round \in 0 .. Rounds
    PROVE  /\ About(r, round) \in Command
           /\ About(r, round).r = r /\ About(r, round).round = round
           /\ Enqueue(r, round) \in [Command -> Nat]
           /\ \A d \in Command : Enqueue(r, round)[d] =
                IF d = About(r, round) THEN queue[d] + 1 ELSE queue[d]
           /\ \A d \in Command : Enqueue(r, round)[d] >= queue[d]
<1> DEFINE x == About(r, round)
<1>1. x \in Command /\ x.r = r /\ x.round = round
  BY DEF Command, About
<1>2. queue \in [Command -> Nat]
  BY DEF TypeOK
<1>3. Enqueue(r, round) = [queue EXCEPT ![x] = @ + 1]
  BY DEF Enqueue, About
<1> HIDE DEF x
<1>4. /\ [queue EXCEPT ![x] = @ + 1] \in [Command -> Nat]
      /\ \A d \in Command : [queue EXCEPT ![x] = @ + 1][d] =
           IF d = x THEN queue[d] + 1 ELSE queue[d]
      /\ \A d \in Command : [queue EXCEPT ![x] = @ + 1][d] >= queue[d]
  BY <1>1, <1>2
<1> QED
  BY <1>1, <1>3, <1>4 DEF x

(* What a worker has in its hands is in the queue.                         *)
LEMMA HeldIsQueued ==
    ASSUME TypeInv, NEW w \in Workers, job[w] # NoJob, job[w].held
    PROVE  job[w].c \in Command /\ queue[job[w].c] >= 1
<1> DEFINE c == job[w].c
<1>1. c \in Command
  BY DEF TypeInv, TypeOK, Job
<1>2. IsFiniteSet(Leased(c)) /\ Cardinality(Leased(c)) <= queue[c] /\ queue[c] \in Nat
  BY <1>1 DEF TypeInv, LeaseInv, TypeOK
<1>3. w \in Leased(c)
  BY DEF Leased
<1> HIDE DEF Leased
<1>4. Leased(c) # {} /\ Cardinality(Leased(c)) \in Nat
  BY <1>2, <1>3, FS_CardinalityType
<1>5. Cardinality(Leased(c)) # 0
  BY <1>2, <1>4, FS_EmptySet
<1> QED
  BY <1>1, <1>2, <1>4, <1>5

LEMMA EndTyped ==
    ASSUME TypeInv, NEW w \in Workers, job[w] # NoJob, NEW q, End(w, q),
           q \in [Command -> Nat], \A d \in Command : q[d] >= queue[d]
    PROVE  WorkTypes'
<1>1. job' \in [Workers -> Job \cup {NoJob}]
  BY DEF End, TypeInv, TypeOK
<1>2. CASE job[w].held
  <2>1. job[w].c \in Command /\ queue[job[w].c] >= 1 /\ queue \in [Command -> Nat]
    BY <1>2, HeldIsQueued DEF TypeInv, TypeOK
  <2>2. q[job[w].c] - 1 \in Nat
    BY <2>1
  <2>3. queue' = [q EXCEPT ![job[w].c] = q[job[w].c] - 1]
    BY <1>2 DEF End, Removed
  <2>4. queue' \in [Command -> Nat]
    BY <2>1, <2>2, <2>3
  <2> QED
    BY <1>1, <2>4 DEF WorkTypes
<1>3. CASE ~job[w].held
  BY <1>1, <1>3 DEF End, Removed, WorkTypes
<1> QED
  BY <1>2, <1>3

LEMMA StartTyped ==
    ASSUME TypeOK, NEW w \in Workers, NEW c \in Command, NEW step \in {"send", "fetch", "look_up"},
           Start(w, c, step), UNCHANGED queue
    PROVE  WorkTypes'
<1>1. [c |-> c, step |-> step, got |-> "none", total |-> 0, held |-> TRUE] \in Job
  BY DEF Job
<1> QED
  BY <1>1 DEF Start, TypeOK, WorkTypes

(* The jobs of the other workers are as they were.                         *)
LEMMA JobsMoveAlone ==
    ASSUME TypeOK, NEW w \in Workers, NEW x, job' = [job EXCEPT ![w] = x]
    PROVE  \A v \in Workers : job'[v] = IF v = w THEN x ELSE job[v]
BY DEF TypeOK

LEMMA CarryTyped ==
    ASSUME SendInv, TypeInv, NEW w \in Workers, job[w] # NoJob,
           NEW step \in {"record", "apply"}, NEW got, NEW total \in Nat,
           got \in {"unknown", "echo", "processed", "pending", "failed", "mismatch", "total", "no_total"},
           Carry(w, step, got, total), UNCHANGED queue
    PROVE  /\ WorkTypes'
           /\ \A v \in Workers : v # w => job'[v] = job[v]
           /\ job'[w] = [c |-> job[w].c, step |-> step, got |-> got,
                         total |-> total, held |-> job[w].held]
           /\ \A d \in Command : Leased(d)' \subseteq Leased(d)
<1> DEFINE x == [c |-> job[w].c, step |-> step, got |-> got,
                 total |-> total, held |-> job[w].held]
<1>1. job' = [job EXCEPT ![w] = x]
  BY Carried
<1>2. x \in Job
  BY DEF TypeInv, TypeOK, Job
<1>3. \A v \in Workers : job'[v] = IF v = w THEN x ELSE job[v]
  BY <1>1, JobsMoveAlone DEF TypeInv
<1>4. x.c = job[w].c /\ x.held = job[w].held
  OBVIOUS
<1> HIDE DEF x
<1>5. WorkTypes'
  BY <1>1, <1>2 DEF TypeInv, TypeOK, WorkTypes
<1>6. \A d \in Command : Leased(d)' \subseteq Leased(d)
  BY <1>3, <1>4 DEF Leased
<1>7. (\A v \in Workers : v # w => job'[v] = job[v]) /\ job'[w] = x
  BY <1>3
<1> QED
  BY <1>5, <1>6, <1>7 DEF x

LEMMA JobsFitMove ==
    ASSUME TypeInv, NEW w \in Workers, \A v \in Workers : v # w => job'[v] = job[v],
           \/ job'[w] = NoJob
           \/ /\ job'[w].c.round = 0 <=> job'[w].step \in {"send", "record"}
              /\ job'[w].step = "record" =>
                    job'[w].got \in {"unknown", "echo", "processed", "pending", "failed"}
              /\ job'[w].step = "apply" =>
                    job'[w].got \in {"total", "no_total", "processed", "pending", "unknown", "mismatch"}
    PROVE  JobsFit'
BY DEF TypeInv, JobsFit

-----------------------------------------------------------------------------
(* Every step keeps the types.                                             *)

OtherTypes ==
    /\ amount \in [Refund -> 0 .. Captured]
    /\ named \in [Refund -> BOOLEAN]
    /\ grant \in [Refund -> {"NONE", "ISSUED", "CONSUMED", "EXPIRED"}]
    /\ withheld \in BOOLEAN
WorldTypes ==
    /\ faults \in 0 .. MaxFaults
    /\ provider \in [Refund -> ProviderStatus]
    /\ outside \in 0 .. Captured
    /\ wire \subseteq Refund
    /\ sent \in [Refund -> Nat]

LEMMA TypeParts == TypeOK <=> RowTypes /\ OtherTypes /\ WorkTypes /\ WorldTypes
BY DEF TypeOK, RowTypes, OtherTypes, WorkTypes, WorldTypes

LEMMA TypePartsAfter ==
    RowTypes' /\ OtherTypes' /\ WorkTypes' /\ WorldTypes' => TypeOK'
BY DEF TypeOK, RowTypes, OtherTypes, WorkTypes, WorldTypes

LEMMA OthersKept ==
    ASSUME TypeOK, UNCHANGED <<amount, named, grant, withheld>>
    PROVE  OtherTypes'
BY DEF TypeOK, OtherTypes

LEMMA WorldKept ==
    ASSUME TypeOK, UNCHANGED <<faults, provider, outside, wire, sent>>
    PROVE  WorldTypes'
BY DEF TypeOK, WorldTypes

LEMMA WorkKept ==
    ASSUME TypeInv, UNCHANGED <<queue, job>>
    PROVE  WorkTypes' /\ JobsFit' /\ (TypeOK' => LeaseInv')
BY DEF TypeInv, TypeOK, WorkTypes, JobsFit, LeaseInv, Leased

LEMMA AdmitTyped ==
    ASSUME TypeInv, NEW r \in Refund, NEW a, Admit(r, a)
    PROVE  TypeInv'
<1>1. /\ a \in 1 .. Remaining /\ UNCHANGED <<weather, order, named, withheld, job>>
      /\ UNCHANGED <<faults, provider, outside, wire, sent>>
      /\ status' = [status EXCEPT ![r] = "PENDING"] /\ attempt' = "REFUND_PENDING"
      /\ amount' = [amount EXCEPT ![r] = a] /\ grant' = [grant EXCEPT ![r] = "ISSUED"]
      /\ queue' = Enqueue(r, 0)
  BY DEF Admit, Admissible, Mark, world
<1>2. RowTypes'
  BY <1>1, TargetsAreStates DEF TypeInv, TypeOK, RowTypes
<1>3. OtherTypes'
  <2>1. a \in 0 .. Captured
    BY <1>1, LedgerIsNat, RefundsAssumption DEF TypeInv
  <2> QED
    BY <1>1, <2>1 DEF TypeInv, TypeOK, OtherTypes
<1>4. WorldTypes'
  BY <1>1, WorldKept DEF TypeInv
<1>5. Enqueue(r, 0) \in [Command -> Nat] /\ \A d \in Command : Enqueue(r, 0)[d] >= queue[d]
  <2>1. 0 \in 0 .. Rounds /\ queue \in [Command -> Nat]
    BY RefundsAssumption DEF TypeInv, TypeOK
  <2> QED
    BY <2>1, EnqueueAdds DEF TypeInv
<1>6. WorkTypes' /\ JobsFit' /\ \A d \in Command : Leased(d)' = Leased(d)
  BY <1>1, <1>5 DEF TypeInv, TypeOK, WorkTypes, JobsFit, Leased
<1>7. TypeOK'
  BY <1>2, <1>3, <1>4, <1>6, TypePartsAfter
<1>8. LeaseInv'
  BY <1>1, <1>5, <1>6, <1>7, LeasesShrink
<1> QED
  BY <1>6, <1>7, <1>8 DEF TypeInv

(* A command that ends with what its transaction did to the ledger.        *)
LEMMA EndingTyped ==
    ASSUME TypeInv, NEW w \in Workers, job[w] # NoJob, NEW q, End(w, q),
           q = queue \/ \E r \in Refund, round \in 0 .. Rounds : q = Enqueue(r, round),
           RowTypes', OtherTypes', UNCHANGED <<faults, provider, outside, wire, sent>>
    PROVE  TypeInv'
<1>1. q \in [Command -> Nat] /\ \A d \in Command : q[d] >= queue[d]
  <2>1. queue \in [Command -> Nat]
    BY DEF TypeInv, TypeOK
  <2>2. CASE q = queue
    BY <2>1, <2>2
  <2>3. ASSUME NEW r \in Refund, NEW round \in 0 .. Rounds, q = Enqueue(r, round)
        PROVE  q \in [Command -> Nat] /\ \A d \in Command : q[d] >= queue[d]
    BY <2>1, <2>3, EnqueueAdds DEF TypeInv
  <2> QED
    BY <2>2, <2>3
<1>2. WorkTypes'
  BY <1>1, EndTyped
<1>3. TypeOK'
  BY <1>2, WorldKept, TypePartsAfter DEF TypeInv
<1>4. LeaseInv'
  BY <1>1, <1>3, LeaseEnded
<1>5. JobsFit'
  <2>1. job' = [job EXCEPT ![w] = NoJob]
    BY DEF End
  <2>2. \A v \in Workers : job'[v] = IF v = w THEN NoJob ELSE job[v]
    BY <2>1, JobsMoveAlone DEF TypeInv
  <2> QED
    BY <2>2, JobsFitMove
<1> QED
  BY <1>3, <1>4, <1>5 DEF TypeInv

LEMMA RecordTyped ==
    ASSUME TypeInv, NEW w \in Workers, Record(w)
    PROVE  TypeInv'
<1> DEFINE r == job[w].c.r
<1>1. job[w] # NoJob /\ r \in Refund /\ 1 \in 0 .. Rounds
  BY RefundsAssumption DEF Record, TypeInv, TypeOK, Job, Command
<1>2. UNCHANGED <<weather, amount, grant, withheld, faults, provider, outside, wire, sent>>
  BY RecordCases
<1>3. PICK q : RecordRules(w, r, q) /\ End(w, q)
  BY RecordCases
<1>4. OtherTypes'
  <2>1. \E b \in BOOLEAN : named' = [named EXCEPT ![r] = b]
    BY RecordCases
  <2>2. \A b \in BOOLEAN : [named EXCEPT ![r] = b] \in [Refund -> BOOLEAN]
    BY DEF TypeInv, TypeOK
  <2>4. named' \in [Refund -> BOOLEAN]
    BY <2>1, <2>2
  <2> QED
    BY <1>2, <2>4 DEF TypeInv, TypeOK, OtherTypes
<1>5. RowTypes'
  <2>1. CASE UNCHANGED <<status, attempt, order>>
    BY <1>2, <2>1, RowsKeptTyped DEF TypeInv
  <2>2. ASSUME NEW s \in {"UNKNOWN", "FAILED", "PROCESSED"}, NEW target \in PaymentState,
               Rules(r, s, target)
        PROVE  RowTypes'
    <3>1. s \in RefundStatus
      BY <2>2, TargetsAreStates
    <3> QED
      BY <1>2, <2>2, <3>1, RulesTyped DEF TypeInv
  <2> QED
    BY <1>3, <2>1, <2>2, TargetsAreStates DEF RecordRules
<1>6. q = queue \/ \E p \in Refund, round \in 0 .. Rounds : q = Enqueue(p, round)
  BY <1>1, <1>3 DEF RecordRules
<1> QED
  BY <1>1, <1>2, <1>3, <1>4, <1>5, <1>6, EndingTyped

LEMMA ApplyTyped ==
    ASSUME TypeInv, NEW w \in Workers, Apply(w)
    PROVE  TypeInv'
<1> DEFINE r == job[w].c.r
<1>1. job[w] # NoJob /\ r \in Refund /\ job[w].c.round \in 0 .. Rounds
  BY DEF Apply, TypeInv, TypeOK, Job, Command
<1>2. UNCHANGED <<weather, amount, named, grant, withheld, faults, provider, outside, wire, sent>>
  BY ApplyCases DEF TypeInv
<1>3. PICK q : ApplyRules(w, r, q) /\ End(w, q)
  BY ApplyCases DEF TypeInv
<1>4. OtherTypes'
  BY <1>2, OthersKept DEF TypeInv
<1>5. RowTypes'
  <2>1. CASE Settle(status, attempt)
    BY <1>2, <2>1 DEF Settle, TypeInv, TypeOK, RowTypes
  <2>2. CASE UNCHANGED <<status, attempt, order>>
    BY <1>2, <2>2, RowsKeptTyped DEF TypeInv
  <2>3. ASSUME NEW s \in {"FAILED", "ESCALATED", "PROCESSED", "RECONCILING"},
               NEW target \in PaymentState, Rules(r, s, target)
        PROVE  RowTypes'
    <3>1. s \in RefundStatus
      BY <2>3, TargetsAreStates
    <3> QED
      BY <1>2, <2>3, <3>1, RulesTyped DEF TypeInv
  <2> QED
    BY <1>3, <2>1, <2>2, <2>3, TargetsAreStates DEF ApplyRules
<1>6. q = queue \/ \E p \in Refund, round \in 0 .. Rounds : q = Enqueue(p, round)
  <2>1. job[w].c.round < Rounds => job[w].c.round + 1 \in 0 .. Rounds
    BY <1>1, RefundsAssumption
  <2>2. q = queue \/ (job[w].c.round < Rounds /\ q = Enqueue(r, job[w].c.round + 1))
    BY <1>3 DEF ApplyRules
  <2> QED
    BY <1>1, <2>1, <2>2
<1> QED
  BY <1>1, <1>2, <1>3, <1>4, <1>5, <1>6, EndingTyped

LEMMA TakeExecuteTyped ==
    ASSUME SendInv, TypeInv, NEW w \in Workers, NEW c \in Command, TakeExecute(w, c)
    PROVE  TypeInv'
<1>0. /\ job[w] = NoJob /\ c.round = 0 /\ Free(c) /\ c.r \in Refund
      /\ UNCHANGED <<weather, faults, provider, outside, wire, sent>>
  BY DEF TakeExecute, Command, world
<1>1. queue[c] - 1 \in Nat /\ queue \in [Command -> Nat]
  <2>1. IsFiniteSet(Leased(c)) /\ queue[c] > Cardinality(Leased(c)) /\ queue[c] \in Nat
    BY <1>0 DEF Free, TypeInv, LeaseInv, TypeOK
  <2> HIDE DEF Leased
  <2>2. Cardinality(Leased(c)) \in Nat
    BY <2>1, FS_CardinalityType
  <2> QED
    BY <2>1, <2>2 DEF TypeInv, TypeOK
<1>2. CASE ConsumeGrant(w, c)
  <2>1. /\ UNCHANGED <<status, attempt, order, amount, named, withheld, queue>>
        /\ grant' = [grant EXCEPT ![c.r] = "CONSUMED"] /\ Start(w, c, "send")
    BY <1>2 DEF ConsumeGrant
  <2>2. RowTypes' /\ OtherTypes'
    BY <1>0, <2>1 DEF TypeInv, TypeOK, RowTypes, OtherTypes
  <2>3. TypeOK'
    BY <1>0, <2>1, <2>2, StartTyped, WorldKept, TypePartsAfter DEF TypeInv
  <2>4. LeaseInv'
    BY <1>0, <2>1, <2>3, LeaseTaken
  <2>5. JobsFit'
    <3> DEFINE x == [c |-> c, step |-> "send", got |-> "none", total |-> 0, held |-> TRUE]
    <3>1. \A v \in Workers : job'[v] = IF v = w THEN x ELSE job[v]
      BY <2>1, JobsMoveAlone DEF Start, TypeInv
    <3> QED
      BY <1>0, <3>1, JobsFitMove
  <2> QED
    BY <2>3, <2>4, <2>5 DEF TypeInv
<1>3. CASE RefuseGrant(w, c)
  <2>1. UNCHANGED <<status, attempt, order, amount, named, grant, withheld, job>>
        /\ queue' = [queue EXCEPT ![c] = @ - 1]
    BY <1>3 DEF RefuseGrant, rows
  <2>2. /\ queue' \in [Command -> Nat] /\ queue'[c] = queue[c] - 1
        /\ \A d \in Command : d # c => queue'[d] >= queue[d]
    BY <1>1, <2>1
  <2>3. WorkTypes' /\ JobsFit'
    BY <2>1, <2>2 DEF TypeInv, TypeOK, WorkTypes, JobsFit
  <2>4. TypeOK'
    BY <1>0, <2>1, <2>3, RowsKeptTyped, OthersKept, WorldKept, TypePartsAfter DEF TypeInv
  <2>5. LeaseInv'
    BY <1>0, <2>1, <2>2, <2>4, LeaseUnneeded
  <2> QED
    BY <2>3, <2>4, <2>5 DEF TypeInv
<1>4. CASE ResumeConsumed(w, c)
  <2> DEFINE q == IF status[c.r] \in {"PENDING", "UNKNOWN"} THEN Enqueue(c.r, 1) ELSE queue
  <2>1. UNCHANGED <<amount, named, grant, withheld, job>>
        /\ queue' = [q EXCEPT ![c] = @ - 1]
    BY <1>4 DEF ResumeConsumed
  <2>2. /\ q \in [Command -> Nat] /\ q[c] >= queue[c]
        /\ \A d \in Command : q[d] >= queue[d] /\ (d = c => q[d] = queue[d])
    <3>1. 1 \in 0 .. Rounds
      BY RefundsAssumption
    <3>2. /\ Enqueue(c.r, 1) \in [Command -> Nat]
          /\ \A d \in Command : Enqueue(c.r, 1)[d] >= queue[d]
          /\ Enqueue(c.r, 1)[c] = queue[c]
      <4>1. TypeOK /\ c.r \in Refund
        BY <1>0 DEF TypeInv
      <4>2. /\ Enqueue(c.r, 1) \in [Command -> Nat]
            /\ \A d \in Command : Enqueue(c.r, 1)[d] >= queue[d]
        BY <4>1, <3>1, EnqueueAdds
      <4>3. \A d \in Command : Enqueue(c.r, 1)[d] =
                IF d = About(c.r, 1) THEN queue[d] + 1 ELSE queue[d]
        BY <4>1, <3>1, EnqueueAdds
      <4>4. c # About(c.r, 1)
        BY <1>0, <4>1, <3>1, EnqueueAdds
      <4> QED
        BY <4>2, <4>3, <4>4
    <3>3. \A d \in Command : queue[d] >= queue[d] /\ queue[c] >= queue[c]
      BY <1>1
    <3>4. CASE q = queue
      BY <1>1, <3>3, <3>4
    <3>5. CASE q = Enqueue(c.r, 1)
      <4> HIDE DEF q
      <4> QED
        BY <3>2, <3>5
    <3> QED
      BY <3>4, <3>5
  <2> HIDE DEF q
  <2>3. /\ queue' \in [Command -> Nat] /\ queue'[c] = queue[c] - 1
        /\ \A d \in Command : d # c => queue'[d] >= queue[d]
    BY <1>1, <2>1, <2>2
  <2>4. WorkTypes' /\ JobsFit'
    BY <2>1, <2>3 DEF TypeInv, TypeOK, WorkTypes, JobsFit
  <2>5. RowTypes'
    <3>1. ResumeRules(c)
      BY <1>4, ResumeCases
    <3>2. "UNKNOWN" \in RefundStatus
      BY TargetsAreStates
    <3>3. "REFUND_UNKNOWN" \in PaymentState
      BY TargetsAreStates
    <3>4. CASE Rules(c.r, "UNKNOWN", "REFUND_UNKNOWN")
      BY <1>0, <3>2, <3>3, <3>4, RulesTyped DEF TypeInv
    <3>5. CASE UNCHANGED <<status, attempt, order>>
      BY <1>0, <3>5, RowsKeptTyped DEF TypeInv
    <3> QED
      BY <3>1, <3>4, <3>5 DEF ResumeRules
  <2>6. TypeOK'
    BY <1>0, <2>1, <2>4, <2>5, OthersKept, WorldKept, TypePartsAfter DEF TypeInv
  <2>7. LeaseInv'
    BY <1>0, <2>1, <2>3, <2>6, LeaseUnneeded
  <2> QED
    BY <2>4, <2>6, <2>7 DEF TypeInv
<1> QED
  BY <1>2, <1>3, <1>4 DEF TakeExecute

LEMMA TakeRoundTyped ==
    ASSUME SendInv, TypeInv, NEW w \in Workers, NEW c \in Command, TakeRound(w, c)
    PROVE  TypeInv'
<1>0. /\ job[w] = NoJob /\ c.round # 0 /\ Free(c)
      /\ UNCHANGED <<weather, faults, provider, outside, wire, sent>>
      /\ UNCHANGED <<status, attempt, order, amount, named, grant, withheld>>
  BY DEF TakeRound, rows, world
<1>1. RowTypes' /\ OtherTypes' /\ WorldTypes'
  BY <1>0, RowsKeptTyped, OthersKept, WorldKept DEF TypeInv
<1>2. ASSUME NEW step \in {"fetch", "look_up"}, Start(w, c, step), UNCHANGED queue
      PROVE  TypeInv'
  <2>1. TypeOK'
    BY <1>1, <1>2, StartTyped, TypePartsAfter DEF TypeInv
  <2>2. LeaseInv'
    BY <1>0, <1>2, <2>1, LeaseTaken
  <2>3. JobsFit'
    <3> DEFINE x == [c |-> c, step |-> step, got |-> "none", total |-> 0, held |-> TRUE]
    <3>1. \A v \in Workers : job'[v] = IF v = w THEN x ELSE job[v]
      BY <1>2, JobsMoveAlone DEF Start, TypeInv
    <3> QED
      BY <1>0, <3>1, JobsFitMove
  <2> QED
    BY <2>1, <2>2, <2>3 DEF TypeInv
<1>3. CASE queue' = [queue EXCEPT ![c] = @ - 1] /\ UNCHANGED job
  <2>1. queue[c] - 1 \in Nat /\ queue \in [Command -> Nat]
    <3>1. IsFiniteSet(Leased(c)) /\ queue[c] > Cardinality(Leased(c)) /\ queue[c] \in Nat
      BY <1>0 DEF Free, TypeInv, LeaseInv, TypeOK
    <3> HIDE DEF Leased
    <3>2. Cardinality(Leased(c)) \in Nat
      BY <3>1, FS_CardinalityType
    <3> QED
      BY <3>1, <3>2 DEF TypeInv, TypeOK
  <2>2. /\ queue' \in [Command -> Nat] /\ queue'[c] = queue[c] - 1
        /\ \A d \in Command : d # c => queue'[d] >= queue[d]
    BY <1>3, <2>1
  <2>3. WorkTypes' /\ JobsFit'
    BY <1>3, <2>2 DEF TypeInv, TypeOK, WorkTypes, JobsFit
  <2>4. TypeOK'
    BY <1>1, <2>3, TypePartsAfter
  <2>5. LeaseInv'
    BY <1>0, <1>3, <2>2, <2>4, LeaseUnneeded
  <2> QED
    BY <2>3, <2>4, <2>5 DEF TypeInv
<1> QED
  BY <1>2, <1>3 DEF TakeRound

(* A worker that goes on with the same command.                            *)
LEMMA CarryingTyped ==
    ASSUME SendInv, TypeInv, NEW w \in Workers, job[w] # NoJob,
           NEW step \in {"record", "apply"}, NEW got, NEW total \in Nat,
           \/ /\ step = "record" /\ job[w].c.round = 0
              /\ got \in {"unknown", "echo", "processed", "pending", "failed"}
           \/ /\ step = "apply" /\ job[w].c.round # 0
              /\ got \in {"total", "no_total", "processed", "pending", "unknown", "mismatch"},
           Carry(w, step, got, total), UNCHANGED queue, RowTypes', OtherTypes', WorldTypes'
    PROVE  TypeInv'
<1>0. got \in {"unknown", "echo", "processed", "pending", "failed", "mismatch", "total", "no_total"}
  OBVIOUS
<1>1. /\ WorkTypes' /\ \A v \in Workers : v # w => job'[v] = job[v]
      /\ job'[w] = [c |-> job[w].c, step |-> step, got |-> got,
                    total |-> total, held |-> job[w].held]
      /\ \A d \in Command : Leased(d)' \subseteq Leased(d)
  BY <1>0, CarryTyped
<1>2. TypeOK'
  BY <1>1, TypePartsAfter
<1>3. JobsFit'
  BY <1>1, JobsFitMove
<1>4. LeaseInv'
  <2>1. \A d \in Command : queue'[d] >= queue[d]
    BY DEF TypeInv, TypeOK
  <2> QED
    BY <1>1, <1>2, <2>1, LeasesShrink
<1> QED
  BY <1>2, <1>3, <1>4 DEF TypeInv

(* What a request that reaches the provider leaves there.                  *)
LEMMA LandsTyped ==
    ASSUME TypeOK, NEW r \in Refund, NEW s \in ProviderStatus, Lands(r, s)
    PROVE  provider' \in [Refund -> ProviderStatus]
BY DEF TypeOK, Lands

LEMMA SendTyped ==
    ASSUME SendInv, TypeInv, NEW w \in Workers, Send(w)
    PROVE  TypeInv'
<1> DEFINE r == job[w].c.r
<1>1. /\ job[w] # NoJob /\ job[w].step = "send" /\ sent' = [sent EXCEPT ![r] = @ + 1]
      /\ UNCHANGED <<weather, queue, faults, outside>>
      /\ UNCHANGED <<status, attempt, order, amount, named, grant, withheld>>
  BY DEF Send, rows
<1>2. r \in Refund /\ job[w].c.round = 0
  BY <1>1 DEF TypeInv, TypeOK, JobsFit, Job, Command
<1>3. RowTypes' /\ OtherTypes'
  BY <1>1, RowsKeptTyped, OthersKept DEF TypeInv
<1>4. sent' \in [Refund -> Nat]
  <2>1. sent \in [Refund -> Nat]
    BY DEF TypeInv, TypeOK
  <2> QED
    BY <1>1, <1>2, <2>1
<1>5. \E got \in {"unknown", "echo", "processed", "pending", "failed"} :
        /\ Carry(w, "record", got, 0)
        /\ provider' \in [Refund -> ProviderStatus] /\ wire' \subseteq Refund
  <2>1. wire \subseteq Refund /\ provider \in [Refund -> ProviderStatus]
    BY DEF TypeInv, TypeOK
  <2>2. ASSUME NEW s \in ProviderStatus, NEW got \in {Answered(s), "unknown", "echo"},
               Lands(r, s), Carry(w, "record", got, 0), UNCHANGED wire
        PROVE  \E g \in {"unknown", "echo", "processed", "pending", "failed"} :
                 /\ Carry(w, "record", g, 0)
                 /\ provider' \in [Refund -> ProviderStatus] /\ wire' \subseteq Refund
    <3>1. got \in {"unknown", "echo", "processed", "pending", "failed"}
      BY <2>2 DEF Answered, ProviderStatus
    <3>2. provider' \in [Refund -> ProviderStatus]
      BY <1>2, <2>2, LandsTyped DEF TypeInv
    <3> QED
      BY <2>1, <2>2, <3>1, <3>2
  <2>3. ASSUME wire' = wire \cup {r}, Carry(w, "record", "unknown", 0), UNCHANGED provider
        PROVE  \E g \in {"unknown", "echo", "processed", "pending", "failed"} :
                 /\ Carry(w, "record", g, 0)
                 /\ provider' \in [Refund -> ProviderStatus] /\ wire' \subseteq Refund
    BY <1>2, <2>1, <2>3
  <2> QED
    BY <2>2, <2>3 DEF Send
<1>6. PICK got \in {"unknown", "echo", "processed", "pending", "failed"} :
        /\ Carry(w, "record", got, 0)
        /\ provider' \in [Refund -> ProviderStatus] /\ wire' \subseteq Refund
  BY <1>5
<1>7. WorldTypes'
  BY <1>1, <1>4, <1>6 DEF TypeInv, TypeOK, WorldTypes
<1> QED
  BY <1>1, <1>2, <1>3, <1>6, <1>7, CarryingTyped

LEMMA FetchTyped ==
    ASSUME SendInv, TypeInv, NEW w \in Workers, Fetch(w)
    PROVE  TypeInv'
<1>1. /\ job[w] # NoJob /\ job[w].step \in {"fetch", "look_up"}
      /\ UNCHANGED <<weather, queue, faults, provider, outside, wire, sent>>
      /\ UNCHANGED <<status, attempt, order, amount, named, grant, withheld>>
  BY DEF Fetch, rows, world
<1>2. job[w].c.round # 0
  BY <1>1 DEF TypeInv, JobsFit
<1>3. \E got \in {"total", "no_total", "processed", "pending", "unknown", "mismatch"}, total \in Nat :
        Carry(w, "apply", got, total)
  BY LedgerIsNat DEF Fetch, TypeInv
<1>4. RowTypes' /\ OtherTypes' /\ WorldTypes'
  BY <1>1, RowsKeptTyped, OthersKept, WorldKept DEF TypeInv
<1> QED
  BY <1>1, <1>2, <1>3, <1>4, CarryingTyped

LEMMA CrashTyped ==
    ASSUME TypeInv, NEW w \in Workers, Crash(w)
    PROVE  TypeInv'
<1>1. /\ job[w] # NoJob /\ faults < MaxFaults /\ faults' = faults + 1
      /\ job' = [job EXCEPT ![w] = NoJob]
      /\ wire' \in {wire, wire \cup {job[w].c.r}}
      /\ UNCHANGED <<weather, queue, provider, outside, sent>>
      /\ UNCHANGED <<status, attempt, order, amount, named, grant, withheld>>
  BY DEF Crash, rows
<1>2. job[w].c.r \in Refund
  BY <1>1 DEF TypeInv, TypeOK, Job, Command
<1>3. RowTypes' /\ OtherTypes'
  BY <1>1, RowsKeptTyped, OthersKept DEF TypeInv
<1>4. WorkTypes' /\ WorldTypes'
  <2>1. faults' \in 0 .. MaxFaults
    BY <1>1, RefundsAssumption DEF TypeInv, TypeOK
  <2> QED
    BY <1>1, <1>2, <2>1 DEF TypeInv, TypeOK, WorkTypes, WorldTypes
<1>5. TypeOK'
  BY <1>3, <1>4, TypePartsAfter
<1>6. \A v \in Workers : job'[v] = IF v = w THEN NoJob ELSE job[v]
  BY <1>1, JobsMoveAlone DEF TypeInv
<1>7. LeaseInv'
  <2>1. \A d \in Command : Leased(d)' \subseteq Leased(d)
    BY <1>6 DEF Leased
  <2>2. \A d \in Command : queue'[d] >= queue[d]
    BY <1>1 DEF TypeInv, TypeOK
  <2> QED
    BY <1>5, <2>1, <2>2, LeasesShrink
<1>8. JobsFit'
  BY <1>6, JobsFitMove
<1> QED
  BY <1>5, <1>7, <1>8 DEF TypeInv

(* What a lost lease leaves a worker with.                                 *)
LEMMA LoseLeaseJob ==
    ASSUME SendInv, TypeInv, NEW w \in Workers, LoseLease(w)
    PROVE  \E x \in Job :
             /\ job' = [job EXCEPT ![w] = x]
             /\ x.c = job[w].c /\ x.step = job[w].step /\ x.got = job[w].got
             /\ x.total = job[w].total /\ x.held = FALSE
<1> DEFINE x == [c |-> job[w].c, step |-> job[w].step, got |-> job[w].got,
                 total |-> job[w].total, held |-> FALSE]
<1>1. job[w] # NoJob /\ job' = [job EXCEPT ![w].held = FALSE]
  BY DEF LoseLease
<1>2. x \in Job
  BY <1>1 DEF TypeInv, TypeOK, Job
<1>3. JobShape(job[w]) /\ job = [v \in Workers |-> job[v]]
  BY <1>1 DEF SendInv, Shaped
<1>4. \A b : [job EXCEPT ![w].held = b] =
        [v \in Workers |->
           IF v = w THEN [c |-> job[w].c, step |-> job[w].step, got |-> job[w].got,
                          total |-> job[w].total, held |-> b]
           ELSE job[v]]
  BY <1>3 DEF JobShape
<1>5. job' = [job EXCEPT ![w] = x]
  BY <1>1, <1>3, <1>4
<1> QED
  BY <1>2, <1>5

LEMMA LoseLeaseTyped ==
    ASSUME SendInv, TypeInv, NEW w \in Workers, LoseLease(w)
    PROVE  TypeInv'
<1>1. /\ job[w] # NoJob /\ faults < MaxFaults /\ faults' = faults + 1
      /\ UNCHANGED <<weather, queue, provider, outside, wire, sent>>
      /\ UNCHANGED <<status, attempt, order, amount, named, grant, withheld>>
  BY DEF LoseLease, rows, world
<1>2. PICK x \in Job :
        /\ job' = [job EXCEPT ![w] = x]
        /\ x.c = job[w].c /\ x.step = job[w].step /\ x.got = job[w].got
        /\ x.total = job[w].total /\ x.held = FALSE
  BY LoseLeaseJob
<1>3. RowTypes' /\ OtherTypes'
  BY <1>1, RowsKeptTyped, OthersKept DEF TypeInv
<1>4. WorkTypes' /\ WorldTypes'
  <2>1. faults' \in 0 .. MaxFaults
    BY <1>1, RefundsAssumption DEF TypeInv, TypeOK
  <2> QED
    BY <1>1, <1>2, <2>1 DEF TypeInv, TypeOK, WorkTypes, WorldTypes
<1>5. TypeOK'
  BY <1>3, <1>4, TypePartsAfter
<1>6. \A v \in Workers : job'[v] = IF v = w THEN x ELSE job[v]
  BY <1>2, JobsMoveAlone DEF TypeInv
<1>7. LeaseInv'
  <2>1. \A d \in Command : Leased(d)' \subseteq Leased(d)
    BY <1>2, <1>6 DEF Leased
  <2>2. \A d \in Command : queue'[d] >= queue[d]
    BY <1>1 DEF TypeInv, TypeOK
  <2> QED
    BY <1>5, <2>1, <2>2, LeasesShrink
<1>8. JobsFit'
  BY <1>1, <1>2, <1>6 DEF TypeInv, JobsFit
<1> QED
  BY <1>5, <1>7, <1>8 DEF TypeInv

LEMMA OutsideTyped ==
    ASSUME TypeInv, NEW a \in 1 .. Captured, RefundOutside(a)
    PROVE  TypeInv'
<1>1. /\ ProviderTotal + a <= Captured /\ outside' = outside + a
      /\ UNCHANGED <<weather, queue, job, faults, provider, wire, sent>>
      /\ UNCHANGED <<status, attempt, order, amount, named, grant, withheld>>
  BY DEF RefundOutside, rows
<1>2. outside' \in 0 .. Captured
  <2>1. ProviderTotal \in Nat /\ ProviderTotal >= outside /\ outside \in 0 .. Captured
    BY LedgerIsNat DEF TypeInv, TypeOK
  <2> QED
    BY <1>1, <2>1, RefundsAssumption
<1>3. TypeOK'
  BY <1>1, <1>2 DEF TypeInv, TypeOK
<1> QED
  BY <1>1, <1>3, WorkKept DEF TypeInv

LEMMA LandingTyped ==
    ASSUME TypeInv, NEW r \in Refund, ProviderSettles(r) \/ LateLand(r)
    PROVE  TypeInv'
<1>1. /\ UNCHANGED <<weather, queue, job, faults, outside, sent>>
      /\ UNCHANGED <<status, attempt, order, amount, named, grant, withheld>>
      /\ wire' \subseteq wire
      /\ \E s \in ProviderStatus : Lands(r, s)
  BY DEF ProviderSettles, LateLand, rows, ProviderStatus
<1>2. provider' \in [Refund -> ProviderStatus]
  BY <1>1, LandsTyped DEF TypeInv
<1>3. TypeOK'
  BY <1>1, <1>2 DEF TypeInv, TypeOK
<1> QED
  BY <1>1, <1>3, WorkKept DEF TypeInv

(* Where a report of the capture may carry an attempt.                     *)
LEMMA ReportJoins ==
    ASSUME NEW s, NEW t
    PROVE  MonotonicApply(s, t) \in {s, t, "RECONCILING"}
BY DEF MonotonicApply

LEMMA ReportTyped ==
    ASSUME TypeInv, CaptureReported \/ PaymentRound
    PROVE  TypeInv'
<1>1. /\ UNCHANGED <<weather, order, status, amount, named, grant, withheld>>
      /\ UNCHANGED <<queue, job, faults, provider, outside, wire, sent>>
  BY DEF CaptureReported, PaymentRound, world
<1>2. attempt' \in PaymentState
  <2>1. {"STALE_CAPTURE", "CAPTURED", "RECONCILING", "ESCALATED"} \subseteq PaymentState
    BY DEF PaymentState
  <2> QED
    BY <2>1, ReportJoins DEF CaptureReported, PaymentRound, TypeInv, TypeOK
<1>3. TypeOK'
  BY <1>1, <1>2 DEF TypeInv, TypeOK
<1> QED
  BY <1>1, <1>3, WorkKept DEF TypeInv

LEMMA QuietTyped ==
    ASSUME TypeInv, WithholdStaleRefund \/ UNCHANGED vars \/ \E r \in Refund : ExpireGrant(r)
    PROVE  TypeInv'
<1>1. UNCHANGED <<weather, attempt, order, status, amount, named, queue, job, faults>>
      /\ UNCHANGED <<provider, outside, wire, sent>>
  BY DEF WithholdStaleRefund, vars, ExpireGrant, rows, world
<1>2. withheld' \in BOOLEAN /\ grant' \in [Refund -> {"NONE", "ISSUED", "CONSUMED", "EXPIRED"}]
  BY DEF WithholdStaleRefund, vars, ExpireGrant, rows, TypeInv, TypeOK
<1>3. TypeOK'
  BY <1>1, <1>2 DEF TypeInv, TypeOK
<1> QED
  BY <1>1, <1>3, WorkKept DEF TypeInv

LEMMA TypeInit == Init => TypeInv
<1> SUFFICES ASSUME Init PROVE TypeInv
  OBVIOUS
<1>2. TypeOK
  <2>1. RowTypes
    BY DEF Init, RowTypes, PaymentState, RefundStatus
  <2>2. OtherTypes
    <3>1. 0 \in 0 .. Captured
      BY RefundsAssumption
    <3>2. named \in [Refund -> BOOLEAN]
      BY DEF Init
    <3> QED
      BY <3>1, <3>2 DEF Init, OtherTypes
  <2>3. WorkTypes
    BY DEF Init, WorkTypes
  <2>4. WorldTypes
    BY RefundsAssumption DEF Init, WorldTypes, ProviderStatus
  <2> QED
    BY <2>1, <2>2, <2>3, <2>4, TypeParts
<1>3. LeaseInv
  <2>1. \A c \in Command : Leased(c) = {}
    BY DEF Init, Leased
  <2>2. IsFiniteSet({}) /\ Cardinality({}) = 0
    BY FS_EmptySet
  <2>3. \A c \in Command : queue[c] = 0
    BY DEF Init
  <2> QED
    BY <2>1, <2>2, <2>3 DEF LeaseInv
<1>4. JobsFit
  BY DEF Init, JobsFit
<1> QED
  BY <1>2, <1>3, <1>4 DEF TypeInv

(* What may happen in a step, as one list.                                 *)
LEMMA StepCases ==
    ASSUME [Next]_vars
    PROVE  \/ \E r \in Refund : AdmitStaleRefund(r) \/ \E a \in 1 .. Captured : RequestRefund(r, a)
           \/ \E w \in Workers, c \in Command : TakeExecute(w, c) \/ TakeRound(w, c)
           \/ \E w \in Workers : Send(w) \/ Record(w) \/ Fetch(w) \/ Apply(w)
           \/ \E w \in Workers : Crash(w) \/ LoseLease(w)
           \/ \E r \in Refund : ProviderSettles(r) \/ LateLand(r)
           \/ \E a \in 1 .. Captured : RefundOutside(a)
           \/ CaptureReported \/ PaymentRound
           \/ WithholdStaleRefund \/ UNCHANGED vars \/ \E r \in Refund : ExpireGrant(r)
BY DEF Next, Admission, Work, Environment

LEMMA TypeStep == SendInv /\ TypeInv /\ [Next]_vars => TypeInv'
<1> SUFFICES ASSUME SendInv, TypeInv, [Next]_vars PROVE TypeInv'
  OBVIOUS
<1>1. ASSUME NEW r \in Refund, NEW a, RequestRefund(r, a) \/ (AdmitStaleRefund(r) /\ a = Remaining)
      PROVE  TypeInv'
  BY <1>1, AdmitTyped DEF RequestRefund, AdmitStaleRefund
<1>2. ASSUME NEW w \in Workers, NEW c \in Command, TakeExecute(w, c) \/ TakeRound(w, c)
      PROVE  TypeInv'
  BY <1>2, TakeExecuteTyped, TakeRoundTyped
<1>3. ASSUME NEW w \in Workers, Send(w) \/ Record(w) \/ Fetch(w) \/ Apply(w)
      PROVE  TypeInv'
  BY <1>3, SendTyped, RecordTyped, FetchTyped, ApplyTyped
<1>4. ASSUME NEW w \in Workers, Crash(w) \/ LoseLease(w) PROVE TypeInv'
  BY <1>4, CrashTyped, LoseLeaseTyped
<1>5. CASE \/ \E r \in Refund : ProviderSettles(r) \/ LateLand(r)
           \/ \E a \in 1 .. Captured : RefundOutside(a)
           \/ CaptureReported \/ PaymentRound
           \/ WithholdStaleRefund \/ UNCHANGED vars \/ \E r \in Refund : ExpireGrant(r)
  BY <1>5, LandingTyped, OutsideTyped, ReportTyped, QuietTyped
<1> QED
  BY <1>1, <1>2, <1>3, <1>4, <1>5, StepCases

(* The variables keep their types; in particular no command is taken from  *)
(* the queue that is not in it, and no refund is admitted above the capture*)
(* (_admit, the fenced complete and fail of the outbox).                   *)
THEOREM Typed == Spec => []TypeOK
<1>1. SendInv /\ TypeInv /\ [Next]_vars => (SendInv /\ TypeInv)'
  BY SendStep, TypeStep
<1>2. Spec => [](SendInv /\ TypeInv)
  BY <1>1, SendInit, TypeInit, PTL DEF Spec
<1>3. TypeInv => TypeOK
  BY DEF TypeInv
<1> QED
  BY <1>2, <1>3, PTL

-----------------------------------------------------------------------------
(* The order follows the settled refunds.                                  *)

AdmittedForMoney == \A r \in Refund : status[r] # "NONE" => amount[r] >= 1

(* An attempt that reads refunded has told its order.                      *)
OrderFollowsAttempt ==
    order # "NONE" /\ attempt \in {"PARTIALLY_REFUNDED", "REFUNDED"} => order = attempt

BooksInv == AdmittedForMoney /\ OrderTellsSettlement /\ OrderFollowsAttempt

LEMMA SettledKept ==
    ASSUME TypeOK, Settled' = Settled, \A r \in Settled : amount'[r] = amount[r]
    PROVE  SettledIn(status)' = SettledIn(status)
<1>1. Settled \in SUBSET Refund /\ \A r \in Settled : amount[r] \in Int
  BY RefundsAssumption DEF Settled, TypeOK
<1>2. Sum(amount, Settled) = Sum(amount', Settled)
  BY <1>1, RefundsFinite, SumSame
<1>3. Sum(amount', Settled) = Sum(amount', Settled')
  <2> HIDE DEF Settled
  <2> QED
    BY Zenon
<1> QED
  BY <1>2, <1>3, Ledger, LedgerAfter

LEMMA SettledGrows ==
    ASSUME TypeOK, NEW r \in Refund, status[r] # "PROCESSED",
           status' = [status EXCEPT ![r] = "PROCESSED"], UNCHANGED amount
    PROVE  SettledIn(status)' = SettledIn(status) + amount[r]
<1>1. /\ Settled \in SUBSET Refund /\ r \notin Settled /\ Settled' = Settled \cup {r}
      /\ \A q \in Refund : amount[q] \in Int
  BY RefundsAssumption DEF Settled, TypeOK
<1>2. IsFiniteSet(Settled)
  BY <1>1, RefundsFinite
<1> HIDE DEF Settled
<1>3. Sum(amount, Settled \cup {r}) = amount[r] + Sum(amount, Settled)
  BY <1>1, <1>2, SumAdd
<1>4. SettledIn(status)' = Sum(amount, Settled \cup {r})
  BY <1>1, LedgerAfter
<1>5. Sum(amount, Settled) \in Int /\ amount[r] \in Int
  BY <1>1, <1>2, SumInt
<1> QED
  BY <1>3, <1>4, <1>5, Ledger

(* _settled_target reads the rows the transaction has written.             *)
LEMMA TargetReadsRows ==
    ASSUME NEW st, status' = st, UNCHANGED amount
    PROVE  SettledTarget(st) =
             IF SettledIn(status)' = Captured THEN "REFUNDED" ELSE "PARTIALLY_REFUNDED"
BY DEF SettledTarget, SettledIn, Total, MapThenSumSet, MapThenFoldSet

LEMMA BooksQuiet ==
    ASSUME TypeInv, BooksInv, UNCHANGED <<status, amount, order>>,
           attempt' = attempt \/ attempt' \notin {"PARTIALLY_REFUNDED", "REFUNDED"}
    PROVE  BooksInv'
<1>1. SettledIn(status)' = SettledIn(status)
  BY SettledKept DEF TypeInv, Settled
<1> QED
  BY <1>1 DEF BooksInv, AdmittedForMoney, OrderTellsSettlement, OrderFollowsAttempt

(* Another round, or a refusal.                                            *)
LEMMA BooksAgain ==
    ASSUME TypeInv, BooksInv, UNCHANGED amount, Settle(status, attempt)
    PROVE  BooksInv'
<1>1. UNCHANGED <<status, attempt, order>>
  BY DEF Settle, BooksInv, OrderFollowsAttempt
<1> QED
  BY <1>1, BooksQuiet

(* A refund that does not end processed.                                   *)
LEMMA BooksUnsettled ==
    ASSUME TypeInv, BooksInv, UNCHANGED amount, NEW r \in Refund, NEW s, NEW target,
           status[r] \notin {"NONE", "PROCESSED"}, s # "PROCESSED",
           target \notin {"PARTIALLY_REFUNDED", "REFUNDED"}, Rules(r, s, target)
    PROVE  BooksInv'
<1>1. /\ \A q \in Refund : status'[q] = IF q = r THEN s ELSE status[q]
      /\ attempt' = target /\ UNCHANGED order
  BY DEF Rules, Settle, TypeInv, TypeOK
<1>2. Settled' = Settled
  BY <1>1 DEF Settled
<1>3. SettledIn(status)' = SettledIn(status)
  BY <1>2, SettledKept DEF TypeInv
<1>4. AdmittedForMoney'
  BY <1>1 DEF BooksInv, AdmittedForMoney
<1> QED
  BY <1>1, <1>3, <1>4 DEF BooksInv, OrderTellsSettlement, OrderFollowsAttempt

(* A refund that is processed.                                             *)
LEMMA BooksSettled ==
    ASSUME TypeInv, BooksInv, UNCHANGED amount, NEW r \in Refund,
           status[r] \notin {"NONE", "PROCESSED"},
           Rules(r, "PROCESSED", SettledTarget([status EXCEPT ![r] = "PROCESSED"]))
    PROVE  BooksInv'
<1> DEFINE target == SettledTarget([status EXCEPT ![r] = "PROCESSED"])
<1>1. /\ status' = [status EXCEPT ![r] = "PROCESSED"] /\ attempt' = target
      /\ order' = IF order # "NONE" /\ target \in {"REFUNDED", "PARTIALLY_REFUNDED"}
                  THEN target ELSE order
  BY DEF Rules, Settle
<1>2. target = IF SettledIn(status)' = Captured THEN "REFUNDED" ELSE "PARTIALLY_REFUNDED"
  BY <1>1, TargetReadsRows
<1>3. SettledIn(status)' = SettledIn(status) + amount[r]
  BY <1>1, SettledGrows DEF TypeInv
<1>4. SettledIn(status) \in Nat /\ amount[r] \in Nat /\ amount[r] >= 1
  BY LedgerIsNat, RefundsAssumption DEF TypeInv, TypeOK, BooksInv, AdmittedForMoney
<1>5. SettledIn(status)' # 0
  BY <1>3, <1>4
<1>6. AdmittedForMoney'
  BY <1>1 DEF BooksInv, AdmittedForMoney, TypeInv, TypeOK
<1> HIDE DEF target
<1>7. OrderTellsSettlement' /\ OrderFollowsAttempt'
  BY <1>1, <1>2, <1>5 DEF OrderTellsSettlement, OrderFollowsAttempt
<1> QED
  BY <1>6, <1>7 DEF BooksInv

LEMMA BooksAdmit ==
    ASSUME TypeInv, BooksInv, NEW r \in Refund, NEW a, Admit(r, a)
    PROVE  BooksInv'
<1>1. /\ a \in 1 .. Remaining /\ UNCHANGED order /\ status[r] = "NONE"
      /\ status' = [status EXCEPT ![r] = "PENDING"] /\ attempt' = "REFUND_PENDING"
      /\ amount' = [amount EXCEPT ![r] = a]
  BY DEF Admit, Admissible, Mark, NextRefund
<1>2. Settled' = Settled /\ \A q \in Settled : amount'[q] = amount[q]
  BY <1>1 DEF Settled, TypeInv, TypeOK
<1>3. SettledIn(status)' = SettledIn(status)
  BY <1>2, SettledKept DEF TypeInv
<1>4. a >= 1
  BY <1>1, LedgerIsNat DEF TypeInv
<1>5. AdmittedForMoney'
  BY <1>1, <1>4 DEF BooksInv, AdmittedForMoney, TypeInv, TypeOK
<1> QED
  BY <1>1, <1>3, <1>5 DEF BooksInv, OrderTellsSettlement, OrderFollowsAttempt

LEMMA BooksRecord ==
    ASSUME TypeInv, BooksInv, NEW w \in Workers, Record(w)
    PROVE  BooksInv'
<1> DEFINE r == job[w].c.r
<1>1. r \in Refund
  BY DEF Record, TypeInv, TypeOK, Job, Command
<1>2. UNCHANGED amount /\ \E q : RecordRules(w, r, q)
  BY RecordCases
<1>3. CASE status[r] = "PENDING" /\
           (Rules(r, "FAILED", "REFUND_FAILED") \/ Rules(r, "UNKNOWN", "REFUND_UNKNOWN"))
  BY <1>1, <1>2, <1>3, BooksUnsettled
<1>4. CASE status[r] = "PENDING" /\
           Rules(r, "PROCESSED", SettledTarget([status EXCEPT ![r] = "PROCESSED"]))
  BY <1>1, <1>2, <1>4, BooksSettled
<1>5. CASE UNCHANGED <<status, attempt, order>>
  BY <1>2, <1>5, BooksQuiet
<1> QED
  BY <1>2, <1>3, <1>4, <1>5 DEF RecordRules

LEMMA BooksApply ==
    ASSUME TypeInv, BooksInv, NEW w \in Workers, Apply(w)
    PROVE  BooksInv'
<1> DEFINE r == job[w].c.r
<1>1. r \in Refund
  BY DEF Apply, TypeInv, TypeOK, Job, Command
<1>2. UNCHANGED amount /\ \E q : ApplyRules(w, r, q)
  BY ApplyCases DEF TypeInv
<1>3. CASE \E s \in {"FAILED", "ESCALATED", "RECONCILING"},
              target \in {"REFUND_FAILED", "ESCALATED", "RECONCILING"} :
             status[r] \notin {"NONE", "PROCESSED"} /\ Rules(r, s, target)
  BY <1>1, <1>2, <1>3, BooksUnsettled
<1>4. CASE Reconcilable(r) /\
           Rules(r, "PROCESSED", SettledTarget([status EXCEPT ![r] = "PROCESSED"]))
  BY <1>1, <1>2, <1>4, BooksSettled DEF Reconcilable
<1>5. CASE UNCHANGED <<status, attempt, order>>
  BY <1>2, <1>5, BooksQuiet
<1>6. CASE Settle(status, attempt)
  BY <1>2, <1>6, BooksAgain
<1> QED
  BY <1>2, <1>3, <1>4, <1>5, <1>6 DEF ApplyRules, Reconcilable, Escalatable

LEMMA BooksTake ==
    ASSUME TypeInv, BooksInv, NEW w \in Workers, NEW c \in Command,
           TakeExecute(w, c) \/ TakeRound(w, c)
    PROVE  BooksInv'
<1>1. c.r \in Refund
  BY DEF Command
<1>2. CASE UNCHANGED <<status, attempt, order, amount>>
  BY <1>2, BooksQuiet
<1>3. CASE ResumeConsumed(w, c)
  <2>1. ResumeRules(c) /\ UNCHANGED amount
    BY <1>3, ResumeCases DEF ResumeConsumed
  <2> QED
    BY <1>1, <2>1, BooksUnsettled, BooksQuiet DEF ResumeRules
<1> QED
  BY <1>2, <1>3 DEF TakeExecute, TakeRound, ConsumeGrant, RefuseGrant, rows

LEMMA BooksInit == Init => BooksInv
<1> SUFFICES ASSUME Init PROVE BooksInv
  OBVIOUS
<1>1. Settled = {}
  BY DEF Init, Settled
<1>2. SettledIn(status) = 0
  BY <1>1, Ledger, SumEmpty
<1>3. weather.stale \in BOOLEAN
  BY WeathersAssumption DEF Init, Weather
<1> QED
  BY <1>2, <1>3 DEF Init, BooksInv, AdmittedForMoney, OrderTellsSettlement, OrderFollowsAttempt

LEMMA BooksStep == TypeInv /\ BooksInv /\ [Next]_vars => BooksInv'
<1> SUFFICES ASSUME TypeInv, BooksInv, [Next]_vars PROVE BooksInv'
  OBVIOUS
<1>1. ASSUME NEW r \in Refund, NEW a, RequestRefund(r, a) \/ (AdmitStaleRefund(r) /\ a = Remaining)
      PROVE  BooksInv'
  BY <1>1, BooksAdmit DEF RequestRefund, AdmitStaleRefund
<1>2. ASSUME NEW w \in Workers, NEW c \in Command, TakeExecute(w, c) \/ TakeRound(w, c)
      PROVE  BooksInv'
  BY <1>2, BooksTake
<1>3. ASSUME NEW w \in Workers, Record(w) \/ Apply(w)
      PROVE  BooksInv'
  BY <1>3, BooksRecord, BooksApply
<1>4. CASE UNCHANGED <<status, attempt, order, amount>>
  BY <1>4, BooksQuiet
<1>5. ASSUME NEW w \in Workers, Send(w) \/ Fetch(w) \/ Crash(w) \/ LoseLease(w)
      PROVE  BooksInv'
  BY <1>4, <1>5 DEF Send, Fetch, Crash, LoseLease, rows
<1>6. CASE \/ \E r \in Refund : ProviderSettles(r) \/ LateLand(r)
           \/ \E a \in 1 .. Captured : RefundOutside(a)
  BY <1>4, <1>6 DEF ProviderSettles, LateLand, RefundOutside, rows
<1>7. CASE WithholdStaleRefund \/ UNCHANGED vars \/ \E r \in Refund : ExpireGrant(r)
  BY <1>4, <1>7 DEF WithholdStaleRefund, vars, ExpireGrant, rows
<1>8. CASE CaptureReported \/ PaymentRound
  <2>1. UNCHANGED <<status, amount, order>>
    BY <1>8 DEF CaptureReported, PaymentRound
  <2>2. attempt' = attempt \/ attempt' \notin {"PARTIALLY_REFUNDED", "REFUNDED"}
    BY <1>8, ReportJoins DEF CaptureReported, PaymentRound
  <2> QED
    BY <2>1, <2>2, BooksQuiet
<1> QED
  BY <1>1, <1>2, <1>3, <1>5, <1>6, <1>7, <1>8, StepCases

(* The order a merchant reads and the settled rows of the ledger never     *)
(* disagree, whatever is lost or raced: _settled_target is computed in the *)
(* transaction that settles the row, and a settled row never moves again.  *)
THEOREM OrderTells == Spec => []OrderTellsSettlement
<1>1. SendInv /\ TypeInv /\ BooksInv /\ [Next]_vars => (SendInv /\ TypeInv /\ BooksInv)'
  BY SendStep, TypeStep, BooksStep
<1>2. Spec => [](SendInv /\ TypeInv /\ BooksInv)
  BY <1>1, SendInit, TypeInit, BooksInit, PTL DEF Spec
<1>3. BooksInv => OrderTellsSettlement
  BY DEF BooksInv
<1> QED
  BY <1>2, <1>3, PTL

-----------------------------------------------------------------------------
(* While no lease is lost, a refund has one command and its row tells which.*)

Expected(c) == IF c.round = 0 THEN {"PENDING"} ELSE {"UNKNOWN", "RECONCILING"}
CommandInv ==
    ~weather.overlap =>
        /\ \A w \in Workers : job[w] # NoJob => job[w].held
        /\ \A c \in Command : queue[c] <= 1
        /\ \A c, d \in Command : c.r = d.r /\ queue[c] > 0 /\ queue[d] > 0 => c = d
        /\ \A c \in Command : queue[c] > 0 => status[c.r] \in Expected(c)

(* The row a worker is at is the one its command expects,                  *)
LEMMA JobExpected ==
    ASSUME TypeInv, CommandInv, ~weather.overlap, NEW w \in Workers, job[w] # NoJob
    PROVE  /\ job[w].c \in Command /\ queue[job[w].c] = 1 /\ job[w].held
           /\ status[job[w].c.r] \in Expected(job[w].c)
<1>1. job[w].held
  BY DEF CommandInv
<1>2. job[w].c \in Command /\ queue[job[w].c] >= 1
  BY <1>1, HeldIsQueued
<1>3. queue[job[w].c] \in Nat
  BY <1>2 DEF TypeInv, TypeOK
<1> QED
  BY <1>1, <1>2, <1>3 DEF CommandInv

(* and it is there alone.                                                  *)
LEMMA OneWorker ==
    ASSUME TypeInv, CommandInv, ~weather.overlap, NEW w \in Workers, NEW v \in Workers,
           job[w] # NoJob, job[v] # NoJob, job[w].c.r = job[v].c.r
    PROVE  w = v
<1> DEFINE c == job[w].c
<1>1. c \in Command /\ queue[c] = 1 /\ job[v].c \in Command /\ queue[job[v].c] = 1
  BY JobExpected
<1>2. job[v].c = c
  BY <1>1 DEF CommandInv
<1>3. job[w].held /\ job[v].held
  BY JobExpected
<1>4. {w, v} \subseteq Leased(c)
  BY <1>2, <1>3 DEF Leased
<1>5. IsFiniteSet(Leased(c)) /\ Cardinality(Leased(c)) <= 1
  BY <1>1 DEF TypeInv, LeaseInv
<1> HIDE DEF Leased, c
<1>6. IsFiniteSet({w, v}) /\ Cardinality({w, v}) <= 1
  <2>1. /\ IsFiniteSet({w, v}) /\ Cardinality({w, v}) <= Cardinality(Leased(c))
        /\ Cardinality({w, v}) \in Nat /\ Cardinality(Leased(c)) \in Nat
    BY <1>4, <1>5, FS_Subset, FS_CardinalityType
  <2> QED
    BY <1>5, <2>1
<1> SUFFICES ASSUME w # v PROVE FALSE
  OBVIOUS
<1>7. IsFiniteSet({w}) /\ Cardinality({w}) = 1
  BY FS_Singleton, Zenon
<1>8. v \notin {w} /\ {w} \cup {v} = {w, v}
  OBVIOUS
<1>9. Cardinality({w} \cup {v}) = Cardinality({w}) + 1
  BY <1>7, <1>8, FS_AddElement
<1>10. Cardinality({w, v}) = Cardinality({w} \cup {v})
  BY <1>8
<1> QED
  BY <1>6, <1>7, <1>9, <1>10

(* A command leaves the queue, perhaps for the next round of its refund.   *)
LEMMA CommandFollowed ==
    ASSUME TypeInv, CommandInv, UNCHANGED weather, NEW c \in Command,
           ~weather.overlap => queue[c] > 0,
           ~weather.overlap => \A w \in Workers : job'[w] # NoJob => job'[w].held,
           NEW next \in Command \cup {c},
           next # c => next.r = c.r /\ next.round # 0 /\
                       (~weather.overlap => status'[c.r] \in {"UNKNOWN", "RECONCILING"}),
           ~weather.overlap =>
              \A d \in Command : queue'[d] =
                IF d = c THEN queue[d] - 1
                ELSE IF d = next THEN queue[d] + 1 ELSE queue[d],
           \A r \in Refund : r # c.r => status'[r] = status[r]
    PROVE  CommandInv'
<1> SUFFICES ASSUME ~weather.overlap
             PROVE  /\ \A d \in Command : queue'[d] <= 1
                    /\ \A d, e \in Command : d.r = e.r /\ queue'[d] > 0 /\ queue'[e] > 0 => d = e
                    /\ \A d \in Command : queue'[d] > 0 => status'[d.r] \in Expected(d)
  BY DEF CommandInv
<1>1. \A d \in Command : queue[d] \in Nat /\ queue[d] <= 1 /\ d.r \in Refund
  BY DEF CommandInv, TypeInv, TypeOK, Command
<1>2. \A d, e \in Command : d.r = e.r /\ queue[d] > 0 /\ queue[e] > 0 => d = e
  BY DEF CommandInv
<1>3. \A d \in Command : queue[d] > 0 => status[d.r] \in Expected(d)
  BY DEF CommandInv
<1>4. \A d \in Command : d.r = c.r /\ d # c => queue[d] = 0
  BY <1>1, <1>2
<1>5. queue[c] = 1
  BY <1>1
<1>6. \A d \in Command :
        queue'[d] = IF d.r = c.r THEN (IF d = next /\ d # c THEN 1 ELSE 0) ELSE queue[d]
  BY <1>1, <1>4, <1>5
<1>7. \A d \in Command : queue'[d] > 0 => d.r # c.r \/ (d = next /\ d # c)
  BY <1>6
<1>8. \A d \in Command : queue'[d] > 0 => status'[d.r] \in Expected(d)
  <2> SUFFICES ASSUME NEW d \in Command, queue'[d] > 0
               PROVE  status'[d.r] \in Expected(d)
    OBVIOUS
  <2>1. CASE d.r # c.r
    BY <2>1, <1>1, <1>3, <1>6
  <2>2. CASE d = next /\ d # c
    BY <2>2 DEF Expected
  <2> QED
    BY <1>7, <2>1, <2>2
<1>9. \A d, e \in Command : d.r = e.r /\ queue'[d] > 0 /\ queue'[e] > 0 => d = e
  BY <1>1, <1>2, <1>6, <1>7
<1> QED
  BY <1>1, <1>6, <1>8, <1>9

LEMMA CommandEnds ==
    ASSUME TypeInv, CommandInv, UNCHANGED weather, NEW w \in Workers, job[w] # NoJob,
           NEW q, End(w, q),
           \/ q = queue
           \/ \E n \in 1 .. Rounds :
                /\ n # job[w].c.round /\ q = Enqueue(job[w].c.r, n)
                /\ ~weather.overlap => status'[job[w].c.r] \in {"UNKNOWN", "RECONCILING"},
           \A r \in Refund : r # job[w].c.r => status'[r] = status[r]
    PROVE  CommandInv'
<1> DEFINE c == job[w].c
<1>1. c \in Command /\ c.r \in Refund
  BY DEF TypeInv, TypeOK, Job, Command
<1>2. ~weather.overlap => queue[c] > 0 /\ job[w].held
  BY JobExpected
<1>3. ~weather.overlap => \A v \in Workers : job'[v] # NoJob => job'[v].held
  <2>1. job' = [job EXCEPT ![w] = NoJob]
    BY DEF End
  <2>2. \A v \in Workers : job'[v] = IF v = w THEN NoJob ELSE job[v]
    BY <2>1 DEF TypeInv, TypeOK
  <2> QED
    BY <2>2 DEF CommandInv
<1>4. CASE q = queue
  <2>1. ~weather.overlap =>
          \A d \in Command : queue'[d] = IF d = c THEN queue[d] - 1 ELSE queue[d]
    BY <1>1, <1>2, <1>4 DEF End, Removed, TypeInv, TypeOK
  <2> HIDE DEF c
  <2>2. ~weather.overlap =>
          \A d \in Command : queue'[d] = IF d = c THEN queue[d] - 1
                                         ELSE IF d = c THEN queue[d] + 1 ELSE queue[d]
    BY <2>1
  <2>3. \A r \in Refund : r # c.r => status'[r] = status[r]
    BY DEF c
  <2> QED
    BY <1>1, <1>2, <1>3, <2>2, <2>3, CommandFollowed
<1>5. ASSUME NEW n \in 1 .. Rounds, n # c.round, q = Enqueue(c.r, n),
             ~weather.overlap => status'[c.r] \in {"UNKNOWN", "RECONCILING"}
      PROVE  CommandInv'
  <2> DEFINE next == About(c.r, n)
  <2>1. n \in 0 .. Rounds /\ n # 0
    BY RefundsAssumption
  <2>2. /\ next \in Command /\ next.r = c.r /\ next.round = n
        /\ q \in [Command -> Nat]
        /\ \A d \in Command : q[d] = IF d = next THEN queue[d] + 1 ELSE queue[d]
    BY <1>1, <1>5, <2>1, EnqueueAdds DEF TypeInv
  <2>3. next # c
    BY <1>5, <2>2
  <2>4. ~weather.overlap => queue' = [q EXCEPT ![c] = @ - 1]
    BY <1>2 DEF End, Removed
  <2> HIDE DEF next, c
  <2>5. ~weather.overlap =>
          \A d \in Command : queue'[d] = IF d = c THEN queue[d] - 1
                                         ELSE IF d = next THEN queue[d] + 1 ELSE queue[d]
    BY <1>1, <2>2, <2>3, <2>4
  <2>6. \A r \in Refund : r # c.r => status'[r] = status[r]
    BY DEF c
  <2> QED
    BY <1>1, <1>2, <1>3, <1>5, <2>1, <2>2, <2>5, <2>6, CommandFollowed
<1> QED
  BY <1>4, <1>5

LEMMA CommandRecord ==
    ASSUME TypeInv, CommandInv, NEW w \in Workers, Record(w)
    PROVE  CommandInv'
<1> DEFINE r == job[w].c.r
<1>1. /\ job[w] # NoJob /\ r \in Refund /\ job[w].c.round = 0 /\ job[w].c \in Command
      /\ 1 \in 1 .. Rounds
  BY RefundsAssumption DEF Record, TypeInv, TypeOK, JobsFit, Job, Command
<1>2. UNCHANGED weather
  BY RecordCases
<1>3. PICK q : RecordRules(w, r, q) /\ End(w, q)
  BY RecordCases
<1>4. \A p \in Refund : p # r => status'[p] = status[p]
  BY <1>3 DEF RecordRules, Rules, Settle, TypeInv, TypeOK
<1>5. CASE q = queue
  BY <1>1, <1>2, <1>3, <1>4, <1>5, CommandEnds
<1>6. CASE q = Enqueue(r, 1) /\ (status[r] = "PENDING" => status'[r] = "UNKNOWN")
  <2>1. ~weather.overlap => status[r] = "PENDING"
    BY <1>1, JobExpected DEF Expected
  <2> QED
    BY <1>1, <1>2, <1>3, <1>4, <1>6, <2>1, CommandEnds
<1>7. q = queue \/ (q = Enqueue(r, 1) /\ (status[r] = "PENDING" => status'[r] = "UNKNOWN"))
  BY <1>1, <1>3 DEF RecordRules, Rules, Settle, TypeInv, TypeOK
<1> QED
  BY <1>5, <1>6, <1>7

LEMMA CommandApply ==
    ASSUME TypeInv, CommandInv, NEW w \in Workers, Apply(w)
    PROVE  CommandInv'
<1> DEFINE r == job[w].c.r
           n == job[w].c.round
<1>1. /\ job[w] # NoJob /\ r \in Refund /\ n # 0 /\ n \in 0 .. Rounds
      /\ job[w].c \in Command
  BY DEF Apply, TypeInv, TypeOK, JobsFit, Job, Command
<1>2. UNCHANGED weather
  BY ApplyCases DEF TypeInv
<1>3. PICK q : ApplyRules(w, r, q) /\ End(w, q)
  BY ApplyCases DEF TypeInv
<1>4. \A p \in Refund : p # r => status'[p] = status[p]
  BY <1>3 DEF ApplyRules, Rules, Settle, TypeInv, TypeOK
<1>5. CASE q = queue
  BY <1>1, <1>2, <1>3, <1>4, <1>5, CommandEnds
<1>6. CASE /\ n < Rounds /\ q = Enqueue(r, n + 1)
           /\ status'[r] \in {status[r], "RECONCILING"}
  <2>1. n + 1 \in 1 .. Rounds /\ n + 1 # n
    BY <1>1, <1>6, RefundsAssumption
  <2>2. ~weather.overlap => status[r] \in {"UNKNOWN", "RECONCILING"}
    BY <1>1, JobExpected DEF Expected
  <2> QED
    BY <1>1, <1>2, <1>3, <1>4, <1>6, <2>1, <2>2, CommandEnds
<1>7. \/ q = queue
      \/ /\ n < Rounds /\ q = Enqueue(r, n + 1)
         /\ status'[r] \in {status[r], "RECONCILING"}
  BY <1>1, <1>3 DEF ApplyRules, Rules, Settle, TypeInv, TypeOK
<1> QED
  BY <1>5, <1>6, <1>7

LEMMA CommandsKept ==
    ASSUME TypeInv, CommandInv, UNCHANGED <<weather, queue, status>>,
           ~weather.overlap => \A v \in Workers : job'[v] # NoJob => job'[v].held
    PROVE  CommandInv'
BY DEF CommandInv

LEMMA CommandAdmit ==
    ASSUME TypeInv, CommandInv, NEW r \in Refund, NEW a, Admit(r, a)
    PROVE  CommandInv'
<1>1. /\ status[r] = "NONE" /\ status' = [status EXCEPT ![r] = "PENDING"]
      /\ queue' = Enqueue(r, 0) /\ UNCHANGED <<weather, job>>
  BY DEF Admit, Mark, NextRefund
<1> DEFINE new == About(r, 0)
<1>2. /\ new \in Command /\ new.r = r /\ new.round = 0
      /\ \A d \in Command : queue'[d] = IF d = new THEN queue[d] + 1 ELSE queue[d]
  <2>1. 0 \in 0 .. Rounds
    BY RefundsAssumption
  <2> QED
    BY <1>1, <2>1, EnqueueAdds DEF TypeInv
<1> HIDE DEF new
<1> SUFFICES ASSUME ~weather.overlap
             PROVE  /\ \A d \in Command : queue'[d] <= 1
                    /\ \A d, e \in Command : d.r = e.r /\ queue'[d] > 0 /\ queue'[e] > 0 => d = e
                    /\ \A d \in Command : queue'[d] > 0 => status'[d.r] \in Expected(d)
  BY <1>1 DEF CommandInv
<1>3. \A d \in Command : queue[d] \in Nat /\ queue[d] <= 1 /\ d.r \in Refund
  BY DEF CommandInv, TypeInv, TypeOK, Command
<1>4. \A d \in Command : d.r = r => queue[d] = 0
  BY <1>1, <1>3 DEF CommandInv, Expected
<1>5. \A d \in Command : queue'[d] > 0 => d = new \/ (d.r # r /\ queue[d] > 0)
  BY <1>2, <1>3, <1>4
<1>6. \A d \in Command : queue'[d] <= 1
  BY <1>2, <1>3, <1>4
<1>7. \A d, e \in Command : d.r = e.r /\ queue'[d] > 0 /\ queue'[e] > 0 => d = e
  BY <1>2, <1>5 DEF CommandInv
<1>8. \A d \in Command : queue'[d] > 0 => status'[d.r] \in Expected(d)
  BY <1>1, <1>2, <1>3, <1>5 DEF CommandInv, Expected, TypeInv, TypeOK
<1> QED
  BY <1>6, <1>7, <1>8

LEMMA FreeIsQueued ==
    ASSUME TypeInv, NEW c \in Command, Free(c)
    PROVE  queue[c] > 0
<1>1. IsFiniteSet(Leased(c)) /\ queue[c] > Cardinality(Leased(c)) /\ queue[c] \in Nat
  BY DEF Free, TypeInv, LeaseInv, TypeOK
<1> HIDE DEF Leased
<1>2. Cardinality(Leased(c)) \in Nat
  BY <1>1, FS_CardinalityType
<1> QED
  BY <1>1, <1>2

(* A free command is taken, or finished without a worker.                  *)
LEMMA CommandStarts ==
    ASSUME TypeInv, CommandInv, UNCHANGED <<weather, queue, status>>,
           NEW w \in Workers, NEW c, NEW step, Start(w, c, step)
    PROVE  CommandInv'
<1> DEFINE x == [c |-> c, step |-> step, got |-> "none", total |-> 0, held |-> TRUE]
<1>1. \A v \in Workers : job'[v] = IF v = w THEN x ELSE job[v]
  BY JobsMoveAlone DEF Start, TypeInv
<1>2. ~weather.overlap => \A v \in Workers : job'[v] # NoJob => job'[v].held
  BY <1>1 DEF CommandInv
<1> QED
  BY <1>2, CommandsKept

LEMMA CommandDropped ==
    ASSUME TypeInv, CommandInv, UNCHANGED <<weather, status, job>>,
           NEW c \in Command, Free(c), queue' = [queue EXCEPT ![c] = @ - 1]
    PROVE  CommandInv'
<1>1. \A d \in Command : queue'[d] = IF d = c THEN queue[d] - 1
                                     ELSE IF d = c THEN queue[d] + 1 ELSE queue[d]
  BY DEF TypeInv, TypeOK
<1>2. queue[c] > 0
  BY FreeIsQueued
<1>3. ~weather.overlap => \A v \in Workers : job'[v] # NoJob => job'[v].held
  BY DEF CommandInv
<1> QED
  BY <1>1, <1>2, <1>3, CommandFollowed

LEMMA CommandResumed ==
    ASSUME TypeInv, CommandInv, UNCHANGED weather, NEW w \in Workers, NEW c \in Command,
           c.round = 0, Free(c), ResumeConsumed(w, c)
    PROVE  CommandInv'
<1> DEFINE next == About(c.r, 1)
<1>1. c.r \in Refund /\ 1 \in 0 .. Rounds
  BY RefundsAssumption DEF Command
<1>2. queue[c] > 0
  BY FreeIsQueued
<1>3. ResumeRules(c)
  BY ResumeCases
<1>4. \A p \in Refund : p # c.r => status'[p] = status[p]
  BY <1>3 DEF ResumeRules, Rules, Settle, TypeInv, TypeOK
<1>5. /\ next \in Command /\ next.r = c.r /\ next.round = 1 /\ next # c
      /\ Enqueue(c.r, 1) \in [Command -> Nat]
      /\ \A d \in Command : Enqueue(c.r, 1)[d] = IF d = next THEN queue[d] + 1 ELSE queue[d]
  BY <1>1, EnqueueAdds DEF TypeInv
<1>6. ~weather.overlap => status[c.r] = "PENDING"
  BY <1>2 DEF CommandInv, Expected
<1>7. ~weather.overlap => status'[c.r] = "UNKNOWN"
  BY <1>1, <1>3, <1>6 DEF ResumeRules, Rules, Settle, TypeInv, TypeOK
<1>8. ~weather.overlap => queue' = [Enqueue(c.r, 1) EXCEPT ![c] = @ - 1]
  BY <1>6 DEF ResumeConsumed
<1> HIDE DEF next
<1>9. ~weather.overlap =>
        \A d \in Command : queue'[d] = IF d = c THEN queue[d] - 1
                                       ELSE IF d = next THEN queue[d] + 1 ELSE queue[d]
  BY <1>5, <1>8
<1>10. ~weather.overlap => \A v \in Workers : job'[v] # NoJob => job'[v].held
  BY DEF CommandInv, ResumeConsumed
<1>11. next # c => next.r = c.r /\ next.round # 0 /\
                   (~weather.overlap => status'[c.r] \in {"UNKNOWN", "RECONCILING"})
  BY <1>5, <1>7
<1> QED
  BY <1>2, <1>4, <1>5, <1>9, <1>10, <1>11, CommandFollowed

LEMMA CommandTake ==
    ASSUME TypeInv, CommandInv, NEW w \in Workers, NEW c \in Command,
           TakeExecute(w, c) \/ TakeRound(w, c)
    PROVE  CommandInv'
<1>1. UNCHANGED weather /\ Free(c)
  BY DEF TakeExecute, TakeRound
<1>2. CASE ConsumeGrant(w, c)
  BY <1>1, <1>2, CommandStarts DEF ConsumeGrant
<1>3. CASE RefuseGrant(w, c)
  BY <1>1, <1>3, CommandDropped DEF RefuseGrant, rows
<1>4. CASE c.round = 0 /\ ResumeConsumed(w, c)
  BY <1>1, <1>4, CommandResumed
<1>5. CASE TakeRound(w, c)
  <2>1. UNCHANGED status
    BY <1>5 DEF TakeRound, rows
  <2> QED
    BY <1>1, <1>5, <2>1, CommandStarts, CommandDropped DEF TakeRound
<1> QED
  BY <1>2, <1>3, <1>4, <1>5 DEF TakeExecute

LEMMA CommandCarry ==
    ASSUME SendInv, TypeInv, CommandInv, NEW w \in Workers, Send(w) \/ Fetch(w)
    PROVE  CommandInv'
<1>1. job[w] # NoJob /\ UNCHANGED <<weather, queue, status>>
  BY DEF Send, Fetch, rows
<1>2. \E step, got, total : Carry(w, step, got, total)
  BY DEF Send, Fetch
<1>3. PICK step, got, total : Carry(w, step, got, total)
  BY <1>2
<1> DEFINE x == [c |-> job[w].c, step |-> step, got |-> got,
                 total |-> total, held |-> job[w].held]
<1>4. job' = [job EXCEPT ![w] = x]
  BY <1>1, <1>3, Carried, ZenonT(30)
<1>5. \A v \in Workers : job'[v] = IF v = w THEN x ELSE job[v]
  BY <1>4, JobsMoveAlone DEF TypeInv
<1>6. ~weather.overlap => \A v \in Workers : job'[v] # NoJob => job'[v].held
  BY <1>1, <1>5 DEF CommandInv
<1> QED
  BY <1>1, <1>6, CommandsKept

LEMMA CommandFaults ==
    ASSUME TypeInv, CommandInv, NEW w \in Workers, Crash(w) \/ LoseLease(w)
    PROVE  CommandInv'
<1>1. UNCHANGED <<weather, queue, status>>
  BY DEF Crash, LoseLease, rows
<1>2. CASE Crash(w)
  <2>1. \A v \in Workers : job'[v] = IF v = w THEN NoJob ELSE job[v]
    BY <1>2, JobsMoveAlone DEF Crash, TypeInv
  <2>2. ~weather.overlap => \A v \in Workers : job'[v] # NoJob => job'[v].held
    BY <2>1 DEF CommandInv
  <2> QED
    BY <1>1, <2>2, CommandsKept
<1>3. CASE LoseLease(w)
  BY <1>1, <1>3 DEF LoseLease, CommandInv
<1> QED
  BY <1>2, <1>3

LEMMA CommandStep == SendInv /\ TypeInv /\ CommandInv /\ [Next]_vars => CommandInv'
<1> SUFFICES ASSUME SendInv, TypeInv, CommandInv, [Next]_vars PROVE CommandInv'
  OBVIOUS
<1>1. ASSUME NEW r \in Refund, NEW a, RequestRefund(r, a) \/ (AdmitStaleRefund(r) /\ a = Remaining)
      PROVE  CommandInv'
  BY <1>1, CommandAdmit DEF RequestRefund, AdmitStaleRefund
<1>2. ASSUME NEW w \in Workers, NEW c \in Command, TakeExecute(w, c) \/ TakeRound(w, c)
      PROVE  CommandInv'
  BY <1>2, CommandTake
<1>3. ASSUME NEW w \in Workers, Send(w) \/ Record(w) \/ Fetch(w) \/ Apply(w)
      PROVE  CommandInv'
  BY <1>3, CommandRecord, CommandApply, CommandCarry
<1>4. ASSUME NEW w \in Workers, Crash(w) \/ LoseLease(w) PROVE CommandInv'
  BY <1>4, CommandFaults
<1>5. CASE UNCHANGED <<weather, queue, status, job>>
  BY <1>5, CommandsKept DEF CommandInv
<1>6. CASE \/ \E r \in Refund : ProviderSettles(r) \/ LateLand(r)
           \/ \E a \in 1 .. Captured : RefundOutside(a)
  BY <1>5, <1>6 DEF ProviderSettles, LateLand, RefundOutside, rows
<1>7. CASE \/ CaptureReported \/ PaymentRound
           \/ WithholdStaleRefund \/ UNCHANGED vars \/ \E r \in Refund : ExpireGrant(r)
  BY <1>5, <1>7 DEF CaptureReported, PaymentRound, WithholdStaleRefund, vars, ExpireGrant, rows
<1> QED
  BY <1>1, <1>2, <1>3, <1>4, <1>6, <1>7, StepCases

LEMMA CommandInit == Init => CommandInv
BY DEF Init, CommandInv

-----------------------------------------------------------------------------
(* What is reserved stays within the capture.                              *)

LEMMA ReservedShrinks ==
    ASSUME TypeInv, UNCHANGED <<weather, amount>>, ReservedWithinCapture,
           ~weather.overlap => Reserving' \subseteq Reserving
    PROVE  ReservedWithinCapture'
<1> SUFFICES ASSUME ~weather.overlap PROVE ~Overdrawn(status)'
  BY DEF ReservedWithinCapture
<1>1. Sum(amount, Reserving) <= Captured
  <2>1. Sum(amount, Reserving) \in Nat
    BY SumsAreNat DEF TypeInv, Reserving
  <2> QED
    BY <2>1, Ledger, RefundsAssumption DEF ReservedWithinCapture
<1>2. /\ Reserving \in SUBSET Refund /\ Reserving' \in SUBSET Refund
      /\ Reserving' \subseteq Reserving /\ \A r \in Reserving : amount[r] \in Nat
  BY RefundsAssumption DEF Reserving, TypeInv, TypeOK
<1> HIDE DEF Reserving
<1>3. Sum(amount, Reserving') <= Sum(amount, Reserving)
  BY <1>2, RefundsFinite, SumPart
<1>4. Sum(amount, Reserving') \in Nat /\ Sum(amount, Reserving) \in Nat
  BY <1>2, SumsAreNat DEF TypeInv
<1>5. ~(Sum(amount, Reserving') > Captured)
  BY <1>1, <1>3, <1>4, RefundsAssumption
<1>6. Sum(amount', Reserving') = Sum(amount, Reserving')
  OBVIOUS
<1> QED
  BY <1>5, <1>6, LedgerAfter

(* The row a transaction moves was reserving already.                      *)
LEMMA ReservedRow ==
    ASSUME TypeInv, UNCHANGED <<weather, amount>>, ReservedWithinCapture,
           NEW r, ~weather.overlap => status[r] \in RESERVING_STATUSES,
           \A p \in Refund : p # r => status'[p] = status[p]
    PROVE  ReservedWithinCapture'
<1>1. ~weather.overlap => Reserving' \subseteq Reserving
  BY DEF Reserving
<1> QED
  BY <1>1, ReservedShrinks

LEMMA ExpectedReserves == \A c : Expected(c) \subseteq RESERVING_STATUSES
BY DEF Expected, RESERVING_STATUSES, RefundStatus

LEMMA ReservedAdmit ==
    ASSUME TypeInv, ReservedWithinCapture, NEW r \in Refund, NEW a, Admit(r, a)
    PROVE  ReservedWithinCapture'
<1>1. /\ a \in 1 .. Remaining /\ status[r] = "NONE" /\ UNCHANGED weather
      /\ status' = [status EXCEPT ![r] = "PENDING"]
      /\ amount' = [amount EXCEPT ![r] = a]
  BY DEF Admit, Admissible, Mark, NextRefund
<1>2. /\ Reserving \in SUBSET Refund /\ r \notin Reserving /\ Reserving' = Reserving \cup {r}
      /\ \A q \in Reserving : amount'[q] = amount[q] /\ amount[q] \in Nat
      /\ amount'[r] = a
  BY <1>1, RefundsAssumption DEF Reserving, TypeInv, TypeOK, RESERVING_STATUSES, RefundStatus
<1>3. IsFiniteSet(Reserving)
  BY <1>2, RefundsFinite
<1>4. Sum(amount, Reserving) \in Nat /\ Reserved = Sum(amount, Reserving)
  BY <1>2, SumsAreNat, Ledger DEF TypeInv
<1>5. a \in Nat /\ a <= Captured - Sum(amount, Reserving)
  BY <1>1, <1>4, RefundsAssumption DEF Remaining
<1> HIDE DEF Reserving
<1>6. Sum(amount', Reserving) = Sum(amount, Reserving)
  BY <1>2, <1>3, SumSame
<1>7. Sum(amount', Reserving \cup {r}) = amount'[r] + Sum(amount', Reserving)
  <2>1. \A q \in Reserving \cup {r} : amount'[q] \in Int
    BY <1>2, <1>5
  <2> QED
    BY <1>2, <1>3, <2>1, SumAdd
<1>8. Sum(amount', Reserving') = a + Sum(amount, Reserving)
  BY <1>2, <1>6, <1>7
<1>9. ~(Sum(amount', Reserving') > Captured)
  BY <1>4, <1>5, <1>8, RefundsAssumption
<1> QED
  BY <1>9, LedgerAfter DEF ReservedWithinCapture

LEMMA ReservedStep ==
    TypeInv /\ CommandInv /\ ReservedWithinCapture /\ [Next]_vars => ReservedWithinCapture'
<1> SUFFICES ASSUME TypeInv, CommandInv, ReservedWithinCapture, [Next]_vars
             PROVE  ReservedWithinCapture'
  OBVIOUS
<1>1. ASSUME NEW r \in Refund, NEW a, RequestRefund(r, a) \/ (AdmitStaleRefund(r) /\ a = Remaining)
      PROVE  ReservedWithinCapture'
  BY <1>1, ReservedAdmit DEF RequestRefund, AdmitStaleRefund
<1>2. CASE UNCHANGED <<weather, amount, status>>
  BY <1>2, ReservedShrinks DEF Reserving
<1>3. ASSUME NEW w \in Workers, NEW c \in Command, TakeExecute(w, c) \/ TakeRound(w, c)
      PROVE  ReservedWithinCapture'
  <2>1. UNCHANGED <<weather, amount>> /\ Free(c)
    BY <1>3 DEF TakeExecute, TakeRound, ConsumeGrant, RefuseGrant, ResumeConsumed, rows
  <2>2. CASE ResumeConsumed(w, c)
    <3>1. ~weather.overlap => status[c.r] \in RESERVING_STATUSES
      BY <2>1, FreeIsQueued, ExpectedReserves DEF CommandInv
    <3>2. \A p \in Refund : p # c.r => status'[p] = status[p]
      BY <2>2, ResumeCases DEF ResumeRules, Rules, Settle, TypeInv, TypeOK
    <3> QED
      BY <2>1, <3>1, <3>2, ReservedRow
  <2>3. CASE ~ResumeConsumed(w, c)
    BY <1>2, <1>3, <2>1, <2>3 DEF TakeExecute, TakeRound, ConsumeGrant, RefuseGrant, rows
  <2> QED
    BY <2>2, <2>3
<1>4. ASSUME NEW w \in Workers, Record(w) \/ Apply(w)
      PROVE  ReservedWithinCapture'
  <2> DEFINE r == job[w].c.r
  <2>1. job[w] # NoJob /\ UNCHANGED <<weather, amount>>
    BY <1>4, RecordCases, ApplyCases DEF Record, Apply, TypeInv
  <2>2. ~weather.overlap => status[r] \in RESERVING_STATUSES
    BY <2>1, JobExpected, ExpectedReserves
  <2>3. \A p \in Refund : p # r => status'[p] = status[p]
    <3>1. (\E q : RecordRules(w, r, q)) \/ (\E q : ApplyRules(w, r, q))
      BY <1>4, RecordCases, ApplyCases DEF TypeInv
    <3> QED
      BY <3>1 DEF RecordRules, ApplyRules, Rules, Settle, TypeInv, TypeOK
  <2> QED
    BY <2>1, <2>2, <2>3, ReservedRow
<1>5. ASSUME NEW w \in Workers, Send(w) \/ Fetch(w) \/ Crash(w) \/ LoseLease(w)
      PROVE  ReservedWithinCapture'
  BY <1>2, <1>5 DEF Send, Fetch, Crash, LoseLease, rows
<1>6. CASE \/ \E r \in Refund : ProviderSettles(r) \/ LateLand(r)
           \/ \E a \in 1 .. Captured : RefundOutside(a)
  BY <1>2, <1>6 DEF ProviderSettles, LateLand, RefundOutside, rows
<1>7. CASE \/ CaptureReported \/ PaymentRound
           \/ WithholdStaleRefund \/ UNCHANGED vars \/ \E r \in Refund : ExpireGrant(r)
  BY <1>2, <1>7 DEF CaptureReported, PaymentRound, WithholdStaleRefund, vars, ExpireGrant, rows
<1> QED
  BY <1>1, <1>3, <1>4, <1>5, <1>6, <1>7, StepCases

LEMMA ReservedInit == Init => ReservedWithinCapture
<1> SUFFICES ASSUME Init PROVE ~Overdrawn(status)
  BY DEF ReservedWithinCapture
<1>1. Reserving = {}
  BY DEF Init, Reserving, RESERVING_STATUSES
<1> QED
  BY <1>1, Ledger, SumEmpty, RefundsAssumption

LedgerInv == SendInv /\ TypeInv /\ BooksInv /\ CommandInv /\ ReservedWithinCapture

LEMMA LedgerInit == Init => LedgerInv
BY SendInit, TypeInit, BooksInit, CommandInit, ReservedInit DEF LedgerInv

LEMMA LedgerStep == LedgerInv /\ [Next]_vars => LedgerInv'
BY SendStep, TypeStep, BooksStep, CommandStep, ReservedStep DEF LedgerInv

(* While no lease is lost, what is reserved never exceeds the capture, so  *)
(* that the ledger can be read and a refund admitted (_ledger, _admit): a  *)
(* refund has one command at a time, and a worker meets the row it expects.*)
THEOREM CaptureBounds == Spec => []ReservedWithinCapture
<1>1. LedgerInv => ReservedWithinCapture
  BY DEF LedgerInv
<1> QED
  BY <1>1, LedgerInit, LedgerStep, PTL DEF Spec

-----------------------------------------------------------------------------
(* What the ledger says of a refund, the provider bears out.               *)

ProcessedIsTrue ==
    /\ \A r \in Refund : status[r] = "PROCESSED" => provider[r] = "processed"
    /\ \A w \in Workers : job[w] # NoJob /\ job[w].got = "processed" =>
            provider[job[w].c.r] = "processed"

(* Whoever has an answer to record has sent the request,                   *)
AnsweredIsSent ==
    \A w \in Workers : job[w] # NoJob /\ job[w].step = "record" => sent[job[w].c.r] # 0

(* and a refusal is one: unless a request is still on its way.             *)
RefusalIsTrue ==
    ~weather.late =>
        /\ wire = {}
        /\ \A w \in Workers :
            job[w] # NoJob /\ job[w].step = "record" /\ job[w].got = "failed" =>
                provider[job[w].c.r] \in {"absent", "failed"}

TruthInv == ProcessedIsTrue /\ AnsweredIsSent /\ RefusalIsTrue

(* What may happen to a refund at the provider.                            *)
LEMMA AcceptsMoves ==
    ASSUME TypeOK, NEW r \in Refund, NEW s, Accepts(r, s), Lands(r, s)
    PROVE  \A q \in Refund :
             provider'[q] = provider[q] \/ (q = r /\ provider[q] = "absent")
BY DEF TypeOK, Accepts, Lands

LEMMA ProviderMoves ==
    ASSUME TypeInv, [Next]_vars, NEW r \in Refund
    PROVE  \/ provider'[r] = provider[r]
           \/ provider[r] = "pending" /\ provider'[r] \in {"processed", "failed"}
           \/ provider[r] = "absent" /\ r \in wire
           \/ /\ provider[r] = "absent"
              /\ \E w \in Workers : Send(w) /\ job[w].c.r = r
<1>1. CASE UNCHANGED provider
  BY <1>1
<1>2. ASSUME NEW q \in Refund, ProviderSettles(q)
      PROVE  \/ provider'[r] = provider[r]
             \/ provider[r] = "pending" /\ provider'[r] \in {"processed", "failed"}
  BY <1>2 DEF ProviderSettles, Lands, TypeInv, TypeOK
<1>3. ASSUME NEW q \in Refund, LateLand(q)
      PROVE  provider'[r] = provider[r] \/ (provider[r] = "absent" /\ r \in wire)
  BY <1>3, AcceptsMoves DEF LateLand, TypeInv
<1>4. ASSUME NEW w \in Workers, Send(w)
      PROVE  provider'[r] = provider[r] \/ (provider[r] = "absent" /\ job[w].c.r = r)
  <2>1. job[w].c.r \in Refund
    BY <1>4 DEF Send, TypeInv, TypeOK, Job, Command
  <2> QED
    BY <1>4, <2>1, AcceptsMoves DEF Send, TypeInv
<1>5. ASSUME NEW w \in Workers, Record(w) \/ Fetch(w) \/ Apply(w) \/ Crash(w) \/ LoseLease(w)
      PROVE  UNCHANGED provider
  BY <1>5 DEF Record, Fetch, Apply, Crash, LoseLease, world
<1>6. ASSUME NEW w \in Workers, NEW c \in Command, TakeExecute(w, c) \/ TakeRound(w, c)
      PROVE  UNCHANGED provider
  BY <1>6 DEF TakeExecute, TakeRound, world
<1>7. ASSUME NEW q \in Refund, NEW a, Admit(q, a) PROVE UNCHANGED provider
  BY <1>7 DEF Admit, world
<1>8. CASE \/ \E a \in 1 .. Captured : RefundOutside(a)
           \/ CaptureReported \/ PaymentRound
           \/ WithholdStaleRefund \/ UNCHANGED vars \/ \E q \in Refund : ExpireGrant(q)
  BY <1>8 DEF RefundOutside, CaptureReported, PaymentRound, WithholdStaleRefund, vars,
              ExpireGrant, world
<1> QED
  BY <1>1, <1>2, <1>3, <1>4, <1>5, <1>6, <1>7, <1>8, StepCases DEF RequestRefund, AdmitStaleRefund

LEMMA ProcessedStays ==
    ASSUME TypeInv, [Next]_vars
    PROVE  \A r \in Refund : provider[r] = "processed" => provider'[r] = "processed"
BY ProviderMoves

(* Which rows may end processed.                                           *)
LEMMA ProcessedByAnswer ==
    ASSUME TypeInv, [Next]_vars, NEW r \in Refund, status'[r] = "PROCESSED"
    PROVE  \/ status[r] = "PROCESSED"
           \/ \E w \in Workers : /\ job[w] # NoJob /\ job[w].got = "processed"
                                 /\ job[w].c.r = r
<1>1. CASE UNCHANGED status
  BY <1>1
<1>2. ASSUME NEW q \in Refund, NEW s, s # "PROCESSED", status' = [status EXCEPT ![q] = s]
      PROVE  status[r] = "PROCESSED"
  BY <1>2 DEF TypeInv, TypeOK
<1>3. ASSUME NEW q \in Refund, NEW a, Admit(q, a) PROVE status[r] = "PROCESSED"
  BY <1>2, <1>3 DEF Admit, Mark
<1>4. ASSUME NEW w \in Workers, NEW c \in Command, TakeExecute(w, c) \/ TakeRound(w, c)
      PROVE  status[r] = "PROCESSED"
  <2>1. c.r \in Refund
    BY DEF Command
  <2>2. CASE ResumeConsumed(w, c)
    BY <1>1, <1>2, <2>1, <2>2, ResumeCases DEF ResumeRules, Rules, Settle
  <2> QED
    BY <1>1, <1>4, <2>2 DEF TakeExecute, TakeRound, ConsumeGrant, RefuseGrant, rows
<1>5. ASSUME NEW w \in Workers, Record(w) \/ Apply(w)
      PROVE  \/ status[r] = "PROCESSED"
             \/ job[w] # NoJob /\ job[w].got = "processed" /\ job[w].c.r = r
  <2>1. job[w] # NoJob /\ job[w].c.r \in Refund
    BY <1>5 DEF Record, Apply, TypeInv, TypeOK, Job, Command
  <2>2. CASE UNCHANGED status
    BY <1>1, <2>2
  <2>3. CASE \E s : s # "PROCESSED" /\ status' = [status EXCEPT ![job[w].c.r] = s]
    BY <1>2, <2>1, <2>3
  <2>4. CASE job[w].got = "processed" /\ status' = [status EXCEPT ![job[w].c.r] = "PROCESSED"]
    BY <2>1, <2>4 DEF TypeInv, TypeOK
  <2>5. (\E q : RecordRules(w, job[w].c.r, q)) \/ (\E q : ApplyRules(w, job[w].c.r, q))
    BY <1>5, RecordCases, ApplyCases DEF TypeInv
  <2> QED
    BY <2>2, <2>3, <2>4, <2>5 DEF RecordRules, ApplyRules, Rules, Settle
<1>6. ASSUME NEW w \in Workers, Send(w) \/ Fetch(w) \/ Crash(w) \/ LoseLease(w)
      PROVE  UNCHANGED status
  BY <1>6 DEF Send, Fetch, Crash, LoseLease, rows
<1>7. CASE \/ \E q \in Refund : ProviderSettles(q) \/ LateLand(q)
           \/ \E a \in 1 .. Captured : RefundOutside(a)
  BY <1>1, <1>7 DEF ProviderSettles, LateLand, RefundOutside, rows
<1>8. CASE \/ CaptureReported \/ PaymentRound
           \/ WithholdStaleRefund \/ UNCHANGED vars \/ \E q \in Refund : ExpireGrant(q)
  BY <1>1, <1>8 DEF CaptureReported, PaymentRound, WithholdStaleRefund, vars, ExpireGrant, rows
<1> QED
  BY <1>1, <1>3, <1>4, <1>5, <1>6, <1>7, <1>8, StepCases DEF RequestRefund, AdmitStaleRefund

(* What a worker may come to know in a step.                               *)
SameJob(w) ==
    /\ job[w] # NoJob /\ job'[w].c = job[w].c /\ job'[w].step = job[w].step
    /\ job'[w].got = job[w].got /\ job'[w].total = job[w].total
StartedJob(w) ==
    /\ job'[w].step \in {"send", "fetch", "look_up"} /\ job'[w].got = "none"
    /\ job'[w].step = "look_up" => named[job'[w].c.r]
    /\ job'[w].step = "fetch" => ~named[job'[w].c.r]
    /\ UNCHANGED named
SentJob(w) ==
    LET r == job[w].c.r IN
    /\ job[w] # NoJob /\ Send(w) /\ job'[w].c = job[w].c /\ job'[w].step = "record"
    /\ job'[w].got = "processed" => provider'[r] = "processed"
    /\ job'[w].got = "failed" => provider'[r] \in {"absent", "failed"}
FetchedJob(w) ==
    LET r == job[w].c.r IN
    /\ job[w] # NoJob /\ Fetch(w) /\ job'[w].c = job[w].c /\ job'[w].step = "apply"
    /\ job'[w].got = "processed" => provider[r] = "processed"
    /\ job'[w].got = "pending" => job[w].step = "look_up"
    /\ job'[w].got = "total" => job[w].step = "fetch" /\ job'[w].total = ProviderTotal
    /\ job'[w].got # "failed"

LEMMA SendAnswers ==
    ASSUME SendInv, TypeInv, NEW w \in Workers, Send(w)
    PROVE  SentJob(w) /\ \A v \in Workers : v # w => job'[v] = job[v]
<1> DEFINE r == job[w].c.r
<1>1. job[w] # NoJob /\ r \in Refund
  BY DEF Send, TypeInv, TypeOK, Job, Command
<1>2. UNCHANGED queue
  BY DEF Send
<1>3. \E got \in {"unknown", "echo", "processed", "pending", "failed"} :
        /\ Carry(w, "record", got, 0)
        /\ got = "processed" => provider'[r] = "processed"
        /\ got = "failed" => provider'[r] \in {"absent", "failed"}
  <2>1. ASSUME NEW s \in ProviderStatus, NEW got \in {Answered(s), "unknown", "echo"},
               Lands(r, s), Carry(w, "record", got, 0)
        PROVE  \E g \in {"unknown", "echo", "processed", "pending", "failed"} :
                 /\ Carry(w, "record", g, 0)
                 /\ g = "processed" => provider'[r] = "processed"
                 /\ g = "failed" => provider'[r] \in {"absent", "failed"}
    <3>1. provider'[r] = s
      BY <1>1, <2>1 DEF Lands, TypeInv, TypeOK
    <3>2. /\ got \in {"unknown", "echo", "processed", "pending", "failed"}
          /\ got = "processed" => s = "processed"
          /\ got = "failed" => s \in {"absent", "failed"}
      BY <2>1 DEF Answered, ProviderStatus
    <3> QED
      BY <2>1, <3>1, <3>2
  <2>2. CASE Carry(w, "record", "unknown", 0)
    BY <2>2
  <2> QED
    BY <2>1, <2>2 DEF Send
<1>4. PICK got \in {"unknown", "echo", "processed", "pending", "failed"} :
        /\ Carry(w, "record", got, 0)
        /\ got = "processed" => provider'[r] = "processed"
        /\ got = "failed" => provider'[r] \in {"absent", "failed"}
  BY <1>3
<1>5. /\ \A v \in Workers : v # w => job'[v] = job[v]
      /\ job'[w] = [c |-> job[w].c, step |-> "record", got |-> got,
                    total |-> 0, held |-> job[w].held]
  BY <1>1, <1>2, <1>4, CarryTyped
<1> QED
  BY <1>1, <1>4, <1>5 DEF SentJob

LEMMA FetchAnswers ==
    ASSUME SendInv, TypeInv, NEW w \in Workers, Fetch(w)
    PROVE  FetchedJob(w) /\ \A v \in Workers : v # w => job'[v] = job[v]
<1> DEFINE r == job[w].c.r
<1>1. job[w] # NoJob /\ UNCHANGED queue /\ ProviderTotal \in Nat
  BY LedgerIsNat DEF Fetch, TypeInv
<1>2. PICK got \in {"total", "no_total", "processed", "pending", "unknown", "mismatch"}, total \in Nat :
        /\ Carry(w, "apply", got, total)
        /\ got = "processed" => provider[r] = "processed"
        /\ got = "pending" => job[w].step = "look_up"
        /\ got = "total" => job[w].step = "fetch" /\ total = ProviderTotal
  BY <1>1 DEF Fetch
<1>3. /\ \A v \in Workers : v # w => job'[v] = job[v]
      /\ job'[w] = [c |-> job[w].c, step |-> "apply", got |-> got,
                    total |-> total, held |-> job[w].held]
  BY <1>1, <1>2, CarryTyped
<1> QED
  BY <1>1, <1>2, <1>3 DEF FetchedJob

LEMMA JobMoves ==
    ASSUME SendInv, TypeInv, [Next]_vars, NEW w \in Workers, job'[w] # NoJob
    PROVE  SameJob(w) \/ StartedJob(w) \/ SentJob(w) \/ FetchedJob(w)
<1>1. job'[w] = job[w] => SameJob(w)
  BY DEF SameJob
<1>2. ASSUME NEW v \in Workers, NEW x, job' = [job EXCEPT ![v] = x]
      PROVE  job'[w] = IF w = v THEN x ELSE job[w]
  BY <1>2 DEF TypeInv, TypeOK
<1>3. ASSUME NEW v \in Workers, NEW c \in Command, TakeExecute(v, c) \/ TakeRound(v, c)
      PROVE  SameJob(w) \/ StartedJob(w)
  <2>1. ASSUME NEW step \in {"send", "fetch", "look_up"}, Start(v, c, step),
               step = "look_up" => named[c.r], step = "fetch" => ~named[c.r], UNCHANGED named
        PROVE  SameJob(w) \/ StartedJob(w)
    <3> DEFINE x == [c |-> c, step |-> step, got |-> "none", total |-> 0, held |-> TRUE]
    <3>1. job'[w] = IF w = v THEN x ELSE job[w]
      BY <1>2, <2>1 DEF Start
    <3> QED
      BY <1>1, <2>1, <3>1 DEF StartedJob
  <2>2. CASE UNCHANGED job
    BY <1>1, <2>2
  <2>3. CASE TakeExecute(v, c)
    BY <2>1, <2>2, <2>3 DEF TakeExecute, ConsumeGrant, RefuseGrant, ResumeConsumed, rows
  <2>4. CASE TakeRound(v, c)
    BY <2>1, <2>2, <2>4 DEF TakeRound, rows
  <2> QED
    BY <1>3, <2>3, <2>4
<1>4. ASSUME NEW v \in Workers, Record(v) \/ Apply(v) \/ Crash(v)
      PROVE  SameJob(w)
  <2>1. job' = [job EXCEPT ![v] = NoJob]
    BY <1>4, RecordCases, ApplyCases DEF End, Crash, TypeInv
  <2> QED
    BY <1>1, <1>2, <2>1
<1>5. ASSUME NEW v \in Workers, Send(v) \/ Fetch(v)
      PROVE  SameJob(w) \/ SentJob(w) \/ FetchedJob(w)
  BY <1>1, <1>5, SendAnswers, FetchAnswers
<1>6. ASSUME NEW v \in Workers, LoseLease(v)
      PROVE  SameJob(w)
  <2>1. PICK x \in Job :
          /\ job' = [job EXCEPT ![v] = x]
          /\ x.c = job[v].c /\ x.step = job[v].step /\ x.got = job[v].got
          /\ x.total = job[v].total /\ x.held = FALSE
    BY <1>6, LoseLeaseJob
  <2>2. job'[w] = IF w = v THEN x ELSE job[w]
    BY <2>1 DEF TypeInv, TypeOK
  <2> QED
    BY <1>1, <1>6, <2>1, <2>2 DEF SameJob, LoseLease
<1>7. CASE UNCHANGED job
  BY <1>1, <1>7
<1>8. ASSUME NEW r \in Refund, NEW a, Admit(r, a) PROVE UNCHANGED job
  BY <1>8 DEF Admit
<1>9. CASE \/ \E r \in Refund : ProviderSettles(r) \/ LateLand(r)
           \/ \E a \in 1 .. Captured : RefundOutside(a)
  BY <1>7, <1>9 DEF ProviderSettles, LateLand, RefundOutside
<1>10. CASE \/ CaptureReported \/ PaymentRound
            \/ WithholdStaleRefund \/ UNCHANGED vars \/ \E r \in Refund : ExpireGrant(r)
  BY <1>7, <1>10 DEF CaptureReported, PaymentRound, WithholdStaleRefund, vars, ExpireGrant
<1> QED
  BY <1>3, <1>4, <1>5, <1>6, <1>7, <1>8, <1>9, <1>10, StepCases
     DEF RequestRefund, AdmitStaleRefund

(* How the history of requests and the requests on their way move.         *)
LEMMA RequestsMove ==
    ASSUME TypeInv, [Next]_vars
    PROVE  /\ UNCHANGED weather
           /\ \A r \in Refund : sent[r] # 0 => sent'[r] # 0
           /\ ~weather.late => wire' \subseteq wire
<1>1. ASSUME NEW r \in Refund, NEW a, Admit(r, a)
      PROVE  UNCHANGED <<weather, sent, wire>>
  BY <1>1 DEF Admit, world
<1>2. ASSUME NEW w \in Workers, NEW c \in Command, TakeExecute(w, c) \/ TakeRound(w, c)
      PROVE  UNCHANGED <<weather, sent, wire>>
  BY <1>2 DEF TakeExecute, TakeRound, world
<1>3. ASSUME NEW w \in Workers, Record(w) \/ Fetch(w) \/ Apply(w) \/ LoseLease(w)
      PROVE  UNCHANGED <<weather, sent, wire>>
  BY <1>3 DEF Record, Fetch, Apply, LoseLease, world
<1>4. ASSUME NEW w \in Workers, Crash(w)
      PROVE  UNCHANGED <<weather, sent>> /\ (~weather.late => UNCHANGED wire)
  BY <1>4 DEF Crash
<1>5. ASSUME NEW w \in Workers, Send(w)
      PROVE  /\ UNCHANGED weather /\ (~weather.late => UNCHANGED wire)
             /\ \A r \in Refund : sent[r] # 0 => sent'[r] # 0
  <2>1. sent' = [sent EXCEPT ![job[w].c.r] = @ + 1] /\ UNCHANGED weather
    BY <1>5 DEF Send
  <2>2. \A r \in Refund : sent[r] \in Nat
    BY DEF TypeInv, TypeOK
  <2>3. \A r \in Refund : sent'[r] \in {sent[r], sent[r] + 1}
    BY <2>1 DEF TypeInv, TypeOK
  <2>4. ~weather.late => UNCHANGED wire
    BY <1>5 DEF Send
  <2> QED
    BY <2>1, <2>2, <2>3, <2>4
<1>6. ASSUME NEW r \in Refund, ProviderSettles(r) \/ LateLand(r)
      PROVE  UNCHANGED <<weather, sent>> /\ wire' \subseteq wire
  BY <1>6 DEF ProviderSettles, LateLand
<1>7. ASSUME NEW a \in 1 .. Captured, RefundOutside(a)
      PROVE  UNCHANGED <<weather, sent, wire>>
  BY <1>7 DEF RefundOutside
<1>8. CASE \/ CaptureReported \/ PaymentRound
           \/ WithholdStaleRefund \/ UNCHANGED vars \/ \E r \in Refund : ExpireGrant(r)
  BY <1>8 DEF CaptureReported, PaymentRound, WithholdStaleRefund, vars, ExpireGrant, world
<1> QED
  BY <1>1, <1>2, <1>3, <1>4, <1>5, <1>6, <1>7, <1>8, StepCases
     DEF RequestRefund, AdmitStaleRefund

LEMMA TruthStep == SendInv /\ TypeInv /\ TruthInv /\ [Next]_vars => TruthInv'
<1> SUFFICES ASSUME SendInv, TypeInv, TruthInv, [Next]_vars PROVE TruthInv'
  OBVIOUS
<1>1. \A w \in Workers : job[w] # NoJob => job[w].c.r \in Refund
  BY DEF TypeInv, TypeOK, Job, Command
<1>2. ProcessedIsTrue'
  <2>1. ASSUME NEW r \in Refund, status'[r] = "PROCESSED" PROVE provider'[r] = "processed"
    BY <2>1, ProcessedByAnswer, ProcessedStays DEF TruthInv, ProcessedIsTrue
  <2>2. ASSUME NEW w \in Workers, job'[w] # NoJob, job'[w].got = "processed"
        PROVE  provider'[job'[w].c.r] = "processed"
    BY <1>1, <2>2, JobMoves, ProcessedStays
       DEF TruthInv, ProcessedIsTrue, SameJob, StartedJob, SentJob, FetchedJob
  <2> QED
    BY <2>1, <2>2 DEF ProcessedIsTrue
<1>3. AnsweredIsSent'
  <2> SUFFICES ASSUME NEW w \in Workers, job'[w] # NoJob, job'[w].step = "record"
               PROVE  sent'[job'[w].c.r] # 0
    BY DEF AnsweredIsSent
  <2>1. CASE SameJob(w)
    BY <1>1, <2>1, RequestsMove DEF TruthInv, AnsweredIsSent, SameJob
  <2>2. CASE SentJob(w)
    <3>1. sent' = [sent EXCEPT ![job[w].c.r] = @ + 1] /\ job[w].c.r \in Refund
      BY <1>1, <2>2 DEF SentJob, Send
    <3>2. sent \in [Refund -> Nat]
      BY DEF TypeInv, TypeOK
    <3>3. sent'[job[w].c.r] # 0
      BY <3>1, <3>2
    <3> QED
      BY <2>2, <3>3 DEF SentJob
  <2> QED
    BY <2>1, <2>2, JobMoves DEF StartedJob, FetchedJob
<1>4. RefusalIsTrue'
  <2> SUFFICES ASSUME ~weather.late
               PROVE  /\ wire' = {}
                      /\ \A w \in Workers :
                           job'[w] # NoJob /\ job'[w].step = "record" /\ job'[w].got = "failed" =>
                             provider'[job'[w].c.r] \in {"absent", "failed"}
    BY RequestsMove DEF RefusalIsTrue
  <2>1. wire = {} /\ wire' = {}
    BY RequestsMove DEF TruthInv, RefusalIsTrue
  <2>2. ASSUME NEW w \in Workers, job'[w] # NoJob, job'[w].step = "record",
               job'[w].got = "failed"
        PROVE  provider'[job'[w].c.r] \in {"absent", "failed"}
    <3>1. CASE SameJob(w)
      <4> DEFINE r == job[w].c.r
      <4>1. /\ r \in Refund /\ job'[w].c = job[w].c /\ sent[r] # 0
            /\ provider[r] \in {"absent", "failed"}
        BY <1>1, <2>2, <3>1 DEF SameJob, TruthInv, AnsweredIsSent, RefusalIsTrue
      <4>2. ~\E v \in Workers : Send(v) /\ job[v].c.r = r
        BY <4>1 DEF Send, SendInv, SenderSpentGrant, Sending
      <4>3. provider'[r] = provider[r]
        BY <2>1, <4>1, <4>2, ProviderMoves
      <4> QED
        BY <4>1, <4>3
    <3>2. CASE SentJob(w)
      BY <2>2, <3>2 DEF SentJob
    <3> QED
      BY <2>2, <3>1, <3>2, JobMoves DEF StartedJob, FetchedJob
  <2> QED
    BY <2>1, <2>2
<1> QED
  BY <1>2, <1>3, <1>4 DEF TruthInv

LEMMA TruthInit == Init => TruthInv
BY DEF Init, TruthInv, ProcessedIsTrue, AnsweredIsSent, RefusalIsTrue

-----------------------------------------------------------------------------
(* The refund of a stale capture is alone on its attempt.                  *)

Live == {r \in Refund : status[r] \notin {"NONE", "FAILED"}}
StaleIsAlone ==
    weather.stale =>
        /\ order = "NONE"
        /\ ~weather.overlap => \A r, q \in Live : r = q

(* A transaction of a worker, or of nobody in particular, moves one row,   *)
(* and without lost leases one that is live already.                       *)
LEMMA RowMoves ==
    ASSUME TypeInv, CommandInv, [Next]_vars
    PROVE  \/ \E r \in Refund : AdmitStaleRefund(r)
           \/ \E r \in Refund, a \in 1 .. Captured : RequestRefund(r, a)
           \/ /\ order = "NONE" => order' = "NONE"
              /\ UNCHANGED <<weather, amount>>
              /\ ~weather.overlap => Live' \subseteq Live
<1>1. CASE UNCHANGED <<weather, amount, status, order>>
  BY <1>1 DEF Live
<1>2. ASSUME NEW w \in Workers, NEW c \in Command, TakeExecute(w, c) \/ TakeRound(w, c)
      PROVE  /\ order = "NONE" => order' = "NONE"
             /\ UNCHANGED <<weather, amount>>
             /\ ~weather.overlap => Live' \subseteq Live
  <2>1. UNCHANGED <<weather, amount>> /\ Free(c) /\ c.r \in Refund
    BY <1>2 DEF TakeExecute, TakeRound, ConsumeGrant, RefuseGrant, ResumeConsumed, rows, Command
  <2>2. CASE ResumeConsumed(w, c)
    <3>1. ~weather.overlap => c.r \in Live
      BY <2>1, FreeIsQueued DEF CommandInv, Expected, Live
    <3>2. \A p \in Refund : p # c.r => status'[p] = status[p]
      BY <2>2, ResumeCases DEF ResumeRules, Rules, Settle, TypeInv, TypeOK
    <3>3. order = "NONE" => order' = "NONE"
      BY <2>2, ResumeCases DEF ResumeRules, Rules, Settle
    <3> QED
      BY <2>1, <3>1, <3>2, <3>3 DEF Live
  <2>3. CASE ~ResumeConsumed(w, c)
    <3>1. UNCHANGED <<status, order>>
      BY <1>2, <2>3 DEF TakeExecute, TakeRound, ConsumeGrant, RefuseGrant, rows
    <3> QED
      BY <2>1, <3>1 DEF Live
  <2> QED
    BY <2>2, <2>3
<1>3. ASSUME NEW w \in Workers, Record(w) \/ Apply(w)
      PROVE  /\ order = "NONE" => order' = "NONE"
             /\ UNCHANGED <<weather, amount>>
             /\ ~weather.overlap => Live' \subseteq Live
  <2> DEFINE r == job[w].c.r
  <2>1. job[w] # NoJob /\ UNCHANGED <<weather, amount>> /\ r \in Refund
    BY <1>3, RecordCases, ApplyCases DEF Record, Apply, TypeInv, TypeOK, Job, Command
  <2>2. ~weather.overlap => r \in Live
    BY <2>1, JobExpected DEF Expected, Live
  <2>3. (\E q : RecordRules(w, r, q)) \/ (\E q : ApplyRules(w, r, q))
    BY <1>3, RecordCases, ApplyCases DEF TypeInv
  <2>4. \A p \in Refund : p # r => status'[p] = status[p]
    BY <2>3 DEF RecordRules, ApplyRules, Rules, Settle, TypeInv, TypeOK
  <2>5. order = "NONE" => order' = "NONE"
    BY <2>3 DEF RecordRules, ApplyRules, Rules, Settle
  <2> QED
    BY <2>1, <2>2, <2>4, <2>5 DEF Live
<1>4. ASSUME NEW w \in Workers, Send(w) \/ Fetch(w) \/ Crash(w) \/ LoseLease(w)
      PROVE  UNCHANGED <<weather, amount, status, order>>
  BY <1>4 DEF Send, Fetch, Crash, LoseLease, rows
<1>5. CASE \/ \E q \in Refund : ProviderSettles(q) \/ LateLand(q)
           \/ \E a \in 1 .. Captured : RefundOutside(a)
  BY <1>1, <1>5 DEF ProviderSettles, LateLand, RefundOutside, rows
<1>6. CASE \/ CaptureReported \/ PaymentRound
           \/ WithholdStaleRefund \/ UNCHANGED vars \/ \E q \in Refund : ExpireGrant(q)
  BY <1>1, <1>6 DEF CaptureReported, PaymentRound, WithholdStaleRefund, vars, ExpireGrant, rows
<1> QED
  BY <1>1, <1>2, <1>3, <1>4, <1>5, <1>6, StepCases

LEMMA StaleStep == TypeInv /\ CommandInv /\ StaleIsAlone /\ [Next]_vars => StaleIsAlone'
<1> SUFFICES ASSUME TypeInv, CommandInv, StaleIsAlone, [Next]_vars PROVE StaleIsAlone'
  OBVIOUS
<1>1. ASSUME NEW r \in Refund, AdmitStaleRefund(r) PROVE StaleIsAlone'
  <2>1. /\ UNCHANGED <<weather, order>> /\ status' = [status EXCEPT ![r] = "PENDING"]
        /\ \A q \in Refund : status[q] \in {"NONE", "FAILED"}
    BY <1>1 DEF AdmitStaleRefund, StaleRefundExists, Admit, Mark
  <2>2. \A q \in Live' : q = r
    BY <2>1 DEF Live, TypeInv, TypeOK
  <2> QED
    BY <2>1, <2>2 DEF StaleIsAlone
<1>2. ASSUME NEW r \in Refund, NEW a, RequestRefund(r, a) PROVE StaleIsAlone'
  BY <1>2 DEF RequestRefund, Admit, StaleIsAlone
<1>3. CASE /\ order = "NONE" => order' = "NONE"
           /\ UNCHANGED weather
           /\ ~weather.overlap => Live' \subseteq Live
  BY <1>3 DEF StaleIsAlone
<1> QED
  BY <1>1, <1>2, <1>3, RowMoves

LEMMA StaleInit == Init => StaleIsAlone
BY DEF Init, StaleIsAlone, Live

LEMMA SingleOpen ==
    ASSUME OpenInv, StaleIsAlone, Undisturbed
    PROVE  \A r, q \in Refund :
             status[r] \in OpenStatuses /\ status[q] \in OpenStatuses => r = q
<1>1. CASE ~weather.evidence
  BY <1>1 DEF OpenInv, Open
<1>2. CASE weather.evidence
  BY <1>2 DEF Undisturbed, StaleIsAlone, Live, OpenStatuses
<1> QED
  BY <1>1, <1>2

-----------------------------------------------------------------------------
(* A total that says a refund is absent is to be believed.                 *)

InHand(r) == provider[r] \in {"pending", "processed"}
TotalCovers ==
    Undisturbed => \A w \in Workers :
        /\ job[w] # NoJob /\ job[w].step = "apply" /\ job[w].got = "total"
        /\ InHand(job[w].c.r)
        => SettledIn(status) + amount[job[w].c.r] <= job[w].total

LEMMA ExpectedOpen == \A c : Expected(c) \subseteq OpenStatuses
BY DEF Expected, OpenStatuses

(* The total read of the provider covers what is settled and the refund    *)
(* that is asked about, when the provider has it.                          *)
LEMMA TotalRead ==
    ASSUME TypeInv, TruthInv, NEW r \in Refund, status[r] # "PROCESSED", InHand(r)
    PROVE  SettledIn(status) + amount[r] <= ProviderTotal
<1>1. /\ Settled \in SUBSET Refund /\ AtProvider \in SUBSET Refund
      /\ Settled \cup {r} \subseteq AtProvider /\ r \notin Settled
      /\ \A q \in Refund : amount[q] \in Nat
  BY RefundsAssumption
     DEF Settled, AtProvider, InHand, TruthInv, ProcessedIsTrue, TypeInv, TypeOK
<1>2. IsFiniteSet(Settled) /\ IsFiniteSet(AtProvider)
  BY <1>1, RefundsFinite
<1>3. outside \in Nat
  BY RefundsAssumption DEF TypeInv, TypeOK
<1> HIDE DEF Settled, AtProvider
<1>4. Sum(amount, Settled \cup {r}) = amount[r] + Sum(amount, Settled)
  BY <1>1, <1>2, SumAdd
<1>5. Sum(amount, Settled \cup {r}) <= Sum(amount, AtProvider)
  BY <1>1, <1>2, SumPart
<1>6. Sum(amount, Settled) \in Nat /\ Sum(amount, AtProvider) \in Nat /\ amount[r] \in Nat
  BY <1>1, SumsAreNat DEF TypeInv
<1> QED
  BY <1>3, <1>4, <1>5, <1>6, Ledger

(* A processed refund stays processed.                                     *)
LEMMA SettledIsFinal ==
    ASSUME TypeInv, [Next]_vars, NEW r \in Refund, status[r] = "PROCESSED"
    PROVE  status'[r] = "PROCESSED"
<1>1. CASE UNCHANGED status
  BY <1>1
<1>2. ASSUME NEW q \in Refund, NEW s, status[q] # "PROCESSED" \/ s = "PROCESSED",
             status' = [status EXCEPT ![q] = s]
      PROVE  status'[r] = "PROCESSED"
  BY <1>2 DEF TypeInv, TypeOK
<1>3. ASSUME NEW q \in Refund, NEW a, Admit(q, a) PROVE status'[r] = "PROCESSED"
  BY <1>2, <1>3 DEF Admit, Mark, NextRefund
<1>4. ASSUME NEW w \in Workers, NEW c \in Command, TakeExecute(w, c) \/ TakeRound(w, c)
      PROVE  status'[r] = "PROCESSED"
  <2>1. c.r \in Refund
    BY DEF Command
  <2>2. CASE ResumeConsumed(w, c)
    BY <1>1, <1>2, <2>1, <2>2, ResumeCases DEF ResumeRules, Rules, Settle
  <2> QED
    BY <1>1, <1>4, <2>2 DEF TakeExecute, TakeRound, ConsumeGrant, RefuseGrant, rows
<1>5. ASSUME NEW w \in Workers, Record(w) \/ Apply(w)
      PROVE  status'[r] = "PROCESSED"
  <2> DEFINE p == job[w].c.r
  <2>1. p \in Refund
    BY <1>5 DEF Record, Apply, TypeInv, TypeOK, Job, Command
  <2>2. CASE UNCHANGED status
    BY <1>1, <2>2
  <2>3. CASE \E s : status[p] # "PROCESSED" /\ status' = [status EXCEPT ![p] = s]
    BY <1>2, <2>1, <2>3
  <2>4. (\E q : RecordRules(w, p, q)) \/ (\E q : ApplyRules(w, p, q))
    BY <1>5, RecordCases, ApplyCases DEF TypeInv
  <2> QED
    BY <2>2, <2>3, <2>4
       DEF RecordRules, ApplyRules, Rules, Settle, Reconcilable, Escalatable
<1>6. ASSUME NEW w \in Workers, Send(w) \/ Fetch(w) \/ Crash(w) \/ LoseLease(w)
      PROVE  UNCHANGED status
  BY <1>6 DEF Send, Fetch, Crash, LoseLease, rows
<1>7. CASE \/ \E q \in Refund : ProviderSettles(q) \/ LateLand(q)
           \/ \E a \in 1 .. Captured : RefundOutside(a)
  BY <1>1, <1>7 DEF ProviderSettles, LateLand, RefundOutside, rows
<1>8. CASE \/ CaptureReported \/ PaymentRound
           \/ WithholdStaleRefund \/ UNCHANGED vars \/ \E q \in Refund : ExpireGrant(q)
  BY <1>1, <1>8 DEF CaptureReported, PaymentRound, WithholdStaleRefund, vars, ExpireGrant, rows
<1> QED
  BY <1>1, <1>3, <1>4, <1>5, <1>6, <1>7, <1>8, StepCases DEF RequestRefund, AdmitStaleRefund

(* Settled refunds stay as they are while a worker is at an open one.      *)
LEMMA SettledStays ==
    ASSUME SendInv, TypeInv, CommandInv, OpenInv, StaleIsAlone, Undisturbed, [Next]_vars,
           NEW w \in Workers, job[w] # NoJob, job'[w] # NoJob, job'[w].c = job[w].c,
           job[w].got # "processed"
    PROVE  SettledIn(status)' = SettledIn(status) /\ amount'[job[w].c.r] = amount[job[w].c.r]
<1> DEFINE r == job[w].c.r
<1>1. ~weather.overlap /\ r \in Refund
  BY DEF Undisturbed, TypeInv, TypeOK, Job, Command
<1>2. status[r] \in OpenStatuses
  BY <1>1, JobExpected, ExpectedOpen
<1>3. ASSUME NEW q \in Refund, NEW a, Admit(q, a)
      PROVE  /\ Settled' = Settled /\ \A p \in Settled : amount'[p] = amount[p]
             /\ amount'[r] = amount[r]
  <2>1. /\ status[q] = "NONE" /\ status' = [status EXCEPT ![q] = "PENDING"]
        /\ amount' = [amount EXCEPT ![q] = a]
    BY <1>3 DEF Admit, Mark, NextRefund
  <2>2. r # q
    BY <1>2, <2>1 DEF OpenStatuses
  <2> QED
    BY <1>1, <2>1, <2>2 DEF Settled, TypeInv, TypeOK
<1>4. ASSUME UNCHANGED amount
      PROVE  /\ Settled' = Settled /\ \A p \in Settled : amount'[p] = amount[p]
             /\ amount'[r] = amount[r]
  <2>1. \A q \in Settled : status'[q] = "PROCESSED"
    <3> SUFFICES ASSUME NEW q \in Settled PROVE status'[q] = "PROCESSED"
      OBVIOUS
    <3>1. q \in Refund /\ status[q] = "PROCESSED"
      BY DEF Settled
    <3> QED
      BY <3>1, SettledIsFinal
  <2>2. \A q \in Refund : status'[q] = "PROCESSED" => q \in Settled
    <3> SUFFICES ASSUME NEW q \in Refund, status'[q] = "PROCESSED", status[q] # "PROCESSED"
                 PROVE  FALSE
      BY DEF Settled
    <3>1. PICK v \in Workers : job[v] # NoJob /\ job[v].got = "processed" /\ job[v].c.r = q
      BY ProcessedByAnswer
    <3>2. status[q] \in OpenStatuses
      BY <1>1, <3>1, JobExpected, ExpectedOpen
    <3>3. q = r
      BY <1>1, <1>2, <3>2, SingleOpen
    <3>4. v = w
      BY <1>1, <3>1, <3>3, OneWorker
    <3> QED
      BY <3>1, <3>4
  <2> QED
    BY <1>4, <2>1, <2>2 DEF Settled
<1>5. UNCHANGED amount \/ \E q \in Refund : \E a : Admit(q, a)
  BY RowMoves DEF AdmitStaleRefund, RequestRefund
<1>6. /\ Settled' = Settled /\ \A p \in Settled : amount'[p] = amount[p]
      /\ amount'[r] = amount[r]
  BY <1>3, <1>4, <1>5
<1> QED
  BY <1>6, SettledKept DEF TypeInv

LEMMA TotalStep ==
    ASSUME SendInv, TypeInv, CommandInv, OpenInv, StaleIsAlone, TruthInv, TotalCovers,
           [Next]_vars
    PROVE  TotalCovers'
<1>1. Undisturbed' <=> Undisturbed
  BY RequestsMove DEF Undisturbed
<1> SUFFICES ASSUME Undisturbed, NEW w \in Workers, job'[w] # NoJob,
                    job'[w].step = "apply", job'[w].got = "total",
                    provider'[job'[w].c.r] \in {"pending", "processed"}
             PROVE  SettledIn(status)' + amount'[job'[w].c.r] <= job'[w].total
  BY <1>1 DEF TotalCovers, InHand
<1> DEFINE r == job[w].c.r
<1>2. ~weather.overlap /\ ~weather.late
  BY DEF Undisturbed
<1>3. CASE SameJob(w)
  <2>1. /\ job[w] # NoJob /\ job[w].step = "apply" /\ job[w].got = "total"
        /\ job'[w].c = job[w].c /\ job'[w].total = job[w].total /\ r \in Refund
    BY <1>3 DEF SameJob, TypeInv, TypeOK, Job, Command
  <2>2. SettledIn(status)' = SettledIn(status) /\ amount'[r] = amount[r]
    BY <2>1, SettledStays
  <2>3. wire = {}
    BY <1>2 DEF TruthInv, RefusalIsTrue
  <2>4. ~\E v \in Workers : Send(v) /\ job[v].c.r = r
    <3> SUFFICES ASSUME NEW v \in Workers, Send(v), job[v].c.r = r PROVE FALSE
      OBVIOUS
    <3>1. job[v] # NoJob /\ job[v].step = "send"
      BY DEF Send
    <3>2. v = w
      BY <1>2, <2>1, <3>1, OneWorker
    <3> QED
      BY <2>1, <3>1, <3>2
  <2>5. InHand(r)
    BY <2>1, <2>3, <2>4, ProviderMoves DEF InHand
  <2> QED
    BY <2>1, <2>2, <2>5 DEF TotalCovers
<1>4. CASE FetchedJob(w)
  <2>1. /\ job[w] # NoJob /\ job'[w].c = job[w].c /\ job'[w].total = ProviderTotal
        /\ r \in Refund /\ Fetch(w)
    BY <1>4 DEF FetchedJob, TypeInv, TypeOK, Job, Command
  <2>2. UNCHANGED <<status, amount, provider>>
    BY <2>1 DEF Fetch, rows, world
  <2>3. status[r] # "PROCESSED"
    BY <1>2, <2>1, JobExpected DEF Expected
  <2>4. InHand(r)
    BY <2>1, <2>2 DEF InHand
  <2>5. SettledIn(status) + amount[r] <= ProviderTotal
    BY <2>1, <2>3, <2>4, TotalRead
  <2>6. SettledIn(status)' = SettledIn(status)
    BY <2>2, SettledKept DEF Settled, TypeInv
  <2> QED
    BY <2>1, <2>2, <2>5, <2>6
<1> QED
  BY <1>3, <1>4, JobMoves DEF StartedJob, SentJob

LEMMA TotalInit == Init => TotalCovers
BY DEF Init, TotalCovers

(* Which rows may end failed.                                              *)
LEMMA FailedByAnswer ==
    ASSUME TypeInv, [Next]_vars, NEW r \in Refund, status'[r] = "FAILED"
    PROVE  \/ status[r] = "FAILED"
           \/ /\ UNCHANGED provider
              /\ \E w \in Workers :
                    /\ job[w] # NoJob /\ job[w].c.r = r
                    /\ \/ job[w].step = "record" /\ job[w].got = "failed"
                       \/ /\ job[w].step = "apply" /\ job[w].got = "total"
                          /\ job[w].total <= SettledIn(status)
<1>1. CASE UNCHANGED status
  BY <1>1
<1>2. ASSUME NEW q \in Refund, NEW s, s # "FAILED", status' = [status EXCEPT ![q] = s]
      PROVE  status[r] = "FAILED"
  BY <1>2 DEF TypeInv, TypeOK
<1>3. ASSUME NEW q \in Refund, NEW a, Admit(q, a) PROVE status[r] = "FAILED"
  BY <1>2, <1>3 DEF Admit, Mark
<1>4. ASSUME NEW w \in Workers, NEW c \in Command, TakeExecute(w, c) \/ TakeRound(w, c)
      PROVE  status[r] = "FAILED"
  <2>1. c.r \in Refund
    BY DEF Command
  <2>2. CASE ResumeConsumed(w, c)
    BY <1>1, <1>2, <2>1, <2>2, ResumeCases DEF ResumeRules, Rules, Settle
  <2> QED
    BY <1>1, <1>4, <2>2 DEF TakeExecute, TakeRound, ConsumeGrant, RefuseGrant, rows
<1>5. ASSUME NEW w \in Workers, Record(w) \/ Apply(w), status[r] # "FAILED"
      PROVE  /\ job[w] # NoJob /\ job[w].c.r = r /\ UNCHANGED provider
             /\ \/ job[w].step = "record" /\ job[w].got = "failed"
                \/ /\ job[w].step = "apply" /\ job[w].got = "total"
                   /\ job[w].total <= SettledIn(status)
  <2> DEFINE p == job[w].c.r
  <2>1. /\ job[w] # NoJob /\ p \in Refund /\ UNCHANGED provider
        /\ job[w].step = "record" <=> Record(w)
        /\ job[w].step = "apply" <=> Apply(w)
    BY <1>5, RecordCases, ApplyCases DEF Record, Apply, TypeInv, TypeOK, Job, Command
  <2>2. ~\E s : s # "FAILED" /\ status' = [status EXCEPT ![p] = s]
    BY <1>2, <1>5, <2>1
  <2>3. status' # status
    BY <1>5
  <2>4. status' = [status EXCEPT ![p] = "FAILED"] => p = r
    BY <1>5, <2>1 DEF TypeInv, TypeOK
  <2>5. CASE Record(w)
    <3>1. \E q : RecordRules(w, p, q)
      BY <2>5, RecordCases
    <3> QED
      BY <2>1, <2>2, <2>3, <2>4, <2>5, <3>1 DEF RecordRules, Rules, Settle
  <2>6. CASE Apply(w)
    <3>1. \E q : ApplyRules(w, p, q)
      BY <2>6, ApplyCases DEF TypeInv
    <3> QED
      BY <2>1, <2>2, <2>3, <2>4, <2>6, <3>1 DEF ApplyRules, Rules, Settle
  <2> QED
    BY <1>5, <2>5, <2>6
<1>6. ASSUME NEW w \in Workers, Send(w) \/ Fetch(w) \/ Crash(w) \/ LoseLease(w)
      PROVE  UNCHANGED status
  BY <1>6 DEF Send, Fetch, Crash, LoseLease, rows
<1>7. CASE \/ \E q \in Refund : ProviderSettles(q) \/ LateLand(q)
           \/ \E a \in 1 .. Captured : RefundOutside(a)
  BY <1>1, <1>7 DEF ProviderSettles, LateLand, RefundOutside, rows
<1>8. CASE \/ CaptureReported \/ PaymentRound
           \/ WithholdStaleRefund \/ UNCHANGED vars \/ \E q \in Refund : ExpireGrant(q)
  BY <1>1, <1>8 DEF CaptureReported, PaymentRound, WithholdStaleRefund, vars, ExpireGrant, rows
<1> QED
  BY <1>1, <1>3, <1>4, <1>5, <1>6, <1>7, <1>8, StepCases DEF RequestRefund, AdmitStaleRefund

LEMMA AbsenceStep ==
    ASSUME SendInv, TypeInv, BooksInv, CommandInv, TruthInv, TotalCovers, AbsenceIsTrue,
           [Next]_vars
    PROVE  AbsenceIsTrue'
<1>1. Undisturbed' <=> Undisturbed
  BY RequestsMove DEF Undisturbed
<1> SUFFICES ASSUME Undisturbed, NEW r \in Refund, status'[r] = "FAILED"
             PROVE  provider'[r] \in {"absent", "failed"}
  BY <1>1 DEF AbsenceIsTrue
<1>2. ~weather.overlap /\ ~weather.late
  BY DEF Undisturbed
<1>3. CASE status[r] = "FAILED"
  <2>1. wire = {}
    BY <1>2 DEF TruthInv, RefusalIsTrue
  <2>2. ~\E v \in Workers : Send(v) /\ job[v].c.r = r
    <3> SUFFICES ASSUME NEW v \in Workers, Send(v), job[v].c.r = r PROVE FALSE
      OBVIOUS
    <3>1. job[v] # NoJob
      BY DEF Send
    <3>2. status[r] \in Expected(job[v].c)
      BY <1>2, <3>1, JobExpected
    <3> QED
      BY <1>3, <3>2 DEF Expected
  <2>3. provider[r] \in {"absent", "failed"}
    BY <1>3 DEF AbsenceIsTrue
  <2> QED
    BY <2>1, <2>2, <2>3, ProviderMoves
<1>4. CASE status[r] # "FAILED"
  <2>1. UNCHANGED provider
    BY <1>4, FailedByAnswer
  <2>2. PICK w \in Workers :
          /\ job[w] # NoJob /\ job[w].c.r = r
          /\ \/ job[w].step = "record" /\ job[w].got = "failed"
             \/ /\ job[w].step = "apply" /\ job[w].got = "total"
                /\ job[w].total <= SettledIn(status)
    BY <1>4, FailedByAnswer
  <2>3. CASE job[w].step = "record" /\ job[w].got = "failed"
    BY <1>2, <2>1, <2>2, <2>3 DEF TruthInv, RefusalIsTrue
  <2>4. CASE /\ job[w].step = "apply" /\ job[w].got = "total"
             /\ job[w].total <= SettledIn(status)
    <3>1. status[r] # "NONE"
      BY <1>2, <2>2, JobExpected DEF Expected
    <3>2. amount[r] >= 1
      BY <3>1 DEF BooksInv, AdmittedForMoney
    <3>3. InHand(r) => SettledIn(status) + amount[r] <= job[w].total
      BY <2>2, <2>4 DEF TotalCovers
    <3>4. amount[r] \in Nat /\ SettledIn(status) \in Nat /\ job[w].total \in Nat
      BY <2>2, LedgerIsNat, RefundsAssumption DEF TypeInv, TypeOK, Job
    <3>5. ~InHand(r)
      BY <2>4, <3>2, <3>3, <3>4
    <3>6. provider[r] \in ProviderStatus
      BY DEF TypeInv, TypeOK
    <3> QED
      BY <2>1, <3>5, <3>6 DEF InHand, ProviderStatus
  <2> QED
    BY <2>2, <2>3, <2>4
<1> QED
  BY <1>3, <1>4

LEMMA AbsenceInit == Init => AbsenceIsTrue
BY DEF Init, AbsenceIsTrue

AbsenceInv ==
    /\ LedgerInv /\ OpenInv /\ TruthInv /\ StaleIsAlone /\ TotalCovers
    /\ AbsenceIsTrue

LEMMA AbsenceInvInit == Init => AbsenceInv
BY LedgerInit, OpenInit, TruthInit, StaleInit, TotalInit, AbsenceInit DEF AbsenceInv

LEMMA AbsenceInvStep == AbsenceInv /\ [Next]_vars => AbsenceInv'
BY LedgerStep, OpenStep, TruthStep, StaleStep, TotalStep, AbsenceStep
   DEF AbsenceInv, LedgerInv

(* A refund marked failed is one the provider does not have: a refusal says*)
(* so, and a refunded total no higher than what is settled says so too, for*)
(* it was read while nothing but this refund was open (_resolve_refund     *)
(* compares amount_refunded_minor with settled_minor).                     *)
THEOREM AbsenceIsProved == Spec => []AbsenceIsTrue
<1>1. AbsenceInv => AbsenceIsTrue
  BY DEF AbsenceInv
<1> QED
  BY <1>1, AbsenceInvInit, AbsenceInvStep, PTL DEF Spec

-----------------------------------------------------------------------------
(* In calm weather every open refund is pursued, and the books agree.      *)

(* A refund the provider named is asked about by its name only.            *)
AsksByName(w) ==
    LET j == job[w] IN
    /\ j.step = "look_up" \/ (j.step = "apply" /\ j.got = "pending") => named[j.c.r]
    /\ j.step = "fetch" \/ (j.step = "apply" /\ j.got = "total") => ~named[j.c.r]
KnownByName ==
    ~weather.overlap =>
        /\ \A r \in Refund : status[r] = "RECONCILING" => named[r]
        /\ \A w \in Workers : job[w] # NoJob => AsksByName(w)

(* An open refund has a command outstanding, whose grant has not expired;  *)
(* an unresolved one finds its attempt as it left it.                      *)
OpenIsPursued ==
    Calm => \A r \in Refund :
        /\ grant[r] # "EXPIRED"
        /\ status[r] \in OpenStatuses => \E c \in Command : c.r = r /\ queue[c] > 0
        /\ status[r] \in {"UNKNOWN", "RECONCILING"} =>
              attempt \in {"REFUND_UNKNOWN", "RECONCILING"}

(* The provider knows of no refund that was not asked of it.               *)
KnownIsSent ==
    ~weather.late => \A r \in Refund : provider[r] # "absent" => sent[r] # 0

LEMMA NameMoves ==
    ASSUME TypeInv, [Next]_vars
    PROVE  \/ UNCHANGED named
           \/ \E w \in Workers :
                /\ job[w] # NoJob /\ job[w].step = "record"
                /\ status[job[w].c.r] = "PENDING" \/ (named[job[w].c.r] => named'[job[w].c.r])
                /\ \A q \in Refund : q # job[w].c.r => named'[q] = named[q]
<1>1. ASSUME NEW r \in Refund, NEW a, Admit(r, a) PROVE UNCHANGED named
  BY <1>1 DEF Admit
<1>2. ASSUME NEW w \in Workers, NEW c \in Command, TakeExecute(w, c) \/ TakeRound(w, c)
      PROVE  UNCHANGED named
  BY <1>2 DEF TakeExecute, TakeRound, ConsumeGrant, RefuseGrant, ResumeConsumed, rows
<1>3. ASSUME NEW w \in Workers, Record(w)
      PROVE  \/ UNCHANGED named
             \/ /\ job[w] # NoJob /\ job[w].step = "record"
                /\ status[job[w].c.r] = "PENDING" \/ (named[job[w].c.r] => named'[job[w].c.r])
                /\ \A q \in Refund : q # job[w].c.r => named'[q] = named[q]
  <2>1. PICK b \in BOOLEAN :
          /\ named' = [named EXCEPT ![job[w].c.r] = b]
          /\ status[job[w].c.r] # "PENDING" /\ named[job[w].c.r] => b
    BY <1>3, RecordCases
  <2>2. named \in [Refund -> BOOLEAN] /\ job[w].c.r \in Refund
    BY <1>3 DEF Record, TypeInv, TypeOK, Job, Command
  <2>3. named'[job[w].c.r] = b /\ \A q \in Refund : q # job[w].c.r => named'[q] = named[q]
    BY <2>1, <2>2
  <2> QED
    BY <1>3, <2>1, <2>3 DEF Record
<1>4. ASSUME NEW w \in Workers, Send(w) \/ Fetch(w) \/ Apply(w) \/ Crash(w) \/ LoseLease(w)
      PROVE  UNCHANGED named
  BY <1>4 DEF Send, Fetch, Apply, Crash, LoseLease, rows
<1>5. CASE \/ \E q \in Refund : ProviderSettles(q) \/ LateLand(q)
           \/ \E a \in 1 .. Captured : RefundOutside(a)
  BY <1>5 DEF ProviderSettles, LateLand, RefundOutside, rows
<1>6. CASE \/ CaptureReported \/ PaymentRound
           \/ WithholdStaleRefund \/ UNCHANGED vars \/ \E q \in Refund : ExpireGrant(q)
  BY <1>6 DEF CaptureReported, PaymentRound, WithholdStaleRefund, vars, ExpireGrant, rows
<1> QED
  BY <1>1, <1>2, <1>3, <1>4, <1>5, <1>6, StepCases DEF RequestRefund, AdmitStaleRefund

(* Which rows may end under reconciliation.                                *)
LEMMA AskedByName ==
    ASSUME TypeInv, [Next]_vars, NEW r \in Refund, status'[r] = "RECONCILING"
    PROVE  \/ status[r] = "RECONCILING"
           \/ /\ UNCHANGED named
              /\ \E w \in Workers : /\ job[w] # NoJob /\ job[w].step = "apply"
                                    /\ job[w].got = "pending" /\ job[w].c.r = r
<1>1. CASE UNCHANGED status
  BY <1>1
<1>2. ASSUME NEW q \in Refund, NEW s, s # "RECONCILING", status' = [status EXCEPT ![q] = s]
      PROVE  status[r] = "RECONCILING"
  BY <1>2 DEF TypeInv, TypeOK
<1>3. ASSUME NEW q \in Refund, NEW a, Admit(q, a) PROVE status[r] = "RECONCILING"
  BY <1>2, <1>3 DEF Admit, Mark
<1>4. ASSUME NEW w \in Workers, NEW c \in Command, TakeExecute(w, c) \/ TakeRound(w, c)
      PROVE  status[r] = "RECONCILING"
  <2>1. c.r \in Refund
    BY DEF Command
  <2>2. CASE ResumeConsumed(w, c)
    BY <1>1, <1>2, <2>1, <2>2, ResumeCases DEF ResumeRules, Rules, Settle
  <2> QED
    BY <1>1, <1>4, <2>2 DEF TakeExecute, TakeRound, ConsumeGrant, RefuseGrant, rows
<1>5. ASSUME NEW w \in Workers, Record(w) PROVE status[r] = "RECONCILING"
  <2> DEFINE p == job[w].c.r
  <2>1. p \in Refund
    BY <1>5 DEF Record, TypeInv, TypeOK, Job, Command
  <2>2. \E q : RecordRules(w, p, q)
    BY <1>5, RecordCases
  <2>3. CASE \E s : s # "RECONCILING" /\ status' = [status EXCEPT ![p] = s]
    BY <1>2, <2>1, <2>3
  <2>4. CASE UNCHANGED status
    BY <1>1, <2>4
  <2> QED
    BY <2>2, <2>3, <2>4 DEF RecordRules, Rules, Settle
<1>6. ASSUME NEW w \in Workers, Apply(w), status[r] # "RECONCILING"
      PROVE  /\ UNCHANGED named
             /\ job[w] # NoJob /\ job[w].step = "apply"
             /\ job[w].got = "pending" /\ job[w].c.r = r
  <2> DEFINE p == job[w].c.r
  <2>1. p \in Refund /\ UNCHANGED named /\ job[w] # NoJob /\ job[w].step = "apply"
    BY <1>6 DEF Apply, TypeInv, TypeOK, Job, Command
  <2>2. ~\E s : s # "RECONCILING" /\ status' = [status EXCEPT ![p] = s]
    BY <1>2, <1>6, <2>1
  <2>3. status' # status
    BY <1>6
  <2>4. status' = [status EXCEPT ![p] = "RECONCILING"] => p = r
    BY <1>6, <2>1 DEF TypeInv, TypeOK
  <2>5. \E q : ApplyRules(w, p, q)
    BY <1>6, ApplyCases DEF TypeInv
  <2> QED
    BY <2>1, <2>2, <2>3, <2>4, <2>5 DEF ApplyRules, Rules, Settle
<1>7. ASSUME NEW w \in Workers, Send(w) \/ Fetch(w) \/ Crash(w) \/ LoseLease(w)
      PROVE  UNCHANGED status
  BY <1>7 DEF Send, Fetch, Crash, LoseLease, rows
<1>8. CASE \/ \E q \in Refund : ProviderSettles(q) \/ LateLand(q)
           \/ \E a \in 1 .. Captured : RefundOutside(a)
  BY <1>1, <1>8 DEF ProviderSettles, LateLand, RefundOutside, rows
<1>9. CASE \/ CaptureReported \/ PaymentRound
           \/ WithholdStaleRefund \/ UNCHANGED vars \/ \E q \in Refund : ExpireGrant(q)
  BY <1>1, <1>9 DEF CaptureReported, PaymentRound, WithholdStaleRefund, vars, ExpireGrant, rows
<1> QED
  BY <1>1, <1>3, <1>4, <1>5, <1>6, <1>7, <1>8, <1>9, StepCases
     DEF RequestRefund, AdmitStaleRefund

LEMMA NameStep ==
    ASSUME SendInv, TypeInv, CommandInv, KnownByName, [Next]_vars
    PROVE  KnownByName'
<1> SUFFICES ASSUME ~weather.overlap
             PROVE  /\ \A r \in Refund : status'[r] = "RECONCILING" => named'[r]
                    /\ \A w \in Workers : job'[w] # NoJob => AsksByName(w)'
  BY RequestsMove DEF KnownByName
<1>0. \A r \in Refund : status[r] = "RECONCILING" => named[r]
  BY DEF KnownByName
<1>1. ASSUME NEW r \in Refund, status'[r] = "RECONCILING" PROVE named'[r]
  <2>1. CASE status[r] = "RECONCILING"
    BY <1>0, <2>1, NameMoves
  <2>2. CASE status[r] # "RECONCILING"
    <3>1. PICK w \in Workers : /\ job[w] # NoJob /\ job[w].step = "apply"
                               /\ job[w].got = "pending" /\ job[w].c.r = r
      BY <1>1, <2>2, AskedByName
    <3>2. named[r]
      BY <3>1 DEF KnownByName, AsksByName
    <3> QED
      BY <1>1, <2>2, <3>2, AskedByName
  <2> QED
    BY <2>1, <2>2
<1>2. ASSUME NEW w \in Workers, job'[w] # NoJob PROVE AsksByName(w)'
  <2> DEFINE r == job[w].c.r
  <2>1. CASE SameJob(w) /\ job[w].step # "record"
    <3>1. /\ job[w] # NoJob /\ job'[w].step = job[w].step /\ job'[w].got = job[w].got
          /\ job'[w].c = job[w].c /\ r \in Refund
      BY <2>1 DEF SameJob, TypeInv, TypeOK, Job, Command
    <3>2. named'[r] = named[r]
      <4> SUFFICES ASSUME NEW v \in Workers, job[v] # NoJob, job[v].step = "record",
                          job[v].c.r = r
                   PROVE  FALSE
        BY <3>1, NameMoves
      <4>1. v = w
        BY <3>1, OneWorker
      <4> QED
        BY <2>1, <4>1
    <3>3. AsksByName(w)
      BY <3>1 DEF KnownByName
    <3> QED
      BY <3>1, <3>2, <3>3 DEF AsksByName
  <2>2. CASE SameJob(w) /\ job[w].step = "record"
    BY <2>2 DEF SameJob, AsksByName
  <2>3. CASE StartedJob(w)
    BY <2>3 DEF StartedJob, AsksByName
  <2>4. CASE SentJob(w)
    BY <2>4 DEF SentJob, AsksByName
  <2>5. CASE FetchedJob(w)
    <3>1. UNCHANGED named
      BY <2>5 DEF FetchedJob, Fetch, rows
    <3>2. /\ job[w] # NoJob /\ job'[w].c = job[w].c /\ job'[w].step = "apply"
          /\ job'[w].got = "pending" => job[w].step = "look_up"
          /\ job'[w].got = "total" => job[w].step = "fetch"
      BY <2>5 DEF FetchedJob
    <3>3. AsksByName(w)
      BY <3>2 DEF KnownByName
    <3> QED
      BY <3>1, <3>2, <3>3 DEF AsksByName
  <2> QED
    BY <1>2, <2>1, <2>2, <2>3, <2>4, <2>5, JobMoves
<1> QED
  BY <1>1, <1>2

LEMMA NameInit == Init => KnownByName
BY DEF Init, KnownByName

LEMMA KnownStep ==
    ASSUME TypeInv, TruthInv, KnownIsSent, [Next]_vars
    PROVE  KnownIsSent'
<1> SUFFICES ASSUME ~weather.late, NEW r \in Refund, provider'[r] # "absent"
             PROVE  sent'[r] # 0
  BY RequestsMove DEF KnownIsSent
<1>1. wire = {}
  BY DEF TruthInv, RefusalIsTrue
<1>2. CASE provider[r] # "absent"
  BY <1>2, RequestsMove DEF KnownIsSent
<1>3. CASE provider[r] = "absent"
  <2>1. PICK w \in Workers : Send(w) /\ job[w].c.r = r
    BY <1>1, <1>3, ProviderMoves
  <2>2. sent' = [sent EXCEPT ![r] = @ + 1] /\ sent \in [Refund -> Nat]
    BY <2>1 DEF Send, TypeInv, TypeOK
  <2> QED
    BY <2>2
<1> QED
  BY <1>2, <1>3

LEMMA KnownInit == Init => KnownIsSent
BY DEF Init, KnownIsSent

(* A transaction about one open refund leaves nothing else undone.         *)
LEMMA PursuedRow ==
    ASSUME Calm, OpenInv, OpenIsPursued, UNCHANGED <<weather, grant>>,
           NEW p \in Refund, status[p] \in OpenStatuses,
           \A r \in Refund : r # p => status'[r] = status[r],
           \A d \in Command : d.r # p => queue'[d] = queue[d],
           status'[p] \in OpenStatuses => \E c \in Command : c.r = p /\ queue'[c] > 0,
           status'[p] \in {"UNKNOWN", "RECONCILING"} =>
              attempt' \in {"REFUND_UNKNOWN", "RECONCILING"}
    PROVE  OpenIsPursued'
<1> SUFFICES ASSUME NEW r \in Refund
             PROVE  /\ grant'[r] # "EXPIRED"
                    /\ status'[r] \in OpenStatuses => \E c \in Command : c.r = r /\ queue'[c] > 0
                    /\ status'[r] \in {"UNKNOWN", "RECONCILING"} =>
                          attempt' \in {"REFUND_UNKNOWN", "RECONCILING"}
  BY DEF OpenIsPursued, Calm
<1>1. grant'[r] # "EXPIRED"
  BY DEF OpenIsPursued
<1>2. CASE r = p
  BY <1>1, <1>2
<1>3. CASE r # p
  <2>1. status[r] \notin OpenStatuses
    BY <1>3 DEF OpenInv, Open, Calm
  <2> QED
    BY <1>1, <1>3, <2>1 DEF OpenStatuses
<1> QED
  BY <1>2, <1>3

LEMMA PursuedQuiet ==
    ASSUME OpenIsPursued, UNCHANGED <<weather, status, queue, attempt>>,
           Calm => \A r \in Refund : grant'[r] # "EXPIRED"
    PROVE  OpenIsPursued'
BY DEF OpenIsPursued, Calm

LEMMA PursuedAdmit ==
    ASSUME TypeInv, OpenInv, OpenIsPursued, NEW p \in Refund, NEW a, Admit(p, a)
    PROVE  OpenIsPursued'
<1>1. /\ PaymentEdge(attempt, "REFUND_PENDING") /\ UNCHANGED weather
      /\ status' = [status EXCEPT ![p] = "PENDING"]
      /\ grant' = [grant EXCEPT ![p] = "ISSUED"]
      /\ queue' = Enqueue(p, 0)
  BY DEF Admit, Admissible, Mark
<1>2. /\ About(p, 0) \in Command /\ About(p, 0).r = p
      /\ \A d \in Command : queue'[d] = IF d = About(p, 0) THEN queue[d] + 1 ELSE queue[d]
  <2>1. 0 \in 0 .. Rounds
    BY RefundsAssumption
  <2> QED
    BY <1>1, <2>1, EnqueueAdds DEF TypeInv
<1>3. queue'[About(p, 0)] > 0
  BY <1>2 DEF TypeInv, TypeOK
<1> SUFFICES ASSUME Calm, NEW r \in Refund
             PROVE  /\ grant'[r] # "EXPIRED"
                    /\ status'[r] \in OpenStatuses => \E c \in Command : c.r = r /\ queue'[c] > 0
                    /\ status'[r] \in {"UNKNOWN", "RECONCILING"} =>
                          attempt' \in {"REFUND_UNKNOWN", "RECONCILING"}
  BY <1>1 DEF OpenIsPursued, Calm
<1>4. status[r] \notin OpenStatuses
  BY <1>1 DEF OpenInv, Open, Calm
<1>5. grant'[r] # "EXPIRED"
  BY <1>1 DEF OpenIsPursued, TypeInv, TypeOK
<1>6. status'[r] \in OpenStatuses => r = p /\ status'[r] = "PENDING"
  BY <1>1, <1>4 DEF TypeInv, TypeOK
<1> QED
  BY <1>2, <1>3, <1>5, <1>6 DEF OpenStatuses

(* The next round of a refund is queued as this one is done.               *)
LEMMA NextRound ==
    ASSUME TypeInv, NEW c \in Command, NEW n \in 0 .. Rounds, n # c.round,
           queue' = [Enqueue(c.r, n) EXCEPT ![c] = @ - 1]
    PROVE  /\ \E d \in Command : d.r = c.r /\ queue'[d] > 0
           /\ \A d \in Command : d.r # c.r => queue'[d] = queue[d]
<1> DEFINE next == About(c.r, n)
<1>1. c.r \in Refund
  BY DEF Command
<1>2. /\ next \in Command /\ next.r = c.r /\ next.round = n
      /\ Enqueue(c.r, n) \in [Command -> Nat]
      /\ \A d \in Command : Enqueue(c.r, n)[d] = IF d = next THEN queue[d] + 1 ELSE queue[d]
  BY <1>1, EnqueueAdds DEF TypeInv
<1>3. next # c
  BY <1>2
<1> HIDE DEF next
<1>4. queue[next] \in Nat
  BY <1>2 DEF TypeInv, TypeOK
<1>5. queue'[next] = queue[next] + 1
  BY <1>2, <1>3
<1>6. \A d \in Command : d.r # c.r => queue'[d] = queue[d]
  BY <1>2
<1>7. queue'[next] > 0
  BY <1>4, <1>5
<1> QED
  BY <1>2, <1>6, <1>7

LEMMA PursuedTake ==
    ASSUME TypeInv, CommandInv, OpenInv, OpenIsPursued,
           NEW w \in Workers, NEW c \in Command, TakeExecute(w, c) \/ TakeRound(w, c)
    PROVE  OpenIsPursued'
<1>1. UNCHANGED weather /\ Free(c) /\ c.r \in Refund /\ 1 \in 0 .. Rounds
  BY RefundsAssumption DEF TakeExecute, TakeRound, Command
<1> SUFFICES ASSUME Calm PROVE OpenIsPursued'
  BY <1>1 DEF OpenIsPursued, Calm
<1>2. queue[c] > 0 /\ status[c.r] \in Expected(c)
  BY <1>1, FreeIsQueued DEF CommandInv, Calm
<1>3. CASE ConsumeGrant(w, c)
  <2>1. \A r \in Refund : grant'[r] # "EXPIRED"
    BY <1>1, <1>3 DEF ConsumeGrant, OpenIsPursued, TypeInv, TypeOK
  <2> QED
    BY <1>1, <1>3, <2>1, PursuedQuiet DEF ConsumeGrant
<1>4. CASE RefuseGrant(w, c)
  BY <1>1, <1>4 DEF RefuseGrant, OpenIsPursued
<1>5. CASE c.round = 0 /\ ResumeConsumed(w, c)
  <2>1. status[c.r] = "PENDING"
    BY <1>2, <1>5 DEF Expected
  <2>2. /\ status' = [status EXCEPT ![c.r] = "UNKNOWN"] /\ attempt' = "REFUND_UNKNOWN"
        /\ queue' = [Enqueue(c.r, 1) EXCEPT ![c] = @ - 1] /\ UNCHANGED grant
    BY <1>5, <2>1 DEF ResumeConsumed, Settle, Mark
  <2>3. /\ \E d \in Command : d.r = c.r /\ queue'[d] > 0
        /\ \A d \in Command : d.r # c.r => queue'[d] = queue[d]
    BY <1>1, <1>5, <2>2, NextRound
  <2>4. /\ \A r \in Refund : r # c.r => status'[r] = status[r]
        /\ status'[c.r] = "UNKNOWN" /\ status[c.r] \in OpenStatuses
    BY <1>1, <2>1, <2>2 DEF TypeInv, TypeOK, OpenStatuses
  <2> QED
    BY <1>1, <2>2, <2>3, <2>4, PursuedRow
<1>6. CASE TakeRound(w, c)
  <2>1. status[c.r] \in {"UNKNOWN", "RECONCILING"}
    BY <1>2, <1>6 DEF Expected, TakeRound
  <2>2. UNCHANGED <<weather, status, queue, attempt, grant>>
    BY <1>6, <2>1 DEF TakeRound, rows
  <2> QED
    BY <2>2, PursuedQuiet DEF OpenIsPursued
<1> QED
  BY <1>3, <1>4, <1>5, <1>6 DEF TakeExecute

(* The end of a transaction about an open refund.                          *)
LEMMA PursuedEnds ==
    ASSUME TypeInv, CommandInv, OpenInv, OpenIsPursued, Calm, NEW w \in Workers,
           job[w] # NoJob, UNCHANGED <<weather, grant>>, NEW q, End(w, q),
           \/ q = queue /\ status'[job[w].c.r] \notin OpenStatuses
           \/ \E n \in 1 .. Rounds :
                n # job[w].c.round /\ q = Enqueue(job[w].c.r, n),
           \A r \in Refund : r # job[w].c.r => status'[r] = status[r],
           status'[job[w].c.r] \in OpenStatuses =>
              attempt' \in {"REFUND_UNKNOWN", "RECONCILING"}
    PROVE  OpenIsPursued'
<1> DEFINE c == job[w].c
<1>1. /\ c \in Command /\ c.r \in Refund /\ job[w].held
      /\ status[c.r] \in OpenStatuses
  BY JobExpected, ExpectedOpen DEF Calm, Command
<1>2. queue' = [q EXCEPT ![c] = @ - 1]
  BY <1>1 DEF End, Removed
<1>3. CASE q = queue /\ status'[c.r] \notin OpenStatuses
  <2>1. \A d \in Command : d.r # c.r => queue'[d] = queue[d]
    BY <1>1, <1>2, <1>3 DEF TypeInv, TypeOK
  <2>2. status'[c.r] \notin {"UNKNOWN", "RECONCILING"}
    BY <1>3 DEF OpenStatuses
  <2> QED
    BY <1>1, <1>3, <2>1, <2>2, PursuedRow
<1>4. ASSUME NEW n \in 1 .. Rounds, n # c.round, q = Enqueue(c.r, n)
      PROVE  OpenIsPursued'
  <2>1. n \in 0 .. Rounds
    OBVIOUS
  <2>2. /\ \E d \in Command : d.r = c.r /\ queue'[d] > 0
        /\ \A d \in Command : d.r # c.r => queue'[d] = queue[d]
    BY <1>1, <1>2, <1>4, <2>1, NextRound
  <2>3. status'[c.r] \in {"UNKNOWN", "RECONCILING"} =>
          attempt' \in {"REFUND_UNKNOWN", "RECONCILING"}
    BY DEF OpenStatuses
  <2> QED
    BY <1>1, <2>2, <2>3, PursuedRow
<1> QED
  BY <1>3, <1>4

LEMMA PursuedRecord ==
    ASSUME TypeInv, CommandInv, OpenInv, OpenIsPursued, NEW w \in Workers, Record(w)
    PROVE  OpenIsPursued'
<1> DEFINE r == job[w].c.r
<1>1. /\ job[w] # NoJob /\ r \in Refund /\ job[w].c.round = 0 /\ 1 \in 1 .. Rounds
  BY RefundsAssumption DEF Record, TypeInv, TypeOK, JobsFit, Job, Command
<1>2. UNCHANGED <<weather, grant>>
  BY RecordCases
<1> SUFFICES ASSUME Calm PROVE OpenIsPursued'
  BY <1>2 DEF OpenIsPursued, Calm
<1>3. PICK q : RecordRules(w, r, q) /\ End(w, q)
  BY RecordCases
<1>4. status[r] = "PENDING"
  BY <1>1, JobExpected DEF Expected, Calm
<1>5. \A p \in Refund : p # r => status'[p] = status[p]
  BY <1>3 DEF RecordRules, Rules, Settle, TypeInv, TypeOK
<1>6. \/ q = queue /\ status'[r] \in {"FAILED", "PROCESSED"}
      \/ q = Enqueue(r, 1) /\ status'[r] = "UNKNOWN" /\ attempt' = "REFUND_UNKNOWN"
  BY <1>1, <1>3, <1>4 DEF RecordRules, Rules, Settle, TypeInv, TypeOK
<1>7. /\ \/ q = queue /\ status'[r] \notin OpenStatuses
         \/ \E n \in 1 .. Rounds : n # job[w].c.round /\ q = Enqueue(r, n)
      /\ status'[r] \in OpenStatuses => attempt' \in {"REFUND_UNKNOWN", "RECONCILING"}
  BY <1>1, <1>6 DEF OpenStatuses
<1> QED
  BY <1>1, <1>2, <1>3, <1>5, <1>7, PursuedEnds

(* In calm weather no round is refused by the row it meets.                *)
LEMMA NothingRefused ==
    ASSUME TypeInv, CommandInv, ReservedWithinCapture, OpenIsPursued, KnownByName, Calm,
           NEW w \in Workers, job[w] # NoJob, job[w].step = "apply"
    PROVE  ~Refusable(w, job[w].c.r) /\ Reconcilable(job[w].c.r)
<1> DEFINE r == job[w].c.r
<1>1. job[w].c.round # 0 /\ r \in Refund
  BY DEF TypeInv, TypeOK, JobsFit, Job, Command
<1>2. status[r] \in {"UNKNOWN", "RECONCILING"}
  BY <1>1, JobExpected DEF Expected, Calm
<1>3. Reconcilable(r)
  BY <1>1, <1>2 DEF Reconcilable, OpenIsPursued
<1>4. ~Overdrawn(status)
  BY DEF ReservedWithinCapture, Calm
<1>5. job[w].got = "total" => status[r] = "UNKNOWN"
  BY <1>1, <1>2 DEF KnownByName, AsksByName, Calm
<1> QED
  BY <1>3, <1>4, <1>5 DEF Refusable

LEMMA PursuedApply ==
    ASSUME TypeInv, CommandInv, ReservedWithinCapture, OpenInv, KnownByName,
           OpenIsPursued, NEW w \in Workers, Apply(w)
    PROVE  OpenIsPursued'
<1> DEFINE r == job[w].c.r
           n == job[w].c.round
<1>1. /\ job[w] # NoJob /\ job[w].step = "apply" /\ r \in Refund /\ n \in 0 .. Rounds
  BY DEF Apply, TypeInv, TypeOK, Job, Command
<1>2. UNCHANGED <<weather, grant>>
  BY ApplyCases DEF TypeInv
<1> SUFFICES ASSUME Calm PROVE OpenIsPursued'
  BY <1>2 DEF OpenIsPursued, Calm
<1>3. PICK q : ApplyRules(w, r, q) /\ End(w, q)
  BY ApplyCases DEF TypeInv
<1>4. ~Refusable(w, r) /\ Reconcilable(r)
  BY <1>1, NothingRefused
<1>5. \A p \in Refund : p # r => status'[p] = status[p]
  BY <1>3 DEF ApplyRules, Rules, Settle, TypeInv, TypeOK
<1>6. \/ q = queue /\ status'[r] \in {"FAILED", "PROCESSED", "ESCALATED"}
      \/ /\ n < Rounds /\ q = Enqueue(r, n + 1)
         /\ attempt' \in {attempt, "RECONCILING"}
  BY <1>1, <1>3, <1>4 DEF ApplyRules, Rules, Settle, TypeInv, TypeOK
<1>7. n < Rounds => n + 1 \in 1 .. Rounds /\ n + 1 # n
  BY <1>1, RefundsAssumption
<1>8. /\ \/ q = queue /\ status'[r] \notin OpenStatuses
         \/ \E m \in 1 .. Rounds : m # n /\ q = Enqueue(r, m)
      /\ status'[r] \in OpenStatuses => attempt' \in {"REFUND_UNKNOWN", "RECONCILING"}
  BY <1>4, <1>6, <1>7 DEF OpenStatuses, Reconcilable
<1> QED
  BY <1>1, <1>2, <1>3, <1>5, <1>8, PursuedEnds

LEMMA PursuedStep ==
    ASSUME TypeInv, CommandInv, ReservedWithinCapture, OpenInv, KnownByName,
           OpenIsPursued, [Next]_vars
    PROVE  OpenIsPursued'
<1>1. ASSUME NEW r \in Refund, NEW a, Admit(r, a) PROVE OpenIsPursued'
  BY <1>1, PursuedAdmit
<1>2. ASSUME NEW w \in Workers, NEW c \in Command, TakeExecute(w, c) \/ TakeRound(w, c)
      PROVE  OpenIsPursued'
  BY <1>2, PursuedTake
<1>3. ASSUME NEW w \in Workers, Record(w) \/ Apply(w) PROVE OpenIsPursued'
  BY <1>3, PursuedRecord, PursuedApply
<1>4. CASE UNCHANGED <<weather, status, queue, attempt, grant>>
  BY <1>4, PursuedQuiet DEF OpenIsPursued
<1>5. ASSUME NEW w \in Workers, Send(w) \/ Fetch(w) \/ Crash(w) \/ LoseLease(w)
      PROVE  OpenIsPursued'
  BY <1>4, <1>5 DEF Send, Fetch, Crash, LoseLease, rows
<1>6. CASE \/ \E q \in Refund : ProviderSettles(q) \/ LateLand(q)
           \/ \E a \in 1 .. Captured : RefundOutside(a)
  BY <1>4, <1>6 DEF ProviderSettles, LateLand, RefundOutside, rows
<1>7. CASE CaptureReported \/ PaymentRound \/ \E q \in Refund : ExpireGrant(q)
  BY <1>7 DEF CaptureReported, PaymentRound, ExpireGrant, OpenIsPursued, Calm
<1>8. CASE WithholdStaleRefund \/ UNCHANGED vars
  BY <1>4, <1>8 DEF WithholdStaleRefund, vars, rows
<1> QED
  BY <1>1, <1>2, <1>3, <1>5, <1>6, <1>7, <1>8, StepCases DEF RequestRefund, AdmitStaleRefund

LEMMA PursuedInit == Init => OpenIsPursued
BY DEF Init, OpenIsPursued, OpenStatuses

AgreeInv == AbsenceInv /\ KnownByName /\ OpenIsPursued /\ KnownIsSent

LEMMA AgreeInit == Init => AgreeInv
BY AbsenceInvInit, NameInit, PursuedInit, KnownInit DEF AgreeInv

LEMMA AgreeStep == AgreeInv /\ [Next]_vars => AgreeInv'
BY AbsenceInvStep, NameStep, PursuedStep, KnownStep DEF AgreeInv, AbsenceInv, LedgerInv

LEMMA AgreeIsEnough == AgreeInv => BooksAgree
<1> SUFFICES ASSUME AgreeInv, Calm, Idle, NEW r \in Refund
             PROVE  /\ status[r] = "PROCESSED" => provider[r] = "processed"
                    /\ provider[r] = "processed" => status[r] \in {"PROCESSED", "ESCALATED"}
  BY DEF BooksAgree
<1>1. status[r] = "PROCESSED" => provider[r] = "processed"
  BY DEF AgreeInv, AbsenceInv, TruthInv, ProcessedIsTrue
<1>2. ASSUME provider[r] = "processed" PROVE status[r] \in {"PROCESSED", "ESCALATED"}
  <2>1. status[r] # "NONE"
    <3>1. sent[r] # 0
      BY <1>2 DEF AgreeInv, KnownIsSent, Calm
    <3> QED
      BY <3>1 DEF AgreeInv, AbsenceInv, LedgerInv, SendInv, UnadmittedHasNoGrant,
                  UnspentIsUnsent
  <2>2. status[r] # "FAILED"
    BY <1>2 DEF AgreeInv, AbsenceInv, AbsenceIsTrue, Undisturbed, Calm
  <2>3. status[r] \notin OpenStatuses
    BY DEF AgreeInv, OpenIsPursued, Idle, AbsenceInv, LedgerInv, TypeInv, TypeOK
  <2>4. status[r] \in RefundStatus
    BY DEF AgreeInv, AbsenceInv, LedgerInv, TypeInv, TypeOK
  <2> QED
    BY <2>1, <2>2, <2>3, <2>4 DEF RefundStatus, OpenStatuses
<1> QED
  BY <1>1, <1>2

(* Once no worker has anything to do, the settled refunds are the ones the *)
(* provider processed, but for those a person was asked to look at: in calm*)
(* weather an open refund always has a command outstanding, no round of it *)
(* is refused by the row it meets, and neither verdict is ever wrong.      *)
THEOREM BooksAgreeAtRest == Spec => []BooksAgree
<1> QED
  BY AgreeInit, AgreeStep, AgreeIsEnough, PTL DEF Spec

(* In calm weather an open refund is never forgotten: its command is in the*)
(* outbox until the refund is settled, failed or handed to a person.       *)
THEOREM CalmIsPursued == Spec => []OpenIsPursued
<1>1. AgreeInv => OpenIsPursued
  BY DEF AgreeInv
<1> QED
  BY <1>1, AgreeInit, AgreeStep, PTL DEF Spec
=============================================================================
