------------------------ MODULE PaymentEventsProofs ------------------------
(***************************************************************************)
(* Theorems about PaymentEvents, for any set of reported states.  The      *)
(* tables of states.py are closed by walks, which are recursive functions; *)
(* that those exist, and what they reach, is proved by counting their      *)
(* steps with a set in place of a predicate.                               *)
(***************************************************************************)
EXTENDS PaymentEvents, Integers, SumTheorems

-----------------------------------------------------------------------------
(* Walks of a bounded length.                                              *)

LEMMA FiniteInterval == \A n \in Nat : IsFiniteSet(0 .. n)
<1>1. ASSUME NEW n \in Nat PROVE IsFiniteSet(0 .. n)
  <2>1. 0 .. n \in SUBSET Nat /\ \A k \in 0 .. n : k <= n
    OBVIOUS
  <2> QED
    BY <2>1, FS_BoundedSetOfNaturals
<1> QED
  BY <1>1

LEMMA CountingUp ==
    ASSUME NEW n \in Nat, NEW I, 0 \in I,
           \A k \in 1 .. n : k - 1 \in I => k \in I
    PROVE  \A k \in 0 .. n : k \in I
<1> DEFINE G == {T \in SUBSET (0 .. n) : \A m \in 0 .. n : T = 0 .. m => m \in I}
<1>1. ASSUME NEW T \in SUBSET (0 .. n), \A U \in (SUBSET T) \ {T} : U \in G
      PROVE  T \in G
  <2> SUFFICES ASSUME NEW m \in 0 .. n, T = 0 .. m, m # 0 PROVE m \in I
    OBVIOUS
  <2>1. 0 .. (m - 1) \in SUBSET T /\ m \in T /\ m \notin 0 .. (m - 1) /\ m - 1 \in 0 .. n
    OBVIOUS
  <2>2. 0 .. (m - 1) \in G
    BY <1>1, <2>1
  <2>3. m - 1 \in I
    BY <2>1, <2>2
  <2> QED
    BY <2>3
<1> HIDE DEF G
<1>2. \A T \in SUBSET (0 .. n) : T \in G
  <2> DEFINE S == 0 .. n
  <2>1. IsFiniteSet(S)
    BY FiniteInterval
  <2>2. \A T \in SUBSET S : (\A U \in (SUBSET T) \ {T} : U \in G) => T \in G
    BY <1>1
  <2> HIDE DEF S
  <2>3. \A T \in SUBSET S : T \in G
    BY <2>1, <2>2, SubsetInduction
  <2> QED
    BY <2>3 DEF S
<1>3. ASSUME NEW k \in 0 .. n PROVE k \in I
  <2>1. 0 .. k \in G
    BY <1>2
  <2> QED
    BY <2>1 DEF G
<1> QED
  BY <1>3

Iterates(f, n, base, next) ==
    f = [k \in 0 .. n |-> IF k = 0 THEN base ELSE next[f[k - 1]]]

LEMMA IterationExists ==
    ASSUME NEW n \in Nat, NEW X, NEW base \in X, NEW next \in [X -> X]
    PROVE  \E f \in [0 .. n -> X] : Iterates(f, n, base, next)
<1> DEFINE I == {m \in 0 .. n : \E f \in [0 .. m -> X] : Iterates(f, m, base, next)}
<1>1. 0 \in I
  <2> DEFINE f == [k \in 0 .. 0 |-> base]
  <2>1. f \in [0 .. 0 -> X] /\ Iterates(f, 0, base, next)
    BY DEF Iterates
  <2> QED
    BY <2>1
<1>2. ASSUME NEW m \in 1 .. n, m - 1 \in I PROVE m \in I
  <2>1. PICK f \in [0 .. (m - 1) -> X] : Iterates(f, m - 1, base, next)
    BY <1>2
  <2> DEFINE g == [k \in 0 .. m |-> IF k = m THEN next[f[m - 1]] ELSE f[k]]
  <2>2. \A k \in 0 .. (m - 1) : g[k] = f[k] /\ f[k] = IF k = 0 THEN base ELSE next[f[k - 1]]
    <3>1. \A k \in 0 .. (m - 1) : f[k] = IF k = 0 THEN base ELSE next[f[k - 1]]
      BY <2>1 DEF Iterates
    <3>2. \A k \in 0 .. (m - 1) : k \in 0 .. m /\ k # m
      OBVIOUS
    <3> QED
      BY <3>1, <3>2
  <2>3. g[m] = next[f[m - 1]] /\ g \in [0 .. m -> X] /\ g = [k \in 0 .. m |-> g[k]]
    BY <2>1
  <2> HIDE DEF g
  <2>4. \A k \in 0 .. m : g[k] = IF k = 0 THEN base ELSE next[g[k - 1]]
    <3>1. ASSUME NEW k \in 0 .. m, k # m
          PROVE  g[k] = IF k = 0 THEN base ELSE next[g[k - 1]]
      <4>1. k \in 0 .. (m - 1) /\ (k # 0 => k - 1 \in 0 .. (m - 1))
        BY <3>1
      <4> QED
        BY <2>2, <4>1
    <3>2. g[m] = next[g[m - 1]] /\ m # 0
      BY <2>2, <2>3
    <3> QED
      BY <3>1, <3>2
  <2>5. Iterates(g, m, base, next)
    BY <2>3, <2>4 DEF Iterates
  <2> QED
    BY <2>3, <2>5
<1> HIDE DEF I
<1>3. n \in I
  BY <1>1, <1>2, CountingUp
<1> QED
  BY <1>3 DEF I

-----------------------------------------------------------------------------
(* The table of the payment attempts.                                      *)

LEMMA Table ==
    /\ DOMAIN PAYMENT_TRANSITIONS = PaymentState
    /\ \A s \in PaymentState : PAYMENT_TRANSITIONS[s] \subseteq PaymentState
  BY DEF PAYMENT_TRANSITIONS, PaymentState

LEMMA FiniteStates == IsFiniteSet(PaymentState) /\ Cardinality(PaymentState) \in Nat
<1> DEFINE rank == [s \in PaymentState |-> Rank[s]]
<1>1. \A s \in PaymentState : Rank[s] \in 0 .. 15
  BY DEF PaymentState, Rank
<1>2. \A s, t \in PaymentState : Rank[s] = Rank[t] => s = t
  BY DEF PaymentState, Rank
<1>3. rank \in Injection(PaymentState, 0 .. 15)
  <2>1. rank \in [PaymentState -> 0 .. 15]
    BY <1>1
  <2>2. \A s, t \in DOMAIN rank : rank[s] = rank[t] => s = t
    BY <1>2
  <2> QED
    BY <2>1, <2>2 DEF Injection, IsInjective
<1> HIDE DEF rank
<1>4. IsFiniteSet(0 .. 15)
  BY FiniteInterval
<1> QED
  BY <1>3, <1>4, FS_Injection, FS_CardinalityType

Reach(n) ==
    {n} \cup IF n \in {"RECONCILING"} THEN {} ELSE PAYMENT_TRANSITIONS[n]
Length == Cardinality(DOMAIN PAYMENT_TRANSITIONS)
Advances(s, f) ==
    f = [k \in 0 .. Length |-> IF k = 0 THEN PAYMENT_TRANSITIONS[s]
                               ELSE UNION {Reach(n) : n \in f[k - 1]}]

LEMMA AdvanceWalks ==
    ASSUME NEW s \in PaymentState
    PROVE  \E f : Advances(s, f) /\ EventAdvance[s] = f[Length]
<1> DEFINE X == SUBSET PaymentState
           next == [M \in X |-> UNION {Reach(n) : n \in M}]
<1>1. \A n \in PaymentState : Reach(n) \subseteq PaymentState
  BY Table DEF Reach
<1>2. next \in [X -> X]
  BY <1>1
<1>3. PAYMENT_TRANSITIONS[s] \in X /\ Length \in Nat
  BY Table, FiniteStates DEF Length
<1> HIDE DEF next
<1>4. PICK f \in [0 .. Length -> X] : Iterates(f, Length, PAYMENT_TRANSITIONS[s], next)
  BY <1>2, <1>3, IterationExists
<1>5. \A k \in 0 .. Length : k # 0 => next[f[k - 1]] = UNION {Reach(n) : n \in f[k - 1]}
  BY <1>3, <1>4 DEF next
<1>6. Advances(s, f)
  BY <1>4, <1>5 DEF Iterates, Advances
<1>7. Advances(s, CHOOSE g : Advances(s, g))
  BY <1>6
<1>8. EventAdvance[s] = (CHOOSE g : Advances(s, g))[Length]
  BY Table DEF EventAdvance, TransitiveClosure, Advances, Reach, Length
<1> QED
  BY <1>7, <1>8

(* A walk stays in whatever its steps do not leave.                        *)
LEMMA AdvanceWithin ==
    ASSUME NEW s \in PaymentState, NEW G, PAYMENT_TRANSITIONS[s] \subseteq G,
           \A n \in G : Reach(n) \subseteq G
    PROVE  EventAdvance[s] \subseteq G
<1>1. PICK f : Advances(s, f) /\ EventAdvance[s] = f[Length]
  BY AdvanceWalks
<1>2. Length \in Nat
  BY Table, FiniteStates DEF Length
<1> DEFINE I == {k \in 0 .. Length : f[k] \subseteq G}
<1>3. 0 \in I
  BY <1>1, <1>2 DEF Advances
<1>4. ASSUME NEW k \in 1 .. Length, k - 1 \in I PROVE k \in I
  <2>1. f[k] = UNION {Reach(n) : n \in f[k - 1]}
    BY <1>1, <1>2 DEF Advances
  <2> QED
    BY <1>4, <2>1
<1> HIDE DEF I
<1>5. Length \in I
  BY <1>2, <1>3, <1>4, CountingUp
<1> QED
  BY <1>1, <1>5 DEF I

LEMMA AdvanceKeepsEdges ==
    ASSUME NEW s \in PaymentState
    PROVE  PAYMENT_TRANSITIONS[s] \subseteq EventAdvance[s]
<1>1. PICK f : Advances(s, f) /\ EventAdvance[s] = f[Length]
  BY AdvanceWalks
<1>2. Length \in Nat
  BY Table, FiniteStates DEF Length
<1> DEFINE I == {k \in 0 .. Length : PAYMENT_TRANSITIONS[s] \subseteq f[k]}
<1>3. 0 \in I
  BY <1>1, <1>2 DEF Advances
<1>4. ASSUME NEW k \in 1 .. Length, k - 1 \in I PROVE k \in I
  <2>1. f[k] = UNION {Reach(n) : n \in f[k - 1]}
    BY <1>1, <1>2 DEF Advances
  <2> QED
    BY <1>4, <2>1 DEF Reach
<1> HIDE DEF I
<1>5. Length \in I
  BY <1>2, <1>3, <1>4, CountingUp
<1> QED
  BY <1>1, <1>5 DEF I

-----------------------------------------------------------------------------
(* What is reached through known outcomes.                                 *)

Grown(M) == M \cup {t \in Known : \E n \in M : PaymentEdge(n, t)}
Span == Cardinality(Known)
Leads(s, f) ==
    f = [k \in 0 .. Span |-> IF k = 0 THEN {s} ELSE Grown(f[k - 1])]

LEMMA FiniteKnown == IsFiniteSet(Known) /\ Span \in Nat
<1>1. Known \in SUBSET PaymentState
  BY DEF Known
<1> QED
  BY <1>1, FiniteStates, FS_Subset, FS_CardinalityType DEF Span

LEMMA LeadsOn ==
    ASSUME NEW s, NEW f, Leads(s, f)
    PROVE  f[0] = {s} /\ \A k \in 1 .. Span : f[k] = Grown(f[k - 1])
<1>1. \A k \in 0 .. Span : f[k] = IF k = 0 THEN {s} ELSE Grown(f[k - 1])
  BY DEF Leads
<1>2. 0 \in 0 .. Span /\ \A k \in 1 .. Span : k \in 0 .. Span /\ k # 0
  BY FiniteKnown
<1> QED
  BY <1>1, <1>2

LEMMA KnownWalks ==
    ASSUME NEW s \in Known
    PROVE  \E f \in [0 .. Span -> SUBSET Known] : Leads(s, f) /\ KnownFrom[s] = f[Span]
<1> DEFINE X == SUBSET Known
           next == [M \in X |-> Grown(M)]
<1>1. next \in [X -> X] /\ {s} \in X
  BY DEF Grown
<1> HIDE DEF next
<1>2. PICK f \in [0 .. Span -> X] : Iterates(f, Span, {s}, next)
  BY <1>1, FiniteKnown, IterationExists
<1>3. \A k \in 0 .. Span : k # 0 => next[f[k - 1]] = Grown(f[k - 1])
  BY <1>2, FiniteKnown DEF next
<1>4. Leads(s, f)
  BY <1>2, <1>3 DEF Iterates, Leads
<1> DEFINE h == CHOOSE g : Leads(s, g)
<1>5. Leads(s, h)
  BY <1>4
<1>6. KnownFrom[s] = h[Span]
  BY DEF KnownFrom, Leads, Grown, Span
<1> HIDE DEF h
<1> DEFINE I == {k \in 0 .. Span : h[k] \in X}
<1>7. 0 \in I
  BY <1>1, <1>5, LeadsOn, FiniteKnown
<1>8. ASSUME NEW k \in 1 .. Span, k - 1 \in I PROVE k \in I
  <2>1. h[k] = Grown(h[k - 1])
    BY <1>5, LeadsOn
  <2> QED
    BY <1>8, <2>1 DEF Grown
<1> HIDE DEF I
<1>9. \A k \in 0 .. Span : h[k] \in X
  <2>1. \A k \in 0 .. Span : k \in I
    BY <1>7, <1>8, FiniteKnown, CountingUp
  <2> QED
    BY <2>1 DEF I
<1>10. h \in [0 .. Span -> X]
  BY <1>5, <1>9 DEF Leads
<1> QED
  BY <1>5, <1>6, <1>10

(* A walk that has not yet come to a stand has met a state more with every *)
(* step: it comes to a stand before the states run out.                    *)
LEMMA KnownFromIsClosed ==
    ASSUME NEW s \in Known
    PROVE  /\ s \in KnownFrom[s] /\ KnownFrom[s] \subseteq Known
           /\ \A n \in KnownFrom[s], t \in Known : PaymentEdge(n, t) => t \in KnownFrom[s]
<1>1. PICK f \in [0 .. Span -> SUBSET Known] : Leads(s, f) /\ KnownFrom[s] = f[Span]
  BY KnownWalks
<1>2. f[0] = {s} /\ \A k \in 1 .. Span : f[k] = Grown(f[k - 1])
  BY <1>1, LeadsOn
<1>3. \A k \in 0 .. Span : IsFiniteSet(f[k]) /\ Cardinality(f[k]) \in Nat
  BY <1>1, FiniteKnown, FS_Subset, FS_CardinalityType
<1> DEFINE I == {k \in 0 .. Span :
                   s \in f[k] /\ (Grown(f[k]) = f[k] \/ Cardinality(f[k]) > k)}
<1>4. 0 \in I
  <2>1. Cardinality(f[0]) = 1 /\ s \in f[0]
    BY <1>2, FS_Singleton
  <2> QED
    BY <2>1, FiniteKnown
<1>5. ASSUME NEW k \in 1 .. Span, k - 1 \in I PROVE k \in I
  <2>1. f[k] = Grown(f[k - 1]) /\ f[k - 1] \in SUBSET f[k]
    BY <1>2 DEF Grown
  <2>2. CASE Grown(f[k - 1]) = f[k - 1]
    BY <1>5, <2>1, <2>2
  <2>3. CASE Grown(f[k - 1]) # f[k - 1]
    <3>1. Cardinality(f[k - 1]) > k - 1
      BY <1>5, <2>3
    <3>2. Cardinality(f[k - 1]) <= Cardinality(f[k]) /\ Cardinality(f[k - 1]) # Cardinality(f[k])
      BY <1>3, <2>1, <2>3, FS_Subset
    <3>3. Cardinality(f[k]) > k
      <4>1. k \in 0 .. Span /\ k - 1 \in 0 .. Span
        BY <1>5
      <4>2. Cardinality(f[k]) \in Nat /\ Cardinality(f[k - 1]) \in Nat
        BY <1>3, <4>1
      <4> QED
        BY <3>1, <3>2, <4>2
    <3> QED
      BY <1>5, <2>1, <3>3
  <2> QED
    BY <2>2, <2>3
<1>6. Span \in 0 .. Span
  BY FiniteKnown
<1>7. Span \in I
  <2> HIDE DEF I
  <2> QED
    BY <1>4, <1>5, <1>6, FiniteKnown, CountingUp
<1>8. Cardinality(f[Span]) <= Span
  BY <1>6, FiniteKnown, FS_Subset DEF Span
<1>9. s \in f[Span] /\ Grown(f[Span]) = f[Span]
  BY <1>3, <1>6, <1>7, <1>8, FiniteKnown
<1> QED
  BY <1>1, <1>6, <1>9 DEF Grown

-----------------------------------------------------------------------------
(* What reports do to an attempt.                                          *)

LEMMA ReportMoves ==
    ASSUME NEW s \in PaymentState, NEW t \in PaymentState
    PROVE  /\ MonotonicApply(s, t) \in PaymentState
           /\ s \in Known => \/ MonotonicApply(s, t) = s
                             \/ MonotonicApply(s, t) = t /\ t \in EventAdvance[s]
<1>1. "RECONCILING" \in PaymentState
  BY DEF PaymentState
<1> QED
  BY <1>1 DEF MonotonicApply, Known, Unclear

(* An event leads from a known outcome to those that follow it through     *)
(* known ones, or into what is unclear and no further.                     *)
LEMMA AdvanceThroughKnown ==
    ASSUME NEW o \in Known, NEW s \in KnownFrom[o]
    PROVE  EventAdvance[s] \cap Known \subseteq KnownFrom[o]
<1> DEFINE G == Unclear \cup KnownFrom[o]
<1>1. s \in Known /\ s \in PaymentState
  BY KnownFromIsClosed DEF Known
<1>2. \A n \in KnownFrom[o] : n \in PaymentState /\ PAYMENT_TRANSITIONS[n] \subseteq G
  <2>1. ASSUME NEW n \in KnownFrom[o], NEW t \in PAYMENT_TRANSITIONS[n]
        PROVE  n \in PaymentState /\ t \in G
    <3>1. n \in PaymentState
      BY KnownFromIsClosed DEF Known
    <3>2. t \in PaymentState /\ PaymentEdge(n, t)
      BY <3>1, Table DEF PaymentEdge
    <3> QED
      BY <3>1, <3>2, KnownFromIsClosed DEF Known
  <2> QED
    BY <2>1, KnownFromIsClosed DEF Known
<1>3. \A n \in Unclear : Reach(n) \subseteq Unclear
  BY DEF Unclear, UNCERTAIN_PAYMENT_STATES, Reach, PAYMENT_TRANSITIONS
<1>4. \A n \in G : Reach(n) \subseteq G
  BY <1>2, <1>3 DEF Reach
<1>5. PAYMENT_TRANSITIONS[s] \subseteq G
  BY <1>2
<1> HIDE DEF G
<1>6. EventAdvance[s] \subseteq G
  BY <1>1, <1>4, <1>5, AdvanceWithin
<1> QED
  BY <1>6 DEF G, Known

TypeInv ==
    /\ started \in PaymentState /\ held \in PaymentState
    /\ delivered \subseteq PaymentState

LEMMA TypeStep == TypeInv /\ [Next]_vars => TypeInv'
  BY ReportsAssumption, ReportMoves DEF TypeInv, Next, Deliver, vars

(* Events alone, however many and in whatever order, never carry an        *)
(* attempt from a known outcome to one that only a verified reconciliation *)
(* leads to (monotonic_apply, _EVENT_ADVANCE).                             *)
THEOREM EventsStopAtReconciliation == Spec => []NeverPastReconciliation
<1>1. Init => TypeInv /\ NeverPastReconciliation
  <2> SUFFICES ASSUME Init PROVE TypeInv /\ NeverPastReconciliation
    OBVIOUS
  <2>1. started \in Known => started \in KnownFrom[started]
    BY KnownFromIsClosed
  <2> QED
    BY <2>1 DEF Init, TypeInv, NeverPastReconciliation, Known
<1>2. TypeInv /\ NeverPastReconciliation /\ [Next]_vars => NeverPastReconciliation'
  <2> SUFFICES ASSUME TypeInv, NeverPastReconciliation, [Next]_vars,
                      (delivered' \cup {started'}) \cap Unclear = {}
               PROVE  held' \in KnownFrom[started']
    BY DEF NeverPastReconciliation
  <2>1. CASE UNCHANGED vars
    BY <2>1 DEF vars, NeverPastReconciliation
  <2>2. ASSUME NEW incoming \in Reports, Deliver(incoming)
        PROVE  held' \in KnownFrom[started']
    <3>1. incoming \in Known /\ started \in Known /\ held \in KnownFrom[started]
      BY <2>2, ReportsAssumption DEF Deliver, TypeInv, NeverPastReconciliation, Known
    <3>2. held \in Known /\ incoming \in PaymentState
      BY <3>1, KnownFromIsClosed DEF Known
    <3>3. held' = held \/ (held' = incoming /\ incoming \in EventAdvance[held])
      BY <2>2, <3>2, ReportMoves DEF Deliver, TypeInv
    <3> QED
      BY <2>2, <3>1, <3>3, AdvanceThroughKnown DEF Deliver
  <2> QED
    BY <2>1, <2>2 DEF Next
<1> QED
  BY <1>1, <1>2, TypeStep, PTL DEF Spec

(* Reports of authorization and capture commute: the attempt holds the     *)
(* strongest of those it was told, whatever order and however often they   *)
(* came (monotonic_apply).                                                 *)
THEOREM ReportsOfProgressCommute == Spec => []ProgressCommutes
<1>1. Init => ProgressCommutes
  BY DEF Init, ProgressCommutes
<1>2. ProgressCommutes /\ [Next]_vars => ProgressCommutes'
  <2> SUFFICES ASSUME ProgressCommutes, [Next]_vars PROVE ProgressCommutes'
    OBVIOUS
  <2>1. CASE UNCHANGED vars
    BY <2>1 DEF vars, ProgressCommutes
  <2>2. ASSUME NEW incoming \in Reports, Deliver(incoming), started = "SUBMITTED",
               delivered' \subseteq {"AUTHORIZED", "CAPTURED"}
        PROVE  held' = IF "CAPTURED" \in delivered' THEN "CAPTURED"
                       ELSE IF "AUTHORIZED" \in delivered' THEN "AUTHORIZED"
                       ELSE "SUBMITTED"
    <3>1. /\ incoming \in {"AUTHORIZED", "CAPTURED"}
          /\ held = IF "CAPTURED" \in delivered THEN "CAPTURED"
                    ELSE IF "AUTHORIZED" \in delivered THEN "AUTHORIZED"
                    ELSE "SUBMITTED"
      BY <2>2 DEF Deliver, ProgressCommutes
    <3>2. /\ {"AUTHORIZED", "CAPTURED"} \subseteq EventAdvance["SUBMITTED"]
          /\ "CAPTURED" \in EventAdvance["AUTHORIZED"]
      BY AdvanceKeepsEdges DEF PaymentState, PAYMENT_TRANSITIONS
    <3>3. held' = MonotonicApply(held, incoming) /\ delivered' = delivered \cup {incoming}
      BY <2>2 DEF Deliver
    <3> QED
      BY <3>1, <3>2, <3>3
         DEF MonotonicApply, Rank, TERMINAL_PAYMENT_STATES, UNCERTAIN_PAYMENT_STATES
  <2> QED
    BY <2>1, <2>2 DEF Next, Deliver, ProgressCommutes
<1> QED
  BY <1>1, <1>2, PTL DEF Spec
=============================================================================
