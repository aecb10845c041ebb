---------------------------- MODULE SumTheorems ----------------------------
(***************************************************************************)
(* Sums over finite sets: the ledgers of the project add amounts up with   *)
(* MapThenSumSet and SumFunctionOnSet of the community modules, whose      *)
(* recursion picks the elements in an order of its own.  Induction on a    *)
(* finite set is done here without an operator parameter: what is proved   *)
(* of the subsets is a set of them.                                        *)
(***************************************************************************)
EXTENDS FiniteSetsExt, FiniteSetTheorems, TLAPS

-----------------------------------------------------------------------------
(* Induction on finite sets.                                               *)

(* A set of subsets that contains a subset whenever it contains all of the *)
(* smaller ones has them all.                                              *)
LEMMA SubsetInduction ==
    ASSUME NEW S, IsFiniteSet(S), NEW G,
           \A T \in SUBSET S : (\A U \in (SUBSET T) \ {T} : U \in G) => T \in G
    PROVE  \A T \in SUBSET S : T \in G
<1> DEFINE B == {T \in SUBSET S : T \notin G}
           R == StrictSubsetOrdering(S)
<1> SUFFICES B = {}
  OBVIOUS
<1>1. SUFFICES ASSUME B # {} PROVE FALSE
  OBVIOUS
<1>2. IsWellFoundedOn(R, SUBSET S)
  BY FS_StrictSubsetOrderingWellFounded, FS_FiniteSubsetsOfFinite
<1>3. B \subseteq SUBSET S
  OBVIOUS
<1>4. \E T \in B : \A U \in B : ~(<<U, T>> \in R)
  <2> HIDE DEF B, R
  <2> QED BY <1>1, <1>2, <1>3, WFMin
<1>5. PICK T \in B : \A U \in B : ~(<<U, T>> \in R)
  BY <1>4
<1>6. \A U \in (SUBSET T) \ {T} : U \in G
  BY <1>5 DEF StrictSubsetOrdering
<1> QED BY <1>5, <1>6

(* The same, one element at a time.                                        *)
LEMMA FiniteInduction ==
    ASSUME NEW S, IsFiniteSet(S), NEW G, {} \in G,
           \A T \in SUBSET S : \A x \in S \ T : T \in G => T \cup {x} \in G
    PROVE  S \in G
<1>1. ASSUME NEW T \in SUBSET S, \A U \in (SUBSET T) \ {T} : U \in G
      PROVE  T \in G
  <2>1. CASE T = {}
    BY <2>1
  <2>2. ASSUME NEW x \in T PROVE T \in G
    <3>1. T \ {x} \in G /\ T = (T \ {x}) \cup {x} /\ x \in S \ (T \ {x})
      BY <1>1
    <3>2. T \ {x} \in SUBSET S
      OBVIOUS
    <3> QED BY <3>1, <3>2
  <2> QED BY <2>1, <2>2
<1> QED BY <1>1, SubsetInduction

-----------------------------------------------------------------------------
(* The sum of f over S, and the recursion behind it.                       *)

Sum(f, S) == MapThenSumSet(LAMBDA x : f[x], S)

Pick(T) == CHOOSE x \in T : TRUE
Adds(f, S, g) ==
    g = [T \in SUBSET S |-> IF T = {} THEN 0 ELSE f[Pick(T)] + g[T \ {Pick(T)}]]
Adder(f, S) == CHOOSE g : Adds(f, S, g)

LEMMA PickIn == ASSUME NEW T, T # {} PROVE Pick(T) \in T
  BY DEF Pick

LEMMA SumIsAdder ==
    ASSUME NEW f, NEW S
    PROVE  Sum(f, S) = Adder(f, S)[S]
  BY DEF Sum, MapThenSumSet, MapThenFoldSet, Adder, Adds, Pick

(* Two adders agree on every subset both are defined on.                   *)
LEMMA AddersAgree ==
    ASSUME NEW f, NEW S, IsFiniteSet(S), NEW g, NEW S1, NEW h, NEW S2,
           S \subseteq S1, S \subseteq S2, Adds(f, S1, g), Adds(f, S2, h)
    PROVE  \A T \in SUBSET S : g[T] = h[T]
<1> DEFINE G == {T \in SUBSET S : g[T] = h[T]}
<1>1. \A T \in SUBSET S : (\A U \in (SUBSET T) \ {T} : U \in G) => T \in G
  <2> SUFFICES ASSUME NEW T \in SUBSET S, \A U \in (SUBSET T) \ {T} : U \in G
               PROVE  g[T] = h[T]
    OBVIOUS
  <2>1. /\ g[T] = IF T = {} THEN 0 ELSE f[Pick(T)] + g[T \ {Pick(T)}]
        /\ h[T] = IF T = {} THEN 0 ELSE f[Pick(T)] + h[T \ {Pick(T)}]
    BY DEF Adds
  <2>2. T # {} => T \ {Pick(T)} \in (SUBSET T) \ {T}
    BY PickIn
  <2> QED BY <2>1, <2>2
<1> HIDE DEF G
<1>2. \A T \in SUBSET S : T \in G
  BY <1>1, SubsetInduction
<1> QED BY <1>2 DEF G

(* Every finite set has an adder.                                          *)
LEMMA AdderExists ==
    ASSUME NEW f, NEW S, IsFiniteSet(S)
    PROVE  Adds(f, S, Adder(f, S))
<1> DEFINE G == {T \in SUBSET S : \E g : Adds(f, T, g)}
<1>1. ASSUME NEW T \in SUBSET S, \A U \in (SUBSET T) \ {T} : U \in G
      PROVE  T \in G
  <2> DEFINE sum(U) == Adder(f, U)[U]
             g == [U \in SUBSET T |->
                     IF U = {} THEN 0 ELSE f[Pick(U)] + sum(U \ {Pick(U)})]
  <2>1. ASSUME NEW U \in (SUBSET T) \ {T}
        PROVE  Adds(f, U, Adder(f, U))
    BY <1>1 DEF Adder
  <2>2. ASSUME NEW U \in (SUBSET T) \ {T}
        PROVE  g[U] = sum(U)
    <3>1. sum(U) = IF U = {} THEN 0 ELSE f[Pick(U)] + Adder(f, U)[U \ {Pick(U)}]
      BY <2>1 DEF Adds
    <3>2. CASE U = {}
      BY <3>1, <3>2
    <3>3. CASE U # {}
      <4> DEFINE V == U \ {Pick(U)}
      <4>1. V \in (SUBSET T) \ {T} /\ V \subseteq U
        BY PickIn, <3>3
      <4>2. IsFiniteSet(V)
        BY <4>1, FS_Subset
      <4>3. Adder(f, U)[V] = Adder(f, V)[V]
        <5> HIDE DEF V
        <5> QED BY <2>1, <4>1, <4>2, AddersAgree
      <4>4. g[U] = f[Pick(U)] + sum(V)
        BY <3>3
      <4> QED BY <3>1, <3>3, <4>3, <4>4
    <3> QED BY <3>2, <3>3
  <2>3. Adds(f, T, g)
    <3> SUFFICES ASSUME NEW U \in SUBSET T, U # {}
                 PROVE  g[U \ {Pick(U)}] = sum(U \ {Pick(U)})
      BY DEF Adds
    <3>1. U \ {Pick(U)} \in (SUBSET T) \ {T}
      BY PickIn
    <3> QED BY <2>2, <3>1
  <2> QED BY <2>3
<1> HIDE DEF G
<1>2. \A T \in SUBSET S : T \in G
  BY <1>1, SubsetInduction
<1>3. \E g : Adds(f, S, g)
  BY <1>2 DEF G
<1> QED BY <1>3 DEF Adder

-----------------------------------------------------------------------------
(* What a sum is.                                                          *)

LEMMA SumUnfold ==
    ASSUME NEW f, NEW S, IsFiniteSet(S)
    PROVE  Sum(f, S) = IF S = {} THEN 0 ELSE f[Pick(S)] + Sum(f, S \ {Pick(S)})
<1> DEFINE T == S \ {Pick(S)}
<1>1. Adds(f, S, Adder(f, S)) /\ Adds(f, T, Adder(f, T)) /\ IsFiniteSet(T)
  BY AdderExists, FS_Subset
<1>2. Adder(f, S)[S] = IF S = {} THEN 0 ELSE f[Pick(S)] + Adder(f, S)[T]
  BY <1>1 DEF Adds
<1>3. Adder(f, S)[T] = Adder(f, T)[T]
  <2>1. T \subseteq S /\ T \subseteq T /\ T \in SUBSET T
    OBVIOUS
  <2> HIDE DEF T
  <2>2. \A U \in SUBSET T : Adder(f, S)[U] = Adder(f, T)[U]
    BY <1>1, <2>1, AddersAgree
  <2> QED BY <2>1, <2>2
<1> QED BY <1>2, <1>3, SumIsAdder

THEOREM SumEmpty ==
    ASSUME NEW f
    PROVE  Sum(f, {}) = 0
  BY SumUnfold, FS_EmptySet

(* The sum of integers is one.                                             *)
THEOREM SumInt ==
    ASSUME NEW f, NEW S, IsFiniteSet(S), \A x \in S : f[x] \in Int
    PROVE  Sum(f, S) \in Int
<1> DEFINE G == {T \in SUBSET S : Sum(f, T) \in Int}
<1>1. ASSUME NEW T \in SUBSET S, \A U \in (SUBSET T) \ {T} : U \in G
      PROVE  T \in G
  <2>1. Sum(f, T) = IF T = {} THEN 0 ELSE f[Pick(T)] + Sum(f, T \ {Pick(T)})
    BY SumUnfold, FS_Subset
  <2>2. T # {} => Pick(T) \in T /\ T \ {Pick(T)} \in (SUBSET T) \ {T}
    BY PickIn
  <2>3. T # {} => f[Pick(T)] \in Int /\ Sum(f, T \ {Pick(T)}) \in Int
    BY <1>1, <2>2
  <2> HIDE DEF G
  <2>4. Sum(f, T) \in Int
    BY <2>1, <2>3
  <2> QED BY <2>4 DEF G
<1> HIDE DEF G
<1>2. \A T \in SUBSET S : T \in G
  BY <1>1, SubsetInduction
<1> QED BY <1>2 DEF G

(* Whatever order the recursion picks, one more element adds its amount.   *)
THEOREM SumAdd ==
    ASSUME NEW f, NEW S, IsFiniteSet(S), NEW x, x \notin S,
           \A y \in S \cup {x} : f[y] \in Int
    PROVE  Sum(f, S \cup {x}) = f[x] + Sum(f, S)
<1> DEFINE D == S \cup {x}
           G == {T \in SUBSET D :
                   \A z \in D \ T : Sum(f, T \cup {z}) = f[z] + Sum(f, T)}
<1>0. IsFiniteSet(D)
  BY FS_AddElement
<1>1. ASSUME NEW T \in SUBSET D, \A U \in (SUBSET T) \ {T} : U \in G
      PROVE  T \in G
  <2> SUFFICES ASSUME NEW z \in D \ T
               PROVE  Sum(f, T \cup {z}) = f[z] + Sum(f, T)
    OBVIOUS
  <2> DEFINE y == Pick(T \cup {z})
  <2>1. /\ IsFiniteSet(T) /\ IsFiniteSet(T \cup {z})
        /\ y \in T \cup {z}
    <3>1. IsFiniteSet(T) /\ IsFiniteSet(T \cup {z})
      BY <1>0, FS_Subset
    <3>2. T \cup {z} # {}
      OBVIOUS
    <3>3. y \in T \cup {z}
      BY <3>2, PickIn
    <3> QED BY <3>1, <3>3
  <2>2. Sum(f, T \cup {z}) = f[y] + Sum(f, (T \cup {z}) \ {y})
    <3> HIDE DEF y
    <3>1. T \cup {z} # {}
      OBVIOUS
    <3> QED BY <2>1, <3>1, SumUnfold DEF y
  <2> HIDE DEF y
  <2>3. CASE y = z
    <3>1. (T \cup {z}) \ {y} = T
      BY <2>3
    <3> QED BY <2>2, <2>3, <3>1
  <2>4. CASE y # z
    <3> DEFINE U == T \ {y}
    <3>1. /\ y \in T /\ U \in (SUBSET T) \ {T} /\ U \in SUBSET D
          /\ (T \cup {z}) \ {y} = U \cup {z} /\ U \cup {y} = T
          /\ y \in D \ U /\ z \in D \ U
      BY <2>1, <2>4
    <3> HIDE DEF U
    <3>2. /\ Sum(f, U \cup {z}) = f[z] + Sum(f, U)
          /\ Sum(f, T) = f[y] + Sum(f, U)
      BY <1>1, <3>1
    <3>3. f[z] \in Int /\ f[y] \in Int
      BY <3>1
    <3>4. Sum(f, U) \in Int
      <4>1. IsFiniteSet(U) /\ \A u \in U : f[u] \in Int
        BY <1>0, <3>1, FS_Subset
      <4> QED BY <4>1, SumInt
    <3>5. Sum(f, T \cup {z}) = f[y] + Sum(f, U \cup {z})
      BY <2>2, <3>1
    <3> QED BY <3>2, <3>3, <3>4, <3>5
  <2> QED BY <2>3, <2>4
<1> HIDE DEF G, D
<1>2. \A T \in SUBSET D : T \in G
  BY <1>0, <1>1, SubsetInduction
<1> QED BY <1>2 DEF G, D

(* and one less takes it away.                                             *)
THEOREM SumRemove ==
    ASSUME NEW f, NEW S, IsFiniteSet(S), NEW x \in S, \A y \in S : f[y] \in Int
    PROVE  Sum(f, S) = f[x] + Sum(f, S \ {x})
<1>1. IsFiniteSet(S \ {x}) /\ (S \ {x}) \cup {x} = S /\ x \notin S \ {x}
  BY FS_RemoveElement
<1>2. \A y \in (S \ {x}) \cup {x} : f[y] \in Int
  OBVIOUS
<1>3. Sum(f, (S \ {x}) \cup {x}) = f[x] + Sum(f, S \ {x})
  BY <1>1, <1>2, SumAdd
<1> QED BY <1>1, <1>3

(* A sum depends on the amounts of its elements alone.                     *)
THEOREM SumSame ==
    ASSUME NEW f, NEW g, NEW S, IsFiniteSet(S),
           \A x \in S : f[x] = g[x] /\ f[x] \in Int
    PROVE  Sum(f, S) = Sum(g, S)
<1> DEFINE G == {T \in SUBSET S : Sum(f, T) = Sum(g, T)}
<1>1. {} \in G
  BY SumEmpty
<1>2. ASSUME NEW T \in SUBSET S, NEW x \in S \ T, T \in G
      PROVE  T \cup {x} \in G
  <2>1. IsFiniteSet(T)
    BY FS_Subset
  <2>2. /\ Sum(f, T \cup {x}) = f[x] + Sum(f, T)
        /\ Sum(g, T \cup {x}) = g[x] + Sum(g, T)
    BY <2>1, SumAdd
  <2> QED BY <1>2, <2>2
<1> HIDE DEF G
<1>3. S \in G
  BY <1>1, <1>2, FiniteInduction
<1> QED BY <1>3 DEF G

(* Parts that share nothing add up.                                        *)
THEOREM SumUnion ==
    ASSUME NEW f, NEW S, NEW R, IsFiniteSet(S), IsFiniteSet(R), S \cap R = {},
           \A x \in S \cup R : f[x] \in Int
    PROVE  Sum(f, S \cup R) = Sum(f, S) + Sum(f, R)
<1> DEFINE G == {T \in SUBSET R : Sum(f, S \cup T) = Sum(f, S) + Sum(f, T)}
<1>0. Sum(f, S) \in Int
  BY SumInt
<1>1. {} \in G
  <2>1. S \cup {} = S /\ Sum(f, {}) = 0
    BY SumEmpty
  <2> QED BY <1>0, <2>1
<1>2. ASSUME NEW T \in SUBSET R, NEW x \in R \ T, T \in G
      PROVE  T \cup {x} \in G
  <2>1. IsFiniteSet(T) /\ IsFiniteSet(S \cup T) /\ x \notin S \cup T
    <3>1. IsFiniteSet(T)
      BY FS_Subset
    <3> QED BY <3>1, FS_Union
  <2>2. /\ Sum(f, T \cup {x}) = f[x] + Sum(f, T)
        /\ Sum(f, (S \cup T) \cup {x}) = f[x] + Sum(f, S \cup T)
    BY <2>1, SumAdd
  <2>3. Sum(f, T) \in Int /\ f[x] \in Int
    BY <2>1, SumInt
  <2>4. S \cup (T \cup {x}) = (S \cup T) \cup {x}
    OBVIOUS
  <2>5. Sum(f, S \cup T) = Sum(f, S) + Sum(f, T)
    BY <1>2
  <2>6. Sum(f, S \cup (T \cup {x})) = f[x] + (Sum(f, S) + Sum(f, T))
    BY <2>2, <2>4, <2>5
  <2>7. Sum(f, S \cup (T \cup {x})) = Sum(f, S) + Sum(f, T \cup {x})
    BY <1>0, <2>2, <2>3, <2>6
  <2> QED BY <2>7
<1> HIDE DEF G
<1>3. R \in G
  BY <1>1, <1>2, FiniteInduction
<1> QED BY <1>3 DEF G

(* A sum of amounts that are not negative is not negative,                 *)
THEOREM SumNat ==
    ASSUME NEW f, NEW S, IsFiniteSet(S), \A x \in S : f[x] \in Nat
    PROVE  Sum(f, S) \in Nat
<1> DEFINE G == {T \in SUBSET S : Sum(f, T) \in Nat}
<1>1. {} \in G
  BY SumEmpty
<1>2. ASSUME NEW T \in SUBSET S, NEW x \in S \ T, T \in G
      PROVE  T \cup {x} \in G
  <2>1. IsFiniteSet(T)
    BY FS_Subset
  <2>2. Sum(f, T \cup {x}) = f[x] + Sum(f, T)
    BY <2>1, SumAdd
  <2> QED BY <1>2, <2>2
<1> HIDE DEF G
<1>3. S \in G
  BY <1>1, <1>2, FiniteInduction
<1> QED BY <1>3 DEF G

(* and a part of it is never more than the whole.                          *)
THEOREM SumPart ==
    ASSUME NEW f, NEW S, IsFiniteSet(S), NEW T, T \subseteq S,
           \A x \in S : f[x] \in Nat
    PROVE  Sum(f, T) <= Sum(f, S)
<1>1. IsFiniteSet(T) /\ IsFiniteSet(S \ T)
  BY FS_Subset
<1>2. Sum(f, T) \in Nat /\ Sum(f, S \ T) \in Nat
  BY <1>1, SumNat
<1>3. T \cup (S \ T) = S /\ T \cap (S \ T) = {}
  OBVIOUS
<1>4. Sum(f, T \cup (S \ T)) = Sum(f, T) + Sum(f, S \ T)
  BY <1>1, <1>3, SumUnion
<1>5. Sum(f, S) = Sum(f, T) + Sum(f, S \ T)
  BY <1>3, <1>4
<1> QED BY <1>2, <1>5
=============================================================================
