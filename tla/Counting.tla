------------------------------- MODULE Counting -------------------------------
(***************************************************************************)
(* Facts about numbers and finite sets that the proofs of several          *)
(* components need.                                                        *)
(***************************************************************************)

EXTENDS Integers, FiniteSetTheorems, FunctionTheorems, TLAPS

\* Of some natural numbers one is the least: the intervals up to them are well-founded by
\* inclusion.
LEMMA LeastNumber ==
  ASSUME NEW S \in SUBSET Nat, S # {}
  PROVE  \E m \in S : \A n \in S : m <= n
<1> DEFINE T == {0..n : n \in S}
<1>1. T \subseteq FiniteSubsetsOf(Nat)
  <2>1. \A n \in S : 0..n \in SUBSET Nat /\ IsFiniteSet(0..n)
    BY FS_Interval
  <2>2. QED
    BY <2>1 DEF FiniteSubsetsOf
<1>2. T # {}
  OBVIOUS
<1> HIDE DEF T
<1>3. PICK I \in T : \A J \in T : ~(<<J, I>> \in StrictSubsetOrdering(Nat))
  BY <1>1, <1>2, FS_StrictSubsetOrderingWellFounded, WFMin, Zenon
<1>4. PICK m \in S : I = 0..m
  BY <1>3 DEF T
<1>5. ASSUME NEW n \in S, ~(m <= n)
      PROVE  FALSE
  <2>1. m \in Nat /\ n \in Nat
    OBVIOUS
  <2>2. 0..n \subseteq 0..m /\ 0..n # 0..m
    BY <1>5, <2>1
  <2>3. 0..n \in SUBSET Nat /\ 0..m \in SUBSET Nat
    BY <2>1
  <2>4. <<0..n, 0..m>> \in StrictSubsetOrdering(Nat)
    BY <2>2, <2>3 DEF StrictSubsetOrdering
  <2>5. QED
    BY <1>3, <1>4, <2>4 DEF T
<1>6. QED
  BY <1>5

\* A set whose elements are told apart by elements of a finite set has no more elements.
LEMMA NoMoreThan ==
  ASSUME NEW S, NEW T, NEW f \in [S -> T], IsFiniteSet(T),
         \A x, y \in S : f[x] = f[y] => x = y
  PROVE  /\ IsFiniteSet(S)
         /\ Cardinality(S) <= Cardinality(T)
         /\ Cardinality(S) = Cardinality(T) => \A y \in T : \E x \in S : f[x] = y
<1>1. f \in Injection(S, T)
  BY Fun_IsInj
<1>2. /\ IsFiniteSet(S)
      /\ Cardinality(S) <= Cardinality(T)
      /\ Cardinality(S) = Cardinality(T) => f \in Surjection(S, T)
  BY <1>1, FS_Injection
<1>3. ASSUME f \in Surjection(S, T)
      PROVE  \A y \in T : \E x \in S : f[x] = y
  BY <1>3, Fun_SurjectionProperties
<1>4. QED
  BY <1>2, <1>3

-----------------------------------------------------------------------------

AtMost(S, n) == IsFiniteSet(S) /\ Cardinality(S) <= n

\* A set with at most n elements that loses some,
LEMMA AtMostFewer ==
  ASSUME NEW S, NEW T, NEW n \in Nat, AtMost(S, n), T \subseteq S
  PROVE  AtMost(T, n)
<1>1. IsFiniteSet(T) /\ Cardinality(T) <= Cardinality(S)
  BY FS_Subset DEF AtMost
<1>2. Cardinality(S) \in Nat /\ Cardinality(T) \in Nat
  BY <1>1, FS_CardinalityType DEF AtMost
<1>3. QED
  BY <1>1, <1>2 DEF AtMost

\* that gets one more,
LEMMA AtMostOneMore ==
  ASSUME NEW S, NEW T, NEW n \in Nat, NEW x, AtMost(S, n), T \subseteq S \cup {x}
  PROVE  AtMost(T, n + 1)
<1>1. /\ IsFiniteSet(S \cup {x})
      /\ Cardinality(S \cup {x}) = Cardinality(S) \/ Cardinality(S \cup {x}) = Cardinality(S) + 1
  BY FS_AddElement DEF AtMost
<1>2. Cardinality(S) \in Nat
  BY FS_CardinalityType DEF AtMost
<1>3. AtMost(S \cup {x}, n + 1)
  BY <1>1, <1>2 DEF AtMost
<1>4. QED
  BY <1>3, AtMostFewer

\* and that has one in place of another.
LEMMA AtMostExchanged ==
  ASSUME NEW S, NEW T, NEW n \in Nat, NEW x \in S, NEW y, AtMost(S, n),
         T \subseteq (S \ {x}) \cup {y}
  PROVE  AtMost(T, n)
<1>1. IsFiniteSet(S \ {x}) /\ Cardinality(S \ {x}) = Cardinality(S) - 1
  BY FS_RemoveElement DEF AtMost
<1>2. Cardinality(S) \in Nat /\ Cardinality(S \ {x}) \in Nat
  BY <1>1, FS_CardinalityType DEF AtMost
<1>3. n - 1 \in Nat /\ AtMost(S \ {x}, n - 1)
  BY <1>1, <1>2 DEF AtMost
<1>4. AtMost(T, n - 1 + 1)
  BY <1>3, AtMostOneMore
<1>5. QED
  BY <1>4

LEMMA AtMostNone ==
  ASSUME NEW n \in Nat
  PROVE  AtMost({}, n)
BY FS_EmptySet DEF AtMost

-----------------------------------------------------------------------------

\* Three sets that are counted together, whatever they have in common.
Together(A, B, C) ==
  {<<1, a>> : a \in A} \cup {<<2, b>> : b \in B} \cup {<<3, c>> : c \in C}

LEMMA FirstOfThree ==
  ASSUME NEW A, NEW B, NEW C, NEW n \in Nat, AtMost(Together(A, B, C), n)
  PROVE  IsFiniteSet(A) /\ Cardinality(A) <= n
<1> DEFINE T == Together(A, B, C)
           f == [a \in A |-> <<1, a>>]
<1>1. f \in [A -> T]
  BY DEF Together
<1>2. \A x, y \in A : f[x] = f[y] => x = y
  OBVIOUS
<1>3. IsFiniteSet(T) /\ Cardinality(T) <= n
  BY DEF AtMost
<1> HIDE DEF f, T
<1>4. IsFiniteSet(A) /\ Cardinality(A) <= Cardinality(T)
  BY <1>1, <1>2, <1>3, NoMoreThan
<1>5. Cardinality(A) \in Nat /\ Cardinality(T) \in Nat
  BY <1>3, <1>4, FS_CardinalityType
<1>6. QED
  BY <1>3, <1>4, <1>5

LEMMA TogetherFewer ==
  ASSUME NEW A, NEW B, NEW C, NEW D, NEW E, NEW F, NEW n \in Nat,
         AtMost(Together(A, B, C), n), D \subseteq A, E \subseteq B, F \subseteq C
  PROVE  AtMost(Together(D, E, F), n)
<1>1. Together(D, E, F) \subseteq Together(A, B, C)
  BY Zenon DEF Together
<1>2. QED
  BY <1>1, AtMostFewer

\* One more in the second or the third set,
LEMMA TogetherOneMore ==
  ASSUME NEW A, NEW B, NEW C, NEW D, NEW E, NEW F, NEW x, NEW n \in Nat,
         AtMost(Together(A, B, C), n), D \subseteq A,
         \/ E \subseteq B \cup {x} /\ F \subseteq C
         \/ E \subseteq B /\ F \subseteq C \cup {x}
  PROVE  AtMost(Together(D, E, F), n + 1)
<1>1. ASSUME E \subseteq B \cup {x}, F \subseteq C
      PROVE  Together(D, E, F) \subseteq Together(A, B, C) \cup {<<2, x>>}
  BY <1>1, Zenon DEF Together
<1>2. ASSUME E \subseteq B, F \subseteq C \cup {x}
      PROVE  Together(D, E, F) \subseteq Together(A, B, C) \cup {<<3, x>>}
  BY <1>2, Zenon DEF Together
<1>3. QED
  BY <1>1, <1>2, AtMostOneMore, Zenon

\* one that goes from the second set to the first,
LEMMA TogetherToFirst ==
  ASSUME NEW A, NEW B, NEW C, NEW D, NEW E, NEW F, NEW x \in B, NEW y, NEW n \in Nat,
         AtMost(Together(A, B, C), n), D \subseteq A \cup {y}, E \subseteq B \ {x}, F \subseteq C
  PROVE  AtMost(Together(D, E, F), n)
<1>1. <<2, x>> \in Together(A, B, C)
  BY DEF Together
<1>2. Together(D, E, F) \subseteq (Together(A, B, C) \ {<<2, x>>}) \cup {<<1, y>>}
  BY DEF Together
<1>3. QED
  BY <1>1, <1>2, AtMostExchanged

\* and one that goes from the third set to the second.
LEMMA TogetherToSecond ==
  ASSUME NEW A, NEW B, NEW C, NEW D, NEW E, NEW F, NEW x \in C, NEW y, NEW n \in Nat,
         AtMost(Together(A, B, C), n), D \subseteq A, E \subseteq B \cup {y}, F \subseteq C \ {x}
  PROVE  AtMost(Together(D, E, F), n)
<1>1. <<3, x>> \in Together(A, B, C)
  BY DEF Together
<1>2. Together(D, E, F) \subseteq (Together(A, B, C) \ {<<3, x>>}) \cup {<<2, y>>}
  BY DEF Together
<1>3. QED
  BY <1>1, <1>2, AtMostExchanged

===============================================================================
