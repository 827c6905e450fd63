------------------------------ MODULE SumProofs -------------------------------
(***************************************************************************)
(* Finite sums.  The sums of the accounting modules are folds of the       *)
(* library over sets of rows, defined by recursion over subsets in an      *)
(* order that CHOOSE fixes.  What the proofs of those modules need is that *)
(* the order is immaterial: a row that is added adds its value.            *)
(*                                                                         *)
(* Induction is by a least counterexample: the theorems of the library on  *)
(* well-founded orders speak of sets, so P below is the set of the finite  *)
(* sets for which a statement holds.                                       *)
(***************************************************************************)
EXTENDS FiniteSetTheorems, Functions, TLAPS

\* What holds of {} and of a set with another element holds of every finite
\* set, where P is the set of those it holds of.
LEMMA SetInduction ==
    ASSUME NEW S, IsFiniteSet(S), NEW P \in SUBSET (SUBSET S),
           \A T \in SUBSET S : (\A U \in SUBSET T : U # T => U \in P) => T \in P
    PROVE  P = SUBSET S
<1> SUFFICES ASSUME P # SUBSET S PROVE FALSE
  OBVIOUS
<1> DEFINE Q == (SUBSET S) \ P
           R == StrictSubsetOrdering(S)
<1>1. Q # {} /\ Q \subseteq SUBSET S
  OBVIOUS
<1>2. IsWellFoundedOn(R, SUBSET S)
  <2>1. FiniteSubsetsOf(S) = SUBSET S
    BY FS_FiniteSubsetsOfFinite
  <2>2. IsWellFoundedOn(R, FiniteSubsetsOf(S))
    BY FS_StrictSubsetOrderingWellFounded
  <2> QED BY <2>1, <2>2
<1>3. PICK T \in Q : \A U \in Q : ~(<<U, T>> \in R)
  <2> HIDE DEF R, Q
  <2> QED BY <1>1, <1>2, WFMin
<1>4. ASSUME NEW U \in SUBSET T, U # T PROVE U \in P
  <2>1. <<U, T>> \in (SUBSET S) \X (SUBSET S)
    BY <1>1, <1>3, <1>4
  <2>2. <<U, T>> \in R
    BY <1>4, <2>1 DEF StrictSubsetOrdering
  <2> QED BY <1>3, <1>4, <2>1, <2>2
<1> QED BY <1>1, <1>3, <1>4

\* A finite set of numbers has a largest.
LEMMA LargestExists ==
    ASSUME NEW S, IsFiniteSet(S), S # {}, S \subseteq Int
    PROVE  \E m \in S : \A x \in S : m >= x
<1> DEFINE P == {A \in SUBSET S : A # {} => \E m \in A : \A x \in A : x <= m}
<1>1. ASSUME NEW A \in SUBSET S, \A U \in SUBSET A : U # A => U \in P PROVE A \in P
  <2> SUFFICES ASSUME A # {} PROVE \E m \in A : \A x \in A : x <= m
    OBVIOUS
  <2>1. PICK y \in A : TRUE
    OBVIOUS
  <2> DEFINE B == A \ {y}
  <2>2. B \in P
    BY <1>1, <2>1
  <2>3. CASE B = {}
    <3>1. \A x \in A : x = y
      BY <2>3
    <3> QED BY <2>1, <3>1
  <2>4. CASE B # {}
    <3>1. PICK m \in B : \A x \in B : x <= m
      BY <2>2, <2>4
    <3>2. m \in A /\ m \in Int /\ y \in Int /\ \A x \in A : x \in Int /\ (x = y \/ x \in B)
      BY <2>1, <3>1
    <3>3. CASE y <= m
      BY <3>1, <3>2, <3>3
    <3>4. CASE m <= y
      BY <3>1, <3>2, <3>4
    <3> QED BY <3>2, <3>3, <3>4
  <2> QED BY <2>3, <2>4
<1>2. P = SUBSET S
  <2> HIDE DEF P
  <2>1. P \in SUBSET (SUBSET S)
    BY DEF P
  <2> QED BY <1>1, <2>1, SetInduction
<1>3. \E m \in S : \A x \in S : x <= m
  BY <1>2
<1> QED BY <1>3

\* What holds of 0 and of the successor of a number it holds of holds of every
\* natural number.
LEMMA NatInductionSet ==
    ASSUME NEW P \in SUBSET Nat, 0 \in P, \A n \in P : n + 1 \in P
    PROVE  P = Nat
<1> SUFFICES ASSUME P # Nat PROVE FALSE
  OBVIOUS
<1> DEFINE Q == Nat \ P
<1>1. Q # {} /\ Q \subseteq Nat
  OBVIOUS
<1>2. PICK m \in Q : \A k \in Q : ~(<<k, m>> \in OpToRel(<, Nat))
  <2> HIDE DEF Q
  <2> QED BY <1>1, NatLessThanWellFounded, WFMin
<1>3. m \in Nat /\ m # 0 /\ m \notin P
  OBVIOUS
<1>4. m - 1 \in P
  <2>1. m - 1 \in Nat /\ <<m - 1, m>> \in OpToRel(<, Nat)
    BY <1>3 DEF OpToRel
  <2> QED BY <1>2, <2>1
<1> HIDE DEF Q
<1>5. (m - 1) + 1 = m
  BY <1>3
<1> QED BY <1>3, <1>4, <1>5

-----------------------------------------------------------------------------
Chosen(s) == CHOOSE x \in s : TRUE

\* g is the table of sums of F over the subsets of S that the fold builds.
Table(F, S, g) ==
    g = [s \in SUBSET S |-> IF s = {} THEN 0 ELSE F[Chosen(s)] + g[s \ {Chosen(s)}]]

LEMMA SumIsTable ==
    ASSUME NEW F, NEW S
    PROVE  SumFunctionOnSet(F, S) = (CHOOSE g : Table(F, S, g))[S]
BY DEF SumFunctionOnSet, FoldFunctionOnSet, MapThenFoldSet, Table, Chosen

LEMMA ChosenIn == \A s : s # {} => Chosen(s) \in s
BY DEF Chosen

\* What a table says of each subset.
LEMMA TableStep ==
    ASSUME NEW F, NEW S, NEW g, Table(F, S, g), NEW s \in SUBSET S
    PROVE  g[s] = IF s = {} THEN 0 ELSE F[Chosen(s)] + g[s \ {Chosen(s)}]
BY DEF Table

\* Two tables agree wherever their functions do.
LEMMA TablesAgree ==
    ASSUME NEW F, NEW G, NEW S, NEW T, NEW g, NEW h, NEW A \in SUBSET (S \cap T),
           IsFiniteSet(A), Table(F, S, g), Table(G, T, h), \A x \in A : F[x] = G[x]
    PROVE  g[A] = h[A]
<1> DEFINE P == {s \in SUBSET A : g[s] = h[s]}
<1>1. ASSUME NEW s \in SUBSET A, \A U \in SUBSET s : U # s => U \in P PROVE s \in P
  <2>0. s \in SUBSET S /\ s \in SUBSET T
    OBVIOUS
  <2>1. g[s] = IF s = {} THEN 0 ELSE F[Chosen(s)] + g[s \ {Chosen(s)}]
    BY <2>0, TableStep
  <2>2. h[s] = IF s = {} THEN 0 ELSE G[Chosen(s)] + h[s \ {Chosen(s)}]
    BY <2>0, TableStep
  <2>3. s # {} => s \ {Chosen(s)} \in P /\ Chosen(s) \in A
    BY <1>1, ChosenIn
  <2> QED BY <2>1, <2>2, <2>3
<1>2. P \in SUBSET (SUBSET A)
  OBVIOUS
<1> HIDE DEF P
<1>3. P = SUBSET A
  BY <1>1, <1>2, SetInduction
<1>4. A \in P
  BY <1>3
<1> QED BY <1>4 DEF P

LEMMA TableOfSubset ==
    ASSUME NEW F, NEW S, NEW T \in SUBSET S, IsFiniteSet(T), NEW g, NEW h,
           Table(F, S, g), Table(F, T, h)
    PROVE  g[T] = h[T]
<1>1. T \in SUBSET (S \cap T)
  OBVIOUS
<1> QED BY <1>1, TablesAgree

\* The order of a sum is immaterial: any element may be taken out first.
LEMMA TableExchange ==
    ASSUME NEW F, NEW S, NEW g, Table(F, S, g), IsFiniteSet(S), \A x \in S : F[x] \in Int,
           NEW A \in SUBSET S
    PROVE  g[A] \in Int /\ \A x \in A : g[A] = F[x] + g[A \ {x}]
<1> DEFINE P == {s \in SUBSET S : g[s] \in Int /\ \A x \in s : g[s] = F[x] + g[s \ {x}]}
<1>1. ASSUME NEW s \in SUBSET S, \A U \in SUBSET s : U # s => U \in P PROVE s \in P
  <2>1. CASE s = {}
    <3>1. g[s] = 0
      BY <2>1, TableStep
    <3> QED BY <2>1, <3>1
  <2>2. CASE s # {}
    <3> DEFINE y == Chosen(s)
    <3>0. g[s] = IF s = {} THEN 0 ELSE F[Chosen(s)] + g[s \ {Chosen(s)}]
      BY TableStep
    <3>1. y \in s /\ g[s] = F[y] + g[s \ {y}]
      BY <2>2, <3>0, ChosenIn
    <3> HIDE DEF y
    <3>2. F[y] \in Int /\ g[s \ {y}] \in Int
      BY <1>1, <3>1
    <3>3. ASSUME NEW x \in s, x # y PROVE g[s] = F[x] + g[s \ {x}]
      <4>0. s \ {y} \in P /\ s \ {x} \in P
        BY <1>1, <3>1, <3>3
      <4>1. g[s \ {y}] = F[x] + g[(s \ {y}) \ {x}]
        BY <3>3, <4>0
      <4>2. g[s \ {x}] = F[y] + g[(s \ {x}) \ {y}]
        BY <3>1, <3>3, <4>0
      <4>3. (s \ {y}) \ {x} = (s \ {x}) \ {y} /\ (s \ {x}) \ {y} \in P
        BY <1>1, <3>1, <3>3
      <4>4. g[(s \ {x}) \ {y}] \in Int /\ F[x] \in Int
        BY <4>3
      <4>5. g[s] = F[y] + (F[x] + g[(s \ {x}) \ {y}])
        BY <3>1, <4>1, <4>3
      <4>6. F[x] + g[s \ {x}] = F[x] + (F[y] + g[(s \ {x}) \ {y}])
        BY <4>2
      <4>7. \A a, b, c \in Int : a + (b + c) = b + (a + c)
        OBVIOUS
      <4> QED BY <3>2, <4>4, <4>5, <4>6, <4>7
    <3>4. F[y] + g[s \ {y}] \in Int
      BY <3>2
    <3>5. \A x \in s : g[s] = F[x] + g[s \ {x}]
      BY <3>1, <3>3
    <3> QED BY <3>1, <3>4, <3>5
  <2> QED BY <2>1, <2>2
<1>2. P \in SUBSET (SUBSET S)
  OBVIOUS
<1> HIDE DEF P
<1>3. P = SUBSET S
  BY <1>1, <1>2, SetInduction
<1>4. A \in P
  BY <1>3
<1> QED BY <1>4 DEF P

\* The fold is well defined on finite sets: there is a table.
LEMMA TableExists ==
    ASSUME NEW F, NEW S, IsFiniteSet(S)
    PROVE  Table(F, S, CHOOSE g : Table(F, S, g))
<1> DEFINE
      N == Cardinality(S)
      Small(n) == {s \in SUBSET S : Cardinality(s) <= n}
      Step(g, s) == IF s = {} THEN 0 ELSE F[Chosen(s)] + g[s \ {Chosen(s)}]
      Upto(n, g) == g = [s \in Small(n) |-> Step(g, s)]
<1>0. N \in Nat /\ \A s \in SUBSET S : IsFiniteSet(s) /\ Cardinality(s) \in Nat /\ Cardinality(s) <= N
  BY FS_CardinalityType, FS_Subset
<1>1. \E g : Upto(0, g)
  <2> DEFINE g == [s \in Small(0) |-> 0]
  <2>1. \A s \in Small(0) : s = {}
    BY <1>0, FS_EmptySet
  <2>2. Upto(0, g)
    BY <2>1
  <2> QED BY <2>2
<1>2. ASSUME NEW n \in Nat, NEW g, Upto(n, g) PROVE \E h : Upto(n + 1, h)
  <2> DEFINE h == [s \in Small(n + 1) |-> IF Cardinality(s) <= n THEN g[s] ELSE Step(g, s)]
  <2>1. ASSUME NEW s \in Small(n + 1), s # {}
        PROVE  s \ {Chosen(s)} \in Small(n)
    <3>1. Chosen(s) \in s /\ IsFiniteSet(s)
      BY <1>0, <2>1, ChosenIn
    <3>2. Cardinality(s \ {Chosen(s)}) = Cardinality(s) - 1
      BY <3>1, FS_RemoveElement
    <3> QED BY <1>0, <2>1, <3>2
  <2>2. \A s \in Small(n) : s \in Small(n + 1) /\ h[s] = g[s]
    BY <1>0
  <2>3. ASSUME NEW s \in Small(n + 1) PROVE h[s] = Step(h, s)
    <3>1. CASE Cardinality(s) <= n
      <4>1. s \in Small(n) /\ h[s] = g[s] /\ g[s] = Step(g, s)
        BY <1>2, <2>3, <3>1, <2>2
      <4>2. s # {} => h[s \ {Chosen(s)}] = g[s \ {Chosen(s)}]
        BY <2>1, <2>2, <2>3
      <4> HIDE DEF h
      <4> QED BY <4>1, <4>2
    <3>2. CASE ~(Cardinality(s) <= n)
      <4>1. h[s] = Step(g, s)
        BY <2>3, <3>2
      <4>2. s # {} => h[s \ {Chosen(s)}] = g[s \ {Chosen(s)}]
        BY <2>1, <2>2, <2>3
      <4> HIDE DEF h
      <4> QED BY <4>1, <4>2
    <3> QED BY <3>1, <3>2
  <2>4. h = [s \in Small(n + 1) |-> h[s]]
    OBVIOUS
  <2> HIDE DEF h, Small
  <2>5. Upto(n + 1, h)
    BY <2>3, <2>4
  <2> QED BY <2>5
<1> HIDE DEF Upto
<1>3. \E g : Upto(N, g)
  <2> DEFINE P == {n \in Nat : \E g : Upto(n, g)}
  <2>1. P \in SUBSET Nat /\ 0 \in P /\ \A n \in P : n + 1 \in P
    BY <1>1, <1>2
  <2> HIDE DEF P
  <2>2. N \in P
    BY <1>0, <2>1, NatInductionSet
  <2> QED BY <2>2 DEF P
<1>4. Small(N) = SUBSET S
  BY <1>0
<1>5. \E g : Table(F, S, g)
  BY <1>3, <1>4 DEF Upto, Table
<1> QED BY <1>5

-----------------------------------------------------------------------------
\* A sum over a finite set is an integer, and nothing is summed over {}.
LEMMA SumType ==
    ASSUME NEW F, NEW S, IsFiniteSet(S), \A x \in S : F[x] \in Int
    PROVE  SumFunctionOnSet(F, S) \in Int
<1>1. Table(F, S, CHOOSE g : Table(F, S, g))
  BY TableExists
<1> QED BY <1>1, SumIsTable, TableExchange

LEMMA SumEmpty == ASSUME NEW F PROVE SumFunctionOnSet(F, {}) = 0
<1>1. Table(F, {}, CHOOSE g : Table(F, {}, g))
  BY TableExists, FS_EmptySet
<1> QED BY <1>1, SumIsTable, TableStep

\* Functions with the same values have the same sum.
LEMMA SumSame ==
    ASSUME NEW F, NEW G, NEW S, IsFiniteSet(S), \A x \in S : F[x] = G[x]
    PROVE  SumFunctionOnSet(F, S) = SumFunctionOnSet(G, S)
<1>1. Table(F, S, CHOOSE g : Table(F, S, g)) /\ Table(G, S, CHOOSE g : Table(G, S, g))
  BY TableExists
<1> QED BY <1>1, SumIsTable, TablesAgree

\* A sum is the value of any element and the sum of the others.
LEMMA SumRemove ==
    ASSUME NEW F, NEW S, IsFiniteSet(S), \A x \in S : F[x] \in Int, NEW y \in S
    PROVE  SumFunctionOnSet(F, S) = F[y] + SumFunctionOnSet(F, S \ {y})
<1> DEFINE g == CHOOSE g : Table(F, S, g)
           h == CHOOSE h : Table(F, S \ {y}, h)
<1>0. IsFiniteSet(S \ {y})
  BY FS_RemoveElement
<1>1. Table(F, S, g) /\ Table(F, S \ {y}, h)
  BY <1>0, TableExists
<1> HIDE DEF g, h
<1>2. g[S] = F[y] + g[S \ {y}]
  BY <1>1, TableExchange
<1>3. g[S \ {y}] = h[S \ {y}]
  BY <1>0, <1>1, TableOfSubset
<1> QED BY <1>2, <1>3, SumIsTable DEF g, h

\* A new element adds its value.
LEMMA SumAdd ==
    ASSUME NEW F, NEW S, IsFiniteSet(S), NEW y, y \notin S, \A x \in S \cup {y} : F[x] \in Int
    PROVE  /\ IsFiniteSet(S \cup {y})
           /\ SumFunctionOnSet(F, S \cup {y}) = SumFunctionOnSet(F, S) + F[y]
<1>1. IsFiniteSet(S \cup {y}) /\ (S \cup {y}) \ {y} = S
  BY FS_AddElement
<1>2. SumFunctionOnSet(F, S \cup {y}) = F[y] + SumFunctionOnSet(F, S)
  BY <1>1, SumRemove
<1>3. SumFunctionOnSet(F, S) \in Int /\ F[y] \in Int
  BY SumType
<1> QED BY <1>1, <1>2, <1>3

\* A table of which one entry moves by d has a sum that moves by d.
LEMMA SumMove ==
    ASSUME NEW F, NEW G, NEW S, IsFiniteSet(S), \A x \in S : F[x] \in Int, NEW y \in S, NEW d \in Int,
           G[y] = F[y] + d, \A x \in S : x # y => G[x] = F[x]
    PROVE  SumFunctionOnSet(G, S) = SumFunctionOnSet(F, S) + d
<1> DEFINE R == S \ {y}
<1>0. IsFiniteSet(R) /\ (\A x \in R : F[x] \in Int /\ G[x] = F[x]) /\ (\A x \in S : G[x] \in Int)
  BY FS_RemoveElement
<1>1. SumFunctionOnSet(F, S) = F[y] + SumFunctionOnSet(F, R)
  BY SumRemove
<1>2. SumFunctionOnSet(G, S) = G[y] + SumFunctionOnSet(G, R)
  BY <1>0, SumRemove
<1>3. SumFunctionOnSet(G, R) = SumFunctionOnSet(F, R) /\ SumFunctionOnSet(F, R) \in Int
  <2> HIDE DEF R
  <2> QED BY <1>0, SumSame, SumType
<1> QED BY <1>1, <1>2, <1>3

\* Sums over disjoint sets add up.
LEMMA SumUnion ==
    ASSUME NEW F, NEW S, NEW T, IsFiniteSet(S), IsFiniteSet(T), S \cap T = {},
           \A x \in S \cup T : F[x] \in Int
    PROVE  SumFunctionOnSet(F, S \cup T) = SumFunctionOnSet(F, S) + SumFunctionOnSet(F, T)
<1> DEFINE Sum(A) == SumFunctionOnSet(F, A)
           P == {A \in SUBSET T : Sum(S \cup A) = Sum(S) + Sum(A)}
<1>0. Sum(S) \in Int /\ \A A \in SUBSET T : IsFiniteSet(A) /\ Sum(A) \in Int
  <2>1. \A A \in SUBSET T : IsFiniteSet(A)
    BY FS_Subset
  <2> QED BY <2>1, SumType
<1>1. ASSUME NEW A \in SUBSET T, \A U \in SUBSET A : U # A => U \in P PROVE A \in P
  <2>1. CASE A = {}
    <3>1. Sum({}) = 0 /\ S \cup A = S
      BY <2>1, SumEmpty
    <3> QED BY <1>0, <2>1, <3>1
  <2>2. CASE A # {}
    <3>1. PICK y \in A : TRUE
      BY <2>2
    <3> DEFINE B == A \ {y}
    <3>2. B \in P /\ y \notin B /\ y \notin S \cup B /\ A = B \cup {y} /\ S \cup A = (S \cup B) \cup {y}
      BY <1>1, <3>1
    <3> HIDE DEF B
    <3>3. IsFiniteSet(B) /\ IsFiniteSet(S \cup B) /\ B \in SUBSET T
      BY <1>0, <3>2, FS_Union
    <3>4. \A x \in (S \cup B) \cup {y} : F[x] \in Int
      BY <3>2
    <3>5. Sum(A) = Sum(B) + F[y] /\ Sum(S \cup A) = Sum(S \cup B) + F[y]
      BY <3>2, <3>3, <3>4, SumAdd
    <3>6. Sum(S \cup B) = Sum(S) + Sum(B) /\ Sum(B) \in Int /\ F[y] \in Int
      BY <1>0, <3>2, <3>3, <3>4
    <3> HIDE DEF Sum
    <3>7. Sum(S \cup A) = Sum(S) + Sum(A)
      BY <1>0, <3>5, <3>6
    <3> QED BY <3>7
  <2> QED BY <2>1, <2>2
<1>2. P \in SUBSET (SUBSET T)
  OBVIOUS
<1> HIDE DEF P
<1>3. P = SUBSET T
  BY <1>1, <1>2, SetInduction
<1>4. T \in P
  BY <1>3
<1> QED BY <1>4 DEF P

\* The values a function takes on a finite set are finitely many.
LEMMA FiniteImage ==
    ASSUME NEW D, IsFiniteSet(D), NEW s, NEW R, R = {s[k] : k \in D}
    PROVE  IsFiniteSet(R)
<1> DEFINE f == [k \in D |-> s[k]]
<1>1. f \in [D -> R] /\ \A y \in R : \E k \in D : f[k] = y
  OBVIOUS
<1>2. f \in Surjection(D, R)
  BY <1>1 DEF Surjection
<1> HIDE DEF f
<1> QED BY <1>2, FS_Surjection

\* A sum over places, of which only those in M count, is the sum over the set
\* of the values at those places when no two of them are equal.
LEMMA SumImage ==
    ASSUME NEW D, IsFiniteSet(D), NEW M \in SUBSET D, NEW s, NEW F, NEW G,
           \A j, k \in D : s[j] = s[k] => j = k,
           \A k \in D : F[k] = IF k \in M THEN G[s[k]] ELSE 0,
           \A k \in D : F[k] \in Int
    PROVE  /\ IsFiniteSet({s[k] : k \in M})
           /\ SumFunctionOnSet(F, D) = SumFunctionOnSet(G, {s[k] : k \in M})
<1> DEFINE Im(A) == {s[k] : k \in A \cap M}
           P == {A \in SUBSET D : IsFiniteSet(Im(A)) /\ SumFunctionOnSet(F, A) = SumFunctionOnSet(G, Im(A))}
<1>0. \A A \in SUBSET D : IsFiniteSet(A)
  BY FS_Subset
<1>1. ASSUME NEW A \in SUBSET D, \A U \in SUBSET A : U # A => U \in P PROVE A \in P
  <2>1. CASE A = {}
    <3>1. Im(A) = {}
      BY <2>1
    <3>2. SumFunctionOnSet(F, {}) = 0 /\ SumFunctionOnSet(G, {}) = 0 /\ IsFiniteSet({})
      BY SumEmpty, FS_EmptySet
    <3> QED BY <2>1, <3>1, <3>2
  <2>2. CASE A # {}
    <3>1. PICK y \in A : TRUE
      BY <2>2
    <3> DEFINE B == A \ {y}
    <3>2. B \in P /\ y \notin B /\ A = B \cup {y} /\ B \in SUBSET D /\ y \in D
      BY <1>1, <3>1
    <3>3. /\ SumFunctionOnSet(F, A) = SumFunctionOnSet(F, B) + F[y]
          /\ SumFunctionOnSet(F, B) \in Int
      <4> HIDE DEF B
      <4>1. IsFiniteSet(B) /\ \A x \in B \cup {y} : F[x] \in Int
        BY <1>0, <3>2
      <4> QED BY <3>2, <4>1, SumAdd, SumType
    <3>4. IsFiniteSet(Im(B)) /\ SumFunctionOnSet(F, B) = SumFunctionOnSet(G, Im(B))
      BY <3>2
    <3>5. CASE y \in M
      <4>1. Im(A) = Im(B) \cup {s[y]} /\ s[y] \notin Im(B)
        BY <3>1, <3>2, <3>5
      <4>2. \A x \in Im(B) \cup {s[y]} : G[x] \in Int
        <5>1. ASSUME NEW k \in M PROVE G[s[k]] \in Int
          <6>1. k \in D /\ F[k] = G[s[k]]
            BY <5>1
          <6>2. F[k] \in Int
            BY <6>1
          <6> QED BY <6>1, <6>2
        <5>2. \A x \in Im(B) \cup {s[y]} : \E k \in M : x = s[k]
          BY <3>5
        <5> QED BY <5>1, <5>2
      <4> DEFINE I == Im(B)
                 z == s[y]
      <4> HIDE DEF Im, B
      <4>3. IsFiniteSet(I \cup {z}) /\ SumFunctionOnSet(G, I \cup {z}) = SumFunctionOnSet(G, I) + G[z]
        <5>1. IsFiniteSet(I) /\ z \notin I /\ \A x \in I \cup {z} : G[x] \in Int
          BY <3>4, <4>1, <4>2
        <5> HIDE DEF I, z
        <5> QED BY <5>1, SumAdd
      <4>4. IsFiniteSet(Im(A)) /\ SumFunctionOnSet(G, Im(A)) = SumFunctionOnSet(G, Im(B)) + G[s[y]]
        BY <4>1, <4>3
      <4>5. G[s[y]] = F[y]
        BY <3>2, <3>5
      <4>6. SumFunctionOnSet(F, A) = SumFunctionOnSet(G, Im(A))
        BY <3>3, <3>4, <4>4, <4>5
      <4> QED BY <4>4, <4>6
    <3>6. CASE y \notin M
      <4>1. Im(A) = Im(B)
        BY <3>1, <3>2, <3>6
      <4>2. F[y] = 0
        BY <3>2, <3>6
      <4> HIDE DEF Im
      <4>3. SumFunctionOnSet(F, A) = SumFunctionOnSet(F, B)
        BY <3>3, <4>2
      <4> QED BY <3>4, <4>1, <4>3
    <3> QED BY <3>5, <3>6
  <2> QED BY <2>1, <2>2
<1>2. P \in SUBSET (SUBSET D)
  OBVIOUS
<1> HIDE DEF P
<1>3. P = SUBSET D
  BY <1>1, <1>2, SetInduction
<1>4. D \in P
  BY <1>3
<1>5. Im(D) = {s[k] : k \in M}
  OBVIOUS
<1> HIDE DEF Im
<1> QED BY <1>4, <1>5 DEF P
\* A sum of numbers that are at most L.
LEMMA SumBounded ==
    ASSUME NEW S, IsFiniteSet(S), NEW F, NEW L \in Nat, \A x \in S : F[x] \in Int /\ F[x] <= L
    PROVE  Cardinality(S) \in Nat /\ SumFunctionOnSet(F, S) <= Cardinality(S) * L
<1> DEFINE P == {A \in SUBSET S : SumFunctionOnSet(F, A) <= Cardinality(A) * L}
<1>0. \A A \in SUBSET S : IsFiniteSet(A) /\ Cardinality(A) \in Nat
  BY FS_Subset, FS_CardinalityType
<1>1. ASSUME NEW A \in SUBSET S, \A U \in SUBSET A : U # A => U \in P PROVE A \in P
  <2>1. CASE A = {}
    <3>1. SumFunctionOnSet(F, {}) = 0 /\ Cardinality({}) = 0
      BY SumEmpty, FS_EmptySet
    <3> QED BY <2>1, <3>1
  <2>2. CASE A # {}
    <3>1. PICK y \in A : TRUE
      BY <2>2
    <3> DEFINE B == A \ {y}
    <3>2. B \in P /\ B \in SUBSET S /\ F[y] \in Int /\ F[y] <= L
      BY <1>1, <3>1
    <3>3. SumFunctionOnSet(F, A) = F[y] + SumFunctionOnSet(F, B) /\ SumFunctionOnSet(F, B) \in Int
      <4>1. IsFiniteSet(A) /\ IsFiniteSet(B) /\ (\A x \in A : F[x] \in Int) /\ (\A x \in B : F[x] \in Int)
        BY <1>0, <3>2
      <4>2. SumFunctionOnSet(F, A) = F[y] + SumFunctionOnSet(F, A \ {y})
        BY <3>1, <4>1, SumRemove
      <4>3. SumFunctionOnSet(F, B) \in Int
        <5> HIDE DEF B
        <5> QED BY <4>1, SumType
      <4> QED BY <4>2, <4>3
    <3>4. Cardinality(B) = Cardinality(A) - 1 /\ Cardinality(A) \in Nat /\ Cardinality(B) \in Nat
      BY <1>0, <3>1, <3>2, FS_RemoveElement
    <3>5. SumFunctionOnSet(F, B) <= Cardinality(B) * L
      BY <3>2
    <3>6. Cardinality(A) * L = Cardinality(B) * L + L
      <4> DEFINE n == Cardinality(A)
      <4>1. n \in Nat /\ Cardinality(B) = n - 1
        BY <3>4
      <4> HIDE DEF n
      <4>2. n * L = (n - 1) * L + L
        BY <4>1
      <4> QED BY <4>1, <4>2 DEF n
    <3>7. Cardinality(B) * L \in Int /\ Cardinality(A) * L \in Int
      BY <3>4
    <3> QED BY <3>2, <3>3, <3>5, <3>6, <3>7
  <2> QED BY <2>1, <2>2
<1>2. P = SUBSET S
  <2> HIDE DEF P
  <2>1. P \in SUBSET (SUBSET S)
    BY DEF P
  <2> QED BY <1>1, <2>1, SetInduction
<1> QED BY <1>0, <1>2

\* A sum of natural numbers is one.
LEMMA SumNatural ==
    ASSUME NEW S, IsFiniteSet(S), NEW F, \A x \in S : F[x] \in Nat
    PROVE  SumFunctionOnSet(F, S) \in Nat
<1> DEFINE P == {A \in SUBSET S : SumFunctionOnSet(F, A) \in Nat}
<1>1. ASSUME NEW A \in SUBSET S, \A U \in SUBSET A : U # A => U \in P PROVE A \in P
  <2>1. CASE A = {}
    BY <2>1, SumEmpty
  <2>2. CASE A # {}
    <3>1. PICK y \in A : TRUE
      BY <2>2
    <3>2. A \ {y} \in P /\ F[y] \in Nat
      BY <1>1, <3>1
    <3>3. IsFiniteSet(A) /\ \A x \in A : F[x] \in Int
      BY FS_Subset
    <3>4. SumFunctionOnSet(F, A) = F[y] + SumFunctionOnSet(F, A \ {y})
      BY <3>1, <3>3, SumRemove
    <3> QED BY <3>2, <3>4
  <2> QED BY <2>1, <2>2
<1>2. P = SUBSET S
  <2> HIDE DEF P
  <2>1. P \in SUBSET (SUBSET S)
    BY DEF P
  <2> QED BY <1>1, <2>1, SetInduction
<1> QED BY <1>2

\* Sums of two functions over one set add up.
LEMMA SumPlus ==
    ASSUME NEW S, IsFiniteSet(S), NEW F, NEW G, NEW H,
           \A x \in S : F[x] \in Int /\ G[x] \in Int /\ H[x] = F[x] + G[x]
    PROVE  SumFunctionOnSet(H, S) = SumFunctionOnSet(F, S) + SumFunctionOnSet(G, S)
<1> DEFINE P == {A \in SUBSET S :
                   SumFunctionOnSet(H, A) = SumFunctionOnSet(F, A) + SumFunctionOnSet(G, A)}
<1>1. ASSUME NEW A \in SUBSET S, \A U \in SUBSET A : U # A => U \in P PROVE A \in P
  <2>1. CASE A = {}
    <3>1. SumFunctionOnSet(H, {}) = 0 /\ SumFunctionOnSet(F, {}) = 0 /\ SumFunctionOnSet(G, {}) = 0
      BY SumEmpty
    <3> QED BY <2>1, <3>1
  <2>2. CASE A # {}
    <3>1. PICK y \in A : TRUE
      BY <2>2
    <3> DEFINE B == A \ {y}
    <3>2. B \in P
      BY <1>1, <3>1
    <3>3. /\ IsFiniteSet(A) /\ IsFiniteSet(B)
          /\ \A x \in A : F[x] \in Int /\ G[x] \in Int /\ H[x] \in Int /\ H[x] = F[x] + G[x]
      BY FS_Subset
    <3>4. /\ SumFunctionOnSet(F, A) = F[y] + SumFunctionOnSet(F, B)
          /\ SumFunctionOnSet(G, A) = G[y] + SumFunctionOnSet(G, B)
          /\ SumFunctionOnSet(H, A) = H[y] + SumFunctionOnSet(H, B)
      BY <3>1, <3>3, SumRemove
    <3>5. SumFunctionOnSet(F, B) \in Int /\ SumFunctionOnSet(G, B) \in Int
      <4>1. \A x \in B : F[x] \in Int /\ G[x] \in Int
        BY <3>3
      <4> HIDE DEF B
      <4> QED BY <3>3, <4>1, SumType
    <3>6. SumFunctionOnSet(H, B) = SumFunctionOnSet(F, B) + SumFunctionOnSet(G, B)
      BY <3>2
    <3> QED BY <3>1, <3>3, <3>4, <3>5, <3>6
  <2> QED BY <2>1, <2>2
<1>2. P = SUBSET S
  <2> HIDE DEF P
  <2>1. P \in SUBSET (SUBSET S)
    BY DEF P
  <2> QED BY <1>1, <2>1, SetInduction
<1> QED BY <1>2
=============================================================================
