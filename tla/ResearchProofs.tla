--------------------------- MODULE ResearchProofs ---------------------------
(***************************************************************************)
(* What the research side of the server concludes.  A walk-forward         *)
(* evaluation is fair for every manifest, list of samples, fit and result  *)
(* of a test; a comparison passes only a candidate that beats every other  *)
(* strategy, and its job and the optimizer agree on it, for every request  *)
(* and return; the experiment drafts that are shown are distinct and can   *)
(* be run, for every base and every answer of the model; and the proposals *)
(* of the model keep to the limits and locks of the operator, are resolved *)
(* twice only by requests that overlap and are listed whole, for every     *)
(* setting, answer and page size.                                          *)
(***************************************************************************)
EXTENDS WalkForward, Comparison, Drafts, Proposals, SumProofs, SequenceTheorems

-----------------------------------------------------------------------------
(* Sums. *)

\* Nothing adds up to nothing.
LEMMA SumOfZeros ==
    ASSUME NEW S, IsFiniteSet(S), NEW F, \A x \in S : F[x] = 0
    PROVE  SumFunctionOnSet(F, S) = 0
<1> DEFINE P == {A \in SUBSET S : SumFunctionOnSet(F, A) = 0}
<1>1. ASSUME NEW A \in SUBSET S, \A U \in SUBSET A : U # A => U \in P PROVE A \in P
  <2>1. CASE A = {}
    BY <2>1, SumEmpty
  <2>2. CASE A # {}
    <3>1. PICK y \in A : TRUE
      BY <2>2
    <3>2. A \ {y} \in P /\ F[y] = 0
      BY <1>1, <3>1
    <3>3. IsFiniteSet(A) /\ \A x \in A : F[x] \in Int
      BY FS_Subset
    <3>4. SumFunctionOnSet(F, A) = F[y] + SumFunctionOnSet(F, A \ {y})
      BY <3>1, <3>3, SumRemove
    <3> QED BY <3>2, <3>4
  <2> QED BY <2>1, <2>2
<1>2. P = SUBSET S
  <2> HIDE DEF P
  <2>1. P \in SUBSET (SUBSET S)
    BY DEF P
  <2> QED BY <1>1, <2>1, SetInduction
<1> QED BY <1>2

\* A sum of which only one term counts.
LEMMA SumOfOne ==
    ASSUME NEW S, IsFiniteSet(S), NEW F, NEW y \in S, F[y] \in Int, \A x \in S : x # y => F[x] = 0
    PROVE  SumFunctionOnSet(F, S) = F[y]
<1>1. IsFiniteSet(S \ {y}) /\ \A x \in S : F[x] \in Int
  BY FS_RemoveElement
<1>2. SumFunctionOnSet(F, S \ {y}) = 0
  BY <1>1, SumOfZeros
<1> QED BY <1>1, <1>2, SumRemove

\* The cardinality of a set is a sum of ones.
LEMMA SumOfOnes ==
    ASSUME NEW S, IsFiniteSet(S), NEW F, \A x \in S : F[x] = 1
    PROVE  SumFunctionOnSet(F, S) = Cardinality(S)
<1> DEFINE P == {A \in SUBSET S : SumFunctionOnSet(F, A) = Cardinality(A)}
<1>1. ASSUME NEW A \in SUBSET S, \A U \in SUBSET A : U # A => U \in P PROVE A \in P
  <2>1. CASE A = {}
    BY <2>1, SumEmpty, FS_EmptySet
  <2>2. CASE A # {}
    <3>1. PICK y \in A : TRUE
      BY <2>2
    <3>2. A \ {y} \in P /\ F[y] = 1
      BY <1>1, <3>1
    <3>3. IsFiniteSet(A) /\ \A x \in A : F[x] \in Int
      BY FS_Subset
    <3>4. SumFunctionOnSet(F, A) = F[y] + SumFunctionOnSet(F, A \ {y})
      BY <3>1, <3>3, SumRemove
    <3>5. Cardinality(A \ {y}) = Cardinality(A) - 1 /\ Cardinality(A) \in Nat
      BY <3>1, <3>3, FS_RemoveElement, FS_CardinalityType
    <3> QED BY <3>2, <3>4, <3>5
  <2> QED BY <2>1, <2>2
<1>2. P = SUBSET S
  <2> HIDE DEF P
  <2>1. P \in SUBSET (SUBSET S)
    BY DEF P
  <2> QED BY <1>1, <2>1, SetInduction
<1> QED BY <1>2

\* A sum may be taken group by group: G holds the sums of the terms of each
\* key, and every term has a key in R.
LEMMA SumByKey ==
    ASSUME NEW D, IsFiniteSet(D), NEW F, \A i \in D : F[i] \in Int,
           NEW K, NEW R, IsFiniteSet(R), \A i \in D : K[i] \in R,
           NEW Of, \A x \in R : Of[x] \subseteq D /\ \A i \in D : i \in Of[x] <=> K[i] = x,
           NEW G, \A x \in R : G[x] = SumFunctionOnSet(F, Of[x])
    PROVE  /\ \A x \in R : G[x] \in Int
           /\ SumFunctionOnSet(G, R) = SumFunctionOnSet(F, D)
<1> DEFINE In(A, x) == {i \in A : K[i] = x}
           Parts(A) == [x \in R |-> SumFunctionOnSet(F, In(A, x))]
           P == {A \in SUBSET D : SumFunctionOnSet(Parts(A), R) = SumFunctionOnSet(F, A)}
<1>0. ASSUME NEW A \in SUBSET D PROVE IsFiniteSet(A) /\ \A x \in R : Parts(A)[x] \in Int
  <2>1. IsFiniteSet(A) /\ \A x \in R : IsFiniteSet(In(A, x)) /\ In(A, x) \subseteq D
    BY FS_Subset
  <2>2. ASSUME NEW x \in R PROVE SumFunctionOnSet(F, In(A, x)) \in Int
    <3> DEFINE B == In(A, x)
    <3>1. IsFiniteSet(B) /\ \A i \in B : F[i] \in Int
      BY <2>1
    <3> HIDE DEF B
    <3>2. SumFunctionOnSet(F, B) \in Int
      BY <3>1, SumType
    <3> QED BY <3>2 DEF B
  <2> QED BY <2>1, <2>2
<1>1. ASSUME NEW A \in SUBSET D, \A U \in SUBSET A : U # A => U \in P PROVE A \in P
  <2>1. CASE A = {}
    <3>1. SumFunctionOnSet(F, {}) = 0
      BY SumEmpty
    <3>2. \A x \in R : Parts(A)[x] = 0
      <4>1. \A x \in R : In(A, x) = {}
        BY <2>1
      <4> QED BY <3>1, <4>1
    <3> DEFINE g == Parts(A)
    <3>3. \A x \in R : g[x] = 0
      BY <3>2
    <3> HIDE DEF g
    <3>4. SumFunctionOnSet(g, R) = 0
      BY <3>3, SumOfZeros
    <3> QED BY <2>1, <3>1, <3>4 DEF g
  <2>2. CASE A # {}
    <3>1. PICK y \in A : TRUE
      BY <2>2
    <3> DEFINE B == A \ {y}
               k == K[y]
    <3>2. B \in P /\ B \in SUBSET D /\ y \in D /\ y \notin B /\ A = B \cup {y} /\ k \in R /\ F[y] \in Int
      BY <1>1, <3>1
    <3>3. \A x \in R : x # k => In(A, x) = In(B, x)
      BY <3>1
    <3>4. In(A, k) = In(B, k) \cup {y} /\ y \notin In(B, k)
      BY <3>1
    <3>5. SumFunctionOnSet(F, In(A, k)) = SumFunctionOnSet(F, In(B, k)) + F[y]
      <4> DEFINE C == In(B, k)
      <4>1. IsFiniteSet(C) /\ y \notin C /\ \A i \in C \cup {y} : F[i] \in Int
        BY <1>0, <3>2, FS_Subset
      <4> HIDE DEF C
      <4>2. SumFunctionOnSet(F, C \cup {y}) = SumFunctionOnSet(F, C) + F[y]
        BY <4>1, SumAdd
      <4> QED BY <3>4, <4>2 DEF C
    <3>6. SumFunctionOnSet(Parts(A), R) = SumFunctionOnSet(Parts(B), R) + F[y]
      <4> DEFINE a == Parts(A)
                 b == Parts(B)
      <4>1. a[k] = b[k] + F[y] /\ \A x \in R : k # x => a[x] = b[x]
        BY <3>2, <3>3, <3>5
      <4>2. \A x \in R : b[x] \in Int
        BY <1>0, <3>2
      <4> HIDE DEF a, b, k, B
      <4>3. SumFunctionOnSet(a, R) = SumFunctionOnSet(b, R) + F[y]
        BY <3>2, <4>1, <4>2, SumMove
      <4> QED BY <4>3 DEF a, b
    <3>7. SumFunctionOnSet(F, A) = SumFunctionOnSet(F, B) + F[y]
      <4>1. IsFiniteSet(B) /\ \A x \in B \cup {y} : F[x] \in Int
        BY <1>0, <3>2
      <4> HIDE DEF B
      <4> QED BY <3>2, <4>1, SumAdd
    <3>8. SumFunctionOnSet(Parts(B), R) = SumFunctionOnSet(F, B)
      BY <3>2
    <3> HIDE DEF Parts, B
    <3> QED BY <3>6, <3>7, <3>8 DEF P
  <2> QED BY <2>1, <2>2
<1>2. P = SUBSET D
  <2> HIDE DEF P
  <2>1. P \in SUBSET (SUBSET D)
    BY DEF P
  <2> QED BY <1>1, <2>1, SetInduction
<1>3. SumFunctionOnSet(Parts(D), R) = SumFunctionOnSet(F, D)
  BY <1>2
<1>4. \A x \in R : G[x] = Parts(D)[x] /\ G[x] \in Int
  <2>1. \A x \in R : Of[x] = In(D, x)
    OBVIOUS
  <2>2. \A x \in R : G[x] = Parts(D)[x]
    BY <2>1
  <2> QED BY <1>0, <2>2
<1> DEFINE g == Parts(D)
<1>5. \A x \in R : G[x] = g[x]
  BY <1>4
<1> HIDE DEF g
<1>6. SumFunctionOnSet(G, R) = SumFunctionOnSet(g, R)
  BY <1>5, SumSame
<1> QED BY <1>3, <1>4, <1>6 DEF g

-----------------------------------------------------------------------------
(* What is derived from a test reconciles. *)

\* What Test may hand to DeriveFoldMetrics.
Typed(p) ==
    /\ p.trades \in Seq(Elements(p.trades)) /\ \A t \in Elements(p.trades) : t.net \in Int
    /\ p.residual \in Seq(Elements(p.residual)) /\ \A r \in Elements(p.residual) : r.pnl \in Int

\* A list is finite, and its sums are integers.
LEMMA ListSums ==
    ASSUME NEW s, s \in Seq(Elements(s)), NEW F, \A i \in DOMAIN s : F[i] \in Int
    PROVE  /\ DOMAIN s = 1 .. Len(s) /\ Len(s) \in Nat /\ IsFiniteSet(DOMAIN s)
           /\ Cardinality(DOMAIN s) = Len(s)
           /\ \A A \in SUBSET DOMAIN s : IsFiniteSet(A) /\ SumFunctionOnSet(F, A) \in Int
<1>1. DOMAIN s = 1 .. Len(s) /\ Len(s) \in Nat
  OBVIOUS
<1>2. IsFiniteSet(DOMAIN s) /\ Cardinality(DOMAIN s) = Len(s)
  <2>1. \A n \in Nat : IsFiniteSet(1 .. n) /\ Cardinality(1 .. n) = n
    BY FS_Interval
  <2> QED BY <1>1, <2>1
<1>3. ASSUME NEW A \in SUBSET DOMAIN s PROVE IsFiniteSet(A) /\ SumFunctionOnSet(F, A) \in Int
  <2>1. IsFiniteSet(A) /\ \A i \in A : F[i] \in Int
    BY <1>2, FS_Subset
  <2> QED BY <2>1, SumType
<1> QED BY <1>1, <1>2, <1>3

\* Sums over the keys of a list: R holds all of its keys.
LEMMA ListByKey ==
    ASSUME NEW s, s \in Seq(Elements(s)), NEW F, \A i \in DOMAIN s : F[i] \in Int,
           NEW K, NEW R, IsFiniteSet(R), \A i \in DOMAIN s : K[i] \in R,
           NEW Of, \A x \in R : Of[x] \subseteq DOMAIN s /\ \A i \in DOMAIN s : i \in Of[x] <=> K[i] = x,
           NEW G, \A x \in R : G[x] = SumFunctionOnSet(F, Of[x])
    PROVE  /\ \A x \in R : G[x] \in Int
           /\ SumFunctionOnSet(G, R) = SumFunctionOnSet(F, DOMAIN s)
<1>1. IsFiniteSet(DOMAIN s)
  BY ListSums
<1> QED BY <1>1, SumByKey

\* DeriveFoldMetrics adds up what ValidateFoldMetrics compares.
LEMMA DerivedAddUp ==
    ASSUME NEW p, Typed(p), Derivable(p), p.trades # <<>>
    PROVE  LET metrics == DeriveFoldMetrics(p) IN
           /\ Reconciles(metrics)
           /\ metrics.afterCost \in Int
           /\ IsFiniteSet(DOMAIN metrics.trade) /\ IsFiniteSet(DOMAIN metrics.symbol)
           /\ \A t \in DOMAIN metrics.trade : metrics.trade[t] \in Int
           /\ \A x \in DOMAIN metrics.symbol : metrics.symbol[x] \in Int
<1> DEFINE T == p.trades
           R == p.residual
           net == [i \in DOMAIN T |-> T[i].net]
           pnl == [i \in DOMAIN R |-> R[i].pnl]
           ids == {T[i].id : i \in DOMAIN T}
           regimes == {T[i].regime : i \in DOMAIN T}
           opened == {R[i].symbol : i \in DOMAIN R}
           symbols == {T[i].symbol : i \in DOMAIN T} \cup opened
           trade == [x \in ids |-> SumFunctionOnSet(net, {i \in DOMAIN T : T[i].id = x})]
           bought == [x \in symbols |-> SumFunctionOnSet(net, {i \in DOMAIN T : T[i].symbol = x})]
           kept == [x \in symbols |-> SumFunctionOnSet(pnl, {i \in DOMAIN R : R[i].symbol = x})]
           symbol == [x \in symbols |-> bought[x] + kept[x]]
           regime == [x \in regimes |-> SumFunctionOnSet(net, {i \in DOMAIN T : T[i].regime = x})]
           count == [x \in regimes |-> Cardinality({i \in DOMAIN T : T[i].regime = x})]
           open == [x \in opened |-> SumFunctionOnSet(pnl, {i \in DOMAIN R : R[i].symbol = x})]
           all == SumFunctionOnSet(net, DOMAIN T)
           rest == SumFunctionOnSet(pnl, DOMAIN R)
           metrics == DeriveFoldMetrics(p)
<1>1. /\ metrics.trades = Len(T) /\ metrics.afterCost = all + rest
      /\ metrics.trade = trade /\ metrics.regime = regime
      /\ metrics.regimeTrades = count /\ metrics.open = open
  <2>1. {i \in DOMAIN T : TRUE} = DOMAIN T /\ {i \in DOMAIN R : TRUE} = DOMAIN R
    OBVIOUS
  <2>2. Net(p) = all /\ Open(p) = rest
    BY <2>1 DEF Net, Open, Total
  <2> QED BY <2>2 DEF DeriveFoldMetrics, Keys, Total
<1>2. metrics.symbol = symbol
  BY DEF DeriveFoldMetrics, Keys, Total
<1>3. /\ \A i \in DOMAIN T : net[i] \in Int
      /\ \A i \in DOMAIN R : pnl[i] \in Int
      /\ T \in Seq(Elements(T)) /\ R \in Seq(Elements(R))
  BY DEF Typed, Elements
<1>4. /\ IsFiniteSet(DOMAIN T) /\ IsFiniteSet(DOMAIN R) /\ Cardinality(DOMAIN T) = Len(T)
      /\ all \in Int /\ rest \in Int
  <2> HIDE DEF T, R, net, pnl
  <2> QED BY <1>3, ListSums
<1>5. IsFiniteSet(ids) /\ IsFiniteSet(regimes) /\ IsFiniteSet(opened) /\ IsFiniteSet(symbols)
  <2>1. ASSUME NEW D, IsFiniteSet(D), NEW f PROVE IsFiniteSet({f[i] : i \in D})
    BY <2>1, FiniteImage
  <2> DEFINE a == [i \in DOMAIN T |-> T[i].id]
             b == [i \in DOMAIN T |-> T[i].regime]
             c == [i \in DOMAIN R |-> R[i].symbol]
             d == [i \in DOMAIN T |-> T[i].symbol]
  <2>2. /\ ids = {a[i] : i \in DOMAIN T} /\ regimes = {b[i] : i \in DOMAIN T}
        /\ opened = {c[i] : i \in DOMAIN R} /\ {T[i].symbol : i \in DOMAIN T} = {d[i] : i \in DOMAIN T}
    OBVIOUS
  <2> HIDE DEF a, b, c, d
  <2>3. /\ IsFiniteSet({a[i] : i \in DOMAIN T}) /\ IsFiniteSet({b[i] : i \in DOMAIN T})
        /\ IsFiniteSet({c[i] : i \in DOMAIN R}) /\ IsFiniteSet({d[i] : i \in DOMAIN T})
    BY <1>4, <2>1
  <2>4. IsFiniteSet(ids) /\ IsFiniteSet(regimes) /\ IsFiniteSet(opened)
        /\ IsFiniteSet({T[i].symbol : i \in DOMAIN T})
    BY <2>2, <2>3
  <2> QED BY <2>4, FS_Union
<1>6. (\A x \in ids : trade[x] \in Int) /\ SumFunctionOnSet(trade, ids) = all
  <2> DEFINE K == [i \in DOMAIN T |-> T[i].id]
             Of == [x \in ids |-> {i \in DOMAIN T : T[i].id = x}]
  <2>1. /\ \A i \in DOMAIN T : K[i] \in ids
        /\ \A x \in ids : Of[x] \subseteq DOMAIN T /\ \A i \in DOMAIN T : i \in Of[x] <=> K[i] = x
        /\ \A x \in ids : trade[x] = SumFunctionOnSet(net, Of[x])
    OBVIOUS
  <2>2. IsFiniteSet(ids) /\ T \in Seq(Elements(T)) /\ \A i \in DOMAIN T : net[i] \in Int
    BY <1>3, <1>5
  <2> HIDE DEF K, Of, T, ids, net, trade
  <2>3. (\A x \in ids : trade[x] \in Int) /\ SumFunctionOnSet(trade, ids) = SumFunctionOnSet(net, DOMAIN T)
    BY <2>1, <2>2, ListByKey
  <2> QED BY <2>3
<1>7. (\A x \in regimes : regime[x] \in Int) /\ SumFunctionOnSet(regime, regimes) = all
  <2> DEFINE K == [i \in DOMAIN T |-> T[i].regime]
             Of == [x \in regimes |-> {i \in DOMAIN T : T[i].regime = x}]
  <2>1. /\ \A i \in DOMAIN T : K[i] \in regimes
        /\ \A x \in regimes : Of[x] \subseteq DOMAIN T /\ \A i \in DOMAIN T : i \in Of[x] <=> K[i] = x
        /\ \A x \in regimes : regime[x] = SumFunctionOnSet(net, Of[x])
    OBVIOUS
  <2>2. IsFiniteSet(regimes) /\ T \in Seq(Elements(T)) /\ \A i \in DOMAIN T : net[i] \in Int
    BY <1>3, <1>5
  <2> HIDE DEF K, Of, T, regimes, net, regime
  <2>3. (\A x \in regimes : regime[x] \in Int) /\ SumFunctionOnSet(regime, regimes) = SumFunctionOnSet(net, DOMAIN T)
    BY <2>1, <2>2, ListByKey
  <2> QED BY <2>3
<1>8. SumFunctionOnSet(open, opened) = rest
  <2> DEFINE K == [i \in DOMAIN R |-> R[i].symbol]
             Of == [x \in opened |-> {i \in DOMAIN R : R[i].symbol = x}]
  <2>1. /\ \A i \in DOMAIN R : K[i] \in opened
        /\ \A x \in opened : Of[x] \subseteq DOMAIN R /\ \A i \in DOMAIN R : i \in Of[x] <=> K[i] = x
        /\ \A x \in opened : open[x] = SumFunctionOnSet(pnl, Of[x])
    OBVIOUS
  <2>2. IsFiniteSet(opened) /\ R \in Seq(Elements(R)) /\ \A i \in DOMAIN R : pnl[i] \in Int
    BY <1>3, <1>5
  <2> HIDE DEF K, Of, R, opened, pnl, open
  <2>3. (\A x \in opened : open[x] \in Int) /\ SumFunctionOnSet(open, opened) = SumFunctionOnSet(pnl, DOMAIN R)
    BY <2>1, <2>2, ListByKey
  <2> QED BY <2>3
<1>9. /\ \A x \in symbols : symbol[x] \in Int
      /\ SumFunctionOnSet(symbol, symbols) = all + rest
  <2>1. (\A x \in symbols : bought[x] \in Int) /\ SumFunctionOnSet(bought, symbols) = all
    <3> DEFINE K == [i \in DOMAIN T |-> T[i].symbol]
               Of == [x \in symbols |-> {i \in DOMAIN T : T[i].symbol = x}]
    <3>1. /\ \A i \in DOMAIN T : K[i] \in symbols
          /\ \A x \in symbols : Of[x] \subseteq DOMAIN T /\ \A i \in DOMAIN T : i \in Of[x] <=> K[i] = x
          /\ \A x \in symbols : bought[x] = SumFunctionOnSet(net, Of[x])
      OBVIOUS
    <3>2. IsFiniteSet(symbols) /\ T \in Seq(Elements(T)) /\ \A i \in DOMAIN T : net[i] \in Int
      BY <1>3, <1>5
    <3> HIDE DEF K, Of, T, symbols, net, bought
    <3>3. (\A x \in symbols : bought[x] \in Int) /\ SumFunctionOnSet(bought, symbols) = SumFunctionOnSet(net, DOMAIN T)
      BY <3>1, <3>2, ListByKey
    <3> QED BY <3>3
  <2>2. (\A x \in symbols : kept[x] \in Int) /\ SumFunctionOnSet(kept, symbols) = rest
    <3> DEFINE K == [i \in DOMAIN R |-> R[i].symbol]
               Of == [x \in symbols |-> {i \in DOMAIN R : R[i].symbol = x}]
    <3>1. /\ \A i \in DOMAIN R : K[i] \in symbols
          /\ \A x \in symbols : Of[x] \subseteq DOMAIN R /\ \A i \in DOMAIN R : i \in Of[x] <=> K[i] = x
          /\ \A x \in symbols : kept[x] = SumFunctionOnSet(pnl, Of[x])
      OBVIOUS
    <3>2. IsFiniteSet(symbols) /\ R \in Seq(Elements(R)) /\ \A i \in DOMAIN R : pnl[i] \in Int
      BY <1>3, <1>5
    <3> HIDE DEF K, Of, R, symbols, pnl, kept
    <3>3. (\A x \in symbols : kept[x] \in Int) /\ SumFunctionOnSet(kept, symbols) = SumFunctionOnSet(pnl, DOMAIN R)
      BY <3>1, <3>2, ListByKey
    <3> QED BY <3>3
  <2>3. \A x \in symbols : bought[x] \in Int /\ kept[x] \in Int /\ symbol[x] = bought[x] + kept[x]
    BY <2>1, <2>2
  <2> HIDE DEF symbols, bought, kept, symbol
  <2>4. SumFunctionOnSet(symbol, symbols) = SumFunctionOnSet(bought, symbols) + SumFunctionOnSet(kept, symbols)
    BY <1>5, <2>3, SumPlus
  <2> QED BY <2>1, <2>2, <2>3, <2>4
<1>10. SumFunctionOnSet(count, regimes) = Len(T)
  <2> DEFINE one == [i \in DOMAIN T |-> 1]
             K == [i \in DOMAIN T |-> T[i].regime]
             Of == [x \in regimes |-> {i \in DOMAIN T : T[i].regime = x}]
  <2>1. /\ \A i \in DOMAIN T : one[i] \in Int /\ one[i] = 1 /\ K[i] \in regimes
        /\ \A x \in regimes : Of[x] \subseteq DOMAIN T /\ \A i \in DOMAIN T : i \in Of[x] <=> K[i] = x
        /\ \A x \in regimes : count[x] = Cardinality(Of[x])
    OBVIOUS
  <2> HIDE DEF one, K, Of, T, regimes, count
  <2>2. \A x \in regimes : count[x] = SumFunctionOnSet(one, Of[x])
    <3>1. ASSUME NEW x \in regimes PROVE SumFunctionOnSet(one, Of[x]) = Cardinality(Of[x])
      <4>1. IsFiniteSet(Of[x]) /\ \A i \in Of[x] : one[i] = 1
        BY <1>4, <2>1, FS_Subset
      <4> QED BY <4>1, SumOfOnes
    <3> QED BY <2>1, <3>1
  <2>3. SumFunctionOnSet(count, regimes) = SumFunctionOnSet(one, DOMAIN T)
    <3>1. IsFiniteSet(regimes) /\ T \in Seq(Elements(T)) /\ \A i \in DOMAIN T : one[i] \in Int
      BY <1>3, <1>5, <2>1
    <3> QED BY <2>1, <2>2, <3>1, ListByKey
  <2>4. SumFunctionOnSet(one, DOMAIN T) = Cardinality(DOMAIN T)
    BY <1>4, <2>1, SumOfOnes
  <2> QED BY <1>4, <2>3, <2>4
<1>11. Cardinality(ids) = Len(T) /\ symbols # {}
  <2>1. Cardinality(ids) = Len(T)
    BY DEF Derivable, Unique, Keys
  <2>2. 1 \in DOMAIN T
    BY DEF Typed
  <2> QED BY <2>1, <2>2
<1>12. /\ DOMAIN metrics.trade = ids /\ DOMAIN metrics.symbol = symbols
       /\ DOMAIN metrics.regime = regimes /\ DOMAIN metrics.regimeTrades = regimes
       /\ DOMAIN metrics.open = opened
  BY <1>1, <1>2
<1> HIDE DEF metrics, ids, symbols, regimes, opened, trade, symbol, regime, count, open, all, rest
<1>13. Reconciles(metrics)
  BY <1>1, <1>2, <1>4, <1>6, <1>7, <1>8, <1>9, <1>10, <1>11, <1>12 DEF Reconciles, SumFunction
<1>14. metrics.afterCost \in Int
  BY <1>1, <1>4
<1>15. /\ IsFiniteSet(DOMAIN metrics.trade) /\ IsFiniteSet(DOMAIN metrics.symbol)
       /\ \A t \in DOMAIN metrics.trade : metrics.trade[t] \in Int
       /\ \A x \in DOMAIN metrics.symbol : metrics.symbol[x] \in Int
  BY <1>1, <1>2, <1>5, <1>6, <1>9, <1>12
<1> QED BY <1>13, <1>14, <1>15 DEF metrics

-----------------------------------------------------------------------------
(* What passes a study. *)

\* Where no entry exceeds its share, an entry that counts is not the only one.
LEMMA AnotherCounts ==
    ASSUME NEW f, IsFiniteSet(DOMAIN f), \A x \in DOMAIN f : f[x] \in Int,
           NEW n \in 0 .. 9, ~Exceeds(f, n), NEW x \in DOMAIN f, f[x] # 0
    PROVE  \E y \in DOMAIN f : y # x /\ f[y] # 0
<1> SUFFICES ASSUME \A y \in DOMAIN f : y # x => f[y] = 0 PROVE FALSE
  OBVIOUS
<1> DEFINE g == [y \in DOMAIN f |-> Abs(f[y])]
<1>1. g[x] \in Nat /\ g[x] # 0 /\ \A y \in DOMAIN f : y # x => g[y] = 0
  BY DEF Abs
<1>2. SumFunction(g) = g[x]
  <2>1. DOMAIN g = DOMAIN f
    OBVIOUS
  <2> HIDE DEF g
  <2>2. SumFunctionOnSet(g, DOMAIN f) = g[x]
    BY <1>1, SumOfOne
  <2> QED BY <2>1, <2>2 DEF SumFunction
<1>3. 10 * g[x] > n * g[x]
  <2> DEFINE a == g[x]
  <2>1. a \in Nat /\ a > 0
    BY <1>1
  <2> HIDE DEF a
  <2>2. \A k \in 0 .. 9 : 10 * a > k * a
    <3>1. 10 * a > 0 * a /\ 10 * a > 1 * a /\ 10 * a > 2 * a /\ 10 * a > 3 * a /\ 10 * a > 4 * a
          /\ 10 * a > 5 * a /\ 10 * a > 6 * a /\ 10 * a > 7 * a /\ 10 * a > 8 * a /\ 10 * a > 9 * a
      BY <2>1
    <3>2. \A k \in 0 .. 9 : k = 0 \/ k = 1 \/ k = 2 \/ k = 3 \/ k = 4 \/ k = 5 \/ k = 6 \/ k = 7
                            \/ k = 8 \/ k = 9
      OBVIOUS
    <3> QED BY <3>1, <3>2
  <2> QED BY <2>2 DEF a
<1> QED BY <1>1, <1>2, <1>3 DEF Exceeds

\* The metrics of a test that was derived and had trades.
Metrics == {DeriveFoldMetrics(p) : p \in {q \in Primitives : Derivable(q) /\ q.trades # <<>>}}

\* What is known of one of them.
Adds(metrics) ==
    /\ metrics.afterCost \in Int
    /\ IsFiniteSet(DOMAIN metrics.trade) /\ \A t \in DOMAIN metrics.trade : metrics.trade[t] \in Int
    /\ IsFiniteSet(DOMAIN metrics.symbol) /\ \A x \in DOMAIN metrics.symbol : metrics.symbol[x] \in Int
    /\ SumFunctionOnSet(metrics.symbol, DOMAIN metrics.symbol) = metrics.afterCost

LEMMA MetricsAdd == ASSUME WalkAssumption, NEW metrics \in Metrics PROVE Adds(metrics)
<1>1. PICK p \in Primitives : Derivable(p) /\ p.trades # <<>> /\ metrics = DeriveFoldMetrics(p)
  BY DEF Metrics
<1>2. Typed(p)
  BY <1>1 DEF WalkAssumption, Typed
<1> QED BY <1>1, <1>2, DerivedAddUp DEF Adds, Reconciles, SumFunction

\* A finite set of numbers has a least.
LEMMA LeastExists ==
    ASSUME NEW S, IsFiniteSet(S), S # {}, S \subseteq Int
    PROVE  \E m \in S : \A x \in S : m <= x
<1> DEFINE neg == [x \in S |-> -x]
           N == {neg[x] : x \in S}
<1>1. IsFiniteSet(N) /\ N # {} /\ N \subseteq Int
  <2>1. N # {} /\ N \subseteq Int
    <3>1. \A x \in S : neg[x] \in Int
      OBVIOUS
    <3>2. PICK x \in S : TRUE
      OBVIOUS
    <3> HIDE DEF neg
    <3>3. neg[x] \in N
      BY <3>2
    <3> QED BY <3>1, <3>3
  <2> HIDE DEF neg
  <2>2. IsFiniteSet(N)
    BY FiniteImage
  <2> QED BY <2>1, <2>2
<1>2. PICK m \in N : \A x \in N : m >= x
  <2> HIDE DEF N
  <2> QED BY <1>1, LargestExists
<1>3. PICK y \in S : m = -y
  BY <1>2
<1>4. ASSUME NEW x \in S PROVE y <= x
  <2>1. -x \in N /\ x \in Int /\ y \in Int
    BY <1>3
  <2> QED BY <1>2, <1>3, <2>1
<1> QED BY <1>4

\* A set with two members has at least two.
LEMMA TwoMembers ==
    ASSUME NEW S, IsFiniteSet(S), NEW x \in S, NEW y \in S, x # y
    PROVE  Cardinality(S) >= 2
<1>1. IsFiniteSet(S \ {x}) /\ Cardinality(S \ {x}) = Cardinality(S) - 1 /\ y \in S \ {x}
  BY FS_RemoveElement
<1>2. Cardinality(S \ {x}) # 0 /\ Cardinality(S \ {x}) \in Nat /\ Cardinality(S) \in Nat
  BY <1>1, FS_EmptySet, FS_CardinalityType
<1> QED BY <1>1, <1>2

\* A sum of sizes is zero only where every size is.
LEMMA NothingCancels ==
    ASSUME NEW S, IsFiniteSet(S), NEW F, \A x \in S : F[x] \in Nat, NEW y \in S, F[y] # 0
    PROVE  SumFunctionOnSet(F, S) # 0
<1>1. IsFiniteSet(S \ {y}) /\ \A x \in S : F[x] \in Int
  BY FS_RemoveElement
<1>2. SumFunctionOnSet(F, S \ {y}) \in Nat
  BY <1>1, SumNatural
<1>3. SumFunctionOnSet(F, S) = F[y] + SumFunctionOnSet(F, S \ {y})
  BY <1>1, SumRemove
<1> QED BY <1>2, <1>3

\* Evaluate: a study that is not dominated and whose lower bound is above a
\* threshold of zero or more.
LEMMA SpreadHolds ==
    ASSUME NEW list, list \in Seq(Elements(list)), list # <<>>,
           \A r \in Elements(list) : Adds(r),
           ~Dominated(list), NEW threshold \in Nat,
           NEW lower \in Lowers(list), lower > threshold
    PROVE  LET moved(f) == {x \in DOMAIN f : f[x] # 0} IN
           /\ \E r \in Elements(list) : r.afterCost > threshold
           /\ Cardinality({i \in DOMAIN list : list[i].afterCost # 0}) >= 2
           /\ Cardinality(UNION {moved(r.symbol) : r \in Elements(list)}) >= 2
           /\ Cardinality({t \in Trades(list) : list[t[1]].trade[t[2]] # 0}) # 1
<1> DEFINE D == DOMAIN list
           after == [i \in D |-> list[i].afterCost]
           moved(f) == {x \in DOMAIN f : f[x] # 0}
<1>0. D = 1 .. Len(list) /\ Len(list) \in Nat /\ 1 \in D /\ IsFiniteSet(D)
  <2>1. D = 1 .. Len(list) /\ Len(list) \in Nat /\ 1 \in D
    OBVIOUS
  <2> QED BY <2>1, FS_Interval
<1>1. \A i \in D : Adds(list[i]) /\ after[i] \in Int
  BY DEF Elements, Adds
<1>2. \E r \in Elements(list) : r.afterCost > threshold
  <2> DEFINE returns == {after[i] : i \in D}
  <2>1. IsFiniteSet(returns) /\ returns # {} /\ returns \subseteq Int
    <3> HIDE DEF after, D
    <3> QED BY <1>0, <1>1, FiniteImage
  <2>2. Lowers(list) = Min(returns) .. Max(returns)
    <3>1. Keys(list, LAMBDA r : r.afterCost) = returns
      BY DEF Keys
    <3> QED BY <3>1 DEF Lowers
  <2>3. Max(returns) \in returns /\ Min(returns) \in returns
    <3> HIDE DEF returns
    <3>1. \E m \in returns : \A x \in returns : m >= x
      BY <2>1, LargestExists
    <3>2. \E m \in returns : \A x \in returns : m <= x
      BY <2>1, LeastExists
    <3> QED BY <3>1, <3>2 DEF Max, Min
  <2>4. Max(returns) > threshold
    <3>1. lower \in Int /\ lower <= Max(returns) /\ Max(returns) \in Int
      <4> HIDE DEF returns
      <4>1. Max(returns) \in Int /\ Min(returns) \in Int
        BY <2>1, <2>3
      <4>2. lower \in Min(returns) .. Max(returns)
        BY <2>2
      <4> QED BY <4>1, <4>2
    <3> HIDE DEF returns
    <3> QED BY <3>1
  <2>5. PICK i \in D : after[i] = Max(returns)
    BY <2>3
  <2> QED BY <2>4, <2>5 DEF Elements
<1>3. PICK w \in D : after[w] # 0
  BY <1>1, <1>2 DEF Elements
<1>4. Cardinality({i \in D : list[i].afterCost # 0}) >= 2
  <2>1. ~Exceeds(after, 6)
    BY DEF Dominated
  <2>2. DOMAIN after = D
    OBVIOUS
  <2> DEFINE W == {i \in D : list[i].afterCost # 0}
  <2>3. PICK v \in D : v # w /\ after[v] # 0
    <3> HIDE DEF after
    <3> QED BY <1>0, <1>1, <1>3, <2>1, <2>2, AnotherCounts
  <2>4. w \in W /\ v \in W /\ IsFiniteSet(W)
    BY <1>0, <1>3, <2>3, FS_Subset
  <2> HIDE DEF W
  <2>5. Cardinality(W) >= 2
    BY <2>3, <2>4, TwoMembers
  <2> QED BY <2>5 DEF W
<1>5. Cardinality(UNION {moved(r.symbol) : r \in Elements(list)}) >= 2
  <2> DEFINE symbols == UNION {DOMAIN r.symbol : r \in Elements(list)}
             Having(x) == {i \in D : x \in DOMAIN list[i].symbol}
             part(x) == [i \in D |-> Abs(list[i].symbol[x])]
             size == [x \in symbols |-> SumFunctionOnSet(part(x), Having(x))]
             All == UNION {moved(r.symbol) : r \in Elements(list)}
  <2>1. ~Exceeds(size, 6)
    BY DEF Dominated, Total
  <2>2. DOMAIN size = symbols
    OBVIOUS
  <2>3. \A x \in symbols : \A i \in Having(x) :
              part(x)[i] \in Nat /\ list[i].symbol[x] \in Int
              /\ (part(x)[i] = 0 <=> list[i].symbol[x] = 0)
    BY <1>1 DEF Adds, Abs
  <2>4. \A x \in symbols : IsFiniteSet(Having(x))
    BY <1>0, FS_Subset
  <2>5. ASSUME NEW x \in symbols
        PROVE  /\ size[x] \in Int
               /\ size[x] # 0 <=> \E i \in Having(x) : list[i].symbol[x] # 0
    <3> DEFINE F == part(x)
               H == Having(x)
    <3>1. size[x] = SumFunctionOnSet(F, H) /\ IsFiniteSet(H) /\ \A i \in H : F[i] \in Nat
      BY <2>3, <2>4
    <3>2. \A i \in H : F[i] = 0 <=> list[i].symbol[x] = 0
      BY <2>3
    <3> HIDE DEF F, H, size
    <3>3. SumFunctionOnSet(F, H) \in Nat
      BY <3>1, SumNatural
    <3>4. (\A i \in H : F[i] = 0) => SumFunctionOnSet(F, H) = 0
      BY <3>1, SumOfZeros
    <3>5. ASSUME NEW i \in H, F[i] # 0 PROVE SumFunctionOnSet(F, H) # 0
      BY <3>1, <3>5, NothingCancels
    <3>6. size[x] # 0 <=> \E i \in H : list[i].symbol[x] # 0
      BY <3>1, <3>2, <3>4, <3>5
    <3> QED BY <3>1, <3>3, <3>6 DEF H
  <2>6. IsFiniteSet(symbols)
    <3> DEFINE ds == {DOMAIN r.symbol : r \in Elements(list)}
               dom == [i \in D |-> DOMAIN list[i].symbol]
    <3>1. ds = {dom[i] : i \in D}
      BY DEF Elements
    <3>2. IsFiniteSet(ds)
      <4> HIDE DEF dom, ds
      <4> QED BY <1>0, <3>1, FiniteImage
    <3>3. \A d \in ds : IsFiniteSet(d)
      BY <1>1 DEF Adds, Elements
    <3> HIDE DEF ds
    <3>4. IsFiniteSet(UNION ds)
      BY <3>2, <3>3, FS_UNION
    <3> QED BY <3>4 DEF ds
  <2>7. \A x : x \in All <=> x \in symbols /\ \E i \in Having(x) : list[i].symbol[x] # 0
    BY DEF Elements
  <2>8. PICK x \in symbols : size[x] # 0
    <3> DEFINE f == list[w].symbol
    <3>1. SumFunctionOnSet(f, DOMAIN f) # 0 /\ IsFiniteSet(DOMAIN f)
      BY <1>1, <1>3 DEF Adds
    <3>2. PICK x \in DOMAIN f : f[x] # 0
      <4> HIDE DEF f
      <4> QED BY <3>1, SumOfZeros
    <3>3. x \in symbols /\ w \in Having(x)
      BY <3>2 DEF Elements
    <3> HIDE DEF size, symbols, Having
    <3> QED BY <2>5, <3>2, <3>3
  <2>9. PICK y \in symbols : y # x /\ size[y] # 0
    <3>1. IsFiniteSet(DOMAIN size) /\ \A z \in DOMAIN size : size[z] \in Int
      <4> HIDE DEF size, symbols
      <4> QED BY <2>2, <2>5, <2>6
    <3> HIDE DEF size, symbols
    <3> QED BY <2>1, <2>2, <2>8, <3>1, AnotherCounts
  <2>10. x \in All /\ y \in All
    <3> HIDE DEF size, symbols, All, Having
    <3> QED BY <2>5, <2>7, <2>8, <2>9
  <2>11. IsFiniteSet(All)
    <3>1. All \subseteq symbols
      BY <2>7
    <3> HIDE DEF All, symbols
    <3> QED BY <2>6, <3>1, FS_Subset
  <2> HIDE DEF All
  <2>12. Cardinality(All) >= 2
    BY <2>9, <2>10, <2>11, TwoMembers
  <2> QED BY <2>12 DEF All
<1>6. Cardinality({t \in Trades(list) : list[t[1]].trade[t[2]] # 0}) # 1
  <2> DEFINE ts == Trades(list)
             f == [t \in ts |-> list[t[1]].trade[t[2]]]
             M == {t \in ts : list[t[1]].trade[t[2]] # 0}
  <2>1. ~Exceeds(f, 5) /\ DOMAIN f = ts
    BY DEF Dominated
  <2>2. IsFiniteSet(ts)
    <3> DEFINE pairs == [i \in D |-> {i} \X DOMAIN list[i].trade]
               P == {pairs[i] : i \in D}
    <3>1. ts = UNION P
      BY DEF Trades
    <3>2. IsFiniteSet(P)
      <4> HIDE DEF pairs
      <4> QED BY <1>0, FiniteImage
    <3>3. ASSUME NEW i \in D PROVE IsFiniteSet(pairs[i])
      <4>1. IsFiniteSet(DOMAIN list[i].trade) /\ IsFiniteSet({i})
        BY <1>1, FS_Singleton DEF Adds
      <4>2. IsFiniteSet({i} \X DOMAIN list[i].trade)
        BY <4>1, FS_Product
      <4> QED BY <4>2
    <3>4. \A p \in P : IsFiniteSet(p)
      BY <3>3
    <3> HIDE DEF P
    <3> QED BY <3>1, <3>2, <3>4, FS_UNION
  <2>3. \A t \in ts : f[t] \in Int
    <3>1. \A t \in ts : t[1] \in D /\ t[2] \in DOMAIN list[t[1]].trade
      BY DEF Trades
    <3> QED BY <1>1, <3>1 DEF Adds
  <2>4. ASSUME Cardinality(M) = 1 PROVE FALSE
    <3>1. IsFiniteSet(M) /\ M \subseteq ts
      <4>1. M \subseteq ts
        OBVIOUS
      <4> HIDE DEF M, ts
      <4> QED BY <2>2, <4>1, FS_Subset
    <3>2. M # {}
      <4>1. Cardinality(M) = 1
        BY <2>4
      <4> HIDE DEF M
      <4> QED BY <3>1, <4>1, FS_EmptySet
    <3>3. PICK x \in M : TRUE
      BY <3>2
    <3>4. x \in DOMAIN f /\ f[x] # 0
      BY <3>3
    <3>5. PICK y \in DOMAIN f : y # x /\ f[y] # 0
      <4>1. IsFiniteSet(DOMAIN f) /\ \A z \in DOMAIN f : f[z] \in Int
        BY <2>1, <2>2, <2>3
      <4> HIDE DEF f
      <4> QED BY <2>1, <3>4, <4>1, AnotherCounts
    <3>6. y \in M
      BY <3>5
    <3> HIDE DEF M
    <3>7. Cardinality(M) >= 2
      BY <3>1, <3>3, <3>5, <3>6, TwoMembers
    <3> QED BY <2>4, <3>7
  <2> QED BY <2>4
<1> QED BY <1>2, <1>4, <1>5, <1>6

-----------------------------------------------------------------------------
(* The walk-forward. *)

SplitOf(k) == SplitFold(samples, manifest.folds[k], manifest.purge, manifest.embargo)

Folds == [train : Window, validation : Window, test : Window]

\* Everything frozen is the split of its fold, the fold is of a manifest that was
\* verified, and what was tested is derived; only a study that Evaluate let
\* through passes.
WalkInv ==
    /\ manifest \in Manifests /\ samples \in SampleLists(manifest)
    /\ step \in {"verify", "freeze", "test", "evaluate", "done", "failed"}
    /\ step \in {"freeze", "test", "evaluate", "done"} \/ frozen # <<>> =>
         VerifiedManifest(manifest) /\ ValidSamples(samples, manifest)
    /\ frozen \in Seq([split : {SplitOf(k) : k \in DOMAIN manifest.folds}, runner : Runners])
    /\ Len(frozen) <= Len(manifest.folds)
    /\ \A k \in DOMAIN frozen : frozen[k].split = SplitOf(k)
    /\ step = "verify" => frozen = <<>>
    /\ step = "freeze" => Len(frozen) < Len(manifest.folds)
    /\ why # "unreconciled"
    /\ tested \in Seq(Metrics)
    /\ passed \in BOOLEAN
    /\ passed => /\ step = "done" /\ tested # <<>> /\ ~Dominated(tested)
                 /\ \E lower \in Lowers(tested) : lower > manifest.threshold

\* What the assumption says of one manifest and one list of samples.
LEMMA ManifestType ==
    ASSUME WalkAssumption, NEW m \in Manifests
    PROVE  /\ m.folds \in Seq(Folds) /\ DOMAIN m.folds = 1 .. Len(m.folds) /\ Len(m.folds) \in Nat
           /\ {m.featureHorizon, m.labelHorizon, m.purge, m.embargo, m.minFolds, m.minUnits,
               m.threshold} \subseteq Int
           /\ \A k \in DOMAIN m.folds : LET f == m.folds[k] IN
                 {f.train[1], f.train[2], f.validation[1], f.validation[2], f.test[1], f.test[2]} \subseteq Int
           /\ \A list \in SampleLists(m) : \A s \in Elements(list) :
                 {s.observed, s.featureStart, s.featureEnd, s.labelEnd} \subseteq Int
<1>1. m.folds \in Seq(Folds)
  BY DEF WalkAssumption, Folds
<1>2. \A k \in DOMAIN m.folds : m.folds[k] \in Folds
  BY <1>1
<1>3. /\ DOMAIN m.folds = 1 .. Len(m.folds) /\ Len(m.folds) \in Nat
      /\ {m.featureHorizon, m.labelHorizon, m.purge, m.embargo, m.minFolds, m.minUnits,
          m.threshold} \subseteq Int
  BY <1>1 DEF WalkAssumption
<1>4. ASSUME NEW k \in DOMAIN m.folds
      PROVE  LET f == m.folds[k] IN
             {f.train[1], f.train[2], f.validation[1], f.validation[2], f.test[1], f.test[2]} \subseteq Int
  BY <1>2 DEF Folds, Window
<1>5. \A list \in SampleLists(m) : \A s \in Elements(list) :
         {s.observed, s.featureStart, s.featureEnd, s.labelEnd} \subseteq Int
  BY DEF WalkAssumption
<1> QED BY <1>1, <1>3, <1>4, <1>5

\* The windows of a verified manifest come one after another.
LEMMA WindowsInOrder ==
    ASSUME WalkAssumption, NEW m \in Manifests, VerifiedManifest(m)
    PROVE  /\ \A j, k \in DOMAIN m.folds : j < k => m.folds[j].test[2] <= m.folds[k].test[1]
           /\ \A j, k \in DOMAIN m.folds : j <= k => m.folds[j].test[1] <= m.folds[k].test[1]
<1> DEFINE F == m.folds
           P == {n \in Nat : \A j, k \in DOMAIN F : k = j + n + 1 => F[j].test[2] <= F[k].test[1]}
<1>1. DOMAIN F = 1 .. Len(F) /\ Len(F) \in Nat /\ \A k \in DOMAIN F : F[k].test[1] \in Int /\ F[k].test[2] \in Int
  BY ManifestType
<1>2. \A k \in DOMAIN F : F[k].test[2] > F[k].test[1] /\ (k > 1 => F[k].test[1] >= F[k - 1].test[2])
  BY DEF VerifiedManifest, ValidInterval
<1> HIDE DEF F
<1>3. 0 \in P
  <2>1. ASSUME NEW j \in DOMAIN F, NEW k \in DOMAIN F, k = j + 0 + 1 PROVE F[j].test[2] <= F[k].test[1]
    <3>1. k > 1 /\ k - 1 = j
      BY <1>1, <2>1
    <3> QED BY <1>1, <1>2, <3>1
  <2> QED BY <2>1
<1>4. ASSUME NEW n \in P PROVE n + 1 \in P
  <2>1. ASSUME NEW j \in DOMAIN F, NEW k \in DOMAIN F, k = j + (n + 1) + 1 PROVE F[j].test[2] <= F[k].test[1]
    <3>1. k > 1 /\ k - 1 \in DOMAIN F /\ k - 1 = j + n + 1
      BY <1>1, <2>1
    <3>2. F[j].test[2] <= F[k - 1].test[1]
      BY <3>1
    <3> QED BY <1>1, <1>2, <3>1, <3>2
  <2> QED BY <2>1
<1>5. P = Nat
  <2>1. P \in SUBSET Nat
    OBVIOUS
  <2> HIDE DEF P
  <2> QED BY <1>3, <1>4, <2>1, NatInductionSet
<1>6. ASSUME NEW j \in DOMAIN F, NEW k \in DOMAIN F, j < k PROVE F[j].test[2] <= F[k].test[1]
  <2>1. k - j - 1 \in P /\ k = j + (k - j - 1) + 1
    BY <1>1, <1>5, <1>6
  <2> QED BY <2>1
<1>7. ASSUME NEW j \in DOMAIN F, NEW k \in DOMAIN F, j <= k PROVE F[j].test[1] <= F[k].test[1]
  <2>1. CASE j = k
    BY <1>1, <2>1
  <2>2. CASE j < k
    BY <1>1, <1>2, <1>6, <2>2
  <2> QED BY <1>1, <1>7, <2>1, <2>2
<1> QED BY <1>6, <1>7 DEF F

\* SplitFold: no sample of any verified manifest is fitted on and later tested.
LEMMA SplitsUntouched ==
    ASSUME WalkAssumption, WalkInv, NEW k \in DOMAIN frozen
    PROVE  LET split == frozen[k].split IN
           /\ \A s \in split.train \cup split.validation, j \in k .. Len(manifest.folds) :
                s.featureStart < manifest.folds[j].test[1] - manifest.purge
                /\ s.labelEnd <= manifest.folds[j].test[1] - manifest.purge
           /\ \A s \in split.train, v \in split.validation : s.labelEnd <= v.observed - manifest.purge
           /\ \A s \in split.test : s.observed >= manifest.folds[k].validation[2] + manifest.embargo
<1> DEFINE fold == manifest.folds[k]
           split == SplitFold(samples, fold, manifest.purge, manifest.embargo)
<1>1. /\ frozen # <<>> /\ VerifiedManifest(manifest) /\ ValidSamples(samples, manifest)
      /\ frozen[k].split = split /\ manifest \in Manifests /\ samples \in SampleLists(manifest)
      /\ k \in DOMAIN manifest.folds /\ DOMAIN manifest.folds = 1 .. Len(manifest.folds)
  <2>1. frozen \in Seq([split : {SplitOf(i) : i \in DOMAIN manifest.folds}, runner : Runners])
        /\ Len(frozen) <= Len(manifest.folds) /\ manifest \in Manifests
    BY DEF WalkInv
  <2>2. k \in 1 .. Len(frozen) /\ Len(frozen) \in Nat /\ frozen # <<>>
    BY <2>1
  <2>3. DOMAIN manifest.folds = 1 .. Len(manifest.folds) /\ Len(manifest.folds) \in Nat
    BY <2>1, ManifestType
  <2> QED BY <2>1, <2>2, <2>3 DEF WalkInv, SplitOf
<1>2. /\ {fold.train[2], fold.validation[1], fold.validation[2], fold.test[1]} \subseteq Int
      /\ fold.validation[1] < fold.validation[2] /\ fold.validation[2] <= fold.test[1]
      /\ {manifest.purge, manifest.embargo, manifest.featureHorizon, manifest.labelHorizon} \subseteq Int
      /\ manifest.featureHorizon >= 0 /\ manifest.labelHorizon > 0
  BY <1>1, ManifestType DEF VerifiedManifest, ValidInterval
<1>3. ASSUME NEW s \in Elements(samples)
      PROVE  /\ {s.observed, s.featureStart, s.featureEnd, s.labelEnd} \subseteq Int
             /\ s.featureStart <= s.observed /\ s.observed < s.labelEnd
  <2>1. {s.observed, s.featureStart, s.featureEnd, s.labelEnd} \subseteq Int
    BY <1>1, ManifestType
  <2> QED BY <1>1, <1>2, <2>1 DEF ValidSamples
<1>4. \A j \in k .. Len(manifest.folds) : fold.test[1] <= manifest.folds[j].test[1]
                                         /\ manifest.folds[j].test[1] \in Int
  <2>1. \A j \in k .. Len(manifest.folds) : j \in DOMAIN manifest.folds /\ k <= j
    BY <1>1
  <2> QED BY <1>1, <2>1, WindowsInOrder, ManifestType
<1>5. \A s \in split.train : s \in Elements(samples) /\ s.labelEnd <= fold.validation[1] - manifest.purge
  BY DEF SplitFold
<1>6. \A s \in split.validation : /\ s \in Elements(samples) /\ s.labelEnd <= fold.test[1] - manifest.purge
                                  /\ fold.validation[1] <= s.observed
  BY DEF SplitFold, Contains
<1>7. \A s \in split.test : s.observed >= fold.validation[2] + manifest.embargo
  BY DEF SplitFold
<1> HIDE DEF split, fold
<1>8. ASSUME NEW s \in split.train \cup split.validation, NEW j \in k .. Len(manifest.folds)
      PROVE  s.featureStart < manifest.folds[j].test[1] - manifest.purge
             /\ s.labelEnd <= manifest.folds[j].test[1] - manifest.purge
  <2>0. fold.validation[1] \in Int /\ fold.validation[2] \in Int /\ fold.test[1] \in Int
        /\ manifest.purge \in Int
    BY <1>2
  <2>1. s \in Elements(samples) /\ s.labelEnd <= fold.test[1] - manifest.purge
    <3>1. CASE s \in split.validation
      BY <1>6, <3>1
    <3>2. CASE s \in split.train
      <4>1. s \in Elements(samples) /\ s.labelEnd <= fold.validation[1] - manifest.purge
        BY <1>5, <3>2
      <4>2. s.labelEnd \in Int
        BY <1>3, <4>1
      <4> QED BY <1>2, <2>0, <4>1, <4>2
    <3> QED BY <3>1, <3>2
  <2>2. s.featureStart \in Int /\ s.labelEnd \in Int /\ s.featureStart < s.labelEnd
    BY <1>3, <2>1
  <2>3. fold.test[1] <= manifest.folds[j].test[1] /\ manifest.folds[j].test[1] \in Int
    BY <1>4
  <2> QED BY <2>0, <2>1, <2>2, <2>3
<1>9. ASSUME NEW s \in split.train, NEW v \in split.validation PROVE s.labelEnd <= v.observed - manifest.purge
  <2>1. s \in Elements(samples) /\ v \in Elements(samples) /\ s.labelEnd <= fold.validation[1] - manifest.purge
        /\ fold.validation[1] <= v.observed
    BY <1>5, <1>6
  <2> QED BY <1>2, <1>3, <2>1
<1> QED BY <1>1, <1>7, <1>8, <1>9 DEF fold

\* validateFolds: test windows are disjoint.
LEMMA SplitsTestOnce == ASSUME WalkAssumption, WalkInv PROVE TestedOnce
<1> SUFFICES ASSUME NEW j \in DOMAIN frozen, NEW k \in DOMAIN frozen, j # k,
                    NEW s \in frozen[j].split.test, s \in frozen[k].split.test
             PROVE  FALSE
  BY DEF TestedOnce
<1>1. /\ VerifiedManifest(manifest) /\ manifest \in Manifests /\ samples \in SampleLists(manifest)
      /\ frozen[j].split = SplitOf(j) /\ frozen[k].split = SplitOf(k)
      /\ j \in DOMAIN manifest.folds /\ k \in DOMAIN manifest.folds
      /\ DOMAIN manifest.folds = 1 .. Len(manifest.folds)
  <2>1. frozen \in Seq([split : {SplitOf(i) : i \in DOMAIN manifest.folds}, runner : Runners])
        /\ Len(frozen) <= Len(manifest.folds) /\ manifest \in Manifests
    BY DEF WalkInv
  <2>2. j \in 1 .. Len(frozen) /\ k \in 1 .. Len(frozen) /\ Len(frozen) \in Nat /\ frozen # <<>>
    BY <2>1
  <2>3. DOMAIN manifest.folds = 1 .. Len(manifest.folds) /\ Len(manifest.folds) \in Nat
    BY <2>1, ManifestType
  <2> QED BY <2>1, <2>2, <2>3 DEF WalkInv
<1>2. /\ s \in Elements(samples)
      /\ Contains(manifest.folds[j].test, s.observed) /\ Contains(manifest.folds[k].test, s.observed)
  BY <1>1 DEF SplitOf, SplitFold
<1>3. s.observed \in Int
  BY <1>1, <1>2, ManifestType
<1>4. \A i \in {j, k} : manifest.folds[i].test[1] \in Int /\ manifest.folds[i].test[2] \in Int
  BY <1>1, ManifestType
<1>5. j < k \/ k < j
  BY <1>1
<1>6. manifest.folds[j].test[2] <= manifest.folds[k].test[1]
      \/ manifest.folds[k].test[2] <= manifest.folds[j].test[1]
  BY <1>1, <1>5, WindowsInOrder
<1> QED BY <1>2, <1>3, <1>4, <1>6 DEF Contains

LEMMA AtLeastTwo == ASSUME NEW n \in Int PROVE Max({2, n}) \in Int /\ Max({2, n}) >= 2
<1>1. \E m \in {2, n} : \A y \in {2, n} : m >= y
  OBVIOUS
<1>2. Max({2, n}) \in {2, n} /\ \A y \in {2, n} : Max({2, n}) >= y
  BY <1>1 DEF Max
<1> QED BY <1>2

LEMMA WalkInvInit == ASSUME WalkAssumption, WalkInit PROVE WalkInv
<1>1. frozen = <<>> /\ tested = <<>> /\ step = "verify" /\ why = "none" /\ passed = FALSE
      /\ manifest \in Manifests /\ samples \in SampleLists(manifest)
  BY DEF WalkInit
<1>2. /\ frozen \in Seq([split : {SplitOf(k) : k \in DOMAIN manifest.folds}, runner : Runners])
      /\ DOMAIN frozen = {} /\ Len(frozen) = 0 /\ Len(manifest.folds) \in Nat
  BY <1>1, ManifestType
<1>3. tested \in Seq(Metrics) /\ Len(frozen) <= Len(manifest.folds)
  BY <1>1, <1>2
<1> QED BY <1>1, <1>2, <1>3 DEF WalkInv

\* Every error return leaves what was frozen and tested.
LEMMA FailsKeeps ==
    ASSUME WalkInv, NEW because, because # "unreconciled", WalkFails(because), step # "done"
    PROVE  WalkInv'
BY DEF WalkInv, WalkFails, SplitOf, Metrics, Lowers, Dominated

LEMMA VerifyKeeps == ASSUME WalkAssumption, WalkInv, Verify PROVE WalkInv'
<1>1. CASE ~VerifiedManifest(manifest)
  BY <1>1, FailsKeeps DEF Verify
<1>2. CASE VerifiedManifest(manifest) /\ ~ValidSamples(samples, manifest)
  BY <1>2, FailsKeeps DEF Verify
<1>3. CASE VerifiedManifest(manifest) /\ ValidSamples(samples, manifest)
  <2>1. step' = "freeze" /\ UNCHANGED <<manifest, samples, why, frozen, tested, passed>> /\ step = "verify"
    BY <1>3 DEF Verify
  <2>2. frozen = <<>> \/ frozen # <<>>
    OBVIOUS
  <2>3. Len(manifest.folds) \in Nat /\ Len(manifest.folds) >= 2
    <3>1. manifest \in Manifests /\ Len(manifest.folds) >= Max({2, manifest.minFolds})
      BY <1>3 DEF WalkInv, VerifiedManifest
    <3>2. Len(manifest.folds) \in Nat /\ manifest.minFolds \in Int
      BY <3>1, ManifestType
    <3> QED BY <3>1, <3>2, AtLeastTwo
  <2>4. frozen = <<>>
    BY <2>1 DEF WalkInv
  <2> QED BY <1>3, <2>1, <2>3, <2>4 DEF WalkInv, SplitOf
<1> QED BY <1>1, <1>2, <1>3

LEMMA FreezeKeeps ==
    ASSUME WalkAssumption, WalkInv, NEW r \in Runners, NEW f \in Fits, Freeze(r, f)
    PROVE  WalkInv'
<1> DEFINE k == Len(frozen) + 1
           split == SplitFold(samples, manifest.folds[k], manifest.purge, manifest.embargo)
           reused == r # 0 /\ r \in Keys(frozen, LAMBDA g : g.runner)
<1>1. CASE ~ValidSplit(split, manifest)
  BY <1>1, FailsKeeps DEF Freeze
<1>2. CASE ValidSplit(split, manifest) /\ reused
  BY <1>2, FailsKeeps DEF Freeze
<1>3. CASE ValidSplit(split, manifest) /\ ~reused
  <2>1. CASE f.error \/ ~ValidFit(f, manifest.allowed)
    BY <1>3, <2>1, FailsKeeps DEF Freeze
  <2>2. CASE ~(f.error \/ ~ValidFit(f, manifest.allowed))
    <3>1. /\ step = "freeze"
          /\ frozen' = Append(frozen, [split |-> split, runner |-> r])
          /\ step' = IF k = Len(manifest.folds) THEN "test" ELSE "freeze"
          /\ UNCHANGED <<manifest, samples, why, tested, passed>>
      BY <1>3, <2>2 DEF Freeze
    <3> DEFINE Items == [split : {SplitOf(i) : i \in DOMAIN manifest.folds}, runner : Runners]
    <3>2. /\ frozen \in Seq(Items) /\ Len(frozen) < Len(manifest.folds) /\ Len(manifest.folds) \in Nat
          /\ DOMAIN manifest.folds = 1 .. Len(manifest.folds)
      BY <3>1, ManifestType DEF WalkInv
    <3>3. k \in DOMAIN manifest.folds /\ split = SplitOf(k) /\ [split |-> split, runner |-> r] \in Items
      BY <3>2 DEF SplitOf
    <3>4. /\ frozen' \in Seq(Items) /\ Len(frozen') = k /\ DOMAIN frozen' = 1 .. k
          /\ \A i \in 1 .. Len(frozen) : frozen'[i] = frozen[i]
          /\ frozen'[k] = [split |-> split, runner |-> r]
      <4> HIDE DEF Items, split
      <4> QED BY <3>1, <3>2, <3>3
    <3>5. \A i \in DOMAIN frozen' : frozen'[i].split = SplitOf(i)
      <4>1. \A i \in DOMAIN frozen' : i \in 1 .. Len(frozen) \/ i = k
        BY <3>2, <3>4
      <4>2. \A i \in 1 .. Len(frozen) : frozen[i].split = SplitOf(i)
        BY <3>2 DEF WalkInv
      <4> QED BY <3>3, <3>4, <4>1, <4>2
    <3>6. /\ \A i : SplitOf(i)' = SplitOf(i)
          /\ VerifiedManifest(manifest) /\ ValidSamples(samples, manifest)
      BY <3>1 DEF SplitOf, WalkInv
    <3>7. frozen' \in Seq([split : {SplitOf(i)' : i \in DOMAIN manifest'.folds}, runner : Runners])
          /\ \A i \in DOMAIN frozen' : frozen'[i].split = SplitOf(i)'
      BY <3>1, <3>4, <3>5, <3>6
    <3>8. Len(frozen') <= Len(manifest.folds) /\ (step' = "freeze" => Len(frozen') < Len(manifest.folds))
      BY <3>1, <3>2, <3>4
    <3> HIDE DEF k, split
    <3> QED BY <3>1, <3>6, <3>7, <3>8 DEF WalkInv, Metrics, Lowers, Dominated
  <2> QED BY <2>1, <2>2
<1> QED BY <1>1, <1>2, <1>3

LEMMA TestKeeps == ASSUME WalkAssumption, WalkInv, NEW p \in Primitives, Test(p) PROVE WalkInv'
<1> DEFINE metrics == DeriveFoldMetrics(p)
<1>1. CASE ~Derivable(p)
  BY <1>1, FailsKeeps DEF Test
<1>2. CASE Derivable(p) /\ ~EnoughEvidence(metrics, manifest)
  BY <1>2, FailsKeeps DEF Test
<1>3. CASE Derivable(p) /\ EnoughEvidence(metrics, manifest)
  <2>1. p.trades # <<>>
    <3>1. metrics.trades # 0 /\ metrics.trades = Len(p.trades)
      BY <1>3 DEF EnoughEvidence, DeriveFoldMetrics
    <3> QED BY <3>1
  <2>2. Reconciles(metrics)
    <3>1. Typed(p)
      BY DEF WalkAssumption, Typed
    <3> QED BY <1>3, <2>1, <3>1, DerivedAddUp
  <2>3. metrics \in Metrics
    BY <1>3, <2>1 DEF Metrics
  <2> HIDE DEF metrics
  <2>4. /\ step = "test" /\ tested' = Append(tested, metrics)
        /\ step' = IF Len(tested) + 1 = Len(frozen) THEN "evaluate" ELSE "test"
        /\ UNCHANGED <<manifest, samples, why, frozen, passed>>
    BY <1>3, <2>2 DEF Test, metrics
  <2>5. tested' \in Seq(Metrics) /\ ~passed
    BY <2>3, <2>4 DEF WalkInv
  <2> QED BY <2>4, <2>5 DEF WalkInv, SplitOf, Metrics
<1> QED BY <1>1, <1>2, <1>3

LEMMA EvaluateKeeps ==
    ASSUME WalkAssumption, WalkInv, NEW lower \in Lowers(tested), Evaluate(lower)
    PROVE  WalkInv'
<1>1. CASE Len(tested) < Max({2, manifest.minUnits})
  BY <1>1, FailsKeeps DEF Evaluate
<1>2. CASE ~(Len(tested) < Max({2, manifest.minUnits})) /\ Dominated(tested)
  BY <1>2, FailsKeeps DEF Evaluate
<1>3. CASE ~(Len(tested) < Max({2, manifest.minUnits})) /\ ~Dominated(tested)
  <2>1. /\ step = "evaluate" /\ step' = "done" /\ passed' = Gate(lower, manifest.threshold)
        /\ UNCHANGED <<manifest, samples, why, frozen, tested>>
    BY <1>3 DEF Evaluate
  <2>2. tested # <<>>
    <3>1. manifest.minUnits \in Int /\ tested \in Seq(Metrics)
      BY ManifestType DEF WalkInv
    <3>2. Len(tested) >= 2
      BY <1>3, <3>1, AtLeastTwo
    <3> QED BY <3>1, <3>2
  <2> QED BY <1>3, <2>1, <2>2 DEF WalkInv, SplitOf, Gate
<1> QED BY <1>1, <1>2, <1>3

LEMMA WalkInvStep == ASSUME WalkAssumption, WalkInv, [WalkNext]_walkVars PROVE WalkInv'
<1>1. CASE Verify
  BY <1>1, VerifyKeeps
<1>2. CASE TestFails
  BY <1>2, FailsKeeps DEF TestFails
<1>3. ASSUME NEW r \in Runners, NEW f \in Fits, Freeze(r, f) PROVE WalkInv'
  BY <1>3, FreezeKeeps
<1>4. ASSUME NEW p \in Primitives, Test(p) PROVE WalkInv'
  BY <1>4, TestKeeps
<1>5. ASSUME NEW l \in Lowers(tested), Evaluate(l) PROVE WalkInv'
  BY <1>5, EvaluateKeeps
<1>6. CASE UNCHANGED walkVars
  BY <1>6 DEF WalkInv, walkVars, SplitOf
<1> QED BY <1>1, <1>2, <1>3, <1>4, <1>5, <1>6 DEF WalkNext

LEMMA WalkInvFair == ASSUME WalkAssumption, WalkInv PROVE WalkIsFair
<1>1. TestsAreUntouched
  BY SplitsUntouched DEF TestsAreUntouched
<1>2. TestedOnce
  BY SplitsTestOnce
<1>3. DerivedReconciles
  BY DEF WalkInv, DerivedReconciles
<1>4. EvidenceIsSpread
  <2> SUFFICES ASSUME passed, manifest.threshold >= 0
               PROVE  LET moved(f) == {x \in DOMAIN f : f[x] # 0} IN
                      /\ \E r \in Elements(tested) : r.afterCost > manifest.threshold
                      /\ Cardinality({i \in DOMAIN tested : tested[i].afterCost # 0}) >= 2
                      /\ Cardinality(UNION {moved(r.symbol) : r \in Elements(tested)}) >= 2
                      /\ Cardinality({t \in Trades(tested) : tested[t[1]].trade[t[2]] # 0}) # 1
    BY DEF EvidenceIsSpread
  <2>1. tested # <<>> /\ ~Dominated(tested) /\ tested \in Seq(Metrics)
    BY DEF WalkInv
  <2>2. PICK lower \in Lowers(tested) : lower > manifest.threshold
    BY DEF WalkInv
  <2>3. manifest.threshold \in Nat
    <3>1. manifest.threshold \in Int
      BY ManifestType DEF WalkInv
    <3> QED BY <3>1
  <2>4. tested \in Seq(Elements(tested)) /\ \A r \in Elements(tested) : r \in Metrics
    BY <2>1 DEF Elements
  <2>5. \A r \in Elements(tested) : Adds(r)
    BY <2>4, MetricsAdd
  <2> QED BY <2>1, <2>2, <2>3, <2>4, <2>5, SpreadHolds
<1> QED BY <1>1, <1>2, <1>3, <1>4 DEF WalkIsFair

\* RunWalkForward, for every manifest, list of samples and result of a test: no
\* fold, and no later one, is tested on what a fold was fitted on, no sample
\* counts for two windows, what DeriveFoldMetrics derives reconciles, and what
\* passes does not hang on a single window, symbol or trade.
THEOREM WalksAreFair == ASSUME WalkAssumption PROVE WalkSpec => []WalkIsFair
<1>1. WalkInit => WalkInv
  BY WalkInvInit
<1>2. WalkInv /\ [WalkNext]_walkVars => WalkInv'
  BY WalkInvStep
<1>3. WalkInv => WalkIsFair
  BY WalkInvFair
<1> QED BY <1>1, <1>2, <1>3, PTL DEF WalkSpec

-----------------------------------------------------------------------------
(* The comparison. *)

Strategies == {Candidate, Matched, Hold, Trend, "cash", "equal_weight", "momentum", "legacy"}

LEMMA Registered == ASSUME NEW id, Versions(id) # {} PROVE id \in Strategies
BY DEF Versions, Strategies

\* What is said of a list of strategies compared for id.
ListOf(ids, id) ==
    /\ ids \in Seq(Strategies) /\ Len(ids) \in 3 .. 7
    /\ \A i, j \in DOMAIN ids : ids[i] = ids[j] => i = j
    /\ \A x \in {"cash", Hold, Trend} : \E i \in DOMAIN ids : ids[i] = x
    /\ id = Candidate => \E i \in DOMAIN ids : ids[i] = Matched
    /\ \A i \in DOMAIN ids : ids[i] = id \/ Baseline(ids[i])

LEMMA ListAppend ==
    ASSUME NEW ids, NEW id \in Strategies, ListOf(ids, id), Len(ids) <= 6,
           ~ \E i \in DOMAIN ids : ids[i] = id
    PROVE  ListOf(Append(ids, id), id) /\ \E i \in DOMAIN Append(ids, id) : Append(ids, id)[i] = id
<1> DEFINE more == Append(ids, id)
<1>1. ids \in Seq(Strategies) /\ Len(ids) \in 3 .. 6 /\ DOMAIN ids = 1 .. Len(ids)
  BY DEF ListOf
<1>2. /\ more \in Seq(Strategies) /\ Len(more) = Len(ids) + 1 /\ DOMAIN more = 1 .. Len(ids) + 1
      /\ more[Len(ids) + 1] = id /\ \A i \in DOMAIN ids : more[i] = ids[i]
  BY <1>1
<1>3. \A i \in DOMAIN more : i \in DOMAIN ids \/ i = Len(ids) + 1
  BY <1>1, <1>2
<1>4. \A i \in DOMAIN ids : i \in DOMAIN more
  BY <1>1, <1>2
<1> HIDE DEF more
<1>5. \A i, j \in DOMAIN more : more[i] = more[j] => i = j
  BY <1>2, <1>3 DEF ListOf
<1>6. \A x \in {"cash", Hold, Trend} : \E i \in DOMAIN more : more[i] = x
  BY <1>2, <1>4 DEF ListOf
<1>7. id = Candidate => \E i \in DOMAIN more : more[i] = Matched
  BY <1>2, <1>4 DEF ListOf
<1>8. \A i \in DOMAIN more : more[i] = id \/ Baseline(more[i])
  BY <1>2, <1>3 DEF ListOf
<1>9. Len(more) \in 3 .. 7 /\ Len(ids) + 1 \in DOMAIN more
  BY <1>1, <1>2
<1> QED BY <1>2, <1>5, <1>6, <1>7, <1>8, <1>9 DEF ListOf, more

\* RunStage05Comparison adds the one that was asked for.
LEMMA Completed ==
    ASSUME NEW ids, NEW id \in Strategies, ListOf(ids, id), Len(ids) <= 6,
           Ids(id) = IF \E i \in DOMAIN ids : ids[i] = id THEN ids ELSE Append(ids, id)
    PROVE  ListOf(Ids(id), id) /\ \E i \in DOMAIN Ids(id) : Ids(id)[i] = id
<1>1. CASE \E i \in DOMAIN ids : ids[i] = id
  BY <1>1
<1>2. CASE ~ \E i \in DOMAIN ids : ids[i] = id
  BY <1>2, ListAppend
<1> QED BY <1>1, <1>2

\* The strategies that are compared: none twice, the benchmarks and the one that
\* was asked for among them, the research candidate only when it was.
LEMMA IdsShape ==
    ASSUME NEW id \in Strategies
    PROVE  ListOf(Ids(id), id) /\ \E i \in DOMAIN Ids(id) : Ids(id)[i] = id
<1> DEFINE three == <<"cash", Hold, Trend>>
           five == <<"cash", Hold, Trend, "equal_weight", "momentum">>
           six == <<"cash", Hold, Trend, "equal_weight", "momentum", Matched>>
<1> USE DEF Strategies, Candidate, Matched, Hold, Trend, Baseline
<1>1. CASE id = Candidate
  <2>1. Len(six) = 6 /\ six \in Seq(Strategies) /\ DOMAIN six = 1 .. 6
    OBVIOUS
  <2>2. \A i, j \in 1 .. 6 : six[i] = six[j] => i = j
    OBVIOUS
  <2>3. /\ six[1] = "cash" /\ six[2] = Hold /\ six[3] = Trend /\ six[6] = Matched
        /\ 1 \in 1 .. 6 /\ 2 \in 1 .. 6 /\ 3 \in 1 .. 6 /\ 6 \in 1 .. 6
    OBVIOUS
  <2>4. \A i \in 1 .. 6 : Baseline(six[i])
    OBVIOUS
  <2>5. Ids(id) = IF \E i \in DOMAIN six : six[i] = id THEN six ELSE Append(six, id)
    BY <1>1 DEF Ids
  <2> HIDE DEF six, Strategies, Candidate, Matched, Hold, Trend, Baseline
  <2>6. \A x \in {"cash", Hold, Trend} : \E i \in DOMAIN six : six[i] = x
    BY <2>1, <2>3
  <2>7. id = Candidate => \E i \in DOMAIN six : six[i] = Matched
    BY <1>1, <2>1, <2>3
  <2>8. ListOf(six, id)
    BY <2>1, <2>2, <2>4, <2>6, <2>7 DEF ListOf
  <2>9. Len(six) <= 6
    BY <2>1
  <2> QED BY <2>5, <2>8, <2>9, Completed
<1>2. CASE id # Candidate /\ NeedsUniverse(id)
  <2>1. Len(five) = 5 /\ five \in Seq(Strategies) /\ DOMAIN five = 1 .. 5
    OBVIOUS
  <2>2. \A i, j \in 1 .. 5 : five[i] = five[j] => i = j
    OBVIOUS
  <2>3. /\ five[1] = "cash" /\ five[2] = Hold /\ five[3] = Trend
        /\ 1 \in 1 .. 5 /\ 2 \in 1 .. 5 /\ 3 \in 1 .. 5
    OBVIOUS
  <2>4. \A i \in 1 .. 5 : Baseline(five[i])
    OBVIOUS
  <2>5. Ids(id) = IF \E i \in DOMAIN five : five[i] = id THEN five ELSE Append(five, id)
    BY <1>2 DEF Ids
  <2> HIDE DEF five, Strategies, Candidate, Matched, Hold, Trend, Baseline
  <2>6. \A x \in {"cash", Hold, Trend} : \E i \in DOMAIN five : five[i] = x
    BY <2>1, <2>3
  <2>7. id = Candidate => \E i \in DOMAIN five : five[i] = Matched
    BY <1>2, <2>1, <2>3
  <2>8. ListOf(five, id)
    BY <2>1, <2>2, <2>4, <2>6, <2>7 DEF ListOf
  <2>9. Len(five) <= 6
    BY <2>1
  <2> QED BY <2>5, <2>8, <2>9, Completed
<1>3. CASE id # Candidate /\ ~NeedsUniverse(id)
  <2>1. Len(three) = 3 /\ three \in Seq(Strategies) /\ DOMAIN three = 1 .. 3
    OBVIOUS
  <2>2. \A i, j \in 1 .. 3 : three[i] = three[j] => i = j
    OBVIOUS
  <2>3. /\ three[1] = "cash" /\ three[2] = Hold /\ three[3] = Trend
        /\ 1 \in 1 .. 3 /\ 2 \in 1 .. 3 /\ 3 \in 1 .. 3
    OBVIOUS
  <2>4. \A i \in 1 .. 3 : Baseline(three[i])
    OBVIOUS
  <2>5. Ids(id) = IF \E i \in DOMAIN three : three[i] = id THEN three ELSE Append(three, id)
    BY <1>3 DEF Ids
  <2> HIDE DEF three, Strategies, Candidate, Matched, Hold, Trend, Baseline
  <2>6. \A x \in {"cash", Hold, Trend} : \E i \in DOMAIN three : three[i] = x
    BY <2>1, <2>3
  <2>7. id = Candidate => \E i \in DOMAIN three : three[i] = Matched
    BY <1>3, <2>1, <2>3
  <2>8. ListOf(three, id)
    BY <2>1, <2>2, <2>4, <2>6, <2>7 DEF ListOf
  <2>9. Len(three) <= 6
    BY <2>1
  <2> QED BY <2>5, <2>8, <2>9, Completed
<1> QED BY <1>1, <1>2, <1>3

-----------------------------------------------------------------------------
\* The row of a comparison for one of its strategies.
RowFor(id, v) == [strategy |-> Selected(id, RunAs(id).version, RunAs(id).parameters), return |-> v]

Started == phase \notin {"idle", "refused"}

\* The rows are those of the first strategies of the list, each resolved as
\* RunAs says.
Rows ==
    LET ids == Ids(request.id) IN
    /\ results \in Seq({RowFor(ids[i], v) : i \in DOMAIN ids, v \in Int})
    /\ Len(results) <= Len(ids)
    /\ \A i \in DOMAIN results :
         /\ results[i] = RowFor(ids[i], results[i].return) /\ results[i].return \in Int
         /\ Resolves(ids[i], RunAs(ids[i]).version, RunAs(ids[i]).parameters)

\* The others are still to be run.
ToRun ==
    LET ids == Ids(request.id) IN
    /\ todo \in Seq(Strategies) /\ Len(todo) = Len(ids) - Len(results)
    /\ \A j \in 1 .. Len(todo) : todo[j] = ids[Len(results) + j]

\* The rows are those that were compared; the artifact says what its
\* rows do, and the row of the job holds the artifact.
CompareInv ==
    /\ phase \in {"idle", "refused", "running", "failed", "built", "stored", "done"}
    /\ ~Started => results = <<>>
    /\ Started => request \in Requests /\ ValidateRequest(request)
    /\ Started => Rows
    /\ phase = "running" => ToRun
    /\ Built =>
         /\ Len(results) = Len(Ids(request.id))
         /\ artifact.content = [candidate |-> <<request.id, VersionOf(request.id, request.version)>>,
                                rows |-> results, allowed |-> Allowed]
         /\ artifact.digest = comparisonDigest(artifact.content)
    /\ phase \in {"stored", "done"} => row.digest = artifact.digest
    /\ phase = "done" => row.status = "completed" /\ row.summary = artifact
    /\ DOMAIN row = {"status", "digest", "summary"}

\* A request that validates names a registered strategy.
LEMMA Validated ==
    ASSUME NEW r, ValidateRequest(r)
    PROVE  /\ r.id \in Strategies /\ VersionOf(r.id, r.version) \in Versions(r.id)
           /\ Valid(r.id, VersionOf(r.id, r.version), CandidateParameters(r))
<1>1. Resolves(r.id, r.version, CandidateParameters(r))
  BY DEF ValidateRequest
<1> QED BY <1>1, Registered DEF Resolves

LEMMA CompareInvInit == ASSUME CompareInit PROVE CompareInv
BY DEF CompareInit, CompareInv, Started, Built

LEMMA SubmitKeeps == ASSUME CompareInv, NEW r \in Requests, Submit(r) PROVE CompareInv'
<1>1. phase = "idle" /\ request' = r /\ results = <<>> /\ UNCHANGED <<results, artifact, row>>
  BY DEF Submit, CompareInv, Started
<1>2. CASE ~ValidateRequest(r)
  <2>1. phase' = "refused"
    BY <1>2 DEF Submit
  <2> QED BY <1>1, <2>1 DEF CompareInv, Started, Built
<1>3. CASE ValidateRequest(r)
  <2>1. phase' = "running" /\ todo' = Ids(r.id)
    BY <1>3 DEF Submit
  <2>2. ListOf(Ids(r.id), r.id)
    BY <1>3, Validated, IdsShape
  <2>3. /\ todo' \in Seq(Strategies) /\ Len(todo') = Len(Ids(r.id)) - Len(results')
        /\ \A j \in 1 .. Len(todo') : todo'[j] = Ids(r.id)[Len(results') + j]
        /\ Len(results') <= Len(Ids(r.id)) /\ DOMAIN results' = {}
    BY <1>1, <2>1, <2>2 DEF ListOf
  <2>4. results' \in Seq({RowFor(Ids(r.id)[i], v)' : i \in DOMAIN Ids(r.id), v \in Int})
    BY <1>1
  <2>5. Rows' /\ ToRun'
    BY <1>1, <2>3, <2>4 DEF Rows, ToRun
  <2> QED BY <1>1, <1>3, <2>1, <2>5 DEF CompareInv, Started, Built
<1> QED BY <1>2, <1>3

\* Steps after which the request and the rows are what they were.
LEMMA RowsKept ==
    ASSUME UNCHANGED <<request, results>>
    PROVE  /\ \A id : RunAs(id)' = RunAs(id)
           /\ \A id, v : RowFor(id, v)' = RowFor(id, v)
           /\ Allowed' = Allowed
BY DEF RunAs, RowFor, Allowed, Ran, Value, ReturnOf

LEMMA CompareFailsKeeps ==
    ASSUME CompareInv, NEW because, phase = "running" \/ phase = "built", Fails(because)
    PROVE  CompareInv'
<1>1. /\ phase' = "failed" /\ UNCHANGED <<request, todo, results, artifact>>
      /\ row' = [row EXCEPT !.status = "failed"] /\ DOMAIN row' = {"status", "digest", "summary"}
  BY DEF Fails, CompareInv
<1>2. \A id : RunAs(id)' = RunAs(id)
  BY <1>1, RowsKept
<1>3. \A id, v : RowFor(id, v)' = RowFor(id, v)
  BY <1>1, RowsKept
<1>4. Rows' <=> Rows
  BY <1>1, <1>2, <1>3 DEF Rows
<1> QED BY <1>1, <1>2, <1>3, <1>4 DEF CompareInv, Started, Built

LEMMA RunStrategyKeeps ==
    ASSUME ComparisonAssumption, CompareInv, NEW ret \in Returns, RunStrategy(ret)
    PROVE  CompareInv'
<1> DEFINE id == Head(todo)
           as == RunAs(id)
           ids == Ids(request.id)
           v == IF id = "cash" THEN 0 ELSE ret
           n == Len(results)
<1>1. phase = "running" /\ todo # <<>> /\ Started
  BY DEF RunStrategy, Started
<1>2. CASE ~Resolves(id, as.version, as.parameters)
  <2>1. Fails("resolve")
    BY <1>2 DEF RunStrategy
  <2> QED BY <1>1, <2>1, CompareFailsKeeps
<1>3. CASE Resolves(id, as.version, as.parameters)
  <2>1. /\ results' = Append(results, RowFor(id, v)) /\ todo' = Tail(todo)
        /\ UNCHANGED <<request, phase, reason, artifact, row>>
    BY <1>3 DEF RunStrategy, RowFor
  <2>2. v \in Int
    BY DEF ComparisonAssumption
  <2>3. \A x : RunAs(x)' = RunAs(x)
    BY <2>1 DEF RunAs
  <2>4. \A x, w : RowFor(x, w)' = RowFor(x, w)
    BY <2>3 DEF RowFor
  <2>5. /\ results \in Seq({RowFor(ids[i], w) : i \in DOMAIN ids, w \in Int})
        /\ todo \in Seq(Strategies) /\ Len(todo) = Len(ids) - n
        /\ \A j \in 1 .. Len(todo) : todo[j] = ids[n + j]
    BY <1>1 DEF CompareInv, Rows, ToRun
  <2>6. ListOf(ids, request.id)
    BY <1>1, Validated, IdsShape DEF CompareInv
  <2>7. n \in Nat /\ Len(ids) \in Nat /\ Len(todo) >= 1 /\ DOMAIN ids = 1 .. Len(ids)
    BY <1>1, <2>5, <2>6 DEF ListOf
  <2>8. id = ids[n + 1] /\ n + 1 \in DOMAIN ids
    BY <1>1, <2>5, <2>7
  <2>9. /\ todo' \in Seq(Strategies) /\ Len(todo') = Len(ids) - (n + 1)
        /\ \A j \in 1 .. Len(todo') : todo'[j] = ids[(n + 1) + j]
    <3>1. todo' \in Seq(Strategies) /\ Len(todo') = Len(todo) - 1
          /\ \A j \in 1 .. Len(todo') : todo'[j] = todo[j + 1]
      BY <1>1, <2>1, <2>5
    <3> QED BY <3>1, <2>5, <2>7
  <2>10. RowFor(id, v) \in {RowFor(ids[i], w) : i \in DOMAIN ids, w \in Int}
    BY <2>2, <2>8
  <2> DEFINE R == {RowFor(ids[i], w) : i \in DOMAIN ids, w \in Int}
             new == RowFor(id, v)
  <2>11. new.return = v
    BY DEF RowFor
  <2> HIDE DEF R, new
  <2>12. results \in Seq(R) /\ new \in R
    BY <2>5, <2>10 DEF R, new
  <2>13. /\ results' \in Seq(R) /\ Len(results') = n + 1 /\ DOMAIN results' = 1 .. n + 1
         /\ results'[n + 1] = new /\ \A i \in DOMAIN results : results'[i] = results[i]
    BY <2>1, <2>12 DEF new
  <2>14. \A i \in DOMAIN results' : i \in DOMAIN results \/ i = n + 1
    BY <2>12, <2>13
  <2>15. R' = R /\ ids' = ids
    BY <2>1, <2>4 DEF R
  <2> HIDE DEF v
  <2>16. \A i \in DOMAIN results' :
            /\ results'[i] = RowFor(ids[i], results'[i].return) /\ results'[i].return \in Int
            /\ Resolves(ids[i], RunAs(ids[i]).version, RunAs(ids[i]).parameters)
    <3> TAKE i \in DOMAIN results'
    <3>1. CASE i \in DOMAIN results
      BY <1>1, <2>13, <3>1 DEF CompareInv, Rows
    <3>2. CASE i = n + 1
      <4>1. results'[i] = new /\ new = RowFor(ids[i], v)
        BY <2>8, <2>13, <3>2 DEF new
      <4> QED BY <4>1, <1>3, <2>2, <2>8, <2>11, <3>2
    <3> QED BY <2>14, <3>1, <3>2
  <2>17. phase' = "running" /\ Started' /\ ~Built'
    BY <1>1, <2>1 DEF Started, Built
  <2>18. request' = request
    BY <2>1
  <2>19. Rows'
    <3> DEFINE S == {RowFor(Ids(request.id)[i], w) : i \in DOMAIN Ids(request.id), w \in Int}
    <3>1. S' = R
      BY <2>4, <2>18 DEF R
    <3>2. results' \in Seq(S') /\ Len(results') <= Len(Ids(request.id)')
      BY <3>1, <2>7, <2>8, <2>13, <2>18
    <3>3. \A i \in DOMAIN results' :
            /\ results'[i] = RowFor(Ids(request.id)[i], results[i].return)' /\ results'[i].return \in Int
            /\ Resolves(Ids(request.id)[i], RunAs(Ids(request.id)[i]).version, RunAs(Ids(request.id)[i]).parameters)'
      BY <2>3, <2>4, <2>16, <2>18
    <3> QED BY <3>2, <3>3 DEF Rows
  <2>20. ToRun'
    BY <2>9, <2>13, <2>18 DEF ToRun
  <2>21. request' \in Requests /\ ValidateRequest(request') /\ DOMAIN row' = {"status", "digest", "summary"}
    BY <1>1, <2>1 DEF CompareInv
  <2> QED BY <2>17, <2>19, <2>20, <2>21 DEF CompareInv
<1> QED BY <1>2, <1>3

\* A step that leaves the request, the rows and the others to be run alone.
LEMMA RowsStay ==
    ASSUME UNCHANGED <<request, todo, results>>
    PROVE  /\ Rows' <=> Rows
           /\ ToRun' <=> ToRun
           /\ Allowed' = Allowed
<1>1. /\ \A id : RunAs(id)' = RunAs(id)
      /\ \A id, v : RowFor(id, v)' = RowFor(id, v)
  BY RowsKept
<1>2. Allowed' = Allowed
  BY RowsKept
<1> QED BY <1>1, <1>2 DEF Rows, ToRun

LEMMA BuildKeeps == ASSUME CompareInv, Build PROVE CompareInv'
<1>1. phase = "running" /\ todo = <<>> /\ Started
  BY DEF Build, Started
<1>2. CASE NeedsGrid /\ ~GridResolves
  <2>1. Fails("resolve")
    BY <1>2 DEF Build
  <2> QED BY <1>1, <2>1, CompareFailsKeeps
<1>3. CASE ~(NeedsGrid /\ ~GridResolves)
  <2> DEFINE content == [candidate |-> <<request.id, VersionOf(request.id, request.version)>>,
                         rows |-> results, allowed |-> Allowed]
  <2>1. /\ artifact' = [content |-> content, digest |-> comparisonDigest(content)]
        /\ phase' = "built" /\ UNCHANGED <<request, reason, todo, results, row>>
    BY <1>3 DEF Build
  <2>2. Rows' /\ Allowed' = Allowed
    BY <1>1, <2>1, RowsStay DEF CompareInv
  <2>3. Len(results) = Len(Ids(request.id))
    <3>1. Rows /\ ToRun
      BY <1>1 DEF CompareInv
    <3>2. ListOf(Ids(request.id), request.id)
      BY <1>1, Validated, IdsShape DEF CompareInv
    <3>3. Len(results) \in Nat /\ Len(Ids(request.id)) \in Nat
      BY <3>1, <3>2 DEF Rows, ListOf
    <3>4. Len(Ids(request.id)) - Len(results) = 0
      BY <1>1, <3>1 DEF ToRun
    <3> QED BY <3>3, <3>4
  <2>4. artifact'.content = content' /\ content' = content
        /\ artifact'.digest = comparisonDigest(artifact'.content)
    BY <2>1, <2>2
  <2> QED BY <1>1, <2>1, <2>2, <2>3, <2>4 DEF CompareInv, Started, Built
<1> QED BY <1>2, <1>3

LEMMA StoreDigestKeeps == ASSUME CompareInv, StoreDigest PROVE CompareInv'
<1>1. /\ phase = "built" /\ row' = [row EXCEPT !.digest = artifact.digest] /\ phase' = "stored"
      /\ UNCHANGED <<request, reason, todo, results, artifact>>
  BY DEF StoreDigest
<1>2. Started /\ Rows' /\ Allowed' = Allowed
  BY <1>1, RowsStay DEF CompareInv, Started
<1>3. row'.digest = artifact'.digest /\ DOMAIN row' = {"status", "digest", "summary"}
  BY <1>1 DEF CompareInv
<1> QED BY <1>1, <1>2, <1>3 DEF CompareInv, Started, Built

LEMMA StoreSummaryKeeps == ASSUME CompareInv, StoreSummary PROVE CompareInv'
<1>1. /\ phase = "stored" /\ phase' = "done"
      /\ row' = [row EXCEPT !.status = "completed", !.summary = artifact]
      /\ UNCHANGED <<request, reason, todo, results, artifact>>
  BY DEF StoreSummary
<1>2. Started /\ Rows' /\ Allowed' = Allowed
  BY <1>1, RowsStay DEF CompareInv, Started
<1>3. /\ row'.digest = artifact'.digest /\ row'.status = "completed" /\ row'.summary = artifact'
      /\ DOMAIN row' = {"status", "digest", "summary"}
  BY <1>1 DEF CompareInv
<1> QED BY <1>1, <1>2, <1>3 DEF CompareInv, Started, Built

LEMMA CompareInvStep ==
    ASSUME ComparisonAssumption, CompareInv, [CompareNext]_compareVars
    PROVE  CompareInv'
<1>1. CASE \E r \in Requests : Submit(r)
  BY <1>1, SubmitKeeps
<1>2. CASE \E v \in Returns : RunStrategy(v)
  BY <1>2, RunStrategyKeeps
<1>3. CASE InputsMissing
  BY <1>3, CompareFailsKeeps DEF InputsMissing
<1>4. CASE RunFails
  BY <1>4, CompareFailsKeeps DEF RunFails
<1>5. CASE Build
  BY <1>5, BuildKeeps
<1>6. CASE StoreDigest
  BY <1>6, StoreDigestKeeps
<1>7. CASE TooLarge
  BY <1>7, CompareFailsKeeps DEF TooLarge
<1>8. CASE StoreSummary
  BY <1>8, StoreSummaryKeeps
<1>9. CASE UNCHANGED compareVars
  <2>1. UNCHANGED <<request, phase, todo, results, artifact, row>>
    BY <1>9 DEF compareVars
  <2>2. (Rows' <=> Rows) /\ (ToRun' <=> ToRun) /\ Allowed' = Allowed
    BY <2>1, RowsStay
  <2> QED BY <2>1, <2>2 DEF CompareInv, Started, Built
<1> QED BY <1>1, <1>2, <1>3, <1>4, <1>5, <1>6, <1>7, <1>8, <1>9 DEF CompareNext

-----------------------------------------------------------------------------
\* Each row is that of its strategy.
LEMMA RowsAre ==
    ASSUME CompareInv, Started, NEW i \in DOMAIN results
    PROVE  LET id == Ids(request.id)[i] IN
           /\ i \in DOMAIN Ids(request.id)
           /\ results[i].strategy = Selected(id, RunAs(id).version, RunAs(id).parameters)
           /\ results[i].strategy.id = id
           /\ results[i].return \in Int
           /\ Resolves(id, RunAs(id).version, RunAs(id).parameters)
<1> DEFINE id == Ids(request.id)[i]
<1>1. ListOf(Ids(request.id), request.id) /\ Rows
  BY Validated, IdsShape DEF CompareInv
<1>2. i \in DOMAIN Ids(request.id)
  <2>1. Len(results) \in Nat /\ DOMAIN results = 1 .. Len(results) /\ Len(results) <= Len(Ids(request.id))
    BY <1>1 DEF Rows
  <2>2. Len(Ids(request.id)) \in Nat /\ DOMAIN Ids(request.id) = 1 .. Len(Ids(request.id))
    BY <1>1 DEF ListOf
  <2> QED BY <2>1, <2>2
<1>3. /\ results[i] = RowFor(id, results[i].return) /\ results[i].return \in Int
      /\ Resolves(id, RunAs(id).version, RunAs(id).parameters)
  BY <1>1 DEF Rows
<1>4. \A v : RowFor(id, v).strategy = Selected(id, RunAs(id).version, RunAs(id).parameters)
  BY DEF RowFor
<1>5. \A version, p : Selected(id, version, p).id = id
  BY DEF Selected
<1> QED BY <1>2, <1>3, <1>4, <1>5

\* A strategy is looked up where its row is.
LEMMA FoundAt ==
    ASSUME CompareInv, Started, NEW i \in DOMAIN results, NEW x, x = results[i].strategy.id
    PROVE  ReturnOf(x) = i /\ Value(x) = results[i].return
<1>1. ListOf(Ids(request.id), request.id)
  BY Validated, IdsShape DEF CompareInv
<1>2. \A j \in DOMAIN results :
         j \in DOMAIN Ids(request.id) /\ results[j].strategy.id = Ids(request.id)[j]
  BY RowsAre
<1>3. \A j \in DOMAIN results : results[j].strategy.id = x => j = i
  BY <1>1, <1>2 DEF ListOf
<1>4. ReturnOf(x) = i
  BY <1>3 DEF ReturnOf
<1> QED BY <1>4 DEF Value

\* A finished comparison has a row for each of its strategies.
LEMMA AllRan ==
    ASSUME CompareInv, Built
    PROVE  /\ \A i \in DOMAIN Ids(request.id) : i \in DOMAIN results /\ Ids(request.id)[i] \in Ran
           /\ {"cash", Hold, Trend, request.id} \subseteq Ran
           /\ request.id = Candidate => Matched \in Ran
           /\ \A x \in Ran : (x = request.id \/ Baseline(x)) /\ Value(x) \in Int
           /\ IsFiniteSet(Ran) /\ Cardinality(Ran) = Len(results)
<1> DEFINE ids == Ids(request.id)
<1>1. Started
  BY DEF Built, Started
<1>2. ListOf(ids, request.id) /\ \E i \in DOMAIN ids : ids[i] = request.id
  BY <1>1, Validated, IdsShape DEF CompareInv
<1>3. Rows /\ Len(results) = Len(ids)
  BY <1>1 DEF CompareInv
<1>4. Len(results) \in Nat /\ DOMAIN results = 1 .. Len(results) /\ DOMAIN ids = DOMAIN results
  BY <1>2, <1>3 DEF Rows, ListOf
<1>5. \A i \in DOMAIN results : results[i].strategy.id = ids[i] /\ results[i].return \in Int
  BY <1>1, RowsAre
<1>6. \A i \in DOMAIN results : Value(ids[i]) = results[i].return
  BY <1>1, <1>5, FoundAt
<1> HIDE DEF ids
<1>7. \A x : x \in Ran <=> \E i \in DOMAIN results : x = ids[i]
  BY <1>5 DEF Ran
<1>8. \A x \in Ran : (x = request.id \/ Baseline(x)) /\ Value(x) \in Int
  BY <1>2, <1>4, <1>5, <1>6, <1>7 DEF ListOf
<1>9. {"cash", Hold, Trend, request.id} \subseteq Ran /\ (request.id = Candidate => Matched \in Ran)
  BY <1>2, <1>4, <1>7 DEF ListOf
<1>10. IsFiniteSet(Ran) /\ Cardinality(Ran) = Len(results)
  <2> DEFINE n == Len(results)
             f == [i \in 1 .. n |-> ids[i]]
  <2>1. f \in [1 .. n -> Ran]
    BY <1>4, <1>7
  <2>2. f \in Injection(1 .. n, Ran)
    BY <2>1, <1>2, <1>4 DEF Injection, IsInjective, ListOf
  <2>3. f \in Surjection(1 .. n, Ran)
    BY <2>1, <1>4, <1>7 DEF Surjection
  <2>4. ExistsBijection(1 .. n, Ran)
    BY <2>2, <2>3 DEF ExistsBijection, Bijection
  <2>5. IsFiniteSet(1 .. n) /\ Cardinality(1 .. n) = n
    <3>1. n \in Nat /\ n \in Int /\ 1 \in Int
      BY <1>4
    <3> HIDE DEF n
    <3>2. IsFiniteSet(1 .. n) /\ Cardinality(1 .. n) = IF 1 > n THEN 0 ELSE n - 1 + 1
      BY <3>1, FS_Interval
    <3> QED BY <3>1, <3>2
  <2> QED BY <2>4, <2>5, FS_Bijection
<1> QED BY <1>4, <1>7, <1>8, <1>9, <1>10 DEF ids

\* What a candidate that the gate passes has done.
Beats ==
    /\ ~Baseline(request.id) /\ ~LegacyCompatibility(request.id)
    /\ \A x \in Ran \ {request.id} : Value(request.id) > Value(x)

LEMMA AllowedBeats == ASSUME CompareInv, Built PROVE Allowed <=> Beats
<1> DEFINE rivals == {id \in Ran \ {"cash", request.id} : Baseline(id)}
           all == rivals \cup {Hold}
           V == {Value(id) : id \in all}
           best == CHOOSE v \in V : \A id \in all : Value(id) <= v
<1>1. /\ {"cash", Hold, Trend, request.id} \subseteq Ran /\ IsFiniteSet(Ran)
      /\ \A x \in Ran : (x = request.id \/ Baseline(x)) /\ Value(x) \in Int
  BY AllRan
<1>2. IsFiniteSet(all) /\ all \subseteq Ran /\ Hold \in all
  BY <1>1, FS_Subset
<1>3. \E v \in V : \A id \in all : Value(id) <= v
  <2> DEFINE value == [id \in all |-> Value(id)]
             W == {value[id] : id \in all}
  <2> HIDE DEF all
  <2>1. W \subseteq Int /\ W # {}
    BY <1>1, <1>2
  <2>2. IsFiniteSet(W)
    <3> HIDE DEF value
    <3> QED BY <1>2, FiniteImage
  <2>3. PICK m \in W : \A x \in W : m >= x
    <3> HIDE DEF W
    <3> QED BY <2>1, <2>2, LargestExists
  <2>4. m \in V /\ m \in Int
    BY <2>1
  <2>5. \A id \in all : Value(id) <= m
    BY <1>1, <1>2, <2>3
  <2> QED BY <2>4, <2>5
<1>4. best \in V /\ \A id \in all : Value(id) <= best
  BY <1>3
<1>5. PICK top \in all : best = Value(top)
  BY <1>4
<1>6. Allowed <=> /\ Value(request.id) > Value("cash") /\ Value(request.id) > best
                  /\ ~Baseline(request.id) /\ ~LegacyCompatibility(request.id)
  BY DEF Allowed
<1> HIDE DEF best
<1>7. ASSUME ~Baseline(request.id)
      PROVE  all = Ran \ {"cash", request.id} /\ "cash" # request.id
  BY <1>1, <1>7 DEF Baseline, Candidate, Hold
<1>8. ASSUME Allowed PROVE Beats
  <2>1. ASSUME NEW x \in Ran \ {request.id} PROVE Value(request.id) > Value(x)
    <3>1. CASE x = "cash"
      BY <1>6, <1>8, <3>1
    <3>2. CASE x # "cash"
      <4>1. x \in all
        BY <1>6, <1>7, <1>8, <3>2
      <4>2. Value(x) <= best /\ Value(request.id) > best
        BY <1>4, <1>6, <1>8, <4>1
      <4>3. Value(x) \in Int /\ Value(request.id) \in Int /\ best \in Int
        BY <1>1, <1>2, <1>5
      <4> QED BY <4>2, <4>3
    <3> QED BY <3>1, <3>2
  <2> QED BY <1>6, <1>8, <2>1 DEF Beats
<1>9. ASSUME Beats PROVE Allowed
  <2>1. ~Baseline(request.id) /\ ~LegacyCompatibility(request.id)
    BY <1>9 DEF Beats
  <2>2. top \in Ran \ {request.id} /\ "cash" \in Ran \ {request.id}
    BY <1>1, <1>5, <1>7, <2>1
  <2>3. Value(request.id) > Value("cash") /\ Value(request.id) > best
    BY <1>5, <1>9, <2>2 DEF Beats
  <2> QED BY <1>6, <2>1, <2>3
<1> QED BY <1>8, <1>9

\* ResolveExecutable: to resolve a version that was resolved changes nothing.
LEMMA VersionTwice ==
    ASSUME NEW id, NEW v, VersionOf(id, v) \in Versions(id)
    PROVE  VersionOf(id, VersionOf(id, v)) = VersionOf(id, v)
<1>1. "" \notin Versions(id)
  BY DEF Versions
<1> QED BY <1>1 DEF VersionOf

LEMMA RowsAllowBeats == ASSUME CompareInv, Built PROVE RowsAllow(artifact.content) <=> Beats
<1> DEFINE content == artifact.content
           id == request.id
           of(x) == content.rows[CHOOSE i \in DOMAIN content.rows : content.rows[i].strategy.id = x]
<1>1. content.candidate[1] = id /\ content.candidate[2] = VersionOf(id, request.version) /\ content.rows = results
  BY DEF CompareInv
<1>2. /\ {"cash", Hold, Trend, id} \subseteq Ran /\ Cardinality(Ran) = Len(results)
      /\ \A x \in Ran : x = id \/ Baseline(x)
  BY AllRan
<1>3. \A x : of(x) = results[ReturnOf(x)] /\ of(x).return = Value(x)
  BY <1>1 DEF ReturnOf, Value
<1>4. of(id).strategy.version = VersionOf(id, request.version)
  <2>1. Started
    BY DEF Built, Started
  <2>2. PICK i \in DOMAIN results : results[i].strategy.id = id
    BY <1>2 DEF Ran
  <2>3. of(id) = results[i] /\ results[i].strategy = Selected(id, RunAs(id).version, RunAs(id).parameters)
    <3>1. ReturnOf(id) = i
      BY <2>1, <2>2, FoundAt
    <3>2. of(id) = results[i]
      BY <1>3, <3>1
    <3> QED BY <2>1, <2>2, <3>2, RowsAre
  <2>4. RunAs(id).version = VersionOf(id, request.version)
    BY DEF RunAs
  <2>5. \A v, p : Selected(id, v, p).version = VersionOf(id, v)
    BY DEF Selected
  <2>6. VersionOf(id, request.version) \in Versions(id)
    BY <2>1, Validated DEF CompareInv
  <2> QED BY <2>3, <2>4, <2>5, <2>6, VersionTwice
<1>5. RowsAllow(content) <=>
        /\ Cardinality(Ran) = Len(results) /\ {"cash", Hold, Trend, id} \subseteq Ran
        /\ ~Baseline(id) /\ ~LegacyCompatibility(id)
        /\ of(id).strategy.version = content.candidate[2]
        /\ \A x \in Ran \ {id} : Baseline(x) => of(id).return > of(x).return
  BY <1>1 DEF RowsAllow, Ran
<1> HIDE DEF of, content
<1> QED BY <1>1, <1>2, <1>3, <1>4, <1>5 DEF Beats, content

LEMMA StoredGate == ASSUME CompareInv, Built PROVE artifact.content.allowed <=> Allowed
<1>1. artifact.content = [candidate |-> <<request.id, VersionOf(request.id, request.version)>>,
                          rows |-> results, allowed |-> Allowed]
  BY DEF CompareInv
<1> QED BY <1>1

LEMMA PassesBeat == ASSUME CompareInv PROVE PassBeatsAll
<1> SUFFICES ASSUME Built, artifact.content.allowed
             PROVE  /\ ~Baseline(request.id)
                    /\ \A id \in Ran \ {request.id} : Value(request.id) > Value(id)
  BY DEF PassBeatsAll
<1>2. Allowed
  BY StoredGate
<1> QED BY <1>2, AllowedBeats DEF Beats

LEMMA GatesAgree == ASSUME CompareInv PROVE GateAgrees
<1> SUFFICES ASSUME Built PROVE artifact.content.allowed <=> RowsAllow(artifact.content)
  BY DEF GateAgrees
<1>1. artifact.content.allowed <=> Allowed
  BY StoredGate
<1>2. Allowed <=> RowsAllow(artifact.content)
  BY AllowedBeats, RowsAllowBeats
<1> QED BY <1>1, <1>2

LEMMA AcceptsPassed == ASSUME CompareInv PROVE AcceptsWhatPassed
<1> SUFFICES ASSUME phase = "done"
             PROVE  OptimizerAccepts <=>
                      artifact.content.allowed /\ row.digest = serviceDigest(row.summary.content)
  BY DEF AcceptsWhatPassed
<1>1. Built /\ row.status = "completed" /\ row.summary = artifact /\ row.digest = artifact.digest
  BY DEF CompareInv, Built
<1>2. artifact.content.allowed <=> RowsAllow(artifact.content)
  BY <1>1, GatesAgree DEF GateAgrees
<1>3. OptimizerAccepts <=> row.digest = serviceDigest(row.summary.content) /\ RowsAllow(row.summary.content)
  BY <1>1 DEF OptimizerAccepts
<1> QED BY <1>1, <1>2, <1>3

\* What a request of the research candidate fixes for the two strategies that
\* take its parameters.
LEMMA CandidateIntent ==
    ASSUME CompareInv, Started, request.id = Candidate
    PROVE  LET p == CandidateParameters(request) IN
           "execution_intent" \in DOMAIN p /\ p.execution_intent = "backtest"
<1> DEFINE r == request
           intent == IF r.id = Candidate /\ "execution_intent" \notin DOMAIN r.parameters
                     THEN [execution_intent |-> "backtest"] ELSE <<>>
<1>1. ValidateRequest(r)
  BY DEF CompareInv
<1>2. CandidateParameters(r).execution_intent = "backtest"
  BY <1>1 DEF ValidateRequest
<1>3. "execution_intent" \in DOMAIN intent \cup DOMAIN r.parameters
  OBVIOUS
<1>4. \A f, g : DOMAIN Plus(f, g) = DOMAIN f \cup DOMAIN g
  BY DEF Plus
<1> HIDE DEF intent
<1>5. DOMAIN intent \cup DOMAIN r.parameters \subseteq DOMAIN CandidateParameters(r)
  <2> DEFINE final == IF r.id = "cash" /\ "final_policy" \notin DOMAIN r.parameters
                      THEN <<>> ELSE [final_policy |-> Filled(r).policy]
             gross == [target_gross |-> Filled(r).gross]
  <2>1. CandidateParameters(r) = Plus(Plus(Plus(intent, r.parameters), gross), final)
    BY DEF CandidateParameters, intent
  <2> DEFINE one == Plus(intent, r.parameters) two == Plus(one, gross) three == Plus(two, final)
  <2>2. CandidateParameters(r) = three
    BY <2>1
  <2>3. DOMAIN one = DOMAIN intent \cup DOMAIN r.parameters
    BY <1>4
  <2> HIDE DEF one
  <2>4. DOMAIN two = DOMAIN one \cup DOMAIN gross
    BY <1>4
  <2> HIDE DEF two
  <2>5. DOMAIN three = DOMAIN two \cup DOMAIN final
    BY <1>4
  <2> HIDE DEF three, final, gross
  <2> QED BY <2>2, <2>3, <2>4, <2>5
<1> QED BY <1>2, <1>3, <1>5

\* The parameters a strategy is selected with.
LEMMA Parameters ==
    ASSUME NEW id, NEW v, NEW p
    PROVE  LET of == Selected(id, v, p).parameters spec == Declared(id, VersionOf(id, v)) IN
           /\ DOMAIN of = DOMAIN spec \cup DOMAIN p
           /\ \A k \in DOMAIN of : of[k] = IF k \in DOMAIN p THEN p[k] ELSE spec[k][1]
BY DEF Selected, Plus

\* Only the candidate and its matched baseline have an execution intent.
LEMMA NoIntent ==
    ASSUME NEW id \in Strategies \ {Candidate, Matched}, NEW v
    PROVE  "execution_intent" \notin DOMAIN Declared(id, v)
BY DEF Declared, Strategies, Candidate, Matched, Hold, Trend, Shared

LEMMA Simulates == ASSUME CompareInv PROVE OnlySimulates
<1> SUFFICES ASSUME phase # "idle", request.id = Candidate, NEW i \in DOMAIN results,
                    "execution_intent" \in DOMAIN results[i].strategy.parameters
             PROVE  results[i].strategy.parameters.execution_intent = "backtest"
  BY DEF OnlySimulates
<1>1. Started
  <2>1. CASE ~Started
    BY <2>1 DEF CompareInv
  <2> QED BY <2>1
<1> DEFINE id == Ids(request.id)[i]
           p == RunAs(id).parameters
           all == CandidateParameters(request)
<1>2. results[i].strategy = Selected(id, RunAs(id).version, p) /\ i \in DOMAIN Ids(request.id)
  BY <1>1, RowsAre
<1>3. id \in Strategies
  <2>1. ListOf(Ids(request.id), request.id)
    BY <1>1, Validated, IdsShape DEF CompareInv
  <2> QED BY <1>2, <2>1 DEF ListOf
<1>4. "execution_intent" \in DOMAIN all /\ all.execution_intent = "backtest"
  BY <1>1, CandidateIntent
<1>5. CASE id \in {Candidate, Matched}
  <2>1. "execution_intent" \in DOMAIN p /\ p.execution_intent = "backtest"
    <3>1. CASE id = Candidate
      BY <1>4, <3>1 DEF RunAs
    <3>2. CASE id = Matched
      BY <1>4, <3>2 DEF RunAs, Plus, CouncilKeys, Candidate, Matched
    <3> QED BY <1>5, <3>1, <3>2
  <2> QED BY <1>2, <2>1, Parameters
<1>6. CASE id \notin {Candidate, Matched}
  <2>1. "execution_intent" \notin DOMAIN p
    BY <1>6 DEF RunAs
  <2>2. "execution_intent" \notin DOMAIN Declared(id, VersionOf(id, RunAs(id).version))
    BY <1>3, <1>6, NoIntent
  <2> QED BY <1>2, <2>1, <2>2, Parameters
<1> QED BY <1>5, <1>6

\* The research candidate has several versions, so its requests name one.
LEMMA VersionNamed ==
    ASSUME NEW v, VersionOf(Candidate, v) \in Versions(Candidate)
    PROVE  VersionOf(Candidate, v) = v
<1> DEFINE all == Versions(Candidate)
           one == {"1.0.0"} \cup {"1.1.0"}
           two == one \cup {"1.2.0"}
           three == two \cup {"1.3.0"}
<1>1. all = three \cup {"1.4.0"} /\ "1.0.0" \in all /\ "1.1.0" \in all
  BY DEF Versions, Candidate, Matched, Hold, Trend
<1> HIDE DEF all
<1>2. IsFiniteSet({"1.0.0"}) /\ IsFiniteSet({"1.1.0"}) /\ IsFiniteSet({"1.2.0"})
      /\ IsFiniteSet({"1.3.0"}) /\ IsFiniteSet({"1.4.0"})
  BY FS_Singleton
<1>3. IsFiniteSet(one)
  BY <1>2, FS_Union
<1> HIDE DEF one
<1>4. IsFiniteSet(two)
  BY <1>2, <1>3, FS_Union
<1> HIDE DEF two
<1>5. IsFiniteSet(three)
  BY <1>2, <1>4, FS_Union
<1> HIDE DEF three
<1>6. IsFiniteSet(all)
  BY <1>1, <1>2, <1>5, FS_Union
<1>7. Cardinality(all) >= 2
  BY <1>1, <1>6, TwoMembers
<1>8. Cardinality(Versions(Candidate)) # 1
  BY <1>7 DEF all
<1> QED BY <1>8 DEF VersionOf

\* newDefaultStrategyRegistry: what the candidate and its matched baseline
\* declare, apart from volatility normalisation and the council, is the same and
\* has the same defaults.
Ignored == CouncilKeys \cup {"vol_normalization"}
MatchedVersion(v) == IF v = "1.2.0" THEN "1.1.0" ELSE "1.0.0"

LEMMA SharedDeclarations ==
    ASSUME NEW v \in Versions(Candidate)
    PROVE  LET candidate == Declared(Candidate, v) matched == Declared(Matched, MatchedVersion(v)) IN
           /\ \A k : k \notin Ignored => (k \in DOMAIN candidate <=> k \in DOMAIN matched)
           /\ \A k \in DOMAIN matched : k \notin Ignored => candidate[k][1] = matched[k][1]
<1> USE DEF Candidate, Matched, Hold, Trend, MatchedVersion
<1> DEFINE model == [decision_model |-> <<"default", "other">>,
                     decision_council_policy |-> <<"observe", "act">>]
           first == Family(<<"combined", "absolute_trend_only", "relative_momentum_only">>,
                           <<"true", "false">>)
           own == Family(Combined, <<"true">>)
           base == Family(Combined, <<"false">>)
           keys == {"target_gross", "final_policy", "variant", "vol_normalization", "caps",
                    "execution_intent"}
<1>1. /\ DOMAIN first = keys /\ DOMAIN own = keys /\ DOMAIN base = keys
      /\ DOMAIN model = {"decision_model", "decision_council_policy"}
      /\ DOMAIN Rule = {"entry_momentum_rule"}
  BY DEF Family, Rule
<1>2. \A k \in keys \ {"vol_normalization"} : first[k][1] = base[k][1] /\ own[k][1] = base[k][1]
  BY DEF Family, Combined
<1>3. Declared(Matched, "1.0.0") = base /\ Declared(Matched, "1.1.0") = Plus(base, Rule)
  BY DEF Declared
<1> HIDE DEF first, own, base, model, keys
<1>4. \A f, g : /\ DOMAIN Plus(f, g) = DOMAIN f \cup DOMAIN g
                /\ \A k \in DOMAIN Plus(f, g) : Plus(f, g)[k] = IF k \in DOMAIN g THEN g[k] ELSE f[k]
  BY DEF Plus
<1>5. CASE v \in {"1.0.0", "1.1.0"}
  <2>1. Declared(Candidate, v) = first
    BY <1>5 DEF Declared, first
  <2>2. MatchedVersion(v) = "1.0.0"
    BY <1>5
  <2> QED BY <1>1, <1>2, <1>3, <2>1, <2>2 DEF Ignored, CouncilKeys, keys
<1>6. CASE v = "1.2.0"
  <2>1. Declared(Candidate, v) = Plus(own, Rule)
    BY <1>6 DEF Declared, own
  <2>2. MatchedVersion(v) = "1.1.0"
    BY <1>6
  <2>3. "entry_momentum_rule" \notin keys
    BY DEF keys
  <2>4. /\ DOMAIN Plus(own, Rule) = DOMAIN own \cup DOMAIN Rule
        /\ \A k \in DOMAIN Plus(own, Rule) :
             Plus(own, Rule)[k] = IF k \in DOMAIN Rule THEN Rule[k] ELSE own[k]
    BY <1>4
  <2>5. /\ DOMAIN Plus(base, Rule) = DOMAIN base \cup DOMAIN Rule
        /\ \A k \in DOMAIN Plus(base, Rule) :
             Plus(base, Rule)[k] = IF k \in DOMAIN Rule THEN Rule[k] ELSE base[k]
    BY <1>4
  <2>6. DOMAIN Plus(own, Rule) = DOMAIN Plus(base, Rule)
    BY <1>1, <2>4, <2>5
  <2>7. \A k \in DOMAIN Plus(base, Rule) : k \notin Ignored => Plus(own, Rule)[k][1] = Plus(base, Rule)[k][1]
    BY <1>1, <1>2, <2>3, <2>6, <2>4, <2>5 DEF Ignored
  <2> QED BY <1>3, <2>1, <2>2, <2>6, <2>7
<1>7. CASE v = "1.3.0"
  <2>1. Declared(Candidate, v) = Plus(own, model)
    BY <1>7 DEF Declared, own, model
  <2>2. MatchedVersion(v) = "1.0.0"
    BY <1>7
  <2>3. \A k \in DOMAIN model : k \in Ignored /\ k \notin keys
    BY <1>1 DEF Ignored, CouncilKeys, keys
  <2>4. /\ DOMAIN Plus(own, model) = DOMAIN own \cup DOMAIN model
        /\ \A k \in DOMAIN Plus(own, model) :
             Plus(own, model)[k] = IF k \in DOMAIN model THEN model[k] ELSE own[k]
    BY <1>4
  <2>5. \A k : k \notin Ignored => (k \in DOMAIN Plus(own, model) <=> k \in DOMAIN base)
    BY <1>1, <2>3, <2>4
  <2>6. \A k \in DOMAIN base : k \notin Ignored => Plus(own, model)[k][1] = base[k][1]
    BY <1>1, <1>2, <2>3, <2>5, <2>4 DEF Ignored
  <2> QED BY <1>3, <2>1, <2>2, <2>5, <2>6
<1>8. CASE v = "1.4.0"
  <2> DEFINE early == [decision_council_early_exit |-> <<"true", "false">>]
             both == Plus(own, model)
  <2>1. Declared(Candidate, v) = Plus(both, early)
    BY <1>8 DEF Declared, own, model
  <2>2. MatchedVersion(v) = "1.0.0"
    BY <1>8
  <2>3. DOMAIN early = {"decision_council_early_exit"}
    OBVIOUS
  <2> HIDE DEF early, both
  <2>4. \A k \in DOMAIN model \cup DOMAIN early : k \in Ignored /\ k \notin keys
    BY <1>1, <2>3 DEF Ignored, CouncilKeys, keys
  <2>5. /\ DOMAIN both = DOMAIN own \cup DOMAIN model
        /\ \A k \in DOMAIN both : both[k] = IF k \in DOMAIN model THEN model[k] ELSE own[k]
    BY <1>4 DEF both
  <2>6. /\ DOMAIN Plus(both, early) = DOMAIN both \cup DOMAIN early
        /\ \A k \in DOMAIN Plus(both, early) :
             Plus(both, early)[k] = IF k \in DOMAIN early THEN early[k] ELSE both[k]
    BY <1>4
  <2>7. \A k : k \notin Ignored => (k \in DOMAIN Plus(both, early) <=> k \in DOMAIN base)
    BY <1>1, <2>4, <2>5, <2>6
  <2>8. \A k \in DOMAIN base : k \notin Ignored => Plus(both, early)[k][1] = base[k][1]
    BY <1>1, <1>2, <2>4, <2>5, <2>6, <2>7 DEF Ignored
  <2> QED BY <1>3, <2>1, <2>2, <2>7, <2>8
<1> QED BY <1>5, <1>6, <1>7, <1>8 DEF Versions

LEMMA SharesRules == ASSUME CompareInv PROVE MatchedSharesRules
<1> DEFINE of(id) == results[ReturnOf(id)].strategy.parameters
<1> SUFFICES ASSUME Built, request.id = Candidate
             PROVE  /\ DOMAIN of(Matched) \ Ignored = DOMAIN of(Candidate) \ Ignored
                    /\ \A k \in DOMAIN of(Matched) \ Ignored : of(Matched)[k] = of(Candidate)[k]
  BY DEF MatchedSharesRules, Ignored
<1> DEFINE v == request.version
           p == CandidateParameters(request)
           m == MatchedVersion(v)
           q == Plus([k \in DOMAIN p \ CouncilKeys |-> p[k]], [vol_normalization |-> "false"])
           candidate == Declared(Candidate, v)
           matched == Declared(Matched, m)
<1>1. Started
  BY DEF Built, Started
<1>2. v \in Versions(Candidate) /\ VersionOf(Candidate, v) = v
  BY <1>1, Validated, VersionNamed DEF CompareInv
<1>3. VersionOf(Matched, m) = m
  BY DEF VersionOf, MatchedVersion
<1>4. RunAs(Candidate).parameters = p /\ VersionOf(Candidate, RunAs(Candidate).version) = v
  BY <1>2 DEF RunAs
<1>5. RunAs(Matched) = [version |-> m, parameters |-> q]
  BY DEF RunAs, MatchedVersion, Candidate, Matched
<1>6. Candidate \in Ran /\ Matched \in Ran
  BY AllRan
<1>7. ASSUME NEW id \in Ran
      PROVE  /\ of(id) = Selected(id, RunAs(id).version, RunAs(id).parameters).parameters
             /\ Resolves(id, RunAs(id).version, RunAs(id).parameters)
  <2>1. PICK i \in DOMAIN results : results[i].strategy.id = id
    BY DEF Ran
  <2>2. ReturnOf(id) = i
    BY <1>1, <2>1, FoundAt
  <2> QED BY <1>1, <2>1, <2>2, RowsAre
<1>8. Valid(Candidate, v, p) /\ Valid(Matched, m, q)
  <2>1. Resolves(Candidate, RunAs(Candidate).version, RunAs(Candidate).parameters)
    BY <1>6, <1>7
  <2>2. Resolves(Matched, RunAs(Matched).version, RunAs(Matched).parameters)
    BY <1>6, <1>7
  <2> QED BY <1>3, <1>4, <1>5, <2>1, <2>2 DEF Resolves
<1>9. /\ DOMAIN of(Candidate) = DOMAIN candidate \cup DOMAIN p
      /\ \A k \in DOMAIN of(Candidate) : of(Candidate)[k] = IF k \in DOMAIN p THEN p[k] ELSE candidate[k][1]
  <2>1. of(Candidate) = Selected(Candidate, RunAs(Candidate).version, p).parameters
    BY <1>4, <1>6, <1>7
  <2> QED BY <1>4, <2>1, Parameters
<1>10. /\ DOMAIN of(Matched) = DOMAIN matched \cup DOMAIN q
       /\ \A k \in DOMAIN of(Matched) : of(Matched)[k] = IF k \in DOMAIN q THEN q[k] ELSE matched[k][1]
  <2>1. of(Matched) = Selected(Matched, m, q).parameters
    BY <1>5, <1>6, <1>7
  <2> QED BY <1>3, <2>1, Parameters
<1>11. DOMAIN p \subseteq DOMAIN candidate /\ DOMAIN q \subseteq DOMAIN matched
  BY <1>8 DEF Valid
<1>12. \A k : k \notin Ignored => (k \in DOMAIN q <=> k \in DOMAIN p) /\ (k \in DOMAIN q => q[k] = p[k])
  BY DEF Plus, Ignored
<1>13. /\ \A k : k \notin Ignored => (k \in DOMAIN candidate <=> k \in DOMAIN matched)
       /\ \A k \in DOMAIN matched : k \notin Ignored => candidate[k][1] = matched[k][1]
  BY <1>2, SharedDeclarations
<1> DEFINE mine == of(Candidate) theirs == of(Matched)
<1>14. DOMAIN mine = DOMAIN candidate /\ DOMAIN theirs = DOMAIN matched
  BY <1>9, <1>10, <1>11
<1>15. /\ \A k \in DOMAIN mine : mine[k] = IF k \in DOMAIN p THEN p[k] ELSE candidate[k][1]
       /\ \A k \in DOMAIN theirs : theirs[k] = IF k \in DOMAIN q THEN q[k] ELSE matched[k][1]
  BY <1>9, <1>10
<1> HIDE DEF mine, theirs, p, q, candidate, matched
<1>16. DOMAIN theirs \ Ignored = DOMAIN mine \ Ignored
  BY <1>13, <1>14
<1>17. \A k \in DOMAIN theirs \ Ignored : theirs[k] = mine[k]
  BY <1>12, <1>13, <1>14, <1>15
<1> QED BY <1>16, <1>17 DEF mine, theirs

LEMMA CompareInvFair == ASSUME CompareInv PROVE ComparisonIsFair
BY Simulates, PassesBeat, GatesAgree, SharesRules, AcceptsPassed DEF ComparisonIsFair

\* RunStage05Comparison and requireBaselineRelativeOptimizationEvidence, for any
\* requests and returns: only simulations run, a candidate passes only above every
\* baseline, the optimizer's gate agrees with the job's, the matched baseline
\* shares the candidate's rules, and only an artifact that passed is accepted.
THEOREM ComparisonsAreFair == ASSUME ComparisonAssumption PROVE CompareSpec => []ComparisonIsFair
<1>1. CompareInit => CompareInv
  BY CompareInvInit
<1>2. CompareInv /\ [CompareNext]_compareVars => CompareInv'
  BY CompareInvStep
<1>3. CompareInv => ComparisonIsFair
  BY CompareInvFair
<1> QED BY <1>1, <1>2, <1>3, PTL DEF CompareSpec

-----------------------------------------------------------------------------
(* The drafts. *)

\* newDefaultStrategyRegistry: every parameter of the candidate has a default,
\* and the defaults may be run.
LEMMA Defaults ==
    ASSUME NEW v \in Versions(Candidate)
    PROVE  LET spec == Declared(Candidate, v) IN
           /\ \A k \in DOMAIN spec : 1 \in DOMAIN spec[k]
           /\ {"execution_intent", "caps"} \subseteq DOMAIN spec
           /\ spec["execution_intent"][1] = "research" /\ spec["caps"][1] = "consistent"
<1> USE DEF Candidate, Matched, Hold, Trend
<1> DEFINE model == [decision_model |-> <<"default", "other">>,
                     decision_council_policy |-> <<"observe", "act">>]
           early == [decision_council_early_exit |-> <<"true", "false">>]
           first == Family(<<"combined", "absolute_trend_only", "relative_momentum_only">>,
                           <<"true", "false">>)
           own == Family(Combined, <<"true">>)
           Good(f) == /\ \A k \in DOMAIN f : 1 \in DOMAIN f[k]
                      /\ {"execution_intent", "caps"} \subseteq DOMAIN f
                      /\ f["execution_intent"][1] = "research" /\ f["caps"][1] = "consistent"
           Tame(g) == /\ \A k \in DOMAIN g : 1 \in DOMAIN g[k]
                      /\ "execution_intent" \notin DOMAIN g /\ "caps" \notin DOMAIN g
<1>1. Good(first) /\ Good(own)
  BY DEF Family, Combined, Policies
<1>2. Tame(model) /\ Tame(early) /\ Tame(Rule)
  BY DEF Rule
<1> HIDE DEF model, early, first, own
<1>3. ASSUME NEW f, NEW g, Good(f), Tame(g) PROVE Good(Plus(f, g))
  <2>1. /\ DOMAIN Plus(f, g) = DOMAIN f \cup DOMAIN g
        /\ \A k \in DOMAIN Plus(f, g) : Plus(f, g)[k] = IF k \in DOMAIN g THEN g[k] ELSE f[k]
    BY DEF Plus
  <2> QED BY <1>3, <2>1
<1>4. Good(Plus(own, Rule)) /\ Good(Plus(own, model))
  BY <1>1, <1>2, <1>3
<1>5. Good(Plus(Plus(own, model), early))
  BY <1>2, <1>3, <1>4
<1>6. CASE v \in {"1.0.0", "1.1.0"}
  <2>1. Declared(Candidate, v) = first
    BY <1>6 DEF Declared, first
  <2> QED BY <1>1, <2>1
<1>7. CASE v = "1.2.0"
  <2>1. Declared(Candidate, v) = Plus(own, Rule)
    BY <1>7 DEF Declared, own
  <2> QED BY <1>4, <2>1
<1>8. CASE v = "1.3.0"
  <2>1. Declared(Candidate, v) = Plus(own, model)
    BY <1>8 DEF Declared, own, model
  <2> QED BY <1>4, <2>1
<1>9. CASE v = "1.4.0"
  <2>1. Declared(Candidate, v) = Plus(Plus(own, model), early)
    BY <1>9 DEF Declared, own, model, early
  <2> QED BY <1>5, <2>1
<1> QED BY <1>6, <1>7, <1>8, <1>9 DEF Versions

\* What a map of parameters resolves to is resolved to itself.
LEMMA CanonicalTwice ==
    ASSUME NEW v \in Versions(Candidate), NEW p, Resolves(Candidate, v, p)
    PROVE  LET c == Selected(Candidate, v, p).parameters IN
           /\ Resolves(Candidate, v, c)
           /\ Selected(Candidate, v, c).parameters = c
<1> DEFINE spec == Declared(Candidate, v)
           c == Selected(Candidate, v, p).parameters
           d == Selected(Candidate, v, c).parameters
<1>1. VersionOf(Candidate, v) = v
  BY VersionNamed DEF Resolves
<1>2. Valid(Candidate, v, p)
  BY <1>1 DEF Resolves
<1>3. /\ DOMAIN c = DOMAIN spec \cup DOMAIN p
      /\ \A k \in DOMAIN c : c[k] = IF k \in DOMAIN p THEN p[k] ELSE spec[k][1]
  BY <1>1, Parameters
<1>4. /\ DOMAIN p \subseteq DOMAIN spec
      /\ \A k \in DOMAIN p : \E i \in DOMAIN spec[k] : spec[k][i] = p[k]
      /\ "execution_intent" \in DOMAIN p => p.execution_intent \notin Fenced
      /\ "caps" \in DOMAIN p => p.caps = "consistent"
  BY <1>2 DEF Valid
<1>5. /\ \A k \in DOMAIN spec : 1 \in DOMAIN spec[k]
      /\ spec["execution_intent"][1] = "research" /\ spec["caps"][1] = "consistent"
  BY Defaults
<1>6. d = Plus([k \in DOMAIN spec |-> spec[k][1]], c) /\ c = Plus([k \in DOMAIN spec |-> spec[k][1]], p)
  BY <1>1 DEF Selected
<1> HIDE DEF spec, c, d
<1>7. DOMAIN c = DOMAIN spec
  BY <1>3, <1>4
<1>8. Valid(Candidate, v, c)
  <2>1. \A k \in DOMAIN c : \E i \in DOMAIN spec[k] : spec[k][i] = c[k]
    BY <1>3, <1>4, <1>5, <1>7
  <2>2. "execution_intent" \in DOMAIN c => c["execution_intent"] \notin Fenced
    BY <1>3, <1>4, <1>5 DEF Fenced
  <2>3. "caps" \in DOMAIN c => c["caps"] = "consistent"
    BY <1>3, <1>4, <1>5
  <2> QED BY <1>7, <2>1, <2>2, <2>3 DEF Valid, spec
<1>9. d = c
  <2>1. /\ DOMAIN d = DOMAIN c /\ \A k \in DOMAIN d : d[k] = c[k]
    BY <1>6, <1>7 DEF Plus
  <2>2. d = [k \in DOMAIN d |-> d[k]] /\ c = [k \in DOMAIN c |-> c[k]]
    BY <1>6 DEF Plus
  <2> QED BY <2>1, <2>2
<1> QED BY <1>1, <1>8, <1>9 DEF Resolves, c, d

\* A draft that passed: a simulation that resolves to itself and is new.
Passed(i) ==
    /\ "execution_intent" \in DOMAIN drafts[i] /\ drafts[i].execution_intent = "backtest"
    /\ Resolves(Candidate, ask.version, drafts[i]) /\ Canonical(drafts[i]) = drafts[i]
    /\ drafts[i] # Canonical(ask.base)
    /\ \A j \in 1 .. i - 1 : drafts[i] # drafts[j]

\* The drafts before the one that is checked passed, and drafts are shown when
\* all of them have.
DraftsInv ==
    /\ drafts \in Seq(Elements(drafts)) /\ checked \in 0 .. Len(drafts)
    /\ stage \in {"waiting", "checking"} => ask.version \in Versions(Candidate)
    /\ stage \in {"idle", "waiting"} => checked = 0
    /\ stage # "ended" => status = 0
    /\ \A i \in 1 .. checked : Passed(i)
    /\ status = 200 => checked = Len(drafts)

LEMMA DraftsInvInit == ASSUME DraftsInit PROVE DraftsInv
<1>1. drafts = <<>> /\ stage = "idle" /\ checked = 0 /\ status = 0
  BY DEF DraftsInit
<1>2. \A T : <<>> \in Seq(T)
  OBVIOUS
<1>3. drafts \in Seq(Elements(drafts)) /\ Len(drafts) = 0 /\ 1 .. checked = {}
  BY <1>1, <1>2
<1> QED BY <1>1, <1>3 DEF DraftsInv

\* Steps that leave the drafts and the request alone.
LEMMA DraftsStay ==
    ASSUME DraftsInv, UNCHANGED <<drafts, checked>>, ask' = ask \/ checked = 0,
           stage' \in {"waiting", "checking"} => ask'.version \in Versions(Candidate),
           stage' \in {"idle", "waiting"} => checked = 0,
           stage' # "ended" => status' = 0,
           status' = 200 => checked = Len(drafts)
    PROVE  DraftsInv'
<1>1. \A i \in 1 .. checked : Passed(i)'
  <2>1. CASE ask' = ask
    BY <2>1 DEF DraftsInv, Passed, Canonical
  <2>2. CASE checked = 0
    BY <2>2
  <2> QED BY <2>1, <2>2
<1> QED BY <1>1 DEF DraftsInv, Elements

LEMMA DispatchKeeps ==
    ASSUME DraftsInv, NEW v, NEW base, NEW count, Dispatch(v, base, count)
    PROVE  DraftsInv'
<1>1. /\ stage = "idle" /\ UNCHANGED <<drafts, checked>> /\ checked = 0 /\ status = 0
      /\ ask' = [version |-> v, base |-> base, count |-> count]
  BY DEF Dispatch, DraftsInv
<1>2. \/ v \in Versions(Candidate) /\ stage' = "waiting" /\ status' = status
      \/ stage' = "ended" /\ status' = 400
  BY DEF Dispatch, Answer
<1> QED BY <1>1, <1>2, DraftsStay

LEMMA RepliesKeeps == ASSUME DraftsInv, NEW answer \in Answers, Replies(answer) PROVE DraftsInv'
<1> DEFINE n == Len(answer)
           new == [i \in 1 .. n |-> Plus(ask.base, answer[i])]
           T == {new[i] : i \in 1 .. n}
<1>1. DOMAIN answer = 1 .. n /\ n \in Nat
  BY DEF Answers
<1>2. /\ stage = "waiting" /\ stage' = "checking" /\ drafts' = new
      /\ UNCHANGED <<ask, calls, checked, status>>
  BY <1>1 DEF Replies
<1>3. new \in Seq(T) /\ Len(new) = n /\ DOMAIN new = 1 .. n
  <2>1. new \in [1 .. n -> T]
    OBVIOUS
  <2> HIDE DEF new, n, T
  <2> QED BY <1>1, <2>1
<1>4. Elements(new) = T
  BY <1>3 DEF Elements
<1>5. checked = 0 /\ status = 0 /\ ask.version \in Versions(Candidate)
  BY <1>2 DEF DraftsInv
<1> HIDE DEF new, n, T
<1>6. Elements(drafts') = T
  BY <1>2, <1>4
<1>7. Elements(drafts)' = T
  BY <1>6 DEF Elements
<1> QED BY <1>1, <1>2, <1>3, <1>5, <1>7 DEF DraftsInv

LEMMA CheckKeeps == ASSUME DraftsInv, Check PROVE DraftsInv'
<1> DEFINE n == checked + 1
           p == Forced(drafts[n])
           new == Canonical(p)
           takes == /\ Resolves(Candidate, ask.version, p)
                    /\ ~Same(p, ask.base)
                    /\ \A j \in 1 .. checked : ~Same(p, drafts[j])
<1>1. /\ stage = "checking" /\ checked \in Nat /\ Len(drafts) \in Nat /\ n \in 1 .. Len(drafts)
      /\ drafts \in Seq(Elements(drafts)) /\ ask.version \in Versions(Candidate) /\ status = 0
      /\ UNCHANGED ask
  BY DEF Check, DraftsInv
<1>2. CASE ~takes
  <2>1. stage' = "ended" /\ status' = 422 /\ UNCHANGED <<drafts, checked>>
    BY <1>2 DEF Check, Answer
  <2> QED BY <1>1, <2>1, DraftsStay
<1>3. CASE takes
  <2>1. /\ drafts' = [drafts EXCEPT ![n] = new] /\ checked' = n /\ UNCHANGED <<stage, status, ask>>
    BY <1>3 DEF Check
  <2>2. Resolves(Candidate, ask.version, new) /\ Canonical(new) = new
    BY <1>1, <1>3, CanonicalTwice DEF Canonical
  <2>3. "execution_intent" \in DOMAIN new /\ new["execution_intent"] = "backtest"
    <3>1. "execution_intent" \in DOMAIN p /\ p["execution_intent"] = "backtest"
      BY DEF Forced, Plus
    <3> HIDE DEF p
    <3> QED BY <3>1, Parameters DEF Canonical
  <2>4. \A j \in 1 .. checked : Passed(j)
    BY DEF DraftsInv
  <2>5. new # Canonical(ask.base) /\ \A j \in 1 .. checked : new # drafts[j]
    BY <1>3, <2>4 DEF Same, Passed
  <2> HIDE DEF new
  <2>6. /\ DOMAIN drafts = 1 .. Len(drafts) /\ DOMAIN drafts' = 1 .. Len(drafts)
        /\ drafts'[n] = new /\ \A i \in DOMAIN drafts : i # n => drafts'[i] = drafts[i]
    BY <1>1, <2>1
  <2>7. drafts' \in Seq(Elements(drafts')) /\ Len(drafts') = Len(drafts)
    <3> DEFINE T == Elements(drafts')
    <3>1. drafts' \in [1 .. Len(drafts) -> T]
      BY <2>1, <2>6 DEF Elements
    <3> HIDE DEF T
    <3>2. drafts' \in Seq(T) /\ Len(drafts') = Len(drafts)
      BY <1>1, <3>1
    <3> QED BY <3>2 DEF T
  <2>8. ASSUME NEW i \in 1 .. n PROVE Passed(i)'
    <3>1. \A x : Canonical(x)' = Canonical(x)
      BY <2>1 DEF Canonical
    <3>2. CASE i = n
      <4>1. \A j \in 1 .. n - 1 : drafts'[j] = drafts[j]
        BY <1>1, <2>6
      <4>2. \A j \in 1 .. n - 1 : drafts'[i] # drafts'[j]
        BY <1>1, <2>5, <2>6, <3>2, <4>1
      <4> QED BY <1>1, <2>2, <2>3, <2>5, <2>6, <3>1, <3>2, <4>2 DEF Passed
    <3>3. CASE i # n
      <4>1. i \in 1 .. checked /\ i \in DOMAIN drafts /\ \A j \in 1 .. i : j \in DOMAIN drafts /\ j # n
        BY <1>1, <2>6, <3>3
      <4>2. \A j \in 1 .. i : drafts'[j] = drafts[j]
        BY <2>6, <4>1
      <4>3. drafts'[i] = drafts[i] /\ \A j \in 1 .. i - 1 : drafts'[j] = drafts[j]
        BY <1>1, <4>1, <4>2
      <4> QED BY <1>1, <2>4, <3>1, <4>1, <4>3 DEF Passed
    <3> QED BY <3>2, <3>3
  <2>9. Elements(drafts)' = Elements(drafts')
    BY DEF Elements
  <2> QED BY <1>1, <2>1, <2>7, <2>8, <2>9 DEF DraftsInv
<1> QED BY <1>2, <1>3

LEMMA DraftsInvStep == ASSUME DraftsInv, [DraftsNext]_draftsVars PROVE DraftsInv'
<1>1. CASE \E v \in Versions(Candidate) \cup {"9"}, b \in Bases, n \in Counts : Dispatch(v, b, n)
  BY <1>1, DispatchKeeps
<1>2. CASE \E a \in Answers : Replies(a)
  BY <1>2, RepliesKeeps
<1>3. CASE CallFails
  <2>1. /\ stage' = "ended" /\ status' = 502 /\ UNCHANGED <<ask, drafts, checked>>
    BY <1>3 DEF CallFails, Answer
  <2> QED BY <2>1, DraftsStay
<1>4. CASE Garbled
  <2>1. /\ stage = "waiting" /\ UNCHANGED <<ask, drafts, checked>>
        /\ (stage' = stage /\ status' = status) \/ (stage' = "ended" /\ status' = 502)
    BY <1>4 DEF Garbled, Answer
  <2>2. status = 0 /\ checked = 0 /\ ask.version \in Versions(Candidate)
    BY <2>1 DEF DraftsInv
  <2> QED BY <2>1, <2>2, DraftsStay
<1>5. CASE Check
  BY <1>5, CheckKeeps
<1>6. CASE Show
  <2>1. /\ checked = Len(drafts) /\ stage' = "ended" /\ UNCHANGED <<ask, drafts, checked>>
    BY <1>6 DEF Show, Answer
  <2> QED BY <2>1, DraftsStay
<1>7. CASE UNCHANGED draftsVars
  <2>1. UNCHANGED <<ask, stage, drafts, checked, status>>
    BY <1>7 DEF draftsVars
  <2> QED BY <2>1, DraftsStay DEF DraftsInv
<1> QED BY <1>1, <1>2, <1>3, <1>4, <1>5, <1>6, <1>7 DEF DraftsNext

LEMMA DraftsInvSound == ASSUME DraftsInv PROVE DraftsAreSound
<1>1. Len(drafts) \in Nat /\ DOMAIN drafts = 1 .. Len(drafts)
  BY DEF DraftsInv
<1>2. ShownIsRunnable
  BY <1>1 DEF DraftsInv, ShownIsRunnable, Passed
<1>3. ShownIsDistinct
  <2> DEFINE of(k) == IF k = 0 THEN Canonical(ask.base) ELSE drafts[k]
  <2> SUFFICES ASSUME status = 200, NEW i \in 0 .. Len(drafts), NEW j \in 0 .. Len(drafts), of(i) = of(j)
               PROVE  i = j
    BY DEF ShownIsDistinct
  <2>1. \A k \in 1 .. Len(drafts) : Passed(k)
    BY DEF DraftsInv
  <2>2. \A k, l \in 0 .. Len(drafts) : k < l => of(k) # of(l)
    BY <1>1, <2>1 DEF Passed
  <2> HIDE DEF of
  <2> QED BY <1>1, <2>2
<1> QED BY <1>2, <1>3 DEF DraftsAreSound

\* Whatever the model answers and whenever it fails, drafts are shown only as
\* distinct simulations that the registry accepts again as they stand
\* (GenerateExperimentDrafts).
THEOREM DraftsSound == DraftsSpec => []DraftsAreSound
<1>1. DraftsInit => DraftsInv
  BY DraftsInvInit
<1>2. DraftsInv /\ [DraftsNext]_draftsVars => DraftsInv'
  BY DraftsInvStep
<1>3. DraftsInv => DraftsAreSound
  BY DraftsInvSound
<1> QED BY <1>1, <1>2, <1>3, PTL DEF DraftsSpec

-----------------------------------------------------------------------------
(* The proposals. *)

Values == News \cup {Initial[k] : k \in SettingKeys}
Drafted == [key : SettingKeys, old : Values, new : News]

\* A proposal for a key that may be changed, and not by more than the budget.
Permitted(p, locks) ==
  AllowedKey(p.key, locks) /\ ~Setting[p.key].deprecated /\ ~OverBudget(p.old, p.new)

\* What the parser may keep of an answer.
Within(q, locks) ==
  /\ q \in Seq(Drafted)
  /\ \A i \in 1 .. Len(q) : Permitted(q[i], locks)
  /\ MaxProposals > 0 => Len(q) <= MaxProposals
  /\ MaxPerCategory > 0 => \A c : Count(q, c) <= MaxPerCategory

\* The proposals of a sequence that are of one category.
LEMMA CountType ==
    ASSUME NEW S, NEW q \in Seq(S), NEW c
    PROVE  /\ IsFiniteSet({i \in DOMAIN q : Setting[q[i].key].category = c})
           /\ Count(q, c) \in Nat
<1>1. DOMAIN q = 1 .. Len(q) /\ Len(q) \in Nat
  OBVIOUS
<1>2. IsFiniteSet(DOMAIN q)
  BY <1>1, FS_Interval
<1>3. IsFiniteSet({i \in DOMAIN q : Setting[q[i].key].category = c})
  BY <1>2, FS_Subset
<1> QED BY <1>3, FS_CardinalityType DEF Count

LEMMA CountEmpty == ASSUME NEW c PROVE Count(<<>>, c) = 0
<1>1. {i \in DOMAIN <<>> : Setting[<<>>[i].key].category = c} = {}
  OBVIOUS
<1> QED BY <1>1, FS_EmptySet DEF Count

LEMMA CountAppend ==
    ASSUME NEW S, NEW q \in Seq(S), NEW p \in S, NEW c
    PROVE  Count(Append(q, p), c) = Count(q, c) + (IF Setting[p.key].category = c THEN 1 ELSE 0)
<1> DEFINE Q == {i \in DOMAIN q : Setting[q[i].key].category = c}
           R == {i \in DOMAIN Append(q, p) : Setting[Append(q, p)[i].key].category = c}
           n == Len(q) + 1
<1>1. /\ IsFiniteSet(Q) /\ Cardinality(Q) \in Nat
      /\ Count(q, c) = Cardinality(Q) /\ Count(Append(q, p), c) = Cardinality(R)
  BY CountType DEF Count
<1>2. /\ Len(q) \in Nat /\ DOMAIN q = 1 .. Len(q) /\ DOMAIN Append(q, p) = 1 .. n
      /\ Append(q, p)[n] = p /\ \A i \in 1 .. Len(q) : Append(q, p)[i] = q[i]
  OBVIOUS
<1>3. n \notin Q
  BY <1>2
<1>4. CASE Setting[p.key].category = c
  <2>1. R = Q \cup {n}
    BY <1>2, <1>4
  <2> HIDE DEF Q, R, n
  <2>2. Cardinality(Q \cup {n}) = Cardinality(Q) + 1
    BY <1>1, <1>3, FS_AddElement
  <2>3. Cardinality(R) = Cardinality(Q) + 1
    BY <2>1, <2>2
  <2> QED BY <1>1, <1>4, <2>3
<1>5. CASE Setting[p.key].category # c
  <2>1. R = Q
    BY <1>2, <1>5
  <2> HIDE DEF Q, R, n
  <2> QED BY <1>1, <1>5, <2>1
<1> QED BY <1>4, <1>5

LEMMA CountTail ==
    ASSUME NEW S, NEW q \in Seq(S), q # <<>>, NEW c
    PROVE  Count(q, c) = Count(Tail(q), c) + (IF Setting[Head(q).key].category = c THEN 1 ELSE 0)
<1> DEFINE Q == {i \in DOMAIN q : Setting[q[i].key].category = c}
           R == {i \in DOMAIN Tail(q) : Setting[Tail(q)[i].key].category = c}
           f == [i \in R |-> i + 1]
<1>1. /\ Len(q) \in Nat \ {0} /\ DOMAIN q = 1 .. Len(q) /\ Tail(q) \in Seq(S)
      /\ DOMAIN Tail(q) = 1 .. Len(q) - 1 /\ Head(q) = q[1]
      /\ \A i \in 1 .. Len(q) - 1 : Tail(q)[i] = q[i + 1]
  OBVIOUS
<1>2. /\ IsFiniteSet(Q) /\ IsFiniteSet(R) /\ Cardinality(R) \in Nat
      /\ Count(q, c) = Cardinality(Q) /\ Count(Tail(q), c) = Cardinality(R)
  BY <1>1, CountType DEF Count
<1>3. f \in Bijection(R, Q \ {1})
  <2>1. f \in [R -> Q \ {1}]
    BY <1>1
  <2>2. \A i, j \in R : f[i] = f[j] => i = j
    BY <1>1
  <2>3. ASSUME NEW k \in Q \ {1} PROVE \E i \in R : f[i] = k
    <3>1. k - 1 \in R /\ f[k - 1] = k
      BY <1>1
    <3> QED BY <3>1
  <2> HIDE DEF Q, R, f
  <2> QED BY <2>1, <2>2, <2>3 DEF Bijection, Injection, IsInjective, Surjection
<1>4. Cardinality(R) = Cardinality(Q \ {1})
  <2> HIDE DEF Q, R, f
  <2>1. IsFiniteSet(Q \ {1})
    BY <1>2, FS_RemoveElement
  <2>2. ExistsBijection(R, Q \ {1})
    BY <1>3 DEF ExistsBijection
  <2> QED BY <1>2, <2>1, <2>2, FS_Bijection
<1>5. CASE Setting[Head(q).key].category = c
  <2>1. 1 \in Q
    BY <1>1, <1>5
  <2> HIDE DEF Q, R, f
  <2>2. Cardinality(Q \ {1}) = Cardinality(Q) - 1 /\ Cardinality(Q) \in Nat
    BY <1>2, <2>1, FS_RemoveElement, FS_CardinalityType
  <2>3. Cardinality(Q) = Cardinality(R) + 1
    BY <1>2, <1>4, <2>2
  <2> QED BY <1>2, <1>5, <2>3
<1>6. CASE Setting[Head(q).key].category # c
  <2>1. Q \ {1} = Q
    BY <1>1, <1>6
  <2> HIDE DEF Q, R, f
  <2>2. Cardinality(Q) = Cardinality(R)
    BY <1>4, <2>1
  <2> QED BY <1>2, <1>6, <2>2
<1> QED BY <1>5, <1>6

-----------------------------------------------------------------------------
(* The parser. *)

LEMMA TakeOneKeeps ==
    ASSUME ProposalsAssumption, NEW read \in [SettingKeys -> Values], NEW locks \in SUBSET SettingKeys,
           NEW q, Within(q, locks), NEW raw \in Raws
    PROVE  Within(TakeOne(read, locks, q, raw), locks)
<1> DEFINE p == [key |-> raw.key, old |-> read[raw.key], new |-> raw.new]
           cat == Setting[raw.key].category
           fits == /\ AllowedKey(raw.key, locks) /\ ~Setting[raw.key].deprecated
                   /\ ~OverBudget(read[raw.key], raw.new)
                   /\ MaxPerCategory = 0 \/ Count(q, cat) < MaxPerCategory
                   /\ MaxProposals = 0 \/ Len(q) < MaxProposals
<1>1. TakeOne(read, locks, q, raw) = IF fits THEN Append(q, p) ELSE q
  BY DEF TakeOne
<1>2. CASE ~fits
  BY <1>1, <1>2
<1>3. CASE fits
  <2>1. p \in Drafted /\ p.key = raw.key /\ p.old = read[raw.key] /\ p.new = raw.new
    BY DEF Drafted, Raws
  <2>2. Permitted(p, locks)
    BY <1>3, <2>1 DEF Permitted
  <2> HIDE DEF p
  <2>3. q \in Seq(Drafted)
    BY DEF Within
  <2>4. /\ Append(q, p) \in Seq(Drafted) /\ Len(Append(q, p)) = Len(q) + 1 /\ Len(q) \in Nat
        /\ Append(q, p)[Len(q) + 1] = p /\ \A i \in 1 .. Len(q) : Append(q, p)[i] = q[i]
    BY <2>1, <2>3
  <2>5. \A i \in 1 .. Len(q) + 1 : Permitted(Append(q, p)[i], locks)
    <3> SUFFICES ASSUME NEW i \in 1 .. Len(q) + 1 PROVE Permitted(Append(q, p)[i], locks)
      OBVIOUS
    <3>1. i = Len(q) + 1 \/ i \in 1 .. Len(q)
      BY <2>4
    <3> QED BY <2>2, <2>4, <3>1 DEF Within
  <2>6. MaxProposals > 0 => Len(q) + 1 <= MaxProposals
    BY <1>3, <2>4 DEF ProposalsAssumption
  <2>7. ASSUME MaxPerCategory > 0, NEW c PROVE Count(Append(q, p), c) <= MaxPerCategory
    <3>1. Count(q, c) \in Nat /\ Count(q, c) <= MaxPerCategory /\ MaxPerCategory \in Nat
      BY <2>3, <2>7, CountType DEF Within, ProposalsAssumption
    <3>2. Count(Append(q, p), c) = Count(q, c) + (IF cat = c THEN 1 ELSE 0)
      BY <2>1, <2>3, CountAppend
    <3>3. cat = c => Count(q, c) < MaxPerCategory
      BY <1>3, <2>7, <3>1
    <3> HIDE DEF cat, fits
    <3>4. CASE cat = c
      BY <3>1, <3>2, <3>3, <3>4
    <3>5. CASE cat # c
      BY <3>1, <3>2, <3>5
    <3> QED BY <3>4, <3>5
  <2>8. TakeOne(read, locks, q, raw) = Append(q, p)
    BY <1>1, <1>3 DEF p
  <2> HIDE DEF fits, cat
  <2> QED BY <2>4, <2>5, <2>6, <2>7, <2>8 DEF Within
<1> QED BY <1>2, <1>3

LEMMA ParseKeeps ==
    ASSUME ProposalsAssumption, gen.read \in [SettingKeys -> Values], gen.locks \in SUBSET SettingKeys,
           NEW answer \in Seq(Raws)
    PROVE  Within(Parse(answer), gen.locks)
<1> DEFINE n == Len(answer)
           Step(f, i) == IF i = 0 THEN <<>> ELSE TakeOne(gen.read, gen.locks, f[i - 1], answer[i])
           Upto(m, f) == f = [i \in 0 .. m |-> Step(f, i)]
           taken == CHOOSE f : Upto(n, f)
<1>0. n \in Nat
  OBVIOUS
<1>1. \E f : Upto(n, f)
  <2> DEFINE P == {m \in Nat : \E f : Upto(m, f)}
  <2>1. 0 \in P
    <3> DEFINE f == [i \in 0 .. 0 |-> <<>>]
    <3>1. f = [i \in 0 .. 0 |-> Step(f, i)]
      OBVIOUS
    <3> QED BY <3>1
  <2>2. ASSUME NEW m \in P PROVE m + 1 \in P
    <3>1. PICK f : Upto(m, f)
      BY <2>2
    <3> DEFINE g == [i \in 0 .. m + 1 |-> IF i = m + 1 THEN Step(f, i) ELSE f[i]]
    <3>2. \A i \in 0 .. m + 1 : g[i] = Step(g, i)
      <4> SUFFICES ASSUME NEW i \in 0 .. m + 1 PROVE g[i] = Step(g, i)
        OBVIOUS
      <4>1. i # 0 => i - 1 \in 0 .. m /\ g[i - 1] = f[i - 1]
        BY DEF g
      <4>2. Step(g, i) = Step(f, i)
        BY <4>1
      <4>3. i # m + 1 => f[i] = Step(f, i)
        <5>1. i # m + 1 => i \in 0 .. m
          OBVIOUS
        <5> HIDE DEF Step
        <5> QED BY <3>1, <5>1
      <4> HIDE DEF Step
      <4> QED BY <4>2, <4>3
    <3>3. g = [i \in 0 .. m + 1 |-> Step(g, i)]
      <4>1. g = [i \in 0 .. m + 1 |-> g[i]]
        OBVIOUS
      <4> HIDE DEF g, Step
      <4> QED BY <3>2, <4>1
    <3>4. m + 1 \in Nat /\ Upto(m + 1, g)
      BY <3>3
    <3> HIDE DEF g, Upto
    <3> QED BY <3>4
  <2> HIDE DEF P
  <2>3. P = Nat
    BY <2>1, <2>2, NatInductionSet DEF P
  <2> QED BY <1>0, <2>3 DEF P
<1>2. Upto(n, taken)
  BY <1>1
<1>3. Parse(answer) = taken[n]
  BY DEF Parse
<1>4. \A i \in 0 .. n : taken[i] = Step(taken, i)
  <2> HIDE DEF taken, Step
  <2> QED BY <1>2
<1> HIDE DEF taken
<1>5. n \in {m \in Nat : m <= n => Within(taken[m], gen.locks)}
  <2> DEFINE P == {m \in Nat : m <= n => Within(taken[m], gen.locks)}
  <2>1. 0 \in P
    <3>1. taken[0] = <<>>
      BY <1>0, <1>4
    <3>2. Within(<<>>, gen.locks)
      BY CountEmpty DEF Within, ProposalsAssumption
    <3> QED BY <3>1, <3>2
  <2>2. ASSUME NEW m \in P PROVE m + 1 \in P
    <3> SUFFICES ASSUME m + 1 <= n PROVE Within(taken[m + 1], gen.locks)
      OBVIOUS
    <3>1. Within(taken[m], gen.locks) /\ answer[m + 1] \in Raws
      BY <1>0
    <3>2. taken[m + 1] = TakeOne(gen.read, gen.locks, taken[m], answer[m + 1])
      BY <1>0, <1>4
    <3> QED BY <3>1, <3>2, TakeOneKeeps
  <2> HIDE DEF P
  <2>3. P = Nat
    BY <2>1, <2>2, NatInductionSet DEF P
  <2> QED BY <1>0, <2>3 DEF P
<1> QED BY <1>0, <1>3, <1>5

-----------------------------------------------------------------------------
(* Batches of proposals. *)

Stored == [batch : Nat, proposal : Drafted, locks : SUBSET SettingKeys,
           status : {"pending", "approved", "denied"}, at : Nat \ {0}]

RowsOf(t, b) == {id \in DOMAIN t : t[id].batch = b}
RowsIn(t, b, c) == {id \in RowsOf(t, b) : Setting[t[id].proposal.key].category = c}

AdviceTypes ==
  /\ settings \in [SettingKeys -> Values] /\ locked \in SUBSET SettingKeys
  /\ gen \in [phase : {"idle", "waiting", "storing"}, kind : Kinds \cup {"trading"}, attempt : 0 .. 2,
              read : [SettingKeys -> Values], locks : SUBSET SettingKeys, queue : Seq(Drafted)]
  /\ table \in Seq(Stored) /\ clock \in Nat \ {0} /\ runs \in Nat

\* The rows of a batch, and those that it has still to store.
BatchLoad(b) == Cardinality(RowsOf(table, b)) + (IF b = runs THEN Len(gen.queue) ELSE 0)
CategoryLoad(b, c) ==
  Cardinality(RowsIn(table, b, c)) + (IF b = runs THEN Count(gen.queue, c) ELSE 0)

\* What the batch in progress has stored and what it has still to store keep to
\* the limits together.
BatchInv ==
  /\ AdviceTypes
  /\ (gen.phase = "storing") = (gen.queue # <<>>)
  /\ Within(gen.queue, gen.locks)
  /\ \A id \in DOMAIN table :
       /\ table[id].batch <= runs
       /\ gen.phase = "waiting" => table[id].batch < runs
       /\ Permitted(table[id].proposal, table[id].locks)
  /\ MaxProposals > 0 => \A b \in Nat : BatchLoad(b) <= MaxProposals
  /\ MaxPerCategory > 0 => \A b \in Nat : \A c : CategoryLoad(b, c) <= MaxPerCategory

LEMMA RowsType ==
    ASSUME NEW t \in Seq(Stored), NEW b, NEW c
    PROVE  /\ IsFiniteSet(RowsOf(t, b)) /\ Cardinality(RowsOf(t, b)) \in Nat
           /\ IsFiniteSet(RowsIn(t, b, c)) /\ Cardinality(RowsIn(t, b, c)) \in Nat
<1>1. DOMAIN t = 1 .. Len(t) /\ Len(t) \in Nat
  OBVIOUS
<1>2. IsFiniteSet(DOMAIN t)
  BY <1>1, FS_Interval
<1>3. IsFiniteSet(RowsOf(t, b)) /\ IsFiniteSet(RowsIn(t, b, c))
  BY <1>2, FS_Subset DEF RowsOf, RowsIn
<1> QED BY <1>3, FS_CardinalityType

LEMMA RowsAppend ==
    ASSUME NEW t \in Seq(Stored), NEW r \in Stored, NEW b, NEW c
    PROVE  /\ Cardinality(RowsOf(Append(t, r), b)) =
                Cardinality(RowsOf(t, b)) + (IF r.batch = b THEN 1 ELSE 0)
           /\ Cardinality(RowsIn(Append(t, r), b, c)) =
                Cardinality(RowsIn(t, b, c))
                  + (IF r.batch = b /\ Setting[r.proposal.key].category = c THEN 1 ELSE 0)
<1> DEFINE n == Len(t) + 1
           A == RowsOf(t, b)
           B == RowsIn(t, b, c)
           A2 == RowsOf(Append(t, r), b)
           B2 == RowsIn(Append(t, r), b, c)
<1>1. /\ Len(t) \in Nat /\ DOMAIN t = 1 .. Len(t) /\ DOMAIN Append(t, r) = 1 .. n
      /\ Append(t, r)[n] = r /\ \A i \in 1 .. Len(t) : Append(t, r)[i] = t[i]
  OBVIOUS
<1>2. /\ IsFiniteSet(A) /\ Cardinality(A) \in Nat /\ IsFiniteSet(B) /\ Cardinality(B) \in Nat
      /\ n \notin A /\ n \notin B
  <2>1. n \notin A /\ n \notin B
    BY <1>1 DEF RowsOf, RowsIn
  <2> QED BY <2>1, RowsType
<1>3. A2 = IF r.batch = b THEN A \cup {n} ELSE A
  BY <1>1 DEF RowsOf
<1>4. B2 = IF r.batch = b /\ Setting[r.proposal.key].category = c THEN B \cup {n} ELSE B
  <2>1. B2 = {id \in 1 .. n : Append(t, r)[id].batch = b
                              /\ Setting[Append(t, r)[id].proposal.key].category = c}
    BY <1>1 DEF RowsOf, RowsIn
  <2>2. B = {id \in 1 .. Len(t) : t[id].batch = b /\ Setting[t[id].proposal.key].category = c}
    BY <1>1 DEF RowsOf, RowsIn
  <2> HIDE DEF B, B2
  <2> QED BY <1>1, <2>1, <2>2
<1> HIDE DEF A, B, A2, B2, n
<1>5. Cardinality(A \cup {n}) = Cardinality(A) + 1 /\ Cardinality(B \cup {n}) = Cardinality(B) + 1
  BY <1>2, FS_AddElement
<1>6. Cardinality(A2) = Cardinality(A) + (IF r.batch = b THEN 1 ELSE 0)
  BY <1>2, <1>3, <1>5
<1>7. Cardinality(B2) = Cardinality(B)
        + (IF r.batch = b /\ Setting[r.proposal.key].category = c THEN 1 ELSE 0)
  BY <1>2, <1>4, <1>5
<1> QED BY <1>6, <1>7 DEF A, B, A2, B2

LEMMA RowType ==
    ASSUME AdviceTypes, NEW id \in DOMAIN table
    PROVE  table[id] \in Stored /\ table[id].batch \in Nat /\ table[id].at \in Nat \ {0}
<1>1. table[id] \in Stored
  BY DEF AdviceTypes
<1> QED BY <1>1 DEF Stored

LEMMA BatchInvInit == ASSUME ProposalsAssumption, ProposalsInit PROVE BatchInv
<1>1. Initial \in [SettingKeys -> Values]
  BY DEF ProposalsAssumption, Values
<1>2. AdviceTypes
  BY <1>1 DEF AdviceTypes, ProposalsInit, Idle
<1>3. gen.queue = <<>> /\ gen.phase = "idle" /\ table = <<>> /\ runs = 0
  BY DEF ProposalsInit, Idle
<1>4. Within(<<>>, gen.locks)
  BY CountEmpty DEF Within, ProposalsAssumption
<1>5. \A b, c : RowsOf(table, b) = {} /\ RowsIn(table, b, c) = {}
  BY <1>3 DEF RowsOf, RowsIn
<1>6. Cardinality({}) = 0
  BY FS_EmptySet
<1>7. \A c : Count(<<>>, c) = 0
  BY CountEmpty
<1>8. ASSUME NEW b, NEW c PROVE BatchLoad(b) = 0 /\ CategoryLoad(b, c) = 0
  <2>1. Cardinality(RowsOf(table, b)) = 0 /\ Cardinality(RowsIn(table, b, c)) = 0
    BY <1>5, <1>6
  <2>2. Len(gen.queue) = 0 /\ Count(gen.queue, c) = 0
    BY <1>3, <1>7
  <2> QED BY <2>1, <2>2 DEF BatchLoad, CategoryLoad
<1>9. /\ MaxProposals > 0 => \A b \in Nat : BatchLoad(b) <= MaxProposals
      /\ MaxPerCategory > 0 => \A b \in Nat : \A c : CategoryLoad(b, c) <= MaxPerCategory
  BY <1>8 DEF ProposalsAssumption
<1> QED BY <1>2, <1>3, <1>4, <1>9 DEF BatchInv

\* A step that leaves the generation and its rows alone, other than their status.
LEMMA BatchFrame ==
    ASSUME BatchInv, AdviceTypes', gen' = gen, runs' = runs, DOMAIN table' = DOMAIN table,
           \A id \in DOMAIN table : /\ table'[id].batch = table[id].batch
                                    /\ table'[id].proposal = table[id].proposal
                                    /\ table'[id].locks = table[id].locks
    PROVE  BatchInv'
<1>1. \A b, c : RowsOf(table', b) = RowsOf(table, b) /\ RowsIn(table', b, c) = RowsIn(table, b, c)
  BY DEF RowsOf, RowsIn
<1>2. \A b, c : BatchLoad(b)' = BatchLoad(b) /\ CategoryLoad(b, c)' = CategoryLoad(b, c)
  BY <1>1 DEF BatchLoad, CategoryLoad
<1> QED BY <1>2 DEF BatchInv

\* A generation that begins, is asked again or ends without proposals.
LEMMA BatchWithout ==
    ASSUME BatchInv, AdviceTypes', gen.phase # "storing", gen'.phase # "storing", gen'.queue = <<>>,
           table' = table, runs' >= runs, gen'.phase = "waiting" => gen.phase = "waiting" \/ runs' > runs
    PROVE  BatchInv'
<1>1. gen.queue = <<>> /\ Len(gen.queue) = 0 /\ Len(gen'.queue) = 0
  BY DEF BatchInv
<1>2. \A c : Count(gen.queue, c) = 0 /\ Count(gen'.queue, c) = 0
  BY <1>1, CountEmpty
<1>3. \A b, c : BatchLoad(b)' = BatchLoad(b) /\ CategoryLoad(b, c)' = CategoryLoad(b, c)
  BY <1>1, <1>2 DEF BatchLoad, CategoryLoad
<1>4. Within(gen'.queue, gen'.locks)
  <2>1. Within(<<>>, gen.locks)
    BY <1>1 DEF BatchInv
  <2> QED BY <2>1 DEF Within
<1>5. \A id \in DOMAIN table' :
        /\ table'[id].batch <= runs'
        /\ gen'.phase = "waiting" => table'[id].batch < runs'
        /\ Permitted(table'[id].proposal, table'[id].locks)
  <2> SUFFICES ASSUME NEW id \in DOMAIN table
               PROVE  /\ table[id].batch <= runs'
                      /\ gen'.phase = "waiting" => table[id].batch < runs'
                      /\ Permitted(table[id].proposal, table[id].locks)
    OBVIOUS
  <2>1. /\ table[id].batch \in Nat /\ runs \in Nat /\ runs' \in Nat /\ table[id].batch <= runs
        /\ gen.phase = "waiting" => table[id].batch < runs
        /\ Permitted(table[id].proposal, table[id].locks)
    BY RowType DEF BatchInv, AdviceTypes
  <2> QED BY <2>1
<1> QED BY <1>1, <1>3, <1>4, <1>5 DEF BatchInv

LEMMA GenerateKeepsBatch == ASSUME BatchInv, NEW k \in Kinds, Generate(k) PROVE BatchInv'
<1>1. /\ gen.phase = "idle" /\ runs' = runs + 1 /\ table' = table /\ clock' = clock
      /\ settings' = settings /\ locked' = locked
      /\ gen' = [Idle EXCEPT !.phase = "waiting", !.kind = k, !.attempt = 1,
                             !.read = settings, !.locks = locked]
  BY DEF Generate
<1>2. gen' = [phase |-> "waiting", kind |-> k, attempt |-> 1, read |-> settings, locks |-> locked,
              queue |-> <<>>]
  BY <1>1 DEF Idle
<1>3. AdviceTypes'
  BY <1>1, <1>2 DEF BatchInv, AdviceTypes
<1>4. runs' > runs /\ runs' >= runs
  BY <1>1 DEF BatchInv, AdviceTypes
<1>5. gen.phase # "storing" /\ gen'.phase # "storing" /\ gen'.queue = <<>>
  <2>1. gen'.phase = "waiting" /\ gen'.queue = <<>>
    BY <1>2
  <2> QED BY <1>1, <2>1
<1> QED BY <1>1, <1>3, <1>4, <1>5, BatchWithout

LEMMA IdleType ==
    ASSUME ProposalsAssumption
    PROVE  /\ Idle \in [phase : {"idle", "waiting", "storing"}, kind : Kinds \cup {"trading"},
                        attempt : 0 .. 2, read : [SettingKeys -> Values], locks : SUBSET SettingKeys,
                        queue : Seq(Drafted)]
           /\ Idle.phase = "idle" /\ Idle.queue = <<>>
BY DEF ProposalsAssumption, Idle, Values

LEMMA ModelFailsKeepsBatch == ASSUME ProposalsAssumption, BatchInv, ModelFails PROVE BatchInv'
<1>1. /\ gen.phase = "waiting" /\ gen' = Idle /\ runs' = runs /\ table' = table /\ clock' = clock
      /\ settings' = settings /\ locked' = locked
  BY DEF ModelFails
<1>2. AdviceTypes'
  BY <1>1, IdleType DEF BatchInv, AdviceTypes
<1>3. runs' >= runs
  BY <1>1 DEF BatchInv, AdviceTypes
<1> QED BY <1>1, <1>2, <1>3, IdleType, BatchWithout

LEMMA ReplyKeepsBatch ==
    ASSUME ProposalsAssumption, BatchInv, NEW answer \in RawAnswers, Reply(answer) PROVE BatchInv'
<1> DEFINE found == Parse(answer)
<1>0. answer \in Seq(Raws)
  <2>1. PICK n \in Lengths : answer \in [1 .. n -> Raws]
    BY DEF RawAnswers
  <2>2. n \in Nat
    BY DEF ProposalsAssumption
  <2> QED BY <2>1, <2>2
<1>1. /\ gen.phase = "waiting" /\ runs' = runs /\ table' = table /\ clock' = clock
      /\ settings' = settings /\ locked' = locked
      /\ gen' = IF found # <<>> THEN [gen EXCEPT !.phase = "storing", !.queue = found]
                ELSE IF gen.kind = "backtest" /\ gen.attempt = 1 THEN [gen EXCEPT !.attempt = 2]
                ELSE Idle
  BY DEF Reply
<1>2. Within(found, gen.locks)
  BY <1>0, ParseKeeps DEF BatchInv, AdviceTypes
<1> HIDE DEF found
<1>3. runs' >= runs
  BY <1>1 DEF BatchInv, AdviceTypes
<1>4. CASE found # <<>>
  <2>1. /\ gen' = [gen EXCEPT !.phase = "storing", !.queue = found]
        /\ gen'.phase = "storing" /\ gen'.queue = found /\ gen'.locks = gen.locks
    BY <1>1, <1>4 DEF BatchInv, AdviceTypes
  <2>2. AdviceTypes'
    BY <1>1, <1>2, <2>1 DEF BatchInv, AdviceTypes, Within
  <2>3. \A id \in DOMAIN table : table[id].batch # runs
    <3>1. \A id \in DOMAIN table : table[id].batch \in Nat /\ table[id].batch < runs
      BY <1>1, RowType DEF BatchInv
    <3> QED BY <3>1 DEF BatchInv, AdviceTypes
  <2>4. \A c : RowsOf(table, runs) = {} /\ RowsIn(table, runs, c) = {}
    BY <2>3 DEF RowsOf, RowsIn
  <2>5. \A b : b # runs => BatchLoad(b)' = BatchLoad(b) /\ \A c : CategoryLoad(b, c)' = CategoryLoad(b, c)
    BY <1>1 DEF BatchLoad, CategoryLoad
  <2>6. ASSUME NEW b, b = runs PROVE BatchLoad(b)' = Len(found)
    <3>1. Len(found) \in Nat
      BY <1>2 DEF Within
    <3>2. Cardinality(RowsOf(table, runs)) = 0
      BY <2>4, FS_EmptySet
    <3> QED BY <1>1, <2>1, <2>6, <3>1, <3>2 DEF BatchLoad
  <2>7. ASSUME NEW b, b = runs, NEW c PROVE CategoryLoad(b, c)' = Count(found, c)
    <3>1. Count(found, c) \in Nat
      BY <1>2, CountType DEF Within
    <3>2. Cardinality(RowsIn(table, runs, c)) = 0
      BY <2>4, FS_EmptySet
    <3> QED BY <1>1, <2>1, <2>7, <3>1, <3>2 DEF CategoryLoad
  <2>8. MaxProposals > 0 => \A b \in Nat : BatchLoad(b)' <= MaxProposals
    <3> SUFFICES ASSUME MaxProposals > 0, NEW b \in Nat PROVE BatchLoad(b)' <= MaxProposals
      OBVIOUS
    <3>1. CASE b = runs
      BY <1>2, <2>6, <3>1 DEF Within
    <3>2. CASE b # runs
      BY <2>5, <3>2 DEF BatchInv
    <3> QED BY <3>1, <3>2
  <2>9. MaxPerCategory > 0 => \A b \in Nat : \A c : CategoryLoad(b, c)' <= MaxPerCategory
    <3> SUFFICES ASSUME MaxPerCategory > 0, NEW b \in Nat, NEW c
                 PROVE  CategoryLoad(b, c)' <= MaxPerCategory
      OBVIOUS
    <3>1. CASE b = runs
      BY <1>2, <2>7, <3>1 DEF Within
    <3>2. CASE b # runs
      BY <2>5, <3>2 DEF BatchInv
    <3> QED BY <3>1, <3>2
  <2>10. /\ (gen'.phase = "storing") = (gen'.queue # <<>>) /\ Within(gen'.queue, gen'.locks)
         /\ \A id \in DOMAIN table' :
              /\ table'[id].batch <= runs'
              /\ gen'.phase = "waiting" => table'[id].batch < runs'
              /\ Permitted(table'[id].proposal, table'[id].locks)
    BY <1>1, <1>2, <1>4, <2>1 DEF BatchInv
  <2> QED BY <2>2, <2>8, <2>9, <2>10 DEF BatchInv
<1>5. CASE found = <<>> /\ gen.kind = "backtest" /\ gen.attempt = 1
  <2>1. /\ gen' = [gen EXCEPT !.attempt = 2]
        /\ gen'.phase = gen.phase /\ gen'.queue = gen.queue /\ gen'.locks = gen.locks
    BY <1>1, <1>5 DEF BatchInv, AdviceTypes
  <2>2. AdviceTypes'
    BY <1>1, <2>1 DEF BatchInv, AdviceTypes
  <2>3. gen'.queue = <<>>
    BY <1>1, <2>1 DEF BatchInv
  <2> QED BY <1>1, <1>3, <2>1, <2>2, <2>3, BatchWithout
<1>6. CASE found = <<>> /\ ~(gen.kind = "backtest" /\ gen.attempt = 1)
  <2>1. gen' = Idle
    BY <1>1, <1>6
  <2>2. AdviceTypes'
    BY <1>1, <2>1, IdleType DEF BatchInv, AdviceTypes
  <2> QED BY <1>1, <1>3, <2>1, <2>2, IdleType, BatchWithout
<1> QED BY <1>4, <1>5, <1>6

\* What is left of a batch when its first proposal is done with.
LEMMA Advances ==
    ASSUME ProposalsAssumption, BatchInv, gen.phase = "storing", gen' = Advance
    PROVE  /\ gen.queue \in Seq(Drafted) /\ gen.queue # <<>>
           /\ gen' \in [phase : {"idle", "waiting", "storing"}, kind : Kinds \cup {"trading"},
                        attempt : 0 .. 2, read : [SettingKeys -> Values],
                        locks : SUBSET SettingKeys, queue : Seq(Drafted)]
           /\ gen'.queue = Tail(gen.queue) /\ gen'.phase # "waiting"
           /\ (gen'.phase = "storing") = (gen'.queue # <<>>)
           /\ Within(gen'.queue, gen'.locks)
           /\ Head(gen.queue) \in Drafted /\ Permitted(Head(gen.queue), gen.locks)
           /\ Len(gen.queue) = Len(gen'.queue) + 1 /\ Len(gen'.queue) \in Nat
           /\ \A c : /\ Count(gen'.queue, c) \in Nat
                     /\ Count(gen.queue, c) = Count(gen'.queue, c)
                          + (IF Setting[Head(gen.queue).key].category = c THEN 1 ELSE 0)
<1> DEFINE q == gen.queue
<1>1. /\ q \in Seq(Drafted) /\ q # <<>> /\ Within(q, gen.locks)
      /\ gen \in [phase : {"idle", "waiting", "storing"}, kind : Kinds \cup {"trading"},
                  attempt : 0 .. 2, read : [SettingKeys -> Values],
                  locks : SUBSET SettingKeys, queue : Seq(Drafted)]
  BY DEF BatchInv, AdviceTypes, Within
<1>2. /\ Len(q) \in Nat \ {0} /\ Tail(q) \in Seq(Drafted) /\ Len(Tail(q)) = Len(q) - 1
      /\ Head(q) = q[1] /\ q[1] \in Drafted
      /\ \A i \in 1 .. Len(q) - 1 : Tail(q)[i] = q[i + 1]
  BY <1>1
<1>3. ASSUME NEW c
      PROVE  /\ Count(Tail(q), c) \in Nat /\ Count(Tail(q), c) <= Count(q, c) /\ Count(q, c) \in Nat
             /\ Count(q, c) = Count(Tail(q), c) + (IF Setting[Head(q).key].category = c THEN 1 ELSE 0)
  <2>1. Count(Tail(q), c) \in Nat
    BY <1>2, CountType
  <2>2. Count(q, c) = Count(Tail(q), c) + (IF Setting[Head(q).key].category = c THEN 1 ELSE 0)
    BY <1>1, CountTail
  <2> QED BY <2>1, <2>2
<1>4. Within(Tail(q), gen.locks) /\ Permitted(Head(q), gen.locks)
  <2>1. \A i \in 1 .. Len(q) : Permitted(q[i], gen.locks)
    BY <1>1 DEF Within
  <2>2. \A i \in 1 .. Len(Tail(q)) : Permitted(Tail(q)[i], gen.locks)
    <3> SUFFICES ASSUME NEW i \in 1 .. Len(q) - 1 PROVE Permitted(Tail(q)[i], gen.locks)
      BY <1>2
    <3>1. Tail(q)[i] = q[i + 1] /\ i + 1 \in 1 .. Len(q)
      BY <1>2
    <3> QED BY <2>1, <3>1
  <2>3. MaxProposals > 0 => Len(Tail(q)) <= MaxProposals
    BY <1>1, <1>2 DEF Within, ProposalsAssumption
  <2>4. MaxPerCategory > 0 => \A c : Count(Tail(q), c) <= MaxPerCategory
    <3> SUFFICES ASSUME MaxPerCategory > 0, NEW c PROVE Count(Tail(q), c) <= MaxPerCategory
      OBVIOUS
    <3>1. Count(q, c) <= MaxPerCategory
      BY <1>1 DEF Within
    <3> HIDE DEF q
    <3> QED BY <1>3, <3>1 DEF ProposalsAssumption
  <2>5. Permitted(Head(q), gen.locks)
    <3>1. 1 \in 1 .. Len(q)
      BY <1>2
    <3> QED BY <1>2, <2>1, <3>1
  <2> QED BY <1>2, <2>2, <2>3, <2>4, <2>5 DEF Within
<1>5. gen' = IF Len(q) = 1 THEN Idle ELSE [gen EXCEPT !.queue = Tail(q)]
  BY DEF Advance
<1>6. CASE Len(q) = 1
  <2>1. Tail(q) = <<>>
    <3>1. Tail(q) \in Seq(Drafted) /\ Len(Tail(q)) = 0
      BY <1>2, <1>6
    <3> QED BY <3>1, EmptySeq
  <2>2. gen' = Idle
    BY <1>5, <1>6
  <2>3. gen'.queue = Tail(q) /\ gen'.phase = "idle"
    BY <2>1, <2>2, IdleType
  <2>4. Within(gen'.queue, gen'.locks)
    <3>1. Within(<<>>, gen.locks)
      BY <1>4, <2>1
    <3>2. Within(<<>>, gen'.locks)
      <4>1. \A i : i \notin 1 .. Len(<<>>)
        OBVIOUS
      <4> QED BY <3>1, <4>1 DEF Within
    <3> QED BY <2>1, <2>3, <3>2
  <2>5. /\ gen' \in [phase : {"idle", "waiting", "storing"}, kind : Kinds \cup {"trading"},
                     attempt : 0 .. 2, read : [SettingKeys -> Values],
                     locks : SUBSET SettingKeys, queue : Seq(Drafted)]
        /\ (gen'.phase = "storing") = (gen'.queue # <<>>)
    BY <2>1, <2>2, <2>3, IdleType
  <2> HIDE DEF q
  <2> QED BY <1>1, <1>2, <1>3, <1>4, <2>3, <2>4, <2>5 DEF q
<1>7. CASE Len(q) # 1
  <2>1. /\ gen' = [gen EXCEPT !.queue = Tail(q)]
        /\ gen'.queue = Tail(q) /\ gen'.phase = "storing" /\ gen'.locks = gen.locks
    BY <1>1, <1>5, <1>7
  <2>2. Tail(q) # <<>>
    <3>1. Tail(q) \in Seq(Drafted) /\ Len(Tail(q)) # 0
      BY <1>2, <1>7
    <3> QED BY <3>1, EmptySeq
  <2>3. gen' \in [phase : {"idle", "waiting", "storing"}, kind : Kinds \cup {"trading"},
                  attempt : 0 .. 2, read : [SettingKeys -> Values],
                  locks : SUBSET SettingKeys, queue : Seq(Drafted)]
    BY <1>1, <1>2, <2>1
  <2>4. Within(gen'.queue, gen'.locks) /\ (gen'.phase = "storing") = (gen'.queue # <<>>)
    BY <1>4, <2>1, <2>2
  <2>5. gen'.queue = Tail(q) /\ gen'.phase # "waiting"
    BY <2>1
  <2> HIDE DEF q
  <2> QED BY <1>1, <1>2, <1>3, <1>4, <2>3, <2>4, <2>5 DEF q
<1> QED BY <1>6, <1>7

LEMMA StoreFailsKeepsBatch == ASSUME ProposalsAssumption, BatchInv, StoreFails PROVE BatchInv'
<1>1. /\ gen.phase = "storing" /\ gen' = Advance /\ runs' = runs /\ table' = table /\ clock' = clock
      /\ settings' = settings /\ locked' = locked
  BY DEF StoreFails
<1>2. /\ gen'.phase # "waiting" /\ (gen'.phase = "storing") = (gen'.queue # <<>>)
      /\ Within(gen'.queue, gen'.locks)
      /\ Len(gen.queue) = Len(gen'.queue) + 1 /\ Len(gen'.queue) \in Nat
  BY <1>1, Advances
<1>3. AdviceTypes'
  BY <1>1, Advances DEF BatchInv, AdviceTypes
<1>4. ASSUME NEW b \in Nat, NEW c
      PROVE  /\ BatchLoad(b)' \in Nat /\ BatchLoad(b) \in Nat /\ BatchLoad(b)' <= BatchLoad(b)
             /\ CategoryLoad(b, c)' \in Nat /\ CategoryLoad(b, c) \in Nat
             /\ CategoryLoad(b, c)' <= CategoryLoad(b, c)
  <2>1. Cardinality(RowsOf(table, b)) \in Nat /\ Cardinality(RowsIn(table, b, c)) \in Nat
    BY RowsType DEF BatchInv, AdviceTypes
  <2>2. /\ Count(gen'.queue, c) \in Nat /\ Count(gen.queue, c) \in Nat
        /\ Count(gen'.queue, c) <= Count(gen.queue, c)
    BY <1>1, Advances
  <2>3. /\ BatchLoad(b)' = Cardinality(RowsOf(table, b)) + (IF b = runs THEN Len(gen'.queue) ELSE 0)
        /\ BatchLoad(b) = Cardinality(RowsOf(table, b)) + (IF b = runs THEN Len(gen.queue) ELSE 0)
    BY <1>1 DEF BatchLoad
  <2>4. /\ CategoryLoad(b, c)' = Cardinality(RowsIn(table, b, c)) + (IF b = runs THEN Count(gen'.queue, c) ELSE 0)
        /\ CategoryLoad(b, c) = Cardinality(RowsIn(table, b, c)) + (IF b = runs THEN Count(gen.queue, c) ELSE 0)
    BY <1>1 DEF CategoryLoad
  <2>5. BatchLoad(b)' \in Nat /\ BatchLoad(b) \in Nat /\ BatchLoad(b)' <= BatchLoad(b)
    BY <1>2, <2>1, <2>3
  <2>6. /\ CategoryLoad(b, c)' \in Nat /\ CategoryLoad(b, c) \in Nat
        /\ CategoryLoad(b, c)' <= CategoryLoad(b, c)
    BY <2>1, <2>2, <2>4
  <2> QED BY <2>5, <2>6
<1>5. /\ MaxProposals > 0 => \A b \in Nat : BatchLoad(b)' <= MaxProposals
      /\ MaxPerCategory > 0 => \A b \in Nat : \A c : CategoryLoad(b, c)' <= MaxPerCategory
  <2>1. ASSUME MaxProposals > 0, NEW b \in Nat PROVE BatchLoad(b)' <= MaxProposals
    <3>1. BatchLoad(b) <= MaxProposals /\ MaxProposals \in Nat
      BY <2>1 DEF BatchInv, ProposalsAssumption
    <3> QED BY <1>4, <3>1
  <2>2. ASSUME MaxPerCategory > 0, NEW b \in Nat, NEW c PROVE CategoryLoad(b, c)' <= MaxPerCategory
    <3>1. CategoryLoad(b, c) <= MaxPerCategory /\ MaxPerCategory \in Nat
      BY <2>2 DEF BatchInv, ProposalsAssumption
    <3> QED BY <1>4, <3>1
  <2> QED BY <2>1, <2>2
<1> QED BY <1>1, <1>2, <1>3, <1>5 DEF BatchInv

LEMMA StoreKeepsBatch == ASSUME ProposalsAssumption, BatchInv, NEW t, Store(t) PROVE BatchInv'
<1> DEFINE fresh == [batch |-> runs, proposal |-> Head(gen.queue), locks |-> gen.locks,
                   status |-> "pending", at |-> t]
           n == Len(table) + 1
<1>1. /\ gen.phase = "storing" /\ gen' = Advance /\ runs' = runs /\ clock' = clock
      /\ settings' = settings /\ locked' = locked
      /\ table' = Append(table, fresh) /\ t \in {clock - 1, clock} \ {0}
  BY DEF Store
<1>2. /\ gen'.phase # "waiting" /\ (gen'.phase = "storing") = (gen'.queue # <<>>)
      /\ Within(gen'.queue, gen'.locks)
      /\ Len(gen.queue) = Len(gen'.queue) + 1 /\ Len(gen'.queue) \in Nat
      /\ Head(gen.queue) \in Drafted /\ Permitted(Head(gen.queue), gen.locks)
  BY <1>1, Advances
<1>3. t \in Nat \ {0}
  BY <1>1 DEF BatchInv, AdviceTypes
<1>4. /\ fresh \in Stored /\ fresh.batch = runs /\ fresh.proposal = Head(gen.queue)
      /\ fresh.locks = gen.locks
  BY <1>2, <1>3 DEF BatchInv, AdviceTypes, Stored
<1> HIDE DEF fresh
<1>5. /\ table \in Seq(Stored) /\ table' \in Seq(Stored) /\ Len(table) \in Nat
      /\ DOMAIN table = 1 .. Len(table) /\ DOMAIN table' = 1 .. n
      /\ table'[n] = fresh /\ \A i \in 1 .. Len(table) : table'[i] = table[i]
  BY <1>1, <1>4 DEF BatchInv, AdviceTypes
<1>6. AdviceTypes'
  BY <1>1, <1>5, Advances DEF BatchInv, AdviceTypes
<1>7. \A id \in DOMAIN table' :
        /\ table'[id].batch <= runs'
        /\ gen'.phase = "waiting" => table'[id].batch < runs'
        /\ Permitted(table'[id].proposal, table'[id].locks)
  <2> SUFFICES ASSUME NEW id \in 1 .. n
               PROVE  table'[id].batch <= runs /\ Permitted(table'[id].proposal, table'[id].locks)
    BY <1>1, <1>2, <1>5
  <2>1. CASE id = n
    BY <1>2, <1>4, <1>5, <2>1 DEF BatchInv, AdviceTypes
  <2>2. CASE id \in 1 .. Len(table)
    BY <1>5, <2>2 DEF BatchInv
  <2> QED BY <1>5, <2>1, <2>2
<1>8. ASSUME NEW b \in Nat, NEW c
      PROVE  BatchLoad(b)' = BatchLoad(b) /\ CategoryLoad(b, c)' = CategoryLoad(b, c)
  <2> DEFINE hit == Setting[Head(gen.queue).key].category = c
  <2>1. /\ Cardinality(RowsOf(table, b)) \in Nat /\ Cardinality(RowsIn(table, b, c)) \in Nat
    BY <1>5, RowsType
  <2>2. /\ Cardinality(RowsOf(table', b)) =
             Cardinality(RowsOf(table, b)) + (IF fresh.batch = b THEN 1 ELSE 0)
        /\ Cardinality(RowsIn(table', b, c)) =
             Cardinality(RowsIn(table, b, c))
               + (IF fresh.batch = b /\ Setting[fresh.proposal.key].category = c THEN 1 ELSE 0)
    BY <1>1, <1>4, <1>5, RowsAppend
  <2>3. /\ Cardinality(RowsOf(table', b)) =
             Cardinality(RowsOf(table, b)) + (IF b = runs THEN 1 ELSE 0)
        /\ Cardinality(RowsIn(table', b, c)) =
             Cardinality(RowsIn(table, b, c)) + (IF b = runs /\ hit THEN 1 ELSE 0)
    BY <1>4, <2>2
  <2>4. /\ Count(gen'.queue, c) \in Nat
        /\ Count(gen.queue, c) = Count(gen'.queue, c) + (IF hit THEN 1 ELSE 0)
    BY <1>1, Advances
  <2> HIDE DEF hit
  <2>5. /\ BatchLoad(b)' = Cardinality(RowsOf(table', b)) + (IF b = runs THEN Len(gen'.queue) ELSE 0)
        /\ BatchLoad(b) = Cardinality(RowsOf(table, b)) + (IF b = runs THEN Len(gen.queue) ELSE 0)
    BY <1>1 DEF BatchLoad
  <2>6. /\ CategoryLoad(b, c)' = Cardinality(RowsIn(table', b, c)) + (IF b = runs THEN Count(gen'.queue, c) ELSE 0)
        /\ CategoryLoad(b, c) = Cardinality(RowsIn(table, b, c)) + (IF b = runs THEN Count(gen.queue, c) ELSE 0)
    BY <1>1 DEF CategoryLoad
  <2>7. BatchLoad(b)' = BatchLoad(b)
    BY <1>2, <2>1, <2>3, <2>5
  <2>8. CategoryLoad(b, c)' = CategoryLoad(b, c)
    BY <2>1, <2>3, <2>4, <2>6
  <2> QED BY <2>7, <2>8
<1>9. /\ MaxProposals > 0 => \A b \in Nat : BatchLoad(b)' <= MaxProposals
      /\ MaxPerCategory > 0 => \A b \in Nat : \A c : CategoryLoad(b, c)' <= MaxPerCategory
  BY <1>8 DEF BatchInv
<1> QED BY <1>2, <1>6, <1>7, <1>9 DEF BatchInv

-----------------------------------------------------------------------------
(* Dispositions. *)

Verdicts == {"approved", "denied"}

Dispositions == [by : Clerks, verdict : Verdicts]

\* Somebody was told a verdict of exactly the proposals that are resolved.
ClerkInv ==
  /\ clerk \in [Clerks -> [id : Nat, verdict : Verdicts]]
  /\ acks \in Seq(Seq(Dispositions)) /\ Len(acks) = Len(table)
  /\ \A id \in DOMAIN table : (table[id].status = "pending") = (acks[id] = <<>>)
  /\ \A c \in Clerks : clerk[c].id # 0 => clerk[c].id \in DOMAIN table

LEMMA SaveTypes ==
    ASSUME AdviceTypes, ClerkInv, NEW c \in Clerks, Save(c)
    PROVE  /\ AdviceTypes' /\ DOMAIN table' = DOMAIN table /\ Len(table') = Len(table)
           /\ clerk[c].id \in DOMAIN table /\ clerk[c].verdict \in Verdicts
           /\ \A id \in DOMAIN table :
                /\ table'[id].batch = table[id].batch /\ table'[id].at = table[id].at
                /\ table'[id].proposal = table[id].proposal /\ table'[id].locks = table[id].locks
                /\ table'[id].status = IF id = clerk[c].id THEN clerk[c].verdict ELSE table[id].status
<1> DEFINE k == clerk[c].id
           v == clerk[c].verdict
<1>1. /\ k # 0 /\ table' = [table EXCEPT ![k].status = v]
      /\ gen' = gen /\ runs' = runs /\ clock' = clock /\ settings' = settings /\ locked' = locked
  BY DEF Save
<1>2. k \in DOMAIN table /\ v \in Verdicts
  BY <1>1 DEF ClerkInv
<1> HIDE DEF k, v
<1>3. table \in [1 .. Len(table) -> Stored] /\ Len(table) \in Nat /\ DOMAIN table = 1 .. Len(table)
  BY DEF AdviceTypes
<1>4. table' = [id \in DOMAIN table |-> IF id = k THEN [table[k] EXCEPT !.status = v] ELSE table[id]]
  BY <1>1, <1>2
<1>5. \A id \in DOMAIN table : table[id] \in Stored
  BY <1>3
<1>6. /\ [table[k] EXCEPT !.status = v] \in Stored
      /\ [table[k] EXCEPT !.status = v].batch = table[k].batch
      /\ [table[k] EXCEPT !.status = v].proposal = table[k].proposal
      /\ [table[k] EXCEPT !.status = v].locks = table[k].locks
      /\ [table[k] EXCEPT !.status = v].at = table[k].at
      /\ [table[k] EXCEPT !.status = v].status = v
  BY <1>2, <1>5 DEF Stored, Verdicts
<1>7. DOMAIN table' = DOMAIN table /\ \A id \in DOMAIN table : table'[id] \in Stored
  BY <1>4, <1>5, <1>6
<1>8. table' \in [1 .. Len(table) -> Stored]
  BY <1>3, <1>4, <1>7
<1>9. table' \in Seq(Stored) /\ Len(table') = Len(table)
  BY <1>3, <1>8
<1>10. AdviceTypes'
  BY <1>1, <1>9 DEF AdviceTypes
<1>11. ASSUME NEW id \in DOMAIN table
       PROVE  /\ table'[id].batch = table[id].batch /\ table'[id].at = table[id].at
              /\ table'[id].proposal = table[id].proposal /\ table'[id].locks = table[id].locks
              /\ table'[id].status = IF id = k THEN v ELSE table[id].status
  BY <1>4, <1>6
<1> QED BY <1>2, <1>7, <1>9, <1>10, <1>11 DEF k, v

LEMMA ClerkInvInit == ASSUME ProposalsInit PROVE ClerkInv
<1>1. /\ clerk = [c \in Clerks |-> NoClerk] /\ acks = <<>> /\ table = <<>>
      /\ NoClerk = [id |-> 0, verdict |-> "approved"]
  BY DEF ProposalsInit, NoClerk
<1>2. clerk \in [Clerks -> [id : Nat, verdict : Verdicts]] /\ \A c \in Clerks : clerk[c].id = 0
  BY <1>1 DEF Verdicts
<1> QED BY <1>1, <1>2 DEF ClerkInv

LEMMA StoreRow ==
    ASSUME ProposalsAssumption, BatchInv, NEW t, Store(t)
    PROVE  /\ AdviceTypes' /\ Len(table) \in Nat
           /\ DOMAIN table = 1 .. Len(table) /\ DOMAIN table' = 1 .. Len(table) + 1
           /\ Len(table') = Len(table) + 1
           /\ table'[Len(table) + 1].status = "pending" /\ table'[Len(table) + 1].at = t
           /\ \A id \in 1 .. Len(table) : table'[id] = table[id]
           /\ acks' = Append(acks, <<>>)
<1>1. /\ acks' = Append(acks, <<>>)
      /\ table' = Append(table, [batch |-> runs, proposal |-> Head(gen.queue), locks |-> gen.locks,
                                 status |-> "pending", at |-> t])
  BY DEF Store
<1>2. AdviceTypes' /\ table \in Seq(Stored)
  BY StoreKeepsBatch DEF BatchInv, AdviceTypes
<1> QED BY <1>1, <1>2

LEMMA StoreKeepsClerks ==
    ASSUME ProposalsAssumption, BatchInv, ClerkInv, NEW t, Store(t) PROVE ClerkInv'
<1> DEFINE n == Len(table) + 1
<1>1. clerk' = clerk
  BY DEF Store
<1>2. /\ acks \in Seq(Seq(Dispositions)) /\ Len(acks) = Len(table) /\ acks' = Append(acks, <<>>)
      /\ Len(table) \in Nat /\ DOMAIN table = 1 .. Len(table) /\ DOMAIN table' = 1 .. n
      /\ Len(table') = n /\ table'[n].status = "pending"
      /\ \A id \in 1 .. Len(table) : table'[id] = table[id]
  BY StoreRow DEF ClerkInv
<1>3. /\ acks' \in Seq(Seq(Dispositions)) /\ Len(acks') = n /\ acks'[n] = <<>>
      /\ \A id \in 1 .. Len(table) : acks'[id] = acks[id]
  <2> DEFINE T == Seq(Dispositions)
  <2>1. <<>> \in T
    OBVIOUS
  <2> HIDE DEF T
  <2> QED BY <1>2, <2>1 DEF T
<1>4. \A id \in DOMAIN table' : (table'[id].status = "pending") = (acks'[id] = <<>>)
  <2> SUFFICES ASSUME NEW id \in 1 .. n PROVE (table'[id].status = "pending") = (acks'[id] = <<>>)
    BY <1>2
  <2>1. CASE id = n
    BY <1>2, <1>3, <2>1
  <2>2. CASE id \in 1 .. Len(table)
    <3>1. (table[id].status = "pending") = (acks[id] = <<>>)
      BY <1>2, <2>2 DEF ClerkInv
    <3> QED BY <1>2, <1>3, <2>2, <3>1
  <2> QED BY <1>2, <2>1, <2>2
<1>5. \A c \in Clerks : clerk'[c].id # 0 => clerk'[c].id \in DOMAIN table'
  <2> SUFFICES ASSUME NEW c \in Clerks, clerk[c].id # 0 PROVE clerk[c].id \in 1 .. n
    BY <1>1, <1>2
  <2>1. clerk[c].id \in 1 .. Len(table)
    BY <1>2 DEF ClerkInv
  <2> QED BY <1>2, <2>1
<1> QED BY <1>1, <1>2, <1>3, <1>4, <1>5 DEF ClerkInv

LEMMA ReadKeepsClerks ==
    ASSUME AdviceTypes, ClerkInv, NEW c \in Clerks, NEW id \in DOMAIN table, NEW v \in Verdicts,
           Read(c, id, v)
    PROVE  ClerkInv'
<1>1. /\ clerk' = [clerk EXCEPT ![c] = [id |-> id, verdict |-> v]] /\ table' = table /\ acks' = acks
  BY DEF Read
<1>2. id \in Nat
  BY DEF AdviceTypes
<1>3. clerk' \in [Clerks -> [id : Nat, verdict : Verdicts]]
  BY <1>1, <1>2 DEF ClerkInv
<1>4. \A d \in Clerks : clerk'[d].id # 0 => clerk'[d].id \in DOMAIN table
  BY <1>1 DEF ClerkInv
<1> QED BY <1>1, <1>3, <1>4 DEF ClerkInv

\* A request that is answered is the last one in the list of its proposal.
LEMMA SaveAnswers ==
    ASSUME AdviceTypes, ClerkInv, NEW c \in Clerks, Save(c)
    PROVE  LET k == clerk[c].id
               n == Len(acks[k]) + 1
           IN /\ acks' \in Seq(Seq(Dispositions)) /\ Len(acks') = Len(table)
              /\ k \in DOMAIN table /\ n \in Nat \ {0}
              /\ DOMAIN acks[k] = 1 .. n - 1 /\ DOMAIN acks'[k] = 1 .. n /\ Len(acks'[k]) = n
              /\ acks'[k] # <<>>
              /\ acks'[k][n] = [by |-> c, verdict |-> clerk[c].verdict]
              /\ \A i \in 1 .. n - 1 : acks'[k][i] = acks[k][i]
              /\ \A id \in DOMAIN table : id # k => acks'[id] = acks[id]
<1> DEFINE k == clerk[c].id
           v == clerk[c].verdict
           x == [by |-> c, verdict |-> v]
           T == Seq(Dispositions)
<1>1. acks' = [acks EXCEPT ![k] = Append(@, x)]
  BY DEF Save
<1>2. k \in DOMAIN table /\ v \in Verdicts
  BY SaveTypes
<1>3. /\ acks \in [1 .. Len(table) -> T] /\ DOMAIN table = 1 .. Len(table) /\ Len(table) \in Nat
  BY DEF ClerkInv, AdviceTypes
<1>4. x \in Dispositions
  BY <1>2 DEF Dispositions
<1> HIDE DEF k, v, x
<1>5. acks[k] \in Seq(Dispositions)
  BY <1>2, <1>3
<1> DEFINE s == acks[k]
           n == Len(s) + 1
           a == Append(s, x)
<1>6. /\ a \in Seq(Dispositions) /\ n \in Nat \ {0} /\ DOMAIN s = 1 .. n - 1 /\ DOMAIN a = 1 .. n
      /\ Len(a) = n /\ a # <<>> /\ a[n] = x /\ \A i \in 1 .. n - 1 : a[i] = s[i]
  <2> HIDE DEF s
  <2> QED BY <1>4, <1>5 DEF s
<1> HIDE DEF a
<1>7. /\ acks' \in [1 .. Len(table) -> T] /\ acks'[k] = a
      /\ \A id \in DOMAIN table : id # k => acks'[id] = acks[id]
  <2>1. acks' = [acks EXCEPT ![k] = a] /\ a \in T
    BY <1>1, <1>6 DEF a
  <2> HIDE DEF T
  <2> QED BY <1>2, <1>3, <2>1
<1>8. acks' \in Seq(T) /\ Len(acks') = Len(table)
  <2> HIDE DEF T
  <2> QED BY <1>3, <1>7
<1> QED BY <1>2, <1>6, <1>7, <1>8 DEF k, v, x

LEMMA SaveKeepsClerks == ASSUME AdviceTypes, ClerkInv, NEW c \in Clerks, Save(c) PROVE ClerkInv'
<1> DEFINE k == clerk[c].id
           v == clerk[c].verdict
<1>1. clerk' = [clerk EXCEPT ![c] = NoClerk]
  BY DEF Save
<1>2. /\ DOMAIN table' = DOMAIN table /\ Len(table') = Len(table) /\ k \in DOMAIN table /\ v \in Verdicts
      /\ \A id \in DOMAIN table :
           table'[id].status = IF id = k THEN v ELSE table[id].status
  BY SaveTypes
<1>4. acks'[k] # <<>> /\ \A id \in DOMAIN table : id # k => acks'[id] = acks[id]
  BY SaveAnswers
<1>5. acks' \in Seq(Seq(Dispositions)) /\ Len(acks') = Len(table)
  BY SaveAnswers
<1> HIDE DEF k, v
<1>6. v # "pending"
  BY <1>2 DEF Verdicts
<1>7. \A id \in DOMAIN table' : (table'[id].status = "pending") = (acks'[id] = <<>>)
  BY <1>2, <1>4, <1>6 DEF ClerkInv
<1>8. NoClerk \in [id : Nat, verdict : Verdicts] /\ NoClerk.id = 0
  BY DEF NoClerk, Verdicts
<1>9. clerk' \in [Clerks -> [id : Nat, verdict : Verdicts]]
  BY <1>1, <1>8 DEF ClerkInv
<1>10. \A d \in Clerks : clerk'[d].id # 0 => clerk'[d].id \in DOMAIN table
  BY <1>1, <1>8 DEF ClerkInv
<1> QED BY <1>2, <1>5, <1>7, <1>9, <1>10 DEF ClerkInv

LEMMA ClerkFrame == ASSUME ClerkInv, clerk' = clerk, acks' = acks, table' = table PROVE ClerkInv'
BY DEF ClerkInv

\* All of it but the pages and the configuration.
AdviceInv == BatchInv /\ ClerkInv

LEMMA AdviceInvInit == ASSUME ProposalsAssumption, ProposalsInit PROVE AdviceInv
BY BatchInvInit, ClerkInvInit DEF AdviceInv

LEMMA AdviceInvStep ==
    ASSUME ProposalsAssumption, AdviceInv, [ProposalsNext]_proposalsVars PROVE AdviceInv'
<1>0. BatchInv /\ ClerkInv /\ AdviceTypes
  BY DEF AdviceInv, BatchInv
<1>1. ASSUME NEW k \in Kinds, Generate(k) PROVE AdviceInv'
  <2>1. clerk' = clerk /\ acks' = acks /\ table' = table
    BY <1>1 DEF Generate
  <2> QED BY <1>0, <1>1, <2>1, GenerateKeepsBatch, ClerkFrame DEF AdviceInv
<1>2. ASSUME NEW a \in RawAnswers, Reply(a) PROVE AdviceInv'
  <2>1. clerk' = clerk /\ acks' = acks /\ table' = table
    BY <1>2 DEF Reply
  <2> QED BY <1>0, <1>2, <2>1, ReplyKeepsBatch, ClerkFrame DEF AdviceInv
<1>3. ASSUME NEW t, Store(t) PROVE AdviceInv'
  BY <1>0, <1>3, StoreKeepsBatch, StoreKeepsClerks DEF AdviceInv
<1>4. CASE StoreFails
  <2>1. clerk' = clerk /\ acks' = acks /\ table' = table
    BY <1>4 DEF StoreFails
  <2> QED BY <1>0, <1>4, <2>1, StoreFailsKeepsBatch, ClerkFrame DEF AdviceInv
<1>5. CASE ModelFails
  <2>1. clerk' = clerk /\ acks' = acks /\ table' = table
    BY <1>5 DEF ModelFails
  <2> QED BY <1>0, <1>5, <2>1, ModelFailsKeepsBatch, ClerkFrame DEF AdviceInv
<1>6. ASSUME gen' = gen, runs' = runs, table' = table, AdviceTypes' PROVE BatchInv'
  BY <1>0, <1>6, BatchFrame
<1>7. ASSUME NEW k \in SettingKeys, NEW v \in News, Edit(k, v) PROVE AdviceInv'
  <2>1. /\ gen' = gen /\ runs' = runs /\ table' = table /\ clock' = clock
        /\ clerk' = clerk /\ acks' = acks
        /\ \/ settings' = [settings EXCEPT ![k] = v] /\ locked' = locked
           \/ locked' = locked \cup {k} /\ settings' = settings
    BY <1>7 DEF Edit
  <2>2. AdviceTypes'
    <3>1. v \in Values
      BY DEF Values
    <3> QED BY <1>0, <2>1, <3>1 DEF AdviceTypes
  <2> QED BY <1>0, <1>6, <2>1, <2>2, ClerkFrame DEF AdviceInv
<1>8. ASSUME gen' = gen, runs' = runs, table' = table, settings' = settings, locked' = locked,
             clock' = clock \/ clock' = clock + 1
      PROVE  AdviceTypes' /\ BatchInv'
  <2>1. AdviceTypes'
    BY <1>0, <1>8 DEF AdviceTypes
  <2> QED BY <1>6, <1>8, <2>1
<1>9. CASE Tick
  <2>1. /\ gen' = gen /\ runs' = runs /\ table' = table /\ settings' = settings /\ locked' = locked
        /\ clock' = clock + 1 /\ clerk' = clerk /\ acks' = acks
    BY <1>9 DEF Tick
  <2> QED BY <1>0, <1>8, <2>1, ClerkFrame DEF AdviceInv
<1>10. CASE Page
  <2>1. /\ gen' = gen /\ runs' = runs /\ table' = table /\ settings' = settings /\ locked' = locked
        /\ clock' = clock /\ clerk' = clerk /\ acks' = acks
    BY <1>10 DEF Page
  <2> QED BY <1>0, <1>8, <2>1, ClerkFrame DEF AdviceInv
<1>11. ASSUME NEW c \in Clerks, NEW id \in DOMAIN table, NEW v \in {"approved", "denied"}, Read(c, id, v)
       PROVE  AdviceInv'
  <2>1. /\ gen' = gen /\ runs' = runs /\ table' = table /\ settings' = settings /\ locked' = locked
        /\ clock' = clock
    BY <1>11 DEF Read
  <2>2. v \in Verdicts
    BY DEF Verdicts
  <2> QED BY <1>0, <1>8, <1>11, <2>1, <2>2, ReadKeepsClerks DEF AdviceInv
<1>12. ASSUME NEW c \in Clerks, Save(c) PROVE AdviceInv'
  <2>1. gen' = gen /\ runs' = runs
    BY <1>12 DEF Save
  <2>2. /\ AdviceTypes' /\ DOMAIN table' = DOMAIN table
        /\ \A id \in DOMAIN table : /\ table'[id].batch = table[id].batch
                                     /\ table'[id].proposal = table[id].proposal
                                     /\ table'[id].locks = table[id].locks
    BY <1>0, <1>12, SaveTypes
  <2> QED BY <1>0, <1>12, <2>1, <2>2, BatchFrame, SaveKeepsClerks DEF AdviceInv
<1>13. ASSUME NEW e \in Editors, NEW k \in 0 .. 2, ReadConfig(e, k) PROVE AdviceInv'
  <2>1. /\ gen' = gen /\ runs' = runs /\ table' = table /\ settings' = settings /\ locked' = locked
        /\ clock' = clock /\ clerk' = clerk /\ acks' = acks
    BY <1>13 DEF ReadConfig
  <2> QED BY <1>0, <1>8, <2>1, ClerkFrame DEF AdviceInv
<1>14. ASSUME NEW e \in Editors, SaveConfig(e) PROVE AdviceInv'
  <2>1. /\ gen' = gen /\ runs' = runs /\ table' = table /\ settings' = settings /\ locked' = locked
        /\ clock' = clock /\ clerk' = clerk /\ acks' = acks
    BY <1>14 DEF SaveConfig
  <2> QED BY <1>0, <1>8, <2>1, ClerkFrame DEF AdviceInv
<1>15. CASE UNCHANGED proposalsVars
  <2>1. /\ gen' = gen /\ runs' = runs /\ table' = table /\ settings' = settings /\ locked' = locked
        /\ clock' = clock /\ clerk' = clerk /\ acks' = acks
    BY <1>15 DEF proposalsVars
  <2> QED BY <1>0, <1>8, <2>1, ClerkFrame DEF AdviceInv
<1>16. CASE Generation
  BY <1>2, <1>3, <1>4, <1>5, <1>16 DEF Generation
<1> QED BY <1>1, <1>7, <1>9, <1>10, <1>11, <1>12, <1>13, <1>14, <1>15, <1>16 DEF ProposalsNext

\* What a generation stores, over both of its attempts, keeps to the limits of
\* the operator (parseProposalsFromResponseWithTypeDetailed), and no key that was
\* locked when it began is proposed for; for any settings, answers, limits and
\* edits, whichever calls and inserts fail.
THEOREM ProposalsBounded ==
    ASSUME ProposalsAssumption PROVE ProposalsSpec => [](BatchWithinLimits /\ NeverForLockedKey)
<1>1. ProposalsInit => AdviceInv
  BY AdviceInvInit
<1>2. AdviceInv /\ [ProposalsNext]_proposalsVars => AdviceInv'
  BY AdviceInvStep
<1>3. ASSUME AdviceInv PROVE BatchWithinLimits /\ NeverForLockedKey
  <2>0. BatchInv /\ table \in Seq(Stored)
    BY <1>3 DEF AdviceInv, BatchInv, AdviceTypes
  <2>1. \A id \in DOMAIN table : Permitted(table[id].proposal, table[id].locks)
    BY <2>0 DEF BatchInv
  <2>2. NeverForLockedKey
    BY <2>1 DEF NeverForLockedKey, Permitted, AllowedKey
  <2>3. ASSUME NEW b \in 1 .. runs, NEW c
        PROVE  /\ MaxProposals > 0 => Cardinality(RowsOf(table, b)) <= MaxProposals
               /\ MaxPerCategory > 0 => Cardinality(RowsIn(table, b, c)) <= MaxPerCategory
    <3>1. b \in Nat
      BY <2>0 DEF BatchInv, AdviceTypes
    <3>2. /\ Cardinality(RowsOf(table, b)) \in Nat /\ Cardinality(RowsIn(table, b, c)) \in Nat
      BY <2>0, RowsType
    <3>3. Len(gen.queue) \in Nat /\ Count(gen.queue, c) \in Nat
      <4>1. gen.queue \in Seq(Drafted)
        BY <2>0 DEF BatchInv, AdviceTypes
      <4>2. Count(gen.queue, c) \in Nat
        BY <4>1, CountType
      <4>3. Len(gen.queue) \in Nat
        BY <4>1
      <4> QED BY <4>2, <4>3
    <3>4. BatchLoad(b) >= Cardinality(RowsOf(table, b)) /\ BatchLoad(b) \in Nat
      BY <3>2, <3>3 DEF BatchLoad
    <3>5. CategoryLoad(b, c) >= Cardinality(RowsIn(table, b, c)) /\ CategoryLoad(b, c) \in Nat
      BY <3>2, <3>3 DEF CategoryLoad
    <3>6. /\ MaxProposals > 0 => BatchLoad(b) <= MaxProposals
          /\ MaxPerCategory > 0 => CategoryLoad(b, c) <= MaxPerCategory
      BY <2>0, <3>1 DEF BatchInv
    <3> QED BY <3>2, <3>4, <3>5, <3>6 DEF ProposalsAssumption
  <2>4. BatchWithinLimits
    BY <2>1, <2>3 DEF BatchWithinLimits, RowsOf, RowsIn, Permitted
  <2> QED BY <2>2, <2>4
<1> QED BY <1>1, <1>2, <1>3, PTL DEF ProposalsSpec

\* A request that works on a proposal was not answered about it yet.
FinalInv ==
  /\ DispositionFinal
  /\ \A c \in Clerks : \A id \in DOMAIN acks : clerk[c].id = id =>
       \A i \in DOMAIN acks[id] : acks[id][i].by # c

LEMMA FinalStep ==
    ASSUME ProposalsAssumption, AdviceInv, FinalInv, [ProposalsNext]_proposalsVars
    PROVE  FinalInv'
<1>0. /\ BatchInv /\ ClerkInv /\ AdviceTypes
      /\ acks \in Seq(Seq(Dispositions)) /\ Len(acks) = Len(table) /\ Len(table) \in Nat
      /\ DOMAIN table = 1 .. Len(table) /\ DOMAIN acks = 1 .. Len(table)
  <2>1. /\ BatchInv /\ ClerkInv /\ AdviceTypes
        /\ table \in Seq(Stored) /\ acks \in Seq(Seq(Dispositions)) /\ Len(acks) = Len(table)
    BY DEF AdviceInv, BatchInv, ClerkInv, AdviceTypes
  <2>2. /\ Len(table) \in Nat /\ DOMAIN table = 1 .. Len(table)
        /\ DOMAIN acks = 1 .. Len(acks)
    BY <2>1
  <2> QED BY <2>1, <2>2
<1>1. ASSUME clerk' = clerk, acks' = acks, table' = table PROVE FinalInv'
  BY <1>1 DEF FinalInv, DispositionFinal
<1>2. ASSUME NEW t, Store(t) PROVE FinalInv'
  <2> DEFINE n == Len(table) + 1
  <2>1. /\ clerk' = clerk /\ acks' = Append(acks, <<>>)
        /\ \A id \in 1 .. Len(table) : table'[id] = table[id]
    BY <1>0, <1>2, StoreRow DEF Store
  <2>2. /\ DOMAIN acks' = 1 .. n /\ acks'[n] = <<>> /\ DOMAIN acks'[n] = {}
        /\ \A id \in 1 .. Len(table) : acks'[id] = acks[id]
    BY <1>0, <2>1
  <2>3. \A id \in 1 .. n : id = n \/ id \in 1 .. Len(table)
    BY <1>0
  <2> HIDE DEF n
  <2>4. DispositionFinal'
    <3> SUFFICES ASSUME NEW id \in 1 .. n
                 PROVE  /\ \A i, j \in DOMAIN acks'[id] : acks'[id][i].by = acks'[id][j].by => i = j
                        /\ acks'[id] # <<>> => table'[id].status = acks'[id][Len(acks'[id])].verdict
      BY <2>2 DEF DispositionFinal
    <3>1. CASE id = n
      BY <2>2, <3>1
    <3>2. CASE id \in 1 .. Len(table)
      BY <1>0, <2>1, <2>2, <3>2 DEF FinalInv, DispositionFinal
    <3> QED BY <2>3, <3>1, <3>2
  <2>5. ASSUME NEW c \in Clerks, NEW id \in 1 .. n, clerk[c].id = id, NEW i \in DOMAIN acks'[id]
        PROVE  acks'[id][i].by # c
    <3>1. id \in 1 .. Len(table)
      BY <2>2, <2>3, <2>5
    <3> QED BY <1>0, <2>2, <2>5, <3>1 DEF FinalInv
  <2> QED BY <2>1, <2>2, <2>4, <2>5 DEF FinalInv
<1>3. ASSUME NEW c \in Clerks, NEW id \in DOMAIN table, NEW v \in {"approved", "denied"}, Read(c, id, v)
      PROVE  FinalInv'
  <2>1. /\ clerk' = [clerk EXCEPT ![c] = [id |-> id, verdict |-> v]] /\ table' = table /\ acks' = acks
        /\ table[id].status = "pending"
    BY <1>3 DEF Read
  <2>2. clerk'[c].id = id /\ \A d \in Clerks : d # c => clerk'[d] = clerk[d]
    BY <1>0, <2>1 DEF ClerkInv
  <2>3. acks[id] = <<>> /\ DOMAIN acks[id] = {}
    BY <1>0, <2>1 DEF ClerkInv
  <2>4. ASSUME NEW d \in Clerks, NEW k \in DOMAIN acks, clerk'[d].id = k, NEW i \in DOMAIN acks[k]
        PROVE  acks[k][i].by # d
    <3>1. d # c
      BY <2>2, <2>3, <2>4
    <3> QED BY <2>2, <2>4, <3>1 DEF FinalInv
  <2>5. DispositionFinal'
    BY <2>1 DEF FinalInv, DispositionFinal
  <2> QED BY <2>1, <2>4, <2>5 DEF FinalInv
<1>4. ASSUME NEW c \in Clerks, Save(c) PROVE FinalInv'
  <2> DEFINE k == clerk[c].id
             v == clerk[c].verdict
             n == Len(acks[k]) + 1
  <2>1. /\ k \in DOMAIN table /\ n \in Nat \ {0}
        /\ DOMAIN acks[k] = 1 .. n - 1 /\ DOMAIN acks'[k] = 1 .. n /\ Len(acks'[k]) = n
        /\ acks'[k][n].by = c /\ acks'[k][n].verdict = v
        /\ \A i \in 1 .. n - 1 : acks'[k][i] = acks[k][i]
        /\ \A id \in DOMAIN table : id # k => acks'[id] = acks[id]
    <3>1. acks'[k][n] = [by |-> c, verdict |-> v]
      BY <1>0, <1>4, SaveAnswers
    <3>2. acks'[k][n].by = c /\ acks'[k][n].verdict = v
      BY <3>1
    <3>3. /\ k \in DOMAIN table /\ n \in Nat \ {0}
          /\ DOMAIN acks[k] = 1 .. n - 1 /\ DOMAIN acks'[k] = 1 .. n /\ Len(acks'[k]) = n
          /\ \A i \in 1 .. n - 1 : acks'[k][i] = acks[k][i]
          /\ \A id \in DOMAIN table : id # k => acks'[id] = acks[id]
      BY <1>0, <1>4, SaveAnswers
    <3> QED BY <3>2, <3>3
  <2>2. DOMAIN acks' = DOMAIN table /\ DOMAIN table = DOMAIN acks
    <3>1. acks' \in Seq(Seq(Dispositions)) /\ Len(acks') = Len(table)
      BY <1>0, <1>4, SaveAnswers
    <3> QED BY <1>0, <3>1
  <2>3. \A id \in DOMAIN table : table'[id].status = IF id = k THEN v ELSE table[id].status
    BY <1>0, <1>4, SaveTypes
  <2>4. clerk' = [clerk EXCEPT ![c] = NoClerk] /\ NoClerk.id = 0
    BY <1>4 DEF Save, NoClerk
  <2>5. clerk'[c].id = 0 /\ \A d \in Clerks : d # c => clerk'[d] = clerk[d]
    BY <1>0, <2>4 DEF ClerkInv
  <2>6. \A i \in 1 .. n - 1 : acks[k][i].by # c
    BY <2>1, <2>2 DEF FinalInv
  <2>7. \A i, j \in 1 .. n - 1 : acks[k][i].by = acks[k][j].by => i = j
    BY <2>1, <2>2 DEF FinalInv, DispositionFinal
  <2>8. \A i \in 1 .. n : i = n \/ i \in 1 .. n - 1
    BY <2>1
  <2> HIDE DEF k, v, n
  <2>9. \A i, j \in 1 .. n : acks'[k][i].by = acks'[k][j].by => i = j
    BY <2>1, <2>6, <2>7, <2>8
  <2>10. DispositionFinal'
    <3> SUFFICES ASSUME NEW id \in DOMAIN table
                 PROVE  /\ \A i, j \in DOMAIN acks'[id] : acks'[id][i].by = acks'[id][j].by => i = j
                        /\ acks'[id] # <<>> => table'[id].status = acks'[id][Len(acks'[id])].verdict
      BY <2>2 DEF DispositionFinal
    <3>1. CASE id = k
      BY <2>1, <2>3, <2>9, <3>1
    <3>2. CASE id # k
      BY <2>1, <2>2, <2>3, <3>2 DEF FinalInv, DispositionFinal
    <3> QED BY <3>1, <3>2
  <2>11. ASSUME NEW d \in Clerks, NEW id \in DOMAIN table, clerk'[d].id = id, NEW i \in DOMAIN acks'[id]
         PROVE  acks'[id][i].by # d
    <3>1. 0 \notin DOMAIN table
      BY <1>0
    <3>2. d # c /\ clerk[d].id = id
      BY <2>5, <2>11, <3>1
    <3>3. \A j \in DOMAIN acks[id] : acks[id][j].by # d
      BY <2>2, <3>2 DEF FinalInv
    <3>4. CASE id # k
      BY <2>1, <2>11, <3>3, <3>4
    <3>5. CASE id = k
      BY <2>1, <2>8, <2>11, <3>2, <3>3, <3>5
    <3> QED BY <3>4, <3>5
  <2> QED BY <2>2, <2>10, <2>11 DEF FinalInv
<1>5. CASE \E k \in Kinds : Generate(k)
  BY <1>1, <1>5 DEF Generate
<1>6. CASE Generation
  <2>1. CASE \E a \in RawAnswers : Reply(a)
    BY <1>1, <2>1 DEF Reply
  <2>2. CASE StoreFails \/ ModelFails
    BY <1>1, <2>2 DEF StoreFails, ModelFails
  <2> QED BY <1>2, <1>6, <2>1, <2>2 DEF Generation
<1>7. CASE Tick \/ Page
  BY <1>1, <1>7 DEF Tick, Page
<1>8. CASE \E k \in SettingKeys, v \in News : Edit(k, v)
  BY <1>1, <1>8 DEF Edit
<1>9. CASE (\E e \in Editors, k \in 0 .. 2 : ReadConfig(e, k)) \/ (\E e \in Editors : SaveConfig(e))
  BY <1>1, <1>9 DEF ReadConfig, SaveConfig
<1>10. CASE UNCHANGED proposalsVars
  BY <1>1, <1>10 DEF proposalsVars
<1> QED BY <1>3, <1>4, <1>5, <1>6, <1>7, <1>8, <1>9, <1>10 DEF ProposalsNext

\* ApproveProposal and DenyProposal, however many requests are served at once:
\* nobody who was told how a proposal was resolved is told so again, so that only
\* requests that overlap can be told differently, and the row keeps the verdict
\* that was told last.
THEOREM DispositionsFinal ==
    ASSUME ProposalsAssumption PROVE ProposalsSpec => []DispositionFinal
<1>1. ProposalsInit => AdviceInv /\ FinalInv
  <2> SUFFICES ASSUME ProposalsInit PROVE AdviceInv /\ FinalInv
    OBVIOUS
  <2>1. acks = <<>> /\ DOMAIN acks = {}
    BY DEF ProposalsInit
  <2> QED BY <2>1, AdviceInvInit DEF FinalInv, DispositionFinal
<1>2. AdviceInv /\ FinalInv /\ [ProposalsNext]_proposalsVars => AdviceInv' /\ FinalInv'
  BY AdviceInvStep, FinalStep
<1>3. AdviceInv /\ FinalInv => DispositionFinal
  BY DEF FinalInv
<1> QED BY <1>1, <1>2, <1>3, PTL DEF ProposalsSpec

-----------------------------------------------------------------------------
(* The model configuration. *)

EditorRecords == [busy : BOOLEAN, enters : 0 .. 2, key : 0 .. 2, stale : BOOLEAN]

\* An update that is to keep the key, and has not been overtaken, holds the one in use.
ConfigInv ==
  /\ editor \in [Editors -> EditorRecords]
  /\ config \in [key : 0 .. 2, entered : 0 .. 2, overlapped : BOOLEAN]
  /\ ~config.overlapped => config.key = config.entered
  /\ \A e \in Editors : editor[e].busy =>
       IF editor[e].enters # 0 THEN editor[e].key = editor[e].enters
       ELSE editor[e].stale \/ editor[e].key = config.key

LEMMA ConfigStep ==
    ASSUME ConfigInv, [ProposalsNext]_proposalsVars PROVE ConfigInv'
<1>1. ASSUME editor' = editor, config' = config PROVE ConfigInv'
  BY <1>1 DEF ConfigInv
<1>2. ASSUME NEW e \in Editors, NEW k \in 0 .. 2, ReadConfig(e, k) PROVE ConfigInv'
  <2> DEFINE read == [busy |-> TRUE, enters |-> k, stale |-> FALSE,
                      key |-> IF k = 0 THEN config.key ELSE k]
  <2>1. editor' = [editor EXCEPT ![e] = read] /\ config' = config
    BY <1>2 DEF ReadConfig
  <2>2. /\ read \in EditorRecords
        /\ read.enters = k /\ read.key = (IF k = 0 THEN config.key ELSE k)
    BY DEF ConfigInv, EditorRecords
  <2> HIDE DEF read
  <2>3. editor'[e] = read /\ \A d \in Editors : d # e => editor'[d] = editor[d]
    BY <2>1 DEF ConfigInv
  <2>4. editor' \in [Editors -> EditorRecords]
    BY <2>1, <2>2 DEF ConfigInv
  <2> QED BY <2>1, <2>2, <2>3, <2>4 DEF ConfigInv
<1>3. ASSUME NEW e \in Editors, SaveConfig(e) PROVE ConfigInv'
  <2> DEFINE o == editor[e]
             kept(d) == [editor[d] EXCEPT !.stale = editor[d].busy]
  <2>1. /\ o.busy
        /\ config' = [key |-> o.key, entered |-> IF o.enters = 0 THEN config.entered ELSE o.enters,
                      overlapped |-> o.enters = 0 /\ (config.overlapped \/ o.stale)]
        /\ editor' = [d \in Editors |-> IF d = e THEN NoEditor ELSE kept(d)]
    BY <1>3 DEF SaveConfig
  <2>2. o \in EditorRecords /\ config \in [key : 0 .. 2, entered : 0 .. 2, overlapped : BOOLEAN]
    BY DEF ConfigInv
  <2>3. IF o.enters # 0 THEN o.key = o.enters ELSE o.stale \/ o.key = config.key
    BY <2>1 DEF ConfigInv
  <2>4. ~config.overlapped => config.key = config.entered
    BY DEF ConfigInv
  <2>5. NoEditor \in EditorRecords /\ ~NoEditor.busy
    BY DEF NoEditor, EditorRecords
  <2>6. ASSUME NEW d \in Editors PROVE kept(d) \in EditorRecords /\ (kept(d).busy => kept(d).stale)
                                       /\ kept(d).busy = editor[d].busy
                                       /\ kept(d).enters = editor[d].enters /\ kept(d).key = editor[d].key
    <3>1. editor[d] \in EditorRecords
      BY DEF ConfigInv
    <3> QED BY <3>1 DEF EditorRecords
  <2> HIDE DEF kept
  <2>7. editor' \in [Editors -> EditorRecords]
    BY <2>1, <2>5, <2>6
  <2>8. ASSUME NEW d \in Editors, editor'[d].busy
        PROVE  IF editor'[d].enters # 0 THEN editor'[d].key = editor'[d].enters ELSE editor'[d].stale
    <3>1. d # e /\ editor'[d] = kept(d)
      BY <2>1, <2>5, <2>8
    <3>2. editor[d].enters # 0 => editor[d].key = editor[d].enters
      BY <2>6, <2>8, <3>1 DEF ConfigInv
    <3> QED BY <2>6, <2>8, <3>1, <3>2
  <2>9. config' \in [key : 0 .. 2, entered : 0 .. 2, overlapped : BOOLEAN]
    BY <2>1, <2>2 DEF EditorRecords
  <2>10. ~config'.overlapped => config'.key = config'.entered
    <3> HIDE DEF o
    <3>1. config'.key = o.key /\ config'.entered = (IF o.enters = 0 THEN config.entered ELSE o.enters)
          /\ config'.overlapped = (o.enters = 0 /\ (config.overlapped \/ o.stale))
      BY <2>1
    <3>2. CASE o.enters # 0
      BY <2>3, <3>1, <3>2
    <3>3. CASE o.enters = 0
      BY <2>3, <2>4, <3>1, <3>3
    <3> QED BY <3>2, <3>3
  <2> QED BY <2>7, <2>8, <2>9, <2>10 DEF ConfigInv
<1>4. CASE \E k \in Kinds : Generate(k)
  BY <1>1, <1>4 DEF Generate
<1>5. CASE Generation
  <2>1. CASE \E a \in RawAnswers : Reply(a)
    BY <1>1, <2>1 DEF Reply
  <2>2. CASE \E t \in 1 .. MaxTime : Store(t)
    BY <1>1, <2>2 DEF Store
  <2>3. CASE StoreFails \/ ModelFails
    BY <1>1, <2>3 DEF StoreFails, ModelFails
  <2> QED BY <1>5, <2>1, <2>2, <2>3 DEF Generation
<1>6. CASE Tick \/ Page
  BY <1>1, <1>6 DEF Tick, Page
<1>7. CASE \E k \in SettingKeys, v \in News : Edit(k, v)
  BY <1>1, <1>7 DEF Edit
<1>8. CASE \E c \in Clerks, id \in DOMAIN table, v \in {"approved", "denied"} : Read(c, id, v)
  BY <1>1, <1>8 DEF Read
<1>9. CASE \E c \in Clerks : Save(c)
  BY <1>1, <1>9 DEF Save
<1>10. CASE UNCHANGED proposalsVars
  BY <1>1, <1>10 DEF proposalsVars
<1> QED BY <1>2, <1>3, <1>4, <1>5, <1>6, <1>7, <1>8, <1>9, <1>10 DEF ProposalsNext

\* UpdateLLMConfig, however many updates are made at once: the key in use is the
\* one that was entered last, unless an update with a blank key has since saved a
\* row that it had read before another update was saved.
THEOREM BlanksKeepKeys == ProposalsSpec => []BlankKeepsKey
<1>1. ProposalsInit => ConfigInv
  BY DEF ProposalsInit, ConfigInv, NoEditor, EditorRecords
<1>2. ConfigInv /\ [ProposalsNext]_proposalsVars => ConfigInv'
  BY ConfigStep
<1>3. ConfigInv => BlankKeepsKey
  BY DEF ConfigInv, BlankKeepsKey
<1> QED BY <1>1, <1>2, <1>3, PTL DEF ProposalsSpec

-----------------------------------------------------------------------------
(* Pages. *)

\* The rows are in a strict order, the newest first.
LEMMA NewerOrder ==
    ASSUME AdviceTypes, NEW a \in DOMAIN table, NEW b \in DOMAIN table
    PROVE  /\ ~Newer(a, a)
           /\ Newer(a, b) => ~Newer(b, a)
           /\ a # b => Newer(a, b) \/ Newer(b, a)
           /\ \A c \in DOMAIN table : Newer(a, b) /\ Newer(b, c) => Newer(a, c)
<1>1. DOMAIN table \subseteq Nat /\ \A id \in DOMAIN table : table[id].at \in Nat
  BY RowType DEF AdviceTypes
<1> QED BY <1>1 DEF Newer

Rank(rows, id) == Cardinality({r \in rows : Newer(r, id)})

LEMMA RankOrder ==
    ASSUME AdviceTypes, NEW rows \in SUBSET DOMAIN table
    PROVE  /\ IsFiniteSet(rows) /\ Cardinality(rows) \in Nat
           /\ \A a \in rows : Rank(rows, a) \in 0 .. Cardinality(rows) - 1
           /\ \A a, b \in rows : Newer(a, b) => Rank(rows, a) < Rank(rows, b)
<1> DEFINE Above(id) == {r \in rows : Newer(r, id)}
<1>1. IsFiniteSet(rows)
  <2>1. DOMAIN table = 1 .. Len(table) /\ Len(table) \in Nat
    BY DEF AdviceTypes
  <2>2. IsFiniteSet(DOMAIN table)
    BY <2>1, FS_Interval
  <2> QED BY <2>2, FS_Subset
<1>2. Cardinality(rows) \in Nat
  BY <1>1, FS_CardinalityType
<1>3. ASSUME NEW a \in rows
      PROVE  /\ IsFiniteSet(Above(a)) /\ Cardinality(Above(a)) \in Nat
             /\ Cardinality(Above(a)) <= Cardinality(rows) - 1
  <2>1. Above(a) \subseteq rows \ {a}
    BY NewerOrder
  <2>2. IsFiniteSet(rows \ {a}) /\ Cardinality(rows \ {a}) = Cardinality(rows) - 1
    BY <1>1, FS_RemoveElement
  <2> HIDE DEF Above
  <2> QED BY <2>1, <2>2, FS_Subset, FS_CardinalityType
<1>4. ASSUME NEW a \in rows, NEW b \in rows, Newer(a, b)
      PROVE  Cardinality(Above(a)) < Cardinality(Above(b))
  <2>1. Above(a) \subseteq Above(b)
    BY <1>4, NewerOrder
  <2>2. a \in Above(b) /\ a \notin Above(a)
    BY <1>4, NewerOrder
  <2>3. IsFiniteSet(Above(b)) /\ Cardinality(Above(b)) \in Nat /\ Cardinality(Above(a)) \in Nat
    BY <1>3
  <2> HIDE DEF Above
  <2>4. Cardinality(Above(a)) <= Cardinality(Above(b)) /\ Cardinality(Above(a)) # Cardinality(Above(b))
    BY <2>1, <2>2, <2>3, FS_Subset
  <2> QED BY <2>3, <2>4
<1>5. \A a \in rows : Rank(rows, a) = Cardinality(Above(a))
  BY DEF Rank
<1> HIDE DEF Above
<1>6. \A a \in rows : Rank(rows, a) \in 0 .. Cardinality(rows) - 1
  BY <1>2, <1>3, <1>5
<1>7. \A a, b \in rows : Newer(a, b) => Rank(rows, a) < Rank(rows, b)
  BY <1>4, <1>5
<1> QED BY <1>1, <1>2, <1>6, <1>7

LEMMA SortedFacts ==
    ASSUME AdviceTypes, NEW rows \in SUBSET DOMAIN table
    PROVE  /\ Cardinality(rows) \in Nat
           /\ Sorted(rows) \in [1 .. Cardinality(rows) -> rows]
           /\ \A i, j \in 1 .. Cardinality(rows) : i < j => Newer(Sorted(rows)[i], Sorted(rows)[j])
           /\ \A id \in rows : \E i \in 1 .. Cardinality(rows) : Sorted(rows)[i] = id
<1> DEFINE n == Cardinality(rows)
           order == Sorted(rows)
           f == [id \in rows |-> Rank(rows, id)]
<1>1. /\ IsFiniteSet(rows) /\ n \in Nat /\ \A a \in rows : Rank(rows, a) \in 0 .. n - 1
      /\ \A a, b \in rows : Newer(a, b) => Rank(rows, a) < Rank(rows, b)
  BY RankOrder
<1>2. \A a, b \in rows : Rank(rows, a) = Rank(rows, b) => a = b
  <2> SUFFICES ASSUME NEW a \in rows, NEW b \in rows, Rank(rows, a) = Rank(rows, b), a # b PROVE FALSE
    OBVIOUS
  <2>1. Newer(a, b) \/ Newer(b, a)
    BY NewerOrder
  <2> QED BY <1>1, <2>1
<1>3. f \in Injection(rows, 0 .. n - 1)
  BY <1>1, <1>2 DEF Injection, IsInjective
<1>4. f \in Surjection(rows, 0 .. n - 1)
  <2>1. IsFiniteSet(0 .. n - 1) /\ Cardinality(0 .. n - 1) = n
    <3> HIDE DEF n
    <3>1. 0 \in Int /\ n - 1 \in Int
      BY <1>1
    <3>2. IsFiniteSet(0 .. n - 1) /\ Cardinality(0 .. n - 1) = IF 0 > n - 1 THEN 0 ELSE n - 1 - 0 + 1
      BY <3>1, FS_Interval
    <3> QED BY <1>1, <3>2
  <2> HIDE DEF f
  <2> QED BY <1>1, <1>3, <2>1, FS_Injection
<1>5. \A k \in 1 .. n : \E id \in rows : Rank(rows, id) = k - 1
  <2> SUFFICES ASSUME NEW k \in 1 .. n PROVE \E id \in rows : Rank(rows, id) = k - 1
    OBVIOUS
  <2>1. k - 1 \in 0 .. n - 1
    BY <1>1
  <2>2. \A i \in 0 .. n - 1 : \E id \in rows : f[id] = i
    <3> HIDE DEF f, n
    <3> QED BY <1>4 DEF Surjection
  <2>3. PICK id \in rows : f[id] = k - 1
    BY <2>1, <2>2
  <2> QED BY <2>3
<1>6. \A k \in 1 .. n : order[k] \in rows /\ Rank(rows, order[k]) = k - 1
  <2> SUFFICES ASSUME NEW k \in 1 .. n PROVE order[k] \in rows /\ Rank(rows, order[k]) = k - 1
    OBVIOUS
  <2>1. order[k] = CHOOSE id \in rows : Rank(rows, id) = k - 1
    BY DEF Sorted, Rank
  <2>2. \E id \in rows : Rank(rows, id) = k - 1
    BY <1>5
  <2> HIDE DEF order, n
  <2> QED BY <2>1, <2>2
<1>7. order \in [1 .. n -> rows]
  <2> DEFINE g(k) == CHOOSE id \in rows : Cardinality({r \in rows : Newer(r, id)}) = k - 1
  <2>1. order = [k \in 1 .. n |-> g(k)]
    BY DEF Sorted
  <2> HIDE DEF order, n, g
  <2> QED BY <1>6, <2>1
<1> HIDE DEF order, n, f
<1>8. ASSUME NEW i \in 1 .. n, NEW j \in 1 .. n, i < j PROVE Newer(order[i], order[j])
  <2>1. order[i] # order[j] /\ ~Newer(order[j], order[i])
    <3>1. Rank(rows, order[i]) = i - 1 /\ Rank(rows, order[j]) = j - 1 /\ order[i] \in rows /\ order[j] \in rows
      BY <1>6
    <3>2. i - 1 # j - 1 /\ ~(j - 1 < i - 1)
      BY <1>1, <1>8
    <3> QED BY <1>1, <3>1, <3>2
  <2> QED BY <1>6, <2>1, NewerOrder
<1>9. ASSUME NEW id \in rows PROVE \E i \in 1 .. n : order[i] = id
  <2>1. PICK k \in 1 .. n : k - 1 = Rank(rows, id)
    <3> DEFINE r == Rank(rows, id)
    <3>0. r \in 0 .. n - 1
      BY <1>1
    <3> HIDE DEF r
    <3>1. r + 1 \in 1 .. n /\ (r + 1) - 1 = r
      BY <1>1, <3>0
    <3>2. \E k \in 1 .. n : k - 1 = r
      BY <3>1
    <3> QED BY <3>2 DEF r
  <2>2. order[k] = id
    BY <1>2, <1>6, <2>1
  <2> QED BY <2>2
<1> QED BY <1>1, <1>7, <1>8, <1>9 DEF order, n

\* What a client has seen is all before its cursor, each row once; of the rows
\* stored when it began the others are behind it.
PagerInv ==
  /\ pager \in [on : BOOLEAN, start : SUBSET DOMAIN table, seen : Seq(DOMAIN table), at : Nat, id : Nat]
  /\ pager.at = 0 => pager = NoPager
  /\ \A i, j \in DOMAIN pager.seen : pager.seen[i] = pager.seen[j] => i = j
  /\ \A id \in Range(pager.seen) : ~Behind(id)
  /\ \A id \in pager.start : Behind(id) \/ id \in Range(pager.seen)
  /\ ~pager.on => pager.start \subseteq Range(pager.seen)

LEMMA PagerFrame ==
    ASSUME PagerInv, pager' = pager, DOMAIN table \subseteq DOMAIN table',
           \A id \in DOMAIN table : table'[id].at = table[id].at
    PROVE  PagerInv'
<1> DEFINE P == [on : BOOLEAN, start : SUBSET DOMAIN table, seen : Seq(DOMAIN table), at : Nat, id : Nat]
           Q == [on : BOOLEAN, start : SUBSET DOMAIN table', seen : Seq(DOMAIN table'), at : Nat, id : Nat]
<1>1. /\ pager \in P /\ pager.seen \in Seq(DOMAIN table) /\ pager.start \subseteq DOMAIN table
  BY DEF PagerInv
<1>2. pager.seen \in Seq(DOMAIN table')
  BY <1>1
<1>3. pager \in Q
  BY <1>1, <1>2
<1>4. /\ \A id \in Range(pager.seen) : id \in DOMAIN table
      /\ \A id \in DOMAIN table : Behind(id)' = Behind(id)
  <2>1. \A id \in Range(pager.seen) : id \in DOMAIN table
    BY <1>1 DEF Range
  <2> QED BY <2>1 DEF Behind
<1>5. \A id \in Range(pager.seen) : ~Behind(id)'
  BY <1>4 DEF PagerInv
<1>6. \A id \in pager.start : Behind(id)' \/ id \in Range(pager.seen)
  BY <1>1, <1>4 DEF PagerInv
<1> HIDE DEF P, Q
<1> QED BY <1>3, <1>5, <1>6 DEF PagerInv, Q

LEMMA PageKeeps == ASSUME ProposalsAssumption, AdviceTypes, PagerInv, Page PROVE PagerInv'
<1> DEFINE rows == {id \in DOMAIN table : Behind(id)}
           order == Sorted(rows)
           n == Cardinality(rows)
           m == IF Len(order) > Limit THEN Limit ELSE Len(order)
           page == SubSeq(order, 1, m)
           start == IF pager.on THEN pager.start ELSE DOMAIN table
           seen == pager.seen
<1>1. /\ n \in Nat /\ order \in [1 .. n -> rows]
      /\ \A i, j \in 1 .. n : i < j => Newer(order[i], order[j])
      /\ \A id \in rows : \E i \in 1 .. n : order[i] = id
  BY SortedFacts
<1>2. /\ Limit > 0 /\ (pager.on \/ (pager = NoPager /\ table # <<>>)) /\ table' = table
      /\ pager' = [on |-> Len(order) > Limit, start |-> start, seen |-> seen \o page,
                  at |-> IF page = <<>> THEN pager.at ELSE table[page[Len(page)]].at,
                  id |-> IF page = <<>> THEN pager.id ELSE page[Len(page)]]
  BY DEF Page
<1>3. /\ Limit \in Nat /\ Len(order) = n /\ order \in Seq(rows) /\ m \in Nat /\ m <= n
      /\ (n <= Limit => m = n) /\ (m = 0 => n = 0)
  <2> HIDE DEF rows, order, n
  <2>1. Len(order) = n /\ order \in Seq(rows) /\ Limit \in Nat
    BY <1>1 DEF ProposalsAssumption
  <2> QED BY <1>1, <1>2, <2>1
<1>4. /\ page \in Seq(rows) /\ Len(page) = m /\ \A i \in 1 .. m : page[i] = order[i]
  <2> HIDE DEF order, rows, n, m
  <2> QED BY <1>3
<1>5. /\ rows \subseteq DOMAIN table /\ DOMAIN table \subseteq Nat
      /\ \A id \in DOMAIN table : table[id].at \in Nat \ {0}
      /\ \A id \in rows : Behind(id)
      /\ \A id \in DOMAIN table : Behind(id) => id \in rows
  BY RowType DEF AdviceTypes
<1> HIDE DEF rows, order, n, m, page, start, seen
<1>6. /\ seen \in Seq(DOMAIN table) /\ start \subseteq DOMAIN table /\ seen \o page \in Seq(DOMAIN table)
      /\ Len(seen) \in Nat /\ DOMAIN seen = 1 .. Len(seen)
      /\ DOMAIN (seen \o page) = 1 .. Len(seen) + m
      /\ \A i \in 1 .. Len(seen) : (seen \o page)[i] = seen[i]
      /\ \A i \in 1 .. m : (seen \o page)[Len(seen) + i] = order[i]
  <2>1. seen \in Seq(DOMAIN table) /\ start \subseteq DOMAIN table
    BY DEF PagerInv, seen, start
  <2>2. page \in Seq(DOMAIN table)
    BY <1>4, <1>5
  <2> QED BY <1>3, <1>4, <2>1, <2>2
<1>7. /\ \A id \in Range(seen) : id \in DOMAIN table /\ ~Behind(id) /\ id \notin rows
      /\ \A i \in 1 .. Len(seen) : seen[i] \in Range(seen)
  <2>1. \A i \in 1 .. Len(seen) : seen[i] \in Range(seen)
    BY <1>6 DEF Range
  <2>2. \A id \in Range(seen) : id \in DOMAIN table
    BY <1>6 DEF Range
  <2> QED BY <1>5, <2>1, <2>2 DEF PagerInv, seen
<1>8. \A i \in 1 .. m : order[i] \in rows /\ order[i] \in DOMAIN table
  BY <1>1, <1>3, <1>5
<1>9. \A i, j \in 1 .. m : order[i] = order[j] => i = j
  <2> SUFFICES ASSUME NEW i \in 1 .. m, NEW j \in 1 .. m, i < j PROVE order[i] # order[j]
    BY <1>3
  <2>1. Newer(order[i], order[j])
    BY <1>1, <1>3
  <2> QED BY <1>8, <2>1, NewerOrder
<1>10. \A i, j \in DOMAIN (seen \o page) : (seen \o page)[i] = (seen \o page)[j] => i = j
  <2> DEFINE Old(k) == k \in 1 .. Len(seen)
             New(k) == \E i \in 1 .. m : k = Len(seen) + i
  <2>1. \A k \in 1 .. Len(seen) + m : Old(k) \/ New(k)
    <3> SUFFICES ASSUME NEW k \in 1 .. Len(seen) + m, ~(k \in 1 .. Len(seen)) PROVE New(k)
      OBVIOUS
    <3>1. k - Len(seen) \in 1 .. m /\ k = Len(seen) + (k - Len(seen))
      BY <1>3, <1>6
    <3> QED BY <3>1
  <2>2. ASSUME NEW i \in 1 .. Len(seen), NEW j \in 1 .. Len(seen),
               (seen \o page)[i] = (seen \o page)[j]
        PROVE  i = j
    <3>1. seen[i] = seen[j] /\ i \in DOMAIN seen /\ j \in DOMAIN seen
      BY <1>6, <2>2
    <3> QED BY <3>1 DEF PagerInv, seen
  <2>3. ASSUME NEW i \in 1 .. m, NEW j \in 1 .. m,
               (seen \o page)[Len(seen) + i] = (seen \o page)[Len(seen) + j]
        PROVE  i = j
    <3>1. order[i] = order[j]
      BY <1>6, <2>3
    <3> QED BY <1>9, <3>1
  <2>4. ASSUME NEW i \in 1 .. Len(seen), NEW j \in 1 .. m
        PROVE  (seen \o page)[i] # (seen \o page)[Len(seen) + j]
    <3>1. (seen \o page)[i] \notin rows
      BY <1>6, <1>7
    <3>2. (seen \o page)[Len(seen) + j] \in rows
      BY <1>6, <1>8
    <3> QED BY <3>1, <3>2
  <2>5. ASSUME NEW k \in 1 .. Len(seen) + m, NEW l \in 1 .. Len(seen) + m,
               (seen \o page)[k] = (seen \o page)[l]
        PROVE  k = l
    <3>1. CASE Old(k) /\ Old(l)
      BY <2>2, <2>5, <3>1
    <3>2. CASE New(k) /\ New(l)
      BY <2>3, <2>5, <3>2
    <3>3. CASE (Old(k) /\ New(l)) \/ (New(k) /\ Old(l))
      BY <2>4, <2>5, <3>3
    <3> QED BY <2>1, <3>1, <3>2, <3>3
  <2> QED BY <1>6, <2>5
<1>11. \A id \in start : id \in rows \/ id \in Range(seen)
  <2>1. CASE pager.on
    BY <1>5, <1>6, <2>1 DEF PagerInv, start, seen
  <2>2. CASE ~pager.on
    <3>1. \A id \in DOMAIN table : Behind(id)
      BY <1>2, <2>2 DEF Behind, NoPager
    <3> QED BY <1>5, <1>6, <3>1
  <2> QED BY <2>1, <2>2
<1>12. \A i \in 1 .. m : order[i] \in Range(seen \o page)
  <2> SUFFICES ASSUME NEW i \in 1 .. m PROVE order[i] \in Range(seen \o page)
    OBVIOUS
  <2>1. Len(seen) + i \in 1 .. Len(seen) + m
    BY <1>3, <1>6
  <2>2. Len(seen) + i \in DOMAIN (seen \o page) /\ (seen \o page)[Len(seen) + i] = order[i]
    BY <1>6, <2>1
  <2> QED BY <2>2 DEF Range
<1>13. \A id \in Range(seen) : id \in Range(seen \o page)
  <2> SUFFICES ASSUME NEW i \in DOMAIN seen PROVE seen[i] \in Range(seen \o page)
    BY DEF Range
  <2>1. i \in DOMAIN (seen \o page) /\ (seen \o page)[i] = seen[i]
    BY <1>3, <1>6
  <2> QED BY <2>1 DEF Range
<1>14. n <= Limit => start \subseteq Range(seen \o page)
  <2> SUFFICES ASSUME m = n, NEW id \in start PROVE id \in Range(seen \o page)
    BY <1>3
  <2>1. CASE id \in rows
    BY <1>1, <1>12, <2>1
  <2>2. CASE id \in Range(seen)
    BY <1>13, <2>2
  <2> QED BY <1>11, <2>1, <2>2
<1>15. pager'.start = start /\ pager'.seen = seen \o page
  BY <1>2
<1>16. n \in Nat /\ Limit \in Nat
  BY <1>1, <1>3
<1>17. ~pager'.on => pager'.start \subseteq Range(pager'.seen)
  <2> SUFFICES ASSUME ~pager'.on PROVE n <= Limit
    BY <1>14, <1>15
  <2>1. pager'.on = (Len(order) > Limit)
    BY <1>2
  <2>2. ~(Len(order) > Limit)
    BY <2>1
  <2> QED BY <1>3, <1>16, <2>2
<1>18. CASE m = 0
  <2>1. n = 0 /\ rows = {} /\ page = <<>>
    <3>1. n = 0
      BY <1>3, <1>18
    <3>2. rows = {}
      BY <1>1, <3>1
    <3>3. page = <<>>
      BY <1>4, <1>18, EmptySeq
    <3> QED BY <3>1, <3>2, <3>3
  <2>2. pager'.at = pager.at /\ pager'.id = pager.id
    BY <1>2, <2>1
  <2>3. seen \o page = seen
    BY <1>6, <2>1
  <2>4. pager.at # 0
    <3> SUFFICES ASSUME pager.at = 0 PROVE FALSE
      OBVIOUS
    <3>1. pager = NoPager /\ ~pager.on /\ table # <<>>
      BY <1>2 DEF PagerInv, NoPager
    <3>2. PICK id \in DOMAIN table : TRUE
      <4>1. table \in Seq(Stored)
        BY DEF AdviceTypes
      <4>2. Len(table) \in Nat \ {0} /\ DOMAIN table = 1 .. Len(table)
        BY <3>1, <4>1, EmptySeq
      <4> QED BY <4>2
    <3>3. id \in rows
      BY <1>5, <3>2 DEF Behind
    <3> QED BY <2>1, <3>3
  <2>5. \A id \in DOMAIN table : Behind(id)' = Behind(id)
    BY <1>2, <2>2 DEF Behind
  <2>6. \A id \in Range(pager'.seen) : ~Behind(id)'
    BY <1>7, <1>15, <2>3, <2>5
  <2>7. \A id \in pager'.start : Behind(id)' \/ id \in Range(pager'.seen)
    BY <1>11, <1>15, <2>1, <2>3
  <2>8. pager' \in [on : BOOLEAN, start : SUBSET DOMAIN table, seen : Seq(DOMAIN table), at : Nat, id : Nat]
    <3>1. pager.at \in Nat /\ pager.id \in Nat
      BY DEF PagerInv
    <3> QED BY <1>2, <1>6, <2>1, <3>1
  <2>9. pager'.at # 0
    BY <2>2, <2>4
  <2> QED BY <1>2, <1>10, <1>15, <1>17, <2>6, <2>7, <2>8, <2>9 DEF PagerInv
<1>19. CASE m # 0
  <2> DEFINE last == order[m]
  <2>1. m \in 1 .. m /\ last \in rows /\ last \in DOMAIN table /\ m \in 1 .. n
    BY <1>3, <1>8, <1>16, <1>19
  <2>2. page # <<>> /\ page[Len(page)] = last
    BY <1>4, <1>19, <2>1
  <2> HIDE DEF last
  <2>3. pager'.at = table[last].at /\ pager'.id = last
    BY <1>2, <2>2
  <2>4. table[last].at \in Nat \ {0} /\ last \in Nat
    BY <1>5, <2>1
  <2>5. \A id \in DOMAIN table : Behind(id)' <=> Newer(last, id)
    BY <1>2, <1>5, <2>3, <2>4 DEF Behind, Newer
  <2>6. \A id \in Range(seen) : ~Newer(last, id)
    <3> SUFFICES ASSUME NEW id \in Range(seen) PROVE ~Newer(last, id)
      OBVIOUS
    <3>1. id \in DOMAIN table /\ ~Behind(id)
      BY <1>7
    <3>2. Behind(last)
      BY <1>5, <2>1
    <3>3. pager.at \in Nat /\ pager.id \in Nat /\ table[id].at \in Nat /\ id \in Nat
      BY <1>5, <3>1 DEF PagerInv
    <3> QED BY <2>4, <3>1, <3>2, <3>3 DEF Behind, Newer
  <2>7. \A i \in 1 .. m : ~Newer(last, order[i])
    <3> SUFFICES ASSUME NEW i \in 1 .. m PROVE ~Newer(last, order[i])
      OBVIOUS
    <3>1. CASE i = m
      BY <1>8, <3>1, NewerOrder DEF last
    <3>2. CASE i # m
      <4>1. i < m /\ i \in 1 .. n
        BY <1>3, <1>16, <3>2
      <4>2. Newer(order[i], last)
        BY <1>1, <2>1, <4>1 DEF last
      <4> QED BY <1>8, <2>1, <4>2, NewerOrder
    <3> QED BY <3>1, <3>2
  <2>8. \A id \in Range(pager'.seen) : ~Behind(id)'
    <3> SUFFICES ASSUME NEW k \in 1 .. Len(seen) + m, NEW id, id = (seen \o page)[k] PROVE ~Behind(id)'
      BY <1>6, <1>15 DEF Range
    <3>1. CASE k \in 1 .. Len(seen)
      <4>1. id \in Range(seen)
        BY <1>6, <1>7, <3>1
      <4> QED BY <1>7, <2>5, <2>6, <4>1
    <3>2. CASE k \notin 1 .. Len(seen)
      <4>1. k - Len(seen) \in 1 .. m /\ k = Len(seen) + (k - Len(seen))
        BY <1>3, <1>6, <3>2
      <4>2. PICK i \in 1 .. m : k = Len(seen) + i
        BY <4>1
      <4>3. id = order[i]
        BY <1>6, <4>2
      <4> QED BY <1>8, <2>5, <2>7, <4>3
    <3> QED BY <3>1, <3>2
  <2>9. \A id \in pager'.start : Behind(id)' \/ id \in Range(pager'.seen)
    <3> SUFFICES ASSUME NEW id \in start PROVE Behind(id)' \/ id \in Range(seen \o page)
      BY <1>15
    <3>1. CASE id \in Range(seen)
      BY <1>13, <3>1
    <3>2. CASE id \in rows
      <4>1. PICK i \in 1 .. n : order[i] = id
        BY <1>1, <3>2
      <4>2. CASE i \in 1 .. m
        BY <1>12, <4>1, <4>2
      <4>3. CASE i \notin 1 .. m
        <5>1. m < i
          BY <1>3, <1>16, <4>3
        <5>2. Newer(last, id)
          BY <1>1, <2>1, <4>1, <5>1 DEF last
        <5> QED BY <1>5, <2>5, <3>2, <5>2
      <4> QED BY <4>2, <4>3
    <3> QED BY <1>11, <3>1, <3>2
  <2>10. pager' \in [on : BOOLEAN, start : SUBSET DOMAIN table, seen : Seq(DOMAIN table), at : Nat, id : Nat]
    BY <1>2, <1>6, <2>2, <2>4
  <2>11. pager'.at # 0
    BY <2>3, <2>4
  <2> QED BY <1>2, <1>10, <1>15, <1>17, <2>8, <2>9, <2>10, <2>11 DEF PagerInv
<1> QED BY <1>18, <1>19

LEMMA PagerInvStep ==
    ASSUME ProposalsAssumption, AdviceInv, PagerInv, [ProposalsNext]_proposalsVars PROVE PagerInv'
<1>0. BatchInv /\ ClerkInv /\ AdviceTypes
  BY DEF AdviceInv, BatchInv
<1>1. ASSUME pager' = pager, table' = table PROVE PagerInv'
  BY <1>1, PagerFrame
<1>2. ASSUME NEW t, Store(t) PROVE PagerInv'
  <2>1. pager' = pager
    BY <1>2 DEF Store
  <2>2. DOMAIN table \subseteq DOMAIN table' /\ \A id \in DOMAIN table : table'[id].at = table[id].at
    BY <1>0, <1>2, StoreRow
  <2> QED BY <2>1, <2>2, PagerFrame
<1>3. ASSUME NEW c \in Clerks, Save(c) PROVE PagerInv'
  <2>1. pager' = pager
    BY <1>3 DEF Save
  <2>2. DOMAIN table' = DOMAIN table /\ \A id \in DOMAIN table : table'[id].at = table[id].at
    BY <1>0, <1>3, SaveTypes
  <2> QED BY <2>1, <2>2, PagerFrame
<1>4. CASE \E k \in Kinds : Generate(k)
  BY <1>1, <1>4 DEF Generate
<1>5. CASE Generation
  BY <1>1, <1>2, <1>5 DEF Generation, Reply, StoreFails, ModelFails
<1>6. CASE Tick
  BY <1>1, <1>6 DEF Tick
<1>7. CASE \E k \in SettingKeys, v \in News : Edit(k, v)
  BY <1>1, <1>7 DEF Edit
<1>8. CASE \E c \in Clerks, id \in DOMAIN table, v \in {"approved", "denied"} : Read(c, id, v)
  BY <1>1, <1>8 DEF Read
<1>9. CASE (\E e \in Editors, k \in 0 .. 2 : ReadConfig(e, k)) \/ (\E e \in Editors : SaveConfig(e))
  BY <1>1, <1>9 DEF ReadConfig, SaveConfig
<1>10. CASE UNCHANGED proposalsVars
  BY <1>1, <1>10 DEF proposalsVars
<1>11. CASE Page
  BY <1>0, <1>11, PageKeeps
<1> QED BY <1>3, <1>4, <1>5, <1>6, <1>7, <1>8, <1>9, <1>10, <1>11 DEF ProposalsNext

\* GetProposalPage: a client that walks to the end has seen every proposal that
\* was stored when it began and none twice, for any page size, whatever is stored
\* meanwhile and in whatever order its times come.
THEOREM PagesComplete == ASSUME ProposalsAssumption PROVE ProposalsSpec => []PageComplete
<1>1. ProposalsInit => AdviceInv /\ PagerInv
  <2> SUFFICES ASSUME ProposalsInit PROVE AdviceInv /\ PagerInv
    OBVIOUS
  <2>1. pager = NoPager /\ pager.seen = <<>> /\ pager.start = {}
    BY DEF ProposalsInit, NoPager
  <2>2. pager \in [on : BOOLEAN, start : SUBSET DOMAIN table, seen : Seq(DOMAIN table), at : Nat, id : Nat]
    BY <2>1 DEF NoPager
  <2>3. Range(pager.seen) = {}
    BY <2>1 DEF Range
  <2> QED BY <2>1, <2>2, <2>3, AdviceInvInit DEF PagerInv
<1>2. AdviceInv /\ PagerInv /\ [ProposalsNext]_proposalsVars => AdviceInv' /\ PagerInv'
  BY AdviceInvStep, PagerInvStep
<1>3. PagerInv => PageComplete
  BY DEF PagerInv, PageComplete
<1> QED BY <1>1, <1>2, <1>3, PTL DEF ProposalsSpec
=============================================================================
