---------------------------- MODULE TradingProofs ----------------------------
(***************************************************************************)
(* The trade cycle, and the risk engine that its decisions go through.     *)
(*                                                                         *)
(* However many cycles overlap, whatever their settings and however reads  *)
(* fail: the positions they open together, the buys that go into one       *)
(* position, the buys of one cycle and what a fenced process buys are      *)
(* bounded as CyclesBounded says.  Those bounds are not inductive: a count *)
(* taken now limits buys made much later.  The invariant is a budget       *)
(* instead.  Every running cycle counts for the positions it may still     *)
(* open (Room) and for the buys it has decided on (Buys); together with    *)
(* what is open they stay within what the cycles and the failed reads      *)
(* allow (Budget, Layered).                                                *)
(*                                                                         *)
(* Whatever a strategy proposes, the ledger books what the risk engine     *)
(* approved.  The limits of ApprovedIsBookable are about the end of a      *)
(* decision; the invariant carries them there.  While a batch is evaluated,*)
(* the counters are the portfolio and the sums over what was approved      *)
(* (Evaluated); while it is booked, cash, turnover, exposure and positions *)
(* keep to the limits with what is still to be booked counted in           *)
(* (CountedIn), which says the same in every order of the fills.           *)
(*                                                                         *)
(* The engine that replays these decisions over history is honest for all  *)
(* tickers, series, prices and exits: EngineInv carries what sets a        *)
(* trailing stop, what a bar can still book and that what is held has a    *)
(* bar left to be sold at.                                                 *)
(***************************************************************************)
EXTENDS TradeCycle, Risk, BacktestEngine, SumProofs, SequenceTheorems

Fenced == {"limited_live", "full_live"}

Reasons == {"none", "authority", "fenced", "legacy_candidate", "not_ready", "price", "market_data",
            "projection", "strategy", "ledger", "broker", "trace", "history"}

Contexts == [past : Nat, cash : Nat, gates : SUBSET Symbols, open : SUBSET Symbols, held : Int]

Runs == [at : Places, settings : Settings, list : Shortlists \cup {<<>>}, next : Nat \ {0},
         count : Nat, opened : Nat, mode : {"none", "legacy", "paper", "shadow", "dry_run"},
         ctx : Contexts, approved : SUBSET Symbols, why : Reasons,
         bought : [Symbols -> Nat]]

\* The positions a run may still open.
Room(r) ==
    IF r.at \in {"consider", "buy"}
    THEN IF r.count + r.opened < r.settings.max THEN r.settings.max - (r.count + r.opened) ELSE 0
    ELSE IF r.at = "fills" /\ Cardinality(r.ctx.open) < r.settings.max
    THEN r.settings.max - Cardinality(r.ctx.open)
    ELSE IF r.at = "commit" THEN Cardinality(r.approved) ELSE 0

\* A run has decided to buy s, or has not seen it among the positions it decides
\* on, and has not bought it yet.
Buys(r, s) ==
    \/ r.at = "buy" /\ r.list[r.next].symbol = s
    \/ r.at = "fills" /\ s \notin r.ctx.open
    \/ r.at = "commit" /\ s \in r.approved

\* What a run knows of itself: what it has still to consider it has not bought,
\* it buys only below its limit, approves no more than the cash it read, and in a
\* fenced process is routed to nothing that buys.
Sound(r, f) ==
    /\ r.at \in {"consider", "buy"} =>
         /\ r.next \in 1 .. Len(r.list)
         /\ \A k \in r.next .. Len(r.list) : r.bought[r.list[k].symbol] = 0
    /\ r.at = "buy" => r.count + r.opened < r.settings.max
    /\ r.at = "commit" => /\ r.mode = "paper" /\ IsFiniteSet(r.approved)
                          /\ Cardinality(r.approved) <= r.ctx.cash
                          /\ Cardinality(r.approved) <= Limit
    /\ r.at = "fills" => IsFiniteSet(r.ctx.open)
    /\ r.at \in {"analyze", "route", "count", "ready", "wallet", "portfolio", "fills", "commit"} =>
         r.bought = Nothing /\ r.next = 1
    /\ \A s \in Symbols : r.bought[s] <= 1
    /\ f \in Fenced =>
         /\ r.at \notin {"count", "consider", "buy", "commit"}
         /\ r.at \in {"ready", "wallet", "portfolio", "fills", "history"} => r.mode = "dry_run"

Typed ==
    /\ settings \in Settings /\ flags \in FlagModes
    /\ layers \in [Symbols -> Nat] /\ cash \in Nat /\ turnover \in Nat
    /\ exits \subseteq Opened /\ cycle \in [Cycles -> Runs]
    /\ starts \in 0 .. MaxStarts /\ exited \in 0 .. MaxExits /\ faults \in 0 .. MaxFaults

Sounds == \A c \in Cycles : Sound(cycle[c], flags)

\* The open positions and those that running cycles may still open.
Promised == SumFunctionOnSet([c \in Cycles |-> Room(cycle[c])], Cycles)
Budget == Cardinality(Opened) + Promised <= (Cardinality(Cycles) + faults) * Limit

\* The buys in a position and those that cycles have decided on.
Buyers(s) == {c \in Cycles : Buys(cycle[c], s)}
Layered == \A s \in Symbols : layers[s] + Cardinality(Buyers(s)) <= Cardinality(Cycles) + faults

Fence == flags \in Fenced => turnover = 0 /\ layers = Nothing

IInv == Typed /\ Sounds /\ Budget /\ Layered /\ Fence

-----------------------------------------------------------------------------
\* The library's Max of a finite set of numbers.
LEMMA Largest ==
    ASSUME NEW S, IsFiniteSet(S), S # {}, S \subseteq Int
    PROVE  Max(S) \in S /\ \A x \in S : x <= Max(S)
<1>1. PICK m \in S : \A x \in S : m >= x
  BY LargestExists
<1>2. Max(S) \in S /\ \A x \in S : Max(S) >= x
  BY <1>1 DEF Max
<1> QED BY <1>2

\* No setting allows more than Limit positions.
LEMMA LimitIs ==
    ASSUME CycleAssumption, Settings # {}
    PROVE  Limit \in Nat /\ \A s \in Settings : s.max \in Nat /\ s.max <= Limit
<1> DEFINE f == [s \in Settings |-> s.max]
           S == {s.max : s \in Settings}
<1>1. IsFiniteSet(Settings) /\ \A s \in Settings : s.max \in Nat
  BY DEF CycleAssumption
<1>2. S = {f[s] : s \in Settings}
  OBVIOUS
<1>3. IsFiniteSet(S)
  <2> HIDE DEF f, S
  <2> QED BY <1>1, <1>2, FiniteImage
<1>4. S # {} /\ S \subseteq Int /\ \A s \in Settings : s.max \in S
  BY <1>1
<1>5. Max(S) \in S /\ \A x \in S : x <= Max(S)
  <2> HIDE DEF S
  <2> QED BY <1>3, <1>4, Largest
<1>6. Limit = Max(S)
  BY DEF Limit
<1> QED BY <1>1, <1>4, <1>5, <1>6

\* At most n are among the n of the best rank.
LEMMA BestBounded ==
    ASSUME NEW m \in Nat, NEW K \in SUBSET (1 .. m), NEW n \in Int, NEW N \in Nat, n <= N
    PROVE  IsFiniteSet(Best(K, n)) /\ Cardinality(Best(K, n)) <= N
<1> DEFINE B == Best(K, n)
           Below(k) == {j \in K : j <= k}
           f == [k \in B |-> Cardinality(Below(k))]
<1>0. \A k \in K : k \in Int
  OBVIOUS
<1>1. IsFiniteSet(K) /\ B \subseteq K /\ IsFiniteSet(B)
  <2>1. IsFiniteSet(1 .. m)
    BY FS_Interval
  <2>2. IsFiniteSet(K)
    BY <2>1, FS_Subset
  <2>3. B \subseteq K
    BY DEF Best
  <2> HIDE DEF B
  <2> QED BY <2>2, <2>3, FS_Subset
<1>2. ASSUME NEW k \in K PROVE IsFiniteSet(Below(k)) /\ Cardinality(Below(k)) \in Nat \ {0}
  <2>1. IsFiniteSet(Below(k)) /\ Cardinality(Below(k)) \in Nat
    BY <1>1, FS_Subset, FS_CardinalityType
  <2>2. k \in Below(k)
    BY <1>2
  <2>3. Cardinality(Below(k)) # 0
    BY <2>1, <2>2, FS_EmptySet
  <2> QED BY <2>1, <2>3
<1>3. ASSUME NEW j \in K, NEW k \in K, j < k PROVE Cardinality(Below(j)) < Cardinality(Below(k))
  <2>1. Below(j) \subseteq Below(k) /\ k \in Below(k) /\ k \notin Below(j)
    <3>1. j \in Int /\ k \in Int /\ j < k /\ \A x \in K : x \in Int
      BY <1>0, <1>3
    <3>2. \A x \in K : x <= j => x <= k
      BY <3>1
    <3>3. k <= k /\ ~(k <= j)
      BY <3>1
    <3> QED BY <1>3, <3>2, <3>3
  <2>2. IsFiniteSet(Below(k)) /\ Cardinality(Below(k)) \in Nat /\ IsFiniteSet(Below(j)) /\ Cardinality(Below(j)) \in Nat
    BY <1>2
  <2>3. Cardinality(Below(j)) <= Cardinality(Below(k))
        /\ (Cardinality(Below(j)) = Cardinality(Below(k)) => Below(j) = Below(k))
    <3> HIDE DEF Below
    <3> QED BY <2>1, <2>2, FS_Subset
  <2> QED BY <2>1, <2>2, <2>3
<1>4. f \in [B -> 1 .. N]
  <2>1. ASSUME NEW k \in B PROVE Cardinality(Below(k)) \in 1 .. N
    <3>1. k \in K /\ Cardinality(Below(k)) <= n
      BY <2>1 DEF Best
    <3> QED BY <1>2, <3>1
  <2> QED BY <2>1
<1>5. \A j, k \in B : f[j] = f[k] => j = k
  <2>1. ASSUME NEW j \in B, NEW k \in B, f[j] = f[k] PROVE j = k
    <3>1. j \in K /\ k \in K /\ j \in Int /\ k \in Int
      BY <1>0, <1>1, <2>1
    <3>2. Cardinality(Below(j)) = Cardinality(Below(k)) /\ Cardinality(Below(k)) \in Nat
      BY <1>2, <2>1, <3>1
    <3>3. ~(j < k) /\ ~(k < j)
      BY <1>3, <3>1, <3>2
    <3> QED BY <3>1, <3>3
  <2> QED BY <2>1
<1>6. f \in Injection(B, 1 .. N)
  BY <1>4, <1>5 DEF Injection, IsInjective
<1>7. IsFiniteSet(1 .. N) /\ Cardinality(1 .. N) = N
  BY FS_Interval
<1> HIDE DEF f, B
<1>8. Cardinality(B) <= Cardinality(1 .. N)
  BY <1>6, <1>7, FS_Injection
<1> QED BY <1>1, <1>7, <1>8 DEF B

\* The least of three numbers.
LEMMA LeastIs ==
    ASSUME NEW x \in Int, NEW y \in Int, NEW z \in Int
    PROVE  LET n == Least({x, y, z}) IN n \in Int /\ n <= x /\ n <= y /\ n <= z
<1> DEFINE S == {x, y, z}
<1>1. \E n \in S : \A k \in S : n <= k
  <2>1. CASE x <= y /\ x <= z
    BY <2>1
  <2>2. CASE y <= x /\ y <= z
    BY <2>2
  <2>3. CASE z <= x /\ z <= y
    BY <2>3
  <2> QED BY <2>1, <2>2, <2>3
<1>2. Least(S) \in S /\ \A k \in S : Least(S) <= k
  BY <1>1 DEF Least
<1> QED BY <1>2

\* The risk engine approves of symbols that were not open when the positions were
\* read, no more than the positions it may open and the cash it read.
LEMMA ApprovedFits ==
    ASSUME CycleAssumption, Typed, NEW c \in Cycles, IsFiniteSet(cycle[c].ctx.open), NEW spent \in Int
    PROVE  /\ Approved(c, spent) \in SUBSET Symbols /\ IsFiniteSet(Approved(c, spent))
           /\ Cardinality(Approved(c, spent)) \in Nat
           /\ Approved(c, spent) \cap cycle[c].ctx.open = {}
           /\ Cardinality(Approved(c, spent)) <= cycle[c].ctx.cash
           /\ Approved(c, spent) # {} =>
                Cardinality(cycle[c].ctx.open) + Cardinality(Approved(c, spent)) <= cycle[c].settings.max
<1> DEFINE r == cycle[c]
           P == r.ctx.open
           held == r.ctx.held
           O == Cardinality(P)
           n == Least({r.settings.max - O, r.ctx.cash, r.ctx.cash + held - spent})
           K == Intents(c)
           m == Len(r.list)
           list == r.list
           B == Best(K, n)
           A == Approved(c, spent)
           N == IF n > 0 THEN n ELSE 0
<1>1. /\ r \in Runs /\ r.settings.max \in Nat /\ r.ctx.cash \in Nat /\ held \in Int
      /\ \A l \in Shortlists : l \in Seq([symbol : Symbols, error : BOOLEAN, qualifies : BOOLEAN])
  <2>1. r \in Runs
    BY DEF Typed
  <2>2. (\A x \in Settings : x.max \in Nat)
        /\ \A l \in Shortlists : l \in Seq([symbol : Symbols, error : BOOLEAN, qualifies : BOOLEAN])
    BY DEF CycleAssumption
  <2>3. r.settings \in Settings /\ r.ctx \in Contexts
    BY <2>1 DEF Runs
  <2>4. r.ctx.cash \in Nat /\ held \in Int
    BY <2>3 DEF Contexts
  <2> QED BY <2>1, <2>2, <2>3, <2>4
<1>2. O \in Nat
  BY FS_CardinalityType
<1>4. n \in Int /\ n <= r.settings.max - O /\ n <= r.ctx.cash
  <2> DEFINE x == r.settings.max - O
             y == r.ctx.cash
             z == r.ctx.cash + held - spent
  <2>1. x \in Int /\ y \in Int /\ z \in Int
    <3>1. r.settings.max \in Nat /\ r.ctx.cash \in Nat /\ held \in Int
      BY <1>1
    <3> HIDE DEF r, held, O
    <3> QED BY <1>2, <3>1
  <2>2. n = Least({x, y, z})
    OBVIOUS
  <2> HIDE DEF x, y, z, n
  <2>3. n \in Int /\ n <= x /\ n <= y
    BY <2>1, <2>2, LeastIs
  <2> QED BY <2>3 DEF x, y
<1>5. list \in Seq([symbol : Symbols, error : BOOLEAN, qualifies : BOOLEAN])
  <2>1. list \in Shortlists \cup {<<>>}
    BY <1>1 DEF Runs
  <2>2. <<>> \in Seq([symbol : Symbols, error : BOOLEAN, qualifies : BOOLEAN])
    OBVIOUS
  <2> QED BY <1>1, <2>1, <2>2
<1>6. m \in Nat /\ K \in SUBSET (1 .. m)
      /\ \A k \in K : list[k].symbol \in Symbols \ P /\ O < r.settings.max
  <2> DEFINE T == [symbol : Symbols, error : BOOLEAN, qualifies : BOOLEAN]
  <2>1. m \in Nat /\ \A k \in 1 .. m : list[k] \in T
    <3> HIDE DEF T, list
    <3>1. list \in Seq(T)
      BY <1>5 DEF T, list
    <3>2. Len(list) \in Nat /\ \A k \in 1 .. Len(list) : list[k] \in T
      BY <3>1
    <3> QED BY <3>2 DEF list
  <2>2. \A k \in 1 .. m : list[k].symbol \in Symbols
    BY <2>1
  <2>3. \A k \in K : k \in 1 .. m /\ list[k].symbol \notin P /\ O < r.settings.max
    BY DEF Intents
  <2> QED BY <2>1, <2>2, <2>3
<1>7. A = {list[k].symbol : k \in B} /\ B \subseteq K
  BY DEF Approved, Best
<1>8. N \in Nat /\ n <= N
  BY <1>4
<1>9. IsFiniteSet(B) /\ Cardinality(B) <= N
  <2> HIDE DEF K, m, n, N
  <2> QED BY <1>4, <1>6, <1>8, BestBounded
<1>10. IsFiniteSet(A) /\ Cardinality(A) <= Cardinality(B) /\ Cardinality(A) \in Nat /\ Cardinality(B) \in Nat
  <2> DEFINE f == [k \in B |-> list[k].symbol]
  <2>1. f \in [B -> A] /\ \A x \in A : \E k \in B : f[k] = x
    BY <1>7
  <2>2. f \in Surjection(B, A)
    BY <2>1 DEF Surjection
  <2> HIDE DEF f, A, B
  <2> QED BY <1>9, <2>2, FS_Surjection, FS_CardinalityType
<1>11. A \subseteq Symbols /\ A \cap P = {}
  BY <1>6, <1>7
<1>12. Cardinality(A) <= r.ctx.cash
  BY <1>1, <1>4, <1>9, <1>10
<1>13. ASSUME A # {} PROVE O + Cardinality(A) <= r.settings.max
  <2>1. O < r.settings.max
    BY <1>6, <1>7, <1>13
  <2> QED BY <1>1, <1>2, <1>4, <1>9, <1>10, <2>1
<1> QED BY <1>10, <1>11, <1>12, <1>13

-----------------------------------------------------------------------------
\* A run may open no more than the limit.
LEMMA RoomIs ==
    ASSUME CycleAssumption, NEW r \in Runs, NEW f, Sound(r, f)
    PROVE  Limit \in Nat /\ Room(r) \in Nat /\ Room(r) <= Limit
<1>1. r.settings \in Settings /\ r.count \in Nat /\ r.opened \in Nat
  BY DEF Runs
<1>2. Limit \in Nat /\ r.settings.max \in Nat /\ r.settings.max <= Limit
  BY <1>1, LimitIs
<1>4. r.at = "fills" => Cardinality(r.ctx.open) \in Nat
  BY FS_CardinalityType DEF Sound
<1>3. r.at = "commit" => Cardinality(r.approved) \in Nat /\ Cardinality(r.approved) <= Limit
  BY FS_CardinalityType DEF Sound
<1> QED BY <1>1, <1>2, <1>3, <1>4 DEF Room

\* What cycles may still open changes with the one that moves; the others may
\* open no more than the limit each.
LEMMA PromisedMoves ==
    ASSUME CycleAssumption, Typed, Sounds, NEW c \in Cycles, cycle' \in [Cycles -> Runs],
           \A d \in Cycles : d # c => cycle'[d] = cycle[d], Sound(cycle'[c], flags)
    PROVE  /\ Limit \in Nat /\ Cardinality(Cycles) \in Nat /\ Promised \in Int
           /\ Room(cycle[c]) \in Nat /\ Room(cycle'[c]) \in Nat
           /\ Promised' = Promised + (Room(cycle'[c]) - Room(cycle[c]))
           /\ Promised - Room(cycle[c]) + Limit <= Cardinality(Cycles) * Limit
<1> DEFINE F == [d \in Cycles |-> Room(cycle[d])]
           G == [d \in Cycles |-> Room(cycle'[d])]
           H == [d \in Cycles |-> IF d = c THEN Limit ELSE F[d]]
           x == Room(cycle'[c]) - Room(cycle[c])
           y == Limit - Room(cycle[c])
<1>1. IsFiniteSet(Cycles) /\ Limit \in Nat
      /\ \A d \in Cycles : Room(cycle[d]) \in Nat /\ Room(cycle[d]) <= Limit
  <2>1. \A d \in Cycles : cycle[d] \in Runs /\ Sound(cycle[d], flags)
    BY DEF Typed, Sounds
  <2>2. IsFiniteSet(Cycles)
    BY DEF CycleAssumption
  <2> QED BY <2>1, <2>2, RoomIs
<1>2. Room(cycle'[c]) \in Nat
  BY RoomIs
<1>3. /\ \A d \in Cycles : F[d] \in Int
      /\ x \in Int /\ y \in Int /\ G[c] = F[c] + x /\ H[c] = F[c] + y
      /\ \A d \in Cycles : d # c => G[d] = F[d]
      /\ \A d \in Cycles : d # c => H[d] = F[d]
      /\ \A d \in Cycles : H[d] \in Int /\ H[d] <= Limit
  BY <1>1, <1>2
<1>4. Promised = SumFunctionOnSet(F, Cycles)
  BY DEF Promised
<1>5. Promised' = SumFunctionOnSet(G, Cycles)
  BY DEF Promised
<1> HIDE DEF F, G, H, x, y
<1>6. SumFunctionOnSet(F, Cycles) \in Int
  BY <1>1, <1>3, SumType
<1>7. SumFunctionOnSet(G, Cycles) = SumFunctionOnSet(F, Cycles) + x
  BY <1>1, <1>3, SumMove
<1>8. SumFunctionOnSet(H, Cycles) = SumFunctionOnSet(F, Cycles) + y
  BY <1>1, <1>3, SumMove
<1>9. Cardinality(Cycles) \in Nat /\ SumFunctionOnSet(H, Cycles) <= Cardinality(Cycles) * Limit
  BY <1>1, <1>3, SumBounded
<1>10. Promised + (Limit - Room(cycle[c])) <= Cardinality(Cycles) * Limit
  BY <1>4, <1>8, <1>9 DEF y
<1>11. Cardinality(Cycles) * Limit \in Int
  BY <1>1, <1>9
<1> QED BY <1>1, <1>2, <1>4, <1>5, <1>6, <1>7, <1>9, <1>10, <1>11 DEF x

\* The cycles that have decided to buy s change with the one that moves.
LEMMA BuyersMove ==
    ASSUME CycleAssumption, NEW c \in Cycles, NEW s,
           \A d \in Cycles : d # c => cycle'[d] = cycle[d]
    PROVE  /\ Cardinality(Buyers(s)) \in Nat /\ Cardinality(Buyers(s)') \in Nat
           /\ Cardinality(Cycles) \in Nat /\ Cardinality(Buyers(s)') <= Cardinality(Cycles)
           /\ Cardinality(Buyers(s)') <= Cardinality(Buyers(s)) + 1
           /\ (Buys(cycle'[c], s) => Buys(cycle[c], s)) =>
                Cardinality(Buyers(s)') <= Cardinality(Buyers(s))
           /\ Buys(cycle[c], s) /\ ~Buys(cycle'[c], s) =>
                Cardinality(Buyers(s)') = Cardinality(Buyers(s)) - 1
<1> DEFINE B == {d \in Cycles : Buys(cycle[d], s)}
           C == {d \in Cycles : Buys(cycle'[d], s)}
<1>1. Buyers(s) = B /\ Buyers(s)' = C
  BY DEF Buyers
<1>2. B \in SUBSET Cycles /\ C \in SUBSET Cycles /\ C \subseteq B \cup {c}
  OBVIOUS
<1>3. (Buys(cycle'[c], s) => Buys(cycle[c], s)) => C \subseteq B
  OBVIOUS
<1>4. Buys(cycle[c], s) /\ ~Buys(cycle'[c], s) => C = B \ {c} /\ c \in B
  OBVIOUS
<1>5. IsFiniteSet(Cycles) /\ IsFiniteSet(B) /\ IsFiniteSet(C) /\ IsFiniteSet(B \cup {c})
      /\ Cardinality(Cycles) \in Nat /\ Cardinality(B) \in Nat /\ Cardinality(C) \in Nat
  <2> HIDE DEF B, C
  <2>1. IsFiniteSet(Cycles)
    BY DEF CycleAssumption
  <2>2. IsFiniteSet(B) /\ IsFiniteSet(C)
    BY <1>2, <2>1, FS_Subset
  <2>3. IsFiniteSet(B \cup {c})
    BY <2>2, FS_AddElement
  <2> QED BY <2>1, <2>2, <2>3, FS_CardinalityType
<1> HIDE DEF B, C
<1>6. Cardinality(C) <= Cardinality(Cycles)
  BY <1>2, <1>5, FS_Subset
<1>7. Cardinality(C) <= Cardinality(B) + 1
  <2>1. Cardinality(B \cup {c}) \in Nat /\ Cardinality(B \cup {c}) <= Cardinality(B) + 1
    BY <1>5, FS_AddElement, FS_CardinalityType
  <2>2. Cardinality(C) <= Cardinality(B \cup {c})
    BY <1>2, <1>5, FS_Subset
  <2> QED BY <1>5, <2>1, <2>2
<1>8. C \subseteq B => Cardinality(C) <= Cardinality(B)
  BY <1>5, FS_Subset
<1>9. C = B \ {c} /\ c \in B => Cardinality(C) = Cardinality(B) - 1
  BY <1>5, FS_RemoveElement
<1> QED BY <1>1, <1>3, <1>4, <1>5, <1>6, <1>7, <1>8, <1>9

\* A step of one cycle that keeps the account and takes on nothing new.
LEMMA QuietStep ==
    ASSUME CycleAssumption, IInv, NEW c \in Cycles, cycle' \in [Cycles -> Runs],
           \A d \in Cycles : d # c => cycle'[d] = cycle[d], Sound(cycle'[c], flags),
           Room(cycle'[c]) <= Room(cycle[c]),
           \A s \in Symbols : Buys(cycle'[c], s) => Buys(cycle[c], s),
           flags' = flags, UNCHANGED account, settings' = settings,
           starts' \in 0 .. MaxStarts, faults' \in 0 .. MaxFaults, faults <= faults'
    PROVE  IInv'
<1>1. Typed /\ Sounds /\ Budget /\ Layered /\ Fence
  BY DEF IInv
<1>2. /\ settings' = settings /\ flags' = flags /\ layers' = layers /\ cash' = cash
      /\ exits' = exits /\ turnover' = turnover /\ exited' = exited /\ Opened' = Opened
  BY DEF account, Opened
<1>3. Typed'
  BY <1>1, <1>2 DEF Typed
<1>4. Sounds'
  BY <1>1, <1>2 DEF Sounds
<1>5. Budget'
  <2>1. /\ Limit \in Nat /\ Cardinality(Cycles) \in Nat /\ Promised \in Int
        /\ Promised' <= Promised /\ Promised' \in Int
    <3>1. /\ Limit \in Nat /\ Cardinality(Cycles) \in Nat /\ Promised \in Int
          /\ Room(cycle[c]) \in Nat /\ Room(cycle'[c]) \in Nat
          /\ Promised' = Promised + (Room(cycle'[c]) - Room(cycle[c]))
      BY <1>1, PromisedMoves
    <3> QED BY <3>1
  <2>2. Cardinality(Opened) \in Nat /\ faults \in Nat /\ faults' \in Nat
    <3>1. IsFiniteSet(Symbols) /\ MaxFaults \in Nat
      BY DEF CycleAssumption
    <3>2. IsFiniteSet(Opened)
      BY <3>1, FS_Subset DEF Opened
    <3> QED BY <1>1, <3>1, <3>2, FS_CardinalityType DEF Typed
  <2>3. Cardinality(Opened) + Promised <= (Cardinality(Cycles) + faults) * Limit
    BY <1>1 DEF Budget
  <2>4. (Cardinality(Cycles) + faults) * Limit <= (Cardinality(Cycles) + faults') * Limit
    <3> DEFINE a == Cardinality(Cycles) + faults
               b == Cardinality(Cycles) + faults'
    <3>1. a \in Nat /\ b \in Nat /\ a <= b
      BY <2>1, <2>2
    <3> HIDE DEF a, b
    <3>2. a * Limit <= b * Limit
      BY <2>1, <3>1
    <3> QED BY <3>2 DEF a, b
  <2>5. (Cardinality(Cycles) + faults) * Limit \in Int /\ (Cardinality(Cycles) + faults') * Limit \in Int
    BY <2>1, <2>2
  <2>6. Cardinality(Opened) + Promised' <= (Cardinality(Cycles) + faults') * Limit
    BY <2>1, <2>2, <2>3, <2>4, <2>5
  <2> QED BY <1>2, <2>6 DEF Budget
<1>6. Layered'
  <2>1. ASSUME NEW s \in Symbols
        PROVE  layers[s] + Cardinality(Buyers(s)') <= Cardinality(Cycles) + faults'
    <3>1. Cardinality(Buyers(s)) \in Nat /\ Cardinality(Buyers(s)') \in Nat
          /\ Cardinality(Cycles) \in Nat /\ Cardinality(Buyers(s)') <= Cardinality(Buyers(s))
      BY BuyersMove
    <3>2. layers[s] + Cardinality(Buyers(s)) <= Cardinality(Cycles) + faults
      BY <1>1 DEF Layered
    <3>3. layers[s] \in Nat /\ faults \in Int /\ faults' \in Int
      BY <1>1 DEF Typed
    <3> QED BY <3>1, <3>2, <3>3
  <2> QED BY <1>2, <2>1 DEF Layered
<1>7. Fence'
  BY <1>1, <1>2 DEF Fence
<1> QED BY <1>3, <1>4, <1>5, <1>6, <1>7 DEF IInv

\* One run changes, the others do not.
LEMMA Put ==
    ASSUME Typed, NEW c \in Cycles, NEW r \in Runs, cycle' = [cycle EXCEPT ![c] = r]
    PROVE  /\ cycle' \in [Cycles -> Runs] /\ cycle'[c] = r
           /\ \A d \in Cycles : d # c => cycle'[d] = cycle[d]
BY DEF Typed

\* A run without a context.
LEMMA NoContextIs == NoContext \in Contexts
BY DEF NoContext, Contexts

\* A run goes on without its context.
LEMMA MovedIs ==
    ASSUME NEW r \in Runs, NEW at \in Places
    PROVE  /\ Moved(r, at) \in Runs /\ Moved(r, at).at = at /\ Moved(r, at).mode = r.mode
           /\ Moved(r, at).list = r.list /\ Moved(r, at).next = r.next /\ Moved(r, at).bought = r.bought
           /\ Moved(r, at).count = r.count /\ Moved(r, at).opened = r.opened
           /\ Moved(r, at).settings = r.settings
BY NoContextIs DEF Moved, Runs

LEMMA GotoPuts ==
    ASSUME Typed, NEW c \in Cycles, NEW at \in Places, Goto(c, at)
    PROVE  /\ cycle' \in [Cycles -> Runs] /\ cycle'[c] = Moved(cycle[c], at)
           /\ \A d \in Cycles : d # c => cycle'[d] = cycle[d]
<1>1. cycle[c] \in Runs
  BY DEF Typed
<1> DEFINE r == Moved(cycle[c], at)
<1>2. r \in Runs
  BY <1>1, MovedIs
<1>3. cycle' = [cycle EXCEPT ![c] = r]
  BY DEF Goto
<1> HIDE DEF r
<1>4. cycle' \in [Cycles -> Runs] /\ cycle'[c] = r /\ \A d \in Cycles : d # c => cycle'[d] = cycle[d]
  BY <1>2, <1>3, Put
<1> QED BY <1>4 DEF r

\* A run fails with a reason.
LEMMA EngineErrorPuts ==
    ASSUME Typed, NEW c \in Cycles, NEW why \in Reasons, EngineError(c, why)
    PROVE  /\ cycle' \in [Cycles -> Runs] /\ cycle'[c].at = "engine_error"
           /\ cycle'[c].bought = cycle[c].bought
           /\ \A d \in Cycles : d # c => cycle'[d] = cycle[d]
<1>1. cycle[c] \in Runs /\ "engine_error" \in Places
  BY DEF Typed, Places
<1> DEFINE l == Moved(cycle[c], "engine_error")
           r == [l EXCEPT !.why = why]
<1>2. l \in Runs /\ l.at = "engine_error" /\ l.bought = cycle[c].bought
  BY <1>1, MovedIs
<1>3. r \in Runs /\ r.at = "engine_error" /\ r.bought = cycle[c].bought
  <2> HIDE DEF l
  <2> QED BY <1>2 DEF Runs
<1>4. cycle' = [cycle EXCEPT ![c] = r]
  BY DEF EngineError
<1> HIDE DEF r
<1>5. cycle' \in [Cycles -> Runs] /\ cycle'[c] = r /\ \A d \in Cycles : d # c => cycle'[d] = cycle[d]
  BY <1>3, <1>4, Put
<1> QED BY <1>3, <1>5

\* A run that has ended.
LEMMA IdleIs ==
    ASSUME settings \in Settings
    PROVE  /\ Idle \in Runs /\ Idle.at = "idle" /\ Idle.bought = Nothing /\ Idle.next = 1
<1>1. Nothing \in [Symbols -> Nat]
  BY DEF Nothing
<1> QED BY <1>1, NoContextIs DEF Idle, Runs, Places, Reasons

\* A run that has ended remembers only its settings and what it bought.
LEMMA EndedIs ==
    ASSUME settings \in Settings, NEW r \in Runs
    PROVE  /\ Ended(r) \in Runs /\ Ended(r).at = "idle" /\ Ended(r).bought = r.bought
<1>1. r.settings \in Settings /\ r.bought \in [Symbols -> Nat]
  BY DEF Runs
<1>2. Idle \in Runs /\ Idle.at = "idle"
  BY IdleIs
<1> QED BY <1>1, <1>2 DEF Ended, Runs

\* The step that ends a run.
LEMMA EndPuts ==
    ASSUME Typed, NEW c \in Cycles, End(c)
    PROVE  /\ cycle' \in [Cycles -> Runs] /\ cycle'[c].at = "idle"
           /\ cycle'[c].bought = cycle[c].bought
           /\ \A d \in Cycles : d # c => cycle'[d] = cycle[d]
<1>1. cycle[c] \in Runs /\ settings \in Settings
  BY DEF Typed
<1> DEFINE r == Ended(cycle[c])
<1>2. r \in Runs /\ r.at = "idle" /\ r.bought = cycle[c].bought
  BY <1>1, EndedIs
<1>3. cycle' = [cycle EXCEPT ![c] = r]
  BY DEF End
<1> HIDE DEF r
<1>4. cycle' \in [Cycles -> Runs] /\ cycle'[c] = r /\ \A d \in Cycles : d # c => cycle'[d] = cycle[d]
  BY <1>2, <1>3, Put
<1> QED BY <1>2, <1>4

\* A cycle that ended, and one that failed, take on nothing.
LEMMA EndKeeps ==
    ASSUME CycleAssumption, IInv, NEW c \in Cycles, End(c), flags' = flags, UNCHANGED account,
           settings' = settings, starts' = starts, faults' \in 0 .. MaxFaults, faults <= faults'
    PROVE  IInv'
<1>1. Typed /\ Sounds /\ Sound(cycle[c], flags) /\ starts \in 0 .. MaxStarts /\ cycle[c] \in Runs
  BY DEF IInv, Sounds, Typed
<1>2. /\ cycle' \in [Cycles -> Runs] /\ cycle'[c].at = "idle"
      /\ cycle'[c].bought = cycle[c].bought
      /\ \A d \in Cycles : d # c => cycle'[d] = cycle[d]
  BY <1>1, EndPuts
<1>3. Sound(cycle'[c], flags)
  BY <1>1, <1>2 DEF Sound
<1>4. Room(cycle'[c]) = 0 /\ Room(cycle[c]) \in Nat
  BY <1>1, <1>2, RoomIs DEF Room
<1>5. \A s \in Symbols : ~Buys(cycle'[c], s)
  BY <1>2 DEF Buys
<1> QED BY <1>1, <1>2, <1>3, <1>4, <1>5, QuietStep

\* A cycle that failed takes on nothing.
LEMMA ErrorKeeps ==
    ASSUME CycleAssumption, IInv, NEW c \in Cycles, NEW why \in Reasons, EngineError(c, why),
           flags' = flags, UNCHANGED account,
           settings' = settings, starts' = starts, faults' \in 0 .. MaxFaults, faults <= faults'
    PROVE  IInv'
<1>1. Typed /\ Sounds /\ Sound(cycle[c], flags) /\ starts \in 0 .. MaxStarts /\ cycle[c] \in Runs
  BY DEF IInv, Sounds, Typed
<1>2. /\ cycle' \in [Cycles -> Runs]
      /\ \A d \in Cycles : d # c => cycle'[d] = cycle[d]
  BY <1>1, EngineErrorPuts
<1>3. cycle'[c].at = "engine_error" /\ cycle'[c].bought = cycle[c].bought
  BY <1>1, EngineErrorPuts
<1>4. Sound(cycle'[c], flags)
  BY <1>1, <1>3 DEF Sound
<1>5. Room(cycle'[c]) = 0 /\ Room(cycle[c]) \in Nat
  BY <1>1, <1>3, RoomIs DEF Room
<1>6. \A s \in Symbols : ~Buys(cycle'[c], s)
  BY <1>3 DEF Buys
<1> QED BY <1>1, <1>2, <1>4, <1>5, <1>6, QuietStep

\* So does one that goes on to a place where it has decided nothing.
LEMMA GotoKeeps ==
    ASSUME CycleAssumption, IInv, NEW c \in Cycles,
           NEW at \in {"count", "history", "engine_error"}, Goto(c, at),
           at = "count" => cycle[c].bought = Nothing /\ cycle[c].next = 1,
           flags \in Fenced => at # "count" /\ cycle[c].mode = "dry_run",
           flags' = flags, UNCHANGED account,
           settings' = settings, starts' = starts, faults' \in 0 .. MaxFaults, faults <= faults'
    PROVE  IInv'
<1>1. Typed /\ Sounds /\ Sound(cycle[c], flags) /\ starts \in 0 .. MaxStarts /\ cycle[c] \in Runs
      /\ at \in Places
  BY DEF IInv, Sounds, Typed, Places
<1>2. /\ cycle' \in [Cycles -> Runs]
      /\ cycle'[c] = Moved(cycle[c], at)
      /\ \A d \in Cycles : d # c => cycle'[d] = cycle[d]
  BY <1>1, GotoPuts
<1>3. cycle'[c].at = at /\ cycle'[c].bought = cycle[c].bought /\ cycle'[c].mode = cycle[c].mode
      /\ cycle'[c].next = cycle[c].next
  BY <1>1, <1>2, MovedIs
<1>4. Sound(cycle'[c], flags)
  BY <1>1, <1>3 DEF Sound
<1>5. Room(cycle'[c]) = 0 /\ Room(cycle[c]) \in Nat
  BY <1>1, <1>3, RoomIs DEF Room
<1>6. \A s \in Symbols : ~Buys(cycle'[c], s)
  BY <1>3 DEF Buys
<1> QED BY <1>1, <1>2, <1>4, <1>5, <1>6, QuietStep

-----------------------------------------------------------------------------
\* The steps of one cycle.
LEMMA StartKeeps ==
    ASSUME CycleAssumption, IInv, NEW c \in Cycles, Start(c)
    PROVE  IInv'
<1>1. Typed /\ Sounds /\ Sound(cycle[c], flags) /\ settings \in Settings /\ cycle[c] \in Runs
      /\ starts \in 0 .. MaxStarts /\ faults \in 0 .. MaxFaults
  BY DEF IInv, Sounds, Typed
<1>2. starts' \in 0 .. MaxStarts /\ MaxStarts \in Nat
  BY <1>1 DEF Start, CycleAssumption
<1> DEFINE r == [Idle EXCEPT !.at = "analyze"]
<1>3. r \in Runs /\ r.at = "analyze" /\ r.bought = Nothing /\ r.next = 1
  BY <1>1, IdleIs DEF Runs, Places
<1>4. cycle' = [cycle EXCEPT ![c] = r]
  BY DEF Start
<1> HIDE DEF r
<1>5. cycle' \in [Cycles -> Runs] /\ cycle'[c] = r /\ \A d \in Cycles : d # c => cycle'[d] = cycle[d]
  BY <1>1, <1>3, <1>4, Put
<1>6. Sound(cycle'[c], flags)
  BY <1>3, <1>5 DEF Sound, Nothing, Fenced
<1>7. Room(cycle'[c]) = 0 /\ Room(cycle[c]) \in Nat
  BY <1>1, <1>3, <1>5, RoomIs DEF Room
<1>8. \A s \in Symbols : ~Buys(cycle'[c], s)
  BY <1>3, <1>5 DEF Buys
<1>9. flags' = flags /\ settings' = settings /\ UNCHANGED account /\ faults' = faults
  BY DEF Start
<1> QED BY <1>1, <1>2, <1>5, <1>6, <1>7, <1>8, <1>9, QuietStep

\* The shortlist has been bought from by nobody.
LEMMA AnalyzeKeeps ==
    ASSUME CycleAssumption, IInv, NEW c \in Cycles, AnalyzeShortlist(c)
    PROVE  IInv'
<1>1. Typed /\ Sounds /\ Sound(cycle[c], flags) /\ cycle[c] \in Runs /\ cycle[c].at = "analyze"
      /\ starts \in 0 .. MaxStarts /\ faults \in 0 .. MaxFaults
  BY DEF IInv, Sounds, Typed, AnalyzeShortlist, Step
<1>2. flags' = flags /\ settings' = settings /\ starts' = starts /\ UNCHANGED account /\ faults' = faults
      /\ faults <= faults'
  BY <1>1 DEF AnalyzeShortlist, env
<1>3. CASE End(c)
  BY <1>1, <1>2, <1>3, EndKeeps
<1>4. ASSUME NEW l \in Shortlists, cycle' = [cycle EXCEPT ![c].at = "route", ![c].list = l]
      PROVE  IInv'
  <2> DEFINE r == [cycle[c] EXCEPT !.at = "route", !.list = l]
  <2>1. r \in Runs /\ r.at = "route" /\ r.bought = cycle[c].bought /\ r.next = cycle[c].next
    BY <1>1 DEF Runs, Places
  <2>2. cycle' = [cycle EXCEPT ![c] = r]
    BY <1>4
  <2> HIDE DEF r
  <2>3. cycle' \in [Cycles -> Runs] /\ cycle'[c] = r /\ \A d \in Cycles : d # c => cycle'[d] = cycle[d]
    BY <1>1, <2>1, <2>2, Put
  <2>4. Sound(cycle'[c], flags)
    BY <1>1, <2>1, <2>3 DEF Sound
  <2>5. Room(cycle'[c]) = 0 /\ Room(cycle[c]) \in Nat
    BY <1>1, <2>1, <2>3, RoomIs DEF Room
  <2>6. \A s \in Symbols : ~Buys(cycle'[c], s)
    BY <2>1, <2>3 DEF Buys
  <2> QED BY <1>1, <1>2, <2>3, <2>4, <2>5, <2>6, QuietStep
<1> QED BY <1>3, <1>4 DEF AnalyzeShortlist

\* A fenced process is routed to nothing that buys.
LEMMA RouteKeeps ==
    ASSUME CycleAssumption, IInv, NEW c \in Cycles, executeShortlistTradesRouted(c)
    PROVE  IInv'
<1>1. Typed /\ Sounds /\ Sound(cycle[c], flags) /\ cycle[c] \in Runs /\ cycle[c].at = "route"
      /\ starts \in 0 .. MaxStarts /\ faults \in 0 .. MaxFaults
  BY DEF IInv, Sounds, Typed, executeShortlistTradesRouted, Step
<1>2. flags' = flags /\ settings' = settings /\ starts' = starts /\ UNCHANGED account /\ faults' = faults
      /\ faults <= faults'
  BY <1>1 DEF executeShortlistTradesRouted, env
<1>3. ASSUME NEW why \in Reasons, EngineError(c, why) PROVE IInv'
  BY <1>1, <1>2, <1>3, ErrorKeeps
<1>4. ASSUME NEW at \in {"count", "ready"}, NEW m \in {"legacy", "paper", "shadow", "dry_run"},
             cycle' = [cycle EXCEPT ![c].at = at, ![c].mode = m],
             flags \in Fenced => at = "ready" /\ m = "dry_run"
      PROVE  IInv'
  <2> DEFINE r == [cycle[c] EXCEPT !.at = at, !.mode = m]
  <2>1. r \in Runs /\ r.at = at /\ r.bought = cycle[c].bought /\ r.next = cycle[c].next /\ r.mode = m
    BY <1>1 DEF Runs, Places
  <2>2. cycle' = [cycle EXCEPT ![c] = r]
    BY <1>4
  <2> HIDE DEF r
  <2>3. cycle' \in [Cycles -> Runs] /\ cycle'[c] = r /\ \A d \in Cycles : d # c => cycle'[d] = cycle[d]
    BY <1>1, <2>1, <2>2, Put
  <2>4. Sound(cycle'[c], flags)
    BY <1>1, <1>4, <2>1, <2>3 DEF Sound
  <2>5. Room(cycle'[c]) = 0 /\ Room(cycle[c]) \in Nat
    BY <1>1, <2>1, <2>3, RoomIs DEF Room
  <2>6. \A s \in Symbols : ~Buys(cycle'[c], s)
    BY <2>1, <2>3 DEF Buys
  <2> QED BY <1>1, <1>2, <2>3, <2>4, <2>5, <2>6, QuietStep
<1>5. flags \in Fenced => EngineMode(c) = flags
  BY DEF EngineMode, Fenced
<1>6. CASE EngineError(c, "authority") \/ EngineError(c, "fenced") \/ EngineError(c, "legacy_candidate")
  BY <1>3, <1>6 DEF Reasons
<1>7. CASE EngineMode(c) = "legacy" /\ cycle' = [cycle EXCEPT ![c].at = "count", ![c].mode = "legacy"]
  BY <1>4, <1>5, <1>7 DEF Fenced
<1>8. CASE EngineMode(c) = "shared" /\ cycle' = [cycle EXCEPT ![c].at = "ready", ![c].mode = "paper"]
  BY <1>4, <1>5, <1>8 DEF Fenced
<1>9. CASE EngineMode(c) = "shadow_compare" /\ cycle' = [cycle EXCEPT ![c].at = "ready", ![c].mode = "shadow"]
  BY <1>4, <1>5, <1>9 DEF Fenced
<1>10. CASE cycle' = [cycle EXCEPT ![c].at = "ready", ![c].mode = "dry_run"]
  BY <1>4, <1>10
<1> QED BY <1>6, <1>7, <1>8, <1>9, <1>10 DEF executeShortlistTradesRouted

\* The engine is ready, or the cycle fails.
LEMMA ReadyKeeps ==
    ASSUME CycleAssumption, IInv, NEW c \in Cycles, CheckReady(c)
    PROVE  IInv'
<1>1. Typed /\ Sounds /\ Sound(cycle[c], flags) /\ cycle[c].at = "ready"
      /\ starts \in 0 .. MaxStarts /\ faults \in 0 .. MaxFaults
  BY DEF IInv, Sounds, Typed, CheckReady, Step
<1>2. flags' = flags /\ settings' = settings /\ starts' = starts /\ UNCHANGED account /\ faults' = faults
      /\ faults <= faults'
  BY <1>1 DEF CheckReady, env
<1>3. cycle[c].bought = Nothing /\ cycle[c].next = 1 /\ (flags \in Fenced => cycle[c].mode = "dry_run")
  BY <1>1 DEF Sound
<1>4. CASE cycle' = [cycle EXCEPT ![c].at = "wallet", ![c].ctx.past = turnover]
  <2> DEFINE x == [cycle[c].ctx EXCEPT !.past = turnover]
             r == [cycle[c] EXCEPT !.at = "wallet", !.ctx = x]
  <2>1. cycle[c] \in Runs /\ turnover \in Nat /\ cycle[c].ctx \in Contexts
    BY <1>1 DEF Typed, Runs
  <2>2. x \in Contexts
    BY <2>1 DEF Contexts
  <2>3. cycle' = [cycle EXCEPT ![c] = r]
    BY <1>4
  <2> HIDE DEF x
  <2>4. r \in Runs /\ r.at = "wallet" /\ r.bought = cycle[c].bought /\ r.next = cycle[c].next /\ r.mode = cycle[c].mode
    BY <2>1, <2>2 DEF Runs, Places
  <2> HIDE DEF r
  <2>5. cycle' \in [Cycles -> Runs] /\ cycle'[c] = r /\ \A d \in Cycles : d # c => cycle'[d] = cycle[d]
    BY <1>1, <2>3, <2>4, Put
  <2>6. Sound(cycle'[c], flags)
    BY <1>1, <1>3, <2>4, <2>5 DEF Sound
  <2>7. Room(cycle'[c]) = 0 /\ Room(cycle[c]) \in Nat
    BY <1>1, <2>1, <2>4, <2>5, RoomIs DEF Room
  <2>8. \A s \in Symbols : ~Buys(cycle'[c], s)
    BY <2>4, <2>5 DEF Buys
  <2> QED BY <1>1, <1>2, <2>5, <2>6, <2>7, <2>8, QuietStep
<1>5. CASE EngineError(c, "not_ready")
  BY <1>1, <1>2, <1>5, ErrorKeeps DEF Reasons
<1> QED BY <1>4, <1>5 DEF CheckReady

\* A context that fails sends a shadow run on to the legacy engine.
LEMMA ContextErrorKeeps ==
    ASSUME CycleAssumption, IInv, NEW c \in Cycles, NEW why \in Reasons, ContextError(c, why),
           cycle[c].at \in {"wallet", "portfolio", "fills"},
           flags' = flags, UNCHANGED account, settings' = settings, starts' = starts, faults' = faults
    PROVE  IInv'
<1>1. Sound(cycle[c], flags) /\ faults \in 0 .. MaxFaults /\ faults <= faults
  BY DEF IInv, Sounds, Typed
<1>2. cycle[c].bought = Nothing /\ cycle[c].next = 1 /\ (flags \in Fenced => cycle[c].mode = "dry_run")
  BY <1>1 DEF Sound
<1>3. CASE cycle[c].mode = "shadow" /\ Goto(c, "count")
  BY <1>1, <1>2, <1>3, GotoKeeps
<1>4. CASE EngineError(c, why)
  BY <1>1, <1>4, ErrorKeeps
<1> QED BY <1>3, <1>4 DEF ContextError

\* The cash read bounds what will be approved.
LEMMA WalletKeeps ==
    ASSUME CycleAssumption, IInv, NEW c \in Cycles, ReadWallet(c)
    PROVE  IInv'
<1>1. Typed /\ Sounds /\ Sound(cycle[c], flags) /\ cycle[c] \in Runs /\ cycle[c].at = "wallet"
      /\ starts \in 0 .. MaxStarts /\ faults \in 0 .. MaxFaults /\ cash \in Nat
  BY DEF IInv, Sounds, Typed, ReadWallet, Step
<1>2. flags' = flags /\ settings' = settings /\ starts' = starts /\ UNCHANGED account /\ faults' = faults
      /\ faults <= faults'
  BY <1>1 DEF ReadWallet, env
<1>3. CASE ContextError(c, "price") \/ ContextError(c, "market_data")
  <2>1. "price" \in Reasons /\ "market_data" \in Reasons
    BY DEF Reasons
  <2> QED BY <1>1, <1>2, <1>3, <2>1, ContextErrorKeeps
<1>4. ASSUME NEW ok \in SUBSET Symbols,
             cycle' = [cycle EXCEPT ![c].at = "portfolio", ![c].ctx.cash = cash, ![c].ctx.gates = ok]
      PROVE  IInv'
  <2> DEFINE x == [cycle[c].ctx EXCEPT !.cash = cash, !.gates = ok]
             r == [cycle[c] EXCEPT !.at = "portfolio", !.ctx = x]
  <2>0. x \in Contexts
    BY <1>1 DEF Runs, Contexts
  <2>2. cycle' = [cycle EXCEPT ![c] = r]
    BY <1>4
  <2> HIDE DEF x
  <2>1. r \in Runs /\ r.at = "portfolio" /\ r.bought = cycle[c].bought /\ r.next = cycle[c].next /\ r.mode = cycle[c].mode
    BY <1>1, <2>0 DEF Runs, Places
  <2> HIDE DEF r
  <2>3. cycle' \in [Cycles -> Runs] /\ cycle'[c] = r /\ \A d \in Cycles : d # c => cycle'[d] = cycle[d]
    BY <1>1, <2>1, <2>2, Put
  <2>4. Sound(cycle'[c], flags)
    BY <1>1, <2>1, <2>3 DEF Sound
  <2>5. Room(cycle'[c]) = 0 /\ Room(cycle[c]) \in Nat
    BY <1>1, <2>1, <2>3, RoomIs DEF Room
  <2>6. \A s \in Symbols : ~Buys(cycle'[c], s)
    BY <2>1, <2>3 DEF Buys
  <2> QED BY <1>1, <1>2, <2>3, <2>4, <2>5, <2>6, QuietStep
<1> QED BY <1>3, <1>4 DEF ReadWallet

-----------------------------------------------------------------------------
\* Multiplication by a limit keeps the order.
LEMMA Scales == ASSUME NEW a \in Nat, NEW b \in Nat, NEW L \in Nat, a <= b PROVE a * L <= b * L
<1>1. PICK d \in Nat : b = a + d
  <2>1. b - a \in Nat /\ b = a + (b - a)
    OBVIOUS
  <2> QED BY <2>1
<1>2. (a + d) * L = a * L + d * L /\ d * L \in Nat /\ a * L \in Nat
  OBVIOUS
<1> QED BY <1>1, <1>2

\* The open positions are finitely many.
LEMMA OpenedIs ==
    ASSUME CycleAssumption, Typed
    PROVE  IsFiniteSet(Symbols) /\ IsFiniteSet(Opened) /\ Cardinality(Opened) \in Nat
<1>1. IsFiniteSet(Symbols)
  BY DEF CycleAssumption
<1>2. IsFiniteSet(Opened)
  BY <1>1, FS_Subset DEF Opened
<1> QED BY <1>1, <1>2, FS_CardinalityType

\* A step of one cycle that keeps the account. What it takes on beyond what it
\* had is paid by a failed read, fits below its limit, or is not open.
LEMMA TakingStep ==
    ASSUME CycleAssumption, IInv, NEW c \in Cycles, cycle' \in [Cycles -> Runs],
           \A d \in Cycles : d # c => cycle'[d] = cycle[d], Sound(cycle'[c], flags),
           flags' = flags, UNCHANGED account, settings' = settings, starts' = starts,
           faults' \in {faults, faults + 1}, faults' <= MaxFaults,
           \/ Room(cycle'[c]) <= Room(cycle[c])
           \/ Cardinality(Opened) + Room(cycle'[c]) <= Limit
           \/ faults' = faults + 1,
           \A s \in Symbols : Buys(cycle'[c], s) =>
               Buys(cycle[c], s) \/ s \notin Opened \/ faults' = faults + 1
    PROVE  IInv'
<1>1. Typed /\ Sounds /\ Budget /\ Layered /\ Fence
  BY DEF IInv
<1>2. /\ settings' = settings /\ flags' = flags /\ layers' = layers /\ cash' = cash
      /\ exits' = exits /\ turnover' = turnover /\ exited' = exited /\ Opened' = Opened
  BY DEF account, Opened
<1>3. faults \in Nat /\ faults' \in Nat /\ faults' \in 0 .. MaxFaults /\ faults <= faults'
  BY <1>1 DEF Typed, CycleAssumption
<1>4. Typed'
  BY <1>1, <1>2, <1>3 DEF Typed
<1>5. Sounds'
  BY <1>1, <1>2 DEF Sounds
<1>6. Budget'
  <2> DEFINE N == Cardinality(Cycles)
             O == Cardinality(Opened)
             r == Room(cycle[c])
             q == Room(cycle'[c])
             P == Promised
             L == Limit
             X == (N + faults) * L
             Y == (N + faults') * L
             Z == N * L
  <2>1. /\ L \in Nat /\ N \in Nat /\ P \in Int /\ r \in Nat /\ q \in Nat /\ O \in Nat
        /\ Promised' = P + (q - r) /\ P - r + L <= Z
    BY <1>1, PromisedMoves, OpenedIs
  <2>2. O + P <= X
    BY <1>1 DEF Budget
  <2>3. q <= L
    <3>1. cycle'[c] \in Runs
      OBVIOUS
    <3> QED BY <3>1, RoomIs
  <2>4. X \in Int /\ Y \in Int /\ Z \in Int /\ X <= Y /\ Z <= Y /\ (faults' = faults + 1 => Y = X + L)
    <3>1. N \in Nat /\ L \in Nat /\ faults \in Nat /\ faults' \in Nat /\ faults <= faults'
          /\ N + faults \in Nat /\ N + faults' \in Nat /\ N + faults <= N + faults' /\ N <= N + faults'
      BY <1>3, <2>1
    <3> HIDE DEF N, L
    <3>2. X \in Int /\ Y \in Int /\ Z \in Int
      BY <3>1
    <3>3. (N + faults) * L <= (N + faults') * L
      BY <3>1, Scales
    <3>4. N * L <= (N + faults') * L
      BY <3>1, Scales
    <3>5. ((N + faults) + 1) * L = (N + faults) * L + L
      BY <3>1
    <3>6. faults' = faults + 1 => N + faults' = (N + faults) + 1
      BY <3>1
    <3> QED BY <3>2, <3>3, <3>4, <3>5, <3>6
  <2>5. q <= r \/ O + q <= L \/ faults' = faults + 1
    OBVIOUS
  <2>6. O + (P + (q - r)) <= Y
    <3> HIDE DEF N, O, r, q, P, L, X, Y, Z
    <3> QED BY <2>1, <2>2, <2>3, <2>4, <2>5
  <2>7. O + Promised' <= Y
    BY <2>1, <2>6
  <2> QED BY <1>2, <2>7 DEF Budget
<1>7. Layered'
  <2>1. ASSUME NEW s \in Symbols
        PROVE  layers[s] + Cardinality(Buyers(s)') <= Cardinality(Cycles) + faults'
    <3>1. /\ Cardinality(Buyers(s)) \in Nat /\ Cardinality(Buyers(s)') \in Nat
          /\ Cardinality(Cycles) \in Nat /\ Cardinality(Buyers(s)') <= Cardinality(Cycles)
          /\ Cardinality(Buyers(s)') <= Cardinality(Buyers(s)) + 1
          /\ (Buys(cycle'[c], s) => Buys(cycle[c], s)) =>
                Cardinality(Buyers(s)') <= Cardinality(Buyers(s))
      BY BuyersMove
    <3>2. layers[s] + Cardinality(Buyers(s)) <= Cardinality(Cycles) + faults
      BY <1>1 DEF Layered
    <3>3. layers[s] \in Nat
      BY <1>1 DEF Typed
    <3>4. CASE Buys(cycle'[c], s) => Buys(cycle[c], s)
      BY <1>3, <3>1, <3>2, <3>3, <3>4
    <3>5. CASE s \notin Opened
      <4>1. layers[s] = 0
        BY <3>3, <3>5 DEF Opened
      <4> QED BY <1>3, <3>1, <4>1
    <3>6. CASE faults' = faults + 1
      BY <1>3, <3>1, <3>2, <3>3, <3>6
    <3> QED BY <3>4, <3>5, <3>6
  <2> QED BY <1>2, <2>1 DEF Layered
<1>8. Fence'
  BY <1>1, <1>2 DEF Fence
<1> QED BY <1>4, <1>5, <1>6, <1>7, <1>8 DEF IInv

\* A step of one cycle that books what it had decided to buy.
LEMMA BookStep ==
    ASSUME CycleAssumption, IInv, NEW c \in Cycles, cycle' \in [Cycles -> Runs],
           \A d \in Cycles : d # c => cycle'[d] = cycle[d], Sound(cycle'[c], flags),
           NEW S \in SUBSET Symbols, Book(S), Cardinality(S) <= cash,
           Cardinality(S) + Room(cycle'[c]) <= Room(cycle[c]),
           \A s \in S : Buys(cycle[c], s), \A s \in Symbols : ~Buys(cycle'[c], s),
           flags \notin Fenced,
           flags' = flags, settings' = settings, starts' = starts,
           faults' \in {faults, faults + 1}, faults' <= MaxFaults
    PROVE  IInv'
<1>1. Typed /\ Sounds /\ Budget /\ Layered /\ Fence
  BY DEF IInv
<1>2. /\ layers' = [s \in Symbols |-> IF s \in S THEN layers[s] + 1 ELSE layers[s]]
      /\ cash' = cash - Cardinality(S) /\ turnover' = turnover + Cardinality(S)
      /\ exits' = exits /\ exited' = exited
  BY DEF Book
<1>3. faults \in Nat /\ faults' \in Nat /\ faults' \in 0 .. MaxFaults /\ faults <= faults'
  BY <1>1 DEF Typed, CycleAssumption
<1>4. layers \in [Symbols -> Nat] /\ layers' \in [Symbols -> Nat]
  BY <1>1, <1>2 DEF Typed
<1>5. Opened \subseteq Opened' /\ Opened' \subseteq Opened \cup S
  BY <1>2, <1>4 DEF Opened
<1>6. IsFiniteSet(S) /\ Cardinality(S) \in Nat /\ IsFiniteSet(Opened) /\ Cardinality(Opened) \in Nat
  BY <1>1, OpenedIs, FS_Subset, FS_CardinalityType
<1>7. Cardinality(Opened') \in Nat /\ Cardinality(Opened') <= Cardinality(Opened) + Cardinality(S)
  <2> DEFINE A == Opened
             B == Opened'
  <2>1. IsFiniteSet(A) /\ IsFiniteSet(S) /\ B \subseteq A \cup S
    BY <1>5, <1>6
  <2> HIDE DEF A, B
  <2>2. IsFiniteSet(A \cup S) /\ Cardinality(A \cup S) = Cardinality(A) + Cardinality(S) - Cardinality(A \cap S)
    BY <2>1, FS_Union
  <2>3. Cardinality(A \cap S) \in Nat /\ Cardinality(A) \in Nat /\ Cardinality(S) \in Nat
    BY <2>1, FS_Intersection, FS_CardinalityType
  <2>4. IsFiniteSet(B) /\ Cardinality(B) <= Cardinality(A \cup S)
    BY <2>1, <2>2, FS_Subset
  <2>5. Cardinality(B) \in Nat
    BY <2>4, FS_CardinalityType
  <2>6. Cardinality(B) \in Nat /\ Cardinality(B) <= Cardinality(A) + Cardinality(S)
    BY <2>2, <2>3, <2>4, <2>5
  <2> QED BY <2>6 DEF A, B
<1>8. Typed'
  <2>1. cash' \in Nat /\ turnover' \in Nat
    BY <1>1, <1>2, <1>6 DEF Typed
  <2>2. exits' \subseteq Opened'
    BY <1>1, <1>2, <1>5 DEF Typed
  <2> QED BY <1>1, <1>2, <1>3, <1>4, <2>1, <2>2 DEF Typed
<1>9. Sounds'
  BY <1>1 DEF Sounds
<1>10. Budget'
  <2> DEFINE N == Cardinality(Cycles)
             r == Room(cycle[c])
             q == Room(cycle'[c])
             P == Promised
             L == Limit
             X == (N + faults) * L
             Y == (N + faults') * L
             n == Cardinality(S)
             O == Cardinality(Opened)
             U == Cardinality(Opened')
  <2>1. L \in Nat /\ N \in Nat /\ P \in Int /\ r \in Nat /\ q \in Nat /\ Promised' = P + (q - r)
    BY <1>1, PromisedMoves
  <2>2. O + P <= X
    BY <1>1 DEF Budget
  <2>3. X \in Int /\ Y \in Int /\ X <= Y
    <3>1. N \in Nat /\ L \in Nat /\ faults \in Nat /\ faults' \in Nat /\ faults <= faults'
          /\ N + faults \in Nat /\ N + faults' \in Nat /\ N + faults <= N + faults' /\ N <= N + faults'
      BY <1>3, <2>1
    <3> HIDE DEF N, L
    <3>2. X \in Int /\ Y \in Int
      BY <3>1
    <3>3. (N + faults) * L <= (N + faults') * L
      BY <3>1, Scales
    <3> QED BY <3>2, <3>3
  <2>4. n \in Nat /\ O \in Nat /\ U \in Nat /\ U <= O + n /\ n + q <= r
    BY <1>6, <1>7
  <2>5. U + (P + (q - r)) <= Y
    <3> HIDE DEF N, r, q, P, L, X, Y, n, O, U
    <3> QED BY <2>1, <2>2, <2>3, <2>4
  <2>6. U + Promised' <= Y
    BY <2>1, <2>5
  <2> QED BY <2>6 DEF Budget
<1>11. Layered'
  <2>1. ASSUME NEW s \in Symbols
        PROVE  layers'[s] + Cardinality(Buyers(s)') <= Cardinality(Cycles) + faults'
    <3>1. /\ Cardinality(Buyers(s)) \in Nat /\ Cardinality(Buyers(s)') \in Nat
          /\ Cardinality(Cycles) \in Nat
          /\ Cardinality(Buyers(s)') <= Cardinality(Buyers(s))
          /\ Buys(cycle[c], s) => Cardinality(Buyers(s)') = Cardinality(Buyers(s)) - 1
      BY BuyersMove
    <3>2. layers[s] + Cardinality(Buyers(s)) <= Cardinality(Cycles) + faults
      BY <1>1 DEF Layered
    <3>3. layers[s] \in Nat /\ layers'[s] = IF s \in S THEN layers[s] + 1 ELSE layers[s]
      BY <1>2, <1>4
    <3> QED BY <1>3, <3>1, <3>2, <3>3
  <2> QED BY <2>1 DEF Layered
<1>12. Fence'
  BY DEF Fence
<1> QED BY <1>8, <1>9, <1>10, <1>11, <1>12 DEF IInv

-----------------------------------------------------------------------------
\* A shortlist names each of its symbols once.
LEMMA ListIs ==
    ASSUME CycleAssumption, NEW r \in Runs
    PROVE  /\ Len(r.list) \in Nat
           /\ \A k \in 1 .. Len(r.list) : r.list[k].symbol \in Symbols
           /\ \A j, k \in 1 .. Len(r.list) : r.list[j].symbol = r.list[k].symbol => j = k
           /\ r.list # <<>> => 1 \in 1 .. Len(r.list)
<1> DEFINE T == [symbol : Symbols, error : BOOLEAN, qualifies : BOOLEAN]
           l == r.list
<1>1. l \in Shortlists \cup {<<>>}
  BY DEF Runs
<1>2. CASE l = <<>>
  BY <1>2
<1>3. CASE l \in Shortlists
  <2>1. l \in Seq(T) /\ \A j, k \in 1 .. Len(l) : l[j].symbol = l[k].symbol => j = k
    BY <1>3 DEF CycleAssumption
  <2> HIDE DEF T, l
  <2>2. Len(l) \in Nat /\ (\A k \in 1 .. Len(l) : l[k] \in T) /\ (l # <<>> => 1 \in 1 .. Len(l))
    BY <2>1
  <2>3. \A k \in 1 .. Len(l) : l[k].symbol \in Symbols
    BY <2>2 DEF T
  <2> QED BY <2>1, <2>2, <2>3 DEF l
<1> QED BY <1>1, <1>2, <1>3

\* The count is of the positions open now, unless the read failed: then the failure pays.
LEMMA CountKeeps ==
    ASSUME CycleAssumption, IInv, NEW c \in Cycles, CountOpenPositions(c)
    PROVE  IInv'
<1>1. Typed /\ Sounds /\ Sound(cycle[c], flags) /\ cycle[c] \in Runs /\ cycle[c].at = "count"
      /\ faults \in 0 .. MaxFaults /\ MaxFaults \in Nat
  BY DEF IInv, Sounds, Typed, CountOpenPositions, Step, CycleAssumption
<1>2. flags' = flags /\ settings' = settings /\ starts' = starts /\ UNCHANGED account
      /\ faults' \in {faults, faults + 1} /\ faults' <= MaxFaults /\ faults <= faults' /\ faults' \in 0 .. MaxFaults
  BY <1>1 DEF CountOpenPositions, env
<1>3. flags \notin Fenced /\ cycle[c].bought = Nothing /\ cycle[c].next = 1
  BY <1>1 DEF Sound
<1>4. CASE End(c)
  BY <1>1, <1>2, <1>4, EndKeeps
<1> DEFINE q(n) == [cycle EXCEPT ![c].at = "consider", ![c].count = n, ![c].opened = 0]
<1>5. ASSUME NEW n \in Nat, n = Cardinality(Opened) \/ faults' = faults + 1, cycle[c].list # <<>>,
             cycle' = q(n)
      PROVE  IInv'
  <2> DEFINE r == [cycle[c] EXCEPT !.at = "consider", !.count = n, !.opened = 0]
  <2>1. /\ r \in Runs /\ r.at = "consider" /\ r.bought = Nothing /\ r.next = 1 /\ r.count = n /\ r.opened = 0
        /\ r.list = cycle[c].list /\ r.settings = cycle[c].settings
    BY <1>1, <1>3 DEF Runs, Places
  <2>2. cycle' = [cycle EXCEPT ![c] = r]
    BY <1>5
  <2> HIDE DEF r
  <2>3. cycle' \in [Cycles -> Runs] /\ cycle'[c] = r /\ \A d \in Cycles : d # c => cycle'[d] = cycle[d]
    BY <1>1, <2>1, <2>2, Put
  <2>4. Sound(r, flags)
    <3>1. 1 \in 1 .. Len(r.list) /\ \A k \in 1 .. Len(r.list) : r.list[k].symbol \in Symbols
      BY <1>1, <1>5, <2>1, ListIs
    <3>2. \A k \in 1 .. Len(r.list) : r.bought[r.list[k].symbol] = 0
      BY <2>1, <3>1 DEF Nothing
    <3>3. \A s \in Symbols : r.bought[s] = 0
      BY <2>1 DEF Nothing
    <3> QED BY <1>3, <2>1, <3>1, <3>2, <3>3 DEF Sound
  <2>5. Limit \in Nat /\ r.settings.max \in Nat /\ r.settings.max <= Limit
    BY <1>1, <2>1, LimitIs DEF Runs
  <2>6. Room(r) = IF n < r.settings.max THEN r.settings.max - n ELSE 0
    BY <2>1, <2>5 DEF Room
  <2>7. Room(cycle[c]) = 0
    BY <1>1 DEF Room
  <2>8. \/ Room(r) <= Room(cycle[c]) \/ Cardinality(Opened) + Room(r) <= Limit \/ faults' = faults + 1
    BY <1>5, <2>5, <2>6, <2>7
  <2>9. \A s \in Symbols : ~Buys(r, s)
    BY <2>1 DEF Buys
  <2> QED BY <1>2, <2>3, <2>4, <2>8, <2>9, TakingStep
<1>6. Cardinality(Opened) \in Nat
  BY <1>1, OpenedIs
<1>7. CASE cycle[c].list = <<>>
  BY <1>4, <1>7 DEF CountOpenPositions
<1>8. CASE cycle[c].list # <<>>
  <2>1. PICK n \in {0, Cardinality(Opened)} :
           /\ cycle' = q(n)
           /\ n = Cardinality(Opened) \/ faults' = faults + 1
    BY <1>8 DEF CountOpenPositions
  <2>2. n \in Nat /\ (n = Cardinality(Opened) \/ faults' = faults + 1)
    BY <1>6, <2>1
  <2> HIDE DEF q
  <2> QED BY <1>5, <1>8, <2>1, <2>2
<1> QED BY <1>7, <1>8

\* The next candidate of the loop is one that was not bought.
LEMMA AdvancePuts ==
    ASSUME CycleAssumption, Typed, Sounds, NEW c \in Cycles, NEW more \in {0, 1}, Advance(c, more),
           cycle[c].at \in {"consider", "buy"}
    PROVE  /\ cycle' \in [Cycles -> Runs] /\ \A d \in Cycles : d # c => cycle'[d] = cycle[d]
           /\ Sound(cycle'[c], flags) /\ flags \notin Fenced
           /\ \A s \in Symbols : ~Buys(cycle'[c], s)
           /\ Room(cycle[c]) \in Nat /\ Room(cycle'[c]) \in Nat
           /\ cycle[c].count + cycle[c].opened < cycle[c].settings.max =>
                 more + Room(cycle'[c]) <= Room(cycle[c])
           /\ more = 0 => Room(cycle'[c]) <= Room(cycle[c])
<1> DEFINE o == cycle[c]
           k == o.next
           s == o.list[k].symbol
           r == [o EXCEPT !.at = "consider", !.next = k + 1, !.opened = @ + more, !.bought[s] = @ + more]
           e == Ended(r)
           q == IF r.next > Len(r.list) THEN e ELSE r
<1>1. o \in Runs /\ Sound(o, flags) /\ settings \in Settings
  BY DEF Typed, Sounds
<1>2. /\ Len(o.list) \in Nat /\ k \in 1 .. Len(o.list) /\ s \in Symbols
      /\ \A j \in 1 .. Len(o.list) : o.list[j].symbol \in Symbols
      /\ \A i, j \in 1 .. Len(o.list) : o.list[i].symbol = o.list[j].symbol => i = j
      /\ \A j \in k .. Len(o.list) : o.bought[o.list[j].symbol] = 0
      /\ \A x \in Symbols : o.bought[x] <= 1
      /\ flags \notin Fenced
  BY <1>1, ListIs DEF Sound
<1>3. o.bought \in [Symbols -> Nat] /\ o.count \in Nat /\ o.opened \in Nat /\ o.settings \in Settings
  BY <1>1 DEF Runs
<1>4. /\ r \in Runs /\ r.at = "consider" /\ r.next = k + 1 /\ r.opened = o.opened + more /\ r.count = o.count
      /\ r.settings = o.settings /\ r.list = o.list /\ r.bought = [o.bought EXCEPT ![s] = @ + more]
  <2> DEFINE bb == [o.bought EXCEPT ![s] = @ + more]
  <2>1. bb \in [Symbols -> Nat]
    <3> DEFINE f == o.bought
    <3>1. f \in [Symbols -> Nat] /\ s \in Symbols /\ more \in Nat
      BY <1>2, <1>3
    <3> HIDE DEF f, s
    <3>2. f[s] + more \in Nat
      BY <3>1
    <3>3. [f EXCEPT ![s] = @ + more] \in [Symbols -> Nat]
      BY <3>1, <3>2
    <3> QED BY <3>3 DEF f, s
  <2>2. k + 1 \in Nat \ {0} /\ o.opened + more \in Nat
    BY <1>1, <1>3 DEF Runs
  <2>3. r = [o EXCEPT !.at = "consider", !.next = k + 1, !.opened = @ + more, !.bought = bb]
    BY <1>1 DEF Runs
  <2> HIDE DEF bb, r, s, k
  <2>4. /\ r \in Runs /\ r.at = "consider" /\ r.next = k + 1 /\ r.opened = o.opened + more /\ r.count = o.count
        /\ r.settings = o.settings /\ r.list = o.list /\ r.bought = bb
    BY <1>1, <2>1, <2>2, <2>3 DEF Runs, Places
  <2> QED BY <2>4 DEF bb
<1>5. e \in Runs /\ e.at = "idle" /\ e.bought = r.bought
  <2> HIDE DEF r
  <2> QED BY <1>1, <1>4, EndedIs
<1>6. \A x \in Symbols : r.bought[x] = IF x = s THEN more ELSE o.bought[x]
  <2>1. o.bought[s] = 0
    BY <1>2
  <2> HIDE DEF r, s, o
  <2> QED BY <1>2, <1>3, <1>4, <2>1
<1>7. \A x \in Symbols : r.bought[x] <= 1
  <2> HIDE DEF r, s, o
  <2> QED BY <1>2, <1>6
<1>8. Sound(e, flags)
  <2> HIDE DEF e, r
  <2> QED BY <1>2, <1>5, <1>7 DEF Sound
<1>9. ASSUME ~(r.next > Len(r.list)) PROVE Sound(r, flags)
  <2> HIDE DEF r, s
  <2>1. r.next \in 1 .. Len(r.list)
    BY <1>2, <1>4, <1>9
  <2>2. ASSUME NEW j \in r.next .. Len(r.list) PROVE r.bought[r.list[j].symbol] = 0
    <3>1. j \in k .. Len(o.list) /\ j \in 1 .. Len(o.list) /\ j # k
      BY <1>2, <1>4
    <3>2. o.list[j].symbol # s /\ o.list[j].symbol \in Symbols
      BY <1>2, <3>1 DEF s
    <3> QED BY <1>2, <1>4, <1>6, <3>1, <3>2
  <2> QED BY <1>2, <1>4, <1>7, <2>1, <2>2 DEF Sound
<1>10. Limit \in Nat /\ o.settings.max \in Nat /\ Room(o) \in Nat
  BY <1>1, <1>3, LimitIs, RoomIs
<1>11. Room(e) = 0
  <2> HIDE DEF e
  <2> QED BY <1>5 DEF Room
<1>12. Room(r) = IF o.count + (o.opened + more) < o.settings.max THEN o.settings.max - (o.count + (o.opened + more)) ELSE 0
  <2> HIDE DEF r
  <2> QED BY <1>4 DEF Room
<1>13. Room(o) = IF o.count + o.opened < o.settings.max THEN o.settings.max - (o.count + o.opened) ELSE 0
  BY DEF Room
<1>14. /\ Room(r) \in Nat /\ (o.count + o.opened < o.settings.max => more + Room(r) <= Room(o))
       /\ (more = 0 => Room(r) <= Room(o))
       /\ (o.count + o.opened < o.settings.max => more <= Room(o))
  <2> HIDE DEF r, o
  <2> QED BY <1>3, <1>10, <1>12, <1>13
<1>15. cycle' = [cycle EXCEPT ![c] = q]
  BY DEF Advance
<1>16. q \in Runs /\ Sound(q, flags) /\ (q = e \/ q = r)
  <2> HIDE DEF e, r
  <2> QED BY <1>4, <1>5, <1>8, <1>9
<1>17. \A x \in Symbols : ~Buys(q, x)
  <2> HIDE DEF e, r, q
  <2> QED BY <1>4, <1>5, <1>16 DEF Buys
<1>18. cycle' \in [Cycles -> Runs] /\ cycle'[c] = q /\ \A d \in Cycles : d # c => cycle'[d] = cycle[d]
  <2> HIDE DEF q
  <2> QED BY <1>15, <1>16, Put
<1>19. /\ Room(q) \in Nat /\ (o.count + o.opened < o.settings.max => more + Room(q) <= Room(o))
       /\ (more = 0 => Room(q) <= Room(o))
  <2> HIDE DEF q, e, r
  <2> QED BY <1>10, <1>11, <1>14, <1>16
<1> HIDE DEF q
<1> QED BY <1>2, <1>10, <1>16, <1>17, <1>18, <1>19

\* A buy is decided below the limit for a symbol that is not open, unless the lookup
\* failed.
LEMMA ConsiderKeeps ==
    ASSUME CycleAssumption, IInv, NEW c \in Cycles, Consider(c)
    PROVE  IInv'
<1> DEFINE o == cycle[c]
           x == o.list[o.next].symbol
<1>1. Typed /\ Sounds /\ Sound(o, flags) /\ o \in Runs /\ o.at = "consider"
      /\ faults \in 0 .. MaxFaults /\ MaxFaults \in Nat
  BY DEF IInv, Sounds, Typed, Consider, Step, CycleAssumption
<1>2. flags' = flags /\ settings' = settings /\ starts' = starts /\ UNCHANGED account
      /\ faults' \in {faults, faults + 1} /\ faults' <= MaxFaults
  BY <1>1 DEF Consider, env
<1>3. CASE Advance(c, 0)
  <2>1. /\ cycle' \in [Cycles -> Runs] /\ \A d \in Cycles : d # c => cycle'[d] = cycle[d]
        /\ Sound(cycle'[c], flags) /\ \A s \in Symbols : ~Buys(cycle'[c], s)
        /\ Room(cycle'[c]) <= Room(cycle[c])
    BY <1>1, <1>3, AdvancePuts
  <2> QED BY <1>2, <2>1, TakingStep
<1>4. CASE /\ Goto(c, "buy") /\ o.count + o.opened < o.settings.max
           /\ x \notin Opened \/ faults' = faults + 1
  <2>1. "buy" \in Places
    BY DEF Places
  <2>2. /\ cycle' \in [Cycles -> Runs] /\ cycle'[c] = Moved(o, "buy")
        /\ \A d \in Cycles : d # c => cycle'[d] = cycle[d]
    BY <1>1, <1>4, <2>1, GotoPuts
  <2> DEFINE r == cycle'[c]
  <2>3. /\ r.at = "buy" /\ r.next = o.next /\ r.list = o.list /\ r.bought = o.bought /\ r.count = o.count
        /\ r.opened = o.opened /\ r.settings = o.settings
    BY <1>1, <2>1, <2>2, MovedIs
  <2>4. Sound(r, flags)
    <3> HIDE DEF r, o
    <3> QED BY <1>1, <1>4, <2>3 DEF Sound, o
  <2>5. Room(r) = Room(o)
    <3> HIDE DEF r, o
    <3> QED BY <1>1, <2>3 DEF Room
  <2>6. Room(o) \in Nat
    BY <1>1, RoomIs
  <2>7. \A s \in Symbols : Buys(r, s) => s \notin Opened \/ faults' = faults + 1
    <3> HIDE DEF r, o
    <3> QED BY <1>4, <2>3 DEF Buys, o
  <2> QED BY <1>2, <2>2, <2>4, <2>5, <2>6, <2>7, TakingStep
<1>5. \/ Advance(c, 0)
      \/ /\ Goto(c, "buy") /\ o.count + o.opened < o.settings.max
         /\ x \notin Opened \/ faults' = faults + 1
  BY DEF Consider, classifyEntryDecision
<1> QED BY <1>3, <1>4, <1>5

\* A buy of the legacy engine is one it had decided.
LEMMA BuyKeeps ==
    ASSUME CycleAssumption, IInv, NEW c \in Cycles, executeBuyFromTrendingWithContext(c)
    PROVE  IInv'
<1> DEFINE o == cycle[c]
           x == o.list[o.next].symbol
<1>1. Typed /\ Sounds /\ Sound(o, flags) /\ o \in Runs /\ o.at = "buy"
      /\ faults \in 0 .. MaxFaults /\ MaxFaults \in Nat
  BY DEF IInv, Sounds, Typed, executeBuyFromTrendingWithContext, Step, CycleAssumption
<1>2. flags' = flags /\ settings' = settings /\ starts' = starts
      /\ faults' \in {faults, faults + 1} /\ faults' <= MaxFaults
  BY <1>1 DEF executeBuyFromTrendingWithContext, env
<1>3. CASE Advance(c, 0) /\ UNCHANGED account
  <2>1. /\ cycle' \in [Cycles -> Runs] /\ \A d \in Cycles : d # c => cycle'[d] = cycle[d]
        /\ Sound(cycle'[c], flags) /\ \A s \in Symbols : ~Buys(cycle'[c], s)
        /\ Room(cycle'[c]) <= Room(cycle[c])
    BY <1>1, <1>3, AdvancePuts
  <2> QED BY <1>2, <1>3, <2>1, TakingStep
<1>4. CASE cash > 0 /\ Book({x}) /\ Advance(c, 1)
  <2>1. o.count + o.opened < o.settings.max
    BY <1>1 DEF Sound
  <2>2. /\ cycle' \in [Cycles -> Runs] /\ \A d \in Cycles : d # c => cycle'[d] = cycle[d]
        /\ Sound(cycle'[c], flags) /\ (\A s \in Symbols : ~Buys(cycle'[c], s))
        /\ 1 + Room(cycle'[c]) <= Room(cycle[c]) /\ flags \notin Fenced
    BY <1>1, <1>4, <2>1, AdvancePuts
  <2>3. x \in Symbols
    BY <1>1, ListIs DEF Sound
  <2>4. Cardinality({x}) = 1 /\ cash \in Nat
    BY <1>1, FS_Singleton DEF Typed
  <2>5. \A s \in {x} : Buys(cycle[c], s)
    BY <1>1 DEF Buys
  <2> DEFINE S == {x}
  <2>6. S \in SUBSET Symbols /\ Book(S) /\ Cardinality(S) <= cash
        /\ Cardinality(S) + Room(cycle'[c]) <= Room(cycle[c]) /\ \A s \in S : Buys(cycle[c], s)
    BY <1>4, <2>2, <2>3, <2>4, <2>5
  <2> HIDE DEF S
  <2> QED BY <1>2, <2>2, <2>6, BookStep
<1> QED BY <1>3, <1>4 DEF executeBuyFromTrendingWithContext

\* A run that fails before the broker was reached may go on to the legacy engine.
LEMMA RunFailsKeeps ==
    ASSUME CycleAssumption, IInv, NEW c \in Cycles, NEW stage \in Reasons, RunFails(c, stage),
           \/ cycle[c].at \in {"fills", "commit"}
           \/ cycle[c].at = "history" /\ stage = "history",
           cycle[c].mode = "paper",
           flags' = flags, UNCHANGED account,
           settings' = settings, starts' = starts, faults' \in 0 .. MaxFaults, faults <= faults'
    PROVE  IInv'
<1>1. Sound(cycle[c], flags)
  BY DEF IInv, Sounds
<1>2. CASE EngineError(c, stage)
  BY <1>1, <1>2, ErrorKeeps
<1>3. CASE allowLegacyEngineFallback(c, stage) /\ Goto(c, "count")
  <2>1. stage # "history"
    BY <1>3 DEF allowLegacyEngineFallback
  <2>2. cycle[c].bought = Nothing /\ cycle[c].next = 1 /\ flags \notin Fenced
    BY <1>1, <2>1 DEF Sound
  <2> QED BY <1>3, <2>2, GotoKeeps
<1> QED BY <1>2, <1>3 DEF RunFails

\* The positions that are read bound what this run may still open, and it may buy
\* only what is not among them.
LEMMA PositionsKeep ==
    ASSUME CycleAssumption, IInv, NEW c \in Cycles, ReadPositions(c)
    PROVE  IInv'
<1> DEFINE o == cycle[c]
<1>1. Typed /\ Sounds /\ Sound(o, flags) /\ o \in Runs /\ o.at = "portfolio"
      /\ faults \in 0 .. MaxFaults /\ MaxFaults \in Nat
  BY DEF IInv, Sounds, Typed, ReadPositions, Step, CycleAssumption
<1>2. flags' = flags /\ settings' = settings /\ starts' = starts /\ UNCHANGED account
      /\ faults' = faults /\ faults <= faults' /\ faults' <= MaxFaults /\ faults' \in 0 .. MaxFaults
  BY <1>1 DEF ReadPositions, env
<1>3. CASE ContextError(c, "projection")
  BY <1>1, <1>2, <1>3, ContextErrorKeeps DEF Reasons
<1>4. CASE cycle' = [cycle EXCEPT ![c].at = "fills", ![c].ctx.open = Opened,
                                  ![c].ctx.held = SumFunctionOnSet(layers, Symbols)]
  <2> DEFINE worth == SumFunctionOnSet(layers, Symbols)
             x == [o.ctx EXCEPT !.open = Opened, !.held = worth]
             r == [o EXCEPT !.at = "fills", !.ctx = x]
  <2>1. IsFiniteSet(Symbols) /\ IsFiniteSet(Opened) /\ Cardinality(Opened) \in Nat /\ Opened \subseteq Symbols
    BY <1>1, OpenedIs DEF Opened
  <2>2. \A s \in Symbols : layers[s] \in Int
    BY <1>1 DEF Typed
  <2>3. worth \in Int
    BY <2>1, <2>2, SumType
  <2> HIDE DEF worth
  <2>4. x \in Contexts /\ x.open = Opened
    BY <1>1, <2>1, <2>3 DEF Runs, Contexts
  <2>5. cycle' = [cycle EXCEPT ![c] = r]
    BY <1>4 DEF worth
  <2> HIDE DEF x
  <2>6. /\ r \in Runs /\ r.at = "fills" /\ r.bought = o.bought /\ r.next = o.next /\ r.mode = o.mode
        /\ r.settings = o.settings /\ r.ctx.open = Opened
    BY <1>1, <2>4 DEF Runs, Places
  <2> HIDE DEF r
  <2>7. cycle' \in [Cycles -> Runs] /\ cycle'[c] = r /\ \A d \in Cycles : d # c => cycle'[d] = cycle[d]
    BY <1>1, <2>5, <2>6, Put
  <2>8. Sound(r, flags)
    BY <1>1, <2>1, <2>6 DEF Sound
  <2>9. Limit \in Nat /\ o.settings.max \in Nat /\ o.settings.max <= Limit
    <3>1. o.settings \in Settings
      BY <1>1 DEF Runs
    <3> QED BY <3>1, LimitIs
  <2>10. Room(o) = 0 /\ Room(r) = IF Cardinality(Opened) < o.settings.max
                                  THEN o.settings.max - Cardinality(Opened) ELSE 0
    BY <1>1, <2>6 DEF Room
  <2>11. Room(r) <= Room(o) \/ Cardinality(Opened) + Room(r) <= Limit
    BY <2>1, <2>9, <2>10
  <2>12. \A s \in Symbols : Buys(r, s) => s \notin Opened
    BY <2>6 DEF Buys
  <2> QED BY <1>2, <2>7, <2>8, <2>11, <2>12, TakingStep
<1> QED BY <1>3, <1>4 DEF ReadPositions

\* The risk engine approves what fits: see ApprovedFits.
LEMMA DecideKeeps ==
    ASSUME CycleAssumption, IInv, NEW c \in Cycles, DecideAndEvaluate(c)
    PROVE  IInv'
<1> DEFINE o == cycle[c]
           P == o.ctx.open
<1>1. Typed /\ Sounds /\ Sound(o, flags) /\ o \in Runs /\ o.at = "fills" /\ IsFiniteSet(P)
      /\ faults \in 0 .. MaxFaults /\ MaxFaults \in Nat /\ starts \in 0 .. MaxStarts
      /\ turnover \in Nat /\ o.ctx.past \in Nat
  <2>1. Typed /\ Sounds /\ Sound(o, flags) /\ o \in Runs /\ o.at = "fills"
        /\ faults \in 0 .. MaxFaults /\ MaxFaults \in Nat /\ starts \in 0 .. MaxStarts /\ turnover \in Nat
    BY DEF IInv, Sounds, Typed, DecideAndEvaluate, Step, CycleAssumption
  <2>2. IsFiniteSet(P)
    BY <2>1 DEF Sound
  <2>3. o.ctx.past \in Nat
    BY <2>1 DEF Runs, Contexts
  <2> QED BY <2>1, <2>2, <2>3
<1>2. flags' = flags /\ settings' = settings /\ starts' = starts /\ UNCHANGED account
      /\ faults' = faults /\ faults <= faults' /\ faults' <= MaxFaults /\ faults' \in 0 .. MaxFaults
  BY <1>1 DEF DecideAndEvaluate, env
<1>3. o.bought = Nothing /\ o.next = 1 /\ (flags \in Fenced => o.mode = "dry_run")
  BY <1>1 DEF Sound
<1>4. CASE ContextError(c, "projection")
  BY <1>1, <1>2, <1>4, ContextErrorKeeps DEF Reasons
<1>5. CASE o.mode = "paper" /\ RunFails(c, "strategy")
  BY <1>1, <1>2, <1>5, RunFailsKeeps DEF Reasons
<1>6. CASE o.mode = "dry_run" /\ Goto(c, "history")
  BY <1>1, <1>2, <1>6, GotoKeeps
<1>7. CASE observeSharedCandidate(c)
  BY <1>1, <1>2, <1>3, <1>7, GotoKeeps DEF observeSharedCandidate
<1>8. ASSUME NEW spent \in o.ctx.past .. turnover, o.mode = "paper",
             cycle' = [cycle EXCEPT ![c].at = "commit", ![c].approved = Approved(c, spent)]
      PROVE  IInv'
  <2> DEFINE A == Approved(c, spent)
  <2>0. spent \in Int
    BY <1>1, <1>8
  <2>1. /\ A \in SUBSET Symbols /\ IsFiniteSet(A) /\ Cardinality(A) \in Nat /\ A \cap P = {}
        /\ Cardinality(A) <= o.ctx.cash
        /\ A # {} => Cardinality(P) + Cardinality(A) <= o.settings.max
    BY <1>1, <2>0, ApprovedFits
  <2> HIDE DEF A
  <2> DEFINE r == [o EXCEPT !.at = "commit", !.approved = A]
  <2>2. /\ r \in Runs /\ r.at = "commit" /\ r.bought = Nothing /\ r.next = 1 /\ r.approved = A
        /\ r.mode = "paper" /\ r.ctx = o.ctx
    BY <1>1, <1>3, <1>8, <2>1 DEF Runs, Places
  <2>3. cycle' = [cycle EXCEPT ![c] = r]
    BY <1>8 DEF A
  <2> HIDE DEF r
  <2>4. cycle' \in [Cycles -> Runs] /\ cycle'[c] = r /\ \A d \in Cycles : d # c => cycle'[d] = cycle[d]
    BY <1>1, <2>2, <2>3, Put
  <2>5. Limit \in Nat /\ o.settings.max \in Nat /\ o.settings.max <= Limit /\ Cardinality(P) \in Nat
    <3>1. o.settings \in Settings
      BY <1>1 DEF Runs
    <3>2. Cardinality(P) \in Nat
      BY <1>1, FS_CardinalityType
    <3> QED BY <3>1, <3>2, LimitIs
  <2>6. A = {} => Cardinality(A) = 0
    BY FS_EmptySet
  <2>7. Cardinality(A) <= Limit
    BY <2>1, <2>5, <2>6
  <2>8. flags \notin Fenced
    BY <1>3, <1>8
  <2>9. Sound(r, flags)
    BY <2>1, <2>2, <2>7, <2>8 DEF Sound, Nothing
  <2>10. /\ Room(r) = Cardinality(A)
         /\ Room(o) = IF Cardinality(P) < o.settings.max THEN o.settings.max - Cardinality(P) ELSE 0
    BY <1>1, <2>2 DEF Room
  <2>11. Room(r) <= Room(o)
    BY <2>1, <2>5, <2>6, <2>10
  <2>12. \A s \in Symbols : Buys(r, s) => Buys(o, s)
    BY <1>1, <2>1, <2>2 DEF Buys
  <2> QED BY <1>1, <1>2, <2>4, <2>9, <2>11, <2>12, QuietStep
<1> QED BY <1>4, <1>5, <1>6, <1>7, <1>8 DEF DecideAndEvaluate

\* A commit books all of what was approved, or nothing.
LEMMA RecordKeeps ==
    ASSUME CycleAssumption, IInv, NEW c \in Cycles, RecordOutcome(c)
    PROVE  IInv'
<1> DEFINE o == cycle[c]
           S == o.approved
           b == [s \in Symbols |-> o.bought[s] + (IF s \in S THEN 1 ELSE 0)]
           q(at, why) == [Moved(o, at) EXCEPT !.why = why, !.opened = Cardinality(S), !.bought = b]
<1>1. Typed /\ Sounds /\ Sound(o, flags) /\ o \in Runs /\ o.at = "commit" /\ cash \in Nat
      /\ faults \in 0 .. MaxFaults /\ MaxFaults \in Nat
  BY DEF IInv, Sounds, Typed, RecordOutcome, Step, CycleAssumption
<1>2. flags' = flags /\ settings' = settings /\ starts' = starts /\ faults <= faults'
      /\ faults' \in {faults, faults + 1} /\ faults' <= MaxFaults /\ faults' \in 0 .. MaxFaults
  BY <1>1 DEF RecordOutcome, env
<1>3. /\ o.bought = Nothing /\ o.next = 1 /\ o.mode = "paper" /\ IsFiniteSet(S) /\ Cardinality(S) \in Nat
      /\ flags \notin Fenced /\ S \in SUBSET Symbols
  BY <1>1, FS_CardinalityType DEF Sound, Runs
<1>4. CASE UNCHANGED account /\ (RunFails(c, "ledger") \/ RunFails(c, "broker"))
  BY <1>1, <1>2, <1>3, <1>4, RunFailsKeeps DEF Reasons
<1>5. ASSUME NEW at \in {"history", "engine_error"}, NEW why \in Reasons,
             Cardinality(S) <= cash, Book(S), cycle' = [cycle EXCEPT ![c] = q(at, why)]
      PROVE  IInv'
  <2> DEFINE l == Moved(o, at)
             r == q(at, why)
  <2>1. b \in [Symbols -> Nat] /\ \A s \in Symbols : b[s] <= 1
    BY <1>3 DEF Nothing
  <2>2. cycle' = [cycle EXCEPT ![c] = r]
    BY <1>5
  <2> HIDE DEF b
  <2>3. l \in Runs /\ l.at = at /\ l.mode = o.mode
    BY <1>1, MovedIs DEF Places
  <2>4. r \in Runs /\ r.at = at /\ r.bought = b /\ r.mode = o.mode
    <3> DEFINE n == Cardinality(S)
    <3>1. n \in Nat /\ b \in [Symbols -> Nat] /\ l \in Runs
      BY <1>3, <2>1, <2>3
    <3>2. r = [l EXCEPT !.why = why, !.opened = n, !.bought = b]
      OBVIOUS
    <3> HIDE DEF l, n, r
    <3>3. r \in Runs /\ r.at = l.at /\ r.bought = b /\ r.mode = l.mode
      BY <3>1, <3>2 DEF Runs
    <3> QED BY <2>3, <3>3
  <2> HIDE DEF r
  <2>5. cycle' \in [Cycles -> Runs] /\ cycle'[c] = r /\ \A d \in Cycles : d # c => cycle'[d] = cycle[d]
    BY <1>1, <2>2, <2>4, Put
  <2>6. Sound(r, flags)
    BY <1>3, <2>1, <2>4 DEF Sound
  <2>7. Room(r) = 0 /\ Room(o) = Cardinality(S)
    BY <1>1, <2>4 DEF Room
  <2>8. (\A s \in Symbols : ~Buys(r, s)) /\ \A s \in S : Buys(o, s)
    BY <1>1, <2>4 DEF Buys
  <2>9. Cardinality(S) + Room(r) <= Room(o) /\ Cardinality(S) <= cash /\ Book(S)
    BY <1>3, <1>5, <2>7
  <2> HIDE DEF S
  <2> QED BY <1>2, <1>3, <2>5, <2>6, <2>8, <2>9, BookStep
<1>6. "none" \in Reasons /\ "trace" \in Reasons /\ ~allowLegacyEngineFallback(c, "trace")
  BY DEF Reasons, allowLegacyEngineFallback
<1>7. CASE /\ Cardinality(S) <= cash /\ Book(S)
           /\ cycle' = [cycle EXCEPT ![c] = q("history", "none")]
  <2> HIDE DEF S, q
  <2> QED BY <1>5, <1>6, <1>7
<1>8. CASE /\ Cardinality(S) <= cash /\ Book(S)
           /\ cycle' = [cycle EXCEPT ![c] = q("engine_error", "trace")]
  <2> HIDE DEF S, q
  <2> QED BY <1>5, <1>6, <1>8
<1> QED BY <1>4, <1>6, <1>7, <1>8 DEF RecordOutcome

\* The history changes nothing the account holds.
LEMMA HistoryKeeps ==
    ASSUME CycleAssumption, IInv, NEW c \in Cycles, PersistHistory(c)
    PROVE  IInv'
<1>1. Typed /\ cycle[c].at = "history" /\ faults \in 0 .. MaxFaults /\ MaxFaults \in Nat
  BY DEF IInv, Typed, PersistHistory, Step, CycleAssumption
<1>2. flags' = flags /\ settings' = settings /\ starts' = starts /\ UNCHANGED account
      /\ faults <= faults' /\ faults' \in 0 .. MaxFaults
  BY <1>1 DEF PersistHistory, env
<1>3. "history" \in Reasons
  BY DEF Reasons
<1>4. CASE End(c)
  BY <1>2, <1>4, EndKeeps
<1>5. CASE cycle[c].mode = "paper" /\ RunFails(c, "history")
  BY <1>1, <1>2, <1>3, <1>5, RunFailsKeeps
<1>6. CASE EngineError(c, "history")
  BY <1>2, <1>3, <1>6, ErrorKeeps
<1> QED BY <1>4, <1>5, <1>6 DEF PersistHistory

\* The failure is reported and the cycle ends.
LEMMA ReportKeeps ==
    ASSUME CycleAssumption, IInv, NEW c \in Cycles, Report(c)
    PROVE  IInv'
<1>1. faults \in 0 .. MaxFaults /\ faults <= faults
  BY DEF IInv, Typed, CycleAssumption
<1>2. /\ End(c) /\ flags' = flags /\ settings' = settings /\ starts' = starts
      /\ faults' = faults /\ UNCHANGED account
  BY DEF Report, env
<1>3. faults' \in 0 .. MaxFaults /\ faults <= faults'
  BY <1>1, <1>2
<1> QED BY <1>2, <1>3, EndKeeps

-----------------------------------------------------------------------------
\* A step of nobody's cycle that opens nothing.
LEMMA OtherStep ==
    ASSUME CycleAssumption, IInv, Typed', Fence', UNCHANGED <<cycle, flags, faults>>,
           \A s \in Symbols : layers'[s] <= layers[s]
    PROVE  IInv'
<1>1. Typed /\ Sounds /\ Budget /\ Layered /\ Fence /\ cycle' = cycle /\ flags' = flags /\ faults' = faults
  BY DEF IInv
<1>2. layers \in [Symbols -> Nat] /\ layers' \in [Symbols -> Nat] /\ faults \in Nat
  BY <1>1 DEF Typed, CycleAssumption
<1>3. Opened' \subseteq Opened
  <2>1. ASSUME NEW s \in Symbols, layers'[s] > 0 PROVE layers[s] > 0
    BY <1>2, <2>1
  <2> QED BY <2>1 DEF Opened
<1>4. Sounds'
  BY <1>1 DEF Sounds
<1>5. Budget'
  <2>1. IsFiniteSet(Cycles) /\ \A d \in Cycles : Room(cycle[d]) \in Nat /\ Room(cycle[d]) <= Limit
    <3>1. \A d \in Cycles : cycle[d] \in Runs /\ Sound(cycle[d], flags)
      BY <1>1 DEF Typed, Sounds
    <3>2. IsFiniteSet(Cycles)
      BY DEF CycleAssumption
    <3> QED BY <3>1, <3>2, RoomIs
  <2> DEFINE F == [d \in Cycles |-> Room(cycle[d])]
  <2>2. \A d \in Cycles : F[d] \in Int
    BY <2>1
  <2>3. Promised = SumFunctionOnSet(F, Cycles)
    BY DEF Promised
  <2>4. Promised' = SumFunctionOnSet(F, Cycles)
    BY <1>1 DEF Promised
  <2>5. SumFunctionOnSet(F, Cycles) \in Int
    <3> HIDE DEF F
    <3> QED BY <2>1, <2>2, SumType
  <2>6. Cardinality(Opened') \in Nat /\ Cardinality(Opened) \in Nat /\ Cardinality(Opened') <= Cardinality(Opened)
    <3> DEFINE A == Opened
               B == Opened'
    <3>1. IsFiniteSet(A) /\ B \subseteq A
      BY <1>1, <1>3, OpenedIs
    <3> HIDE DEF A, B
    <3>2. IsFiniteSet(B) /\ Cardinality(B) <= Cardinality(A) /\ Cardinality(B) \in Nat /\ Cardinality(A) \in Nat
      BY <3>1, FS_Subset, FS_CardinalityType
    <3> QED BY <3>2 DEF A, B
  <2> DEFINE X == (Cardinality(Cycles) + faults) * Limit
  <2>7. X \in Int
    <3>1. Cardinality(Cycles) \in Nat
      BY <2>1, FS_CardinalityType
    <3>2. Limit \in Nat
      BY <1>1, LimitIs DEF Typed
    <3> QED BY <1>2, <3>1, <3>2
  <2>8. Cardinality(Opened) + Promised <= X
    BY <1>1 DEF Budget
  <2>9. Cardinality(Opened') + Promised <= X
    <3> HIDE DEF X, F
    <3> QED BY <2>3, <2>5, <2>6, <2>7, <2>8
  <2> QED BY <1>1, <2>3, <2>4, <2>9 DEF Budget
<1>6. Layered'
  <2>1. ASSUME NEW s \in Symbols
        PROVE  layers'[s] + Cardinality(Buyers(s)') <= Cardinality(Cycles) + faults
    <3>1. PICK d \in Nat : d = Cardinality(Buyers(s)) /\ Cardinality(Cycles) \in Nat
      <4>1. IsFiniteSet(Cycles)
        BY DEF CycleAssumption
      <4>2. IsFiniteSet(Buyers(s))
        BY <4>1, FS_Subset DEF Buyers
      <4> QED BY <4>1, <4>2, FS_CardinalityType
    <3>2. Buyers(s)' = Buyers(s)
      BY <1>1 DEF Buyers
    <3>3. layers[s] + Cardinality(Buyers(s)) <= Cardinality(Cycles) + faults
      BY <1>1 DEF Layered
    <3>4. layers[s] \in Nat /\ layers'[s] \in Nat /\ layers'[s] <= layers[s]
      BY <1>2
    <3> QED BY <1>2, <3>1, <3>2, <3>3, <3>4
  <2> QED BY <1>1, <2>1 DEF Layered
<1> QED BY <1>4, <1>5, <1>6 DEF IInv

\* A change of the settings: a running cycle keeps those it read.
LEMMA SettingsKeep ==
    ASSUME CycleAssumption, IInv, UpdateSettings
    PROVE  IInv'
<1>1. Typed /\ Fence
  BY DEF IInv
<1>2. /\ settings' \in Settings /\ flags' = flags /\ cycle' = cycle /\ faults' = faults
      /\ starts' = starts /\ layers' = layers /\ cash' = cash /\ exits' = exits
      /\ turnover' = turnover /\ exited' = exited /\ Opened' = Opened
  BY DEF UpdateSettings, account, Opened
<1>3. Typed'
  BY <1>1, <1>2 DEF Typed
<1>4. Fence'
  BY <1>1, <1>2 DEF Fence
<1>5. \A s \in Symbols : layers'[s] <= layers[s]
  BY <1>1, <1>2 DEF Typed
<1> QED BY <1>2, <1>3, <1>4, <1>5, OtherStep

\* A reservation of the close coordinator.
LEMMA RequestKeeps ==
    ASSUME CycleAssumption, IInv, NEW s \in Symbols, RequestClose(s)
    PROVE  IInv'
<1>1. Typed /\ Fence
  BY DEF IInv
<1>2. /\ s \in Opened /\ exits' = exits \cup {s} /\ settings' = settings /\ flags' = flags
      /\ cycle' = cycle /\ faults' = faults /\ starts' = starts /\ layers' = layers
      /\ cash' = cash /\ turnover' = turnover /\ exited' = exited /\ Opened' = Opened
  BY DEF RequestClose, env, Opened
<1>3. Typed'
  BY <1>1, <1>2 DEF Typed
<1>4. Fence'
  BY <1>1, <1>2 DEF Fence
<1>5. \A x \in Symbols : layers'[x] <= layers[x]
  BY <1>1, <1>2 DEF Typed
<1> QED BY <1>2, <1>3, <1>4, <1>5, OtherStep

\* A fenced process has nothing to sell.
LEMMA ApplyKeeps ==
    ASSUME CycleAssumption, IInv, NEW s \in Symbols, ApplyClose(s)
    PROVE  IInv'
<1>1. Typed /\ Fence
  BY DEF IInv
<1>2. /\ s \in exits /\ exited < MaxExits /\ exited' = exited + 1 /\ exits' = exits \ {s}
      /\ layers' = [layers EXCEPT ![s] = 0] /\ cash' = cash + layers[s]
      /\ turnover' = turnover + layers[s] /\ settings' = settings /\ flags' = flags
      /\ cycle' = cycle /\ faults' = faults /\ starts' = starts
  BY DEF ApplyClose, env
<1>3. /\ layers \in [Symbols -> Nat] /\ layers' \in [Symbols -> Nat] /\ layers[s] \in Nat
      /\ \A x \in Symbols : layers'[x] = IF x = s THEN 0 ELSE layers[x]
  BY <1>1, <1>2 DEF Typed
<1>4. Typed'
  <2>1. exits' \subseteq Opened'
    BY <1>1, <1>2, <1>3 DEF Typed, Opened
  <2>2. exited' \in 0 .. MaxExits
    BY <1>1, <1>2 DEF Typed, CycleAssumption
  <2>3. cash' \in Nat /\ turnover' \in Nat
    BY <1>1, <1>2, <1>3 DEF Typed
  <2> QED BY <1>1, <1>2, <1>3, <2>1, <2>2, <2>3 DEF Typed
<1>5. Fence'
  <2>1. layers[s] > 0
    BY <1>1, <1>2 DEF Typed, Opened
  <2>2. layers # Nothing
    BY <2>1 DEF Nothing
  <2> QED BY <1>1, <1>2, <2>2 DEF Fence
<1>6. \A x \in Symbols : layers'[x] <= layers[x]
  BY <1>3
<1> QED BY <1>2, <1>4, <1>5, <1>6, OtherStep

\* Nothing happens.
LEMMA StutterKeeps ==
    ASSUME CycleAssumption, IInv, UNCHANGED vars
    PROVE  IInv'
<1>1. Typed /\ Fence
  BY DEF IInv
<1>2. /\ settings' = settings /\ flags' = flags /\ cycle' = cycle /\ faults' = faults
      /\ starts' = starts /\ layers' = layers /\ cash' = cash /\ exits' = exits
      /\ turnover' = turnover /\ exited' = exited /\ Opened' = Opened
  BY DEF vars, Opened
<1>3. Typed' /\ Fence'
  BY <1>1, <1>2 DEF Typed, Fence
<1>4. \A s \in Symbols : layers'[s] <= layers[s]
  BY <1>1, <1>2 DEF Typed
<1> QED BY <1>2, <1>3, <1>4, OtherStep

-----------------------------------------------------------------------------
\* No position, no run.
LEMMA InitKeeps == ASSUME CycleAssumption, Init PROVE IInv
<1>1. /\ settings \in Settings /\ flags \in FlagModes /\ layers = Nothing /\ cash = OpeningCash
      /\ exits = {} /\ turnover = 0 /\ cycle = [c \in Cycles |-> Idle]
      /\ starts = 0 /\ exited = 0 /\ faults = 0
  BY DEF Init
<1>2. /\ OpeningCash \in Nat /\ MaxStarts \in Nat /\ MaxExits \in Nat /\ MaxFaults \in Nat
      /\ IsFiniteSet(Cycles)
  BY DEF CycleAssumption
<1>3. Idle \in Runs /\ Idle.at = "idle" /\ Idle.bought = Nothing
  BY <1>1, IdleIs
<1>4. \A c \in Cycles : cycle[c] = Idle
  BY <1>1
<1>5. Nothing \in [Symbols -> Nat] /\ (\A s \in Symbols : Nothing[s] = 0) /\ Opened = {}
  BY <1>1 DEF Nothing, Opened
<1>6. Typed
  <2>1. cycle \in [Cycles -> Runs]
    BY <1>1, <1>3
  <2> QED BY <1>1, <1>2, <1>5, <2>1 DEF Typed
<1>7. Sounds
  BY <1>3, <1>4, <1>5 DEF Sounds, Sound
<1>8. Cardinality(Cycles) \in Nat
  BY <1>2, FS_CardinalityType
<1>9. Budget
  <2> DEFINE F == [c \in Cycles |-> Room(cycle[c])]
             zero == 0
  <2>1. \A c \in Cycles : F[c] = 0
    BY <1>3, <1>4 DEF Room
  <2>2. zero \in Nat /\ \A c \in Cycles : F[c] \in Int /\ F[c] <= zero
    BY <2>1
  <2>3. SumFunctionOnSet(F, Cycles) <= Cardinality(Cycles) * zero /\ SumFunctionOnSet(F, Cycles) \in Int
    <3> HIDE DEF F, zero
    <3> QED BY <1>2, <2>2, SumBounded, SumType
  <2>4. Promised <= 0 /\ Promised \in Int
    <3>1. Promised = SumFunctionOnSet(F, Cycles)
      BY DEF Promised
    <3> HIDE DEF F
    <3> QED BY <1>8, <2>3, <3>1
  <2>5. Cardinality(Opened) = 0
    BY <1>5, FS_EmptySet
  <2>6. Limit \in Nat
    BY <1>1, LimitIs
  <2>7. (Cardinality(Cycles) + faults) * Limit \in Nat
    BY <1>1, <1>8, <2>6
  <2> QED BY <2>4, <2>5, <2>7 DEF Budget
<1>10. Layered
  <2>1. ASSUME NEW s \in Symbols PROVE layers[s] + Cardinality(Buyers(s)) <= Cardinality(Cycles) + faults
    <3>1. Buyers(s) = {}
      BY <1>3, <1>4 DEF Buyers, Buys
    <3>2. Cardinality(Buyers(s)) = 0
      BY <3>1, FS_EmptySet
    <3> QED BY <1>1, <1>5, <1>8, <3>2
  <2> QED BY <2>1 DEF Layered
<1>11. Fence
  BY <1>1 DEF Fence
<1> QED BY <1>6, <1>7, <1>9, <1>10, <1>11 DEF IInv

\* The invariant is inductive.
LEMMA NextKeeps == ASSUME CycleAssumption, IInv, [Next]_vars PROVE IInv'
<1>1. ASSUME NEW c \in Cycles, Start(c) \/ CycleStep(c) PROVE IInv'
  <2>1. CASE Start(c)
    BY <2>1, StartKeeps
  <2>2. CASE AnalyzeShortlist(c)
    BY <2>2, AnalyzeKeeps
  <2>3. CASE executeShortlistTradesRouted(c)
    BY <2>3, RouteKeeps
  <2>4. CASE CountOpenPositions(c)
    BY <2>4, CountKeeps
  <2>5. CASE Consider(c)
    BY <2>5, ConsiderKeeps
  <2>6. CASE executeBuyFromTrendingWithContext(c)
    BY <2>6, BuyKeeps
  <2>7. CASE CheckReady(c)
    BY <2>7, ReadyKeeps
  <2>8. CASE ReadWallet(c)
    BY <2>8, WalletKeeps
  <2>9. CASE DecideAndEvaluate(c)
    BY <2>9, DecideKeeps
  <2>13. CASE ReadPositions(c)
    BY <2>13, PositionsKeep
  <2>10. CASE RecordOutcome(c)
    BY <2>10, RecordKeeps
  <2>11. CASE PersistHistory(c)
    BY <2>11, HistoryKeeps
  <2>12. CASE Report(c)
    BY <2>12, ReportKeeps
  <2> QED BY <1>1, <2>1, <2>2, <2>3, <2>4, <2>5, <2>6, <2>7, <2>8, <2>9, <2>10, <2>11, <2>12, <2>13
          DEF CycleStep
<1>2. ASSUME NEW s \in Symbols, RequestClose(s) \/ ApplyClose(s) PROVE IInv'
  BY <1>2, RequestKeeps, ApplyKeeps
<1> QED BY <1>1, <1>2, SettingsKeep, StutterKeeps DEF Next

\* What is promised is never negative, so that the bounds hold now.
LEMMA InvBounds == ASSUME CycleAssumption, IInv PROVE CyclesBounded
<1>1. Typed /\ Sounds /\ Budget /\ Layered /\ Fence
  BY DEF IInv
<1>2. TypeOK
  <2>1. ASSUME NEW c \in Cycles
        PROVE  /\ cycle[c].at \in Places
               /\ cycle[c].at \in {"consider", "buy"} => cycle[c].next \in 1 .. Len(cycle[c].list)
               /\ cycle[c].at = "commit" => cycle[c].mode = "paper"
    <3>1. cycle[c] \in Runs /\ Sound(cycle[c], flags)
      BY <1>1 DEF Typed, Sounds
    <3> QED BY <3>1 DEF Runs, Sound
  <2> QED BY <1>1, <2>1 DEF Typed, TypeOK
<1>3. IsFiniteSet(Cycles) /\ Cardinality(Cycles) \in Nat /\ faults \in Nat
  BY <1>1, FS_CardinalityType DEF CycleAssumption, Typed
<1>4. OvershootBounded
  <2> DEFINE F == [d \in Cycles |-> Room(cycle[d])]
  <2>1. \A d \in Cycles : F[d] \in Nat
    <3>1. \A d \in Cycles : cycle[d] \in Runs /\ Sound(cycle[d], flags)
      BY <1>1 DEF Typed, Sounds
    <3> QED BY <3>1, RoomIs
  <2>2. Promised \in Nat
    <3>1. Promised = SumFunctionOnSet(F, Cycles)
      BY DEF Promised
    <3> HIDE DEF F
    <3> QED BY <1>3, <2>1, <3>1, SumNatural
  <2>3. Cardinality(Opened) \in Nat
    BY <1>1, OpenedIs
  <2>4. Cardinality(Opened) + Promised <= (Cardinality(Cycles) + faults) * Limit
    BY <1>1 DEF Budget
  <2>5. (Cardinality(Cycles) + faults) * Limit \in Int
    <3>1. Limit \in Nat
      BY <1>1, LimitIs DEF Typed
    <3> QED BY <1>3, <3>1
  <2> QED BY <2>2, <2>3, <2>4, <2>5 DEF OvershootBounded
<1>5. NoPyramid
  <2>1. ASSUME NEW s \in Symbols PROVE layers[s] <= Cardinality(Cycles) + faults
    <3>1. Cardinality(Buyers(s)) \in Nat
      <4>1. IsFiniteSet(Buyers(s))
        BY <1>3, FS_Subset DEF Buyers
      <4> QED BY <4>1, FS_CardinalityType
    <3>2. layers[s] \in Nat /\ layers[s] + Cardinality(Buyers(s)) <= Cardinality(Cycles) + faults
      BY <1>1 DEF Typed, Layered
    <3> QED BY <1>3, <3>1, <3>2
  <2> QED BY <2>1 DEF NoPyramid
<1>6. OneBuyPerCycle
  BY <1>1 DEF OneBuyPerCycle, Sounds, Sound
<1>7. FencedNeverBuys
  BY <1>1 DEF FencedNeverBuys, Fence, Fenced
<1> QED BY <1>2, <1>4, <1>5, <1>6, <1>7 DEF CyclesBounded

-----------------------------------------------------------------------------
\* The engine cycles of a process, however they overlap, open no more positions
\* than each could open alone, add to a position no oftener than there are
\* cycles, buy a symbol once each and, in a fenced process, buy nothing; a read
\* that fails may cost one more each.
THEOREM CyclesAreBound == ASSUME CycleAssumption PROVE Spec => []CyclesBounded
<1>1. Init => IInv
  BY InitKeeps
<1>2. IInv /\ [Next]_vars => IInv'
  BY NextKeeps
<1>3. IInv => CyclesBounded
  BY InvBounds
<1> QED BY <1>1, <1>2, <1>3, PTL DEF Spec

\* The ledger refuses what the risk engine approved only when another actor
\* spent cash after the cycle read the wallet.
THEOREM RefusalsAreRaces == ASSUME CycleAssumption PROVE Spec => [][RefusalIsRace]_vars
<1>1. Init => IInv
  BY InitKeeps
<1>2. IInv /\ [Next]_vars => IInv'
  BY NextKeeps
<1>3. IInv => RefusalIsRace
  <2> SUFFICES ASSUME IInv, NEW c \in Cycles, cycle[c].at = "commit",
                      Cardinality(cycle[c].approved) > cash
               PROVE  cash < cycle[c].ctx.cash
    BY DEF RefusalIsRace
  <2>1. cycle[c] \in Runs /\ cash \in Nat /\ IsFiniteSet(cycle[c].approved)
        /\ Cardinality(cycle[c].approved) <= cycle[c].ctx.cash
    BY DEF IInv, Typed, Sounds, Sound
  <2>2. cycle[c].ctx.cash \in Nat /\ Cardinality(cycle[c].approved) \in Nat
    BY <2>1, FS_CardinalityType DEF Runs, Contexts
  <2> QED BY <2>1, <2>2
<1>4. IInv /\ [Next]_vars => [RefusalIsRace]_vars
  BY <1>3
<1> QED BY <1>1, <1>2, <1>4, PTL DEF Spec


-----------------------------------------------------------------------------
(* The risk engine.                                                        *)

\* Approved intents and fills.
Orders == [instrument : Instruments, side : Sides, qty : Nat \ {0}, priority : Priorities]

\* What an order ties up, turns over, and moves the exposure by.
TiedUp == [a \in Orders |-> IF a.side = "buy" THEN a.qty * CashPrice(a) ELSE 0]
Turnover == [a \in Orders |-> a.qty * AdversePrice(a)]
Shift == [a \in Orders |->
            IF a.side = "buy" THEN a.qty * ReferencePrice(a) ELSE -(a.qty * ReferencePrice(a))]
Worth == [i \in Instruments |-> portfolio.held[i] * (quote[i] * Unit)]

Tied(A) == SumFunctionOnSet(TiedUp, A)
Turned(A) == SumFunctionOnSet(Turnover, A)
Shifted(A) == SumFunctionOnSet(Shift, A)

Untouched == {i \in Instruments : \A a \in approved : a.instrument # i}
Opening(held) == {a \in approved : a.side = "buy" /\ held[a.instrument] = 0}

Shape ==
    /\ IsFiniteSet(approved) /\ approved \in SUBSET Orders
    /\ \A a, b \in batch : a.instrument = b.instrument => a = b
    /\ \A a \in approved, b \in batch : a.instrument # b.instrument
    /\ decision \in {"idle", "risk", "booked"} => fills = {}
    /\ ~refused /\ before \in Snapshots /\ unsold \in Nat

\* The cash that is not reserved pays for the approved buys.
CashEvaluated ==
    /\ eval.free = portfolio.cash - policy.reserve * Unit - Tied(approved)
    /\ Tied(approved) = 0 \/ eval.free >= 0
TurnoverEvaluated ==
    /\ eval.turnover = portfolio.spent + Turned(approved)
    /\ policy.maxTurnover > 0 =>
         eval.turnover <= policy.maxTurnover * Unit \/ eval.turnover <= portfolio.spent
GrossEvaluated ==
    /\ eval.gross = portfolioGross(portfolio.held) + Shifted(approved)
    /\ policy.maxGross > 0 =>
         eval.gross <= policy.maxGross * Unit \/ eval.gross <= portfolioGross(portfolio.held)
    /\ eval.gross >= SumFunctionOnSet(Worth, Untouched)
    /\ \A a \in approved : a.side = "sell" => a.qty <= portfolio.held[a.instrument]
FewOpen(held) ==
    policy.maxPositions > 0 =>
        \/ Opening(held) = {}
        \/ Cardinality(OpenIn(held)) + Cardinality(Opening(held)) <= policy.maxPositions
Evaluated ==
    CashEvaluated /\ TurnoverEvaluated /\ GrossEvaluated /\ FewOpen(portfolio.held)

CashCovered ==
    \/ portfolio.cash - Tied(fills) >= before.cash
    \/ portfolio.cash - Tied(fills) >= policy.reserve * Unit
TurnoverCovered ==
    policy.maxTurnover > 0 =>
        \/ portfolio.spent + Turned(fills) <= policy.maxTurnover * Unit
        \/ portfolio.spent + Turned(fills) <= before.spent
GrossCovered ==
    /\ policy.maxGross > 0 =>
        \/ portfolioGross(portfolio.held) + Shifted(fills) <= policy.maxGross * Unit + unsold
        \/ portfolioGross(portfolio.held) + Shifted(fills) <= portfolioGross(before.held) + unsold
    /\ \A f \in fills : f.side = "sell" => f.qty <= portfolio.held[f.instrument]
OpenCovered ==
    /\ FewOpen(before.held)
    /\ \A i \in OpenIn(portfolio.held) :
         i \in OpenIn(before.held) \/ \E a \in Opening(before.held) : a.instrument = i
CountedIn == CashCovered /\ TurnoverCovered /\ GrossCovered /\ OpenCovered

RiskInv ==
    /\ RiskTypeOK /\ Shape
    /\ decision = "risk" => Evaluated
    /\ decision \in {"booking", "booked"} => CountedIn

-----------------------------------------------------------------------------
\* A finite set of numbers has a smallest.
LEMMA Smallest ==
    ASSUME NEW S, IsFiniteSet(S), S # {}, S \subseteq Int
    PROVE  Min(S) \in S /\ \A x \in S : Min(S) <= x
<1> DEFINE f == [x \in S |-> -x]
           T == {f[x] : x \in S}
<1>1. IsFiniteSet(T)
  <2> HIDE DEF f
  <2> QED BY FiniteImage
<1>2. T # {} /\ T \subseteq Int /\ (\A x \in S : -x \in T) /\ \A y \in T : -y \in S
  <2>1. \A x \in S : f[x] = -x /\ f[x] \in Int /\ x = -f[x]
    OBVIOUS
  <2> HIDE DEF f
  <2> QED BY <2>1
<1> HIDE DEF T
<1>3. Max(T) \in T /\ \A y \in T : y <= Max(T)
  BY <1>1, <1>2, Largest
<1>4. -Max(T) \in S /\ \A x \in S : -Max(T) <= x
  <2>1. -Max(T) \in S
    BY <1>2, <1>3
  <2>2. ASSUME NEW x \in S PROVE -Max(T) <= x
    <3>1. -x <= Max(T) /\ x \in Int /\ Max(T) \in Int
      BY <1>2, <1>3
    <3> QED BY <3>1
  <2> QED BY <2>1, <2>2
<1>5. \E m \in S : \A x \in S : m <= x
  BY <1>4
<1> QED BY <1>5 DEF Min

\* A quotient rounded down, times the divisor, is within the dividend.
LEMMA DivBelow ==
    ASSUME NEW n \in Int, NEW d \in Nat \ {0}, NEW q \in Int, q <= n \div d
    PROVE  q * d <= n
<1> DEFINE r == n \div d
<1>1. r \in Int /\ r * d <= n
  OBVIOUS
<1>2. r - q \in Nat
  BY <1>1
<1> HIDE DEF r
<1>3. (r - q) * d >= 0 /\ (r - q) * d = r * d - q * d
  BY <1>1, <1>2
<1>4. q * d \in Int /\ r * d \in Int
  BY <1>1
<1> QED BY <1>1, <1>3, <1>4

\* Prices are positive: fee and slippage together are below one.
LEMMA PricesAre ==
    ASSUME RiskAssumption, RiskTypeOK, NEW a, a.instrument \in Instruments, a.side \in Sides
    PROVE  /\ CashPrice(a) \in Nat \ {0} /\ AdversePrice(a) \in Nat \ {0}
           /\ ReferencePrice(a) \in Nat \ {0} /\ Unit \in Nat \ {0}
           /\ quote[a.instrument] * (Base - policy.slippage) * (Base - policy.fee) \in Nat
<1> DEFINE q == quote[a.instrument]
           s == policy.slippage
           e == policy.fee
<1>1. q \in Nat \ {0} /\ Base \in Nat \ {0} /\ s \in Nat /\ e \in Nat /\ e + s < Base
  BY DEF RiskAssumption, RiskTypeOK, PolicyValid
<1>2. Unit \in Nat \ {0}
  <2>1. Base * Base \in Nat /\ Base * Base # 0
    BY <1>1
  <2> QED BY <2>1 DEF Unit
<1> HIDE DEF q, s, e
<1>3. Base + s \in Nat \ {0} /\ Base + e \in Nat \ {0} /\ Base - s \in Nat \ {0} /\ Base - e \in Nat \ {0}
  BY <1>1
<1>4. \A x, y \in Nat \ {0} : x * y \in Nat \ {0}
  OBVIOUS
<1>5. q * (Base + s) * (Base + e) \in Nat \ {0} /\ q * Base * (Base + s) \in Nat \ {0}
      /\ q * Base * (Base - s) \in Nat \ {0} /\ q * (Base - s) * (Base - e) \in Nat \ {0}
      /\ q * Unit \in Nat \ {0}
  BY <1>1, <1>2, <1>3, <1>4
<1>6. Base + (-s) = Base - s
  BY <1>1
<1> QED BY <1>2, <1>5, <1>6 DEF CashPrice, AdversePrice, ReferencePrice, q, s, e

\* What every limit leaves room for is within every limit.
LEMMA Capped ==
    ASSUME RiskAssumption, RiskTypeOK, NEW i \in OrderIntents, capIntent(i) > 0
    PROVE  LET q == capIntent(i) IN
           /\ q \in Nat \ {0}
           /\ policy.maxTurnover > 0 =>
                q * AdversePrice(i) <= policy.maxTurnover * Unit - eval.turnover
           /\ i.side = "sell" => q <= portfolio.held[i.instrument]
           /\ i.side = "buy" => q * CashPrice(i) <= eval.free
           /\ i.side = "buy" /\ policy.maxGross > 0 =>
                q * ReferencePrice(i) <= policy.maxGross * Unit - eval.gross
<1> DEFINE q == capIntent(i)
           Left(limit, used, price) == IF limit = 0 THEN {} ELSE {(limit * Unit - used) \div price}
           value == portfolio.held[i.instrument] * ReferencePrice(i)
           V == Left(policy.maxTurnover, eval.turnover, AdversePrice(i))
           P == Left(policy.maxPosition, value, ReferencePrice(i))
           G == Left(policy.maxGross, eval.gross, ReferencePrice(i))
           C == {eval.free \div CashPrice(i)}
           H == {portfolio.held[i.instrument]}
           S == {i.qty} \cup V \cup (IF i.side = "sell" THEN H ELSE P \cup G \cup C)
<1>1. /\ CashPrice(i) \in Nat \ {0} /\ AdversePrice(i) \in Nat \ {0}
      /\ ReferencePrice(i) \in Nat \ {0} /\ Unit \in Nat \ {0}
      /\ i.instrument \in Instruments /\ i.side \in {"buy", "sell"} /\ i.qty \in Nat \ {0}
  BY PricesAre DEF OrderIntents, Sides, RiskAssumption
<1>2. /\ eval.free \in Int /\ eval.gross \in Nat /\ eval.turnover \in Nat
      /\ portfolio.held[i.instrument] \in Nat
      /\ policy.maxTurnover \in Nat /\ policy.maxPosition \in Nat /\ policy.maxGross \in Nat
  BY <1>1 DEF RiskAssumption, RiskTypeOK, Snapshots, PolicyValid
<1>3. q = Min(S)
  BY DEF capIntent
<1>4. ASSUME NEW limit \in Nat, NEW used \in Int, NEW price \in Nat \ {0}
      PROVE  IsFiniteSet(Left(limit, used, price)) /\ Left(limit, used, price) \subseteq Int
  <2>1. (limit * Unit - used) \div price \in Int
    <3>1. limit * Unit - used \in Int
      BY <1>1
    <3> QED BY <3>1
  <2> QED BY <2>1, FS_EmptySet, FS_Singleton
<1>5. /\ IsFiniteSet(V) /\ V \subseteq Int /\ IsFiniteSet(P) /\ P \subseteq Int
      /\ IsFiniteSet(G) /\ G \subseteq Int /\ IsFiniteSet(C) /\ C \subseteq Int
      /\ IsFiniteSet(H) /\ H \subseteq Int
  <2>1. value \in Int
    BY <1>1, <1>2
  <2>2. eval.free \div CashPrice(i) \in Int
    BY <1>1, <1>2
  <2>3. IsFiniteSet(V) /\ V \subseteq Int /\ IsFiniteSet(P) /\ P \subseteq Int
        /\ IsFiniteSet(G) /\ G \subseteq Int
    <3>1. policy.maxTurnover \in Nat /\ eval.turnover \in Int /\ eval.gross \in Int
      BY <1>2
    <3> HIDE DEF value, Left
    <3> QED BY <1>1, <1>2, <1>4, <2>1, <3>1
  <2>4. IsFiniteSet(C) /\ C \subseteq Int /\ IsFiniteSet(H) /\ H \subseteq Int
    <3>1. \A x \in Int : IsFiniteSet({x}) /\ {x} \subseteq Int
      BY FS_Singleton
    <3> QED BY <1>2, <2>2, <3>1
  <2> HIDE DEF V, P, G, C, H
  <2> QED BY <2>3, <2>4
<1>6. IsFiniteSet(S) /\ S \subseteq Int /\ S # {}
  <2>1. IsFiniteSet({i.qty}) /\ {i.qty} \subseteq Int
    <3>1. \A x \in Int : IsFiniteSet({x}) /\ {x} \subseteq Int
      BY FS_Singleton
    <3>2. i.qty \in Int
      BY <1>1
    <3> QED BY <3>1, <3>2
  <2> HIDE DEF V, P, G, C, H
  <2>2. IsFiniteSet({i.qty} \cup V) /\ IsFiniteSet(P \cup G) /\ IsFiniteSet((P \cup G) \cup C)
    BY <1>5, <2>1, FS_Union
  <2>3. IsFiniteSet(({i.qty} \cup V) \cup H) /\ IsFiniteSet(({i.qty} \cup V) \cup (P \cup G \cup C))
    BY <1>5, <2>2, FS_Union
  <2> QED BY <1>5, <2>1, <2>3
<1>7. q \in Int /\ \A x \in S : q <= x
  <2> HIDE DEF S, q
  <2> QED BY <1>3, <1>6, Smallest
<1>8. q \in Nat \ {0}
  <2>1. q > 0
    OBVIOUS
  <2> QED BY <1>7, <2>1
<1>9. ASSUME policy.maxTurnover > 0
      PROVE  q * AdversePrice(i) <= policy.maxTurnover * Unit - eval.turnover
  <2>1. (policy.maxTurnover * Unit - eval.turnover) \div AdversePrice(i) \in S
    BY <1>2, <1>9
  <2>2. policy.maxTurnover * Unit - eval.turnover \in Int
    BY <1>1, <1>2
  <2> HIDE DEF S, q
  <2> QED BY <1>1, <1>7, <2>1, <2>2, DivBelow
<1>10. ASSUME i.side = "sell" PROVE q <= portfolio.held[i.instrument]
  <2>1. portfolio.held[i.instrument] \in S
    BY <1>10
  <2> HIDE DEF S, q
  <2> QED BY <1>7, <2>1
<1>11. ASSUME i.side = "buy" PROVE q * CashPrice(i) <= eval.free
  <2>1. eval.free \div CashPrice(i) \in S
    BY <1>11
  <2> HIDE DEF S, q
  <2> QED BY <1>1, <1>2, <1>7, <2>1, DivBelow
<1>12. ASSUME i.side = "buy", policy.maxGross > 0
       PROVE  q * ReferencePrice(i) <= policy.maxGross * Unit - eval.gross
  <2>1. (policy.maxGross * Unit - eval.gross) \div ReferencePrice(i) \in S
    BY <1>2, <1>12
  <2>2. policy.maxGross * Unit - eval.gross \in Int
    BY <1>1, <1>2
  <2> HIDE DEF S, q
  <2> QED BY <1>1, <1>7, <2>1, <2>2, DivBelow
<1> HIDE DEF q
<1>13. /\ q \in Nat \ {0}
       /\ policy.maxTurnover > 0 =>
            q * AdversePrice(i) <= policy.maxTurnover * Unit - eval.turnover
       /\ i.side = "sell" => q <= portfolio.held[i.instrument]
       /\ i.side = "buy" => q * CashPrice(i) <= eval.free
       /\ i.side = "buy" /\ policy.maxGross > 0 =>
            q * ReferencePrice(i) <= policy.maxGross * Unit - eval.gross
  BY <1>8, <1>9, <1>10, <1>11, <1>12
<1> QED BY <1>13 DEF q

-----------------------------------------------------------------------------
\* The amounts of an order.
LEMMA OrderValues ==
    ASSUME RiskAssumption, RiskTypeOK, NEW a \in Orders
    PROVE  /\ a.qty * CashPrice(a) \in Nat /\ a.qty * AdversePrice(a) \in Nat
           /\ a.qty * ReferencePrice(a) \in Nat
           /\ TiedUp[a] = (IF a.side = "buy" THEN a.qty * CashPrice(a) ELSE 0)
           /\ Turnover[a] = a.qty * AdversePrice(a)
           /\ Shift[a] = (IF a.side = "buy" THEN a.qty * ReferencePrice(a)
                          ELSE -(a.qty * ReferencePrice(a)))
           /\ TiedUp[a] \in Nat /\ Turnover[a] \in Nat /\ Shift[a] \in Int
<1>1. /\ CashPrice(a) \in Nat /\ AdversePrice(a) \in Nat /\ ReferencePrice(a) \in Nat
      /\ a.qty \in Nat
  BY PricesAre DEF Orders
<1>2. \A x, y \in Nat : x * y \in Nat
  OBVIOUS
<1>3. /\ a.qty * CashPrice(a) \in Nat /\ a.qty * AdversePrice(a) \in Nat
      /\ a.qty * ReferencePrice(a) \in Nat
  BY <1>1, <1>2
<1>4. /\ TiedUp[a] = (IF a.side = "buy" THEN a.qty * CashPrice(a) ELSE 0)
      /\ Turnover[a] = a.qty * AdversePrice(a)
      /\ Shift[a] = (IF a.side = "buy" THEN a.qty * ReferencePrice(a)
                     ELSE -(a.qty * ReferencePrice(a)))
  BY DEF TiedUp, Turnover, Shift
<1>5. TiedUp[a] \in Nat /\ Turnover[a] \in Nat /\ Shift[a] \in Int
  BY <1>3, <1>4
<1> QED BY <1>3, <1>4, <1>5

LEMMA SumsAre ==
    ASSUME RiskAssumption, RiskTypeOK, NEW A \in SUBSET Orders, IsFiniteSet(A)
    PROVE  Tied(A) \in Nat /\ Turned(A) \in Nat /\ Shifted(A) \in Int
<1>1. \A a \in A : TiedUp[a] \in Nat /\ Turnover[a] \in Nat /\ Shift[a] \in Int
  BY OrderValues
<1>2. Tied(A) \in Nat
  BY <1>1, SumNatural DEF Tied
<1>3. Turned(A) \in Nat
  BY <1>1, SumNatural DEF Turned
<1>4. Shifted(A) \in Int
  BY <1>1, SumType DEF Shifted
<1> QED BY <1>2, <1>3, <1>4

LEMMA SumsGrow ==
    ASSUME RiskAssumption, RiskTypeOK, NEW A \in SUBSET Orders, IsFiniteSet(A),
           NEW a \in Orders, a \notin A
    PROVE  /\ IsFiniteSet(A \cup {a})
           /\ Tied(A \cup {a}) = Tied(A) + TiedUp[a]
           /\ Turned(A \cup {a}) = Turned(A) + Turnover[a]
           /\ Shifted(A \cup {a}) = Shifted(A) + Shift[a]
<1>1. \A b \in A \cup {a} : TiedUp[b] \in Int /\ Turnover[b] \in Int /\ Shift[b] \in Int
  <2>1. \A b \in Orders : TiedUp[b] \in Nat /\ Turnover[b] \in Nat /\ Shift[b] \in Int
    BY OrderValues
  <2> QED BY <2>1
<1>2. IsFiniteSet(A \cup {a}) /\ Tied(A \cup {a}) = Tied(A) + TiedUp[a]
  BY <1>1, SumAdd DEF Tied
<1>3. Turned(A \cup {a}) = Turned(A) + Turnover[a]
  BY <1>1, SumAdd DEF Turned
<1>4. Shifted(A \cup {a}) = Shifted(A) + Shift[a]
  BY <1>1, SumAdd DEF Shifted
<1> QED BY <1>2, <1>3, <1>4

LEMMA SumsShrink ==
    ASSUME RiskAssumption, RiskTypeOK, NEW A \in SUBSET Orders, IsFiniteSet(A), NEW a \in A
    PROVE  /\ IsFiniteSet(A \ {a})
           /\ Tied(A) = TiedUp[a] + Tied(A \ {a})
           /\ Turned(A) = Turnover[a] + Turned(A \ {a})
           /\ Shifted(A) = Shift[a] + Shifted(A \ {a})
<1>1. \A b \in A : TiedUp[b] \in Int /\ Turnover[b] \in Int /\ Shift[b] \in Int
  <2>1. \A b \in Orders : TiedUp[b] \in Nat /\ Turnover[b] \in Nat /\ Shift[b] \in Int
    BY OrderValues
  <2> QED BY <2>1
<1>2. IsFiniteSet(A \ {a})
  BY FS_RemoveElement
<1>3. Tied(A) = TiedUp[a] + Tied(A \ {a})
  BY <1>1, SumRemove DEF Tied
<1>4. Turned(A) = Turnover[a] + Turned(A \ {a})
  BY <1>1, SumRemove DEF Turned
<1>5. Shifted(A) = Shift[a] + Shifted(A \ {a})
  BY <1>1, SumRemove DEF Shifted
<1> QED BY <1>2, <1>3, <1>4, <1>5

\* Within a decision prices and policy stand still.
LEMMA AmountsStand ==
    ASSUME quote' = quote, policy' = policy
    PROVE  /\ TiedUp' = TiedUp /\ Turnover' = Turnover /\ Shift' = Shift
           /\ \A held : portfolioGross(held)' = portfolioGross(held')
<1>1. \A a : CashPrice(a)' = CashPrice(a) /\ AdversePrice(a)' = AdversePrice(a)
             /\ ReferencePrice(a)' = ReferencePrice(a)
  BY DEF CashPrice, AdversePrice, ReferencePrice
<1>2. TiedUp' = TiedUp /\ Turnover' = Turnover /\ Shift' = Shift
  BY <1>1 DEF TiedUp, Turnover, Shift
<1> QED BY <1>2 DEF portfolioGross

-----------------------------------------------------------------------------
\* The positions are finitely many, and so is what they are worth.
LEMMA WorthIs ==
    ASSUME RiskAssumption, RiskTypeOK, NEW S \in SUBSET Instruments
    PROVE  /\ IsFiniteSet(S) /\ \A i \in S : Worth[i] \in Nat
           /\ SumFunctionOnSet(Worth, S) \in Nat
<1>1. IsFiniteSet(S)
  BY FS_Subset DEF RiskAssumption
<1>2. ASSUME NEW i \in S PROVE Worth[i] \in Nat
  <2>1. portfolio.held[i] \in Nat /\ quote[i] \in Nat /\ Base \in Nat
    BY DEF RiskAssumption, RiskTypeOK, Snapshots
  <2>2. \A x, y \in Nat : x * y \in Nat
    OBVIOUS
  <2> QED BY <2>1, <2>2 DEF Worth, Unit
<1> QED BY <1>1, <1>2, SumNatural

LEMMA GrossIs ==
    ASSUME RiskAssumption, RiskTypeOK
    PROVE  portfolioGross(portfolio.held) = SumFunctionOnSet(Worth, Instruments)
           /\ portfolioGross(portfolio.held) \in Nat
BY WorthIs DEF portfolioGross, Worth

\* An approved intent that the batch still held.
LEMMA ApprovedOrder ==
    ASSUME RiskAssumption, RiskInv, NEW i \in batch, capIntent(i) > 0
    PROVE  LET a == [i EXCEPT !.qty = capIntent(i)] IN
           /\ a \in Orders /\ a \notin approved
           /\ a.instrument = i.instrument /\ a.side = i.side /\ a.qty = capIntent(i)
           /\ CashPrice(a) = CashPrice(i) /\ AdversePrice(a) = AdversePrice(i)
           /\ ReferencePrice(a) = ReferencePrice(i)
           /\ \A b \in approved : b.instrument # a.instrument
<1> DEFINE a == [i EXCEPT !.qty = capIntent(i)]
<1>1. i \in OrderIntents /\ capIntent(i) \in Nat \ {0}
  <2>1. i \in OrderIntents
    BY DEF RiskInv, RiskTypeOK
  <2> QED BY <2>1, Capped DEF RiskInv
<1>2. /\ a \in Orders /\ a.instrument = i.instrument /\ a.side = i.side
      /\ a.qty = capIntent(i)
  <2> DEFINE q == capIntent(i)
  <2>1. q \in Nat \ {0}
    BY <1>1
  <2> HIDE DEF q
  <2>2. [i EXCEPT !.qty = q] \in Orders /\ [i EXCEPT !.qty = q].qty = q
        /\ [i EXCEPT !.qty = q].instrument = i.instrument /\ [i EXCEPT !.qty = q].side = i.side
    BY <1>1, <2>1 DEF Orders, OrderIntents
  <2> QED BY <2>2 DEF q
<1> HIDE DEF a
<1>3. \A b \in approved : b.instrument # a.instrument
  BY <1>2 DEF RiskInv, Shape
<1>4. /\ CashPrice(a) = CashPrice(i) /\ AdversePrice(a) = AdversePrice(i)
      /\ ReferencePrice(a) = ReferencePrice(i)
  BY <1>2 DEF CashPrice, AdversePrice, ReferencePrice
<1>5. a \notin approved
  BY <1>3
<1> QED BY <1>2, <1>3, <1>4, <1>5 DEF a

\* Approving charges the order to every account of the evaluation.
LEMMA ApproveKeeps ==
    ASSUME RiskAssumption, RiskInv, decision = "risk", NEW i \in batch,
           ~Rejects(i), capIntent(i) > 0, Approve(i, capIntent(i)),
           portfolio' = portfolio, quote' = quote, policy' = policy
    PROVE  /\ Evaluated' /\ eval' \in [free : Int, gross : Nat, turnover : Nat]
           /\ IsFiniteSet(approved') /\ approved' \in SUBSET Orders
           /\ \A a, b \in approved' : a.instrument = b.instrument => a = b
           /\ \A a \in approved', b \in batch \ {i} : a.instrument # b.instrument
<1> DEFINE q == capIntent(i)
           a == [i EXCEPT !.qty = q]
           K == CashPrice(i)
           D == AdversePrice(i)
           R == ReferencePrice(i)
<1>1. /\ RiskTypeOK /\ Shape /\ Evaluated /\ i \in OrderIntents
      /\ i.instrument \in Instruments /\ i.side \in {"buy", "sell"}
  BY DEF RiskInv, RiskTypeOK, OrderIntents, Sides
<1>2. /\ a \in Orders /\ a \notin approved /\ a.instrument = i.instrument /\ a.side = i.side
      /\ a.qty = q /\ CashPrice(a) = K /\ AdversePrice(a) = D /\ ReferencePrice(a) = R
      /\ \A b \in approved : b.instrument # a.instrument
  BY ApprovedOrder
<1>3. /\ q \in Nat \ {0}
      /\ policy.maxTurnover > 0 => q * D <= policy.maxTurnover * Unit - eval.turnover
      /\ i.side = "sell" => q <= portfolio.held[i.instrument]
      /\ i.side = "buy" => q * K <= eval.free
      /\ i.side = "buy" /\ policy.maxGross > 0 => q * R <= policy.maxGross * Unit - eval.gross
  BY <1>1, Capped
<1>4. K \in Nat \ {0} /\ D \in Nat \ {0} /\ R \in Nat \ {0} /\ Unit \in Nat \ {0}
  BY <1>1, PricesAre DEF Sides
<1>5. /\ approved' = approved \cup {a}
      /\ eval' = [turnover |-> eval.turnover + q * D,
                  gross |-> eval.gross + q * (IF i.side = "buy" THEN R ELSE -R),
                  free |-> eval.free - (IF i.side = "buy" THEN q * K ELSE 0)]
  BY DEF Approve
<1>6. /\ eval.free \in Int /\ eval.gross \in Nat /\ eval.turnover \in Nat
      /\ portfolio.cash \in Nat /\ portfolio.spent \in Nat
      /\ portfolio.held \in [Instruments -> Nat]
      /\ policy.maxTurnover \in Nat /\ policy.maxGross \in Nat /\ policy.reserve \in Nat
      /\ policy.maxPositions \in Nat
  BY <1>1 DEF RiskAssumption, RiskTypeOK, Snapshots, PolicyValid
<1>7. IsFiniteSet(approved) /\ approved \in SUBSET Orders
  BY <1>1 DEF Shape
<1>8. /\ Tied(approved) \in Nat /\ Turned(approved) \in Nat /\ Shifted(approved) \in Int
  BY <1>1, <1>7, SumsAre
<1> HIDE DEF q, a, K, D, R
<1>9. /\ IsFiniteSet(approved')
      /\ Tied(approved)' = Tied(approved) + TiedUp[a]
      /\ Turned(approved)' = Turned(approved) + Turnover[a]
      /\ Shifted(approved)' = Shifted(approved) + Shift[a]
  <2>1. TiedUp' = TiedUp /\ Turnover' = Turnover /\ Shift' = Shift
    BY AmountsStand
  <2>2. /\ IsFiniteSet(approved \cup {a}) /\ Tied(approved \cup {a}) = Tied(approved) + TiedUp[a]
        /\ Turned(approved \cup {a}) = Turned(approved) + Turnover[a]
        /\ Shifted(approved \cup {a}) = Shifted(approved) + Shift[a]
    BY <1>1, <1>2, <1>7, SumsGrow
  <2> QED BY <1>5, <2>1, <2>2 DEF Tied, Turned, Shifted
<1>10. /\ q * K \in Nat /\ q * D \in Nat /\ q * R \in Nat
       /\ TiedUp[a] = (IF i.side = "buy" THEN q * K ELSE 0) /\ Turnover[a] = q * D
       /\ Shift[a] = (IF i.side = "buy" THEN q * R ELSE -(q * R))
  <2>1. /\ a.qty * CashPrice(a) \in Nat /\ a.qty * AdversePrice(a) \in Nat
        /\ a.qty * ReferencePrice(a) \in Nat
        /\ TiedUp[a] = (IF a.side = "buy" THEN a.qty * CashPrice(a) ELSE 0)
        /\ Turnover[a] = a.qty * AdversePrice(a)
        /\ Shift[a] = (IF a.side = "buy" THEN a.qty * ReferencePrice(a)
                       ELSE -(a.qty * ReferencePrice(a)))
    BY <1>1, <1>2, OrderValues
  <2> QED BY <1>2, <2>1
<1>11. q * (IF i.side = "buy" THEN R ELSE -R) = Shift[a]
  <2>1. q * (-R) = -(q * R)
    BY <1>3, <1>4
  <2> QED BY <1>10, <2>1
<1>12. /\ eval'.turnover = eval.turnover + q * D /\ eval'.gross = eval.gross + Shift[a]
       /\ eval'.free = eval.free - TiedUp[a]
  BY <1>5, <1>10, <1>11
<1>13. CashEvaluated'
  <2>1. eval.free = portfolio.cash - policy.reserve * Unit - Tied(approved)
        /\ (Tied(approved) = 0 \/ eval.free >= 0)
    BY <1>1 DEF Evaluated, CashEvaluated
  <2> DEFINE r == policy.reserve * Unit
  <2>2. r \in Int
    BY <1>4, <1>6
  <2> HIDE DEF r
  <2>3. eval.free = portfolio.cash - r - Tied(approved)
    BY <2>1 DEF r
  <2>4. eval'.free = portfolio.cash - r - Tied(approved)'
    BY <1>6, <1>8, <1>9, <1>10, <1>12, <2>2, <2>3
  <2>5. Tied(approved)' = 0 \/ eval'.free >= 0
    <3>1. CASE i.side = "buy"
      BY <1>3, <1>6, <1>10, <1>12, <3>1
    <3>2. CASE i.side = "sell"
      BY <1>6, <1>8, <1>9, <1>10, <1>12, <2>1, <3>2
    <3> QED BY <1>1, <3>1, <3>2
  <2> QED BY <2>4, <2>5 DEF CashEvaluated, r
<1>14. TurnoverEvaluated'
  <2>1. eval.turnover = portfolio.spent + Turned(approved)
    BY <1>1 DEF Evaluated, TurnoverEvaluated
  <2>2. eval'.turnover = portfolio.spent + Turned(approved)'
    BY <1>6, <1>8, <1>9, <1>10, <1>12, <2>1
  <2>3. policy.maxTurnover > 0 => eval'.turnover <= policy.maxTurnover * Unit
    <3>1. policy.maxTurnover * Unit \in Int
      BY <1>4, <1>6
    <3> QED BY <1>3, <1>6, <1>10, <1>12, <3>1
  <2> QED BY <2>2, <2>3 DEF TurnoverEvaluated
<1>15. eval' \in [free : Int, gross : Nat, turnover : Nat] /\ GrossEvaluated'
  <2> DEFINE gross == portfolioGross(portfolio.held)
             k == i.instrument
  <2>1. /\ eval.gross = gross + Shifted(approved)
        /\ policy.maxGross > 0 => eval.gross <= policy.maxGross * Unit \/ eval.gross <= gross
        /\ eval.gross >= SumFunctionOnSet(Worth, Untouched)
        /\ \A b \in approved : b.side = "sell" => b.qty <= portfolio.held[b.instrument]
    BY <1>1 DEF Evaluated, GrossEvaluated
  <2>2. gross \in Nat /\ portfolioGross(portfolio.held)' = gross
    <3>1. gross \in Nat
      BY <1>1, GrossIs
    <3>2. portfolioGross(portfolio.held)' = gross
      BY DEF portfolioGross
    <3> QED BY <3>1, <3>2
  <2> HIDE DEF gross
  <2>3. Untouched' = Untouched \ {k} /\ k \in Untouched /\ Worth' = Worth
    <3>1. Worth' = Worth
      BY DEF Worth
    <3> QED BY <1>1, <1>2, <1>5, <3>1 DEF Untouched
  <2>4. /\ SumFunctionOnSet(Worth, Untouched) = Worth[k] + SumFunctionOnSet(Worth, Untouched \ {k})
        /\ SumFunctionOnSet(Worth, Untouched \ {k}) \in Nat /\ Worth[k] \in Nat
    <3>1. Untouched \in SUBSET Instruments /\ Untouched \ {k} \in SUBSET Instruments
      BY DEF Untouched
    <3>2. IsFiniteSet(Untouched) /\ \A j \in Untouched : Worth[j] \in Nat
      BY <1>1, <3>1, WorthIs
    <3>3. SumFunctionOnSet(Worth, Untouched \ {k}) \in Nat
      BY <1>1, <3>1, WorthIs
    <3>4. \A j \in Untouched : Worth[j] \in Int
      BY <3>2
    <3>5. SumFunctionOnSet(Worth, Untouched) = Worth[k] + SumFunctionOnSet(Worth, Untouched \ {k})
      BY <2>3, <3>2, <3>4, SumRemove
    <3> QED BY <2>3, <3>2, <3>3, <3>5
  <2>5. i.side = "sell" => q * R <= Worth[k]
    <3>1. Worth[k] = portfolio.held[k] * R
      BY <1>1 DEF Worth, R, ReferencePrice
    <3>2. portfolio.held[k] \in Nat
      BY <1>1, <1>6
    <3> QED BY <1>3, <1>4, <3>1, <3>2, Scales
  <2>6. eval'.gross >= SumFunctionOnSet(Worth, Untouched)'
    <3>1. SumFunctionOnSet(Worth, Untouched)' = SumFunctionOnSet(Worth, Untouched \ {k})
      BY <2>3
    <3>2. CASE i.side = "buy"
      BY <1>6, <1>10, <1>12, <2>1, <2>4, <3>1, <3>2
    <3>3. CASE i.side = "sell"
      BY <1>6, <1>10, <1>12, <2>1, <2>4, <2>5, <3>1, <3>3
    <3> QED BY <1>1, <3>2, <3>3
  <2>7. eval'.gross \in Nat
    <3>1. SumFunctionOnSet(Worth, Untouched)' \in Nat
      BY <2>3, <2>4
    <3>2. eval'.gross \in Int
      BY <1>6, <1>10, <1>12
    <3> QED BY <2>6, <3>1, <3>2
  <2>8. eval' \in [free : Int, gross : Nat, turnover : Nat]
    <3>1. eval'.free \in Int /\ eval'.turnover \in Nat
      BY <1>6, <1>10, <1>12
    <3> QED BY <1>5, <2>7, <3>1
  <2>9. eval'.gross = gross + Shifted(approved)'
    BY <1>6, <1>8, <1>9, <1>10, <1>12, <2>1, <2>2
  <2>10. policy.maxGross > 0 => eval'.gross <= policy.maxGross * Unit \/ eval'.gross <= gross
    <3>1. policy.maxGross * Unit \in Int
      BY <1>4, <1>6
    <3>2. CASE i.side = "buy"
      BY <1>3, <1>6, <1>10, <1>12, <3>1, <3>2
    <3>3. CASE i.side = "sell"
      BY <1>6, <1>10, <1>12, <2>1, <2>2, <3>1, <3>3
    <3> QED BY <1>1, <3>2, <3>3
  <2>11. \A b \in approved' : b.side = "sell" => b.qty <= portfolio.held[b.instrument]
    BY <1>2, <1>3, <1>5, <2>1
  <2> QED BY <2>2, <2>6, <2>8, <2>9, <2>10, <2>11 DEF GrossEvaluated, gross
<1>16. FewOpen(portfolio.held)'
  <2> DEFINE held == portfolio.held
  <2>1. FewOpen(held)
    BY <1>1 DEF Evaluated
  <2>2. IsFiniteSet(Opening(held)) /\ Cardinality(Opening(held)) \in Nat
    BY <1>7, FS_Subset, FS_CardinalityType DEF Opening
  <2>3. Cardinality(OpenIn(held)) \in Nat
    BY <1>1, WorthIs, FS_CardinalityType DEF OpenIn
  <2>4. CASE i.side = "buy" /\ held[i.instrument] = 0
    <3>1. Opening(portfolio.held)' = Opening(held) \cup {a} /\ a \notin Opening(held)
      BY <1>2, <1>5, <2>4 DEF Opening
    <3>2. Cardinality(Opening(portfolio.held)') = Cardinality(Opening(held)) + 1
      BY <2>2, <3>1, FS_AddElement
    <3>3. policy.maxPositions > 0 =>
            Cardinality(OpenIn(held)) + Cardinality(Opening(held)) < policy.maxPositions
      <4>1. ~(held[i.instrument] > 0)
        BY <2>4
      <4>2. Opening(held) = {b \in approved : b.side = "buy" /\ held[b.instrument] = 0}
        BY DEF Opening
      <4>3. policy.maxPositions > 0 =>
              ~(Cardinality(OpenIn(held)) + Cardinality(Opening(held)) >= policy.maxPositions)
        BY <2>4, <4>1, <4>2 DEF Rejects
      <4> QED BY <1>6, <2>2, <2>3, <4>3
    <3>4. OpenIn(portfolio.held)' = OpenIn(held)
      BY DEF OpenIn
    <3> QED BY <1>6, <2>2, <2>3, <3>2, <3>3, <3>4 DEF FewOpen
  <2>5. CASE ~(i.side = "buy" /\ held[i.instrument] = 0)
    <3>1. Opening(portfolio.held)' = Opening(held)
      BY <1>2, <1>5, <2>5 DEF Opening
    <3>2. OpenIn(portfolio.held)' = OpenIn(held)
      BY DEF OpenIn
    <3> QED BY <2>1, <3>1, <3>2 DEF FewOpen
  <2> QED BY <2>4, <2>5
<1>17. /\ approved' \in SUBSET Orders
       /\ \A b, c \in approved' : b.instrument = c.instrument => b = c
       /\ \A b \in approved', c \in batch \ {i} : b.instrument # c.instrument
  <2>1. /\ \A b, c \in approved : b.instrument = c.instrument => b = c
        /\ \A b, c \in batch : b.instrument = c.instrument => b = c
        /\ \A b \in approved, c \in batch : b.instrument # c.instrument
    BY <1>1 DEF RiskTypeOK, Shape
  <2> QED BY <1>2, <1>5, <1>7, <2>1
<1> QED BY <1>9, <1>13, <1>14, <1>15, <1>16, <1>17 DEF Evaluated

\* What stands still keeps what was shown of it.
LEMMA EvaluatedStands ==
    ASSUME Evaluated, portfolio' = portfolio, quote' = quote, policy' = policy, eval' = eval,
           approved' = approved
    PROVE  Evaluated'
<1>1. TiedUp' = TiedUp /\ Turnover' = Turnover /\ Shift' = Shift /\ Worth' = Worth
  BY AmountsStand DEF Worth
<1>2. portfolioGross(portfolio.held)' = portfolioGross(portfolio.held)
  BY DEF portfolioGross
<1>3. CashEvaluated'
  BY <1>1 DEF Evaluated, CashEvaluated, Tied
<1>4. TurnoverEvaluated'
  BY <1>1 DEF Evaluated, TurnoverEvaluated, Turned
<1>5. GrossEvaluated'
  <2>1. Untouched' = Untouched
    BY DEF Untouched
  <2> QED BY <1>1, <1>2, <2>1 DEF Evaluated, GrossEvaluated, Shifted
<1>6. FewOpen(portfolio.held)'
  <2>1. Opening(portfolio.held)' = Opening(portfolio.held)
        /\ OpenIn(portfolio.held)' = OpenIn(portfolio.held)
    BY DEF Opening, OpenIn
  <2> QED BY <2>1 DEF Evaluated, FewOpen
<1> QED BY <1>3, <1>4, <1>5, <1>6 DEF Evaluated

LEMMA CoveredStands ==
    ASSUME CountedIn, portfolio' = portfolio, quote' = quote, policy' = policy, fills' = fills,
           approved' = approved, before' = before, unsold' = unsold
    PROVE  CountedIn'
<1>1. TiedUp' = TiedUp /\ Turnover' = Turnover /\ Shift' = Shift
  BY AmountsStand
<1>2. portfolioGross(portfolio.held)' = portfolioGross(portfolio.held)
      /\ portfolioGross(before.held)' = portfolioGross(before.held)
  BY DEF portfolioGross
<1>3. CashCovered'
  BY <1>1 DEF CountedIn, CashCovered, Tied
<1>4. TurnoverCovered'
  BY <1>1 DEF CountedIn, TurnoverCovered, Turned
<1>5. GrossCovered'
  BY <1>1, <1>2 DEF CountedIn, GrossCovered, Shifted
<1>6. OpenCovered'
  <2>1. /\ Opening(before.held)' = Opening(before.held)
        /\ OpenIn(portfolio.held)' = OpenIn(portfolio.held)
        /\ OpenIn(before.held)' = OpenIn(before.held)
    BY DEF Opening, OpenIn
  <2> QED BY <2>1 DEF CountedIn, OpenCovered, FewOpen
<1> QED BY <1>3, <1>4, <1>5, <1>6 DEF CountedIn

-----------------------------------------------------------------------------
\* One lemma for each action.
LEMMA EvaluateKeeps ==
    ASSUME RiskAssumption, RiskInv, NEW i \in batch, EvaluateIntent(i)
    PROVE  RiskInv'
<1>1. /\ decision = "risk" /\ decision' = "risk" /\ batch' = batch \ {i}
      /\ portfolio' = portfolio /\ quote' = quote /\ policy' = policy /\ fills' = fills
      /\ before' = before /\ unsold' = unsold /\ refused' = refused /\ round' = round
  BY DEF EvaluateIntent
<1>2. RiskTypeOK /\ Shape /\ Evaluated /\ fills = {}
  BY <1>1 DEF RiskInv, Shape
<1>3. /\ Evaluated' /\ eval' \in [free : Int, gross : Nat, turnover : Nat]
      /\ IsFiniteSet(approved') /\ approved' \in SUBSET Orders
      /\ \A a, b \in approved' : a.instrument = b.instrument => a = b
      /\ \A a \in approved', b \in batch \ {i} : a.instrument # b.instrument
  <2>1. CASE ~Rejects(i) /\ capIntent(i) > 0 /\ Approve(i, capIntent(i))
    BY <1>1, <2>1, ApproveKeeps
  <2>2. CASE UNCHANGED <<approved, eval>>
    <3>7. Evaluated'
      BY <1>1, <1>2, <2>2, EvaluatedStands
    <3> QED BY <1>2, <2>2, <3>7 DEF RiskTypeOK, Shape
  <2> QED BY <2>1, <2>2 DEF EvaluateIntent
<1>4. RiskTypeOK'
  BY <1>1, <1>2, <1>3 DEF RiskTypeOK
<1>5. Shape'
  BY <1>1, <1>2, <1>3 DEF Shape
<1> QED BY <1>1, <1>3, <1>4, <1>5 DEF RiskInv

\* The broker fills a part of what is approved; what it leaves of the sells is
\* the most by which the exposure can come out above the evaluated one.
LEMMA SubmitKeeps ==
    ASSUME RiskAssumption, RiskInv, NEW Z, Submit(Z)
    PROVE  RiskInv'
<1> DEFINE N == NoVolume(Z)
           F == approved \ N
<1>1. /\ decision = "risk" /\ decision' = "booking" /\ fills' = F /\ before' = portfolio
      /\ unsold' = Unsold(N) /\ portfolio' = portfolio /\ quote' = quote
      /\ policy' = policy /\ batch' = batch /\ eval' = eval /\ approved' = approved
      /\ refused' = refused /\ round' = round
  BY DEF Submit
<1>2. RiskTypeOK /\ Shape /\ Evaluated
  BY <1>1 DEF RiskInv
<1>3. /\ IsFiniteSet(approved) /\ approved \in SUBSET Orders /\ N \subseteq approved
      /\ IsFiniteSet(N) /\ IsFiniteSet(F) /\ N \in SUBSET Orders /\ F \in SUBSET Orders
      /\ F \cup N = approved /\ F \cap N = {}
  <2>1. IsFiniteSet(approved) /\ approved \in SUBSET Orders /\ N \subseteq approved
    BY <1>2 DEF Shape, NoVolume
  <2> QED BY <2>1, FS_Subset
<1> HIDE DEF N, F
<1>4. /\ Tied(approved) = Tied(F) + Tied(N) /\ Turned(approved) = Turned(F) + Turned(N)
      /\ Shifted(approved) = Shifted(F) + Shifted(N)
      /\ Tied(F) \in Nat /\ Tied(N) \in Nat /\ Turned(F) \in Nat /\ Turned(N) \in Nat
      /\ Shifted(F) \in Int /\ Shifted(N) \in Int
  <2>1. \A a \in Orders : TiedUp[a] \in Int /\ Turnover[a] \in Int /\ Shift[a] \in Int
    <3>1. \A a \in Orders : TiedUp[a] \in Nat /\ Turnover[a] \in Nat /\ Shift[a] \in Int
      BY <1>2, OrderValues
    <3> QED BY <3>1
  <2>2. \A a \in F \cup N : TiedUp[a] \in Int /\ Turnover[a] \in Int /\ Shift[a] \in Int
    BY <1>3, <2>1
  <2>3. Tied(F \cup N) = Tied(F) + Tied(N)
    BY <1>3, <2>2, SumUnion DEF Tied
  <2>4. Turned(F \cup N) = Turned(F) + Turned(N)
    BY <1>3, <2>2, SumUnion DEF Turned
  <2>5. Shifted(F \cup N) = Shifted(F) + Shifted(N)
    BY <1>3, <2>2, SumUnion DEF Shifted
  <2>6. /\ Tied(F) \in Nat /\ Tied(N) \in Nat /\ Turned(F) \in Nat /\ Turned(N) \in Nat
        /\ Shifted(F) \in Int /\ Shifted(N) \in Int
    BY <1>2, <1>3, SumsAre
  <2> QED BY <1>3, <2>3, <2>4, <2>5, <2>6
<1>5. Unsold(N) \in Nat /\ -Shifted(N) <= Unsold(N)
  <2> DEFINE U == [a \in N |-> IF a.side = "sell" THEN a.qty * ReferencePrice(a) ELSE 0]
             V == [a \in N |-> Shift[a] + U[a]]
  <2>1. ASSUME NEW a \in N PROVE U[a] \in Nat /\ Shift[a] \in Int /\ V[a] \in Nat
    <3>1. /\ a.qty * ReferencePrice(a) \in Nat /\ a.side \in {"buy", "sell"}
          /\ Shift[a] = (IF a.side = "buy" THEN a.qty * ReferencePrice(a)
                         ELSE -(a.qty * ReferencePrice(a)))
      BY <1>2, <1>3, OrderValues DEF Orders, Sides
    <3>2. U[a] = (IF a.side = "sell" THEN a.qty * ReferencePrice(a) ELSE 0)
          /\ V[a] = Shift[a] + U[a]
      OBVIOUS
    <3> HIDE DEF U, V
    <3> QED BY <3>1, <3>2
  <2>2. \A a \in N : V[a] = Shift[a] + U[a]
    OBVIOUS
  <2>3. Unsold(N) = SumFunctionOnSet(U, N)
    BY DEF Unsold
  <2> HIDE DEF U, V
  <2>4. SumFunctionOnSet(U, N) \in Nat /\ SumFunctionOnSet(V, N) \in Nat
    BY <1>3, <2>1, SumNatural
  <2>5. SumFunctionOnSet(V, N) = SumFunctionOnSet(Shift, N) + SumFunctionOnSet(U, N)
    BY <1>3, <2>1, <2>2, SumPlus
  <2> QED BY <1>4, <2>3, <2>4, <2>5 DEF Shifted
<1>6. /\ portfolio.cash \in Nat /\ portfolio.spent \in Nat /\ Unit \in Nat
      /\ policy.maxTurnover \in Nat /\ policy.maxGross \in Nat /\ policy.reserve \in Nat
      /\ policy.reserve * Unit \in Nat /\ policy.maxTurnover * Unit \in Nat
      /\ policy.maxGross * Unit \in Nat
  <2>1. /\ portfolio.cash \in Nat /\ portfolio.spent \in Nat /\ Base \in Nat
        /\ policy.maxTurnover \in Nat /\ policy.maxGross \in Nat /\ policy.reserve \in Nat
    BY <1>2 DEF RiskAssumption, RiskTypeOK, Snapshots, PolicyValid
  <2>2. \A x, y \in Nat : x * y \in Nat
    OBVIOUS
  <2>3. Unit \in Nat
    BY <2>1, <2>2 DEF Unit
  <2> QED BY <2>1, <2>2, <2>3
<1>7. Tied(fills)' = Tied(F) /\ Turned(fills)' = Turned(F) /\ Shifted(fills)' = Shifted(F)
  BY <1>1, AmountsStand DEF Tied, Turned, Shifted
<1>8. CashCovered'
  <2>1. CASE Tied(approved) = 0
    <3>1. Tied(F) = 0
      BY <1>4, <2>1
    <3> QED BY <1>1, <1>6, <1>7, <3>1 DEF CashCovered
  <2>2. CASE eval.free >= 0
    <3>1. eval.free = portfolio.cash - policy.reserve * Unit - Tied(approved)
      BY <1>2 DEF Evaluated, CashEvaluated
    <3>2. portfolio.cash - Tied(F) >= policy.reserve * Unit
      BY <1>4, <1>6, <2>2, <3>1
    <3> QED BY <1>1, <1>7, <3>2 DEF CashCovered
  <2> QED BY <1>2, <2>1, <2>2 DEF Evaluated, CashEvaluated
<1>9. TurnoverCovered'
  <2>1. /\ eval.turnover = portfolio.spent + Turned(approved)
        /\ policy.maxTurnover > 0 =>
             eval.turnover <= policy.maxTurnover * Unit \/ eval.turnover <= portfolio.spent
    BY <1>2 DEF Evaluated, TurnoverEvaluated
  <2>2. policy.maxTurnover > 0 =>
          \/ portfolio.spent + Turned(F) <= policy.maxTurnover * Unit
          \/ portfolio.spent + Turned(F) <= portfolio.spent
    BY <1>4, <1>6, <2>1
  <2> QED BY <1>1, <1>7, <2>2 DEF TurnoverCovered
<1>10. GrossCovered'
  <2> DEFINE gross == portfolioGross(portfolio.held)
  <2>1. /\ eval.gross = gross + Shifted(approved)
        /\ policy.maxGross > 0 => eval.gross <= policy.maxGross * Unit \/ eval.gross <= gross
        /\ \A a \in approved : a.side = "sell" => a.qty <= portfolio.held[a.instrument]
    BY <1>2 DEF Evaluated, GrossEvaluated
  <2>2. gross \in Nat
    BY <1>2, GrossIs
  <2>3. portfolioGross(portfolio.held)' = gross /\ portfolioGross(before.held)' = gross
    BY <1>1 DEF portfolioGross
  <2> HIDE DEF gross
  <2>4. gross + Shifted(F) <= eval.gross + Unsold(N)
    BY <1>4, <1>5, <2>1, <2>2
  <2>5. policy.maxGross > 0 =>
          \/ gross + Shifted(F) <= policy.maxGross * Unit + Unsold(N)
          \/ gross + Shifted(F) <= gross + Unsold(N)
    BY <1>4, <1>5, <1>6, <2>1, <2>2, <2>4
  <2>6. \A f \in F : f.side = "sell" => f.qty <= portfolio.held[f.instrument]
    BY <1>3, <2>1
  <2> QED BY <1>1, <1>7, <2>3, <2>5, <2>6 DEF GrossCovered
<1>11. OpenCovered'
  <2>1. FewOpen(before.held)'
    <3>1. Opening(before.held)' = Opening(portfolio.held)
          /\ OpenIn(before.held)' = OpenIn(portfolio.held)
      BY <1>1 DEF Opening, OpenIn
    <3> QED BY <1>1, <1>2, <3>1 DEF Evaluated, FewOpen
  <2>2. OpenIn(portfolio.held)' = OpenIn(before.held)'
    BY <1>1 DEF OpenIn
  <2> QED BY <2>1, <2>2 DEF OpenCovered
<1>12. RiskTypeOK'
  BY <1>1, <1>2, <1>3 DEF RiskTypeOK
<1>13. Shape'
  BY <1>1, <1>2, <1>5 DEF Shape, RiskTypeOK
<1> QED BY <1>1, <1>8, <1>9, <1>10, <1>11, <1>12, <1>13 DEF RiskInv, CountedIn

\* A fill that is booked takes out of the account what was set aside for it,
\* and no fill is refused.
LEMMA BookKeeps ==
    ASSUME RiskAssumption, RiskInv, NEW f \in fills, BookFill(f)
    PROVE  RiskInv'
<1> DEFINE k == f.instrument
           K == CashPrice(f)
           D == AdversePrice(f)
           R == ReferencePrice(f)
           E == quote[k] * (Base - policy.slippage) * (Base - policy.fee)
           F == fills \ {f}
           balance == portfolio.cash + CashDelta(f)
           lots == portfolio.held[k] + (IF f.side = "buy" THEN f.qty ELSE -f.qty)
<1>1. /\ decision = "booking" /\ decision' = "booking" /\ before' = before /\ unsold' = unsold
      /\ quote' = quote /\ policy' = policy /\ batch' = batch /\ eval' = eval
      /\ approved' = approved /\ round' = round
  BY DEF BookFill
<1>2. RiskTypeOK /\ Shape /\ CountedIn
  BY <1>1 DEF RiskInv
<1>3. /\ f \in Orders /\ k \in Instruments /\ f.side \in {"buy", "sell"} /\ f.qty \in Nat \ {0}
      /\ fills \in SUBSET Orders /\ fills \subseteq approved
      /\ IsFiniteSet(fills) /\ F \in SUBSET Orders /\ IsFiniteSet(F)
  <2>1. /\ fills \subseteq approved /\ IsFiniteSet(approved) /\ approved \in SUBSET Orders
    BY <1>2 DEF RiskTypeOK, Shape
  <2>2. fills \in SUBSET Orders /\ f \in Orders
    BY <2>1
  <2>3. IsFiniteSet(fills) /\ IsFiniteSet(F)
    BY <2>1, FS_Subset
  <2> QED BY <2>1, <2>2, <2>3 DEF Orders, Sides
<1>4. /\ K \in Nat \ {0} /\ D \in Nat \ {0} /\ R \in Nat \ {0} /\ Unit \in Nat \ {0} /\ E \in Nat
  BY <1>2, <1>3, PricesAre DEF Sides
<1>5. /\ portfolio.cash \in Nat /\ portfolio.spent \in Nat
      /\ portfolio.held \in [Instruments -> Nat] /\ portfolio.held[k] \in Nat
      /\ before.cash \in Nat /\ before.spent \in Nat /\ before.held \in [Instruments -> Nat]
      /\ policy.maxTurnover * Unit \in Int /\ policy.maxGross * Unit \in Int
      /\ policy.reserve * Unit \in Nat /\ unsold \in Nat /\ portfolio \in Snapshots
  <2>1. /\ policy.maxTurnover \in Nat /\ policy.maxGross \in Nat /\ policy.reserve \in Nat
    BY <1>2 DEF RiskAssumption, RiskTypeOK, PolicyValid
  <2>2. \A x, y \in Nat : x * y \in Nat
    OBVIOUS
  <2>3. /\ policy.maxTurnover * Unit \in Int /\ policy.maxGross * Unit \in Int
        /\ policy.reserve * Unit \in Nat
    BY <1>4, <2>1, <2>2
  <2>4. portfolio \in Snapshots /\ before \in Snapshots /\ unsold \in Nat
    BY <1>2 DEF RiskTypeOK, Shape
  <2> QED BY <1>3, <2>3, <2>4 DEF Snapshots
<1>6. /\ f.qty * K \in Nat /\ f.qty * D \in Nat /\ f.qty * R \in Nat
      /\ TiedUp[f] = (IF f.side = "buy" THEN f.qty * K ELSE 0) /\ Turnover[f] = f.qty * D
      /\ Shift[f] = (IF f.side = "buy" THEN f.qty * R ELSE -(f.qty * R))
  BY <1>2, <1>3, OrderValues
<1>7. CashDelta(f) = (IF f.side = "buy" THEN -(f.qty * K) ELSE f.qty * E) /\ f.qty * E \in Nat
  <2>1. CashDelta(f) = f.qty * (IF f.side = "buy" THEN -K ELSE E)
    BY DEF CashDelta
  <2> HIDE DEF K, E
  <2>2. f.qty * (-K) = -(f.qty * K) /\ f.qty * E \in Nat
    BY <1>3, <1>4
  <2> QED BY <2>1, <2>2
<1> HIDE DEF k, K, D, R, E, F, balance, lots
<1>8. /\ Tied(fills) = TiedUp[f] + Tied(F) /\ Turned(fills) = Turnover[f] + Turned(F)
      /\ Shifted(fills) = Shift[f] + Shifted(F)
      /\ Tied(F) \in Nat /\ Turned(F) \in Nat /\ Shifted(F) \in Int
  <2>1. /\ Tied(fills) = TiedUp[f] + Tied(F) /\ Turned(fills) = Turnover[f] + Turned(F)
        /\ Shifted(fills) = Shift[f] + Shifted(F)
    BY <1>2, <1>3, SumsShrink DEF F
  <2> QED BY <1>2, <1>3, <2>1, SumsAre
<1>9. Tied(fills) \in Nat /\ portfolio.cash - Tied(fills) >= 0
  <2>1. Tied(fills) \in Nat
    BY <1>2, <1>3, SumsAre
  <2> QED BY <1>2, <1>5, <2>1 DEF CountedIn, CashCovered
<1>10. balance \in Nat /\ balance - Tied(F) >= portfolio.cash - Tied(fills)
  <2>1. CASE f.side = "buy"
    BY <1>5, <1>6, <1>7, <1>8, <1>9, <2>1 DEF balance
  <2>2. CASE f.side = "sell"
    BY <1>5, <1>6, <1>7, <1>8, <1>9, <2>2 DEF balance
  <2> QED BY <1>3, <2>1, <2>2
<1>11. lots \in Nat
  <2>1. f.side = "sell" => f.qty <= portfolio.held[k]
    BY <1>2 DEF CountedIn, GrossCovered, k
  <2> QED BY <1>3, <1>5, <2>1 DEF lots
<1>12. /\ portfolio' = [portfolio EXCEPT !.cash = balance, !.held[k] = lots,
                        !.spent = @ + f.qty * D]
       /\ fills' = F /\ refused' = refused
  <2>1. ~(balance < 0 \/ lots < 0)
    BY <1>10, <1>11
  <2>2. \/ /\ portfolio' = [portfolio EXCEPT !.cash = balance, !.held[k] = lots,
                            !.spent = @ + f.qty * D]
           /\ fills' = F /\ refused' = refused
        \/ balance < 0 \/ lots < 0
    BY DEF BookFill, F, balance, lots, k, D
  <2> QED BY <2>1, <2>2
<1>13. /\ portfolio' \in Snapshots /\ portfolio'.cash = balance
       /\ portfolio'.spent = portfolio.spent + f.qty * D
       /\ portfolio'.held = [portfolio.held EXCEPT ![k] = lots]
  <2> DEFINE spent == portfolio.spent + f.qty * D
             held == [portfolio.held EXCEPT ![k] = lots]
  <2>1. spent \in Nat /\ held \in [Instruments -> Nat]
    <3>1. spent \in Nat
      BY <1>5, <1>6
    <3>2. held \in [Instruments -> Nat]
      BY <1>5, <1>11
    <3> QED BY <3>1, <3>2
  <2>2. portfolio' = [portfolio EXCEPT !.cash = balance, !.held = held, !.spent = spent]
    BY <1>5, <1>12 DEF Snapshots
  <2> HIDE DEF spent, held
  <2>3. portfolio' \in Snapshots /\ portfolio'.cash = balance /\ portfolio'.spent = spent
        /\ portfolio'.held = held
    BY <1>5, <1>10, <2>1, <2>2 DEF Snapshots
  <2> QED BY <2>3 DEF spent, held
<1>14. Tied(fills)' = Tied(F) /\ Turned(fills)' = Turned(F) /\ Shifted(fills)' = Shifted(F)
  <2>1. TiedUp' = TiedUp /\ Turnover' = Turnover /\ Shift' = Shift
    BY <1>1, AmountsStand
  <2> QED BY <1>12, <2>1 DEF Tied, Turned, Shifted
<1>15. CashCovered'
  <2>1. \/ portfolio.cash - Tied(fills) >= before.cash
        \/ portfolio.cash - Tied(fills) >= policy.reserve * Unit
    BY <1>2 DEF CountedIn, CashCovered
  <2>2. \/ balance - Tied(F) >= before.cash
        \/ balance - Tied(F) >= policy.reserve * Unit
    BY <1>5, <1>8, <1>9, <1>10, <2>1
  <2> QED BY <1>1, <1>13, <1>14, <2>2 DEF CashCovered
<1>16. TurnoverCovered'
  <2>1. policy.maxTurnover > 0 =>
          \/ portfolio.spent + Turned(fills) <= policy.maxTurnover * Unit
          \/ portfolio.spent + Turned(fills) <= before.spent
    BY <1>2 DEF CountedIn, TurnoverCovered
  <2>2. portfolio'.spent + Turned(F) = portfolio.spent + Turned(fills)
    BY <1>5, <1>6, <1>8, <1>13
  <2> QED BY <1>1, <1>14, <2>1, <2>2 DEF TurnoverCovered
<1>17. portfolioGross(portfolio.held)' = portfolioGross(portfolio.held) + Shift[f]
       /\ portfolioGross(portfolio.held) \in Nat /\ Shift[f] \in Int
  <2>0. Shift[f] \in Int
    BY <1>3, <1>6
  <2>1. \A i \in Instruments : Worth[i] \in Int
    <3>1. \A i \in Instruments : Worth[i] \in Nat
      BY <1>2, WorthIs
    <3> QED BY <3>1
  <2>2. Worth'[k] = Worth[k] + Shift[f]
    <3>1. Worth'[k] = lots * R /\ Worth[k] = portfolio.held[k] * R
      BY <1>1, <1>3, <1>5, <1>13 DEF Worth, R, k, ReferencePrice
    <3>2. CASE f.side = "buy"
      <4>1. (portfolio.held[k] + f.qty) * R = portfolio.held[k] * R + f.qty * R
        BY <1>3, <1>4, <1>5
      <4> QED BY <1>6, <3>1, <3>2, <4>1 DEF lots
    <3>3. CASE f.side = "sell"
      <4>1. (portfolio.held[k] + (-f.qty)) * R = portfolio.held[k] * R + -(f.qty * R)
        BY <1>3, <1>4, <1>5
      <4> QED BY <1>6, <3>1, <3>3, <4>1 DEF lots
    <3> QED BY <1>3, <3>2, <3>3
  <2>3. \A i \in Instruments : k # i => Worth'[i] = Worth[i]
    BY <1>1, <1>5, <1>13 DEF Worth
  <2>4. IsFiniteSet(Instruments)
    BY DEF RiskAssumption
  <2>5. SumFunctionOnSet(Worth', Instruments) = SumFunctionOnSet(Worth, Instruments) + Shift[f]
    BY <1>3, <2>0, <2>1, <2>2, <2>3, <2>4, SumMove
  <2>6. portfolioGross(portfolio.held)' = SumFunctionOnSet(Worth', Instruments)
    BY DEF portfolioGross, Worth
  <2> QED BY <1>2, <2>0, <2>5, <2>6, GrossIs
<1>18. GrossCovered'
  <2>1. policy.maxGross > 0 =>
          \/ portfolioGross(portfolio.held) + Shifted(fills) <= policy.maxGross * Unit + unsold
          \/ portfolioGross(portfolio.held) + Shifted(fills) <= portfolioGross(before.held) + unsold
    BY <1>2 DEF CountedIn, GrossCovered
  <2>2. portfolioGross(before.held)' = portfolioGross(before.held)
    BY <1>1 DEF portfolioGross
  <2>3. portfolioGross(portfolio.held)' + Shifted(F) = portfolioGross(portfolio.held) + Shifted(fills)
    BY <1>8, <1>17
  <2>4. \A g \in F : g.side = "sell" => g.qty <= portfolio'.held[g.instrument]
    <3> SUFFICES ASSUME NEW g \in F, g.side = "sell" PROVE g.qty <= portfolio'.held[g.instrument]
      OBVIOUS
    <3>1. g.qty <= portfolio.held[g.instrument] /\ g \in approved /\ f \in approved /\ g # f
      BY <1>2, <1>3 DEF CountedIn, GrossCovered, F
    <3>2. g.instrument # k
      BY <1>2, <3>1 DEF RiskTypeOK, k
    <3> QED BY <1>13, <1>5, <3>1, <3>2
  <2> QED BY <1>1, <1>12, <1>14, <2>1, <2>2, <2>3, <2>4 DEF GrossCovered
<1>19. OpenCovered'
  <2>1. /\ FewOpen(before.held)
        /\ \A i \in OpenIn(portfolio.held) :
             i \in OpenIn(before.held) \/ \E a \in Opening(before.held) : a.instrument = i
    BY <1>2 DEF CountedIn, OpenCovered
  <2>2. Opening(before.held)' = Opening(before.held) /\ OpenIn(before.held)' = OpenIn(before.held)
    BY <1>1 DEF Opening, OpenIn
  <2>3. FewOpen(before.held)'
    BY <1>1, <2>1, <2>2 DEF FewOpen
  <2>4. ASSUME NEW i \in OpenIn(portfolio.held)'
        PROVE  i \in OpenIn(before.held) \/ \E a \in Opening(before.held) : a.instrument = i
    <3>1. i \in Instruments /\ portfolio'.held[i] > 0
      BY DEF OpenIn
    <3>2. CASE portfolio.held[i] > 0
      BY <2>1, <3>1, <3>2 DEF OpenIn
    <3>3. CASE ~(portfolio.held[i] > 0)
      <4>1. portfolio.held[i] = 0
        BY <1>5, <3>1, <3>3
      <4>2. i = k /\ lots > 0
        BY <1>5, <1>13, <3>1, <3>3
      <4>3. f.side = "buy" /\ f \in approved /\ f.instrument = i
        BY <1>3, <4>1, <4>2 DEF lots, k
      <4>4. CASE before.held[i] = 0
        BY <4>3, <4>4 DEF Opening
      <4>5. CASE before.held[i] # 0
        <5>1. before.held[i] > 0
          BY <1>5, <3>1, <4>5
        <5> QED BY <3>1, <5>1 DEF OpenIn
      <4> QED BY <4>4, <4>5
    <3> QED BY <3>2, <3>3
  <2> QED BY <2>2, <2>3, <2>4 DEF OpenCovered
<1>20. RiskTypeOK'
  <2>1. fills' \subseteq approved'
    BY <1>1, <1>3, <1>12 DEF F
  <2> QED BY <1>1, <1>2, <1>13, <2>1 DEF RiskTypeOK
<1>21. Shape'
  BY <1>1, <1>2, <1>12 DEF Shape
<1> QED BY <1>1, <1>15, <1>16, <1>18, <1>19, <1>20, <1>21 DEF RiskInv, CountedIn

LEMMA BookedKeeps ==
    ASSUME RiskAssumption, RiskInv, Booked
    PROVE  RiskInv'
<1>1. /\ decision = "booking" /\ decision' = "booked" /\ fills = {} /\ portfolio' = portfolio
      /\ quote' = quote /\ policy' = policy /\ batch' = batch /\ eval' = eval
      /\ approved' = approved /\ fills' = fills /\ before' = before /\ unsold' = unsold
      /\ refused' = refused /\ round' = round
  BY DEF Booked
<1>2. RiskTypeOK /\ Shape /\ CountedIn
  BY <1>1 DEF RiskInv
<1>3. CountedIn'
  BY <1>1, <1>2, CoveredStands
<1>4. RiskTypeOK' /\ Shape'
  BY <1>1, <1>2 DEF RiskTypeOK, Shape
<1> QED BY <1>1, <1>3, <1>4 DEF RiskInv

\* Between two decisions nothing is approved, and nothing is left to book.
LEMMA DecisionStarts ==
    ASSUME RiskAssumption, RiskInv, NEW p \in Policies, NEW b \in Batches, Decide(p, b)
    PROVE  RiskInv'
<1>1. /\ decision = "idle" /\ decision' = "risk" /\ policy' = p /\ batch' = b /\ approved' = {}
      /\ eval' = StartEvaluation(p) /\ portfolio' = portfolio /\ quote' = quote
      /\ fills' = fills /\ before' = before /\ unsold' = unsold /\ refused' = refused
      /\ round < MaxRounds /\ round' = round + 1
  BY DEF Decide
<1>2. RiskTypeOK /\ Shape /\ fills = {}
  BY <1>1 DEF RiskInv, Shape
<1>3. b \subseteq OrderIntents /\ \A x, y \in b : x.instrument = y.instrument => x = y
  <2>0. PICK S \in SUBSET Instruments : \E f \in [S -> Terms] : b = BatchOf(f)
    BY DEF Batches
  <2>1. PICK f \in [S -> Terms] : b = BatchOf(f)
    BY <2>0
  <2>2. ASSUME NEW x \in b
        PROVE  \E i \in S : x = [instrument |-> i, side |-> f[i].side, qty |-> f[i].qty,
                                 priority |-> f[i].priority]
    BY <2>1 DEF BatchOf
  <2>3. \A i \in S : f[i] \in Terms
    BY <2>1
  <2>4. ASSUME NEW x \in b PROVE x \in OrderIntents
    BY <2>1, <2>2, <2>3 DEF OrderIntents, Terms
  <2>5. \A x, y \in b : x.instrument = y.instrument => x = y
    BY <2>2
  <2> QED BY <2>4, <2>5
<1>4. /\ portfolio.cash \in Nat /\ portfolio.spent \in Nat /\ p.reserve * Unit \in Nat
  <2>1. portfolio.cash \in Nat /\ portfolio.spent \in Nat /\ p.reserve \in Nat /\ Base \in Nat
    BY <1>2 DEF RiskAssumption, RiskTypeOK, Snapshots, PolicyValid
  <2>2. \A x, y \in Nat : x * y \in Nat
    OBVIOUS
  <2> QED BY <2>1, <2>2 DEF Unit
<1>5. portfolioGross(portfolio.held) \in Nat /\ SumFunctionOnSet(Worth, Instruments) \in Nat
      /\ portfolioGross(portfolio.held) = SumFunctionOnSet(Worth, Instruments)
  BY <1>2, GrossIs, WorthIs
<1>6. /\ eval'.free = portfolio.cash - p.reserve * Unit
      /\ eval'.gross = portfolioGross(portfolio.held) /\ eval'.turnover = portfolio.spent
      /\ eval' \in [free : Int, gross : Nat, turnover : Nat]
  BY <1>1, <1>4, <1>5 DEF StartEvaluation
<1>7. Tied(approved)' = 0 /\ Turned(approved)' = 0 /\ Shifted(approved)' = 0
  BY <1>1, SumEmpty DEF Tied, Turned, Shifted
<1>8. CashEvaluated'
  BY <1>1, <1>4, <1>6, <1>7 DEF CashEvaluated
<1>9. TurnoverEvaluated'
  BY <1>1, <1>4, <1>6, <1>7 DEF TurnoverEvaluated
<1>10. GrossEvaluated'
  <2>1. portfolioGross(portfolio.held)' = portfolioGross(portfolio.held)
    BY <1>1 DEF portfolioGross
  <2>2. SumFunctionOnSet(Worth, Untouched)' = SumFunctionOnSet(Worth, Instruments)
    <3>1. Untouched' = Instruments /\ Worth' = Worth
      BY <1>1 DEF Untouched, Worth
    <3> QED BY <3>1
  <2> QED BY <1>1, <1>5, <1>6, <1>7, <2>1, <2>2 DEF GrossEvaluated
<1>11. FewOpen(portfolio.held)'
  BY <1>1 DEF FewOpen, Opening
<1>12. RiskTypeOK'
  <2>1. MaxRounds \in Nat /\ round' \in 0 .. MaxRounds
    BY <1>1, <1>2 DEF RiskAssumption, RiskTypeOK
  <2> QED BY <1>1, <1>2, <1>3, <1>6, <2>1 DEF RiskTypeOK
<1>13. Shape'
  <2>1. IsFiniteSet(approved')
    BY <1>1, FS_EmptySet
  <2> QED BY <1>1, <1>2, <1>3, <2>1 DEF Shape
<1> QED BY <1>1, <1>8, <1>9, <1>10, <1>11, <1>12, <1>13 DEF RiskInv, Evaluated

LEMMA MoveKeeps ==
    ASSUME RiskAssumption, RiskInv, NEW q \in [Instruments -> Prices], Move(q)
    PROVE  RiskInv'
<1>1. /\ decision = "booked" /\ decision' = "idle" /\ quote' = q /\ approved' = {}
      /\ before' = portfolio /\ unsold' = 0 /\ eval' = [free |-> 0, gross |-> 0, turnover |-> 0]
      /\ portfolio' = portfolio /\ policy' = policy /\ batch' = batch /\ fills' = fills
      /\ refused' = refused /\ round' = round
  BY DEF Move
<1>2. RiskTypeOK /\ Shape /\ fills = {}
  BY <1>1 DEF RiskInv, Shape
<1>3. RiskTypeOK'
  BY <1>1, <1>2 DEF RiskTypeOK
<1>4. Shape'
  <2>1. IsFiniteSet(approved')
    BY <1>1, FS_EmptySet
  <2> QED BY <1>1, <1>2, <2>1 DEF Shape, RiskTypeOK
<1> QED BY <1>1, <1>3, <1>4 DEF RiskInv

LEMMA RiskStutter ==
    ASSUME RiskAssumption, RiskInv, UNCHANGED riskVars
    PROVE  RiskInv'
<1>1. /\ decision' = decision /\ portfolio' = portfolio /\ quote' = quote /\ policy' = policy
      /\ batch' = batch /\ eval' = eval /\ approved' = approved /\ fills' = fills
      /\ before' = before /\ unsold' = unsold /\ refused' = refused /\ round' = round
  BY DEF riskVars
<1>2. RiskTypeOK' /\ Shape'
  BY <1>1 DEF RiskInv, RiskTypeOK, Shape
<1>3. decision = "risk" => Evaluated'
  BY <1>1, EvaluatedStands DEF RiskInv
<1>4. decision \in {"booking", "booked"} => CountedIn'
  BY <1>1, CoveredStands DEF RiskInv
<1> QED BY <1>1, <1>2, <1>3, <1>4 DEF RiskInv

LEMMA RiskStarts ==
    ASSUME RiskAssumption, RiskInit
    PROVE  RiskInv
<1>1. /\ portfolio \in Snapshots /\ policy \in Policies /\ quote \in [Instruments -> Prices]
      /\ batch = {} /\ approved = {} /\ fills = {} /\ before = portfolio /\ unsold = 0
      /\ refused = FALSE /\ decision = "idle" /\ round = 0
      /\ eval = [free |-> 0, gross |-> 0, turnover |-> 0]
  BY DEF RiskAssumption, RiskInit
<1>2. RiskTypeOK
  <2>1. 0 \in 0 .. MaxRounds
    BY DEF RiskAssumption
  <2> QED BY <1>1, <2>1 DEF RiskTypeOK
<1>3. Shape
  BY <1>1, FS_EmptySet DEF Shape
<1> QED BY <1>1, <1>2, <1>3 DEF RiskInv

LEMMA RiskStep ==
    ASSUME RiskAssumption, RiskInv, [RiskNext]_riskVars
    PROVE  RiskInv'
<1>1. ASSUME NEW p \in Policies, NEW b \in Batches, Decide(p, b) PROVE RiskInv'
  BY <1>1, DecisionStarts
<1>2. ASSUME NEW i \in batch, EvaluateIntent(i) PROVE RiskInv'
  BY <1>2, EvaluateKeeps
<1>3. ASSUME NEW Z \in SUBSET ZeroVolume, Submit(Z) PROVE RiskInv'
  BY <1>3, SubmitKeeps
<1>4. ASSUME NEW f \in fills, BookFill(f) PROVE RiskInv'
  BY <1>4, BookKeeps
<1>5. CASE Booked
  BY <1>5, BookedKeeps
<1>6. ASSUME NEW q \in [Instruments -> Prices], Move(q) PROVE RiskInv'
  BY <1>6, MoveKeeps
<1>7. CASE UNCHANGED riskVars
  BY <1>7, RiskStutter
<1> QED BY <1>1, <1>2, <1>3, <1>4, <1>5, <1>6, <1>7 DEF RiskNext

\* The largest and the smallest of two numbers.
LEMMA OfTwo ==
    ASSUME NEW x \in Int, NEW y \in Int
    PROVE  /\ Max({x, y}) >= x /\ Max({x, y}) >= y /\ Max({x, y}) \in Int
           /\ Min({x, y}) <= x /\ Min({x, y}) <= y /\ Min({x, y}) \in Int
<1>1. IsFiniteSet({x, y})
  <2>1. IsFiniteSet({x}) /\ IsFiniteSet({y})
    BY FS_Singleton
  <2>2. {x, y} = {x} \cup {y}
    OBVIOUS
  <2> QED BY <2>1, <2>2, FS_Union
<1> DEFINE S == {x, y}
<1>2. IsFiniteSet(S) /\ S # {} /\ S \subseteq Int /\ x \in S /\ y \in S
  BY <1>1
<1> HIDE DEF S
<1>3. /\ Max(S) \in S /\ \A z \in S : z <= Max(S)
      /\ Min(S) \in S /\ \A z \in S : Min(S) <= z
  BY <1>2, Largest, Smallest
<1>4. /\ Max(S) >= x /\ Max(S) >= y /\ Max(S) \in Int
      /\ Min(S) <= x /\ Min(S) <= y /\ Min(S) \in Int
  BY <1>2, <1>3
<1> QED BY <1>4 DEF S

\* The invariant says what the booked portfolio keeps.
LEMMA RiskBounds ==
    ASSUME RiskAssumption, RiskInv
    PROVE  ApprovedIsBookable
<1>1. RiskTypeOK /\ Shape
  BY DEF RiskInv
<1>2. LedgerNeverRefuses
  BY <1>1 DEF Shape, LedgerNeverRefuses
<1>3. ASSUME decision = "booked"
      PROVE  CountedIn /\ fills = {} /\ Tied(fills) = 0 /\ Turned(fills) = 0 /\ Shifted(fills) = 0
  <2>1. CountedIn /\ fills = {}
    BY <1>1, <1>3 DEF RiskInv, Shape
  <2> QED BY <2>1, SumEmpty DEF Tied, Turned, Shifted
<1>4. /\ portfolio.cash \in Nat /\ portfolio.spent \in Nat /\ before.cash \in Nat
      /\ before.spent \in Nat /\ unsold \in Nat
      /\ policy.reserve * Unit \in Int /\ policy.maxTurnover * Unit \in Int
      /\ policy.maxGross * Unit \in Int /\ policy.maxPositions \in Nat
  <2>1. /\ policy.reserve \in Nat /\ policy.maxTurnover \in Nat /\ policy.maxGross \in Nat
        /\ policy.maxPositions \in Nat /\ Base \in Nat
    BY <1>1 DEF RiskAssumption, RiskTypeOK, PolicyValid
  <2>2. \A x, y \in Nat : x * y \in Nat /\ x * y \in Int
    OBVIOUS
  <2>3. Unit \in Nat
    BY <2>1, <2>2 DEF Unit
  <2>4. portfolio \in Snapshots /\ before \in Snapshots /\ unsold \in Nat
    BY <1>1 DEF RiskTypeOK, Shape
  <2> QED BY <2>1, <2>2, <2>3, <2>4 DEF Snapshots
<1>5. ReserveKept
  <2> SUFFICES ASSUME decision = "booked"
               PROVE  portfolio.cash >= Min({before.cash, policy.reserve * Unit})
    BY DEF ReserveKept
  <2>1. portfolio.cash >= before.cash \/ portfolio.cash >= policy.reserve * Unit
    BY <1>3, <1>4 DEF CountedIn, CashCovered
  <2> DEFINE r == policy.reserve * Unit
  <2>2. r \in Int /\ before.cash \in Int
    BY <1>4
  <2> HIDE DEF r
  <2>3. Min({before.cash, r}) <= before.cash /\ Min({before.cash, r}) <= r
        /\ Min({before.cash, r}) \in Int
    BY <2>2, OfTwo
  <2> QED BY <1>4, <2>1, <2>2, <2>3 DEF r
<1>6. TurnoverWithinLimit
  <2> SUFFICES ASSUME decision = "booked", policy.maxTurnover > 0
               PROVE  portfolio.spent <= Max({policy.maxTurnover * Unit, before.spent})
    BY DEF TurnoverWithinLimit
  <2>1. portfolio.spent <= policy.maxTurnover * Unit \/ portfolio.spent <= before.spent
    BY <1>3, <1>4 DEF CountedIn, TurnoverCovered
  <2> DEFINE r == policy.maxTurnover * Unit
  <2>2. r \in Int /\ before.spent \in Int
    BY <1>4
  <2> HIDE DEF r
  <2>3. Max({r, before.spent}) >= before.spent /\ Max({r, before.spent}) >= r
        /\ Max({r, before.spent}) \in Int
    BY <2>2, OfTwo
  <2> QED BY <1>4, <2>1, <2>2, <2>3 DEF r
<1>7. GrossWithinLimit
  <2> SUFFICES ASSUME decision = "booked", policy.maxGross > 0
               PROVE  portfolioGross(portfolio.held)
                        <= Max({policy.maxGross * Unit, portfolioGross(before.held)}) + unsold
    BY DEF GrossWithinLimit
  <2> DEFINE r == policy.maxGross * Unit
             g == portfolioGross(portfolio.held)
             h == portfolioGross(before.held)
  <2>1. r \in Int /\ g \in Nat /\ h \in Nat
    <3>1. g \in Nat
      BY <1>1, GrossIs
    <3>2. h \in Nat
      <4> DEFINE W == [i \in Instruments |-> before.held[i] * (quote[i] * Unit)]
      <4>1. \A i \in Instruments : W[i] \in Nat
        <5>1. \A i \in Instruments : before.held[i] \in Nat /\ quote[i] \in Nat /\ Base \in Nat
          BY <1>1 DEF RiskAssumption, RiskTypeOK, Shape, Snapshots
        <5>2. \A x, y \in Nat : x * y \in Nat
          OBVIOUS
        <5> QED BY <5>1, <5>2 DEF Unit
      <4>2. h = SumFunctionOnSet(W, Instruments)
        BY DEF portfolioGross
      <4> HIDE DEF W, h
      <4> QED BY <4>1, <4>2, SumNatural DEF RiskAssumption
    <3> QED BY <1>4, <3>1, <3>2
  <2>2. g + Shifted(fills) <= r + unsold \/ g + Shifted(fills) <= h + unsold
    BY <1>3 DEF CountedIn, GrossCovered
  <2> HIDE DEF r, g, h
  <2>3. Max({r, h}) >= r /\ Max({r, h}) >= h /\ Max({r, h}) \in Int
    BY <2>1, OfTwo
  <2>4. g <= Max({r, h}) + unsold
    BY <1>3, <1>4, <2>1, <2>2, <2>3
  <2> QED BY <2>4 DEF r, g, h
<1>8. PositionsWithinLimit
  <2> SUFFICES ASSUME decision = "booked", policy.maxPositions > 0
               PROVE  Cardinality(OpenIn(portfolio.held))
                        <= Max({policy.maxPositions, Cardinality(OpenIn(before.held))})
    BY DEF PositionsWithinLimit
  <2> DEFINE O == OpenIn(portfolio.held)
             B == OpenIn(before.held)
             A == Opening(before.held)
             J == {a.instrument : a \in A}
  <2>1. /\ A = {} \/ Cardinality(B) + Cardinality(A) <= policy.maxPositions
        /\ \A i \in O : i \in B \/ \E a \in A : a.instrument = i
    BY <1>3 DEF CountedIn, OpenCovered, FewOpen
  <2>2. IsFiniteSet(O) /\ IsFiniteSet(B)
    <3>1. O \in SUBSET Instruments /\ B \in SUBSET Instruments
      BY DEF OpenIn
    <3> QED BY <1>1, <3>1, WorthIs
  <2>3. IsFiniteSet(A)
    <3>1. A \in SUBSET approved /\ IsFiniteSet(approved)
      BY <1>1 DEF Shape, Opening
    <3> QED BY <3>1, FS_Subset
  <2> HIDE DEF O, B, A
  <2>4. IsFiniteSet(J) /\ Cardinality(J) <= Cardinality(A)
    <3> DEFINE f == [a \in A |-> a.instrument]
    <3>1. f \in Surjection(A, J)
      BY DEF Surjection
    <3> HIDE DEF f, J
    <3> QED BY <2>3, <3>1, FS_Surjection
  <2>5. O \subseteq B \cup J
    BY <2>1
  <2> HIDE DEF J
  <2>6. /\ Cardinality(O) \in Nat /\ Cardinality(B) \in Nat /\ Cardinality(A) \in Nat
        /\ Cardinality(J) \in Nat
    BY <2>2, <2>3, <2>4, FS_CardinalityType
  <2>7. Cardinality(O) <= Cardinality(B) + Cardinality(J)
    <3>1. IsFiniteSet(B \cup J) /\ Cardinality(B \cup J) = Cardinality(B) + Cardinality(J) - Cardinality(B \cap J)
      BY <2>2, <2>4, FS_Union
    <3>2. Cardinality(B \cap J) \in Nat /\ Cardinality(B \cup J) \in Nat
      <4>1. IsFiniteSet(B \cap J)
        <5>1. B \cap J \in SUBSET B
          OBVIOUS
        <5> QED BY <2>2, <5>1, FS_Subset
      <4> QED BY <3>1, <4>1, FS_CardinalityType
    <3>3. Cardinality(O) <= Cardinality(B \cup J)
      BY <2>5, <3>1, FS_Subset
    <3> QED BY <2>6, <3>1, <3>2, <3>3
  <2>8. Cardinality(O) <= policy.maxPositions \/ Cardinality(O) <= Cardinality(B)
    <3>1. CASE A = {}
      <4>1. Cardinality(A) = 0
        BY <3>1, FS_EmptySet
      <4> QED BY <2>4, <2>6, <2>7, <4>1
    <3>2. CASE A # {}
      BY <1>4, <2>1, <2>4, <2>6, <2>7, <3>2
    <3> QED BY <3>1, <3>2
  <2>9. Max({policy.maxPositions, Cardinality(B)}) >= policy.maxPositions
        /\ Max({policy.maxPositions, Cardinality(B)}) >= Cardinality(B)
        /\ Max({policy.maxPositions, Cardinality(B)}) \in Int
    <3>1. policy.maxPositions \in Int /\ Cardinality(B) \in Int
      BY <1>4, <2>6
    <3> QED BY <3>1, OfTwo
  <2>10. Cardinality(O) <= Max({policy.maxPositions, Cardinality(B)})
    BY <1>4, <2>6, <2>8, <2>9
  <2> QED BY <2>10 DEF O, B
<1> QED BY <1>1, <1>2, <1>5, <1>6, <1>7, <1>8 DEF ApprovedIsBookable

-----------------------------------------------------------------------------
\* PortfolioRiskEngine.Evaluate and the ledger agree on every batch: what was
\* approved is booked whatever the order of the fills and whatever the broker
\* leaves unfilled, and the booked portfolio keeps the reserve and the limits
\* of exposure, positions and turnover; for any instruments, prices, policies
\* and number of decisions.
THEOREM ApprovedBookable == ASSUME RiskAssumption PROVE RiskSpec => []ApprovedIsBookable
<1>1. RiskInit => RiskInv
  BY RiskStarts
<1>2. RiskInv /\ [RiskNext]_riskVars => RiskInv'
  BY RiskStep
<1>3. RiskInv => ApprovedIsBookable
  BY RiskBounds
<1> QED BY <1>1, <1>2, <1>3, PTL DEF RiskSpec

------------------------------------------------------------------------------
\* A set of numbers up to m has a greatest element.
LEMMA GreatestExists ==
    ASSUME NEW m \in Nat, NEW T \in SUBSET (0 .. m), T # {}
    PROVE  Max(T) \in T /\ \A y \in T : y <= Max(T)
<1>1. IsFiniteSet(0 .. m)
  BY FS_Interval
<1>2. IsFiniteSet(T) /\ T \subseteq Int
  <2> DEFINE I == 0 .. m
  <2>1. IsFiniteSet(I) /\ T \in SUBSET I
    BY <1>1
  <2>2. T \subseteq Int
    OBVIOUS
  <2> HIDE DEF I
  <2> QED BY <2>1, <2>2, FS_Subset
<1>3. \E x \in T : \A y \in T : x >= y
  BY <1>2, LargestExists
<1>4. Max(T) \in T /\ \A y \in T : Max(T) >= y
  BY <1>3 DEF Max
<1> QED BY <1>4

\* A non-empty set of numbers has a least element.
LEMMA LeastIn ==
    ASSUME NEW S, S \subseteq Nat, S # {}
    PROVE  Min(S) \in S /\ \A y \in S : Min(S) <= y
<1>1. PICK x \in S : TRUE
  OBVIOUS
<1> DEFINE L == {n \in 0 .. x : \A y \in S : n <= y}
<1>2. L \in SUBSET (0 .. x) /\ 0 \in L /\ x \in Nat
  BY <1>1
<1>3. Max(L) \in L /\ \A n \in L : n <= Max(L)
  <2> HIDE DEF L
  <2> QED BY <1>2, GreatestExists
<1>4. Max(L) \in S
  <2> SUFFICES ASSUME Max(L) \notin S PROVE FALSE
    OBVIOUS
  <2> DEFINE n == Max(L)
  <2>1. n \in Nat /\ n <= x /\ \A y \in S : n <= y
    BY <1>3
  <2> HIDE DEF n
  <2>2. \A y \in S : n + 1 <= y
    BY <2>1 DEF n
  <2>3. n + 1 \in L
    BY <1>1, <2>1, <2>2
  <2> QED BY <1>3, <2>1, <2>3 DEF n
<1>5. \E l \in S : \A y \in S : l <= y
  BY <1>3, <1>4
<1> QED BY <1>5 DEF Min

\* So has one of the numbers f gives to the first n and of one more.
LEMMA GreatestOf ==
    ASSUME NEW n \in Nat, NEW f \in [1 .. n -> Nat], NEW c \in Nat
    PROVE  LET S == {c} \cup {f[j] : j \in 1 .. n} IN
           S \subseteq Nat /\ Max(S) \in S /\ \A y \in S : y <= Max(S)
<1> DEFINE I == {f[j] : j \in 1 .. n}
           S == {c} \cup I
<1>1. IsFiniteSet(I)
  <2>1. f \in Surjection(1 .. n, I)
    BY DEF Surjection
  <2>2. IsFiniteSet(1 .. n)
    BY FS_Interval
  <2> HIDE DEF I
  <2> QED BY <2>1, <2>2, FS_Surjection
<1>2. I \subseteq Nat
  OBVIOUS
<1>3. IsFiniteSet(S) /\ S # {} /\ S \subseteq Int /\ S \subseteq Nat
  <2> HIDE DEF I
  <2>1. IsFiniteSet({c})
    BY FS_Singleton
  <2>2. IsFiniteSet(S)
    BY <1>1, <2>1, FS_Union
  <2>3. S # {} /\ S \subseteq Nat
    BY <1>2
  <2> HIDE DEF S
  <2> QED BY <2>2, <2>3
<1>4. \E m \in S : \A y \in S : m >= y
  <2> HIDE DEF S
  <2> QED BY <1>3, LargestExists
<1>5. Max(S) \in S /\ \A y \in S : Max(S) >= y
  BY <1>4 DEF Max
<1> QED BY <1>3, <1>5

\* Of two numbers, the larger and the smaller.
LEMMA LargerAndSmaller ==
    ASSUME NEW a \in Int, NEW b \in Int
    PROVE  /\ Max({a, b}) \in {a, b} /\ Max({a, b}) >= a /\ Max({a, b}) >= b
           /\ Min({a, b}) \in {a, b} /\ Min({a, b}) <= a /\ Min({a, b}) <= b
<1>1. \E x \in {a, b} : \A y \in {a, b} : x >= y
  BY SMT
<1>2. \E x \in {a, b} : \A y \in {a, b} : x <= y
  BY SMT
<1>3. Max({a, b}) \in {a, b} /\ \A y \in {a, b} : Max({a, b}) >= y
  BY <1>1 DEF Max
<1>4. Min({a, b}) \in {a, b} /\ \A y \in {a, b} : Min({a, b}) <= y
  BY <1>2 DEF Min
<1> QED BY <1>3, <1>4

\* What the instances give.
LEMMA EngineNumbers ==
    ASSUME BacktestEngineAssumption
    PROVE  /\ LastBar \in Nat /\ LastBar >= 1 /\ Moments \in Nat /\ Moments >= 1 /\ Lookback \in Nat /\ RebalanceInterval \in Nat
           /\ StopDist \in Nat /\ TakeDist \in Nat /\ TrailDist \in Nat
           /\ FallbackStop \in Nat /\ FallbackTake \in Nat /\ TimeStop \in Nat
           /\ Tickers \subseteq Nat /\ 0 \notin Tickers
           /\ Shared \in BOOLEAN /\ Fine \in BOOLEAN /\ Explicit \in BOOLEAN
           /\ \A h \in Shapes : BarPrices(h)
BY DEF BacktestEngineAssumption

\* The highest and the lowest price of a bar are prices of its sub-bars.
LEMMA BarExtremes ==
    ASSUME BacktestEngineAssumption, NEW h, BarPrices(h)
    PROVE  /\ High(h) \in Nat /\ Low(h) \in Nat /\ Low(h) > 0
           /\ \A k \in DOMAIN h.subs : h.subs[k].high <= High(h) /\ Low(h) <= h.subs[k].low
           /\ \E k \in DOMAIN h.subs : h.subs[k].low = Low(h)
           /\ h.subs[1].open \in Low(h) .. High(h) /\ h.close \in Low(h) .. High(h)
<1> DEFINE n == Len(h.subs)
           f == [k \in 1 .. n |-> h.subs[k].high]
           H == {h.subs[k].high : k \in DOMAIN h.subs}
           L == {h.subs[k].low : k \in DOMAIN h.subs}
<1>1. /\ n \in Nat /\ n >= 1 /\ DOMAIN h.subs = 1 .. n
      /\ \A k \in 1 .. n : /\ h.subs[k].high \in Nat /\ h.subs[k].low \in Nat /\ h.subs[k].low > 0
                           /\ h.subs[k].open \in h.subs[k].low .. h.subs[k].high
  <2>1. /\ n \in Nat /\ n >= 1 /\ DOMAIN h.subs = 1 .. n
        /\ \A k \in 1 .. n : h.subs[k] \in [open : Nat, low : Nat \ {0}, high : Nat]
    <3> DEFINE Sub == [open : Nat, low : Nat \ {0}, high : Nat]
    <3>1. h.subs \in Seq(Sub) /\ Len(h.subs) \in 1 .. Moments - 2
      BY DEF BarPrices
    <3>2. Moments \in Nat
      BY EngineNumbers
    <3>3. n \in Nat /\ n >= 1 /\ DOMAIN h.subs = 1 .. n /\ \A k \in 1 .. n : h.subs[k] \in Sub
      <4> HIDE DEF Sub
      <4> QED BY <3>1, <3>2
    <3> QED BY <3>3
  <2>2. \A k \in DOMAIN h.subs : h.subs[k].open \in h.subs[k].low .. h.subs[k].high
    BY DEF BarPrices
  <2>3. ASSUME NEW k \in 1 .. n
        PROVE  /\ h.subs[k].high \in Nat /\ h.subs[k].low \in Nat /\ h.subs[k].low > 0
               /\ h.subs[k].open \in h.subs[k].low .. h.subs[k].high
    <3>1. h.subs[k] \in [open : Nat, low : Nat \ {0}, high : Nat]
      BY <2>1
    <3>2. h.subs[k].high \in Nat /\ h.subs[k].low \in Nat \ {0}
      BY <3>1
    <3> QED BY <2>1, <2>2, <3>2
  <2> QED BY <2>1, <2>3
<1> HIDE DEF n
<1>2. High(h) \in Nat /\ \A k \in 1 .. n : h.subs[k].high <= High(h)
  <2> DEFINE S == {h.subs[1].high} \cup {f[j] : j \in 1 .. n}
  <2>1. f \in [1 .. n -> Nat] /\ h.subs[1].high \in Nat /\ H = S
    BY <1>1
  <2>2. S \subseteq Nat /\ Max(S) \in S /\ \A y \in S : y <= Max(S)
    <3> HIDE DEF f
    <3> QED BY <1>1, <2>1, GreatestOf
  <2>3. \A k \in 1 .. n : h.subs[k].high \in H
    BY <1>1
  <2>4. High(h) = Max(H)
    BY DEF High
  <2> HIDE DEF S, H
  <2> QED BY <2>1, <2>2, <2>3, <2>4
<1>3. Low(h) \in L /\ \A k \in 1 .. n : Low(h) <= h.subs[k].low
  <2>1. L \subseteq Nat /\ L # {} /\ \A k \in 1 .. n : h.subs[k].low \in L
    BY <1>1
  <2>2. Low(h) = Min(L)
    BY DEF Low
  <2> HIDE DEF L
  <2> QED BY <2>1, <2>2, LeastIn
<1>4. \E k \in 1 .. n : h.subs[k].low = Low(h)
  BY <1>1, <1>3
<1>5. Low(h) \in Nat /\ Low(h) > 0
  BY <1>1, <1>4
<1>6. h.subs[1].open \in Low(h) .. High(h)
  <2>1. /\ h.subs[1].low \in Nat /\ h.subs[1].high \in Nat /\ Low(h) <= h.subs[1].low
        /\ h.subs[1].high <= High(h) /\ h.subs[1].open \in h.subs[1].low .. h.subs[1].high
    BY <1>1, <1>2, <1>3
  <2> QED BY <1>2, <1>5, <2>1
<1>7. h.close \in Low(h) .. High(h)
  <2>1. PICK j, k \in 1 .. n : h.subs[j].low <= h.close /\ h.close <= h.subs[k].high
    BY <1>1 DEF BarPrices
  <2>2. h.close \in Nat
    BY DEF BarPrices
  <2>3. /\ h.subs[j].low \in Nat /\ h.subs[k].high \in Nat
        /\ Low(h) <= h.subs[j].low /\ h.subs[k].high <= High(h)
    BY <1>1, <1>2, <1>3
  <2> QED BY <1>2, <1>5, <2>1, <2>2, <2>3
<1> QED BY <1>1, <1>2, <1>3, <1>4, <1>5, <1>6, <1>7


\* A trailing stop that is set was set by a price seen or by the entry.
Backed(trail, entry, seen) == trail > 0 => trail <= Max({entry, seen}) - TrailDist

\* A trailing stop that prices explain is explained by higher ones.
LEMMA BackedBySeen ==
    ASSUME BacktestEngineAssumption, NEW t \in Nat, NEW e \in Nat, NEW a \in Nat, NEW b \in Nat,
           Backed(t, e, a), a <= b
    PROVE  Backed(t, e, b)
<1>1. TrailDist \in Nat
  BY EngineNumbers
<1>2. /\ Max({e, a}) \in {e, a} /\ Max({e, a}) >= e /\ Max({e, a}) >= a
      /\ Max({e, b}) \in {e, b} /\ Max({e, b}) >= e /\ Max({e, b}) >= b
  BY LargerAndSmaller
<1>3. Max({e, a}) <= Max({e, b}) /\ Max({e, a}) \in Nat /\ Max({e, b}) \in Nat
  BY <1>2
<1> QED BY <1>1, <1>3 DEF Backed

\* A trailing stop only rises, and to what the price or the entry sets.
LEMMA RatchetRaises ==
    ASSUME BacktestEngineAssumption, NEW t \in Nat, NEW price \in Nat, NEW e \in Nat
    PROVE  LET r == Ratchet(t, price, e) IN
           r \in Nat /\ r >= t /\ (r = t \/ r <= Max({e, price}) - TrailDist)
<1>1. TrailDist \in Nat
  BY EngineNumbers
<1> DEFINE reference == IF Trailing = "atr" THEN Max({price, e}) ELSE price
<1>2. {price, e} = {e, price}
  OBVIOUS
<1>3. /\ Max({price, e}) \in {price, e} /\ Max({price, e}) >= e /\ Max({price, e}) >= price
  BY LargerAndSmaller
<1>4. reference \in Nat /\ reference <= Max({e, price}) /\ Max({e, price}) \in Nat
  BY <1>2, <1>3
<1>5. Ratchet(t, price, e) = t
      \/ (reference > TrailDist /\ Ratchet(t, price, e) = Max({t, reference - TrailDist}))
  BY <1>1, <1>4 DEF Ratchet
<1> HIDE DEF reference
<1>6. ASSUME reference > TrailDist
      PROVE  LET m == Max({t, reference - TrailDist}) IN
             m \in Nat /\ m >= t /\ (m = t \/ m = reference - TrailDist)
  <2> DEFINE x == reference - TrailDist
  <2>1. x \in Nat
    BY <1>1, <1>4, <1>6
  <2> HIDE DEF x
  <2>2. Max({t, x}) \in {t, x} /\ Max({t, x}) >= t
    BY <2>1, LargerAndSmaller
  <2>3. Max({t, x}) \in Nat /\ Max({t, x}) >= t /\ (Max({t, x}) = t \/ Max({t, x}) = x)
    BY <2>1, <2>2
  <2> QED BY <2>3 DEF x
<1> QED BY <1>1, <1>4, <1>5, <1>6

\* What a sub-bar is scanned with comes from the sub-bars before it.
LEMMA ScannedWith ==
    ASSUME BacktestEngineAssumption, NEW p \in Position, NEW h, BarPrices(h),
           NEW k \in 1 .. Len(h.subs) + 1
    PROVE  /\ TrailAt(p, h, k) \in Nat /\ SeenAt(p, h, k) \in Nat
           /\ SeenAt(p, h, k) <= Max({p.seen, High(h)})
           /\ Backed(p.trail, p.entry, p.seen) => Backed(TrailAt(p, h, k), p.entry, SeenAt(p, h, k))
           /\ LevelAt(p, h, k) \in Int /\ LevelAt(p, h, k) >= p.stop
           /\ LevelAt(p, h, k) >= TrailAt(p, h, k)
           /\ LevelAt(p, h, k) \in {p.stop, TrailAt(p, h, k)}
<1>1. p.trail \in Nat /\ p.seen \in Nat /\ p.entry \in Nat /\ p.stop \in Int
  BY DEF Position
<1> DEFINE n == k - 1
           f == [j \in 1 .. n |-> Ratchet(p.trail, h.subs[j].high, p.entry)]
           g == [j \in 1 .. n |-> h.subs[j].high]
<1>2. /\ n \in Nat /\ High(h) \in Nat
      /\ \A j \in 1 .. n : h.subs[j].high \in Nat /\ h.subs[j].high <= High(h)
  <2> DEFINE Sub == [open : Nat, low : Nat \ {0}, high : Nat]
  <2>1. h.subs \in Seq(Sub)
    BY DEF BarPrices
  <2>2. Len(h.subs) \in Nat /\ DOMAIN h.subs = 1 .. Len(h.subs) /\ \A j \in 1 .. Len(h.subs) : h.subs[j] \in Sub
    <3> HIDE DEF Sub
    <3> QED BY <2>1
  <2>3. n \in Nat /\ \A j \in 1 .. n : j \in 1 .. Len(h.subs)
    BY <2>2
  <2>4. High(h) \in Nat /\ \A j \in DOMAIN h.subs : h.subs[j].high <= High(h)
    BY BarExtremes
  <2> QED BY <2>2, <2>3, <2>4
<1>3. \A j \in 1 .. n : LET r == Ratchet(p.trail, h.subs[j].high, p.entry) IN
        r \in Nat /\ r >= p.trail /\ (r = p.trail \/ r <= Max({p.entry, h.subs[j].high}) - TrailDist)
  BY <1>1, <1>2, RatchetRaises
<1>4. f \in [1 .. n -> Nat] /\ g \in [1 .. n -> Nat]
  BY <1>2, <1>3
<1>5. /\ TrailAt(p, h, k) = Max({p.trail} \cup {f[j] : j \in 1 .. n})
      /\ SeenAt(p, h, k) = Max({p.seen} \cup {g[j] : j \in 1 .. n})
  <2>1. {f[j] : j \in 1 .. n} = {Ratchet(p.trail, h.subs[j].high, p.entry) : j \in 1 .. k - 1}
    OBVIOUS
  <2>2. {g[j] : j \in 1 .. n} = {h.subs[j].high : j \in 1 .. k - 1}
    OBVIOUS
  <2> QED BY <2>1, <2>2 DEF TrailAt, SeenAt
<1>6. /\ TrailAt(p, h, k) \in Nat
      /\ TrailAt(p, h, k) = p.trail \/ \E j \in 1 .. n : TrailAt(p, h, k) = f[j]
  <2> DEFINE S == {p.trail} \cup {f[j] : j \in 1 .. n}
  <2>1. S \subseteq Nat /\ Max(S) \in S
    <3> HIDE DEF f, n
    <3> QED BY <1>1, <1>2, <1>4, GreatestOf
  <2>2. Max(S) = TrailAt(p, h, k)
    BY <1>5
  <2> HIDE DEF f
  <2> QED BY <2>1, <2>2
<1>7. /\ SeenAt(p, h, k) \in Nat /\ SeenAt(p, h, k) >= p.seen
      /\ \A j \in 1 .. n : g[j] <= SeenAt(p, h, k)
      /\ SeenAt(p, h, k) = p.seen \/ \E j \in 1 .. n : SeenAt(p, h, k) = g[j]
  <2> DEFINE S == {p.seen} \cup {g[j] : j \in 1 .. n}
  <2>1. S \subseteq Nat /\ Max(S) \in S /\ \A y \in S : y <= Max(S)
    <3> HIDE DEF g, n
    <3> QED BY <1>1, <1>2, <1>4, GreatestOf
  <2>2. Max(S) = SeenAt(p, h, k)
    BY <1>5
  <2> HIDE DEF g
  <2> QED BY <2>1, <2>2
<1>8. SeenAt(p, h, k) <= Max({p.seen, High(h)})
  <2>1. Max({p.seen, High(h)}) \in {p.seen, High(h)} /\ Max({p.seen, High(h)}) >= p.seen /\ Max({p.seen, High(h)}) >= High(h)
    <3> DEFINE a == p.seen
               b == High(h)
    <3>1. a \in Int /\ b \in Int
      BY <1>1, <1>2
    <3> HIDE DEF a, b
    <3>2. Max({a, b}) \in {a, b} /\ Max({a, b}) >= a /\ Max({a, b}) >= b
      BY <3>1, LargerAndSmaller
    <3> QED BY <3>2 DEF a, b
  <2>2. \A j \in 1 .. n : g[j] <= High(h) /\ g[j] \in Nat
    BY <1>2
  <2> QED BY <1>1, <1>2, <1>7, <2>1, <2>2
<1>9. ASSUME Backed(p.trail, p.entry, p.seen) PROVE Backed(TrailAt(p, h, k), p.entry, SeenAt(p, h, k))
  <2>1. CASE TrailAt(p, h, k) = p.trail
    BY <1>1, <1>7, <1>9, <2>1, BackedBySeen
  <2>2. CASE \E j \in 1 .. n : TrailAt(p, h, k) = f[j]
    <3>1. PICK j \in 1 .. n : TrailAt(p, h, k) = f[j]
      BY <2>2
    <3>2. CASE f[j] = p.trail
      BY <2>1, <3>1, <3>2
    <3>3. CASE f[j] <= Max({p.entry, h.subs[j].high}) - TrailDist
      <4>1. Backed(TrailAt(p, h, k), p.entry, h.subs[j].high)
        BY <3>1, <3>3 DEF Backed
      <4>2. h.subs[j].high \in Nat /\ h.subs[j].high <= SeenAt(p, h, k)
        BY <1>2, <1>7
      <4> QED BY <1>1, <1>6, <1>7, <4>1, <4>2, BackedBySeen
    <3> QED BY <1>3, <3>2, <3>3
  <2> QED BY <1>6, <2>1, <2>2
<1>10. /\ LevelAt(p, h, k) \in {p.stop, TrailAt(p, h, k)}
       /\ LevelAt(p, h, k) >= p.stop /\ LevelAt(p, h, k) >= TrailAt(p, h, k)
  <2> DEFINE t == TrailAt(p, h, k)
             stop == p.stop
  <2>1. t \in Nat /\ stop \in Int /\ LevelAt(p, h, k) = Max({stop, t})
    BY <1>1, <1>6 DEF LevelAt
  <2> HIDE DEF t, stop
  <2>2. Max({stop, t}) \in {stop, t} /\ Max({stop, t}) >= stop /\ Max({stop, t}) >= t
    <3>1. t \in Int /\ stop \in Int
      BY <2>1
    <3> QED BY <3>1, LargerAndSmaller
  <2> QED BY <2>1, <2>2 DEF t, stop
<1> QED BY <1>1, <1>6, <1>7, <1>8, <1>9, <1>10

\* The exit of a scan is at a sub-bar that traded at its price; a position that
\* the bar takes below its stop has one; and what is raised is backed.
LEMMA ScanIsHonest ==
    ASSUME BacktestEngineAssumption, NEW p \in Position, NEW h, BarPrices(h)
    PROVE  LET scan == Scan(p, h)
               e == scan.exit
           IN  /\ scan.trail \in Nat /\ scan.seen \in Nat /\ scan.seen <= Max({p.seen, High(h)})
               /\ Backed(p.trail, p.entry, p.seen) => Backed(scan.trail, p.entry, scan.seen)
               /\ e # NoExit =>
                    /\ e.sub \in DOMAIN h.subs /\ e.reason \in {"trail", "stop", "take"}
                    /\ e.price \in h.subs[e.sub].low .. h.subs[e.sub].high
                    /\ e.reason = "trail" => e.level = scan.trail /\ scan.trail > 0
               /\ p.stop > 0 /\ Low(h) <= p.stop => e # NoExit
<1> DEFINE n == Len(h.subs)
           hits == {k \in DOMAIN h.subs : StopHit(p, h, k) \/ TakeHit(p, h, k)}
           first == IF hits = {} THEN n + 1 ELSE Min(hits)
<1>1. p.stop \in Int /\ p.take \in Nat
  BY DEF Position
<1>2. /\ n \in Nat /\ DOMAIN h.subs = 1 .. n
      /\ \A k \in 1 .. n : /\ h.subs[k].high \in Nat /\ h.subs[k].low \in Nat /\ h.subs[k].open \in Nat
                           /\ h.subs[k].low <= h.subs[k].open /\ h.subs[k].open <= h.subs[k].high
  <2> DEFINE Sub == [open : Nat, low : Nat \ {0}, high : Nat]
  <2>1. h.subs \in Seq(Sub) /\ \A k \in DOMAIN h.subs : h.subs[k].open \in h.subs[k].low .. h.subs[k].high
    BY DEF BarPrices
  <2>2. n \in Nat /\ DOMAIN h.subs = 1 .. n /\ \A j \in 1 .. n : h.subs[j] \in Sub
    <3> HIDE DEF Sub
    <3> QED BY <2>1
  <2>3. \A k \in 1 .. n : h.subs[k].high \in Nat /\ h.subs[k].low \in Nat /\ h.subs[k].open \in Nat
    BY <2>2
  <2>4. \A k \in 1 .. n : h.subs[k].low <= h.subs[k].open /\ h.subs[k].open <= h.subs[k].high
    <3> HIDE DEF n, Sub
    <3> QED BY <2>1, <2>2, <2>3
  <2> QED BY <2>2, <2>3, <2>4
<1>3. first \in 1 .. n + 1 /\ (hits # {} => first \in hits)
  <2>1. hits \subseteq Nat
    BY <1>2
  <2>2. hits # {} => Min(hits) \in hits
    <3> HIDE DEF hits
    <3> QED BY <2>1, LeastIn
  <2>3. \A k \in hits : k \in 1 .. n
    BY <1>2
  <2> HIDE DEF hits
  <2> QED BY <1>2, <2>2, <2>3
<1>4. Scan(p, h) = [trail |-> TrailAt(p, h, first), seen |-> SeenAt(p, h, first),
                    exit |-> IF hits = {} THEN NoExit ELSE SubBar(p, h, first)]
  BY DEF Scan
<1>5. /\ TrailAt(p, h, first) \in Nat /\ SeenAt(p, h, first) \in Nat
      /\ SeenAt(p, h, first) <= Max({p.seen, High(h)})
      /\ Backed(p.trail, p.entry, p.seen) => Backed(TrailAt(p, h, first), p.entry, SeenAt(p, h, first))
      /\ LevelAt(p, h, first) \in Int /\ LevelAt(p, h, first) \in {p.stop, TrailAt(p, h, first)}
      /\ LevelAt(p, h, first) >= TrailAt(p, h, first)
  <2> HIDE DEF first
  <2> QED BY <1>3, ScannedWith
<1>6. ASSUME hits # {}
      PROVE  LET e == SubBar(p, h, first) IN
             /\ e # NoExit /\ e.sub = first /\ first \in DOMAIN h.subs /\ e.reason \in {"trail", "stop", "take"}
             /\ e.price \in h.subs[first].low .. h.subs[first].high
             /\ e.reason = "trail" => e.level = TrailAt(p, h, first) /\ TrailAt(p, h, first) > 0
  <2>1. first \in 1 .. n /\ (StopHit(p, h, first) \/ TakeHit(p, h, first))
    BY <1>2, <1>3, <1>6
  <2> HIDE DEF first, hits, n
  <2> DEFINE level == LevelAt(p, h, first)
             open == h.subs[first].open
             low == h.subs[first].low
             high == h.subs[first].high
  <2>2. open \in Nat /\ low \in Nat /\ high \in Nat /\ low <= open /\ open <= high
    BY <1>2, <2>1
  <2>3. CASE StopHit(p, h, first)
    <3>1. level > 0 /\ low <= level /\ level \in Int
      BY <1>5, <2>3 DEF StopHit
    <3>2. Min({open, level}) \in low .. high
      <4> HIDE DEF open, level, low, high
      <4>1. Min({open, level}) \in {open, level} /\ Min({open, level}) <= open
        BY <2>2, <3>1, LargerAndSmaller
      <4> QED BY <2>2, <3>1, <4>1
    <3>3. Min({open, level}) \in h.subs[first].low .. h.subs[first].high
      BY <3>2
    <3>4. PICK trailed \in BOOLEAN :
             /\ trailed => TrailAt(p, h, first) >= level
             /\ SubBar(p, h, first) = [reason |-> IF trailed THEN "trail" ELSE "stop",
                                       price |-> Min({open, level}), level |-> level, sub |-> first]
      BY <2>3 DEF SubBar
    <3>5. SubBar(p, h, first) # NoExit
      <4>1. SubBar(p, h, first).reason # ""
        BY <3>4
      <4>2. NoExit.reason = ""
        BY DEF NoExit
      <4> QED BY <4>1, <4>2
    <3>6. TrailAt(p, h, first) >= level => level = TrailAt(p, h, first)
      BY <1>5
    <3> HIDE DEF level, open
    <3> QED BY <1>2, <2>1, <3>1, <3>3, <3>4, <3>5, <3>6
  <2>4. CASE ~StopHit(p, h, first)
    <3>1. p.take > 0 /\ high >= p.take
      BY <2>1, <2>4 DEF TakeHit
    <3>2. Max({open, p.take}) \in low .. high
      <4> DEFINE take == p.take
      <4>1. take \in Nat /\ high >= take
        BY <1>1, <3>1
      <4> HIDE DEF open, level, low, high, take
      <4>2. Max({open, take}) \in {open, take} /\ Max({open, take}) >= open
        BY <2>2, <4>1, LargerAndSmaller
      <4>3. Max({open, take}) \in low .. high
        BY <2>2, <4>1, <4>2
      <4> QED BY <4>3 DEF take
    <3>3. Max({open, p.take}) \in h.subs[first].low .. h.subs[first].high
      BY <3>2
    <3>4. SubBar(p, h, first) = [reason |-> "take", price |-> Max({open, p.take}), level |-> p.take, sub |-> first]
      BY <2>4 DEF SubBar
    <3>5. SubBar(p, h, first) # NoExit
      <4>1. SubBar(p, h, first).reason # ""
        BY <3>4
      <4>2. NoExit.reason = ""
        BY DEF NoExit
      <4> QED BY <4>1, <4>2
    <3> HIDE DEF open
    <3> QED BY <1>2, <2>1, <3>3, <3>4, <3>5
  <2> QED BY <2>3, <2>4
<1>7. ASSUME p.stop > 0, Low(h) <= p.stop PROVE hits # {}
  <2>1. PICK k \in DOMAIN h.subs : h.subs[k].low = Low(h)
    BY BarExtremes
  <2>2. k \in 1 .. n + 1
    BY <1>2
  <2>3. LevelAt(p, h, k) \in Int /\ LevelAt(p, h, k) >= p.stop
    BY <2>2, ScannedWith
  <2>4. h.subs[k].low \in Nat
    BY <1>2
  <2>5. StopHit(p, h, k)
    BY <1>1, <1>7, <2>1, <2>3, <2>4 DEF StopHit
  <2> QED BY <2>5
<1> HIDE DEF first, hits
<1> QED BY <1>4, <1>5, <1>6, <1>7

\* The fields of a position that changed.
LEMMA PositionFields ==
    ASSUME NEW p \in Position, NEW v, NEW w
    PROVE  /\ [p EXCEPT !.trail = v, !.seen = w]
              = [entry |-> p.entry, at |-> p.at, stop |-> p.stop, take |-> p.take, trail |-> v,
                 held |-> p.held, seen |-> w]
           /\ [p EXCEPT !.held = w, !.trail = v]
              = [entry |-> p.entry, at |-> p.at, stop |-> p.stop, take |-> p.take, trail |-> v,
                 held |-> w, seen |-> p.seen]
           /\ [p EXCEPT !.stop = 0, !.take = 0, !.trail = 0]
              = [entry |-> p.entry, at |-> p.at, stop |-> 0, take |-> 0, trail |-> 0,
                 held |-> p.held, seen |-> p.seen]
<1> DEFINE t == [p EXCEPT !.trail = v]
           h == [p EXCEPT !.held = w]
           z == [p EXCEPT !.stop = 0]
<1>1. /\ t = [entry |-> p.entry, at |-> p.at, stop |-> p.stop, take |-> p.take, trail |-> v,
              held |-> p.held, seen |-> p.seen]
      /\ h = [entry |-> p.entry, at |-> p.at, stop |-> p.stop, take |-> p.take, trail |-> p.trail,
              held |-> w, seen |-> p.seen]
      /\ z = [entry |-> p.entry, at |-> p.at, stop |-> 0, take |-> p.take, trail |-> p.trail,
              held |-> p.held, seen |-> p.seen]
  BY DEF Position
<1> DEFINE y == [z EXCEPT !.take = 0]
<1> HIDE DEF t, h, z
<1>2. y = [entry |-> p.entry, at |-> p.at, stop |-> 0, take |-> 0, trail |-> p.trail,
           held |-> p.held, seen |-> p.seen]
  BY <1>1
<1> HIDE DEF y
<1>3. /\ [t EXCEPT !.seen = w]
         = [entry |-> p.entry, at |-> p.at, stop |-> p.stop, take |-> p.take, trail |-> v,
            held |-> p.held, seen |-> w]
      /\ [h EXCEPT !.trail = v]
         = [entry |-> p.entry, at |-> p.at, stop |-> p.stop, take |-> p.take, trail |-> v,
            held |-> w, seen |-> p.seen]
      /\ [y EXCEPT !.trail = 0]
         = [entry |-> p.entry, at |-> p.at, stop |-> 0, take |-> 0, trail |-> 0,
            held |-> p.held, seen |-> p.seen]
  BY <1>1, <1>2
<1>4. /\ [p EXCEPT !.trail = v, !.seen = w] = [t EXCEPT !.seen = w]
      /\ [p EXCEPT !.held = w, !.trail = v] = [h EXCEPT !.trail = v]
      /\ [p EXCEPT !.stop = 0, !.take = 0, !.trail = 0] = [y EXCEPT !.trail = 0]
  BY Zenon DEF t, h, z, y
<1> QED BY <1>3, <1>4

\* An exit at the close of a bar is at a price of it and by what the position
\* has of its own, if that is shown to it.
LEMMA CloseIsHonest ==
    ASSUME BacktestEngineAssumption, NEW p \in Position, NEW h, BarPrices(h), NEW sell \in BOOLEAN
    PROVE  LET x == EvaluateBarCloseExit(AtClose(p), h, sell) IN
           /\ x # NoExit => x.reason # "" /\ determineExitPrice(x, h) \in Low(h) .. High(h)
           /\ x.reason = "trail" => x.level = p.trail /\ p.trail > 0 /\ ~(Shared /\ Fine)
           /\ ~(Shared /\ Fine) /\ x.reason \in {"fallback_stop", "fallback_take"}
              /\ (p.stop > 0 => p.take > 0) => ~(p.stop > 0)
           /\ ~(Shared /\ Fine) /\ p.stop > 0 /\ Low(h) <= p.stop => x # NoExit
<1> DEFINE q == AtClose(p)
           x == EvaluateBarCloseExit(q, h, sell)
           open == h.subs[1].open
<1>1. /\ q \in Position
      /\ q.trail > 0 => q.trail = p.trail /\ ~(Shared /\ Fine)
      /\ ~(Shared /\ Fine) => q = p
  <2>1. [p EXCEPT !.stop = 0, !.take = 0, !.trail = 0]
        = [entry |-> p.entry, at |-> p.at, stop |-> 0, take |-> 0, trail |-> 0,
           held |-> p.held, seen |-> p.seen]
    BY PositionFields
  <2>2. CASE Shared /\ Fine
    <3>1. q = [entry |-> p.entry, at |-> p.at, stop |-> 0, take |-> 0, trail |-> 0,
               held |-> p.held, seen |-> p.seen]
      BY <2>1, <2>2 DEF AtClose
    <3> QED BY <2>2, <3>1 DEF Position
  <2>3. CASE ~(Shared /\ Fine)
    BY <2>3 DEF AtClose
  <2> QED BY <2>2, <2>3
<1>2. /\ q.stop \in Int /\ q.take \in Nat /\ q.trail \in Nat /\ q.entry \in Nat
      /\ FallbackStop \in Nat /\ FallbackTake \in Nat
  BY <1>1, EngineNumbers DEF Position
<1>3. /\ High(h) \in Nat /\ Low(h) \in Nat /\ Low(h) > 0
      /\ open \in Low(h) .. High(h) /\ h.close \in Low(h) .. High(h)
  BY BarExtremes
<1> HIDE DEF q, open
<1> DEFINE Exit(r, v) == [reason |-> r, price |-> h.close, level |-> v, sub |-> 0]
<1>4. \/ x = Exit("stop", q.stop) /\ q.stop > 0 /\ Low(h) <= q.stop
      \/ x = Exit("take", q.take) /\ q.take > 0 /\ High(h) >= q.take
      \/ x = Exit("trail", q.trail) /\ q.trail > 0 /\ Low(h) <= q.trail
      \/ x = Exit("fallback_stop", q.entry - FallbackStop) /\ q.stop = 0 /\ Low(h) <= q.entry - FallbackStop
      \/ x = Exit("fallback_take", q.entry + FallbackTake) /\ q.take = 0 /\ High(h) >= q.entry + FallbackTake
      \/ x = Exit("time", 0) \/ x = Exit("signal", 0) \/ x = NoExit
  BY DEF EvaluateBarCloseExit
<1> DEFINE Is(r, v) == x.reason = r /\ x.level = v
<1>5. q.stop > 0 /\ Low(h) <= q.stop => x = Exit("stop", q.stop)
  BY DEF EvaluateBarCloseExit
<1> HIDE DEF x
<1>6. NoExit.reason = ""
  BY DEF NoExit
<1>7. \/ Is("stop", q.stop) /\ q.stop > 0 /\ Low(h) <= q.stop
      \/ Is("take", q.take) /\ q.take > 0 /\ High(h) >= q.take
      \/ Is("trail", q.trail) /\ q.trail > 0 /\ Low(h) <= q.trail
      \/ Is("fallback_stop", q.entry - FallbackStop) /\ q.stop = 0 /\ Low(h) <= q.entry - FallbackStop
      \/ Is("fallback_take", q.entry + FallbackTake) /\ q.take = 0 /\ High(h) >= q.entry + FallbackTake
      \/ Is("time", 0) \/ Is("signal", 0) \/ x = NoExit
  BY <1>4
<1>12. x # NoExit => x.reason # ""
  BY <1>7
<1>8. ASSUME x # NoExit PROVE determineExitPrice(x, h) \in Low(h) .. High(h)
  <2>1. ASSUME NEW v \in Int, Low(h) <= v PROVE Min({open, v}) \in Low(h) .. High(h)
    <3> open \in Int
      BY <1>3
    <3>1. Min({open, v}) \in {open, v} /\ Min({open, v}) <= open
      BY LargerAndSmaller
    <3> QED BY <1>3, <2>1, <3>1
  <2>2. ASSUME NEW v \in Int, v <= High(h) PROVE Max({open, v}) \in Low(h) .. High(h)
    <3> open \in Int
      BY <1>3
    <3>1. Max({open, v}) \in {open, v} /\ Max({open, v}) >= open
      BY LargerAndSmaller
    <3> QED BY <1>3, <2>2, <3>1
  <2>3. \/ x.level = 0
        \/ x.reason \in {"take", "fallback_take"} /\ x.level \in Int /\ x.level <= High(h)
        \/ x.reason \in {"stop", "trail", "fallback_stop"} /\ x.level \in Int /\ Low(h) <= x.level
    BY <1>2, <1>7, <1>8
  <2>4. CASE x.level = 0
    BY <1>3, <2>4 DEF determineExitPrice
  <2>5. CASE x.level # 0 /\ x.reason \in {"take", "fallback_take"} /\ x.level \in Int /\ x.level <= High(h)
    <3>1. determineExitPrice(x, h) = Max({open, x.level})
      BY <2>5 DEF determineExitPrice, open
    <3> QED BY <2>2, <2>5, <3>1
  <2>6. CASE x.level # 0 /\ x.reason \in {"stop", "trail", "fallback_stop"} /\ x.level \in Int /\ Low(h) <= x.level
    <3>1. determineExitPrice(x, h) = Min({open, x.level})
      BY <2>6 DEF determineExitPrice, open
    <3> QED BY <2>1, <2>6, <3>1
  <2> QED BY <2>3, <2>4, <2>5, <2>6
<1>9. x.reason = "trail" => x.level = q.trail /\ q.trail > 0
  BY <1>6, <1>7
<1>10. x.reason \in {"fallback_stop", "fallback_take"} => q.stop = 0 \/ q.take = 0
  BY <1>6, <1>7
<1>11. q.stop > 0 /\ Low(h) <= q.stop => x # NoExit
  <2> SUFFICES ASSUME q.stop > 0, Low(h) <= q.stop PROVE x.reason # ""
    BY <1>6
  <2>1. x.reason = "stop"
    BY <1>5
  <2> QED BY <2>1
<1>13. ~(Shared /\ Fine) /\ x.reason \in {"fallback_stop", "fallback_take"}
       /\ (p.stop > 0 => p.take > 0) => ~(p.stop > 0)
  BY <1>1, <1>2, <1>10
<1>14. x.reason = "trail" => x.level = p.trail /\ p.trail > 0 /\ ~(Shared /\ Fine)
  BY <1>1, <1>9
<1>15. ~(Shared /\ Fine) /\ p.stop > 0 /\ Low(h) <= p.stop => x # NoExit
  BY <1>1, <1>11
<1> QED BY <1>8, <1>12, <1>13, <1>14, <1>15 DEF q, x

\* A covered series goes on with the next bar; the last bar that has one before
\* it ends is the last on which its position can be sold.
LEMMA NextBar ==
    ASSUME BacktestEngineAssumption, data \in [Tickers -> SUBSET Time], NEW s \in Tickers, Covered(s),
           NEW b \in Nat, b \in Prepared(s)
    PROVE  /\ Executable(s, b) => nextExecutable(s, b) = b + 1 /\ b + 1 \in Prepared(s)
           /\ b + 1 \in Prepared(s) => Executable(s, b)
<1>1. data[s] \subseteq Nat /\ LastBar \in Nat /\ b \in data[s] /\ b <= LastBar /\ b >= 1
  BY EngineNumbers DEF Time, Prepared, DecisionBars
<1>2. \A c \in data[s] : c > b => b + 1 \in data[s]
  <2> DEFINE l == Min(data[s])
             m == Max(data[s])
  <2>1. data[s] = l .. m
    BY DEF Covered
  <2>2. l \in Nat /\ m \in Nat
    <3>1. data[s] # {} /\ data[s] \in SUBSET (0 .. LastBar + 1)
      BY <1>1 DEF Time
    <3>2. l \in data[s]
      BY <1>1, <3>1, LeastIn
    <3>3. m \in data[s]
      <4> DEFINE D == data[s]
                 n == LastBar + 1
      <4>1. n \in Nat /\ D \in SUBSET (0 .. n) /\ D # {}
        BY <1>1, <3>1
      <4> HIDE DEF D, n
      <4>2. Max(D) \in D
        BY <4>1, GreatestExists
      <4> QED BY <4>2 DEF D
    <3> QED BY <1>1, <3>2, <3>3
  <2> HIDE DEF l, m
  <2>3. SUFFICES ASSUME NEW c \in data[s], c > b PROVE b + 1 \in data[s]
    OBVIOUS
  <2>4. b \in l .. m /\ c \in l .. m
    BY <1>1, <2>1
  <2>5. b + 1 \in l .. m
    BY <2>2, <2>3, <2>4
  <2> QED BY <2>1, <2>5
<1> DEFINE mine == IF Fine THEN data[s] ELSE Prepared(s)
           later == {c \in mine : c > b}
<1>3. later \subseteq Nat /\ \A c \in later : c >= b + 1
  BY <1>1 DEF Prepared
<1>4. ASSUME later # {}
      PROVE  nextExecutable(s, b) \in later /\ \A c \in later : nextExecutable(s, b) <= c
  <2>1. nextExecutable(s, b) = Min(later)
    BY <1>4 DEF nextExecutable
  <2> HIDE DEF later, mine
  <2>2. Min(later) \in later /\ \A c \in later : Min(later) <= c
    BY <1>3, <1>4, LeastIn
  <2> QED BY <2>1, <2>2
<1>5. later = {} => nextExecutable(s, b) = 0
  BY DEF nextExecutable
<1>6. \A c \in Nat : c \in Prepared(s) <=> c \in data[s] /\ c \in DecisionBars
  BY DEF Prepared
<1>7. ASSUME Executable(s, b) PROVE nextExecutable(s, b) = b + 1 /\ b + 1 \in Prepared(s)
  <2>1. nextExecutable(s, b) \in DecisionBars /\ nextExecutable(s, b) # 0
    BY <1>7 DEF Executable, DecisionBars
  <2>2. nextExecutable(s, b) \in later /\ nextExecutable(s, b) \in data[s] /\ nextExecutable(s, b) > b
    BY <1>4, <1>5, <2>1 DEF Prepared
  <2>3. b + 1 \in data[s] /\ b + 1 \in DecisionBars
    BY <1>1, <1>2, <2>1, <2>2 DEF DecisionBars
  <2>4. b + 1 \in later
    BY <1>1, <2>3 DEF Prepared
  <2>5. nextExecutable(s, b) <= b + 1 /\ nextExecutable(s, b) >= b + 1 /\ nextExecutable(s, b) \in Nat
    <3> HIDE DEF later
    <3> QED BY <1>3, <1>4, <2>2, <2>4
  <2> QED BY <1>1, <2>3, <2>5 DEF Prepared
<1>8. ASSUME b + 1 \in Prepared(s) PROVE Executable(s, b)
  <2>1. b + 1 \in later /\ b + 1 \in DecisionBars
    BY <1>1, <1>8 DEF Prepared
  <2>2. nextExecutable(s, b) <= b + 1 /\ nextExecutable(s, b) >= b + 1 /\ nextExecutable(s, b) \in Nat
    <3> HIDE DEF later
    <3> QED BY <1>3, <1>4, <2>1
  <2>3. nextExecutable(s, b) = b + 1
    BY <1>1, <2>2
  <2> QED BY <2>1, <2>3 DEF Executable
<1> QED BY <1>7, <1>8

\* A covered series that has a fill now and is not at its last opportunity has
\* two more bars.
LEMMA LastOpportunity ==
    ASSUME BacktestEngineAssumption, data \in [Tickers -> SUBSET Time], NEW s \in Tickers, Covered(s),
           bar \in Nat, HasBar(s), Executable(s, bar), ~isLastLiquidationOpportunity(s)
    PROVE  bar + 1 \in Prepared(s) /\ bar + 2 \in Prepared(s)
<1>1. bar \in Prepared(s)
  BY DEF HasBar
<1>2. bar + 1 \in Prepared(s)
  BY <1>1, NextBar
<1> DEFINE later == {b \in Prepared(s) : b > bar}
<1>3. later \subseteq Nat /\ bar + 1 \in later /\ \A c \in later : c >= bar + 1
  BY <1>2 DEF Prepared, DecisionBars
<1>4. Executable(s, Min(later))
  BY <1>3 DEF isLastLiquidationOpportunity
<1>5. Min(later) = bar + 1
  <2> HIDE DEF later
  <2>1. Min(later) \in later /\ Min(later) <= bar + 1
    BY <1>3, LeastIn
  <2>2. Min(later) \in Nat /\ Min(later) >= bar + 1
    BY <1>3, <2>1
  <2> QED BY <2>1, <2>2
<1>6. bar + 1 \in Nat /\ Executable(s, bar + 1) /\ bar + 2 = bar + 1 + 1
  BY <1>4, <1>5
<1> HIDE DEF later
<1>7. bar + 1 + 1 \in Prepared(s)
  BY <1>2, <1>6, NextBar
<1> QED BY <1>2, <1>6, <1>7

------------------------------------------------------------------------------
\* The run without a renamed ticker and without a rejected exit.
Plain ==
    /\ Shared /\ Rejections \subseteq {FALSE}
    /\ \A s, t \in Tickers : Asset[s] = Asset[t] => s = t

\* A position with a stop has a target, and its trailing stop has a reason.
PositionsBacked ==
    \A s \in Tickers :
        /\ pos[s].stop > 0 => pos[s].take > 0
        /\ Shared => Backed(pos[s].trail, pos[s].entry, pos[s].seen)

\* Only tickers with a bar are looked at, and for exits only positions.
VisitsBars ==
    /\ phase \in {"exits", "liquidate"} => \A s \in todo : HasBar(s)
    /\ phase = "exits" => todo \subseteq Held
    /\ phase = "liquidate" /\ ~Shared => todo = {}

\* A candidate is counted before the strategy is run on it.
CandidatesCounted ==
    /\ ran \/ universe # {} => runEvidence.candidates
    /\ phase = "enter" => todo \subseteq universe

\* The shared engine trades on covered series only.
CoverageHolds ==
    /\ phase \in {"coverage", "coverage_failed"} => Held = {}
    /\ Shared /\ phase \notin {"coverage", "coverage_failed"} => \A s \in Tickers : Covered(s)

\* The latest time at which this bar can book a fill.
Latest == IF Shared THEN TimeOf(bar + 1, 1) ELSE TimeOf(bar, Close)
OnTime == booked <= Latest

\* No entry is made into a ticker that was found at its last opportunity.
LastClosed ==
    Shared => \A s \in Tickers :
        /\ HasBar(s) /\ isLastLiquidationOpportunity(s)
        /\ phase = "enter" \/ (phase = "liquidate" /\ s \notin todo)
        => s \in closed

\* A position has a bar to be sold at, and a next one once this one's
\* liquidation has passed it.
WillBeSold ==
    Plain =>
    /\ phase \in {"bar", "exits"} => \A s \in Held : bar \in Prepared(s) /\ bar + 1 \in Prepared(s)
    /\ phase = "liquidate" =>
         \A s \in Held : bar + 1 \in Prepared(s) /\ (s \in todo \/ bar + 2 \in Prepared(s))
    /\ phase = "enter" => \A s \in Held : bar + 1 \in Prepared(s) /\ bar + 2 \in Prepared(s)
    /\ phase = "done" => Held = {}

EngineInv ==
    /\ EngineTypeOK /\ OneExposure /\ NoLookahead /\ ExitIsTraded /\ FallbackOnlyWithoutStop
    /\ PositionsBacked /\ VisitsBars /\ CandidatesCounted /\ CoverageHolds /\ OnTime
    /\ LastClosed /\ WillBeSold

------------------------------------------------------------------------------
\* What a step sells is sold at a price of its bar, for a reason the position
\* had before, and booked in time.
SoldFairly(s) ==
    /\ pos' = [pos EXCEPT ![s] = NoPosition]
    /\ runEvidence' = [runEvidence EXCEPT !.fills = TRUE]
    /\ NoLookahead' /\ ExitIsTraded' /\ FallbackOnlyWithoutStop'
    /\ booked' \in 0 .. TimeOf(LastBar, Close) /\ booked' <= Latest /\ (~Fine => booked' = Latest)

\* What it keeps has its stop, its target and a reason for its trailing stop.
KeptSafely(s) ==
    /\ \E p \in Position : /\ pos' = [pos EXCEPT ![s] = p]
                           /\ p.stop = pos[s].stop /\ p.take = pos[s].take
                           /\ Shared => Backed(p.trail, p.entry, p.seen)
    /\ UNCHANGED <<lastExit, booked, runEvidence>>

\* The times of a bar are inside the run, and those of the next bar later.
LEMMA BarTimes ==
    ASSUME BacktestEngineAssumption, NEW b \in 0 .. LastBar, NEW k \in 0 .. Close
    PROVE  TimeOf(b, k) \in 0 .. TimeOf(LastBar, Close)
<1>1. LastBar \in Nat /\ Moments \in Nat /\ Moments >= 1
  BY EngineNumbers
<1>2. Moments * b \in Nat /\ Moments * LastBar \in Nat
  BY <1>1
<1>3. Moments * LastBar = Moments * b + Moments * (LastBar - b) /\ Moments * (LastBar - b) \in Nat
  <2>1. LastBar - b \in Nat /\ b \in Nat /\ LastBar = b + (LastBar - b)
    BY <1>1
  <2> DEFINE d == LastBar - b
  <2> HIDE DEF d
  <2>2. Moments * (b + d) = Moments * b + Moments * d /\ Moments * d \in Nat
    BY <1>1, <2>1 DEF d
  <2> QED BY <2>1, <2>2 DEF d
<1> QED BY <1>1, <1>2, <1>3 DEF TimeOf, Close

LEMMA LaterTimes ==
    ASSUME BacktestEngineAssumption, NEW b \in Nat, NEW k \in 0 .. Close
    PROVE  /\ TimeOf(b, k) \in Nat /\ TimeOf(b, k) <= TimeOf(b, Close)
           /\ TimeOf(b, k) <= TimeOf(b + 1, 1)
<1>1. Moments \in Nat /\ Moments >= 1
  BY EngineNumbers
<1>2. Moments * b \in Nat /\ Moments * (b + 1) = Moments * b + Moments
  BY <1>1
<1> QED BY <1>1, <1>2 DEF TimeOf, Close

\* What the clock of a bar can show.
LEMMA SubTimes ==
    ASSUME BacktestEngineAssumption, NEW h \in Shapes
    PROVE  DOMAIN h.subs \subseteq 1 .. Close /\ 1 \in DOMAIN h.subs /\ Close \in Nat
<1>1. BarPrices(h) /\ Moments \in Nat
  BY EngineNumbers
<1>2. DOMAIN h.subs = 1 .. Len(h.subs) /\ Len(h.subs) \in 1 .. Moments - 2
  BY <1>1 DEF BarPrices
<1> QED BY <1>1, <1>2 DEF Close

\* An order for the next open is filled on the next bar.
LEMMA NextOpen ==
    ASSUME BacktestEngineAssumption, EngineTypeOK, NEW s \in Tickers, Covered(s), HasBar(s), Executable(s, bar)
    PROVE  /\ nextExecutable(s, bar) = bar + 1 /\ bar + 1 \in Prepared(s) /\ bar + 1 <= LastBar
           /\ TimeOf(nextExecutable(s, bar), 1) = TimeOf(bar + 1, 1)
           /\ TimeOf(bar + 1, 1) \in 0 .. TimeOf(LastBar, Close)
           /\ 1 \in DOMAIN ahead[s].subs
<1>1. data \in [Tickers -> SUBSET Time] /\ bar \in Nat /\ ahead[s] \in Shapes /\ LastBar \in Nat
  BY EngineNumbers DEF EngineTypeOK, DecisionBars
<1>2. nextExecutable(s, bar) = bar + 1 /\ bar + 1 \in Prepared(s)
  BY <1>1, NextBar DEF HasBar
<1>3. bar + 1 \in 0 .. LastBar /\ bar + 1 <= LastBar
  BY <1>1, <1>2 DEF Prepared, DecisionBars
<1>4. 1 \in 0 .. Close /\ 1 \in DOMAIN ahead[s].subs
  BY <1>1, SubTimes
<1> DEFINE n == bar + 1
<1> HIDE DEF n
<1>5. n \in 0 .. LastBar
  BY <1>3 DEF n
<1>6. TimeOf(n, 1) \in 0 .. TimeOf(LastBar, Close)
  BY <1>4, <1>5, BarTimes
<1> QED BY <1>2, <1>3, <1>4, <1>6 DEF n

\* A sale that the position, the prices and the clock account for.
LEMMA SaleIsFair ==
    ASSUME NEW s, NEW p, NEW y, NEW price, NEW low, NEW high, NEW sn, NEW when,
           Sold(s, p, y, price, low, high, sn, when),
           Shared /\ y.reason = "trail" => y.level > 0 /\ Backed(y.level, p.entry, sn),
           price \in low .. high,
           ~(Shared /\ Fine) /\ y.reason \in {"fallback_stop", "fallback_take"} => ~(p.stop > 0),
           when \in 0 .. TimeOf(LastBar, Close), when <= Latest, ~Fine => when = Latest
    PROVE  SoldFairly(s)
<1>1. /\ pos' = [pos EXCEPT ![s] = NoPosition] /\ runEvidence' = [runEvidence EXCEPT !.fills = TRUE]
      /\ booked' = when
      /\ lastExit' = [reason |-> y.reason, price |-> price, level |-> y.level, low |-> low, high |-> high,
                      seen |-> sn, entry |-> p.entry, explicit |-> p.stop > 0, at |-> when]
  BY DEF Sold
<1>2. NoLookahead'
  <2>1. Shared /\ y.reason = "trail" => y.level <= Max({p.entry, sn}) - TrailDist
    BY DEF Backed
  <2>2. /\ lastExit'.reason = y.reason /\ lastExit'.level = y.level
        /\ lastExit'.entry = p.entry /\ lastExit'.seen = sn
    BY <1>1
  <2> QED BY <2>1, <2>2 DEF NoLookahead
<1>3. ExitIsTraded'
  <2>1. lastExit'.price = price /\ lastExit'.low = low /\ lastExit'.high = high
    BY <1>1
  <2> QED BY <2>1 DEF ExitIsTraded
<1>4. FallbackOnlyWithoutStop'
  <2>1. lastExit'.reason = y.reason /\ lastExit'.explicit = (p.stop > 0)
    BY <1>1
  <2> QED BY <2>1 DEF FallbackOnlyWithoutStop
<1> QED BY <1>1, <1>2, <1>3, <1>4 DEF SoldFairly

\* One position at one bar is sold fairly or kept safely, and sold when its bar
\* traded at its stop.
LEMMA ExitOutcome ==
    ASSUME BacktestEngineAssumption, EngineInv, NEW sell \in BOOLEAN, NEW rejected, ExitOne(sell, rejected)
    PROVE  LET s == Min(todo) IN
           /\ phase = "exits" /\ s \in todo /\ s \in Held /\ HasBar(s) /\ todo' = todo \ {s}
           /\ UNCHANGED <<data, bar, shape, ahead, closed, universe, rebalanced, ran, phase>>
           /\ SoldFairly(s) \/ KeptSafely(s)
           /\ /\ pos[s].stop > 0 /\ Low(shape[s]) <= pos[s].stop
              /\ Fine \/ ~Shared \/ Executable(s, bar)
              /\ ~(Shared /\ rejected)
              => pos'[s] = NoPosition
<1> DEFINE s == Min(todo)
           h == shape[s]
           P == pos[s]
           p == [pos[s] EXCEPT !.held = @ + 1,
                               !.trail = IF Shared THEN @ ELSE Ratchet(@, High(h), pos[s].entry)]
           scan == IF Fine THEN Scan(p, h) ELSE [trail |-> p.trail, seen |-> p.seen, exit |-> NoExit]
           q == [p EXCEPT !.trail = scan.trail]
           x == EvaluateBarCloseExit(AtClose(q), h, sell)
           raised == IF Shared /\ ~Fine THEN Ratchet(scan.trail, High(h), p.entry) ELSE scan.trail
           held == [p EXCEPT !.trail = scan.trail, !.seen = Max({@, High(h)})]
           open == ahead[s].subs[1]
           e == scan.exit
           next == nextExecutable(s, bar)
<1>1. /\ phase = "exits" /\ todo # {} /\ todo' = todo \ {s}
      /\ UNCHANGED <<data, bar, shape, ahead, closed, universe, rebalanced, ran, phase>>
  BY DEF ExitOne
<1>2. \/ /\ e # NoExit /\ Shared /\ rejected /\ Kept(s, held)
      \/ /\ e # NoExit /\ ~(Shared /\ rejected)
         /\ Sold(s, p, e, e.price, h.subs[e.sub].low, h.subs[e.sub].high, scan.seen, TimeOf(bar, e.sub))
      \/ /\ e = NoExit /\ x = NoExit /\ Kept(s, [held EXCEPT !.trail = raised])
      \/ /\ e = NoExit /\ x # NoExit /\ ~Shared
         /\ Sold(s, p, x, determineExitPrice(x, h), Low(h), High(h), p.seen, TimeOf(bar, Close))
      \/ /\ e = NoExit /\ x # NoExit /\ Shared /\ (~Executable(s, bar) \/ rejected) /\ Kept(s, held)
      \/ /\ e = NoExit /\ x # NoExit /\ Shared /\ Executable(s, bar) /\ ~rejected
         /\ Sold(s, p, x, open.open, open.low, open.high, p.seen, TimeOf(next, 1))
  BY Zenon DEF ExitOne
<1>3. /\ s \in todo /\ s \in Tickers /\ s \in Held /\ HasBar(s)
      /\ P \in Position /\ h \in Shapes /\ BarPrices(h) /\ ahead[s] \in Shapes /\ BarPrices(ahead[s])
      /\ bar \in DecisionBars /\ pos \in [Tickers -> Position]
  <2>1. todo \subseteq Nat /\ todo \subseteq Tickers
    BY EngineNumbers DEF EngineInv, EngineTypeOK
  <2>2. s \in todo
    BY <1>1, <2>1, LeastIn
  <2>3. s \in Held /\ HasBar(s)
    BY <1>1, <2>2 DEF EngineInv, VisitsBars
  <2>4. h \in Shapes /\ ahead[s] \in Shapes /\ P \in Position
    BY <2>1, <2>2 DEF EngineInv, EngineTypeOK
  <2>5. BarPrices(h) /\ BarPrices(ahead[s])
    BY <2>4, EngineNumbers
  <2> QED BY <2>1, <2>2, <2>3, <2>4, <2>5 DEF EngineInv, EngineTypeOK
<1>4. /\ High(h) \in Nat /\ Low(h) \in Nat /\ DOMAIN h.subs \subseteq 1 .. Close /\ Close \in Nat
      /\ open.open \in open.low .. open.high
  <2>1. 1 \in DOMAIN ahead[s].subs
    BY <1>3, SubTimes
  <2>2. open.open \in open.low .. open.high
    BY <1>3, <2>1 DEF BarPrices
  <2> QED BY <1>3, <2>2, BarExtremes, SubTimes
<1>5. /\ p \in Position /\ p.stop = P.stop /\ p.take = P.take /\ p.entry = P.entry /\ p.seen = P.seen
      /\ Shared => Backed(p.trail, p.entry, p.seen)
      /\ p.stop > 0 => p.take > 0
  <2> DEFINE v == IF Shared THEN P.trail ELSE Ratchet(P.trail, High(h), P.entry)
             w == P.held + 1
  <2>1. p = [entry |-> P.entry, at |-> P.at, stop |-> P.stop, take |-> P.take, trail |-> v,
             held |-> w, seen |-> P.seen]
    <3>1. p = [P EXCEPT !.held = w, !.trail = v]
      BY Zenon
    <3> HIDE DEF p, P, v, w
    <3> QED BY <1>3, <3>1, PositionFields
  <2>2. P.trail \in Nat /\ P.entry \in Nat /\ P.held \in Nat
    BY <1>3 DEF Position
  <2>3. v \in Nat
    BY <1>4, <2>2, RatchetRaises
  <2>4. /\ P.stop > 0 => P.take > 0
        /\ Shared => Backed(P.trail, P.entry, P.seen)
    BY <1>3 DEF EngineInv, PositionsBacked
  <2>5. Shared => v = P.trail
    OBVIOUS
  <2> HIDE DEF v, p, P
  <2>6. p \in Position
    BY <1>3, <2>1, <2>2, <2>3 DEF Position
  <2>7. /\ p.stop = P.stop /\ p.take = P.take /\ p.entry = P.entry /\ p.seen = P.seen /\ p.trail = v
    BY <2>1
  <2> QED BY <2>4, <2>5, <2>6, <2>7
<1> HIDE DEF p
<1>6. /\ scan.trail \in Nat /\ scan.seen \in Nat /\ scan.seen <= Max({p.seen, High(h)})
      /\ Shared => Backed(scan.trail, p.entry, scan.seen)
      /\ ~Fine => scan.trail = p.trail /\ scan.seen = p.seen /\ e = NoExit
      /\ e # NoExit => /\ e.sub \in DOMAIN h.subs /\ e.reason \in {"trail", "stop", "take"}
                       /\ e.price \in h.subs[e.sub].low .. h.subs[e.sub].high
                       /\ e.reason = "trail" => e.level = scan.trail /\ scan.trail > 0
      /\ Fine /\ p.stop > 0 /\ Low(h) <= p.stop => e # NoExit
  <2>1. CASE Fine
    <3>1. scan = Scan(p, h)
      BY <2>1
    <3> HIDE DEF scan
    <3> QED BY <1>3, <1>5, <2>1, <3>1, ScanIsHonest
  <2>2. CASE ~Fine
    <3>1. scan = [trail |-> p.trail, seen |-> p.seen, exit |-> NoExit]
      BY <2>2
    <3>2. p.trail \in Nat /\ p.seen \in Nat
      BY <1>5 DEF Position
    <3>3. Max({p.seen, High(h)}) >= p.seen
      <4> DEFINE a == p.seen
                 b == High(h)
      <4>1. a \in Int /\ b \in Int
        BY <1>4, <3>2
      <4> HIDE DEF a, b
      <4>2. Max({a, b}) >= a
        BY <4>1, LargerAndSmaller
      <4> QED BY <4>2 DEF a, b
    <3> HIDE DEF scan
    <3> QED BY <1>5, <2>2, <3>1, <3>2, <3>3
  <2> QED BY <2>1, <2>2
<1> HIDE DEF scan, e
<1> DEFINE seen == Max({p.seen, High(h)})
<1>7. /\ p.entry \in Nat /\ p.seen \in Nat /\ p.trail \in Nat
      /\ seen \in Nat /\ p.seen <= seen /\ scan.seen <= seen
  <2>1. p.entry \in Nat /\ p.seen \in Nat /\ p.trail \in Nat
    BY <1>5 DEF Position
  <2>2. seen \in {p.seen, High(h)} /\ seen >= p.seen
    <3> DEFINE a == p.seen
               b == High(h)
    <3>1. a \in Int /\ b \in Int
      BY <1>4, <2>1
    <3> HIDE DEF a, b
    <3>2. Max({a, b}) \in {a, b} /\ Max({a, b}) >= a
      BY <3>1, LargerAndSmaller
    <3> QED BY <3>2 DEF a, b
  <2> QED BY <1>4, <1>6, <2>1, <2>2
<1>8. /\ held \in Position /\ held.stop = P.stop /\ held.take = P.take /\ held.trail = scan.trail
      /\ held.entry = p.entry /\ held.seen = seen
      /\ Shared => Backed(held.trail, held.entry, held.seen)
  <2>1. held = [entry |-> p.entry, at |-> p.at, stop |-> p.stop, take |-> p.take, trail |-> scan.trail,
                held |-> p.held, seen |-> seen]
    <3>1. held = [p EXCEPT !.trail = scan.trail, !.seen = seen]
      BY <1>5, Zenon DEF Position
    <3> HIDE DEF held, seen
    <3> QED BY <1>5, <3>1, PositionFields
  <2>2. Shared => Backed(scan.trail, p.entry, seen)
    <3> HIDE DEF seen
    <3> QED BY <1>6, <1>7, BackedBySeen
  <2> HIDE DEF held, seen
  <2> QED BY <1>5, <1>6, <1>7, <2>1, <2>2 DEF Position
<1>9. /\ q \in Position /\ q.stop = p.stop /\ q.take = p.take /\ q.trail = scan.trail
  <2> HIDE DEF scan
  <2> QED BY <1>5, <1>6 DEF Position
<1>10. /\ x # NoExit => x.reason # "" /\ determineExitPrice(x, h) \in Low(h) .. High(h)
       /\ x.reason = "trail" => x.level = scan.trail /\ scan.trail > 0 /\ ~(Shared /\ Fine)
       /\ ~(Shared /\ Fine) /\ x.reason \in {"fallback_stop", "fallback_take"} => ~(p.stop > 0)
       /\ ~(Shared /\ Fine) /\ p.stop > 0 /\ Low(h) <= p.stop => x # NoExit
  <2>1. /\ x # NoExit => x.reason # "" /\ determineExitPrice(x, h) \in Low(h) .. High(h)
        /\ x.reason = "trail" => x.level = q.trail /\ q.trail > 0 /\ ~(Shared /\ Fine)
        /\ ~(Shared /\ Fine) /\ x.reason \in {"fallback_stop", "fallback_take"}
           /\ (q.stop > 0 => q.take > 0) => ~(q.stop > 0)
        /\ ~(Shared /\ Fine) /\ q.stop > 0 /\ Low(h) <= q.stop => x # NoExit
    <3> HIDE DEF q
    <3> QED BY <1>3, <1>9, CloseIsHonest
  <2> HIDE DEF q, x
  <2> QED BY <1>5, <1>9, <2>1
<1> HIDE DEF q, x
<1>11. /\ raised \in Nat
       /\ Shared => Backed(raised, held.entry, held.seen)
  <2>1. CASE Shared /\ ~Fine
    <3> DEFINE t == scan.trail
               en == p.entry
               hi == High(h)
               r == Ratchet(t, hi, en)
    <3>1. t \in Nat /\ en \in Nat /\ hi \in Nat /\ TrailDist \in Nat
      BY <1>4, <1>6, <1>7, EngineNumbers
    <3>2. Backed(t, en, seen)
      BY <1>8, <2>1
    <3>3. hi <= seen
      <4> DEFINE a == p.seen
      <4>1. a \in Int /\ hi \in Int
        BY <1>7, <3>1
      <4> HIDE DEF a, hi
      <4>2. Max({a, hi}) >= hi
        BY <4>1, LargerAndSmaller
      <4>3. seen = Max({a, hi})
        BY DEF a, hi
      <4> QED BY <4>2, <4>3
    <3> HIDE DEF t, en, hi, seen
    <3>4. r \in Nat /\ (r = t \/ r <= Max({en, hi}) - TrailDist)
      BY <3>1, RatchetRaises
    <3>5. seen \in Nat
      BY <1>7
    <3>6. /\ Max({en, hi}) \in {en, hi} /\ Max({en, seen}) \in {en, seen}
          /\ Max({en, seen}) >= en /\ Max({en, seen}) >= seen
      <4>1. en \in Int /\ hi \in Int /\ seen \in Int
        BY <3>1, <3>5
      <4> QED BY <4>1, LargerAndSmaller
    <3>7. Max({en, hi}) \in Int /\ Max({en, seen}) \in Int /\ Max({en, hi}) <= Max({en, seen})
      BY <3>1, <3>3, <3>5, <3>6
    <3>8. Backed(r, en, seen)
      <4>1. CASE r = t
        BY <3>2, <4>1
      <4>2. CASE r <= Max({en, hi}) - TrailDist
        <5> HIDE DEF r
        <5>1. r <= Max({en, seen}) - TrailDist
          BY <3>1, <3>4, <3>7, <4>2
        <5> QED BY <5>1 DEF Backed
      <4> QED BY <3>4, <4>1, <4>2
    <3>9. raised = r
      BY <2>1 DEF t, en, hi
    <3> HIDE DEF r, raised, held
    <3>10. held.entry = en /\ held.seen = seen
      BY <1>8 DEF en, seen
    <3> QED BY <3>4, <3>8, <3>9, <3>10
  <2>2. CASE ~(Shared /\ ~Fine)
    <3>1. raised = scan.trail
      BY <2>2
    <3> HIDE DEF raised, held
    <3> QED BY <1>6, <1>8, <3>1
  <2> QED BY <2>1, <2>2
<1> HIDE DEF raised, held
<1>12. ASSUME NEW k \in Position, k.stop = P.stop, k.take = P.take, Shared => Backed(k.trail, k.entry, k.seen),
              Kept(s, k)
       PROVE  KeptSafely(s)
  BY <1>12 DEF Kept, KeptSafely
<1> DEFINE atStop == /\ P.stop > 0 /\ Low(h) <= P.stop
                     /\ Fine \/ ~Shared \/ Executable(s, bar)
                     /\ ~(Shared /\ rejected)
           Outcome == (SoldFairly(s) \/ KeptSafely(s)) /\ (atStop => pos'[s] = NoPosition)
<1>13. ASSUME e # NoExit, Shared, rejected, Kept(s, held) PROVE Outcome
  BY <1>8, <1>12, <1>13
<1>14. ASSUME e = NoExit, x = NoExit, Kept(s, [held EXCEPT !.trail = raised]) PROVE Outcome
  <2> DEFINE k == [held EXCEPT !.trail = raised]
  <2>1. k \in Position /\ k.stop = held.stop /\ k.take = held.take /\ k.entry = held.entry /\ k.seen = held.seen
        /\ k.trail = raised
    BY <1>8, <1>11 DEF Position
  <2> HIDE DEF k
  <2>2. Kept(s, k)
    BY <1>14 DEF k
  <2>3. KeptSafely(s)
    <3> HIDE DEF P
    <3> QED BY <1>8, <1>11, <1>12, <2>1, <2>2
  <2>4. ~atStop
    <3> HIDE DEF P
    <3> QED BY <1>5, <1>6, <1>10, <1>14
  <2> HIDE DEF atStop
  <2> QED BY <2>3, <2>4
<1>15. ASSUME e = NoExit, x # NoExit, Shared, ~Executable(s, bar) \/ rejected, Kept(s, held) PROVE Outcome
  <2>1. KeptSafely(s)
    <3> HIDE DEF P
    <3> QED BY <1>8, <1>12, <1>15
  <2>2. ~atStop
    <3> HIDE DEF P
    <3> QED BY <1>5, <1>6, <1>15
  <2> HIDE DEF atStop
  <2> QED BY <2>1, <2>2
<1>16. ASSUME NEW y, NEW price, NEW low, NEW high, NEW sn, NEW when, Sold(s, p, y, price, low, high, sn, when),
              Shared /\ y.reason = "trail" => y.level > 0 /\ Backed(y.level, p.entry, sn),
              price \in low .. high,
              ~(Shared /\ Fine) /\ y.reason \in {"fallback_stop", "fallback_take"} => ~(p.stop > 0),
              when \in 0 .. TimeOf(LastBar, Close), when <= Latest, ~Fine => when = Latest
       PROVE  Outcome
  <2>1. SoldFairly(s)
    BY <1>16, SaleIsFair
  <2>2. pos'[s] = NoPosition
    BY <1>3, <2>1 DEF SoldFairly
  <2> QED BY <2>1, <2>2
<1> HIDE DEF Outcome
<1>17. ASSUME e # NoExit, ~(Shared /\ rejected),
              Sold(s, p, e, e.price, h.subs[e.sub].low, h.subs[e.sub].high, scan.seen, TimeOf(bar, e.sub))
       PROVE  Outcome
  <2> DEFINE when == TimeOf(bar, e.sub)
  <2>1. bar \in Nat /\ bar \in 0 .. LastBar /\ e.sub \in 0 .. Close /\ Fine
    BY <1>3, <1>4, <1>6, <1>17, EngineNumbers DEF DecisionBars
  <2>2. when \in 0 .. TimeOf(LastBar, Close) /\ when <= TimeOf(bar, Close) /\ when <= TimeOf(bar + 1, 1)
    BY <2>1, BarTimes, LaterTimes
  <2>3. when <= Latest
    BY <2>2 DEF Latest
  <2>4. Shared /\ e.reason = "trail" => e.level > 0 /\ Backed(e.level, p.entry, scan.seen)
    BY <1>6, <1>17
  <2>5. e.reason \notin {"fallback_stop", "fallback_take"} /\ e.price \in h.subs[e.sub].low .. h.subs[e.sub].high
    BY <1>6, <1>17
  <2> HIDE DEF when
  <2>6. Sold(s, p, e, e.price, h.subs[e.sub].low, h.subs[e.sub].high, scan.seen, when)
    BY <1>17 DEF when
  <2> QED BY <1>16, <2>1, <2>2, <2>3, <2>4, <2>5, <2>6
<1>18. ASSUME e = NoExit, x # NoExit, ~Shared,
              Sold(s, p, x, determineExitPrice(x, h), Low(h), High(h), p.seen, TimeOf(bar, Close))
       PROVE  Outcome
  <2>1. bar \in 0 .. LastBar /\ Close \in 0 .. Close
    BY <1>3, <1>4, EngineNumbers DEF DecisionBars
  <2>2. TimeOf(bar, Close) \in 0 .. TimeOf(LastBar, Close) /\ Latest = TimeOf(bar, Close)
    BY <1>18, <2>1, BarTimes DEF Latest
  <2>3. Latest <= Latest
    <3>1. Latest \in Int
      BY <2>2
    <3> QED BY <3>1
  <2>4. /\ determineExitPrice(x, h) \in Low(h) .. High(h)
        /\ x.reason \in {"fallback_stop", "fallback_take"} => ~(p.stop > 0)
    BY <1>10, <1>18
  <2> QED BY <1>16, <1>18, <2>2, <2>3, <2>4
<1>19. ASSUME e = NoExit, x # NoExit, Shared, Executable(s, bar),
              Sold(s, p, x, open.open, open.low, open.high, p.seen, TimeOf(next, 1))
       PROVE  Outcome
  <2>1. Covered(s)
    BY <1>1, <1>3, <1>19 DEF EngineInv, CoverageHolds
  <2>2. TimeOf(next, 1) \in 0 .. TimeOf(LastBar, Close) /\ Latest = TimeOf(next, 1)
    BY <1>3, <1>19, <2>1, NextOpen DEF EngineInv, Latest
  <2>3. Latest <= Latest
    <3>1. Latest \in Int
      BY <2>2
    <3> QED BY <3>1
  <2>4. /\ ~(Shared /\ Fine) /\ x.reason \in {"fallback_stop", "fallback_take"} => ~(p.stop > 0)
        /\ x.reason = "trail" => x.level > 0 /\ ~Fine /\ x.level = scan.trail
    BY <1>10, <1>19
  <2>5. x.reason = "trail" => Backed(x.level, p.entry, p.seen)
    <3>1. x.reason = "trail" => x.level = p.trail
      BY <1>6, <2>4
    <3> QED BY <1>5, <1>19, <3>1
  <2> QED BY <1>4, <1>16, <1>19, <2>2, <2>3, <2>4, <2>5
<1>20. Outcome
  <2> HIDE DEF s, h, P, open, next
  <2> QED BY <1>2, <1>13, <1>14, <1>15, <1>17, <1>18, <1>19
<1>21. (SoldFairly(s) \/ KeptSafely(s)) /\ (atStop => pos'[s] = NoPosition)
  BY <1>20 DEF Outcome
<1> QED BY <1>1, <1>3, <1>21

\* The liquidation of a ticker sells its position at the next open, which is the
\* last, or finds no reason to.
LEMMA LiquidateOutcome ==
    ASSUME BacktestEngineAssumption, EngineInv, NEW rejected, LiquidateOne(rejected)
    PROVE  LET s == Min(todo)
               sells == isLastLiquidationOpportunity(s) /\ pos[s] # NoPosition /\ ~rejected
           IN
           /\ phase = "liquidate" /\ Shared /\ s \in todo /\ s \in Tickers /\ HasBar(s) /\ todo' = todo \ {s}
           /\ closed' = IF isLastLiquidationOpportunity(s) THEN closed \cup {s} ELSE closed
           /\ UNCHANGED <<data, bar, shape, ahead, universe, rebalanced, ran, phase>>
           /\ sells => SoldFairly(s)
           /\ ~sells => UNCHANGED <<pos, lastExit, booked, runEvidence>>
<1> DEFINE s == Min(todo)
           sells == isLastLiquidationOpportunity(s) /\ pos[s] # NoPosition /\ ~rejected
           open == ahead[s].subs[1]
           y == [NoExit EXCEPT !.reason = "liquidation"]
           when == TimeOf(nextExecutable(s, bar), 1)
<1>1. /\ phase = "liquidate" /\ todo # {} /\ todo' = todo \ {s}
      /\ closed' = IF isLastLiquidationOpportunity(s) THEN closed \cup {s} ELSE closed
      /\ UNCHANGED <<data, bar, shape, ahead, universe, rebalanced, ran, phase>>
      /\ sells => Sold(s, pos[s], y, open.open, open.low, open.high, pos[s].seen, when)
      /\ ~sells => UNCHANGED <<pos, lastExit, booked, runEvidence>>
  BY DEF LiquidateOne
<1>2. Shared /\ s \in todo /\ s \in Tickers /\ HasBar(s) /\ Covered(s) /\ ahead[s] \in Shapes
  <2>1. todo \subseteq Nat /\ todo \subseteq Tickers
    BY EngineNumbers DEF EngineInv, EngineTypeOK
  <2>2. s \in todo /\ s \in Tickers
    BY <1>1, <2>1, LeastIn
  <2>3. HasBar(s) /\ Shared
    BY <1>1, <2>2 DEF EngineInv, VisitsBars
  <2>4. Covered(s)
    BY <1>1, <2>2, <2>3 DEF EngineInv, CoverageHolds
  <2>5. ahead[s] \in Shapes
    BY <2>2 DEF EngineInv, EngineTypeOK
  <2> QED BY <2>2, <2>3, <2>4, <2>5
<1>3. ASSUME sells PROVE SoldFairly(s)
  <2>1. Executable(s, bar)
    BY <1>3 DEF isLastLiquidationOpportunity
  <2>2. when \in 0 .. TimeOf(LastBar, Close) /\ when = Latest /\ 1 \in DOMAIN ahead[s].subs
    BY <1>2, <2>1, NextOpen DEF EngineInv, Latest
  <2>3. when <= Latest
    <3>1. Latest \in Int
      BY <2>2
    <3> QED BY <2>2, <3>1
  <2>4. open.open \in open.low .. open.high
    BY <1>2, <2>2, EngineNumbers DEF BarPrices
  <2>5. y.reason = "liquidation"
    BY DEF NoExit
  <2> HIDE DEF y, when, s
  <2> QED BY <1>1, <1>3, <2>2, <2>3, <2>4, <2>5, SaleIsFair
<1> QED BY <1>1, <1>2, <1>3

------------------------------------------------------------------------------
\* What stays true because its variables stay.
LEMMA SamePositions ==
    ASSUME EngineInv, UNCHANGED pos
    PROVE  OneExposure' /\ PositionsBacked' /\ Held' = Held
BY Zenon DEF EngineInv, OneExposure, PositionsBacked, Held

LEMMA SameExit ==
    ASSUME EngineInv, UNCHANGED lastExit
    PROVE  NoLookahead' /\ ExitIsTraded' /\ FallbackOnlyWithoutStop'
BY Zenon DEF EngineInv, NoLookahead, ExitIsTraded, FallbackOnlyWithoutStop

LEMMA SameSeries ==
    ASSUME UNCHANGED data
    PROVE  \A s : Covered(s)' = Covered(s) /\ Prepared(s)' = Prepared(s)
BY Zenon DEF Covered, Prepared

LEMMA SameBar ==
    ASSUME UNCHANGED <<data, bar>>
    PROVE  /\ \A s : HasBar(s)' = HasBar(s)
           /\ \A s : isLastLiquidationOpportunity(s)' = isLastLiquidationOpportunity(s)
           /\ Latest' = Latest
BY Zenon DEF HasBar, isLastLiquidationOpportunity, Executable, nextExecutable, Prepared, Latest

\* A run starts in the invariant, and every action keeps it.
LEMMA EngineStarts ==
    ASSUME BacktestEngineAssumption, EngineInit
    PROVE  EngineInv
<1>1. Held = {}
  BY DEF Held, EngineInit
<1>2. EngineTypeOK
  <2>1. /\ data \in [Tickers -> SUBSET Time] /\ LastBar >= 1 /\ LastBar \in Nat /\ Close \in 0 .. Close
    BY EngineNumbers DEF EngineInit, BacktestEngineAssumption, Time, Close
  <2>2. 0 \in 0 .. TimeOf(LastBar, Close)
    <3>1. LastBar \in 0 .. LastBar
      BY <2>1
    <3>2. TimeOf(LastBar, Close) \in 0 .. TimeOf(LastBar, Close)
      BY <2>1, <3>1, BarTimes
    <3> QED BY <3>2
  <2>3. NoPosition \in Position
    BY <2>1 DEF NoPosition, Position
  <2>4. pos \in [Tickers -> Position]
    BY <2>3 DEF EngineInit
  <2> QED BY <2>1, <2>2, <2>4 DEF EngineInit, EngineTypeOK, DecisionBars
<1>3. lastExit.reason = "" /\ NoPosition.stop = 0 /\ NoPosition.trail = 0
  BY DEF EngineInit, NoLast, NoPosition
<1>4. NoLookahead /\ ExitIsTraded /\ FallbackOnlyWithoutStop
  BY <1>3 DEF NoLookahead, ExitIsTraded, FallbackOnlyWithoutStop
<1>5. PositionsBacked
  <2>1. \A s \in Tickers : pos[s].stop = 0 /\ pos[s].trail = 0
    <3>1. \A s \in Tickers : pos[s] = NoPosition
      BY DEF EngineInit
    <3> QED BY <1>3, <3>1
  <2> QED BY <2>1 DEF PositionsBacked, Backed
<1>6. OnTime
  <2>1. Latest \in Nat
    <3>1. bar \in Nat /\ 1 \in Nat /\ Moments \in Nat /\ Moments >= 1
      BY EngineNumbers DEF EngineInit
    <3>2. Moments * bar \in Nat /\ Moments * (bar + 1) \in Nat
      BY <3>1
    <3> QED BY <3>1, <3>2 DEF Latest, TimeOf, Close
  <2> QED BY <2>1 DEF OnTime, EngineInit
<1> QED BY <1>1, <1>2, <1>4, <1>5, <1>6 DEF EngineInv, EngineInit, OneExposure, VisitsBars, CandidatesCounted,
             CoverageHolds, LastClosed, WillBeSold

LEMMA CoverageKeeps ==
    ASSUME BacktestEngineAssumption, EngineInv, Coverage
    PROVE  EngineInv'
<1>1. /\ phase = "coverage" /\ phase' \in {"bar", "coverage_failed"}
      /\ Shared /\ phase' = "bar" => \A s \in Tickers : Covered(s)
      /\ UNCHANGED <<data, bar, shape, ahead, pos, closed, universe, rebalanced, todo, runEvidence, ran,
                     lastExit, booked>>
  BY DEF Coverage
<1>2. Held = {} /\ Held' = {} /\ OneExposure' /\ PositionsBacked'
  BY <1>1, SamePositions DEF EngineInv, CoverageHolds
<1>3. NoLookahead' /\ ExitIsTraded' /\ FallbackOnlyWithoutStop'
  BY <1>1, SameExit
<1>4. \A s : Covered(s)' = Covered(s)
  BY <1>1, SameSeries
<1>5. Latest' = Latest
  BY <1>1, SameBar
<1>6. EngineTypeOK'
  BY <1>1 DEF EngineInv, EngineTypeOK
<1>7. VisitsBars' /\ LastClosed' /\ WillBeSold'
  BY <1>1, <1>2 DEF VisitsBars, LastClosed, WillBeSold
<1>8. CandidatesCounted'
  BY <1>1 DEF EngineInv, CandidatesCounted
<1>9. CoverageHolds'
  BY <1>1, <1>2, <1>4 DEF CoverageHolds
<1>10. OnTime'
  BY <1>1, <1>5 DEF EngineInv, OnTime
<1> QED BY <1>2, <1>3, <1>6, <1>7, <1>8, <1>9, <1>10 DEF EngineInv

LEMMA ExitsDoneKeeps ==
    ASSUME BacktestEngineAssumption, EngineInv, ExitsDone
    PROVE  EngineInv'
<1>1. /\ phase = "exits" /\ todo = {} /\ phase' = "liquidate"
      /\ todo' = IF Shared THEN {s \in Tickers : HasBar(s)} ELSE {}
      /\ UNCHANGED <<data, bar, shape, ahead, pos, closed, universe, rebalanced, runEvidence, ran, lastExit, booked>>
  BY DEF ExitsDone
<1>2. Held' = Held /\ OneExposure' /\ PositionsBacked'
  BY <1>1, SamePositions
<1>3. NoLookahead' /\ ExitIsTraded' /\ FallbackOnlyWithoutStop'
  BY <1>1, SameExit
<1>4. /\ \A s : Covered(s)' = Covered(s) /\ Prepared(s)' = Prepared(s) /\ HasBar(s)' = HasBar(s)
      /\ \A s : isLastLiquidationOpportunity(s)' = isLastLiquidationOpportunity(s)
      /\ Latest' = Latest
  BY <1>1, SameSeries, SameBar
<1>5. EngineTypeOK'
  BY <1>1 DEF EngineInv, EngineTypeOK
<1>6. VisitsBars'
  BY <1>1, <1>4 DEF VisitsBars
<1>7. CandidatesCounted'
  BY <1>1 DEF EngineInv, CandidatesCounted
<1>8. CoverageHolds'
  BY <1>1, <1>2, <1>4 DEF EngineInv, CoverageHolds
<1>9. OnTime'
  BY <1>1, <1>4 DEF EngineInv, OnTime
<1>10. LastClosed'
  BY <1>1, <1>4 DEF LastClosed
<1>11. WillBeSold'
  <2> SUFFICES ASSUME Plain, NEW s \in Held PROVE bar + 1 \in Prepared(s) /\ s \in todo'
    BY <1>1, <1>2, <1>4 DEF WillBeSold
  <2>1. bar \in Prepared(s) /\ bar + 1 \in Prepared(s)
    BY <1>1 DEF EngineInv, WillBeSold
  <2> QED BY <1>1, <2>1 DEF Plain, HasBar, Held
<1> QED BY <1>2, <1>3, <1>5, <1>6, <1>7, <1>8, <1>9, <1>10, <1>11 DEF EngineInv

LEMMA LiquidationDoneKeeps ==
    ASSUME BacktestEngineAssumption, EngineInv, NEW features \in BOOLEAN, NEW C \in buildEntryCandidates,
           LiquidationDone(features, C)
    PROVE  EngineInv'
<1>1. /\ phase = "liquidate" /\ todo = {} /\ phase' = "enter" /\ todo' \subseteq universe
      /\ runEvidence' = [runEvidence EXCEPT !.gates = @ \/ (Shared /\ ~features)]
      /\ UNCHANGED <<data, bar, shape, ahead, pos, closed, universe, rebalanced, ran, lastExit, booked>>
  <2>1. C \subseteq universe
    BY DEF buildEntryCandidates
  <2> QED BY <2>1 DEF LiquidationDone
<1>2. Held' = Held /\ OneExposure' /\ PositionsBacked'
  BY <1>1, SamePositions
<1>3. NoLookahead' /\ ExitIsTraded' /\ FallbackOnlyWithoutStop'
  BY <1>1, SameExit
<1>4. /\ \A s : Covered(s)' = Covered(s) /\ Prepared(s)' = Prepared(s) /\ HasBar(s)' = HasBar(s)
      /\ \A s : isLastLiquidationOpportunity(s)' = isLastLiquidationOpportunity(s)
      /\ Latest' = Latest
  BY <1>1, SameSeries, SameBar
<1>5. /\ runEvidence' \in [fills : BOOLEAN, candidates : BOOLEAN, gates : BOOLEAN]
      /\ runEvidence'.candidates = runEvidence.candidates
  BY <1>1 DEF EngineInv, EngineTypeOK
<1>6. EngineTypeOK'
  BY <1>1, <1>5 DEF EngineInv, EngineTypeOK
<1>7. VisitsBars'
  BY <1>1 DEF VisitsBars
<1>8. CandidatesCounted'
  BY <1>1, <1>5 DEF EngineInv, CandidatesCounted
<1>9. CoverageHolds'
  BY <1>1, <1>2, <1>4 DEF EngineInv, CoverageHolds
<1>10. OnTime'
  BY <1>1, <1>4 DEF EngineInv, OnTime
<1>11. LastClosed'
  BY <1>1, <1>4 DEF EngineInv, LastClosed
<1>12. WillBeSold'
  BY <1>1, <1>2, <1>4 DEF EngineInv, WillBeSold
<1> QED BY <1>2, <1>3, <1>6, <1>7, <1>8, <1>9, <1>10, <1>11, <1>12 DEF EngineInv

\* What a sale or a position kept means for the positions and the ledger.
LEMMA PositionsShrink ==
    ASSUME BacktestEngineAssumption, EngineInv, NEW s \in Held, SoldFairly(s) \/ KeptSafely(s)
    PROVE  /\ pos' \in [Tickers -> Position] /\ Held' \subseteq Held /\ Held \ {s} \subseteq Held'
           /\ OneExposure' /\ PositionsBacked'
           /\ NoLookahead' /\ ExitIsTraded' /\ FallbackOnlyWithoutStop'
           /\ booked' \in 0 .. TimeOf(LastBar, Close) /\ booked' <= Latest /\ (~Fine => booked' >= booked)
           /\ runEvidence' \in [fills : BOOLEAN, candidates : BOOLEAN, gates : BOOLEAN]
           /\ runEvidence'.candidates = runEvidence.candidates
<1>1. /\ s \in Tickers /\ pos \in [Tickers -> Position] /\ pos[s] # NoPosition
      /\ runEvidence \in [fills : BOOLEAN, candidates : BOOLEAN, gates : BOOLEAN]
      /\ booked \in 0 .. TimeOf(LastBar, Close) /\ booked <= Latest
      /\ OneExposure /\ PositionsBacked
  BY DEF EngineInv, EngineTypeOK, Held, OnTime
<1>2. NoPosition \in Position /\ NoPosition.stop = 0 /\ NoPosition.trail = 0
  BY EngineNumbers DEF NoPosition, Position
<1>3. PICK p \in Position :
         /\ pos' = [pos EXCEPT ![s] = p]
         /\ p.stop > 0 => p.take > 0
         /\ Shared => Backed(p.trail, p.entry, p.seen)
  <2>1. CASE SoldFairly(s)
    <3>1. pos' = [pos EXCEPT ![s] = NoPosition]
      BY <2>1 DEF SoldFairly
    <3>2. ~(NoPosition.stop > 0) /\ Backed(NoPosition.trail, NoPosition.entry, NoPosition.seen)
      BY <1>2 DEF Backed
    <3> QED BY <1>2, <3>1, <3>2
  <2>2. CASE KeptSafely(s)
    <3>1. pos[s].stop > 0 => pos[s].take > 0
      BY <1>1 DEF PositionsBacked
    <3> QED BY <2>2, <3>1 DEF KeptSafely
  <2> QED BY <2>1, <2>2
<1>4. /\ pos' \in [Tickers -> Position] /\ pos'[s] = p
      /\ \A t \in Tickers \ {s} : pos'[t] = pos[t]
  BY <1>1, <1>3
<1>5. Held' \subseteq Held /\ Held \ {s} \subseteq Held'
  BY <1>1, <1>4 DEF Held
<1>6. OneExposure'
  BY <1>1, <1>5 DEF OneExposure
<1>7. PositionsBacked'
  BY <1>1, <1>3, <1>4 DEF PositionsBacked
<1>8. NoLookahead' /\ ExitIsTraded' /\ FallbackOnlyWithoutStop'
  BY SameExit DEF SoldFairly, KeptSafely
<1>9. booked' \in 0 .. TimeOf(LastBar, Close) /\ booked' <= Latest /\ (~Fine => booked' >= booked)
  <2>1. CASE SoldFairly(s)
    BY <1>1, <2>1 DEF SoldFairly
  <2>2. CASE KeptSafely(s)
    BY <1>1, <2>2 DEF KeptSafely
  <2> QED BY <2>1, <2>2
<1>10. /\ runEvidence' \in [fills : BOOLEAN, candidates : BOOLEAN, gates : BOOLEAN]
       /\ runEvidence'.candidates = runEvidence.candidates
  <2>1. CASE SoldFairly(s)
    BY <1>1, <2>1 DEF SoldFairly
  <2>2. CASE KeptSafely(s)
    BY <1>1, <2>2 DEF KeptSafely
  <2> QED BY <2>1, <2>2
<1> QED BY <1>4, <1>5, <1>6, <1>7, <1>8, <1>9, <1>10

LEMMA ExitOneKeeps ==
    ASSUME BacktestEngineAssumption, EngineInv, NEW sell \in BOOLEAN, NEW rejected, ExitOne(sell, rejected)
    PROVE  EngineInv' /\ (~Fine => booked' >= booked)
<1> DEFINE s == Min(todo)
<1>1. /\ phase = "exits" /\ s \in todo /\ s \in Held /\ todo' = todo \ {s}
      /\ UNCHANGED <<data, bar, shape, ahead, closed, universe, rebalanced, ran, phase>>
      /\ SoldFairly(s) \/ KeptSafely(s)
  BY ExitOutcome
<1> HIDE DEF s
<1>2. /\ pos' \in [Tickers -> Position] /\ Held' \subseteq Held /\ Held \ {s} \subseteq Held'
      /\ OneExposure' /\ PositionsBacked'
      /\ NoLookahead' /\ ExitIsTraded' /\ FallbackOnlyWithoutStop'
      /\ booked' \in 0 .. TimeOf(LastBar, Close) /\ booked' <= Latest /\ (~Fine => booked' >= booked)
      /\ runEvidence' \in [fills : BOOLEAN, candidates : BOOLEAN, gates : BOOLEAN]
      /\ runEvidence'.candidates = runEvidence.candidates
  BY <1>1, PositionsShrink
<1>3. /\ \A t : Covered(t)' = Covered(t) /\ Prepared(t)' = Prepared(t) /\ HasBar(t)' = HasBar(t)
      /\ \A t : isLastLiquidationOpportunity(t)' = isLastLiquidationOpportunity(t)
      /\ Latest' = Latest
  BY <1>1, SameSeries, SameBar
<1>4. EngineTypeOK'
  BY <1>1, <1>2 DEF EngineInv, EngineTypeOK
<1>5. VisitsBars'
  BY <1>1, <1>2, <1>3 DEF EngineInv, VisitsBars
<1>6. CandidatesCounted'
  BY <1>1, <1>2 DEF EngineInv, CandidatesCounted
<1>7. CoverageHolds'
  BY <1>1, <1>2, <1>3 DEF EngineInv, CoverageHolds
<1>8. OnTime'
  BY <1>2, <1>3 DEF OnTime
<1>9. LastClosed'
  BY <1>1 DEF LastClosed
<1>10. WillBeSold'
  BY <1>1, <1>2, <1>3 DEF EngineInv, WillBeSold
<1> QED BY <1>2, <1>4, <1>5, <1>6, <1>7, <1>8, <1>9, <1>10 DEF EngineInv

LEMMA LiquidateOneKeeps ==
    ASSUME BacktestEngineAssumption, EngineInv, NEW rejected \in Rejections, LiquidateOne(rejected)
    PROVE  EngineInv' /\ (~Fine => booked' >= booked)
<1> DEFINE s == Min(todo)
           last == isLastLiquidationOpportunity(s)
           sells == last /\ pos[s] # NoPosition /\ ~rejected
<1>1. /\ phase = "liquidate" /\ Shared /\ s \in todo /\ s \in Tickers /\ HasBar(s) /\ todo' = todo \ {s}
      /\ closed' = IF last THEN closed \cup {s} ELSE closed
      /\ UNCHANGED <<data, bar, shape, ahead, universe, rebalanced, ran, phase>>
      /\ sells => SoldFairly(s)
      /\ ~sells => UNCHANGED <<pos, lastExit, booked, runEvidence>>
  BY LiquidateOutcome
<1> HIDE DEF s
<1>2. /\ pos' \in [Tickers -> Position] /\ Held' \subseteq Held
      /\ sells => Held' \subseteq Held \ {s}
      /\ OneExposure' /\ PositionsBacked'
      /\ NoLookahead' /\ ExitIsTraded' /\ FallbackOnlyWithoutStop'
      /\ booked' \in 0 .. TimeOf(LastBar, Close) /\ booked' <= Latest /\ (~Fine => booked' >= booked)
      /\ runEvidence' \in [fills : BOOLEAN, candidates : BOOLEAN, gates : BOOLEAN]
      /\ runEvidence'.candidates = runEvidence.candidates
  <2>1. CASE sells
    <3>1. s \in Held /\ SoldFairly(s)
      BY <1>1, <2>1 DEF Held
    <3>2. s \notin Held'
      <4>1. pos' = [pos EXCEPT ![s] = NoPosition] /\ pos \in [Tickers -> Position]
        BY <3>1 DEF SoldFairly, EngineInv, EngineTypeOK
      <4>2. pos'[s] = NoPosition
        BY <1>1, <4>1
      <4> QED BY <4>2 DEF Held
    <3> QED BY <3>1, <3>2, PositionsShrink
  <2>2. CASE ~sells
    <3>1. UNCHANGED <<pos, lastExit, booked, runEvidence>>
      BY <1>1, <2>2
    <3>2. Held' = Held /\ OneExposure' /\ PositionsBacked'
      BY <3>1, SamePositions
    <3>3. NoLookahead' /\ ExitIsTraded' /\ FallbackOnlyWithoutStop'
      BY <3>1, SameExit
    <3> QED BY <2>2, <3>1, <3>2, <3>3 DEF EngineInv, EngineTypeOK, OnTime
  <2> QED BY <2>1, <2>2
<1>3. /\ \A t : Covered(t)' = Covered(t) /\ Prepared(t)' = Prepared(t) /\ HasBar(t)' = HasBar(t)
      /\ \A t : isLastLiquidationOpportunity(t)' = isLastLiquidationOpportunity(t)
      /\ Latest' = Latest
  BY <1>1, SameSeries, SameBar
<1>4. EngineTypeOK'
  BY <1>1, <1>2 DEF EngineInv, EngineTypeOK
<1>5. VisitsBars'
  BY <1>1, <1>3 DEF EngineInv, VisitsBars
<1>6. CandidatesCounted'
  BY <1>1, <1>2 DEF EngineInv, CandidatesCounted
<1>7. CoverageHolds'
  BY <1>1, <1>2, <1>3 DEF EngineInv, CoverageHolds
<1>8. OnTime'
  BY <1>2, <1>3 DEF OnTime
<1>9. LastClosed'
  BY <1>1, <1>3 DEF EngineInv, LastClosed
<1>10. WillBeSold'
  <2> SUFFICES ASSUME Plain, NEW t \in Held', t \notin todo'
               PROVE  bar + 2 \in Prepared(t)
    BY <1>1, <1>2, <1>3 DEF EngineInv, WillBeSold
  <2>1. t \in Held /\ t \in Tickers /\ bar + 1 \in Prepared(t) /\ (t \in todo \/ bar + 2 \in Prepared(t))
    BY <1>1, <1>2 DEF EngineInv, WillBeSold, Held
  <2>2. CASE t = s
    <3>1. ~rejected /\ ~last
      BY <1>1, <1>2, <2>1, <2>2 DEF Plain, Held
    <3>2. data \in [Tickers -> SUBSET Time] /\ Covered(s) /\ bar \in Nat
      BY <1>1 DEF EngineInv, EngineTypeOK, CoverageHolds, DecisionBars
    <3>3. bar \in Prepared(s) /\ bar + 1 \in Prepared(s)
      BY <1>1, <2>1, <2>2 DEF HasBar
    <3>4. Executable(s, bar)
      BY <1>1, <3>2, <3>3, NextBar
    <3> QED BY <1>1, <2>2, <3>1, <3>2, <3>4, LastOpportunity
  <2>3. CASE t # s
    BY <1>1, <2>1, <2>3
  <2> QED BY <2>2, <2>3
<1> QED BY <1>2, <1>4, <1>5, <1>6, <1>7, <1>8, <1>9, <1>10 DEF EngineInv

LEMMA EndBarKeeps ==
    ASSUME BacktestEngineAssumption, EngineInv, NEW next \in [Tickers -> Shapes], EndBar(next)
    PROVE  EngineInv'
<1> DEFINE moves(s) == bar < LastBar /\ bar + 1 \in Prepared(s)
<1>1. /\ phase = "enter" /\ todo = {} /\ todo' = {}
      /\ bar' = IF bar < LastBar THEN bar + 1 ELSE bar
      /\ phase' = IF bar < LastBar THEN "bar" ELSE "done"
      /\ shape' = [s \in Tickers |-> IF moves(s) THEN ahead[s] ELSE shape[s]]
      /\ ahead' = [s \in Tickers |-> IF moves(s) THEN next[s] ELSE ahead[s]]
      /\ UNCHANGED <<data, pos, closed, universe, rebalanced, runEvidence, ran, lastExit, booked>>
  BY DEF EndBar
<1>2. bar \in Nat /\ bar >= 1 /\ bar <= LastBar /\ LastBar \in Nat
  BY EngineNumbers DEF EngineInv, EngineTypeOK, DecisionBars
<1>3. Held' = Held /\ OneExposure' /\ PositionsBacked'
  BY <1>1, SamePositions
<1>4. NoLookahead' /\ ExitIsTraded' /\ FallbackOnlyWithoutStop'
  BY <1>1, SameExit
<1>5. \A s : Covered(s)' = Covered(s) /\ Prepared(s)' = Prepared(s)
  BY <1>1, SameSeries
<1>6. EngineTypeOK'
  <2>1. shape' \in [Tickers -> Shapes] /\ ahead' \in [Tickers -> Shapes]
    <3> HIDE DEF moves
    <3> QED BY <1>1 DEF EngineInv, EngineTypeOK
  <2>2. bar' \in DecisionBars /\ rebalanced' \in 0 .. bar'
    BY <1>1, <1>2 DEF EngineInv, EngineTypeOK, DecisionBars
  <2> QED BY <1>1, <2>1, <2>2 DEF EngineInv, EngineTypeOK
<1>7. VisitsBars' /\ LastClosed'
  BY <1>1 DEF VisitsBars, LastClosed
<1>8. CandidatesCounted'
  BY <1>1 DEF EngineInv, CandidatesCounted
<1>9. CoverageHolds'
  BY <1>1, <1>3, <1>5 DEF EngineInv, CoverageHolds
<1>10. OnTime'
  <2>1. CASE bar < LastBar
    <3>1. bar' = bar + 1 /\ booked' = booked /\ booked <= Latest /\ booked \in Int
      BY <1>1, <2>1 DEF EngineInv, EngineTypeOK, OnTime
    <3>2. Moments \in Nat /\ Moments >= 1
      BY EngineNumbers
    <3>3. /\ Moments * (bar + 1) = Moments * bar + Moments /\ Moments * bar \in Nat
          /\ Moments * (bar + 1 + 1) = Moments * bar + Moments + Moments
      BY <1>2, <3>2
    <3>4. booked <= IF Shared THEN TimeOf(bar + 1 + 1, 1) ELSE TimeOf(bar + 1, Close)
      BY <3>1, <3>2, <3>3 DEF Latest, TimeOf, Close
    <3> QED BY <3>1, <3>4 DEF OnTime, Latest
  <2>2. CASE ~(bar < LastBar)
    <3>1. bar' = bar /\ booked' = booked
      BY <1>1, <2>2
    <3>2. Latest' = Latest
      BY <3>1 DEF Latest
    <3> QED BY <3>1, <3>2 DEF EngineInv, OnTime
  <2> QED BY <2>1, <2>2
<1>11. WillBeSold'
  <2> SUFFICES ASSUME Plain PROVE WillBeSold'
    BY DEF WillBeSold
  <2>1. \A s \in Held : bar + 1 \in Prepared(s) /\ bar + 2 \in Prepared(s)
    BY <1>1 DEF EngineInv, WillBeSold
  <2>2. CASE bar < LastBar
    <3>1. bar' = bar + 1 /\ bar' + 1 = bar + 2 /\ phase' = "bar"
      BY <1>1, <1>2, <2>2
    <3> QED BY <1>3, <1>5, <2>1, <3>1 DEF WillBeSold
  <2>3. CASE ~(bar < LastBar)
    <3>1. phase' = "done" /\ Held = {}
      BY <1>1, <1>2, <2>1, <2>3 DEF Prepared, DecisionBars
    <3> QED BY <1>3, <3>1 DEF WillBeSold
  <2> QED BY <2>2, <2>3
<1> QED BY <1>3, <1>4, <1>6, <1>7, <1>8, <1>9, <1>10, <1>11 DEF EngineInv

\* A position after the renames is a position before them, of the same asset.
LEMMA RenamesKeep ==
    ASSUME NEW target, NEW s \in Tickers,
           \A a \in {Asset[o] : o \in Tickers} : target[a] # 0 => Asset[target[a]] = a,
           remapRenamedPositions(target)[s] # NoPosition
    PROVE  \E o \in Held : /\ Asset[o] = Asset[s] /\ remapRenamedPositions(target)[s] = pos[o]
                           /\ s = IF Moves(o, target) THEN target[Asset[o]] ELSE o
<1> DEFINE from == {o \in Tickers : Moves(o, target) /\ target[Asset[o]] = s}
           m == CHOOSE o \in from : TRUE
<1>1. remapRenamedPositions(target)[s]
      = IF from # {} THEN pos[m] ELSE IF Moves(s, target) THEN NoPosition ELSE pos[s]
  BY DEF remapRenamedPositions
<1>2. CASE from # {}
  <2>1. m \in from
    BY <1>2
  <2>2. m \in Tickers /\ Moves(m, target) /\ target[Asset[m]] = s /\ m \in Held
    BY <2>1 DEF Moves
  <2>3. target[Asset[m]] # 0
    BY <2>2 DEF Moves
  <2>4. Asset[s] = Asset[m]
    BY <2>2, <2>3
  <2> HIDE DEF m
  <2> QED BY <1>1, <1>2, <2>2, <2>4
<1>3. CASE from = {}
  <2>1. ~Moves(s, target) /\ remapRenamedPositions(target)[s] = pos[s]
    BY <1>1, <1>3
  <2>2. s \in Held
    BY <2>1 DEF Held
  <2> QED BY <2>1, <2>2
<1> QED BY <1>2, <1>3

LEMMA StartBarKeeps ==
    ASSUME BacktestEngineAssumption, EngineInv, NEW U \in SUBSET Tickers,
           NEW target \in [{Asset[s] : s \in Tickers} -> U \cup {0}], StartBar(U, target)
    PROVE  EngineInv'
<1> DEFINE new == remapRenamedPositions(target)
<1>1. /\ phase = "bar" /\ phase' = "exits" /\ universe' = U /\ pos' = new
      /\ rebalanced' \in {bar, rebalanced}
      /\ ~Due => U = universe
      /\ runEvidence' = [runEvidence EXCEPT !.candidates = @ \/ U # {}]
      /\ closed' = (closed \ {o \in Tickers : Moves(o, target)})
                   \cup {target[Asset[o]] : o \in {x \in closed : Moves(x, target)}}
      /\ todo' = {s \in Tickers : pos'[s] # NoPosition /\ HasContext(s)}
      /\ UNCHANGED <<data, bar, shape, ahead, ran, lastExit, booked>>
      /\ \A a \in DOMAIN target : target[a] = 0 \/ (target[a] \in U /\ Asset[target[a]] = a)
  BY DEF StartBar
<1>2. \A a \in {Asset[o] : o \in Tickers} : target[a] # 0 => target[a] \in Tickers /\ Asset[target[a]] = a
  BY <1>1
<1> HIDE DEF new
<1>3. ASSUME NEW s \in Tickers, new[s] # NoPosition
      PROVE  \E o \in Held : /\ Asset[o] = Asset[s] /\ new[s] = pos[o]
                             /\ s = IF Moves(o, target) THEN target[Asset[o]] ELSE o
  BY <1>2, <1>3, RenamesKeep DEF new
<1>4. new \in [Tickers -> Position] /\ PositionsBacked'
  <2>1. NoPosition \in Position /\ NoPosition.stop = 0 /\ NoPosition.trail = 0
    BY EngineNumbers DEF NoPosition, Position
  <2>2. ASSUME NEW s \in Tickers
        PROVE  /\ new[s] \in Position
               /\ new[s].stop > 0 => new[s].take > 0
               /\ Shared => Backed(new[s].trail, new[s].entry, new[s].seen)
    <3>1. CASE new[s] = NoPosition
      BY <2>1, <3>1 DEF Backed
    <3>2. CASE new[s] # NoPosition
      <4>1. PICK o \in Held : new[s] = pos[o]
        BY <1>3, <3>2
      <4> QED BY <4>1 DEF EngineInv, EngineTypeOK, PositionsBacked, Held
    <3> QED BY <3>1, <3>2
  <2>3. new = [s \in Tickers |-> new[s]]
    BY DEF new, remapRenamedPositions
  <2>4. new \in [Tickers -> Position]
    BY <2>2, <2>3
  <2> QED BY <1>1, <2>2, <2>4 DEF PositionsBacked
<1>5. OneExposure'
  <2> SUFFICES ASSUME NEW s \in Held', NEW t \in Held', Asset[s] = Asset[t] PROVE s = t
    BY DEF OneExposure
  <2>1. s \in Tickers /\ t \in Tickers /\ new[s] # NoPosition /\ new[t] # NoPosition
    BY <1>1 DEF Held
  <2>2. PICK o \in Held : Asset[o] = Asset[s] /\ s = IF Moves(o, target) THEN target[Asset[o]] ELSE o
    BY <1>3, <2>1
  <2>3. PICK r \in Held : Asset[r] = Asset[t] /\ t = IF Moves(r, target) THEN target[Asset[r]] ELSE r
    BY <1>3, <2>1
  <2>4. o = r
    BY <2>2, <2>3 DEF EngineInv, OneExposure
  <2> QED BY <2>2, <2>3, <2>4
<1>6. NoLookahead' /\ ExitIsTraded' /\ FallbackOnlyWithoutStop'
  BY <1>1, SameExit
<1>7. /\ \A s : Covered(s)' = Covered(s) /\ Prepared(s)' = Prepared(s) /\ HasBar(s)' = HasBar(s)
      /\ Latest' = Latest
  BY <1>1, SameSeries, SameBar
<1>8. /\ runEvidence' \in [fills : BOOLEAN, candidates : BOOLEAN, gates : BOOLEAN]
      /\ runEvidence'.candidates = (runEvidence.candidates \/ U # {})
  BY <1>1 DEF EngineInv, EngineTypeOK
<1>9. EngineTypeOK'
  <2>1. closed' \subseteq Tickers
    <3>1. ASSUME NEW o \in closed, Moves(o, target) PROVE target[Asset[o]] \in Tickers
      <4>1. o \in Tickers /\ target[Asset[o]] # 0
        BY <3>1 DEF EngineInv, EngineTypeOK, Moves
      <4> QED BY <1>2, <4>1
    <3> QED BY <1>1, <3>1 DEF EngineInv, EngineTypeOK
  <2>2. rebalanced' \in 0 .. bar
    BY <1>1 DEF EngineInv, EngineTypeOK, DecisionBars
  <2> QED BY <1>1, <1>4, <1>8, <2>1, <2>2 DEF EngineInv, EngineTypeOK
<1>10. VisitsBars'
  BY <1>1, <1>7 DEF VisitsBars, HasContext, Held
<1>11. CandidatesCounted'
  BY <1>1, <1>8 DEF EngineInv, CandidatesCounted
<1>12. CoverageHolds'
  BY <1>1, <1>7 DEF EngineInv, CoverageHolds
<1>13. OnTime'
  BY <1>1, <1>7 DEF EngineInv, OnTime
<1>14. LastClosed'
  BY <1>1 DEF LastClosed
<1>15. WillBeSold'
  <2> SUFFICES ASSUME Plain, NEW s \in Held' PROVE s \in Held
    BY <1>1, <1>7 DEF EngineInv, WillBeSold
  <2>1. s \in Tickers /\ new[s] # NoPosition
    BY <1>1 DEF Held
  <2>2. PICK o \in Held : Asset[o] = Asset[s]
    BY <1>3, <2>1
  <2>3. o = s
    BY <2>1, <2>2 DEF Plain, Held
  <2> QED BY <2>3
<1> QED BY <1>4, <1>5, <1>6, <1>9, <1>10, <1>11, <1>12, <1>13, <1>14, <1>15 DEF EngineInv

LEMMA EnterOneKeeps ==
    ASSUME BacktestEngineAssumption, EngineInv, NEW s \in todo, NEW answer, EnterOne(s, answer)
    PROVE  EngineInv' /\ (~Fine => booked' >= booked)
<1> DEFINE full == Cardinality(Held) >= MaxPositions
           next == ahead[s].subs[1].open
           price == IF Shared \/ (Fine /\ nextExecutable(s, bar) > 0) THEN next ELSE shape[s].close
           reference == IF Shared THEN shape[s].close ELSE price
           when == IF Shared THEN nextExecutable(s, bar) ELSE bar
           buys == Considered(s) /\ answer = "filled" /\ ~full
<1>1. /\ phase = "enter" /\ todo' = todo \ {s} /\ ran' = (ran \/ Considered(s))
      /\ UNCHANGED <<data, bar, shape, ahead, closed, universe, rebalanced, lastExit, phase>>
      /\ buys => /\ Bought(s, price, reference, when)
                 /\ booked' = IF Shared THEN TimeOf(nextExecutable(s, bar), 1) ELSE TimeOf(bar, Close)
                 /\ runEvidence' = [runEvidence EXCEPT !.fills = TRUE]
      /\ ~buys => /\ runEvidence' = [runEvidence EXCEPT !.gates = @ \/ (Considered(s) /\ answer # "declined")]
                  /\ UNCHANGED <<pos, booked>>
  BY DEF EnterOne
<1>2. /\ s \in Tickers /\ s \in universe /\ bar \in Nat /\ bar \in 0 .. LastBar
      /\ pos \in [Tickers -> Position] /\ shape[s] \in Shapes /\ ahead[s] \in Shapes
      /\ runEvidence \in [fills : BOOLEAN, candidates : BOOLEAN, gates : BOOLEAN]
      /\ booked \in 0 .. TimeOf(LastBar, Close) /\ booked <= Latest
      /\ StopDist \in Nat /\ TakeDist \in Nat /\ TrailDist \in Nat
  BY <1>1, EngineNumbers DEF EngineInv, EngineTypeOK, DecisionBars, CandidatesCounted, OnTime
<1>3. /\ runEvidence' \in [fills : BOOLEAN, candidates : BOOLEAN, gates : BOOLEAN]
      /\ runEvidence'.candidates = runEvidence.candidates
  <2> HIDE DEF buys
  <2> QED BY <1>1, <1>2
<1>4. NoLookahead' /\ ExitIsTraded' /\ FallbackOnlyWithoutStop'
  BY <1>1, SameExit
<1>5. /\ \A t : Covered(t)' = Covered(t) /\ Prepared(t)' = Prepared(t) /\ HasBar(t)' = HasBar(t)
      /\ \A t : isLastLiquidationOpportunity(t)' = isLastLiquidationOpportunity(t)
      /\ Latest' = Latest
  BY <1>1, SameSeries, SameBar
\* The position that is bought.
<1>6. ASSUME buys
      PROVE  \E p \in Position : /\ pos' = [pos EXCEPT ![s] = p]
                                 /\ p.stop > 0 => p.take > 0
                                 /\ Shared => Backed(p.trail, p.entry, p.seen)
  <2> DEFINE p == [entry |-> price, at |-> when, held |-> 0, seen |-> 0,
                   stop |-> IF Explicit THEN reference - StopDist ELSE 0,
                   take |-> IF Explicit THEN reference + TakeDist ELSE 0,
                   trail |-> IF ~Shared /\ Trailing = "atr" THEN Max({0, price - TrailDist}) ELSE 0]
  <2>1. pos' = [pos EXCEPT ![s] = p]
    BY <1>1, <1>6 DEF Bought
  <2>2. next \in Nat /\ shape[s].close \in Nat
    <3> DEFINE Sub == [open : Nat, low : Nat \ {0}, high : Nat]
               subs == ahead[s].subs
    <3>1. 1 \in DOMAIN subs
      BY <1>2, SubTimes
    <3>2. subs \in Seq(Sub) /\ shape[s].close \in Nat
      BY <1>2, EngineNumbers DEF BarPrices
    <3>3. subs[1] \in Sub
      <4> HIDE DEF subs, Sub
      <4> QED BY <3>1, <3>2
    <3> QED BY <3>2, <3>3
  <2>3. price \in Nat /\ reference \in Nat
    BY <2>2
  <2>4. when \in 0 .. LastBar
    <3>1. CASE Shared
      <4>1. Covered(s) /\ HasBar(s) /\ Executable(s, bar)
        BY <1>1, <1>2, <1>6, <3>1 DEF Considered, HasContext, EngineInv, CoverageHolds
      <4>2. nextExecutable(s, bar) \in DecisionBars /\ LastBar \in Nat
        BY <4>1, EngineNumbers DEF Executable
      <4> QED BY <3>1, <4>2 DEF DecisionBars
    <3>2. CASE ~Shared
      BY <1>2, <3>2
    <3> QED BY <3>1, <3>2
  <2> HIDE DEF price, reference, when
  <2>5. p.trail \in Nat /\ (Shared => p.trail = 0)
    <3> DEFINE d == price - TrailDist
    <3>1. d \in Int /\ 0 \in Int
      BY <1>2, <2>3
    <3> HIDE DEF d
    <3>2. Max({0, d}) \in {0, d} /\ Max({0, d}) >= 0
      BY <3>1, LargerAndSmaller
    <3>3. Max({0, d}) \in Nat
      BY <3>1, <3>2
    <3> QED BY <3>3 DEF d
  <2>6. p.stop \in Int /\ p.take \in Nat /\ (p.stop > 0 => p.take > 0)
    <3> DEFINE below == reference - StopDist
               above == reference + TakeDist
    <3>1. below \in Int /\ above \in Nat /\ (below > 0 => above > 0)
      BY <1>2, <2>3
    <3>2. p.stop = (IF Explicit THEN below ELSE 0) /\ p.take = (IF Explicit THEN above ELSE 0)
      OBVIOUS
    <3> HIDE DEF below, above, p
    <3> QED BY <3>1, <3>2
  <2>7. p \in Position
    <3>1. p.entry = price /\ p.at = when /\ p.held = 0 /\ p.seen = 0
      OBVIOUS
    <3>2. p = [entry |-> p.entry, at |-> p.at, stop |-> p.stop, take |-> p.take, trail |-> p.trail,
               held |-> p.held, seen |-> p.seen]
      OBVIOUS
    <3> HIDE DEF p
    <3>3. [entry |-> p.entry, at |-> p.at, stop |-> p.stop, take |-> p.take, trail |-> p.trail,
           held |-> p.held, seen |-> p.seen] \in Position
      BY <2>3, <2>4, <2>5, <2>6, <3>1 DEF Position
    <3> QED BY <3>2, <3>3
  <2>8. Shared => Backed(p.trail, p.entry, p.seen)
    <3> HIDE DEF p
    <3> QED BY <2>5 DEF Backed
  <2> HIDE DEF p
  <2> QED BY <2>1, <2>6, <2>7, <2>8
<1> HIDE DEF price, reference, when
<1>7. /\ pos' \in [Tickers -> Position] /\ PositionsBacked'
      /\ Held' \subseteq Held \cup {s} /\ (~buys => Held' = Held)
  <2>1. CASE buys
    <3>1. PICK p \in Position : /\ pos' = [pos EXCEPT ![s] = p]
                                /\ p.stop > 0 => p.take > 0
                                /\ Shared => Backed(p.trail, p.entry, p.seen)
      BY <1>6, <2>1
    <3>2. /\ pos' \in [Tickers -> Position] /\ pos'[s] = p /\ \A t \in Tickers \ {s} : pos'[t] = pos[t]
      BY <1>2, <3>1
    <3>3. PositionsBacked'
      BY <3>1, <3>2 DEF EngineInv, PositionsBacked
    <3>4. Held' \subseteq Held \cup {s}
      BY <3>2 DEF Held
    <3> QED BY <2>1, <3>2, <3>3, <3>4
  <2>2. CASE ~buys
    <3>1. pos' = pos
      BY <1>1, <2>2
    <3> QED BY <1>2, <2>2, <3>1, SamePositions
  <2> QED BY <2>1, <2>2
<1>8. OneExposure'
  <2>1. CASE buys
    <3>1. \A o \in Held : Asset[o] # Asset[s]
      BY <2>1 DEF Considered, hasEconomicPosition
    <3> QED BY <1>7, <3>1 DEF EngineInv, OneExposure
  <2>2. CASE ~buys
    BY <1>7, <2>2 DEF EngineInv, OneExposure
  <2> QED BY <2>1, <2>2
<1>9. booked' \in 0 .. TimeOf(LastBar, Close) /\ booked' <= Latest /\ (~Fine => booked' >= booked)
  <2>1. CASE buys /\ Shared
    <3>1. Covered(s) /\ HasBar(s) /\ Executable(s, bar)
      BY <1>1, <1>2, <2>1 DEF Considered, HasContext, EngineInv, CoverageHolds
    <3>2. booked' = TimeOf(nextExecutable(s, bar), 1)
      BY <1>1, <2>1
    <3>3. booked' \in 0 .. TimeOf(LastBar, Close) /\ booked' = Latest
      BY <1>2, <2>1, <3>1, <3>2, NextOpen DEF EngineInv, Latest
    <3> QED BY <1>2, <3>3
  <2>2. CASE buys /\ ~Shared
    <3>1. booked' = TimeOf(bar, Close) /\ booked' = Latest
      BY <1>1, <2>2 DEF Latest
    <3>2. Close \in 0 .. Close
      BY <1>2, SubTimes
    <3>3. booked' \in 0 .. TimeOf(LastBar, Close)
      BY <1>2, <3>1, <3>2, BarTimes
    <3> QED BY <1>2, <3>1, <3>3
  <2>3. CASE ~buys
    BY <1>1, <1>2, <2>3
  <2> QED BY <2>1, <2>2, <2>3
<1> HIDE DEF buys
<1>10. EngineTypeOK'
  BY <1>1, <1>3, <1>7, <1>9 DEF EngineInv, EngineTypeOK
<1>11. VisitsBars' /\ LastClosed'
  BY <1>1, <1>5 DEF EngineInv, VisitsBars, LastClosed
<1>12. CandidatesCounted'
  BY <1>1, <1>2, <1>3 DEF EngineInv, CandidatesCounted
<1>13. CoverageHolds'
  BY <1>1, <1>5 DEF EngineInv, CoverageHolds
<1>14. OnTime'
  BY <1>5, <1>9 DEF OnTime
<1>15. WillBeSold'
  <2> SUFFICES ASSUME Plain, buys PROVE bar + 1 \in Prepared(s) /\ bar + 2 \in Prepared(s)
    <3>1. \A t \in Held : Plain => bar + 1 \in Prepared(t) /\ bar + 2 \in Prepared(t)
      BY <1>1 DEF EngineInv, WillBeSold
    <3> QED BY <1>1, <1>5, <1>7, <3>1 DEF WillBeSold
  <2>1. Shared /\ HasBar(s) /\ Executable(s, bar) /\ s \notin closed
    BY DEF buys, Plain, Considered, HasContext
  <2>2. Covered(s) /\ data \in [Tickers -> SUBSET Time]
    BY <1>1, <1>2, <2>1 DEF EngineInv, CoverageHolds, EngineTypeOK
  <2>3. ~isLastLiquidationOpportunity(s)
    BY <1>1, <1>2, <2>1 DEF EngineInv, LastClosed
  <2> QED BY <1>2, <2>1, <2>2, <2>3, LastOpportunity
<1> QED BY <1>4, <1>7, <1>8, <1>9, <1>10, <1>11, <1>12, <1>13, <1>14, <1>15 DEF EngineInv

------------------------------------------------------------------------------
LEMMA EngineStep ==
    ASSUME BacktestEngineAssumption, EngineInv, [EngineNext]_engineVars
    PROVE  EngineInv' /\ StopHonoured /\ LedgerChronological
<1>1. booked \in Int
  BY DEF EngineInv, EngineTypeOK
<1>2. EngineInv' /\ LedgerChronological
  <2>1. CASE Coverage
    BY <1>1, <2>1, CoverageKeeps DEF Coverage, LedgerChronological
  <2>2. ASSUME NEW U \in SUBSET Tickers, NEW target \in [{Asset[s] : s \in Tickers} -> U \cup {0}],
               StartBar(U, target)
        PROVE  EngineInv' /\ LedgerChronological
    BY <1>1, <2>2, StartBarKeeps DEF StartBar, LedgerChronological
  <2>3. ASSUME NEW sell \in BOOLEAN, NEW rejected \in Rejections, ExitOne(sell, rejected)
        PROVE  EngineInv' /\ LedgerChronological
    BY <2>3, ExitOneKeeps DEF LedgerChronological
  <2>4. CASE ExitsDone
    BY <1>1, <2>4, ExitsDoneKeeps DEF ExitsDone, LedgerChronological
  <2>5. ASSUME NEW rejected \in Rejections, LiquidateOne(rejected)
        PROVE  EngineInv' /\ LedgerChronological
    BY <2>5, LiquidateOneKeeps DEF LedgerChronological
  <2>6. ASSUME NEW features \in BOOLEAN, NEW C \in buildEntryCandidates, LiquidationDone(features, C)
        PROVE  EngineInv' /\ LedgerChronological
    BY <1>1, <2>6, LiquidationDoneKeeps DEF LiquidationDone, LedgerChronological
  <2>7. ASSUME NEW s \in todo, NEW answer \in {"declined", "rejected", "filled"}, EnterOne(s, answer)
        PROVE  EngineInv' /\ LedgerChronological
    BY <2>7, EnterOneKeeps DEF LedgerChronological
  <2>8. ASSUME NEW next \in [Tickers -> Shapes], EndBar(next)
        PROVE  EngineInv' /\ LedgerChronological
    BY <1>1, <2>8, EndBarKeeps DEF EndBar, LedgerChronological
  <2>9. CASE UNCHANGED engineVars
    <3>1. UNCHANGED <<data, bar, shape, ahead, pos, closed, universe, rebalanced, todo, runEvidence, ran,
                      lastExit, booked, phase>>
      BY <2>9 DEF engineVars
    <3>2. OneExposure' /\ PositionsBacked' /\ Held' = Held /\ NoLookahead' /\ ExitIsTraded'
          /\ FallbackOnlyWithoutStop'
      BY <3>1, SamePositions, SameExit
    <3>3. /\ \A t : Covered(t)' = Covered(t) /\ Prepared(t)' = Prepared(t) /\ HasBar(t)' = HasBar(t)
          /\ \A t : isLastLiquidationOpportunity(t)' = isLastLiquidationOpportunity(t)
          /\ Latest' = Latest
      BY <3>1, SameSeries, SameBar
    <3>4. EngineTypeOK' /\ VisitsBars' /\ CandidatesCounted' /\ CoverageHolds' /\ OnTime' /\ LastClosed'
      BY <3>1, <3>2, <3>3 DEF EngineInv, EngineTypeOK, VisitsBars, CandidatesCounted, CoverageHolds, OnTime, LastClosed
    <3>5. WillBeSold'
      BY <3>1, <3>2, <3>3 DEF EngineInv, WillBeSold
    <3> QED BY <1>1, <3>1, <3>2, <3>4, <3>5 DEF EngineInv, LedgerChronological
  <2> QED BY <2>1, <2>2, <2>3, <2>4, <2>5, <2>6, <2>7, <2>8, <2>9 DEF EngineNext
<1>3. StopHonoured
  <2> SUFFICES ASSUME NEW sell \in BOOLEAN, ExitOne(sell, FALSE),
                      pos[Min(todo)].stop > 0, Low(shape[Min(todo)]) <= pos[Min(todo)].stop,
                      Fine \/ ~Shared \/ Executable(Min(todo), bar)
               PROVE  pos'[Min(todo)] = NoPosition
    BY DEF StopHonoured
  <2> QED BY ExitOutcome
<1> QED BY <1>2, <1>3

\* The invariant is stronger than the property.
LEMMA EngineInvImplies ==
    ASSUME EngineInv PROVE RunIsHonest
<1>1. LiquidatedAtEnd
  BY DEF EngineInv, WillBeSold, Plain, LiquidatedAtEnd
<1>2. QuietIsStrategy
  BY DEF EngineInv, CandidatesCounted, QuietIsStrategy, classifySharedRun
<1> QED BY <1>1, <1>2 DEF EngineInv, RunIsHonest

\* A run of the bar loop is honest at every bar: one position per asset whatever
\* is renamed, no exit at a price the bar did not trade at or at a trailing stop
\* that only later prices set, nothing left at the end, and a quiet run put down
\* to what kept it quiet (engine.go, stage03.go, shared_engine.go).
THEOREM EngineHonest == ASSUME BacktestEngineAssumption PROVE EngineSpec => []RunIsHonest
<1>1. EngineInit => EngineInv
  BY EngineStarts
<1>2. EngineInv /\ [EngineNext]_engineVars => EngineInv'
  BY EngineStep
<1>3. EngineInv => RunIsHonest
  BY EngineInvImplies
<1> QED BY <1>1, <1>2, <1>3, PTL DEF EngineSpec

\* No step of it lets a position outlive a price at its stop, or books a fill
\* before one that is booked (engine.go, EvaluateBarCloseExit).
THEOREM EngineStepsSound ==
    ASSUME BacktestEngineAssumption PROVE EngineSpec => [][StopHonoured /\ LedgerChronological]_engineVars
<1>1. EngineInit => EngineInv
  BY EngineStarts
<1>2. EngineInv /\ [EngineNext]_engineVars => EngineInv' /\ [StopHonoured /\ LedgerChronological]_engineVars
  BY EngineStep
<1> QED BY <1>1, <1>2, PTL DEF EngineSpec
=============================================================================
