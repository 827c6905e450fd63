----------------------------- MODULE LedgerProofs -----------------------------
(***************************************************************************)
(* The safety properties of module Ledger for every set of symbols, keys   *)
(* and amounts, and of a paper round trip at every scale.                  *)
(*                                                                         *)
(* LedgerInv is inductive.  Every command ends in Commit, so the argument  *)
(* has two halves: CommitPreserves says which facts about the values a     *)
(* transaction writes are enough, whatever the triggers decide, and one    *)
(* step per command of Next derives those facts from LedgerInv.            *)
(*                                                                         *)
(* BookInv, on top of it, ties the event and batch tables to the totals:   *)
(* PostBooks says that one more event keeps the books, CommitBooks which   *)
(* events a transaction may add, and again there is a step per command.    *)
(***************************************************************************)
EXTENDS Ledger, PaperRoundTrip, SumProofs

-----------------------------------------------------------------------------
(* Rounding, for every scale: products of non-negative decimals are         *)
(* non-negative, and a proportional share of an amount lies between zero    *)
(* and that amount.                                                        *)

\* Truncated division of a natural number: quotient and remainder.
LEMMA QuoOfNat ==
    ASSUME NEW n \in Nat, NEW d \in Nat \ {0}
    PROVE  /\ Quo(n, d) \in Nat
           /\ Rem(n, d) \in 0 .. (d - 1)
           /\ n = d * Quo(n, d) + Rem(n, d)
<1> DEFINE q == n \div d
<1>1. q \in Nat /\ n - d * q \in 0 .. (d - 1)
  OBVIOUS
<1>2. Quo(n, d) = q
  <2>1. CASE n = 0
    BY <2>1, <1>1 DEF Quo, Sign, Abs
  <2>2. CASE n > 0
    BY <2>2, <1>1 DEF Quo, Sign, Abs
  <2> QED BY <2>1, <2>2
<1> QED BY <1>1, <1>2 DEF Rem

\* Rounding a natural quotient moves it up by at most one.
LEMMA RoundOfNat ==
    ASSUME NEW n \in Nat, NEW d \in Nat \ {0}
    PROVE  /\ roundQuotient(n, d) \in Nat
           /\ roundQuotient(n, d) \in {Quo(n, d), Quo(n, d) + 1}
           /\ Rem(n, d) = 0 => roundQuotient(n, d) = Quo(n, d)
<1>1. Quo(n, d) \in Nat /\ Rem(n, d) \in 0 .. (d - 1)
  BY QuoOfNat
<1>2. Sign(n) * Sign(d) >= 0
  BY DEF Sign
<1>3. Abs(Rem(n, d)) = Rem(n, d) /\ Abs(d) = d
  BY <1>1 DEF Abs
<1> QED BY <1>1, <1>2, <1>3 DEF roundQuotient

\* roundQuotient returns the nearest integer, and the larger one of two that are
\* equally near.
THEOREM RoundsToNearest ==
    ASSUME NEW n \in Nat, NEW d \in Nat \ {0}
    PROVE  /\ 2 * (d * roundQuotient(n, d) - n) <= d
           /\ 2 * (d * roundQuotient(n, d) - n) > -d
<1> DEFINE q == Quo(n, d)
           r == Rem(n, d)
<1>1. q \in Nat /\ r \in 0 .. (d - 1) /\ n = d * q + r
  BY QuoOfNat
<1>2. Abs(r) = r /\ Abs(d) = d /\ Sign(n) * Sign(d) >= 0
  BY <1>1 DEF Abs, Sign
<1>3. d * (q + 1) = d * q + d
  BY <1>1
<1> DEFINE k == d * q
<1>4. k \in Nat
  BY <1>1
<1>5. CASE 2 * r < d
  <2>1. roundQuotient(n, d) = q
    BY <1>2, <1>5 DEF roundQuotient
  <2>2. d * roundQuotient(n, d) - n = -r
    <3>1. d * roundQuotient(n, d) = k
      BY <2>1
    <3> HIDE DEF k, q, r
    <3> QED BY <1>1, <1>4, <3>1 DEF k
  <2> HIDE DEF q, r, k
  <2> QED BY <1>1, <1>5, <2>2
<1>6. CASE ~(2 * r < d)
  <2>1. roundQuotient(n, d) = q + 1
    BY <1>2, <1>6 DEF roundQuotient
  <2>2. d * roundQuotient(n, d) - n = d - r
    <3>1. d * roundQuotient(n, d) = k + d
      BY <2>1, <1>3
    <3> HIDE DEF k, q, r
    <3> QED BY <1>1, <1>4, <3>1 DEF k
  <2> HIDE DEF q, r, k
  <2> QED BY <1>1, <1>6, <2>2
<1> QED BY <1>5, <1>6

\* The product of two non-negative decimals is a non-negative decimal.
LEMMA MulNat ==
    ASSUME NEW a \in Nat, NEW b \in Nat
    PROVE  Mul(a, b) \in Nat
BY RoundOfNat, FactorAssumption, a * b \in Nat DEF Mul

\* Division is exact on a multiple of the divisor.
LEMMA ExactQuotient ==
    ASSUME NEW b \in Nat, NEW w \in Nat \ {0}, NEW k \in Nat, NEW r \in 0 .. (w - 1),
           b * w = w * k + r
    PROVE  k = b /\ r = 0
<1>1. r = w * (b - k)
  OBVIOUS
<1>2. b - k >= 1 => w * (b - k) >= w
  OBVIOUS
<1>3. b - k <= -1 => w * (b - k) <= -w
  OBVIOUS
<1>4. b - k = 0
  BY <1>1, <1>2, <1>3
<1> QED BY <1>1, <1>4

\* decimal.go MulDiv as applyPosition uses it: the basis a sale of part of a
\* position releases is never negative and never more than the basis held, and
\* a sale of the whole position releases exactly all of it.
THEOREM ShareOfBasis ==
    ASSUME NEW basis \in Nat, NEW whole \in Nat \ {0}, NEW part \in 0 .. whole
    PROVE  /\ MulDiv(basis, part, whole) \in 0 .. basis
           /\ MulDiv(basis, whole, whole) = basis
<1> DEFINE n == basis * part
           q == Quo(n, whole)
           r == Rem(n, whole)
<1>1. n \in Nat /\ n <= basis * whole
  OBVIOUS
<1>2. q \in Nat /\ r \in 0 .. (whole - 1) /\ n = whole * q + r
  BY <1>1, QuoOfNat
<1>3. /\ roundQuotient(n, whole) \in {q, q + 1}
      /\ r = 0 => roundQuotient(n, whole) = q
  BY <1>1, RoundOfNat
<1>4. q <= basis
  <2> SUFFICES ASSUME q >= basis + 1 PROVE FALSE
    BY <1>2
  <2>1. whole * q >= whole * (basis + 1)
    BY <1>2
  <2>2. whole * (basis + 1) = basis * whole + whole
    OBVIOUS
  <2> HIDE DEF n, q, r
  <2> QED BY <1>1, <1>2, <2>1, <2>2
<1>5. q = basis => r = 0
  <2> SUFFICES ASSUME q = basis PROVE r = 0
    OBVIOUS
  <2>1. whole * q = basis * whole
    BY <1>2
  <2> HIDE DEF n, q, r
  <2> QED BY <1>1, <1>2, <2>1
<1>6. MulDiv(basis, part, whole) \in 0 .. basis
  <2> HIDE DEF q, r
  <2> QED BY <1>2, <1>3, <1>4, <1>5 DEF MulDiv
<1>7. MulDiv(basis, whole, whole) = basis
  <2> DEFINE m == basis * whole
  <2>1. m \in Nat
    OBVIOUS
  <2>2. Quo(m, whole) \in Nat /\ Rem(m, whole) \in 0 .. (whole - 1)
        /\ basis * whole = whole * Quo(m, whole) + Rem(m, whole)
    BY <2>1, QuoOfNat
  <2>3. Quo(m, whole) = basis /\ Rem(m, whole) = 0
    BY <2>2, ExactQuotient
  <2> QED BY <2>1, <2>3, RoundOfNat DEF MulDiv
<1> QED BY <1>6, <1>7

-----------------------------------------------------------------------------
(* Types of the values commands compute.                                   *)

\* Posting an event keeps the totals in their type.
LEMMA PostType ==
    ASSUME NEW t \in Postings, NEW e \in Events
    PROVE  Post(t, e) \in Postings
BY DEF Post, Postings, Totals, Events

\* Posting an event adds its deltas to the cash and to its own symbol's
\* totals, and leaves every other symbol alone.
LEMMA PostFields ==
    ASSUME NEW t \in Postings, NEW e \in Events
    PROVE  /\ Post(t, e).cash = t.cash + e.cash
           /\ \A s \in Symbols : s # e.symbol => Post(t, e).pos[s] = t.pos[s]
           /\ e.symbol \in Symbols =>
                 Post(t, e).pos[e.symbol] =
                    [amount |-> t.pos[e.symbol].amount + e.asset,
                     basis |-> t.pos[e.symbol].basis + e.basis,
                     realized |-> t.pos[e.symbol].realized + e.realized,
                     fees |-> t.pos[e.symbol].fees + e.fee]
BY LedgerAssumption DEF Post, Postings, Totals, Events

\* A stored payload is never the marker of an unused key (beginBatch).
LEMMA PayloadIsNotNone == \A c \in Payloads : c # NoBatch
BY DEF Payloads, FillCommands, AdjustmentCommands, ReversalCommands,
       CorrectionCommands, OpeningPayload, NoBatch

-----------------------------------------------------------------------------
\* Economic content of an event, as the trigger on ledger_events demands it.
Carries(e) == e.cash # 0 \/ e.asset # 0 \/ e.fill

\* A row the trigger on positions exempts: legacy, closed, set to zero.
Exempt(s, ps) == ~positions[s].exact /\ positions[s].status = "closed" /\ ps[s].amount = 0

\* A step that leaves the ledger alone preserves the invariant, unless it
\* reports a refusal by the triggers or starts a backfill.
LEMMA ReplyPreserves ==
    ASSUME LedgerInv, UNCHANGED ledger,
           outcome' \in Outcomes,
           outcome' = "coupling" => OpeningCash = 0 \/ Residue # {},
           backfill' \in [Backfillers -> Int],
           \A b \in Backfillers : backfill'[b] \in {Idle, backfill[b]}
    PROVE  LedgerInv'
<1>1. TypeOK'
  BY DEF LedgerInv, TypeOK, ledger
<1>2. Reconciled' /\ Solvent' /\ NilIsZeroIn(wallet, positions)'
  BY DEF LedgerInv, ledger, Reconciled, ReconciledIn, Solvent, SolventIn, NilIsZeroIn, Projected
<1>3. (\A e \in events : Shape(e))'
  BY DEF LedgerInv, ledger, Shape
<1>4. OpeningFirst'
  BY DEF LedgerInv, TypeOK, ledger, OpeningFirst, Known, LegacyRow, NothingPosted, Idle
<1>5. ReadyIsResolved'
  BY DEF LedgerInv, ledger, ReadyIsResolved, Unresolved
<1>6. CouplingOnlyFromResidue'
  BY DEF LedgerInv, ledger, CouplingOnlyFromResidue, Residue
<1> QED BY <1>1, <1>2, <1>3, <1>4, <1>5, <1>6 DEF LedgerInv

\* A transaction whose new values are typed, solvent and properly shaped, and
\* reconciled except on an account with a residue, preserves the invariant,
\* whether the triggers accept it or not.
LEMMA CommitPreserves ==
    ASSUME LedgerInv,
           NEW k \in BatchIDs, NEW c \in Payloads, NEW m \in Migrations,
           NEW w \in Wallets, NEW ps \in [Symbols -> Positions],
           NEW evs \in SUBSET Events, NEW total \in Postings,
           ~Known(k), k = "opening" \/ Known("opening"),
           w.cash = total.cash,
           Residue = {} => ReconciledIn(w, ps, total),
           \A s \in Symbols : ps[s] = positions[s] \/ Exempt(s, ps)
                                 => Projected(ps[s]) = total.pos[s],
           \A e \in evs : Carries(e) => Shape(e),
           OpeningCash # 0 => \A e \in evs : Carries(e),
           SolventIn(w, ps), NilIsZeroIn(w, ps),
           m = "ready" => Unresolved(ps) = {},
           Commit(k, c, m, w, ps, evs, total),
           backfill' \in [Backfillers -> Int],
           \A b \in Backfillers : backfill'[b] \in {Idle, backfill[b]}
    PROVE  LedgerInv'
<1>1. CASE Coupled(w, ps, total, evs)
  <2>1. /\ migration' = m /\ wallet' = w /\ positions' = ps /\ posted' = total
        /\ batches' = [batches EXCEPT ![k] = c] /\ events' = events \cup evs
        /\ outcome' = "applied"
    BY <1>1 DEF Commit
  <2>2. TypeOK'
    BY <2>1 DEF LedgerInv, TypeOK, Outcomes
  <2>3. Reconciled'
    <3>1. ReconciledIn(w, ps, total)
      BY <1>1 DEF Coupled, ReconciledIn, Exempt
    <3> QED BY <3>1, <2>1 DEF Reconciled, ReconciledIn, Projected
  <2>4. Solvent' /\ NilIsZeroIn(wallet, positions)'
    BY <2>1 DEF Solvent, SolventIn, NilIsZeroIn, Projected
  <2>5. (\A e \in events : Shape(e))'
    <3>1. \A e \in evs : Shape(e)
      BY <1>1 DEF Coupled, Carries
    <3>2. \A e \in events : Shape(e)
      BY DEF LedgerInv
    <3> QED BY <2>1, <3>1, <3>2 DEF Shape
  <2>6. OpeningFirst'
    <3>1. Known("opening")'
      BY <2>1, PayloadIsNotNone DEF Known, LedgerInv, TypeOK, BatchIDs
    <3> QED BY <3>1 DEF OpeningFirst
  <2>7. ReadyIsResolved'
    BY <2>1 DEF ReadyIsResolved, Unresolved
  <2>8. CouplingOnlyFromResidue'
    BY <2>1 DEF CouplingOnlyFromResidue
  <2> QED BY <2>2, <2>3, <2>4, <2>5, <2>6, <2>7, <2>8 DEF LedgerInv
<1>2. CASE ~Coupled(w, ps, total, evs)
  <2>1. outcome' = "coupling" /\ UNCHANGED ledger
    BY <1>2 DEF Commit, Reply
  <2>2. OpeningCash = 0 \/ Residue # {}
    BY <1>2 DEF Coupled, ReconciledIn, Carries
  <2> QED BY <2>1, <2>2, ReplyPreserves DEF Outcomes
<1> QED BY <1>1, <1>2

-----------------------------------------------------------------------------
(* Answers that change nothing.                                            *)

\* Answering a repeated key (beginBatch) preserves the invariant.
LEMMA ReplayPreserves ==
    ASSUME LedgerInv, NEW k \in Keys, NEW c, Replay(k, c), UNCHANGED backfill
    PROVE  LedgerInv'
<1>1. UNCHANGED ledger /\ outcome' \in Outcomes /\ outcome' # "coupling"
  BY DEF Replay, Reply, Outcomes
<1> QED BY <1>1, ReplyPreserves DEF LedgerInv, TypeOK

\* A command that is rolled back preserves the invariant.
LEMMA RejectPreserves ==
    ASSUME LedgerInv, Reply("rejected"),
           backfill' \in [Backfillers -> Int],
           \A b \in Backfillers : backfill'[b] \in {Idle, backfill[b]}
    PROVE  LedgerInv'
BY ReplyPreserves DEF Reply, Outcomes

-----------------------------------------------------------------------------
(* What every command knows of the state it starts from.                   *)

\* What the invariant says of the state, in the form the cases below cite.
LEMMA StateFacts ==
    ASSUME LedgerInv
    PROVE  /\ wallet \in Wallets /\ wallet.cash \in Int /\ wallet.cash >= 0
           /\ posted \in Postings /\ posted.cash = wallet.cash
           /\ positions \in [Symbols -> Positions]
           /\ \A s \in Symbols : Projected(positions[s]) = posted.pos[s]
           /\ migration \in Migrations
           /\ backfill \in [Backfillers -> Int]
           /\ events \in SUBSET Events
BY DEF LedgerInv, TypeOK, Reconciled, ReconciledIn, Solvent, SolventIn, Wallets

\* One event of one symbol: the sums it leaves.
LEMMA PostReconciles ==
    ASSUME LedgerInv, NEW e \in Events, NEW w, NEW ps,
           w.cash = wallet.cash + e.cash,
           \A s \in Symbols : s # e.symbol => ps[s] = positions[s],
           e.symbol \in Symbols =>
              /\ ps[e.symbol].amount = positions[e.symbol].amount + e.asset
              /\ ps[e.symbol].basis = positions[e.symbol].basis + e.basis
              /\ ps[e.symbol].realized = positions[e.symbol].realized + e.realized
              /\ ps[e.symbol].fees = positions[e.symbol].fees + e.fee
    PROVE  ReconciledIn(w, ps, Post(posted, e))
<1>1. posted \in Postings /\ posted.cash = wallet.cash
      /\ \A s \in Symbols : Projected(positions[s]) = posted.pos[s]
  BY StateFacts
<1>2. w.cash = Post(posted, e).cash
  BY <1>1, PostFields
<1>3. \A s \in Symbols : s # e.symbol => Projected(ps[s]) = Post(posted, e).pos[s]
  BY <1>1, PostFields
<1>4. ASSUME e.symbol \in Symbols
      PROVE  Projected(ps[e.symbol]) = Post(posted, e).pos[e.symbol]
  <2>1. Post(posted, e).pos[e.symbol] =
           [amount |-> posted.pos[e.symbol].amount + e.asset,
            basis |-> posted.pos[e.symbol].basis + e.basis,
            realized |-> posted.pos[e.symbol].realized + e.realized,
            fees |-> posted.pos[e.symbol].fees + e.fee]
    BY <1>1, <1>4, PostFields
  <2>2. /\ posted.pos[e.symbol].amount = positions[e.symbol].amount
        /\ posted.pos[e.symbol].basis = positions[e.symbol].basis
        /\ posted.pos[e.symbol].realized = positions[e.symbol].realized
        /\ posted.pos[e.symbol].fees = positions[e.symbol].fees
    <3>1. posted.pos[e.symbol] = Projected(positions[e.symbol])
      BY <1>1, <1>4
    <3> QED BY <3>1 DEF Projected
  <2> QED BY <1>4, <2>1, <2>2 DEF Projected
<1> QED BY <1>2, <1>3, <1>4 DEF ReconciledIn

-----------------------------------------------------------------------------
(* One lemma per command.                                                  *)

\* An account that left pending_approval has its opening batch.
LEMMA ReadyIsOpened ==
    ASSUME LedgerInv, migration = "ready" \/ migration = "pending_resolution"
    PROVE  Known("opening")
BY DEF LedgerInv, OpeningFirst

\* ApplyAdjustment preserves the invariant.
LEMMA AdjustmentPreserves ==
    ASSUME LedgerInv, NEW k \in Keys, NEW c \in AdjustmentCommands,
           ~Known(k), AdjustmentAccepted(c), CommitAdjustment(k, c), UNCHANGED backfill
    PROVE  LedgerInv'
<1> DEFINE e == CashEvent(k, 1, c.type, Delta(c), NoEvent)
           w == [exact |-> TRUE, cash |-> wallet.cash + Delta(c)]
<1>1. Delta(c) \in Int /\ Delta(c) # 0
  <2>1. c.amount \in Int
    BY LedgerAssumption DEF AdjustmentCommands
  <2>2. c.amount # 0
    BY DEF AdjustmentAccepted
  <2> QED BY <2>1, <2>2 DEF Delta
<1>2. w \in Wallets /\ w.cash >= 0
  BY <1>1 DEF LedgerInv, TypeOK, Wallets, AdjustmentAccepted
<1>3. e \in Events /\ Shape(e) /\ Carries(e) /\ e.symbol = NoSymbol /\ e.cash = Delta(c)
  BY <1>1 DEF Events, CashEvent, AdjustmentCommands, AdjustmentTypes, EventTypes,
              EventIDs, BatchIDs, NoEvent, Shape, Carries
<1>4. Post(posted, e) \in Postings
  BY <1>3, PostType DEF LedgerInv, TypeOK
<1>5. ReconciledIn(w, positions, Post(posted, e))
  BY <1>3, PostReconciles, LedgerAssumption
<1>6. SolventIn(w, positions) /\ NilIsZeroIn(w, positions)
  BY <1>2 DEF LedgerInv, Solvent, SolventIn, NilIsZeroIn
<1>7. Known("opening") /\ Unresolved(positions) = {} /\ migration = "ready"
  BY ReadyIsOpened DEF AdjustmentAccepted, Ready, LedgerInv, ReadyIsResolved
<1>8. c \in Payloads /\ k \in BatchIDs
  BY DEF Payloads, BatchIDs
<1>9. Commit(k, c, migration, w, positions, {e}, Post(posted, e))
  BY DEF CommitAdjustment
<1>10. /\ migration \in Migrations /\ positions \in [Symbols -> Positions]
       /\ backfill' \in [Backfillers -> Int]
       /\ \A b \in Backfillers : backfill'[b] \in {Idle, backfill[b]}
  BY StateFacts
<1> HIDE DEF e, w
<1>11. {e} \in SUBSET Events /\ \A x \in {e} : Shape(x) /\ Carries(x)
  BY <1>3
<1>12. w.cash = Post(posted, e).cash
       /\ \A s \in Symbols : Projected(positions[s]) = Post(posted, e).pos[s]
  BY <1>5 DEF ReconciledIn
<1> QED
  BY <1>2, <1>4, <1>5, <1>6, <1>7, <1>8, <1>9, <1>10, <1>11, <1>12, CommitPreserves

\* ApplyAssetCorrection preserves the invariant.
LEMMA CorrectionPreserves ==
    ASSUME LedgerInv, NEW k \in Keys, NEW c \in CorrectionCommands,
           ~Known(k), CorrectionAccepted(c), CommitCorrection(k, c), UNCHANGED backfill
    PROVE  LedgerInv'
<1> DEFINE s == c.symbol
           e == CorrectionEvent(k, c)
           ps == [positions EXCEPT ![s] = CorrectedPosition(c)]
           m == IF Unresolved(ps) = {} THEN "ready" ELSE migration
<1>1. s \in Symbols /\ c.qty \in Int /\ c.qty > 0 /\ c.basis \in Int /\ c.basis >= 0
  <2>1. s \in Symbols /\ c.qty \in Nat /\ c.basis \in Bases
    BY DEF CorrectionCommands
  <2>2. c.qty > 0 /\ c.basis >= 0
    BY DEF CorrectionAccepted
  <2>3. c.basis \in Int
    BY <2>1, LedgerAssumption
  <2> QED BY <2>1, <2>2, <2>3
<1>2. CorrectedPosition(c) \in Positions
  BY <1>1 DEF CorrectedPosition, Positions
<1>3. /\ positions[s].status = "open" /\ ~positions[s].exact
      /\ Projected(positions[s]) = NoTotals
  BY <1>1 DEF CorrectionAccepted, LedgerInv, NilIsZeroIn
<1>4. ps \in [Symbols -> Positions] /\ ps[s] = CorrectedPosition(c)
      /\ \A t \in Symbols : t # s => ps[t] = positions[t]
  BY <1>1, <1>2 DEF LedgerInv, TypeOK
<1>5. /\ e \in Events /\ Shape(e) /\ Carries(e) /\ e.symbol = s /\ e.cash = 0
      /\ e.asset = c.qty /\ e.basis = c.basis /\ e.realized = 0 /\ e.fee = 0
  BY <1>1 DEF Events, CorrectionEvent, EventTypes, EventIDs, BatchIDs, NoEvent, Shape, Carries
<1>6. Post(posted, e) \in Postings
  BY <1>5, PostType DEF LedgerInv, TypeOK
<1>7. ReconciledIn(wallet, ps, Post(posted, e))
  <2>1. wallet.cash = wallet.cash + e.cash
    BY <1>5, StateFacts
  <2>2. /\ ps[s].amount = positions[s].amount + e.asset
        /\ ps[s].basis = positions[s].basis + e.basis
        /\ ps[s].realized = positions[s].realized + e.realized
        /\ ps[s].fees = positions[s].fees + e.fee
    BY <1>1, <1>3, <1>4, <1>5 DEF Projected, NoTotals, CorrectedPosition
  <2> QED BY <1>4, <1>5, <2>1, <2>2, PostReconciles
<1>8. SolventIn(wallet, ps) /\ NilIsZeroIn(wallet, ps)
  BY <1>1, <1>4 DEF LedgerInv, Solvent, SolventIn, NilIsZeroIn, CorrectedPosition, Projected
<1>9. Known("opening") /\ c \in Payloads /\ k \in BatchIDs
  BY ReadyIsOpened DEF CorrectionAccepted, Payloads, BatchIDs
<1>10. m \in Migrations /\ (m = "ready" => Unresolved(ps) = {})
  <2>1. CASE Unresolved(ps) = {}
    BY <2>1 DEF Migrations
  <2>2. CASE Unresolved(ps) # {}
    <3>1. migration # "ready"
      BY <1>1, <1>3 DEF LedgerInv, ReadyIsResolved, Unresolved
    <3> QED BY <2>2, <3>1 DEF LedgerInv, TypeOK
  <2> QED BY <2>1, <2>2
<1>11. Commit(k, c, m, wallet, ps, {e}, Post(posted, e))
  BY DEF CommitCorrection
<1>12. /\ wallet \in Wallets
       /\ backfill' \in [Backfillers -> Int]
       /\ \A b \in Backfillers : backfill'[b] \in {Idle, backfill[b]}
  BY StateFacts
<1> HIDE DEF s, e, ps, m
<1>13. {e} \in SUBSET Events /\ \A x \in {e} : Shape(x) /\ Carries(x)
  BY <1>5
<1>14. wallet.cash = Post(posted, e).cash
       /\ \A t \in Symbols : Projected(ps[t]) = Post(posted, e).pos[t]
  BY <1>7 DEF ReconciledIn
<1> QED
  BY <1>4, <1>6, <1>7, <1>8, <1>9, <1>10, <1>11, <1>12, <1>13, <1>14, CommitPreserves

\* The row that ReverseCashEvent leaves: typed, not negative, and lower by
\* exactly the deltas of the reversed event.
LEMMA ReversedRow ==
    ASSUME NEW p \in Positions, NEW o \in Events, p.status = "open"
    PROVE  LET r == ReversedPosition(p, o)
           IN  /\ r \in Positions /\ r.exact = p.exact
               /\ r.amount = p.amount - o.asset /\ r.basis = p.basis - o.basis
               /\ r.realized = p.realized /\ r.fees = p.fees
               /\ r.status = IF p.amount = o.asset THEN "closed" ELSE "open"
<1>1. o.asset \in Int /\ o.basis \in Int
  BY DEF Events
<1> DEFINE st == IF p.amount = o.asset THEN "closed" ELSE "open"
<1>2. p.amount \in Int /\ p.basis \in Int /\ p.realized \in Int /\ p.fees \in Int
      /\ p.exact \in BOOLEAN /\ st \in {"absent", "open", "closed"}
  BY DEF Positions
<1>3. ReversedPosition(p, o) =
         [status |-> st, exact |-> p.exact, amount |-> p.amount - o.asset,
          basis |-> p.basis - o.basis, realized |-> p.realized, fees |-> p.fees]
  BY DEF ReversedPosition, Positions
<1> HIDE DEF st
<1>4. ReversedPosition(p, o) \in Positions
  BY <1>1, <1>2, <1>3 DEF Positions
<1> QED BY <1>3, <1>4 DEF st

\* ReverseCashEvent preserves the invariant.
LEMMA ReversalPreserves ==
    ASSUME LedgerInv, NEW k \in Keys, NEW o \in events,
           Reversible(o), ~Known(k), ReversalAccepted(o),
           CommitReversal(k, [op |-> "reverse", event |-> o.id], o), UNCHANGED backfill
    PROVE  LedgerInv'
<1> DEFINE c == [op |-> "reverse", event |-> o.id]
           s == o.symbol
           e == ReversalEvent(k, o)
           w == [exact |-> TRUE, cash |-> wallet.cash - o.cash]
           ps == IF o.asset # 0 THEN [positions EXCEPT ![s] = ReversedPosition(@, o)]
                                ELSE positions
<1>1. o \in Events /\ Shape(o) /\ ~o.fill
      /\ (o.asset # 0 => o.type = "administrative_correction")
  BY DEF LedgerInv, TypeOK, Reversible
<1>2. /\ o.id \in EventIDs /\ s \in Symbols \cup {NoSymbol}
      /\ o.cash \in Int /\ o.asset \in Int /\ o.basis \in Int /\ o.realized \in Int /\ o.fee \in Int
  BY <1>1 DEF Events
<1>3. /\ e \in Events /\ Shape(e) /\ Carries(e) /\ e.symbol = s
      /\ e.cash = -o.cash /\ e.asset = -o.asset /\ e.basis = -o.basis
      /\ e.realized = -o.realized /\ e.fee = -o.fee
  <2>1. /\ e.symbol = s /\ e.cash = -o.cash /\ e.asset = -o.asset /\ e.basis = -o.basis
        /\ e.realized = -o.realized /\ e.fee = -o.fee /\ e.type = "reversal"
        /\ e.fill = FALSE
    BY DEF ReversalEvent
  <2>2. e \in Events
    BY <1>2 DEF ReversalEvent, Events, EventTypes, EventIDs, BatchIDs
  <2>3. Shape(e)
    BY <1>1, <1>2, <2>1 DEF Shape
  <2>4. Carries(e)
    BY <1>1, <1>2, <2>1 DEF Shape, Carries
  <2> QED BY <2>1, <2>2, <2>3, <2>4
<1>4. w \in Wallets /\ w.cash = wallet.cash + e.cash /\ w.cash >= 0 /\ w.exact
  BY <1>2, <1>3, StateFacts DEF Wallets, ReversalAccepted
<1>5. /\ ps \in [Symbols -> Positions]
      /\ \A t \in Symbols : t # s => ps[t] = positions[t]
      /\ s \in Symbols =>
            /\ ps[s].amount = positions[s].amount + e.asset
            /\ ps[s].basis = positions[s].basis + e.basis
            /\ ps[s].realized = positions[s].realized + e.realized
            /\ ps[s].fees = positions[s].fees + e.fee
      /\ SolventIn(w, ps) /\ NilIsZeroIn(w, ps)
      /\ Unresolved(ps) = {}
  <2>0. /\ positions \in [Symbols -> Positions]
        /\ SolventIn(wallet, positions) /\ NilIsZeroIn(wallet, positions)
        /\ Unresolved(positions) = {}
    BY DEF LedgerInv, TypeOK, Solvent, ReadyIsResolved, ReversalAccepted, Ready
  <2>1. CASE o.asset = 0
    <3>1. ps = positions
      BY <2>1
    <3>2. s \notin Symbols
      BY <1>1, <2>1, LedgerAssumption DEF Shape
    <3> HIDE DEF ps, w, s
    <3> QED BY <1>4, <2>0, <3>1, <3>2 DEF SolventIn, NilIsZeroIn
  <2>2. CASE o.asset # 0
    <3>1. /\ s \in Symbols /\ o.asset > 0 /\ o.realized = 0 /\ o.fee = 0
      BY <1>1, <2>2 DEF Shape
    <3>2. /\ positions[s].exact /\ positions[s].amount - o.asset >= 0
          /\ positions[s].basis - o.basis >= 0
      BY <2>2 DEF ReversalAccepted
    <3> DEFINE p == positions[s]
               r == ReversedPosition(p, o)
    <3>3. p \in Positions /\ p.amount \in Int /\ p.basis \in Int
          /\ p.realized \in Int /\ p.fees \in Int /\ p.fees >= 0
      BY <2>0, <3>1 DEF Positions, SolventIn
    <3>4. p.status = "open"
      BY <1>2, <2>0, <3>1, <3>2, <3>3 DEF SolventIn
    <3>5. /\ r \in Positions /\ r.exact = p.exact
          /\ r.amount = p.amount - o.asset /\ r.basis = p.basis - o.basis
          /\ r.realized = p.realized /\ r.fees = p.fees
          /\ r.status = IF p.amount = o.asset THEN "closed" ELSE "open"
      BY <1>1, <3>3, <3>4, ReversedRow
    <3>6. /\ ps \in [Symbols -> Positions] /\ ps[s] = r
          /\ \A t \in Symbols : t # s => ps[t] = positions[t]
      BY <2>0, <2>2, <3>1, <3>5
    <3> HIDE DEF r, p, ps, w, s, e
    <3>7. /\ ps[s].amount = p.amount + e.asset
          /\ ps[s].basis = p.basis + e.basis
          /\ ps[s].realized = p.realized + e.realized
          /\ ps[s].fees = p.fees + e.fee
      BY <1>2, <1>3, <3>1, <3>3, <3>5, <3>6
    <3>8. SolventIn(w, ps)
      <4>1. r.exact /\ r.amount >= 0 /\ r.basis >= 0 /\ r.fees >= 0
            /\ (r.status = "open" <=> r.amount > 0)
        BY <1>2, <3>2, <3>3, <3>5 DEF p
      <4> QED BY <1>4, <2>0, <3>1, <3>6, <4>1 DEF SolventIn
    <3>9. NilIsZeroIn(w, ps)
      BY <1>4, <2>0, <3>2, <3>5, <3>6 DEF NilIsZeroIn, p
    <3>10. Unresolved(ps) = {}
      BY <2>0, <3>2, <3>5, <3>6 DEF Unresolved, p
    <3> QED BY <3>6, <3>7, <3>8, <3>9, <3>10 DEF p
  <2> QED BY <1>2, <2>1, <2>2
<1>6. Post(posted, e) \in Postings
  BY <1>3, PostType, StateFacts
<1>7. Known("opening") /\ migration = "ready"
  BY ReadyIsOpened DEF ReversalAccepted, Ready
<1>8. c \in Payloads /\ k \in BatchIDs
  BY <1>2 DEF Payloads, ReversalCommands, BatchIDs
<1>9. Commit(k, c, migration, w, ps, {e}, Post(posted, e))
  BY DEF CommitReversal
<1>10. /\ migration \in Migrations
       /\ backfill' \in [Backfillers -> Int]
       /\ \A b \in Backfillers : backfill'[b] \in {Idle, backfill[b]}
  BY StateFacts
<1> HIDE DEF c, s, e, w, ps
<1>11. ReconciledIn(w, ps, Post(posted, e))
  BY <1>3, <1>4, <1>5, PostReconciles
<1>12. {e} \in SUBSET Events /\ \A x \in {e} : Shape(x) /\ Carries(x)
  BY <1>3
<1>13. w.cash = Post(posted, e).cash
       /\ \A t \in Symbols : Projected(ps[t]) = Post(posted, e).pos[t]
  BY <1>11 DEF ReconciledIn
<1> QED
  BY <1>4, <1>5, <1>6, <1>7, <1>8, <1>9, <1>10, <1>11, <1>12, <1>13, CommitPreserves

\* The amounts that ApplyFill computes are integers.
LEMMA FillTypes ==
    ASSUME NEW c \in FillCommands, ValidFill(c)
    PROVE  /\ c.symbol \in Symbols /\ c.side \in {"buy", "sell"}
           /\ c.qty \in Nat /\ c.qty > 0 /\ c.price \in Nat /\ c.fee \in Nat
           /\ Gross(c) \in Nat
<1>1. c.symbol \in Symbols /\ c.side \in {"buy", "sell"}
  BY DEF FillCommands
<1>2. c.qty \in Int /\ c.price \in Int /\ c.fee \in Int
  BY LedgerAssumption DEF FillCommands
<1>3. c.qty \in Nat /\ c.qty > 0 /\ c.price \in Nat /\ c.fee \in Nat
  BY <1>2 DEF ValidFill
<1> QED BY <1>1, <1>3, MulNat DEF Gross

\* The row a is saved with is well formed and moves p by what the fill posts.
MovesBy(p, c, a) ==
    /\ a.row \in Positions /\ a.row.exact
    /\ a.row.status = "open" <=> a.row.amount > 0
    /\ a.row.status # "absent"
    /\ a.row.amount >= 0 /\ a.row.basis >= 0 /\ a.row.fees >= 0
    /\ a.row # p
    /\ a.basisDelta \in Int /\ a.realized \in Int
    /\ ~(p.status = "closed" /\ p.basis # 0) =>
          /\ a.row.amount = p.amount + (IF c.side = "buy" THEN c.qty ELSE -c.qty)
          /\ a.row.basis = p.basis + a.basisDelta
          /\ a.row.realized = p.realized + a.realized - c.fee
          /\ a.row.fees = p.fees + c.fee

\* service.go applyPosition: the row it saves is typed, solvent and exact, is
\* never the row it started from, and moves by what the fill and fee events
\* post, unless it starts from a closed row that kept cost basis.
LEMMA PositionAfterFill ==
    ASSUME NEW p \in Positions, NEW c \in FillCommands, ValidFill(c),
           p.amount >= 0, p.basis >= 0, p.fees >= 0,
           p.exact => (p.status = "open" <=> p.amount > 0),
           ~p.exact => Projected(p) = NoTotals,
           p.status = "absent" => ~p.exact,
           IF c.side = "buy" THEN CanBuy(p) ELSE CanSell(p, c.qty)
    PROVE  MovesBy(p, c, applyPosition(p, c, Gross(c)))
<1> DEFINE a == applyPosition(p, c, Gross(c))
           g == Gross(c)
<1>1. /\ c.side \in {"buy", "sell"} /\ c.qty \in Nat /\ c.qty > 0
      /\ c.fee \in Nat /\ g \in Nat
  BY FillTypes
<1>2. /\ p.amount \in Nat /\ p.basis \in Nat /\ p.fees \in Nat /\ p.realized \in Int
      /\ p.exact \in BOOLEAN /\ p.status \in {"absent", "open", "closed"}
  BY DEF Positions
<1> HIDE DEF g
<1>3. CASE c.side = "buy"
  <2> DEFINE old == CarriedOver(p)
             row == [status |-> "open", exact |-> TRUE,
                     amount |-> old.amount + c.qty, basis |-> old.basis + g,
                     realized |-> old.realized - c.fee, fees |-> old.fees + c.fee]
  <2>1. a.row = row /\ a.basisDelta = g /\ a.realized = 0
    BY <1>3 DEF applyPosition, Bought, g
  <2>2. /\ old.amount \in Nat /\ old.basis \in Nat /\ old.fees = p.fees
        /\ old.realized = p.realized
        /\ p.status = "open" => old.amount = p.amount /\ old.basis = p.basis
    BY <1>2 DEF CarriedOver
  <2>3. row \in Positions /\ row.amount > 0 /\ row.basis >= 0 /\ row.fees >= 0
    BY <1>1, <1>2, <2>2 DEF Positions
  <2>4. row # p
    <3>1. CASE p.status = "open"
      BY <1>1, <1>2, <2>2, <3>1
    <3>2. CASE p.status # "open"
      BY <3>2
    <3> QED BY <3>1, <3>2
  <2>5. ~(p.status = "closed" /\ p.basis # 0) =>
           old.amount = p.amount /\ old.basis = p.basis
    <3>1. CASE p.status = "open"
      BY <3>1, <2>2
    <3>2. CASE p.status = "absent"
      <4>1. p.amount = 0 /\ p.basis = 0
        BY <3>2 DEF Projected, NoTotals
      <4> QED BY <4>1, <3>2 DEF CarriedOver
    <3>3. CASE p.status = "closed"
      <4>1. p.exact
        BY <1>3, <3>3 DEF CanBuy
      <4>2. p.amount = 0
        BY <1>2, <3>3, <4>1
      <4> QED BY <3>3, <4>2 DEF CarriedOver
    <3> QED BY <1>2, <3>1, <3>2, <3>3
  <2>6. a.row \in Positions /\ a.row # p /\ a.row.exact /\ a.row.status = "open"
        /\ a.row.amount > 0 /\ a.row.basis >= 0 /\ a.row.fees >= 0
    BY <2>1, <2>3, <2>4
  <2>7. /\ a.row.amount = old.amount + c.qty /\ a.row.basis = old.basis + g
        /\ a.row.realized = p.realized - c.fee /\ a.row.fees = p.fees + c.fee
    BY <2>1, <2>2
  <2> HIDE DEF a, old, row
  <2>8. a.basisDelta = g /\ a.realized = 0
    BY <2>1
  <2>9. a.row.realized = p.realized + a.realized - c.fee
    BY <1>1, <1>2, <2>7, <2>8
  <2>10. ~(p.status = "closed" /\ p.basis # 0) =>
            /\ a.row.amount = p.amount + c.qty
            /\ a.row.basis = p.basis + a.basisDelta
    BY <2>5, <2>7, <2>8
  <2>11. a.row.amount >= 0 /\ a.row.status # "absent" /\ a.basisDelta \in Int /\ a.realized \in Int
    <3>1. a.row.amount \in Int /\ a.row.amount > 0
      BY <2>6 DEF Positions
    <3> QED BY <1>1, <2>6, <2>8, <3>1
  <2>12. c.qty = IF c.side = "buy" THEN c.qty ELSE -c.qty
    BY <1>3
  <2>13. MovesBy(p, c, a)
    BY <2>6, <2>7, <2>9, <2>10, <2>11, <2>12, Zenon DEF MovesBy
  <2> QED BY <2>13 DEF a
<1>4. CASE c.side = "sell"
  <2>1. p.status = "open" /\ p.exact /\ c.qty <= p.amount
    BY <1>4 DEF CanSell
  <2> DEFINE released == MulDiv(p.basis, c.qty, p.amount)
             row == [status |-> IF p.amount = c.qty THEN "closed" ELSE "open",
                     exact |-> TRUE,
                     amount |-> p.amount - c.qty, basis |-> p.basis - released,
                     realized |-> p.realized + (g - released - c.fee),
                     fees |-> p.fees + c.fee]
  <2>2. a.row = row /\ a.basisDelta = -released /\ a.realized = g - released
    BY <1>4 DEF applyPosition, Sold, g
  <2>3. released \in 0 .. p.basis
    <3>1. p.amount \in Nat \ {0} /\ c.qty \in 0 .. p.amount
      BY <1>1, <1>2, <2>1
    <3> QED BY <1>2, <3>1, ShareOfBasis
  <2> HIDE DEF released
  <2>4. row \in Positions /\ row # p /\ row.exact /\ row.amount >= 0 /\ row.basis >= 0
        /\ row.fees >= 0 /\ (row.status = "open" <=> row.amount > 0)
        /\ row.status # "absent"
    BY <1>1, <1>2, <2>1, <2>3 DEF Positions
  <2>5. /\ row.amount = p.amount + (-c.qty) /\ row.basis = p.basis + (-released)
        /\ row.realized = p.realized + (g - released) - c.fee
        /\ row.fees = p.fees + c.fee
    BY <1>1, <1>2, <2>1, <2>3
  <2> HIDE DEF a, row
  <2>6. MovesBy(p, c, a)
    BY <1>1, <1>2, <1>4, <2>2, <2>3, <2>4, <2>5 DEF MovesBy
  <2> QED BY <2>6 DEF a
<1> QED BY <1>1, <1>3, <1>4

\* The fill event followed by the fee event: the sums they leave.
LEMMA FillPosting ==
    ASSUME NEW t \in Postings, NEW f \in Events, NEW g \in Events,
           f.symbol \in Symbols, g.symbol = f.symbol
    PROVE  LET total == Post(Post(t, f), g)
           IN  /\ total \in Postings
               /\ total.cash = (t.cash + f.cash) + g.cash
               /\ \A s \in Symbols : s # f.symbol => total.pos[s] = t.pos[s]
               /\ total.pos[f.symbol] =
                     [amount |-> (t.pos[f.symbol].amount + f.asset) + g.asset,
                      basis |-> (t.pos[f.symbol].basis + f.basis) + g.basis,
                      realized |-> (t.pos[f.symbol].realized + f.realized) + g.realized,
                      fees |-> (t.pos[f.symbol].fees + f.fee) + g.fee]
<1> DEFINE mid == Post(t, f)
<1>1. mid \in Postings
  BY PostType
<1>2. /\ mid.cash = t.cash + f.cash
      /\ \A s \in Symbols : s # f.symbol => mid.pos[s] = t.pos[s]
      /\ mid.pos[f.symbol] =
            [amount |-> t.pos[f.symbol].amount + f.asset,
             basis |-> t.pos[f.symbol].basis + f.basis,
             realized |-> t.pos[f.symbol].realized + f.realized,
             fees |-> t.pos[f.symbol].fees + f.fee]
  BY PostFields
<1> HIDE DEF mid
<1>3. /\ Post(mid, g) \in Postings
      /\ Post(mid, g).cash = mid.cash + g.cash
      /\ \A s \in Symbols : s # f.symbol => Post(mid, g).pos[s] = mid.pos[s]
      /\ Post(mid, g).pos[f.symbol] =
            [amount |-> mid.pos[f.symbol].amount + g.asset,
             basis |-> mid.pos[f.symbol].basis + g.basis,
             realized |-> mid.pos[f.symbol].realized + g.realized,
             fees |-> mid.pos[f.symbol].fees + g.fee]
  BY <1>1, PostType, PostFields
<1>4. Post(mid, g).pos[f.symbol] =
         [amount |-> (t.pos[f.symbol].amount + f.asset) + g.asset,
          basis |-> (t.pos[f.symbol].basis + f.basis) + g.basis,
          realized |-> (t.pos[f.symbol].realized + f.realized) + g.realized,
          fees |-> (t.pos[f.symbol].fees + f.fee) + g.fee]
  BY <1>2, <1>3
<1>5. Post(mid, g).cash = (t.cash + f.cash) + g.cash
      /\ \A s \in Symbols : s # f.symbol => Post(mid, g).pos[s] = t.pos[s]
  BY <1>2, <1>3
<1> QED BY <1>3, <1>4, <1>5 DEF mid

\* ApplyFill preserves the invariant.
LEMMA FillPreserves ==
    ASSUME LedgerInv, NEW k \in Keys, NEW c \in FillCommands,
           ~Known(k), FillAccepted(c), CommitFill(k, c), UNCHANGED backfill
    PROVE  LedgerInv'
<1> DEFINE s == c.symbol
           p == positions[s]
           a == applyPosition(p, c, Gross(c))
           fill == FillEvent(k, c, Gross(c), a.basisDelta, a.realized)
           fee == FeeEvent(k, c)
           evs == {fill} \cup (IF c.fee > 0 THEN {fee} ELSE {})
           w == [exact |-> TRUE, cash |-> CashAfterFill(c)]
           ps == [positions EXCEPT ![s] = a.row]
           total == Post(Post(posted, fill), fee)
<1>1. ValidFill(c) /\ Ready /\ CashAfterFill(c) >= 0
      /\ (IF c.side = "buy" THEN CanBuy(p) ELSE CanSell(p, c.qty))
  BY DEF FillAccepted
<1>2. /\ s \in Symbols /\ c.side \in {"buy", "sell"} /\ c.qty \in Nat /\ c.qty > 0
      /\ c.fee \in Nat /\ Gross(c) \in Nat
  BY <1>1, FillTypes
<1>3. /\ positions \in [Symbols -> Positions] /\ SolventIn(wallet, positions)
      /\ NilIsZeroIn(wallet, positions) /\ Unresolved(positions) = {}
      /\ migration = "ready"
  BY <1>1 DEF LedgerInv, TypeOK, Solvent, ReadyIsResolved, Ready
<1>4. MovesBy(p, c, a)
  <2>1. p \in Positions
    BY <1>2, <1>3
  <2>2. /\ p.amount >= 0 /\ p.basis >= 0 /\ p.fees >= 0
        /\ p.exact => (p.status = "open" <=> p.amount > 0)
    BY <1>2, <1>3 DEF SolventIn
  <2>3. /\ ~p.exact => Projected(p) = NoTotals
        /\ p.status = "absent" => ~p.exact
    BY <1>2, <1>3 DEF NilIsZeroIn
  <2> HIDE DEF p
  <2>4. MovesBy(p, c, applyPosition(p, c, Gross(c)))
    BY <1>1, <2>1, <2>2, <2>3, PositionAfterFill
  <2> QED BY <2>4
<1>5. /\ a.row \in Positions /\ a.row.exact /\ a.row # p
      /\ (a.row.status = "open") <=> (a.row.amount > 0)
      /\ a.row.status # "absent"
      /\ a.row.amount >= 0 /\ a.row.basis >= 0 /\ a.row.fees >= 0
      /\ a.basisDelta \in Int /\ a.realized \in Int
  BY <1>4, Zenon DEF MovesBy
<1> HIDE DEF a
<1>6. /\ fill \in Events /\ fill.symbol = s /\ fill.fill = TRUE
      /\ fill.cash = (IF c.side = "buy" THEN -Gross(c) ELSE Gross(c))
      /\ fill.asset = (IF c.side = "buy" THEN c.qty ELSE -c.qty)
      /\ fill.basis = a.basisDelta /\ fill.realized = a.realized /\ fill.fee = 0
  <2>1. /\ fill.symbol = s /\ fill.fill = TRUE
        /\ fill.cash = (IF c.side = "buy" THEN -Gross(c) ELSE Gross(c))
        /\ fill.asset = (IF c.side = "buy" THEN c.qty ELSE -c.qty)
        /\ fill.basis = a.basisDelta /\ fill.realized = a.realized /\ fill.fee = 0
    BY DEF FillEvent
  <2>2. fill \in Events
    BY <1>2, <1>5 DEF FillEvent, Events, EventTypes, EventIDs, BatchIDs, NoEvent
  <2> QED BY <2>1, <2>2
<1>7. /\ fee \in Events /\ fee.symbol = s /\ fee.fill = TRUE
      /\ fee.cash = -c.fee /\ fee.asset = 0 /\ fee.basis = 0
      /\ fee.realized = -c.fee /\ fee.fee = c.fee
  BY <1>2 DEF FeeEvent, Events, EventTypes, EventIDs, BatchIDs, NoEvent
<1>8. w \in Wallets /\ w.cash >= 0 /\ w.exact
      /\ w.cash = (wallet.cash + fill.cash) + fee.cash
  <2>1. wallet.cash \in Int
    BY StateFacts
  <2>2. CashAfterFill(c) \in Int
        /\ CashAfterFill(c) = (wallet.cash + fill.cash) + fee.cash
    <3> HIDE DEF fill, fee
    <3> QED BY <1>2, <1>6, <1>7, <2>1 DEF CashAfterFill
  <2> QED BY <1>1, <2>2 DEF Wallets
<1>9. /\ ps \in [Symbols -> Positions] /\ ps[s] = a.row
      /\ \A t \in Symbols : t # s => ps[t] = positions[t]
  BY <1>2, <1>3, <1>5
<1> HIDE DEF fill, fee, w, ps
<1>10. /\ evs \in SUBSET Events
       /\ \A x \in evs : Shape(x) /\ Carries(x)
  BY <1>6, <1>7 DEF Shape, Carries
<1>11. /\ total \in Postings
       /\ total.cash = (posted.cash + fill.cash) + fee.cash
       /\ \A t \in Symbols : t # s => total.pos[t] = posted.pos[t]
       /\ total.pos[s] =
             [amount |-> (posted.pos[s].amount + fill.asset) + fee.asset,
              basis |-> (posted.pos[s].basis + fill.basis) + fee.basis,
              realized |-> (posted.pos[s].realized + fill.realized) + fee.realized,
              fees |-> (posted.pos[s].fees + fill.fee) + fee.fee]
  <2>1. posted \in Postings /\ fill.symbol \in Symbols /\ fee.symbol = fill.symbol
    BY <1>2, <1>6, <1>7, StateFacts
  <2> HIDE DEF s
  <2> QED BY <1>6, <1>7, <2>1, FillPosting
<1> HIDE DEF evs, total
<1>12. w.cash = total.cash
  BY <1>8, <1>11, StateFacts
<1>13. \A t \in Symbols : t # s => Projected(ps[t]) = total.pos[t]
  BY <1>9, <1>11, StateFacts
<1>14. Residue = {} => Projected(ps[s]) = total.pos[s]
  <2> SUFFICES ASSUME Residue = {} PROVE Projected(ps[s]) = total.pos[s]
    OBVIOUS
  <2>1. ~(p.status = "closed" /\ p.basis # 0)
    BY <1>2 DEF Residue
  <2>2. /\ a.row.amount = p.amount + (IF c.side = "buy" THEN c.qty ELSE -c.qty)
        /\ a.row.basis = p.basis + a.basisDelta
        /\ a.row.realized = p.realized + a.realized - c.fee
        /\ a.row.fees = p.fees + c.fee
    BY <1>4, <2>1, Zenon DEF MovesBy
  <2>3. /\ posted.pos[s].amount = p.amount /\ posted.pos[s].basis = p.basis
        /\ posted.pos[s].realized = p.realized /\ posted.pos[s].fees = p.fees
    <3>1. posted.pos[s] = Projected(p)
      BY <1>2, StateFacts
    <3> QED BY <3>1 DEF Projected
  <2>4. p.amount \in Int /\ p.basis \in Int /\ p.realized \in Int /\ p.fees \in Int
    BY <1>2, <1>3 DEF Positions
  <2>5. /\ a.row.amount = (posted.pos[s].amount + fill.asset) + fee.asset
        /\ a.row.basis = (posted.pos[s].basis + fill.basis) + fee.basis
        /\ a.row.realized = (posted.pos[s].realized + fill.realized) + fee.realized
        /\ a.row.fees = (posted.pos[s].fees + fill.fee) + fee.fee
    <3> HIDE DEF p, s
    <3> QED BY <1>2, <1>5, <1>6, <1>7, <2>2, <2>3, <2>4
  <2> QED BY <1>9, <1>11, <2>5 DEF Projected
<1>15. ReconciledIn(w, ps, total) \/ Residue # {}
  BY <1>12, <1>13, <1>14 DEF ReconciledIn
<1>16. \A t \in Symbols : ps[t] = positions[t] \/ Exempt(t, ps) => Projected(ps[t]) = total.pos[t]
  <2>1. ps[s] # positions[s]
    BY <1>5, <1>9
  <2>2. ~Exempt(s, ps)
    BY <1>1, <1>2 DEF Exempt, CanBuy, CanSell
  <2> QED BY <1>13, <2>1, <2>2
<1>17. SolventIn(w, ps) /\ NilIsZeroIn(w, ps) /\ Unresolved(ps) = {}
  <2>1. SolventIn(w, ps)
    BY <1>2, <1>3, <1>5, <1>8, <1>9 DEF SolventIn
  <2>2. NilIsZeroIn(w, ps)
    BY <1>2, <1>3, <1>5, <1>8, <1>9 DEF NilIsZeroIn
  <2>3. Unresolved(ps) = {}
    BY <1>2, <1>3, <1>5, <1>9 DEF Unresolved
  <2> QED BY <2>1, <2>2, <2>3
<1>18. Known("opening") /\ c \in Payloads /\ k \in BatchIDs
  BY <1>3, ReadyIsOpened DEF Payloads, BatchIDs
<1>19. Commit(k, c, migration, w, ps, evs, total)
  BY DEF CommitFill, w, ps, evs, total, fill, fee, a
<1>20. /\ migration \in Migrations
       /\ backfill' \in [Backfillers -> Int]
       /\ \A b \in Backfillers : backfill'[b] \in {Idle, backfill[b]}
  BY StateFacts
<1> QED
  BY <1>8, <1>9, <1>10, <1>11, <1>12, <1>15, <1>16, <1>17, <1>18, <1>19, <1>20,
     CommitPreserves

\* The opening backfill: whatever was counted before the transaction is still
\* the number of open rows when it runs.
LEMMA BackfillPreserves ==
    ASSUME LedgerInv, NEW b \in Backfillers, backfill[b] # Idle,
           BackfillAccepted, CommitBackfill(b),
           backfill' = [backfill EXCEPT ![b] = Idle]
    PROVE  LedgerInv'
<1> DEFINE e == CashEvent("opening", 1, "capital_deposit", OpeningCash, NoEvent)
           m == IF backfill[b] > 0 THEN "pending_resolution" ELSE "ready"
           w == [exact |-> TRUE, cash |-> OpeningCash]
           ps == BackfilledPositions
           total == Post(posted, e)
           open == {s \in Symbols : positions[s].status = "open"}
<1>1. /\ ~Known("opening") /\ posted = NothingPosted
      /\ positions = [s \in Symbols |-> LegacyRow(s)]
      /\ backfill[b] = Cardinality(open)
  BY DEF BackfillAccepted, LedgerInv, OpeningFirst
<1>2. OpeningCash \in Int /\ OpeningCash >= 0
  <2>1. OpeningCash \in Nat
    BY LedgerAssumption
  <2> QED BY <2>1
<1>3. /\ e \in Events /\ e.symbol = NoSymbol /\ e.cash = OpeningCash
      /\ (Carries(e) => Shape(e)) /\ (OpeningCash # 0 => Carries(e))
  BY <1>2 DEF CashEvent, Events, EventTypes, EventIDs, BatchIDs, NoEvent, Carries, Shape
<1>4. posted \in Postings /\ positions \in [Symbols -> Positions]
      /\ backfill \in [Backfillers -> Int]
      /\ migration \in Migrations
  BY StateFacts
<1>5. total \in Postings
  BY <1>3, <1>4, PostType
<1>6. w \in Wallets /\ w.cash = total.cash /\ w.cash >= 0 /\ w.exact
  <2>1. total.cash = posted.cash + e.cash
    BY <1>3, <1>4, PostFields
  <2>2. posted.cash = 0
    BY <1>1 DEF NothingPosted
  <2> HIDE DEF total, e
  <2> QED BY <1>2, <1>3, <2>1, <2>2 DEF Wallets
<1>7. \A s \in Symbols :
         /\ ps[s] \in Positions
         /\ Projected(ps[s]) = NoTotals
         /\ ps[s].status = positions[s].status
         /\ ps[s].exact <=> (ps[s].status = "closed")
  <2> SUFFICES ASSUME NEW s \in Symbols
               PROVE  /\ ps[s] \in Positions
                      /\ Projected(ps[s]) = NoTotals
                      /\ ps[s].status = positions[s].status
                      /\ ps[s].exact <=> (ps[s].status = "closed")
    OBVIOUS
  <2>1. positions[s] = LegacyRow(s)
    BY <1>1
  <2>2. positions[s].exact = FALSE /\ Projected(positions[s]) = NoTotals
    BY <2>1 DEF LegacyRow, Projected, NoTotals
  <2>3. CASE positions[s].status = "closed"
    BY <2>3 DEF BackfilledPositions, Positions, Projected, NoTotals
  <2>4. CASE positions[s].status # "closed"
    <3>1. ps[s] = positions[s]
      BY <2>4 DEF BackfilledPositions
    <3> QED BY <1>4, <2>2, <2>4, <3>1
  <2> QED BY <2>3, <2>4
<1>8. ps \in [Symbols -> Positions]
  <2>1. ps = [s \in Symbols |-> ps[s]]
    BY DEF BackfilledPositions
  <2> HIDE DEF ps
  <2> QED BY <1>7, <2>1
<1>9. \A s \in Symbols : Projected(ps[s]) = total.pos[s]
  <2>1. \A s \in Symbols : total.pos[s] = posted.pos[s]
    BY <1>3, <1>4, PostFields, LedgerAssumption
  <2>2. \A s \in Symbols : posted.pos[s] = NoTotals
    BY <1>1 DEF NothingPosted
  <2> QED BY <1>7, <2>1, <2>2
<1> HIDE DEF e, total
<1>10. SolventIn(w, ps) /\ NilIsZeroIn(w, ps)
  <2>1. \A s \in Symbols :
           /\ ps[s].amount = 0 /\ ps[s].basis = 0 /\ ps[s].fees = 0
    BY <1>7 DEF Projected, NoTotals
  <2> HIDE DEF ps, w
  <2>2. SolventIn(w, ps)
    BY <1>6, <1>7, <2>1 DEF SolventIn
  <2>3. NilIsZeroIn(w, ps)
    BY <1>6, <1>7 DEF NilIsZeroIn
  <2> QED BY <2>2, <2>3
<1>11. m \in Migrations /\ (m = "ready" => Unresolved(ps) = {})
  <2>1. m \in Migrations
    BY DEF Migrations
  <2>2. IsFiniteSet(open)
    BY LedgerAssumption, FS_Subset, open \subseteq Symbols
  <2>3. Cardinality(open) \in Nat /\ (Cardinality(open) = 0 <=> open = {})
    BY <2>2, FS_CardinalityType, FS_EmptySet
  <2>4. m = "ready" => open = {}
    BY <1>1, <2>3
  <2>5. open = {} => Unresolved(ps) = {}
    BY <1>7 DEF Unresolved
  <2> QED BY <2>1, <2>4, <2>5
<1>12. Commit("opening", OpeningPayload, m, w, ps, {e}, total)
  BY DEF CommitBackfill, e, total
<1>13. /\ "opening" \in BatchIDs /\ OpeningPayload \in Payloads
       /\ backfill' \in [Backfillers -> Int]
       /\ \A x \in Backfillers : backfill'[x] \in {Idle, backfill[x]}
  BY <1>4 DEF BatchIDs, Payloads, Idle
<1> HIDE DEF w, ps, m
<1>14. {e} \in SUBSET Events
       /\ (\A x \in {e} : Carries(x) => Shape(x))
       /\ (OpeningCash # 0 => \A x \in {e} : Carries(x))
  BY <1>3
<1>15. ReconciledIn(w, ps, total)
  BY <1>6, <1>9 DEF ReconciledIn
<1> QED
  BY <1>1, <1>5, <1>6, <1>8, <1>9, <1>10, <1>11, <1>12, <1>13, <1>14, <1>15,
     CommitPreserves

\* The report of a backfill, read outside its transaction, preserves the
\* invariant.
LEMMA ReportPreserves ==
    ASSUME LedgerInv, NEW b \in Backfillers, BackfillReport(b)
    PROVE  LedgerInv'
<1> DEFINE n == Cardinality({s \in Symbols : positions[s].status = "open"})
<1>1. UNCHANGED <<ledger, outcome>> /\ backfill' = [backfill EXCEPT ![b] = n]
  BY DEF BackfillReport
<1>2. n \in Nat
  <2>1. IsFiniteSet({s \in Symbols : positions[s].status = "open"})
    BY LedgerAssumption, FS_Subset, {s \in Symbols : positions[s].status = "open"} \subseteq Symbols
  <2> QED BY <2>1, FS_CardinalityType
<1> HIDE DEF n
<1>3. TypeOK'
  BY <1>1, <1>2 DEF LedgerInv, TypeOK, ledger
<1>4. Reconciled' /\ Solvent' /\ NilIsZeroIn(wallet, positions)'
  BY <1>1 DEF LedgerInv, ledger, Reconciled, ReconciledIn, Solvent, SolventIn, NilIsZeroIn, Projected
<1>5. (\A e \in events : Shape(e))'
  BY <1>1 DEF LedgerInv, ledger, Shape
<1>6. OpeningFirst'
  BY <1>1 DEF LedgerInv, TypeOK, ledger, OpeningFirst, Known, n
<1>7. ReadyIsResolved' /\ CouplingOnlyFromResidue'
  BY <1>1 DEF LedgerInv, ledger, ReadyIsResolved, Unresolved, CouplingOnlyFromResidue, Residue
<1> QED BY <1>3, <1>4, <1>5, <1>6, <1>7 DEF LedgerInv

-----------------------------------------------------------------------------
(* The initial states.                                                     *)

\* Both forms of seedLedgerBoundary establish the invariant.
LEMMA SeedsSatisfyInv == Init => LedgerInv
<1> SUFFICES ASSUME Init PROVE LedgerInv
  OBVIOUS
<1>1. OpeningCash \in Int /\ OpeningCash >= 0
  <2>1. OpeningCash \in Nat
    BY LedgerAssumption
  <2> QED BY <2>1
<1>2. /\ backfill = [b \in Backfillers |-> Idle] /\ outcome = "none"
      /\ backfill \in [Backfillers -> Int] /\ outcome \in Outcomes
      /\ CouplingOnlyFromResidue
  BY DEF Init, Idle, Outcomes, CouplingOnlyFromResidue
<1>3. NothingPosted \in Postings /\ \A s \in Symbols : NothingPosted.pos[s] = NoTotals
  BY DEF NothingPosted, Postings, Totals, NoTotals
<1>4. CASE SeedFreshInstall
  <2>1. /\ migration = "ready" /\ wallet = [exact |-> TRUE, cash |-> OpeningCash]
        /\ positions = [s \in Symbols |-> AbsentRow] /\ events = {OpeningEvent}
        /\ batches = [k \in BatchIDs |-> IF k = "opening" THEN OpeningPayload ELSE NoBatch]
        /\ posted = Post(NothingPosted, OpeningEvent) /\ OpeningCash > 0
    BY <1>4 DEF SeedFreshInstall
  <2>2. /\ OpeningEvent \in Events /\ Shape(OpeningEvent)
        /\ OpeningEvent.symbol = NoSymbol /\ OpeningEvent.cash = OpeningCash
    BY <1>1, <2>1 DEF OpeningEvent, CashEvent, Events, EventTypes, EventIDs, BatchIDs, NoEvent, Shape
  <2>3. posted \in Postings /\ posted.cash = OpeningCash
    <3>1. NothingPosted.cash = 0
      BY DEF NothingPosted
    <3>2. posted \in Postings /\ posted.cash = NothingPosted.cash + OpeningEvent.cash
      BY <1>3, <2>1, <2>2, PostType, PostFields
    <3> QED BY <1>1, <2>2, <3>1, <3>2
  <2>4. \A s \in Symbols : posted.pos[s] = NoTotals
    BY <1>3, <2>1, <2>2, PostFields, LedgerAssumption
  <2>5. \A s \in Symbols : positions[s] = AbsentRow
    BY <2>1
  <2>6. AbsentRow \in Positions /\ Projected(AbsentRow) = NoTotals
        /\ AbsentRow.exact = FALSE /\ AbsentRow.status = "absent"
        /\ AbsentRow.amount = 0 /\ AbsentRow.basis = 0 /\ AbsentRow.fees = 0
    BY DEF AbsentRow, Positions, Projected, NoTotals
  <2>7. TypeOK
    <3>1. positions \in [Symbols -> Positions]
      BY <2>1, <2>6
    <3>2. batches \in [BatchIDs -> Payloads \cup {NoBatch}]
      BY <2>1 DEF Payloads
    <3>3. wallet \in Wallets /\ migration \in Migrations /\ events \subseteq Events
      BY <1>1, <2>1, <2>2 DEF Wallets, Migrations
    <3> QED BY <1>2, <2>3, <3>1, <3>2, <3>3 DEF TypeOK
  <2>8. Reconciled
    BY <2>1, <2>3, <2>4, <2>5, <2>6 DEF Reconciled, ReconciledIn
  <2>9. Solvent /\ NilIsZeroIn(wallet, positions)
    BY <1>1, <2>1, <2>5, <2>6 DEF Solvent, SolventIn, NilIsZeroIn
  <2>10. OpeningFirst
    BY <2>1 DEF OpeningFirst, Known, BatchIDs, OpeningPayload, NoBatch
  <2>11. ReadyIsResolved
    BY <2>5, <2>6 DEF ReadyIsResolved, Unresolved
  <2> QED BY <1>2, <2>1, <2>2, <2>7, <2>8, <2>9, <2>10, <2>11 DEF LedgerInv
<1>5. CASE SeedUpgrade
  <2>1. /\ migration = "pending_approval" /\ wallet = [exact |-> FALSE, cash |-> 0]
        /\ positions = [s \in Symbols |-> LegacyRow(s)] /\ events = {}
        /\ batches = [k \in BatchIDs |-> NoBatch] /\ posted = NothingPosted
    BY <1>5 DEF SeedUpgrade
  <2>2. \A s \in Symbols :
           /\ positions[s] \in Positions /\ Projected(positions[s]) = NoTotals
           /\ positions[s].exact = FALSE
           /\ positions[s].amount = 0 /\ positions[s].basis = 0 /\ positions[s].fees = 0
    BY <2>1 DEF LegacyRow, Positions, Projected, NoTotals
  <2>3. TypeOK
    <3>1. positions \in [Symbols -> Positions]
      BY <2>1, <2>2
    <3>2. /\ batches \in [BatchIDs -> Payloads \cup {NoBatch}]
          /\ wallet \in Wallets /\ migration \in Migrations /\ events \subseteq Events
      BY <2>1 DEF Wallets, Migrations
    <3> QED BY <1>2, <1>3, <2>1, <3>1, <3>2 DEF TypeOK
  <2>4. Reconciled
    BY <1>3, <2>1, <2>2 DEF Reconciled, ReconciledIn, NothingPosted
  <2>5. Solvent /\ NilIsZeroIn(wallet, positions)
    <3>1. \A s \in Symbols : positions[s].status = "absent" => ~positions[s].exact
      BY <2>2
    <3> QED BY <2>1, <2>2, <3>1 DEF Solvent, SolventIn, NilIsZeroIn
  <2>6. OpeningFirst
    BY <1>2, <2>1 DEF OpeningFirst
  <2>7. ReadyIsResolved
    BY <2>1 DEF ReadyIsResolved
  <2> QED BY <1>2, <2>1, <2>3, <2>4, <2>5, <2>6, <2>7 DEF LedgerInv
<1> QED BY <1>4, <1>5 DEF Init

-----------------------------------------------------------------------------
(* The inductive step, one case per command of Next.                       *)

\* Every command preserves the invariant.
LEMMA NextPreservesInv == LedgerInv /\ [Next]_vars => LedgerInv'
<1> SUFFICES ASSUME LedgerInv, [Next]_vars PROVE LedgerInv'
  OBVIOUS
<1>0. /\ backfill \in [Backfillers -> Int]
      /\ UNCHANGED backfill =>
           /\ backfill' \in [Backfillers -> Int]
           /\ \A b \in Backfillers : backfill'[b] \in {Idle, backfill[b]}
  BY StateFacts
<1>1. ASSUME NEW k \in Keys, NEW c \in FillCommands, ApplyFill(k, c) PROVE LedgerInv'
  <2>1. CASE Replay(k, c)
    BY <1>1, <2>1, ReplayPreserves DEF ApplyFill
  <2>2. CASE Reply("rejected")
    BY <1>0, <1>1, <2>2, RejectPreserves DEF ApplyFill
  <2>3. CASE ~Known(k) /\ FillAccepted(c) /\ CommitFill(k, c)
    BY <1>1, <2>3, FillPreserves DEF ApplyFill
  <2> QED BY <1>1, <2>1, <2>2, <2>3 DEF ApplyFill
<1>2. ASSUME NEW k \in Keys, NEW c \in AdjustmentCommands, ApplyAdjustment(k, c) PROVE LedgerInv'
  <2>1. CASE Replay(k, c)
    BY <1>2, <2>1, ReplayPreserves DEF ApplyAdjustment
  <2>2. CASE Reply("rejected")
    BY <1>0, <1>2, <2>2, RejectPreserves DEF ApplyAdjustment
  <2>3. CASE ~Known(k) /\ AdjustmentAccepted(c) /\ CommitAdjustment(k, c)
    BY <1>2, <2>3, AdjustmentPreserves DEF ApplyAdjustment
  <2> QED BY <1>2, <2>1, <2>2, <2>3 DEF ApplyAdjustment
<1>3. ASSUME NEW k \in Keys, NEW o \in events, ReverseCashEvent(k, o) PROVE LedgerInv'
  <2> DEFINE c == [op |-> "reverse", event |-> o.id]
  <2>1. CASE Replay(k, c)
    BY <1>3, <2>1, ReplayPreserves DEF ReverseCashEvent
  <2>2. CASE Reply("rejected")
    BY <1>0, <1>3, <2>2, RejectPreserves DEF ReverseCashEvent
  <2>3. CASE Reversible(o) /\ ~Known(k) /\ ReversalAccepted(o) /\ CommitReversal(k, c, o)
    BY <1>3, <2>3, ReversalPreserves DEF ReverseCashEvent
  <2> QED BY <1>3, <2>1, <2>2, <2>3 DEF ReverseCashEvent
<1>4. ASSUME NEW k \in Keys, NEW c \in CorrectionCommands, ApplyAssetCorrection(k, c) PROVE LedgerInv'
  <2>1. CASE Replay(k, c)
    BY <1>4, <2>1, ReplayPreserves DEF ApplyAssetCorrection
  <2>2. CASE Reply("rejected")
    BY <1>0, <1>4, <2>2, RejectPreserves DEF ApplyAssetCorrection
  <2>3. CASE ~Known(k) /\ CorrectionAccepted(c) /\ CommitCorrection(k, c)
    BY <1>4, <2>3, CorrectionPreserves DEF ApplyAssetCorrection
  <2> QED BY <1>4, <2>1, <2>2, <2>3 DEF ApplyAssetCorrection
<1>5. ASSUME NEW b \in Backfillers, BackfillApply(b) PROVE LedgerInv'
  <2>1. CASE Reply("rejected")
    BY <1>0, <1>5, <2>1, RejectPreserves DEF BackfillApply, Idle
  <2>2. CASE BackfillAccepted /\ CommitBackfill(b)
    BY <1>5, <2>2, BackfillPreserves DEF BackfillApply
  <2> QED BY <1>5, <2>1, <2>2 DEF BackfillApply
<1>6. CASE UNCHANGED vars
  <2>1. UNCHANGED ledger /\ UNCHANGED backfill /\ UNCHANGED outcome
    BY <1>6 DEF vars, ledger
  <2>2. outcome \in Outcomes /\ CouplingOnlyFromResidue
    BY DEF LedgerInv, TypeOK
  <2> QED BY <1>0, <2>1, <2>2, ReplyPreserves DEF CouplingOnlyFromResidue
<1>7. ASSUME NEW s \in Symbols, NEW q \in {LegacyOpen[t] : t \in Symbols}, NEW basis \in Bases
      PROVE  [op |-> "correct", symbol |-> s, qty |-> q, basis |-> basis] \in CorrectionCommands
  BY LedgerAssumption DEF CorrectionCommands
<1>8. CASE Next
  BY <1>8, <1>1, <1>2, <1>3, <1>4, <1>5, <1>7, ReportPreserves DEF Next
<1> QED BY <1>6, <1>8

-----------------------------------------------------------------------------
(* The theorems.                                                           *)

\* Every state the ledger service can reach satisfies the strengthened
\* invariant, for any symbols, keys, amounts and number of backfills.
THEOREM LedgerInvariant == Spec => []LedgerInv
<1>1. Init => LedgerInv
  BY SeedsSatisfyInv
<1>2. LedgerInv /\ [Next]_vars => LedgerInv'
  BY NextPreservesInv
<1> QED BY <1>1, <1>2, PTL DEF Spec

\* Variables keep their types under every command.
THEOREM TypeCorrect == Spec => []TypeOK
<1>1. LedgerInv => TypeOK
  BY DEF LedgerInv
<1> QED BY <1>1, LedgerInvariant, PTL

\* ApplyFill, the adjustments, corrections and the backfill keep the wallet and
\* every position equal to what the event table posts for them.
THEOREM AlwaysReconciled == Spec => []Reconciled
<1>1. LedgerInv => Reconciled
  BY DEF LedgerInv
<1> QED BY <1>1, LedgerInvariant, PTL

\* No sequence of commands overdraws the wallet or a position, or releases more
\* cost basis than a position holds, whatever applyPosition rounds.
THEOREM AlwaysSolvent == Spec => []Solvent
<1>1. LedgerInv => Solvent
  BY DEF LedgerInv
<1> QED BY <1>1, LedgerInvariant, PTL

\* The deferred triggers of migrations.go refuse no transaction of the service
\* except an empty opening and one on an account with a closed row that kept
\* cost basis.
THEOREM TriggersAgree == Spec => []CouplingOnlyFromResidue
<1>1. LedgerInv => CouplingOnlyFromResidue
  BY DEF LedgerInv
<1> QED BY <1>1, LedgerInvariant, PTL

\* backfill.go: the open-position count is read before the transaction that
\* applies it, and still a ready account has no unresolved position.
THEOREM ReadyMeansResolved == Spec => []ReadyIsResolved
<1>1. LedgerInv => ReadyIsResolved
  BY DEF LedgerInv
<1> QED BY <1>1, LedgerInvariant, PTL

-----------------------------------------------------------------------------
(* Immutability.                                                           *)

\* A committed transaction only adds to the batches and the events.
LEMMA CommitAppends ==
    ASSUME TypeOK, NEW k \in BatchIDs, NEW c, NEW m, NEW w, NEW ps, NEW evs, NEW total,
           ~Known(k), Commit(k, c, m, w, ps, evs, total)
    PROVE  /\ events \subseteq events'
           /\ \A i \in BatchIDs : Known(i) => batches'[i] = batches[i]
BY DEF Commit, Reply, ledger, TypeOK, Known

\* Batches and events are never changed or removed: beginBatch answers a known
\* key from its batch, a reversal is a new event, and nothing else writes them.
THEOREM LedgerIsAppendOnly == Spec => AppendOnly
<1> DEFINE Appends == /\ events \subseteq events'
                      /\ \A k \in BatchIDs : Known(k) => batches'[k] = batches[k]
<1>1. TypeOK /\ [Next]_vars => [Appends]_vars
  <2> SUFFICES ASSUME TypeOK, Next PROVE Appends
    OBVIOUS
  <2>1. ASSUME UNCHANGED ledger PROVE Appends
    BY <2>1 DEF ledger
  <2>2. \A k \in Keys : k \in BatchIDs
    BY DEF BatchIDs
  <2>3. ASSUME NEW k \in Keys, NEW c \in FillCommands, ApplyFill(k, c) PROVE Appends
    <3>1. CASE UNCHANGED ledger
      BY <2>1, <3>1
    <3>2. CASE ~Known(k) /\ CommitFill(k, c)
      BY <2>2, <3>2, CommitAppends DEF CommitFill
    <3> QED BY <2>3, <3>1, <3>2 DEF ApplyFill, Replay, Reply
  <2>4. ASSUME NEW k \in Keys, NEW c \in AdjustmentCommands, ApplyAdjustment(k, c) PROVE Appends
    <3>1. CASE UNCHANGED ledger
      BY <2>1, <3>1
    <3>2. CASE ~Known(k) /\ CommitAdjustment(k, c)
      BY <2>2, <3>2, CommitAppends DEF CommitAdjustment
    <3> QED BY <2>4, <3>1, <3>2 DEF ApplyAdjustment, Replay, Reply
  <2>5. ASSUME NEW k \in Keys, NEW o \in events, ReverseCashEvent(k, o) PROVE Appends
    <3> DEFINE c == [op |-> "reverse", event |-> o.id]
    <3>1. CASE UNCHANGED ledger
      BY <2>1, <3>1
    <3>2. CASE ~Known(k) /\ CommitReversal(k, c, o)
      BY <2>2, <3>2, CommitAppends DEF CommitReversal
    <3> QED BY <2>5, <3>1, <3>2 DEF ReverseCashEvent, Replay, Reply
  <2>6. ASSUME NEW k \in Keys, NEW c, ApplyAssetCorrection(k, c) PROVE Appends
    <3>1. CASE UNCHANGED ledger
      BY <2>1, <3>1
    <3>2. CASE ~Known(k) /\ CommitCorrection(k, c)
      BY <2>2, <3>2, CommitAppends DEF CommitCorrection
    <3> QED BY <2>6, <3>1, <3>2 DEF ApplyAssetCorrection, Replay, Reply
  <2>7. ASSUME NEW b \in Backfillers, BackfillReport(b) PROVE Appends
    BY <2>1, <2>7 DEF BackfillReport, ledger
  <2>8. ASSUME NEW b \in Backfillers, BackfillApply(b) PROVE Appends
    <3>1. CASE UNCHANGED ledger
      BY <2>1, <3>1
    <3>2. CASE BackfillAccepted /\ CommitBackfill(b)
      <4>1. ~Known("opening") /\ "opening" \in BatchIDs
        BY <3>2 DEF BackfillAccepted, BatchIDs
      <4> QED BY <3>2, <4>1, CommitAppends DEF CommitBackfill
    <3> QED BY <2>8, <3>1, <3>2 DEF BackfillApply, Reply
  <2> HIDE DEF Appends
  <2> QED BY <2>3, <2>4, <2>5, <2>6, <2>7, <2>8 DEF Next
<1> QED BY <1>1, TypeCorrect, PTL DEF Spec, AppendOnly

-----------------------------------------------------------------------------
(* The columns of the event table.                                         *)

CashColumn == [e \in Events |-> e.cash]
AssetColumn == [e \in Events |-> e.asset]
BasisColumn == [e \in Events |-> e.basis]
RealizedColumn == [e \in Events |-> e.realized]
FeeColumn == [e \in Events |-> e.fee]

\* The sums of a set of events are sums of the columns of the table.
LEMMA SumsOfColumns ==
    ASSUME NEW E \in SUBSET Events, IsFiniteSet(E)
    PROVE  /\ CashOf(E) = SumFunctionOnSet(CashColumn, E)
           /\ BasisOf(E) = SumFunctionOnSet(BasisColumn, E)
           /\ TotalsOf(E) = [amount |-> SumFunctionOnSet(AssetColumn, E),
                             basis |-> SumFunctionOnSet(BasisColumn, E),
                             realized |-> SumFunctionOnSet(RealizedColumn, E),
                             fees |-> SumFunctionOnSet(FeeColumn, E)]
<1>1. CashOf(E) = SumFunctionOnSet(CashColumn, E)
  <2>1. \A e \in E : [x \in E |-> x.cash][e] = CashColumn[e]
    BY DEF CashColumn
  <2> QED BY <2>1, SumSame DEF CashOf
<1>2. BasisOf(E) = SumFunctionOnSet(BasisColumn, E)
  <2>1. \A e \in E : [x \in E |-> x.basis][e] = BasisColumn[e]
    BY DEF BasisColumn
  <2> QED BY <2>1, SumSame DEF BasisOf
<1>3. SumFunctionOnSet([e \in E |-> e.asset], E) = SumFunctionOnSet(AssetColumn, E)
  <2>1. \A e \in E : [x \in E |-> x.asset][e] = AssetColumn[e]
    BY DEF AssetColumn
  <2> QED BY <2>1, SumSame
<1>4. SumFunctionOnSet([e \in E |-> e.realized], E) = SumFunctionOnSet(RealizedColumn, E)
  <2>1. \A e \in E : [x \in E |-> x.realized][e] = RealizedColumn[e]
    BY DEF RealizedColumn
  <2> QED BY <2>1, SumSame
<1>5. SumFunctionOnSet([e \in E |-> e.fee], E) = SumFunctionOnSet(FeeColumn, E)
  <2>1. \A e \in E : [x \in E |-> x.fee][e] = FeeColumn[e]
    BY DEF FeeColumn
  <2> QED BY <2>1, SumSame
<1> QED BY <1>1, <1>2, <1>3, <1>4, <1>5, Zenon DEF TotalsOf

\* An event that is not in a set adds its amounts to the sums of the set.
LEMMA ColumnsAdd ==
    ASSUME NEW E \in SUBSET Events, IsFiniteSet(E), NEW e \in Events, e \notin E
    PROVE  /\ IsFiniteSet(E \cup {e})
           /\ CashOf(E) \in Int /\ CashOf(E \cup {e}) = CashOf(E) + e.cash
           /\ BasisOf(E) \in Int /\ BasisOf(E \cup {e}) = BasisOf(E) + e.basis
           /\ TotalsOf(E \cup {e}) =
                 [amount |-> TotalsOf(E).amount + e.asset, basis |-> TotalsOf(E).basis + e.basis,
                  realized |-> TotalsOf(E).realized + e.realized, fees |-> TotalsOf(E).fees + e.fee]
<1> DEFINE D == E \cup {e}
<1>0. D \in SUBSET Events /\ IsFiniteSet(D)
  BY FS_AddElement
<1>1. \A x \in D : /\ CashColumn[x] = x.cash /\ CashColumn[x] \in Int
                   /\ AssetColumn[x] = x.asset /\ AssetColumn[x] \in Int
                   /\ BasisColumn[x] = x.basis /\ BasisColumn[x] \in Int
                   /\ RealizedColumn[x] = x.realized /\ RealizedColumn[x] \in Int
                   /\ FeeColumn[x] = x.fee /\ FeeColumn[x] \in Int
  <2> SUFFICES ASSUME NEW x \in Events
               PROVE  /\ CashColumn[x] = x.cash /\ CashColumn[x] \in Int
                      /\ AssetColumn[x] = x.asset /\ AssetColumn[x] \in Int
                      /\ BasisColumn[x] = x.basis /\ BasisColumn[x] \in Int
                      /\ RealizedColumn[x] = x.realized /\ RealizedColumn[x] \in Int
                      /\ FeeColumn[x] = x.fee /\ FeeColumn[x] \in Int
    OBVIOUS
  <2>1. x.cash \in Int /\ x.asset \in Int /\ x.basis \in Int /\ x.realized \in Int /\ x.fee \in Int
    BY DEF Events
  <2> QED BY <2>1 DEF CashColumn, AssetColumn, BasisColumn, RealizedColumn, FeeColumn
<1>2. /\ SumFunctionOnSet(CashColumn, D) = SumFunctionOnSet(CashColumn, E) + e.cash
      /\ SumFunctionOnSet(CashColumn, E) \in Int
  BY <1>1, SumAdd, SumType
<1>3. /\ SumFunctionOnSet(BasisColumn, D) = SumFunctionOnSet(BasisColumn, E) + e.basis
      /\ SumFunctionOnSet(BasisColumn, E) \in Int
  BY <1>1, SumAdd, SumType
<1>4. SumFunctionOnSet(AssetColumn, D) = SumFunctionOnSet(AssetColumn, E) + e.asset
  BY <1>1, SumAdd
<1>5. SumFunctionOnSet(RealizedColumn, D) = SumFunctionOnSet(RealizedColumn, E) + e.realized
  BY <1>1, SumAdd
<1>6. SumFunctionOnSet(FeeColumn, D) = SumFunctionOnSet(FeeColumn, E) + e.fee
  BY <1>1, SumAdd
<1>7. /\ CashOf(D) = SumFunctionOnSet(CashColumn, D) /\ CashOf(E) = SumFunctionOnSet(CashColumn, E)
      /\ BasisOf(D) = SumFunctionOnSet(BasisColumn, D) /\ BasisOf(E) = SumFunctionOnSet(BasisColumn, E)
      /\ TotalsOf(D) = [amount |-> SumFunctionOnSet(AssetColumn, D),
                        basis |-> SumFunctionOnSet(BasisColumn, D),
                        realized |-> SumFunctionOnSet(RealizedColumn, D),
                        fees |-> SumFunctionOnSet(FeeColumn, D)]
      /\ TotalsOf(E) = [amount |-> SumFunctionOnSet(AssetColumn, E),
                        basis |-> SumFunctionOnSet(BasisColumn, E),
                        realized |-> SumFunctionOnSet(RealizedColumn, E),
                        fees |-> SumFunctionOnSet(FeeColumn, E)]
  <2> HIDE DEF D
  <2> QED BY <1>0, SumsOfColumns
<1> HIDE DEF D
<1>8. /\ TotalsOf(E).amount = SumFunctionOnSet(AssetColumn, E)
      /\ TotalsOf(E).basis = SumFunctionOnSet(BasisColumn, E)
      /\ TotalsOf(E).realized = SumFunctionOnSet(RealizedColumn, E)
      /\ TotalsOf(E).fees = SumFunctionOnSet(FeeColumn, E)
  BY <1>7
<1> QED BY <1>0, <1>2, <1>3, <1>4, <1>5, <1>6, <1>7, <1>8 DEF D

\* Books without events.
LEMMA NoBooks == BooksOf(NothingPosted, {})
<1>1. CashOf({}) = 0 /\ BasisOf({}) = 0 /\ TotalsOf({}) = NoTotals
  <2>1. IsFiniteSet({}) /\ {} \in SUBSET Events
    BY FS_EmptySet
  <2> QED BY <2>1, SumsOfColumns, SumEmpty DEF NoTotals
<1>2. \A s \in Symbols : {e \in {} : e.symbol = s} = {}
  OBVIOUS
<1>3. {e \in {} : ~e.fill} = {}
  OBVIOUS
<1>4. SumFunctionOnSet([s \in Symbols |-> NothingPosted.pos[s].basis], Symbols)
      = SumFunctionOnSet([s \in Symbols |-> NothingPosted.pos[s].realized], Symbols)
  <2>1. \A s \in Symbols : [t \in Symbols |-> NothingPosted.pos[t].basis][s]
                           = [t \in Symbols |-> NothingPosted.pos[t].realized][s]
    BY DEF NothingPosted, NoTotals
  <2> QED BY <2>1, SumSame, LedgerAssumption
<1>5. SumFunctionOnSet([s \in Symbols |-> NothingPosted.pos[s].realized], Symbols) \in Int
  <2>1. \A s \in Symbols : [t \in Symbols |-> NothingPosted.pos[t].realized][s] \in Int
    BY DEF NothingPosted, NoTotals
  <2> QED BY <2>1, SumType, LedgerAssumption
<1>6. NothingPosted.cash = 0 /\ \A s \in Symbols : NothingPosted.pos[s] = NoTotals
  BY DEF NothingPosted
<1>7. EquityOf(NothingPosted, {})
  BY <1>1, <1>3, <1>4, <1>5, <1>6 DEF EquityOf
<1> QED BY <1>1, <1>2, <1>6, <1>7 DEF BooksOf

\* An event that a fill balances and that nothing else realizes.
Balances(e) ==
    /\ IF e.fill THEN e.cash + e.basis = e.realized ELSE e.realized = 0
    /\ e.symbol = NoSymbol => ~e.fill /\ e.basis = 0

\* Posting one more event keeps the books.
LEMMA PostBooks ==
    ASSUME NEW t \in Postings, NEW E \in SUBSET Events, IsFiniteSet(E),
           NEW e \in Events, e \notin E, Balances(e), BooksOf(t, E)
    PROVE  BooksOf(Post(t, e), E \cup {e})
<1> DEFINE u == Post(t, e)
           D == E \cup {e}
<1>1. /\ u.cash = t.cash + e.cash
      /\ \A s \in Symbols : s # e.symbol => u.pos[s] = t.pos[s]
      /\ e.symbol \in Symbols =>
            u.pos[e.symbol] = [amount |-> t.pos[e.symbol].amount + e.asset,
                               basis |-> t.pos[e.symbol].basis + e.basis,
                               realized |-> t.pos[e.symbol].realized + e.realized,
                               fees |-> t.pos[e.symbol].fees + e.fee]
  BY PostFields
<1>2. u \in Postings
  BY PostType
<1> HIDE DEF u
<1>3. u.cash = CashOf(D)
  BY <1>1, ColumnsAdd DEF BooksOf
<1>4. ASSUME NEW s \in Symbols PROVE u.pos[s] = TotalsOf({x \in D : x.symbol = s})
  <2> DEFINE Es == {x \in E : x.symbol = s}
             Ds == {x \in D : x.symbol = s}
  <2>1. Es \in SUBSET Events /\ IsFiniteSet(Es) /\ e \notin Es /\ t.pos[s] = TotalsOf(Es)
    BY FS_Subset DEF BooksOf
  <2>2. CASE e.symbol = s
    <3>1. Ds = Es \cup {e}
      BY <2>2
    <3> HIDE DEF Es, Ds
    <3> QED BY <1>1, <2>1, <2>2, <3>1, ColumnsAdd DEF Ds
  <2>3. CASE e.symbol # s
    <3>1. Ds = Es
      BY <2>3
    <3> HIDE DEF Es, Ds
    <3> QED BY <1>1, <2>1, <2>3, <3>1 DEF Ds
  <2> QED BY <2>2, <2>3
<1>5. EquityOf(u, D)
  <2> DEFINE Ee == {x \in E : ~x.fill}
             De == {x \in D : ~x.fill}
             tb == [s \in Symbols |-> t.pos[s].basis]
             tr == [s \in Symbols |-> t.pos[s].realized]
             ub == [s \in Symbols |-> u.pos[s].basis]
             ur == [s \in Symbols |-> u.pos[s].realized]
  <2>0. e.cash \in Int /\ e.basis \in Int /\ e.realized \in Int /\ e.symbol \in Symbols \cup {NoSymbol}
        /\ e.fill \in BOOLEAN /\ t.cash \in Int
    BY DEF Events, Postings
  <2>1. \A s \in Symbols : tb[s] \in Int /\ tr[s] \in Int
    BY DEF Postings, Totals
  <2>2. SumFunctionOnSet(tb, Symbols) \in Int /\ SumFunctionOnSet(tr, Symbols) \in Int
    <3> HIDE DEF tb, tr
    <3> QED BY <2>1, SumType, LedgerAssumption
  <2>3. /\ SumFunctionOnSet(ub, Symbols) = SumFunctionOnSet(tb, Symbols) + e.basis
        /\ SumFunctionOnSet(ur, Symbols) = SumFunctionOnSet(tr, Symbols) + e.realized
    <3>1. CASE e.symbol \in Symbols
      <4>1. /\ ub[e.symbol] = tb[e.symbol] + e.basis
            /\ ur[e.symbol] = tr[e.symbol] + e.realized
        BY <1>1, <3>1
      <4>2. \A s \in Symbols : s # e.symbol => ub[s] = tb[s] /\ ur[s] = tr[s]
        BY <1>1
      <4> HIDE DEF ub, ur, tb, tr
      <4> QED BY <2>0, <2>1, <3>1, <4>1, <4>2, SumMove, LedgerAssumption
    <3>2. CASE e.symbol = NoSymbol
      <4>1. e.basis = 0 /\ e.realized = 0
        BY <3>2 DEF Balances
      <4>2. \A s \in Symbols : ub[s] = tb[s] /\ ur[s] = tr[s]
        BY <1>1, <3>2, LedgerAssumption
      <4> HIDE DEF ub, ur, tb, tr
      <4>3. SumFunctionOnSet(ub, Symbols) = SumFunctionOnSet(tb, Symbols)
            /\ SumFunctionOnSet(ur, Symbols) = SumFunctionOnSet(tr, Symbols)
        BY <4>2, SumSame, LedgerAssumption
      <4> QED BY <2>2, <4>1, <4>3
    <3> QED BY <2>0, <3>1, <3>2
  <2>4. Ee \in SUBSET Events /\ IsFiniteSet(Ee) /\ e \notin Ee
    BY FS_Subset
  <2>5. t.cash + SumFunctionOnSet(tb, Symbols)
        = CashOf(Ee) + BasisOf(Ee) + SumFunctionOnSet(tr, Symbols)
    BY DEF BooksOf, EquityOf
  <2>6. CashOf(Ee) \in Int /\ BasisOf(Ee) \in Int
    <3> HIDE DEF Ee
    <3> QED BY <2>4, ColumnsAdd
  <2>7. u.cash + SumFunctionOnSet(ub, Symbols)
        = CashOf(De) + BasisOf(De) + SumFunctionOnSet(ur, Symbols)
    <3>1. CASE e.fill
      <4>1. De = Ee /\ e.cash + e.basis = e.realized
        BY <3>1 DEF Balances
      <4> HIDE DEF Ee, De, ub, ur, tb, tr
      <4> QED BY <1>1, <2>0, <2>2, <2>3, <2>5, <2>6, <4>1
    <3>2. CASE ~e.fill
      <4>1. De = Ee \cup {e} /\ e.realized = 0
        BY <3>2 DEF Balances
      <4> HIDE DEF Ee, De, ub, ur, tb, tr
      <4>2. CashOf(De) = CashOf(Ee) + e.cash /\ BasisOf(De) = BasisOf(Ee) + e.basis
        BY <2>4, <4>1, ColumnsAdd
      <4> QED BY <1>1, <2>0, <2>2, <2>3, <2>5, <2>6, <4>1, <4>2
    <3> QED BY <3>1, <3>2
  <2> HIDE DEF D
  <2> QED BY <2>7 DEF EquityOf
<1> QED BY <1>3, <1>4, <1>5 DEF BooksOf, u

\* An event without amounts changes no total.
LEMMA PostZero ==
    ASSUME NEW t \in Postings, NEW e \in Events,
           e.cash = 0, e.asset = 0, e.basis = 0, e.realized = 0, e.fee = 0
    PROVE  Post(t, e) = t
<1>1. t = [cash |-> t.cash, pos |-> t.pos] /\ t.cash \in Int /\ t.pos \in [Symbols -> Totals]
  BY DEF Postings
<1>2. \A s \in Symbols : [amount |-> t.pos[s].amount + 0, basis |-> t.pos[s].basis + 0,
                          realized |-> t.pos[s].realized + 0, fees |-> t.pos[s].fees + 0] = t.pos[s]
  BY <1>1 DEF Totals
<1>3. e.symbol \in Symbols \cup {NoSymbol}
  BY DEF Events
<1>4. Post(t, e).pos = t.pos
  BY <1>1, <1>2, <1>3 DEF Post
<1>5. Post(t, e).cash = t.cash
  BY <1>1 DEF Post
<1>6. Post(t, e) = [cash |-> Post(t, e).cash, pos |-> Post(t, e).pos]
  BY DEF Post
<1> QED BY <1>1, <1>4, <1>5, <1>6

-----------------------------------------------------------------------------
(* The steps that change the tables.                                       *)

\* A step that leaves the tables and the projections alone keeps the books.
LEMMA UnchangedBooks ==
    ASSUME BookInv, UNCHANGED ledger
    PROVE  BookInv'
<1>1. /\ events' = events /\ batches' = batches /\ posted' = posted
      /\ wallet' = wallet /\ positions' = positions
  BY DEF ledger
<1>2. IsFiniteSet(events)' /\ BooksOf(posted, events)' /\ ReversedOnce(events)'
  BY <1>1 DEF BookInv
<1>3. Named(events)'
  BY <1>1 DEF BookInv, Named, Known
<1>4. (\A k \in Keys : batches[k].op = "fill" => RestatedIn(k, batches[k], events))'
  BY <1>1 DEF BookInv
<1>5. OpenedIsExact'
  BY <1>1 DEF BookInv, OpenedIsExact, Known
<1> QED BY <1>2, <1>3, <1>4, <1>5 DEF BookInv

\* What a transaction writes is enough for the books when its events are named
\* after its batch, its totals are those of the events with them, and a
\* reversal has an original that no event reverses.
LEMMA CommitBooks ==
    ASSUME LedgerInv, BookInv,
           NEW k \in BatchIDs, NEW c \in Payloads, NEW m, NEW w, NEW ps,
           NEW evs \in SUBSET Events, NEW total,
           ~Known(k), IsFiniteSet(evs),
           \A e \in evs : e.batch = k /\ e.id[1] = k,
           \A e, f \in evs : e.id = f.id => e = f,
           BooksOf(total, events \cup evs),
           \A r \in evs : r.reverses # NoEvent =>
              Reversed(r, events) /\ evs = {r} /\ \A e \in events : e.reverses # r.reverses,
           c.op = "fill" => RestatedIn(k, c, evs),
           w.exact, \A s \in Symbols : ps[s].status = "closed" => ps[s].exact,
           Commit(k, c, m, w, ps, evs, total)
    PROVE  BookInv'
<1>1. CASE ~Coupled(w, ps, total, evs)
  BY <1>1, UnchangedBooks DEF Commit, Reply
<1>2. CASE Coupled(w, ps, total, evs)
  <2>1. /\ wallet' = w /\ positions' = ps /\ posted' = total
        /\ batches' = [batches EXCEPT ![k] = c] /\ events' = events \cup evs
    BY <1>2 DEF Commit
  <2>2. /\ batches \in [BatchIDs -> Payloads \cup {NoBatch}] /\ batches'[k] = c
        /\ \A i \in BatchIDs : i # k => batches'[i] = batches[i]
        /\ events \in SUBSET Events
    BY <2>1 DEF LedgerInv, TypeOK
  <2>3. \A e \in events : e.batch # k /\ e.batch \in BatchIDs /\ Known(e.batch)
                          /\ e.id[1] = e.batch /\ e.id \in EventIDs
    BY <2>2 DEF BookInv, Named, Events
  <2>4. IsFiniteSet(events)'
    <3>1. IsFiniteSet(events \cup evs)
      BY FS_Union DEF BookInv
    <3> QED BY <2>1, <3>1
  <2>5. Named(events)'
    <3>1. \A e \in events \cup evs : batches'[e.batch] # NoBatch /\ e.id[1] = e.batch
      BY <2>2, <2>3, PayloadIsNotNone DEF Known
    <3>2. \A e, f \in events \cup evs : e.id = f.id => e = f
      BY <2>3 DEF BookInv, Named
    <3> QED BY <2>1, <3>1, <3>2 DEF Named, Known
  <2>6. BooksOf(posted, events)'
    BY <2>1
  <2>7. ReversedOnce(events)'
    <3>1. ASSUME NEW r \in events \cup evs, r.reverses # NoEvent
          PROVE  /\ Reversed(r, events \cup evs)
                 /\ \A e \in events \cup evs : e.reverses = r.reverses => e = r
      <4>1. CASE r \in events
        <5>1. Reversed(r, events) /\ \A e \in events : e.reverses = r.reverses => e = r
          BY <3>1, <4>1 DEF BookInv, ReversedOnce
        <5>2. \A e \in evs : e.reverses # r.reverses
          BY <3>1, <4>1
        <5> QED BY <5>1, <5>2 DEF Reversed
      <4>2. CASE r \in evs
        BY <3>1, <4>2 DEF Reversed
      <4> QED BY <4>1, <4>2
    <3>2. ReversedOnce(events \cup evs)
      BY <3>1 DEF ReversedOnce
    <3> QED BY <2>1, <3>2
  <2>8. (\A i \in Keys : batches[i].op = "fill" => RestatedIn(i, batches[i], events))'
    <3>1. ASSUME NEW i \in Keys, batches'[i].op = "fill"
          PROVE  RestatedIn(i, batches'[i], events \cup evs)
      <4>0. i \in BatchIDs
        BY DEF BatchIDs
      <4>1. CASE i = k
        <5>1. {f \in events \cup evs : f.batch = k} = {f \in evs : f.batch = k}
          BY <2>3
        <5>2. RestatedIn(k, c, evs)
          BY <2>2, <3>1, <4>1
        <5> QED BY <2>2, <4>1, <5>1, <5>2 DEF RestatedIn
      <4>2. CASE i # k
        <5>1. {f \in events \cup evs : f.batch = i} = {f \in events : f.batch = i}
          BY <4>2
        <5>2. batches'[i] = batches[i] /\ RestatedIn(i, batches[i], events)
          BY <2>2, <3>1, <4>0, <4>2 DEF BookInv
        <5> QED BY <5>1, <5>2 DEF RestatedIn
      <4> QED BY <4>1, <4>2
    <3> QED BY <2>1, <3>1
  <2>9. OpenedIsExact'
    BY <2>1 DEF OpenedIsExact
  <2> QED BY <2>4, <2>5, <2>6, <2>7, <2>8, <2>9 DEF BookInv
<1> QED BY <1>1, <1>2

\* The common case of a transaction that writes one event of no fill.
LEMMA CommitOneBooks ==
    ASSUME LedgerInv, BookInv,
           NEW k \in BatchIDs, NEW c \in Payloads, NEW m, NEW w, NEW ps, NEW e \in Events,
           ~Known(k), e.batch = k, e.id[1] = k, Balances(e),
           e.reverses # NoEvent =>
              Reversed(e, events) /\ \A x \in events : x.reverses # e.reverses,
           c.op # "fill",
           w.exact, \A s \in Symbols : ps[s].status = "closed" => ps[s].exact,
           Commit(k, c, m, w, ps, {e}, Post(posted, e))
    PROVE  BookInv'
<1>1. events \in SUBSET Events /\ posted \in Postings /\ IsFiniteSet(events) /\ BooksOf(posted, events)
  BY StateFacts DEF BookInv
<1>2. e \notin events
  BY DEF BookInv, Named
<1>3. BooksOf(Post(posted, e), events \cup {e})
  BY <1>1, <1>2, PostBooks
<1>4. {e} \in SUBSET Events /\ IsFiniteSet({e})
  BY FS_Singleton
<1>5. /\ \A x \in {e} : x.batch = k /\ x.id[1] = k
      /\ \A x, f \in {e} : x.id = f.id => x = f
      /\ \A r \in {e} : r.reverses # NoEvent =>
            Reversed(r, events) /\ {e} = {r} /\ \A x \in events : x.reverses # r.reverses
  OBVIOUS
<1> QED BY <1>3, <1>4, <1>5, CommitBooks

\* Rows of an account whose opening exists.
LEMMA ExactRows ==
    ASSUME LedgerInv, BookInv, migration \in {"ready", "pending_resolution"}
    PROVE  /\ wallet.exact /\ positions \in [Symbols -> Positions]
           /\ \A s \in Symbols : positions[s].status = "closed" => positions[s].exact
BY ReadyIsOpened, StateFacts DEF BookInv, OpenedIsExact

-----------------------------------------------------------------------------
(* One lemma per command.                                                  *)

\* ApplyAdjustment keeps the books.
LEMMA AdjustmentBooks ==
    ASSUME LedgerInv, BookInv, NEW k \in Keys, NEW c \in AdjustmentCommands,
           ~Known(k), AdjustmentAccepted(c), CommitAdjustment(k, c)
    PROVE  BookInv'
<1> DEFINE e == CashEvent(k, 1, c.type, Delta(c), NoEvent)
           w == [exact |-> TRUE, cash |-> wallet.cash + Delta(c)]
<1>1. Delta(c) \in Int /\ c.type \in EventTypes /\ c.op # "fill"
  <2>1. c.amount \in Int
    BY LedgerAssumption DEF AdjustmentCommands
  <2> QED BY <2>1 DEF Delta, AdjustmentCommands, AdjustmentTypes, EventTypes
<1>2. e \in Events /\ e.batch = k /\ e.id[1] = k /\ Balances(e) /\ e.reverses = NoEvent
  BY <1>1 DEF Events, CashEvent, EventIDs, BatchIDs, NoEvent, Balances
<1>3. \A s \in Symbols : positions[s].status = "closed" => positions[s].exact
  BY ExactRows DEF AdjustmentAccepted, Ready
<1>4. c \in Payloads /\ k \in BatchIDs /\ w.exact
  BY DEF Payloads, BatchIDs
<1>5. Commit(k, c, migration, w, positions, {e}, Post(posted, e))
  BY DEF CommitAdjustment
<1> HIDE DEF e, w
<1> QED BY <1>1, <1>2, <1>3, <1>4, <1>5, CommitOneBooks

\* ApplyAssetCorrection keeps the books.
LEMMA CorrectionBooks ==
    ASSUME LedgerInv, BookInv, NEW k \in Keys, NEW c \in CorrectionCommands,
           ~Known(k), CorrectionAccepted(c), CommitCorrection(k, c)
    PROVE  BookInv'
<1> DEFINE e == CorrectionEvent(k, c)
           ps == [positions EXCEPT ![c.symbol] = CorrectedPosition(c)]
           m == IF Unresolved(ps) = {} THEN "ready" ELSE migration
<1>1. c.symbol \in Symbols /\ c.qty \in Int /\ c.basis \in Int /\ c.op # "fill"
  <2>1. c.symbol \in Symbols /\ c.qty \in Nat /\ c.basis \in Bases /\ c.op = "correct"
    BY DEF CorrectionCommands
  <2>2. c.basis \in Int
    BY <2>1, LedgerAssumption
  <2> QED BY <2>1, <2>2
<1>2. e \in Events /\ e.batch = k /\ e.id[1] = k /\ Balances(e) /\ e.reverses = NoEvent
  BY <1>1, LedgerAssumption DEF Events, CorrectionEvent, EventTypes, EventIDs, BatchIDs, NoEvent, Balances
<1>3. /\ wallet.exact /\ positions \in [Symbols -> Positions]
      /\ \A s \in Symbols : positions[s].status = "closed" => positions[s].exact
  BY ExactRows DEF CorrectionAccepted
<1>4. \A s \in Symbols : ps[s].status = "closed" => ps[s].exact
  BY <1>1, <1>3 DEF CorrectedPosition
<1>5. c \in Payloads /\ k \in BatchIDs
  BY DEF Payloads, BatchIDs
<1>6. Commit(k, c, m, wallet, ps, {e}, Post(posted, e))
  BY DEF CommitCorrection
<1> HIDE DEF e, ps, m
<1> QED BY <1>1, <1>2, <1>3, <1>4, <1>5, <1>6, CommitOneBooks

\* ReverseCashEvent keeps the books: what it posts cancels its original, which
\* no event reversed before.
LEMMA ReversalBooks ==
    ASSUME LedgerInv, BookInv, NEW k \in Keys, NEW o \in events,
           Reversible(o), ~Known(k), ReversalAccepted(o),
           CommitReversal(k, [op |-> "reverse", event |-> o.id], o)
    PROVE  BookInv'
<1> DEFINE c == [op |-> "reverse", event |-> o.id]
           e == ReversalEvent(k, o)
           w == [exact |-> TRUE, cash |-> wallet.cash - o.cash]
           ps == IF o.asset # 0 THEN [positions EXCEPT ![o.symbol] = ReversedPosition(@, o)]
                                ELSE positions
<1>1. o \in Events /\ Shape(o) /\ ~o.fill
  BY DEF LedgerInv, TypeOK, Reversible
<1>2. /\ o.id \in EventIDs /\ o.symbol \in Symbols \cup {NoSymbol}
      /\ o.cash \in Int /\ o.asset \in Int /\ o.basis \in Int /\ o.realized \in Int /\ o.fee \in Int
  BY <1>1 DEF Events
<1>3. /\ e.symbol = o.symbol /\ e.cash = -o.cash /\ e.asset = -o.asset /\ e.basis = -o.basis
      /\ e.realized = -o.realized /\ e.fee = -o.fee /\ e.fill = FALSE
      /\ e.reverses = o.id /\ e.batch = k /\ e.id[1] = k
  BY DEF ReversalEvent
<1>4. e \in Events
  BY <1>2 DEF ReversalEvent, Events, EventTypes, EventIDs, BatchIDs
<1>5. Balances(e)
  BY <1>1, <1>2, <1>3, LedgerAssumption DEF Balances, Shape
<1>6. Reversed(e, events) /\ \A x \in events : x.reverses # e.reverses
  <2>1. Cancels(e, o)
    BY <1>1, <1>2, <1>3 DEF Cancels
  <2> QED BY <1>3, <2>1 DEF Reversed, ReversalAccepted
<1>7. \A s \in Symbols : ps[s].status = "closed" => ps[s].exact
  <2>1. /\ positions \in [Symbols -> Positions]
        /\ \A s \in Symbols : positions[s].status = "closed" => positions[s].exact
    BY ExactRows DEF ReversalAccepted, Ready
  <2>2. o.asset # 0 => positions[o.symbol].exact
    BY DEF ReversalAccepted
  <2>3. ReversedPosition(positions[o.symbol], o).exact = positions[o.symbol].exact
    BY DEF ReversedPosition
  <2> QED BY <1>2, <2>1, <2>2, <2>3
<1>8. c \in Payloads /\ k \in BatchIDs /\ c.op # "fill" /\ w.exact
  BY <1>2 DEF Payloads, ReversalCommands, BatchIDs
<1>9. Commit(k, c, migration, w, ps, {e}, Post(posted, e))
  BY DEF CommitReversal
<1> HIDE DEF c, e, w, ps
<1> QED BY <1>3, <1>4, <1>5, <1>6, <1>7, <1>8, <1>9, CommitOneBooks

\* The opening of a backfill keeps the books.
LEMMA BackfillBooks ==
    ASSUME LedgerInv, BookInv, NEW b \in Backfillers, BackfillAccepted, CommitBackfill(b)
    PROVE  BookInv'
<1> DEFINE e == CashEvent("opening", 1, "capital_deposit", OpeningCash, NoEvent)
           m == IF backfill[b] > 0 THEN "pending_resolution" ELSE "ready"
           w == [exact |-> TRUE, cash |-> OpeningCash]
           ps == BackfilledPositions
<1>1. OpeningCash \in Int
  BY LedgerAssumption
<1>2. e \in Events /\ e.batch = "opening" /\ e.id[1] = "opening" /\ Balances(e) /\ e.reverses = NoEvent
  BY <1>1 DEF Events, CashEvent, EventTypes, EventIDs, BatchIDs, NoEvent, Balances
<1>3. \A s \in Symbols : ps[s].status = "closed" => ps[s].exact
  BY DEF BackfilledPositions
<1>4. /\ OpeningPayload \in Payloads /\ "opening" \in BatchIDs /\ ~Known("opening")
      /\ OpeningPayload.op # "fill" /\ w.exact
  BY DEF Payloads, BatchIDs, BackfillAccepted, OpeningPayload
<1>5. Commit("opening", OpeningPayload, m, w, ps, {e}, Post(posted, e))
  BY DEF CommitBackfill
<1> HIDE DEF e, m, w, ps
<1> QED BY <1>2, <1>3, <1>4, <1>5, CommitOneBooks

\* What applyPosition releases or adds as cost basis balances the cash of the
\* fill and what it realizes.
LEMMA FillBalances ==
    ASSUME NEW p, NEW c \in FillCommands, ValidFill(c),
           applyPosition(p, c, Gross(c)).basisDelta \in Int
    PROVE  LET a == applyPosition(p, c, Gross(c))
           IN  (IF c.side = "buy" THEN -Gross(c) ELSE Gross(c)) + a.basisDelta = a.realized
<1> DEFINE g == Gross(c)
           a == applyPosition(p, c, g)
           released == MulDiv(p.basis, c.qty, p.amount)
<1>1. g \in Int /\ c.side \in {"buy", "sell"}
  BY FillTypes
<1>2. CASE c.side = "buy"
  <2>1. a.basisDelta = g /\ a.realized = 0
    BY <1>2 DEF applyPosition, Bought
  <2> HIDE DEF a, g
  <2>2. -g + a.basisDelta = a.realized
    BY <1>1, <2>1
  <2> QED BY <1>2, <2>2 DEF a, g
<1>3. CASE c.side = "sell"
  <2>1. a.basisDelta = -released /\ a.realized = g - released /\ c.side # "buy"
    BY <1>3 DEF applyPosition, Sold
  <2> HIDE DEF a, g, released
  <2>2. g + a.basisDelta = a.realized
    BY <1>1, <2>1
  <2> QED BY <2>1, <2>2 DEF a, g
<1> QED BY <1>1, <1>2, <1>3

\* ApplyFill keeps the books: the fill event and the fee event each balance,
\* and a fee of zero, which has no event, posts nothing.
LEMMA FillBooks ==
    ASSUME LedgerInv, BookInv, NEW k \in Keys, NEW c \in FillCommands,
           ~Known(k), FillAccepted(c), CommitFill(k, c)
    PROVE  BookInv'
<1> DEFINE p == positions[c.symbol]
           a == applyPosition(p, c, Gross(c))
           fill == FillEvent(k, c, Gross(c), a.basisDelta, a.realized)
           fee == FeeEvent(k, c)
           evs == {fill} \cup (IF c.fee > 0 THEN {fee} ELSE {})
           w == [exact |-> TRUE, cash |-> CashAfterFill(c)]
           ps == [positions EXCEPT ![c.symbol] = a.row]
           mid == Post(posted, fill)
           total == Post(mid, fee)
<1>1. ValidFill(c) /\ Ready /\ (IF c.side = "buy" THEN CanBuy(p) ELSE CanSell(p, c.qty))
  BY DEF FillAccepted
<1>2. /\ c.symbol \in Symbols /\ c.side \in {"buy", "sell"} /\ c.qty \in Nat
      /\ c.fee \in Nat /\ Gross(c) \in Nat
  BY <1>1, FillTypes
<1>3. MovesBy(p, c, a)
  <2>1. p \in Positions
    BY <1>2, StateFacts
  <2>2. /\ p.amount >= 0 /\ p.basis >= 0 /\ p.fees >= 0
        /\ p.exact => (p.status = "open" <=> p.amount > 0)
        /\ ~p.exact => Projected(p) = NoTotals
        /\ p.status = "absent" => ~p.exact
    BY <1>2 DEF LedgerInv, Solvent, SolventIn, NilIsZeroIn
  <2> HIDE DEF p
  <2> QED BY <1>1, <2>1, <2>2, PositionAfterFill
<1>4. a.row.exact /\ a.basisDelta \in Int /\ a.realized \in Int
  BY <1>3, Zenon DEF MovesBy
<1>5. (IF c.side = "buy" THEN -Gross(c) ELSE Gross(c)) + a.basisDelta = a.realized
  BY <1>1, <1>4, FillBalances
<1> HIDE DEF a
<1>6. /\ fill.symbol = c.symbol /\ fill.fill = TRUE /\ fill.batch = k /\ fill.id = <<k, 1>>
      /\ fill.cash = (IF c.side = "buy" THEN -Gross(c) ELSE Gross(c))
      /\ fill.basis = a.basisDelta /\ fill.realized = a.realized /\ fill.reverses = NoEvent
  BY DEF FillEvent
<1>7. fill \in Events
  BY <1>2, <1>4 DEF FillEvent, Events, EventTypes, EventIDs, BatchIDs, NoEvent
<1>8. /\ fee.symbol = c.symbol /\ fee.fill = TRUE /\ fee.batch = k /\ fee.id = <<k, 2>>
      /\ fee.cash = -c.fee /\ fee.asset = 0 /\ fee.basis = 0 /\ fee.realized = -c.fee
      /\ fee.fee = c.fee /\ fee.reverses = NoEvent
  BY DEF FeeEvent
<1>9. fee \in Events
  BY <1>2 DEF FeeEvent, Events, EventTypes, EventIDs, BatchIDs, NoEvent
<1>10. Balances(fill) /\ Balances(fee)
  <2> HIDE DEF fill, fee
  <2> QED BY <1>2, <1>5, <1>6, <1>8, LedgerAssumption DEF Balances
<1>11. fill = FillEvent(k, c, Gross(c), fill.basis, fill.realized)
  <2> HIDE DEF fill
  <2> QED BY <1>6 DEF fill
<1> HIDE DEF fill, fee
<1>12. /\ events \in SUBSET Events /\ posted \in Postings /\ IsFiniteSet(events)
       /\ BooksOf(posted, events) /\ \A e \in events : e.batch # k
  BY StateFacts DEF BookInv, Named
<1>13. mid \in Postings /\ BooksOf(mid, events \cup {fill}) /\ IsFiniteSet(events \cup {fill})
  <2>1. fill \notin events
    BY <1>6, <1>12
  <2> QED BY <1>7, <1>10, <1>12, <2>1, PostBooks, PostType, FS_AddElement
<1>14. BooksOf(total, events \cup evs)
  <2> HIDE DEF mid
  <2>1. CASE c.fee > 0
    <3>1. fee \notin events \cup {fill} /\ events \cup {fill} \in SUBSET Events
      BY <1>6, <1>7, <1>8, <1>12
    <3>2. BooksOf(total, (events \cup {fill}) \cup {fee})
      BY <1>9, <1>10, <1>13, <3>1, PostBooks
    <3>3. (events \cup {fill}) \cup {fee} = events \cup evs
      BY <2>1
    <3> QED BY <3>2, <3>3
  <2>2. CASE ~(c.fee > 0)
    <3>1. c.fee = 0 /\ -c.fee = 0
      BY <1>2, <2>2
    <3>2. fee.cash = 0 /\ fee.asset = 0 /\ fee.basis = 0 /\ fee.realized = 0 /\ fee.fee = 0
      BY <1>8, <3>1
    <3>3. total = mid
      BY <1>9, <1>13, <3>2, PostZero
    <3>4. events \cup evs = events \cup {fill}
      BY <2>2
    <3> QED BY <1>13, <3>3, <3>4
  <2> QED BY <2>1, <2>2
<1>15. evs \in SUBSET Events /\ IsFiniteSet(evs)
  <2>1. IsFiniteSet({fill}) /\ IsFiniteSet({fill} \cup {fee})
    BY FS_Singleton, FS_AddElement
  <2> QED BY <1>7, <1>9, <2>1
<1>16. /\ \A e \in evs : e.batch = k /\ e.id[1] = k /\ e.reverses = NoEvent
       /\ \A e, f \in evs : e.id = f.id => e = f
  BY <1>6, <1>8
<1>17. RestatedIn(k, c, evs)
  <2>1. {f \in evs : f.batch = k} = {fill} \cup (IF c.fee > 0 THEN {FeeEvent(k, c)} ELSE {})
    BY <1>16 DEF fee
  <2>2. fill \in evs /\ c.fee >= 0
    BY <1>2
  <2> QED BY <1>11, <2>1, <2>2 DEF RestatedIn
<1>18. \A s \in Symbols : ps[s].status = "closed" => ps[s].exact
  <2>1. /\ positions \in [Symbols -> Positions]
        /\ \A s \in Symbols : positions[s].status = "closed" => positions[s].exact
    BY <1>1, ExactRows DEF Ready
  <2> QED BY <1>2, <1>4, <2>1
<1>19. c \in Payloads /\ k \in BatchIDs /\ w.exact
  BY DEF Payloads, BatchIDs
<1>20. Commit(k, c, migration, w, ps, evs, total)
  BY DEF CommitFill, fill, fee, a
<1> HIDE DEF evs, w, ps, total
<1> QED BY <1>14, <1>15, <1>16, <1>17, <1>18, <1>19, <1>20, CommitBooks

-----------------------------------------------------------------------------
\* Both seeds open the books.
LEMMA SeedsHaveBooks == Init => BookInv
<1> SUFFICES ASSUME Init PROVE BookInv
  OBVIOUS
<1>1. CASE SeedUpgrade
  <2>1. /\ events = {} /\ posted = NothingPosted /\ batches = [k \in BatchIDs |-> NoBatch]
    BY <1>1 DEF SeedUpgrade
  <2>2. IsFiniteSet(events) /\ BooksOf(posted, events)
    BY <2>1, NoBooks, FS_EmptySet
  <2>3. Named(events) /\ ReversedOnce(events)
    BY <2>1 DEF Named, ReversedOnce
  <2>4. \A k \in BatchIDs : batches[k] = NoBatch /\ batches[k].op = "none"
    BY <2>1 DEF NoBatch
  <2>5. OpenedIsExact
    BY <2>4 DEF OpenedIsExact, Known, BatchIDs
  <2> QED BY <2>2, <2>3, <2>4, <2>5 DEF BookInv, BatchIDs
<1>2. CASE SeedFreshInstall
  <2>1. /\ events = {OpeningEvent} /\ posted = Post(NothingPosted, OpeningEvent)
        /\ batches = [k \in BatchIDs |-> IF k = "opening" THEN OpeningPayload ELSE NoBatch]
        /\ wallet.exact /\ \A s \in Symbols : positions[s].status = "absent"
    BY <1>2 DEF SeedFreshInstall, AbsentRow
  <2>2. OpeningCash \in Int
    BY LedgerAssumption
  <2>3. /\ OpeningEvent \in Events /\ OpeningEvent.batch = "opening"
        /\ OpeningEvent.id[1] = "opening" /\ Balances(OpeningEvent)
        /\ OpeningEvent.reverses = NoEvent
    BY <2>2 DEF OpeningEvent, CashEvent, Events, EventTypes, EventIDs, BatchIDs, NoEvent, Balances
  <2>4. IsFiniteSet(events) /\ BooksOf(posted, events)
    <3>1. NothingPosted \in Postings
      BY DEF NothingPosted, Postings, Totals, NoTotals
    <3>2. IsFiniteSet({}) /\ IsFiniteSet({OpeningEvent}) /\ {} \in SUBSET Events
      BY FS_EmptySet, FS_Singleton
    <3>3. BooksOf(posted, {} \cup {OpeningEvent})
      BY <2>1, <2>3, <3>1, <3>2, NoBooks, PostBooks
    <3> QED BY <2>1, <3>2, <3>3
  <2>5. batches["opening"] # NoBatch
    BY <2>1 DEF BatchIDs, OpeningPayload, NoBatch
  <2>6. Named(events) /\ ReversedOnce(events)
    BY <2>1, <2>3, <2>5 DEF Named, ReversedOnce, Known
  <2>7. \A k \in Keys : batches[k].op # "fill"
    BY <2>1 DEF BatchIDs, OpeningPayload, NoBatch
  <2>8. OpenedIsExact
    BY <2>1 DEF OpenedIsExact
  <2> QED BY <2>4, <2>6, <2>7, <2>8 DEF BookInv
<1> QED BY <1>1, <1>2 DEF Init

\* Every command keeps the books.
LEMMA NextKeepsBooks == LedgerInv /\ BookInv /\ [Next]_vars => BookInv'
<1> SUFFICES ASSUME LedgerInv, BookInv, [Next]_vars PROVE BookInv'
  OBVIOUS
<1>0. ASSUME UNCHANGED ledger PROVE BookInv'
  BY <1>0, UnchangedBooks
<1>1. ASSUME NEW k \in Keys, NEW c \in FillCommands, ApplyFill(k, c) PROVE BookInv'
  BY <1>0, <1>1, FillBooks DEF ApplyFill, Replay, Reply
<1>2. ASSUME NEW k \in Keys, NEW c \in AdjustmentCommands, ApplyAdjustment(k, c) PROVE BookInv'
  BY <1>0, <1>2, AdjustmentBooks DEF ApplyAdjustment, Replay, Reply
<1>3. ASSUME NEW k \in Keys, NEW o \in events, ReverseCashEvent(k, o) PROVE BookInv'
  BY <1>0, <1>3, ReversalBooks DEF ReverseCashEvent, Replay, Reply
<1>4. ASSUME NEW k \in Keys, NEW c \in CorrectionCommands, ApplyAssetCorrection(k, c) PROVE BookInv'
  BY <1>0, <1>4, CorrectionBooks DEF ApplyAssetCorrection, Replay, Reply
<1>5. ASSUME NEW b \in Backfillers, BackfillApply(b) PROVE BookInv'
  BY <1>0, <1>5, BackfillBooks DEF BackfillApply, Reply
<1>6. ASSUME NEW b \in Backfillers, BackfillReport(b) PROVE BookInv'
  BY <1>0, <1>6 DEF BackfillReport
<1>7. CASE UNCHANGED vars
  BY <1>0, <1>7 DEF vars, ledger
<1>8. ASSUME NEW s \in Symbols, NEW q \in {LegacyOpen[t] : t \in Symbols}, NEW basis \in Bases
      PROVE  [op |-> "correct", symbol |-> s, qty |-> q, basis |-> basis] \in CorrectionCommands
  BY LedgerAssumption DEF CorrectionCommands
<1>9. CASE Next
  BY <1>9, <1>1, <1>2, <1>3, <1>4, <1>5, <1>6, <1>8 DEF Next
<1> QED BY <1>7, <1>9

\* The event table always carries the books of the account.
LEMMA BooksAreKept == Spec => []BookInv
<1>1. Init => BookInv
  BY SeedsHaveBooks
<1>2. LedgerInv /\ BookInv /\ [Next]_vars => BookInv'
  BY NextKeepsBooks
<1> QED BY <1>1, <1>2, LedgerInvariant, PTL DEF Spec

\* The running totals are the sums of the event table, and cash plus cost basis
\* is the capital brought in plus what the fills realized, after every sequence
\* of fills, adjustments, reversals, corrections and backfills, whatever
\* applyPosition rounds (reconcileCurrent finds no difference).
THEOREM AlwaysAccounted == Spec => []Accounted
<1>1. LedgerInv /\ BookInv => Accounted
  <2> SUFFICES ASSUME LedgerInv, BookInv PROVE Accounted
    OBVIOUS
  <2>1. PostedIsSum
    BY DEF BookInv, BooksOf, PostedIsSum, EventsOf
  <2>2. EquityIdentity
    <3> DEFINE pb == [s \in Symbols |-> positions[s].basis]
               pr == [s \in Symbols |-> positions[s].realized]
               tb == [s \in Symbols |-> posted.pos[s].basis]
               tr == [s \in Symbols |-> posted.pos[s].realized]
    <3>1. \A s \in Symbols : posted.pos[s].basis = positions[s].basis
                             /\ posted.pos[s].realized = positions[s].realized
      <4> SUFFICES ASSUME NEW s \in Symbols
                   PROVE  posted.pos[s].basis = positions[s].basis
                          /\ posted.pos[s].realized = positions[s].realized
        OBVIOUS
      <4>1. posted.pos[s] = Projected(positions[s])
        BY StateFacts
      <4> QED BY <4>1 DEF Projected
    <3>2. \A s \in Symbols : pb[s] = tb[s] /\ pr[s] = tr[s]
      BY <3>1
    <3>3. posted.cash + SumFunctionOnSet(tb, Symbols)
          = CashOf({e \in events : ~e.fill}) + BasisOf({e \in events : ~e.fill})
            + SumFunctionOnSet(tr, Symbols)
      BY DEF BookInv, BooksOf, EquityOf
    <3>4. /\ SumFunctionOnSet(pb, Symbols) = SumFunctionOnSet(tb, Symbols)
          /\ SumFunctionOnSet(pr, Symbols) = SumFunctionOnSet(tr, Symbols)
      <4> HIDE DEF pb, pr, tb, tr
      <4> QED BY <3>2, SumSame, LedgerAssumption
    <3>5. posted.cash = wallet.cash
      BY StateFacts
    <3>6. wallet.cash + SumFunctionOnSet(pb, Symbols)
          = CashOf({e \in events : ~e.fill}) + BasisOf({e \in events : ~e.fill})
            + SumFunctionOnSet(pr, Symbols)
      <4> HIDE DEF pb, pr, tb, tr
      <4> QED BY <3>3, <3>4, <3>5
    <3> QED BY <3>6 DEF EquityIdentity
  <2> QED BY <2>1, <2>2 DEF Accounted
<1> QED BY <1>1, LedgerInvariant, BooksAreKept, PTL

\* The fee event of a batch is what its fill was charged (reconcileCurrent).
LEMMA FeeIsCharged ==
    ASSUME NEW k \in Keys, NEW c \in FillCommands, c.fee >= 0
    PROVE  -CashOf(IF c.fee > 0 THEN {FeeEvent(k, c)} ELSE {}) = c.fee
<1>0. c.fee \in Int /\ c.symbol \in Symbols
  BY LedgerAssumption DEF FillCommands
<1>1. IsFiniteSet({}) /\ {} \in SUBSET Events /\ CashOf({}) = 0
  <2>1. IsFiniteSet({}) /\ {} \in SUBSET Events
    BY FS_EmptySet
  <2> QED BY <2>1, SumsOfColumns, SumEmpty
<1>2. FeeEvent(k, c) \in Events /\ FeeEvent(k, c).cash = -c.fee
  BY <1>0 DEF FeeEvent, Events, EventTypes, EventIDs, BatchIDs, NoEvent
<1>3. CashOf({} \cup {FeeEvent(k, c)}) = CashOf({}) + FeeEvent(k, c).cash
  BY <1>1, <1>2, ColumnsAdd
<1>4. {} \cup {FeeEvent(k, c)} = {FeeEvent(k, c)}
  OBVIOUS
<1>5. CashOf({FeeEvent(k, c)}) = -c.fee
  BY <1>0, <1>1, <1>2, <1>3, <1>4
<1>6. CASE c.fee > 0
  BY <1>0, <1>5, <1>6
<1>7. CASE ~(c.fee > 0)
  <2>1. c.fee = 0
    BY <1>0, <1>7
  <2> QED BY <1>1, <1>7, <2>1
<1> QED BY <1>6, <1>7

\* Fill rows are restated by their events: reconcileCurrent reports none.
LEMMA NoRecordIssues ==
    ASSUME LedgerInv, BookInv
    PROVE  RecordIssues = {}
<1> SUFFICES ASSUME NEW k \in RecordIssues PROVE FALSE
  OBVIOUS
<1> DEFINE c == batches[k]
           trade == {e \in events : e.batch = k /\ e.type \in {"buy_fill", "sell_fill"}}
           fees == {e \in events : e.batch = k /\ e.type = "trading_fee"}
<1>1. k \in Keys /\ c.op = "fill"
      /\ \/ Cardinality(trade) # 1
         \/ \E e \in trade : \/ e.cash # (IF c.side = "buy" THEN -Gross(c) ELSE Gross(c))
                             \/ e.asset # (IF c.side = "buy" THEN c.qty ELSE -c.qty)
         \/ -CashOf(fees) # c.fee
  BY DEF RecordIssues
<1>2. c \in FillCommands
  <2>1. c \in Payloads \cup {NoBatch}
    BY <1>1 DEF LedgerInv, TypeOK, BatchIDs
  <2> HIDE DEF c
  <2> QED BY <1>1, <2>1 DEF Payloads, FillCommands, AdjustmentCommands, ReversalCommands,
                            CorrectionCommands, OpeningPayload, NoBatch
<1>3. RestatedIn(k, c, events)
  BY <1>1 DEF BookInv
<1> HIDE DEF c
<1>4. PICK e \in events :
         /\ e = FillEvent(k, c, Gross(c), e.basis, e.realized)
         /\ {f \in events : f.batch = k} = {e} \cup (IF c.fee > 0 THEN {FeeEvent(k, c)} ELSE {})
         /\ c.fee >= 0
  BY <1>3 DEF RestatedIn
<1>5. /\ e.type \in {"buy_fill", "sell_fill"} /\ e.type # "trading_fee"
      /\ e.cash = (IF c.side = "buy" THEN -Gross(c) ELSE Gross(c))
      /\ e.asset = (IF c.side = "buy" THEN c.qty ELSE -c.qty)
  <2> DEFINE f == FillEvent(k, c, Gross(c), e.basis, e.realized)
  <2>1. /\ f.type \in {"buy_fill", "sell_fill"} /\ f.type # "trading_fee"
        /\ f.cash = (IF c.side = "buy" THEN -Gross(c) ELSE Gross(c))
        /\ f.asset = (IF c.side = "buy" THEN c.qty ELSE -c.qty)
    BY DEF FillEvent
  <2>2. e = f
    BY <1>4
  <2> HIDE DEF f
  <2> QED BY <2>1, <2>2
<1>6. FeeEvent(k, c).type = "trading_fee"
  BY DEF FeeEvent
<1>7. trade = {e}
  BY <1>4, <1>5, <1>6
<1>8. fees = IF c.fee > 0 THEN {FeeEvent(k, c)} ELSE {}
  BY <1>4, <1>5, <1>6
<1> HIDE DEF trade, fees
<1>9. Cardinality(trade) = 1
  BY <1>7, FS_Singleton
<1>10. -CashOf(fees) = c.fee
  BY <1>1, <1>2, <1>4, <1>8, FeeIsCharged
<1> QED BY <1>1, <1>5, <1>7, <1>9, <1>10

\* A ready account reconciles on its event and fill tables, and an event is
\* reversed at most once, by an event that cancels it in every dimension, after
\* every sequence of commands under any keys (Backfill, ReverseCashEvent,
\* reconcileCurrent).
THEOREM AlwaysSettled == Spec => []Settled
<1>1. LedgerInv /\ BookInv => Settled
  <2> SUFFICES ASSUME LedgerInv, BookInv PROVE Settled
    OBVIOUS
  <2>1. ReadyIsBalanced
    <3> SUFFICES ASSUME migration = "ready" PROVE Balanced
      BY DEF ReadyIsBalanced
    <3>1. /\ wallet.exact /\ positions \in [Symbols -> Positions]
          /\ \A s \in Symbols : positions[s].status = "closed" => positions[s].exact
      BY ExactRows
    <3>2. ~CashDifference
      BY <3>1, StateFacts DEF CashDifference, BookInv, BooksOf
    <3>3. ASSUME NEW s \in Symbols PROVE s \notin PositionDifferences
      <4>1. Projected(positions[s]) = TotalsOf(EventsOf(s))
        BY StateFacts DEF BookInv, BooksOf, EventsOf
      <4>2. CASE positions[s].status = "absent"
        <5>1. Projected(positions[s]) = NoTotals
          BY <4>2 DEF LedgerInv, NilIsZeroIn
        <5>2. TotalsOf(EventsOf(s)).amount = 0
          BY <4>1, <5>1 DEF NoTotals
        <5> QED BY <4>2, <5>2 DEF PositionDifferences
      <4>3. CASE positions[s].status # "absent"
        <5>1. positions[s].exact
          BY <3>1, <4>3 DEF LedgerInv, ReadyIsResolved, Unresolved, Positions
        <5> QED BY <4>1, <4>3, <5>1 DEF PositionDifferences
      <4> QED BY <4>2, <4>3
    <3>4. PositionDifferences = {}
      <4>1. PositionDifferences \subseteq Symbols
        BY DEF PositionDifferences
      <4> QED BY <3>3, <4>1
    <3> QED BY <3>2, <3>4, NoRecordIssues DEF Balanced
  <2>2. ReversalsCancel
    <3> SUFFICES ASSUME NEW o \in events
                 PROVE  LET reversals == {r \in events : r.reverses = o.id}
                        IN  /\ Cardinality(reversals) <= 1
                            /\ \A r \in reversals : Cancels(r, o)
      BY Zenon DEF ReversalsCancel, Cancels
    <3> DEFINE reversals == {r \in events : r.reverses = o.id}
    <3>1. o.id \in EventIDs /\ o.id # NoEvent
      <4>1. o \in Events
        BY StateFacts
      <4> QED BY <4>1 DEF Events, EventIDs, NoEvent
    <3>2. \A r \in reversals : Reversed(r, events) /\ \A e \in reversals : e = r
      BY <3>1 DEF BookInv, ReversedOnce
    <3>3. \A r \in reversals : Cancels(r, o)
      BY <3>2 DEF BookInv, Named, Reversed
    <3>4. Cardinality(reversals) <= 1
      <4>1. CASE reversals = {}
        BY <4>1, FS_EmptySet
      <4>2. CASE reversals # {}
        <5>1. PICK r \in reversals : TRUE
          BY <4>2
        <5>2. reversals = {r}
          BY <3>2, <5>1
        <5> HIDE DEF reversals
        <5> QED BY <5>2, FS_Singleton
      <4> QED BY <4>1, <4>2
    <3> QED BY <3>3, <3>4
  <2> QED BY <2>1, <2>2 DEF Settled, LedgerInv
<1> QED BY <1>1, LedgerInvariant, BooksAreKept, PTL

-----------------------------------------------------------------------------
(* The round trip of a paper position, at every scale.                     *)

\* Rounding keeps the order of two quotients.
LEMMA RoundIsMonotone ==
    ASSUME NEW n \in Nat, NEW m \in Nat, n <= m, NEW d \in Nat \ {0}
    PROVE  roundQuotient(n, d) <= roundQuotient(m, d)
<1> DEFINE a == roundQuotient(n, d)
           b == roundQuotient(m, d)
           x == d * a
           y == d * b
<1>1. a \in Nat /\ b \in Nat
  BY RoundOfNat
<1>2. 2 * (x - n) <= d /\ 2 * (y - m) > -d
  BY RoundsToNearest
<1>3. a >= b + 1 => x >= y + d
  <2>1. a >= b + 1 => d * a >= d * (b + 1)
    BY <1>1
  <2>2. d * (b + 1) = d * b + d
    BY <1>1
  <2> QED BY <2>1, <2>2
<1>4. x \in Nat /\ y \in Nat
  BY <1>1
<1> HIDE DEF a, b, x, y
<1>5. a <= b
  BY <1>1, <1>2, <1>3, <1>4
<1> QED BY <1>5 DEF a, b

\* Only a positive number rounds to a positive one.
LEMMA RoundIsPositive ==
    ASSUME NEW n \in Int, NEW d \in Nat \ {0}, roundQuotient(n, d) > 0
    PROVE  n > 0
<1> SUFFICES ASSUME n <= 0 PROVE FALSE
  OBVIOUS
<1>1. CASE n = 0
  <2>1. Quo(n, d) = 0 /\ Rem(n, d) = 0 /\ Abs(d) = d
    BY <1>1 DEF Quo, Rem, Sign, Abs
  <2> QED BY <2>1 DEF roundQuotient, Abs
<1>2. CASE n < 0
  <2> DEFINE k == (-n) \div d
  <2>1. k \in Nat
    BY <1>2
  <2>2. Sign(n) = -1 /\ Sign(d) = 1 /\ Abs(n) = -n /\ Abs(d) = d
    BY <1>2 DEF Sign, Abs
  <2>3. Quo(n, d) = -k
    BY <2>1, <2>2 DEF Quo
  <2> HIDE DEF k
  <2>4. roundQuotient(n, d) \in {-k, -k - 1}
    BY <2>1, <2>2, <2>3 DEF roundQuotient
  <2> QED BY <2>1, <2>4
<1> QED BY <1>1, <1>2

\* What the terms of a round trip make of its price and its fee: slippage works
\* against the trader on either side.
LEMMA CostsAreAdverse ==
    ASSUME NEW mark \in Nat, NEW slippage \in Nat
    PROVE  /\ CostedPaperPrice("buy", mark, slippage) \in Nat
           /\ CostedPaperPrice("sell", mark, slippage) \in Int
           /\ CostedPaperPrice("sell", mark, slippage) > 0 =>
                 /\ CostedPaperPrice("sell", mark, slippage) \in Nat
                 /\ CostedPaperPrice("sell", mark, slippage) <= CostedPaperPrice("buy", mark, slippage)
<1> DEFINE slip == Div(slippage * Factor, BPS)
<1>1. BPS \in Nat \ {0} /\ (slippage * Factor) * Factor \in Nat
  BY FactorAssumption DEF BPS
<1>2. slip \in Nat
  BY <1>1, RoundOfNat DEF Div
<1> DEFINE up == mark * (Factor + slip)
           down == mark * (Factor - slip)
<1>3. /\ CostedPaperPrice("buy", mark, slippage) = roundQuotient(up, Factor)
      /\ CostedPaperPrice("sell", mark, slippage) = roundQuotient(down, Factor)
  BY DEF CostedPaperPrice, CostMultiplier, Mul
<1>4. up \in Nat /\ down \in Int
  BY <1>2, FactorAssumption
<1>5. down <= up
  <2>1. up = mark * Factor + mark * slip /\ down = mark * Factor - mark * slip
    BY <1>2, FactorAssumption
  <2>2. mark * Factor \in Nat /\ mark * slip \in Nat
    BY <1>2, FactorAssumption
  <2> HIDE DEF slip, up, down
  <2> QED BY <2>1, <2>2
<1> HIDE DEF slip, up, down
<1>6. roundQuotient(down, Factor) \in Int
  <2>1. CASE down \in Nat
    BY <2>1, RoundOfNat, FactorAssumption
  <2>2. CASE down < 0
    <3>1. (-down) \div Factor \in Nat
      BY <2>2, <1>4, FactorAssumption
    <3>2. Quo(down, Factor) \in Int
      BY <3>1, <1>4, FactorAssumption DEF Quo, Sign, Abs
    <3> QED BY <3>2 DEF roundQuotient
  <2> QED BY <2>1, <2>2, <1>4
<1>7. roundQuotient(up, Factor) \in Nat
  BY <1>4, RoundOfNat, FactorAssumption
<1>8. ASSUME roundQuotient(down, Factor) > 0
      PROVE  roundQuotient(down, Factor) <= roundQuotient(up, Factor)
  <2>1. down > 0
    BY <1>8, <1>4, RoundIsPositive, FactorAssumption
  <2> QED BY <2>1, <1>4, <1>5, RoundIsMonotone, FactorAssumption
<1> QED BY <1>3, <1>6, <1>7, <1>8

LEMMA FeeIsNat ==
    ASSUME NEW qty \in Nat, NEW price \in Nat, NEW fee \in Nat
    PROVE  CostedPaperFee(qty, price, fee) \in Nat
<1>1. BPS \in Nat \ {0} /\ (fee * Factor) * Factor \in Nat
  BY FactorAssumption DEF BPS
<1>2. Div(fee * Factor, BPS) \in Nat
  BY <1>1, RoundOfNat DEF Div
<1>3. Mul(qty, price) \in Nat
  BY MulNat
<1> QED BY <1>2, <1>3, MulNat DEF CostedPaperFee

\* What a fill's gross is worth beside its exact worth.
LEMMA GrossIsNear ==
    ASSUME NEW qty \in Nat, NEW price \in Nat
    PROVE  /\ Mul(qty, price) \in Nat
           /\ 2 * (Factor * Mul(qty, price) - qty * price) <= Factor
           /\ 2 * (Factor * Mul(qty, price) - qty * price) > -Factor
BY MulNat, RoundsToNearest, FactorAssumption, qty * price \in Nat DEF Mul

\* The price of a buy at the terms, which no sale betters.
BuyPrice == CostedPaperPrice("buy", terms.mark, terms.slippage)

Holdings ==
    [status : {"absent", "open", "closed"}, exact : BOOLEAN, amount : Nat, basis : Nat,
     realized : Int, fees : Nat]

Legs ==
    [side : {"buy", "sell"}, qty : Nat, price : Nat, gross : Nat, fee : Nat, released : Int,
     from : Holdings]

Released(f) ==
    f.side = "sell" => /\ f.from.amount # 0
                       /\ f.released = MulDiv(f.from.basis, f.qty, f.from.amount)

\* The invariant values the position at BuyPrice: with it, each fill has gained
\* at most half a unit.
TripInv ==
    /\ terms \in [mark : Marks, fee : FeeBPS, slippage : SlippageBPS]
    /\ holding \in Holdings /\ earned \in Int
    /\ holding.status # "open" => holding.amount = 0 /\ holding.basis = 0
    /\ holding.status = "open" => holding.amount > 0
    /\ holding.realized = earned + holding.basis
    /\ legs \in Seq(Legs) /\ Len(legs) \in 0 .. MaxFills
    /\ \A i \in DOMAIN legs : Released(legs[i])
    /\ 2 * (Factor * earned) + 2 * (holding.amount * BuyPrice) <= Factor * Len(legs)

LEMMA TripInitKeeps == ASSUME RoundTripAssumption, TripInit PROVE TripInv
<1>1. terms.mark \in Nat /\ terms.slippage \in Nat
  BY DEF TripInit, RoundTripAssumption
<1>2. BuyPrice \in Nat
  BY <1>1, CostsAreAdverse DEF BuyPrice
<1>3. holding.amount = 0 /\ earned = 0 /\ Len(legs) = 0
  BY DEF TripInit, EmptyRow
<1>4. 2 * (Factor * earned) + 2 * (holding.amount * BuyPrice) <= Factor * Len(legs)
  BY <1>2, <1>3, FactorAssumption
<1> QED BY <1>4 DEF TripInit, TripInv, EmptyRow, Holdings, RoundTripAssumption


\* What a fill books, in the terms of the invariant.
LegPrice(side) == CostedPaperPrice(side, terms.mark, terms.slippage)
LegFee(side, qty) == CostedPaperFee(qty, LegPrice(side), terms.fee)
LegGross(side, qty) == Mul(qty, LegPrice(side))
LegCommand(side, qty) ==
    [side |-> side, qty |-> qty, price |-> LegPrice(side), fee |-> LegFee(side, qty)]
LegApplied(side, qty) == applyPosition(holding, LegCommand(side, qty), LegGross(side, qty))
Leg(side, qty) ==
    [side |-> side, qty |-> qty, price |-> LegPrice(side), gross |-> LegGross(side, qty),
     fee |-> LegFee(side, qty), released |-> -LegApplied(side, qty).basisDelta, from |-> holding]

LEMMA LegFacts ==
    ASSUME RoundTripAssumption, TripInv, NEW side \in {"buy", "sell"}, NEW qty \in Lots, Fill(side, qty)
    PROVE  /\ LegPrice(side) \in Nat \ {0} /\ LegPrice(side) <= BuyPrice /\ BuyPrice \in Nat
           /\ LegFee(side, qty) \in Nat /\ LegGross(side, qty) \in Nat /\ qty \in Nat \ {0}
           /\ 2 * (Factor * LegGross(side, qty) - qty * LegPrice(side)) <= Factor
           /\ 2 * (Factor * LegGross(side, qty) - qty * LegPrice(side)) > -Factor
           /\ IF side = "buy" THEN CanBuy(holding) ELSE CanSell(holding, qty)
           /\ holding' = LegApplied(side, qty).row
           /\ earned' = earned + (IF side = "buy" THEN -LegGross(side, qty) ELSE LegGross(side, qty))
                               - LegFee(side, qty)
           /\ legs' = Append(legs, Leg(side, qty))
           /\ Len(legs) < MaxFills /\ terms' = terms /\ BuyPrice' = BuyPrice
<1>1. terms.mark \in Nat /\ terms.slippage \in Nat /\ terms.fee \in Nat /\ qty \in Nat \ {0}
  BY DEF TripInv, RoundTripAssumption
<1>2. Command(side, qty) = LegCommand(side, qty)
  BY DEF Command, LegCommand, LegFee, LegPrice
<1>3. /\ LegCommand(side, qty).price = LegPrice(side) /\ LegCommand(side, qty).side = side
      /\ LegCommand(side, qty).fee = LegFee(side, qty) /\ LegCommand(side, qty).qty = qty
  BY DEF LegCommand
<1>4. LegPrice(side) > 0
  BY <1>2, <1>3 DEF Fill, Executable
<1>5. LegPrice(side) \in Nat \ {0} /\ LegPrice(side) <= BuyPrice /\ BuyPrice \in Nat
  <2>1. BuyPrice \in Nat /\ LegPrice("buy") = BuyPrice
    BY <1>1, CostsAreAdverse DEF BuyPrice, LegPrice
  <2>2. LegPrice("sell") > 0 => LegPrice("sell") \in Nat /\ LegPrice("sell") <= BuyPrice
    BY <1>1, CostsAreAdverse DEF BuyPrice, LegPrice
  <2>3. LegPrice(side) \in Nat /\ LegPrice(side) <= BuyPrice
    BY <2>1, <2>2, <1>4
  <2> QED BY <2>1, <2>3, <1>4
<1>6. LegFee(side, qty) \in Nat /\ LegGross(side, qty) \in Nat
  BY <1>1, <1>5, FeeIsNat, MulNat DEF LegFee, LegGross
<1>7. /\ 2 * (Factor * LegGross(side, qty) - qty * LegPrice(side)) <= Factor
      /\ 2 * (Factor * LegGross(side, qty) - qty * LegPrice(side)) > -Factor
  BY <1>1, <1>5, GrossIsNear DEF LegGross
<1>8. /\ IF side = "buy" THEN CanBuy(holding) ELSE CanSell(holding, qty)
      /\ holding' = LegApplied(side, qty).row
      /\ earned' = earned + (IF side = "buy" THEN -LegGross(side, qty) ELSE LegGross(side, qty))
                          - LegFee(side, qty)
      /\ legs' = Append(legs, Leg(side, qty))
      /\ Len(legs) < MaxFills /\ terms' = terms
  BY <1>2, <1>3 DEF Fill, Executable, LegApplied, LegGross, Leg
<1> QED BY <1>1, <1>5, <1>6, <1>7, <1>8 DEF BuyPrice

\* A buy costs at least its lot at BuyPrice, but for half a unit.
LEMMA BuyKeeps ==
    ASSUME RoundTripAssumption, TripInv, NEW qty \in Lots, Fill("buy", qty)
    PROVE  TripInv'
<1> DEFINE price == LegPrice("buy")
           fee == LegFee("buy", qty)
           gross == LegGross("buy", qty)
           applied == LegApplied("buy", qty)
<1>1. /\ price \in Nat /\ price <= BuyPrice /\ BuyPrice \in Nat /\ fee \in Nat /\ gross \in Nat
      /\ 2 * (Factor * gross - qty * price) <= Factor
      /\ 2 * (Factor * gross - qty * price) > -Factor
      /\ CanBuy(holding)
      /\ holding' = applied.row
      /\ earned' = earned - gross - fee
      /\ legs' = Append(legs, Leg("buy", qty))
      /\ Len(legs) < MaxFills /\ terms' = terms /\ BuyPrice' = BuyPrice
  BY LegFacts DEF TripInv
<1>2. qty \in Nat \ {0} /\ earned \in Int /\ holding \in Holdings /\ Len(legs) \in Nat
  BY DEF RoundTripAssumption, TripInv
<1>3. /\ holding' = [status |-> "open", exact |-> TRUE, amount |-> holding.amount + qty,
                     basis |-> holding.basis + gross, realized |-> holding.realized - fee,
                     fees |-> holding.fees + fee]
      /\ applied.basisDelta = gross
  <2>1. CarriedOver(holding).amount = holding.amount /\ CarriedOver(holding).basis = holding.basis
        /\ CarriedOver(holding).realized = holding.realized /\ CarriedOver(holding).fees = holding.fees
    BY DEF TripInv, CarriedOver
  <2> QED BY <1>1, <2>1 DEF applyPosition, Bought, LegApplied, LegCommand
<1>5. price = BuyPrice
  BY DEF BuyPrice, LegPrice
<1> HIDE DEF price, fee, gross, applied
<1>4. legs' \in Seq(Legs) /\ Len(legs') = Len(legs) + 1
      /\ \A i \in DOMAIN legs' : Released(legs'[i])
  <2> DEFINE f == Leg("buy", qty)
  <2>1. f \in Legs /\ Released(f)
    BY <1>1, <1>2, <1>3 DEF Legs, Released, Leg, price, fee, gross, applied
  <2> HIDE DEF f
  <2>2. legs \in Seq(Legs) /\ \A i \in DOMAIN legs : Released(legs[i])
    BY DEF TripInv
  <2>3. legs' = Append(legs, f)
    BY <1>1 DEF f
  <2> QED BY <2>1, <2>2, <2>3
<1>6. 2 * (Factor * earned') + 2 * (holding'.amount * BuyPrice') <= Factor * Len(legs')
  <2> DEFINE x == Factor * earned
             y == holding.amount * BuyPrice
             g == Factor * gross
             e == Factor * fee
             q == qty * price
             l == Factor * Len(legs)
  <2>1. 2 * (g - q) > -Factor
    BY <1>1
  <2>2. Factor * earned' = x - g - e
    BY <1>1, <1>2, FactorAssumption
  <2>3. holding'.amount * BuyPrice' = y + q
    BY <1>1, <1>2, <1>3, <1>5 DEF Holdings
  <2>4. Factor * Len(legs') = l + Factor
    BY <1>4, <1>2, FactorAssumption
  <2>5. x \in Int /\ y \in Int /\ g \in Int /\ e \in Nat /\ q \in Int /\ l \in Int
    BY <1>1, <1>2, <1>5, FactorAssumption DEF Holdings
  <2>6. 2 * x + 2 * y <= l
    BY DEF TripInv
  <2> HIDE DEF x, y, g, e, q, l
  <2> QED BY <2>1, <2>2, <2>3, <2>4, <2>5, <2>6, FactorAssumption
<1>7. earned' \in Int /\ holding' \in Holdings /\ holding'.amount > 0 /\ holding'.status = "open"
  BY <1>1, <1>2, <1>3 DEF Holdings
<1>8. holding'.realized = earned' + holding'.basis
  BY <1>1, <1>2, <1>3 DEF Holdings, TripInv
<1>9. terms' \in [mark : Marks, fee : FeeBPS, slippage : SlippageBPS] /\ Len(legs') \in 0 .. MaxFills
  BY <1>1, <1>4 DEF TripInv, RoundTripAssumption
<1> QED BY <1>4, <1>6, <1>7, <1>8, <1>9 DEF TripInv

\* A sale brings at most its lot at BuyPrice and half a unit; it releases its
\* share of the basis, and the last one all of it.
LEMMA SellKeeps ==
    ASSUME RoundTripAssumption, TripInv, NEW qty \in Lots, Fill("sell", qty)
    PROVE  TripInv'
<1> DEFINE price == LegPrice("sell")
           fee == LegFee("sell", qty)
           gross == LegGross("sell", qty)
           applied == LegApplied("sell", qty)
<1>1. /\ price \in Nat /\ price <= BuyPrice /\ BuyPrice \in Nat /\ fee \in Nat /\ gross \in Nat
      /\ 2 * (Factor * gross - qty * price) <= Factor
      /\ 2 * (Factor * gross - qty * price) > -Factor
      /\ CanSell(holding, qty)
      /\ holding' = applied.row
      /\ earned' = earned + gross - fee
      /\ legs' = Append(legs, Leg("sell", qty))
      /\ Len(legs) < MaxFills /\ terms' = terms /\ BuyPrice' = BuyPrice
  BY LegFacts DEF TripInv
<1>2. qty \in Nat \ {0} /\ earned \in Int /\ holding \in Holdings /\ Len(legs) \in Nat
      /\ holding.amount \in Nat \ {0} /\ qty \in 0 .. holding.amount /\ holding.basis \in Nat
  BY <1>1 DEF RoundTripAssumption, TripInv, CanSell, Holdings
<1> DEFINE released == MulDiv(holding.basis, qty, holding.amount)
<1>3. released \in 0 .. holding.basis /\ (qty = holding.amount => released = holding.basis)
  BY <1>2, ShareOfBasis
<1>4. /\ holding' = [status |-> IF holding.amount = qty THEN "closed" ELSE "open", exact |-> TRUE,
                     amount |-> holding.amount - qty, basis |-> holding.basis - released,
                     realized |-> holding.realized + (gross - released - fee),
                     fees |-> holding.fees + fee]
      /\ applied.basisDelta = -released
  BY <1>1 DEF applyPosition, Sold, LegApplied, LegCommand
<1> HIDE DEF released, price, fee, gross, applied
<1>5. legs' \in Seq(Legs) /\ Len(legs') = Len(legs) + 1
      /\ \A i \in DOMAIN legs' : Released(legs'[i])
  <2> DEFINE f == Leg("sell", qty)
  <2>0. f.released = released
    BY <1>3, <1>2, <1>4 DEF Leg, applied
  <2>1. f \in Legs
    BY <2>0, <1>1, <1>2, <1>3 DEF Legs, Leg, price, fee, gross
  <2>2. Released(f)
    BY <2>0, <1>2 DEF Released, released, Leg
  <2> HIDE DEF f
  <2>3. legs \in Seq(Legs) /\ \A i \in DOMAIN legs : Released(legs[i])
    BY DEF TripInv
  <2>4. legs' = Append(legs, f)
    BY <1>1 DEF f
  <2> QED BY <2>1, <2>2, <2>3, <2>4
<1>6. BuyPrice' = BuyPrice /\ BuyPrice \in Nat
  BY <1>1
<1>7. 2 * (Factor * earned') + 2 * (holding'.amount * BuyPrice') <= Factor * Len(legs')
  <2> DEFINE x == Factor * earned
             y == holding.amount * BuyPrice
             g == Factor * gross
             e == Factor * fee
             p == qty * price
             q == qty * BuyPrice
             l == Factor * Len(legs)
  <2>1. 2 * (g - p) <= Factor
    BY <1>1
  <2>2. Factor * earned' = x + g - e
    BY <1>1, <1>2, FactorAssumption
  <2>3. holding'.amount * BuyPrice' = y - q
    BY <1>1, <1>2, <1>4, <1>6
  <2>4. Factor * Len(legs') = l + Factor
    BY <1>5, <1>2, FactorAssumption
  <2>5. x \in Int /\ y \in Int /\ g \in Int /\ e \in Nat /\ p \in Int /\ q \in Int /\ l \in Int
    BY <1>1, <1>2, <1>6, FactorAssumption
  <2>6. 2 * x + 2 * y <= l
    BY DEF TripInv
  <2>7. p <= q
    BY <1>1, <1>2, <1>6
  <2> HIDE DEF x, y, g, e, p, q, l
  <2> QED BY <2>1, <2>2, <2>3, <2>4, <2>5, <2>6, <2>7, FactorAssumption
<1>8. earned' \in Int /\ holding' \in Holdings
  <2>1. holding.amount - qty \in Nat /\ holding.basis - released \in Nat
    BY <1>2, <1>3
  <2>2. holding.realized + (gross - released - fee) \in Int /\ holding.fees + fee \in Nat
    BY <1>1, <1>2, <1>3 DEF Holdings
  <2> QED BY <1>1, <1>2, <1>4, <2>1, <2>2 DEF Holdings
<1>9. /\ holding'.status # "open" => holding'.amount = 0 /\ holding'.basis = 0
      /\ holding'.status = "open" => holding'.amount > 0
  BY <1>2, <1>3, <1>4
<1>10. holding'.realized = earned' + holding'.basis
  <2>1. holding.realized = earned + holding.basis
    BY DEF TripInv
  <2>2. /\ holding'.realized = holding.realized + (gross - released - fee)
        /\ holding'.basis = holding.basis - released
    BY <1>4
  <2>3. holding.realized \in Int /\ released \in Int /\ gross \in Int /\ fee \in Int
    BY <1>1, <1>2, <1>3 DEF Holdings
  <2>4. earned' = earned + gross - fee
    BY <1>1
  <2> QED BY <1>2, <2>1, <2>2, <2>3, <2>4
<1>11. terms' \in [mark : Marks, fee : FeeBPS, slippage : SlippageBPS] /\ Len(legs') \in 0 .. MaxFills
  BY <1>1, <1>5 DEF TripInv, RoundTripAssumption
<1> QED BY <1>5, <1>7, <1>8, <1>9, <1>10, <1>11 DEF TripInv

\* A round trip is fair whatever its scale, its lots, its mark and its costs.
THEOREM RoundTripsFair == ASSUME RoundTripAssumption PROVE TripSpec => []RoundTripIsFair
<1>1. TripInit => TripInv
  BY TripInitKeeps
<1>2. TripInv /\ [TripNext]_tripVars => TripInv'
  <2>1. ASSUME TripInv, TripNext PROVE TripInv'
    BY <2>1, BuyKeeps, SellKeeps DEF TripNext
  <2>2. ASSUME TripInv, UNCHANGED tripVars PROVE TripInv'
    BY <2>2 DEF TripInv, tripVars, BuyPrice
  <2> QED BY <2>1, <2>2
<1>3. TripInv => RoundTripIsFair
  <2> SUFFICES ASSUME TripInv PROVE RoundTripIsFair
    OBVIOUS
  <2>1. TripTypeOK
    BY DEF TripInv, TripTypeOK, Holdings
  <2>2. RoundTripGainsOnlyDust
    <3> SUFFICES ASSUME holding.amount = 0 PROVE 2 * earned <= Len(legs)
      BY DEF RoundTripGainsOnlyDust
    <3>1. terms.mark \in Nat /\ terms.slippage \in Nat
      BY DEF TripInv, RoundTripAssumption
    <3>2. BuyPrice \in Nat
      BY <3>1, CostsAreAdverse DEF BuyPrice
    <3>3. earned \in Int /\ Len(legs) \in Nat /\ holding.amount * BuyPrice = 0
      BY <3>2 DEF TripInv
    <3>4. 2 * (Factor * earned) + 2 * (holding.amount * BuyPrice) <= Factor * Len(legs)
      BY DEF TripInv
    <3>5. 2 * (Factor * earned) <= Factor * Len(legs) /\ earned \in Int /\ Len(legs) \in Nat
      BY <3>3, <3>4, FactorAssumption
    <3> DEFINE n == Len(legs)
    <3> HIDE DEF n
    <3>6. Factor * (n - 2 * earned) >= 0
      BY <3>5, FactorAssumption DEF n
    <3>7. n - 2 * earned <= -1 => Factor * (n - 2 * earned) <= -Factor
      BY <3>5, FactorAssumption DEF n
    <3> QED BY <3>5, <3>6, <3>7, FactorAssumption DEF n
  <2>3. RealizedIsCash
    BY DEF TripInv, RealizedIsCash, Holdings
  <2>4. ReleaseIsNearest
    <3> SUFFICES ASSUME NEW i \in DOMAIN legs, legs[i].side = "sell"
                 PROVE  LET f == legs[i]
                            exact == f.from.basis * f.qty
                        IN  /\ 2 * Abs(f.released * f.from.amount - exact) <= f.from.amount
                            /\ 2 * (f.released * f.from.amount - exact) > -f.from.amount
      BY DEF ReleaseIsNearest
    <3> DEFINE f == legs[i]
               n == f.from.basis * f.qty
               d == f.from.amount
    <3>1. f \in Legs /\ Released(f)
      BY DEF TripInv
    <3>2. n \in Nat /\ d \in Nat \ {0} /\ f.released = roundQuotient(n, d)
      BY <3>1 DEF Released, MulDiv, Legs, Holdings
    <3>3. 2 * (d * roundQuotient(n, d) - n) <= d /\ 2 * (d * roundQuotient(n, d) - n) > -d
      BY <3>2, RoundsToNearest
    <3>4. roundQuotient(n, d) \in Nat
      BY <3>2, RoundOfNat
    <3>5. f.released * d = d * roundQuotient(n, d)
      BY <3>2, <3>4
    <3> DEFINE x == d * roundQuotient(n, d)
    <3>6. x \in Nat
      BY <3>2, <3>4
    <3> HIDE DEF n, d, x
    <3>7. 2 * Abs(x - n) <= d /\ 2 * (x - n) > -d
      BY <3>2, <3>3, <3>6 DEF Abs, x
    <3> QED BY <3>5, <3>7 DEF x, n, d
  <2> QED BY <2>1, <2>2, <2>3, <2>4 DEF RoundTripIsFair
<1> QED BY <1>1, <1>2, <1>3, PTL DEF TripSpec
===============================================================================
