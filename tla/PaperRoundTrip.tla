---------------------------- MODULE PaperRoundTrip ----------------------------
(***************************************************************************)
(* One paper position bought and sold in parts while its mark stands       *)
(* still: the cost model of service.go CostedPaperFill followed by the     *)
(* position arithmetic of applyPosition.  Every product and every share of *)
(* the basis is rounded, so the question is what a sequence of fills can   *)
(* gain or lose by rounding.                                               *)
(***************************************************************************)
EXTENDS Position, Sequences

CONSTANTS
    Marks,          \* requested prices, in decimal units
    Lots,           \* quantities per fill
    FeeBPS, SlippageBPS,    \* settings paper_fee_bps and paper_slippage_bps
    MaxFills        \* bound: fills of the round trip

\* What the instances have to satisfy.
RoundTripAssumption ==
    /\ Marks \subseteq Nat \ {0} /\ Lots \subseteq Nat \ {0}
    /\ FeeBPS \subseteq Nat /\ SlippageBPS \subseteq Nat
    /\ MaxFills \in Nat

VARIABLES
    terms,      \* mark, fee and slippage of the round trip
    holding,        \* the position
    earned,     \* cash earned, negative while invested
    legs        \* [side, qty, price, gross, fee, released, from] of every fill

tripVars == <<terms, holding, earned, legs>>

EmptyRow == [status |-> "absent", exact |-> FALSE, amount |-> 0, basis |-> 0,
             realized |-> 0, fees |-> 0]

TripInit ==
    /\ terms \in [mark : Marks, fee : FeeBPS, slippage : SlippageBPS]
    /\ holding = EmptyRow
    /\ earned = 0
    /\ legs = <<>>

\* The command ExecuteOpenTrade and closeFillCommand build, and what it books.
Command(side, qty) ==
    LET price == CostedPaperPrice(side, terms.mark, terms.slippage)
    IN  [side |-> side, qty |-> qty, price |-> price,
         fee |-> CostedPaperFee(qty, price, terms.fee)]

\* validateFill and the preconditions of applyPosition.
Executable(c) ==
    /\ c.price > 0
    /\ IF c.side = "buy" THEN CanBuy(holding) ELSE CanSell(holding, c.qty)

Fill(side, qty) ==
    LET c == Command(side, qty)
        gross == Mul(qty, c.price)
        applied == applyPosition(holding, c, gross)
    IN  /\ Len(legs) < MaxFills
        /\ Executable(c)
        /\ holding' = applied.row
        /\ earned' = earned + (IF side = "buy" THEN -gross ELSE gross) - c.fee
        /\ legs' = Append(legs, [side |-> side, qty |-> qty, price |-> c.price,
                                   gross |-> gross, fee |-> c.fee,
                                   released |-> -applied.basisDelta, from |-> holding])
        /\ UNCHANGED terms

TripNext == \E qty \in Lots : Fill("buy", qty) \/ Fill("sell", qty)

TripSpec == TripInit /\ [][TripNext]_tripVars

-----------------------------------------------------------------------------
(* Properties.                                                             *)

\* The position of the paper account keeps a quantity and a basis that are not
\* negative, however its fills round.
TripTypeOK ==
    /\ holding.amount \in Nat /\ holding.basis \in Nat /\ holding.fees \in Nat /\ holding.realized \in Int
    /\ earned \in Int
    /\ Len(legs) \in 0 .. MaxFills

\* At an unchanged mark a flat account has gained nothing but rounding: at most
\* half a unit for each fill, however the position was split.
RoundTripGainsOnlyDust ==
    holding.amount = 0 => 2 * earned <= Len(legs)

\* Realized PnL and cash tell the same story when the account is flat, to the
\* unit: no basis is leaked or released twice by partial sales.
RealizedIsCash == holding.amount = 0 => holding.realized = earned

\* The basis left behind a partial sale is its share of the basis before it, to
\* the nearest unit (decimal.go MulDiv: one rounding step).
ReleaseIsNearest ==
    \A i \in DOMAIN legs :
       LET f == legs[i]
           exact == f.from.basis * f.qty
       IN  f.side = "sell" =>
              /\ 2 * Abs(f.released * f.from.amount - exact) <= f.from.amount
              /\ 2 * (f.released * f.from.amount - exact) > -f.from.amount

\* A round trip at an unchanged mark is fair (CostedPaperFill, applyPosition).
RoundTripIsFair ==
    TripTypeOK /\ RoundTripGainsOnlyDust /\ RealizedIsCash /\ ReleaseIsNearest
=============================================================================
