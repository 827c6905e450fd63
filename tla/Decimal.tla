------------------------------- MODULE Decimal -------------------------------
(***************************************************************************)
(* Exact fixed-scale arithmetic of internal/accounting/decimal.go.  A      *)
(* Decimal is a big.Int counting units of 10^-Scale, so it is an integer   *)
(* here and Factor stands for 10^Scale.  Addition, subtraction, negation   *)
(* and comparison are those of the integers; the three operations that     *)
(* round go through roundQuotient.                                         *)
(***************************************************************************)
EXTENDS Integers

CONSTANT Factor      \* decimal.go: factor = 10^Scale

ASSUME FactorAssumption == Factor \in Nat \ {0}

Sign(n) == IF n > 0 THEN 1 ELSE IF n < 0 THEN -1 ELSE 0

Abs(n) == IF n < 0 THEN -n ELSE n

\* big.Int.QuoRem: the quotient is truncated toward zero.
Quo(n, d) == Sign(n) * Sign(d) * (Abs(n) \div Abs(d))

Rem(n, d) == n - d * Quo(n, d)

\* Nearest integer to n/d, halves away from zero.
roundQuotient(n, d) ==
    IF 2 * Abs(Rem(n, d)) < Abs(d) THEN Quo(n, d)
    ELSE IF Sign(n) * Sign(d) >= 0 THEN Quo(n, d) + 1
    ELSE Quo(n, d) - 1

Mul(a, b) == roundQuotient(a * b, Factor)

Div(a, b) == roundQuotient(a * Factor, b)      \* b # 0 at every caller

MulDiv(a, m, d) == roundQuotient(a * m, d)     \* d # 0 at every caller

-----------------------------------------------------------------------------
\* service.go CostedPaperFill: the configured basis points of slippage move
\* the price against the trader, the fee is charged on the slipped gross.
BPS == 10000 * Factor

\* Mutant: slippage moves the price in the trader's favour.
CostMultiplierSwapped(side, slippageBPS) ==
    LET slip == Div(slippageBPS * Factor, BPS)
    IN  IF side = "sell" THEN Factor + slip ELSE Factor - slip

CostMultiplier(side, slippageBPS) ==
    LET slip == Div(slippageBPS * Factor, BPS)
    IN  IF side = "sell" THEN Factor - slip ELSE Factor + slip

CostedPaperPrice(side, requested, slippageBPS) ==
    Mul(requested, CostMultiplier(side, slippageBPS))

CostedPaperFee(quantity, fillPrice, feeBPS) ==
    Mul(Mul(quantity, fillPrice), Div(feeBPS * Factor, BPS))
=============================================================================
