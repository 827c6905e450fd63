------------------------------- MODULE Position -------------------------------
(***************************************************************************)
(* The arithmetic of one position row: internal/ledger/service.go          *)
(* applyPosition.  A row is [status, exact, amount, basis, realized, fees] *)
(* and a fill command c has a side, a quantity and a fee.                  *)
(***************************************************************************)
EXTENDS Decimal

\* A closed row starts its next lifecycle from zero quantity and basis.
CarriedOver(p) == [amount |-> IF p.status = "open" THEN p.amount ELSE 0,
                   basis  |-> IF p.status = "open" THEN p.basis ELSE 0,
                   realized |-> p.realized, fees |-> p.fees]

CanBuy(p) == p.status = "absent" \/ p.exact

\* Mutant: the quantity held is not compared.
CanOversell(p, qty) == p.status = "open" /\ p.exact

CanSell(p, qty) == p.status = "open" /\ p.exact /\ qty <= p.amount

\* What applyPosition returns: the row it saves, the fill's realized PnL (gross
\* of its fee) and the change of cost basis.
Bought(p, c, gross) ==
    LET old == CarriedOver(p)
    IN  [row |-> [status |-> "open", exact |-> TRUE,
                  amount |-> old.amount + c.qty, basis |-> old.basis + gross,
                  realized |-> old.realized - c.fee, fees |-> old.fees + c.fee],
         realized |-> 0,
         basisDelta |-> gross]

\* Mutant: the row keeps the basis the event releases.
SoldKeepingBasis(p, c, gross) ==
    LET released == MulDiv(p.basis, c.qty, p.amount)
    IN  [row |-> [status |-> IF p.amount = c.qty THEN "closed" ELSE "open", exact |-> TRUE,
                  amount |-> p.amount - c.qty, basis |-> p.basis,
                  realized |-> p.realized + (gross - released - c.fee),
                  fees |-> p.fees + c.fee],
         realized |-> gross - released,
         basisDelta |-> -released]

Sold(p, c, gross) ==
    LET released == MulDiv(p.basis, c.qty, p.amount)
    IN  [row |-> [status |-> IF p.amount = c.qty THEN "closed" ELSE "open", exact |-> TRUE,
                  amount |-> p.amount - c.qty, basis |-> p.basis - released,
                  realized |-> p.realized + (gross - released - c.fee),
                  fees |-> p.fees + c.fee],
         realized |-> gross - released,
         basisDelta |-> -released]

applyPosition(p, c, gross) ==
    IF c.side = "buy" THEN Bought(p, c, gross) ELSE Sold(p, c, gross)
===============================================================================
