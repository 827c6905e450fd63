--------------------------- MODULE MCLedgerUpgrade ---------------------------
(* An upgraded account: one legacy position open, one closed, two operators  *)
(* that may apply the opening backfill concurrently.                         *)
EXTENDS Ledger, TLC

CONSTANTS Held, Gone       \* the legacy symbols

LegacyQuantity == 3

LegacyHoldings == [s \in Symbols |-> IF s = Held THEN LegacyQuantity ELSE 0]

Interchangeable == Permutations(Keys) \cup Permutations(Backfillers)
=============================================================================
