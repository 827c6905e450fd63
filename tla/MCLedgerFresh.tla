---------------------------- MODULE MCLedgerFresh ----------------------------
(* A ledger without legacy positions: fresh install, or an upgrade whose     *)
(* wallet is the only legacy state.                                          *)
EXTENDS Ledger, TLC

NoLegacyOpen == [s \in Symbols |-> 0]

KeySymmetry == Permutations(Keys)
=============================================================================
