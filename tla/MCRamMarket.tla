----------------------------- MODULE MCRamMarket -----------------------------
(***************************************************************************)
(* Small instances of RamMarket.                                           *)
(***************************************************************************)
EXTENDS RamMarket, TLC

AccountSymmetry == Permutations(Accounts)
=============================================================================
