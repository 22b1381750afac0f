----------------------------- MODULE MCNameBid -----------------------------
(* Instances of NameBid for TLC.                                           *)
EXTENDS NameBid
=============================================================================
