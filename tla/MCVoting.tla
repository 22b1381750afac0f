------------------------------ MODULE MCVoting ------------------------------
(* Instances of Voting for TLC.                                            *)
EXTENDS Voting

\* Two producers double the weight of a vote and more.
MCFactor == [n \in 0..2 |-> IF n = 2 THEN 3 ELSE n]

\* Bound: how far the total of a producer that is amiss may be off, which grows without end.
CONSTANT MaxOff
OffBounded == \A p \in Producers : total_votes[p] - Cast(p) - OnEvm(p) \in -MaxOff..MaxOff

\* Bound: the decay begins at one of the multipliers.
CONSTANT FirstDecay
MCInit == Init /\ decay = FirstDecay
MCSpec == MCInit /\ [][Next]_vars
=============================================================================
