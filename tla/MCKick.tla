------------------------------- MODULE MCKick -------------------------------
EXTENDS Kick
CONSTANTS p1, p2, p3
MCProducers == {p1, p2, p3}
MCRanking == <<p1, p2, p3>>
MCLocation == (p1 :> 1) @@ (p2 :> 3) @@ (p3 :> 2)
=============================================================================
