----------------------------- MODULE MCRotation -----------------------------
(* Instance of Rotation for TLC: two places in the schedule, two standbys. *)
EXTENDS Rotation
CONSTANTS p1, p2, p3, p4
MCProducers == {p1, p2, p3, p4}
MCLocation == (p1 :> 1) @@ (p2 :> 3) @@ (p3 :> 2) @@ (p4 :> 2)
\* Bound: p1 keeps one of the two places and only p2 may take the first one from it; below it the
\* three others come, go and pass each other.
Led(r) == r # <<>> /\ (Head(r) = p1 \/ (Head(r) = p2 /\ Len(r) > 1 /\ r[2] = p1))
\* The fairness of the blocks without ENABLED, which TLC is slow to evaluate here: the next block
\* changes something in every state of BlockMatters, so that Spec assumes at least as much.
BlockMatters == ~Due \/ ~UpdateDue \/ CanElect(Candidates(ranking))
MCSpec == /\ Init /\ Led(ranking) /\ [][Next /\ Led(ranking')]_vars
          /\ <>[]BlockMatters => []<><<OnBlockElects \/ OnBlockWaits>>_vars
          /\ WF_vars(Activate)
=============================================================================
