---------------------------- MODULE MCContracts ----------------------------
(***************************************************************************)
(* Small instances of the two contracts beside the system contract, in one *)
(* run.  They share no table, so that a behaviour of one says nothing      *)
(* about the other: one of them acts while the other rests.                *)
(*                                                                         *)
(* eosio.msig: one proposal name, three levels of two actors (alice has    *)
(* two permissions), one of which is listed twice, transactions with and   *)
(* without a delay, and a requirement of two or of all three levels.       *)
(* eosio.token: two codes, two accounts, two precisions.                   *)
(***************************************************************************)
EXTENDS Msig, Token, TLC

CONSTANTS alice, bob, aliceActive, aliceOps, bobActive

MCActorOf == [l \in Levels |-> IF l = bobActive THEN bob ELSE alice]

MCTrxs == { [id |-> 1, expiration |-> 0, delay_sec |-> 0, cfa |-> FALSE],
            [id |-> 2, expiration |-> 1, delay_sec |-> 1, cfa |-> FALSE],
            [id |-> 3, expiration |-> 2, delay_sec |-> 0, cfa |-> TRUE] }

\* One level of alice is listed twice, the others once.
MCRequests == { [l \in Levels |-> IF l = twice THEN 2 ELSE 1] : twice \in {aliceActive, aliceOps} }
\* An approver may insist on the transaction that has a delay.
MCHashes == { t \in MCTrxs : t.delay_sec > 0 } \cup {NoHash}

AtLeast(n) == { S \in SUBSET Levels : Cardinality(S) >= n }
MCAuthorities == { AtLeast(2), AtLeast(3) }

\* The two permissions of alice are interchangeable.
Symmetry == Permutations({aliceActive, aliceOps})

VARIABLE acting   \* the contract that acts

MsigRests  == authority = AtLeast(2) /\ \A k \in Keys : proposals[k] = NoRow
TokenRests == \A c \in Codes : precision[c] = 0 /\ issuer[c] = CHOOSE a \in Owners : TRUE

MCInit ==
    /\ Init /\ TokenInit
    /\ \/ acting = "eosio.msig" /\ TokenRests
       \/ acting = "eosio.token" /\ MsigRests

MCNext ==
    /\ \/ acting = "eosio.msig" /\ Next /\ UNCHANGED tokenVars
       \/ acting = "eosio.token" /\ TokenNext /\ UNCHANGED vars
    /\ UNCHANGED acting

MCSpec == MCInit /\ [][MCNext]_<<vars, tokenVars, acting>>
=============================================================================
