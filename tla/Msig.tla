-------------------------------- MODULE Msig --------------------------------
(***************************************************************************)
(* The eosio.msig contract (contracts/eosio.msig/src/eosio.msig.cpp): its  *)
(* three tables (proposals, approvals, invalidations), the older approvals *)
(* table an upgraded chain may still hold rows in, and one action of the   *)
(* module for each action of the contract.                                 *)
(*                                                                         *)
(* An action of the contract is atomic: a failed check reverts it, which   *)
(* is a step that does not happen.  What interleaves are the actions of    *)
(* different accounts, the clock, and changes of the authority that the    *)
(* proposed transaction has to satisfy.                                    *)
(***************************************************************************)
EXTENDS Integers, Sequences

CONSTANTS
    Accounts,     \* accounts
    Proposers,    \* the accounts among them that propose
    Names,        \* proposal names
    Levels,       \* permission levels actor@permission
    ActorOf,      \* the actor of each permission level
    Trxs,         \* transactions that can be proposed
    Requests,     \* lists of requested levels a proposer may give: how often each is listed
    Hashes,       \* proposal_hash arguments an approver may give
    Authorities,  \* the families of level sets the transaction may require
    MaxTime,      \* bound on the clock, in half-second block slots
    MaxSent,      \* bound on the executions of one proposal name
    NoRow,        \* absence of a row in a table
    NoHash        \* absence of the proposal_hash argument

\* A transaction header: expiration and delay_sec are in seconds; cfa says
\* whether the transaction carries context-free actions.
TrxHeader == [id : Nat, expiration : Nat, delay_sec : Nat, cfa : BOOLEAN]

ASSUME ConstantsAssumption ==
    /\ Proposers \subseteq Accounts
    /\ ActorOf \in [Levels -> Accounts]
    /\ \A t \in Trxs : t \in TrxHeader
    /\ \A F \in Authorities : F \subseteq SUBSET Levels
    /\ Requests \subseteq [Levels -> Nat]
    /\ Hashes \subseteq Trxs \cup {NoHash}
    /\ MaxTime \in Nat /\ MaxSent \in Nat
    /\ NoHash \notin TrxHeader

Keys == Proposers \X Names

\* Values of binary_extension<optional<time_point>> earliest_exec_time: no
\* extension (row of an older contract version), no value, or a time.
Absent == -2
Null   == -1

ProposalRow == [trx : Trxs, earliest_exec_time : {Absent, Null} \cup Nat]
\* approvals_info.  Both vectors may hold a level several times: propose takes the list as it is.
\* requested is how often each level is in requested_approvals, whose times nothing reads;
\* provided has, for each level, the times of its entries in provided_approvals, in their order.
\* How entries of different levels lie between each other is not observed.
ApprovalsRow == [requested : [Levels -> Nat], provided : [Levels -> Seq(Nat)]]
\* old_approvals_info: without times, how often each level is in either vector.
OldRow       == [requested : [Levels -> Nat], provided : [Levels -> Nat]]

ASSUME NoRowAssumption ==
    NoRow \notin ProposalRow /\ NoRow \notin ApprovalsRow /\ NoRow \notin OldRow

VARIABLES
    now,            \* block time, in half-second slots
    authority,      \* the sets of levels that satisfy the transaction
    proposals,      \* table proposals
    approvals,      \* table approvals2
    old_approvals,  \* table approvals
    invalidations,  \* table invals: last invalidation of an account, or Null
    sent,           \* transactions whose actions were sent, per proposal
    consent,        \* history: what each level has said of the present proposal
    authTimes       \* history: when the present proposal was authorised

tables == <<proposals, approvals, old_approvals, invalidations>>
vars   == <<now, authority, tables, sent, consent, authTimes>>

\* time_point_sec(current_time_point()) drops the half second.
NowSec == now \div 2

-----------------------------------------------------------------------------
\* An approval counts if its actor never invalidated, or did so strictly
\* before the approval.  Block time is coarse: both may bear the same time.
StillCountsOnTie(level, time) ==  \* mutant: an invalidation in the same block is lost
    LET last == invalidations[ActorOf[level]] IN last = Null \/ last <= time
StillCounts(level, time) ==
    LET last == invalidations[ActorOf[level]] IN last = Null \/ last < time

\* get_approvals_and_adjust_table without its table_op: the levels with an
\* approval that still counts.  The new table compares times; the old one has
\* none, so that any invalidation of the actor discards its approvals.
GetApprovals(k) ==
    IF approvals[k] # NoRow
    THEN { l \in Levels : LET given == approvals[k].provided[l]
                          IN  \E i \in DOMAIN given : StillCounts(l, given[i]) }
    ELSE { l \in Levels : old_approvals[k].provided[l] > 0 /\ invalidations[ActorOf[l]] = Null }

\* trx_is_authorized: check_transaction_authorization on these levels.
TrxIsAuthorized(levels) == levels \in authority

\* History: what a level has said of the present proposal.  held is the number of approvals it
\* gave and has not taken back; fresh says that it approved since the last invalidation of its
\* actor; hash is the proposal_hash of its last approval.
Consent == [held : Nat, fresh : BOOLEAN, hash : Trxs \cup {NoHash}]
Silent  == [held |-> 0, fresh |-> FALSE, hash |-> NoHash]
NoConsent == [l \in Levels |-> Silent]

Init ==
    /\ now = 0
    /\ authority \in Authorities
    /\ invalidations = [a \in Accounts |-> Null]
    /\ sent = [k \in Keys |-> 0]
    \* The chain may have been upgraded with proposals of older versions.
    /\ \E legacy \in SUBSET Keys, reqs \in Requests, t \in Trxs :
         /\ ~t.cfa
         /\ proposals = [k \in Keys |->
              IF k \in legacy THEN [trx |-> t, earliest_exec_time |-> Absent]
                              ELSE NoRow]
         /\ \E new \in SUBSET legacy :
              /\ approvals = [k \in Keys |->
                   IF k \in new THEN [requested |-> reqs, provided |-> [l \in Levels |-> <<>>]]
                                ELSE NoRow]
              /\ old_approvals = [k \in Keys |->
                   IF k \in legacy \ new
                   THEN [requested |-> reqs, provided |-> [l \in Levels |-> 0]] ELSE NoRow]
    /\ consent = [k \in Keys |-> NoConsent]
    /\ authTimes = [k \in Keys |-> {}]

\* History: the times at which the present proposal was authorised by the
\* approvals that count, since the last unapprove, of a proposal in withdrawn,
\* that left it without authorisation.
RecordAuthTimes(withdrawn) ==
    authTimes' = [k \in Keys |->
        IF proposals'[k] = NoRow THEN {}
        ELSE IF TrxIsAuthorized(GetApprovals(k))' THEN authTimes[k] \cup {now'}
        ELSE IF k \in withdrawn THEN {} ELSE authTimes[k]]

-----------------------------------------------------------------------------
\* propose: the transaction must not be expired, must carry no context-free
\* action and must be authorised by all the requested levels together.
\* Emplacing the approvals row fails if one with that key is left over.  A
\* level that is listed twice is requested twice.
Propose(k, trx, requested) ==
    /\ trx.expiration >= NowSec
    /\ ~trx.cfa
    /\ proposals[k] = NoRow
    /\ TrxIsAuthorized({ l \in Levels : requested[l] > 0 })
    /\ approvals[k] = NoRow
    /\ proposals' = [proposals EXCEPT ![k] =
                       [trx |-> trx, earliest_exec_time |-> Null]]
    /\ approvals' = [approvals EXCEPT ![k] =
                       [requested |-> requested, provided |-> [l \in Levels |-> <<>>]]]
    /\ consent' = [consent EXCEPT ![k] = NoConsent]
    /\ UNCHANGED <<now, authority, old_approvals, invalidations, sent>>
    /\ RecordAuthTimes({})

\* The part of approve that moves one entry of level from requested to provided.
MoveToProvided(k, level) ==
    IF approvals[k] # NoRow
    THEN /\ approvals[k].requested[level] > 0
         /\ approvals' = [approvals EXCEPT ![k] =
              [requested |-> [approvals[k].requested EXCEPT ![level] = @ - 1],
               provided  |-> [approvals[k].provided EXCEPT ![level] = Append(@, now)]]]
         /\ UNCHANGED old_approvals
    ELSE /\ old_approvals[k] # NoRow
         /\ old_approvals[k].requested[level] > 0
         /\ old_approvals' = [old_approvals EXCEPT ![k] =
              [requested |-> [old_approvals[k].requested EXCEPT ![level] = @ - 1],
               provided  |-> [old_approvals[k].provided EXCEPT ![level] = @ + 1]]]
         /\ UNCHANGED approvals

\* The part of approve after the move: the first approval that makes the
\* transaction authorised starts its delay.  An old proposal has no place for
\* the time and is refused when its transaction has a delay.
StartDelay(k) ==
    LET prop == proposals[k] IN
    \/ /\ prop.earliest_exec_time = Absent
       /\ prop.trx.delay_sec = 0
       /\ UNCHANGED proposals
    \/ /\ prop.earliest_exec_time = Null
       /\ proposals' = IF TrxIsAuthorized(GetApprovals(k)')
                       THEN [proposals EXCEPT ![k].earliest_exec_time =
                               now + 2 * prop.trx.delay_sec]
                       ELSE proposals
    \/ /\ prop.earliest_exec_time >= 0
       /\ UNCHANGED proposals

\* approve: with a proposal_hash, only of the transaction that has that hash.
Approve(k, level, hash) ==
    /\ proposals[k] # NoRow
    /\ hash \in {NoHash, proposals[k].trx}
    /\ MoveToProvided(k, level)
    /\ UNCHANGED <<now, authority, invalidations, sent>>
    /\ StartDelay(k)
    /\ consent' = [consent EXCEPT ![k][level] =
                     [held |-> @.held + 1, fresh |-> TRUE, hash |-> hash]]
    /\ RecordAuthTimes({})

\* The part of unapprove that moves the first entry of level back to requested.
MoveToRequested(k, level) ==
    IF approvals[k] # NoRow
    THEN /\ approvals[k].provided[level] # <<>>
         /\ approvals' = [approvals EXCEPT ![k] =
              [requested |-> [approvals[k].requested EXCEPT ![level] = @ + 1],
               provided  |-> [approvals[k].provided EXCEPT ![level] = Tail(@)]]]
         /\ UNCHANGED old_approvals
    ELSE /\ old_approvals[k] # NoRow
         /\ old_approvals[k].provided[level] > 0
         /\ old_approvals' = [old_approvals EXCEPT ![k] =
              [requested |-> [old_approvals[k].requested EXCEPT ![level] = @ + 1],
               provided  |-> [old_approvals[k].provided EXCEPT ![level] = @ - 1]]]
         /\ UNCHANGED approvals

\* mutant: the delay runs on
KeepsDelay(k) == UNCHANGED proposals
\* The part of unapprove after the move: the delay is forgotten when the
\* remaining approvals no longer authorise the transaction.
StopDelay(k) ==
    LET prop == proposals[k] IN
    \/ /\ prop.earliest_exec_time = Absent
       /\ prop.trx.delay_sec = 0
       /\ UNCHANGED proposals
    \/ /\ prop.earliest_exec_time = Null
       /\ UNCHANGED proposals
    \/ /\ prop.earliest_exec_time >= 0
       /\ proposals' = IF TrxIsAuthorized(GetApprovals(k)')
                       THEN proposals
                       ELSE [proposals EXCEPT ![k].earliest_exec_time = Null]

Unapprove(k, level) ==
    /\ MoveToRequested(k, level)
    /\ proposals[k] # NoRow
    /\ UNCHANGED <<now, authority, invalidations, sent>>
    /\ StopDelay(k)
    /\ consent' = [consent EXCEPT ![k][level].held = @ - 1]
    /\ RecordAuthTimes({k})

\* Erase the row of k from whichever approvals table holds it; the contract
\* looks into the old table only when the new one has no row.
EraseApprovals(k) ==
    IF approvals[k] # NoRow
    THEN /\ approvals' = [approvals EXCEPT ![k] = NoRow]
         /\ UNCHANGED old_approvals
    ELSE /\ old_approvals[k] # NoRow
         /\ old_approvals' = [old_approvals EXCEPT ![k] = NoRow]
         /\ UNCHANGED approvals

\* cancel: anyone once the transaction has expired, before that the proposer.
Cancel(k, canceler) ==
    /\ proposals[k] # NoRow
    /\ canceler = k[1] \/ proposals[k].trx.expiration < NowSec
    /\ proposals' = [proposals EXCEPT ![k] = NoRow]
    /\ EraseApprovals(k)
    /\ consent' = [consent EXCEPT ![k] = NoConsent]
    /\ UNCHANGED <<now, authority, invalidations, sent>>
    /\ RecordAuthTimes({})

\* The delay of the transaction has elapsed; one that has none may not need
\* to have been started.
DelayElapsed(prop) ==
    IF prop.earliest_exec_time >= 0
    THEN prop.earliest_exec_time <= now
    ELSE prop.trx.delay_sec = 0

\* exec: the approvals that still count must authorise the transaction now,
\* and its delay must have elapsed.
Exec(k) ==
    /\ proposals[k] # NoRow
    /\ LET prop == proposals[k] IN
         /\ prop.trx.expiration >= NowSec
         /\ ~prop.trx.cfa
         /\ EraseApprovals(k)
         /\ TrxIsAuthorized(GetApprovals(k))
         /\ DelayElapsed(prop)
    /\ sent[k] < MaxSent
    /\ sent' = [sent EXCEPT ![k] = @ + 1]
    /\ proposals' = [proposals EXCEPT ![k] = NoRow]
    /\ consent' = [consent EXCEPT ![k] = NoConsent]
    /\ UNCHANGED <<now, authority, invalidations>>
    /\ RecordAuthTimes({})

\* invalidate: account withdraws every approval it has given so far.
Invalidate(account) ==
    /\ invalidations' = [invalidations EXCEPT ![account] = now]
    /\ consent' = [k \in Keys |-> [l \in Levels |->
                     IF ActorOf[l] = account THEN [consent[k][l] EXCEPT !.fresh = FALSE]
                     ELSE consent[k][l]]]
    /\ UNCHANGED <<now, authority, proposals, approvals, old_approvals, sent>>
    /\ RecordAuthTimes({})

\* Environment: a block is produced; the accounts named in the transaction
\* change their keys, weights or thresholds (updateauth).
NextBlock ==
    /\ now < MaxTime
    /\ now' = now + 1
    /\ UNCHANGED <<authority, tables, sent, consent>>
    /\ RecordAuthTimes({})

UpdateAuth(F) ==
    /\ authority' = F
    /\ UNCHANGED <<now, tables, sent, consent>>
    /\ RecordAuthTimes({})

Next ==
    \/ \E k \in Keys :
         \/ \E t \in Trxs, R \in Requests : Propose(k, t, R)
         \/ \E l \in Levels :
              \/ \E h \in Hashes : Approve(k, l, h)
              \/ Unapprove(k, l)
         \/ \E c \in Accounts : Cancel(k, c)
         \/ Exec(k)
    \/ \E a \in Accounts : Invalidate(a)
    \/ NextBlock
    \/ \E F \in Authorities : UpdateAuth(F)

Spec == Init /\ [][Next]_vars

-----------------------------------------------------------------------------
\* Type of the tables and of the histories.
TypeOK ==
    /\ now \in 0..MaxTime
    /\ authority \in Authorities
    /\ proposals \in [Keys -> ProposalRow \cup {NoRow}]
    /\ approvals \in [Keys -> ApprovalsRow \cup {NoRow}]
    /\ old_approvals \in [Keys -> OldRow \cup {NoRow}]
    /\ invalidations \in [Accounts -> {Null} \cup (0..MaxTime)]
    /\ sent \in [Keys -> 0..MaxSent]
    /\ consent \in [Keys -> [Levels -> Consent]]
    /\ authTimes \in [Keys -> SUBSET (0..MaxTime)]

\* The levels that agree to the present proposal of k: they approved it since the last
\* invalidation of their actor, and hold an approval they have not taken back by unapprove.
Consenting(k) == { l \in Levels : consent[k][l].held > 0 /\ consent[k][l].fresh }

\* exec and approve never count a level whose approvals were all taken back by unapprove, whose
\* actor invalidated them after the last one, or that approved an earlier proposal of the same
\* name only, even when these happen within one block.  (A level that the proposer listed twice
\* may approve twice, and counts until it has unapproved twice.)  A proposal has its approvals
\* in exactly one of the two approvals tables, and none outlive it: cancel and exec erase them,
\* whichever version of the contract wrote them.
CountedApprovalsAreCurrent ==
    \A k \in Keys :
        /\ proposals[k] # NoRow => GetApprovals(k) \subseteq Consenting(k)
        /\ proposals[k] # NoRow <=> (approvals[k] # NoRow \/ old_approvals[k] # NoRow)
        /\ approvals[k] = NoRow \/ old_approvals[k] = NoRow

\* A step that sends the actions of a proposal does so with the consent of levels that satisfy
\* the transaction's authority as it is now, each to this transaction if its last approval came
\* with a proposal_hash, also when the proposer cancels and proposes another under the same name.
\* A delay has passed since a moment at which the proposal was authorised, later than any
\* unapprove that left it without authorisation.  (An invalidation or an updateauth may have done
\* so since: they leave earliest_exec_time alone.)
ExecutionIsConsented ==
    [][\A k \in Keys : sent'[k] # sent[k] =>
          /\ \E S \in authority :
               \A l \in S : l \in Consenting(k) /\ consent[k][l].hash \in {NoHash, proposals[k].trx}
          /\ \/ proposals[k].trx.delay_sec = 0
             \/ \E t \in authTimes[k] :
                  t + 2 * proposals[k].trx.delay_sec <= now]_vars
=============================================================================
