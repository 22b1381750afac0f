--------------------------- MODULE ContractProofs ---------------------------
(***************************************************************************)
(* Proofs about the two contracts beside the system contract.              *)
(*                                                                         *)
(* eosio.msig, for any accounts, levels, transactions, authorities and any *)
(* number of proposals: the approvals that count are those that were given *)
(* and not withdrawn, and nothing is executed without them.                *)
(*                                                                         *)
(* eosio.token, for any accounts, codes, precisions and amounts.           *)
(***************************************************************************)
EXTENDS Msig, Token, SumTheorems, SequenceTheorems

\* No approval bears a time to come: an invalidation of now outdates them all.
TimesPast(k) ==
    approvals[k] # NoRow =>
        \A l \in Levels : \A i \in DOMAIN approvals[k].provided[l] : approvals[k].provided[l][i] <= now

\* A level has as many approvals in the row as it gave and has not taken back.
HeldIsProvided(k) ==
    proposals[k] # NoRow =>
        \A l \in Levels : consent[k][l].held = IF approvals[k] # NoRow THEN Len(approvals[k].provided[l])
                                               ELSE old_approvals[k].provided[l]

\* A level that counts approved after the last invalidation of its actor.
CountedIsFresh(k) == proposals[k] # NoRow => \A l \in GetApprovals(k) : consent[k][l].fresh

\* Consent is to a proposal that exists, and to its transaction where a hash says so.
ConsentIsToProposal(k) ==
    \A l \in Levels : consent[k][l].held > 0 =>
        proposals[k] # NoRow /\ consent[k][l].hash \in {NoHash, proposals[k].trx}

\* A delay that runs was started when the proposal was authorised.
DelayWasStarted(k) ==
    (proposals[k] # NoRow /\ proposals[k].earliest_exec_time >= 0) =>
        \E t \in authTimes[k] : t + 2 * proposals[k].trx.delay_sec = proposals[k].earliest_exec_time

\* The approvals of a proposal are held in one table.
OneTable(k) ==
    /\ proposals[k] # NoRow <=> (approvals[k] # NoRow \/ old_approvals[k] # NoRow)
    /\ approvals[k] = NoRow \/ old_approvals[k] = NoRow

KeyInv(k) == /\ OneTable(k) /\ TimesPast(k) /\ HeldIsProvided(k) /\ CountedIsFresh(k)
             /\ ConsentIsToProposal(k) /\ DelayWasStarted(k)

\* The inductive invariant.
IInv == TypeOK /\ \A k \in Keys : KeyInv(k)

-----------------------------------------------------------------------------
(* Facts the actions share.                                                *)

\* Rows are told apart from their absence.
LEMMA RowsArePresent ==
  /\ \A r \in ProposalRow : r # NoRow
  /\ \A r \in ApprovalsRow : r # NoRow
  /\ \A r \in OldRow : r # NoRow
BY NoRowAssumption

\* The history of authorisations keeps what it has while the proposal exists and no unapprove
\* leaves it without authorisation, and gains the present moment when the approvals that count
\* satisfy the authority.
LEMMA AuthTimesGrow ==
  ASSUME NEW W, RecordAuthTimes(W), NEW k \in Keys
  PROVE  /\ proposals'[k] = NoRow => authTimes'[k] = {}
         /\ (proposals'[k] # NoRow /\ k \notin W) => authTimes[k] \subseteq authTimes'[k]
         /\ (proposals'[k] # NoRow /\ GetApprovals(k)' \in authority') =>
                now' \in authTimes'[k] /\ authTimes[k] \subseteq authTimes'[k]
BY DEF RecordAuthTimes, TrxIsAuthorized

\* It holds times of the chain only.
LEMMA AuthTimesType ==
  ASSUME NEW W, authTimes \in [Keys -> SUBSET (0..MaxTime)], now' \in 0..MaxTime, RecordAuthTimes(W)
  PROVE  authTimes' \in [Keys -> SUBSET (0..MaxTime)]
BY DEF RecordAuthTimes

\* What a step that leaves the rows and the consent of k and the invalidations alone keeps.
LEMMA KeyUntouched ==
  ASSUME IInv, NEW k \in Keys, NEW W, RecordAuthTimes(W), k \notin W, now' \in Nat, now <= now',
         proposals'[k] = proposals[k], approvals'[k] = approvals[k],
         old_approvals'[k] = old_approvals[k], consent'[k] = consent[k],
         invalidations' = invalidations
  PROVE  KeyInv(k)'
<1>1. KeyInv(k) /\ TypeOK
  BY DEF IInv
<1>2. GetApprovals(k)' = GetApprovals(k)
  BY DEF GetApprovals, StillCounts
<1>3. OneTable(k)' /\ HeldIsProvided(k)' /\ CountedIsFresh(k)' /\ ConsentIsToProposal(k)'
  BY <1>1, <1>2 DEF KeyInv, OneTable, HeldIsProvided, CountedIsFresh, ConsentIsToProposal
<1>4. TimesPast(k)'
  <2> SUFFICES ASSUME approvals'[k] # NoRow, NEW l \in Levels, NEW i \in DOMAIN approvals'[k].provided[l]
               PROVE  approvals'[k].provided[l][i] <= now'
    BY DEF TimesPast
  <2>1. approvals[k] \in ApprovalsRow
    BY <1>1 DEF TypeOK
  <2>2. approvals[k].provided[l] \in Seq(Nat)
    BY <2>1 DEF ApprovalsRow
  <2>3. approvals[k].provided[l][i] \in Nat
    BY <2>2
  <2>4. approvals[k].provided[l][i] <= now
    BY <1>1 DEF KeyInv, TimesPast
  <2> QED
    BY <1>1, <2>3, <2>4 DEF TypeOK
<1>6. DelayWasStarted(k)'
  BY <1>1, AuthTimesGrow DEF KeyInv, DelayWasStarted
<1> QED
  BY <1>3, <1>4, <1>6 DEF KeyInv

\* What is said of every key follows when a step touches the rows of one key only and the
\* others are as KeyUntouched wants them.
LEMMA OneKeyTouched ==
  ASSUME IInv, NEW k \in Keys, NEW W, RecordAuthTimes(W), W \subseteq {k},
         UNCHANGED <<now, invalidations>>, KeyInv(k)',
         \A j \in Keys \ {k} : /\ proposals'[j] = proposals[j] /\ approvals'[j] = approvals[j]
                               /\ old_approvals'[j] = old_approvals[j] /\ consent'[j] = consent[j]
  PROVE  \A j \in Keys : KeyInv(j)'
<1> SUFFICES ASSUME NEW j \in Keys, j # k PROVE KeyInv(j)'
  OBVIOUS
<1>1. now' \in Nat /\ now <= now' /\ j \notin W
  BY DEF IInv, TypeOK
<1> QED
  BY <1>1, KeyUntouched

\* No consent is of its type, and holds nothing.
LEMMA NothingSaid ==
  /\ NoConsent \in [Levels -> Consent]
  /\ \A l \in Levels : NoConsent[l].held = 0
BY ConstantsAssumption DEF NoConsent, Silent, Consent

\* A row without approvals: none counts.
LEMMA EmptyRow ==
  ASSUME NEW r, r = [l \in Levels |-> <<>>]
  PROVE  r \in [Levels -> Seq(Nat)] /\ \A l \in Levels : r[l] = <<>> /\ Len(r[l]) = 0 /\ DOMAIN r[l] = {}
BY EmptySeq

-----------------------------------------------------------------------------
(* The actions.                                                            *)

\* The contract as deployed, or as an upgrade finds it.
LEMMA InitIInv == Init => IInv
<1> SUFFICES ASSUME Init PROVE IInv
  OBVIOUS
<1>1. PICK legacy \in SUBSET Keys, reqs \in Requests, t \in Trxs :
         /\ ~t.cfa
         /\ proposals = [k \in Keys |->
              IF k \in legacy THEN [trx |-> t, earliest_exec_time |-> Absent] ELSE NoRow]
         /\ \E new \in SUBSET legacy :
              /\ approvals = [k \in Keys |->
                   IF k \in new THEN [requested |-> reqs, provided |-> [l \in Levels |-> <<>>]] ELSE NoRow]
              /\ old_approvals = [k \in Keys |->
                   IF k \in legacy \ new THEN [requested |-> reqs, provided |-> [l \in Levels |-> 0]] ELSE NoRow]
  BY Zenon DEF Init
<1>0. PICK new \in SUBSET legacy :
         /\ approvals = [k \in Keys |->
              IF k \in new THEN [requested |-> reqs, provided |-> [l \in Levels |-> <<>>]] ELSE NoRow]
         /\ old_approvals = [k \in Keys |->
              IF k \in legacy \ new THEN [requested |-> reqs, provided |-> [l \in Levels |-> 0]] ELSE NoRow]
  BY <1>1
<1> DEFINE none == [l \in Levels |-> <<>>]
           zero == [l \in Levels |-> 0]
<1>2. reqs \in [Levels -> Nat] /\ zero \in [Levels -> Nat] /\ none \in [Levels -> Seq(Nat)]
  BY ConstantsAssumption, EmptyRow
<1>3. /\ [trx |-> t, earliest_exec_time |-> Absent] \in ProposalRow
      /\ [requested |-> reqs, provided |-> none] \in ApprovalsRow
      /\ [requested |-> reqs, provided |-> zero] \in OldRow
  BY <1>2 DEF ProposalRow, ApprovalsRow, OldRow
<1>4. TypeOK
  <2>1. proposals \in [Keys -> ProposalRow \cup {NoRow}]
    BY <1>0, <1>1, <1>3
  <2>2. approvals \in [Keys -> ApprovalsRow \cup {NoRow}]
    BY <1>0, <1>1, <1>3
  <2>3. old_approvals \in [Keys -> OldRow \cup {NoRow}]
    BY <1>0, <1>1, <1>3
  <2>4. /\ now \in 0..MaxTime /\ sent \in [Keys -> 0..MaxSent]
        /\ invalidations \in [Accounts -> {Null} \cup (0..MaxTime)]
    BY ConstantsAssumption DEF Init
  <2>5. consent \in [Keys -> [Levels -> Consent]] /\ authTimes \in [Keys -> SUBSET (0..MaxTime)]
    BY NothingSaid DEF Init
  <2>6. authority \in Authorities
    BY DEF Init
  <2> QED
    BY <2>1, <2>2, <2>3, <2>4, <2>5, <2>6 DEF TypeOK
<1>5. ASSUME NEW k \in Keys PROVE KeyInv(k)
  <2>1. consent[k] = NoConsent
    BY DEF Init
  <2>2. (approvals[k] # NoRow <=> k \in new) /\ (k \in new => approvals[k].provided = none)
    BY <1>0, <1>1, <1>3, RowsArePresent
  <2>3. (old_approvals[k] # NoRow <=> k \in legacy \ new) /\ (k \in legacy \ new => old_approvals[k].provided = zero)
    BY <1>0, <1>1, <1>3, RowsArePresent
  <2>4. proposals[k] # NoRow <=> k \in legacy
    BY <1>0, <1>1, <1>3, RowsArePresent
  <2>5. \A l \in Levels : zero[l] = 0 /\ none[l] = <<>> /\ Len(none[l]) = 0 /\ DOMAIN none[l] = {}
    BY EmptyRow
  <2>6. OneTable(k)
    BY <2>2, <2>3, <2>4 DEF OneTable
  <2> HIDE DEF zero, none
  <2>7. TimesPast(k) /\ ConsentIsToProposal(k)
    BY <2>1, <2>2, <2>5, NothingSaid DEF TimesPast, ConsentIsToProposal
  <2>9. HeldIsProvided(k)
    BY <2>1, <2>2, <2>3, <2>4, <2>5, NothingSaid DEF HeldIsProvided
  <2>10. proposals[k] # NoRow => GetApprovals(k) = {}
    BY <2>2, <2>3, <2>4, <2>5 DEF GetApprovals
  <2>11. CountedIsFresh(k)
    BY <2>10 DEF CountedIsFresh
  <2>8. DelayWasStarted(k)
    <3>1. proposals[k] # NoRow => proposals[k].earliest_exec_time = Absent
      BY <1>1, <2>4
    <3> QED
      BY <3>1 DEF DelayWasStarted, Absent
  <2> QED
    BY <2>6, <2>7, <2>8, <2>9, <2>11 DEF KeyInv
<1> QED
  BY <1>4, <1>5 DEF IInv

\* propose starts with no approvals and no consent.
LEMMA ProposeIInv ==
  ASSUME IInv, NEW k \in Keys, NEW trx \in Trxs, NEW requested \in Requests,
         Propose(k, trx, requested)
  PROVE  IInv'
<1> DEFINE prow == [trx |-> trx, earliest_exec_time |-> Null]
           none == [l \in Levels |-> <<>>]
           arow == [requested |-> requested, provided |-> none]
<1>1. TypeOK /\ KeyInv(k)
  BY DEF IInv
<1>2. /\ proposals[k] = NoRow /\ approvals[k] = NoRow
      /\ proposals' = [proposals EXCEPT ![k] = prow]
      /\ approvals' = [approvals EXCEPT ![k] = arow]
      /\ consent' = [consent EXCEPT ![k] = NoConsent]
      /\ UNCHANGED <<now, authority, old_approvals, invalidations, sent>>
      /\ RecordAuthTimes({})
  BY DEF Propose
<1>0. /\ none \in [Levels -> Seq(Nat)]
      /\ \A l \in Levels : Len(none[l]) = 0 /\ DOMAIN none[l] = {}
  BY EmptyRow
<1> HIDE DEF none
<1>3. prow \in ProposalRow /\ arow \in ApprovalsRow
  BY <1>0, ConstantsAssumption DEF ProposalRow, ApprovalsRow
<1>4. /\ proposals'[k] = prow /\ approvals'[k] = arow /\ consent'[k] = NoConsent
      /\ arow.provided = none /\ prow.earliest_exec_time = Null
      /\ prow # NoRow /\ arow # NoRow
  BY <1>1, <1>2, <1>3, RowsArePresent DEF TypeOK
<1> HIDE DEF prow, arow
<1>5. TypeOK'
  <2>1. authTimes' \in [Keys -> SUBSET (0..MaxTime)]
    BY <1>1, <1>2, AuthTimesType DEF TypeOK
  <2> QED
    BY <1>1, <1>2, <1>3, <2>1, NothingSaid DEF TypeOK
<1>6. KeyInv(k)'
  <2>1. GetApprovals(k)' = {}
    BY <1>0, <1>4 DEF GetApprovals
  <2>2. old_approvals'[k] = NoRow
    BY <1>1, <1>2 DEF KeyInv, OneTable
  <2>3. OneTable(k)' /\ CountedIsFresh(k)'
    BY <1>4, <2>1, <2>2 DEF OneTable, CountedIsFresh
  <2>4. TimesPast(k)' /\ HeldIsProvided(k)'
    BY <1>0, <1>4, NothingSaid DEF TimesPast, HeldIsProvided
  <2>5. ConsentIsToProposal(k)' /\ DelayWasStarted(k)'
    BY <1>4, NothingSaid DEF ConsentIsToProposal, DelayWasStarted, Null
  <2> QED
    BY <2>3, <2>4, <2>5 DEF KeyInv
<1>7. \A j \in Keys : KeyInv(j)'
  BY <1>1, <1>2, <1>6, OneKeyTouched DEF TypeOK
<1> QED
  BY <1>5, <1>7 DEF IInv

\* approve may set the execution time of its proposal, to the present plus the delay, and only
\* if the approvals that count now satisfy the authority.
LEMMA StartDelayRow ==
  ASSUME TypeOK, NEW k \in Keys, proposals[k] # NoRow, StartDelay(k), UNCHANGED <<now, authority>>
  PROVE  /\ proposals' \in [Keys -> ProposalRow \cup {NoRow}] /\ proposals'[k] \in ProposalRow
         /\ proposals'[k].trx = proposals[k].trx
         /\ \A j \in Keys \ {k} : proposals'[j] = proposals[j]
         /\ \/ proposals'[k] = proposals[k]
            \/ /\ GetApprovals(k)' \in authority'
               /\ proposals'[k].earliest_exec_time = now' + 2 * proposals'[k].trx.delay_sec
<1> DEFINE prop == proposals[k]
           at   == now + 2 * prop.trx.delay_sec
<1>1. prop \in ProposalRow /\ proposals \in [Keys -> ProposalRow \cup {NoRow}] /\ now \in Nat
  BY DEF TypeOK
<1>2. prop.trx \in Trxs /\ prop.trx \in TrxHeader /\ prop.earliest_exec_time \in {Absent, Null} \cup Nat
  BY <1>1, ConstantsAssumption DEF ProposalRow
<1>3. at \in Nat
  BY <1>1, <1>2 DEF TrxHeader
<1> HIDE DEF at
<1>4. CASE proposals' = proposals
  BY <1>1, <1>4
<1>5. CASE proposals' = [proposals EXCEPT ![k].earliest_exec_time = at] /\ GetApprovals(k)' \in authority
  <2>1. proposals'[k] = [prop EXCEPT !.earliest_exec_time = at]
    BY <1>1, <1>5
  <2>2. /\ [prop EXCEPT !.earliest_exec_time = at] \in ProposalRow
        /\ [prop EXCEPT !.earliest_exec_time = at].trx = prop.trx
        /\ [prop EXCEPT !.earliest_exec_time = at].earliest_exec_time = at
    BY <1>1, <1>3 DEF ProposalRow
  <2>3. proposals' \in [Keys -> ProposalRow \cup {NoRow}]
    BY <1>1, <1>5, <2>1, <2>2
  <2>4. \A j \in Keys \ {k} : proposals'[j] = proposals[j]
    BY <1>1, <1>5
  <2> QED
    BY <1>5, <2>1, <2>2, <2>3, <2>4 DEF at
<1> QED
  BY <1>4, <1>5 DEF StartDelay, TrxIsAuthorized, at

\* unapprove may only take the execution time back.
LEMMA StopDelayRow ==
  ASSUME TypeOK, NEW k \in Keys, proposals[k] # NoRow, StopDelay(k), authority' = authority
  PROVE  /\ proposals' \in [Keys -> ProposalRow \cup {NoRow}] /\ proposals'[k] \in ProposalRow
         /\ proposals'[k].trx = proposals[k].trx
         /\ \A j \in Keys \ {k} : proposals'[j] = proposals[j]
         /\ \/ proposals'[k].earliest_exec_time < 0
            \/ proposals'[k] = proposals[k] /\ GetApprovals(k)' \in authority'
<1> DEFINE prop == proposals[k]
<1>1. prop \in ProposalRow /\ proposals \in [Keys -> ProposalRow \cup {NoRow}]
  BY DEF TypeOK
<1>2. CASE proposals' = proposals /\ (prop.earliest_exec_time < 0 \/ GetApprovals(k)' \in authority)
  BY <1>1, <1>2
<1>3. CASE proposals' = [proposals EXCEPT ![k].earliest_exec_time = Null]
  <2>1. proposals'[k] = [prop EXCEPT !.earliest_exec_time = Null]
    BY <1>1, <1>3
  <2>2. /\ [prop EXCEPT !.earliest_exec_time = Null] \in ProposalRow
        /\ [prop EXCEPT !.earliest_exec_time = Null].trx = prop.trx
        /\ [prop EXCEPT !.earliest_exec_time = Null].earliest_exec_time = Null
    BY <1>1 DEF ProposalRow
  <2>3. proposals' \in [Keys -> ProposalRow \cup {NoRow}]
    BY <1>1, <1>3, <2>1, <2>2
  <2>4. \A j \in Keys \ {k} : proposals'[j] = proposals[j]
    BY <1>1, <1>3
  <2> QED
    BY <2>1, <2>2, <2>3, <2>4 DEF Null
<1>4. prop.earliest_exec_time \in Int
  BY <1>1 DEF ProposalRow, Absent, Null
<1> QED
  BY <1>2, <1>3, <1>4 DEF StopDelay, TrxIsAuthorized, Absent, Null

\* An approval is added behind the others of its level, the first of them is taken away.
LEMMA AppendEntries ==
  ASSUME NEW s \in Seq(Nat), NEW n \in Nat
  PROVE  /\ Append(s, n) \in Seq(Nat) /\ Len(Append(s, n)) = Len(s) + 1
         /\ \A i \in DOMAIN Append(s, n) : Append(s, n)[i] = n \/ (i \in DOMAIN s /\ Append(s, n)[i] = s[i])
BY AppendProperties

LEMMA TailEntries ==
  ASSUME NEW s \in Seq(Nat), s # <<>>
  PROVE  /\ Tail(s) \in Seq(Nat) /\ Len(Tail(s)) = Len(s) - 1
         /\ \A i \in DOMAIN Tail(s) : i + 1 \in DOMAIN s /\ Tail(s)[i] = s[i + 1]
BY HeadTailProperties

\* approve adds one approval of now, and the consent that goes with it.
LEMMA ApproveIInv ==
  ASSUME IInv, NEW k \in Keys, NEW level \in Levels, NEW hash \in Hashes, Approve(k, level, hash)
  PROVE  IInv'
<1> DEFINE old  == consent[k][level]
           c    == [held |-> old.held + 1, fresh |-> TRUE, hash |-> hash]
           said == [consent[k] EXCEPT ![level] = c]
           areq == [approvals[k].requested EXCEPT ![level] = approvals[k].requested[level] - 1]
           apro == [approvals[k].provided EXCEPT ![level] = Append(approvals[k].provided[level], now)]
           arow == [requested |-> areq, provided |-> apro]
           oreq == [old_approvals[k].requested EXCEPT ![level] = old_approvals[k].requested[level] - 1]
           opro == [old_approvals[k].provided EXCEPT ![level] = old_approvals[k].provided[level] + 1]
           orow == [requested |-> oreq, provided |-> opro]
<1>1. TypeOK /\ KeyInv(k)
  BY DEF IInv
<1>2. /\ proposals[k] # NoRow /\ hash \in {NoHash, proposals[k].trx}
      /\ MoveToProvided(k, level) /\ StartDelay(k)
      /\ UNCHANGED <<now, authority, invalidations, sent>>
      /\ RecordAuthTimes({})
  BY DEF Approve
<1>3. /\ proposals' \in [Keys -> ProposalRow \cup {NoRow}] /\ proposals'[k] \in ProposalRow
      /\ proposals'[k].trx = proposals[k].trx
      /\ \A j \in Keys \ {k} : proposals'[j] = proposals[j]
      /\ \/ proposals'[k] = proposals[k]
         \/ /\ GetApprovals(k)' \in authority'
            /\ proposals'[k].earliest_exec_time = now' + 2 * proposals'[k].trx.delay_sec
  BY <1>1, <1>2, StartDelayRow
<1>4. /\ consent \in [Keys -> [Levels -> Consent]] /\ consent[k] \in [Levels -> Consent]
      /\ old \in Consent /\ old.held \in Nat /\ now \in Nat
  BY <1>1 DEF TypeOK, Consent
<1>5. /\ c \in Consent /\ c.held = old.held + 1 /\ c.fresh /\ c.hash = hash
  BY <1>4, ConstantsAssumption DEF Consent
<1>6. consent' = [consent EXCEPT ![k] = said]
  BY <1>4 DEF Approve
<1> HIDE DEF c
<1>7. /\ said \in [Levels -> Consent] /\ said[level] = c
      /\ \A l \in Levels \ {level} : said[l] = consent[k][l]
  BY <1>4, <1>5
<1> HIDE DEF said, old
<1>8. /\ consent' \in [Keys -> [Levels -> Consent]] /\ consent'[k] = said
      /\ \A j \in Keys \ {k} : consent'[j] = consent[j]
  BY <1>4, <1>6, <1>7
<1>9. authTimes' \in [Keys -> SUBSET (0..MaxTime)]
  BY <1>1, <1>2, AuthTimesType DEF TypeOK
<1>10. proposals'[k] # NoRow
  BY <1>3, RowsArePresent
<1>11. ConsentIsToProposal(k)'
  <2> SUFFICES ASSUME NEW l \in Levels, said[l].held > 0
               PROVE  said[l].hash \in {NoHash, proposals'[k].trx}
    BY <1>8, <1>10 DEF ConsentIsToProposal
  <2>1. CASE l = level
    BY <1>2, <1>3, <1>5, <1>7, <2>1
  <2>2. CASE l # level
    BY <1>1, <1>3, <1>7, <2>2 DEF KeyInv, ConsentIsToProposal
  <2> QED
    BY <2>1, <2>2
<1>12. DelayWasStarted(k)'
  <2>1. CASE proposals'[k] = proposals[k]
    BY <1>1, <1>2, <1>10, <2>1, AuthTimesGrow DEF KeyInv, DelayWasStarted
  <2>2. CASE /\ GetApprovals(k)' \in authority'
             /\ proposals'[k].earliest_exec_time = now' + 2 * proposals'[k].trx.delay_sec
    <3>1. now' \in authTimes'[k]
      BY <1>2, <1>10, <2>2, AuthTimesGrow
    <3> QED
      BY <2>2, <3>1 DEF DelayWasStarted
  <2> QED
    BY <1>3, <2>1, <2>2
<1>13. CASE approvals[k] # NoRow
  <2>1. approvals' = [approvals EXCEPT ![k] = arow] /\ old_approvals' = old_approvals
        /\ approvals[k].requested[level] > 0
    BY <1>2, <1>13 DEF MoveToProvided
  <2>2. approvals[k] \in ApprovalsRow /\ approvals \in [Keys -> ApprovalsRow \cup {NoRow}]
    BY <1>1, <1>13 DEF TypeOK
  <2>3. approvals[k].requested \in [Levels -> Nat] /\ approvals[k].provided \in [Levels -> Seq(Nat)]
    BY <2>2 DEF ApprovalsRow
  <2>4. areq \in [Levels -> Nat]
    BY <2>1, <2>3
  <2> DEFINE s == approvals[k].provided[level]
  <2>5. s \in Seq(Nat)
    BY <2>3
  <2> HIDE DEF s
  <2>6. /\ Append(s, now) \in Seq(Nat) /\ Len(Append(s, now)) = Len(s) + 1
        /\ \A i \in DOMAIN Append(s, now) : Append(s, now)[i] = now \/ (i \in DOMAIN s /\ Append(s, now)[i] = s[i])
    BY <1>4, <2>5, AppendEntries
  <2>7. /\ apro \in [Levels -> Seq(Nat)] /\ apro[level] = Append(s, now)
        /\ \A l \in Levels \ {level} : apro[l] = approvals[k].provided[l]
    BY <2>3, <2>6 DEF s
  <2>8. arow \in ApprovalsRow /\ arow.provided = apro
    BY <2>4, <2>7 DEF ApprovalsRow
  <2> HIDE DEF arow, areq, apro
  <2>9. /\ approvals' \in [Keys -> ApprovalsRow \cup {NoRow}] /\ approvals'[k].provided = apro
        /\ approvals'[k] # NoRow
        /\ \A j \in Keys \ {k} : approvals'[j] = approvals[j]
    BY <2>1, <2>2, <2>8, RowsArePresent
  <2>10. OneTable(k)'
    BY <1>1, <1>2, <1>10, <1>13, <2>1, <2>9 DEF KeyInv, OneTable
  <2>11. TimesPast(k)'
    <3> SUFFICES ASSUME NEW l \in Levels, NEW i \in DOMAIN apro[l]
                 PROVE  apro[l][i] <= now
      BY <1>2, <2>9 DEF TimesPast
    <3>1. CASE l = level
      <4>1. \A j \in DOMAIN s : s[j] <= now
        BY <1>1, <1>13 DEF KeyInv, TimesPast, s
      <4>2. PICK e : e = Append(s, now) /\ apro[l] = e
        BY <2>7, <3>1
      <4>3. e[i] = now \/ (i \in DOMAIN s /\ e[i] = s[i])
        BY <2>6, <4>2
      <4>4. now <= now
        BY <1>4
      <4> QED
        BY <4>1, <4>2, <4>3, <4>4
    <3>2. CASE l # level
      BY <1>1, <1>13, <2>7, <3>2 DEF KeyInv, TimesPast
    <3> QED
      BY <3>1, <3>2
  <2>12. HeldIsProvided(k)'
    <3> SUFFICES ASSUME NEW l \in Levels
                 PROVE  said[l].held = Len(apro[l])
      BY <1>8, <2>9 DEF HeldIsProvided
    <3>1. CASE l = level
      BY <1>1, <1>2, <1>5, <1>7, <1>13, <2>6, <2>7, <3>1 DEF KeyInv, HeldIsProvided, s, old
    <3>2. CASE l # level
      BY <1>1, <1>2, <1>7, <1>13, <2>7, <3>2 DEF KeyInv, HeldIsProvided
    <3> QED
      BY <3>1, <3>2
  <2>13. CountedIsFresh(k)'
    <3> SUFFICES ASSUME NEW l \in GetApprovals(k)' PROVE said[l].fresh
      BY <1>8 DEF CountedIsFresh
    <3>1. CASE l = level
      BY <1>5, <1>7, <3>1
    <3>2. CASE l # level
      <4>1. l \in Levels /\ \E i \in DOMAIN approvals'[k].provided[l] : StillCounts(l, approvals[k].provided[l][i])'
        BY <2>9 DEF GetApprovals
      <4>2. PICK i \in DOMAIN approvals'[k].provided[l] : StillCounts(l, approvals[k].provided[l][i])'
        BY <4>1
      <4>3. PICK t : t = approvals'[k].provided[l][i]
        OBVIOUS
      <4>4. StillCounts(l, t)
        BY <1>2, <4>2, <4>3 DEF StillCounts
      <4>5. i \in DOMAIN approvals[k].provided[l] /\ approvals[k].provided[l][i] = t
        BY <2>7, <2>9, <3>2, <4>1, <4>2, <4>3
      <4>6. l \in GetApprovals(k)
        BY <1>13, <4>1, <4>4, <4>5 DEF GetApprovals
      <4> QED
        BY <1>1, <1>2, <1>7, <3>2, <4>1, <4>6 DEF KeyInv, CountedIsFresh
    <3> QED
      BY <3>1, <3>2
  <2>14. KeyInv(k)'
    BY <1>11, <1>12, <2>10, <2>11, <2>12, <2>13 DEF KeyInv
  <2>15. \A j \in Keys : KeyInv(j)'
    BY <1>2, <1>3, <1>8, <2>1, <2>9, <2>14, OneKeyTouched
  <2>16. TypeOK'
    BY <1>1, <1>2, <1>3, <1>8, <1>9, <2>1, <2>9 DEF TypeOK
  <2> QED
    BY <2>15, <2>16 DEF IInv
<1>14. CASE approvals[k] = NoRow
  <2>1. /\ old_approvals[k] # NoRow /\ old_approvals[k].requested[level] > 0
        /\ old_approvals' = [old_approvals EXCEPT ![k] = orow] /\ approvals' = approvals
    BY <1>2, <1>14 DEF MoveToProvided
  <2>2. old_approvals[k] \in OldRow /\ old_approvals \in [Keys -> OldRow \cup {NoRow}]
    BY <1>1, <2>1 DEF TypeOK
  <2>3. old_approvals[k].requested \in [Levels -> Nat] /\ old_approvals[k].provided \in [Levels -> Nat]
    BY <2>2 DEF OldRow
  <2>4. oreq \in [Levels -> Nat]
    BY <2>1, <2>3
  <2>5. /\ opro \in [Levels -> Nat] /\ opro[level] = old_approvals[k].provided[level] + 1
        /\ \A l \in Levels \ {level} : opro[l] = old_approvals[k].provided[l]
    BY <2>3
  <2>6. orow \in OldRow /\ orow.provided = opro
    BY <2>4, <2>5 DEF OldRow
  <2> HIDE DEF orow, oreq, opro
  <2>7. /\ old_approvals' \in [Keys -> OldRow \cup {NoRow}] /\ old_approvals'[k].provided = opro
        /\ old_approvals'[k] # NoRow
        /\ \A j \in Keys \ {k} : old_approvals'[j] = old_approvals[j]
    BY <2>1, <2>2, <2>6, RowsArePresent
  <2>8. OneTable(k)' /\ TimesPast(k)'
    BY <1>1, <1>2, <1>10, <1>14, <2>1, <2>7 DEF KeyInv, OneTable, TimesPast
  <2>9. HeldIsProvided(k)'
    <3> SUFFICES ASSUME NEW l \in Levels
                 PROVE  said[l].held = opro[l]
      BY <1>8, <1>14, <2>1, <2>7 DEF HeldIsProvided
    <3>1. CASE l = level
      BY <1>1, <1>2, <1>5, <1>7, <1>14, <2>5, <3>1 DEF KeyInv, HeldIsProvided, old
    <3>2. CASE l # level
      BY <1>1, <1>2, <1>7, <1>14, <2>5, <3>2 DEF KeyInv, HeldIsProvided
    <3> QED
      BY <3>1, <3>2
  <2>10. CountedIsFresh(k)'
    <3> SUFFICES ASSUME NEW l \in GetApprovals(k)' PROVE said[l].fresh
      BY <1>8 DEF CountedIsFresh
    <3>1. CASE l = level
      BY <1>5, <1>7, <3>1
    <3>2. CASE l # level
      <4>1. l \in Levels /\ l \in GetApprovals(k)
        BY <1>2, <1>14, <2>1, <2>5, <2>7, <3>2 DEF GetApprovals
      <4> QED
        BY <1>1, <1>2, <1>7, <3>2, <4>1 DEF KeyInv, CountedIsFresh
    <3> QED
      BY <3>1, <3>2
  <2>11. KeyInv(k)'
    BY <1>11, <1>12, <2>8, <2>9, <2>10 DEF KeyInv
  <2>12. \A j \in Keys : KeyInv(j)'
    BY <1>2, <1>3, <1>8, <2>1, <2>7, <2>11, OneKeyTouched
  <2>13. TypeOK'
    BY <1>1, <1>2, <1>3, <1>8, <1>9, <2>1, <2>7 DEF TypeOK
  <2> QED
    BY <2>12, <2>13 DEF IInv
<1> QED
  BY <1>13, <1>14

\* unapprove takes the first approval of the level back, and its consent by as much.
LEMMA UnapproveIInv ==
  ASSUME IInv, NEW k \in Keys, NEW level \in Levels, Unapprove(k, level)
  PROVE  IInv'
<1> DEFINE old  == consent[k][level]
           c    == [old EXCEPT !.held = old.held - 1]
           said == [consent[k] EXCEPT ![level] = c]
           areq == [approvals[k].requested EXCEPT ![level] = approvals[k].requested[level] + 1]
           apro == [approvals[k].provided EXCEPT ![level] = Tail(approvals[k].provided[level])]
           arow == [requested |-> areq, provided |-> apro]
           oreq == [old_approvals[k].requested EXCEPT ![level] = old_approvals[k].requested[level] + 1]
           opro == [old_approvals[k].provided EXCEPT ![level] = old_approvals[k].provided[level] - 1]
           orow == [requested |-> oreq, provided |-> opro]
<1>1. TypeOK /\ KeyInv(k)
  BY DEF IInv
<1>2. /\ proposals[k] # NoRow
      /\ MoveToRequested(k, level) /\ StopDelay(k)
      /\ UNCHANGED <<now, authority, invalidations, sent>>
      /\ RecordAuthTimes({k})
  BY DEF Unapprove
<1>3. /\ proposals' \in [Keys -> ProposalRow \cup {NoRow}] /\ proposals'[k] \in ProposalRow
      /\ proposals'[k].trx = proposals[k].trx
      /\ \A j \in Keys \ {k} : proposals'[j] = proposals[j]
      /\ \/ proposals'[k].earliest_exec_time < 0
         \/ proposals'[k] = proposals[k] /\ GetApprovals(k)' \in authority'
  BY <1>1, <1>2, StopDelayRow
<1>4. /\ consent \in [Keys -> [Levels -> Consent]] /\ consent[k] \in [Levels -> Consent]
      /\ old \in Consent /\ old.held \in Nat
  BY <1>1 DEF TypeOK, Consent
<1>5. old.held > 0
  <2>1. CASE approvals[k] # NoRow
    <3>1. approvals[k].provided[level] \in Seq(Nat) /\ approvals[k].provided[level] # <<>>
      BY <1>1, <1>2, <2>1 DEF TypeOK, ApprovalsRow, MoveToRequested
    <3>2. Len(approvals[k].provided[level]) > 0
      BY <3>1, EmptySeq
    <3> QED
      BY <1>1, <1>2, <2>1, <3>2 DEF KeyInv, HeldIsProvided
  <2>2. CASE approvals[k] = NoRow
    BY <1>1, <1>2, <2>2 DEF KeyInv, HeldIsProvided, MoveToRequested
  <2> QED
    BY <2>1, <2>2
<1> HIDE DEF old
<1>19. old.held - 1 \in Nat
  BY <1>4, <1>5
<1>6. c \in Consent /\ c.held = old.held - 1 /\ c.fresh = old.fresh /\ c.hash = old.hash
  BY <1>4, <1>19 DEF Consent
<1> USE DEF old
<1>7. consent' = [consent EXCEPT ![k] = said]
  BY <1>4 DEF Unapprove
<1> HIDE DEF c
<1>8. /\ said \in [Levels -> Consent] /\ said[level] = c
      /\ \A l \in Levels \ {level} : said[l] = consent[k][l]
  BY <1>4, <1>6
<1> HIDE DEF said
<1>9. /\ consent' \in [Keys -> [Levels -> Consent]] /\ consent'[k] = said
      /\ \A j \in Keys \ {k} : consent'[j] = consent[j]
  BY <1>4, <1>7, <1>8
<1>10. \A l \in Levels : said[l].fresh = consent[k][l].fresh /\ said[l].hash = consent[k][l].hash
  BY <1>6, <1>8
<1>11. \A l \in Levels : said[l].held > 0 => consent[k][l].held > 0
  BY <1>5, <1>8
<1> HIDE DEF old
<1>12. authTimes' \in [Keys -> SUBSET (0..MaxTime)]
  BY <1>1, <1>2, AuthTimesType DEF TypeOK
<1>13. proposals'[k] # NoRow
  BY <1>3, RowsArePresent
<1>14. ConsentIsToProposal(k)'
  BY <1>1, <1>3, <1>9, <1>10, <1>11, <1>13 DEF KeyInv, ConsentIsToProposal
<1>15. DelayWasStarted(k)'
  <2>1. CASE proposals'[k].earliest_exec_time < 0
    <3>1. proposals'[k].earliest_exec_time \in Int
      BY <1>3 DEF ProposalRow, Absent, Null
    <3> QED
      BY <2>1, <3>1 DEF DelayWasStarted
  <2>2. CASE proposals'[k] = proposals[k] /\ GetApprovals(k)' \in authority'
    <3>1. authTimes[k] \subseteq authTimes'[k]
      BY <1>2, <1>13, <2>2, AuthTimesGrow
    <3> QED
      BY <1>1, <2>2, <3>1 DEF KeyInv, DelayWasStarted
  <2> QED
    BY <1>3, <2>1, <2>2
<1>16. ASSUME GetApprovals(k)' \subseteq GetApprovals(k), GetApprovals(k) \subseteq Levels
       PROVE  CountedIsFresh(k)'
  BY <1>1, <1>2, <1>9, <1>10, <1>16 DEF KeyInv, CountedIsFresh
<1>17. CASE approvals[k] # NoRow
  <2>1. approvals' = [approvals EXCEPT ![k] = arow] /\ old_approvals' = old_approvals
        /\ approvals[k].provided[level] # <<>>
    BY <1>2, <1>17 DEF MoveToRequested
  <2>2. approvals[k] \in ApprovalsRow /\ approvals \in [Keys -> ApprovalsRow \cup {NoRow}]
    BY <1>1, <1>17 DEF TypeOK
  <2>3. approvals[k].requested \in [Levels -> Nat] /\ approvals[k].provided \in [Levels -> Seq(Nat)]
    BY <2>2 DEF ApprovalsRow
  <2>4. areq \in [Levels -> Nat]
    BY <2>3
  <2> DEFINE s == approvals[k].provided[level]
  <2>5. s \in Seq(Nat) /\ s # <<>>
    BY <2>1, <2>3
  <2> HIDE DEF s
  <2>6. /\ Tail(s) \in Seq(Nat) /\ Len(Tail(s)) = Len(s) - 1
        /\ \A i \in DOMAIN Tail(s) : i + 1 \in DOMAIN s /\ Tail(s)[i] = s[i + 1]
    BY <2>5, TailEntries
  <2>7. /\ apro \in [Levels -> Seq(Nat)] /\ apro[level] = Tail(s)
        /\ \A l \in Levels \ {level} : apro[l] = approvals[k].provided[l]
    BY <2>3, <2>6 DEF s
  <2>8. arow \in ApprovalsRow /\ arow.provided = apro
    BY <2>4, <2>7 DEF ApprovalsRow
  <2> HIDE DEF arow, areq, apro
  <2>9. /\ approvals' \in [Keys -> ApprovalsRow \cup {NoRow}] /\ approvals'[k].provided = apro
        /\ approvals'[k] # NoRow
        /\ \A j \in Keys \ {k} : approvals'[j] = approvals[j]
    BY <2>1, <2>2, <2>8, RowsArePresent
  <2>10. OneTable(k)'
    BY <1>1, <1>2, <1>13, <1>17, <2>1, <2>9 DEF KeyInv, OneTable
  <2>11. ASSUME NEW l \in Levels, NEW i \in DOMAIN apro[l]
         PROVE  \E j \in DOMAIN approvals[k].provided[l] : apro[l][i] = approvals[k].provided[l][j]
    <3>1. CASE l = level
      BY <2>6, <2>7, <2>11, <3>1 DEF s
    <3>2. CASE l # level
      BY <2>7, <2>11, <3>2
    <3> QED
      BY <3>1, <3>2
  <2>12. TimesPast(k)'
    <3> SUFFICES ASSUME NEW l \in Levels, NEW i \in DOMAIN apro[l]
                 PROVE  apro[l][i] <= now
      BY <1>2, <2>9 DEF TimesPast
    <3>1. PICK j \in DOMAIN approvals[k].provided[l] : apro[l][i] = approvals[k].provided[l][j]
      BY <2>11
    <3> QED
      BY <1>1, <1>17, <3>1 DEF KeyInv, TimesPast
  <2>13. HeldIsProvided(k)'
    <3> SUFFICES ASSUME NEW l \in Levels
                 PROVE  said[l].held = Len(apro[l])
      BY <1>9, <2>9 DEF HeldIsProvided
    <3>1. CASE l = level
      BY <1>1, <1>2, <1>6, <1>8, <1>17, <2>6, <2>7, <3>1 DEF KeyInv, HeldIsProvided, s, old
    <3>2. CASE l # level
      BY <1>1, <1>2, <1>8, <1>17, <2>7, <3>2 DEF KeyInv, HeldIsProvided
    <3> QED
      BY <3>1, <3>2
  <2>14. CountedIsFresh(k)'
    <3> SUFFICES ASSUME NEW l \in GetApprovals(k)' PROVE l \in GetApprovals(k)
      BY <1>16, <1>17 DEF GetApprovals
    <3>1. l \in Levels /\ \E i \in DOMAIN approvals'[k].provided[l] : StillCounts(l, approvals[k].provided[l][i])'
      BY <2>9 DEF GetApprovals
    <3>2. PICK i \in DOMAIN approvals'[k].provided[l] : StillCounts(l, approvals[k].provided[l][i])'
      BY <3>1
    <3>3. PICK t : t = approvals'[k].provided[l][i]
      OBVIOUS
    <3>4. StillCounts(l, t)
      BY <1>2, <3>2, <3>3 DEF StillCounts
    <3>5. i \in DOMAIN apro[l] /\ apro[l][i] = t
      BY <2>9, <3>2, <3>3
    <3>6. PICK j \in DOMAIN approvals[k].provided[l] : apro[l][i] = approvals[k].provided[l][j]
      BY <2>11, <3>1, <3>5
    <3> QED
      BY <1>17, <3>1, <3>4, <3>5, <3>6 DEF GetApprovals
  <2>15. KeyInv(k)'
    BY <1>14, <1>15, <2>10, <2>12, <2>13, <2>14 DEF KeyInv
  <2>16. \A j \in Keys : KeyInv(j)'
    BY <1>2, <1>3, <1>9, <2>1, <2>9, <2>15, OneKeyTouched
  <2>17. TypeOK'
    BY <1>1, <1>2, <1>3, <1>9, <1>12, <2>1, <2>9 DEF TypeOK
  <2> QED
    BY <2>16, <2>17 DEF IInv
<1>18. CASE approvals[k] = NoRow
  <2>1. /\ old_approvals[k] # NoRow /\ old_approvals[k].provided[level] > 0
        /\ old_approvals' = [old_approvals EXCEPT ![k] = orow] /\ approvals' = approvals
    BY <1>2, <1>18 DEF MoveToRequested
  <2>2. old_approvals[k] \in OldRow /\ old_approvals \in [Keys -> OldRow \cup {NoRow}]
    BY <1>1, <2>1 DEF TypeOK
  <2>3. old_approvals[k].requested \in [Levels -> Nat] /\ old_approvals[k].provided \in [Levels -> Nat]
    BY <2>2 DEF OldRow
  <2>4. oreq \in [Levels -> Nat]
    BY <2>3
  <2>5. /\ opro \in [Levels -> Nat] /\ opro[level] = old_approvals[k].provided[level] - 1
        /\ \A l \in Levels \ {level} : opro[l] = old_approvals[k].provided[l]
    BY <2>1, <2>3
  <2>6. orow \in OldRow /\ orow.provided = opro
    BY <2>4, <2>5 DEF OldRow
  <2> HIDE DEF orow, oreq, opro
  <2>7. /\ old_approvals' \in [Keys -> OldRow \cup {NoRow}] /\ old_approvals'[k].provided = opro
        /\ old_approvals'[k] # NoRow
        /\ \A j \in Keys \ {k} : old_approvals'[j] = old_approvals[j]
    BY <2>1, <2>2, <2>6, RowsArePresent
  <2>8. OneTable(k)' /\ TimesPast(k)'
    BY <1>1, <1>2, <1>13, <1>18, <2>1, <2>7 DEF KeyInv, OneTable, TimesPast
  <2>9. HeldIsProvided(k)'
    <3> SUFFICES ASSUME NEW l \in Levels
                 PROVE  said[l].held = opro[l]
      BY <1>9, <1>18, <2>1, <2>7 DEF HeldIsProvided
    <3>1. CASE l = level
      BY <1>1, <1>2, <1>6, <1>8, <1>18, <2>5, <3>1 DEF KeyInv, HeldIsProvided, old
    <3>2. CASE l # level
      BY <1>1, <1>2, <1>8, <1>18, <2>5, <3>2 DEF KeyInv, HeldIsProvided
    <3> QED
      BY <3>1, <3>2
  <2>10. \A l \in Levels : opro[l] > 0 => old_approvals[k].provided[l] > 0
    BY <2>1, <2>5
  <2>11. CountedIsFresh(k)'
    BY <1>2, <1>16, <1>18, <2>1, <2>7, <2>10 DEF GetApprovals
  <2>12. KeyInv(k)'
    BY <1>14, <1>15, <2>8, <2>9, <2>11 DEF KeyInv
  <2>13. \A j \in Keys : KeyInv(j)'
    BY <1>2, <1>3, <1>9, <2>1, <2>7, <2>12, OneKeyTouched
  <2>14. TypeOK'
    BY <1>1, <1>2, <1>3, <1>9, <1>12, <2>1, <2>7 DEF TypeOK
  <2> QED
    BY <2>13, <2>14 DEF IInv
<1> QED
  BY <1>17, <1>18

\* cancel and exec erase the proposal and the one row of approvals it has.
LEMMA EraseIInv ==
  ASSUME IInv, NEW k \in Keys,
         proposals[k] # NoRow, proposals' = [proposals EXCEPT ![k] = NoRow], EraseApprovals(k),
         consent' = [consent EXCEPT ![k] = NoConsent],
         UNCHANGED <<now, authority, invalidations>>, sent' \in [Keys -> 0..MaxSent],
         RecordAuthTimes({})
  PROVE  IInv'
<1>1. TypeOK /\ KeyInv(k)
  BY DEF IInv
<1>2. /\ proposals' \in [Keys -> ProposalRow \cup {NoRow}] /\ proposals'[k] = NoRow
      /\ \A j \in Keys \ {k} : proposals'[j] = proposals[j]
  BY <1>1 DEF TypeOK
<1>3. /\ approvals' \in [Keys -> ApprovalsRow \cup {NoRow}]
      /\ old_approvals' \in [Keys -> OldRow \cup {NoRow}]
      /\ \A j \in Keys \ {k} : approvals'[j] = approvals[j] /\ old_approvals'[j] = old_approvals[j]
  BY <1>1 DEF TypeOK, EraseApprovals
<1>4. approvals'[k] = NoRow /\ old_approvals'[k] = NoRow
  BY <1>1 DEF TypeOK, EraseApprovals, KeyInv, OneTable
<1>5. /\ consent' \in [Keys -> [Levels -> Consent]] /\ consent'[k] = NoConsent
      /\ \A j \in Keys \ {k} : consent'[j] = consent[j]
  BY <1>1, NothingSaid DEF TypeOK
<1>6. authTimes' \in [Keys -> SUBSET (0..MaxTime)]
  BY <1>1, AuthTimesType DEF TypeOK
<1>7. KeyInv(k)'
  BY <1>2, <1>4, <1>5, NothingSaid
  DEF KeyInv, OneTable, TimesPast, HeldIsProvided, CountedIsFresh, ConsentIsToProposal, DelayWasStarted
<1>8. \A j \in Keys : KeyInv(j)'
  BY <1>2, <1>3, <1>5, <1>7, OneKeyTouched
<1>9. TypeOK'
  BY <1>1, <1>2, <1>3, <1>5, <1>6 DEF TypeOK
<1> QED
  BY <1>8, <1>9 DEF IInv

\* invalidate outdates every approval of the account, none of which is later than now.
LEMMA InvalidateIInv ==
  ASSUME IInv, NEW account \in Accounts, Invalidate(account)
  PROVE  IInv'
<1>1. TypeOK
  BY DEF IInv
<1>2. /\ invalidations' = [invalidations EXCEPT ![account] = now]
      /\ consent' = [k \in Keys |-> [l \in Levels |->
                       IF ActorOf[l] = account THEN [consent[k][l] EXCEPT !.fresh = FALSE]
                       ELSE consent[k][l]]]
      /\ UNCHANGED <<now, authority, proposals, approvals, old_approvals, sent>>
      /\ RecordAuthTimes({})
  BY DEF Invalidate
<1>3. ASSUME NEW k \in Keys, NEW l \in Levels
      PROVE  /\ consent[k][l] \in Consent /\ consent'[k][l] \in Consent
             /\ consent'[k][l].held = consent[k][l].held /\ consent'[k][l].hash = consent[k][l].hash
             /\ ActorOf[l] # account => consent'[k][l] = consent[k][l]
  <2>1. consent[k][l] \in Consent
    BY <1>1 DEF TypeOK
  <2>2. consent'[k][l] = IF ActorOf[l] = account THEN [consent[k][l] EXCEPT !.fresh = FALSE] ELSE consent[k][l]
    BY <1>2
  <2> QED
    BY <2>1, <2>2 DEF Consent
<1>4. TypeOK'
  <2>1. authTimes' \in [Keys -> SUBSET (0..MaxTime)]
    BY <1>1, <1>2, AuthTimesType DEF TypeOK
  <2>2. invalidations' \in [Accounts -> {Null} \cup (0..MaxTime)]
    BY <1>1, <1>2 DEF TypeOK
  <2>3. consent' \in [Keys -> [Levels -> Consent]]
    <3> DEFINE f(k) == [l \in Levels |-> IF ActorOf[l] = account THEN [consent[k][l] EXCEPT !.fresh = FALSE]
                                         ELSE consent[k][l]]
    <3>1. consent' = [k \in Keys |-> f(k)]
      BY <1>2
    <3>2. ASSUME NEW k \in Keys PROVE f(k) \in [Levels -> Consent]
      <4>1. consent'[k] = f(k)
        BY <3>1
      <4>2. \A l \in Levels : f(k)[l] \in Consent
        BY <1>3, <4>1
      <4> QED
        BY <4>2
    <3> HIDE DEF f
    <3> QED
      BY <3>1, <3>2
  <2> QED
    BY <1>1, <1>2, <2>1, <2>2, <2>3 DEF TypeOK
<1>5. ASSUME NEW k \in Keys PROVE KeyInv(k)'
  <2>1. KeyInv(k)
    BY DEF IInv
  <2>2. OneTable(k)' /\ TimesPast(k)'
    BY <1>2, <2>1 DEF KeyInv, OneTable, TimesPast
  <2>3. HeldIsProvided(k)' /\ ConsentIsToProposal(k)'
    BY <1>2, <1>3, <2>1 DEF KeyInv, HeldIsProvided, ConsentIsToProposal
  <2>4. DelayWasStarted(k)'
    BY <1>2, <2>1, AuthTimesGrow DEF KeyInv, DelayWasStarted
  <2>5. ASSUME proposals[k] # NoRow, NEW l \in GetApprovals(k)'
        PROVE  l \in Levels /\ l \in GetApprovals(k) /\ ActorOf[l] # account
    <3>1. \A a \in Accounts : invalidations'[a] = IF a = account THEN now ELSE invalidations[a]
      BY <1>1, <1>2 DEF TypeOK
    <3>2. \A m \in Levels : ActorOf[m] \in Accounts
      BY ConstantsAssumption
    <3>3. now \in Nat /\ now # Null
      BY <1>1 DEF TypeOK, Null
    <3>4. CASE approvals[k] # NoRow
      <4> DEFINE s == approvals[k].provided[l]
      <4>1. l \in Levels /\ \E i \in DOMAIN s : StillCounts(l, s[i])'
        BY <1>2, <2>5, <3>4 DEF GetApprovals
      <4>2. PICK i \in DOMAIN s : StillCounts(l, s[i])'
        BY <4>1
      <4>3. s \in Seq(Nat)
        BY <1>1, <3>4, <4>1 DEF TypeOK, ApprovalsRow
      <4>4. s[i] \in Nat /\ s[i] <= now
        <5>1. s[i] <= now
          BY <2>1, <3>4, <4>1 DEF KeyInv, TimesPast
        <5> HIDE DEF s
        <5> QED
          BY <4>3, <5>1
      <4>5. ActorOf[l] # account
        BY <1>2, <3>1, <3>2, <3>3, <4>1, <4>2, <4>4 DEF StillCounts
      <4>6. StillCounts(l, s[i])
        BY <1>2, <3>1, <3>2, <4>1, <4>2, <4>5 DEF StillCounts
      <4> QED
        BY <3>4, <4>1, <4>5, <4>6 DEF GetApprovals
    <3>5. CASE approvals[k] = NoRow
      <4>1. l \in Levels /\ old_approvals[k].provided[l] > 0 /\ invalidations'[ActorOf[l]] = Null
        BY <1>2, <2>5, <3>5 DEF GetApprovals
      <4>2. ActorOf[l] # account /\ invalidations[ActorOf[l]] = Null
        BY <3>1, <3>2, <3>3, <4>1
      <4> QED
        BY <3>5, <4>1, <4>2 DEF GetApprovals
    <3> QED
      BY <3>4, <3>5
  <2>6. CountedIsFresh(k)'
    BY <1>2, <1>3, <2>1, <2>5 DEF KeyInv, CountedIsFresh
  <2> QED
    BY <2>2, <2>3, <2>4, <2>6 DEF KeyInv
<1> QED
  BY <1>4, <1>5 DEF IInv

\* What counts is current consent.
LEMMA CountedConsent ==
  ASSUME TypeOK, NEW k \in Keys, KeyInv(k), proposals[k] # NoRow
  PROVE  GetApprovals(k) \subseteq Consenting(k)
<1> SUFFICES ASSUME NEW l \in GetApprovals(k) PROVE l \in Consenting(k)
  OBVIOUS
<1>1. l \in Levels /\ consent[k][l].fresh
  BY DEF KeyInv, CountedIsFresh, GetApprovals
<1>2. consent[k][l].held > 0
  <2>1. CASE approvals[k] # NoRow
    <3> DEFINE s == approvals[k].provided[l]
    <3>1. PICK i \in DOMAIN s : StillCounts(l, s[i])
      BY <2>1 DEF GetApprovals
    <3>2. s \in Seq(Nat)
      BY <1>1, <2>1 DEF TypeOK, ApprovalsRow
    <3>3. consent[k][l].held = Len(s)
      BY <1>1, <2>1 DEF KeyInv, HeldIsProvided
    <3> HIDE DEF s
    <3> QED
      BY <3>1, <3>2, <3>3
  <2>2. CASE approvals[k] = NoRow
    BY <1>1, <2>2 DEF KeyInv, HeldIsProvided, GetApprovals
  <2> QED
    BY <2>1, <2>2
<1> QED
  BY <1>1, <1>2 DEF Consenting

\* What a step may execute, for each proposal.
ConsentedStep ==
    \A k \in Keys : sent'[k] # sent[k] =>
          /\ \E S \in authority :
               \A l \in S : l \in Consenting(k) /\ consent[k][l].hash \in {NoHash, proposals[k].trx}
          /\ \/ proposals[k].trx.delay_sec = 0
             \/ \E t \in authTimes[k] :
                  t + 2 * proposals[k].trx.delay_sec <= now

\* exec counts what GetApprovals counts, so it acts on current consent.
LEMMA ExecConsented ==
  ASSUME IInv, NEW k \in Keys, Exec(k)
  PROVE  ConsentedStep
<1> SUFFICES ASSUME NEW j \in Keys, sent'[j] # sent[j]
             PROVE  /\ \E S \in authority :
                         \A l \in S : l \in Consenting(j) /\ consent[j][l].hash \in {NoHash, proposals[j].trx}
                    /\ \/ proposals[j].trx.delay_sec = 0
                       \/ \E t \in authTimes[j] :
                            t + 2 * proposals[j].trx.delay_sec <= now
  BY DEF ConsentedStep
<1>1. j = k
  BY DEF Exec, IInv, TypeOK
<1>2. /\ proposals[k] # NoRow /\ GetApprovals(k) \in authority /\ DelayElapsed(proposals[k])
  BY DEF Exec, TrxIsAuthorized
<1>3. KeyInv(k) /\ TypeOK
  BY DEF IInv
<1>4. GetApprovals(k) \subseteq Consenting(k)
  BY <1>2, <1>3, CountedConsent
<1>5. \A l \in Consenting(k) : consent[k][l].hash \in {NoHash, proposals[k].trx}
  BY <1>3 DEF KeyInv, ConsentIsToProposal, Consenting
<1>6. \/ proposals[k].trx.delay_sec = 0
      \/ \E t \in authTimes[k] : t + 2 * proposals[k].trx.delay_sec <= now
  BY <1>2, <1>3 DEF KeyInv, DelayWasStarted, DelayElapsed
<1> QED
  BY <1>1, <1>2, <1>4, <1>5, <1>6

\* Every step keeps the invariant, and executes with consent only.
LEMMA NextIInv ==
  ASSUME IInv, [Next]_vars
  PROVE  IInv' /\ ConsentedStep
<1>0. TypeOK
  BY DEF IInv
<1>1. ASSUME NEW k \in Keys, NEW t \in Trxs, NEW R \in Requests, Propose(k, t, R)
      PROVE  IInv' /\ ConsentedStep
  BY <1>1, ProposeIInv DEF Propose, ConsentedStep
<1>2. ASSUME NEW k \in Keys, NEW l \in Levels, NEW h \in Hashes, Approve(k, l, h)
      PROVE  IInv' /\ ConsentedStep
  BY <1>2, ApproveIInv DEF Approve, ConsentedStep
<1>3. ASSUME NEW k \in Keys, NEW l \in Levels, Unapprove(k, l)
      PROVE  IInv' /\ ConsentedStep
  BY <1>3, UnapproveIInv DEF Unapprove, ConsentedStep
<1>4. ASSUME NEW k \in Keys, NEW canceler \in Accounts, Cancel(k, canceler)
      PROVE  IInv' /\ ConsentedStep
  <2>1. sent' = sent /\ sent' \in [Keys -> 0..MaxSent]
    BY <1>0, <1>4 DEF Cancel, TypeOK
  <2>2. IInv'
    BY <1>4, <2>1, EraseIInv DEF Cancel
  <2> QED
    BY <2>1, <2>2 DEF ConsentedStep
<1>5. ASSUME NEW k \in Keys, Exec(k)
      PROVE  IInv' /\ ConsentedStep
  <2>1. sent' \in [Keys -> 0..MaxSent]
    <3>1. sent \in [Keys -> 0..MaxSent] /\ sent[k] < MaxSent /\ sent' = [sent EXCEPT ![k] = @ + 1]
      BY <1>0, <1>5 DEF Exec, TypeOK
    <3>2. sent[k] + 1 \in 0..MaxSent
      BY <3>1, ConstantsAssumption
    <3> QED
      BY <3>1, <3>2
  <2>2. IInv'
    BY <1>5, <2>1, EraseIInv DEF Exec
  <2> QED
    BY <1>5, <2>2, ExecConsented
<1>6. ASSUME NEW a \in Accounts, Invalidate(a)
      PROVE  IInv' /\ ConsentedStep
  BY <1>6, InvalidateIInv DEF Invalidate, ConsentedStep
<1>7. ASSUME UNCHANGED <<tables, sent, consent>>, RecordAuthTimes({}), now' \in 0..MaxTime, now <= now',
             authority' \in Authorities
      PROVE  IInv' /\ ConsentedStep
  <2>1. UNCHANGED <<proposals, approvals, old_approvals, invalidations>>
    BY <1>7 DEF tables
  <2>2. authTimes' \in [Keys -> SUBSET (0..MaxTime)]
    BY <1>0, <1>7, AuthTimesType DEF TypeOK
  <2>3. TypeOK'
    BY <1>0, <1>7, <2>1, <2>2 DEF TypeOK
  <2>4. now' \in Nat
    BY <1>7
  <2>5. \A k \in Keys : KeyInv(k)'
    BY <1>7, <2>1, <2>4, KeyUntouched
  <2> QED
    BY <1>7, <2>3, <2>5 DEF IInv, ConsentedStep
<1>8. CASE NextBlock
  BY <1>0, <1>7, <1>8, ConstantsAssumption DEF NextBlock, TypeOK
<1>9. ASSUME NEW F \in Authorities, UpdateAuth(F)
      PROVE  IInv' /\ ConsentedStep
  BY <1>0, <1>7, <1>9 DEF UpdateAuth, TypeOK
<1>10. CASE UNCHANGED vars
  <2>1. /\ now' = now /\ authority' = authority /\ proposals' = proposals /\ approvals' = approvals
        /\ old_approvals' = old_approvals /\ invalidations' = invalidations /\ sent' = sent
        /\ consent' = consent /\ authTimes' = authTimes
    BY <1>10 DEF vars, tables
  <2>2. TypeOK'
    BY <1>0, <2>1 DEF TypeOK
  <2>3. ASSUME NEW k \in Keys PROVE KeyInv(k)'
    <3>1. KeyInv(k)
      BY DEF IInv
    <3> QED
      BY <2>1, <3>1 DEF KeyInv, OneTable, TimesPast, HeldIsProvided, CountedIsFresh,
                        ConsentIsToProposal, DelayWasStarted, GetApprovals, StillCounts
  <2> QED
    BY <2>1, <2>2, <2>3 DEF IInv, ConsentedStep
<1> QED
  BY <1>1, <1>2, <1>3, <1>4, <1>5, <1>6, <1>8, <1>9, <1>10 DEF Next

\* The invariant holds in every reachable state.
LEMMA Invariance == Spec => []IInv
<1>1. IInv /\ [Next]_vars => IInv'
  BY NextIInv
<1> QED
  BY <1>1, InitIInv, PTL DEF Spec

-----------------------------------------------------------------------------
(* The results.                                                            *)

\* The tables of eosio.msig keep their types: rows are whole or absent, whatever contract version
\* wrote them.
THEOREM TypeCorrect == Spec => []TypeOK
<1>1. IInv => TypeOK
  BY DEF IInv
<1> QED
  BY <1>1, Invariance, PTL

\* get_approvals_and_adjust_table counts no level that took all its approvals back, whose actor
\* invalidated them or that approved another proposal, however often the list of the proposal
\* names it; and proposals and approvals come and go together.
THEOREM ApprovalsAreCurrent == Spec => []CountedApprovalsAreCurrent
<1>1. IInv => CountedApprovalsAreCurrent
  BY CountedConsent DEF IInv, KeyInv, OneTable, CountedApprovalsAreCurrent
<1> QED
  BY <1>1, Invariance, PTL

\* exec sends the actions of a proposal with the current consent of a sufficient set of levels,
\* to this very transaction, and not before its delay since a moment at which it was authorised,
\* later than any unapprove that left it unauthorised.
THEOREM ExecConsent == Spec => ExecutionIsConsented
<1>1. IInv /\ [Next]_vars => ConsentedStep
  BY NextIInv
<1>2. Spec => [][ConsentedStep]_vars
  BY <1>1, Invariance, PTL DEF Spec
<1> QED
  BY <1>2 DEF ExecutionIsConsented, ConsentedStep
-----------------------------------------------------------------------------
(* eosio.token.                                                            *)

\* The inductive invariant.
TokenInv == TokenTypeOK /\ SupplyIsHeld /\ RowsMatchToken

\* Tables start empty.
LEMMA InitTokenInv == TokenInit => TokenInv
<1> SUFFICES ASSUME TokenInit PROVE TokenInv
  OBVIOUS
<1>1. TokenTypeOK
  BY DEF TokenInit, TokenTypeOK
<1>2. ASSUME NEW c \in Codes
      PROVE  supply[c] = SumOver(amount[c]) /\ supply[c] <= max_supply[c]
  <2>1. amount[c] = [a \in Owners |-> 0]
    BY DEF TokenInit
  <2> QED
    BY <2>1, SumOfZeros DEF TokenInit
<1>3. RowsMatchToken
  BY DEF TokenInit, RowsMatchToken
<1> QED
  BY <1>1, <1>2, <1>3 DEF TokenInv, SupplyIsHeld

\* Changing the balances of one code keeps the sums of the others.
LEMMA HeldAfter ==
  ASSUME TokenInv, NEW c \in Codes, NEW row \in [Owners -> Nat], NEW s \in Nat,
         amount' = [amount EXCEPT ![c] = row], supply' = [supply EXCEPT ![c] = s],
         max_supply' = max_supply, s = SumOver(row), s <= max_supply[c]
  PROVE  SupplyIsHeld'
<1> SUFFICES ASSUME NEW d \in Codes
             PROVE  supply'[d] = SumOver(amount'[d]) /\ supply'[d] <= max_supply'[d]
  BY DEF SupplyIsHeld
<1>1. amount \in [Codes -> [Owners -> Nat]] /\ supply \in [Codes -> Nat]
  BY DEF TokenInv, TokenTypeOK
<1>2. CASE d = c
  BY <1>1, <1>2
<1>3. CASE d # c
  <2>1. supply'[d] = supply[d] /\ amount'[d] = amount[d]
    BY <1>1, <1>3
  <2> QED
    BY <2>1 DEF TokenInv, SupplyIsHeld
<1> QED
  BY <1>2, <1>3

\* Creating a token keeps the invariant: its code has no row, hence no balance.
LEMMA CreateTokenInv ==
  ASSUME TokenInv, NEW who \in Owners, NEW c \in Codes, NEW p \in Precisions, NEW max \in Int,
         create(who, c, p, max)
  PROVE  TokenInv'
<1>1. TokenTypeOK
  BY DEF TokenInv
<1>2. max \in Nat
  BY DEF create
<1>3. TokenTypeOK'
  BY <1>1, <1>2 DEF create, TokenTypeOK, accounts
<1>4. \A a \in Owners : <<c, a>> \notin rows /\ amount[c][a] = 0
  BY DEF TokenInv, RowsMatchToken, create
<1>5. amount[c] = [a \in Owners |-> 0]
  BY <1>1, <1>4 DEF TokenTypeOK
<1>6. SumOver(amount[c]) = 0
  BY <1>5, SumOfZeros
<1>7. SupplyIsHeld'
  <2> SUFFICES ASSUME NEW d \in Codes
               PROVE  supply'[d] = SumOver(amount'[d]) /\ supply'[d] <= max_supply'[d]
    BY DEF SupplyIsHeld
  <2>1. amount' = amount /\ supply' = [supply EXCEPT ![c] = 0] /\ max_supply' = [max_supply EXCEPT ![c] = max]
    BY DEF create, accounts
  <2>2. CASE d = c
    BY <1>1, <1>2, <1>6, <2>1, <2>2 DEF TokenTypeOK
  <2>3. CASE d # c
    <3>1. supply'[d] = supply[d] /\ max_supply'[d] = max_supply[d]
      BY <1>1, <2>1, <2>3 DEF TokenTypeOK
    <3> QED
      BY <2>1, <3>1 DEF TokenInv, SupplyIsHeld
  <2> QED
    BY <2>2, <2>3
<1>8. RowsMatchToken'
  <2> SUFFICES ASSUME NEW d \in Codes, NEW a \in Owners
               PROVE  IF <<d, a>> \in rows THEN d \in created' /\ rowPrecision[<<d, a>>] = precision'[d]
                                           ELSE amount[d][a] = 0
    BY DEF RowsMatchToken, create, accounts
  <2>1. CASE <<d, a>> \in rows
    <3>1. d # c /\ d \in created /\ rowPrecision[<<d, a>>] = precision[d]
      BY <1>4, <2>1 DEF TokenInv, RowsMatchToken
    <3> QED
      BY <1>1, <2>1, <3>1 DEF create, TokenTypeOK
  <2>2. CASE <<d, a>> \notin rows
    BY <2>2 DEF TokenInv, RowsMatchToken
  <2> QED
    BY <2>1, <2>2
<1> QED
  BY <1>3, <1>7, <1>8 DEF TokenInv

\* A row added by add_balance or open matches its token.
LEMMA RowsAfterAdd ==
  ASSUME TokenInv, NEW c \in Codes, NEW p \in Precisions, NEW to \in Owners,
         IsSymbol(c, p), AddRow(c, p, to), created' = created, precision' = precision,
         \A d \in Codes, a \in Owners : <<d, a>> \notin rows' => amount'[d][a] = amount[d][a]
  PROVE  RowsMatchToken' /\ rows' \subseteq Codes \X Owners /\ rowPrecision' \in [Codes \X Owners -> Precisions]
<1>1. TokenTypeOK
  BY DEF TokenInv
<1>2. rows' \subseteq Codes \X Owners /\ rowPrecision' \in [Codes \X Owners -> Precisions]
  BY <1>1 DEF TokenTypeOK, AddRow
<1>3. ASSUME NEW d \in Codes, NEW a \in Owners, <<d, a>> \in rows'
      PROVE  d \in created /\ rowPrecision'[<<d, a>>] = precision[d]
  <2>1. CASE <<d, a>> \in rows
    <3>1. d \in created /\ rowPrecision[<<d, a>>] = precision[d]
      BY <2>1 DEF TokenInv, RowsMatchToken
    <3>2. rowPrecision'[<<d, a>>] = rowPrecision[<<d, a>>]
      BY <1>1, <2>1 DEF AddRow, TokenTypeOK
    <3> QED
      BY <3>1, <3>2
  <2>2. CASE <<d, a>> \notin rows
    <3>1. d = c /\ a = to
      BY <1>3, <2>2 DEF AddRow
    <3>2. rowPrecision'[<<d, a>>] = p
      BY <1>1, <2>2, <3>1 DEF AddRow, TokenTypeOK
    <3> QED
      BY <3>1, <3>2 DEF IsSymbol
  <2> QED
    BY <2>1, <2>2
<1>4. ASSUME NEW d \in Codes, NEW a \in Owners, <<d, a>> \notin rows'
      PROVE  amount'[d][a] = 0
  <2>1. <<d, a>> \notin rows /\ amount'[d][a] = amount[d][a]
    BY <1>4 DEF AddRow
  <2> QED
    BY <2>1 DEF TokenInv, RowsMatchToken
<1> QED
  BY <1>2, <1>3, <1>4 DEF RowsMatchToken

\* Issuing keeps the invariant.
LEMMA IssueTokenInv ==
  ASSUME TokenInv, NEW c \in Codes, NEW p \in Precisions, NEW q \in Int, issue(c, p, q)
  PROVE  TokenInv'
<1> DEFINE to == issuer[c]
           row == [amount[c] EXCEPT ![to] = amount[c][to] + q]
<1>1. TokenTypeOK /\ to \in Owners /\ q \in Nat
  BY DEF TokenInv, TokenTypeOK, issue
<1>2. amount[c] \in [Owners -> Nat] /\ amount[c][to] \in Nat /\ supply[c] \in Nat /\ max_supply[c] \in Nat
  BY <1>1 DEF TokenTypeOK
<1>3. /\ amount' = [amount EXCEPT ![c] = row] /\ supply' = [supply EXCEPT ![c] = supply[c] + q]
      /\ created' = created /\ precision' = precision /\ max_supply' = max_supply /\ issuer' = issuer
      /\ IsSymbol(c, p) /\ AddRow(c, p, to) /\ q <= max_supply[c] - supply[c]
  BY DEF issue, stat, Available
<1>4. row \in [Owners -> Nat] /\ amount[c][to] + q \in Nat
  BY <1>1, <1>2
<1>5. IsFiniteSet(Owners)
  BY TokenAssumption
<1>6. SumOver(row) = SumOver(amount[c]) - amount[c][to] + (amount[c][to] + q)
  BY <1>1, <1>2, <1>4, <1>5, SumUpdate
<1>7. SumOver(amount[c]) = supply[c]
  BY DEF TokenInv, SupplyIsHeld
<1> HIDE DEF to, row
<1>8. supply[c] + q \in Nat /\ supply[c] + q = SumOver(row) /\ supply[c] + q <= max_supply[c]
  BY <1>1, <1>2, <1>3, <1>6, <1>7
<1>9. SupplyIsHeld'
  BY <1>3, <1>4, <1>8, HeldAfter
<1>10. \A d \in Codes, a \in Owners : <<d, a>> \notin rows' => amount'[d][a] = amount[d][a]
  BY <1>1, <1>2, <1>3 DEF AddRow, TokenTypeOK, row
<1>11. RowsMatchToken' /\ rows' \subseteq Codes \X Owners /\ rowPrecision' \in [Codes \X Owners -> Precisions]
  BY <1>1, <1>3, <1>10, RowsAfterAdd
<1>12. amount' \in [Codes -> [Owners -> Nat]] /\ supply' \in [Codes -> Nat]
  BY <1>1, <1>3, <1>4, <1>8 DEF TokenTypeOK
<1> QED
  BY <1>1, <1>3, <1>9, <1>11, <1>12 DEF TokenInv, TokenTypeOK

\* Retiring keeps the invariant; the supply covers the balance that is burnt.
LEMMA RetireTokenInv ==
  ASSUME TokenInv, NEW c \in Codes, NEW p \in Precisions, NEW q \in Int, retire(c, p, q)
  PROVE  TokenInv'
<1> DEFINE from == issuer[c]
           row == [amount[c] EXCEPT ![from] = amount[c][from] - q]
<1>1. TokenTypeOK /\ from \in Owners /\ q \in Nat
  BY DEF TokenInv, TokenTypeOK, retire
<1>2. amount[c] \in [Owners -> Nat] /\ amount[c][from] \in Nat /\ supply[c] \in Nat /\ max_supply[c] \in Nat
  BY <1>1 DEF TokenTypeOK
<1>3. /\ amount' = [amount EXCEPT ![c] = row] /\ supply' = [supply EXCEPT ![c] = supply[c] - q]
      /\ created' = created /\ precision' = precision /\ max_supply' = max_supply /\ issuer' = issuer
      /\ rows' = rows /\ rowPrecision' = rowPrecision /\ amount[c][from] >= q /\ <<c, from>> \in rows
  BY DEF retire, stat, CanSub
<1>4. row \in [Owners -> Nat] /\ amount[c][from] - q \in Nat
  BY <1>1, <1>2, <1>3
<1>5. IsFiniteSet(Owners)
  BY TokenAssumption
<1>6. SumOver(row) = SumOver(amount[c]) - amount[c][from] + (amount[c][from] - q)
  BY <1>1, <1>2, <1>4, <1>5, SumUpdate
<1>7. SumOver(amount[c]) = supply[c] /\ supply[c] <= max_supply[c]
  BY DEF TokenInv, SupplyIsHeld
<1>8. amount[c][from] <= SumOver(amount[c])
  BY <1>1, <1>2, <1>5, SumBoundsEntry
<1> HIDE DEF from, row
<1>9. supply[c] - q \in Nat /\ supply[c] - q = SumOver(row) /\ supply[c] - q <= max_supply[c]
  BY <1>1, <1>2, <1>3, <1>6, <1>7, <1>8
<1>10. SupplyIsHeld'
  BY <1>3, <1>4, <1>9, HeldAfter
<1>11. RowsMatchToken'
  <2> SUFFICES ASSUME NEW d \in Codes, NEW a \in Owners
               PROVE  IF <<d, a>> \in rows THEN d \in created /\ rowPrecision[<<d, a>>] = precision[d]
                                           ELSE amount'[d][a] = 0
    BY <1>3 DEF RowsMatchToken
  <2>1. CASE <<d, a>> \in rows
    BY <2>1 DEF TokenInv, RowsMatchToken
  <2>2. CASE <<d, a>> \notin rows
    <3>1. amount'[d][a] = amount[d][a]
      BY <1>1, <1>2, <1>3, <2>2 DEF TokenTypeOK, row
    <3> QED
      BY <2>2, <3>1 DEF TokenInv, RowsMatchToken
  <2> QED
    BY <2>1, <2>2
<1>12. amount' \in [Codes -> [Owners -> Nat]] /\ supply' \in [Codes -> Nat]
  BY <1>1, <1>3, <1>4, <1>9 DEF TokenTypeOK
<1> QED
  BY <1>1, <1>3, <1>10, <1>11, <1>12 DEF TokenInv, TokenTypeOK

\* A transfer keeps the sum of the balances.
LEMMA TransferTokenInv ==
  ASSUME TokenInv, NEW from \in Owners, NEW to \in Owners, NEW c \in Codes, NEW p \in Precisions,
         NEW q \in Int, transfer(from, to, c, p, q)
  PROVE  TokenInv'
<1> DEFINE debited == [amount[c] EXCEPT ![from] = amount[c][from] - q]
           row == [debited EXCEPT ![to] = debited[to] + q]
<1>1. TokenTypeOK /\ from # to /\ q \in Nat
  BY DEF TokenInv, transfer
<1>2. amount[c] \in [Owners -> Nat] /\ amount[c][from] \in Nat /\ amount[c][to] \in Nat
      /\ supply[c] \in Nat /\ max_supply[c] \in Nat
  BY <1>1 DEF TokenTypeOK
<1>3. /\ amount' = [amount EXCEPT ![c] = row] /\ supply' = supply
      /\ created' = created /\ precision' = precision /\ max_supply' = max_supply /\ issuer' = issuer
      /\ IsSymbol(c, p) /\ AddRow(c, p, to) /\ amount[c][from] >= q /\ <<c, from>> \in rows
  BY DEF transfer, stat, CanSub, Moved
<1>4. debited \in [Owners -> Nat] /\ amount[c][from] - q \in Nat
  BY <1>1, <1>2, <1>3
<1>5. debited[to] \in Nat /\ debited[to] + q \in Nat /\ row \in [Owners -> Nat]
  BY <1>1, <1>4
<1>6. IsFiniteSet(Owners)
  BY TokenAssumption
<1>7. SumOver(debited) = SumOver(amount[c]) - amount[c][from] + (amount[c][from] - q)
  BY <1>2, <1>4, <1>6, SumUpdate
<1>8. SumOver(row) = SumOver(debited) - debited[to] + (debited[to] + q)
  <2> DEFINE v == debited[to] + q
  <2>1. debited \in [Owners -> Nat] /\ v \in Nat
    BY <1>4, <1>5
  <2> HIDE DEF debited, v
  <2>2. SumOver([debited EXCEPT ![to] = v]) = SumOver(debited) - debited[to] + v
    BY <1>6, <2>1, SumUpdate
  <2> QED
    BY <2>2 DEF v
<1>9. SumOver(amount[c]) = supply[c] /\ supply[c] <= max_supply[c]
  BY DEF TokenInv, SupplyIsHeld
<1>10. \A d \in Codes, a \in Owners : <<d, a>> \notin rows' => amount'[d][a] = amount[d][a]
  BY <1>1, <1>2, <1>3, <1>4 DEF AddRow, TokenTypeOK
<1> HIDE DEF debited, row
<1>11. supply[c] = SumOver(row)
  BY <1>1, <1>2, <1>5, <1>7, <1>8, <1>9
<1>12. supply' = [supply EXCEPT ![c] = supply[c]]
  BY <1>1, <1>3 DEF TokenTypeOK
<1>13. SupplyIsHeld'
  BY <1>2, <1>3, <1>5, <1>9, <1>11, <1>12, HeldAfter
<1>14. RowsMatchToken' /\ rows' \subseteq Codes \X Owners /\ rowPrecision' \in [Codes \X Owners -> Precisions]
  BY <1>3, <1>10, RowsAfterAdd
<1>15. amount' \in [Codes -> [Owners -> Nat]]
  BY <1>1, <1>3, <1>5 DEF TokenTypeOK
<1> QED
  BY <1>1, <1>3, <1>13, <1>14, <1>15 DEF TokenInv, TokenTypeOK

\* Opening and closing rows keep the invariant: a row that goes is empty.
LEMMA RowsTokenInv ==
  ASSUME TokenInv, NEW owner \in Owners, NEW c \in Codes,
         (\E p \in Precisions : open(owner, c, p)) \/ close(owner, c)
  PROVE  TokenInv'
<1>1. TokenTypeOK
  BY DEF TokenInv
<1>2. ASSUME NEW p \in Precisions, open(owner, c, p) PROVE TokenInv'
  <2>1. /\ IsSymbol(c, p) /\ AddRow(c, p, owner) /\ amount' = amount /\ supply' = supply
        /\ created' = created /\ precision' = precision /\ max_supply' = max_supply /\ issuer' = issuer
    BY <1>2 DEF open, stat
  <2>2. RowsMatchToken' /\ rows' \subseteq Codes \X Owners /\ rowPrecision' \in [Codes \X Owners -> Precisions]
    BY <2>1, RowsAfterAdd
  <2> QED
    BY <1>1, <2>1, <2>2 DEF TokenInv, TokenTypeOK, SupplyIsHeld
<1>3. ASSUME close(owner, c) PROVE TokenInv'
  <2>1. /\ rows' = rows \ {<<c, owner>>} /\ amount[c][owner] = 0
        /\ amount' = [amount EXCEPT ![c] = [amount[c] EXCEPT ![owner] = 0]]
        /\ supply' = supply /\ rowPrecision' = rowPrecision
        /\ created' = created /\ precision' = precision /\ max_supply' = max_supply /\ issuer' = issuer
    BY <1>3 DEF close, CanClose, stat
  <2>2. [amount[c] EXCEPT ![owner] = 0] = amount[c]
    BY <1>1, <2>1 DEF TokenTypeOK
  <2>3. amount' = amount
    BY <1>1, <2>1, <2>2 DEF TokenTypeOK
  <2>4. RowsMatchToken'
    <3> SUFFICES ASSUME NEW d \in Codes, NEW a \in Owners
                 PROVE  IF <<d, a>> \in rows' THEN d \in created' /\ rowPrecision'[<<d, a>>] = precision'[d]
                                              ELSE amount'[d][a] = 0
      BY DEF RowsMatchToken
    <3>1. CASE d = c /\ a = owner
      <4>1. <<d, a>> \notin rows' /\ amount'[d][a] = 0
        BY <2>1, <2>3, <3>1
      <4> QED
        BY <4>1
    <3>2. CASE d # c \/ a # owner
      <4>1. <<d, a>> \in rows' <=> <<d, a>> \in rows
        BY <2>1, <3>2
      <4>2. rowPrecision' = rowPrecision /\ created' = created /\ precision' = precision
        BY <2>1
      <4> QED
        BY <2>3, <4>1, <4>2 DEF TokenInv, RowsMatchToken
    <3> QED
      BY <3>1, <3>2
  <2> QED
    BY <1>1, <2>1, <2>3, <2>4 DEF TokenInv, TokenTypeOK, SupplyIsHeld
<1> QED
  BY <1>2, <1>3

\* Every step keeps the invariant.
LEMMA NextTokenInv ==
  ASSUME TokenInv, [TokenNext]_tokenVars
  PROVE  TokenInv'
<1>0. Amounts \subseteq Int
  BY TokenAssumption
<1>1. CASE Create
  BY <1>0, <1>1, CreateTokenInv DEF Create
<1>2. CASE Issue
  BY <1>0, <1>2, IssueTokenInv DEF Issue
<1>3. CASE Retire
  BY <1>0, <1>3, RetireTokenInv DEF Retire
<1>4. CASE Transfer
  BY <1>0, <1>4, TransferTokenInv DEF Transfer
<1>5. CASE Open \/ Close
  BY <1>5, RowsTokenInv DEF Open, Close
<1>6. CASE UNCHANGED tokenVars
  BY <1>6 DEF tokenVars, stat, accounts, TokenInv, TokenTypeOK, SupplyIsHeld, RowsMatchToken
<1> QED
  BY <1>1, <1>2, <1>3, <1>4, <1>5, <1>6 DEF TokenNext

\* The invariant holds in every reachable state.
LEMMA TokenInvariance == TokenSpec => []TokenInv
<1>1. TokenInit => TokenInv
  BY InitTokenInv
<1>2. TokenInv /\ [TokenNext]_tokenVars => TokenInv'
  BY NextTokenInv
<1> QED
  BY <1>1, <1>2, PTL DEF TokenSpec

-----------------------------------------------------------------------------
\* No supply or balance of eosio.token is ever negative.
THEOREM TokenTypeCorrect == TokenSpec => []TokenTypeOK
<1>1. TokenInv => TokenTypeOK
  BY DEF TokenInv
<1> QED
  BY <1>1, TokenInvariance, PTL

\* The balances of eosio.token add up to the supply, which stays within the maximum.
THEOREM SupplyHeld == TokenSpec => []SupplyIsHeld
<1>1. TokenInv => SupplyIsHeld
  BY DEF TokenInv
<1> QED
  BY <1>1, TokenInvariance, PTL

\* The rows of accounts have the precision of their token in stat.
THEOREM RowsMatch == TokenSpec => []RowsMatchToken
<1>1. TokenInv => RowsMatchToken
  BY DEF TokenInv
<1> QED
  BY <1>1, TokenInvariance, PTL
=============================================================================
