------------------------- MODULE Revocation_proofs -------------------------
(***************************************************************************)
(* Proofs about revocation, for any number of wallets, approvals, epochs   *)
(* and operation IDs.                                                      *)
(***************************************************************************)
EXTENDS Revocation, TLAPS

\* wallet_epoch is an epoch.
LEMMA EpochTyped ==
    ASSUME TypeOK, NEW w \in Wallets
    PROVE  /\ Epoch(w) \in 0 .. MaxEpoch
           /\ walletRows[w] # NoWalletRow => Epoch(w) = walletRows[w]
           /\ walletRows[w] <= Epoch(w)
  BY RevocationAssumption DEF TypeOK, Epoch, NoWalletRow

-----------------------------------------------------------------------------
(* Type correctness *)

\* A clock observation keeps the clock's type.
LEMMA TimeTyped ==
    ASSUME TimeTypeOK, ObserveTime \/ UNCHANGED timeVars
    PROVE  TimeTypeOK'
  BY MaxTimeAssumption DEF TimeTypeOK, ObserveTime, ClockConditions, timeVars

\* A refused request changes no row.
LEMMA RefusedTyped ==
    ASSUME TypeOK, NEW r \in Requests, NEW code \in Codes, Refused(r, code),
           TimeTypeOK', latched' \in BOOLEAN
    PROVE  TypeOK'
  BY DEF TypeOK, Refused, evidence

\* An answered revoke_approval.
LEMMA RevokeAnswered ==
    ASSUME TypeOK, NEW r \in RevokeRequests, Answer(r, PublicStatus(r.approval))
    PROVE  /\ reply' \in [request : Requests, code : Codes] \union {Nothing}
           /\ acknowledged' \subseteq
                 [request : RevokeRequests, answer : {"revoked", "in_force"}]
                   \union [request : RevokeAllRequests, answer : RevocationState]
  BY DEF TypeOK, Answer, PublicStatus, Requests, Codes

\* An answered revoke_all.
LEMMA RevokeAllAnswered ==
    ASSUME TypeOK, NEW r \in RevokeAllRequests, NEW state \in RevocationState,
           Answer(r, state)
    PROVE  /\ reply' \in [request : Requests, code : Codes] \union {Nothing}
           /\ acknowledged' \subseteq
                 [request : RevokeRequests, answer : {"revoked", "in_force"}]
                   \union [request : RevokeAllRequests, answer : RevocationState]
  BY DEF TypeOK, Answer, Requests, Codes

\* A stored row is a journal row.
LEMMA StoreTyped ==
    ASSUME TypeOK, TimeTypeOK', NEW r, NEW result, Store(r, effective', result),
           \/ r \in RevokeRequests /\ result \in ApprovalTombstone
           \/ r \in RevokeAllRequests /\ result \in RevocationState
    PROVE  journal' \in [RevocationIds -> JournalRow \union {Nothing}]
  <1>1. [request |-> r, at |-> effective', result |-> result] \in JournalRow
    BY DEF JournalRow, TimeTypeOK
  <1> QED
    BY <1>1 DEF TypeOK, Store

\* The replayed result of a revoke_all is a revocation state.
LEMMA ReplayTyped ==
    ASSUME TypeOK, NEW r \in RevokeAllRequests, NEW at, Journaled(r, at)
    PROVE  journal[r.id].result \in RevocationState
  <1>1. journal[r.id] \in JournalRow
    BY DEF TypeOK, Journaled, RevokeAllRequests
  <1> QED
    BY <1>1 DEF Journaled, JournalRow, RevokeAllRequests, RevokeRequests

\* Every step keeps the types.
LEMMA TypeStep ==
    ASSUME TypeOK, [Next]_vars
    PROVE  TypeOK'
  <1> USE DEF evidence
  <1>1. ASSUME NEW r \in Requests, RefuseConflict(r) \/ EngineFailure(r)
        PROVE  TypeOK'
    <2>1. TimeTypeOK' /\ latched' \in BOOLEAN
      BY <1>1, TimeTyped DEF RefuseConflict, EngineFailure, Observe, TypeOK
    <2> QED
      BY <1>1, <2>1, RefusedTyped DEF RefuseConflict, EngineFailure, Codes
  <1>2. ASSUME NEW r \in RevokeRequests, RefuseRevoke(r)
        PROVE  TypeOK'
    <2>1. TimeTypeOK' /\ latched' \in BOOLEAN
      BY <1>2, TimeTyped DEF RefuseRevoke, Observe, TypeOK
    <2> QED
      BY <1>2, <2>1, RefusedTyped DEF RefuseRevoke, Codes, Requests
  <1>3. ASSUME NEW r \in RevokeAllRequests, RefuseRevokeAll(r)
        PROVE  TypeOK'
    <2>1. TimeTypeOK' /\ latched' \in BOOLEAN
      BY <1>3, TimeTyped DEF RefuseRevokeAll, Observe, TypeOK
    <2> QED
      BY <1>3, <2>1, RefusedTyped DEF RefuseRevokeAll, Codes, Requests
  <1>4. ASSUME NEW r \in RevokeRequests, ReplayRevoke(r)
        PROVE  TypeOK'
    <2>1. TimeTypeOK' /\ latched' \in BOOLEAN
      BY <1>4, TimeTyped DEF ReplayRevoke, Observe, TypeOK
    <2> QED
      BY <1>4, <2>1, RevokeAnswered DEF ReplayRevoke, TypeOK
  <1>5. ASSUME NEW r \in RevokeRequests, ReconcileRevoke(r)
        PROVE  TypeOK'
    <2>1. TimeTypeOK' /\ latched' \in BOOLEAN
      BY <1>5, TimeTyped DEF ReconcileRevoke, Observe, TypeOK
    <2>2. approvalTombstones[r.approval] \in ApprovalTombstone
      BY <1>5 DEF ReconcileRevoke, TypeOK, RevokeRequests
    <2>3. journal' \in [RevocationIds -> JournalRow \union {Nothing}]
      BY <1>5, <2>1, <2>2, StoreTyped DEF ReconcileRevoke
    <2> QED
      BY <1>5, <2>1, <2>3, RevokeAnswered DEF ReconcileRevoke, TypeOK
  <1>6. ASSUME NEW r \in RevokeRequests, RevokeApproval(r)
        PROVE  TypeOK'
    <2>1. TimeTypeOK' /\ latched' \in BOOLEAN
      BY <1>6, TimeTyped DEF RevokeApproval, Observe, TypeOK
    <2>2. NewApprovalTombstone(r, effective') \in ApprovalTombstone
      BY <2>1, RevocationAssumption, EpochTyped
      DEF NewApprovalTombstone, ApprovalTombstone, TimeTypeOK, RevokeRequests
    <2>3. journal' \in [RevocationIds -> JournalRow \union {Nothing}]
      BY <1>6, <2>1, <2>2, StoreTyped DEF RevokeApproval
    <2>4. /\ approvalTombstones' \in [Approvals -> ApprovalTombstone \union {Nothing}]
          /\ approvalRows' \in [Approvals -> {"absent", "active", "inactive"}]
      BY <1>6, <2>2 DEF RevokeApproval, TypeOK
    <2> QED
      BY <1>6, <2>1, <2>3, <2>4, RevokeAnswered DEF RevokeApproval, TypeOK
  <1>7. ASSUME NEW r \in RevokeAllRequests, ReplayRevokeAll(r)
        PROVE  TypeOK'
    <2>1. TimeTypeOK' /\ latched' \in BOOLEAN
      BY <1>7, TimeTyped DEF ReplayRevokeAll, Observe, TypeOK
    <2>2. journal[r.id].result \in RevocationState
      BY <1>7, ReplayTyped DEF ReplayRevokeAll
    <2> QED
      BY <1>7, <2>1, <2>2, RevokeAllAnswered DEF ReplayRevokeAll, TypeOK
  <1>8. ASSUME NEW r \in RevokeAllRequests, RevokeAll(r)
        PROVE  TypeOK'
    <2> DEFINE epoch == Epoch(r.wallet) + 1
    <2>1. TimeTypeOK' /\ latched' \in BOOLEAN
      BY <1>8, TimeTyped DEF RevokeAll, Observe, TypeOK
    <2>2. r.wallet \in Wallets /\ epoch \in 0 .. MaxEpoch
      BY <1>8, EpochTyped, RevocationAssumption
      DEF RevokeAll, EpochLeft, RevokeAllRequests
    <2>3. NewWalletTombstone(r, effective') \in WalletTombstone
      BY <2>1, <2>2 DEF NewWalletTombstone, WalletTombstone, TimeTypeOK, RevokeAllRequests
    <2>4. /\ walletTombstones' \in [Wallets -> WalletTombstone \union {Nothing}]
          /\ walletRows' \in [Wallets -> 0 .. MaxEpoch \union {NoWalletRow}]
          /\ approvalRows' \in [Approvals -> {"absent", "active", "inactive"}]
      BY <1>8, <2>2, <2>3 DEF RevokeAll, UpsertWalletRow, DeactivateAll, TypeOK
    <2>5. [tombstone |-> NewWalletTombstone(r, effective'),
           tombstoned |-> Tombstoned(r.wallet)] \in RevocationState
      BY <2>3 DEF RevocationState, Tombstoned
    <2>6. journal' \in [RevocationIds -> JournalRow \union {Nothing}]
      BY <1>8, <2>1, <2>5, StoreTyped DEF RevokeAll
    <2> QED
      BY <1>8, <2>1, <2>4, <2>5, <2>6, RevokeAllAnswered DEF RevokeAll, TypeOK
  <1>9. ASSUME NEW a \in Approvals, PersistApproval(a)
        PROVE  TypeOK'
    <2>1. /\ walletRows' \in [Wallets -> 0 .. MaxEpoch \union {NoWalletRow}]
          /\ approvalRows' \in [Approvals -> {"absent", "active", "inactive"}]
      BY <1>9, RevocationAssumption DEF PersistApproval, TypeOK
    <2> QED
      BY <1>9, <2>1 DEF PersistApproval, TypeOK, TimeTypeOK, timeVars
  <1>10. CASE Restart
    <2>1. latched' \in BOOLEAN
      BY <1>10 DEF Restart
    <2> QED
      BY <1>10, <2>1 DEF Restart, TypeOK, TimeTypeOK, timeVars
  <1>11. CASE UNCHANGED vars
    BY <1>11 DEF vars, TypeOK, TimeTypeOK, timeVars
  <1> QED
    BY <1>1, <1>2, <1>3, <1>4, <1>5, <1>6, <1>7, <1>8, <1>9, <1>10, <1>11
    DEF Next

\* Every reachable state of revocation is well typed: revoke_all's checked_add
\* keeps the epoch in range.
THEOREM TypeCorrect == Spec => []TypeOK
  <1>1. Init => TypeOK
    <2> SUFFICES ASSUME Init
                 PROVE  TypeOK
      OBVIOUS
    <2>1. TimeTypeOK
      BY MaxTimeAssumption DEF Init, TimeInit, TimeTypeOK, ClockConditions
    <2>2. latched \in BOOLEAN
      BY DEF Init
    <2> QED
      BY <2>1, <2>2 DEF Init, TypeOK
  <1>2. TypeOK /\ [Next]_vars => TypeOK'
    BY TypeStep
  <1> QED
    BY <1>1, <1>2, PTL DEF Spec

-----------------------------------------------------------------------------
(* Revocation is permanent *)

\* What an insert into the journal does to it.
LEMMA StoreEffect ==
    ASSUME TypeOK, NEW r \in Requests, NEW at, NEW result, Store(r, at, result)
    PROVE  /\ journal'[r.id] = [request |-> r, at |-> at, result |-> result]
           /\ journal'[r.id] # Nothing
           /\ r.id \in RevocationIds
           /\ \A i \in RevocationIds : i # r.id => journal'[i] = journal[i]
  BY DEF TypeOK, Store, Requests, RevokeRequests, RevokeAllRequests, Nothing

\* The requests clients were answered have operation IDs.
LEMMA AcknowledgedTyped ==
    ASSUME TypeOK
    PROVE  \A k \in acknowledged :
              /\ k.request \in Requests /\ k.request.id \in RevocationIds
              /\ k.request.kind = "revoke" => k.request \in RevokeRequests
              /\ k.request.kind # "revoke" =>
                   k.request \in RevokeAllRequests /\ k.answer \in RevocationState
  BY DEF TypeOK, Requests, RevokeRequests, RevokeAllRequests

\* A journal row by the kind of its request.
LEMMA JournalTyped ==
    ASSUME TypeOK, NEW i \in RevocationIds, journal[i] # Nothing
    PROVE  /\ journal[i].request.kind = "revoke" =>
                 journal[i].request \in RevokeRequests
           /\ journal[i].request.kind = "revoke_all" =>
                 /\ journal[i].request \in RevokeAllRequests
                 /\ journal[i].result \in RevocationState
           /\ journal[i].request.kind \in {"revoke", "revoke_all"}
  <1>1. journal[i] \in JournalRow
    BY DEF TypeOK
  <1> QED
    BY <1>1 DEF JournalRow, RevokeRequests, RevokeAllRequests

\* An answer with no change but itself: the replays.
LEMMA ReplayKeeps ==
    ASSUME TypeOK, RevocationInv, NEW r \in Requests, Journaled(r, effective'),
           UNCHANGED <<approvalRows, walletRows, evidence>>,
           NEW answer, Answer(r, answer),
           answer = IF r.kind = "revoke" THEN "revoked" ELSE journal[r.id].result
    PROVE  RevocationInv'
  <1> USE DEF evidence
  <1>1. EvidenceBindsRows' /\ JournalBornOut'
    BY DEF RevocationInv, EvidenceBindsRows, JournalBornOut, Epoch
  <1>2. AnswersJournaled'
    BY DEF RevocationInv, AnswersJournaled, Journaled, Answer
  <1> QED
    BY <1>1, <1>2 DEF RevocationInv

\* Both ways a revoke_approval is stored.
LEMMA RevokeKeeps ==
    ASSUME TypeOK, RevocationInv, NEW r \in RevokeRequests,
           ReconcileRevoke(r) \/ RevokeApproval(r)
    PROVE  RevocationInv'
  <1>0. r \in Requests /\ r.kind = "revoke" /\ r.approval \in Approvals
    BY DEF Requests, RevokeRequests
  <1>1. /\ journal[r.id] = Nothing /\ UNCHANGED <<walletRows, walletTombstones>>
        /\ \E result : Store(r, effective', result)
        /\ Answer(r, PublicStatus(r.approval))
    BY DEF ReconcileRevoke, RevokeApproval
  <1>2. /\ journal'[r.id] # Nothing /\ journal'[r.id].request = r
        /\ r.id \in RevocationIds
        /\ \A i \in RevocationIds : i # r.id => journal'[i] = journal[i]
    <2> PICK result : Store(r, effective', result)
      BY <1>1
    <2>1. /\ journal'[r.id] = [request |-> r, at |-> effective', result |-> result]
          /\ journal'[r.id] # Nothing
          /\ r.id \in RevocationIds
          /\ \A i \in RevocationIds : i # r.id => journal'[i] = journal[i]
      BY <1>0, StoreEffect
    <2> QED
      BY <2>1
  <1>3. /\ approvalRows'[r.approval] = "inactive"
        /\ \A a \in Approvals : a # r.approval => approvalRows'[a] = approvalRows[a]
        /\ \A a \in Approvals : a # r.approval =>
              approvalTombstones'[a] = approvalTombstones[a]
        /\ approvalTombstones'[r.approval].epoch <= Epoch(ApprovalWallet[r.approval])
    <2>1. CASE ReconcileRevoke(r)
      BY <1>0, <2>1 DEF ReconcileRevoke, RevocationInv, EvidenceBindsRows
    <2>2. CASE RevokeApproval(r)
      <3>1. Epoch(ApprovalWallet[r.approval]) \in 0 .. MaxEpoch
        BY <1>0, RevocationAssumption, EpochTyped
      <3>2. NewApprovalTombstone(r, effective').epoch = Epoch(ApprovalWallet[r.approval])
        BY DEF NewApprovalTombstone
      <3> QED
        BY <1>0, <2>2, <3>1, <3>2, RevocationAssumption DEF RevokeApproval, TypeOK
    <2> QED
      BY <2>1, <2>2
  <1>4. EvidenceBindsRows'
    <2>1. \A w \in Wallets : Epoch(w)' = Epoch(w)
      BY <1>1 DEF Epoch
    <2>2. \A a \in Approvals : ApprovalWallet[a] \in Wallets
      BY RevocationAssumption
    <2> QED
      BY <1>0, <1>1, <1>3, <2>1, <2>2 DEF RevocationInv, EvidenceBindsRows
  <1>5. JournalBornOut'
    <2> SUFFICES ASSUME NEW i \in RevocationIds, journal'[i] # Nothing
                 PROVE  /\ journal'[i].request.id = i
                        /\ journal'[i].request.kind = "revoke" =>
                             approvalRows'[journal'[i].request.approval] = "inactive"
                        /\ journal'[i].request.kind = "revoke_all" =>
                             journal'[i].result.tombstone.epoch
                               <= walletRows'[journal'[i].request.wallet]
      BY DEF JournalBornOut
    <2>1. CASE i = r.id
      BY <1>0, <1>2, <1>3, <2>1
    <2>2. CASE i # r.id
      <3>1. journal'[i] = journal[i]
        BY <1>2, <2>2
      <3>2. journal[i].request.kind = "revoke" => journal[i].request.approval \in Approvals
        BY <3>1, JournalTyped DEF RevokeRequests
      <3> QED
        BY <1>1, <1>3, <3>1, <3>2 DEF RevocationInv, JournalBornOut
    <2> QED
      BY <2>1, <2>2
  <1>6. AnswersJournaled'
    <2>1. PublicStatus(r.approval) = "revoked"
      BY <1>3 DEF PublicStatus
    <2>2. \A k \in acknowledged : k.request.id # r.id /\ k.request.id \in RevocationIds
      BY <1>1, AcknowledgedTyped DEF RevocationInv, AnswersJournaled
    <2>3. \A k \in acknowledged' : k \in acknowledged \/
             (k.request = r /\ k.answer = "revoked")
      BY <1>1, <2>1 DEF Answer
    <2> QED
      BY <1>0, <1>2, <2>2, <2>3 DEF RevocationInv, AnswersJournaled
  <1> QED
    BY <1>4, <1>5, <1>6 DEF RevocationInv

\* What revoke_all does to the rows.
LEMMA RevokeAllEffect ==
    ASSUME TypeOK, NEW r \in RevokeAllRequests, RevokeAll(r)
    PROVE  /\ r.wallet \in Wallets
           /\ walletRows'[r.wallet] = Epoch(r.wallet) + 1
           /\ \A w \in Wallets : w # r.wallet => walletRows'[w] = walletRows[w]
           /\ walletTombstones'[r.wallet].epoch = Epoch(r.wallet) + 1
           /\ \A w \in Wallets : w # r.wallet => walletTombstones'[w] = walletTombstones[w]
           /\ \A a \in Approvals :
                 approvalRows'[a] = IF ApprovalWallet[a] = r.wallet /\ approvalRows[a] # "absent"
                                    THEN "inactive" ELSE approvalRows[a]
           /\ UNCHANGED approvalTombstones
           /\ journal[r.id] = Nothing
  BY DEF TypeOK, RevokeAll, RevokeAllRequests, UpsertWalletRow, DeactivateAll,
         NewWalletTombstone

\* revoke_all moves the epoch and everything that is bound to it together.
LEMMA RevokeAllKeeps ==
    ASSUME TypeOK, RevocationInv, NEW r \in RevokeAllRequests, RevokeAll(r)
    PROVE  RevocationInv'
  <1>0. r \in Requests /\ r.kind = "revoke_all" /\ r.wallet \in Wallets
    BY DEF Requests, RevokeAllRequests
  <1> PICK n \in 0 .. MaxEpoch : n = Epoch(r.wallet)
    BY <1>0, EpochTyped
  <1>1. /\ walletRows'[r.wallet] = n + 1
        /\ \A w \in Wallets : w # r.wallet => walletRows'[w] = walletRows[w]
        /\ walletTombstones'[r.wallet].epoch = n + 1
        /\ \A w \in Wallets : w # r.wallet => walletTombstones'[w] = walletTombstones[w]
        /\ \A a \in Approvals :
              approvalRows'[a] = IF ApprovalWallet[a] = r.wallet /\ approvalRows[a] # "absent"
                                 THEN "inactive" ELSE approvalRows[a]
        /\ UNCHANGED approvalTombstones
        /\ journal[r.id] = Nothing
    BY RevokeAllEffect
  <1>2. \A w \in Wallets : /\ Epoch(w) \in 0 .. MaxEpoch /\ walletRows[w] <= Epoch(w)
                           /\ Epoch(w)' = IF w = r.wallet THEN n + 1 ELSE Epoch(w)
    <2>1. n + 1 # NoWalletRow
      BY RevocationAssumption DEF NoWalletRow
    <2> QED
      BY <1>1, <2>1, EpochTyped DEF Epoch
  <1> PICK state : /\ Store(r, effective', state) /\ Answer(r, state)
                   /\ state.tombstone.epoch = n + 1
    BY DEF RevokeAll, NewWalletTombstone
  <1>3. /\ journal'[r.id] # Nothing /\ journal'[r.id].request = r
        /\ journal'[r.id].result = state
        /\ r.id \in RevocationIds
        /\ \A i \in RevocationIds : i # r.id => journal'[i] = journal[i]
    <2>1. /\ journal'[r.id] = [request |-> r, at |-> effective', result |-> state]
          /\ journal'[r.id] # Nothing
          /\ r.id \in RevocationIds
          /\ \A i \in RevocationIds : i # r.id => journal'[i] = journal[i]
      BY <1>0, StoreEffect
    <2> QED
      BY <2>1
  <1>4. EvidenceBindsRows'
    <2>1. ASSUME NEW a \in Approvals, approvalTombstones[a] # Nothing
          PROVE  /\ approvalRows'[a] = "inactive"
                 /\ approvalTombstones[a].epoch <= Epoch(ApprovalWallet[a])'
      <3>1. /\ approvalRows[a] = "inactive"
            /\ approvalTombstones[a].epoch <= Epoch(ApprovalWallet[a])
        BY <2>1 DEF RevocationInv, EvidenceBindsRows
      <3>2. approvalTombstones[a].epoch \in Nat /\ ApprovalWallet[a] \in Wallets
        BY <2>1, RevocationAssumption DEF TypeOK, ApprovalTombstone
      <3> QED
        BY <1>1, <1>2, <3>1, <3>2
    <2>2. ASSUME NEW w \in Wallets, walletTombstones'[w] # Nothing
          PROVE  walletTombstones'[w].epoch = walletRows'[w]
      BY <1>1, <2>2 DEF RevocationInv, EvidenceBindsRows
    <2>3. ASSUME NEW a \in Approvals, approvalRows'[a] = "active"
          PROVE  ApprovalEpoch[a] = walletRows'[ApprovalWallet[a]]
      <3>1. /\ approvalRows[a] = "active" /\ ApprovalWallet[a] # r.wallet
            /\ ApprovalWallet[a] \in Wallets
        BY <1>1, <2>3, RevocationAssumption
      <3> QED
        BY <1>1, <3>1 DEF RevocationInv, EvidenceBindsRows
    <2> QED
      BY <1>1, <2>1, <2>2, <2>3 DEF EvidenceBindsRows
  <1>5. JournalBornOut'
    <2> SUFFICES ASSUME NEW i \in RevocationIds, journal'[i] # Nothing
                 PROVE  /\ journal'[i].request.id = i
                        /\ journal'[i].request.kind = "revoke" =>
                             approvalRows'[journal'[i].request.approval] = "inactive"
                        /\ journal'[i].request.kind = "revoke_all" =>
                             journal'[i].result.tombstone.epoch
                               <= walletRows'[journal'[i].request.wallet]
      BY DEF JournalBornOut
    <2>1. CASE i = r.id
      BY <1>0, <1>1, <1>3, <2>1
    <2>2. CASE i # r.id
      <3>1. journal'[i] = journal[i] /\ journal[i] # Nothing
        BY <1>3, <2>2
      <3>2. /\ journal[i].request.id = i
            /\ journal[i].request.kind = "revoke" =>
                 approvalRows[journal[i].request.approval] = "inactive"
            /\ journal[i].request.kind = "revoke_all" =>
                 journal[i].result.tombstone.epoch <= walletRows[journal[i].request.wallet]
        BY <3>1 DEF RevocationInv, JournalBornOut
      <3>3. CASE journal[i].request.kind = "revoke"
        <4>1. journal[i].request.approval \in Approvals
          BY <3>1, <3>3, JournalTyped DEF RevokeRequests
        <4> QED
          BY <1>1, <3>1, <3>2, <3>3, <4>1
      <3>4. CASE journal[i].request.kind = "revoke_all"
        <4>1. /\ journal[i].request.wallet \in Wallets
              /\ journal[i].result.tombstone.epoch \in Nat
          BY <3>1, <3>4, JournalTyped
          DEF RevokeAllRequests, RevocationState, WalletTombstone
        <4>2. walletRows[journal[i].request.wallet]
                <= walletRows'[journal[i].request.wallet]
          <5>1. walletRows[journal[i].request.wallet] \in Int
            BY <4>1 DEF TypeOK, NoWalletRow
          <5> QED
            BY <1>1, <1>2, <4>1, <5>1
        <4>3. /\ walletRows[journal[i].request.wallet] \in Int
              /\ walletRows'[journal[i].request.wallet] \in Int
          <5>1. walletRows[journal[i].request.wallet] \in Int
            BY <4>1 DEF TypeOK, NoWalletRow
          <5> QED
            BY <1>1, <4>1, <5>1
        <4> QED
          BY <3>1, <3>2, <3>4, <4>1, <4>2, <4>3
      <3> QED
        BY <3>1, <3>3, <3>4, JournalTyped
    <2> QED
      BY <2>1, <2>2
  <1>6. AnswersJournaled'
    <2>1. \A k \in acknowledged : k.request.id # r.id /\ k.request.id \in RevocationIds
      BY <1>1, AcknowledgedTyped DEF RevocationInv, AnswersJournaled
    <2>2. \A k \in acknowledged' : k \in acknowledged \/
             (k.request = r /\ k.answer = state)
      BY DEF Answer
    <2> QED
      BY <1>0, <1>3, <2>1, <2>2 DEF RevocationInv, AnswersJournaled
  <1> QED
    BY <1>4, <1>5, <1>6 DEF RevocationInv

\* An activation finds the wallet without a row, and then nothing is bound to
\* its epoch yet, or leaves the epoch alone.
LEMMA PersistKeeps ==
    ASSUME TypeOK, RevocationInv, NEW b \in Approvals, PersistApproval(b)
    PROVE  RevocationInv'
  <1> USE DEF evidence
  <1> PICK x \in Wallets : x = ApprovalWallet[b]
    BY RevocationAssumption
  <1>1. /\ UNCHANGED <<approvalTombstones, walletTombstones, journal, acknowledged>>
        /\ approvalRows[b] = "absent" /\ approvalRows'[b] = "active"
        /\ \A a \in Approvals : a # b => approvalRows'[a] = approvalRows[a]
        /\ walletRows'[x] = ApprovalEpoch[b]
        /\ walletRows[x] \in {NoWalletRow, ApprovalEpoch[b]}
        /\ \A w \in Wallets : w # x => walletRows'[w] = walletRows[w]
    BY DEF PersistApproval, EpochAgrees, TypeOK
  <1>2. /\ ApprovalEpoch[b] \in Nat
        /\ \A w \in Wallets : walletRows[w] \in Nat \/ walletRows[w] = NoWalletRow
        /\ \A w \in Wallets : walletRows[w] # NoWalletRow => walletRows'[w] = walletRows[w]
    BY <1>1, RevocationAssumption DEF TypeOK, NoWalletRow
  <1>3. EvidenceBindsRows'
    <2>1. ASSUME NEW a \in Approvals, approvalTombstones[a] # Nothing
          PROVE  /\ approvalRows'[a] = "inactive"
                 /\ approvalTombstones[a].epoch <= Epoch(ApprovalWallet[a])'
      <3>1. /\ approvalRows[a] = "inactive"
            /\ approvalTombstones[a].epoch <= Epoch(ApprovalWallet[a])
        BY <2>1 DEF RevocationInv, EvidenceBindsRows
      <3>2. approvalTombstones[a].epoch \in Nat /\ ApprovalWallet[a] \in Wallets
        BY <2>1, RevocationAssumption DEF TypeOK, ApprovalTombstone
      <3>3. Epoch(ApprovalWallet[a]) \in Nat /\ Epoch(ApprovalWallet[a])' \in Nat
        BY <1>1, <1>2, <3>2 DEF Epoch
      <3>4. Epoch(ApprovalWallet[a]) <= Epoch(ApprovalWallet[a])'
        BY <1>1, <1>2, <3>2 DEF Epoch, NoWalletRow
      <3> QED
        BY <1>1, <3>1, <3>2, <3>3, <3>4
    <2>2. ASSUME NEW w \in Wallets, walletTombstones[w] # Nothing
          PROVE  walletTombstones[w].epoch = walletRows'[w]
      <3>1. walletTombstones[w].epoch = walletRows[w]
        BY <2>2 DEF RevocationInv, EvidenceBindsRows
      <3>2. walletTombstones[w].epoch \in Nat
        BY <2>2 DEF TypeOK, WalletTombstone
      <3> QED
        BY <1>2, <3>1, <3>2 DEF NoWalletRow
    <2>3. ASSUME NEW a \in Approvals, approvalRows'[a] = "active"
          PROVE  ApprovalEpoch[a] = walletRows'[ApprovalWallet[a]]
      <3>1. CASE a = b
        BY <1>1, <3>1
      <3>2. CASE a # b
        <4>1. ApprovalEpoch[a] = walletRows[ApprovalWallet[a]]
          BY <1>1, <2>3, <3>2 DEF RevocationInv, EvidenceBindsRows
        <4>2. ApprovalEpoch[a] \in Nat /\ ApprovalWallet[a] \in Wallets
          BY RevocationAssumption
        <4> QED
          BY <1>2, <4>1, <4>2 DEF NoWalletRow
      <3> QED
        BY <3>1, <3>2
    <2> QED
      BY <1>1, <2>1, <2>2, <2>3 DEF EvidenceBindsRows
  <1>4. JournalBornOut'
    <2> SUFFICES ASSUME NEW i \in RevocationIds, journal[i] # Nothing
                 PROVE  /\ journal[i].request.id = i
                        /\ journal[i].request.kind = "revoke" =>
                             approvalRows'[journal[i].request.approval] = "inactive"
                        /\ journal[i].request.kind = "revoke_all" =>
                             journal[i].result.tombstone.epoch
                               <= walletRows'[journal[i].request.wallet]
      BY <1>1 DEF JournalBornOut
    <2>1. /\ journal[i].request.id = i
          /\ journal[i].request.kind = "revoke" =>
               approvalRows[journal[i].request.approval] = "inactive"
          /\ journal[i].request.kind = "revoke_all" =>
               journal[i].result.tombstone.epoch <= walletRows[journal[i].request.wallet]
      BY DEF RevocationInv, JournalBornOut
    <2>2. CASE journal[i].request.kind = "revoke"
      <3>1. journal[i].request.approval \in Approvals
        BY <2>2, JournalTyped DEF RevokeRequests
      <3> QED
        BY <1>1, <2>1, <2>2, <3>1
    <2>3. CASE journal[i].request.kind = "revoke_all"
      <3>1. /\ journal[i].request.wallet \in Wallets
            /\ journal[i].result.tombstone.epoch \in Nat
        BY <2>3, JournalTyped DEF RevokeAllRequests, RevocationState, WalletTombstone
      <3>2. walletRows[journal[i].request.wallet] # NoWalletRow
        BY <2>1, <2>3, <3>1 DEF NoWalletRow
      <3> QED
        BY <1>2, <2>1, <2>3, <3>1, <3>2
    <2> QED
      BY <2>2, <2>3, JournalTyped
  <1>5. AnswersJournaled'
    BY <1>1 DEF RevocationInv, AnswersJournaled
  <1> QED
    BY <1>3, <1>4, <1>5 DEF RevocationInv

\* Every step keeps the invariant.
LEMMA RevocationStep ==
    ASSUME TypeOK, RevocationInv, [Next]_vars
    PROVE  RevocationInv'
  <1> USE DEF evidence
  <1>1. CASE UNCHANGED <<approvalRows, walletRows, evidence, acknowledged>>
    BY <1>1 DEF RevocationInv, EvidenceBindsRows, JournalBornOut, AnswersJournaled,
                Epoch
  <1>2. ASSUME NEW r \in RevokeRequests, ReplayRevoke(r)
        PROVE  RevocationInv'
    <2>1. /\ r \in Requests /\ r.kind = "revoke" /\ r.id \in RevocationIds
          /\ Journaled(r, effective')
          /\ UNCHANGED <<approvalRows, walletRows, evidence>>
          /\ Answer(r, PublicStatus(r.approval))
      BY <1>2 DEF ReplayRevoke, Requests, RevokeRequests
    <2>2. PublicStatus(r.approval) = "revoked"
      BY <2>1 DEF PublicStatus, Journaled, RevocationInv, JournalBornOut
    <2> QED
      BY <2>1, <2>2, ReplayKeeps
  <1>3. ASSUME NEW r \in RevokeAllRequests, ReplayRevokeAll(r)
        PROVE  RevocationInv'
    <2>1. /\ r \in Requests /\ r.kind = "revoke_all"
          /\ Journaled(r, effective')
          /\ UNCHANGED <<approvalRows, walletRows, evidence>>
          /\ Answer(r, journal[r.id].result)
      BY <1>3 DEF ReplayRevokeAll, Requests, RevokeAllRequests
    <2> QED
      BY <2>1, ReplayKeeps
  <1>4. CASE \E r \in Requests : RefuseConflict(r) \/ EngineFailure(r)
    BY <1>1, <1>4 DEF RefuseConflict, EngineFailure, Refused
  <1>5. CASE \E r \in RevokeRequests : RefuseRevoke(r)
    BY <1>1, <1>5 DEF RefuseRevoke, Refused
  <1>6. CASE \E r \in RevokeAllRequests : RefuseRevokeAll(r)
    BY <1>1, <1>6 DEF RefuseRevokeAll, Refused
  <1>7. CASE Restart \/ UNCHANGED vars
    BY <1>1, <1>7 DEF Restart, vars
  <1> QED
    BY <1>2, <1>3, <1>4, <1>5, <1>6, <1>7, RevokeKeeps, RevokeAllKeeps, PersistKeeps
    DEF Next

\* The journal, the tombstones and the rows stay in agreement.
THEOREM RevocationSafe == Spec => []RevocationInv
  <1>1. Init => RevocationInv
    BY DEF Init, RevocationInv, EvidenceBindsRows, JournalBornOut, AnswersJournaled
  <1>2. TypeOK /\ RevocationInv /\ [Next]_vars => RevocationInv'
    BY RevocationStep
  <1> QED
    BY <1>1, <1>2, TypeCorrect, PTL DEF Spec

\* What a client was told is revoked never comes back into force.
THEOREM RevocationPermanent == Spec => []AcknowledgedStaysRevoked
  <1>1. TypeOK /\ RevocationInv => AcknowledgedStaysRevoked
    <2> SUFFICES ASSUME TypeOK, RevocationInv, NEW k \in acknowledged
                 PROVE  IF k.request.kind = "revoke"
                        THEN /\ k.answer = "revoked"
                             /\ approvalRows[k.request.approval] = "inactive"
                        ELSE \A a \in Approvals :
                                /\ ApprovalWallet[a] = k.request.wallet
                                /\ ApprovalEpoch[a] < k.answer.tombstone.epoch
                                => approvalRows[a] # "active"
      BY DEF AcknowledgedStaysRevoked
    <2> PICK i \in RevocationIds : i = k.request.id
      BY AcknowledgedTyped
    <2>1. /\ journal[i] # Nothing /\ journal[i].request = k.request
          /\ k.answer = IF k.request.kind = "revoke" THEN "revoked"
                        ELSE journal[i].result
      BY DEF RevocationInv, AnswersJournaled
    <2>2. CASE k.request.kind = "revoke"
      BY <2>1, <2>2 DEF RevocationInv, JournalBornOut
    <2>3. CASE k.request.kind # "revoke"
      <3>1. k.request \in RevokeAllRequests /\ k.answer \in RevocationState
        BY <2>3, AcknowledgedTyped
      <3>2. k.answer.tombstone.epoch <= walletRows[k.request.wallet]
        BY <2>1, <2>3, <3>1 DEF RevocationInv, JournalBornOut, RevokeAllRequests
      <3>3. ASSUME NEW a \in Approvals, ApprovalWallet[a] = k.request.wallet,
                   ApprovalEpoch[a] < k.answer.tombstone.epoch
            PROVE  approvalRows[a] # "active"
        <4>1. ApprovalEpoch[a] \in Nat /\ k.answer.tombstone.epoch \in Nat
          BY <3>1, RevocationAssumption DEF RevocationState, WalletTombstone
        <4>2. approvalRows[a] = "active" => ApprovalEpoch[a] = walletRows[ApprovalWallet[a]]
          BY DEF RevocationInv, EvidenceBindsRows
        <4> QED
          BY <3>2, <3>3, <4>1, <4>2
      <3> QED
        BY <2>3, <3>3
    <2> QED
      BY <2>2, <2>3
  <1> QED
    BY <1>1, TypeCorrect, RevocationSafe, PTL

\* One operation ID has one request and one answer.
THEOREM OneAnswer == Spec => []OneAnswerPerId
  <1>1. TypeOK /\ RevocationInv => OneAnswerPerId
    <2> SUFFICES ASSUME TypeOK, RevocationInv, NEW k \in acknowledged,
                        NEW l \in acknowledged, k.request.id = l.request.id
                 PROVE  k = l
      BY DEF OneAnswerPerId
    <2>1. k.request = l.request /\ k.answer = l.answer
      BY DEF RevocationInv, AnswersJournaled
    <2>2. /\ k = [request |-> k.request, answer |-> k.answer]
          /\ l = [request |-> l.request, answer |-> l.answer]
      BY DEF TypeOK
    <2> QED
      BY <2>1, <2>2
  <1> QED
    BY <1>1, TypeCorrect, RevocationSafe, PTL

-----------------------------------------------------------------------------
(* Refinement *)

\* Revocation implements the authority the signing path is modelled with:
\* each activation and revocation is one of its steps, the rest stutters.
THEOREM AuthorityImplemented == Spec => ImplementsAuthority
  <1> USE DEF evidence, Authority!authorityVars
  <1>1. Init => Authority!AuthorityInit
    BY DEF Init, Authority!AuthorityInit, Authority!NoRow, NoWalletRow
  <1>2. ASSUME TypeOK, RevocationInv, [Next]_vars
        PROVE  [Authority!AuthorityNext]_(Authority!authorityVars)
    <2>1. CASE UNCHANGED <<approvalRows, walletRows>>
      BY <2>1
    <2>2. ASSUME NEW r \in RevokeRequests, RevokeApproval(r)
          PROVE  Authority!AuthorityNext
      BY <2>2 DEF RevokeApproval, RevokeRequests, Authority!AuthorityNext,
                  Authority!DeactivateApproval
    <2>3. ASSUME NEW r \in RevokeAllRequests, RevokeAll(r)
          PROVE  Authority!AuthorityNext
      <3>1. r.wallet \in Wallets
        BY DEF RevokeAllRequests
      <3>2. Authority!WalletEpoch(r.wallet) = Epoch(r.wallet)
        BY DEF Authority!WalletEpoch, Epoch, Authority!NoRow, NoWalletRow
      <3>3. approvalRows' = [a \in Approvals |->
                 IF ApprovalWallet[a] = r.wallet /\ approvalRows[a] = "active"
                 THEN "inactive" ELSE approvalRows[a]]
        BY <1>2, <2>3 DEF RevokeAll, DeactivateAll, TypeOK
      <3>4. Authority!AdvanceEpoch(r.wallet)
        BY <2>3, <3>2, <3>3
        DEF RevokeAll, EpochLeft, UpsertWalletRow, Authority!AdvanceEpoch
      <3> QED
        BY <3>1, <3>4 DEF Authority!AuthorityNext
    <2>4. ASSUME NEW a \in Approvals, PersistApproval(a)
          PROVE  Authority!AuthorityNext
      <3>1. walletRows' = [walletRows EXCEPT ![ApprovalWallet[a]] = ApprovalEpoch[a]]
        BY <1>2, <2>4, RevocationAssumption DEF PersistApproval, EpochAgrees, TypeOK
      <3>2. Authority!PersistApproval(a)
        BY <2>4, <3>1
        DEF PersistApproval, EpochAgrees, Authority!PersistApproval, Authority!NoRow,
            NoWalletRow
      <3> QED
        BY <3>2 DEF Authority!AuthorityNext
    <2>5. CASE \E r \in Requests : RefuseConflict(r) \/ EngineFailure(r)
      BY <2>1, <2>5 DEF RefuseConflict, EngineFailure, Refused
    <2>6. CASE \E r \in RevokeRequests :
                  ReplayRevoke(r) \/ RefuseRevoke(r) \/ ReconcileRevoke(r)
      BY <2>1, <2>6 DEF ReplayRevoke, RefuseRevoke, ReconcileRevoke, Refused
    <2>7. CASE \E r \in RevokeAllRequests : ReplayRevokeAll(r) \/ RefuseRevokeAll(r)
      BY <2>1, <2>7 DEF ReplayRevokeAll, RefuseRevokeAll, Refused
    <2>8. CASE Restart \/ UNCHANGED vars
      BY <2>1, <2>8 DEF Restart, vars
    <2> QED
      BY <1>2, <2>2, <2>3, <2>4, <2>5, <2>6, <2>7, <2>8 DEF Next
  <1> QED
    BY <1>1, <1>2, TypeCorrect, RevocationSafe, PTL
    DEF Spec, ImplementsAuthority, Authority!AuthoritySpec
=============================================================================
