----------------------------- MODULE Revocation -----------------------------
(***************************************************************************)
(* Revocation: revoke_approval, revoke_all and persist_approval on their   *)
(* SQLite rows, as the Broker and the revocation control socket call them. *)
(*                                                                         *)
(* Neither handler awaits between its clock observation, its transaction   *)
(* and its reply, so each is one action.  The observation is a transaction *)
(* of its own: it stays when the revocation is refused.  A reply may be    *)
(* lost with the process or the connection, and any request may be sent    *)
(* again.  Ceremony and surface checks on an activation only narrow it and *)
(* are left out; so is restore_backup, which runs without a serving Signer.*)
(***************************************************************************)
EXTENDS EffectiveTime, FiniteSets

CONSTANTS
    Wallets,
    Approvals,
    ApprovalWallet,     \* wallet_id in the terms of an approval
    ApprovalEpoch,      \* wallet_revocation_epoch in those terms
    MaxEpoch,           \* the largest epoch; u64::MAX in the code
    RevocationIds,      \* operation_id of revocation requests
    Reasons

ASSUME RevocationAssumption ==
    /\ MaxEpoch \in Nat
    /\ ApprovalWallet \in [Approvals -> Wallets]
    /\ ApprovalEpoch \in [Approvals -> 0 .. MaxEpoch]

VARIABLES
    approvalRows,       \* approvals: the active flag, or absent
    walletRows,         \* wallet_state.revocation_epoch, or NoWalletRow
    approvalTombstones, \* approval_tombstones rows
    walletTombstones,   \* wallet_tombstones rows
    journal,            \* revocation_operations rows
    latched,            \* audit_degraded
    reply,              \* the reply being written
    acknowledged        \* history: the revocations a client was told of

evidence == <<approvalTombstones, walletTombstones, journal>>
vars == <<timeVars, approvalRows, walletRows, evidence, latched, reply,
          acknowledged>>

NoWalletRow == -1
Nothing == [row |-> "none"]  \* a missing row

RevokeRequests ==
    [kind : {"revoke"}, id : RevocationIds, approval : Approvals, reason : Reasons]

RevokeAllRequests ==
    [kind : {"revoke_all"}, id : RevocationIds, wallet : Wallets]

Requests == RevokeRequests \union RevokeAllRequests

ApprovalTombstone ==
    [epoch : 0 .. MaxEpoch, reason : Reasons, id : RevocationIds, at : 0 .. MaxTime]

WalletTombstone ==
    [epoch : 0 .. MaxEpoch, id : RevocationIds, at : 0 .. MaxTime]

\* RevocationState: the tombstone digest and count stand for the set of
\* tombstoned approvals.
RevocationState ==
    [tombstone : WalletTombstone, tombstoned : SUBSET Approvals]

\* The request digest covers the request's fields and revoked_at_ms.
JournalRow ==
    [request : RevokeRequests, at : 0 .. MaxTime, result : ApprovalTombstone]
      \union
    [request : RevokeAllRequests, at : 0 .. MaxTime, result : RevocationState]

Codes == {"done", "conflict", "not_found", "overflow", "unavailable"}

TypeOK ==
    /\ TimeTypeOK
    /\ approvalRows \in [Approvals -> {"absent", "active", "inactive"}]
    /\ walletRows \in [Wallets -> 0 .. MaxEpoch \union {NoWalletRow}]
    /\ approvalTombstones \in [Approvals -> ApprovalTombstone \union {Nothing}]
    /\ walletTombstones \in [Wallets -> WalletTombstone \union {Nothing}]
    /\ journal \in [RevocationIds -> JournalRow \union {Nothing}]
    /\ latched \in BOOLEAN
    /\ reply \in [request : Requests, code : Codes] \union {Nothing}
    /\ acknowledged \subseteq
          [request : RevokeRequests, answer : {"revoked", "in_force"}]
            \union [request : RevokeAllRequests, answer : RevocationState]

Init ==
    /\ TimeInit
    /\ approvalRows = [a \in Approvals |-> "absent"]
    /\ walletRows = [w \in Wallets |-> NoWalletRow]
    /\ approvalTombstones = [a \in Approvals |-> Nothing]
    /\ walletTombstones = [w \in Wallets |-> Nothing]
    /\ journal = [i \in RevocationIds |-> Nothing]
    /\ latched = FALSE
    /\ reply = Nothing
    /\ acknowledged = {}

-----------------------------------------------------------------------------
(* Helpers *)

\* wallet_epoch: 0 without a row.
Epoch(w) == IF walletRows[w] = NoWalletRow THEN 0 ELSE walletRows[w]

Tombstoned(w) ==
    {a \in Approvals : ApprovalWallet[a] = w /\ approvalTombstones[a] # Nothing}

\* approval_public_status, read after the revocation committed.  An approval
\* that is still active reads as active or expired.
PublicStatus(a) ==
    IF approvalRows'[a] = "inactive" THEN "revoked" ELSE "in_force"

\* load_revocation_operation.
Journaled(r, at) ==
    /\ journal[r.id] # Nothing
    /\ journal[r.id].request = r
    /\ journal[r.id].at = at

Conflicting(r, at) == journal[r.id] # Nothing /\ ~Journaled(r, at)

\* store_revocation_operation: a plain insert, in a transaction that has just
\* found the operation_id free.
Store(r, at, result) ==
    journal' = [journal EXCEPT ![r.id] =
                  [request |-> r, at |-> at, result |-> result]]

Refused(r, code) ==
    /\ reply' = [request |-> r, code |-> code]
    /\ UNCHANGED <<approvalRows, walletRows, evidence, acknowledged>>

\* The reply reaches the client, or is lost on the way.
Answer(r, answer) ==
    /\ reply' = [request |-> r, code |-> "done"]
    /\ \/ acknowledged' = acknowledged \union {[request |-> r, answer |-> answer]}
       \/ UNCHANGED acknowledged

\* Every revocation starts with a clock observation of its own (now_ms),
\* which is then the revoked_at_ms of the request.
Observe == ~latched /\ ObserveTime /\ UNCHANGED latched

-----------------------------------------------------------------------------
(* Requests *)

\* Either request, with an operation_id whose row has another digest.
RefuseConflict(r) ==
    /\ Observe
    /\ Conflicting(r, effective')
    /\ Refused(r, "conflict")

\* revoke_approval, the same request again: the stored result.
ReplayRevoke(r) ==
    /\ Observe
    /\ Journaled(r, effective')
    /\ UNCHANGED <<approvalRows, walletRows, evidence>>
    /\ Answer(r, PublicStatus(r.approval))

\* revoke_approval of an approval without a row.
RefuseRevoke(r) ==
    /\ Observe
    /\ journal[r.id] = Nothing
    /\ approvalRows[r.approval] = "absent"
    /\ Refused(r, "not_found")

\* revoke_approval under a new operation_id of an approval that already has a
\* tombstone: the first tombstone is the answer.
ReconcileRevoke(r) ==
    /\ Observe
    /\ journal[r.id] = Nothing
    /\ approvalRows[r.approval] # "absent"
    /\ approvalTombstones[r.approval] # Nothing
    /\ Store(r, effective', approvalTombstones[r.approval])
    /\ UNCHANGED <<approvalRows, walletRows, approvalTombstones, walletTombstones>>
    /\ Answer(r, PublicStatus(r.approval))

\* The tombstone revoke_approval signs.
NewApprovalTombstone(r, at) ==
    [epoch |-> Epoch(ApprovalWallet[r.approval]), reason |-> r.reason,
     id |-> r.id, at |-> at]

\* revoke_approval, the first of an approval.
RevokeApproval(r) ==
    LET tombstone == NewApprovalTombstone(r, effective') IN
    /\ Observe
    /\ journal[r.id] = Nothing
    /\ approvalRows[r.approval] # "absent"
    /\ approvalTombstones[r.approval] = Nothing
    /\ approvalRows' = [approvalRows EXCEPT ![r.approval] = "inactive"]
    /\ approvalTombstones' = [approvalTombstones EXCEPT ![r.approval] = tombstone]
    /\ Store(r, effective', tombstone)
    /\ UNCHANGED <<walletRows, walletTombstones>>
    /\ Answer(r, PublicStatus(r.approval))

\* revoke_all, the same request again: the stored state.
ReplayRevokeAll(r) ==
    /\ Observe
    /\ Journaled(r, effective')
    /\ UNCHANGED <<approvalRows, walletRows, evidence>>
    /\ Answer(r, journal[r.id].result)

\* checked_add on the epoch.
EpochLeft(w) == Epoch(w) < MaxEpoch

\* revoke_all of a wallet at the last epoch.
RefuseRevokeAll(r) ==
    /\ Observe
    /\ journal[r.id] = Nothing
    /\ ~EpochLeft(r.wallet)
    /\ Refused(r, "overflow")

\* The wallet_state upsert of revoke_all: the row may not exist yet.
UpsertWalletRow(w, epoch) == [walletRows EXCEPT ![w] = epoch]

\* UPDATE approvals SET active = 0 for the whole wallet.
DeactivateNone(w) == approvalRows
DeactivateAll(w) ==
    [a \in Approvals |->
        IF ApprovalWallet[a] = w /\ approvalRows[a] # "absent"
        THEN "inactive" ELSE approvalRows[a]]

\* The wallet tombstone revoke_all signs.
NewWalletTombstone(r, at) ==
    [epoch |-> Epoch(r.wallet) + 1, id |-> r.id, at |-> at]

\* revoke_all, a new operation_id: epoch, tombstone, approvals and journal row
\* in one transaction.
RevokeAll(r) ==
    LET tombstone == NewWalletTombstone(r, effective')
        state == [tombstone |-> tombstone, tombstoned |-> Tombstoned(r.wallet)]
    IN  /\ Observe
        /\ journal[r.id] = Nothing
        /\ EpochLeft(r.wallet)
        /\ walletRows' = UpsertWalletRow(r.wallet, Epoch(r.wallet) + 1)
        /\ walletTombstones' = [walletTombstones EXCEPT ![r.wallet] = tombstone]
        /\ approvalRows' = DeactivateAll(r.wallet)
        /\ Store(r, effective', state)
        /\ UNCHANGED approvalTombstones
        /\ Answer(r, state)

\* The observation or the revocation's transaction fails and rolls back: a
\* storage error, or a failed audit append, which also closes the latch.
EngineFailure(r) ==
    /\ (~latched /\ ObserveTime) \/ UNCHANGED timeVars
    /\ latched' \in {latched, TRUE}
    /\ Refused(r, "unavailable")

-----------------------------------------------------------------------------
(* The rest of the Signer *)

\* The epoch check of persist_approval.
EpochUnchecked(a) == TRUE
EpochAgrees(a) == walletRows[ApprovalWallet[a]] \in {NoWalletRow, ApprovalEpoch[a]}

\* persist_approval, from a completed ceremony.
PersistApproval(a) ==
    /\ ~latched
    /\ approvalRows[a] = "absent"
    /\ EpochAgrees(a)
    /\ walletRows' = IF walletRows[ApprovalWallet[a]] = NoWalletRow
                     THEN [walletRows EXCEPT ![ApprovalWallet[a]] = ApprovalEpoch[a]]
                     ELSE walletRows
    /\ approvalRows' = [approvalRows EXCEPT ![a] = "active"]
    /\ UNCHANGED <<timeVars, evidence, latched, reply, acknowledged>>

\* A restart: only the latch and the reply are lost.
Restart ==
    /\ latched' = FALSE
    /\ reply' = Nothing
    /\ UNCHANGED <<timeVars, approvalRows, walletRows, evidence, acknowledged>>

Next ==
    \/ \E r \in RevokeRequests :
          ReplayRevoke(r) \/ RefuseRevoke(r) \/ ReconcileRevoke(r) \/ RevokeApproval(r)
    \/ \E r \in RevokeAllRequests :
          ReplayRevokeAll(r) \/ RefuseRevokeAll(r) \/ RevokeAll(r)
    \/ \E r \in Requests : RefuseConflict(r) \/ EngineFailure(r)
    \/ \E a \in Approvals : PersistApproval(a)
    \/ Restart

Spec == Init /\ [][Next]_vars

-----------------------------------------------------------------------------
(* Properties *)

\* What the signing path reads of these rows.
Authority ==
    INSTANCE ApprovalAuthority
    WITH approvals <- approvalRows, walletEpoch <- walletRows

\* The rows behave as the authority the signing path is checked against: an
\* approval leaves force once and for all, and the epoch moves by one, with
\* every approval of the wallet.
ImplementsAuthority == Authority!AuthoritySpec

\* Once a client was told of a revocation, what it revoked is out of force for
\* good: later activations, replays and restarts do not bring it back.  After
\* revoke_all this includes terms sealed for an earlier epoch that were not yet
\* activated, for a wallet that had no row too.
AcknowledgedStaysRevoked ==
    \A k \in acknowledged :
        IF k.request.kind = "revoke"
        THEN k.answer = "revoked" /\ approvalRows[k.request.approval] = "inactive"
        ELSE \A a \in Approvals :
                /\ ApprovalWallet[a] = k.request.wallet
                /\ ApprovalEpoch[a] < k.answer.tombstone.epoch
                => approvalRows[a] # "active"

\* One operation_id stands for one request with one answer.
OneAnswerPerId ==
    \A k, l \in acknowledged : k.request.id = l.request.id => k = l

\* What restore_backup demands of the evidence export_backup takes from these
\* rows: a tombstoned approval is inactive with an epoch not above its wallet's,
\* and the wallet tombstone is of exactly the wallet's epoch.  An active
\* approval is of its wallet's epoch.
EvidenceBindsRows ==
    /\ \A a \in Approvals : approvalTombstones[a] # Nothing =>
          /\ approvalRows[a] = "inactive"
          /\ approvalTombstones[a].epoch <= Epoch(ApprovalWallet[a])
    /\ \A w \in Wallets : walletTombstones[w] # Nothing =>
          walletTombstones[w].epoch = walletRows[w]
    /\ \A a \in Approvals : approvalRows[a] = "active" =>
          ApprovalEpoch[a] = walletRows[ApprovalWallet[a]]

\* The invariant behind them: every journal row describes rows that still
\* bear it out, and every answer a client got is the one in the journal.
JournalBornOut ==
    \A i \in RevocationIds : journal[i] # Nothing =>
        LET r == journal[i].request IN
        /\ r.id = i
        /\ r.kind = "revoke" => approvalRows[r.approval] = "inactive"
        /\ r.kind = "revoke_all" =>
              journal[i].result.tombstone.epoch <= walletRows[r.wallet]

AnswersJournaled ==
    \A k \in acknowledged :
        /\ journal[k.request.id] # Nothing
        /\ journal[k.request.id].request = k.request
        /\ k.answer = IF k.request.kind = "revoke" THEN "revoked"
                      ELSE journal[k.request.id].result

RevocationInv == EvidenceBindsRows /\ JournalBornOut /\ AnswersJournaled
=============================================================================
