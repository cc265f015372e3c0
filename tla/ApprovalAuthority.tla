------------------------- MODULE ApprovalAuthority -------------------------
(***************************************************************************)
(* The authority a signing request is checked against, reduced to what the *)
(* signing path reads of it: which sealed approvals are in force, and the  *)
(* revocation epoch of each wallet.  Revocation, the detailed model with   *)
(* tombstones and the operation-ID journal, implements this module.        *)
(***************************************************************************)
EXTENDS Integers

CONSTANTS
    Wallets,        \* wallet_id
    Approvals,      \* approval_id: the digest of one set of sealed terms
    ApprovalWallet, \* the wallet_id in those terms
    ApprovalEpoch,  \* the wallet_revocation_epoch in those terms
    MaxEpoch        \* bound on the revocation epoch a model explores

NoRow == -1         \* a wallet without a wallet_state row

ASSUME AuthorityAssumption ==
    /\ MaxEpoch \in Nat
    /\ ApprovalWallet \in [Approvals -> Wallets]
    /\ ApprovalEpoch \in [Approvals -> 0 .. MaxEpoch]

VARIABLES
    approvals,      \* approvals.active: absent (no row), active or inactive
    walletEpoch     \* wallet_state.revocation_epoch, or NoRow

authorityVars == <<approvals, walletEpoch>>

AuthorityTypeOK ==
    /\ approvals \in [Approvals -> {"absent", "active", "inactive"}]
    /\ walletEpoch \in [Wallets -> 0 .. MaxEpoch \union {NoRow}]

AuthorityInit ==
    /\ approvals = [a \in Approvals |-> "absent"]
    /\ walletEpoch = [w \in Wallets |-> NoRow]

\* wallet_epoch: a wallet without a row is at epoch 0.
WalletEpoch(w) == IF walletEpoch[w] = NoRow THEN 0 ELSE walletEpoch[w]

\* persist_approval: the first approval of a wallet creates its row with the
\* epoch of its terms, a later one must agree with it.  approval_id is the
\* primary key, so terms that were ever activated are never activated again.
PersistApproval(a) ==
    LET w == ApprovalWallet[a] IN
    /\ approvals[a] = "absent"
    /\ walletEpoch[w] \in {NoRow, ApprovalEpoch[a]}
    /\ approvals' = [approvals EXCEPT ![a] = "active"]
    /\ walletEpoch' = [walletEpoch EXCEPT ![w] = ApprovalEpoch[a]]

\* revoke_approval: what it does to the approval.
DeactivateApproval(a) ==
    /\ approvals[a] # "absent"
    /\ approvals' = [approvals EXCEPT ![a] = "inactive"]
    /\ UNCHANGED walletEpoch

\* revoke_all: what it does to the wallet and to its approvals.
AdvanceEpoch(w) ==
    /\ WalletEpoch(w) < MaxEpoch
    /\ walletEpoch' = [walletEpoch EXCEPT ![w] = WalletEpoch(w) + 1]
    /\ approvals' = [a \in Approvals |->
                        IF ApprovalWallet[a] = w /\ approvals[a] = "active"
                        THEN "inactive" ELSE approvals[a]]

AuthorityNext ==
    \/ \E a \in Approvals : PersistApproval(a) \/ DeactivateApproval(a)
    \/ \E w \in Wallets : AdvanceEpoch(w)

AuthoritySpec == AuthorityInit /\ [][AuthorityNext]_authorityVars

\* The approval may still be signed under: in force, and of the epoch its
\* wallet is at.
InForce(a) ==
    approvals[a] = "active" /\ ApprovalEpoch[a] = WalletEpoch(ApprovalWallet[a])
=============================================================================
