------------------------------ MODULE Ceremony ------------------------------
(***************************************************************************)
(* SignerCeremonyService: the ceremonies by which a user activates an      *)
(* approval or changes the custody of a wallet, and the transactions that  *)
(* commit them.                                                            *)
(*                                                                         *)
(*   prepare -> (bind the output recipient) -> complete | cancel           *)
(*                                                                         *)
(* A pending ceremony lives in memory only.  Completion consumes it before *)
(* it looks at the proof, changes wallets, credentials and backends in     *)
(* memory, commits them with a receipt in one transaction, and undoes the  *)
(* memory when that fails.  Custody handlers hold custody_completion_      *)
(* barrier and never await; the await of complete_approval is a backend    *)
(* activation that does not suspend in any compiled backend, and the       *)
(* runtime has one thread.  So a handler is one action, which may fail at  *)
(* each of its steps, and the process may stop between any two.            *)
(*                                                                         *)
(* Proofs, encryption and exposure surfaces are abstracted to "refused for *)
(* some reason": a refusal is always possible, a success needs the checks  *)
(* modelled here.  The rows an export, a policy update, an enrollment or a *)
(* key derivation adds are of no concern to this module: their ceremonies  *)
(* are the kind "other".                                                   *)
(***************************************************************************)
EXTENDS ApprovalAuthority

CONSTANTS
    Operations,      \* operation_id
    Credentials,     \* credential_id
    ApprovalExpires, \* expires_at_ms of each approval's terms
    MaxTime,         \* bound on the effective time
    CeremonyTtl,     \* ceremony_ttl_ms
    MaxGeneration,   \* the last credential_authority_generation
    ReadsMayFail     \* whether a receipt may be unreadable while a write works

Generations == 0 .. MaxGeneration
Unbound == "unbound"    \* a credential that is not in the service's map

ASSUME CeremonyAssumption ==
    /\ {MaxTime, MaxGeneration} \subseteq Nat
    /\ CeremonyTtl \in Nat \ {0}
    /\ ApprovalExpires \in [Approvals -> Nat]
    /\ ReadsMayFail \in BOOLEAN
    /\ Unbound \notin Wallets
    /\ Credentials \intersect Generations = {}

VARIABLES
    now,        \* effective time
    pending,    \* the map of open ceremonies
    completed,  \* the map of ceremonies completed by this process
    memory,     \* wallets and credentials of the service
    backends,   \* local wallet backends in the registry
    disk,       \* ceremony_wallets and webauthn_credentials rows
    fence,      \* credential_authority_state rows
    enrolled,   \* policies and ceremony_backend_enrollments rows
    receipts,   \* ceremony_receipts rows
    statuses,   \* ceremony_statuses rows
    overtaken,  \* history: ceremonies whose wallet lost the authority they
                \* were prepared under while they were open
    revoked     \* history: credentials and recovery factors a wallet retired

memoryVars == <<pending, completed, memory, backends>>
custodyVars == <<disk, fence, enrolled>>
outcomeVars == <<receipts, statuses>>
vars == <<now, memoryVars, custodyVars, outcomeVars, authorityVars,
          overtaken, revoked>>

CustodyKinds ==
    {"register", "add", "replace", "remove", "recover", "delete", "other"}

\* bind_custody_output_recipient: the kinds with a result for the browser.
OutputKinds == {"register", "recover", "other"}

NoCeremony == [kind |-> "none"]
NoWallet == [generation |-> -1]
NoFactor == -1     \* no recovery_wrap

CustodyCeremonies ==
    [kind : CustodyKinds, wallet : Wallets, generation : Generations,
     expires : Nat, recipient : BOOLEAN]

ApprovalCeremonies ==
    [kind : {"approve"}, wallet : Wallets, generation : Generations,
     expires : Nat, approval : Approvals]

\* WalletCustodyBackup: its wraps by credential, the recovery wrap by the
\* factor that opens it.  Every recovery makes a new factor and a new
\* generation, so the generation names the factor.
WalletType ==
    [generation : Generations, active : SUBSET Credentials,
     inactive : SUBSET Credentials,
     recovery : Generations \union {NoFactor}]

SnapshotType ==
    [wallets : [Wallets -> WalletType \union {NoWallet}],
     bound : [Credentials -> Wallets \union {Unbound}]]

Factors == Credentials \union Generations

TypeOK ==
    /\ AuthorityTypeOK
    /\ now \in 0 .. MaxTime
    /\ pending \in [Operations ->
          CustodyCeremonies \union ApprovalCeremonies \union {NoCeremony}]
    /\ completed \subseteq Operations
    /\ {memory, disk} \subseteq SnapshotType
    /\ {backends, enrolled} \subseteq SUBSET Wallets
    /\ fence \in [Wallets -> Generations]
    /\ receipts \in [Operations -> {"none", "approval", "custody"}]
    /\ statuses \in [Operations ->
          {"none", "SUCCEEDED", "FAILED", "EXPIRED", "CANCELLED"}]
    /\ overtaken \subseteq Operations
    /\ revoked \subseteq Wallets \X Factors

EmptySnapshot ==
    [wallets |-> [w \in Wallets |-> NoWallet],
     bound |-> [c \in Credentials |-> Unbound]]

Init ==
    /\ AuthorityInit
    /\ now = 0
    /\ pending = [o \in Operations |-> NoCeremony]
    /\ completed = {}
    /\ memory = EmptySnapshot /\ disk = EmptySnapshot
    /\ backends = {} /\ enrolled = {}
    /\ fence = [w \in Wallets |-> 0]
    /\ receipts = [o \in Operations |-> "none"]
    /\ statuses = [o \in Operations |-> "none"]
    /\ overtaken = {} /\ revoked = {}

-----------------------------------------------------------------------------
(* Preparing a ceremony *)

IsOpen(o) == pending[o] # NoCeremony
OpenFor(w) == {o \in Operations : IsOpen(o) /\ pending[o].wallet = w}

\* authority_generation: 0 for a wallet that is not there.
GenerationOf(s, w) ==
    IF s.wallets[w] = NoWallet THEN 0 ELSE s.wallets[w].generation

\* require_unopened_operation_id: no receipt and no status row.
UnopenedByReceipt(o) == receipts[o] = "none"
RequireUnopened(o) == receipts[o] = "none" /\ statuses[o] = "none"

\* require_no_live_wallet_session: any pending ceremony, expired or not.
LiveWalletSession(w) == OpenFor(w) # {}

Open(o, ceremony) ==
    /\ ~IsOpen(o)
    /\ RequireUnopened(o)
    /\ pending' = [pending EXCEPT ![o] = ceremony]
    /\ overtaken' = overtaken \ {o}
    /\ UNCHANGED <<now, completed, memory, backends, custodyVars, outcomeVars,
                   authorityVars, revoked>>

Earlier(s, t) == IF s < t THEN s ELSE t

\* prepare_approval: the key of the terms must be registered, the ceremony
\* ends with the terms at the latest.
PrepareApproval(o, a) ==
    LET w == ApprovalWallet[a] IN
    /\ w \in backends
    /\ ~LiveWalletSession(w)
    /\ Open(o, [kind |-> "approve", wallet |-> w, approval |-> a,
                generation |-> GenerationOf(memory, w),
                expires |-> Earlier(now + CeremonyTtl, ApprovalExpires[a])])

\* prepare_custody and prepare_policy_update.  A recovery may be prepared
\* beside another ceremony of its wallet: whoever holds one open cannot lock
\* the owner out.
PrepareCustody(o, k, w) ==
    /\ k # "recover" => ~LiveWalletSession(w)
    /\ k = "register" => memory.wallets[w] = NoWallet
    /\ Open(o, [kind |-> k, wallet |-> w, recipient |-> FALSE,
                generation |-> GenerationOf(memory, w),
                expires |-> now + CeremonyTtl])

\* bind_custody_output_recipient.
BindRecipient(o) ==
    /\ pending[o].kind \in OutputKinds
    /\ ~pending[o].recipient
    /\ now < pending[o].expires
    /\ pending' = [pending EXCEPT ![o].recipient = TRUE]
    /\ UNCHANGED <<now, completed, memory, backends, custodyVars, outcomeVars,
                   authorityVars, overtaken, revoked>>

-----------------------------------------------------------------------------
(* What a custody ceremony does to wallets and credentials: for each kind  *)
(* the checks verify_custody_proof_and_apply makes and the snapshot it     *)
(* leaves.  c is the credential that asserts (for a recovery or a          *)
(* registration there is none), n the one attested or to be removed, f     *)
(* the recovery factor given.                                              *)

Wraps(wallet) == wallet.active \union wallet.inactive

\* bound_credential, and unlock_with_credential for the kinds that unlock.
Authenticates(s, w, c) == s.bound[c] = w
Unlocks(s, w, c) ==
    /\ Authenticates(s, w, c)
    /\ s.wallets[w] # NoWallet
    /\ c \in s.wallets[w].active

\* A new attestation.  Authenticators do not issue an identifier twice, so
\* one that another wallet knows is not attested.
Attests(s, w, n) ==
    \A v \in Wallets \ {w} : s.wallets[v] # NoWallet => n \notin Wraps(s.wallets[v])

\* revoke_credential.
RevocableToTheLast(wallet, n) == n \in Wraps(wallet)
Revocable(wallet, n) ==
    /\ n \in Wraps(wallet)
    /\ ~(wallet.active = {n} /\ wallet.recovery = NoFactor)

Applies(s, e, c, n, f) ==
    LET w == e.wallet
        wallet == s.wallets[w]
    IN  \/ /\ e.kind = "register"
           /\ wallet = NoWallet /\ s.bound[n] = Unbound
           /\ Attests(s, w, n) /\ w \notin backends
        \/ /\ e.kind \in {"add", "replace"}
           /\ Unlocks(s, w, c) /\ s.bound[n] = Unbound
           /\ Attests(s, w, n) /\ n \notin Wraps(wallet)
        \/ /\ e.kind = "remove"
           /\ Authenticates(s, w, c)
           /\ wallet # NoWallet /\ Revocable(wallet, n)
        \/ /\ e.kind = "recover"
           /\ wallet # NoWallet /\ e.recipient
           /\ wallet.recovery = f /\ f # NoFactor
           /\ wallet.generation < MaxGeneration
           /\ s.bound[n] \in {Unbound, w}
           /\ Attests(s, w, n) /\ n \notin Wraps(wallet)
        \/ e.kind \in {"delete", "other"} /\ Unlocks(s, w, c)

\* recover_replace_credentials: all old wraps are deactivated, the recovery
\* wrap is replaced and the generation rises.
RecoveredKeepingFactor(wallet, n) ==
    [generation |-> wallet.generation + 1, active |-> {n},
     inactive |-> Wraps(wallet), recovery |-> wallet.recovery]
Recovered(wallet, n) ==
    [generation |-> wallet.generation + 1, active |-> {n},
     inactive |-> Wraps(wallet), recovery |-> wallet.generation + 1]

\* The wallet after the ceremony e.
AppliedWallet(wallet, e, c, n) ==
    CASE e.kind = "register" ->
          [generation |-> 0, active |-> {n}, inactive |-> {},
           recovery |-> IF e.recipient THEN 0 ELSE NoFactor]
      [] e.kind = "add" -> [wallet EXCEPT !.active = @ \union {n}]
      [] e.kind = "replace" ->
          [wallet EXCEPT !.active = (@ \union {n}) \ {c},
                         !.inactive = @ \union {c}]
      [] e.kind = "remove" ->
          [wallet EXCEPT !.active = @ \ {n}, !.inactive = @ \union {n}]
      [] e.kind = "recover" -> Recovered(wallet, n)
      [] e.kind = "delete" -> NoWallet
      [] e.kind = "other" -> wallet

Release(bound, w) ==
    [c \in Credentials |-> IF bound[c] = w THEN Unbound ELSE bound[c]]

\* The service's map of credentials after it.
RecoveredBindings(bound, e, c, n) ==
    [Release(bound, e.wallet) EXCEPT ![n] = e.wallet]
AppliedBindings(bound, e, c, n) ==
    CASE e.kind \in {"register", "add"} -> [bound EXCEPT ![n] = e.wallet]
      [] e.kind = "replace" ->
          [bound EXCEPT ![n] = e.wallet, ![c] = Unbound]
      [] e.kind = "remove" -> [bound EXCEPT ![n] = Unbound]
      [] e.kind = "recover" -> RecoveredBindings(bound, e, c, n)
      [] e.kind = "delete" -> Release(bound, e.wallet)
      [] e.kind = "other" -> bound

Applied(s, e, c, n) ==
    [wallets |-> [s.wallets EXCEPT ![e.wallet] =
                    AppliedWallet(@, e, c, n)],
     bound |-> AppliedBindings(s.bound, e, c, n)]

-----------------------------------------------------------------------------
(* Completing a ceremony *)

\* The checks of the two completions before the proof: not expired, and
\* the generation it was prepared at is still the service's.
CurrentByTime(e) == now < e.expires
Current(e) ==
    /\ now < e.expires
    /\ e.generation = GenerationOf(memory, e.wallet)

\* complete_approval and complete_custody_inner: a completed or receipted
\* operation is answered from its receipt, without any of the steps below;
\* otherwise the pending record is removed.
Consume(o) ==
    /\ IsOpen(o)
    /\ o \notin completed
    /\ receipts[o] = "none"
    /\ pending' = [pending EXCEPT ![o] = NoCeremony]

\* terminalize_consumed_ceremony: FAILED or EXPIRED, unless there is a
\* receipt, and unless the store refuses this as well.
TerminalState(e) == IF now < e.expires THEN "FAILED" ELSE "EXPIRED"
Terminalized(o) ==
    {statuses, [statuses EXCEPT ![o] = TerminalState(pending[o])]}

\* A completion refused at any point before its transaction: by the checks,
\* by the proof or its input, or by the backend.
RefuseCompletion(o) ==
    /\ Consume(o)
    /\ statuses' \in Terminalized(o)
    /\ UNCHANGED <<now, completed, memory, backends, custodyVars, receipts,
                   authorityVars, overtaken, revoked>>

\* apply_approval_completion and persist_approval.  (A local key is also
\* unlocked with the credential, a backend-managed one is not.)
ActivateApproval(o, c) ==
    LET e == pending[o] IN
    /\ Consume(o)
    /\ e.kind = "approve"
    /\ Current(e)
    /\ Authenticates(memory, e.wallet, c)
    /\ e.wallet \in backends
    /\ e.generation = fence[e.wallet]
    /\ PersistApproval(e.approval)
    /\ receipts' = [receipts EXCEPT ![o] = "approval"]
    /\ statuses' = [statuses EXCEPT ![o] = "SUCCEEDED"]
    /\ completed' = completed \union {o}
    /\ UNCHANGED <<now, memory, backends, custodyVars, overtaken, revoked>>

\* commit_custody_snapshot_with_effect: the generations in the snapshot
\* against the durable fence.  A recovery raises its own wallet's by one.
FenceAdmits(e, after) ==
    \A w \in Wallets : after.wallets[w] # NoWallet =>
        LET next == after.wallets[w].generation IN
        /\ next >= fence[w]
        /\ e.kind = "recover" /\ w = e.wallet => next = fence[w] + 1
        /\ e.kind # "recover" => next = fence[w]

\* The fence rows are written for the wallets in the snapshot.
FenceAfter(after) ==
    [w \in Wallets |-> IF after.wallets[w] = NoWallet THEN fence[w]
                       ELSE after.wallets[w].generation]

\* apply_custody_completion has applied the ceremony: the transaction that
\* commits it is possible.  policies and enrollments are inserted once.
Committable(e, after) ==
    /\ FenceAdmits(e, after)
    /\ e.kind = "register" => e.wallet \notin enrolled

\* What opens a wallet, and what of it a ceremony is meant to retire.
FactorsOf(wallet) ==
    IF wallet = NoWallet THEN {}
    ELSE wallet.active \union ({wallet.recovery} \ {NoFactor})
Retires(e, wallet, c, n) ==
    CASE e.kind \in {"recover", "delete"} -> FactorsOf(wallet)
      [] e.kind = "replace" -> {c}
      [] e.kind = "remove" -> {n}
      [] e.kind \in {"register", "add", "other"} -> {}

\* Open ceremonies whose wallet this one takes over or removes.
Overtakes(o) ==
    IF pending[o].kind \in {"recover", "delete"}
    THEN OpenFor(pending[o].wallet) \ {o} ELSE {}

\* After the commit a local derivation is finalized and a migration consumed.
\* When that fails the receipt stands and the error goes to terminalize.
PostCommitKinds == {"register", "other"}

StatusAfterCommit(o) ==
    {[statuses EXCEPT ![o] = "SUCCEEDED"]} \union
    (IF ReadsMayFail /\ pending[o].kind \in PostCommitKinds
     THEN {[statuses EXCEPT ![o] = TerminalState(pending[o])]} ELSE {})

CompleteCustody(o, c, n, f) ==
    LET e == pending[o]
        after == Applied(memory, e, c, n)
    IN  /\ Consume(o)
        /\ e.kind \in CustodyKinds
        /\ Current(e)
        /\ Applies(memory, e, c, n, f)
        /\ Committable(e, after)
        /\ memory' = after
        /\ disk' = after
        /\ fence' = FenceAfter(after)
        /\ IF e.kind = "register"
           THEN /\ backends' = backends \union {e.wallet}
                /\ enrolled' = enrolled \union {e.wallet}
           ELSE UNCHANGED <<backends, enrolled>>
        /\ receipts' = [receipts EXCEPT ![o] = "custody"]
        /\ statuses' \in StatusAfterCommit(o)
        /\ \/ /\ completed' = completed \union {o}
              /\ statuses'[o] = "SUCCEEDED"
           \/ e.kind \in PostCommitKinds /\ UNCHANGED completed
        /\ overtaken' = overtaken \union Overtakes(o)
        /\ revoked' = revoked \union
              {e.wallet} \X Retires(e, memory.wallets[e.wallet], c, n)
        /\ UNCHANGED <<now, authorityVars>>

\* restore_custody_snapshot, and the removal of a provisioned backend.
SnapshotKept(before, after) == after
RestoredSnapshot(before, after) == before
RolledBackBackends(e) ==
    IF e.kind = "register" THEN backends \ {e.wallet} ELSE backends

\* rollback_failed_custody_apply: the ceremony was applied in memory, then
\* sealing its output or its transaction failed.
FailCommit(o, c, n, f) ==
    LET e == pending[o] IN
    /\ Consume(o)
    /\ e.kind \in CustodyKinds
    /\ Current(e)
    /\ Applies(memory, e, c, n, f)
    /\ memory' = RestoredSnapshot(memory, Applied(memory, e, c, n))
    /\ backends' = RolledBackBackends(e)
    /\ statuses' \in Terminalized(o)
    /\ UNCHANGED <<now, completed, custodyVars, receipts, authorityVars,
                   overtaken, revoked>>

-----------------------------------------------------------------------------
(* Cancellation, restart and the environment *)

\* cancel: the record is dropped, then CANCELLED is persisted, which may
\* fail.  Without a record nothing changes (cancel_consumed_ceremony).
Cancel(o) ==
    /\ o \notin completed
    /\ IsOpen(o)
    /\ pending' = [pending EXCEPT ![o] = NoCeremony]
    /\ statuses' \in {statuses, [statuses EXCEPT ![o] = "CANCELLED"]}
    /\ UNCHANGED <<now, completed, memory, backends, custodyVars, receipts,
                   authorityVars, overtaken, revoked>>

\* The process stops and new_impl starts another: backends from their
\* enrollments, custody from its rows, which load_ceremony_custody refuses
\* when a wallet is not at its fence.
LoadAdmits(s) ==
    \A w \in Wallets :
        s.wallets[w] # NoWallet => s.wallets[w].generation = fence[w]

Restart ==
    /\ LoadAdmits(disk)
    /\ pending' = [o \in Operations |-> NoCeremony]
    /\ completed' = {}
    /\ memory' = disk
    /\ backends' = enrolled
    /\ UNCHANGED <<now, custodyVars, outcomeVars, authorityVars, overtaken,
                   revoked>>

AdvanceTime ==
    /\ now < MaxTime
    /\ now' = now + 1
    /\ UNCHANGED <<memoryVars, custodyVars, outcomeVars, authorityVars,
                   overtaken, revoked>>

\* revoke_all, by the dispatcher or the control socket.
RevokeAll(w) ==
    /\ AdvanceEpoch(w)
    /\ overtaken' = overtaken \union
          {o \in OpenFor(w) :
              /\ pending[o].kind = "approve"
              /\ ApprovalEpoch[pending[o].approval] <= WalletEpoch(w)}
    /\ UNCHANGED <<now, memoryVars, custodyVars, outcomeVars, revoked>>

Complete(o) ==
    \/ RefuseCompletion(o)
    \/ \E c \in Credentials : ActivateApproval(o, c)
    \/ \E c, n \in Credentials, f \in Generations :
          CompleteCustody(o, c, n, f) \/ FailCommit(o, c, n, f)

Next ==
    \/ \E o \in Operations :
        \/ \E a \in Approvals : PrepareApproval(o, a)
        \/ \E k \in CustodyKinds, w \in Wallets : PrepareCustody(o, k, w)
        \/ BindRecipient(o)
        \/ Complete(o)
        \/ Cancel(o)
    \/ Restart
    \/ AdvanceTime
    \/ \E w \in Wallets : RevokeAll(w)

Spec == Init /\ [][Next]_vars

-----------------------------------------------------------------------------
(* Properties *)

\* Memory and store never part: whatever step of a handler fails, the
\* service goes on with the wallets, credentials and backends a restart
\* would load (restore_custody_snapshot, ProvisionedLocalBackendRollback,
\* commit_custody_snapshot_with_effect).
MemoryIsDurable == memory = disk /\ backends = enrolled

\* A restart is always possible: no sequence of ceremonies leaves a wallet
\* at another generation than the durable fence, which load_ceremony_custody
\* would refuse for good.
StartupSucceeds == LoadAdmits(disk)

\* The credentials that authenticate for a wallet are its active wraps: no
\* credential opens a ceremony it cannot unlock, and none unlocks unseen
\* (webauthn_credentials against ceremony_wallets).
CredentialsMatchWraps ==
    \A c \in Credentials, w \in Wallets :
        memory.bound[c] = w <=>
            memory.wallets[w] # NoWallet /\ c \in memory.wallets[w].active

\* A wallet keeps a way in: a credential or a recovery factor
\* (revoke_credential).
AFactorRemains ==
    \A w \in Wallets : memory.wallets[w] # NoWallet =>
        FactorsOf(memory.wallets[w]) # {}

\* A credential or a recovery factor a wallet once retired, by removal,
\* replacement, recovery or deletion, never opens that wallet again
\* (add_credential, recover_replace_credentials).
RetiredStaysRetired ==
    \A w \in Wallets : memory.wallets[w] # NoWallet =>
        \A f \in FactorsOf(memory.wallets[w]) : <<w, f>> \notin revoked

\* A ceremony that was open when its wallet was recovered or deleted never
\* succeeds, nor does the activation of terms of an epoch that ended while
\* it was open (the generation checks of both completions, the epoch check of
\* persist_approval).
OvertakenNeverSucceeds ==
    \A o \in overtaken : receipts[o] = "none"

\* An operation has one outcome: it succeeded exactly when it has a receipt,
\* and while it is open it has none (require_unopened_operation_id,
\* terminalize_consumed_ceremony).
OutcomesAgree ==
    \A o \in Operations :
        /\ receipts[o] # "none" <=> statuses[o] = "SUCCEEDED"
        /\ IsOpen(o) => receipts[o] = "none" /\ statuses[o] = "none"
        /\ o \in completed => receipts[o] # "none"

\* A terminal outcome is final: a retry, a cancellation, a restart or a new
\* preparation under the same operation ID never changes it.
OutcomesAreFinal ==
    [][\A o \in Operations : statuses[o] # "none" =>
          statuses'[o] = statuses[o] /\ receipts'[o] = receipts[o]]_vars

\* The inductive invariant behind the safety properties above.

\* Every wallet has its enrollment; its wraps are its own, each active or
\* not; its recovery factor is the one of its generation.
WalletsSound ==
    \A w \in Wallets : memory.wallets[w] # NoWallet =>
        /\ w \in enrolled
        /\ memory.wallets[w].active \intersect memory.wallets[w].inactive = {}
        /\ memory.wallets[w].recovery \in {NoFactor, memory.wallets[w].generation}
        /\ \A v \in Wallets \ {w} : memory.wallets[v] # NoWallet =>
              Wraps(memory.wallets[w]) \intersect Wraps(memory.wallets[v]) = {}

\* A retired credential is an inactive wrap, a retired recovery factor of an
\* earlier generation, and a wallet that is gone stays gone.
RevokedSound ==
    \A w \in Wallets, f \in Factors : <<w, f>> \in revoked =>
        /\ w \in enrolled
        /\ memory.wallets[w] # NoWallet =>
              \/ f \in memory.wallets[w].inactive
              \/ f \in Generations /\ f < memory.wallets[w].generation

\* An open ceremony has no outcome yet and was prepared at a generation the
\* fence has reached.
OpenSound ==
    \A o \in Operations : IsOpen(o) =>
        /\ receipts[o] = "none" /\ statuses[o] = "none"
        /\ pending[o].generation <= fence[pending[o].wallet]
        /\ pending[o].kind = "approve" =>
              pending[o].wallet = ApprovalWallet[pending[o].approval]

\* What makes an overtaken ceremony fail: its wallet is gone, or at a later
\* generation, or at a later epoch.
Stale(e) ==
    \/ memory.wallets[e.wallet] = NoWallet /\ e.wallet \in enrolled
    \/ /\ memory.wallets[e.wallet] # NoWallet
       /\ e.generation < memory.wallets[e.wallet].generation
    \/ e.kind = "approve" /\ ApprovalEpoch[e.approval] < WalletEpoch(e.wallet)

OvertakenAreStale ==
    \A o \in overtaken : IsOpen(o) => Stale(pending[o])

\* Ceremonies act on authority that is current, on wallets that are whole:
\* the conjunction is preserved by every step of every handler.
CeremonyInv ==
    /\ MemoryIsDurable
    /\ StartupSucceeds
    /\ CredentialsMatchWraps
    /\ WalletsSound
    /\ AFactorRemains
    /\ RevokedSound
    /\ OpenSound
    /\ OvertakenAreStale
    /\ OvertakenNeverSucceeds
=============================================================================
