# A TLA+ verification of bloom-signer

bloom-signer is the process that holds a user's keys and signs for the Broker,
within approvals the user sealed in a WebAuthn ceremony. This directory keeps
TLA+ models of it, the TLC runs that check them on small instances, and TLAPS
proofs of their main properties for every instance. File and line references are
to the repository this directory stands beside, under `src/`; the short names
`service.rs`, `engine.rs`, `clock.rs`, `ceremony.rs` and `main.rs` are files of
`crates/bloom-signer/src`. `PROJECT.json` maps every definition to its lines.

Contents: [the system](#the-system), [modules](#the-modules),
[runs](#the-runs), [fairness](#fairness), [proofs](#the-proofs),
[findings](#findings), [observations](#observations),
[not modelled](#what-is-not-modelled), [plan](#plan).

## The system

### Parts, state, operations

| part | state | operations | hard because | correct when |
|---|---|---|---|---|
| **Signing path** (`service.rs` `sign`, engine transactions) | rows `operations`, `attempts`, counters of `approvals`; `signing_gate`; the request's locals | `authorize_sign`, `mark_operation_dispatched`, one backend call per hash, `commit_operation_result`, `finalize_operation`, `stored_operation_result` | concurrent requests, revocation beside the gate, crash or lost answer around the backend call, batches that fail half way | nothing is signed twice; limits bound what was really signed; a reply never claims more or less than happened |
| **Revocation** (`engine.rs` `revoke_approval`, `revoke_all`) | `approvals.active`, `wallet_state`, `approval_tombstones`, `wallet_tombstones`, `revocation_operations` | revoke one approval, revoke a wallet, replay by operation ID | lost replies, retries after a restart, activation of terms sealed before | what was acknowledged as revoked stays revoked; evidence and rows agree |
| **Durable clock** (`clock.rs`, `observe_time`, `repair_clock`) | `clock_state`; the sampler's last sample | observe, observe read-only, repair with confirmation | restarts, suspends, reboots, stepped clocks, rows of earlier versions, repair in two commits | effective time never runs back; time is credited once; an honest clock is accepted |
| **Approval ceremony** (`ceremony.rs`) | pending ceremonies (memory only), `ceremony_receipts`, `ceremony_statuses` | prepare, complete, cancel, status | a generation and an epoch taken at prepare are used at complete, minutes later | authority that was taken back meanwhile activates nothing; an operation has one outcome |
| **Custody ceremonies, credentials** (`ceremony.rs`, `custody.rs`) | wallets, credentials and backends in memory; their rows; the generation fence | register, import, export, add / remove / replace credential, recover, delete | backend, memory and database must agree when one of them fails | a failed ceremony leaves nothing behind; a retired factor opens nothing; one factor stays |
| **Exposure surface** (`ceremony.rs` 546-1342, `admin.rs`) | `surface_state`: the remote surface's lifecycle, desired and effective mode with their revisions | install, set the mode, report what is in effect, fence at start | late and repeated reports, restarts | a ceremony runs remotely only while the Broker has proven the surface up |
| **Cross-surface pairing** (`ceremony.rs` 588-1170) | pairings and unlocked wallets, in memory only | start, prepare source, complete source, complete destination, already registered, cancel, expire | three requests of two devices, minutes apart, over changing credentials | what the source approved still stands when the destination uses it |
| **Derivation registry** (`derivation_registry.rs`, `engine.rs` 2513-3335) | `derivation_allocations`, namespace counters, tombstones, `enrolled_keys`, the backend's record | prepare, commit, activate, enroll, retire, roll back, recover | one transaction per step, crash between any two | a number is never given to two keys; a restart gets through; only committed accounts sign |
| **Audit journal** (`engine.rs` 608-1217, 7046-7534) | hash chain, rotation rows, cached head, latch | append, verify, rotate key, open | append inside each mutation, a cache in front of verification, rotation across two keys | a chain that verifies, and no mutation without its entry |
| **Policy compare-and-swap** (`engine.rs` 4373-4706) | `policies`, `policy_authorizations`, `policy_commit_receipts` | authorize over a baseline, compare and swap | authorized long before it is committed | one chain of versions |
| **Backup and restore** (`engine.rs` 4708-5841, 6883-7044) | the exported document: one wallet's rows, the whole host's journal | `export_backup`, `restore_backup` | old, foreign or concurrent state over newer state; a journal that other wallets' backups carry about | never less revoked than before |
| **Session** (`main.rs`) | phase of the process, accept loops, permits, the checkpoint store | start, select head, accept, receive, dispatch, answer with a head, drain | three endpoints, a store that refuses older heads, peers that do not read | a mutation answered to the Broker or the revocation client cannot be lost unnoticed; the Signer stops with its session |
| **Backends** (`registry.rs`, `backend-api`, `backend-local`, AWS KMS) | registered instances, pending derivations | sign, provision, derive, retire | answers that do not say whether a signature exists | each error class proves what its contract says |
| migration, WebAuthn, HPKE, derivation mathematics, hardening, vectors | none that outlives a call, or files | | | |

### How they interact

Each RPC is a task of `serve_rpc`. Mutating requests first observe the clock
(`dispatch_inner`), then run engine calls. Every engine call is one SQLite
transaction under the connection mutex, with an audit append as its last write; a
failed append rolls back and latches the engine until it is reopened. `sign` holds
`signing_gate` from its own clock observation to its reply, and awaits the backend
while it holds it. Revocation comes through the same dispatcher or through the
control socket and takes no gate. Ceremonies write approvals through
`persist_approval`, the only other writer of the rows that revocation changes and
signing reads.

`main.rs` opens the engine, asks the checkpoint store about the journal's head, and
serves three endpoints until the login session ends: the Broker's (rpc), the revocation
client's (control) and the local administrator's (admin). Every answer to the Broker, and
every answer to a mutation on the control endpoint, first publishes the journal's head
to that store, which lies outside the database. The admin endpoint's commands commit
audited entries too, and are answered without publishing anything (`admin.rs` 286-340).

So the shared state is the database, and the shared abstractions are three: *which
approvals are in force*, *what time it is*, and *whether the journal takes another
entry*. The modules are cut along these.

## The modules

```
             EffectiveTime            ApprovalAuthority             abstract
             ^     ^     ^               ^       ^    ^
  implements |     |     +--- extends ---|---+   |    | extends
             |     |                     |   |   |    |
      SignerClock  +--- Revocation ------+  Signing  Ceremony       detailed
                        (extends)   implements

      Session ---extends---> AuditJournal        Pairing ---extends---> Surface
      DerivationRegistry                         Backup
```

`Signing` uses approvals and time only through the two abstract specifications,
and `Ceremony`, the other writer of approvals, changes them only by its steps.
`Revocation` and `SignerClock` are what the code really does, and are shown to
implement them (`ImplementsAuthority`, `ImplementsTime`). What is proved of
signing therefore holds of the Signer with its real revocation rows and its real
clock row.

**EffectiveTime.** What the rest of the engine relies on: an effective time that
never runs back, and a condition that is ABSENT before the first observation,
then TRUSTED or DISTRUSTED as `observe_time` answers. `UNTRUSTED` and
`ROLLBACK_FROZEN` are DISTRUSTED; `HEALTHY`, `REPAIRED` and, as the code has it,
`FORWARD_JUMP_REJECTED` are TRUSTED.

**ApprovalAuthority.** An approval is absent, active or inactive; a wallet has a
revocation epoch. Approvals appear with the wallet's current epoch, one approval
is deactivated, or the epoch rises and all approvals of the wallet are deactivated.

**Signing.** One variable per table (`operations`, `counters`, `attempts`), the
keys `require_key_available` would accept, the gate, one record of locals per
request task, the audit latch, and two history variables: `effects`, the
signatures the backend really made, and `late`, the operations signed when their
approval was out of force. A task walks

    waiting -> observed -> authorized -> dispatched -> committing -> reply
                                                    -> releasing / quarantining

with one action per transaction: `AcquireGate` (gate and clock), `RefuseSign`,
`ReserveOperation`, `RetryOperation` (the outcomes of `authorize_sign`),
`ReturnStoredResult`, `MarkDispatched`, `BackendSign` (one hash), `CommitResult`,
`FinalizeReleased`, `FinalizeQuarantined`, `EngineFailure`, `Reply`. Around the
tasks, `AdvanceTime`, `ChangeAuthority`, `ChangeAvailability` and `Crash` happen at
any point. A request's content is one *binding*: everything the operation digest
and the retry binding digest cover. `Admits` says which bindings
`validate_against_approval` accepts under which terms. Replies are abstracted to
what their code tells the Broker: a result, a refusal that denies any effect
(`refused` before dispatch, `backend_refused` after it), or a code that does not
(`ambiguous`, `conflict`, `unavailable`).

The model interleaves tasks at every transaction. The binary's one-thread runtime
switches only at awaits, which gives fewer behaviours: what holds here does not
rest on that runtime.

**Revocation.** The five tables, the journal keyed by operation ID with the
request *and the time it was handled at* (both are in the request digest), the
latch, the reply being written and the history of what clients were told. Each
handler runs without an await from its clock observation to its reply, so it is
one action: replay, conflict, refusal, reconciliation with a tombstone another
operation left, or a new revocation, for each of the two requests.

**SignerClock.** The `clock_state` row, the host's wall clock, the suspend-aware
monotonic clock and boot ID, the running process (down, serving, or a repair
start), the sampler's last sample, the approvals a repair would expire and the
confirmation digest. `Decisions` is `evaluate_durable_clock`, which belongs to the
bloom-trusted-time library: it is modelled from its calls and tests and marked
external, and where those leave it open whether an UNTRUSTED answer stands still or
runs on with the monotonic clock, both are possible. History variables: `credit`,
the effective time plus every monotonic tick since, and `disturbed`, whether the
wall clock did anything but run on since it was last accepted.

**Ceremony.** `SignerCeremonyService`, for approvals and custody. What is lost with
the process: `pending`, `completed`, `memory` (wallets and credentials) and
`backends`. What stays: `disk` (`ceremony_wallets`, `webauthn_credentials`), `fence`
(`credential_authority_state`), `enrolled` (policy and enrollment rows), `receipts`,
`statuses`, and the approvals. A wallet is its generation, its active and inactive
wraps and its recovery factor; every recovery makes a new factor and a new
generation, so the generation names the factor. History: `overtaken`, the ceremonies
whose wallet was recovered, deleted or moved to a later epoch while they were open,
and `revoked`, the factors a wallet retired.

A custody handler holds `custody_completion_barrier` and never awaits, and the await
of `complete_approval` does not suspend in any compiled backend, so a handler is one
action: `PrepareApproval`, `PrepareCustody`, `BindRecipient`; for a completion,
`RefuseCompletion` (refused anywhere before its transaction), `ActivateApproval`,
`CompleteCustody`, `FailCommit` (applied in memory, then undone); `Cancel`,
`Restart`, and around them `AdvanceTime` and `RevokeAll`. `Applies` and `Applied` are
`verify_custody_proof_and_apply`: what each kind of ceremony requires of wallets and
credentials and what it leaves. Whether a WebAuthn proof, an encrypted input or a
surface is accepted is left open: a refusal is always possible. Exports, policy
updates, enrollments and derivations are the kind `other`, which unlocks a wallet and
changes no wallet or credential. A new credential ID is never one that another wallet
knows, because authenticators do not issue an ID twice. A step of the status write of
`terminalize_consumed_ceremony` or `cancel` may fail by itself.

**AuditJournal.** `audit_chain` as the sequence of keys and events (an entry's hash
covers the entries before it, so a head *is* the sequence of events), the rotation
rows, whether some stored row was altered, the configured keys, the latch with its
first cause, and the cached head with what has moved since: `data_version` (`foreign`)
and `total_changes` (`own`). Opening is `open_operational_signer_engine`: the chain
verifies under the current key, or under the previous one and is rotated, or the
engine is degraded. A mutation commits with its entry, rolls back before or after its
append, fails its append and latches, or is refused. Outside the code: another
connection alters a row, and the file is replaced by an older copy while no Signer
runs. `touched` remembers that.

**Session.** The process from start to exit around that journal: opening, entries of
the start, a clock repair that exits, `select_initial_self_head`, the login session,
the accept loops of the three endpoints, one task per permit, the head published with
each answer, the drain and its timeout, and crashes. The checkpoint store belongs to
a library: it takes a longer head or the same, and refuses any other (external). The
handlers run on one thread, and what one does between two awaits is one action:
`Receive`, each transaction of a dispatched mutation, the answer with its publication,
`Send`. The admin loop serves its connections itself, one by one and for at most five
seconds each, and a command is one transaction, so `Administer` is one action, which
publishes no head. History: `acked`, the longest mutation a client of rpc or control was
told of, and `recorded`, the longest head that a start or one of their mutations left.

**DerivationRegistry.** One wallet's accounts in the five places that know them: the
registry's rows with counters and tombstones, `enrolled_keys`, the backend's durable
record, the backend in memory, and the receipts. `AccountAllocate` is one action per
transaction (choose, prepare, index, account, activate for each family, then register,
enroll, refresh, commit), `AccountRetire` likewise; any step may fail and take the
code's rollback path, whose own steps may fail, and the process may crash between any
two. A full namespace is one of the ways `Prepare` is not taken and `FailStep` is. A
start recovers (`RecoverHide`, `RecoverTombstone`) before it restores the backend.

**Backup.** Several wallets on several hosts' databases. A database is, for each wallet,
the rows a backup carries and the rows it does not (policy authorizations and receipts,
the allocator's counter and tombstones), and *one* journal for all wallets, as
`load_audit_entries` has no wallet filter (`engine.rs` 6883). A backup is the rows of one
wallet and that whole journal. Signing, revocation with its operation journal (of one
approval, reconciled with a tombstone, of the wallet), recovery, account allocation and
the policy compare-and-swap are one action each, with the rows they leave; `Export` and
`Restore` are `export_wallet_backup` and `restore_backup`, whose checks are an operator
each, and whose merge keeps the rows the backup lacks. `CopyFile` lets a host start from
another's file. Because a restore brings entries of all wallets and rows of one, the rows
of another wallet may be older than the journal beside them. `whole` is history: the
wallets whose rows still follow their host's journal.

**Surface.** The stored `SurfaceStatus`, reduced to the remote surface's lifecycle,
both modes with their revisions and whether readiness was observed. Each handler is
one action under `custody_completion_barrier`. A report may carry any revision up to
the current one, so that delayed and repeated reports are included. `proven` is
history: the revision at which the Broker showed this process that the surface is up.

**Pairing.** The pairings, with what of each is still held (recipient keys, the
unlocked wallet, the capability), the wallet's passkeys and generation, and the
outcomes. A pairing is started, prepared, completed by the source, completed by the
destination, answered "already registered", cancelled, expired or lost with the
process; an attempt may fail before or after its recipient key is used up. Custody
ceremonies are summarised by their commit (`Ceremony` has their detail); deletion,
after which no passkey is left to complete anything, is not among them.

`MCSigning`, `MCRevocation`, `MCSignerClock`, `MCCeremony`, `MCSession`,
`MCDerivation`, `MCBackup` and `MCPairing` give the constants their values;
`Signing_proofs`, `Revocation_proofs`, `SignerClock_proofs`, `Ceremony_proofs`,
`Pairing_proofs`, `DerivationRegistry_proofs`, `Backup_proofs` and `Session_proofs` hold
the theorems.

Operators with names such as `GateLeaked` or `AlwaysComparable`, each defined just
before the operator it resembles, are plausible bugs. No action uses them. Every
property of a run is known to fail when one of them takes the place of its neighbour
(`PROJECT.json`, "mutants").

## The runs

| run | instance | checks |
|---|---|---|
| `signing` (942,690 states) | 2 operations, 2 attempts, 2 approvals, one of them for 2 operations and 2 signatures, 2 contents of which one has two hashes | `NoDoubleSigning`, `RefusalsAreHonest`, `LifetimeLimitsHold`, `CountersExact` |
| `signing_gate` (268,850) | 2 tasks, 2 operations, 4 instants, one operation per two ticks | `RateWindowsHold`, `AtMostOneLateOperation` |
| `signing_live` (30,754) | 2 tasks, 2 attempts, fairness | `EveryRequestEnds` |
| `revocation` (48,761) | 1 wallet, 2 approvals of consecutive epochs, 2 operation IDs, 3 instants | `AcknowledgedStaysRevoked`, `ImplementsAuthority` |
| `clock` (1,263,213) | 2 boots, 4 instants, 3 monotonic ticks, forward step 1, 2 approvals with different expiry | `UndisturbedIsHealthy`, `ImplementsTime`, `BoundedAdvance`, `RepairsAreInformed` |
| `ceremony` (195,968) | 2 wallets, 3 operations, 3 credentials, 2 approvals of consecutive epochs, 3 generations | `MemoryIsDurable`, `AFactorRemains`, `RetiredStaysRetired`, `OvertakenNeverSucceeds`, `OutcomesAgree` |
| `session` (505,139) | 1 connection of rpc and of control, the admin endpoint, 2 keys in 3 configurations, 2 entries, fairness of the shutdown | `CacheSound`, `JournalFaultExplained`, `NeverBehindCheckpoint`, `AcknowledgedIsCheckpointed`, `CleanStopIsPublished`, `SessionEnds` |
| `derivation` (1,122,201) | 3 ceremonies (both families, EVM, Solana), 2 roles, 3 numbers of which one has no EVM child, namespaces of one | `TypeOK`, `NumbersNotShared`, `RestartSucceeds`, `UsableIsCommitted`, `RetirementHolds` |
| `backup` (423,877) | 2 hosts, 2 wallets, 2 approvals (one standing, one for the next epoch), 2 operations, 2 revocations, 2 standing policy updates, 1 account number, 2 mutations, 2 backups | `JournalOrdersHistories`, `RestoreRoundTrips`, `CountersMatchOperations`, `PolicyChainIsLinear`, `RevocationAnswersHold`, `AuthorityNeverRegresses` |
| `backup_monotonic` | the same with 1 revocation, 1 update | `RestoreIsMonotonic` is violated: see Findings |
| `backup_numbers` | 1 wallet, 2 account numbers, 1 backup | `NextNumberIsBeyondEveryPath` is violated: see Findings |
| `pairing` (838,240) | 1 wallet, 2 local and 1 remote passkey, a pairing to each surface, 3 revisions, 2 attempts, 1 unlocked wallet | `RemoteIsProven`, `ConfirmedModeIsReal`, `UnlockedIsBounded`, `EnrolmentIsAuthorised` |

Where a component has proofs, its type invariant, its inductive invariant and the
properties that are conjuncts or close consequences of it are left to them
(`ReleasedNeverSigned`, `ResultsAreComplete`, `OneAnswerPerId`, `CreditedOnce`,
`StartupSucceeds`, `CredentialsMatchWraps`, `OutcomesAreFinal`, `OutcomeFinal`): the
theorems have no bounds. What the runs and those properties say, in words:

* **NoDoubleSigning.** The history of an operation is one pass over the hashes of
  the content it was reserved for, whatever crashes and retries come between. The
  durable DISPATCHED mark carries this: with the mark not persisted, a retry after a
  crash signs again.
* **ReleasedNeverSigned, RefusalsAreHonest.** A refund, and the code on which the
  Broker refunds, imply that no signature exists. This is the distinction between
  the four definitive backend errors and `IndeterminateAcceptance`, and the
  condition that nothing of the batch was signed.
* **ResultsAreComplete.** A result, stored or fresh, belongs to the request's own
  approval and content, is committed, and has every hash signed.
* **LifetimeLimitsHold, CountersExact.** The counters are the unrefunded
  reservations, and they bound the signatures that really exist.
* **RateWindowsHold.** In *every* rolling window, not only those that end at a
  reservation. It rests on the gate: two requests that observe the clock in one
  order and reserve in the other would break it.
* **AtMostOneLateOperation.** Revocation takes no gate, so the operation a backend
  is signing at that moment may still finish. Not a second one, ever.
* **AcknowledgedStaysRevoked, OneAnswerPerId, EvidenceBindsRows.** What a client was
  told of a revocation stays true; an operation ID has one request and one answer;
  epoch, tombstones, approvals and journal move together, as `restore_backup` demands
  of evidence.
* **BoundedAdvance, CreditedOnce, UndisturbedIsHealthy.** No observation moves
  effective time by more than one forward step beyond what the monotonic clock
  vouches for, unless the boot provably changed; monotonic time is credited at most
  once, over restarts and repeated rejections; a wall clock that only ran on is
  never rejected, however long the Signer was down or suspended within a boot.
* **RepairsAreInformed.** A repair expires only approvals its operator was shown for
  exactly that time, though approvals come and go between the refused repair and
  the confirmed one.
* **MemoryIsDurable, StartupSucceeds.** Whatever step of a completion fails, the
  service goes on with what a restart would load, and the restart is admitted by the
  generation fence.
* **CredentialsMatchWraps, AFactorRemains, RetiredStaysRetired.** Over any sequence
  of additions, removals, replacements, recoveries and deletions, the credentials
  that authenticate for a wallet are its active wraps, one factor stays, and a
  retired credential or recovery factor never opens the wallet again.
* **OvertakenNeverSucceeds.** A ceremony open while its wallet was recovered or
  deleted, or an activation of an epoch that ended meanwhile, never gets a receipt.
  The generation checked at completion carries this, not the expiry.
* **OutcomesAgree, OutcomesAreFinal.** Success, receipt and status are one thing, an
  open ceremony has none, and no reuse of the operation ID changes them.
* **CacheSound, JournalFaultExplained.** No order of commits, rolled back appends and
  foreign writes makes the cached head hide a chain that does not verify, and no crash
  or repetition of a key rotation makes the Signer refuse its own journal; nor do the
  heads that concurrent answers publish ever contradict each other. The first rests on
  comparing `data_version`, the second on the rotation being one transaction.
* **AcknowledgedIsCheckpointed, NeverBehindCheckpoint, CleanStopIsPublished.** A
  mutation whose success was answered to the Broker or the revocation client is in the
  checkpoint store, although the store is asked after the commit; a Signer that still
  mutates is not behind what it published; after a clean stop nothing that a start, the
  Broker or the revocation client recorded is unpublished. The first and the third do not
  extend to the administrator's commands: see Observations.
* **SessionEnds.** The end of the login session stops the process even if a peer never
  reads its answer. The drain's timeout carries this.
* **NumbersNotShared.** Numbers of failed, crashed, retired and abandoned allocations
  are not used again in either family.
* **RestartSucceeds, UsableIsCommitted, RetirementHolds.** At every
  crash point of allocation, rollback and retirement the account listing works, the
  next start gets through recovery and restore, a key is usable between ceremonies
  only if its ceremony has a receipt, and a receipted retirement holds in the registry,
  the enrollment, the record and the backend.
* **AuthorityNeverRegresses, RevocationAnswersHold, PolicyChainIsLinear.** No restore
  undoes a revocation, the answer of one, a recovery, a policy version or an outcome; what
  a revocation was answered with is what the merged rows say; two updates authorized over
  one baseline never both commit. The checks `restore_backup` makes on the rows carry
  these, so they hold although the journal may have been brought by another wallet's
  backup. Retirements have no such check and are not among them.
* **JournalOrdersHistories, RestoreRoundTrips, CountersMatchOperations.** Of a wallet whose
  rows followed their journal, in the database and in the backup: a history that is a
  prefix of another is never the later one, retirements included, which is what entitles
  `restore_audit_entries` to accept a backup by its journal; a restored wallet is the
  backup, and its counters still count its operations. Without that condition all three
  are false of the code.
* **RemoteIsProven, ConfirmedModeIsReal.** No restart, late report or change of mode
  leaves a remote surface open that the Broker has not proven to this process at this
  revision; and what an administration command waits for is true when it sees it.
* **EnrolmentIsAuthorised, UnlockedIsBounded, OutcomeFinal.** A pairing enrols a
  passkey only while the passkey that approved it is active, the wallet was not
  recovered since and both surfaces are open; unlocked wallets in memory are bounded
  and none is kept for a finished pairing; a pairing's outcome never changes.

### Bounds, and why they are enough

Every bound is a constant. *Signing*: two attempts are a reservation, a crash or a lost
answer, and the retry; two hashes are the least for a batch that fails half way; two
approvals and two contents are the least for a reused operation ID; two operations
against a limit of two make a refund matter. *Gate*: two tasks are the least that race,
since the gate admits one and the other observes the clock outside it; four instants let
a window of two ticks slide past both reservations. *Revocation*: two epochs, an
approval for each, and two IDs allow an activation between a revocation and its retry.
*Clock*: a downtime of two ticks against a forward step of one tells a credited gap from
a jump, and a third instant leaves room for a rejection after a credit; two boots are
the least for a stale anchor; two approvals that expire at different times are the least
for a repair whose effect changes between refusal and confirmation. *Ceremony*: three
operations register a wallet and hold a ceremony open over a recovery, deletion or
removal, or register a second wallet beside the first; three credentials are one
registered, one added or recovered to, and one more; a ceremony lives for one of two
ticks, so that one can expire and another follow. *Session*: two entries are a mutation
and a rotation, or a published entry and one that an older copy lacks; one connection of
each endpoint lets a commit of one, or of the administrator, fall between commit and
answer of the other. *Derivation*: three ceremonies cover both orders of the families
and a number skipped by one and met by the next; three numbers serve all three, and run
out once one of them is skipped. *Backup*: two wallets and two backups are the least for
a journal that one wallet's backup carries past the rows of another; the standing
approvals and updates start the wallets past activation and authorization, so that two
mutations are enough to diverge on both hosts (reservation, revocation, retirement,
commit of an update), to meet a revocation's reconciliation, and to settle an operation
that a backup holds in flight. *Pairing*: two pairings are the least that compete for
one unlocked wallet; three passkeys are one approving, one enrolled and one that a
custody ceremony brings; three revisions are on, off and on.

The proofs remove the bounds for the properties they cover. Workers, operations,
attempts and credentials that are interchangeable are a symmetry set in the runs
without liveness.

Deadlock is checked in every run but those of `Backup`, whose history is bounded by the
number of mutations and may end there.

## Fairness

Two runs assume any. `signing_live`: weak fairness of each task's own steps and strong
fairness of its gate acquisition. A tokio task that is ready is polled; every
backend call ends by the request's deadline, with an indeterminate answer if with
none, and every engine call returns; tokio's mutex is first-in first-out, so a
waiter is not passed over while the gate comes and goes. No fairness is assumed of
clients, revocations, clocks, keys or restarts: a request may end by its answer or
with its process. `session`: weak fairness of the accept loops' reaction to the
shutdown, of a drain that has every permit back, and of the drain's timer. tokio polls
a ready accept loop and fires a timer, and the admin loop leaves a connection after five
seconds at the latest; nothing is assumed of the other connections, which may hang for
ever.

## The proofs

Assumptions: `SigningAssumption`, `AuthorityAssumption`, `RevocationAssumption`,
`MaxTimeAssumption`, `ClockAssumption`, `CeremonyAssumption`, `SurfaceAssumption`,
`PairingAssumption`, `RegistryAssumption`, `BackupAssumption`, `JournalAssumption` and
`SessionAssumption` give the constants their types (for instance that a request
carries between one hash and `MaxBatch`, or that the marker for "no head" is not an
event); TLC evaluates them in the runs. Nothing else is assumed: any sets of tasks,
attempts, approvals, wallets, hosts, connections and keys, any finite sets of
operations, contents and pairings, any limits and bounds. Finiteness of contents is that
of a digest's values; sums need it.

The inductive invariants were first checked by TLC on the instances of the runs, except
that of `Backup`, whose replays TLC cannot enumerate.

**Signing_proofs.** `TypeCorrect` is inductive by itself: the checked
subtractions of `FinalizeReleased` keep the counters natural. `SigningSafe` is
`Spec => []SigningInv`, with

* `GateHeld`: a task past the gate is its holder, so there is only one;
* `RowsSound`: what each row state says of the backend's history;
* `TaskSound`: what the task between two transactions may rely on. Its count of
  signatures is the backend's, and its row is still DISPATCHED and its own;
* `NoDoubleSigning` itself, which is not inductive alone: it does not know that a
  dispatched row has no second task.

`SignsOnce`, `RefundsAreUnsigned`, `ResultsComplete` and `RefusalsHonest` follow.
`LateOnce` needs `LateInv` in addition: an active approval is of its wallet's
epoch, therefore out of force is for ever; and the only task that can still sign
under an approval that left force has the operation that is late already.

`LimitsSafe` is `Spec => []LimitsInv`: the counters are exact and within the terms.
`CountersExact` alone is inductive but says nothing of the limits; the terms' bound alone
does not say what the counters count. A step changes the rows in one of three ways
(`Kept`, `Reserves`, `Releases`; `RowsStep`), and each is compared with the counters'
change. `LifetimeLimits` then needs `MadeBound`: an operation has at most the signatures
it was charged for, by `NoDoubleSigning`, and none without a charge, by `RowsSound`.
`WindowsHold` needs `RatesInv`: every reservation was accepted at a time that has passed,
and a task past the gate was observed after *every* reservation there is. A new
reservation is therefore the latest of its approval, so whatever window it falls into
holds no more than the window that ends at its own time, which `authorize_sign` has
counted. Both halves are proved, operations and signatures; the run's terms have
operation rates only.

These are statements about sums over sets of rows. The first part of that section
proves what they need of the library's `SumFunctionOnSet`: that its recursive function
exists over every finite set (`TotalsExist`), that a sum does not depend on the order of
its terms (`SumRemove`), and that it is monotonic (`SumBelow`). Each by a smallest
counterexample among the subsets of a finite set (`SmallestSubset`), which takes the
place of the induction theorems that the provers cannot instantiate.

**Revocation_proofs.** `RevocationInv` joins `EvidenceBindsRows` with
`JournalBornOut` (a journaled answer is still true of the rows) and
`AnswersJournaled` (a client was told only what is journaled, or what a tombstone
proves). `RevocationPermanent` and `OneAnswer` follow from it, and
`AuthorityImplemented` shows each action to be a step of `ApprovalAuthority` or a
stutter, with the missing wallet row mapped to itself.

**SignerClock_proofs.** `ClockInv`: the row is of the past (`RowOfThePast`: no
anchor lies ahead of this boot's clock), `CreditedOnce`, `CreditCovers` (within the
anchor's boot the credit is at least the effective time plus what passed since the
anchor), and `UndisturbedExplained` (an undisturbed wall clock is the row's time
plus what the monotonic clock will vouch for). `CreditOnce` and
`UndisturbedAccepted` follow, and the action theorems `AdvanceBounded`,
`RepairInformed` and the refinement `TimeImplemented` use it for each step.

**Ceremony_proofs.** `CeremonyInv` has a part about custody and a part about
sessions. Custody: memory is the store, wallets are at their fence, `WalletsSound`
(a wallet has its enrollment, which deletion leaves behind; its wraps are its own,
each active or inactive; its recovery factor is the one of its generation) and
`RevokedSound` (a retired credential is an inactive wrap, a retired recovery factor
of an earlier generation). Sessions: `OpenSound` (an open ceremony has no outcome
and was prepared at a generation the fence has reached) and `OvertakenAreStale` (an
overtaken ceremony's wallet is gone, or at a later generation, or at a later epoch).
`SnapshotStep` shows for each kind of ceremony that a sound snapshot is left sound;
`CommitCustody` and `CommitSession` use it for the commit; a stale ceremony is refused
because the checks of its completion contradict each of the three ways of being
stale. `MemoryDurable`, `StartupAlways`, `CredentialsMatch`, `FactorRemains`,
`RetiredForGood`, `OvertakenFails` and `OutcomesFinal` follow, for any number of
wallets, credentials and operations. `OutcomesAlwaysAgree` is proved for readable
receipts (`~ReadsMayFail`).

**Pairing_proofs.** Two invariants, one per module. `SurfaceInv` is about the surface
alone: `NextIsSurfaceStep` shows that every step of a pairing is a step of `Surface` or
leaves its variables as they are, so the surface's own cases suffice; `RemoteStaysFenced`
and `ConfirmationIsTrue` follow. `PairsInv` is the types with the facts of a
live pairing: the passkeys it offers are its wallet's on the source surface, the one
that approved is among them and has used up the source's recipient key, and a success
has taken capability and unlocked wallet. `TypeCorrect`, `OutcomesStand` and
`EnrolmentsAuthorised` follow from it. `UnlockedBounded` needs the count of unlocked
wallets in addition, which only the source's completion raises, behind its guard.

**DerivationRegistry_proofs.** `Inv` says for each stage of the one running ceremony
what it may rely on. `NumbersInv`: a namespace's counter is past every number it gave
out, and the number of the running allocation is past every number of another ceremony;
`NumbersNotShared` is not inductive without it, since `Prepare` uses a number that was
chosen in an earlier step. `StageInv`: which of an allocation's children are active,
registered in memory and in the record by now. `CommitInv`: a committed child has its
receipt and, while active, is in the record and in memory; an uncommitted one is in
memory only while its own allocation may still commit it or has yet to drop it.
`RetireInv`: the same for the steps of a retirement. One lemma per action;
`AccountNumbersUnique`, `RestartAlwaysSucceeds`, `UsableKeysCommitted` and
`RetirementPermanent` follow.

**Backup_proofs.** The rows a restore merges come from two histories, and the journal
beside them may belong to a third, so the argument has two halves. The first is about rows
alone: `RowsAgree` (`RevInv`: the revocation answers, tombstones, epoch and approvals of
any rows bind each other; `PolicyLinear`: the policy chain). `MergeSound` and
`MergeLinear` show that the checks of `restore_backup` preserve it and let nothing be lost,
*whatever* rows are merged. `RevocationAnswersPermanent`, `PolicyChainLinear` and the action
theorem `AuthorityPermanent` rest on this half and never mention the journal. The second is
about the wallets in `whole`, on a host or in a backup: their rows are the *replay* of the
journal's entries about them (`FollowsJournal`), with exact counters at every point of it
(`RowInv`). `Effect` is what one entry does to a
wallet's rows, `IsReplay` a run of them from the empty rows, `ReplayExtend` that entries of
other wallets change nothing. `ReplaysAgree` shows that replays agree along a common prefix
and `ReplayOrdered` that a replay never goes back (`Precedes`), each by a smallest index;
`HistoriesOrdered` is then a fact about journals (`PrefixPrecedes`). Where the journal of a
backup extends that of the database, and the wallet followed it on both sides, the backup's
rows are no earlier in anything and the merge is exactly the backup (`MergeIsBackup`,
`RestoresRoundTrip`). `CountersExactEverywhere` follows. All for any hosts, wallets, number
of backups and mutations.

**Session_proofs.** `Inv` has three parts beside the types. `ProcessInv`: what a process
holds in memory, and when. `ChainInv`: a rotation row stands exactly where the chain's
key changes, and the chain of a running process verifies unless another hand touched the
database or it did not verify when the process opened it; `CacheSound` and
`JournalFaultExplained` are its conjuncts, and need it because what a later append
verifies is the chain that earlier ones left. `PublishInv`: while nobody else touched the
database, the store's head is a prefix of the journal's, what a connection wrote is a
prefix of the journal and, once its answer is being sent, of the store's head; and what a
start or a connection recorded is a prefix of the store's head, unless some mutation is
committed and not yet answered. The journal may be longer than all of that by entries of
the administrator (`AdministerKeeps`).
`ServesUpToDate`, `AnswersCheckpointed` and `CleanStopPublished` follow.

Only model-checked: `EveryRequestEnds` and `SessionEnds`, since liveness under fairness
is out of the prover's reach. Every invariant and every action property of a run that
should hold is a theorem, or (`EvidenceBindsRows`) a conjunct of the proved
`RevocationInv`. Induction over data is replaced by smallest counterexamples, as above;
the models declare no RECURSIVE operator.

## Findings

Two statements of the repository are not what the code does.

**`backup_monotonic`.** docs/w3-signer-seam-decisions.md:34: "Restore is self-contained and
monotonic". `restore_backup` writes the backup's state over a RETIRED allocation and the
backup's availability over its key (`engine.rs` 5251-5263, 5286-5294); only the journal
keeps it from doing so with older rows, and the journal is that of the host, the rows those
of one wallet. TLC's counterexample, with wallets A and B: the file is copied to a
spare; the host retires an account of B and exports A; the spare restores A, so that its
journal has the retirement and its rows of B do not; its export of B extends the host's
journal, and the host restores it. The account is active and its key available again.
Epochs, tombstones, answers, generations, policies and outcomes have checks of their own
and do not go back (`AuthorityNeverRegresses`).

**`backup_numbers`.** `derivation_registry.rs`:411 says of `next_account_number`: "The
account number one more than every path this wallet has ever used in either family".
`restore_backup` (`engine.rs` 5231-5305) writes the accounts of the backup and neither
the namespace counters nor the tombstones that function reads. A restored wallet with
EVM accounts is therefore offered a number that is in use; its allocation meets the path
conflict, and so does every later one; and a number that was abandoned before the backup
can be handed out again.

Today only tests call `restore_backup`.

## Observations

Met while modelling, and worth knowing. The first five also differ from a comment or a
document, in ways the models show but no run is spent on:

* README.md:83: "Signer will not sign while its durable clock is untrusted." `sign` asks
  `approval_requires_trusted_time`, which is true only of terms with a rolling window
  (`engine.rs` 1535). Under other terms it signs in UNTRUSTED and ROLLBACK_FROZEN,
  judging the approval's window by the frozen effective time.
* docs/w3-signer-seam-decisions.md:43: retries of a revocation "are stable". The handler
  passes its own current time as `revoked_at_ms` (`service.rs` 266), which is in the
  digest the journal compares, so an identical request is OPERATION_ID_CONFLICT once the
  clock has moved. No revocation is lost by it: only the reply changes.
* `service.rs` 638: a quarantined operation "must not be reported with a code whose
  contract says otherwise". `authorize_sign` judges approval, key, window and epoch
  before it looks at the operation, so a new attempt for a quarantined operation whose
  approval was revoked or has expired is answered with a code that denies any effect.
* `ceremony.rs` 3930: "the wallet admits one creation once its live ceremony ends."
  `require_no_live_wallet_session` counts every pending record, expired or not, and
  nothing removes an expired one but its own completion, a cancellation or a restart.
* `ceremony.rs` 2623: "never let that later error overwrite a committed receipt's
  successful public status". `terminalize_consumed_ceremony` takes a receipt it cannot
  read for none (`.ok().flatten()`), so an error after the commit can overwrite
  SUCCEEDED with FAILED. `ReadsMayFail` of `Ceremony` models it; `OutcomesAlwaysAgree`
  is proved without it.

Signing, clock, revocation and ceremonies:

* `RetryableBeforeAcceptance` from a backend releases the operation for good: the
  code that reaches the Broker is retryable, but a retry of this operation ID is a
  conflict.
* Rolling windows bound the *acceptance* of operations. One that was reserved before
  a crash may be dispatched by a retry in a later window.
* `FORWARD_JUMP_REJECTED` is reported as degraded readiness and yet admits requests
  under terms with rolling windows.
* Every accepted forward step is bounded; a sequence of them is not. A wall clock
  that creeps ahead in small steps takes effective time with it.
* A repair keeps the anchor of the observation its own start made, so the ticks in
  between are credited to the repaired time.
* The revocation snapshot is read under two lock acquisitions (`service.rs` 280). It
  is consistent because the runtime has one thread and there is no await in between.
* Deleting a wallet leaves its approvals, its backend, its enrollment and its policy
  row. The wallet ID can therefore never be registered again, which the proof of
  `RetiredForGood` uses.
* `prepare_approval` does not compare the terms' epoch with the wallet's. Terms of a
  later epoch can be prepared and become activable by a `revoke_all`.
* A retry answered from the `completed` map does not compare ceremony ID and kind;
  one answered from the durable receipt does.
* The sign count of an approval's assertion is advanced in memory only, until the next
  custody commit.
* `cancel` drops the pending record before it writes CANCELLED. When that write
  fails, the operation has no outcome and its ID can be prepared again.

Journal and session:

* A start records entries before it asks the checkpoint store. Enough of them on top of
  an older copy of the database make its head longer than the retained one, which the
  store then accepts.
* `response_journal_head` answers with the last head that verified when the chain stops
  verifying after a commit: the client sees a success and an older head.
* An empty chain verifies under any key and so is never rotated. A rotation back to an
  earlier key and forth again leaves a journal whose backups `restore_backup` refuses.
* Answers on separate connections may reach the Broker in another order than their heads
  were published in.
* `set_exposure_mode` and `install_remote_surface` of the admin endpoint commit audited
  entries and answer without publishing a head. Until the next answer to the Broker, or
  the next start, an older copy of the database can lose them unnoticed, also after a
  clean stop.
* With a degraded journal, `recover_incomplete_bip39_allocations` fails and with it the
  start, if there is anything to recover.

Accounts:

* A retirement that crashed after the registry's step cannot be repeated: the retry finds
  the row RETIRED, and the enrollment stays available and the child in the backend's
  record. Signing is refused by the registry's row.
* Recovery leaves PREPARED, INDEX_COMMITTED and ACCOUNT_COMMITTED rows as they are; their
  numbers are lost. A ceremony repeated with its custody operation ID conflicts with them.
* `public_accounts` returns RETIRED accounts too. Hiding an enrollment and refreshing the
  backend's record append no audit entry.

Backup:

* `custody.import` is an entry of its own, so the same backup cannot be restored twice
  over one database; nor can, after one wallet's backup, another wallet's that was exported
  on the original host, so that a new host can be given only one wallet this way.
* Rows the backup lacks are kept. Two hosts that signed different operations under one
  approval can both have used = 1; once another wallet's backup carried the journal, a
  restore accepts the equal counters and leaves two operations counted as one
  (`CountersMatchOperations` excludes such wallets).
* A copy of the database that holds an operation in flight refuses every newer backup in
  which it is settled; one that holds a wallet tombstone refuses every backup with a later
  `revoke_all` of that wallet, since the two tombstones differ.
* `restore_backup` may raise a wallet's epoch without deactivating its approvals (the
  epoch check of `authorize_sign` still refuses them). Policy authorizations and receipts,
  ceremony receipts and statuses, WebAuthn credentials, the surface and the clock are not
  part of a backup.

Surface and pairing:

* `localhost-only` asks `active_wallet_ids`, which knows wallets with an approval. A
  wallet without one, whose passkeys are all remote, is not noticed. Removing the last
  local passkey while the mode is LocalhostOnly is not refused either.
* The fence of a new process writes the effective mode itself and leaves the revision, so
  after `localhost-only` and a restart the command succeeds before the Broker has
  confirmed anything. What it reports is true all the same (`ConfirmedModeIsReal`).
* Two pairings of one wallet can be prepared and unlocked at once. A completion that was
  committed at the last attempt, or just before expiry, is answered as a replay when it
  is repeated.

## What is not modelled

*In the modelled parts*: value limits (the Broker's claim, not decoded here) beyond
their demand for a trusted clock; cryptography, encodings and canonical JSON, which
appear as equality of contents; integer widths other than the epoch's last value, the
last account number and the counters' zero, since every other sum is checked and refused
by the code; time in milliseconds (ticks here); the macOS clock, which takes the host's
wall clock and bypasses the durable row; Petal key scopes and namespaces beyond being
part of `Admits`; legacy imports, whose pending record names no wallet; imported
secp256k1 namespaces; the derivation registry's own event chain; the peer handshake,
byte and rate quotas and the codecs of a session; deletion of a wallet in `Pairing`; in
`Backup`, Petal scopes, backend enrollments, attempts and the contents of the custody
record; the IDs of approvals, operations and revocations are a wallet's own there, since
the code refuses one that another wallet has.

*Parts*: provisioning by the administration tool (files, with one idempotence key); the
AWS KMS backend (one stateless call; its answers are the alternatives of `BackendSign`);
WebAuthn, HPKE and derivation mathematics (functions of one input, checked by vectors);
the migration tool (a conversion of files); process hardening; test vectors.

## Plan

Every property of a passing run but the two about liveness has its theorem. Left, in this
order:

1. **Composition.** `Signing` is proved over `ApprovalAuthority` and `EffectiveTime`, and
   `Revocation` and `SignerClock` are proved to implement them. `Ceremony` changes
   approvals by the same abstract steps; that each of its steps is one of them or a
   stutter is still to be stated and proved.
2. **Abstract specifications** of the journal (an append-only sequence with a published
   prefix) and of the account numbers (a set that only grows), with `Session` and
   `DerivationRegistry` shown to implement them.
3. **Action properties** of the durable rows: an operation row's state only moves
   forward, an attempt is consumed once.
