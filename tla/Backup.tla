------------------------------- MODULE Backup -------------------------------
(***************************************************************************)
(* Backup, restore and the policy compare-and-swap, over the Signer        *)
(* databases of several hosts that share the revocation, audit and broker  *)
(* keys, and of several wallets.                                           *)
(*                                                                         *)
(* A host has one audit journal for all its wallets; a backup has the rows *)
(* of one wallet and the whole journal, up to the export's own entry.      *)
(* Every operation is one transaction under the connection lock, so it is  *)
(* one action.  Two journals are equal when their events are: entries are  *)
(* hashed and signed deterministically, and times are left out, so that    *)
(* the model accepts every backup the code does.  Signing is summarised as *)
(* a reservation and its settlement, BIP-39 allocation as one step, on EVM *)
(* accounts only: the modules Signing and DerivationRegistry have their    *)
(* detail.                                                                 *)
(***************************************************************************)
EXTENDS Integers, FiniteSets, FiniteSetsExt, Sequences, SequencesExt

CONSTANTS
    Hosts,          \* databases
    Primary,        \* the host the wallets are registered on
    Wallets,
    Approvals,      \* approvals, operations and updates of a wallet
    ApprovalEpoch,  \* the epoch an approval's terms are sealed for
    Operations,
    ApprovalOf,     \* the approval an operation is signed under
    Revocations,    \* operation_id of the revocations of a wallet
    Updates,        \* operation_id of policy updates; also the policy proposed
    StandingApprovals,  \* the approvals that are active when it starts
    StandingUpdates,    \* the updates that are authorized when it starts
    MaxMutations,   \* bound on the events other than exports and imports
    MaxBackups,     \* bound on the exports
    MaxNumber       \* the last account number

ASSUME BackupAssumption ==
    /\ Primary \in Hosts
    /\ ApprovalEpoch \in [Approvals -> Nat]
    /\ ApprovalOf \in [Operations -> Approvals]
    /\ "wallet" \notin Approvals /\ "nothing" \notin Approvals
    /\ "nobody" \notin Revocations
    /\ StandingApprovals \subseteq {a \in Approvals : ApprovalEpoch[a] = 0}
    /\ StandingUpdates \subseteq Updates
    /\ MaxMutations \in Nat
    /\ MaxBackups \in Nat
    /\ MaxNumber \in Nat

VARIABLES
    db,         \* the rows of every wallet and the journal, by host
    backups,    \* SignerBackupSets exported so far
    mutations   \* how many events have happened

vars == <<db, backups, mutations>>

Numbers == 0 .. MaxNumber
InitialPolicy == "initial"

\* A tombstone names the revocation that issued it and the wallet's epoch; a
\* row of revocation_operations what was revoked and the tombstone answered.
NoTombstone == [by |-> "nobody", epoch |-> 0]
NoResult == [of |-> "nothing", tombstone |-> NoTombstone]
Tombstones == [by : Revocations \union {"nobody"}, epoch : Nat]
Results == [of : Approvals \union {"wallet", "nothing"}, tombstone : Tombstones]

\* What an export carries of a wallet.
Material ==
    [epoch : Nat,                       \* wallet_revocation_epoch
     revoked : Tombstones,              \* wallet_tombstone
     approvals : [Approvals -> {"absent", "active", "inactive"}],
     used : [Approvals -> Nat],         \* committed_operations
     tombstones : [Approvals -> Tombstones],    \* approval_tombstones
     revocations : [Revocations -> Results],    \* revocation_operations
     operations : [Operations -> {"absent", "reserved", "committed", "released"}],
     version : Nat,                     \* of the policy; 0 without wallet custody
     policy : Updates \union {InitialPolicy},
     generation : Nat,                  \* credential_authority_generation
     accounts : [Numbers -> {"free", "active", "retired"}]]

\* What stays behind in the database: pending policy authorizations with their
\* baseline, commit receipts with their version, and the allocator's next index
\* and abandoned paths.
Local ==
    [authorized : [Updates -> Nat], committed : [Updates -> Nat],
     next : 0 .. MaxNumber + 1, abandoned : SUBSET Numbers]

\* The entries of a journal.  What precedes Init is one; an export and an import
\* record the digest of the rows.
Events ==
    {<<"registered">>}
      \union ({"recovery"} \X Wallets)
      \union ({"activated"} \X Wallets \X Approvals)
      \union ({"revoked", "reconciled"} \X Wallets \X Approvals \X Revocations)
      \union ({"revoke_all"} \X Wallets \X Revocations)
      \union ({"reserved", "committed", "released"} \X Wallets \X Operations)
      \union ({"policy.authorized", "policy.committed"} \X Wallets \X Updates)
      \union ({"allocated", "abandoned", "retired"} \X Wallets \X Numbers)
      \union ({"custody.export", "custody.import"} \X Wallets \X Material)

\* whole is history: the wallets whose rows have followed the journal, as they do
\* until a restore of another wallet brings entries of theirs without the rows.
Databases ==
    [rows : [Wallets -> Material], own : [Wallets -> Local], journal : Seq(Events),
     whole : SUBSET Wallets]
Backups ==
    [wallet : Wallets, rows : Material, journal : Seq(Events), whole : BOOLEAN]

TypeOK ==
    /\ \A h \in Hosts :
          /\ \A w \in Wallets : db[h].rows[w] \in Material /\ db[h].own[w] \in Local
          /\ db[h].journal \in Seq(Events)
          /\ db[h].whole \subseteq Wallets
    /\ \A b \in backups :
          /\ b.wallet \in Wallets /\ b.whole \in BOOLEAN
          /\ b.rows \in Material /\ b.journal \in Seq(Events)
    /\ mutations \in 0 .. MaxMutations

NoRows ==
    [epoch |-> 0, revoked |-> NoTombstone,
     approvals |-> [a \in Approvals |-> "absent"], used |-> [a \in Approvals |-> 0],
     tombstones |-> [a \in Approvals |-> NoTombstone],
     revocations |-> [r \in Revocations |-> NoResult],
     operations |-> [o \in Operations |-> "absent"],
     version |-> 0, policy |-> InitialPolicy, generation |-> 0,
     accounts |-> [n \in Numbers |-> "free"]]
NoLocal ==
    [authorized |-> [u \in Updates |-> 0], committed |-> [u \in Updates |-> 0],
     next |-> 0, abandoned |-> {}]
Registered ==
    [NoRows EXCEPT !.version = 1,
                   !.approvals = [a \in Approvals |->
                                    IF a \in StandingApprovals THEN "active" ELSE "absent"]]
RegisteredLocal ==
    [NoLocal EXCEPT !.authorized = [u \in Updates |-> IF u \in StandingUpdates THEN 1 ELSE 0]]

\* The wallets have been registered on the primary, with their initial policy and
\* the standing approvals and authorizations; the other databases are new.
Init ==
    /\ db = [h \in Hosts |->
                [rows |-> [w \in Wallets |-> IF h = Primary THEN Registered ELSE NoRows],
                 own |-> [w \in Wallets |-> IF h = Primary THEN RegisteredLocal ELSE NoLocal],
                 journal |-> IF h = Primary THEN <<<<"registered">>>> ELSE <<>>,
                 whole |-> Wallets]]
    /\ backups = {}
    /\ mutations = 0

\* A transaction that changes a wallet's rows and appends its audit entry.
Commit(h, w, event, rows, own) ==
    /\ mutations < MaxMutations
    /\ mutations' = mutations + 1
    /\ db' = [db EXCEPT ![h].rows[w] = rows, ![h].own[w] = own,
                        ![h].journal = Append(@, event)]
    /\ UNCHANGED backups

\* The wallet's policy and custody are there.
Installed(h, w) == db[h].rows[w].version > 0

-----------------------------------------------------------------------------
(* What changes a wallet between backups *)

\* persist_approval: at the wallet's epoch, once.
Activate(h, w, a) ==
    LET rows == db[h].rows[w] IN
    /\ Installed(h, w)
    /\ rows.approvals[a] = "absent"
    /\ ApprovalEpoch[a] = rows.epoch
    /\ Commit(h, w, <<"activated", w, a>>,
              [rows EXCEPT !.approvals[a] = "active"], db[h].own[w])

\* authorize_sign: the operation row and the counter of its approval.
Reserve(h, w, o) ==
    LET rows == db[h].rows[w]
        a == ApprovalOf[o]
    IN
    /\ rows.operations[o] = "absent"
    /\ rows.approvals[a] = "active"
    /\ ApprovalEpoch[a] = rows.epoch
    /\ Commit(h, w, <<"reserved", w, o>>,
              [rows EXCEPT !.operations[o] = "reserved", !.used[a] = @ + 1],
              db[h].own[w])

\* commit_operation_result.
CommitResult(h, w, o) ==
    LET rows == db[h].rows[w] IN
    /\ rows.operations[o] = "reserved"
    /\ Commit(h, w, <<"committed", w, o>>,
              [rows EXCEPT !.operations[o] = "committed"], db[h].own[w])

\* finalize_operation of one that never reached the backend: the counter goes
\* back, by a checked subtraction.
Release(h, w, o) ==
    LET rows == db[h].rows[w] IN
    /\ rows.operations[o] = "reserved"
    /\ rows.used[ApprovalOf[o]] > 0
    /\ Commit(h, w, <<"released", w, o>>,
              [rows EXCEPT !.operations[o] = "released", !.used[ApprovalOf[o]] = @ - 1],
              db[h].own[w])

RevokeUnjournaled(h, w, a, r) ==
    LET rows == db[h].rows[w]
        tombstone == [by |-> r, epoch |-> rows.epoch]
    IN
    /\ rows.revocations[r] = NoResult
    /\ rows.approvals[a] # "absent"
    /\ rows.tombstones[a] = NoTombstone
    /\ db' = [db EXCEPT ![h].rows[w] =
                 [rows EXCEPT !.approvals[a] = "inactive", !.tombstones[a] = tombstone,
                              !.revocations[r] = [of |-> a, tombstone |-> tombstone]]]
    /\ UNCHANGED <<backups, mutations>>
\* revoke_approval of an operation_id that is new (one that is not gets its
\* stored result, or a refusal).
RevokeApproval(h, w, a, r) ==
    LET rows == db[h].rows[w]
        tombstone == [by |-> r, epoch |-> rows.epoch]
    IN
    /\ rows.revocations[r] = NoResult
    /\ rows.approvals[a] # "absent"
    /\ rows.tombstones[a] = NoTombstone
    /\ Commit(h, w, <<"revoked", w, a, r>>,
              [rows EXCEPT !.approvals[a] = "inactive", !.tombstones[a] = tombstone,
                           !.revocations[r] = [of |-> a, tombstone |-> tombstone]],
              db[h].own[w])

\* The approval has a tombstone, which answers the new operation as well.
ReconcileApproval(h, w, a, r) ==
    LET rows == db[h].rows[w] IN
    /\ rows.revocations[r] = NoResult
    /\ rows.tombstones[a] # NoTombstone
    /\ Commit(h, w, <<"reconciled", w, a, r>>,
              [rows EXCEPT !.revocations[r] =
                              [of |-> a, tombstone |-> rows.tombstones[a]]],
              db[h].own[w])

\* revoke_all asks for no wallet: it may come before the wallet's backup.
RevokeAll(h, w, r) ==
    LET rows == db[h].rows[w]
        tombstone == [by |-> r, epoch |-> rows.epoch + 1]
    IN
    /\ rows.revocations[r] = NoResult
    /\ Commit(h, w, <<"revoke_all", w, r>>,
              [rows EXCEPT
                 !.epoch = @ + 1, !.revoked = tombstone,
                 !.approvals = [a \in Approvals |->
                                  IF @[a] = "absent" THEN "absent" ELSE "inactive"],
                 !.revocations[r] = [of |-> "wallet", tombstone |-> tombstone]],
              db[h].own[w])

\* A wallet recovery ceremony replaces the credentials.
Recover(h, w) ==
    /\ Installed(h, w)
    /\ Commit(h, w, <<"recovery", w>>,
              [db[h].rows[w] EXCEPT !.generation = @ + 1], db[h].own[w])

Highest(S) == Max({-1} \union S)

\* next_account_number of a wallet with EVM accounts.
NextNumber(own) == Max({own.next, Highest(own.abandoned) + 1})

\* allocate_bip39_accounts; it refuses a path that has a row.
Allocate(h, w) ==
    LET rows == db[h].rows[w]
        own == db[h].own[w]
        number == NextNumber(own)
    IN
    /\ Installed(h, w)
    /\ number <= MaxNumber
    /\ rows.accounts[number] = "free"
    /\ \/ Commit(h, w, <<"allocated", w, number>>,
                 [rows EXCEPT !.accounts[number] = "active"],
                 [own EXCEPT !.next = number + 1])
       \/ Commit(h, w, <<"abandoned", w, number>>, rows,
                 [own EXCEPT !.next = number + 1, !.abandoned = @ \union {number}])

Retire(h, w, n) ==
    LET rows == db[h].rows[w] IN
    /\ rows.accounts[n] = "active"
    /\ Commit(h, w, <<"retired", w, n>>,
              [rows EXCEPT !.accounts[n] = "retired"], db[h].own[w])

-----------------------------------------------------------------------------
(* The policy compare-and-swap *)

\* The policy update ceremony: prepare_policy_update_effect signs the next
\* version over the baseline the request names, which must be the installed one;
\* the commit leaves a pending authorization.
AuthorizePolicy(h, w, u) ==
    LET own == db[h].own[w] IN
    /\ Installed(h, w)
    /\ own.authorized[u] = 0
    /\ own.committed[u] = 0
    /\ Commit(h, w, <<"policy.authorized", w, u>>, db[h].rows[w],
              [own EXCEPT !.authorized[u] = db[h].rows[w].version])

\* The baseline is compared again when the update is committed.
BaselineWasCurrent(h, w, u) == TRUE
BaselineIsCurrent(h, w, u) == db[h].own[w].authorized[u] = db[h].rows[w].version

\* compare_and_swap_policy of an update that is not committed yet (one that is
\* gets its stored receipt).
CompareAndSwap(h, w, u) ==
    LET own == db[h].own[w]
        next == own.authorized[u] + 1
    IN
    /\ own.committed[u] = 0
    /\ own.authorized[u] # 0
    /\ BaselineIsCurrent(h, w, u)
    /\ Commit(h, w, <<"policy.committed", w, u>>,
              [db[h].rows[w] EXCEPT !.version = next, !.policy = u],
              [own EXCEPT !.authorized[u] = 0, !.committed[u] = next])

-----------------------------------------------------------------------------
(* Export and restore *)

\* SignerBackupSet: the rows of one wallet as they are, and a journal.
BackupOf(h, w, journal) ==
    [wallet |-> w, rows |-> db[h].rows[w], journal |-> journal,
     whole |-> w \in db[h].whole]

\* export_wallet_backup, of any wallet: load_audit_entries has the journal of the
\* host, with the export's own entry, which the transaction appends.
Export(h, w) ==
    LET journal == Append(db[h].journal, <<"custody.export", w, db[h].rows[w]>>) IN
    /\ Cardinality(backups) < MaxBackups
    /\ db' = [db EXCEPT ![h].journal = journal]
    /\ backups' = backups \union {BackupOf(h, w, journal)}
    /\ UNCHANGED mutations

\* restore_audit_entries: the backup's journal extends the durable one.
JournalNotShorter(h, b) == Len(db[h].journal) <= Len(b.journal)
JournalExtends(h, b) == IsPrefix(db[h].journal, b.journal)

\* The checks of restore_backup, of the durable rows x and those of the backup y.
EpochNotLower(x, y) == x.epoch <= y.epoch

CountersNotLower(x, y) ==
    \A a \in Approvals :
        x.approvals[a] # "absent" /\ y.approvals[a] # "absent" => x.used[a] <= y.used[a]

TombstonesUnchecked(x, y) == TRUE
TombstonesAgree(x, y) ==
    /\ NoTombstone \notin {x.revoked, y.revoked} => x.revoked = y.revoked
    /\ \A a \in Approvals :
          NoTombstone \notin {x.tombstones[a], y.tombstones[a]} =>
              x.tombstones[a] = y.tombstones[a]

\* A set without custody has neither a policy nor a generation.
PolicyNotLower(x, y) ==
    y.version # 0 =>
        /\ x.version <= y.version
        /\ x.version = y.version => x.policy = y.policy

GenerationNotLower(x, y) == y.version # 0 => x.generation <= y.generation

\* An operation both sides know has the same row on both.
OperationsAgree(x, y) ==
    \A o \in Operations :
        "absent" \notin {x.operations[o], y.operations[o]} =>
            x.operations[o] = y.operations[o]

RevocationsAgree(x, y) ==
    \A r \in Revocations :
        NoResult \notin {x.revocations[r], y.revocations[r]} =>
            x.revocations[r] = y.revocations[r]

\* active = 0 in the database or in the backup stays 0.
ReplacedApproval(x, y, a) ==
    IF y.approvals[a] = "absent" THEN x.approvals[a] ELSE y.approvals[a]
RestoredApproval(x, y, a) ==
    IF "inactive" \in {x.approvals[a], y.approvals[a]} THEN "inactive"
    ELSE IF y.approvals[a] = "absent" THEN x.approvals[a]
    ELSE y.approvals[a]

KeptOperation(x, y, o) == x.operations[o]
RestoredOperation(x, y, o) ==
    IF y.operations[o] = "absent" THEN x.operations[o] ELSE y.operations[o]

\* ACTIVATED and RETIRED allocations of the backup replace the durable rows.
RestoredAccount(x, y, n) ==
    IF y.accounts[n] = "free" THEN x.accounts[n] ELSE y.accounts[n]

\* What restore_backup leaves: rows the backup lacks are kept.
RestoredRows(x, y) ==
    [epoch |-> y.epoch,
     revoked |-> IF y.revoked = NoTombstone THEN x.revoked ELSE y.revoked,
     approvals |-> [a \in Approvals |-> RestoredApproval(x, y, a)],
     used |-> [a \in Approvals |->
                 IF y.approvals[a] = "absent" THEN x.used[a] ELSE y.used[a]],
     tombstones |-> [a \in Approvals |->
                       IF x.tombstones[a] = NoTombstone THEN y.tombstones[a]
                       ELSE x.tombstones[a]],
     revocations |-> [r \in Revocations |->
                        IF x.revocations[r] = NoResult THEN y.revocations[r]
                        ELSE x.revocations[r]],
     operations |-> [o \in Operations |-> RestoredOperation(x, y, o)],
     version |-> IF y.version = 0 THEN x.version ELSE y.version,
     policy |-> IF y.version = 0 THEN x.policy ELSE y.policy,
     generation |-> IF y.version = 0 THEN x.generation ELSE y.generation,
     accounts |-> [n \in Numbers |-> RestoredAccount(x, y, n)]]

\* An entry that tells of a change to the wallet's rows.
Changes(w, e) ==
    \/ e[1] = "registered"
    \/ e[1] \notin {"custody.export", "custody.import"} /\ e[2] = w

\* The wallets that still follow the journal: the restored one if it did on both
\* sides, another if no entry of its own was brought.
WholeAfter(h, b) ==
    {w \in db[h].whole :
        IF w = b.wallet THEN b.whole
        ELSE \A i \in Len(db[h].journal) + 1 .. Len(b.journal) : ~Changes(w, b.journal[i])}

\* restore_backup: one transaction, in which any check undoes all of it.  It
\* brings the rows of one wallet and the journal of all.
Restore(h, b) ==
    LET w == b.wallet
        x == db[h].rows[w]
    IN
    /\ JournalExtends(h, b)
    /\ EpochNotLower(x, b.rows)
    /\ CountersNotLower(x, b.rows)
    /\ TombstonesAgree(x, b.rows)
    /\ PolicyNotLower(x, b.rows)
    /\ GenerationNotLower(x, b.rows)
    /\ OperationsAgree(x, b.rows)
    /\ RevocationsAgree(x, b.rows)
    /\ db' = [db EXCEPT ![h].rows[w] = RestoredRows(x, b.rows),
                        ![h].journal = Append(b.journal, <<"custody.import", w, b.rows>>),
                        ![h].whole = WholeAfter(h, b)]
    /\ UNCHANGED <<backups, mutations>>

\* A host's first start is on a copy of another host's database file.
CopyFile(from, to) ==
    /\ db[to].journal = <<>>
    /\ db[from].journal # <<>>
    /\ db' = [db EXCEPT ![to] = db[from]]
    /\ UNCHANGED <<backups, mutations>>

Next ==
    \/ \E h \in Hosts, w \in Wallets :
          \/ \E a \in Approvals :
                \/ Activate(h, w, a)
                \/ \E r \in Revocations :
                      RevokeApproval(h, w, a, r) \/ ReconcileApproval(h, w, a, r)
          \/ \E r \in Revocations : RevokeAll(h, w, r)
          \/ \E o \in Operations :
                Reserve(h, w, o) \/ CommitResult(h, w, o) \/ Release(h, w, o)
          \/ Recover(h, w)
          \/ Allocate(h, w)
          \/ \E n \in Numbers : Retire(h, w, n)
          \/ \E u \in Updates : AuthorizePolicy(h, w, u) \/ CompareAndSwap(h, w, u)
          \/ Export(h, w)
    \/ \E h \in Hosts : \E b \in backups : Restore(h, b)
    \/ \E from, to \in Hosts : CopyFile(from, to)

Spec == Init /\ [][Next]_vars

-----------------------------------------------------------------------------
(* Properties *)

\* Nothing that restore_backup checks, or merges so that it cannot be lost, is
\* lost from x to y.
KeepsAuthority(x, y) ==
    /\ x.epoch <= y.epoch
    /\ x.generation <= y.generation
    /\ x.version <= y.version
    /\ x.revoked # NoTombstone => y.revoked # NoTombstone
    /\ \A a \in Approvals :
          /\ x.approvals[a] = "inactive" => y.approvals[a] = "inactive"
          /\ x.tombstones[a] # NoTombstone => y.tombstones[a] = x.tombstones[a]
    /\ \A r \in Revocations :
          x.revocations[r] # NoResult => y.revocations[r] = x.revocations[r]
    /\ \A o \in Operations :
          x.operations[o] \in {"committed", "released"} => y.operations[o] = x.operations[o]

KeepsRetirements(x, y) ==
    \A n \in Numbers : x.accounts[n] = "retired" => y.accounts[n] = "retired"

\* No step of any host undoes a revocation, an epoch, a credential generation, a
\* policy version, the answer of a revocation or the outcome of an operation.
\* The checks of restore_backup see to that by themselves: it holds of a backup
\* whose journal was carried to its host by other wallets' backups as well.
AuthorityNeverRegresses ==
    [][\A h \in Hosts, w \in Wallets : KeepsAuthority(db[h].rows[w], db'[h].rows[w])]_vars

\* "Restore is self-contained and monotonic": a retired account stays retired.
RestoreIsMonotonic ==
    [][\A h \in Hosts, w \in Wallets : KeepsRetirements(db[h].rows[w], db'[h].rows[w])]_vars

\* The states of a wallet in the databases and backups that followed the journal.
Histories(w) ==
    {[rows |-> db[h].rows[w], journal |-> db[h].journal] : h \in {g \in Hosts : w \in db[g].whole}}
      \union {[rows |-> b.rows, journal |-> b.journal] :
                 b \in {c \in backups : c.wallet = w /\ c.whole}}

\* The journal orders the states of a wallet wherever its rows followed it: where
\* one history is a prefix of another its rows are no later, retirements
\* included.  That is what entitles restore_audit_entries to accept a backup by
\* its journal; a mutation without an audit entry would break it.
JournalOrdersHistories ==
    \A w \in Wallets : \A x, y \in Histories(w) :
        IsPrefix(x.journal, y.journal) =>
            KeepsAuthority(x.rows, y.rows) /\ KeepsRetirements(x.rows, y.rows)

\* A database that has just been restored holds exactly what the backup holds,
\* whatever older copy of the wallet it held before, if both followed the journal.
RestoreRoundTrips ==
    \A h \in Hosts : \A w \in db[h].whole :
        LET journal == db[h].journal IN
        /\ journal # <<>>
        /\ Last(journal)[1] = "custody.import"
        /\ Last(journal)[2] = w
        => db[h].rows[w] = Last(journal)[3]

\* The lifetime counter of an approval counts its operation rows, the released
\* ones excepted, on every host and after every merge of rows by a restore, of
\* the wallets that followed the journal.
CountersMatchOperations ==
    \A h \in Hosts : \A w \in db[h].whole : \A a \in Approvals :
        db[h].rows[w].used[a] =
            Cardinality({o \in Operations :
                            /\ ApprovalOf[o] = a
                            /\ db[h].rows[w].operations[o] \in {"reserved", "committed"}})

\* Policy versions form one chain: two updates authorized over the same
\* baseline never both commit, and the installed policy is that of the update
\* with the highest version.
PolicyChainIsLinear ==
    \A h \in Hosts, w \in Wallets :
        LET rows == db[h].rows[w]
            committed == db[h].own[w].committed
        IN \A u \in Updates : committed[u] # 0 =>
              /\ committed[u] <= rows.version
              /\ committed[u] = rows.version => rows.policy = u
              /\ \A v \in Updates \ {u} : committed[v] # committed[u]

\* What a revocation was answered with is what the database still says, however
\* rows of several hosts are merged: its tombstone is the approval's, which stays
\* inactive, and the wallet's tombstone is that of the wallet's epoch, which no
\* answered epoch exceeds.
RevocationAnswersHold ==
    \A h \in Hosts, w \in Wallets :
        LET rows == db[h].rows[w] IN
        /\ rows.epoch = rows.revoked.epoch
        /\ \A r \in Revocations :
              LET result == rows.revocations[r] IN
              /\ result.of = "wallet" =>
                    \/ result.tombstone.epoch < rows.epoch
                    \/ result.tombstone = rows.revoked
              /\ result.of \in Approvals =>
                    /\ rows.tombstones[result.of] = result.tombstone
                    /\ rows.approvals[result.of] = "inactive"

\* next_account_number is "one more than every path this wallet has ever used".
NextNumberIsBeyondEveryPath ==
    \A h \in Hosts, w \in Wallets :
        \A n \in Numbers :
            db[h].rows[w].accounts[n] # "free" => n < NextNumber(db[h].own[w])
=============================================================================
