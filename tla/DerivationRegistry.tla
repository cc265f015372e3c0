------------------------- MODULE DerivationRegistry -------------------------
(***************************************************************************)
(* BIP-39 accounts of one wallet: the derivation registry, the enrolled    *)
(* keys and the local backend's record, as the AccountAllocate and         *)
(* AccountRetire ceremonies change them and a restart recovers them.       *)
(*                                                                         *)
(* A ceremony's apply runs under the custody completion barrier and never  *)
(* awaits, so nothing runs between its steps; but every step is a          *)
(* transaction of its own, and the process may crash after any of them.    *)
(* One account number serves one custody operation, with a child per       *)
(* requested family.  A storage or audit error may fail any transaction.   *)
(***************************************************************************)
EXTENDS Integers, FiniteSets, FiniteSetsExt

CONSTANTS
    Operations,         \* custody_operation_id of AccountAllocate ceremonies
    Roles,              \* requested_role of EVM children
    FamiliesOf,         \* the families each operation's request names
    RoleOf,             \* and its role
    InvalidChildren,    \* EVM numbers BIP-32 has no child for
    MaxNumber,          \* the last account number; 2^31 - 1 in the code
    NamespaceCap        \* maximum_children of a namespace

ASSUME RegistryAssumption ==
    /\ MaxNumber \in Nat
    /\ NamespaceCap \in Nat
    /\ InvalidChildren \subseteq 0 .. MaxNumber
    /\ FamiliesOf \in [Operations -> {{"evm"}, {"sol"}, {"evm", "sol"}}]
    /\ RoleOf \in [Operations -> Roles]

Families == {"evm", "sol"}
Children ==                             \* family_operation_id
    {c \in Operations \X Families : c[2] \in FamiliesOf[c[1]]}
OperationOf(c) == c[1]
FamilyOf(c) == c[2]

VARIABLES
    rows,           \* derivation_allocations
    counters,       \* next_index of the EVM namespaces, by role
    tombstones,     \* derivation_tombstones of the EVM profile: role, number
    enrolled,       \* enrolled_keys of the children
    record,         \* the backend's record in ceremony_backend_enrollments
    receipts,       \* ceremony_receipts
    phase,          \* of the process
    backend,        \* the local backend in memory
    task            \* the ceremony being applied

durable == <<rows, counters, tombstones, enrolled, record, receipts>>
vars == <<durable, phase, backend, task>>

States == {"ABSENT", "PREPARED", "INDEX_COMMITTED", "ACCOUNT_COMMITTED",
           "ACTIVATED", "RETIRED", "TOMBSTONED"}
Numbers == 0 .. MaxNumber
Records == [registered : SUBSET Children, pending : SUBSET Children]
EmptyRecord == [registered |-> {}, pending |-> {}]
NoRow == [state |-> "ABSENT", number |-> 0, role |-> "none", committed |-> FALSE]
NoTask == [at |-> "none"]

Tasks ==
    {NoTask}
      \union
    [at : {"choose", "prepare", "index", "account", "activate", "register",
           "enroll", "refresh", "commit", "rollback"},
     op : Operations,
     number : Numbers, left : SUBSET Families, hidden : BOOLEAN]
      \union
    [at : {"retire", "retire_backend", "deactivate", "retire_refresh",
           "retire_commit"}, child : Children]

TypeOK ==
    /\ rows \in [Children -> [state : States, number : Numbers,
                              role : Roles \union {"none"}, committed : BOOLEAN]]
    /\ counters \in [Roles -> 0 .. MaxNumber + 1]
    /\ tombstones \subseteq Roles \X Numbers
    /\ enrolled \in [Children -> {"absent", "available", "unavailable"}]
    /\ record \in Records
    /\ receipts \subseteq [kind : {"allocate"}, op : Operations]
                            \union [kind : {"retire"}, child : Children]
    /\ phase \in {"down", "recovering", "up"}
    /\ backend \in Records
    /\ task \in Tasks

Init ==
    /\ rows = [c \in Children |-> NoRow]
    /\ counters = [r \in Roles |-> 0]
    /\ tombstones = {}
    /\ enrolled = [c \in Children |-> "absent"]
    /\ record = EmptyRecord
    /\ receipts = {}
    /\ phase = "up"
    /\ backend = EmptyRecord
    /\ task = NoTask

-----------------------------------------------------------------------------
(* The registry *)

Allocated(f) == {c \in Children : FamilyOf(c) = f /\ rows[c].state # "ABSENT"}

\* next_account_number: beyond every EVM counter, every EVM tombstone and every
\* Solana account, in whatever state its row is.
NextAccountNumber ==
    Max({0} \union {counters[r] : r \in Roles} \union {t[2] + 1 : t \in tombstones}
          \union {rows[c].number + 1 : c \in Allocated("sol")})

RemainsOnePast == NextAccountNumber <= MaxNumber + 1
NumberRemains == NextAccountNumber <= MaxNumber

\* The family the ceremony turns to next: EVM, which has invalid children, first.
First(families) == IF "evm" \in families THEN "evm" ELSE "sol"
Current == <<task.op, First(task.left)>>

\* The namespace of the child's role is full.
AtCap(c, role) ==
    /\ FamilyOf(c) = "evm"
    /\ Cardinality({d \in Allocated("evm") :
                       rows[d].role = role /\ rows[d].state # "TOMBSTONED"})
         >= NamespaceCap

\* prepare_allocation_at refuses: the operation id has a row already (at a
\* number that is not the new one), the namespace is full, or the path is
\* tombstoned or allocated to another operation.
PathTaken(c) ==
    \/ \E d \in Allocated(FamilyOf(c)) : rows[d].number = task.number
    \/ FamilyOf(c) = "evm" /\ <<RoleOf[task.op], task.number>> \in tombstones

CanPrepare(c) ==
    /\ rows[c].state = "ABSENT"
    /\ ~AtCap(c, RoleOf[task.op])
    /\ ~PathTaken(c)
    /\ ~(FamilyOf(c) = "evm" /\ task.number \in InvalidChildren)

SetRow(c, row) == rows' = [rows EXCEPT ![c] = row]
SetState(c, s) == rows' = [rows EXCEPT ![c].state = s]

\* tombstone: from any other state; the path is never free again.
TombstoneRow(c) ==
    /\ SetState(c, "TOMBSTONED")
    /\ tombstones' = IF FamilyOf(c) = "evm"
                     THEN tombstones \union {<<rows[c].role, rows[c].number>>}
                     ELSE tombstones

\* UPDATE enrolled_keys SET available = 0, a statement of its own.
Hide(c) ==
    enrolled' = IF enrolled[c] = "absent" THEN enrolled
                ELSE [enrolled EXCEPT ![c] = "unavailable"]

Without(r, c) == [registered |-> r.registered \ {c}, pending |-> r.pending \ {c}]

-----------------------------------------------------------------------------
(* AccountAllocate *)

\* The apply of an allocation ceremony.
Begin(op) ==
    /\ phase = "up"
    /\ task = NoTask
    /\ [kind |-> "allocate", op |-> op] \notin receipts
    /\ NumberRemains
    /\ task' = [at |-> "choose", op |-> op, number |-> NextAccountNumber,
                left |-> FamiliesOf[op], hidden |-> FALSE]
    /\ UNCHANGED <<durable, phase, backend>>

\* An EVM child that does not exist is tombstoned, and the next number taken.
\* (record_invalid_child_tombstone names a role of its own.)
SkipInvalid ==
    /\ task.at = "choose"
    /\ "evm" \in FamiliesOf[task.op]
    /\ task.number \in InvalidChildren
    /\ \E r \in Roles : tombstones' = tombstones \union {<<r, task.number>>}
    /\ task' = IF task.number < MaxNumber THEN [task EXCEPT !.number = @ + 1] ELSE NoTask
    /\ UNCHANGED <<rows, counters, enrolled, record, receipts, phase, backend>>

Choose ==
    /\ task.at = "choose"
    /\ ~("evm" \in FamiliesOf[task.op] /\ task.number \in InvalidChildren)
    /\ task' = [task EXCEPT !.at = "prepare"]
    /\ UNCHANGED <<durable, phase, backend>>

\* The counter of a targeted EVM index: MAX(next_index, index + 1).
CounterStep(n, number) == n + 1
AdvanceCounter(n, number) == Max({n, number + 1})

Prepare ==
    /\ task.at = "prepare"
    /\ CanPrepare(Current)
    /\ SetRow(Current, [state |-> "PREPARED", number |-> task.number,
                        role |-> IF FamilyOf(Current) = "evm" THEN RoleOf[task.op] ELSE "none",
                        committed |-> FALSE])
    /\ counters' = IF FamilyOf(Current) = "evm"
                   THEN [counters EXCEPT ![RoleOf[task.op]] = AdvanceCounter(@, task.number)]
                   ELSE counters
    /\ task' = [task EXCEPT !.at = "index"]
    /\ UNCHANGED <<tombstones, enrolled, record, receipts, phase, backend>>

CommitIndex ==
    /\ task.at = "index"
    /\ rows[Current].state = "PREPARED"
    /\ SetState(Current, "INDEX_COMMITTED")
    /\ task' = [task EXCEPT !.at = "account"]
    /\ UNCHANGED <<counters, tombstones, enrolled, record, receipts, phase, backend>>

CommitAccount ==
    /\ task.at = "account"
    /\ rows[Current].state = "INDEX_COMMITTED"
    /\ SetState(Current, "ACCOUNT_COMMITTED")
    /\ task' = [task EXCEPT !.at = "activate"]
    /\ UNCHANGED <<counters, tombstones, enrolled, record, receipts, phase, backend>>

\* Once every family is activated the children are registered and enrolled.
Activate ==
    /\ task.at = "activate"
    /\ rows[Current].state = "ACCOUNT_COMMITTED"
    /\ SetState(Current, "ACTIVATED")
    /\ task' = IF task.left = {FamilyOf(Current)}
               THEN [task EXCEPT !.at = "register", !.left = FamiliesOf[task.op]]
               ELSE [task EXCEPT !.at = "prepare", !.left = @ \ {FamilyOf(Current)}]
    /\ UNCHANGED <<counters, tombstones, enrolled, record, receipts, phase, backend>>

\* register_bip39_child, with the child's operation id as pending.
Registered(r, c) ==
    [registered |-> r.registered \union {c}, pending |-> r.pending \union {c}]

\* enroll_activated_child, up to the backend.
Register ==
    /\ task.at = "register"
    /\ backend' = Registered(backend, Current)
    /\ task' = [task EXCEPT !.at = "enroll"]
    /\ UNCHANGED <<durable, phase>>

\* enroll_bip39_child.
Enroll ==
    /\ task.at = "enroll"
    /\ enrolled' = [enrolled EXCEPT ![Current] = "available"]
    /\ task' = IF task.left = {FamilyOf(Current)}
               THEN [task EXCEPT !.at = "refresh", !.left = {}]
               ELSE [task EXCEPT !.at = "register", !.left = @ \ {FamilyOf(Current)}]
    /\ UNCHANGED <<rows, counters, tombstones, record, receipts, phase, backend>>

\* refresh_backend_enrollment: the record in memory becomes durable.
Refresh ==
    /\ task.at = "refresh"
    /\ record' = backend
    /\ task' = [task EXCEPT !.at = "commit"]
    /\ UNCHANGED <<rows, counters, tombstones, enrolled, receipts, phase, backend>>

\* commit_custody_snapshot_with_effect: the receipt, and the rows of this apply
\* marked as committed by their ceremony.  Then finalize_local_derived_key.
MarkCommitted(op) ==
    [c \in Children |->
        IF OperationOf(c) = op THEN [rows[c] EXCEPT !.committed = TRUE] ELSE rows[c]]

CommitAllocation ==
    /\ task.at = "commit"
    /\ \A f \in FamiliesOf[task.op] :
          rows[<<task.op, f>>].state = "ACTIVATED" /\ ~rows[<<task.op, f>>].committed
    /\ rows' = MarkCommitted(task.op)
    /\ receipts' = receipts \union {[kind |-> "allocate", op |-> task.op]}
    /\ backend' = [backend EXCEPT !.pending = @ \ ({task.op} \X FamiliesOf[task.op])]
    /\ task' = NoTask
    /\ UNCHANGED <<counters, tombstones, enrolled, record, phase>>

-----------------------------------------------------------------------------
(* A step of the allocation fails *)

\* The children the error path abandons: in the registry phase those already
\* activated, later all of them.
Abandoned ==
    IF task.at \in {"prepare", "index", "account", "activate"}
    THEN FamiliesOf[task.op] \ task.left
    ELSE FamiliesOf[task.op]

FailStep ==
    /\ task.at \in {"prepare", "index", "account", "activate", "register",
                    "enroll", "refresh", "commit"}
    /\ task' = IF Abandoned = {} THEN NoTask
               ELSE [task EXCEPT !.at = "rollback", !.left = Abandoned]
    /\ UNCHANGED <<durable, phase, backend>>

\* tombstone_failed_bip39_account: the enrollment is hidden first, by a
\* statement of its own; then the row is tombstoned.  rollback_local_derived_key
\* follows, in memory, whether or not that failed.
RollbackHide ==
    /\ task.at = "rollback"
    /\ ~task.hidden
    /\ Hide(Current) \/ UNCHANGED enrolled
    /\ task' = [task EXCEPT !.hidden = TRUE]
    /\ UNCHANGED <<rows, counters, tombstones, record, receipts, phase, backend>>

KeepInBackend(c) == backend
DropFromBackend(c) == Without(backend, c)

\* The tombstone is written only after a hide that succeeded.
RollbackTombstone ==
    /\ task.at = "rollback"
    /\ task.hidden
    /\ \/ enrolled[Current] # "available" /\ TombstoneRow(Current)
       \/ UNCHANGED <<rows, tombstones>>
    /\ backend' = DropFromBackend(Current)
    /\ task' = IF task.left = {FamilyOf(Current)} THEN NoTask
               ELSE [task EXCEPT !.left = @ \ {FamilyOf(Current)}, !.hidden = FALSE]
    /\ UNCHANGED <<counters, enrolled, record, receipts, phase>>

-----------------------------------------------------------------------------
(* AccountRetire *)

\* retire_bip39_account finds the row by the child's fingerprint.
BeginRetire(c) ==
    /\ phase = "up"
    /\ task = NoTask
    /\ rows[c].state \in {"ACTIVATED", "RETIRED"}
    /\ task' = [at |-> "retire", child |-> c]
    /\ UNCHANGED <<durable, phase, backend>>

\* The registry first, so that signing stops before anything else changes.
Retire ==
    /\ task.at = "retire"
    /\ rows[task.child].state = "ACTIVATED"
    /\ SetState(task.child, "RETIRED")
    /\ task' = [task EXCEPT !.at = "retire_backend"]
    /\ UNCHANGED <<counters, tombstones, enrolled, record, receipts, phase, backend>>

RetireBackend ==
    /\ task.at = "retire_backend"
    /\ task.child \in backend.registered
    /\ backend' = Without(backend, task.child)
    /\ task' = [task EXCEPT !.at = "deactivate"]
    /\ UNCHANGED <<durable, phase>>

Deactivate ==
    /\ task.at = "deactivate"
    /\ enrolled[task.child] # "absent"
    /\ Hide(task.child)
    /\ task' = [task EXCEPT !.at = "retire_refresh"]
    /\ UNCHANGED <<rows, counters, tombstones, record, receipts, phase, backend>>

RetireUnsaved ==
    /\ task.at = "retire_refresh"
    /\ task' = [task EXCEPT !.at = "retire_commit"]
    /\ UNCHANGED <<durable, phase, backend>>
RetireRefresh ==
    /\ task.at = "retire_refresh"
    /\ record' = backend
    /\ task' = [task EXCEPT !.at = "retire_commit"]
    /\ UNCHANGED <<rows, counters, tombstones, enrolled, receipts, phase, backend>>

CommitRetirement ==
    /\ task.at = "retire_commit"
    /\ receipts' = receipts \union {[kind |-> "retire", child |-> task.child]}
    /\ task' = NoTask
    /\ UNCHANGED <<rows, counters, tombstones, enrolled, record, phase, backend>>

\* A failed step ends the ceremony and undoes nothing; so does a child that is
\* retired already.
FailRetire ==
    /\ task.at \in {"retire", "retire_backend", "deactivate", "retire_refresh",
                    "retire_commit"}
    /\ task' = NoTask
    /\ UNCHANGED <<durable, phase, backend>>

-----------------------------------------------------------------------------
(* Crash and restart *)

Crash ==
    /\ phase # "down"
    /\ phase' = "down"
    /\ backend' = EmptyRecord
    /\ task' = NoTask
    /\ UNCHANGED durable

Restart ==
    /\ phase = "down"
    /\ phase' = "recovering"
    /\ UNCHANGED <<durable, backend, task>>

\* recover_incomplete_bip39_allocations: what it recovers.
PreparedToo == {c \in Children : rows[c].state = "PREPARED"}
Incomplete == {c \in Children : rows[c].state = "ACTIVATED" /\ ~rows[c].committed}

RecoverHide(c) ==
    /\ phase = "recovering"
    /\ c \in Incomplete
    /\ enrolled[c] = "available"
    /\ Hide(c)
    /\ UNCHANGED <<rows, counters, tombstones, record, receipts, phase, backend, task>>

RecoverTombstone(c) ==
    /\ phase = "recovering"
    /\ c \in Incomplete
    /\ enrolled[c] # "available"
    /\ TombstoneRow(c)
    /\ UNCHANGED <<counters, enrolled, record, receipts, phase, backend, task>>

\* derived_account_descriptors: the children a listing shows.  It fails as a
\* whole on an enrolled child whose row is neither active nor retired.
ListingSucceeds ==
    \A c \in Children : enrolled[c] = "available" =>
        rows[c].state \in {"ACTIVATED", "RETIRED"}
Listed == {c \in Children : enrolled[c] = "available" /\ rows[c].state = "ACTIVATED"}

\* restore_bip39_wallet_backend refuses a listed child its record does not name.
RestorePossible == ListingSucceeds /\ Listed \subseteq record.registered

\* pending_derivation_is_committed decides each pending child: finalized, or
\* rolled back.
CommittedPending ==
    {c \in record.pending : rows[c].state = "ACTIVATED" /\ rows[c].committed}
RestoreBackend ==
    /\ phase = "recovering"
    /\ Incomplete = {}
    /\ RestorePossible
    /\ backend' = [registered |-> record.registered \ (record.pending \ CommittedPending),
                   pending |-> {}]
    /\ phase' = "up"
    /\ UNCHANGED <<durable, task>>

AllocateSteps ==
    \/ SkipInvalid \/ Choose \/ Prepare \/ CommitIndex \/ CommitAccount \/ Activate
    \/ Register \/ Enroll \/ Refresh \/ CommitAllocation
    \/ FailStep \/ RollbackHide \/ RollbackTombstone
RetireSteps ==
    Retire \/ RetireBackend \/ Deactivate \/ RetireRefresh \/ CommitRetirement \/ FailRetire

Next ==
    \/ \E op \in Operations : Begin(op)
    \/ AllocateSteps
    \/ \E c \in Children : BeginRetire(c)
    \/ RetireSteps
    \/ Crash \/ Restart
    \/ \E c \in Children : RecoverHide(c) \/ RecoverTombstone(c)
    \/ RestoreBackend

Spec == Init /\ [][Next]_vars

-----------------------------------------------------------------------------
(* Properties *)

\* An account number is never used twice: whatever crashed, failed, was retired
\* or abandoned in between, two operations never share a number, in the same
\* family or across families.
NumbersNotShared ==
    \A c, d \in Children :
        /\ rows[c].state # "ABSENT"
        /\ rows[d].state # "ABSENT"
        /\ OperationOf(c) # OperationOf(d)
        => rows[c].number # rows[d].number

\* At every crash point of an allocation, a rollback or a retirement the account
\* listing still works (no live enrollment outlives its allocation), and the
\* next start gets through: once recovery has run, the record names every child
\* that is listed.
RestartSucceeds ==
    /\ ListingSucceeds
    /\ phase = "recovering" /\ Incomplete = {} => RestorePossible

\* require_key_available: the keys an approval may be sealed for and signed with.
Usable(c) ==
    /\ enrolled[c] # "absent"
    /\ c \in backend.registered
    /\ rows[c].state = "ACTIVATED"

\* Between ceremonies a key is usable only if its own ceremony committed a
\* receipt: a child of an allocation that failed, or died before its commit,
\* never signs.
UsableIsCommitted ==
    phase = "up" /\ task = NoTask =>
        \A c \in Children : Usable(c) =>
            /\ rows[c].committed
            /\ [kind |-> "allocate", op |-> OperationOf(c)] \in receipts

\* A retirement that was receipted holds for good, in all three places that
\* know the key, over every later crash, recovery and allocation.
RetirementHolds ==
    \A c \in Children : [kind |-> "retire", child |-> c] \in receipts =>
        /\ rows[c].state = "RETIRED"
        /\ enrolled[c] = "unavailable"
        /\ c \notin record.registered
        /\ c \notin backend.registered
=============================================================================
