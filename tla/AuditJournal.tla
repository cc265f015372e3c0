---------------------------- MODULE AuditJournal ----------------------------
(***************************************************************************)
(* The Signer's audit journal: the hash chain every mutation extends, the  *)
(* cross-signed key rotations, the cached verified head and the latch that *)
(* refuses mutations once the journal can no longer be trusted.            *)
(*                                                                         *)
(* An entry's hash covers the entries before it, so the head of a chain is *)
(* the sequence of its events; the signing key is outside the hash.  The   *)
(* database may be written by another connection, or replaced by an older  *)
(* copy of itself while no Signer runs: that is what verification, the     *)
(* data_version of the cache and the external checkpoint are there for.    *)
(* SQLite reads succeed; writes and commits may fail.                      *)
(***************************************************************************)
EXTENDS Integers, Sequences, SequencesExt

CONSTANTS
    Keys,           \* audit signing keys
    Events,         \* what a mutation records
    Configs,        \* operator configurations
    MaxEntries      \* bound on the length of the chain

NoKey == "no_key"

ASSUME JournalAssumption ==
    /\ NoKey \notin Keys
    /\ "no_head" \notin Events
    /\ MaxEntries \in Nat
    /\ Configs \subseteq
          [current : Keys, previous : Keys \union {NoKey}, historical : SUBSET Keys]
    /\ \A c \in Configs : c.current # c.previous

VARIABLES
    chain,          \* audit_chain: the key and event of every entry
    rotations,      \* audit_key_rotations
    altered,        \* some stored row no longer matches its hash or signature
    config,         \* audit keys of the running process
    cause,          \* the first degradation cause, or "none": the latch
    tail,           \* audit_tail: the cached verified head
    touched         \* history: the database was written or replaced by others

database == <<chain, rotations, altered>>
journalVars == <<database, config, cause, tail, touched>>

AllEvents == Events \union {"anchor", "rotated"}
Heads == BoundedSeq(AllEvents, MaxEntries)
NoHead == <<"no_head">>

\* cause_code: the journal does not verify, the checkpoint store refuses the
\* Signer's own head, or a fault from outside (a failed append, a failing
\* checkpoint store, a head of the Broker the store refuses).
Causes == {"none", "journal", "self_rejected", "fault"}

\* AuditTailState.  A pending tail takes the place of the verified one, which
\* cannot match again once total_changes has moved; it keeps the data_version.
\* foreign: data_version has moved since, own: total_changes has.
NoTail == [stage |-> "none", head |-> NoHead, foreign |-> FALSE, own |-> FALSE]

JournalTypeOK ==
    /\ chain \in BoundedSeq([key : Keys, event : AllEvents], MaxEntries)
    /\ rotations \subseteq
          [first : 1 .. MaxEntries, old : Keys, new : Keys, head : Heads]
    /\ altered \in BOOLEAN
    /\ config \in Configs
    /\ cause \in Causes
    /\ tail \in [stage : {"none", "verified", "pending"},
                 head : Heads \union {NoHead}, foreign : BOOLEAN, own : BOOLEAN]
    /\ touched \in BOOLEAN

JournalInit ==
    /\ chain = <<>>
    /\ rotations = {}
    /\ altered = FALSE
    /\ config \in Configs
    /\ cause = "none"
    /\ tail = NoTail
    /\ touched = FALSE

-----------------------------------------------------------------------------
(* The chain *)

HeadOf(c) == [i \in DOMAIN c |-> c[i].event]
Degraded == cause # "none"

\* The keys open_operational_signer_engine trusts, from the configuration.
Trusted(c) == (c.historical \union {c.previous, c.current}) \ {NoKey}

\* verify_audit_rotation, for the row at first_new_sequence: it names the keys
\* on both sides and the heads, and both keys signed it.
RotationProves(r, i) ==
    /\ r.first = i
    /\ r.old = chain[i - 1].key
    /\ r.new = chain[i].key
    /\ r.head = SubSeq(HeadOf(chain), 1, i)

\* verify_audit_chain: every row matches its hash and a trusted signature, every
\* change of key has its rotation, there are no other rotations, and the chain
\* ends under the expected key.
Verifies(k, keys) ==
    /\ ~altered
    /\ \A i \in DOMAIN chain : chain[i].key \in keys
    /\ \A i \in 2 .. Len(chain) :
          chain[i].key # chain[i - 1].key =>
             \E r \in rotations : RotationProves(r, i)
    /\ \A r \in rotations :
          r.first \in 2 .. Len(chain) /\ chain[r.first].key # chain[r.first - 1].key
    /\ chain # <<>> => Last(chain).key = k

ChainVerifies == Verifies(config.current, Trusted(config))

\* latch_audit_degraded_with: the first cause stays.
Latched(c) == IF Degraded THEN cause ELSE c

-----------------------------------------------------------------------------
(* The cached head *)

\* cached_audit_head compares the head, data_version and total_changes with the
\* verified tail, then with the tail append_audit left in its transaction.
HitWithoutVersion == tail.head = HeadOf(chain) /\ ~tail.own
CacheHit ==
    /\ tail.head = HeadOf(chain)
    /\ ~tail.foreign
    /\ ~tail.own

FreshTail(c) == [NoTail EXCEPT !.stage = "verified", !.head = HeadOf(c)]

CachedHeadOk == CacheHit \/ ChainVerifies

\* The tail after a call of cached_audit_head: a pending tail is promoted, and
\* a miss is verified in full.
TailAfterRead == IF CachedHeadOk THEN FreshTail(chain) ELSE tail

\* append_audit reads the pending tail in its transaction.  more: the
\* transaction changes further rows.
TailAfterAppend(c, more) ==
    [TailAfterRead EXCEPT !.stage = "pending", !.head = HeadOf(c), !.own = more]

\* Rows changed without an append: total_changes moves, and keeps its value
\* when the transaction rolls back.
TailAfterWrite == [TailAfterRead EXCEPT !.own = TRUE]

-----------------------------------------------------------------------------
(* Opening the journal *)

\* rotate_audit_key: the anchor of an empty journal (which a start never meets,
\* because an empty chain verifies under any key), the first entry under the new
\* key and the cross-signed row, in one transaction.
Anchored(c) ==
    IF chain = <<>> THEN << [key |-> c.previous, event |-> "anchor"] >> ELSE chain
RotatedChain(c) == Append(Anchored(c), [key |-> c.current, event |-> "rotated"])
RotatedRow(c) ==
    [first |-> Len(RotatedChain(c)), old |-> c.previous, new |-> c.current,
     head |-> HeadOf(RotatedChain(c))]

RotateInTwoSteps(c) ==
    /\ Len(RotatedChain(c)) <= MaxEntries
    /\ chain' = RotatedChain(c)
    /\ rotations' \in {rotations, rotations \union {RotatedRow(c)}}
    /\ UNCHANGED altered
RotateAuditKey(c) ==
    /\ Len(RotatedChain(c)) <= MaxEntries
    /\ chain' = RotatedChain(c)
    /\ rotations' = rotations \union {RotatedRow(c)}
    /\ UNCHANGED altered

\* open_operational_signer_engine finds the chain under the current key.
OpensCurrent(c) == Verifies(c.current, Trusted(c))

\* It does not, but the configuration names a previous key under which the
\* chain verifies.
OpensPrevious(c) ==
    /\ ~OpensCurrent(c)
    /\ c.previous # NoKey
    /\ Verifies(c.previous, Trusted(c))

\* The engine a start hands out.  After a rotation its tail is still the one
\* read before it, so the next read verifies the chain again.
OpenCurrent(c) ==
    /\ OpensCurrent(c)
    /\ cause' = "none"
    /\ tail' = FreshTail(chain)
    /\ UNCHANGED database

OpenRotating(c) ==
    /\ OpensPrevious(c)
    /\ RotateAuditKey(c)
    /\ cause' = "none"
    /\ tail' = [FreshTail(chain) EXCEPT !.own = TRUE]

OpenDegraded(c) ==
    /\ ~OpensCurrent(c)
    /\ ~OpensPrevious(c)
    /\ cause' = "journal"
    /\ tail' = NoTail
    /\ UNCHANGED database

Open(c) ==
    /\ config' = c
    /\ OpenCurrent(c) \/ OpenRotating(c) \/ OpenDegraded(c)

-----------------------------------------------------------------------------
(* Mutations *)

\* The latch check and cached_audit_head of mutation_transaction.
MutationAllowed == ~Degraded /\ CachedHeadOk

\* A mutation: its changes and its entry commit together.
CommitEntry(event, more) ==
    LET c == Append(chain, [key |-> config.current, event |-> event]) IN
    /\ MutationAllowed
    /\ Len(chain) < MaxEntries
    /\ chain' = c
    /\ tail' = TailAfterAppend(c, more)
    /\ UNCHANGED <<rotations, altered, config, cause, touched>>

\* The transaction fails before or after its append and rolls back.
RollBackEntry(event) ==
    LET c == Append(chain, [key |-> config.current, event |-> event]) IN
    /\ MutationAllowed
    /\ Len(chain) < MaxEntries
    /\ tail' \in {TailAfterWrite, TailAfterAppend(c, TRUE), TailAfterAppend(c, FALSE)}
    /\ UNCHANGED <<database, config, cause, touched>>

\* append_audit fails: the mutation rolls back and the latch closes.
FailAppend ==
    /\ MutationAllowed
    /\ cause' = Latched("fault")
    /\ tail' = TailAfterWrite
    /\ UNCHANGED <<database, config, touched>>

\* mutation_transaction finds a journal that no longer verifies.
RefuseMutation ==
    /\ ~Degraded
    /\ ~CachedHeadOk
    /\ cause' = Latched("journal")
    /\ UNCHANGED <<database, config, tail, touched>>

\* The latch is closed already.
RefuseDegraded == Degraded /\ UNCHANGED journalVars

\* Statements outside mutation_transaction that append no entry.
WriteUnaudited ==
    /\ tail' = [tail EXCEPT !.own = TRUE]
    /\ UNCHANGED <<database, config, cause, touched>>

-----------------------------------------------------------------------------
(* Other hands on the database *)

\* Another connection alters a stored row, the head included or not.
ForeignWrite ==
    /\ chain # <<>>
    /\ altered' = TRUE
    /\ tail' = [tail EXCEPT !.foreign = TRUE]
    /\ touched' = TRUE
    /\ UNCHANGED <<chain, rotations, config, cause>>

\* An older copy of the database, of a state that was committed.
OlderCopy(n) ==
    /\ n < Len(chain)
    /\ chain' = SubSeq(chain, 1, n)
    /\ rotations' = {r \in rotations : r.first <= n}
    /\ altered' \in {altered, FALSE}
    /\ touched' = TRUE
    /\ UNCHANGED <<config, cause, tail>>

-----------------------------------------------------------------------------
(* Properties *)

\* The cached head answers only while a full verification would: whatever the
\* order of commits, rolled back appends, unaudited writes and writes of other
\* connections, no hit hides a chain that does not verify.
CacheSound == CacheHit => ChainVerifies

\* The latch closes on the journal's account only with a reason.  The journal
\* does not verify: another hand touched the database, or the configuration
\* lacks a key of the chain; a key rotation that crashed, was repeated or was
\* rolled back is no reason.  The checkpoint store refuses the Signer's own head:
\* another hand again, never the order in which concurrent requests commit and
\* answer, nor what a start records before it asks the store.
JournalFaultExplained ==
    /\ cause = "journal" =>
          \/ touched
          \/ \E i \in DOMAIN chain : chain[i].key \notin Trusted(config)
          \/ chain # <<>> /\ Last(chain).key \notin {config.current, config.previous}
    /\ cause = "self_rejected" => touched
=============================================================================
