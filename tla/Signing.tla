------------------------------ MODULE Signing ------------------------------
(***************************************************************************)
(* The signing path of bloom-signer: SignerRpcService::sign and the engine *)
(* transactions it is made of, run by concurrent request tasks.            *)
(*                                                                         *)
(*   receive -> signing_gate -> observe clock -> authorize_sign            *)
(*           -> (stored result | mark_operation_dispatched)                *)
(*           -> one backend call per hash                                  *)
(*           -> commit_operation_result | finalize_operation               *)
(*                                                                         *)
(* Every engine call is one SQLite transaction under the connection mutex  *)
(* and so one action.  Between two of them any other request, a revocation *)
(* or a crash can happen: SignerRpcService is Send and Sync and relies on  *)
(* its own locks.  (The binary's one-thread runtime switches tasks only at *)
(* the gate and at backend calls, a subset of these behaviours.)  Rows     *)
(* survive a crash; tasks, the gate and the audit latch do not.            *)
(*                                                                         *)
(* A request's content is abstracted to a binding: the operation digest    *)
(* and the retry binding digest, that is, every field but the attempt's    *)
(* own identity and window.                                                *)
(***************************************************************************)
EXTENDS EffectiveTime, ApprovalAuthority, FiniteSets, Functions

CONSTANTS
    Keys,           \* key_ref
    Terms,          \* SealedApprovalTerms of each approval
    Bindings,       \* operation content, fixed across retries
    SignatureCount, \* signature_count of a binding: the hashes to sign
    Admits,         \* the bindings whose wallet, key, suite, policy and
                    \* selector match an approval's terms
    Operations,     \* operation_id
    Attempts,       \* attempt_id
    AttemptWindows, \* the [notBefore, expires] windows of attempts
    MaxBatch,       \* the most hashes one request may carry (32 in the code)
    Workers,        \* request tasks of serve_rpc
    NoWorker

ASSUME SigningAssumption ==
    /\ IsFiniteSet(Operations)
    /\ IsFiniteSet(Bindings)
    /\ NoWorker \notin Workers
    /\ MaxBatch \in Nat \ {0}
    /\ SignatureCount \in [Bindings -> 1 .. MaxBatch]
    /\ Admits \in [Approvals -> SUBSET Bindings]
    /\ \A a \in Approvals :
        /\ Terms[a].key \in Keys
        /\ Terms[a].notBefore \in Nat \ {0}  \* a time after the Unix epoch
        /\ Terms[a].expires \in Nat
        /\ {Terms[a].maxOperations, Terms[a].maxSignatures} \subseteq Nat
        /\ Terms[a].valueWindows \in BOOLEAN
        /\ \A r \in Terms[a].operationRates \union Terms[a].signatureRates :
              r.duration \in Nat \ {0} /\ r.maximum \in Nat \ {0}

VARIABLES
    operations,     \* operations rows
    counters,       \* approvals.committed_operations and .committed_signatures
    attempts,       \* attempts rows: the consumed attempt IDs
    available,      \* keys require_key_available would accept now
    gate,           \* holder of signing_gate
    tasks,          \* the local state of each request task
    latched,        \* audit_degraded
    effects,        \* history: signatures the backend made, per hash
    late            \* history: operations signed with the approval out of force

durableVars == <<operations, counters, attempts>>
historyVars == <<effects, late>>
vars == <<timeVars, authorityVars, durableVars, available, gate, tasks,
          latched, historyVars>>

Hashes == 1 .. MaxBatch  \* positions in ordered_hashes

OperationStates ==
    {"RESERVED", "DISPATCHED", "COMMITTED", "RELEASED", "QUARANTINED"}

NoOperation == [state |-> "NONE"]

Requests ==
    [operation : Operations, attempt : Attempts, approval : Approvals,
     binding : Bindings, window : AttemptWindows]

\* What a reply tells the Broker: a signing result, a code whose contract
\* denies any effect (before or after dispatch), or one that does not.
Replies ==
    {"result", "refused", "backend_refused", "ambiguous", "conflict",
     "unavailable"}

Idle == [pc |-> "idle"]

OperationType ==
    [state : OperationStates, approval : Approvals, binding : Bindings,
     accepted : 0 .. MaxTime]

TaskType ==
    [pc : {"waiting", "observed", "authorized", "dispatched", "committing",
           "releasing", "quarantining"},
     request : Requests, now : 0 .. MaxTime, signed : Nat]
      \union [pc : {"reply"}, request : Requests, code : Replies]
      \union {Idle}

TypeOK ==
    /\ TimeTypeOK
    /\ AuthorityTypeOK
    /\ operations \in [Operations -> OperationType \union {NoOperation}]
    /\ counters \in [Approvals -> [operations : Nat, signatures : Nat]]
    /\ attempts \subseteq Attempts
    /\ available \subseteq Keys
    /\ gate \in Workers \union {NoWorker}
    /\ tasks \in [Workers -> TaskType]
    /\ latched \in BOOLEAN
    /\ effects \in [Operations -> [Bindings -> [Hashes -> Nat]]]
    /\ late \subseteq Operations

Init ==
    /\ TimeInit
    /\ AuthorityInit
    /\ operations = [o \in Operations |-> NoOperation]
    /\ counters = [a \in Approvals |-> [operations |-> 0, signatures |-> 0]]
    /\ attempts = {}
    /\ available = Keys
    /\ gate = NoWorker
    /\ tasks = [w \in Workers |-> Idle]
    /\ latched = FALSE
    /\ effects = [o \in Operations |-> [b \in Bindings |-> [i \in Hashes |-> 0]]]
    /\ late = {}

-----------------------------------------------------------------------------
(* Helpers *)

\* Reservations an approval is charged for.
Charged(a) ==
    {o \in Operations : /\ operations[o].state \notin {"NONE", "RELEASED"}
                        /\ operations[o].approval = a}

Signatures(o) == SignatureCount[operations[o].binding]

\* The signatures a set of reservations is charged for.
SignaturesOf(S) == SumFunction([o \in S |-> Signatures(o)])

\* The charged reservations accepted in the rolling window that ends at t.
\* The window's start saturates at 0.
InRateWindow(a, duration, t) ==
    {o \in Charged(a) :
        /\ operations[o].accepted > (IF t > duration THEN t - duration ELSE 0)
        /\ operations[o].accepted <= t}

\* approval_requires_trusted_time: any rolling window in the terms.
RequiresTrustedTime(a) ==
    \/ Terms[a].operationRates # {}
    \/ Terms[a].signatureRates # {}
    \/ Terms[a].valueWindows

\* The attempt's own window, checked before the transaction.
AttemptCurrent(r, now) == r.window.notBefore <= now /\ now < r.window.expires

\* validate_against_approval, and validate_petal_key_approval: the scope of a
\* Petal key contains the window of the terms since their activation.
ValidAgainstApproval(r, now) ==
    /\ Terms[r.approval].notBefore <= now /\ now < Terms[r.approval].expires
    /\ Terms[r.approval].notBefore <= r.window.notBefore
    /\ r.window.expires <= Terms[r.approval].expires
    /\ r.binding \in Admits[r.approval]

\* authorize_sign's checks up to the operation row.
Admissible(r, now) ==
    /\ AttemptCurrent(r, now)
    /\ r.attempt \notin attempts
    /\ approvals[r.approval] = "active"
    /\ Terms[r.approval].key \in available
    /\ ValidAgainstApproval(r, now)
    /\ WalletEpoch(ApprovalWallet[r.approval]) = ApprovalEpoch[r.approval]

\* reserve_parser_free_limits: lifetime counters, then every rolling window
\* ending at the effective time of this request.
WithinLimits(r, now) ==
    LET a == r.approval
        count == SignatureCount[r.binding]
    IN  /\ counters[a].operations + 1 <= Terms[a].maxOperations
        /\ counters[a].signatures + count <= Terms[a].maxSignatures
        /\ \A v \in Terms[a].operationRates :
              Cardinality(InRateWindow(a, v.duration, now)) + 1 <= v.maximum
        /\ \A v \in Terms[a].signatureRates :
              SignaturesOf(InRateWindow(a, v.duration, now)) + count <= v.maximum

\* The stored row is the one this request retries: same approval, operation
\* digest and retry binding digest.
SameOperation(r) ==
    /\ operations[r.operation].approval = r.approval
    /\ operations[r.operation].binding = r.binding

ReplyWith(w, code) ==
    tasks' = [tasks EXCEPT ![w] =
                [pc |-> "reply", request |-> tasks[w].request, code |-> code]]

Goto(w, pc) == tasks' = [tasks EXCEPT ![w].pc = pc]

SetState(o, state) ==
    operations' = [operations EXCEPT ![o].state = state]

-----------------------------------------------------------------------------
(* A request task *)

\* dispatch_inner: every mutating request first takes a clock observation of
\* its own, outside the gate.
Receive(w, r) ==
    /\ tasks[w] = Idle
    /\ ~latched
    /\ ObserveTime
    /\ tasks' = [tasks EXCEPT ![w] =
          [pc |-> "waiting", request |-> r, now |-> 0, signed |-> 0]]
    /\ UNCHANGED <<authorityVars, durableVars, available, gate, latched,
                   historyVars>>

\* signing_gate.lock().await.
GateFreeIgnored == TRUE
GateFree == gate = NoWorker

\* sign: take the gate, then the clock observation the request is judged by.
\* It is refused when the terms have rolling windows and the clock is not
\* trusted.
AcquireGate(w) ==
    LET a == tasks[w].request.approval IN
    /\ tasks[w].pc = "waiting"
    /\ GateFree
    /\ gate' = w
    /\ \/ /\ approvals[a] = "absent"
          /\ ReplyWith(w, "refused")
          /\ UNCHANGED <<timeVars, latched>>
       \/ /\ approvals[a] # "absent"
          /\ ~latched
          /\ ObserveTime
          /\ IF RequiresTrustedTime(a) /\ condition' = "DISTRUSTED"
             THEN ReplyWith(w, "refused")
             ELSE tasks' = [tasks EXCEPT ![w].pc = "observed",
                                         ![w].now = effective']
          /\ UNCHANGED latched
       \/ /\ approvals[a] # "absent"  \* no usable reading, or no transaction
          /\ latched' \in {latched, TRUE}
          /\ \E code \in {"refused", "unavailable"} : ReplyWith(w, code)
          /\ UNCHANGED timeVars
    /\ UNCHANGED <<authorityVars, durableVars, available, historyVars>>

\* authorize_sign, the request refused before or at the operation row.
RefuseSign(w) ==
    LET r == tasks[w].request
        row == operations[r.operation]
    IN  /\ tasks[w].pc = "observed"
        /\ ~latched
        /\ \/ ~Admissible(r, tasks[w].now) /\ ReplyWith(w, "refused")
           \/ /\ Admissible(r, tasks[w].now)
              /\ \/ row # NoOperation /\ ~SameOperation(r)
                      /\ ReplyWith(w, "conflict")
                 \/ row # NoOperation /\ SameOperation(r)
                      /\ row.state \in {"DISPATCHED", "QUARANTINED"}
                      /\ ReplyWith(w, "ambiguous")
                 \/ row # NoOperation /\ SameOperation(r)
                      /\ row.state = "RELEASED"
                      /\ ReplyWith(w, "conflict")
                 \/ row = NoOperation /\ ~WithinLimits(r, tasks[w].now)
                      /\ ReplyWith(w, "refused")
        /\ UNCHANGED <<timeVars, authorityVars, durableVars, available, gate,
                       latched, historyVars>>

\* authorize_sign, NewOperation: reserve against the limits.
ReserveOperation(w) ==
    LET r == tasks[w].request
        now == tasks[w].now
    IN  /\ tasks[w].pc = "observed"
        /\ ~latched
        /\ Admissible(r, now)
        /\ operations[r.operation] = NoOperation
        /\ WithinLimits(r, now)
        /\ operations' = [operations EXCEPT ![r.operation] =
              [state |-> "RESERVED", approval |-> r.approval,
               binding |-> r.binding, accepted |-> now]]
        /\ counters' = [counters EXCEPT ![r.approval] =
              [operations |-> @.operations + 1,
               signatures |-> @.signatures + SignatureCount[r.binding]]]
        /\ attempts' = attempts \union {r.attempt}
        /\ Goto(w, "authorized")
        /\ UNCHANGED <<timeVars, authorityVars, available, gate, latched,
                       historyVars>>

\* authorize_sign, SameOperationRetry: only the attempt is recorded.
RetryOperation(w) ==
    LET r == tasks[w].request IN
    /\ tasks[w].pc = "observed"
    /\ ~latched
    /\ Admissible(r, tasks[w].now)
    /\ operations[r.operation].state \in {"RESERVED", "COMMITTED"}
    /\ SameOperation(r)
    /\ attempts' = attempts \union {r.attempt}
    /\ Goto(w, "authorized")
    /\ UNCHANGED <<timeVars, authorityVars, operations, counters, available,
                   gate, latched, historyVars>>

\* stored_operation_result: a committed result is returned as it was stored.
ReturnStoredResult(w) ==
    /\ tasks[w].pc = "authorized"
    /\ operations[tasks[w].request.operation].state = "COMMITTED"
    /\ ReplyWith(w, "result")
    /\ UNCHANGED <<timeVars, authorityVars, durableVars, available, gate,
                   latched, historyVars>>

\* The state mark_operation_dispatched writes.
StateNotPersisted == "RESERVED"
StateAtDispatch == "DISPATCHED"

\* mark_operation_dispatched: the durable point after which a backend call
\* may have happened.
MarkDispatched(w) ==
    LET o == tasks[w].request.operation IN
    /\ tasks[w].pc = "authorized"
    /\ ~latched
    /\ operations[o].state # "COMMITTED"
    /\ IF operations[o].state = "RESERVED"
       THEN SetState(o, StateAtDispatch) /\ Goto(w, "dispatched")
       ELSE ReplyWith(w, "conflict") /\ UNCHANGED operations
    /\ UNCHANGED <<timeVars, authorityVars, counters, attempts, available,
                   gate, latched, historyVars>>

\* The effect of a definitive refusal, by the signatures already made.
RefusalEffectUnconditional(signed) == "releasing"
RefusalEffect(signed) == IF signed = 0 THEN "releasing" ELSE "quarantining"

\* The effect of an indeterminate failure.
IndeterminateEffect == "quarantining"

\* One backend.sign call and the handling of its answer.  A signature of the
\* right suite advances the loop, one of the wrong suite is a quarantine.
\* The refusals that prove no signature was made release the operation, but
\* only while it has no signature; an indeterminate failure, which may hide
\* one, never does.  (The backend lookup before the loop finds the instance
\* that require_key_available found: only the backends of failed registrations,
\* whose keys were never enrolled, are removed.)
BackendSign(w) ==
    LET r == tasks[w].request
        hash == tasks[w].signed + 1
        Signed ==
          /\ effects' = [effects EXCEPT ![r.operation][r.binding][hash] = @ + 1]
          /\ late' = IF InForce(r.approval) THEN late
                     ELSE late \union {r.operation}
    IN  /\ tasks[w].pc = "dispatched"
        /\ \/ /\ Signed
              /\ tasks' = [tasks EXCEPT
                    ![w].signed = hash,
                    ![w].pc = IF hash = SignatureCount[r.binding]
                              THEN "committing" ELSE "dispatched"]
           \/ /\ Signed  \* mismatched suite or encoding
              /\ Goto(w, "quarantining")
           \/ /\ Signed \/ UNCHANGED historyVars  \* IndeterminateAcceptance
              /\ Goto(w, IndeterminateEffect)
           \/ /\ UNCHANGED historyVars  \* the four definitive refusals
              /\ Goto(w, RefusalEffect(tasks[w].signed))
        /\ UNCHANGED <<timeVars, authorityVars, durableVars, available, gate,
                       latched>>

\* The refund of one reservation of count signatures.
RefundOperationOnly(row, count) == [row EXCEPT !.operations = @ - 1]
Refund(row, count) ==
    [operations |-> row.operations - 1, signatures |-> row.signatures - count]

\* finalize_operation(RELEASED): the reservation is refunded.  checked_sub
\* refuses to take a counter below zero.
FinalizeReleased(w) ==
    LET o == tasks[w].request.operation
        a == operations[o].approval
    IN  /\ tasks[w].pc = "releasing"
        /\ ~latched
        /\ operations[o].state \in {"RESERVED", "DISPATCHED"}
        /\ counters[a].operations >= 1
        /\ counters[a].signatures >= Signatures(o)
        /\ SetState(o, "RELEASED")
        /\ counters' = [counters EXCEPT ![a] = Refund(@, Signatures(o))]
        /\ ReplyWith(w, "backend_refused")
        /\ UNCHANGED <<timeVars, authorityVars, attempts, available, gate,
                       latched, historyVars>>

\* What the Broker is told of a quarantined operation.
QuarantineReplyAsRefusal == "backend_refused"
QuarantineReply == "ambiguous"

\* finalize_operation(QUARANTINED): the reservation keeps counting.
FinalizeQuarantined(w) ==
    LET o == tasks[w].request.operation IN
    /\ tasks[w].pc = "quarantining"
    /\ ~latched
    /\ operations[o].state \in {"RESERVED", "DISPATCHED", "QUARANTINED"}
    /\ SetState(o, "QUARANTINED")
    /\ ReplyWith(w, QuarantineReply)
    /\ UNCHANGED <<timeVars, authorityVars, counters, attempts, available,
                   gate, latched, historyVars>>

\* commit_operation_result: the result and the state in one transaction.
CommitResult(w) ==
    LET o == tasks[w].request.operation IN
    /\ tasks[w].pc = "committing"
    /\ ~latched
    /\ operations[o].state \in {"RESERVED", "DISPATCHED"}
    /\ SetState(o, "COMMITTED")
    /\ ReplyWith(w, "result")
    /\ UNCHANGED <<timeVars, authorityVars, counters, attempts, available,
                   gate, latched, historyVars>>

\* Any of the task's transactions fails: refused by the latch, a storage
\* error, or a failed audit append, which also closes the latch.  The
\* transaction rolls back, and `?` returns with the operation as it stood.
EngineFailure(w) ==
    /\ tasks[w].pc \in {"observed", "authorized", "committing", "releasing",
                        "quarantining"}
    /\ latched' \in {latched, TRUE}
    /\ ReplyWith(w, "unavailable")
    /\ UNCHANGED <<timeVars, authorityVars, durableVars, available, gate,
                   historyVars>>

\* The gate guard goes out of scope with the task that holds it.
GateLeaked(w) == gate
GateAfterReply(w) == IF gate = w THEN NoWorker ELSE gate

\* The task returns: the reply is written and the gate guard dropped.
Reply(w) ==
    /\ tasks[w].pc = "reply"
    /\ tasks' = [tasks EXCEPT ![w] = Idle]
    /\ gate' = GateAfterReply(w)
    /\ UNCHANGED <<timeVars, authorityVars, durableVars, available, latched,
                   historyVars>>

-----------------------------------------------------------------------------
(* The rest of the Signer, as far as it touches the signing path *)

\* Another mutating request's clock observation, or an operator's repair.
AdvanceTime ==
    /\ ~latched
    /\ TimeNext
    /\ UNCHANGED <<authorityVars, durableVars, available, gate, tasks, latched,
                   historyVars>>

\* Ceremony activations and revocations, with their own transactions.
ChangeAuthority ==
    /\ ~latched
    /\ AuthorityNext
    /\ UNCHANGED <<timeVars, durableVars, available, gate, tasks, latched,
                   historyVars>>

\* Custody unlocks, locks, enrolls and retires keys.
ChangeAvailability ==
    /\ available' \in SUBSET Keys
    /\ UNCHANGED <<timeVars, authorityVars, durableVars, gate, tasks, latched,
                   historyVars>>

\* The process dies or is stopped after its drain deadline, and restarts.
\* Unlocked seeds are gone; the audit chain still verifies, for every failed
\* append rolled back, so the latch opens again.
Crash ==
    /\ gate' = NoWorker
    /\ tasks' = [w \in Workers |-> Idle]
    /\ latched' = FALSE
    /\ available' \in SUBSET available
    /\ UNCHANGED <<timeVars, authorityVars, durableVars, historyVars>>

\* The steps a running task takes by itself.
TaskStep(w) ==
    \/ AcquireGate(w) \/ RefuseSign(w) \/ ReserveOperation(w)
    \/ RetryOperation(w) \/ ReturnStoredResult(w) \/ MarkDispatched(w)
    \/ BackendSign(w) \/ FinalizeReleased(w) \/ FinalizeQuarantined(w)
    \/ CommitResult(w) \/ EngineFailure(w) \/ Reply(w)

Next ==
    \/ \E w \in Workers : (\E r \in Requests : Receive(w, r)) \/ TaskStep(w)
    \/ AdvanceTime
    \/ ChangeAuthority
    \/ ChangeAvailability
    \/ Crash

Spec == Init /\ [][Next]_vars

\* Tokio polls every task that is ready, its mutex serves waiters in turn, and
\* every backend call ends by the deadline of the request.
Fairness ==
    \A w \in Workers : WF_vars(TaskStep(w)) /\ SF_vars(AcquireGate(w))

FairSpec == Spec /\ Fairness

-----------------------------------------------------------------------------
(* Properties *)

\* The backend signatures that exist for an operation.
Made(o) ==
    SumFunction([bi \in Bindings \X Hashes |-> effects[o][bi[1]][bi[2]]])

Unsigned(o) == \A b \in Bindings, i \in Hashes : effects[o][b][i] = 0

\* The signing history of each operation is one pass over the hashes of the
\* content it was reserved for: no hash is ever signed twice, whatever crashes,
\* retries, lost answers and failed transactions come between (the DISPATCHED
\* mark of service.rs sign is durable before the backend call).
NoDoubleSigning ==
    \A o \in Operations, b \in Bindings, i \in Hashes :
        effects[o][b][i] > 0 =>
            /\ effects[o][b][i] = 1
            /\ operations[o].state # "NONE"
            /\ operations[o].binding = b
            /\ i <= SignatureCount[b]
            /\ b \in Admits[operations[o].approval]

\* An operation whose reservation was refunded has no signature: sign releases
\* only on a refusal that proves it, and only while nothing was signed.
ReleasedNeverSigned ==
    \A o \in Operations : operations[o].state = "RELEASED" => Unsigned(o)

\* The signatures and operations that really happened under an approval stay
\* within its lifetime limits, refunds and lost answers included.
LifetimeLimitsHold ==
    \A a \in Approvals :
        LET own == {o \in Operations : /\ operations[o].state # "NONE"
                                       /\ operations[o].approval = a}
        IN  /\ SumFunction([o \in own |-> Made(o)]) <= Terms[a].maxSignatures
            /\ Cardinality({o \in own : Made(o) > 0}) <= Terms[a].maxOperations

\* The approval's counters are exactly its reservations that were not
\* refunded: no crash or failed transaction leaves them out of step, and
\* finalize_operation's checked_sub never underflows.
CountersExact ==
    \A a \in Approvals :
        /\ counters[a].operations = Cardinality(Charged(a))
        /\ counters[a].signatures = SignaturesOf(Charged(a))

\* Over every rolling window ending at any time, not only at the times a
\* reservation was made, the charged acceptances stay within the terms.  The
\* window queries of reserve_parser_free_limits look only backwards from the
\* request's own observation, so this rests on the gate ordering them.
RateWindowsHold ==
    \A a \in Approvals, t \in 0 .. MaxTime :
        /\ \A v \in Terms[a].operationRates :
              Cardinality(InRateWindow(a, v.duration, t)) <= v.maximum
        /\ \A v \in Terms[a].signatureRates :
              SignaturesOf(InRateWindow(a, v.duration, t)) <= v.maximum

\* Revocation commits beside the gate, so the operation a backend is signing
\* when its approval is revoked may still get its signatures; never a second
\* operation, whether it was waiting, reserved before a crash, or retried.
AtMostOneLateOperation ==
    \A o, p \in late : operations[o].approval = operations[p].approval => o = p

\* A signing result is only ever returned for the request's own approval and
\* content, with every hash signed and the row committed.
ResultsAreComplete ==
    \A w \in Workers :
        tasks[w].pc = "reply" /\ tasks[w].code = "result" =>
            LET r == tasks[w].request IN
            /\ operations[r.operation].state = "COMMITTED"
            /\ SameOperation(r)
            /\ \A i \in 1 .. SignatureCount[r.binding] :
                  effects[r.operation][r.binding][i] = 1

\* A backend refusal is reported only for a refunded operation without any
\* signature: on that code the Broker drops the operation from its own limits.
RefusalsAreHonest ==
    \A w \in Workers :
        tasks[w].pc = "reply" /\ tasks[w].code = "backend_refused" =>
            /\ operations[tasks[w].request.operation].state = "RELEASED"
            /\ Unsigned(tasks[w].request.operation)

\* Every request that is received is answered or ends with the process: the
\* gate is never held for ever and no waiter is passed over for ever.
EveryRequestEnds ==
    \A w \in Workers : tasks[w].pc = "waiting" ~> tasks[w] = Idle

-----------------------------------------------------------------------------
(* The inductive invariants behind the signing properties *)

GatedPc == {"observed", "authorized", "dispatched", "committing", "releasing",
            "quarantining", "reply"}

\* Past the gate a task is alone.
GateHeld == \A w \in Workers : tasks[w].pc \in GatedPc => gate = w

\* A row was admitted by its approval, and has no signature before its
\* dispatch nor after its release.
RowsSound ==
    \A o \in Operations :
        /\ operations[o].state # "NONE" =>
              operations[o].binding \in Admits[operations[o].approval]
        /\ operations[o].state \in {"NONE", "RESERVED", "RELEASED"} => Unsigned(o)
        /\ operations[o].state = "COMMITTED" =>
              \A i \in 1 .. Signatures(o) : effects[o][operations[o].binding][i] = 1

\* What a task may rely on about the row of its operation: its own count of
\* signatures is the backend's.
TaskSound(w) ==
    LET r == tasks[w].request
        o == r.operation
        Count(i) == effects[o][r.binding][i]
    IN  /\ tasks[w].pc \in {"waiting", "observed", "authorized"} =>
              tasks[w].signed = 0
        /\ tasks[w].pc = "authorized" =>
              operations[o].state \in {"RESERVED", "COMMITTED"} /\ SameOperation(r)
        /\ tasks[w].pc \in {"dispatched", "committing", "releasing", "quarantining"} =>
              operations[o].state = "DISPATCHED" /\ SameOperation(r)
        /\ tasks[w].pc = "dispatched" =>
              /\ tasks[w].signed < SignatureCount[r.binding]
              /\ \A i \in Hashes : Count(i) = IF i <= tasks[w].signed THEN 1 ELSE 0
        /\ tasks[w].pc = "committing" =>
              \A i \in 1 .. SignatureCount[r.binding] : Count(i) = 1
        /\ tasks[w].pc = "releasing" => Unsigned(o)
        /\ tasks[w].pc = "reply" /\ tasks[w].code = "result" =>
              operations[o].state = "COMMITTED" /\ SameOperation(r)
        /\ tasks[w].pc = "reply" /\ tasks[w].code = "backend_refused" =>
              operations[o].state = "RELEASED"

\* Each operation row, each task and the backend's history agree: the
\* signatures of a row are those of the one task that dispatched it.
SigningInv ==
    /\ GateHeld
    /\ RowsSound
    /\ \A w \in Workers : TaskSound(w)
    /\ NoDoubleSigning

\* And behind AtMostOneLateOperation: an active approval is of its wallet's
\* epoch, so an approval leaves force for good, and the only task that can
\* still sign under it has the operation that is late already.
LateInv ==
    /\ AtMostOneLateOperation
    /\ \A a \in Approvals : approvals[a] = "active" =>
          walletEpoch[ApprovalWallet[a]] = ApprovalEpoch[a]
    /\ \A o \in late :
          /\ operations[o].state # "NONE"
          /\ approvals[operations[o].approval] = "inactive"
    /\ \A w \in Workers, o \in late :
          /\ tasks[w].pc \in {"authorized", "dispatched"}
          /\ tasks[w].request.approval = operations[o].approval
          /\ operations[tasks[w].request.operation].state # "COMMITTED"
          => tasks[w].request.operation = o
    /\ \A w \in Workers : tasks[w].pc \in {"authorized", "dispatched"} =>
          approvals[tasks[w].request.approval] # "absent"

\* Behind LifetimeLimitsHold: the counters are exact, and a reservation never
\* takes them past the terms.
LimitsInv ==
    /\ CountersExact
    /\ \A a \in Approvals :
          /\ counters[a].operations <= Terms[a].maxOperations
          /\ counters[a].signatures <= Terms[a].maxSignatures

\* And behind RateWindowsHold: a task past the gate was observed after every
\* reservation there is, so a new reservation is the latest of its windows.
RatesInv ==
    /\ RateWindowsHold
    /\ \A o \in Operations :
          operations[o].state # "NONE" => operations[o].accepted <= effective
    /\ \A w \in Workers : tasks[w].pc = "observed" =>
          /\ tasks[w].now <= effective
          /\ \A o \in Operations : operations[o].state # "NONE" =>
                operations[o].accepted <= tasks[w].now
=============================================================================
