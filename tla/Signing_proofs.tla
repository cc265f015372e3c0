--------------------------- MODULE Signing_proofs ---------------------------
(***************************************************************************)
(* Proofs about the signing path, for any number of approvals, operations, *)
(* attempts, request tasks and hashes per request.                         *)
(***************************************************************************)
EXTENDS Signing, FiniteSetTheorems, TLAPS

USE DEF Hashes

-----------------------------------------------------------------------------
(* Type correctness *)

RunningPc ==
    {"waiting", "observed", "authorized", "dispatched", "committing",
     "releasing", "quarantining"}

\* The shape of a task is determined by its program counter.
LEMMA TaskShape ==
    ASSUME TypeOK, NEW w \in Workers
    PROVE  /\ tasks[w].pc \in RunningPc =>
                /\ tasks[w] \in [pc : RunningPc, request : Requests,
                                 now : 0 .. MaxTime, signed : Nat]
                /\ tasks[w].request \in Requests
           /\ tasks[w].pc = "reply" =>
                tasks[w] \in [pc : {"reply"}, request : Requests, code : Replies]
  BY DEF TypeOK, TaskType, RunningPc, Idle

\* A task that replies keeps the type of the tasks.
LEMMA ReplyTyped ==
    ASSUME TypeOK, NEW w \in Workers, NEW code \in Replies,
           tasks[w].request \in Requests, ReplyWith(w, code)
    PROVE  tasks' \in [Workers -> TaskType]
  BY DEF TypeOK, ReplyWith, TaskType

\* So does one that moves on.
LEMMA GotoTyped ==
    ASSUME TypeOK, NEW w \in Workers, NEW pc \in RunningPc,
           tasks[w].pc \in RunningPc, Goto(w, pc)
    PROVE  tasks' \in [Workers -> TaskType]
  <1>1. tasks[w] \in [pc : RunningPc, request : Requests,
                      now : 0 .. MaxTime, signed : Nat]
    BY TaskShape
  <1>2. [tasks[w] EXCEPT !.pc = pc] \in TaskType
    BY <1>1 DEF TaskType, RunningPc
  <1> QED
    BY <1>2 DEF TypeOK, Goto

\* The initial states have the types.
LEMMA TypeInit == Init => TypeOK
  <1> SUFFICES ASSUME Init
               PROVE  TypeOK
    OBVIOUS
  <1>1. TimeTypeOK
    BY MaxTimeAssumption DEF Init, TimeInit, TimeTypeOK, ClockConditions
  <1>2. AuthorityTypeOK
    BY AuthorityAssumption DEF Init, AuthorityInit, AuthorityTypeOK, NoRow
  <1>3. tasks \in [Workers -> TaskType]
    BY DEF Init, TaskType
  <1>4. latched \in BOOLEAN
    BY DEF Init
  <1>5. effects \in [Operations -> [Bindings -> [Hashes -> Nat]]]
    BY DEF Init
  <1> QED
    BY <1>1, <1>2, <1>3, <1>4, <1>5 DEF Init, TypeOK

\* A clock observation keeps the clock's type.
LEMMA ObserveTyped ==
    ASSUME TimeTypeOK, TimeNext
    PROVE  TimeTypeOK'
  BY MaxTimeAssumption
  DEF TimeTypeOK, TimeNext, ObserveTime, RepairTime, ClockConditions

\* Activations and revocations keep the authority's type.
LEMMA AuthorityTyped ==
    ASSUME AuthorityTypeOK, AuthorityNext
    PROVE  AuthorityTypeOK'
  <1>1. CASE \E a \in Approvals : PersistApproval(a)
    BY <1>1, AuthorityAssumption DEF PersistApproval, AuthorityTypeOK, NoRow
  <1>2. CASE \E a \in Approvals : DeactivateApproval(a)
    BY <1>2 DEF DeactivateApproval, AuthorityTypeOK
  <1>3. CASE \E w \in Wallets : AdvanceEpoch(w)
    BY <1>3, AuthorityAssumption
    DEF AdvanceEpoch, WalletEpoch, AuthorityTypeOK, NoRow
  <1> QED
    BY <1>1, <1>2, <1>3 DEF AuthorityNext

\* The row a state change leaves is still an operation row.
LEMMA SetStateTyped ==
    ASSUME TypeOK, NEW o \in Operations, NEW state \in OperationStates,
           operations[o].state # "NONE", SetState(o, state)
    PROVE  operations' \in [Operations -> OperationType \union {NoOperation}]
  <1>1. operations[o] \in OperationType
    BY DEF TypeOK, NoOperation
  <1>2. [operations[o] EXCEPT !.state = state] \in OperationType
    BY <1>1 DEF OperationType
  <1> QED
    BY <1>2 DEF TypeOK, SetState

\* A reservation counts up within the naturals.
LEMMA CountUp ==
    ASSUME NEW D, NEW f \in [D -> Nat], NEW h
    PROVE  [f EXCEPT ![h] = @ + 1] \in [D -> Nat]
  <1>1. ASSUME NEW d \in D
        PROVE  [f EXCEPT ![h] = @ + 1][d] \in Nat
    <2>1. f[d] \in Nat
      OBVIOUS
    <2>2. CASE d = h
      BY <2>1, <2>2
    <2>3. CASE d # h
      BY <2>1, <2>3
    <2> QED
      BY <2>2, <2>3
  <1> QED
    BY <1>1

\* One more signature for a hash.
LEMMA SignedTyped ==
    ASSUME NEW e \in [Operations -> [Bindings -> [Hashes -> Nat]]],
           NEW o \in Operations, NEW b \in Bindings, NEW h \in Nat
    PROVE  [e EXCEPT ![o][b][h] = @ + 1]
             \in [Operations -> [Bindings -> [Hashes -> Nat]]]
  <1>1. [e[o][b] EXCEPT ![h] = @ + 1] \in [Hashes -> Nat]
    <2>1. e[o][b] \in [Hashes -> Nat]
      OBVIOUS
    <2> QED
      BY <2>1, CountUp
  <1>2. [e[o] EXCEPT ![b][h] = @ + 1] \in [Bindings -> [Hashes -> Nat]]
    BY <1>1
  <1> QED
    BY <1>2

\* Every step keeps the types.
LEMMA TypeStep ==
    ASSUME TypeOK, [Next]_vars
    PROVE  TypeOK'
  <1> USE DEF durableVars, historyVars
  <1>1. ASSUME NEW w \in Workers, NEW r \in Requests, Receive(w, r)
        PROVE  TypeOK'
    <2>1. TimeTypeOK'
      BY <1>1, ObserveTyped DEF Receive, TypeOK, TimeNext
    <2>2. tasks' \in [Workers -> TaskType]
      BY <1>1, MaxTimeAssumption DEF Receive, TypeOK, TaskType
    <2> QED
      BY <1>1, <2>1, <2>2
      DEF Receive, TypeOK, AuthorityTypeOK, authorityVars
  <1>2. ASSUME NEW w \in Workers, AcquireGate(w)
        PROVE  TypeOK'
    <2>1. tasks[w].pc = "waiting" /\ tasks[w].request \in Requests
      BY <1>2, TaskShape DEF AcquireGate, RunningPc
    <2>2. TimeTypeOK'
      BY <1>2, ObserveTyped DEF AcquireGate, TypeOK, TimeNext, TimeTypeOK, timeVars
    <2>3. tasks' \in [Workers -> TaskType]
      <3>1. CASE \E code \in Replies : ReplyWith(w, code)
        BY <3>1, <2>1, ReplyTyped
      <3>2. CASE tasks' = [tasks EXCEPT ![w].pc = "observed",
                                        ![w].now = effective']
        <4>1. tasks[w] \in [pc : RunningPc, request : Requests,
                            now : 0 .. MaxTime, signed : Nat]
          BY <2>1, TaskShape DEF RunningPc
        <4>2. [tasks[w] EXCEPT !.pc = "observed", !.now = effective']
                \in TaskType
          BY <4>1, <2>2 DEF TaskType, TimeTypeOK, RunningPc
        <4> QED
          BY <4>2, <3>2 DEF TypeOK
      <3> QED
        BY <1>2, <3>1, <3>2 DEF AcquireGate, Replies
    <2> QED
      BY <1>2, <2>2, <2>3
      DEF AcquireGate, TypeOK, AuthorityTypeOK, authorityVars
  <1>3. ASSUME NEW w \in Workers, RefuseSign(w)
        PROVE  TypeOK'
    <2>1. tasks[w].request \in Requests
      BY <1>3, TaskShape DEF RefuseSign, RunningPc
    <2>2. \E code \in Replies : ReplyWith(w, code)
      BY <1>3 DEF RefuseSign, Replies
    <2>3. tasks' \in [Workers -> TaskType]
      BY <2>1, <2>2, ReplyTyped
    <2> QED
      BY <1>3, <2>3
      DEF RefuseSign, TypeOK, AuthorityTypeOK, authorityVars, TimeTypeOK, timeVars
  <1>4. ASSUME NEW w \in Workers, ReserveOperation(w)
        PROVE  TypeOK'
    <2> DEFINE r == tasks[w].request
    <2>1. tasks[w].pc \in RunningPc /\ r \in Requests /\ tasks[w].now \in 0 .. MaxTime
      BY <1>4, TaskShape DEF ReserveOperation, RunningPc
    <2>2. tasks' \in [Workers -> TaskType]
      BY <1>4, <2>1, GotoTyped DEF ReserveOperation, RunningPc
    <2>3. operations' \in [Operations -> OperationType \union {NoOperation}]
      BY <1>4, <2>1
      DEF ReserveOperation, TypeOK, OperationType, OperationStates, Requests
    <2>4. counters' \in [Approvals -> [operations : Nat, signatures : Nat]]
      <3>1. SignatureCount[r.binding] \in Nat
        BY <2>1, SigningAssumption DEF Requests
      <3>2. r.approval \in Approvals
        BY <2>1 DEF Requests
      <3> QED
        BY <1>4, <3>1, <3>2 DEF ReserveOperation, TypeOK
    <2>5. attempts' \subseteq Attempts
      BY <1>4, <2>1 DEF ReserveOperation, TypeOK, Requests
    <2> QED
      BY <1>4, <2>2, <2>3, <2>4, <2>5
      DEF ReserveOperation, TypeOK, AuthorityTypeOK, authorityVars, TimeTypeOK, timeVars
  <1>5. ASSUME NEW w \in Workers, RetryOperation(w)
        PROVE  TypeOK'
    <2>1. tasks[w].pc \in RunningPc /\ tasks[w].request \in Requests
      BY <1>5, TaskShape DEF RetryOperation, RunningPc
    <2>2. tasks' \in [Workers -> TaskType]
      BY <1>5, <2>1, GotoTyped DEF RetryOperation, RunningPc
    <2> QED
      BY <1>5, <2>1, <2>2
      DEF RetryOperation, Requests, TypeOK, AuthorityTypeOK, authorityVars,
          TimeTypeOK, timeVars
  <1>6. ASSUME NEW w \in Workers, ReturnStoredResult(w)
        PROVE  TypeOK'
    <2>1. tasks[w].request \in Requests
      BY <1>6, TaskShape DEF ReturnStoredResult, RunningPc
    <2>2. tasks' \in [Workers -> TaskType]
      BY <1>6, <2>1, ReplyTyped DEF ReturnStoredResult, Replies
    <2> QED
      BY <1>6, <2>2
      DEF ReturnStoredResult, TypeOK, AuthorityTypeOK, authorityVars, TimeTypeOK, timeVars
  <1>7. ASSUME NEW w \in Workers, MarkDispatched(w)
        PROVE  TypeOK'
    <2> DEFINE o == tasks[w].request.operation
    <2>1. /\ tasks[w].pc \in RunningPc
          /\ tasks[w].request \in Requests
          /\ o \in Operations
      BY <1>7, TaskShape DEF MarkDispatched, RunningPc, Requests
    <2>2. CASE operations[o].state = "RESERVED"
      <3>1. operations' \in [Operations -> OperationType \union {NoOperation}]
        BY <1>7, <2>1, <2>2, SetStateTyped
        DEF MarkDispatched, StateAtDispatch, OperationStates
      <3>2. tasks' \in [Workers -> TaskType]
        BY <1>7, <2>1, <2>2, GotoTyped DEF MarkDispatched, RunningPc
      <3> QED
        BY <1>7, <3>1, <3>2
        DEF MarkDispatched, TypeOK, AuthorityTypeOK, authorityVars, TimeTypeOK,
            timeVars
    <2>3. CASE operations[o].state # "RESERVED"
      <3>1. tasks' \in [Workers -> TaskType]
        BY <1>7, <2>1, <2>3, ReplyTyped DEF MarkDispatched, Replies
      <3> QED
        BY <1>7, <2>3, <3>1
        DEF MarkDispatched, TypeOK, AuthorityTypeOK, authorityVars, TimeTypeOK,
            timeVars
    <2> QED
      BY <2>2, <2>3
  <1>8. ASSUME NEW w \in Workers, BackendSign(w)
        PROVE  TypeOK'
    <2> DEFINE r == tasks[w].request
               hash == tasks[w].signed + 1
    <2>1. /\ tasks[w] \in [pc : RunningPc, request : Requests,
                            now : 0 .. MaxTime, signed : Nat]
          /\ tasks[w].pc \in RunningPc
      BY <1>8, TaskShape DEF BackendSign, RunningPc
    <2>2. effects' \in [Operations -> [Bindings -> [Hashes -> Nat]]]
      <3>1. r.operation \in Operations /\ r.binding \in Bindings /\ hash \in Nat
        BY <2>1 DEF Requests
      <3>2. effects \in [Operations -> [Bindings -> [Hashes -> Nat]]]
        BY DEF TypeOK
      <3>3. CASE effects' = [effects EXCEPT ![r.operation][r.binding][hash] = @ + 1]
        BY <3>1, <3>2, <3>3, SignedTyped
      <3>4. CASE UNCHANGED effects
        BY <3>2, <3>4
      <3> QED
        BY <1>8, <3>3, <3>4 DEF BackendSign
    <2>4. late' \subseteq Operations
      BY <1>8, <2>1 DEF BackendSign, TypeOK, Requests
    <2>3. tasks' \in [Workers -> TaskType]
      <3>1. CASE \E pc \in RunningPc : Goto(w, pc)
        BY <3>1, <2>1, GotoTyped
      <3>2. CASE tasks' = [tasks EXCEPT
                    ![w].signed = hash,
                    ![w].pc = IF hash = SignatureCount[r.binding]
                              THEN "committing" ELSE "dispatched"]
        <4>1. ASSUME NEW pc \in RunningPc
              PROVE  [tasks[w] EXCEPT !.signed = hash, !.pc = pc] \in TaskType
          <5>1. hash \in Nat
            BY <2>1
          <5>2. [tasks[w] EXCEPT !.signed = hash, !.pc = pc]
                  \in [pc : RunningPc, request : Requests,
                       now : 0 .. MaxTime, signed : Nat]
            BY <5>1, <2>1
          <5> QED
            BY <5>2 DEF TaskType, RunningPc
        <4>2. (IF hash = SignatureCount[r.binding]
               THEN "committing" ELSE "dispatched") \in RunningPc
          BY DEF RunningPc
        <4> QED
          BY <4>1, <4>2, <3>2 DEF TypeOK
      <3> QED
        BY <1>8, <3>1, <3>2
        DEF BackendSign, IndeterminateEffect, RefusalEffect, RunningPc
    <2> QED
      BY <1>8, <2>2, <2>3, <2>4
      DEF BackendSign, TypeOK, AuthorityTypeOK, authorityVars, TimeTypeOK, timeVars
  <1>9. ASSUME NEW w \in Workers, FinalizeReleased(w)
        PROVE  TypeOK'
    <2>1. tasks[w].request \in Requests
      BY <1>9, TaskShape DEF FinalizeReleased, RunningPc
    <2>2. tasks' \in [Workers -> TaskType]
      BY <1>9, <2>1, ReplyTyped DEF FinalizeReleased, Replies
    <2>3. operations' \in [Operations -> OperationType \union {NoOperation}]
      BY <1>9, <2>1, SetStateTyped DEF FinalizeReleased, OperationStates, Requests
    <2>4. counters' \in [Approvals -> [operations : Nat, signatures : Nat]]
      <3> DEFINE o == tasks[w].request.operation
                 a == operations[o].approval
      <3>1. o \in Operations /\ operations[o].state # "NONE"
        BY <1>9, <2>1 DEF FinalizeReleased, Requests
      <3>2. a \in Approvals /\ operations[o].binding \in Bindings
        BY <3>1 DEF TypeOK, OperationType, NoOperation
      <3>3. Signatures(o) \in Nat
        BY <3>2, SigningAssumption DEF Signatures
      <3>4. counters' = [counters EXCEPT ![a] = Refund(@, Signatures(o))]
        BY <1>9 DEF FinalizeReleased
      <3>5. counters[a].operations >= 1 /\ counters[a].signatures >= Signatures(o)
        BY <1>9 DEF FinalizeReleased
      <3> QED
        BY <3>2, <3>3, <3>4, <3>5, SMTT(20) DEF Refund, TypeOK
    <2> QED
      BY <1>9, <2>2, <2>3, <2>4
      DEF FinalizeReleased, TypeOK, AuthorityTypeOK, authorityVars, TimeTypeOK, timeVars
  <1>10. ASSUME NEW w \in Workers, FinalizeQuarantined(w)
        PROVE  TypeOK'
    <2>1. tasks[w].request \in Requests
      BY <1>10, TaskShape DEF FinalizeQuarantined, RunningPc
    <2>2. tasks' \in [Workers -> TaskType]
      BY <1>10, <2>1, ReplyTyped DEF FinalizeQuarantined, Replies, QuarantineReply
    <2>3. operations' \in [Operations -> OperationType \union {NoOperation}]
      BY <1>10, <2>1, SetStateTyped DEF FinalizeQuarantined, OperationStates, Requests
    <2> QED
      BY <1>10, <2>2, <2>3
      DEF FinalizeQuarantined, TypeOK, AuthorityTypeOK, authorityVars, TimeTypeOK, timeVars
  <1>11. ASSUME NEW w \in Workers, CommitResult(w)
        PROVE  TypeOK'
    <2>1. tasks[w].request \in Requests
      BY <1>11, TaskShape DEF CommitResult, RunningPc
    <2>2. tasks' \in [Workers -> TaskType]
      BY <1>11, <2>1, ReplyTyped DEF CommitResult, Replies
    <2>3. operations' \in [Operations -> OperationType \union {NoOperation}]
      BY <1>11, <2>1, SetStateTyped DEF CommitResult, OperationStates, Requests
    <2> QED
      BY <1>11, <2>2, <2>3
      DEF CommitResult, TypeOK, AuthorityTypeOK, authorityVars, TimeTypeOK, timeVars
  <1>12. ASSUME NEW w \in Workers, EngineFailure(w)
        PROVE  TypeOK'
    <2>1. tasks[w].request \in Requests
      BY <1>12, TaskShape DEF EngineFailure, RunningPc
    <2>2. tasks' \in [Workers -> TaskType]
      BY <1>12, <2>1, ReplyTyped DEF EngineFailure, Replies
    <2>3. latched' \in BOOLEAN
      BY <1>12 DEF EngineFailure, TypeOK
    <2> QED
      BY <1>12, <2>2, <2>3
      DEF EngineFailure, TypeOK, AuthorityTypeOK, authorityVars, TimeTypeOK, timeVars
  <1>13. ASSUME NEW w \in Workers, Reply(w)
        PROVE  TypeOK'
    <2>1. tasks' \in [Workers -> TaskType]
      BY <1>13 DEF Reply, TypeOK, TaskType
    <2> QED
      BY <1>13, <2>1
      DEF Reply, GateAfterReply, TypeOK, AuthorityTypeOK, authorityVars, TimeTypeOK, timeVars
  <1>14. ASSUME AdvanceTime PROVE TypeOK'
    <2>1. TimeTypeOK'
      BY <1>14, ObserveTyped DEF AdvanceTime, TypeOK
    <2> QED
      BY <1>14, <2>1 DEF AdvanceTime, TypeOK, AuthorityTypeOK, authorityVars
  <1>15. ASSUME ChangeAuthority PROVE TypeOK'
    <2>1. AuthorityTypeOK'
      BY <1>15, AuthorityTyped DEF ChangeAuthority, TypeOK
    <2> QED
      BY <1>15, <2>1 DEF ChangeAuthority, TypeOK, TimeTypeOK, timeVars
  <1>16. ASSUME ChangeAvailability PROVE TypeOK'
    BY <1>16
    DEF ChangeAvailability, TypeOK, AuthorityTypeOK, authorityVars, TimeTypeOK, timeVars
  <1>17. ASSUME Crash PROVE TypeOK'
    <2>1. tasks' \in [Workers -> TaskType]
      BY <1>17 DEF Crash, TaskType
    <2>2. latched' \in BOOLEAN
      BY <1>17 DEF Crash
    <2> QED
      BY <1>17, <2>1, <2>2
      DEF Crash, TypeOK, AuthorityTypeOK, authorityVars, TimeTypeOK, timeVars
  <1>18. CASE UNCHANGED vars
    BY <1>18 DEF vars, TypeOK, AuthorityTypeOK, authorityVars, TimeTypeOK, timeVars
  <1> QED
    BY <1>1, <1>2, <1>3, <1>4, <1>5, <1>6, <1>7, <1>8, <1>9, <1>10, <1>11,
       <1>12, <1>13, <1>14, <1>15, <1>16, <1>17, <1>18
    DEF Next, TaskStep

\* Every reachable state of the signing path is well typed; in particular no
\* refund of finalize_operation takes a counter below zero.
THEOREM TypeCorrect == Spec => []TypeOK
  BY TypeInit, TypeStep, PTL DEF Spec

-----------------------------------------------------------------------------
(* The signing history *)

\* The facts of a task that depend on the rows only through its own operation.
LEMMA Alone ==
    ASSUME TypeOK, GateHeld, NEW w \in Workers, NEW v \in Workers,
           v # w, gate = w \/ gate = NoWorker
    PROVE  tasks[v].pc \in {"idle", "waiting"}
  <1>1. tasks[v].pc \notin GatedPc
    BY SigningAssumption DEF GateHeld
  <1> QED
    BY <1>1 DEF TypeOK, TaskType, Idle, GatedPc

\* A task that is idle or waiting relies on nothing but its own state.
LEMMA UngatedSound ==
    ASSUME NEW w \in Workers, tasks'[w] = tasks[w],
           tasks[w].pc \in {"idle", "waiting"}, TaskSound(w)
    PROVE  TaskSound(w)'
  BY DEF TaskSound

\* Rows, history and the task itself unchanged.
LEMMA UntouchedSound ==
    ASSUME NEW w \in Workers, tasks'[w] = tasks[w], TaskSound(w),
           UNCHANGED <<operations, effects>>
    PROVE  TaskSound(w)'
  BY DEF TaskSound, SameOperation, Unsigned

\* Rows and history unchanged.
LEMMA RowsUntouched ==
    ASSUME RowsSound, NoDoubleSigning, UNCHANGED <<operations, effects>>
    PROVE  RowsSound' /\ NoDoubleSigning'
  BY DEF RowsSound, NoDoubleSigning, Unsigned, Signatures

\* The initial states have no row, no task and no signature.
LEMMA SigningInit == Init => SigningInv
  <1> SUFFICES ASSUME Init
               PROVE  SigningInv
    OBVIOUS
  <1>1. GateHeld
    BY DEF Init, GateHeld, GatedPc, Idle
  <1>2. \A o \in Operations : Unsigned(o)
    BY DEF Init, Unsigned
  <1>3. RowsSound
    BY <1>2 DEF Init, RowsSound, NoOperation
  <1>4. \A w \in Workers : TaskSound(w)
    BY DEF Init, TaskSound, Idle
  <1>5. NoDoubleSigning
    BY <1>2 DEF NoDoubleSigning, Unsigned
  <1> QED
    BY <1>1, <1>3, <1>4, <1>5 DEF SigningInv

\* A reply that claims neither a result nor a backend refusal, with the rows
\* and the history left alone.
LEMMA PlainReplyKeeps ==
    ASSUME TypeOK, SigningInv, NEW w \in Workers,
           NEW code \in Replies \ {"result", "backend_refused"},
           ReplyWith(w, code), gate' = w,
           UNCHANGED <<operations, effects>>,
           gate = w \/ gate = NoWorker
    PROVE  SigningInv'
  <1>1. /\ tasks'[w] = [pc |-> "reply", request |-> tasks[w].request, code |-> code]
        /\ \A v \in Workers : v # w => tasks'[v] = tasks[v]
    BY DEF ReplyWith, TypeOK
  <1>2. GateHeld'
    BY <1>1, Alone DEF SigningInv, GateHeld, GatedPc
  <1>3. RowsSound' /\ NoDoubleSigning'
    BY RowsUntouched DEF SigningInv
  <1>4. \A v \in Workers : TaskSound(v)'
    <2>1. TaskSound(w)'
      BY <1>1 DEF TaskSound
    <2>2. ASSUME NEW v \in Workers, v # w
          PROVE  TaskSound(v)'
      BY <1>1, <2>2, UntouchedSound DEF SigningInv
    <2> QED
      BY <2>1, <2>2
  <1> QED
    BY <1>2, <1>3, <1>4 DEF SigningInv

\* A received request waits outside the gate.
LEMMA ReceiveKeeps ==
    ASSUME TypeOK, SigningInv, NEW w \in Workers, NEW r \in Requests, Receive(w, r)
    PROVE  SigningInv'
  <1> USE DEF durableVars, historyVars
  <1>1. /\ tasks'[w] = [pc |-> "waiting", request |-> r, now |-> 0, signed |-> 0]
        /\ \A v \in Workers : v # w => tasks'[v] = tasks[v]
    BY DEF Receive, TypeOK
  <1>2. GateHeld'
    BY <1>1 DEF Receive, SigningInv, GateHeld, GatedPc
  <1>3. RowsSound' /\ NoDoubleSigning'
    BY RowsUntouched DEF Receive, SigningInv
  <1>4. \A v \in Workers : TaskSound(v)'
    <2>1. TaskSound(w)'
      BY <1>1 DEF TaskSound
    <2>2. ASSUME NEW v \in Workers, v # w
          PROVE  TaskSound(v)'
      BY <1>1, <2>2, UntouchedSound DEF SigningInv, Receive
    <2> QED
      BY <2>1, <2>2
  <1> QED
    BY <1>2, <1>3, <1>4 DEF SigningInv

\* The gate admits one task.
LEMMA AcquireKeeps ==
    ASSUME TypeOK, SigningInv, NEW w \in Workers, AcquireGate(w)
    PROVE  SigningInv'
  <1> USE DEF durableVars, historyVars
  <1>1. gate = NoWorker /\ gate' = w /\ UNCHANGED <<operations, effects>>
    BY DEF AcquireGate, GateFree
  <1>2. CASE \E code \in {"refused", "unavailable"} : ReplyWith(w, code)
    BY <1>1, <1>2, PlainReplyKeeps DEF Replies
  <1>3. CASE tasks' = [tasks EXCEPT ![w].pc = "observed", ![w].now = effective']
    <2>0. tasks[w].pc = "waiting" /\ tasks[w].signed = 0
      BY DEF AcquireGate, SigningInv, TaskSound
    <2>1. /\ tasks'[w].pc = "observed" /\ tasks'[w].signed = 0
          /\ \A v \in Workers : v # w => tasks'[v] = tasks[v]
      <3>1. tasks[w] \in [pc : RunningPc, request : Requests,
                          now : 0 .. MaxTime, signed : Nat]
        BY <2>0, TaskShape DEF RunningPc
      <3> QED
        BY <1>3, <2>0, <3>1 DEF TypeOK
    <2>2. GateHeld'
      BY <1>1, <2>1, Alone DEF SigningInv, GateHeld, GatedPc
    <2>3. RowsSound' /\ NoDoubleSigning'
      BY <1>1, RowsUntouched DEF SigningInv
    <2>4. TaskSound(w)'
      BY <2>1 DEF TaskSound
    <2>5. ASSUME NEW v \in Workers, v # w
          PROVE  TaskSound(v)'
      BY <1>1, <2>1, <2>5, UntouchedSound DEF SigningInv
    <2> QED
      BY <2>2, <2>3, <2>4, <2>5 DEF SigningInv
  <1> QED
    BY <1>2, <1>3 DEF AcquireGate

\* A refusal of authorize_sign writes no row.
LEMMA RefuseKeeps ==
    ASSUME TypeOK, SigningInv, NEW w \in Workers, RefuseSign(w)
    PROVE  SigningInv'
  <1>1. gate = w /\ gate' = w /\ UNCHANGED <<operations, effects>>
    BY DEF RefuseSign, SigningInv, GateHeld, GatedPc, durableVars, historyVars
  <1>2. \E code \in {"refused", "conflict", "ambiguous"} : ReplyWith(w, code)
    BY DEF RefuseSign
  <1> QED
    BY <1>1, <1>2, PlainReplyKeeps DEF Replies

\* A failed transaction leaves the rows as they stood.
LEMMA FailureKeeps ==
    ASSUME TypeOK, SigningInv, NEW w \in Workers, EngineFailure(w)
    PROVE  SigningInv'
  <1>1. gate = w /\ gate' = w /\ UNCHANGED <<operations, effects>>
    BY DEF EngineFailure, SigningInv, GateHeld, GatedPc, durableVars, historyVars
  <1> QED
    BY <1>1, PlainReplyKeeps DEF EngineFailure, Replies

\* What moving the gate holder's program counter does to the tasks.
LEMMA GotoEffect ==
    ASSUME TypeOK, NEW w \in Workers, tasks[w].pc \in RunningPc,
           NEW pc \in RunningPc, Goto(w, pc)
    PROVE  /\ tasks'[w].pc = pc
           /\ tasks'[w].request = tasks[w].request
           /\ tasks'[w].signed = tasks[w].signed
           /\ \A v \in Workers : v # w => tasks'[v] = tasks[v]
  <1>1. tasks[w] \in [pc : RunningPc, request : Requests,
                      now : 0 .. MaxTime, signed : Nat]
    BY TaskShape
  <1> QED
    BY <1>1 DEF TypeOK, Goto

\* The request of a running task, named rigidly.
LEMMA RequestOf ==
    ASSUME TypeOK, NEW w \in Workers, tasks[w].pc \in RunningPc
    PROVE  \E r \in Requests : r = tasks[w].request
  BY TaskShape

\* A new reservation is for an operation without a row.
LEMMA ReserveKeeps ==
    ASSUME TypeOK, SigningInv, NEW w \in Workers, ReserveOperation(w)
    PROVE  SigningInv'
  <1> USE DEF historyVars
  <1>0. tasks[w].pc = "observed"
    BY DEF ReserveOperation
  <1> PICK r \in Requests : r = tasks[w].request
    BY <1>0, RequestOf DEF RunningPc
  <1> PICK o \in Operations : o = r.operation
    BY DEF Requests
  <1>1. /\ gate = w /\ gate' = w /\ effects' = effects
        /\ tasks[w].signed = 0
    BY <1>0 DEF ReserveOperation, SigningInv, GateHeld, GatedPc, TaskSound
  <1>2. /\ tasks'[w].pc = "authorized" /\ tasks'[w].request = r
        /\ tasks'[w].signed = 0
        /\ \A v \in Workers : v # w => tasks'[v] = tasks[v]
    BY <1>0, <1>1, GotoEffect DEF ReserveOperation, RunningPc
  <1>3. /\ operations[o].state = "NONE"
        /\ operations'[o] = [state |-> "RESERVED", approval |-> r.approval,
                             binding |-> r.binding, accepted |-> tasks[w].now]
        /\ \A p \in Operations : p # o => operations'[p] = operations[p]
        /\ r.binding \in Admits[r.approval]
    BY DEF ReserveOperation, TypeOK, NoOperation, Admissible, ValidAgainstApproval
  <1>4. \A p \in Operations : Unsigned(p)' = Unsigned(p)
    BY <1>1 DEF Unsigned
  <1>5. Unsigned(o)
    BY <1>3 DEF SigningInv, RowsSound
  <1>6. GateHeld'
    BY <1>1, <1>2, Alone DEF SigningInv, GateHeld, GatedPc
  <1>7. RowsSound'
    <2>1. \A p \in Operations : p # o => Signatures(p)' = Signatures(p)
      BY <1>3 DEF Signatures
    <2> QED
      BY <1>1, <1>3, <1>4, <1>5, <2>1 DEF SigningInv, RowsSound
  <1>8. NoDoubleSigning'
    BY <1>1, <1>3, <1>5 DEF SigningInv, NoDoubleSigning, Unsigned
  <1>9. TaskSound(w)'
    BY <1>2, <1>3 DEF TaskSound, SameOperation
  <1>10. ASSUME NEW v \in Workers, v # w
        PROVE  TaskSound(v)'
    BY <1>1, <1>2, <1>10, Alone, UngatedSound DEF SigningInv
  <1> QED
    BY <1>6, <1>7, <1>8, <1>9, <1>10 DEF SigningInv

\* A retry leaves the row as it is.
LEMMA RetryKeeps ==
    ASSUME TypeOK, SigningInv, NEW w \in Workers, RetryOperation(w)
    PROVE  SigningInv'
  <1> USE DEF historyVars
  <1>1. /\ gate = w /\ gate' = w /\ UNCHANGED <<operations, effects>>
        /\ tasks[w].pc = "observed" /\ tasks[w].signed = 0
    BY DEF RetryOperation, SigningInv, GateHeld, GatedPc, TaskSound
  <1>2. /\ tasks'[w].pc = "authorized" /\ tasks'[w].request = tasks[w].request
        /\ tasks'[w].signed = 0
        /\ \A v \in Workers : v # w => tasks'[v] = tasks[v]
    BY <1>1, GotoEffect DEF RetryOperation, RunningPc
  <1>3. GateHeld'
    BY <1>1, <1>2, Alone DEF SigningInv, GateHeld, GatedPc
  <1>4. RowsSound' /\ NoDoubleSigning'
    BY <1>1, RowsUntouched DEF SigningInv
  <1>5. TaskSound(w)'
    BY <1>1, <1>2 DEF TaskSound, SameOperation, RetryOperation
  <1>6. ASSUME NEW v \in Workers, v # w
        PROVE  TaskSound(v)'
    BY <1>1, <1>2, <1>6, UntouchedSound DEF SigningInv
  <1> QED
    BY <1>3, <1>4, <1>5, <1>6 DEF SigningInv

\* What a reply does to the tasks.
LEMMA ReplyEffect ==
    ASSUME TypeOK, NEW w \in Workers, NEW code, ReplyWith(w, code)
    PROVE  /\ tasks'[w] = [pc |-> "reply", request |-> tasks[w].request, code |-> code]
           /\ \A v \in Workers : v # w => tasks'[v] = tasks[v]
  BY DEF TypeOK, ReplyWith

\* A stored result is of a committed row.
LEMMA StoredKeeps ==
    ASSUME TypeOK, SigningInv, NEW w \in Workers, ReturnStoredResult(w)
    PROVE  SigningInv'
  <1>1. gate = w /\ gate' = w /\ UNCHANGED <<operations, effects>>
    BY DEF ReturnStoredResult, SigningInv, GateHeld, GatedPc, durableVars,
           historyVars
  <1>2. /\ tasks'[w] = [pc |-> "reply", request |-> tasks[w].request, code |-> "result"]
        /\ \A v \in Workers : v # w => tasks'[v] = tasks[v]
    BY ReplyEffect DEF ReturnStoredResult
  <1>3. GateHeld'
    BY <1>1, <1>2, Alone DEF SigningInv, GateHeld, GatedPc
  <1>4. RowsSound' /\ NoDoubleSigning'
    BY <1>1, RowsUntouched DEF SigningInv
  <1>5. TaskSound(w)'
    <2>1. /\ operations[tasks[w].request.operation].state = "COMMITTED"
          /\ SameOperation(tasks[w].request)
      BY DEF ReturnStoredResult, SigningInv, TaskSound
    <2> QED
      BY <1>1, <1>2, <2>1 DEF TaskSound, SameOperation
  <1>6. ASSUME NEW v \in Workers, v # w
        PROVE  TaskSound(v)'
    BY <1>1, <1>2, <1>6, UntouchedSound DEF SigningInv
  <1> QED
    BY <1>3, <1>4, <1>5, <1>6 DEF SigningInv

\* A change of one row's state.
LEMMA SetStateEffect ==
    ASSUME TypeOK, NEW o \in Operations, NEW state, SetState(o, state),
           operations[o].state # "NONE"
    PROVE  /\ operations'[o].state = state
           /\ operations'[o].approval = operations[o].approval
           /\ operations'[o].binding = operations[o].binding
           /\ operations'[o].accepted = operations[o].accepted
           /\ \A p \in Operations : p # o => operations'[p] = operations[p]
           /\ \A p \in Operations : Signatures(p)' = Signatures(p)
  <1>1. operations[o] \in OperationType
    BY DEF TypeOK, NoOperation
  <1>2. /\ operations'[o].state = state
        /\ operations'[o].approval = operations[o].approval
        /\ operations'[o].binding = operations[o].binding
        /\ operations'[o].accepted = operations[o].accepted
        /\ \A p \in Operations : p # o => operations'[p] = operations[p]
    BY <1>1 DEF TypeOK, SetState, OperationType
  <1> QED
    BY <1>2 DEF Signatures

\* A row that keeps its approval and content keeps the history it explains,
\* as long as its new state may have that history.
LEMMA StateChangeKeepsRows ==
    ASSUME TypeOK, SigningInv, NEW o \in Operations,
           NEW state \in OperationStates, SetState(o, state),
           operations[o].state # "NONE", UNCHANGED effects,
           state \in {"RESERVED", "RELEASED"} => Unsigned(o),
           state = "COMMITTED" =>
             \A i \in 1 .. Signatures(o) : effects[o][operations[o].binding][i] = 1
    PROVE  RowsSound' /\ NoDoubleSigning'
  <1>1. /\ operations'[o].state = state
        /\ operations'[o].approval = operations[o].approval
        /\ operations'[o].binding = operations[o].binding
        /\ \A p \in Operations : p # o => operations'[p] = operations[p]
        /\ \A p \in Operations : Signatures(p)' = Signatures(p)
    BY SetStateEffect
  <1>2. \A p \in Operations : Unsigned(p)' = Unsigned(p)
    BY DEF Unsigned
  <1>3. state # "NONE"
    BY DEF OperationStates
  <1>4. RowsSound'
    BY <1>1, <1>2, <1>3 DEF SigningInv, RowsSound
  <1>5. NoDoubleSigning'
    BY <1>1, <1>3 DEF SigningInv, NoDoubleSigning
  <1> QED
    BY <1>4, <1>5

\* The dispatch mark is made on a reserved row, which has no signature.
LEMMA MarkKeeps ==
    ASSUME TypeOK, SigningInv, NEW w \in Workers, MarkDispatched(w)
    PROVE  SigningInv'
  <1>0. tasks[w].pc = "authorized"
    BY DEF MarkDispatched
  <1> PICK r \in Requests : r = tasks[w].request
    BY <1>0, RequestOf DEF RunningPc
  <1> PICK o \in Operations : o = r.operation
    BY DEF Requests
  <1>1. /\ gate = w /\ gate' = w /\ effects' = effects
        /\ tasks[w].signed = 0
        /\ SameOperation(r)
    BY <1>0 DEF MarkDispatched, SigningInv, GateHeld, GatedPc, TaskSound,
                historyVars
  <1>2. operations[o].state = "RESERVED"
    BY <1>0 DEF MarkDispatched, SigningInv, TaskSound
  <1>3. SetState(o, "DISPATCHED") /\ Goto(w, "dispatched")
    BY <1>2 DEF MarkDispatched, StateAtDispatch
  <1>4. /\ tasks'[w].pc = "dispatched" /\ tasks'[w].request = r
        /\ tasks'[w].signed = 0
        /\ \A v \in Workers : v # w => tasks'[v] = tasks[v]
    BY <1>0, <1>1, <1>3, GotoEffect DEF RunningPc
  <1>5. /\ operations'[o].state = "DISPATCHED"
        /\ operations'[o].approval = operations[o].approval
        /\ operations'[o].binding = operations[o].binding
    BY <1>2, <1>3, SetStateEffect
  <1>6. GateHeld'
    BY <1>1, <1>4, Alone DEF SigningInv, GateHeld, GatedPc
  <1>7. RowsSound' /\ NoDoubleSigning'
    BY <1>1, <1>2, <1>3, StateChangeKeepsRows DEF OperationStates
  <1>8. TaskSound(w)'
    <2>1. SameOperation(r)'
      BY <1>1, <1>5 DEF SameOperation
    <2>2. \A i \in Hashes : effects'[o][r.binding][i] = 0
      <3>1. Unsigned(o) /\ r.binding \in Bindings
        BY <1>2 DEF SigningInv, RowsSound, Requests
      <3> QED
        BY <1>1, <3>1 DEF Unsigned
    <2>3. 0 < SignatureCount[r.binding]
      BY SigningAssumption DEF Requests
    <2> QED
      BY <1>4, <1>5, <2>1, <2>2, <2>3 DEF TaskSound
  <1>9. ASSUME NEW v \in Workers, v # w
        PROVE  TaskSound(v)'
    BY <1>1, <1>4, <1>9, Alone, UngatedSound DEF SigningInv
  <1> QED
    BY <1>6, <1>7, <1>8, <1>9 DEF SigningInv

\* A backend call signs the next hash of the operation or no hash at all, and
\* the task's own count tells the two apart unless it quarantines.
LEMMA BackendKeeps ==
    ASSUME TypeOK, SigningInv, NEW w \in Workers, BackendSign(w)
    PROVE  SigningInv'
  <1> USE DEF durableVars, historyVars
  <1>0. tasks[w].pc = "dispatched"
    BY DEF BackendSign
  <1> PICK r \in Requests : r = tasks[w].request
    BY <1>0, RequestOf DEF RunningPc
  <1> PICK o \in Operations : o = r.operation
    BY DEF Requests
  <1> PICK b \in Bindings : b = r.binding
    BY DEF Requests
  <1>1. tasks[w] \in [pc : RunningPc, request : Requests,
                      now : 0 .. MaxTime, signed : Nat]
    BY <1>0, TaskShape DEF RunningPc
  <1> PICK n \in Nat : n = tasks[w].signed
    BY <1>1
  <1> PICK h \in Hashes : h = n + 1 /\ h <= SignatureCount[b]
    <2>1. n < SignatureCount[b]
      BY <1>0 DEF SigningInv, TaskSound
    <2>2. SignatureCount[b] \in 1 .. MaxBatch /\ MaxBatch \in Nat
      BY SigningAssumption
    <2> QED
      BY <2>1, <2>2
  <1>2. /\ gate = w /\ gate' = w /\ UNCHANGED operations
        /\ operations[o].state = "DISPATCHED"
        /\ operations[o].binding = b
        /\ SameOperation(r)
        /\ \A i \in Hashes : effects[o][b][i] = IF i <= n THEN 1 ELSE 0
    BY <1>0 DEF BackendSign, SigningInv, GateHeld, GatedPc, TaskSound, SameOperation
  <1>3. b \in Admits[operations[o].approval]
    BY <1>2 DEF SigningInv, RowsSound
  <1>4. SameOperation(r)'
    BY <1>2 DEF SameOperation
  <1>5. effects \in [Operations -> [Bindings -> [Hashes -> Nat]]]
    BY DEF TypeOK
  <1>6. ASSUME effects' = [effects EXCEPT ![o][b][h] = @ + 1]
        PROVE  /\ effects'[o][b][h] = effects[o][b][h] + 1
               /\ \A i \in Hashes : i # h => effects'[o][b][i] = effects[o][b][i]
               /\ \A c \in Bindings : c # b => effects'[o][c] = effects[o][c]
               /\ \A p \in Operations : p # o => effects'[p] = effects[p]
    <2>0. effects[o] \in [Bindings -> [Hashes -> Nat]]
      BY <1>5
    <2>1. effects'[o] = [effects[o] EXCEPT ![b][h] = @ + 1]
      BY <1>5, <1>6
    <2>2. effects'[o][b] = [effects[o][b] EXCEPT ![h] = @ + 1]
      BY <2>0, <2>1
    <2>3. effects[o][b] \in [Hashes -> Nat]
      BY <1>5
    <2>4. effects'[o][b][h] = effects[o][b][h] + 1
      BY <2>2, <2>3
    <2>5. \A i \in Hashes : i # h => effects'[o][b][i] = effects[o][b][i]
      BY <2>2, <2>3
    <2>6. \A c \in Bindings : c # b => effects'[o][c] = effects[o][c]
      BY <1>5, <2>1
    <2> QED
      BY <1>5, <1>6, <2>4, <2>5, <2>6
  <1>7. /\ \A p \in Operations : p # o => effects'[p] = effects[p]
        /\ \A c \in Bindings : c # b => effects'[o][c] = effects[o][c]
        /\ \A i \in Hashes : i # h => effects'[o][b][i] = effects[o][b][i]
        /\ effects'[o][b][h] \in {0, 1}
    <2>0. effects[o][b][h] = 0
      BY <1>2
    <2>1. CASE UNCHANGED effects
      BY <2>0, <2>1
    <2>2. CASE effects' = [effects EXCEPT ![o][b][h] = @ + 1]
      <3>1. effects'[o][b][h] = 1
        <4>1. effects'[o][b][h] = effects[o][b][h] + 1
          BY <1>6, <2>2, Zenon
        <4> QED
          BY <2>0, <4>1
      <3> QED
        BY <1>6, <2>2, <3>1, Zenon
    <2> QED
      BY <2>1, <2>2 DEF BackendSign
  <1>8. RowsSound'
    <2>1. \A p \in Operations : Signatures(p)' = Signatures(p)
      BY <1>2 DEF Signatures
    <2>2. \A p \in Operations : p # o => Unsigned(p)' = Unsigned(p)
      BY <1>7 DEF Unsigned
    <2> QED
      BY <1>2, <1>7, <2>1, <2>2 DEF SigningInv, RowsSound
  <1>9. NoDoubleSigning'
    <2> SUFFICES ASSUME NEW p \in Operations, NEW c \in Bindings,
                        NEW i \in Hashes, effects'[p][c][i] > 0
                 PROVE  /\ effects'[p][c][i] = 1
                        /\ operations[p].state # "NONE"
                        /\ operations[p].binding = c
                        /\ i <= SignatureCount[c]
                        /\ c \in Admits[operations[p].approval]
      BY <1>2 DEF NoDoubleSigning
    <2>1. CASE p = o /\ c = b /\ i = h
      <3>1. effects'[p][c][i] = 1
        <4>1. effects'[o][b][h] \in {0, 1}
          BY <1>7
        <4> QED
          BY <2>1, <4>1
      <3>2. /\ operations[o].state # "NONE"
            /\ operations[o].binding = b
            /\ b \in Admits[operations[o].approval]
        BY <1>2, <1>3
      <3> QED
        BY <2>1, <3>1, <3>2
    <2>2. CASE ~(p = o /\ c = b /\ i = h)
      <3>1. effects'[p][c][i] = effects[p][c][i]
        BY <1>7, <2>2
      <3> QED
        BY <3>1 DEF SigningInv, NoDoubleSigning
    <2> QED
      BY <2>1, <2>2
  <1>10. /\ tasks'[w].request = r
         /\ tasks'[w].pc \in {"dispatched", "committing", "releasing", "quarantining"}
         /\ \A v \in Workers : v # w => tasks'[v] = tasks[v]
         /\ tasks'[w].pc = "releasing" => n = 0 /\ UNCHANGED effects
         /\ tasks'[w].pc \in {"dispatched", "committing"} =>
              /\ tasks'[w].signed = h
              /\ effects'[o][b][h] = 1
              /\ tasks'[w].pc = "committing" <=> h = SignatureCount[b]
    <2>1. CASE \E pc \in {"releasing", "quarantining"} : Goto(w, pc) /\
                  (pc = "releasing" => n = 0 /\ UNCHANGED effects)
      BY <1>0, <2>1, GotoEffect DEF RunningPc
    <2>2. CASE /\ effects' = [effects EXCEPT ![o][b][h] = @ + 1]
               /\ tasks' = [tasks EXCEPT
                    ![w].signed = h,
                    ![w].pc = IF h = SignatureCount[b]
                              THEN "committing" ELSE "dispatched"]
      <3>1. effects[o][b][h] = 0
        BY <1>2
      <3>2. effects'[o][b][h] = 1
        <4>1. effects'[o][b][h] = effects[o][b][h] + 1
          BY <1>6, <2>2, Zenon
        <4> QED
          BY <3>1, <4>1
      <3> QED
        BY <1>1, <2>2, <3>2 DEF TypeOK
    <2> QED
      BY <2>1, <2>2 DEF BackendSign, RefusalEffect, IndeterminateEffect
  <1>11. GateHeld'
    BY <1>2, <1>10, Alone DEF SigningInv, GateHeld, GatedPc
  <1>12. TaskSound(w)'
    <2>1. CASE tasks'[w].pc \in {"dispatched", "committing"}
      <3>1. effects'[o][b][h] = 1
        BY <1>10, <2>1
      <3>2. \A i \in Hashes : effects'[o][b][i] = IF i <= h THEN 1 ELSE 0
        BY <1>2, <1>7, <3>1, SMTT(20)
      <3>3. SignatureCount[b] \in 1 .. MaxBatch /\ MaxBatch \in Nat
        BY SigningAssumption
      <3>4. /\ operations'[o].state = "DISPATCHED"
            /\ tasks'[w].pc \in {"dispatched", "committing"}
            /\ tasks'[w].request = r /\ tasks'[w].signed = h
        BY <1>2, <1>10, <2>1
      <3>5. CASE tasks'[w].pc = "dispatched"
        <4>1. h < SignatureCount[b]
          BY <1>10, <3>3, <3>5
        <4> QED
          BY <1>4, <3>2, <3>4, <3>5, <4>1 DEF TaskSound
      <3>6. CASE tasks'[w].pc = "committing"
        <4>1. h = SignatureCount[b]
          BY <1>10, <3>6
        <4>2. \A i \in 1 .. SignatureCount[b] : effects'[o][b][i] = 1
          BY <3>2, <3>3, <4>1
        <4> QED
          BY <1>4, <3>4, <3>6, <4>2 DEF TaskSound
      <3> QED
        BY <3>4, <3>5, <3>6
    <2>2. CASE tasks'[w].pc = "releasing"
      <3>1. \A i \in Hashes : effects[o][b][i] = 0
        BY <1>2, <1>10, <2>2
      <3>2. ASSUME NEW c \in Bindings, NEW i \in Hashes, c # b
            PROVE  effects[o][c][i] = 0
        <4>1. effects[o][c][i] \in Nat
          BY <1>5
        <4> QED
          BY <1>2, <3>2, <4>1 DEF SigningInv, NoDoubleSigning
      <3>3. Unsigned(o)'
        BY <1>10, <2>2, <3>1, <3>2 DEF Unsigned
      <3> QED
        BY <1>2, <1>4, <1>10, <2>2, <3>3 DEF TaskSound
    <2>3. CASE tasks'[w].pc = "quarantining"
      BY <1>2, <1>4, <1>10, <2>3 DEF TaskSound
    <2> QED
      BY <1>10, <2>1, <2>2, <2>3
  <1>13. ASSUME NEW v \in Workers, v # w
        PROVE  TaskSound(v)'
    BY <1>2, <1>10, <1>13, Alone, UngatedSound DEF SigningInv
  <1> QED
    BY <1>8, <1>9, <1>11, <1>12, <1>13 DEF SigningInv

\* Each way a task ends an operation changes one row's state and replies.
LEMMA ReleasedKeeps ==
    ASSUME TypeOK, SigningInv, NEW w \in Workers, FinalizeReleased(w)
    PROVE  SigningInv'
  <1>0. tasks[w].pc = "releasing"
    BY DEF FinalizeReleased
  <1> PICK r \in Requests : r = tasks[w].request
    BY <1>0, RequestOf DEF RunningPc
  <1> PICK o \in Operations : o = r.operation
    BY DEF Requests
  <1>1. /\ gate = w /\ gate' = w /\ effects' = effects
        /\ operations[o].state = "DISPATCHED" /\ Unsigned(o)
        /\ SetState(o, "RELEASED")
    BY <1>0 DEF FinalizeReleased, SigningInv, GateHeld, GatedPc, TaskSound,
                historyVars
  <1>2. /\ tasks'[w] = [pc |-> "reply", request |-> r, code |-> "backend_refused"]
        /\ \A v \in Workers : v # w => tasks'[v] = tasks[v]
    BY ReplyEffect DEF FinalizeReleased
  <1>3. operations'[o].state = "RELEASED"
    BY <1>1, SetStateEffect
  <1>4. GateHeld'
    BY <1>1, <1>2, Alone DEF SigningInv, GateHeld, GatedPc
  <1>5. RowsSound' /\ NoDoubleSigning'
    BY <1>1, StateChangeKeepsRows DEF OperationStates
  <1>6. TaskSound(w)'
    BY <1>2, <1>3 DEF TaskSound
  <1>7. ASSUME NEW v \in Workers, v # w
        PROVE  TaskSound(v)'
    BY <1>1, <1>2, <1>7, Alone, UngatedSound DEF SigningInv
  <1> QED
    BY <1>4, <1>5, <1>6, <1>7 DEF SigningInv

\* finalize_operation(QUARANTINED) claims nothing about the history.
LEMMA QuarantinedKeeps ==
    ASSUME TypeOK, SigningInv, NEW w \in Workers, FinalizeQuarantined(w)
    PROVE  SigningInv'
  <1>0. tasks[w].pc = "quarantining"
    BY DEF FinalizeQuarantined
  <1> PICK r \in Requests : r = tasks[w].request
    BY <1>0, RequestOf DEF RunningPc
  <1> PICK o \in Operations : o = r.operation
    BY DEF Requests
  <1>1. /\ gate = w /\ gate' = w /\ effects' = effects
        /\ operations[o].state = "DISPATCHED"
        /\ SetState(o, "QUARANTINED")
    BY <1>0 DEF FinalizeQuarantined, SigningInv, GateHeld, GatedPc, TaskSound,
                historyVars
  <1>2. /\ tasks'[w] = [pc |-> "reply", request |-> r, code |-> "ambiguous"]
        /\ \A v \in Workers : v # w => tasks'[v] = tasks[v]
    BY ReplyEffect DEF FinalizeQuarantined, QuarantineReply
  <1>3. GateHeld'
    BY <1>1, <1>2, Alone DEF SigningInv, GateHeld, GatedPc
  <1>4. RowsSound' /\ NoDoubleSigning'
    BY <1>1, StateChangeKeepsRows DEF OperationStates
  <1>5. TaskSound(w)'
    BY <1>2 DEF TaskSound
  <1>6. ASSUME NEW v \in Workers, v # w
        PROVE  TaskSound(v)'
    BY <1>1, <1>2, <1>6, Alone, UngatedSound DEF SigningInv
  <1> QED
    BY <1>3, <1>4, <1>5, <1>6 DEF SigningInv

\* commit_operation_result is reached with every hash signed.
LEMMA CommitKeeps ==
    ASSUME TypeOK, SigningInv, NEW w \in Workers, CommitResult(w)
    PROVE  SigningInv'
  <1>0. tasks[w].pc = "committing"
    BY DEF CommitResult
  <1> PICK r \in Requests : r = tasks[w].request
    BY <1>0, RequestOf DEF RunningPc
  <1> PICK o \in Operations : o = r.operation
    BY DEF Requests
  <1>1. /\ gate = w /\ gate' = w /\ effects' = effects
        /\ operations[o].state = "DISPATCHED" /\ SameOperation(r)
        /\ \A i \in 1 .. SignatureCount[r.binding] : effects[o][r.binding][i] = 1
        /\ SetState(o, "COMMITTED")
    BY <1>0 DEF CommitResult, SigningInv, GateHeld, GatedPc, TaskSound,
                historyVars
  <1>2. /\ tasks'[w] = [pc |-> "reply", request |-> r, code |-> "result"]
        /\ \A v \in Workers : v # w => tasks'[v] = tasks[v]
    BY ReplyEffect DEF CommitResult
  <1>3. /\ operations'[o].state = "COMMITTED"
        /\ operations'[o].approval = operations[o].approval
        /\ operations'[o].binding = operations[o].binding
    BY <1>1, SetStateEffect
  <1>4. GateHeld'
    BY <1>1, <1>2, Alone DEF SigningInv, GateHeld, GatedPc
  <1>5. RowsSound' /\ NoDoubleSigning'
    <2>1. \A i \in 1 .. Signatures(o) : effects[o][operations[o].binding][i] = 1
      BY <1>1 DEF Signatures, SameOperation
    <2> QED
      BY <1>1, <2>1, StateChangeKeepsRows DEF OperationStates
  <1>6. TaskSound(w)'
    BY <1>1, <1>2, <1>3 DEF TaskSound, SameOperation
  <1>7. ASSUME NEW v \in Workers, v # w
        PROVE  TaskSound(v)'
    BY <1>1, <1>2, <1>7, Alone, UngatedSound DEF SigningInv
  <1> QED
    BY <1>4, <1>5, <1>6, <1>7 DEF SigningInv

\* The gate is given back by its holder only.
LEMMA ReplyKeeps ==
    ASSUME TypeOK, SigningInv, NEW w \in Workers, Reply(w)
    PROVE  SigningInv'
  <1>1. gate = w /\ gate' = NoWorker /\ UNCHANGED <<operations, effects>>
    BY DEF Reply, GateAfterReply, SigningInv, GateHeld, GatedPc, durableVars,
           historyVars
  <1>2. /\ tasks'[w] = Idle
        /\ \A v \in Workers : v # w => tasks'[v] = tasks[v]
    BY DEF Reply, TypeOK
  <1>3. GateHeld'
    BY <1>1, <1>2, Alone DEF SigningInv, GateHeld, GatedPc, Idle
  <1>4. RowsSound' /\ NoDoubleSigning'
    BY <1>1, RowsUntouched DEF SigningInv
  <1>5. TaskSound(w)'
    BY <1>2 DEF TaskSound, Idle
  <1>6. ASSUME NEW v \in Workers, v # w
        PROVE  TaskSound(v)'
    BY <1>1, <1>2, <1>6, UntouchedSound DEF SigningInv
  <1> QED
    BY <1>3, <1>4, <1>5, <1>6 DEF SigningInv

\* Steps outside the signing path leave rows, tasks, gate and history alone.
LEMMA OutsideKeeps ==
    ASSUME SigningInv, UNCHANGED <<operations, effects, tasks, gate>>
    PROVE  SigningInv'
  <1>1. GateHeld'
    BY DEF SigningInv, GateHeld
  <1>2. RowsSound' /\ NoDoubleSigning'
    BY RowsUntouched DEF SigningInv
  <1>3. \A w \in Workers : TaskSound(w)'
    BY UntouchedSound DEF SigningInv
  <1> QED
    BY <1>1, <1>2, <1>3 DEF SigningInv

\* A crash forgets the tasks, and keeps the rows and what the backend did.
LEMMA CrashKeeps ==
    ASSUME SigningInv, Crash
    PROVE  SigningInv'
  <1>1. /\ UNCHANGED <<operations, effects>>
        /\ \A w \in Workers : tasks'[w] = Idle
    BY DEF Crash, durableVars, historyVars
  <1>2. RowsSound' /\ NoDoubleSigning'
    BY <1>1, RowsUntouched DEF SigningInv
  <1>3. GateHeld' /\ \A w \in Workers : TaskSound(w)'
    BY <1>1 DEF GateHeld, GatedPc, TaskSound, Idle
  <1> QED
    BY <1>2, <1>3 DEF SigningInv

\* Every step keeps the invariant.
LEMMA SigningStep ==
    ASSUME TypeOK, SigningInv, [Next]_vars
    PROVE  SigningInv'
  <1>1. CASE \E w \in Workers : (\E r \in Requests : Receive(w, r)) \/ TaskStep(w)
    BY <1>1, ReceiveKeeps, AcquireKeeps, RefuseKeeps, ReserveKeeps, RetryKeeps,
       StoredKeeps, MarkKeeps, BackendKeeps, ReleasedKeeps, QuarantinedKeeps,
       CommitKeeps, FailureKeeps, ReplyKeeps
    DEF TaskStep
  <1>2. CASE AdvanceTime \/ ChangeAuthority \/ ChangeAvailability \/ UNCHANGED vars
    BY <1>2, OutsideKeeps
    DEF AdvanceTime, ChangeAuthority, ChangeAvailability, vars, durableVars,
        historyVars
  <1>3. CASE Crash
    BY <1>3, CrashKeeps
  <1> QED
    BY <1>1, <1>2, <1>3 DEF Next

\* Rows, tasks and the backend's history agree in every reachable state of the
\* signing path, for any number of tasks, operations and hashes.
THEOREM SigningSafe == Spec => []SigningInv
  <1>1. Init => SigningInv
    BY SigningInit
  <1>2. TypeOK /\ SigningInv /\ [Next]_vars => SigningInv'
    BY SigningStep
  <1> QED
    BY <1>1, <1>2, TypeCorrect, PTL DEF Spec

\* No hash of an operation is ever signed twice, and only the content the
\* operation was reserved for is signed.
THEOREM SignsOnce == Spec => []NoDoubleSigning
  <1>1. SigningInv => NoDoubleSigning
    BY DEF SigningInv
  <1> QED
    BY <1>1, SigningSafe, PTL

\* A refunded operation has no signature.
THEOREM RefundsAreUnsigned == Spec => []ReleasedNeverSigned
  <1>1. SigningInv => ReleasedNeverSigned
    BY DEF SigningInv, RowsSound, ReleasedNeverSigned
  <1> QED
    BY <1>1, SigningSafe, PTL

\* A returned result is a committed one with every hash signed, of the
\* request's own approval and content.
THEOREM ResultsComplete == Spec => []ResultsAreComplete
  <1>1. TypeOK /\ SigningInv => ResultsAreComplete
    <2> SUFFICES ASSUME TypeOK, SigningInv, NEW w \in Workers,
                        tasks[w].pc = "reply", tasks[w].code = "result"
                 PROVE  LET r == tasks[w].request IN
                        /\ operations[r.operation].state = "COMMITTED"
                        /\ SameOperation(r)
                        /\ \A i \in 1 .. SignatureCount[r.binding] :
                              effects[r.operation][r.binding][i] = 1
      BY DEF ResultsAreComplete
    <2>1. /\ operations[tasks[w].request.operation].state = "COMMITTED"
          /\ SameOperation(tasks[w].request)
      BY DEF SigningInv, TaskSound
    <2>2. tasks[w].request.operation \in Operations
      BY TaskShape DEF Requests
    <2> QED
      BY <2>1, <2>2 DEF SigningInv, RowsSound, SameOperation, Signatures
  <1> QED
    BY <1>1, SigningSafe, TypeCorrect, PTL

\* A backend refusal is reported of a refunded, unsigned operation only.
THEOREM RefusalsHonest == Spec => []RefusalsAreHonest
  <1>1. TypeOK /\ SigningInv => RefusalsAreHonest
    <2> SUFFICES ASSUME TypeOK, SigningInv, NEW w \in Workers,
                        tasks[w].pc = "reply", tasks[w].code = "backend_refused"
                 PROVE  /\ operations[tasks[w].request.operation].state = "RELEASED"
                        /\ Unsigned(tasks[w].request.operation)
      BY DEF RefusalsAreHonest
    <2>1. operations[tasks[w].request.operation].state = "RELEASED"
      BY DEF SigningInv, TaskSound
    <2>2. tasks[w].request.operation \in Operations
      BY TaskShape DEF Requests
    <2> QED
      BY <2>1, <2>2 DEF SigningInv, RowsSound
  <1> QED
    BY <1>1, SigningSafe, TypeCorrect, PTL

-----------------------------------------------------------------------------
(* Signatures after a revocation *)

\* Nothing of LateInv is disturbed by a step that leaves the late operations
\* and the authority alone, changes no row's approval, and makes no task
\* authorized.
LEMMA LateKept ==
    ASSUME TypeOK, LateInv, UNCHANGED <<late, authorityVars>>,
           \A o \in Operations : operations[o].state # "NONE" =>
              /\ operations'[o].state # "NONE"
              /\ operations'[o].approval = operations[o].approval,
           \A v \in Workers : tasks'[v].pc \in {"authorized", "dispatched"} =>
              /\ tasks[v].pc \in {"authorized", "dispatched"}
              /\ tasks'[v].request = tasks[v].request
              /\ operations[tasks[v].request.operation].state = "COMMITTED" =>
                   operations'[tasks[v].request.operation].state = "COMMITTED"
    PROVE  LateInv'
  <1>1. late \subseteq Operations
    BY DEF TypeOK
  <1> QED
    BY <1>1 DEF LateInv, AtMostOneLateOperation, authorityVars

\* A task that is authorized now found its approval active.
LEMMA AuthorizedKeepsLate ==
    ASSUME TypeOK, LateInv, NEW w \in Workers,
           UNCHANGED <<late, authorityVars>>,
           approvals[tasks[w].request.approval] = "active",
           tasks'[w].request = tasks[w].request,
           \A v \in Workers : v # w => tasks'[v] = tasks[v],
           \A v \in Workers : v # w => tasks[v].pc \in {"idle", "waiting"},
           \A o \in Operations : operations[o].state # "NONE" =>
              /\ operations'[o].state # "NONE"
              /\ operations'[o].approval = operations[o].approval
    PROVE  LateInv'
  <1>1. late \subseteq Operations
    BY DEF TypeOK
  <1> QED
    BY <1>1 DEF LateInv, AtMostOneLateOperation, authorityVars

\* Revocation and activation: an approval that left force stays out of it.
LEMMA AuthorityKeepsLate ==
    ASSUME TypeOK, LateInv, AuthorityNext, UNCHANGED <<late, operations, tasks>>
    PROVE  LateInv'
  <1>1. /\ late \subseteq Operations
        /\ approvals \in [Approvals -> {"absent", "active", "inactive"}]
        /\ walletEpoch \in [Wallets -> 0 .. MaxEpoch \union {NoRow}]
        /\ \A a \in Approvals : ApprovalWallet[a] \in Wallets
    BY AuthorityAssumption DEF TypeOK, AuthorityTypeOK
  <1>2. /\ \A a \in Approvals : approvals[a] = "inactive" => approvals'[a] = "inactive"
        /\ \A a \in Approvals : approvals[a] # "absent" => approvals'[a] # "absent"
        /\ \A a \in Approvals : approvals'[a] = "active" =>
              walletEpoch'[ApprovalWallet[a]] = ApprovalEpoch[a]
    <2>1. ASSUME NEW b \in Approvals, PersistApproval(b)
          PROVE  /\ \A a \in Approvals : a # b => approvals'[a] = approvals[a]
                 /\ approvals[b] = "absent" /\ approvals'[b] = "active"
                 /\ \A a \in Approvals : approvals'[a] = "active" =>
                       walletEpoch'[ApprovalWallet[a]] = ApprovalEpoch[a]
      <3>1. /\ \A a \in Approvals : a # b => approvals'[a] = approvals[a]
            /\ approvals[b] = "absent" /\ approvals'[b] = "active"
            /\ walletEpoch[ApprovalWallet[b]] \in {NoRow, ApprovalEpoch[b]}
            /\ walletEpoch'[ApprovalWallet[b]] = ApprovalEpoch[b]
            /\ \A x \in Wallets : x # ApprovalWallet[b] =>
                  walletEpoch'[x] = walletEpoch[x]
        BY <1>1, <2>1 DEF PersistApproval
      <3>2. \A a \in Approvals : ApprovalEpoch[a] # NoRow
        BY AuthorityAssumption DEF NoRow
      <3> QED
        BY <1>1, <3>1, <3>2 DEF LateInv
    <2>2. ASSUME NEW b \in Approvals, DeactivateApproval(b)
          PROVE  /\ \A a \in Approvals : a # b => approvals'[a] = approvals[a]
                 /\ approvals'[b] = "inactive" /\ UNCHANGED walletEpoch
      BY <1>1, <2>2 DEF DeactivateApproval
    <2>3. ASSUME NEW x \in Wallets, AdvanceEpoch(x)
          PROVE  /\ \A a \in Approvals :
                      approvals'[a] = IF ApprovalWallet[a] = x /\ approvals[a] = "active"
                                      THEN "inactive" ELSE approvals[a]
                 /\ \A y \in Wallets : y # x => walletEpoch'[y] = walletEpoch[y]
      BY <1>1, <2>3 DEF AdvanceEpoch
    <2>4. CASE \E b \in Approvals : PersistApproval(b)
      BY <2>1, <2>4
    <2>5. CASE \E b \in Approvals : DeactivateApproval(b)
      BY <2>2, <2>5 DEF LateInv
    <2>6. CASE \E x \in Wallets : AdvanceEpoch(x)
      BY <1>1, <2>3, <2>6 DEF LateInv
    <2> QED
      BY <2>4, <2>5, <2>6 DEF AuthorityNext
  <1>3. \A o \in late : operations[o].approval \in Approvals
    BY <1>1 DEF LateInv, TypeOK, OperationType, NoOperation
  <1>4. \A w \in Workers : tasks[w].pc \in {"authorized", "dispatched"} =>
           tasks[w].request.approval \in Approvals
    BY TaskShape DEF RunningPc, Requests
  <1> QED
    BY <1>1, <1>2, <1>3, <1>4 DEF LateInv, AtMostOneLateOperation

\* A backend call makes at most its own operation late.
LEMMA BackendKeepsLate ==
    ASSUME TypeOK, SigningInv, LateInv, NEW w \in Workers, BackendSign(w)
    PROVE  LateInv'
  <1> USE DEF durableVars, historyVars
  <1>0. tasks[w].pc = "dispatched"
    BY DEF BackendSign
  <1> PICK r \in Requests : r = tasks[w].request
    BY <1>0, RequestOf DEF RunningPc
  <1> PICK o \in Operations : o = r.operation
    BY DEF Requests
  <1>1. /\ gate = w /\ UNCHANGED <<operations, approvals, walletEpoch>>
        /\ operations[o].state = "DISPATCHED"
        /\ operations[o].approval = r.approval
    BY <1>0 DEF BackendSign, SigningInv, GateHeld, GatedPc, TaskSound,
                SameOperation, authorityVars
  <1>2. tasks[w] \in [pc : RunningPc, request : Requests,
                      now : 0 .. MaxTime, signed : Nat]
    BY <1>0, TaskShape DEF RunningPc
  <1>3. /\ tasks'[w].request = r
        /\ \A v \in Workers : v # w => tasks'[v] = tasks[v]
    <2>1. CASE \E pc \in RunningPc : Goto(w, pc)
      BY <1>0, <2>1, GotoEffect DEF RunningPc
    <2>2. CASE \E n, pc : tasks' = [tasks EXCEPT ![w].signed = n, ![w].pc = pc]
      BY <1>2, <2>2 DEF TypeOK
    <2> QED
      BY <2>1, <2>2 DEF BackendSign, RefusalEffect, IndeterminateEffect, RunningPc
  <1>4. \A v \in Workers : v # w => tasks[v].pc \in {"idle", "waiting"}
    BY <1>1, Alone DEF SigningInv
  <1>5. late \subseteq Operations
    BY DEF TypeOK
  <1>6. CASE UNCHANGED late
    BY <1>0, <1>1, <1>3, <1>4, <1>5, <1>6 DEF LateInv, AtMostOneLateOperation
  <1>7. CASE late' = late \union {o} /\ ~InForce(r.approval)
    <2>1. r.approval \in Approvals
      BY DEF Requests
    <2>2. approvals[r.approval] = "inactive"
      <3>1. approvals[r.approval] # "absent"
        BY <1>0 DEF LateInv
      <3>2. approvals[r.approval] # "active"
        <4>1. ASSUME approvals[r.approval] = "active"
              PROVE  InForce(r.approval)
          <5>1. walletEpoch[ApprovalWallet[r.approval]] = ApprovalEpoch[r.approval]
            BY <2>1, <4>1 DEF LateInv
          <5>2. ApprovalEpoch[r.approval] # NoRow
            BY <2>1, AuthorityAssumption DEF NoRow
          <5> QED
            BY <4>1, <5>1, <5>2 DEF InForce, WalletEpoch
        <4> QED
          BY <1>7, <4>1
      <3> QED
        BY <2>1, <3>1, <3>2 DEF TypeOK, AuthorityTypeOK
    <2>3. \A p \in late : operations[p].approval = r.approval => p = o
      BY <1>0, <1>1 DEF LateInv
    <2> QED
      BY <1>0, <1>1, <1>3, <1>4, <1>5, <1>7, <2>2, <2>3
      DEF LateInv, AtMostOneLateOperation
  <1> QED
    BY <1>6, <1>7 DEF BackendSign

\* A task that leaves the signing steps, or has not reached them.
LEMMA OtherTaskKeepsLate ==
    ASSUME TypeOK, SigningInv, LateInv, NEW w \in Workers,
           UNCHANGED <<late, authorityVars>>,
           tasks'[w].pc \notin {"authorized", "dispatched"},
           \A v \in Workers : v # w => tasks'[v] = tasks[v],
           \A o \in Operations : operations[o].state # "NONE" =>
              /\ operations'[o].state # "NONE"
              /\ operations'[o].approval = operations[o].approval,
           gate = w \/ UNCHANGED operations
    PROVE  LateInv'
  <1>1. gate = w => \A v \in Workers : v # w => tasks[v].pc \in {"idle", "waiting"}
    BY Alone DEF SigningInv
  <1> QED
    BY <1>1, LateKept

\* Every step keeps the invariant.
LEMMA LateStep ==
    ASSUME TypeOK, SigningInv, LateInv, [Next]_vars
    PROVE  LateInv'
  <1> USE DEF durableVars, historyVars
  <1>1. ASSUME NEW w \in Workers, NEW r \in Requests, Receive(w, r)
        PROVE  LateInv'
    BY <1>1, OtherTaskKeepsLate DEF Receive, TypeOK
  <1>2. ASSUME NEW w \in Workers, AcquireGate(w)
        PROVE  LateInv'
    <2>1. UNCHANGED <<late, authorityVars, operations>> /\ tasks[w].pc = "waiting"
      BY <1>2 DEF AcquireGate
    <2>2. CASE \E code \in Replies : ReplyWith(w, code)
      BY <2>1, <2>2, OtherTaskKeepsLate DEF ReplyWith, TypeOK
    <2>3. CASE tasks' = [tasks EXCEPT ![w].pc = "observed", ![w].now = effective']
      <3>1. tasks[w] \in [pc : RunningPc, request : Requests,
                          now : 0 .. MaxTime, signed : Nat]
        BY <2>1, TaskShape DEF RunningPc
      <3>2. /\ tasks'[w].pc = "observed"
            /\ \A v \in Workers : v # w => tasks'[v] = tasks[v]
        BY <2>3, <3>1 DEF TypeOK
      <3> QED
        BY <2>1, <3>2, OtherTaskKeepsLate
    <2> QED
      BY <1>2, <2>2, <2>3 DEF AcquireGate, Replies
  <1>3. ASSUME NEW w \in Workers, RefuseSign(w) \/ ReturnStoredResult(w) \/ EngineFailure(w)
        PROVE  LateInv'
    <2>1. UNCHANGED <<late, authorityVars, operations>>
      BY <1>3 DEF RefuseSign, ReturnStoredResult, EngineFailure
    <2>2. \E code : ReplyWith(w, code)
      BY <1>3 DEF RefuseSign, ReturnStoredResult, EngineFailure
    <2> QED
      BY <2>1, <2>2, OtherTaskKeepsLate DEF ReplyWith, TypeOK
  <1>4. ASSUME NEW w \in Workers, ReserveOperation(w) \/ RetryOperation(w)
        PROVE  LateInv'
    <2>1. /\ tasks[w].pc = "observed" /\ gate = w
          /\ UNCHANGED <<late, authorityVars>>
          /\ approvals[tasks[w].request.approval] = "active"
          /\ Goto(w, "authorized")
      BY <1>4 DEF ReserveOperation, RetryOperation, Admissible, SigningInv,
                  GateHeld, GatedPc
    <2>2. /\ tasks'[w].request = tasks[w].request
          /\ \A v \in Workers : v # w => tasks'[v] = tasks[v]
      BY <2>1, GotoEffect DEF RunningPc
    <2>3. \A o \in Operations : operations[o].state # "NONE" => operations'[o] = operations[o]
      BY <1>4 DEF ReserveOperation, RetryOperation, TypeOK, NoOperation
    <2>4. \A v \in Workers : v # w => tasks[v].pc \in {"idle", "waiting"}
      BY <2>1, Alone DEF SigningInv
    <2> QED
      BY <2>1, <2>2, <2>3, <2>4, AuthorizedKeepsLate
  <1>5. ASSUME NEW w \in Workers, MarkDispatched(w)
        PROVE  LateInv'
    <2>1. /\ tasks[w].pc = "authorized" /\ gate = w
          /\ UNCHANGED <<late, authorityVars>>
      BY <1>5 DEF MarkDispatched, SigningInv, GateHeld, GatedPc
    <2> PICK o \in Operations : o = tasks[w].request.operation
      BY <2>1, TaskShape DEF RunningPc, Requests
    <2>2. /\ operations[o].state = "RESERVED"
          /\ SetState(o, "DISPATCHED") /\ Goto(w, "dispatched")
      BY <1>5, <2>1 DEF MarkDispatched, StateAtDispatch, SigningInv, TaskSound
    <2>3. /\ tasks'[w].request = tasks[w].request
          /\ \A v \in Workers : v # w => tasks'[v] = tasks[v]
      BY <2>1, <2>2, GotoEffect DEF RunningPc
    <2>4. \A p \in Operations : operations[p].state # "NONE" =>
             /\ operations'[p].state # "NONE"
             /\ operations'[p].approval = operations[p].approval
      BY <2>2, SetStateEffect
    <2>5. \A v \in Workers : v # w => tasks[v].pc \in {"idle", "waiting"}
      BY <2>1, Alone DEF SigningInv
    <2> QED
      BY <2>1, <2>2, <2>3, <2>4, <2>5, LateKept
  <1>6. ASSUME NEW w \in Workers,
               FinalizeReleased(w) \/ FinalizeQuarantined(w) \/ CommitResult(w)
        PROVE  LateInv'
    <2>1. /\ tasks[w].pc \in {"releasing", "quarantining", "committing"} /\ gate = w
          /\ UNCHANGED <<late, authorityVars>>
      BY <1>6 DEF FinalizeReleased, FinalizeQuarantined, CommitResult, SigningInv,
                  GateHeld, GatedPc
    <2> PICK o \in Operations : o = tasks[w].request.operation
      BY <2>1, TaskShape DEF RunningPc, Requests
    <2> PICK state \in OperationStates : SetState(o, state)
      BY <1>6 DEF FinalizeReleased, FinalizeQuarantined, CommitResult, OperationStates
    <2>2. operations[o].state # "NONE" /\ \E code : ReplyWith(w, code)
      BY <1>6 DEF FinalizeReleased, FinalizeQuarantined, CommitResult
    <2>3. \A p \in Operations : operations[p].state # "NONE" =>
             /\ operations'[p].state # "NONE"
             /\ operations'[p].approval = operations[p].approval
      BY <2>2, SetStateEffect DEF OperationStates
    <2> QED
      BY <2>1, <2>2, <2>3, OtherTaskKeepsLate DEF ReplyWith, TypeOK
  <1>7. ASSUME NEW w \in Workers, Reply(w)
        PROVE  LateInv'
    BY <1>7, OtherTaskKeepsLate DEF Reply, TypeOK, Idle
  <1>8. CASE ChangeAuthority
    BY <1>8, AuthorityKeepsLate DEF ChangeAuthority
  <1>9. CASE AdvanceTime \/ ChangeAvailability \/ Crash \/ UNCHANGED vars
    BY <1>9, LateKept DEF AdvanceTime, ChangeAvailability, Crash, vars, Idle
  <1> QED
    BY <1>1, <1>2, <1>3, <1>4, <1>5, <1>6, <1>7, <1>8, <1>9, BackendKeepsLate
    DEF Next, TaskStep

\* At most the operation a backend was signing at the time of a revocation is
\* signed after it.
THEOREM LateOnce == Spec => []AtMostOneLateOperation
  <1>1. Init => LateInv
    BY DEF Init, AuthorityInit, LateInv, AtMostOneLateOperation, Idle
  <1>2. TypeOK /\ SigningInv /\ LateInv /\ [Next]_vars => LateInv'
    BY LateStep
  <1>3. LateInv => AtMostOneLateOperation
    BY DEF LateInv
  <1> QED
    BY <1>1, <1>2, <1>3, TypeCorrect, SigningSafe, PTL DEF Spec

-----------------------------------------------------------------------------
(* Sums over finite sets *)

\* A property of some subset of a finite set is one of a smallest subset.
LEMMA SmallestSubset ==
    ASSUME NEW S, IsFiniteSet(S), NEW B, B \subseteq SUBSET S, B # {}
    PROVE  \E T \in B : \A U \in B : U \subseteq T => U = T
  <1> DEFINE R == StrictSubsetOrdering(S)
  <1>1. IsWellFoundedOn(R, SUBSET S)
    BY FS_StrictSubsetOrderingWellFounded, FS_FiniteSubsetsOfFinite
  <1>2. \A T, U \in SUBSET S : U \subseteq T /\ U # T => <<U, T>> \in R
    BY DEF StrictSubsetOrdering
  <1> HIDE DEF R
  <1>3. PICK T \in B : \A U \in B : ~ (<<U, T>> \in R)
    BY <1>1, WFMin
  <1> QED
    BY <1>2, <1>3

\* The element MapThenFoldSet takes first.
Pick(s) == CHOOSE x \in s : TRUE

\* The recursive function SumFunctionOnSet takes the sum from.
IsTotal(f, S, g) ==
    g = [s \in SUBSET S |-> IF s = {} THEN 0 ELSE f[Pick(s)] + g[s \ {Pick(s)}]]

Totals(f, S) == CHOOSE g : IsTotal(f, S, g)

\* The library's sum, by that function.
LEMMA SumByTotals ==
    ASSUME NEW f, NEW S
    PROVE  SumFunctionOnSet(f, S) = Totals(f, S)[S]
  BY DEF SumFunctionOnSet, FoldFunctionOnSet, MapThenFoldSet, Totals, IsTotal, Pick

\* The element taken is one of the set.
LEMMA PickIn ==
    ASSUME NEW s, s # {}
    PROVE  Pick(s) \in s
  BY DEF Pick

\* The function at one subset.
LEMMA TotalAt ==
    ASSUME NEW f, NEW S, NEW g, IsTotal(f, S, g), NEW s \in SUBSET S
    PROVE  g[s] = IF s = {} THEN 0 ELSE f[Pick(s)] + g[s \ {Pick(s)}]
  BY DEF IsTotal

\* Two such functions agree wherever both are defined.
LEMMA TotalsAgree ==
    ASSUME NEW f, NEW S, NEW T, IsFiniteSet(S),
           NEW g, NEW h, IsTotal(f, S, g), IsTotal(f, T, h),
           NEW u, u \subseteq S, u \subseteq T
    PROVE  g[u] = h[u]
  <1> DEFINE Bad == {s \in SUBSET S : s \subseteq T /\ g[s] # h[s]}
  <1>1. ASSUME Bad # {}
        PROVE  FALSE
    <2>1. PICK s \in Bad : \A v \in Bad : v \subseteq s => v = s
      <3>1. Bad \subseteq SUBSET S
        OBVIOUS
      <3> HIDE DEF Bad
      <3> QED
        BY <1>1, <3>1, SmallestSubset
    <2>2. s \in SUBSET S /\ s \in SUBSET T /\ g[s] # h[s]
      BY <2>1
    <2>3. s # {}
      BY <2>2, TotalAt
    <2> DEFINE v == s \ {Pick(s)}
    <2>4. v \subseteq s /\ v # s
      BY <2>3, PickIn
    <2>5. v \notin Bad
      BY <2>1, <2>4
    <2>6. g[v] = h[v]
      BY <2>2, <2>4, <2>5
    <2>7. g[s] = f[Pick(s)] + g[v] /\ h[s] = f[Pick(s)] + h[v]
      BY <2>2, <2>3, TotalAt
    <2> QED
      BY <2>2, <2>6, <2>7
  <1> QED
    BY <1>1

\* They exist for every finite set.
LEMMA TotalsExist ==
    ASSUME NEW f, NEW S, IsFiniteSet(S)
    PROVE  IsTotal(f, S, Totals(f, S))
  <1> DEFINE Bad == {T \in SUBSET S : ~ \E g : IsTotal(f, T, g)}
  <1>1. ASSUME Bad # {}
        PROVE  FALSE
    <2>1. PICK T \in Bad : \A v \in Bad : v \subseteq T => v = T
      <3>1. Bad \subseteq SUBSET S
        OBVIOUS
      <3> HIDE DEF Bad
      <3> QED
        BY <1>1, <3>1, SmallestSubset
    <2>2. ASSUME NEW v \in SUBSET T, v # T
          PROVE  IsTotal(f, v, Totals(f, v))
      <3>1. \E g : IsTotal(f, v, g)
        BY <2>1, <2>2
      <3> QED
        BY <3>1 DEF Totals
    <2>3. \A v \in SUBSET T : IsFiniteSet(v)
      BY FS_Subset
    <2> DEFINE Sum(v) == Totals(f, v)[v]
               G == [s \in SUBSET T |-> IF s = {} THEN 0
                                        ELSE f[Pick(s)] + Sum(s \ {Pick(s)})]
    <2>4. ASSUME NEW v \in SUBSET T, v # T
          PROVE  G[v] = Sum(v)
      <3>1. CASE v = {}
        BY <2>2, <2>4, <3>1, TotalAt
      <3>2. CASE v # {}
        <4> DEFINE p == Pick(v)
                   u == v \ {p}
        <4>1. u \subseteq v /\ u \in SUBSET T /\ u # T
          BY <2>4
        <4>2. IsTotal(f, v, Totals(f, v)) /\ IsTotal(f, u, Totals(f, u))
          BY <2>2, <2>4, <4>1
        <4>3. Totals(f, v)[u] = Totals(f, u)[u]
          BY <2>3, <4>1, <4>2, TotalsAgree
        <4>4. Totals(f, v)[v] = f[p] + Totals(f, v)[u]
          BY <3>2, <4>2, TotalAt
        <4> QED
          BY <3>2, <4>3, <4>4
      <3> QED
        BY <3>1, <3>2
    <2>5. ASSUME NEW s \in SUBSET T, s # {}
          PROVE  G[s \ {Pick(s)}] = Sum(s \ {Pick(s)})
      <3>1. s \ {Pick(s)} \in SUBSET T /\ s \ {Pick(s)} # T
        BY <2>5, PickIn
      <3> HIDE DEF G, Sum
      <3> QED
        BY <2>4, <3>1
    <2>6. IsTotal(f, T, G)
      BY <2>5 DEF IsTotal
    <2> QED
      BY <2>1, <2>6
  <1>2. \E g : IsTotal(f, S, g)
    BY <1>1
  <1> QED
    BY <1>2 DEF Totals

\* A sum over nothing is zero.
LEMMA SumEmpty ==
    ASSUME NEW f
    PROVE  SumFunctionOnSet(f, {}) = 0
  BY SumByTotals, TotalsExist, TotalAt, FS_EmptySet

\* A sum by the element taken first.
LEMMA SumPick ==
    ASSUME NEW f, NEW S, IsFiniteSet(S), S # {}
    PROVE  SumFunctionOnSet(f, S)
             = f[Pick(S)] + SumFunctionOnSet(f, S \ {Pick(S)})
  <1> DEFINE T == S \ {Pick(S)}
  <1>1. IsFiniteSet(T) /\ T \subseteq S
    BY FS_Subset
  <1>2. IsTotal(f, S, Totals(f, S)) /\ IsTotal(f, T, Totals(f, T))
    BY <1>1, TotalsExist
  <1>3. Totals(f, S)[S] = f[Pick(S)] + Totals(f, S)[T]
    BY <1>2, TotalAt
  <1>4. Totals(f, S)[T] = Totals(f, T)[T]
    <2>1. ASSUME NEW V, V \subseteq S,
                 NEW g, NEW h, IsTotal(f, S, g), IsTotal(f, V, h)
          PROVE  g[V] = h[V]
      BY <2>1, TotalsAgree
    <2> QED
      BY <1>1, <1>2, <2>1
  <1> QED
    BY <1>3, <1>4, SumByTotals

\* A sum of naturals is a natural.
LEMMA SumNat ==
    ASSUME NEW f, NEW S, IsFiniteSet(S), \A x \in S : f[x] \in Nat
    PROVE  SumFunctionOnSet(f, S) \in Nat
  <1> DEFINE Bad == {T \in SUBSET S : SumFunctionOnSet(f, T) \notin Nat}
  <1>1. ASSUME Bad # {}
        PROVE  FALSE
    <2>1. PICK T \in Bad : \A v \in Bad : v \subseteq T => v = T
      <3>1. Bad \subseteq SUBSET S
        OBVIOUS
      <3> HIDE DEF Bad
      <3> QED
        BY <1>1, <3>1, SmallestSubset
    <2>2. T # {}
      <3>1. SumFunctionOnSet(f, {}) \in Nat
        BY SumEmpty
      <3> QED
        BY <2>1, <3>1
    <2>3. Pick(T) \in T /\ f[Pick(T)] \in Nat
      BY <2>1, <2>2, PickIn
    <2>4. SumFunctionOnSet(f, T \ {Pick(T)}) \in Nat
      BY <2>1, <2>3
    <2>5. IsFiniteSet(T)
      BY FS_Subset
    <2> QED
      BY <2>1, <2>2, <2>3, <2>4, <2>5, SumPick
  <1> QED
    BY <1>1

\* Any element may be taken out of a sum.
LEMMA SumRemove ==
    ASSUME NEW f, NEW S, IsFiniteSet(S), \A x \in S : f[x] \in Nat, NEW e \in S
    PROVE  SumFunctionOnSet(f, S) = f[e] + SumFunctionOnSet(f, S \ {e})
  <1> DEFINE Sum(T) == SumFunctionOnSet(f, T)
             Bad == {T \in SUBSET S : \E x \in T : Sum(T) # f[x] + Sum(T \ {x})}
  <1>0. \A T \in SUBSET S : IsFiniteSet(T) /\ Sum(T) \in Nat
    BY FS_Subset, SumNat
  <1>1. ASSUME Bad # {}
        PROVE  FALSE
    <2>1. PICK T \in Bad : \A v \in Bad : v \subseteq T => v = T
      <3>1. Bad \subseteq SUBSET S
        OBVIOUS
      <3> HIDE DEF Bad
      <3> QED
        BY <1>1, <3>1, SmallestSubset
    <2>2. PICK x \in T : Sum(T) # f[x] + Sum(T \ {x})
      BY <2>1
    <2>3. T \in SUBSET S /\ IsFiniteSet(T) /\ T # {}
      BY <1>0, <2>1, <2>2
    <2> DEFINE p == Pick(T)
    <2>4. p \in T /\ Sum(T) = f[p] + Sum(T \ {p})
      BY <2>3, PickIn, SumPick
    <2>5. x # p
      BY <2>2, <2>4
    <2> HIDE DEF p, Sum
    <2>6. T \ {p} \notin Bad /\ T \ {x} \notin Bad
      BY <2>1, <2>2, <2>4
    <2>7. Sum(T \ {p}) = f[x] + Sum((T \ {p}) \ {x})
      BY <2>2, <2>3, <2>5, <2>6
    <2>8. Sum(T \ {x}) = f[p] + Sum((T \ {x}) \ {p})
      BY <2>2, <2>3, <2>4, <2>5, <2>6
    <2>9. (T \ {p}) \ {x} = (T \ {x}) \ {p}
      OBVIOUS
    <2>10. /\ f[x] \in Nat /\ f[p] \in Nat
           /\ Sum((T \ {x}) \ {p}) \in Nat
      BY <1>0, <2>2, <2>3, <2>4
    <2>11. f[p] + (f[x] + Sum((T \ {x}) \ {p}))
             = f[x] + (f[p] + Sum((T \ {x}) \ {p}))
      BY <2>10
    <2> QED
      BY <2>2, <2>4, <2>7, <2>8, <2>9, <2>11
  <1> QED
    BY <1>1

\* A sum is at most another that has each of its nonzero terms.
LEMMA SumBelow ==
    ASSUME NEW f, NEW S, IsFiniteSet(S), \A x \in S : f[x] \in Nat,
           NEW g, NEW T, IsFiniteSet(T), \A x \in T : g[x] \in Nat,
           \A x \in S : f[x] = 0 \/ (x \in T /\ f[x] <= g[x])
    PROVE  SumFunctionOnSet(f, S) <= SumFunctionOnSet(g, T)
  <1> DEFINE F(U) == SumFunctionOnSet(f, U)
             G(U) == SumFunctionOnSet(g, U)
             Bad == {U \in SUBSET S :
                        \E V \in SUBSET T :
                          /\ \A x \in U : f[x] = 0 \/ (x \in V /\ f[x] <= g[x])
                          /\ ~ (F(U) <= G(V))}
  <1>0. /\ \A U \in SUBSET S : IsFiniteSet(U) /\ F(U) \in Nat
        /\ \A V \in SUBSET T : IsFiniteSet(V) /\ G(V) \in Nat
    BY FS_Subset, SumNat
  <1>1. ASSUME Bad # {}
        PROVE  FALSE
    <2>1. PICK U \in Bad : \A v \in Bad : v \subseteq U => v = U
      <3>1. Bad \subseteq SUBSET S
        OBVIOUS
      <3> HIDE DEF Bad
      <3> QED
        BY <1>1, <3>1, SmallestSubset
    <2>2. PICK V \in SUBSET T :
              /\ \A x \in U : f[x] = 0 \/ (x \in V /\ f[x] <= g[x])
              /\ ~ (F(U) <= G(V))
      BY <2>1
    <2>3. U \in SUBSET S /\ F(U) \in Nat /\ G(V) \in Nat
      BY <1>0, <2>1
    <2>4. U # {}
      BY <2>2, <2>3, SumEmpty
    <2>5. PICK x \in U : TRUE
      BY <2>4
    <2>6. /\ F(U) = f[x] + F(U \ {x})
          /\ F(U \ {x}) \in Nat /\ f[x] \in Nat
      BY <1>0, <2>3, SumRemove
    <2>7. U \ {x} \notin Bad /\ U \ {x} \in SUBSET S
      BY <2>1, <2>3, <2>5
    <2>8. CASE f[x] = 0
      <3>1. F(U \ {x}) <= G(V)
        BY <2>2, <2>7
      <3> HIDE DEF F, G
      <3> QED
        BY <2>2, <2>6, <2>8, <3>1
    <2>9. CASE x \in V /\ f[x] <= g[x]
      <3>1. G(V) = g[x] + G(V \ {x}) /\ G(V \ {x}) \in Nat /\ g[x] \in Nat
        BY <1>0, <2>2, <2>9, SumRemove
      <3>2. F(U \ {x}) <= G(V \ {x})
        BY <2>2, <2>7
      <3> HIDE DEF F, G
      <3> QED
        BY <2>2, <2>6, <2>9, <3>1, <3>2
    <2> QED
      BY <2>2, <2>8, <2>9
  <1>2. S \notin Bad
    BY <1>1
  <1> QED
    BY <1>2

\* A sum depends only on its terms.
LEMMA SumSame ==
    ASSUME NEW f, NEW g, NEW S, IsFiniteSet(S),
           \A x \in S : f[x] \in Nat /\ f[x] = g[x]
    PROVE  SumFunctionOnSet(f, S) = SumFunctionOnSet(g, S)
  <1>1. SumFunctionOnSet(f, S) \in Nat /\ SumFunctionOnSet(g, S) \in Nat
    BY SumNat
  <1>2. SumFunctionOnSet(f, S) <= SumFunctionOnSet(g, S)
    BY SumBelow
  <1>3. SumFunctionOnSet(g, S) <= SumFunctionOnSet(f, S)
    BY SumBelow
  <1> QED
    BY <1>1, <1>2, <1>3

\* A sum of ones counts them.
LEMMA SumOnes ==
    ASSUME NEW f, NEW S, IsFiniteSet(S), \A x \in S : f[x] = 1
    PROVE  SumFunctionOnSet(f, S) = Cardinality(S)
  <1> DEFINE Bad == {T \in SUBSET S : SumFunctionOnSet(f, T) # Cardinality(T)}
  <1>1. ASSUME Bad # {}
        PROVE  FALSE
    <2>1. PICK T \in Bad : \A v \in Bad : v \subseteq T => v = T
      <3>1. Bad \subseteq SUBSET S
        OBVIOUS
      <3> HIDE DEF Bad
      <3> QED
        BY <1>1, <3>1, SmallestSubset
    <2>2. T # {}
      BY <2>1, SumEmpty, FS_EmptySet
    <2>3. Pick(T) \in T /\ f[Pick(T)] = 1
      BY <2>1, <2>2, PickIn
    <2>4. SumFunctionOnSet(f, T \ {Pick(T)}) = Cardinality(T \ {Pick(T)})
      BY <2>1, <2>3
    <2>5. IsFiniteSet(T) /\ Cardinality(T) \in Nat
      BY FS_Subset, FS_CardinalityType
    <2>6. Cardinality(T \ {Pick(T)}) = Cardinality(T) - 1
      BY <2>3, <2>5, FS_RemoveElement
    <2> QED
      BY <2>1, <2>2, <2>3, <2>4, <2>5, <2>6, SumPick
  <1> QED
    BY <1>1

-----------------------------------------------------------------------------
(* What the reservations add up to *)

\* The rows of the operations table, its charges and its windows, named as
\* constants so that the rows before and after a step can be compared.
Rows == [Operations -> OperationType \union {NoOperation}]

Live == {"RESERVED", "DISPATCHED", "COMMITTED", "QUARANTINED"}

ChargedIn(p, a) ==
    {o \in Operations : p[o].state \notin {"NONE", "RELEASED"} /\ p[o].approval = a}

SumIn(p, S) ==
    SumFunctionOnSet([o \in S |-> SignatureCount[p[o].binding]], S)

WindowIn(p, a, duration, t) ==
    {o \in ChargedIn(p, a) :
        /\ p[o].accepted > (IF t > duration THEN t - duration ELSE 0)
        /\ p[o].accepted <= t}

LimitsIn(p, c) ==
    \A a \in Approvals :
        /\ c[a].operations = Cardinality(ChargedIn(p, a))
        /\ c[a].signatures = SumIn(p, ChargedIn(p, a))
        /\ c[a].operations <= Terms[a].maxOperations
        /\ c[a].signatures <= Terms[a].maxSignatures

RatesIn(p) ==
    \A a \in Approvals, t \in 0 .. MaxTime :
        /\ \A v \in Terms[a].operationRates :
              Cardinality(WindowIn(p, a, v.duration, t)) <= v.maximum
        /\ \A v \in Terms[a].signatureRates :
              SumIn(p, WindowIn(p, a, v.duration, t)) <= v.maximum

\* The limits and the windows of a state, by its rows.
LEMMA LimitsNamed ==
    /\ LimitsInv <=> LimitsIn(operations, counters)
    /\ LimitsInv' <=> LimitsIn(operations', counters')
  BY DEF LimitsInv, CountersExact, LimitsIn, ChargedIn, Charged, SumIn,
         SignaturesOf, Signatures, SumFunction

\* Likewise for the rolling windows.
LEMMA RatesNamed ==
    /\ RateWindowsHold <=> RatesIn(operations)
    /\ RateWindowsHold' <=> RatesIn(operations')
  BY DEF RateWindowsHold, RatesIn, WindowIn, InRateWindow, ChargedIn, Charged,
         SumIn, SignaturesOf, Signatures, SumFunction

\* Charged rows are finitely many, each for a positive number of signatures.
LEMMA ChargesTyped ==
    ASSUME NEW p \in Rows, NEW a
    PROVE  /\ ChargedIn(p, a) \subseteq Operations
           /\ IsFiniteSet(ChargedIn(p, a))
           /\ Cardinality(ChargedIn(p, a)) \in Nat
           /\ \A o \in ChargedIn(p, a) :
                p[o] \in OperationType /\ SignatureCount[p[o].binding] \in Nat
  <1>1. IsFiniteSet(Operations)
    BY SigningAssumption
  <1>2. ChargedIn(p, a) \subseteq Operations
    BY DEF ChargedIn
  <1>3. IsFiniteSet(ChargedIn(p, a))
    BY <1>1, <1>2, FS_Subset
  <1>4. ASSUME NEW o \in ChargedIn(p, a)
        PROVE  p[o] \in OperationType /\ SignatureCount[p[o].binding] \in Nat
    <2>1. p[o] \in OperationType
      BY DEF ChargedIn, Rows, NoOperation
    <2>2. p[o].binding \in Bindings
      BY <2>1 DEF OperationType
    <2> QED
      BY <2>1, <2>2, SigningAssumption
  <1> QED
    BY <1>2, <1>3, <1>4, FS_CardinalityType

\* The signatures of a set of charged rows.
LEMMA SumInTyped ==
    ASSUME NEW p \in Rows, NEW a, NEW S, S \subseteq ChargedIn(p, a)
    PROVE  /\ IsFiniteSet(S)
           /\ Cardinality(S) \in Nat
           /\ SumIn(p, S) \in Nat
  <1>1. IsFiniteSet(S) /\ \A o \in S : SignatureCount[p[o].binding] \in Nat
    BY ChargesTyped, FS_Subset
  <1> DEFINE f == [o \in S |-> SignatureCount[p[o].binding]]
  <1>2. \A o \in S : f[o] \in Nat
    BY <1>1
  <1> HIDE DEF f
  <1>3. SumFunctionOnSet(f, S) \in Nat
    BY <1>1, <1>2, SumNat
  <1> QED
    BY <1>1, <1>3, FS_CardinalityType DEF SumIn, f

\* Taking one row out of a set of charged rows takes its signatures out.
LEMMA SumInRemove ==
    ASSUME NEW p \in Rows, NEW a, NEW S, S \subseteq ChargedIn(p, a), NEW o \in S
    PROVE  SumIn(p, S) = SignatureCount[p[o].binding] + SumIn(p, S \ {o})
  <1>1. IsFiniteSet(S) /\ \A x \in S : SignatureCount[p[x].binding] \in Nat
    BY ChargesTyped, FS_Subset
  <1> DEFINE f == [x \in S |-> SignatureCount[p[x].binding]]
             T == S \ {o}
             g == [x \in T |-> SignatureCount[p[x].binding]]
  <1>2. \A x \in S : f[x] \in Nat
    BY <1>1
  <1>3. IsFiniteSet(T) /\ \A x \in T : f[x] \in Nat /\ f[x] = g[x]
    BY <1>1, <1>2, FS_Subset
  <1>4. f[o] = SignatureCount[p[o].binding]
    OBVIOUS
  <1>5. SumIn(p, S) = SumFunctionOnSet(f, S) /\ SumIn(p, T) = SumFunctionOnSet(g, T)
    BY DEF SumIn
  <1>6. SumFunctionOnSet(f, S) = f[o] + SumFunctionOnSet(f, T)
    <2> HIDE DEF f
    <2> QED
      BY <1>1, <1>2, SumRemove
  <1>7. SumFunctionOnSet(f, T) = SumFunctionOnSet(g, T)
    <2> HIDE DEF f, g, T
    <2> QED
      BY <1>3, SumSame
  <1> QED
    BY <1>4, <1>5, <1>6, <1>7

\* Fewer rows have fewer signatures, if each is for the same content.
LEMMA SumInBelow ==
    ASSUME NEW p \in Rows, NEW q \in Rows, NEW a,
           NEW S, S \subseteq ChargedIn(q, a), NEW T, T \subseteq ChargedIn(p, a),
           S \subseteq T, \A o \in S : q[o].binding = p[o].binding
    PROVE  /\ Cardinality(S) <= Cardinality(T)
           /\ SumIn(q, S) <= SumIn(p, T)
  <1>1. /\ IsFiniteSet(S) /\ \A x \in S : SignatureCount[q[x].binding] \in Nat
        /\ IsFiniteSet(T) /\ \A x \in T : SignatureCount[p[x].binding] \in Nat
    BY ChargesTyped, FS_Subset
  <1> DEFINE f == [x \in S |-> SignatureCount[q[x].binding]]
             g == [x \in T |-> SignatureCount[p[x].binding]]
  <1>2. /\ \A x \in S : f[x] \in Nat
        /\ \A x \in T : g[x] \in Nat
        /\ \A x \in S : f[x] = 0 \/ (x \in T /\ f[x] <= g[x])
    BY <1>1
  <1>3. SumIn(q, S) = SumFunctionOnSet(f, S) /\ SumIn(p, T) = SumFunctionOnSet(g, T)
    BY DEF SumIn
  <1> HIDE DEF f, g
  <1>4. SumFunctionOnSet(f, S) <= SumFunctionOnSet(g, T)
    BY <1>1, <1>2, SumBelow
  <1> QED
    BY <1>1, <1>3, <1>4, FS_Subset

\* The same rows have the same signatures, if each is for the same content.
LEMMA SumInSame ==
    ASSUME NEW p \in Rows, NEW q \in Rows, NEW a,
           NEW S, S \subseteq ChargedIn(q, a), S \subseteq ChargedIn(p, a),
           \A o \in S : q[o].binding = p[o].binding
    PROVE  SumIn(q, S) = SumIn(p, S)
  <1>1. [x \in S |-> SignatureCount[q[x].binding]]
          = [x \in S |-> SignatureCount[p[x].binding]]
    OBVIOUS
  <1> QED
    BY <1>1 DEF SumIn

-----------------------------------------------------------------------------
(* The three ways a step changes the operation rows *)

\* No charge changes.
Kept(p, q) ==
    \A o \in Operations :
        \/ q[o] = p[o]
        \/ /\ p[o].state \in Live /\ q[o].state \in Live
           /\ q[o].approval = p[o].approval
           /\ q[o].binding = p[o].binding
           /\ q[o].accepted = p[o].accepted

\* One charge is new.
Reserves(p, q, o, row) ==
    /\ p[o] = NoOperation
    /\ row \in OperationType /\ row.state = "RESERVED"
    /\ q[o] = row
    /\ \A x \in Operations : x # o => q[x] = p[x]

\* One charge is gone.
Releases(p, q, o) ==
    /\ p[o].state \in Live
    /\ q[o].state = "RELEASED"
    /\ q[o].accepted = p[o].accepted
    /\ \A x \in Operations : x # o => q[x] = p[x]

\* Rows that keep their charges keep their windows,
LEMMA KeptCharges ==
    ASSUME NEW p \in Rows, NEW q \in Rows, Kept(p, q), NEW a
    PROVE  /\ ChargedIn(q, a) = ChargedIn(p, a)
           /\ \A o \in ChargedIn(p, a) : /\ q[o].binding = p[o].binding
                                         /\ q[o].accepted = p[o].accepted
           /\ \A d, t : WindowIn(q, a, d, t) = WindowIn(p, a, d, t)
  <1>1. ChargedIn(q, a) = ChargedIn(p, a)
    BY DEF Kept, ChargedIn, Live
  <1>2. \A o \in ChargedIn(p, a) : /\ q[o].binding = p[o].binding
                                   /\ q[o].accepted = p[o].accepted
    BY DEF Kept, ChargedIn, Live
  <1> QED
    BY <1>1, <1>2 DEF WindowIn

\* and therefore whatever the limits and the windows say.
LEMMA KeptLimits ==
    ASSUME NEW p \in Rows, NEW q \in Rows, Kept(p, q)
    PROVE  /\ \A c : LimitsIn(p, c) => LimitsIn(q, c)
           /\ RatesIn(p) => RatesIn(q)
  <1>1. ASSUME NEW a, NEW S, S \subseteq ChargedIn(p, a)
        PROVE  SumIn(q, S) = SumIn(p, S)
    BY <1>1, KeptCharges, SumInSame
  <1>2. ASSUME NEW a
        PROVE  SumIn(q, ChargedIn(q, a)) = SumIn(p, ChargedIn(p, a))
    BY <1>1, KeptCharges
  <1>3. ASSUME NEW a, NEW d, NEW t
        PROVE  /\ WindowIn(q, a, d, t) = WindowIn(p, a, d, t)
               /\ SumIn(q, WindowIn(q, a, d, t)) = SumIn(p, WindowIn(p, a, d, t))
    <2>1. WindowIn(p, a, d, t) \subseteq ChargedIn(p, a)
      BY DEF WindowIn
    <2> QED
      BY <1>1, <2>1, KeptCharges
  <1>4. ASSUME NEW c, LimitsIn(p, c)
        PROVE  LimitsIn(q, c)
    BY <1>2, <1>4, KeptCharges DEF LimitsIn
  <1>5. ASSUME RatesIn(p)
        PROVE  RatesIn(q)
    BY <1>3, <1>5 DEF RatesIn
  <1> QED
    BY <1>4, <1>5

\* A reservation is one charge more for its own approval,
LEMMA ReservedCharges ==
    ASSUME NEW p \in Rows, NEW q \in Rows, NEW o \in Operations,
           NEW row, Reserves(p, q, o, row), NEW a
    PROVE  /\ o \notin ChargedIn(p, a)
           /\ ChargedIn(q, a) = IF a = row.approval THEN ChargedIn(p, a) \union {o}
                                ELSE ChargedIn(p, a)
           /\ \A x \in ChargedIn(p, a) : q[x] = p[x]
  BY DEF Reserves, ChargedIn, NoOperation

\* which authorize_sign counts after it has compared with the terms.
LEMMA ReservedLimits ==
    ASSUME NEW p \in Rows, NEW q \in Rows, NEW o \in Operations,
           NEW row, Reserves(p, q, o, row), NEW c, LimitsIn(p, c),
           c[row.approval].operations + 1 <= Terms[row.approval].maxOperations,
           c[row.approval].signatures + SignatureCount[row.binding]
             <= Terms[row.approval].maxSignatures,
           c \in [Approvals -> [operations : Nat, signatures : Nat]]
    PROVE  LimitsIn(q, [c EXCEPT ![row.approval] =
              [operations |-> @.operations + 1,
               signatures |-> @.signatures + SignatureCount[row.binding]]])
  <1> DEFINE b == row.approval
             n == SignatureCount[row.binding]
             C == ChargedIn(p, b)
  <1>1. b \in Approvals /\ row.binding \in Bindings
    BY DEF Reserves, OperationType
  <1>2. n \in Nat
    BY <1>1, SigningAssumption
  <1>3. /\ o \notin C /\ ChargedIn(q, b) = C \union {o}
        /\ \A x \in C : q[x] = p[x]
    BY ReservedCharges
  <1>4. IsFiniteSet(C) /\ Cardinality(C) \in Nat
    BY ChargesTyped
  <1>5. Cardinality(ChargedIn(q, b)) = Cardinality(C) + 1
    BY <1>3, <1>4, FS_AddElement
  <1>6. SumIn(q, ChargedIn(q, b)) = n + SumIn(p, C)
    <2>1. q[o].binding = row.binding
      BY DEF Reserves
    <2>2. ChargedIn(q, b) \ {o} = C /\ o \in ChargedIn(q, b)
      BY <1>3
    <2>3. C \subseteq ChargedIn(q, b) /\ \A x \in C : q[x].binding = p[x].binding
      BY <1>3
    <2>4. SumIn(q, C) = SumIn(p, C)
      BY <2>3, SumInSame
    <2> HIDE DEF C
    <2>5. SumIn(q, ChargedIn(q, b)) = n + SumIn(q, C)
      BY <2>1, <2>2, SumInRemove
    <2> QED
      BY <2>4, <2>5
  <1>7. SumIn(p, C) \in Nat
    BY SumInTyped
  <1>8. ASSUME NEW a \in Approvals, a # b
        PROVE  /\ ChargedIn(q, a) = ChargedIn(p, a)
               /\ SumIn(q, ChargedIn(q, a)) = SumIn(p, ChargedIn(p, a))
    BY <1>8, ReservedCharges, SumInSame
  <1>9. /\ c[b].operations = Cardinality(C) /\ c[b].signatures = SumIn(p, C)
    BY <1>1 DEF LimitsIn
  <1> HIDE DEF C, n, b
  <1>10. LimitsIn(q, [c EXCEPT ![b] = [operations |-> @.operations + 1,
                                       signatures |-> @.signatures + n]])
    <2> DEFINE e == [c EXCEPT ![b] = [operations |-> @.operations + 1,
                                      signatures |-> @.signatures + n]]
    <2>1. /\ e[b].operations = c[b].operations + 1
          /\ e[b].signatures = c[b].signatures + n
          /\ \A a \in Approvals : a # b => e[a] = c[a]
      BY <1>1
    <2>2. /\ c[b].operations + 1 <= Terms[b].maxOperations
          /\ c[b].signatures + n <= Terms[b].maxSignatures
      BY DEF b, n
    <2> HIDE DEF e
    <2>3. ASSUME NEW a \in Approvals, a # b
          PROVE  /\ e[a].operations = Cardinality(ChargedIn(q, a))
                 /\ e[a].signatures = SumIn(q, ChargedIn(q, a))
                 /\ e[a].operations <= Terms[a].maxOperations
                 /\ e[a].signatures <= Terms[a].maxSignatures
      BY <1>8, <2>1, <2>3 DEF LimitsIn
    <2>4. /\ e[b].operations = Cardinality(ChargedIn(q, b))
          /\ e[b].signatures = SumIn(q, ChargedIn(q, b))
          /\ e[b].operations <= Terms[b].maxOperations
          /\ e[b].signatures <= Terms[b].maxSignatures
      BY <1>2, <1>5, <1>6, <1>7, <1>9, <2>1, <2>2
    <2>5. LimitsIn(q, e)
      BY <2>3, <2>4 DEF LimitsIn
    <2> QED
      BY <2>5 DEF e
  <1> QED
    BY <1>10 DEF b, n

\* A release is one charge less for its approval,
LEMMA ReleasedCharges ==
    ASSUME NEW p \in Rows, NEW q \in Rows, NEW o \in Operations,
           Releases(p, q, o), NEW a
    PROVE  /\ ChargedIn(q, a) = ChargedIn(p, a) \ {o}
           /\ o \in ChargedIn(p, a) <=> a = p[o].approval
           /\ \A x \in ChargedIn(q, a) : q[x] = p[x]
  BY DEF Releases, ChargedIn, Live

\* which finalize_operation refunds.
LEMMA ReleasedLimits ==
    ASSUME NEW p \in Rows, NEW q \in Rows, NEW o \in Operations,
           Releases(p, q, o), NEW c, LimitsIn(p, c),
           c \in [Approvals -> [operations : Nat, signatures : Nat]]
    PROVE  LimitsIn(q, [c EXCEPT ![p[o].approval] =
                          Refund(@, SignatureCount[p[o].binding])])
  <1> DEFINE b == p[o].approval
             n == SignatureCount[p[o].binding]
             C == ChargedIn(p, b)
             e == [c EXCEPT ![b] = Refund(@, n)]
  <1>1. p[o] \in OperationType
    BY DEF Releases, Rows, NoOperation, Live
  <1>2. b \in Approvals /\ n \in Nat
    <2>1. b \in Approvals /\ p[o].binding \in Bindings
      BY <1>1 DEF OperationType
    <2> QED
      BY <2>1, SigningAssumption
  <1>3. /\ o \in C /\ ChargedIn(q, b) = C \ {o}
        /\ \A x \in ChargedIn(q, b) : q[x] = p[x]
    BY ReleasedCharges
  <1>4. IsFiniteSet(C) /\ Cardinality(C) \in Nat
    BY ChargesTyped
  <1>5. Cardinality(ChargedIn(q, b)) = Cardinality(C) - 1
    <2> HIDE DEF C
    <2>1. Cardinality(C \ {o}) = Cardinality(C) - 1
      BY <1>3, <1>4, FS_RemoveElement
    <2> QED
      BY <1>3, <2>1
  <1>6. SumIn(p, C) = n + SumIn(q, ChargedIn(q, b))
    <2>1. SumIn(p, C) = n + SumIn(p, C \ {o})
      BY <1>3, SumInRemove
    <2>2. SumIn(q, ChargedIn(q, b)) = SumIn(p, ChargedIn(q, b))
      BY <1>3, SumInSame
    <2> QED
      BY <1>3, <2>1, <2>2
  <1>7. SumIn(q, ChargedIn(q, b)) \in Nat
    BY SumInTyped
  <1>8. ASSUME NEW a \in Approvals, a # b
        PROVE  /\ ChargedIn(q, a) = ChargedIn(p, a)
               /\ SumIn(q, ChargedIn(q, a)) = SumIn(p, ChargedIn(p, a))
    <2>1. ChargedIn(q, a) = ChargedIn(p, a) /\ \A x \in ChargedIn(q, a) : q[x] = p[x]
      BY <1>8, ReleasedCharges, SMTT(20)
    <2> QED
      BY <2>1, SumInSame
  <1>9. /\ c[b].operations = Cardinality(C) /\ c[b].signatures = SumIn(p, C)
        /\ c[b].operations <= Terms[b].maxOperations
        /\ c[b].signatures <= Terms[b].maxSignatures
        /\ {Terms[b].maxOperations, Terms[b].maxSignatures} \subseteq Nat
    BY <1>2, SigningAssumption DEF LimitsIn
  <1>10. /\ e[b].operations = c[b].operations - 1
         /\ e[b].signatures = c[b].signatures - n
         /\ \A a \in Approvals : a # b => e[a] = c[a]
    BY <1>2 DEF Refund
  <1> HIDE DEF C, n, b, e
  <1>11. ASSUME NEW a \in Approvals, a # b
         PROVE  /\ e[a].operations = Cardinality(ChargedIn(q, a))
                /\ e[a].signatures = SumIn(q, ChargedIn(q, a))
                /\ e[a].operations <= Terms[a].maxOperations
                /\ e[a].signatures <= Terms[a].maxSignatures
    BY <1>8, <1>10, <1>11 DEF LimitsIn
  <1>12. /\ e[b].operations = Cardinality(ChargedIn(q, b))
         /\ e[b].signatures = SumIn(q, ChargedIn(q, b))
         /\ e[b].operations <= Terms[b].maxOperations
         /\ e[b].signatures <= Terms[b].maxSignatures
    BY <1>2, <1>4, <1>5, <1>6, <1>7, <1>9, <1>10
  <1>13. LimitsIn(q, e)
    BY <1>11, <1>12 DEF LimitsIn
  <1> QED
    BY <1>13 DEF e, b, n

\* A refund leaves every window with less in it.
LEMMA ReleasedRates ==
    ASSUME NEW p \in Rows, NEW q \in Rows, NEW o \in Operations,
           Releases(p, q, o), RatesIn(p)
    PROVE  RatesIn(q)
  <1>1. ASSUME NEW a \in Approvals, NEW d, NEW t
        PROVE  /\ WindowIn(q, a, d, t) \subseteq WindowIn(p, a, d, t)
               /\ WindowIn(q, a, d, t) \subseteq ChargedIn(q, a)
               /\ WindowIn(p, a, d, t) \subseteq ChargedIn(p, a)
               /\ \A x \in WindowIn(q, a, d, t) : q[x].binding = p[x].binding
    BY ReleasedCharges DEF WindowIn
  <1>2. ASSUME NEW a \in Approvals, NEW d, NEW t
        PROVE  /\ Cardinality(WindowIn(q, a, d, t))
                    <= Cardinality(WindowIn(p, a, d, t))
               /\ SumIn(q, WindowIn(q, a, d, t)) <= SumIn(p, WindowIn(p, a, d, t))
               /\ Cardinality(WindowIn(q, a, d, t)) \in Nat
               /\ Cardinality(WindowIn(p, a, d, t)) \in Nat
               /\ SumIn(q, WindowIn(q, a, d, t)) \in Nat
               /\ SumIn(p, WindowIn(p, a, d, t)) \in Nat
    BY <1>1, SumInBelow, SumInTyped
  <1>3. \A a \in Approvals :
            \A v \in Terms[a].operationRates \union Terms[a].signatureRates :
              v.maximum \in Nat
    BY SigningAssumption
  <1> QED
    BY <1>2, <1>3 DEF RatesIn

\* A reservation that is the latest of its approval's rows, and within the
\* windows that end at its own time, is within every window.
LEMMA ReservedRates ==
    ASSUME NEW p \in Rows, NEW q \in Rows, NEW o \in Operations,
           NEW row, Reserves(p, q, o, row), RatesIn(p),
           \A x \in ChargedIn(p, row.approval) : p[x].accepted <= row.accepted,
           \A v \in Terms[row.approval].operationRates :
              Cardinality(WindowIn(p, row.approval, v.duration, row.accepted)) + 1
                <= v.maximum,
           \A v \in Terms[row.approval].signatureRates :
              SumIn(p, WindowIn(p, row.approval, v.duration, row.accepted))
                + SignatureCount[row.binding] <= v.maximum
    PROVE  RatesIn(q)
  <1> DEFINE b == row.approval
             n == SignatureCount[row.binding]
             now == row.accepted
  <1>1. b \in Approvals /\ n \in Nat /\ now \in Nat /\ row.binding \in Bindings
    <2>1. b \in Approvals /\ row.binding \in Bindings /\ now \in 0 .. MaxTime
      BY DEF Reserves, OperationType
    <2> QED
      BY <2>1, SigningAssumption, MaxTimeAssumption
  <1>2. \A a \in Approvals :
            \A v \in Terms[a].operationRates \union Terms[a].signatureRates :
              v.maximum \in Nat /\ v.duration \in Nat
    BY SigningAssumption
  <1>3. ASSUME NEW a \in Approvals, NEW d, NEW t, o \notin WindowIn(q, a, d, t)
        PROVE  /\ WindowIn(q, a, d, t) = WindowIn(p, a, d, t)
               /\ SumIn(q, WindowIn(q, a, d, t)) = SumIn(p, WindowIn(p, a, d, t))
    <2>1. /\ WindowIn(q, a, d, t) = WindowIn(p, a, d, t)
          /\ WindowIn(q, a, d, t) \subseteq ChargedIn(q, a)
          /\ WindowIn(p, a, d, t) \subseteq ChargedIn(p, a)
          /\ \A x \in WindowIn(q, a, d, t) : q[x].binding = p[x].binding
      BY <1>3, ReservedCharges DEF WindowIn
    <2> QED
      BY <2>1, SumInSame
  <1>4. ASSUME NEW a \in Approvals, NEW d \in Nat, NEW t \in 0 .. MaxTime,
               o \in WindowIn(q, a, d, t)
        PROVE  /\ a = b
               /\ Cardinality(WindowIn(q, a, d, t))
                    <= Cardinality(WindowIn(p, b, d, now)) + 1
               /\ SumIn(q, WindowIn(q, a, d, t))
                    <= SumIn(p, WindowIn(p, b, d, now)) + n
               /\ Cardinality(WindowIn(q, a, d, t)) \in Nat
               /\ Cardinality(WindowIn(p, b, d, now)) \in Nat
               /\ SumIn(q, WindowIn(q, a, d, t)) \in Nat
               /\ SumIn(p, WindowIn(p, b, d, now)) \in Nat
    <2> DEFINE W == WindowIn(q, a, d, t)
               V == WindowIn(p, b, d, now)
    <2>1. a = b
      BY <1>4, ReservedCharges DEF WindowIn
    <2>2. q[o].accepted = now /\ q[o].binding = row.binding /\ t \in Nat
      BY MaxTimeAssumption DEF Reserves
    <2>3. now > (IF t > d THEN t - d ELSE 0) /\ now <= t
      BY <1>4, <2>2 DEF WindowIn
    <2>4. W \ {o} \subseteq V
      <3> SUFFICES ASSUME NEW x \in W, x # o
                   PROVE  x \in V
        OBVIOUS
      <3>1. x \in ChargedIn(p, b) /\ q[x] = p[x]
        BY <2>1, ReservedCharges DEF WindowIn
      <3>2. p[x].accepted \in Nat
        <4>1. p[x] \in OperationType
          BY <3>1, ChargesTyped
        <4> QED
          BY <4>1, MaxTimeAssumption DEF OperationType
      <3>3. p[x].accepted > (IF t > d THEN t - d ELSE 0)
        BY <3>1 DEF WindowIn
      <3>4. p[x].accepted > (IF now > d THEN now - d ELSE 0)
        BY <1>1, <2>2, <2>3, <3>2, <3>3
      <3>5. p[x].accepted <= now
        BY <3>1
      <3> QED
        BY <3>1, <3>4, <3>5 DEF WindowIn
    <2>5. W \subseteq ChargedIn(q, a) /\ V \subseteq ChargedIn(p, a) /\ o \in W
      BY <1>4, <2>1 DEF WindowIn
    <2>6. \A x \in W \ {o} : q[x].binding = p[x].binding
      BY <2>1, <2>4, ReservedCharges DEF WindowIn
    <2> HIDE DEF W, V
    <2>7. /\ IsFiniteSet(W) /\ Cardinality(W) \in Nat /\ SumIn(q, W) \in Nat
          /\ IsFiniteSet(V) /\ Cardinality(V) \in Nat /\ SumIn(p, V) \in Nat
          /\ SumIn(q, W \ {o}) \in Nat
      <3>1. W \ {o} \subseteq ChargedIn(q, a)
        BY <2>5
      <3> QED
        BY <2>5, <3>1, SumInTyped
    <2>8. SumIn(q, W) = n + SumIn(q, W \ {o})
      BY <2>2, <2>5, SumInRemove
    <2>9. /\ Cardinality(W \ {o}) <= Cardinality(V)
          /\ SumIn(q, W \ {o}) <= SumIn(p, V)
      <3>1. W \ {o} \subseteq ChargedIn(q, a)
        BY <2>5
      <3> QED
        BY <2>4, <2>5, <2>6, <3>1, SumInBelow
    <2>10. Cardinality(W \ {o}) = Cardinality(W) - 1
      BY <2>5, <2>7, FS_RemoveElement
    <2>11. /\ Cardinality(W) <= Cardinality(V) + 1
           /\ SumIn(q, W) <= SumIn(p, V) + n
      BY <1>1, <2>7, <2>8, <2>9, <2>10
    <2> QED
      BY <2>1, <2>7, <2>11 DEF W, V
  <1>5. ASSUME NEW a \in Approvals, NEW t \in 0 .. MaxTime,
               NEW v \in Terms[a].operationRates
        PROVE  Cardinality(WindowIn(q, a, v.duration, t)) <= v.maximum
    <2>1. v.maximum \in Nat /\ v.duration \in Nat
      BY <1>2
    <2>2. CASE o \notin WindowIn(q, a, v.duration, t)
      BY <1>3, <2>2 DEF RatesIn
    <2>3. CASE o \in WindowIn(q, a, v.duration, t)
      BY <1>4, <2>1, <2>3
    <2> QED
      BY <2>2, <2>3
  <1>6. ASSUME NEW a \in Approvals, NEW t \in 0 .. MaxTime,
               NEW v \in Terms[a].signatureRates
        PROVE  SumIn(q, WindowIn(q, a, v.duration, t)) <= v.maximum
    <2>1. v.maximum \in Nat /\ v.duration \in Nat
      BY <1>2
    <2>2. CASE o \notin WindowIn(q, a, v.duration, t)
      BY <1>3, <2>2 DEF RatesIn
    <2>3. CASE o \in WindowIn(q, a, v.duration, t)
      BY <1>1, <1>4, <2>1, <2>3
    <2> QED
      BY <2>2, <2>3
  <1> QED
    BY <1>5, <1>6 DEF RatesIn

-----------------------------------------------------------------------------
(* Every step is one of the three *)

\* What a reservation does, with the task's request and time named.
LEMMA ReserveStep ==
    ASSUME TypeOK, NEW w \in Workers, ReserveOperation(w)
    PROVE  \E o \in Operations, row \in OperationType :
              /\ Reserves(operations, operations', o, row)
              /\ row.accepted = tasks[w].now
              /\ row.approval = tasks[w].request.approval
              /\ row.binding = tasks[w].request.binding
  <1>1. tasks[w].pc = "observed"
    BY DEF ReserveOperation
  <1>2. tasks[w].request \in Requests /\ tasks[w].now \in 0 .. MaxTime
    BY <1>1, TaskShape DEF RunningPc
  <1> DEFINE r == tasks[w].request
             row == [state |-> "RESERVED", approval |-> r.approval,
                     binding |-> r.binding, accepted |-> tasks[w].now]
  <1>3. r.operation \in Operations /\ row \in OperationType
    BY <1>2 DEF Requests, OperationType, OperationStates
  <1>4. Reserves(operations, operations', r.operation, row)
    BY <1>3 DEF ReserveOperation, Reserves, TypeOK
  <1> QED
    BY <1>3, <1>4

\* Nothing but the state of one live row changes.
LEMMA LiveStep ==
    ASSUME TypeOK, NEW o \in Operations, NEW state \in Live,
           SetState(o, state), operations[o].state \in Live
    PROVE  Kept(operations, operations')
  BY SetStateEffect DEF Kept, Live

\* A step reserves, releases, or leaves every charge and counter as it is.
LEMMA RowsStep ==
    ASSUME TypeOK, SigningInv, [Next]_vars,
           \A w \in Workers : ~ReserveOperation(w) /\ ~FinalizeReleased(w)
    PROVE  Kept(operations, operations') /\ counters' = counters
  <1>1. ASSUME NEW w \in Workers, MarkDispatched(w)
        PROVE  Kept(operations, operations') /\ counters' = counters
    <2>1. tasks[w].pc = "authorized" /\ counters' = counters
      BY <1>1 DEF MarkDispatched
    <2> PICK o \in Operations : o = tasks[w].request.operation
      BY <2>1, TaskShape DEF RunningPc, Requests
    <2>2. operations[o].state = "RESERVED" /\ SetState(o, "DISPATCHED")
      BY <1>1, <2>1 DEF MarkDispatched, StateAtDispatch, SigningInv, TaskSound
    <2> QED
      BY <2>1, <2>2, LiveStep DEF Live
  <1>2. ASSUME NEW w \in Workers, FinalizeQuarantined(w) \/ CommitResult(w)
        PROVE  Kept(operations, operations') /\ counters' = counters
    <2>1. tasks[w].pc \in {"quarantining", "committing"} /\ counters' = counters
      BY <1>2 DEF FinalizeQuarantined, CommitResult
    <2> PICK o \in Operations : o = tasks[w].request.operation
      BY <2>1, TaskShape DEF RunningPc, Requests
    <2>2. /\ operations[o].state \in Live
          /\ SetState(o, "QUARANTINED") \/ SetState(o, "COMMITTED")
      BY <1>2 DEF FinalizeQuarantined, CommitResult, Live
    <2> QED
      BY <2>1, <2>2, LiveStep DEF Live
  <1>3. ASSUME UNCHANGED <<operations, counters>>
        PROVE  Kept(operations, operations') /\ counters' = counters
    BY <1>3 DEF Kept
  <1>4. CASE \E w \in Workers : MarkDispatched(w) \/ FinalizeQuarantined(w) \/ CommitResult(w)
    BY <1>1, <1>2, <1>4
  <1>5. CASE ~ \E w \in Workers : MarkDispatched(w) \/ FinalizeQuarantined(w) \/ CommitResult(w)
    <2>1. ASSUME NEW w \in Workers, TaskStep(w)
          PROVE  UNCHANGED <<operations, counters>>
      <3>1. \/ AcquireGate(w) \/ RefuseSign(w) \/ RetryOperation(w)
            \/ ReturnStoredResult(w) \/ BackendSign(w) \/ EngineFailure(w)
            \/ Reply(w)
        BY <1>5, <2>1 DEF TaskStep
      <3>2. CASE AcquireGate(w)
        BY <3>2 DEF AcquireGate, durableVars
      <3>3. CASE RefuseSign(w) \/ ReturnStoredResult(w) \/ EngineFailure(w) \/ Reply(w)
        BY <3>3 DEF RefuseSign, ReturnStoredResult, EngineFailure, Reply, durableVars
      <3>4. CASE RetryOperation(w)
        BY <3>4 DEF RetryOperation
      <3>5. CASE BackendSign(w)
        BY <3>5 DEF BackendSign, durableVars
      <3> QED
        BY <3>1, <3>2, <3>3, <3>4, <3>5
    <2>2. ASSUME NEW w \in Workers, NEW r \in Requests, Receive(w, r)
          PROVE  UNCHANGED <<operations, counters>>
      BY <2>2 DEF Receive, durableVars
    <2>3. ASSUME \/ AdvanceTime \/ ChangeAuthority \/ ChangeAvailability
                 \/ Crash \/ UNCHANGED vars
          PROVE  UNCHANGED <<operations, counters>>
      BY <2>3 DEF AdvanceTime, ChangeAuthority, ChangeAvailability, Crash,
                  durableVars, vars
    <2>4. UNCHANGED <<operations, counters>>
      BY <2>1, <2>2, <2>3 DEF Next
    <2> QED
      BY <1>3, <2>4
  <1> QED
    BY <1>4, <1>5

\* The rows of a typed state, before and after a step.
LEMMA RowsTyped ==
    ASSUME TypeOK, TypeOK'
    PROVE  /\ operations \in Rows /\ operations' \in Rows
           /\ counters \in [Approvals -> [operations : Nat, signatures : Nat]]
  BY DEF TypeOK, Rows

\* Every step keeps the counters exact and within the terms.
LEMMA LimitsStep ==
    ASSUME TypeOK, TypeOK', SigningInv, LimitsInv, [Next]_vars
    PROVE  LimitsInv'
  <1>1. LimitsIn(operations, counters)
    BY LimitsNamed
  <1>2. ASSUME NEW w \in Workers, ReserveOperation(w)
        PROVE  LimitsIn(operations', counters')
    <2> PICK o \in Operations, row \in OperationType :
              /\ Reserves(operations, operations', o, row)
              /\ row.accepted = tasks[w].now
              /\ row.approval = tasks[w].request.approval
              /\ row.binding = tasks[w].request.binding
      BY <1>2, ReserveStep
    <2>1. /\ counters[row.approval].operations + 1 <= Terms[row.approval].maxOperations
          /\ counters[row.approval].signatures + SignatureCount[row.binding]
               <= Terms[row.approval].maxSignatures
      BY <1>2 DEF ReserveOperation, WithinLimits
    <2>2. counters' = [counters EXCEPT ![row.approval] =
              [operations |-> @.operations + 1,
               signatures |-> @.signatures + SignatureCount[row.binding]]]
      BY <1>2 DEF ReserveOperation
    <2> QED
      BY <1>1, <2>1, <2>2, RowsTyped, ReservedLimits
  <1>3. ASSUME NEW w \in Workers, FinalizeReleased(w)
        PROVE  LimitsIn(operations', counters')
    <2>1. tasks[w].pc = "releasing"
      BY <1>3 DEF FinalizeReleased
    <2> PICK o \in Operations : o = tasks[w].request.operation
      BY <2>1, TaskShape DEF RunningPc, Requests
    <2>2. /\ operations[o].state \in {"RESERVED", "DISPATCHED"}
          /\ SetState(o, "RELEASED")
          /\ counters' = [counters EXCEPT ![operations[o].approval] =
                            Refund(@, SignatureCount[operations[o].binding])]
      BY <1>3 DEF FinalizeReleased, Signatures
    <2>3. Releases(operations, operations', o)
      BY <2>2, SetStateEffect DEF Releases, Live
    <2> QED
      BY <1>1, <2>2, <2>3, RowsTyped, ReleasedLimits
  <1>4. CASE \A w \in Workers : ~ReserveOperation(w) /\ ~FinalizeReleased(w)
    <2>1. Kept(operations, operations') /\ counters' = counters
      BY <1>4, RowsStep
    <2>2. LimitsIn(operations', counters)
      BY <1>1, <2>1, RowsTyped, KeptLimits
    <2> QED
      BY <2>1, <2>2, LimitsNamed
  <1> QED
    BY <1>2, <1>3, <1>4, LimitsNamed

\* The effective time never goes back.
LEMMA ClockStep ==
    ASSUME TypeOK, TypeOK', [Next]_vars
    PROVE  effective \in Nat /\ effective' \in Nat /\ effective <= effective'
  <1>1. effective \in Nat /\ effective' \in Nat
    BY MaxTimeAssumption DEF TypeOK, TimeTypeOK
  <1>2. ASSUME ObserveTime \/ RepairTime \/ UNCHANGED timeVars
        PROVE  effective <= effective'
    BY <1>1, <1>2, MaxTimeAssumption DEF ObserveTime, RepairTime, timeVars
  <1>3. ASSUME NEW w \in Workers, TaskStep(w)
        PROVE  ObserveTime \/ UNCHANGED timeVars
    <2>1. CASE AcquireGate(w)
      BY <2>1 DEF AcquireGate
    <2>2. CASE RefuseSign(w)
      BY <2>2 DEF RefuseSign
    <2>3. CASE ReserveOperation(w)
      BY <2>3 DEF ReserveOperation
    <2>4. CASE RetryOperation(w)
      BY <2>4 DEF RetryOperation
    <2>5. CASE ReturnStoredResult(w)
      BY <2>5 DEF ReturnStoredResult
    <2>6. CASE MarkDispatched(w)
      BY <2>6 DEF MarkDispatched
    <2>7. CASE BackendSign(w)
      BY <2>7 DEF BackendSign
    <2>8. CASE FinalizeReleased(w)
      BY <2>8 DEF FinalizeReleased
    <2>9. CASE FinalizeQuarantined(w)
      BY <2>9 DEF FinalizeQuarantined
    <2>10. CASE CommitResult(w)
      BY <2>10 DEF CommitResult
    <2>11. CASE EngineFailure(w)
      BY <2>11 DEF EngineFailure
    <2>12. CASE Reply(w)
      BY <2>12 DEF Reply
    <2> QED
      BY <1>3, <2>1, <2>2, <2>3, <2>4, <2>5, <2>6, <2>7, <2>8, <2>9, <2>10,
         <2>11, <2>12
      DEF TaskStep
  <1>4. ASSUME NEW w \in Workers, NEW r \in Requests, Receive(w, r)
        PROVE  ObserveTime
    BY <1>4 DEF Receive
  <1>5. ASSUME \/ AdvanceTime \/ ChangeAuthority \/ ChangeAvailability
               \/ Crash \/ UNCHANGED vars
        PROVE  ObserveTime \/ RepairTime \/ UNCHANGED timeVars
    BY <1>5 DEF AdvanceTime, TimeNext, ChangeAuthority, ChangeAvailability,
                Crash, vars
  <1> QED
    BY <1>1, <1>2, <1>3, <1>4, <1>5 DEF Next

\* A task is observed because it was, or because it has just read the clock.
LEMMA ObservedStep ==
    ASSUME TypeOK, [Next]_vars, NEW v \in Workers, tasks'[v].pc = "observed"
    PROVE  tasks'[v] = tasks[v] \/ tasks'[v].now = effective'
  <1>1. ASSUME NEW w \in Workers, NEW code, ReplyWith(w, code)
        PROVE  tasks'[v] = tasks[v]
    <2>1. /\ tasks'[w].pc = "reply"
          /\ \A u \in Workers : u # w => tasks'[u] = tasks[u]
      <3>1. /\ tasks'[w] = [pc |-> "reply", request |-> tasks[w].request, code |-> code]
            /\ \A u \in Workers : u # w => tasks'[u] = tasks[u]
        BY <1>1, ReplyEffect
      <3> QED
        BY <3>1
    <2> QED
      BY <2>1
  <1>2. ASSUME NEW w \in Workers, tasks[w].pc \in RunningPc,
               NEW pc \in RunningPc \ {"observed"}, Goto(w, pc)
        PROVE  tasks'[v] = tasks[v]
    BY <1>2, GotoEffect
  <1>3. ASSUME NEW w \in Workers, AcquireGate(w)
        PROVE  tasks'[v] = tasks[v] \/ tasks'[v].now = effective'
    <2>1. CASE \E code : ReplyWith(w, code)
      BY <1>1, <2>1
    <2>2. CASE tasks' = [tasks EXCEPT ![w].pc = "observed", ![w].now = effective']
      <3>1. tasks[w] \in [pc : RunningPc, request : Requests,
                          now : 0 .. MaxTime, signed : Nat]
        BY <1>3, TaskShape DEF AcquireGate, RunningPc
      <3> QED
        BY <2>2, <3>1 DEF TypeOK
    <2> QED
      BY <1>3, <2>1, <2>2 DEF AcquireGate
  <1>4. ASSUME NEW w \in Workers,
               \/ RefuseSign(w) \/ ReturnStoredResult(w) \/ EngineFailure(w)
               \/ FinalizeReleased(w) \/ FinalizeQuarantined(w) \/ CommitResult(w)
        PROVE  tasks'[v] = tasks[v]
    <2>1. \E code : ReplyWith(w, code)
      BY <1>4 DEF RefuseSign, ReturnStoredResult, EngineFailure,
                  FinalizeReleased, FinalizeQuarantined, CommitResult
    <2> QED
      BY <1>1, <2>1
  <1>5. ASSUME NEW w \in Workers, ReserveOperation(w) \/ RetryOperation(w)
        PROVE  tasks'[v] = tasks[v]
    BY <1>2, <1>5 DEF ReserveOperation, RetryOperation, RunningPc
  <1>6. ASSUME NEW w \in Workers, MarkDispatched(w)
        PROVE  tasks'[v] = tasks[v]
    BY <1>1, <1>2, <1>6 DEF MarkDispatched, RunningPc
  <1>7. ASSUME NEW w \in Workers, BackendSign(w)
        PROVE  tasks'[v] = tasks[v]
    <2>1. tasks[w].pc = "dispatched"
      BY <1>7 DEF BackendSign
    <2>2. CASE \E pc \in {"quarantining", "releasing"} : Goto(w, pc)
      BY <1>2, <2>1, <2>2 DEF RunningPc
    <2>3. CASE \E n, pc : /\ pc # "observed"
                          /\ tasks' = [tasks EXCEPT ![w].signed = n, ![w].pc = pc]
      <3>1. tasks[w] \in [pc : RunningPc, request : Requests,
                          now : 0 .. MaxTime, signed : Nat]
        BY <2>1, TaskShape DEF RunningPc
      <3> PICK n, pc : /\ pc # "observed"
                       /\ tasks' = [tasks EXCEPT ![w].signed = n, ![w].pc = pc]
        BY <2>3
      <3>2. /\ tasks'[w].pc = pc
            /\ \A u \in Workers : u # w => tasks'[u] = tasks[u]
        BY <3>1 DEF TypeOK
      <3> QED
        BY <3>2
    <2> QED
      <3>1. \/ tasks' = [tasks EXCEPT
                 ![w].signed = tasks[w].signed + 1,
                 ![w].pc = IF tasks[w].signed + 1 = SignatureCount[tasks[w].request.binding]
                           THEN "committing" ELSE "dispatched"]
            \/ Goto(w, "quarantining") \/ Goto(w, "releasing")
        BY <1>7 DEF BackendSign, IndeterminateEffect, RefusalEffect
      <3> QED
        BY <2>2, <2>3, <3>1
  <1>8. ASSUME NEW w \in Workers, Reply(w)
        PROVE  tasks'[v] = tasks[v]
    BY <1>8 DEF Reply, Idle, TypeOK
  <1>9. ASSUME NEW w \in Workers, NEW r \in Requests, Receive(w, r)
        PROVE  tasks'[v] = tasks[v]
    BY <1>9 DEF Receive, TypeOK
  <1>10. ASSUME Crash
         PROVE  FALSE
    BY <1>10 DEF Crash, Idle
  <1>11. ASSUME \/ AdvanceTime \/ ChangeAuthority \/ ChangeAvailability
                \/ UNCHANGED vars
         PROVE  tasks'[v] = tasks[v]
    BY <1>11 DEF AdvanceTime, ChangeAuthority, ChangeAvailability, vars
  <1> QED
    BY <1>3, <1>4, <1>5, <1>6, <1>7, <1>8, <1>9, <1>10, <1>11 DEF Next, TaskStep

\* A row there is after a step was there before, accepted at the same time,
\* unless the step reserved it.
LEMMA AcceptedStep ==
    ASSUME NEW p, NEW q, NEW o \in Operations,
           Kept(p, q) \/ \E x \in Operations : Releases(p, q, x),
           q[o].state # "NONE"
    PROVE  p[o].state # "NONE" /\ q[o].accepted = p[o].accepted
  BY DEF Kept, Releases, Live

\* Every step keeps the windows: a task past the gate was observed after every
\* reservation there is, so its own is the latest.
LEMMA RatesStep ==
    ASSUME TypeOK, TypeOK', SigningInv, RatesInv, [Next]_vars
    PROVE  RatesInv'
  <1>1. RatesIn(operations) /\ operations \in Rows /\ operations' \in Rows
    BY RatesNamed, RowsTyped DEF RatesInv
  <1>2. effective \in Nat /\ effective' \in Nat /\ effective <= effective'
    BY ClockStep
  <1>3. \A o \in Operations :
            /\ operations[o].state # "NONE" => operations[o].accepted \in Nat
            /\ operations'[o].state # "NONE" => operations'[o].accepted \in Nat
    BY MaxTimeAssumption DEF TypeOK, OperationType, NoOperation
  <1>4. ASSUME NEW w \in Workers, ReserveOperation(w)
        PROVE  RatesInv'
    <2> PICK o \in Operations, row \in OperationType :
              /\ Reserves(operations, operations', o, row)
              /\ row.accepted = tasks[w].now
              /\ row.approval = tasks[w].request.approval
              /\ row.binding = tasks[w].request.binding
      BY <1>4, ReserveStep
    <2>1. /\ tasks[w].pc = "observed" /\ gate = w
          /\ WithinLimits(tasks[w].request, tasks[w].now)
          /\ Goto(w, "authorized")
          /\ effective' = effective
      BY <1>4 DEF ReserveOperation, SigningInv, GateHeld, GatedPc, timeVars
    <2>2. /\ tasks[w].now <= effective
          /\ \A x \in Operations : operations[x].state # "NONE" =>
                operations[x].accepted <= row.accepted
      BY <2>1 DEF RatesInv
    <2>3. \A x \in ChargedIn(operations, row.approval) :
              operations[x].accepted <= row.accepted
      BY <2>2 DEF ChargedIn
    <2>4. /\ \A v \in Terms[row.approval].operationRates :
                Cardinality(WindowIn(operations, row.approval, v.duration, row.accepted)) + 1
                  <= v.maximum
          /\ \A v \in Terms[row.approval].signatureRates :
                SumIn(operations, WindowIn(operations, row.approval, v.duration, row.accepted))
                  + SignatureCount[row.binding] <= v.maximum
      BY <2>1 DEF WithinLimits, WindowIn, InRateWindow, ChargedIn, Charged,
                  SumIn, SignaturesOf, Signatures, SumFunction
    <2>5. RatesIn(operations')
      BY <1>1, <2>3, <2>4, ReservedRates
    <2>6. ASSUME NEW x \in Operations, operations'[x].state # "NONE"
          PROVE  operations'[x].accepted <= effective'
      BY <2>1, <2>2, <2>6 DEF RatesInv, Reserves
    <2>7. ASSUME NEW v \in Workers, tasks'[v].pc = "observed"
          PROVE  FALSE
      <3>1. /\ tasks'[w].pc = "authorized"
            /\ \A u \in Workers : u # w => tasks'[u] = tasks[u]
        BY <2>1, GotoEffect DEF RunningPc
      <3>2. v # w /\ tasks[v].pc = "observed"
        BY <2>7, <3>1
      <3> QED
        BY <2>1, <3>2, Alone DEF SigningInv
    <2> QED
      BY <2>5, <2>6, <2>7, RatesNamed DEF RatesInv
  <1>5. ASSUME /\ RatesIn(operations')
               /\ \/ Kept(operations, operations')
                  \/ \E x \in Operations : Releases(operations, operations', x)
        PROVE  RatesInv'
    <2>1. ASSUME NEW o \in Operations, operations'[o].state # "NONE"
          PROVE  operations[o].state # "NONE" /\ operations'[o].accepted = operations[o].accepted
      BY <1>5, <2>1, AcceptedStep
    <2>2. ASSUME NEW o \in Operations, operations'[o].state # "NONE"
          PROVE  operations'[o].accepted <= effective'
      BY <1>2, <1>3, <2>1, <2>2 DEF RatesInv
    <2>3. ASSUME NEW v \in Workers, tasks'[v].pc = "observed"
          PROVE  /\ tasks'[v].now <= effective'
                 /\ \A o \in Operations : operations'[o].state # "NONE" =>
                      operations'[o].accepted <= tasks'[v].now
      <3>1. CASE tasks'[v] = tasks[v]
        <4>1. tasks[v].now \in Nat
          BY <2>3, <3>1, TaskShape, MaxTimeAssumption DEF RunningPc
        <4>2. /\ tasks[v].now <= effective
              /\ \A o \in Operations : operations[o].state # "NONE" =>
                   operations[o].accepted <= tasks[v].now
          BY <2>3, <3>1 DEF RatesInv
        <4> QED
          BY <1>2, <2>1, <3>1, <4>1, <4>2
      <3>2. CASE tasks'[v].now = effective'
        BY <1>2, <2>2, <3>2
      <3> QED
        BY <2>3, <3>1, <3>2, ObservedStep
    <2> QED
      BY <1>5, <2>2, <2>3, RatesNamed DEF RatesInv
  <1>6. ASSUME NEW w \in Workers, FinalizeReleased(w)
        PROVE  RatesInv'
    <2>1. tasks[w].pc = "releasing"
      BY <1>6 DEF FinalizeReleased
    <2> PICK o \in Operations : o = tasks[w].request.operation
      BY <2>1, TaskShape DEF RunningPc, Requests
    <2>2. operations[o].state \in {"RESERVED", "DISPATCHED"} /\ SetState(o, "RELEASED")
      BY <1>6 DEF FinalizeReleased
    <2>3. Releases(operations, operations', o)
      BY <2>2, SetStateEffect DEF Releases, Live
    <2>4. RatesIn(operations')
      BY <1>1, <2>3, ReleasedRates
    <2> QED
      BY <1>5, <2>3, <2>4
  <1>7. CASE \A w \in Workers : ~ReserveOperation(w) /\ ~FinalizeReleased(w)
    <2>1. Kept(operations, operations')
      BY <1>7, RowsStep
    <2>2. RatesIn(operations')
      BY <1>1, <2>1, KeptLimits
    <2> QED
      BY <1>5, <2>1, <2>2
  <1> QED
    BY <1>4, <1>6, <1>7

\* The initial states have no row and every counter at zero.
LEMMA LimitsInit == Init => LimitsInv /\ RatesInv
  <1> SUFFICES ASSUME Init
               PROVE  LimitsInv /\ RatesInv
    OBVIOUS
  <1>1. \A a : ChargedIn(operations, a) = {}
    BY DEF Init, ChargedIn, NoOperation
  <1>2. \A a, d, t : WindowIn(operations, a, d, t) = {}
    BY <1>1 DEF WindowIn
  <1>3. SumIn(operations, {}) = 0 /\ Cardinality({}) = 0
    BY SumEmpty, FS_EmptySet DEF SumIn
  <1>4. ASSUME NEW a \in Approvals
        PROVE  /\ counters[a].operations = 0 /\ counters[a].signatures = 0
               /\ 0 <= Terms[a].maxOperations /\ 0 <= Terms[a].maxSignatures
               /\ \A v \in Terms[a].operationRates \union Terms[a].signatureRates :
                    0 <= v.maximum
    BY SigningAssumption DEF Init
  <1>5. LimitsIn(operations, counters)
    BY <1>1, <1>3, <1>4 DEF LimitsIn
  <1>6. RatesIn(operations)
    BY <1>2, <1>3, <1>4 DEF RatesIn
  <1>7. \A w \in Workers : tasks[w].pc = "idle"
    BY DEF Init, Idle
  <1>8. \A o \in Operations : operations[o].state = "NONE"
    BY DEF Init, NoOperation
  <1> QED
    BY <1>5, <1>6, <1>7, <1>8, LimitsNamed, RatesNamed DEF RatesInv

\* The counters of every approval are exactly its reservations that were not
\* refunded, in operations and in signatures, and within its terms.
THEOREM LimitsSafe == Spec => []LimitsInv
  <1>1. Init => LimitsInv
    BY LimitsInit
  <1>2. TypeOK /\ TypeOK' /\ SigningInv /\ LimitsInv /\ [Next]_vars => LimitsInv'
    BY LimitsStep
  <1> QED
    BY <1>1, <1>2, TypeCorrect, SigningSafe, PTL DEF Spec

\* The approval's counters never drift from the reservations they stand for.
THEOREM CountersAlwaysExact == Spec => []CountersExact
  <1>1. LimitsInv => CountersExact
    BY DEF LimitsInv
  <1> QED
    BY <1>1, LimitsSafe, PTL

\* Over every rolling window the charged acceptances stay within the terms.
THEOREM WindowsHold == Spec => []RateWindowsHold
  <1>1. Init => RatesInv
    BY LimitsInit
  <1>2. TypeOK /\ TypeOK' /\ SigningInv /\ RatesInv /\ [Next]_vars => RatesInv'
    BY RatesStep
  <1>3. RatesInv => RateWindowsHold
    BY DEF RatesInv
  <1> QED
    BY <1>1, <1>2, <1>3, TypeCorrect, SigningSafe, PTL DEF Spec

\* An operation has at most the signatures it was charged for, and none at all
\* while it has no row or after its release.
LEMMA MadeBound ==
    ASSUME TypeOK, SigningInv, NEW o \in Operations
    PROVE  /\ Made(o) \in Nat
           /\ operations[o].state \in {"NONE", "RELEASED"} => Made(o) = 0
           /\ operations[o].state # "NONE" => Made(o) <= Signatures(o)
  <1> DEFINE D == Bindings \X Hashes
             f == [bi \in D |-> effects[o][bi[1]][bi[2]]]
  <1>1. IsFiniteSet(D)
    <2>1. IsFiniteSet(Bindings) /\ IsFiniteSet(Hashes)
      BY SigningAssumption, FS_Interval
    <2> QED
      BY <2>1, FS_Product
  <1>2. ASSUME NEW x \in D
        PROVE  /\ x[1] \in Bindings /\ x[2] \in Hashes
               /\ x = <<x[1], x[2]>>
               /\ f[x] = effects[o][x[1]][x[2]] /\ f[x] \in Nat
    <2>1. x[1] \in Bindings /\ x[2] \in Hashes /\ x = <<x[1], x[2]>>
      OBVIOUS
    <2>2. f[x] = effects[o][x[1]][x[2]]
      OBVIOUS
    <2>3. effects[o] \in [Bindings -> [Hashes -> Nat]]
      BY DEF TypeOK
    <2>4. effects[o][x[1]] \in [Hashes -> Nat]
      BY <2>1, <2>3
    <2> QED
      BY <2>1, <2>2, <2>4
  <1>3. Made(o) = SumFunctionOnSet(f, D)
    BY DEF Made, SumFunction
  <1>4. Made(o) \in Nat
    <2> HIDE DEF f, D
    <2> QED
      BY <1>1, <1>2, <1>3, SumNat
  <1>5. CASE operations[o].state \in {"NONE", "RELEASED"}
    <2>1. \A x \in D : f[x] = 0
      BY <1>2, <1>5 DEF SigningInv, RowsSound, Unsigned
    <2> HIDE DEF f, D
    <2>2. SumFunctionOnSet(f, D) <= SumFunctionOnSet(f, {})
      BY <1>1, <1>2, <2>1, FS_EmptySet, SumBelow
    <2>3. Made(o) = 0
      BY <1>3, <1>4, <2>2, SumEmpty
    <2>4. operations[o].state # "NONE" => Signatures(o) \in Nat
      BY SigningAssumption DEF TypeOK, OperationType, NoOperation, Signatures
    <2> QED
      BY <1>4, <2>3, <2>4
  <1>6. CASE operations[o].state \notin {"NONE", "RELEASED"}
    <2> PICK b \in Bindings : b = operations[o].binding
      BY <1>6 DEF TypeOK, OperationType, NoOperation
    <2> PICK n \in 1 .. MaxBatch : n = SignatureCount[b]
      BY SigningAssumption
    <2> DEFINE T == {b} \X (1 .. n)
               g == [x \in T |-> 1]
    <2>1. n \in Nat
      BY SigningAssumption
    <2>2. IsFiniteSet(T) /\ Cardinality(T) = n
      <3>1. IsFiniteSet({b}) /\ Cardinality({b}) = 1
        BY FS_Singleton
      <3>2. IsFiniteSet(1 .. n) /\ Cardinality(1 .. n) = n
        <4>1. 1 \in Int /\ n \in Int /\ ~ (1 > n)
          BY <2>1
        <4>2. /\ IsFiniteSet(1 .. n)
              /\ Cardinality(1 .. n) = IF 1 > n THEN 0 ELSE n - 1 + 1
          BY <4>1, FS_Interval
        <4> QED
          BY <2>1, <4>1, <4>2
      <3>3. IsFiniteSet(T) /\ Cardinality(T) = Cardinality({b}) * Cardinality(1 .. n)
        BY <3>1, <3>2, FS_Product
      <3> QED
        BY <2>1, <3>1, <3>2, <3>3
    <2>3. \A x \in T : g[x] = 1
      OBVIOUS
    <2>4. ASSUME NEW x \in D, f[x] # 0
          PROVE  x \in T /\ f[x] <= g[x]
      <3>1. effects[o][x[1]][x[2]] > 0
        BY <1>2, <2>4
      <3>2. /\ effects[o][x[1]][x[2]] = 1
            /\ x[1] = b /\ x[2] <= n
        BY <1>2, <3>1 DEF SigningInv, NoDoubleSigning
      <3>3. x[2] \in 1 .. n
        BY <1>2, <2>1, <3>2
      <3>4. x \in T
        BY <1>2, <3>2, <3>3
      <3> HIDE DEF T
      <3> QED
        BY <1>2, <2>3, <3>2, <3>4
    <2> HIDE DEF f, D, g, T
    <2>5. SumFunctionOnSet(f, D) <= SumFunctionOnSet(g, T)
      <3>1. \A x \in T : g[x] \in Nat
        BY <2>3
      <3>2. \A x \in D : f[x] \in Nat
        BY <1>2
      <3>3. \A x \in D : f[x] = 0 \/ (x \in T /\ f[x] <= g[x])
        BY <2>4
      <3> QED
        BY <1>1, <2>2, <3>1, <3>2, <3>3, SumBelow
    <2>6. SumFunctionOnSet(g, T) = n
      BY <2>2, <2>3, SumOnes
    <2> QED
      BY <1>3, <1>4, <1>6, <2>5, <2>6 DEF Signatures
  <1> QED
    BY <1>5, <1>6

\* The signatures and operations that really happened under an approval are
\* within its lifetime limits.
THEOREM LifetimeLimits == Spec => []LifetimeLimitsHold
  <1>1. TypeOK /\ SigningInv /\ LimitsInv => LifetimeLimitsHold
    <2> SUFFICES ASSUME TypeOK, SigningInv, LimitsInv, NEW a \in Approvals
                 PROVE  LET own == {o \in Operations : /\ operations[o].state # "NONE"
                                                       /\ operations[o].approval = a}
                        IN  /\ SumFunction([o \in own |-> Made(o)])
                                 <= Terms[a].maxSignatures
                            /\ Cardinality({o \in own : Made(o) > 0})
                                 <= Terms[a].maxOperations
      BY DEF LifetimeLimitsHold
    <2> DEFINE own == {o \in Operations : /\ operations[o].state # "NONE"
                                          /\ operations[o].approval = a}
               C == ChargedIn(operations, a)
               f == [o \in own |-> Made(o)]
               g == [o \in C |-> SignatureCount[operations[o].binding]]
    <2>1. /\ IsFiniteSet(C) /\ Cardinality(C) \in Nat
          /\ \A o \in C : g[o] \in Nat
      BY ChargesTyped DEF TypeOK, Rows
    <2>2. IsFiniteSet(own)
      BY SigningAssumption, FS_Subset
    <2>3. ASSUME NEW o \in own
          PROVE  /\ f[o] \in Nat
                 /\ f[o] = 0 \/ (o \in C /\ f[o] <= g[o])
                 /\ Made(o) > 0 => o \in C
      BY MadeBound DEF ChargedIn, Signatures
    <2>4. /\ SumIn(operations, C) = SumFunctionOnSet(g, C)
          /\ SumFunction(f) = SumFunctionOnSet(f, own)
      BY DEF SumIn, SumFunction
    <2>5. /\ SumIn(operations, C) <= Terms[a].maxSignatures
          /\ Cardinality(C) <= Terms[a].maxOperations
      BY LimitsNamed DEF LimitsIn
    <2>6. {o \in own : Made(o) > 0} \subseteq C
      BY <2>3
    <2> HIDE DEF own, C, f, g
    <2>7. SumFunctionOnSet(f, own) <= SumFunctionOnSet(g, C)
      BY <2>1, <2>2, <2>3, SumBelow
    <2>8. Cardinality({o \in own : Made(o) > 0}) <= Cardinality(C)
      BY <2>1, <2>6, FS_Subset
    <2>9. /\ Cardinality({o \in own : Made(o) > 0}) \in Nat
          /\ SumFunctionOnSet(f, own) \in Nat /\ SumFunctionOnSet(g, C) \in Nat
      <3>1. IsFiniteSet({o \in own : Made(o) > 0})
        BY <2>2, FS_Subset
      <3>2. \A o \in own : f[o] \in Nat
        BY <2>3
      <3> QED
        BY <2>1, <2>2, <3>1, <3>2, FS_CardinalityType, SumNat
    <2>10. Terms[a].maxSignatures \in Nat /\ Terms[a].maxOperations \in Nat
      BY SigningAssumption
    <2>11. /\ SumFunction(f) <= Terms[a].maxSignatures
           /\ Cardinality({o \in own : Made(o) > 0}) <= Terms[a].maxOperations
      BY <2>1, <2>4, <2>5, <2>7, <2>8, <2>9, <2>10
    <2> QED
      BY <2>11 DEF f, own
  <1> QED
    BY <1>1, TypeCorrect, SigningSafe, LimitsSafe, PTL
=============================================================================
