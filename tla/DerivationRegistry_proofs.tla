----------------------- MODULE DerivationRegistry_proofs -----------------------
(***************************************************************************)
(* Proofs about the derivation registry, for any operations, families,     *)
(* roles, invalid children, caps and number of accounts.                   *)
(***************************************************************************)
EXTENDS DerivationRegistry, WellFoundedInduction, TLAPS

-----------------------------------------------------------------------------
(* Children and tasks *)

RegistryPhase == {"choose", "prepare", "index", "account", "activate"}
KeyPhase == {"register", "enroll", "refresh", "commit"}
AllocateStages == RegistryPhase \union KeyPhase \union {"rollback"}
RetireStages == {"retire", "retire_backend", "deactivate", "retire_refresh", "retire_commit"}

AllocateTasks ==
    [at : AllocateStages, op : Operations, number : Numbers,
     left : SUBSET Families, hidden : BOOLEAN]
RetireTasks == [at : RetireStages, child : Children]

Allocating == task.at \in AllocateStages
Retiring == task.at \in RetireStages

\* The children of the allocation being applied, and those it has yet to turn to.
Own(c) == OperationOf(c) = task.op
InLeft(c) == FamilyOf(c) \in task.left

LEMMA ChildFacts ==
    ASSUME NEW c \in Children
    PROVE  /\ OperationOf(c) \in Operations
           /\ FamilyOf(c) \in Families
           /\ FamilyOf(c) \in FamiliesOf[OperationOf(c)]
           /\ c = <<OperationOf(c), FamilyOf(c)>>
  BY DEF Children, OperationOf, FamilyOf

LEMMA SameChild ==
    ASSUME NEW c \in Children, NEW d \in Children,
           OperationOf(c) = OperationOf(d), FamilyOf(c) = FamilyOf(d)
    PROVE  c = d
  BY ChildFacts

\* What a task of either ceremony carries.
LEMMA AllocateTask ==
    ASSUME TypeOK, Allocating
    PROVE  task \in AllocateTasks
  BY DEF TypeOK, Tasks, NoTask, Allocating, AllocateTasks, AllocateStages, RegistryPhase, KeyPhase

LEMMA RetireTask ==
    ASSUME TypeOK, Retiring
    PROVE  task \in RetireTasks
  BY DEF TypeOK, Tasks, NoTask, Retiring, RetireTasks, RetireStages

LEMMA TaskTyped ==
    /\ AllocateTasks \subseteq Tasks
    /\ RetireTasks \subseteq Tasks
    /\ NoTask \in Tasks
  BY DEF Tasks, AllocateTasks, RetireTasks, AllocateStages, RetireStages, RegistryPhase, KeyPhase

\* The child an allocation turns to next is one of its own.
LEMMA CurrentChild ==
    ASSUME TypeOK, Allocating, task.left \subseteq FamiliesOf[task.op], task.left # {}
    PROVE  /\ Current \in Children
           /\ OperationOf(Current) = task.op
           /\ FamilyOf(Current) = First(task.left)
           /\ FamilyOf(Current) \in task.left
           /\ \A c \in Children : Own(c) /\ FamilyOf(c) = FamilyOf(Current) => c = Current
  <1>1. First(task.left) \in task.left
    BY AllocateTask DEF AllocateTasks, First, Families
  <1>2. Current \in Children
    BY <1>1, AllocateTask DEF AllocateTasks, Current, Children
  <1>3. OperationOf(Current) = task.op /\ FamilyOf(Current) = First(task.left)
    BY DEF Current, OperationOf, FamilyOf
  <1>4. \A c \in Children : Own(c) /\ FamilyOf(c) = FamilyOf(Current) => c = Current
    BY <1>2, <1>3, SameChild DEF Own
  <1> QED
    BY <1>1, <1>2, <1>3, <1>4

-----------------------------------------------------------------------------
(* Account numbers *)

\* A set of numbers below a bound has a greatest element, which Max names.
LEMMA BoundedHasMax ==
    ASSUME NEW N \in Nat, NEW S \in SUBSET (0 .. N), S # {}
    PROVE  Max(S) \in S /\ \A y \in S : y <= Max(S)
  <1> DEFINE T == {n \in Nat : \E x \in S : n = N - x}
  <1> DEFINE R == OpToRel(<, Nat)
  <1>1. PICK a \in S : TRUE
    OBVIOUS
  <1>2. N - a \in Nat
    BY <1>1
  <1>3. T \subseteq Nat /\ T # {}
    BY <1>1, <1>2
  <1>4. IsWellFoundedOn(R, Nat)
    BY NatLessThanWellFounded
  <1> HIDE DEF R, T
  <1>5. PICK t \in T : \A y \in T : ~ (<<y, t>> \in R)
    BY <1>3, <1>4, WFMin
  <1>6. ASSUME NEW y \in S
        PROVE  ~ (N - y < t)
    <2>1. N - y \in Nat
      OBVIOUS
    <2>2. N - y \in T
      BY <2>1 DEF T
    <2>3. t \in Nat
      BY <1>5 DEF T
    <2> QED
      BY <2>1, <2>2, <2>3, <1>5 DEF OpToRel, R
  <1>7. PICK m \in S : t = N - m
    BY <1>5 DEF T
  <1>8. \A y \in S : m >= y
    <2> TAKE y \in S
    <2>1. y \in Int /\ m \in Int /\ N \in Int
      OBVIOUS
    <2> QED
      BY <1>6, <1>7, <2>1
  <1> QED
    <2>1. S \subseteq Int
      OBVIOUS
    <2>2. PICK x \in S : x = Max(S) /\ \A y \in S : x >= y
      BY <1>8 DEF Max
    <2> QED
      BY <2>1, <2>2

\* next_account_number is past every EVM counter and every Solana account.
LEMMA NextNumberBeyond ==
    ASSUME TypeOK
    PROVE  /\ NextAccountNumber \in 0 .. MaxNumber + 1
           /\ \A r \in Roles : counters[r] <= NextAccountNumber
           /\ \A c \in Allocated("sol") : rows[c].number < NextAccountNumber
  <1> DEFINE S == {0} \union {counters[r] : r \in Roles} \union {t[2] + 1 : t \in tombstones}
                    \union {rows[c].number + 1 : c \in Allocated("sol")}
  <1> USE RegistryAssumption
  <1>1. \A r \in Roles : counters[r] \in 0 .. MaxNumber + 1
    BY DEF TypeOK
  <1>2. \A t \in tombstones : t[2] + 1 \in 0 .. MaxNumber + 1
    BY DEF TypeOK, Numbers
  <1>3. \A c \in Allocated("sol") : rows[c].number \in Numbers
    BY DEF TypeOK, Allocated
  <1>4. \A c \in Allocated("sol") : rows[c].number + 1 \in 0 .. MaxNumber + 1
    BY <1>3 DEF Numbers
  <1>5. S \in SUBSET (0 .. MaxNumber + 1)
    BY <1>1, <1>2, <1>4
  <1>6. MaxNumber + 1 \in Nat /\ S # {}
    OBVIOUS
  <1> HIDE DEF S
  <1>7. Max(S) \in S /\ \A y \in S : y <= Max(S)
    BY <1>5, <1>6, BoundedHasMax
  <1>8. NextAccountNumber = Max(S)
    BY DEF NextAccountNumber, S
  <1>9. \A r \in Roles : counters[r] \in S
    BY DEF S
  <1>10. \A c \in Allocated("sol") : rows[c].number + 1 \in S
    BY DEF S
  <1>11. Max(S) \in 0 .. MaxNumber + 1
    BY <1>5, <1>7
  <1>12. \A c \in Allocated("sol") : rows[c].number < Max(S)
    <2> TAKE c \in Allocated("sol")
    <2>1. rows[c].number + 1 <= Max(S)
      BY <1>7, <1>10
    <2>2. rows[c].number \in Int /\ Max(S) \in Int
      BY <1>3, <1>11 DEF Numbers
    <2> QED
      BY <2>1, <2>2
  <1> QED
    BY <1>7, <1>8, <1>9, <1>11, <1>12

\* The counter of a namespace moves past the number given out, and never back.
LEMMA CounterAdvances ==
    ASSUME NEW n \in 0 .. MaxNumber + 1, NEW number \in Numbers
    PROVE  /\ AdvanceCounter(n, number) \in 0 .. MaxNumber + 1
           /\ n <= AdvanceCounter(n, number)
           /\ number < AdvanceCounter(n, number)
  <1> USE RegistryAssumption
  <1>1. number + 1 \in 0 .. MaxNumber + 1
    BY DEF Numbers
  <1>2. {n, number + 1} \in SUBSET (0 .. MaxNumber + 1) /\ MaxNumber + 1 \in Nat
    BY <1>1
  <1> DEFINE m == AdvanceCounter(n, number)
  <1>3. m \in {n, number + 1} /\ \A y \in {n, number + 1} : y <= m
    BY <1>2, BoundedHasMax DEF AdvanceCounter
  <1> HIDE DEF m
  <1>4. m \in 0 .. MaxNumber + 1 /\ n <= m /\ number + 1 <= m
    BY <1>2, <1>3
  <1>5. number < m
    BY <1>4 DEF Numbers
  <1> QED
    BY <1>4, <1>5 DEF m

-----------------------------------------------------------------------------
(* The inductive invariant *)

Receipted(op) == [kind |-> "allocate", op |-> op] \in receipts

\* The process in memory: nothing is left of it when it is not up, and an
\* allocation works through families of its own request, which is not yet
\* receipted.
ProcessInv ==
    /\ phase # "up" => backend = EmptyRecord /\ task = NoTask
    /\ Allocating => task.left \subseteq FamiliesOf[task.op] /\ ~Receipted(task.op)
    /\ task.at \in RegistryPhase \union {"register", "enroll", "rollback"} => task.left # {}
    /\ task.at \in {"refresh", "commit"} => task.left = {}

\* The counter of a namespace is past every number it gave out, and the number of
\* an allocation is past every number of another.
NumbersInv ==
    /\ \A c \in Children : rows[c].state # "ABSENT" /\ FamilyOf(c) = "evm" =>
          rows[c].role \in Roles /\ rows[c].number < counters[rows[c].role]
    /\ Allocating => \A c \in Children :
          rows[c].state # "ABSENT" /\ ~Own(c) => rows[c].number < task.number
    /\ NumbersNotShared

\* What the steps of an allocation have done by now: the families it has turned to
\* are active, later registered in memory, and at last in the record.
StageInv ==
    \A c \in Children :
      /\ task.at \in RegistryPhase /\ Own(c) /\ ~InLeft(c) => rows[c].state = "ACTIVATED"
      /\ task.at \in KeyPhase /\ Own(c) => rows[c].state = "ACTIVATED"
      /\ task.at = "rollback" /\ Own(c) /\ InLeft(c) => rows[c].state = "ACTIVATED"
      /\ task.at \in KeyPhase /\ Own(c) /\ ~InLeft(c) => c \in backend.registered
      /\ task.at = "enroll" /\ Own(c) /\ FamilyOf(c) = First(task.left)
           => c \in backend.registered
      /\ task.at = "commit" /\ Own(c) => c \in record.registered

\* A committed child is active or retired and has its receipt; an active one is
\* in the record and in memory.  One that is not committed is in memory only
\* while its own allocation may still commit it or has yet to drop it, and is
\* pending wherever it is registered.
CommitInv ==
    \A c \in Children :
      /\ rows[c].committed => rows[c].state \in {"ACTIVATED", "RETIRED"}
      /\ rows[c].committed => Receipted(OperationOf(c))
      /\ rows[c].committed /\ rows[c].state = "ACTIVATED" => c \in record.registered
      /\ rows[c].committed /\ rows[c].state = "ACTIVATED" /\ phase = "up"
           => c \in backend.registered
      /\ ~rows[c].committed /\ c \in backend.registered => c \in backend.pending
      /\ ~rows[c].committed /\ c \in record.registered => c \in record.pending
      /\ ~rows[c].committed /\ c \in backend.registered =>
            \/ task.at \in KeyPhase /\ Own(c)
            \/ task.at = "rollback" /\ Own(c) /\ InLeft(c)
      /\ enrolled[c] = "available" => rows[c].state \in {"ACTIVATED", "RETIRED"}

\* What the steps of a retirement have done by now.
RetireInv ==
    /\ RetirementHolds
    /\ task.at \in RetireStages \ {"retire"} => rows[task.child].state = "RETIRED"
    /\ task.at \in {"deactivate", "retire_refresh", "retire_commit"}
         => task.child \notin backend.registered
    /\ task.at \in {"retire_refresh", "retire_commit"}
         => enrolled[task.child] = "unavailable"
    /\ task.at = "retire_commit" => task.child \notin record.registered

Inv == TypeOK /\ ProcessInv /\ NumbersInv /\ StageInv /\ CommitInv /\ RetireInv

LEMMA FamiliesTyped ==
    ASSUME NEW op \in Operations
    PROVE  FamiliesOf[op] \in SUBSET Families /\ FamiliesOf[op] # {}
  BY RegistryAssumption DEF Families

LEMMA InvInit ==
    ASSUME Init
    PROVE  Inv
  <1> USE RegistryAssumption DEF Init
  <1>1. NoRow \in [state : States, number : Numbers, role : Roles \union {"none"},
                   committed : BOOLEAN]
    BY DEF NoRow, States, Numbers
  <1>2. EmptyRecord \in Records
    BY DEF EmptyRecord, Records
  <1>3. NoTask.at = "none" /\ NoTask \in Tasks
    BY DEF NoTask, Tasks
  <1>4. TypeOK
    BY <1>1, <1>2, <1>3 DEF TypeOK
  <1>5. ProcessInv
    BY <1>3 DEF ProcessInv, Allocating, AllocateStages, RegistryPhase, KeyPhase
  <1>6. NumbersInv /\ StageInv /\ CommitInv /\ RetireInv
    BY <1>3 DEF NumbersInv, StageInv, CommitInv, RetireInv, RetirementHolds, NumbersNotShared,
       Allocating, AllocateStages, RegistryPhase, KeyPhase, RetireStages, NoRow, EmptyRecord
  <1> QED
    BY <1>4, <1>5, <1>6 DEF Inv

\* What the steps of an allocation rely on.
LEMMA AllocateStep ==
    ASSUME Inv, Allocating
    PROVE  /\ task \in AllocateTasks
           /\ task # NoTask /\ phase = "up"
           /\ FamiliesOf[task.op] \in SUBSET Families /\ FamiliesOf[task.op] # {}
           /\ task.left # {} =>
                 /\ Current \in Children /\ OperationOf(Current) = task.op
                 /\ FamilyOf(Current) \in task.left
                 /\ FamilyOf(Current) = First(task.left)
                 /\ \A c \in Children : Own(c) /\ FamilyOf(c) = FamilyOf(Current) => c = Current
  <1>1. task \in AllocateTasks
    BY AllocateTask DEF Inv
  <1>2. task # NoTask
    BY DEF Allocating, AllocateStages, RegistryPhase, KeyPhase, NoTask
  <1>3. phase = "up"
    BY <1>2 DEF Inv, ProcessInv
  <1>4. FamiliesOf[task.op] \in SUBSET Families /\ FamiliesOf[task.op] # {}
    BY <1>1, FamiliesTyped DEF AllocateTasks
  <1> QED
    BY <1>1, <1>2, <1>3, <1>4, CurrentChild DEF Inv, ProcessInv

\* A change of a row's state.
LEMMA StateSet ==
    ASSUME TypeOK, NEW c \in Children, NEW st \in States, SetState(c, st)
    PROVE  /\ rows' \in [Children -> [state : States, number : Numbers,
                                      role : Roles \union {"none"}, committed : BOOLEAN]]
           /\ rows'[c].state = st
           /\ \A d \in Children : /\ d # c => rows'[d].state = rows[d].state
                                  /\ rows'[d].number = rows[d].number
                                  /\ rows'[d].role = rows[d].role
                                  /\ rows'[d].committed = rows[d].committed
  BY DEF TypeOK, SetState

\* An allocation begins past every number given out.
LEMMA BeginKeeps ==
    ASSUME Inv, NEW op \in Operations, Begin(op)
    PROVE  Inv'
  <1> USE DEF Inv
  <1>1. UNCHANGED <<durable, phase, backend>> /\ task = NoTask /\ phase = "up" /\ ~Receipted(op)
    BY DEF Begin, Receipted
  <1>2. NextAccountNumber \in Numbers
    BY NextNumberBeyond, RegistryAssumption DEF Begin, NumberRemains, Numbers
  <1>3. FamiliesOf[op] \in SUBSET Families /\ FamiliesOf[op] # {}
    BY FamiliesTyped
  <1>4. /\ task' \in AllocateTasks /\ task'.at = "choose" /\ task'.op = op
        /\ task'.left = FamiliesOf[op] /\ task'.number = NextAccountNumber
    BY <1>2, <1>3 DEF Begin, AllocateTasks, AllocateStages, RegistryPhase
  <1>5. \A c \in Children : rows[c].state # "ABSENT" => rows[c].number < NextAccountNumber
    <2> SUFFICES ASSUME NEW c \in Children, rows[c].state # "ABSENT"
                 PROVE  rows[c].number < NextAccountNumber
      OBVIOUS
    <2>1. CASE FamilyOf(c) = "sol"
      BY <2>1, NextNumberBeyond DEF Allocated
    <2>2. CASE FamilyOf(c) = "evm"
      <3>1. rows[c].role \in Roles /\ rows[c].number < counters[rows[c].role]
        BY <2>2 DEF NumbersInv
      <3>2. counters[rows[c].role] <= NextAccountNumber
        BY <3>1, NextNumberBeyond
      <3>3. rows[c].number \in Int /\ counters[rows[c].role] \in Int
        BY <3>1 DEF TypeOK, Numbers
      <3>4. NextAccountNumber \in Int
        BY NextNumberBeyond
      <3> QED
        BY <3>1, <3>2, <3>3, <3>4
    <2> QED
      BY <2>1, <2>2, ChildFacts DEF Families
  <1> USE <1>1, <1>3, <1>4 DEF durable
  <1>6. TypeOK'
    BY TaskTyped DEF TypeOK
  <1>7. ProcessInv'
    BY DEF ProcessInv, Receipted, RegistryPhase
  <1>8. NumbersInv'
    BY <1>5 DEF NumbersInv, NumbersNotShared
  <1>9. StageInv'
    BY ChildFacts DEF StageInv, Own, InLeft, RegistryPhase, KeyPhase
  <1>10. CommitInv'
    BY DEF CommitInv, KeyPhase, Receipted, NoTask
  <1>11. RetireInv'
    BY DEF RetireInv, RetirementHolds, RetireStages
  <1> QED
    BY <1>6, <1>7, <1>8, <1>9, <1>10, <1>11

\* Choosing the number only moves it up, over the invalid children.
LEMMA ChooseKeeps ==
    ASSUME Inv, Choose \/ SkipInvalid
    PROVE  Inv'
  <1> USE DEF Inv
  <1>1. /\ Allocating /\ task.at = "choose" /\ task.left # {}
        /\ UNCHANGED <<rows, counters, enrolled, record, receipts, phase, backend>>
    BY DEF Choose, SkipInvalid, durable, ProcessInv, Allocating, AllocateStages, RegistryPhase
  <1> USE <1>1, AllocateStep
  <1>2. tombstones' \subseteq Roles \X Numbers
    <2>1. task.number \in Numbers
      BY DEF AllocateTasks
    <2> QED
      BY <2>1 DEF Choose, SkipInvalid, durable, TypeOK
  <1>3. \/ task' = NoTask
        \/ /\ task' \in AllocateTasks /\ task'.op = task.op /\ task'.left = task.left
           /\ task'.at \in {"choose", "prepare"}
           /\ task'.number \in Numbers /\ task.number <= task'.number
    <2>1. CASE Choose
      BY <2>1, RegistryAssumption DEF Choose, AllocateTasks, AllocateStages, RegistryPhase, Numbers
    <2>2. CASE SkipInvalid
      BY <2>2, RegistryAssumption DEF SkipInvalid, AllocateTasks, AllocateStages, RegistryPhase,
         Numbers
    <2> QED
      BY <2>1, <2>2
  <1> USE <1>2, <1>3
  <1>4. TypeOK'
    BY TaskTyped DEF TypeOK
  <1>5. ProcessInv'
    BY DEF ProcessInv, Receipted, RegistryPhase, NoTask, Allocating, AllocateStages, KeyPhase
  <1>6. NumbersInv'
    <2>1. \A c \in Children : rows[c].number \in Int
      BY DEF TypeOK, Numbers
    <2>2. task.number \in Int /\ (task' # NoTask => task'.number \in Int)
      BY DEF AllocateTasks, Numbers
    <2> QED
      BY <2>1, <2>2 DEF NumbersInv, NumbersNotShared, Own, NoTask, Allocating, AllocateStages,
         RegistryPhase, KeyPhase
  <1>7. StageInv'
    BY DEF StageInv, Own, InLeft, RegistryPhase, KeyPhase, NoTask
  <1>8. CommitInv'
    BY DEF CommitInv, KeyPhase, Receipted
  <1>9. RetireInv'
    BY DEF RetireInv, RetirementHolds, RetireStages, NoTask
  <1> QED
    BY <1>4, <1>5, <1>6, <1>7, <1>8, <1>9

\* prepare_allocation_at gives the child its row and moves the counter past it.
LEMMA PrepareKeeps ==
    ASSUME Inv, Prepare
    PROVE  Inv'
  <1> USE DEF Inv
  <1>1. /\ Allocating /\ task.at = "prepare" /\ task.left # {}
        /\ rows[Current].state = "ABSENT"
        /\ UNCHANGED <<tombstones, enrolled, record, receipts, phase, backend>>
    BY DEF Prepare, CanPrepare, ProcessInv, Allocating, AllocateStages, RegistryPhase
  <1> USE <1>1, AllocateStep
  <1>2. RoleOf[task.op] \in Roles /\ task.number \in Numbers
    BY RegistryAssumption DEF AllocateTasks
  <1>3. /\ rows' \in [Children -> [state : States, number : Numbers,
                                   role : Roles \union {"none"}, committed : BOOLEAN]]
        /\ \A d \in Children : d # Current => rows'[d] = rows[d]
        /\ rows'[Current].state = "PREPARED" /\ rows'[Current].number = task.number
        /\ ~rows'[Current].committed
        /\ FamilyOf(Current) = "evm" => rows'[Current].role = RoleOf[task.op]
    BY <1>2 DEF Prepare, SetRow, TypeOK, States
  <1>4. /\ task' \in AllocateTasks /\ task'.op = task.op /\ task'.number = task.number
        /\ task'.left = task.left /\ task'.at = "index"
    BY DEF Prepare, AllocateTasks, AllocateStages, RegistryPhase
  <1>5. /\ counters' \in [Roles -> 0 .. MaxNumber + 1]
        /\ \A r \in Roles : counters[r] <= counters'[r]
        /\ FamilyOf(Current) = "evm" => task.number < counters'[RoleOf[task.op]]
    <2>1. counters[RoleOf[task.op]] \in 0 .. MaxNumber + 1
      BY <1>2 DEF TypeOK
    <2>2. \A r \in Roles : counters[r] <= counters[r]
      BY RegistryAssumption DEF TypeOK
    <2>3. CASE FamilyOf(Current) = "evm"
      BY <1>2, <2>1, <2>2, <2>3, CounterAdvances DEF Prepare, TypeOK
    <2>4. CASE FamilyOf(Current) # "evm"
      BY <2>2, <2>4 DEF Prepare, TypeOK
    <2> QED
      BY <2>3, <2>4
  <1> USE <1>3, <1>4
  <1>6. TypeOK'
    BY <1>5, TaskTyped DEF TypeOK
  <1>7. ProcessInv'
    BY DEF ProcessInv, Receipted, RegistryPhase
  <1>8. NumbersInv'
    <2>1. ASSUME NEW c \in Children, rows'[c].state # "ABSENT", FamilyOf(c) = "evm"
          PROVE  rows'[c].role \in Roles /\ rows'[c].number < counters'[rows'[c].role]
      <3>1. CASE c = Current
        BY <1>2, <1>5, <2>1, <3>1
      <3>2. CASE c # Current
        <4>1. rows[c].role \in Roles /\ rows[c].number < counters[rows[c].role]
          BY <2>1, <3>2 DEF NumbersInv
        <4>2. rows[c].number \in Int /\ counters[rows[c].role] \in Int
                /\ counters'[rows[c].role] \in Int
          BY <4>1, <1>5 DEF TypeOK, Numbers
        <4> QED
          BY <3>2, <4>1, <4>2, <1>5
      <3> QED
        BY <3>1, <3>2
    <2>2. ASSUME NEW c \in Children, rows'[c].state # "ABSENT", ~Own(c)'
          PROVE  rows'[c].number < task'.number
      BY <2>2 DEF NumbersInv, Own
    <2>3. NumbersNotShared'
      <3> SUFFICES ASSUME NEW c \in Children, NEW d \in Children,
                          rows'[c].state # "ABSENT", rows'[d].state # "ABSENT",
                          OperationOf(c) # OperationOf(d)
                   PROVE  rows'[c].number # rows'[d].number
        BY DEF NumbersNotShared
      <3>1. rows[c].number \in Int /\ rows[d].number \in Int /\ task.number \in Int
        BY <1>2 DEF TypeOK, Numbers
      <3>2. CASE c = Current
        BY <3>1, <3>2 DEF NumbersInv, Own
      <3>3. CASE d = Current
        BY <3>1, <3>3 DEF NumbersInv, Own
      <3>4. CASE c # Current /\ d # Current
        BY <3>4 DEF NumbersInv, NumbersNotShared
      <3> QED
        BY <3>2, <3>3, <3>4
    <2> QED
      BY <2>1, <2>2, <2>3 DEF NumbersInv
  <1>9. StageInv'
    BY DEF StageInv, Own, InLeft, RegistryPhase, KeyPhase
  <1>10. CommitInv'
    BY DEF CommitInv, KeyPhase, Receipted
  <1>11. RetireInv'
    BY DEF RetireInv, RetirementHolds, RetireStages
  <1> QED
    BY <1>6, <1>7, <1>8, <1>9, <1>10, <1>11

LEMMA CommitRowKeeps ==
    ASSUME Inv, CommitIndex \/ CommitAccount
    PROVE  Inv'
  <1> USE DEF Inv
  <1>1. /\ Allocating /\ task.at \in {"index", "account"} /\ task.left # {}
        /\ rows[Current].state \in {"PREPARED", "INDEX_COMMITTED"}
        /\ UNCHANGED <<counters, tombstones, enrolled, record, receipts, phase, backend>>
    BY DEF CommitIndex, CommitAccount, ProcessInv, Allocating, AllocateStages, RegistryPhase
  <1> USE <1>1, AllocateStep
  <1>2. PICK st \in {"INDEX_COMMITTED", "ACCOUNT_COMMITTED"} : SetState(Current, st)
    BY DEF CommitIndex, CommitAccount
  <1>3. /\ rows' \in [Children -> [state : States, number : Numbers,
                                   role : Roles \union {"none"}, committed : BOOLEAN]]
        /\ rows'[Current].state = st
        /\ \A d \in Children : /\ d # Current => rows'[d].state = rows[d].state
                               /\ rows'[d].number = rows[d].number
                               /\ rows'[d].role = rows[d].role
                               /\ rows'[d].committed = rows[d].committed
    BY <1>2, StateSet DEF States
  <1>4. /\ task' \in AllocateTasks /\ task'.op = task.op /\ task'.number = task.number
        /\ task'.left = task.left /\ task'.at \in {"account", "activate"}
    BY DEF CommitIndex, CommitAccount, AllocateTasks, AllocateStages, RegistryPhase
  <1> USE <1>2, <1>3, <1>4
  <1>5. TypeOK'
    BY TaskTyped DEF TypeOK
  <1>6. ProcessInv'
    BY DEF ProcessInv, Receipted, RegistryPhase
  <1>7. NumbersInv'
    BY DEF NumbersInv, NumbersNotShared, Own
  <1>8. StageInv'
    BY DEF StageInv, Own, InLeft, RegistryPhase, KeyPhase
  <1>9. CommitInv'
    BY DEF CommitInv, KeyPhase, Receipted
  <1>10. RetireInv'
    BY DEF RetireInv, RetirementHolds, RetireStages
  <1> QED
    BY <1>5, <1>6, <1>7, <1>8, <1>9, <1>10

LEMMA ActivateKeeps ==
    ASSUME Inv, Activate
    PROVE  Inv'
  <1> USE DEF Inv
  <1>1. Allocating /\ task.at = "activate" /\ task.left # {} /\ rows[Current].state = "ACCOUNT_COMMITTED"
    BY DEF Activate, ProcessInv, Allocating, AllocateStages, RegistryPhase
  <1>2. UNCHANGED <<counters, tombstones, enrolled, record, receipts, phase, backend>>
    BY DEF Activate
  <1> USE <1>1, <1>2, AllocateStep
  <1>3. /\ rows' \in [Children -> [state : States, number : Numbers,
                                   role : Roles \union {"none"}, committed : BOOLEAN]]
        /\ rows'[Current].state = "ACTIVATED"
        /\ \A d \in Children : /\ d # Current => rows'[d].state = rows[d].state
                               /\ rows'[d].number = rows[d].number
                               /\ rows'[d].role = rows[d].role
                               /\ rows'[d].committed = rows[d].committed
    BY StateSet DEF Activate, States
  <1>4. /\ task' \in AllocateTasks
        /\ task'.op = task.op /\ task'.number = task.number
        /\ task'.left # {} /\ task'.left \subseteq FamiliesOf[task'.op]
        /\ \/ /\ task'.at = "register" /\ task.left = {FamilyOf(Current)}
              /\ task'.left = FamiliesOf[task.op]
           \/ task'.at = "prepare" /\ task'.left = task.left \ {FamilyOf(Current)}
    <2> USE DEF AllocateTasks, Activate, ProcessInv, Allocating, AllocateStages, RegistryPhase, KeyPhase
    <2>1. CASE task.left = {FamilyOf(Current)}
      BY <2>1
    <2>2. CASE task.left # {FamilyOf(Current)}
      BY <2>2
    <2> QED
      BY <2>1, <2>2
  <1> USE <1>3, <1>4
  <1>5. TypeOK'
    BY TaskTyped DEF TypeOK
  <1>6. ProcessInv'
    BY DEF ProcessInv, Receipted, RegistryPhase
  <1>7. NumbersInv'
    BY DEF NumbersInv, NumbersNotShared, Own
  <1>8. StageInv'
    BY ChildFacts DEF StageInv, Own, InLeft, RegistryPhase, KeyPhase
  <1>9. CommitInv'
    BY DEF CommitInv, Own, InLeft, KeyPhase, Receipted, ProcessInv
  <1>10. RetireInv'
    BY DEF RetireInv, RetirementHolds, RetireStages
  <1> QED
    BY <1>5, <1>6, <1>7, <1>8, <1>9, <1>10

LEMMA RegisterKeeps ==
    ASSUME Inv, Register
    PROVE  Inv'
  <1> USE DEF Inv
  <1>1. /\ Allocating /\ task.at = "register" /\ task.left # {}
        /\ UNCHANGED <<durable, phase>>
    BY DEF Register, ProcessInv, Allocating, AllocateStages, KeyPhase
  <1> USE <1>1, AllocateStep DEF durable
  <1>2. /\ backend' \in Records
        /\ backend'.registered = backend.registered \union {Current}
        /\ backend'.pending = backend.pending \union {Current}
    BY DEF Register, Registered, TypeOK, Records
  <1>3. /\ task' \in AllocateTasks /\ task'.op = task.op /\ task'.number = task.number
        /\ task'.left = task.left /\ task'.at = "enroll"
    BY DEF Register, AllocateTasks, AllocateStages, KeyPhase
  <1>4. rows[Current].state = "ACTIVATED"
    BY DEF StageInv, Own, KeyPhase
  <1> USE <1>2, <1>3, <1>4
  <1>5. TypeOK'
    BY TaskTyped DEF TypeOK
  <1>6. ProcessInv'
    BY DEF ProcessInv, Receipted, RegistryPhase
  <1>7. NumbersInv'
    BY DEF NumbersInv, NumbersNotShared, Own
  <1>8. StageInv'
    BY DEF StageInv, Own, InLeft, RegistryPhase, KeyPhase
  <1>9. CommitInv'
    BY DEF CommitInv, KeyPhase, Receipted, Own
  <1>10. RetireInv'
    BY DEF RetireInv, RetirementHolds, RetireStages
  <1> QED
    BY <1>5, <1>6, <1>7, <1>8, <1>9, <1>10

LEMMA EnrollKeeps ==
    ASSUME Inv, Enroll
    PROVE  Inv'
  <1> USE DEF Inv
  <1>1. /\ Allocating /\ task.at = "enroll" /\ task.left # {}
        /\ UNCHANGED <<rows, counters, tombstones, record, receipts, phase, backend>>
    BY DEF Enroll, ProcessInv, Allocating, AllocateStages, KeyPhase
  <1> USE <1>1, AllocateStep
  <1>2. /\ enrolled' \in [Children -> {"absent", "available", "unavailable"}]
        /\ \A d \in Children : d # Current => enrolled'[d] = enrolled[d]
    BY DEF Enroll, TypeOK
  <1>3. /\ task' \in AllocateTasks /\ task'.op = task.op /\ task'.number = task.number
        /\ task'.left = task.left \ {FamilyOf(Current)}
        /\ \/ task'.at = "refresh" /\ task'.left = {}
           \/ task'.at = "register" /\ task'.left # {}
    <2> USE DEF Enroll, AllocateTasks, AllocateStages, KeyPhase
    <2>1. CASE task.left = {FamilyOf(Current)}
      BY <2>1
    <2>2. CASE task.left # {FamilyOf(Current)}
      BY <2>2
    <2> QED
      BY <2>1, <2>2
  <1>4. rows[Current].state = "ACTIVATED" /\ Current \in backend.registered
    BY DEF StageInv, Own, KeyPhase
  <1> USE <1>2, <1>3, <1>4
  <1>5. TypeOK'
    BY TaskTyped DEF TypeOK
  <1>6. ProcessInv'
    BY DEF ProcessInv, Receipted, RegistryPhase
  <1>7. NumbersInv'
    BY DEF NumbersInv, NumbersNotShared, Own
  <1>8. StageInv'
    BY DEF StageInv, Own, InLeft, RegistryPhase, KeyPhase
  <1>9. CommitInv'
    BY DEF CommitInv, KeyPhase, Receipted, Own
  <1>10. RetireInv'
    BY DEF RetireInv, RetirementHolds, RetireStages
  <1> QED
    BY <1>5, <1>6, <1>7, <1>8, <1>9, <1>10

LEMMA RefreshKeeps ==
    ASSUME Inv, Refresh
    PROVE  Inv'
  <1> USE DEF Inv
  <1>1. /\ Allocating /\ task.at = "refresh" /\ task.left = {}
        /\ record' = backend
        /\ UNCHANGED <<rows, counters, tombstones, enrolled, receipts, phase, backend>>
    BY DEF Refresh, ProcessInv, Allocating, AllocateStages, KeyPhase
  <1> USE <1>1, AllocateStep
  <1>2. /\ task' \in AllocateTasks /\ task'.op = task.op /\ task'.number = task.number
        /\ task'.left = task.left /\ task'.at = "commit"
    BY DEF Refresh, AllocateTasks, AllocateStages, KeyPhase
  <1> USE <1>2
  <1>3. TypeOK'
    BY TaskTyped DEF TypeOK
  <1>4. ProcessInv'
    BY DEF ProcessInv, Receipted, RegistryPhase
  <1>5. NumbersInv'
    BY DEF NumbersInv, NumbersNotShared, Own
  <1>6. StageInv'
    BY DEF StageInv, Own, InLeft, RegistryPhase, KeyPhase
  <1>7. CommitInv'
    BY DEF CommitInv, KeyPhase, Receipted, Own
  <1>8. RetireInv'
    BY DEF RetireInv, RetirementHolds, RetireStages
  <1> QED
    BY <1>3, <1>4, <1>5, <1>6, <1>7, <1>8

\* The commit marks exactly the rows of the operation, which by then are active,
\* in memory and in the record.
LEMMA CommitAllocationKeeps ==
    ASSUME Inv, CommitAllocation
    PROVE  Inv'
  <1> USE DEF Inv
  <1>1. /\ Allocating /\ task.at = "commit" /\ task.left = {} /\ task' = NoTask
        /\ UNCHANGED <<counters, tombstones, enrolled, record, phase>>
    BY DEF CommitAllocation, ProcessInv, Allocating, AllocateStages, KeyPhase
  <1> USE <1>1, AllocateStep
  <1>2. /\ rows' \in [Children -> [state : States, number : Numbers,
                                   role : Roles \union {"none"}, committed : BOOLEAN]]
        /\ \A c \in Children : /\ rows'[c].state = rows[c].state
                               /\ rows'[c].number = rows[c].number
                               /\ rows'[c].role = rows[c].role
                               /\ rows'[c].committed = (rows[c].committed \/ Own(c))
    BY DEF CommitAllocation, MarkCommitted, TypeOK, Own
  <1>3. /\ receipts' = receipts \union {[kind |-> "allocate", op |-> task.op]}
        /\ receipts' \subseteq [kind : {"allocate"}, op : Operations]
                                 \union [kind : {"retire"}, child : Children]
    BY DEF CommitAllocation, TypeOK, AllocateTasks
  <1>4. /\ backend' \in Records /\ backend'.registered = backend.registered
        /\ \A c \in Children : ~Own(c) /\ c \in backend.pending => c \in backend'.pending
    BY ChildFacts DEF CommitAllocation, TypeOK, Records, Own, OperationOf
  <1>5. \A c \in Children : Own(c) =>
            rows[c].state = "ACTIVATED" /\ c \in record.registered /\ c \in backend.registered
    BY DEF StageInv, InLeft, KeyPhase
  <1>6. \A c \in Children : [kind |-> "retire", child |-> c] \in receipts'
                              => [kind |-> "retire", child |-> c] \in receipts
    BY <1>3
  <1>7. \A op \in Operations : Receipted(op)' <=> Receipted(op) \/ op = task.op
    BY <1>3 DEF Receipted
  <1> USE <1>2, <1>4, <1>5, <1>6, <1>7
  <1>8. TypeOK'
    BY <1>3, TaskTyped DEF TypeOK
  <1>9. ProcessInv'
    BY DEF ProcessInv, RegistryPhase, NoTask, Allocating, AllocateStages, KeyPhase
  <1>10. NumbersInv'
    BY DEF NumbersInv, NumbersNotShared, NoTask, Allocating, AllocateStages, RegistryPhase, KeyPhase
  <1>11. StageInv'
    BY DEF StageInv, RegistryPhase, KeyPhase, NoTask
  <1>12. CommitInv'
    <2>1. \A c \in Children : rows'[c].committed => Receipted(OperationOf(c))'
      BY ChildFacts DEF CommitInv, Own
    <2>2. \A c \in Children : ~rows'[c].committed => c \notin backend'.registered
      BY DEF CommitInv, KeyPhase
    <2> QED
      BY <2>1, <2>2 DEF CommitInv
  <1>13. RetireInv'
    BY DEF RetireInv, RetirementHolds, RetireStages, NoTask
  <1> QED
    BY <1>8, <1>9, <1>10, <1>11, <1>12, <1>13

\* A failure leaves to the rollback exactly the children this attempt activated.
LEMMA FailStepKeeps ==
    ASSUME Inv, FailStep
    PROVE  Inv'
  <1> USE DEF Inv
  <1>1. /\ Allocating /\ UNCHANGED <<durable, phase, backend>>
        /\ task.at \in (RegistryPhase \union KeyPhase) \ {"choose"}
    BY DEF FailStep, Allocating, AllocateStages, RegistryPhase, KeyPhase
  <1> USE <1>1, AllocateStep DEF durable
  <1>2. /\ Abandoned \subseteq FamiliesOf[task.op]
        /\ task.at \in RegistryPhase => Abandoned = FamiliesOf[task.op] \ task.left
        /\ task.at \in KeyPhase => Abandoned = FamiliesOf[task.op]
    BY DEF Abandoned, RegistryPhase, KeyPhase
  <1>3. \/ task' = NoTask /\ Abandoned = {}
        \/ /\ task' \in AllocateTasks /\ task'.op = task.op /\ task'.number = task.number
           /\ task'.left = Abandoned /\ task'.at = "rollback" /\ Abandoned # {}
    BY <1>2 DEF FailStep, AllocateTasks, AllocateStages
  <1>4. \A c \in Children : Own(c) => FamilyOf(c) \in FamiliesOf[task.op]
    BY ChildFacts DEF Own
  <1> USE <1>2, <1>3, <1>4
  <1>5. TypeOK'
    BY TaskTyped DEF TypeOK
  <1>6. ProcessInv'
    BY DEF ProcessInv, Receipted, RegistryPhase, NoTask, Allocating, AllocateStages, KeyPhase
  <1>7. NumbersInv'
    BY DEF NumbersInv, NumbersNotShared, Own, NoTask, Allocating, AllocateStages,
       RegistryPhase, KeyPhase
  <1>8. StageInv'
    BY DEF StageInv, Own, InLeft, RegistryPhase, KeyPhase, NoTask
  <1>9. CommitInv'
    BY DEF CommitInv, RegistryPhase, KeyPhase, Receipted, Own, InLeft, NoTask
  <1>10. RetireInv'
    BY DEF RetireInv, RetirementHolds, RetireStages, NoTask
  <1> QED
    BY <1>5, <1>6, <1>7, <1>8, <1>9, <1>10

\* Hiding an enrollment only makes it unavailable.
LEMMA HideEffect ==
    ASSUME TypeOK, NEW c \in Children, Hide(c)
    PROVE  /\ enrolled' \in [Children -> {"absent", "available", "unavailable"}]
           /\ \A d \in Children : d # c => enrolled'[d] = enrolled[d]
           /\ enrolled'[c] # "available"
           /\ enrolled[c] # "absent" => enrolled'[c] = "unavailable"
  BY DEF TypeOK, Hide

LEMMA RollbackHideKeeps ==
    ASSUME Inv, RollbackHide
    PROVE  Inv'
  <1> USE DEF Inv
  <1>1. /\ Allocating /\ task.at = "rollback" /\ task.left # {}
        /\ UNCHANGED <<rows, counters, tombstones, record, receipts, phase, backend>>
    BY DEF RollbackHide, ProcessInv, Allocating, AllocateStages
  <1> USE <1>1, AllocateStep
  <1>2. /\ enrolled' \in [Children -> {"absent", "available", "unavailable"}]
        /\ \A d \in Children : d # Current => enrolled'[d] = enrolled[d]
        /\ enrolled'[Current] = "available" => enrolled[Current] = "available"
    <2>1. CASE Hide(Current)
      BY <2>1, HideEffect
    <2>2. CASE UNCHANGED enrolled
      BY <2>2 DEF TypeOK
    <2> QED
      BY <2>1, <2>2 DEF RollbackHide
  <1>3. /\ task' \in AllocateTasks /\ task'.op = task.op /\ task'.number = task.number
        /\ task'.left = task.left /\ task'.at = task.at
    BY DEF RollbackHide, AllocateTasks
  <1>4. rows[Current].state = "ACTIVATED"
    BY DEF StageInv, Own, InLeft
  <1> USE <1>2, <1>3, <1>4
  <1>5. TypeOK'
    BY TaskTyped DEF TypeOK
  <1>6. ProcessInv'
    BY DEF ProcessInv, Receipted, RegistryPhase
  <1>7. NumbersInv'
    BY DEF NumbersInv, NumbersNotShared, Own
  <1>8. StageInv'
    BY DEF StageInv, Own, InLeft, RegistryPhase, KeyPhase
  <1>9. CommitInv'
    BY DEF CommitInv, KeyPhase, Receipted, Own, InLeft
  <1>10. RetireInv'
    BY DEF RetireInv, RetirementHolds, RetireStages
  <1> QED
    BY <1>5, <1>6, <1>7, <1>8, <1>9, <1>10

\* A tombstone changes the state of one row and keeps its number.
LEMMA TombstoneEffect ==
    ASSUME Inv, NEW c \in Children, rows[c].state # "ABSENT", TombstoneRow(c)
    PROVE  /\ rows' \in [Children -> [state : States, number : Numbers,
                                      role : Roles \union {"none"}, committed : BOOLEAN]]
           /\ rows'[c].state = "TOMBSTONED"
           /\ \A d \in Children : /\ d # c => rows'[d].state = rows[d].state
                                  /\ rows'[d].number = rows[d].number
                                  /\ rows'[d].role = rows[d].role
                                  /\ rows'[d].committed = rows[d].committed
           /\ tombstones' \subseteq Roles \X Numbers
  <1>1. SetState(c, "TOMBSTONED") /\ "TOMBSTONED" \in States
    BY DEF TombstoneRow, States
  <1>2. tombstones' \subseteq Roles \X Numbers
    <2>1. CASE FamilyOf(c) = "evm"
      <3>1. rows[c].role \in Roles /\ rows[c].number \in Numbers
        BY <2>1 DEF Inv, NumbersInv, TypeOK
      <3> QED
        BY <2>1, <3>1 DEF TombstoneRow, Inv, TypeOK
    <2>2. CASE FamilyOf(c) # "evm"
      BY <2>2 DEF TombstoneRow, Inv, TypeOK
    <2> QED
      BY <2>1, <2>2
  <1> QED
    BY <1>1, <1>2, StateSet DEF Inv

LEMMA WithoutTyped ==
    ASSUME NEW r \in Records, NEW c
    PROVE  /\ Without(r, c) \in Records
           /\ Without(r, c).registered = r.registered \ {c}
           /\ Without(r, c).pending = r.pending \ {c}
  BY DEF Without, Records

\* Whether or not the tombstone could be written, the child is out of memory.
LEMMA RollbackTombstoneKeeps ==
    ASSUME Inv, RollbackTombstone
    PROVE  Inv'
  <1> USE DEF Inv
  <1>1. /\ Allocating /\ task.at = "rollback" /\ task.left # {}
        /\ UNCHANGED <<counters, enrolled, record, receipts, phase>>
    BY DEF RollbackTombstone, ProcessInv, Allocating, AllocateStages
  <1> USE <1>1, AllocateStep
  <1>2. rows[Current].state = "ACTIVATED" /\ ~rows[Current].committed
    BY DEF StageInv, Own, InLeft, CommitInv, ProcessInv
  <1>3. /\ rows' \in [Children -> [state : States, number : Numbers,
                                   role : Roles \union {"none"}, committed : BOOLEAN]]
        /\ \/ rows'[Current].state = "TOMBSTONED" /\ enrolled[Current] # "available"
           \/ rows'[Current].state = rows[Current].state
        /\ \A d \in Children : /\ d # Current => rows'[d].state = rows[d].state
                               /\ rows'[d].number = rows[d].number
                               /\ rows'[d].role = rows[d].role
                               /\ rows'[d].committed = rows[d].committed
        /\ tombstones' \subseteq Roles \X Numbers
    <2>1. CASE enrolled[Current] # "available" /\ TombstoneRow(Current)
      BY <1>2, <2>1, TombstoneEffect
    <2>2. CASE UNCHANGED <<rows, tombstones>>
      BY <2>2 DEF TypeOK
    <2> QED
      BY <2>1, <2>2 DEF RollbackTombstone
  <1>4. /\ backend' \in Records
        /\ backend'.registered = backend.registered \ {Current}
        /\ backend'.pending = backend.pending \ {Current}
    BY WithoutTyped DEF RollbackTombstone, DropFromBackend, TypeOK
  <1>5. \/ task' = NoTask /\ task.left = {FamilyOf(Current)}
        \/ /\ task' \in AllocateTasks /\ task'.op = task.op /\ task'.number = task.number
           /\ task'.left = task.left \ {FamilyOf(Current)} /\ task'.left # {}
           /\ task'.at = "rollback"
    <2> USE DEF RollbackTombstone, AllocateTasks
    <2>1. CASE task.left = {FamilyOf(Current)}
      BY <2>1
    <2>2. CASE task.left # {FamilyOf(Current)}
      BY <2>2
    <2> QED
      BY <2>1, <2>2
  <1> USE <1>2, <1>3, <1>4, <1>5
  <1>6. TypeOK'
    BY TaskTyped DEF TypeOK
  <1>7. ProcessInv'
    BY DEF ProcessInv, Receipted, RegistryPhase, NoTask, Allocating, AllocateStages, KeyPhase
  <1>8. NumbersInv'
    BY SMTT(20) DEF NumbersInv, NumbersNotShared, Own, NoTask, Allocating, AllocateStages,
       RegistryPhase, KeyPhase
  <1>9. StageInv'
    BY DEF StageInv, Own, InLeft, RegistryPhase, KeyPhase, NoTask
  <1>10. CommitInv'
    BY DEF CommitInv, KeyPhase, Receipted, Own, InLeft, NoTask
  <1>11. RetireInv'
    BY DEF RetireInv, RetirementHolds, RetireStages, NoTask
  <1> QED
    BY <1>6, <1>7, <1>8, <1>9, <1>10, <1>11

-----------------------------------------------------------------------------
(* The steps of a retirement *)

\* What the steps of a retirement rely on: no allocation runs, so memory holds
\* committed children only.
LEMMA RetireStep ==
    ASSUME Inv, Retiring
    PROVE  /\ task \in RetireTasks /\ task.child \in Children /\ phase = "up"
           /\ ~Allocating /\ task.at \notin RegistryPhase \union KeyPhase \union {"rollback"}
           /\ \A c \in Children : c \in backend.registered => rows[c].committed
  <1>1. task \in RetireTasks /\ task.child \in Children
    BY RetireTask DEF Inv, RetireTasks
  <1>2. task # NoTask
    BY DEF Retiring, RetireStages, NoTask
  <1>3. ~Allocating /\ task.at \notin RegistryPhase \union KeyPhase \union {"rollback"}
    BY DEF Retiring, RetireStages, Allocating, AllocateStages, RegistryPhase, KeyPhase
  <1> QED
    BY <1>1, <1>2, <1>3 DEF Inv, ProcessInv, CommitInv

\* Steps that only start or end a retirement.
LEMMA RetireEdgeKeeps ==
    ASSUME Inv, NEW c \in Children, BeginRetire(c) \/ FailRetire
    PROVE  Inv'
  <1> USE DEF Inv
  <1>1. /\ ~Allocating /\ task.at \notin RegistryPhase \union KeyPhase \union {"rollback"}
        /\ phase = "up" /\ UNCHANGED <<durable, phase, backend>>
    <2>1. CASE BeginRetire(c)
      BY <2>1 DEF BeginRetire, NoTask, Allocating, AllocateStages, RegistryPhase, KeyPhase
    <2>2. CASE FailRetire
      BY <2>2, RetireStep DEF FailRetire, Retiring, RetireStages
    <2> QED
      BY <2>1, <2>2
  <1>2. \/ task' = NoTask
        \/ task' \in RetireTasks /\ task'.at = "retire" /\ task'.child = c
    BY DEF BeginRetire, FailRetire, RetireTasks, RetireStages
  <1>3. task'.at \in {"none", "retire"} /\ ~Allocating'
    BY <1>2 DEF NoTask, Allocating, AllocateStages, RegistryPhase, KeyPhase
  <1> USE <1>1, <1>3 DEF durable
  <1>4. TypeOK'
    BY <1>2, TaskTyped DEF TypeOK
  <1>5. ProcessInv'
    BY DEF ProcessInv, RegistryPhase
  <1>6. NumbersInv'
    BY DEF NumbersInv, NumbersNotShared
  <1>7. StageInv'
    BY DEF StageInv, RegistryPhase, KeyPhase
  <1>8. CommitInv'
    BY DEF CommitInv, Receipted
  <1>9. RetireInv'
    BY DEF RetireInv, RetirementHolds, RetireStages
  <1> QED
    BY <1>4, <1>5, <1>6, <1>7, <1>8, <1>9

LEMMA RetireKeeps ==
    ASSUME Inv, Retire
    PROVE  Inv'
  <1> USE DEF Inv
  <1>1. /\ Retiring /\ task.at = "retire" /\ rows[task.child].state = "ACTIVATED"
        /\ UNCHANGED <<counters, tombstones, enrolled, record, receipts, phase, backend>>
    BY DEF Retire, Retiring, RetireStages
  <1> USE <1>1, RetireStep
  <1>2. /\ rows' \in [Children -> [state : States, number : Numbers,
                                   role : Roles \union {"none"}, committed : BOOLEAN]]
        /\ rows'[task.child].state = "RETIRED"
        /\ \A d \in Children : /\ d # task.child => rows'[d].state = rows[d].state
                               /\ rows'[d].number = rows[d].number
                               /\ rows'[d].role = rows[d].role
                               /\ rows'[d].committed = rows[d].committed
    BY StateSet DEF Retire, States
  <1>3. task' \in RetireTasks /\ task'.at = "retire_backend" /\ task'.child = task.child
    BY DEF Retire, RetireTasks, RetireStages
  <1>4. ~Allocating'
    BY <1>3 DEF Allocating, AllocateStages, RegistryPhase, KeyPhase
  <1> USE <1>2, <1>3, <1>4
  <1>5. TypeOK'
    BY TaskTyped DEF TypeOK
  <1>6. ProcessInv'
    BY DEF ProcessInv, RegistryPhase
  <1>7. NumbersInv'
    BY DEF NumbersInv, NumbersNotShared
  <1>8. StageInv'
    BY DEF StageInv, RegistryPhase, KeyPhase
  <1>9. CommitInv'
    BY DEF CommitInv, Receipted
  <1>10. RetireInv'
    BY DEF RetireInv, RetirementHolds, RetireStages
  <1> QED
    BY <1>5, <1>6, <1>7, <1>8, <1>9, <1>10

LEMMA RetireBackendKeeps ==
    ASSUME Inv, RetireBackend
    PROVE  Inv'
  <1> USE DEF Inv
  <1>1. Retiring /\ task.at = "retire_backend" /\ UNCHANGED <<durable, phase>>
    BY DEF RetireBackend, Retiring, RetireStages
  <1> USE <1>1, RetireStep DEF durable
  <1>2. /\ backend' \in Records
        /\ backend'.registered = backend.registered \ {task.child}
        /\ backend'.pending = backend.pending \ {task.child}
    BY WithoutTyped DEF RetireBackend, TypeOK
  <1>3. task' \in RetireTasks /\ task'.at = "deactivate" /\ task'.child = task.child
    BY DEF RetireBackend, RetireTasks, RetireStages
  <1>4. ~Allocating' /\ rows[task.child].state = "RETIRED"
    BY <1>3 DEF RetireInv, RetireStages, Allocating, AllocateStages, RegistryPhase, KeyPhase
  <1> USE <1>2, <1>3, <1>4
  <1>5. TypeOK'
    BY TaskTyped DEF TypeOK
  <1>6. ProcessInv'
    BY DEF ProcessInv, RegistryPhase
  <1>7. NumbersInv'
    BY DEF NumbersInv, NumbersNotShared
  <1>8. StageInv'
    BY DEF StageInv, RegistryPhase, KeyPhase
  <1>9. CommitInv'
    BY DEF CommitInv, Receipted
  <1>10. RetireInv'
    BY DEF RetireInv, RetirementHolds, RetireStages
  <1> QED
    BY <1>5, <1>6, <1>7, <1>8, <1>9, <1>10

LEMMA DeactivateKeeps ==
    ASSUME Inv, Deactivate
    PROVE  Inv'
  <1> USE DEF Inv
  <1>1. /\ Retiring /\ task.at = "deactivate"
        /\ UNCHANGED <<rows, counters, tombstones, record, receipts, phase, backend>>
    BY DEF Deactivate, Retiring, RetireStages
  <1> USE <1>1, RetireStep
  <1>2. /\ enrolled' \in [Children -> {"absent", "available", "unavailable"}]
        /\ \A d \in Children : d # task.child => enrolled'[d] = enrolled[d]
        /\ enrolled'[task.child] = "unavailable"
    BY HideEffect DEF Deactivate
  <1>3. task' \in RetireTasks /\ task'.at = "retire_refresh" /\ task'.child = task.child
    BY DEF Deactivate, RetireTasks, RetireStages
  <1>4. ~Allocating'
    BY <1>3 DEF Allocating, AllocateStages, RegistryPhase, KeyPhase
  <1> USE <1>2, <1>3, <1>4
  <1>5. TypeOK'
    BY TaskTyped DEF TypeOK
  <1>6. ProcessInv'
    BY DEF ProcessInv, RegistryPhase
  <1>7. NumbersInv'
    BY DEF NumbersInv, NumbersNotShared
  <1>8. StageInv'
    BY DEF StageInv, RegistryPhase, KeyPhase
  <1>9. CommitInv'
    BY DEF CommitInv, Receipted
  <1>10. RetireInv'
    BY DEF RetireInv, RetirementHolds, RetireStages
  <1> QED
    BY <1>5, <1>6, <1>7, <1>8, <1>9, <1>10

LEMMA RetireRefreshKeeps ==
    ASSUME Inv, RetireRefresh
    PROVE  Inv'
  <1> USE DEF Inv
  <1>1. /\ Retiring /\ task.at = "retire_refresh" /\ record' = backend
        /\ UNCHANGED <<rows, counters, tombstones, enrolled, receipts, phase, backend>>
    BY DEF RetireRefresh, Retiring, RetireStages
  <1> USE <1>1, RetireStep
  <1>2. task' \in RetireTasks /\ task'.at = "retire_commit" /\ task'.child = task.child
    BY DEF RetireRefresh, RetireTasks, RetireStages
  <1>3. ~Allocating'
    BY <1>2 DEF Allocating, AllocateStages, RegistryPhase, KeyPhase
  <1> USE <1>2, <1>3
  <1>4. TypeOK'
    BY TaskTyped DEF TypeOK
  <1>5. ProcessInv'
    BY DEF ProcessInv, RegistryPhase
  <1>6. NumbersInv'
    BY DEF NumbersInv, NumbersNotShared
  <1>7. StageInv'
    BY DEF StageInv, RegistryPhase, KeyPhase
  <1>8. CommitInv'
    BY DEF CommitInv, Receipted
  <1>9. RetireInv'
    BY DEF RetireInv, RetirementHolds, RetireStages
  <1> QED
    BY <1>4, <1>5, <1>6, <1>7, <1>8, <1>9

\* The receipt is written when all three places have forgotten the child.
LEMMA CommitRetirementKeeps ==
    ASSUME Inv, CommitRetirement
    PROVE  Inv'
  <1> USE DEF Inv
  <1>1. /\ Retiring /\ task.at = "retire_commit" /\ task' = NoTask
        /\ UNCHANGED <<rows, counters, tombstones, enrolled, record, phase, backend>>
    BY DEF CommitRetirement, Retiring, RetireStages
  <1> USE <1>1, RetireStep
  <1>2. /\ receipts' \subseteq [kind : {"allocate"}, op : Operations]
                                 \union [kind : {"retire"}, child : Children]
        /\ \A op \in Operations : Receipted(op)' <=> Receipted(op)
        /\ \A c \in Children : [kind |-> "retire", child |-> c] \in receipts'
              => [kind |-> "retire", child |-> c] \in receipts \/ c = task.child
    BY DEF CommitRetirement, TypeOK, Receipted
  <1>3. ~Allocating' /\ task'.at = "none"
    BY DEF NoTask, Allocating, AllocateStages, RegistryPhase, KeyPhase
  <1> USE <1>2, <1>3
  <1>4. TypeOK'
    BY TaskTyped DEF TypeOK
  <1>5. ProcessInv'
    BY DEF ProcessInv, RegistryPhase
  <1>6. NumbersInv'
    BY DEF NumbersInv, NumbersNotShared
  <1>7. StageInv'
    BY DEF StageInv, RegistryPhase, KeyPhase
  <1>8. CommitInv'
    BY ChildFacts DEF CommitInv
  <1>9. RetireInv'
    BY DEF RetireInv, RetirementHolds, RetireStages
  <1> QED
    BY <1>4, <1>5, <1>6, <1>7, <1>8, <1>9

-----------------------------------------------------------------------------
(* Crash, restart and recovery *)

LEMMA CrashKeeps ==
    ASSUME Inv, Crash \/ Restart
    PROVE  Inv'
  <1> USE DEF Inv
  <1>1. /\ UNCHANGED durable /\ phase' \in {"down", "recovering"}
        /\ backend' = EmptyRecord /\ task' = NoTask
    BY DEF Crash, Restart, ProcessInv
  <1>2. task'.at = "none" /\ ~Allocating' /\ NoTask \in Tasks
    BY <1>1, TaskTyped DEF NoTask, Allocating, AllocateStages, RegistryPhase, KeyPhase
  <1>3. /\ backend' \in Records
        /\ backend'.registered = {} /\ backend'.pending = {}
    BY <1>1 DEF EmptyRecord, Records
  <1> USE <1>1, <1>2, <1>3 DEF durable
  <1>4. TypeOK'
    BY DEF TypeOK
  <1>5. ProcessInv'
    BY DEF ProcessInv, RegistryPhase
  <1>6. NumbersInv'
    BY DEF NumbersInv, NumbersNotShared
  <1>7. StageInv'
    BY DEF StageInv, RegistryPhase, KeyPhase
  <1>8. CommitInv'
    BY DEF CommitInv, Receipted
  <1>9. RetireInv'
    BY DEF RetireInv, RetirementHolds, RetireStages
  <1> QED
    BY <1>4, <1>5, <1>6, <1>7, <1>8, <1>9

\* recover_incomplete_bip39_allocations touches uncommitted rows only.
LEMMA RecoverKeeps ==
    ASSUME Inv, NEW c \in Children, RecoverHide(c) \/ RecoverTombstone(c)
    PROVE  Inv'
  <1> USE DEF Inv
  <1>1. /\ phase = "recovering" /\ rows[c].state = "ACTIVATED" /\ ~rows[c].committed
        /\ task = NoTask /\ task.at = "none" /\ ~Allocating /\ backend.registered = {}
        /\ UNCHANGED <<counters, record, receipts, phase, backend, task>>
    BY DEF RecoverHide, RecoverTombstone, Incomplete, ProcessInv, NoTask, EmptyRecord,
       Allocating, AllocateStages, RegistryPhase, KeyPhase
  <1>2. /\ rows' \in [Children -> [state : States, number : Numbers,
                                   role : Roles \union {"none"}, committed : BOOLEAN]]
        /\ rows'[c].state \in {"ACTIVATED", "TOMBSTONED"}
        /\ rows'[c].state # "ACTIVATED" => enrolled'[c] # "available"
        /\ \A d \in Children : /\ d # c => rows'[d].state = rows[d].state
                               /\ rows'[d].number = rows[d].number
                               /\ rows'[d].role = rows[d].role
                               /\ rows'[d].committed = rows[d].committed
        /\ tombstones' \subseteq Roles \X Numbers
        /\ enrolled' \in [Children -> {"absent", "available", "unavailable"}]
        /\ \A d \in Children : d # c => enrolled'[d] = enrolled[d]
    <2>1. CASE RecoverHide(c)
      BY <1>1, <2>1, HideEffect DEF RecoverHide, TypeOK
    <2>2. CASE RecoverTombstone(c)
      BY <1>1, <2>2, TombstoneEffect DEF RecoverTombstone, TypeOK
    <2> QED
      BY <2>1, <2>2
  <1>3. ~Allocating'
    BY <1>1 DEF Allocating
  <1> USE <1>1, <1>2, <1>3
  <1>4. TypeOK'
    BY DEF TypeOK
  <1>5. ProcessInv'
    BY DEF ProcessInv, RegistryPhase
  <1>6. NumbersInv'
    BY DEF NumbersInv, NumbersNotShared
  <1>7. StageInv'
    BY DEF StageInv, RegistryPhase, KeyPhase
  <1>8. CommitInv'
    BY DEF CommitInv, Receipted
  <1>9. RetireInv'
    BY DEF RetireInv, RetirementHolds, RetireStages
  <1> QED
    BY <1>4, <1>5, <1>6, <1>7, <1>8, <1>9

\* What the record restores is committed: the rest of it is pending.
LEMMA RestoreBackendKeeps ==
    ASSUME Inv, RestoreBackend
    PROVE  Inv'
  <1> USE DEF Inv
  <1>1. /\ task = NoTask /\ task.at = "none" /\ ~Allocating /\ phase' = "up"
        /\ UNCHANGED <<durable, task>>
    BY DEF RestoreBackend, ProcessInv, NoTask, Allocating, AllocateStages, RegistryPhase, KeyPhase
  <1>2. /\ backend' \in Records /\ backend'.pending = {}
        /\ backend'.registered = record.registered \ (record.pending \ CommittedPending)
    BY DEF RestoreBackend, TypeOK, Records
  <1>3. \A c \in Children : c \in backend'.registered => rows[c].committed
    BY <1>2 DEF CommittedPending, CommitInv
  <1>4. \A c \in Children : rows[c].committed /\ rows[c].state = "ACTIVATED"
                              => c \in backend'.registered
    BY <1>2 DEF CommittedPending, CommitInv
  <1>5. backend'.registered \subseteq record.registered
    BY <1>2
  <1>6. ~Allocating'
    BY <1>1 DEF Allocating
  <1> USE <1>1, <1>3, <1>4, <1>5, <1>6 DEF durable
  <1>7. TypeOK'
    BY <1>2 DEF TypeOK
  <1>8. ProcessInv'
    BY DEF ProcessInv, RegistryPhase
  <1>9. NumbersInv'
    BY DEF NumbersInv, NumbersNotShared
  <1>10. StageInv'
    BY DEF StageInv, RegistryPhase, KeyPhase
  <1>11. CommitInv'
    BY DEF CommitInv, Receipted
  <1>12. RetireInv'
    BY DEF RetireInv, RetirementHolds, RetireStages
  <1> QED
    BY <1>7, <1>8, <1>9, <1>10, <1>11, <1>12

-----------------------------------------------------------------------------
(* The theorems *)

LEMMA InvNext ==
    ASSUME Inv, [Next]_vars
    PROVE  Inv'
  <1>1. CASE \E op \in Operations : Begin(op)
    BY <1>1, BeginKeeps
  <1>2. CASE AllocateSteps
    BY <1>2, ChooseKeeps, PrepareKeeps, CommitRowKeeps, ActivateKeeps, RegisterKeeps, EnrollKeeps,
       RefreshKeeps, CommitAllocationKeeps, FailStepKeeps, RollbackHideKeeps,
       RollbackTombstoneKeeps DEF AllocateSteps
  <1>3. CASE \E c \in Children : BeginRetire(c)
    BY <1>3, RetireEdgeKeeps
  <1>4. CASE RetireSteps
    <2>1. CASE FailRetire
      <3>1. task.child \in Children
        BY <2>1, RetireStep DEF FailRetire, Retiring, RetireStages
      <3> QED
        BY <2>1, <3>1, RetireEdgeKeeps
    <2> QED
      BY <1>4, <2>1, RetireKeeps, RetireBackendKeeps, DeactivateKeeps, RetireRefreshKeeps,
         CommitRetirementKeeps DEF RetireSteps
  <1>5. CASE Crash \/ Restart
    BY <1>5, CrashKeeps
  <1>6. CASE \E c \in Children : RecoverHide(c) \/ RecoverTombstone(c)
    BY <1>6, RecoverKeeps
  <1>7. CASE RestoreBackend
    BY <1>7, RestoreBackendKeeps
  <1>8. CASE UNCHANGED vars
    <2> USE <1>8 DEF vars, durable
    <2>1. TypeOK'
      BY DEF Inv, TypeOK
    <2>2. ProcessInv'
      BY DEF Inv, ProcessInv, Allocating, Receipted
    <2>3. NumbersInv'
      BY DEF Inv, NumbersInv, NumbersNotShared, Allocating, Own
    <2>4. StageInv'
      BY DEF Inv, StageInv, Own, InLeft
    <2>5. CommitInv'
      BY DEF Inv, CommitInv, Own, InLeft, Receipted
    <2>6. RetireInv'
      BY DEF Inv, RetireInv, RetirementHolds
    <2> QED
      BY <2>1, <2>2, <2>3, <2>4, <2>5, <2>6 DEF Inv
  <1> QED
    BY <1>1, <1>2, <1>3, <1>4, <1>5, <1>6, <1>7, <1>8 DEF Next

\* The inductive invariant of the registry, the enrolled keys and the backend's
\* record holds at every step of every ceremony, crash and recovery.
THEOREM RegistryInvariant == Spec => []Inv
  <1>1. Init => Inv
    BY InvInit
  <1>2. Inv /\ [Next]_vars => Inv'
    BY InvNext
  <1> QED
    BY <1>1, <1>2, PTL DEF Spec

\* Every variable keeps its type: no allocation runs past the last account number.
THEOREM TypeCorrect == Spec => []TypeOK
  <1>1. Inv => TypeOK
    BY DEF Inv
  <1> QED
    BY <1>1, RegistryInvariant, PTL

\* next_account_number and prepare_allocation_at never give two operations the
\* same account number, over crashes, failed and abandoned allocations.
THEOREM AccountNumbersUnique == Spec => []NumbersNotShared
  <1>1. Inv => NumbersNotShared
    BY DEF Inv, NumbersInv
  <1> QED
    BY <1>1, RegistryInvariant, PTL

\* derived_account_descriptors and restore_bip39_wallet_backend succeed after a
\* crash at any step.
THEOREM RestartAlwaysSucceeds == Spec => []RestartSucceeds
  <1>1. Inv => RestartSucceeds
    <2> SUFFICES ASSUME Inv
                 PROVE  RestartSucceeds
      OBVIOUS
    <2>1. ListingSucceeds
      BY DEF Inv, CommitInv, ListingSucceeds
    <2>2. ASSUME Incomplete = {}
          PROVE  Listed \subseteq record.registered
      BY <2>2 DEF Inv, CommitInv, Incomplete, Listed
    <2> QED
      BY <2>1, <2>2 DEF RestartSucceeds, RestorePossible
  <1> QED
    BY <1>1, RegistryInvariant, PTL

\* Between ceremonies only keys whose own AccountAllocate ceremony committed can
\* sign.
THEOREM UsableKeysCommitted == Spec => []UsableIsCommitted
  <1>1. Inv => UsableIsCommitted
    BY DEF Inv, CommitInv, UsableIsCommitted, Usable, Receipted, KeyPhase, NoTask
  <1> QED
    BY <1>1, RegistryInvariant, PTL

\* A receipted AccountRetire holds in the registry, the enrolled keys, the record
\* and the backend for good.
THEOREM RetirementPermanent == Spec => []RetirementHolds
  <1>1. Inv => RetirementHolds
    BY DEF Inv, RetireInv
  <1> QED
    BY <1>1, RegistryInvariant, PTL
=============================================================================
