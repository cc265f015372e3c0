-------------------------- MODULE Ceremony_proofs --------------------------
(***************************************************************************)
(* Proofs about the ceremonies, for any number of wallets, credentials,    *)
(* operations, generations and epochs.                                     *)
(***************************************************************************)
EXTENDS Ceremony, TLAPS

-----------------------------------------------------------------------------
(* The snapshot a custody ceremony leaves *)

\* A wallet record is never the missing one.
LEMMA WalletThere == \A x \in WalletType : x # NoWallet
  BY DEF WalletType, NoWallet

\* The snapshot after a ceremony has its type: the generation rises only below
\* its bound.
LEMMA AppliedType ==
    ASSUME NEW s \in SnapshotType, NEW e \in CustodyCeremonies,
           NEW c \in Credentials, NEW n \in Credentials, NEW f \in Generations,
           Applies(s, e, c, n, f)
    PROVE  Applied(s, e, c, n) \in SnapshotType
  <1> DEFINE w == e.wallet
             x == s.wallets[w]
             y == AppliedWallet(x, e, c, n)
             b == AppliedBindings(s.bound, e, c, n)
  <1>1. w \in Wallets /\ e.kind \in CustodyKinds /\ e.recipient \in BOOLEAN
    BY DEF CustodyCeremonies
  <1>2. /\ s.wallets \in [Wallets -> WalletType \union {NoWallet}]
        /\ s.bound \in [Credentials -> Wallets \union {Unbound}]
    BY DEF SnapshotType
  <1>3. Release(s.bound, w) \in [Credentials -> Wallets \union {Unbound}]
    BY <1>2 DEF Release
  <1>4. /\ y \in WalletType \union {NoWallet}
        /\ b \in [Credentials -> Wallets \union {Unbound}]
    <2>1. CASE e.kind = "register"
      <3>1. y = [generation |-> 0, active |-> {n}, inactive |-> {},
                 recovery |-> IF e.recipient THEN 0 ELSE NoFactor]
        BY <2>1 DEF AppliedWallet
      <3>2. y \in WalletType
        BY <1>1, <3>1, CeremonyAssumption DEF Generations, WalletType, NoFactor
      <3> QED
        BY <1>1, <1>2, <2>1, <3>2 DEF AppliedBindings
    <2>2. CASE e.kind = "add"
      <3>1. x \in WalletType
        BY <1>1, <1>2, <2>2 DEF Applies, Unlocks
      <3>2. y \in WalletType
        BY <2>2, <3>1 DEF WalletType, AppliedWallet
      <3> QED
        BY <1>1, <1>2, <2>2, <3>2 DEF AppliedBindings
    <2>3. CASE e.kind = "replace"
      <3>1. x \in WalletType
        BY <1>1, <1>2, <2>3 DEF Applies, Unlocks
      <3>2. y \in WalletType
        BY <2>3, <3>1 DEF WalletType, AppliedWallet
      <3> QED
        BY <1>1, <1>2, <2>3, <3>2 DEF AppliedBindings
    <2>4. CASE e.kind = "remove"
      <3>1. x \in WalletType
        BY <1>1, <1>2, <2>4 DEF Applies
      <3>2. y \in WalletType
        BY <2>4, <3>1 DEF WalletType, AppliedWallet
      <3> QED
        BY <1>1, <1>2, <2>4, <3>2 DEF AppliedBindings
    <2>5. CASE e.kind = "recover"
      <3>1. x \in WalletType /\ x.generation < MaxGeneration
        BY <1>1, <1>2, <2>5 DEF Applies
      <3>2. Recovered(x, n) \in WalletType
        BY <3>1, CeremonyAssumption DEF Generations, WalletType, Recovered, Wraps
      <3> QED
        BY <1>1, <1>3, <2>5, <3>2 DEF AppliedWallet, AppliedBindings,
           RecoveredBindings
    <2>6. CASE e.kind = "delete"
      BY <1>3, <2>6 DEF AppliedWallet, AppliedBindings
    <2>7. CASE e.kind = "other"
      BY <1>1, <1>2, <2>7 DEF AppliedWallet, AppliedBindings
    <2> QED
      BY <1>1, <2>1, <2>2, <2>3, <2>4, <2>5, <2>6, <2>7 DEF CustodyKinds
  <1> HIDE DEF y, b
  <1>5. Applied(s, e, c, n) =
          [wallets |-> [s.wallets EXCEPT ![w] = y], bound |-> b]
    BY DEF Applied, y, b
  <1> QED
    BY <1>1, <1>2, <1>4, <1>5 DEF SnapshotType

-----------------------------------------------------------------------------
(* Types *)

LEMMA TypeInit == Init => TypeOK
  <1> SUFFICES ASSUME Init PROVE TypeOK
    OBVIOUS
  <1>1. AuthorityTypeOK
    BY DEF Init, AuthorityInit, AuthorityTypeOK, NoRow
  <1>2. EmptySnapshot \in SnapshotType
    BY DEF EmptySnapshot, SnapshotType
  <1>3. /\ now \in 0 .. MaxTime
        /\ fence \in [Wallets -> Generations]
    BY CeremonyAssumption DEF Init, Generations
  <1> QED
    BY <1>1, <1>2, <1>3 DEF Init, TypeOK

\* Every terminal status is one.
LEMMA TerminalizedType ==
    ASSUME TypeOK, NEW o \in Operations, NEW st \in Terminalized(o)
    PROVE  st \in [Operations ->
                    {"none", "SUCCEEDED", "FAILED", "EXPIRED", "CANCELLED"}]
  BY DEF TypeOK, Terminalized, TerminalState

\* persist_approval and revoke_all keep the authority's types.
LEMMA AuthorityTypes ==
    ASSUME AuthorityTypeOK,
           \/ \E a \in Approvals : PersistApproval(a)
           \/ \E w \in Wallets : AdvanceEpoch(w)
           \/ UNCHANGED authorityVars
    PROVE  AuthorityTypeOK'
  <1>1. CASE \E a \in Approvals : PersistApproval(a)
    BY <1>1, AuthorityAssumption DEF AuthorityTypeOK, PersistApproval
  <1>2. CASE \E w \in Wallets : AdvanceEpoch(w)
    <2> PICK w \in Wallets : AdvanceEpoch(w)
      BY <1>2
    <2>1. WalletEpoch(w) \in 0 .. MaxEpoch
      BY AuthorityAssumption DEF AuthorityTypeOK, WalletEpoch, NoRow
    <2>2. WalletEpoch(w) + 1 \in 0 .. MaxEpoch
      BY <2>1, AuthorityAssumption DEF AdvanceEpoch
    <2> QED
      BY <2>2 DEF AuthorityTypeOK, AdvanceEpoch
  <1>3. CASE UNCHANGED authorityVars
    BY <1>3 DEF AuthorityTypeOK, authorityVars
  <1> QED
    BY <1>1, <1>2, <1>3

\* What the custody steps need of the types.
LEMMA CustodyTypes ==
    ASSUME TypeOK, NEW o \in Operations, pending[o].kind \in CustodyKinds
    PROVE  pending[o] \in CustodyCeremonies
  <1>1. pending[o] \in CustodyCeremonies \union ApprovalCeremonies \union {NoCeremony}
    BY DEF TypeOK
  <1> QED
    BY <1>1 DEF CustodyKinds, ApprovalCeremonies, NoCeremony

LEMMA ApprovalTypes ==
    ASSUME TypeOK, NEW o \in Operations, pending[o].kind = "approve"
    PROVE  pending[o] \in ApprovalCeremonies
  <1>1. pending[o] \in CustodyCeremonies \union ApprovalCeremonies \union {NoCeremony}
    BY DEF TypeOK
  <1> QED
    BY <1>1 DEF CustodyCeremonies, CustodyKinds, NoCeremony

LEMMA GenerationType ==
    ASSUME NEW s \in SnapshotType, NEW w \in Wallets
    PROVE  GenerationOf(s, w) \in Generations
  <1>1. s.wallets[w] \in WalletType \union {NoWallet}
    BY DEF SnapshotType
  <1> QED
    BY <1>1, CeremonyAssumption DEF GenerationOf, WalletType, Generations

LEMMA TypeStep == TypeOK /\ [Next]_vars => TypeOK'
  <1> SUFFICES ASSUME TypeOK, [Next]_vars PROVE TypeOK'
    OBVIOUS
  <1>0. memory \in SnapshotType /\ disk \in SnapshotType
    BY DEF TypeOK
  <1>1. ASSUME NEW o \in Operations, NEW a \in Approvals, PrepareApproval(o, a)
        PROVE  TypeOK'
    <2> DEFINE w == ApprovalWallet[a]
               e == [kind |-> "approve", wallet |-> w, approval |-> a,
                     generation |-> GenerationOf(memory, w),
                     expires |-> Earlier(now + CeremonyTtl, ApprovalExpires[a])]
    <2>1. w \in Wallets
      BY AuthorityAssumption
    <2>2. Earlier(now + CeremonyTtl, ApprovalExpires[a]) \in Nat
      BY CeremonyAssumption DEF TypeOK, Earlier
    <2>3. e \in ApprovalCeremonies
      BY <1>0, <2>1, <2>2, GenerationType DEF ApprovalCeremonies
    <2> HIDE DEF e
    <2>4. pending' = [pending EXCEPT ![o] = e]
      BY <1>1 DEF PrepareApproval, Open, e
    <2>5. pending' \in [Operations ->
            CustodyCeremonies \union ApprovalCeremonies \union {NoCeremony}]
      BY <2>3, <2>4 DEF TypeOK
    <2> QED
      BY <1>1, <2>5 DEF PrepareApproval, Open, TypeOK, custodyVars, outcomeVars,
         authorityVars, AuthorityTypeOK
  <1>2. ASSUME NEW o \in Operations, NEW k \in CustodyKinds, NEW w \in Wallets,
               PrepareCustody(o, k, w)
        PROVE  TypeOK'
    <2> DEFINE e == [kind |-> k, wallet |-> w, recipient |-> FALSE,
                     generation |-> GenerationOf(memory, w),
                     expires |-> now + CeremonyTtl]
    <2>1. now + CeremonyTtl \in Nat
      BY CeremonyAssumption DEF TypeOK
    <2>2. e \in CustodyCeremonies
      BY <1>0, <2>1, GenerationType DEF CustodyCeremonies
    <2> HIDE DEF e
    <2>3. pending' = [pending EXCEPT ![o] = e]
      BY <1>2 DEF PrepareCustody, Open, e
    <2>4. pending' \in [Operations ->
            CustodyCeremonies \union ApprovalCeremonies \union {NoCeremony}]
      BY <2>2, <2>3 DEF TypeOK
    <2> QED
      BY <1>2, <2>4 DEF PrepareCustody, Open, TypeOK, custodyVars, outcomeVars,
         authorityVars, AuthorityTypeOK
  <1>3. ASSUME NEW o \in Operations, BindRecipient(o)
        PROVE  TypeOK'
    <2>1. pending[o] \in CustodyCeremonies
      BY <1>3, CustodyTypes DEF BindRecipient, OutputKinds, CustodyKinds
    <2>2. [pending[o] EXCEPT !.recipient = TRUE] \in CustodyCeremonies
      BY <2>1 DEF CustodyCeremonies
    <2>3. pending' = [pending EXCEPT ![o] = [pending[o] EXCEPT !.recipient = TRUE]]
      BY <1>3 DEF BindRecipient
    <2>4. pending' \in [Operations ->
            CustodyCeremonies \union ApprovalCeremonies \union {NoCeremony}]
      BY <2>2, <2>3 DEF TypeOK
    <2> QED
      BY <1>3, <2>4 DEF BindRecipient, TypeOK, custodyVars, outcomeVars,
         authorityVars, AuthorityTypeOK
  <1>4. ASSUME NEW o \in Operations, Consume(o) \/ Cancel(o)
        PROVE  pending' \in [Operations ->
                 CustodyCeremonies \union ApprovalCeremonies \union {NoCeremony}]
    BY <1>4 DEF Consume, Cancel, TypeOK
  <1>5. ASSUME NEW o \in Operations, RefuseCompletion(o)
        PROVE  TypeOK'
    <2>1. statuses' \in [Operations ->
            {"none", "SUCCEEDED", "FAILED", "EXPIRED", "CANCELLED"}]
      BY <1>5, TerminalizedType DEF RefuseCompletion
    <2> QED
      BY <1>4, <1>5, <2>1 DEF RefuseCompletion, TypeOK, custodyVars,
         authorityVars, AuthorityTypeOK
  <1>6. ASSUME NEW o \in Operations, NEW c \in Credentials, ActivateApproval(o, c)
        PROVE  TypeOK'
    <2>1. pending[o].approval \in Approvals
      BY <1>6, ApprovalTypes DEF ActivateApproval, ApprovalCeremonies
    <2>2. AuthorityTypeOK'
      BY <1>6, <2>1, AuthorityTypes DEF ActivateApproval, TypeOK
    <2> QED
      BY <1>4, <1>6, <2>2 DEF ActivateApproval, TypeOK, custodyVars
  <1>7. ASSUME NEW o \in Operations, NEW c \in Credentials, NEW n \in Credentials,
               NEW f \in Generations, CompleteCustody(o, c, n, f)
        PROVE  TypeOK'
    <2> DEFINE e == pending[o]
               after == Applied(memory, e, c, n)
    <2>1. e \in CustodyCeremonies /\ e.wallet \in Wallets
      BY <1>7, CustodyTypes DEF CompleteCustody, CustodyCeremonies
    <2>2. after \in SnapshotType
      BY <1>0, <1>7, <2>1, AppliedType DEF CompleteCustody
    <2> HIDE DEF after
    <2>3. memory' = after /\ disk' = after /\ fence' = FenceAfter(after)
      BY <1>7 DEF CompleteCustody, after
    <2>4. fence' \in [Wallets -> Generations]
      BY <2>2, <2>3 DEF FenceAfter, SnapshotType, WalletType, TypeOK
    <2>5. backends' \subseteq Wallets /\ enrolled' \subseteq Wallets
      BY <1>7, <2>1 DEF CompleteCustody, TypeOK
    <2>6. statuses' \in [Operations ->
            {"none", "SUCCEEDED", "FAILED", "EXPIRED", "CANCELLED"}]
      BY <1>7 DEF CompleteCustody, StatusAfterCommit, TerminalState, TypeOK
    <2>7. receipts' \in [Operations -> {"none", "approval", "custody"}]
      BY <1>7 DEF CompleteCustody, TypeOK
    <2>8. completed' \subseteq Operations /\ overtaken' \subseteq Operations
      BY <1>7 DEF CompleteCustody, TypeOK, Overtakes, OpenFor
    <2>9. revoked' \subseteq Wallets \X Factors
      <3>1. memory.wallets[e.wallet] \in WalletType \union {NoWallet}
        BY <1>0, <2>1 DEF SnapshotType
      <3>2. FactorsOf(memory.wallets[e.wallet]) \subseteq Factors
        BY <3>1 DEF FactorsOf, WalletType, Factors
      <3>3. Retires(e, memory.wallets[e.wallet], c, n) \subseteq Factors
        BY <2>1, <3>2 DEF Retires, Factors, CustodyCeremonies, CustodyKinds
      <3>4. revoked' = revoked \union
              {e.wallet} \X Retires(e, memory.wallets[e.wallet], c, n)
        BY <1>7 DEF CompleteCustody
      <3> QED
        BY <2>1, <3>3, <3>4 DEF TypeOK
    <2> QED
      BY <1>4, <1>7, <2>2, <2>3, <2>4, <2>5, <2>6, <2>7, <2>8, <2>9
         DEF CompleteCustody, TypeOK, authorityVars, AuthorityTypeOK
  <1>8. ASSUME NEW o \in Operations, NEW c \in Credentials, NEW n \in Credentials,
               NEW f \in Generations, FailCommit(o, c, n, f)
        PROVE  TypeOK'
    <2>1. statuses' \in [Operations ->
            {"none", "SUCCEEDED", "FAILED", "EXPIRED", "CANCELLED"}]
      BY <1>8, TerminalizedType DEF FailCommit
    <2>2. memory' = memory /\ backends' \subseteq Wallets
      BY <1>8 DEF FailCommit, RestoredSnapshot, RolledBackBackends, TypeOK
    <2> QED
      BY <1>4, <1>8, <2>1, <2>2 DEF FailCommit, TypeOK, custodyVars,
         authorityVars, AuthorityTypeOK
  <1>9. ASSUME NEW o \in Operations, Cancel(o)
        PROVE  TypeOK'
    BY <1>4, <1>9 DEF Cancel, TypeOK, custodyVars, authorityVars, AuthorityTypeOK
  <1>10. CASE Restart
    BY <1>10 DEF Restart, TypeOK, custodyVars, outcomeVars, authorityVars,
       AuthorityTypeOK
  <1>11. CASE AdvanceTime
    <2>1. now' \in 0 .. MaxTime
      BY <1>11, CeremonyAssumption DEF AdvanceTime, TypeOK
    <2> QED
      BY <1>11, <2>1 DEF AdvanceTime, TypeOK, memoryVars, custodyVars,
         outcomeVars, authorityVars, AuthorityTypeOK
  <1>12. ASSUME NEW w \in Wallets, RevokeAll(w)
         PROVE  TypeOK'
    <2>1. AuthorityTypeOK'
      BY <1>12, AuthorityTypes DEF RevokeAll, TypeOK
    <2>2. overtaken' \subseteq Operations
      BY <1>12 DEF RevokeAll, TypeOK, OpenFor
    <2> QED
      BY <1>12, <2>1, <2>2 DEF RevokeAll, TypeOK, memoryVars, custodyVars,
         outcomeVars
  <1>13. CASE UNCHANGED vars
    BY <1>13 DEF vars, TypeOK, memoryVars, custodyVars, outcomeVars,
       authorityVars, AuthorityTypeOK
  <1> QED
    BY <1>1, <1>2, <1>3, <1>5, <1>6, <1>7, <1>8, <1>9, <1>10, <1>11, <1>12,
       <1>13 DEF Next, Complete

\* Rows, maps and history keep their types in every reachable state; no
\* recovery takes the generation beyond its bound
\* (recover_replace_credentials).
THEOREM TypeCorrect == Spec => []TypeOK
  BY TypeInit, TypeStep, PTL DEF Spec

-----------------------------------------------------------------------------
(* Custody: what a ceremony preserves of a snapshot *)

\* The parts of the invariant that speak of one snapshot.
Matching(s) ==
    \A c \in Credentials, w \in Wallets :
        s.bound[c] = w <=> s.wallets[w] # NoWallet /\ c \in s.wallets[w].active

SoundWallet(x) ==
    /\ x.active \intersect x.inactive = {}
    /\ x.recovery \in {NoFactor, x.generation}
    /\ FactorsOf(x) # {}

Disjoint(s) ==
    \A v, w \in Wallets :
        v # w /\ s.wallets[v] # NoWallet /\ s.wallets[w] # NoWallet =>
            Wraps(s.wallets[v]) \intersect Wraps(s.wallets[w]) = {}

SoundSnapshot(s) ==
    /\ Matching(s)
    /\ Disjoint(s)
    /\ \A w \in Wallets : s.wallets[w] # NoWallet => SoundWallet(s.wallets[w])

\* A ceremony changes one wallet; if that one is sound, its wraps its own and
\* its bindings its active wraps, the snapshot is sound.
LEMMA OneWallet ==
    ASSUME NEW s \in SnapshotType, NEW t \in SnapshotType, NEW u \in Wallets,
           SoundSnapshot(s),
           \A w \in Wallets \ {u} : t.wallets[w] = s.wallets[w],
           t.wallets[u] # NoWallet => SoundWallet(t.wallets[u]),
           \A w \in Wallets \ {u} :
               t.wallets[u] # NoWallet /\ s.wallets[w] # NoWallet =>
                   Wraps(t.wallets[u]) \intersect Wraps(s.wallets[w]) = {},
           \A c \in Credentials :
               t.bound[c] = u <=>
                   t.wallets[u] # NoWallet /\ c \in t.wallets[u].active,
           \A c \in Credentials, w \in Wallets \ {u} :
               t.bound[c] = w <=> s.bound[c] = w
    PROVE  SoundSnapshot(t)
  <1>1. Matching(t)
    <2> SUFFICES ASSUME NEW c \in Credentials, NEW w \in Wallets
                 PROVE  t.bound[c] = w <=>
                          t.wallets[w] # NoWallet /\ c \in t.wallets[w].active
      BY DEF Matching
    <2>1. CASE w = u
      BY <2>1
    <2>2. CASE w # u
      BY <2>2 DEF SoundSnapshot, Matching
    <2> QED
      BY <2>1, <2>2
  <1>2. Disjoint(t)
    <2> SUFFICES ASSUME NEW v \in Wallets, NEW w \in Wallets, v # w,
                        t.wallets[v] # NoWallet, t.wallets[w] # NoWallet
                 PROVE  Wraps(t.wallets[v]) \intersect Wraps(t.wallets[w]) = {}
      BY DEF Disjoint
    <2>1. CASE v = u
      BY <2>1
    <2>2. CASE w = u
      <3>1. Wraps(t.wallets[w]) \intersect Wraps(t.wallets[v]) = {}
        BY <2>2
      <3> QED
        BY <3>1
    <2>3. CASE v # u /\ w # u
      BY <2>3 DEF SoundSnapshot, Disjoint
    <2> QED
      BY <2>1, <2>2, <2>3
  <1>3. ASSUME NEW w \in Wallets, t.wallets[w] # NoWallet
        PROVE  SoundWallet(t.wallets[w])
    BY <1>3 DEF SoundSnapshot
  <1> QED
    BY <1>1, <1>2, <1>3 DEF SoundSnapshot

\* What a ceremony does to its own wallet, x before and y after: what is
\* retired stays so, and generations only rise.
Progress(e, x, y, c, n) ==
    /\ e.kind = "register" <=> x = NoWallet
    /\ e.kind = "recover" =>
          y # NoWallet /\ y.generation = x.generation + 1
    /\ e.kind = "delete" <=> y = NoWallet
    /\ x # NoWallet /\ y # NoWallet =>
          x.inactive \subseteq y.inactive /\ x.generation <= y.generation
    /\ y # NoWallet => \A g \in Retires(e, x, c, n) :
          g \in y.inactive \/ (g \in Generations /\ g < y.generation)

\* Every custody ceremony that applies leaves a sound snapshot.
LEMMA SnapshotStep ==
    ASSUME NEW s \in SnapshotType, SoundSnapshot(s), NEW e \in CustodyCeremonies,
           NEW c \in Credentials, NEW n \in Credentials, NEW f \in Generations,
           Applies(s, e, c, n, f)
    PROVE  /\ SoundSnapshot(Applied(s, e, c, n))
           /\ Progress(e, s.wallets[e.wallet],
                       Applied(s, e, c, n).wallets[e.wallet], c, n)
           /\ \A w \in Wallets \ {e.wallet} :
                 Applied(s, e, c, n).wallets[w] = s.wallets[w]
  <1> DEFINE u == e.wallet
             t == Applied(s, e, c, n)
             x == s.wallets[u]
             y == t.wallets[u]
  <1>1. u \in Wallets /\ e.kind \in CustodyKinds /\ e.recipient \in BOOLEAN
    BY DEF CustodyCeremonies
  <1>2. /\ s.wallets \in [Wallets -> WalletType \union {NoWallet}]
        /\ s.bound \in [Credentials -> Wallets \union {Unbound}]
    BY DEF SnapshotType
  <1>3. t \in SnapshotType
    BY AppliedType
  <1>4. /\ y = AppliedWallet(x, e, c, n)
        /\ t.bound = AppliedBindings(s.bound, e, c, n)
        /\ \A w \in Wallets \ {u} : t.wallets[w] = s.wallets[w]
    BY <1>1, <1>2 DEF Applied
  <1>5. Unbound \notin Wallets
    BY CeremonyAssumption
  <1>6. /\ x \in WalletType \union {NoWallet}
        /\ y \in WalletType \union {NoWallet}
    BY <1>1, <1>2, <1>3 DEF SnapshotType
  <1>7. \A w \in Wallets \ {u} : s.wallets[w] \in WalletType \union {NoWallet}
    BY <1>2
  <1>8. /\ x # NoWallet => SoundWallet(x)
        /\ \A w \in Wallets \ {u} : x # NoWallet /\ s.wallets[w] # NoWallet =>
              Wraps(x) \intersect Wraps(s.wallets[w]) = {}
        /\ \A d \in Credentials, w \in Wallets :
              s.bound[d] = w <=> s.wallets[w] # NoWallet /\ d \in s.wallets[w].active
    BY <1>1 DEF SoundSnapshot, Disjoint, Matching
  <1> DEFINE Whole == y # NoWallet => SoundWallet(y)
             Apart == \A w \in Wallets \ {u} :
                        y # NoWallet /\ s.wallets[w] # NoWallet =>
                            Wraps(y) \intersect Wraps(s.wallets[w]) = {}
             Bound == /\ \A d \in Credentials :
                            t.bound[d] = u <=> y # NoWallet /\ d \in y.active
                      /\ \A d \in Credentials, w \in Wallets \ {u} :
                            t.bound[d] = w <=> s.bound[d] = w
             Goal == Whole /\ Apart /\ Bound /\ Progress(e, x, y, c, n)
  <1> HIDE DEF t
  <1>9. Goal
    <2>1. CASE e.kind = "register"
      <3>1. /\ x = NoWallet /\ s.bound[n] = Unbound /\ Attests(s, u, n)
            /\ t.bound = [s.bound EXCEPT ![n] = u]
            /\ y = [generation |-> 0, active |-> {n}, inactive |-> {},
                    recovery |-> IF e.recipient THEN 0 ELSE NoFactor]
            /\ Retires(e, x, c, n) = {}
        BY <1>4, <2>1 DEF Applies, AppliedWallet, AppliedBindings, Retires
      <3>2. y \in WalletType /\ y # NoWallet
        BY <1>6, <3>1, WalletThere DEF NoWallet
      <3>4. Whole
        BY <1>8, <3>1, <3>2 DEF SoundWallet, FactorsOf, Wraps, WalletType, NoFactor
      <3>5. Apart
        BY <1>7, <1>8, <3>1, <3>2 DEF Attests, Wraps, WalletType
      <3>6. Bound
        BY <1>1, <1>2, <1>5, <1>7, <1>8, <3>1, <3>2 DEF Wraps, SoundWallet, WalletType
      <3>7. Progress(e, x, y, c, n)
        BY <1>8, <2>1, <3>1, <3>2 DEF Progress, Wraps, WalletType, Generations, FactorsOf,
           SoundWallet, NoFactor
      <3> QED
        BY <3>4, <3>5, <3>6, <3>7
    <2>2. CASE e.kind = "add"
      <3>1. /\ x # NoWallet /\ s.bound[n] = Unbound /\ Attests(s, u, n)
            /\ n \notin Wraps(x)
            /\ t.bound = [s.bound EXCEPT ![n] = u]
            /\ y = [x EXCEPT !.active = @ \union {n}]
            /\ Retires(e, x, c, n) = {}
        BY <1>4, <2>2 DEF Applies, Unlocks, AppliedWallet, AppliedBindings, Retires
      <3>2. x \in WalletType /\ y \in WalletType /\ y # NoWallet
        BY <1>6, <3>1, WalletThere DEF WalletType
      <3>3. /\ y.active = x.active \union {n} /\ y.inactive = x.inactive
            /\ y.generation = x.generation /\ y.recovery = x.recovery
        BY <3>1, <3>2 DEF WalletType
      <3>4. Whole
        BY <1>8, <3>1, <3>2, <3>3 DEF SoundWallet, FactorsOf, Wraps, WalletType, NoFactor
      <3>5. Apart
        BY <1>7, <1>8, <3>1, <3>2, <3>3 DEF Attests, Wraps, WalletType
      <3>6. Bound
        BY <1>1, <1>2, <1>5, <1>7, <1>8, <3>1, <3>2, <3>3 DEF Wraps, SoundWallet, WalletType
      <3>7. Progress(e, x, y, c, n)
        BY <1>8, <2>2, <3>1, <3>2, <3>3 DEF Progress, Wraps, WalletType, Generations, FactorsOf,
           SoundWallet, NoFactor
      <3> QED
        BY <3>4, <3>5, <3>6, <3>7
    <2>3. CASE e.kind = "replace"
      <3>1. /\ x # NoWallet /\ s.bound[n] = Unbound /\ Attests(s, u, n)
            /\ n \notin Wraps(x) /\ c \in x.active
            /\ t.bound = [s.bound EXCEPT ![n] = u, ![c] = Unbound]
            /\ y = [x EXCEPT !.active = (@ \union {n}) \ {c},
                             !.inactive = @ \union {c}]
            /\ Retires(e, x, c, n) = {c}
        BY <1>4, <2>3 DEF Applies, Unlocks, AppliedWallet, AppliedBindings, Retires
      <3>2. x \in WalletType /\ y \in WalletType /\ y # NoWallet
        BY <1>6, <3>1, WalletThere DEF WalletType
      <3>3. /\ y.active = (x.active \union {n}) \ {c}
            /\ y.inactive = x.inactive \union {c}
            /\ y.generation = x.generation /\ y.recovery = x.recovery
        BY <3>1, <3>2 DEF WalletType
      <3>4. Whole
        BY <1>8, <3>1, <3>2, <3>3 DEF SoundWallet, FactorsOf, Wraps, WalletType, NoFactor
      <3>5. Apart
        BY <1>7, <1>8, <3>1, <3>2, <3>3 DEF Attests, Wraps, WalletType
      <3>6. Bound
        BY <1>1, <1>2, <1>5, <1>7, <1>8, <3>1, <3>2, <3>3 DEF Wraps, SoundWallet, WalletType
      <3>7. Progress(e, x, y, c, n)
        <4>1. \A g \in Retires(e, x, c, n) : g \in y.inactive
          BY <3>1, <3>3
        <4>2. x.inactive \subseteq y.inactive /\ x.generation <= y.generation
          BY <3>2, <3>3 DEF WalletType, Generations
        <4> HIDE DEF x, y
        <4> QED
          BY <2>3, <3>1, <3>2, <4>1, <4>2 DEF Progress
      <3> QED
        BY <3>4, <3>5, <3>6, <3>7
    <2>4. CASE e.kind = "remove"
      <3>1. /\ x # NoWallet /\ Revocable(x, n)
            /\ t.bound = [s.bound EXCEPT ![n] = Unbound]
            /\ y = [x EXCEPT !.active = @ \ {n}, !.inactive = @ \union {n}]
            /\ Retires(e, x, c, n) = {n}
        BY <1>4, <2>4 DEF Applies, AppliedWallet, AppliedBindings, Retires
      <3>2. x \in WalletType /\ y \in WalletType /\ y # NoWallet
        BY <1>6, <3>1, WalletThere DEF WalletType
      <3>3. /\ y.active = x.active \ {n} /\ y.inactive = x.inactive \union {n}
            /\ y.generation = x.generation /\ y.recovery = x.recovery
        BY <3>1, <3>2 DEF WalletType
      <3>4. Whole
        BY <1>8, <3>1, <3>2, <3>3 DEF SoundWallet, FactorsOf, Wraps, WalletType, NoFactor, Revocable
      <3>5. Apart
        BY <1>7, <1>8, <3>1, <3>2, <3>3 DEF Attests, Wraps, WalletType, Revocable
      <3>6. Bound
        BY <1>1, <1>2, <1>5, <1>7, <1>8, <3>1, <3>2, <3>3 DEF Wraps, SoundWallet, WalletType, Revocable
      <3>7. Progress(e, x, y, c, n)
        <4>1. \A g \in Retires(e, x, c, n) : g \in y.inactive
          BY <3>1, <3>3
        <4>2. x.inactive \subseteq y.inactive /\ x.generation <= y.generation
          BY <3>2, <3>3 DEF WalletType, Generations
        <4> HIDE DEF x, y
        <4> QED
          BY <2>4, <3>1, <3>2, <4>1, <4>2 DEF Progress
      <3> QED
        BY <3>4, <3>5, <3>6, <3>7
    <2>5. CASE e.kind = "recover"
      <3>1. /\ x # NoWallet /\ s.bound[n] \in {Unbound, u} /\ Attests(s, u, n)
            /\ n \notin Wraps(x)
            /\ t.bound = [Release(s.bound, u) EXCEPT ![n] = u]
            /\ y = Recovered(x, n)
            /\ Retires(e, x, c, n) = FactorsOf(x)
        BY <1>4, <2>5 DEF Applies, AppliedWallet, AppliedBindings, Retires,
           RecoveredBindings
      <3>2. x \in WalletType /\ y \in WalletType /\ y # NoWallet
        BY <1>6, <3>1, WalletThere DEF Recovered, NoWallet, WalletType, Generations
      <3>3. /\ y.active = {n} /\ y.inactive = Wraps(x)
            /\ y.generation = x.generation + 1 /\ y.recovery = x.generation + 1
        BY <3>1, <3>2 DEF Recovered
      <3>4. Whole
        BY <1>8, <3>1, <3>2, <3>3 DEF SoundWallet, FactorsOf, Wraps, WalletType, NoFactor
      <3>5. Apart
        BY <1>7, <1>8, <3>1, <3>2, <3>3 DEF Attests, Wraps, WalletType
      <3>6. Bound
        BY <1>1, <1>2, <1>5, <1>7, <1>8, <3>1, <3>2, <3>3 DEF Wraps, SoundWallet, WalletType, Release
      <3>7. Progress(e, x, y, c, n)
        <4>1. ASSUME NEW g \in Retires(e, x, c, n)
              PROVE  g \in y.inactive \/ (g \in Generations /\ g < y.generation)
          <5>1. g \in x.active \/ (g = x.recovery /\ g # NoFactor)
            BY <3>1, <4>1 DEF FactorsOf
          <5>2. g = x.recovery /\ g # NoFactor => g = x.generation
            BY <1>8, <3>1 DEF SoundWallet
          <5>3. x.generation \in Generations /\ x.generation < y.generation
            BY <3>2, <3>3 DEF WalletType, Generations
          <5> QED
            BY <3>3, <5>1, <5>2, <5>3 DEF Wraps
        <4>2. x.inactive \subseteq y.inactive /\ x.generation <= y.generation
          BY <3>2, <3>3 DEF WalletType, Generations, Wraps
        <4> HIDE DEF x, y
        <4> QED
          BY <2>5, <3>1, <3>2, <3>3, <4>1, <4>2 DEF Progress
      <3> QED
        BY <3>4, <3>5, <3>6, <3>7
    <2>6. CASE e.kind = "delete"
      <3>1. /\ x # NoWallet /\ y = NoWallet
            /\ t.bound = Release(s.bound, u)
        BY <1>4, <2>6 DEF Applies, Unlocks, AppliedWallet, AppliedBindings
      <3>4. Whole /\ Apart
        BY <3>1
      <3>6. Bound
        BY <1>1, <1>2, <1>5, <1>7, <1>8, <3>1 DEF Wraps, SoundWallet, WalletType, Release
      <3>7. Progress(e, x, y, c, n)
        BY <1>8, <2>6, <3>1 DEF Progress, Wraps, WalletType, Generations, FactorsOf,
           SoundWallet, NoFactor
      <3> QED
        BY <3>4, <3>6, <3>7
    <2>7. CASE e.kind = "other"
      <3>1. x # NoWallet /\ y = x /\ t.bound = s.bound
            /\ Retires(e, x, c, n) = {}
        BY <1>4, <2>7 DEF Applies, Unlocks, AppliedWallet, AppliedBindings, Retires
      <3>2. x \in WalletType /\ y \in WalletType
        BY <1>6, <3>1
      <3>4. Whole
        BY <1>8, <3>1, <3>2 DEF SoundWallet, FactorsOf, Wraps, WalletType, NoFactor
      <3>5. Apart
        BY <1>7, <1>8, <3>1, <3>2 DEF Attests, Wraps, WalletType
      <3>6. Bound
        BY <1>1, <1>2, <1>5, <1>7, <1>8, <3>1, <3>2 DEF Wraps, SoundWallet, WalletType
      <3>7. Progress(e, x, y, c, n)
        BY <1>8, <2>7, <3>1, <3>2 DEF Progress, Wraps, WalletType, Generations, FactorsOf,
           SoundWallet, NoFactor
      <3> QED
        BY <3>4, <3>5, <3>6, <3>7
    <2> QED
      BY <1>1, <2>1, <2>2, <2>3, <2>4, <2>5, <2>6, <2>7 DEF CustodyKinds
  <1>10. SoundSnapshot(t)
    BY <1>1, <1>3, <1>4, <1>9, OneWallet
  <1> QED
    BY <1>4, <1>9, <1>10 DEF t

-----------------------------------------------------------------------------
(* The inductive invariant *)

LEMMA InvInit == Init => CeremonyInv
  <1> SUFFICES ASSUME Init PROVE CeremonyInv
    OBVIOUS
  <1>1. \A w \in Wallets : memory.wallets[w] = NoWallet
    BY DEF Init, EmptySnapshot
  <1>2. \A c \in Credentials : memory.bound[c] = Unbound
    BY DEF Init, EmptySnapshot
  <1>3. MemoryIsDurable /\ StartupSucceeds /\ WalletsSound /\ AFactorRemains
    BY <1>1 DEF Init, MemoryIsDurable, StartupSucceeds, LoadAdmits, WalletsSound,
       AFactorRemains
  <1>4. CredentialsMatchWraps
    BY <1>1, <1>2, CeremonyAssumption DEF CredentialsMatchWraps
  <1>5. RevokedSound /\ OpenSound /\ OvertakenAreStale /\ OvertakenNeverSucceeds
    BY DEF Init, RevokedSound, OpenSound, OvertakenAreStale, OvertakenNeverSucceeds,
       IsOpen
  <1> QED
    BY <1>3, <1>4, <1>5 DEF CeremonyInv

\* The parts that speak of custody only.
CustodyInv ==
    /\ MemoryIsDurable
    /\ StartupSucceeds
    /\ CredentialsMatchWraps
    /\ WalletsSound
    /\ AFactorRemains
    /\ RevokedSound

\* The parts that speak of ceremonies.
SessionInv == OpenSound /\ OvertakenAreStale /\ OvertakenNeverSucceeds

LEMMA InvParts == CeremonyInv <=> CustodyInv /\ SessionInv
  BY DEF CeremonyInv, CustodyInv, SessionInv

LEMMA SoundMemory ==
    ASSUME CeremonyInv PROVE SoundSnapshot(memory)
  <1>1. Matching(memory)
    BY DEF CeremonyInv, CredentialsMatchWraps, Matching
  <1>2. Disjoint(memory)
    BY DEF CeremonyInv, WalletsSound, Disjoint
  <1>3. \A w \in Wallets : memory.wallets[w] # NoWallet =>
            SoundWallet(memory.wallets[w])
    BY DEF CeremonyInv, WalletsSound, AFactorRemains, SoundWallet
  <1> QED
    BY <1>1, <1>2, <1>3 DEF SoundSnapshot

\* Steps that touch no custody row.
LEMMA Quiet ==
    ASSUME CustodyInv, UNCHANGED <<memory, backends, disk, fence, enrolled, revoked>>
    PROVE  CustodyInv'
  <1>1. MemoryIsDurable' /\ StartupSucceeds' /\ CredentialsMatchWraps'
    BY DEF CustodyInv, MemoryIsDurable, StartupSucceeds, LoadAdmits,
       CredentialsMatchWraps
  <1>2. WalletsSound' /\ AFactorRemains' /\ RevokedSound'
    BY DEF CustodyInv, WalletsSound, AFactorRemains, RevokedSound
  <1> QED
    BY <1>1, <1>2 DEF CustodyInv

\* An open ceremony is of its type, one that is closed is not open.
LEMMA OpenTypes ==
    ASSUME TypeOK, NEW o \in Operations, IsOpen(o)
    PROVE  /\ pending[o] \in CustodyCeremonies \union ApprovalCeremonies
           /\ pending[o].wallet \in Wallets /\ pending[o].generation \in Generations
  <1>1. pending[o] \in CustodyCeremonies \union ApprovalCeremonies
    BY DEF TypeOK, IsOpen
  <1> QED
    BY <1>1 DEF CustodyCeremonies, ApprovalCeremonies

\* A ceremony is prepared at a generation the fence has reached.
LEMMA PreparedAtFence ==
    ASSUME TypeOK, CeremonyInv, NEW w \in Wallets
    PROVE  GenerationOf(memory, w) <= fence[w]
  <1>1. fence[w] \in Nat
    BY CeremonyAssumption DEF TypeOK, Generations
  <1>2. memory.wallets[w] # NoWallet => memory.wallets[w].generation = fence[w]
    BY DEF CeremonyInv, MemoryIsDurable, StartupSucceeds, LoadAdmits
  <1> QED
    BY <1>1, <1>2 DEF GenerationOf

LEMMA OpenStep ==
    ASSUME TypeOK, CeremonyInv, NEW o \in Operations,
           NEW e \in CustodyCeremonies \union ApprovalCeremonies,
           Open(o, e), e.generation = GenerationOf(memory, e.wallet),
           e.kind = "approve" => e.wallet = ApprovalWallet[e.approval]
    PROVE  SessionInv'
  <1>0. /\ pending \in [Operations -> 
               CustodyCeremonies \union ApprovalCeremonies \union {NoCeremony}]
        /\ e.wallet \in Wallets
    BY DEF TypeOK, CustodyCeremonies, ApprovalCeremonies
  <1>1. /\ pending' = [pending EXCEPT ![o] = e]
        /\ receipts[o] = "none" /\ statuses[o] = "none"
        /\ overtaken' = overtaken \ {o}
        /\ UNCHANGED <<memory, fence, enrolled, receipts, statuses, approvals,
                       walletEpoch>>
    BY DEF Open, RequireUnopened, custodyVars, outcomeVars, authorityVars
  <1>2. pending'[o] = e /\ \A q \in Operations \ {o} : pending'[q] = pending[q]
    BY <1>0, <1>1
  <1>3. OpenSound'
    <2> SUFFICES ASSUME NEW q \in Operations, IsOpen(q)'
                 PROVE  /\ receipts[q] = "none" /\ statuses[q] = "none"
                        /\ pending'[q].generation <= fence[pending'[q].wallet]
                        /\ pending'[q].kind = "approve" =>
                              pending'[q].wallet = ApprovalWallet[pending'[q].approval]
      BY <1>1 DEF OpenSound
    <2>1. CASE q = o
      BY <1>0, <1>1, <1>2, <2>1, PreparedAtFence
    <2>2. CASE q # o
      BY <1>2, <2>2 DEF CeremonyInv, OpenSound, IsOpen
    <2> QED
      BY <2>1, <2>2
  <1>4. OvertakenAreStale'
    <2> SUFFICES ASSUME NEW q \in overtaken, q # o, IsOpen(q)'
                 PROVE  Stale(pending[q])'
      BY <1>1 DEF OvertakenAreStale
    <2>1. q \in Operations /\ pending'[q] = pending[q]
      BY <1>2 DEF TypeOK
    <2>2. Stale(pending[q])
      BY <2>1 DEF CeremonyInv, OvertakenAreStale, IsOpen
    <2> QED
      BY <1>1, <2>1, <2>2 DEF Stale, WalletEpoch
  <1>5. OvertakenNeverSucceeds'
    BY <1>1 DEF CeremonyInv, OvertakenNeverSucceeds
  <1> QED
    BY <1>3, <1>4, <1>5 DEF SessionInv

\* Steps that close one ceremony without a receipt.
LEMMA CloseStep ==
    ASSUME TypeOK, CeremonyInv, NEW o \in Operations,
           pending' = [pending EXCEPT ![o] = NoCeremony],
           \A q \in Operations \ {o} : statuses'[q] = statuses[q],
           UNCHANGED <<memory, fence, enrolled, receipts, approvals, walletEpoch,
                       overtaken>>
    PROVE  SessionInv'
  <1>1. /\ pending'[o] = NoCeremony
        /\ \A q \in Operations \ {o} : pending'[q] = pending[q]
    BY DEF TypeOK
  <1>2. OpenSound'
    BY <1>1 DEF CeremonyInv, OpenSound, IsOpen
  <1>3. OvertakenAreStale'
    <2> SUFFICES ASSUME NEW q \in overtaken, IsOpen(q)'
                 PROVE  Stale(pending[q])'
      BY DEF OvertakenAreStale
    <2>1. q \in Operations /\ pending'[q] = pending[q]
      BY <1>1 DEF TypeOK, IsOpen
    <2>2. Stale(pending[q])
      BY <2>1 DEF CeremonyInv, OvertakenAreStale, IsOpen
    <2> QED
      BY <2>1, <2>2 DEF Stale, WalletEpoch
  <1>4. OvertakenNeverSucceeds'
    BY DEF CeremonyInv, OvertakenNeverSucceeds
  <1> QED
    BY <1>2, <1>3, <1>4 DEF SessionInv

\* A committed custody ceremony: the snapshot stays sound and at its fence.
LEMMA CommitCustody ==
    ASSUME TypeOK, CeremonyInv, NEW o \in Operations, NEW c \in Credentials,
           NEW n \in Credentials, NEW f \in Generations, CompleteCustody(o, c, n, f)
    PROVE  CustodyInv'
  <1> DEFINE e == pending[o]
             u == e.wallet
             after == Applied(memory, e, c, n)
  <1>1. e \in CustodyCeremonies /\ u \in Wallets /\ memory \in SnapshotType
    BY CustodyTypes DEF CompleteCustody, CustodyCeremonies, TypeOK
  <1>2. Applies(memory, e, c, n, f)
    BY DEF CompleteCustody
  <1>3. after \in SnapshotType
    BY <1>1, <1>2, AppliedType
  <1>4. /\ SoundSnapshot(after)
        /\ Progress(e, memory.wallets[u], after.wallets[u], c, n)
        /\ \A w \in Wallets \ {u} : after.wallets[w] = memory.wallets[w]
    BY <1>1, <1>2, SoundMemory, SnapshotStep
  <1>5. /\ memory' = after /\ disk' = after /\ fence' = FenceAfter(after)
        /\ revoked' = revoked \union
              {u} \X Retires(e, memory.wallets[u], c, n)
        /\ e.kind = "register" => /\ backends' = backends \union {u}
                                  /\ enrolled' = enrolled \union {u}
                                  /\ u \notin enrolled
        /\ e.kind # "register" => backends' = backends /\ enrolled' = enrolled
    BY DEF CompleteCustody, Committable
  <1> HIDE DEF after
  <1>6. MemoryIsDurable'
    BY <1>5 DEF CeremonyInv, MemoryIsDurable
  <1>7. StartupSucceeds'
    BY <1>5 DEF StartupSucceeds, LoadAdmits, FenceAfter
  <1>8. CredentialsMatchWraps'
    BY <1>4, <1>5 DEF SoundSnapshot, Matching, CredentialsMatchWraps
  <1>9. AFactorRemains'
    BY <1>4, <1>5 DEF SoundSnapshot, SoundWallet, AFactorRemains
  <1>10. enrolled \subseteq enrolled' /\ memory'.wallets[u] # NoWallet => u \in enrolled'
    <2>1. CASE e.kind = "register"
      BY <1>5, <2>1
    <2>2. CASE e.kind # "register"
      BY <1>1, <1>4, <1>5, <2>2 DEF Progress, CeremonyInv, WalletsSound
    <2> QED
      BY <2>1, <2>2
  <1>11. WalletsSound'
    <2> SUFFICES ASSUME NEW w \in Wallets, after.wallets[w] # NoWallet
                 PROVE  /\ w \in enrolled'
                        /\ SoundWallet(after.wallets[w])
                        /\ \A v \in Wallets \ {w} : after.wallets[v] # NoWallet =>
                              Wraps(after.wallets[w]) \intersect
                              Wraps(after.wallets[v]) = {}
      BY <1>5 DEF WalletsSound, SoundWallet
    <2>1. w \in enrolled'
      <3>0. enrolled \subseteq enrolled'
        BY <1>5
      <3>1. CASE w = u
        BY <1>5, <1>10, <3>0, <3>1
      <3>2. CASE w # u
        BY <1>4, <3>0, <3>2 DEF CeremonyInv, WalletsSound
      <3> QED
        BY <3>1, <3>2
    <2>2. SoundWallet(after.wallets[w])
      BY <1>4 DEF SoundSnapshot
    <2>3. \A v \in Wallets \ {w} : after.wallets[v] # NoWallet =>
             Wraps(after.wallets[w]) \intersect Wraps(after.wallets[v]) = {}
      BY <1>4 DEF SoundSnapshot, Disjoint
    <2> QED
      BY <2>1, <2>2, <2>3
  <1>12. RevokedSound'
    <2> SUFFICES ASSUME NEW w \in Wallets, NEW g \in Factors, <<w, g>> \in revoked'
                 PROVE  /\ w \in enrolled'
                        /\ after.wallets[w] # NoWallet =>
                              \/ g \in after.wallets[w].inactive
                              \/ g \in Generations /\ g < after.wallets[w].generation
      BY <1>5 DEF RevokedSound
    <2>0. enrolled \subseteq enrolled'
      BY <1>5
    <2>1. CASE w # u
      <3>1. <<w, g>> \in revoked
        BY <1>5, <2>1
      <3> QED
        BY <1>4, <2>0, <2>1, <3>1 DEF CeremonyInv, RevokedSound
    <2>2. CASE w = u /\ <<w, g>> \in revoked
      <3>1. u \in enrolled /\ e.kind # "register"
        BY <1>1, <1>5, <2>2 DEF CeremonyInv, RevokedSound
      <3>2. memory.wallets[u] # NoWallet
        BY <1>4, <3>1 DEF Progress
      <3>3. \/ g \in memory.wallets[u].inactive
            \/ g \in Generations /\ g < memory.wallets[u].generation
        BY <1>1, <2>2, <3>2 DEF CeremonyInv, RevokedSound
      <3>4. ASSUME after.wallets[u] # NoWallet
            PROVE  /\ memory.wallets[u].inactive \subseteq after.wallets[u].inactive
                   /\ memory.wallets[u].generation <= after.wallets[u].generation
        BY <1>4, <3>2, <3>4 DEF Progress
      <3>5. /\ memory.wallets[u] \in WalletType
            /\ after.wallets[u] # NoWallet => after.wallets[u] \in WalletType
        BY <1>1, <1>3, <3>2 DEF SnapshotType
      <3>6. /\ memory.wallets[u].generation \in Nat
            /\ after.wallets[u] # NoWallet => after.wallets[u].generation \in Nat
        BY <3>5, CeremonyAssumption DEF WalletType, Generations
      <3>7. g \in Generations => g \in Nat
        BY CeremonyAssumption DEF Generations
      <3> QED
        BY <2>0, <2>2, <3>1, <3>3, <3>4, <3>6, <3>7
    <2>3. CASE w = u /\ <<w, g>> \notin revoked
      <3>1. g \in Retires(e, memory.wallets[u], c, n)
        BY <1>5, <2>3
      <3>2. memory.wallets[u] # NoWallet => u \in enrolled
        BY <1>1 DEF CeremonyInv, WalletsSound
      <3>3. e.kind # "register"
        BY <3>1 DEF Retires
      <3> QED
        BY <1>4, <2>0, <2>3, <3>1, <3>2, <3>3 DEF Progress
    <2> QED
      BY <2>1, <2>2, <2>3
  <1> QED
    BY <1>6, <1>7, <1>8, <1>9, <1>11, <1>12 DEF CustodyInv

\* A committed custody ceremony was not overtaken, and overtakes the others.
LEMMA CommitSession ==
    ASSUME TypeOK, CeremonyInv, NEW o \in Operations, NEW c \in Credentials,
           NEW n \in Credentials, NEW f \in Generations, CompleteCustody(o, c, n, f)
    PROVE  SessionInv'
  <1> DEFINE e == pending[o]
             u == e.wallet
             after == Applied(memory, e, c, n)
  <1>1. e \in CustodyCeremonies /\ u \in Wallets /\ memory \in SnapshotType
    BY CustodyTypes DEF CompleteCustody, CustodyCeremonies, TypeOK
  <1>2. Applies(memory, e, c, n, f) /\ Current(e) /\ FenceAdmits(e, after)
    BY DEF CompleteCustody, Committable
  <1>3. after \in SnapshotType
    BY <1>1, <1>2, AppliedType
  <1>4. /\ Progress(e, memory.wallets[u], after.wallets[u], c, n)
        /\ \A w \in Wallets \ {u} : after.wallets[w] = memory.wallets[w]
    BY <1>1, <1>2, SoundMemory, SnapshotStep
  <1>5. /\ memory' = after /\ fence' = FenceAfter(after)
        /\ pending' = [pending EXCEPT ![o] = NoCeremony]
        /\ receipts' = [receipts EXCEPT ![o] = "custody"]
        /\ \A q \in Operations \ {o} : statuses'[q] = statuses[q]
        /\ overtaken' = overtaken \union Overtakes(o)
        /\ UNCHANGED <<approvals, walletEpoch>>
        /\ enrolled \subseteq enrolled'
        /\ e.kind = "register" => u \notin enrolled
    BY DEF CompleteCustody, Consume, Committable, authorityVars, StatusAfterCommit,
       TypeOK
  <1> HIDE DEF after
  <1>6. /\ pending'[o] = NoCeremony
        /\ \A q \in Operations \ {o} :
              pending'[q] = pending[q] /\ receipts'[q] = receipts[q]
    BY <1>5 DEF TypeOK
  <1>7. /\ \A w \in Wallets : fence[w] \in Nat /\ fence'[w] \in Nat
        /\ \A w \in Wallets : memory.wallets[w] # NoWallet =>
              memory.wallets[w].generation = fence[w]
        /\ \A w \in Wallets : after.wallets[w] # NoWallet =>
              after.wallets[w].generation = fence'[w]
        /\ \A w \in Wallets : fence[w] <= fence'[w]
    <2>1. \A w \in Wallets : fence[w] \in Nat
      BY CeremonyAssumption DEF TypeOK, Generations
    <2>2. \A w \in Wallets : after.wallets[w] # NoWallet =>
            after.wallets[w].generation \in Nat
      BY <1>3, CeremonyAssumption DEF SnapshotType, WalletType, Generations
    <2>3. \A w \in Wallets : fence'[w] =
            IF after.wallets[w] = NoWallet THEN fence[w]
            ELSE after.wallets[w].generation
      BY <1>5 DEF FenceAfter
    <2>4. \A w \in Wallets : after.wallets[w] # NoWallet =>
            after.wallets[w].generation >= fence[w]
      BY <1>2 DEF FenceAdmits, after
    <2>5. \A w \in Wallets : memory.wallets[w] # NoWallet =>
            memory.wallets[w].generation = fence[w]
      BY DEF CeremonyInv, MemoryIsDurable, StartupSucceeds, LoadAdmits
    <2> QED
      BY <2>1, <2>2, <2>3, <2>4, <2>5
  <1>8. OpenSound'
    <2> SUFFICES ASSUME NEW q \in Operations, IsOpen(q)'
                 PROVE  /\ receipts'[q] = "none" /\ statuses'[q] = "none"
                        /\ pending'[q].generation <= fence'[pending'[q].wallet]
                        /\ pending'[q].kind = "approve" =>
                              pending'[q].wallet = ApprovalWallet[pending'[q].approval]
      BY DEF OpenSound
    <2>1. q # o /\ pending'[q] = pending[q] /\ IsOpen(q)
      BY <1>6 DEF IsOpen
    <2>2. /\ receipts[q] = "none" /\ statuses[q] = "none"
          /\ pending[q].generation <= fence[pending[q].wallet]
          /\ pending[q].kind = "approve" =>
                pending[q].wallet = ApprovalWallet[pending[q].approval]
      BY <2>1 DEF CeremonyInv, OpenSound
    <2>3. pending[q].wallet \in Wallets /\ pending[q].generation \in Nat
      BY <2>1, OpenTypes, CeremonyAssumption DEF Generations
    <2>4. pending[q].generation <= fence'[pending[q].wallet]
      BY <1>7, <2>2, <2>3
    <2> QED
      BY <1>5, <1>6, <2>1, <2>2, <2>4
  <1>9. OvertakenAreStale'
    <2> SUFFICES ASSUME NEW q \in overtaken', IsOpen(q)'
                 PROVE  Stale(pending[q])'
      BY DEF OvertakenAreStale
    <2>1. q \in Operations /\ q # o /\ pending'[q] = pending[q] /\ IsOpen(q)
      BY <1>5, <1>6 DEF TypeOK, IsOpen, Overtakes, OpenFor
    <2> DEFINE p == pending[q]
    <2>2. p.wallet \in Wallets /\ p.generation \in Nat
      BY <2>1, OpenTypes, CeremonyAssumption DEF Generations
    <2>3. \/ after.wallets[p.wallet] = NoWallet /\ p.wallet \in enrolled
          \/ /\ after.wallets[p.wallet] # NoWallet
             /\ p.generation < after.wallets[p.wallet].generation
          \/ p.kind = "approve" /\ ApprovalEpoch[p.approval] < WalletEpoch(p.wallet)
      <3>1. CASE q \in overtaken
        <4>1. Stale(p)
          BY <2>1, <3>1 DEF CeremonyInv, OvertakenAreStale
        <4>2. CASE p.wallet # u
          BY <1>4, <2>2, <4>1, <4>2 DEF Stale
        <4>3. CASE p.wallet = u /\ memory.wallets[u] = NoWallet /\ u \in enrolled
          BY <1>4, <1>5, <4>3 DEF Progress
        <4>4. CASE /\ p.wallet = u /\ memory.wallets[u] # NoWallet
                   /\ p.generation < memory.wallets[u].generation
          <5>1. u \in enrolled
            BY <1>1, <4>4 DEF CeremonyInv, WalletsSound
          <5>2. after.wallets[u] # NoWallet =>
                  memory.wallets[u].generation <= after.wallets[u].generation
            BY <1>4, <4>4 DEF Progress
          <5>3. /\ memory.wallets[u].generation \in Nat
                /\ after.wallets[u] # NoWallet => after.wallets[u].generation \in Nat
            BY <1>1, <1>7, <4>4
          <5> QED
            BY <2>2, <4>4, <5>1, <5>2, <5>3
        <4> QED
          BY <4>1, <4>2, <4>3, <4>4 DEF Stale
      <3>2. CASE q \in Overtakes(o)
        <4>1. p.wallet = u /\ e.kind \in {"recover", "delete"}
          BY <3>2 DEF Overtakes, OpenFor
        <4>2. memory.wallets[u] # NoWallet /\ u \in enrolled
          BY <1>1, <1>4, <4>1 DEF Progress, CeremonyInv, WalletsSound
        <4>3. p.generation <= memory.wallets[u].generation
          BY <1>1, <1>7, <2>1, <4>1, <4>2 DEF CeremonyInv, OpenSound
        <4>4. CASE e.kind = "delete"
          BY <1>4, <4>1, <4>2, <4>4 DEF Progress
        <4>5. CASE e.kind = "recover"
          <5>1. after.wallets[u] # NoWallet /\
                after.wallets[u].generation = memory.wallets[u].generation + 1
            BY <1>4, <4>5 DEF Progress
          <5> QED
            BY <1>1, <1>7, <2>2, <4>1, <4>2, <4>3, <5>1
        <4> QED
          BY <4>1, <4>4, <4>5
      <3> QED
        BY <1>5, <3>1, <3>2
    <2>4. WalletEpoch(p.wallet)' = WalletEpoch(p.wallet)
      BY <1>5, <2>1 DEF WalletEpoch
    <2> QED
      BY <1>5, <2>1, <2>3, <2>4 DEF Stale
  <1>10. o \notin overtaken'
    <2>1. o \notin Overtakes(o)
      BY DEF Overtakes
    <2>2. ~Stale(e)
      <3>1. CASE memory.wallets[u] = NoWallet
        <4>1. e.kind = "register"
          BY <1>4, <3>1 DEF Progress
        <4> QED
          BY <1>5, <3>1, <4>1 DEF Stale
      <3>2. CASE memory.wallets[u] # NoWallet
        <4>1. e.generation = memory.wallets[u].generation
          BY <1>2, <3>2 DEF Current, GenerationOf
        <4>2. e.kind # "approve"
          BY <1>1 DEF CustodyCeremonies, CustodyKinds
        <4> QED
          BY <1>1, <1>7, <3>2, <4>1, <4>2 DEF Stale
      <3> QED
        BY <3>1, <3>2
    <2>3. IsOpen(o)
      BY DEF CompleteCustody, Consume
    <2> QED
      BY <1>5, <2>1, <2>2, <2>3 DEF CeremonyInv, OvertakenAreStale
  <1>11. OvertakenNeverSucceeds'
    <2> SUFFICES ASSUME NEW q \in overtaken' PROVE receipts'[q] = "none"
      BY DEF OvertakenNeverSucceeds
    <2>1. q \in Operations \ {o} /\ receipts'[q] = receipts[q]
      BY <1>5, <1>6, <1>10 DEF TypeOK, Overtakes, OpenFor
    <2>2. CASE q \in overtaken
      BY <2>1, <2>2 DEF CeremonyInv, OvertakenNeverSucceeds
    <2>3. CASE q \in Overtakes(o)
      BY <2>1, <2>3 DEF CeremonyInv, OpenSound, Overtakes, OpenFor
    <2> QED
      BY <1>5, <2>2, <2>3
  <1> QED
    BY <1>8, <1>9, <1>11 DEF SessionInv

\* The wallet epoch only rises.
LEMMA EpochRises ==
    ASSUME AuthorityTypeOK, NEW w \in Wallets,
           \/ \E a \in Approvals : PersistApproval(a)
           \/ \E v \in Wallets : AdvanceEpoch(v)
    PROVE  /\ WalletEpoch(w) \in Nat /\ WalletEpoch(w)' \in Nat
           /\ WalletEpoch(w) <= WalletEpoch(w)'
  <1>1. walletEpoch \in [Wallets -> 0 .. MaxEpoch \union {NoRow}]
    BY DEF AuthorityTypeOK
  <1>2. WalletEpoch(w) \in Nat
    BY <1>1, AuthorityAssumption DEF WalletEpoch, NoRow
  <1>3. CASE \E a \in Approvals : PersistApproval(a)
    BY <1>1, <1>3, AuthorityAssumption DEF PersistApproval, WalletEpoch, NoRow
  <1>4. CASE \E v \in Wallets : AdvanceEpoch(v)
    <2> PICK v \in Wallets : AdvanceEpoch(v)
      BY <1>4
    <2>1. WalletEpoch(v) \in Nat
      BY <1>1, AuthorityAssumption DEF WalletEpoch, NoRow
    <2>2. CASE v = w
      BY <1>1, <2>1, <2>2 DEF AdvanceEpoch, WalletEpoch, NoRow
    <2>3. CASE v # w
      BY <1>1, <1>2, <2>3 DEF AdvanceEpoch, WalletEpoch
    <2> QED
      BY <2>2, <2>3
  <1> QED
    BY <1>2, <1>3, <1>4

\* Staleness survives a rise of the epoch.
LEMMA StaleRises ==
    ASSUME TypeOK, NEW q \in Operations, IsOpen(q), Stale(pending[q]),
           \/ \E a \in Approvals : PersistApproval(a)
           \/ \E v \in Wallets : AdvanceEpoch(v),
           pending'[q] = pending[q], UNCHANGED <<memory, enrolled>>
    PROVE  Stale(pending[q])'
  <1> DEFINE p == pending[q]
  <1>1. p.wallet \in Wallets
    BY OpenTypes
  <1>2. /\ WalletEpoch(p.wallet) \in Nat /\ WalletEpoch(p.wallet)' \in Nat
        /\ WalletEpoch(p.wallet) <= WalletEpoch(p.wallet)'
    BY <1>1, EpochRises DEF TypeOK
  <1>3. p.kind = "approve" => ApprovalEpoch[p.approval] \in Nat
    BY ApprovalTypes, AuthorityAssumption DEF ApprovalCeremonies
  <1>4. CASE p.kind = "approve" /\ ApprovalEpoch[p.approval] < WalletEpoch(p.wallet)
    <2>1. ApprovalEpoch[p.approval] < WalletEpoch(p.wallet)'
      BY <1>2, <1>3, <1>4
    <2> QED
      BY <1>4, <2>1 DEF Stale
  <1>5. CASE ~(p.kind = "approve" /\ ApprovalEpoch[p.approval] < WalletEpoch(p.wallet))
    BY <1>5 DEF Stale
  <1> QED
    BY <1>4, <1>5

\* An activation was not overtaken.
LEMMA ActivateSession ==
    ASSUME TypeOK, CeremonyInv, NEW o \in Operations, NEW c \in Credentials,
           ActivateApproval(o, c)
    PROVE  SessionInv'
  <1> DEFINE e == pending[o]
             w == e.wallet
  <1>1. e \in ApprovalCeremonies /\ w \in Wallets /\ e.approval \in Approvals
    BY ApprovalTypes DEF ActivateApproval, ApprovalCeremonies
  <1>2. /\ pending' = [pending EXCEPT ![o] = NoCeremony]
        /\ receipts' = [receipts EXCEPT ![o] = "approval"]
        /\ statuses' = [statuses EXCEPT ![o] = "SUCCEEDED"]
        /\ PersistApproval(e.approval) /\ IsOpen(o)
        /\ UNCHANGED <<memory, fence, enrolled, overtaken>>
    BY DEF ActivateApproval, Consume, custodyVars
  <1>3. /\ pending'[o] = NoCeremony
        /\ \A q \in Operations \ {o} : /\ pending'[q] = pending[q]
                                       /\ receipts'[q] = receipts[q]
                                       /\ statuses'[q] = statuses[q]
    BY <1>2 DEF TypeOK
  <1>4. OpenSound'
    BY <1>2, <1>3 DEF CeremonyInv, OpenSound, IsOpen
  <1>5. OvertakenAreStale'
    <2> SUFFICES ASSUME NEW q \in overtaken, IsOpen(q)'
                 PROVE  Stale(pending[q])'
      BY <1>2 DEF OvertakenAreStale
    <2>1. q \in Operations /\ pending'[q] = pending[q] /\ IsOpen(q)
      BY <1>3 DEF TypeOK, IsOpen
    <2>2. Stale(pending[q])
      BY <2>1 DEF CeremonyInv, OvertakenAreStale
    <2> QED
      BY <1>1, <1>2, <2>1, <2>2, StaleRises
  <1>6. ~Stale(e)
    <2>1. memory.wallets[w] # NoWallet
      BY <1>1 DEF ActivateApproval, Authenticates, CeremonyInv, CredentialsMatchWraps
    <2>2. e.generation = memory.wallets[w].generation /\ e.generation \in Nat
      BY <1>1, <2>1, CeremonyAssumption
         DEF ActivateApproval, Current, GenerationOf, ApprovalCeremonies, Generations
    <2>3. w = ApprovalWallet[e.approval]
      BY <1>2 DEF ActivateApproval, CeremonyInv, OpenSound
    <2>4. ~(ApprovalEpoch[e.approval] < WalletEpoch(w))
      BY <1>1, <1>2, <2>3, AuthorityAssumption
         DEF PersistApproval, WalletEpoch
    <2> QED
      BY <2>1, <2>2, <2>4 DEF Stale
  <1>7. OvertakenNeverSucceeds'
    BY <1>2, <1>3, <1>6 DEF CeremonyInv, OvertakenAreStale, OvertakenNeverSucceeds,
       TypeOK
  <1> QED
    BY <1>4, <1>5, <1>7 DEF SessionInv

\* revoke_all overtakes the activations of the epoch it ends.
LEMMA RevokeSession ==
    ASSUME TypeOK, CeremonyInv, NEW w \in Wallets, RevokeAll(w)
    PROVE  SessionInv'
  <1>1. /\ AdvanceEpoch(w)
        /\ overtaken' = overtaken \union
             {o \in OpenFor(w) :
                 /\ pending[o].kind = "approve"
                 /\ ApprovalEpoch[pending[o].approval] <= WalletEpoch(w)}
        /\ UNCHANGED <<pending, memory, fence, enrolled, receipts, statuses>>
    BY DEF RevokeAll, memoryVars, custodyVars, outcomeVars
  <1>2. OpenSound'
    BY <1>1 DEF CeremonyInv, OpenSound, IsOpen
  <1>3. OvertakenAreStale'
    <2> SUFFICES ASSUME NEW q \in overtaken', IsOpen(q)'
                 PROVE  Stale(pending[q])'
      BY DEF OvertakenAreStale
    <2>1. q \in Operations /\ pending'[q] = pending[q] /\ IsOpen(q)
      BY <1>1 DEF TypeOK, IsOpen, OpenFor
    <2>2. CASE q \in overtaken
      <3>1. Stale(pending[q])
        BY <2>1, <2>2 DEF CeremonyInv, OvertakenAreStale
      <3> QED
        BY <1>1, <2>1, <3>1, StaleRises
    <2>3. CASE q \notin overtaken
      <3>1. /\ pending[q].kind = "approve" /\ pending[q].wallet = w
            /\ ApprovalEpoch[pending[q].approval] <= WalletEpoch(w)
        BY <1>1, <2>3 DEF OpenFor
      <3>2. ApprovalEpoch[pending[q].approval] \in Nat
        BY <2>1, <3>1, ApprovalTypes, AuthorityAssumption DEF ApprovalCeremonies
      <3>3. WalletEpoch(w) \in Nat /\ WalletEpoch(w)' = WalletEpoch(w) + 1
        BY <1>1, AuthorityAssumption
           DEF AdvanceEpoch, WalletEpoch, NoRow, TypeOK, AuthorityTypeOK
      <3>4. ApprovalEpoch[pending[q].approval] < WalletEpoch(w)'
        BY <3>1, <3>2, <3>3
      <3> QED
        BY <2>1, <3>1, <3>4 DEF Stale
    <2> QED
      BY <2>2, <2>3
  <1>4. OvertakenNeverSucceeds'
    BY <1>1 DEF CeremonyInv, OvertakenNeverSucceeds, OpenSound, OpenFor
  <1> QED
    BY <1>2, <1>3, <1>4 DEF SessionInv

LEMMA InvStep == TypeOK /\ CeremonyInv /\ [Next]_vars => CeremonyInv'
  <1> SUFFICES ASSUME TypeOK, CeremonyInv, [Next]_vars
               PROVE  CustodyInv' /\ SessionInv'
    BY InvParts DEF CeremonyInv, CustodyInv, SessionInv
  <1>0. CustodyInv
    BY InvParts
  <1>1. ASSUME NEW o \in Operations, NEW a \in Approvals, PrepareApproval(o, a)
        PROVE  CustodyInv' /\ SessionInv'
    <2> DEFINE w == ApprovalWallet[a]
               e == [kind |-> "approve", wallet |-> w, approval |-> a,
                     generation |-> GenerationOf(memory, w),
                     expires |-> Earlier(now + CeremonyTtl, ApprovalExpires[a])]
    <2>1. w \in Wallets /\ memory \in SnapshotType
      BY AuthorityAssumption DEF TypeOK
    <2>2. Earlier(now + CeremonyTtl, ApprovalExpires[a]) \in Nat
      BY CeremonyAssumption DEF TypeOK, Earlier
    <2>3. e \in ApprovalCeremonies
      BY <2>1, <2>2, GenerationType DEF ApprovalCeremonies
    <2>4. Open(o, e)
      BY <1>1 DEF PrepareApproval
    <2>5. e.generation = GenerationOf(memory, e.wallet)
          /\ e.wallet = ApprovalWallet[e.approval]
      OBVIOUS
    <2> HIDE DEF e
    <2>6. SessionInv'
      BY <2>3, <2>4, <2>5, OpenStep
    <2> QED
      BY <1>0, <2>4, <2>6, Quiet DEF Open, custodyVars
  <1>2. ASSUME NEW o \in Operations, NEW k \in CustodyKinds, NEW w \in Wallets,
               PrepareCustody(o, k, w)
        PROVE  CustodyInv' /\ SessionInv'
    <2> DEFINE e == [kind |-> k, wallet |-> w, recipient |-> FALSE,
                     generation |-> GenerationOf(memory, w),
                     expires |-> now + CeremonyTtl]
    <2>1. now + CeremonyTtl \in Nat /\ memory \in SnapshotType
      BY CeremonyAssumption DEF TypeOK
    <2>2. e \in CustodyCeremonies
      BY <2>1, GenerationType DEF CustodyCeremonies
    <2>3. Open(o, e)
      BY <1>2 DEF PrepareCustody
    <2>4. e.generation = GenerationOf(memory, e.wallet) /\ e.kind # "approve"
      BY DEF CustodyKinds
    <2> HIDE DEF e
    <2>5. SessionInv'
      BY <2>2, <2>3, <2>4, OpenStep
    <2> QED
      BY <1>0, <2>3, <2>5, Quiet DEF Open, custodyVars
  <1>3. ASSUME NEW o \in Operations, BindRecipient(o)
        PROVE  CustodyInv' /\ SessionInv'
    <2>0. pending[o] \in CustodyCeremonies /\ pending[o] # NoCeremony
      BY <1>3, CustodyTypes DEF BindRecipient, OutputKinds, CustodyKinds, NoCeremony
    <2>1. /\ \A q \in Operations \ {o} : pending'[q] = pending[q]
          /\ pending'[o].kind = pending[o].kind
          /\ pending'[o].wallet = pending[o].wallet
          /\ pending'[o].generation = pending[o].generation
      BY <1>3, <2>0 DEF BindRecipient, TypeOK, CustodyCeremonies
    <2>2. UNCHANGED <<memory, backends, disk, fence, enrolled, revoked, receipts,
                      statuses, overtaken, approvals, walletEpoch>>
      BY <1>3 DEF BindRecipient, custodyVars, outcomeVars, authorityVars
    <2>3. IsOpen(o) /\ pending[o].kind # "approve"
      BY <2>0 DEF IsOpen, CustodyCeremonies, CustodyKinds
    <2>4. OpenSound'
      BY <2>1, <2>2, <2>3 DEF CeremonyInv, OpenSound, IsOpen
    <2>5. OvertakenAreStale'
      <3> SUFFICES ASSUME NEW q \in overtaken, IsOpen(q)' PROVE Stale(pending[q])'
        BY <2>2 DEF OvertakenAreStale
      <3>1. CASE q = o
        BY <2>1, <2>2, <2>3, <3>1 DEF CeremonyInv, OvertakenAreStale, Stale
      <3>2. CASE q # o
        <4>1. q \in Operations /\ pending'[q] = pending[q] /\ IsOpen(q)
          BY <2>1, <3>2 DEF TypeOK, IsOpen
        <4>2. Stale(pending[q])
          BY <4>1 DEF CeremonyInv, OvertakenAreStale
        <4> QED
          BY <2>2, <4>1, <4>2 DEF Stale, WalletEpoch
      <3> QED
        BY <3>1, <3>2
    <2>6. OvertakenNeverSucceeds'
      BY <2>2 DEF CeremonyInv, OvertakenNeverSucceeds
    <2> QED
      BY <1>0, <2>2, <2>4, <2>5, <2>6, Quiet DEF SessionInv
  <1>4. ASSUME NEW o \in Operations, RefuseCompletion(o) \/ Cancel(o)
        PROVE  CustodyInv' /\ SessionInv'
    <2>1. /\ pending' = [pending EXCEPT ![o] = NoCeremony]
          /\ \A q \in Operations \ {o} : statuses'[q] = statuses[q]
          /\ UNCHANGED <<memory, backends, disk, fence, enrolled, receipts,
                         approvals, walletEpoch, overtaken, revoked>>
      BY <1>4 DEF RefuseCompletion, Cancel, Consume, Terminalized, TypeOK,
         custodyVars, authorityVars
    <2> QED
      BY <1>0, <2>1, Quiet, CloseStep
  <1>5. ASSUME NEW o \in Operations, NEW c \in Credentials, NEW n \in Credentials,
               NEW f \in Generations, FailCommit(o, c, n, f)
        PROVE  CustodyInv' /\ SessionInv'
    <2>1. /\ pending' = [pending EXCEPT ![o] = NoCeremony]
          /\ \A q \in Operations \ {o} : statuses'[q] = statuses[q]
          /\ UNCHANGED <<memory, disk, fence, enrolled, receipts,
                         approvals, walletEpoch, overtaken, revoked>>
      BY <1>5 DEF FailCommit, Consume, Terminalized, TypeOK, RestoredSnapshot,
         custodyVars, authorityVars
    <2>2. backends' = backends
      BY <1>5 DEF FailCommit, RolledBackBackends, Applies
    <2> QED
      BY <1>0, <2>1, <2>2, Quiet, CloseStep
  <1>6. ASSUME NEW o \in Operations, NEW c \in Credentials, ActivateApproval(o, c)
        PROVE  CustodyInv' /\ SessionInv'
    <2>1. UNCHANGED <<memory, backends, disk, fence, enrolled, revoked>>
      BY <1>6 DEF ActivateApproval, custodyVars
    <2> QED
      BY <1>0, <1>6, <2>1, Quiet, ActivateSession
  <1>7. ASSUME NEW o \in Operations, NEW c \in Credentials, NEW n \in Credentials,
               NEW f \in Generations, CompleteCustody(o, c, n, f)
        PROVE  CustodyInv' /\ SessionInv'
    BY <1>7, CommitCustody, CommitSession
  <1>8. CASE Restart
    <2>1. UNCHANGED <<memory, backends, disk, fence, enrolled, revoked, receipts,
                      overtaken>>
      BY <1>8 DEF Restart, custodyVars, outcomeVars, CeremonyInv, MemoryIsDurable
    <2>2. \A o \in Operations : ~IsOpen(o)'
      BY <1>8 DEF Restart, IsOpen
    <2>3. SessionInv'
      BY <2>1, <2>2 DEF SessionInv, OpenSound, OvertakenAreStale,
         OvertakenNeverSucceeds, CeremonyInv, TypeOK
    <2> QED
      BY <1>0, <2>1, <2>3, Quiet
  <1>9. CASE AdvanceTime \/ UNCHANGED vars
    <2>1. UNCHANGED <<pending, memory, backends, disk, fence, enrolled, revoked,
                      receipts, statuses, overtaken, approvals, walletEpoch>>
      BY <1>9 DEF AdvanceTime, vars, memoryVars, custodyVars, outcomeVars,
         authorityVars
    <2>2. OpenSound' /\ OvertakenNeverSucceeds'
      BY <2>1 DEF CeremonyInv, OpenSound, OvertakenNeverSucceeds, IsOpen
    <2>3. OvertakenAreStale'
      BY <2>1 DEF CeremonyInv, OvertakenAreStale, IsOpen, Stale, WalletEpoch
    <2> QED
      BY <1>0, <2>1, <2>2, <2>3, Quiet DEF SessionInv
  <1>10. ASSUME NEW w \in Wallets, RevokeAll(w)
         PROVE  CustodyInv' /\ SessionInv'
    <2>1. UNCHANGED <<memory, backends, disk, fence, enrolled, revoked>>
      BY <1>10 DEF RevokeAll, memoryVars, custodyVars
    <2> QED
      BY <1>0, <1>10, <2>1, Quiet, RevokeSession
  <1> QED
    BY <1>1, <1>2, <1>3, <1>4, <1>5, <1>6, <1>7, <1>8, <1>9, <1>10
       DEF Next, Complete

\* The inductive invariant of the ceremonies holds in every reachable state.
THEOREM CeremonySafe == Spec => [](TypeOK /\ CeremonyInv)
  <1>1. Init => TypeOK /\ CeremonyInv
    BY TypeInit, InvInit
  <1>2. (TypeOK /\ CeremonyInv) /\ [Next]_vars => (TypeOK /\ CeremonyInv)'
    BY TypeStep, InvStep
  <1> QED
    BY <1>1, <1>2, PTL DEF Spec

-----------------------------------------------------------------------------
(* What follows from it *)

\* Whatever step of a completion fails, the service goes on with the wallets,
\* credentials and backends a restart would load (restore_custody_snapshot).
THEOREM MemoryDurable == Spec => []MemoryIsDurable
  <1>1. CeremonyInv => MemoryIsDurable
    BY DEF CeremonyInv
  <1> QED
    BY <1>1, CeremonySafe, PTL

\* No sequence of ceremonies leaves rows a restart would refuse
\* (load_ceremony_custody).
THEOREM StartupAlways == Spec => []StartupSucceeds
  <1>1. CeremonyInv => StartupSucceeds
    BY DEF CeremonyInv
  <1> QED
    BY <1>1, CeremonySafe, PTL

\* A credential authenticates for a wallet exactly when it can unlock it
\* (the credential map against the wraps of the wallet).
THEOREM CredentialsMatch == Spec => []CredentialsMatchWraps
  <1>1. CeremonyInv => CredentialsMatchWraps
    BY DEF CeremonyInv
  <1> QED
    BY <1>1, CeremonySafe, PTL

\* Every wallet keeps a credential or a recovery factor (revoke_credential).
THEOREM FactorRemains == Spec => []AFactorRemains
  <1>1. CeremonyInv => AFactorRemains
    BY DEF CeremonyInv
  <1> QED
    BY <1>1, CeremonySafe, PTL

\* A factor a wallet retired never opens it again (add_credential,
\* recover_replace_credentials): a retired credential is among the inactive
\* wraps, a retired recovery factor is of an earlier generation.
THEOREM RetiredForGood == Spec => []RetiredStaysRetired
  <1>1. TypeOK /\ CeremonyInv => RetiredStaysRetired
    <2> SUFFICES ASSUME TypeOK, CeremonyInv, NEW w \in Wallets,
                        memory.wallets[w] # NoWallet,
                        NEW g \in FactorsOf(memory.wallets[w]),
                        <<w, g>> \in revoked
                 PROVE  FALSE
      BY DEF RetiredStaysRetired
    <2> DEFINE x == memory.wallets[w]
    <2>1. x \in WalletType
      BY DEF TypeOK, SnapshotType
    <2>2. g \in Factors
      BY DEF TypeOK
    <2>3. g \in x.inactive \/ (g \in Generations /\ g < x.generation)
      BY <2>2 DEF CeremonyInv, RevokedSound
    <2>4. /\ x.active \intersect x.inactive = {}
          /\ x.recovery \in {NoFactor, x.generation}
      BY DEF CeremonyInv, WalletsSound
    <2>5. Credentials \intersect Generations = {}
      BY CeremonyAssumption
    <2>6. /\ x.active \subseteq Credentials /\ x.inactive \subseteq Credentials
          /\ x.generation \in Generations
      BY <2>1 DEF WalletType
    <2>7. g \in x.active \/ (g = x.generation /\ g \in Generations)
      BY <2>4, <2>6 DEF FactorsOf
    <2>8. CASE g \in x.active
      BY <2>3, <2>4, <2>5, <2>6, <2>8
    <2>9. CASE g = x.generation /\ g \in Generations
      <3>1. g \notin x.inactive
        BY <2>5, <2>6, <2>9
      <3>2. g \in Nat
        BY <2>9, CeremonyAssumption DEF Generations
      <3> QED
        BY <2>3, <2>9, <3>1, <3>2
    <2> QED
      BY <2>7, <2>8, <2>9
  <1> QED
    BY <1>1, CeremonySafe, PTL

\* A ceremony that was overtaken while open never succeeds (the generation
\* checks of the completions, the epoch check of persist_approval).
THEOREM OvertakenFails == Spec => []OvertakenNeverSucceeds
  <1>1. CeremonyInv => OvertakenNeverSucceeds
    BY DEF CeremonyInv
  <1> QED
    BY <1>1, CeremonySafe, PTL

\* A terminal outcome is final, over retries, cancellations, restarts and
\* reuse of the operation ID (require_unopened_operation_id).
THEOREM OutcomesFinal == Spec => OutcomesAreFinal
  <1>1. TypeOK /\ CeremonyInv /\ [Next]_vars =>
          [\A o \in Operations : statuses[o] # "none" =>
              statuses'[o] = statuses[o] /\ receipts'[o] = receipts[o]]_vars
    <2> SUFFICES ASSUME TypeOK, CeremonyInv, Next,
                        NEW q \in Operations, statuses[q] # "none"
                 PROVE  statuses'[q] = statuses[q] /\ receipts'[q] = receipts[q]
      OBVIOUS
    <2>0. ~IsOpen(q)
      BY DEF CeremonyInv, OpenSound
    <2>1. ASSUME NEW o \in Operations, NEW a \in Approvals, PrepareApproval(o, a)
          PROVE  UNCHANGED outcomeVars
      BY <2>1 DEF PrepareApproval, Open
    <2>2. ASSUME NEW o \in Operations, NEW k \in CustodyKinds, NEW w \in Wallets,
                 PrepareCustody(o, k, w)
          PROVE  UNCHANGED outcomeVars
      BY <2>2 DEF PrepareCustody, Open
    <2>3. ASSUME NEW o \in Operations, IsOpen(o),
                 \/ RefuseCompletion(o) \/ Cancel(o)
                 \/ \E c \in Credentials : ActivateApproval(o, c)
                 \/ \E c, n \in Credentials, f \in Generations :
                       CompleteCustody(o, c, n, f) \/ FailCommit(o, c, n, f)
          PROVE  statuses'[q] = statuses[q] /\ receipts'[q] = receipts[q]
      <3>1. q # o
        BY <2>0, <2>3
      <3>2. CASE RefuseCompletion(o) \/ Cancel(o)
        BY <3>1, <3>2 DEF RefuseCompletion, Cancel, Terminalized, TypeOK
      <3>3. CASE \E c \in Credentials : ActivateApproval(o, c)
        BY <3>1, <3>3 DEF ActivateApproval, TypeOK
      <3>4. ASSUME NEW c \in Credentials, NEW n \in Credentials, NEW f \in Generations,
                   CompleteCustody(o, c, n, f)
            PROVE  statuses'[q] = statuses[q] /\ receipts'[q] = receipts[q]
        BY <3>1, <3>4 DEF CompleteCustody, StatusAfterCommit, TypeOK
      <3>5. ASSUME NEW c \in Credentials, NEW n \in Credentials, NEW f \in Generations,
                   FailCommit(o, c, n, f)
            PROVE  statuses'[q] = statuses[q] /\ receipts'[q] = receipts[q]
        BY <3>1, <3>5 DEF FailCommit, Terminalized, TypeOK
      <3> QED
        BY <2>3, <3>2, <3>3, <3>4, <3>5
    <2>4. ASSUME NEW o \in Operations,
                 \/ RefuseCompletion(o) \/ Cancel(o)
                 \/ \E c \in Credentials : ActivateApproval(o, c)
                 \/ \E c, n \in Credentials, f \in Generations :
                       CompleteCustody(o, c, n, f) \/ FailCommit(o, c, n, f)
          PROVE  IsOpen(o)
      BY <2>4 DEF RefuseCompletion, Cancel, ActivateApproval, CompleteCustody,
         FailCommit, Consume
    <2>5. ASSUME NEW o \in Operations, BindRecipient(o)
          PROVE  UNCHANGED outcomeVars
      BY <2>5 DEF BindRecipient
    <2>6. CASE Restart \/ AdvanceTime \/ \E w \in Wallets : RevokeAll(w)
      BY <2>6 DEF Restart, AdvanceTime, RevokeAll, outcomeVars
    <2> QED
      BY <2>1, <2>2, <2>3, <2>4, <2>5, <2>6 DEF Next, Complete, outcomeVars
  <1> QED
    BY <1>1, CeremonySafe, PTL DEF Spec, OutcomesAreFinal

\* While receipts are readable, an operation succeeded exactly when it has a
\* receipt (terminalize_consumed_ceremony).  When one may not be readable, a
\* failure after the commit can overwrite the status.
THEOREM OutcomesAlwaysAgree ==
    ASSUME ~ReadsMayFail
    PROVE  Spec => []OutcomesAgree
  <1>1. Init => OutcomesAgree
    BY DEF Init, OutcomesAgree, IsOpen
  <1>2. TypeOK /\ OutcomesAgree /\ [Next]_vars => OutcomesAgree'
    <2> SUFFICES ASSUME TypeOK, OutcomesAgree, [Next]_vars PROVE OutcomesAgree'
      OBVIOUS
    <2>1. ASSUME NEW o \in Operations,
                 \/ \E a \in Approvals : PrepareApproval(o, a)
                 \/ \E k \in CustodyKinds, w \in Wallets : PrepareCustody(o, k, w)
          PROVE  OutcomesAgree'
      <3>1. /\ receipts[o] = "none" /\ statuses[o] = "none"
            /\ UNCHANGED <<receipts, statuses, completed>>
            /\ \A q \in Operations \ {o} : pending'[q] = pending[q]
        BY <2>1 DEF PrepareApproval, PrepareCustody, Open, RequireUnopened,
           outcomeVars, TypeOK
      <3> QED
        BY <3>1 DEF OutcomesAgree, IsOpen
    <2>2. ASSUME NEW o \in Operations, BindRecipient(o)
          PROVE  OutcomesAgree'
      <3>1. /\ UNCHANGED <<receipts, statuses, completed>>
            /\ \A q \in Operations \ {o} : pending'[q] = pending[q]
        BY <2>2 DEF BindRecipient, outcomeVars, TypeOK
      <3>2. IsOpen(o)
        BY <2>2 DEF BindRecipient, IsOpen, NoCeremony, OutputKinds
      <3> QED
        BY <3>1, <3>2 DEF OutcomesAgree, IsOpen
    <2>3. ASSUME NEW o \in Operations,
                 \/ RefuseCompletion(o) \/ Cancel(o)
                 \/ \E c, n \in Credentials, f \in Generations : FailCommit(o, c, n, f)
          PROVE  OutcomesAgree'
      <3>1. /\ IsOpen(o) /\ UNCHANGED <<receipts, completed>>
            /\ statuses'[o] \in {statuses[o], "FAILED", "EXPIRED", "CANCELLED"}
            /\ \A q \in Operations \ {o} : /\ pending'[q] = pending[q]
                                           /\ statuses'[q] = statuses[q]
            /\ pending'[o] = NoCeremony
        BY <2>3 DEF RefuseCompletion, Cancel, FailCommit, Consume, Terminalized,
           TerminalState, TypeOK
      <3> QED
        BY <3>1 DEF OutcomesAgree, IsOpen
    <2>4. ASSUME NEW o \in Operations,
                 \/ \E c \in Credentials : ActivateApproval(o, c)
                 \/ \E c, n \in Credentials, f \in Generations :
                       CompleteCustody(o, c, n, f)
          PROVE  OutcomesAgree'
      <3>1. /\ receipts'[o] # "none" /\ statuses'[o] = "SUCCEEDED"
            /\ pending'[o] = NoCeremony
            /\ completed' \subseteq completed \union {o}
            /\ \A q \in Operations \ {o} : /\ pending'[q] = pending[q]
                                           /\ statuses'[q] = statuses[q]
                                           /\ receipts'[q] = receipts[q]
        BY <2>4 DEF ActivateApproval, CompleteCustody, StatusAfterCommit, Consume,
           TypeOK
      <3> QED
        BY <3>1 DEF OutcomesAgree, IsOpen
    <2>5. CASE Restart
      BY <2>5 DEF Restart, OutcomesAgree, IsOpen, outcomeVars
    <2>6. CASE AdvanceTime \/ (\E w \in Wallets : RevokeAll(w)) \/ UNCHANGED vars
      BY <2>6 DEF AdvanceTime, RevokeAll, vars, OutcomesAgree, IsOpen, memoryVars,
         outcomeVars
    <2> QED
      BY <2>1, <2>2, <2>3, <2>4, <2>5, <2>6 DEF Next, Complete
  <1> QED
    BY <1>1, <1>2, TypeCorrect, PTL DEF Spec
=============================================================================
