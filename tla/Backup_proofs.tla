---------------------------- MODULE Backup_proofs ----------------------------
(***************************************************************************)
(* Proofs about backup, restore and the policy compare-and-swap, for any   *)
(* hosts, wallets, approvals, operations, updates and bounds.              *)
(*                                                                         *)
(* The argument has two halves.  What a restore checks of the rows is      *)
(* enough, whatever the journals say, to keep the authority of a wallet    *)
(* and the answers of its revocations.  Where a wallet has followed the    *)
(* journal its rows are also what the journal replays to: a replay is a    *)
(* sequence of rows, one for every entry; two journals with a common       *)
(* prefix replay alike along it, and a replay never goes back.             *)
(***************************************************************************)
EXTENDS Backup, FiniteSetTheorems, WellFoundedInduction, TLAPS

-----------------------------------------------------------------------------
(* Replaying a journal *)

\* The rows of a wallet after an event of its own, from the rows before it.
EffectOf(r, e) ==
    CASE e[1] = "registered" -> Registered
      [] e[1] = "activated" -> [r EXCEPT !.approvals[e[3]] = "active"]
      [] e[1] = "revoked" ->
            [r EXCEPT !.approvals[e[3]] = "inactive",
                      !.tombstones[e[3]] = [by |-> e[4], epoch |-> r.epoch],
                      !.revocations[e[4]] =
                          [of |-> e[3], tombstone |-> [by |-> e[4], epoch |-> r.epoch]]]
      [] e[1] = "reconciled" ->
            [r EXCEPT !.revocations[e[4]] = [of |-> e[3], tombstone |-> r.tombstones[e[3]]]]
      [] e[1] = "revoke_all" ->
            [r EXCEPT !.epoch = @ + 1,
                      !.revoked = [by |-> e[3], epoch |-> r.epoch + 1],
                      !.approvals = [a \in Approvals |->
                                       IF @[a] = "absent" THEN "absent" ELSE "inactive"],
                      !.revocations[e[3]] =
                          [of |-> "wallet", tombstone |-> [by |-> e[3], epoch |-> r.epoch + 1]]]
      [] e[1] = "recovery" -> [r EXCEPT !.generation = @ + 1]
      [] e[1] = "reserved" -> [r EXCEPT !.operations[e[3]] = "reserved",
                                        !.used[ApprovalOf[e[3]]] = @ + 1]
      [] e[1] = "committed" -> [r EXCEPT !.operations[e[3]] = "committed"]
      [] e[1] = "released" -> [r EXCEPT !.operations[e[3]] = "released",
                                        !.used[ApprovalOf[e[3]]] = @ - 1]
      [] e[1] = "policy.committed" -> [r EXCEPT !.version = @ + 1, !.policy = e[3]]
      [] e[1] = "allocated" -> [r EXCEPT !.accounts[e[3]] = "active"]
      [] e[1] = "retired" -> [r EXCEPT !.accounts[e[3]] = "retired"]
      [] OTHER -> r

\* The rows an event may meet.
LegalOf(r, e) ==
    /\ e[1] = "registered" => r = NoRows
    /\ e[1] = "activated" => r.approvals[e[3]] = "absent"
    /\ e[1] = "revoked" => /\ r.approvals[e[3]] # "absent"
                           /\ r.tombstones[e[3]] = NoTombstone
                           /\ r.revocations[e[4]] = NoResult
    /\ e[1] = "reconciled" => /\ r.tombstones[e[3]] # NoTombstone
                              /\ r.revocations[e[4]] = NoResult
    /\ e[1] = "revoke_all" => r.revocations[e[3]] = NoResult
    /\ e[1] = "recovery" => r.version > 0
    /\ e[1] = "reserved" => /\ r.operations[e[3]] = "absent"
                            /\ r.approvals[ApprovalOf[e[3]]] = "active"
    /\ e[1] \in {"committed", "released"} => r.operations[e[3]] = "reserved"
    /\ e[1] = "released" => r.used[ApprovalOf[e[3]]] > 0
    /\ e[1] = "allocated" => r.accounts[e[3]] = "free"
    /\ e[1] = "retired" => r.accounts[e[3]] = "active"

\* The same of the rows of wallet w and an event of any wallet.
Effect(w, r, e) == IF Changes(w, e) THEN EffectOf(r, e) ELSE r
Legal(w, r, e) == Changes(w, e) => LegalOf(r, e)

\* The tombstones, the epoch and the answers of revocations agree.
RevInv(r) ==
    /\ r.epoch = r.revoked.epoch
    /\ r.epoch = 0 <=> r.revoked = NoTombstone
    /\ \A a \in Approvals : r.tombstones[a] # NoTombstone => r.approvals[a] = "inactive"
    /\ \A q \in Revocations :
          /\ r.revocations[q].of = "wallet" =>
                /\ r.revocations[q].tombstone.epoch > 0
                /\ \/ r.revocations[q].tombstone.epoch < r.epoch
                   \/ r.revocations[q].tombstone = r.revoked
          /\ r.revocations[q].of \in Approvals =>
                /\ r.revocations[q].tombstone # NoTombstone
                /\ r.tombstones[r.revocations[q].of] = r.revocations[q].tombstone

Counted(r, a) ==
    {o \in Operations : /\ ApprovalOf[o] = a
                        /\ r.operations[o] \in {"reserved", "committed"}}

\* The counter of an approval is exact, an operation has its approval, and there
\* is neither a policy nor a generation before the custody.
RowInv(r) ==
    /\ RevInv(r)
    /\ \A a \in Approvals : /\ IsFiniteSet(Counted(r, a))
                            /\ r.used[a] = Cardinality(Counted(r, a))
    /\ \A o \in Operations : r.operations[o] # "absent"
                               => r.approvals[ApprovalOf[o]] # "absent"
    /\ r.version = 0 => r.policy = InitialPolicy /\ r.generation = 0

\* Nothing of x is lost or unknown in y.
Precedes(x, y) ==
    /\ KeepsAuthority(x, y)
    /\ KeepsRetirements(x, y)
    /\ \A a \in Approvals : x.approvals[a] # "absent" => y.approvals[a] # "absent"
    /\ \A o \in Operations : x.operations[o] # "absent" => y.operations[o] # "absent"
    /\ \A n \in Numbers : x.accounts[n] # "free" => y.accounts[n] # "free"

\* T replays the journal j for wallet w and ends in the rows r.
IsReplay(w, T, j, r) ==
    /\ T \in [0 .. Len(j) -> Material]
    /\ T[0] = NoRows
    /\ T[Len(j)] = r
    /\ \A i \in 1 .. Len(j) :
          Legal(w, T[i - 1], j[i]) /\ T[i] = Effect(w, T[i - 1], j[i])
    /\ \A i \in 0 .. Len(j) : RowInv(T[i])

ReplaysTo(w, j, r) == \E T : IsReplay(w, T, j, r)

LEMMA SmallestNumber ==
    ASSUME NEW S \in SUBSET Nat, S # {}
    PROVE  \E m \in S : \A y \in S : m <= y
  <1> DEFINE R == OpToRel(<, Nat)
  <1>1. IsWellFoundedOn(R, Nat)
    BY NatLessThanWellFounded
  <1> HIDE DEF R
  <1>2. PICK m \in S : \A y \in S : ~ (<<y, m>> \in R)
    BY <1>1, WFMin
  <1>3. \A y \in S : ~ (y < m)
    BY <1>2 DEF OpToRel, R
  <1> QED
    BY <1>3

LEMMA NoRowsTyped ==
    NoRows \in Material /\ RowInv(NoRows)
  <1>1. NoRows \in Material
    BY DEF NoRows, Material, Tombstones, Results, NoTombstone, NoResult
  <1>2. \A a \in Approvals : Counted(NoRows, a) = {}
    BY DEF Counted, NoRows
  <1>3. \A a \in Approvals : NoRows.used[a] = 0
    BY DEF NoRows
  <1>4. /\ \A o \in Operations : NoRows.operations[o] = "absent"
        /\ NoRows.policy = InitialPolicy /\ NoRows.generation = 0
    BY DEF NoRows
  <1>5. RevInv(NoRows)
    BY BackupAssumption DEF RevInv, NoRows, NoTombstone, NoResult
  <1> QED
    BY <1>1, <1>2, <1>3, <1>4, <1>5, FS_EmptySet DEF RowInv

LEMMA PrecedesReflexive ==
    ASSUME NEW x \in Material
    PROVE  Precedes(x, x) /\ KeepsAuthority(x, x)
  BY DEF Precedes, KeepsAuthority, KeepsRetirements, Material

LEMMA PrecedesTransitive ==
    ASSUME NEW x \in Material, NEW y \in Material, NEW z \in Material,
           Precedes(x, y), Precedes(y, z)
    PROVE  Precedes(x, z)
  <1>1. KeepsAuthority(x, z)
    BY DEF Precedes, KeepsAuthority, Material
  <1>2. KeepsRetirements(x, z)
    BY DEF Precedes, KeepsRetirements
  <1> QED
    BY <1>1, <1>2 DEF Precedes

LEMMA EventShape ==
    ASSUME NEW e \in Events
    PROVE  /\ e[1] \in {"registered", "revoke_all", "recovery", "custody.export",
                        "custody.import", "activated", "revoked", "reconciled", "reserved",
                        "committed", "released", "policy.authorized", "policy.committed",
                        "allocated", "abandoned", "retired"}
           /\ e[1] \in {"activated", "revoked", "reconciled"} => e[3] \in Approvals
           /\ e[1] \in {"revoked", "reconciled"} => e[4] \in Revocations
           /\ e[1] = "revoke_all" => e[3] \in Revocations
           /\ e[1] \in {"reserved", "committed", "released"} => e[3] \in Operations
           /\ e[1] \in {"policy.authorized", "policy.committed"} => e[3] \in Updates
           /\ e[1] \in {"allocated", "abandoned", "retired"} => e[3] \in Numbers
  BY DEF Events

LEMMA RegisteredTyped ==
    /\ Registered \in Material
    /\ Registered.used = NoRows.used /\ Registered.operations = NoRows.operations
    /\ Registered.epoch = 0 /\ Registered.revoked = NoTombstone
    /\ Registered.tombstones = NoRows.tombstones
    /\ Registered.revocations = NoRows.revocations
    /\ Registered.version = 1 /\ Registered.policy = InitialPolicy
    /\ Registered.generation = 0
    /\ Registered.accounts = NoRows.accounts
  BY NoRowsTyped DEF Registered, NoRows, Material

\* An event a wallet's rows may meet leaves typed rows, with tombstones and
\* answers that agree, which are no earlier than the rows it met.
LEMMA EffectTyped ==
    ASSUME NEW r \in Material, RevInv(r), NEW e \in Events, LegalOf(r, e)
    PROVE  /\ EffectOf(r, e) \in Material
           /\ RevInv(EffectOf(r, e))
           /\ Precedes(r, EffectOf(r, e))
  <1> DEFINE s == EffectOf(r, e)
  <1> SUFFICES s \in Material /\ RevInv(s) /\ Precedes(r, s)
    OBVIOUS
  <1> HIDE DEF s
  <1> USE BackupAssumption
  <1>0. /\ e[1] \in {"activated", "revoked", "reconciled"} => e[3] \in Approvals
        /\ e[1] \in {"revoked", "reconciled"} => e[4] \in Revocations
        /\ e[1] = "revoke_all" => e[3] \in Revocations
        /\ e[1] \in {"reserved", "committed", "released"} => e[3] \in Operations
        /\ e[1] \in {"policy.authorized", "policy.committed"} => e[3] \in Updates
        /\ e[1] \in {"allocated", "abandoned", "retired"} => e[3] \in Numbers
    BY EventShape
  <1>1. CASE e[1] = "registered"
    <2>1. r = NoRows /\ s = Registered
      BY <1>1 DEF s, LegalOf, EffectOf
    <2>2. RevInv(s)
      BY <2>1, RegisteredTyped DEF RevInv, NoRows, NoResult, NoTombstone
    <2>3. Precedes(r, s)
      BY <2>1, RegisteredTyped
      DEF Precedes, KeepsAuthority, KeepsRetirements, NoRows
    <2> QED
      BY <2>1, <2>2, <2>3, RegisteredTyped
  <1>2. CASE e[1] = "activated"
    <2>1. s = [r EXCEPT !.approvals[e[3]] = "active"] /\ r.approvals[e[3]] = "absent"
      BY <1>2 DEF s, LegalOf, EffectOf
    <2>2. s \in Material
      BY <1>0, <1>2, <2>1 DEF Material
    <2>3. RevInv(s)
      BY <1>0, <1>2, <2>1 DEF RevInv, Material
    <2>4. Precedes(r, s)
      BY <1>0, <1>2, <2>1 DEF Material, Precedes, KeepsAuthority, KeepsRetirements
    <2> QED
      BY <2>2, <2>3, <2>4
  <1>3. CASE e[1] = "revoked"
    <2> DEFINE t == [by |-> e[4], epoch |-> r.epoch]
               q == [of |-> e[3], tombstone |-> t]
    <2>1. /\ s = [r EXCEPT !.approvals[e[3]] = "inactive", !.tombstones[e[3]] = t,
                           !.revocations[e[4]] = q]
          /\ r.tombstones[e[3]] = NoTombstone /\ r.revocations[e[4]] = NoResult
      BY <1>3 DEF s, LegalOf, EffectOf
    <2>2. t \in Tombstones /\ q \in Results /\ t # NoTombstone
          /\ q.of = e[3] /\ q.tombstone = t
      BY <1>0, <1>3 DEF Tombstones, Results, NoTombstone, Material
    <2> HIDE DEF t, q
    <2>3. s \in Material
      BY <1>0, <1>3, <2>1, <2>2 DEF Material
    <2>4. RevInv(s)
      BY <1>0, <1>3, <2>1, <2>2 DEF RevInv, Material
    <2>5. Precedes(r, s)
      BY <1>0, <1>3, <2>1 DEF Material, Precedes, KeepsAuthority, KeepsRetirements
    <2> QED
      BY <2>3, <2>4, <2>5
  <1>4. CASE e[1] = "reconciled"
    <2> DEFINE q == [of |-> e[3], tombstone |-> r.tombstones[e[3]]]
    <2>1. /\ s = [r EXCEPT !.revocations[e[4]] = q]
          /\ r.tombstones[e[3]] # NoTombstone /\ r.revocations[e[4]] = NoResult
      BY <1>4 DEF s, LegalOf, EffectOf
    <2>2. q \in Results /\ q.of = e[3] /\ q.tombstone = r.tombstones[e[3]]
      BY <1>0, <1>4 DEF Results, Material
    <2> HIDE DEF q
    <2>3. s \in Material
      BY <1>0, <1>4, <2>1, <2>2 DEF Material
    <2>4. RevInv(s)
      BY <1>0, <1>4, <2>1, <2>2 DEF RevInv, Material
    <2>5. Precedes(r, s)
      BY <1>0, <1>4, <2>1 DEF Material, Precedes, KeepsAuthority, KeepsRetirements
    <2> QED
      BY <2>3, <2>4, <2>5
  <1>5. CASE e[1] = "revoke_all"
    <2> DEFINE t == [by |-> e[3], epoch |-> r.epoch + 1]
               q == [of |-> "wallet", tombstone |-> t]
               A == [a \in Approvals |->
                       IF r.approvals[a] = "absent" THEN "absent" ELSE "inactive"]
    <2>1. /\ s = [r EXCEPT !.epoch = r.epoch + 1, !.revoked = t, !.approvals = A,
                           !.revocations[e[3]] = q]
          /\ r.revocations[e[3]] = NoResult
      BY <1>5 DEF s, LegalOf, EffectOf, Material
    <2>2. /\ r.epoch \in Nat /\ r.epoch + 1 \in Nat
          /\ t \in Tombstones /\ q \in Results
          /\ t.epoch = r.epoch + 1 /\ t # NoTombstone
          /\ q.of = "wallet" /\ q.tombstone = t
      BY <1>0, <1>5 DEF Tombstones, Results, NoTombstone, Material
    <2>3. /\ A \in [Approvals -> {"absent", "active", "inactive"}]
          /\ \A a \in Approvals : /\ A[a] = "absent" <=> r.approvals[a] = "absent"
                                  /\ r.approvals[a] = "inactive" => A[a] = "inactive"
      BY DEF Material
    <2> HIDE DEF t, q, A
    <2>4. s \in Material
      BY <1>0, <1>5, <2>1, <2>2, <2>3 DEF Material
    <2>5. /\ s.epoch = r.epoch + 1 /\ s.revoked = t /\ s.approvals = A
          /\ s.revocations = [r.revocations EXCEPT ![e[3]] = q]
          /\ s.tombstones = r.tombstones
      BY <2>1 DEF Material
    <2>6. RevInv(s)
      <3>1. ASSUME NEW p \in Revocations, s.revocations[p].of = "wallet"
            PROVE  /\ s.revocations[p].tombstone.epoch > 0
                   /\ \/ s.revocations[p].tombstone.epoch < s.epoch
                      \/ s.revocations[p].tombstone = s.revoked
        <4>1. CASE p = e[3]
          BY <1>0, <1>5, <2>2, <2>5, <4>1 DEF Material
        <4>2. CASE p # e[3]
          <5>1. /\ s.revocations[p] = r.revocations[p]
                /\ r.revocations[p].tombstone.epoch \in Nat
            BY <2>5, <4>2 DEF Material, Results, Tombstones
          <5>2. r.revocations[p].tombstone.epoch <= r.epoch
            BY <2>2, <3>1, <5>1 DEF RevInv
          <5> QED
            BY <2>2, <2>5, <3>1, <5>1, <5>2 DEF RevInv
        <4> QED
          BY <4>1, <4>2
      <3>2. ASSUME NEW p \in Revocations, s.revocations[p].of \in Approvals
            PROVE  /\ s.revocations[p].tombstone # NoTombstone
                   /\ s.tombstones[s.revocations[p].of] = s.revocations[p].tombstone
        BY <1>0, <1>5, <2>2, <2>5, <3>2 DEF RevInv, Material
      <3>3. \A a \in Approvals : s.tombstones[a] # NoTombstone => s.approvals[a] = "inactive"
        BY <2>3, <2>5 DEF RevInv
      <3> QED
        BY <2>2, <2>5, <3>1, <3>2, <3>3 DEF RevInv
    <2>7. Precedes(r, s)
      BY <1>0, <1>5, <2>1, <2>2, <2>3 DEF Material, Precedes, KeepsAuthority, KeepsRetirements
    <2> QED
      BY <2>4, <2>6, <2>7
  <1>6. CASE e[1] = "recovery"
    <2>1. s = [r EXCEPT !.generation = @ + 1] /\ r.generation + 1 \in Nat
      BY <1>6 DEF s, EffectOf, Material
    <2>2. s \in Material
      BY <2>1 DEF Material
    <2>3. RevInv(s)
      BY <2>1 DEF RevInv, Material
    <2>4. Precedes(r, s)
      BY <2>1 DEF Material, Precedes, KeepsAuthority, KeepsRetirements
    <2> QED
      BY <2>2, <2>3, <2>4
  <1>7. CASE e[1] = "reserved"
    <2>1. /\ s = [r EXCEPT !.operations[e[3]] = "reserved", !.used[ApprovalOf[e[3]]] = @ + 1]
          /\ r.operations[e[3]] = "absent"
      BY <1>7 DEF s, LegalOf, EffectOf
    <2>2. s \in Material
      <3>1. ApprovalOf[e[3]] \in Approvals
        BY <1>0, <1>7
      <3>2. r.used[ApprovalOf[e[3]]] + 1 \in Nat
        BY <3>1 DEF Material
      <3> QED
        BY <1>0, <1>7, <2>1, <3>2 DEF Material
    <2>3. RevInv(s)
      BY <2>1 DEF RevInv, Material
    <2>4. Precedes(r, s)
      BY <1>0, <1>7, <2>1 DEF Material, Precedes, KeepsAuthority, KeepsRetirements
    <2> QED
      BY <2>2, <2>3, <2>4
  <1>8. CASE e[1] = "committed"
    <2>1. s = [r EXCEPT !.operations[e[3]] = "committed"] /\ r.operations[e[3]] = "reserved"
      BY <1>8 DEF s, LegalOf, EffectOf
    <2>2. s \in Material
      BY <1>0, <1>8, <2>1 DEF Material
    <2>3. RevInv(s)
      BY <2>1 DEF RevInv, Material
    <2>4. Precedes(r, s)
      BY <1>0, <1>8, <2>1 DEF Material, Precedes, KeepsAuthority, KeepsRetirements
    <2> QED
      BY <2>2, <2>3, <2>4
  <1>9. CASE e[1] = "released"
    <2>1. /\ s = [r EXCEPT !.operations[e[3]] = "released", !.used[ApprovalOf[e[3]]] = @ - 1]
          /\ r.operations[e[3]] = "reserved" /\ r.used[ApprovalOf[e[3]]] > 0
      BY <1>9 DEF s, LegalOf, EffectOf
    <2>2. s \in Material
      <3>1. ApprovalOf[e[3]] \in Approvals
        BY <1>0, <1>9
      <3>2. r.used[ApprovalOf[e[3]]] - 1 \in Nat
        BY <2>1, <3>1 DEF Material
      <3> QED
        BY <1>0, <1>9, <2>1, <3>2 DEF Material
    <2>3. RevInv(s)
      BY <2>1 DEF RevInv, Material
    <2>4. Precedes(r, s)
      BY <1>0, <1>9, <2>1 DEF Material, Precedes, KeepsAuthority, KeepsRetirements
    <2> QED
      BY <2>2, <2>3, <2>4
  <1>10. CASE e[1] = "policy.committed"
    <2>1. s = [r EXCEPT !.version = @ + 1, !.policy = e[3]] /\ r.version + 1 \in Nat
      BY <1>10 DEF s, EffectOf, Material
    <2>2. s \in Material
      BY <1>0, <1>10, <2>1 DEF Material
    <2>3. RevInv(s)
      BY <2>1 DEF RevInv, Material
    <2>4. Precedes(r, s)
      BY <2>1 DEF Material, Precedes, KeepsAuthority, KeepsRetirements
    <2> QED
      BY <2>2, <2>3, <2>4
  <1>11. CASE e[1] = "allocated"
    <2>1. s = [r EXCEPT !.accounts[e[3]] = "active"] /\ r.accounts[e[3]] = "free"
      BY <1>11 DEF s, EffectOf, LegalOf
    <2>2. s \in Material
      BY <1>0, <1>11, <2>1 DEF Material
    <2>3. RevInv(s)
      BY <2>1 DEF RevInv, Material
    <2>4. Precedes(r, s)
      BY <1>0, <1>11, <2>1 DEF Material, Precedes, KeepsAuthority, KeepsRetirements
    <2> QED
      BY <2>2, <2>3, <2>4
  <1>12. CASE e[1] = "retired"
    <2>1. s = [r EXCEPT !.accounts[e[3]] = "retired"] /\ r.accounts[e[3]] = "active"
      BY <1>12 DEF s, EffectOf, LegalOf
    <2>2. s \in Material
      BY <1>0, <1>12, <2>1 DEF Material
    <2>3. RevInv(s)
      BY <2>1 DEF RevInv, Material
    <2>4. Precedes(r, s)
      BY <1>0, <1>12, <2>1 DEF Material, Precedes, KeepsAuthority, KeepsRetirements
    <2> QED
      BY <2>2, <2>3, <2>4
  <1>13. CASE e[1] \in {"custody.export", "custody.import", "policy.authorized", "abandoned"}
    <2>1. s = r
      BY <1>13 DEF s, EffectOf
    <2> QED
      BY <2>1, PrecedesReflexive
  <1> QED
    BY <1>1, <1>2, <1>3, <1>4, <1>5, <1>6, <1>7, <1>8, <1>9, <1>10, <1>11, <1>12, <1>13,
       EventShape DEF s

\* The counter moves with the operation it counts.
LEMMA ReserveCounts ==
    ASSUME NEW r \in Material, RowInv(r), NEW o \in Operations,
           r.operations[o] = "absent", r.approvals[ApprovalOf[o]] = "active",
           NEW s, RevInv(s),
           s = [r EXCEPT !.operations[o] = "reserved", !.used[ApprovalOf[o]] = @ + 1]
    PROVE  RowInv(s)
  <1> USE BackupAssumption
  <1>1. /\ s.approvals = r.approvals
        /\ s.operations = [r.operations EXCEPT ![o] = "reserved"]
        /\ s.used = [r.used EXCEPT ![ApprovalOf[o]] = @ + 1]
        /\ s.version = r.version /\ s.policy = r.policy /\ s.generation = r.generation
    BY DEF Material
  <1>2. \A b \in Approvals : b # ApprovalOf[o] =>
            Counted(s, b) = Counted(r, b) /\ s.used[b] = r.used[b]
    BY <1>1 DEF Counted, Material
  <1>3. /\ Counted(s, ApprovalOf[o]) = Counted(r, ApprovalOf[o]) \union {o}
        /\ o \notin Counted(r, ApprovalOf[o])
    BY <1>1 DEF Counted, Material
  <1>4. s.used[ApprovalOf[o]] = r.used[ApprovalOf[o]] + 1
    BY <1>1 DEF Material
  <1>5. /\ IsFiniteSet(Counted(s, ApprovalOf[o]))
        /\ Cardinality(Counted(s, ApprovalOf[o])) = Cardinality(Counted(r, ApprovalOf[o])) + 1
    BY <1>3, FS_AddElement DEF RowInv
  <1>6. \A b \in Approvals : /\ IsFiniteSet(Counted(s, b))
                             /\ s.used[b] = Cardinality(Counted(s, b))
    BY <1>2, <1>4, <1>5 DEF RowInv
  <1>7. \A q \in Operations : s.operations[q] # "absent"
                                => s.approvals[ApprovalOf[q]] # "absent"
    BY <1>1 DEF RowInv, Material
  <1> QED
    BY <1>1, <1>6, <1>7 DEF RowInv

LEMMA ReleaseCounts ==
    ASSUME NEW r \in Material, RowInv(r), NEW o \in Operations,
           r.operations[o] = "reserved",
           NEW s, RevInv(s),
           s = [r EXCEPT !.operations[o] = "released", !.used[ApprovalOf[o]] = @ - 1]
    PROVE  RowInv(s)
  <1> USE BackupAssumption
  <1>1. /\ s.approvals = r.approvals
        /\ s.operations = [r.operations EXCEPT ![o] = "released"]
        /\ s.used = [r.used EXCEPT ![ApprovalOf[o]] = @ - 1]
        /\ s.version = r.version /\ s.policy = r.policy /\ s.generation = r.generation
    BY DEF Material
  <1>2. \A b \in Approvals : b # ApprovalOf[o] =>
            Counted(s, b) = Counted(r, b) /\ s.used[b] = r.used[b]
    BY <1>1 DEF Counted, Material
  <1>3. /\ Counted(s, ApprovalOf[o]) = Counted(r, ApprovalOf[o]) \ {o}
        /\ o \in Counted(r, ApprovalOf[o])
    BY <1>1 DEF Counted, Material
  <1>4. s.used[ApprovalOf[o]] = r.used[ApprovalOf[o]] - 1
    BY <1>1 DEF Material
  <1>5. /\ IsFiniteSet(Counted(s, ApprovalOf[o]))
        /\ Cardinality(Counted(s, ApprovalOf[o])) = Cardinality(Counted(r, ApprovalOf[o])) - 1
    BY <1>3, FS_RemoveElement DEF RowInv
  <1>6. \A b \in Approvals : /\ IsFiniteSet(Counted(s, b))
                             /\ s.used[b] = Cardinality(Counted(s, b))
    BY <1>2, <1>4, <1>5 DEF RowInv
  <1>7. \A q \in Operations : s.operations[q] # "absent"
                                => s.approvals[ApprovalOf[q]] # "absent"
    BY <1>1 DEF RowInv, Material
  <1> QED
    BY <1>1, <1>6, <1>7 DEF RowInv

\* Rows that differ in neither counters nor operations.
LEMMA OtherCounts ==
    ASSUME NEW r \in Material, RowInv(r), NEW s \in Material, RevInv(s), s.used = r.used,
           \A o \in Operations :
              s.operations[o] \in {"reserved", "committed"}
                <=> r.operations[o] \in {"reserved", "committed"},
           \A o \in Operations : s.operations[o] = "absent" <=> r.operations[o] = "absent",
           \A a \in Approvals : r.approvals[a] # "absent" => s.approvals[a] # "absent",
           s.version = 0 =>
              r.version = 0 /\ s.policy = r.policy /\ s.generation = r.generation
    PROVE  RowInv(s)
  <1>1. \A a \in Approvals : Counted(s, a) = Counted(r, a)
    BY DEF Counted
  <1> QED
    BY <1>1, BackupAssumption DEF RowInv, Material

\* An event that a replay may meet keeps what a replay has.
LEMMA EffectOfSound ==
    ASSUME NEW r \in Material, RowInv(r), NEW e \in Events, LegalOf(r, e)
    PROVE  /\ EffectOf(r, e) \in Material
           /\ RowInv(EffectOf(r, e))
           /\ Precedes(r, EffectOf(r, e))
  <1> DEFINE s == EffectOf(r, e)
  <1>0. s \in Material /\ RevInv(s) /\ Precedes(r, s)
    BY EffectTyped DEF RowInv
  <1> SUFFICES RowInv(s)
    BY <1>0
  <1> HIDE DEF s
  <1> USE BackupAssumption
  <1>1. \A a \in Approvals : r.approvals[a] # "absent" => s.approvals[a] # "absent"
    BY <1>0 DEF Precedes
  <1>2. /\ e[1] \in {"activated", "revoked", "reconciled"} => e[3] \in Approvals
        /\ e[1] \in {"reserved", "committed", "released"} => e[3] \in Operations
    BY EventShape
  <1>3. CASE e[1] = "reserved"
    BY <1>0, <1>2, <1>3, ReserveCounts DEF s, EffectOf, LegalOf
  <1>4. CASE e[1] = "released"
    BY <1>0, <1>2, <1>4, ReleaseCounts DEF s, EffectOf, LegalOf
  <1>5. CASE e[1] = "committed"
    <2>1. s = [r EXCEPT !.operations[e[3]] = "committed"] /\ r.operations[e[3]] = "reserved"
      BY <1>5 DEF s, LegalOf, EffectOf
    <2>2. /\ s.used = r.used
          /\ s.operations = [r.operations EXCEPT ![e[3]] = "committed"]
          /\ s.version = r.version /\ s.policy = r.policy /\ s.generation = r.generation
      BY <1>2, <1>5, <2>1 DEF Material
    <2>3. \A o \in Operations :
              /\ s.operations[o] \in {"reserved", "committed"}
                   <=> r.operations[o] \in {"reserved", "committed"}
              /\ s.operations[o] = "absent" <=> r.operations[o] = "absent"
      BY <1>2, <1>5, <2>1, <2>2 DEF Material
    <2> QED
      BY <1>0, <1>1, <2>2, <2>3, OtherCounts
  <1>6. CASE e[1] = "registered"
    <2>1. r = NoRows /\ s = Registered
      BY <1>6 DEF s, LegalOf, EffectOf
    <2> QED
      BY <1>0, <1>1, <2>1, RegisteredTyped, OtherCounts
  <1>7. CASE e[1] \in {"recovery", "policy.committed"}
    <2>1. \/ s = [r EXCEPT !.generation = @ + 1] /\ r.version > 0
          \/ s = [r EXCEPT !.version = @ + 1, !.policy = e[3]]
      BY <1>7 DEF s, LegalOf, EffectOf
    <2>2. s.used = r.used /\ s.operations = r.operations
      BY <2>1, ZenonT(30) DEF Material
    <2>3. s.version > 0
      <3>1. r.version \in Nat
        BY DEF Material
      <3>2. (s.version = r.version /\ r.version > 0) \/ s.version = r.version + 1
        BY <2>1 DEF Material
      <3> QED
        BY <3>1, <3>2
    <2> QED
      BY <1>0, <1>1, <2>2, <2>3, OtherCounts
  <1>8. CASE e[1] \notin {"reserved", "released", "committed", "registered", "recovery",
                          "policy.committed"}
    <2>1. /\ s.used = r.used /\ s.operations = r.operations
          /\ s.version = r.version /\ s.policy = r.policy /\ s.generation = r.generation
      BY <1>8, EventShape DEF s, EffectOf, Material
    <2> QED
      BY <1>0, <1>1, <2>1, OtherCounts
  <1> QED
    BY <1>3, <1>4, <1>5, <1>6, <1>7, <1>8

LEMMA EffectSound ==
    ASSUME NEW w, NEW r \in Material, RowInv(r), NEW e \in Events, Legal(w, r, e)
    PROVE  /\ Effect(w, r, e) \in Material
           /\ RowInv(Effect(w, r, e))
           /\ Precedes(r, Effect(w, r, e))
  BY EffectOfSound, PrecedesReflexive DEF Effect, Legal

LEMMA EmptyReplay ==
    ASSUME NEW w
    PROVE  ReplaysTo(w, <<>>, NoRows)
  <1> DEFINE T == [i \in 0 .. 0 |-> NoRows]
  <1>1. IsReplay(w, T, <<>>, NoRows)
    BY NoRowsTyped DEF IsReplay
  <1> QED
    BY <1>1 DEF ReplaysTo

\* The rows a journal replays to are typed, with exact counters.
LEMMA ReplayTyped ==
    ASSUME NEW w, NEW j \in Seq(Events), NEW r, ReplaysTo(w, j, r)
    PROVE  r \in Material /\ RowInv(r)
  <1>1. PICK T : IsReplay(w, T, j, r)
    BY DEF ReplaysTo
  <1>2. Len(j) \in 0 .. Len(j)
    OBVIOUS
  <1> QED
    BY <1>1, <1>2 DEF IsReplay

\* One more entry extends a replay by one more step.
LEMMA ReplayAppend ==
    ASSUME NEW w, NEW j \in Seq(Events), NEW r, ReplaysTo(w, j, r),
           NEW e \in Events, Legal(w, r, e)
    PROVE  ReplaysTo(w, Append(j, e), Effect(w, r, e))
  <1>1. PICK T : IsReplay(w, T, j, r)
    BY DEF ReplaysTo
  <1> DEFINE k == Append(j, e)
  <1>2. /\ Len(k) = Len(j) + 1 /\ Len(j) \in Nat
        /\ \A i \in 1 .. Len(j) : k[i] = j[i]
        /\ k[Len(j) + 1] = e
    OBVIOUS
  <1>3. Effect(w, r, e) \in Material /\ RowInv(Effect(w, r, e))
    BY ReplayTyped, EffectSound
  <1> DEFINE U == [i \in 0 .. Len(k) |-> IF i = Len(k) THEN Effect(w, r, e) ELSE T[i]]
  <1> HIDE DEF k
  <1>4. \A i \in 0 .. Len(j) : U[i] = T[i]
    BY <1>2
  <1>5. U[Len(k)] = Effect(w, r, e)
    BY <1>2
  <1>6. U \in [0 .. Len(k) -> Material]
    BY <1>1, <1>2, <1>3 DEF IsReplay
  <1> HIDE DEF U
  <1>7. U[0] = NoRows
    BY <1>1, <1>2, <1>4 DEF IsReplay
  <1>8. ASSUME NEW i \in 1 .. Len(k)
        PROVE  Legal(w, U[i - 1], k[i]) /\ U[i] = Effect(w, U[i - 1], k[i])
    <2>1. CASE i = Len(k)
      <3>1. i - 1 = Len(j) /\ Len(j) \in 0 .. Len(j) /\ k[i] = e
        BY <1>2, <2>1
      <3>2. U[i - 1] = r
        BY <1>1, <1>4, <3>1 DEF IsReplay
      <3> QED
        BY <1>5, <2>1, <3>1, <3>2
    <2>2. CASE i # Len(k)
      <3>1. i \in 1 .. Len(j) /\ i \in 0 .. Len(j) /\ i - 1 \in 0 .. Len(j)
        BY <1>2, <2>2
      <3>2. U[i - 1] = T[i - 1] /\ U[i] = T[i] /\ k[i] = j[i]
        BY <1>2, <1>4, <3>1
      <3> QED
        BY <1>1, <3>1, <3>2 DEF IsReplay
    <2> QED
      BY <2>1, <2>2
  <1>9. ASSUME NEW i \in 0 .. Len(k)
        PROVE  RowInv(U[i])
    <2>1. CASE i = Len(k)
      BY <1>3, <1>5, <2>1
    <2>2. CASE i # Len(k)
      <3>1. i \in 0 .. Len(j)
        BY <1>2, <2>2
      <3> QED
        BY <1>1, <1>4, <3>1 DEF IsReplay
    <2> QED
      BY <2>1, <2>2
  <1>10. IsReplay(w, U, k, Effect(w, r, e))
    BY <1>5, <1>6, <1>7, <1>8, <1>9 DEF IsReplay
  <1> QED
    BY <1>10 DEF ReplaysTo, k

\* A journal has the entries of its prefixes.
LEMMA PrefixEntries ==
    ASSUME NEW j \in Seq(Events), NEW k \in Seq(Events), IsPrefix(j, k)
    PROVE  /\ Len(j) \in Nat /\ Len(k) \in Nat /\ Len(j) <= Len(k)
           /\ \A i \in 1 .. Len(j) : j[i] = k[i]
  <1>1. Len(j) \in Nat /\ Len(k) \in Nat /\ Len(j) <= Len(k)
    BY DEF IsPrefix
  <1>2. ASSUME NEW i \in 1 .. Len(j)
        PROVE  j[i] = k[i]
    <2>1. SubSeq(j, 1, Len(j))[i] = SubSeq(k, 1, Len(j))[i]
      BY DEF IsPrefix
    <2>2. SubSeq(j, 1, Len(j))[i] = j[i]
      BY <1>1
    <2>3. SubSeq(k, 1, Len(j))[i] = k[i]
      BY <1>1
    <2> QED
      BY <2>1, <2>2, <2>3
  <1> QED
    BY <1>1, <1>2

\* Entries of other wallets leave the rows a journal replays to.
LEMMA ReplayExtend ==
    ASSUME NEW w, NEW j \in Seq(Events), NEW k \in Seq(Events), IsPrefix(j, k),
           NEW r, ReplaysTo(w, j, r),
           \A i \in Len(j) + 1 .. Len(k) : ~Changes(w, k[i])
    PROVE  ReplaysTo(w, k, r)
  <1>1. PICK T : IsReplay(w, T, j, r)
    BY DEF ReplaysTo
  <1>2. /\ Len(j) \in Nat /\ Len(k) \in Nat /\ Len(j) <= Len(k)
        /\ \A i \in 1 .. Len(j) : j[i] = k[i]
    BY PrefixEntries
  <1>3. r \in Material /\ RowInv(r)
    BY ReplayTyped
  <1> DEFINE U == [i \in 0 .. Len(k) |-> IF i <= Len(j) THEN T[i] ELSE r]
  <1>4. U \in [0 .. Len(k) -> Material]
    BY <1>1, <1>2, <1>3 DEF IsReplay
  <1>5. /\ \A i \in 0 .. Len(j) : U[i] = T[i]
        /\ \A i \in Len(j) .. Len(k) : U[i] = r
    BY <1>1, <1>2 DEF IsReplay
  <1> HIDE DEF U
  <1>6. U[0] = NoRows /\ U[Len(k)] = r
    BY <1>1, <1>2, <1>5 DEF IsReplay
  <1>7. ASSUME NEW i \in 1 .. Len(k)
        PROVE  Legal(w, U[i - 1], k[i]) /\ U[i] = Effect(w, U[i - 1], k[i])
    <2>1. CASE i <= Len(j)
      <3>1. i \in 1 .. Len(j) /\ i \in 0 .. Len(j) /\ i - 1 \in 0 .. Len(j)
        BY <1>2, <2>1
      <3> QED
        BY <1>1, <1>2, <1>5, <3>1 DEF IsReplay
    <2>2. CASE ~(i <= Len(j))
      <3>1. /\ i \in Len(j) + 1 .. Len(k)
            /\ i \in Len(j) .. Len(k) /\ i - 1 \in Len(j) .. Len(k)
        BY <1>2, <2>2
      <3>2. ~Changes(w, k[i]) /\ U[i] = r /\ U[i - 1] = r
        BY <1>5, <3>1
      <3> QED
        BY <3>2 DEF Legal, Effect
    <2> QED
      BY <2>1, <2>2
  <1>8. ASSUME NEW i \in 0 .. Len(k)
        PROVE  RowInv(U[i])
    <2>1. CASE i <= Len(j)
      <3>1. i \in 0 .. Len(j)
        BY <1>2, <2>1
      <3> QED
        BY <1>1, <1>5, <3>1 DEF IsReplay
    <2>2. CASE ~(i <= Len(j))
      <3>1. i \in Len(j) .. Len(k)
        BY <1>2, <2>2
      <3> QED
        BY <1>3, <1>5, <3>1
    <2> QED
      BY <2>1, <2>2
  <1>9. IsReplay(w, U, k, r)
    BY <1>4, <1>6, <1>7, <1>8 DEF IsReplay
  <1> QED
    BY <1>9 DEF ReplaysTo

\* Along a replay nothing is lost.
LEMMA ReplayOrdered ==
    ASSUME NEW w, NEW j \in Seq(Events), NEW r, NEW T, IsReplay(w, T, j, r), NEW n \in 0 .. Len(j)
    PROVE  Precedes(T[n], r)
  <1> DEFINE Bad == {k \in Nat : k \in n .. Len(j) /\ ~Precedes(T[n], T[k])}
  <1>1. \A k \in 0 .. Len(j) : T[k] \in Material /\ RowInv(T[k])
    BY DEF IsReplay
  <1>2. Bad = {}
    <2> SUFFICES ASSUME Bad # {}
                 PROVE  FALSE
      OBVIOUS
    <2>1. PICK m \in Bad : \A y \in Bad : m <= y
      <3>1. Bad \in SUBSET Nat
        OBVIOUS
      <3> HIDE DEF Bad
      <3> QED
        BY <3>1, SmallestNumber
    <2>2. m \in Nat /\ m \in n .. Len(j) /\ ~Precedes(T[n], T[m])
      BY <2>1
    <2>3. m # n
      BY <1>1, <2>2, PrecedesReflexive
    <2>4. m - 1 \in Nat /\ m - 1 \in n .. Len(j) /\ m \in 1 .. Len(j) /\ m - 1 \in 0 .. Len(j)
      BY <2>2, <2>3
    <2>5. m - 1 \notin Bad
      BY <2>1, <2>2, <2>4
    <2>6. Precedes(T[n], T[m - 1])
      BY <2>4, <2>5
    <2> HIDE DEF Bad
    <2>7. Precedes(T[m - 1], T[m])
      <3>1. j[m] \in Events
        BY <2>4
      <3> QED
        BY <1>1, <2>4, <3>1, EffectSound DEF IsReplay
    <2>8. T[n] \in Material /\ T[m - 1] \in Material /\ T[m] \in Material
      BY <1>1, <2>2, <2>4
    <2> QED
      BY <2>2, <2>6, <2>7, <2>8, PrecedesTransitive
  <1>3. Len(j) \in Nat /\ Len(j) \in n .. Len(j) /\ T[Len(j)] = r
    BY DEF IsReplay
  <1> QED
    BY <1>2, <1>3

\* Two replays agree along a common prefix.
LEMMA ReplaysAgree ==
    ASSUME NEW w, NEW j \in Seq(Events), NEW k \in Seq(Events), IsPrefix(j, k),
           NEW r, NEW s, NEW T, NEW U, IsReplay(w, T, j, r), IsReplay(w, U, k, s)
    PROVE  U[Len(j)] = r
  <1> DEFINE Bad == {i \in Nat : i \in 0 .. Len(j) /\ T[i] # U[i]}
  <1>1. Len(j) \in Nat /\ Len(k) \in Nat /\ Len(j) <= Len(k)
    BY DEF IsPrefix
  <1>2. \A i \in 1 .. Len(j) : j[i] = k[i]
    BY PrefixEntries
  <1>3. Bad = {}
    <2> SUFFICES ASSUME Bad # {}
                 PROVE  FALSE
      OBVIOUS
    <2>1. PICK m \in Bad : \A y \in Bad : m <= y
      <3>1. Bad \in SUBSET Nat
        OBVIOUS
      <3> HIDE DEF Bad
      <3> QED
        BY <3>1, SmallestNumber
    <2>2. m \in Nat /\ m \in 0 .. Len(j) /\ T[m] # U[m]
      BY <2>1
    <2>3. m # 0
      BY <2>2 DEF IsReplay
    <2>4. /\ m - 1 \in Nat /\ m - 1 \in 0 .. Len(j)
          /\ m \in 1 .. Len(j) /\ m \in 1 .. Len(k)
      BY <1>1, <2>2, <2>3
    <2>5. m - 1 \notin Bad
      BY <2>1, <2>2, <2>4
    <2>6. T[m - 1] = U[m - 1]
      BY <2>4, <2>5
    <2> HIDE DEF Bad
    <2>7. T[m] = Effect(w, T[m - 1], j[m]) /\ U[m] = Effect(w, U[m - 1], k[m])
      BY <2>4 DEF IsReplay
    <2> QED
      BY <1>2, <2>2, <2>4, <2>6, <2>7
  <1>4. Len(j) \in 0 .. Len(j) /\ T[Len(j)] = r
    BY <1>1 DEF IsReplay
  <1> QED
    BY <1>1, <1>3, <1>4

\* The journal orders what it replays to.
LEMMA PrefixPrecedes ==
    ASSUME NEW w, NEW j \in Seq(Events), NEW k \in Seq(Events), IsPrefix(j, k),
           NEW r, NEW s, ReplaysTo(w, j, r), ReplaysTo(w, k, s)
    PROVE  Precedes(r, s)
  <1>1. PICK T : IsReplay(w, T, j, r)
    BY DEF ReplaysTo
  <1>2. PICK U : IsReplay(w, U, k, s)
    BY DEF ReplaysTo
  <1>3. U[Len(j)] = r
    BY <1>1, <1>2, ReplaysAgree
  <1>4. Len(j) \in 0 .. Len(k)
    BY DEF IsPrefix
  <1> QED
    BY <1>2, <1>3, <1>4, ReplayOrdered

-----------------------------------------------------------------------------
(* The inductive invariant *)

\* The committed updates of a database against its installed policy.
PolicyLinear(r, own) ==
    \A u \in Updates : own.committed[u] # 0 =>
        /\ own.committed[u] <= r.version
        /\ own.committed[u] = r.version => r.policy = u
        /\ \A v \in Updates \ {u} : own.committed[v] # own.committed[u]

\* The rows of a wallet that has followed the journal are what it replays to.
FollowsJournal ==
    /\ \A h \in Hosts : \A w \in db[h].whole :
          ReplaysTo(w, db[h].journal, db[h].rows[w])
    /\ \A b \in backups : b.whole => ReplaysTo(b.wallet, b.journal, b.rows)

\* What holds of all rows, though they have not followed the journal.
RowsAgree ==
    /\ \A h \in Hosts, w \in Wallets :
          RevInv(db[h].rows[w]) /\ PolicyLinear(db[h].rows[w], db[h].own[w])
    /\ \A b \in backups : RevInv(b.rows)

\* A database without a journal is new.
NewIsEmpty ==
    \A h \in Hosts : db[h].journal = <<>> => \A w \in Wallets : db[h].rows[w] = NoRows

Inv ==
    /\ db \in [Hosts -> Databases]
    /\ backups \subseteq Backups
    /\ mutations \in 0 .. MaxMutations
    /\ FollowsJournal
    /\ RowsAgree
    /\ NewIsEmpty
    /\ RestoreRoundTrips

\* What a step shows of the whole: Inv is kept, and no host's authority over a
\* wallet is taken back.
Sound ==
    /\ Inv'
    /\ \A h \in Hosts, w \in Wallets : KeepsAuthority(db[h].rows[w], db'[h].rows[w])

LEMMA HostTyped ==
    ASSUME Inv, NEW h \in Hosts
    PROVE  /\ db[h] \in Databases
           /\ db[h].journal \in Seq(Events) /\ db[h].whole \subseteq Wallets
           /\ db[h].rows \in [Wallets -> Material] /\ db[h].own \in [Wallets -> Local]
  BY DEF Inv, Databases

LEMMA WalletTyped ==
    ASSUME Inv, NEW h \in Hosts, NEW w \in Wallets
    PROVE  /\ db[h].rows[w] \in Material /\ db[h].own[w] \in Local
           /\ RevInv(db[h].rows[w])
           /\ PolicyLinear(db[h].rows[w], db[h].own[w])
  BY HostTyped DEF Inv, RowsAgree

LEMMA BackupTyped ==
    ASSUME Inv, NEW b \in backups
    PROVE  /\ b.wallet \in Wallets /\ b.whole \in BOOLEAN
           /\ b.rows \in Material /\ b.journal \in Seq(Events)
           /\ RevInv(b.rows)
           /\ b.whole => ReplaysTo(b.wallet, b.journal, b.rows)
  BY DEF Inv, Backups, FollowsJournal, RowsAgree

LEMMA InvInit ==
    ASSUME Init
    PROVE  Inv
  <1> USE BackupAssumption
  <1>1. NoLocal \in Local /\ RegisteredLocal \in Local
    BY DEF NoLocal, RegisteredLocal, Local
  <1>2. \A u \in Updates : NoLocal.committed[u] = 0 /\ RegisteredLocal.committed[u] = 0
    BY DEF NoLocal, RegisteredLocal
  <1>3. <<"registered">> \in Events /\ <<"registered">>[1] = "registered"
    BY DEF Events
  <1>4. ASSUME NEW w \in Wallets
        PROVE  ReplaysTo(w, Append(<<>>, <<"registered">>), Registered)
    <2> DEFINE r == NoRows
               e == <<"registered">>
               j == <<>>
    <2>1. Changes(w, e)
      BY <1>3 DEF Changes
    <2>2. Legal(w, r, e) /\ Effect(w, r, e) = Registered
      BY <1>3, <2>1 DEF Legal, LegalOf, Effect, EffectOf
    <2>3. j \in Seq(Events) /\ ReplaysTo(w, j, r) /\ e \in Events
      BY <1>3, EmptyReplay
    <2> HIDE DEF r, e, j
    <2>4. ReplaysTo(w, Append(j, e), Effect(w, r, e))
      BY <2>2, <2>3, ReplayAppend
    <2> QED
      BY <2>2, <2>4 DEF r, e, j
  <1>5. Append(<<>>, <<"registered">>) = <<<<"registered">>>>
    OBVIOUS
  <1>6. /\ Registered \in Material /\ NoRows \in Material
        /\ RevInv(Registered) /\ RevInv(NoRows)
    <2>1. RevInv(Registered)
      BY RegisteredTyped DEF RevInv, NoRows, NoResult, NoTombstone
    <2> QED
      BY <2>1, NoRowsTyped, RegisteredTyped DEF RowInv
  <1>7. <<<<"registered">>>> \in Seq(Events) /\ <<>> \in Seq(Events)
    BY <1>3
  <1>8. db \in [Hosts -> Databases]
    BY <1>1, <1>6, <1>7 DEF Init, Databases
  <1>9. backups = {} /\ mutations \in 0 .. MaxMutations
    BY DEF Init
  <1>10. ASSUME NEW h \in Hosts, NEW w \in Wallets
         PROVE  \/ /\ db[h].rows[w] = Registered
                   /\ db[h].own[w] = RegisteredLocal
                   /\ db[h].journal = <<<<"registered">>>>
                \/ /\ db[h].rows[w] = NoRows
                   /\ db[h].own[w] = NoLocal
                   /\ db[h].journal = <<>>
    BY DEF Init
  <1>11. FollowsJournal
    <2>1. \A h \in Hosts : db[h].whole = Wallets
      BY DEF Init
    <2> QED
      BY <1>4, <1>5, <1>9, <1>10, <2>1, EmptyReplay DEF FollowsJournal
  <1>12. RowsAgree
    BY <1>2, <1>6, <1>9, <1>10 DEF RowsAgree, PolicyLinear
  <1>13. NewIsEmpty
    BY <1>10 DEF NewIsEmpty
  <1>14. RestoreRoundTrips
    <2>1. ASSUME NEW h \in Hosts, db[h].journal # <<>>
          PROVE  Last(db[h].journal)[1] # "custody.import"
      <3>1. db[h].journal = <<<<"registered">>>>
        BY <2>1 DEF Init
      <3>2. Last(db[h].journal) = <<"registered">>
        BY <3>1 DEF Last
      <3> QED
        BY <3>2
    <2> QED
      BY <2>1 DEF RestoreRoundTrips
  <1> QED
    BY <1>8, <1>9, <1>11, <1>12, <1>13, <1>14 DEF Inv

\* A commit changes one host's record, and in it one wallet's rows and the journal.
LEMMA ChangedByCommit ==
    ASSUME NEW h \in Hosts, NEW w \in Wallets, NEW e \in Events, NEW r \in Material,
           NEW own \in Local, db \in [Hosts -> Databases], Commit(h, w, e, r, own)
    PROVE  /\ db' \in [Hosts -> Databases]
           /\ \A g \in Hosts : g # h => db'[g] = db[g]
           /\ db'[h].journal = Append(db[h].journal, e)
           /\ db'[h].whole = db[h].whole
           /\ \A v \in Wallets :
                 /\ db'[h].rows[v] = IF v = w THEN r ELSE db[h].rows[v]
                 /\ db'[h].own[v] = IF v = w THEN own ELSE db[h].own[v]
  <1> DEFINE j == Append(db[h].journal, e)
             d == [db[h] EXCEPT !.rows[w] = r, !.own[w] = own, !.journal = j]
  <1>1. db' = [db EXCEPT ![h] = d]
    BY Zenon DEF Commit
  <1>2. /\ db[h] \in Databases /\ db[h].journal \in Seq(Events)
        /\ db[h].rows \in [Wallets -> Material] /\ db[h].own \in [Wallets -> Local]
    BY DEF Databases
  <1>3. j \in Seq(Events)
    BY <1>2
  <1> HIDE DEF j
  <1>4. d \in Databases
    BY <1>2, <1>3 DEF Databases
  <1>5. /\ d.journal = j /\ d.whole = db[h].whole
        /\ \A v \in Wallets : /\ d.rows[v] = IF v = w THEN r ELSE db[h].rows[v]
                              /\ d.own[v] = IF v = w THEN own ELSE db[h].own[v]
    BY <1>2 DEF Databases
  <1> HIDE DEF d
  <1>6. /\ db' \in [Hosts -> Databases] /\ db'[h] = d
        /\ \A g \in Hosts : g # h => db'[g] = db[g]
    BY <1>1, <1>4
  <1> QED
    BY <1>5, <1>6 DEF j

\* A transaction whose rows are the effect of its entry.
LEMMA CommitKeeps ==
    ASSUME Inv, NEW h \in Hosts, NEW w \in Wallets, NEW e \in Events,
           e[1] \notin {"registered", "custody.export", "custody.import"}, e[2] = w,
           NEW own \in Local, NEW r, r = EffectOf(db[h].rows[w], e),
           LegalOf(db[h].rows[w], e),
           PolicyLinear(r, own),
           Commit(h, w, e, r, own)
    PROVE  Sound
  <1> USE BackupAssumption
  <1>0. /\ db[h].journal \in Seq(Events) /\ db[h].whole \subseteq Wallets
        /\ db[h].rows \in [Wallets -> Material] /\ db[h].own \in [Wallets -> Local]
        /\ db[h] \in Databases
    BY HostTyped
  <1>1. r \in Material /\ RevInv(r) /\ KeepsAuthority(db[h].rows[w], r)
    BY WalletTyped, EffectTyped DEF Precedes
  <1> DEFINE j == Append(db[h].journal, e)
  <1>2. j \in Seq(Events) /\ j # <<>> /\ Last(j) = e
    BY <1>0 DEF Last
  <1>3. UNCHANGED backups /\ mutations' \in 0 .. MaxMutations
    BY DEF Commit, Inv
  <1>4. ASSUME NEW v \in db[h].whole
        PROVE  ReplaysTo(v, j, IF v = w THEN r ELSE db[h].rows[v])
    <2>1. ReplaysTo(v, db[h].journal, db[h].rows[v])
      BY DEF Inv, FollowsJournal
    <2>2. Changes(v, e) <=> v = w
      BY DEF Changes
    <2>3. /\ Legal(v, db[h].rows[v], e)
          /\ Effect(v, db[h].rows[v], e) = IF v = w THEN r ELSE db[h].rows[v]
      BY <2>2 DEF Legal, Effect
    <2> QED
      BY <1>0, <2>1, <2>3, ReplayAppend
  <1> HIDE DEF j
  <1>7. /\ db' \in [Hosts -> Databases]
        /\ \A g \in Hosts : g # h => db'[g] = db[g]
        /\ db'[h].journal = j /\ db'[h].whole = db[h].whole
        /\ \A v \in Wallets : /\ db'[h].rows[v] = IF v = w THEN r ELSE db[h].rows[v]
                              /\ db'[h].own[v] = IF v = w THEN own ELSE db[h].own[v]
    BY <1>1, ChangedByCommit DEF Inv, j
  <1>8. FollowsJournal'
    <2>1. ASSUME NEW g \in Hosts, NEW v \in db'[g].whole
          PROVE  ReplaysTo(v, db'[g].journal, db'[g].rows[v])
      <3>1. CASE g = h
        BY <1>0, <1>4, <1>7, <3>1
      <3>2. CASE g # h
        BY <1>7, <3>2 DEF Inv, FollowsJournal
      <3> QED
        BY <3>1, <3>2
    <2> QED
      BY <1>3, <2>1 DEF Inv, FollowsJournal
  <1>9. ASSUME NEW g \in Hosts, NEW v \in Wallets
        PROVE  /\ RevInv(db'[g].rows[v])
               /\ PolicyLinear(db'[g].rows[v], db'[g].own[v])
               /\ KeepsAuthority(db[g].rows[v], db'[g].rows[v])
    <2>1. CASE g = h /\ v = w
      BY <1>1, <1>7, <2>1
    <2>2. CASE ~(g = h /\ v = w)
      <3>1. db'[g].rows[v] = db[g].rows[v] /\ db'[g].own[v] = db[g].own[v]
        BY <1>7, <2>2
      <3> QED
        BY <3>1, WalletTyped, PrecedesReflexive
    <2> QED
      BY <2>1, <2>2
  <1>10. RowsAgree'
    BY <1>3, <1>9 DEF Inv, RowsAgree
  <1>11. NewIsEmpty'
    <2>1. ASSUME NEW g \in Hosts, db'[g].journal = <<>>, NEW v \in Wallets
          PROVE  db'[g].rows[v] = NoRows
      <3>1. g # h
        BY <1>2, <1>7, <2>1
      <3> QED
        BY <1>7, <2>1, <3>1 DEF Inv, NewIsEmpty
    <2> QED
      BY <2>1 DEF NewIsEmpty
  <1>12. RestoreRoundTrips'
    BY <1>2, <1>7 DEF RestoreRoundTrips, Inv
  <1>13. Inv'
    BY <1>3, <1>8, <1>10, <1>11, <1>12, <1>7 DEF Inv
  <1> QED
    BY <1>9, <1>13 DEF Sound

\* A set of numbers below a bound has a greatest element, which Max names.
LEMMA BoundedHasMax ==
    ASSUME NEW N \in Nat, NEW S \in SUBSET (-1 .. N), S # {}
    PROVE  Max(S) \in S /\ \A y \in S : y <= Max(S)
  <1> DEFINE T == {n \in Nat : \E x \in S : n = N - x}
  <1> DEFINE R == OpToRel(<, Nat)
  <1>1. PICK a \in S : TRUE
    OBVIOUS
  <1>2. N - a \in Nat
    BY <1>1
  <1>3. T \subseteq Nat /\ T # {}
    BY <1>1, <1>2
  <1>4. IsWellFoundedOn(R, Nat)
    BY NatLessThanWellFounded
  <1> HIDE DEF R, T
  <1>5. PICK t \in T : \A y \in T : ~ (<<y, t>> \in R)
    BY <1>3, <1>4, WFMin
  <1>6. ASSUME NEW y \in S
        PROVE  ~ (N - y < t)
    <2>1. N - y \in Nat
      OBVIOUS
    <2>2. N - y \in T
      BY <2>1 DEF T
    <2>3. t \in Nat
      BY <1>5 DEF T
    <2> QED
      BY <2>1, <2>2, <2>3, <1>5 DEF OpToRel, R
  <1>7. PICK m \in S : t = N - m
    BY <1>5 DEF T
  <1>8. \A y \in S : m >= y
    <2> TAKE y \in S
    <2>1. y \in Int /\ m \in Int /\ N \in Int
      OBVIOUS
    <2> QED
      BY <1>6, <1>7, <2>1
  <1> QED
    <2>1. S \subseteq Int
      OBVIOUS
    <2>2. PICK x \in S : x = Max(S) /\ \A y \in S : x >= y
      BY <1>8 DEF Max
    <2> QED
      BY <2>1, <2>2

\* next_account_number yields a number.
LEMMA NextNumberTyped ==
    ASSUME NEW own \in Local
    PROVE  NextNumber(own) \in Nat
  <1> USE BackupAssumption
  <1> DEFINE A == {-1} \union own.abandoned
  <1>1. own.next \in 0 .. MaxNumber + 1 /\ own.abandoned \subseteq 0 .. MaxNumber
    BY DEF Local, Numbers
  <1>2. A \in SUBSET (-1 .. MaxNumber) /\ A # {}
    BY <1>1
  <1>3. Max(A) \in A
    BY <1>2, BoundedHasMax
  <1>4. Highest(own.abandoned) + 1 \in -1 .. MaxNumber + 1
    BY <1>2, <1>3 DEF Highest
  <1> DEFINE B == {own.next, Highest(own.abandoned) + 1}
  <1>5. B \in SUBSET (-1 .. MaxNumber + 1) /\ B # {} /\ MaxNumber + 1 \in Nat
    BY <1>1, <1>4
  <1>6. Max(B) \in B /\ \A y \in B : y <= Max(B)
    <2> HIDE DEF B
    <2> QED
      BY <1>5, BoundedHasMax
  <1>7. NextNumber(own) \in -1 .. MaxNumber + 1 /\ own.next <= NextNumber(own)
    <2> DEFINE m == Max(B)
    <2>1. m \in -1 .. MaxNumber + 1 /\ own.next <= m
      BY <1>5, <1>6
    <2>2. NextNumber(own) = m
      BY DEF NextNumber
    <2> HIDE DEF m, B
    <2> QED
      BY <2>1, <2>2
  <1> QED
    BY <1>1, <1>7

-----------------------------------------------------------------------------
(* One lemma for each transaction *)

LEMMA ActivateKeeps ==
    ASSUME Inv, NEW h \in Hosts, NEW w \in Wallets, NEW a \in Approvals,
           Activate(h, w, a)
    PROVE  Sound
  <1> DEFINE e == <<"activated", w, a>>
             r == db[h].rows[w]
             s == [r EXCEPT !.approvals[a] = "active"]
  <1>1. e \in Events /\ e[1] = "activated" /\ e[2] = w /\ e[3] = a
    BY DEF Events
  <1>2. LegalOf(r, e) /\ s = EffectOf(r, e)
    BY <1>1 DEF Activate, LegalOf, EffectOf, Installed
  <1>3. s.version = r.version /\ s.policy = r.policy
    BY WalletTyped DEF Material
  <1>4. Commit(h, w, e, s, db[h].own[w])
    BY DEF Activate
  <1> HIDE DEF e, s
  <1>5. PolicyLinear(s, db[h].own[w])
    BY <1>3, WalletTyped DEF PolicyLinear
  <1> QED
    BY <1>1, <1>2, <1>4, <1>5, WalletTyped, CommitKeeps

LEMMA ReserveKeeps ==
    ASSUME Inv, NEW h \in Hosts, NEW w \in Wallets, NEW o \in Operations,
           Reserve(h, w, o)
    PROVE  Sound
  <1> DEFINE e == <<"reserved", w, o>>
             r == db[h].rows[w]
             s == [r EXCEPT !.operations[o] = "reserved", !.used[ApprovalOf[o]] = @ + 1]
  <1>1. e \in Events /\ e[1] = "reserved" /\ e[2] = w /\ e[3] = o
    BY DEF Events
  <1>2. LegalOf(r, e) /\ s = EffectOf(r, e)
    BY <1>1 DEF Reserve, LegalOf, EffectOf, Installed
  <1>3. s.version = r.version /\ s.policy = r.policy
    BY WalletTyped DEF Material
  <1>4. Commit(h, w, e, s, db[h].own[w])
    BY DEF Reserve
  <1> HIDE DEF e, s
  <1>5. PolicyLinear(s, db[h].own[w])
    BY <1>3, WalletTyped DEF PolicyLinear
  <1> QED
    BY <1>1, <1>2, <1>4, <1>5, WalletTyped, CommitKeeps

LEMMA CommitResultKeeps ==
    ASSUME Inv, NEW h \in Hosts, NEW w \in Wallets, NEW o \in Operations,
           CommitResult(h, w, o)
    PROVE  Sound
  <1> DEFINE e == <<"committed", w, o>>
             r == db[h].rows[w]
             s == [r EXCEPT !.operations[o] = "committed"]
  <1>1. e \in Events /\ e[1] = "committed" /\ e[2] = w /\ e[3] = o
    BY DEF Events
  <1>2. LegalOf(r, e) /\ s = EffectOf(r, e)
    BY <1>1 DEF CommitResult, LegalOf, EffectOf, Installed
  <1>3. s.version = r.version /\ s.policy = r.policy
    BY WalletTyped DEF Material
  <1>4. Commit(h, w, e, s, db[h].own[w])
    BY DEF CommitResult
  <1> HIDE DEF e, s
  <1>5. PolicyLinear(s, db[h].own[w])
    BY <1>3, WalletTyped DEF PolicyLinear
  <1> QED
    BY <1>1, <1>2, <1>4, <1>5, WalletTyped, CommitKeeps

LEMMA ReleaseKeeps ==
    ASSUME Inv, NEW h \in Hosts, NEW w \in Wallets, NEW o \in Operations,
           Release(h, w, o)
    PROVE  Sound
  <1> DEFINE e == <<"released", w, o>>
             r == db[h].rows[w]
             s == [r EXCEPT !.operations[o] = "released", !.used[ApprovalOf[o]] = @ - 1]
  <1>1. e \in Events /\ e[1] = "released" /\ e[2] = w /\ e[3] = o
    BY DEF Events
  <1>2. LegalOf(r, e) /\ s = EffectOf(r, e)
    BY <1>1 DEF Release, LegalOf, EffectOf, Installed
  <1>3. s.version = r.version /\ s.policy = r.policy
    BY WalletTyped DEF Material
  <1>4. Commit(h, w, e, s, db[h].own[w])
    BY DEF Release
  <1> HIDE DEF e, s
  <1>5. PolicyLinear(s, db[h].own[w])
    BY <1>3, WalletTyped DEF PolicyLinear
  <1> QED
    BY <1>1, <1>2, <1>4, <1>5, WalletTyped, CommitKeeps

LEMMA RevokeApprovalKeeps ==
    ASSUME Inv, NEW h \in Hosts, NEW w \in Wallets, NEW a \in Approvals, NEW q \in Revocations,
           RevokeApproval(h, w, a, q)
    PROVE  Sound
  <1> DEFINE e == <<"revoked", w, a, q>>
             r == db[h].rows[w]
             t == [by |-> q, epoch |-> r.epoch]
             s == [r EXCEPT !.approvals[a] = "inactive", !.tombstones[a] = t,
                            !.revocations[q] = [of |-> a, tombstone |-> t]]
  <1>1. e \in Events /\ e[1] = "revoked" /\ e[2] = w /\ e[3] = a /\ e[4] = q
    BY DEF Events
  <1>2. LegalOf(r, e) /\ s = EffectOf(r, e)
    BY <1>1 DEF RevokeApproval, LegalOf, EffectOf, Installed
  <1>3. s.version = r.version /\ s.policy = r.policy
    BY WalletTyped DEF Material
  <1>4. Commit(h, w, e, s, db[h].own[w])
    BY DEF RevokeApproval
  <1> HIDE DEF e, s
  <1>5. PolicyLinear(s, db[h].own[w])
    BY <1>3, WalletTyped DEF PolicyLinear
  <1> QED
    BY <1>1, <1>2, <1>4, <1>5, WalletTyped, CommitKeeps

LEMMA ReconcileApprovalKeeps ==
    ASSUME Inv, NEW h \in Hosts, NEW w \in Wallets, NEW a \in Approvals, NEW q \in Revocations,
           ReconcileApproval(h, w, a, q)
    PROVE  Sound
  <1> DEFINE e == <<"reconciled", w, a, q>>
             r == db[h].rows[w]
             s == [r EXCEPT !.revocations[q] = [of |-> a, tombstone |-> r.tombstones[a]]]
  <1>1. e \in Events /\ e[1] = "reconciled" /\ e[2] = w /\ e[3] = a /\ e[4] = q
    BY DEF Events
  <1>2. LegalOf(r, e) /\ s = EffectOf(r, e)
    BY <1>1 DEF ReconcileApproval, LegalOf, EffectOf, Installed
  <1>3. s.version = r.version /\ s.policy = r.policy
    BY WalletTyped DEF Material
  <1>4. Commit(h, w, e, s, db[h].own[w])
    BY DEF ReconcileApproval
  <1> HIDE DEF e, s
  <1>5. PolicyLinear(s, db[h].own[w])
    BY <1>3, WalletTyped DEF PolicyLinear
  <1> QED
    BY <1>1, <1>2, <1>4, <1>5, WalletTyped, CommitKeeps

LEMMA RevokeAllKeeps ==
    ASSUME Inv, NEW h \in Hosts, NEW w \in Wallets, NEW q \in Revocations,
           RevokeAll(h, w, q)
    PROVE  Sound
  <1> DEFINE e == <<"revoke_all", w, q>>
             r == db[h].rows[w]
             t == [by |-> q, epoch |-> r.epoch + 1]
             s == [r EXCEPT
                     !.epoch = @ + 1, !.revoked = t,
                     !.approvals = [a \in Approvals |->
                                      IF @[a] = "absent" THEN "absent" ELSE "inactive"],
                     !.revocations[q] = [of |-> "wallet", tombstone |-> t]]
  <1>1. e \in Events /\ e[1] = "revoke_all" /\ e[2] = w /\ e[3] = q
    BY DEF Events
  <1>2. LegalOf(r, e) /\ s = EffectOf(r, e)
    BY <1>1 DEF RevokeAll, LegalOf, EffectOf, Installed
  <1>3. s.version = r.version /\ s.policy = r.policy
    BY WalletTyped DEF Material
  <1>4. Commit(h, w, e, s, db[h].own[w])
    BY DEF RevokeAll
  <1> HIDE DEF e, s
  <1>5. PolicyLinear(s, db[h].own[w])
    BY <1>3, WalletTyped DEF PolicyLinear
  <1> QED
    BY <1>1, <1>2, <1>4, <1>5, WalletTyped, CommitKeeps

LEMMA RecoverKeeps ==
    ASSUME Inv, NEW h \in Hosts, NEW w \in Wallets,
           Recover(h, w)
    PROVE  Sound
  <1> DEFINE e == <<"recovery", w>>
             r == db[h].rows[w]
             s == [r EXCEPT !.generation = @ + 1]
  <1>1. e \in Events /\ e[1] = "recovery" /\ e[2] = w
    BY DEF Events
  <1>2. LegalOf(r, e) /\ s = EffectOf(r, e)
    BY <1>1 DEF Recover, LegalOf, EffectOf, Installed
  <1>3. s.version = r.version /\ s.policy = r.policy
    BY WalletTyped DEF Material
  <1>4. Commit(h, w, e, s, db[h].own[w])
    BY DEF Recover
  <1> HIDE DEF e, s
  <1>5. PolicyLinear(s, db[h].own[w])
    BY <1>3, WalletTyped DEF PolicyLinear
  <1> QED
    BY <1>1, <1>2, <1>4, <1>5, WalletTyped, CommitKeeps

LEMMA RetireKeeps ==
    ASSUME Inv, NEW h \in Hosts, NEW w \in Wallets, NEW n \in Numbers,
           Retire(h, w, n)
    PROVE  Sound
  <1> DEFINE e == <<"retired", w, n>>
             r == db[h].rows[w]
             s == [r EXCEPT !.accounts[n] = "retired"]
  <1>1. e \in Events /\ e[1] = "retired" /\ e[2] = w /\ e[3] = n
    BY DEF Events
  <1>2. LegalOf(r, e) /\ s = EffectOf(r, e)
    BY <1>1 DEF Retire, LegalOf, EffectOf, Installed
  <1>3. s.version = r.version /\ s.policy = r.policy
    BY WalletTyped DEF Material
  <1>4. Commit(h, w, e, s, db[h].own[w])
    BY DEF Retire
  <1> HIDE DEF e, s
  <1>5. PolicyLinear(s, db[h].own[w])
    BY <1>3, WalletTyped DEF PolicyLinear
  <1> QED
    BY <1>1, <1>2, <1>4, <1>5, WalletTyped, CommitKeeps

LEMMA AllocateKeeps ==
    ASSUME Inv, NEW h \in Hosts, NEW w \in Wallets, Allocate(h, w)
    PROVE  Sound
  <1> DEFINE r == db[h].rows[w]
             own == db[h].own[w]
             n == NextNumber(own)
  <1>0. n \in Numbers /\ n + 1 \in 0 .. MaxNumber + 1 /\ r.accounts[n] = "free"
    BY NextNumberTyped, WalletTyped, BackupAssumption DEF Allocate, Numbers
  <1>1. CASE Commit(h, w, <<"allocated", w, n>>, [r EXCEPT !.accounts[n] = "active"],
                    [own EXCEPT !.next = n + 1])
    <2> DEFINE e == <<"allocated", w, n>>
               s == [r EXCEPT !.accounts[n] = "active"]
               p == [own EXCEPT !.next = n + 1]
    <2> HIDE DEF n
    <2>1. e \in Events /\ e[1] = "allocated" /\ e[2] = w /\ e[3] = n
      BY <1>0 DEF Events
    <2>2. LegalOf(r, e) /\ s = EffectOf(r, e)
      BY <1>0, <2>1 DEF LegalOf, EffectOf
    <2>3. s.version = r.version /\ s.policy = r.policy
      BY WalletTyped DEF Material
    <2>4. p \in Local /\ p.committed = own.committed
      BY <1>0, WalletTyped DEF Local
    <2>5. Commit(h, w, e, s, p)
      BY <1>1
    <2> HIDE DEF e, s, p
    <2>6. PolicyLinear(s, p)
      BY <2>3, <2>4, WalletTyped DEF PolicyLinear
    <2> QED
      BY <2>1, <2>2, <2>4, <2>5, <2>6, CommitKeeps
  <1>2. CASE Commit(h, w, <<"abandoned", w, n>>, r,
                    [own EXCEPT !.next = n + 1, !.abandoned = @ \union {n}])
    <2> DEFINE e == <<"abandoned", w, n>>
               p == [own EXCEPT !.next = n + 1, !.abandoned = @ \union {n}]
    <2> HIDE DEF n
    <2>1. e \in Events /\ e[1] = "abandoned" /\ e[2] = w
      BY <1>0 DEF Events
    <2>2. LegalOf(r, e) /\ r = EffectOf(r, e)
      BY <2>1 DEF LegalOf, EffectOf
    <2>4. p \in Local /\ p.committed = own.committed
      BY <1>0, WalletTyped DEF Local
    <2>5. Commit(h, w, e, r, p)
      BY <1>2
    <2> HIDE DEF e, p
    <2>6. PolicyLinear(r, p)
      BY <2>4, WalletTyped DEF PolicyLinear
    <2> QED
      BY <2>1, <2>2, <2>4, <2>5, <2>6, CommitKeeps
  <1> QED
    BY <1>1, <1>2 DEF Allocate

LEMMA AuthorizePolicyKeeps ==
    ASSUME Inv, NEW h \in Hosts, NEW w \in Wallets, NEW u \in Updates,
           AuthorizePolicy(h, w, u)
    PROVE  Sound
  <1> DEFINE e == <<"policy.authorized", w, u>>
             r == db[h].rows[w]
             own == db[h].own[w]
             p == [own EXCEPT !.authorized[u] = r.version]
  <1>1. e \in Events /\ e[1] = "policy.authorized" /\ e[2] = w
    BY DEF Events
  <1>2. LegalOf(r, e) /\ r = EffectOf(r, e)
    BY <1>1 DEF LegalOf, EffectOf
  <1>3. p \in Local /\ p.committed = own.committed
    <2>1. r.version \in Nat
      BY WalletTyped DEF Material
    <2> QED
      BY <2>1, WalletTyped DEF Local
  <1>4. Commit(h, w, e, r, p)
    BY DEF AuthorizePolicy
  <1> HIDE DEF e, p
  <1>5. PolicyLinear(r, p)
    BY <1>3, WalletTyped DEF PolicyLinear
  <1> QED
    BY <1>1, <1>2, <1>3, <1>4, <1>5, CommitKeeps

\* The baseline is the installed version, so the new version is beyond every
\* version committed before.
LEMMA CompareAndSwapKeeps ==
    ASSUME Inv, NEW h \in Hosts, NEW w \in Wallets, NEW u \in Updates,
           CompareAndSwap(h, w, u)
    PROVE  Sound
  <1> DEFINE e == <<"policy.committed", w, u>>
             r == db[h].rows[w]
             own == db[h].own[w]
             next == own.authorized[u] + 1
             s == [r EXCEPT !.version = next, !.policy = u]
             p == [own EXCEPT !.authorized[u] = 0, !.committed[u] = next]
  <1>0. own.authorized[u] = r.version /\ r.version \in Nat
    BY WalletTyped DEF CompareAndSwap, BaselineIsCurrent, Material
  <1>1. e \in Events /\ e[1] = "policy.committed" /\ e[2] = w /\ e[3] = u
    BY DEF Events
  <1>2. LegalOf(r, e) /\ s = EffectOf(r, e)
    BY <1>0, <1>1 DEF LegalOf, EffectOf
  <1>3. next = r.version + 1 /\ next \in Nat
    BY <1>0
  <1>4. Commit(h, w, e, s, p)
    BY DEF CompareAndSwap
  <1> HIDE DEF next
  <1>5. s.version = next /\ s.policy = u
    BY WalletTyped DEF Material
  <1>6. p \in Local /\ p.committed = [own.committed EXCEPT ![u] = next]
    BY <1>3, WalletTyped DEF Local
  <1>7. own.committed \in [Updates -> Nat]
    BY WalletTyped DEF Local
  <1> HIDE DEF e, s, p
  <1>8. PolicyLinear(s, p)
    <2>1. \A v \in Updates : own.committed[v] <= r.version
      BY <1>0, <1>7, WalletTyped DEF PolicyLinear
    <2>2. \A v \in Updates : v # u => /\ p.committed[v] = own.committed[v]
                                       /\ p.committed[v] < next
      BY <1>0, <1>3, <1>6, <1>7, <2>1
    <2>3. p.committed[u] = next
      BY <1>6, <1>7
    <2>4. ASSUME NEW v \in Updates, p.committed[v] # 0
          PROVE  /\ p.committed[v] <= s.version
                 /\ p.committed[v] = s.version => s.policy = v
                 /\ \A x \in Updates \ {v} : p.committed[x] # p.committed[v]
      <3>1. CASE v = u
        BY <1>3, <1>5, <1>7, <2>2, <2>3, <3>1
      <3>2. CASE v # u
        <4>1. p.committed[v] = own.committed[v] /\ own.committed[v] # 0
          BY <2>2, <2>4, <3>2
        <4>2. \A x \in Updates \ {v} : own.committed[x] # own.committed[v]
          BY <4>1, WalletTyped DEF PolicyLinear
        <4> QED
          BY <1>3, <1>5, <1>7, <2>2, <2>3, <3>2, <4>1, <4>2
      <3> QED
        BY <3>1, <3>2
    <2> QED
      BY <2>4 DEF PolicyLinear
  <1> QED
    BY <1>1, <1>2, <1>4, <1>6, <1>8, CommitKeeps

-----------------------------------------------------------------------------
(* Export, restore and the copied file *)

\* The entry of an export or an import changes no wallet's rows.
LEMMA Marker ==
    ASSUME NEW w \in Wallets, NEW m \in Material, NEW j \in Seq(Events),
           NEW name \in {"custody.export", "custody.import"}
    PROVE  /\ <<name, w, m>> \in Events
           /\ Append(j, <<name, w, m>>) \in Seq(Events)
           /\ Append(j, <<name, w, m>>) # <<>>
           /\ Last(Append(j, <<name, w, m>>)) = <<name, w, m>>
           /\ \A v, r : ReplaysTo(v, j, r) => ReplaysTo(v, Append(j, <<name, w, m>>), r)
  <1> DEFINE e == <<name, w, m>>
  <1>1. e \in Events /\ e[1] = name
    BY DEF Events
  <1> HIDE DEF e
  <1>2. Append(j, e) \in Seq(Events) /\ Append(j, e) # <<>> /\ Last(Append(j, e)) = e
    BY <1>1 DEF Last
  <1>3. ASSUME NEW v, NEW r, ReplaysTo(v, j, r)
        PROVE  ReplaysTo(v, Append(j, e), r)
    <2>1. ~Changes(v, e)
      BY <1>1 DEF Changes
    <2>2. Legal(v, r, e) /\ Effect(v, r, e) = r
      BY <2>1 DEF Legal, Effect
    <2>3. ReplaysTo(v, Append(j, e), Effect(v, r, e))
      BY <1>1, <1>3, <2>2, ReplayAppend
    <2> QED
      BY <2>2, <2>3
  <1> QED
    BY <1>1, <1>2, <1>3 DEF e

LEMMA ExportKeeps ==
    ASSUME Inv, NEW h \in Hosts, NEW w \in Wallets, Export(h, w)
    PROVE  Sound
  <1> DEFINE r == db[h].rows[w]
             e == <<"custody.export", w, r>>
             j == Append(db[h].journal, e)
             b == [wallet |-> w, rows |-> r, journal |-> j, whole |-> w \in db[h].whole]
             d == [db[h] EXCEPT !.journal = j]
  <1>0. db \in [Hosts -> Databases] /\ db[h] \in Databases /\ r \in Material /\ RevInv(r)
    BY HostTyped, WalletTyped DEF Inv
  <1>1. /\ j \in Seq(Events) /\ j # <<>> /\ Last(j) = e
        /\ \A v, s : ReplaysTo(v, db[h].journal, s) => ReplaysTo(v, j, s)
    BY <1>0, HostTyped, Marker
  <1>2. e[1] = "custody.export"
    OBVIOUS
  <1>3. /\ db' = [db EXCEPT ![h].journal = j]
        /\ backups' = backups \union {b}
        /\ UNCHANGED mutations
    BY DEF Export, BackupOf
  <1> HIDE DEF e, j
  <1>4. /\ b \in Backups /\ b.rows = r /\ b.journal = j /\ b.wallet = w
        /\ b.whole = (w \in db[h].whole)
    BY <1>0, <1>1 DEF Backups
  <1>5. /\ d \in Databases /\ d.rows = db[h].rows /\ d.own = db[h].own
        /\ d.journal = j /\ d.whole = db[h].whole
    BY <1>0, <1>1 DEF Databases
  <1>6. /\ db' \in [Hosts -> Databases]
        /\ \A g \in Hosts : g # h => db'[g] = db[g]
        /\ db'[h] = d
    BY <1>0, <1>3, <1>5
  <1> HIDE DEF b, d
  <1>7. \A g \in Hosts : db'[g].rows = db[g].rows /\ db'[g].own = db[g].own
    BY <1>5, <1>6
  <1>8. FollowsJournal'
    <2>1. ASSUME NEW g \in Hosts, NEW v \in db'[g].whole
          PROVE  ReplaysTo(v, db'[g].journal, db'[g].rows[v])
      <3>1. CASE g = h
        BY <1>1, <1>5, <1>6, <3>1 DEF Inv, FollowsJournal
      <3>2. CASE g # h
        BY <1>6, <3>2 DEF Inv, FollowsJournal
      <3> QED
        BY <3>1, <3>2
    <2>2. b.whole => ReplaysTo(b.wallet, b.journal, b.rows)
      BY <1>1, <1>4 DEF Inv, FollowsJournal
    <2> QED
      BY <1>3, <2>1, <2>2 DEF Inv, FollowsJournal
  <1>9. RowsAgree'
    BY <1>0, <1>3, <1>4, <1>7 DEF Inv, RowsAgree
  <1>10. NewIsEmpty'
    BY <1>1, <1>5, <1>6, <1>7 DEF Inv, NewIsEmpty
  <1>11. RestoreRoundTrips'
    BY <1>1, <1>2, <1>5, <1>6 DEF RestoreRoundTrips, Inv, e
  <1>12. Inv'
    BY <1>3, <1>4, <1>6, <1>8, <1>9, <1>10, <1>11 DEF Inv
  <1>13. \A g \in Hosts, v \in Wallets : KeepsAuthority(db[g].rows[v], db'[g].rows[v])
    BY <1>7, WalletTyped, PrecedesReflexive
  <1> QED
    BY <1>12, <1>13 DEF Sound

\* The checks of restore_backup that a merge of rows rests on.
Checked(x, y) ==
    /\ EpochNotLower(x, y)
    /\ TombstonesAgree(x, y)
    /\ PolicyNotLower(x, y)
    /\ GenerationNotLower(x, y)
    /\ OperationsAgree(x, y)

\* The checks are enough to merge any two sets of rows of a wallet without
\* losing authority, and to keep tombstones and answers in agreement.
LEMMA MergeSound ==
    ASSUME NEW x \in Material, NEW y \in Material, RevInv(x), RevInv(y), Checked(x, y)
    PROVE  /\ RestoredRows(x, y) \in Material
           /\ RevInv(RestoredRows(x, y))
           /\ KeepsAuthority(x, RestoredRows(x, y))
  <1> DEFINE z == RestoredRows(x, y)
  <1> USE BackupAssumption
  <1>1. z \in Material
    <2>1. \A a \in Approvals : RestoredApproval(x, y, a) \in {"absent", "active", "inactive"}
      BY DEF RestoredApproval, Material
    <2>2. \A o \in Operations :
             RestoredOperation(x, y, o) \in {"absent", "reserved", "committed", "released"}
      BY DEF RestoredOperation, Material
    <2>3. \A n \in Numbers : RestoredAccount(x, y, n) \in {"free", "active", "retired"}
      BY DEF RestoredAccount, Material
    <2> QED
      BY <2>1, <2>2, <2>3 DEF RestoredRows, Material
  <1>2. /\ x.epoch \in Nat /\ y.epoch \in Nat /\ x.epoch <= y.epoch
        /\ z.epoch = y.epoch /\ z.revoked = y.revoked
    BY DEF RestoredRows, Checked, EpochNotLower, RevInv, Material
  <1>3. /\ \A a \in Approvals :
              /\ z.approvals[a] = RestoredApproval(x, y, a)
              /\ z.tombstones[a] = IF x.tombstones[a] = NoTombstone THEN y.tombstones[a]
                                   ELSE x.tombstones[a]
        /\ \A q \in Revocations :
              z.revocations[q] = IF x.revocations[q] = NoResult THEN y.revocations[q]
                                 ELSE x.revocations[q]
        /\ \A o \in Operations : z.operations[o] = RestoredOperation(x, y, o)
    BY DEF RestoredRows
  <1>4. /\ z.version = IF y.version = 0 THEN x.version ELSE y.version
        /\ z.generation = IF y.version = 0 THEN x.generation ELSE y.generation
    BY DEF RestoredRows
  <1> HIDE DEF z
  <1>5. RevInv(z)
    <2>1. z.epoch = z.revoked.epoch /\ (z.epoch = 0 <=> z.revoked = NoTombstone)
      BY <1>2 DEF RevInv
    <2>2. \A a \in Approvals : z.tombstones[a] # NoTombstone => z.approvals[a] = "inactive"
      BY <1>3 DEF RevInv, RestoredApproval
    <2>3. ASSUME NEW q \in Revocations, z.revocations[q].of = "wallet"
          PROVE  /\ z.revocations[q].tombstone.epoch > 0
                 /\ \/ z.revocations[q].tombstone.epoch < z.epoch
                    \/ z.revocations[q].tombstone = z.revoked
      <3>1. CASE x.revocations[q] = NoResult
        BY <1>2, <1>3, <2>3, <3>1 DEF RevInv
      <3>2. CASE x.revocations[q] # NoResult
        <4>1. z.revocations[q] = x.revocations[q]
          BY <1>3, <3>2
        <4>2. /\ x.revocations[q].tombstone.epoch > 0
              /\ \/ x.revocations[q].tombstone.epoch < x.epoch
                 \/ x.revocations[q].tombstone = x.revoked
          BY <2>3, <4>1 DEF RevInv
        <4>3. x.revocations[q].tombstone.epoch \in Nat
          BY DEF Material, Results, Tombstones
        <4>4. CASE x.revocations[q].tombstone.epoch < x.epoch
          BY <1>2, <4>1, <4>2, <4>3, <4>4
        <4>5. CASE x.revocations[q].tombstone = x.revoked
          <5>1. x.epoch > 0 /\ x.revoked # NoTombstone
            BY <1>2, <4>2, <4>5 DEF RevInv
          <5>2. y.epoch # 0 /\ y.revoked # NoTombstone
            BY <1>2, <5>1 DEF RevInv
          <5>3. x.revoked = y.revoked
            BY <5>1, <5>2 DEF Checked, TombstonesAgree
          <5> QED
            BY <1>2, <4>1, <4>2, <4>5, <5>3
        <4> QED
          BY <4>2, <4>4, <4>5
      <3> QED
        BY <3>1, <3>2
    <2>4. ASSUME NEW q \in Revocations, z.revocations[q].of \in Approvals
          PROVE  /\ z.revocations[q].tombstone # NoTombstone
                 /\ z.tombstones[z.revocations[q].of] = z.revocations[q].tombstone
      <3>1. CASE x.revocations[q] = NoResult
        BY <1>3, <2>4, <3>1 DEF RevInv, Checked, TombstonesAgree
      <3>2. CASE x.revocations[q] # NoResult
        BY <1>3, <2>4, <3>2 DEF RevInv
      <3> QED
        BY <3>1, <3>2
    <2> QED
      BY <2>1, <2>2, <2>3, <2>4 DEF RevInv
  <1>6. KeepsAuthority(x, z)
    <2>1. x.generation <= z.generation /\ x.version <= z.version
      BY <1>4 DEF Checked, PolicyNotLower, GenerationNotLower, Material
    <2>2. x.revoked # NoTombstone => z.revoked # NoTombstone
      BY <1>2 DEF RevInv
    <2>3. \A a \in Approvals :
             /\ x.approvals[a] = "inactive" => z.approvals[a] = "inactive"
             /\ x.tombstones[a] # NoTombstone => z.tombstones[a] = x.tombstones[a]
      BY <1>3 DEF RestoredApproval
    <2>4. \A q \in Revocations :
             x.revocations[q] # NoResult => z.revocations[q] = x.revocations[q]
      BY <1>3
    <2>5. \A o \in Operations :
             x.operations[o] \in {"committed", "released"} => z.operations[o] = x.operations[o]
      BY <1>3 DEF RestoredOperation, Checked, OperationsAgree
    <2> QED
      BY <1>2, <2>1, <2>2, <2>3, <2>4, <2>5 DEF KeepsAuthority
  <1> QED
    BY <1>1, <1>5, <1>6 DEF z

\* The version check is all that the policy's chain needs of a restore.
LEMMA MergeLinear ==
    ASSUME NEW x \in Material, NEW y \in Material, NEW own \in Local,
           PolicyLinear(x, own), PolicyNotLower(x, y)
    PROVE  PolicyLinear(RestoredRows(x, y), own)
  <1> DEFINE z == RestoredRows(x, y)
  <1>1. /\ z.version = IF y.version = 0 THEN x.version ELSE y.version
        /\ z.policy = IF y.version = 0 THEN x.policy ELSE y.policy
    BY DEF RestoredRows
  <1> HIDE DEF z
  <1>2. own.committed \in [Updates -> Nat] /\ x.version \in Nat /\ y.version \in Nat
    BY DEF Local, Material
  <1>3. PolicyLinear(z, own)
    BY <1>1, <1>2 DEF PolicyLinear, PolicyNotLower
  <1> QED
    BY <1>3 DEF z

\* Where the rows precede the backup's, as they do when both have followed the
\* journal, the merge is the backup.
LEMMA MergeIsBackup ==
    ASSUME NEW x \in Material, NEW y \in Material, RowInv(x), RowInv(y), Precedes(x, y)
    PROVE  RestoredRows(x, y) = y
  <1>1. ASSUME NEW a \in Approvals
        PROVE  RestoredApproval(x, y, a) = y.approvals[a]
    BY DEF RestoredApproval, Precedes, KeepsAuthority, Material
  <1>2. ASSUME NEW a \in Approvals, y.approvals[a] = "absent"
        PROVE  x.used[a] = y.used[a]
    <2>1. x.approvals[a] = "absent"
      BY <1>2 DEF Precedes
    <2>2. Counted(x, a) = {} /\ Counted(y, a) = {}
      BY <1>2, <2>1, BackupAssumption DEF Counted, RowInv
    <2> QED
      BY <2>2, FS_EmptySet DEF RowInv
  <1>3. ASSUME NEW o \in Operations
        PROVE  RestoredOperation(x, y, o) = y.operations[o]
    BY DEF RestoredOperation, Precedes, Material
  <1>4. ASSUME NEW n \in Numbers
        PROVE  RestoredAccount(x, y, n) = y.accounts[n]
    BY DEF RestoredAccount, Precedes, Material
  <1>5. /\ (IF y.revoked = NoTombstone THEN x.revoked ELSE y.revoked) = y.revoked
        /\ \A a \in Approvals :
              (IF x.tombstones[a] = NoTombstone THEN y.tombstones[a] ELSE x.tombstones[a])
                = y.tombstones[a]
        /\ \A q \in Revocations :
              (IF x.revocations[q] = NoResult THEN y.revocations[q] ELSE x.revocations[q])
                = y.revocations[q]
    BY DEF Precedes, KeepsAuthority
  <1>6. ASSUME y.version = 0
        PROVE  x.version = y.version /\ x.policy = y.policy /\ x.generation = y.generation
    BY <1>6 DEF Precedes, KeepsAuthority, RowInv, Material
  <1>7. /\ [a \in Approvals |-> RestoredApproval(x, y, a)] = y.approvals
        /\ [a \in Approvals |-> IF y.approvals[a] = "absent" THEN x.used[a]
                                 ELSE y.used[a]] = y.used
        /\ [a \in Approvals |-> IF x.tombstones[a] = NoTombstone THEN y.tombstones[a]
                                 ELSE x.tombstones[a]] = y.tombstones
        /\ [q \in Revocations |-> IF x.revocations[q] = NoResult THEN y.revocations[q]
                                   ELSE x.revocations[q]] = y.revocations
    BY <1>1, <1>2, <1>5 DEF Material
  <1>8. /\ [o \in Operations |-> RestoredOperation(x, y, o)] = y.operations
        /\ [n \in Numbers |-> RestoredAccount(x, y, n)] = y.accounts
    BY <1>3, <1>4 DEF Material
  <1>9. RestoredRows(x, y) =
            [epoch |-> y.epoch, revoked |-> y.revoked, approvals |-> y.approvals,
             used |-> y.used, tombstones |-> y.tombstones, revocations |-> y.revocations,
             operations |-> y.operations, version |-> y.version, policy |-> y.policy,
             generation |-> y.generation, accounts |-> y.accounts]
    BY <1>5, <1>6, <1>7, <1>8 DEF RestoredRows
  <1>10. y = [epoch |-> y.epoch, revoked |-> y.revoked, approvals |-> y.approvals,
              used |-> y.used, tombstones |-> y.tombstones, revocations |-> y.revocations,
              operations |-> y.operations, version |-> y.version, policy |-> y.policy,
              generation |-> y.generation, accounts |-> y.accounts]
    BY DEF Material
  <1> QED
    BY <1>9, <1>10

LEMMA RestoreKeeps ==
    ASSUME Inv, NEW h \in Hosts, NEW b \in backups, Restore(h, b)
    PROVE  Sound
  <1> DEFINE w == b.wallet
             x == db[h].rows[w]
             y == b.rows
             z == RestoredRows(x, y)
             j == Append(b.journal, <<"custody.import", w, y>>)
             d == [db[h] EXCEPT !.rows[w] = z, !.journal = j, !.whole = WholeAfter(h, b)]
  <1>0. /\ db \in [Hosts -> Databases] /\ db[h] \in Databases
        /\ db[h].journal \in Seq(Events) /\ b.journal \in Seq(Events)
        /\ w \in Wallets /\ db[h].rows \in [Wallets -> Material]
        /\ IsPrefix(db[h].journal, b.journal)
    BY HostTyped, BackupTyped DEF Inv, Restore, JournalExtends
  <1>1. /\ x \in Material /\ RevInv(x) /\ db[h].own[w] \in Local
        /\ PolicyLinear(x, db[h].own[w])
        /\ y \in Material /\ RevInv(y)
    BY <1>0, WalletTyped, BackupTyped
  <1>2. Checked(x, y) /\ PolicyNotLower(x, y)
    BY DEF Restore, Checked
  <1>3. z \in Material /\ RevInv(z) /\ KeepsAuthority(x, z) /\ PolicyLinear(z, db[h].own[w])
    BY <1>1, <1>2, MergeSound, MergeLinear
  <1>4. /\ j \in Seq(Events) /\ j # <<>> /\ Last(j) = <<"custody.import", w, y>>
        /\ \A v, s : ReplaysTo(v, b.journal, s) => ReplaysTo(v, j, s)
    BY <1>0, <1>1, Marker
  <1>5. /\ db' = [db EXCEPT ![h].rows[w] = z, ![h].journal = j, ![h].whole = WholeAfter(h, b)]
        /\ UNCHANGED <<backups, mutations>>
    BY DEF Restore
  <1>6. WholeAfter(h, b) \subseteq db[h].whole /\ db[h].whole \subseteq Wallets
    BY HostTyped DEF WholeAfter
  \* The restored wallet, if it has followed the journal on both sides.
  <1>7. ASSUME w \in WholeAfter(h, b)
        PROVE  z = y /\ ReplaysTo(w, j, z)
    <2>1. w \in db[h].whole /\ b.whole
      BY <1>7 DEF WholeAfter
    <2>2. ReplaysTo(w, db[h].journal, x) /\ ReplaysTo(w, b.journal, y)
      BY <2>1 DEF Inv, FollowsJournal
    <2>3. RowInv(x) /\ RowInv(y)
      BY <1>0, <2>2, ReplayTyped
    <2>4. Precedes(x, y)
      BY <1>0, <2>2, PrefixPrecedes
    <2>5. z = y
      BY <1>1, <2>3, <2>4, MergeIsBackup
    <2> QED
      BY <1>4, <2>2, <2>5
  \* Another one, of which the journal brings nothing.
  <1>8. ASSUME NEW v \in WholeAfter(h, b), v # w
        PROVE  ReplaysTo(v, j, db[h].rows[v])
    <2>1. /\ v \in db[h].whole
          /\ \A i \in Len(db[h].journal) + 1 .. Len(b.journal) : ~Changes(v, b.journal[i])
      BY <1>8 DEF WholeAfter
    <2>2. ReplaysTo(v, db[h].journal, db[h].rows[v])
      BY <2>1 DEF Inv, FollowsJournal
    <2>3. ReplaysTo(v, b.journal, db[h].rows[v])
      BY <1>0, <2>1, <2>2, ReplayExtend
    <2> QED
      BY <1>4, <2>3
  <1> HIDE DEF j, z
  <1>9. d \in Databases
    BY <1>0, <1>3, <1>4, <1>6 DEF Databases
  <1>10. /\ d.journal = j /\ d.whole = WholeAfter(h, b) /\ d.own = db[h].own
         /\ \A v \in Wallets : d.rows[v] = IF v = w THEN z ELSE db[h].rows[v]
    BY <1>0 DEF Databases
  <1>11. db' = [db EXCEPT ![h] = d]
    <2>1. [db EXCEPT ![h].rows[w] = z, ![h].journal = j, ![h].whole = WholeAfter(h, b)]
            = [db EXCEPT ![h] = d]
      BY <1>0, ZenonT(60)
    <2> HIDE DEF d
    <2> QED
      BY <1>5, <2>1, Zenon
  <1> HIDE DEF d
  <1>12. /\ db' \in [Hosts -> Databases]
         /\ db'[h] = d
         /\ \A g \in Hosts : g # h => db'[g] = db[g]
    BY <1>0, <1>9, <1>11
  <1>13. FollowsJournal'
    <2>1. ASSUME NEW g \in Hosts, NEW v \in db'[g].whole
          PROVE  ReplaysTo(v, db'[g].journal, db'[g].rows[v])
      <3>1. CASE g = h
        BY <1>6, <1>7, <1>8, <1>10, <1>12, <3>1
      <3>2. CASE g # h
        BY <1>12, <3>2 DEF Inv, FollowsJournal
      <3> QED
        BY <3>1, <3>2
    <2> QED
      BY <1>5, <2>1 DEF Inv, FollowsJournal
  <1>14. ASSUME NEW g \in Hosts, NEW v \in Wallets
         PROVE  /\ RevInv(db'[g].rows[v])
                /\ PolicyLinear(db'[g].rows[v], db'[g].own[v])
                /\ KeepsAuthority(db[g].rows[v], db'[g].rows[v])
    <2>1. CASE g = h /\ v = w
      BY <1>3, <1>10, <1>12, <2>1
    <2>2. CASE ~(g = h /\ v = w)
      <3>1. db'[g].rows[v] = db[g].rows[v] /\ db'[g].own[v] = db[g].own[v]
        BY <1>10, <1>12, <2>2
      <3> QED
        BY <3>1, WalletTyped, PrecedesReflexive
    <2> QED
      BY <2>1, <2>2
  <1>15. RowsAgree'
    BY <1>5, <1>14 DEF Inv, RowsAgree
  <1>16. NewIsEmpty'
    <2>1. ASSUME NEW g \in Hosts, db'[g].journal = <<>>, NEW v \in Wallets
          PROVE  db'[g].rows[v] = NoRows
      <3>1. g # h
        BY <1>4, <1>10, <1>12, <2>1
      <3> QED
        BY <1>12, <2>1, <3>1 DEF Inv, NewIsEmpty
    <2> QED
      BY <2>1 DEF NewIsEmpty
  <1>17. RestoreRoundTrips'
    <2>1. ASSUME NEW g \in Hosts, NEW v \in db'[g].whole, db'[g].journal # <<>>,
                 Last(db'[g].journal)[1] = "custody.import",
                 Last(db'[g].journal)[2] = v
          PROVE  db'[g].rows[v] = Last(db'[g].journal)[3]
      <3>1. CASE g = h
        <4>1. v = w
          BY <1>4, <1>10, <1>12, <2>1, <3>1
        <4>2. w \in WholeAfter(h, b)
          BY <1>10, <1>12, <3>1, <4>1
        <4> QED
          BY <1>0, <1>4, <1>7, <1>10, <1>12, <3>1, <4>1, <4>2
      <3>2. CASE g # h
        BY <1>12, <2>1, <3>2 DEF Inv, RestoreRoundTrips
      <3> QED
        BY <3>1, <3>2
    <2> QED
      BY <2>1 DEF RestoreRoundTrips
  <1>18. Inv'
    BY <1>5, <1>12, <1>13, <1>15, <1>16, <1>17 DEF Inv
  <1> QED
    BY <1>14, <1>18 DEF Sound

LEMMA CopyFileKeeps ==
    ASSUME Inv, NEW from \in Hosts, NEW to \in Hosts, CopyFile(from, to)
    PROVE  Sound
  <1>1. /\ db[to].journal = <<>> /\ db[from].journal # <<>>
        /\ db' = [db EXCEPT ![to] = db[from]]
        /\ UNCHANGED <<backups, mutations>>
    BY DEF CopyFile
  <1>2. /\ db' \in [Hosts -> Databases]
        /\ \A g \in Hosts : g # to => db'[g] = db[g]
        /\ db'[to] = db[from]
    BY <1>1 DEF Inv
  <1>3. FollowsJournal'
    BY <1>1, <1>2 DEF Inv, FollowsJournal
  <1>4. RowsAgree'
    BY <1>1, <1>2 DEF Inv, RowsAgree
  <1>5. NewIsEmpty'
    BY <1>1, <1>2 DEF Inv, NewIsEmpty
  <1>6. RestoreRoundTrips'
    BY <1>1, <1>2 DEF Inv, RestoreRoundTrips
  <1>7. Inv'
    BY <1>1, <1>2, <1>3, <1>4, <1>5, <1>6 DEF Inv
  <1>8. ASSUME NEW g \in Hosts, NEW w \in Wallets
        PROVE  KeepsAuthority(db[g].rows[w], db'[g].rows[w])
    <2>1. CASE g = to
      <3>1. db[g].rows[w] = NoRows /\ db'[g].rows[w] \in Material
        BY <1>1, <1>2, <2>1, WalletTyped DEF Inv, NewIsEmpty
      <3> QED
        BY <3>1 DEF KeepsAuthority, NoRows, Material
    <2>2. CASE g # to
      BY <1>2, <2>2, WalletTyped, PrecedesReflexive
    <2> QED
      BY <2>1, <2>2
  <1> QED
    BY <1>7, <1>8 DEF Sound

-----------------------------------------------------------------------------
(* The theorems *)

LEMMA StepSound ==
    ASSUME Inv, Next
    PROVE  Sound
  <1>1. ASSUME NEW h \in Hosts, NEW w \in Wallets,
               \/ \E a \in Approvals :
                     \/ Activate(h, w, a)
                     \/ \E q \in Revocations :
                           RevokeApproval(h, w, a, q) \/ ReconcileApproval(h, w, a, q)
               \/ \E q \in Revocations : RevokeAll(h, w, q)
               \/ \E o \in Operations :
                     Reserve(h, w, o) \/ CommitResult(h, w, o) \/ Release(h, w, o)
        PROVE  Sound
    BY <1>1, ActivateKeeps, RevokeApprovalKeeps, ReconcileApprovalKeeps, RevokeAllKeeps,
       ReserveKeeps, CommitResultKeeps, ReleaseKeeps
  <1>2. ASSUME NEW h \in Hosts, NEW w \in Wallets,
               \/ Recover(h, w)
               \/ Allocate(h, w)
               \/ \E n \in Numbers : Retire(h, w, n)
               \/ \E u \in Updates : AuthorizePolicy(h, w, u) \/ CompareAndSwap(h, w, u)
               \/ Export(h, w)
        PROVE  Sound
    BY <1>2, RecoverKeeps, AllocateKeeps, RetireKeeps, AuthorizePolicyKeeps,
       CompareAndSwapKeeps, ExportKeeps
  <1> QED
    BY <1>1, <1>2, RestoreKeeps, CopyFileKeeps DEF Next

LEMMA InvStutter ==
    ASSUME Inv, UNCHANGED vars
    PROVE  Inv'
  BY DEF vars, Inv, FollowsJournal, RowsAgree, NewIsEmpty, RestoreRoundTrips

\* In every reachable state the rows of a wallet that has followed the host-wide
\* journal are what the journal replays to, and the rows of every wallet, also
\* of one whose entries came with another wallet's backup, have tombstones,
\* revocation answers and policy versions that agree.
THEOREM BackupInvariant == Spec => []Inv
  <1>1. Init => Inv
    BY InvInit
  <1>2. Inv /\ [Next]_vars => Inv'
    BY StepSound, InvStutter DEF Sound
  <1> QED
    BY <1>1, <1>2, PTL DEF Spec

\* The rows, the journals and the backups have their types: no merge of rows by
\* restore_backup and no release leaves a counter below zero.
THEOREM TypeCorrect == Spec => []TypeOK
  <1>1. Inv => TypeOK
    <2> SUFFICES ASSUME Inv
                 PROVE  TypeOK
      OBVIOUS
    <2> QED
      BY HostTyped, WalletTyped, BackupTyped DEF TypeOK, Inv
  <1> QED
    BY <1>1, BackupInvariant, PTL

\* Of a wallet that has followed the journal, a history whose journal is a
\* prefix of another's has no later rows, for any number of hosts, wallets,
\* backups and restores: what restore_audit_entries takes the prefix to mean.
THEOREM HistoriesOrdered == Spec => []JournalOrdersHistories
  <1>1. Inv => JournalOrdersHistories
    <2> SUFFICES ASSUME Inv, NEW w \in Wallets, NEW x \in Histories(w), NEW y \in Histories(w),
                        IsPrefix(x.journal, y.journal)
                 PROVE  KeepsAuthority(x.rows, y.rows) /\ KeepsRetirements(x.rows, y.rows)
      BY DEF JournalOrdersHistories
    <2>1. ASSUME NEW z \in Histories(w)
          PROVE  z.journal \in Seq(Events) /\ ReplaysTo(w, z.journal, z.rows)
      <3>1. CASE \E b \in backups : /\ b.wallet = w /\ b.whole
                                    /\ z = [rows |-> b.rows, journal |-> b.journal]
        BY <3>1, BackupTyped
      <3>2. CASE \E h \in Hosts : /\ w \in db[h].whole
                                  /\ z = [rows |-> db[h].rows[w], journal |-> db[h].journal]
        BY <3>2, HostTyped DEF Inv, FollowsJournal
      <3> QED
        BY <3>1, <3>2 DEF Histories
    <2> QED
      BY <2>1, PrefixPrecedes DEF Precedes
  <1> QED
    BY <1>1, BackupInvariant, PTL

\* restore_backup leaves exactly the rows of the backup, though it merges them
\* row by row with what the database held, if the wallet has followed the
\* journal in both.
THEOREM RestoresRoundTrip == Spec => []RestoreRoundTrips
  <1>1. Inv => RestoreRoundTrips
    BY DEF Inv
  <1> QED
    BY <1>1, BackupInvariant, PTL

\* committed_operations is the number of the approval's operation rows that are
\* not released, on every host, through exports, copies and restores, of a
\* wallet that has followed the journal.
THEOREM CountersExactEverywhere == Spec => []CountersMatchOperations
  <1>1. Inv => CountersMatchOperations
    <2> SUFFICES ASSUME Inv, NEW h \in Hosts, NEW w \in db[h].whole
                 PROVE  RowInv(db[h].rows[w])
      BY DEF RowInv, Counted, CountersMatchOperations
    <2>1. ReplaysTo(w, db[h].journal, db[h].rows[w])
      BY DEF Inv, FollowsJournal
    <2> QED
      BY <2>1, HostTyped, ReplayTyped
  <1> QED
    BY <1>1, BackupInvariant, PTL

\* compare_and_swap_policy never commits two updates at one version, and the
\* installed policy is the newest committed one, restores of any wallet included.
THEOREM PolicyChainLinear == Spec => []PolicyChainIsLinear
  <1>1. Inv => PolicyChainIsLinear
    BY WalletTyped DEF PolicyLinear, PolicyChainIsLinear
  <1> QED
    BY <1>1, BackupInvariant, PTL

\* What revoke_approval and revoke_all answered is what the rows say on every
\* host, whatever backups restore_backup merged, in whatever order.
THEOREM RevocationAnswersPermanent == Spec => []RevocationAnswersHold
  <1>1. Inv => RevocationAnswersHold
    <2> SUFFICES ASSUME Inv, NEW h \in Hosts, NEW w \in Wallets
                 PROVE  RevInv(db[h].rows[w])
      BY DEF RevInv, RevocationAnswersHold
    <2> QED
      BY WalletTyped
  <1> QED
    BY <1>1, BackupInvariant, PTL

\* No step on any host undoes a revocation, an epoch, a credential generation, a
\* policy version, the answer of a revocation or the outcome of an operation:
\* the checks of restore_backup suffice without the journal.  Retirements of
\* accounts are not among what is kept.
THEOREM AuthorityPermanent == Spec => AuthorityNeverRegresses
  <1>1. Inv /\ [Next]_vars =>
            [\A h \in Hosts, w \in Wallets :
                KeepsAuthority(db[h].rows[w], db'[h].rows[w])]_vars
    BY StepSound DEF Sound
  <1> QED
    BY <1>1, BackupInvariant, PTL DEF Spec, AuthorityNeverRegresses
=============================================================================
