---------------------------- MODULE Session_proofs ----------------------------
(***************************************************************************)
(* Proofs about the Signer process and its audit journal, for any keys,    *)
(* configurations, events, connections and length of the chain.            *)
(***************************************************************************)
EXTENDS Session, TLAPS

-----------------------------------------------------------------------------
(* Sequences *)

Entries == [key : Keys, event : AllEvents]

LEMMA BoundedSeqs ==
    ASSUME NEW S, NEW n \in Nat, NEW s
    PROVE  s \in BoundedSeq(S, n) <=> s \in Seq(S) /\ Len(s) <= n
  <1>1. ASSUME s \in BoundedSeq(S, n)
        PROVE  s \in Seq(S) /\ Len(s) <= n
    <2>1. PICK m \in 0 .. n : s \in [1 .. m -> S]
      BY <1>1 DEF BoundedSeq, SeqOf
    <2>2. m \in Nat /\ m <= n
      OBVIOUS
    <2>3. s \in Seq(S) /\ Len(s) = m
      BY <2>1, <2>2
    <2> QED
      BY <2>2, <2>3
  <1>2. ASSUME s \in Seq(S), Len(s) <= n
        PROVE  s \in BoundedSeq(S, n)
    <2>1. Len(s) \in 0 .. n /\ s \in [1 .. Len(s) -> S]
      BY <1>2
    <2> QED
      BY <2>1 DEF BoundedSeq, SeqOf
  <1> QED
    BY <1>1, <1>2

LEMMA PrefixElements ==
    ASSUME NEW S, NEW s \in Seq(S), NEW t \in Seq(S)
    PROVE  IsPrefix(s, t) <=> /\ Len(s) <= Len(t)
                              /\ \A i \in 1 .. Len(s) : s[i] = t[i]
  <1>1. Len(s) \in Nat /\ Len(t) \in Nat
    OBVIOUS
  <1>2. ASSUME IsPrefix(s, t)
        PROVE  Len(s) <= Len(t) /\ \A i \in 1 .. Len(s) : s[i] = t[i]
    <2>1. Len(s) <= Len(t)
      BY <1>2 DEF IsPrefix
    <2>2. ASSUME NEW i \in 1 .. Len(s)
          PROVE  s[i] = t[i]
      <3>1. SubSeq(s, 1, Len(s))[i] = SubSeq(t, 1, Len(s))[i]
        BY <1>2 DEF IsPrefix
      <3> QED
        BY <1>1, <2>1, <3>1
    <2> QED
      BY <2>1, <2>2
  <1>3. ASSUME Len(s) <= Len(t), \A i \in 1 .. Len(s) : s[i] = t[i]
        PROVE  IsPrefix(s, t)
    <2>1. SubSeq(s, 1, Len(s)) = SubSeq(t, 1, Len(s))
      BY <1>1, <1>3
    <2> QED
      BY <1>3, <2>1 DEF IsPrefix
  <1> QED
    BY <1>2, <1>3

LEMMA PrefixReflexive ==
    ASSUME NEW S, NEW s \in Seq(S)
    PROVE  IsPrefix(s, s)
  BY PrefixElements

LEMMA PrefixTransitive ==
    ASSUME NEW S, NEW s \in Seq(S), NEW t \in Seq(S), NEW u \in Seq(S),
           IsPrefix(s, t), IsPrefix(t, u)
    PROVE  IsPrefix(s, u)
  <1>1. /\ Len(s) <= Len(t) /\ \A i \in 1 .. Len(s) : s[i] = t[i]
        /\ Len(t) <= Len(u) /\ \A i \in 1 .. Len(t) : t[i] = u[i]
    BY PrefixElements
  <1>2. Len(s) <= Len(u) /\ \A i \in 1 .. Len(s) : s[i] = u[i]
    BY <1>1
  <1> QED
    BY <1>2, PrefixElements

LEMMA PrefixAppend ==
    ASSUME NEW S, NEW s \in Seq(S), NEW t \in Seq(S), NEW x \in S, IsPrefix(s, t)
    PROVE  IsPrefix(s, Append(t, x))
  <1>1. Len(s) <= Len(t) /\ \A i \in 1 .. Len(s) : s[i] = t[i]
    BY PrefixElements
  <1> DEFINE u == Append(t, x)
  <1>2. u \in Seq(S) /\ Len(u) = Len(t) + 1 /\ \A i \in 1 .. Len(t) : u[i] = t[i]
    OBVIOUS
  <1> HIDE DEF u
  <1>3. Len(s) <= Len(u) /\ \A i \in 1 .. Len(s) : s[i] = u[i]
    BY <1>1, <1>2
  <1>4. IsPrefix(s, u)
    BY <1>2, <1>3, PrefixElements
  <1> QED
    BY <1>4 DEF u

LEMMA PrefixLength ==
    ASSUME NEW S, NEW s \in Seq(S), NEW t \in Seq(S), IsPrefix(s, t)
    PROVE  Len(t) > Len(s) \/ t = s
  <1>1. Len(s) <= Len(t) /\ \A i \in 1 .. Len(s) : s[i] = t[i]
    BY PrefixElements
  <1> QED
    BY <1>1

LEMMA HeadTyped ==
    ASSUME NEW c \in Seq(Entries)
    PROVE  /\ HeadOf(c) \in Seq(AllEvents) /\ Len(HeadOf(c)) = Len(c)
           /\ \A i \in 1 .. Len(c) : HeadOf(c)[i] = c[i].event
  <1>1. DOMAIN c = 1 .. Len(c) /\ Len(c) \in Nat
    OBVIOUS
  <1>2. ASSUME NEW i \in 1 .. Len(c)
        PROVE  c[i].event \in AllEvents
    <2>1. c[i] \in Entries
      OBVIOUS
    <2> QED
      BY <2>1 DEF Entries
  <1>3. HeadOf(c) = [i \in 1 .. Len(c) |-> c[i].event]
    BY <1>1 DEF HeadOf
  <1> QED
    BY <1>1, <1>2, <1>3

LEMMA HeadAppend ==
    ASSUME NEW c \in Seq(Entries), NEW x \in Entries
    PROVE  /\ Append(c, x) \in Seq(Entries)
           /\ HeadOf(Append(c, x)) = Append(HeadOf(c), x.event)
           /\ x.event \in AllEvents
  <1> DEFINE d == Append(c, x)
             h == HeadOf(c)
             k == Append(h, x.event)
             g == HeadOf(d)
  <1>0. x.event \in AllEvents
    BY DEF Entries
  <1>1. /\ d \in Seq(Entries) /\ Len(d) = Len(c) + 1 /\ d[Len(c) + 1] = x
        /\ \A i \in 1 .. Len(c) : d[i] = c[i]
    OBVIOUS
  <1>2. /\ h \in Seq(AllEvents) /\ Len(h) = Len(c)
        /\ \A i \in 1 .. Len(c) : h[i] = c[i].event
    BY HeadTyped
  <1> HIDE DEF h, d
  <1>3. /\ k \in Seq(AllEvents) /\ Len(k) = Len(c) + 1 /\ k[Len(c) + 1] = x.event
        /\ \A i \in 1 .. Len(c) : k[i] = h[i]
    BY <1>0, <1>2
  <1>4. /\ g \in Seq(AllEvents) /\ Len(g) = Len(d)
        /\ \A i \in 1 .. Len(d) : g[i] = d[i].event
    BY <1>1, HeadTyped
  <1> HIDE DEF k, g
  <1>5. Len(c) \in Nat
    OBVIOUS
  <1>6. ASSUME NEW i \in 1 .. Len(d)
        PROVE  g[i] = k[i]
    <2>1. CASE i = Len(c) + 1
      BY <1>1, <1>3, <1>4, <2>1
    <2>2. CASE i # Len(c) + 1
      <3>1. i \in 1 .. Len(c)
        BY <1>1, <1>5, <2>2
      <3> QED
        BY <1>1, <1>2, <1>3, <1>4, <3>1
    <2> QED
      BY <2>1, <2>2
  <1>7. g = k
    BY <1>1, <1>3, <1>4, <1>6
  <1> QED
    BY <1>0, <1>1, <1>7 DEF d, g, k, h

\* Two chains that agree up to i have the same head there.
LEMMA HeadUpTo ==
    ASSUME NEW c \in Seq(Entries), NEW d \in Seq(Entries), NEW i \in Nat,
           i <= Len(c), i <= Len(d), \A m \in 1 .. i : c[m] = d[m]
    PROVE  SubSeq(HeadOf(c), 1, i) = SubSeq(HeadOf(d), 1, i)
  <1> DEFINE h == HeadOf(c)
             g == HeadOf(d)
  <1>1. /\ h \in Seq(AllEvents) /\ Len(h) = Len(c)
        /\ \A m \in 1 .. Len(c) : h[m] = c[m].event
        /\ g \in Seq(AllEvents) /\ Len(g) = Len(d)
        /\ \A m \in 1 .. Len(d) : g[m] = d[m].event
    BY HeadTyped
  <1> HIDE DEF h, g
  <1>2. \A m \in 1 .. i : h[m] = g[m]
    <2> TAKE m \in 1 .. i
    <2>1. m \in 1 .. Len(c) /\ m \in 1 .. Len(d)
      OBVIOUS
    <2> QED
      BY <1>1, <2>1
  <1>3. SubSeq(h, 1, i) = SubSeq(g, 1, i)
    BY <1>1, <1>2
  <1> QED
    BY <1>3 DEF h, g

LEMMA HeadWhole ==
    ASSUME NEW c \in Seq(Entries)
    PROVE  SubSeq(HeadOf(c), 1, Len(c)) = HeadOf(c)
  <1>1. HeadOf(c) \in Seq(AllEvents) /\ Len(HeadOf(c)) = Len(c)
    BY HeadTyped
  <1> QED
    BY <1>1

-----------------------------------------------------------------------------
(* The inductive invariant *)

\* Every change of key has its rotation, and there are no other rotations:
\* what verify_audit_chain asks of the rows, whoever wrote to the database.
RotationsMatch ==
    /\ \A i \in 2 .. Len(chain) :
          chain[i].key # chain[i - 1].key => \E r \in rotations : RotationProves(r, i)
    /\ \A r \in rotations :
          r.first \in 2 .. Len(chain) /\ chain[r.first].key # chain[r.first - 1].key

\* What a process holds in memory, and when.
ProcessInv ==
    /\ phase = "down" => tail.head = NoHead
    /\ phase \in {"down", "opened", "waiting"} =>
          \A c \in Connections : connections[c] = Idle
    /\ \A c \in Connections :
          connections[c].at # "sending" /\ connections[c].method # "mutate" =>
             connections[c].wrote = NoHead

\* While no other hand touched the database the chain of a running process
\* verifies, unless it did not when the process opened it.
ChainInv ==
    /\ RotationsMatch
    /\ ~touched => ~altered
    /\ CacheSound
    /\ phase # "down" /\ ~touched /\ cause # "journal" => ChainVerifies
    /\ JournalFaultExplained

\* What a connection wrote is a prefix of the journal, and published before it
\* is answered.
AnswersInv ==
    \A c \in Connections : connections[c].wrote # NoHead =>
        /\ cause # "journal"
        /\ IsPrefix(connections[c].wrote, HeadOf(chain))
        /\ connections[c].at = "sending" => IsPrefix(connections[c].wrote, retained)

\* A mutation that has committed and is not answered.
Unpublished(c) ==
    /\ connections[c].at \in {"dispatching", "refused"}
    /\ connections[c].method = "mutate"

PublishInv ==
    /\ NeverBehindCheckpoint
    /\ ~touched => /\ IsPrefix(retained, HeadOf(chain))
                   /\ IsPrefix(acked, retained)
                   /\ IsPrefix(recorded, HeadOf(chain))
                   /\ AnswersInv
    /\ Serves /\ ~Degraded /\ ~touched =>
          IsPrefix(recorded, retained) \/ \E c \in Connections : Unpublished(c)
    /\ CleanStopIsPublished

Inv == TypeOK /\ ProcessInv /\ ChainInv /\ PublishInv

LEMMA NoHeadIsNone == NoHead \notin Seq(AllEvents)
  <1> SUFFICES ASSUME NoHead \in Seq(AllEvents)
               PROVE  FALSE
    OBVIOUS
  <1>1. NoHead[1] \in AllEvents
    BY DEF NoHead
  <1> QED
    BY <1>1, JournalAssumption DEF NoHead, AllEvents

LEMMA Typed ==
    ASSUME TypeOK
    PROVE  /\ chain \in Seq(Entries) /\ Len(chain) \in 0 .. MaxEntries
           /\ HeadOf(chain) \in Seq(AllEvents) /\ Len(HeadOf(chain)) = Len(chain)
           /\ HeadOf(chain) \in Heads /\ HeadOf(chain) # NoHead
           /\ retained \in Seq(AllEvents) /\ acked \in Seq(AllEvents)
           /\ recorded \in Seq(AllEvents)
           /\ \A c \in Connections :
                 connections[c].wrote # NoHead => connections[c].wrote \in Seq(AllEvents)
           /\ config.current \in Keys /\ config.current \in Trusted(config)
           /\ Trusted(config) \subseteq Keys
  <1> USE JournalAssumption
  <1>1. chain \in Seq(Entries) /\ Len(chain) <= MaxEntries
    BY BoundedSeqs DEF TypeOK, JournalTypeOK, Entries
  <1>2. Len(chain) \in 0 .. MaxEntries
    BY <1>1
  <1>3. HeadOf(chain) \in Seq(AllEvents) /\ Len(HeadOf(chain)) = Len(chain)
    BY <1>1, HeadTyped
  <1>4. HeadOf(chain) \in Heads
    BY <1>1, <1>3, BoundedSeqs DEF Heads
  <1>5. NoHead \notin Seq(AllEvents)
    BY NoHeadIsNone
  <1>6. retained \in Seq(AllEvents) /\ acked \in Seq(AllEvents) /\ recorded \in Seq(AllEvents)
    BY BoundedSeqs DEF TypeOK, Heads
  <1>7. ASSUME NEW c \in Connections, connections[c].wrote # NoHead
        PROVE  connections[c].wrote \in Seq(AllEvents)
    <2>1. connections[c].wrote \in Heads
      BY <1>7 DEF TypeOK
    <2> QED
      BY <2>1, BoundedSeqs DEF Heads
  <1>8. /\ config.current \in Keys /\ config.current \in Trusted(config)
        /\ Trusted(config) \subseteq Keys
    BY DEF TypeOK, JournalTypeOK, Trusted
  <1> QED
    BY <1>1, <1>2, <1>3, <1>4, <1>5, <1>6, <1>7, <1>8

-----------------------------------------------------------------------------
(* The journal *)

\* A cached head that answers stands for a chain that verifies.
LEMMA ReadVerifies ==
    ASSUME ChainInv, CachedHeadOk
    PROVE  ChainVerifies /\ TailAfterRead = FreshTail(chain)
  BY DEF ChainInv, CacheSound, CachedHeadOk, TailAfterRead

\* A step that leaves the rows, the configuration and the tail's promise alone.
LEMMA ChainKept ==
    ASSUME ChainInv, UNCHANGED <<database, config, touched>>,
           CacheHit' => ChainVerifies,
           phase # "down" \/ phase' = "down",
           \/ cause' = cause
           \/ cause' = Latched("journal") /\ ~ChainVerifies /\ phase # "down"
           \/ cause' = Latched("fault")
           \/ cause' = Latched("self_rejected") /\ touched
    PROVE  ChainInv'
  <1>1. ChainVerifies' = ChainVerifies
    BY DEF database, ChainVerifies, Verifies, RotationProves, HeadOf
  <1>2. RotationsMatch'
    <2>1. chain' = chain /\ rotations' = rotations
      BY DEF database
    <2>2. \A r, i : RotationProves(r, i)' <=> RotationProves(r, i)
      BY <2>1 DEF RotationProves
    <2> QED
      BY <2>1, <2>2 DEF ChainInv, RotationsMatch
  <1>3. JournalFaultExplained'
    BY DEF ChainInv, JournalFaultExplained, database, Latched, Degraded
  <1> QED
    BY <1>1, <1>2, <1>3 DEF ChainInv, CacheSound, database, Latched, Degraded

\* An entry under the current key, after a chain that verifies.
LEMMA AppendVerifies ==
    ASSUME TypeOK, ChainInv, ChainVerifies, NEW e \in Events,
           chain' = Append(chain, [key |-> config.current, event |-> e]),
           UNCHANGED <<rotations, altered, config>>
    PROVE  RotationsMatch' /\ ChainVerifies'
  <1> DEFINE x == [key |-> config.current, event |-> e]
             n == Len(chain)
  <1>1. x \in Entries /\ x.key = config.current
    BY Typed DEF Entries, AllEvents
  <1>2. /\ chain \in Seq(Entries) /\ chain' \in Seq(Entries) /\ Len(chain') = n + 1
        /\ n \in Nat
        /\ chain'[n + 1] = x /\ \A i \in 1 .. n : chain'[i] = chain[i]
    BY <1>1, Typed
  <1> HIDE DEF x
  <1>3. ASSUME NEW i \in 2 .. n, NEW r, RotationProves(r, i)
        PROVE  RotationProves(r, i)'
    <2>1. SubSeq(HeadOf(chain'), 1, i) = SubSeq(HeadOf(chain), 1, i)
      <3>1. i \in Nat /\ i <= Len(chain) /\ i <= Len(chain')
            /\ \A m \in 1 .. i : chain'[m] = chain[m]
        BY <1>2
      <3> QED
        BY <1>2, <3>1, HeadUpTo
    <2>2. chain'[i] = chain[i] /\ chain'[i - 1] = chain[i - 1]
      BY <1>2
    <2> QED
      BY <1>3, <2>1, <2>2 DEF RotationProves
  <1>4. n # 0 => chain'[n + 1].key = chain'[n].key
    BY <1>1, <1>2 DEF ChainVerifies, Verifies, Last
  <1>5. RotationsMatch'
    <2>1. ASSUME NEW i \in 2 .. Len(chain'), chain'[i].key # chain'[i - 1].key
          PROVE  \E r \in rotations' : RotationProves(r, i)'
      <3>1. i \in 2 .. n
        BY <1>2, <1>4, <2>1
      <3>2. chain[i].key # chain[i - 1].key
        BY <1>2, <2>1, <3>1
      <3>3. PICK r \in rotations : RotationProves(r, i)
        BY <3>1, <3>2 DEF ChainInv, RotationsMatch
      <3> QED
        BY <1>3, <3>1, <3>3
    <2>2. ASSUME NEW r \in rotations'
          PROVE  /\ r.first \in 2 .. Len(chain')
                 /\ chain'[r.first].key # chain'[r.first - 1].key
      <3>1. r.first \in 2 .. n /\ chain[r.first].key # chain[r.first - 1].key
        BY DEF ChainInv, RotationsMatch
      <3> QED
        BY <1>2, <3>1
    <2> QED
      BY <2>1, <2>2 DEF RotationsMatch
  <1>6. \A i \in DOMAIN chain' : chain'[i].key \in Trusted(config')
    <2>1. \A i \in 1 .. n : chain[i].key \in Trusted(config)
      BY <1>2 DEF ChainVerifies, Verifies
    <2>2. DOMAIN chain' = 1 .. n + 1
      BY <1>2
    <2>3. config.current \in Trusted(config) /\ Trusted(config') = Trusted(config)
      BY Typed DEF Trusted
    <2> QED
      BY <1>1, <1>2, <2>1, <2>2, <2>3
  <1>7. chain' # <<>> => Last(chain').key = config'.current
    BY <1>1, <1>2 DEF Last
  <1>8. ~altered'
    BY DEF ChainVerifies, Verifies
  <1> QED
    BY <1>5, <1>6, <1>7, <1>8 DEF RotationsMatch, ChainVerifies, Verifies

Tails == [stage : {"none", "verified", "pending"}, head : Heads \union {NoHead},
          foreign : BOOLEAN, own : BOOLEAN]

\* What a step that leaves the rows alone may do to the tail and the latch.
QuietJournal ==
    /\ UNCHANGED <<database, config, touched>>
    /\ tail' = tail \/ (tail' \in Tails /\ (ChainVerifies \/ ~CacheHit'))
    /\ \/ cause' = cause
       \/ cause' = Latched("journal") /\ ~ChainVerifies /\ phase # "down"
       \/ cause' = Latched("fault")
       \/ cause' = Latched("self_rejected") /\ touched

LEMMA QuietKeeps ==
    ASSUME TypeOK, ChainInv, QuietJournal, phase # "down" \/ phase' = "down"
    PROVE  JournalTypeOK' /\ ChainInv'
  <1>1. CacheHit' => ChainVerifies
    BY DEF QuietJournal, CacheHit, ChainInv, CacheSound, database, HeadOf
  <1>2. ChainInv'
    BY <1>1, ChainKept DEF QuietJournal
  <1>3. JournalTypeOK'
    BY DEF QuietJournal, TypeOK, JournalTypeOK, database, Tails, Latched, Causes
  <1> QED
    BY <1>2, <1>3

LEMMA FreshTyped ==
    ASSUME TypeOK
    PROVE  FreshTail(chain) \in Tails /\ NoTail \in Tails
  <1>1. NoTail \in Tails
    BY DEF NoTail, Tails
  <1>2. FreshTail(chain) = [NoTail EXCEPT !.stage = "verified", !.head = HeadOf(chain)]
    BY DEF FreshTail
  <1> QED
    BY <1>1, <1>2, Typed DEF Tails

\* cached_audit_head.
LEMMA ReadTyped ==
    ASSUME TypeOK, ChainInv, CachedHeadOk
    PROVE  ChainVerifies /\ TailAfterRead \in Tails
  <1>1. ChainVerifies /\ TailAfterRead = FreshTail(chain)
    BY ReadVerifies
  <1>2. FreshTail(chain) \in Tails
    BY FreshTyped
  <1> QED
    BY <1>1, <1>2

LEMMA AppendedTyped ==
    ASSUME TypeOK, ChainInv, CachedHeadOk, NEW e \in Events, Len(chain) < MaxEntries,
           NEW more \in BOOLEAN,
           NEW c, c = Append(chain, [key |-> config.current, event |-> e])
    PROVE  /\ c \in Seq(Entries) /\ Len(c) = Len(chain) + 1 /\ Len(c) <= MaxEntries
           /\ HeadOf(c) = Append(HeadOf(chain), e) /\ e \in AllEvents
           /\ HeadOf(c) \in Heads
           /\ TailAfterAppend(c, more) \in Tails
           /\ TailAfterWrite \in Tails
  <1> USE JournalAssumption
  <1> DEFINE x == [key |-> config.current, event |-> e]
  <1>1. x \in Entries /\ x.event = e
    BY Typed DEF Entries, AllEvents
  <1>2. chain \in Seq(Entries) /\ Len(chain) \in Nat
    BY Typed
  <1> HIDE DEF x
  <1>3. c \in Seq(Entries) /\ Len(c) = Len(chain) + 1
    BY <1>1, <1>2 DEF x
  <1>4. HeadOf(c) = Append(HeadOf(chain), e) /\ e \in AllEvents
    BY <1>1, <1>2, HeadAppend DEF x
  <1>5. Len(c) <= MaxEntries
    BY <1>2, <1>3
  <1>6. HeadOf(c) \in Heads
    BY <1>3, <1>5, HeadTyped, BoundedSeqs DEF Heads
  <1>7. TailAfterRead \in Tails
    BY ReadTyped
  <1>8. TailAfterAppend(c, more) \in Tails /\ TailAfterWrite \in Tails
    BY <1>6, <1>7 DEF TailAfterAppend, TailAfterWrite, Tails
  <1> QED
    BY <1>3, <1>4, <1>5, <1>6, <1>8

LEMMA CommitKeepsJournal ==
    ASSUME TypeOK, ChainInv, NEW e \in Events, NEW more \in BOOLEAN,
           CommitEntry(e, more), phase # "down"
    PROVE  JournalTypeOK' /\ ChainInv'
  <1> DEFINE c == Append(chain, [key |-> config.current, event |-> e])
  <1>1. /\ CachedHeadOk /\ cause = "none" /\ Len(chain) < MaxEntries
        /\ chain' = c /\ tail' = TailAfterAppend(c, more)
        /\ UNCHANGED <<rotations, altered, config, cause, touched>>
    BY DEF CommitEntry, MutationAllowed, Degraded
  <1>2. c \in Seq(Entries) /\ Len(c) <= MaxEntries /\ TailAfterAppend(c, more) \in Tails
    BY <1>1, AppendedTyped
  <1>3. ChainVerifies' /\ RotationsMatch'
    BY <1>1, ReadVerifies, AppendVerifies
  <1> HIDE DEF c
  <1>4. JournalTypeOK'
    <2>1. c \in BoundedSeq([key : Keys, event : AllEvents], MaxEntries)
      BY <1>2, BoundedSeqs, JournalAssumption DEF Entries
    <2> QED
      BY <1>1, <1>2, <2>1 DEF TypeOK, JournalTypeOK, Tails
  <1>5. JournalFaultExplained'
    BY <1>1 DEF JournalFaultExplained
  <1> QED
    BY <1>1, <1>3, <1>4, <1>5 DEF ChainInv, CacheSound

\* A rolled back append leaves a tail that is longer than the chain.
LEMMA RollBackIsQuiet ==
    ASSUME TypeOK, ChainInv, NEW e \in Events, RollBackEntry(e)
    PROVE  QuietJournal /\ cause' = cause
  <1> DEFINE c == Append(chain, [key |-> config.current, event |-> e])
  <1>1. /\ CachedHeadOk /\ Len(chain) < MaxEntries
        /\ tail' \in {TailAfterWrite, TailAfterAppend(c, TRUE), TailAfterAppend(c, FALSE)}
        /\ UNCHANGED <<database, config, cause, touched>>
    BY DEF RollBackEntry, MutationAllowed
  <1>2. ChainVerifies
    BY <1>1, ReadVerifies
  <1>3. tail' \in Tails
    BY <1>1, AppendedTyped
  <1> QED
    BY <1>1, <1>2, <1>3 DEF QuietJournal

LEMMA FailAppendIsQuiet ==
    ASSUME TypeOK, ChainInv, FailAppend
    PROVE  QuietJournal /\ cause' = "fault"
  <1>1. /\ CachedHeadOk /\ ~Degraded
        /\ tail' = TailAfterWrite /\ cause' = Latched("fault")
        /\ UNCHANGED <<database, config, touched>>
    BY DEF FailAppend, MutationAllowed
  <1>2. ChainVerifies /\ TailAfterRead \in Tails
    BY <1>1, ReadTyped
  <1>3. TailAfterWrite \in Tails
    BY <1>2 DEF TailAfterWrite, Tails
  <1> QED
    BY <1>1, <1>2, <1>3 DEF QuietJournal, Latched

LEMMA UnverifiedIsQuiet ==
    ASSUME ~CachedHeadOk, cause' = Latched("journal"), phase # "down",
           UNCHANGED <<database, config, tail, touched>>
    PROVE  QuietJournal
  <1>1. ~ChainVerifies
    BY DEF CachedHeadOk
  <1>2. tail' = tail /\ UNCHANGED <<database, config, touched>>
    OBVIOUS
  <1> QED
    BY <1>1, <1>2 DEF QuietJournal

LEMMA WriteIsQuiet ==
    ASSUME TypeOK, WriteUnaudited
    PROVE  QuietJournal /\ cause' = cause
  <1>1. tail' \in Tails /\ tail'.own
    BY DEF WriteUnaudited, TypeOK, JournalTypeOK, Tails
  <1> QED
    BY <1>1 DEF WriteUnaudited, QuietJournal, CacheHit

\* The store refuses the Signer's own head only after another hand's work.
LEMMA RejectedWasTouched ==
    ASSUME TypeOK, PublishInv, StoreRejects(HeadOf(chain))
    PROVE  touched
  <1> SUFFICES ASSUME ~touched
               PROVE  FALSE
    OBVIOUS
  <1>1. IsPrefix(retained, HeadOf(chain))
    BY DEF PublishInv
  <1>2. Len(HeadOf(chain)) > Len(retained) \/ HeadOf(chain) = retained
    BY <1>1, Typed, PrefixLength
  <1> QED
    BY <1>2 DEF StoreRejects, Accepts

-----------------------------------------------------------------------------
(* Steps that leave the rows and the checkpoint store alone *)

Tasks == [at : {"idle", "accepted", "dispatching", "refused", "sending"},
          method : {"none", "read", "mutate"}, wrote : Heads \union {NoHead}]

Up == {"opened", "waiting", "serving", "closing"}

LEMMA IdleTyped == Idle \in Tasks /\ Idle.at = "idle" /\ Idle.wrote = NoHead
  BY DEF Idle, Tasks

LEMMA BusyIsUp ==
    ASSUME Inv, NEW c \in Connections, connections[c].at # "idle"
    PROVE  phase \in {"serving", "closing"}
  BY IdleTyped DEF Inv, ProcessInv, TypeOK

\* In an untouched database the journal is blamed at the start or not at all.
LEMMA BlamedBefore ==
    ASSUME Inv, QuietJournal, ~touched, cause' = "journal"
    PROVE  cause = "journal"
  BY DEF Inv, QuietJournal, ChainInv, Latched, Degraded

LEMMA QuietLatch ==
    ASSUME QuietJournal
    PROVE  /\ cause' = "none" => cause = "none"
           /\ chain' = chain /\ touched' = touched /\ HeadOf(chain') = HeadOf(chain)
  BY DEF QuietJournal, Latched, Degraded, database

LEMMA TaskKeeps ==
    ASSUME Inv, QuietJournal, NEW c \in Connections, NEW t \in Tasks, To(c, t),
           phase \in {"serving", "closing"},
           UNCHANGED <<phase, exit, accepting, retained, recorded>>,
           acked' = acked \/ (acked' \in Heads /\ ~touched /\ IsPrefix(acked', retained)),
           lastVerified' \in BOOLEAN,
           t.at # "sending" /\ t.method # "mutate" => t.wrote = NoHead,
           t.wrote # NoHead => /\ t.wrote = connections[c].wrote
                               /\ t.at = "sending" => touched \/ IsPrefix(t.wrote, retained),
           Unpublished(c) => \/ t.at \in {"dispatching", "refused"} /\ t.method = "mutate"
                             \/ cause' # "none"
    PROVE  Inv'
  <1>1. JournalTypeOK' /\ ChainInv'
    BY QuietKeeps DEF Inv
  <1>2. /\ cause' = "none" => cause = "none"
        /\ chain' = chain /\ touched' = touched /\ HeadOf(chain') = HeadOf(chain)
    BY QuietLatch
  <1>3. /\ connections \in [Connections -> Tasks] /\ connections' \in [Connections -> Tasks]
        /\ connections'[c] = t
        /\ \A d \in Connections : d # c => connections'[d] = connections[d]
    BY DEF Inv, TypeOK, To, Tasks
  <1>4. TypeOK'
    BY <1>1, <1>3 DEF Inv, TypeOK, Tasks
  <1>5. ProcessInv'
    BY <1>3 DEF Inv, ProcessInv
  <1>6. ~touched => AnswersInv'
    <2> SUFFICES ASSUME ~touched, NEW d \in Connections, connections'[d].wrote # NoHead
                 PROVE  /\ cause' # "journal"
                        /\ IsPrefix(connections'[d].wrote, HeadOf(chain'))
                        /\ connections'[d].at = "sending"
                              => IsPrefix(connections'[d].wrote, retained')
      BY DEF AnswersInv
    <2>1. AnswersInv
      BY DEF Inv, PublishInv
    <2>2. connections'[d].wrote = connections[d].wrote
      BY <1>3
    <2>3. cause # "journal" /\ IsPrefix(connections'[d].wrote, HeadOf(chain'))
      BY <1>2, <2>1, <2>2 DEF AnswersInv
    <2>4. cause' # "journal"
      BY <2>3, BlamedBefore
    <2>5. connections'[d].at = "sending" => IsPrefix(connections'[d].wrote, retained)
      BY <1>3, <2>1 DEF AnswersInv
    <2> QED
      BY <2>3, <2>4, <2>5
  <1>7. NeverBehindCheckpoint'
    BY <1>2 DEF Inv, PublishInv, NeverBehindCheckpoint, Serves, Degraded
  <1>8. Serves' /\ ~Degraded' /\ ~touched' =>
            IsPrefix(recorded', retained') \/ \E d \in Connections : Unpublished(d)'
    BY <1>2, <1>3 DEF Inv, PublishInv, Serves, Degraded, Unpublished
  <1>9. CleanStopIsPublished'
    BY DEF CleanStopIsPublished
  <1>10. PublishInv'
    BY <1>2, <1>6, <1>7, <1>8, <1>9 DEF Inv, PublishInv
  <1> QED
    BY <1>1, <1>4, <1>5, <1>10 DEF Inv

LEMMA PhaseKeeps ==
    ASSUME Inv, QuietJournal, phase \in Up, phase' \in Up,
           phase' \in {"opened", "waiting"} => phase \in {"opened", "waiting"},
           phase = "opened" => phase' = "opened" \/ cause' # "none",
           UNCHANGED <<exit, connections, retained, acked, recorded>>,
           accepting' \subseteq Endpoints, lastVerified' \in BOOLEAN
    PROVE  Inv'
  <1>1. JournalTypeOK' /\ ChainInv'
    BY QuietKeeps DEF Inv, Up
  <1>2. /\ cause' = "none" => cause = "none"
        /\ chain' = chain /\ touched' = touched /\ HeadOf(chain') = HeadOf(chain)
    BY QuietLatch
  <1>4. TypeOK'
    BY <1>1 DEF Inv, TypeOK, Up
  <1>5. ProcessInv'
    BY DEF Inv, ProcessInv, Up
  <1>6. ~touched => AnswersInv'
    <2> SUFFICES ASSUME ~touched, NEW d \in Connections, connections[d].wrote # NoHead
                 PROVE  /\ cause' # "journal"
                        /\ IsPrefix(connections[d].wrote, HeadOf(chain'))
                        /\ connections[d].at = "sending"
                              => IsPrefix(connections[d].wrote, retained')
      BY DEF AnswersInv
    <2>1. AnswersInv
      BY DEF Inv, PublishInv
    <2> QED
      BY <1>2, <2>1, BlamedBefore DEF AnswersInv
  <1>7. NeverBehindCheckpoint'
    BY <1>2 DEF Inv, PublishInv, NeverBehindCheckpoint, Serves, Degraded, Up
  <1>8. Serves' /\ ~Degraded' /\ ~touched' =>
            IsPrefix(recorded', retained') \/ \E d \in Connections : Unpublished(d)'
    BY <1>2 DEF Inv, PublishInv, Serves, Degraded, Unpublished, Up
  <1>9. CleanStopIsPublished'
    BY DEF CleanStopIsPublished, Up
  <1>10. PublishInv'
    BY <1>2, <1>6, <1>7, <1>8, <1>9 DEF Inv, PublishInv
  <1> QED
    BY <1>1, <1>4, <1>5, <1>10 DEF Inv

LEMMA EndsKeeps ==
    ASSUME Inv, NEW how \in {"clean", "no_session", "repaired", "fatal", "crash"}, Ends(how),
           UNCHANGED <<database, recorded>>,
           how = "clean" => phase = "closing" /\ Drained
    PROVE  Inv'
  <1>1. QuietJournal /\ cause' = cause
    <2>1. tail'.head = NoHead /\ tail' = NoTail
      BY DEF Ends, NoTail
    <2>2. ~CacheHit'
      <3>1. HeadOf(chain') # NoHead
        BY Typed DEF Inv, database
      <3> QED
        BY <2>1, <3>1 DEF CacheHit
    <2>3. NoTail \in Tails
      BY FreshTyped DEF Inv
    <2> QED
      BY <2>1, <2>2, <2>3 DEF QuietJournal, Ends
  <1>2. JournalTypeOK' /\ ChainInv'
    BY <1>1, QuietKeeps DEF Inv, Ends
  <1>3. /\ chain' = chain /\ touched' = touched /\ HeadOf(chain') = HeadOf(chain)
    BY <1>1, QuietLatch
  <1>4. /\ phase' = "down" /\ exit' = how /\ tail' = NoTail /\ UNCHANGED <<cause, retained, acked, recorded>>
        /\ accepting' = {} /\ lastVerified' = FALSE
        /\ connections' = [c \in Connections |-> Idle]
    BY DEF Ends
  <1>5. connections' \in [Connections -> Tasks]
        /\ \A c \in Connections : connections'[c] = Idle /\ connections'[c].wrote = NoHead
    BY <1>4, IdleTyped
  <1>6. TypeOK'
    BY <1>2, <1>4, <1>5 DEF Inv, TypeOK, Tasks
  <1>7. ProcessInv'
    BY <1>4, <1>5 DEF ProcessInv, NoTail
  <1>8. AnswersInv'
    BY <1>5 DEF AnswersInv
  <1>9. CleanStopIsPublished'
    <2>1. ASSUME how = "clean", ~Degraded, ~touched
          PROVE  IsPrefix(recorded, retained)
      <3>1. \A c \in Connections : ~Unpublished(c)
        BY <2>1, IdleTyped DEF Drained, Unpublished
      <3> QED
        BY <2>1, <3>1 DEF Inv, PublishInv, Serves
    <2> QED
      BY <1>3, <1>4, <2>1 DEF CleanStopIsPublished, Degraded
  <1>10. PublishInv'
    BY <1>3, <1>4, <1>8, <1>9 DEF Inv, PublishInv, NeverBehindCheckpoint, Serves
  <1> QED
    BY <1>2, <1>6, <1>7, <1>10 DEF Inv

-----------------------------------------------------------------------------
(* Steps that extend the journal or the checkpoint store *)

\* What the publication of the head leaves: every mutation that is answered
\* afterwards is in the store.
LEMMA PublishedInv ==
    ASSUME TypeOK, AnswersInv, retained' = HeadOf(chain), UNCHANGED <<chain, cause>>,
           \A d \in Connections :
              connections'[d].wrote # NoHead => connections'[d].wrote = connections[d].wrote
    PROVE  AnswersInv'
  BY DEF AnswersInv

LEMMA PublishKeeps ==
    ASSUME Inv, NEW c \in Connections, Publish(c)
    PROVE  Inv'
  <1>1. /\ CachedHeadOk /\ retained' = HeadOf(chain) /\ tail' = TailAfterRead
        /\ To(c, Reply(connections[c].wrote)) /\ lastVerified' = TRUE
        /\ UNCHANGED <<database, config, cause, touched, phase, exit, accepting, acked, recorded>>
        /\ connections[c].at # "idle"
    BY DEF Publish, Answering, StoreAppends, PublishedHead, history
  <1>2. QuietJournal
    BY <1>1, ReadTyped DEF Inv, QuietJournal
  <1>3. phase \in {"serving", "closing"}
    BY <1>1, BusyIsUp
  <1>4. JournalTypeOK' /\ ChainInv'
    BY <1>2, <1>3, QuietKeeps DEF Inv
  <1>5. chain' = chain /\ touched' = touched /\ HeadOf(chain') = HeadOf(chain)
    BY <1>2, QuietLatch
  <1> DEFINE t == Reply(connections[c].wrote)
  <1>6. t \in Tasks /\ t.at = "sending" /\ t.wrote = connections[c].wrote
    BY DEF Reply, Tasks, Inv, TypeOK
  <1> HIDE DEF t
  <1>7. /\ connections' \in [Connections -> Tasks] /\ connections'[c] = t
        /\ \A d \in Connections : d # c => connections'[d] = connections[d]
    BY <1>1, <1>6 DEF Inv, TypeOK, To, Tasks, t
  <1>8. TypeOK'
    BY <1>1, <1>4, <1>7, Typed DEF Inv, TypeOK, Tasks
  <1>9. ProcessInv'
    BY <1>1, <1>3, <1>6, <1>7 DEF Inv, ProcessInv
  <1>10. AnswersInv \/ touched
    BY DEF Inv, PublishInv
  <1>11. AnswersInv' \/ touched
    BY <1>1, <1>5, <1>6, <1>7, <1>10, PublishedInv DEF Inv
  <1>12. ~touched => /\ IsPrefix(acked, retained') /\ IsPrefix(retained', HeadOf(chain'))
                     /\ IsPrefix(recorded, retained') /\ IsPrefix(recorded, HeadOf(chain'))
    BY <1>1, <1>5, Typed, PrefixReflexive, PrefixTransitive DEF Inv, PublishInv
  <1>13. NeverBehindCheckpoint' /\ CleanStopIsPublished'
    BY <1>1, <1>3, <1>5 DEF NeverBehindCheckpoint, CleanStopIsPublished
  <1>14. PublishInv'
    BY <1>1, <1>5, <1>11, <1>12, <1>13 DEF PublishInv
  <1> QED
    BY <1>4, <1>8, <1>9, <1>14 DEF Inv

LEMMA SelectAcceptedKeeps ==
    ASSUME Inv, SelectAccepted
    PROVE  Inv'
  <1>1. /\ CachedHeadOk /\ retained' = HeadOf(chain) /\ tail' = TailAfterRead
        /\ phase = "opened" /\ phase' = "waiting" /\ lastVerified' = TRUE
        /\ UNCHANGED <<database, config, cause, touched, exit, accepting, connections, acked, recorded>>
    BY DEF SelectAccepted, StoreAppends, history
  <1>2. QuietJournal
    BY <1>1, ReadTyped DEF Inv, QuietJournal
  <1>4. JournalTypeOK' /\ ChainInv'
    BY <1>1, <1>2, QuietKeeps DEF Inv
  <1>5. chain' = chain /\ touched' = touched /\ HeadOf(chain') = HeadOf(chain)
    BY <1>2, QuietLatch
  <1>8. TypeOK'
    BY <1>1, <1>4, Typed DEF Inv, TypeOK
  <1>9. ProcessInv'
    BY <1>1 DEF Inv, ProcessInv
  <1>10. AnswersInv \/ touched
    BY DEF Inv, PublishInv
  <1>11. AnswersInv' \/ touched
    BY <1>1, <1>5, <1>10, PublishedInv DEF Inv
  <1>12. ~touched => /\ IsPrefix(acked, retained') /\ IsPrefix(retained', HeadOf(chain'))
                     /\ IsPrefix(recorded, retained') /\ IsPrefix(recorded, HeadOf(chain'))
    BY <1>1, <1>5, Typed, PrefixReflexive, PrefixTransitive DEF Inv, PublishInv
  <1>13. NeverBehindCheckpoint' /\ CleanStopIsPublished'
    BY <1>1, <1>5 DEF NeverBehindCheckpoint, CleanStopIsPublished
  <1>14. PublishInv'
    BY <1>1, <1>5, <1>11, <1>12, <1>13 DEF PublishInv
  <1> QED
    BY <1>4, <1>8, <1>9, <1>14 DEF Inv

\* One more entry: what was a prefix of the journal is one still.
LEMMA LongerChain ==
    ASSUME TypeOK, NEW e \in AllEvents, HeadOf(chain') = Append(HeadOf(chain), e),
           NEW h \in Seq(AllEvents), IsPrefix(h, HeadOf(chain))
    PROVE  IsPrefix(h, HeadOf(chain'))
  BY Typed, PrefixAppend

LEMMA MutateKeeps ==
    ASSUME Inv, NEW c \in Connections, NEW e \in Events, NEW more \in BOOLEAN,
           Mutate(c, e, more)
    PROVE  Inv'
  <1>1. /\ Dispatching(c) /\ CommitEntry(e, more)
        /\ To(c, [connections[c] EXCEPT !.wrote = HeadOf(chain')])
        /\ UNCHANGED <<phase, exit, lastVerified, accepting, retained, acked>>
        /\ recorded' = IF touched THEN recorded ELSE HeadOf(chain')
    BY DEF Mutate, Records
  <1>2. /\ CachedHeadOk /\ cause = "none" /\ Len(chain) < MaxEntries
        /\ chain' = Append(chain, [key |-> config.current, event |-> e])
        /\ UNCHANGED <<cause, touched>>
    BY <1>1 DEF CommitEntry, MutationAllowed, Degraded
  <1>3. phase \in {"serving", "closing"}
    BY <1>1, BusyIsUp DEF Dispatching
  <1>4. JournalTypeOK' /\ ChainInv'
    BY <1>1, <1>3, CommitKeepsJournal DEF Inv
  <1>5. /\ chain' \in Seq(Entries) /\ Len(chain') = Len(chain) + 1
        /\ HeadOf(chain') = Append(HeadOf(chain), e) /\ e \in AllEvents
        /\ HeadOf(chain') \in Heads
    BY <1>2, AppendedTyped DEF Inv
  <1> DEFINE t == [connections[c] EXCEPT !.wrote = HeadOf(chain')]
  <1>6. /\ t \in Tasks /\ t.at = "dispatching" /\ t.method = "mutate"
        /\ t.wrote = HeadOf(chain')
    BY <1>1, <1>5 DEF Inv, TypeOK, Tasks, Dispatching
  <1> HIDE DEF t
  <1>7. /\ connections' \in [Connections -> Tasks] /\ connections'[c] = t
        /\ \A d \in Connections : d # c => connections'[d] = connections[d]
    BY <1>1, <1>6 DEF Inv, TypeOK, To, Tasks, t
  <1>8. TypeOK'
    BY <1>1, <1>4, <1>5, <1>7 DEF Inv, TypeOK, Tasks
  <1>9. ProcessInv'
    BY <1>1, <1>3, <1>6, <1>7 DEF Inv, ProcessInv
  <1>10. ~touched => AnswersInv'
    <2> SUFFICES ASSUME ~touched, NEW d \in Connections, connections'[d].wrote # NoHead
                 PROVE  /\ cause' # "journal"
                        /\ IsPrefix(connections'[d].wrote, HeadOf(chain'))
                        /\ connections'[d].at = "sending"
                              => IsPrefix(connections'[d].wrote, retained')
      BY DEF AnswersInv
    <2>1. CASE d = c
      <3>1. HeadOf(chain') \in Seq(AllEvents)
        BY <1>5, HeadTyped
      <3> QED
        BY <1>2, <1>6, <1>7, <2>1, <3>1, PrefixReflexive
    <2>2. CASE d # c
      <3>1. /\ connections'[d] = connections[d] /\ connections[d].wrote \in Seq(AllEvents)
            /\ IsPrefix(connections[d].wrote, HeadOf(chain))
            /\ connections[d].at = "sending" => IsPrefix(connections[d].wrote, retained)
        BY <1>7, <2>2, Typed DEF Inv, PublishInv, AnswersInv
      <3> QED
        BY <1>1, <1>2, <1>5, <3>1, LongerChain DEF Inv
    <2> QED
      BY <2>1, <2>2
  <1>11. ~touched => IsPrefix(retained, HeadOf(chain')) /\ IsPrefix(recorded', HeadOf(chain'))
    BY <1>1, <1>5, Typed, HeadTyped, LongerChain, PrefixReflexive DEF Inv, PublishInv
  <1>12. NeverBehindCheckpoint'
    <2>1. Len(chain) >= Len(retained)
      BY <1>2, <1>3, Typed DEF Inv, PublishInv, NeverBehindCheckpoint, Serves, Degraded
    <2>2. Len(chain) \in Nat /\ Len(retained) \in Nat
      BY Typed DEF Inv
    <2> QED
      BY <1>1, <1>5, <2>1, <2>2 DEF NeverBehindCheckpoint
  <1>13. Unpublished(c)'
    BY <1>6, <1>7 DEF Unpublished
  <1>14. CleanStopIsPublished'
    BY <1>1, <1>3 DEF CleanStopIsPublished
  <1>15. PublishInv'
    BY <1>1, <1>2, <1>10, <1>11, <1>12, <1>13, <1>14 DEF Inv, PublishInv
  <1> QED
    BY <1>4, <1>8, <1>9, <1>15 DEF Inv

LEMMA StartupCommitKeeps ==
    ASSUME Inv, NEW e \in Events, phase = "opened", CommitEntry(e, FALSE),
           Records, UNCHANGED <<processVars, retained, acked>>
    PROVE  Inv'
  <1>1. /\ UNCHANGED <<phase, exit, lastVerified, accepting, connections, retained, acked>>
        /\ recorded' = IF touched THEN recorded ELSE HeadOf(chain')
    BY DEF processVars, Records
  <1>2. /\ CachedHeadOk /\ Len(chain) < MaxEntries
        /\ chain' = Append(chain, [key |-> config.current, event |-> e])
        /\ UNCHANGED <<cause, touched>>
    BY DEF CommitEntry, MutationAllowed
  <1>3. JournalTypeOK' /\ ChainInv'
    BY CommitKeepsJournal DEF Inv
  <1>4. /\ HeadOf(chain') = Append(HeadOf(chain), e) /\ e \in AllEvents
        /\ HeadOf(chain') \in Heads /\ HeadOf(chain') \in Seq(AllEvents)
    BY <1>2, AppendedTyped, HeadTyped DEF Inv
  <1>5. TypeOK' /\ ProcessInv'
    BY <1>1, <1>3, <1>4 DEF Inv, TypeOK, ProcessInv
  <1>6. AnswersInv'
    BY <1>1, IdleTyped DEF Inv, ProcessInv, AnswersInv
  <1>7. ~touched => IsPrefix(retained, HeadOf(chain')) /\ IsPrefix(recorded', HeadOf(chain'))
    BY <1>1, <1>4, Typed, LongerChain, PrefixReflexive DEF Inv, PublishInv
  <1>8. PublishInv'
    BY <1>1, <1>2, <1>6, <1>7
    DEF Inv, PublishInv, NeverBehindCheckpoint, Serves, CleanStopIsPublished
  <1> QED
    BY <1>3, <1>5, <1>8 DEF Inv

LEMMA RepairClockKeeps ==
    ASSUME Inv, NEW e \in Events, RepairClock(e)
    PROVE  Inv'
  <1>1. /\ phase = "opened" /\ phase' = "down" /\ exit' = "repaired" /\ tail' = NoTail
        /\ accepting' = {} /\ lastVerified' = FALSE
        /\ connections' = [c \in Connections |-> Idle]
        /\ UNCHANGED <<rotations, altered, config, cause, touched, retained, acked>>
        /\ recorded' = IF touched THEN recorded ELSE HeadOf(chain')
    BY DEF RepairClock, Ends, Records
  <1>2. /\ CachedHeadOk /\ cause = "none" /\ Len(chain) < MaxEntries
        /\ chain' = Append(chain, [key |-> config.current, event |-> e])
    BY DEF RepairClock, MutationAllowed, Degraded
  <1>3. /\ chain' \in Seq(Entries) /\ Len(chain') <= MaxEntries
        /\ HeadOf(chain') = Append(HeadOf(chain), e) /\ e \in AllEvents
        /\ HeadOf(chain') \in Heads /\ HeadOf(chain') \in Seq(AllEvents)
    BY <1>2, AppendedTyped, HeadTyped DEF Inv
  <1>4. RotationsMatch' /\ ChainVerifies'
    BY <1>1, <1>2, ReadVerifies, AppendVerifies DEF Inv
  <1>5. ChainInv'
    BY <1>1, <1>2, <1>4 DEF Inv, ChainInv, CacheSound, JournalFaultExplained
  <1>6. JournalTypeOK'
    <2>1. chain' \in BoundedSeq([key : Keys, event : AllEvents], MaxEntries)
      BY <1>3, BoundedSeqs, JournalAssumption DEF Entries
    <2>2. NoTail \in Tails
      BY FreshTyped DEF Inv
    <2> QED
      BY <1>1, <2>1, <2>2 DEF Inv, TypeOK, JournalTypeOK, Tails
  <1>7. connections' \in [Connections -> Tasks]
        /\ \A c \in Connections : connections'[c] = Idle /\ connections'[c].wrote = NoHead
    BY <1>1, IdleTyped
  <1>8. TypeOK' /\ ProcessInv'
    BY <1>1, <1>3, <1>6, <1>7 DEF Inv, TypeOK, Tasks, ProcessInv, NoTail
  <1>9. AnswersInv'
    BY <1>7 DEF AnswersInv
  <1>10. ~touched => IsPrefix(retained, HeadOf(chain')) /\ IsPrefix(recorded', HeadOf(chain'))
    BY <1>1, <1>3, Typed, LongerChain, PrefixReflexive DEF Inv, PublishInv
  <1>11. PublishInv'
    BY <1>1, <1>9, <1>10
    DEF Inv, PublishInv, NeverBehindCheckpoint, Serves, CleanStopIsPublished
  <1> QED
    BY <1>5, <1>8, <1>11 DEF Inv

-----------------------------------------------------------------------------
(* Opening the journal *)

\* rotate_audit_key after a chain that verifies under the previous key: the
\* rotated chain verifies under the current one.
LEMMA RotateVerifies ==
    ASSUME TypeOK, ChainInv, NEW c \in Configs, OpenRotating(c), config' = c
    PROVE  /\ RotationsMatch' /\ ChainVerifies'
           /\ chain' \in Seq(Entries) /\ Len(chain') <= MaxEntries
           /\ rotations' = rotations \union {RotatedRow(c)}
           /\ RotatedRow(c) \in [first : 1 .. MaxEntries, old : Keys, new : Keys, head : Heads]
           /\ HeadOf(chain') = Append(HeadOf(chain), "rotated") /\ "rotated" \in AllEvents
  <1> USE JournalAssumption
  <1> DEFINE x == [key |-> c.current, event |-> "rotated"]
             n == Len(chain)
             row == RotatedRow(c)
  <1>1. /\ c.current \in Keys /\ c.previous \in Keys /\ c.previous # c.current
        /\ Trusted(c) \subseteq Keys /\ c.current \in Trusted(c)
    BY DEF OpenRotating, OpensPrevious, Trusted
  <1>2. Verifies(c.previous, Trusted(c)) /\ ~Verifies(c.current, Trusted(c))
    BY DEF OpenRotating, OpensPrevious, OpensCurrent
  <1>3. chain # <<>>
    BY <1>2 DEF Verifies
  <1>4. Last(chain).key = c.previous
    BY <1>2, <1>3 DEF Verifies
  <1>5. /\ x \in Entries /\ x.key = c.current /\ x.event = "rotated"
        /\ "rotated" \in AllEvents
    BY <1>1 DEF Entries, AllEvents
  <1>6. RotatedChain(c) = Append(chain, x)
    BY <1>3 DEF RotatedChain, Anchored
  <1>7. /\ chain' = Append(chain, x) /\ rotations' = rotations \union {row}
        /\ altered' = altered /\ Len(chain') <= MaxEntries
    BY <1>6 DEF OpenRotating, RotateAuditKey
  <1>8. chain \in Seq(Entries) /\ n \in Nat /\ n # 0
    BY <1>3, Typed
  <1> HIDE DEF x
  <1>9. /\ chain' \in Seq(Entries) /\ Len(chain') = n + 1
        /\ chain'[n + 1] = x /\ \A i \in 1 .. n : chain'[i] = chain[i]
    BY <1>5, <1>7, <1>8
  <1>10. HeadOf(chain') = Append(HeadOf(chain), "rotated") /\ HeadOf(chain') \in Heads
    BY <1>5, <1>7, <1>8, <1>9, HeadAppend, HeadTyped, BoundedSeqs DEF Heads
  <1>11. /\ row.first = n + 1 /\ row.old = c.previous /\ row.new = c.current
         /\ row.head = HeadOf(chain')
         /\ row \in [first : 1 .. MaxEntries, old : Keys, new : Keys, head : Heads]
    <2>1. row = [first |-> n + 1, old |-> c.previous, new |-> c.current,
                 head |-> HeadOf(chain')]
      BY <1>6, <1>7, <1>9 DEF RotatedRow
    <2>2. n + 1 \in 1 .. MaxEntries
      BY <1>7, <1>8, <1>9
    <2> HIDE DEF row
    <2> QED
      BY <1>1, <1>10, <2>1, <2>2
  <1>12. ASSUME NEW i \in 2 .. n, NEW r, RotationProves(r, i)
         PROVE  RotationProves(r, i)'
    <2>1. SubSeq(HeadOf(chain'), 1, i) = SubSeq(HeadOf(chain), 1, i)
      <3>1. i \in Nat /\ i <= Len(chain) /\ i <= Len(chain')
            /\ \A m \in 1 .. i : chain'[m] = chain[m]
        BY <1>8, <1>9
      <3> QED
        BY <1>8, <1>9, <3>1, HeadUpTo
    <2>2. chain'[i] = chain[i] /\ chain'[i - 1] = chain[i - 1]
      BY <1>8, <1>9
    <2> QED
      BY <1>12, <2>1, <2>2 DEF RotationProves
  <1> HIDE DEF row
  <1>13. chain'[n].key = c.previous /\ chain'[n + 1].key = c.current
    BY <1>4, <1>5, <1>8, <1>9 DEF Last
  <1>14. ASSUME NEW r, r = row, NEW i, i = n + 1
         PROVE  RotationProves(r, i)'
    <2>1. SubSeq(HeadOf(chain'), 1, i) = HeadOf(chain')
      BY <1>9, <1>14, HeadWhole
    <2>2. i - 1 = n
      BY <1>8, <1>14
    <2> QED
      BY <1>11, <1>13, <1>14, <2>1, <2>2 DEF RotationProves
  <1>15. RotationsMatch'
    <2>1. ASSUME NEW i \in 2 .. Len(chain'), chain'[i].key # chain'[i - 1].key
          PROVE  \E r \in rotations' : RotationProves(r, i)'
      <3>1. CASE i = n + 1
        BY <1>7, <1>14, <3>1
      <3>2. CASE i # n + 1
        <4>1. i \in 2 .. n
          BY <1>8, <1>9, <3>2
        <4>2. chain[i].key # chain[i - 1].key
          BY <1>8, <1>9, <2>1, <4>1
        <4>3. PICK r \in rotations : RotationProves(r, i)
          BY <4>1, <4>2 DEF ChainInv, RotationsMatch
        <4> QED
          BY <1>7, <1>12, <4>1, <4>3
      <3> QED
        BY <3>1, <3>2
    <2>2. ASSUME NEW r \in rotations'
          PROVE  /\ r.first \in 2 .. Len(chain')
                 /\ chain'[r.first].key # chain'[r.first - 1].key
      <3>1. CASE r = row
        <4>1. r.first = n + 1 /\ r.first - 1 = n
          BY <1>8, <1>11, <3>1
        <4> QED
          BY <1>1, <1>8, <1>9, <1>13, <4>1
      <3>2. CASE r \in rotations
        <4>1. r.first \in 2 .. n /\ chain[r.first].key # chain[r.first - 1].key
          BY <3>2 DEF ChainInv, RotationsMatch
        <4> QED
          BY <1>8, <1>9, <4>1
      <3> QED
        BY <1>7, <3>1, <3>2
    <2> QED
      BY <2>1, <2>2 DEF RotationsMatch
  <1>16. \A i \in DOMAIN chain' : chain'[i].key \in Trusted(c)
    <2>1. \A i \in 1 .. n : chain[i].key \in Trusted(c)
      BY <1>2, <1>8 DEF Verifies
    <2>2. DOMAIN chain' = 1 .. n + 1
      BY <1>9
    <2> QED
      BY <1>1, <1>8, <1>9, <1>13, <2>1, <2>2
  <1>17. Last(chain').key = c.current
    BY <1>9, <1>13 DEF Last
  <1>18. ~altered'
    BY <1>2, <1>7 DEF Verifies
  <1>19. ChainVerifies'
    BY <1>15, <1>16, <1>17, <1>18 DEF RotationsMatch, ChainVerifies, Verifies
  <1> QED
    BY <1>5, <1>7, <1>9, <1>10, <1>11, <1>15, <1>19 DEF row

\* The head of a chain of the journal's type.
LEMMA HeadBounded ==
    ASSUME NEW c \in BoundedSeq([key : Keys, event : AllEvents], MaxEntries)
    PROVE  HeadOf(c) \in Heads /\ HeadOf(c) \in Seq(AllEvents)
  <1>1. c \in Seq(Entries) /\ Len(c) <= MaxEntries
    BY BoundedSeqs, JournalAssumption DEF Entries
  <1>2. HeadOf(c) \in Seq(AllEvents) /\ Len(HeadOf(c)) = Len(c)
    BY <1>1, HeadTyped
  <1> QED
    BY <1>1, <1>2, BoundedSeqs, JournalAssumption DEF Heads

LEMMA StartKeeps ==
    ASSUME Inv, NEW c \in Configs, Start(c)
    PROVE  Inv'
  <1> USE JournalAssumption
  <1>1. /\ phase = "down" /\ phase' = "opened" /\ exit' = "none" /\ config' = c
        /\ UNCHANGED <<touched, lastVerified, accepting, connections, retained, acked>>
        /\ recorded' = IF touched THEN recorded ELSE HeadOf(chain')
        /\ OpenCurrent(c) \/ OpenRotating(c) \/ OpenDegraded(c)
    BY DEF Start, Open, Records
  <1>2. \A d \in Connections : connections'[d].wrote = NoHead
    BY <1>1, IdleTyped DEF Inv, ProcessInv
  <1>3. ASSUME JournalTypeOK', ChainInv',
               ~touched => IsPrefix(retained, HeadOf(chain'))
        PROVE  Inv'
    <2>1. TypeOK' /\ ProcessInv'
      <3>1. HeadOf(chain') \in Heads /\ HeadOf(chain') \in Seq(AllEvents)
        BY <1>3, HeadBounded DEF JournalTypeOK
      <3> QED
        BY <1>1, <1>3, <3>1 DEF Inv, TypeOK, ProcessInv
    <2>2. AnswersInv'
      BY <1>2 DEF AnswersInv
    <2>3. ~touched => IsPrefix(recorded', HeadOf(chain'))
      BY <1>1, <1>3, HeadBounded, PrefixReflexive DEF JournalTypeOK
    <2>4. PublishInv'
      BY <1>1, <1>3, <2>2, <2>3
      DEF Inv, PublishInv, NeverBehindCheckpoint, Serves, CleanStopIsPublished
    <2> QED
      BY <1>3, <2>1, <2>4 DEF Inv
  <1>4. CASE OpenCurrent(c)
    <2>1. /\ Verifies(c.current, Trusted(c)) /\ cause' = "none" /\ tail' = FreshTail(chain)
          /\ chain' = chain /\ rotations' = rotations /\ altered' = altered
      BY <1>4 DEF OpenCurrent, OpensCurrent, database
    <2>2. HeadOf(chain') = HeadOf(chain)
      BY <2>1
    <2>3. ChainVerifies' /\ RotationsMatch'
      <3>1. \A r, i : RotationProves(r, i)' <=> RotationProves(r, i)
        BY <2>1, <2>2 DEF RotationProves
      <3> QED
        BY <1>1, <2>1, <3>1 DEF ChainVerifies, Verifies, Inv, ChainInv, RotationsMatch
    <2>4. JournalTypeOK'
      BY <1>1, <2>1, FreshTyped DEF Inv, TypeOK, JournalTypeOK, Tails, Causes
    <2>5. ChainInv'
      BY <1>1, <2>1, <2>3 DEF Inv, ChainInv, CacheSound, JournalFaultExplained
    <2> QED
      BY <1>3, <2>2, <2>4, <2>5 DEF Inv, PublishInv
  <1>5. CASE OpenRotating(c)
    <2>1. /\ RotationsMatch' /\ ChainVerifies'
          /\ chain' \in Seq(Entries) /\ Len(chain') <= MaxEntries
          /\ rotations' = rotations \union {RotatedRow(c)}
          /\ RotatedRow(c) \in [first : 1 .. MaxEntries, old : Keys, new : Keys, head : Heads]
          /\ HeadOf(chain') = Append(HeadOf(chain), "rotated") /\ "rotated" \in AllEvents
      BY <1>1, <1>5, RotateVerifies DEF Inv
    <2>2. /\ cause' = "none" /\ tail' = [FreshTail(chain) EXCEPT !.own = TRUE]
          /\ altered' = altered
      BY <1>5 DEF OpenRotating, RotateAuditKey
    <2>3. tail' \in Tails
      BY <2>2, FreshTyped DEF Inv, Tails
    <2>4. chain' \in BoundedSeq([key : Keys, event : AllEvents], MaxEntries)
      BY <2>1, BoundedSeqs DEF Entries
    <2>5. rotations' \subseteq [first : 1 .. MaxEntries, old : Keys, new : Keys, head : Heads]
      BY <2>1 DEF Inv, TypeOK, JournalTypeOK
    <2>6. JournalTypeOK'
      BY <1>1, <2>2, <2>3, <2>4, <2>5 DEF Inv, TypeOK, JournalTypeOK, Tails, Causes
    <2>7. ChainInv'
      BY <1>1, <2>1, <2>2 DEF Inv, ChainInv, CacheSound, JournalFaultExplained
    <2>8. ~touched => IsPrefix(retained, HeadOf(chain'))
      BY <2>1, Typed, LongerChain DEF Inv, PublishInv
    <2> QED
      BY <1>3, <2>6, <2>7, <2>8
  <1>6. CASE OpenDegraded(c)
    <2>1. /\ ~Verifies(c.current, Trusted(c))
          /\ c.previous # NoKey => ~Verifies(c.previous, Trusted(c))
          /\ cause' = "journal" /\ tail' = NoTail
          /\ chain' = chain /\ rotations' = rotations /\ altered' = altered
      BY <1>6 DEF OpenDegraded, OpensCurrent, OpensPrevious, database
    <2>2. HeadOf(chain') = HeadOf(chain)
      BY <2>1
    <2>3. RotationsMatch'
      <3>1. \A r, i : RotationProves(r, i)' <=> RotationProves(r, i)
        BY <2>1, <2>2 DEF RotationProves
      <3> QED
        BY <2>1, <3>1 DEF Inv, ChainInv, RotationsMatch
    <2>4. ASSUME ~touched, \A i \in DOMAIN chain : chain[i].key \in Trusted(c)
          PROVE  chain # <<>> /\ Last(chain).key \notin {c.current, c.previous}
      <3>1. \A k : (chain # <<>> => Last(chain).key = k) => Verifies(k, Trusted(c))
        BY <2>4 DEF Inv, ChainInv, RotationsMatch, Verifies
      <3>2. chain # <<>> /\ Last(chain).key # c.current
        BY <2>1, <3>1
      <3>3. Last(chain).key \in Trusted(c)
        <4>1. Len(chain) \in DOMAIN chain
          BY <3>2, Typed DEF Inv
        <4> QED
          BY <2>4, <4>1 DEF Last
      <3>4. NoKey \notin Trusted(c)
        BY DEF Trusted
      <3>5. Last(chain).key # c.previous
        BY <2>1, <3>1, <3>3, <3>4
      <3> QED
        BY <3>2, <3>5
    <2>5. ~CacheHit'
      <3>1. NoTail.head = NoHead
        BY DEF NoTail
      <3> QED
        BY <2>1, <2>2, <3>1, Typed DEF Inv, CacheHit
    <2>6. JournalTypeOK'
      BY <1>1, <2>1, FreshTyped DEF Inv, TypeOK, JournalTypeOK, Tails, Causes
    <2>7. JournalFaultExplained'
      BY <1>1, <2>1, <2>4 DEF JournalFaultExplained
    <2>8. ChainInv'
      BY <1>1, <2>1, <2>3, <2>5, <2>7 DEF Inv, ChainInv, CacheSound
    <2> QED
      BY <1>3, <2>2, <2>6, <2>8 DEF Inv, PublishInv
  <1> QED
    BY <1>1, <1>4, <1>5, <1>6

-----------------------------------------------------------------------------
(* Other hands on the database *)

LEMMA EmptyIsHead == <<>> \in Heads
  <1> DEFINE e == <<>>
  <1>1. e \in Seq(AllEvents) /\ Len(e) <= MaxEntries
    BY JournalAssumption
  <1> HIDE DEF e
  <1>2. e \in Heads
    BY <1>1, BoundedSeqs, JournalAssumption DEF Heads
  <1> QED
    BY <1>2 DEF e

LEMMA AnotherConnectionKeeps ==
    ASSUME Inv, AnotherConnection
    PROVE  Inv'
  <1>1. /\ altered' = TRUE /\ touched' = TRUE /\ tail' = [tail EXCEPT !.foreign = TRUE]
        /\ acked' = <<>> /\ recorded' = <<>>
        /\ UNCHANGED <<chain, rotations, config, cause, phase, exit, lastVerified, accepting,
                       connections, retained>>
    BY DEF AnotherConnection, ForeignWrite, processVars
  <1>2. tail' \in Tails /\ tail'.foreign /\ tail'.head = tail.head
    BY <1>1 DEF Inv, TypeOK, JournalTypeOK, Tails
  <1>3. acked' \in Heads /\ recorded' \in Heads
    BY <1>1, EmptyIsHead
  <1>4. TypeOK'
    BY <1>1, <1>2, <1>3 DEF Inv, TypeOK, JournalTypeOK, Tails
  <1>5. ProcessInv'
    BY <1>1, <1>2 DEF Inv, ProcessInv
  <1>6. RotationsMatch'
    <2>1. \A r, i : RotationProves(r, i)' <=> RotationProves(r, i)
      BY <1>1 DEF RotationProves
    <2> QED
      BY <1>1, <2>1 DEF Inv, ChainInv, RotationsMatch
  <1>7. ChainInv'
    BY <1>1, <1>2, <1>6 DEF ChainInv, CacheSound, CacheHit, JournalFaultExplained
  <1>8. PublishInv'
    BY <1>1 DEF Inv, PublishInv, NeverBehindCheckpoint, Serves, Degraded, CleanStopIsPublished
  <1> QED
    BY <1>4, <1>5, <1>7, <1>8 DEF Inv

\* The rotations of an older copy are those of its own changes of key.
LEMMA OldDatabaseKeeps ==
    ASSUME Inv, NEW n \in 0 .. MaxEntries - 1, OldDatabase(n)
    PROVE  Inv'
  <1> USE JournalAssumption
  <1>1. /\ n < Len(chain) /\ chain' = SubSeq(chain, 1, n)
        /\ rotations' = {r \in rotations : r.first <= n}
        /\ altered' \in {altered, FALSE} /\ touched' = TRUE
        /\ acked' = <<>> /\ recorded' = <<>>
        /\ phase = "down"
        /\ UNCHANGED <<config, cause, tail, phase, exit, lastVerified, accepting,
                       connections, retained>>
    BY DEF OldDatabase, OlderCopy, processVars
  <1>2. chain \in Seq(Entries) /\ Len(chain) \in 0 .. MaxEntries /\ n \in Nat
    BY Typed DEF Inv
  <1>3. /\ chain' \in Seq(Entries) /\ Len(chain') = n
        /\ \A i \in 1 .. n : chain'[i] = chain[i]
    BY <1>1, <1>2
  <1>4. chain' \in BoundedSeq([key : Keys, event : AllEvents], MaxEntries)
    BY <1>2, <1>3, BoundedSeqs DEF Entries
  <1>5. TypeOK'
    <2>1. acked' \in Heads /\ recorded' \in Heads
      BY <1>1, EmptyIsHead
    <2>2. JournalTypeOK'
      BY <1>1, <1>4 DEF Inv, TypeOK, JournalTypeOK
    <2> QED
      BY <1>1, <2>1, <2>2 DEF Inv, TypeOK
  <1>6. ProcessInv'
    BY <1>1 DEF Inv, ProcessInv
  <1>7. RotationsMatch'
    <2>1. ASSUME NEW i \in 2 .. Len(chain'), chain'[i].key # chain'[i - 1].key
          PROVE  \E r \in rotations' : RotationProves(r, i)'
      <3>1. i \in 2 .. n /\ i \in 2 .. Len(chain) /\ i \in Nat
        BY <1>1, <1>2, <1>3
      <3>2. chain'[i] = chain[i] /\ chain'[i - 1] = chain[i - 1]
        BY <1>3, <3>1
      <3>3. PICK r \in rotations : RotationProves(r, i)
        BY <2>1, <3>1, <3>2 DEF Inv, ChainInv, RotationsMatch
      <3>4. SubSeq(HeadOf(chain'), 1, i) = SubSeq(HeadOf(chain), 1, i)
        <4>1. i <= Len(chain) /\ i <= Len(chain') /\ \A m \in 1 .. i : chain'[m] = chain[m]
          BY <1>3, <3>1
        <4> QED
          BY <1>2, <1>3, <3>1, <4>1, HeadUpTo
      <3>5. r.first = i /\ RotationProves(r, i)'
        BY <3>2, <3>3, <3>4 DEF RotationProves
      <3>6. r \in rotations'
        BY <1>1, <3>1, <3>3, <3>5
      <3> QED
        BY <3>5, <3>6
    <2>2. ASSUME NEW r \in rotations'
          PROVE  /\ r.first \in 2 .. Len(chain')
                 /\ chain'[r.first].key # chain'[r.first - 1].key
      <3>1. /\ r.first \in 2 .. Len(chain) /\ r.first <= n
            /\ chain[r.first].key # chain[r.first - 1].key
        BY <1>1 DEF Inv, ChainInv, RotationsMatch
      <3> QED
        BY <1>2, <1>3, <3>1
    <2> QED
      BY <2>1, <2>2 DEF RotationsMatch
  <1>8. ~CacheHit'
    <2>1. tail'.head = NoHead
      BY <1>1 DEF Inv, ProcessInv
    <2>2. HeadOf(chain') # NoHead
      <3>1. HeadOf(chain') \in Seq(AllEvents)
        BY <1>3, HeadTyped
      <3> QED
        BY <3>1, NoHeadIsNone
    <2> QED
      BY <2>1, <2>2 DEF CacheHit
  <1>9. ChainInv'
    BY <1>1, <1>7, <1>8 DEF Inv, ChainInv, CacheSound, JournalFaultExplained
  <1>10. PublishInv'
    BY <1>1 DEF PublishInv, NeverBehindCheckpoint, Serves, CleanStopIsPublished
  <1> QED
    BY <1>5, <1>6, <1>9, <1>10 DEF Inv

-----------------------------------------------------------------------------
(* The steps of a process and of its connections *)

LEMMA UnchangedIsQuiet ==
    ASSUME UNCHANGED journalVars
    PROVE  QuietJournal
  BY DEF QuietJournal, journalVars

LEMMA StartupEntryKeeps ==
    ASSUME Inv, NEW e \in Events, StartupEntry(e)
    PROVE  Inv'
  <1>1. CASE CommitEntry(e, FALSE) /\ Records
    BY <1>1, StartupCommitKeeps DEF StartupEntry
  <1>2. CASE RollBackEntry(e) /\ UNCHANGED recorded
    <2>1. QuietJournal
      BY <1>2, RollBackIsQuiet DEF Inv
    <2>2. phase = "opened" /\ UNCHANGED <<processVars, retained, acked, recorded>>
      BY <1>2 DEF StartupEntry
    <2> QED
      BY <2>1, <2>2, PhaseKeeps DEF Inv, TypeOK, Up, processVars
  <1> QED
    BY <1>1, <1>2 DEF StartupEntry

LEMMA SelectRefusedKeeps ==
    ASSUME Inv, SelectRefused
    PROVE  Inv'
  <1>1. /\ phase = "opened" /\ phase' = "waiting" /\ CachedHeadOk
        /\ tail' = TailAfterRead /\ lastVerified' = TRUE
        /\ UNCHANGED <<database, config, touched, exit, accepting, connections, retained, acked, recorded>>
    BY DEF SelectRefused, StoreRejects, StoreFails, history
  <1>2. \/ cause' = Latched("fault")
        \/ cause' = Latched("self_rejected") /\ touched
    BY RejectedWasTouched DEF SelectRefused, Inv
  <1>3. QuietJournal
    BY <1>1, <1>2, ReadTyped DEF Inv, QuietJournal
  <1>4. cause' # "none"
    BY <1>2 DEF Latched, Degraded
  <1> QED
    BY <1>1, <1>3, <1>4, PhaseKeeps DEF Inv, TypeOK, Up

LEMMA SelectUnverifiedKeeps ==
    ASSUME Inv, SelectUnverified
    PROVE  Inv'
  <1>1. /\ phase = "opened" /\ phase' = "waiting" /\ ~CachedHeadOk
        /\ cause' = Latched("journal") /\ lastVerified' \in BOOLEAN
        /\ UNCHANGED <<database, config, tail, touched>>
        /\ UNCHANGED <<exit, accepting, connections, retained, acked, recorded>>
    BY DEF SelectUnverified, history
  <1>2. QuietJournal
    BY <1>1, UnverifiedIsQuiet
  <1>3. cause' # "none"
    BY <1>1 DEF Latched, Degraded
  <1> QED
    BY <1>1, <1>2, <1>3, PhaseKeeps DEF Inv, TypeOK, Up

LEMMA ServingKeeps ==
    ASSUME Inv, Connect \/ SentinelCloses \/ \E e \in Endpoints : StopAccepting(e)
    PROVE  Inv'
  <1>1. /\ UNCHANGED journalVars
        /\ phase \in {"waiting", "serving", "closing"} /\ phase' \in {"serving", "closing"}
        /\ UNCHANGED <<exit, lastVerified, connections, retained, acked, recorded>>
        /\ accepting' \subseteq Endpoints
    BY DEF Inv, TypeOK, Connect, SentinelCloses, StopAccepting, history
  <1>2. QuietJournal
    BY <1>1, UnchangedIsQuiet
  <1> QED
    BY <1>1, <1>2, PhaseKeeps DEF Inv, TypeOK, Up

LEMMA EndKeeps ==
    ASSUME Inv, Crash \/ NoSession \/ ServerFails \/ Stop \/ DrainTimeout
    PROVE  Inv'
  BY EndsKeeps DEF Crash, NoSession, ServerFails, Stop, DrainTimeout

LEMMA UnauditedWriteKeeps ==
    ASSUME Inv, NEW c \in Connections, UnauditedWrite(c)
    PROVE  Inv'
  <1>1. QuietJournal
    BY WriteIsQuiet DEF UnauditedWrite, Inv
  <1>2. phase \in {"serving", "closing"}
    BY BusyIsUp DEF UnauditedWrite
  <1>3. UNCHANGED <<phase, exit, lastVerified, accepting, connections, retained, acked, recorded>>
    BY DEF UnauditedWrite, processVars, history
  <1> QED
    BY <1>1, <1>2, <1>3, PhaseKeeps DEF Inv, TypeOK, Up

LEMMA ReceiveKeeps ==
    ASSUME Inv, NEW c \in Connections, NEW m \in {"read", "mutate"},
           Accept(c) \/ Disconnect(c) \/ Receive(c, m)
    PROVE  Inv'
  <1>1. PICK t \in {[Idle EXCEPT !.at = "accepted"], Idle,
                     [at |-> "dispatching", method |-> m, wrote |-> NoHead]} : To(c, t)
    BY DEF Accept, Disconnect, Receive
  <1>2. t \in Tasks /\ t.wrote = NoHead
    BY DEF Idle, Tasks
  <1>3. /\ UNCHANGED journalVars
        /\ UNCHANGED <<phase, exit, lastVerified, accepting, retained, acked, recorded>>
    BY DEF Accept, Disconnect, Receive, history
  <1>4. phase \in {"serving", "closing"}
    BY BusyIsUp DEF Accept, Disconnect, Receive
  <1>5. ~Unpublished(c)
    BY IdleTyped DEF Unpublished, Accept, Disconnect, Receive
  <1> QED
    BY <1>1, <1>2, <1>3, <1>4, <1>5, UnchangedIsQuiet, TaskKeeps DEF Inv, TypeOK

LEMMA ReceiveBadHeadKeeps ==
    ASSUME Inv, NEW c \in Connections, NEW m \in {"read", "mutate"}, ReceiveBadHead(c, m)
    PROVE  Inv'
  <1> DEFINE t == [at |-> IF m = "read" THEN "dispatching" ELSE "refused",
                   method |-> m, wrote |-> NoHead]
  <1>1. /\ To(c, t) /\ connections[c].at = "accepted" /\ cause' = Latched("fault")
        /\ UNCHANGED <<database, config, tail, touched>>
        /\ UNCHANGED <<phase, exit, lastVerified, accepting, retained, acked, recorded>>
    BY DEF ReceiveBadHead, history
  <1>2. t \in Tasks /\ t.wrote = NoHead
    BY DEF Tasks
  <1> HIDE DEF t
  <1>3. QuietJournal
    BY <1>1 DEF QuietJournal
  <1>4. phase \in {"serving", "closing"} /\ ~Unpublished(c)
    BY <1>1, BusyIsUp DEF Unpublished
  <1> QED
    BY <1>1, <1>2, <1>3, <1>4, TaskKeeps DEF Inv, TypeOK

\* A transaction that commits nothing, of a request or of an admin command.
LEMMA FailEntryIsQuiet ==
    ASSUME Inv, NEW e \in Events, FailEntry(e), phase # "down"
    PROVE  QuietJournal
  <1>1. CASE RollBackEntry(e)
    BY <1>1, RollBackIsQuiet DEF Inv
  <1>2. CASE FailAppend
    BY <1>2, FailAppendIsQuiet DEF Inv
  <1>3. CASE RefuseMutation
    BY <1>3, UnverifiedIsQuiet DEF RefuseMutation
  <1>4. CASE RefuseDegraded
    BY <1>4, UnchangedIsQuiet DEF RefuseDegraded
  <1> QED
    BY <1>1, <1>2, <1>3, <1>4 DEF FailEntry

LEMMA FailedMutationKeeps ==
    ASSUME Inv, NEW c \in Connections, NEW e \in Events, FailedMutation(c, e)
    PROVE  Inv'
  <1> DEFINE t == [connections[c] EXCEPT !.at = "refused"]
  <1>1. /\ To(c, t) /\ Dispatching(c)
        /\ UNCHANGED <<phase, exit, lastVerified, accepting, retained, acked, recorded>>
    BY DEF FailedMutation, history
  <1>2. /\ t \in Tasks /\ t.at = "refused" /\ t.method = "mutate"
        /\ t.wrote = connections[c].wrote
    BY <1>1 DEF Dispatching, Inv, TypeOK, Tasks
  <1> HIDE DEF t
  <1>3. phase \in {"serving", "closing"}
    BY <1>1, BusyIsUp DEF Dispatching
  <1>4. QuietJournal
    BY <1>3, FailEntryIsQuiet DEF FailedMutation
  <1> QED
    BY <1>1, <1>2, <1>3, <1>4, TaskKeeps DEF Inv, TypeOK

\* An admin command lengthens the journal past the published head; what a start or
\* a mutation recorded stays before it.
LEMMA AdministerKeeps ==
    ASSUME Inv, NEW e \in Events, Administer(e)
    PROVE  Inv'
  <1>1. /\ phase \in {"serving", "closing"}
        /\ UNCHANGED <<phase, exit, lastVerified, accepting, connections, retained>>
        /\ UNCHANGED <<acked, recorded>>
    BY DEF Administer, processVars, history
  <1>2. CASE CommitEntry(e, FALSE)
    <2>1. /\ CachedHeadOk /\ cause = "none" /\ Len(chain) < MaxEntries
          /\ chain' = Append(chain, [key |-> config.current, event |-> e])
          /\ UNCHANGED <<cause, touched>>
      BY <1>2 DEF CommitEntry, MutationAllowed, Degraded
    <2>2. JournalTypeOK' /\ ChainInv'
      BY <1>1, <1>2, CommitKeepsJournal DEF Inv
    <2>3. /\ HeadOf(chain') = Append(HeadOf(chain), e) /\ e \in AllEvents
          /\ Len(chain') = Len(chain) + 1
      BY <2>1, AppendedTyped DEF Inv
    <2>4. TypeOK' /\ ProcessInv'
      BY <1>1, <2>2 DEF Inv, TypeOK, ProcessInv
    <2>5. ~touched => AnswersInv'
      <3> SUFFICES ASSUME ~touched, NEW d \in Connections, connections[d].wrote # NoHead
                   PROVE  /\ cause' # "journal"
                          /\ IsPrefix(connections[d].wrote, HeadOf(chain'))
                          /\ connections[d].at = "sending"
                                => IsPrefix(connections[d].wrote, retained')
        BY <1>1 DEF AnswersInv
      <3>1. /\ connections[d].wrote \in Seq(AllEvents)
            /\ IsPrefix(connections[d].wrote, HeadOf(chain))
            /\ connections[d].at = "sending" => IsPrefix(connections[d].wrote, retained)
        BY Typed DEF Inv, PublishInv, AnswersInv
      <3> QED
        BY <1>1, <2>1, <2>3, <3>1, LongerChain DEF Inv
    <2>6. ~touched => IsPrefix(retained, HeadOf(chain')) /\ IsPrefix(recorded, HeadOf(chain'))
      BY <2>3, Typed, LongerChain DEF Inv, PublishInv
    <2>7. NeverBehindCheckpoint'
      <3>1. Len(chain) >= Len(retained)
        BY <1>1, <2>1, Typed DEF Inv, PublishInv, NeverBehindCheckpoint, Serves, Degraded
      <3>2. Len(chain) \in Nat /\ Len(retained) \in Nat
        BY Typed DEF Inv
      <3> QED
        BY <1>1, <2>3, <3>1, <3>2 DEF NeverBehindCheckpoint
    <2>8. CleanStopIsPublished'
      BY <1>1 DEF CleanStopIsPublished
    <2>9. Serves' /\ ~Degraded' /\ ~touched' =>
              IsPrefix(recorded', retained') \/ \E d \in Connections : Unpublished(d)'
      BY <1>1, <2>1 DEF Inv, PublishInv, Serves, Degraded, Unpublished
    <2>10. PublishInv'
      BY <1>1, <2>1, <2>5, <2>6, <2>7, <2>8, <2>9 DEF Inv, PublishInv
    <2> QED
      BY <2>2, <2>4, <2>10 DEF Inv
  <1>3. CASE FailEntry(e)
    BY <1>1, <1>3, FailEntryIsQuiet, PhaseKeeps DEF Inv, TypeOK, Up
  <1> QED
    BY <1>2, <1>3 DEF Administer

\* The answer to a request.
LEMMA ReplyTyped ==
    ASSUME TypeOK, NEW c \in Connections, NEW w \in {connections[c].wrote, NoHead}
    PROVE  Reply(w) \in Tasks /\ Reply(w).at = "sending" /\ Reply(w).wrote = w
  BY DEF TypeOK, Reply, Tasks

LEMMA AnsweringUp ==
    ASSUME Inv, NEW c \in Connections, Answering(c)
    PROVE  /\ phase \in {"serving", "closing"}
           /\ connections[c].method # "mutate" => connections[c].wrote = NoHead
           /\ UNCHANGED <<phase, exit, accepting, acked, recorded>>
  BY BusyIsUp DEF Answering, Inv, ProcessInv, history

LEMMA AnswerControlReadKeeps ==
    ASSUME Inv, NEW c \in Connections, AnswerControlRead(c)
    PROVE  Inv'
  <1> DEFINE w == connections[c].wrote
             t == Reply(w)
  <1>1. /\ To(c, t) /\ Answering(c) /\ connections[c].method # "mutate"
        /\ UNCHANGED journalVars /\ UNCHANGED <<lastVerified, retained>>
    BY DEF AnswerControlRead, Publishes
  <1>2. w = NoHead
    BY <1>1, AnsweringUp
  <1>3. t \in Tasks /\ t.at = "sending" /\ t.wrote = NoHead
    BY <1>2, ReplyTyped DEF Inv
  <1> HIDE DEF t
  <1>4. QuietJournal /\ ~Unpublished(c)
    BY <1>1, UnchangedIsQuiet DEF Unpublished
  <1> QED
    BY <1>1, <1>3, <1>4, AnsweringUp, TaskKeeps DEF Inv, TypeOK

LEMMA PublishRefusedKeeps ==
    ASSUME Inv, NEW c \in Connections, PublishRefused(c)
    PROVE  Inv'
  <1> DEFINE w == IF AnswersAnyway(c) THEN connections[c].wrote ELSE NoHead
             t == Reply(w)
  <1>1. /\ To(c, t) /\ Answering(c) /\ CachedHeadOk
        /\ tail' = TailAfterRead /\ lastVerified' = TRUE
        /\ UNCHANGED <<database, config, touched, retained>>
    BY DEF PublishRefused, StoreRejects, StoreFails
  <1>2. \/ cause' = Latched("fault")
        \/ cause' = Latched("self_rejected") /\ touched
    BY RejectedWasTouched DEF PublishRefused, PublishedHead, Inv
  <1>3. w = NoHead
    BY <1>1, AnsweringUp DEF AnswersAnyway
  <1>4. t \in Tasks /\ t.at = "sending" /\ t.wrote = NoHead
    BY <1>3, ReplyTyped DEF Inv
  <1> HIDE DEF t
  <1>5. QuietJournal
    BY <1>1, <1>2, ReadTyped DEF Inv, QuietJournal
  <1>6. cause' # "none"
    BY <1>2 DEF Latched, Degraded
  <1> QED
    BY <1>1, <1>4, <1>5, <1>6, AnsweringUp, TaskKeeps DEF Inv, TypeOK

\* The last verified head is answered for a mutation only if another hand
\* touched the database: a process that opened an unverified journal has
\* written nothing.
LEMMA PublishUnverifiedKeeps ==
    ASSUME Inv, NEW c \in Connections, PublishUnverified(c)
    PROVE  Inv'
  <1> DEFINE w == IF lastVerified THEN connections[c].wrote ELSE NoHead
             t == Reply(w)
  <1>1. /\ To(c, t) /\ Answering(c) /\ ~CachedHeadOk /\ cause' = Latched("journal")
        /\ UNCHANGED <<database, config, tail, touched>>
        /\ UNCHANGED <<lastVerified, retained>>
    BY DEF PublishUnverified
  <1>2. phase \in {"serving", "closing"}
    BY <1>1, AnsweringUp
  <1>3. QuietJournal
    BY <1>1, <1>2, UnverifiedIsQuiet
  <1>4. cause' # "none"
    BY <1>1 DEF Latched, Degraded
  <1>5. ~touched => cause = "journal"
    BY <1>1, <1>2 DEF CachedHeadOk, Inv, ChainInv
  <1>6. ~touched => connections[c].wrote = NoHead
    BY <1>5 DEF Inv, PublishInv, AnswersInv
  <1>7. w \in {connections[c].wrote, NoHead} /\ (w # NoHead => w = connections[c].wrote /\ touched)
    BY <1>6
  <1>8. t \in Tasks /\ t.at = "sending" /\ t.wrote = w
    BY <1>7, ReplyTyped DEF Inv
  <1> HIDE DEF t, w
  <1> QED
    BY <1>1, <1>2, <1>3, <1>4, <1>7, <1>8, AnsweringUp, TaskKeeps DEF Inv, TypeOK

LEMMA SendKeeps ==
    ASSUME Inv, NEW c \in Connections, Send(c)
    PROVE  Inv'
  <1>1. /\ connections[c].at = "sending" /\ To(c, Idle) /\ UNCHANGED journalVars
        /\ UNCHANGED <<phase, exit, lastVerified, accepting, retained, recorded>>
        /\ acked' = acked \/ (acked' = connections[c].wrote /\ ~touched /\ acked' # NoHead)
    BY DEF Send
  <1>2. acked' = acked \/ (acked' \in Heads /\ ~touched /\ IsPrefix(acked', retained))
    BY <1>1 DEF Inv, TypeOK, PublishInv, AnswersInv
  <1>3. phase \in {"serving", "closing"} /\ ~Unpublished(c)
    BY <1>1, BusyIsUp DEF Unpublished
  <1> QED
    BY <1>1, <1>2, <1>3, UnchangedIsQuiet, IdleTyped, TaskKeeps DEF Inv, TypeOK

-----------------------------------------------------------------------------
(* The theorems *)

LEMMA InvInit ==
    ASSUME Init
    PROVE  Inv
  <1> USE JournalAssumption
  <1>1. /\ chain = <<>> /\ rotations = {} /\ altered = FALSE /\ config \in Configs
        /\ cause = "none" /\ tail = NoTail /\ touched = FALSE
        /\ phase = "down" /\ exit = "none" /\ lastVerified = FALSE /\ accepting = {}
        /\ connections = [c \in Connections |-> Idle] /\ retained = <<>> /\ acked = <<>>
        /\ recorded = <<>>
    BY DEF Init, JournalInit
  <1>2. chain \in Seq(Entries) /\ Len(chain) = 0 /\ Len(chain) <= MaxEntries
    BY <1>1
  <1>3. chain \in BoundedSeq([key : Keys, event : AllEvents], MaxEntries)
    BY <1>2, BoundedSeqs DEF Entries
  <1>4. NoTail \in Tails /\ NoTail.head = NoHead
    BY DEF NoTail, Tails
  <1>5. /\ connections \in [Connections -> Tasks]
        /\ \A c \in Connections : connections[c] = Idle /\ connections[c].wrote = NoHead
    BY <1>1, IdleTyped
  <1>6. TypeOK
    <2>1. JournalTypeOK
      BY <1>1, <1>3, <1>4 DEF JournalTypeOK, Tails, Causes
    <2>2. retained \in Heads /\ acked \in Heads /\ recorded \in Heads
      BY <1>1, EmptyIsHead
    <2> QED
      BY <1>1, <1>5, <2>1, <2>2 DEF TypeOK, Tasks
  <1>7. ProcessInv
    BY <1>1, <1>4, <1>5 DEF ProcessInv
  <1>8. ChainInv
    <2>1. ~CacheHit
      BY <1>1, <1>4, <1>6, Typed DEF CacheHit
    <2>2. RotationsMatch
      BY <1>1, <1>2 DEF RotationsMatch
    <2> QED
      BY <1>1, <2>1, <2>2 DEF ChainInv, CacheSound, JournalFaultExplained
  <1>9. HeadOf(chain) = <<>>
    <2>1. HeadOf(chain) \in Seq(AllEvents) /\ Len(HeadOf(chain)) = 0
      BY <1>2, HeadTyped
    <2> QED
      BY <2>1
  <1>10. /\ IsPrefix(retained, HeadOf(chain)) /\ IsPrefix(acked, retained)
         /\ IsPrefix(recorded, HeadOf(chain))
    BY <1>1, <1>6, <1>9, Typed, PrefixReflexive
  <1>11. PublishInv
    BY <1>1, <1>5, <1>10
    DEF PublishInv, NeverBehindCheckpoint, Serves, AnswersInv, CleanStopIsPublished
  <1> QED
    BY <1>6, <1>7, <1>8, <1>11 DEF Inv

LEMMA InvNext ==
    ASSUME Inv, Next
    PROVE  Inv'
  <1>1. CASE \E c \in Configs : Start(c)
    BY <1>1, StartKeeps
  <1>2. CASE \E e \in Events : StartupEntry(e) \/ RepairClock(e)
    BY <1>2, StartupEntryKeeps, RepairClockKeeps
  <1>3. CASE SelectAccepted \/ SelectRefused \/ SelectUnverified
    BY <1>3, SelectAcceptedKeeps, SelectRefusedKeeps, SelectUnverifiedKeeps
  <1>4. CASE Connect \/ SentinelCloses \/ \E e \in Endpoints : StopAccepting(e)
    BY <1>4, ServingKeeps
  <1>5. CASE Crash \/ NoSession \/ ServerFails \/ Stop \/ DrainTimeout
    BY <1>5, EndKeeps
  <1>6. ASSUME NEW c \in Connections,
               \/ Accept(c) \/ Disconnect(c)
               \/ \E m \in {"read", "mutate"} : Receive(c, m) \/ ReceiveBadHead(c, m)
        PROVE  Inv'
    BY <1>6, ReceiveKeeps, ReceiveBadHeadKeeps
  <1>7. ASSUME NEW c \in Connections,
               \E e \in Events :
                  (\E more \in BOOLEAN : Mutate(c, e, more)) \/ FailedMutation(c, e)
        PROVE  Inv'
    BY <1>7, MutateKeeps, FailedMutationKeeps
  <1>8. ASSUME NEW c \in Connections,
               \/ UnauditedWrite(c) \/ AnswerControlRead(c) \/ Publish(c)
               \/ PublishRefused(c) \/ PublishUnverified(c) \/ Send(c)
        PROVE  Inv'
    BY <1>8, UnauditedWriteKeeps, AnswerControlReadKeeps, PublishKeeps, PublishRefusedKeeps,
       PublishUnverifiedKeeps, SendKeeps
  <1>9. CASE AnotherConnection \/ \E n \in 0 .. MaxEntries - 1 : OldDatabase(n)
    BY <1>9, AnotherConnectionKeeps, OldDatabaseKeeps
  <1>10. CASE \E e \in Events : Administer(e)
    BY <1>10, AdministerKeeps
  <1> QED
    BY <1>1, <1>2, <1>3, <1>4, <1>5, <1>6, <1>7, <1>8, <1>9, <1>10 DEF Next

LEMMA InvStutter ==
    ASSUME Inv, UNCHANGED vars
    PROVE  Inv'
  <1>1. /\ UNCHANGED <<chain, rotations, altered, config, cause, tail, touched>>
        /\ UNCHANGED <<phase, exit, lastVerified, accepting, connections, retained, acked, recorded>>
    BY DEF vars, journalVars, database, processVars, history
  <1>2. TypeOK' /\ ProcessInv'
    BY <1>1 DEF Inv, TypeOK, JournalTypeOK, ProcessInv
  <1>3. QuietJournal
    BY UnchangedIsQuiet DEF vars
  <1>4. ChainInv'
    <2>1. CacheHit' => ChainVerifies
      BY <1>1 DEF Inv, ChainInv, CacheSound, CacheHit
    <2>2. ChainVerifies' <=> ChainVerifies
      BY <1>1 DEF ChainVerifies, Verifies, RotationProves
    <2>3. RotationsMatch'
      BY <1>1 DEF Inv, ChainInv, RotationsMatch, RotationProves
    <2> QED
      BY <1>1, <2>1, <2>2, <2>3 DEF Inv, ChainInv, CacheSound, JournalFaultExplained
  <1>5. PublishInv'
    BY <1>1 DEF Inv, PublishInv, NeverBehindCheckpoint, Serves, Degraded, AnswersInv,
       Unpublished, CleanStopIsPublished
  <1> QED
    BY <1>2, <1>4, <1>5 DEF Inv

\* The inductive invariant of the process, its journal and the checkpoint store
\* holds over starts, rotations, concurrent requests, crashes and other hands.
THEOREM SessionInvariant == Spec => []Inv
  <1>1. Init => Inv
    BY InvInit
  <1>2. Inv /\ [Next]_vars => Inv'
    BY InvNext, InvStutter
  <1> QED
    BY <1>1, <1>2, PTL DEF Spec

\* Every variable of the journal and of the process keeps its type.
THEOREM TypeCorrect == Spec => []TypeOK
  <1>1. Inv => TypeOK
    BY DEF Inv
  <1> QED
    BY <1>1, SessionInvariant, PTL

\* cached_audit_head never answers for a chain that verify_audit_chain would
\* refuse.
THEOREM CacheNeverHides == Spec => []CacheSound
  <1>1. Inv => CacheSound
    BY DEF Inv, ChainInv
  <1> QED
    BY <1>1, SessionInvariant, PTL

\* The latch closes on the journal's account only after another hand wrote to
\* the database, or under a configuration that lacks a key of the chain.
THEOREM FaultsExplained == Spec => []JournalFaultExplained
  <1>1. Inv => JournalFaultExplained
    BY DEF Inv, ChainInv
  <1> QED
    BY <1>1, SessionInvariant, PTL

\* A Signer that serves mutations is never behind the head it published, whatever
\* copy of the database it was started on.
THEOREM ServesUpToDate == Spec => []NeverBehindCheckpoint
  <1>1. Inv => NeverBehindCheckpoint
    BY DEF Inv, PublishInv
  <1> QED
    BY <1>1, SessionInvariant, PTL

\* response_journal_head publishes a mutation of the rpc or control endpoint before
\* its answer is sent, for any number of concurrent connections and whatever admin
\* commands commit unpublished meanwhile.
THEOREM AnswersCheckpointed == Spec => []AcknowledgedIsCheckpointed
  <1>1. Inv => AcknowledgedIsCheckpointed
    BY DEF Inv, PublishInv, AcknowledgedIsCheckpointed
  <1> QED
    BY <1>1, SessionInvariant, PTL

\* drain_connections lets the process end cleanly only when every entry that the
\* start or a request of rpc or control left has been published; an admin command
\* after the last publication is not.
THEOREM CleanStopPublished == Spec => []CleanStopIsPublished
  <1>1. Inv => CleanStopIsPublished
    BY DEF Inv, PublishInv
  <1> QED
    BY <1>1, SessionInvariant, PTL
=============================================================================
