--------------------------- MODULE Pairing_proofs ---------------------------
(***************************************************************************)
(* Proofs about the exposure surface and cross-surface pairing, for any    *)
(* wallets, credentials, pairings, limits and bounds.                      *)
(***************************************************************************)
EXTENDS Pairing, FiniteSetTheorems, TLAPS

-----------------------------------------------------------------------------
(* The exposure surface *)

\* A step of the surface: a change by the administrator or the Broker, a restart,
\* or none.
SurfaceStep ==
    \/ InstallRemote
    \/ \E mode \in Modes, mayClose \in BOOLEAN : SetExposureMode(mode, mayClose)
    \/ \E revision \in 0 .. status.desiredRevision, report \in Reports :
          ReportEffective(revision, report)
    \/ Restarted
    \/ UNCHANGED surfaceVars

\* Every step of the system is a step of the surface.
LEMMA NextIsSurfaceStep ==
    ASSUME [Next]_vars
    PROVE  SurfaceStep
  <1>1. CASE Administer
    <2>1. MayClose \in BOOLEAN
      BY DEF MayClose
    <2> QED
      BY <1>1, <2>1 DEF Administer, SurfaceStep
  <1>2. CASE Restart
    BY <1>2 DEF Restart, SurfaceStep
  <1>3. CASE Custody
    BY <1>3 DEF Custody, Approve, RevokeWallet, RegisterWallet, Recover,
       ChangeCredential, RemoveCredential, SurfaceStep
  <1>4. CASE Pair
    <2> USE DEF pairingFrame
    <2>1. ASSUME NEW p \in Pairings,
                 PairStart(p) \/ AlreadyRegistered(p) \/ Cancel(p) \/ Deadline(p)
          PROVE  UNCHANGED surfaceVars
      BY <2>1 DEF PairStart, AlreadyRegistered, Cancel, Deadline
    <2>2. ASSUME NEW p \in Pairings, NEW w \in Wallets, NEW s \in Surfaces,
                 PrepareSource(p, w, s)
          PROVE  UNCHANGED surfaceVars
      BY <2>2 DEF PrepareSource
    <2>3. ASSUME NEW p \in Pairings, NEW c \in Credentials,
                 CompleteSource(p, c) \/ CompleteDestination(p, c)
          PROVE  UNCHANGED surfaceVars
      BY <2>3 DEF CompleteSource, CompleteDestination
    <2>4. ASSUME NEW p \in Pairings, NEW used \in BOOLEAN,
                 FailSource(p, used) \/ FailDestination(p, used)
          PROVE  UNCHANGED surfaceVars
      BY <2>4 DEF FailSource, FailDestination
    <2>5. ASSUME ExpireTick
          PROVE  UNCHANGED surfaceVars
      BY <2>5 DEF ExpireTick
    <2> QED
      BY <1>4, <2>1, <2>2, <2>3, <2>4, <2>5 DEF Pair, SurfaceStep
  <1>5. CASE UNCHANGED vars
    BY <1>5 DEF vars, surfaceVars, SurfaceStep
  <1> QED
    BY <1>1, <1>2, <1>3, <1>4, <1>5 DEF Next

\* A report yields a status.
LEMMA ReportedTyped ==
    ASSUME SurfaceTypeOK, NEW report \in [tls : BOOLEAN, routing : BOOLEAN, closed : BOOLEAN]
    PROVE  Reported(report) \in Statuses
  BY DEF SurfaceTypeOK, Statuses, Modes, Reported, Up, Closed

\* The surface keeps its type.
LEMMA SurfaceTyped ==
    ASSUME SurfaceTypeOK, SurfaceStep
    PROVE  SurfaceTypeOK'
  <1>1. CASE InstallRemote
    BY <1>1 DEF InstallRemote, SurfaceTypeOK, Statuses
  <1>2. CASE \E mode \in Modes, mayClose \in BOOLEAN : SetExposureMode(mode, mayClose)
    <2> PICK mode \in Modes, mayClose \in BOOLEAN : SetExposureMode(mode, mayClose)
      BY <1>2
    <2>1. Closed(status) \in {"absent", "disabled", "active"}
      BY DEF Closed
    <2>2. NextRevision(status) \in 0 .. MaxRevision
      BY SurfaceAssumption DEF SetExposureMode, NextRevision, SurfaceTypeOK, Statuses
    <2>3. status' \in Statuses
      BY <2>1, <2>2 DEF SetExposureMode, SurfaceTypeOK, Statuses
    <2> QED
      BY <2>3 DEF SetExposureMode, SurfaceTypeOK
  <1>3. CASE \E revision \in 0 .. status.desiredRevision, report \in Reports :
                ReportEffective(revision, report)
    <2> PICK revision \in 0 .. status.desiredRevision, report \in Reports :
                ReportEffective(revision, report)
      BY <1>3
    <2>1. report \in [tls : BOOLEAN, routing : BOOLEAN, closed : BOOLEAN]
      BY SurfaceAssumption
    <2>2. status' \in Statuses
      BY <2>1, ReportedTyped DEF ReportEffective
    <2>3. revision \in 0 .. MaxRevision
      BY SurfaceAssumption DEF SurfaceTypeOK, Statuses
    <2> QED
      BY <2>2, <2>3 DEF ReportEffective, SurfaceTypeOK
  <1>4. CASE Restarted
    <2>1. Fenced \in Statuses
      BY ReportedTyped DEF Fenced, SurfaceTypeOK
    <2> QED
      BY <1>4, <2>1 DEF Restarted, SurfaceTypeOK
  <1>5. CASE UNCHANGED surfaceVars
    BY <1>5 DEF surfaceVars, SurfaceTypeOK
  <1> QED
    BY <1>1, <1>2, <1>3, <1>4, <1>5 DEF SurfaceStep

\* The two properties of the surface are inductive once it is known that an
\* active surface is also recorded as in effect (so that a restart fences it),
\* and that no report is about a later revision than the desired one.
SurfaceInv ==
    /\ SurfaceTypeOK
    /\ RemoteIsProven
    /\ ConfirmedModeIsReal
    /\ status.lifecycle = "active" => status.effective = "remote"
    /\ status.effectiveRevision <= status.desiredRevision

LEMMA SurfaceInvInit ==
    ASSUME Init
    PROVE  SurfaceInv
  BY SurfaceAssumption DEF Init, SurfaceInit, SurfaceInv, SurfaceTypeOK, Statuses, Modes,
     Unproven, RemoteIsProven, ConfirmedModeIsReal

LEMMA SurfaceInvStep ==
    ASSUME SurfaceInv, SurfaceStep
    PROVE  SurfaceInv'
  <1> USE DEF RemoteIsProven, ConfirmedModeIsReal
  <1>0. SurfaceTypeOK'
    BY SurfaceTyped DEF SurfaceInv
  <1>1. CASE InstallRemote
    BY <1>0, <1>1 DEF InstallRemote, SurfaceInv, SurfaceTypeOK, Statuses
  <1>2. CASE \E mode \in Modes, mayClose \in BOOLEAN : SetExposureMode(mode, mayClose)
    BY <1>0, <1>2 DEF SetExposureMode, NextRevision, Closed, SurfaceInv, SurfaceTypeOK,
       Statuses, Modes
  <1>3. CASE \E revision \in 0 .. status.desiredRevision, report \in Reports :
                ReportEffective(revision, report)
    BY <1>0, <1>3 DEF ReportEffective, CurrentRevision, Reported, Up, Closed, SurfaceInv,
       SurfaceTypeOK, Statuses, Modes
  <1>4. CASE Restarted
    BY <1>0, <1>4 DEF Restarted, Fenced, Reported, Up, Closed, SurfaceInv,
       SurfaceTypeOK, Statuses, Modes, Unproven
  <1>5. CASE UNCHANGED surfaceVars
    BY <1>0, <1>5 DEF surfaceVars, SurfaceInv
  <1> QED
    BY <1>1, <1>2, <1>3, <1>4, <1>5 DEF SurfaceStep

\* Every reachable state satisfies the surface's inductive invariant.
THEOREM SurfaceSafe == Spec => []SurfaceInv
  <1>1. Init => SurfaceInv
    BY SurfaceInvInit
  <1>2. SurfaceInv /\ [Next]_vars => SurfaceInv'
    BY SurfaceInvStep, NextIsSurfaceStep
  <1> QED
    BY <1>1, <1>2, PTL DEF Spec

\* The remote surface is open only while the administrator wants it and the
\* Broker has proved it up to this process at this revision, over any number of
\* restarts, commands and delayed reports.
THEOREM RemoteStaysFenced == Spec => []RemoteIsProven
  <1>1. SurfaceInv => RemoteIsProven
    BY DEF SurfaceInv
  <1> QED
    BY <1>1, SurfaceSafe, PTL

\* The mode that the administration tool reports as confirmed is the one the
\* surface has.
THEOREM ConfirmationIsTrue == Spec => []ConfirmedModeIsReal
  <1>1. SurfaceInv => ConfirmedModeIsReal
    BY DEF SurfaceInv
  <1> QED
    BY <1>1, SurfaceSafe, PTL

-----------------------------------------------------------------------------
(* Pairings *)

\* What is true of a live pairing and the outcome of its operation: the passkeys
\* it offers are the source's of its wallet, the one that approved is among them
\* and has used up the source's recipient key, and success took the secrets.
PairFacts(pair, result) ==
    /\ pair \in Pairs
    /\ result \in {"none", "succeeded"}
    /\ pair.wallet # None =>
          /\ pair.source # None
          /\ \A c \in pair.credentials :
                WalletOf[c] = pair.wallet /\ SurfaceOf[c] = pair.source
    /\ pair.approver # None =>
          pair.wallet # None /\ pair.approver \in pair.credentials /\ ~ pair.sourceRecipient
    /\ result = "succeeded" =>
          pair.approver # None /\ ~ pair.unlocked /\ ~ pair.capability

PairsInv ==
    /\ TypeOK
    /\ \A p \in Pairings : Live(p) => PairFacts(pairs[p], outcome[p])

AnyPairs == [Pairings -> Pairs \union {NoPair}]

\* pairs may change in this way: the pairing of p into one that satisfies its
\* facts, the others only by being dropped.
PairChange(p) ==
    /\ pairs' \in AnyPairs
    /\ outcome' \in [Pairings -> {"none", "succeeded", "already_registered", "cancelled"}]
    /\ \A q \in Pairings \ {p} : pairs'[q] \in {pairs[q], NoPair} /\ outcome'[q] = outcome[q]
    /\ Live(p)' => PairFacts(pairs'[p], outcome'[p])

LEMMA NoPairIsNone ==
    /\ NoPair.stage = "none"
    /\ NoPair \notin Pairs
    /\ \A pair \in Pairs : pair.stage = "live"
  BY DEF NoPair, Pairs

LEMMA RetainedTyped ==
    ASSUME TypeOK
    PROVE  Retained \in AnyPairs
  BY DEF TypeOK, Retained, AnyPairs

\* An attempt is counted within the limit.
LEMMA TriedFacts ==
    ASSUME PairsInv, NEW p \in Pairings, Live(p), ~ Spent(p)
    PROVE  /\ PairFacts(Tried(p), outcome[p])
           /\ pairs[p] \in Pairs
           /\ Tried(p) = [pairs[p] EXCEPT !.attempts = pairs[p].attempts + 1]
  <1>1. pairs[p] \in Pairs /\ PairFacts(pairs[p], outcome[p])
    BY DEF PairsInv, PairFacts
  <1>2. pairs[p].attempts + 1 \in 0 .. MaxAttempts
    BY <1>1, PairingAssumption DEF Spent, Pairs
  <1>3. Tried(p) \in Pairs
    BY <1>1, <1>2 DEF Tried, Pairs
  <1> QED
    BY <1>1, <1>3 DEF Tried, PairFacts, Pairs

LEMMA NewPairFacts ==
    ASSUME NEW result, result = "none"
    PROVE  PairFacts(NewPair, result)
  <1>1. NewPair \in Pairs
    BY PairingAssumption DEF NewPair, Pairs
  <1> QED
    BY <1>1 DEF PairFacts, NewPair

LEMMA PairStartChange ==
    ASSUME PairsInv, NEW p \in Pairings, PairStart(p)
    PROVE  PairChange(p)
  <1> DEFINE unexpired == [q \in Pairings |->
                             IF Live(q) /\ pairs[q].expired THEN NoPair ELSE pairs[q]]
  <1>1. pairs' = [unexpired EXCEPT ![p] = NewPair] /\ outcome' = outcome /\ outcome[p] = "none"
    BY DEF PairStart, Unopened
  <1>2. PairFacts(NewPair, "none") /\ NewPair \in Pairs
    BY NewPairFacts DEF PairFacts
  <1>3. unexpired \in AnyPairs /\ \A q \in Pairings : unexpired[q] \in {pairs[q], NoPair}
    BY DEF PairsInv, TypeOK, AnyPairs
  <1> HIDE DEF unexpired
  <1> QED
    BY <1>1, <1>2, <1>3 DEF PairChange, PairsInv, TypeOK, AnyPairs

LEMMA PrepareSourceChange ==
    ASSUME PairsInv, NEW p \in Pairings, NEW w \in Wallets, NEW s \in Surfaces,
           PrepareSource(p, w, s)
    PROVE  PairChange(p)
  <1> DEFINE pair == [pairs[p] EXCEPT
                        !.wallet = w, !.source = s, !.generation = generation[w],
                        !.credentials = ActiveOn(w, s),
                        !.existing = ActiveOn(w, DestinationOf[p]) # {},
                        !.sourceRecipient = TRUE, !.destinationRecipient = TRUE]
  <1>1. PairFacts(pairs[p], outcome[p]) /\ pairs[p].wallet = None
    BY DEF PrepareSource, PairsInv
  <1>2. generation[w] \in 0 .. MaxGeneration
    BY DEF PairsInv, TypeOK
  <1>3. /\ ActiveOn(w, s) \in SUBSET Credentials
        /\ \A c \in ActiveOn(w, s) : WalletOf[c] = w /\ SurfaceOf[c] = s
    BY DEF ActiveOn, Active
  <1>4. pair \in Pairs
    BY <1>1, <1>2, <1>3 DEF PairFacts, Pairs
  <1>5. pairs[p].approver = None /\ outcome[p] = "none"
    BY <1>1 DEF PairFacts
  <1>6. /\ pair.wallet = w /\ pair.source = s /\ pair.credentials = ActiveOn(w, s)
        /\ pair.approver = None
    BY <1>1, <1>5 DEF PairFacts, Pairs
  <1>7. s # None
    BY PairingAssumption
  <1>8. PairFacts(pair, outcome[p])
    <2> HIDE DEF pair
    <2> QED
      BY <1>3, <1>4, <1>5, <1>6, <1>7 DEF PairFacts
  <1>9. pairs' = [pairs EXCEPT ![p] = pair] /\ outcome' = outcome
    BY DEF PrepareSource
  <1> HIDE DEF pair
  <1> QED
    BY <1>4, <1>8, <1>9 DEF PairChange, PairsInv, TypeOK, AnyPairs

LEMMA CompleteSourceChange ==
    ASSUME PairsInv, NEW p \in Pairings, NEW c \in Credentials, CompleteSource(p, c)
    PROVE  PairChange(p)
  <1> DEFINE pair == [Tried(p) EXCEPT !.sourceRecipient = FALSE, !.approver = c,
                                      !.unlocked = TRUE, !.capability = TRUE]
  <1>1. PairFacts(Tried(p), outcome[p]) /\ Tried(p).wallet # None
        /\ c \in Tried(p).credentials /\ Tried(p).sourceRecipient
    BY TriedFacts DEF CompleteSource, SourceAdmitted, Prepared, Pairs
  <1>2. outcome[p] = "none"
    BY <1>1 DEF PairFacts
  <1>3. PairFacts(pair, outcome[p]) /\ pair \in Pairs
    BY <1>1, <1>2 DEF PairFacts, Pairs
  <1>4. pairs' = [Retained EXCEPT ![p] = pair] /\ outcome' = outcome
    BY DEF CompleteSource
  <1> HIDE DEF pair
  <1> QED
    BY <1>3, <1>4, RetainedTyped DEF PairChange, PairsInv, TypeOK, AnyPairs, Retained

LEMMA FailSourceChange ==
    ASSUME PairsInv, NEW p \in Pairings, NEW used \in BOOLEAN, FailSource(p, used)
    PROVE  PairChange(p)
  <1> DEFINE pair == [Tried(p) EXCEPT !.sourceRecipient = Tried(p).sourceRecipient /\ ~ used]
  <1>1. PairFacts(Tried(p), outcome[p])
    BY TriedFacts DEF FailSource
  <1>2. PairFacts(pair, outcome[p]) /\ pair \in Pairs
    BY <1>1 DEF PairFacts, Pairs
  <1>3. pairs' = [Retained EXCEPT ![p] = pair] /\ outcome' = outcome
    BY DEF FailSource
  <1> HIDE DEF pair
  <1> QED
    BY <1>2, <1>3, RetainedTyped DEF PairChange, PairsInv, TypeOK, AnyPairs, Retained

LEMMA CompleteDestinationChange ==
    ASSUME PairsInv, NEW p \in Pairings, NEW c \in Credentials, CompleteDestination(p, c)
    PROVE  PairChange(p)
  <1> DEFINE pair == AfterSuccess(Tried(p))
  <1>1. PairFacts(Tried(p), outcome[p]) /\ Tried(p).approver # None
    BY TriedFacts DEF CompleteDestination, DestinationAdmitted, ApproverStands, Pairs
  <1>2. PairFacts(pair, "succeeded") /\ pair \in Pairs
    BY <1>1 DEF AfterSuccess, PairFacts, Pairs
  <1>3. /\ pairs' = [Retained EXCEPT ![p] = pair]
        /\ outcome' = [outcome EXCEPT ![p] = "succeeded"]
    BY DEF CompleteDestination
  <1> HIDE DEF pair
  <1> QED
    BY <1>2, <1>3, RetainedTyped DEF PairChange, PairsInv, TypeOK, AnyPairs, Retained

LEMMA FailDestinationChange ==
    ASSUME PairsInv, NEW p \in Pairings, NEW used \in BOOLEAN, FailDestination(p, used)
    PROVE  PairChange(p)
  <1> DEFINE tried == [Tried(p) EXCEPT
                         !.destinationRecipient = Tried(p).destinationRecipient /\ ~ used]
             pair == AfterFailure(p, tried)
  <1>1. PairFacts(Tried(p), outcome[p])
    BY TriedFacts DEF FailDestination
  <1>2. PairFacts(tried, outcome[p]) /\ tried \in Pairs
    BY <1>1 DEF PairFacts, Pairs
  <1>3. pair \in {tried, NoPair}
    BY DEF AfterFailure
  <1>4. pairs' = [Retained EXCEPT ![p] = pair] /\ outcome' = outcome
    BY DEF FailDestination
  <1> HIDE DEF tried, pair
  <1> QED
    BY <1>2, <1>3, <1>4, RetainedTyped, NoPairIsNone
    DEF PairChange, PairsInv, TypeOK, AnyPairs, Retained, Live

LEMMA EndChange ==
    ASSUME PairsInv, NEW p \in Pairings, AlreadyRegistered(p) \/ Cancel(p)
    PROVE  PairChange(p)
  BY NoPairIsNone
  DEF AlreadyRegistered, Cancel, PairChange, PairsInv, TypeOK, AnyPairs, Live

LEMMA DeadlineChange ==
    ASSUME PairsInv, NEW p \in Pairings, Deadline(p)
    PROVE  PairChange(p)
  <1> DEFINE pair == [pairs[p] EXCEPT !.expired = TRUE]
  <1>1. PairFacts(pairs[p], outcome[p])
    BY DEF Deadline, PairsInv
  <1>2. PairFacts(pair, outcome[p]) /\ pair \in Pairs
    BY <1>1 DEF PairFacts, Pairs
  <1>3. pairs' = [pairs EXCEPT ![p] = pair] /\ outcome' = outcome
    BY DEF Deadline
  <1> HIDE DEF pair
  <1> QED
    BY <1>2, <1>3 DEF PairChange, PairsInv, TypeOK, AnyPairs

\* A step of the pairings or of the process changes them in the allowed way.
LEMMA PairingsChange ==
    ASSUME PairsInv, Pair \/ Restart
    PROVE  \/ \E p \in Pairings : PairChange(p)
           \/ /\ pairs' \in AnyPairs
              /\ \A p \in Pairings : pairs'[p] \in {pairs[p], NoPair}
              /\ outcome' = outcome
  <1>1. CASE Restart
    BY <1>1 DEF Restart, custodyVars, AnyPairs
  <1>2. CASE ExpireTick
    BY <1>2, RetainedTyped DEF ExpireTick, Retained, AnyPairs, PairsInv
  <1>3. CASE Pair /\ ~ ExpireTick
    BY <1>3, PairStartChange, PrepareSourceChange, CompleteSourceChange, FailSourceChange,
       CompleteDestinationChange, FailDestinationChange, EndChange, DeadlineChange
    DEF Pair
  <1> QED
    BY <1>1, <1>2, <1>3

\* The facts of the live pairings after such a change.
LEMMA FactsKept ==
    ASSUME PairsInv, Pair \/ Restart
    PROVE  /\ pairs' \in AnyPairs
           /\ outcome' \in [Pairings -> {"none", "succeeded", "already_registered", "cancelled"}]
           /\ \A p \in Pairings : Live(p)' => PairFacts(pairs'[p], outcome'[p])
  <1>1. CASE \E p \in Pairings : PairChange(p)
    BY <1>1, NoPairIsNone DEF PairChange, PairsInv, Live
  <1>2. CASE /\ pairs' \in AnyPairs
             /\ \A p \in Pairings : pairs'[p] \in {pairs[p], NoPair}
             /\ outcome' = outcome
    BY <1>2, NoPairIsNone DEF PairsInv, TypeOK, Live
  <1> QED
    BY <1>1, <1>2, PairingsChange

\* The rows of the wallets and their credentials keep their types.
LEMMA CustodyTyped ==
    ASSUME TypeOK, [Next]_vars
    PROVE  /\ wraps' \in [Credentials -> {"unused", "active", "removed"}]
           /\ generation' \in [Wallets -> 0 .. MaxGeneration]
           /\ rows' \in [Wallets -> {"none", "present", "tombstoned"}]
  <1> USE DEF TypeOK
  <1>1. CASE Administer
    BY <1>1 DEF Administer, custodyVars
  <1>2. CASE Restart
    BY <1>2 DEF Restart, custodyVars
  <1>3. CASE Custody
    <2> PICK w \in Wallets :
          \/ Approve(w) \/ RevokeWallet(w)
          \/ \E c \in Credentials :
                \/ RegisterWallet(w, c) \/ Recover(w, c)
                \/ \E by \in Credentials :
                      ChangeCredential(w, by, c) \/ RemoveCredential(w, by, c)
      BY <1>3 DEF Custody
    <2>1. CASE Approve(w) \/ RevokeWallet(w)
      BY <2>1 DEF Approve, RevokeWallet
    <2>2. ASSUME NEW c \in Credentials, RegisterWallet(w, c)
          PROVE  /\ wraps' \in [Credentials -> {"unused", "active", "removed"}]
                 /\ UNCHANGED <<generation, rows>>
      BY <2>2 DEF RegisterWallet
    <2>3. ASSUME NEW c \in Credentials, Recover(w, c)
          PROVE  /\ wraps' \in [Credentials -> {"unused", "active", "removed"}]
                 /\ generation' \in [Wallets -> 0 .. MaxGeneration]
                 /\ UNCHANGED rows
      <3>1. generation[w] + 1 \in 0 .. MaxGeneration
        BY <2>3, PairingAssumption DEF Recover
      <3>2. wraps' \in [Credentials -> {"unused", "active", "removed"}]
        BY <2>3 DEF Recover
      <3> QED
        BY <2>3, <3>1, <3>2 DEF Recover
    <2>4. ASSUME NEW c \in Credentials, NEW by \in Credentials,
                 ChangeCredential(w, by, c) \/ RemoveCredential(w, by, c)
          PROVE  /\ wraps' \in [Credentials -> {"unused", "active", "removed"}]
                 /\ UNCHANGED <<generation, rows>>
      BY <2>4 DEF ChangeCredential, RemoveCredential
    <2> QED
      BY <2>1, <2>2, <2>3, <2>4
  <1>4. CASE Pair
    <2> USE DEF pairingFrame
    <2>1. ASSUME NEW p \in Pairings,
                 PairStart(p) \/ AlreadyRegistered(p) \/ Cancel(p) \/ Deadline(p)
          PROVE  UNCHANGED <<wraps, generation, rows>>
      BY <2>1 DEF PairStart, AlreadyRegistered, Cancel, Deadline
    <2>2. ASSUME NEW p \in Pairings, NEW w \in Wallets, NEW s \in Surfaces,
                 PrepareSource(p, w, s)
          PROVE  UNCHANGED <<wraps, generation, rows>>
      BY <2>2 DEF PrepareSource
    <2>3. ASSUME NEW p \in Pairings, NEW c \in Credentials,
                 CompleteSource(p, c) \/ CompleteDestination(p, c)
          PROVE  /\ wraps' \in [Credentials -> {"unused", "active", "removed"}]
                 /\ UNCHANGED <<generation, rows>>
      BY <2>3 DEF CompleteSource, CompleteDestination
    <2>4. ASSUME NEW p \in Pairings, NEW used \in BOOLEAN,
                 FailSource(p, used) \/ FailDestination(p, used)
          PROVE  UNCHANGED <<wraps, generation, rows>>
      BY <2>4 DEF FailSource, FailDestination
    <2>5. ASSUME ExpireTick
          PROVE  UNCHANGED <<wraps, generation, rows>>
      BY <2>5 DEF ExpireTick
    <2> QED
      BY <1>4, <2>1, <2>2, <2>3, <2>4, <2>5 DEF Pair
  <1>5. CASE UNCHANGED vars
    BY <1>5 DEF vars
  <1> QED
    BY <1>1, <1>2, <1>3, <1>4, <1>5 DEF Next

\* Nothing but the pairings, the process and the clock touches them.
LEMMA OthersKeepPairs ==
    ASSUME [Next]_vars, ~ Pair, ~ Restart
    PROVE  UNCHANGED <<pairs, outcome>>
  <1>1. CASE Administer
    BY <1>1 DEF Administer, custodyVars
  <1>2. CASE Custody
    BY <1>2 DEF Custody, Approve, RevokeWallet, RegisterWallet, Recover,
       ChangeCredential, RemoveCredential
  <1>3. CASE UNCHANGED vars
    BY <1>3 DEF vars
  <1> QED
    BY <1>1, <1>2, <1>3 DEF Next

LEMMA PairsInvStep ==
    ASSUME PairsInv, [Next]_vars
    PROVE  PairsInv'
  <1>1. SurfaceTypeOK'
    BY SurfaceTyped, NextIsSurfaceStep DEF PairsInv, TypeOK
  <1>2. /\ pairs' \in AnyPairs
        /\ outcome' \in [Pairings -> {"none", "succeeded", "already_registered", "cancelled"}]
        /\ \A p \in Pairings : Live(p)' => PairFacts(pairs'[p], outcome'[p])
    <2>1. CASE Pair \/ Restart
      BY <2>1, FactsKept
    <2>2. CASE ~ Pair /\ ~ Restart
      BY <2>2, OthersKeepPairs DEF PairsInv, TypeOK, AnyPairs, Live
    <2> QED
      BY <2>1, <2>2
  <1> QED
    BY <1>1, <1>2, CustodyTyped DEF PairsInv, TypeOK, AnyPairs

LEMMA PairsInvInit ==
    ASSUME Init
    PROVE  PairsInv
  <1>1. SurfaceTypeOK
    BY SurfaceInvInit DEF SurfaceInv
  <1> QED
    BY <1>1, NoPairIsNone, PairingAssumption DEF Init, PairsInv, TypeOK, Live

\* Every reachable state satisfies the facts of its pairings.
THEOREM PairsSafe == Spec => []PairsInv
  BY PairsInvInit, PairsInvStep, PTL DEF Spec

\* The type invariant holds for any constants.
THEOREM TypeCorrect == Spec => []TypeOK
  <1>1. PairsInv => TypeOK
    BY DEF PairsInv
  <1> QED
    BY <1>1, PairsSafe, PTL

-----------------------------------------------------------------------------
(* The properties of pairings *)

\* The outcome of an operation changes only while it has a live pairing, whose
\* facts exclude every outcome but the receipt, which each handler excludes.
LEMMA OutcomeStep ==
    ASSUME PairsInv, [Next]_vars, NEW p \in Pairings, outcome[p] # "none"
    PROVE  outcome'[p] = outcome[p]
  <1>0. \A q \in Pairings : Live(q) => outcome[q] \in {"none", "succeeded"}
    BY DEF PairsInv, PairFacts
  <1>1. CASE ~ Pair
    <2>1. CASE Restart
      BY <2>1 DEF Restart, custodyVars
    <2>2. CASE ~ Restart
      BY <1>1, <2>2, OthersKeepPairs
    <2> QED
      BY <2>1, <2>2
  <1>2. CASE Pair
    <2>1. ASSUME NEW q \in Pairings, AlreadyRegistered(q) \/ Cancel(q)
          PROVE  outcome'[p] = outcome[p]
      BY <1>0, <2>1 DEF AlreadyRegistered, Cancel, Prepared, PairsInv, TypeOK
    <2>2. ASSUME NEW q \in Pairings, NEW c \in Credentials, CompleteDestination(q, c)
          PROVE  outcome'[p] = outcome[p]
      BY <1>0, <2>2 DEF CompleteDestination, PairsInv, TypeOK
    <2>3. ASSUME NEW q \in Pairings,
                 \/ PairStart(q) \/ Deadline(q)
                 \/ \E w \in Wallets, s \in Surfaces : PrepareSource(q, w, s)
                 \/ \E c \in Credentials : CompleteSource(q, c)
                 \/ \E used \in BOOLEAN : FailSource(q, used) \/ FailDestination(q, used)
          PROVE  outcome' = outcome
      BY <2>3 DEF PairStart, Deadline, PrepareSource, CompleteSource, FailSource,
         FailDestination
    <2>4. ASSUME ExpireTick
          PROVE  outcome' = outcome
      BY <2>4 DEF ExpireTick
    <2> QED
      BY <1>2, <2>1, <2>2, <2>3, <2>4 DEF Pair
  <1> QED
    BY <1>1, <1>2

\* A pairing operation has one outcome, whatever is cancelled, retried, expired
\* or restarted around it.
THEOREM OutcomesStand == Spec => OutcomeFinal
  <1>1. PairsInv /\ [Next]_vars =>
          [\A p \in Pairings : outcome[p] # "none" => outcome'[p] = outcome[p]]_vars
    BY OutcomeStep
  <1> QED
    BY <1>1, PairsSafe, PTL DEF Spec, OutcomeFinal

\* Only the destination's completion makes an operation succeed, and what it
\* checks implies, with the facts of the pairing, that the approval stands.
LEMMA EnrolmentStep ==
    ASSUME PairsInv, Next, NEW p \in Pairings,
           outcome'[p] = "succeeded", outcome[p] # "succeeded"
    PROVE  /\ pairs[p].approver \in Active(pairs[p].wallet)
           /\ SurfaceOf[pairs[p].approver] = pairs[p].source
           /\ pairs[p].generation = generation[pairs[p].wallet]
           /\ Eligible(pairs[p].source) /\ Eligible(DestinationOf[p])
  <1>1. outcome[p] = "none"
    BY OutcomeStep
  <1>2. \E c \in Credentials : CompleteDestination(p, c)
    <2>1. Pair
      <3>1. CASE Restart
        BY <3>1 DEF Restart, custodyVars
      <3> QED
        BY <3>1, OthersKeepPairs
    <2>2. ASSUME NEW q \in Pairings,
                 \/ PairStart(q) \/ Deadline(q)
                 \/ \E w \in Wallets, s \in Surfaces : PrepareSource(q, w, s)
                 \/ \E c \in Credentials : CompleteSource(q, c)
                 \/ \E used \in BOOLEAN : FailSource(q, used) \/ FailDestination(q, used)
          PROVE  outcome' = outcome
      BY <2>2 DEF PairStart, Deadline, PrepareSource, CompleteSource, FailSource,
         FailDestination
    <2>3. ASSUME NEW q \in Pairings, AlreadyRegistered(q) \/ Cancel(q)
          PROVE  outcome'[p] # "succeeded"
      BY <2>3 DEF AlreadyRegistered, Cancel, PairsInv, TypeOK
    <2>4. ASSUME NEW q \in Pairings, q # p, NEW c \in Credentials, CompleteDestination(q, c)
          PROVE  outcome'[p] = outcome[p]
      BY <2>4 DEF CompleteDestination, PairsInv, TypeOK
    <2>5. ASSUME ExpireTick
          PROVE  outcome' = outcome
      BY <2>5 DEF ExpireTick
    <2> QED
      BY <2>1, <2>2, <2>3, <2>4, <2>5 DEF Pair
  <1>3. DestinationAdmitted(p) /\ Live(p)
    BY <1>2 DEF CompleteDestination
  <1>4. PairFacts(pairs[p], outcome[p])
    BY <1>3 DEF PairsInv
  <1>5. /\ pairs[p].approver \in pairs[p].credentials
        /\ pairs[p].approver \in Credentials
        /\ wraps[pairs[p].approver] = "active"
        /\ WalletOf[pairs[p].approver] = pairs[p].wallet
        /\ SurfaceOf[pairs[p].approver] = pairs[p].source
    BY <1>3, <1>4 DEF PairFacts, Pairs, DestinationAdmitted, ApproverStands, StillAuthorised
  <1> QED
    BY <1>3, <1>5
    DEF DestinationAdmitted, StillAuthorised, Prepared, SameGeneration, Active

\* A pairing enrols a passkey only while the authority that approved it stands:
\* the approving passkey, the wallet's generation and both surfaces are those of
\* the moment of the enrolment.
THEOREM EnrolmentsAuthorised == Spec => EnrolmentIsAuthorised
  <1>1. PairsInv /\ [Next]_vars =>
          [\A p \in Pairings : outcome'[p] = "succeeded" /\ outcome[p] # "succeeded" =>
             /\ pairs[p].approver \in Active(pairs[p].wallet)
             /\ SurfaceOf[pairs[p].approver] = pairs[p].source
             /\ pairs[p].generation = generation[pairs[p].wallet]
             /\ Eligible(pairs[p].source) /\ Eligible(DestinationOf[p])]_vars
    BY EnrolmentStep
  <1> QED
    BY <1>1, PairsSafe, PTL DEF Spec, EnrolmentIsAuthorised

\* Pairings never become unlocked, except through the source's completion.
LEMMA UnlockedShrinks ==
    ASSUME PairsInv, [Next]_vars,
           \A p \in Pairings, c \in Credentials : ~ CompleteSource(p, c)
    PROVE  UnlockedNow(pairs') \subseteq UnlockedNow(pairs)
  <1> USE DEF UnlockedNow
  <1>1. CASE ~ Pair /\ ~ Restart
    BY <1>1, OthersKeepPairs
  <1>2. CASE Restart
    BY <1>2, NoPairIsNone DEF Restart
  <1>3. CASE ExpireTick
    BY <1>3, NoPairIsNone DEF ExpireTick, Retained
  <1>4. ASSUME NEW p \in Pairings, AlreadyRegistered(p) \/ Cancel(p)
        PROVE  UnlockedNow(pairs') \subseteq UnlockedNow(pairs)
    BY <1>4, NoPairIsNone DEF AlreadyRegistered, Cancel, PairsInv, TypeOK
  <1>5. ASSUME NEW p \in Pairings, PairStart(p)
        PROVE  UnlockedNow(pairs') \subseteq UnlockedNow(pairs)
    <2>1. NewPair.unlocked = FALSE
      BY DEF NewPair
    <2>2. pairs'[p] = NewPair /\ \A q \in Pairings \ {p} : pairs'[q] \in {pairs[q], NoPair}
      BY <1>5 DEF PairStart
    <2> QED
      BY <2>1, <2>2, NoPairIsNone
  <1>6. ASSUME NEW p \in Pairings,
               \/ Deadline(p)
               \/ \E w \in Wallets, s \in Surfaces : PrepareSource(p, w, s)
        PROVE  UnlockedNow(pairs') \subseteq UnlockedNow(pairs)
    <2>1. pairs[p] \in Pairs /\ Live(p)
      BY <1>6 DEF Deadline, PrepareSource, PairsInv, PairFacts
    <2>2. pairs'[p].unlocked = pairs[p].unlocked
      <3>1. CASE Deadline(p)
        BY <2>1, <3>1 DEF Deadline, Pairs, PairsInv, TypeOK
      <3>2. ASSUME NEW w \in Wallets, NEW s \in Surfaces, PrepareSource(p, w, s)
            PROVE  pairs'[p].unlocked = pairs[p].unlocked
        BY <2>1, <3>2 DEF PrepareSource, Pairs, PairsInv, TypeOK
      <3> QED
        BY <1>6, <3>1, <3>2
    <2>3. \A q \in Pairings \ {p} : pairs'[q] = pairs[q]
      BY <1>6 DEF Deadline, PrepareSource, PairsInv, TypeOK
    <2> QED
      BY <2>1, <2>2, <2>3 DEF Live
  <1>7. ASSUME NEW p \in Pairings,
               \/ \E c \in Credentials : CompleteDestination(p, c)
               \/ \E used \in BOOLEAN : FailSource(p, used) \/ FailDestination(p, used)
        PROVE  UnlockedNow(pairs') \subseteq UnlockedNow(pairs)
    <2>1. Live(p) /\ ~ Spent(p)
      BY <1>7 DEF CompleteDestination, FailSource, FailDestination
    <2>2. pairs[p] \in Pairs /\ Tried(p) \in Pairs /\ Tried(p).unlocked = pairs[p].unlocked
      BY <2>1, TriedFacts DEF PairFacts, Pairs
    <2>3. \A q \in Pairings \ {p} : pairs'[q] \in {pairs[q], NoPair}
      BY <1>7 DEF CompleteDestination, FailSource, FailDestination, Retained
    <2>4. pairs'[p].stage = "live" /\ pairs'[p].unlocked => pairs[p].unlocked
      <3>1. ASSUME NEW c \in Credentials, CompleteDestination(p, c)
            PROVE  pairs'[p].unlocked = FALSE
        BY <2>2, <3>1 DEF CompleteDestination, AfterSuccess, Pairs, Retained
      <3>2. ASSUME NEW used \in BOOLEAN, FailSource(p, used)
            PROVE  pairs'[p].unlocked = pairs[p].unlocked
        BY <2>2, <3>2 DEF FailSource, Pairs, Retained
      <3>3. ASSUME NEW used \in BOOLEAN, FailDestination(p, used)
            PROVE  pairs'[p] = NoPair \/ pairs'[p].unlocked = pairs[p].unlocked
        BY <2>2, <3>3 DEF FailDestination, AfterFailure, Pairs, Retained
      <3> QED
        BY <1>7, <3>1, <3>2, <3>3, NoPairIsNone
    <2> QED
      BY <2>1, <2>3, <2>4, NoPairIsNone DEF Live
  <1> QED
    BY <1>1, <1>2, <1>3, <1>4, <1>5, <1>6, <1>7 DEF Pair

\* The invariant that bounds the unlocked wallets.
UnlockedInv == PairsInv /\ Cardinality(UnlockedNow(pairs)) <= MaxUnlocked

LEMMA UnlockedStep ==
    ASSUME UnlockedInv, [Next]_vars
    PROVE  UnlockedInv'
  <1>1. PairsInv'
    BY PairsInvStep DEF UnlockedInv
  <1>2. /\ IsFiniteSet(UnlockedNow(pairs))
        /\ IsFiniteSet(UnlockedNow(Retained))
        /\ Cardinality(UnlockedNow(Retained)) \in Nat
        /\ Cardinality(UnlockedNow(pairs)) \in Nat
    BY PairingAssumption, FS_Subset, FS_CardinalityType DEF UnlockedNow
  <1>3. Cardinality(UnlockedNow(pairs')) <= MaxUnlocked
    <2>1. CASE \A p \in Pairings, c \in Credentials : ~ CompleteSource(p, c)
      <3>1. UnlockedNow(pairs') \subseteq UnlockedNow(pairs)
        BY <2>1, UnlockedShrinks DEF UnlockedInv
      <3>2. /\ Cardinality(UnlockedNow(pairs')) <= Cardinality(UnlockedNow(pairs))
            /\ IsFiniteSet(UnlockedNow(pairs'))
        BY <1>2, <3>1, FS_Subset
      <3>3. Cardinality(UnlockedNow(pairs')) \in Nat
        BY <3>2, FS_CardinalityType
      <3> QED
        BY <1>2, <3>2, <3>3, PairingAssumption DEF UnlockedInv
    <2>2. CASE \E p \in Pairings, c \in Credentials : CompleteSource(p, c)
      <3> PICK p \in Pairings, c \in Credentials : CompleteSource(p, c)
        BY <2>2
      <3>1. Cardinality(UnlockedNow(Retained)) < MaxUnlocked
        BY DEF CompleteSource, RoomToUnlock
      <3>2. UnlockedNow(pairs') \subseteq UnlockedNow(Retained) \union {p}
        BY DEF CompleteSource, UnlockedNow, Retained
      <3>3. /\ IsFiniteSet(UnlockedNow(Retained) \union {p})
            /\ Cardinality(UnlockedNow(Retained) \union {p})
                 <= Cardinality(UnlockedNow(Retained)) + 1
        <4>1. /\ IsFiniteSet(UnlockedNow(Retained) \union {p})
              /\ Cardinality(UnlockedNow(Retained) \union {p}) =
                   IF p \in UnlockedNow(Retained) THEN Cardinality(UnlockedNow(Retained))
                   ELSE Cardinality(UnlockedNow(Retained)) + 1
          BY <1>2, FS_AddElement
        <4> QED
          BY <1>2, <4>1
      <3>4. /\ IsFiniteSet(UnlockedNow(pairs'))
            /\ Cardinality(UnlockedNow(pairs'))
                 <= Cardinality(UnlockedNow(Retained) \union {p})
        BY <3>2, <3>3, FS_Subset
      <3>5. /\ Cardinality(UnlockedNow(pairs')) \in Nat
            /\ Cardinality(UnlockedNow(Retained) \union {p}) \in Nat
        BY <3>3, <3>4, FS_CardinalityType
      <3> QED
        BY <1>2, <3>1, <3>3, <3>4, <3>5, PairingAssumption
    <2> QED
      BY <2>1, <2>2
  <1> QED
    BY <1>1, <1>3 DEF UnlockedInv

LEMMA UnlockedInit ==
    ASSUME Init
    PROVE  UnlockedInv
  <1>1. UnlockedNow(pairs) = {}
    BY NoPairIsNone DEF Init, UnlockedNow
  <1> QED
    BY <1>1, PairsInvInit, FS_EmptySet, PairingAssumption DEF UnlockedInv

\* However many browsers pair, retry and go away, no more wallets than the limit
\* lie unlocked in memory, and none whose pairing has its outcome.
THEOREM UnlockedBounded == Spec => []UnlockedIsBounded
  <1>1. Spec => []UnlockedInv
    BY UnlockedInit, UnlockedStep, PTL DEF Spec
  <1>2. UnlockedInv => UnlockedIsBounded
    BY DEF UnlockedInv, UnlockedIsBounded, PairsInv, PairFacts
  <1> QED
    BY <1>1, <1>2, PTL
=============================================================================
