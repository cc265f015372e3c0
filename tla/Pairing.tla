------------------------------ MODULE Pairing ------------------------------
(***************************************************************************)
(* Cross-surface pairing: a passkey of a wallet on one surface authorises a *)
(* new one on another device, while custody ceremonies change the wallet's *)
(* credentials, the surfaces open and close, and the process restarts.     *)
(*                                                                         *)
(* A pairing is volatile: it is started by the destination, prepared and   *)
(* completed by the source, which leaves the wallet unlocked in memory,    *)
(* and completed by the destination.  Handlers do not await, so each is    *)
(* one action.  Custody ceremonies are summarised by their commit; module  *)
(* Ceremony has their detail.                                              *)
(***************************************************************************)
EXTENDS Surface

CONSTANTS
    Wallets,
    Recoverable,    \* wallets with a recovery wrap
    Credentials,
    WalletOf,       \* the wallet and the surface a credential is made for
    SurfaceOf,
    Pairings,       \* operation_id of pairings
    DestinationOf,  \* the surface a pairing's terms name
    MaxPairs,       \* the code's 64
    MaxUnlocked,    \* the code's 4
    MaxAttempts,    \* the code's 5
    MaxGeneration,  \* bound on the recoveries of a wallet
    None

ASSUME PairingAssumption ==
    /\ Recoverable \subseteq Wallets
    /\ WalletOf \in [Credentials -> Wallets]
    /\ SurfaceOf \in [Credentials -> Surfaces]
    /\ DestinationOf \in [Pairings -> Surfaces]
    /\ IsFiniteSet(Pairings)
    /\ MaxPairs \in Nat
    /\ MaxUnlocked \in Nat
    /\ MaxAttempts \in Nat \ {0}
    /\ MaxGeneration \in Nat
    /\ None \notin Wallets \union Credentials \union Surfaces

VARIABLES
    wraps,      \* credential_wraps: unused, active or removed, by credential
    generation, \* credential_authority_generation, by wallet
    rows,       \* wallet_state and wallet_tombstones: none, present or tombstoned
    pairs,      \* cross_surface, by operation; NoPair where there is none
    outcome     \* the durable receipt or public status, by operation

vars == <<status, proven, wraps, generation, rows, pairs, outcome>>

NoPair == [stage |-> "none"]

\* CrossSurfacePairState.  approver is set once the source has completed;
\* capability stands for it and the handoff that carries it.
Pairs ==
    [stage : {"live"}, expired : BOOLEAN, attempts : 0 .. MaxAttempts,
     wallet : Wallets \union {None}, source : Surfaces \union {None},
     generation : 0 .. MaxGeneration, credentials : SUBSET Credentials, existing : BOOLEAN,
     sourceRecipient : BOOLEAN, destinationRecipient : BOOLEAN,
     approver : Credentials \union {None}, unlocked : BOOLEAN, capability : BOOLEAN]

NewPair ==
    [stage |-> "live", expired |-> FALSE, attempts |-> 0,
     wallet |-> None, source |-> None, generation |-> 0, credentials |-> {},
     existing |-> FALSE, sourceRecipient |-> FALSE, destinationRecipient |-> FALSE,
     approver |-> None, unlocked |-> FALSE, capability |-> FALSE]

TypeOK ==
    /\ SurfaceTypeOK
    /\ wraps \in [Credentials -> {"unused", "active", "removed"}]
    /\ generation \in [Wallets -> 0 .. MaxGeneration]
    /\ rows \in [Wallets -> {"none", "present", "tombstoned"}]
    /\ pairs \in [Pairings -> Pairs \union {NoPair}]
    /\ outcome \in [Pairings -> {"none", "succeeded", "already_registered", "cancelled"}]

Init ==
    /\ SurfaceInit
    /\ wraps = [c \in Credentials |-> "unused"]
    /\ generation = [w \in Wallets |-> 0]
    /\ rows = [w \in Wallets |-> "none"]
    /\ pairs = [p \in Pairings |-> NoPair]
    /\ outcome = [p \in Pairings |-> "none"]

Live(p) == pairs[p].stage = "live"
Active(w) == {c \in Credentials : WalletOf[c] = w /\ wraps[c] = "active"}
ActiveOn(w, s) == {c \in Active(w) : SurfaceOf[c] = s}
Registered(w) == \E c \in Credentials : WalletOf[c] = w /\ wraps[c] # "unused"

-----------------------------------------------------------------------------
(* The exposure surface *)

custodyVars == <<wraps, generation, rows, outcome>>

\* The preflight of set_exposure_mode: every wallet of active_wallet_ids has a
\* passkey on the localhost surface.
MayClose == \A w \in Wallets : rows[w] = "present" => ActiveOn(w, "local") # {}

Administer ==
    /\ \/ InstallRemote
       \/ \E mode \in Modes : SetExposureMode(mode, MayClose)
       \/ \E revision \in 0 .. status.desiredRevision, report \in Reports :
             ReportEffective(revision, report)
    /\ UNCHANGED <<custodyVars, pairs>>

\* A new process has no pairings.
Restart ==
    /\ Restarted
    /\ pairs' = [p \in Pairings |-> NoPair]
    /\ UNCHANGED custodyVars

-----------------------------------------------------------------------------
(* Custody ceremonies, as they commit *)

\* add_credential and register_existing_credential refuse an identifier that was
\* ever used.
Fresh(w, c) == WalletOf[c] = w /\ wraps[c] = "unused"

RegisterWallet(w, c) ==
    /\ ~ Registered(w)
    /\ Eligible(SurfaceOf[c])
    /\ Fresh(w, c)
    /\ wraps' = [wraps EXCEPT ![c] = "active"]
    /\ UNCHANGED <<surfaceVars, generation, rows, pairs, outcome>>

\* CredentialAdd and CredentialReplace, on one surface.
ChangeCredential(w, by, c) ==
    /\ Eligible(SurfaceOf[c])
    /\ by \in ActiveOn(w, SurfaceOf[c])
    /\ Fresh(w, c)
    /\ \/ wraps' = [wraps EXCEPT ![c] = "active"]
       \/ wraps' = [wraps EXCEPT ![c] = "active", ![by] = "removed"]
    /\ UNCHANGED <<surfaceVars, generation, rows, pairs, outcome>>

\* CredentialRemove: any passkey of the wallet removes any, except the last one
\* of a wallet without recovery.
RemoveCredential(w, by, c) ==
    /\ Eligible(SurfaceOf[by])
    /\ {by, c} \subseteq Active(w)
    /\ Cardinality(Active(w)) = 1 => w \in Recoverable
    /\ wraps' = [wraps EXCEPT ![c] = "removed"]
    /\ UNCHANGED <<surfaceVars, generation, rows, pairs, outcome>>

\* WalletRecovery: recover_replace_credentials.
Recover(w, c) ==
    /\ w \in Recoverable
    /\ Registered(w)
    /\ generation[w] < MaxGeneration
    /\ Eligible(SurfaceOf[c])
    /\ Fresh(w, c)
    /\ wraps' = [d \in Credentials |->
                   IF d = c THEN "active" ELSE IF d \in Active(w) THEN "removed" ELSE wraps[d]]
    /\ generation' = [generation EXCEPT ![w] = @ + 1]
    /\ UNCHANGED <<surfaceVars, rows, pairs, outcome>>

\* The first approval of a wallet is what gives it a wallet_state row; revoking
\* the wallet gives it one with a tombstone.
Approve(w) ==
    /\ Registered(w)
    /\ rows[w] = "none"
    /\ rows' = [rows EXCEPT ![w] = "present"]
    /\ UNCHANGED <<surfaceVars, wraps, generation, pairs, outcome>>

RevokeWallet(w) ==
    /\ Registered(w)
    /\ rows' = [rows EXCEPT ![w] = "tombstoned"]
    /\ UNCHANGED <<surfaceVars, wraps, generation, pairs, outcome>>

Custody ==
    \E w \in Wallets :
        \/ Approve(w) \/ RevokeWallet(w)
        \/ \E c \in Credentials :
              \/ RegisterWallet(w, c) \/ Recover(w, c)
              \/ \E by \in Credentials : ChangeCredential(w, by, c) \/ RemoveCredential(w, by, c)

-----------------------------------------------------------------------------
(* Pairing *)

pairingFrame == <<surfaceVars, generation, rows>>

\* What retain keeps, at the start of a handler and on the expiry task's tick.
Spent(p) == Live(p) /\ (pairs[p].expired \/ pairs[p].attempts >= MaxAttempts)
Retained == [p \in Pairings |-> IF Spent(p) THEN NoPair ELSE pairs[p]]

\* require_unopened_operation_id.
Unopened(p) == outcome[p] = "none"

\* cross_surface_pair_start; a repetition answers with the live pairing.
PairStart(p) ==
    LET unexpired == [q \in Pairings |->
                        IF Live(q) /\ pairs[q].expired THEN NoPair ELSE pairs[q]] IN
    /\ Eligible(DestinationOf[p])
    /\ Unopened(p)
    /\ unexpired[p] = NoPair
    /\ Cardinality({q \in Pairings : unexpired[q] # NoPair}) < MaxPairs
    /\ pairs' = [unexpired EXCEPT ![p] = NewPair]
    /\ UNCHANGED <<pairingFrame, wraps, outcome>>

\* cross_surface_prepare_source: the source's passkeys and the wallet's
\* generation are read here and used by the two completions.
PrepareSource(p, w, s) ==
    /\ Eligible(s)
    /\ Registered(w)
    /\ \A q \in Pairings \ {p} :
          Live(q) => ~ (pairs[q].wallet = w /\ (pairs[q].unlocked \/ pairs[q].capability))
    /\ Live(p)
    /\ ~ pairs[p].expired
    /\ pairs[p].wallet = None
    /\ Eligible(DestinationOf[p])
    /\ ActiveOn(w, s) # {}
    /\ pairs' = [pairs EXCEPT ![p] =
                   [@ EXCEPT !.wallet = w, !.source = s, !.generation = generation[w],
                             !.credentials = ActiveOn(w, s),
                             !.existing = ActiveOn(w, DestinationOf[p]) # {},
                             !.sourceRecipient = TRUE, !.destinationRecipient = TRUE]]
    /\ UNCHANGED <<pairingFrame, wraps, outcome>>

Prepared(p) == Live(p) /\ pairs[p].wallet # None
SameGeneration(p) == pairs[p].generation = generation[pairs[p].wallet]
UnlockedNow(ps) == {p \in Pairings : ps[p].stage = "live" /\ ps[p].unlocked}

\* The checks of cross_surface_complete_source before the secrets are used.
SourceAdmitted(p, c) ==
    /\ Prepared(p)
    /\ Eligible(pairs[p].source)
    /\ c \in pairs[p].credentials
    /\ SameGeneration(p)

RoomForOneMore(ps) == Cardinality(UnlockedNow(ps)) <= MaxUnlocked
RoomToUnlock(ps) == Cardinality(UnlockedNow(ps)) < MaxUnlocked

Tried(p) == [pairs[p] EXCEPT !.attempts = @ + 1]

\* cross_surface_complete_source with the passkey c, which unlocks the wallet.  A
\* repetition is answered with the handoff.
CompleteSource(p, c) ==
    /\ RoomToUnlock(Retained)
    /\ Live(p) /\ ~ Spent(p)
    /\ ~ pairs[p].capability
    /\ SourceAdmitted(p, c)
    /\ pairs[p].sourceRecipient
    /\ wraps[c] = "active"
    /\ pairs' = [Retained EXCEPT
                   ![p] = [Tried(p) EXCEPT !.sourceRecipient = FALSE, !.approver = c,
                                           !.unlocked = TRUE, !.capability = TRUE]]
    /\ UNCHANGED <<pairingFrame, wraps, outcome>>

\* One that fails: before the recipient key is used (a check above, or the
\* assertion), or after (the passkey's secret does not open, or does not unlock
\* the wallet).
FailSource(p, used) ==
    /\ RoomToUnlock(Retained)
    /\ Live(p) /\ ~ Spent(p)
    /\ ~ pairs[p].capability
    /\ used => \E c \in Credentials : SourceAdmitted(p, c)
    /\ pairs' = [Retained EXCEPT
                   ![p] = [Tried(p) EXCEPT !.sourceRecipient = @ /\ ~ used]]
    /\ UNCHANGED <<pairingFrame, wraps, outcome>>

\* The passkey that unlocked the wallet is still one of it.
ApproverOnce(p) == pairs[p].approver # None
ApproverStands(p) ==
    pairs[p].approver # None /\ wraps[pairs[p].approver] = "active"

StillAuthorised(p) == Prepared(p) /\ SameGeneration(p)

\* The checks of cross_surface_complete_destination_inner before the new
\* passkey is verified.
DestinationAdmitted(p) ==
    /\ StillAuthorised(p)
    /\ Eligible(pairs[p].source)
    /\ Eligible(DestinationOf[p])
    /\ ApproverStands(p)
    /\ pairs[p].capability

\* What a failure leaves of a pairing: cross_surface_complete_destination drops
\* one that cannot succeed any more.
AfterFailure(p, pair) ==
    IF \/ pair.attempts >= MaxAttempts
       \/ pair.wallet # None /\ ~ pair.destinationRecipient
       \/ pair.approver # None /\ ~ pair.unlocked
       \/ /\ pair.wallet # None
          /\ \/ ~ Eligible(pair.source) \/ ~ Eligible(DestinationOf[p])
             \/ ~ SameGeneration(p)
             \/ pair.approver # None /\ ~ ApproverStands(p)
    THEN NoPair ELSE pair

\* What a success leaves: the pairing without its secrets, until it expires.
AfterSuccess(pair) ==
    [pair EXCEPT !.destinationRecipient = FALSE, !.unlocked = FALSE, !.capability = FALSE]

\* cross_surface_complete_destination that enrols the passkey c.
CompleteDestination(p, c) ==
    /\ Live(p) /\ ~ Spent(p)
    /\ outcome[p] # "succeeded"
    /\ DestinationAdmitted(p)
    /\ pairs[p].destinationRecipient
    /\ pairs[p].unlocked
    /\ SurfaceOf[c] = DestinationOf[p]
    /\ Fresh(pairs[p].wallet, c)
    /\ wraps' = [wraps EXCEPT ![c] = "active"]
    /\ outcome' = [outcome EXCEPT ![p] = "succeeded"]
    /\ pairs' = [Retained EXCEPT ![p] = AfterSuccess(Tried(p))]
    /\ UNCHANGED pairingFrame

\* One that fails: before the recipient key is used (a check above, the
\* capability or the new passkey's proofs), or after (its secret does not open,
\* the passkey's identifier is taken, the transaction does not commit).
FailDestination(p, used) ==
    /\ Live(p) /\ ~ Spent(p)
    /\ outcome[p] # "succeeded"
    /\ used => DestinationAdmitted(p)
    /\ pairs' = [Retained EXCEPT
                   ![p] = AfterFailure(p, [Tried(p) EXCEPT
                                             !.destinationRecipient = @ /\ ~ used])]
    /\ UNCHANGED <<pairingFrame, wraps, outcome>>

\* cross_surface_already_registered, with the right capability.
AlreadyRegistered(p) ==
    /\ Prepared(p)
    /\ ~ pairs[p].expired
    /\ outcome[p] # "succeeded"
    /\ pairs[p].existing
    /\ pairs[p].capability
    /\ outcome' = [outcome EXCEPT ![p] = "already_registered"]
    /\ pairs' = [pairs EXCEPT ![p] = NoPair]
    /\ UNCHANGED <<pairingFrame, wraps>>

\* cancel of an operation that has a pairing.
Cancel(p) ==
    /\ Live(p)
    /\ outcome[p] # "succeeded"
    /\ outcome' = [outcome EXCEPT ![p] = "cancelled"]
    /\ pairs' = [pairs EXCEPT ![p] = NoPair]
    /\ UNCHANGED <<pairingFrame, wraps>>

\* The deadline of a pairing, at most ten minutes after its start, passes.
Deadline(p) ==
    /\ Live(p)
    /\ ~ pairs[p].expired
    /\ pairs' = [pairs EXCEPT ![p].expired = TRUE]
    /\ UNCHANGED <<pairingFrame, wraps, outcome>>

\* What a handler that refuses its request has already dropped, and the expiry
\* task's tick: expire_cross_surface_pairs, or, when the clock cannot
\* be read, clear_cross_surface_pairs.
ExpireTick ==
    /\ pairs' \in {Retained, [p \in Pairings |-> NoPair]}
    /\ pairs' # pairs
    /\ UNCHANGED <<pairingFrame, wraps, outcome>>

Pair ==
    \/ \E p \in Pairings :
          \/ PairStart(p)
          \/ \E w \in Wallets, s \in Surfaces : PrepareSource(p, w, s)
          \/ \E c \in Credentials : CompleteSource(p, c) \/ CompleteDestination(p, c)
          \/ \E used \in BOOLEAN : FailSource(p, used) \/ FailDestination(p, used)
          \/ AlreadyRegistered(p) \/ Cancel(p) \/ Deadline(p)
    \/ ExpireTick

Next == Administer \/ Restart \/ Custody \/ Pair

Spec == Init /\ [][Next]_vars

-----------------------------------------------------------------------------
(* Properties *)

\* A passkey joins a wallet through a pairing only while the passkey that
\* unlocked the wallet is one of it, the wallet has not been recovered since the
\* pairing was prepared, and both surfaces are open: none of what the source
\* approved earlier is stale when the destination uses it.
EnrolmentIsAuthorised ==
    [][\A p \in Pairings : outcome'[p] = "succeeded" /\ outcome[p] # "succeeded" =>
          /\ pairs[p].approver \in Active(pairs[p].wallet)
          /\ SurfaceOf[pairs[p].approver] = pairs[p].source
          /\ pairs[p].generation = generation[pairs[p].wallet]
          /\ Eligible(pairs[p].source) /\ Eligible(DestinationOf[p])]_vars

\* At most MaxUnlocked wallets lie unlocked in memory for pairings, and none for
\* a pairing whose outcome is known.
UnlockedIsBounded ==
    /\ Cardinality(UnlockedNow(pairs)) <= MaxUnlocked
    /\ \A p \in Pairings : Live(p) /\ outcome[p] # "none" =>
          ~ pairs[p].unlocked /\ ~ pairs[p].capability

\* The outcome of a pairing operation is final: a cancelled one never enrols a
\* passkey later, and an enrolled one is never reported cancelled.
OutcomeFinal ==
    [][\A p \in Pairings : outcome[p] # "none" => outcome'[p] = outcome[p]]_vars
=============================================================================
