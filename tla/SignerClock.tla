---------------------------- MODULE SignerClock ----------------------------
(***************************************************************************)
(* The durable clock on Linux: the platform's wall and monotonic clocks,   *)
(* the clock_state row, the Signer processes that observe time, and the    *)
(* operator's repair.                                                      *)
(*                                                                         *)
(* observe holds observation_lock from the sample to the commit, so one    *)
(* observation is one action.  An observation that fails (no sample, no    *)
(* audit append) leaves everything as it was and is not an action, except  *)
(* that a failed append closes the audit latch.  Repair is a start of its  *)
(* own, which observes time, lists the approvals it would expire, and      *)
(* either exits with a refusal or repairs and exits; two commits, with     *)
(* room for a crash between them.                                          *)
(*                                                                         *)
(* The decision itself (evaluate_durable_clock) is a library's; it is      *)
(* modelled from how the Signer calls it, its tests and its documentation, *)
(* with a choice where they leave one.  macOS, whose wall clock bypasses   *)
(* the durable row, is not modelled.                                       *)
(***************************************************************************)
EXTENDS Integers

CONSTANTS
    MaxForwardStep, \* MAX_FORWARD_STEP_MS, in ticks
    Approvals,      \* approval_id
    Expiry,         \* expires_at_ms of an approval's terms
    MaxTime,        \* bound on the wall clock and on the effective time
    MaxMono,        \* bound on the monotonic clock of one boot
    MaxBoot         \* bound on the number of boots

ASSUME ClockAssumption ==
    /\ MaxForwardStep \in Nat
    /\ MaxTime \in Nat
    /\ MaxMono \in Nat \ {0}
    /\ MaxBoot \in Nat \ {0}
    /\ Expiry \in [Approvals -> Nat]

VARIABLES
    row,        \* clock_state
    wall,       \* the host's wall clock
    mono,       \* the kernel's suspend-aware monotonic clock
    boot,       \* the kernel's boot ID
    process,    \* the running Signer: down, serving, or a repair start
    sampled,    \* mono at the sampler's last sample in this process
    latched,    \* audit_degraded
    live,       \* approvals with active = 1
    reported,   \* the confirmation digest the last refused repair logged
    disturbed,  \* history: the wall clock did more than run on since accepted
    credit      \* history: effective time, run on with the monotonic clock

platform == <<wall, mono, boot>>
history == <<disturbed, credit>>
vars == <<row, platform, process, sampled, latched, live, reported, history>>

UnknownBoot == 0    \* the all-zero boot epoch
NoAnchor == 0       \* the zero anchor of rows older than the anchor
NoUtc == -1         \* the platform has no trusted wall clock to read

\* The digest covers the accepted time and the exact approvals.
NoDigest == [accepted |-> -1, expiring |-> {}]
Digests == [accepted : 0 .. MaxTime, expiring : SUBSET Approvals]

Down == [mode |-> "down"]
Serving == [mode |-> "serving"]
Repairing(accepted, supplied) ==
    [mode |-> "repairing", accepted |-> accepted, supplied |-> supplied]

Conditions ==
    {"ABSENT", "HEALTHY", "FORWARD_JUMP_REJECTED", "UNTRUSTED",
     "ROLLBACK_FROZEN", "REPAIRED"}

TypeOK ==
    /\ row \in [effective : 0 .. MaxTime, condition : Conditions,
                anchor : 0 .. MaxMono, boot : 0 .. MaxBoot]
    /\ wall \in 0 .. MaxTime
    /\ mono \in 1 .. MaxMono
    /\ boot \in 1 .. MaxBoot
    /\ process \in {Down, Serving} \union
          [mode : {"repairing"}, accepted : 0 .. MaxTime,
           supplied : Digests \union {NoDigest}]
    /\ sampled \in 1 .. MaxMono
    /\ latched \in BOOLEAN
    /\ live \subseteq Approvals
    /\ reported \in Digests \union {NoDigest}
    /\ disturbed \in BOOLEAN
    /\ credit \in Nat

\* A fresh database, or the row of an earlier version: one without a boot
\* epoch, or one of this boot without an anchor.  Tick 0 is that row's time.
Init ==
    /\ row \in [effective : {0}, condition : {"ABSENT"},
                anchor : {NoAnchor}, boot : {UnknownBoot}]
            \union [effective : {0}, condition : {"HEALTHY"},
                    anchor : {NoAnchor}, boot : {UnknownBoot, 1}]
    /\ wall \in 0 .. MaxTime
    /\ mono = 1
    /\ boot = 1
    /\ process = Down
    /\ sampled = 1
    /\ latched = FALSE
    /\ live = {}
    /\ reported = NoDigest
    /\ disturbed = (row.condition = "HEALTHY")
    /\ credit = 0

-----------------------------------------------------------------------------
(* One observation *)

\* comparable_boot_epoch: the zero epoch does not tell boots apart.
AlwaysComparable(b) == TRUE
Comparable(b) == b # UnknownBoot

SameBoot == Comparable(row.boot) /\ row.boot = boot
OtherBoot == Comparable(row.boot) /\ row.boot # boot

\* The anchor is only comparable within the boot it was sampled in.
Anchored == SameBoot /\ row.anchor # NoAnchor

\* The time since the row that the monotonic clock vouches for: by the row's
\* anchor when that is of this boot, else by the sampler of this process.
Elapsed(since) == mono - (IF Anchored THEN row.anchor ELSE since)

\* evaluate_durable_clock: the decisions it may take on a reading.  Without a
\* wall clock the effective time may stand still or run on.
Decisions(utc, since) ==
    LET prior == row.effective
        Decide(c, t) == {[condition |-> c, effective |-> t]}
    IN
    IF utc = NoUtc
    THEN Decide("UNTRUSTED", prior)
           \union IF row.condition = "ABSENT" THEN {}
                  ELSE Decide("UNTRUSTED", prior + Elapsed(since))
    ELSE IF row.condition = "ABSENT" THEN Decide("HEALTHY", utc)
    ELSE IF utc < prior THEN Decide("ROLLBACK_FROZEN", prior)
    ELSE IF ~OtherBoot /\ utc > prior + Elapsed(since) + MaxForwardStep
         THEN Decide("FORWARD_JUMP_REJECTED", prior + Elapsed(since))
    ELSE Decide("HEALTHY", utc)

\* write_clock_state, with the anchor and the boot epoch of the reading.
AnchorNotStored(decision) ==
    [effective |-> decision.effective, condition |-> decision.condition,
     anchor |-> NoAnchor, boot |-> boot]
Observed(decision) ==
    [effective |-> decision.effective, condition |-> decision.condition,
     anchor |-> mono, boot |-> boot]

\* observe_time: the row is written whatever the condition, for a rate-limited
\* mutation too, which is then refused under UNTRUSTED and ROLLBACK_FROZEN.
ObserveTime(utc, since) ==
    /\ ~latched
    /\ \E decision \in Decisions(utc, since) :
          /\ decision.effective <= MaxTime
          /\ row' = Observed(decision)
    /\ sampled' = mono
    /\ IF row'.condition = "HEALTHY"
       THEN disturbed' = FALSE /\ credit' = row'.effective
       ELSE disturbed' = (disturbed \/ utc = NoUtc) /\ UNCHANGED credit

\* The platform's reading: the wall clock, or none.
Readings == {wall, NoUtc}

-----------------------------------------------------------------------------
(* Signer processes *)

\* SignerClock::new of a Signer that will serve.  The sampler starts here.
Start(utc) ==
    /\ process = Down
    /\ ObserveTime(utc, mono)
    /\ process' = Serving
    /\ UNCHANGED <<platform, latched, live, reported>>

\* SignerClock::new over a damaged audit journal: read-only.
StartDegraded ==
    /\ process = Down
    /\ latched
    /\ process' = Serving
    /\ sampled' = mono
    /\ UNCHANGED <<row, platform, latched, live, reported, history>>

\* observe, for any request.
Observe(utc) ==
    /\ process = Serving
    /\ ObserveTime(utc, sampled)
    /\ UNCHANGED <<platform, process, latched, live, reported>>

\* observe_read_only, for status and readiness: the sampler moves on.
ObserveReadOnly ==
    /\ process = Serving
    /\ sampled' = mono
    /\ UNCHANGED <<row, platform, process, latched, live, reported, history>>

\* A start with BLOOM_OPERATOR_ACCEPT_CLOCK_UTC_MS, and the digest an earlier
\* refusal logged if the operator copied it.
StartRepair(utc, accepted, supplied) ==
    /\ process = Down
    /\ ObserveTime(utc, mono)
    /\ process' = Repairing(accepted, supplied)
    /\ UNCHANGED <<platform, latched, live, reported>>

\* active_approvals_expiring_by.
ExpiringBy(t) == {a \in live : Expiry[a] <= t}

\* require_clock_repair_confirmation.
ConfirmedTimeOnly(accepted, supplied) ==
    ExpiringBy(accepted) # {} => supplied.accepted = accepted
Confirmed(accepted, supplied) ==
    ExpiringBy(accepted) # {} =>
        supplied = [accepted |-> accepted, expiring |-> ExpiringBy(accepted)]

\* The repair exits with the digest to confirm.
AskConfirmation ==
    /\ process.mode = "repairing"
    /\ ~Confirmed(process.accepted, process.supplied)
    /\ reported' = [accepted |-> process.accepted,
                    expiring |-> ExpiringBy(process.accepted)]
    /\ process' = Down
    /\ UNCHANGED <<row, platform, sampled, latched, live, history>>

\* The check of repair_clock against the effective time.
AnyTimeForward(accepted) == TRUE
Forward(accepted) == accepted >= row.effective

\* repair_clock of an earlier time, or under the latch.
RefuseRepair ==
    /\ process.mode = "repairing"
    /\ Confirmed(process.accepted, process.supplied)
    /\ latched \/ ~Forward(process.accepted)
    /\ process' = Down
    /\ UNCHANGED <<row, platform, sampled, latched, live, reported, history>>

\* repair_clock: the stored anchor and boot epoch stay.  The operator vouches
\* for the accepted time; it is undisturbed when it is the wall clock's.
RepairClock ==
    LET accepted == process.accepted IN
    /\ process.mode = "repairing"
    /\ Confirmed(accepted, process.supplied)
    /\ ~latched
    /\ Forward(accepted)
    /\ row' = [row EXCEPT !.effective = accepted, !.condition = "REPAIRED"]
    /\ process' = Down
    /\ disturbed' = (accepted # wall)
    /\ credit' = IF Anchored THEN accepted + (mono - row.anchor) ELSE accepted
    /\ UNCHANGED <<platform, sampled, latched, live, reported>>

\* Exit or crash.
Stop ==
    /\ process # Down
    /\ process' = Down
    /\ UNCHANGED <<row, platform, sampled, latched, live, reported, history>>

\* A failed audit append.
Latch ==
    /\ process # Down
    /\ latched' = TRUE
    /\ UNCHANGED <<row, platform, process, sampled, live, reported, history>>

\* A restart that finds the journal sound.
Recover ==
    /\ process = Down
    /\ latched' = FALSE
    /\ UNCHANGED <<row, platform, process, sampled, live, reported, history>>

\* The approvals change while the Signer serves: persist_approval, which does
\* not look at the time, and a revocation.  More comings and goings than the
\* primary key of approvals permits.
Activate(a) ==
    /\ process = Serving /\ ~latched
    /\ live' = live \union {a}
    /\ UNCHANGED <<row, platform, process, sampled, latched, reported, history>>

Deactivate(a) ==
    /\ process = Serving /\ ~latched
    /\ live' = live \ {a}
    /\ UNCHANGED <<row, platform, process, sampled, latched, reported, history>>

-----------------------------------------------------------------------------
(* The platform *)

\* Time passes, suspended or not.
Tick ==
    /\ mono < MaxMono /\ wall < MaxTime
    /\ mono' = mono + 1
    /\ wall' = wall + 1
    /\ credit' = credit + 1
    /\ UNCHANGED <<row, boot, process, sampled, latched, live, reported, disturbed>>

\* Someone sets the wall clock.
StepWall(t) ==
    /\ wall' = t
    /\ disturbed' = TRUE
    /\ UNCHANGED <<row, mono, boot, process, sampled, latched, live, reported, credit>>

\* The host reboots: a new monotonic domain, and the wall clock it comes up
\* with.  A later time than the row's is what powered-off time looks like.
Reboot(t) ==
    /\ boot < MaxBoot
    /\ boot' = boot + 1
    /\ mono' = 1
    /\ wall' = t
    /\ process' = Down
    /\ disturbed' = (disturbed \/ t < wall)
    /\ UNCHANGED <<row, sampled, latched, live, reported, credit>>

Next ==
    \/ \E utc \in Readings :
          \/ Start(utc) \/ Observe(utc)
          \/ \E accepted \in 0 .. MaxTime, supplied \in {NoDigest, reported} :
                StartRepair(utc, accepted, supplied)
    \/ StartDegraded \/ ObserveReadOnly
    \/ AskConfirmation \/ RefuseRepair \/ RepairClock
    \/ Stop \/ Latch \/ Recover
    \/ \E a \in Approvals : Activate(a) \/ Deactivate(a)
    \/ Tick
    \/ \E t \in 0 .. MaxTime : StepWall(t) \/ Reboot(t)

Spec == Init /\ [][Next]_vars

-----------------------------------------------------------------------------
(* Properties *)

\* What the rest of the Signer sees: the effective time and whether the
\* condition admits a rate-limited mutation.
Trust ==
    CASE row.condition = "ABSENT" -> "ABSENT"
      [] row.condition \in {"UNTRUSTED", "ROLLBACK_FROZEN"} -> "DISTRUSTED"
      [] OTHER -> "TRUSTED"

Time == INSTANCE EffectiveTime WITH effective <- row.effective, condition <- Trust

\* Effective time never runs backwards, whatever the wall clock, restarts,
\* reboots, crashes and operators do.
ImplementsTime == Time!TimeSpec

\* The row's time, run on from its anchor, never exceeds the effective time
\* last accepted plus the monotonic time that really passed: downtime,
\* suspend and rejected jumps are credited once, over restarts too.
CreditedOnce ==
    row.boot = boot /\ row.anchor # NoAnchor =>
        row.effective + (mono - row.anchor) <= credit

\* Unless the boot provably changed, an observation moves the effective time at
\* most one forward step beyond that credit, over any number of restarts and
\* rejected jumps.  A missing boot epoch is no proof of a reboot.
BoundedAdvance ==
    [][/\ row'.condition # "REPAIRED"
       /\ row.condition # "ABSENT"
       /\ row.boot \in {UnknownBoot, boot}
       => row'.effective <= credit + MaxForwardStep]_row

\* An undisturbed clock is accepted: when the wall clock has only run on, or a
\* reboot took it forward, since the Signer last accepted it or an operator
\* repaired to it, no restart, downtime, suspend or read-only observation makes
\* the Signer reject it.
UndisturbedIsHealthy ==
    ~disturbed => row.condition \in {"ABSENT", "HEALTHY", "REPAIRED"}

\* The invariant behind them.  A row is never of a later boot, and its anchor
\* is behind the clock of its own boot; the row's time is covered by the credit,
\* from the sampler's last sample of a running process too; a repair acts on a
\* row of its own boot and a digest that was reported; and an undisturbed wall clock is not behind the row,
\* nor further ahead than the monotonic clock explains.
RowOfThePast ==
    /\ row.condition = "ABSENT" => row.effective = 0
    /\ row.boot <= boot
    /\ row.boot = boot => row.anchor <= mono
    /\ process.mode = "repairing" =>
          /\ row.boot = boot /\ row.anchor # NoAnchor
          /\ process.supplied \in {NoDigest, reported}

CreditCovers ==
    /\ row.effective <= credit
    /\ process # Down => sampled <= mono /\ row.effective + (mono - sampled) <= credit

UndisturbedExplained ==
    ~disturbed /\ row.condition # "ABSENT" =>
        /\ row.condition \in {"HEALTHY", "REPAIRED"}
        /\ row.effective <= wall
        /\ row.boot # UnknownBoot
        /\ row.boot = boot =>
              row.anchor # NoAnchor /\ wall <= row.effective + (mono - row.anchor)

ClockInv == RowOfThePast /\ CreditedOnce /\ CreditCovers /\ UndisturbedExplained

\* A repair expires no approval its operator was not shown for exactly that
\* time, whichever approvals came and went since the digest was logged.
RepairsAreInformed ==
    [][row'.condition = "REPAIRED" =>
          LET expired == {a \in live : row.effective < Expiry[a] /\ Expiry[a] <= row'.effective}
          IN  expired # {} =>
                /\ reported.accepted = row'.effective
                /\ expired \subseteq reported.expiring]_row
=============================================================================
