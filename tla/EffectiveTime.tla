--------------------------- MODULE EffectiveTime ---------------------------
(***************************************************************************)
(* What the Signer's durable clock promises to the rest of the Signer: an  *)
(* effective time that never runs backwards, and the condition of the last *)
(* observation.  The signing, revocation and ceremony code consult nothing *)
(* else about time.  SignerClock, the detailed model of the platform clock,*)
(* the durable row and the operator's repair, implements this module.      *)
(***************************************************************************)
EXTENDS Integers

CONSTANT MaxTime        \* bound on the effective time a model explores

ASSUME MaxTimeAssumption == MaxTime \in Nat

VARIABLES
    effective,          \* last effective time handed out, in abstract ticks
    condition           \* condition recorded with it

timeVars == <<effective, condition>>

\* The durable conditions, by what observe_time does with a rate-limited
\* mutation: HEALTHY, FORWARD_JUMP_REJECTED and REPAIRED admit it, UNTRUSTED
\* and ROLLBACK_FROZEN refuse it.  ABSENT is the missing row.
ClockConditions == {"ABSENT", "TRUSTED", "DISTRUSTED"}

TimeTypeOK ==
    /\ effective \in 0 .. MaxTime
    /\ condition \in ClockConditions

\* No row yet, or the row of an earlier version, whose time is tick 0.
TimeInit == effective = 0 /\ condition \in {"ABSENT", "TRUSTED"}

\* One durable observation: time may stand still or advance, never go back.
ObserveTime ==
    /\ condition' \in {"TRUSTED", "DISTRUSTED"}
    /\ effective' \in effective .. MaxTime

\* An operator's repair: an explicit, accepted move forward.
RepairTime ==
    /\ condition # "ABSENT"
    /\ condition' = "TRUSTED"
    /\ effective' \in effective .. MaxTime

TimeNext == ObserveTime \/ RepairTime

TimeSpec == TimeInit /\ [][TimeNext]_timeVars
=============================================================================
