------------------------- MODULE SignerClock_proofs -------------------------
(***************************************************************************)
(* The durable clock implements EffectiveTime, for every forward step and  *)
(* every bound, from the inductive invariant TypeOK /\ ClockInv.           *)
(***************************************************************************)
EXTENDS SignerClock, TLAPS

RowType ==
    [effective : 0 .. MaxTime, condition : Conditions,
     anchor : 0 .. MaxMono, boot : 0 .. MaxBoot]

\* What the monotonic clock vouches for is not negative, and never more than
\* was credited.
LEMMA ElapsedCredited ==
    ASSUME TypeOK, ClockInv, NEW since \in 1 .. mono,
           row.effective + (mono - since) <= credit
    PROVE  /\ Elapsed(since) \in Nat
           /\ row.effective + Elapsed(since) <= credit
<1>1. /\ row.effective \in Nat /\ row.anchor \in Nat /\ row.boot \in Nat
      /\ mono \in Nat /\ boot \in Nat \ {0} /\ credit \in Nat
  BY ClockAssumption DEF TypeOK
<1>2. CASE Anchored
  <2>1. row.boot = boot /\ row.anchor # NoAnchor
    BY <1>2 DEF Anchored, SameBoot
  <2>2. row.anchor <= mono /\ row.effective + (mono - row.anchor) <= credit
    BY <2>1 DEF ClockInv, RowOfThePast, CreditedOnce
  <2>3. Elapsed(since) = mono - row.anchor
    BY <1>2 DEF Elapsed
  <2>4. QED
    BY <1>1, <2>2, <2>3
<1>3. CASE ~Anchored
  <2>1. Elapsed(since) = mono - since
    BY <1>3 DEF Elapsed
  <2>2. QED
    BY <1>1, <2>1
<1>4. QED
  BY <1>2, <1>3

\* The decisions on a reading of the wall clock.
LEMMA DecisionFacts ==
    ASSUME TypeOK, ClockInv, NEW since \in 1 .. mono,
           row.effective + (mono - since) <= credit,
           NEW utc \in {wall, NoUtc},
           NEW d \in Decisions(utc, since)
    PROVE  /\ d.condition \in Conditions \ {"ABSENT", "REPAIRED"}
           /\ d.effective \in Nat
           /\ row.effective <= d.effective
           /\ d.condition = "HEALTHY" => utc = wall /\ d.effective = wall
           /\ d.condition # "HEALTHY" => d.effective <= credit
           /\ row.condition # "ABSENT" /\ row.boot \in {UnknownBoot, boot} =>
                 d.effective <= credit + MaxForwardStep
           /\ ~disturbed /\ utc = wall => d.condition = "HEALTHY"
<1>1. /\ row.effective \in Nat /\ row.anchor \in Nat /\ row.boot \in Nat
      /\ mono \in Nat /\ boot \in Nat \ {0} /\ credit \in Nat /\ wall \in Nat
      /\ row.condition \in Conditions
      /\ MaxForwardStep \in Nat
  BY ClockAssumption DEF TypeOK
<1>2. DEFINE e == Elapsed(since)
<1>3. e \in Nat /\ row.effective + e <= credit
  BY ElapsedCredited
<1>4. row.condition = "ABSENT" => row.effective = 0
  BY DEF ClockInv, RowOfThePast
<1>5. row.boot \in {UnknownBoot, boot} => ~OtherBoot
  BY DEF OtherBoot, Comparable
<1>6. ~disturbed /\ row.condition # "ABSENT" /\ ~OtherBoot =>
         row.effective <= wall /\ wall <= row.effective + e
  <2> SUFFICES ASSUME ~disturbed, row.condition # "ABSENT", ~OtherBoot
               PROVE  row.effective <= wall /\ wall <= row.effective + e
    OBVIOUS
  <2>1. row.effective <= wall /\ row.boot # UnknownBoot
    BY DEF ClockInv, UndisturbedExplained
  <2>2. row.boot = boot
    BY <2>1 DEF OtherBoot, Comparable
  <2>3. row.anchor # NoAnchor /\ wall <= row.effective + (mono - row.anchor)
    BY <2>2 DEF ClockInv, UndisturbedExplained
  <2>4. e = mono - row.anchor
    BY <2>1, <2>2, <2>3 DEF Elapsed, Anchored, SameBoot, Comparable
  <2>5. QED
    BY <2>1, <2>3, <2>4
<1>7. ~disturbed /\ row.condition # "ABSENT" => row.effective <= wall
  BY DEF ClockInv, UndisturbedExplained
<1>9. CASE utc = NoUtc
  <2>1. \/ d = [condition |-> "UNTRUSTED", effective |-> row.effective]
        \/ d = [condition |-> "UNTRUSTED", effective |-> row.effective + e]
    BY <1>9 DEF Decisions
  <2>2. utc # wall
    BY <1>9, <1>1 DEF NoUtc
  <2>3. d.condition = "UNTRUSTED" /\ (d.effective = row.effective \/ d.effective = row.effective + e)
    BY <2>1
  <2>4. QED
    BY <1>1, <1>3, <2>2, <2>3 DEF Conditions
<1>10. CASE utc # NoUtc
  <2>1. utc = wall
    BY <1>10
  <2>2. CASE row.condition = "ABSENT"
    <3>1. d = [condition |-> "HEALTHY", effective |-> utc]
      BY <1>10, <2>2 DEF Decisions
    <3>2. d.condition = "HEALTHY" /\ d.effective = utc
      BY <3>1
    <3>3. QED
      BY <1>1, <1>4, <2>1, <2>2, <3>2 DEF Conditions
  <2>3. CASE row.condition # "ABSENT" /\ utc < row.effective
    <3>1. d = [condition |-> "ROLLBACK_FROZEN", effective |-> row.effective]
      BY <1>10, <2>3 DEF Decisions
    <3>2. d.condition = "ROLLBACK_FROZEN" /\ d.effective = row.effective
      BY <3>1
    <3>3. QED
      BY <1>1, <1>3, <1>7, <2>1, <2>3, <3>2 DEF Conditions
  <2>4. CASE /\ row.condition # "ABSENT" /\ ~(utc < row.effective)
             /\ ~OtherBoot /\ utc > row.effective + e + MaxForwardStep
    <3>1. d = [condition |-> "FORWARD_JUMP_REJECTED", effective |-> row.effective + e]
      BY <1>10, <2>4 DEF Decisions
    <3>2. d.condition = "FORWARD_JUMP_REJECTED" /\ d.effective = row.effective + e
      BY <3>1
    <3>3. QED
      BY <1>1, <1>3, <1>6, <2>1, <2>4, <3>2 DEF Conditions
  <2>5. CASE /\ row.condition # "ABSENT" /\ ~(utc < row.effective)
             /\ ~(~OtherBoot /\ utc > row.effective + e + MaxForwardStep)
    <3>1. d = [condition |-> "HEALTHY", effective |-> utc]
      BY <1>10, <2>5 DEF Decisions
    <3>2. d.condition = "HEALTHY" /\ d.effective = utc
      BY <3>1
    <3>3. QED
      BY <1>1, <1>3, <1>5, <2>1, <2>5, <3>2 DEF Conditions
  <2>6. QED
    BY <2>2, <2>3, <2>4, <2>5
<1>11. QED
  BY <1>9, <1>10

\* What one observation leaves behind.
Observation ==
    /\ row' \in RowType
    /\ row'.condition \notin {"ABSENT", "REPAIRED"}
    /\ row'.anchor = mono /\ row'.boot = boot
    /\ row.effective <= row'.effective
    /\ sampled' = mono
    /\ credit' \in Nat /\ row'.effective <= credit'
    /\ disturbed' \in BOOLEAN
    /\ ~disturbed' => row'.condition = "HEALTHY" /\ row'.effective = wall
    /\ row.condition # "ABSENT" /\ row.boot \in {UnknownBoot, boot} =>
          row'.effective <= credit + MaxForwardStep

\* observe_time, in a process that just started or that sampled before.
LEMMA ObserveFacts ==
    ASSUME TypeOK, ClockInv, NEW since \in 1 .. mono,
           row.effective + (mono - since) <= credit,
           NEW utc \in Readings, ObserveTime(utc, since)
    PROVE  Observation
<1>1. utc \in {wall, NoUtc}
  BY DEF Readings
<1>2. PICK d \in Decisions(utc, since) : d.effective <= MaxTime /\ row' = Observed(d)
  BY DEF ObserveTime
<1>3. /\ d.condition \in Conditions \ {"ABSENT", "REPAIRED"}
      /\ d.effective \in Nat
      /\ row.effective <= d.effective
      /\ d.condition = "HEALTHY" => utc = wall /\ d.effective = wall
      /\ d.condition # "HEALTHY" => d.effective <= credit
      /\ row.condition # "ABSENT" /\ row.boot \in {UnknownBoot, boot} =>
            d.effective <= credit + MaxForwardStep
      /\ ~disturbed /\ utc = wall => d.condition = "HEALTHY"
  BY <1>1, DecisionFacts
<1>4. row' = [effective |-> d.effective, condition |-> d.condition,
              anchor |-> mono, boot |-> boot]
  BY <1>2 DEF Observed
<1>5. /\ row'.effective = d.effective /\ row'.condition = d.condition
      /\ row'.anchor = mono /\ row'.boot = boot
  BY <1>4
<1>6. row' \in RowType
  BY <1>2, <1>3, <1>4, ClockAssumption DEF RowType, TypeOK
<1>7. disturbed \in BOOLEAN /\ credit \in Nat
  BY DEF TypeOK
<1>8. sampled' = mono
  BY DEF ObserveTime
<1>9. CASE d.condition = "HEALTHY"
  <2>1. disturbed' = FALSE /\ credit' = row'.effective
    BY <1>5, <1>9 DEF ObserveTime
  <2>2. disturbed' \in BOOLEAN
    BY <2>1
  <2>3. credit' \in Nat /\ row'.effective <= credit'
    BY <1>3, <1>5, <2>1
  <2>4. row'.condition = "HEALTHY" /\ row'.effective = wall
    BY <1>3, <1>5, <1>9
  <2>5. row.effective <= row'.effective
    BY <1>3, <1>5
  <2>6. row.condition # "ABSENT" /\ row.boot \in {UnknownBoot, boot} =>
           row'.effective <= credit + MaxForwardStep
    BY <1>3, <1>5
  <2>7. QED
    BY <1>5, <1>6, <1>8, <2>2, <2>3, <2>4, <2>5, <2>6, Zenon DEF Observation
<1>10. CASE d.condition # "HEALTHY"
  <2>1. disturbed' = (disturbed \/ utc = NoUtc) /\ credit' = credit
    BY <1>5, <1>10 DEF ObserveTime
  <2>2. disturbed'
    BY <1>1, <1>3, <1>7, <1>10, <2>1
  <2>3. disturbed' \in BOOLEAN
    BY <2>1
  <2>4. QED
    BY <1>3, <1>5, <1>6, <1>7, <1>8, <1>10, <2>1, <2>2, <2>3 DEF Observation
<1>11. QED
  BY <1>9, <1>10

\* An observation keeps the invariant in the process that made it.
LEMMA ObserveKeeps ==
    ASSUME TypeOK, ClockInv, Observation, UNCHANGED <<platform, latched, live, reported>>,
           process' \in {Serving} \union
               {Repairing(t, s) : t \in 0 .. MaxTime, s \in {NoDigest, reported}}
    PROVE  TypeOK' /\ ClockInv'
<1>1. /\ wall' = wall /\ mono' = mono /\ boot' = boot
      /\ latched' = latched /\ live' = live /\ reported' = reported
  BY DEF platform
<1>2. process' \in {Down, Serving} \union
          [mode : {"repairing"}, accepted : 0 .. MaxTime,
           supplied : Digests \union {NoDigest}]
  BY DEF Repairing, TypeOK
<1>3. TypeOK'
  BY <1>1, <1>2 DEF TypeOK, Observation, RowType
<1>4. /\ row'.effective \in Nat /\ mono \in 1 .. MaxMono /\ boot \in 1 .. MaxBoot
      /\ row'.anchor = mono /\ row'.boot = boot /\ row'.effective <= credit'
      /\ credit' \in Nat
      /\ row'.condition # "ABSENT" /\ sampled' = mono
      /\ ~disturbed' => row'.condition = "HEALTHY" /\ row'.effective = wall
  BY ClockAssumption DEF TypeOK, Observation, RowType
<1>5. mono \in Nat \ {0} /\ boot \in Nat \ {0} /\ wall \in Nat
  BY ClockAssumption DEF TypeOK
<1>6. RowOfThePast'
  BY <1>1, <1>4, <1>5 DEF RowOfThePast, NoAnchor, Repairing, Serving
<1>7. CreditedOnce' /\ CreditCovers'
  BY <1>1, <1>4, <1>5 DEF CreditedOnce, CreditCovers
<1>8. UndisturbedExplained'
  BY <1>1, <1>4, <1>5 DEF UndisturbedExplained, NoAnchor, UnknownBoot
<1>9. QED
  BY <1>3, <1>6, <1>7, <1>8 DEF ClockInv

\* Start: a fresh sampler.
LEMMA StartObserves ==
    ASSUME TypeOK, ClockInv, NEW utc \in Readings, ObserveTime(utc, mono)
    PROVE  Observation
<1>1. mono \in Nat \ {0} /\ row.effective \in Nat /\ row.effective <= credit
  BY ClockAssumption DEF TypeOK, ClockInv, CreditCovers
<1>2. mono \in 1 .. mono /\ row.effective + (mono - mono) <= credit
  BY <1>1
<1>3. QED
  BY <1>2, ObserveFacts

\* A request in a serving process.
LEMMA ServeObserves ==
    ASSUME TypeOK, ClockInv, NEW utc \in Readings, Observe(utc)
    PROVE  Observation
<1>1. process # Down
  BY DEF Observe, Serving, Down
<1>2. sampled \in 1 .. mono /\ row.effective + (mono - sampled) <= credit
  BY <1>1, ClockAssumption DEF TypeOK, ClockInv, CreditCovers
<1>3. ObserveTime(utc, sampled)
  BY DEF Observe
<1>4. QED
  BY <1>2, <1>3, ObserveFacts

\* The steps that leave the row, the platform and the history alone.
LEMMA QuietKeeps ==
    ASSUME TypeOK, ClockInv, UNCHANGED <<row, platform, history>>,
           \/ UNCHANGED <<sampled, process, reported>>
           \/ UNCHANGED sampled /\ process' = Down
           \/ sampled' = mono /\ process' = Serving,
           latched' \in BOOLEAN, live' \subseteq Approvals,
           reported' \in Digests \union {NoDigest}
    PROVE  TypeOK' /\ ClockInv'
<1>1. /\ row' = row /\ wall' = wall /\ mono' = mono /\ boot' = boot
      /\ disturbed' = disturbed /\ credit' = credit
  BY DEF platform, history
<1>2. TypeOK'
  BY <1>1 DEF TypeOK
<1>3. mono \in Nat /\ row.effective \in Nat /\ credit \in Nat
  BY ClockAssumption DEF TypeOK
<1>4. process'.mode = "repairing" => process' = process /\ reported' = reported
  BY DEF Down, Serving
<1>5. RowOfThePast'
  BY <1>1, <1>4 DEF RowOfThePast, ClockInv
<1>6. CreditedOnce'
  BY <1>1 DEF CreditedOnce, ClockInv
<1>7. CreditCovers'
  BY <1>1, <1>3 DEF CreditCovers, ClockInv
<1>8. UndisturbedExplained'
  BY <1>1 DEF UndisturbedExplained, ClockInv
<1>9. QED
  BY <1>2, <1>5, <1>6, <1>7, <1>8 DEF ClockInv

\* repair_clock.
LEMMA RepairKeeps ==
    ASSUME TypeOK, ClockInv, RepairClock
    PROVE  /\ TypeOK' /\ ClockInv'
           /\ row'.condition = "REPAIRED" /\ row.effective <= row'.effective
           /\ row'.effective \in 0 .. MaxTime
<1>1. /\ row \in RowType /\ mono \in 1 .. MaxMono /\ boot \in 1 .. MaxBoot
      /\ wall \in 0 .. MaxTime
  BY DEF TypeOK, RowType
<1>2. process.mode = "repairing" /\ process.accepted \in 0 .. MaxTime
  BY DEF RepairClock, TypeOK, Down, Serving
<1>3. row.boot = boot /\ row.anchor # NoAnchor /\ row.anchor <= mono
  BY <1>2 DEF ClockInv, RowOfThePast
<1>4. row' = [effective |-> process.accepted, condition |-> "REPAIRED",
              anchor |-> row.anchor, boot |-> row.boot]
  BY <1>1 DEF RepairClock, RowType
<1>5. /\ wall' = wall /\ mono' = mono /\ boot' = boot /\ process' = Down
      /\ latched' = latched /\ live' = live /\ reported' = reported
      /\ sampled' = sampled
  BY DEF RepairClock, platform
<1>6. Anchored
  BY <1>1, <1>3 DEF Anchored, SameBoot, Comparable, UnknownBoot
<1>7. credit' = process.accepted + (mono - row.anchor)
  BY <1>6 DEF RepairClock
<1>8. disturbed' = (process.accepted # wall)
  BY DEF RepairClock
<1>9. /\ row'.effective = process.accepted /\ row'.condition = "REPAIRED"
      /\ row'.anchor = row.anchor /\ row'.boot = boot
  BY <1>3, <1>4
<1>10. row' \in RowType
  BY <1>1, <1>2, <1>4 DEF RowType, Conditions
<1>11. row.anchor \in Nat /\ mono \in Nat /\ boot \in Nat \ {0} /\ process.accepted \in Nat
  BY <1>1, <1>2, ClockAssumption DEF RowType
<1>12. credit' \in Nat
  BY <1>3, <1>7, <1>11
<1>13. TypeOK'
  BY <1>5, <1>8, <1>10, <1>12 DEF TypeOK, RowType
<1>14. RowOfThePast'
  BY <1>3, <1>5, <1>9, <1>11 DEF RowOfThePast, Down
<1>15. CreditedOnce' /\ CreditCovers'
  BY <1>3, <1>5, <1>7, <1>9, <1>11 DEF CreditedOnce, CreditCovers
<1>16. ~disturbed' => process.accepted = wall
  BY <1>8
<1>17. UndisturbedExplained'
  BY <1>3, <1>5, <1>9, <1>11, <1>16 DEF UndisturbedExplained, UnknownBoot
<1>18. process.accepted >= row.effective
  BY DEF RepairClock, Forward
<1>19. QED
  BY <1>2, <1>9, <1>13, <1>14, <1>15, <1>17, <1>18 DEF ClockInv

\* The platform's own steps.
LEMMA PlatformKeeps ==
    ASSUME TypeOK, ClockInv,
           Tick \/ \E t \in 0 .. MaxTime : StepWall(t) \/ Reboot(t)
    PROVE  TypeOK' /\ ClockInv' /\ row' = row
<1>1. /\ row \in RowType /\ mono \in Nat \ {0} /\ boot \in Nat \ {0}
      /\ wall \in Nat /\ credit \in Nat
      /\ row.effective \in Nat /\ row.anchor \in Nat /\ row.boot \in Nat
      /\ sampled \in Nat
  BY ClockAssumption DEF TypeOK, RowType
<1>2. CASE Tick
  <2>1. /\ mono' = mono + 1 /\ wall' = wall + 1 /\ credit' = credit + 1
        /\ mono < MaxMono /\ wall < MaxTime
        /\ row' = row /\ boot' = boot /\ process' = process /\ sampled' = sampled
        /\ disturbed' = disturbed /\ reported' = reported
    BY <1>2 DEF Tick
  <2>2. TypeOK'
    BY <1>1, <1>2, ClockAssumption DEF Tick, TypeOK
  <2>3. RowOfThePast'
    BY <1>1, <2>1 DEF RowOfThePast, ClockInv
  <2>4. CreditedOnce'
    BY <1>1, <2>1 DEF CreditedOnce, ClockInv
  <2>5. CreditCovers'
    BY <1>1, <2>1 DEF CreditCovers, ClockInv
  <2>6. UndisturbedExplained'
    BY <1>1, <2>1 DEF UndisturbedExplained, ClockInv
  <2>7. QED
    BY <2>1, <2>2, <2>3, <2>4, <2>5, <2>6 DEF ClockInv
<1>3. ASSUME NEW t \in 0 .. MaxTime, StepWall(t)
      PROVE  TypeOK' /\ ClockInv' /\ row' = row
  <2>1. /\ row' = row /\ mono' = mono /\ boot' = boot /\ process' = process
        /\ sampled' = sampled /\ credit' = credit /\ disturbed' = TRUE
        /\ reported' = reported
    BY <1>3 DEF StepWall
  <2>2. TypeOK'
    BY <1>3 DEF StepWall, TypeOK
  <2>3. RowOfThePast' /\ CreditedOnce' /\ CreditCovers'
    BY <2>1 DEF RowOfThePast, CreditedOnce, CreditCovers, ClockInv
  <2>4. UndisturbedExplained'
    BY <2>1 DEF UndisturbedExplained
  <2>5. QED
    BY <2>1, <2>2, <2>3, <2>4 DEF ClockInv
<1>4. ASSUME NEW t \in 0 .. MaxTime, Reboot(t)
      PROVE  TypeOK' /\ ClockInv' /\ row' = row
  <2>1. /\ row' = row /\ mono' = 1 /\ boot' = boot + 1 /\ boot < MaxBoot
        /\ process' = Down /\ wall' = t /\ sampled' = sampled /\ credit' = credit
        /\ disturbed' = (disturbed \/ t < wall)
        /\ latched' = latched /\ live' = live /\ reported' = reported
    BY <1>4 DEF Reboot
  <2>2. mono' \in 1 .. MaxMono /\ boot' \in 1 .. MaxBoot
    BY <1>1, <2>1, ClockAssumption
  <2>3. disturbed' \in BOOLEAN
    BY <2>1
  <2>4. TypeOK'
    BY <2>1, <2>2, <2>3 DEF TypeOK
  <2>5. row.boot <= boot
    BY DEF ClockInv, RowOfThePast
  <2>6. row'.boot < boot'
    BY <1>1, <2>1, <2>5
  <2>7. RowOfThePast'
    BY <1>1, <2>1, <2>5 DEF RowOfThePast, ClockInv, Down
  <2>8. CreditedOnce' /\ CreditCovers'
    BY <1>1, <2>1, <2>5 DEF CreditedOnce, CreditCovers, ClockInv
  <2>9. ~disturbed' => ~disturbed /\ ~(t < wall)
    BY <2>1
  <2>10. UndisturbedExplained'
    BY <1>1, <1>4, <2>1, <2>5, <2>9 DEF UndisturbedExplained, ClockInv
  <2>11. QED
    BY <2>1, <2>4, <2>7, <2>8, <2>10 DEF ClockInv
<1>5. QED
  BY <1>2, <1>3, <1>4

\* Every step keeps the invariant, and the row changes only by an observation
\* or a repair.
LEMMA ClockStep ==
    ASSUME TypeOK, ClockInv, Next
    PROVE  /\ TypeOK' /\ ClockInv'
           /\ row' = row \/ Observation \/ RepairClock
<1>1. ASSUME NEW utc \in Readings, Start(utc)
      PROVE  TypeOK' /\ ClockInv' /\ Observation
  <2>1. Observation
    BY <1>1, StartObserves DEF Start
  <2>2. QED
    BY <1>1, <2>1, ObserveKeeps DEF Start
<1>2. ASSUME NEW utc \in Readings, Observe(utc)
      PROVE  TypeOK' /\ ClockInv' /\ Observation
  <2>1. Observation
    BY <1>2, ServeObserves
  <2>2. QED
    BY <1>2, <2>1, ObserveKeeps DEF Observe
<1>3. ASSUME NEW utc \in Readings, NEW accepted \in 0 .. MaxTime,
             NEW supplied \in {NoDigest, reported},
             StartRepair(utc, accepted, supplied)
      PROVE  TypeOK' /\ ClockInv' /\ Observation
  <2>1. Observation
    BY <1>3, StartObserves DEF StartRepair
  <2>2. process' \in {Repairing(t, s) : t \in 0 .. MaxTime, s \in {NoDigest, reported}}
    BY <1>3 DEF StartRepair
  <2>3. QED
    BY <1>3, <2>1, <2>2, ObserveKeeps DEF StartRepair
<1>4. CASE StartDegraded \/ ObserveReadOnly
  <2>1. /\ row' = row /\ UNCHANGED <<row, platform, history>> /\ sampled' = mono
        /\ process' = Serving /\ latched' = latched /\ live' = live /\ reported' = reported
    BY <1>4 DEF StartDegraded, ObserveReadOnly
  <2>2. QED
    BY <2>1, QuietKeeps DEF TypeOK
<1>5. CASE AskConfirmation
  <2>1. /\ row' = row /\ UNCHANGED <<row, platform, history>> /\ sampled' = sampled
        /\ process' = Down /\ latched' = latched /\ live' = live
    BY <1>5 DEF AskConfirmation
  <2>2. process.accepted \in 0 .. MaxTime
    BY <1>5 DEF AskConfirmation, TypeOK, Down, Serving
  <2>3. ExpiringBy(process.accepted) \in SUBSET Approvals
    BY DEF ExpiringBy, TypeOK
  <2>4. reported' \in Digests
    BY <1>5, <2>2, <2>3 DEF AskConfirmation, Digests
  <2>5. QED
    BY <2>1, <2>4, QuietKeeps DEF TypeOK
<1>6. CASE RefuseRepair \/ Stop
  <2>1. /\ row' = row /\ UNCHANGED <<row, platform, history>> /\ sampled' = sampled
        /\ process' = Down /\ latched' = latched /\ live' = live /\ reported' = reported
    BY <1>6 DEF RefuseRepair, Stop
  <2>2. QED
    BY <2>1, QuietKeeps DEF TypeOK
<1>7. CASE RepairClock
  BY <1>7, RepairKeeps
<1>8. CASE Latch \/ Recover
  <2>1. /\ row' = row /\ UNCHANGED <<row, platform, history>> /\ sampled' = sampled
        /\ process' = process /\ latched' \in BOOLEAN /\ live' = live /\ reported' = reported
    BY <1>8 DEF Latch, Recover
  <2>2. QED
    BY <2>1, QuietKeeps DEF TypeOK
<1>9. ASSUME NEW a \in Approvals, Activate(a) \/ Deactivate(a)
      PROVE  TypeOK' /\ ClockInv' /\ row' = row
  <2>1. /\ row' = row /\ UNCHANGED <<row, platform, history>> /\ sampled' = sampled
        /\ process' = process /\ latched' = latched /\ reported' = reported
        /\ live' \in {live \union {a}, live \ {a}}
    BY <1>9 DEF Activate, Deactivate
  <2>2. live' \subseteq Approvals
    BY <2>1 DEF TypeOK
  <2>3. QED
    BY <2>1, <2>2, QuietKeeps DEF TypeOK
<1>10. CASE Tick \/ \E t \in 0 .. MaxTime : StepWall(t) \/ Reboot(t)
  BY <1>10, PlatformKeeps
<1>11. QED
  BY <1>1, <1>2, <1>3, <1>4, <1>5, <1>6, <1>7, <1>8, <1>9, <1>10 DEF Next

\* The initial states.
LEMMA ClockInit == Init => TypeOK /\ ClockInv
<1> SUFFICES ASSUME Init PROVE TypeOK /\ ClockInv
  OBVIOUS
<1>1. /\ row.effective = 0 /\ row.condition \in {"ABSENT", "HEALTHY"}
      /\ row.anchor = 0 /\ row.boot \in {0, 1} /\ row \in RowType
      /\ row.condition = "ABSENT" => row.boot = 0
  BY ClockAssumption DEF Init, RowType, Conditions, NoAnchor, UnknownBoot
<1>2. process.mode = "down" /\ process = Down
  BY DEF Init, Down
<1>3. TypeOK
  <2>1. mono \in 1 .. MaxMono /\ boot \in 1 .. MaxBoot /\ sampled \in 1 .. MaxMono
    BY ClockAssumption DEF Init
  <2>2. disturbed \in BOOLEAN /\ latched \in BOOLEAN
    BY DEF Init
  <2>3. live \subseteq Approvals /\ credit \in Nat /\ wall \in 0 .. MaxTime
    BY DEF Init
  <2>4. reported \in Digests \union {NoDigest} /\ process \in {Down, Serving}
    BY DEF Init
  <2>5. QED
    BY <1>1, <2>1, <2>2, <2>3, <2>4, Zenon DEF TypeOK, RowType
<1>4. disturbed = (row.condition = "HEALTHY")
  BY DEF Init
<1>5. UndisturbedExplained
  BY <1>1, <1>4 DEF UndisturbedExplained
<1>6. RowOfThePast /\ CreditedOnce /\ CreditCovers
  BY <1>1, <1>2 DEF Init, RowOfThePast, CreditedOnce, CreditCovers, NoAnchor
<1>7. QED
  BY <1>3, <1>5, <1>6 DEF ClockInv

\* The types and the invariant behind the clock hold in every state: the row is
\* never of a later boot, and its time is covered by the monotonic time that
\* really passed.
THEOREM ClockSafe == Spec => [](TypeOK /\ ClockInv)
<1>1. Init => TypeOK /\ ClockInv
  BY ClockInit
<1>2. TypeOK /\ ClockInv /\ [Next]_vars => TypeOK' /\ ClockInv'
  <2> SUFFICES ASSUME TypeOK, ClockInv, [Next]_vars PROVE TypeOK' /\ ClockInv'
    OBVIOUS
  <2>1. CASE Next
    BY <2>1, ClockStep
  <2>2. CASE UNCHANGED vars
    <3>1. /\ UNCHANGED <<row, platform, history>> /\ sampled' = sampled
          /\ process' = process /\ latched' = latched /\ live' = live
          /\ reported' = reported
      BY <2>2 DEF vars, platform, history
    <3>2. QED
      BY <3>1, QuietKeeps DEF TypeOK
  <2>3. QED
    BY <2>1, <2>2
<1>3. QED
  BY <1>1, <1>2, PTL DEF Spec

\* The row, the platform and the processes keep their types.
THEOREM TypeCorrect == Spec => []TypeOK
BY ClockSafe, PTL

\* Monotonic time is credited once, over restarts, suspends and rejected
\* forward jumps.
THEOREM CreditOnce == Spec => []CreditedOnce
<1>1. TypeOK /\ ClockInv => CreditedOnce
  BY DEF ClockInv
<1>2. QED
  BY ClockSafe, <1>1, PTL

\* A clock nobody disturbed is never rejected.
THEOREM UndisturbedAccepted == Spec => []UndisturbedIsHealthy
<1>1. TypeOK /\ ClockInv => UndisturbedIsHealthy
  BY DEF TypeOK, ClockInv, UndisturbedExplained, UndisturbedIsHealthy
<1>2. QED
  BY ClockSafe, <1>1, PTL

\* No observation moves effective time more than one forward step beyond what
\* the monotonic clock vouches for, unless the boot provably changed.
THEOREM AdvanceBounded == Spec => BoundedAdvance
<1>1. /\ TypeOK /\ ClockInv
      /\ [Next]_vars
      => [/\ row'.condition # "REPAIRED"
          /\ row.condition # "ABSENT"
          /\ row.boot \in {UnknownBoot, boot}
          => row'.effective <= credit + MaxForwardStep]_row
  <2> SUFFICES ASSUME TypeOK, ClockInv, [Next]_vars, row' # row,
                      row'.condition # "REPAIRED", row.condition # "ABSENT",
                      row.boot \in {UnknownBoot, boot}
               PROVE  row'.effective <= credit + MaxForwardStep
    OBVIOUS
  <2>1. Next
    BY DEF vars
  <2>2. ~RepairClock
    BY RepairKeeps
  <2>3. Observation
    BY <2>1, <2>2, ClockStep
  <2>4. QED
    BY <2>3 DEF Observation
<1>2. QED
  BY ClockSafe, <1>1, PTL DEF Spec, BoundedAdvance

\* The durable clock implements the clock the rest of the Signer is modelled
\* with: effective time never runs backwards.
THEOREM TimeImplemented == Spec => ImplementsTime
<1>1. Init => Time!TimeInit
  <2> SUFFICES ASSUME Init PROVE Time!TimeInit
    OBVIOUS
  <2>1. row.effective = 0 /\ row.condition \in {"ABSENT", "HEALTHY"}
    BY DEF Init
  <2>2. QED
    BY <2>1 DEF Time!TimeInit, Trust
<1>2. TypeOK /\ ClockInv /\ TypeOK' /\ [Next]_vars => [Time!TimeNext]_(Time!timeVars)
  <2> SUFFICES ASSUME TypeOK, ClockInv, TypeOK', [Next]_vars, row' # row
               PROVE  Time!ObserveTime
    BY DEF Time!TimeNext, Time!timeVars, Trust
  <2>1. Next
    BY DEF vars
  <2>2. row.effective <= row'.effective /\ row'.condition # "ABSENT"
    <3>1. CASE Observation
      BY <3>1 DEF Observation
    <3>2. CASE RepairClock
      BY <3>2, RepairKeeps
    <3>3. QED
      BY <2>1, <3>1, <3>2, ClockStep
  <2>3. row.effective \in Nat /\ row'.effective \in 0 .. MaxTime
    BY ClockAssumption DEF TypeOK
  <2>4. row'.effective \in row.effective .. MaxTime
    BY <2>2, <2>3
  <2>5. Trust' \in {"TRUSTED", "DISTRUSTED"}
    BY <2>2 DEF Trust
  <2>6. QED
    BY <2>4, <2>5 DEF Time!ObserveTime
<1>3. QED
  BY ClockSafe, <1>1, <1>2, PTL DEF Spec, ImplementsTime, Time!TimeSpec

\* A repair expires only approvals its operator was shown for that time.
THEOREM RepairInformed == Spec => RepairsAreInformed
<1>1. /\ TypeOK /\ ClockInv
      /\ [Next]_vars
      => [row'.condition = "REPAIRED" =>
            LET expired == {a \in live : row.effective < Expiry[a] /\ Expiry[a] <= row'.effective}
            IN  expired # {} =>
                  /\ reported.accepted = row'.effective
                  /\ expired \subseteq reported.expiring]_row
  <2> DEFINE expired == {a \in live : row.effective < Expiry[a] /\ Expiry[a] <= row'.effective}
  <2> SUFFICES ASSUME TypeOK, ClockInv, [Next]_vars, row' # row,
                      row'.condition = "REPAIRED", expired # {}
               PROVE  /\ reported.accepted = row'.effective
                      /\ expired \subseteq reported.expiring
    OBVIOUS
  <2>1. RepairClock
    BY ClockStep DEF vars, Observation
  <2>2. process.mode = "repairing" /\ process.supplied \in {NoDigest, reported}
    BY <2>1 DEF RepairClock, ClockInv, RowOfThePast
  <2>3. row'.effective = process.accepted /\ process.accepted \in 0 .. MaxTime
    <3>1. process.accepted \in 0 .. MaxTime
      BY <2>2 DEF TypeOK, Down, Serving
    <3>2. row' = [row EXCEPT !.effective = process.accepted, !.condition = "REPAIRED"]
      BY <2>1 DEF RepairClock
    <3>3. QED
      BY <3>1, <3>2 DEF TypeOK
  <2>4. expired \subseteq ExpiringBy(process.accepted)
    BY <2>3 DEF ExpiringBy
  <2>5. process.supplied = [accepted |-> process.accepted,
                            expiring |-> ExpiringBy(process.accepted)]
    BY <2>1, <2>4 DEF RepairClock, Confirmed
  <2>6. process.supplied.accepted # -1
    BY <2>3, <2>5, ClockAssumption
  <2>7. process.supplied = reported
    BY <2>2, <2>6 DEF NoDigest
  <2>8. QED
    BY <2>3, <2>4, <2>5, <2>7
<1>2. QED
  BY ClockSafe, <1>1, PTL DEF Spec, RepairsAreInformed
=============================================================================
