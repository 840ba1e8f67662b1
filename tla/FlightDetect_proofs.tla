------------------------- MODULE FlightDetect_proofs -------------------------
(***************************************************************************)
(* Proofs about the flight detector and the evidence of its decisions, for *)
(* any thresholds and any gaps between the samples.                        *)
(***************************************************************************)
EXTENDS DetectEvidence, TLAPS

-----------------------------------------------------------------------------
(* The order of the phases.                                                *)

\* One sample moves the phase by one, along Successors.
LEMMA UpdateMovesOn ==
  ASSUME NEW s \in Sample, NEW dt \in 1 .. MaxGap, NEW care \in BOOLEAN,
         Update(s, dt, care), current' # current
  PROVE  current' \in Successors[current]
<1> USE DEF Successors, FlightPhase, Enter, Stay
<1>1. CASE Prelaunch(s, dt, care)
  BY <1>1 DEF Prelaunch
<1>2. CASE Liftoff(s)
  BY <1>2 DEF Liftoff
<1>3. CASE Burn(s, dt)
  BY <1>3 DEF Burn
<1>4. CASE Coast(s, dt)
  BY <1>4 DEF Coast
<1>5. CASE Apogee(s, dt)
  BY <1>5 DEF Apogee
<1>6. CASE Fall(s, dt)
  BY <1>6 DEF Fall
<1>7. CASE Rest(dt)
  BY <1>7 DEF Rest
<1>8. QED
  BY <1>1, <1>2, <1>3, <1>4, <1>5, <1>6, <1>7 DEF Update

\* The phases follow one another as FlightRecorder takes it from the detector.
THEOREM PhasesOrdered == Spec => OrderedPhases
<1>1. [Next]_vars => [~forced' /\ current' # current => current' \in Successors[current]]_vars
  BY UpdateMovesOn DEF Next, AnyUpdate, InjectPhase, vars
<1>2. QED
  BY <1>1, PTL DEF Spec, OrderedPhases

-----------------------------------------------------------------------------
(* The baseline.                                                           *)

\* Coast() does not leave without an altitude gain, which needs a baseline.
THEOREM TurnBaselined == Spec => []TurnNeedsBaseline
<1>1. Init => TurnNeedsBaseline
  BY DEF Init, TurnNeedsBaseline
<1>2. TurnNeedsBaseline /\ [Next]_vars => TurnNeedsBaseline'
  <2> SUFFICES ASSUME TurnNeedsBaseline, [Next]_vars PROVE TurnNeedsBaseline'
    OBVIOUS
  <2>1. ASSUME NEW s \in Sample, NEW dt \in 1 .. MaxGap, NEW care \in BOOLEAN,
               Update(s, dt, care)
        PROVE  TurnNeedsBaseline'
    <3> USE DEF TurnNeedsBaseline, Enter, Stay
    <3>1. /\ ~forced /\ (baselined => baselined') /\ (forced' => forced)
      BY <2>1 DEF Update, Observe
    <3>2. CASE Prelaunch(s, dt, care) \/ Liftoff(s) \/ Burn(s, dt)
      BY <3>1, <3>2 DEF Prelaunch, Liftoff, Burn
    <3>3. CASE Coast(s, dt)
      BY <3>1, <3>3 DEF Coast, Agl
    <3>4. CASE Apogee(s, dt) \/ Fall(s, dt) \/ Rest(dt)
      BY <3>1, <3>4 DEF Apogee, Fall, Rest
    <3>5. QED
      BY <2>1, <3>2, <3>3, <3>4 DEF Update
  <2>2. CASE \E p \in {"LIFTOFF", "LANDED"} : InjectPhase(p)
    BY <2>2 DEF InjectPhase, TurnNeedsBaseline
  <2>3. CASE UNCHANGED vars
    BY <2>3 DEF vars, TurnNeedsBaseline
  <2>4. QED
    BY <2>1, <2>2, <2>3 DEF Next, AnyUpdate
<1>3. QED
  BY <1>1, <1>2, PTL DEF Spec

-----------------------------------------------------------------------------
(* Types, for the arithmetic of the evidence.                              *)

\* An age is a number up to its cap, and at most dt more than it was.
LEMMA HeldBound ==
  ASSUME NEW age \in Unset .. AgeTop, NEW dt \in 1 .. MaxGap
  PROVE  /\ Held(age, dt) \in 0 .. AgeTop
         /\ age # Unset => Held(age, dt) <= age + dt
         /\ age = Unset => Held(age, dt) = 0
BY ThresholdAssumption, GapAssumption DEF Unset, AgeTop, Held, Least

\* The quiet time grows by dt over a quiet sample of a flight, and else not at all.
LEMMA QuietTimeBound ==
  ASSUME TypeOK, NEW s \in Sample, NEW dt \in 1 .. MaxGap
  PROVE  /\ QuietTime(s, dt) \in 0 .. LandedConfirm
         /\ HadFlight /\ Quiet(s) => QuietTime(s, dt) <= quietAccum + dt
         /\ ~(HadFlight /\ Quiet(s)) =>
              QuietTime(s, dt) <= quietAccum /\ QuietTime(s, dt) < LandedConfirm
<1>1. /\ quietAccum \in Nat /\ quietAccum <= LandedConfirm
      /\ LandedConfirm \in Nat \ {0} /\ dt \in Nat \ {0}
  BY ThresholdAssumption, GapAssumption DEF TypeOK
<1>2. CASE HadFlight /\ Quiet(s)
  BY <1>1, <1>2 DEF QuietTime, Least
<1>3. CASE ~(HadFlight /\ Quiet(s))
  BY <1>1, <1>3 DEF QuietTime
<1>4. QED
  BY <1>2, <1>3

LEMMA UpdateKeepsType ==
  ASSUME TypeOK, NEW s \in Sample, NEW dt \in 1 .. MaxGap, NEW care \in BOOLEAN,
         Update(s, dt, care)
  PROVE  TypeOK'
<1>1. /\ Held(phaseAge, dt) \in 0 .. AgeTop /\ Held(conditionAge, dt) \in 0 .. AgeTop
      /\ QuietTime(s, dt) \in 0 .. LandedConfirm
      /\ 0 \in 0 .. AgeTop /\ 0 \in 0 .. LandedConfirm
      /\ 0 .. AgeTop \subseteq Unset .. AgeTop
  BY HeldBound, QuietTimeBound, ThresholdAssumption DEF TypeOK, Unset, AgeTop
<1>2. /\ forced' \in BOOLEAN /\ baselined' \in BOOLEAN /\ peaked' \in BOOLEAN
      /\ altitudes' \in 0 .. AltRing
  <2>1. altitudes \in 0 .. AltRing /\ AltRing \in Nat
    BY ThresholdAssumption DEF TypeOK
  <2>2. s.baro \in BOOLEAN
    BY DEF Sample
  <2>3. altitudes' \in 0 .. AltRing
    BY <2>1 DEF Update, Observe, Least
  <2>4. QED
    BY <2>2, <2>3 DEF TypeOK, Update, Observe
<1>3. /\ current' \in FlightPhase /\ impacted' \in BOOLEAN
      /\ quietAccum' \in 0 .. LandedConfirm
      /\ phaseAge' \in 0 .. AgeTop /\ conditionAge' \in Unset .. AgeTop
  <2> USE DEF TypeOK, Enter, Stay, FlightPhase
  <2>1. CASE Prelaunch(s, dt, care) \/ Liftoff(s)
    BY <1>1, <2>1 DEF Prelaunch, Liftoff
  <2>2. CASE Burn(s, dt) \/ Apogee(s, dt) \/ Rest(dt)
    BY <1>1, <2>2 DEF Burn, Apogee, Rest
  <2>3. CASE Coast(s, dt)
    BY <1>1, <2>3 DEF Coast
  <2>4. CASE Fall(s, dt)
    BY <1>1, <2>4 DEF Fall
  <2>5. QED
    BY <2>1, <2>2, <2>3, <2>4 DEF Update
<1>4. QED
  BY <1>2, <1>3 DEF TypeOK

LEMMA InitType == Init => TypeOK
<1>1. /\ 0 \in 0 .. AltRing /\ 0 \in 0 .. LandedConfirm /\ AgeTop \in 0 .. AgeTop
      /\ Unset \in Unset .. AgeTop
  BY ThresholdAssumption DEF Unset, AgeTop
<1>2. QED
  BY <1>1 DEF Init, TypeOK, FlightPhase

\* The detector's timers and counters stay in their ranges.
THEOREM DetectorTypes == Spec => []TypeOK
<1>1. TypeOK /\ [Next]_vars => TypeOK'
  BY UpdateKeepsType DEF Next, AnyUpdate, InjectPhase, vars, TypeOK, FlightPhase
<1>2. QED
  BY <1>1, InitType, PTL DEF Spec

-----------------------------------------------------------------------------
(* The evidence.  The timers of the detector are bounded by the samples    *)
(* that were counted, each of which stands for the longest gap at most.    *)

\* n samples with gaps up to g reach the time t; a count at its top reaches any.
Covers(n, g, t) == n = EvidenceTop \/ t <= n * g

Count == 0 .. EvidenceTop
Gap == 1 .. MaxGap

EvidenceInv ==
  /\ TypeOK
  /\ hotRun \in Count /\ quietSeen \in Count
  /\ hotGap \in Gap /\ quietGap \in Gap
  /\ ~forced =>
       /\ current = "PRELAUNCH" => Covers(hotRun, hotGap, conditionAge)
       /\ current \in {"DESCENT", "IMPACT"} => Covers(quietSeen, quietGap, quietAccum)
       /\ current = "LIFTOFF" => Covers(hotRun, hotGap, LiftoffMin)
       /\ current = "LANDED" =>
            (peaked \/ impacted) /\ Covers(quietSeen, quietGap, LandedConfirm)

\* One more sample covers the gap before it as well.
LEMMA OneMore ==
  ASSUME NEW n \in Count, NEW g \in Gap, NEW t \in Int, NEW u \in Int, NEW dt \in Gap,
         Covers(n, g, t), u <= t + dt
  PROVE  Covers(Least(n + 1, EvidenceTop), Longer(g, dt), u)
<1> DEFINE h == Longer(g, dt)
<1>1. EvidenceTop \in Nat /\ n \in Nat /\ g \in Nat /\ dt \in Nat
  BY ThresholdAssumption, GapAssumption DEF EvidenceTop, Count, Gap
<1>2. h \in Nat /\ g <= h /\ dt <= h
  BY <1>1 DEF Longer
<1>3. CASE n + 1 < EvidenceTop
  <2> HIDE DEF h
  <2>1. t <= n * g
    BY <1>1, <1>3 DEF Covers
  <2>2. PICK k \in Nat : h = g + k
    BY <1>1, <1>2
  <2>3. n * h = n * g + n * k /\ n * k >= 0 /\ n * g \in Int /\ n * k \in Int
    BY <1>1, <2>2
  <2>4. (n + 1) * h = n * h + h
    BY <1>1, <1>2
  <2>5. u <= (n + 1) * h
    BY <1>1, <1>2, <2>1, <2>3, <2>4
  <2>6. QED
    BY <1>3, <2>5 DEF Covers, Least, h
<1>4. CASE ~(n + 1 < EvidenceTop)
  BY <1>1, <1>4 DEF Covers, Least, Count
<1>5. QED
  BY <1>3, <1>4

\* A count at its top covers what either claim asks for.
LEMMA CoversClaim ==
  ASSUME NEW n \in Count, NEW g \in Gap, NEW t \in {LiftoffMin, LandedConfirm},
         Covers(n, g, t)
  PROVE  n * g >= t
<1>1. /\ EvidenceTop \in Nat /\ g \in Nat \ {0} /\ n \in Nat
      /\ t \in Nat /\ EvidenceTop >= t
  BY ThresholdAssumption, GapAssumption DEF EvidenceTop, Count, Gap
<1>2. n * g >= n
  BY <1>1
<1>3. QED
  BY <1>1, <1>2 DEF Covers

\* No time at all is always covered.
LEMMA CoversNothing ==
  ASSUME NEW n \in Count, NEW g \in Gap
  PROVE  Covers(n, g, 0)
<1>1. n \in Nat /\ g \in Nat
  BY GapAssumption DEF Count, Gap
<1>2. 0 <= n * g
  BY <1>1
<1>3. QED
  BY <1>2 DEF Covers

\* A sample keeps the evidence behind the detector's timers.
LEMMA SampleKeepsEvidence ==
  ASSUME EvidenceInv, NEW s \in Sample, NEW dt \in Gap, NEW care \in BOOLEAN,
         SampleSeen(s, dt, care)
  PROVE  EvidenceInv'
<1>1. TypeOK' /\ Update(s, dt, care) /\ ~forced /\ ~forced'
  BY UpdateKeepsType DEF EvidenceInv, SampleSeen, Update, Observe, Gap
<1>2. /\ hotRun' \in Count /\ quietSeen' \in Count
      /\ hotGap' \in Gap /\ quietGap' \in Gap
  <2>1. /\ EvidenceTop \in Nat /\ hotRun \in Count /\ quietSeen \in Count
        /\ MaxGap \in Nat \ {0} /\ hotGap \in Gap /\ quietGap \in Gap
    BY ThresholdAssumption, GapAssumption DEF EvidenceTop, EvidenceInv
  <2>2. /\ Least(hotRun + 1, EvidenceTop) \in Count /\ 0 \in Count
        /\ Least(quietSeen + 1, EvidenceTop) \in Count
    BY <2>1 DEF Least, Count
  <2>3. Longer(hotGap, dt) \in Gap /\ Longer(quietGap, dt) \in Gap /\ 1 \in Gap
    BY <2>1 DEF Longer, Gap
  <2>4. QED
    BY <2>1, <2>2, <2>3 DEF SampleSeen
<1>3. Covers(hotRun', hotGap', 0) /\ Covers(quietSeen', quietGap', 0)
  BY <1>2, CoversNothing
<1>4. CASE Prelaunch(s, dt, care)
  <2>1. CASE care /\ Hot(s)
    <3>1. /\ hotRun' = Least(hotRun + 1, EvidenceTop) /\ hotGap' = Longer(hotGap, dt)
          /\ Covers(hotRun, hotGap, conditionAge)
      BY <1>1, <1>4, <2>1 DEF SampleSeen, HotSeen, EvidenceInv, Prelaunch
    <3>2. Covers(hotRun', hotGap', Held(conditionAge, dt))
      <4>1. conditionAge \in Unset .. AgeTop /\ hotRun \in Count /\ hotGap \in Gap
        BY DEF EvidenceInv, TypeOK
      <4>2. CASE conditionAge = Unset
        BY <1>3, <4>1, <4>2, HeldBound DEF Gap
      <4>3. CASE conditionAge # Unset
        <5>1. Held(conditionAge, dt) \in Int /\ conditionAge \in Int
              /\ Held(conditionAge, dt) <= conditionAge + dt
          BY <4>1, <4>3, HeldBound DEF Unset, Gap
        <5>2. QED
          BY <3>1, <4>1, <5>1, OneMore
      <4>4. QED
        BY <4>2, <4>3
    <3>3. CASE LiftoffHeld(s, dt)
      <4>1. Covers(hotRun', hotGap', LiftoffMin)
        <5>1. hotRun' * hotGap' \in Int /\ LiftoffMin \in Int
          BY <1>2, ThresholdAssumption DEF Count, Gap
        <5>2. Held(conditionAge, dt) \in Int /\ Held(conditionAge, dt) >= LiftoffMin
          BY <3>3, HeldBound DEF LiftoffHeld, EvidenceInv, TypeOK, Gap
        <5>3. QED
          BY <3>2, <5>1, <5>2 DEF Covers
      <4>2. current' = "LIFTOFF"
        BY <1>4, <2>1, <3>3 DEF Prelaunch, Enter
      <4>3. QED
        BY <1>1, <1>2, <4>1, <4>2 DEF EvidenceInv
    <3>4. CASE ~LiftoffHeld(s, dt)
      BY <1>1, <1>2, <1>4, <2>1, <3>2, <3>4 DEF Prelaunch, Stay, EvidenceInv
    <3>5. QED
      BY <3>3, <3>4
  <2>2. CASE ~(care /\ Hot(s))
    BY <1>1, <1>2, <1>3, <1>4, <2>2 DEF Prelaunch, Stay, EvidenceInv
  <2>3. QED
    BY <2>1, <2>2
<1>5. CASE Liftoff(s) \/ Burn(s, dt)
  BY <1>1, <1>2, <1>5 DEF Liftoff, Burn, Enter, Stay, EvidenceInv
<1>6. CASE Coast(s, dt) \/ Apogee(s, dt)
  BY <1>1, <1>2, <1>3, <1>6 DEF Coast, Apogee, Enter, Stay, EvidenceInv
<1>7. CASE Fall(s, dt)
  <2>1. /\ current \in {"DESCENT", "IMPACT"}
        /\ Covers(quietSeen, quietGap, quietAccum)
    BY <1>1, <1>7 DEF Fall, EvidenceInv
  <2>2. CASE s.accel = "impact" /\ current # "IMPACT"
    <3>1. current' = "IMPACT" /\ quietAccum' = 0
      BY <1>7, <2>2 DEF Fall, Enter
    <3>2. QED
      BY <1>1, <1>2, <1>3, <3>1 DEF EvidenceInv
  <2>3. CASE ~(s.accel = "impact" /\ current # "IMPACT")
    <3>1. Covers(quietSeen', quietGap', QuietTime(s, dt))
      <4>1. /\ quietSeen \in Count /\ quietGap \in Gap
            /\ quietAccum \in 0 .. LandedConfirm
            /\ QuietTime(s, dt) \in 0 .. LandedConfirm
        BY QuietTimeBound DEF EvidenceInv, TypeOK, Gap
      <4>2. ~Impact
        BY <1>7, <2>3 DEF Fall, Enter, Impact
      <4>3. CASE HadFlight /\ Quiet(s)
        <5>1. /\ quietSeen' = Least(quietSeen + 1, EvidenceTop)
              /\ quietGap' = Longer(quietGap, dt)
          BY <2>1, <4>2, <4>3 DEF SampleSeen, Rests
        <5>2. QuietTime(s, dt) <= quietAccum + dt
          BY <4>3, QuietTimeBound DEF EvidenceInv, Gap
        <5>3. QuietTime(s, dt) \in Int /\ quietAccum \in Int
          BY <4>1
        <5>4. QED
          BY <2>1, <4>1, <5>1, <5>2, <5>3, OneMore
      <4>4. CASE ~(HadFlight /\ Quiet(s))
        <5>1. quietSeen' = quietSeen /\ quietGap' = quietGap
          BY <2>1, <4>2, <4>4 DEF SampleSeen, Rests
        <5>2. QuietTime(s, dt) <= quietAccum
          BY <4>4, QuietTimeBound DEF EvidenceInv, Gap
        <5>3. quietSeen * quietGap \in Int
          BY <4>1 DEF Count, Gap
        <5>4. QED
          BY <2>1, <4>1, <5>1, <5>2, <5>3 DEF Covers
      <4>5. QED
        BY <4>3, <4>4
    <3>2. CASE QuietTime(s, dt) >= LandedConfirm
      <4>1. current' = "LANDED"
        BY <1>7, <2>3, <3>2 DEF Fall, Enter
      <4>2. HadFlight /\ QuietTime(s, dt) = LandedConfirm
        BY <3>2, QuietTimeBound, ThresholdAssumption DEF EvidenceInv, Gap
      <4>3. QED
        BY <1>1, <1>2, <3>1, <4>1, <4>2 DEF EvidenceInv, HadFlight
    <3>3. CASE ~(QuietTime(s, dt) >= LandedConfirm)
      <4>1. current' = current /\ quietAccum' = QuietTime(s, dt)
        BY <1>7, <2>3, <3>3 DEF Fall
      <4>2. QED
        BY <1>1, <1>2, <2>1, <3>1, <4>1 DEF EvidenceInv
    <3>4. QED
      BY <3>2, <3>3
  <2>4. QED
    BY <2>2, <2>3
<1>8. CASE Rest(dt)
  <2>1. /\ current = "LANDED" /\ current' = "LANDED"
        /\ quietSeen' = quietSeen /\ quietGap' = quietGap
    BY <1>8 DEF Rest, Stay, SampleSeen, Impact, Rests
  <2>2. (peaked => peaked') /\ impacted' = impacted
    BY <1>1, <1>8 DEF Rest, Update, Observe
  <2>3. QED
    BY <1>1, <1>2, <2>1, <2>2 DEF EvidenceInv
<1>9. QED
  BY <1>1, <1>4, <1>5, <1>6, <1>7, <1>8 DEF Update

\* EvidenceInv is an invariant of the detector.
LEMMA EvidenceKept == EvidenceSpec => []EvidenceInv
<1>1. EvidenceInit => EvidenceInv
  <2> SUFFICES ASSUME EvidenceInit PROVE EvidenceInv
    OBVIOUS
  <2>1. TypeOK
    BY InitType DEF EvidenceInit
  <2>2. 0 \in Count /\ 1 \in Gap /\ Unset <= 0 * 1
    BY ThresholdAssumption, GapAssumption DEF EvidenceTop, Unset, Count, Gap
  <2>3. QED
    BY <2>1, <2>2 DEF EvidenceInit, Init, EvidenceInv, Covers
<1>2. EvidenceInv /\ [EvidenceNext]_evidenceVars => EvidenceInv'
  <2> SUFFICES ASSUME EvidenceInv, [EvidenceNext]_evidenceVars PROVE EvidenceInv'
    OBVIOUS
  <2>1. CASE AnySample
    BY <2>1, SampleKeepsEvidence DEF AnySample, Gap
  <2>2. CASE \E p \in {"LIFTOFF", "LANDED"} :
               InjectPhase(p) /\ UNCHANGED counts
    BY <2>2 DEF InjectPhase, counts, EvidenceInv, TypeOK, FlightPhase
  <2>3. CASE UNCHANGED evidenceVars
    BY <2>3 DEF evidenceVars, counts, vars, EvidenceInv, TypeOK, Covers
  <2>4. QED
    BY <2>1, <2>2, <2>3 DEF EvidenceNext
<1>3. QED
  BY <1>1, <1>2, PTL DEF EvidenceSpec

\* For any thresholds and gaps: hot samples in a row, at the gaps they came with,
\* span liftoffMinMs before a liftoff.
THEOREM LiftoffProven == EvidenceSpec => []LiftoffEvidence
<1>1. EvidenceInv => LiftoffEvidence
  BY CoversClaim DEF EvidenceInv, LiftoffEvidence
<1>2. QED
  BY <1>1, EvidenceKept, PTL

\* A landing comes only after a flight and after quiet samples that, at the gaps
\* they came with, span landedConfirmMs.
THEOREM LandingProven == EvidenceSpec => []LandingEvidence
<1>1. EvidenceInv => LandingEvidence
  BY CoversClaim DEF EvidenceInv, LandingEvidence
<1>2. QED
  BY <1>1, EvidenceKept, PTL
=============================================================================
