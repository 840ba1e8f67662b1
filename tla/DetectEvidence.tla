--------------------------- MODULE DetectEvidence ---------------------------
(***************************************************************************)
(* FlightDetect with history variables: the samples behind a decision and  *)
(* the gaps before them, since the detector's timers run through a gap.    *)
(***************************************************************************)
EXTENDS FlightDetect

VARIABLES
  hotRun,     \* samples in a row over the liftoff threshold, with care
  hotGap,     \* the longest gap before one of them
  quietSeen,  \* quiet samples since the phase was entered
  quietGap,   \* the longest gap before one of them
  parity      \* of the samples: every sample is a step, also one that changes nothing

counts == <<hotRun, hotGap, quietSeen, quietGap, parity>>

evidenceVars == <<vars, counts>>

EvidenceTop == LiftoffMin + LandedConfirm  \* enough to tell every claim apart

EvidenceInit ==
  /\ Init
  /\ hotRun = 0 /\ hotGap = 1
  /\ quietSeen = 0 /\ quietGap = 1
  /\ parity = 0

Longer(g, h) == IF g < h THEN h ELSE g

\* The samples that count: for a liftoff, and for a landing, where an impact
\* starts the count anew.
HotSeen(s, care) == current = "PRELAUNCH" /\ care /\ Hot(s)
Impact == current' = "IMPACT" /\ current # "IMPACT"
Rests(s) == current \in {"DESCENT", "IMPACT"} /\ HadFlight /\ Quiet(s)

\* A sample, counted: a landing keeps the count that it was decided on.
SampleSeen(s, dt, care) ==
  /\ Update(s, dt, care)
  /\ parity' = 1 - parity
  /\ hotRun' = IF HotSeen(s, care) THEN Least(hotRun + 1, EvidenceTop) ELSE 0
  /\ hotGap' = IF HotSeen(s, care) THEN Longer(hotGap, dt) ELSE 1
  /\ quietSeen' = IF Impact THEN 0
                  ELSE IF Rests(s) THEN Least(quietSeen + 1, EvidenceTop) ELSE quietSeen
  /\ quietGap' = IF Impact THEN 1
                 ELSE IF Rests(s) THEN Longer(quietGap, dt) ELSE quietGap

AnySample ==
  \E s \in Sample, dt \in 1 .. MaxGap, care \in BOOLEAN : SampleSeen(s, dt, care)

EvidenceNext ==
  \/ AnySample
  \/ \E p \in {"LIFTOFF", "LANDED"} : InjectPhase(p) /\ UNCHANGED counts

EvidenceSpec == EvidenceInit /\ [][EvidenceNext]_evidenceVars

\* sensorTask samples for ever, and the reads do not fail for ever.
FairEvidenceSpec == EvidenceSpec /\ WF_evidenceVars(AnySample)

-----------------------------------------------------------------------------
\* A liftoff rests on hot samples in a row that span liftoffMinMs at the gaps they
\* came with: at the sensor rate it takes one for every tick, and a single spike
\* lifts off only after reads that failed for the whole of liftoffMinMs.
LiftoffEvidence ==
  ~forced /\ current = "LIFTOFF" => hotRun * hotGap >= LiftoffMin

\* A landing rests on a flight (altitude gained or an impact) and on quiet samples
\* that span landedConfirmMs at their gaps, however they were interrupted: a single
\* one lands only after reads that failed for the whole of landedConfirmMs.
LandingEvidence ==
  ~forced /\ current = "LANDED" =>
    (peaked \/ impacted) /\ quietSeen * quietGap >= LandedConfirm
=============================================================================
