---------------------------- MODULE FlightDetect ----------------------------
(***************************************************************************)
(* src/flight_detect.cpp: the flight phase detector, one sample at a time. *)
(*                                                                         *)
(* Module FlightRecorder only keeps the phase that was reported last and   *)
(* lets it move along Successors.  This module has the detector itself:    *)
(* its evidence, its timers, and the samples that move it.  FlightDevice   *)
(* puts the two together.                                                  *)
(*                                                                         *)
(* A sample is what the thresholds of update() tell apart:                 *)
(*   accel   the band of the acceleration: "quiet" (1 g, the landed band), *)
(*           "low" (any other below the burnout threshold; a failed IMU    *)
(*           reads 0), "mid", "hot" (liftoff), "impact" (liftoff too)      *)
(*   steady  gyro and altitude spread are inside their landed bands        *)
(*   vz      "still", "rising", "falling" (below the descent threshold) or *)
(*           "sinking" (below it and still in the apogee band)             *)
(*   agl     altitude over the baseline: "low", "half" or "gain" of the    *)
(*           minimum altitude gain of a flight                             *)
(*   baro    baro_health is OK; a failed barometer reads vz = 0            *)
(*                                                                         *)
(* Instants are kept as ages at the last valid sample.  A gap dt between   *)
(* two valid samples is 1 at the sensor rate, and up to MaxGap while reads *)
(* fail, since update() leaves last_sample_ms alone on an invalid sample.  *)
(***************************************************************************)
EXTENDS Integers, MissionTypes

CONSTANTS
  MaxGap,         \* the longest gap between two valid samples
  LiftoffMin,     \* liftoffMinMs
  BurnoutMin,     \* burnoutMinMs
  BurnMax,        \* the 8 s after which a burn is taken to be over
  ApogeeMin,      \* apogeeMinMs
  ApogeeMax,      \* the 500 ms after which an apogee is taken to be over
  LandedConfirm,  \* landedConfirmMs
  AltRing         \* the altitudes altStd() needs

ASSUME GapAssumption == MaxGap \in Nat \ {0}
ASSUME ThresholdAssumption ==
  /\ LiftoffMin \in Nat \ {0} /\ BurnoutMin \in Nat /\ BurnMax \in Nat
  /\ ApogeeMin \in Nat /\ ApogeeMax \in Nat
  /\ LandedConfirm \in Nat \ {0} /\ AltRing \in Nat
  /\ LiftoffMin <= BurnMax /\ BurnoutMin <= BurnMax
  /\ ApogeeMin <= BurnMax /\ ApogeeMax <= BurnMax

VARIABLES
  current,       \* current
  forced,        \* forced_phase
  baselined,     \* baseline_alt is set
  peaked,        \* peak_agl has reached minFlightAltGainM
  impacted,      \* impact_flag
  altitudes,     \* alt_count, up to AltRing
  quietAccum,    \* quiet_accum_ms, up to LandedConfirm
  phaseAge,      \* phase_since_ms as an age
  conditionAge   \* condition_since_ms as an age

vars == <<current, forced, baselined, peaked, impacted, altitudes, quietAccum,
          phaseAge, conditionAge>>

Unset == -1
AgeTop == BurnMax + 1   \* ages saturate over the largest threshold

TypeOK ==
  /\ current \in FlightPhase
  /\ forced \in BOOLEAN
  /\ baselined \in BOOLEAN
  /\ peaked \in BOOLEAN
  /\ impacted \in BOOLEAN
  /\ altitudes \in 0 .. AltRing
  /\ quietAccum \in 0 .. LandedConfirm
  /\ phaseAge \in 0 .. AgeTop
  /\ conditionAge \in Unset .. AgeTop

\* begin(), which calls reset().
Init ==
  /\ current = "PRELAUNCH"
  /\ forced = FALSE
  /\ baselined = FALSE
  /\ peaked = FALSE
  /\ impacted = FALSE
  /\ altitudes = 0
  /\ quietAccum = 0
  /\ phaseAge = AgeTop
  /\ conditionAge = Unset

Sample ==
  {s \in [accel : {"quiet", "low", "mid", "hot", "impact"}, steady : BOOLEAN,
          vz : {"still", "rising", "falling", "sinking"},
          agl : {"low", "half", "gain"}, baro : BOOLEAN] :
     ~s.baro => s.vz = "still"}

-----------------------------------------------------------------------------
(* What every valid sample updates before the phase is looked at.          *)

Least(a, b) == IF a < b THEN a ELSE b

\* heldMs(): an age at the sample that comes dt after the last one.
Held(age, dt) == IF age = Unset THEN 0 ELSE Least(age + dt, AgeTop)

\* Without a baseline the altitude gain is taken as 0.
Agl_NoBaseline(s) == s.agl

Agl(s) == IF baselined THEN s.agl ELSE "low"

\* The baseline, the altitude ring and the peak altitude.
Observe(s) ==
  /\ baselined' = (baselined \/ s.baro)
  /\ altitudes' = IF s.baro THEN Least(altitudes + 1, AltRing) ELSE altitudes
  /\ peaked' = (peaked \/ (baselined /\ s.baro /\ s.agl = "gain"))
  /\ UNCHANGED forced

\* setPhase()
Enter(p) ==
  /\ current' = p
  /\ phaseAge' = 0
  /\ conditionAge' = 0
  /\ quietAccum' = 0

\* The phase stays, its condition has held for the age cond.
Stay(cond, dt) ==
  /\ conditionAge' = cond
  /\ phaseAge' = Held(phaseAge, dt)
  /\ UNCHANGED <<current, quietAccum>>

-----------------------------------------------------------------------------
(* One action per case of the switch in update().                          *)

Hot(s) == s.accel \in {"hot", "impact"}

LiftoffHeld_AnySpike(s, dt) == TRUE

\* The acceleration has been over the threshold for long enough.
LiftoffHeld(s, dt) == Held(conditionAge, dt) >= LiftoffMin

\* care is the argument armed_or_countdown, or near_ign.
Prelaunch(s, dt, care) ==
  /\ current = "PRELAUNCH"
  /\ IF ~(care /\ Hot(s)) THEN Stay(0, dt)
     ELSE IF LiftoffHeld(s, dt) THEN Enter("LIFTOFF")
     ELSE Stay(Held(conditionAge, dt), dt)
  /\ UNCHANGED impacted

Liftoff_BurnoutAtOnce(s) ==
  /\ current = "LIFTOFF"
  /\ Enter(IF s.accel \in {"quiet", "low"} THEN "COAST" ELSE "POWERED_ASCENT")
  /\ UNCHANGED impacted

\* The first sample after the liftoff: no burnout is seen in this call.
Liftoff(s) ==
  /\ current = "LIFTOFF"
  /\ Enter("POWERED_ASCENT")
  /\ UNCHANGED impacted

BurnOver_NoTimeout(s, dt) ==
  s.accel \in {"quiet", "low"} /\ Held(phaseAge, dt) > BurnoutMin

BurnOver(s, dt) ==
  \/ s.accel \in {"quiet", "low"} /\ Held(phaseAge, dt) > BurnoutMin
  \/ Held(phaseAge, dt) > BurnMax

Burn(s, dt) ==
  /\ current = "POWERED_ASCENT"
  /\ IF BurnOver(s, dt) THEN Enter("COAST") ELSE Stay(Held(conditionAge, dt), dt)
  /\ UNCHANGED impacted

Coast(s, dt) ==
  /\ current = "COAST"
  /\ IF Agl(s) = "gain" /\ s.vz \in {"still", "sinking"}
       THEN IF Held(conditionAge, dt) >= ApogeeMin
              THEN Enter("APOGEE")
              ELSE Stay(Held(conditionAge, dt), dt)
     ELSE IF Agl(s) \in {"half", "gain"} /\ s.vz \in {"falling", "sinking"}
       THEN Enter("DESCENT")
       ELSE Stay(0, dt)
  /\ UNCHANGED impacted

Apogee(s, dt) ==
  /\ current = "APOGEE"
  /\ IF s.vz \in {"falling", "sinking"} \/ Held(phaseAge, dt) > ApogeeMax
       THEN Enter("DESCENT")
       ELSE Stay(Held(conditionAge, dt), dt)
  /\ UNCHANGED impacted

\* quiet_accel, quiet_gyro, quiet_vz and quiet_alt, after pushAlt().
Quiet(s) ==
  s.accel = "quiet" /\ s.steady /\ s.vz = "still" /\ altitudes' = AltRing

HadFlight == peaked' \/ impacted'

QuietTime_Confirmed(s, dt) ==
  IF HadFlight /\ Quiet(s) THEN LandedConfirm
  ELSE IF quietAccum > 2 * dt THEN quietAccum - 2 * dt ELSE 0

\* quiet_accum_ms grows over quiet samples and leaks twice as fast.
QuietTime(s, dt) ==
  IF HadFlight /\ Quiet(s) THEN Least(quietAccum + dt, LandedConfirm)
  ELSE IF quietAccum > 2 * dt THEN quietAccum - 2 * dt ELSE 0

Fall(s, dt) ==
  /\ current \in {"DESCENT", "IMPACT"}
  /\ impacted' = (impacted \/ s.accel = "impact")
  /\ IF s.accel = "impact" /\ current # "IMPACT" THEN Enter("IMPACT")
     ELSE IF QuietTime(s, dt) >= LandedConfirm THEN Enter("LANDED")
     ELSE /\ quietAccum' = QuietTime(s, dt)
          /\ conditionAge' = Held(conditionAge, dt)
          /\ phaseAge' = Held(phaseAge, dt)
          /\ UNCHANGED current

Rest(dt) ==
  /\ current = "LANDED"
  /\ Stay(Held(conditionAge, dt), dt)
  /\ UNCHANGED impacted

\* update() on a valid sample: an injected phase stops it altogether.
Update(s, dt, care) ==
  /\ ~forced
  /\ Observe(s)
  /\ \/ Prelaunch(s, dt, care)
     \/ Liftoff(s)
     \/ Burn(s, dt)
     \/ Coast(s, dt)
     \/ Apogee(s, dt)
     \/ Fall(s, dt)
     \/ Rest(dt)

\* injectPhase(): the timers keep what they had.
InjectPhase(p) ==
  /\ forced' = TRUE
  /\ current' = p
  /\ UNCHANGED <<baselined, peaked, impacted, altitudes, quietAccum, phaseAge,
                 conditionAge>>

AnyUpdate == \E s \in Sample, dt \in 1 .. MaxGap, care \in BOOLEAN : Update(s, dt, care)

Next == AnyUpdate \/ \E p \in {"LIFTOFF", "LANDED"} : InjectPhase(p)

Spec == Init /\ [][Next]_vars

-----------------------------------------------------------------------------
\* The phases follow one another as FlightRecorder assumes, one per sample,
\* whatever the samples look like and however long their gaps are.
OrderedPhases ==
  [][~forced' /\ current' # current => current' \in Successors[current]]_vars

\* A flight is never seen to turn around without a baseline for its altitude.
TurnNeedsBaseline ==
  ~forced /\ current \in {"APOGEE", "DESCENT", "IMPACT", "LANDED"} => baselined

\* Under fairness: flight_detect.cpp, "safety: model motors burn out quickly": no phase that ends
\* by a timer lasts for ever, whatever the accelerometer shows.
TimedPhasesEnd ==
  \A p \in {"LIFTOFF", "POWERED_ASCENT", "APOGEE"} :
    current = p /\ ~forced ~> current # p \/ forced
=============================================================================
