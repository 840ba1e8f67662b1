-------------------------- MODULE FlightLifecycle --------------------------
(***************************************************************************)
(* What the recorder promises about a flight, whatever commands, samples,  *)
(* BLE events and timeouts its tasks interleave: the rocket is on the      *)
(* ground, then in flight, then landed, and only a reset after the landing *)
(* (or a forced one in flight) begins a new cycle.                         *)
(***************************************************************************)

CONSTANT ForcedResets  \* whether a dashboard may force a reset in flight

VARIABLE life

Init == life = "ground"

Launch == life = "ground" /\ life' = "flight"

Land == life = "flight" /\ life' = "landed"

Recover == life = "landed" /\ life' = "ground"

Forget == ForcedResets /\ life = "flight" /\ life' = "ground"

Next == Launch \/ Land \/ Recover \/ Forget

Spec == Init /\ [][Next]_life
=============================================================================
