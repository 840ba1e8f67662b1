--------------------------- MODULE CommandPromise ---------------------------
(***************************************************************************)
(* What the command handler promises a dashboard that repeats a request    *)
(* because its answer was lost: a request that has been accepted is not    *)
(* carried out again until Window other requests were accepted, or the     *)
(* device restarted; and "duplicate" is only said of such a request.       *)
(***************************************************************************)
EXTENDS Naturals, Sequences

CONSTANTS
  Guarded,  \* the requests the promise is made for
  Others,   \* all other requests
  Window

VARIABLES
  since,   \* acceptances of other requests since that of a request; Window if
           \* it was never accepted, or longer ago
  answer,  \* the last answer: the request and the result
  turn     \* changes with every answer, so that equal answers are two steps

vars == <<since, answer, turn>>

Forgotten == [r \in Guarded |-> Window]

Init ==
  /\ since = Forgotten
  /\ answer = <<>>
  /\ turn = FALSE

Answer(r, result) == answer' = <<r, result>> /\ turn' = ~turn

Older(n) == IF n = Window THEN Window ELSE n + 1

Perform(r, result) ==
  /\ since[r] = Window
  /\ since' = [q \in Guarded |-> IF q = r THEN 0 ELSE Older(since[q])]
  /\ Answer(r, result)

Refuse(r, result) ==
  /\ since[r] = Window
  /\ Answer(r, result)
  /\ UNCHANGED since

Repeat(r) ==
  /\ since[r] < Window
  /\ Answer(r, "duplicate")
  /\ UNCHANGED since

Other(r, result) == Answer(r, result) /\ UNCHANGED since

Restart == since' = Forgotten /\ UNCHANGED <<answer, turn>>

Next ==
  \/ \E r \in Guarded :
       \/ \E result \in {"ACK", "IGNORED"} : Perform(r, result)
       \/ \E result \in {"REJECTED", "NACK"} : Refuse(r, result)
       \/ Repeat(r)
  \/ \E r \in Others, result \in {"ACK", "IGNORED", "REJECTED", "NACK"} : Other(r, result)
  \/ Restart

Spec == Init /\ [][Next]_vars
=============================================================================
