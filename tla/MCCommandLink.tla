---------------------------- MODULE MCCommandLink ----------------------------
(***************************************************************************)
(* Four critical commands against a cache of two and a queue of two: three *)
(* with ids of their own and one without; a command that is not critical   *)
(* and shares an id with one, and a malformed one.                         *)
(***************************************************************************)
EXTENDS CommandLink

SomeRequests ==
  {[cmd |-> "arm", id |-> 1], [cmd |-> "abort", id |-> 2], [cmd |-> "disarm", id |-> 3],
   [cmd |-> "reset", id |-> 0], [cmd |-> "countdown_update", id |-> 2],
   [cmd |-> "", id |-> 0]}
=============================================================================
