-------------------------- MODULE MCStorageSession --------------------------
(***************************************************************************)
(* StorageSession on a small card: one base and one suffix are two names,  *)
(* and the second is that of a session whose base was taken, however often *)
(* that suffix comes, which is all that one session can do to another.     *)
(* Sessions, power losses, reads and deletions are not bounded.            *)
(***************************************************************************)
EXTENDS StorageSession
=============================================================================
