----------------------------- MODULE CommandLink -----------------------------
(***************************************************************************)
(* The way of a command: written by a dashboard over BLE, queued by the    *)
(* NimBLE host task (ble_server.cpp), taken and answered by missionTask    *)
(* (command_handler.cpp), which recognises repeated message ids.           *)
(*                                                                         *)
(* A request is a command with its message id; the dashboard may write any *)
(* of them at any time and as often as it likes.  What a command does, and *)
(* with it whether it is accepted, is left open: MissionFsm has that.      *)
(* Its id is msg_id, or seq where there is none, or else 0.  Texts that    *)
(* are too long and cut off by onWrite() are left out.                     *)
(***************************************************************************)
EXTENDS MissionTypes, Integers, Sequences

CONSTANTS
  Requests,   \* what the dashboard sends
  QueueLen,   \* BLE_CMD_QUEUE_LEN
  CacheSize   \* BLE_MSG_ID_CACHE

ASSUME QueueAssumption == QueueLen \in Nat \ {0}
ASSUME CacheAssumption == CacheSize \in Nat \ {0}
ASSUME RequestAssumption == Requests \subseteq [cmd : STRING, id : Nat]

\* The commands whose repetition is recognised; the empty one is malformed.
CriticalCmds ==
  {"arm", "disarm", "start_recording", "stop_recording", "countdown_start",
   "set_expected_ignition", "countdown_cancel", "abort", "reset"}

Critical(r) == r.cmd \in CriticalCmds

Guarded == {r \in Requests : Critical(r) /\ r.id # 0}

\* The dashboard gives each of its critical commands an id of its own, also
\* across reconnects: the cache knows nothing but the id.
ASSUME UniqueIds == \A r, q \in Guarded : r.id = q.id => r = q

Slots == 0 .. CacheSize - 1

VARIABLES
  cmdQueue,   \* cmd_q
  connected,  \* connected_count > 0
  idCache,    \* id_cache
  idNext,     \* id_cache_i % BLE_MSG_ID_CACHE
  owed,       \* history: requests the queue took on this connection, unanswered
  answer,     \* history: the last answer
  turn        \* history: changes with every answer

vars == <<cmdQueue, connected, idCache, idNext, owed, answer, turn>>

TypeOK ==
  /\ cmdQueue \in Seq(Requests) /\ Len(cmdQueue) <= QueueLen
  /\ connected \in BOOLEAN
  /\ idCache \in [Slots -> Nat]
  /\ idNext \in Slots
  /\ owed \subseteq Requests

Init ==
  /\ cmdQueue = <<>>
  /\ connected = FALSE
  /\ idCache = [p \in Slots |-> 0]
  /\ idNext = 0
  /\ owed = {}
  /\ answer = <<>>
  /\ turn = FALSE

-----------------------------------------------------------------------------
(* NimBLE host task.                                                       *)

Connect ==
  /\ ~connected
  /\ connected' = TRUE
  /\ UNCHANGED <<cmdQueue, idCache, idNext, owed, answer, turn>>

\* The queue keeps what it has; the answers to it will reach nobody.
Disconnect ==
  /\ connected
  /\ connected' = FALSE
  /\ owed' = {}
  /\ UNCHANGED <<cmdQueue, idCache, idNext, answer, turn>>

HasRoom == Len(cmdQueue) < QueueLen

Enqueued_OldestDropped(r) == IF HasRoom THEN Append(cmdQueue, r) ELSE Append(Tail(cmdQueue), r)

\* xQueueSend() without waiting: a full queue stays as it is.
Enqueued(r) == IF HasRoom THEN Append(cmdQueue, r) ELSE cmdQueue

\* onWrite()
Write(r) ==
  /\ connected
  /\ cmdQueue' = Enqueued(r)
  /\ owed' = IF HasRoom THEN owed \cup {r} ELSE owed
  /\ UNCHANGED <<connected, idCache, idNext, answer, turn>>

-----------------------------------------------------------------------------
(* missionTask: serviceCommands() and handleJson().                        *)

\* alreadyProcessed()
AlreadyProcessed(id) == id # 0 /\ \E p \in Slots : idCache[p] = id

\* rememberProcessed(); the counter wraps at a multiple of the cache size.
RememberProcessed(id) ==
  IF id = 0
    THEN UNCHANGED <<idCache, idNext>>
    ELSE /\ idCache' = [idCache EXCEPT ![idNext] = id]
         /\ idNext' = IF idNext = CacheSize - 1 THEN 0 ELSE idNext + 1

Duplicate(r) == Critical(r) /\ AlreadyProcessed(r.id)

Remembered_Always(r, result) == Critical(r)

\* A command that was refused may be tried again.
Remembered(r, result) == Critical(r) /\ result \in {"ACK", "IGNORED"}

\* handleJson(): the answer to r, and what is kept of it.
HandleJson(r, result) ==
  \/ /\ Duplicate(r)
     /\ result = "duplicate"
     /\ UNCHANGED <<idCache, idNext>>
  \/ /\ ~Duplicate(r)
     /\ result \in CmdResult
     /\ r.cmd = "" => result = "NACK"
     /\ IF Remembered(r, result) THEN RememberProcessed(r.id)
                                 ELSE UNCHANGED <<idCache, idNext>>

Taken_Newest == cmdQueue[Len(cmdQueue)]

\* xQueueReceive()
Taken == Head(cmdQueue)

\* One round of serviceCommands(); without a connection nobody gets the answer.
Serve ==
  /\ cmdQueue # <<>>
  /\ cmdQueue' = Tail(cmdQueue)
  /\ \E result \in CmdResult \cup {"duplicate"} :
       /\ HandleJson(Taken, result)
       /\ answer' = <<Taken, result>>
  /\ turn' = ~turn
  /\ owed' = owed \ {Taken}
  /\ UNCHANGED connected

\* The watchdog, an update or the battery: all of this is in RAM.
Restart ==
  /\ cmdQueue' = <<>>
  /\ connected' = FALSE
  /\ idCache' = [p \in Slots |-> 0]
  /\ idNext' = 0
  /\ owed' = {}
  /\ UNCHANGED <<answer, turn>>

Next ==
  \/ Connect \/ Disconnect
  \/ \E r \in Requests : Write(r)
  \/ Serve
  \/ Restart

Spec == Init /\ [][Next]_vars

\* missionTask comes around every 20 ms.  Dashboards and the link do as they like.
FairSpec == Spec /\ WF_vars(Serve)

-----------------------------------------------------------------------------
\* The slots that are overwritten before p is.
SlotsAhead(p) == IF p >= idNext THEN p - idNext ELSE p - idNext + CacheSize

\* The acceptances since that of r, read off the ring: the newest entry is the
\* one that is overwritten last.
Since(r) ==
  IF AlreadyProcessed(r.id)
    THEN CacheSize - 1 - SlotsAhead(CHOOSE p \in Slots : idCache[p] = r.id)
    ELSE CacheSize

Promise == INSTANCE CommandPromise
  WITH Others <- Requests \ Guarded, Window <- CacheSize,
       since <- [r \in Guarded |-> Since(r)]

\* README.md, "idempotent commands": a command that is repeated, in whatever
\* order with others and across lost answers, lost links and full queues, is
\* carried out once in any CacheSize accepted ones, and only then is it called
\* a duplicate.  The ring of ids implements CommandPromise.
ImplementsPromise == Promise!Spec

\* A command that found room in the queue stays there until it is answered or
\* the link is lost: only a write to a full queue is dropped, never one before.
OwedIsQueued == \A r \in owed : \E i \in 1 .. Len(cmdQueue) : cmdQueue[i] = r

\* Such a command is answered, however many others keep coming.
OwedIsAnswered == \A r \in Requests : r \in owed ~> r \notin owed

=============================================================================
