--------------------------- MODULE StorageSession ---------------------------
(***************************************************************************)
(* src/storage.cpp: the flights on the SD card, through power losses.      *)
(*                                                                         *)
(* storageTask opens and closes a session in many calls to the card;       *)
(* missionTask exports and deletes flights meanwhile, and asks for the     *)
(* start and the stop of a recording.  One call to the card is one step.   *)
(* A power loss (or any other restart) may fall between any two of them    *)
(* and leaves the card as it is.                                           *)
(*                                                                         *)
(* A flight is a directory with its data files (telemetry, events, video), *)
(* metadata.json and incomplete.flag.  Of the data files it is kept        *)
(* whether all that was written to them has reached the card.              *)
(*                                                                         *)
(* Left out: what the files contain, how much space is free, the attempts  *)
(* to mount the card, listFlights() and listFiles(), which change nothing. *)
(***************************************************************************)
EXTENDS Integers

CONSTANTS
  Bases,      \* the second of a synced clock, or the count of sessions since boot
  Suffixes,   \* mono_us % 10000, appended when the name is taken
  NoSuffix

ASSUME SuffixAssumption == NoSuffix \notin Suffixes

\* The names of flights.  Bases come again: the count restarts with every boot.
Flights == [base : Bases, suffix : Suffixes \cup {NoSuffix}]

VARIABLES
  card,        \* the directories below FLIGHTS_DIR
  st,          \* st
  sessionOpen, \* session_open
  sessionDir,  \* session_dir
  storagePc,   \* what storageTask does next
  reading,     \* the flight of read_path, while read_open
  deleting,    \* the flight missionTask is inside removeTree() of, if any
  doomed,      \* history: flights whose deletion has begun
  recordingActive, requestStart, requestStop  \* of the mission state machine

storageVars == <<st, sessionOpen, sessionDir, storagePc>>
exportVars == <<reading, deleting, doomed>>
requestVars == <<recordingActive, requestStart, requestStop>>
vars == <<card, storageVars, exportVars, requestVars>>

OpenPcs == {"mkdir", "files", "flag", "open", "meta", "metaText"}
ClosePcs == {"flush", "doneMeta", "doneText", "unflag", "close"}

\* retaken is history: the files are those of a session that took the name of an
\* older flight and has not written its own metadata yet.
Absent == [there |-> FALSE, data |-> "none", flag |-> FALSE, meta |-> "none",
           retaken |-> FALSE]

Files == [there : BOOLEAN, data : {"none", "cut", "whole"}, flag : BOOLEAN,
          meta : {"none", "torn", "incomplete", "complete"}, retaken : BOOLEAN]

TypeOK ==
  /\ card \in [Flights -> Files]
  /\ st \in {"MISSING", "MOUNTED", "WRITING", "FULL", "ERROR"}
  /\ sessionOpen \in BOOLEAN
  /\ sessionDir \in Flights
  /\ storagePc \in {"start", "stop"} \cup OpenPcs \cup ClosePcs
  /\ reading \subseteq Flights
  /\ deleting \subseteq Flights
  /\ doomed \subseteq Flights
  /\ recordingActive \in BOOLEAN /\ requestStart \in BOOLEAN /\ requestStop \in BOOLEAN

\* What begin() leaves in st: the card may be missing, full, or refuse FLIGHTS_DIR.
BootStates == {"MISSING", "MOUNTED", "FULL", "ERROR"}

Init ==
  /\ card = [d \in Flights |-> Absent]
  /\ st \in BootStates
  /\ sessionOpen = FALSE
  /\ sessionDir \in Flights
  /\ storagePc = "start"
  /\ reading = {}
  /\ deleting = {}
  /\ doomed = {}
  /\ recordingActive = FALSE /\ requestStart = FALSE /\ requestStop = FALSE

StorageGoes(from, to) == storagePc = from /\ storagePc' = to

\* strstr(): a name also matches the names that only add a suffix to it.
Matches(dir, name) == dir = name \/ (dir.base = name.base /\ name.suffix = NoSuffix)

-----------------------------------------------------------------------------
(* missionTask: requests to the recorder, as mission_fsm.cpp leaves them.  *)
(* When it asks is left open here: FlightRecorder has the conditions.      *)

\* A command or tick() starts a recording.
AskStart ==
  /\ deleting = {}
  /\ requestStart' = TRUE
  /\ recordingActive' = TRUE
  /\ UNCHANGED <<card, storageVars, exportVars, requestStop>>

\* A disarm, a stop, a reset or tick() ends one.
AskStop ==
  /\ deleting = {}
  /\ requestStop' = TRUE
  /\ recordingActive' = FALSE
  /\ UNCHANGED <<card, storageVars, exportVars, requestStart>>

-----------------------------------------------------------------------------
(* storageTask: openSession().                                             *)

\* openSession() returns false and markRecordingFailed() follows.
OpenFails ==
  /\ storagePc' = "stop"
  /\ recordingActive' = FALSE

\* No request: the pass goes on with the stops.
NoStart ==
  /\ StorageGoes("start", "stop")
  /\ ~requestStart
  /\ UNCHANGED <<card, st, sessionOpen, sessionDir, exportVars, requestVars>>

\* A session is open already.
StartAgain ==
  /\ StorageGoes("start", "stop")
  /\ requestStart /\ sessionOpen
  /\ requestStart' = FALSE
  /\ recordingActive' = TRUE
  /\ UNCHANGED <<card, st, sessionOpen, sessionDir, exportVars, requestStop>>

\* The card is missing, broken or full.
StartRefused ==
  /\ storagePc = "start"
  /\ requestStart /\ ~sessionOpen
  /\ st' = IF st \in {"MISSING", "ERROR"} THEN st ELSE "FULL"
  /\ requestStart' = FALSE
  /\ OpenFails
  /\ UNCHANGED <<card, sessionOpen, sessionDir, exportVars, requestStop>>

NewName_NotChecked(d) == d.suffix = NoSuffix

\* A base that is taken gets a suffix, any of them: whether a flight has that name
\* as well is not asked.
NewName(d) == d.suffix # NoSuffix <=> card[[d EXCEPT !.suffix = NoSuffix]].there

StartSession(d) ==
  /\ StorageGoes("start", "mkdir")
  /\ requestStart /\ ~sessionOpen
  /\ st \notin {"MISSING", "ERROR"}
  /\ NewName(d)
  /\ sessionDir' = d
  /\ requestStart' = FALSE
  /\ UNCHANGED <<card, st, sessionOpen, exportVars, recordingActive, requestStop>>

\* ensureDir() is content with a directory that exists.
MakeDir ==
  /\ \/ /\ StorageGoes("mkdir", "files")
        /\ card' = [card EXCEPT ![sessionDir].there = TRUE]
        /\ UNCHANGED <<st, recordingActive>>
     \/ /\ storagePc = "mkdir"
        /\ ~card[sessionDir].there
        /\ st' = "ERROR"
        /\ OpenFails
        /\ UNCHANGED card
  /\ UNCHANGED <<sessionOpen, sessionDir, exportVars, requestStart, requestStop>>

\* The three files are created or truncated.
FilesOpened(f) == [f EXCEPT !.data = "cut", !.retaken = f.data # "none" \/ f.meta # "none"]

\* One that cannot be opened leaves the others behind.
OpenFiles ==
  /\ \/ /\ StorageGoes("files", "flag")
        /\ card[sessionDir].there
        /\ card' = [card EXCEPT ![sessionDir] = FilesOpened(card[sessionDir])]
        /\ UNCHANGED <<st, recordingActive>>
     \/ /\ storagePc = "files"
        /\ \/ UNCHANGED card
           \/ /\ card[sessionDir].there
              /\ card' = [card EXCEPT ![sessionDir] = FilesOpened(card[sessionDir])]
        /\ st' = "ERROR"
        /\ OpenFails
  /\ UNCHANGED <<sessionOpen, sessionDir, exportVars, requestStart, requestStop>>

\* A flag that cannot be created is not missed.
MakeFlag ==
  /\ StorageGoes("flag", "open")
  /\ \/ card[sessionDir].there /\ card' = [card EXCEPT ![sessionDir].flag = TRUE]
     \/ UNCHANGED card
  /\ UNCHANGED <<st, sessionOpen, sessionDir, exportVars, requestVars>>

SetOpen ==
  /\ StorageGoes("open", "meta")
  /\ sessionOpen' = TRUE
  /\ st' = "WRITING"
  /\ UNCHANGED <<card, sessionDir, exportVars, requestVars>>

\* writeMetadataJson(): the file is truncated, and then written and closed.
MetaTruncated(from, to, skip) ==
  /\ \/ /\ StorageGoes(from, to)
        /\ card[sessionDir].there
        /\ card' = [card EXCEPT ![sessionDir].meta = "torn", ![sessionDir].retaken = FALSE]
     \/ StorageGoes(from, skip) /\ UNCHANGED card
  /\ UNCHANGED <<st, sessionOpen, sessionDir, exportVars>>

MetaWritten(from, to, text) ==
  /\ StorageGoes(from, to)
  /\ card' = IF card[sessionDir].there THEN [card EXCEPT ![sessionDir].meta = text] ELSE card
  /\ UNCHANGED <<st, sessionOpen, sessionDir, exportVars>>

\* writeMetadataJson(true), the end of openSession() and markRecordingActive().
OpenMeta ==
  /\ MetaTruncated("meta", "metaText", "stop")
  /\ recordingActive' = (recordingActive \/ storagePc' = "stop")
  /\ UNCHANGED <<requestStart, requestStop>>

OpenDone ==
  /\ MetaWritten("metaText", "stop", "incomplete")
  /\ recordingActive' = TRUE
  /\ UNCHANGED <<requestStart, requestStop>>

-----------------------------------------------------------------------------
(* storageTask: closeSession() and the writes in between.                  *)

\* No stop is asked for, or there is no session: the pass ends.
NoStop ==
  /\ StorageGoes("stop", "start")
  /\ ~(requestStop /\ sessionOpen)
  /\ requestStop' = FALSE
  /\ recordingActive' = (recordingActive /\ ~requestStop)
  /\ UNCHANGED <<card, st, sessionOpen, sessionDir, exportVars, requestStart>>

StopSession_MetaFirst ==
  /\ StorageGoes("stop", "doneMeta")
  /\ requestStop /\ sessionOpen
  /\ requestStop' = FALSE
  /\ UNCHANGED <<card, st, sessionOpen, sessionDir, exportVars, recordingActive, requestStart>>

StopSession ==
  /\ StorageGoes("stop", "flush")
  /\ requestStop /\ sessionOpen
  /\ requestStop' = FALSE
  /\ UNCHANGED <<card, st, sessionOpen, sessionDir, exportVars, recordingActive, requestStart>>

\* serviceEvents() and flush(); nothing is written to the data files after it.
\* The code sees no write or flush fail, and here none does.
CloseFlush ==
  /\ StorageGoes("flush", "doneMeta")
  /\ card' = IF card[sessionDir].data = "cut"
               THEN [card EXCEPT ![sessionDir].data = "whole"] ELSE card
  /\ UNCHANGED <<st, sessionOpen, sessionDir, exportVars, requestVars>>

\* writeMetadataJson(false)
CloseMeta == MetaTruncated("doneMeta", "doneText", "unflag") /\ UNCHANGED requestVars

CloseMetaText == MetaWritten("doneText", "unflag", "complete") /\ UNCHANGED requestVars

\* The files are closed and the flag is removed, if it can be.
RemoveFlag ==
  /\ StorageGoes("unflag", "close")
  /\ \/ card' = [card EXCEPT ![sessionDir].flag = FALSE]
     \/ UNCHANGED card
  /\ UNCHANGED <<st, sessionOpen, sessionDir, exportVars, requestVars>>

\* The end of closeSession() and markRecordingStopped().
SetClosed ==
  /\ StorageGoes("close", "start")
  /\ sessionOpen' = FALSE
  /\ st' \in {"MOUNTED", "FULL"}
  /\ recordingActive' = FALSE
  /\ UNCHANGED <<card, sessionDir, exportVars, requestStart, requestStop>>

StorageStep ==
  \/ NoStart \/ StartAgain \/ StartRefused
  \/ \E d \in Flights : StartSession(d)
  \/ MakeDir \/ OpenFiles \/ MakeFlag \/ SetOpen \/ OpenMeta \/ OpenDone
  \/ NoStop \/ StopSession \/ CloseFlush \/ CloseMeta \/ CloseMetaText \/ RemoveFlag
  \/ SetClosed

-----------------------------------------------------------------------------
(* missionTask: export and deletion.                                       *)

ReadyForTransfer == st \in {"MOUNTED", "WRITING", "FULL"}

\* A flight with this name is being recorded, as far as session_open tells.
BeingRecorded(d) == sessionOpen /\ Matches(sessionDir, d)

\* beginFileRead() of one of the files of d; it ends the read before it.
BeginFileRead(d) ==
  /\ deleting = {}
  /\ \/ /\ ReadyForTransfer
        /\ ~BeingRecorded(d)
        /\ card[d].data # "none" \/ card[d].meta # "none"
        /\ reading' = {d}
     \/ reading' = {}
  /\ UNCHANGED <<card, storageVars, deleting, doomed, requestVars>>

EndFileRead ==
  /\ deleting = {}
  /\ reading' = {}
  /\ UNCHANGED <<card, storageVars, deleting, doomed, requestVars>>

StillRead_Always(d) == reading

\* deleteFlight() first ends a read of what it deletes.
StillRead(d) == {r \in reading : ~Matches(r, d)}

\* deleteFlight(), up to removeTree(); delete_flight is refused while recording.
DeleteFlight(d) ==
  /\ deleting = {}
  /\ ~recordingActive
  /\ ReadyForTransfer
  /\ ~BeingRecorded(d)
  /\ card[d].there
  /\ reading' = StillRead(d)
  /\ deleting' = {d}
  /\ doomed' = doomed \cup {d}
  /\ UNCHANGED <<card, storageVars, requestVars>>

\* removeTree(): the files go one by one and the directory last, or it gives up.
RemoveTree(d) ==
  /\ d \in deleting
  /\ \/ /\ card[d].data # "none"
        /\ \E left \in {"cut", "none"} : card' = [card EXCEPT ![d].data = left]
        /\ UNCHANGED deleting
     \/ card' = [card EXCEPT ![d].flag = FALSE] /\ UNCHANGED deleting
     \/ card' = [card EXCEPT ![d].meta = "none"] /\ UNCHANGED deleting
     \/ /\ card[d].data = "none" /\ ~card[d].flag /\ card[d].meta = "none"
        /\ card' = [card EXCEPT ![d] = Absent]
        /\ deleting' = {}
     \/ UNCHANGED card /\ deleting' = {}
  /\ doomed' = {e \in doomed : card'[e].there}
  /\ UNCHANGED <<storageVars, reading, requestVars>>

Dashboard ==
  \/ AskStart \/ AskStop \/ EndFileRead
  \/ \E d \in Flights : BeginFileRead(d) \/ DeleteFlight(d)

-----------------------------------------------------------------------------
(* A power loss, and begin() after it: recoverOrphanSessions() looks at    *)
(* the flags and changes nothing.                                          *)

PowerLoss ==
  /\ st' \in BootStates
  /\ sessionOpen' = FALSE
  /\ storagePc' = "start"
  /\ reading' = {}
  /\ deleting' = {}
  /\ recordingActive' = FALSE /\ requestStart' = FALSE /\ requestStop' = FALSE
  /\ UNCHANGED <<card, sessionDir, doomed>>

Next ==
  \/ Dashboard
  \/ StorageStep
  \/ \E d \in Flights : RemoveTree(d)
  \/ PowerLoss

Spec == Init /\ [][Next]_vars

-----------------------------------------------------------------------------
\* The flights a later session has drawn the name of, suffix and all, and has
\* truncated the files of, while the metadata is still the older flight's.
Overwritten == {d \in Flights : d.suffix # NoSuffix /\ card[d].retaken}

\* Whenever the power goes: a flight whose metadata says that it is complete has
\* everything on the card that was written to it, unless its deletion has begun or
\* a later session with the same suffix was cut off before its own metadata.
CompleteIsWhole ==
  \A d \in Flights \ (doomed \cup Overwritten) :
    card[d].meta = "complete" => card[d].data = "whole"

\* A flight that is whole stays so, however often the device restarts, until a
\* dashboard deletes it, or until a later session draws its suffix: openSession()
\* looks for the name without a suffix only, so no flight without one is lost.
OldFlightsKept ==
  [][\A d \in Flights \ (doomed' \cup Overwritten') :
       card[d].data = "whole" => card'[d].data = "whole"]_vars

\* The files of a flight that is being exported are not taken away while the read
\* goes on, whatever is deleted, and only a session that draws its suffix truncates
\* them.
ExportIsStable ==
  [][\A d \in (reading \cap reading') \ Overwritten' :
       card[d].data = "whole" => card'[d].data = "whole"]_vars

\* storage.h, "Mark incomplete sessions after crash recovery": while nothing is
\* being opened or closed, a flight whose files were cut off carries its flag,
\* which is all that listFlights() goes by.
OrphansAreMarked ==
  storagePc = "start" /\ ~sessionOpen =>
    \A d \in Flights \ doomed : card[d].data = "cut" => card[d].flag

=============================================================================
