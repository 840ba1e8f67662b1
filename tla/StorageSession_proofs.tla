----------------------- MODULE StorageSession_proofs -----------------------
(***************************************************************************)
(* Proofs about StorageSession, for any bases and suffixes.                *)
(***************************************************************************)
EXTENDS StorageSession, TLAPS

-----------------------------------------------------------------------------
(* The invariant behind all three properties.                              *)

\* session_open is set last when a session is opened, and cleared last.
SessionOpenIsLate ==
  /\ storagePc \in {"mkdir", "files", "flag", "open"} => ~sessionOpen
  /\ storagePc \in ClosePcs \cup {"meta", "metaText"} => sessionOpen

\* A flight that no deletion has touched.
Spared(d) == card[d].there /\ d \notin doomed

\* A name without a suffix is of no older flight, so that nothing is in it before
\* openSession() creates its files.
NameIsFresh ==
  storagePc \in {"mkdir", "files"} /\ sessionDir.suffix = NoSuffix =>
    card[sessionDir].data = "none" /\ card[sessionDir].meta = "none"

\* From then on there are data files, and after flush() they are whole.
FilesFollow ==
  /\ sessionOpen \/ storagePc \in {"flag", "open"} =>
       (Spared(sessionDir) => card[sessionDir].data # "none")
  /\ storagePc \in {"doneMeta", "doneText"} =>
       (Spared(sessionDir) => card[sessionDir].data = "whole")

\* A removed flight leaves nothing, and what is being deleted is doomed and
\* not being read.
DeletionsAreKnown ==
  /\ \A d \in Flights : ~card[d].there => card[d].data = "none" /\ card[d].meta = "none"
  /\ \A d \in doomed : card[d].there
  /\ deleting \subseteq doomed
  /\ reading \cap deleting = {}

StorageInv ==
  SessionOpenIsLate /\ NameIsFresh /\ FilesFollow /\ DeletionsAreKnown /\ CompleteIsWhole

-----------------------------------------------------------------------------
(* Type correctness: the card, and the rest.                               *)

\* What truncating the files of a flight leaves.
LEMMA Opened ==
  ASSUME NEW f \in Files
  PROVE  /\ FilesOpened(f) \in Files
         /\ FilesOpened(f).data = "cut"
         /\ FilesOpened(f).there = f.there /\ FilesOpened(f).meta = f.meta
         /\ FilesOpened(f).retaken = (f.data # "none" \/ f.meta # "none")
BY DEF FilesOpened, Files

\* What a call to the card may do to a flight.
CardStep(d) ==
  \/ card' = card
  \/ card' = [card EXCEPT ![d].there = TRUE]
  \/ \E x \in {"none", "cut", "whole"} : card' = [card EXCEPT ![d].data = x]
  \/ card' = [card EXCEPT ![d] = FilesOpened(card[d])]
  \/ card' = [card EXCEPT ![d].meta = "torn", ![d].retaken = FALSE]
  \/ \E x \in BOOLEAN : card' = [card EXCEPT ![d].flag = x]
  \/ \E x \in {"none", "torn", "incomplete", "complete"} : card' = [card EXCEPT ![d].meta = x]
  \/ card' = [card EXCEPT ![d] = Absent]

\* It makes of a flight a flight.
LEMMA CardType ==
  ASSUME TypeOK, NEW d \in Flights, CardStep(d)
  PROVE  card' \in [Flights -> Files]
<1>0. card \in [Flights -> Files] /\ card[d] \in Files
  BY DEF TypeOK
<1>1. [card[d] EXCEPT !.there = TRUE] \in Files
  BY <1>0 DEF Files
<1>2. \A x \in {"none", "cut", "whole"} : [card[d] EXCEPT !.data = x] \in Files
  BY <1>0 DEF Files
<1>3. \A x \in BOOLEAN : [card[d] EXCEPT !.flag = x] \in Files
  BY <1>0 DEF Files
<1>4. \A x \in {"none", "torn", "incomplete", "complete"} : [card[d] EXCEPT !.meta = x] \in Files
  BY <1>0 DEF Files
<1>5. Absent \in Files /\ FilesOpened(card[d]) \in Files
  BY <1>0, Opened DEF Files, Absent
<1>6. [[card[d] EXCEPT !.meta = "torn"] EXCEPT !.retaken = FALSE] \in Files
  BY <1>0 DEF Files
<1>7. \A f \in Files : [card EXCEPT ![d] = f] \in [Flights -> Files]
  BY <1>0
<1>8. QED
  BY <1>0, <1>1, <1>2, <1>3, <1>4, <1>5, <1>6, <1>7 DEF CardStep

\* storageTask only changes the flight of its session.
LEMMA StorageCard ==
  ASSUME StorageStep
  PROVE  CardStep(sessionDir)
<1> USE DEF CardStep
<1>1. CASE NoStart \/ StartAgain \/ StartRefused \/ (\E d \in Flights : StartSession(d)) \/ SetOpen
  BY <1>1 DEF NoStart, StartAgain, StartRefused, StartSession, SetOpen
<1>2. CASE NoStop \/ StopSession \/ SetClosed
  BY <1>2 DEF NoStop, StopSession, SetClosed
<1>3. CASE MakeDir \/ OpenFiles \/ MakeFlag
  BY <1>3 DEF MakeDir, OpenFiles, MakeFlag
<1>4. CASE OpenMeta \/ CloseMeta
  BY <1>4 DEF OpenMeta, CloseMeta, MetaTruncated
<1>5. CASE OpenDone \/ CloseMetaText
  BY <1>5 DEF OpenDone, CloseMetaText, MetaWritten
<1>6. CASE CloseFlush \/ RemoveFlag
  BY <1>6 DEF CloseFlush, RemoveFlag
<1>7. QED
  BY <1>1, <1>2, <1>3, <1>4, <1>5, <1>6 DEF StorageStep

\* removeTree() only changes the flight it removes, and missionTask no other.
LEMMA MissionCard ==
  /\ \A d \in Flights : RemoveTree(d) => CardStep(d)
  /\ Dashboard => UNCHANGED card
<1>1. ASSUME NEW d \in Flights, RemoveTree(d) PROVE CardStep(d)
  BY <1>1, Zenon DEF RemoveTree, CardStep
<1>2. Dashboard => UNCHANGED card
  BY DEF Dashboard, AskStart, AskStop, EndFileRead, BeginFileRead, DeleteFlight
<1>3. QED
  BY <1>1, <1>2

\* The types of everything but the card.
RestTypeOK ==
  /\ st \in {"MISSING", "MOUNTED", "WRITING", "FULL", "ERROR"}
  /\ sessionOpen \in BOOLEAN
  /\ sessionDir \in Flights
  /\ storagePc \in {"start", "stop"} \cup OpenPcs \cup ClosePcs
  /\ reading \subseteq Flights
  /\ deleting \subseteq Flights
  /\ doomed \subseteq Flights
  /\ recordingActive \in BOOLEAN /\ requestStart \in BOOLEAN /\ requestStop \in BOOLEAN

\* storageTask keeps them.
LEMMA StorageType ==
  ASSUME RestTypeOK, StorageStep
  PROVE  RestTypeOK'
<1> USE DEF RestTypeOK, StorageGoes, OpenPcs, ClosePcs, exportVars, requestVars
<1>1. CASE NoStart \/ StartAgain \/ StartRefused
  BY <1>1 DEF NoStart, StartAgain, StartRefused, OpenFails
<1>2. CASE (\E d \in Flights : StartSession(d)) \/ SetOpen
  BY <1>2 DEF StartSession, SetOpen
<1>3. CASE MakeDir \/ OpenFiles \/ MakeFlag
  BY <1>3 DEF MakeDir, OpenFiles, MakeFlag, OpenFails
<1>4. CASE OpenMeta \/ CloseMeta
  BY <1>4 DEF OpenMeta, CloseMeta, MetaTruncated
<1>5. CASE OpenDone \/ CloseMetaText
  BY <1>5 DEF OpenDone, CloseMetaText, MetaWritten
<1>6. CASE NoStop \/ StopSession \/ SetClosed
  BY <1>6 DEF NoStop, StopSession, SetClosed
<1>7. CASE CloseFlush \/ RemoveFlag
  BY <1>7 DEF CloseFlush, RemoveFlag
<1>8. QED
  BY <1>1, <1>2, <1>3, <1>4, <1>5, <1>6, <1>7 DEF StorageStep

\* Export and deletion keep them.
LEMMA ExportType ==
  ASSUME RestTypeOK, Dashboard \/ \E d \in Flights : RemoveTree(d)
  PROVE  RestTypeOK'
<1> USE DEF RestTypeOK, storageVars, exportVars, requestVars
<1>1. CASE AskStart \/ AskStop \/ EndFileRead
  BY <1>1 DEF AskStart, AskStop, EndFileRead
<1>2. ASSUME NEW d \in Flights, BeginFileRead(d) \/ DeleteFlight(d) PROVE RestTypeOK'
  BY <1>2 DEF BeginFileRead, DeleteFlight, StillRead
<1>3. ASSUME NEW d \in Flights, RemoveTree(d) PROVE RestTypeOK'
  BY <1>3 DEF RemoveTree
<1>4. QED
  BY <1>1, <1>2, <1>3 DEF Dashboard

\* Every variable keeps its type, for any names of flights.
THEOREM TypeCorrect == Spec => []TypeOK
<1>1. Init => TypeOK
  <2>1. Absent \in Files
    BY DEF Absent, Files
  <2>2. QED
    BY <2>1 DEF Init, TypeOK, BootStates
<1>2. TypeOK /\ [Next]_vars => TypeOK'
  <2> SUFFICES ASSUME TypeOK, [Next]_vars PROVE TypeOK'
    OBVIOUS
  <2>1. CASE PowerLoss
    BY <2>1 DEF PowerLoss, TypeOK, BootStates
  <2>2. CASE UNCHANGED vars
    BY <2>2 DEF vars, storageVars, exportVars, requestVars, TypeOK
  <2>3. TypeOK => RestTypeOK /\ sessionDir \in Flights
    BY DEF TypeOK, RestTypeOK
  <2>4. CASE StorageStep
    BY <2>3, <2>4, StorageCard, CardType, StorageType DEF TypeOK, RestTypeOK
  <2>5. CASE Dashboard \/ \E d \in Flights : RemoveTree(d)
    BY <2>3, <2>5, MissionCard, CardType, ExportType DEF TypeOK, RestTypeOK
  <2>6. QED
    BY <2>1, <2>2, <2>4, <2>5 DEF Next
<1>3. QED
  BY <1>1, <1>2, PTL DEF Spec

-----------------------------------------------------------------------------
(* The invariant is kept, call by call.                                    *)

\* openSession() truncates the files of its own flight; those of an older flight of
\* that name are marked.
LEMMA OpenFilesKeepInv ==
  ASSUME TypeOK, StorageInv, OpenFiles
  PROVE  StorageInv'
<1> USE DEF TypeOK, OpenFiles
<1>1. CASE UNCHANGED card /\ (storagePc' = "flag" => card[sessionDir].data = "cut")
  BY <1>1 DEF StorageInv, SessionOpenIsLate, NameIsFresh, FilesFollow, DeletionsAreKnown,
              CompleteIsWhole, Overwritten, Spared, StorageGoes, OpenPcs, ClosePcs, exportVars,
              OpenFails
<1>2. CASE /\ card[sessionDir].there
           /\ card' = [card EXCEPT ![sessionDir] = FilesOpened(card[sessionDir])]
  <2>1. \A e \in Flights : e # sessionDir => card'[e] = card[e]
    BY <1>2
  <2>2. card'[sessionDir] = FilesOpened(card[sessionDir])
    BY <1>2
  <2>3. /\ card'[sessionDir].data = "cut"
        /\ card'[sessionDir].meta = card[sessionDir].meta
        /\ card'[sessionDir].there
        /\ card'[sessionDir].retaken
             = (card[sessionDir].data # "none" \/ card[sessionDir].meta # "none")
    BY <1>2, <2>2, Opened
  <2>4. CompleteIsWhole'
    <3>1. \A e \in Flights : e # sessionDir => (e \in Overwritten' <=> e \in Overwritten)
      BY <2>1 DEF Overwritten
    <3>2. sessionDir \in Overwritten' \/ card'[sessionDir].meta = "none"
      BY <2>3 DEF Overwritten, StorageInv, NameIsFresh, StorageGoes
    <3>3. doomed' = doomed /\ CompleteIsWhole
      BY DEF StorageInv, exportVars
    <3>4. QED
      BY <2>1, <2>3, <3>1, <3>2, <3>3 DEF CompleteIsWhole
  <2>5. QED
    BY <1>2, <2>1, <2>3, <2>4
       DEF StorageInv, SessionOpenIsLate, NameIsFresh, FilesFollow, DeletionsAreKnown, Spared,
           StorageGoes, OpenPcs, ClosePcs, exportVars, OpenFails
<1>3. CASE UNCHANGED card /\ storagePc' = "flag" /\ card[sessionDir].data # "cut"
  BY <1>3, Opened DEF OpenFails
<1>4. QED
  BY <1>1, <1>2, <1>3

\* openSession(): a name without suffix is fresh, and the files come before session_open.
LEMMA OpenKeepsInv ==
  ASSUME TypeOK, StorageInv,
         \/ NoStart \/ StartAgain \/ StartRefused \/ (\E d \in Flights : StartSession(d))
         \/ MakeDir \/ OpenFiles \/ MakeFlag \/ SetOpen \/ OpenMeta \/ OpenDone
  PROVE  StorageInv'
<1> USE DEF TypeOK, Files, StorageInv, SessionOpenIsLate, NameIsFresh, FilesFollow,
            DeletionsAreKnown, CompleteIsWhole, Overwritten, Spared, StorageGoes, OpenPcs,
            ClosePcs, exportVars, requestVars
<1>1. CASE NoStart \/ StartAgain \/ StartRefused
  BY <1>1 DEF NoStart, StartAgain, StartRefused, OpenFails
<1>2. ASSUME NEW d \in Flights, StartSession(d) PROVE StorageInv'
  <2>1. d.suffix = NoSuffix => ~card[d].there
    <3>1. d.suffix = NoSuffix => [d EXCEPT !.suffix = NoSuffix] = d
      BY DEF Flights
    <3>2. QED
      BY <1>2, <3>1 DEF StartSession, NewName
  <2>2. QED
    BY <1>2, <2>1 DEF StartSession
<1>3. CASE MakeDir
  BY <1>3 DEF MakeDir, OpenFails
<1>4. CASE OpenFiles
  BY <1>4, OpenFilesKeepInv
<1>5. CASE MakeFlag
  BY <1>5 DEF MakeFlag
<1>6. CASE SetOpen
  BY <1>6 DEF SetOpen
<1>7. CASE OpenMeta
  BY <1>7 DEF OpenMeta, MetaTruncated
<1>8. CASE OpenDone
  BY <1>8 DEF OpenDone, MetaWritten
<1>9. QED
  BY <1>1, <1>2, <1>3, <1>4, <1>5, <1>6, <1>7, <1>8

\* closeSession(): flush() comes before the metadata says "complete".
LEMMA CloseKeepsInv ==
  ASSUME TypeOK, StorageInv,
         \/ NoStop \/ StopSession \/ CloseFlush \/ CloseMeta \/ CloseMetaText \/ RemoveFlag
         \/ SetClosed
  PROVE  StorageInv'
<1> USE DEF TypeOK, Files, StorageInv, SessionOpenIsLate, NameIsFresh, FilesFollow,
            DeletionsAreKnown, CompleteIsWhole, Overwritten, Spared, StorageGoes, OpenPcs,
            ClosePcs, exportVars, requestVars
<1>1. CASE NoStop \/ StopSession \/ SetClosed
  BY <1>1 DEF NoStop, StopSession, SetClosed
<1>2. CASE CloseFlush
  BY <1>2 DEF CloseFlush
<1>3. CASE CloseMeta
  BY <1>3 DEF CloseMeta, MetaTruncated
<1>4. CASE CloseMetaText
  BY <1>4 DEF CloseMetaText, MetaWritten
<1>5. CASE RemoveFlag
  BY <1>5 DEF RemoveFlag
<1>6. QED
  BY <1>1, <1>2, <1>3, <1>4, <1>5

\* missionTask only ever takes flights away that it has doomed.
LEMMA ExportKeepsInv ==
  ASSUME TypeOK, StorageInv,
         Dashboard \/ \E d \in Flights : RemoveTree(d)
  PROVE  StorageInv'
<1> USE DEF TypeOK, Files, StorageInv, SessionOpenIsLate, NameIsFresh, FilesFollow, DeletionsAreKnown,
           CompleteIsWhole, Overwritten, Spared, StorageGoes, OpenPcs, ClosePcs, storageVars,
           exportVars, requestVars
<1>1. CASE AskStart \/ AskStop \/ EndFileRead
  BY <1>1 DEF AskStart, AskStop, EndFileRead
<1>2. ASSUME NEW d \in Flights, BeginFileRead(d) PROVE StorageInv'
  BY <1>2 DEF BeginFileRead
<1>3. ASSUME NEW d \in Flights, DeleteFlight(d) PROVE StorageInv'
  BY <1>3 DEF DeleteFlight, StillRead, Matches
<1>4. ASSUME NEW d \in Flights, RemoveTree(d) PROVE StorageInv'
  BY <1>4 DEF RemoveTree, Absent
<1>5. QED
  BY <1>1, <1>2, <1>3, <1>4 DEF Dashboard

\* The invariant holds from the first boot on, through every power loss.
LEMMA InvHolds == Spec => []StorageInv
<1> USE DEF StorageInv, SessionOpenIsLate, NameIsFresh, FilesFollow, DeletionsAreKnown,
            CompleteIsWhole, Overwritten, Spared
<1>1. Init => StorageInv
  BY DEF Init, Absent, OpenPcs, ClosePcs
<1>2. TypeOK /\ StorageInv /\ [Next]_vars => StorageInv'
  <2> SUFFICES ASSUME TypeOK, StorageInv, [Next]_vars PROVE StorageInv'
    OBVIOUS
  <2>1. CASE PowerLoss
    BY <2>1 DEF PowerLoss, OpenPcs, ClosePcs
  <2>2. CASE UNCHANGED vars
    BY <2>2 DEF vars, storageVars, exportVars, requestVars
  <2>3. QED
    BY <2>1, <2>2, OpenKeepsInv, CloseKeepsInv, ExportKeepsInv DEF Next, StorageStep
<1>3. QED
  BY <1>1, <1>2, TypeCorrect, PTL DEF Spec

-----------------------------------------------------------------------------
(* What follows.                                                           *)

\* Whenever the power goes, a flight whose metadata says that it is complete has
\* all its data on the card, unless a session drew its suffix; for any names and
\* any number of sessions.
THEOREM CompleteWhole == Spec => []CompleteIsWhole
<1>1. StorageInv => CompleteIsWhole
  BY DEF StorageInv
<1>2. QED
  BY <1>1, InvHolds, PTL

\* The only calls that take data away from a flight are those of its deletion, and
\* those of a session that has drawn its suffix.
LEMMA DataStays ==
  ASSUME TypeOK, StorageInv, Next,
         NEW d \in Flights, card[d].data = "whole", card'[d].data # "whole"
  PROVE  (d \in deleting /\ d \in doomed') \/ d \in Overwritten'
<1> USE DEF TypeOK, Files
<1>1. CASE Dashboard \/ PowerLoss
  BY <1>1 DEF Dashboard, PowerLoss, AskStart, AskStop, EndFileRead, BeginFileRead, DeleteFlight
<1>2. CASE NoStart \/ StartAgain \/ StartRefused \/ (\E e \in Flights : StartSession(e)) \/ SetOpen
  BY <1>2 DEF NoStart, StartAgain, StartRefused, StartSession, SetOpen
<1>3. CASE MakeDir \/ MakeFlag
  BY <1>3 DEF MakeDir, MakeFlag
<1>4. CASE OpenFiles
  <2>1. d = sessionDir /\ d.suffix # NoSuffix
    BY <1>4 DEF OpenFiles, StorageGoes, FilesOpened, StorageInv, NameIsFresh
  <2>2. card'[d] = FilesOpened(card[d])
    BY <1>4, <2>1 DEF OpenFiles
  <2>3. card'[d].retaken
    BY <2>2, Opened
  <2>4. QED
    BY <2>1, <2>3 DEF Overwritten
<1>5. CASE OpenMeta \/ OpenDone \/ CloseMeta \/ CloseMetaText
  BY <1>5 DEF OpenMeta, OpenDone, CloseMeta, CloseMetaText, MetaTruncated, MetaWritten
<1>6. CASE NoStop \/ StopSession \/ CloseFlush \/ RemoveFlag \/ SetClosed
  BY <1>6 DEF NoStop, StopSession, CloseFlush, RemoveFlag, SetClosed
<1>7. ASSUME NEW e \in Flights, RemoveTree(e)
      PROVE  d \in deleting /\ d \in doomed'
  <2>1. e = d
    BY <1>7 DEF RemoveTree, Absent
  <2>2. d \in doomed'
    BY <1>7, <2>1 DEF RemoveTree, StorageInv, DeletionsAreKnown
  <2>3. QED
    BY <1>7, <2>1, <2>2 DEF RemoveTree
<1>8. QED
  BY <1>1, <1>2, <1>3, <1>4, <1>5, <1>6, <1>7 DEF Next, StorageStep

\* A flight that is whole stays so, through every later session and restart, until a
\* dashboard deletes it or a session draws its suffix; for any names.
THEOREM OldFlights == Spec => OldFlightsKept
<1>1. TypeOK /\ StorageInv /\ [Next]_vars
        => [\A d \in Flights \ (doomed' \cup Overwritten') :
              card[d].data = "whole" => card'[d].data = "whole"]_vars
  BY DataStays
<1>2. QED
  BY <1>1, TypeCorrect, InvHolds, PTL DEF Spec, OldFlightsKept

\* An export is stable: no deletion takes the files away that are being read, and
\* only a session that draws their suffix truncates them.
THEOREM ExportStable == Spec => ExportIsStable
<1>1. TypeOK /\ StorageInv /\ [Next]_vars
        => [\A d \in (reading \cap reading') \ Overwritten' :
              card[d].data = "whole" => card'[d].data = "whole"]_vars
  BY DataStays DEF TypeOK, StorageInv, DeletionsAreKnown
<1>2. QED
  BY <1>1, TypeCorrect, InvHolds, PTL DEF Spec, ExportIsStable

=============================================================================
