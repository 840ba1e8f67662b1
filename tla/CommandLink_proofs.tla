------------------------- MODULE CommandLink_proofs -------------------------
(***************************************************************************)
(* Proofs about CommandLink, for any requests, any queue and any cache.    *)
(***************************************************************************)
EXTENDS CommandLink, TLAPS

-----------------------------------------------------------------------------
(* Type correctness.                                                       *)

\* What missionTask takes is a request, and leaves a shorter queue.
LEMMA TakenType ==
  ASSUME TypeOK, cmdQueue # <<>>
  PROVE  /\ Taken \in Requests /\ Taken = cmdQueue[1]
         /\ Tail(cmdQueue) \in Seq(Requests)
         /\ Len(Tail(cmdQueue)) = Len(cmdQueue) - 1
         /\ \A i \in 1 .. Len(cmdQueue) - 1 : Tail(cmdQueue)[i] = cmdQueue[i + 1]
BY DEF TypeOK, Taken

\* rememberProcessed() writes an id into a slot and stays within the ring.
LEMMA RememberType ==
  ASSUME TypeOK, NEW id \in Nat, RememberProcessed(id)
  PROVE  idCache' \in [Slots -> Nat] /\ idNext' \in Slots
BY CacheAssumption DEF TypeOK, RememberProcessed, Slots

\* Queue, ring and history keep their types, and the queue its length.
THEOREM TypeCorrect == Spec => []TypeOK
<1> DEFINE Fresh == /\ cmdQueue = <<>> /\ idCache = [p \in Slots |-> 0] /\ idNext = 0
                    /\ connected = FALSE /\ owed = {}
<1>0. ASSUME Fresh PROVE TypeOK
  <2>1. cmdQueue \in Seq(Requests) /\ Len(cmdQueue) = 0
    BY <1>0
  <2>2. 0 \in Slots /\ idCache \in [Slots -> Nat]
    BY <1>0, CacheAssumption DEF Slots
  <2>3. QED
    BY <1>0, <2>1, <2>2, QueueAssumption DEF TypeOK
<1>1. Init => TypeOK
  BY <1>0 DEF Init
<1>2. TypeOK /\ [Next]_vars => TypeOK'
  <2> SUFFICES ASSUME TypeOK, [Next]_vars PROVE TypeOK'
    OBVIOUS
  <2>1. CASE Connect \/ Disconnect \/ UNCHANGED vars
    BY <2>1 DEF Connect, Disconnect, vars, TypeOK
  <2>2. ASSUME NEW r \in Requests, Write(r) PROVE TypeOK'
    <3>1. cmdQueue' \in Seq(Requests) /\ Len(cmdQueue') <= QueueLen
      BY <2>2, QueueAssumption DEF Write, Enqueued, HasRoom, TypeOK
    <3>2. QED
      BY <2>2, <3>1 DEF Write, TypeOK
  <2>3. CASE Serve
    <3>1. cmdQueue' \in Seq(Requests) /\ Len(cmdQueue') <= QueueLen
      BY <2>3, TakenType, QueueAssumption DEF Serve, TypeOK
    <3>2. Taken \in Requests /\ Taken.id \in Nat
      BY <2>3, TakenType, RequestAssumption DEF Serve
    <3>3. idCache' \in [Slots -> Nat] /\ idNext' \in Slots
      BY <2>3, <3>2, RememberType DEF Serve, HandleJson, TypeOK
    <3>4. QED
      BY <2>3, <3>1, <3>3 DEF Serve, TypeOK
  <2>4. CASE Restart
    <3>1. cmdQueue' \in Seq(Requests) /\ Len(cmdQueue') = 0
      BY <2>4 DEF Restart
    <3>2. 0 \in Slots /\ idCache' \in [Slots -> Nat]
      BY <2>4, CacheAssumption DEF Restart, Slots
    <3>3. QED
      BY <2>4, <3>1, <3>2, QueueAssumption DEF Restart, TypeOK
  <2>5. QED
    BY <2>1, <2>2, <2>3, <2>4 DEF Next
<1>3. QED
  BY <1>1, <1>2, PTL DEF Spec

-----------------------------------------------------------------------------
(* The queue.                                                              *)

\* Nothing is owed to a dashboard that is gone.
QueueInv == OwedIsQueued /\ (owed # {} => connected)

\* A command that found room is in the queue until it is answered, whatever is
\* written behind it and however full the queue is.
THEOREM OwedQueued == Spec => []OwedIsQueued
<1>1. Init => QueueInv
  BY DEF Init, QueueInv, OwedIsQueued
<1>2. TypeOK /\ QueueInv /\ [Next]_vars => QueueInv'
  <2> SUFFICES ASSUME TypeOK, QueueInv, [Next]_vars PROVE QueueInv'
    OBVIOUS
  <2> USE DEF QueueInv, OwedIsQueued
  <2>1. CASE Connect \/ Disconnect \/ Restart \/ UNCHANGED vars
    BY <2>1 DEF Connect, Disconnect, Restart, vars
  <2>2. ASSUME NEW r \in Requests, Write(r) PROVE QueueInv'
    <3>1. CASE HasRoom
      <4>1. /\ Len(cmdQueue') = Len(cmdQueue) + 1
            /\ cmdQueue'[Len(cmdQueue) + 1] = r
            /\ \A i \in 1 .. Len(cmdQueue) : cmdQueue'[i] = cmdQueue[i]
        BY <2>2, <3>1 DEF Write, Enqueued, TypeOK
      <4>2. Len(cmdQueue) \in Nat
        BY DEF TypeOK
      <4>3. QED
        BY <2>2, <3>1, <4>1, <4>2 DEF Write
    <3>2. CASE ~HasRoom
      BY <2>2, <3>2 DEF Write, Enqueued
    <3>3. QED
      BY <3>1, <3>2
  <2>3. CASE Serve
    <3>1. ASSUME NEW r \in owed' PROVE \E i \in 1 .. Len(cmdQueue') : cmdQueue'[i] = r
      <4>1. PICK i \in 1 .. Len(cmdQueue) : cmdQueue[i] = r
        BY <2>3, <3>1 DEF Serve
      <4>2. i # 1
        BY <2>3, <3>1, <4>1, TakenType DEF Serve
      <4>3. i - 1 \in 1 .. Len(cmdQueue') /\ cmdQueue'[i - 1] = r
        BY <2>3, <4>1, <4>2, TakenType DEF Serve, TypeOK
      <4>4. QED
        BY <4>3
    <3>2. QED
      BY <2>3, <3>1 DEF Serve
  <2>4. QED
    BY <2>1, <2>2, <2>3 DEF Next
<1>3. QED
  BY <1>1, <1>2, TypeCorrect, PTL DEF Spec, QueueInv

-----------------------------------------------------------------------------
(* The ring of message ids implements CommandPromise.                      *)

\* An id stands in one slot only, because what is remembered was not there.
RingInv == \A p, q \in Slots : idCache[p] = idCache[q] /\ idCache[p] # 0 => p = q

\* The slots are overwritten in the order in which they were written.
LEMMA RingOrder ==
  ASSUME TypeOK, NEW p \in Slots
  PROVE  /\ SlotsAhead(p) \in 0 .. CacheSize - 1
         /\ SlotsAhead(p) = 0 <=> p = idNext
BY CacheAssumption DEF TypeOK, Slots, SlotsAhead

\* Since() of a remembered request, by the slot it is in.
LEMMA SinceAt ==
  ASSUME RingInv, NEW r \in Guarded, NEW p \in Slots, idCache[p] = r.id
  PROVE  Since(r) = CacheSize - 1 - SlotsAhead(p)
<1>1. r.id # 0
  BY DEF Guarded
<1>2. p = CHOOSE q \in Slots : idCache[q] = r.id
  BY <1>1 DEF RingInv
<1>3. QED
  BY <1>1, <1>2 DEF Since, AlreadyProcessed

\* A request is remembered exactly as long as the promise binds.
LEMMA SinceBound ==
  ASSUME TypeOK, RingInv, NEW r \in Guarded
  PROVE  IF AlreadyProcessed(r.id) THEN Since(r) \in 0 .. CacheSize - 1
                                   ELSE Since(r) = CacheSize
<1>1. CASE AlreadyProcessed(r.id)
  <2>1. PICK p \in Slots : idCache[p] = r.id
    BY <1>1 DEF AlreadyProcessed
  <2>2. Since(r) = CacheSize - 1 - SlotsAhead(p)
    BY <2>1, SinceAt
  <2>3. QED
    BY <1>1, <2>2, RingOrder, CacheAssumption
<1>2. QED
  BY <1>1 DEF Since

\* What a new id does to the ring: it comes last, and all others move up by one.
LEMMA RingTurns ==
  ASSUME TypeOK, NEW id \in Nat \ {0}, RememberProcessed(id)
  PROVE  /\ idCache'[idNext] = id
         /\ \A p \in Slots \ {idNext} : idCache'[p] = idCache[p]
         /\ \A p \in Slots : SlotsAhead(p)' = IF p = idNext THEN CacheSize - 1
                                              ELSE SlotsAhead(p) - 1
<1>1. idCache' = [idCache EXCEPT ![idNext] = id]
  BY DEF RememberProcessed
<1>2. idNext' = IF idNext = CacheSize - 1 THEN 0 ELSE idNext + 1
  BY DEF RememberProcessed
<1>3. ASSUME NEW p \in Slots
      PROVE  SlotsAhead(p)' = IF p = idNext THEN CacheSize - 1 ELSE SlotsAhead(p) - 1
  BY <1>2, CacheAssumption DEF TypeOK, Slots, SlotsAhead
<1>4. QED
  BY <1>1, <1>3 DEF TypeOK

\* Remembering a request that is not remembered is Perform() of the promise.
LEMMA RememberPerforms ==
  ASSUME TypeOK, RingInv, NEW r \in Guarded, ~AlreadyProcessed(r.id),
         RememberProcessed(r.id), NEW q \in Guarded
  PROVE  /\ RingInv'
         /\ Since(q)' = IF q = r THEN 0 ELSE Promise!Older(Since(q))
<1>1. r.id \in Nat \ {0}
  BY RequestAssumption DEF Guarded
<1>2. /\ idCache'[idNext] = r.id
      /\ \A p \in Slots \ {idNext} : idCache'[p] = idCache[p]
      /\ \A p \in Slots : SlotsAhead(p)' = IF p = idNext THEN CacheSize - 1
                                           ELSE SlotsAhead(p) - 1
  BY <1>1, RingTurns
<1>3. \A p \in Slots : idCache[p] # r.id
  BY <1>1 DEF AlreadyProcessed
<1>4. RingInv'
  BY <1>2, <1>3 DEF RingInv, TypeOK
<1>5. idNext \in Slots /\ SlotsAhead(idNext) = 0
  BY RingOrder DEF TypeOK
<1>6. ASSUME NEW p \in Slots, idCache'[p] = q.id
      PROVE  Since(q)' = CacheSize - 1 - SlotsAhead(p)'
  <2>1. q.id # 0
    BY DEF Guarded
  <2>2. p = CHOOSE x \in Slots : idCache'[x] = q.id
    BY <1>4, <1>6, <2>1 DEF RingInv
  <2>3. AlreadyProcessed(q.id)'
    BY <1>6, <2>1 DEF AlreadyProcessed
  <2>4. QED
    BY <2>2, <2>3 DEF Since
<1>7. CASE q = r
  <2>1. PICK p \in Slots : p = idNext
    BY <1>5
  <2>2. SlotsAhead(p)' = CacheSize - 1 /\ idCache'[p] = q.id
    BY <1>2, <1>7, <2>1
  <2>3. Since(q)' = CacheSize - 1 - SlotsAhead(p)'
    BY <1>6, <2>2
  <2>4. QED
    BY <1>4, <1>7, <2>2, <2>3, CacheAssumption
<1>8. CASE q # r
  <2>1. q.id # r.id
    BY <1>8, UniqueIds
  <2>2. CASE \E p \in Slots \ {idNext} : idCache[p] = q.id
    <3>1. PICK p \in Slots \ {idNext} : idCache[p] = q.id
      BY <2>2
    <3>2. Since(q) = CacheSize - 1 - SlotsAhead(p)
      BY <3>1, SinceAt
    <3>3. Since(q)' = CacheSize - 1 - (SlotsAhead(p) - 1)
      BY <1>2, <1>6, <3>1
    <3>4. SlotsAhead(p) \in 1 .. CacheSize - 1
      BY <3>1, RingOrder, CacheAssumption
    <3>5. QED
      BY <1>4, <1>8, <3>2, <3>3, <3>4, CacheAssumption DEF Promise!Older
  <2>3. CASE ~ \E p \in Slots \ {idNext} : idCache[p] = q.id
    <3>1. \A p \in Slots : idCache'[p] # q.id
      BY <1>2, <2>1, <2>3
    <3>2. Since(q)' = CacheSize
      BY <3>1 DEF Since, AlreadyProcessed
    <3>3. Since(q) \in {CacheSize - 1, CacheSize}
      <4>1. CASE idCache[idNext] = q.id
        BY <1>5, <4>1, SinceAt, CacheAssumption
      <4>2. CASE idCache[idNext] # q.id
        <5>1. ~AlreadyProcessed(q.id)
          BY <2>3, <4>2 DEF AlreadyProcessed
        <5>2. QED
          BY <5>1 DEF Since
      <4>3. QED
        BY <4>1, <4>2
    <3>4. QED
      BY <1>4, <1>8, <3>2, <3>3, CacheAssumption DEF Promise!Older
  <2>4. QED
    BY <2>2, <2>3
<1>9. QED
  BY <1>4, <1>7, <1>8

\* Since() only looks at the ring.
LEMMA SinceFrame ==
  ASSUME UNCHANGED <<idCache, idNext>>
  PROVE  /\ RingInv => RingInv'
         /\ [r \in Guarded |-> Since(r)]' = [r \in Guarded |-> Since(r)]
<1>1. RingInv => RingInv'
  BY DEF RingInv
<1>2. ASSUME NEW r \in Guarded PROVE Since(r)' = Since(r)
  BY DEF Since, AlreadyProcessed, SlotsAhead
<1>3. QED
  BY <1>1, <1>2

\* One round of serviceCommands() is a step of the promise.
LEMMA ServeKeepsPromise ==
  ASSUME TypeOK, RingInv, Serve
  PROVE  RingInv' /\ Promise!Next
<1> DEFINE since == [r \in Guarded |-> Since(r)]
<1>1. PICK result \in CmdResult \cup {"duplicate"} :
        HandleJson(Taken, result) /\ answer' = <<Taken, result>>
  BY DEF Serve
<1>2. Taken \in Requests /\ Promise!Answer(Taken, result)
  BY <1>1, TakenType DEF Serve, Promise!Answer
<1>3. CASE Taken \in Guarded /\ Duplicate(Taken)
  <2>1. result = "duplicate" /\ UNCHANGED <<idCache, idNext>>
    BY <1>1, <1>3 DEF HandleJson
  <2>2. since[Taken] < CacheSize
    BY <1>3, SinceBound, CacheAssumption DEF Duplicate
  <2>3. Promise!Repeat(Taken)
    BY <1>2, <2>1, <2>2, SinceFrame DEF Promise!Repeat
  <2>4. QED
    BY <1>3, <2>1, <2>3, SinceFrame DEF Promise!Next
<1>4. CASE Taken \in Guarded /\ ~Duplicate(Taken)
  <2>1. ~AlreadyProcessed(Taken.id) /\ since[Taken] = CacheSize
    BY <1>4, SinceBound DEF Duplicate, Guarded
  <2>2. CASE Remembered(Taken, result)
    <3>1. RememberProcessed(Taken.id) /\ result \in {"ACK", "IGNORED"}
      BY <1>1, <1>4, <2>2 DEF HandleJson, Remembered
    <3>2. ASSUME NEW q \in Guarded
          PROVE  RingInv' /\ Since(q)' = IF q = Taken THEN 0 ELSE Promise!Older(since[q])
      BY <1>4, <2>1, <3>1, RememberPerforms
    <3>3. since' = [q \in Guarded |-> IF q = Taken THEN 0 ELSE Promise!Older(since[q])]
      BY <3>2
    <3>4. Promise!Perform(Taken, result)
      BY <1>2, <2>1, <3>3 DEF Promise!Perform
    <3>5. QED
      BY <1>4, <3>1, <3>2, <3>4 DEF Promise!Next
  <2>3. CASE ~Remembered(Taken, result)
    <3>1. UNCHANGED <<idCache, idNext>> /\ result \in {"REJECTED", "NACK"}
      BY <1>1, <1>4, <2>3 DEF HandleJson, Remembered, Guarded, CmdResult
    <3>2. Promise!Refuse(Taken, result)
      BY <1>2, <2>1, <3>1, SinceFrame DEF Promise!Refuse
    <3>3. QED
      BY <1>4, <3>1, <3>2, SinceFrame DEF Promise!Next
  <2>4. QED
    BY <2>2, <2>3
<1>5. CASE Taken \notin Guarded
  <2>1. ~Critical(Taken) \/ Taken.id = 0
    BY <1>2, <1>5 DEF Guarded
  <2>2. UNCHANGED <<idCache, idNext>> /\ result \in CmdResult
    BY <1>1, <2>1 DEF HandleJson, Duplicate, AlreadyProcessed, Remembered, RememberProcessed
  <2>3. Promise!Other(Taken, result)
    BY <1>2, <2>2, SinceFrame DEF Promise!Other
  <2>4. QED
    BY <1>2, <1>5, <2>2, <2>3, SinceFrame DEF Promise!Next, CmdResult
<1>6. QED
  BY <1>3, <1>4, <1>5

\* A restart forgets everything.
LEMMA FreshRing ==
  ASSUME idCache = [p \in Slots |-> 0]
  PROVE  RingInv /\ [r \in Guarded |-> Since(r)] = Promise!Forgotten
<1>1. ASSUME NEW r \in Guarded PROVE Since(r) = CacheSize
  BY DEF Since, AlreadyProcessed
<1>2. QED
  BY <1>1 DEF RingInv, Promise!Forgotten

\* Repeated commands are carried out once and answered as duplicates only then,
\* for any size of the cache and any requests with ids of their own.
THEOREM PromiseKept == Spec => ImplementsPromise
<1>1. Init => RingInv /\ Promise!Init
  BY FreshRing DEF Init, Promise!Init
<1>2. TypeOK /\ RingInv /\ [Next]_vars => RingInv' /\ [Promise!Next]_Promise!vars
  <2> SUFFICES ASSUME TypeOK, RingInv, [Next]_vars
               PROVE  RingInv' /\ [Promise!Next]_Promise!vars
    OBVIOUS
  <2>1. CASE Serve
    BY <2>1, ServeKeepsPromise
  <2>2. CASE Restart
    <3>1. (RingInv /\ [r \in Guarded |-> Since(r)] = Promise!Forgotten)'
      <4>1. idCache' = [p \in Slots |-> 0]
        BY <2>2 DEF Restart
      <4>2. ASSUME NEW r \in Guarded PROVE Since(r)' = CacheSize
        BY <4>1 DEF Since, AlreadyProcessed
      <4>3. QED
        BY <4>1, <4>2 DEF RingInv, Promise!Forgotten
    <3>2. QED
      BY <2>2, <3>1 DEF Restart, Promise!Next, Promise!Restart, Promise!Forgotten
  <2>3. CASE \/ Connect \/ Disconnect \/ UNCHANGED vars
             \/ \E r \in Requests : Write(r)
    <3>1. UNCHANGED <<idCache, idNext, answer, turn>>
      BY <2>3 DEF Connect, Disconnect, Write, vars
    <3>2. QED
      BY <3>1, SinceFrame DEF Promise!vars
  <2>4. QED
    BY <2>1, <2>2, <2>3 DEF Next
<1>3. QED
  BY <1>1, <1>2, TypeCorrect, PTL DEF Spec, ImplementsPromise, Promise!Spec
=============================================================================
