--------------------------- MODULE PrefetchProofs ---------------------------
(* Theorems about Prefetch, for any number of layers, matrices, slots and
   clients. *)
EXTENDS Prefetch, WellFoundedInduction, FiniteSetTheorems, TLAPS

\* First picks a least element.
LEMMA FirstIn == ASSUME NEW S \in SUBSET Slots, S # {} PROVE First(S) \in S
<1>1. IsWellFoundedOn(OpToRel(<, Nat), Nat)  BY NatLessThanWellFounded
<1>2. S \subseteq Nat  BY PrefetchAssumption DEF Slots
<1>3. PICK x \in S : \A y \in S : ~ (<<y, x>> \in OpToRel(<, Nat))
  BY <1>1, <1>2, WFMin
<1>4. \A y \in S : x <= y
  <2> SUFFICES ASSUME NEW y \in S PROVE x <= y  OBVIOUS
  <2>1. ~ (y < x)  BY <1>2, <1>3 DEF OpToRel
  <2> QED BY <1>2, <2>1
<1> QED BY <1>4 DEF First

-----------------------------------------------------------------------------
(* The buffer *)

SlotType == [id : Blocks, occupied : BOOLEAN, ready : BOOLEAN]

LEMMA TakenSlots ==
  ASSUME buffer \in [Slots -> SlotType], NEW s \in Slots, buffer' = Taken(s)
  PROVE  /\ buffer' \in [Slots -> SlotType]
         /\ ~ buffer'[s].occupied
         /\ \A t \in Slots : t # s => buffer'[t] = buffer[t]
         /\ \A b : Ready(b)' \subseteq Ready(b)
<1>1. buffer' = [buffer EXCEPT ![s] = [[buffer[s] EXCEPT !.occupied = FALSE]
                                                  EXCEPT !.ready = FALSE]]
  BY DEF Taken
<1>2. buffer[s] \in SlotType  OBVIOUS
<1>3. buffer'[s] = [id |-> buffer[s].id, occupied |-> FALSE, ready |-> FALSE]
  BY <1>1, <1>2 DEF SlotType
<1>4. \A t \in Slots : t # s => buffer'[t] = buffer[t]  BY <1>1
<1>5. buffer'[s] \in SlotType  BY <1>2, <1>3 DEF SlotType
<1>6. buffer' \in [Slots -> SlotType]  BY <1>1, <1>5
<1>7. \A b : Ready(b)' \subseteq Ready(b)  BY <1>3, <1>4 DEF Ready
<1> QED BY <1>3, <1>4, <1>6, <1>7

\* What a call that takes or releases a block does to the buffer.
LEMMA FreeingSteps ==
  ASSUME TypeOK, NEW c \in Clients, NEW b,
         WaitForBlock(c, b) \/ WaitResume(c) \/ TryGetBlock(c, b) \/ ReleaseBlock(c, b)
  PROVE  buffer' = buffer \/ \E s \in Slots : buffer' = Taken(s)
<1>1. ASSUME NEW d, Ready(d) # {} PROVE First(Ready(d)) \in Slots
  <2>1. Ready(d) \in SUBSET Slots  BY DEF Ready
  <2> QED BY <1>1, <2>1, FirstIn
<1>2. ASSUME NEW d, Await(c, d)
      PROVE  buffer' = buffer \/ \E s \in Slots : buffer' = Taken(s)
  BY <1>1, <1>2 DEF Await
<1>3. CASE ReleaseBlock(c, b)
  <2> DEFINE named == {s \in Slots : buffer[s].id = b}
  <2>1. named # {} => First(named) \in Slots
    <3>1. named \in SUBSET Slots  OBVIOUS
    <3> HIDE DEF named
    <3> QED BY <3>1, FirstIn
  <2>2. buffer' = IF named = {} THEN buffer ELSE Taken(First(named))
    BY <1>3 DEF ReleaseBlock
  <2> QED BY <2>1, <2>2
<1> QED BY <1>1, <1>2, <1>3 DEF WaitForBlock, WaitResume, TryGetBlock

-----------------------------------------------------------------------------
(* Types *)

\* Between taking a request and storing its block the worker has one.
HoldsRequest == wpc \in {"find", "load"} => request \in Blocks

LEMMA TypeStep == TypeOK /\ HoldsRequest /\ SlotReserved /\ [Next]_vars => TypeOK'
<1> SUFFICES ASSUME TypeOK, HoldsRequest, SlotReserved, [Next]_vars PROVE TypeOK'
  OBVIOUS
<1> USE DEF TypeOK
<1>a. NMatrices \in Nat \ {0} /\ NLayers \in Nat \ {0}  BY PrefetchAssumption
<1>1. CASE Start  BY <1>1 DEF Start, clientVars
<1>2. CASE StopFlag  BY <1>2 DEF StopFlag, workerVars, clientVars
<1>3. CASE StopNotify  BY <1>3 DEF StopNotify, NotifyWorker, clientVars
<1>4. CASE StopNotifyAll  BY <1>4 DEF StopNotifyAll, NotifyClients, workerVars
<1>5. CASE StopJoin  BY <1>5 DEF StopJoin, clientVars
<1>6. CASE WorkerLoop  BY <1>6 DEF WorkerLoop, clientVars
<1>7. ASSUME TakeRequest
      PROVE  /\ queue' \in Seq(Blocks) /\ request' \in Blocks \cup {NoBlock}
             /\ wpc' \in {"exited", "loop", "find"}
  BY <1>7 DEF TakeRequest
<1>8. CASE WorkerPoll  BY <1>7, <1>8 DEF WorkerPoll, clientVars
<1>9. CASE WorkerTimeout  BY <1>7, <1>9 DEF WorkerTimeout, clientVars
<1>10. CASE WorkerSpurious  BY <1>10 DEF WorkerSpurious, clientVars
<1>11. CASE WorkerFind
  <2>1. Free # {} => First(Free) \in Slots
    <3>1. Free \in SUBSET Slots  BY DEF Free
    <3> QED BY <3>1, FirstIn
  <2> QED BY <1>11, <2>1 DEF WorkerFind, clientVars
<1>12. ASSUME NEW c \in Clients, NEW l \in Layers, PrefetchLayer(c, l) PROVE TypeOK'
  <2>1. \A i \in 1 .. NMatrices : <<l, i - 1>> \in Blocks
    BY <1>a DEF Blocks, Matrices
  <2>2. LayerRequests(l) \in Seq(Blocks)  BY <1>a, <2>1 DEF LayerRequests
  <2>3. queue' \in Seq(Blocks)  BY <1>12, <2>2 DEF PrefetchLayer
  <2> QED BY <1>12, <2>3 DEF PrefetchLayer, NotifyWorker, clientVars
<1>13. ASSUME NEW c \in Clients, NEW b \in Blocks \cup {NoBlock},
              WaitForBlock(c, b) \/ WaitResume(c) \/ TryGetBlock(c, b) \/ ReleaseBlock(c, b)
       PROVE  TypeOK'
  <2>1. buffer' \in [Slots -> SlotType]
    BY <1>13, FreeingSteps, TakenSlots DEF SlotType
  <2> QED BY <1>13, <2>1
          DEF WaitForBlock, WaitResume, TryGetBlock, ReleaseBlock, Await, NotifyWorker,
              SlotType, workerVars, clientVars
<1>14. ASSUME NEW c \in Clients, WaitSpurious(c) PROVE TypeOK'
  BY <1>14 DEF WaitSpurious, workerVars
<1>15. CASE WorkerNotify  BY <1>15 DEF WorkerNotify, NotifyClients
<1>16. CASE WorkerStore
  <2>1. request \in Blocks  BY <1>16 DEF WorkerStore, HoldsRequest
  <2>2. buffer' \in [Slots -> SlotType]
    BY <1>16, <2>1 DEF WorkerStore, SlotType
  <2> QED BY <1>16, <2>2 DEF WorkerStore, SlotType, clientVars
<1>17. CASE UNCHANGED vars  BY <1>17 DEF vars, workerVars, clientVars
<1> QED BY <1>1, <1>2, <1>3, <1>4, <1>5, <1>6, <1>8, <1>9, <1>10, <1>11, <1>12, <1>13,
           <1>14, <1>15, <1>16, <1>17
        DEF Next, Stop, Worker, WorkerStep, Client

-----------------------------------------------------------------------------
(* The worker's slot and its sleep *)

LEMMA WorkerHoldsStep ==
  TypeOK /\ HoldsRequest /\ SlotReserved /\ [Next]_vars => HoldsRequest' /\ SlotReserved'
<1> SUFFICES ASSUME TypeOK, HoldsRequest, SlotReserved, [Next]_vars
             PROVE  HoldsRequest' /\ SlotReserved'
  OBVIOUS
<1> USE DEF TypeOK, HoldsRequest, SlotReserved
<1>1. CASE Start  BY <1>1 DEF Start
<1>2. CASE StopFlag  BY <1>2 DEF StopFlag, workerVars
<1>3. CASE StopNotify  BY <1>3 DEF StopNotify, NotifyWorker
<1>4. CASE StopNotifyAll  BY <1>4 DEF StopNotifyAll, workerVars
<1>5. CASE StopJoin  BY <1>5 DEF StopJoin
<1>6. CASE WorkerLoop  BY <1>6 DEF WorkerLoop
<1>7. ASSUME TakeRequest
      PROVE  wpc' \in {"exited", "loop", "find"} /\ (wpc' = "find" => request' \in Blocks)
  BY <1>7 DEF TakeRequest
<1>8. CASE WorkerPoll  BY <1>7, <1>8 DEF WorkerPoll
<1>9. CASE WorkerTimeout  BY <1>7, <1>9 DEF WorkerTimeout
<1>10. CASE WorkerSpurious  BY <1>10 DEF WorkerSpurious
<1>11. CASE WorkerFind
  <2>1. Free # {} => First(Free) \in Free
    <3>1. Free \in SUBSET Slots  BY DEF Free
    <3> QED BY <3>1, FirstIn
  <2> QED BY <1>11, <2>1 DEF WorkerFind, Free
<1>12. ASSUME NEW c \in Clients, NEW l \in Layers, PrefetchLayer(c, l)
       PROVE  HoldsRequest' /\ SlotReserved'
  BY <1>12 DEF PrefetchLayer, NotifyWorker
<1>13. ASSUME NEW c \in Clients, NEW b \in Blocks \cup {NoBlock},
              WaitForBlock(c, b) \/ WaitResume(c) \/ TryGetBlock(c, b) \/ ReleaseBlock(c, b)
       PROVE  HoldsRequest' /\ SlotReserved'
  <2>1. \A t \in Slots : ~ buffer[t].occupied => ~ buffer'[t].occupied
    BY <1>13, FreeingSteps, TakenSlots DEF SlotType
  <2>2. request' = request /\ slot' = slot /\ wpc' \in {wpc, "poll"}
    BY <1>13 DEF WaitForBlock, WaitResume, TryGetBlock, ReleaseBlock, Await, NotifyWorker,
                 workerVars
  <2> QED BY <2>1, <2>2
<1>14. ASSUME NEW c \in Clients, WaitSpurious(c) PROVE HoldsRequest' /\ SlotReserved'
  BY <1>14 DEF WaitSpurious, workerVars
<1>15. CASE WorkerNotify  BY <1>15 DEF WorkerNotify
<1>16. CASE WorkerStore  BY <1>16 DEF WorkerStore
<1>17. CASE UNCHANGED vars  BY <1>17 DEF vars
<1> QED BY <1>1, <1>2, <1>3, <1>4, <1>5, <1>6, <1>8, <1>9, <1>10, <1>11, <1>12, <1>13,
           <1>14, <1>15, <1>16, <1>17
        DEF Next, Stop, Worker, WorkerStep, Client

\* When the owner is outside stop() and running_ is off there is no worker.
LEMMA WorkerAwakeStep ==
  TypeOK /\ ThreadJoined /\ WorkerAwake /\ [Next]_vars => ThreadJoined' /\ WorkerAwake'
<1> SUFFICES ASSUME TypeOK, ThreadJoined, WorkerAwake, [Next]_vars
             PROVE  ThreadJoined' /\ WorkerAwake'
  OBVIOUS
<1> USE DEF TypeOK, ThreadJoined, WorkerAwake
<1>1. CASE Start  BY <1>1 DEF Start
<1>2. CASE StopFlag  BY <1>2 DEF StopFlag, workerVars
<1>3. CASE StopNotify  BY <1>3 DEF StopNotify, NotifyWorker
<1>4. CASE StopNotifyAll  BY <1>4 DEF StopNotifyAll, workerVars
<1>5. CASE StopJoin  BY <1>5 DEF StopJoin
<1>6. CASE WorkerLoop  BY <1>6 DEF WorkerLoop
<1>7. ASSUME TakeRequest PROVE wpc' \in {"exited", "loop", "find"}
  BY <1>7 DEF TakeRequest
<1>8. CASE WorkerPoll  BY <1>7, <1>8 DEF WorkerPoll
<1>9. CASE WorkerTimeout  BY <1>7, <1>9 DEF WorkerTimeout
<1>10. CASE WorkerSpurious  BY <1>10 DEF WorkerSpurious
<1>11. CASE WorkerFind  BY <1>11 DEF WorkerFind
<1>12. ASSUME NEW c \in Clients, NEW l \in Layers, PrefetchLayer(c, l)
       PROVE  ThreadJoined' /\ WorkerAwake'
  BY <1>12 DEF PrefetchLayer, NotifyWorker
<1>13. ASSUME NEW c \in Clients, NEW b \in Blocks \cup {NoBlock},
              WaitForBlock(c, b) \/ WaitResume(c) \/ TryGetBlock(c, b) \/ ReleaseBlock(c, b)
       PROVE  ThreadJoined' /\ WorkerAwake'
  BY <1>13 DEF WaitForBlock, WaitResume, TryGetBlock, ReleaseBlock, Await, NotifyWorker,
               workerVars
<1>14. ASSUME NEW c \in Clients, WaitSpurious(c) PROVE ThreadJoined' /\ WorkerAwake'
  BY <1>14 DEF WaitSpurious, workerVars
<1>15. CASE WorkerNotify  BY <1>15 DEF WorkerNotify
<1>16. CASE WorkerStore  BY <1>16 DEF WorkerStore
<1>17. CASE UNCHANGED vars  BY <1>17 DEF vars
<1> QED BY <1>1, <1>2, <1>3, <1>4, <1>5, <1>6, <1>8, <1>9, <1>10, <1>11, <1>12, <1>13,
           <1>14, <1>15, <1>16, <1>17
        DEF Next, Stop, Worker, WorkerStep, Client

-----------------------------------------------------------------------------
(* The clients' sleep *)

LEMMA NoLostWakeupStep ==
  TypeOK /\ ThreadJoined /\ NoLostWakeup /\ [Next]_vars => NoLostWakeup'
<1> SUFFICES ASSUME TypeOK, ThreadJoined, NoLostWakeup, [Next]_vars,
                    NEW k \in Clients, cpc'[k] = "asleep",
                    NEW s0 \in Slots, buffer'[s0].occupied, buffer'[s0].ready,
                    buffer'[s0].id = wants'[k]
             PROVE  wpc' = "notify"
  BY DEF NoLostWakeup, Ready
\* A sleeper that slept before, whose block was there before, was already owed
\* its notification.
<1>0. ASSUME cpc[k] = "asleep", wants'[k] = wants[k], \A d : Ready(d)' \subseteq Ready(d)
      PROVE  wpc = "notify"
  <2>1. s0 \in Ready(wants[k])  BY <1>0 DEF Ready
  <2> QED BY <2>1, <1>0 DEF NoLostWakeup
<1>a. ASSUME buffer' = buffer, cpc' = cpc, wants' = wants PROVE wpc = "notify"
  <2>1. \A d : Ready(d)' \subseteq Ready(d)  BY <1>a DEF Ready
  <2> QED BY <2>1, <1>0, <1>a
<1>1. CASE Start  BY <1>a, <1>1 DEF Start, clientVars, ThreadJoined
<1>2. CASE StopFlag  BY <1>a, <1>2 DEF StopFlag, workerVars, clientVars
<1>3. CASE StopNotify  BY <1>a, <1>3 DEF StopNotify, NotifyWorker, clientVars
<1>4. CASE StopNotifyAll  BY <1>4 DEF StopNotifyAll, NotifyClients
<1>5. CASE StopJoin  BY <1>a, <1>5 DEF StopJoin, clientVars
<1>6. CASE WorkerLoop  BY <1>a, <1>6 DEF WorkerLoop, clientVars
<1>8. CASE WorkerPoll  BY <1>a, <1>8 DEF WorkerPoll, clientVars
<1>9. CASE WorkerTimeout  BY <1>a, <1>9 DEF WorkerTimeout, clientVars
<1>10. CASE WorkerSpurious  BY <1>a, <1>10 DEF WorkerSpurious, clientVars
<1>11. CASE WorkerFind  BY <1>a, <1>11 DEF WorkerFind, clientVars
<1>12. ASSUME NEW c \in Clients, NEW l \in Layers, PrefetchLayer(c, l)
       PROVE  wpc' = "notify"
  BY <1>a, <1>12 DEF PrefetchLayer, NotifyWorker, clientVars
\* Taking or releasing a block makes none appear; a client goes to sleep only on
\* a block that is not there.
<1>13. ASSUME NEW c \in Clients, NEW b,
              WaitForBlock(c, b) \/ WaitResume(c) \/ TryGetBlock(c, b) \/ ReleaseBlock(c, b)
       PROVE  wpc' = "notify"
  <2>1. \A d : Ready(d)' \subseteq Ready(d)
    <3>1. CASE buffer' = buffer  BY <3>1 DEF Ready
    <3>2. CASE \E s \in Slots : buffer' = Taken(s)
      BY <3>2, TakenSlots DEF TypeOK, SlotType
    <3> QED BY <3>1, <3>2, <1>13, FreeingSteps
  <2>2. wpc = "notify" => wpc' = "notify"
    BY <1>13 DEF WaitForBlock, WaitResume, TryGetBlock, ReleaseBlock, Await, NotifyWorker,
                 workerVars
  <2>3. CASE cpc' = cpc /\ wants' = wants  BY <2>1, <2>2, <2>3, <1>0
  <2>4. ASSUME NEW d, Await(c, d), k = c PROVE FALSE
    <3>1. Ready(d) # {} => cpc'[k] = "idle"  BY <2>4 DEF Await, TypeOK
    <3>2. Ready(d) = {} => wants'[k] = d /\ buffer' = buffer  BY <2>4 DEF Await, TypeOK
    <3>3. Ready(d) # {}  BY <3>2 DEF Ready
    <3> QED BY <3>1, <3>3
  <2>5. ASSUME NEW d, Await(c, d), k # c PROVE wpc' = "notify"
    <3>1. cpc[k] = "asleep" /\ wants'[k] = wants[k]  BY <2>5 DEF Await, TypeOK
    <3> QED BY <3>1, <2>1, <2>2, <1>0
  <2> QED BY <2>3, <2>4, <2>5, <1>13
          DEF WaitForBlock, WaitResume, TryGetBlock, ReleaseBlock, clientVars
<1>14. ASSUME NEW c \in Clients, WaitSpurious(c) PROVE wpc' = "notify"
  <2>1. buffer' = buffer /\ wants' = wants /\ cpc[k] = "asleep" /\ wpc' = wpc
    BY <1>14 DEF WaitSpurious, TypeOK, workerVars
  <2>2. \A d : Ready(d)' \subseteq Ready(d)  BY <2>1 DEF Ready
  <2> QED BY <2>1, <2>2, <1>0
<1>15. CASE WorkerNotify  BY <1>15 DEF WorkerNotify, NotifyClients
<1>16. CASE WorkerStore  BY <1>16 DEF WorkerStore
<1>17. CASE UNCHANGED vars  BY <1>a, <1>17 DEF vars, clientVars
<1> QED BY <1>1, <1>2, <1>3, <1>4, <1>5, <1>6, <1>8, <1>9, <1>10, <1>11, <1>12, <1>13,
           <1>14, <1>15, <1>16, <1>17
        DEF Next, Stop, Worker, WorkerStep, Client

-----------------------------------------------------------------------------
(* The inductive invariant, and what it gives *)

Inv == TypeOK /\ HoldsRequest /\ SlotReserved /\ ThreadJoined /\ WorkerAwake /\ NoLostWakeup

LEMMA InitInv == Init => Inv
<1> SUFFICES ASSUME Init PROVE Inv
  OBVIOUS
<1>1. <<0, 0>> \in Blocks  BY PrefetchAssumption DEF Blocks, Layers, Matrices
<1>2. TypeOK
  <2>1. buffer \in [Slots -> SlotType]  BY <1>1 DEF Init, SlotType
  <2>2. queue \in Seq(Blocks)  BY DEF Init
  <2> QED BY <2>1, <2>2 DEF Init, TypeOK, SlotType
<1>3. HoldsRequest /\ SlotReserved /\ ThreadJoined /\ WorkerAwake /\ NoLostWakeup
  BY DEF Init, HoldsRequest, SlotReserved, ThreadJoined, WorkerAwake, NoLostWakeup
<1> QED BY <1>2, <1>3 DEF Inv

LEMMA Invariance == Spec => []Inv
<1>1. Inv /\ [Next]_vars => Inv'
  BY TypeStep, WorkerHoldsStep, WorkerAwakeStep, NoLostWakeupStep DEF Inv
<1> QED BY InitInv, <1>1, PTL DEF Spec

(* The type invariant. *)
THEOREM TypeCorrect == Spec => []TypeOK
  BY Invariance, PTL DEF Inv

(* The slot the worker has picked under the lock is still free when it locks
   again to fill it, whatever the clients do in between. *)
THEOREM WorkerOwnsSlot == Spec => []SlotReserved
  BY Invariance, PTL DEF Inv

(* No client sleeps on a block that is in the buffer, except while the worker is
   about to notify; notifying outside the lock loses no wake-up. *)
THEOREM NoClientForgotten == Spec => []NoLostWakeup
  BY Invariance, PTL DEF Inv

(* The worker never sleeps on a request, nor through a stop() that has notified
   it; and start() always finds the thread joined. *)
THEOREM WorkerNotForgotten == Spec => [](WorkerAwake /\ ThreadJoined)
  BY Invariance, PTL DEF Inv

(* A block in the buffer is never replaced before it is taken or released. *)
THEOREM BlocksNotOverwritten == Spec => NoOverwrite
<1> DEFINE Kept == \A s \in Slots : buffer[s].occupied /\ buffer'[s].occupied
                                      => buffer'[s] = buffer[s]
<1>1. Inv /\ [Next]_vars => [Kept]_vars
  <2> SUFFICES ASSUME Inv, Next PROVE Kept \/ buffer' = buffer
    BY DEF vars
  <2>1. CASE WorkerStore
    BY <2>1 DEF Inv, SlotReserved, TypeOK, WorkerStore
  <2>2. ASSUME NEW c \in Clients, NEW b,
               WaitForBlock(c, b) \/ WaitResume(c) \/ TryGetBlock(c, b) \/ ReleaseBlock(c, b)
        PROVE  Kept \/ buffer' = buffer
    BY <2>2, FreeingSteps, TakenSlots DEF Inv, TypeOK, SlotType
  <2>3. CASE Start \/ Stop  BY <2>3 DEF Start, Stop, StopFlag, StopNotify, StopNotifyAll, StopJoin
  <2>4. CASE WorkerLoop \/ WorkerPoll \/ WorkerFind \/ WorkerNotify
             \/ WorkerTimeout \/ WorkerSpurious
    BY <2>4 DEF WorkerLoop, WorkerPoll, WorkerFind, WorkerNotify, WorkerTimeout, WorkerSpurious
  <2>5. ASSUME NEW c \in Clients,
               WaitSpurious(c) \/ \E l \in Layers : PrefetchLayer(c, l)
        PROVE  buffer' = buffer
    BY <2>5 DEF WaitSpurious, PrefetchLayer
  <2> QED BY <2>1, <2>2, <2>3, <2>4, <2>5 DEF Next, Worker, WorkerStep, Client
<1>2. NoOverwrite <=> [][Kept]_vars  BY PTL DEF NoOverwrite
<1> QED BY <1>1, <1>2, Invariance, PTL DEF Spec

-----------------------------------------------------------------------------
(* Careful clients *)

LEMMA CarefulIsNext == CarefulNext => Next
  BY DEF CarefulNext, CarefulClient, Next, Client

LEMMA CarefulInvariance == CarefulSpec => []Inv
<1>1. Inv /\ [CarefulNext]_vars => Inv'
  BY TypeStep, WorkerHoldsStep, WorkerAwakeStep, NoLostWakeupStep, CarefulIsNext DEF Inv
<1> QED BY InitInv, <1>1, PTL DEF CarefulSpec

Occupied == Slots \ Free
Fits == InFlightCount <= NSlots

LEMMA OccupiedFinite ==
  IsFiniteSet(Occupied) /\ Cardinality(Occupied) \in Nat /\ Cardinality(Slots) = NSlots
    /\ IsFiniteSet(Slots)
<1>1. IsFiniteSet(Slots) /\ Cardinality(Slots) = NSlots
  BY PrefetchAssumption, FS_Interval DEF Slots
<1>2. Occupied \in SUBSET Slots  BY DEF Occupied
<1> QED BY <1>1, <1>2, FS_Subset, FS_CardinalityType

\* A free slot remains while a request is in hand.
LEMMA FitsGivesRoom == TypeOK /\ Fits => NoRequestDropped
<1> SUFFICES ASSUME TypeOK, Fits, wpc = "find", Free = {} PROVE FALSE
  BY DEF NoRequestDropped
<1>1. Cardinality(Slots \ Free) = NSlots  BY OccupiedFinite
<1>2. InFlightCount = Len(queue) + 1 + NSlots  BY <1>1 DEF InFlightCount, InHand
<1>3. Len(queue) \in Nat  BY DEF TypeOK
<1> QED BY <1>2, <1>3, PrefetchAssumption DEF Fits

LEMMA FitsStep == Inv /\ Fits /\ [CarefulNext]_vars => Fits'
<1> SUFFICES ASSUME Inv, Fits, [CarefulNext]_vars PROVE Fits'
  OBVIOUS
<1> DEFINE n == Cardinality(Occupied)
<1>1. /\ NMatrices \in Nat /\ NSlots \in Nat /\ Len(queue) \in Nat
      /\ n \in Nat /\ IsFiniteSet(Occupied)
      /\ buffer \in [Slots -> SlotType] /\ queue \in Seq(Blocks)
  BY PrefetchAssumption, OccupiedFinite DEF Inv, TypeOK, SlotType
<1>2. Len(queue) + InHand + n <= NSlots  BY DEF Fits, InFlightCount, Occupied
<1>3. /\ Fits' <=> Len(queue') + InHand' + n' <= NSlots
      /\ InHand = IF wpc \in {"find", "load"} THEN 1 ELSE 0
      /\ InHand' = IF wpc' \in {"find", "load"} THEN 1 ELSE 0
  BY DEF Fits, InFlightCount, Occupied, InHand
<1>4. ASSUME buffer' = buffer PROVE n' = n  BY <1>4 DEF Occupied, Free
<1>5. ASSUME buffer' = buffer, queue' = queue, InHand' = InHand PROVE Fits'
  BY <1>2, <1>3, <1>4, <1>5
<1>6. CASE Start  BY <1>3, <1>5, <1>6 DEF Start, Inv, ThreadJoined
<1>7. ASSUME TakeRequest, wpc \in {"poll", "asleep"}, buffer' = buffer PROVE Fits'
  <2>1. CASE wpc' = "find"
    <3>1. queue # <<>> /\ queue' = Tail(queue)  BY <1>7, <2>1 DEF TakeRequest
    <3>2. Len(queue') = Len(queue) - 1  BY <3>1, <1>1
    <3>3. InHand = 0 /\ InHand' = 1  BY <1>3, <1>7, <2>1
    <3>4. n' = n  BY <1>4, <1>7
    <3> QED BY <3>2, <3>3, <3>4, <1>1, <1>2, <1>3
  <2>2. CASE wpc' # "find"
    <3>1. queue' = queue /\ wpc' \in {"exited", "loop"}  BY <1>7, <2>2 DEF TakeRequest
    <3> QED BY <3>1, <1>3, <1>5, <1>7
  <2> QED BY <2>1, <2>2
<1>8. CASE WorkerPoll
  <2>1. CASE wpc' = "asleep" /\ queue' = queue  BY <2>1, <1>3, <1>5, <1>8 DEF WorkerPoll
  <2> QED BY <2>1, <1>7, <1>8 DEF WorkerPoll
<1>9. CASE WorkerTimeout  BY <1>7, <1>9 DEF WorkerTimeout
<1>10. CASE WorkerLoop \/ WorkerSpurious \/ WorkerNotify
  BY <1>3, <1>5, <1>10 DEF WorkerLoop, WorkerSpurious, WorkerNotify
<1>11. CASE WorkerFind
  <2>1. Free # {}  BY <1>11, FitsGivesRoom DEF NoRequestDropped, WorkerFind, Inv
  <2> QED BY <2>1, <1>3, <1>5, <1>11 DEF WorkerFind
<1>12. CASE WorkerStore
  <2>1. InHand = 1 /\ InHand' = 0 /\ queue' = queue  BY <1>3, <1>12 DEF WorkerStore
  <2>2. n' <= n + 1 /\ n' \in Nat
    <3>1. Occupied' = Occupied \/ Occupied' = Occupied \cup {slot}
      BY <1>1, <1>12 DEF WorkerStore, Occupied, Free, Inv, SlotReserved
    <3>2. n' = n \/ n' = n + 1
      BY <3>1, <1>1, FS_AddElement
    <3> QED BY <3>2, <1>1
  <2> QED BY <2>1, <2>2, <1>1, <1>2, <1>3
<1>13. ASSUME NEW c \in Clients, NEW l \in Layers, PrefetchLayer(c, l),
              InFlightCount + NMatrices <= NSlots
       PROVE  Fits'
  <2>1. LayerRequests(l) \in Seq(Blocks) /\ Len(LayerRequests(l)) = NMatrices
    BY <1>1 DEF LayerRequests, Blocks, Matrices
  <2>2. Len(queue') = Len(queue) + NMatrices
    <3>1. queue' = queue \o LayerRequests(l)  BY <1>13 DEF PrefetchLayer
    <3>2. \A p, q \in Seq(Blocks) : Len(p \o q) = Len(p) + Len(q)  OBVIOUS
    <3> QED BY <3>1, <3>2, <2>1, <1>1
  <2>3. n' = n /\ InHand' = InHand
    BY <1>3, <1>4, <1>13 DEF PrefetchLayer, NotifyWorker
  <2>4. Len(queue) + InHand + n + NMatrices <= NSlots
    BY <1>13 DEF InFlightCount, Occupied
  <2>5. InHand \in {0, 1}  BY <1>3
  <2> QED BY <2>2, <2>3, <2>4, <2>5, <1>1, <1>3
<1>14. ASSUME NEW c \in Clients, NEW b,
              WaitForBlock(c, b) \/ WaitResume(c) \/ TryGetBlock(c, b) \/ ReleaseBlock(c, b)
       PROVE  Fits'
  <2>1. Occupied' \in SUBSET Occupied
    BY <1>1, <1>14, FreeingSteps, TakenSlots DEF Occupied, Free, Inv, SlotType
  <2>2. n' \in Nat /\ n' <= n
    <3>1. IsFiniteSet(Occupied') /\ Cardinality(Occupied') <= n
      BY <2>1, <1>1, FS_Subset
    <3> QED BY <3>1, FS_CardinalityType
  <2>3. queue' = queue /\ wpc' \in {wpc, "poll"} /\ (wpc' # wpc => wpc = "asleep")
    BY <1>14 DEF WaitForBlock, WaitResume, TryGetBlock, ReleaseBlock, Await, NotifyWorker,
                 workerVars
  <2> QED BY <2>2, <2>3, <1>1, <1>2, <1>3
<1>15. ASSUME NEW c \in Clients, WaitSpurious(c) PROVE Fits'
  BY <1>3, <1>5, <1>15 DEF WaitSpurious, workerVars
<1>16. CASE UNCHANGED vars  BY <1>3, <1>5, <1>16 DEF vars, workerVars
<1> QED BY <1>6, <1>8, <1>9, <1>10, <1>11, <1>12, <1>13, <1>14, <1>15, <1>16
        DEF CarefulNext, CarefulClient, Worker, WorkerStep

(* When the clients keep no more blocks in flight than the buffer has slots, the
   worker always finds a free slot: no request is dropped. *)
THEOREM CarefulClientsLoseNothing == CarefulSpec => []NoRequestDropped
<1>1. Init => Fits
  <2> SUFFICES ASSUME Init PROVE Fits
    OBVIOUS
  <2>1. Slots \ Free = {}  BY DEF Init, Free
  <2>2. Cardinality(Slots \ Free) = 0  BY <2>1, FS_EmptySet
  <2> QED BY <2>2, PrefetchAssumption DEF Init, Fits, InFlightCount, InHand
<1>2. TypeOK /\ Fits => NoRequestDropped  BY FitsGivesRoom
<1>3. Inv => TypeOK  BY DEF Inv
<1> QED BY <1>1, <1>2, <1>3, CarefulInvariance, FitsStep, PTL DEF CarefulSpec
=============================================================================
