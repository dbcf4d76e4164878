------------------------------ MODULE Prefetch ------------------------------
(* The prefetch pipeline of prefetch.cpp: the worker thread prefetch_worker(),
   client threads in prefetch_layer(), wait_for_block(), try_get_block() and
   release_block(), and the owner of the pipeline in start() and stop().

   A critical section of mutex_ is one action.  cv_ and producer_cv_ are wait
   sets: a thread that sleeps is moved on by a notification, by a spurious
   wake-up or, for the worker's wait_for, by its timeout; it then locks the
   mutex again and looks at its predicate in an action of its own. *)
EXTENDS Integers, Sequences, FiniteSets

CONSTANTS
    NLayers,    \* n_layers_
    NMatrices,  \* n_matrices_: 7 in the engine
    NSlots,     \* slots of buffer_: kMaxBufferedMatrices, 14
    Clients,    \* threads that use the pipeline
    Missing,    \* blocks for which load_block returns no data
    MaxQueue    \* bound: requests that may wait in request_queue_

Layers   == 0 .. NLayers - 1
Matrices == 0 .. NMatrices - 1
Blocks   == Layers \X Matrices

ASSUME PrefetchAssumption ==
    /\ NLayers \in Nat \ {0} /\ NMatrices \in Nat \ {0} /\ NSlots \in Nat \ {0}
    /\ Missing \subseteq Blocks
    /\ MaxQueue \in Nat

Slots   == 1 .. NSlots
NoSlot  == 0
NoBlock == <<>>

VARIABLES
    buffer,   \* buffer_: [id, occupied, ready]; data and scale follow id
    queue,    \* request_queue_
    running,  \* running_
    wpc,      \* where the worker is: "off" when there is no thread to join
    request,  \* the worker's request, NoBlock before one is taken
    slot,     \* the worker's slot, NoSlot when it has none
    opc,      \* where the owner is in stop()
    cpc,      \* "idle", "asleep" in cv_.wait, or "woken"
    wants     \* the block a client waits for

vars == <<buffer, queue, running, wpc, request, slot, opc, cpc, wants>>
workerVars == <<wpc, request, slot>>
clientVars == <<cpc, wants>>

\* buffer_.resize() value-initializes the slots: their ids are (0, 0).
Init ==
    /\ buffer = [s \in Slots |-> [id |-> <<0, 0>>, occupied |-> FALSE, ready |-> FALSE]]
    /\ queue = <<>>
    /\ running = FALSE
    /\ wpc = "off" /\ request = NoBlock /\ slot = NoSlot
    /\ opc = "idle"
    /\ cpc = [c \in Clients |-> "idle"]
    /\ wants = [c \in Clients |-> NoBlock]

First(S) == CHOOSE s \in S : \A t \in S : s <= t
Free     == {s \in Slots : ~ buffer[s].occupied}
Ready(b) == {s \in Slots : buffer[s].occupied /\ buffer[s].ready /\ buffer[s].id = b}
Taken(s) == [buffer EXCEPT ![s].occupied = FALSE, ![s].ready = FALSE]

\* producer_cv_.notify_one(): only the worker waits there.
NotifyWorker == wpc' = IF wpc = "asleep" THEN "poll" ELSE wpc

\* Bug form of NotifyClients: notify_one().
NotifyClients_One ==
    LET sleepers == {c \in Clients : cpc[c] = "asleep"}
    IN  cpc' = IF sleepers = {} THEN cpc
               ELSE [cpc EXCEPT ![CHOOSE c \in sleepers : TRUE] = "woken"]

\* cv_.notify_all()
NotifyClients == cpc' = [c \in Clients |-> IF cpc[c] = "asleep" THEN "woken" ELSE cpc[c]]

-----------------------------------------------------------------------------
(* start() and stop(), called by the owner *)

Start ==
    /\ opc = "idle" /\ ~ running
    /\ running' = TRUE
    /\ wpc' = "loop"
    /\ UNCHANGED <<buffer, queue, request, slot, opc, clientVars>>

StopFlag ==
    /\ opc = "idle" /\ running
    /\ running' = FALSE
    /\ opc' = "flagged"
    /\ UNCHANGED <<buffer, queue, workerVars, clientVars>>

\* Bug form of StopNotify: the worker is not notified.
StopNotify_Silent ==
    /\ opc = "flagged"
    /\ opc' = "notified"
    /\ UNCHANGED <<buffer, queue, running, workerVars, clientVars>>

StopNotify ==
    /\ opc = "flagged"
    /\ NotifyWorker
    /\ opc' = "notified"
    /\ UNCHANGED <<buffer, queue, running, request, slot, clientVars>>

StopNotifyAll ==
    /\ opc = "notified"
    /\ NotifyClients
    /\ opc' = "joining"
    /\ UNCHANGED <<buffer, queue, running, workerVars, wants>>

StopJoin ==
    /\ opc = "joining" /\ wpc = "exited"
    /\ wpc' = "off"
    /\ opc' = "idle"
    /\ UNCHANGED <<buffer, queue, running, request, slot, clientVars>>

Stop == StopFlag \/ StopNotify \/ StopNotifyAll \/ StopJoin

-----------------------------------------------------------------------------
(* prefetch_worker() *)

\* while (running_)
WorkerLoop ==
    /\ wpc = "loop"
    /\ wpc' = IF running THEN "poll" ELSE "exited"
    /\ UNCHANGED <<buffer, queue, running, request, slot, opc, clientVars>>

\* What follows the wait in its critical section.
TakeRequest ==
    IF ~ running
      THEN wpc' = "exited" /\ UNCHANGED <<queue, request>>
    ELSE IF queue = <<>>
      THEN wpc' = "loop" /\ UNCHANGED <<queue, request>>
    ELSE /\ request' = Head(queue)
         /\ queue' = Tail(queue)
         /\ wpc' = "find"

\* Lock, and look at the predicate of the wait.
WorkerPoll ==
    /\ wpc = "poll"
    /\ IF queue = <<>> /\ running
         THEN wpc' = "asleep" /\ UNCHANGED <<queue, request>>
         ELSE TakeRequest
    /\ UNCHANGED <<buffer, running, slot, opc, clientVars>>

\* The 100 ms are over: the wait returns whatever the predicate says.
WorkerTimeout ==
    /\ wpc = "asleep"
    /\ TakeRequest
    /\ UNCHANGED <<buffer, running, slot, opc, clientVars>>

WorkerSpurious ==
    /\ wpc = "asleep"
    /\ wpc' = "poll"
    /\ UNCHANGED <<buffer, queue, running, request, slot, opc, clientVars>>

\* Bug form of WorkerFind: a full buffer reuses its first slot.
WorkerFind_Reuse ==
    /\ wpc = "find"
    /\ wpc' = "load"
    /\ slot' = IF Free = {} THEN 1 ELSE First(Free)
    /\ UNCHANGED <<buffer, queue, running, request, opc, clientVars>>

\* The first free slot; without one the request is dropped.
WorkerFind ==
    /\ wpc = "find"
    /\ IF Free = {}
         THEN wpc' = "loop" /\ slot' = NoSlot
         ELSE wpc' = "load" /\ slot' = First(Free)
    /\ UNCHANGED <<buffer, queue, running, request, opc, clientVars>>

\* Bug form of WorkerStore: the slot is not marked ready.
WorkerStore_NotReady ==
    /\ wpc = "load"
    /\ buffer' = IF request \in Missing THEN buffer
                 ELSE [buffer EXCEPT ![slot].id = request, ![slot].occupied = TRUE]
    /\ wpc' = "notify"
    /\ UNCHANGED <<queue, running, request, slot, opc, clientVars>>

\* load_block without the lock, then the slot is filled under it; a load that
\* returns no data fills nothing and still notifies.
WorkerStore ==
    /\ wpc = "load"
    /\ buffer' = IF request \in Missing THEN buffer
                 ELSE [buffer EXCEPT ![slot] =
                         [id |-> request, occupied |-> TRUE, ready |-> TRUE]]
    /\ wpc' = "notify"
    /\ UNCHANGED <<queue, running, request, slot, opc, clientVars>>

\* cv_.notify_all(), outside the lock.
WorkerNotify ==
    /\ wpc = "notify"
    /\ NotifyClients
    /\ wpc' = "loop"
    /\ UNCHANGED <<buffer, queue, running, request, slot, opc, wants>>

WorkerStep == WorkerLoop \/ WorkerPoll \/ WorkerFind \/ WorkerStore \/ WorkerNotify
Worker == WorkerStep \/ WorkerTimeout \/ WorkerSpurious

-----------------------------------------------------------------------------
(* The clients' calls *)

\* Bug forms of LayerRequests and PrefetchLayer: one matrix too many, and a
\* push that notifies nobody.
LayerRequests_OffByOne(l) == [i \in 1 .. NMatrices + 1 |-> <<l, i - 1>>]

\* One request per matrix, in order, then one notification.
LayerRequests(l) == [i \in 1 .. NMatrices |-> <<l, i - 1>>]

PrefetchLayer_Silent(c, l) ==
    /\ cpc[c] = "idle"
    /\ Len(queue) + NMatrices <= MaxQueue
    /\ queue' = queue \o LayerRequests(l)
    /\ UNCHANGED <<buffer, running, workerVars, opc, clientVars>>

PrefetchLayer(c, l) ==
    /\ cpc[c] = "idle"
    /\ Len(queue) + NMatrices <= MaxQueue
    /\ queue' = queue \o LayerRequests(l)
    /\ NotifyWorker
    /\ UNCHANGED <<buffer, running, request, slot, opc, clientVars>>

\* wait_for_block(): take the block if it is there, else sleep on cv_.  The
\* predicate does not look at running_.
Await(c, b) ==
    /\ IF Ready(b) # {}
         THEN /\ buffer' = Taken(First(Ready(b)))
              /\ cpc' = [cpc EXCEPT ![c] = "idle"]
              /\ wants' = [wants EXCEPT ![c] = NoBlock]
         ELSE /\ cpc' = [cpc EXCEPT ![c] = "asleep"]
              /\ wants' = [wants EXCEPT ![c] = b]
              /\ UNCHANGED buffer
    /\ UNCHANGED <<queue, running, workerVars, opc>>

WaitForBlock(c, b) == cpc[c] = "idle" /\ Await(c, b)
WaitResume(c)      == cpc[c] = "woken" /\ Await(c, wants[c])

WaitSpurious(c) ==
    /\ cpc[c] = "asleep"
    /\ cpc' = [cpc EXCEPT ![c] = "woken"]
    /\ UNCHANGED <<buffer, queue, running, workerVars, opc, wants>>

\* try_get_block(); a call that finds nothing changes nothing.
TryGetBlock(c, b) ==
    /\ cpc[c] = "idle"
    /\ Ready(b) # {}
    /\ buffer' = Taken(First(Ready(b)))
    /\ UNCHANGED <<queue, running, workerVars, opc, clientVars>>

\* release_block(): the first slot with these ids, occupied or not, and one
\* notification even when there is none.
ReleaseBlock(c, b) ==
    /\ cpc[c] = "idle"
    /\ LET named == {s \in Slots : buffer[s].id = b}
       IN  buffer' = IF named = {} THEN buffer ELSE Taken(First(named))
    /\ NotifyWorker
    /\ UNCHANGED <<queue, running, request, slot, opc, clientVars>>

Client(c) ==
    \/ \E l \in Layers : PrefetchLayer(c, l)
    \/ \E b \in Blocks : \/ WaitForBlock(c, b)
                         \/ TryGetBlock(c, b)
                         \/ ReleaseBlock(c, b)
    \/ WaitResume(c)
    \/ WaitSpurious(c)

Next == Start \/ Stop \/ Worker \/ \E c \in Clients : Client(c)

(* The scheduler runs every thread that can run: the worker, the owner inside
   stop(), and a client that has been woken.  Nothing makes a client call, a
   timeout or a spurious wake-up happen. *)
Fairness ==
    /\ WF_vars(WorkerStep)
    /\ WF_vars(StopNotify) /\ WF_vars(StopNotifyAll) /\ WF_vars(StopJoin)
    /\ \A c \in Clients : WF_vars(WaitResume(c))

Spec == Init /\ [][Next]_vars /\ Fairness

-----------------------------------------------------------------------------
(* Types and how the program counters go together *)
TypeOK ==
    /\ buffer \in [Slots -> [id : Blocks, occupied : BOOLEAN, ready : BOOLEAN]]
    /\ queue \in Seq(Blocks)
    /\ running \in BOOLEAN
    /\ wpc \in {"off", "loop", "poll", "asleep", "find", "load", "notify", "exited"}
    /\ request \in Blocks \cup {NoBlock}
    /\ slot \in Slots \cup {NoSlot}
    /\ opc \in {"idle", "flagged", "notified", "joining"}
    /\ cpc \in [Clients -> {"idle", "asleep", "woken"}]
    /\ wants \in [Clients -> Blocks \cup {NoBlock}]

(* The worker picks its slot in one critical section and fills it in another:
   whatever the clients do in between, the slot is still free. *)
SlotReserved == wpc = "load" => slot \in Slots /\ ~ buffer[slot].occupied

(* No step puts another block into a slot that holds one nobody has taken. *)
NoOverwrite ==
    [][\A s \in Slots : buffer[s].occupied /\ buffer'[s].occupied
                          => buffer'[s] = buffer[s]]_vars

(* A client never sleeps on a block that is there, unless the worker is just
   about to notify it: storing under the lock and notifying outside it loses
   no wake-up. *)
NoLostWakeup ==
    \A c \in Clients :
        cpc[c] = "asleep" /\ Ready(wants[c]) # {} => wpc = "notify"

(* The worker never sleeps on a request, and when it sleeps through stop() its
   notification is still to come: running_ is cleared outside the lock, the
   lock in stop() makes up for it. *)
WorkerAwake ==
    wpc = "asleep" => /\ queue = <<>>
                      /\ ~ running => opc = "flagged"

(* start() never finds a worker thread that is not joined: assigning to a
   joinable std::thread would end the process. *)
ThreadJoined == opc = "idle" /\ ~ running => wpc = "off"

(* stop() returns, without the help of the worker's timeout. *)
StopEnds == opc = "flagged" ~> opc = "idle"

-----------------------------------------------------------------------------
(* A careful owner and careful clients, who never have more blocks in flight
   than the buffer has slots, never ask twice for a block in flight, wait only
   for blocks that are coming and that nobody else waits for, release only
   blocks that are gone, and do not stop the pipeline. *)

InHand == IF wpc \in {"find", "load"} THEN 1 ELSE 0
InFlightCount == Len(queue) + InHand + Cardinality(Slots \ Free)

InFlight(b) == \/ \E i \in 1 .. Len(queue) : queue[i] = b
               \/ wpc \in {"find", "load"} /\ request = b
               \/ Ready(b) # {}
Awaited(b) == \E c \in Clients : wants[c] = b

CarefulClient(c) ==
    \/ \E l \in Layers : /\ InFlightCount + NMatrices <= NSlots
                         /\ \A m \in Matrices : ~ InFlight(<<l, m>>)
                         /\ PrefetchLayer(c, l)
    \/ \E b \in Blocks \ Missing : InFlight(b) /\ ~ Awaited(b) /\ WaitForBlock(c, b)
    \/ \E b \in Blocks : ~ Awaited(b) /\ TryGetBlock(c, b)
    \/ \E b \in Blocks : ~ InFlight(b) /\ ReleaseBlock(c, b)
    \/ WaitResume(c)
    \/ WaitSpurious(c)

CarefulNext == Start \/ Worker \/ \E c \in Clients : CarefulClient(c)
CarefulSpec == Init /\ [][CarefulNext]_vars /\ Fairness /\ WF_vars(Start)

(* For careful clients the worker always finds a free slot: no request is
   dropped. *)
NoRequestDropped == wpc = "find" => Free # {}

(* For careful clients every wait_for_block() returns. *)
WaitsEnd == \A c \in Clients : cpc[c] # "idle" ~> cpc[c] = "idle"

(* prefetch.hpp of wait_for_block: "Wait for a specific block to be ready and
   get it": a client that waits for a block it has asked for gets it, as long as
   the pipeline runs.  It need not: a full buffer drops the request. *)
RequestedBlockArrives ==
    \A c \in Clients :
        cpc[c] = "asleep" /\ InFlight(wants[c]) ~> cpc[c] = "idle" \/ ~ running
=============================================================================
