-------------------------------- MODULE Events --------------------------------
(***************************************************************************)
(* The event queue of src/events/events.c between the keyboard interrupt,  *)
(* which queues, and the thread that waits in s2_EventAwait and dequeues.  *)
(* The interrupt cannot nest in itself (no EOI before the handler's end),  *)
(* so it is one step; the thread's accesses to the shared queue are one    *)
(* step each, in the order of the committed kernel, which reads size once  *)
(* in s2_EventQueueDequeue.  Nodes are never freed: the node of the k-th   *)
(* event is k.                                                             *)
(***************************************************************************)
EXTENDS Naturals, Sequences

CONSTANT MaxEvents   \* bound: key events the keyboard sends

ASSUME EventsAssumption == MaxEvents \in Nat \ {0}

Nodes   == 1..MaxEvents
Nowhere == 0               \* NULL, or what an allocation happens to contain

VARIABLES
  front, rear, size,   \* s2_eventQueue
  prev,                \* the prev field of each node
  pc,                  \* where the waiting thread is
  sz, node, next,      \* its registers: size, front and front->prev as read
  got,                 \* the events s2_EventAwait returned, in order
  nq,                  \* the number of events queued
  starter,             \* history: the node last queued into an empty queue
  races,               \* history: events queued while a dequeue was under way
  overrun,             \* history: a third event came before a starter was taken
  wild                 \* a pointer that leads nowhere was followed

queue  == <<front, rear, size, prev>>
regs   == <<sz, node, next>>
past   == <<starter, races, overrun>>
vars   == <<queue, pc, regs, got, nq, past, wild>>

Places == {"check", "halt", "asleep", "size", "rear", "link", "front",
           "advance", "count"}

(* Between the read of size and the store that overwrites it. *)
Dequeuing == pc \in {"rear", "link", "front", "advance", "count"}

-----------------------------------------------------------------------------
(* s2_EventQueueInit; the prev of a node is set by nobody when it is made. *)
Init ==
  /\ front = Nowhere /\ rear = Nowhere /\ size = 0
  /\ prev = [n \in Nodes |-> Nowhere]
  /\ pc = "check"
  /\ sz = 0 /\ node = Nowhere /\ next = Nowhere
  /\ got = <<>>
  /\ nq = 0
  /\ starter = Nowhere /\ races = 0 /\ overrun = FALSE
  /\ wild = FALSE

(* Variants of definitions below, each with the mistake its name tells. *)
WakeSansCheck == IF pc = "asleep" THEN "halt" ELSE pc

EnqueueSansLink(n) ==
  /\ size' = size + 1
  /\ IF size = 0
     THEN front' = n /\ UNCHANGED <<rear, prev>>
     ELSE rear' = n /\ UNCHANGED <<front, prev>>

EnqueueAtFront(n) ==
  /\ size' = size + 1
  /\ IF size = 0
     THEN front' = n /\ UNCHANGED <<rear, prev>>
     ELSE /\ prev' = [prev EXCEPT ![n] = front]
          /\ front' = n
          /\ UNCHANGED rear

(* An interrupt ends hlt, and the loop reads size again. *)
Wake == IF pc = "asleep" THEN "check" ELSE pc

(* s2_EventQueueQueue.  The first node of a burst is not made the rear, so *)
(* the second one is linked behind whatever rear was: NULL, whose prev is a*)
(* harmless address, or the last node of an earlier burst.                 *)
EventQueueQueue(n) ==
  /\ size' = size + 1
  /\ IF size = 0
     THEN front' = n /\ UNCHANGED <<rear, prev>>
     ELSE /\ prev' = IF rear \in Nodes THEN [prev EXCEPT ![rear] = n] ELSE prev
          /\ rear' = n
          /\ UNCHANGED front

(* irq1_handler: s2_PS2KeyboardHandler dispatches one event. *)
Keyboard ==
  /\ ~wild /\ nq < MaxEvents
  /\ nq' = nq + 1
  /\ EventQueueQueue(nq + 1)
  /\ pc' = Wake
  /\ starter' = IF size = 0 THEN nq + 1 ELSE starter
  /\ races' = IF Dequeuing THEN races + 1 ELSE races
  /\ overrun' = (overrun \/ (size >= 2 /\ front = starter))
  /\ UNCHANGED <<regs, got, wild>>

(* irq0_handler; any interrupt ends hlt. *)
Timer ==
  /\ ~wild /\ pc = "asleep"
  /\ pc' = Wake
  /\ UNCHANGED <<queue, regs, got, nq, past, wild>>

-----------------------------------------------------------------------------
(* s2_EventAwait: while (size == 0) hlt. *)
Check ==
  /\ pc = "check"
  /\ pc' = IF size = 0 THEN "halt" ELSE "size"
  /\ UNCHANGED <<queue, regs, got, nq, past, wild>>

Halt ==
  /\ pc = "halt"
  /\ pc' = "asleep"
  /\ UNCHANGED <<queue, regs, got, nq, past, wild>>

(* s2_EventQueueDequeue *)
ReadSize ==
  /\ pc = "size"
  /\ sz' = size
  /\ pc' = CASE size = 0 -> "check"
             [] size = 2 -> "rear"
             [] OTHER    -> "front"
  /\ UNCHANGED <<queue, node, next, got, nq, past, wild>>

ReadRear ==
  /\ pc = "rear"
  /\ next' = rear
  /\ pc' = "link"
  /\ UNCHANGED <<queue, sz, node, got, nq, past, wild>>

(* front->prev = rear, when there are two. *)
Link ==
  /\ pc = "link"
  /\ node' = front
  /\ prev' = IF front \in Nodes THEN [prev EXCEPT ![front] = next] ELSE prev
  /\ wild' = (front \notin Nodes)
  /\ pc' = "advance"
  /\ UNCHANGED <<front, rear, size, sz, next, got, nq, past>>

ReadFront ==
  /\ pc = "front"
  /\ node' = front
  /\ next' = IF front \in Nodes THEN prev[front] ELSE Nowhere
  /\ wild' = (front \notin Nodes)
  /\ pc' = "advance"
  /\ UNCHANGED <<queue, sz, got, nq, past>>

Advance ==
  /\ pc = "advance"
  /\ front' = next
  /\ pc' = "count"
  /\ UNCHANGED <<rear, size, prev, regs, got, nq, past, wild>>

CountUncached ==
  /\ pc = "count"
  /\ size' = size - 1
  /\ got' = Append(got, node)
  /\ pc' = "check"
  /\ UNCHANGED <<front, rear, prev, regs, nq, past, wild>>

(* The count read at the start, less one, overwrites what size is by now. *)
Count ==
  /\ pc = "count"
  /\ size' = sz - 1
  /\ got' = Append(got, node)
  /\ pc' = "check"
  /\ UNCHANGED <<front, rear, prev, regs, nq, past, wild>>

(* A step of the waiting thread; past a wild pointer nothing is known. *)
Await ==
  /\ ~wild
  /\ \/ Check \/ Halt \/ ReadSize \/ ReadRear \/ Link \/ ReadFront
     \/ Advance \/ Count

Next == Keyboard \/ Timer \/ Await

(* The thread runs whenever it is not halted and the PIT keeps ticking. *)
Fairness == WF_vars(Await) /\ WF_vars(Timer)

Spec == Init /\ [][Next]_vars /\ Fairness

-----------------------------------------------------------------------------
Calm == races = 0 /\ ~overrun

(* Behaviours in which keys come slowly enough: none while a dequeue is    *)
(* under way, and no third one before the first of a burst is taken.       *)
CalmSpec == Init /\ [][Next /\ Calm']_vars /\ Fairness

(* Every variable of the queue keeps its type; size never wraps below zero.*)
TypeOK ==
  /\ front \in Nodes \cup {Nowhere} /\ rear \in Nodes \cup {Nowhere}
  /\ size \in Nat /\ sz \in Nat /\ nq \in 0..MaxEvents
  /\ prev \in [Nodes -> Nodes \cup {Nowhere}]
  /\ pc \in Places
  /\ node \in Nodes \cup {Nowhere} /\ next \in Nodes \cup {Nowhere}
  /\ got \in Seq(Nodes \cup {Nowhere})
  /\ starter \in Nodes \cup {Nowhere} /\ races \in Nat
  /\ overrun \in BOOLEAN /\ wild \in BOOLEAN

(* While keys come slowly s2_EventAwait returns every event, in the order  *)
(* of the key strokes, and follows no pointer that leads nowhere, although *)
(* the first node of a burst is never linked to the second when queued.    *)
FifoWhileCalm ==
  Calm => ~wild /\ \A i \in DOMAIN got : got[i] = i

(* Whatever the interleaving, events are not returned twice or out of      *)
(* order: an interrupted dequeue can only skip events.                     *)
NeverBackwards ==
  \A i, j \in DOMAIN got : i < j => got[i] < got[j]

(* The events size counts; while a dequeue is under way, the ones it will  *)
(* leave counted.                                                          *)
Counted == IF Dequeuing THEN sz ELSE size

(* Each event queued while a dequeue was under way costs exactly one event,*)
(* and nothing else loses any: the store of size forgets the increments of *)
(* the interrupt.                                                          *)
LossExact == nq = Len(got) + Counted + races

(* A wild pointer is followed only after a burst of three: an interrupted  *)
(* dequeue loses events, but does not corrupt the list.                    *)
WildOnlyAfterOverrun == wild => overrun

(* An event in the queue is not slept on: the thread returns one, though   *)
(* the interrupt may come between its test of size and hlt.                *)
QueuedIsServed ==
  \A n \in 0..MaxEvents :
    (size > 0 /\ Len(got) = n) ~> (Len(got) > n \/ wild)

(* With keys that come slowly the queue is a queue: what is waiting is the *)
(* events after the last one returned, each is returned once, in order,    *)
(* and eventually.                                                         *)
Fifo == INSTANCE EventFifo WITH
  waiting <- [i \in 1..(nq - Len(got)) |-> Len(got) + i],
  taken   <- got

ImplementsFifo == Fifo!Spec

(* The inductive invariant behind the theorems.  Without races or overrun  *)
(* the nodes from Len(got) + 1 to nq are chained through prev; only the    *)
(* starter of a burst may lack its link, and it never has two behind it.   *)
Chain ==
  LET nd == Len(got) IN
  /\ \A i \in DOMAIN got : got[i] = i
  /\ ~wild
  /\ starter <= nd + 1
  /\ size >= 3 => starter <= nd
  /\ size >= 1 /\ pc # "count" => front = nd + 1
  /\ size >= 2 \/ (size = 1 /\ starter <= nd) => rear = nq
  /\ \A k \in Nodes : nd < k /\ k < nq /\ k # starter => prev[k] = k + 1
  /\ Dequeuing => size = sz
  /\ pc = "link" => next = nq
  /\ pc \in {"advance", "count"} => node = nd + 1 /\ (sz >= 2 => next = nd + 2)
  /\ pc = "count" /\ sz >= 2 => front = nd + 2

(* The count of lost events is exact at every step of a dequeue, and the   *)
(* chain whole while keys come slowly.                                     *)
CountInv ==
  /\ TypeOK
  /\ LossExact
  /\ Dequeuing => sz >= 1
  /\ pc \in {"rear", "link"} => sz = 2
  /\ pc = "front" => sz # 2
  /\ Calm => Chain

(* Whatever the interleaving, the queue is a list of at least s nodes from *)
(* f on, all later than what was returned and chained but for a starter; or*)
(* it is broken, because a starter was taken with two or more behind it.   *)
ListFrom(f, s) ==
  \/ /\ f \in Nodes /\ starter <= f /\ f + s <= nq + 1
     /\ \A i \in DOMAIN got : got[i] < f
     /\ \A k \in Nodes : f <= k /\ k < nq /\ k # starter => prev[k] = k + 1
  \/ f = Nowhere /\ s >= 2 /\ overrun

(* What front and the registers point to.                                  *)
ListHeld ==
  /\ pc \notin {"advance", "count"} /\ size >= 1 => ListFrom(front, size)
  /\ pc \notin {"advance", "count"} /\ size >= 1 /\ front = starter =>
       prev[front] = Nowhere /\ (size >= 3 => overrun)
  /\ pc = "link" /\ front \in Nodes => front < next /\ next <= nq
  /\ pc \in {"advance", "count"} =>
       /\ node \in Nodes /\ starter <= node /\ node <= nq
       /\ \A i \in DOMAIN got : got[i] < node
       /\ sz >= 2 => ListFrom(next, sz - 1) /\ next \notin 1..node
  /\ pc = "count" /\ sz >= 2 => front = next

(* Every event queued is later than those that were, so links point forward*)
(* and what is returned only moves on.                                     *)
ListInv ==
  /\ NeverBackwards /\ WildOnlyAfterOverrun
  /\ \A i \in DOMAIN got : got[i] <= nq
  /\ starter <= nq /\ rear <= nq /\ (rear = starter => rear = Nowhere)
  /\ nq >= 1 => starter >= 1
  /\ size >= 2 => rear = nq
  /\ size = 1 => rear = nq \/ starter = nq
  /\ \A k \in Nodes : prev[k] # Nowhere => k < prev[k] /\ prev[k] <= nq
  /\ Dequeuing => size >= sz
  /\ ~wild => ListHeld

(* The inductive invariant of the queue. *)
QueueInv == CountInv /\ ListInv
=============================================================================
