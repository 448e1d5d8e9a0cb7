------------------------------ MODULE EventsProofs ------------------------------
(***************************************************************************)
(* Theorems about the event queue, for any number of key events.           *)
(***************************************************************************)
EXTENDS Events, SequenceTheorems, TLAPS

USE DEF Nowhere

(* The initial state satisfies the invariant of the count. *)
LEMMA CountInit == Init => CountInv
  <1> SUFFICES ASSUME Init PROVE CountInv
    OBVIOUS
  <1> USE EventsAssumption DEF EventsAssumption, Init
  <1>1. Len(got) = 0 /\ DOMAIN got = {}
    OBVIOUS
  <1>2. TypeOK
    <2>1. prev \in [Nodes -> Nodes \cup {Nowhere}]
      OBVIOUS
    <2>2. got \in Seq(Nodes \cup {Nowhere})
      OBVIOUS
    <2>3. pc \in Places /\ overrun \in BOOLEAN /\ wild \in BOOLEAN
      BY DEF Places
    <2>4. nq \in 0..MaxEvents /\ size \in Nat /\ sz \in Nat /\ races \in Nat
      OBVIOUS
    <2> QED BY <2>1, <2>2, <2>3, <2>4 DEF TypeOK
  <1>3. LossExact
    BY <1>1 DEF LossExact, Counted, Dequeuing
  <1>4. Chain
    BY <1>1 DEF Chain, Nodes, Dequeuing
  <1> QED BY <1>2, <1>3, <1>4 DEF CountInv, Dequeuing

(* Numbers and domains the steps below rely on. *)
LEMMA QueueFacts ==
  ASSUME CountInv
  PROVE  /\ Len(got) \in Nat /\ DOMAIN got = 1..Len(got)
         /\ nq \in Nat /\ MaxEvents \in Nat /\ nq <= MaxEvents
         /\ size \in Nat /\ sz \in Nat /\ races \in Nat
         /\ \A k : k \in Nodes <=> k \in Nat /\ 1 <= k /\ k <= MaxEvents
         /\ ~Dequeuing => nq = Len(got) + size + races
         /\ Dequeuing  => nq = Len(got) + sz + races /\ sz >= 1
  BY LenProperties, EventsAssumption
     DEF CountInv, TypeOK, Nodes, EventsAssumption, LossExact, Counted

(* A key event in the middle of a dequeue is one race more; any other one  *)
(* joins the chain.                                                        *)
LEMMA KeyboardKeeps ==
  ASSUME CountInv, Keyboard
  PROVE  CountInv'
  <1> USE QueueFacts DEF CountInv
  <1>1. /\ ~wild /\ wild' = wild /\ nq < MaxEvents /\ nq' = nq + 1 /\ size' = size + 1
        /\ sz' = sz /\ node' = node /\ next' = next /\ got' = got
        /\ starter' = IF size = 0 THEN nq + 1 ELSE starter
        /\ races' = IF Dequeuing THEN races + 1 ELSE races
        /\ overrun' = (overrun \/ (size >= 2 /\ front = starter))
        /\ pc' = IF pc = "asleep" THEN "check" ELSE pc
    BY DEF Keyboard, EventQueueQueue, Wake, regs
  <1>2. /\ size = 0 => front' = nq + 1 /\ rear' = rear /\ prev' = prev
        /\ size # 0 => /\ front' = front /\ rear' = nq + 1
                       /\ prev' = IF rear \in Nodes THEN [prev EXCEPT ![rear] = nq + 1]
                                  ELSE prev
    BY DEF Keyboard, EventQueueQueue
  <1>3. nq + 1 \in Nodes
    BY <1>1, SMTT(30)
  <1>4. Dequeuing' <=> Dequeuing
    BY <1>1 DEF Dequeuing
  <1>5. TypeOK'
    BY <1>1, <1>2, <1>3, SMTT(30) DEF TypeOK, Places
  <1>6. LossExact'
    BY <1>1, <1>4 DEF LossExact, Counted
  <1>7. /\ (Dequeuing => sz >= 1)'
        /\ (pc \in {"rear", "link"} => sz = 2)'
        /\ (pc = "front" => sz # 2)'
    BY <1>1, <1>4
  <1>8. ASSUME Calm' PROVE Chain'
    <2>1. Calm /\ ~Dequeuing /\ (size >= 2 => front # starter)
      <3>1. races' = 0 /\ ~overrun'
        BY <1>8 DEF Calm
      <3>2. ~overrun /\ ~(size >= 2 /\ front = starter)
        BY <3>1, <1>1, Zenon
      <3>3. races = 0 /\ ~Dequeuing
        BY <3>1, <1>1
      <3> QED BY <3>2, <3>3 DEF Calm
    <2>2. Chain /\ nq = Len(got) + size
      BY <2>1 DEF Calm
    <2>3. /\ pc' # "link" /\ pc' \notin {"advance", "count"} /\ pc # "count" /\ ~Dequeuing'
      BY <2>1, <1>1, <1>4 DEF Dequeuing
    <2>4. starter \in Nat
      BY DEF TypeOK
    <2>5. CASE size = 0
      BY <2>2, <2>3, <2>4, <2>5, <1>1, <1>2 DEF Chain
    <2>6. CASE size # 0
      <3>1. front = Len(got) + 1
        BY <2>2, <2>3, <2>6 DEF Chain
      <3>2. /\ starter' = starter /\ starter <= Len(got) + 1
            /\ size >= 2 => starter <= Len(got)
        BY <3>1, <2>1, <2>2, <2>4, <2>6, <1>1 DEF Chain
      <3>3. \A k \in Nodes : Len(got') < k /\ k < nq' /\ k # starter' => prev'[k] = k + 1
        <4> SUFFICES ASSUME NEW k \in Nodes, Len(got) < k, k < nq + 1, k # starter
                     PROVE  prev'[k] = k + 1
          BY <1>1, <3>2
        <4>1. prev \in [Nodes -> Nodes \cup {Nowhere}]
          BY DEF TypeOK
        <4>2. CASE k = nq
          <5>1. rear = nq
            BY <4>2, <2>2, <2>4, <2>6, <3>2 DEF Chain
          <5>2. nq \in Nodes /\ prev' = [prev EXCEPT ![nq] = nq + 1]
            BY <5>1, <4>2, <2>6, <1>2
          <5> QED BY <5>2, <4>1, <4>2
        <4>3. CASE k # nq
          <5>1. k \in Nat /\ nq \in Nat /\ k < nq /\ size >= 2
            BY <4>3, <2>2, SMTT(30)
          <5>2. rear = nq /\ prev[k] = k + 1
            BY <5>1, <3>2, <1>1, <2>2 DEF Chain
          <5>3. rear # k
            BY <5>1, <5>2
          <5> QED BY <5>2, <5>3, <4>1, <2>6, <1>2
        <4> QED BY <4>2, <4>3
      <3>4. (\A i \in DOMAIN got' : got'[i] = i) /\ ~wild'
        BY <2>2, <1>1 DEF Chain
      <3>5. /\ starter' <= Len(got') + 1 /\ (size' >= 3 => starter' <= Len(got'))
            /\ front' = Len(got') + 1 /\ rear' = nq'
        BY <3>1, <3>2, <2>4, <2>6, <1>1, <1>2
      <3> QED BY <3>3, <3>4, <3>5, <2>3 DEF Chain
    <2> QED BY <2>5, <2>6
  <1> QED BY <1>5, <1>6, <1>7, <1>8

(* Waking, testing and halting touch nothing the invariant speaks of but pc.*)
LEMMA IdleKeeps ==
  ASSUME CountInv,
         ~Dequeuing, pc' \in {"check", "halt", "asleep", "size"},
         UNCHANGED <<queue, regs, got, nq, past, wild>>
  PROVE  CountInv'
  <1> USE DEF CountInv, queue, regs, past
  <1>1. ~Dequeuing' /\ pc' \notin {"rear", "link", "front", "advance", "count"}
    BY DEF Dequeuing
  <1>2. TypeOK'
    BY DEF TypeOK, Places
  <1>3. LossExact'
    BY <1>1 DEF LossExact, Counted
  <1>4. Calm' => Chain'
    <2>1. pc # "count"
      BY DEF Dequeuing
    <2> QED BY <1>1, <2>1 DEF Calm, Chain
  <1> QED BY <1>1, <1>2, <1>3, <1>4

(* The thread remembers the size, which no dequeue has changed yet. *)
LEMMA ReadSizeKeeps ==
  ASSUME CountInv, ReadSize
  PROVE  CountInv'
  <1>1. /\ pc = "size" /\ ~Dequeuing /\ sz' = size
        /\ UNCHANGED <<queue, node, next, got, nq, past, wild>>
        /\ pc' = CASE size = 0 -> "check" [] size = 2 -> "rear" [] OTHER -> "front"
    BY DEF ReadSize, Dequeuing
  <1> USE QueueFacts, <1>1 DEF CountInv, queue, past
  <1>2. /\ size = 0 => pc' = "check"
        /\ size = 2 => pc' = "rear"
        /\ size # 0 /\ size # 2 => pc' = "front"
    OBVIOUS
  <1>3. pc' \in Places /\ (Dequeuing' <=> size # 0)
    BY <1>2 DEF Places, Dequeuing
  <1>4. TypeOK'
    BY <1>3 DEF TypeOK
  <1>5. LossExact'
    BY <1>2, <1>3 DEF LossExact, Counted
  <1>6. /\ (Dequeuing => sz >= 1)'
        /\ (pc \in {"rear", "link"} => sz = 2)'
        /\ (pc = "front" => sz # 2)'
    BY <1>2, <1>3
  <1>7. Calm' => Chain'
    BY <1>2 DEF Calm, Chain, Dequeuing
  <1> QED BY <1>4, <1>5, <1>6, <1>7

(* With two events queued and no race, rear is the second. *)
LEMMA ReadRearKeeps ==
  ASSUME CountInv, ReadRear
  PROVE  CountInv'
  <1>1. /\ pc = "rear" /\ pc' = "link" /\ Dequeuing /\ Dequeuing' /\ next' = rear
        /\ UNCHANGED <<queue, sz, node, got, nq, past, wild>>
    BY DEF ReadRear, Dequeuing
  <1> USE QueueFacts, <1>1 DEF CountInv, queue, past
  <1>2. TypeOK'
    BY DEF TypeOK, Places
  <1>3. LossExact'
    BY DEF LossExact, Counted
  <1>4. Calm' => Chain'
    BY DEF Calm, Chain
  <1> QED BY <1>2, <1>3, <1>4

(* The link makes the starter's successor known before front moves on. *)
LEMMA LinkKeeps ==
  ASSUME CountInv, Link
  PROVE  CountInv'
  <1>1. /\ pc = "link" /\ pc' = "advance" /\ Dequeuing /\ Dequeuing' /\ node' = front
        /\ prev' = IF front \in Nodes THEN [prev EXCEPT ![front] = next] ELSE prev
        /\ wild' = (front \notin Nodes)
        /\ UNCHANGED <<front, rear, size, sz, next, got, nq, past>>
    BY DEF Link, Dequeuing
  <1> USE QueueFacts, <1>1 DEF CountInv, past
  <1>2. TypeOK'
    BY DEF TypeOK, Places
  <1>3. LossExact'
    BY DEF LossExact, Counted
  <1>4. ASSUME Calm' PROVE Chain'
    <2>1. Chain /\ sz = 2 /\ size = 2 /\ nq = Len(got) + 2
      BY <1>4 DEF Calm, Chain
    <2>2. front = Len(got) + 1 /\ front \in Nodes /\ next = front + 1
      BY <2>1 DEF Chain
    <2>3. \A k \in Nodes : Len(got) < k /\ k < nq /\ k # starter => prev'[k] = k + 1
      <3> SUFFICES ASSUME NEW k \in Nodes, Len(got) < k, k < nq
                   PROVE  prev'[k] = k + 1
        OBVIOUS
      <3>1. k = front
        BY <2>1, <2>2
      <3>2. prev \in [Nodes -> Nodes \cup {Nowhere}]
        BY DEF TypeOK
      <3> QED BY <3>1, <3>2, <2>2
    <2>4. ~wild'
      BY <2>2
    <2> QED BY <2>1, <2>2, <2>3, <2>4 DEF Chain
  <1> QED BY <1>2, <1>3, <1>4

(* A chained front has its successor in prev. *)
LEMMA ReadFrontKeeps ==
  ASSUME CountInv, ReadFront
  PROVE  CountInv'
  <1>1. /\ pc = "front" /\ pc' = "advance" /\ Dequeuing /\ Dequeuing' /\ node' = front
        /\ next' = IF front \in Nodes THEN prev[front] ELSE Nowhere
        /\ wild' = (front \notin Nodes)
        /\ UNCHANGED <<queue, sz, got, nq, past>>
    BY DEF ReadFront, Dequeuing
  <1> USE QueueFacts, <1>1 DEF CountInv, queue, past
  <1>2. TypeOK'
    BY DEF TypeOK, Places
  <1>3. LossExact'
    BY DEF LossExact, Counted
  <1>4. ASSUME Calm' PROVE Chain'
    <2>1. Chain /\ size = sz /\ sz # 2 /\ nq = Len(got) + sz
      BY <1>4 DEF Calm, Chain
    <2>2. front = Len(got) + 1 /\ front \in Nodes
      BY <2>1, SMTT(30) DEF Chain
    <2>3. sz >= 2 => next' = front + 1
      <3> SUFFICES ASSUME sz >= 3 PROVE prev[front] = front + 1
        BY <2>1, <2>2
      <3>1. starter <= Len(got) /\ starter \in Nat
        BY <2>1 DEF Chain, TypeOK
      <3>2. front # starter /\ Len(got) < front /\ front < nq
        BY <3>1, <2>1, <2>2, SMTT(30)
      <3> QED BY <3>2, <2>1, <2>2 DEF Chain
    <2>4. ~wild'
      BY <2>2
    <2> QED BY <2>1, <2>2, <2>3, <2>4 DEF Chain
  <1> QED BY <1>2, <1>3, <1>4

(* front becomes the successor that was read. *)
LEMMA AdvanceKeeps ==
  ASSUME CountInv, Advance
  PROVE  CountInv'
  <1>1. /\ pc = "advance" /\ pc' = "count" /\ Dequeuing /\ Dequeuing' /\ front' = next
        /\ UNCHANGED <<rear, size, prev, regs, got, nq, past, wild>>
    BY DEF Advance, Dequeuing
  <1> USE QueueFacts, <1>1 DEF CountInv, regs, past
  <1>2. TypeOK'
    BY DEF TypeOK, Places
  <1>3. LossExact'
    BY DEF LossExact, Counted
  <1>4. Calm' => Chain'
    BY DEF Calm, Chain
  <1> QED BY <1>2, <1>3, <1>4

(* The event leaves the chain at its head. *)
LEMMA CountKeeps ==
  ASSUME CountInv, Count
  PROVE  CountInv'
  <1>1. /\ pc = "count" /\ pc' = "check" /\ Dequeuing /\ ~Dequeuing'
        /\ size' = sz - 1 /\ got' = Append(got, node)
        /\ UNCHANGED <<front, rear, prev, regs, nq, past, wild>>
    BY DEF Count, Dequeuing
  <1> USE QueueFacts, <1>1 DEF CountInv, regs, past
  <1>2. got \in Seq(Nodes \cup {Nowhere}) /\ node \in Nodes \cup {Nowhere}
    BY DEF TypeOK
  <1>3. /\ got' \in Seq(Nodes \cup {Nowhere}) /\ Len(got') = Len(got) + 1
        /\ DOMAIN got' = 1..(Len(got) + 1)
        /\ \A i \in 1..Len(got) : got'[i] = got[i]
        /\ got'[Len(got) + 1] = node
    BY <1>2, AppendProperties, LenProperties
  <1>4. TypeOK'
    BY <1>3 DEF TypeOK, Places
  <1>5. LossExact'
    BY <1>3 DEF LossExact, Counted
  <1>6. ASSUME Calm' PROVE Chain'
    <2>1. Chain /\ size = sz /\ nq = Len(got) + sz /\ node = Len(got) + 1
      BY <1>6 DEF Calm, Chain
    <2>2. starter \in Nat /\ starter <= Len(got) + 1
      BY <2>1 DEF Chain, TypeOK
    <2>3. \A i \in DOMAIN got' : got'[i] = i
      BY <1>3, <2>1, SMTT(30) DEF Chain
    <2>4. /\ size' >= 1 => front' = Len(got') + 1
          /\ size' >= 1 => rear' = nq'
      BY <1>3, <2>1 DEF Chain
    <2>5. \A k \in Nodes : Len(got') < k /\ k < nq' /\ k # starter' => prev'[k] = k + 1
      BY <1>3, <2>1 DEF Chain
    <2>6. ~wild'
      BY <2>1 DEF Chain
    <2> QED BY <1>3, <2>1, <2>2, <2>3, <2>4, <2>5, <2>6, SMTT(30) DEF Chain
  <1> QED BY <1>4, <1>5, <1>6

(* Every step of the keyboard, the timer and the thread keeps the invariant.*)
LEMMA CountNext == CountInv /\ [Next]_vars => CountInv'
  <1> SUFFICES ASSUME CountInv, [Next]_vars PROVE CountInv'
    OBVIOUS
  <1>1. CASE Keyboard
    BY <1>1, KeyboardKeeps
  <1>2. CASE Timer
    BY <1>2, IdleKeeps DEF Timer, Wake, Dequeuing
  <1>3. CASE Check
    BY <1>3, IdleKeeps DEF Check, Dequeuing
  <1>4. CASE Halt
    BY <1>4, IdleKeeps DEF Halt, Dequeuing
  <1>5. CASE UNCHANGED vars
    BY <1>5 DEF vars, queue, regs, past, CountInv, TypeOK, LossExact, Counted, Dequeuing,
                Calm, Chain
  <1> QED
    BY <1>1, <1>2, <1>3, <1>4, <1>5, ReadSizeKeeps, ReadRearKeeps, LinkKeeps,
       ReadFrontKeeps, AdvanceKeeps, CountKeeps DEF Next, Await

-----------------------------------------------------------------------------
(* What holds of the list, whatever the interleaving.  At the start there  *)
(* is none.                                                                *)
LEMMA ListInit == Init => ListInv
  <1> SUFFICES ASSUME Init PROVE ListInv
    OBVIOUS
  <1> USE EventsAssumption DEF EventsAssumption, Init
  <1>1. DOMAIN got = {}
    OBVIOUS
  <1>2. \A k \in Nodes : prev[k] = Nowhere
    OBVIOUS
  <1> QED BY <1>1, <1>2 DEF ListInv, ListHeld, NeverBackwards, WildOnlyAfterOverrun, Dequeuing

(* The types the steps below rely on. *)
LEMMA ListFacts ==
  ASSUME CountInv
  PROVE  /\ Len(got) \in Nat /\ DOMAIN got = 1..Len(got) /\ got \in Seq(Nodes \cup {Nowhere})
         /\ \A i \in DOMAIN got : got[i] \in Nat
         /\ front \in Nat /\ rear \in Nat /\ starter \in Nat /\ node \in Nat /\ next \in Nat
         /\ \A k \in Nodes : prev[k] \in Nat
         /\ prev \in [Nodes -> Nodes \cup {Nowhere}]
  <1>1. TypeOK
    BY DEF CountInv
  <1>2. Nodes \subseteq Nat
    BY EventsAssumption DEF Nodes, EventsAssumption
  <1>3. got \in Seq(Nodes \cup {Nowhere}) /\ prev \in [Nodes -> Nodes \cup {Nowhere}]
    BY <1>1 DEF TypeOK
  <1>4. \A i \in DOMAIN got : got[i] \in Nodes \cup {Nowhere}
    BY <1>3, ElementOfSeq, LenProperties
  <1> QED BY <1>1, <1>2, <1>3, <1>4, QueueFacts DEF TypeOK

(* A key event is later than all others: it goes behind the last, and if   *)
(* the list seems empty it is the list.                                    *)
LEMMA KeyboardKeepsList ==
  ASSUME CountInv, ListInv, Keyboard
  PROVE  ListInv'
  <1> DEFINE After(f, s) ==
        \/ /\ f \in Nodes /\ starter' <= f /\ f + s <= nq + 2
           /\ \A i \in DOMAIN got : got[i] < f
           /\ \A k \in Nodes : f <= k /\ k < nq + 1 /\ k # starter' => prev'[k] = k + 1
        \/ f = Nowhere /\ s >= 2 /\ overrun'
  <1> USE QueueFacts, ListFacts
  <1>1. /\ ~wild /\ wild' = wild /\ nq < MaxEvents /\ nq' = nq + 1 /\ size' = size + 1
        /\ sz' = sz /\ node' = node /\ next' = next /\ got' = got
        /\ starter' = IF size = 0 THEN nq + 1 ELSE starter
        /\ overrun' = (overrun \/ (size >= 2 /\ front = starter))
        /\ pc' = IF pc = "asleep" THEN "check" ELSE pc
    BY DEF Keyboard, EventQueueQueue, Wake, regs
  <1>2. /\ size = 0 => front' = nq + 1 /\ rear' = rear /\ prev' = prev
        /\ size # 0 => /\ front' = front /\ rear' = nq + 1
                       /\ prev' = IF rear \in Nodes THEN [prev EXCEPT ![rear] = nq + 1]
                                  ELSE prev
    BY DEF Keyboard, EventQueueQueue
  <1>3. nq + 1 \in Nodes
    BY <1>1, EventsAssumption DEF Nodes, EventsAssumption
  <1>4. /\ Dequeuing' <=> Dequeuing
        /\ pc' \in {"advance", "count"} <=> pc \in {"advance", "count"}
        /\ pc' = "link" <=> pc = "link"
        /\ pc' = "count" <=> pc = "count"
    BY <1>1 DEF Dequeuing
  <1>5. /\ starter <= nq /\ rear <= nq /\ (rear = starter => rear = Nowhere)
        /\ nq >= 1 => starter >= 1
        /\ size >= 2 => rear = nq
        /\ size = 1 => rear = nq \/ starter = nq
        /\ \A k \in Nodes : prev[k] # Nowhere => k < prev[k] /\ prev[k] <= nq
        /\ Dequeuing => size >= sz
        /\ \A i \in DOMAIN got : got[i] <= nq
    BY DEF ListInv
  <1>6. /\ pc \notin {"advance", "count"} /\ size >= 1 => ListFrom(front, size)
        /\ pc \notin {"advance", "count"} /\ size >= 1 /\ front = starter =>
             prev[front] = Nowhere /\ (size >= 3 => overrun)
        /\ pc = "link" /\ front \in Nodes => front < next /\ next <= nq
        /\ pc \in {"advance", "count"} =>
             /\ node \in Nodes /\ starter <= node /\ node <= nq
             /\ \A i \in DOMAIN got : got[i] < node
             /\ sz >= 2 => ListFrom(next, sz - 1) /\ next \notin 1..node
        /\ pc = "count" /\ sz >= 2 => front = next
    BY <1>1 DEF ListInv, ListHeld
  <1>7. NeverBackwards' /\ WildOnlyAfterOverrun'
    BY <1>1 DEF ListInv, NeverBackwards, WildOnlyAfterOverrun
  <1>8. size = 0 => ~Dequeuing /\ pc \notin {"advance", "count", "link"}
    BY <1>5 DEF Dequeuing
  <1>9. size # 0 => size >= 1 /\ starter >= 1 /\ starter' = starter
    BY <1>1, <1>5
  <1>10. \A k \in Nodes : prev'[k] = IF size # 0 /\ k = rear THEN nq + 1 ELSE prev[k]
    BY <1>2
  <1>11. \A k \in Nodes : prev'[k] # Nowhere => k < prev'[k] /\ prev'[k] <= nq + 1
    <2> SUFFICES ASSUME NEW k \in Nodes, prev'[k] # Nowhere
                 PROVE  k < prev'[k] /\ prev'[k] <= nq + 1
      OBVIOUS
    <2>1. CASE size # 0 /\ k = rear
      BY <1>5, <1>10, <2>1
    <2>2. CASE ~(size # 0 /\ k = rear)
      BY <1>5, <1>10, <2>2
    <2> QED BY <2>1, <2>2
  <1>12. /\ starter' <= nq' /\ rear' <= nq' /\ (rear' = starter' => rear' = Nowhere)
         /\ nq' >= 1 => starter' >= 1
         /\ size' >= 2 => rear' = nq'
         /\ size' = 1 => rear' = nq' \/ starter' = nq'
         /\ Dequeuing' => size' >= sz'
         /\ \A i \in DOMAIN got' : got'[i] <= nq'
    BY <1>1, <1>2, <1>4, <1>5, <1>9
  <1>13. (overrun => overrun') /\ (size >= 2 /\ front = starter => overrun')
    BY <1>1, Zenon
  <1>14. ASSUME size # 0, NEW f, NEW s \in Nat, ListFrom(f, s)
         PROVE  After(f, s) /\ After(f, s + 1)
    <2>1. CASE /\ f \in Nodes /\ starter <= f /\ f + s <= nq + 1
               /\ \A i \in DOMAIN got : got[i] < f
               /\ \A k \in Nodes : f <= k /\ k < nq /\ k # starter => prev[k] = k + 1
      <3>1. ASSUME NEW k \in Nodes, f <= k, k < nq + 1, k # starter
            PROVE  prev'[k] = k + 1
        <4>1. CASE k = nq
          <5>1. rear = nq
            BY <1>5, <1>9, <3>1, <4>1, <1>14
          <5> QED BY <1>10, <1>14, <4>1, <5>1
        <4>2. CASE k # nq
          <5>1. prev[k] = k + 1 /\ k < nq
            BY <2>1, <3>1, <4>2
          <5>2. k # rear
            BY <1>5, <1>9, <2>1, <3>1, <5>1, <1>14
          <5> QED BY <1>10, <5>1, <5>2
        <4> QED BY <4>1, <4>2
      <3>2. f + s <= nq + 2 /\ f + (s + 1) <= nq + 2 /\ starter' <= f
        BY <1>9, <2>1, <1>14
      <3>3. \A k \in Nodes : f <= k /\ k < nq + 1 /\ k # starter' => prev'[k] = k + 1
        BY <1>9, <1>14, <3>1
      <3> QED BY <2>1, <3>2, <3>3
    <2>2. CASE f = Nowhere /\ s >= 2 /\ overrun
      BY <1>14, <1>13, <2>2
    <2> QED BY <1>14, <2>1, <2>2 DEF ListFrom
  <1>15. /\ ListFrom(front, size)' <=> After(front', size')
         /\ ListFrom(next, sz - 1)' <=> After(next, sz - 1)
    <2>1. nq' + 1 = nq + 2
      BY <1>1
    <2> QED BY <1>1, <2>1 DEF ListFrom
  <1> HIDE DEF After
  <1>16. ListHeld'
    <2>1. CASE size = 0
      <3>1. After(nq + 1, 1)
        <4>1. starter' = nq + 1 /\ nq + 1 + 1 <= nq + 2
          BY <1>1, <2>1
        <4>2. \A i \in DOMAIN got : got[i] < nq + 1
          BY <1>5
        <4>3. \A k \in Nodes : ~(nq + 1 <= k /\ k < nq + 1)
          OBVIOUS
        <4> QED BY <1>3, <4>1, <4>2, <4>3 DEF After
      <3>2. prev'[nq + 1] = Nowhere
        BY <1>3, <1>5, <1>10, <2>1
      <3>3. front' = nq + 1 /\ size' = 1
        BY <1>1, <1>2, <2>1
      <3>4. ListFrom(front, size)'
        BY <1>15, <3>1, <3>3
      <3>5. starter' = nq + 1
        BY <1>1, <2>1
      <3> QED BY <1>4, <1>8, <2>1, <3>2, <3>3, <3>4, <3>5 DEF ListHeld
    <2>2. CASE size # 0
      <3>1. front' = front /\ starter' = starter /\ size >= 1
        BY <1>2, <1>9, <2>2
      <3>2. pc \notin {"advance", "count"} => After(front, size + 1)
        BY <1>6, <1>14, <2>2, <3>1
      <3>3. pc \notin {"advance", "count"} /\ front = starter =>
              prev'[front] = Nowhere /\ (size + 1 >= 3 => overrun')
        <4> SUFFICES ASSUME pc \notin {"advance", "count"}, front = starter
                     PROVE  prev'[front] = Nowhere /\ (size + 1 >= 3 => overrun')
          OBVIOUS
        <4>1. front \in Nodes /\ prev[front] = Nowhere /\ front # rear
          BY <1>5, <1>6, <1>9, <3>1, <2>2 DEF ListFrom
        <4>2. prev'[front] = Nowhere
          BY <1>10, <4>1
        <4>3. size + 1 >= 3 => overrun'
          BY <1>13
        <4> QED BY <4>2, <4>3
      <3>4. pc \in {"advance", "count"} /\ sz >= 2 => ListFrom(next, sz - 1)'
        BY <1>6, <1>14, <1>15, <2>2
      <3>5. /\ (pc' \notin {"advance", "count"} /\ size' >= 1 => ListFrom(front, size)')
            /\ (pc' \notin {"advance", "count"} /\ size' >= 1 /\ front' = starter' =>
                  prev'[front'] = Nowhere /\ (size' >= 3 => overrun'))
        BY <1>1, <1>4, <1>15, <3>1, <3>2, <3>3
      <3>6. pc' = "link" /\ front' \in Nodes => front' < next' /\ next' <= nq'
        BY <1>1, <1>4, <1>6, <3>1
      <3>7. pc' \in {"advance", "count"} =>
             /\ node' \in Nodes /\ starter' <= node' /\ node' <= nq'
             /\ \A i \in DOMAIN got' : got'[i] < node'
             /\ sz' >= 2 => ListFrom(next, sz - 1)' /\ next' \notin 1..node'
        BY <1>1, <1>4, <1>6, <3>1, <3>4
      <3>8. pc' = "count" /\ sz' >= 2 => front' = next'
        BY <1>1, <1>4, <1>6, <3>1
      <3> QED BY <3>5, <3>6, <3>7, <3>8 DEF ListHeld
    <2> QED BY <2>1, <2>2
  <1> QED BY <1>1, <1>7, <1>11, <1>12, <1>16 DEF ListInv

(* Waking, testing and halting leave the list alone. *)
LEMMA IdleKeepsList ==
  ASSUME CountInv, ListInv,
         ~Dequeuing, pc' \in {"check", "halt", "asleep", "size"},
         UNCHANGED <<queue, regs, got, nq, past, wild>>
  PROVE  ListInv'
  <1> USE DEF queue, regs, past
  <1>1. ~Dequeuing' /\ pc' \notin {"link", "advance", "count"}
        /\ pc \notin {"link", "advance", "count"}
    BY DEF Dequeuing
  <1>2. ListFrom(front, size)' = ListFrom(front, size)
    BY DEF ListFrom
  <1>3. ~wild' => ListHeld'
    BY <1>1, <1>2 DEF ListInv, ListHeld
  <1>4. NeverBackwards' /\ WildOnlyAfterOverrun'
    BY DEF ListInv, NeverBackwards, WildOnlyAfterOverrun
  <1> QED BY <1>1, <1>3, <1>4 DEF ListInv

(* The size the thread remembers is never more than the size. *)
LEMMA ReadSizeKeepsList ==
  ASSUME CountInv, ListInv, ReadSize
  PROVE  ListInv'
  <1>1. /\ pc = "size" /\ pc' \in {"check", "rear", "front"} /\ sz' = size
        /\ UNCHANGED <<queue, node, next, got, nq, past, wild>>
    BY DEF ReadSize
  <1> USE <1>1, QueueFacts DEF queue, past
  <1>2. ListFrom(front, size)' = ListFrom(front, size)
    BY DEF ListFrom
  <1>3. ~wild' => ListHeld'
    BY <1>2 DEF ListInv, ListHeld
  <1>4. NeverBackwards' /\ WildOnlyAfterOverrun'
    BY DEF ListInv, NeverBackwards, WildOnlyAfterOverrun
  <1>5. (Dequeuing => size >= sz)'
    OBVIOUS
  <1> QED BY <1>3, <1>4, <1>5 DEF ListInv

(* Behind a front that another node follows, rear is that one or later. *)
LEMMA ReadRearKeepsList ==
  ASSUME CountInv, ListInv, ReadRear
  PROVE  ListInv'
  <1>1. /\ pc = "rear" /\ pc' = "link" /\ Dequeuing /\ Dequeuing' /\ next' = rear
        /\ UNCHANGED <<queue, sz, node, got, nq, past, wild>>
    BY DEF ReadRear, Dequeuing
  <1> USE <1>1, QueueFacts, ListFacts DEF queue, past
  <1>2. ListFrom(front, size)' = ListFrom(front, size)
    BY DEF ListFrom
  <1>3. sz = 2 /\ size >= 2 /\ rear = nq
    BY DEF CountInv, ListInv
  <1>4. ASSUME ~wild PROVE ListHeld'
    <2>1. /\ ListFrom(front, size)
          /\ front = starter => prev[front] = Nowhere /\ (size >= 3 => overrun)
      BY <1>3, <1>4 DEF ListInv, ListHeld
    <2>2. front \in Nodes => front < rear /\ rear <= nq
      BY <1>3, <2>1 DEF ListFrom
    <2> QED BY <1>2, <2>1, <2>2 DEF ListHeld
  <1>5. NeverBackwards' /\ WildOnlyAfterOverrun'
    BY DEF ListInv, NeverBackwards, WildOnlyAfterOverrun
  <1> QED BY <1>4, <1>5 DEF ListInv

(* The link points forward, to the rear that was read, and is behind the   *)
(* node that is taken.                                                     *)
LEMMA LinkKeepsList ==
  ASSUME CountInv, ListInv, Link, ~wild
  PROVE  ListInv'
  <1>1. /\ pc = "link" /\ pc' = "advance" /\ Dequeuing /\ Dequeuing' /\ node' = front
        /\ prev' = IF front \in Nodes THEN [prev EXCEPT ![front] = next] ELSE prev
        /\ wild' = (front \notin Nodes)
        /\ UNCHANGED <<front, rear, size, sz, next, got, nq, past>>
    BY DEF Link, Dequeuing
  <1> USE <1>1, QueueFacts, ListFacts DEF past
  <1>2. sz = 2 /\ size >= 2 /\ ListFrom(front, size)
    BY DEF CountInv, ListInv, ListHeld
  <1>3. front \in Nodes => front < next /\ next <= nq
    BY DEF ListInv, ListHeld
  <1>4. front \notin Nodes => overrun
    BY <1>2 DEF ListFrom
  <1>5. \A k \in Nodes : prev[k] # Nowhere => k < prev[k] /\ prev[k] <= nq
    BY DEF ListInv
  <1>6. \A k \in Nodes : prev'[k] # Nowhere => k < prev'[k] /\ prev'[k] <= nq
    BY <1>3, <1>5
  <1>7. ASSUME front \in Nodes PROVE ListHeld'
    <2>1. /\ starter <= front /\ front + size <= nq + 1
          /\ \A i \in DOMAIN got : got[i] < front
          /\ \A k \in Nodes : front <= k /\ k < nq /\ k # starter => prev[k] = k + 1
      BY <1>2, <1>7 DEF ListFrom
    <2>2. \A k \in Nodes : next <= k /\ k < nq /\ k # starter => prev'[k] = k + 1
      BY <1>3, <1>7, <2>1
    <2>3. next \in Nodes /\ starter <= next /\ next + 1 <= nq + 1
      <3>1. front < next /\ next <= nq /\ starter <= front
        BY <1>3, <1>7, <2>1
      <3>2. starter <= next /\ next + 1 <= nq + 1 /\ 1 <= next /\ next <= MaxEvents
        BY <3>1
      <3> QED BY <3>2
    <2>4. \A i \in DOMAIN got : got[i] < next
      BY <1>3, <1>7, <2>1
    <2>5. ListFrom(next, sz - 1)'
      <3>1. sz - 1 = 1
        BY <1>2
      <3> QED BY <2>2, <2>3, <2>4, <3>1 DEF ListFrom
    <2>6. next \notin 1..front /\ front <= nq
      BY <1>2, <1>3, <1>7, <2>1
    <2> QED BY <1>7, <2>1, <2>5, <2>6 DEF ListHeld
  <1>8. NeverBackwards' /\ WildOnlyAfterOverrun'
    BY <1>4 DEF ListInv, NeverBackwards, WildOnlyAfterOverrun
  <1> QED BY <1>6, <1>7, <1>8 DEF ListInv

(* What follows the front is the next node; nothing does if the front is a *)
(* starter that others were linked behind without it.                      *)
LEMMA ReadFrontKeepsList ==
  ASSUME CountInv, ListInv, ReadFront, ~wild
  PROVE  ListInv'
  <1>1. /\ pc = "front" /\ pc' = "advance" /\ Dequeuing /\ Dequeuing' /\ node' = front
        /\ next' = IF front \in Nodes THEN prev[front] ELSE Nowhere
        /\ wild' = (front \notin Nodes)
        /\ UNCHANGED <<queue, sz, got, nq, past>>
    BY DEF ReadFront, Dequeuing
  <1> USE <1>1, QueueFacts, ListFacts DEF queue, past
  <1>2. sz # 2 /\ size >= sz /\ size >= 1 /\ ListFrom(front, size)
    BY DEF CountInv, ListInv, ListHeld
  <1>3. front \notin Nodes => overrun
    BY <1>2 DEF ListFrom
  <1>4. ASSUME front \in Nodes PROVE ListHeld'
    <2>1. /\ starter <= front /\ front + size <= nq + 1
          /\ \A i \in DOMAIN got : got[i] < front
          /\ \A k \in Nodes : front <= k /\ k < nq /\ k # starter => prev[k] = k + 1
      BY <1>2, <1>4 DEF ListFrom
    <2>2. front = starter => prev[front] = Nowhere /\ (size >= 3 => overrun)
      BY <1>2 DEF ListInv, ListHeld
    <2>3. ASSUME sz >= 2 PROVE ListFrom(next, sz - 1)' /\ next' \notin 1..front
      <3>1. CASE front = starter
        BY <1>2, <1>4, <2>2, <2>3, <3>1 DEF ListFrom
      <3>2. CASE front # starter
        <4>1. next' = front + 1 /\ front < nq
          BY <1>2, <1>4, <2>1, <2>3, <3>2
        <4>2. /\ next' \in Nodes /\ starter <= next' /\ next' + (sz - 1) <= nq + 1
              /\ \A i \in DOMAIN got : got[i] < next'
              /\ \A k \in Nodes : next' <= k /\ k < nq /\ k # starter => prev[k] = k + 1
          <5>1. front >= 1 /\ front + sz <= nq + 1
            BY <1>2, <1>4, <2>1
          <5>2. next' + (sz - 1) <= nq + 1 /\ next' <= nq /\ starter <= next'
            BY <2>1, <4>1, <5>1
          <5>3. next' \in Nat /\ 1 <= next' /\ next' <= MaxEvents
            BY <4>1, <5>2
          <5>4. next' \in Nodes
            BY <5>3
          <5>5. \A i \in DOMAIN got : got[i] < next'
            BY <2>1, <4>1
          <5>6. \A k \in Nodes : next' <= k /\ k < nq /\ k # starter => prev[k] = k + 1
            BY <2>1, <4>1
          <5> QED BY <5>2, <5>4, <5>5, <5>6
        <4> QED BY <1>4, <4>1, <4>2 DEF ListFrom
      <3> QED BY <3>1, <3>2
    <2>4. front <= nq
      BY <1>2, <1>4, <2>1
    <2> QED BY <1>4, <2>1, <2>3, <2>4 DEF ListHeld
  <1>5. NeverBackwards' /\ WildOnlyAfterOverrun'
    BY <1>3 DEF ListInv, NeverBackwards, WildOnlyAfterOverrun
  <1> QED BY <1>4, <1>5 DEF ListInv

(* front becomes what the thread read. *)
LEMMA AdvanceKeepsList ==
  ASSUME CountInv, ListInv, Advance
  PROVE  ListInv'
  <1>1. /\ pc = "advance" /\ pc' = "count" /\ Dequeuing /\ Dequeuing' /\ front' = next
        /\ UNCHANGED <<rear, size, prev, regs, got, nq, past, wild>>
    BY DEF Advance, Dequeuing
  <1> USE <1>1 DEF regs, past
  <1>2. ListFrom(next, sz - 1)' = ListFrom(next, sz - 1)
    BY DEF ListFrom
  <1>3. ~wild' => ListHeld'
    BY <1>2 DEF ListInv, ListHeld
  <1>4. NeverBackwards' /\ WildOnlyAfterOverrun'
    BY DEF ListInv, NeverBackwards, WildOnlyAfterOverrun
  <1> QED BY <1>3, <1>4 DEF ListInv

(* The node that is returned is later than those before it, and earlier    *)
(* than what front points to.                                              *)
LEMMA CountKeepsList ==
  ASSUME CountInv, ListInv, Count, ~wild
  PROVE  ListInv'
  <1>1. /\ pc = "count" /\ pc' = "check" /\ Dequeuing /\ ~Dequeuing'
        /\ size' = sz - 1 /\ got' = Append(got, node)
        /\ UNCHANGED <<front, rear, prev, regs, nq, past, wild>>
    BY DEF Count, Dequeuing
  <1> USE <1>1, QueueFacts, ListFacts DEF regs, past
  <1>2. /\ Len(got') = Len(got) + 1 /\ DOMAIN got' = 1..(Len(got) + 1)
        /\ \A i \in 1..Len(got) : got'[i] = got[i]
        /\ got'[Len(got) + 1] = node
    <2>1. node \in Nodes \cup {Nowhere}
      BY DEF CountInv, TypeOK
    <2> QED BY <2>1, AppendProperties, LenProperties
  <1>3. /\ node \in Nodes /\ starter <= node /\ node <= nq
        /\ \A i \in DOMAIN got : got[i] < node
        /\ sz >= 2 => /\ front = next /\ front \notin 1..node
                      /\ ListFrom(front, sz - 1)
    BY DEF ListInv, ListHeld
  <1>4. NeverBackwards'
    <2> SUFFICES ASSUME NEW i \in 1..(Len(got) + 1), NEW j \in 1..(Len(got) + 1), i < j
                 PROVE  got'[i] < got'[j]
      BY <1>2 DEF NeverBackwards
    <2>1. i \in 1..Len(got) /\ got'[i] = got[i]
      BY <1>2
    <2>2. CASE j = Len(got) + 1
      BY <1>2, <1>3, <2>1, <2>2
    <2>3. CASE j \in 1..Len(got)
      BY <1>2, <2>1, <2>3 DEF ListInv, NeverBackwards
    <2>4. j = Len(got) + 1 \/ j \in 1..Len(got)
      <3>1. \A n \in Nat : \A k \in 1..(n + 1) : k = n + 1 \/ k \in 1..n
        OBVIOUS
      <3>2. Len(got) \in Nat
        OBVIOUS
      <3> QED BY <3>1, <3>2, Zenon
    <2> QED BY <2>2, <2>3, <2>4
  <1>5. \A i \in DOMAIN got' : got'[i] <= nq'
    BY <1>2, <1>3 DEF ListInv
  <1>6. ASSUME sz >= 2 PROVE ListFrom(front, size)' /\ front # starter
    <2>1. CASE front \in Nodes
      <3>1. node < front
        BY <1>3, <1>6, <2>1
      <3>2. \A i \in DOMAIN got' : got'[i] < front
        BY <1>2, <1>3, <3>1
      <3> QED BY <1>3, <1>6, <3>1, <3>2, <2>1 DEF ListFrom
    <2>2. CASE front \notin Nodes
      <3>1. front = Nowhere /\ sz - 1 >= 2 /\ overrun
        BY <1>3, <1>6, <2>2 DEF ListFrom
      <3>2. starter >= 1
        BY <1>3 DEF ListInv
      <3> QED BY <3>1, <3>2 DEF ListFrom
    <2> QED BY <2>1, <2>2
  <1>7. ListHeld'
    BY <1>6 DEF ListHeld
  <1>8. /\ size' >= 2 => rear' = nq'
        /\ size' = 1 => rear' = nq' \/ starter' = nq'
    BY DEF ListInv
  <1>9. WildOnlyAfterOverrun'
    BY DEF ListInv, WildOnlyAfterOverrun
  <1> QED BY <1>4, <1>5, <1>7, <1>8, <1>9 DEF ListInv

(* Every step keeps both invariants. *)
LEMMA QueueNext == QueueInv /\ [Next]_vars => QueueInv'
  <1> SUFFICES ASSUME CountInv, ListInv, [Next]_vars PROVE ListInv'
    BY CountNext DEF QueueInv
  <1>1. CASE Keyboard
    BY <1>1, KeyboardKeepsList
  <1>2. CASE Timer
    BY <1>2, IdleKeepsList DEF Timer, Wake, Dequeuing
  <1>3. CASE Check
    BY <1>3, IdleKeepsList DEF Check, Dequeuing
  <1>4. CASE Halt
    BY <1>4, IdleKeepsList DEF Halt, Dequeuing
  <1>5. CASE UNCHANGED vars
    <2> USE <1>5 DEF vars, queue, regs, past
    <2>1. /\ ListFrom(front, size)' = ListFrom(front, size)
          /\ ListFrom(next, sz - 1)' = ListFrom(next, sz - 1)
      BY DEF ListFrom
    <2>2. ListHeld' = ListHeld
      BY <2>1 DEF ListHeld
    <2> QED BY <2>2 DEF ListInv, NeverBackwards, WildOnlyAfterOverrun, Dequeuing
  <1> QED
    BY <1>1, <1>2, <1>3, <1>4, <1>5, ReadSizeKeepsList, ReadRearKeepsList, LinkKeepsList,
       ReadFrontKeepsList, AdvanceKeepsList, CountKeepsList DEF Next, Await

-----------------------------------------------------------------------------
(* The inductive invariant of the queue holds in every reachable state. *)
THEOREM QueueInvariant == Spec => []QueueInv
  <1>1. Init => QueueInv
    BY CountInit, ListInit DEF QueueInv
  <1> QED BY <1>1, QueueNext, PTL DEF Spec

(* size never wraps below zero, and every variable keeps its type. *)
THEOREM TypeCorrect == Spec => []TypeOK
  <1>1. QueueInv => TypeOK
    BY DEF QueueInv, CountInv
  <1> QED BY <1>1, QueueInvariant, PTL

(* An event queued while a dequeue is under way costs exactly one event;   *)
(* nothing else loses any.                                                 *)
THEOREM LossIsExact == Spec => []LossExact
  <1>1. QueueInv => LossExact
    BY DEF QueueInv, CountInv
  <1> QED BY <1>1, QueueInvariant, PTL

(* While keys come slowly every event is returned once and in order, and no*)
(* pointer leads nowhere.                                                  *)
THEOREM FifoCorrect == Spec => []FifoWhileCalm
  <1>1. QueueInv => FifoWhileCalm
    BY DEF QueueInv, CountInv, FifoWhileCalm, Chain
  <1> QED BY <1>1, QueueInvariant, PTL

(* Whatever the interleaving, no event is returned twice or out of order:  *)
(* an interrupted dequeue only skips events.                               *)
THEOREM OnlyForward == Spec => []NeverBackwards
  <1>1. QueueInv => NeverBackwards
    BY DEF QueueInv, ListInv
  <1> QED BY <1>1, QueueInvariant, PTL

(* An interrupted dequeue does not corrupt the list: a pointer that leads  *)
(* nowhere is followed only after a third event behind an untaken starter. *)
THEOREM WildNeedsOverrun == Spec => []WildOnlyAfterOverrun
  <1>1. QueueInv => WildOnlyAfterOverrun
    BY DEF QueueInv, ListInv
  <1> QED BY <1>1, QueueInvariant, PTL

-----------------------------------------------------------------------------
(* The refinement of EventFifo, step by step.  Its liveness is model       *)
(* checked only.                                                           *)
Run(a, n) == [i \in 1..n |-> a + i]

(* Consecutive numbers form a queue: appending the next, taking the first. *)
LEMMA RunLemma ==
  ASSUME NEW a \in Nat, NEW n \in Nat
  PROVE  /\ Run(a, n) \in Seq(Nat) /\ Len(Run(a, n)) = n
         /\ Append(Run(a, n), a + n + 1) = Run(a, n + 1)
         /\ n >= 1 => /\ Run(a, n) # <<>>
                      /\ Head(Run(a, n)) = a + 1
                      /\ Tail(Run(a, n)) = Run(a + 1, n - 1)
  <1> USE DEF Run
  <1>1. \A m \in Nat, b \in Nat : Run(b, m) \in Seq(Nat) /\ Len(Run(b, m)) = m
    OBVIOUS
  <1>2. Append(Run(a, n), a + n + 1) = Run(a, n + 1)
    OBVIOUS
  <1>3. ASSUME n >= 1
        PROVE  /\ Run(a, n) # <<>>
               /\ Head(Run(a, n)) = a + 1
               /\ Tail(Run(a, n)) = Run(a + 1, n - 1)
    <2>1. Run(a, n) # <<>> /\ Head(Run(a, n)) = a + 1
      BY <1>1, <1>3
    <2>2. Tail(Run(a, n)) = Run(a + 1, n - 1)
      BY <1>1, <1>3
    <2> QED BY <2>1, <2>2
  <1> QED BY <1>1, <1>2, <1>3

(* A step taken while keys come slowly is a step of the abstract queue.    *)
LEMMA FifoStep ==
  ASSUME CountInv, CountInv', Next, Calm'
  PROVE  [Fifo!Next]_(Fifo!vars)
  <1> DEFINE a == Len(got)
             n == nq - Len(got)
  <1>1. a \in Nat /\ n \in Nat /\ nq = a + n
    BY QueueFacts
  <1>2. ASSUME UNCHANGED <<got, nq>> PROVE [Fifo!Next]_(Fifo!vars)
    BY <1>2 DEF Fifo!vars
  <1>3. CASE Keyboard
    <2>1. nq < MaxEvents /\ nq' = nq + 1 /\ got' = got
      BY <1>3 DEF Keyboard
    <2>2. Fifo!Put
      BY <1>1, <2>1, RunLemma DEF Fifo!Put, Run
    <2> QED BY <2>2 DEF Fifo!Next
  <1>4. CASE Count
    <2>1. pc = "count" /\ got' = Append(got, node) /\ nq' = nq /\ races' = races
          /\ overrun' = overrun
      BY <1>4 DEF Count, past
    <2>2. node = a + 1 /\ n >= 1
      BY <2>1, <1>1, QueueFacts DEF Calm, CountInv, Chain, Dequeuing
    <2>3. Len(got') = a + 1
      BY <2>1 DEF CountInv, TypeOK
    <2>4. Run(a, n) # <<>> /\ Head(Run(a, n)) = node /\ Tail(Run(a, n)) = Run(a + 1, n - 1)
      BY <1>1, <2>2, RunLemma
    <2>5. nq' - Len(got') = n - 1
      BY <1>1, <2>1, <2>3
    <2>6. [i \in 1..(nq' - Len(got')) |-> Len(got') + i] = Run(a + 1, n - 1)
      BY <2>3, <2>5 DEF Run
    <2>7. [i \in 1..(nq - Len(got)) |-> Len(got) + i] = Run(a, n)
      BY DEF Run
    <2>8. Fifo!Take
      BY <2>1, <2>4, <2>6, <2>7 DEF Fifo!Take
    <2> QED BY <2>8 DEF Fifo!Next
  <1> QED BY <1>2, <1>3, <1>4 DEF Next, Await, Timer, Check, Halt, ReadSize, ReadRear,
             Link, ReadFront, Advance

(* While keys come slowly the queue of events.c implements the abstract    *)
(* first-in first-out queue.                                               *)
THEOREM CalmImplementsFifo ==
  CalmSpec => Fifo!Init /\ [][Fifo!Next]_(Fifo!vars)
  <1>1. Init => Fifo!Init
    BY DEF Init, Fifo!Init
  <1>2. CountInv /\ [Next /\ Calm']_vars => CountInv'
    BY CountNext
  <1>3. CountInv /\ CountInv' /\ [Next /\ Calm']_vars => [Fifo!Next]_(Fifo!vars)
    <2> SUFFICES ASSUME CountInv, CountInv', [Next /\ Calm']_vars
                 PROVE  [Fifo!Next]_(Fifo!vars)
      OBVIOUS
    <2>1. CASE UNCHANGED vars
      BY <2>1 DEF vars, Fifo!vars
    <2> QED BY <2>1, FifoStep
  <1> QED BY <1>1, <1>2, <1>3, CountInit, PTL DEF CalmSpec
=============================================================================
