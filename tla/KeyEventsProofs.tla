---------------------------- MODULE KeyEventsProofs ----------------------------
(***************************************************************************)
(* Theorems about a key's way from the keyboard to the thread, for any keys*)
(* and any heap whose first entry leaves room for an event.                *)
(***************************************************************************)
EXTENDS KeyEvents, SequenceTheorems, TLAPS

LastEntry == heap[Len(heap)]
Untouched == owned = {} /\ Len(heap) = 1 /\ ~LastEntry.alloc

(* Nothing is given back: of the heap matters only where its last entry is.*)
HeapGrows ==
  /\ heap \in Seq(Heap!Entry) /\ heap # <<>> /\ refused \in Nat
  /\ LastEntry.addr >= HeapStart /\ LastEntry.addr + 20 <= HeapStart + MemCap
  /\ LastEntry.size \in {2, 12, RootSize}
  /\ Len(heap) = 1 => LastEntry.addr = HeapStart /\ LastEntry.size = RootSize
  /\ Len(heap) > 1 => LastEntry.size \in {2, 12}
  /\ Untouched \/ \A i \in DOMAIN heap : heap[i].alloc
  /\ Untouched => refused = 0
  /\ \A b \in owned : b.ptr \in Nat /\ b.ptr > HeapStart /\ b.ptr <= LastEntry.addr + 20

(* No request for an event or a node will be granted any more. *)
Full == LastEntry.addr + 280 > HeapStart + MemCap

(* What an allocation answers, and what that says of the heap. *)
Answered(asked) ==
  \/ /\ Allocated \in Nat /\ Allocated > HeapStart
     /\ \A b \in owned : b.ptr # Allocated
     /\ owned' = owned \cup {[ptr |-> Allocated, len |-> asked]}
     /\ refused' = refused /\ ~Untouched'
     /\ LastEntry.addr <= LastEntry'.addr
     /\ \/ Untouched /\ Len(heap') = 1
        \/ /\ ~Untouched /\ LastEntry'.size = asked
           /\ LastEntry.addr + 20 * (LastEntry.size + asked) <= HeapStart + MemCap
  \/ /\ Allocated = NULL /\ owned' = owned /\ heap' = heap /\ refused' = refused + 1
     /\ ~Untouched
     /\ LastEntry.addr + 20 * (LastEntry.size + asked) > HeapStart + MemCap

-----------------------------------------------------------------------------
Codes == [pressed : BOOLEAN, key : Int]
Words == [w0 : Codes, w4 : Int, w8 : Int]

Typed ==
  /\ held \subseteq Keyboard /\ struck \subseteq Keys \cup Extended /\ wire \in Seq(Nat)
  /\ at \in {"idle", "event", "node"} /\ kout \in Nat
  /\ pe \in Int /\ e \in Int /\ front \in Int /\ rear \in Int
  /\ mem \in [DOMAIN mem -> Words] /\ NULL \in DOMAIN mem
  /\ size \in Nat /\ size <= MaxWaiting /\ (at # "idle" => size < MaxWaiting)
  /\ seen \subseteq Int /\ sent \in Seq(Codes) /\ Len(sent) = size
  /\ last \in [sent : Codes, read : Codes] /\ lost \in BOOLEAN /\ crowded \in BOOLEAN
  /\ at # "idle" => ~Untouched

(* From a node its event and payload are reached, and read as code. *)
Leads(m, node, code) ==
  /\ node \in DOMAIN m /\ m[node].w8 \in DOMAIN m /\ m[m[node].w8].w8 \in DOMAIN m
  /\ m[m[m[node].w8].w8].w0 = code

Kept(blocks, p) == \E b \in blocks : b.ptr = p

(* The same, through three of these blocks of the heap. *)
Sound(blocks, m, node, code) ==
  /\ Leads(m, node, code)
  /\ Kept(blocks, node) /\ Kept(blocks, m[node].w8) /\ Kept(blocks, m[m[node].w8].w8)

(* What waits in the queue is found there, until two wait and the heap     *)
(* refuses; a node behind another is made when none was refused.           *)
Waiting ==
  /\ refused = 0 /\ size >= 1 => Sound(owned, mem, front, sent[1])
  /\ refused = 0 /\ size = 2 => Sound(owned, mem, rear, sent[2])
  /\ ~crowded /\ refused > 0 /\ at = "idle" =>
       /\ size <= 1
       /\ size = 1 => \/ Leads(mem, front, sent[1]) /\ ~lost
                      \/ Leads(mem, front, Blank) /\ Full

(* What the handler has made so far. *)
Making ==
  /\ at = "event" =>
       \/ pe = NULL /\ refused > 0 /\ Full
       \/ /\ Kept(owned, pe) /\ pe \in DOMAIN mem /\ mem[pe].w0 = EventOf(kout)
          /\ Full \/ LastEntry.size = 2 \/ Len(heap) = 1
  /\ at = "node" =>
       \/ e = NULL /\ refused > 0 /\ Full /\ mem[NULL].w0 = Blank
       \/ /\ Kept(owned, e) /\ e \in DOMAIN mem /\ mem[e].w8 = pe
          /\ Kept(owned, pe) /\ pe \in DOMAIN mem /\ mem[pe].w0 = EventOf(kout)
          /\ ~crowded => ~lost

History ==
  /\ crowded => refused > 0
  /\ lost /\ ~crowded => Full
  /\ EventsTrue /\ LostForGood

(* The events on their way: sent, in the handler, and on the wire. *)
OnTheWay(events, handled, bytes) == Len(events) + handled + Len(bytes)

Pending(events, handled, byte, bytes) ==
  [i \in 1..OnTheWay(events, handled, bytes) |->
     IF i <= Len(events) THEN events[i]
     ELSE IF i <= Len(events) + handled THEN EventOf(byte)
     ELSE EventOf(bytes[i - Len(events) - handled])]

(* Whoever reads n events knows of every key whether it is down. *)
Tells(events, n, known, down) ==
  \A k \in Int :
    \/ /\ \A i \in 1..n : events[i].key # k
       /\ k \in known <=> k \in down
    \/ \E i \in 1..n : /\ events[i].key = k /\ (events[i].pressed <=> k \in down)
                       /\ \A j \in 1..n : j > i => events[j].key # k

Handled == IF at = "idle" THEN 0 ELSE 1

KeysTold ==
  refused = 0 =>
    Tells(Pending(sent, Handled, kout, wire), OnTheWay(sent, Handled, wire), seen, struck)

(* What the strokes of a code say of the keys that have it. *)
Strokes ==
  /\ \A c \in struck : \E k \in held : k.code = c
  /\ \A k \in held : (\A l \in Keyboard : l.code = k.code => l = k) => k.code \in struck

KeyInv == HeapGrows /\ Typed /\ Waiting /\ Making /\ History /\ KeysTold /\ Strokes

-----------------------------------------------------------------------------
LEMMA WordFits ==
  ASSUME NEW x \in Nat, NEW w \in Nat, x < w
  PROVE  x % w = x
  BY SMT

(* The sums of the test of the cap do not wrap. *)
LEMMA CapTest ==
  ASSUME HeapGrows, NEW asked \in {2, 12}
  PROVE  Heap!OverCap(asked) <=> LastEntry.addr + 20 * (LastEntry.size + asked) > HeapStart + MemCap
<1>1. /\ LastEntry.addr \in Nat /\ LastEntry.size \in Nat /\ asked \in Nat
      /\ LastEntry.size <= RootSize + 12
  <2>1. LastEntry \in Heap!Entry
    BY DEF HeapGrows, LastEntry
  <2> QED BY <2>1, HeapAssumption DEF HeapGrows, Heap!Entry
<1> DEFINE x == LastEntry.addr + 20 * LastEntry.size
           y == LastEntry.addr + 20 * (LastEntry.size + asked)
<1>2. x \in Nat /\ y \in Nat /\ x <= y /\ y < Word
  <2>1. LastEntry.addr + 20 <= HeapStart + MemCap
    BY DEF HeapGrows
  <2>2. asked \in Nat /\ asked <= 12
    OBVIOUS
  <2> HIDE DEF LastEntry
  <2> QED BY <1>1, <2>1, <2>2, HeapAssumption
<1>3. x % Word = x /\ y % Word = y
  BY <1>2, WordFits, HeapAssumption
<1>4. Heap!OverCap(asked) <=> x % Word > HeapStart + MemCap \/ y % Word > HeapStart + MemCap
  <2>1. Heap!ScaledEnd(0) = x /\ Heap!ScaledEnd(asked) = y
    BY <1>1 DEF Heap!ScaledEnd, Heap!Last, Heap!HeaderSize, LastEntry
  <2> QED BY <2>1 DEF Heap!OverCap, Heap!Cap
<1> QED BY <1>2, <1>3, <1>4, HeapAssumption

LEMMA GrantedFirst ==
  ASSUME HeapGrows, Untouched, Heap!MemoryAlloc(2)
  PROVE  Answered(2) /\ HeapGrows'
<1>1. heap[1] \in Heap!Entry /\ DOMAIN heap = {1} /\ heap[1].alloc = FALSE /\ Len(heap) = 1
      /\ heap[1].addr = HeapStart /\ heap[1].size = RootSize
  <2>1. heap \in Seq(Heap!Entry) /\ Len(heap) = 1
    BY DEF HeapGrows, Untouched
  <2>2. DOMAIN heap = {1} /\ heap[1] \in Heap!Entry /\ LastEntry = heap[1]
    BY <2>1 DEF LastEntry
  <2> QED BY <2>1, <2>2 DEF HeapGrows, Untouched, Heap!Entry
<1>2. Heap!Free = {1} /\ Heap!Fitting(2) = {1}
  BY <1>1, HeapAssumption DEF Heap!Free, Heap!Fitting
<1>3. Heap!TakeFit(2)
  BY <1>2 DEF Heap!MemoryAlloc, Heap!Granted, Heap!NotGranted, Heap!Take, Heap!Refuse, Heap!TakeMerge,
              Heap!Merges, Heap!TakeNew, Heap!TakeAstray, Heap!NothingFree
<1>4. /\ heap' = [heap EXCEPT ![1].alloc = TRUE]
      /\ owned' = owned \cup {[ptr |-> HeapStart + 20, len |-> 2]} /\ refused' = refused
  BY <1>1, <1>2, <1>3 DEF Heap!TakeFit, Heap!FirstFit, Heap!Grant, Heap!HeaderSize
<1>5. Allocated = HeapStart + 20
  <2>1. owned = {} /\ owned' = {[ptr |-> HeapStart + 20, len |-> 2]}
    BY <1>4 DEF Untouched
  <2>2. {b.ptr : b \in owned' \ owned} = {HeapStart + 20}
    BY <2>1
  <2> QED BY <2>1, <2>2 DEF Allocated
<1>6. /\ heap' \in Seq(Heap!Entry) /\ heap' # <<>> /\ Len(heap') = 1 /\ DOMAIN heap' = {1}
      /\ heap'[1].addr = HeapStart /\ heap'[1].size = RootSize /\ heap'[1].alloc = TRUE
  <2>1. heap \in Seq(Heap!Entry)
    BY DEF HeapGrows
  <2>2. [heap[1] EXCEPT !.alloc = TRUE] \in Heap!Entry
    BY <1>1 DEF Heap!Entry
  <2>3. heap' = [heap EXCEPT ![1] = [heap[1] EXCEPT !.alloc = TRUE]]
    BY <1>4
  <2>4. heap' \in Seq(Heap!Entry) /\ Len(heap') = 1 /\ DOMAIN heap' = {1}
        /\ heap'[1] = [heap[1] EXCEPT !.alloc = TRUE]
    <3> DEFINE r == [heap[1] EXCEPT !.alloc = TRUE]
    <3>1. 1 \in 1..Len(heap) /\ r \in Heap!Entry /\ heap' = [heap EXCEPT ![1] = r]
      BY <2>2, <2>3, <1>1
    <3> HIDE DEF r
    <3>2. heap' \in Seq(Heap!Entry) /\ Len(heap') = Len(heap)
      BY <3>1, <2>1, ExceptSeq
    <3>3. DOMAIN heap' = {1} /\ heap'[1] = r
      BY <3>1, <1>1
    <3> QED BY <3>2, <3>3, <1>1 DEF r
  <2> QED BY <2>4, <1>1 DEF Heap!Entry
<1>7. ~Untouched' /\ owned = {}
  BY <1>6 DEF Untouched, LastEntry
<1>8. HeapGrows'
  <2>1. LastEntry' = heap'[1]
    BY <1>6 DEF LastEntry
  <2>2. \A b \in owned' : b.ptr = HeapStart + 20
    BY <1>4, <1>7
  <2>3. refused' = refused /\ refused \in Nat
    BY <1>4 DEF HeapGrows
  <2>4. \A i \in DOMAIN heap' : heap'[i].alloc
    BY <1>6
  <2>5. /\ LastEntry'.addr >= HeapStart /\ LastEntry'.addr + 20 <= HeapStart + MemCap
        /\ \A b \in owned' : b.ptr \in Nat /\ b.ptr > HeapStart /\ b.ptr <= LastEntry'.addr + 20
    BY <1>6, <2>1, <2>2, HeapAssumption
  <2> QED BY <1>6, <1>7, <2>1, <2>3, <2>4, <2>5 DEF HeapGrows
<1> QED BY <1>1, <1>4, <1>5, <1>6, <1>7, <1>8, HeapAssumption DEF Answered, LastEntry

LEMMA GrantedOrRefused ==
  ASSUME HeapGrows, ~Untouched, NEW asked \in {2, 12}, Heap!MemoryAlloc(asked)
  PROVE  Answered(asked) /\ HeapGrows'
<1>0. PICK n \in Nat : n = Len(heap) /\ n >= 1
  BY DEF HeapGrows
<1>1. /\ \A i \in DOMAIN heap : heap[i].alloc
      /\ LastEntry \in Heap!Entry /\ LastEntry.addr \in Nat /\ LastEntry.size \in Nat
      /\ LastEntry.size >= 2
  <2>1. LastEntry \in Heap!Entry
    BY <1>0 DEF HeapGrows, LastEntry
  <2> QED BY <2>1, HeapAssumption DEF HeapGrows, Heap!Entry
<1>2. Heap!Free = {} /\ Heap!Fitting(asked) = {}
  BY <1>1 DEF Heap!Free, Heap!Fitting
<1>3. Heap!TakeNew(asked) \/ Heap!TakeAstray(asked) \/ Heap!Refuse(asked)
  BY <1>2 DEF Heap!MemoryAlloc, Heap!Granted, Heap!NotGranted, Heap!Take, Heap!TakeFit, Heap!FirstFit,
              Heap!TakeMerge, Heap!Merges, Heap!BiggestFree
(* With nothing free no merge is tried. *)
<1>6. \A i, k : Heap!NothingFree(i, k, asked) => Heap!Joined(i, k, FALSE) = heap
  BY <1>2 DEF Heap!NothingFree, Heap!BiggestFree, Heap!Joined
<1>7. ~Heap!TakeAstray(asked)
  <2>1. LastEntry.addr + LastEntry.size + 20 < Word
    <3>1. LastEntry.addr + 20 <= HeapStart + MemCap
      BY DEF HeapGrows
    <3>2. LastEntry.size <= RootSize + 12
      BY <1>1, HeapAssumption DEF HeapGrows
    <3> HIDE DEF LastEntry
    <3> QED BY <3>1, <3>2, <1>1, HeapAssumption
  <2>2. Heap!NewAddr = LastEntry.addr + LastEntry.size + 20
    BY DEF Heap!NewAddr, Heap!Last, Heap!HeaderSize, LastEntry
  <2> QED BY <2>1, <2>2, <1>1, HeapAssumption DEF Heap!TakeAstray
<1>4. CASE Heap!Refuse(asked)
  <2>1. heap' = heap /\ owned' = owned /\ refused' = refused + 1 /\ Heap!OverCap(asked)
    BY <1>4, <1>6 DEF Heap!Refuse
  <2>2. Allocated = NULL
    BY <2>1 DEF Allocated
  <2>3. HeapGrows'
    BY <2>1 DEF HeapGrows, LastEntry, Untouched
  <2> QED BY <2>1, <2>2, <2>3, CapTest DEF Answered
<1>5. CASE Heap!TakeNew(asked)
  <2> DEFINE new == [addr |-> LastEntry.addr + LastEntry.size + 20, size |-> asked, alloc |-> TRUE]
             ptr == LastEntry.addr + LastEntry.size + 40
  <2>1. /\ ~Heap!OverCap(asked) /\ heap' = Append(heap, new) /\ refused' = refused
        /\ owned' = owned \cup {[ptr |-> ptr, len |-> asked]}
    <3>1. Heap!NewAddr = LastEntry.addr + LastEntry.size + 20
      BY DEF Heap!NewAddr, Heap!Last, Heap!HeaderSize, LastEntry
    <3>2. Heap!NewAddr + Heap!HeaderSize = ptr
      BY <3>1, <1>1 DEF Heap!HeaderSize
    <3> QED BY <1>5, <1>6, <3>1, <3>2 DEF Heap!TakeNew, Heap!Grant
  <2>2. LastEntry.addr + 20 * (LastEntry.size + asked) <= HeapStart + MemCap
    BY <2>1, <1>1, CapTest, HeapAssumption
  <2>3. new \in Heap!Entry
    BY <1>1 DEF Heap!Entry
  <2>4. /\ heap' \in Seq(Heap!Entry) /\ heap' # <<>> /\ Len(heap') = n + 1
        /\ LastEntry' = new /\ \A i \in DOMAIN heap' : heap'[i].alloc
    <3>1. heap' \in Seq(Heap!Entry) /\ heap' # <<>> /\ Len(heap') = n + 1 /\ heap'[n + 1] = new
          /\ \A i \in 1..n : heap'[i] = heap[i]
      BY <1>0, <2>1, <2>3 DEF HeapGrows
    <3>2. DOMAIN heap' = 1..(n + 1) /\ DOMAIN heap = 1..n
      BY <3>1, <1>0 DEF HeapGrows
    <3>3. \A i \in 1..n : heap'[i].alloc
      BY <3>1, <3>2, <1>1
    <3>4. heap'[n + 1].alloc
      BY <3>1
    <3>5. \A i \in 1..(n + 1) : i \in 1..n \/ i = n + 1
      OBVIOUS
    <3> QED BY <3>1, <3>2, <3>3, <3>4, <3>5 DEF LastEntry
  <2>5. ~Untouched'
    BY <1>0, <2>4 DEF Untouched
  <2>6. ptr \in Nat /\ ptr > HeapStart /\ \A b \in owned : b.ptr # ptr /\ b.ptr <= ptr
    <3>1. /\ \A b \in owned : b.ptr \in Nat /\ b.ptr <= LastEntry.addr + 20
          /\ LastEntry.addr >= HeapStart
      BY DEF HeapGrows
    <3> HIDE DEF LastEntry
    <3> QED BY <3>1, <1>1, HeapAssumption
  <2>7. Allocated = ptr
    <3>1. [ptr |-> ptr, len |-> asked] \notin owned
      BY <2>6
    <3>2. owned' # owned /\ owned' \ owned = {[ptr |-> ptr, len |-> asked]}
      BY <2>1, <3>1
    <3>3. {b.ptr : b \in owned' \ owned} = {ptr}
      <4>1. [ptr |-> ptr, len |-> asked].ptr = ptr
        OBVIOUS
      <4> QED BY <3>2, <4>1
    <3> QED BY <3>2, <3>3 DEF Allocated
  <2>8. HeapGrows'
    <3>1. /\ LastEntry'.addr = LastEntry.addr + LastEntry.size + 20 /\ LastEntry'.size = asked
      BY <2>4
    <3>2. LastEntry'.addr >= HeapStart /\ LastEntry'.addr + 20 <= HeapStart + MemCap
      BY <3>1, <2>2, <1>1, HeapAssumption DEF HeapGrows
    <3>3. \A b \in owned' : b.ptr \in Nat /\ b.ptr > HeapStart /\ b.ptr <= LastEntry'.addr + 20
      BY <3>1, <2>1, <2>6, <1>1, HeapAssumption DEF HeapGrows
    <3>4. Len(heap') > 1 /\ Len(heap') # 1
      BY <1>0, <2>4
    <3> QED BY <2>1, <2>4, <2>5, <3>1, <3>2, <3>3, <3>4 DEF HeapGrows
  <2>9. LastEntry'.size = asked /\ LastEntry.addr <= LastEntry'.addr
    BY <2>4, <1>1
  <2> QED BY <2>1, <2>2, <2>5, <2>6, <2>7, <2>8, <2>9 DEF Answered
<1> QED BY <1>3, <1>4, <1>5, <1>7

-----------------------------------------------------------------------------
(* What the handler needs to know of an allocation. *)
Outcome(asked) ==
  /\ \A p : Kept(owned, p) => Kept(owned', p) /\ p # Allocated /\ p # NULL
  /\ Allocated \in Int /\ (Allocated # NULL => Kept(owned', Allocated))
  /\ Allocated = NULL => refused' > 0 /\ refused' # 0
  /\ Allocated # NULL => refused' = refused
  /\ refused' = 0 => refused = 0
  /\ Full => Full'
  /\ asked = 12 /\ Full => Allocated = NULL
  /\ Allocated = NULL /\ (asked = 2 \/ Full \/ LastEntry.size = 2 \/ Len(heap) = 1) => Full'
  /\ Allocated # NULL => LastEntry'.size = asked \/ Len(heap') = 1
  /\ refused' > 0 /\ refused = 0 => Allocated = NULL
  /\ HeapGrows' /\ ~Untouched'

LEMMA HeapNumbers ==
  ASSUME HeapGrows
  PROVE  /\ LastEntry.addr \in Nat /\ LastEntry.size \in Nat /\ refused \in Nat
         /\ LastEntry.size >= 2
         /\ Len(heap) = 1 => LastEntry.addr = HeapStart /\ LastEntry.size = RootSize
         /\ Len(heap) # 1 => LastEntry.size <= 12
<1>1. LastEntry \in Heap!Entry /\ Len(heap) \in Nat /\ Len(heap) >= 1
  BY DEF HeapGrows, LastEntry
<1>2. LastEntry.addr \in Nat /\ LastEntry.size \in Nat
  BY <1>1 DEF Heap!Entry
<1>3. /\ LastEntry.size \in {2, 12, RootSize} /\ refused \in Nat
      /\ Len(heap) = 1 => LastEntry.addr = HeapStart /\ LastEntry.size = RootSize
      /\ Len(heap) > 1 => LastEntry.size \in {2, 12}
  BY DEF HeapGrows
<1>4. LastEntry.size = 2 \/ LastEntry.size = 12 \/ LastEntry.size = RootSize
  BY <1>3
<1>5. LastEntry.size >= 2
  BY <1>2, <1>4, HeapAssumption
<1>6. Len(heap) # 1 => LastEntry.size <= 12
  <2>1. Len(heap) # 1 => Len(heap) > 1
    <3>1. \A n \in Nat : n >= 1 /\ n # 1 => n > 1
      OBVIOUS
    <3> QED BY <1>1, <3>1
  <2>2. Len(heap) > 1 => LastEntry.size = 2 \/ LastEntry.size = 12
    BY <1>3
  <2> QED BY <1>2, <2>1, <2>2
<1> QED BY <1>2, <1>3, <1>5, <1>6

LEMMA AllocationOutcome ==
  ASSUME HeapGrows, NEW asked \in {2, 12}, Heap!MemoryAlloc(asked), asked = 2 \/ ~Untouched
  PROVE  Outcome(asked)
<1>1. Answered(asked) /\ HeapGrows'
  BY GrantedFirst, GrantedOrRefused
<1>2. \A b \in owned : b.ptr > HeapStart /\ b.ptr \in Nat
  BY DEF HeapGrows
<1>3. /\ LastEntry.addr \in Nat /\ LastEntry.size \in Nat /\ refused \in Nat
      /\ LastEntry.size >= 2
      /\ Len(heap) = 1 => LastEntry.addr = HeapStart /\ LastEntry.size = RootSize
      /\ Len(heap) # 1 => LastEntry.size <= 12
  BY HeapNumbers
<1>4. CASE Allocated = NULL
  <2>1. /\ owned' = owned /\ heap' = heap /\ refused' = refused + 1 /\ ~Untouched
        /\ LastEntry.addr + 20 * (LastEntry.size + asked) > HeapStart + MemCap
    BY <1>1, <1>4, HeapAssumption DEF Answered, NULL
  <2>2. LastEntry' = LastEntry /\ ~Untouched'
    BY <2>1 DEF LastEntry, Untouched
  <2>3. Full' <=> Full
    BY <2>2 DEF Full
  <2>4. asked = 2 \/ Full \/ LastEntry.size = 2 \/ Len(heap) = 1 => Full
    <3> HIDE DEF LastEntry
    <3> QED BY <2>1, <1>3, HeapAssumption DEF Full
  <2> QED BY <1>1, <1>2, <1>3, <1>4, <2>1, <2>2, <2>3, <2>4, HeapAssumption DEF Outcome, Kept, NULL
<1>5. CASE Allocated # NULL
  <2>1. /\ Allocated \in Nat /\ Allocated > HeapStart
        /\ \A b \in owned : b.ptr # Allocated
        /\ owned' = owned \cup {[ptr |-> Allocated, len |-> asked]}
        /\ refused' = refused /\ ~Untouched'
        /\ LastEntry.addr <= LastEntry'.addr
        /\ \/ Untouched /\ Len(heap') = 1
           \/ /\ ~Untouched /\ LastEntry'.size = asked
              /\ LastEntry.addr + 20 * (LastEntry.size + asked) <= HeapStart + MemCap
    BY <1>1, <1>5 DEF Answered
  <2>2. LastEntry'.addr \in Nat
    <3>1. LastEntry' \in Heap!Entry
      BY <1>1 DEF HeapGrows, LastEntry
    <3> QED BY <3>1 DEF Heap!Entry
  <2>3. Full => Full'
    <3> HIDE DEF LastEntry
    <3> QED BY <2>1, <2>2, <1>3, HeapAssumption DEF Full
  <2>4. asked = 12 => ~Full
    <3> HIDE DEF LastEntry
    <3> QED BY <2>1, <1>3, HeapAssumption DEF Full
  <2>5. Kept(owned', Allocated)
    <3> DEFINE b == [ptr |-> Allocated, len |-> asked]
    <3>1. b \in owned' /\ b.ptr = Allocated
      BY <2>1
    <3> QED BY <3>1 DEF Kept
  <2>6. \A p : Kept(owned, p) => Kept(owned', p) /\ p # Allocated /\ p # NULL
    BY <2>1, <1>2, HeapAssumption DEF Kept, NULL
  <2>7. /\ Allocated # NULL => LastEntry'.size = asked \/ Len(heap') = 1
        /\ refused' > 0 /\ refused = 0 => Allocated = NULL
    BY <2>1
  <2>8. Allocated \in Int /\ (refused' = 0 => refused = 0) /\ ~Untouched'
    BY <2>1
  <2> QED BY <1>1, <1>5, <2>1, <2>3, <2>4, <2>5, <2>6, <2>7, <2>8 DEF Outcome
<1> QED BY <1>4, <1>5

-----------------------------------------------------------------------------
LEMMA CodesOf ==
  ASSUME NEW byte \in Nat
  PROVE  EventOf(byte) \in Codes
  BY DEF EventOf, Codes

LEMMA ObjectWords ==
  ASSUME NEW m, m \in [DOMAIN m -> Words], NEW p
  PROVE  Object(m, p) \in Words
  BY DEF Object, Fresh, Words, Codes, Blank, Unset

LEMMA StoreFacts ==
  ASSUME NEW m, m \in [DOMAIN m -> Words], NEW p \in Int, NEW words \in Words
  PROVE  /\ DOMAIN Store(m, p, words) = DOMAIN m \cup {p}
         /\ Store(m, p, words) \in [DOMAIN Store(m, p, words) -> Words]
         /\ Store(m, p, words)[p] = words
         /\ \A q \in DOMAIN m : q # p => Store(m, p, words)[q] = m[q]
  BY DEF Store

(* A chain through kept blocks survives whatever leaves these blocks alone.*)
LEMMA SoundStays ==
  ASSUME NEW blocks, NEW blocks2, NEW m, NEW m2, NEW node, NEW code, Sound(blocks, m, node, code),
         \A p : Kept(blocks, p) => Kept(blocks2, p),
         \A p \in DOMAIN m : Kept(blocks, p) => /\ p \in DOMAIN m2 /\ m2[p].w0 = m[p].w0
                                                /\ m2[p].w8 = m[p].w8
  PROVE  Sound(blocks2, m2, node, code)
  BY DEF Sound, Leads

-----------------------------------------------------------------------------
LEMMA PayloadKeeps ==
  ASSUME KeyInv, Payload
  PROVE  HeapGrows' /\ Typed' /\ Waiting' /\ Making' /\ History'
<1> USE DEF KeyInv
<1> DEFINE words == [Object(mem, pe') EXCEPT !.w0 = EventOf(kout')]
<1>1. /\ at = "idle" /\ wire # <<>> /\ size < MaxWaiting /\ Heap!MemoryAlloc(2)
      /\ kout' = Head(wire) /\ wire' = Tail(wire) /\ pe' = Allocated /\ at' = "event"
      /\ mem' = Store(mem, pe', words)
      /\ UNCHANGED <<held, struck, e, front, rear, size, seen, sent, last, lost, crowded>>
  BY DEF Payload, queueVars, past
<1>2. Outcome(2)
  BY <1>1, AllocationOutcome
<1>3. kout' \in Nat /\ wire' \in Seq(Nat) /\ pe' \in Int
  BY <1>1, <1>2 DEF Typed, Outcome
<1>4. words \in Words /\ words.w0 = EventOf(kout')
  <2>1. Object(mem, pe') \in Words /\ EventOf(kout') \in Codes
    BY <1>3, ObjectWords, CodesOf DEF Typed
  <2> QED BY <2>1 DEF Words
<1>5. /\ mem' \in [DOMAIN mem' -> Words] /\ NULL \in DOMAIN mem' /\ pe' \in DOMAIN mem'
      /\ mem'[pe'].w0 = EventOf(kout')
      /\ \A q \in DOMAIN mem : q # pe' => q \in DOMAIN mem' /\ mem'[q] = mem[q]
  <2> HIDE DEF words
  <2>1. mem \in [DOMAIN mem -> Words] /\ NULL \in DOMAIN mem
    BY DEF Typed
  <2>2. /\ DOMAIN mem' = DOMAIN mem \cup {pe'} /\ mem' \in [DOMAIN mem' -> Words]
        /\ mem'[pe'] = words /\ \A q \in DOMAIN mem : q # pe' => mem'[q] = mem[q]
    <3>1. pe' \in Int /\ words \in Words /\ mem' = Store(mem, pe', words)
      BY <1>1, <1>3, <1>4
    <3> HIDE DEF KeyInv
    <3> QED BY ONLY <3>1, <2>1, StoreFacts
  <2> QED BY <1>4, <2>1, <2>2
<1> HIDE DEF words
<1>6. \A p : Kept(owned, p) => Kept(owned', p) /\ p # pe'
  BY <1>1, <1>2 DEF Outcome
<1>7. \A node, code : Sound(owned, mem, node, code) => Sound(owned', mem', node, code)
  <2> TAKE node, code
  <2> HAVE Sound(owned, mem, node, code)
  <2>1. \A p \in DOMAIN mem : Kept(owned, p) =>
          p \in DOMAIN mem' /\ mem'[p].w0 = mem[p].w0 /\ mem'[p].w8 = mem[p].w8
    BY <1>5, <1>6
  <2>2. \A p : Kept(owned, p) => Kept(owned', p)
    BY <1>6
  <2> HIDE DEF KeyInv
  <2> QED BY ONLY <2>1, <2>2, Sound(owned, mem, node, code), SoundStays
<1>8. HeapGrows'
  BY <1>2 DEF Outcome
<1>9. Typed'
  BY <1>1, <1>2, <1>3, <1>5 DEF Typed, Outcome
<1>10. Waiting'
  BY <1>1, <1>2, <1>7 DEF Waiting, Outcome
<1>11. Making'
  <2>1. CASE pe' = NULL
    BY <1>1, <1>2, <2>1 DEF Making, Outcome
  <2>2. CASE pe' # NULL
    BY <1>1, <1>2, <1>5, <2>2 DEF Making, Outcome
  <2> QED BY <2>1, <2>2
<1>12. History'
  <2>1. refused \in Nat /\ refused' \in Nat /\ (refused > 0 => refused' > 0)
    BY <1>8, <1>2 DEF HeapGrows, Outcome
  <2> QED BY <1>1, <1>2, <2>1 DEF History, EventsTrue, LostForGood, Outcome
<1> QED BY <1>8, <1>9, <1>10, <1>11, <1>12

LEMMA EventKeeps ==
  ASSUME KeyInv, Event
  PROVE  HeapGrows' /\ Typed' /\ Waiting' /\ Making' /\ History'
<1> USE DEF KeyInv
<1> DEFINE words == NewEvent(mem, e', pe)
<1>1. /\ at = "event" /\ Heap!MemoryAlloc(12) /\ e' = Allocated /\ at' = "node"
      /\ mem' = Store(mem, e', words)
      /\ UNCHANGED <<held, struck, wire, kout, pe, front, rear, size, seen, sent, last, lost, crowded>>
  BY DEF Event, queueVars, past, board
<1>2. Outcome(12)
  BY <1>1, AllocationOutcome DEF Typed
<1>3. e' \in Int
  BY <1>1, <1>2 DEF Outcome
<1>4. words \in Words /\ words.w0 = Blank /\ words.w8 = pe
  BY DEF NewEvent, Words, Codes, Blank, Typed
<1>5. /\ mem' \in [DOMAIN mem' -> Words] /\ NULL \in DOMAIN mem' /\ e' \in DOMAIN mem'
      /\ mem'[e'].w0 = Blank /\ mem'[e'].w8 = pe
      /\ \A q \in DOMAIN mem : q # e' => q \in DOMAIN mem' /\ mem'[q] = mem[q]
  <2> HIDE DEF words
  <2>1. mem \in [DOMAIN mem -> Words] /\ NULL \in DOMAIN mem
    BY DEF Typed
  <2>2. /\ DOMAIN mem' = DOMAIN mem \cup {e'} /\ mem' \in [DOMAIN mem' -> Words]
        /\ mem'[e'] = words /\ \A q \in DOMAIN mem : q # e' => mem'[q] = mem[q]
    <3>1. e' \in Int /\ words \in Words /\ mem' = Store(mem, e', words)
      BY <1>1, <1>3, <1>4
    <3> HIDE DEF KeyInv
    <3> QED BY ONLY <3>1, <2>1, StoreFacts
  <2> QED BY <1>4, <2>1, <2>2
<1> HIDE DEF words
<1>6. \A p : Kept(owned, p) => Kept(owned', p) /\ p # e'
  BY <1>1, <1>2 DEF Outcome
<1>7. \A node, code : Sound(owned, mem, node, code) => Sound(owned', mem', node, code)
  <2> TAKE node, code
  <2> HAVE Sound(owned, mem, node, code)
  <2>1. \A p \in DOMAIN mem : Kept(owned, p) =>
          p \in DOMAIN mem' /\ mem'[p].w0 = mem[p].w0 /\ mem'[p].w8 = mem[p].w8
    BY <1>5, <1>6
  <2>2. \A p : Kept(owned, p) => Kept(owned', p)
    BY <1>6
  <2> HIDE DEF KeyInv
  <2> QED BY ONLY <2>1, <2>2, Sound(owned, mem, node, code), SoundStays
<1>8. HeapGrows'
  BY <1>2 DEF Outcome
<1>9. Typed'
  BY <1>1, <1>2, <1>3, <1>5 DEF Typed, Outcome
<1>10. Waiting'
  BY <1>1, <1>2, <1>7 DEF Waiting, Outcome
<1>11. Making'
  <2>1. CASE e' = NULL
    <3>1. Full \/ LastEntry.size = 2 \/ Len(heap) = 1
      BY <1>1 DEF Making
    <3>2. Full' /\ refused' > 0
      BY <1>1, <1>2, <2>1, <3>1 DEF Outcome
    <3> QED BY <1>1, <1>5, <2>1, <3>2 DEF Making
  <2>2. CASE e' # NULL
    <3>1. ~Full
      BY <1>1, <1>2, <2>2 DEF Outcome
    <3>2. Kept(owned, pe) /\ pe \in DOMAIN mem /\ mem[pe].w0 = EventOf(kout)
      BY <1>1, <3>1 DEF Making
    <3>3. Kept(owned', pe) /\ pe \in DOMAIN mem' /\ mem'[pe].w0 = EventOf(kout)
      BY <3>2, <1>5, <1>6
    <3>4. ~crowded => ~lost
      BY <3>1 DEF History
    <3>5. Kept(owned', e')
      BY <1>1, <1>2, <2>2 DEF Outcome
    <3> QED BY <1>1, <1>5, <3>3, <3>4, <3>5 DEF Making
  <2> QED BY <2>1, <2>2
<1>12. History'
  <2>1. refused \in Nat /\ refused' \in Nat /\ (refused > 0 => refused' > 0)
    BY <1>8, <1>2 DEF HeapGrows, Outcome
  <2> QED BY <1>1, <1>2, <2>1 DEF History, EventsTrue, LostForGood, Outcome
<1> QED BY <1>8, <1>9, <1>10, <1>11, <1>12

(* Linking two nodes touches neither what they lead to nor what is read at *)
(* the end.                                                                *)
LEMMA LinkedFacts ==
  ASSUME NEW m, m \in [DOMAIN m -> Words], NEW n \in Int
  PROVE  /\ DOMAIN Linked(m, n) = DOMAIN m /\ Linked(m, n) \in [DOMAIN m -> Words]
         /\ \A p \in DOMAIN m : Linked(m, n)[p].w8 = m[p].w8
         /\ \A p \in DOMAIN m : p # n => Linked(m, n)[p].w0 = m[p].w0
<1> DEFINE word == IF rear = NULL THEN Blank ELSE AddressBytes
           m1 == [m EXCEPT ![rear].w4 = n]
<1>1. word \in Codes
  BY DEF Codes, Blank, AddressBytes, Unset
<1>2. DOMAIN m1 = DOMAIN m /\ m1 \in [DOMAIN m -> Words]
      /\ \A p \in DOMAIN m : m1[p].w8 = m[p].w8 /\ m1[p].w0 = m[p].w0
  BY DEF Words
<1>3. Linked(m, n) = [m1 EXCEPT ![n].w0 = word]
  BY DEF Linked
<1> HIDE DEF word, m1
<1>4. /\ DOMAIN Linked(m, n) = DOMAIN m1 /\ Linked(m, n) \in [DOMAIN m1 -> Words]
      /\ \A p \in DOMAIN m1 : Linked(m, n)[p].w8 = m1[p].w8
      /\ \A p \in DOMAIN m1 : p # n => Linked(m, n)[p].w0 = m1[p].w0
  BY <1>1, <1>2, <1>3 DEF Words
<1> QED BY <1>2, <1>4

LEMMA NodeKeeps ==
  ASSUME KeyInv, Node
  PROVE  HeapGrows' /\ Typed' /\ Waiting' /\ Making' /\ History'
<1> USE DEF KeyInv
<1> DEFINE n == Allocated
           words == [Object(mem, n) EXCEPT !.w8 = e]
           m == Store(mem, n, words)
           code == EventOf(kout)
<1>1. /\ at = "node" /\ Heap!MemoryAlloc(12) /\ size' = size + 1 /\ at' = "idle"
      /\ sent' = Append(sent, code) /\ crowded' = (crowded \/ (size > 0 /\ refused' > 0))
      /\ \/ size = 0 /\ front' = n /\ mem' = m /\ rear' = rear
         \/ size # 0 /\ mem' = Linked(m, n) /\ rear' = n /\ front' = front
      /\ UNCHANGED <<held, struck, wire, kout, pe, e, seen, last, lost>>
  BY DEF Node, board
<1>2. Outcome(12)
  BY <1>1, AllocationOutcome DEF Typed
<1>3. n \in Int /\ code \in Codes
  BY <1>2, CodesOf DEF Outcome, Typed
<1>4. words \in Words /\ words.w0 = Object(mem, n).w0 /\ words.w8 = e
  <2>1. Object(mem, n) \in Words /\ e \in Int
    BY ObjectWords DEF Typed
  <2> QED BY <2>1 DEF Words
<1>5. /\ m \in [DOMAIN m -> Words] /\ NULL \in DOMAIN m /\ n \in DOMAIN m
      /\ m[n].w0 = Object(mem, n).w0 /\ m[n].w8 = e
      /\ \A q \in DOMAIN mem : q # n => q \in DOMAIN m /\ m[q] = mem[q]
  <2> HIDE DEF words, n
  <2>1. mem \in [DOMAIN mem -> Words] /\ NULL \in DOMAIN mem
    BY DEF Typed
  <2>2. /\ DOMAIN m = DOMAIN mem \cup {n} /\ m \in [DOMAIN m -> Words]
        /\ m[n] = words /\ \A q \in DOMAIN mem : q # n => m[q] = mem[q]
    <3>1. n \in Int /\ words \in Words
      BY <1>3, <1>4
    <3> HIDE DEF KeyInv
    <3> QED BY ONLY <3>1, <2>1, StoreFacts
  <2> QED BY <1>4, <2>1, <2>2
<1> HIDE DEF words, m
<1>6. /\ mem' \in [DOMAIN mem' -> Words] /\ DOMAIN mem' = DOMAIN m
      /\ \A p \in DOMAIN m : mem'[p].w8 = m[p].w8 /\ (p # n => mem'[p].w0 = m[p].w0)
      /\ size = 0 => mem'[n].w0 = m[n].w0
  <2>1. CASE size = 0
    BY <1>1, <1>5, <2>1
  <2>2. CASE size # 0
    <3>1. mem' = Linked(m, n)
      BY <1>1, <2>2
    <3>2. /\ DOMAIN mem' = DOMAIN m /\ mem' \in [DOMAIN m -> Words]
          /\ \A p \in DOMAIN m : mem'[p].w8 = m[p].w8
          /\ \A p \in DOMAIN m : p # n => mem'[p].w0 = m[p].w0
      <4> HIDE DEF n, KeyInv
      <4> QED BY <1>3, <1>5, <3>1, LinkedFacts
    <3> QED BY <2>2, <3>2
  <2> QED BY <2>1, <2>2
<1> HIDE DEF n, code
<1>7. \A p : Kept(owned, p) => Kept(owned', p) /\ p # n /\ p # NULL
  BY <1>2 DEF Outcome, n
<1>8. \A node, c : Sound(owned, mem, node, c) => Sound(owned', mem', node, c)
  <2> TAKE node, c
  <2> HAVE Sound(owned, mem, node, c)
  <2>1. \A p \in DOMAIN mem : Kept(owned, p) =>
          p \in DOMAIN mem' /\ mem'[p].w0 = mem[p].w0 /\ mem'[p].w8 = mem[p].w8
    BY <1>5, <1>6, <1>7
  <2>2. \A p : Kept(owned, p) => Kept(owned', p)
    BY <1>7
  <2> HIDE DEF KeyInv
  <2> QED BY ONLY <2>1, <2>2, Sound(owned, mem, node, c), SoundStays
<1>9. sent \in Seq(Codes) /\ Len(sent) = size /\ size \in Nat /\ size \in {0, 1}
  BY <1>1, KeyboardAssumption DEF Typed
<1>10. /\ sent' \in Seq(Codes) /\ Len(sent') = size + 1 /\ sent'[size + 1] = code
       /\ size >= 1 => sent'[1] = sent[1]
  BY <1>1, <1>3, <1>9
<1>11. Typed'
  <2>1. front' \in Int /\ rear' \in Int /\ NULL \in DOMAIN mem'
    BY <1>1, <1>3, <1>5, <1>6 DEF Typed
  <2>2. size' \in Nat /\ size' <= MaxWaiting /\ Len(sent') = size' /\ crowded' \in BOOLEAN
    BY <1>1, <1>9, <1>10, KeyboardAssumption DEF Typed
  <2> QED BY <1>1, <1>2, <1>6, <1>10, <2>1, <2>2 DEF Typed, Outcome
(* The node made: what it leads to. *)
<1>12. \/ n = NULL /\ e = NULL /\ Full' /\ (size = 0 => Leads(mem', n, Blank))
       \/ Leads(mem', n, code) /\ (~crowded => ~lost) /\ (n # NULL => Sound(owned', mem', n, code))
  <2>1. CASE e = NULL
    <3>1. refused > 0 /\ Full /\ mem[NULL].w0 = Blank
      BY <1>1, <1>7, <2>1 DEF Making
    <3>2. n = NULL /\ Full'
      BY <1>2, <3>1 DEF Outcome, n
    <3>3. m[NULL].w8 = NULL /\ m[NULL].w0 = Blank
      BY <1>5, <2>1, <3>1, <3>2 DEF Object, Typed
    <3>4. size = 0 => mem'[NULL].w8 = NULL /\ mem'[NULL].w0 = Blank /\ NULL \in DOMAIN mem'
      BY <1>5, <1>6, <3>2, <3>3
    <3> QED BY <2>1, <3>2, <3>4 DEF Leads
  <2>2. CASE e # NULL
    <3>1. /\ Kept(owned, e) /\ e \in DOMAIN mem /\ mem[e].w8 = pe
          /\ Kept(owned, pe) /\ pe \in DOMAIN mem /\ mem[pe].w0 = code
          /\ ~crowded => ~lost
      BY <1>1, <2>2 DEF Making, code
    <3>2. /\ n \in DOMAIN mem' /\ mem'[n].w8 = e
          /\ e \in DOMAIN mem' /\ mem'[e].w8 = pe /\ pe \in DOMAIN mem' /\ mem'[pe].w0 = code
      BY <1>5, <1>6, <1>7, <3>1
    <3>3. Leads(mem', n, code)
      BY <3>2 DEF Leads
    <3>4. n # NULL => Kept(owned', n)
      BY <1>2 DEF Outcome, n
    <3>5. n # NULL => Sound(owned', mem', n, code)
      BY <1>7, <3>1, <3>2, <3>3, <3>4 DEF Sound
    <3> QED BY <3>1, <3>3, <3>5
  <2> QED BY <2>1, <2>2
<1>13. HeapGrows'
  BY <1>2 DEF Outcome
<1>14. refused \in Nat /\ refused' \in Nat /\ (refused' = 0 => refused = 0 /\ n # NULL)
       /\ (refused > 0 => refused' > 0)
  BY <1>2, <1>13 DEF HeapGrows, Outcome, n
<1>15. Waiting'
  <2>1. CASE size = 0
    <3>1. size' = 1 /\ front' = n /\ sent'[1] = code /\ (~crowded' => ~crowded)
      <4>1. ~crowded' => ~crowded
        BY <1>1
      <4>2. size + 1 = 1
        BY <2>1
      <4> QED BY <1>1, <1>10, <2>1, <4>1, <4>2
    <3> QED BY <1>1, <1>12, <1>14, <2>1, <3>1 DEF Waiting
  <2>2. CASE size = 1
    <3>1. size' = 2 /\ rear' = n /\ front' = front /\ sent'[2] = code /\ sent'[1] = sent[1]
          /\ (refused' > 0 => crowded')
      <4>1. size + 1 = 2 /\ size # 0 /\ size >= 1 /\ size > 0
        BY <2>2
      <4>2. refused' > 0 => crowded'
        BY <1>1, <4>1
      <4> QED BY <1>1, <1>10, <4>1, <4>2
    <3>2. refused' = 0 => Sound(owned, mem, front, sent[1])
      BY <1>14, <2>2 DEF Waiting
    <3>3. refused' = 0 => Sound(owned', mem', front', sent'[1])
      BY <1>8, <3>1, <3>2
    <3>4. refused' = 0 => Sound(owned', mem', rear', sent'[2])
      BY <1>12, <1>14, <3>1
    <3> QED BY <3>1, <3>3, <3>4 DEF Waiting
  <2> QED BY <1>9, <2>1, <2>2
<1>16. Making'
  BY <1>1 DEF Making
<1>17. History'
  <2>1. Full => Full'
    BY <1>2 DEF Outcome
  <2>2. crowded' => refused' > 0
    BY <1>1, <1>14 DEF History
  <2>3. ~crowded' => ~crowded
    BY <1>1
  <2> QED BY <1>1, <1>14, <2>1, <2>2, <2>3 DEF History, EventsTrue, LostForGood
<1> QED BY <1>11, <1>13, <1>15, <1>16, <1>17

-----------------------------------------------------------------------------
(* What is on its way changes at its two ends only. *)
LEMMA PendingTaken ==
  ASSUME NEW events \in Seq(Codes), NEW bytes \in Seq(Nat), bytes # <<>>, NEW byte
  PROVE  /\ OnTheWay(events, 1, Tail(bytes)) = OnTheWay(events, 0, bytes)
         /\ Pending(events, 1, Head(bytes), Tail(bytes)) = Pending(events, 0, byte, bytes)
<1>1. PICK l \in Nat, n \in Nat : l = Len(events) /\ n = Len(bytes) /\ n >= 1
  BY EmptySeq
<1>2. /\ Len(Tail(bytes)) = n - 1 /\ Head(bytes) = bytes[1]
      /\ \A j \in 1..(n - 1) : Tail(bytes)[j] = bytes[j + 1]
  BY <1>1
<1>3. OnTheWay(events, 1, Tail(bytes)) = l + n /\ OnTheWay(events, 0, bytes) = l + n
  BY <1>1, <1>2 DEF OnTheWay
<1>4. ASSUME NEW i \in 1..(l + n)
      PROVE  Pending(events, 1, Head(bytes), Tail(bytes))[i] = Pending(events, 0, byte, bytes)[i]
  <2>1. CASE i <= l
    BY <1>1, <1>3, <2>1 DEF Pending
  <2>2. CASE i = l + 1
    <3>1. i - l - 0 = 1 /\ ~(i <= l) /\ ~(i <= l + 0) /\ i <= l + 1
      BY <2>2
    <3> QED BY <1>1, <1>2, <1>3, <3>1 DEF Pending
  <2>3. CASE i > l + 1
    <3>1. i - l - 1 \in 1..(n - 1) /\ i - l - 0 = (i - l - 1) + 1
      BY <2>3
    <3>2. Tail(bytes)[i - l - 1] = bytes[i - l - 0]
      BY <1>2, <3>1
    <3>3. ~(i <= l) /\ ~(i <= l + 0) /\ ~(i <= l + 1)
      BY <2>3
    <3> QED BY <1>1, <1>3, <3>2, <3>3 DEF Pending
  <2> QED BY <2>1, <2>2, <2>3
<1> QED BY <1>3, <1>4 DEF Pending

LEMMA PendingQueued ==
  ASSUME NEW events \in Seq(Codes), NEW bytes \in Seq(Nat), NEW byte \in Nat
  PROVE  /\ OnTheWay(Append(events, EventOf(byte)), 0, bytes) = OnTheWay(events, 1, bytes)
         /\ Pending(Append(events, EventOf(byte)), 0, byte, bytes) = Pending(events, 1, byte, bytes)
<1> DEFINE longer == Append(events, EventOf(byte))
<1>1. PICK l \in Nat, n \in Nat : l = Len(events) /\ n = Len(bytes)
  OBVIOUS
<1>2. /\ Len(longer) = l + 1 /\ longer[l + 1] = EventOf(byte)
      /\ \A i \in 1..l : longer[i] = events[i]
  BY <1>1, CodesOf
<1> HIDE DEF longer
<1>3. OnTheWay(longer, 0, bytes) = l + 1 + n /\ OnTheWay(events, 1, bytes) = l + 1 + n
  BY <1>1, <1>2 DEF OnTheWay
<1>4. ASSUME NEW i \in 1..(l + 1 + n)
      PROVE  Pending(longer, 0, byte, bytes)[i] = Pending(events, 1, byte, bytes)[i]
  <2>1. CASE i <= l
    BY <1>1, <1>2, <1>3, <2>1 DEF Pending
  <2>2. CASE i = l + 1
    BY <1>1, <1>2, <1>3, <2>2 DEF Pending
  <2>3. CASE i > l + 1
    <3>1. i - (l + 1) - 0 = i - l - 1 /\ ~(i <= l + 1) /\ ~(i <= l) /\ ~(i <= l + 1 + 0)
      BY <2>3
    <3> QED BY <1>1, <1>2, <1>3, <3>1 DEF Pending
  <2> QED BY <2>1, <2>2, <2>3
<1>5. Pending(longer, 0, byte, bytes) = Pending(events, 1, byte, bytes)
  BY <1>3, <1>4 DEF Pending
<1> QED BY <1>3, <1>5 DEF longer

LEMMA PendingRead ==
  ASSUME NEW events \in Seq(Codes), events # <<>>, NEW bytes \in Seq(Nat), NEW byte
  PROVE  /\ OnTheWay(events, 0, bytes) \in Nat
         /\ OnTheWay(Tail(events), 0, bytes) = OnTheWay(events, 0, bytes) - 1
         /\ OnTheWay(events, 0, bytes) >= 1
         /\ Pending(events, 0, byte, bytes)[1] = Head(events)
         /\ \A i \in 1..(OnTheWay(events, 0, bytes) - 1) :
              Pending(Tail(events), 0, byte, bytes)[i] = Pending(events, 0, byte, bytes)[i + 1]
<1>1. PICK l \in Nat, n \in Nat : l = Len(events) /\ n = Len(bytes) /\ l >= 1
  BY EmptySeq
<1>2. /\ Len(Tail(events)) = l - 1 /\ Head(events) = events[1]
      /\ \A j \in 1..(l - 1) : Tail(events)[j] = events[j + 1]
  BY <1>1
<1>3. OnTheWay(Tail(events), 0, bytes) = l + n - 1 /\ OnTheWay(events, 0, bytes) = l + n
  BY <1>1, <1>2 DEF OnTheWay
<1>4. Pending(events, 0, byte, bytes)[1] = Head(events)
  BY <1>1, <1>2, <1>3 DEF Pending
<1>5. ASSUME NEW i \in 1..(l + n - 1)
      PROVE  Pending(Tail(events), 0, byte, bytes)[i] = Pending(events, 0, byte, bytes)[i + 1]
  <2>1. CASE i <= l - 1
    BY <1>1, <1>2, <1>3, <2>1 DEF Pending
  <2>2. CASE i > l - 1
    <3>1. i - (l - 1) - 0 = (i + 1) - l - 0 /\ ~(i <= l - 1) /\ ~(i <= l - 1 + 0)
          /\ ~(i + 1 <= l) /\ ~(i + 1 <= l + 0) /\ i + 1 \in 1..(l + n)
      BY <2>2
    <3> QED BY <1>1, <1>2, <1>3, <3>1 DEF Pending
  <2> QED BY <2>1, <2>2
<1> QED BY <1>1, <1>3, <1>4, <1>5

LEMMA PendingSent ==
  ASSUME NEW events \in Seq(Codes), NEW bytes \in Seq(Nat), NEW handled \in {0, 1}, NEW byte,
         NEW next \in Nat
  PROVE  /\ OnTheWay(events, handled, bytes) \in Nat
         /\ OnTheWay(events, handled, Append(bytes, next)) = OnTheWay(events, handled, bytes) + 1
         /\ Pending(events, handled, byte, Append(bytes, next))[OnTheWay(events, handled, bytes) + 1]
              = EventOf(next)
         /\ \A i \in 1..OnTheWay(events, handled, bytes) :
              Pending(events, handled, byte, Append(bytes, next))[i]
                = Pending(events, handled, byte, bytes)[i]
<1> DEFINE longer == Append(bytes, next)
<1>1. PICK l \in Nat, n \in Nat : l = Len(events) /\ n = Len(bytes)
  OBVIOUS
<1>2. /\ Len(longer) = n + 1 /\ longer[n + 1] = next
      /\ \A i \in 1..n : longer[i] = bytes[i]
  BY <1>1
<1> HIDE DEF longer
<1>3. /\ OnTheWay(events, handled, longer) = l + handled + n + 1
      /\ OnTheWay(events, handled, bytes) = l + handled + n
  BY <1>1, <1>2 DEF OnTheWay
<1>4. Pending(events, handled, byte, longer)[l + handled + n + 1] = EventOf(next)
  <2>1. (l + handled + n + 1) - l - handled = n + 1 /\ ~(l + handled + n + 1 <= l)
        /\ ~(l + handled + n + 1 <= l + handled)
        /\ l + handled + n + 1 \in 1..(l + handled + n + 1)
    OBVIOUS
  <2> QED BY <1>1, <1>2, <1>3, <2>1 DEF Pending
<1>5. ASSUME NEW i \in 1..(l + handled + n)
      PROVE  Pending(events, handled, byte, longer)[i] = Pending(events, handled, byte, bytes)[i]
  <2>1. CASE i <= l + handled
    BY <1>1, <1>2, <1>3, <2>1 DEF Pending
  <2>2. CASE i > l + handled
    <3>1. i - l - handled \in 1..n /\ ~(i <= l) /\ ~(i <= l + handled)
          /\ i \in 1..(l + handled + n + 1)
      BY <2>2
    <3>2. longer[i - l - handled] = bytes[i - l - handled]
      BY <1>2, <3>1
    <3> QED BY <1>1, <1>3, <3>1, <3>2 DEF Pending
  <2> QED BY <2>1, <2>2
<1> QED BY <1>1, <1>3, <1>4, <1>5 DEF longer

-----------------------------------------------------------------------------
(* One more event, of a key that has just been moved: its reader knows. *)
LEMMA TellsOneMore ==
  ASSUME NEW events, NEW more, NEW n \in Nat, NEW known, NEW down, NEW down2, NEW code \in Codes,
         Tells(events, n, known, down), more[n + 1] = code, \A i \in 1..n : more[i] = events[i],
         code.pressed <=> code.key \in down2,
         \A k \in Int : k # code.key => (k \in down2 <=> k \in down)
  PROVE  Tells(more, n + 1, known, down2)
<1> SUFFICES ASSUME NEW k \in Int
             PROVE  \/ /\ \A i \in 1..(n + 1) : more[i].key # k
                       /\ k \in known <=> k \in down2
                    \/ \E i \in 1..(n + 1) :
                         /\ more[i].key = k /\ (more[i].pressed <=> k \in down2)
                         /\ \A j \in 1..(n + 1) : j > i => more[j].key # k
  BY DEF Tells
<1>1. CASE k = code.key
  <2>1. n + 1 \in 1..(n + 1) /\ \A j \in 1..(n + 1) : ~(j > n + 1)
    OBVIOUS
  <2> QED BY <1>1, <2>1
<1>2. CASE k # code.key
  <2>1. \A i \in 1..(n + 1) : i \in 1..n \/ i = n + 1
    OBVIOUS
  <2>2. CASE (\A i \in 1..n : events[i].key # k) /\ (k \in known <=> k \in down)
    BY <1>2, <2>1, <2>2
  <2>3. CASE \E i \in 1..n : /\ events[i].key = k /\ (events[i].pressed <=> k \in down)
                             /\ \A j \in 1..n : j > i => events[j].key # k
    <3>1. PICK i \in 1..n : /\ events[i].key = k /\ (events[i].pressed <=> k \in down)
                            /\ \A j \in 1..n : j > i => events[j].key # k
      BY <2>3
    <3>2. i \in 1..(n + 1) /\ more[i].key = k /\ (more[i].pressed <=> k \in down2)
      BY <1>2, <3>1
    <3>3. \A j \in 1..(n + 1) : j > i => more[j].key # k
      BY <1>2, <2>1, <3>1
    <3> QED BY <3>2, <3>3
  <2> QED BY <2>2, <2>3 DEF Tells
<1> QED BY <1>1, <1>2

(* The first event read: what it said is known, the others are told as before. *)
LEMMA TellsTheRest ==
  ASSUME NEW events, NEW rest, NEW n \in Nat, n >= 1, NEW known, NEW known2, NEW down,
         Tells(events, n, known, down), \A i \in 1..(n - 1) : rest[i] = events[i + 1],
         events[1].pressed <=> events[1].key \in known2,
         \A k \in Int : k # events[1].key => (k \in known2 <=> k \in known)
  PROVE  Tells(rest, n - 1, known2, down)
<1> SUFFICES ASSUME NEW k \in Int
             PROVE  \/ /\ \A i \in 1..(n - 1) : rest[i].key # k
                       /\ k \in known2 <=> k \in down
                    \/ \E i \in 1..(n - 1) :
                         /\ rest[i].key = k /\ (rest[i].pressed <=> k \in down)
                         /\ \A j \in 1..(n - 1) : j > i => rest[j].key # k
  BY DEF Tells
<1>0. \A i \in 1..(n - 1) : i + 1 \in 1..n
  OBVIOUS
<1>1. CASE (\A i \in 1..n : events[i].key # k) /\ (k \in known <=> k \in down)
  <2>1. 1 \in 1..n
    OBVIOUS
  <2> QED BY <1>0, <1>1, <2>1
<1>2. CASE \E i \in 1..n : /\ events[i].key = k /\ (events[i].pressed <=> k \in down)
                           /\ \A j \in 1..n : j > i => events[j].key # k
  <2>1. PICK i \in 1..n : /\ events[i].key = k /\ (events[i].pressed <=> k \in down)
                          /\ \A j \in 1..n : j > i => events[j].key # k
    BY <1>2
  <2>2. CASE i = 1
    <3>1. \A j \in 1..(n - 1) : j + 1 > 1
      OBVIOUS
    <3>2. \A j \in 1..(n - 1) : rest[j].key # k
      BY <1>0, <2>1, <2>2, <3>1
    <3>3. k \in known2 <=> k \in down
      BY <2>1, <2>2
    <3> QED BY <3>2, <3>3
  <2>3. CASE i # 1
    <3>1. i - 1 \in 1..(n - 1) /\ (i - 1) + 1 = i
      BY <2>3
    <3>2. rest[i - 1] = events[i]
      BY <3>1
    <3>3. \A j \in 1..(n - 1) : j > i - 1 => j + 1 > i
      OBVIOUS
    <3>4. \A j \in 1..(n - 1) : j > i - 1 => rest[j].key # k
      BY <1>0, <2>1, <3>3
    <3> QED BY <2>1, <3>1, <3>2, <3>4
  <2> QED BY <2>2, <2>3
<1> QED BY <1>1, <1>2 DEF Tells

-----------------------------------------------------------------------------
(* The steps of the handler leave what is on its way as it is. *)
LEMMA HandlerTells ==
  ASSUME KeyInv, Payload \/ Event \/ Node
  PROVE  KeysTold' /\ Strokes'
<1> USE DEF KeyInv
<1>1. refused' = 0 => refused = 0
  BY AllocationOutcome DEF Payload, Event, Node, Typed, Outcome
<1>2. sent \in Seq(Codes) /\ wire \in Seq(Nat) /\ kout \in Nat
  BY DEF Typed
<1>3. /\ OnTheWay(sent', Handled', wire') = OnTheWay(sent, Handled, wire)
      /\ Pending(sent', Handled', kout', wire') = Pending(sent, Handled, kout, wire)
      /\ struck' = struck /\ seen' = seen
  <2>1. CASE Payload
    <3>1. /\ wire # <<>> /\ Handled = 0 /\ Handled' = 1 /\ kout' = Head(wire)
          /\ wire' = Tail(wire) /\ sent' = sent /\ struck' = struck /\ seen' = seen
      BY <2>1 DEF Payload, Handled, past
    <3> HIDE DEF KeyInv
    <3> QED BY ONLY <1>2, <3>1, PendingTaken
  <2>2. CASE Event
    <3>1. /\ Handled = 1 /\ Handled' = 1 /\ UNCHANGED <<sent, wire, kout, struck, seen>>
      BY <2>2 DEF Event, Handled, past, board
    <3> QED BY <3>1
  <2>3. CASE Node
    <3>1. /\ Handled = 1 /\ Handled' = 0 /\ sent' = Append(sent, EventOf(kout))
          /\ UNCHANGED <<wire, kout, struck, seen>>
      BY <2>3 DEF Node, Handled, board
    <3> HIDE DEF KeyInv
    <3> QED BY ONLY <1>2, <3>1, PendingQueued
  <2> QED BY <2>1, <2>2, <2>3
<1>4. Tells(Pending(sent, Handled, kout, wire), OnTheWay(sent, Handled, wire), seen, struck) =
      Tells(Pending(sent', Handled', kout', wire'), OnTheWay(sent', Handled', wire'), seen', struck')
  BY <1>3
<1>5. held' = held /\ struck' = struck
  BY DEF Payload, Event, Node, board
<1> QED BY <1>1, <1>4, <1>5 DEF KeysTold, Strokes

(* One byte more on the wire, of a key that is now as the byte says. *)
LEMMA ByteTells ==
  ASSUME NEW s \in Seq(Codes), NEW h \in {0, 1}, NEW c, NEW bytes \in Seq(Nat), NEW known,
         NEW down, NEW down2, NEW byte \in Nat,
         Tells(Pending(s, h, c, bytes), OnTheWay(s, h, bytes), known, down),
         EventOf(byte).pressed <=> EventOf(byte).key \in down2,
         \A k \in Int : k # EventOf(byte).key => (k \in down2 <=> k \in down)
  PROVE  /\ Append(bytes, byte) \in Seq(Nat)
         /\ Tells(Pending(s, h, c, Append(bytes, byte)), OnTheWay(s, h, Append(bytes, byte)),
                  known, down2)
<1> DEFINE events == Pending(s, h, c, bytes)
           more == Pending(s, h, c, Append(bytes, byte))
           n == OnTheWay(s, h, bytes)
<1>1. n \in Nat /\ OnTheWay(s, h, Append(bytes, byte)) = n + 1 /\ more[n + 1] = EventOf(byte)
      /\ \A i \in 1..n : more[i] = events[i]
  BY PendingSent
<1>2. EventOf(byte) \in Codes
  BY CodesOf
<1> HIDE DEF events, more, n
<1>3. Tells(events, n, known, down)
  BY DEF events, n
<1>4. Tells(more, n + 1, known, down2)
  BY <1>1, <1>2, <1>3, TellsOneMore
<1> QED BY <1>1, <1>4 DEF more

(* A stroke keeps what the strokes of a code say of its keys. *)
LEMMA StrokesKept ==
  ASSUME Strokes, held \subseteq Keyboard, NEW k \in Keyboard, Press(k) \/ Release(k) \/ Repeat(k)
  PROVE  Strokes' /\ held' \subseteq Keyboard
<1>1. CASE Press(k)
  BY <1>1 DEF Press, Strokes
<1>2. CASE Release(k)
  BY <1>2 DEF Release, Strokes
<1>3. CASE Repeat(k)
  BY <1>3 DEF Repeat, Strokes
<1> QED BY <1>1, <1>2, <1>3

(* Press, release and repetition, of a plain key or an extended one. *)
LEMMA KeyboardKeeps ==
  ASSUME KeyInv, NEW k \in Keyboard, Press(k) \/ Release(k) \/ Repeat(k)
  PROVE  KeyInv'
<1>0. PICK c \in Keys \cup Extended : c = k.code
  BY DEF Keyboard
<1> DEFINE byte == IF Release(k) THEN c + 128 ELSE c
<1>1. c \in 1..127 /\ c # 96 /\ 96 \notin struck /\ struck \subseteq Keys \cup Extended
  <2>1. struck \subseteq Keys \cup Extended
    BY DEF KeyInv, Typed
  <2>2. Keys \cup Extended \subseteq 1..127 /\ 96 \notin Keys \cup Extended
    BY KeyboardAssumption
  <2> QED BY <2>1, <2>2
<1>2. /\ Send(Bytes(k, byte)) /\ struck' \subseteq Keys \cup Extended
      /\ \A q \in Int : q # c => (q \in struck' <=> q \in struck)
      /\ byte \in Nat /\ EventOf(byte).key = c /\ (EventOf(byte).pressed <=> c \in struck')
  <2>1. CASE ~Release(k)
    <3>1. byte = c /\ Send(Bytes(k, c)) /\ struck' = struck \cup {c}
      BY <1>0, <2>1 DEF Press, Repeat
    <3>2. EventOf(c) = [pressed |-> TRUE, key |-> c]
      BY <1>1 DEF EventOf
    <3> HIDE DEF byte
    <3> QED BY <1>1, <3>1, <3>2
  <2>2. CASE Release(k)
    <3>1. byte = c + 128 /\ Send(Bytes(k, c + 128)) /\ struck' = struck \ {c}
      BY <1>0, <2>2 DEF Release
    <3>2. EventOf(c + 128) = [pressed |-> FALSE, key |-> c]
      BY <1>1 DEF EventOf
    <3> HIDE DEF byte
    <3> QED BY <1>1, <3>1, <3>2
  <2> QED BY <2>1, <2>2
<1> HIDE DEF byte
<1>3. /\ wire' = wire \o Bytes(k, byte)
      /\ UNCHANGED <<heapVars, at, kout, pe, e, mem, queueVars, seen, past>>
  BY <1>2 DEF Send
<1>4. wire \in Seq(Nat) /\ sent \in Seq(Codes) /\ Handled \in {0, 1}
  BY DEF KeyInv, Typed, Handled
<1>5. wire' = Append(wire, byte) \/ wire' = Append(Append(wire, Prefix), byte)
  <2>1. /\ wire \o <<byte>> = Append(wire, byte)
        /\ wire \o <<Prefix, byte>> = Append(Append(wire, Prefix), byte)
    BY <1>2, <1>4 DEF Prefix
  <2> QED BY <1>3, <2>1 DEF Bytes
<1>6. Prefix \in Nat /\ EventOf(Prefix) = [pressed |-> FALSE, key |-> 96]
  BY DEF EventOf, Prefix
<1>7. wire' \in Seq(Nat)
  <2>1. byte \in Nat /\ Prefix \in Nat /\ wire \in Seq(Nat)
    BY <1>2, <1>4, <1>6
  <2>2. Append(wire, byte) \in Seq(Nat) /\ Append(wire, Prefix) \in Seq(Nat)
    BY <2>1
  <2>3. Append(Append(wire, Prefix), byte) \in Seq(Nat)
    BY <2>1, <2>2
  <2> QED BY <1>5, <2>2, <2>3
<1>8. KeysTold'
  <2> SUFFICES ASSUME refused' = 0
               PROVE  Tells(Pending(sent, Handled, kout, wire'), OnTheWay(sent, Handled, wire'),
                            seen, struck')
    <3>1. Handled' = Handled /\ sent' = sent /\ kout' = kout /\ seen' = seen
      BY <1>3 DEF Handled, past
    <3> QED BY <3>1 DEF KeysTold
  <2>1. Tells(Pending(sent, Handled, kout, wire), OnTheWay(sent, Handled, wire), seen, struck)
    BY <1>3 DEF KeyInv, KeysTold, heapVars
  <2>2. CASE wire' = Append(wire, byte)
    BY <1>2, <1>4, <2>1, <2>2, ByteTells
  <2>3. CASE wire' = Append(Append(wire, Prefix), byte)
    <3> DEFINE w == Append(wire, Prefix)
    <3>1. /\ w \in Seq(Nat)
          /\ Tells(Pending(sent, Handled, kout, w), OnTheWay(sent, Handled, w), seen, struck)
      BY <1>1, <1>4, <1>6, <2>1, ByteTells
    <3> HIDE DEF w
    <3>2. Tells(Pending(sent, Handled, kout, Append(w, byte)),
                OnTheWay(sent, Handled, Append(w, byte)), seen, struck')
      BY <1>2, <1>4, <3>1, ByteTells
    <3> QED BY <2>3, <3>2 DEF w
  <2> QED BY <1>5, <2>2, <2>3
<1>9. HeapGrows' /\ Waiting' /\ Making' /\ History'
  BY <1>3 DEF KeyInv, heapVars, queueVars, past, HeapGrows, LastEntry, Untouched, Waiting, Sound,
              Leads, Kept, Full, Making, History, EventsTrue, LostForGood
<1>11. Strokes' /\ held' \subseteq Keyboard
  BY StrokesKept DEF KeyInv, Typed
<1>10. Typed'
  BY <1>2, <1>3, <1>7, <1>11 DEF KeyInv, heapVars, queueVars, past, Typed, LastEntry, Untouched
<1> QED BY <1>8, <1>9, <1>10, <1>11 DEF KeyInv

-----------------------------------------------------------------------------
(* Of what is still led to in two steps from the objects of S nothing is   *)
(* forgotten.                                                              *)
LEMMA ReachableFacts ==
  ASSUME NEW m, NEW S, S \subseteq DOMAIN m
  PROVE  /\ Reachable(m, S) \subseteq DOMAIN m /\ S \subseteq Reachable(m, S)
         /\ \A a \in S : m[a].w8 \in DOMAIN m =>
              /\ m[a].w8 \in Reachable(m, S)
              /\ m[m[a].w8].w8 \in DOMAIN m => m[m[a].w8].w8 \in Reachable(m, S)
<1> DEFINE Next1(T) == T \cup UNION {{m[a].w4, m[a].w8} \cap DOMAIN m : a \in T}
<1>1. \A T : T \subseteq DOMAIN m =>
        /\ T \subseteq Next1(T) /\ Next1(T) \subseteq DOMAIN m
        /\ \A a \in T : m[a].w8 \in DOMAIN m => m[a].w8 \in Next1(T)
  <2> TAKE T
  <2> HAVE T \subseteq DOMAIN m
  <2>1. T \subseteq Next1(T) /\ Next1(T) \subseteq DOMAIN m
    OBVIOUS
  <2>2. ASSUME NEW a \in T, m[a].w8 \in DOMAIN m
        PROVE  m[a].w8 \in Next1(T)
    <3>1. m[a].w8 \in {m[a].w4, m[a].w8} \cap DOMAIN m
      BY <2>2
    <3>2. {m[a].w4, m[a].w8} \cap DOMAIN m \in {{m[b].w4, m[b].w8} \cap DOMAIN m : b \in T}
      OBVIOUS
    <3> QED BY <3>1, <3>2
  <2> QED BY <2>1, <2>2
<1>2. Reachable(m, S) = Next1(Next1(Next1(S)))
  BY DEF Reachable
<1> HIDE DEF Next1
<1>3. /\ S \subseteq Next1(S) /\ Next1(S) \subseteq DOMAIN m
      /\ Next1(S) \subseteq Next1(Next1(S)) /\ Next1(Next1(S)) \subseteq DOMAIN m
      /\ Next1(Next1(S)) \subseteq Reachable(m, S) /\ Reachable(m, S) \subseteq DOMAIN m
  BY <1>1, <1>2
<1>4. ASSUME NEW a \in S, m[a].w8 \in DOMAIN m
      PROVE  /\ m[a].w8 \in Reachable(m, S)
             /\ m[m[a].w8].w8 \in DOMAIN m => m[m[a].w8].w8 \in Reachable(m, S)
  <2>1. m[a].w8 \in Next1(S)
    BY <1>1, <1>4
  <2>2. m[m[a].w8].w8 \in DOMAIN m => m[m[a].w8].w8 \in Next1(Next1(S))
    BY <1>1, <1>3, <2>1
  <2> QED BY <1>3, <2>1, <2>2
<1> QED BY <1>3, <1>4

LEMMA FrontLinkedFacts ==
  ASSUME NEW m, m \in [DOMAIN m -> Words], rear \in Int
  PROVE  /\ DOMAIN FrontLinked(m) = DOMAIN m /\ FrontLinked(m) \in [DOMAIN m -> Words]
         /\ \A p \in DOMAIN m : FrontLinked(m)[p].w8 = m[p].w8 /\ FrontLinked(m)[p].w0 = m[p].w0
         /\ size = 2 /\ front \in DOMAIN m => FrontLinked(m)[front].w4 = rear
  BY DEF FrontLinked, Words

LEMMA AwaitKeeps ==
  ASSUME KeyInv, EventAwait
  PROVE  KeyInv'
<1> USE DEF KeyInv
<1> DEFINE m == FrontLinked(mem)
           n == Object(m, front)
           ev == Object(m, n.w8)
           read == Object(m, ev.w8).w0
           first == {NULL, rear, n.w4} \cap DOMAIN m
<1>1. /\ at = "idle" /\ size > 0 /\ front' = n.w4
      /\ mem' = [a \in Reachable(m, first) |-> m[a]]
      /\ last' = [sent |-> Head(sent), read |-> read]
      /\ lost' = (lost \/ read # Head(sent))
      /\ seen' = (IF read.pressed THEN seen \cup {read.key} ELSE seen \ {read.key})
      /\ size' = size - 1 /\ sent' = Tail(sent)
      /\ UNCHANGED <<heapVars, board, at, kout, pe, e, rear, crowded>>
  BY DEF EventAwait
<1>2. /\ mem \in [DOMAIN mem -> Words] /\ NULL \in DOMAIN mem /\ rear \in Int /\ front \in Int
      /\ sent \in Seq(Codes) /\ Len(sent) = size /\ size \in {1, 2} /\ sent # <<>>
      /\ refused \in Nat
  <2>1. size \in Nat /\ size <= MaxWaiting /\ MaxWaiting \in {1, 2}
    BY KeyboardAssumption DEF Typed
  <2>2. size \in {1, 2}
    BY <1>1, <2>1
  <2>3. sent # <<>>
    BY <2>2, EmptySeq DEF Typed
  <2> QED BY <2>2, <2>3 DEF Typed, HeapGrows
<1>3. /\ DOMAIN m = DOMAIN mem /\ m \in [DOMAIN m -> Words]
      /\ \A p \in DOMAIN mem : m[p].w8 = mem[p].w8 /\ m[p].w0 = mem[p].w0
      /\ size = 2 /\ front \in DOMAIN mem => m[front].w4 = rear
  BY <1>2, FrontLinkedFacts
<1> HIDE DEF m
<1>4. n \in Words /\ ev \in Words /\ read \in Codes
  <2>1. \A p : Object(m, p) \in Words
    BY <1>3, ObjectWords
  <2> QED BY <2>1 DEF Words
<1> HIDE DEF n, ev, read
(* What is read, when the front leads somewhere. *)
<1>5. ASSUME NEW code, Leads(mem, front, code)
      PROVE  read = code /\ n = m[front]
  <2>1. front \in DOMAIN m /\ m[front].w8 \in DOMAIN m /\ m[m[front].w8].w8 \in DOMAIN m
        /\ m[m[m[front].w8].w8].w0 = code
    BY <1>3, <1>5 DEF Leads
  <2>2. n = m[front] /\ ev = m[m[front].w8]
    BY <2>1 DEF n, ev, Object
  <2> QED BY <2>1, <2>2 DEF read, Object
(* What is kept leads where it led. *)
<1>6. /\ mem' \in [DOMAIN mem' -> Words] /\ NULL \in DOMAIN mem'
      /\ \A p, code : p \in first /\ Sound(owned, mem, p, code) => Sound(owned, mem', p, code)
  <2>1. first \subseteq DOMAIN m /\ NULL \in first
    BY <1>2, <1>3
  <2> HIDE DEF first
  <2>2. /\ Reachable(m, first) \subseteq DOMAIN m /\ first \subseteq Reachable(m, first)
        /\ \A a \in first : m[a].w8 \in DOMAIN m =>
             /\ m[a].w8 \in Reachable(m, first)
             /\ m[m[a].w8].w8 \in DOMAIN m => m[m[a].w8].w8 \in Reachable(m, first)
    BY <2>1, ReachableFacts
  <2>3. DOMAIN mem' = Reachable(m, first) /\ \A a \in DOMAIN mem' : mem'[a] = m[a]
    BY <1>1
  <2>4. mem' \in [DOMAIN mem' -> Words] /\ NULL \in DOMAIN mem'
    <3>1. \A a \in DOMAIN mem' : mem'[a] \in Words
      BY <1>3, <2>2, <2>3
    <3>2. mem' = [a \in DOMAIN mem' |-> mem'[a]]
      BY <1>1
    <3> QED BY <2>1, <2>2, <2>3, <3>1, <3>2
  <2>5. ASSUME NEW p, NEW code, p \in first, Sound(owned, mem, p, code)
        PROVE  Sound(owned, mem', p, code)
    <3> DEFINE q == mem[p].w8
               r == mem[q].w8
    <3>1. p \in DOMAIN mem /\ q \in DOMAIN mem /\ r \in DOMAIN mem /\ mem[r].w0 = code
          /\ Kept(owned, p) /\ Kept(owned, q) /\ Kept(owned, r)
      BY <2>5 DEF Sound, Leads
    <3>2. m[p].w8 = q /\ m[q].w8 = r /\ m[r].w0 = code
      BY <1>3, <3>1
    <3> HIDE DEF q, r
    <3>3. p \in DOMAIN mem' /\ q \in DOMAIN mem' /\ r \in DOMAIN mem'
      BY <1>3, <2>2, <2>3, <2>5, <3>1, <3>2
    <3>4. mem'[p].w8 = q /\ mem'[q].w8 = r /\ mem'[r].w0 = code
      BY <2>3, <3>2, <3>3
    <3> QED BY <3>1, <3>3, <3>4 DEF Sound, Leads
  <2> QED BY <2>4, <2>5
<1>7. HeapGrows'
  BY <1>1 DEF heapVars, HeapGrows, LastEntry, Untouched
<1>8. /\ sent' \in Seq(Codes) /\ Len(sent') = size - 1
      /\ Head(sent) \in Codes /\ Head(sent) = sent[1]
      /\ size = 2 => sent'[1] = sent[2]
  BY <1>1, <1>2
<1>9. Typed'
  <2>1. front' \in Int /\ read.key \in Int
    BY <1>1, <1>4 DEF Words, Codes
  <2>2. seen' \subseteq Int
    BY <1>1, <2>1 DEF Typed
  <2>3. size' \in Nat /\ size' <= MaxWaiting /\ Len(sent') = size'
    BY <1>1, <1>2, <1>8, KeyboardAssumption DEF Typed
  <2>4. last' \in [sent : Codes, read : Codes] /\ lost' \in BOOLEAN
    BY <1>1, <1>4, <1>8
  <2> QED BY <1>1, <1>6, <1>8, <2>1, <2>2, <2>3, <2>4
        DEF Typed, heapVars, board, LastEntry, Untouched
<1>10. /\ refused' = refused /\ owned' = owned /\ (crowded' <=> crowded) /\ (Full' <=> Full)
       /\ rear' = rear /\ at' = at
  BY <1>1 DEF heapVars, Full, LastEntry
<1>11. refused = 0 => read = Head(sent) /\ n = m[front] /\ front \in DOMAIN mem
  <2> SUFFICES ASSUME refused = 0
               PROVE  read = Head(sent) /\ n = m[front] /\ front \in DOMAIN mem
    OBVIOUS
  <2>1. Leads(mem, front, sent[1])
    BY <1>2 DEF Waiting, Sound
  <2> QED BY <1>5, <1>8, <2>1 DEF Leads
<1>12. Waiting'
  <2>1. CASE size = 1
    BY <1>1, <2>1 DEF Waiting
  <2>2. CASE size = 2
    <3>1. size' = 1
      BY <1>1, <2>2
    <3>2. ASSUME refused = 0
          PROVE  Sound(owned', mem', front', sent'[1])
      <4>1. front' = rear
        BY <1>1, <1>3, <1>11, <2>2, <3>2
      <4>2. Sound(owned, mem, rear, sent[2])
        BY <2>2, <3>2 DEF Waiting
      <4>3. rear \in first
        BY <1>3, <4>2 DEF Sound, Leads
      <4> QED BY <1>6, <1>8, <1>10, <2>2, <4>1, <4>2, <4>3
    <3>3. crowded \/ refused = 0
      BY <1>1, <1>2, <2>2 DEF Waiting
    <3> QED BY <1>2, <1>10, <3>1, <3>2, <3>3 DEF Waiting
  <2> QED BY <1>2, <2>1, <2>2
<1>13. Making'
  BY <1>1 DEF Making
<1>14. ~crowded /\ refused > 0 => (read = Head(sent) /\ ~lost) \/ (read = Blank /\ Full)
  <2> SUFFICES ASSUME ~crowded, refused > 0
               PROVE  (read = Head(sent) /\ ~lost) \/ (read = Blank /\ Full)
    OBVIOUS
  <2>1. size = 1
    BY <1>1, <1>2 DEF Waiting
  <2>2. (Leads(mem, front, sent[1]) /\ ~lost) \/ (Leads(mem, front, Blank) /\ Full)
    <3>1. at = "idle"
      BY <1>1
    <3> QED BY <2>1, <3>1 DEF Waiting
  <2> QED BY <1>5, <1>8, <2>2
<1>15. History'
  <2>1. last'.sent = Head(sent) /\ last'.read = read
    BY <1>1
  <2>0. lost' => lost \/ read # Head(sent)
    <3>1. lost' = (lost \/ read # Head(sent))
      BY <1>1
    <3> QED BY <3>1, Zenon
  <2>2. refused = 0 => ~lost' /\ ~crowded
    <3>1. refused = 0 => ~lost /\ ~crowded
      BY DEF History, EventsTrue
    <3> QED BY <1>11, <2>0, <3>1
  <2>3. ~crowded => (read = Head(sent) /\ ~lost') \/ (read = Blank /\ Full)
    <3>1. refused = 0 \/ refused > 0
      BY <1>2
    <3> QED BY <1>11, <1>14, <2>0, <2>2, <3>1
  <2> QED BY <1>10, <2>1, <2>2, <2>3 DEF History, EventsTrue, LostForGood
<1>16. KeysTold'
  <2> SUFFICES ASSUME refused = 0
               PROVE  Tells(Pending(sent', 0, kout, wire), OnTheWay(sent', 0, wire), seen', struck)
    <3>1. Handled' = 0 /\ UNCHANGED <<kout, wire, struck>>
      BY <1>1 DEF Handled, board
    <3> QED BY <1>10, <3>1 DEF KeysTold
  <2> DEFINE events == Pending(sent, 0, kout, wire)
             rest == Pending(sent', 0, kout, wire)
             N == OnTheWay(sent, 0, wire)
  <2>1. Tells(events, N, seen, struck)
    BY <1>1 DEF KeysTold, Handled
  <2>2. /\ N \in Nat /\ N >= 1 /\ OnTheWay(sent', 0, wire) = N - 1 /\ events[1] = Head(sent)
        /\ \A i \in 1..(N - 1) : rest[i] = events[i + 1]
    <3>1. wire \in Seq(Nat)
      BY DEF Typed
    <3> HIDE DEF KeyInv
    <3> QED BY <1>1, <1>2, <3>1, PendingRead
  <2> HIDE DEF events, rest, N
  <2>3. events[1] = read
    BY <1>11, <2>2
  <2>4. /\ read.pressed <=> read.key \in seen'
        /\ \A k \in Int : k # read.key => (k \in seen' <=> k \in seen)
    BY <1>1
  <2>5. Tells(rest, N - 1, seen', struck)
    BY <2>1, <2>2, <2>3, <2>4, TellsTheRest
  <2> QED BY <2>2, <2>5 DEF rest
<1>17. Strokes'
  BY <1>1 DEF Strokes, board
<1> QED BY <1>7, <1>9, <1>12, <1>13, <1>15, <1>16, <1>17

-----------------------------------------------------------------------------
LEMMA InitKeys ==
  ASSUME Init
  PROVE  KeyInv
<1> DEFINE root == [addr |-> HeapStart, size |-> RootSize, alloc |-> FALSE]
<1>1. /\ heap = <<root>> /\ owned = {} /\ refused = 0
      /\ held = {} /\ struck = {} /\ wire = <<>> /\ at = "idle" /\ kout = 0 /\ pe = 0 /\ e = 0
      /\ front = 0 /\ rear = 0 /\ size = 0 /\ seen = {} /\ sent = <<>>
      /\ last = [sent |-> Blank, read |-> Blank] /\ lost = FALSE /\ crowded = FALSE
      /\ mem = [a \in {0} |-> [w0 |-> AddressBytes, w4 |-> Unset, w8 |-> Unset]]
  BY DEF Init, Heap!Init, NULL
<1>2. root \in Heap!Entry
  BY HeapAssumption DEF Heap!Entry
<1>3. heap \in Seq(Heap!Entry) /\ heap # <<>> /\ Len(heap) = 1 /\ LastEntry = root
  <2> HIDE DEF root
  <2> QED BY <1>1, <1>2 DEF LastEntry
<1>4. LastEntry.addr = HeapStart /\ LastEntry.size = RootSize /\ LastEntry.alloc = FALSE
  BY <1>3
<1>5. HeapGrows
  <2>1. Untouched
    BY <1>1, <1>3, <1>4 DEF Untouched
  <2> HIDE DEF root
  <2> QED BY <1>1, <1>3, <1>4, <2>1, HeapAssumption DEF HeapGrows
<1>6. Typed
  <2>1. Blank \in Codes /\ mem \in [DOMAIN mem -> Words] /\ NULL \in DOMAIN mem
    BY <1>1 DEF Codes, Words, Blank, AddressBytes, Unset, NULL
  <2>2. size <= MaxWaiting
    BY <1>1, KeyboardAssumption
  <2> QED BY <1>1, <2>1, <2>2 DEF Typed
<1>7. Waiting /\ Making
  BY <1>1 DEF Waiting, Making
<1>8. History
  BY <1>1 DEF History, EventsTrue, LostForGood
<1>9. KeysTold
  <2>1. OnTheWay(sent, Handled, wire) = 0
    BY <1>1 DEF OnTheWay, Handled
  <2> QED BY <1>1, <2>1 DEF KeysTold, Tells
<1> QED BY <1>1, <1>5, <1>6, <1>7, <1>8, <1>9 DEF KeyInv, Strokes

LEMMA NextKeys ==
  ASSUME KeyInv, [Next]_vars
  PROVE  KeyInv'
<1>1. CASE UNCHANGED vars
  BY <1>1
  DEF vars, heapVars, board, queueVars, past, KeyInv, HeapGrows, LastEntry, Untouched, Typed,
              Waiting, Sound, Leads, Kept, Full, Making, History, EventsTrue, LostForGood, KeysTold,
              Handled, Strokes
<1>2. CASE \E k \in Keyboard : Press(k) \/ Release(k) \/ Repeat(k)
  BY <1>2, KeyboardKeeps
<1>3. CASE Payload \/ Event \/ Node
  BY <1>3, HandlerTells, PayloadKeeps, EventKeeps, NodeKeeps DEF KeyInv
<1>4. CASE EventAwait
  BY <1>4, AwaitKeeps
<1> QED BY <1>1, <1>2, <1>3, <1>4 DEF Next

(* The inductive invariant of a key's way: where the heap ends, what the   *)
(* handler has made, where the waiting nodes lead, and which keys whoever  *)
(* reads all that is on its way will know to be down.                      *)
THEOREM KeyInvariant == Spec => []KeyInv
<1>1. Init => KeyInv
  BY InitKeys
<1>2. KeyInv /\ [Next]_vars => KeyInv'
  BY NextKeys
<1> QED BY <1>1, <1>2, PTL DEF Spec

(* Events are read as they were sent and in order until the heap refuses;  *)
(* and while only one waits, even then as sent or as the release of key 0. *)
THEOREM ReadAsSent == Spec => []EventsTrue
<1>1. KeyInv => EventsTrue
  BY DEF KeyInv, History
<1> QED BY <1>1, KeyInvariant, PTL

(* The first event that is lost, while only one waits, ends what the kernel*)
(* learns: a heap that has refused an event grants none again.             *)
THEOREM NoneAfterTheLost == Spec => []LostForGood
<1>1. KeyInv => LostForGood
  BY DEF KeyInv, History
<1> QED BY <1>1, KeyInvariant, PTL

(* When nothing is on its way and nothing was refused, the thread knows of *)
(* every code the last stroke, for any keys, whatever is pressed and       *)
(* repeated; which of two keys of one code is down it cannot know.         *)
THEOREM KnowsTheKeys == Spec => []KeysKnown
<1>1. KeyInv => KeysKnown
  <2> SUFFICES ASSUME KeyInv, wire = <<>>, at = "idle", size = 0, refused = 0
               PROVE  seen = struck
    BY DEF KeysKnown, KeyInv, Strokes
  <2>1. OnTheWay(sent, Handled, wire) = 0
    <3>1. Len(sent) = 0 /\ Len(wire) = 0
      BY DEF KeyInv, Typed
    <3> QED BY <3>1 DEF OnTheWay, Handled
  <2>2. \A k \in Int : k \in seen <=> k \in struck
    BY <2>1 DEF KeyInv, KeysTold, Tells
  <2>3. seen \subseteq Int /\ struck \subseteq Int
    <3>1. struck \subseteq Keys \cup Extended /\ seen \subseteq Int
      BY DEF KeyInv, Typed
    <3>2. Keys \cup Extended \subseteq Int
      <4>1. Keys \cup Extended \subseteq 1..127
        BY KeyboardAssumption
      <4>2. \A k \in 1..127 : k \in Int
        OBVIOUS
      <4> QED BY <4>1, <4>2
    <3> QED BY <3>1, <3>2
  <2> QED BY <2>2, <2>3
<1> QED BY <1>1, KeyInvariant, PTL

=============================================================================
