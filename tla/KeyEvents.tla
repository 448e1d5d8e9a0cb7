------------------------------- MODULE KeyEvents -------------------------------
(***************************************************************************)
(* A key's way through the kernel: a keyboard of scan code set 1 (external)*)
(* s2_PS2KeyboardHandler with its three allocations on the heap of module  *)
(* MemManager, the nodes of the event queue, and the thread that reads node*)
(* event and payload through their pointers.  Nothing on this way is ever  *)
(* freed, so the heap comes to refuse, and the handler writes through the  *)
(* NULL it is given to the bytes at address 0, where its three objects then*)
(* share twelve bytes.  The thread takes an event in one step, and at most *)
(* MaxWaiting wait: what happens otherwise is the business of Events.      *)
(***************************************************************************)
EXTENDS Ps2Codes

CONSTANTS
  HeapStart, MemCap, RootSize, Word, Sizes, MaxEntries, MaxRefused,  \* of the heap
  Keys,       \* the codes of the plain keys pressed, in 1..127
  Extended,   \* the codes of the extended keys pressed: a plain key may share one
  Wire,       \* bound: bytes the controller holds
  MaxWaiting  \* bound: events queued and not taken

(* No key of scan code set 1 has the code 96, that of the prefix's release.*)
ASSUME KeyboardAssumption ==
  /\ Keys \cup Extended \subseteq 1..127 /\ 96 \notin Keys \cup Extended
  /\ Wire \in Nat /\ Wire >= 2 /\ MaxWaiting \in {1, 2}

(* Of the heap what matters where nothing is freed; and the first event    *)
(* fits behind the root entry.                                             *)
ASSUME HeapAssumption ==
  /\ HeapStart \in Nat \ {0} /\ MemCap \in Nat /\ Word \in Nat
  /\ RootSize \in Nat /\ RootSize >= 2 /\ MaxEntries \in Nat /\ MaxRefused \in Nat
  /\ 20 * (RootSize + 12) <= MemCap
  /\ HeapStart + MemCap + 20 * (RootSize + 25) < Word

VARIABLES
  heap, owned, merged, wrapped, refused, memleaks, intr, halted, astray,  \* of the heap
  held,   \* the keys that are physically down
  struck, \* the codes whose last stroke was not a release (history)
  wire,   \* bytes sent and not yet read by the handler
  at,     \* the handler: "idle", or about to allocate an "event" or a "node"
  kout, pe, e,         \* its variables
  mem,    \* address 0 and the objects the queue still leads to, by their address
  front, rear, size,   \* s2_eventQueue
  seen,   \* the keys the events read say are down
  sent,   \* the events queued and not read (history)
  last,   \* the event read last and the one it should have been (history)
  lost,   \* one was read that was not the one sent (history)
  crowded \* two have waited, the heap refusing (history)

heapVars  == <<heap, owned, merged, wrapped, refused, memleaks, intr, halted, astray>>
board     == <<held, struck, wire>>
queueVars == <<front, rear, size>>
past      == <<sent, last, lost, crowded>>
vars      == <<heapVars, board, at, kout, pe, e, mem, queueVars, seen, past>>

Heap == INSTANCE MemManager

NULL  == 0
Unset == -1  \* never written
Blank == [pressed |-> FALSE, key |-> 0]
AddressBytes == [pressed |-> TRUE, key |-> Unset]  \* two bytes of an address

-----------------------------------------------------------------------------
(* The keyboard sends one byte when a key goes down and the same byte + 128*)
(* when it comes up, after the byte 224 when the key is an extended one.   *)
(* Both Ctrl, both Alt, both Enter, an arrow and a key of the keypad: two  *)
(* keys may have one code.                                                 *)
Prefix == 224

Keyboard == [code : Keys, extended : {FALSE}] \cup [code : Extended, extended : {TRUE}]

Bytes(k, byte) == IF k.extended THEN <<Prefix, byte>> ELSE <<byte>>

Send(bytes) ==
  /\ Len(wire) + Len(bytes) <= Wire
  /\ wire' = wire \o bytes
  /\ UNCHANGED <<heapVars, at, kout, pe, e, mem, queueVars, seen, past>>

Press(k) ==
  /\ k \notin held
  /\ held' = held \cup {k} /\ struck' = struck \cup {k.code}
  /\ Send(Bytes(k, k.code))

Release(k) ==
  /\ k \in held
  /\ held' = held \ {k} /\ struck' = struck \ {k.code}
  /\ Send(Bytes(k, k.code + 128))

(* A key held down repeats its byte. *)
Repeat(k) ==
  /\ k \in held
  /\ held' = held /\ struck' = struck \cup {k.code}
  /\ Send(Bytes(k, k.code))

-----------------------------------------------------------------------------
(* Three words of an object: the first is read as a payload, the second is *)
(* a node's prev and an event's time, the third a node's ev and an event's *)
(* event.                                                                  *)
Fresh == [w0 |-> Blank, w4 |-> Unset, w8 |-> Unset]

Object(m, p) == IF p \in DOMAIN m THEN m[p] ELSE Fresh

Store(m, p, words) == [a \in DOMAIN m \cup {p} |-> IF a = p THEN words ELSE m[a]]

(* What s2_MemoryAlloc has just returned. *)
Allocated ==
  IF owned' = owned THEN NULL ELSE CHOOSE p \in {b.ptr : b \in owned' \ owned} : TRUE

(* s2_PS2KeyboardHandler up to the payload.  It does not nest in itself and*)
(* the thread waits for it to end.                                         *)
Payload ==
  /\ at = "idle" /\ wire # <<>> /\ size < MaxWaiting
  /\ Heap!MemoryAlloc(2)
  /\ kout' = Head(wire) /\ wire' = Tail(wire)
  /\ pe' = Allocated
  /\ mem' = Store(mem, pe', [Object(mem, pe') EXCEPT !.w0 = EventOf(kout')])
  /\ at' = "event"
  /\ UNCHANGED <<held, struck, e, queueVars, seen, past>>

(* Variants, each with the mistake its name tells. *)
EventTypeUnset(m, p, payload) == [Object(m, p) EXCEPT !.w4 = 0, !.w8 = payload]

LinkedIfAlone(m) == IF size = 1 THEN [m EXCEPT ![front].w4 = rear] ELSE m

(* ev_type, S2_EPS2KEYBOARD, is 0, and so is time. *)
NewEvent(m, p, payload) == [w0 |-> Blank, w4 |-> 0, w8 |-> payload]

(* s2_AllocEvent and what is stored in the event. *)
Event ==
  /\ at = "event"
  /\ Heap!MemoryAlloc(12)
  /\ e' = Allocated
  /\ mem' = Store(mem, e', NewEvent(mem, e', pe))
  /\ at' = "node"
  /\ UNCHANGED <<board, kout, pe, queueVars, seen, past>>

(* s2_EventQueueQueue behind another: rear->prev = n; n->next = rear. *)
Linked(m, n) ==
  [m EXCEPT ![rear].w4 = n, ![n].w0 = IF rear = NULL THEN Blank ELSE AddressBytes]

(* s2_DispatchEvent *)
Node ==
  /\ at = "node"
  /\ Heap!MemoryAlloc(12)
  /\ LET n == Allocated
         m == Store(mem, n, [Object(mem, n) EXCEPT !.w8 = e])
     IN  IF size = 0 THEN front' = n /\ mem' = m /\ UNCHANGED rear
                     ELSE mem' = Linked(m, n) /\ rear' = n /\ UNCHANGED front
  /\ size' = size + 1
  /\ at' = "idle"
  /\ sent' = Append(sent, EventOf(kout))
  /\ crowded' = (crowded \/ (size > 0 /\ refused' > 0))
  /\ UNCHANGED <<board, kout, pe, e, seen, last, lost>>

(* s2_EventQueueDequeue with two waiting: front->prev = rear. *)
FrontLinked(m) == IF size = 2 THEN [m EXCEPT ![front].w4 = rear] ELSE m

(* The objects that pointers lead to; of the others nobody reads again. *)
Reachable(m, from) ==
  LET Step(S) == S \cup UNION {{m[a].w4, m[a].w8} \cap DOMAIN m : a \in S}
  IN  Step(Step(Step(from)))

(* s2_EventAwait, and its caller looking at the event. *)
EventAwait ==
  /\ at = "idle" /\ size > 0
  /\ LET m    == FrontLinked(mem)
         n    == Object(m, front)
         ev   == Object(m, n.w8)
         read == Object(m, ev.w8).w0
     IN  /\ front' = n.w4
         /\ mem' = [a \in Reachable(m, {NULL, rear, n.w4} \cap DOMAIN m) |-> m[a]]
         /\ last' = [sent |-> Head(sent), read |-> read]
         /\ lost' = (lost \/ read # Head(sent))
         /\ seen' = IF read.pressed THEN seen \cup {read.key} ELSE seen \ {read.key}
  /\ size' = size - 1 /\ sent' = Tail(sent)
  /\ UNCHANGED <<heapVars, board, at, kout, pe, e, rear, crowded>>

-----------------------------------------------------------------------------
(* The words at address 0 are those of the BIOS vectors, never 0 here. *)
Init ==
  /\ Heap!Init
  /\ held = {} /\ struck = {} /\ wire = <<>> /\ at = "idle" /\ kout = 0 /\ pe = NULL /\ e = NULL
  /\ mem = [a \in {NULL} |-> [w0 |-> AddressBytes, w4 |-> Unset, w8 |-> Unset]]
  /\ front = NULL /\ rear = NULL /\ size = 0 /\ seen = {}
  /\ sent = <<>> /\ last = [sent |-> Blank, read |-> Blank]
  /\ lost = FALSE /\ crowded = FALSE

Next ==
  \/ \E k \in Keyboard : Press(k) \/ Release(k) \/ Repeat(k)
  \/ Payload \/ Event \/ Node \/ EventAwait

Spec == Init /\ [][Next]_vars

-----------------------------------------------------------------------------
(* As long as the heap refuses nothing every event is read as it was sent  *)
(* and in order, through three objects of its own; and if only one waits at*)
(* a time even an exhausted heap (events.c:58 looks at no NULL) shows the  *)
(* thread nothing but the event sent or the release of a key 0, which no   *)
(* keyboard sends.                                                         *)
EventsTrue ==
  /\ refused = 0 => ~lost
  /\ ~crowded => last.read \in {last.sent, Blank}

(* While only one waits at a time, the first event that is not read as it  *)
(* was sent is the last key the kernel knows of: nothing is freed, so every*)
(* later one is refused its memory too.                                    *)
LostForGood == lost /\ ~crowded => last.read = Blank

(* Once every byte has been handled and every event read, and nothing was  *)
(* refused, the thread knows of every code what its last stroke was:       *)
(* neither the decoding of ps2_keyboard.c:9-18, repeats and prefixes       *)
(* included, nor the queue invents or loses one.  So some key of a code it *)
(* holds for down is down; and a key that is down it knows of if no other  *)
(* key has its code.  Of two that share one, as the prefix is dropped, the *)
(* release of either hides the other.                                      *)
KeysKnown ==
  wire = <<>> /\ at = "idle" /\ size = 0 /\ refused = 0 =>
    /\ seen = struck
    /\ \A c \in seen : \E k \in held : k.code = c
    /\ \A k \in held : (\A l \in Keyboard : l.code = k.code => l = k) => k.code \in seen
=============================================================================
