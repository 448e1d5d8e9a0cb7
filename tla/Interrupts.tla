------------------------------ MODULE Interrupts ------------------------------
(***************************************************************************)
(* Hardware interrupts as idt.c, irq.asm and irq_handlers.c handle them:   *)
(* two 8259 controllers in their default fully nested mode, interrupt gates*)
(* that clear IF, one C handler per line that ends with a non-specific EOI,*)
(* and s2_MemoryAlloc, whose cli and sti also run inside the keyboard      *)
(* handler.  The interrupted thread allocates too.                         *)
(***************************************************************************)
EXTENDS Naturals, Sequences, FiniteSets

CONSTANTS
  Lines,          \* the lines that devices drive
  MaxRaised,      \* bound: requests of each line
  MaxRefused      \* bound: requests of the thread that s2_MemoryAlloc refuses

ASSUME LinesAssumption == Lines \subseteq (0..15) \ {2}
ASSUME BoundsAssumption == MaxRaised \in Nat /\ MaxRefused \in Nat

VARIABLES
  irr,      \* lines whose request is latched
  isr,      \* in-service bits; 2 is the master's bit for the slave
  ifl,      \* the processor's interrupt flag
  frames,   \* interrupted activations, the innermost last
  thread,   \* the thread: "runs", or in "alloc"
  raised,   \* requests made so far, by line
  refused   \* requests of the thread answered with NULL

vars == <<irr, isr, ifl, frames, thread, raised, refused>>

Cascade == 2
MasterBit(l) == IF l >= 8 THEN Cascade ELSE l
Bits(l) == IF l >= 8 THEN {Cascade, l} ELSE {l}

(* What the handler of a line does, as far as interrupts are concerned:    *)
(* "enter" and "leave" are the cli and the sti of s2_MemoryAlloc.          *)
KeyboardHandler == <<"enter", "leave", "enter", "leave", "enter", "leave",
                     "eoi_master", "iret">>
MasterHandler   == <<"eoi_master", "iret">>
SlaveHandler    == <<"eoi_slave", "eoi_master", "iret">>
AtaSecondary    == <<"cli", "sti", "eoi_slave", "eoi_master", "iret">>

(* Variants, each with the mistake its name tells. *)
HandlerSansSlaveEoi(l) ==
  IF l = 1 THEN KeyboardHandler ELSE MasterHandler

HandlerWithEarlyEoi(l) ==
  CASE l = 1  -> <<"enter", "leave", "eoi_master", "enter", "leave", "enter",
                   "leave", "iret">>
    [] l = 15 -> AtaSecondary
    [] l \in 8..14 -> SlaveHandler
    [] OTHER  -> MasterHandler

Handler(l) ==
  CASE l = 1  -> KeyboardHandler
    [] l = 15 -> AtaSecondary
    [] l \in 8..14 -> SlaveHandler
    [] OTHER  -> MasterHandler

Op(f) == Handler(f.line)[f.at]

(* The step of a handler that takes its master bit, or its own, out of     *)
(* service is still to come.                                               *)
Before(f, op) == \E k \in f.at..Len(Handler(f.line)) : Handler(f.line)[k] = op

Top == frames[Len(frames)]

-----------------------------------------------------------------------------
Init ==
  /\ irr = {} /\ isr = {}
  /\ ifl = TRUE              \* load_idt ends with sti
  /\ frames = <<>>
  /\ thread = "runs"
  /\ raised = [l \in Lines |-> 0]
  /\ refused = 0

(* A device raises its line; an edge while one is latched adds nothing. *)
Raise(l) ==
  /\ raised[l] < MaxRaised /\ l \notin irr
  /\ raised' = [raised EXCEPT ![l] = @ + 1]
  /\ irr' = irr \cup {l}
  /\ UNCHANGED <<isr, ifl, frames, thread, refused>>

(* Fully nested: a line waits for every line in service on its controller  *)
(* that is of its own or a higher priority, and slave lines for the master *)
(* as its line 2.                                                          *)
Unblocked(l) ==
  /\ \A b \in isr : b < 8 => MasterBit(l) < b
  /\ l >= 8 => \A b \in isr : b >= 8 => l < b

Foremost(l) ==
  /\ l \in irr /\ Unblocked(l)
  /\ \A k \in irr : Unblocked(k) =>
       \/ MasterBit(l) < MasterBit(k)
       \/ MasterBit(l) = MasterBit(k) /\ l <= k

(* The gate of vector 32 + l, an interrupt gate (type_attr 0x8e), and the  *)
(* stub irq<l>.                                                            *)
Enter(l) ==
  /\ ifl /\ Foremost(l)
  /\ irr' = irr \ {l}
  /\ isr' = isr \cup Bits(l)
  /\ ifl' = FALSE
  /\ frames' = Append(frames, [line |-> l, at |-> 1])
  /\ UNCHANGED <<thread, raised, refused>>

-----------------------------------------------------------------------------
Advance == frames' = [frames EXCEPT ![Len(frames)].at = @ + 1]

(* A non-specific EOI ends the service of the highest priority. *)
Eoi(bits) ==
  isr' = isr \ {b \in isr \cap bits : \A c \in isr \cap bits : b <= c}

HandlerEoi ==
  /\ \/ Op(Top) = "eoi_master" /\ Eoi(0..7)
     \/ Op(Top) = "eoi_slave"  /\ Eoi(8..15)
  /\ Advance
  /\ UNCHANGED ifl

(* s2_MemoryAlloc in the handler; sti is missing where it returns NULL. *)
HandlerFlag ==
  /\ \/ Op(Top) \in {"enter", "cli"} /\ ifl' = FALSE
     \/ Op(Top) \in {"leave", "sti"} /\ ifl' = TRUE
     \/ Op(Top) = "leave" /\ UNCHANGED ifl
  /\ Advance
  /\ UNCHANGED isr

IretKeepsFlag ==
  /\ Op(Top) = "iret"
  /\ frames' = SubSeq(frames, 1, Len(frames) - 1)
  /\ UNCHANGED <<ifl, isr>>

(* iret restores the flag, which was set when the interrupt was taken. *)
Iret ==
  /\ Op(Top) = "iret"
  /\ frames' = SubSeq(frames, 1, Len(frames) - 1)
  /\ ifl' = TRUE
  /\ UNCHANGED isr

Handle ==
  /\ frames # <<>>
  /\ HandlerEoi \/ HandlerFlag \/ Iret
  /\ UNCHANGED <<irr, thread, raised, refused>>

-----------------------------------------------------------------------------
ThreadAllocSansCli ==
  /\ frames = <<>> /\ thread = "runs"
  /\ thread' = "alloc"
  /\ UNCHANGED <<irr, isr, ifl, frames, raised, refused>>

ThreadAlloc ==
  /\ frames = <<>> /\ thread = "runs"
  /\ thread' = "alloc" /\ ifl' = FALSE
  /\ UNCHANGED <<irr, isr, frames, raised, refused>>

ThreadGranted ==
  /\ frames = <<>> /\ thread = "alloc"
  /\ thread' = "runs" /\ ifl' = TRUE
  /\ UNCHANGED <<irr, isr, frames, raised, refused>>

ThreadRefused ==
  /\ frames = <<>> /\ thread = "alloc" /\ refused < MaxRefused
  /\ thread' = "runs" /\ refused' = refused + 1
  /\ UNCHANGED <<irr, isr, ifl, frames, raised>>

Interrupt == \E l \in Lines : Enter(l)

Next ==
  \/ \E l \in Lines : Raise(l)
  \/ Interrupt
  \/ Handle
  \/ ThreadAlloc \/ ThreadGranted \/ ThreadRefused

(* The processor goes on with a handler and with s2_MemoryAlloc, and takes *)
(* a pending interrupt at some instruction at which the flag is set, even  *)
(* if cli clears it again and again.                                       *)
Fairness ==
  /\ WF_vars(Handle)
  /\ WF_vars(ThreadGranted)
  /\ SF_vars(Interrupt)

Spec == Init /\ [][Next]_vars /\ Fairness

-----------------------------------------------------------------------------
(* The controllers, the flag and the activations keep their types; a       *)
(* handler is never taken up beyond its iret.                              *)
TypeOK ==
  /\ irr \subseteq Lines
  /\ isr \subseteq Lines \cup {Cascade}
  /\ ifl \in BOOLEAN
  /\ frames \in Seq([line : Lines, at : 1..8])
  /\ thread \in {"runs", "alloc"}
  /\ raised \in [Lines -> 0..MaxRaised]
  /\ refused \in 0..MaxRefused

(* The bits in service are those of the handlers that have not yet sent    *)
(* the EOI for them: no non-specific EOI of irq_handlers.c ends the service*)
(* of another line, though handlers nest after the sti inside them.        *)
InServiceIsStacked ==
  /\ TypeOK
  /\ isr \cap (0..7) = {MasterBit(frames[i].line) :
       i \in {j \in DOMAIN frames : Before(frames[j], "eoi_master")}}
  /\ isr \cap (8..15) = {frames[i].line :
       i \in {j \in DOMAIN frames : Before(frames[j], "eoi_slave")}}

(* A line interrupts a handler of its own, which the stack must then hold  *)
(* besides it, only where an sti inside the handler let it (the allocations*)
(* of line 1 and irq_handlers.c:104 of line 15) and when nothing is left of*)
(* the first but its iret: so a key event is dispatched whole before the   *)
(* next, although interrupts are on between its allocations.               *)
NestsOnlyAtIret ==
  \A i, j \in DOMAIN frames :
    i < j /\ frames[i].line = frames[j].line =>
      Op(frames[i]) = "iret" /\ frames[i].line \in {1, 15}

(* The activations that are between the cli and the sti of s2_MemoryAlloc. *)
InAllocator ==
  {i \in DOMAIN frames : Op(frames[i]) = "leave"}
    \cup {0 : t \in {thread} \cap {"alloc"}}

(* s2_MemoryAlloc is never entered while another activation is inside it:  *)
(* an allocation is atomic for the heap, in the thread and in handlers.    *)
AllocatorExclusive ==
  /\ Cardinality(InAllocator) <= 1
  /\ \A i \in InAllocator : i = Len(frames)

(* Interrupts are off in the running thread only if s2_MemoryAlloc refused *)
(* the thread a block: what a handler does to the flag, a refusal included,*)
(* does not outlive the handler.                                           *)
ThreadInterruptible ==
  frames = <<>> /\ thread = "runs" /\ ~ifl => refused > 0

(* Every request of a device is eventually served, as long as the thread   *)
(* is refused no block.                                                    *)
EveryRequestServed == \A l \in Lines : (l \in irr) ~> (l \notin irr \/ refused > 0)
=============================================================================
