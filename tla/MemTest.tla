-------------------------------- MODULE MemTest --------------------------------
(***************************************************************************)
(* s2_MemoryTest of src/kmain.c, the kernel's own test of its heap, run on *)
(* the allocator of MemManager.  A step of the script allocates or frees   *)
(* under the name of the C variable; a comparison that fails prints two    *)
(* addresses, each in a text of its own that is allocated and never freed. *)
(***************************************************************************)
EXTENDS MemManager

VARIABLES
  pc,      \* the next step of the script
  hold,    \* the C variables a to e: the pointer each one has
  failed   \* the tests whose line says FAILED

testVars == <<heap, owned, merged, wrapped, refused, memleaks, intr, halted, astray,
              pc, hold, failed>>

Script ==
  << [do |-> "alloc", var |-> "a", size |-> 200],
     [do |-> "alloc", var |-> "b", size |-> 100],
     [do |-> "free",  var |-> "b", size |-> 0],
     [do |-> "alloc", var |-> "c", size |-> 50],
     [do |-> "alloc", var |-> "d", size |-> 100],
     [do |-> "free",  var |-> "d", size |-> 0],
     [do |-> "free",  var |-> "c", size |-> 0],
     [do |-> "alloc", var |-> "e", size |-> 150],
     [do |-> "free",  var |-> "e", size |-> 0] >>

NULL == 0

InitTest ==
  /\ Init
  /\ pc = <<1, 0>>
  /\ hold = [v \in {"a", "b", "c", "d", "e"} |-> NULL]
  /\ failed = {}

(* The comparison after a step, and the name it is printed under. *)
Verdict(n, h) ==
  CASE n = 1 /\ h["a"] - HeaderSize # HeapStart -> {"Root Entry"}
    [] n = 4 /\ h["b"] # h["c"]                 -> {"Pre-Made Node"}
    [] n = 5 /\ h["d"] - 100 = h["b"]           -> {"New-Node"}
    [] n = 8 /\ h["e"] # h["b"]                 -> {"Merge-Node"}
    [] OTHER                                    -> {}

(* pc[2] texts of addresses are still to be allocated before step pc[1]. *)
AllocStep(s) ==
  /\ s.do = "alloc"
  /\ Granted(s.size)
  /\ \E b \in owned' \ owned :
       LET h == [hold EXCEPT ![s.var] = b.ptr]
           v == Verdict(pc[1], h)
       IN /\ hold' = h
          /\ failed' = failed \cup v
          /\ pc' = <<pc[1] + 1, IF v = {} THEN 0 ELSE 2>>
  /\ UNCHANGED halted

FreeStep(s) ==
  /\ s.do = "free"
  /\ \E b \in owned : b.ptr = hold[s.var] /\ MemoryFree(b)
  /\ pc' = <<pc[1] + 1, 0>>
  /\ failed' = failed \cup
       {t \in {"Free memory"} : s.var = "e" /\ \E i \in DOMAIN heap' :
          heap'[i].addr + HeaderSize = hold["e"] /\ heap'[i].alloc}
  /\ UNCHANGED hold

PrintAddress ==
  /\ pc[2] > 0
  /\ MemoryAlloc(HexSize)
  /\ pc' = <<pc[1], pc[2] - 1>>
  /\ UNCHANGED <<hold, failed>>

NextTest ==
  \/ PrintAddress
  \/ /\ pc[2] = 0
     /\ pc[1] \in DOMAIN Script
     /\ AllocStep(Script[pc[1]]) \/ FreeStep(Script[pc[1]])

SpecTest == InitTest /\ [][NextTest]_testVars

-----------------------------------------------------------------------------
(* What s2_MemoryTest expects of the allocator (kmain.c:103-152): the first*)
(* block is the root entry's, a freed block answers a smaller request, a   *)
(* new entry lies beyond the one before, and two freed neighbours are      *)
(* merged into the lower one for a request bigger than either.             *)
MemoryTestPasses == failed = {}
=============================================================================
