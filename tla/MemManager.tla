------------------------------ MODULE MemManager ------------------------------
(***************************************************************************)
(* The kernel heap of src/mem/manager.c: a list of memory entries laid out *)
(* one after the other from heap_start, each a 20-byte header followed by  *)
(* its block.  The list is only ever extended at its end, so it is modelled*)
(* as the sequence of the entries that next leads through.  Every          *)
(* allocation runs between cli and sti and is one step.                    *)
(***************************************************************************)
EXTENDS Integers, Sequences, FiniteSets

CONSTANTS
  HeapStart,   \* heap_start: address of the root entry
  MemCap,      \* S2_MEMCAP: bytes the heap may span
  RootSize,    \* size of the root entry's block
  Word,        \* 2^32: where unsigned arithmetic wraps
  Sizes,       \* the sizes callers ask for
  MaxEntries,  \* bound: entries of the list
  MaxRefused   \* bound: requests answered with NULL

HeaderSize == 20          \* sizeof(s2_MemoryEntry) on i686
HexSize    == 9           \* bytes s2_ToHex allocates for its text
Cap        == HeapStart + MemCap
Requests   == Sizes \cup {HexSize}

(* A request is any unsigned number: iso9660.c:105 asks for a size it has  *)
(* read off a disc.  With a cap at 138 MB, 21 times the cap is below 2^32, *)
(* and 2^32 is no multiple of 5.                                           *)
ASSUME LayoutAssumption ==
  /\ HeapStart \in Nat \ {0} /\ MemCap \in Nat
  /\ RootSize \in Nat /\ HeaderSize + RootSize <= MemCap
  /\ Word \in Nat /\ Word % 5 # 0
  /\ (HeaderSize + 1) * (Cap + 2 * HeaderSize) < Word
  /\ Sizes \subseteq 0..(Word - 1)

ASSUME BoundAssumption == MaxEntries \in Nat \ {0} /\ MaxRefused \in Nat

VARIABLES
  heap,      \* the list from rootEntry: address, size and S2_MEMFLAG_ISALLOC
  owned,     \* the blocks callers hold: pointer and length asked for
  merged,    \* history: pointers of the entries a merge has resized
  wrapped,   \* history: pointers of the entries whose test against the cap
             \* wrapped around
  refused,   \* history: requests answered with NULL
  memleaks,  \* the counter of the same name
  intr,      \* the interrupt flag as the last caller left it
  halted,    \* cli; hlt was executed: nothing runs any more
  astray     \* a header was written below address 0, that is, anywhere

vars == <<heap, owned, merged, wrapped, refused, memleaks, intr, halted, astray>>

Entry == [addr : Nat, size : Nat, alloc : BOOLEAN]
Block == [ptr : Nat, len : Nat]
Last  == heap[Len(heap)]
Ptr(i) == heap[i].addr + HeaderSize

-----------------------------------------------------------------------------
(* s2_InitMemoryAllocator *)
Init ==
  /\ heap = <<[addr |-> HeapStart, size |-> RootSize, alloc |-> FALSE]>>
  /\ owned = {}
  /\ merged = {} /\ wrapped = {}
  /\ refused = 0
  /\ memleaks = 0
  /\ intr = TRUE
  /\ halted = FALSE /\ astray = FALSE

(* Variants of definitions below, each with the mistake its name tells;    *)
(* PROJECT.json says which property rejects each of them.                  *)
CapTestOfLastOnly(size) ==
  (Last.addr + HeaderSize * Last.size) % Word > Cap

NewAddrSansHeader == Last.addr + Last.size

(* The walk of s2_MemoryAlloc: the first free entry that fits, and the     *)
(* biggest free entry, the later one of equals.                            *)
Free == {i \in DOMAIN heap : ~heap[i].alloc}

Fitting(size) == {i \in Free : heap[i].size >= size}

FirstFit(i, size) == i \in Fitting(size) /\ \A j \in Fitting(size) : i <= j

BiggestFree(i) ==
  /\ i \in Free
  /\ \A j \in Free : \/ heap[j].size < heap[i].size
                     \/ heap[j].size = heap[i].size /\ j <= i

(* Where a merge begins; the last entry stands for none that is free.      *)
MergeFrom ==
  IF Free = {} THEN {Len(heap)} ELSE {i \in Free : BiggestFree(i)}

(* s2_MemoryMergeIfPossible reads next->flags.  Past the last entry next is*)
(* NULL and the byte read is that of the BIOS vector at address 16, whose  *)
(* bit 0 is set: it reads as allocated.                                    *)
NextIsFree(i) == i < Len(heap) /\ ~heap[i + 1].alloc

(* The number that is x when it is multiplied by 5 modulo Word.            *)
Fifth(x) ==
  LET t == CHOOSE t \in 0..4 : (x + Word * t) % 5 = 0
  IN  ((x + Word * t) \div 5) % Word

(* entry - eIter counts headers from eIter back to entry, is negative, and *)
(* is kept as unsigned.  The division by 20, exact between elements of one *)
(* array, is built as a shift by two and a multiplication by the inverse of*)
(* 5, whatever the distance is.                                            *)
MergedSize(i, k) ==
  (Fifth((heap[i].addr - heap[k].addr) \div 4) - HeaderSize) % Word

(* The loop of s2_MemoryMergeIfPossible goes from entry i over the free    *)
(* entries behind it and stops at entry k: the size is enough, or no free  *)
(* entry follows.                                                          *)
StopsAt(i, k, size) ==
  /\ k >= i
  /\ \A j \in (i + 1)..k : ~heap[j].alloc
  /\ \A j \in (i + 1)..(k - 1) : MergedSize(i, j) < size
  /\ (k > i /\ MergedSize(i, k) >= size) \/ ~NextIsFree(k)

(* It has set entry->size, and entry->next to k: the entries between are   *)
(* unlinked, k is not.                                                     *)
Joined(i, k, isalloc) ==
  IF k = i THEN heap
  ELSE [j \in 1..(Len(heap) - (k - i - 1)) |->
          IF j < i THEN heap[j]
          ELSE IF j = i THEN [addr |-> heap[i].addr, size |-> MergedSize(i, k),
                              alloc |-> isalloc]
          ELSE heap[j + (k - i - 1)]]

(* Pointer arithmetic on lastEntry scales both sizes by the header size.   *)
ScaledEnd(size) == Last.addr + HeaderSize * (Last.size + size)

OverCap(size) == ScaledEnd(0) % Word > Cap \/ ScaledEnd(size) % Word > Cap

NewAddr == Last.addr + Last.size + HeaderSize

-----------------------------------------------------------------------------
Grant(addr, size) ==
  /\ owned' = owned \cup {[ptr |-> addr + HeaderSize, len |-> size]}
  /\ memleaks' = memleaks + 1
  /\ UNCHANGED refused

TakeFit(size) == \E i \in DOMAIN heap :
  /\ FirstFit(i, size)
  /\ heap' = [heap EXCEPT ![i].alloc = TRUE]
  /\ Grant(heap[i].addr, size)
  /\ UNCHANGED <<merged, wrapped, astray>>

(* The biggest free entry and the free ones behind it answer a request that*)
(* none answers alone.                                                     *)
Merges(i, k, size) ==
  /\ Fitting(size) = {}
  /\ BiggestFree(i)
  /\ StopsAt(i, k, size)
  /\ k > i /\ MergedSize(i, k) >= size

TakeMergeUnmarked(size) == \E i \in MergeFrom, k \in DOMAIN heap :
  /\ Merges(i, k, size)
  /\ heap' = Joined(i, k, FALSE)
  /\ merged' = merged \cup {Ptr(i)}
  /\ Grant(heap[i].addr, size)
  /\ UNCHANGED <<wrapped, astray>>

TakeMerge(size) == \E i \in MergeFrom, k \in DOMAIN heap :
  /\ Merges(i, k, size)
  /\ heap' = Joined(i, k, TRUE)
  /\ merged' = merged \cup {Ptr(i)}
  /\ Grant(heap[i].addr, size)
  /\ UNCHANGED <<wrapped, astray>>

(* No free entry answers, merged or not; a merge that was tried and is not *)
(* enough leaves the entry resized, and nothing is resized where k is i.   *)
NothingFree(i, k, size) ==
  /\ Fitting(size) = {}
  /\ \/ Free = {} /\ k = i
     \/ /\ BiggestFree(i) /\ StopsAt(i, k, size)
        /\ k > i => MergedSize(i, k) < size

Resized(i, k) == IF k > i THEN {Ptr(i)} ELSE {}

TakeNew(size) == \E i \in MergeFrom, k \in DOMAIN heap :
  /\ NothingFree(i, k, size)
  /\ ~OverCap(size)
  /\ NewAddr < Word /\ Len(heap) < MaxEntries
  /\ heap' = Append(Joined(i, k, FALSE),
                    [addr |-> NewAddr, size |-> size, alloc |-> TRUE])
  /\ merged' = merged \cup Resized(i, k)
  /\ wrapped' = IF ScaledEnd(size) < Word THEN wrapped
                ELSE wrapped \cup {NewAddr + HeaderSize}
  /\ Grant(NewAddr, size)
  /\ UNCHANGED astray

Take(size) == TakeFit(size) \/ TakeMerge(size) \/ TakeNew(size)

(* Behind a block that ends beyond the last address the next header is     *)
(* written at the first ones.  The model goes no further.                  *)
TakeAstray(size) == \E i \in MergeFrom, k \in DOMAIN heap :
  /\ NothingFree(i, k, size)
  /\ ~OverCap(size)
  /\ NewAddr >= Word
  /\ astray' = TRUE
  /\ UNCHANGED <<heap, owned, merged, wrapped, refused, memleaks>>

(* return NULL: counted as a leak, nothing taken. *)
Refuse(size) == \E i \in MergeFrom, k \in DOMAIN heap :
  /\ NothingFree(i, k, size)
  /\ OverCap(size)
  /\ refused < MaxRefused
  /\ refused' = refused + 1
  /\ memleaks' = memleaks + 1
  /\ heap' = Joined(i, k, FALSE)
  /\ merged' = merged \cup Resized(i, k)
  /\ UNCHANGED <<owned, wrapped, astray>>

(* s2_MemoryAlloc: the paths that return a block end with sti, the two that*)
(* return NULL leave interrupts off.                                       *)
Granted(size)  == (Take(size) \/ TakeAstray(size)) /\ intr' = TRUE
NotGranted(size) == Refuse(size) /\ intr' = FALSE

MemoryAlloc(size) == (Granted(size) \/ NotGranted(size)) /\ UNCHANGED halted

MemoryFreeUncounted(b) ==
  /\ heap' = [i \in DOMAIN heap |->
                IF heap[i].addr + HeaderSize = b.ptr
                THEN [heap[i] EXCEPT !.alloc = FALSE] ELSE heap[i]]
  /\ owned' = owned \ {b}
  /\ UNCHANGED <<merged, wrapped, refused, memleaks, intr, halted, astray>>

(* s2_MemoryFree of a block its caller holds.  (Freed a second time, a     *)
(* pointer passes the test of the magic: no caller in the kernel does so.) *)
MemoryFree(b) ==
  /\ heap' = [i \in DOMAIN heap |->
                IF heap[i].addr + HeaderSize = b.ptr
                THEN [heap[i] EXCEPT !.alloc = FALSE] ELSE heap[i]]
  /\ owned' = owned \ {b}
  /\ memleaks' = memleaks - 1
  /\ UNCHANGED <<merged, wrapped, refused, intr, halted, astray>>

(* s2_MemoryFree of the NULL a caller was given: the address is printed,   *)
(* which allocates its text, and the machine stops.                        *)
FreeInvalid ==
  /\ refused > 0
  /\ Take(HexSize) \/ TakeAstray(HexSize) \/ Refuse(HexSize)
  /\ intr' = FALSE
  /\ halted' = TRUE

Next ==
  /\ ~halted /\ ~astray
  /\ \/ \E size \in Sizes : MemoryAlloc(size)
     \/ \E b \in owned : MemoryFree(b)
     \/ FreeInvalid

Spec == Init /\ [][Next]_vars

-----------------------------------------------------------------------------
IsMerged(i) == Ptr(i) \in merged

(* Every variable of the allocator keeps its type; the leak counter never  *)
(* wraps below zero.                                                       *)
TypeOK ==
  /\ heap \in Seq(Entry) /\ heap # <<>>
  /\ owned \subseteq Block
  /\ merged \subseteq Nat /\ wrapped \subseteq Nat
  /\ refused \in Nat
  /\ memleaks \in Nat
  /\ intr \in BOOLEAN
  /\ halted \in BOOLEAN /\ astray \in BOOLEAN

(* What callers hold is what the list says is allocated: a block is never  *)
(* handed out a second time before it is freed, no allocated entry is      *)
(* forgotten, and no block is shorter than the request it answers          *)
(* (s2_MemoryAlloc, s2_MemoryFree).                                        *)
OwnedMatchesHeap ==
  /\ \A b \in owned : \E i \in DOMAIN heap :
       b.ptr = Ptr(i) /\ heap[i].alloc /\ b.len <= heap[i].size
  /\ \A i \in DOMAIN heap :
       heap[i].alloc => \E b \in owned : b.ptr = Ptr(i)
  /\ \A b, c \in owned : b.ptr = c.ptr => b = c

(* Of two blocks callers hold, the lower ends before the header of the     *)
(* higher begins, unless a merge has resized the lower one                 *)
(* (s2_MemoryMergeIfPossible leaves the last entry it absorbs linked).     *)
DisjointUnlessMerged ==
  \A b, c \in owned :
    b.ptr < c.ptr /\ b.ptr \notin merged => b.ptr + b.len + HeaderSize <= c.ptr

(* The test of manager.c:74-75 against S2_MEMCAP, of twenty times the sizes*)
(* and modulo 2^32, is wrong exactly where it wraps: an entry that no merge*)
(* resized ends beyond the cap if its test wrapped, and else below it, but *)
(* for entries of at most two bytes, which the test sees without their     *)
(* headers.                                                                *)
BelowCapUnlessWrapped ==
  \A i \in DOMAIN heap : ~IsMerged(i) =>
    LET end == Ptr(i) + heap[i].size
    IN  IF Ptr(i) \in wrapped THEN end > Cap
        ELSE end <= Cap \/ (heap[i].size <= 2 /\ end <= Cap + 2 * HeaderSize)

(* memleaks counts the blocks not given back plus the requests that were   *)
(* answered with NULL, which no free ever takes back.                      *)
LeakCount == memleaks = Cardinality(owned) + refused

(* Documented at manager.h:45, "The memory chunk is passed via param hence *)
(* can be used if operation succeeded": a merged block is like any other   *)
(* and overlaps nobody.                                                    *)
NoOverlap ==
  \A b, c \in owned : b.ptr < c.ptr => b.ptr + b.len <= c.ptr

(* The list is laid out upwards, and an unmerged entry ends where the next *)
(* header begins or below it.                                              *)
HeapLaidOut ==
  \A i, j \in DOMAIN heap : i < j =>
    /\ heap[i].addr + HeaderSize <= heap[j].addr
    /\ ~IsMerged(i) => heap[i].addr + HeaderSize + heap[i].size <= heap[j].addr

(* The last entry, from which the next is placed and tested, has never been*)
(* merged.                                                                 *)
LastUnmerged ==
  /\ \A p \in merged : p < Ptr(Len(heap))
  /\ \A p \in wrapped : p <= Ptr(Len(heap))

(* The inductive invariant of the heap, which its theorems are proved from.*)
HeapInv ==
  /\ TypeOK
  /\ OwnedMatchesHeap
  /\ HeapLaidOut
  /\ LastUnmerged
  /\ BelowCapUnlessWrapped
  /\ IsFiniteSet(owned) /\ LeakCount
=============================================================================
