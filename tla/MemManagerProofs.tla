---------------------------- MODULE MemManagerProofs ----------------------------
(***************************************************************************)
(* Theorems about the kernel heap, for every layout, every set of request  *)
(* sizes and every bound.  HeapInv is inductive; the properties of the     *)
(* blocks callers hold follow from it.                                     *)
(***************************************************************************)
EXTENDS MemManager, FiniteSetTheorems, SequenceTheorems, TLAPS

USE DEF HeaderSize, HexSize

(* A sum that stays below Word is what 32-bit arithmetic computes. *)
LEMMA WordFits ==
  ASSUME NEW x \in Nat, NEW w \in Nat, x < w
  PROVE  x % w = x
  BY SMT

(* What the layout assumption says of the numbers. *)
LEMMA LayoutFacts ==
  /\ HeapStart \in Nat /\ MemCap \in Nat /\ Word \in Nat /\ RootSize \in Nat
  /\ HeapStart > 0 /\ HeaderSize + RootSize <= MemCap
  /\ Cap \in Nat /\ Cap = HeapStart + MemCap
  /\ 21 * (Cap + 40) < Word /\ Word % 5 # 0
  /\ Requests \subseteq Nat
  BY LayoutAssumption DEF LayoutAssumption, Requests, Cap

(* What the multiplication by the inverse of 5 gives is a number again. *)
LEMMA FifthNat ==
  ASSUME NEW x \in Int
  PROVE  Fifth(x) \in Nat
  <1> DEFINE P(t) == (x + Word * t) % 5 = 0
             t == CHOOSE t \in 0..4 : P(t)
  <1>1. PICK w \in Nat : w = Word /\ w % 5 # 0 /\ w > 0
    BY LayoutFacts
  <1>2. (x + w * 0) % 5 = 0 \/ (x + w * 1) % 5 = 0 \/ (x + w * 2) % 5 = 0
        \/ (x + w * 3) % 5 = 0 \/ (x + w * 4) % 5 = 0
    BY <1>1, SMT
  <1>3. \E s \in 0..4 : P(s)
    <2>1. 0 \in 0..4 /\ 1 \in 0..4 /\ 2 \in 0..4 /\ 3 \in 0..4 /\ 4 \in 0..4
      OBVIOUS
    <2>2. P(0) \/ P(1) \/ P(2) \/ P(3) \/ P(4)
      BY <1>1, <1>2
    <2> QED BY <2>1, <2>2, Zenon
  <1>4. t \in 0..4
    BY <1>3
  <1> HIDE DEF t
  <1>5. x + w * t \in Int
    BY <1>1, <1>4
  <1>6. ((x + w * t) \div 5) % w \in Nat
    <2>1. PICK q \in Int : q = (x + w * t) \div 5
      BY <1>5
    <2>2. q % w \in Nat
      BY <1>1
    <2> QED BY <2>1, <2>2
  <1> QED BY <1>1, <1>6 DEF Fifth, t

(* The list is a non-empty array of entries. *)
LEMMA HeapShape ==
  ASSUME TypeOK
  PROVE  /\ Len(heap) \in Nat /\ Len(heap) >= 1
         /\ DOMAIN heap = 1..Len(heap)
         /\ Len(heap) \in DOMAIN heap
         /\ \A i \in DOMAIN heap : /\ heap[i] \in Entry
                                   /\ heap[i].addr \in Nat
                                   /\ heap[i].size \in Nat
                                   /\ heap[i].alloc \in BOOLEAN
                                   /\ Ptr(i) \in Nat
         /\ Last \in Entry
  <1>1. heap \in Seq(Entry) /\ heap # <<>>
    BY DEF TypeOK
  <1>2. Len(heap) \in Nat /\ DOMAIN heap = 1..Len(heap) /\ Len(heap) # 0
    BY <1>1, EmptySeq, LenProperties
  <1>3. \A i \in DOMAIN heap : heap[i] \in Entry
    BY <1>1, ElementOfSeq, <1>2
  <1> QED BY <1>2, <1>3 DEF Entry, Ptr, Last

(* Wherever a merge begins is an entry of the list. *)
LEMMA MergeEntry == TypeOK => MergeFrom \subseteq DOMAIN heap
  BY HeapShape DEF MergeFrom, Free

(* Distinct entries have distinct pointers, in the order of the list. *)
LEMMA Distinct ==
  ASSUME TypeOK, HeapLaidOut, NEW i \in DOMAIN heap, NEW j \in DOMAIN heap
  PROVE  /\ Ptr(i) = Ptr(j) => i = j
         /\ Ptr(i) < Ptr(j) => i < j
  <1>1. i \in Int /\ j \in Int /\ heap[i].addr \in Nat /\ heap[j].addr \in Nat
    BY HeapShape
  <1>2. i < j => heap[i].addr + HeaderSize <= heap[j].addr
    BY DEF HeapLaidOut
  <1>3. j < i => heap[j].addr + HeaderSize <= heap[i].addr
    BY DEF HeapLaidOut
  <1> QED BY <1>1, <1>2, <1>3 DEF Ptr

-----------------------------------------------------------------------------
(* The single entry of s2_InitMemoryAllocator satisfies the invariant. *)
LEMMA InitInv == Init => HeapInv
  <1> SUFFICES ASSUME Init PROVE HeapInv
    OBVIOUS
  <1> USE DEF Init
  <1>1. DOMAIN heap = {1} /\ heap[1] = [addr |-> HeapStart, size |-> RootSize, alloc |-> FALSE]
        /\ Len(heap) = 1
    OBVIOUS
  <1>2. TypeOK
    <2>1. [addr |-> HeapStart, size |-> RootSize, alloc |-> FALSE] \in Entry
      BY LayoutFacts DEF Entry
    <2>2. heap \in Seq(Entry) /\ heap # <<>>
      BY <2>1
    <2> QED BY <2>2 DEF TypeOK
  <1>3. OwnedMatchesHeap
    BY <1>1 DEF OwnedMatchesHeap
  <1>4. HeapLaidOut
    BY <1>1 DEF HeapLaidOut
  <1>5. LastUnmerged /\ BelowCapUnlessWrapped
    BY <1>1, LayoutFacts DEF LastUnmerged, BelowCapUnlessWrapped, Ptr, IsMerged
  <1>6. IsFiniteSet(owned) /\ LeakCount
    BY FS_EmptySet DEF LeakCount
  <1> QED BY <1>2, <1>3, <1>4, <1>5, <1>6 DEF HeapInv

-----------------------------------------------------------------------------
(* Marking a free entry allocated and giving its block away keeps what     *)
(* callers hold equal to what the list says; the block was nobody's.       *)
LEMMA TakenMatches ==
  ASSUME TypeOK, OwnedMatchesHeap, HeapLaidOut,
         NEW i \in DOMAIN heap, ~heap[i].alloc,
         NEW size \in Nat,
         DOMAIN heap' = DOMAIN heap,
         \A j \in DOMAIN heap : j # i => heap'[j] = heap[j],
         heap'[i].addr = heap[i].addr, heap'[i].alloc, size <= heap'[i].size,
         owned' = owned \cup {[ptr |-> Ptr(i), len |-> size]}
  PROVE  OwnedMatchesHeap' /\ [ptr |-> Ptr(i), len |-> size] \notin owned
  <1> DEFINE nb == [ptr |-> Ptr(i), len |-> size]
  <1>1. \A j \in DOMAIN heap : Ptr(j)' = Ptr(j)
    BY DEF Ptr
  <1>2. \A b \in owned : b.ptr # Ptr(i)
    BY Distinct DEF OwnedMatchesHeap
  <1>3. \A b \in owned' : \E j \in DOMAIN heap' :
           b.ptr = Ptr(j)' /\ heap'[j].alloc /\ b.len <= heap'[j].size
    <2> SUFFICES ASSUME NEW b \in owned'
                 PROVE  \E j \in DOMAIN heap' :
                          b.ptr = Ptr(j)' /\ heap'[j].alloc /\ b.len <= heap'[j].size
      OBVIOUS
    <2>1. CASE b = nb
      BY <2>1, <1>1
    <2>2. CASE b \in owned
      <3>1. PICK j \in DOMAIN heap :
              b.ptr = Ptr(j) /\ heap[j].alloc /\ b.len <= heap[j].size
        BY <2>2 DEF OwnedMatchesHeap
      <3> QED BY <3>1, <1>1
    <2> QED BY <2>1, <2>2
  <1>4. \A j \in DOMAIN heap' : heap'[j].alloc => \E b \in owned' : b.ptr = Ptr(j)'
    <2> SUFFICES ASSUME NEW j \in DOMAIN heap', heap'[j].alloc
                 PROVE  \E b \in owned' : b.ptr = Ptr(j)'
      OBVIOUS
    <2>1. CASE j = i
      <3>1. nb \in owned' /\ nb.ptr = Ptr(j)'
        BY <2>1, <1>1
      <3> QED BY <3>1
    <2>2. CASE j # i
      BY <2>2, <1>1 DEF OwnedMatchesHeap
    <2> QED BY <2>1, <2>2
  <1>5. \A b, c \in owned' : b.ptr = c.ptr => b = c
    BY <1>2 DEF OwnedMatchesHeap
  <1> QED BY <1>2, <1>3, <1>4, <1>5 DEF OwnedMatchesHeap

(* Giving a new block away counts it. *)
LEMMA GrantCounts ==
  ASSUME TypeOK, IsFiniteSet(owned), LeakCount,
         NEW addr, NEW size, Grant(addr, size),
         [ptr |-> addr + HeaderSize, len |-> size] \notin owned
  PROVE  /\ IsFiniteSet(owned') /\ LeakCount'
         /\ memleaks' \in Nat /\ refused' \in Nat
  <1> DEFINE nb == [ptr |-> addr + HeaderSize, len |-> size]
  <1>1. /\ IsFiniteSet(owned \cup {nb})
        /\ Cardinality(owned \cup {nb}) = Cardinality(owned) + 1
    BY FS_AddElement
  <1>2. Cardinality(owned) \in Nat
    BY FS_CardinalityType
  <1>3. owned' = owned \cup {nb} /\ memleaks' = memleaks + 1 /\ refused' = refused
    BY DEF Grant
  <1> HIDE DEF nb
  <1>4. memleaks \in Nat /\ refused \in Nat
    BY DEF TypeOK
  <1>5. memleaks' = Cardinality(owned') + refused'
    BY <1>1, <1>2, <1>3, <1>4 DEF LeakCount
  <1> QED BY <1>1, <1>3, <1>4, <1>5 DEF LeakCount

-----------------------------------------------------------------------------
(* The parts of the invariant, of any list, so that they can be stated of  *)
(* the list a merge leaves before an entry is appended to it.              *)
Owns(L, O) ==
  /\ \A b \in O : \E i \in DOMAIN L :
       b.ptr = L[i].addr + HeaderSize /\ L[i].alloc /\ b.len <= L[i].size
  /\ \A i \in DOMAIN L :
       L[i].alloc => \E b \in O : b.ptr = L[i].addr + HeaderSize
  /\ \A b, c \in O : b.ptr = c.ptr => b = c

Laid(L, M) ==
  \A i, j \in DOMAIN L : i < j =>
    /\ L[i].addr + HeaderSize <= L[j].addr
    /\ L[i].addr + HeaderSize \notin M =>
         L[i].addr + HeaderSize + L[i].size <= L[j].addr

Ends(e, M, W) ==
  /\ \A p \in M : p < e.addr + HeaderSize
  /\ \A p \in W : p <= e.addr + HeaderSize

Capped(e, W) ==
  IF e.addr + HeaderSize \in W THEN e.addr + HeaderSize + e.size > Cap
  ELSE \/ e.addr + HeaderSize + e.size <= Cap
       \/ e.size <= 2 /\ e.addr + HeaderSize + e.size <= Cap + 40

Caps(L, M, W) == \A i \in DOMAIN L : L[i].addr + HeaderSize \notin M => Capped(L[i], W)

Listed(L, M, W, O) ==
  /\ L \in Seq(Entry) /\ L # <<>>
  /\ O \subseteq Block /\ M \subseteq Nat /\ W \subseteq Nat
  /\ Owns(L, O) /\ Laid(L, M) /\ Ends(L[Len(L)], M, W) /\ Caps(L, M, W)

(* Any list of entries that is not empty is a non-empty array of them. *)
LEMMA ListShape ==
  ASSUME NEW L \in Seq(Entry), L # <<>>
  PROVE  /\ Len(L) \in Nat /\ Len(L) >= 1
         /\ DOMAIN L = 1..Len(L)
         /\ Len(L) \in DOMAIN L
         /\ \A i \in DOMAIN L : /\ L[i] \in Entry
                                /\ L[i].addr \in Nat
                                /\ L[i].size \in Nat
                                /\ L[i].alloc \in BOOLEAN
  <1>1. Len(L) \in Nat /\ DOMAIN L = 1..Len(L) /\ Len(L) # 0
    BY EmptySeq, LenProperties
  <1>2. \A i \in DOMAIN L : L[i] \in Entry
    BY ElementOfSeq, <1>1
  <1> QED BY <1>1, <1>2 DEF Entry

(* They are the parts of the invariant. *)
LEMMA HeapListed == HeapInv => Listed(heap, merged, wrapped, owned)
  BY DEF HeapInv, TypeOK, OwnedMatchesHeap, HeapLaidOut, LastUnmerged,
         BelowCapUnlessWrapped, Listed, Owns, Laid, Ends, Caps, Capped, Ptr, IsMerged

(* What every way of taking a block leaves behind. *)
Taken ==
  /\ Listed(heap', merged', wrapped', owned')
  /\ memleaks' \in Nat /\ refused' \in Nat
  /\ IsFiniteSet(owned') /\ LeakCount'

(* Taking the first free entry that fits keeps the invariant. *)
LEMMA FitTakes ==
  ASSUME HeapInv, NEW size \in Requests, TakeFit(size)
  PROVE  Taken
  <1> USE DEF HeapInv
  <1>1. PICK i \in DOMAIN heap :
          /\ FirstFit(i, size)
          /\ heap' = [heap EXCEPT ![i].alloc = TRUE]
          /\ Grant(heap[i].addr, size)
          /\ UNCHANGED <<merged, wrapped, astray>>
    BY DEF TakeFit
  <1>2. ~heap[i].alloc /\ size <= heap[i].size /\ size \in Nat
    BY <1>1, LayoutFacts, HeapShape DEF FirstFit, Fitting, Free
  <1>3. /\ heap' \in Seq(Entry) /\ heap' # <<>>
        /\ DOMAIN heap' = DOMAIN heap /\ Len(heap') = Len(heap)
        /\ \A j \in DOMAIN heap : heap'[j].addr = heap[j].addr
                                 /\ heap'[j].size = heap[j].size
        /\ \A j \in DOMAIN heap : j # i => heap'[j] = heap[j]
        /\ heap'[i].alloc
    <2>1. [heap[i] EXCEPT !.alloc = TRUE] \in Entry
      BY HeapShape DEF Entry
    <2>2. heap' = [heap EXCEPT ![i] = [heap[i] EXCEPT !.alloc = TRUE]]
      BY <1>1
    <2>3. heap \in Seq(Entry) /\ heap # <<>>
      BY DEF TypeOK
    <2>4. heap' \in Seq(Entry) /\ Len(heap') = Len(heap) /\ DOMAIN heap' = DOMAIN heap
      BY <2>1, <2>2, <2>3, ExceptSeq, HeapShape
    <2> QED BY <2>1, <2>2, <2>4, HeapShape DEF Entry
  <1>4. owned' = owned \cup {[ptr |-> Ptr(i), len |-> size]}
    BY <1>1 DEF Grant, Ptr
  <1>5. /\ OwnedMatchesHeap'
        /\ [ptr |-> heap[i].addr + HeaderSize, len |-> size] \notin owned
    BY <1>2, <1>3, <1>4, TakenMatches DEF Ptr
  <1>6. IsFiniteSet(owned') /\ LeakCount' /\ memleaks' \in Nat /\ refused' \in Nat
    BY <1>1, <1>5, GrantCounts
  <1>7. owned' \subseteq Block /\ merged' \subseteq Nat /\ wrapped' \subseteq Nat
    BY <1>1, <1>2, <1>4, HeapShape DEF TypeOK, Block
  <1>8. HeapLaidOut'
    BY <1>1, <1>3 DEF HeapLaidOut, IsMerged, Ptr
  <1>9. LastUnmerged' /\ BelowCapUnlessWrapped'
    <2>1. /\ merged' = merged /\ wrapped' = wrapped
          /\ Len(heap) \in DOMAIN heap
          /\ \A j \in DOMAIN heap : Ptr(j)' = Ptr(j)
      BY <1>1, <1>3, HeapShape DEF Ptr
    <2>2. LastUnmerged'
      BY <2>1, <1>3 DEF LastUnmerged
    <2>3. BelowCapUnlessWrapped'
      BY <2>1, <1>3 DEF BelowCapUnlessWrapped, IsMerged, Cap
    <2> QED BY <2>2, <2>3
  <1>10. Listed(heap', merged', wrapped', owned')
    BY <1>3, <1>5, <1>7, <1>8, <1>9
       DEF OwnedMatchesHeap, HeapLaidOut, LastUnmerged, BelowCapUnlessWrapped,
           Listed, Owns, Laid, Ends, Caps, Capped, Ptr, IsMerged, Cap
  <1> QED BY <1>6, <1>10 DEF Taken

-----------------------------------------------------------------------------
(* The list L that a merge leaves: entry i resized to m, the entries behind*)
(* it S[j] of the old list, in order, the last one and every allocated one *)
(* among them.                                                             *)
Thinned(L, S, i, m, al) ==
  /\ L \in Seq(Entry) /\ L # <<>>
  /\ i \in DOMAIN L /\ i < Len(L)
  /\ \A j \in DOMAIN L : /\ S[j] \in DOMAIN heap
                         /\ L[j].addr = heap[S[j]].addr
                         /\ j # i => L[j] = heap[S[j]]
  /\ \A j, l \in DOMAIN L : j < l => S[j] < S[l]
  /\ S[i] = i /\ S[Len(L)] = Len(heap)
  /\ L[i].size = m /\ (L[i].alloc <=> al)
  /\ \A h \in DOMAIN heap : heap[h].alloc => \E j \in DOMAIN L : S[j] = h

Source(i, k) ==
  [j \in 1..(Len(heap) - (k - i - 1)) |-> IF j <= i THEN j ELSE j + (k - i - 1)]

(* The size a merge leaves is a number. *)
LEMMA MergedNat ==
  ASSUME HeapInv, NEW i \in DOMAIN heap, NEW k \in DOMAIN heap
  PROVE  MergedSize(i, k) \in Nat
  <1>1. heap[i].addr \in Nat /\ heap[k].addr \in Nat
    BY HeapShape DEF HeapInv
  <1>2. PICK x \in Int : x = (heap[i].addr - heap[k].addr) \div 4
    BY <1>1
  <1>3. PICK f \in Nat : f = Fifth(x)
    BY FifthNat
  <1>4. Word \in Nat /\ Word > 0
    BY LayoutFacts
  <1>5. (f - HeaderSize) % Word \in Nat
    BY <1>3, <1>4
  <1> QED BY <1>2, <1>3, <1>5 DEF MergedSize

(* The loop of s2_MemoryMergeIfPossible unlinks entries between the one it *)
(* resizes and the one it stops at, free ones all.                         *)
LEMMA JoinThins ==
  ASSUME HeapInv, NEW i \in DOMAIN heap, NEW k \in DOMAIN heap, k > i,
         NEW size, StopsAt(i, k, size), NEW al \in BOOLEAN
  PROVE  Thinned(Joined(i, k, al), Source(i, k), i, MergedSize(i, k), al)
  <1>0. TypeOK
    BY DEF HeapInv
  <1>1. PICK n \in Nat : n = Len(heap) /\ DOMAIN heap = 1..n
    BY <1>0, HeapShape
  <1>2. PICK d \in Nat : d = k - i - 1 /\ k = i + d + 1
    <2>1. i \in 1..n /\ k \in 1..n
      BY <1>1
    <2>2. k - i - 1 \in Nat /\ k = i + (k - i - 1) + 1
      BY <2>1
    <2> QED BY <2>2
  <1>3. /\ DOMAIN heap = 1..n /\ i \in 1..n /\ i + d + 1 \in 1..n
        /\ k = i + d + 1
        /\ \A j \in 1..n : /\ heap[j] \in Entry /\ heap[j].addr \in Nat
    <2>1. i \in 1..n /\ i + d + 1 \in 1..n
      BY <1>1, <1>2
    <2>2. \A j \in 1..n : /\ heap[j] \in Entry /\ heap[j].addr \in Nat
      BY <1>0, <1>1, HeapShape
    <2> QED BY <1>1, <1>2, <2>1, <2>2
  <1>4. PICK m \in Nat : m = n - d /\ i < m /\ n = m + d
    <2>1. n - d \in Nat /\ i < n - d /\ n = (n - d) + d
      BY <1>3
    <2> QED BY <2>1
  <1> DEFINE L == Joined(i, k, al)
             S == Source(i, k)
             e == [addr |-> heap[i].addr, size |-> MergedSize(i, k), alloc |-> al]
  <1>5. e \in Entry /\ e.addr = heap[i].addr /\ e.size = MergedSize(i, k) /\ e.alloc = al
    BY <1>3, MergedNat DEF Entry
  <1>6. L = [j \in 1..m |-> IF j < i THEN heap[j] ELSE IF j = i THEN e ELSE heap[j + d]]
    <2>1. k # i /\ k - i - 1 = d /\ Len(heap) - (k - i - 1) = m
      BY <1>1, <1>2, <1>3, <1>4
    <2> QED BY <2>1, Zenon DEF Joined
  <1>7. S = [j \in 1..m |-> IF j <= i THEN j ELSE j + d]
    BY <1>1, <1>2, <1>4 DEF Source
  <1> HIDE DEF L, S, e
  <1>8. /\ \A j \in 1..m : S[j] = IF j <= i THEN j ELSE j + d
        /\ \A j \in 1..m : S[j] \in 1..n
        /\ \A j, l \in 1..m : j < l => S[j] < S[l]
        /\ S[i] = i /\ S[m] = n
    <2>1. \A j \in 1..m : S[j] = IF j <= i THEN j ELSE j + d
      BY <1>7
    <2>2. i \in Int /\ 1 <= i
      BY <1>3
    <2>3. \A j \in 1..m : S[j] \in 1..n
      BY <2>1, <2>2, <1>4
    <2>4. \A j, l \in 1..m : j < l => S[j] < S[l]
      BY <2>1, <2>2
    <2>5. m \in 1..m /\ i \in 1..m
      BY <2>2, <1>4
    <2>6. S[i] = i /\ S[m] = n
      BY <2>1, <2>2, <2>5, <1>4
    <2> QED BY <2>1, <2>3, <2>4, <2>6
  <1>9. \A j \in 1..m : /\ L[j] \in Entry
                        /\ L[j].addr = heap[S[j]].addr
                        /\ j # i => L[j] = heap[S[j]]
    <2> SUFFICES ASSUME NEW j \in 1..m
                 PROVE  /\ L[j] \in Entry
                        /\ L[j].addr = heap[S[j]].addr
                        /\ j # i => L[j] = heap[S[j]]
      OBVIOUS
    <2>1. CASE j < i
      BY <2>1, <1>3, <1>4, <1>6, <1>8
    <2>2. CASE j = i
      BY <2>2, <1>3, <1>5, <1>6, <1>8
    <2>3. CASE j > i
      <3>1. L[j] = heap[j + d] /\ S[j] = j + d /\ j + d \in 1..n
        BY <2>3, <1>3, <1>4, <1>6, <1>8
      <3> QED BY <3>1, <1>3
    <2> QED BY <2>1, <2>2, <2>3, <1>3
  <1>10. /\ L \in Seq(Entry) /\ L # <<>> /\ DOMAIN L = 1..m /\ Len(L) = m
    <2>1. L \in [1..m -> Entry]
      BY <1>6, <1>9
    <2>2. L \in Seq(Entry)
      BY <2>1, SeqDef
    <2>3. DOMAIN L = 1..m
      BY <1>6
    <2>4. Len(L) = m
      BY <2>2, <2>3, LenProperties
    <2> QED BY <2>2, <2>3, <2>4, <1>4
  <1>11. L[i] = e
    BY <1>3, <1>4, <1>6
  <1>12. \A h \in 1..n : heap[h].alloc => \E j \in 1..m : S[j] = h
    <2> SUFFICES ASSUME NEW h \in 1..n, heap[h].alloc
                 PROVE  \E j \in 1..m : S[j] = h
      OBVIOUS
    <2>1. CASE h <= i
      <3>1. h \in 1..m /\ S[h] = h
        BY <2>1, <1>3, <1>4, <1>8
      <3> QED BY <3>1
    <2>2. CASE h > i
      <3>1. h > i + d + 1
        <4>1. \A j \in (i + 1)..(i + d + 1) : ~heap[j].alloc
          BY <1>3 DEF StopsAt
        <4> QED BY <4>1, <2>2, <1>3
      <3>2. PICK j \in 1..m : j = h - d
        BY <3>1, <1>3, <1>4
      <3>3. S[j] = h
        BY <3>1, <3>2, <1>3, <1>8
      <3> QED BY <3>3
    <2> QED BY <2>1, <2>2, <1>3
  <1>13. i \in DOMAIN L /\ i < Len(L)
    BY <1>3, <1>4, <1>10
  <1>14. L[i].size = MergedSize(i, k) /\ (L[i].alloc <=> al)
    BY <1>5, <1>11
  <1>15. /\ \A j \in DOMAIN L : /\ S[j] \in DOMAIN heap
                                /\ L[j].addr = heap[S[j]].addr
                                /\ j # i => L[j] = heap[S[j]]
         /\ \A j, l \in DOMAIN L : j < l => S[j] < S[l]
         /\ S[i] = i /\ S[Len(L)] = Len(heap)
    BY <1>1, <1>3, <1>8, <1>9, <1>10
  <1>16. \A h \in DOMAIN heap : heap[h].alloc => \E j \in DOMAIN L : S[j] = h
    BY <1>3, <1>10, <1>12
  <1>17. Thinned(L, S, i, MergedSize(i, k), al)
    <2>1. L \in Seq(Entry) /\ L # <<>>
      BY <1>10
    <2> QED BY <2>1, <1>13, <1>14, <1>15, <1>16 DEF Thinned
  <1> QED BY <1>17 DEF L, S

(* Whoever is given the resized entry, the parts of the invariant hold of  *)
(* the list a merge leaves.                                                *)
LEMMA ThinKeeps ==
  ASSUME HeapInv, NEW i \in DOMAIN heap, ~heap[i].alloc,
         NEW L, NEW S, NEW m \in Nat, NEW al \in BOOLEAN, Thinned(L, S, i, m, al),
         NEW size \in Nat, al => size <= m,
         NEW O, O = IF al THEN owned \cup {[ptr |-> Ptr(i), len |-> size]} ELSE owned
  PROVE  Listed(L, merged \cup {Ptr(i)}, wrapped, O)
  <1> DEFINE nb == [ptr |-> Ptr(i), len |-> size]
  <1>1. PICK n \in Nat : n = Len(L) /\ DOMAIN L = 1..n /\ n \in 1..n
    BY ListShape DEF Thinned
  <1>2. /\ i \in 1..n /\ i < n /\ S[n] = Len(heap) /\ S[i] = i
        /\ \A j \in 1..n : /\ S[j] \in DOMAIN heap
                           /\ L[j].addr = heap[S[j]].addr
                           /\ j # i => L[j] = heap[S[j]]
        /\ \A j, l \in 1..n : j < l => S[j] < S[l]
        /\ L[i].size = m /\ (L[i].alloc <=> al)
        /\ \A h \in DOMAIN heap : heap[h].alloc => \E j \in 1..n : S[j] = h
    BY <1>1 DEF Thinned
  <1>3. \A j \in 1..n : j # i => S[j] # i
    BY <1>2
  <1>4. \A h \in DOMAIN heap : heap[h].addr \in Nat /\ heap[h].size \in Nat
    BY HeapShape DEF HeapInv
  <1>5. \A j \in 1..n : L[j].addr + HeaderSize = Ptr(S[j])
    BY <1>2 DEF Ptr
  <1>6. Ptr(i) \in Nat /\ merged \subseteq Nat /\ wrapped \subseteq Nat
    BY <1>4 DEF HeapInv, TypeOK, Ptr
  <1>7. O \subseteq Block
    BY <1>6 DEF HeapInv, TypeOK, Block
  <1>8. \A b \in owned : b.ptr # Ptr(i)
    BY Distinct DEF HeapInv, OwnedMatchesHeap
  <1>9. Owns(L, O)
    <2>1. ASSUME NEW b \in O
          PROVE  \E j \in 1..n : b.ptr = L[j].addr + HeaderSize /\ L[j].alloc
                                  /\ b.len <= L[j].size
      <3>1. CASE b \in owned
        <4>1. PICK h \in DOMAIN heap : b.ptr = Ptr(h) /\ heap[h].alloc /\ b.len <= heap[h].size
          BY <3>1 DEF HeapInv, OwnedMatchesHeap
        <4>2. PICK j \in 1..n : S[j] = h
          BY <4>1, <1>2
        <4>3. j # i
          BY <4>1, <4>2, <1>2
        <4> QED BY <4>1, <4>2, <4>3, <1>2, <1>5
      <3>2. CASE al /\ b = nb
        BY <3>2, <1>2, <1>5
      <3> QED BY <2>1, <3>1, <3>2
    <2>2. ASSUME NEW j \in 1..n, L[j].alloc
          PROVE  \E b \in O : b.ptr = L[j].addr + HeaderSize
      <3>1. CASE j = i
        <4>1. nb \in O /\ nb.ptr = Ptr(i)
          BY <2>2, <3>1, <1>2
        <4> QED BY <4>1, <3>1, <1>2, <1>5
      <3>2. CASE j # i
        <4>1. PICK b \in owned : b.ptr = Ptr(S[j])
          BY <2>2, <3>2, <1>2 DEF HeapInv, OwnedMatchesHeap
        <4> QED BY <4>1, <1>5
      <3> QED BY <3>1, <3>2
    <2>3. \A b, c \in O : b.ptr = c.ptr => b = c
      BY <1>8 DEF HeapInv, OwnedMatchesHeap
    <2> QED BY <2>1, <2>2, <2>3, <1>1 DEF Owns
  <1>10. Laid(L, merged \cup {Ptr(i)})
    <2> SUFFICES ASSUME NEW j \in 1..n, NEW l \in 1..n, j < l
                 PROVE  /\ L[j].addr + HeaderSize <= L[l].addr
                        /\ L[j].addr + HeaderSize \notin merged \cup {Ptr(i)} =>
                             L[j].addr + HeaderSize + L[j].size <= L[l].addr
      BY <1>1 DEF Laid
    <2>1. S[j] \in DOMAIN heap /\ S[l] \in DOMAIN heap /\ S[j] < S[l]
      BY <1>2
    <2>2. /\ heap[S[j]].addr + HeaderSize <= heap[S[l]].addr
          /\ Ptr(S[j]) \notin merged =>
               heap[S[j]].addr + HeaderSize + heap[S[j]].size <= heap[S[l]].addr
      BY <2>1 DEF HeapInv, HeapLaidOut, IsMerged
    <2>3. Ptr(S[j]) # Ptr(i) => j # i
      BY <1>2
    <2> QED BY <2>2, <2>3, <1>2, <1>5
  <1>11. Ends(L[Len(L)], merged \cup {Ptr(i)}, wrapped)
    <2>1. L[Len(L)].addr + HeaderSize = Ptr(Len(heap))
      BY <1>1, <1>2, <1>5
    <2>2. Ptr(i) < Ptr(Len(heap))
      <3>1. L[i].addr + HeaderSize <= L[n].addr
        BY <1>1, <1>2, <1>10 DEF Laid
      <3>2. L[i].addr = heap[i].addr /\ L[n].addr = heap[Len(heap)].addr
        BY <1>1, <1>2
      <3>3. heap[i].addr \in Nat /\ heap[Len(heap)].addr \in Nat
        BY <1>1, <1>2, <1>4
      <3> QED BY <3>1, <3>2, <3>3 DEF Ptr
    <2> QED BY <2>1, <2>2 DEF HeapInv, LastUnmerged, Ends
  <1>12. Caps(L, merged \cup {Ptr(i)}, wrapped)
    <2> SUFFICES ASSUME NEW j \in 1..n, L[j].addr + HeaderSize \notin merged \cup {Ptr(i)}
                 PROVE  Capped(L[j], wrapped)
      BY <1>1 DEF Caps
    <2>1. j # i /\ Ptr(S[j]) \notin merged
      BY <1>2, <1>5
    <2>2. L[j] = heap[S[j]] /\ S[j] \in DOMAIN heap
      BY <2>1, <1>2
    <2>3. Caps(heap, merged, wrapped)
      BY HeapListed DEF Listed
    <2> QED BY <2>1, <2>2, <2>3 DEF Caps, Ptr
  <1> QED BY <1>6, <1>7, <1>9, <1>10, <1>11, <1>12 DEF Listed, Thinned

(* Whether or not a free entry was found and a merge tried, the list from  *)
(* which the next entry is placed or refused satisfies the parts.          *)
LEMMA NothingKeeps ==
  ASSUME HeapInv, NEW i \in DOMAIN heap, NEW k \in DOMAIN heap,
         NEW size \in Nat, NothingFree(i, k, size)
  PROVE  /\ Listed(Joined(i, k, FALSE), merged \cup Resized(i, k), wrapped, owned)
         /\ Joined(i, k, FALSE)[Len(Joined(i, k, FALSE))] = Last
  <1>1. i \in Int /\ k \in Int
    BY HeapShape DEF HeapInv
  <1>2. CASE k = i
    <2>1. Joined(i, k, FALSE) = heap
      BY <1>2 DEF Joined
    <2>2. merged \cup Resized(i, k) = merged
      BY <1>1, <1>2 DEF Resized
    <2>3. Listed(heap, merged, wrapped, owned)
      BY HeapListed
    <2> QED BY <2>1, <2>2, <2>3 DEF Last
  <1>3. CASE k # i
    <2>1. BiggestFree(i) /\ StopsAt(i, k, size)
      BY <1>3 DEF NothingFree
    <2>2. k > i /\ ~heap[i].alloc
      BY <2>1, <1>1, <1>3 DEF StopsAt, BiggestFree, Free
    <2> DEFINE L == Joined(i, k, FALSE)
               S == Source(i, k)
               m == MergedSize(i, k)
    <2>3. Thinned(L, S, i, m, FALSE)
      BY <2>1, <2>2, JoinThins
    <2>4. m \in Nat
      BY MergedNat
    <2> HIDE DEF L, S, m
    <2>5. Listed(L, merged \cup {Ptr(i)}, wrapped, owned)
      BY <2>2, <2>3, <2>4, ThinKeeps
    <2>6. L[Len(L)] = Last
      <3>1. Len(L) \in DOMAIN L
        BY <2>3, ListShape DEF Thinned
      <3>2. i < Len(L)
        BY <2>3 DEF Thinned
      <3> QED BY <3>1, <3>2, <2>3, <1>1 DEF Thinned, Last
    <2>7. Resized(i, k) = {Ptr(i)}
      BY <2>2 DEF Resized
    <2> QED BY <2>5, <2>6, <2>7 DEF L
  <1> QED BY <1>2, <1>3

(* The entry a merge resizes is not the last one, from which the next entry*)
(* is placed.                                                              *)
LEMMA MergeTakes ==
  ASSUME HeapInv, NEW size \in Requests, TakeMerge(size)
  PROVE  Taken
  <1>1. PICK i \in DOMAIN heap, k \in DOMAIN heap :
          /\ Merges(i, k, size)
          /\ heap' = Joined(i, k, TRUE)
          /\ merged' = merged \cup {Ptr(i)}
          /\ Grant(heap[i].addr, size)
          /\ UNCHANGED <<wrapped, astray>>
    BY MergeEntry DEF TakeMerge, HeapInv
  <1>2. ~heap[i].alloc /\ k > i /\ size \in Nat /\ size <= MergedSize(i, k)
    BY <1>1, LayoutFacts, MergedNat DEF Merges, BiggestFree, Free
  <1>3. owned' = owned \cup {[ptr |-> Ptr(i), len |-> size]} /\ wrapped' = wrapped
    BY <1>1 DEF Grant, Ptr
  <1>4. Listed(heap', merged', wrapped', owned')
    <2> DEFINE S == Source(i, k)
               m == MergedSize(i, k)
    <2>1. Thinned(heap', S, i, m, TRUE) /\ m \in Nat
      BY <1>1, <1>2, JoinThins, MergedNat DEF Merges
    <2> HIDE DEF S, m
    <2>2. size <= m
      BY <1>2 DEF m
    <2>3. Listed(heap', merged \cup {Ptr(i)}, wrapped, owned')
      BY <2>1, <2>2, <1>2, <1>3, ThinKeeps
    <2> QED BY <2>3, <1>1, <1>3
  <1>5. [ptr |-> heap[i].addr + HeaderSize, len |-> size] \notin owned
    BY <1>2, Distinct DEF HeapInv, OwnedMatchesHeap, Ptr
  <1>6. IsFiniteSet(owned') /\ LeakCount' /\ memleaks' \in Nat /\ refused' \in Nat
    BY <1>1, <1>5, GrantCounts DEF HeapInv
  <1> QED BY <1>4, <1>6 DEF Taken

(* The test against the cap, of 20 times the sizes, of what it passes: an  *)
(* entry whose test did not wrap ends below the cap, or is tiny; one whose *)
(* test wrapped ends beyond it.                                            *)
LEMMA NewCaps ==
  ASSUME HeapInv, NEW size \in Requests, ~OverCap(size)
  PROVE  /\ Last.addr \in Nat /\ Last.size \in Nat /\ size \in Nat
         /\ NewAddr \in Nat
         /\ Last.addr + HeaderSize + Last.size = NewAddr
         /\ IF ScaledEnd(size) < Word
            THEN \/ NewAddr + HeaderSize + size <= Cap
                 \/ size <= 2 /\ NewAddr + HeaderSize + size <= Cap + 40
            ELSE NewAddr + HeaderSize + size > Cap
  <1>1. PICK a \in Nat, l \in Nat, s \in Nat, c \in Nat, w \in Nat :
          /\ a = Last.addr /\ l = Last.size /\ s = size /\ c = Cap /\ w = Word
    BY HeapShape, LayoutFacts DEF HeapInv, Last, Entry
  <1>2. NewAddr = a + l + 20
    BY <1>1 DEF NewAddr
  <1>3. (a + 20 * l) % w <= c /\ (a + 20 * (l + s)) % w <= c /\ 21 * (c + 40) < w
    <2>1. ScaledEnd(0) = a + 20 * l /\ ScaledEnd(size) = a + 20 * (l + s)
      BY <1>1 DEF ScaledEnd
    <2>2. ~((a + 20 * l) % w > c) /\ ~((a + 20 * (l + s)) % w > c)
      BY <1>1, <2>1 DEF OverCap
    <2>3. (a + 20 * l) % w \in Int /\ (a + 20 * (l + s)) % w \in Int
      BY <1>1, LayoutFacts
    <2> QED BY <1>1, <2>2, <2>3, LayoutFacts
  <1>4. CASE a + 20 * (l + s) < w
    <2>1. (a + 20 * (l + s)) % w = a + 20 * (l + s)
      BY <1>4, WordFits
    <2>2. \/ a + l + 20 + 20 + s <= c
          \/ s <= 2 /\ a + l + 20 + 20 + s <= c + 40
      <3>1. a + 20 * (l + s) <= c
        BY <2>1, <1>3
      <3> QED BY <3>1, SMT
    <2> QED BY <2>2, <1>1, <1>2, <1>4 DEF ScaledEnd
  <1>5. CASE ~(a + 20 * (l + s) < w)
    <2>1. a + l + 20 + 20 + s > c
      <3>1. CASE a + 20 + l > c
        BY <3>1
      <3>2. CASE a + 20 + l <= c + 40
        <4>1. a + 20 * l < w
          BY <3>2, <1>3
        <4>2. a + 20 * l <= c
          BY <4>1, <1>3, WordFits
        <4> QED BY <4>2, <1>3, <1>5
      <3> QED BY <3>1, <3>2
    <2> QED BY <2>1, <1>1, <1>2, <1>5 DEF ScaledEnd
  <1> QED BY <1>1, <1>2, <1>4, <1>5

(* Appending the entry of a block nobody holds keeps the parts.            *)
LEMMA AppendKeeps ==
  ASSUME NEW L, NEW M, NEW W, NEW O, Listed(L, M, W, O),
         NEW at \in Nat, NEW size \in Nat,
         at = L[Len(L)].addr + HeaderSize + L[Len(L)].size,
         NEW V, W \subseteq V, V \subseteq W \cup {at + HeaderSize},
         Capped([addr |-> at, size |-> size, alloc |-> TRUE], V)
  PROVE  /\ Listed(Append(L, [addr |-> at, size |-> size, alloc |-> TRUE]), M, V,
                   O \cup {[ptr |-> at + HeaderSize, len |-> size]})
         /\ [ptr |-> at + HeaderSize, len |-> size] \notin O
  <1> DEFINE e == [addr |-> at, size |-> size, alloc |-> TRUE]
             N == Append(L, e)
             nb == [ptr |-> at + HeaderSize, len |-> size]
  <1>0. e.addr = at /\ e.size = size /\ e.alloc /\ e \in Entry
    BY DEF Entry
  <1>1. PICK n \in Nat : /\ n = Len(L) /\ n >= 1 /\ DOMAIN L = 1..n /\ n \in 1..n
                         /\ \A j \in 1..n : L[j].addr \in Nat /\ L[j].size \in Nat
    BY ListShape DEF Listed
  <1> HIDE DEF e
  <1>2. /\ N \in Seq(Entry) /\ N # <<>> /\ Len(N) = n + 1
        /\ DOMAIN N = 1..(n + 1)
        /\ \A j \in 1..n : N[j] = L[j]
        /\ N[n + 1] = e
    BY <1>0, <1>1, AppendProperties DEF Listed
  <1> HIDE DEF N
  <1>3. \A j \in 1..n :
          /\ L[j].addr + HeaderSize <= at
          /\ L[j].addr + HeaderSize \notin M => L[j].addr + HeaderSize + L[j].size <= at
    <2> SUFFICES ASSUME NEW j \in 1..n
                 PROVE  /\ L[j].addr + HeaderSize <= at
                        /\ L[j].addr + HeaderSize \notin M =>
                             L[j].addr + HeaderSize + L[j].size <= at
      OBVIOUS
    <2>1. CASE j = n
      BY <2>1, <1>1
    <2>2. CASE j # n
      <3>1. /\ L[j].addr + HeaderSize <= L[n].addr
            /\ L[j].addr + HeaderSize \notin M =>
                 L[j].addr + HeaderSize + L[j].size <= L[n].addr
        <4>1. j < n
          BY <2>2, <1>1
        <4>2. Laid(L, M) /\ j \in DOMAIN L /\ n \in DOMAIN L
          BY <1>1 DEF Listed
        <4> QED BY <4>1, <4>2 DEF Laid
      <3>2. L[n].addr <= at
        BY <1>1
      <3> QED BY <3>1, <3>2, <1>1
    <2> QED BY <2>1, <2>2
  <1>4. \A b \in O : b.ptr # at + HeaderSize
    <2> SUFFICES ASSUME NEW b \in O PROVE b.ptr # at + HeaderSize
      OBVIOUS
    <2>1. PICK j \in 1..n : b.ptr = L[j].addr + HeaderSize
      BY <1>1 DEF Listed, Owns
    <2> QED BY <2>1, <1>1, <1>3
  <1>5. nb \notin O /\ nb.ptr = at + HeaderSize /\ nb.len = size /\ nb \in Block
    BY <1>4 DEF Block
  <1> HIDE DEF nb
  <1>6. Owns(N, O \cup {nb})
    <2>1. ASSUME NEW b \in O \cup {nb}
          PROVE  \E j \in 1..(n + 1) : b.ptr = N[j].addr + HeaderSize /\ N[j].alloc
                                        /\ b.len <= N[j].size
      <3>1. CASE b = nb
        <4>1. n + 1 \in 1..(n + 1)
          BY <1>1
        <4> QED BY <4>1, <3>1, <1>0, <1>2, <1>5
      <3>2. CASE b \in O
        <4>1. PICK j \in 1..n : b.ptr = L[j].addr + HeaderSize /\ L[j].alloc
                                 /\ b.len <= L[j].size
          BY <3>2, <1>1 DEF Listed, Owns
        <4>2. j \in 1..(n + 1)
          BY <1>1
        <4> QED BY <4>1, <4>2, <1>2
      <3> QED BY <3>1, <3>2
    <2>2. ASSUME NEW j \in 1..(n + 1), N[j].alloc
          PROVE  \E b \in O \cup {nb} : b.ptr = N[j].addr + HeaderSize
      <3>1. CASE j = n + 1
        BY <3>1, <1>0, <1>2, <1>5
      <3>2. CASE j # n + 1
        <4>1. j \in 1..n
          BY <3>2, <1>1
        <4>2. PICK b \in O : b.ptr = L[j].addr + HeaderSize
          BY <4>1, <2>2, <1>1, <1>2 DEF Listed, Owns
        <4> QED BY <4>1, <4>2, <1>2
      <3> QED BY <3>1, <3>2
    <2>3. \A b, c \in O \cup {nb} : b.ptr = c.ptr => b = c
      BY <1>4, <1>5 DEF Listed, Owns
    <2> QED BY <2>1, <2>2, <2>3, <1>2 DEF Owns
  <1>7. Laid(N, M)
    <2> SUFFICES ASSUME NEW i \in 1..(n + 1), NEW j \in 1..(n + 1), i < j
                 PROVE  /\ N[i].addr + HeaderSize <= N[j].addr
                        /\ N[i].addr + HeaderSize \notin M =>
                             N[i].addr + HeaderSize + N[i].size <= N[j].addr
      BY <1>2 DEF Laid
    <2>1. i \in 1..n
      BY <1>1
    <2>2. CASE j = n + 1
      BY <2>1, <2>2, <1>0, <1>2, <1>3
    <2>3. CASE j # n + 1
      <3>1. j \in 1..n
        BY <2>3, <1>1
      <3> QED BY <2>1, <3>1, <1>1, <1>2 DEF Listed, Laid
    <2> QED BY <2>2, <2>3
  <1>8. V \subseteq Nat /\ M \subseteq Nat /\ W \subseteq Nat
    BY DEF Listed
  <1>9. L[n].addr + HeaderSize <= at
    BY <1>1, <1>3
  <1>10. Ends(e, M, V)
    <2>1. /\ \A p \in M : p < L[n].addr + HeaderSize
          /\ \A p \in W : p <= L[n].addr + HeaderSize
      BY <1>1 DEF Listed, Ends
    <2>2. \A p \in M : p < at + HeaderSize
      BY <2>1, <1>1, <1>8, <1>9
    <2>3. \A p \in V : p <= at + HeaderSize
      BY <2>1, <1>1, <1>8, <1>9
    <2> QED BY <2>2, <2>3, <1>0 DEF Ends
  <1>11. Caps(N, M, V)
    <2> SUFFICES ASSUME NEW j \in 1..(n + 1), N[j].addr + HeaderSize \notin M
                 PROVE  Capped(N[j], V)
      BY <1>2 DEF Caps
    <2>1. CASE j = n + 1
      BY <2>1, <1>2 DEF e
    <2>2. CASE j # n + 1
      <3>1. j \in 1..n /\ N[j] = L[j]
        BY <2>2, <1>1, <1>2
      <3>2. Capped(L[j], W)
        BY <3>1, <1>1 DEF Listed, Caps
      <3>3. L[j].addr + HeaderSize # at + HeaderSize
        BY <3>1, <1>1, <1>3
      <3> QED BY <3>1, <3>2, <3>3 DEF Capped
    <2> QED BY <2>1, <2>2
  <1>12. O \cup {nb} \subseteq Block
    BY <1>5 DEF Listed
  <1>13. N[Len(N)] = e
    BY <1>2
  <1>14. Listed(N, M, V, O \cup {nb})
    BY <1>2, <1>6, <1>7, <1>8, <1>10, <1>11, <1>12, <1>13 DEF Listed
  <1> QED BY <1>5, <1>14 DEF N, e, nb

(* Appending a new entry keeps the invariant. *)
LEMMA NewTakes ==
  ASSUME HeapInv, NEW size \in Requests, TakeNew(size)
  PROVE  Taken
  <1>1. PICK i \in DOMAIN heap, k \in DOMAIN heap :
          /\ NothingFree(i, k, size)
          /\ ~OverCap(size)
          /\ heap' = Append(Joined(i, k, FALSE),
                            [addr |-> NewAddr, size |-> size, alloc |-> TRUE])
          /\ merged' = merged \cup Resized(i, k)
          /\ wrapped' = IF ScaledEnd(size) < Word THEN wrapped
                        ELSE wrapped \cup {NewAddr + HeaderSize}
          /\ Grant(NewAddr, size)
    BY MergeEntry DEF TakeNew, HeapInv
  <1> DEFINE L == Joined(i, k, FALSE)
             e == [addr |-> NewAddr, size |-> size, alloc |-> TRUE]
             nb == [ptr |-> NewAddr + HeaderSize, len |-> size]
  <1>2. /\ Last.addr \in Nat /\ Last.size \in Nat /\ size \in Nat
        /\ NewAddr \in Nat
        /\ Last.addr + HeaderSize + Last.size = NewAddr
        /\ IF ScaledEnd(size) < Word
           THEN \/ NewAddr + HeaderSize + size <= Cap
                \/ size <= 2 /\ NewAddr + HeaderSize + size <= Cap + 40
           ELSE NewAddr + HeaderSize + size > Cap
    BY <1>1, NewCaps
  <1>3. Listed(L, merged', wrapped, owned) /\ L[Len(L)] = Last
    BY <1>1, <1>2, NothingKeeps
  <1>4. owned' = owned \cup {nb}
    BY <1>1 DEF Grant
  <1>5. \A p \in wrapped : p < NewAddr + HeaderSize
    <2> SUFFICES ASSUME NEW p \in wrapped PROVE p < NewAddr + HeaderSize
      OBVIOUS
    <2>1. p <= Last.addr + HeaderSize /\ p \in Nat
      BY DEF HeapInv, TypeOK, LastUnmerged, Last, Ptr
    <2> QED BY <2>1, <1>2
  <1>6. Capped(e, wrapped')
    BY <1>1, <1>2, <1>5 DEF Capped
  <1>7. wrapped \subseteq wrapped' /\ wrapped' \subseteq wrapped \cup {NewAddr + HeaderSize}
    BY <1>1
  <1> HIDE DEF L
  <1>11. NewAddr = L[Len(L)].addr + HeaderSize + L[Len(L)].size
    BY <1>2, <1>3
  <1>8. Listed(Append(L, e), merged', wrapped', owned \cup {nb}) /\ nb \notin owned
    BY <1>2, <1>3, <1>6, <1>7, <1>11, AppendKeeps
  <1>9. Listed(heap', merged', wrapped', owned')
    BY <1>1, <1>4, <1>8 DEF L
  <1>10. IsFiniteSet(owned') /\ LeakCount' /\ memleaks' \in Nat /\ refused' \in Nat
    BY <1>1, <1>8, GrantCounts DEF HeapInv
  <1> QED BY <1>9, <1>10 DEF Taken

(* Whichever way s2_MemoryAlloc finds a block keeps the invariant. *)
LEMMA TakeTakes ==
  ASSUME HeapInv, NEW size \in Requests, Take(size)
  PROVE  Taken
  BY FitTakes, MergeTakes, NewTakes DEF Take

(* The entries of a granted block are written inside the list. *)
LEMMA StaysHere ==
  ASSUME NEW size, Take(size)
  PROVE  astray' = astray
  BY DEF Take, TakeFit, TakeMerge, TakeNew

(* A header written below address 0 is the end of the model. *)
LEMMA AstrayTakes ==
  ASSUME HeapInv, NEW size \in Requests, TakeAstray(size)
  PROVE  Taken
  <1>1. UNCHANGED <<heap, owned, merged, wrapped, refused, memleaks>>
    BY DEF TakeAstray
  <1> QED BY <1>1, HeapListed DEF Taken, HeapInv, TypeOK, LeakCount

(* A refusal counts, and leaves the entry resized that a merge was tried of.*)
LEMMA RefuseTakes ==
  ASSUME HeapInv, NEW size \in Requests, Refuse(size)
  PROVE  Taken
  <1>1. PICK i \in DOMAIN heap, k \in DOMAIN heap :
          /\ NothingFree(i, k, size)
          /\ heap' = Joined(i, k, FALSE)
          /\ merged' = merged \cup Resized(i, k)
    BY MergeEntry DEF Refuse, HeapInv
  <1>2. /\ owned' = owned /\ wrapped' = wrapped
        /\ refused' = refused + 1 /\ memleaks' = memleaks + 1
    BY DEF Refuse
  <1>3. size \in Nat
    BY LayoutFacts
  <1>4. Listed(heap', merged', wrapped', owned')
    BY <1>1, <1>2, <1>3, NothingKeeps
  <1>5. LeakCount' /\ memleaks' \in Nat /\ refused' \in Nat
    BY <1>2, FS_CardinalityType DEF HeapInv, LeakCount, TypeOK
  <1> QED BY <1>2, <1>4, <1>5 DEF Taken, HeapInv

(* Freeing a block clears the flag of the one entry it belongs to. *)
LEMMA FreeKeeps ==
  ASSUME HeapInv, NEW b \in owned, MemoryFree(b)
  PROVE  HeapInv'
  <1> USE DEF HeapInv
  <1>1. PICK n \in Nat : n = Len(heap)
    BY HeapShape
  <1>2. /\ owned' = owned \ {b} /\ memleaks' = memleaks - 1
        /\ merged' = merged /\ wrapped' = wrapped /\ refused' = refused
        /\ intr' = intr /\ halted' = halted /\ astray' = astray
    BY DEF MemoryFree
  <1>3. /\ DOMAIN heap' = DOMAIN heap /\ DOMAIN heap = 1..n /\ n >= 1
        /\ \A j \in DOMAIN heap : heap'[j] =
             IF Ptr(j) = b.ptr THEN [heap[j] EXCEPT !.alloc = FALSE] ELSE heap[j]
    BY <1>1, HeapShape DEF MemoryFree, Ptr
  <1>4. \A j \in DOMAIN heap :
          /\ heap'[j] \in Entry
          /\ heap'[j].addr = heap[j].addr /\ heap'[j].size = heap[j].size
          /\ heap'[j].alloc <=> (heap[j].alloc /\ Ptr(j) # b.ptr)
    <2> SUFFICES ASSUME NEW j \in DOMAIN heap
                 PROVE  /\ heap'[j] \in Entry
                        /\ heap'[j].addr = heap[j].addr
                        /\ heap'[j].size = heap[j].size
                        /\ heap'[j].alloc <=> (heap[j].alloc /\ Ptr(j) # b.ptr)
      OBVIOUS
    <2>1. heap[j] \in Entry
      BY HeapShape
    <2>2. CASE Ptr(j) = b.ptr
      <3>1. heap'[j] = [heap[j] EXCEPT !.alloc = FALSE]
        BY <2>2, <1>3
      <3> QED BY <2>1, <2>2, <3>1 DEF Entry
    <2>3. CASE Ptr(j) # b.ptr
      BY <2>1, <2>3, <1>3
    <2> QED BY <2>2, <2>3
  <1>5. heap' \in Seq(Entry) /\ heap' # <<>> /\ Len(heap') = n
    <2>1. heap' = [j \in 1..n |-> heap'[j]]
      BY <1>3 DEF MemoryFree
    <2>2. \A j \in 1..n : heap'[j] \in Entry
      BY <1>3, <1>4
    <2>3. heap' \in [1..n -> Entry]
      BY <2>1, <2>2
    <2>4. heap' \in Seq(Entry)
      BY <2>3, SeqDef
    <2> QED BY <2>4, <1>3, LenProperties, EmptySeq
  <1>6. \A j \in DOMAIN heap : Ptr(j)' = Ptr(j) /\ IsMerged(j)' = IsMerged(j)
    BY <1>2, <1>4 DEF Ptr, IsMerged
  <1>7. OwnedMatchesHeap'
    <2>1. \A c \in owned' : \E j \in DOMAIN heap' :
            c.ptr = Ptr(j)' /\ heap'[j].alloc /\ c.len <= heap'[j].size
      <3> SUFFICES ASSUME NEW c \in owned, c # b
                   PROVE  \E j \in DOMAIN heap' :
                            c.ptr = Ptr(j)' /\ heap'[j].alloc /\ c.len <= heap'[j].size
        BY <1>2
      <3>1. PICK j \in DOMAIN heap : c.ptr = Ptr(j) /\ heap[j].alloc /\ c.len <= heap[j].size
        BY DEF OwnedMatchesHeap
      <3>2. c.ptr # b.ptr
        BY DEF OwnedMatchesHeap
      <3> QED BY <3>1, <3>2, <1>3, <1>4, <1>6
    <2>2. \A j \in DOMAIN heap' : heap'[j].alloc => \E c \in owned' : c.ptr = Ptr(j)'
      <3> SUFFICES ASSUME NEW j \in DOMAIN heap, heap'[j].alloc
                   PROVE  \E c \in owned' : c.ptr = Ptr(j)'
        BY <1>3
      <3>1. heap[j].alloc /\ Ptr(j) # b.ptr
        BY <1>4
      <3>2. PICK c \in owned : c.ptr = Ptr(j)
        BY <3>1 DEF OwnedMatchesHeap
      <3> QED BY <3>1, <3>2, <1>2, <1>6
    <2>3. \A c, d \in owned' : c.ptr = d.ptr => c = d
      BY <1>2 DEF OwnedMatchesHeap
    <2> QED BY <2>1, <2>2, <2>3 DEF OwnedMatchesHeap
  <1>8. HeapLaidOut'
    BY <1>3, <1>4, <1>6 DEF HeapLaidOut
  <1>9. LastUnmerged' /\ BelowCapUnlessWrapped'
    <2>1. n \in DOMAIN heap /\ Len(heap) = n /\ Len(heap') = n
      BY <1>1, <1>3, <1>5
    <2>2. LastUnmerged'
      BY <2>1, <1>2, <1>6 DEF LastUnmerged
    <2>3. BelowCapUnlessWrapped'
      BY <1>2, <1>3, <1>4, <1>6 DEF BelowCapUnlessWrapped, Cap
    <2> QED BY <2>2, <2>3
  <1>10. /\ IsFiniteSet(owned') /\ LeakCount' /\ memleaks' \in Nat
    <2>1. /\ IsFiniteSet(owned \ {b})
          /\ Cardinality(owned \ {b}) = Cardinality(owned) - 1
      BY FS_RemoveElement
    <2>2. Cardinality(owned) \in Nat /\ Cardinality(owned \ {b}) \in Nat
      BY <2>1, FS_CardinalityType
    <2> QED BY <1>2, <2>1, <2>2 DEF LeakCount, TypeOK
  <1>11. TypeOK'
    BY <1>2, <1>5, <1>10 DEF TypeOK
  <1> QED BY <1>7, <1>8, <1>9, <1>10, <1>11

(* The free of a NULL allocates the text it prints before the machine stops.*)
LEMMA InvalidTakes ==
  ASSUME HeapInv, FreeInvalid
  PROVE  Taken
  <1>1. /\ HexSize \in Requests
        /\ Take(HexSize) \/ TakeAstray(HexSize) \/ Refuse(HexSize)
    BY DEF FreeInvalid, Requests
  <1> QED BY <1>1, TakeTakes, AstrayTakes, RefuseTakes

-----------------------------------------------------------------------------
(* Every allocation and every free keeps the invariant. *)
LEMMA NextInv == HeapInv /\ [Next]_vars => HeapInv'
  <1> SUFFICES ASSUME HeapInv, [Next]_vars
               PROVE  HeapInv'
    OBVIOUS
  <1>1. ASSUME Taken, intr' \in BOOLEAN, halted' \in BOOLEAN, astray' \in BOOLEAN
        PROVE  HeapInv'
    <2>1. Listed(heap', merged', wrapped', owned')
      BY <1>1 DEF Taken
    <2>2. TypeOK'
      BY <1>1, <2>1 DEF Taken, Listed, TypeOK
    <2>3. OwnedMatchesHeap' /\ HeapLaidOut' /\ LastUnmerged' /\ BelowCapUnlessWrapped'
      BY <2>1 DEF OwnedMatchesHeap, HeapLaidOut, LastUnmerged, BelowCapUnlessWrapped,
           Listed, Owns, Laid, Ends, Caps, Capped, Ptr, IsMerged, Cap
    <2> QED BY <1>1, <2>2, <2>3 DEF Taken, HeapInv
  <1>2. intr \in BOOLEAN /\ halted \in BOOLEAN /\ astray \in BOOLEAN
    BY DEF HeapInv, TypeOK
  <1>3. ASSUME NEW size \in Sizes, MemoryAlloc(size)
        PROVE  HeapInv'
    <2>1. size \in Requests /\ halted' = halted
      BY <1>3 DEF Requests, MemoryAlloc
    <2>2. CASE Granted(size)
      <3>1. Taken /\ intr' = TRUE
        BY <2>1, <2>2, TakeTakes, AstrayTakes DEF Granted
      <3>2. astray' \in BOOLEAN
        BY <2>2, <1>2, StaysHere DEF Granted, TakeAstray
      <3> QED BY <3>1, <3>2, <2>1, <1>1, <1>2
    <2>3. CASE NotGranted(size)
      <3>1. Taken /\ intr' = FALSE
        BY <2>1, <2>3, RefuseTakes DEF NotGranted
      <3>2. astray' \in BOOLEAN
        BY <2>3, <1>2 DEF NotGranted, Refuse
      <3> QED BY <3>1, <3>2, <2>1, <1>1, <1>2
    <2> QED BY <1>3, <2>2, <2>3 DEF MemoryAlloc
  <1>4. ASSUME NEW b \in owned, MemoryFree(b)
        PROVE  HeapInv'
    BY <1>4, FreeKeeps
  <1>5. CASE FreeInvalid
    <2>1. intr' = FALSE /\ halted' = TRUE
      BY <1>5 DEF FreeInvalid
    <2>2. astray' \in BOOLEAN
      BY <1>2, <1>5, StaysHere DEF FreeInvalid, TakeAstray, Refuse
    <2> QED BY <2>1, <2>2, <1>1, <1>5, InvalidTakes
  <1>6. CASE UNCHANGED vars
    BY <1>6 DEF vars, HeapInv, TypeOK, OwnedMatchesHeap, HeapLaidOut, LastUnmerged,
                BelowCapUnlessWrapped, LeakCount, Ptr, IsMerged, Cap
  <1> QED BY <1>3, <1>4, <1>5, <1>6 DEF Next

(* The inductive invariant of the heap holds in every reachable state. *)
THEOREM HeapInvariant == Spec => []HeapInv
  BY InitInv, NextInv, PTL DEF Spec

(* Every variable of the allocator keeps its type; the leak counter never  *)
(* wraps below zero.                                                       *)
THEOREM TypeCorrect == Spec => []TypeOK
  <1>1. HeapInv => TypeOK
    BY DEF HeapInv
  <1> QED BY <1>1, HeapInvariant, PTL

(* s2_MemoryAlloc never hands out a block a caller still holds. *)
THEOREM NeverTwice == Spec => []OwnedMatchesHeap
  <1>1. HeapInv => OwnedMatchesHeap
    BY DEF HeapInv
  <1> QED BY <1>1, HeapInvariant, PTL

(* The counter memleaks is exact: outstanding blocks plus refusals. *)
THEOREM LeaksCounted == Spec => []LeakCount
  <1>1. HeapInv => LeakCount
    BY DEF HeapInv
  <1> QED BY <1>1, HeapInvariant, PTL

(* The layout of the list makes unmerged blocks disjoint. *)
LEMMA InvDisjoint == HeapInv => DisjointUnlessMerged
  <1> SUFFICES ASSUME HeapInv, NEW b \in owned, NEW c \in owned,
                      b.ptr < c.ptr, b.ptr \notin merged
               PROVE  b.ptr + b.len + HeaderSize <= c.ptr
    BY DEF DisjointUnlessMerged
  <1> USE DEF HeapInv
  <1>1. PICK i \in DOMAIN heap : b.ptr = Ptr(i) /\ b.len <= heap[i].size
    BY DEF OwnedMatchesHeap
  <1>2. PICK j \in DOMAIN heap : c.ptr = Ptr(j)
    BY DEF OwnedMatchesHeap
  <1>3. i < j /\ ~IsMerged(i)
    BY <1>1, <1>2, Distinct DEF IsMerged
  <1>4. heap[i].addr + HeaderSize + heap[i].size <= heap[j].addr
    BY <1>3 DEF HeapLaidOut
  <1>5. b.len \in Nat /\ heap[i].addr \in Nat /\ heap[i].size \in Nat /\ heap[j].addr \in Nat
    BY HeapShape DEF TypeOK, Block
  <1> QED BY <1>1, <1>2, <1>4, <1>5 DEF Ptr

(* Blocks held at the same time do not overlap as long as the lower one was*)
(* not resized by s2_MemoryMergeIfPossible: the overlap the merge causes is*)
(* the only way two callers ever share memory.                             *)
THEOREM DisjointBlocks == Spec => []DisjointUnlessMerged
  BY InvDisjoint, HeapInvariant, PTL

(* The cap test of s2_MemoryAlloc, for every request there is: it keeps the*)
(* entries no merge made below S2_MEMCAP, but for tiny ones, exactly as    *)
(* long as it does not wrap around.                                        *)
THEOREM BelowCap == Spec => []BelowCapUnlessWrapped
  <1>1. HeapInv => BelowCapUnlessWrapped
    BY DEF HeapInv
  <1> QED BY <1>1, HeapInvariant, PTL
=============================================================================
