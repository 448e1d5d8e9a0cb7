------------------------------- MODULE PciProofs -------------------------------
(***************************************************************************)
(* Theorems about the scan and the search, for a bus of any size, whatever *)
(* is plugged into it; and, in the second part, about the texts in which   *)
(* the scan writes its rows, and about the other texts of Logger.          *)
(***************************************************************************)
EXTENDS Pci, Logger, SequenceTheorems, FiniteSetTheorems, WellFoundedInduction, TLAPS

(* Where the loops are. *)
Walking ==
  at # "idle" => /\ place \in Place
                 /\ functionCount = CountOf(place[1], place[2])
                 /\ place[3] < functionCount

(* The loops have passed no VGA card. *)
NoVgaYet == at = "scan" => \A q \in Place : Is(q, 3, 0) => ~Before(q, place)

PciInv ==
  /\ layout \in Layouts /\ at \in {"idle", "scan", "find"}
  /\ rows \in Seq(Place) /\ s2_supportsVGA \in BOOLEAN /\ found \in Descriptor \cup {NULL}
  /\ Walking /\ NoVgaYet
  /\ EveryFunctionPrinted /\ FirstFound /\ DescriptorTrue

(* What the heap has lost when no call has been made, or the first is made. *)
LossInv ==
  /\ calls \in Nat /\ kept \in Nat
  /\ calls = 0 => at = "idle" /\ kept = 0
  /\ at # "idle" => IsFiniteSet(Lost)
  /\ BlocksLost

-----------------------------------------------------------------------------
(* The constants, and the places, of the loops. *)
LEMMA Sizes ==
  /\ Buses \in Nat \ {0} /\ Devices \in Nat \ {0} /\ Functions \in Nat \ {0}
  BY PciAssumption

LEMMA Coordinates ==
  ASSUME NEW p \in Place
  PROVE  /\ p[1] \in 0..(Buses - 1) /\ p[2] \in 0..(Devices - 1)
         /\ p[3] \in 0..(Functions - 1) /\ p = <<p[1], p[2], p[3]>>
  BY Sizes DEF Place

(* The order of the loops is a total order of the places. *)
LEMMA Order ==
  ASSUME NEW p \in Place, NEW q \in Place, NEW r \in Place
  PROVE  /\ Before(p, q) \/ p = q \/ Before(q, p)
         /\ ~(Before(p, q) /\ Before(q, p)) /\ ~Before(p, p)
         /\ Before(p, q) /\ Before(q, r) => Before(p, r)
<1>1. /\ p[1] \in Int /\ p[2] \in Int /\ p[3] \in Int
      /\ q[1] \in Int /\ q[2] \in Int /\ q[3] \in Int
      /\ r[1] \in Int /\ r[2] \in Int /\ r[3] \in Int
  BY Coordinates, Sizes
<1>2. p = <<p[1], p[2], p[3]>> /\ q = <<q[1], q[2], q[3]>>
  BY Coordinates
<1> QED BY <1>1, <1>2 DEF Before

-----------------------------------------------------------------------------
(* Arithmetic of the registers. *)
LEMMA HalvesOfWord ==
  ASSUME NEW a \in Byte, NEW b \in Byte
  PROVE  /\ (256 * a) \div 256 = a /\ (256 * a + b) \div 256 = a
         /\ (256 * a + b) % 256 = b /\ b % 256 = b
  BY DEF Byte

LEMMA HeaderBits ==
  ASSUME NEW h \in Byte, h < 128
  PROVE  h % 128 = h /\ (h + 128) % 128 = h /\ h + 0 = h
  BY DEF Byte

LEMMA PortBits ==
  ASSUME NEW a \in Nat, a % 4 = 0
  PROVE  (a + 1) % 2 = 1 /\ (a + 1) - ((a + 1) % 4) = a
  OBVIOUS

LEMMA MemoryBits ==
  ASSUME NEW a \in Nat, a % 16 = 0
  PROVE  /\ a % 2 = 0 /\ a - (a % 16) = a /\ (a \div 8) % 2 = 0
         /\ (a + 8) % 2 = 0 /\ (a + 8) - ((a + 8) % 16) = a /\ ((a + 8) \div 8) % 2 = 1
<1>1. PICK k \in Nat : a = 16 * k
  <2>1. a \div 16 \in Nat /\ a = 16 * (a \div 16)
    OBVIOUS
  <2> QED BY <2>1
<1>2. a \div 8 = 2 * k /\ (a + 8) \div 8 = 2 * k + 1
  BY <1>1
<1> QED BY <1>1, <1>2

LEMMA Offsets ==
  ASSUME NEW k \in 0..31
  PROVE  /\ (4 * k) % 4 = 0 /\ (4 * k + 2) % 4 = 2
         /\ (4 * k) - 0 = 4 * k /\ 4 * k + 2 - 2 = 4 * k /\ (4 * k) \div 2 = 2 * k
  OBVIOUS

LEMMA BarOffsets ==
  ASSUME NEW n \in 0..5
  PROVE  /\ 2 * (n + 4) = 8 + 2 * n /\ 2 * (n + 4) + 1 = 9 + 2 * n
         /\ 4 * (n + 4) = 16 + 4 * n /\ 4 * (n + 4) + 2 = 18 + 4 * n
         /\ n + 4 \in 0..31
         /\ (8 + 2 * n - 8) \div 2 = n /\ (9 + 2 * n - 8) \div 2 = n
         /\ (8 + 2 * n) % 2 = 0 /\ (9 + 2 * n) % 2 = 1
         /\ 8 + 2 * n \in 8..18 /\ 9 + 2 * n \in 9..19
  OBVIOUS

LEMMA BaseRegistersBound ==
  ASSUME NEW hw, IsFunction(hw)
  PROVE  /\ hw.bars \in Seq(BarType)
         /\ Len(hw.bars) \in Nat /\ Len(hw.bars) <= 6
         /\ hw.headerType # 0 => Len(hw.bars) <= 2
         /\ \A n \in Nat : n < Len(hw.bars) => n <= MaxBarN(hw.headerType)
<1>1. CASE hw.headerType = 0
  BY <1>1 DEF IsFunction, BaseRegisters, MaxBarN
<1>2. CASE hw.headerType = 1
  BY <1>2 DEF IsFunction, BaseRegisters, MaxBarN
<1>3. CASE hw.headerType \notin {0, 1}
  BY <1>3 DEF IsFunction, BaseRegisters, MaxBarN
<1> QED BY <1>1, <1>2, <1>3

-----------------------------------------------------------------------------
(* What is read of the configuration space of a function that is there. *)
LEMMA PairRead ==
  ASSUME NEW p, layout[p] # Absent, NEW k \in 0..31
  PROVE  /\ PCIReadW(p, 4 * k) = Register(p, 2 * k)
         /\ PCIReadW(p, 4 * k + 2) = Register(p, 2 * k + 1)
<1>1. DoubleWord(p, 4 * k) = <<Register(p, 2 * k), Register(p, 2 * k + 1)>>
  BY Offsets DEF DoubleWord
<1> QED BY <1>1, Offsets DEF PCIReadW

LEMMA WordsRead ==
  ASSUME NEW p, layout[p] # Absent, NEW hw, hw = Hardware[layout[p]], IsFunction(hw)
  PROVE  /\ PCIReadW(p, 0) = hw.vendorId
         /\ PCIReadW(p, 8) = 256 * hw.progIF
         /\ PCIReadW(p, 10) = 256 * hw.classCode + hw.subclass
         /\ PCIReadW(p, 14) = hw.headerType + (IF p[3] = 0 /\ Others(p) THEN 128 ELSE 0)
         /\ PCIReadW(p, 60) = hw.interruptLine
<1>1. /\ Register(p, 0) = hw.vendorId
      /\ Register(p, 4) = 256 * hw.progIF
      /\ Register(p, 5) = 256 * hw.classCode + hw.subclass
      /\ Register(p, 7) = hw.headerType + (IF p[3] = 0 /\ Others(p) THEN 128 ELSE 0)
  BY DEF Register
<1>2. Register(p, 30) = hw.interruptLine
  BY BaseRegistersBound DEF Register
<1>3. PCIReadW(p, 4 * 0) = Register(p, 2 * 0)
  BY PairRead
<1>4. /\ PCIReadW(p, 4 * 2) = Register(p, 2 * 2)
      /\ PCIReadW(p, 4 * 2 + 2) = Register(p, 2 * 2 + 1)
  BY PairRead
<1>5. PCIReadW(p, 4 * 3 + 2) = Register(p, 2 * 3 + 1)
  BY PairRead
<1>6. PCIReadW(p, 4 * 15) = Register(p, 2 * 15)
  BY PairRead
<1> QED BY <1>1, <1>2, <1>3, <1>4, <1>5, <1>6

LEMMA RegisterOfBar ==
  ASSUME NEW p, NEW hw, hw = Hardware[layout[p]], IsFunction(hw),
         NEW w \in Nat, w >= 8, w < 20, NEW n \in Nat, (w - 8) \div 2 = n, n < Len(hw.bars)
  PROVE  Register(p, w) = BarWord(hw.bars[n + 1], w % 2 = 1)
<1>1. w # 0 /\ w # 4 /\ w # 5 /\ w # 7
  OBVIOUS
<1> QED BY <1>1 DEF Register

LEMMA BarWordsRead ==
  ASSUME NEW p, layout[p] # Absent, NEW hw, hw = Hardware[layout[p]], IsFunction(hw),
         NEW n \in 0..5, n < Len(hw.bars)
  PROVE  /\ PCIReadW(p, 16 + 4 * n) = BarWord(hw.bars[n + 1], FALSE)
         /\ PCIReadW(p, 18 + 4 * n) = BarWord(hw.bars[n + 1], TRUE)
<1>1. PCIReadW(p, 16 + 4 * n) = Register(p, 8 + 2 * n)
      /\ PCIReadW(p, 18 + 4 * n) = Register(p, 9 + 2 * n)
  <2>1. PCIReadW(p, 4 * (n + 4)) = Register(p, 2 * (n + 4))
        /\ PCIReadW(p, 4 * (n + 4) + 2) = Register(p, 2 * (n + 4) + 1)
    BY PairRead, BarOffsets
  <2> QED BY <2>1, BarOffsets
<1>2. Len(hw.bars) \in Nat /\ Len(hw.bars) <= 6
  BY BaseRegistersBound
<1>3. Register(p, 8 + 2 * n) = BarWord(hw.bars[n + 1], FALSE)
  <2>1. Register(p, 8 + 2 * n) = BarWord(hw.bars[n + 1], (8 + 2 * n) % 2 = 1)
    BY BarOffsets, RegisterOfBar
  <2> QED BY <2>1, BarOffsets DEF BarWord
<1>4. Register(p, 9 + 2 * n) = BarWord(hw.bars[n + 1], TRUE)
  <2>1. Register(p, 9 + 2 * n) = BarWord(hw.bars[n + 1], (9 + 2 * n) % 2 = 1)
    BY BarOffsets, RegisterOfBar
  <2> QED BY <2>1, BarOffsets DEF BarWord
<1> QED BY <1>1, <1>3, <1>4

LEMMA OnesRead ==
  ASSUME NEW p, layout[p] = Absent, NEW k \in 0..31
  PROVE  PCIReadW(p, 4 * k) = 65535 /\ PCIReadW(p, 4 * k + 2) = 65535
<1>1. DoubleWord(p, 4 * k) = <<65535, 65535>>
  BY DEF DoubleWord
<1> QED BY <1>1, Offsets DEF PCIReadW

(* The base address registers of a descriptor are those of the function. *)
LEMMA BarRead ==
  ASSUME NEW p, layout[p] # Absent, NEW hw, hw = Hardware[layout[p]], IsFunction(hw),
         NEW n \in 0..5, n < Len(hw.bars)
  PROVE  PCIGetBaseAddressRegister(p, hw.headerType, n) = hw.bars[n + 1]
<1> DEFINE bar == hw.bars[n + 1]
<1>1. /\ PCIReadW(p, 16 + 4 * n) = BarWord(bar, FALSE)
      /\ PCIReadW(p, 18 + 4 * n) = BarWord(bar, TRUE)
  BY BarWordsRead
<1>2. n + 1 \in 1..Len(hw.bars)
  BY BaseRegistersBound
<1>3. bar \in BarType /\ TypeBitsClear(bar)
  BY <1>2 DEF IsFunction
<1>4. ~(n > MaxBarN(hw.headerType))
  <2>1. n <= MaxBarN(hw.headerType)
    BY BaseRegistersBound
  <2>2. MaxBarN(hw.headerType) \in {5, 1, 0}
    BY DEF MaxBarN
  <2> QED BY <2>1, <2>2
<1> HIDE DEF bar
<1>5. /\ bar.low \in Nat /\ bar.io \in BOOLEAN /\ bar.prefetchable \in BOOLEAN
      /\ bar = [io |-> bar.io, low |-> bar.low, high |-> bar.high,
                prefetchable |-> bar.prefetchable]
  BY <1>3 DEF BarType
<1>6. PCIReadW(p, 18 + 4 * n) = bar.high
  BY <1>1 DEF BarWord
<1>7. CASE bar.io
  <2>1. PCIReadW(p, 16 + 4 * n) = bar.low + 1
    BY <1>1, <1>7 DEF BarWord
  <2>2. bar.low % 4 = 0 /\ bar.prefetchable = FALSE
    BY <1>3, <1>5, <1>7 DEF TypeBitsClear
  <2>3. (bar.low + 1) % 2 = 1 /\ (bar.low + 1) - ((bar.low + 1) % 4) = bar.low
    BY <2>2, <1>5, PortBits
  <2>4. PCIGetBaseAddressRegister(p, hw.headerType, n)
          = [io |-> TRUE, low |-> bar.low, high |-> bar.high, prefetchable |-> FALSE]
    BY <2>1, <2>3, <1>4, <1>6 DEF PCIGetBaseAddressRegister
  <2>5. bar.io = TRUE
    BY <1>5, <1>7
  <2> QED BY <2>2, <2>4, <2>5, <1>5 DEF bar
<1>8. CASE ~bar.io
  <2>1. bar.low % 16 = 0 /\ bar.io = FALSE
    BY <1>3, <1>5, <1>8 DEF TypeBitsClear
  <2>2. CASE bar.prefetchable
    <3>1. PCIReadW(p, 16 + 4 * n) = bar.low + 8
      BY <1>1, <1>8, <2>2 DEF BarWord
    <3>2. PCIGetBaseAddressRegister(p, hw.headerType, n)
            = [io |-> FALSE, low |-> bar.low, high |-> bar.high, prefetchable |-> TRUE]
      <4>1. /\ (bar.low + 8) % 2 = 0 /\ (bar.low + 8) - ((bar.low + 8) % 16) = bar.low
            /\ ((bar.low + 8) \div 8) % 2 = 1
        BY <2>1, <1>5, MemoryBits
      <4>2. PCIGetBaseAddressRegister(p, hw.headerType, n)
              = [io |-> (bar.low + 8) % 2 = 1, low |-> bar.low, high |-> bar.high,
                 prefetchable |-> ((bar.low + 8) \div 8) % 2 = 1]
        BY <3>1, <4>1, <1>4, <1>6 DEF PCIGetBaseAddressRegister
      <4>3. ((bar.low + 8) % 2 = 1) = FALSE
        BY <4>1
      <4>4. (((bar.low + 8) \div 8) % 2 = 1) = TRUE
        BY <4>1
      <4> QED BY <4>2, <4>3, <4>4, Zenon
    <3>3. bar.prefetchable = TRUE
      BY <2>2, <1>5
    <3> QED BY <3>2, <3>3, <2>1, <1>5 DEF bar
  <2>3. CASE ~bar.prefetchable
    <3>1. PCIReadW(p, 16 + 4 * n) = bar.low
      <4>1. PCIReadW(p, 16 + 4 * n) = bar.low + 0
        BY <1>1, <1>8, <2>3 DEF BarWord
      <4> QED BY <4>1, <1>5
    <3>2. PCIGetBaseAddressRegister(p, hw.headerType, n)
            = [io |-> FALSE, low |-> bar.low, high |-> bar.high, prefetchable |-> FALSE]
      <4>1. /\ (bar.low) % 2 = 0 /\ (bar.low) - ((bar.low) % 16) = bar.low
            /\ ((bar.low) \div 8) % 2 = 0
        BY <2>1, <1>5, MemoryBits
      <4>2. PCIGetBaseAddressRegister(p, hw.headerType, n)
              = [io |-> (bar.low) % 2 = 1, low |-> bar.low, high |-> bar.high,
                 prefetchable |-> ((bar.low) \div 8) % 2 = 1]
        BY <3>1, <4>1, <1>4, <1>6 DEF PCIGetBaseAddressRegister
      <4>3. ((bar.low) % 2 = 1) = FALSE
        BY <4>1
      <4>4. (((bar.low) \div 8) % 2 = 1) = FALSE
        BY <4>1
      <4> QED BY <4>2, <4>3, <4>4, Zenon
    <3>3. bar.prefetchable = FALSE
      BY <2>3, <1>5
    <3> QED BY <3>2, <3>3, <2>1, <1>5 DEF bar
  <2> QED BY <2>2, <2>3
<1> QED BY <1>7, <1>8

(* The descriptor of a function that is there says what it is. *)
LEMMA Described ==
  ASSUME NEW p, layout[p] # Absent, NEW hw, hw = Hardware[layout[p]], IsFunction(hw),
         NEW dev, dev = PCIGetDeviceDescriptor(p)
  PROVE  /\ dev.place = p /\ dev.vendorId = hw.vendorId /\ dev.progIF = hw.progIF
         /\ dev.classCode = hw.classCode /\ dev.subclass = hw.subclass
         /\ dev.headerType = hw.headerType /\ dev.interruptLine = hw.interruptLine
         /\ \A n \in 1..Len(hw.bars) :
              n - 1 \in DOMAIN dev.bars /\ dev.bars[n - 1] = hw.bars[n]
<1>1. /\ PCIReadW(p, 0) = hw.vendorId
      /\ PCIReadW(p, 8) = 256 * hw.progIF
      /\ PCIReadW(p, 10) = 256 * hw.classCode + hw.subclass
      /\ PCIReadW(p, 14) = hw.headerType + (IF p[3] = 0 /\ Others(p) THEN 128 ELSE 0)
      /\ PCIReadW(p, 60) = hw.interruptLine
  BY WordsRead
<1>2. /\ hw.progIF \in Byte /\ hw.classCode \in Byte /\ hw.subclass \in Byte
      /\ hw.interruptLine \in Byte /\ hw.headerType \in Byte /\ hw.headerType < 128
  BY DEF IsFunction
<1>3. HeaderType(p) = hw.headerType
  BY <1>1, <1>2, HeaderBits DEF HeaderType
<1>4. /\ dev.place = p /\ dev.vendorId = hw.vendorId /\ dev.progIF = hw.progIF
      /\ dev.classCode = hw.classCode /\ dev.subclass = hw.subclass
      /\ dev.headerType = hw.headerType /\ dev.interruptLine = hw.interruptLine
  BY <1>1, <1>2, <1>3, HalvesOfWord DEF PCIGetDeviceDescriptor
<1>5. dev.bars = [n \in 0..(IF hw.headerType = 0 THEN 5 ELSE 1) |->
                    PCIGetBaseAddressRegister(p, hw.headerType, n)]
  BY <1>3 DEF PCIGetDeviceDescriptor
<1>6. ASSUME NEW n \in 1..Len(hw.bars)
      PROVE  n - 1 \in DOMAIN dev.bars /\ dev.bars[n - 1] = hw.bars[n]
  <2>1. Len(hw.bars) \in Nat /\ Len(hw.bars) <= 6 /\ (hw.headerType # 0 => Len(hw.bars) <= 2)
    BY BaseRegistersBound
  <2>2. n - 1 \in 0..5 /\ n - 1 < Len(hw.bars) /\ n - 1 + 1 = n
        /\ (hw.headerType # 0 => n - 1 \in 0..1)
    BY <2>1
  <2>3. PCIGetBaseAddressRegister(p, hw.headerType, n - 1) = hw.bars[n]
    <3>1. PCIGetBaseAddressRegister(p, hw.headerType, n - 1) = hw.bars[n - 1 + 1]
      BY <2>2, BarRead
    <3> QED BY <3>1, <2>2
  <2>4. CASE hw.headerType = 0
    BY <2>2, <2>3, <2>4, <1>5
  <2>5. CASE hw.headerType # 0
    BY <2>2, <2>3, <2>5, <1>5
  <2> QED BY <2>4, <2>5
<1> QED BY <1>4, <1>6

-----------------------------------------------------------------------------
(* A place of the loops, and what is plugged in there. *)
LEMMA PluggedIn ==
  ASSUME layout \in Layouts, NEW p \in Place, layout[p] # Absent
  PROVE  IsFunction(Hardware[layout[p]])
<1>1. layout[p] \in DOMAIN Hardware
  BY PciAssumption
<1> QED BY <1>1, PciAssumption

(* The vendor number of a descriptor tells whether anything is there. *)
LEMMA VendorTells ==
  ASSUME layout \in Layouts, NEW p \in Place
  PROVE  NobodyThere(PCIGetDeviceDescriptor(p)) <=> ~Present(p)
<1>1. CASE layout[p] = Absent
  <2>1. PCIReadW(p, 4 * 0) = 65535
    BY <1>1, OnesRead
  <2>2. PCIGetDeviceDescriptor(p).vendorId = 65535
    BY <2>1 DEF PCIGetDeviceDescriptor
  <2> QED BY <2>2, <1>1 DEF NobodyThere, Present
<1>2. CASE layout[p] # Absent
  <2>1. IsFunction(Hardware[layout[p]])
    BY <1>2, PluggedIn
  <2>2. PCIGetDeviceDescriptor(p).vendorId = Hardware[layout[p]].vendorId
    BY <2>1, <1>2, Described
  <2>3. Hardware[layout[p]].vendorId # 65535
    BY <2>1 DEF IsFunction
  <2> QED BY <2>2, <2>3, <1>2 DEF NobodyThere, Present
<1> QED BY <1>1, <1>2

(* A device taken to have one function has no other. *)
LEMMA SingleFunction ==
  ASSUME layout \in Layouts, NEW b \in 0..(Buses - 1), NEW d \in 0..(Devices - 1),
         ~PCIIsDeviceMultifunction(b, d), NEW f \in 1..(Functions - 1)
  PROVE  layout[<<b, d, f>>] = Absent
<1> DEFINE p == <<b, d, 0>>
<1>1. p \in Place
  BY Sizes DEF Place
<1>2. ~(PCIReadW(p, 14) % 256 >= 128)
  BY DEF PCIIsDeviceMultifunction
<1>3. layout[p] # Absent
  <2>1. SUFFICES ASSUME layout[p] = Absent PROVE FALSE
    OBVIOUS
  <2>2. PCIReadW(p, 4 * 3 + 2) = 65535
    BY <2>1, OnesRead
  <2> QED BY <2>2, <1>2
<1>4. ~Others(p)
  <2>1. SUFFICES ASSUME Others(p) PROVE FALSE
    OBVIOUS
  <2> DEFINE hw == Hardware[layout[p]]
  <2>2. IsFunction(hw)
    BY <1>1, <1>3, PluggedIn
  <2>3. PCIReadW(p, 14) = hw.headerType + 128
    BY <1>3, <2>1, <2>2, WordsRead
  <2>4. hw.headerType \in Byte /\ hw.headerType < 128
    BY <2>2 DEF IsFunction
  <2> QED BY <2>3, <2>4, <1>2 DEF Byte
<1> QED BY <1>4 DEF Others

(* The functions a call examines are those its loops reach, and every one  *)
(* that is there is examined.                                              *)
LEMMA ExaminedReached ==
  ASSUME layout \in Layouts, NEW p \in Place
  PROVE  /\ Examined(p) <=> p[3] < CountOf(p[1], p[2])
         /\ layout[p] # Absent => Examined(p)
<1> DEFINE b == p[1]
           d == p[2]
           first == <<b, d, 0>>
<1>1. b \in 0..(Buses - 1) /\ d \in 0..(Devices - 1) /\ p[3] \in 0..(Functions - 1)
      /\ p = <<b, d, p[3]>> /\ first \in Place
  BY Coordinates, Sizes DEF Place
<1>2. Others(p) <=> Others(first)
  BY DEF Others
<1>3. layout[p] # Absent => Examined(p)
  <2>1. CASE p[3] = 0
    BY <2>1 DEF Examined
  <2>2. CASE p[3] # 0
    <3>1. p[3] \in 1..(Functions - 1)
      BY <1>1, <2>2, Sizes
    <3>2. layout[p] # Absent => Others(p)
      BY <1>1, <3>1 DEF Others
    <3> QED BY <3>2 DEF Examined
  <2> QED BY <2>1, <2>2
<1>4. CASE PCIIsDeviceMultifunction(b, d)
  <2>1. p[3] < CountOf(b, d)
    BY <1>1, <1>4, Sizes DEF CountOf
  <2>2. SUFFICES ASSUME layout[first] # Absent, ~Others(p) PROVE p[3] = 0
    BY <1>3, <2>1 DEF Examined
  <2> DEFINE hw == Hardware[layout[first]]
  <2>3. IsFunction(hw)
    BY <1>1, <2>2, PluggedIn
  <2>4. PCIReadW(first, 14) = hw.headerType + 0
    BY <1>2, <2>2, <2>3, WordsRead
  <2>5. hw.headerType \in Byte /\ hw.headerType < 128
    BY <2>3 DEF IsFunction
  <2>6. PCIReadW(first, 14) % 256 >= 128
    BY <1>4 DEF PCIIsDeviceMultifunction
  <2> HIDE DEF hw
  <2> QED BY <2>4, <2>5, <2>6 DEF Byte
<1>5. CASE ~PCIIsDeviceMultifunction(b, d)
  <2>1. \A f \in 1..(Functions - 1) : layout[<<b, d, f>>] = Absent
    BY <1>1, <1>5, SingleFunction
  <2>2. ~Others(p)
    BY <2>1 DEF Others
  <2>3. layout[first] # Absent
    <3>1. SUFFICES ASSUME layout[first] = Absent PROVE FALSE
      OBVIOUS
    <3>2. PCIReadW(first, 4 * 3 + 2) = 65535
      BY <3>1, OnesRead
    <3> QED BY <3>2, <1>5 DEF PCIIsDeviceMultifunction
  <2>4. Examined(p) <=> p[3] = 0
    BY <2>2, <2>3 DEF Examined
  <2> QED BY <1>1, <1>3, <1>5, <2>4, Sizes DEF CountOf
<1> QED BY <1>3, <1>4, <1>5

(* Going on passes the function looked at, and no other that is examined. *)
LEMMA GoesOn ==
  ASSUME layout \in Layouts, place \in Place, functionCount = CountOf(place[1], place[2]),
         place[3] < functionCount, NextFunction
  PROVE  \/ /\ place' \in Place /\ at' = at
            /\ functionCount' = CountOf(place'[1], place'[2])
            /\ place'[3] < functionCount'
            /\ \A p \in Place : Examined(p) =>
                 (Before(p, place') <=> Before(p, place) \/ p = place)
         \/ /\ at' = "idle"
            /\ \A p \in Place : Examined(p) => Before(p, place) \/ p = place
<1> DEFINE b == place[1]
           d == place[2]
           f == place[3]
<1>1. b \in 0..(Buses - 1) /\ d \in 0..(Devices - 1) /\ f \in 0..(Functions - 1)
      /\ place = <<b, d, f>>
  BY Coordinates
<1>2. \A x, y : CountOf(x, y) \in {1, Functions}
  BY DEF CountOf
<1>3. ASSUME NEW p \in Place, Examined(p), p[1] = b, p[2] = d
      PROVE  p[3] < functionCount
  BY <1>3, ExaminedReached
<1>4. CASE f + 1 < functionCount /\ place' = <<b, d, f + 1>> /\ UNCHANGED <<functionCount, at>>
  <2>1. place' \in Place /\ place'[1] = b /\ place'[2] = d /\ place'[3] = f + 1
    BY <1>1, <1>2, <1>4, Sizes DEF Place
  <2>2. ASSUME NEW p \in Place
        PROVE  Before(p, place') <=> Before(p, place) \/ p = place
    BY <2>1, <1>1, <2>2, Sizes, Coordinates DEF Before
  <2> QED BY <2>1, <2>2, <1>4
<1>5. ASSUME f + 1 >= functionCount, NEW p \in Place, Examined(p)
      PROVE  (p[1] < b \/ (p[1] = b /\ p[2] <= d)) <=> Before(p, place) \/ p = place
  <2>1. p[1] \in Int /\ p[2] \in Int /\ p[3] \in Int /\ p = <<p[1], p[2], p[3]>>
    BY Coordinates, Sizes
  <2>2. p[1] = b /\ p[2] = d => p[3] <= f
    BY <1>3, <1>5, <1>1, <1>2, <2>1, Sizes
  <2> QED BY <2>1, <2>2, <1>1, Sizes DEF Before
<1>6. ASSUME f + 1 >= functionCount, d + 1 < Devices, EnterDevice(b, d + 1), UNCHANGED at
      PROVE  /\ place' \in Place /\ functionCount' = CountOf(place'[1], place'[2])
             /\ place'[3] < functionCount'
             /\ \A p \in Place : Examined(p) =>
                  (Before(p, place') <=> Before(p, place) \/ p = place)
  <2>1. place' \in Place /\ place'[1] = b /\ place'[2] = d + 1 /\ place'[3] = 0
        /\ functionCount' = CountOf(b, d + 1)
    BY <1>1, <1>6, Sizes DEF EnterDevice, Place
  <2>2. ASSUME NEW p \in Place
        PROVE  Before(p, place') <=> p[1] < b \/ (p[1] = b /\ p[2] <= d)
    BY <2>1, <2>2, <1>1, Sizes, Coordinates DEF Before
  <2> QED BY <2>1, <2>2, <1>2, <1>5, <1>6, Sizes
<1>7. ASSUME f + 1 >= functionCount, d + 1 = Devices, b + 1 < Buses, EnterDevice(b + 1, 0),
             UNCHANGED at
      PROVE  /\ place' \in Place /\ functionCount' = CountOf(place'[1], place'[2])
             /\ place'[3] < functionCount'
             /\ \A p \in Place : Examined(p) =>
                  (Before(p, place') <=> Before(p, place) \/ p = place)
  <2>1. place' \in Place /\ place'[1] = b + 1 /\ place'[2] = 0 /\ place'[3] = 0
        /\ functionCount' = CountOf(b + 1, 0)
    BY <1>1, <1>7, Sizes DEF EnterDevice, Place
  <2>2. ASSUME NEW p \in Place
        PROVE  Before(p, place') <=> p[1] < b \/ (p[1] = b /\ p[2] <= d)
    BY <2>1, <2>2, <1>1, <1>7, Sizes, Coordinates DEF Before
  <2> QED BY <2>1, <2>2, <1>2, <1>5, <1>7, Sizes
<1>8. ASSUME f + 1 >= functionCount, d + 1 = Devices, b + 1 = Buses, NEW p \in Place,
             Examined(p)
      PROVE  Before(p, place) \/ p = place
  <2>1. p[1] < b \/ (p[1] = b /\ p[2] <= d)
    BY <1>1, <1>8, Sizes, Coordinates
  <2> QED BY <2>1, <1>5, <1>8
<1> QED BY <1>4, <1>6, <1>7, <1>8 DEF NextFunction

-----------------------------------------------------------------------------
(* The descriptor of a function that is there is one. *)
LEMMA WordIsNumber ==
  ASSUME NEW p, layout[p] # Absent, IsFunction(Hardware[layout[p]]), NEW n \in 0..5
  PROVE  PCIReadW(p, 16 + 4 * n) \in Nat /\ PCIReadW(p, 18 + 4 * n) \in Nat
<1> DEFINE hw == Hardware[layout[p]]
<1>1. PCIReadW(p, 16 + 4 * n) = Register(p, 8 + 2 * n)
      /\ PCIReadW(p, 18 + 4 * n) = Register(p, 9 + 2 * n)
  <2>1. PCIReadW(p, 4 * (n + 4)) = Register(p, 2 * (n + 4))
        /\ PCIReadW(p, 4 * (n + 4) + 2) = Register(p, 2 * (n + 4) + 1)
    BY PairRead, BarOffsets
  <2> QED BY <2>1, BarOffsets
<1>2. hw.bars \in Seq(BarType) /\ Len(hw.bars) \in Nat
  BY BaseRegistersBound
<1>3. CASE n < Len(hw.bars)
  <2>1. hw.bars[n + 1] \in BarType
    BY <1>2, <1>3
  <2>2. \A high \in BOOLEAN : BarWord(hw.bars[n + 1], high) \in Nat
    BY <2>1 DEF BarWord, BarType
  <2> QED BY <2>2, <1>3, BarWordsRead
<1>4. CASE ~(n < Len(hw.bars))
  <2>1. ASSUME NEW w \in Nat, w >= 8, w < 20, (w - 8) \div 2 = n
        PROVE  Register(p, w) = 0
    <3>1. w # 0 /\ w # 4 /\ w # 5 /\ w # 7 /\ w # 30
      BY <2>1
    <3> QED BY <3>1, <2>1, <1>4 DEF Register
  <2>2. Register(p, 8 + 2 * n) = 0 /\ Register(p, 9 + 2 * n) = 0
    BY <2>1, BarOffsets
  <2> QED BY <2>2, <1>1
<1> QED BY <1>3, <1>4

LEMMA BarTyped ==
  ASSUME NEW p, NEW h, NEW n \in 0..5,
         PCIReadW(p, 16 + 4 * n) \in Nat, PCIReadW(p, 18 + 4 * n) \in Nat
  PROVE  IF n > MaxBarN(h) THEN PCIGetBaseAddressRegister(p, h, n) = NULL
         ELSE PCIGetBaseAddressRegister(p, h, n) \in BarType
<1> DEFINE low == PCIReadW(p, 16 + 4 * n)
           high == PCIReadW(p, 18 + 4 * n)
<1>1. PCIGetBaseAddressRegister(p, h, n) =
        IF n > MaxBarN(h) THEN NULL
        ELSE [io |-> low % 2 = 1,
              low |-> low - (low % (IF low % 2 = 1 THEN 4 ELSE 16)),
              high |-> high,
              prefetchable |-> ~(low % 2 = 1) /\ (low \div 8) % 2 = 1]
  BY DEF PCIGetBaseAddressRegister
<1>2. low \in Nat /\ high \in Nat
  OBVIOUS
<1> HIDE DEF low, high
<1>3. low - (low % 4) \in Nat /\ low - (low % 16) \in Nat
  BY <1>2
<1>4. low - (low % (IF low % 2 = 1 THEN 4 ELSE 16)) \in Nat
  BY <1>3
<1>5. (low % 2 = 1) \in BOOLEAN /\ (~(low % 2 = 1) /\ (low \div 8) % 2 = 1) \in BOOLEAN
  OBVIOUS
<1> QED BY <1>1, <1>2, <1>4, <1>5 DEF BarType

LEMMA DescriptorTyped ==
  ASSUME NEW p \in Place, layout[p] # Absent, IsFunction(Hardware[layout[p]])
  PROVE  PCIGetDeviceDescriptor(p) \in Descriptor
<1> DEFINE hw == Hardware[layout[p]]
           dev == PCIGetDeviceDescriptor(p)
<1>1. /\ dev.place = p /\ dev.vendorId = hw.vendorId /\ dev.progIF = hw.progIF
      /\ dev.classCode = hw.classCode /\ dev.subclass = hw.subclass
      /\ dev.headerType = hw.headerType /\ dev.interruptLine = hw.interruptLine
  BY Described
<1>2. /\ hw.vendorId \in Nat /\ hw.progIF \in Byte /\ hw.classCode \in Byte
      /\ hw.subclass \in Byte /\ hw.headerType \in Byte /\ hw.interruptLine \in Byte
  BY DEF IsFunction
<1>3. ASSUME NEW h, NEW n \in 0..5
      PROVE  PCIGetBaseAddressRegister(p, h, n) \in BarType \cup {NULL}
  BY WordIsNumber, BarTyped
<1>4. dev.bars \in [0..1 -> BarType \cup {NULL}] \cup [0..5 -> BarType \cup {NULL}]
  <2>1. dev.bars = [n \in 0..(IF HeaderType(p) = 0 THEN 5 ELSE 1) |->
                      PCIGetBaseAddressRegister(p, HeaderType(p), n)]
    BY DEF PCIGetDeviceDescriptor
  <2>2. CASE HeaderType(p) = 0
    <3>1. dev.bars \in [0..5 -> BarType \cup {NULL}]
      BY <2>1, <2>2, <1>3
    <3> QED BY <3>1
  <2>3. CASE HeaderType(p) # 0
    <3>1. dev.bars = [n \in 0..1 |-> PCIGetBaseAddressRegister(p, HeaderType(p), n)]
      BY <2>1, <2>3
    <3>2. \A n \in 0..1 : n \in 0..5
      OBVIOUS
    <3>3. dev.bars \in [0..1 -> BarType \cup {NULL}]
      BY <3>1, <3>2, <1>3
    <3> QED BY <3>3
  <2> QED BY <2>2, <2>3
<1>5. dev = [place |-> dev.place, vendorId |-> dev.vendorId, progIF |-> dev.progIF,
             classCode |-> dev.classCode, subclass |-> dev.subclass,
             headerType |-> dev.headerType, interruptLine |-> dev.interruptLine,
             bars |-> dev.bars]
  BY DEF PCIGetDeviceDescriptor
<1> HIDE DEF dev, hw
<1> QED BY <1>1, <1>2, <1>4, <1>5 DEF Descriptor, dev

-----------------------------------------------------------------------------
(* What is plugged in stays, and what is said of it. *)
LEMMA Steady ==
  ASSUME layout' = layout
  PROVE  /\ \A p : Present(p)' <=> Present(p)
         /\ \A p, c, s : Is(p, c, s)' <=> Is(p, c, s)
         /\ want' = want => \A p : Suitable(p)' <=> Suitable(p)
<1>1. \A p : Present(p)' <=> Present(p)
  BY DEF Present
<1>2. \A p, c, s : Is(p, c, s)' <=> Is(p, c, s)
  BY DEF Is, Present
<1>3. ASSUME want' = want PROVE \A p : Suitable(p)' <=> Suitable(p)
  BY <1>3 DEF Suitable, Is, Present
<1> QED BY <1>1, <1>2, <1>3

(* A call goes on past the function it has looked at. *)
LEMMA WalksOn ==
  ASSUME PciInv, at # "idle", NextFunction, layout' = layout
  PROVE  /\ at' \in {at, "idle"} /\ Walking'
         /\ at' # "idle" => /\ place' \in Place
                            /\ \A p \in Place : Present(p) =>
                                 (Before(p, place') <=> Before(p, place) \/ p = place)
         /\ at' = "idle" => \A p \in Place : Present(p) => Before(p, place) \/ p = place
<1>1. /\ layout \in Layouts /\ place \in Place /\ place[3] < functionCount
      /\ functionCount = CountOf(place[1], place[2])
  BY DEF PciInv, Walking
<1>2. CASE /\ place' \in Place /\ at' = at
           /\ functionCount' = CountOf(place'[1], place'[2])
           /\ place'[3] < functionCount'
           /\ \A p \in Place : Examined(p) =>
                (Before(p, place') <=> Before(p, place) \/ p = place)
  <2>1. functionCount' = CountOf(place[1], place[2])'
    BY <1>2 DEF CountOf, PCIIsDeviceMultifunction, PCIReadW, DoubleWord, Register, Others
  <2> QED BY <1>1, <1>2, <2>1, ExaminedReached DEF Walking, Present
<1>3. CASE /\ at' = "idle"
           /\ \A p \in Place : Examined(p) => Before(p, place) \/ p = place
  BY <1>1, <1>3, ExaminedReached DEF Walking, Present
<1> QED BY <1>1, <1>2, <1>3, GoesOn

(* A call begins at the first place of the bus. *)
LEMMA Begins ==
  ASSUME PciInv, EnterDevice(0, 0), layout' = layout
  PROVE  Walking' /\ \A p \in Place : ~Before(p, place')
<1>1. place' = <<0, 0, 0>> /\ functionCount' = CountOf(0, 0)
  BY DEF EnterDevice
<1>2. place' \in Place
  BY <1>1, Sizes DEF Place
<1>3. CountOf(0, 0) \in {1, Functions}
  BY DEF CountOf
<1>4. functionCount' = CountOf(place[1], place[2])'
  BY <1>1 DEF CountOf, PCIIsDeviceMultifunction, PCIReadW, DoubleWord, Register, Others
<1>5. ASSUME NEW p \in Place PROVE ~Before(p, place')
  BY <1>1, Coordinates, Sizes DEF Before
<1> QED BY <1>1, <1>2, <1>3, <1>4, <1>5, Sizes DEF Walking

(* The screen after a step that prints nothing, outside a scan. *)
LEMMA ScreenKept ==
  ASSUME EveryFunctionPrinted, at # "scan", at' # "scan", layout' = layout, rows' = rows,
         s2_supportsVGA' = s2_supportsVGA
  PROVE  EveryFunctionPrinted'
  BY Steady DEF EveryFunctionPrinted, Shown

(* What a search has found after a step of another call. *)
LEMMA FoundKept ==
  ASSUME DescriptorTrue, layout' = layout, found' = found
  PROVE  DescriptorTrue'
  BY DEF DescriptorTrue

LEMMA StartScanKeeps ==
  ASSUME PciInv, StartScan
  PROVE  PciInv'
<1> USE DEF StartScan
<1>1. Walking' /\ \A p \in Place : ~Before(p, place')
  BY Begins
<1>2. NoVgaYet'
  BY <1>1 DEF NoVgaYet
<1>3. EveryFunctionPrinted'
  <2>1. Shown' = {}
    BY DEF Shown
  <2>2. \A m, n \in DOMAIN rows' : m < n => Before(rows'[m], rows'[n])
    OBVIOUS
  <2>3. s2_supportsVGA' => \E p \in Place : Is(p, 3, 0)'
    BY Steady DEF PciInv, EveryFunctionPrinted
  <2> QED BY <1>1, <2>1, <2>2, <2>3 DEF EveryFunctionPrinted
<1>4. FirstFound'
  BY Steady DEF PciInv, FirstFound
<1>5. rows' \in Seq(Place)
  OBVIOUS
<1> QED BY <1>1, <1>2, <1>3, <1>4, <1>5, FoundKept DEF PciInv

LEMMA StartFindKeeps ==
  ASSUME PciInv, StartFind
  PROVE  PciInv'
<1> USE DEF StartFind
<1>1. Walking' /\ \A p \in Place : ~Before(p, place')
  BY Begins
<1>2. EveryFunctionPrinted'
  BY ScreenKept DEF PciInv
<1>3. FirstFound' /\ DescriptorTrue'
  BY <1>1 DEF FirstFound, DescriptorTrue
<1> QED BY <1>1, <1>2, <1>3 DEF PciInv, NoVgaYet

(* A scan that goes on has printed the function it looked at, if there was *)
(* one, behind all before it.                                              *)
LEMMA ScanGoesOn ==
  ASSUME PciInv, at = "scan", NextFunction, layout' = layout,
         s2_supportsVGA' = s2_supportsVGA, ~Is(place, 3, 0),
         \/ Present(place) /\ rows' = Append(rows, place)
         \/ ~Present(place) /\ rows' = rows
  PROVE  rows' \in Seq(Place) /\ NoVgaYet' /\ EveryFunctionPrinted'
<1> DEFINE Printed == {p \in Place : /\ Present(p)
                                   /\ \A q \in Place : Is(q, 3, 0) => Before(p, q)}
<1>1. /\ rows \in Seq(Place) /\ place \in Place /\ s2_supportsVGA \in BOOLEAN
      /\ \A m, n \in DOMAIN rows : m < n => Before(rows[m], rows[n])
      /\ Shown = {p \in Printed : Before(p, place)}
      /\ s2_supportsVGA => \E p \in Place : Is(p, 3, 0)
      /\ \A q \in Place : Is(q, 3, 0) => ~Before(q, place)
  BY DEF PciInv, Walking, NoVgaYet, EveryFunctionPrinted
<1>2. \A q \in Place : Is(q, 3, 0) => Before(place, q)
  BY <1>1, Order
<1>3. rows' \in Seq(Place) /\ \A m, n \in DOMAIN rows' : m < n => Before(rows'[m], rows'[n])
  <2>1. CASE Present(place) /\ rows' = Append(rows, place)
    <3>1. /\ rows' \in Seq(Place) /\ DOMAIN rows' = 1..(Len(rows) + 1) /\ Len(rows) \in Nat
          /\ rows'[Len(rows) + 1] = place
          /\ \A n \in 1..Len(rows) : rows'[n] = rows[n] /\ rows[n] \in Shown
      BY <1>1, <2>1 DEF Shown
    <3>2. \A n \in 1..Len(rows) : Before(rows'[n], place)
      BY <1>1, <3>1
    <3>3. ASSUME NEW m \in DOMAIN rows', NEW n \in DOMAIN rows', m < n
          PROVE  Before(rows'[m], rows'[n])
      <4>1. m \in 1..Len(rows)
        BY <3>1, <3>3
      <4>2. CASE n = Len(rows) + 1
        BY <3>1, <3>2, <4>1, <4>2
      <4>3. CASE n \in 1..Len(rows)
        BY <1>1, <3>1, <3>3, <4>1, <4>3
      <4> QED BY <3>1, <4>2, <4>3
    <3> QED BY <3>1, <3>3
  <2>2. CASE ~Present(place) /\ rows' = rows
    BY <1>1, <2>2
  <2> QED BY <2>1, <2>2
<1>4. Shown' = {p \in Printed : Before(p, place) \/ p = place}
  <2>1. CASE Present(place) /\ rows' = Append(rows, place)
    <3>1. Shown' = Shown \cup {place}
      BY <1>1, <2>1 DEF Shown
    <3>2. place \in Printed
      BY <1>1, <1>2, <2>1
    <3> QED BY <1>1, <3>1, <3>2
  <2>2. CASE ~Present(place) /\ rows' = rows
    <3>1. Shown' = Shown
      BY <2>2 DEF Shown
    <3>2. place \notin Printed
      BY <2>2
    <3> QED BY <1>1, <3>1, <3>2
  <2> QED BY <2>1, <2>2
<1>5. \A q \in Place : Is(q, 3, 0) => Present(q)
  BY DEF Is
<1>6. CASE at' = "scan"
  <2>1. \A p \in Place : Present(p) => (Before(p, place') <=> Before(p, place) \/ p = place)
    BY <1>6, WalksOn
  <2>2. \A q \in Place : Is(q, 3, 0) => ~Before(q, place')
    BY <1>1, <1>5, <2>1
  <2>3. Shown' = {p \in Printed : Before(p, place')}
    BY <1>4, <2>1
  <2>4. NoVgaYet'
    BY <2>2, Steady DEF NoVgaYet
  <2>5. EveryFunctionPrinted'
    BY <1>1, <1>3, <1>6, <2>3, Steady DEF EveryFunctionPrinted
  <2> QED BY <1>3, <2>4, <2>5
<1>7. CASE at' = "idle"
  <2>1. \A p \in Place : Present(p) => Before(p, place) \/ p = place
    BY <1>7, WalksOn
  <2>2. ~\E q \in Place : Is(q, 3, 0)
    BY <1>1, <1>5, <2>1
  <2>3. Shown' = Printed
    BY <1>4, <2>1
  <2>4. s2_supportsVGA' = FALSE
    BY <1>1, <2>2
  <2>5. EveryFunctionPrinted'
    BY <1>3, <1>7, <2>2, <2>3, <2>4, Steady DEF EveryFunctionPrinted
  <2> QED BY <1>3, <1>7, <2>5 DEF NoVgaYet
<1> QED BY <1>6, <1>7, WalksOn

(* A search that goes on has looked at a function that does not suit. *)
LEMMA FindGoesOn ==
  ASSUME PciInv, at = "find", NextFunction, UNCHANGED <<layout, want, found>>,
         ~Suitable(place)
  PROVE  FirstFound'
<1>1. \A p \in Place : Suitable(p) => Present(p) /\ ~Before(p, place)
  BY DEF PciInv, FirstFound, Suitable, Is
<1>2. found # NULL => /\ Suitable(found.place)
                      /\ \A p \in Place : Suitable(p) => ~Before(p, found.place)
  BY DEF PciInv, FirstFound
<1>3. found # NULL => (Suitable(found.place))'
  BY <1>2 DEF Suitable, Is, Present
<1>4. \A p \in Place : Suitable(p)' <=> Suitable(p)
  BY Steady
<1>5. CASE at' = "find"
  <2>1. \A p \in Place : Present(p) => (Before(p, place') <=> Before(p, place) \/ p = place)
    BY <1>5, WalksOn
  <2> QED BY <1>1, <1>2, <1>3, <1>4, <1>5, <2>1 DEF FirstFound
<1>6. CASE at' = "idle"
  <2>1. \A p \in Place : Present(p) => Before(p, place) \/ p = place
    BY <1>6, WalksOn
  <2> QED BY <1>1, <1>2, <1>3, <1>4, <1>6, <2>1 DEF FirstFound
<1> QED BY <1>5, <1>6, WalksOn

(* What the descriptor says of the function is what is there. *)
LEMMA SaysWhatIsThere ==
  ASSUME layout \in Layouts, NEW p \in Place,
         NEW dev, dev = PCIGetDeviceDescriptor(p), ~NobodyThere(dev)
  PROVE  /\ Present(p) /\ dev \in Descriptor /\ dev # NULL /\ dev.place = p
         /\ IsVga(dev) <=> Is(p, 3, 0)
         /\ Suits(dev, want[1], want[2], want[3]) <=> Suitable(p)
<1>1. Present(p) /\ layout[p] # Absent
  BY VendorTells DEF Present
<1>2. IsFunction(Hardware[layout[p]])
  BY <1>1, PluggedIn
<1>3. /\ dev.place = p /\ dev.progIF = Hardware[layout[p]].progIF
      /\ dev.classCode = Hardware[layout[p]].classCode
      /\ dev.subclass = Hardware[layout[p]].subclass
  BY <1>1, <1>2, Described
<1>4. dev \in Descriptor /\ dev # NULL
  BY <1>1, <1>2, DescriptorTyped, PciAssumption
<1>5. IsVga(dev) <=> Is(p, 3, 0)
  BY <1>1, <1>3 DEF IsVga, Is
<1>6. Suits(dev, want[1], want[2], want[3]) <=> Suitable(p)
  BY <1>1, <1>3 DEF Suits, Suitable, Is
<1> QED BY <1>1, <1>3, <1>4, <1>5, <1>6

LEMMA ScanKeeps ==
  ASSUME PciInv, Scan
  PROVE  PciInv'
<1> DEFINE dev == PCIGetDeviceDescriptor(place)
<1>1. /\ at = "scan" /\ layout' = layout /\ want' = want
      /\ layout \in Layouts /\ place \in Place
      /\ Skip(dev) \/ ScanVga(dev) \/ ScanPrint(dev)
  BY DEF Scan, PciInv, Walking
<1> HIDE DEF dev
<1>2. found' = found
  BY <1>1 DEF Skip, ScanVga, ScanPrint
<1>3. DescriptorTrue'
  BY <1>1, <1>2, FoundKept DEF PciInv
<1>4. ASSUME rows' \in Seq(Place), s2_supportsVGA' \in BOOLEAN, Walking', NoVgaYet',
             EveryFunctionPrinted', at' \in {"scan", "idle"}, FirstFound'
      PROVE  PciInv'
  BY <1>1, <1>2, <1>3, <1>4 DEF PciInv
<1>5. ASSUME at' \in {"scan", "idle"} PROVE FirstFound'
  <2>1. found # NULL => (Suitable(found.place))'
    BY <1>1, <1>2 DEF PciInv, FirstFound, Suitable, Is, Present
  <2> QED BY <1>1, <1>2, <1>5, <2>1, Steady DEF PciInv, FirstFound
<1>6. CASE Skip(dev)
  <2>1. ~Present(place) /\ ~Is(place, 3, 0)
    BY <1>1, <1>6, VendorTells DEF Skip, Is, dev
  <2>2. NextFunction /\ rows' = rows /\ s2_supportsVGA' = s2_supportsVGA
    BY <1>6 DEF Skip
  <2>3. at' \in {"scan", "idle"} /\ Walking'
    BY <1>1, <2>2, WalksOn
  <2>4. rows' \in Seq(Place) /\ NoVgaYet' /\ EveryFunctionPrinted'
    BY <1>1, <2>1, <2>2, ScanGoesOn
  <2> QED BY <1>4, <1>5, <2>2, <2>3, <2>4 DEF PciInv
<1>7. CASE ScanPrint(dev)
  <2>1. Present(place) /\ ~Is(place, 3, 0) /\ dev.place = place
    BY <1>1, <1>7, SaysWhatIsThere DEF ScanPrint, dev
  <2>2. NextFunction /\ rows' = Append(rows, place) /\ s2_supportsVGA' = s2_supportsVGA
    BY <1>7, <2>1 DEF ScanPrint
  <2>3. at' \in {"scan", "idle"} /\ Walking'
    BY <1>1, <2>2, WalksOn
  <2>4. rows' \in Seq(Place) /\ NoVgaYet' /\ EveryFunctionPrinted'
    BY <1>1, <2>1, <2>2, ScanGoesOn
  <2> QED BY <1>4, <1>5, <2>2, <2>3, <2>4 DEF PciInv
<1>8. CASE ScanVga(dev)
  <2>1. Is(place, 3, 0)
    BY <1>1, <1>8, SaysWhatIsThere DEF ScanVga, dev
  <2>2. at' = "idle" /\ rows' = rows /\ s2_supportsVGA' = TRUE
    BY <1>8 DEF ScanVga, Return
  <2> DEFINE Printed == {p \in Place : /\ Present(p)
                                   /\ \A q \in Place : Is(q, 3, 0) => Before(p, q)}
  <2>3. /\ Shown = {p \in Printed : Before(p, place)}
        /\ \A m, n \in DOMAIN rows : m < n => Before(rows[m], rows[n])
        /\ \A p \in Place : Before(p, place) => ~Is(p, 3, 0)
    BY <1>1 DEF PciInv, EveryFunctionPrinted, NoVgaYet
  <2>4. Shown = Printed
    BY <1>1, <2>1, <2>3
  <2>5. Shown' = Shown
    BY <2>2 DEF Shown
  <2>6. EveryFunctionPrinted'
    BY <1>1, <2>1, <2>2, <2>3, <2>4, <2>5, Steady DEF EveryFunctionPrinted
  <2> QED BY <1>1, <1>4, <1>5, <2>2, <2>6 DEF PciInv, Walking, NoVgaYet
<1> QED BY <1>1, <1>6, <1>7, <1>8

LEMMA FindKeeps ==
  ASSUME PciInv, Find
  PROVE  PciInv'
<1> DEFINE dev == PCIGetDeviceDescriptor(place)
<1>1. /\ at = "find" /\ layout' = layout /\ want' = want
      /\ layout \in Layouts /\ place \in Place
      /\ Skip(dev) \/ FindMatch(dev) \/ FindOther(dev)
  BY DEF Find, PciInv, Walking
<1> HIDE DEF dev
<1>2. rows' = rows /\ s2_supportsVGA' = s2_supportsVGA
  BY <1>1 DEF Skip, FindMatch, FindOther
<1>3. ASSUME at' \in {"find", "idle"}, Walking', FirstFound', DescriptorTrue',
             found' \in Descriptor \cup {NULL}
      PROVE  PciInv'
  BY <1>1, <1>2, <1>3, ScreenKept DEF PciInv, NoVgaYet
<1>4. ASSUME NextFunction, found' = found, ~Suitable(place)
      PROVE  PciInv'
  <2>1. at' \in {"find", "idle"} /\ Walking'
    BY <1>1, <1>4, WalksOn
  <2>2. FirstFound' /\ DescriptorTrue'
    BY <1>1, <1>4, FindGoesOn, FoundKept DEF PciInv
  <2> QED BY <1>3, <1>4, <2>1, <2>2 DEF PciInv
<1>5. CASE Skip(dev)
  <2>1. ~Suitable(place)
    BY <1>1, <1>5, VendorTells DEF Skip, Suitable, Is, dev
  <2> QED BY <1>4, <1>5, <2>1 DEF Skip
<1>6. CASE FindOther(dev)
  <2>1. ~Suitable(place)
    BY <1>1, <1>6, SaysWhatIsThere DEF FindOther, dev
  <2> QED BY <1>4, <1>6, <2>1 DEF FindOther
<1>7. CASE FindMatch(dev)
  <2>1. at' = "idle" /\ found' = dev
    BY <1>7 DEF FindMatch, Return
  <2>2. /\ Present(place) /\ Suitable(place) /\ dev.place = place
        /\ dev \in Descriptor /\ dev # NULL
    BY <1>1, <1>7, SaysWhatIsThere DEF FindMatch, dev
  <2>3. FirstFound'
    <3>1. (Suitable(found.place))'
      BY <1>1, <2>1, <2>2 DEF Suitable, Is, Present
    <3>2. \A p \in Place : Suitable(p) => ~Before(p, place)
      BY <1>1 DEF PciInv, FirstFound
    <3>3. \A p \in Place : Suitable(p)' => ~Before(p, found'.place)
      BY <1>1, <2>1, <2>2, <3>2, Steady
    <3> QED BY <2>1, <2>2, <3>1, <3>3 DEF FirstFound
  <2>4. DescriptorTrue'
    <3> DEFINE hw == Hardware[layout[place]]
    <3>1. layout[place] # Absent
      BY <2>2 DEF Present
    <3>2. IsFunction(hw)
      BY <1>1, <3>1, PluggedIn
    <3>3. /\ dev.vendorId = hw.vendorId /\ dev.progIF = hw.progIF
          /\ dev.headerType = hw.headerType /\ dev.interruptLine = hw.interruptLine
          /\ \A n \in 1..Len(hw.bars) :
               n - 1 \in DOMAIN dev.bars /\ dev.bars[n - 1] = hw.bars[n]
      BY <3>1, <3>2, Described DEF dev
    <3> QED BY <1>1, <2>1, <2>2, <3>3 DEF DescriptorTrue
  <2> QED BY <1>3, <2>1, <2>2, <2>3, <2>4 DEF Walking
<1> QED BY <1>1, <1>5, <1>6, <1>7

-----------------------------------------------------------------------------
(* The blocks of a descriptor: itself, its array, and the registers its    *)
(* header has, or the one of a function that is not there.                 *)
LEMMA RegistersAllocated ==
  ASSUME NEW p, NEW dev, dev = PCIGetDeviceDescriptor(p),
         \A n \in 0..5 : PCIReadW(p, 16 + 4 * n) \in Nat /\ PCIReadW(p, 18 + 4 * n) \in Nat
  PROVE  Blocks(dev) = 2 + BaseRegisters(HeaderType(p))
<1> DEFINE h == HeaderType(p)
           top == IF h = 0 THEN 5 ELSE 1
           m == MaxBarN(h)
           given == {n \in DOMAIN dev.bars : dev.bars[n] # NULL}
<1>1. dev.bars = [n \in 0..top |-> PCIGetBaseAddressRegister(p, h, n)]
  BY DEF PCIGetDeviceDescriptor
<1>2. top \in 1..5 /\ m \in 0..5 /\ m <= top /\ m + 1 = BaseRegisters(h)
  BY DEF MaxBarN, BaseRegisters
<1> HIDE DEF h, top, m
<1>3. ASSUME NEW n \in 0..top
      PROVE  dev.bars[n] # NULL <=> n <= m
  <2>1. n \in 0..5 /\ (n > m <=> ~(n <= m))
    BY <1>2
  <2>2. IF n > m THEN PCIGetBaseAddressRegister(p, h, n) = NULL
        ELSE PCIGetBaseAddressRegister(p, h, n) \in BarType
    BY <2>1, BarTyped DEF m
  <2>3. dev.bars[n] = PCIGetBaseAddressRegister(p, h, n)
    BY <1>1
  <2> QED BY <2>1, <2>2, <2>3, PciAssumption
<1>4. given = 0..m
  <2>1. given = {n \in 0..top : n <= m}
    BY <1>1, <1>3
  <2> QED BY <2>1, <1>2
<1>5. Cardinality(0..m) = m + 1
  <2>1. 0 \in Int /\ m \in Int /\ ~(0 > m) /\ m - 0 + 1 = m + 1
    BY <1>2
  <2> QED BY <2>1, FS_Interval
<1>6. Blocks(dev) = 2 + Cardinality(given)
  BY DEF Blocks
<1> HIDE DEF given
<1> QED BY <1>2, <1>4, <1>5, <1>6 DEF h

(* What a call that goes on has taken and not given back. *)
LEMMA CostOf ==
  ASSUME layout \in Layouts, NEW p \in Place, NEW dev, dev = PCIGetDeviceDescriptor(p)
  PROVE  /\ Cost(p) \in Nat /\ Blocks(dev) \in Nat
         /\ NobodyThere(dev) => Blocks(dev) = Cost(p)
         /\ ~NobodyThere(dev) =>
              Blocks(dev) - 1 + (IF at = "scan" THEN 7 ELSE 0) = Cost(p)
<1>1. NobodyThere(dev) <=> ~Present(p)
  BY VendorTells
<1>2. \A h : BaseRegisters(h) \in Nat
  BY DEF BaseRegisters
<1>3. CASE layout[p] = Absent
  <2>1. ASSUME NEW n \in 0..5
        PROVE  PCIReadW(p, 16 + 4 * n) \in Nat /\ PCIReadW(p, 18 + 4 * n) \in Nat
    <3>1. PCIReadW(p, 4 * (n + 4)) = 65535 /\ PCIReadW(p, 4 * (n + 4) + 2) = 65535
      BY <1>3, BarOffsets, OnesRead
    <3> QED BY <3>1, BarOffsets
  <2>2. PCIReadW(p, 4 * 3 + 2) = 65535
    BY <1>3, OnesRead
  <2>3. HeaderType(p) = 127
    BY <2>2 DEF HeaderType
  <2>4. Blocks(dev) = 2 + BaseRegisters(127)
    BY <2>1, <2>3, RegistersAllocated
  <2>5. BaseRegisters(127) = 1
    BY DEF BaseRegisters
  <2>6. ~Present(p) /\ Cost(p) = 3
    BY <1>3 DEF Present, Cost
  <2> QED BY <1>1, <2>4, <2>5, <2>6
<1>4. CASE layout[p] # Absent
  <2> DEFINE hw == Hardware[layout[p]]
  <2>1. IsFunction(hw)
    BY <1>4, PluggedIn
  <2>2. HeaderType(p) = hw.headerType
    <3>1. PCIReadW(p, 14) = hw.headerType + (IF p[3] = 0 /\ Others(p) THEN 128 ELSE 0)
      BY <1>4, <2>1, WordsRead
    <3>2. hw.headerType \in Byte /\ hw.headerType < 128
      BY <2>1 DEF IsFunction
    <3> HIDE DEF hw
    <3> QED BY <3>1, <3>2, HeaderBits DEF HeaderType
  <2>3. Blocks(dev) = 2 + Registers(p)
    BY <1>4, <2>1, <2>2, WordIsNumber, RegistersAllocated DEF Registers
  <2>4. Registers(p) \in Nat
    BY <1>2 DEF Registers
  <2>5. Cost(p) = IF ~Present(p) THEN 2 + Registers(p)
                  ELSE 1 + Registers(p) + (IF at = "scan" THEN 7 ELSE 0)
    BY <1>4 DEF Cost
  <2> QED BY <1>1, <2>3, <2>4, <2>5
<1> QED BY <1>3, <1>4

(* A call that goes on loses the blocks of the function it has looked at. *)
LEMMA LossGrows ==
  ASSUME PciInv, LossInv, at # "idle", NextFunction, layout' = layout, calls' = calls,
         kept' = kept + Cost(place)
  PROVE  LossInv'
<1>1. layout \in Layouts /\ place \in Place /\ Walking
  BY DEF PciInv, Walking
<1>2. Cost(place) \in Nat
  BY <1>1, CostOf
<1>3. CASE at' = "idle"
  BY <1>2, <1>3 DEF LossInv, BlocksLost
<1>4. CASE at' # "idle"
  <2> DEFINE more == {place} \X (1..Cost(place))
  <2>1. /\ place' \in Place /\ at' = at
        /\ \A p \in Place : Examined(p) =>
             (Before(p, place') <=> Before(p, place) \/ p = place)
    BY <1>1, <1>4, GoesOn DEF Walking
  <2>2. Examined(place) /\ ~Before(place, place)
    BY <1>1, ExaminedReached, Order DEF Walking
  <2>3. /\ \A p : Cost(p)' = Cost(p)
        /\ \A p : Examined(p)' <=> Examined(p)
    BY <2>1 DEF Cost, Registers, Present, Examined, Others
  <2>4. {q \in Place : Examined(q) /\ Before(q, place)}'
          = {q \in Place : Examined(q) /\ Before(q, place)} \cup {place}
    BY <1>1, <2>1, <2>2, <2>3
  <2>5. Lost' = Lost \cup more /\ Lost \cap more = {}
    <3>1. Lost' = UNION {{p} \X (1..Cost(p)) :
                           p \in {q \in Place : Examined(q) /\ Before(q, place)}'}
      BY <2>3 DEF Lost
    <3>2. Lost' = Lost \cup more
      BY <2>4, <3>1 DEF Lost
    <3>3. Lost \cap more = {}
      BY <2>2 DEF Lost
    <3> QED BY <3>2, <3>3
  <2>6. IsFiniteSet(more) /\ Cardinality(more) = Cost(place)
    <3>1. IsFiniteSet({place}) /\ Cardinality({place}) = 1
      BY FS_Singleton
    <3>2. IsFiniteSet(1..Cost(place)) /\ Cardinality(1..Cost(place)) = Cost(place)
      BY <1>2, FS_Interval
    <3> QED BY <1>2, <3>1, <3>2, FS_Product
  <2> HIDE DEF more
  <2>7. IsFiniteSet(Lost)
    BY DEF LossInv
  <2>8. /\ IsFiniteSet(Lost')
        /\ Cardinality(Lost') = Cardinality(Lost) + Cost(place)
    <3>1. /\ IsFiniteSet(Lost \cup more)
          /\ Cardinality(Lost \cup more)
               = Cardinality(Lost) + Cardinality(more) - Cardinality(Lost \cap more)
      BY <2>6, <2>7, FS_Union
    <3>2. Cardinality(Lost) \in Nat /\ Cardinality(Lost \cap more) = 0
      BY <2>5, <2>7, FS_CardinalityType, FS_EmptySet
    <3> QED BY <1>2, <2>5, <2>6, <3>1, <3>2
  <2>9. IsFiniteSet(Lost)'
    BY <2>8
  <2>10. Cardinality(Lost)' = Cardinality(Lost) + Cost(place)
    BY <2>8
  <2> QED BY <1>2, <1>4, <2>1, <2>9, <2>10 DEF LossInv, BlocksLost
<1> QED BY <1>3, <1>4

(* No block is lost before the first function is looked at. *)
LEMMA NothingLost ==
  ASSUME PciInv, LossInv, EnterDevice(0, 0), layout' = layout, kept' = kept,
         calls' = calls + 1
  PROVE  LossInv'
<1>1. \A p \in Place : ~Before(p, place')
  BY Begins
<1>2. {q \in Place : Examined(q) /\ Before(q, place)}' = {}
  BY <1>1
<1>3. Lost' = {}
  BY <1>2 DEF Lost
<1>4. IsFiniteSet(Lost') /\ Cardinality(Lost') = 0
  BY <1>3, FS_EmptySet
<1>5. IsFiniteSet(Lost)' /\ Cardinality(Lost)' = 0
  BY <1>4
<1>6. calls' \in Nat /\ calls' # 0 /\ (calls' = 1 => kept' = 0)
  BY DEF LossInv
<1> QED BY <1>5, <1>6 DEF LossInv, BlocksLost

LEMMA LossStep ==
  ASSUME PciInv, LossInv, [Next]_vars
  PROVE  LossInv'
<1> DEFINE dev == PCIGetDeviceDescriptor(place)
<1>1. ASSUME at # "idle", at' = "idle", calls' = calls, kept' \in Nat
      PROVE  LossInv'
  BY <1>1 DEF LossInv, BlocksLost
<1>2. ASSUME at # "idle"
      PROVE  /\ Blocks(dev) \in Nat
             /\ NobodyThere(dev) => Blocks(dev) = Cost(place)
             /\ ~NobodyThere(dev) =>
                  Blocks(dev) - 1 + (IF at = "scan" THEN 7 ELSE 0) = Cost(place)
  BY <1>2, CostOf DEF PciInv, Walking
<1>3. CASE UNCHANGED vars
  <2>1. UNCHANGED <<layout, at, place, kept, calls>>
    BY <1>3 DEF vars
  <2>2. Lost' = Lost
    BY <2>1 DEF Lost, Cost, Registers, Present, Examined, Others
  <2>3. IsFiniteSet(Lost)' = IsFiniteSet(Lost) /\ Cardinality(Lost)' = Cardinality(Lost)
    BY <2>2
  <2> QED BY <2>1, <2>3 DEF LossInv, BlocksLost
<1>4. CASE StartScan
  BY <1>4, NothingLost DEF StartScan
<1>5. CASE StartFind
  BY <1>5, NothingLost DEF StartFind
<1>6. CASE Scan
  <2>1. /\ at = "scan" /\ layout' = layout /\ calls' = calls
        /\ Skip(dev) \/ ScanVga(dev) \/ ScanPrint(dev)
    BY <1>6 DEF Scan
  <2> HIDE DEF dev
  <2>2. CASE Skip(dev)
    BY <1>2, <2>1, <2>2, LossGrows DEF Skip
  <2>3. CASE ScanVga(dev)
    <3>1. kept' = kept + Blocks(dev) /\ at' = "idle"
      BY <2>3 DEF ScanVga, Return
    <3>2. kept' \in Nat
      BY <1>2, <2>1, <3>1 DEF LossInv
    <3> QED BY <1>1, <2>1, <3>1, <3>2
  <2>4. CASE ScanPrint(dev)
    <3>1. kept' = kept + Blocks(dev) + 7 - 1 /\ ~NobodyThere(dev) /\ NextFunction
      BY <2>4 DEF ScanPrint
    <3>2. kept' = kept + Cost(place)
      BY <1>2, <2>1, <3>1 DEF LossInv
    <3> QED BY <2>1, <3>1, <3>2, LossGrows
  <2> QED BY <2>1, <2>2, <2>3, <2>4
<1>7. CASE Find
  <2>1. /\ at = "find" /\ layout' = layout /\ calls' = calls
        /\ Skip(dev) \/ FindMatch(dev) \/ FindOther(dev)
    BY <1>7 DEF Find
  <2> HIDE DEF dev
  <2>2. CASE Skip(dev)
    BY <1>2, <2>1, <2>2, LossGrows DEF Skip
  <2>3. CASE FindMatch(dev)
    <3>1. kept' = kept + Blocks(dev) /\ at' = "idle"
      BY <2>3 DEF FindMatch, Return
    <3>2. kept' \in Nat
      BY <1>2, <2>1, <3>1 DEF LossInv
    <3> QED BY <1>1, <2>1, <3>1, <3>2
  <2>4. CASE FindOther(dev)
    <3>1. kept' = kept + Blocks(dev) - 1 /\ ~NobodyThere(dev) /\ NextFunction
      BY <2>4 DEF FindOther
    <3>2. kept' = kept + Cost(place)
      BY <1>2, <2>1, <3>1 DEF LossInv
    <3> QED BY <2>1, <3>1, <3>2, LossGrows
  <2> QED BY <2>1, <2>2, <2>3, <2>4
<1> QED BY <1>3, <1>4, <1>5, <1>6, <1>7 DEF Next

-----------------------------------------------------------------------------
LEMMA InitPci ==
  ASSUME Init
  PROVE  PciInv
<1>1. NoVgaYet /\ Walking /\ FirstFound /\ DescriptorTrue /\ rows \in Seq(Place)
  BY DEF Init, NoVgaYet, Walking, FirstFound, DescriptorTrue
<1>2. EveryFunctionPrinted
  BY DEF Init, EveryFunctionPrinted
<1> QED BY <1>1, <1>2 DEF Init, PciInv

LEMMA NextPci ==
  ASSUME PciInv, [Next]_vars
  PROVE  PciInv'
<1>1. CASE UNCHANGED vars
  <2>1. UNCHANGED <<layout, at, want, place, functionCount, rows, s2_supportsVGA, found>>
    BY <1>1 DEF vars
  <2>2. Walking'
    <3>1. CountOf(place[1], place[2])' = CountOf(place[1], place[2])
      BY <2>1 DEF CountOf, PCIIsDeviceMultifunction, PCIReadW, DoubleWord, Register, Others
    <3> QED BY <2>1, <3>1 DEF PciInv, Walking
  <2>3. NoVgaYet'
    BY <2>1, Steady DEF PciInv, NoVgaYet
  <2>4. EveryFunctionPrinted'
    <3>1. Shown' = Shown
      BY <2>1 DEF Shown
    <3>2. CASE at = "scan"
      BY <2>1, <3>1, <3>2, Steady DEF PciInv, EveryFunctionPrinted
    <3>3. CASE at # "scan"
      BY <2>1, <3>3, ScreenKept DEF PciInv
    <3> QED BY <3>2, <3>3
  <2>5. FirstFound'
    <3>1. found # NULL => (Suitable(found.place))'
      BY <2>1 DEF PciInv, FirstFound, Suitable, Is, Present
    <3> QED BY <2>1, <3>1, Steady DEF PciInv, FirstFound
  <2>6. DescriptorTrue'
    BY <2>1, FoundKept DEF PciInv
  <2> QED BY <2>1, <2>2, <2>3, <2>4, <2>5, <2>6 DEF PciInv
<1> QED BY <1>1, StartScanKeeps, StartFindKeeps, ScanKeeps, FindKeeps DEF Next

(* The inductive invariant of the two walks over the bus: where the loops  *)
(* are, what they have passed, printed and found.                          *)
THEOREM PciInvariant == Spec => []PciInv
<1>1. Init => PciInv
  BY InitPci
<1>2. PciInv /\ [Next]_vars => PciInv'
  BY NextPci
<1> QED BY <1>1, <1>2, PTL DEF Spec

(* A scan prints every function that is there, once and in the order of the*)
(* loops, up to the first VGA card, and reports a VGA card exactly if there*)
(* is one: none is missed where function 0 is absent or a device is taken  *)
(* to have a single function.                                              *)
THEOREM PrintsEveryFunction == Spec => []EveryFunctionPrinted
<1>1. PciInv => EveryFunctionPrinted
  BY DEF PciInv
<1> QED BY <1>1, PciInvariant, PTL

(* A search returns the first function that suits, NULL only if none does. *)
THEOREM FindsTheFirst == Spec => []FirstFound
<1>1. PciInv => FirstFound
  BY DEF PciInv
<1> QED BY <1>1, PciInvariant, PTL

(* The descriptor a search returns has the registers the function was given*)
(* whatever else is plugged into its device.                               *)
THEOREM DescribesTruly == Spec => []DescriptorTrue
<1>1. PciInv => DescriptorTrue
  BY DEF PciInv
<1> QED BY <1>1, PciInvariant, PTL

(* The heap has lost, while the first scan or search is under way, the     *)
(* blocks of the functions it has gone past and no other: three of each    *)
(* that is not there, the registers of each that is and the texts printed. *)
THEOREM LosesEveryFunction == Spec => []BlocksLost
<1>1. Init => LossInv
  BY DEF Init, LossInv, BlocksLost
<1>2. PciInv /\ LossInv /\ [Next]_vars => LossInv'
  BY LossStep
<1>3. LossInv => BlocksLost
  BY DEF LossInv
<1> QED BY <1>1, <1>2, <1>3, PciInvariant, PTL DEF Spec

-----------------------------------------------------------------------------
(***************************************************************************)
(* The texts.  s2_PCIScan writes its rows with s2_ToHex, whose state, as   *)
(* that of the other texts, is Logger's and apart from the scan's.         *)
(***************************************************************************)

(* Induction over the natural numbers, for a set of them. *)
LEMMA Induction ==
  ASSUME NEW S \in SUBSET Nat, 0 \in S, \A n \in S : n + 1 \in S
  PROVE  S = Nat
<1> SUFFICES ASSUME NEW bad \in Nat \ S PROVE FALSE
  OBVIOUS
<1> DEFINE T == Nat \ S
<1>1. PICK least \in T : \A y \in T : ~(<<y, least>> \in OpToRel(<, Nat))
  BY NatLessThanWellFounded, WFMin, Zenon
<1>2. \A y \in T : least <= y
  <2>1. ASSUME NEW y \in T PROVE least <= y
    <3>1. ~(y < least)
      BY <1>1, <2>1 DEF OpToRel
    <3> QED BY <3>1
  <2> QED BY <2>1
<1>3. least # 0 /\ least - 1 \in Nat
  OBVIOUS
<1>4. least - 1 \in S
  <2>1. least - 1 \notin T
    BY <1>2, <1>3
  <2> QED BY <1>3, <2>1
<1>5. least - 1 + 1 \in S
  BY <1>4
<1> QED BY <1>3, <1>5

(* The rounds of a conversion. *)
IsQuotients(num, n, base) ==
  /\ num \in [0..16 -> Nat] /\ num[0] = n
  /\ \A k \in 0..15 : num[k + 1] = num[k] \div base

LEMMA QuotientsAre ==
  ASSUME NEW n \in Nat, NEW base \in {10, 16}
  PROVE  IsQuotients(Quotients(n, base), n, base)
<1> DEFINE Rounds(f) == [k \in 0..16 |-> IF k = 0 THEN n ELSE f[k - 1] \div base]
           Starts(m, f) == /\ f \in [0..m -> Nat] /\ f[0] = n
                           /\ \A k \in 1..m : f[k] = f[k - 1] \div base
           S == {m \in Nat : \E f : Starts(m, f)}
<1>0. \A x \in Nat : x \div base \in Nat
  OBVIOUS
<1>1. Quotients(n, base) = CHOOSE f : f = Rounds(f)
  BY DEF Quotients
<1>2. \E f : f = Rounds(f)
  <2>1. 0 \in S
    <3>1. Starts(0, [k \in 0..0 |-> n])
      OBVIOUS
    <3> QED BY <3>1
  <2>2. ASSUME NEW m \in S PROVE m + 1 \in S
    <3>1. PICK f : Starts(m, f)
      OBVIOUS
    <3> DEFINE g == [k \in 0..m + 1 |-> IF k <= m THEN f[k] ELSE f[m] \div base]
    <3>2. f[m] \in Nat /\ f[m] \div base \in Nat
      BY <3>1, <1>0
    <3>3. Starts(m + 1, g)
      BY <3>1, <3>2
    <3> HIDE DEF Starts, g
    <3> QED BY <3>3
  <2>3. S = Nat
    BY <2>1, <2>2, Induction
  <2>4. PICK f : Starts(16, f)
    <3>1. 16 \in S
      BY <2>3
    <3> HIDE DEF Starts
    <3> QED BY <3>1
  <2>5. f = Rounds(f)
    BY <2>4
  <2> QED BY <2>5
<1> DEFINE num == Quotients(n, base)
<1>3. num = Rounds(num)
  BY <1>1, <1>2
<1> HIDE DEF num
<1>4. num[0] = n /\ \A k \in 0..15 : num[k + 1] = num[k] \div base
  BY <1>3
<1>5. num \in [0..16 -> Nat]
  <2> DEFINE N == {m \in Nat : m <= 16 => num[m] \in Nat}
  <2>1. N = Nat
    <3>1. 0 \in N
      BY <1>4
    <3>2. ASSUME NEW m \in N PROVE m + 1 \in N
      BY <1>4
    <3> QED BY <3>1, <3>2, Induction
  <2> QED BY <1>3, <2>1
<1> QED BY <1>4, <1>5 DEF IsQuotients, num

LEMMA Rounded ==
  ASSUME NEW base \in {10, 16}, NEW x \in Nat
  PROVE  /\ x % base \in 0..base - 1 /\ x % base \in 0..15
         /\ x = base * (x \div base) + (x % base)
<1>1. CASE base = 10
  BY <1>1
<1>2. CASE base = 16
  BY <1>2
<1> QED BY <1>1, <1>2

LEMMA DigitsDiffer ==
  ASSUME NEW k \in 0..15
  PROVE  /\ DigitOf(Digits[k + 1]) = k /\ Digits[k + 1] \in ToSet(Digits)
         /\ Digits[k + 1] # NUL /\ (Digits[k + 1] = "0" <=> k = 0)
<1>1. \A m \in 0..15 : Digits[m + 1] = Digits[k + 1] => m = k
  BY DEF Digits
<1>2. DigitOf(Digits[k + 1]) = k
  BY <1>1 DEF DigitOf
<1>3. Digits[k + 1] \in ToSet(Digits)
  BY DEF Digits, ToSet
<1>4. Digits[k + 1] = "0" <=> k = 0
  <2>1. Digits[0 + 1] = "0"
    BY DEF Digits
  <2> QED BY <1>1, <2>1
<1>5. Digits[k + 1] # NUL
  BY DEF Digits, NUL
<1> QED BY <1>2, <1>3, <1>4, <1>5

(* 32 bits hold it. *)
Fits(n) == n \div 65536 < 65536

(* A number of 32 bits has eight digits of base 16 and ten of base 10. *)
LEMMA EightDigits ==
  ASSUME NEW n \in Nat, Fits(n), NEW num, IsQuotients(num, n, 16)
  PROVE  num[8] = 0
<1> USE DEF IsQuotients
<1>1. n <= 4294967295
  BY DEF Fits
<1>2. num[1] <= 268435455 /\ num[1] \in Nat
  BY <1>1
<1>3. num[2] <= 16777215 /\ num[2] \in Nat
  BY <1>2
<1>4. num[3] <= 1048575 /\ num[3] \in Nat
  BY <1>3
<1>5. num[4] <= 65535 /\ num[4] \in Nat
  BY <1>4
<1>6. num[5] <= 4095 /\ num[5] \in Nat
  BY <1>5
<1>7. num[6] <= 255 /\ num[6] \in Nat
  BY <1>6
<1>8. num[7] <= 15 /\ num[7] \in Nat
  BY <1>7
<1> QED BY <1>8

LEMMA TenDigits ==
  ASSUME NEW n \in Nat, Fits(n), NEW num, IsQuotients(num, n, 10)
  PROVE  num[10] = 0
<1> USE DEF IsQuotients
<1>1. n <= 4294967295
  BY DEF Fits
<1>2. num[1] <= 429496729 /\ num[1] \in Nat
  BY <1>1
<1>3. num[2] <= 42949672 /\ num[2] \in Nat
  BY <1>2
<1>4. num[3] <= 4294967 /\ num[3] \in Nat
  BY <1>3
<1>5. num[4] <= 429496 /\ num[4] \in Nat
  BY <1>4
<1>6. num[5] <= 42949 /\ num[5] \in Nat
  BY <1>5
<1>7. num[6] <= 4294 /\ num[6] \in Nat
  BY <1>6
<1>8. num[7] <= 429 /\ num[7] \in Nat
  BY <1>7
<1>9. num[8] <= 42 /\ num[8] \in Nat
  BY <1>8
<1>10. num[9] <= 4 /\ num[9] \in Nat
  BY <1>9
<1> QED BY <1>10

(* The digits a decimal text keeps. *)
DigitCount(num, d) ==
  /\ d \in 1..10 /\ num[d] = 0 /\ (d = 1 \/ num[d - 1] # 0)
  /\ \A k \in 0..15 : IsBlank(num, k) <=> k >= d

LEMMA DigitsCounted ==
  ASSUME NEW n \in Nat, Fits(n), NEW num, IsQuotients(num, n, 10)
  PROVE  \E d : DigitCount(num, d)
<1>1. PICK d \in 1..10 : num[d] = 0 /\ \A k \in 1..d - 1 : num[k] # 0
  <2>1. SUFFICES ASSUME \A d \in 1..10 : num[d] = 0 => \E k \in 1..d - 1 : num[k] = 0
                 PROVE FALSE
    OBVIOUS
  <2> DEFINE T == {m \in Nat : m <= 10 => \A k \in 1..m : num[k] # 0}
  <2>2. T = Nat
    <3>1. 0 \in T
      OBVIOUS
    <3>2. ASSUME NEW m \in T PROVE m + 1 \in T
      BY <2>1
    <3> HIDE DEF T
    <3>3. T \in SUBSET Nat
      BY DEF T
    <3> QED BY <3>1, <3>2, <3>3, Induction
  <2>3. 10 \in T
    BY <2>2
  <2> QED BY <2>3, TenDigits
<1>2. \A k \in d..16 : num[k] = 0
  <2> DEFINE T == {m \in Nat : d + m <= 16 => num[d + m] = 0}
  <2>1. 0 \in T
    BY <1>1
  <2>2. ASSUME NEW m \in T PROVE m + 1 \in T
    <3>1. CASE d + (m + 1) <= 16
      <4>1. d + m \in 0..15 /\ d + m + 1 = d + (m + 1) /\ num[d + m] = 0
        BY <3>1
      <4>2. num[d + (m + 1)] = 0 \div 10
        BY <4>1 DEF IsQuotients
      <4> QED BY <4>2
    <3> QED BY <3>1
  <2>3. T = Nat
    <3> HIDE DEF T
    <3>3. T \in SUBSET Nat
      BY DEF T
    <3> QED BY <2>1, <2>2, <3>3, Induction
  <2>4. ASSUME NEW k \in d..16 PROVE num[k] = 0
    <3>1. k - d \in Nat /\ d + (k - d) = k /\ k <= 16
      OBVIOUS
    <3>2. k - d \in T
      <4> HIDE DEF T
      <4> QED BY <2>3, <3>1
    <3> QED BY <3>1, <3>2
  <2> QED BY <2>4
<1>3. ASSUME NEW k \in 0..15 PROVE IsBlank(num, k) <=> k >= d
  <2>1. num[k] \in Nat /\ num[k + 1] = num[k] \div 10
    BY DEF IsQuotients
  <2>2. CASE k >= d
    <3>1. num[k] = 0 /\ num[k + 1] = 0 /\ k # 0
      BY <1>2, <2>2
    <3> QED BY <3>1, <2>2 DEF IsBlank, Blank
  <2>3. CASE k < d /\ k # 0
    <3>1. num[k] # 0
      BY <1>1, <2>3
    <3> QED BY <2>1, <2>3, <3>1 DEF IsBlank, Blank
  <2>4. CASE k = 0
    BY <2>4 DEF IsBlank, Blank
  <2> QED BY <2>2, <2>3, <2>4
<1>4. d = 1 \/ num[d - 1] # 0
  BY <1>1
<1>5. DigitCount(num, d)
  BY <1>1, <1>3, <1>4 DEF DigitCount
<1> QED BY <1>5

(* The blanks are as many as the digits of the block that are not kept. *)
LEMMA BlanksCounted ==
  ASSUME NEW num, NEW d, DigitCount(num, d)
  PROVE  Cardinality(Blanks(num)) = 16 - d
<1>1. Blanks(num) = d..15
  BY DEF DigitCount, Blanks
<1>2. d \in Int /\ 15 \in Int /\ ~(d > 15) /\ 15 - d + 1 = 16 - d
  BY DEF DigitCount
<1>3. Cardinality(d..15) = 16 - d
  BY <1>2, FS_Interval
<1> QED BY <1>1, <1>3

(* A memory of 33 bytes. *)
Memory(s) == s = [b \in 0..32 |-> s[b]]

(* The loop that moves the digits to the front. *)
MovedBy(s, c) ==
  [b \in 0..32 |-> IF b <= 15 THEN s[b + c] ELSE IF b = 16 THEN NUL ELSE s[b]]

LEMMA MovedOut ==
  ASSUME NEW s, NEW c \in 1..15, Memory(s)
  PROVE  MoveOut(s, c) = MovedBy(s, c)
<1> DEFINE Loop(m) == [k \in 0..16 |->
                         IF k = 0 THEN s
                         ELSE [m[k - 1] EXCEPT ![k - 1] = m[k - 1][k - 1 + c], ![k] = NUL]]
           After(k) == [b \in 0..32 |-> IF b < k THEN s[b + c]
                                       ELSE IF b = k /\ k > 0 THEN NUL ELSE s[b]]
           W == [k \in 0..16 |-> After(k)]
           M == CHOOSE m : m = Loop(m)
<1>1. ASSUME NEW k \in 0..15
      PROVE  After(k + 1) = [After(k) EXCEPT ![k] = After(k)[k + c], ![k + 1] = NUL]
  OBVIOUS
<1>2. After(0) = s
  BY DEF Memory
<1>3. W = Loop(W)
  <2>1. ASSUME NEW k \in 0..16
        PROVE  W[k] = IF k = 0 THEN s
                      ELSE [W[k - 1] EXCEPT ![k - 1] = W[k - 1][k - 1 + c], ![k] = NUL]
    <3>1. CASE k = 0
      BY <3>1, <1>2
    <3>2. CASE k # 0
      <4>1. k - 1 \in 0..15 /\ k - 1 + 1 = k
        BY <3>2
      <4>2. After(k - 1 + 1) = [After(k - 1) EXCEPT ![k - 1] = After(k - 1)[k - 1 + c],
                                                    ![k - 1 + 1] = NUL]
        BY <1>1, <4>1
      <4> HIDE DEF After
      <4>3. W[k] = After(k) /\ W[k - 1] = After(k - 1)
        BY <4>1
      <4> HIDE DEF W
      <4> QED BY <3>2, <4>1, <4>2, <4>3
    <3> QED BY <3>1, <3>2
  <2>2. W = [k \in 0..16 |-> W[k]]
    OBVIOUS
  <2> HIDE DEF W
  <2> QED BY <2>1, <2>2
<1>4. M = Loop(M)
  <2> HIDE DEF W
  <2> QED BY <1>3
<1>5. \A k \in 0..16 : M[k] = After(k)
  <2> HIDE DEF M
  <2>0. \A k \in 1..16 : M[k] = [M[k - 1] EXCEPT ![k - 1] = M[k - 1][k - 1 + c], ![k] = NUL]
    <3> HIDE DEF After
    <3>1. \A k \in 1..16 : k \in 0..16 /\ k # 0
      OBVIOUS
    <3> QED BY <1>4, <3>1
  <2>4. ASSUME NEW k \in 0..15, NEW next \in 1..16, next - 1 = k
        PROVE  M[next] = [M[k] EXCEPT ![k] = M[k][k + c], ![next] = NUL]
    BY <2>0, <2>4, Zenon
  <2> DEFINE T == {k \in Nat : k <= 16 => M[k] = After(k)}
  <2>1. 0 \in T
    <3> HIDE DEF After
    <3> QED BY <1>2, <1>4
  <2>2. ASSUME NEW k \in T PROVE k + 1 \in T
    <3>1. CASE k + 1 <= 16
      <4>1. k \in 0..15 /\ k + 1 \in 0..16 /\ k + 1 # 0 /\ k + 1 - 1 = k
        BY <3>1
      <4>2. M[k] = After(k)
        BY <4>1
      <4>3. M[k + 1] = [M[k] EXCEPT ![k] = M[k][k + c], ![k + 1] = NUL]
        <5>1. PICK next : next \in 1..16 /\ next - 1 = k /\ next = k + 1
          BY <4>1
        <5>2. M[next] = [M[k] EXCEPT ![k] = M[k][k + c], ![next] = NUL]
          BY <2>4, <4>1, <5>1, Zenon
        <5> QED BY <5>1, <5>2, Zenon
      <4> HIDE DEF After
      <4>4. M[k + 1] = After(k + 1)
        BY <4>1, <4>2, <4>3, <1>1
      <4> QED BY <4>4
    <3> QED BY <3>1
  <2>3. T = Nat
    <3> HIDE DEF T
    <3>3. T \in SUBSET Nat
      BY DEF T
    <3> QED BY <2>1, <2>2, <3>3, Induction
  <2> HIDE DEF After
  <2> QED BY <2>3
<1>6. MoveOut(s, c) = M[16]
  BY DEF MoveOut
<1>7. MoveOut(s, c) = After(16)
  <2> HIDE DEF M, After
  <2> QED BY <1>5, <1>6
<1>8. After(16) = MovedBy(s, c)
  BY DEF MovedBy
<1> QED BY <1>7, <1>8, Zenon

(* Reading a text from the left. *)
Reads(v, text, base, L) ==
  /\ Len(text) = L /\ v \in [0..L -> Nat] /\ v[0] = 0
  /\ \A k \in 1..L : v[k] = base * v[k - 1] + DigitOf(text[k])

LEMMA ValueRead ==
  ASSUME NEW text, NEW base \in Nat, NEW L \in Nat, NEW v, Reads(v, text, base, L)
  PROVE  Value(text, base) = v[L]
<1> USE DEF Reads
<1> DEFINE Read(f) == [k \in 0..L |-> IF k = 0 THEN 0 ELSE base * f[k - 1] + DigitOf(text[k])]
           w == CHOOSE f : f = Read(f)
<1>1. v = Read(v)
  <2>1. v = [k \in 0..L |-> v[k]]
    OBVIOUS
  <2>2. \A k \in 0..L : k # 0 => k \in 1..L
    OBVIOUS
  <2> QED BY <2>1, <2>2
<1>2. w = Read(w)
  BY <1>1
<1>3. Value(text, base) = w[L]
  BY DEF Value
<1> HIDE DEF w
<1> DEFINE T == {k \in Nat : k <= L => w[k] = v[k]}
<1>4. 0 \in T
  BY <1>2
<1>5. ASSUME NEW k \in T PROVE k + 1 \in T
  <2>1. CASE k + 1 <= L
    <3>1. k + 1 \in 1..L /\ k + 1 \in 0..L /\ k + 1 # 0 /\ k + 1 - 1 = k /\ w[k] = v[k]
      BY <2>1
    <3>2. w[k + 1] = base * w[k] + DigitOf(text[k + 1])
      BY <1>2, <3>1
    <3>3. v[k + 1] = base * v[k] + DigitOf(text[k + 1])
      BY <3>1
    <3> QED BY <3>1, <3>2, <3>3
  <2> QED BY <2>1
<1>6. T = Nat
  <2> HIDE DEF T
  <2>1. T \in SUBSET Nat
    BY DEF T
  <2> QED BY <1>4, <1>5, <2>1, Induction
<1>7. L \in T
  BY <1>6
<1> QED BY <1>3, <1>7

(* The digits of a conversion, read again, give the number. *)
Spells(text, num, base, d) ==
  Len(text) = d /\ \A k \in 1..d : text[k] = Digit(num, base, d - k)

LEMMA DigitsRead ==
  ASSUME NEW n \in Nat, NEW base \in {10, 16}, NEW num, IsQuotients(num, n, base),
         NEW d \in 1..16, num[d] = 0,
         NEW text, Spells(text, num, base, d)
  PROVE  Value(text, base) = n
<1> USE DEF Spells
<1> DEFINE v == [k \in 0..d |-> num[d - k]]
<1>1. v \in [0..d -> Nat]
  <2>1. \A k \in 0..d : d - k \in 0..16
    OBVIOUS
  <2> QED BY <2>1 DEF IsQuotients
<1>2. ASSUME NEW k \in 1..d
      PROVE  v[k] = base * v[k - 1] + DigitOf(text[k])
  <2>1. d - k \in 0..15 /\ d - (k - 1) = d - k + 1 /\ k - 1 \in 0..d /\ k \in 0..d
    OBVIOUS
  <2>2. num[d - k] \in Nat /\ num[d - k + 1] = num[d - k] \div base
    <3>1. d - k \in 0..16
      BY <2>1
    <3> QED BY <2>1, <3>1 DEF IsQuotients
  <2>3. /\ num[d - k] % base \in 0..15
        /\ num[d - k] = base * (num[d - k] \div base) + (num[d - k] % base)
    BY <2>2, Rounded
  <2>4. DigitOf(text[k]) = num[d - k] % base
    BY <2>3, DigitsDiffer DEF Digit
  <2>5. v[k] = num[d - k] /\ v[k - 1] = num[d - k + 1]
    BY <2>1
  <2> QED BY <2>2, <2>3, <2>4, <2>5, Zenon
<1>3. v[0] = 0 /\ v[d] = n
  BY DEF IsQuotients
<1>4. base \in Nat /\ d \in Nat
  OBVIOUS
<1> HIDE DEF v
<1>5. Reads(v, text, base, d)
  BY <1>1, <1>2, <1>3 DEF Reads
<1>6. Value(text, base) = v[d]
  BY <1>4, <1>5, ValueRead
<1> QED BY <1>3, <1>6

LEMMA Bounds ==
  MaxTokens \in Nat /\ MaxTexts \in Nat /\ MaxText \in Nat /\ MaxText > 2 /\ OutMax \in Nat
<1>1. MaxTokens \in Nat /\ MaxTexts \in Nat /\ MaxText \in Nat /\ MaxText > 2
  BY LoggerAssumption
<1>2. OutMax \in Nat
  BY <1>1 DEF OutMax
<1> QED BY <1>1, <1>2

(* The text of a memory ends at the first NUL. *)
LEMMA TextFound ==
  ASSUME NEW s, NEW k \in Nat, NEW e \in Nat, e <= OutMax + 32,
         s[k + e] = NUL, \A b \in 0..e - 1 : s[k + b] # NUL
  PROVE  StrLen(s, k) = e /\ TextAt(s, k) = [n \in 1..e |-> s[k + n - 1]]
<1> DEFINE Ends(n) == s[k + n] = NUL /\ \A b \in 0..n - 1 : s[k + b] # NUL
<1>1. e \in 0..OutMax + 32
  BY Bounds
<1>2. ASSUME NEW n \in 0..OutMax + 32, Ends(n)
      PROVE  n = e
  <2>1. CASE n < e
    <3>1. n \in 0..e - 1
      BY <2>1, Bounds
    <3> QED BY <3>1, <1>2
  <2>2. CASE e < n
    <3>1. e \in 0..n - 1
      BY <2>2, Bounds
    <3> QED BY <3>1, <1>2
  <2> QED BY <2>1, <2>2, Bounds
<1>3. Ends(e)
  OBVIOUS
<1>4. StrLen(s, k) = CHOOSE n \in 0..OutMax + 32 : Ends(n)
  BY DEF StrLen
<1> HIDE DEF Ends
<1>5. StrLen(s, k) = e
  BY <1>1, <1>2, <1>3, <1>4
<1> QED BY <1>5 DEF TextAt

(* The text that stands at byte 16 ends within the memory. *)
Behind(s, e) ==
  /\ e \in 0..16 /\ s[16 + e] = NUL /\ \A b \in 0..e - 1 : s[16 + b] # NUL
  /\ TextAt(s, 16) = [n \in 1..e |-> s[16 + n - 1]]

LEMMA TextBehind ==
  ASSUME NEW s, s[32] = NUL
  PROVE  \E e : Behind(s, e)
<1>1. PICK e \in 0..16 : s[16 + e] = NUL /\ \A b \in 0..e - 1 : s[16 + b] # NUL
  <2>1. SUFFICES ASSUME \A e \in 0..16 : s[16 + e] = NUL => \E b \in 0..e - 1 : s[16 + b] = NUL
                 PROVE FALSE
    OBVIOUS
  <2> DEFINE T == {m \in Nat : m <= 16 => \A b \in 0..m : s[16 + b] # NUL}
  <2>2. 0 \in T
    <3>1. s[16 + 0] # NUL
      BY <2>1
    <3> QED BY <3>1
  <2>3. ASSUME NEW m \in T PROVE m + 1 \in T
    BY <2>1
  <2>4. T = Nat
    <3> HIDE DEF T
    <3>1. T \in SUBSET Nat
      BY DEF T
    <3>2. \A m \in T : m + 1 \in T
      BY <2>3
    <3> QED BY ONLY <2>2, <3>1, <3>2, Induction
  <2>5. 16 \in T
    <3> HIDE DEF T
    <3> QED BY <2>4
  <2>6. s[16 + 16] # NUL
    BY <2>5
  <2> QED BY <2>6
<1>2. e \in Nat /\ e <= OutMax + 32
  BY Bounds
<1>3. TextAt(s, 16) = [n \in 1..e |-> s[16 + n - 1]]
  BY <1>1, <1>2, TextFound
<1>4. Behind(s, e)
  BY <1>1, <1>3 DEF Behind
<1> QED BY <1>4

(* What a conversion to base ten leaves in the memory. *)
LEMMA DecimalLaid ==
  ASSUME NEW n \in Nat, NEW s, Memory(s), NEW d, DigitCount(Quotients(n, 10), d)
  PROVE  ToDec(s, n) = [b \in 0..32 |-> IF b < d THEN Digit(Quotients(n, 10), 10, d - 1 - b)
                                        ELSE IF b <= 15 THEN s[16 + (b - d)]
                                        ELSE IF b = 16 THEN NUL ELSE s[b]]
<1> DEFINE num == Quotients(n, 10)
           right == FromTheRight(s, num)
<1>1. d \in 1..10 /\ 16 - d \in 1..15
  BY DEF DigitCount
<1>2. right = [b \in 0..32 |-> IF b > 15 THEN s[b]
                              ELSE IF IsBlank(num, 15 - b) THEN Space ELSE Digit(num, 10, 15 - b)]
  <2>1. DOMAIN s = 0..32
    BY DEF Memory
  <2> QED BY <2>1 DEF FromTheRight
<1>6. ToDec(s, n) = MoveOut(right, 16 - d)
  <2>1. ToDec(s, n) = MoveOut(right, Cardinality(Blanks(num)))
    BY DEF ToDec
  <2>2. Cardinality(Blanks(num)) = 16 - d
    BY BlanksCounted
  <2> QED BY <2>1, <2>2
<1>9. DigitCount(num, d)
  OBVIOUS
<1> HIDE DEF right, num
<1>3. ASSUME NEW b \in 0..15, b >= 16 - d
      PROVE  right[b] = Digit(num, 10, 15 - b)
  <2>1. 15 - b \in 0..15 /\ ~(15 - b >= d) /\ ~(b > 15) /\ b \in 0..32
    BY <1>1, <1>3
  <2>2. ~IsBlank(num, 15 - b)
    BY <1>9, <2>1 DEF DigitCount
  <2> QED BY <1>2, <2>1, <2>2
<1>4. \A b \in 16..32 : right[b] = s[b]
  BY <1>2
<1>5. Memory(right)
  BY <1>2 DEF Memory
<1>7. ToDec(s, n) = [b \in 0..32 |-> IF b <= 15 THEN right[b + (16 - d)]
                                     ELSE IF b = 16 THEN NUL ELSE right[b]]
  BY <1>1, <1>5, <1>6, MovedOut DEF MovedBy
<1>8. ASSUME NEW b \in 0..32
      PROVE  (IF b <= 15 THEN right[b + (16 - d)] ELSE IF b = 16 THEN NUL ELSE right[b])
               = IF b < d THEN Digit(num, 10, d - 1 - b)
                 ELSE IF b <= 15 THEN s[16 + (b - d)] ELSE IF b = 16 THEN NUL ELSE s[b]
  <2>1. CASE b < d
    <3>1. b + (16 - d) \in 0..15 /\ b + (16 - d) >= 16 - d /\ 15 - (b + (16 - d)) = d - 1 - b
      BY <1>1, <2>1
    <3> QED BY <1>1, <1>3, <2>1, <3>1
  <2>2. CASE b >= d /\ b <= 15
    <3>1. b + (16 - d) \in 16..32 /\ b + (16 - d) = 16 + (b - d)
      BY <1>1, <2>2
    <3> QED BY <1>1, <1>4, <2>2, <3>1
  <2>3. CASE b > 15
    BY <1>1, <1>4, <2>3
  <2> QED BY <1>1, <2>1, <2>2, <2>3
<1> QED BY <1>7, <1>8 DEF num

LEMMA TailOf ==
  ASSUME NEW S, NEW q \in Seq(S), NEW d \in Nat, d <= Len(q)
  PROVE  /\ Len(SubSeq(q, d + 1, Len(q))) = Len(q) - d
         /\ SubSeq(q, d + 1, Len(q)) \in Seq(S)
         /\ \A k \in 1..Len(q) - d : SubSeq(q, d + 1, Len(q))[k] = q[d + k]
  OBVIOUS

LEMMA SamePrefix ==
  ASSUME NEW V, NEW x \in Seq(V), NEW W, NEW y \in Seq(W), Len(x) <= Len(y),
         \A k \in 1..Len(x) : x[k] = y[k]
  PROVE  SubSeq(x, 1, Len(x)) = SubSeq(y, 1, Len(x))
  OBVIOUS

(* A conversion writes the number, and decimal blanks become what stood    *)
(* behind the block.                                                       *)
LEMMA DecimalRead ==
  ASSUME NEW n \in Nat, Fits(n), NEW s, Memory(s), s[32] = NUL,
         NEW r, r = ToDec(s, n), NEW text, text = TextAt(r, 0)
  PROVE  /\ Memory(r) /\ r[32] = NUL
         /\ \E d \in 1..Len(text) :
              /\ \A k \in 1..d : text[k] \in ToSet(Digits)
              /\ Value(SubSeq(text, 1, d), 10) = n
              /\ d = 1 \/ text[1] # "0"
              /\ IsPrefix(SubSeq(text, d + 1, Len(text)), TextAt(s, 16))
<1> DEFINE num == Quotients(n, 10)
<1>1. IsQuotients(num, n, 10)
  BY QuotientsAre
<1>2. PICK d : DigitCount(num, d)
  BY <1>1, DigitsCounted
<1>3. d \in 1..10 /\ num[d] = 0 /\ (d = 1 \/ num[d - 1] # 0)
  BY <1>2 DEF DigitCount
<1>4. r = [b \in 0..32 |-> IF b < d THEN Digit(num, 10, d - 1 - b)
                          ELSE IF b <= 15 THEN s[16 + (b - d)]
                          ELSE IF b = 16 THEN NUL ELSE s[b]]
  BY <1>2, DecimalLaid
<1> HIDE DEF num
<1>5. Memory(r) /\ r[32] = NUL
  BY <1>3, <1>4 DEF Memory
<1>6. PICK e : Behind(s, e)
  BY TextBehind
<1>7. /\ e \in 0..16 /\ s[16 + e] = NUL /\ \A b \in 0..e - 1 : s[16 + b] # NUL
      /\ TextAt(s, 16) = [k \in 1..e |-> s[16 + k - 1]]
  BY <1>6 DEF Behind
<1>8. ASSUME NEW k \in 0..15
      PROVE  /\ num[k] \in Nat /\ num[k] % 10 \in 0..15 /\ Digit(num, 10, k) # NUL
             /\ Digit(num, 10, k) \in ToSet(Digits)
             /\ Digit(num, 10, k) = "0" <=> num[k] % 10 = 0
  <2>1. num[k] \in Nat
    BY <1>1 DEF IsQuotients
  <2>2. num[k] % 10 \in 0..15
    BY <2>1, Rounded
  <2> QED BY <2>1, <2>2, DigitsDiffer DEF Digit
<1> DEFINE t == IF d + e <= 16 THEN d + e ELSE 16
<1>9. t \in 1..16 /\ d \in 1..t /\ t - d <= e /\ t - d \in 0..15
  BY <1>3, <1>7
<1>10. r[t] = NUL
  <2>1. CASE d + e <= 15
    <3>1. t = d + e /\ ~(t < d) /\ t <= 15 /\ t \in 0..32 /\ 16 + (t - d) = 16 + e
      BY <1>3, <1>7, <2>1
    <3> HIDE DEF t
    <3> QED BY <1>4, <1>7, <3>1
  <2>2. CASE ~(d + e <= 15)
    <3>1. t = 16
      BY <1>3, <1>7, <2>2
    <3> QED BY <1>3, <1>4, <3>1
  <2> QED BY <2>1, <2>2
<1> HIDE DEF t
<1>11. ASSUME NEW b \in 0..d - 1 PROVE r[b] = Digit(num, 10, d - 1 - b) /\ r[b] # NUL
  <2>1. b < d /\ b \in 0..32 /\ d - 1 - b \in 0..15
    BY <1>3
  <2> QED BY <1>4, <1>8, <2>1
<1>12. ASSUME NEW b \in d..t - 1 PROVE r[b] = s[16 + (b - d)] /\ r[b] # NUL
  <2>1. ~(b < d) /\ b <= 15 /\ b \in 0..32 /\ b - d \in 0..e - 1
    BY <1>3, <1>7, <1>9
  <2> QED BY <1>4, <1>7, <2>1
<1>13. ASSUME NEW b \in 0..t - 1 PROVE r[0 + b] # NUL
  <2>1. 0 + b = b /\ (b \in 0..d - 1 \/ b \in d..t - 1)
    BY <1>3, <1>9
  <2> QED BY <1>11, <1>12, <2>1
<1>14. text = [k \in 1..t |-> r[0 + k - 1]]
  <2>1. t \in Nat /\ t <= OutMax + 32 /\ r[0 + t] = NUL
    BY <1>9, <1>10, Bounds
  <2> QED BY <1>13, <2>1, TextFound
<1>15. /\ text \in Seq({text[k] : k \in 1..t}) /\ Len(text) = t
       /\ \A k \in 1..t : text[k] = r[k - 1]
  BY <1>9, <1>14
<1>16. ASSUME NEW k \in 1..d PROVE text[k] = Digit(num, 10, d - k)
  <2>1. k - 1 \in 0..d - 1 /\ d - 1 - (k - 1) = d - k /\ k \in 1..t
    BY <1>3, <1>9
  <2> QED BY <1>11, <1>15, <2>1
<1>17. \A k \in 1..d : text[k] \in ToSet(Digits)
  <2>1. \A k \in 1..d : d - k \in 0..15
    BY <1>3
  <2> QED BY <1>8, <1>16, <2>1
<1>18. Value(SubSeq(text, 1, d), 10) = n
  <2>1. Len(SubSeq(text, 1, d)) = d /\ \A k \in 1..d : SubSeq(text, 1, d)[k] = text[k]
    BY <1>9, <1>15
  <2>2. Spells(SubSeq(text, 1, d), num, 10, d)
    BY <1>16, <2>1 DEF Spells
  <2> QED BY <1>1, <1>3, <2>2, DigitsRead
<1>19. d = 1 \/ text[1] # "0"
  <2>1. SUFFICES ASSUME d # 1 PROVE text[1] # "0"
    OBVIOUS
  <2>2. d - 1 \in 0..15 /\ 1 \in 1..d /\ d - 1 + 1 = d
    BY <1>3
  <2>3. num[d - 1] \in Nat /\ num[d - 1] # 0 /\ num[d - 1] \div 10 = 0
    BY <1>1, <1>3, <1>8, <2>1, <2>2 DEF IsQuotients
  <2>4. num[d - 1] % 10 # 0
    BY <2>3
  <2> QED BY <1>8, <1>16, <2>2, <2>4
<1>20. IsPrefix(SubSeq(text, d + 1, Len(text)), TextAt(s, 16))
  <2> DEFINE x == SubSeq(text, d + 1, Len(text))
             y == TextAt(s, 16)
  <2>1. PICK V : text \in Seq(V)
    BY <1>15
  <2>2. x \in Seq(V) /\ Len(x) = t - d /\ \A k \in 1..t - d : x[k] = text[d + k]
    <3>1. d \in Nat /\ d <= Len(text)
      BY <1>9, <1>15
    <3>2. /\ Len(x) = Len(text) - d /\ x \in Seq(V)
          /\ \A k \in 1..Len(text) - d : x[k] = text[d + k]
      BY <2>1, <3>1, TailOf
    <3> HIDE DEF x
    <3> QED BY <1>15, <3>2
  <2>3. PICK W : y \in Seq(W) /\ Len(y) = e /\ \A k \in 1..e : y[k] = s[16 + k - 1]
    <3>1. /\ y \in Seq({y[k] : k \in 1..e}) /\ Len(y) = e
          /\ \A k \in 1..e : y[k] = s[16 + k - 1]
      BY <1>7
    <3> QED BY <3>1
  <2> HIDE DEF x, y
  <2>4. ASSUME NEW k \in 1..t - d PROVE x[k] = y[k]
    <3>1. PICK b : /\ b \in d..t - 1 /\ b = d + k - 1 /\ d + k = b + 1
                   /\ b - d = k - 1 /\ k \in 1..e
      BY <1>3, <1>7, <1>9
    <3>2. x[k] = text[b + 1]
      BY <2>2, <3>1
    <3>3. text[b + 1] = r[b]
      <4>1. PICK m \in 1..t : m = b + 1 /\ m - 1 = b
        BY <1>3, <1>9, <3>1
      <4>2. text[m] = r[m - 1]
        BY <1>15
      <4> QED BY <4>1, <4>2
    <3>4. r[b] = s[16 + (k - 1)] /\ 16 + (k - 1) = 16 + k - 1
      BY <1>12, <3>1
    <3> QED BY <2>3, <3>1, <3>2, <3>3, <3>4
  <2>5. Len(x) \in Nat /\ Len(x) <= Len(y)
    BY <1>9, <2>2, <2>3
  <2>6. SubSeq(x, 1, Len(x)) = SubSeq(y, 1, Len(x))
    BY <2>2, <2>3, <2>4, <2>5, SamePrefix
  <2>7. IsPrefix(x, y)
    BY <2>5, <2>6 DEF IsPrefix
  <2> QED BY <2>7 DEF x, y
<1>21. d \in 1..Len(text)
  BY <1>9, <1>15
<1> QED BY <1>5, <1>17, <1>18, <1>19, <1>20, <1>21

LEMMA HexRead ==
  ASSUME NEW n \in Nat, Fits(n), NEW s, Memory(s), s[32] = NUL,
         NEW r, r = ToHex(s, n), NEW text, text = TextAt(r, 0)
  PROVE  Memory(r) /\ r[32] = NUL /\ Len(text) = 8 /\ Value(text, 16) = n
<1> DEFINE num == Quotients(n, 16)
<1>1. IsQuotients(num, n, 16)
  BY QuotientsAre
<1>2. r = [b \in 0..32 |-> IF b < 8 THEN Digit(num, 16, 7 - b) ELSE IF b = 8 THEN NUL ELSE s[b]]
  <2>1. DOMAIN s = 0..32
    BY DEF Memory
  <2> QED BY <2>1 DEF ToHex
<1> HIDE DEF num
<1>3. Memory(r) /\ r[32] = NUL
  BY <1>2 DEF Memory
<1>4. ASSUME NEW b \in 0..7 PROVE r[b] = Digit(num, 16, 7 - b) /\ r[b] # NUL
  <2>1. num[7 - b] \in Nat
    BY <1>1 DEF IsQuotients
  <2>2. num[7 - b] % 16 \in 0..15
    BY <2>1, Rounded
  <2>3. Digit(num, 16, 7 - b) # NUL
    BY <2>2, DigitsDiffer DEF Digit
  <2> QED BY <1>2, <2>3
<1>5. text = [k \in 1..8 |-> r[0 + k - 1]]
  <2>1. PICK e \in Nat : e = 8
    OBVIOUS
  <2>2. e <= OutMax + 32 /\ r[0 + e] = NUL /\ \A b \in 0..e - 1 : r[0 + b] # NUL
    BY <1>2, <1>4, <2>1, Bounds
  <2>3. text = [k \in 1..e |-> r[0 + k - 1]]
    BY <2>2, TextFound
  <2> QED BY <2>1, <2>3
<1>6. Len(text) = 8
  BY <1>5
<1>7. ASSUME NEW k \in 1..8 PROVE text[k] = Digit(num, 16, 8 - k)
  <2>1. k - 1 \in 0..7 /\ 7 - (k - 1) = 8 - k /\ 0 + k - 1 = k - 1
    OBVIOUS
  <2> QED BY <1>4, <1>5, <2>1
<1>8. num[8] = 0
  BY <1>1, EightDigits
<1>9. Value(text, 16) = n
  <2>1. Spells(text, num, 16, 8)
    BY <1>6, <1>7 DEF Spells
  <2> QED BY <1>1, <1>8, <2>1, DigitsRead
<1> QED BY <1>3, <1>6, <1>9

-----------------------------------------------------------------------------
(* Every conversion has left the number it was given. *)
NumberInv ==
  /\ Memory(res) /\ res[32] = NUL
  /\ task # "number" => number = <<>>
  /\ NumberRead

LEMMA InitNumber ==
  ASSUME InitText
  PROVE  NumberInv
<1>1. PICK n \in (IF task = "number" THEN 0..16 ELSE {0}) :
           res = [b \in 0..32 |-> IF b < 16 + n THEN Stale ELSE NUL]
  BY Zenon DEF InitText
<1>2. Memory(res) /\ res[32] = NUL
  <2>1. n \in 0..16 /\ ~(32 < 16 + n)
    OBVIOUS
  <2> QED BY <1>1, <2>1 DEF Memory
<1>3. number = <<>>
  BY DEF InitText
<1> QED BY <1>2, <1>3 DEF NumberInv, NumberRead

LEMMA NextNumber ==
  ASSUME NumberInv, [NextText]_textVars
  PROVE  NumberInv'
<1>1. CASE UNCHANGED <<task, res, number, behind>>
  <2>1. TextAt(res, 0)' = TextAt(res, 0)
    BY <1>1 DEF TextAt, StrLen
  <2> QED BY <1>1, <2>1 DEF NumberInv, NumberRead
<1>2. ASSUME NEW base \in {10, 16}, NEW n \in Numbers, Convert(base, n)
      PROVE  NumberInv'
  <2>1. n \in Nat /\ Fits(n)
    BY LoggerAssumption DEF Fits
  <2>2. /\ task = "number" /\ task' = task /\ number' = <<base, n>>
        /\ res' = IF base = 16 THEN ToHex(res, n) ELSE ToDec(res, n)
        /\ behind' = TextAt(res, 16)
    BY <1>2 DEF Convert
  <2>3. number'[1] = base /\ number'[2] = n
    BY <2>2
  <2>4. Memory(res) /\ res[32] = NUL
    BY DEF NumberInv
  <2> DEFINE text == TextAt(res', 0)
  <2>5. CASE base = 16
    <3>1. res' = ToHex(res, n)
      BY <2>2, <2>5
    <3>2. Memory(res') /\ res'[32] = NUL /\ Len(text) = 8 /\ Value(text, 16) = n
      BY <2>1, <2>4, <3>1, HexRead
    <3>3. NumberRead'
      BY <2>3, <2>5, <3>2 DEF NumberRead
    <3> QED BY <2>2, <3>2, <3>3 DEF NumberInv
  <2>6. CASE base = 10
    <3>1. res' = ToDec(res, n)
      BY <2>2, <2>6
    <3>2. /\ Memory(res') /\ res'[32] = NUL
          /\ \E d \in 1..Len(text) :
               /\ \A k \in 1..d : text[k] \in ToSet(Digits)
               /\ Value(SubSeq(text, 1, d), 10) = n
               /\ d = 1 \/ text[1] # "0"
               /\ IsPrefix(SubSeq(text, d + 1, Len(text)), behind')
      BY <2>1, <2>2, <2>4, <3>1, DecimalRead
    <3>3. NumberRead'
      BY <2>3, <2>6, <3>2 DEF NumberRead
    <3> QED BY <2>2, <3>2, <3>3 DEF NumberInv
  <2> QED BY <2>5, <2>6
<1>3. CASE Call \/ Format
  BY <1>1, <1>3 DEF Call, Format, numberVars
<1>4. CASE UNCHANGED textVars
  BY <1>1, <1>4 DEF textVars, numberVars
<1>5. ASSUME NEW ns, NEW str, AskLog(ns, str) PROVE NumberInv'
  BY <1>1, <1>5 DEF AskLog, numberVars
<1>6. CASE Log
  BY <1>1, <1>6 DEF Log, numberVars
<1>7. ASSUME NEW size, LogSection(size) PROVE NumberInv'
  BY <1>1, <1>7 DEF LogSection, numberVars
<1> QED BY <1>2, <1>3, <1>4, <1>5, <1>6, <1>7 DEF NextText

(* Whatever 32-bit numbers are converted, one over the other in memory used*)
(* before, the text has the value of its number, and bytes the loop of     *)
(* io.c:97-101 reads past the block come only behind it (io.c:65-103).     *)
THEOREM NumbersRead == SpecText => []NumberRead
<1>1. InitText => NumberInv
  BY InitNumber
<1>2. NumberInv /\ [NextText]_textVars => NumberInv'
  BY NextNumber
<1>3. NumberInv => NumberRead
  BY DEF NumberInv
<1> QED BY <1>1, <1>2, <1>3, PTL DEF SpecText

-----------------------------------------------------------------------------
(* A line being written is the one asked for, or the refusal of it; a      *)
(* section's columns are those of its name.                                *)
LineInv ==
  /\ asked = NoLine \/ asked \in Nat \X Nat
  /\ asked = NoLine /\ section = -1 => reach = 0 /\ line = NoLine
  /\ asked # NoLine => section = -1
  /\ asked # NoLine /\ line # NoLine =>
       \/ line = asked /\ reach = 0
       \/ /\ line = LogTooBig /\ TooBig(asked[1], asked[2])
          /\ reach = Written(asked[1], asked[2])
  /\ asked # NoLine /\ line = NoLine =>
       /\ reach = Written(asked[1], asked[2])
       /\ printed = IF TooBig(asked[1], asked[2]) THEN LogTooBig ELSE asked
  /\ columns # <<>> => section \in 0..62 /\ columns = [k \in 0..63 |-> Column(section, k)]

LEMMA InitLine ==
  ASSUME InitText
  PROVE  LineInv
  BY DEF InitText, LineInv, NoLine

(* What the test of the size tells of what has been written. *)
LEMMA Measured ==
  ASSUME NEW ns \in Nat, NEW str \in Nat
  PROVE  /\ Written(ns, str) \in Nat /\ Written(ns, str) > 0
         /\ TooBig(ns, str) <=> Written(ns, str) > 256 + 12
  BY DEF Written, TooBig

LEMMA NextLine ==
  ASSUME LineInv, [NextText]_textVars
  PROVE  LineInv'
<1>1. CASE UNCHANGED lineVars
  BY <1>1 DEF LineInv, lineVars
<1>2. CASE UNCHANGED textVars
  BY <1>1, <1>2 DEF textVars
<1>3. CASE Call \/ Format
  BY <1>1, <1>3 DEF Call, Format
<1>4. ASSUME NEW base, NEW n, Convert(base, n) PROVE LineInv'
  BY <1>1, <1>4 DEF Convert
<1>5. ASSUME NEW ns \in Nat, NEW str \in Nat, AskLog(ns, str) PROVE LineInv'
  <2>1. /\ line' = <<ns, str>> /\ asked' = <<ns, str>> /\ UNCHANGED <<reach, columns, section>>
        /\ asked = NoLine /\ section = -1
    BY <1>5 DEF AskLog
  <2>2. asked' \in Nat \X Nat /\ line' = asked' /\ reach' = 0
    BY <2>1 DEF LineInv
  <2>3. line' # NoLine /\ asked' # NoLine
    BY <2>1 DEF NoLine
  <2> QED BY <2>1, <2>2, <2>3 DEF LineInv, Column, Left
<1>6. CASE Log
  <2>1. /\ line # NoLine /\ UNCHANGED <<asked, section, columns>>
        /\ reach' = IF Written(line[1], line[2]) > reach THEN Written(line[1], line[2]) ELSE reach
        /\ TooBig(line[1], line[2]) => line' = LogTooBig /\ printed' = printed
        /\ ~TooBig(line[1], line[2]) => line' = NoLine /\ printed' = line
    BY <1>6 DEF Log
  <2>2. CASE asked = NoLine /\ section # -1
    BY <2>1, <2>2 DEF LineInv
  <2>3. CASE asked = NoLine /\ section = -1
    BY <2>1, <2>3 DEF LineInv
  <2>4. CASE asked # NoLine
    <3> DEFINE a == Written(asked[1], asked[2])
    <3>1. asked[1] \in Nat /\ asked[2] \in Nat
      BY <2>4 DEF LineInv
    <3>2. a \in Nat /\ a > 0 /\ (TooBig(asked[1], asked[2]) <=> a > 256 + 12)
      BY <3>1, Measured
    <3> HIDE DEF a
    <3>3. CASE line = asked /\ reach = 0
      <4>1. reach' = a
        BY <2>1, <3>2, <3>3 DEF a
      <4>2. LogTooBig # NoLine
        BY DEF LogTooBig, NoLine
      <4> QED BY <2>1, <2>4, <3>3, <4>1, <4>2 DEF LineInv, a
    <3>4. CASE line = LogTooBig /\ TooBig(asked[1], asked[2]) /\ reach = a
      <4>1. line[1] = 6 /\ line[2] = 11
        BY <3>4 DEF LogTooBig
      <4>2. ~TooBig(line[1], line[2]) /\ Written(line[1], line[2]) = 34
        BY <4>1 DEF TooBig, Written
      <4>3. line' = NoLine /\ printed' = LogTooBig /\ reach' = a
        BY <2>1, <3>2, <3>4, <4>2
      <4> QED BY <2>1, <2>4, <3>4, <4>3 DEF LineInv, a
    <3> QED BY <2>1, <2>4, <3>3, <3>4 DEF LineInv, a
  <2> QED BY <2>2, <2>3, <2>4
<1>7. ASSUME NEW size \in Nat, LogSection(size) PROVE LineInv'
  <2>1. asked = NoLine /\ UNCHANGED <<asked, reach>> /\ section' = size /\ section = -1
    BY <1>7 DEF LogSection
  <2>2. CASE size + 2 > 64
    <3>1. columns' = columns
      BY <1>7, <2>2 DEF LogSection
    <3>2. columns = <<>>
      BY <2>1 DEF LineInv
    <3> QED BY <2>1, <3>1, <3>2 DEF LineInv
  <2>3. CASE ~(size + 2 > 64)
    <3>1. columns' = [k \in 0..63 |-> Column(size, k)]
      BY <1>7, <2>3 DEF LogSection
    <3>2. size \in 0..62
      BY <2>3
    <3> QED BY <2>1, <3>1, <3>2 DEF LineInv, Column, Left
  <2> QED BY <2>2, <2>3
<1>8. ASSUME NEW ask \in Lines, AskLog(ask[1], ask[2]) PROVE LineInv'
  <2>1. ask[1] \in Nat /\ ask[2] \in Nat
    BY LoggerAssumption
  <2> QED BY <1>5, <1>8, <2>1
<1>9. ASSUME NEW size \in Titles, LogSection(size) PROVE LineInv'
  <2>1. size \in Nat
    BY LoggerAssumption
  <2> QED BY <1>7, <1>9, <2>1
<1> QED BY <1>2, <1>3, <1>4, <1>6, <1>8, <1>9 DEF NextText

(* Two blanks, and what is outside of them. *)
LEMMA TwoBlanks ==
  ASSUME NEW a \in Int, NEW b \in Int, a # b
  PROVE  Cardinality({a, b}) = 2
<1>1. IsFiniteSet({a}) /\ Cardinality({a}) = 1
  BY FS_Singleton
<1>2. b \notin {a}
  OBVIOUS
<1>3. Cardinality({a} \cup {b}) = Cardinality({a}) + 1
  BY <1>1, <1>2, FS_AddElement
<1>4. {a} \cup {b} = {a, b}
  OBVIOUS
<1>5. Cardinality({a, b}) = Cardinality({a}) + 1
  BY <1>3, <1>4, Zenon
<1> QED BY <1>1, <1>5

LEMMA OutsideCounted ==
  ASSUME NEW a \in 0..63, NEW b \in 0..63, a < b
  PROVE  /\ Cardinality(0..a - 1) = a
         /\ Cardinality((0..a - 1) \cup (b + 1..63)) = 63 - b + a
<1>1. IsFiniteSet(0..a - 1) /\ Cardinality(0..a - 1) = a
  <2>1. 0 \in Int /\ a - 1 \in Int /\ (IF 0 > a - 1 THEN 0 ELSE a - 1 - 0 + 1) = a
    OBVIOUS
  <2> QED BY <2>1, FS_Interval
<1>2. IsFiniteSet(b + 1..63) /\ Cardinality(b + 1..63) = 63 - b
  <2>1. b + 1 \in Int /\ 63 \in Int /\ (IF b + 1 > 63 THEN 0 ELSE 63 - (b + 1) + 1) = 63 - b
    OBVIOUS
  <2> QED BY <2>1, FS_Interval
<1>3. (0..a - 1) \cap (b + 1..63) = {}
  OBVIOUS
<1> DEFINE low == 0..a - 1
           high == b + 1..63
<1>4. IsFiniteSet(low) /\ IsFiniteSet(high) /\ low \cap high = {}
  BY <1>1, <1>2, <1>3
<1>5. Cardinality(low) = a /\ Cardinality(high) = 63 - b
  BY <1>1, <1>2
<1> HIDE DEF low, high
<1>6. Cardinality(low \cup high) = Cardinality(low) + Cardinality(high) - Cardinality(low \cap high)
  BY <1>4, FS_Union, Zenon
<1>7. Cardinality(low \cap high) = 0
  BY <1>4, FS_EmptySet
<1>8. Cardinality(low \cup high) = 63 - b + a
  BY <1>5, <1>6, <1>7
<1> USE DEF low, high
<1> QED BY <1>1, <1>8

(* The name of a section is in the middle of its line. *)
Centred(cols, size) ==
  LET equals == {k \in 0..63 : cols[k] = "="}
      blanks == {k \in 0..63 : cols[k] = Space}
      left   == Cardinality({k \in equals : \E b \in blanks : k < b})
  IN  /\ Cardinality(blanks) = 2 /\ Cardinality(equals) = 62 - size
      /\ \A k \in 0..63 : cols[k] = Letter <=>
           (\E b \in blanks : b < k) /\ (\E b \in blanks : b > k)
      /\ 2 * left \in (62 - size - 1)..(62 - size)

LEMMA SectionCentred ==
  ASSUME NEW size \in 0..62, NEW cols, cols = [k \in 0..63 |-> Column(size, k)]
  PROVE  Centred(cols, size)
<1> DEFINE equals == {k \in 0..63 : cols[k] = "="}
           blanks == {k \in 0..63 : cols[k] = Space}
           before == {k \in equals : \E b \in blanks : k < b}
<1>1. PICK x \in 0..63, y \in 0..63 : x = Left(size) - 1 /\ y = size + Left(size)
  <2>1. Left(size) - 1 \in 0..63 /\ size + Left(size) \in 0..63
    BY DEF Left
  <2> QED BY <2>1
<1>2. x < y /\ y - x = size + 1 /\ 2 * x \in (61 - size)..(62 - size)
  BY <1>1 DEF Left
<1>3. Letter # Space /\ Letter # "=" /\ Space # "="
  BY DEF Letter, Space
<1>4. ASSUME NEW k \in 0..63
      PROVE  cols[k] = IF x < k /\ k < y THEN Letter ELSE IF k \in {x, y} THEN Space ELSE "="
  <2>1. Left(size) \in Int /\ Left(size) = x + 1 /\ size + Left(size) = y
    BY <1>1 DEF Left
  <2>2. k \in Left(size)..size - 1 + Left(size) <=> x < k /\ k < y
    BY <2>1
  <2>3. cols[k] = Column(size, k) /\ Left(size) - 1 = x
    BY <1>1
  <2> QED BY <2>1, <2>2, <2>3 DEF Column
<1>5. blanks = {x, y}
  <2>1. ASSUME NEW k \in 0..63 PROVE cols[k] = Space <=> k \in {x, y}
    BY <1>2, <1>3, <1>4
  <2> QED BY <2>1
<1>6. equals = (0..x - 1) \cup (y + 1..63)
  <2>1. ASSUME NEW k \in 0..63
        PROVE  cols[k] = "=" <=> k \in (0..x - 1) \cup (y + 1..63)
    BY <1>2, <1>3, <1>4
  <2>2. (0..x - 1) \cup (y + 1..63) \subseteq 0..63
    OBVIOUS
  <2> QED BY <2>1, <2>2
<1>7. before = 0..x - 1
  <2>1. ASSUME NEW k \in equals PROVE k \in before <=> k \in 0..x - 1
    <3>1. k \in (0..x - 1) \cup (y + 1..63)
      BY <1>6, <2>1
    <3>2. (\E b \in {x, y} : k < b) <=> k < x \/ k < y
      OBVIOUS
    <3>3. (\E b \in blanks : k < b) <=> k < x \/ k < y
      BY <1>5, <3>2
    <3> QED BY <1>2, <2>1, <3>1, <3>3
  <2>2. 0..x - 1 \subseteq equals
    BY <1>6
  <2> QED BY <2>1, <2>2
<1>8. Cardinality(blanks) = 2
  <2>1. Cardinality({x, y}) = 2
    BY <1>2, TwoBlanks
  <2> QED BY <1>5, <2>1, Zenon
<1>9. Cardinality(equals) = 62 - size
  <2>1. Cardinality((0..x - 1) \cup (y + 1..63)) = 63 - y + x
    BY <1>2, OutsideCounted
  <2>2. Cardinality(equals) = 63 - y + x
    BY <1>6, <2>1, Zenon
  <2> QED BY <1>2, <2>2
<1>10. 2 * Cardinality(before) \in (62 - size - 1)..(62 - size)
  <2>1. Cardinality(0..x - 1) = x
    BY <1>2, OutsideCounted
  <2>2. Cardinality(before) = x
    BY <1>7, <2>1, Zenon
  <2> QED BY <1>2, <2>2
<1>11. ASSUME NEW k \in 0..63
       PROVE  cols[k] = Letter <=> (\E b \in blanks : b < k) /\ (\E b \in blanks : b > k)
  <2>1. (\E b \in {x, y} : b < k) <=> x < k
    BY <1>2
  <2>2. (\E b \in {x, y} : b > k) <=> y > k
    BY <1>2
  <2>3. (\E b \in blanks : b < k) /\ (\E b \in blanks : b > k) <=> x < k /\ y > k
    BY <1>5, <2>1, <2>2
  <2> QED BY <1>3, <1>4, <2>3
<1> QED BY <1>8, <1>9, <1>10, <1>11 DEF Centred

(* Whatever the name and the text, a line that fits is printed, one that is*)
(* printed goes at most twelve bytes past out, and one that is refused has *)
(* by then been written further (log.c:98-121); a section's name is in the *)
(* middle of its line (log.c:58-96).                                       *)
THEOREM LinesPrinted == SpecText => []LinesFit
<1>1. InitText => LineInv
  BY InitLine
<1>2. LineInv /\ [NextText]_textVars => LineInv'
  BY NextLine
<1>3. LineInv => LinesFit
  <2>1. SUFFICES ASSUME LineInv PROVE LinesFit
    OBVIOUS
  <2>2. ASSUME columns # <<>> PROVE Centred(columns, section)
    <3>1. section \in 0..62 /\ columns = [k \in 0..63 |-> Column(section, k)]
      BY <2>1, <2>2 DEF LineInv
    <3> QED BY <3>1, SectionCentred
  <2>3. ASSUME asked # NoLine, line = NoLine
        PROVE  /\ printed \in {asked, LogTooBig} /\ reach = Written(asked[1], asked[2])
               /\ reach <= 256 => printed = asked
               /\ printed = asked => reach <= 256 + 12
               /\ printed # asked => reach > 256 + 12
    <3>1. PICK a \in Nat, b \in Nat : a = asked[1] /\ b = asked[2] /\ asked = <<a, b>>
      BY <2>1, <2>3 DEF LineInv
    <3>2. PICK e : e = Written(a, b)
      OBVIOUS
    <3>3. e \in Nat /\ (TooBig(a, b) <=> e > 256 + 12)
      BY <3>2, Measured
    <3>4. reach = e /\ printed = IF TooBig(a, b) THEN LogTooBig ELSE asked
      BY <2>1, <2>3, <3>1, <3>2 DEF LineInv
    <3>5. LogTooBig = asked => ~TooBig(a, b)
      BY <3>1 DEF LogTooBig, TooBig
    <3>6. CASE TooBig(a, b)
      BY <3>1, <3>2, <3>3, <3>4, <3>5, <3>6
    <3>7. CASE ~TooBig(a, b)
      BY <3>1, <3>2, <3>3, <3>4, <3>7
    <3> QED BY <3>6, <3>7
  <2> QED BY <2>1, <2>2, <2>3 DEF LinesFit, Centred
<1> QED BY <1>1, <1>2, <1>3, PTL DEF SpecText

-----------------------------------------------------------------------------
(* What stands in the buffer once l is laid out behind what was there: the *)
(* text itself, or the former first character f before it, or before all   *)
(* of it but its character k.                                              *)
Chars == (Letters \cup STRING \cup {"1", "2", Stale}) \ {NUL}

Buffer(s) == s \in [0..OutMax -> Chars \cup {NUL}]

Whole(s, l) == s[Len(l)] = NUL /\ \A b \in 0..Len(l) - 1 : s[b] = l[b + 1]

Trails(s, l, f) ==
  /\ f # NUL /\ s[0] = f /\ s[Len(l) + 1] = NUL
  /\ \A b \in 1..Len(l) : s[b] = l[b]

Loses(s, l, f, k) ==
  /\ f # NUL /\ s[0] = f /\ s[Len(l)] = NUL
  /\ \A b \in 1..Len(l) - 1 : s[b] = l[IF b < k THEN b ELSE b + 1]

Shape(s, l, f) ==
  Whole(s, l) \/ Trails(s, l, f) \/ \E k \in 1..Len(l) : Loses(s, l, f, k)

(* With a format that begins with a letter, it is the text itself from the *)
(* first letter on.                                                        *)
Leads == \E k \in 1..Len(format) : format[k] \in Letters /\ \A b \in 1..k - 1 : format[b] = "%%"

CleanShape(s, l, n) ==
  \/ l = <<>> /\ Trails(s, l, former) /\ \A b \in 1..n - 1 : format[b] = "%%"
  \/ l # <<>> /\ Whole(s, l)

Placed ==
  /\ Buffer(out) /\ former \in Chars \cup {NUL}
  /\ format \in Seq(Letters \cup Signs) /\ Len(format) <= MaxTokens
  /\ i \in Nat \ {0} /\ laid \in Seq(Chars) /\ intact \in BOOLEAN
  /\ j \in Nat /\ j <= MaxText * (i - 1) /\ j <= OutMax

FormatInv ==
  /\ Placed
  /\ i = 1 => laid = <<>> /\ j = 0 /\ intact /\ (format # <<>> => former = out[0])
  /\ intact => j = Len(laid)
  /\ intact /\ i > 1 =>
       /\ Shape(out, laid, former)
       /\ former # NUL /\ Leads => CleanShape(out, laid, i)

(* The buffer has room for one more text in every round. *)
LEMMA Room ==
  ASSUME NEW r \in 1..MaxTokens, NEW m \in Nat, m <= MaxText * (r - 1)
  PROVE  m + MaxText <= MaxText * r /\ m + MaxText < OutMax
<1>1. MaxTokens \in Nat /\ MaxText \in Nat
  BY Bounds
<1>2. MaxText * (r - 1) = MaxText * r - MaxText
  BY <1>1
<1>3. MaxText * r <= MaxText * MaxTokens
  <2>1. PICK d \in Nat : MaxTokens = r + d
    <3>1. MaxTokens - r \in Nat /\ MaxTokens = r + (MaxTokens - r)
      BY <1>1
    <3> QED BY <3>1
  <2>2. MaxText * d \in Nat
    BY <1>1
  <2>3. MaxText * MaxTokens = MaxText * r + MaxText * d
    BY <1>1, <2>1
  <2>4. MaxText * r \in Nat
    BY <1>1
  <2> QED BY <2>2, <2>3, <2>4
<1>4. OutMax = MaxText * MaxTokens + MaxTokens
  BY <1>1 DEF OutMax
<1>5. MaxText * r \in Int /\ MaxText * MaxTokens \in Int
  BY <1>1
<1> QED BY <1>1, <1>2, <1>3, <1>4, <1>5

LEMMA NotNUL ==
  ASSUME NEW c \in Chars
  PROVE  c # NUL
  BY LoggerAssumption DEF Chars

LEMMA TextsAreChars ==
  ASSUME NEW text \in Strings \cup DeadTexts
  PROVE  text \in Seq(Chars) /\ Len(text) <= MaxText
<1>1. CASE text \in Strings
  <2>1. text \in Seq(STRING \ {NUL}) /\ Len(text) <= MaxText
    BY <1>1, LoggerAssumption
  <2> QED BY <2>1 DEF Chars
<1>2. CASE text \in DeadTexts
  <2>1. "1" \in Chars /\ "2" \in Chars /\ Stale \in Chars
    BY DEF Chars, NUL, Stale
  <2>2. PICK one \in Chars, two \in Chars, stale \in Chars : one = "1" /\ two = "2" /\ stale = Stale
    BY <2>1
  <2>3. OwnText = <<one, two>>
    BY <2>2, Zenon DEF OwnText
  <2>4. OwnText \in Seq(Chars) /\ Len(OwnText) = 2
    BY <2>3
  <2>5. Append(OwnText, stale) \in Seq(Chars) /\ Len(Append(OwnText, stale)) = 3
    <3>1. \A q \in Seq(Chars) : \A c \in Chars :
             Append(q, c) \in Seq(Chars) /\ Len(Append(q, c)) = Len(q) + 1
      OBVIOUS
    <3>2. stale \in Chars
      BY <2>2
    <3>3. Append(OwnText, stale) \in Seq(Chars) /\ Len(Append(OwnText, stale)) = Len(OwnText) + 1
      BY <2>4, <3>1, <3>2, Zenon
    <3>4. PICK more : more = Append(OwnText, stale)
      OBVIOUS
    <3> QED BY <2>4, <3>3, <3>4
  <2>6. <<>> \in Seq(Chars) /\ Len(<<>>) = 0
    OBVIOUS
  <2>7. text = OwnText \/ text = Append(OwnText, stale) \/ text = <<>>
    BY <1>2, <2>2, Zenon DEF DeadTexts
  <2>8. CASE text = OwnText
    BY <2>4, <2>8, Bounds
  <2>9. CASE text = Append(OwnText, stale)
    BY <2>5, <2>9, Bounds
  <2>10. CASE text = <<>>
    BY <2>6, <2>10, Bounds
  <2> QED BY <2>7, <2>8, <2>9, <2>10
<1> QED BY <1>1, <1>2

(* The text the buffer has in each case. *)
LEMMA WholeRead ==
  ASSUME NEW s, Buffer(s), NEW l \in Seq(Chars), Len(l) <= OutMax, Whole(s, l)
  PROVE  StrLen(s, 0) = Len(l) /\ TextAt(s, 0) = l
<1>1. PICK e \in Nat : e = Len(l)
  OBVIOUS
<1>2. s[0 + e] = NUL
  BY <1>1 DEF Whole
<1>3. ASSUME NEW b \in 0..e - 1 PROVE s[0 + b] # NUL
  <2>1. s[b] = l[b + 1] /\ l[b + 1] \in Chars
    BY <1>1 DEF Whole
  <2> QED BY <2>1, NotNUL
<1>4. e <= OutMax + 32
  BY <1>1, Bounds
<1>5. StrLen(s, 0) = e /\ TextAt(s, 0) = [n \in 1..e |-> s[0 + n - 1]]
  BY <1>2, <1>3, <1>4, TextFound
<1>6. [n \in 1..e |-> s[0 + n - 1]] = l
  <2>1. ASSUME NEW n \in 1..e PROVE s[0 + n - 1] = l[n]
    <3>1. PICK b \in 0..e - 1 : b = n - 1
      OBVIOUS
    <3>2. s[b] = l[b + 1]
      BY <1>1 DEF Whole
    <3> QED BY <3>1, <3>2
  <2>2. l = [n \in 1..e |-> l[n]]
    BY <1>1
  <2> QED BY <2>1, <2>2
<1> QED BY <1>1, <1>5, <1>6

LEMMA FrontRead ==
  ASSUME NEW s, NEW f \in Chars, NEW t \in Seq(Chars), Len(t) < OutMax + 32,
         s[0] = f, s[Len(t) + 1] = NUL, \A b \in 1..Len(t) : s[b] = t[b]
  PROVE  StrLen(s, 0) = Len(t) + 1 /\ TextAt(s, 0) = <<f>> \o t
<1>1. PICK e \in Nat : e = Len(t) + 1
  OBVIOUS
<1>2. s[0 + e] = NUL
  BY <1>1
<1>3. ASSUME NEW b \in 0..e - 1 PROVE s[0 + b] # NUL
  <2>1. CASE b = 0
    BY <2>1, NotNUL
  <2>2. CASE b # 0
    <3>1. b \in 1..Len(t) /\ s[b] = t[b] /\ t[b] \in Chars
      BY <1>1, <2>2
    <3> QED BY <3>1, NotNUL
  <2> QED BY <2>1, <2>2
<1>4. e <= OutMax + 32
  BY <1>1, Bounds
<1>5. StrLen(s, 0) = e /\ TextAt(s, 0) = [n \in 1..e |-> s[0 + n - 1]]
  BY <1>2, <1>3, <1>4, TextFound
<1>6. [n \in 1..e |-> s[0 + n - 1]] = <<f>> \o t
  <2>1. ASSUME NEW n \in 1..e PROVE s[0 + n - 1] = (<<f>> \o t)[n]
    <3>1. CASE n = 1
      BY <3>1
    <3>2. CASE n # 1
      <4>1. PICK b \in 1..Len(t) : b = n - 1
        BY <1>1, <3>2
      <4>2. (<<f>> \o t)[n] = t[b]
        BY <4>1
      <4> QED BY <4>1, <4>2
    <3> QED BY <3>1, <3>2
  <2>2. <<f>> \o t \in Seq(Chars) /\ Len(<<f>> \o t) = e
    BY <1>1
  <2>3. <<f>> \o t = [n \in 1..e |-> (<<f>> \o t)[n]]
    BY <2>2
  <2> QED BY <2>1, <2>3
<1> QED BY <1>1, <1>5, <1>6

LEMMA TrailsRead ==
  ASSUME NEW s, Buffer(s), NEW l \in Seq(Chars), Len(l) <= OutMax,
         NEW f \in Chars \cup {NUL}, Trails(s, l, f)
  PROVE  StrLen(s, 0) = Len(l) + 1 /\ TextAt(s, 0) = <<f>> \o l
<1>1. f \in Chars /\ s[0] = f /\ s[Len(l) + 1] = NUL /\ \A b \in 1..Len(l) : s[b] = l[b]
  BY DEF Trails
<1>2. Len(l) < OutMax + 32
  BY Bounds
<1> QED BY <1>1, <1>2, FrontRead

LEMMA RemovedAt ==
  ASSUME NEW S, NEW l \in Seq(S), NEW k \in 1..Len(l)
  PROVE  /\ RemoveAt(l, k) \in Seq(S) /\ Len(RemoveAt(l, k)) = Len(l) - 1
         /\ \A b \in 1..Len(l) - 1 : RemoveAt(l, k)[b] = l[IF b < k THEN b ELSE b + 1]
<1> DEFINE x == SubSeq(l, 1, k - 1)
           y == SubSeq(l, k + 1, Len(l))
<1>1. x \in Seq(S) /\ Len(x) = k - 1 /\ \A b \in 1..k - 1 : x[b] = l[b]
  OBVIOUS
<1>2. y \in Seq(S) /\ Len(y) = Len(l) - k /\ \A b \in 1..Len(l) - k : y[b] = l[b + k]
  <2>1. y \in Seq(S) /\ Len(y) = Len(l) - k
    OBVIOUS
  <2>2. ASSUME NEW b \in 1..Len(l) - k PROVE y[b] = l[b + k]
    OBVIOUS
  <2> QED BY <2>1, <2>2
<1>3. RemoveAt(l, k) = x \o y
  BY DEF RemoveAt
<1> HIDE DEF x, y
<1>4. x \o y \in Seq(S) /\ Len(x \o y) = Len(l) - 1
  BY <1>1, <1>2
<1>5. ASSUME NEW b \in 1..Len(l) - 1
      PROVE  (x \o y)[b] = l[IF b < k THEN b ELSE b + 1]
  <2>1. CASE b < k
    BY <1>1, <1>2, <2>1
  <2>2. CASE ~(b < k)
    <3>1. PICK c \in 1..Len(l) - k : c = b - (k - 1)
      BY <2>2
    <3>2. (x \o y)[b] = y[c]
      <4>1. b \in 1..Len(x) + Len(y) /\ b > Len(x) /\ b - Len(x) = c
        BY <1>1, <1>2, <2>2, <3>1
      <4>2. (x \o y)[b] = y[b - Len(x)]
        BY <1>1, <1>2, <4>1
      <4> QED BY <4>1, <4>2
    <3>3. y[c] = l[c + k] /\ c + k = b + 1
      BY <1>2, <3>1
    <3> QED BY <2>2, <3>2, <3>3
  <2> QED BY <2>1, <2>2
<1> QED BY <1>3, <1>4, <1>5

LEMMA LosesRead ==
  ASSUME NEW s, Buffer(s), NEW l \in Seq(Chars), Len(l) <= OutMax,
         NEW f \in Chars \cup {NUL}, NEW k \in 1..Len(l), Loses(s, l, f, k)
  PROVE  StrLen(s, 0) = Len(l) /\ TextAt(s, 0) = <<f>> \o RemoveAt(l, k)
<1>1. PICK t : t = RemoveAt(l, k)
  OBVIOUS
<1>2. t \in Seq(Chars) /\ Len(t) = Len(l) - 1
      /\ \A b \in 1..Len(l) - 1 : t[b] = l[IF b < k THEN b ELSE b + 1]
  BY <1>1, RemovedAt
<1>3. f \in Chars /\ s[0] = f /\ s[Len(l)] = NUL
  BY DEF Loses
<1>4. ASSUME NEW b \in 1..Len(t) PROVE s[b] = t[b]
  BY <1>2 DEF Loses
<1>5. Len(t) + 1 = Len(l) /\ Len(t) < OutMax + 32
  BY <1>2, Bounds
<1>6. StrLen(s, 0) = Len(t) + 1 /\ TextAt(s, 0) = <<f>> \o t
  BY <1>2, <1>3, <1>4, <1>5, FrontRead
<1> QED BY <1>1, <1>5, <1>6

(* What each round does to the shape of the buffer: its end is set first,  *)
(* then a letter is put by index, or a text behind the first NUL.          *)
LEMMA EndSet ==
  ASSUME NEW s, Buffer(s), NEW n \in Nat, n < OutMax
  PROVE  /\ Buffer(Ended(s, n)) /\ Ended(s, n)[n + 1] = NUL
         /\ \A b \in 0..OutMax : b # n + 1 => Ended(s, n)[b] = s[b]
<1>1. n + 1 \in 0..OutMax
  BY Bounds
<1>2. Buffer(Ended(s, n))
  BY <1>1 DEF Ended, Buffer
<1>3. Ended(s, n)[n + 1] = NUL
  BY <1>1 DEF Ended, Buffer
<1>4. ASSUME NEW b \in 0..OutMax, b # n + 1 PROVE Ended(s, n)[b] = s[b]
  BY <1>1, <1>4 DEF Ended, Buffer
<1> QED BY <1>2, <1>3, <1>4

LEMMA EndKeeps ==
  ASSUME NEW s, Buffer(s), NEW l \in Seq(Chars), Len(l) < OutMax, NEW f
  PROVE  /\ Whole(s, l) => Whole(Ended(s, Len(l)), l)
         /\ Trails(s, l, f) => Trails(Ended(s, Len(l)), l, f)
         /\ \A k \in 1..Len(l) : Loses(s, l, f, k) => Loses(Ended(s, Len(l)), l, f, k)
<1>1. PICK n \in Nat : n = Len(l)
  OBVIOUS
<1>2. PICK e : e = Ended(s, n)
  OBVIOUS
<1>3. e[n + 1] = NUL /\ \A b \in 0..OutMax : b # n + 1 => e[b] = s[b]
  BY <1>1, <1>2, EndSet
<1>4. \A b \in 0..n : e[b] = s[b]
  BY <1>1, <1>3, Bounds
<1>5. Whole(s, l) => Whole(e, l)
  BY <1>1, <1>4 DEF Whole
<1>6. Trails(s, l, f) => Trails(e, l, f)
  BY <1>1, <1>3, <1>4 DEF Trails
<1>7. ASSUME NEW k \in 1..Len(l), Loses(s, l, f, k)
      PROVE  Loses(e, l, f, k)
  BY <1>1, <1>4, <1>7 DEF Loses
<1> QED BY <1>1, <1>2, <1>5, <1>6, <1>7

(* A buffer about to be filled holds its former first character. *)
LEMMA StartShape ==
  ASSUME NEW s, Buffer(s), 0 < OutMax
  PROVE  IF s[0] = NUL THEN Whole(Ended(s, 0), <<>>) ELSE Trails(Ended(s, 0), <<>>, s[0])
<1>1. Ended(s, 0)[0 + 1] = NUL /\ \A b \in 0..OutMax : b # 0 + 1 => Ended(s, 0)[b] = s[b]
  BY EndSet
<1>2. Ended(s, 0)[1] = NUL /\ Ended(s, 0)[0] = s[0]
  BY <1>1, Bounds
<1>3. Len(<<>>) = 0
  OBVIOUS
<1>4. CASE s[0] = NUL
  BY <1>2, <1>3, <1>4 DEF Whole
<1>5. CASE s[0] # NUL
  BY <1>2, <1>3, <1>5 DEF Trails
<1> QED BY <1>4, <1>5

LEMMA PutShape ==
  ASSUME NEW s, Buffer(s), NEW l \in Seq(Chars), Len(l) < OutMax,
         s[Len(l) + 1] = NUL, NEW f, NEW c \in Chars,
         NEW t, t = [s EXCEPT ![Len(l)] = c]
  PROVE  /\ Buffer(t)
         /\ Whole(s, l) => Whole(t, Append(l, c))
         /\ Trails(s, l, f) => IF l = <<>> THEN Whole(t, Append(l, c))
                                          ELSE Loses(t, Append(l, c), f, Len(l))
         /\ \A k \in 1..Len(l) : Loses(s, l, f, k) => Loses(t, Append(l, c), f, k)
<1>1. PICK n \in Nat : n = Len(l)
  OBVIOUS
<1>2. PICK m : m = Append(l, c)
  OBVIOUS
<1>3. Len(m) = n + 1 /\ m[n + 1] = c /\ \A b \in 1..n : m[b] = l[b]
  BY <1>1, <1>2
<1>4. n \in 0..OutMax /\ n + 1 \in 0..OutMax
  BY <1>1, Bounds
<1>5. Buffer(t)
  BY <1>1, <1>4 DEF Buffer
<1>6. t[n] = c /\ t[n + 1] = NUL
  BY <1>1, <1>4 DEF Buffer
<1>7. \A b \in 0..n - 1 : t[b] = s[b]
  BY <1>1, <1>4 DEF Buffer
<1>8. ASSUME Whole(s, l) PROVE Whole(t, m)
  <2>1. ASSUME NEW b \in 0..Len(m) - 1 PROVE t[b] = m[b + 1]
    <3>1. CASE b = n
      BY <1>3, <1>6, <3>1
    <3>2. CASE b # n
      <4>1. b \in 0..n - 1
        BY <1>3, <3>2
      <4>2. PICK a \in 1..n : a = b + 1
        BY <4>1
      <4>3. s[b] = l[a] /\ m[a] = l[a]
        BY <1>1, <1>3, <1>8, <4>1, <4>2 DEF Whole
      <4> QED BY <1>7, <4>1, <4>2, <4>3
    <3> QED BY <3>1, <3>2
  <2> QED BY <1>3, <1>6, <2>1 DEF Whole
<1>9. ASSUME Trails(s, l, f), l = <<>> PROVE Whole(t, m)
  <2>1. n = 0
    BY <1>1, <1>9
  <2> QED BY <1>3, <1>6, <2>1 DEF Whole
<1>10. ASSUME Trails(s, l, f), l # <<>> PROVE Loses(t, m, f, Len(l))
  <2>1. n > 0
    BY <1>1, <1>10
  <2>2. f # NUL /\ t[0] = f
    BY <1>7, <1>10, <2>1 DEF Trails
  <2>3. t[Len(m)] = NUL
    BY <1>3, <1>6
  <2>4. ASSUME NEW b \in 1..Len(m) - 1 PROVE t[b] = m[IF b < n THEN b ELSE b + 1]
    <3>1. CASE b = n
      BY <1>3, <1>6, <3>1
    <3>2. CASE b # n
      <4>1. b \in 1..n - 1 /\ b < n
        BY <1>3, <3>2
      <4> QED BY <1>1, <1>3, <1>7, <1>10, <4>1 DEF Trails
    <3> QED BY <3>1, <3>2
  <2> QED BY <1>1, <2>2, <2>3, <2>4 DEF Loses
<1>11. ASSUME NEW k \in 1..Len(l), Loses(s, l, f, k) PROVE Loses(t, m, f, k)
  <2>1. n > 0 /\ k <= n
    BY <1>1
  <2>2. f # NUL /\ t[0] = f
    BY <1>7, <1>11, <2>1 DEF Loses
  <2>3. t[Len(m)] = NUL
    BY <1>3, <1>6
  <2>4. ASSUME NEW b \in 1..Len(m) - 1 PROVE t[b] = m[IF b < k THEN b ELSE b + 1]
    <3>1. CASE b = n
      BY <1>3, <1>6, <2>1, <3>1
    <3>2. CASE b # n
      <4>1. b \in 1..n - 1
        BY <1>3, <3>2
      <4>2. PICK a \in 1..n : a = IF b < k THEN b ELSE b + 1
        BY <4>1
      <4>3. s[b] = l[a] /\ m[a] = l[a]
        BY <1>1, <1>3, <1>11, <4>1, <4>2 DEF Loses
      <4> QED BY <1>7, <4>1, <4>2, <4>3
    <3> QED BY <3>1, <3>2
  <2> QED BY <2>2, <2>3, <2>4 DEF Loses
<1> QED BY <1>2, <1>5, <1>8, <1>9, <1>10, <1>11

(* t is s with the w characters of text from byte e on. *)
Appended(t, s, text, e, w) ==
  /\ Buffer(t) /\ t[e + w] = NUL
  /\ \A b \in 0..e - 1 : t[b] = s[b]
  /\ \A a \in 1..w : t[e + a - 1] = text[a]

LEMMA CatLaid ==
  ASSUME NEW s, Buffer(s), NEW text \in Seq(Chars), NEW e \in Nat,
         StrLen(s, 0) = e, NEW w \in Nat, w = Len(text), e + w <= OutMax, NEW t, t = Cat(s, text)
  PROVE  Appended(t, s, text, e, w)
<1>1. t = [b \in 0..OutMax |-> IF b \in e..e + Len(text) - 1 THEN text[b - e + 1]
                              ELSE IF b = e + Len(text) THEN NUL ELSE s[b]]
  BY DEF Cat, Buffer
<1>2. OutMax \in Nat /\ Len(text) \in Nat
  BY Bounds
<1>3. t[e + Len(text)] = NUL
  <2>1. PICK b \in 0..OutMax : b = e + Len(text)
    BY <1>2
  <2> QED BY <1>1, <1>2, <2>1
<1>4. ASSUME NEW b \in 0..e - 1 PROVE t[b] = s[b]
  BY <1>1, <1>2
<1>5. ASSUME NEW a \in 1..Len(text) PROVE t[e + a - 1] = text[a]
  <2>1. PICK b \in 0..OutMax : b = e + a - 1
    BY <1>2
  <2>2. b \in e..e + Len(text) - 1 /\ b - e + 1 = a
    BY <1>2, <2>1
  <2> QED BY <1>1, <2>1, <2>2
<1>6. Buffer(t)
  <2>1. ASSUME NEW b \in 0..OutMax
        PROVE  (IF b \in e..e + Len(text) - 1 THEN text[b - e + 1]
                ELSE IF b = e + Len(text) THEN NUL ELSE s[b]) \in Chars \cup {NUL}
    <3>1. CASE b \in e..e + Len(text) - 1
      <4>1. PICK a \in 1..Len(text) : a = b - e + 1
        BY <1>2, <3>1
      <4> QED BY <3>1, <4>1
    <3>2. CASE b \notin e..e + Len(text) - 1
      BY <3>2 DEF Buffer
    <3> QED BY <3>1, <3>2
  <2> QED BY <1>1, <2>1 DEF Buffer
<1> QED BY <1>2, <1>3, <1>4, <1>5, <1>6 DEF Appended

LEMMA Joined ==
  ASSUME NEW l \in Seq(Chars), NEW text \in Seq(Chars)
  PROVE  /\ l \o text \in Seq(Chars) /\ Len(l \o text) = Len(l) + Len(text)
         /\ \A b \in 1..Len(l) : (l \o text)[b] = l[b]
         /\ \A a \in 1..Len(text) : (l \o text)[Len(l) + a] = text[a]
<1>1. l \o text \in Seq(Chars) /\ Len(l \o text) = Len(l) + Len(text)
  OBVIOUS
<1>2. ASSUME NEW b \in 1..Len(l) PROVE (l \o text)[b] = l[b]
  OBVIOUS
<1>3. ASSUME NEW a \in 1..Len(text) PROVE (l \o text)[Len(l) + a] = text[a]
  OBVIOUS
<1> QED BY <1>1, <1>2, <1>3

LEMMA CatShape ==
  ASSUME NEW s, Buffer(s), NEW l \in Seq(Chars), NEW text \in Seq(Chars),
         Len(l) + Len(text) < OutMax, NEW f \in Chars \cup {NUL},
         NEW t, t = Cat(s, text)
  PROVE  /\ Shape(s, l, f) => Buffer(t)
         /\ Whole(s, l) => Whole(t, l \o text)
         /\ Trails(s, l, f) => Trails(t, l \o text, f)
         /\ \A k \in 1..Len(l) : Loses(s, l, f, k) => Loses(t, l \o text, f, k)
<1>1. PICK n \in Nat, w \in Nat : n = Len(l) /\ w = Len(text)
  OBVIOUS
<1>2. PICK m : m = l \o text
  OBVIOUS
<1>3. Len(m) = n + w /\ (\A b \in 1..n : m[b] = l[b]) /\ (\A a \in 1..w : m[n + a] = text[a])
  BY <1>1, <1>2, Joined
<1>4. n + w < OutMax /\ Len(l) <= OutMax
  BY <1>1, Bounds
<1>5. ASSUME Whole(s, l) PROVE Buffer(t) /\ Whole(t, m)
  <2>1. StrLen(s, 0) = n
    BY <1>1, <1>4, <1>5, WholeRead
  <2>2. /\ Buffer(t) /\ t[n + w] = NUL
        /\ \A b \in 0..n - 1 : t[b] = s[b]
        /\ \A a \in 1..w : t[n + a - 1] = text[a]
    <3>1. n + w <= OutMax /\ n \in Nat
      BY <1>4, Bounds
    <3>2. Appended(t, s, text, n, w)
      BY <1>1, <2>1, <3>1, CatLaid
    <3> QED BY <3>2 DEF Appended
  <2>3. ASSUME NEW b \in 0..Len(m) - 1 PROVE t[b] = m[b + 1]
    <3>1. CASE b < n
      <4>1. b \in 0..n - 1
        BY <3>1
      <4>2. PICK a \in 1..n : a = b + 1
        BY <4>1
      <4>3. s[b] = l[a] /\ m[a] = l[a]
        BY <1>1, <1>3, <1>5, <4>1, <4>2 DEF Whole
      <4> QED BY <2>2, <4>1, <4>2, <4>3
    <3>2. CASE ~(b < n)
      <4>1. PICK a \in 1..w : a = b - n + 1
        BY <1>3, <3>2
      <4>2. n + a - 1 = b /\ n + a = b + 1
        BY <4>1
      <4> QED BY <1>3, <2>2, <4>1, <4>2
    <3> QED BY <3>1, <3>2
  <2> QED BY <1>3, <2>2, <2>3 DEF Whole
<1>6. ASSUME Trails(s, l, f) PROVE Buffer(t) /\ Trails(t, m, f)
  <2>1. StrLen(s, 0) = n + 1
    BY <1>1, <1>4, <1>6, TrailsRead
  <2>2. /\ Buffer(t) /\ t[n + 1 + w] = NUL
        /\ \A b \in 0..n + 1 - 1 : t[b] = s[b]
        /\ \A a \in 1..w : t[n + 1 + a - 1] = text[a]
    <3>1. n + 1 + w <= OutMax /\ n + 1 \in Nat
      BY <1>4, Bounds
    <3>2. Appended(t, s, text, n + 1, w)
      BY <1>1, <2>1, <3>1, CatLaid
    <3> QED BY <3>2 DEF Appended
  <2>3. ASSUME NEW b \in 1..Len(m) PROVE t[b] = m[b]
    <3>1. CASE b <= n
      <4>1. b \in 0..n + 1 - 1 /\ b \in 1..n
        BY <3>1
      <4> QED BY <1>1, <1>3, <1>6, <2>2, <4>1 DEF Trails
    <3>2. CASE ~(b <= n)
      <4>1. PICK a \in 1..w : a = b - n
        BY <1>3, <3>2
      <4>2. n + 1 + a - 1 = b /\ n + a = b
        BY <4>1
      <4> QED BY <1>3, <2>2, <4>1, <4>2
    <3> QED BY <3>1, <3>2
  <2>4. f # NUL /\ t[0] = f
    BY <1>6, <2>2 DEF Trails
  <2>5. t[Len(m) + 1] = NUL
    BY <1>3, <2>2
  <2> QED BY <2>2, <2>3, <2>4, <2>5 DEF Trails
<1>7. ASSUME NEW k \in 1..Len(l), Loses(s, l, f, k) PROVE Buffer(t) /\ Loses(t, m, f, k)
  <2>1. StrLen(s, 0) = n
    BY <1>1, <1>4, <1>7, LosesRead
  <2>2. /\ Buffer(t) /\ t[n + w] = NUL
        /\ \A b \in 0..n - 1 : t[b] = s[b]
        /\ \A a \in 1..w : t[n + a - 1] = text[a]
    <3>1. n + w <= OutMax /\ n \in Nat
      BY <1>4, Bounds
    <3>2. Appended(t, s, text, n, w)
      BY <1>1, <2>1, <3>1, CatLaid
    <3> QED BY <3>2 DEF Appended
  <2>3. ASSUME NEW b \in 1..Len(m) - 1 PROVE t[b] = m[IF b < k THEN b ELSE b + 1]
    <3>1. CASE b < n
      <4>1. b \in 1..n - 1 /\ b \in 0..n - 1
        BY <3>1
      <4>2. PICK a \in 1..n : a = IF b < k THEN b ELSE b + 1
        BY <4>1
      <4>3. s[b] = l[a] /\ m[a] = l[a]
        BY <1>1, <1>3, <1>7, <4>1, <4>2 DEF Loses
      <4> QED BY <2>2, <4>1, <4>2, <4>3
    <3>2. CASE ~(b < n)
      <4>1. PICK a \in 1..w : a = b - n + 1
        BY <1>3, <3>2
      <4>2. n + a - 1 = b /\ n + a = b + 1 /\ ~(b < k)
        BY <1>1, <3>2, <4>1
      <4> QED BY <1>3, <2>2, <4>1, <4>2
    <3> QED BY <3>1, <3>2
  <2>4. f # NUL /\ t[0] = f
    BY <1>1, <1>7, <2>2 DEF Loses
  <2> QED BY <1>3, <2>2, <2>3, <2>4 DEF Loses
<1> QED BY <1>2, <1>5, <1>6, <1>7 DEF Shape

LEMMA InitFormat ==
  ASSUME InitText
  PROVE  FormatInv
<1>1. PICK n : out = [b \in 0..OutMax |-> IF b < n THEN Stale ELSE NUL]
  BY Zenon DEF InitText
<1>2. Stale \in Chars \cup {NUL}
  BY DEF Chars
<1>3. Buffer(out)
  BY <1>1, <1>2 DEF Buffer
<1>4. former = NUL /\ format = <<>> /\ i = 1 /\ laid = <<>> /\ j = 0 /\ intact = TRUE
  BY DEF InitText
<1>5. <<>> \in Seq(Letters \cup Signs) /\ <<>> \in Seq(Chars) /\ Len(<<>>) = 0
  OBVIOUS
<1>6. Placed
  BY <1>3, <1>4, <1>5, Bounds DEF Placed
<1> QED BY <1>4, <1>5, <1>6 DEF FormatInv

(* What a round finds once it has set the end. *)
LEMMA RoundPlaced ==
  ASSUME FormatInv, i <= Len(format)
  PROVE  /\ j \in Nat /\ j + MaxText < OutMax /\ j + MaxText <= MaxText * i
         /\ Buffer(Ended(out, j)) /\ Ended(out, j)[j + 1] = NUL
<1>1. /\ Buffer(out) /\ i \in Nat \ {0} /\ j \in Nat
      /\ j <= MaxText * (i - 1) /\ format \in Seq(Letters \cup Signs) /\ Len(format) <= MaxTokens
  BY DEF FormatInv, Placed
<1>2. j \in Nat /\ j + MaxText < OutMax /\ j + MaxText <= MaxText * i
  <2>1. j \in Nat /\ i \in 1..MaxTokens
    BY <1>1, Bounds
  <2> QED BY <1>1, <2>1, Room
<1>3. j < OutMax
  BY <1>2, Bounds
<1>4. Buffer(Ended(out, j)) /\ Ended(out, j)[j + 1] = NUL
  BY <1>1, <1>2, <1>3, EndSet
<1> QED BY <1>2, <1>4

LEMMA RoundBegins ==
  ASSUME FormatInv, i <= Len(format), intact
  PROVE  /\ j \in Nat /\ j + MaxText < OutMax /\ j + MaxText <= MaxText * i
         /\ Buffer(Ended(out, j)) /\ Ended(out, j)[j + 1] = NUL
         /\ Shape(Ended(out, j), laid, former)
         /\ former # NUL /\ Leads => CleanShape(Ended(out, j), laid, i)
<1>1. /\ Buffer(out) /\ laid \in Seq(Chars) /\ j = Len(laid) /\ i \in Nat \ {0}
      /\ format \in Seq(Letters \cup Signs)
  BY DEF FormatInv, Placed
<1>2. j \in Nat /\ j + MaxText < OutMax /\ j + MaxText <= MaxText * i
  BY RoundPlaced
<1>3. Buffer(Ended(out, j)) /\ Ended(out, j)[j + 1] = NUL
  BY RoundPlaced
<1>4. CASE i = 1
  <2>1. laid = <<>> /\ format # <<>> /\ former = out[0] /\ j = 0
    BY <1>1, <1>4 DEF FormatInv
  <2>2. 0 < OutMax
    BY <1>2, Bounds
  <2>3. IF out[0] = NUL THEN Whole(Ended(out, 0), <<>>) ELSE Trails(Ended(out, 0), <<>>, out[0])
    BY <1>1, <2>2, StartShape
  <2>4. \A b \in 1..i - 1 : format[b] = "%%"
    BY <1>4
  <2> QED BY <1>2, <1>3, <2>1, <2>3, <2>4 DEF Shape, CleanShape
<1>5. CASE i # 1
  <2>1. Shape(out, laid, former) /\ (former # NUL /\ Leads => CleanShape(out, laid, i))
    BY <1>1, <1>5 DEF FormatInv
  <2>2. Len(laid) < OutMax
    BY <1>1, <1>2, Bounds
  <2>3. /\ Whole(out, laid) => Whole(Ended(out, j), laid)
        /\ Trails(out, laid, former) => Trails(Ended(out, j), laid, former)
        /\ \A k \in 1..Len(laid) : Loses(out, laid, former, k) =>
                Loses(Ended(out, j), laid, former, k)
    BY <1>1, <2>2, EndKeeps
  <2>4. Shape(Ended(out, j), laid, former)
    BY <2>1, <2>3 DEF Shape
  <2>5. former # NUL /\ Leads => CleanShape(Ended(out, j), laid, i)
    BY <2>1, <2>3 DEF CleanShape
  <2> QED BY <1>2, <1>3, <2>4, <2>5
<1> QED BY <1>4, <1>5

(* A token that is no "%%" is not one of the signs before the first letter.*)
LEMMA LetterCame ==
  ASSUME FormatInv, i <= Len(format), Leads, format[i] \in Signs, format[i] # "%%",
         NEW s, CleanShape(s, laid, i)
  PROVE  laid # <<>> /\ Whole(s, laid)
<1>1. PICK k \in 1..Len(format) : format[k] \in Letters /\ \A b \in 1..k - 1 : format[b] = "%%"
  BY DEF Leads
<1>2. i \in Nat \ {0} /\ Len(format) \in Nat
  BY DEF FormatInv, Placed
<1>3. format[k] \notin Signs
  BY <1>1, LoggerAssumption
<1>4. ASSUME \A b \in 1..i - 1 : format[b] = "%%" PROVE FALSE
  <2>1. CASE k < i
    <3>1. format[k] = "%%"
      BY <1>2, <1>4, <2>1
    <3> QED BY <1>3, <3>1 DEF Signs
  <2>2. CASE k = i
    BY <1>3, <2>2
  <2>3. CASE k > i
    <3>1. format[i] = "%%"
      BY <1>1, <1>2, <2>3
    <3> QED BY <3>1
  <2> QED BY <1>2, <2>1, <2>2, <2>3
<1> QED BY <1>4 DEF CleanShape

LEMMA StepPut ==
  ASSUME FormatInv, i <= Len(format), intact, Put(format[i]), UNCHANGED <<format, former>>
  PROVE  FormatInv'
<1>1. PICK s, c : s = Ended(out, j) /\ c = format[i]
  OBVIOUS
<1>2. /\ j \in Nat /\ j + MaxText < OutMax /\ j + MaxText <= MaxText * i
      /\ Buffer(s) /\ s[j + 1] = NUL /\ Shape(s, laid, former)
      /\ former # NUL /\ Leads => CleanShape(s, laid, i)
  BY <1>1, RoundBegins
<1>3. laid \in Seq(Chars) /\ j = Len(laid) /\ i \in Nat \ {0}
  BY DEF FormatInv, Placed
<1>4. c \in Chars /\ out' = [s EXCEPT ![Len(laid)] = c] /\ j' = j + 1 /\ i' = i + 1
      /\ laid' = Append(laid, c) /\ intact' = intact
  BY <1>1, <1>3, LoggerAssumption DEF Put, Chars
<1>5. Len(laid) < OutMax /\ s[Len(laid) + 1] = NUL
  BY <1>2, <1>3, Bounds
<1>6. /\ Buffer(out')
      /\ Whole(s, laid) => Whole(out', laid')
      /\ Trails(s, laid, former) =>
           IF laid = <<>> THEN Whole(out', laid') ELSE Loses(out', laid', former, Len(laid))
      /\ \A k \in 1..Len(laid) : Loses(s, laid, former, k) => Loses(out', laid', former, k)
  BY <1>2, <1>3, <1>4, <1>5, PutShape
<1>7. laid' \in Seq(Chars) /\ Len(laid') = j + 1 /\ laid' # <<>>
  BY <1>3, <1>4
<1>8. Shape(out', laid', former)
  <2>1. CASE Whole(s, laid)
    BY <1>6, <2>1 DEF Shape
  <2>2. CASE Trails(s, laid, former) /\ laid = <<>>
    BY <1>6, <2>2 DEF Shape
  <2>3. CASE Trails(s, laid, former) /\ laid # <<>>
    <3>1. Loses(out', laid', former, Len(laid)) /\ Len(laid) \in 1..Len(laid')
      BY <1>3, <1>6, <1>7, <2>3
    <3> QED BY <3>1 DEF Shape
  <2>4. ASSUME NEW k \in 1..Len(laid), Loses(s, laid, former, k) PROVE Shape(out', laid', former)
    <3>1. Loses(out', laid', former, k) /\ k \in 1..Len(laid')
      BY <1>3, <1>6, <1>7, <2>4
    <3> QED BY <3>1 DEF Shape
  <2> QED BY <1>2, <2>1, <2>2, <2>3, <2>4 DEF Shape
<1>9. former # NUL /\ Leads => Whole(out', laid')
  BY <1>2, <1>6 DEF CleanShape
<1>10. i' > 1 /\ i' \in Nat \ {0} /\ j' = Len(laid') /\ j' <= MaxText * (i' - 1) /\ j' <= OutMax
  <2>1. i' - 1 = i /\ i' > 1 /\ i' \in Nat \ {0} /\ j' = Len(laid') /\ j' <= j + MaxText
    BY <1>2, <1>3, <1>4, <1>7, Bounds
  <2>2. MaxText * (i' - 1) = MaxText * i
    BY <2>1, Zenon
  <2>3. MaxText * i \in Int /\ j' \in Nat
    BY <1>2, <1>3, <1>4, Bounds
  <2> QED BY <1>2, <2>1, <2>2, <2>3, Bounds
<1>11. /\ format' = format /\ former' = former /\ former \in Chars \cup {NUL}
       /\ format \in Seq(Letters \cup Signs) /\ Len(format) <= MaxTokens
  BY DEF FormatInv, Placed
<1>12. (former # NUL /\ Leads => CleanShape(out, laid, i))'
  <2>1. Leads' <=> Leads
    BY <1>11 DEF Leads
  <2> QED BY <1>7, <1>9, <1>11, <2>1 DEF CleanShape
<1>13. Placed'
  BY <1>3, <1>4, <1>6, <1>7, <1>10, <1>11 DEF Placed
<1> QED BY <1>8, <1>10, <1>11, <1>12, <1>13 DEF FormatInv

LEMMA StepText ==
  ASSUME FormatInv, i <= Len(format), intact, format[i] \in {"%s", "%u", "%x"},
         NEW text \in Strings \cup DeadTexts, PutText(text), UNCHANGED <<format, former>>
  PROVE  FormatInv'
<1>1. PICK s : s = Ended(out, j)
  OBVIOUS
<1>2. /\ j \in Nat /\ j + MaxText < OutMax /\ j + MaxText <= MaxText * i
      /\ Buffer(s) /\ Shape(s, laid, former)
      /\ former # NUL /\ Leads => CleanShape(s, laid, i)
  BY <1>1, RoundBegins
<1>3. laid \in Seq(Chars) /\ j = Len(laid) /\ i \in Nat \ {0} /\ former \in Chars \cup {NUL}
  BY DEF FormatInv, Placed
<1>4. text \in Seq(Chars) /\ Len(text) <= MaxText
  BY TextsAreChars
<1>5. out' = Cat(s, text) /\ j' = j + Len(text) /\ i' = i + 1 /\ laid' = laid \o text
      /\ intact' = intact
  BY <1>1 DEF PutText, Advance
<1>6. Len(laid) + Len(text) < OutMax
  BY <1>2, <1>3, <1>4, Bounds
<1>7. /\ Shape(s, laid, former) => Buffer(out')
      /\ Whole(s, laid) => Whole(out', laid')
      /\ Trails(s, laid, former) => Trails(out', laid', former)
      /\ \A k \in 1..Len(laid) : Loses(s, laid, former, k) => Loses(out', laid', former, k)
  BY <1>2, <1>3, <1>4, <1>5, <1>6, CatShape
<1>8. laid' \in Seq(Chars) /\ Len(laid') = j + Len(text)
  BY <1>3, <1>4, <1>5
<1>9. Shape(out', laid', former)
  <2>1. ASSUME NEW k \in 1..Len(laid), Loses(s, laid, former, k) PROVE Shape(out', laid', former)
    <3>1. Loses(out', laid', former, k) /\ k \in 1..Len(laid')
      BY <1>3, <1>4, <1>7, <1>8, <2>1
    <3> QED BY <3>1 DEF Shape
  <2> QED BY <1>2, <1>7, <2>1 DEF Shape
<1>10. former # NUL /\ Leads => laid' # <<>> /\ Whole(out', laid')
  <2>1. SUFFICES ASSUME former # NUL, Leads PROVE laid' # <<>> /\ Whole(out', laid')
    OBVIOUS
  <2>2. format[i] \in Signs /\ format[i] # "%%"
    BY DEF Signs
  <2>3. laid # <<>> /\ Whole(s, laid)
    BY <1>2, <2>1, <2>2, LetterCame
  <2>4. Len(laid') > 0
    BY <1>3, <1>4, <1>8, <2>3
  <2> QED BY <1>7, <2>3, <2>4
<1>11. i' > 1 /\ i' \in Nat \ {0} /\ j' = Len(laid') /\ j' <= MaxText * (i' - 1) /\ j' <= OutMax
  <2>1. i' - 1 = i /\ i' > 1 /\ i' \in Nat \ {0} /\ j' = Len(laid') /\ j' <= j + MaxText
    BY <1>2, <1>3, <1>4, <1>5, <1>8, Bounds
  <2>2. MaxText * (i' - 1) = MaxText * i
    BY <2>1, Zenon
  <2>3. MaxText * i \in Int /\ j' \in Nat
    BY <1>2, <1>3, <1>4, <1>5, Bounds
  <2> QED BY <1>2, <2>1, <2>2, <2>3, Bounds
<1>12. /\ format' = format /\ former' = former /\ former \in Chars \cup {NUL}
       /\ format \in Seq(Letters \cup Signs) /\ Len(format) <= MaxTokens
  BY DEF FormatInv, Placed
<1>13. (former # NUL /\ Leads => CleanShape(out, laid, i))'
  <2>1. Leads' <=> Leads
    BY <1>12 DEF Leads
  <2> QED BY <1>10, <1>12, <2>1 DEF CleanShape
<1>14. Placed'
  BY <1>2, <1>5, <1>7, <1>8, <1>11, <1>12 DEF Placed
<1> QED BY <1>9, <1>11, <1>12, <1>13, <1>14 DEF FormatInv

LEMMA StepNothing ==
  ASSUME FormatInv, i <= Len(format), intact, PutNothing(format[i]),
         UNCHANGED <<format, former>>
  PROVE  FormatInv'
<1>1. PICK s : s = Ended(out, j)
  OBVIOUS
<1>2. /\ j \in Nat /\ j + MaxText < OutMax /\ j + MaxText <= MaxText * i
      /\ Buffer(s) /\ Shape(s, laid, former)
      /\ former # NUL /\ Leads => CleanShape(s, laid, i)
  BY <1>1, RoundBegins
<1>3. laid \in Seq(Chars) /\ j = Len(laid) /\ i \in Nat \ {0} /\ Len(format) \in Nat
  BY DEF FormatInv, Placed
<1>4. format[i] \in {"%%", "%"} /\ out' = s /\ j' = j /\ laid' = laid
      /\ intact' = intact /\ i' = i + (IF format[i] = "%" THEN 2 ELSE 1)
  BY <1>1 DEF PutNothing
<1>5. i' > 1 /\ i' \in Nat \ {0} /\ j' <= MaxText * (i' - 1) /\ j' <= OutMax
  <2>1. i' > 1 /\ i' \in Nat \ {0} /\ j' = j /\ (i' - 1 = i \/ i' - 1 = i + 1)
    BY <1>3, <1>4
  <2>2. MaxText * (i' - 1) = MaxText * i \/ MaxText * (i' - 1) = MaxText * (i + 1)
    BY <2>1, Zenon
  <2>3. MaxText * (i + 1) = MaxText * i + MaxText /\ MaxText * i \in Int
    BY <1>3, Bounds
  <2>4. j <= MaxText * i /\ j <= MaxText * (i + 1) /\ j <= OutMax
    BY <1>2, <2>3, Bounds
  <2>5. j <= MaxText * (i' - 1)
    BY <2>2, <2>4, Zenon
  <2> QED BY <2>1, <2>4, <2>5
<1>6. former # NUL /\ Leads => CleanShape(out', laid', i')
  <2>1. SUFFICES ASSUME former # NUL, Leads PROVE CleanShape(s, laid, i')
    BY <1>4
  <2>2. CleanShape(s, laid, i)
    BY <1>2, <2>1
  <2>3. CASE format[i] = "%"
    <3>1. format[i] \in Signs /\ format[i] # "%%"
      BY <2>3 DEF Signs
    <3>2. laid # <<>> /\ Whole(s, laid)
      BY <2>1, <2>2, <3>1, LetterCame
    <3> QED BY <3>2 DEF CleanShape
  <2>4. CASE format[i] = "%%"
    <3>1. i' = i + 1
      BY <1>4, <2>4
    <3>2. ASSUME \A b \in 1..i - 1 : format[b] = "%%"
          PROVE  \A b \in 1..i' - 1 : format[b] = "%%"
      BY <1>3, <2>4, <3>1, <3>2
    <3> QED BY <2>2, <3>2 DEF CleanShape
  <2> QED BY <1>4, <2>3, <2>4
<1>7. /\ former \in Chars \cup {NUL} /\ format \in Seq(Letters \cup Signs)
      /\ Len(format) <= MaxTokens
  BY DEF FormatInv, Placed
<1>8. Placed'
  BY <1>2, <1>3, <1>4, <1>5, <1>7 DEF Placed
<1> QED BY <1>2, <1>3, <1>4, <1>5, <1>6, <1>8 DEF FormatInv, Leads, CleanShape

(* A buffer stays one under s2_Cat, which finds a NUL before m + 1: all that*)
(* is left to say once a number's text has not been found whole.           *)
LEMMA FirstNul ==
  ASSUME NEW s, NEW m \in Nat, s[m] = NUL
  PROVE  \E e \in 0..m : s[e] = NUL /\ \A b \in 0..e - 1 : s[b] # NUL
<1>1. SUFFICES ASSUME \A e \in 0..m : s[e] = NUL => \E b \in 0..e - 1 : s[b] = NUL
               PROVE FALSE
  OBVIOUS
<1> DEFINE T == {n \in Nat : n <= m => \A b \in 0..n : s[b] # NUL}
<1>2. 0 \in T
  <2>1. s[0] # NUL
    BY <1>1
  <2> QED BY <2>1
<1>3. ASSUME NEW n \in T PROVE n + 1 \in T
  BY <1>1
<1>4. T = Nat
  <2> HIDE DEF T
  <2>1. T \in SUBSET Nat
    BY DEF T
  <2>2. \A n \in T : n + 1 \in T
    BY <1>3
  <2> QED BY ONLY <1>2, <2>1, <2>2, Induction
<1>5. m \in T
  <2> HIDE DEF T
  <2> QED BY <1>4
<1> QED BY <1>5

LEMMA CatBuffer ==
  ASSUME NEW s, Buffer(s), NEW m \in Nat, s[m] = NUL, NEW text \in Seq(Chars),
         m + Len(text) <= OutMax
  PROVE  Buffer(Cat(s, text))
<1>1. PICK e \in 0..m : s[e] = NUL /\ \A b \in 0..e - 1 : s[b] # NUL
  BY FirstNul
<1>2. e \in Nat /\ e <= OutMax + 32 /\ e + Len(text) <= OutMax /\ s[0 + e] = NUL
      /\ \A b \in 0..e - 1 : s[0 + b] # NUL
  BY <1>1, Bounds
<1>3. StrLen(s, 0) = e
  BY <1>2, TextFound
<1>4. PICK t, w : t = Cat(s, text) /\ w = Len(text)
  OBVIOUS
<1>5. Appended(t, s, text, e, w)
  <2>1. w \in Nat /\ w = Len(text) /\ e + w <= OutMax /\ t = Cat(s, text)
    BY <1>2, <1>4
  <2> QED BY <1>2, <1>3, <2>1, CatLaid
<1> QED BY <1>4, <1>5 DEF Appended

LEMMA Spoiled ==
  ASSUME FormatInv, i <= Len(format), intact' = FALSE, UNCHANGED <<format, former>>,
         i' \in {i + 1, i + 2}, j' \in Nat, j' <= j + MaxText, Buffer(out'), laid' \in Seq(Chars)
  PROVE  FormatInv'
<1>1. /\ i \in Nat \ {0} /\ former \in Chars \cup {NUL} /\ format \in Seq(Letters \cup Signs)
      /\ Len(format) <= MaxTokens
  BY DEF FormatInv, Placed
<1>2. j \in Nat /\ j + MaxText < OutMax /\ j + MaxText <= MaxText * i
  BY RoundPlaced
<1>3. i' > 1 /\ i' \in Nat \ {0} /\ (i' - 1 = i \/ i' - 1 = i + 1)
  <2>1. PICK r \in Nat \ {0} : r = i
    BY <1>1
  <2>2. PICK m : m = i'
    OBVIOUS
  <2>3. m = r + 1 \/ m = r + 2
    BY <2>1, <2>2
  <2>4. m > 1 /\ m \in Nat \ {0} /\ (m - 1 = r \/ m - 1 = r + 1)
    BY <2>3
  <2> QED BY <2>1, <2>2, <2>4
<1>4. j' <= MaxText * (i' - 1) /\ j' <= OutMax
  <2>1. MaxText * (i' - 1) = MaxText * i \/ MaxText * (i' - 1) = MaxText * (i + 1)
    BY <1>3, Zenon
  <2>2. MaxText * (i + 1) = MaxText * i + MaxText /\ MaxText * i \in Int
    BY <1>1, Bounds
  <2>3. j' <= MaxText * i /\ j' <= MaxText * (i + 1) /\ j' <= OutMax
    BY <1>2, <2>2, Bounds
  <2> QED BY <2>1, <2>3, Zenon
<1>5. Placed'
  BY <1>1, <1>3, <1>4 DEF Placed
<1> QED BY <1>3, <1>5 DEF FormatInv

LEMMA RoundSpoiled ==
  ASSUME FormatInv, i <= Len(format), ~intact, intact' = intact, UNCHANGED <<format, former>>,
         Put(format[i]) \/ PutNothing(format[i])
  PROVE  FormatInv'
<1>1. PICK s : s = Ended(out, j)
  OBVIOUS
<1>2. /\ laid \in Seq(Chars) /\ i \in Nat \ {0} /\ j \in Nat /\ j + MaxText < OutMax
      /\ Buffer(s) /\ intact' = FALSE
  BY <1>1, RoundPlaced DEF FormatInv, Placed
<1>3. CASE Put(format[i])
  <2>1. PICK c \in Chars : c = format[i]
    BY <1>3, LoggerAssumption DEF Put, Chars
  <2>2. out' = [s EXCEPT ![j] = c] /\ j' = j + 1 /\ i' = i + 1 /\ laid' = Append(laid, c)
    BY <1>1, <1>3, <2>1 DEF Put
  <2>3. Buffer(out')
    <3>1. j \in 0..OutMax
      BY <1>2, Bounds
    <3> QED BY <1>2, <2>2, <3>1 DEF Buffer
  <2>5. laid' \in Seq(Chars)
    BY <1>2, <2>2
  <2>4. j' \in Nat /\ j' <= j + MaxText /\ i' \in {i + 1, i + 2}
    BY <1>2, <2>2, Bounds
  <2> QED BY <1>2, <2>3, <2>4, <2>5, Spoiled
<1>4. CASE PutNothing(format[i])
  <2>1. out' = s /\ j' = j /\ laid' = laid /\ i' \in {i + 1, i + 2}
    BY <1>1, <1>4 DEF PutNothing
  <2>2. j' \in Nat /\ j' <= j + MaxText
    BY <1>2, <2>1, Bounds
  <2> QED BY <1>2, <2>1, <2>2, Spoiled
<1> QED BY <1>3, <1>4

LEMMA TextSpoiled ==
  ASSUME FormatInv, i <= Len(format), intact' = FALSE, UNCHANGED <<format, former>>,
         NEW text \in Strings \cup DeadTexts, NEW measured \in Strings \cup DeadTexts,
         NEW told \in Strings \cup DeadTexts,
         out' = Cat(Ended(out, j), text), j' = j + Len(measured), i' = i + 1, laid' = laid \o told
  PROVE  FormatInv'
<1>1. PICK s : s = Ended(out, j)
  OBVIOUS
<1>2. /\ laid \in Seq(Chars) /\ i \in Nat \ {0} /\ j \in Nat /\ j + MaxText < OutMax
      /\ Buffer(s) /\ s[j + 1] = NUL
  BY <1>1, RoundPlaced DEF FormatInv, Placed
<1>3. text \in Seq(Chars) /\ Len(text) <= MaxText /\ Len(text) \in Nat
  BY TextsAreChars
<1>4. measured \in Seq(Chars) /\ Len(measured) <= MaxText /\ Len(measured) \in Nat
  BY TextsAreChars
<1>5. told \in Seq(Chars)
  BY TextsAreChars
<1>6. j + 1 \in Nat /\ j + 1 + Len(text) <= OutMax
  BY <1>2, <1>3, Bounds
<1>7. Buffer(Cat(s, text))
  BY <1>2, <1>3, <1>6, CatBuffer
<1>8. Buffer(out') /\ laid' \in Seq(Chars)
  BY <1>1, <1>2, <1>5, <1>7
<1>9. j' \in Nat /\ j' <= j + MaxText /\ i' \in {i + 1, i + 2}
  BY <1>2, <1>4, Bounds
<1> QED BY <1>8, <1>9, Spoiled

LEMMA NextFormat ==
  ASSUME FormatInv, [NextText]_textVars
  PROVE  FormatInv'
<1>1. CASE UNCHANGED formatVars
  BY <1>1 DEF formatVars, FormatInv, Placed, Leads, CleanShape
<1>2. CASE UNCHANGED textVars
  BY <1>1, <1>2 DEF textVars
<1>3. CASE Call
  <2>1. format' \in Formats /\ i' = 1 /\ j' = 0 /\ laid' = <<>> /\ former' = out[0] /\ out' = out
        /\ intact' = TRUE
    BY <1>3 DEF Call
  <2>2. PICK m \in 0..MaxTokens : format' \in [1..m -> Letters \cup Signs]
    BY <2>1 DEF Formats, BoundedSeq, SeqOf
  <2>3. format' \in Seq(Letters \cup Signs) /\ Len(format') <= MaxTokens
    BY <2>2, Bounds
  <2>4. Buffer(out) /\ out[0] \in Chars \cup {NUL}
    <3>1. 0 \in 0..OutMax /\ Buffer(out)
      BY Bounds DEF FormatInv, Placed
    <3> QED BY <3>1 DEF Buffer
  <2>5. <<>> \in Seq(Chars) /\ Len(<<>>) = 0
    OBVIOUS
  <2>6. 0 <= MaxText * (1 - 1) /\ 0 <= OutMax
    BY Bounds
  <2>7. Placed'
    BY <2>1, <2>3, <2>4, <2>5, <2>6 DEF Placed
  <2> QED BY <2>1, <2>5, <2>7 DEF FormatInv
<1>4. CASE Format
  <2>1. i <= Len(format) /\ UNCHANGED <<format, former>>
    BY <1>4 DEF Format
  <2>2. intact \in BOOLEAN
    BY DEF FormatInv, Placed
  <2>3. CASE Put(format[i]) \/ PutNothing(format[i])
    <3>1. intact' = intact
      BY <2>3 DEF Put, PutNothing
    <3>2. CASE intact
      BY <2>1, <2>3, <3>2, StepPut, StepNothing
    <3>3. CASE ~intact
      BY <2>1, <2>3, <3>1, <3>3, RoundSpoiled
    <3> QED BY <3>2, <3>3
  <2>4. ASSUME format[i] = "%s", NEW vp \in Strings, PutText(vp) PROVE FormatInv'
    <3>1. CASE intact
      BY <2>1, <2>4, <3>1, StepText
    <3>2. CASE ~intact
      <4>1. /\ intact' = FALSE /\ out' = Cat(Ended(out, j), vp) /\ j' = j + Len(vp)
            /\ i' = i + 1 /\ laid' = laid \o vp
        BY <2>2, <2>4, <3>2 DEF PutText, Advance
      <4> QED BY <2>1, <4>1, TextSpoiled
    <3> QED BY <3>1, <3>2
  <2>5. ASSUME format[i] \in {"%u", "%x"}, PutNumber PROVE FormatInv'
    <3>1. PICK convs \in DeadTexts, measured \in DeadTexts :
            /\ out' = Cat(Ended(out, j), convs) /\ j' = j + Len(measured)
            /\ i' = i + 1 /\ laid' = laid \o OwnText
            /\ intact' = (intact /\ convs = OwnText /\ measured = OwnText)
      BY <2>5 DEF PutNumber, Advance
    <3>2. OwnText \in DeadTexts
      BY Zenon DEF DeadTexts
    <3>3. CASE intact /\ convs = OwnText /\ measured = OwnText
      <4>1. PutText(OwnText)
        BY <3>1, <3>3 DEF PutText, Advance
      <4> QED BY <2>1, <2>5, <3>2, <3>3, <4>1, StepText
    <3>4. CASE ~(intact /\ convs = OwnText /\ measured = OwnText)
      <4>1. intact' = FALSE
        BY <3>1, <3>4
      <4> QED BY <2>1, <3>1, <3>2, <4>1, TextSpoiled
    <3> QED BY <3>3, <3>4
  <2> QED BY <1>4, <2>3, <2>4, <2>5 DEF Format
<1>5. ASSUME NEW base, NEW n, Convert(base, n) PROVE FormatInv'
  BY <1>1, <1>5 DEF Convert
<1>6. ASSUME NEW ns, NEW str, AskLog(ns, str) PROVE FormatInv'
  BY <1>1, <1>6 DEF AskLog
<1>7. CASE Log
  BY <1>1, <1>7 DEF Log
<1>8. ASSUME NEW size, LogSection(size) PROVE FormatInv'
  BY <1>1, <1>8 DEF LogSection
<1> QED BY <1>2, <1>3, <1>4, <1>5, <1>6, <1>7, <1>8 DEF NextText

LEMMA ShapeRead ==
  ASSUME FormatInv, i > 1, intact
  PROVE  /\ OneFormerCharacter
         /\ former = NUL => TextAt(out, 0) = laid
         /\ former # NUL /\ Leads =>
              TextAt(out, 0) = IF laid = <<>> THEN <<former>> ELSE laid
<1>1. /\ Buffer(out) /\ laid \in Seq(Chars) /\ Len(laid) <= OutMax
      /\ former \in Chars \cup {NUL} /\ Shape(out, laid, former)
      /\ former # NUL /\ Leads => CleanShape(out, laid, i)
  BY Bounds DEF FormatInv, Placed
<1>2. ASSUME Whole(out, laid) PROVE TextAt(out, 0) = laid
  BY <1>1, <1>2, WholeRead
<1>3. ASSUME Trails(out, laid, former) PROVE TextAt(out, 0) = <<former>> \o laid /\ former # NUL
  BY <1>1, <1>3, TrailsRead DEF Trails
<1>4. ASSUME NEW k \in 1..Len(laid), Loses(out, laid, former, k)
      PROVE  TextAt(out, 0) = <<former>> \o RemoveAt(laid, k) /\ former # NUL
  BY <1>1, <1>4, LosesRead DEF Loses
<1>5. OneFormerCharacter
  BY <1>1, <1>2, <1>3, <1>4 DEF Shape, OneFormerCharacter
<1>6. ASSUME former = NUL PROVE TextAt(out, 0) = laid
  BY <1>1, <1>2, <1>3, <1>4, <1>6 DEF Shape
<1>7. ASSUME former # NUL, Leads PROVE TextAt(out, 0) = IF laid = <<>> THEN <<former>> ELSE laid
  <2>1. CASE laid # <<>> /\ Whole(out, laid)
    BY <1>2, <2>1
  <2>2. CASE laid = <<>> /\ Trails(out, laid, former)
    <3>1. PICK c \in Chars : c = former
      BY <1>1, <1>7
    <3>2. <<c>> \o <<>> = <<c>>
      OBVIOUS
    <3> QED BY <1>3, <2>2, <3>1, <3>2
  <2> QED BY <1>1, <1>7, <2>1, <2>2 DEF CleanShape
<1> QED BY <1>5, <1>6, <1>7

(* Whatever the tokens of a format and its arguments: in an empty buffer,  *)
(* or with a letter first, the buffer's text is in every round what the    *)
(* format means so far, unconditionally for a format of letters, "%s" and  *)
(* "%%", and with numbers as long as both reads of each number's text, in  *)
(* a frame that is gone, find it whole (log.c:194-246).                    *)
THEOREM FormatsMeant == SpecText => []FormatMeans
<1>1. InitText => FormatInv
  BY InitFormat
<1>2. FormatInv /\ [NextText]_textVars => FormatInv'
  BY NextFormat
<1>3. FormatInv => FormatMeans
  BY ShapeRead DEF FormatMeans, Clean, Leads
<1> QED BY <1>1, <1>2, <1>3, PTL DEF SpecText

(* Whatever a buffer held, at most its first character stays in front of   *)
(* the text, and then at most one character of the text is lost: the one   *)
(* before a letter that log.c:239 puts by index (log.c:194-246), again as  *)
(* long as the texts of numbers are found whole.                           *)
THEOREM OneCharacterStays == SpecText => []OneFormerCharacter
<1>1. InitText => FormatInv
  BY InitFormat
<1>2. FormatInv /\ [NextText]_textVars => FormatInv'
  BY NextFormat
<1>3. FormatInv => OneFormerCharacter
  BY ShapeRead DEF OneFormerCharacter
<1> QED BY <1>1, <1>2, <1>3, PTL DEF SpecText

=============================================================================
