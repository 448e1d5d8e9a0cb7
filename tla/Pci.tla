---------------------------------- MODULE Pci ----------------------------------
(***************************************************************************)
(* src/pci/pci.c: s2_PCIDevicesScanBruteforce and s2_PCIScanFor, which walk*)
(* every bus, device and function, read the configuration space of each    *)
(* through two ports, and build a descriptor on the heap for each, whether *)
(* something answers there or not.  The configuration space is external; a *)
(* 16-bit word is modelled by its value, a 32-bit base address register by *)
(* its two words.                                                          *)
(***************************************************************************)
EXTENDS Integers, Sequences, FiniteSets

CONSTANTS
  Buses, Devices, Functions,  \* 256, 32 and 8 in the code
  Hardware,  \* kinds of function: what each is
  Absent,    \* no function there
  NULL,
  Layouts,   \* what may be plugged in: sets of [Place -> kind or Absent]
  Wanted,    \* class, subclass and interface (or -1) callers search for
  MaxCalls   \* bound: scans and searches made

Place == (0..(Buses - 1)) \X (0..(Devices - 1)) \X (0..(Functions - 1))

(* The registers of a function of the bus: no vendor has number 65535, and *)
(* an address of a base register leaves its type bits clear.               *)
Byte == {b \in Nat : b < 256}

BarType == [io : BOOLEAN, low : Nat, high : Nat, prefetchable : BOOLEAN]

TypeBitsClear(bar) ==
  IF bar.io THEN bar.low % 4 = 0 /\ ~bar.prefetchable ELSE bar.low % 16 = 0

BaseRegisters(headerType) ==
  IF headerType = 0 THEN 6 ELSE IF headerType = 1 THEN 2 ELSE 1

IsFunction(hw) ==
  /\ hw.vendorId \in Nat /\ hw.vendorId < 65535
  /\ hw.headerType \in Byte /\ hw.headerType < 128
  /\ hw.classCode \in Byte /\ hw.subclass \in Byte /\ hw.progIF \in Byte
  /\ hw.interruptLine \in Byte
  /\ hw.bars \in Seq(BarType) /\ Len(hw.bars) <= BaseRegisters(hw.headerType)
  /\ \A n \in 1..Len(hw.bars) : TypeBitsClear(hw.bars[n])

(* s2_PCIDeviceDescriptor, as much of it as anybody reads. *)
Descriptor ==
  [place : Place, vendorId : Nat, progIF : Byte, classCode : Byte, subclass : Byte,
   headerType : Byte, interruptLine : Byte,
   bars : [0..1 -> BarType \cup {NULL}] \cup [0..5 -> BarType \cup {NULL}]]

ASSUME PciAssumption ==
  /\ NULL \notin Descriptor \cup BarType
  /\ {Buses, Devices, Functions} \subseteq Nat \ {0} /\ MaxCalls \in Nat
  /\ \A kind \in DOMAIN Hardware : IsFunction(Hardware[kind])
  /\ \A layout \in Layouts : layout \in [Place -> DOMAIN Hardware \cup {Absent}]

VARIABLES
  layout,         \* what is plugged in
  at,             \* "idle", "scan" or "find": the call under way
  want,           \* the arguments of the last s2_PCIScanFor, NULL before the first
  place,          \* bus, device and function of the loops
  functionCount,
  rows,           \* the functions the last scan has printed, in order
  s2_supportsVGA,
  found,          \* what the last s2_PCIScanFor returned
  kept,           \* blocks allocated and not freed
  calls

vars == <<layout, at, want, place, functionCount, rows, s2_supportsVGA, found, kept,
          calls>>

-----------------------------------------------------------------------------
(* The configuration space: word n of a function that is there, with bit 7 *)
(* of the header type set in function 0 of a device that has others.       *)
Others(p) == \E f \in 1..(Functions - 1) : layout[<<p[1], p[2], f>>] # Absent

BarWord(bar, high) ==
  IF high THEN bar.high
  ELSE bar.low + (IF bar.io THEN 1 ELSE IF bar.prefetchable THEN 8 ELSE 0)

Register(p, n) ==
  LET hw == Hardware[layout[p]]
  IN  CASE n = 0 -> hw.vendorId
        [] n = 4 -> 256 * hw.progIF
        [] n = 5 -> 256 * hw.classCode + hw.subclass
        [] n = 7 -> hw.headerType + (IF p[3] = 0 /\ Others(p) THEN 128 ELSE 0)
        [] n >= 8 /\ (n - 8) \div 2 < Len(hw.bars) ->
             BarWord(hw.bars[(n - 8) \div 2 + 1], n % 2 = 1)
        [] n = 30 -> hw.interruptLine
        [] OTHER -> 0

(* The 32 bits at a register offset that is a multiple of four. *)
DoubleWord(p, offset) ==
  IF layout[p] = Absent THEN <<65535, 65535>>
  ELSE <<Register(p, offset \div 2), Register(p, offset \div 2 + 1)>>

(* s2_PCIReadW: the address leaves out the low two bits of the offset, and *)
(* bit 1 of it selects the half of what is read.                           *)
PCIReadW(p, offset) ==
  DoubleWord(p, offset - (offset % 4))[IF offset % 4 >= 2 THEN 2 ELSE 1]

MultifunctionMasked(bus, device) == (PCIReadW(<<bus, device, 0>>, 14) % 128) >= 128

PCIIsDeviceMultifunction(bus, device) ==
  PCIReadW(<<bus, device, 0>>, 14) % 256 >= 128

(* Variants, each with the mistake its name tells. *)
MaxBarNUnchecked(headerType) == 5

HeaderTypeUnmasked(p) == PCIReadW(p, 14) % 256

SuitsIgnoringInterface(dev, class, subclass, progIF) ==
  dev.classCode = class /\ dev.subclass = subclass

(* s2_PCIGetBaseAddressRegister: NULL for a number the header type does not*)
(* have; the type bits are masked off the address.                         *)
MaxBarN(headerType) == CASE headerType = 0 -> 5 [] headerType = 1 -> 1 [] OTHER -> 0

PCIGetBaseAddressRegister(p, headerType, n) ==
  LET low == PCIReadW(p, 16 + 4 * n)
      io  == low % 2 = 1
  IN  IF n > MaxBarN(headerType) THEN NULL
      ELSE [io |-> io,
            low |-> low - (low % (IF io THEN 4 ELSE 16)),
            high |-> PCIReadW(p, 18 + 4 * n),
            prefetchable |-> ~io /\ (low \div 8) % 2 = 1]

(* headerType without the multifunction bit. *)
HeaderType(p) == PCIReadW(p, 14) % 128

(* s2_PCIGetDeviceDescriptor *)
PCIGetDeviceDescriptor(p) ==
  LET header == HeaderType(p)
  IN  [place |-> p, vendorId |-> PCIReadW(p, 0),
       progIF |-> PCIReadW(p, 8) \div 256,
       classCode |-> PCIReadW(p, 10) \div 256, subclass |-> PCIReadW(p, 10) % 256,
       headerType |-> header, interruptLine |-> PCIReadW(p, 60) % 256,
       bars |-> [n \in 0..(IF header = 0 THEN 5 ELSE 1) |->
                   PCIGetBaseAddressRegister(p, header, n)]]

(* What it allocates: the descriptor, the array, and the registers. *)
Blocks(dev) == 2 + Cardinality({n \in DOMAIN dev.bars : dev.bars[n] # NULL})

-----------------------------------------------------------------------------
Init ==
  /\ layout \in Layouts
  /\ at = "idle" /\ want = NULL /\ place = <<0, 0, 0>> /\ functionCount = 1
  /\ rows = <<>> /\ s2_supportsVGA = FALSE /\ found = NULL /\ kept = 0 /\ calls = 0

CountOf(bus, device) ==
  IF PCIIsDeviceMultifunction(bus, device) THEN Functions ELSE 1

EnterDevice(bus, device) ==
  /\ place' = <<bus, device, 0>>
  /\ functionCount' = CountOf(bus, device)

(* The three loops, and the end of them. *)
NextFunction ==
  LET bus == place[1] device == place[2] function == place[3]
  IN  \/ /\ function + 1 < functionCount
         /\ place' = <<bus, device, function + 1>>
         /\ UNCHANGED <<functionCount, at>>
      \/ /\ function + 1 >= functionCount /\ device + 1 < Devices
         /\ EnterDevice(bus, device + 1) /\ UNCHANGED at
      \/ /\ function + 1 >= functionCount /\ device + 1 = Devices /\ bus + 1 < Buses
         /\ EnterDevice(bus + 1, 0) /\ UNCHANGED at
      \/ /\ function + 1 >= functionCount /\ device + 1 = Devices /\ bus + 1 = Buses
         /\ at' = "idle"
         /\ UNCHANGED <<place, functionCount>>

Return == at' = "idle" /\ UNCHANGED <<place, functionCount>>

NobodyThere(dev) == dev.vendorId \in {65535, 0}

(* continue: the descriptor is not freed, and neither is what it holds. *)
Skip(dev) ==
  /\ NobodyThere(dev)
  /\ kept' = kept + Blocks(dev)
  /\ NextFunction
  /\ UNCHANGED <<rows, s2_supportsVGA, found>>

StartScan ==
  /\ at = "idle" /\ calls < MaxCalls /\ calls' = calls + 1
  /\ at' = "scan" /\ rows' = <<>>
  /\ EnterDevice(0, 0)
  /\ UNCHANGED <<layout, want, s2_supportsVGA, found, kept>>

StartFind ==
  /\ at = "idle" /\ calls < MaxCalls /\ calls' = calls + 1
  /\ at' = "find" /\ want' \in Wanted /\ found' = NULL
  /\ EnterDevice(0, 0)
  /\ UNCHANGED <<layout, rows, s2_supportsVGA, kept>>

IsVga(dev) == dev.classCode = 3 /\ dev.subclass = 0

ScanVga(dev) ==
  /\ ~NobodyThere(dev) /\ IsVga(dev)
  /\ s2_supportsVGA' = TRUE
  /\ kept' = kept + Blocks(dev)
  /\ Return
  /\ UNCHANGED <<rows, found>>

(* A row on the screen, of seven numbers whose texts are not freed; then   *)
(* the descriptor is freed, and what it holds is not.                      *)
ScanPrint(dev) ==
  /\ ~NobodyThere(dev) /\ ~IsVga(dev)
  /\ rows' = Append(rows, dev.place)
  /\ kept' = kept + Blocks(dev) + 7 - 1
  /\ NextFunction
  /\ UNCHANGED <<s2_supportsVGA, found>>

(* s2_PCIDevicesScanBruteforce, one function of it. *)
Scan ==
  /\ at = "scan"
  /\ LET dev == PCIGetDeviceDescriptor(place)
     IN  Skip(dev) \/ ScanVga(dev) \/ ScanPrint(dev)
  /\ UNCHANGED <<layout, want, calls>>

Suits(dev, class, subclass, progIF) ==
  /\ dev.classCode = class /\ dev.subclass = subclass
  /\ progIF = -1 \/ dev.progIF = progIF

FindMatch(dev) ==
  /\ ~NobodyThere(dev) /\ Suits(dev, want[1], want[2], want[3])
  /\ found' = dev
  /\ kept' = kept + Blocks(dev)
  /\ Return
  /\ UNCHANGED <<rows, s2_supportsVGA>>

FindOther(dev) ==
  /\ ~NobodyThere(dev) /\ ~Suits(dev, want[1], want[2], want[3])
  /\ kept' = kept + Blocks(dev) - 1
  /\ NextFunction
  /\ UNCHANGED <<rows, s2_supportsVGA, found>>

(* s2_PCIScanFor, one function of it. *)
Find ==
  /\ at = "find"
  /\ LET dev == PCIGetDeviceDescriptor(place)
     IN  Skip(dev) \/ FindMatch(dev) \/ FindOther(dev)
  /\ UNCHANGED <<layout, want, calls>>

Next == StartScan \/ StartFind \/ Scan \/ Find

Spec == Init /\ [][Next]_vars

-----------------------------------------------------------------------------
(* The order of the loops. *)
Before(p, q) ==
  \/ p[1] < q[1]
  \/ p[1] = q[1] /\ p[2] < q[2]
  \/ p[1] = q[1] /\ p[2] = q[2] /\ p[3] < q[3]

(* The functions that are there, by what is plugged in. *)
Present(p) == layout[p] # Absent /\ Hardware[layout[p]].vendorId # 0
Is(p, class, subclass) ==
  /\ Present(p)
  /\ Hardware[layout[p]].classCode = class /\ Hardware[layout[p]].subclass = subclass

Shown == {rows[n] : n \in DOMAIN rows}

(* A scan prints every function that is there, once and in order, up to the*)
(* first VGA card, where it ends and which it reports; without a VGA card  *)
(* it reports none.  Functions of a device whose function 0 is absent are  *)
(* not missed, since nothing there reads as ones.                          *)
EveryFunctionPrinted ==
  LET Printed == {p \in Place : Present(p)
                    /\ \A q \in Place : Is(q, 3, 0) => Before(p, q)}
      Vga == \E p \in Place : Is(p, 3, 0)
  IN  /\ \A m, n \in DOMAIN rows : m < n => Before(rows[m], rows[n])
      /\ s2_supportsVGA => Vga
      /\ at = "scan" => Shown = {p \in Printed : Before(p, place)}
      /\ at # "scan" /\ rows # <<>> => Shown = Printed /\ s2_supportsVGA = Vga

(* The first function in the order of the loops that a search asks for. *)
Suitable(p) ==
  /\ Is(p, want[1], want[2])
  /\ want[3] \in {-1, Hardware[layout[p]].progIF}

(* A search returns the first function of the class asked for, and NULL    *)
(* only if there is none.                                                  *)
FirstFound ==
  /\ found # NULL => /\ Suitable(found.place)
                     /\ \A p \in Place : Suitable(p) => ~Before(p, found.place)
  /\ at = "find" => \A p \in Place : Suitable(p) => ~Before(p, place)
  /\ at # "find" /\ want # NULL /\ found = NULL => \A p \in Place : ~Suitable(p)

(* The descriptor a caller is given tells the truth: its registers, as many*)
(* as its header has, have the addresses and types the function was given, *)
(* whether or not its device has other functions.                          *)
DescriptorTrue ==
  found # NULL =>
    LET hw == Hardware[layout[found.place]]
    IN  /\ found.vendorId = hw.vendorId /\ found.progIF = hw.progIF
        /\ found.headerType = hw.headerType /\ found.interruptLine = hw.interruptLine
        /\ \A n \in 1..Len(hw.bars) :
             n - 1 \in DOMAIN found.bars /\ found.bars[n - 1] = hw.bars[n]

(* The functions a call examines: those of devices with others, those of   *)
(* devices without a function 0, and function 0 of the rest.               *)
Examined(p) ==
  p[3] = 0 \/ Others(p) \/ layout[<<p[1], p[2], 0>>] = Absent

(* What a function costs a call that goes on past it. *)
Registers(p) == BaseRegisters(Hardware[layout[p]].headerType)

Cost(p) ==
  IF ~Present(p) THEN IF layout[p] = Absent THEN 3 ELSE 2 + Registers(p)
  ELSE 1 + Registers(p) + (IF at = "scan" THEN 7 ELSE 0)

(* The blocks lost with the functions examined, of each function the first,*)
(* the second and so on.                                                   *)
Lost == UNION {{p} \X (1..Cost(p)) : p \in {q \in Place : Examined(q) /\ Before(q, place)}}

(* What the first call has taken of the heap and not given back grows with *)
(* every function it looked at: three blocks for each that is not there    *)
(* (pci.c:121 goes on without s2_MemoryFree), the registers of each that is*)
(* (s2_MemoryFree(dev) leaves them), and seven texts for each printed.     *)
BlocksLost == calls = 1 /\ at # "idle" => kept = Cardinality(Lost)
=============================================================================
