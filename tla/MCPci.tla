--------------------------------- MODULE MCPci ---------------------------------
(***************************************************************************)
(* A configuration space of two buses with two devices of two functions for*)
(* TLC: every way to plug in up to two devices, with or without function 0.*)
(***************************************************************************)
EXTENDS Pci

Io(low)        == [io |-> TRUE, low |-> low, high |-> 0, prefetchable |-> FALSE]
Mem(high, pre) == [io |-> FALSE, low |-> 0, high |-> high, prefetchable |-> pre]
Six(bar)       == <<bar, Io(0), bar, Io(0), Io(49216), Mem(0, FALSE)>>

Kind(vendor, class, subclass, progIF, header, bars) ==
  [vendorId |-> vendor, classCode |-> class, subclass |-> subclass, progIF |-> progIF,
   headerType |-> header, interruptLine |-> 14, bars |-> bars]

MCHardware ==
  [ide    |-> Kind(32902, 1, 1, 128, 0, Six(Io(496))),
   native |-> Kind(32902, 1, 1, 138, 0, Six(Io(50000))),
   vga    |-> Kind(6966, 3, 0, 0, 0, Six(Mem(64768, TRUE))),
   bridge |-> Kind(32902, 6, 4, 0, 1, <<Mem(65000, FALSE), Io(0)>>),
   void   |-> Kind(0, 1, 1, 128, 0, Six(Mem(1, FALSE)))]

Slot == (0..(Buses - 1)) \X (0..(Devices - 1))

Plugged(s1, s2, kind) ==
  [p \in Place |-> IF <<p[1], p[2]>> = s1 THEN kind[1][p[3]]
                   ELSE IF <<p[1], p[2]>> = s2 THEN kind[2][p[3]] ELSE Absent]

MCLayouts ==
  LET Device == {d \in [0..(Functions - 1) -> DOMAIN MCHardware \cup {Absent}] :
                   \A f \in 1..(Functions - 1) : d[f] \in {Absent, "ide", "vga"}}
  IN  {Plugged(s[1], s[2], kind) :
         s \in {t \in Slot \X Slot : t[1] # t[2]}, kind \in Device \X Device}

MCWanted == {<<1, 1, -1>>, <<1, 1, 138>>, <<6, 4, -1>>}
=============================================================================
