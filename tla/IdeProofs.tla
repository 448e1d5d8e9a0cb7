-------------------------------- MODULE IdeProofs --------------------------------
(***************************************************************************)
(* Theorems about the IDE driver, for any sizes of sectors and buffers and *)
(* any number of calls and interrupts.                                     *)
(***************************************************************************)
EXTENDS Ide, TLAPS

Commands == {"none", "identify", "identify_packet", "packet", "read"}

Probing == {"present", "spin", "signature", "poll_identify", "sleep", "identification"}
Waiting == {"wait", "halt", "asleep"}
Reading == {"command", "poll", "packet", "size", "copy"} \cup Waiting

(* Types that the steps rely on, beside those of TypeOK. *)
Places ==
  /\ kind \in Kinds /\ command \in Commands
  /\ pc \in {"idle"} \cup Probing \cup Reading
  /\ type \in Types

Flags ==
  /\ irq \in BOOLEAN /\ exists \in BOOLEAN /\ ataLock \in BOOLEAN
  /\ late \in BOOLEAN /\ faulted \in BOOLEAN

Counts ==
  /\ i \in Nat /\ crop \in Crops
  /\ probes \in Nat /\ reads \in Nat
  /\ foreign \in Nat /\ before \in Nat /\ before <= foreign

Typed == TypeOK /\ Places /\ Flags /\ Counts

(* Which of the two functions runs, and what the record of the device says *)
(* between them.                                                           *)
Found ==
  /\ kind \in {"nothing", "ones"} => phase = "ready" /\ command = "none"
  /\ pc \in Reading => reads > 0
  /\ pc \in Probing => reads = 0
  /\ pc # "idle" => probes > 0
  /\ reads > 0 => exists /\ type = "atapi" /\ kind = "packet"
  /\ reads = 0 => ~late /\ result = "none"
  /\ pc = "idle" /\ probes = 0 => ~exists
  /\ FoundIsConnected

(* A probe knows what the device does: it has been sent "identify", or, if *)
(* it is a packet device, "identify_packet".                               *)
Probed ==
  /\ pc = "idle" /\ reads = 0 => AtRest
  /\ pc \in Probing \ {"identification"} => i = 0
  /\ pc \in Probing \ {"present"} => exists /\ kind # "nothing"
  /\ pc \in {"spin", "signature"} => type = "ata"
  /\ pc \in {"poll_identify", "sleep"} => type = "atapi" /\ kind = "packet"
  /\ pc \in {"present", "spin", "signature"} /\ kind \notin {"nothing", "ones"} =>
       /\ command = "identify"
       /\ phase \in {"busy", "fault", IF kind = "disk" THEN "data" ELSE "error"}
       /\ phase = "data" => left = BufWords
  /\ pc = "signature" => phase \notin {"busy", "fault"} /\ (kind \in {"ones", "packet"} => error = 1)
  /\ pc \in {"poll_identify", "sleep"} =>
       /\ command = "identify_packet"
       /\ \/ phase = "data" /\ left = BufWords
          \/ phase = "busy" /\ pc = "poll_identify"
          \/ phase = "fault"
  /\ pc = "identification" =>
       /\ (type = "atapi" <=> kind = "packet")
       /\ command # "read" /\ i <= BufWords /\ phase # "busy"
       /\ kind = "rejecting" => phase = "error"
       /\ kind \in {"disk", "packet"} =>
            \/ phase = "fault"
            \/ left = BufWords - i /\ phase = IF i < BufWords THEN "data" ELSE "ready"

(* Reads ask a packet device for sectors and for nothing else. *)
Asked ==
  /\ reads > 0 /\ phase = "busy" => command \in {"packet", "read"}
  /\ reads > 0 /\ phase = "data" => left <= SectorWords
  /\ pc \in Reading => result = "none"
  /\ pc \in Reading \ {"copy"} => i = 0 /\ DOMAIN stored = {}
  /\ pc = "copy" => DOMAIN stored = {k \in 0..(i - 1) : k < crop}

Undisturbed == ~late /\ foreign = before

(* The packet has been taken: the device is at work on it, with no         *)
(* interrupt pending, or has answered it.                                  *)
Taken ==
  /\ asked = lba
  /\ \/ phase = "busy" /\ command = "read" /\ ~irq /\ ~faulted
     \/ phase = "data" /\ left = SectorWords /\ ~faulted
     \/ phase \in {"error", "fault"} /\ faulted

(* The loop over words is at word i of the sector, or behind it. *)
Copying ==
  /\ asked = lba
  /\ \/ phase \in {"error", "fault"} /\ faulted
     \/ /\ ~faulted /\ size = SizeBytes
        /\ IF i < SectorWords THEN phase = "data" /\ left = SectorWords - i
                              ELSE phase \in {"finishing", "ready"}
        /\ \A k \in 0..(SectorWords - 1) : k < i /\ k < crop => stored[k] = <<lba, k>>

(* A read that began after the device had finished knows what it does,     *)
(* until line 15 interrupts; ataLock means the answer to this packet.      *)
Ordered ==
  /\ ~late /\ pc = "command" => AtRest /\ ~irq /\ ~faulted
  /\ ~late /\ pc = "poll" =>
       /\ ~faulted
       /\ \/ phase = "busy" /\ command = "packet" /\ ~irq
          \/ phase = "packet" /\ ~irq
          \/ phase \in {"error", "fault"}
  /\ ~late /\ pc = "packet" => phase = "packet" /\ ~irq /\ ~faulted
  /\ Undisturbed /\ pc \in {"command", "packet"} => ~ataLock
  /\ Undisturbed /\ pc = "poll" => ~ataLock \/ phase \in {"error", "fault"}
  /\ ~late /\ pc \in Waiting => Taken
  /\ Undisturbed /\ pc \in Waiting => ~ataLock \/ phase # "busy"
  /\ Undisturbed /\ pc = "size" => Taken /\ phase # "busy"
  /\ Undisturbed /\ pc = "copy" => Copying

(* The inductive invariant. *)
IdeInv == Typed /\ Found /\ Probed /\ Asked /\ Ordered /\ Drained /\ SectorDelivered

-----------------------------------------------------------------------------
USE DEF Commands, Probing, Reading, Waiting, Kinds, Types, AtRest

(* The sizes are positive numbers. *)
LEMMA Sizes ==
  /\ BufWords \in Nat /\ BufWords > 0 /\ SleepMs \in Nat
  /\ SectorWords \in Nat /\ SectorWords > 0 /\ SizeBytes = 2 * SectorWords
  BY IdeAssumption DEF IdeAssumption, SizeBytes

(* The part of TypeOK about the device. *)
LEMMA Holding ==
  ASSUME TypeOK
  PROVE  /\ phase \in {"ready", "busy", "packet", "data", "finishing", "error", "fault"}
         /\ left \in 0..(BufWords + SectorWords) /\ (phase = "data" <=> left > 0)
  BY DEF TypeOK

(* The inductive invariant holds at the start. *)
LEMMA IdeInit == Init => IdeInv
  <1> SUFFICES ASSUME Init PROVE IdeInv
    OBVIOUS
  <1> USE Sizes DEF Init
  <1>1. DOMAIN stored = {}
    OBVIOUS
  <1>2. TypeOK
    BY <1>1 DEF TypeOK
  <1>3. Places /\ Flags
    BY DEF Places, Flags
  <1>4. Counts
    BY DEF Counts, Crops
  <1>5. Found
    BY DEF Found, FoundIsConnected
  <1>6. Probed /\ Asked /\ Ordered
    BY DEF Probed, Asked, Ordered, Undisturbed
  <1>7. Drained /\ SectorDelivered
    BY <1>2 DEF Drained, SectorDelivered
  <1> QED BY <1>2, <1>3, <1>4, <1>5, <1>6, <1>7 DEF IdeInv, Typed

(* A probe starts with a device that is ready or reports an error, and sends
   it "identify". *)
LEMMA StartKeeps ==
  ASSUME IdeInv, Start
  PROVE  IdeInv'
  <1> USE DEF Start, Issue, device, probe, args, read, past
  <1>1. TypeOK /\ Places /\ Flags /\ Counts
    BY DEF IdeInv, Typed
  <1>2. Found /\ Probed /\ Asked /\ Ordered /\ Drained /\ SectorDelivered
    BY DEF IdeInv
  <1>3. Typed'
    BY <1>1, Sizes DEF Typed, TypeOK, Places, Flags, Counts, Crops
  <1>4. Found' /\ Probed' /\ Asked'
    BY <1>1, <1>2, Sizes DEF Counts, Found, FoundIsConnected, Probed, Asked
  <1>5. Ordered'
    BY <1>1, <1>2, Sizes DEF Counts, Found, Asked, Ordered, Undisturbed, Taken, Copying
  <1>6. Drained' /\ SectorDelivered'
    BY <1>1, <1>2, <1>3, <1>4 DEF Typed, Counts, Drained, Found, Probed, Asked, SectorDelivered,
                             Ordered, Undisturbed
  <1> QED BY <1>3, <1>4, <1>5, <1>6 DEF IdeInv

(* A probe goes on unless nothing is connected. *)
LEMMA PresentKeeps ==
  ASSUME IdeInv, Present
  PROVE  IdeInv'
  <1> USE DEF Present, device, probe, args, read, past
  <1>1. TypeOK /\ Places /\ Flags /\ Counts
    BY DEF IdeInv, Typed
  <1>2. Found /\ Probed /\ Asked /\ Ordered /\ Drained /\ SectorDelivered
    BY DEF IdeInv
  <1>3. Typed'
    BY <1>1, Sizes DEF Typed, TypeOK, Places, Flags, Counts, Crops
  <1>4. Found' /\ Probed' /\ Asked'
    <2>1. Found'
      <3>1. reads = 0 /\ probes > 0 /\ ~(reads > 0) /\ probes # 0 /\ ~late /\ result = "none"
        BY <1>1, <1>2 DEF Counts, Found
      <3>2. kind \in {"nothing", "ones"} => phase = "ready" /\ command = "none"
        BY <1>2 DEF Found
      <3> QED BY <3>1, <3>2 DEF Found, FoundIsConnected
    <2>2. Probed'
      BY <1>1, <1>2, Sizes DEF Counts, Found, Probed
    <2>3. Asked'
      BY <1>2 DEF Found, Asked
    <2> QED BY <2>1, <2>2, <2>3
  <1>5. Ordered'
    BY <1>1, <1>2, Sizes DEF Counts, Found, Asked, Ordered, Undisturbed, Taken, Copying
  <1>6. Drained' /\ SectorDelivered'
    BY <1>1, <1>2, <1>3, <1>4 DEF Typed, Counts, Drained, Found, Probed, Asked, SectorDelivered,
                             Ordered, Undisturbed
  <1> QED BY <1>3, <1>4, <1>5, <1>6 DEF IdeInv

(* The spin ends when the device has data or reports an error. *)
LEMMA SpinKeeps ==
  ASSUME IdeInv, Spin
  PROVE  IdeInv'
  <1> USE DEF Spin, SpinEnds, BSY, DRQ, ERR, device, probe, args, read, past
  <1>1. TypeOK /\ Places /\ Flags /\ Counts
    BY DEF IdeInv, Typed
  <1>2. Found /\ Probed /\ Asked /\ Ordered /\ Drained /\ SectorDelivered
    BY DEF IdeInv
  <1>3. Typed'
    BY <1>1, Sizes DEF Typed, TypeOK, Places, Flags, Counts, Crops
  <1>4. Found' /\ Probed' /\ Asked'
    BY <1>1, <1>2, Sizes DEF Counts, Found, FoundIsConnected, Probed, Asked
  <1>5. Ordered'
    BY <1>1, <1>2, Sizes DEF Counts, Found, Asked, Ordered, Undisturbed, Taken, Copying
  <1>6. Drained' /\ SectorDelivered'
    BY <1>1, <1>2, <1>3, <1>4 DEF Typed, Counts, Drained, Found, Probed, Asked, SectorDelivered,
                             Ordered, Undisturbed
  <1> QED BY <1>3, <1>4, <1>5, <1>6 DEF IdeInv

(* What the signature tells is what is connected, whatever error held: the
   devices that answered with an error have set it. *)
LEMMA SignatureKeeps ==
  ASSUME IdeInv, Signature
  PROVE  IdeInv'
  <1> USE DEF Signature, IsPacketDevice, Issue, device, probe, args, read, past
  <1>1. TypeOK /\ Places /\ Flags /\ Counts
    BY DEF IdeInv, Typed
  <1>2. Found /\ Probed /\ Asked /\ Ordered /\ Drained /\ SectorDelivered
    BY DEF IdeInv
  <1>3. Typed'
    BY <1>1, Sizes DEF Typed, TypeOK, Places, Flags, Counts, Crops
  <1>4. Found' /\ Probed' /\ Asked'
    BY <1>1, <1>2, Sizes DEF Counts, Found, FoundIsConnected, Probed, Asked
  <1>5. Ordered'
    BY <1>1, <1>2, Sizes DEF Counts, Found, Asked, Ordered, Undisturbed, Taken, Copying
  <1>6. Drained' /\ SectorDelivered'
    BY <1>1, <1>2, <1>3, <1>4 DEF Typed, Counts, Drained, Found, Probed, Asked, SectorDelivered,
                             Ordered, Undisturbed
  <1> QED BY <1>3, <1>4, <1>5, <1>6 DEF IdeInv

(* The poll of the packet device ends with its identification in it. *)
LEMMA PollIdentifyKeeps ==
  ASSUME IdeInv, PollIdentify
  PROVE  IdeInv'
  <1> USE DEF PollIdentify, PollResult, BSY, DRQ, ERR, DEVF, device, probe, args, read, past
  <1>1. TypeOK /\ Places /\ Flags /\ Counts
    BY DEF IdeInv, Typed
  <1>2. Found /\ Probed /\ Asked /\ Ordered /\ Drained /\ SectorDelivered
    BY DEF IdeInv
  <1>3. Typed'
    BY <1>1, Sizes DEF Typed, TypeOK, Places, Flags, Counts, Crops
  <1>4. Found' /\ Probed' /\ Asked'
    BY <1>1, <1>2, Sizes DEF Counts, Found, FoundIsConnected, Probed, Asked
  <1>5. Ordered'
    BY <1>1, <1>2, Sizes DEF Counts, Found, Asked, Ordered, Undisturbed, Taken, Copying
  <1>6. Drained' /\ SectorDelivered'
    BY <1>1, <1>2, <1>3, <1>4 DEF Typed, Counts, Drained, Found, Probed, Asked, SectorDelivered,
                             Ordered, Undisturbed
  <1> QED BY <1>3, <1>4, <1>5, <1>6 DEF IdeInv

(* The sleep changes nothing of the device. *)
LEMMA SleepKeeps ==
  ASSUME IdeInv, Sleep
  PROVE  IdeInv'
  <1> USE DEF Sleep, device, probe, args, read, past
  <1>1. TypeOK /\ Places /\ Flags /\ Counts
    BY DEF IdeInv, Typed
  <1>2. Found /\ Probed /\ Asked /\ Ordered /\ Drained /\ SectorDelivered
    BY DEF IdeInv
  <1>3. Typed'
    BY <1>1, Sizes DEF Typed, TypeOK, Places, Flags, Counts, Crops
  <1>4. Found' /\ Probed' /\ Asked'
    BY <1>1, <1>2, Sizes DEF Counts, Found, FoundIsConnected, Probed, Asked
  <1>5. Ordered'
    BY <1>1, <1>2, Sizes DEF Counts, Found, Asked, Ordered, Undisturbed, Taken, Copying
  <1>6. Drained' /\ SectorDelivered'
    BY <1>1, <1>2, <1>3, <1>4 DEF Typed, Counts, Drained, Found, Probed, Asked, SectorDelivered,
                             Ordered, Undisturbed
  <1> QED BY <1>3, <1>4, <1>5, <1>6 DEF IdeInv

(* The loop takes the identification word by word, or reads a device that has
   none. *)
LEMMA IdentificationKeeps ==
  ASSUME IdeInv, Identification
  PROVE  IdeInv'
  <1> USE DEF Identification, InW, device, probe, args, read, past
  <1>1. TypeOK /\ Places /\ Flags /\ Counts
    BY DEF IdeInv, Typed
  <1>2. Found /\ Probed /\ Asked /\ Ordered /\ Drained /\ SectorDelivered
    BY DEF IdeInv
  <1>3. Typed'
    BY <1>1, Sizes DEF Typed, TypeOK, Places, Flags, Counts, Crops
  <1>4. Found'
    <2>1. /\ exists /\ kind # "nothing" /\ (type = "atapi" <=> kind = "packet") /\ reads = 0
          /\ ~late /\ probes > 0 /\ result = "none" /\ pc' \in {"identification", "idle"}
      BY <1>2 DEF Found, Probed
    <2>2. kind = "ones" => phase' = "ready" /\ command' = "none"
      BY <1>2 DEF Found
    <2> QED BY <2>1, <2>2 DEF Found, FoundIsConnected
  <1>5. Probed'
    <2>1. /\ exists /\ kind # "nothing" /\ (type = "atapi" <=> kind = "packet") /\ reads = 0
          /\ command # "read" /\ i <= BufWords /\ phase # "busy"
      BY <1>2 DEF Found, Probed
    <2>2. kind = "rejecting" => phase = "error"
      BY <1>2 DEF Probed
    <2>3. kind \in {"disk", "packet"} =>
            \/ phase = "fault"
            \/ left = BufWords - i /\ phase = IF i < BufWords THEN "data" ELSE "ready"
      BY <1>2 DEF Probed
    <2>4. kind = "ones" => phase = "ready"
      BY <1>2 DEF Found
    <2>5. kind \in {"ones", "rejecting", "disk", "packet"}
      BY <1>1, <2>1 DEF Places
    <2>6. CASE kind \in {"disk", "packet"}
      BY <1>1, <2>1, <2>3, <2>6, Sizes DEF Counts, Probed
    <2>7. CASE kind \in {"ones", "rejecting"}
      BY <1>1, <2>1, <2>2, <2>4, <2>7, Sizes DEF Counts, Probed
    <2> QED BY <2>5, <2>6, <2>7
  <1>6. Asked'
    BY <1>1, <1>2, Sizes DEF Counts, Found, Probed, Asked
  <1>7. Ordered'
    BY <1>1, <1>2, Sizes DEF Counts, Found, Asked, Ordered, Undisturbed, Taken, Copying

  <1>8. Drained'
    BY <1>3, <1>2, <1>5 DEF Typed, Drained, Probed, Found
  <1>9. SectorDelivered'
    BY <1>1, <1>2 DEF Counts, Found, Asked, SectorDelivered, Ordered, Undisturbed, Copying
  <1> QED BY <1>3, <1>4, <1>5, <1>6, <1>7, <1>8, <1>9 DEF IdeInv

(* A read starts after a probe that found a packet device. *)
LEMMA CallKeeps ==
  ASSUME IdeInv, Call
  PROVE  IdeInv'
  <1> USE DEF Call, device, probe, args, read, past
  <1>1. TypeOK /\ Places /\ Flags /\ Counts
    BY DEF IdeInv, Typed
  <1>2. Found /\ Probed /\ Asked /\ Ordered /\ Drained /\ SectorDelivered
    BY DEF IdeInv
  <1>3. Typed'
    <2>1. DOMAIN stored' = {}
      OBVIOUS
    <2>2. TypeOK'
      BY <1>1, <2>1, Sizes DEF TypeOK
    <2>3. Counts'
      BY <1>1, Sizes DEF Counts
    <2> QED BY <1>1, <2>2, <2>3 DEF Typed, Places, Flags
  <1>4. Found' /\ Probed' /\ Asked'
    BY <1>1, <1>2, Sizes DEF Counts, Found, FoundIsConnected, Probed, Asked
  <1>5. Ordered'
    BY <1>1, <1>2, Sizes DEF Counts, Found, Asked, Ordered, Undisturbed, Taken, Copying
  <1>6. Drained' /\ SectorDelivered'
    BY <1>1, <1>2, <1>3, <1>4 DEF Typed, Counts, Drained, Found, Probed, Asked, SectorDelivered,
                             Ordered, Undisturbed
  <1> QED BY <1>3, <1>4, <1>5, <1>6 DEF IdeInv

(* A device that has finished takes the command. *)
LEMMA CommandKeeps ==
  ASSUME IdeInv, Command
  PROVE  IdeInv'
  <1> USE DEF Command, Issue, device, probe, args, read, past
  <1>1. TypeOK /\ Places /\ Flags /\ Counts
    BY DEF IdeInv, Typed
  <1>2. Found /\ Probed /\ Asked /\ Ordered /\ Drained /\ SectorDelivered
    BY DEF IdeInv
  <1>3. Typed'
    BY <1>1, Sizes DEF Typed, TypeOK, Places, Flags, Counts, Crops
  <1>4. Found' /\ Probed' /\ Asked'
    BY <1>1, <1>2, Sizes DEF Counts, Found, FoundIsConnected, Probed, Asked
  <1>5. Ordered'
    BY <1>1, <1>2, Sizes DEF Counts, Found, Asked, Ordered, Undisturbed, Taken, Copying
  <1>6. Drained' /\ SectorDelivered'
    BY <1>1, <1>2, <1>3, <1>4 DEF Typed, Counts, Drained, Found, Probed, Asked, SectorDelivered,
                             Ordered, Undisturbed
  <1> QED BY <1>3, <1>4, <1>5, <1>6 DEF IdeInv

(* The packet is sent only to a device that asks for it. *)
LEMMA PollKeeps ==
  ASSUME IdeInv, Poll
  PROVE  IdeInv'
  <1> USE DEF Poll, device, probe, args, read, past
  <1>1. TypeOK /\ Places /\ Flags /\ Counts
    BY DEF IdeInv, Typed
  <1>2. Found /\ Probed /\ Asked /\ Ordered /\ Drained /\ SectorDelivered
    BY DEF IdeInv
  <1>3. Typed'
    BY <1>1, Sizes DEF Typed, TypeOK, Places, Flags, Counts, Crops
  <1>4. /\ probes > 0 /\ probes # 0 /\ reads > 0 /\ reads # 0
        /\ exists /\ type = "atapi" /\ kind = "packet"
    BY <1>1, <1>2 DEF Found, Counts
  <1>5. Found'
    BY <1>4, <1>2 DEF Found, FoundIsConnected
  <1>6. Probed'
    BY <1>4, <1>2 DEF Probed
  <1>7. Asked'
    BY <1>1, <1>2, Sizes DEF Counts, Found, Probed, Asked

  <1>8. Ordered'
    <2>1. CASE PollResult = 0
      <3>1. pc' = "packet" /\ phase \in {"packet", "data"}
        BY <1>4, <2>1 DEF PollResult, BSY, DRQ, ERR
      <3> QED BY <1>2, <3>1 DEF Ordered, Undisturbed
    <2>2. CASE PollResult # 0
      BY <1>2, <2>2 DEF Ordered, Undisturbed
    <2> QED BY <2>1, <2>2
  <1>9. Drained'
    <2>1. CASE PollResult = 0
      BY <1>3, <2>1 DEF Typed, Drained
    <2>2. CASE PollResult # 0
      <3>1. phase \notin {"busy", "packet"}
        BY <1>4, <2>2 DEF PollResult, BSY, DRQ, ERR, DEVF
      <3> QED BY <1>3, <1>4, <1>2, <3>1 DEF Typed, Drained, Ordered
    <2> QED BY <2>1, <2>2
  <1>10. SectorDelivered'
    BY <1>1, <1>2 DEF Counts, Found, Asked, SectorDelivered, Ordered, Undisturbed, Copying
  <1> QED BY <1>3, <1>5, <1>6, <1>7, <1>8, <1>9, <1>10 DEF IdeInv

(* The device takes the packet, with no interrupt pending. *)
LEMMA PacketKeeps ==
  ASSUME IdeInv, Packet
  PROVE  IdeInv'
  <1> USE DEF Packet, device, probe, args, read, past
  <1>1. TypeOK /\ Places /\ Flags /\ Counts
    BY DEF IdeInv, Typed
  <1>2. Found /\ Probed /\ Asked /\ Ordered /\ Drained /\ SectorDelivered
    BY DEF IdeInv
  <1>3. Typed'
    BY <1>1, Sizes DEF Typed, TypeOK, Places, Flags, Counts, Crops
  <1>4. Found' /\ Probed' /\ Asked'
    BY <1>1, <1>2, Sizes DEF Counts, Found, FoundIsConnected, Probed, Asked
  <1>5. Ordered'
    BY <1>1, <1>2, Sizes DEF Counts, Found, Asked, Ordered, Undisturbed, Taken, Copying
  <1>6. Drained' /\ SectorDelivered'
    BY <1>1, <1>2, <1>3, <1>4 DEF Typed, Counts, Drained, Found, Probed, Asked, SectorDelivered,
                             Ordered, Undisturbed
  <1> QED BY <1>3, <1>4, <1>5, <1>6 DEF IdeInv

(* ataLock, tested, means that the device has answered this packet. *)
LEMMA WaitKeeps ==
  ASSUME IdeInv, Wait
  PROVE  IdeInv'
  <1> USE DEF Wait, device, probe, args, read, past
  <1>1. TypeOK /\ Places /\ Flags /\ Counts
    BY DEF IdeInv, Typed
  <1>2. Found /\ Probed /\ Asked /\ Ordered /\ Drained /\ SectorDelivered
    BY DEF IdeInv
  <1>3. Typed'
    BY <1>1, Sizes DEF Typed, TypeOK, Places, Flags, Counts, Crops
  <1>4. Found' /\ Probed' /\ Asked'
    BY <1>1, <1>2, Sizes DEF Counts, Found, FoundIsConnected, Probed, Asked
  <1>5. Ordered'
    BY <1>1, <1>2, Sizes DEF Counts, Found, Asked, Ordered, Undisturbed, Taken, Copying
  <1>6. Drained' /\ SectorDelivered'
    BY <1>1, <1>2, <1>3, <1>4 DEF Typed, Counts, Drained, Found, Probed, Asked, SectorDelivered,
                             Ordered, Undisturbed
  <1> QED BY <1>3, <1>4, <1>5, <1>6 DEF IdeInv

(* Halting changes nothing. *)
LEMMA HaltKeeps ==
  ASSUME IdeInv, Halt
  PROVE  IdeInv'
  <1> USE DEF Halt, device, probe, args, read, past
  <1>1. TypeOK /\ Places /\ Flags /\ Counts
    BY DEF IdeInv, Typed
  <1>2. Found /\ Probed /\ Asked /\ Ordered /\ Drained /\ SectorDelivered
    BY DEF IdeInv
  <1>3. Typed'
    BY <1>1, Sizes DEF Typed, TypeOK, Places, Flags, Counts, Crops
  <1>4. Found' /\ Probed' /\ Asked'
    BY <1>1, <1>2, Sizes DEF Counts, Found, FoundIsConnected, Probed, Asked
  <1>5. Ordered'
    BY <1>1, <1>2, Sizes DEF Counts, Found, Asked, Ordered, Undisturbed, Taken, Copying
  <1>6. Drained' /\ SectorDelivered'
    BY <1>1, <1>2, <1>3, <1>4 DEF Typed, Counts, Drained, Found, Probed, Asked, SectorDelivered,
                             Ordered, Undisturbed
  <1> QED BY <1>3, <1>4, <1>5, <1>6 DEF IdeInv

(* The byte count is read of a device that has the sector, or an error. *)
LEMMA ReadSizeKeeps ==
  ASSUME IdeInv, ReadSize
  PROVE  IdeInv'
  <1> USE DEF ReadSize, device, probe, args, read, past
  <1>1. TypeOK /\ Places /\ Flags /\ Counts
    BY DEF IdeInv, Typed
  <1>2. Found /\ Probed /\ Asked /\ Ordered /\ Drained /\ SectorDelivered
    BY DEF IdeInv
  <1>3. Typed'
    BY <1>1, Sizes DEF Typed, TypeOK, Places, Flags, Counts, Crops
  <1>4. Found' /\ Probed' /\ Asked'
    BY <1>1, <1>2, Sizes DEF Counts, Found, FoundIsConnected, Probed, Asked
  <1>5. Ordered'
    BY <1>1, <1>2, Sizes DEF Counts, Found, Asked, Ordered, Undisturbed, Taken, Copying
  <1>6. Drained' /\ SectorDelivered'
    BY <1>1, <1>2, <1>3, <1>4 DEF Typed, Counts, Drained, Found, Probed, Asked, SectorDelivered,
                             Ordered, Undisturbed
  <1> QED BY <1>3, <1>4, <1>5, <1>6 DEF IdeInv

(* The loop takes the sector word by word, then reads a device that is done. *)
LEMMA CopyKeeps ==
  ASSUME IdeInv, Copy
  PROVE  IdeInv'
  <1> USE DEF Copy, device, probe, args, read, past
  <1>1. TypeOK /\ Places /\ Flags /\ Counts
    BY DEF IdeInv, Typed
  <1>2. Found /\ Probed /\ Asked /\ Ordered /\ Drained /\ SectorDelivered
    BY DEF IdeInv
  <1>3. /\ probes > 0 /\ probes # 0 /\ reads > 0 /\ reads # 0
        /\ exists /\ type = "atapi" /\ kind = "packet"
        /\ result = "none" /\ DOMAIN stored = {k \in 0..(i - 1) : k < crop}
    BY <1>1, <1>2 DEF Found, Counts, Asked
  <1>4. i \in Nat /\ crop \in Nat /\ size \in Nat /\ left \in Nat
    <2>1. size \in 0..(2 * SizeBytes)
      BY <1>1 DEF TypeOK
    <2> QED BY <1>1, <2>1, Holding, Sizes DEF Counts, Crops
  <1>5. /\ phase = "data" => left <= SectorWords
        /\ phase = "busy" => command \in {"packet", "read"}
    BY <1>3, <1>2 DEF Asked
  <1>6. Typed'
    <2>1. /\ phase' \in {"ready", "data", "finishing", "busy", "packet", "error", "fault"}
          /\ left' \in 0..(BufWords + SectorWords) /\ (phase' = "data" <=> left' > 0)
      BY <1>1, Holding, Sizes DEF InW
    <2>2. ASSUME NEW k \in DOMAIN stored' PROVE stored'[k][2] \in 0..SectorWords
      <3>1. Word[2] \in 0..SectorWords
        <4>1. CASE phase = "data"
          <5>1. SectorWords - left \in 0..SectorWords
            BY <1>4, <1>5, <4>1, Sizes
          <5> QED BY <4>1, <5>1 DEF Word
        <4>2. CASE phase # "data"
          BY <4>2, Sizes DEF Word
        <4> QED BY <4>1, <4>2
      <3>2. CASE stored' = stored
        BY <1>1, <2>2, <3>2 DEF TypeOK
      <3>3. CASE i < crop /\ stored' = [n \in 0..i |-> IF n = i THEN Word ELSE stored[n]]
        <4>1. k \in 0..i /\ (k = i \/ k \in DOMAIN stored)
          BY <1>3, <1>4, <2>2, <3>3
        <4> QED BY <1>1, <3>1, <3>3, <4>1 DEF TypeOK
      <3> QED BY <1>4, <3>2, <3>3
    <2>3. TypeOK'
      BY <1>1, <2>1, <2>2, Sizes DEF TypeOK
    <2> QED BY <1>1, <2>3, Sizes DEF Typed, Places, Flags, Counts, InW
  <1>7. Found'
    BY <1>3, <1>2 DEF Found, FoundIsConnected, InW
  <1>8. Probed'
    BY <1>3, <1>2 DEF Probed
  <1>9. Asked'
    <2>1. CASE CopyGoesOn(i)
      <3>1. /\ phase' = "data" => left' <= SectorWords
            /\ phase' = "busy" => command' \in {"packet", "read"}
        BY <1>4, <1>5, <2>1, Sizes DEF InW
      <3>2. DOMAIN stored' = {k \in 0..(i' - 1) : k < crop'}
        <4>1. CASE i >= crop
          BY <1>3, <1>4, <2>1, <4>1
        <4>2. CASE i < crop
          <5>1. DOMAIN stored' = 0..i
            BY <1>4, <2>1, <4>2
          <5>2. 0..i = {k \in 0..(i' - 1) : k < crop'}
            BY <1>4, <2>1, <4>2
          <5> QED BY <5>1, <5>2
        <4> QED BY <1>4, <4>1, <4>2
      <3> QED BY <1>3, <2>1, <3>1, <3>2 DEF Asked
    <2>2. CASE ~CopyGoesOn(i)
      BY <1>3, <1>2, <2>2 DEF Asked
    <2> QED BY <2>1, <2>2
  <1>10. Ordered'
    <2>1. CASE CopyGoesOn(i)
      <3>1. SUFFICES ASSUME Undisturbed PROVE Copying'
        BY <2>1 DEF Ordered, Undisturbed
      <3>2. Copying
        BY <1>2, <3>1 DEF Ordered
      <3>3. CASE phase \in {"error", "fault"}
        BY <2>1, <3>2, <3>3 DEF Copying, InW
      <3>4. CASE phase \notin {"error", "fault"}
        <4>1. /\ asked = lba /\ ~faulted /\ size = SizeBytes
              /\ IF i < SectorWords THEN phase = "data" /\ left = SectorWords - i
                                    ELSE phase \in {"finishing", "ready"}
              /\ \A k \in 0..(SectorWords - 1) : k < i /\ k < crop => stored[k] = <<lba, k>>
          BY <3>2, <3>4 DEF Copying
        <4>2. IF i' < SectorWords THEN phase' = "data" /\ left' = SectorWords - i'
                                  ELSE phase' \in {"finishing", "ready"}
          BY <1>4, <2>1, <4>1, Sizes DEF InW
        <4>3. ASSUME NEW k \in 0..(SectorWords - 1), k < i', k < crop
              PROVE  stored'[k] = <<lba, k>>
          <5>1. CASE k = i
            <6>1. Word = <<lba, k>>
              BY <1>4, <4>1, <4>3, <5>1, Sizes DEF Word
            <6> QED BY <1>4, <2>1, <4>3, <5>1, <6>1
          <5>2. CASE k # i
            BY <1>4, <2>1, <4>1, <4>3, <5>2, Sizes
          <5> QED BY <5>1, <5>2
        <4> QED BY <2>1, <4>1, <4>2, <4>3 DEF Copying, InW
      <3> QED BY <3>3, <3>4
    <2>2. CASE ~CopyGoesOn(i)
      BY <2>2 DEF Ordered
    <2> QED BY <2>1, <2>2
  <1>11. ASSUME ~CopyGoesOn(i), Undisturbed, ~faulted
         PROVE  Copying /\ i >= SectorWords /\ phase \in {"finishing", "ready"}
    BY <1>2, <1>4, <1>11, Sizes DEF Ordered, Copying, CopyGoesOn
  <1>12. Drained'
    BY <1>6, <1>3, <1>2, <1>4, <1>11 DEF Typed, Drained, Ordered, Undisturbed, Copying
  <1>13. SectorDelivered'
    <2>1. CASE CopyGoesOn(i)
      BY <1>3, <2>1 DEF SectorDelivered
    <2>2. CASE ~CopyGoesOn(i)
      <3>1. SUFFICES ASSUME Undisturbed, ~faulted, NEW k \in 0..(SectorWords - 1), k < crop
                     PROVE  k \in DOMAIN stored /\ stored[k] = <<lba, k>>
        BY <2>2 DEF SectorDelivered, Undisturbed
      <3> QED BY <1>3, <1>4, <1>11, <2>2, <3>1, Sizes DEF Copying
    <2> QED BY <2>1, <2>2
  <1> QED BY <1>6, <1>7, <1>8, <1>9, <1>10, <1>12, <1>13 DEF IdeInv

(* An interrupt of line 14 in a read means the answer to its packet. *)
LEMMA Irq14Keeps ==
  ASSUME IdeInv, Irq14
  PROVE  IdeInv'
  <1> USE DEF Irq14, Wake, device, probe, args, read, past
  <1>1. TypeOK /\ Places /\ Flags /\ Counts
    BY DEF IdeInv, Typed
  <1>2. Found /\ Probed /\ Asked /\ Ordered /\ Drained /\ SectorDelivered
    BY DEF IdeInv
  <1>3. Typed'
    <2>1. TypeOK'
      BY <1>1 DEF TypeOK
    <2>2. Places' /\ Flags' /\ Counts'
      BY <1>1 DEF Places, Flags, Counts, Crops
    <2> QED BY <2>1, <2>2 DEF Typed
  <1>4. Found' /\ Probed' /\ Asked'
    BY <1>1, <1>2, Sizes DEF Counts, Found, FoundIsConnected, Probed, Asked
  <1>5. Ordered'
    BY <1>1, <1>2, Sizes DEF Counts, Found, Asked, Ordered, Undisturbed, Taken, Copying
  <1>6. Drained' /\ SectorDelivered'
    BY <1>1, <1>2, <1>3, <1>4 DEF Typed, Counts, Drained, Found, Probed, Asked, SectorDelivered,
                             Ordered, Undisturbed
  <1> QED BY <1>3, <1>4, <1>5, <1>6 DEF IdeInv

(* After an interrupt of line 15 the read is not Undisturbed. *)
LEMMA Irq15Keeps ==
  ASSUME IdeInv, Irq15
  PROVE  IdeInv'
  <1> USE DEF Irq15, Wake, device, probe, args, read, past
  <1>1. TypeOK /\ Places /\ Flags /\ Counts
    BY DEF IdeInv, Typed
  <1>2. Found /\ Probed /\ Asked /\ Ordered /\ Drained /\ SectorDelivered
    BY DEF IdeInv
  <1>3. Typed'
    BY <1>1, Sizes DEF Typed, TypeOK, Places, Flags, Counts, Crops
  <1>4. Found' /\ Probed' /\ Asked'
    BY <1>1, <1>2, Sizes DEF Counts, Found, FoundIsConnected, Probed, Asked
  <1>5. Ordered'
    BY <1>1, <1>2, Sizes DEF Counts, Found, Asked, Ordered, Undisturbed, Taken, Copying
  <1>6. Drained' /\ SectorDelivered'
    BY <1>1, <1>2, <1>3, <1>4 DEF Typed, Counts, Drained, Found, Probed, Asked, SectorDelivered,
                             Ordered, Undisturbed
  <1> QED BY <1>3, <1>4, <1>5, <1>6 DEF IdeInv

(* A tick ends hlt, not the wait. *)
LEMMA TimerKeeps ==
  ASSUME IdeInv, Timer
  PROVE  IdeInv'
  <1> USE DEF Timer, Wake, device, probe, args, read, past
  <1>1. TypeOK /\ Places /\ Flags /\ Counts
    BY DEF IdeInv, Typed
  <1>2. Found /\ Probed /\ Asked /\ Ordered /\ Drained /\ SectorDelivered
    BY DEF IdeInv
  <1>3. Typed'
    BY <1>1, Sizes DEF Typed, TypeOK, Places, Flags, Counts, Crops
  <1>4. Found' /\ Probed' /\ Asked'
    BY <1>1, <1>2, Sizes DEF Counts, Found, FoundIsConnected, Probed, Asked
  <1>5. Ordered'
    BY <1>1, <1>2, Sizes DEF Counts, Found, Asked, Ordered, Undisturbed, Taken, Copying
  <1>6. Drained' /\ SectorDelivered'
    BY <1>1, <1>2, <1>3, <1>4 DEF Typed, Counts, Drained, Found, Probed, Asked, SectorDelivered,
                             Ordered, Undisturbed
  <1> QED BY <1>3, <1>4, <1>5, <1>6 DEF IdeInv

(* The device answers what it was asked. *)
LEMMA AnswerKeeps ==
  ASSUME IdeInv, Answer
  PROVE  IdeInv'
  <1> USE DEF Answer, Identified, PacketWanted, SectorReady, device, probe, args, read, past
  <1>1. TypeOK /\ Places /\ Flags /\ Counts
    BY DEF IdeInv, Typed
  <1>2. Found /\ Probed /\ Asked /\ Ordered /\ Drained /\ SectorDelivered
    BY DEF IdeInv
  <1>3. Typed'
    <2>1. /\ phase' \in {"data", "packet", "error", "fault"}
          /\ IF phase' = "data" THEN left' \in {BufWords, SectorWords} ELSE left' = left
      OBVIOUS
    <2>2. phase = "busy" /\ left \in 0..(BufWords + SectorWords) /\ ~(left > 0)
      BY <1>1, Holding
    <2>3. left' \in 0..(BufWords + SectorWords) /\ (phase' = "data" <=> left' > 0)
      <3>1. CASE phase' = "data"
        BY <2>1, <3>1, Sizes
      <3>2. CASE phase' # "data"
        BY <2>1, <2>2, <3>2
      <3> QED BY <3>1, <3>2
    <2>4. TypeOK'
      BY <1>1, <2>1, <2>3 DEF TypeOK
    <2>5. UNCHANGED <<i, crop, probes, reads, foreign, before>>
      OBVIOUS
    <2>6. Counts'
      BY <1>1, <2>5 DEF Counts
    <2>7. Places'
      BY <1>1 DEF Places
    <2>8. irq' \in {irq, TRUE} /\ faulted' \in {faulted, TRUE}
      OBVIOUS
    <2>9. Flags'
      BY <1>1, <2>8 DEF Flags
    <2> QED BY <2>4, <2>6, <2>7, <2>9 DEF Typed
  <1>4. Found'
    BY <1>1, <1>2 DEF Counts, Found, FoundIsConnected
  <1>5. Probed'
    BY <1>1, <1>2, Sizes DEF Counts, Found, Probed

  <1>6. Asked'
    <2>0. UNCHANGED <<pc, reads, result, i, stored, crop>>
      OBVIOUS
    <2>1. phase' # "busy"
      OBVIOUS
    <2>2. reads' > 0 /\ phase' = "data" => left' = SectorWords
      BY <1>2 DEF Asked, Found
    <2> QED BY <1>2, <2>0, <2>1, <2>2, Sizes DEF Asked
  <1>7. Ordered'
    <2>1. UNCHANGED <<pc, late, foreign, before, ataLock, lba, asked>>
      OBVIOUS
    <2>2. ~late => pc \notin {"command", "packet"}
      BY <1>2 DEF Ordered
    <2>3. Undisturbed => pc \notin {"copy", "size"}
      BY <1>2 DEF Ordered, Taken, Copying
    <2>4. (~late /\ pc = "poll" =>
       /\ ~faulted
       /\ \/ phase = "busy" /\ command = "packet" /\ ~irq
          \/ phase = "packet" /\ ~irq
          \/ phase \in {"error", "fault"})'
      <3>1. ~late /\ pc = "poll" => command = "packet" /\ ~irq /\ ~faulted
        BY <1>2 DEF Ordered
      <3>2. ~late /\ pc = "poll" =>
              ~faulted' /\ ((phase' = "packet" /\ ~irq') \/ phase' \in {"error", "fault"})
        BY <3>1
      <3> QED BY <2>1, <3>2
    <2>5. (Undisturbed /\ pc = "poll" => ~ataLock \/ phase \in {"error", "fault"})'
      BY <1>2, <2>1, <2>4 DEF Ordered, Undisturbed
    <2>6. (~late /\ pc \in Waiting => Taken)'
      <3>1. ~late /\ pc \in Waiting => asked = lba /\ command = "read" /\ ~faulted
        BY <1>2 DEF Ordered, Taken
      <3>2. ~late /\ pc \in Waiting => SectorReady
        BY <3>1
      <3>3. SectorReady => \/ phase' = "data" /\ left' = SectorWords /\ faulted' = faulted
                           \/ phase' \in {"error", "fault"} /\ faulted' = TRUE
        OBVIOUS
      <3> QED BY <2>1, <3>1, <3>2, <3>3 DEF Taken
    <2>7. phase' # "busy"
      OBVIOUS
    <2> QED BY <2>1, <2>2, <2>3, <2>4, <2>5, <2>6, <2>7 DEF Ordered, Undisturbed
  <1>8. Drained'
    BY <1>1, <1>2, <1>3 DEF Typed, Counts, Drained, Found, Probed, Ordered, Undisturbed
  <1>9. SectorDelivered'
    BY <1>1, <1>2 DEF Counts, Found, Asked, SectorDelivered, Ordered, Undisturbed, Copying
  <1> QED BY <1>3, <1>4, <1>5, <1>6, <1>7, <1>8, <1>9 DEF IdeInv

(* The last interrupt of a sector comes when the loop has taken all of it. *)
LEMMA FinishKeeps ==
  ASSUME IdeInv, Finish
  PROVE  IdeInv'
  <1> USE DEF Finish, device, probe, args, read, past
  <1>1. TypeOK /\ Places /\ Flags /\ Counts
    BY DEF IdeInv, Typed
  <1>2. Found /\ Probed /\ Asked /\ Ordered /\ Drained /\ SectorDelivered
    BY DEF IdeInv
  <1>3. Typed'
    BY <1>1, Sizes DEF Typed, TypeOK, Places, Flags, Counts, Crops
  <1>4. Found' /\ Probed' /\ Asked'
    BY <1>1, <1>2, Sizes DEF Counts, Found, FoundIsConnected, Probed, Asked
  <1>5. Ordered'
    BY <1>1, <1>2, Sizes DEF Counts, Found, Asked, Ordered, Undisturbed, Taken, Copying
  <1>6. Drained' /\ SectorDelivered'
    BY <1>1, <1>2, <1>3, <1>4 DEF Typed, Counts, Drained, Found, Probed, Asked, SectorDelivered,
                             Ordered, Undisturbed
  <1> QED BY <1>3, <1>4, <1>5, <1>6 DEF IdeInv

(* Every step keeps the inductive invariant. *)
LEMMA IdeNext ==
  ASSUME IdeInv, [Next]_vars
  PROVE  IdeInv'
  <1>1. CASE Next
    BY <1>1, StartKeeps, PresentKeeps, SpinKeeps, SignatureKeeps, PollIdentifyKeeps, SleepKeeps,
       IdentificationKeeps, CallKeeps, CommandKeeps, PollKeeps, PacketKeeps, WaitKeeps, HaltKeeps,
       ReadSizeKeeps, CopyKeeps, Irq14Keeps, Irq15Keeps, TimerKeeps, AnswerKeeps, FinishKeeps
       DEF Next, Probe, Read, Device
  <1>2. CASE UNCHANGED vars
    BY <1>2 DEF vars, device, probe, args, read, past, IdeInv, Typed, TypeOK, Places, Flags, Counts,
            Found, FoundIsConnected, Probed, Asked, Ordered, Undisturbed, Taken, Copying, Drained,
            SectorDelivered, SizeBytes, Crops
  <1> QED BY <1>1, <1>2

(* The inductive invariant holds of every state of the driver and device.  *)
THEOREM IdeInvariant == Spec => []IdeInv
  BY IdeInit, IdeNext, PTL DEF Spec

(* The types of the variables, whatever the sizes (TypeOK is in Typed).    *)
THEOREM TypeCorrect == Spec => []TypeOK
  <1>1. IdeInv => TypeOK
    BY DEF IdeInv, Typed
  <1> QED BY <1>1, IdeInvariant, PTL

(* ide.c:130 reads an uninitialised error and ide.c:81 does not clear the  *)
(* record; the probe finds all the same whether something is connected     *)
(* and whether that is a packet device, whatever it answers and whenever.  *)
THEOREM ProbeFinds == Spec => []FoundIsConnected
  <1>1. IdeInv => FoundIsConnected
    BY DEF IdeInv, Found
  <1> QED BY <1>1, IdeInvariant, PTL

(* A read that neither a failure, nor its own haste, nor line 15 disturbed *)
(* has stored the sector asked for, word by word.                          *)
THEOREM ReadDelivers == Spec => []SectorDelivered
  <1>1. IdeInv => SectorDelivered
    BY DEF IdeInv
  <1> QED BY <1>1, IdeInvariant, PTL

(* Neither a probe nor such a read leaves words or work in the device.     *)
THEOREM LeavesNothing == Spec => []Drained
  <1>1. IdeInv => Drained
    BY DEF IdeInv
  <1> QED BY <1>1, IdeInvariant, PTL
=============================================================================
